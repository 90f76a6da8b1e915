SPECIFICATION Spec
CONSTANTS
  Requests = {r1,r2,r3,r4}
  Sessions = {s1}
  Enrolments = {e1,e2}
  Account = Account
  None = None
  NoSecret = NoSecret
  NoFactor = NoFactor
  MaxMisses = 2
  LockTicks = 2
  EnrolTicks = 2
  ChallengeTicks = 1
  MaxClock = 1
  MaxCounter = 1
  Ops = {"begin key","confirm key","remove app","reset"}
  Starts = {"app"}
  Offers = {"none"}
SYMMETRY Symmetry
PROPERTY RemovalCompared
CHECK_DEADLOCK FALSE
