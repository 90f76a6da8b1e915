\* Three requests, three enrolments to draw, and windows that close and open within three ticks of the clock.
SPECIFICATION ScenesSpec
CONSTANTS
  Requests = {r1,r2,r3}
  Sessions = {s1}
  Enrolments = {e1,e2,e3}
  Account = Account
  None = None
  NoSecret = NoSecret
  NoFactor = NoFactor
  MaxMisses = 2
  LockTicks = 2
  EnrolTicks = 2
  ChallengeTicks = 1
  MaxClock = 3
  MaxCounter = 1
  Ops <- AllOps
  Starts = {"none","app","key"}
  Offers = {"none","app","key"}
SYMMETRY Symmetry
INVARIANTS TypeOK ProofSpentOnce GuessesBounded NeverMethodless
PROPERTIES RegisterSpec ConfirmsAsOffered MethodsKept
CHECK_DEADLOCK FALSE
