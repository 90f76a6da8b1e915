SPECIFICATION Spec
CONSTANTS
  Requests = {r1,r2,r3}
  Users = {u1,u2}
  Names = {n1}
  OldIds = {}
  u1 = u1
  u2 = u2
  n1 = n1
  n2 = n2
  o1 = o1
  None = None
  Limit = 1
  Kinds = {"shared query"}
  Starts <- SharedStarts
  MaxOwned = 1
  Manages <- Managers
  LockTicks = 1
  LockTries = 1
  LockRounds = 1
  MaxFaults = 0
PROPERTY SaversRemove
CHECK_DEADLOCK FALSE
