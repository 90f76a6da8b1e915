SPECIFICATION LiveSpec
CONSTANTS
  Requests = {r1,r2}
  Users = {u1,u2}
  Names = {n1,n2}
  OldIds = {}
  u1 = u1
  u2 = u2
  n1 = n1
  n2 = n2
  o1 = o1
  None = None
  Limit = 1
  Kinds = {"shared query","group"}
  Starts <- SharedStarts
  MaxOwned = 1
  Manages <- Managers
  LockTicks = 1
  LockTries = 1
  LockRounds = 2
  MaxFaults = 1
INVARIANT BusyBehindTwo
PROPERTIES  OwnersKept EveryRequestAnswered
CHECK_DEADLOCK FALSE
