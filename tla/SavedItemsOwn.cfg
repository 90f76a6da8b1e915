SPECIFICATION Spec
CONSTANTS
  Requests = {r1,r2}
  Users = {u1}
  Names = {n1,n2}
  OldIds = {o1}
  u1 = u1
  u2 = u2
  n1 = n1
  n2 = n2
  o1 = o1
  None = None
  Limit = 1
  Kinds = {"own"}
  Starts <- OwnStarts
  MaxOwned = 1
  Manages <- Managers
  LockTicks = 2
  LockTries = 2
  LockRounds = 2
  MaxFaults = 1
SYMMETRY Symmetric
INVARIANTS TypeOK AnswersAreTrue
 
CHECK_DEADLOCK FALSE
