SPECIFICATION LiveSpec
CONSTANTS
  Requests = {r1,r2}
  Replicas = {p1,p2}
  Old = {s1,s2}
  s1 = s1
  r1 = r1
  p1 = p1
  Reaches <- Apart
  s2 = s2
  Starts <- SomeStarts
  None = None
  MaxPerIdentity = 1
  Ttl = 1
  MaxClock = 2
  MaxFaults = 1

INVARIANTS TypeOK AccountBounded ListedWhileAlive
PROPERTIES EndedForGood EvictsForRoomOnly PoolsReleased
CHECK_DEADLOCK FALSE
