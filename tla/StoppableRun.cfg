SPECIFICATION LiveSpec
CONSTANTS
  r1 = r1
  r2 = r2
  i1 = i1
  Runs = {r1,r2}
  Cancels = {c1,c2}
  Ids = {i1}
  Conns = {b1,b2}
  None = None
  NoBackend = NoBackend
  PoolSize = 1
  Calls <- TwoRuns
  Statements = 2
  Retries = 1
  MaxFaults = 1

INVARIANTS TypeOK SignalsOwn NoMeansWhole
PROPERTIES StaysStoppable NothingSentOnceCancelled EveryCancelAnswered
CHECK_DEADLOCK FALSE
