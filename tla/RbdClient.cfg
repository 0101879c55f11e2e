CONSTANTS
  t1 = t1  t2 = t2  t3 = t3
  NoThread = NoThread
  Threads = {t1, t2}
  Calls = 2
  ConnectRetry = 2
SPECIFICATION FairSpec
INVARIANTS ClientUp NotLeftUp
PROPERTIES CallReturns
CHECK_DEADLOCK FALSE
