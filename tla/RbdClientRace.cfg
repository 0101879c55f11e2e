CONSTANTS
  t1 = t1  t2 = t2  t3 = t3
  NoThread = NoThread
  Threads = {t1, t2, t3}
  Calls = 1
  ConnectRetry = 2
SPECIFICATION Spec
INVARIANTS ClientUp
CHECK_DEADLOCK FALSE
