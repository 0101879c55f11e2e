CONSTANTS
  c1 = c1  c2 = c2
  o1 = o1  o2 = o2  o3 = o3
  u1 = u1  u2 = u2
  None = None  BadPool = BadPool
  Ops = {o1, o2, o3}
  CallerOf <- MCCallerOf
  PoolNum = 1
  OpPool <- OnePool
  Users = {u1, u2}
  UserPool <- MCUserPool
  UserTable <- MCUserTable
  MaxCount = 1
  Faults = {"alloc", "thread", "ioctx", "aio"}
SPECIFICATION FairSpec
INVARIANTS TypeOK CompletedOnce NothingLeftBehind ContextLive
PROPERTIES PoolFifo EveryOpCompleted ShutdownReturns
CHECK_DEADLOCK FALSE
