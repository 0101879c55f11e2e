CONSTANTS
  p1 = p1  p2 = p2
  o1 = o1  o2 = o2  o3 = o3  o4 = o4
  NoOp = NoOp  NoOwner = NoOwner
  Producers = {p1}
  Port0 = p1
  QueueNum = 1
  QueueMaxCapacity = 1
  Ops = {o1, o2}
  Objects = {"a"}
  Obj <- OneObj
  Via <- StopVia
  Kind <- StopKind
  Hash <- OneHash
  HasWrite = {}
  LimitWrite = FALSE
  MaxSpurious = 0
SPECIFICATION FairSpec
PROPERTIES OsaFinishReturns
CHECK_DEADLOCK FALSE
