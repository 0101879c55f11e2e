CONSTANTS
  p1 = p1  p2 = p2
  o1 = o1  o2 = o2  o3 = o3  o4 = o4
  NoOp = NoOp  NoOwner = NoOwner
  Producers = {p1, p2}
  Port0 = p1
  QueueNum = 1
  QueueMaxCapacity = 1
  Ops = {o1, o2, o3, o4}
  Objects = {"a"}
  Obj <- OneObj
  Via <- MCVia
  Kind <- OneKind
  Hash <- OneHash
  HasWrite = {o2, o3}
  LimitWrite = TRUE
  MaxSpurious = 1
SPECIFICATION FairSpec
INVARIANTS QueueBound TimestampsAligned AnsweredOnce
PROPERTIES CopyupBarrier ImplementsFifo EveryOpAnswered
CHECK_DEADLOCK FALSE
