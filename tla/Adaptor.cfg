CONSTANTS
  rgw = rgw
  lock = lock
  a = a
  b = b
  t1 = t1
  t2 = t2
  Main = Main
  NoThread = NoThread
  NoClass = NoClass
  Classes <- MCClasses
  Deps <- MCDeps
  Inits <- MCInits
  LoadList <- MCLoadList
  ClassList <- MCClassList
  Callers <- MCCallers
  Ports = 2
  MaxLives = 2
SPECIFICATION FairSpec
INVARIANTS OpenClosure LoadedOnce InitHonest NullOnlyAtStart HandlerFollowsModule
PROPERTIES ServerJoined CallAnswered
CHECK_DEADLOCK FALSE
