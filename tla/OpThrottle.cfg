CONSTANTS
  h1 = h1  h2 = h2  h3 = h3
  o1 = o1  o2 = o2  o3 = o3  o4 = o4  o5 = o5  o6 = o6
  Handlers = {h1, h2, h3}
  Ops = {o1, o2, o3, o4, o5, o6}
  HandlerOf <- MCHandlerOf
  Kind <- MCKind
  Length <- MCLength
  Throttle = 2
  OpThrottles <- MCOpThrottles
  BWThrottles <- MCBWThrottles
  Width = 16
SPECIFICATION FairSpec
INVARIANTS LwtLedger ClassLedger AdmissionBound BandwidthBound
PROPERTIES EveryOpFinishes
CHECK_DEADLOCK FALSE
