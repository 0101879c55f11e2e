CONSTANTS
  a = a  b = b
  None = None
  Pools = {a, b}
  OwnUnit = {b}
  MaxFailures = 2
  MaxChanges = 1
SPECIFICATION FairSpec
INVARIANTS UsageFresh CleanRoundExact
PROPERTIES KnownPoolStays PoolReported StopReturns
CHECK_DEADLOCK FALSE
