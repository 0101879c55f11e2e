CONSTANTS
  a = a  b = b
  None = None
  Pools = {a, b}
  OwnUnit = {b}
  MaxFailures = 1
  MaxChanges = 0
SPECIFICATION Spec
INVARIANTS NoGonePools
CHECK_DEADLOCK FALSE
