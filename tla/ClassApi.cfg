CONSTANTS
  Keys <- MCKeys
  Values <- MCValues
  NumOps = 2
  MaxCalls = 2
SPECIFICATION Spec
INVARIANTS CallExact OpsRestored
PROPERTIES CopyupKeepsData
