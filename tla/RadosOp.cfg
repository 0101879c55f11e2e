CONSTANTS
  Page = 2
  PerSgl = 2
  Chains <- MCChains
  Lens <- MCLens
  MaxCalls = 2
SPECIFICATION Spec
INVARIANTS SubOpsFaithful ReadExact StrayExplained NoUseAfterRelease
