SPECIFICATION Spec
CONSTANTS
  c1 = c1
  c2 = c2
  c3 = c3
  Keys <- MCTwoServers
  Calls <- MCThree
  Limit = 1
  None = None
SYMMETRY MCSymmetry
INVARIANTS PrunedNeverCached SlotsAreFetches FreshAfterRefresh ErrorHasNoLinks WaitersAreServed
PROPERTIES NewerReplacesOlder ImplementsStore
