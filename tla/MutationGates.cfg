SPECIFICATION FairSpec
CONSTANTS
  o1 = o1
  o2 = o2
  o3 = o3
  g1 = g1
  g2 = g2
  Ops <- MCOps
  Keys <- MCTwoKeys
  Plans <- MCTwoKeyPlans
  Heap <- MCPairHeap
  None = None
INVARIANTS RefsAreUsers
PROPERTIES ImplementsGates EveryMutationEnds
