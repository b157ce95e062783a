CONSTANTS
  Nodes = {0, 1, 2, 3}
  StartNode = 0
  Graphs <- MCGraphs
SPECIFICATION Spec
INVARIANTS
  Exact
  OrderIsReachable
  ReducibleTwoPasses
  IInv
PROPERTIES
  KeepsPromise
  Termination
