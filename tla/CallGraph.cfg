SPECIFICATION Spec
CONSTANTS
  MaxDepth = 2
  Fanouts = {1, 2}
  Signatures = {"s", "t"}
INVARIANTS
  CalleesWrittenFirst
  CalledOnce
