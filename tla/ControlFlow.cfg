\* Structures small enough that all sets of blocks can be enumerated.
CONSTANTS
  MaxDepth = 2
  SeqSizes = {2, 3}
  CaseNums = {2}
SPECIFICATION Spec
INVARIANTS
  NoPanic
  SingleExit
  DistinctTargets
  ParamsEndInBranch
  AllReachable
  AllReachEnd
  IInv
PROPERTIES
  SpliceIsSubstitution
  SpliceKeepsTerminator
