SPECIFICATION Spec
CONSTANTS
  Archs = {"s390x"}
  Configs <- MCConfigs
  MaxBlocks = 2
  MaxValues = 2
INVARIANTS
  OperandsFit
