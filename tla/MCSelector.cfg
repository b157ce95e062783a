SPECIFICATION Spec
CONSTANTS
  Archs = {"x86_64", "aarch64", "riscv64", "s390x_no_icmp8", "compatible"}
  Configs <- MCConfigs
  MaxBlocks = 2
  MaxValues = 2
INVARIANTS
  NoPanic
  OperandsFit
  TypesGoTogether
