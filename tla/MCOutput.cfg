SPECIFICATION Spec
CONSTANTS
  Archs <- MCArchs
  Nums = {0, 1, 2}
  MaxRuns = 2
  MaxLost = 2
INVARIANTS
  PassedIsFresh
  RejectedOnlyForLeftovers
PROPERTIES
  CommandsEnd
