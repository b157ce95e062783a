SPECIFICATION ConfigSpec
CONSTANTS
  Arguments <- MCTwoArchs
  ConfigFiles <- MCConstants
INVARIANTS
  ConstantsShared
