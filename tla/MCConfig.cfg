SPECIFICATION ConfigSpec
CONSTANTS
  Arguments <- MCArchs
  ConfigFiles <- MCConfigs
INVARIANTS
  SharedByAll
  NothingLost
