CONSTANTS
  Shells <- MCShells
  Commands <- MCCommands
  MaxAttempts = 2
  MaxSignals = 1
  MaxCrashes = 1
SPECIFICATION Spec
INVARIANTS
  WholeCorpus
  KillsOwnServer
  NoServerLeft
PROPERTY CommandsEnd
