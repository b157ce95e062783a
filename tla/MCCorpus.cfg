CONSTANTS
  Procs = {p1, p2}
  Directories <- MCDirectories
  Format <- MCFormat
  MaxFailures = 1
SPECIFICATION CorpusSpec
INVARIANTS
  CopiesOnlyFromRaces
  BlocksKept
PROPERTY RunsEnd
