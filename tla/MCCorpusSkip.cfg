CONSTANTS
  Procs = {p1}
  Directories <- MCDirectories
  Format <- MCFormat
  MaxFailures = 0
SPECIFICATION CorpusSpec
PROPERTY SkippedExists
