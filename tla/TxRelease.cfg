SPECIFICATION Spec
CONSTANTS
  Plugins = {"freetds"}
  MaxWrites = 2
  MaxSavepoints = 2
  MaxConnects = 1
INVARIANTS OnlyCommitCommits
CHECK_DEADLOCK FALSE
