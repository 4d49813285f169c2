SPECIFICATION Spec
CONSTANTS
  Plugins = {"pgsql", "mysql"}
  MaxWrites = 3
  MaxSavepoints = 3
  MaxConnects = 2
INVARIANTS CommitMakesPermanent
CHECK_DEADLOCK FALSE
