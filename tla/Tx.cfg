SPECIFICATION Spec
CONSTANTS
  Plugins = {"pgsql", "mysql", "oracle", "freetds"}
  MaxWrites = 3
  MaxSavepoints = 3
  MaxConnects = 2
INVARIANTS TypeOK FlagMatchesDatabase ModesAgree WorkIsWhatWasTold UndoneStaysUndone UncommittedIsNotDurable PromisedIsDurable
CHECK_DEADLOCK FALSE
