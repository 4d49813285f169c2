SPECIFICATION Spec
CONSTANTS
  Statements = {s1, s2}
  Plugins = {"pgsql", "mysql", "oracle"}
  Programs <- MCPrograms
  FetchSizes = {0, 2}
  Garbage = {0, 1}
  MaxExecutions = 3
  None = None
SYMMETRY Symmetry
INVARIANTS ReexecutionWorks
CHECK_DEADLOCK FALSE
