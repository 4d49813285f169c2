SPECIFICATION Spec
CONSTANTS
  Plugins = {"pgsql", "mysql", "oracle", "freetds"}
  Transports = {"proxy", "direct"}
  MaxItems = 3
  MaxParams = 2
INVARIANTS TypeOK CountsFollowNumbers FirstFailedIsFirst  StopsAtFirstFailure StreamsReachTheirRow
CHECK_DEADLOCK FALSE
