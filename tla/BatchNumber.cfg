SPECIFICATION Spec
CONSTANTS
  Plugins = {"mysql"}
  Transports = {"proxy"}
  MaxItems = 3
  MaxParams = 2
INVARIANT FirstSqlIsNumberOne
CHECK_DEADLOCK FALSE
