SPECIFICATION Spec
CONSTANTS
  MaxCommands = 3
  MaxSessions = 1
INVARIANTS TypeOK PidFileNamesServer QuitCutsNoSession ToldServersStop
PROPERTIES RestartServes
CHECK_DEADLOCK FALSE
