SPECIFICATION Spec
CONSTANTS
  c1 = c1
  c2 = c2
  c3 = c3
  Commands <- MCCommands
  EventCommands <- MCEventCommands
  MaxRestarts = 1
  MaxDeaths = 3
  None = None
PROPERTY NotRunningIsTrue
CHECK_DEADLOCK FALSE
