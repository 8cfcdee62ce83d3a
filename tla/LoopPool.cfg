SPECIFICATION Spec
CONSTANTS
  N = 2
  MaxTasks = 3
PROPERTIES
  StopReturns
  FunctorsRun
