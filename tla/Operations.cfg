SPECIFICATION Spec
CONSTANTS
  Runs <- MCRuns
  NoRun = NoRun
  MaxAttempts = 2
  Tasks <- MCTasks
  NoTask = NoTask
  Backends <- MCBackends
PROPERTIES
  Implements
  TasksRun
  ShutdownEnds
CHECK_DEADLOCK FALSE
