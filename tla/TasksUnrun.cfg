SPECIFICATION Spec
CONSTANTS
  Runs <- MCRuns
  NoRun = NoRun
  MaxAttempts = 2
  Tasks <- MCTasks
  NoTask = NoTask
  Backends <- OnlyRedis
PROPERTIES
  TasksRunOnEveryBackend
CHECK_DEADLOCK FALSE
