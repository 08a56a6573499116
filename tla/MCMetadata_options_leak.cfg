SPECIFICATION Spec
CONSTANTS
  Executions <- MCExecutions
  Document <- MCDocument
  Tasks <- MCTasks
INVARIANT DefaultsHold
CHECK_DEADLOCK FALSE
