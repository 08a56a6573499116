\* What cannot be started stays down.
SPECIFICATION Spec
CHECK_DEADLOCK FALSE
CONSTANTS
  Replicas = {"p", "q"}
  Plans <- MCPlans
INVARIANT ServedIsScheduled
PROPERTIES Settles Accounted
