SPECIFICATION FairSpec
CONSTANTS
  MaxAttempts = 2
  Plans <- MCPlans
  MaxFaults = 1
INVARIANTS
  OutputIsOwn
  NothingLeft
  NameIsFreed
PROPERTIES
  SettlesDown
CHECK_DEADLOCK FALSE
