CONSTANTS
  x = x
  y = y
  z = z
  Names = {x, y, z}
  M = 2
  Plans <- DisjointListeners
  MaxMessages = 2
SPECIFICATION FairSpec
INVARIANTS
  NoSignalSleptThrough
  DataIsAccepted
PROPERTIES
  OutcomeFollowsMessages
  CancellationWins
  Termination
