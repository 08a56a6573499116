CONSTANTS
  N = 6
  MaxItems = 2
  Programs <- MCPrograms
SPECIFICATION Spec
INVARIANTS
  EndIsFinal
  EndKeepsOutput
  CancellationWins
PROPERTIES
  Isolated
  NearestCatch
