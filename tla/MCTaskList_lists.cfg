CONSTANTS
  N = 3
  Lists <- ManyLists
  Opening = {3, 4}
  Growth = {0, 1, 2}
  IsRoot = FALSE
SPECIFICATION FairSpec
INVARIANTS
  NoReexecution
  NothingDropped
  WaivedStaysUnrun
PROPERTIES
  Termination
  ImplementsProgram
