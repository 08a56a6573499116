CONSTANTS
  N = 3
  Lists <- WorkThenListen
  Opening = {3}
  Growth = {0, 1, 2}
  IsRoot = TRUE
SPECIFICATION Spec
INVARIANT NothingDropped
