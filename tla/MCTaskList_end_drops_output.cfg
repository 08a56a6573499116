CONSTANTS
  N = 3
  Lists <- WorkThenChild
  Opening = {3}
  Growth = {0, 1, 2}
  IsRoot = TRUE
SPECIFICATION Spec
INVARIANT EndCarriesChildOutput
