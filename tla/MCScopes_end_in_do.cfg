CONSTANTS
  N = 3
  MaxItems = 1
  Programs <- DoThenEnd
SPECIFICATION Spec
INVARIANT EndIsFinal
