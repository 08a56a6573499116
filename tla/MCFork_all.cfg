CONSTANTS
  b1 = b1
  b2 = b2
  b3 = b3
  NoBranch = NoBranch
  Branches <- ThreeBranches
SPECIFICATION FairSpec
INVARIANTS
  ClosedUnlessEnded
  OutputIsSound
PROPERTIES
  NoFailureMasked
  Returns
  ImplementsPromise
