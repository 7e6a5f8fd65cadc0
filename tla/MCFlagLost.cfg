SPECIFICATION Spec
CONSTANTS
  Slaves = {1, 2}
  Atomic = FALSE
INVARIANT FlaggedUntilServed
