SPECIFICATION Spec
CONSTANTS
  Radix = 64
  zu64 = 5
  Lengths = {1, 2, 4}
  Seeds = {0}
  Spares = {0, 512}
  Arrays <- MCArrays
INVARIANTS
  EveryArrayReadBack
CHECK_DEADLOCK FALSE
