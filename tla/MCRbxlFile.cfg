SPECIFICATION Spec
CONSTANTS
  Radix = 64
  zu64 = 5
  zHash = 2
  Uncompressed = {TRUE, FALSE}
  Models <- MCModels
INVARIANTS
  TypeOK
  FileReadBack
  OnlyWholeFiles
  LossWarned
CHECK_DEADLOCK FALSE
