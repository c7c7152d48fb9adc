SPECIFICATION Spec
CONSTANTS
  Sources <- MCSources
  Written <- MCWritten
INVARIANTS
  NothingLost
  DocumentReadBack
  ReadIsSound
CHECK_DEADLOCK FALSE
