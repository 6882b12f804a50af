SPECIFICATION FairSpec
CONSTANTS
  NBytes = 8
  Access <- MCAccess
  NoAccess = NoAccess
  Bubble = Bubble
  PULP_OBI = FALSE
INVARIANTS
  AccessDoneOnce
  LoadedRight
  RequestHeld
PROPERTIES
  LsuProgress
