CONSTANTS
  Read = {0, 1}
  HandlerStack = 76
SPECIFICATION Spec
INVARIANT PassesAddUp
PROPERTY TestsEnd
