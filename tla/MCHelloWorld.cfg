CONSTANTS
  RamAddrs <- Ram
  HeapStart = 0
  HeapEnd = 10
  Called = {"close", "fork"}
  MaxDelay = 2
  Text <- Hello
  Sizes = {2, 6}
  MaxBlocks = 3
  Outstanding = 2
SPECIFICATION Spec
INVARIANT PrintsText
INVARIANT HeapBlocksDisjoint
PROPERTY Exits
