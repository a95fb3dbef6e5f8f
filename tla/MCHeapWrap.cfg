CONSTANTS
  W = 64
  Page = 8
  Align = 4
  HeapStart = 5
  MinStart = 9
  HeapLimit = 44
  Sizes <- MCSizes
  CallocArgs <- MCCallocArgs
  AlignedArgs <- MCAlignedArgs
  MaxBlocks = 3
SPECIFICATION Spec
INVARIANT
  BlocksDisjoint
