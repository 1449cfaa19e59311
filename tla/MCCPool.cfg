SPECIFICATION Spec
CONSTANTS
  BlockSize = 4
  Sizes = {1, 3, 4, 5}
  Alignments = {2}
  MaxSaveDepth = 2
  MaxBlocks = 3
  MaxLarge = 2
INVARIANT TypeOK
INVARIANT AllocationsDisjoint
INVARIANT LargeBlocksOwned
INVARIANT EmptyAhead
PROPERTY ChainKept
