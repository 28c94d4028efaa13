SPECIFICATION ArraySpec
CONSTANTS
  Arenas = {"ast", "other"}
  Arrays = {"list"}
  HeapSize = 27
  Sizes = {1, 3}
  Alignments = {2, 4}
  InitialSizes = {6}
  initial_block_size = 5
  sizeof_Block = 2
  new_alignment = 4
  initial_capacity = 2
  sizeof_T = 2
  alignof_T = 2
INVARIANT
  StorageIsLive
