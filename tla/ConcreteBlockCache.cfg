\* Three blocks, two of them on one hash chain; a pool that starts smaller
\* than the blocks in use and may grow; two pointers held at once.
SPECIFICATION Spec
CONSTANTS
  Blocks = {2, 3, 4}
  Values = {0, 1}
  Zero = 0
  Frames = {f1, f2}
  PoolSize = 2
  HashTableSize = 2
  Faults <- NoFaults
  EvictErrorCaught = FALSE
  MaxBuffers = 3
  CountMax = 2
SYMMETRY FrameSymmetry
INVARIANTS
  TypeOK
  FreeListExact
  HeldPointersShared
  CleanMeansOnDisk
PROPERTIES
  LruOrder
  ImplementsBlockStore
