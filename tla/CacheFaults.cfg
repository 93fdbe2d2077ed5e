\* Every device error, as the program's callers meet it: after a read, a sync or a
\* commit that threw they may go on, after a failed write-back they give up.
SPECIFICATION Spec
CONSTANTS
  Blocks = {2, 3, 4}
  Values = {0, 1}
  Zero = 0
  Frames = {f1, f2}
  PoolSize = 1
  HashTableSize = 2
  Faults <- AllFaults
  EvictErrorCaught = FALSE
  MaxBuffers = 2
  CountMax = 2
SYMMETRY FrameSymmetry
INVARIANTS
  ListedBuffersUnused
  HeldPointersShared
  CleanMeansOnDisk
PROPERTIES
  ImplementsBlockStore
