\* A device that fails to write an evicted buffer back, and a caller that goes on.
SPECIFICATION Spec
CONSTANTS
  Blocks = {2, 3, 4, 5}
  Values = {0}
  Zero = 0
  Frames = {f1, f2}
  PoolSize = 3
  HashTableSize = 2
  Faults <- EvictFaults
  EvictErrorCaught = TRUE
  MaxBuffers = 3
  CountMax = 2
INVARIANT
  ListedBuffersUnused
