\* put of a file that fills its last block, on a volume with just that room.
SPECIFICATION Spec
CONSTANTS
  Names = {n1, n2, n3, n4}
  None = None
  Data = {d1, d2}
  BlockSize = 2
  FirstData = 6
  LastVolumeBlock = 11
  MaxFiles = 3
  DataSizes = {2}
  TextBlocks = {3}
  Moves <- TwoNames
SYMMETRY Symmetry
INVARIANT
  Readable
