\* cp: what the directory has of the copy.
SPECIFICATION Spec
CONSTANTS
  Names = {n1, n2, n3, n4}
  None = None
  Data = {d1, d2}
  BlockSize = 2
  FirstData = 6
  LastVolumeBlock = 11
  MaxFiles = 3
  DataSizes = {1, 3, 5, 6}
  TextBlocks = {3}
  Moves <- TwoNames
SYMMETRY Symmetry
INVARIANT
  CopyRecorded
