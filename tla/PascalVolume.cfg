\* A volume of five data blocks, a directory of three files, four names; data
\* of one to three blocks, the last one full or not; a text of three blocks;
\* every mv but of a file onto itself.
SPECIFICATION Spec
CONSTANTS
  Names = {n1, n2, n3, n4}
  None = None
  Data = {d1, d2}
  BlockSize = 2
  FirstData = 6
  LastVolumeBlock = 11
  MaxFiles = 3
  DataSizes = {1, 3, 5, 6}
  TextBlocks = {3}
  Moves <- TwoNames
SYMMETRY Symmetry
INVARIANTS
  TypeOK
  DirectoryKept
  RoomExact
  PutHasRoom
  PutCovered
  NamesUnique
  ExtentsOrdered
PROPERTIES
  OnlyNamed
  RenameMoves
  ReadOnlyKept
