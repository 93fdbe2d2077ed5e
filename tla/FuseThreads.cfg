SPECIFICATION Spec
CONSTANTS
  BlockSize = 2
  MaxBlanks = 4
  Entries <- MCEntries
  Content <- MCContent
  LastBlock = 2
  VolumeBlocks = 12
  EntrySize <- MCEntrySize
  Threads = {t1, t2}
  Handles = {h1, h2}
  Names = {}
  Invalid = {}
  Attributes = {}
  AttributeSize <- MCAttributeSize
  Sizes = {0, 5}
  Offsets = {0}
  ReadsFail = FALSE
INVARIANT
  DescriptorsUnused
