SPECIFICATION Spec
CONSTANTS
  BlockSize = 2
  MaxBlanks = 4
  Entries <- MCEntries
  Content <- MCContent
  LastBlock = 2
  VolumeBlocks = 12
  EntrySize <- MCEntrySize
  Threads = {t1}
  Handles = {h1, h2}
  Names = {"t", "d", "e", "x$"}
  Invalid = {"x$"}
  Attributes = {"pascal.fileKind", "com.apple.TextEncoding", "user.charset", "other"}
  AttributeSize <- MCAttributeSize
  Sizes = {0, 3, 5}
  Offsets = {0, 2, 4}
  ReadsFail = TRUE
INVARIANTS
  TypeOK
  DescriptorsExact
  RepliesRight
  ListingComplete
PROPERTY
  EveryRequestAnswered
