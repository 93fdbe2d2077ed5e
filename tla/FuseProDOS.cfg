SPECIFICATION Spec
CONSTANTS
  BlockSize = 2
  Pointers = 2
  Disks <- MCDisks
  RawImages = {"healthy"}
  Handles = {h1}
  Names = {"s", "d", "x", "p", "a-b"}
  Invalid = {"a-b"}
  EntrySize = 1
  AttributeSize <- MCAttributeSize
  NameSize <- MCNameSize
  Sizes = {0, 2, 3, 7}
  Offsets = {0, 1, 2, 4, 5, 7}
INVARIANTS
  TypeOK
  ListingRight
  ReadsFlat
  AttributesAgree
PROPERTY
  EveryRequestAnswered
