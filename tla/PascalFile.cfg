SPECIFICATION Spec
CONSTANTS
  BlockSize = 4
  MaxBlanks = 4
  First = 6
  Rooms = {5, 8}
  DataFiles <- MCDataFiles
  TextFiles <- MCTextFiles
  Old = {0, 88}
  HostPage = 8
  Requests <- MCRequests
INVARIANTS
  TypeOK
  RoundTrip
  SizeNearNative
  TextExact
  ReadsAreSlices
  LinesInPages
PROPERTY
  GetsFurther
