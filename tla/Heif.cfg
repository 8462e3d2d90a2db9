SPECIFICATION Spec
CONSTANTS
  MaxInt64 = 1000
  MaxUint32 = 700
  MaxItemDataSize = 4
  MaxEXIFSize = 8
  File <- MCFile
  ID = {1, 2, 3, 4}
  Image <- MCImage
INVARIANTS FileExact RoundTrip
