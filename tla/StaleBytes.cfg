CONSTANTS
  Word = 128
  Sector = 4
  ImageSize = 34
  Files <- SmallFiles
  Lengths = {0, 1, 3, 6, 63}
  Offsets <- SmallOffsets
  Faults = {}
SPECIFICATION Spec
INVARIANT OnlyBytesRead
