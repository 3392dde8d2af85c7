CONSTANTS
  Word = 64
  Sector = 4
  ImageSize = 34
  Files <- SmallFiles
  Lengths = {0, 1, 3, 6, 63}
  Offsets <- SmallOffsets
  Faults = {"badresult"}
SPECIFICATION Spec
INVARIANTS PiecesAddUp
PROPERTIES ImplementsReadOnlyFile
