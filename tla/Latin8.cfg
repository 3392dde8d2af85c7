CONSTANTS
  BaseMax = 3
  ExtMax = 2
  BadChars = {"+", "."}
  ParamBytes = 7
  SectorBytes = 7
  RecordBytes = 3
  SeekMax = 8
  Folded <- FoldSmall
  ListMax = 24
  Patterns = {}
  PatternNames = {}
  PlainNames = {}
  FullPaths = {}
  Dates = {}
  ParamBuffers = {}
  Images = {}
  EaQueries = {}
  Listings = {}
  Volumes = {}
  Paths = {}
SPECIFICATION MCSpec
INVARIANTS ExactMappings
