CONSTANTS
  BaseMax = 3
  ExtMax = 2
  BadChars = {"+", "."}
  ParamBytes = 7
  SectorBytes = 7
  RecordBytes = 3
  SeekMax = 8
  Folded <- FoldSmall
  ListMax = 24
  Patterns <- SmallPatterns
  PatternNames <- SmallPatternNames
  PlainNames <- SmallNames
  FullPaths <- SmallFullPaths
  Dates <- SmallDates
  ParamBuffers <- SmallBuffers
  Images <- SmallImages
  EaQueries <- SmallEaQueries
  Listings <- SmallListings
  Volumes <- SmallVolumes
  Paths <- SmallPaths
SPECIFICATION MCSpec
INVARIANTS PatternsMatch DosNamesTold PathsSplit DatesKept ParamsWhole JolietFound
INVARIANTS EasDelivered ListingWhole PathsResolve RequestsAgree CharsetsExact
