SPECIFICATION TripSpec
CONSTANTS
  Instances <- MCInstances
  Classes <- MCClasses
  Names <- MCNames
  Roots <- MCRoots
  Headers <- MCHeaders
  ClassIDs <- MCClassIDs
  Ids <- MCIds
  InstChunks <- MCInstChunks
  PrntChunks <- MCPrntChunks
  MetaChunks <- MCMetaChunks
  SstrChunks <- MCSstrChunks
  Raw <- MCRaw
  MaxChunks <- MCMaxChunks
INVARIANT
  SkippedIsGone
