SPECIFICATION Spec
CONSTANTS
  Headers <- MCHeaders
  ClassIDs <- MCClassIDs
  Ids <- MCIds
  InstChunks <- MCInstChunks
  PrntChunks <- MCPrntChunks
  MetaChunks <- MCMetaChunks
  SstrChunks <- MCSstrChunks
  Names <- MCNames
  Raw <- MCRaw
  MaxChunks <- MCMaxChunks
INVARIANTS
  TypeOK
  InstancesExist
  GroupsFit
  GroupsDistinct
  PropertiesFromFile
  TreeIsLinks
