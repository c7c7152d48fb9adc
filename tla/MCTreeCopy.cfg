SPECIFICATION FairCopySpec
CONSTANTS
  a = a
  b = b
  o = o
  d = d
  f = f
  copyOfF = copyOfF
  Nil = Nil
  Unset = Unset
  NoRef = ""
  NoMetadata = "none"
  Instances <- MCInstances
  Originals <- MCOriginals
  MaxClones <- MCMaxClones
  Refs <- MCRefs
  EmptyRefs <- MCEmptyRefs
  Generated <- MCGenerated
  Properties <- MCProperties
  Data <- MCData
  Contents <- MCContents
  Fonts <- MCFonts
  Font <- MCFont
  Metadata <- MCMetadata
  Inputs <- MCInputs
INVARIANTS
  CopyTypeOK
  
  ReferencesFollowCopy
  CopyNames
  GoodNamesKept
PROPERTY
  CopyReturns
