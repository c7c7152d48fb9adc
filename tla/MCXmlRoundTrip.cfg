SPECIFICATION RoundTripSpec
CONSTANTS
  a = a
  b = b
  c = c
  v = v
  w = w
  u = u
  s = s
  t = t
  Nil = Nil
  Unset = Unset
  NoAttr = NoAttr
  EmptyHash = EmptyHash
  NoRef = ""
  NullRef = "null"
  Refs = {"", "null", "x", "y", "g"}
  EmptyRefs = {"", "null"}
  Generated = {"x", "y", "g"}
  Classes = {"C", "D"}
  Metadata = {"m", "n"}
  Zero = w
  MaxMade = 4
  Instances <- MCInstances
  Properties <- MCProperties
  Data <- MCData
  Unknown <- MCUnknown
  Shared <- MCShared
  Readable <- MCReadable
  Roots <- MCRoots
  Documents <- MCDocuments
INVARIANTS
  EncodeTypeOK
  NamesLead
  RoundTrip
  DocumentDecoded
