SPECIFICATION ComposedSpec
CONSTANTS
  a = a
  b = b
  c = c
  Nil = Nil
  Unset = Unset
  Absent = Absent
  NaN = NaN
  Instances <- MCInstances
  Fresh <- MCFresh
  Data <- MCData
  Refs = {"", "null", "nil", "x", "y", "g", "h"}
  EmptyRefs = {"", "null", "nil"}
  NoRef = ""
  Generated = {"g", "h"}
  Properties = {"p", "q"}
  Metadata = {"m", "n"}
  NoAttr = NoAttr
  Roots <- MCRoots
  Documents <- MCDocuments
  Declarations <- MCDeclarations
  ByteBits = 3
  FloatBits = 9
  DoubleBits = 20
  NotUTF8 = 0
  Replaced = 1
  Beyond <- MCBeyond
INVARIANTS
  ValuesAsDocumented
  DeclaredTree
  JsonRoundTrip
  ReferencesMeet
CHECK_DEADLOCK FALSE
