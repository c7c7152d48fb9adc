SPECIFICATION Spec
CONSTANTS
  i1 = i1
  i2 = i2
  i3 = i3
  Nil = Nil
  Unset = Unset
  NoRef = ""
  Instances <- MCInstances
  Refs <- MCRefs
  EmptyRefs <- MCEmptyRefs
  Generated <- MCGenerated
  Properties <- MCProperties
  Data <- MCData
INVARIANTS
  TypeOK
  MarksAgree
  ResolvedIsMarked
PROPERTY
  MarksPermanent
