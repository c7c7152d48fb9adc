------------------------------ MODULE RbxlArrays ------------------------------
(***************************************************************************)
(* The arrays of the binary format (rbxl/arrays.go): the values that the   *)
(* instances of a group have for one property.  Arrays of most types of    *)
(* constant size are interleaved, the first bytes of all values leading,   *)
(* then the second ones; those of references hold differences; the         *)
(* positions of coordinate frames follow the rotations, interleaved on     *)
(* their own; an optional array holds two arrays, the values and which of  *)
(* them are present.  A reader gets the bytes of an array and all that     *)
(* follow in its chunk, and how many values to read.                       *)
(***************************************************************************)
EXTENDS RbxlValues

-------------------------------------------------------------------------------
(* The types of arrays: the type of their elements, and whether they are   *)
(* interleaved.  Len, Get and Set are those of sequences.                  *)
Of(t, interleaved) == [type |-> t, interleaved |-> interleaved]
arrayString == Of("String", FALSE)
arrayBool == Of("Bool", FALSE)
arrayInt == Of("Int", TRUE)
arrayFloat == Of("Float", TRUE)
arrayDouble == Of("Double", FALSE)
arrayUDim == Of("UDim", TRUE)
arrayUDim2 == Of("UDim2", TRUE)
arrayRay == Of("Ray", FALSE)
arrayFaces == Of("Faces", FALSE)
arrayAxes == Of("Axes", FALSE)
arrayBrickColor == Of("BrickColor", TRUE)
arrayColor3 == Of("Color3", TRUE)
arrayVector2 == Of("Vector2", TRUE)
arrayVector3 == Of("Vector3", TRUE)
arrayVector2int16 == Of("Vector2int16", FALSE)
arrayCFrame == Of("CFrame", FALSE)
arrayCFrameQuat == Of("CFrameQuat", FALSE)
arrayToken == Of("Token", TRUE)
arrayReference == Of("Reference", TRUE)
arrayVector3int16 == Of("Vector3int16", FALSE)
arrayNumberSequence == Of("NumberSequence", FALSE)
arrayColorSequence == Of("ColorSequence", FALSE)
arrayNumberRange == Of("NumberRange", FALSE)
arrayRect == Of("Rect", TRUE)
arrayPhysicalProperties == Of("PhysicalProperties", FALSE)
arrayColor3uint8 == Of("Color3uint8", TRUE)
arrayInt64 == Of("Int64", TRUE)
arraySharedString == Of("SharedString", TRUE)
arrayOptional == Of("Optional", FALSE)
arrayUniqueId == Of("UniqueId", TRUE)
arrayFont == Of("Font", FALSE)

newArray ==
  {arrayString, arrayBool, arrayInt, arrayFloat, arrayDouble, arrayUDim, arrayUDim2, arrayRay,
   arrayFaces, arrayAxes, arrayBrickColor, arrayColor3, arrayVector2, arrayVector3,
   arrayVector2int16, arrayCFrame, arrayCFrameQuat, arrayToken, arrayReference,
   arrayVector3int16, arrayNumberSequence, arrayColorSequence, arrayNumberRange, arrayRect,
   arrayPhysicalProperties, arrayColor3uint8, arrayInt64, arraySharedString, arrayOptional,
   arrayUniqueId, arrayFont}

interleaver(t) == Of(t, TRUE) \in newArray

-------------------------------------------------------------------------------
(* Where the bytes go, one after the other: every time by length, and back *)
(* to the front one further when the end is passed.                        *)
Wrapped(n, at) == at - (IF at >= n THEN n - 1 ELSE 0)
Targets(n, length) ==
  LET to[k \in 0 .. n - 1] == IF k = 0 THEN 0 ELSE Wrapped(n, to[k - 1] + length)
  IN  to

Square(b, rows) == [i \in DOMAIN b |-> b[((i - 1) % rows) * rows + ((i - 1) \div rows) + 1]]
Scatter(b, length) ==
  LET to == Targets(Len(b), length)
  IN  [i \in DOMAIN b |-> b[1 + CHOOSE k \in DOMAIN to : to[k] = i - 1]]

(* A length of 0 divides by zero.                                          *)
Panic == [ok |-> FALSE, panic |-> TRUE]
Done(b) == [ok |-> TRUE, panic |-> FALSE, bytes |-> b]
transpose(b, length) ==
  IF length = 0 THEN Panic
  ELSE Done(IF length = Len(b) \div length THEN Square(b, length) ELSE Scatter(b, length))

MutInterleave(b, size) ==
  IF Len(b) % size # 0 THEN Failure ELSE transpose(b, size)
interleave(b, size) ==
  IF Len(b) % size # 0 THEN Failure ELSE transpose(b, Len(b) \div size)
MutDeinterleave(b, size) ==
  IF Len(b) % size # 0 THEN Failure ELSE transpose(b, Len(b) \div size)
deinterleave(b, size) ==
  IF Len(b) % size # 0 THEN Failure ELSE transpose(b, size)

-------------------------------------------------------------------------------
(* An array is [type, inner, values], an optional one has present as well, *)
(* and the inner type of another is "none".  A value that is a single number is a tuple of *)
(* one word, as in present.                                                *)
Frames == {"CFrame", "CFrameQuat"}

Elements(t, values) == FlattenSeq([i \in DOMAIN values |-> ValueBytes(t, values[i])])

(* arrayReference.Bytes: each after the first less the one before it.      *)
Differences(m, values) ==
  [i \in DOMAIN values |->
     IF i = 1 THEN values[1] ELSE <<(values[i][1] - values[i - 1][1]) % m>>]

(* arrayCFrame.Bytes                                                       *)
Position(v) == SubSeq(v, Len(v) - 2, Len(v))
HeadBytes(layout, v) ==
  <<v[1]>> \o Fields(Conditional(layout, v[1]), SubSeq(v, 2, Len(v) - 3))
FrameBytes(layout, values) ==
  FlattenSeq([i \in DOMAIN values |-> HeadBytes(layout, values[i])])
    \o interleave(Elements("Vector3", [i \in DOMAIN values |-> Position(values[i])]),
                  zVector3).bytes

ArrayOf(t, values) ==
  IF t \in Frames THEN FrameBytes(newValue[t], values)
  ELSE Elements(t, IF t = "Reference" THEN Differences(Modulus(zu32), values) ELSE values)

Packed(t, b) == IF interleaver(t) THEN interleave(b, Size(t)) ELSE Done(b)
arrayToBytes(t, values) == Packed(t, ArrayOf(t, values))

TypedBytes(t, values) == <<typeID[t]>> \o arrayToBytes(t, values).bytes
typeArrayToBytes(a) ==
  (IF a.type = "Optional" THEN <<typeID["Optional"]>> ELSE <<>>)
    \o TypedBytes(IF a.type = "Optional" THEN a.inner ELSE a.type, a.values)
    \o (IF a.type = "Optional" THEN TypedBytes("Bool", a.present) ELSE <<>>)

-------------------------------------------------------------------------------
(* Reading: what is read in a row from the front of b, until it fails.     *)
Start(b) == [ok |-> TRUE, panic |-> FALSE, values |-> <<>>, rest |-> b]
MutAppend1(got, read) ==
  IF read.ok THEN [got EXCEPT !.values = Append(@, read.value), !.rest = Drop(@, read.n)] ELSE got
Append1(got, read) ==
  IF read.ok THEN [got EXCEPT !.values = Append(@, read.value), !.rest = Drop(@, read.n)]
  ELSE Failure

ReadElements(t, b, n) ==
  FoldLeft(LAMBDA got, i : IF got.ok THEN Append1(got, FromBytes(t, got.rest)) ELSE got,
           Start(b), [i \in 1 .. n |-> i])

(* arrayReference.FromBytes: the differences are added up again.           *)
Sums(m, values) ==
  FoldLeft(LAMBDA sums, v :
             Append(sums, IF sums = <<>> THEN v ELSE <<(v[1] + Last(sums)[1]) % m>>),
           <<>>, values)

(* arrayCFrame.FromBytes: the positions are taken from as much of the      *)
(* buffer as they need, which panics when they need more than it can hold, *)
(* and fails later when they need more than there is.                      *)
ReadHead(t, fields, b) ==
  IF checkLengthCond(t, b)
    THEN Read(1 + SizeOf(fields), <<b[1]>> \o Words(fields, Tail(b))) ELSE Failure
ReadHeads(t, layout, b, n) ==
  FoldLeft(LAMBDA got, i :
             IF got.ok THEN Append1(got, ReadHead(t, Conditional(layout, got.rest[1]), got.rest))
             ELSE got,
           Start(b), [i \in 1 .. n |-> i])

WithPositions(n, heads, positions) ==
  [heads EXCEPT !.values = [i \in 1 .. n |-> @[i] \o positions.values[i]],
                !.rest = Drop(@, n * zVector3)]
ReadPositions(n, heads, spare) ==
  IF ~heads.ok THEN Failure
  ELSE IF n * zVector3 > Len(heads.rest) + spare THEN Panic
  ELSE IF n * zVector3 > Len(heads.rest) THEN Failure
  ELSE WithPositions(n, heads,
         ReadElements("Vector3", deinterleave(SubSeq(heads.rest, 1, n * zVector3), zVector3).bytes, n))
ReadFrames(t, b, n, spare) == ReadPositions(n, ReadHeads(t, newValue[t], b, n), spare)

Unpacked(t, b) == IF interleaver(t) THEN deinterleave(b, Size(t)) ELSE Done(b)
Summed(t, got) ==
  IF t = "Reference" /\ got.ok THEN [got EXCEPT !.values = Sums(Modulus(zu32), @)] ELSE got
ReadUnpacked(t, whole, n) ==
  IF whole.ok THEN Summed(t, ReadElements(t, whole.bytes, n)) ELSE whole
arrayFromBytes(t, b, n, spare) ==
  IF t \in Frames THEN ReadFrames(t, b, n, spare) ELSE ReadUnpacked(t, Unpacked(t, b), n)

TypedFromBytes(b, n, spare) ==
  IF b = <<>> \/ ~Valid(b[1]) THEN Failure ELSE arrayFromBytes(TypeOf(b[1]), Tail(b), n, spare)

(* expectArrayFromBytes, of the flags                                      *)
ReadPresence(b, n) ==
  IF b = <<>> \/ b[1] # typeID["Bool"] THEN Failure ELSE arrayFromBytes("Bool", Tail(b), n, 0)

(* arrayOptional.FromBytes: the flags are what is left of the bytes when   *)
(* the values are read, deinterleaved with them if they were.              *)
WithPresence(b, values, present) ==
  IF present.ok
    THEN [ok |-> TRUE, panic |-> FALSE, rest |-> present.rest,
          array |-> [type |-> "Optional", inner |-> TypeOf(b[1]), values |-> values.values,
                     present |-> present.values]]
    ELSE present
ReadFlags(b, n, values) ==
  IF values.ok THEN WithPresence(b, values, ReadPresence(values.rest, n)) ELSE values
ReadOptional(b, n, spare) == ReadFlags(b, n, TypedFromBytes(b, n, spare))

ReadPlain(b, got) ==
  IF got.ok
    THEN [ok |-> TRUE, panic |-> FALSE, rest |-> got.rest,
          array |-> [type |-> TypeOf(b[1]), inner |-> "none", values |-> got.values]]
    ELSE got
typeArrayFromBytes(b, n, spare) ==
  IF b # <<>> /\ b[1] = typeID["Optional"] THEN ReadOptional(Tail(b), n, spare)
  ELSE ReadPlain(b, TypedFromBytes(b, n, spare))

===============================================================================
