------------------------------ MODULE RbxlValues ------------------------------
(***************************************************************************)
(* The values of the binary format (rbxl/values.go): how a value of each   *)
(* type becomes bytes, and how many bytes a reader takes for one.          *)
(*                                                                         *)
(* A number of n bytes is the word that its bits stand for, an unsigned    *)
(* integer below Radix^n: a negative integer is its complement, a float    *)
(* the word of math.Float32bits.  A type of constant size is a sequence of *)
(* fields, its value the sequence of their words.  A value of an array     *)
(* type (zArray) is a sequence of such values, that of a conditional type  *)
(* (zCond) the condition and the words that go with it.                    *)
(***************************************************************************)
EXTENDS Integers, SequencesExt

CONSTANTS
  Radix,        \* the values of a byte: 256
  zu64          \* the bytes of a 64-bit word: 8

ASSUME ValuesAssumption ==
  /\ Radix \in Nat /\ Radix > 32 /\ Radix % 2 = 0
  /\ zu64 \in Nat \ {0}

zu16 == 2
zu32 == 4
Modulus(size) == Radix ^ size
Byte == 0 .. Radix - 1

-------------------------------------------------------------------------------
(* Words: signed integers keep their sign in the lowest bit (zigzag), and  *)
(* so do the floats of the interleaved types (rotated by one bit).  Both   *)
(* take the number m of words there are.                                   *)
encodeZigzag(m, word) == IF word < m \div 2 THEN 2 * word ELSE 2 * (m - word) - 1
MutDecodeZigzag(m, code) == IF code % 2 = 0 THEN code \div 2 ELSE m - code \div 2
decodeZigzag(m, code) == IF code % 2 = 0 THEN code \div 2 ELSE m - 1 - code \div 2

encodeRobloxFloat(m, word) == ((2 * word) % m) + ((2 * word) \div m)
decodeRobloxFloat(m, code) == (code \div 2) + ((code % 2) * (m \div 2))

(* A field: its bytes, their order, and what is done to its word.  Flags   *)
(* are the lowest bits of a byte.                                          *)
Field(size, order, code) == <<[size |-> size, order |-> order, code |-> code]>>
u8 == Field(1, "le", "plain")
u16 == Field(zu16, "le", "plain")
f32 == Field(zu32, "le", "plain")
be32 == Field(zu32, "be", "plain")

EncodeWord(field, word) ==
  CASE field.code = "zigzag" -> encodeZigzag(Modulus(field.size), word)
    [] field.code = "rotated" -> encodeRobloxFloat(Modulus(field.size), word)
    [] OTHER -> word
DecodeWord(field, code) ==
  CASE field.code = "zigzag" -> decodeZigzag(Modulus(field.size), code)
    [] field.code = "rotated" -> decodeRobloxFloat(Modulus(field.size), code)
    [] field.code = "bool" -> IF code # 0 THEN 1 ELSE 0
    [] field.code = "axes" -> code % 8
    [] field.code = "faces" -> code % 64
    [] OTHER -> code

LittleEndian(size, word) == [i \in 1 .. size |-> (word \div Radix ^ (i - 1)) % Radix]
appendUint(field, word) ==
  LET bytes == LittleEndian(field.size, word)
  IN  IF field.order = "le" THEN bytes ELSE Reverse(bytes)
readUint(field, b) ==
  FoldLeft(LAMBDA word, byte : word * Radix + byte, 0, IF field.order = "le" THEN Reverse(b) ELSE b)

(* The fields of a tuple of fields, one word each, and back.               *)
Fields(layout, words) == FlattenSeq([i \in DOMAIN layout |->
  appendUint(layout[i], EncodeWord(layout[i], words[i]))])
SizeOf(layout) == FoldLeft(LAMBDA n, field : n + field.size, 0, layout)
Words(layout, b) == [i \in DOMAIN layout |->
  LET at == SizeOf(SubSeq(layout, 1, i - 1))
  IN  DecodeWord(layout[i], readUint(layout[i], SubSeq(b, at + 1, at + layout[i].size)))]

-------------------------------------------------------------------------------
(* The fields of each type, in the order of its Bytes and FromBytes: all   *)
(* of them, those of one element (String and the sequences), or those that *)
(* depend on the condition (zero, other) and those that follow them.       *)
valueString == u8
valueBool == Field(1, "le", "bool")
valueInt == Field(zu32, "be", "zigzag")
valueFloat == Field(zu32, "be", "rotated")
valueDouble == Field(zu64, "le", "plain")
valueUDim == valueFloat \o valueInt
valueUDim2 == valueFloat \o valueFloat \o valueInt \o valueInt
valueRay == f32 \o f32 \o f32 \o f32 \o f32 \o f32
valueFaces == Field(1, "le", "faces")
valueAxes == Field(1, "le", "axes")
valueBrickColor == be32
valueColor3 == valueFloat \o valueFloat \o valueFloat
valueVector2 == valueFloat \o valueFloat
valueVector3 == valueFloat \o valueFloat \o valueFloat
valueVector2int16 == u16 \o u16
valueCFrame ==
  [zero |-> f32 \o f32 \o f32 \o f32 \o f32 \o f32 \o f32 \o f32 \o f32, other |-> <<>>,
   rest |-> valueVector3]
valueCFrameQuat == [zero |-> f32 \o f32 \o f32 \o f32, other |-> <<>>, rest |-> valueVector3]
valueToken == be32
valueReference == Field(zu32, "be", "zigzag")
valueVector3int16 == u16 \o u16 \o u16
valueNumberSequence == f32 \o f32 \o f32
valueColorSequence == f32 \o f32 \o f32 \o f32 \o f32
valueNumberRange == f32 \o f32
valueRect == valueVector2 \o valueVector2
valuePhysicalProperties ==
  [zero |-> <<>>, other |-> f32 \o f32 \o f32 \o f32 \o f32, rest |-> <<>>]
valueColor3uint8 == u8 \o u8 \o u8
valueInt64 == Field(zu64, "be", "zigzag")
valueSharedString == be32
valueUniqueId == be32 \o be32 \o valueInt64
valueFont == u16 \o u8     \* between the strings Family and CachedFaceId

newValue ==
  [String |-> valueString, Bool |-> valueBool, Int |-> valueInt, Float |-> valueFloat,
   Double |-> valueDouble, UDim |-> valueUDim, UDim2 |-> valueUDim2, Ray |-> valueRay,
   Faces |-> valueFaces, Axes |-> valueAxes, BrickColor |-> valueBrickColor,
   Color3 |-> valueColor3, Vector2 |-> valueVector2, Vector3 |-> valueVector3,
   Vector2int16 |-> valueVector2int16, CFrame |-> valueCFrame,
   CFrameQuat |-> valueCFrameQuat, Token |-> valueToken, Reference |-> valueReference,
   Vector3int16 |-> valueVector3int16, NumberSequence |-> valueNumberSequence,
   ColorSequence |-> valueColorSequence, NumberRange |-> valueNumberRange,
   Rect |-> valueRect, PhysicalProperties |-> valuePhysicalProperties,
   Color3uint8 |-> valueColor3uint8, Int64 |-> valueInt64,
   SharedString |-> valueSharedString, UniqueId |-> valueUniqueId, Font |-> valueFont]

-------------------------------------------------------------------------------
(* The numbers of the types, as they stand in the first byte of an array.  *)
typeID ==
  [String |-> 1, Bool |-> 2, Int |-> 3, Float |-> 4, Double |-> 5, UDim |-> 6, UDim2 |-> 7,
   Ray |-> 8, Faces |-> 9, Axes |-> 10, BrickColor |-> 11, Color3 |-> 12, Vector2 |-> 13,
   Vector3 |-> 14, Vector2int16 |-> 15, CFrame |-> 16, CFrameQuat |-> 17, Token |-> 18,
   Reference |-> 19, Vector3int16 |-> 20, NumberSequence |-> 21, ColorSequence |-> 22,
   NumberRange |-> 23, Rect |-> 24, PhysicalProperties |-> 25, Color3uint8 |-> 26,
   Int64 |-> 27, SharedString |-> 28, Optional |-> 30, UniqueId |-> 31, Font |-> 32]
Types == DOMAIN typeID
Valid(byte) == \E t \in Types : typeID[t] = byte
TypeOf(byte) == CHOOSE t \in Types : typeID[t] = byte

(* What the code takes for the size of a type, told apart by the kind.     *)
zArray == -1
zCond == -2
zOpt == -3
zOther == -4
zVector3 == 3 * zu32
Size(t) ==
  CASE t \in {"Bool", "Faces", "Axes"} -> 1
    [] t = "Color3uint8" -> 3
    [] t = "Vector2int16" -> 2 * zu16
    [] t = "Vector3int16" -> 3 * zu16
    [] t \in {"Int", "Float", "BrickColor", "Token", "Reference", "SharedString"} -> zu32
    [] t \in {"Double", "Int64"} -> zu64
    [] t \in {"UDim", "Vector2", "NumberRange"} -> 2 * zu32
    [] t \in {"Color3", "Vector3"} -> zVector3
    [] t \in {"UDim2", "Rect"} -> 4 * zu32
    [] t = "Ray" -> 6 * zu32
    [] t = "UniqueId" -> 2 * zu32 + zu64
    [] t \in {"String", "NumberSequence", "ColorSequence"} -> zArray
    [] t \in {"CFrame", "CFrameQuat", "PhysicalProperties"} -> zCond
    [] t = "Optional" -> zOpt
    [] t = "Font" -> zOther

(* One field of an array type.                                             *)
MutFieldSize(t) ==
  CASE t = "String" -> 1 [] t = "NumberSequence" -> 2 * zu32 [] t = "ColorSequence" -> 5 * zu32
FieldSize(t) ==
  CASE t = "String" -> 1 [] t = "NumberSequence" -> 3 * zu32 [] t = "ColorSequence" -> 5 * zu32

(* A conditional type, its condition included.                             *)
CondSize(t, cond) ==
  CASE t = "CFrame" -> IF cond = 0 THEN 1 + 9 * zu32 + zVector3 ELSE 1 + zVector3
    [] t = "CFrameQuat" -> IF cond = 0 THEN 1 + 4 * zu32 + zVector3 ELSE 1 + zVector3
    [] t = "PhysicalProperties" -> IF cond = 0 THEN 1 ELSE 1 + 5 * zu32

-------------------------------------------------------------------------------
(* The fields that a condition brings, before the rest.                    *)
Conditional(layout, cond) == IF cond = 0 THEN layout.zero ELSE layout.other

ArrayBytes(layout, elements) ==
  appendUint(f32[1], Len(elements))
    \o FlattenSeq([i \in DOMAIN elements |-> Fields(layout, elements[i])])

(* v.Bytes                                                                 *)
BytesOf(size, layout, v) ==
  CASE size = zArray -> ArrayBytes(layout, v)
    [] size = zCond -> <<v[1]>> \o Fields(Conditional(layout, v[1]) \o layout.rest, Tail(v))
    [] size = zOther ->
         ArrayBytes(valueString, v.family) \o Fields(layout, v.face)
           \o ArrayBytes(valueString, v.cached)
    [] OTHER -> Fields(layout, v)
ValueBytes(t, v) == BytesOf(Size(t), newValue[t], v)

(* What a reader gets: the number of bytes it takes, and the value, or an  *)
(* error.                                                                  *)
Failure == [ok |-> FALSE, panic |-> FALSE]
Read(n, v) == [ok |-> TRUE, panic |-> FALSE, n |-> n, value |-> v]

checkLengthConst(t, b) == Len(b) >= Size(t)

checkLengthArray(t, b) ==
  /\ Len(b) >= zu32
  /\ Len(b) >= zu32 + FieldSize(t) * readUint(f32[1], SubSeq(b, 1, zu32))

checkLengthCond(t, b) == b # <<>> /\ Len(b) >= CondSize(t, b[1])

ReadEach(layout, size, length, b) ==
  Read(zu32 + size * length,
       [i \in 1 .. length |-> Words(layout, SubSeq(b, zu32 + (i - 1) * size + 1, zu32 + i * size))])
ReadArray(t, layout, b) ==
  IF checkLengthArray(t, b)
    THEN ReadEach(layout, FieldSize(t), readUint(f32[1], SubSeq(b, 1, zu32)), b) ELSE Failure

ReadConst(t, layout, b) ==
  IF checkLengthConst(t, b) THEN Read(Size(t), Words(layout, b)) ELSE Failure

ReadCond(t, layout, b) ==
  IF checkLengthCond(t, b)
    THEN Read(CondSize(t, b[1]),
              <<b[1]>> \o Words(Conditional(layout, b[1]) \o layout.rest, Tail(b)))
    ELSE Failure

(* The family, then the face and the cached id of it, one after the other. *)
Drop(b, n) == SubSeq(b, n + 1, Len(b))
ReadCached(family, face, cached) ==
  IF cached.ok
    THEN Read(family.n + SizeOf(valueFont) + cached.n,
              [family |-> family.value, face |-> Words(valueFont, face), cached |-> cached.value])
    ELSE Failure
ReadFace(family, face) ==
  IF Len(face) >= SizeOf(valueFont)
    THEN ReadCached(family, face, ReadArray("String", valueString, Drop(face, SizeOf(valueFont))))
    ELSE Failure
ReadFamily(b, family) == IF family.ok THEN ReadFace(family, Drop(b, family.n)) ELSE Failure
ReadFont(b) == ReadFamily(b, ReadArray("String", valueString, b))

(* v.FromBytes                                                             *)
ReadLayout(t, layout, b) ==
  CASE Size(t) = zArray -> ReadArray(t, layout, b)
    [] Size(t) = zCond -> ReadCond(t, layout, b)
    [] Size(t) = zOther -> ReadFont(b)
    [] OTHER -> ReadConst(t, layout, b)
FromBytes(t, b) == ReadLayout(t, newValue[t], b)

(* v.BytesLen                                                              *)
BytesLen(t, v) ==
  CASE Size(t) = zArray -> zu32 + FieldSize(t) * Len(v)
    [] Size(t) = zCond -> CondSize(t, v[1])
    [] Size(t) = zOther -> zu32 + Len(v.family) + zu16 + 1 + zu32 + Len(v.cached)
    [] OTHER -> Size(t)

===============================================================================
