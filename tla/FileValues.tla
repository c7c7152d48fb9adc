------------------------------- MODULE FileValues -------------------------------
(***************************************************************************)
(* The values of properties (values.go): their types, and what each type   *)
(* is made of.  A value is [type, v].  Its v is a number, a truth value or *)
(* a string; the sequence of its parts if it is a struct or a sequence of  *)
(* keypoints; <<type>> or <<type, v>> if it is optional.                   *)
(*                                                                         *)
(* Strings are sequences of bytes.  All floats are counted in halves, so   *)
(* that 3 is 1.5, and have as many significant bits as their width leaves. *)
(***************************************************************************)
EXTENDS Integers, SequencesExt

CONSTANTS
  ByteBits,     \* the bits of a byte: 8
  FloatBits,    \* the significant bits of a float32: 24
  DoubleBits,   \* and of a float64: 53
  NaN           \* a float that is no number

ASSUME WidthAssumption ==
  /\ ByteBits \in Nat \ {0, 1} /\ FloatBits \in Nat \ {0, 1} /\ DoubleBits \in Nat
  /\ FloatBits < 4 * ByteBits /\ 4 * ByteBits < DoubleBits /\ DoubleBits < 8 * ByteBits
ASSUME NaNAssumption == NaN \notin Int

-------------------------------------------------------------------------------
(* What a value is made of: one piece, named fields, keypoints of one      *)
(* kind, or the nine numbers of a rotation.                                *)
Leaf(kind) == [shape |-> "leaf", kind |-> kind]
Struct(fields) == [shape |-> "struct", fields |-> fields]
Field(name, of) == [name |-> name, of |-> of]
Keypoints(of) == [shape |-> "keypoints", of |-> of]
Rotation == [shape |-> "rotation"]

float32 == Leaf("float32")
int32 == Leaf("int32")
int16 == Leaf("int16")
bool == Leaf("bool")
Fields(names, of) == [i \in DOMAIN names |-> Field(names[i], of)]

ValueUDim == Struct(<<Field("scale", float32), Field("offset", int32)>>)
ValueUDim2 == Struct(Fields(<<"x", "y">>, ValueUDim))
ValueVector2 == Struct(Fields(<<"x", "y">>, float32))
ValueVector3 == Struct(Fields(<<"x", "y", "z">>, float32))
ValueRay == Struct(Fields(<<"origin", "direction">>, ValueVector3))
ValueFaces == Struct(Fields(<<"right", "top", "back", "left", "bottom", "front">>, bool))
ValueAxes == Struct(Fields(<<"x", "y", "z">>, bool))
ValueColor3 == Struct(Fields(<<"r", "g", "b">>, float32))
ValueCFrame == Struct(<<Field("position", ValueVector3), Field("rotation", Rotation)>>)
ValueVector3int16 == Struct(Fields(<<"x", "y", "z">>, int16))
ValueVector2int16 == Struct(Fields(<<"x", "y">>, int16))
ValueNumberSequence == Keypoints(Struct(Fields(<<"time", "value", "envelope">>, float32)))
ValueColorSequence ==
  Keypoints(Struct(<<Field("time", float32), Field("value", ValueColor3),
                     Field("envelope", float32)>>))
ValueNumberRange == Struct(Fields(<<"min", "max">>, float32))
ValueRect == Struct(Fields(<<"min", "max">>, ValueVector2))
ValuePhysicalProperties ==
  Struct(<<Field("custom_physics", bool)>>
           \o Fields(<<"density", "friction", "elasticity", "friction_weight",
                       "elasticity_weight">>, float32))
ValueColor3uint8 == Struct(Fields(<<"r", "g", "b">>, Leaf("uint8")))

Layout ==
  [String |-> Leaf("string"), BinaryString |-> Leaf("binary"),
   ProtectedString |-> Leaf("string"), Content |-> Leaf("content"), Bool |-> bool,
   Int |-> int32, Float |-> float32, Double |-> Leaf("float64"), UDim |-> ValueUDim,
   UDim2 |-> ValueUDim2, Ray |-> ValueRay, Faces |-> ValueFaces, Axes |-> ValueAxes,
   BrickColor |-> Leaf("uint32"), Color3 |-> ValueColor3, Vector2 |-> ValueVector2,
   Vector3 |-> ValueVector3, CFrame |-> ValueCFrame, Token |-> Leaf("uint32"),
   Reference |-> Leaf("reference"), Vector3int16 |-> ValueVector3int16,
   Vector2int16 |-> ValueVector2int16, NumberSequence |-> ValueNumberSequence,
   ColorSequence |-> ValueColorSequence, NumberRange |-> ValueNumberRange,
   Rect |-> ValueRect, PhysicalProperties |-> ValuePhysicalProperties,
   Color3uint8 |-> ValueColor3uint8, Int64 |-> Leaf("int64"),
   SharedString |-> Leaf("binary"), Optional |-> Leaf("optional"),
   UniqueId |-> Leaf("uniqueid"), Font |-> Leaf("font")]
Types == DOMAIN Layout

-------------------------------------------------------------------------------
(* The value of which all parts are zero, and the one NewValue makes: a    *)
(* coordinate frame is not turned.                                         *)
Nothing(kind) ==
  CASE kind = "bool" -> FALSE
    [] kind \in {"string", "binary", "content"} -> <<>>
    [] kind = "optional" -> <<"Invalid">>
    [] OTHER -> 0

RECURSIVE Zero(_)
Zero(of) ==
  CASE of.shape = "leaf" -> Nothing(of.kind)
    [] of.shape = "struct" -> [i \in DOMAIN of.fields |-> Zero(of.fields[i].of)]
    [] of.shape = "keypoints" -> <<>>
    [] of.shape = "rotation" -> [i \in 1 .. 9 |-> 0]

newValueCFrame == <<Zero(ValueVector3), <<2, 0, 0, 0, 2, 0, 0, 0, 2>>>>
NewValue(t) == [type |-> t, v |-> IF t = "CFrame" THEN newValueCFrame ELSE Zero(Layout[t])]

-------------------------------------------------------------------------------
(* Numbers.                                                                *)
Bits(kind) ==
  CASE kind = "uint8" -> ByteBits
    [] kind = "int16" -> 2 * ByteBits
    [] kind \in {"int32", "uint32"} -> 4 * ByteBits
    [] kind = "int64" -> 8 * ByteBits
Signed(kind) == kind \in {"int16", "int32", "int64"}
Integer(kind) == Signed(kind) \/ kind \in {"uint8", "uint32"}
Least(kind) == IF Signed(kind) THEN -(2 ^ (Bits(kind) - 1)) ELSE 0

(* An integer in fewer bits.                                               *)
Wrap(kind, n) == ((n - Least(kind)) % 2 ^ Bits(kind)) + Least(kind)

(* The nearest number with that many significant bits, ties to even.       *)
Abs(n) == IF n < 0 THEN -n ELSE n
Rounded(bits, n) ==
  LET size == CHOOSE k \in 0 .. 8 * ByteBits : Abs(n) < 2 ^ (bits + k) /\ (k = 0 \/ Abs(n) >= 2 ^ (bits + k - 1))
      unit == 2 ^ size
      below == n - (n % unit)
      half == 2 * (n % unit)
      odd == (below \div unit) % 2 = 1
  IN  IF half > unit \/ (half = unit /\ odd) THEN below + unit ELSE below

(* Towards zero, from halves.                                              *)
Truncated(n) == IF n < 0 THEN -((-n) \div 2) ELSE n \div 2

===============================================================================
