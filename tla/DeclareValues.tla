----------------------------- MODULE DeclareValues -----------------------------
(***************************************************************************)
(* Declared values (declare/type.go): the value of a type that is made of  *)
(* the arguments of a Property declaration.                                *)
(*                                                                         *)
(* An argument is [go, v]: a string, []byte, bool, an int (which stands    *)
(* for all integer types of Go) or a float, a pointer to an instance, or a *)
(* value or a keypoint of the rbxfile package with its type.               *)
(***************************************************************************)
EXTENDS FileValues

-------------------------------------------------------------------------------
normFloat(bits, arg) ==
  CASE arg.go = "int" -> Rounded(bits, 2 * arg.v)
    [] arg.go = "float" -> Rounded(bits, arg.v)
    [] OTHER -> 0

(* What an integer does not fit into keeps its lowest bits.                *)
normInteger(kind, arg) ==
  CASE arg.go = "int" -> Wrap(kind, arg.v)
    [] arg.go = "float" -> Truncated(arg.v)
    [] OTHER -> 0
normUint8(arg) == normInteger("uint8", arg)
normInt16(arg) == normInteger("int16", arg)
normInt32(arg) == normInteger("int32", arg)
normInt64(arg) == normInteger("int64", arg)
normUint32(arg) == normInteger("uint32", arg)
normFloat32(arg) == normFloat(FloatBits, arg)
normFloat64(arg) == normFloat(DoubleBits, arg)
normBool(arg) == IF arg.go = "bool" THEN arg.v ELSE FALSE

norm(kind, arg) ==
  CASE kind = "uint8" -> normUint8(arg)
    [] kind = "int16" -> normInt16(arg)
    [] kind = "int32" -> normInt32(arg)
    [] kind = "float32" -> normFloat32(arg)
    [] kind = "bool" -> normBool(arg)

(* Is the argument a value of type t already?                              *)
assertValue(t, arg) == arg.go = "value" /\ arg.type = t

-------------------------------------------------------------------------------
Of(t, v) == [type |-> t, v |-> v]
Panic == [type |-> "panic"]
IsText(arg) == arg.go \in {"string", "bytes"}

(* An argument that is to be a value of type t, or else a zero one.        *)
Part(t, arg) == IF assertValue(t, arg) THEN arg.v ELSE Zero(Layout[t])
Keypoint(t) == IF t = "NumberSequence" THEN "NumberSequenceKeypoint" ELSE "ColorSequenceKeypoint"
KeypointOf(t, arg) ==
  IF assertValue(Keypoint(t), arg) THEN arg.v ELSE Zero(Layout[t].of)
Floats(args, first, last) == [i \in 1 .. last - first + 1 |-> normFloat32(args[first + i - 1])]
Each(t, args) == [i \in DOMAIN args |-> norm(Layout[t].fields[i].of.kind, args[i])]

AsString(t, args) == IF IsText(args[1]) THEN Of("String", args[1].v) ELSE NewValue(t)
AsSharedString(args) ==
  IF IsText(args[1]) THEN Of("SharedString", args[1].v) ELSE NewValue("SharedString")
AsFields(t, args) == IF Len(args) = Len(Layout[t].fields) THEN Of(t, Each(t, args)) ELSE NewValue(t)
AsUDim2(args) ==
  CASE Len(args) = 2 -> Of("UDim2", <<Part("UDim", args[1]), Part("UDim", args[2])>>)
    [] Len(args) = 4 ->
         Of("UDim2", <<Each("UDim", SubSeq(args, 1, 2)), Each("UDim", SubSeq(args, 3, 4))>>)
    [] OTHER -> NewValue("UDim2")
(* Mutant: of two vectors, both are the first one.                         *)
MutAsRay(args) ==
  CASE Len(args) = 2 -> Of("Ray", <<Part("Vector3", args[1]), Part("Vector3", args[1])>>)
    [] Len(args) = 6 -> Of("Ray", <<Floats(args, 1, 3), Floats(args, 4, 6)>>)
    [] OTHER -> NewValue("Ray")
AsRay(args) ==
  CASE Len(args) = 2 -> Of("Ray", <<Part("Vector3", args[1]), Part("Vector3", args[2])>>)
    [] Len(args) = 6 -> Of("Ray", <<Floats(args, 1, 3), Floats(args, 4, 6)>>)
    [] OTHER -> NewValue("Ray")
(* Of ten, the rotation begins at the first one.                           *)
AsCFrame(args) ==
  CASE Len(args) = 10 -> Of("CFrame", <<Part("Vector3", args[1]), Floats(args, 1, 9)>>)
    [] Len(args) = 12 -> Of("CFrame", <<Floats(args, 1, 3), Floats(args, 4, 12)>>)
    [] OTHER -> NewValue("CFrame")
(* Of keypoints, or nothing: what is made of numbers is dropped.           *)
AsNumberSequence(args) ==
  IF assertValue(Keypoint("NumberSequence"), args[1]) /\ Len(args) >= 2
    THEN Of("NumberSequence", [i \in DOMAIN args |-> KeypointOf("NumberSequence", args[i])])
    ELSE NewValue("NumberSequence")
(* The second argument is looked at although there may be none.            *)
AsColorSequence(args) ==
  CASE Len(args) = 1 -> Panic
    [] Len(args) >= 2 /\ assertValue(Keypoint("ColorSequence"), args[1]) ->
         Of("ColorSequence", [i \in DOMAIN args |-> KeypointOf("ColorSequence", args[i])])
    [] OTHER -> NewValue("ColorSequence")
(* Of two, both are the first.                                             *)
AsRect(args) ==
  CASE Len(args) = 2 -> Of("Rect", <<Part("Vector2", args[1]), Part("Vector2", args[1])>>)
    [] Len(args) = 4 -> Of("Rect", <<Floats(args, 1, 2), Floats(args, 3, 4)>>)
    [] OTHER -> NewValue("Rect")
AsPhysicalProperties(args) ==
  CASE Len(args) = 3 -> Of("PhysicalProperties", <<TRUE>> \o Floats(args, 1, 3) \o <<0, 0>>)
    [] Len(args) = 5 -> Of("PhysicalProperties", <<TRUE>> \o Floats(args, 1, 5))
    [] OTHER -> NewValue("PhysicalProperties")

(* Type.value, of all types but Reference.                                 *)
value(t, args) ==
  CASE args = <<>> -> NewValue(t)
    [] args # <<>> /\ assertValue(t, args[1]) -> Of(t, args[1].v)
    [] OTHER ->
       CASE t \in {"String", "BinaryString", "ProtectedString", "Content"} -> AsString(t, args)
         [] t = "SharedString" -> AsSharedString(args)
         [] t = "Bool" -> IF args[1].go = "bool" THEN Of(t, args[1].v) ELSE NewValue(t)
         [] t = "Int" -> Of(t, normInt32(args[1]))
         [] t = "Float" -> Of(t, normFloat32(args[1]))
         [] t = "Double" -> Of("Float", Rounded(FloatBits, normFloat64(args[1])))
         [] t \in {"BrickColor", "Token"} -> Of(t, normUint32(args[1]))
         [] t = "Int64" -> Of(t, normInt64(args[1]))
         [] t = "UDim2" -> AsUDim2(args)
         [] t = "Ray" -> AsRay(args)
         [] t = "CFrame" -> AsCFrame(args)
         [] t = "NumberSequence" -> AsNumberSequence(args)
         [] t = "ColorSequence" -> AsColorSequence(args)
         [] t = "Rect" -> AsRect(args)
         [] t = "PhysicalProperties" -> AsPhysicalProperties(args)
         [] OTHER -> AsFields(t, args)

===============================================================================
