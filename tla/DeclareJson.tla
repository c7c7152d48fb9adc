------------------------------- MODULE DeclareJson -------------------------------
(***************************************************************************)
(* A root is declared, encoded to JSON and decoded again: Declare composed *)
(* with JsonCodec, which share the instances.  Roots that are not declared *)
(* are encoded too, and documents that are not encoded are decoded.        *)
(***************************************************************************)
EXTENDS JsonCodec, Declare

allVars == <<jsonVars, declareVars>>

NothingDeclared ==
  /\ decl = <<>> /\ stage = "none" /\ builds = <<>> /\ builtFor = [i \in {} |-> Nil]
  /\ classOf = [i \in Instances |-> NoRef] /\ childrenOf = [i \in Instances |-> <<>>]
  /\ roots = <<>> /\ metadata = [key \in Metadata |-> NoAttr]
  /\ named = [r \in {} |-> Nil] /\ props = {}

ComposedInit ==
  \/ JsonInit /\ NothingDeclared
  \/ /\ DeclareInit /\ NothingWritten /\ NothingRead
     /\ root = NoRoot /\ step = "wait" /\ objects = <<>> /\ document = [k \in {} |-> Null]

(* What Declare returns goes to Encode.                                    *)
HandOver ==
  /\ DeclareOver
  /\ root' = [instances |-> roots, children |-> childrenOf, class |-> classOf,
              isService |-> [i \in Instances |-> FALSE]]
  /\ stage' = "declared" /\ step' = "start"
  /\ UNCHANGED <<refs, reference, properties, todo, item, origin, objects, document, decodeVars,
                 decl, builds, builtFor, classOf, childrenOf, roots, metadata, named, props>>

Declaring ==
  DeclareNext /\ UNCHANGED <<root, step, todo, item, origin, objects, document, decodeVars>>
Coding == JsonNext /\ UNCHANGED declareVars

ComposedNext == Declaring \/ HandOver \/ Coding
ComposedSpec == ComposedInit /\ [][ComposedNext]_allVars

-------------------------------------------------------------------------------
(* Every part of a value, in the order of declare.go:168-273: one number   *)
(* or truth value for a leaf, and for a part of a struct either a value of *)
(* the type of the part or all that it is made of.                         *)
RECURSIVE Leaves(_)
Leaves(of) ==
  CASE of.shape = "leaf" -> 1
    [] of.shape = "struct" -> FoldLeft(LAMBDA n, f : n + Leaves(f.of), 0, of.fields)
    [] of.shape = "keypoints" -> 0
    [] of.shape = "rotation" -> 9
Whole(of, arg) == arg.go = "value" /\ arg.type \in Types /\ Layout[arg.type] = of

RECURSIVE Spread(_, _)
Spread(of, args) ==
  CASE of.shape = "leaf" -> norm(of.kind, args[1])
    [] of.shape = "rotation" -> [i \in 1 .. 9 |-> norm("float32", args[i])]
    [] of.shape = "struct" ->
         LET Taken(f, rest) == IF Whole(f.of, rest[1]) THEN 1 ELSE Leaves(f.of)
             TakePart(got, f) == [parts |-> Append(got.parts, Spread(f.of, got.rest)),
                               rest |-> SubSeq(got.rest, Taken(f, got.rest) + 1, Len(got.rest))]
         IN  IF Whole(of, args[1]) THEN args[1].v
             ELSE FoldLeft(TakePart, [parts |-> <<>>, rest |-> args], of.fields).parts

(* The forms that are documented: of the arguments that count, what each   *)
(* is.  Sequences need two keypoints, or as many numbers.                  *)
Kind(arg) ==
  CASE arg.go \in {"int", "float"} -> "number"
    [] arg.go \in {"string", "bytes"} -> "text"
    [] arg.go = "value" -> arg.type
    [] OTHER -> arg.go
Times(n, kind) == [i \in 1 .. n |-> kind]
Forms(t) ==
  CASE t \in {"String", "BinaryString", "ProtectedString", "Content", "SharedString"} -> {<<"text">>}
    [] t = "Bool" -> {<<"bool">>}
    [] t \in {"Int", "Float", "Double", "BrickColor", "Token", "Int64"} -> {<<"number">>}
    [] t = "UDim2" -> {Times(2, "UDim"), Times(4, "number")}
    [] t = "Ray" -> {Times(2, "Vector3"), Times(6, "number")}
    [] t = "Rect" -> {Times(2, "Vector2"), Times(4, "number")}
    [] t = "CFrame" -> {<<"Vector3">> \o Times(9, "number"), Times(12, "number")}
    [] t \in {"Faces", "Axes"} -> {Times(Leaves(Layout[t]), "bool")}
    [] t = "NumberSequence" -> {Times(2, Keypoint(t)), Times(6, "number")}
    [] t = "ColorSequence" ->
         {Times(2, Keypoint(t)), Times(10, "number"),
          <<"number", "Color3", "number", "number", "Color3", "number">>}
    [] t = "PhysicalProperties" -> {Times(3, "number"), Times(5, "number")}
    [] OTHER -> {Times(Leaves(Layout[t]), "number")}
IsDocumented(t, args) ==
  LET kinds == [i \in DOMAIN args |-> Kind(args[i])]
  IN  \E form \in Forms(t) : kinds = form \/ (Len(form) = 1 /\ SubSeq(kinds, 1, 1) = form)

Documented(t, args) ==
  CASE Layout[t].shape = "keypoints" -> [i \in DOMAIN args |-> args[i].v]
    [] t \in {"String", "SharedString", "Bool"} -> args[1].v
    [] t \in {"Int", "Int64", "BrickColor", "Token"} -> normInteger(Layout[t].kind, args[1])
    [] t = "Float" -> normFloat32(args[1])
    [] t = "PhysicalProperties" ->
         <<TRUE>> \o [i \in 1 .. 5 |-> IF i \in DOMAIN args THEN normFloat32(args[i]) ELSE 0]
    [] OTHER -> Spread(Layout[t], args)

(* The forms that are not read as documented: strings and numbers that get *)
(* another type, ten arguments of a CFrame, two of a Rect, sequences that  *)
(* are not made of keypoints.                                              *)
Misread(t, args) ==
  \/ t \in {"BinaryString", "ProtectedString", "Content", "Double"}
  \/ t = "CFrame" /\ Len(args) = 10
  \/ t = "Rect" /\ Len(args) = 2
  \/ Layout[t].shape = "keypoints" /\ Kind(args[1]) # Keypoint(t)

Expected(t, args) ==
  CASE args = <<>> -> NewValue(t)
    [] args # <<>> /\ Kind(args[1]) = t -> [type |-> t, v |-> args[1].v]
    [] OTHER -> [type |-> t, v |-> Documented(t, args)]

LastSet(inst, p) ==
  LET list == SelectSeq(DeclaredProperties(builtFor[inst]), LAMBDA prop : prop.name = p)
  IN  Last(list)
IsSet(inst, p) == \E i \in DOMAIN DeclaredProperties(builtFor[inst]) :
                    DeclaredProperties(builtFor[inst])[i].name = p

(* An evaluated property has the value that the documentation of Property  *)
(* promises for its arguments (declare.go:168-273), the last one when it   *)
(* is declared twice, but for the forms of Misread.                        *)
ValuesAsDocumented ==
  stage \in {"evaluate", "declared"} =>
    \A inst \in Built \ props, p \in Properties :
      IF ~IsSet(inst, p) THEN properties[inst][p] = Unset
      ELSE LET prop == LastSet(inst, p)
               given == prop.args = <<>> \/ Kind(prop.args[1]) = prop.typ
               plain == IsDocumented(prop.typ, prop.args) /\ ~Misread(prop.typ, prop.args)
           IN  prop.typ # "Reference" /\ (given \/ plain) =>
                 properties[inst][p] = Expected(prop.typ, prop.args)

(* The instances that are built are the declared ones, in their places,    *)
(* and a reference leads to the instance declared with its name, wherever  *)
(* in the declaration, the last one of them when there are several, and    *)
(* whichever instance is evaluated first (declare.go:31-92).               *)
NamedSo(name) == {n \in DOMAIN Fresh : Fresh[n] \in Built /\ DeclaredRef(builtFor[Fresh[n]]) = name}
Primaries(is) == SelectSeq(decl, LAMBDA primary : primary.is = is)
DeclaredTree ==
  stage \in {"evaluate", "declared"} =>
    /\ [n \in DOMAIN roots |-> builtFor[roots[n]]] = Primaries("instance")
    /\ \A inst \in Built :
         [n \in DOMAIN childrenOf[inst] |-> builtFor[childrenOf[inst][n]]]
           = DeclaredChildren(builtFor[inst])
    /\ \A inst \in Built \ props, p \in Properties :
         LET args == LastSet(inst, p).args
         IN  IsSet(inst, p) /\ LastSet(inst, p).typ = "Reference" /\ args # <<>> /\ IsText(args[1]) =>
               properties[inst][p] =
                 IF args[1].v = NoRef \/ NamedSo(args[1].v) = {} THEN Nil
                 ELSE Fresh[CHOOSE n \in NamedSo(args[1].v) : \A m \in NamedSo(args[1].v) : m <= n]

-------------------------------------------------------------------------------
(* What of a value is left when it is decoded.                             *)
MadeOf(inst) ==
  IF \E k \in DOMAIN madeFor : origin[k] = inst
    THEN madeFor[CHOOSE k \in DOMAIN madeFor : origin[k] = inst] ELSE 0
Decoded(s) == [i \in DOMAIN s |-> IF s[i] = NotUTF8 THEN Replaced ELSE s[i]]
Kept(t, v) ==
  CASE t \in {"String", "ProtectedString", "Content"} -> Decoded(v)
    [] t \in {"BinaryString", "SharedString"} -> SubSeq(v, 1, Len(v) - (Len(v) % 3))
    [] t = "Int64" -> IF Rounded(DoubleBits, v) = 2 ^ (8 * ByteBits - 1) THEN Beyond
                      ELSE Rounded(DoubleBits, v)
    [] OTHER -> v
Back(val) ==
  CASE val = Unset -> Unset
    [] val = Nil -> [type |-> "Reference", v |-> 0]
    [] val \in Instances -> [type |-> "Reference", v |-> MadeOf(val)]
    [] OTHER -> IF val.type \in {"UniqueId", "Font"} THEN Unset
                ELSE [type |-> val.type, v |-> Kept(val.type, val.v)]

InTree == {origin[k] : k \in DOMAIN origin}
Holds(inst, Test(_)) ==
  \E p \in Properties : properties[inst][p] \notin Instances \cup {Nil, Unset}
                          /\ Test(properties[inst][p])
Optional(val) == val.type = "Optional"
Unwritable(val) == ~Marshals(ValueToJSONInterface(val))

(* A root goes to JSON and back as it was: its instances in their order,   *)
(* with their classes and the references they have when Encode returns,    *)
(* and references to their counterparts, whichever of clashing names were  *)
(* changed and when.  Of values, strings lose what is not UTF-8, binary    *)
(* ones what is left of them behind groups of three bytes, large integers  *)
(* the bits that a float64 has no room for; unique ids and fonts are gone. *)
(* It fails for numbers that JSON does not have; it panics for a nil       *)
(* instance, for the first instance that has a child, and for optional     *)
(* values, whose type is written as a number (json.go:106-151, 259-430).   *)
JsonRoundTrip ==
  root # NoRoot =>
    /\ step = "error" => \E inst \in InTree : Holds(inst, Unwritable)
    /\ step = "panic" =>
         \/ todo # <<>> /\ Head(todo).instance = Nil
         \/ \E inst \in InTree : root.children[inst] # <<>> \/ Holds(inst, Optional)
    /\ step = "done" =>
         /\ [n \in DOMAIN instances |-> instances[n]]
              = [n \in DOMAIN root.instances |-> MadeOf(root.instances[n])]
         /\ \A inst \in InTree :
              /\ root.children[inst] = <<>>
              /\ made[MadeOf(inst)] =
                   [class |-> root.class[inst], reference |-> reference[inst],
                    isService |-> root.isService[inst],
                    properties |-> [p \in Properties |-> Back(properties[inst][p])]]

(* Objects of one name are one instance, and objects of different names or *)
(* of none are different ones, in whatever order they come, accepted or    *)
(* not; and when all are read a reference leads to the instance of its     *)
(* name (json.go:137-144, 204-214).                                        *)
NameOf(k) == RefIn(objects[k])
HasReference(k, p) ==
  /\ k \in DOMAIN madeFor /\ indexJSON(objects[k], "class_name", "string")
  /\ p \in Keys(objects[k])
  /\ LET j == objects[k]["properties"].v[p]
     IN  /\ j.is = "object" /\ indexJSON(j.v, "type", "string") /\ j.v["type"].v = "Reference"
         /\ indexJSON(j.v, "value", "string")
ReferencesMeet ==
  /\ \A j, k \in DOMAIN madeFor :
       j # k => (madeFor[j] = madeFor[k] <=> NameOf(j) = NameOf(k) /\ ~IsEmptyReference(NameOf(j)))
  /\ step = "done" =>
       \A k \in DOMAIN madeFor, p \in Properties :
         HasReference(k, p) =>
           \E later \in DOMAIN madeFor :
             /\ madeFor[later] = madeFor[k] /\ HasReference(later, p)
             /\ LET ref == objects[later]["properties"].v[p].v["value"].v
                    meant == {madeFor[m] : m \in {n \in DOMAIN madeFor : NameOf(n) = ref}}
                    got == made[madeFor[k]].properties[p]
                IN  /\ got.type = "Reference"
                    /\ IF IsEmptyReference(ref) \/ meant = {} THEN got.v = 0 ELSE meant = {got.v}

(* What file.go:16-17 says of roots: "Root structures can also be encoded  *)
(* and decoded with the json package."  A root with an instance that has a *)
(* child is not decoded.                                                   *)
TreesDecoded ==
  root # NoRoot /\ step = "panic" =>
    \/ todo # <<>> /\ Head(todo).instance = Nil
    \/ \E inst \in InTree : Holds(inst, Optional)

===============================================================================
