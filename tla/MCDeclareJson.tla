----------------------------- MODULE MCDeclareJson -----------------------------
(***************************************************************************)
(* Three instances.  Declarations: of every type its documented forms and  *)
(* some others; trees with equal names, names used before their instance   *)
(* and names of none.  Roots: a value of every type, and references        *)
(* between instances whose names clash.  Documents: objects of one name,   *)
(* without a class, with children, and properties of every broken kind.    *)
(* A byte has three bits.                                                  *)
(***************************************************************************)
EXTENDS DeclareJson, TLC

CONSTANTS a, b, c

(* TLC compares records by their fields in the order in which they are     *)
(* named here, and parts of different types are not to be compared.        *)
Meta(key, value0) == [is |-> "metadata", key |-> key, value |-> value0]
ValueArg(type, val) == [go |-> "value", type |-> type, v |-> val]
Arg(go, val) == [go |-> go, v |-> val]
Json(is, val) == [is |-> is, v |-> val]

MCInstances == {a, b, c}
MCFresh == <<a, b, c>>
MCBeyond == Least("int64")

(* Values.                                                                 *)
Word(kind, k) ==
  CASE kind = "bool" -> k % 2 = 0
    [] kind \in {"float32", "float64"} -> <<3, -7, 1022, 0>>[1 + (k % 4)]
    [] Integer(kind) -> IF k % 2 = 0 THEN Least(kind) + 2 ^ Bits(kind) - 1 ELSE Least(kind)
RECURSIVE Sample(_, _)
Sample(of, k) ==
  CASE of.shape = "leaf" -> Word(of.kind, k)
    [] of.shape = "struct" -> [i \in DOMAIN of.fields |-> Sample(of.fields[i].of, k + i)]
    [] of.shape = "keypoints" -> [i \in 1 .. (k % 3) |-> Sample(of.of, k + i)]
    [] of.shape = "rotation" -> [i \in 1 .. 9 |-> 2 * i + k]
Strings == {<<>>, <<5>>, <<0, 4, 6>>, <<4, 0, 5, 6>>}
Texts == {"String", "BinaryString", "ProtectedString", "Content", "SharedString"}
Odd == {"Reference", "Optional", "UniqueId", "Font"}
MCData ==
  {Of(t, v) : t \in Texts, v \in Strings}
    \cup {Of(t, Sample(Layout[t], k)) : t \in Types \ (Texts \cup Odd), k \in {0, 1}}
    \cup {Of("Int64", n) : n \in {-1048579, 1048577, 8388607}} \cup {Of("Float", NaN), Of("Vector2", <<1, NaN>>)}
    \cup {Of("UniqueId", 0), Of("Font", 0), Of("Optional", <<"Int", 3>>), Of("Optional", <<"Int">>)}

Root(instances0, ofA, ofB, names, values) ==
  [instances |-> instances0, children |-> (a :> ofA @@ b :> ofB @@ c :> <<>>),
   class |-> (a :> "A" @@ b :> "B" @@ c :> "C"),
   isService |-> (a :> TRUE @@ b :> FALSE @@ c :> FALSE),
   reference |-> (a :> names[1] @@ b :> names[2] @@ c :> names[3]),
   properties |-> (a :> [p |-> values[1], q |-> values[2]] @@ b :> [p |-> values[3], q |-> Unset]
                     @@ c :> [p |-> a, q |-> Unset])]
MCRoots ==
  {Root(<<a>>, <<>>, <<>>, <<"x", "", "">>, <<v, Unset, Unset>>) : v \in MCData}
    \cup {Root(shape[1], shape[2], shape[3], names, <<b, v, w>>) :
            shape \in {<<<<a, b>>, <<>>, <<>>>>, <<<<b, c, a>>, <<>>, <<>>>>, <<<<a, a>>, <<>>, <<>>>>,
                       <<<<c>>, <<>>, <<>>>>, <<<<a>>, <<b>>, <<>>>>, <<<<b, a>>, <<>>, <<c>>>>,
                       <<<<a, Nil>>, <<>>, <<>>>>},
            names \in {<<"x", "x", "y">>, <<"", "", "x">>, <<"y", "x", "x">>, <<"null", "y", "g">>},
            v \in {a, Nil}, w \in {a, b, c}}

(* Declarations.                                                           *)
Ints(n) == [i \in 1 .. n |-> IF i % 3 = 0 THEN Arg("float", 5) ELSE Arg("int", 70 * i - 200)]
Booleans(n) == [i \in 1 .. n |-> Arg("bool", i % 2 = 1)]
Parts(t, n) == [i \in 1 .. n |-> ValueArg(t, Sample(Layout[t], i))]
KeypointParts(t, n) == [i \in 1 .. n |-> ValueArg(Keypoint(t), Sample(Layout[t].of, i))]
Colors == <<Arg("int", 0), ValueArg("Color3", <<1, 2, 3>>), Arg("int", 0)>>
Arguments(t) ==
  {<<>>, <<ValueArg(t, IF t \in Texts THEN <<5>> ELSE Sample(Layout[t], 1))>>}
    \cup (CASE t \in Texts -> {<<Arg("string", <<4, 5>>)>>, <<Arg("bytes", <<6>>), Arg("int", 1)>>}
            [] t \in {"Faces", "Axes", "Bool"} -> {Booleans(1), Booleans(3), Booleans(6)}
            [] t = "UDim2" -> {Parts("UDim", 2)} [] t = "Ray" -> {Parts("Vector3", 2)}
            [] t = "Rect" -> {Parts("Vector2", 2)}
            [] t = "CFrame" -> {Parts("Vector3", 1) \o Ints(9), Ints(12)}
            [] t = "NumberSequence" -> {KeypointParts(t, 2), KeypointParts(t, 1)}
            [] t = "ColorSequence" -> {KeypointParts(t, 2), Colors \o Colors, Ints(10), Ints(1)}
            [] OTHER -> {})
    \cup (IF t \in {"String", "Bool", "ColorSequence"} THEN {} ELSE {Ints(n) : n \in 1 .. 6})

Property(name, t, args) == [is |-> "property", name |-> name, typ |-> t, args |-> args]
Ref(r) == [is |-> "ref", ref |-> r]
Instance(class, elements) == [is |-> "instance", class |-> class, elements |-> elements]
Refers(name, r) == Property(name, "Reference", <<Arg("string", r)>>)

MCDeclarations ==
  {<<Instance("A", <<Property("p", t, args), Property("q", "Bool", Booleans(1))>>)>> :
     <<t, args>> \in UNION {{<<t, args>> : args \in Arguments(t)} : t \in Types \ Odd}}
    \cup {<<Meta("m", "n"), Instance("A", <<Refers("p", to[1]), Ref(names[1]), Refers("p", to[2])>>),
            Instance("B", <<Ref("x"), Ref(names[2])>> \o inner), Meta("m", "m")>> :
            to \in {<<"x", "y">>, <<"y", "x">>, <<"", "g">>}, names \in {<<"x", "x">>, <<"x", "y">>, <<"", "x">>},
            inner \in {<<>>, <<Instance("C", <<Refers("q", "x"), Ref("y")>>)>>}}
    \cup {<<Instance("A", <<Property("p", "Reference", <<Arg("pointer", c)>>),
                           Property("q", "Reference", <<Arg("int", 1)>>)>>)>>}

(* Documents.                                                              *)
Entry(class, ref, props0, children0) ==
  [class_name |-> class, reference |-> ref, is_service |-> JBool(TRUE), properties |-> Json("object", props0),
   children |-> JArray(children0)]
To(r) == Typed("Reference", JString(r))
Document(entries, top) ==
  [objects |-> entries, document |-> [rbxfile_version |-> Number(0), instances |-> JArray(top)]]
Obj(keys, v) == Object(keys, [i \in DOMAIN keys |-> v])
Broken ==
  {Null, Number(1), Typed("Nothing", Number(1)), Typed("Int", Null), Typed("Int", Number(5)),
   Json("object", [type |-> Number(3), value |-> Number(3)]),
   Json("object", [type |-> JString("Int")]),
   Typed("Bool", Number(0)), Typed("String", Text(<<<<5>>, <<4, 6, 5>>>>)), Typed("Content", Null),
   Typed("Color3", Obj(<<"r", "g">>, Number(2))), Typed("Color3", Obj(<<"r", "g", "b">>, Number(2))),
   Typed("UDim2", Obj(<<"x", "y">>, Number(1))), Typed("Color3", JArray(<<>>)),
   Typed("CFrame", Object(<<"position">>, <<Obj(<<"x", "y", "z">>, Number(2))>>)),
   Typed("CFrame", Object(<<"position", "rotation">>,
                          <<Obj(<<"x", "y", "z">>, Number(2)), JArray(<<Number(2), Number(4)>>)>>)),
   Typed("CFrame", Object(<<"position", "rotation">>,
                          <<Obj(<<"x", "y", "z">>, Number(2)), JArray(<<Number(2), Null>>)>>)),
   Typed("NumberSequence", JArray(<<Null, Obj(<<"time", "value", "envelope">>, Number(2))>>)),
   Typed("NumberSequence", JArray(<<Obj(<<"time", "value">>, Number(2))>>)),
   Typed("Optional", Object(<<"type", "value">>, <<JString("Int"), Number(6)>>)),
   Typed("Optional", Object(<<"type", "value">>, <<JString("Int"), Null>>)),
   Typed("Optional", Object(<<"type", "value">>, <<JString("Int"), JBool(TRUE)>>)),
   Typed("Optional", Object(<<"type", "value">>, <<Number(6), Null>>)),
   Typed("Reference", Number(1)), Typed("Optional", Null)}
MCDocuments ==
  {Document(<<Entry(JString("A"), JString("x"), [p |-> j], <<>>)>>, <<ObjectAt(1)>>) : j \in Broken}
    \cup {Document(<<Entry(JString("A"), JString(names[1]), [p |-> To(to[1]), q |-> Typed("Int", Number(2))], <<>>),
                     Entry(second, JString(names[2]), [p |-> To(to[2]), q |-> To("x")], children0),
                     Entry(Null, JString(names[3]), [p |-> To("x")], <<>>)>>,
                   <<ObjectAt(1), ObjectAt(2), Null, ObjectAt(3)>>) :
            names \in {<<"x", "x", "y">>, <<"x", "y", "x">>, <<"y", "null", "x">>, <<"nil", "", "">>},
            to \in {<<"x", "y">>, <<"y", "">>, <<"null", "x">>}, second \in {JString("B"), Null},
            children0 \in {<<>>, <<Null>>, <<ObjectAt(3)>>, <<ObjectAt(1)>>}}
    \cup {[objects |-> <<>>, document |-> d] :
            d \in {[k \in {} |-> Null], [rbxfile_version |-> Number(2), instances |-> JArray(<<>>)],
                   [rbxfile_version |-> Number(0)], [rbxfile_version |-> Number(1), instances |-> JArray(<<>>)]}}

===============================================================================
