---------------------------- MODULE MCXmlRoundTrip ----------------------------
(***************************************************************************)
(* Small trees with every clash of names: equal, empty and drawn ones, and *)
(* references that lead forward, back, to the holder, out of the tree, to  *)
(* an instance that occurs twice and to nil.                               *)
(***************************************************************************)
EXTENDS XmlRoundTrip, TLC

CONSTANTS a, b, c, v, w, u, s, t

MCInstances == {a, b, c}
MCProperties == {1, 2}
MCData == {v, w, u, s, t}
MCUnknown == {u}
MCShared == {s, t}
MCReadable == [d \in MCData |-> IF d = w THEN v ELSE d]

(* The children of a, b and c.                                             *)
Tree(roots, ofA, ofB, ofC) ==
  [instances |-> roots, children |-> (a :> ofA @@ b :> ofB @@ c :> ofC)]
Forests ==
  {Tree(<<a>>, <<b>>, <<>>, <<>>), Tree(<<a, b>>, <<>>, <<c>>, <<>>),
   Tree(<<a>>, <<b, c>>, <<>>, <<>>), Tree(<<b, c>>, <<>>, <<>>, <<>>),
   Tree(<<a, b>>, <<c>>, <<c>>, <<>>), Tree(<<c, b>>, <<Nil>>, <<>>, <<a>>), Tree(<<>>, <<>>, <<>>, <<>>)}

Names == {<<"x", "x", "y">>, <<"", "", "x">>, <<"y", "x", "x">>, <<"null", "y", "g">>}

MCRoots ==
  {[instances |-> tree.instances, children |-> tree.children,
    class |-> (a :> "C" @@ b :> "D" @@ c :> "C"),
    reference |-> (a :> names[1] @@ b :> names[2] @@ c :> names[3]),
    properties |-> (a :> <<ofA, s>> @@ b :> <<ofB, Unset>> @@ c :> <<ofC, w>>),
    metadata |-> [m |-> "n", n |-> IF names[1] = "x" THEN "m" ELSE NoAttr],
    excludeReferent |-> excluded, excludeExternal |-> excluded, excludeMetadata |-> excluded] :
     tree \in Forests, names \in Names, ofA \in {a, b, c, Nil, v}, ofB \in {c, a, s, u},
     ofC \in {a, s}, excluded \in BOOLEAN}

-------------------------------------------------------------------------------
(* Documents of other origin: two items, beside each other or nested, with *)
(* a third in a tag without a class, second Properties, names that are     *)
(* missing, empty, used twice or used by nobody, and shared strings whose  *)
(* contents come before, after, twice or not at all.                       *)

Prop(name, kind, text) == [name |-> name, kind |-> kind, text |-> text]
Ref(name, text) == Prop(name, "Ref", text)
Value1 == Prop(1, "value", v)
Str(name, text) == Prop(name, "SharedString", text)

Firsts ==
  {<<Ref(1, "x")>>, <<Ref(1, "y"), Ref(2, "null")>>, <<Value1, Ref(1, "x")>>,
   <<Ref(1, "x"), Ref(1, "y")>>, <<Str(1, s), Ref(1, "x")>>, <<Str(1, s), Str(1, t)>>,
   <<Str(2, s), Value1, Str(1, t)>>, <<Value1, Ref(1, "null")>>,
   <<Prop(1, "broken", v), Prop(2, "unknown", v)>>, <<Value1, Prop(1, "broken", v)>>,
   <<Prop(1, "badhash", EmptyHash)>>, <<Prop(NoAttr, "value", v), Ref(2, "g")>>}

Sum(md5, text) == [md5 |-> md5, text |-> text]
StringLists ==
  {<<Sum(s, s), Sum(t, t)>>, <<Sum(t, s), Sum(NoAttr, t), Sum(s, t)>>, <<Sum(EmptyHash, t)>>,
   <<Sum(s, s), Sum(s, t)>>}

ItemNamed(class, referent, list) ==
  [start |-> "Item", class |-> class, referent |-> referent, tags |-> list]
PropertiesTag(list) == [start |-> "Properties", properties |-> list]
Strings(list) == [start |-> "SharedStrings", strings |-> list]

Table(first, referent1, referent2, list, strings) ==
  << PropertiesTag(first), PropertiesTag(<<Prop(2, "value", w)>>),
     ItemNamed("C", referent2, <<4>>), PropertiesTag(<<Ref(2, "x"), Str(1, s)>>),
     Strings(strings), [start |-> "Meta", name |-> "m", text |-> "n"], [start |-> "External"],
     ItemNamed("C", referent1, list), Strings(<<Sum(t, t)>>), ItemNamed(NoAttr, "x", <<2>>),
     [start |-> "Meta", name |-> NoAttr, text |-> "n"] >>

(* The tags of the first item, and those under the root.                   *)
Shapes ==
  {<< <<1, 3, 2>>, <<8, 5>> >>, << <<3, 1>>, <<5, 6, 8>> >>, << <<1, 10>>, <<8, 9, 3, 5>> >>,
   << <<1, 2>>, <<5, 7, 3, 2, 9, 8, 10, 11>> >>, << <<5, 1>>, <<3, 8>> >>}

MCDocuments ==
  {[tags |-> Table(first, referents[1], referents[2], shape[1], strings), top |-> shape[2],
    discard |-> discard] :
     first \in Firsts, strings \in StringLists, shape \in Shapes, discard \in BOOLEAN,
     referents \in {<<"x", "y">>, <<"x", "x">>, <<"y", "">>, <<NoAttr, "null">>}}

===============================================================================
