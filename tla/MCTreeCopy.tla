------------------------------ MODULE MCTreeCopy ------------------------------
(* Five forests over three instances: a chain, two roots, a child copied   *)
(* by Instance.Copy while its parent stays outside, an instance that is    *)
(* both a root and a child, and a parent of two.  Instances may be unnamed *)
(* or share a name, the generator may draw the name "r" of an instance not *)
(* met yet, and references lead inside, outside, to the holder or nowhere. *)
(* A value that is not a reference is plain, or an optional that holds a   *)
(* font whose cached face is not its family.                               *)
EXTENDS TreeCopy

CONSTANTS a, b, o, d, f, copyOfF

MCMaxClones == 3
MCOriginals == {a, b, o}
MCInstances == MCOriginals \cup 1 .. MCMaxClones
MCRefs == {"", "r", "s", "g", "h"}
MCEmptyRefs == {""}
MCGenerated == {"r", "g", "h"}
MCProperties == {"p", "q"}
MCFonts == {f, copyOfF}
MCData == {d} \cup MCFonts
MCContents == {"family", "face"}
MCFont == [v \in MCFonts |-> [optionals |-> 1, family |-> "family",
                             cachedFaceId |-> IF v = f THEN "face" ELSE "family"]]
MCMetadata == {"none", "some"}

Heap(as, bs) == [i \in MCOriginals |-> IF i = a THEN as ELSE IF i = b THEN bs ELSE <<>>]

Forests == {
  [roots |-> <<a>>, children |-> Heap(<<b>>, <<>>)],
  [roots |-> <<a, b>>, children |-> Heap(<<>>, <<>>)],
  [roots |-> <<b>>, children |-> Heap(<<b>>, <<>>)],
  [roots |-> <<a, b>>, children |-> Heap(<<b>>, <<>>)],
  [roots |-> <<a>>, children |-> Heap(<<b, o>>, <<>>)] }

Maps == {
  [i \in MCOriginals |->
     CASE i = a -> [p |-> x, q |-> y]
       [] i = b -> [p |-> z, q |-> Unset]
       [] i = o -> [p |-> a, q |-> Unset]] :
  x \in {Unset, d, f, Nil, a, b, o}, y \in {Unset, b, o}, z \in {Unset, a, b, o} }

MCInputs ==
  {[roots |-> t.roots, metadata |-> "some", children |-> t.children,
    reference |-> n, properties |-> m] :
   t \in Forests, n \in [MCOriginals -> {"", "r", "s"}], m \in Maps}
===============================================================================
