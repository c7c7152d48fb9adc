----------------------------- MODULE RbxlTransfer -----------------------------
(***************************************************************************)
(* What a tree may expect of the binary format: it is handed over in one   *)
(* step, and it is lost only if it is not sound, that is if an instance    *)
(* occurs twice in it, if a nil stands where an instance should, or if     *)
(* the types of a property cannot be written together.  The optionals of   *)
(* some types may be lost on the way, or become others.                    *)
(*                                                                         *)
(* Nothing here speaks of numbers, groups, chunks or tables of strings.    *)
(***************************************************************************)
EXTENDS Integers, Sequences

CONSTANTS
  Instances,    \* the pointers to instances
  Nil,          \* the nil pointer
  Names,        \* property names
  Roots         \* the trees that are handed over

VARIABLES
  root,         \* the tree given
  status,       \* given, taken or lost
  tree          \* the tree taken

vars == <<root, status, tree>>

Elements(s) == {s[i] : i \in DOMAIN s}

(* The instances under the root: those in every set that holds the root    *)
(* instances and, with an instance, its children.                          *)
Closed(S) ==
  /\ Elements(root.instances) \ {Nil} \subseteq S
  /\ \A inst \in S : Elements(root.children[inst]) \ {Nil} \subseteq S
Tree == {inst \in Instances : \A S \in SUBSET Instances : Closed(S) => inst \in S}

ListOf(parent) == IF parent = Nil THEN root.instances ELSE root.children[parent]
Places == UNION {{parent} \X DOMAIN ListOf(parent) : parent \in Tree \cup {Nil}}
At(place) == ListOf(place[1])[place[2]]

Value(inst, name) == root.properties[inst][name]
Has(inst, name) == Value(inst, name).type # "absent"
IsOptional(v) == v.type \in {"some", "none"}
SameType(v, w) == v.type = w.type \/ (IsOptional(v) /\ IsOptional(w))

Holders(class, name) == {inst \in Tree : root.class[inst] = class /\ Has(inst, name)}
ClassesInTree == {root.class[inst] : inst \in Tree}

Sound ==
  /\ \A place \in Places : At(place) # Nil
  /\ \A p, q \in Places : At(p) = At(q) => p = q
  /\ \A class \in ClassesInTree, name \in Names : \A inst, other \in Holders(class, name) :
       LET v == Value(inst, name)
           w == Value(other, name) IN
       /\ v.type # "invalid"
       /\ IsOptional(v) => v.inner \notin {"invalid", "optional"}
       /\ IsOptional(v) /\ IsOptional(w) => v.inner = w.inner

(* A property is handed over if all instances of the class that have it    *)
(* have it with the same type; a UniqueId only by a place.                 *)
Kept(class, name) ==
  /\ Holders(class, name) # {}
  /\ \A inst, other \in Holders(class, name) : SameType(Value(inst, name), Value(other, name))
  /\ root.mode = "place" \/ \A inst \in Holders(class, name) : Value(inst, name).type # "unique"

(* An optional of a type whose arrays are interleaved is not handed over,  *)
(* or some other values of its type are.                                   *)
Interleaved == {"packed", "unique", "reference", "shared"}
Garbled(class, name) ==
  \E inst \in Holders(class, name) :
    IsOptional(Value(inst, name)) /\ Value(inst, name).inner \in Interleaved

Plain == {"value", "unique"}

(* What becomes of a value.                                                *)
Given(v, taken) ==
  CASE v.type = "reference" ->
         taken = [type |-> "reference", value |-> IF v.value \in Tree THEN v.value ELSE Nil]
    [] v.type = "shared" -> taken = [type |-> "shared", value |-> v.value]
    [] v.type = "some" -> taken = [type |-> "some", value |-> v.value]
    [] v.type = "none" -> taken = [type |-> "none", value |-> 0]
    [] v.type \in Plain -> taken = [type |-> "value", value |-> v.value]

(* An instance without the property gets one because another of its class  *)
(* has one like v.  Of a reference or a shared string nothing more is said *)
(* than its type.                                                          *)
FilledIn(v, taken) ==
  CASE v.type \in {"reference", "shared"} -> taken.type = v.type
    [] IsOptional(v) -> taken = [type |-> "none", value |-> 0]
    [] v.type \in Plain -> taken = [type |-> "value", value |-> 0]

PropertyFits(inst, name, taken) ==
  LET class == root.class[inst] IN
  CASE ~Kept(class, name) -> taken.type = "unset"
    [] Kept(class, name) /\ Garbled(class, name) -> taken.type \in {"unset", "some", "none"}
    [] Kept(class, name) /\ ~Garbled(class, name) /\ Has(inst, name) ->
         Given(Value(inst, name), taken)
    [] OTHER -> \A other \in Holders(class, name) : FilledIn(Value(other, name), taken)

(* The tree is the same tree, with classes in the same order, the services *)
(* of a place, and the properties above.                                   *)
Fits(t) ==
  /\ t.instances = IF Tree = {} THEN <<>> ELSE root.instances
  /\ t.children = [inst \in Tree |-> root.children[inst]]
  /\ \A inst, other \in Tree :
       t.class[inst] < t.class[other] <=> root.class[inst] < root.class[other]
  /\ t.services = IF root.mode = "place" THEN root.services \cap Tree ELSE {}
  /\ \A inst \in Tree, name \in Names : PropertyFits(inst, name, t.properties[inst][name])
  /\ t.metadata = root.metadata

Init == root \in Roots /\ status = "given"

Take ==
  /\ status = "given"
  /\ status' = "taken"
  /\ Fits(tree')
  /\ UNCHANGED root

Lose ==
  /\ status = "given"
  /\ status' = "lost"
  /\ ~Sound
  /\ UNCHANGED <<root, tree>>

Next == Take \/ Lose

Spec == Init /\ [][Next]_vars

===============================================================================
