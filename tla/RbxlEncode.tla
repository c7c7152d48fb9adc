------------------------------ MODULE RbxlEncode ------------------------------
(***************************************************************************)
(* Encoding to the binary format: robloxCodec.Encode (rbxl/codec.go) turns *)
(* a tree into the chunks of a file.                                       *)
(*                                                                         *)
(* It numbers the instances, a parent before its children and each once;   *)
(* groups them by class; and takes the classes in the order of their       *)
(* names, checking for each that the types of every property agree and     *)
(* then filling the arrays of those that do.  At the end it walks the tree *)
(* a second time, children first, to write the links to the parents.  The  *)
(* second walk does not look at what the first has passed over, and the    *)
(* arrays are filled from whatever the check has left in place.            *)
(*                                                                         *)
(* Strings are integers: the order of class and property names matters,    *)
(* shared string 0 is the empty one.  The properties of an instance are a  *)
(* total function, a missing one being Absent.                             *)
(***************************************************************************)
EXTENDS Integers, Sequences, FiniteSets

CONSTANTS
  Instances,    \* the pointers to instances, in the tree or not
  Classes,      \* class names
  Names,        \* property names
  Roots         \* the roots that are encoded, each with the Mode of the codec

Nil == 0        \* the nil pointer
nilInstance == -1

Types == {"value", "unique", "reference", "shared", "optional", "invalid"}

(* In an optional, "value" is a plain type whose arrays are not interleaved *)
(* and "packed" one whose arrays are.                                      *)
InnerTypes == Types \cup {"packed"}
Interleaved == {"packed", "unique", "reference", "shared"}

Absent == [type |-> "absent", inner |-> "invalid", value |-> 0]
NoneOf(inner) == [type |-> "none", inner |-> inner, value |-> 0]
Value ==
  {Absent} \cup [type : (Types \ {"optional"}) \cup {"some", "none"}, inner : InnerTypes, value : Int]

(* A rbxfile.Root.  Only the UniqueId type is told from the other plain    *)
(* types ("value"): the codec asks for it by name.                         *)
RootRecord ==
  [mode : {"place", "model"}, instances : Seq(Instances \cup {Nil}),
   children : [Instances -> Seq(Instances \cup {Nil})], class : [Instances -> Classes],
   services : SUBSET Instances, properties : [Instances -> [Names -> Value]],
   metadata : SUBSET (Nat \X Nat)]

ASSUME EncodeAssumption ==
  /\ Instances \subseteq Nat \ {Nil}
  /\ Classes \subseteq Nat /\ Names \subseteq Nat
  /\ IsFiniteSet(Names)
  /\ Roots \subseteq RootRecord

VARIABLES
  root,         \* the tree, which Encode only reads
  step,         \* list, group, sort, check, fill, link, then done or panic
  todo,         \* the calls of addInstance still to be made
  instList,     \* the instances in the order of their numbers
  instChunkMap, \* class -> the numbers of its instances, in order
  grouped,      \* how many instances have their group
  instChunks,   \* the INST chunks, by ClassID, of the classes taken so far
  unchecked,    \* names of propChunkMap still to be checked
  propChunkMap, \* name -> the type of its array; "nil" before it has one, "none" outside
  skipped,      \* <<ClassID, name>> of the warnings "chunk skipped"
  propChunks,   \* the PROP chunks, the last one perhaps still being filled
  sharedStrings,\* the shared strings by their index
  walk,         \* the calls of recInst still to be made or to be finished
  links,        \* the parent chunk as pairs of child and parent
  file          \* formatModel.Chunks

propVars == <<unchecked, propChunkMap, skipped, propChunks, sharedStrings>>
linkVars == <<walk, links>>
encodeVars == <<root, step, todo, instList, instChunkMap, grouped, instChunks,
                propVars, linkVars, file>>

Steps == {"list", "group", "sort", "check", "fill", "link", "done", "panic"}
InstChunk == [sig : {"INST"}, class : Nat, ids : Seq(Nat), isService : BOOLEAN, getService : Seq({0, 1})]
PropChunk ==
  [sig : {"PROP"}, class : Nat, name : Names,
   kind : {"reference", "shared", "optional", "packed", "value"},
   values : Seq(Int), present : Seq(BOOLEAN)]
Call == [instance : Instances \cup {Nil}, parent : Instances \cup {Nil}, entered : BOOLEAN]
Link == [child : Nat \cup {nilInstance}, parent : Nat \cup {nilInstance}]

ListTypeOK ==
  /\ root \in Roots
  /\ step \in Steps
  /\ todo \in Seq(Instances \cup {Nil})
  /\ instList \in Seq(Instances)

GroupTypeOK ==
  /\ instChunkMap \in [Classes -> Seq(Nat)]
  /\ grouped \in 0 .. Len(instList)
  /\ instChunks \in Seq(InstChunk)

PropTypeOK ==
  /\ unchecked \subseteq Names
  /\ propChunkMap \in [Names -> (Types \ {"invalid"}) \cup {"nil", "none"}]
  /\ skipped \subseteq Nat \X Names
  /\ propChunks \in Seq(PropChunk)
  /\ sharedStrings \in Seq(Int)

LinkTypeOK ==
  /\ walk \in Seq(Call)
  /\ links \in Seq(Link)
  /\ \A i \in DOMAIN links : links[i].child < Len(instList) /\ links[i].parent < Len(instList)

TypeOK == ListTypeOK /\ GroupTypeOK /\ PropTypeOK /\ LinkTypeOK

-------------------------------------------------------------------------------

(* Mutant: the position in a list that starts at one.                      *)
MutNumber(inst) ==
  IF \E i \in DOMAIN instList : instList[i] = inst
  THEN CHOOSE i \in DOMAIN instList : instList[i] = inst ELSE nilInstance

(* refs[inst]: nil is in the map, an instance that is not in the tree is   *)
(* not, and both lead to nilInstance.                                      *)
Listed(inst) == \E i \in DOMAIN instList : instList[i] = inst
Number(inst) ==
  IF Listed(inst) THEN (CHOOSE i \in DOMAIN instList : instList[i] = inst) - 1 ELSE nilInstance

InstanceAt(id) == instList[id + 1]
Property(id, name) == root.properties[InstanceAt(id)][name]

Crash ==
  /\ step' = "panic"
  /\ UNCHANGED <<root, todo, instList, instChunkMap, grouped, instChunks, propVars, linkVars, file>>

(* The calls addInstance makes for the children, before those that follow. *)
Calls(inst, rest) == root.children[inst] \o rest

(* Mutant: an instance is not looked up before it is added.                *)
MutSeen(inst) == inst = Nil

(* refs has nil from the beginning.                                        *)
Seen(inst) == inst = Nil \/ Listed(inst)

(* addInstance; what was seen already is passed over.                      *)
AddInstance ==
  /\ step = "list"
  /\ todo # <<>>
  /\ LET inst == Head(todo) IN
     IF Seen(inst)
     THEN todo' = Tail(todo) /\ UNCHANGED instList
     ELSE /\ instList' = Append(instList, inst)
          /\ todo' = Calls(inst, Tail(todo))
  /\ UNCHANGED <<root, step, instChunkMap, grouped, instChunks, propVars, linkVars, file>>

AllListed ==
  /\ step = "list"
  /\ todo = <<>>
  /\ step' = "group"
  /\ UNCHANGED <<root, todo, instList, instChunkMap, grouped, instChunks, propVars, linkVars, file>>

(* The next instance joins the group of its class.                         *)
GroupInstance ==
  /\ step = "group"
  /\ grouped < Len(instList)
  /\ LET class == root.class[InstanceAt(grouped)] IN
     instChunkMap' = [instChunkMap EXCEPT ![class] = Append(@, grouped)]
  /\ grouped' = grouped + 1
  /\ UNCHANGED <<root, step, todo, instList, instChunks, propVars, linkVars, file>>

AllGrouped ==
  /\ step = "group"
  /\ grouped = Len(instList)
  /\ step' = "sort"
  /\ UNCHANGED <<root, todo, instList, instChunkMap, grouped, instChunks, propVars, linkVars, file>>

-------------------------------------------------------------------------------
(* The groups in the order of their class names.  A group leaves           *)
(* instChunkMap when its turn comes.                                       *)

IsLeast(x, S) == x \in S /\ \A y \in S : x <= y
Waiting == {class \in Classes : instChunkMap[class] # <<>>}

IsService(id) == root.mode = "place" /\ InstanceAt(id) \in root.services

(* Mutant: class ids that start at one.                                    *)
MutClassID == Len(instChunks) + 1

ClassID == Len(instChunks)

(* The chunk as it is written: GetService only with IsService.             *)
InstChunkOf(ids) ==
  LET isService == \E i \in DOMAIN ids : IsService(ids[i]) IN
  [sig |-> "INST", class |-> ClassID, ids |-> ids, isService |-> isService,
   getService |-> IF isService
                  THEN [i \in DOMAIN ids |-> IF IsService(ids[i]) THEN 1 ELSE 0]
                  ELSE <<>>]

NextGroup(class) ==
  /\ step = "sort"
  /\ IsLeast(class, Waiting)
  /\ LET ids == instChunkMap[class]
         named == {name \in Names : \E i \in DOMAIN ids : Property(ids[i], name) # Absent} IN
     /\ instChunks' = Append(instChunks, InstChunkOf(ids))
     /\ unchecked' = named
     /\ propChunkMap' = [name \in Names |-> IF name \in named THEN "nil" ELSE "none"]
  /\ instChunkMap' = [instChunkMap EXCEPT ![class] = <<>>]
  /\ step' = "check"
  /\ UNCHANGED <<root, todo, instList, grouped, skipped, propChunks, sharedStrings, linkVars, file>>

Group == instChunks[Len(instChunks)]

-------------------------------------------------------------------------------
(* Do the types of a property match?  The names of the map come in any     *)
(* order.                                                                  *)

TypeOf(v) == IF v.type \in {"some", "none"} THEN "optional" ELSE v.type

Holders(name) == {i \in DOMAIN Group.ids : Property(Group.ids[i], name) # Absent}
ValueAt(i, name) == Property(Group.ids[i], name)
First(name) == ValueAt(CHOOSE i \in Holders(name) : IsLeast(i, Holders(name)), name)

SameType(v, w) == TypeOf(v) = TypeOf(w)
SameInner(v, w) == TypeOf(v) = "optional" => v.inner = w.inner

(* Where the value does not match that of the first holder; the check      *)
(* stops at the first of these.                                            *)
Odd(name) ==
  {i \in Holders(name) : ~SameType(ValueAt(i, name), First(name))
                         \/ ~SameInner(ValueAt(i, name), First(name))}
FirstOdd(name) == ValueAt(CHOOSE i \in Odd(name) : IsLeast(i, Odd(name)), name)

(* The warning about an unknown type names instList[nilInstance].          *)
Unknown(name) ==
  \/ TypeOf(First(name)) = "invalid"
  \/ TypeOf(First(name)) = "optional" /\ First(name).inner = "invalid"
PlaceOnly(name) == TypeOf(First(name)) = "unique" /\ root.mode # "place"

(* What the check leaves in propChunkMap: nothing, the array of the type,  *)
(* or, where only the types in an optional differ, the chunk without an    *)
(* array.                                                                  *)
Checked(name) ==
  CASE PlaceOnly(name) -> "none"
    [] ~PlaceOnly(name) /\ Odd(name) = {} -> TypeOf(First(name))
    [] ~PlaceOnly(name) /\ Odd(name) # {} /\ ~SameType(FirstOdd(name), First(name)) -> "none"
    [] OTHER -> "nil"

CheckProperty(name) ==
  /\ step = "check"
  /\ name \in unchecked
  /\ \/ Unknown(name) /\ Crash
     \/ /\ ~Unknown(name)
        /\ unchecked' = unchecked \ {name}
        /\ propChunkMap' = [propChunkMap EXCEPT ![name] = Checked(name)]
        /\ skipped' = IF ~PlaceOnly(name) /\ Odd(name) # {}
                      THEN skipped \cup {<<Group.class, name>>} ELSE skipped
        /\ UNCHANGED <<root, step, todo, instList, instChunkMap, grouped, instChunks,
                       propChunks, sharedStrings, linkVars, file>>

AllChecked ==
  /\ step = "check"
  /\ unchecked = {}
  /\ step' = "fill"
  /\ UNCHANGED <<root, todo, instList, instChunkMap, grouped, instChunks, propVars, linkVars, file>>

-------------------------------------------------------------------------------
(* The arrays, in the order of the names.                                  *)

Current == propChunks[Len(propChunks)]
Filling == propChunks # <<>> /\ Current.class = Group.class /\ Len(Current.values) < Len(Group.ids)

Remaining == {name \in Names : propChunkMap[name] # "none"}

(* The array of a property. "packed" is an optional array whose values are *)
(* interleaved.                                                            *)
Kind(name) ==
  CASE propChunkMap[name] = "unique" -> "value"
    [] propChunkMap[name] = "optional" ->
         IF First(name).inner \in Interleaved THEN "packed" ELSE "optional"
    [] OTHER -> propChunkMap[name]

(* A chunk without an array is a nil dereference at its first value.       *)
StartProperty(name) ==
  /\ step = "fill"
  /\ ~Filling
  /\ IsLeast(name, Remaining)
  /\ \/ propChunkMap[name] = "nil" /\ Crash
     \/ /\ propChunkMap[name] # "nil"
        /\ propChunks' = Append(propChunks,
             [sig |-> "PROP", class |-> Group.class, name |-> name,
              kind |-> Kind(name),
              values |-> <<>>, present |-> <<>>])
        /\ propChunkMap' = [propChunkMap EXCEPT ![name] = "none"]
        /\ UNCHANGED <<root, step, todo, instList, instChunkMap, grouped, instChunks,
                       unchecked, skipped, sharedStrings, linkVars, file>>

(* Mutant: a string that is known gets a new index all the same.           *)
MutIndex(string) == Len(sharedStrings)

Known(string) == \E i \in DOMAIN sharedStrings : sharedStrings[i] = string
Index(string) ==
  IF Known(string) THEN (CHOOSE i \in DOMAIN sharedStrings : sharedStrings[i] = string) - 1
  ELSE Len(sharedStrings)

(* encodeValue gives nothing for the types that need more than the value.  *)
Encodable(v) == v.type = "some" /\ v.inner \notin {"reference", "shared"}

(* The element for a value.  A missing one is newValue of the type of the  *)
(* array: zero, and no value for an optional.                              *)
Element(v) ==
  CASE v.type = "reference" -> Number(v.value)
    [] v.type = "shared" -> Index(v.value)
    [] v.type = "some" -> IF Encodable(v) THEN v.value ELSE 0
    [] v.type \in {"none", "absent"} -> 0
    [] OTHER -> v.value

OfOptionals(ch) == ch.kind \in {"optional", "packed"}

(* The chunk with one more element.                                        *)
Presence(v) ==
  IF OfOptionals(Current) THEN Append(Current.present, Encodable(v)) ELSE Current.present
Longer(v) == [Current EXCEPT !.values = Append(@, Element(v)), !.present = Presence(v)]

FillValue ==
  /\ step = "fill"
  /\ Filling
  /\ LET v == ValueAt(Len(Current.values) + 1, Current.name) IN
     \* The array of an optional in an optional is not there.
     \/ OfOptionals(Current) /\ First(Current.name).inner = "optional" /\ Crash
     \/ /\ ~(OfOptionals(Current) /\ First(Current.name).inner = "optional")
        /\ propChunks' = [propChunks EXCEPT ![Len(propChunks)] = Longer(v)]
        /\ sharedStrings' = IF v.type = "shared" /\ ~Known(v.value)
                            THEN Append(sharedStrings, v.value) ELSE sharedStrings
        /\ UNCHANGED <<root, step, todo, instList, instChunkMap, grouped, instChunks,
                       unchecked, propChunkMap, skipped, linkVars, file>>

GroupDone ==
  /\ step = "fill"
  /\ ~Filling
  /\ Remaining = {}
  /\ step' = "sort"
  /\ UNCHANGED <<root, todo, instList, instChunkMap, grouped, instChunks, propVars, linkVars, file>>

-------------------------------------------------------------------------------
(* The links.                                                              *)

CallsFor(instances, parent) ==
  [i \in DOMAIN instances |-> [instance |-> instances[i], parent |-> parent, entered |-> FALSE]]

AllFilled ==
  /\ step = "sort"
  /\ Waiting = {}
  /\ step' = "link"
  /\ walk' = IF instList = <<>> THEN <<>> ELSE CallsFor(root.instances, Nil)
  /\ UNCHANGED <<root, todo, instList, instChunkMap, grouped, instChunks, propVars, links, file>>

(* recInst up to the end of its loop; nil has no Children.                 *)
EnterInstance ==
  /\ step = "link"
  /\ walk # <<>>
  /\ ~Head(walk).entered
  /\ LET call == Head(walk) IN
     \/ call.instance = Nil /\ Crash
     \/ /\ call.instance # Nil
        /\ walk' = CallsFor(root.children[call.instance], call.instance)
                     \o <<[call EXCEPT !.entered = TRUE]>> \o Tail(walk)
        /\ UNCHANGED <<root, step, todo, instList, instChunkMap, grouped, instChunks,
                       propVars, links, file>>

LinkFor(call) == [child |-> Number(call.instance), parent |-> Number(call.parent)]

(* The arrays have room for one link for each instance of the list.        *)
LeaveInstance ==
  /\ step = "link"
  /\ walk # <<>>
  /\ Head(walk).entered
  /\ \/ Len(links) = Len(instList) /\ Crash
     \/ /\ Len(links) < Len(instList)
        /\ links' = Append(links, LinkFor(Head(walk)))
        /\ walk' = Tail(walk)
        /\ UNCHANGED <<root, step, todo, instList, instChunkMap, grouped, instChunks,
                       propVars, file>>

-------------------------------------------------------------------------------

(* The pairs of a map in some order.  sortMetaData.Less compares a key     *)
(* with a value and puts them in no particular one.                        *)
Orders(S) == {s \in [1 .. Cardinality(S) -> S] : \A x \in S : \E i \in DOMAIN s : s[i] = x}

ParentChunk ==
  [sig |-> "PRNT", version |-> 0, children |-> [i \in DOMAIN links |-> links[i].child],
   parents |-> [i \in DOMAIN links |-> links[i].parent]]

WriteChunks ==
  /\ step = "link"
  /\ walk = <<>>
  /\ step' = "done"
  /\ \E values \in Orders(root.metadata) :
       file' = (IF values = <<>> THEN <<>> ELSE <<[sig |-> "META", values |-> values]>>)
               \o (IF sharedStrings = <<>> THEN <<>>
                   ELSE <<[sig |-> "SSTR", values |-> sharedStrings]>>)
               \o instChunks \o propChunks \o <<ParentChunk, [sig |-> "END"]>>
  /\ UNCHANGED <<root, todo, instList, instChunkMap, grouped, instChunks, propVars, linkVars>>

Init ==
  /\ root \in Roots
  /\ step = "list"
  /\ todo = root.instances
  /\ instList = <<>>
  /\ instChunkMap = [class \in Classes |-> <<>>]
  /\ grouped = 0
  /\ instChunks = <<>>
  /\ unchecked = {}
  /\ propChunkMap = [name \in Names |-> "none"]
  /\ skipped = {}
  /\ propChunks = <<>>
  /\ sharedStrings = <<>>
  /\ walk = <<>>
  /\ links = <<>>
  /\ file = <<>>

Next ==
  \/ AddInstance \/ AllListed \/ GroupInstance \/ AllGrouped
  \/ \E class \in Classes : NextGroup(class)
  \/ \E name \in Names : CheckProperty(name) \/ StartProperty(name)
  \/ AllChecked \/ FillValue \/ GroupDone
  \/ AllFilled \/ EnterInstance \/ LeaveInstance \/ WriteChunks

Spec == Init /\ [][Next]_encodeVars

-------------------------------------------------------------------------------

(* "Ensure that an instance is counted only once" (rbxl/codec.go:438): no  *)
(* two numbers lead to one instance, in whatever way it is reached.        *)
NumbersDistinct == \A i, j \in DOMAIN instList : instList[i] = instList[j] => i = j

(* No number is twice in a group or in two groups ...                      *)
GroupsDisjoint ==
  \A k, l \in DOMAIN instChunks :
    \A i \in DOMAIN instChunks[k].ids, j \in DOMAIN instChunks[l].ids :
      instChunks[k].ids[i] = instChunks[l].ids[j] => k = l /\ i = j

(* ... and in the end every number is in one (rbxl/codec.go:473-503).      *)
GroupsCover ==
  step \in {"link", "done"} =>
    \A id \in 0 .. Len(instList) - 1 :
      \E k \in DOMAIN instChunks : \E i \in DOMAIN instChunks[k].ids : instChunks[k].ids[i] = id

(* An array has one element for each instance of the group its chunk       *)
(* names, but for the one that is being filled (rbxl/codec.go:519, 604).   *)
IsFull(k) == Len(propChunks[k].values) = Len(instChunks[propChunks[k].class + 1].ids)
ArraysFit ==
  \A k \in DOMAIN propChunks :
    /\ propChunks[k].class + 1 \in DOMAIN instChunks
    /\ IsFull(k) \/ (k = Len(propChunks) /\ step \in {"fill", "panic"})

(* The file can be read back: the decoder fails on a number that is twice  *)
(* in a group, and on an array that is longer or shorter than its group.   *)
NumbersConsistent == NumbersDistinct /\ GroupsDisjoint /\ GroupsCover /\ ArraysFit

===============================================================================
