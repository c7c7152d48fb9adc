--------------------------- MODULE RbxlEncodeProofs ---------------------------
(***************************************************************************)
(* The encoder is type correct, and the numbers it gives out, the groups   *)
(* it forms and the arrays it fills fit together, for every tree.          *)
(*                                                                         *)
(* The argument follows the life of a number.  It is given to one instance *)
(* (NumbersDistinct), joins the group of the class of that instance and no *)
(* other (Grouped), and goes with it into an INST chunk, when the group    *)
(* leaves the map (Chunked); a number that was given is in the map or in a *)
(* chunk (Placed).  As no class is in two chunks, no number is.            *)
(***************************************************************************)
EXTENDS RbxlEncode, TLAPS, WellFoundedInduction

ClassOf(id) == root.class[InstanceAt(id)]

(* The groups in the map hold numbers of their class, each once.           *)
Grouped ==
  \A class \in Classes :
    LET ids == instChunkMap[class] IN
    /\ \A i \in DOMAIN ids : ids[i] < grouped /\ ClassOf(ids[i]) = class
    /\ \A i, j \in DOMAIN ids : ids[i] = ids[j] => i = j

(* So do the chunks, whose classes are gone from the map.                  *)
Chunked ==
  /\ \A k \in DOMAIN instChunks :
       /\ instChunks[k].class = k - 1
       /\ \A i \in DOMAIN instChunks[k].ids :
            /\ instChunks[k].ids[i] < grouped
            /\ instChunkMap[ClassOf(instChunks[k].ids[i])] = <<>>
       /\ \A i, j \in DOMAIN instChunks[k].ids :
            instChunks[k].ids[i] = instChunks[k].ids[j] => i = j
  /\ \A k, l \in DOMAIN instChunks :
       \A i \in DOMAIN instChunks[k].ids, j \in DOMAIN instChunks[l].ids :
         ClassOf(instChunks[k].ids[i]) = ClassOf(instChunks[l].ids[j]) => k = l

InMap(id) == \E i \in DOMAIN instChunkMap[ClassOf(id)] : instChunkMap[ClassOf(id)][i] = id
InChunk(id) ==
  \E k \in DOMAIN instChunks : \E i \in DOMAIN instChunks[k].ids : instChunks[k].ids[i] = id

Placed == \A id \in 0 .. grouped - 1 : InMap(id) \/ InChunk(id)

(* What is done at which step.                                             *)
Stages ==
  /\ step = "list" => grouped = 0
  /\ step \in {"list", "group"} => instChunks = <<>> /\ propChunks = <<>>
  /\ step \in {"sort", "check", "fill", "link", "done"} => grouped = Len(instList)
  /\ step \in {"check", "fill"} => instChunks # <<>>
  /\ step \in {"link", "done"} => Waiting = {}

(* A name that is to be checked has a holder.                              *)
HoldersKnown == step = "check" => \A name \in unchecked : Holders(name) # {}

(* The array being filled is the last one, of the last group.              *)
ArraysGrow ==
  \A k \in DOMAIN propChunks :
    /\ propChunks[k].class + 1 \in DOMAIN instChunks
    /\ Len(propChunks[k].values) <= Len(instChunks[propChunks[k].class + 1].ids)
    /\ IsFull(k) \/ (/\ k = Len(propChunks)
                     /\ step \in {"fill", "panic"}
                     /\ propChunks[k].class + 1 = Len(instChunks))

EncodeInv ==
  NumbersDistinct /\ Grouped /\ Chunked /\ Placed /\ Stages /\ HoldersKnown /\ ArraysGrow

-------------------------------------------------------------------------------

(* A set of numbers that is not empty has a least one.                     *)
LEMMA LeastExists ==
  ASSUME NEW S \in SUBSET Nat, S # {}
  PROVE  \E x \in S : IsLeast(x, S)
<1> DEFINE R == {ss \in Nat \X Nat : ss[1] < ss[2]}
<1>1. IsWellFoundedOn(R, Nat)
  BY NatLessThanWellFounded DEF OpToRel
<1>2. PICK x \in S : \A y \in S : ~ (<<y, x>> \in R)
  BY <1>1, WFMin
<1>3. ASSUME NEW y \in S PROVE x <= y
  <2>1. ~ (y < x)
    BY <1>2
  <2>2. QED
    BY <2>1
<1>4. QED
  BY <1>3 DEF IsLeast

(* What one element more does to a sequence.                               *)
LEMMA Appended ==
  ASSUME NEW S, NEW s \in Seq(S), NEW e
  PROVE  /\ Len(Append(s, e)) = Len(s) + 1
         /\ DOMAIN Append(s, e) = 1 .. Len(s) + 1
         /\ DOMAIN s = 1 .. Len(s)
         /\ \A i \in 1 .. Len(s) : Append(s, e)[i] = s[i] /\ s[i] \in S
         /\ Append(s, e)[Len(s) + 1] = e
OBVIOUS

(* Appending keeps the type of a sequence.                                 *)
LEMMA AppendType ==
  ASSUME NEW S, NEW s \in Seq(S), NEW e \in S
  PROVE  Append(s, e) \in Seq(S)
OBVIOUS

(* The parts of a root that is encoded.                                    *)
LEMMA RootParts ==
  ASSUME NEW r \in Roots
  PROVE  /\ r.mode \in {"place", "model"}
         /\ r.instances \in Seq(Instances \cup {Nil})
         /\ r.children \in [Instances -> Seq(Instances \cup {Nil})]
         /\ r.class \in [Instances -> Classes]
         /\ r.services \subseteq Instances
         /\ r.properties \in [Instances -> [Names -> Value]]
BY EncodeAssumption DEF RootRecord

(* The instance, the class and the properties behind a number.             *)
LEMMA AtNumber ==
  ASSUME TypeOK, NEW id \in Nat, id < Len(instList)
  PROVE  /\ InstanceAt(id) \in Instances
         /\ ClassOf(id) \in Classes
         /\ \A name \in Names : Property(id, name) \in Value
<1>1. root \in Roots /\ instList \in Seq(Instances)
  BY DEF TypeOK, ListTypeOK
<1>2. InstanceAt(id) \in Instances
  BY <1>1 DEF InstanceAt
<1>3. QED
  BY <1>1, <1>2, RootParts DEF ClassOf, Property

(* The number of anything is nilInstance or a position of the list.        *)
LEMMA NumberType ==
  ASSUME TypeOK, NEW inst
  PROVE  Number(inst) \in Nat \cup {nilInstance} /\ Number(inst) < Len(instList)
<1>1. instList \in Seq(Instances)
  BY DEF TypeOK, ListTypeOK
<1>2. CASE Listed(inst)
  <2>1. PICK i \in DOMAIN instList : instList[i] = inst
    BY <1>2 DEF Listed
  <2>2. (CHOOSE j \in DOMAIN instList : instList[j] = inst) \in DOMAIN instList
    BY <2>1
  <2>3. QED
    BY <1>1, <1>2, <2>2 DEF Number
<1>3. CASE ~Listed(inst)
  BY <1>1, <1>3 DEF Number, nilInstance
<1>4. QED
  BY <1>2, <1>3

-------------------------------------------------------------------------------
(* A panic changes nothing but the step.                                   *)
LEMMA CrashInv ==
  ASSUME TypeOK, EncodeInv, Crash
  PROVE  TypeOK' /\ EncodeInv'
<1>1. /\ step' = "panic"
      /\ root' = root /\ todo' = todo /\ instList' = instList /\ instChunkMap' = instChunkMap
      /\ grouped' = grouped /\ instChunks' = instChunks /\ unchecked' = unchecked
      /\ propChunkMap' = propChunkMap /\ skipped' = skipped /\ propChunks' = propChunks
      /\ sharedStrings' = sharedStrings /\ walk' = walk /\ links' = links
  BY DEF Crash, propVars, linkVars
<1>2. TypeOK'
  BY <1>1 DEF TypeOK, ListTypeOK, GroupTypeOK, PropTypeOK, LinkTypeOK, Steps
<1>3. NumbersDistinct' /\ Grouped' /\ Chunked' /\ Placed'
  BY <1>1 DEF EncodeInv, NumbersDistinct, Grouped, Chunked, Placed, InMap, InChunk,
              ClassOf, InstanceAt
<1>4. Stages' /\ HoldersKnown'
  BY <1>1 DEF Stages, HoldersKnown
<1>5. ArraysGrow'
  BY <1>1 DEF EncodeInv, ArraysGrow, IsFull
<1>6. QED
  BY <1>2, <1>3, <1>4, <1>5 DEF EncodeInv

(* The list grows by an instance that is not in it, before any group is    *)
(* formed.                                                                 *)
LEMMA AddInstanceInv ==
  ASSUME TypeOK, EncodeInv, AddInstance
  PROVE  TypeOK' /\ EncodeInv'
<1> DEFINE inst == Head(todo)
<1>1. /\ step = "list" /\ todo # <<>>
      /\ step' = step /\ root' = root /\ instChunkMap' = instChunkMap
      /\ grouped' = grouped /\ instChunks' = instChunks /\ unchecked' = unchecked
      /\ propChunkMap' = propChunkMap /\ skipped' = skipped /\ propChunks' = propChunks
      /\ sharedStrings' = sharedStrings /\ walk' = walk /\ links' = links
  BY DEF AddInstance, propVars, linkVars
<1>2. \/ todo' = Tail(todo) /\ instList' = instList
      \/ /\ inst # Nil /\ ~Listed(inst)
         /\ instList' = Append(instList, inst)
         /\ todo' = root.children[inst] \o Tail(todo)
  BY DEF AddInstance, Seen, Calls
<1>3. /\ root \in Roots /\ todo \in Seq(Instances \cup {Nil}) /\ instList \in Seq(Instances)
  BY DEF TypeOK, ListTypeOK
<1>4. /\ instList' \in Seq(Instances) /\ Len(instList) <= Len(instList')
      /\ todo' \in Seq(Instances \cup {Nil})
  <2>1. inst \in Instances \cup {Nil} /\ Tail(todo) \in Seq(Instances \cup {Nil})
    BY <1>1, <1>3
  <2>2. CASE todo' = Tail(todo) /\ instList' = instList
    BY <2>1, <2>2, <1>3
  <2>3. CASE /\ inst # Nil /\ instList' = Append(instList, inst)
             /\ todo' = root.children[inst] \o Tail(todo)
    <3>1. root.children[inst] \in Seq(Instances \cup {Nil})
      BY <2>1, <2>3, <1>3, RootParts
    <3>2. QED
      BY <2>1, <2>3, <3>1, <1>3
  <2>4. QED
    BY <1>2, <2>2, <2>3
<1>5. TypeOK'
  <2>1. ListTypeOK'
    BY <1>1, <1>3, <1>4 DEF ListTypeOK, TypeOK
  <2>2. GroupTypeOK'
    BY <1>1, <1>3, <1>4 DEF GroupTypeOK, TypeOK
  <2>3. PropTypeOK'
    BY <1>1 DEF PropTypeOK, TypeOK
  <2>4. LinkTypeOK'
    <3>1. links \in Seq(Link) /\ walk \in Seq(Call)
          /\ \A i \in DOMAIN links : links[i].child < Len(instList) /\ links[i].parent < Len(instList)
      BY DEF TypeOK, LinkTypeOK
    <3>2. \A i \in DOMAIN links : links[i].child \in Int /\ links[i].parent \in Int
      <4>1. \A l \in Link : l.child \in Int /\ l.parent \in Int
        BY DEF Link, nilInstance
      <4>2. QED
        BY <3>1, <4>1
    <3>3. Len(instList) \in Nat /\ Len(instList') \in Nat
      BY <1>3, <1>4
    <3>4. QED
      BY <1>1, <1>4, <3>1, <3>2, <3>3 DEF LinkTypeOK
  <2>5. QED
    BY <2>1, <2>2, <2>3, <2>4 DEF TypeOK
<1>6. NumbersDistinct'
  <2>1. CASE instList' = instList
    BY <2>1 DEF EncodeInv, NumbersDistinct
  <2>2. CASE ~Listed(inst) /\ instList' = Append(instList, inst)
    BY <2>2, <1>3, Appended DEF EncodeInv, NumbersDistinct, Listed
  <2>3. QED
    BY <1>2, <2>1, <2>2
<1>7. grouped = 0 /\ instChunks = <<>> /\ propChunks = <<>>
  BY <1>1 DEF EncodeInv, Stages
<1>8. Grouped'
  <2>1. \A class \in Classes : instChunkMap[class] \in Seq(Nat)
    BY DEF TypeOK, GroupTypeOK
  <2>2. \A class \in Classes : DOMAIN instChunkMap[class] = {}
    <3> SUFFICES ASSUME NEW class \in Classes, NEW i \in DOMAIN instChunkMap[class] PROVE FALSE
      OBVIOUS
    <3>1. instChunkMap[class][i] < 0 /\ instChunkMap[class][i] \in Nat
      BY <1>7, <2>1 DEF EncodeInv, Grouped
    <3>2. QED
      BY <3>1
  <2>3. QED
    BY <1>1, <2>2 DEF Grouped
<1>9. Chunked' /\ Placed'
  BY <1>1, <1>7 DEF Chunked, Placed
<1>10. Stages' /\ HoldersKnown' /\ ArraysGrow'
  BY <1>1, <1>7 DEF Stages, HoldersKnown, ArraysGrow
<1>11. QED
  BY <1>5, <1>6, <1>8, <1>9, <1>10 DEF EncodeInv

(* The next number joins the group of its class.                           *)
LEMMA GroupInstanceInv ==
  ASSUME TypeOK, EncodeInv, GroupInstance
  PROVE  TypeOK' /\ EncodeInv'
<1> DEFINE class == ClassOf(grouped)
<1>1. /\ step = "group" /\ grouped < Len(instList)
      /\ instChunkMap' = [instChunkMap EXCEPT ![class] = Append(@, grouped)]
      /\ grouped' = grouped + 1
      /\ step' = step /\ root' = root /\ todo' = todo /\ instList' = instList
      /\ instChunks' = instChunks /\ unchecked' = unchecked
      /\ propChunkMap' = propChunkMap /\ skipped' = skipped /\ propChunks' = propChunks
      /\ sharedStrings' = sharedStrings /\ walk' = walk /\ links' = links
  BY DEF GroupInstance, ClassOf, propVars, linkVars
<1>2. /\ instList \in Seq(Instances) /\ grouped \in Nat /\ Len(instList) \in Nat
      /\ instChunkMap \in [Classes -> Seq(Nat)]
  BY DEF TypeOK, ListTypeOK, GroupTypeOK
<1>3. class \in Classes
  BY <1>1, <1>2, AtNumber
<1>4. instChunkMap' \in [Classes -> Seq(Nat)]
  BY <1>1, <1>2, <1>3
<1>5. TypeOK'
  <2>1. GroupTypeOK'
    BY <1>1, <1>2, <1>4 DEF TypeOK, GroupTypeOK
  <2>2. ListTypeOK' /\ PropTypeOK' /\ LinkTypeOK'
    BY <1>1 DEF TypeOK, ListTypeOK, PropTypeOK, LinkTypeOK
  <2>3. QED
    BY <2>1, <2>2 DEF TypeOK
<1>6. instChunks = <<>> /\ propChunks = <<>>
  BY <1>1 DEF EncodeInv, Stages
<1>7. \A id : ClassOf(id)' = ClassOf(id)
  BY <1>1 DEF ClassOf, InstanceAt
<1>8. \A c \in Classes :
        /\ c # class => instChunkMap'[c] = instChunkMap[c]
        /\ c = class => instChunkMap'[c] = Append(instChunkMap[c], grouped)
  BY <1>1, <1>2
<1>9. Grouped'
  <2> SUFFICES ASSUME NEW c \in Classes
               PROVE  LET ids == instChunkMap'[c] IN
                      /\ \A i \in DOMAIN ids : ids[i] < grouped + 1 /\ ClassOf(ids[i]) = c
                      /\ \A i, j \in DOMAIN ids : ids[i] = ids[j] => i = j
    BY <1>1, <1>7 DEF Grouped
  <2>1. instChunkMap[c] \in Seq(Nat)
    BY <1>2
  <2>2. /\ \A i \in DOMAIN instChunkMap[c] :
             instChunkMap[c][i] < grouped /\ ClassOf(instChunkMap[c][i]) = c
        /\ \A i, j \in DOMAIN instChunkMap[c] :
             instChunkMap[c][i] = instChunkMap[c][j] => i = j
    BY DEF EncodeInv, Grouped
  <2>3. \A i \in DOMAIN instChunkMap[c] : instChunkMap[c][i] \in Nat
    BY <2>1
  <2>4. CASE c # class
    BY <2>2, <2>3, <2>4, <1>8, <1>2
  <2>5. CASE c = class
    <3> DEFINE ids == instChunkMap[c]
    <3>1. instChunkMap'[c] = Append(ids, grouped)
      BY <2>5, <1>8
    <3>2. /\ DOMAIN Append(ids, grouped) = 1 .. Len(ids) + 1
          /\ DOMAIN ids = 1 .. Len(ids)
          /\ \A i \in 1 .. Len(ids) : Append(ids, grouped)[i] = ids[i]
          /\ Append(ids, grouped)[Len(ids) + 1] = grouped
      BY <2>1, Appended
    <3>3. Len(ids) \in Nat
      BY <2>1
    <3> HIDE DEF ids
    <3>4. \A i \in 1 .. Len(ids) : ids[i] < grouped /\ ClassOf(ids[i]) = c /\ ids[i] \in Nat
      BY <2>2, <2>3, <3>2 DEF ids
    <3>5. \A i, j \in 1 .. Len(ids) : ids[i] = ids[j] => i = j
      BY <2>2, <3>2 DEF ids
    <3>6. ClassOf(grouped) = c
      BY <2>5
    <3>7. QED
      BY <1>2, <3>1, <3>2, <3>3, <3>4, <3>5, <3>6
  <2>6. QED
    BY <2>4, <2>5
<1>10. Chunked'
  BY <1>1, <1>6 DEF Chunked
<1>11. Placed'
  <2> SUFFICES ASSUME NEW id \in 0 .. grouped
               PROVE  InMap(id)'
    BY <1>1, <1>2 DEF Placed
  <2>1. CASE id = grouped
    <3>1. instChunkMap[class] \in Seq(Nat)
      BY <1>2, <1>3
    <3>2. instChunkMap'[class][Len(instChunkMap[class]) + 1] = grouped
          /\ Len(instChunkMap[class]) + 1 \in DOMAIN instChunkMap'[class]
      BY <1>3, <1>8, <3>1, Appended
    <3>3. QED
      BY <2>1, <3>2, <1>7 DEF InMap
  <2>2. CASE id \in 0 .. grouped - 1
    <3>1. InMap(id)
      BY <2>2, <1>6 DEF EncodeInv, Placed, InChunk
    <3>2. ClassOf(id) \in Classes
      BY <2>2, <1>1, <1>2, AtNumber
    <3>3. PICK i \in DOMAIN instChunkMap[ClassOf(id)] : instChunkMap[ClassOf(id)][i] = id
      BY <3>1 DEF InMap
    <3>4. instChunkMap[ClassOf(id)] \in Seq(Nat)
      BY <1>2, <3>2
    <3>5. i \in DOMAIN instChunkMap'[ClassOf(id)] /\ instChunkMap'[ClassOf(id)][i] = id
      <4>1. CASE ClassOf(id) # class
        BY <4>1, <3>2, <3>3, <1>8
      <4>2. CASE ClassOf(id) = class
        <5>1. instChunkMap'[ClassOf(id)] = Append(instChunkMap[ClassOf(id)], grouped)
          BY <4>2, <3>2, <1>8
        <5>2. i \in 1 .. Len(instChunkMap[ClassOf(id)]) /\ Len(instChunkMap[ClassOf(id)]) \in Nat
          BY <3>3, <3>4
        <5>3. QED
          BY <5>1, <5>2, <3>3, <3>4, Appended
      <4>3. QED
        BY <4>1, <4>2
    <3>6. QED
      BY <3>5, <1>7 DEF InMap
  <2>3. QED
    BY <2>1, <2>2, <1>2
<1>12. Stages' /\ HoldersKnown' /\ ArraysGrow'
  BY <1>1, <1>6 DEF Stages, HoldersKnown, ArraysGrow
<1>13. NumbersDistinct'
  BY <1>1 DEF EncodeInv, NumbersDistinct
<1>14. QED
  BY <1>5, <1>9, <1>10, <1>11, <1>12, <1>13 DEF EncodeInv

(* A chunk made of the numbers of a group.                                 *)
LEMMA InstChunkType ==
  ASSUME TypeOK, NEW ids \in Seq(Nat)
  PROVE  InstChunkOf(ids) \in InstChunk /\ InstChunkOf(ids).ids = ids
         /\ InstChunkOf(ids).class = Len(instChunks)
<1>1. Len(instChunks) \in Nat
  BY DEF TypeOK, GroupTypeOK
<1> DEFINE isService == \E i \in DOMAIN ids : IsService(ids[i])
           flags == IF isService
                    THEN [i \in DOMAIN ids |-> IF IsService(ids[i]) THEN 1 ELSE 0]
                    ELSE <<>>
<1>2. flags \in Seq({0, 1})
  <2>1. CASE isService
    <3>1. [i \in DOMAIN ids |-> IF IsService(ids[i]) THEN 1 ELSE 0]
             \in [1 .. Len(ids) -> {0, 1}]
      OBVIOUS
    <3>2. QED
      BY <2>1, <3>1
  <2>2. CASE ~isService
    BY <2>2
  <2>3. QED
    BY <2>1, <2>2
<1>3. isService \in BOOLEAN
  OBVIOUS
<1>4. InstChunkOf(ids) = [sig |-> "INST", class |-> Len(instChunks), ids |-> ids,
                          isService |-> isService, getService |-> flags]
  BY DEF InstChunkOf, ClassID
<1> HIDE DEF flags, isService
<1>5. QED
  BY <1>1, <1>2, <1>3, <1>4 DEF InstChunk

(* The chunks after one more group has left the map.                       *)
LEMMA NextGroupInv ==
  ASSUME TypeOK, EncodeInv, NEW class \in Classes, NextGroup(class)
  PROVE  TypeOK' /\ EncodeInv'
<1> DEFINE ids == instChunkMap[class]
           named == {name \in Names : \E i \in DOMAIN ids : Property(ids[i], name) # Absent}
           new == InstChunkOf(ids)
<1>1. /\ step = "sort" /\ step' = "check" /\ class \in Waiting
      /\ instChunks' = Append(instChunks, new)
      /\ unchecked' = named
      /\ propChunkMap' = [name \in Names |-> IF name \in named THEN "nil" ELSE "none"]
      /\ instChunkMap' = [instChunkMap EXCEPT ![class] = <<>>]
      /\ root' = root /\ todo' = todo /\ instList' = instList /\ grouped' = grouped
      /\ skipped' = skipped /\ propChunks' = propChunks /\ sharedStrings' = sharedStrings
      /\ walk' = walk /\ links' = links
  BY DEF NextGroup, IsLeast, linkVars
<1>2. /\ instChunkMap \in [Classes -> Seq(Nat)] /\ ids \in Seq(Nat) /\ ids # <<>>
      /\ instChunks \in Seq(InstChunk) /\ Len(instChunks) \in Nat /\ grouped \in Nat
  BY <1>1 DEF TypeOK, GroupTypeOK, Waiting
<1>3. new \in InstChunk /\ new.ids = ids /\ new.class = Len(instChunks)
  BY <1>2, InstChunkType
<1> HIDE DEF new
<1>4. /\ DOMAIN instChunks' = 1 .. Len(instChunks) + 1
      /\ DOMAIN instChunks = 1 .. Len(instChunks)
      /\ Len(instChunks') = Len(instChunks) + 1
      /\ \A k \in 1 .. Len(instChunks) : instChunks'[k] = instChunks[k]
      /\ instChunks'[Len(instChunks) + 1] = new
      /\ instChunks' \in Seq(InstChunk)
  BY <1>1, <1>2, <1>3, Appended
<1>5. TypeOK'
  <2>1. instChunkMap' \in [Classes -> Seq(Nat)]
    BY <1>1, <1>2
  <2>2. GroupTypeOK'
    BY <1>1, <1>4, <2>1 DEF TypeOK, GroupTypeOK
  <2>3. ListTypeOK' /\ LinkTypeOK'
    BY <1>1 DEF TypeOK, ListTypeOK, LinkTypeOK, Steps
  <2>4. PropTypeOK'
    BY <1>1 DEF TypeOK, PropTypeOK
  <2>5. QED
    BY <2>2, <2>3, <2>4 DEF TypeOK
<1>6. \A id : ClassOf(id)' = ClassOf(id)
  BY <1>1 DEF ClassOf, InstanceAt
<1>7. \A c \in Classes : /\ c # class => instChunkMap'[c] = instChunkMap[c]
                         /\ c = class => instChunkMap'[c] = <<>>
  BY <1>1, <1>2
<1>8. /\ \A i \in DOMAIN ids : ids[i] < grouped /\ ClassOf(ids[i]) = class
      /\ \A i, j \in DOMAIN ids : ids[i] = ids[j] => i = j
  BY DEF EncodeInv, Grouped
<1>9. Grouped'
  <2> SUFFICES ASSUME NEW c \in Classes
               PROVE  LET s == instChunkMap'[c] IN
                      /\ \A i \in DOMAIN s : s[i] < grouped /\ ClassOf(s[i]) = c
                      /\ \A i, j \in DOMAIN s : s[i] = s[j] => i = j
    BY <1>1, <1>6 DEF Grouped
  <2>1. CASE c = class
    BY <2>1, <1>7
  <2>2. CASE c # class
    BY <2>2, <1>7 DEF EncodeInv, Grouped
  <2>3. QED
    BY <2>1, <2>2
<1>10. ASSUME NEW k \in DOMAIN instChunks
       PROVE  /\ instChunks[k].class = k - 1
              /\ \A i \in DOMAIN instChunks[k].ids :
                   /\ instChunks[k].ids[i] < grouped
                   /\ ClassOf(instChunks[k].ids[i]) \in Classes
                   /\ ClassOf(instChunks[k].ids[i]) # class
                   /\ instChunkMap'[ClassOf(instChunks[k].ids[i])] = <<>>
              /\ \A i, j \in DOMAIN instChunks[k].ids :
                   instChunks[k].ids[i] = instChunks[k].ids[j] => i = j
  <2>1. /\ instChunks[k].class = k - 1
        /\ \A i \in DOMAIN instChunks[k].ids :
             /\ instChunks[k].ids[i] < grouped
             /\ instChunkMap[ClassOf(instChunks[k].ids[i])] = <<>>
        /\ \A i, j \in DOMAIN instChunks[k].ids :
             instChunks[k].ids[i] = instChunks[k].ids[j] => i = j
    BY DEF EncodeInv, Chunked
  <2>2. ASSUME NEW i \in DOMAIN instChunks[k].ids
        PROVE  ClassOf(instChunks[k].ids[i]) \in Classes
    <3>1. instChunks[k] \in InstChunk
      BY <1>2
    <3>2. instChunks[k].ids[i] \in Nat
      BY <3>1 DEF InstChunk
    <3>3. grouped <= Len(instList) /\ Len(instList) \in Nat
      BY DEF TypeOK, ListTypeOK, GroupTypeOK
    <3>4. instChunks[k].ids[i] < Len(instList)
      BY <2>1, <3>2, <3>3, <1>2
    <3>5. QED
      BY <3>2, <3>4, AtNumber
  <2>3. \A i \in DOMAIN instChunks[k].ids : ClassOf(instChunks[k].ids[i]) # class
    BY <2>1, <1>2
  <2>4. QED
    BY <2>1, <2>2, <2>3, <1>7
<1>11. Chunked'
  <2> DEFINE s(k) == instChunks'[k].ids
  <2>1. \A k \in DOMAIN instChunks' :
          /\ instChunks'[k].class = k - 1
          /\ \A i \in DOMAIN s(k) : s(k)[i] < grouped' /\ instChunkMap'[ClassOf(s(k)[i])] = <<>>
          /\ \A i, j \in DOMAIN s(k) : s(k)[i] = s(k)[j] => i = j
    <3> SUFFICES ASSUME NEW k \in 1 .. Len(instChunks) + 1
                 PROVE  /\ instChunks'[k].class = k - 1
                        /\ \A i \in DOMAIN s(k) :
                             s(k)[i] < grouped' /\ instChunkMap'[ClassOf(s(k)[i])] = <<>>
                        /\ \A i, j \in DOMAIN s(k) : s(k)[i] = s(k)[j] => i = j
      BY <1>4
    <3>1. CASE k = Len(instChunks) + 1
      BY <3>1, <1>1, <1>2, <1>3, <1>4, <1>7, <1>8
    <3>2. CASE k \in DOMAIN instChunks
      BY <3>2, <1>1, <1>4, <1>10
    <3>3. QED
      BY <3>1, <3>2, <1>2, <1>4
  <2>2. \A k, l \in DOMAIN instChunks' :
          \A i \in DOMAIN s(k), j \in DOMAIN s(l) : ClassOf(s(k)[i]) = ClassOf(s(l)[j]) => k = l
    <3> SUFFICES ASSUME NEW k \in 1 .. Len(instChunks) + 1, NEW l \in 1 .. Len(instChunks) + 1,
                        NEW i \in DOMAIN s(k), NEW j \in DOMAIN s(l),
                        ClassOf(s(k)[i]) = ClassOf(s(l)[j]), k # l
                 PROVE  FALSE
      BY <1>4
    <3>1. CASE k \in DOMAIN instChunks /\ l \in DOMAIN instChunks
      BY <3>1, <1>4 DEF EncodeInv, Chunked
    <3>2. CASE k \in DOMAIN instChunks /\ l = Len(instChunks) + 1
      BY <3>2, <1>3, <1>4, <1>8, <1>10
    <3>3. CASE k = Len(instChunks) + 1 /\ l \in DOMAIN instChunks
      BY <3>3, <1>3, <1>4, <1>8, <1>10
    <3>4. QED
      BY <3>1, <3>2, <3>3, <1>2, <1>4
  <2>3. QED
    BY <2>1, <2>2, <1>6 DEF Chunked
<1>12. Placed'
  <2> SUFFICES ASSUME NEW id \in 0 .. grouped - 1
               PROVE  InMap(id)' \/ InChunk(id)'
    BY <1>1 DEF Placed
  <2>1. InMap(id) \/ InChunk(id)
    BY DEF EncodeInv, Placed
  <2>2. CASE InChunk(id)
    <3>1. InChunk(id)'
      BY <2>2, <1>2, <1>4 DEF InChunk
    <3>2. QED
      BY <3>1
  <2>3. CASE InMap(id) /\ ClassOf(id) = class
    <3>1. \E i \in DOMAIN ids : ids[i] = id
      BY <2>3 DEF InMap
    <3>2. Len(instChunks) + 1 \in DOMAIN instChunks'
          /\ instChunks'[Len(instChunks) + 1].ids = ids
      BY <1>2, <1>3, <1>4
    <3>3. InChunk(id)'
      BY <3>1, <3>2 DEF InChunk
    <3>4. QED
      BY <3>3
  <2>4. CASE InMap(id) /\ ClassOf(id) # class
    <3>1. id \in Nat /\ id < Len(instList)
      BY <1>2 DEF TypeOK, ListTypeOK, GroupTypeOK
    <3>2. ClassOf(id) \in Classes
      BY <3>1, AtNumber
    <3>3. InMap(id)'
      BY <2>4, <3>2, <1>6, <1>7 DEF InMap
    <3>4. QED
      BY <3>3
  <2>5. QED
    BY <2>1, <2>2, <2>3, <2>4
<1>13. Stages'
  <2>1. grouped = Len(instList)
    BY <1>1 DEF EncodeInv, Stages
  <2>2. instChunks' # <<>>
    BY <1>2, <1>4
  <2>3. step' = "check" /\ grouped' = Len(instList')
    BY <1>1, <2>1
  <2>4. QED
    BY <2>2, <2>3 DEF Stages
<1>14. HoldersKnown'
  <2> SUFFICES ASSUME NEW name \in named
               PROVE  Holders(name)' # {}
    BY <1>1 DEF HoldersKnown
  <2>1. Group' = new
    BY <1>4, <1>2 DEF Group
  <2>2. \A id : Property(id, name)' = Property(id, name)
    BY <1>1 DEF Property, InstanceAt
  <2>3. PICK i \in DOMAIN ids : Property(ids[i], name) # Absent
    OBVIOUS
  <2>4. i \in Holders(name)'
    BY <2>1, <2>2, <2>3, <1>3 DEF Holders
  <2>5. QED
    BY <2>4
<1>15. ArraysGrow'
  <2> SUFFICES ASSUME NEW k \in DOMAIN propChunks
               PROVE  /\ propChunks[k].class + 1 \in DOMAIN instChunks'
                      /\ Len(propChunks[k].values) = Len(instChunks'[propChunks[k].class + 1].ids)
                      /\ Len(propChunks[k].values) \in Nat
    BY <1>1 DEF ArraysGrow, IsFull
  <2>1. propChunks[k].class + 1 \in DOMAIN instChunks /\ IsFull(k)
    BY <1>1 DEF EncodeInv, ArraysGrow
  <2>2. propChunks[k] \in PropChunk
    BY DEF TypeOK, PropTypeOK
  <2>3. Len(propChunks[k].values) \in Nat
    BY <2>2 DEF PropChunk
  <2>4. QED
    BY <2>1, <2>3, <1>2, <1>4 DEF IsFull
<1>16. NumbersDistinct'
  BY <1>1 DEF EncodeInv, NumbersDistinct
<1>17. QED
  BY <1>5, <1>9, <1>11, <1>12, <1>13, <1>14, <1>15, <1>16 DEF EncodeInv

-------------------------------------------------------------------------------
(* The group whose properties are checked and filled.                      *)
LEMMA GroupParts ==
  ASSUME TypeOK, EncodeInv, instChunks # <<>>
  PROVE  /\ Group \in InstChunk /\ Group = instChunks[Len(instChunks)]
         /\ Len(instChunks) \in DOMAIN instChunks
         /\ Group.class + 1 = Len(instChunks)
         /\ DOMAIN Group.ids \in SUBSET Nat
         /\ \A i \in DOMAIN Group.ids, name \in Names : ValueAt(i, name) \in Value
<1>1. instChunks \in Seq(InstChunk) /\ grouped <= Len(instList) /\ instList \in Seq(Instances)
      /\ grouped \in Nat
  BY DEF TypeOK, GroupTypeOK, ListTypeOK
<1>2. Len(instChunks) \in DOMAIN instChunks
  BY <1>1
<1>3. Group \in InstChunk /\ Group = instChunks[Len(instChunks)]
  BY <1>1, <1>2 DEF Group
<1>4. /\ Group.class = Len(instChunks) - 1
      /\ \A i \in DOMAIN Group.ids : Group.ids[i] < grouped
  BY <1>2, <1>3 DEF EncodeInv, Chunked
<1>5. Group.ids \in Seq(Nat) /\ Group.class \in Nat
  BY <1>3 DEF InstChunk
<1>6. ASSUME NEW i \in DOMAIN Group.ids, NEW name \in Names
      PROVE  ValueAt(i, name) \in Value
  <2>1. Group.ids[i] \in Nat /\ Group.ids[i] < Len(instList)
    BY <1>1, <1>4, <1>5
  <2>2. QED
    BY <2>1, AtNumber DEF ValueAt
<1>7. QED
  BY <1>1, <1>2, <1>3, <1>4, <1>5, <1>6

(* What the first holder has.                                              *)
LEMMA FirstType ==
  ASSUME TypeOK, EncodeInv, instChunks # <<>>, NEW name \in Names, Holders(name) # {}
  PROVE  First(name) \in Value \ {Absent} /\ TypeOf(First(name)) \in Types
<1>1. Holders(name) \in SUBSET Nat
  BY GroupParts DEF Holders
<1>2. \E i \in Holders(name) : IsLeast(i, Holders(name))
  BY <1>1, LeastExists
<1> DEFINE first == CHOOSE i \in Holders(name) : IsLeast(i, Holders(name))
<1>3. first \in Holders(name)
  BY <1>2
<1> HIDE DEF first
<1>4. ValueAt(first, name) \in Value
  BY <1>3, GroupParts DEF Holders
<1>5. ValueAt(first, name) # Absent
  BY <1>3 DEF Holders, ValueAt
<1>6. First(name) = ValueAt(first, name)
  BY DEF First, first
<1>7. \A v \in Value \ {Absent} : TypeOf(v) \in Types
  BY DEF Value, TypeOf, Types
<1>8. QED
  BY <1>4, <1>5, <1>6, <1>7

(* The part of the invariant about numbers and groups, when those stay.    *)
LEMMA GroupsStay ==
  ASSUME EncodeInv, UNCHANGED <<root, instList, instChunkMap, grouped, instChunks>>
  PROVE  NumbersDistinct' /\ Grouped' /\ Chunked' /\ Placed' /\ Group' = Group
         /\ Waiting' = Waiting
         /\ (\A i, n : ValueAt(i, n)' = ValueAt(i, n))
         /\ \A n : Holders(n)' = Holders(n)
BY DEF EncodeInv, NumbersDistinct, Grouped, Chunked, Placed, InMap, InChunk, Waiting,
       ClassOf, InstanceAt, Group, ValueAt, Holders, Property

(* A check of a property that does not panic.                              *)
LEMMA CheckInv ==
  ASSUME TypeOK, EncodeInv, NEW name \in Names, CheckProperty(name), ~Crash
  PROVE  TypeOK' /\ EncodeInv'
<1>1. /\ step = "check" /\ name \in unchecked /\ ~Unknown(name)
      /\ unchecked' = unchecked \ {name}
      /\ propChunkMap' = [propChunkMap EXCEPT ![name] = Checked(name)]
      /\ skipped' \in {skipped, skipped \cup {<<Group.class, name>>}}
      /\ step' = step /\ root' = root /\ todo' = todo /\ instList' = instList
      /\ instChunkMap' = instChunkMap /\ grouped' = grouped /\ instChunks' = instChunks
      /\ propChunks' = propChunks /\ sharedStrings' = sharedStrings
      /\ walk' = walk /\ links' = links
  BY DEF CheckProperty, linkVars
<1>2. instChunks # <<>> /\ Holders(name) # {}
  BY <1>1 DEF EncodeInv, Stages, HoldersKnown
<1>3. TypeOf(First(name)) \in Types \ {"invalid"}
  BY <1>1, <1>2, FirstType DEF Unknown
<1>4. Checked(name) \in (Types \ {"invalid"}) \cup {"nil", "none"}
  BY <1>3 DEF Checked
<1>5. <<Group.class, name>> \in Nat \X Names
  BY <1>2, GroupParts DEF InstChunk
<1>6. PropTypeOK'
  BY <1>1, <1>4, <1>5 DEF TypeOK, PropTypeOK
<1>7. ListTypeOK' /\ GroupTypeOK' /\ LinkTypeOK'
  BY <1>1 DEF TypeOK, ListTypeOK, GroupTypeOK, LinkTypeOK
<1>8. NumbersDistinct' /\ Grouped' /\ Chunked' /\ Placed' /\ Waiting' = Waiting
      /\ \A n : Holders(n)' = Holders(n)
  BY <1>1, GroupsStay
<1>9. Stages' /\ HoldersKnown'
  BY <1>1, <1>8 DEF EncodeInv, Stages, HoldersKnown
<1>10. ArraysGrow'
  BY <1>1 DEF EncodeInv, ArraysGrow, IsFull
<1>11. QED
  BY <1>6, <1>7, <1>8, <1>9, <1>10 DEF EncodeInv, TypeOK

(* What is in a chunk of an array.                                         *)
LEMMA PropChunkParts ==
  ASSUME TypeOK, EncodeInv, NEW k \in DOMAIN propChunks
  PROVE  /\ propChunks[k] \in PropChunk
         /\ Len(propChunks[k].values) \in Nat
         /\ propChunks[k].class + 1 \in DOMAIN instChunks
         /\ Len(instChunks[propChunks[k].class + 1].ids) \in Nat
         /\ Len(propChunks[k].values) <= Len(instChunks[propChunks[k].class + 1].ids)
<1>1. propChunks[k] \in PropChunk
  BY DEF TypeOK, PropTypeOK
<1>2. propChunks[k].class + 1 \in DOMAIN instChunks
      /\ Len(propChunks[k].values) <= Len(instChunks[propChunks[k].class + 1].ids)
  BY DEF EncodeInv, ArraysGrow
<1>3. instChunks[propChunks[k].class + 1] \in InstChunk
  BY <1>2 DEF TypeOK, GroupTypeOK
<1>4. QED
  BY <1>1, <1>2, <1>3 DEF PropChunk, InstChunk

(* When no array is being filled, all are full.                            *)
LEMMA AllFull ==
  ASSUME TypeOK, EncodeInv, step = "fill", ~Filling, NEW k \in DOMAIN propChunks
  PROVE  IsFull(k)
<1> SUFFICES ASSUME ~IsFull(k) PROVE FALSE
  OBVIOUS
<1>1. k = Len(propChunks) /\ propChunks[k].class + 1 = Len(instChunks)
  BY DEF EncodeInv, ArraysGrow
<1>2. instChunks # <<>>
  BY DEF EncodeInv, Stages
<1>3. Group = instChunks[Len(instChunks)] /\ Group.class + 1 = Len(instChunks)
      /\ Group.class \in Nat
  BY <1>2, GroupParts DEF InstChunk
<1>4. Current = propChunks[k] /\ propChunks # <<>> /\ propChunks[k].class \in Nat
  BY <1>1, PropChunkParts DEF Current, PropChunk
<1>5. Current.class = Group.class
  BY <1>1, <1>3, <1>4
<1>6. Len(Current.values) < Len(Group.ids)
  BY <1>1, <1>3, <1>4, PropChunkParts DEF IsFull
<1>7. QED
  BY <1>4, <1>5, <1>6 DEF Filling

(* One more array, with nothing in it.                                     *)
LEMMA StartInv ==
  ASSUME TypeOK, EncodeInv, NEW name \in Names, StartProperty(name), ~Crash
  PROVE  TypeOK' /\ EncodeInv'
<1> DEFINE new == [sig |-> "PROP", class |-> Group.class, name |-> name,
                   kind |-> Kind(name),
                   values |-> <<>>, present |-> <<>>]
<1>1. /\ step = "fill" /\ ~Filling /\ name \in Remaining /\ propChunkMap[name] # "nil"
      /\ propChunks' = Append(propChunks, new)
      /\ propChunkMap' = [propChunkMap EXCEPT ![name] = "none"]
      /\ step' = step /\ root' = root /\ todo' = todo /\ instList' = instList
      /\ instChunkMap' = instChunkMap /\ grouped' = grouped /\ instChunks' = instChunks
      /\ unchecked' = unchecked /\ skipped' = skipped /\ sharedStrings' = sharedStrings
      /\ walk' = walk /\ links' = links
  BY DEF StartProperty, IsLeast, linkVars
<1>2. instChunks # <<>>
  BY <1>1 DEF EncodeInv, Stages
<1>3. Group \in InstChunk /\ Group.class + 1 = Len(instChunks) /\ Group.class \in Nat
      /\ Len(instChunks) \in DOMAIN instChunks /\ Group = instChunks[Len(instChunks)]
      /\ Len(Group.ids) \in Nat
  BY <1>2, GroupParts DEF InstChunk
<1>4. new \in PropChunk
  <2>1. Kind(name) \in {"value", "reference", "shared", "optional", "packed"}
    <3>1. propChunkMap[name] \in {"value", "unique", "reference", "shared", "optional"}
      BY <1>1 DEF TypeOK, PropTypeOK, Types, Remaining
    <3>2. QED
      BY <3>1 DEF Kind
  <2>2. <<>> \in Seq(Int) /\ <<>> \in Seq(BOOLEAN)
    OBVIOUS
  <2>3. QED
    BY <1>3, <2>1, <2>2 DEF PropChunk
<1>5. propChunks \in Seq(PropChunk) /\ Len(propChunks) \in Nat
  BY DEF TypeOK, PropTypeOK
<1>6. new.class = Group.class /\ new.values = <<>>
  OBVIOUS
<1> HIDE DEF new
<1>7. /\ DOMAIN propChunks' = 1 .. Len(propChunks) + 1
      /\ DOMAIN propChunks = 1 .. Len(propChunks)
      /\ Len(propChunks') = Len(propChunks) + 1
      /\ \A k \in 1 .. Len(propChunks) : propChunks'[k] = propChunks[k]
      /\ propChunks'[Len(propChunks) + 1] = new
      /\ propChunks' \in Seq(PropChunk)
  BY <1>1, <1>4, <1>5, Appended
<1>8. PropTypeOK'
  BY <1>1, <1>7 DEF TypeOK, PropTypeOK
<1>9. ListTypeOK' /\ GroupTypeOK' /\ LinkTypeOK'
  BY <1>1 DEF TypeOK, ListTypeOK, GroupTypeOK, LinkTypeOK
<1>10. NumbersDistinct' /\ Grouped' /\ Chunked' /\ Placed'
  BY <1>1, GroupsStay
<1>11. Stages' /\ HoldersKnown'
  BY <1>1 DEF EncodeInv, Stages, HoldersKnown
<1>12. ArraysGrow'
  <2> SUFFICES ASSUME NEW k \in 1 .. Len(propChunks) + 1
               PROVE  /\ propChunks'[k].class + 1 \in DOMAIN instChunks
                      /\ Len(propChunks'[k].values) <= Len(instChunks[propChunks'[k].class + 1].ids)
                      /\ \/ Len(propChunks'[k].values) = Len(instChunks[propChunks'[k].class + 1].ids)
                         \/ /\ k = Len(propChunks) + 1
                            /\ propChunks'[k].class + 1 = Len(instChunks)
    BY <1>1, <1>7 DEF ArraysGrow, IsFull
  <2>1. CASE k \in DOMAIN propChunks
    BY <2>1, <1>1, <1>7, AllFull, PropChunkParts DEF IsFull
  <2>2. CASE k = Len(propChunks) + 1
    BY <2>2, <1>3, <1>6, <1>7
  <2>3. QED
    BY <2>1, <2>2, <1>5, <1>7
<1>13. QED
  BY <1>8, <1>9, <1>10, <1>11, <1>12 DEF EncodeInv, TypeOK

(* One more element in the last array.                                     *)
LEMMA FillInv ==
  ASSUME TypeOK, EncodeInv, FillValue, ~Crash
  PROVE  TypeOK' /\ EncodeInv'
<1> DEFINE last == Len(propChunks)
           v == ValueAt(Len(Current.values) + 1, Current.name)
           more == Presence(v)
           new == Longer(v)
<1>1. /\ step = "fill" /\ Filling
      /\ propChunks' = [propChunks EXCEPT ![last] = new]
      /\ sharedStrings' = sharedStrings \/ sharedStrings' = Append(sharedStrings, v.value)
      /\ step' = step /\ root' = root /\ todo' = todo /\ instList' = instList
      /\ instChunkMap' = instChunkMap /\ grouped' = grouped /\ instChunks' = instChunks
      /\ unchecked' = unchecked /\ skipped' = skipped /\ propChunkMap' = propChunkMap
      /\ walk' = walk /\ links' = links
  BY DEF FillValue, linkVars
<1>2. instChunks # <<>>
  BY <1>1 DEF EncodeInv, Stages
<1>3. Group \in InstChunk /\ Group.class + 1 = Len(instChunks) /\ Group.class \in Nat
      /\ Len(instChunks) \in DOMAIN instChunks /\ Group = instChunks[Len(instChunks)]
      /\ Len(Group.ids) \in Nat /\ DOMAIN Group.ids = 1 .. Len(Group.ids)
  BY <1>2, GroupParts DEF InstChunk
<1>4. propChunks \in Seq(PropChunk) /\ last \in DOMAIN propChunks
      /\ Current = propChunks[last] /\ Current \in PropChunk
  BY <1>1 DEF TypeOK, PropTypeOK, Filling, Current
<1>5. Current.class = Group.class /\ Len(Current.values) < Len(Group.ids)
      /\ Len(Current.values) \in Nat /\ Current.values \in Seq(Int)
      /\ Current.present \in Seq(BOOLEAN) /\ Current.name \in Names
  BY <1>1, <1>4 DEF Filling, PropChunk
<1>6. v \in Value
  <2>1. Len(Current.values) + 1 \in DOMAIN Group.ids
    BY <1>3, <1>5
  <2>2. QED
    BY <2>1, <1>2, <1>5, GroupParts
<1>7. v.value \in Int
  BY <1>6 DEF Value, Absent
<1>8. Index(v.value) \in Int
  <2>1. sharedStrings \in Seq(Int)
    BY DEF TypeOK, PropTypeOK
  <2>2. CASE Known(v.value)
    <3>1. PICK i \in DOMAIN sharedStrings : sharedStrings[i] = v.value
      BY <2>2 DEF Known
    <3>2. (CHOOSE j \in DOMAIN sharedStrings : sharedStrings[j] = v.value) \in DOMAIN sharedStrings
      BY <3>1
    <3>3. QED
      BY <2>1, <2>2, <3>2 DEF Index
  <2>3. CASE ~Known(v.value)
    BY <2>1, <2>3 DEF Index
  <2>4. QED
    BY <2>2, <2>3
<1>9. Element(v) \in Int
  <2>1. Number(v.value) \in Int
    BY NumberType DEF nilInstance
  <2>2. QED
    BY <1>7, <1>8, <2>1 DEF Element
<1>10. Encodable(v) \in BOOLEAN
  BY DEF Encodable
<1> HIDE DEF v
<1>11. more \in Seq(BOOLEAN)
  BY <1>5, <1>10, AppendType DEF Presence
<1>12. /\ new \in PropChunk /\ new.class = Current.class
       /\ Len(new.values) = Len(Current.values) + 1
  <2> DEFINE longer == Append(Current.values, Element(v))
  <2>1. longer \in Seq(Int) /\ Len(longer) = Len(Current.values) + 1
    BY <1>5, <1>9, AppendType
  <2> HIDE DEF more, longer
  <2>2. new = [Current EXCEPT !.values = longer, !.present = more]
    BY DEF longer, more, Longer
  <2>3. new \in PropChunk /\ new.class = Current.class /\ new.values = longer
    <3> HIDE DEF new
    <3>1. QED
      BY <1>4, <1>11, <2>1, <2>2 DEF PropChunk
  <2>4. QED
    BY <2>1, <2>3
<1> HIDE DEF new
<1>13. /\ DOMAIN propChunks' = DOMAIN propChunks /\ Len(propChunks') = last
       /\ propChunks'[last] = new
       /\ \A k \in DOMAIN propChunks : k # last => propChunks'[k] = propChunks[k]
       /\ propChunks' \in Seq(PropChunk)
  BY <1>1, <1>4, <1>12
<1>14. sharedStrings' \in Seq(Int)
  <2>1. sharedStrings \in Seq(Int)
    BY DEF TypeOK, PropTypeOK
  <2>2. QED
    BY <1>1, <1>7, <2>1, AppendType
<1>15. PropTypeOK'
  BY <1>1, <1>13, <1>14 DEF TypeOK, PropTypeOK
<1>16. ListTypeOK' /\ GroupTypeOK' /\ LinkTypeOK'
  BY <1>1 DEF TypeOK, ListTypeOK, GroupTypeOK, LinkTypeOK
<1>17. NumbersDistinct' /\ Grouped' /\ Chunked' /\ Placed'
  BY <1>1, GroupsStay
<1>18. Stages' /\ HoldersKnown'
  <2>1. propChunks # <<>> => propChunks' # <<>>
    BY <1>4, <1>13
  <2>2. QED
    BY <1>1, <2>1 DEF EncodeInv, Stages, HoldersKnown, Waiting
<1>19. ArraysGrow'
  <2> SUFFICES ASSUME NEW k \in DOMAIN propChunks
               PROVE  /\ propChunks'[k].class + 1 \in DOMAIN instChunks
                      /\ Len(propChunks'[k].values) <= Len(instChunks[propChunks'[k].class + 1].ids)
                      /\ \/ Len(propChunks'[k].values) = Len(instChunks[propChunks'[k].class + 1].ids)
                         \/ /\ k = last
                            /\ propChunks'[k].class + 1 = Len(instChunks)
    BY <1>1, <1>13 DEF ArraysGrow, IsFull
  <2>1. CASE k # last
    BY <2>1, <1>13 DEF EncodeInv, ArraysGrow, IsFull
  <2>2. CASE k = last
    <3>1. propChunks'[k].class + 1 = Len(instChunks)
      BY <2>2, <1>3, <1>5, <1>12, <1>13
    <3>2. Len(propChunks'[k].values) = Len(Current.values) + 1
      BY <2>2, <1>12, <1>13
    <3>3. Len(propChunks'[k].values) <= Len(instChunks[propChunks'[k].class + 1].ids)
      BY <3>1, <3>2, <1>3, <1>5
    <3>4. QED
      BY <2>2, <3>1, <3>3, <1>3
  <2>3. QED
    BY <2>1, <2>2
<1>20. QED
  BY <1>15, <1>16, <1>17, <1>18, <1>19 DEF EncodeInv, TypeOK

-------------------------------------------------------------------------------
(* The calls for a list of instances.                                      *)
LEMMA CallsType ==
  ASSUME NEW instances \in Seq(Instances \cup {Nil}), NEW parent \in Instances \cup {Nil}
  PROVE  CallsFor(instances, parent) \in Seq(Call)
<1>1. Len(instances) \in Nat /\ DOMAIN instances = 1 .. Len(instances)
      /\ \A i \in DOMAIN instances : instances[i] \in Instances \cup {Nil}
  OBVIOUS
<1>2. \A i \in DOMAIN instances :
        [instance |-> instances[i], parent |-> parent, entered |-> FALSE] \in Call
  BY <1>1 DEF Call
<1>3. CallsFor(instances, parent) \in [1 .. Len(instances) -> Call]
  BY <1>1, <1>2 DEF CallsFor
<1>4. QED
  BY <1>1, <1>3

(* The move to another step, if what is to be known there is known.        *)
LEMMA MoveInv ==
  ASSUME TypeOK, EncodeInv,
         UNCHANGED <<root, todo, instList, instChunkMap, grouped, instChunks, propVars, links>>,
         walk' \in Seq(Call), step' \in Steps, Stages', HoldersKnown',
         step' \in {"fill", "panic"} \/ \A k \in DOMAIN propChunks : IsFull(k)
  PROVE  TypeOK' /\ EncodeInv'
<1>1. /\ root' = root /\ todo' = todo /\ instList' = instList /\ instChunkMap' = instChunkMap
      /\ grouped' = grouped /\ instChunks' = instChunks /\ unchecked' = unchecked
      /\ propChunkMap' = propChunkMap /\ skipped' = skipped /\ propChunks' = propChunks
      /\ sharedStrings' = sharedStrings /\ links' = links
  BY DEF propVars
<1>2. TypeOK'
  BY <1>1 DEF TypeOK, ListTypeOK, GroupTypeOK, PropTypeOK, LinkTypeOK
<1>3. NumbersDistinct' /\ Grouped' /\ Chunked' /\ Placed'
  BY <1>1, GroupsStay
<1>4. ArraysGrow'
  BY <1>1 DEF EncodeInv, ArraysGrow, IsFull
<1>5. QED
  BY <1>2, <1>3, <1>4 DEF EncodeInv

(* Before and after the arrays of a group are filled, all arrays are full. *)
LEMMA FullBetween ==
  ASSUME EncodeInv, step \notin {"fill", "panic"}
  PROVE  \A k \in DOMAIN propChunks : IsFull(k)
BY DEF EncodeInv, ArraysGrow

(* The numbering is done: the list is final, and there is no group yet.     *)
LEMMA AllListedInv ==
  ASSUME TypeOK, EncodeInv, AllListed
  PROVE  TypeOK' /\ EncodeInv'
<1>1. /\ step = "list" /\ step' = "group" /\ walk' = walk
      /\ UNCHANGED <<root, todo, instList, instChunkMap, grouped, instChunks, propVars, links>>
  BY DEF AllListed, linkVars
<1>2. walk' \in Seq(Call) /\ step' \in Steps
  BY <1>1 DEF TypeOK, LinkTypeOK, Steps
<1>3. Stages' /\ HoldersKnown'
  BY <1>1 DEF EncodeInv, Stages, HoldersKnown, propVars
<1>4. QED
  BY <1>1, <1>2, <1>3, MoveInv, FullBetween

(* Every number is in a group of the map.                                   *)
LEMMA AllGroupedInv ==
  ASSUME TypeOK, EncodeInv, AllGrouped
  PROVE  TypeOK' /\ EncodeInv'
<1>1. /\ step = "group" /\ step' = "sort" /\ walk' = walk /\ grouped = Len(instList)
      /\ UNCHANGED <<root, todo, instList, instChunkMap, grouped, instChunks, propVars, links>>
  BY DEF AllGrouped, linkVars
<1>2. walk' \in Seq(Call) /\ step' \in Steps
  BY <1>1 DEF TypeOK, LinkTypeOK, Steps
<1>3. Stages' /\ HoldersKnown'
  BY <1>1 DEF EncodeInv, Stages, HoldersKnown
<1>4. QED
  BY <1>1, <1>2, <1>3, MoveInv, FullBetween

(* The arrays of the group may now be filled.                               *)
LEMMA AllCheckedInv ==
  ASSUME TypeOK, EncodeInv, AllChecked
  PROVE  TypeOK' /\ EncodeInv'
<1>1. /\ step = "check" /\ step' = "fill" /\ walk' = walk
      /\ UNCHANGED <<root, todo, instList, instChunkMap, grouped, instChunks, propVars, links>>
  BY DEF AllChecked, linkVars
<1>2. walk' \in Seq(Call) /\ step' \in Steps
  BY <1>1 DEF TypeOK, LinkTypeOK, Steps
<1>3. Stages' /\ HoldersKnown'
  BY <1>1 DEF EncodeInv, Stages, HoldersKnown
<1>4. QED
  BY <1>1, <1>2, <1>3, MoveInv

(* The arrays of the group are full.                                        *)
LEMMA GroupDoneInv ==
  ASSUME TypeOK, EncodeInv, GroupDone
  PROVE  TypeOK' /\ EncodeInv'
<1>1. /\ step = "fill" /\ step' = "sort" /\ walk' = walk /\ ~Filling
      /\ UNCHANGED <<root, todo, instList, instChunkMap, grouped, instChunks, propVars, links>>
  BY DEF GroupDone, linkVars
<1>2. walk' \in Seq(Call) /\ step' \in Steps
  BY <1>1 DEF TypeOK, LinkTypeOK, Steps
<1>3. Stages' /\ HoldersKnown'
  BY <1>1 DEF EncodeInv, Stages, HoldersKnown
<1>4. QED
  BY <1>1, <1>2, <1>3, MoveInv, AllFull

(* No class waits: every number is in a chunk.                              *)
LEMMA AllFilledInv ==
  ASSUME TypeOK, EncodeInv, AllFilled
  PROVE  TypeOK' /\ EncodeInv'
<1>1. /\ step = "sort" /\ step' = "link" /\ Waiting = {}
      /\ walk' = IF instList = <<>> THEN <<>> ELSE CallsFor(root.instances, Nil)
      /\ UNCHANGED <<root, todo, instList, instChunkMap, grouped, instChunks, propVars, links>>
  BY DEF AllFilled
<1>2. walk' \in Seq(Call) /\ step' \in Steps
  <2>1. root.instances \in Seq(Instances \cup {Nil})
    BY RootParts DEF TypeOK, ListTypeOK
  <2>2. CallsFor(root.instances, Nil) \in Seq(Call)
    BY <2>1, CallsType
  <2>3. QED
    BY <1>1, <2>2 DEF Steps
<1>3. Stages' /\ HoldersKnown'
  BY <1>1 DEF EncodeInv, Stages, HoldersKnown, Waiting
<1>4. QED
  BY <1>1, <1>2, <1>3, MoveInv, FullBetween

(* What is written has been made before.                                    *)
LEMMA WriteChunksInv ==
  ASSUME TypeOK, EncodeInv, WriteChunks
  PROVE  TypeOK' /\ EncodeInv'
<1>1. /\ step = "link" /\ step' = "done" /\ walk' = walk
      /\ UNCHANGED <<root, todo, instList, instChunkMap, grouped, instChunks, propVars, links>>
  BY DEF WriteChunks, linkVars
<1>2. walk' \in Seq(Call) /\ step' \in Steps
  BY <1>1 DEF TypeOK, LinkTypeOK, Steps
<1>3. Stages' /\ HoldersKnown'
  BY <1>1 DEF EncodeInv, Stages, HoldersKnown, Waiting
<1>4. QED
  BY <1>1, <1>2, <1>3, MoveInv, FullBetween

(* The walk goes into the children of an instance.                         *)
LEMMA EnterInv ==
  ASSUME TypeOK, EncodeInv, EnterInstance, ~Crash
  PROVE  TypeOK' /\ EncodeInv'
<1> DEFINE call == Head(walk)
           left == [call EXCEPT !.entered = TRUE]
<1>1. /\ step = "link" /\ walk # <<>> /\ call.instance # Nil
      /\ walk' = CallsFor(root.children[call.instance], call.instance) \o <<left>> \o Tail(walk)
      /\ step' = step
      /\ UNCHANGED <<root, todo, instList, instChunkMap, grouped, instChunks, propVars, links>>
  BY DEF EnterInstance
<1>2. walk \in Seq(Call)
  BY DEF TypeOK, LinkTypeOK
<1>3. call \in Call /\ Tail(walk) \in Seq(Call)
  BY <1>1, <1>2
<1>4. call.instance \in Instances /\ left \in Call
  BY <1>1, <1>3 DEF Call
<1>5. root.children[call.instance] \in Seq(Instances \cup {Nil})
  BY <1>4, RootParts DEF TypeOK, ListTypeOK
<1>6. CallsFor(root.children[call.instance], call.instance) \in Seq(Call)
  BY <1>4, <1>5, CallsType
<1> HIDE DEF left, call
<1>7. walk' \in Seq(Call) /\ step' \in Steps
  BY <1>1, <1>3, <1>4, <1>6 DEF Steps
<1>8. Stages' /\ HoldersKnown'
  BY <1>1 DEF EncodeInv, Stages, HoldersKnown, Waiting
<1>9. QED
  BY <1>1, <1>7, <1>8, MoveInv, FullBetween

(* One more link, of numbers of the list.                                  *)
LEMMA LeaveInv ==
  ASSUME TypeOK, EncodeInv, LeaveInstance, ~Crash
  PROVE  TypeOK' /\ EncodeInv'
<1> DEFINE new == LinkFor(Head(walk))
<1>1. /\ step = "link" /\ walk # <<>> /\ walk' = Tail(walk) /\ step' = step
      /\ links' = Append(links, new)
      /\ root' = root /\ todo' = todo /\ instList' = instList /\ instChunkMap' = instChunkMap
      /\ grouped' = grouped /\ instChunks' = instChunks /\ unchecked' = unchecked
      /\ propChunkMap' = propChunkMap /\ skipped' = skipped /\ propChunks' = propChunks
      /\ sharedStrings' = sharedStrings
  BY DEF LeaveInstance, propVars
<1>2. new \in Link /\ new.child < Len(instList) /\ new.parent < Len(instList)
  BY NumberType DEF LinkFor, Link
<1> HIDE DEF new
<1>3. links \in Seq(Link) /\ walk \in Seq(Call)
      /\ \A i \in DOMAIN links : links[i].child < Len(instList) /\ links[i].parent < Len(instList)
  BY DEF TypeOK, LinkTypeOK
<1>4. links' \in Seq(Link)
  BY <1>1, <1>2, <1>3, AppendType
<1>5. \A i \in DOMAIN links' : links'[i].child < Len(instList) /\ links'[i].parent < Len(instList)
  BY <1>1, <1>2, <1>3, Appended
<1>6. walk' \in Seq(Call)
  BY <1>1, <1>3
<1>7. TypeOK'
  <2>1. LinkTypeOK'
    BY <1>1, <1>4, <1>5, <1>6 DEF LinkTypeOK
  <2>2. ListTypeOK' /\ GroupTypeOK' /\ PropTypeOK'
    BY <1>1 DEF TypeOK, ListTypeOK, GroupTypeOK, PropTypeOK
  <2>3. QED
    BY <2>1, <2>2 DEF TypeOK
<1>8. NumbersDistinct' /\ Grouped' /\ Chunked' /\ Placed'
  BY <1>1, GroupsStay
<1>9. Stages' /\ HoldersKnown'
  BY <1>1 DEF EncodeInv, Stages, HoldersKnown, Waiting
<1>10. ArraysGrow'
  BY <1>1 DEF EncodeInv, ArraysGrow, IsFull
<1>11. QED
  BY <1>7, <1>8, <1>9, <1>10 DEF EncodeInv

-------------------------------------------------------------------------------

(* The invariant holds before the first step ...                            *)
LEMMA EncodeStart ==
  ASSUME Init
  PROVE  TypeOK /\ EncodeInv
<1>1. root \in Roots
  BY DEF Init
<1>2. root.instances \in Seq(Instances \cup {Nil})
  BY <1>1, RootParts
<1>3. TypeOK
  <2>1. ListTypeOK
    BY <1>1, <1>2 DEF Init, ListTypeOK, Steps
  <2>2. GroupTypeOK
    BY DEF Init, GroupTypeOK
  <2>3. PropTypeOK
    BY DEF Init, PropTypeOK
  <2>4. LinkTypeOK
    BY DEF Init, LinkTypeOK
  <2>5. QED
    BY <2>1, <2>2, <2>3, <2>4 DEF TypeOK
<1>4. NumbersDistinct /\ Grouped /\ Chunked /\ Placed
  BY DEF Init, NumbersDistinct, Grouped, Chunked, Placed
<1>5. Stages /\ HoldersKnown /\ ArraysGrow
  BY DEF Init, Stages, HoldersKnown, ArraysGrow
<1>6. QED
  BY <1>3, <1>4, <1>5 DEF EncodeInv

(* ... and every step keeps it.                                             *)
LEMMA EncodeStep ==
  ASSUME TypeOK, EncodeInv, [Next]_encodeVars
  PROVE  TypeOK' /\ EncodeInv'
<1>1. CASE Crash
  BY <1>1, CrashInv
<1>2. CASE AddInstance
  BY <1>2, AddInstanceInv
<1>3. CASE AllListed
  BY <1>3, AllListedInv
<1>4. CASE GroupInstance
  BY <1>4, GroupInstanceInv
<1>5. CASE AllGrouped
  BY <1>5, AllGroupedInv
<1>6. ASSUME NEW class \in Classes, NextGroup(class) PROVE TypeOK' /\ EncodeInv'
  BY <1>6, NextGroupInv
<1>7. ASSUME NEW name \in Names, CheckProperty(name), ~Crash PROVE TypeOK' /\ EncodeInv'
  BY <1>7, CheckInv
<1>8. CASE AllChecked
  BY <1>8, AllCheckedInv
<1>9. ASSUME NEW name \in Names, StartProperty(name), ~Crash PROVE TypeOK' /\ EncodeInv'
  BY <1>9, StartInv
<1>10. CASE FillValue /\ ~Crash
  BY <1>10, FillInv
<1>11. CASE GroupDone
  BY <1>11, GroupDoneInv
<1>12. CASE AllFilled
  BY <1>12, AllFilledInv
<1>13. CASE EnterInstance /\ ~Crash
  BY <1>13, EnterInv
<1>14. CASE LeaveInstance /\ ~Crash
  BY <1>14, LeaveInv
<1>15. CASE WriteChunks
  BY <1>15, WriteChunksInv
<1>16. CASE UNCHANGED encodeVars
  <2>1. /\ walk' = walk /\ step' = step
        /\ root' = root /\ todo' = todo /\ instList' = instList /\ instChunkMap' = instChunkMap
        /\ grouped' = grouped /\ instChunks' = instChunks /\ unchecked' = unchecked
        /\ propChunkMap' = propChunkMap /\ skipped' = skipped /\ propChunks' = propChunks
        /\ sharedStrings' = sharedStrings /\ links' = links
    BY <1>16 DEF encodeVars, propVars, linkVars
  <2>2. TypeOK'
    BY <2>1 DEF TypeOK, ListTypeOK, GroupTypeOK, PropTypeOK, LinkTypeOK
  <2>3. NumbersDistinct' /\ Grouped' /\ Chunked' /\ Placed' /\ Waiting' = Waiting
        /\ \A n : Holders(n)' = Holders(n)
    BY <2>1, GroupsStay
  <2>4. Stages' /\ HoldersKnown'
    BY <2>1, <2>3 DEF EncodeInv, Stages, HoldersKnown
  <2>5. ArraysGrow'
    BY <2>1 DEF EncodeInv, ArraysGrow, IsFull
  <2>6. QED
    BY <2>2, <2>3, <2>4, <2>5 DEF EncodeInv
<1>17. QED
  BY <1>1, <1>2, <1>3, <1>4, <1>5, <1>6, <1>7, <1>8, <1>9, <1>10, <1>11, <1>12,
     <1>13, <1>14, <1>15, <1>16 DEF Next

(* The values of the encoder keep their types: a number that is written is *)
(* nilInstance or the number of an instance, and every array has a type    *)
(* (rbxl/codec.go:426-683).                                                *)
THEOREM EncodeTypeCorrect == Spec => []TypeOK
<1>1. Init => TypeOK /\ EncodeInv
  BY EncodeStart
<1>2. TypeOK /\ EncodeInv /\ [Next]_encodeVars => TypeOK' /\ EncodeInv'
  BY EncodeStep
<1>3. QED
  BY <1>1, <1>2, PTL DEF Spec

(* The strengthened invariant gives the consistency of the numbers.        *)
LEMMA EncodeInvImplies ==
  ASSUME TypeOK, EncodeInv
  PROVE  NumbersConsistent
<1>1. NumbersDistinct
  BY DEF EncodeInv
<1>2. GroupsDisjoint
  <2> SUFFICES ASSUME NEW k \in DOMAIN instChunks, NEW l \in DOMAIN instChunks,
                      NEW i \in DOMAIN instChunks[k].ids, NEW j \in DOMAIN instChunks[l].ids,
                      instChunks[k].ids[i] = instChunks[l].ids[j]
               PROVE  k = l /\ i = j
    BY DEF GroupsDisjoint
  <2>1. ClassOf(instChunks[k].ids[i]) = ClassOf(instChunks[l].ids[j])
    OBVIOUS
  <2>2. k = l
    BY <2>1 DEF EncodeInv, Chunked
  <2>3. QED
    BY <2>2 DEF EncodeInv, Chunked
<1>3. GroupsCover
  <2> SUFFICES ASSUME step \in {"link", "done"}, NEW id \in 0 .. Len(instList) - 1
               PROVE  InChunk(id)
    BY DEF GroupsCover, InChunk
  <2>1. grouped = Len(instList) /\ Waiting = {}
    BY DEF EncodeInv, Stages
  <2>2. InMap(id) \/ InChunk(id)
    BY <2>1 DEF EncodeInv, Placed
  <2>3. id \in Nat /\ id < Len(instList)
    BY DEF TypeOK, ListTypeOK
  <2>4. ClassOf(id) \in Classes
    BY <2>3, AtNumber
  <2>5. instChunkMap[ClassOf(id)] = <<>>
    BY <2>1, <2>4 DEF Waiting
  <2>6. QED
    BY <2>2, <2>5 DEF InMap
<1>4. ArraysFit
  BY DEF EncodeInv, ArraysGrow, ArraysFit
<1>5. QED
  BY <1>1, <1>2, <1>3, <1>4 DEF NumbersConsistent

(* However the instances hang together, whatever their classes and         *)
(* properties are and whatever the checks skip: one number for an          *)
(* instance, one group for a number, and arrays as long as their groups    *)
(* (rbxl/codec.go:436-463, 471-525, 590-648).                              *)
THEOREM NumbersAlwaysConsistent == Spec => []NumbersConsistent
<1>1. Init => TypeOK /\ EncodeInv
  BY EncodeStart
<1>2. TypeOK /\ EncodeInv /\ [Next]_encodeVars => TypeOK' /\ EncodeInv'
  BY EncodeStep
<1>3. TypeOK /\ EncodeInv => NumbersConsistent
  BY EncodeInvImplies
<1>4. QED
  BY <1>1, <1>2, <1>3, PTL DEF Spec

===============================================================================
