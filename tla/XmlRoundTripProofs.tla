--------------------------- MODULE XmlRoundTripProofs ---------------------------
(***************************************************************************)
(* What is decoded from XML is what the document says, for every document  *)
(* that nests, whether it was encoded here or not.                         *)
(*                                                                         *)
(* A call of getItems has read the first tags of its list (Calls), and has *)
(* the instances for the Items among them (Gathered).  Every instance made *)
(* is for an Item that was read, in one place (Placed), hence no two are   *)
(* for the same.  Of the property tags of an instance, those read so far   *)
(* (TagsRead) are in the property, waited for, or put off (Values, Awaits, *)
(* LinksOff), and the same is said once nothing is left to read.           *)
(*                                                                         *)
(* A document that is encoded here nests, since every Item is put in one   *)
(* list (OnceListed of XmlEncodeProofs), and says what the tree was        *)
(* (TreeInv there).  So what is decoded is that tree: every Item is an     *)
(* instance, the Items of a list are those written for the children, in    *)
(* their order (SameOrder), a name leads back to its owner (NamedLast),    *)
(* and a property has one tag or none (OneTag).                            *)
(***************************************************************************)
EXTENDS XmlRoundTrip, XmlEncodeProofs

News == 1 .. MaxMade
Frame ==
  [tags : Seq(Nat), parent : News \cup {Nil}, pending : Seq(PropertyTag), hasProps : BOOLEAN,
   properties : [Properties -> D!Value \cup {Unset}], items : Seq(News)]
Later(Text) == [instance : News, property : Properties, reference : Text]

DecodeTypeOK ==
  /\ Handed \in D!Document
  /\ phase \in {"items", "top", "resolve", "done"}
  /\ stack \in Seq(Frame)
  /\ itemOf \in Seq(DOMAIN Handed.tags) /\ Len(itemOf) <= MaxMade
  /\ \A inst \in D!Made : D!IsInstance(itemOf[inst])
  /\ instLookup \in [Refs -> News \cup {Nil}]
  /\ newReference \in [News -> Refs]
  /\ newProperties \in [News -> [Properties -> D!Value \cup {Unset}]]
  /\ children \in [News -> Seq(News)]
  /\ instances \in Seq(News)
  /\ propRefs \in Seq(Later(Refs))
  /\ stringRefs \in Seq(Later(Hash))
  /\ pos \in 0 .. Len(Handed.top)

(* The list of tags that the call of getItems for an instance is given.    *)
TagsOf(inst) == IF inst = Nil THEN Handed.top ELSE Handed.tags[itemOf[inst]].tags
ReadBy(d) == Len(TagsOf(stack[d].parent)) - Len(stack[d].tags)

(* The call at the bottom is for the root, the others are for instances.   *)
Calls ==
  /\ phase = "items" => stack # <<>> /\ stack[1].parent = Nil
  /\ phase # "items" => stack = <<>>
  /\ \A d \in DOMAIN stack :
       /\ stack[d].parent \in D!Made \cup {Nil}
       /\ ReadBy(d) >= 0
       /\ \A i \in DOMAIN stack[d].tags : stack[d].tags[i] = TagsOf(stack[d].parent)[ReadBy(d) + i]
  /\ \A d, e \in DOMAIN stack : stack[d].parent = stack[e].parent => d = e

Running(inst) == \E d \in DOMAIN stack : stack[d].parent = inst

(* The instances are those of the Items among the first n tags.            *)
Gathered(insts, list, n) ==
  \E at \in [DOMAIN insts -> {i \in 1 .. n : D!IsInstance(list[i])}] :
    /\ \A i, j \in DOMAIN insts : i < j => at[i] < at[j]
    /\ \A i \in 1 .. n : D!IsInstance(list[i]) => \E j \in DOMAIN insts : at[j] = i
    /\ \A i \in DOMAIN insts : insts[i] \in D!Made /\ itemOf[insts[i]] = list[at[i]]

Gathering ==
  /\ \A d \in DOMAIN stack : Gathered(stack[d].items, TagsOf(stack[d].parent), ReadBy(d))
  /\ \A inst \in D!Made :
       ~Running(inst) => Gathered(children[inst], TagsOf(inst), Len(TagsOf(inst)))
  /\ phase # "items" => Gathered(instances, Handed.top, Len(Handed.top))

(* An instance is made for an Item that has been read.                     *)
IsPlace(inst, parent, i) ==
  /\ itemOf[inst] = TagsOf(parent)[i]
  /\ \A d \in DOMAIN stack : stack[d].parent = parent => i <= ReadBy(d)
Placed ==
  /\ \A inst \in D!Made : \E parent \in D!Made \cup {Nil} :
       \E i \in DOMAIN TagsOf(parent) : IsPlace(inst, parent, i)
  /\ \A inst, other \in D!Made : itemOf[inst] = itemOf[other] => inst = other

TreeRead == Calls /\ Gathering /\ Placed

-------------------------------------------------------------------------------

(* The property tags of an instance, and those that have been read.        *)
Tags(inst) == D!PropertiesIn(itemOf[inst])
PropsRead(d) == IF stack[d].hasProps THEN Len(Tags(stack[d].parent)) - Len(stack[d].pending) ELSE 0
TagsRead(inst) ==
  {i \in DOMAIN Tags(inst) : \A d \in DOMAIN stack : stack[d].parent = inst => i <= PropsRead(d)}
SoFar(S, inst) == {x \in S : x[1] \in TagsRead(inst)}

(* What a call has of its Properties tag.                                  *)
PendingAt(d) ==
  /\ ~stack[d].hasProps =>
       /\ stack[d].pending = <<>>
       /\ \A i \in 1 .. ReadBy(d) : stack[d].parent # Nil =>
            Handed.tags[TagsOf(stack[d].parent)[i]].start # "Properties"
  /\ stack[d].hasProps =>
       /\ stack[d].parent # Nil
       /\ PropsRead(d) >= 0
       /\ \A i \in DOMAIN stack[d].pending :
            stack[d].pending[i] = Tags(stack[d].parent)[PropsRead(d) + i]
Pending == \A d \in DOMAIN stack : PendingAt(d)

PlainRead(inst, p) == SoFar(D!Plain(inst, p), inst)
LinksRead(inst, p) == SoFar(D!Links(inst, p), inst)
HashesRead(inst, p) ==
  {D!HashOf(x[2]) : x \in SoFar({y \in D!Tagged(inst, p) : D!IsHash(y[2])}, inst)}

PlainOf(inst, p) ==
  IF PlainRead(inst, p) = {} THEN Unset ELSE D!PlainValue(D!LastOf(PlainRead(inst, p)))
ContentsRead(hashes) == {x \in D!Contents(hashes) : x[1] <= pos}
FilledOf(inst, p) ==
  IF ContentsRead(HashesRead(inst, p)) = {} THEN PlainOf(inst, p)
  ELSE D!TextAt(D!Latest(ContentsRead(HashesRead(inst, p))))

Awaits ==
  /\ \A e \in DOMAIN stringRefs : stringRefs[e].instance \in D!Made
  /\ \A inst \in D!Made, p \in Properties : D!Awaited(inst, p) = HashesRead(inst, p)

IsFor(e, inst, p) == propRefs[e].instance = inst /\ propRefs[e].property = p
PutOff(inst, p) == \E e \in DOMAIN propRefs : IsFor(e, inst, p)

(* Of the references put off for one property, the last one counts.        *)
LinksOff ==
  /\ \A e \in DOMAIN propRefs :
       /\ propRefs[e].instance \in D!Made
       /\ LinksRead(propRefs[e].instance, propRefs[e].property) # {}
  /\ \A e \in DOMAIN propRefs : propRefs[e].reference \notin EmptyRefs
  /\ \A inst \in D!Made, p \in Properties : PutOff(inst, p) =>
       \E e \in DOMAIN propRefs :
         /\ IsFor(e, inst, p)
         /\ propRefs[e].reference = D!LastOf(LinksRead(inst, p)).text
         /\ \A f \in DOMAIN propRefs : IsFor(f, inst, p) => f <= e
  /\ phase \in {"items", "top"} =>
       \A inst \in D!Made, p \in Properties : LinksRead(inst, p) # {} => PutOff(inst, p)

Values ==
  /\ \A d \in DOMAIN stack : stack[d].parent # Nil =>
       \A p \in Properties : stack[d].properties[p] = PlainOf(stack[d].parent, p)
  /\ \A inst \in D!Made : ~Running(inst) =>
       \A p \in Properties :
         /\ LinksRead(inst, p) = {} \/ phase \in {"items", "top"} =>
              newProperties[inst][p] = FilledOf(inst, p)
         /\ LinksRead(inst, p) # {} /\ ~PutOff(inst, p) =>
              newProperties[inst][p] = D!Named(D!LastOf(LinksRead(inst, p)).text)

Looked == \A r \in Refs \ EmptyRefs : instLookup[r] = D!Named(r)

Stages ==
  /\ phase = "items" => pos = 0
  /\ phase \in {"resolve", "done"} => pos = Len(Handed.top)
  /\ phase = "done" => propRefs = <<>>

DecodeInv ==
  /\ DecodeTypeOK /\ TreeRead
  /\ Pending /\ Awaits /\ LinksOff /\ Values /\ Looked /\ Stages

NothingRead == given = <<>> /\ stack = <<>> /\ D!NothingRead

TripInv ==
  /\ EncodeInv /\ OnceListed
  /\ phase = "wait" => NothingRead
  /\ phase # "wait" => (given # <<>> \/ step = "done") /\ DecodeInv

-------------------------------------------------------------------------------
(* Documents and frames.                                                   *)

LEMMA SameDocument ==
  ASSUME UNCHANGED <<encodeVars, given>>
  PROVE  Handed' = Handed
BY DEF Handed, encodeVars

LEMMA NewsAreNot == Nil \notin News /\ \A i \in News : i \in Nat /\ i # 0
BY DocumentsAssumption DEF D!NilAssumption, News

LEMMA SameTags == D!Tag = Tag
BY DEF D!Tag, Tag, D!ItemTags, ItemTags, D!PropertiesTags, PropertiesTags, D!PropertyTag,
       PropertyTag, D!StringTag, StringTag, D!Hash, Hash

(* What Nests says of the lists.                                           *)
LEMMA DocumentParts ==
  ASSUME Handed \in D!Document
  PROVE  /\ Handed.tags \in Seq(Tag) /\ Handed.discard \in BOOLEAN
         /\ Handed.top \in Seq(DOMAIN Handed.tags)
         /\ D!Nests(Handed)
<1>1. Handed.tags \in Seq(D!Tag) /\ Handed.discard \in BOOLEAN /\ D!Nests(Handed)
  BY DEF D!Document
<1>3. D!TagsUnder(Handed, 0) \in Seq(DOMAIN Handed.tags)
  BY <1>1 DEF D!Nests
<1>4. QED
  BY <1>1, <1>3, SameTags DEF D!TagsUnder

LEMMA ItemLists ==
  ASSUME Handed \in D!Document, NEW k \in DOMAIN Handed.tags, Handed.tags[k].start = "Item"
  PROVE  Handed.tags[k].tags \in Seq(DOMAIN Handed.tags) /\ k # 0 /\ k \in Nat
<1>1. Handed.tags \in Seq(Tag) /\ D!Nests(Handed)
  BY DocumentParts
<1>2. k # 0 /\ k \in Nat
  BY <1>1
<1>3. D!TagsUnder(Handed, k) \in Seq(DOMAIN Handed.tags)
  BY <1>1 DEF D!Nests
<1>4. QED
  BY <1>2, <1>3 DEF D!TagsUnder

(* The instances made.                                                     *)
LEMMA MadeType ==
  ASSUME DecodeTypeOK
  PROVE  /\ D!Made = 1 .. Len(itemOf) /\ Len(itemOf) \in Nat /\ D!Made \subseteq News
         /\ Nil \notin D!Made
         /\ \A inst \in D!Made :
              /\ itemOf[inst] \in DOMAIN Handed.tags /\ itemOf[inst] \in Nat /\ itemOf[inst] # 0
              /\ Handed.tags[itemOf[inst]].start = "Item"
              /\ Handed.tags[itemOf[inst]].class # NoAttr
<1>1. itemOf \in Seq(DOMAIN Handed.tags) /\ Len(itemOf) <= MaxMade /\ MaxMade \in Nat
  BY DocumentsAssumption DEF DecodeTypeOK
<1>2. D!Made = 1 .. Len(itemOf) /\ Len(itemOf) \in Nat
  BY <1>1 DEF D!Made
<1>3. D!Made \subseteq News
  BY <1>1, <1>2 DEF News
<1>4. ASSUME NEW inst \in D!Made
      PROVE  /\ itemOf[inst] \in DOMAIN Handed.tags
             /\ Handed.tags[itemOf[inst]].start = "Item"
             /\ Handed.tags[itemOf[inst]].class # NoAttr
  BY <1>1, <1>2 DEF DecodeTypeOK, D!IsInstance
<1>5. \A inst \in D!Made : itemOf[inst] # 0 /\ itemOf[inst] \in Nat
  BY <1>4, ItemLists DEF DecodeTypeOK
<1>6. QED
  BY <1>2, <1>3, <1>4, <1>5, NewsAreNot

LEMMA ListType ==
  ASSUME DecodeTypeOK, NEW inst \in D!Made \cup {Nil}
  PROVE  TagsOf(inst) \in Seq(DOMAIN Handed.tags)
<1>1. CASE inst = Nil
  BY <1>1, DocumentParts DEF TagsOf, DecodeTypeOK
<1>2. CASE inst \in D!Made
  BY <1>2, MadeType, ItemLists DEF TagsOf, DecodeTypeOK
<1>3. QED
  BY <1>1, <1>2

(* No Item is in two of the lists, or in two places of one.                *)
LEMMA OnePlace ==
  ASSUME DecodeTypeOK, Placed,
         NEW inst \in D!Made \cup {Nil}, NEW other \in D!Made \cup {Nil},
         NEW i \in DOMAIN TagsOf(inst), NEW j \in DOMAIN TagsOf(other),
         TagsOf(inst)[i] = TagsOf(other)[j],
         D!IsInstance(TagsOf(inst)[i])
  PROVE  inst = other /\ i = j
<1> DEFINE Number(n) == IF n = Nil THEN 0 ELSE itemOf[n]
           nests == {0} \cup {k \in DOMAIN Handed.tags : Handed.tags[k].start = "Item"}
<1>1. /\ Number(inst) \in nests /\ Number(other) \in nests
      /\ TagsOf(inst) = D!TagsUnder(Handed, Number(inst))
      /\ TagsOf(other) = D!TagsUnder(Handed, Number(other))
  BY MadeType DEF TagsOf, D!TagsUnder
<1>2. Handed.tags[TagsOf(inst)[i]].start = "Item"
  BY DEF D!IsInstance
<1>3. \A k, l \in nests :
        \A m \in DOMAIN D!TagsUnder(Handed, k), n \in DOMAIN D!TagsUnder(Handed, l) :
          /\ D!TagsUnder(Handed, k)[m] = D!TagsUnder(Handed, l)[n]
          /\ Handed.tags[D!TagsUnder(Handed, k)[m]].start = "Item"
          => k = l /\ m = n
  <2>1. D!Nests(Handed)
    BY DocumentParts DEF DecodeTypeOK
  <2>2. QED
    BY <2>1 DEF D!Nests
<1>4. Number(inst) = Number(other) /\ i = j
  <2> HIDE DEF Number, nests
  <2>1. QED
    BY <1>1, <1>2, <1>3
<1>5. inst = other
  BY <1>4, MadeType DEF Placed
<1>6. QED
  BY <1>4, <1>5

-------------------------------------------------------------------------------

(* The call at the top.                                                    *)
LEMMA TopFrame ==
  ASSUME DecodeTypeOK, Calls, phase = "items"
  PROVE  /\ Len(stack) \in Nat /\ Len(stack) >= 1 /\ DOMAIN stack = 1 .. Len(stack)
         /\ D!Top = stack[Len(stack)] /\ D!Top \in Frame
         /\ D!Top.parent \in D!Made \cup {Nil}
         /\ D!Top.tags \in Seq(Nat)
<1>1. stack \in Seq(Frame) /\ stack # <<>>
  BY DEF DecodeTypeOK, Calls
<1>2. Len(stack) \in Nat /\ Len(stack) >= 1 /\ DOMAIN stack = 1 .. Len(stack)
  BY <1>1
<1>3. D!Top = stack[Len(stack)] /\ stack[Len(stack)] \in Frame
  BY <1>1, <1>2 DEF D!Top
<1>4. QED
  BY <1>2, <1>3 DEF Calls, Frame

(* The next tag of the call at the top is the one behind those read.       *)
LEMMA NextTag ==
  ASSUME DecodeTypeOK, Calls, phase = "items", D!Top.tags # <<>>
  PROVE  LET n == ReadBy(Len(stack)) + 1
             list == TagsOf(D!Top.parent) IN
         /\ n \in DOMAIN list /\ n \in Nat /\ n - 1 \in Nat
         /\ Head(D!Top.tags) = list[n]
         /\ list[n] \in DOMAIN Handed.tags
         /\ D!NextTag = Handed.tags[list[n]]
         /\ Tail(D!Top.tags) \in Seq(Nat)
         /\ Len(Tail(D!Top.tags)) = Len(D!Top.tags) - 1
         /\ \A i \in DOMAIN Tail(D!Top.tags) : Tail(D!Top.tags)[i] = list[n + i]
         /\ Len(list) - Len(Tail(D!Top.tags)) = n
<1> DEFINE d == Len(stack)
           list == TagsOf(D!Top.parent)
           rest == D!Top.tags
           n == ReadBy(Len(stack)) + 1
<1>1. d \in DOMAIN stack /\ D!Top = stack[d] /\ rest \in Seq(Nat) /\ rest # <<>>
        /\ D!Top.parent \in D!Made \cup {Nil}
  BY TopFrame
<1>2. list \in Seq(DOMAIN Handed.tags)
  BY <1>1, ListType
<1> DEFINE r == ReadBy(d)
<1>3. r = Len(list) - Len(rest) /\ n = r + 1 /\ r >= 0
        /\ \A i \in DOMAIN rest : rest[i] = list[r + i]
  <2>1. r = Len(list) - Len(rest)
    BY <1>1 DEF ReadBy
  <2>2. r >= 0 /\ \A i \in DOMAIN rest : rest[i] = list[r + i]
    BY <1>1 DEF Calls
  <2>3. QED
    BY <2>1, <2>2
<1> HIDE DEF list, rest, n, r
<1>4. Len(list) \in Nat /\ Len(rest) \in Nat /\ Len(rest) >= 1 /\ 1 \in DOMAIN rest
        /\ DOMAIN list = 1 .. Len(list) /\ Head(rest) = rest[1]
        /\ DOMAIN Tail(rest) = 1 .. Len(rest) - 1
        /\ Tail(rest) \in Seq(Nat) /\ Len(Tail(rest)) = Len(rest) - 1
        /\ \A i \in DOMAIN Tail(rest) : i + 1 \in DOMAIN rest /\ Tail(rest)[i] = rest[i + 1]
  BY <1>1, <1>2
<1>5. n \in DOMAIN list /\ n \in Nat /\ n - 1 \in Nat
  BY <1>3, <1>4
<1>6. Head(rest) = list[n]
  <2>1. rest[1] = list[r + 1]
    BY <1>3, <1>4
  <2>2. QED
    BY <1>3, <1>4, <2>1
<1>7. list[n] \in DOMAIN Handed.tags
  BY <1>2, <1>5
<1>8. D!NextTag = Handed.tags[list[n]]
  BY <1>6 DEF D!NextTag, rest
<1>9. ASSUME NEW i \in DOMAIN Tail(rest) PROVE Tail(rest)[i] = list[n + i]
  <2>1. rest[i + 1] = list[r + (i + 1)]
    BY <1>3, <1>4
  <2>2. r + (i + 1) = n + i
    BY <1>3, <1>4
  <2>3. QED
    BY <1>4, <2>1, <2>2
<1>10. Len(list) - Len(Tail(rest)) = n
  BY <1>3, <1>4
<1>11. QED
  BY <1>4, <1>5, <1>6, <1>7, <1>8, <1>9, <1>10 DEF rest, list, n

(* The stack with another call at the top.                                 *)
LEMMA TopReplaced ==
  ASSUME DecodeTypeOK, Calls, phase = "items", NEW f \in Frame
  PROVE  /\ D!WithTop(f) \in Seq(Frame) /\ Len(D!WithTop(f)) = Len(stack)
         /\ DOMAIN D!WithTop(f) = DOMAIN stack
         /\ \A d \in DOMAIN stack : D!WithTop(f)[d] = IF d = Len(stack) THEN f ELSE stack[d]
<1>1. stack \in Seq(Frame) /\ Len(stack) \in DOMAIN stack
  BY TopFrame DEF DecodeTypeOK
<1>2. QED
  BY <1>1 DEF D!WithTop

-------------------------------------------------------------------------------
(* The tree read so far.                                                   *)

Grown ==
  /\ Handed' = Handed
  /\ \A inst \in D!Made : inst \in D!Made' /\ itemOf'[inst] = itemOf[inst]

LEMMA ListsKept ==
  ASSUME Grown, NEW inst \in D!Made \cup {Nil}
  PROVE  TagsOf(inst)' = TagsOf(inst)
BY DEF Grown, TagsOf

LEMMA InstanceKept ==
  ASSUME Handed' = Handed, NEW k
  PROVE  D!IsInstance(k)' = D!IsInstance(k)
BY DEF D!IsInstance

(* Instances that are gathered stay so while more are made.                *)
LEMMA GatheredKept ==
  ASSUME Grown, NEW insts, NEW list, NEW n, Gathered(insts, list, n)
  PROVE  Gathered(insts, list, n)'
<1>1. Handed' = Handed /\ \A inst \in D!Made : inst \in D!Made' /\ itemOf'[inst] = itemOf[inst]
  BY DEF Grown
<1>2. \A k : D!IsInstance(k)' = D!IsInstance(k)
  BY <1>1, InstanceKept
<1> DEFINE places == {i \in 1 .. n : D!IsInstance(list[i])}
<1>3. PICK at \in [DOMAIN insts -> places] :
        /\ \A i, j \in DOMAIN insts : i < j => at[i] < at[j]
        /\ \A i \in 1 .. n : D!IsInstance(list[i]) => \E j \in DOMAIN insts : at[j] = i
        /\ \A i \in DOMAIN insts : insts[i] \in D!Made /\ itemOf[insts[i]] = list[at[i]]
  BY DEF Gathered
<1>4. places' = places
  BY <1>2
<1>5. /\ \A i \in 1 .. n : D!IsInstance(list[i])' => \E j \in DOMAIN insts : at[j] = i
      /\ \A i \in DOMAIN insts : insts[i] \in D!Made' /\ itemOf'[insts[i]] = list[at[i]]
  BY <1>1, <1>2, <1>3
<1>6. QED
  BY <1>3, <1>4, <1>5 DEF Gathered

(* One tag more that is not an instance.                                   *)
LEMMA GatherNone ==
  ASSUME NEW insts, NEW list, NEW n \in Nat, Gathered(insts, list, n),
         ~D!IsInstance(list[n + 1])
  PROVE  Gathered(insts, list, n + 1)
<1> DEFINE places(m) == {i \in 1 .. m : D!IsInstance(list[i])}
<1>1. \A i : i \in 1 .. n + 1 <=> i \in 1 .. n \/ i = n + 1
  OBVIOUS
<1>2. places(n + 1) = places(n)
  BY <1>1
<1>3. PICK at \in [DOMAIN insts -> places(n)] :
        /\ \A i, j \in DOMAIN insts : i < j => at[i] < at[j]
        /\ \A i \in 1 .. n : D!IsInstance(list[i]) => \E j \in DOMAIN insts : at[j] = i
        /\ \A i \in DOMAIN insts : insts[i] \in D!Made /\ itemOf[insts[i]] = list[at[i]]
  BY DEF Gathered
<1>4. \A i \in 1 .. n + 1 : D!IsInstance(list[i]) => \E j \in DOMAIN insts : at[j] = i
  BY <1>1, <1>3
<1>5. at \in [DOMAIN insts -> places(n + 1)]
  BY <1>2, <1>3
<1>6. QED
  BY <1>3, <1>4, <1>5 DEF Gathered

(* One instance more, for the next tag.                                    *)
LEMMA GatherOne ==
  ASSUME Grown, NEW insts \in Seq(News), NEW list, NEW n \in Nat, Gathered(insts, list, n),
         D!IsInstance(list[n + 1]), NEW inst,
         inst \in D!Made', itemOf'[inst] = list[n + 1]
  PROVE  Gathered(Append(insts, inst), list, n + 1)'
<1>1. Handed' = Handed /\ \A i \in D!Made : i \in D!Made' /\ itemOf'[i] = itemOf[i]
  BY DEF Grown
<1>2. \A k : D!IsInstance(k)' = D!IsInstance(k)
  BY <1>1, InstanceKept
<1> DEFINE places(m) == {i \in 1 .. m : D!IsInstance(list[i])}
           more == Append(insts, inst)
<1>3. PICK at \in [DOMAIN insts -> places(n)] :
        /\ \A i, j \in DOMAIN insts : i < j => at[i] < at[j]
        /\ \A i \in 1 .. n : D!IsInstance(list[i]) => \E j \in DOMAIN insts : at[j] = i
        /\ \A i \in DOMAIN insts : insts[i] \in D!Made /\ itemOf[insts[i]] = list[at[i]]
  BY DEF Gathered
<1>4. /\ Len(insts) \in Nat /\ DOMAIN insts = 1 .. Len(insts)
      /\ DOMAIN more = 1 .. Len(insts) + 1
      /\ more[Len(insts) + 1] = inst /\ \A i \in 1 .. Len(insts) : more[i] = insts[i]
  OBVIOUS
<1> HIDE DEF more
<1> DEFINE last == Len(insts) + 1
           new == [i \in 1 .. last |-> IF i = last THEN n + 1 ELSE at[i]]
<1>5. \A i : i \in 1 .. last <=> i \in DOMAIN insts \/ i = last
  BY <1>4
<1>6. last \notin DOMAIN insts /\ last \in Nat /\ last \in 1 .. last
  BY <1>4
<1>7. \A i \in DOMAIN insts : new[i] = at[i] /\ at[i] \in 1 .. n /\ D!IsInstance(list[at[i]])
  BY <1>3, <1>5, <1>6
<1>8. new[last] = n + 1
  BY <1>6
<1>9. new \in [DOMAIN more -> places(n + 1)]
  <2>1. \A i \in 1 .. last : new[i] \in 1 .. n + 1 /\ D!IsInstance(list[new[i]])
    BY <1>5, <1>7, <1>8
  <2>2. QED
    BY <1>4, <2>1
<1> HIDE DEF new
<1>10. \A i, j \in DOMAIN more : i < j => new[i] < new[j]
  <2> SUFFICES ASSUME NEW i \in DOMAIN more, NEW j \in DOMAIN more, i < j
               PROVE  new[i] < new[j]
    OBVIOUS
  <2>1. i \in DOMAIN insts
    BY <1>4
  <2>2. CASE j \in DOMAIN insts
    BY <1>3, <1>7, <2>1, <2>2
  <2>3. CASE j = last
    BY <1>7, <1>8, <2>1, <2>3
  <2>4. QED
    BY <1>4, <1>5, <2>2, <2>3
<1>11. \A i \in 1 .. n + 1 : D!IsInstance(list[i])' => \E j \in DOMAIN more : new[j] = i
  <2> SUFFICES ASSUME NEW i \in 1 .. n + 1, D!IsInstance(list[i])
               PROVE  \E j \in DOMAIN more : new[j] = i
    BY <1>2
  <2>1. CASE i = n + 1
    BY <1>4, <1>6, <1>8, <2>1
  <2>2. CASE i \in 1 .. n
    <3>1. PICK j \in DOMAIN insts : at[j] = i
      BY <1>3, <2>2
    <3>2. QED
      BY <1>4, <1>5, <1>7, <3>1
  <2>3. QED
    BY <2>1, <2>2
<1>12. \A i \in DOMAIN more : more[i] \in D!Made' /\ itemOf'[more[i]] = list[new[i]]
  BY <1>1, <1>3, <1>4, <1>5, <1>7, <1>8
<1>13. places(n + 1)' = places(n + 1)
  BY <1>2
<1>14. QED
  BY <1>9, <1>10, <1>11, <1>12, <1>13 DEF Gathered, more

(* The call at the top goes on in its list, without making an instance.    *)
LEMMA TopMoves ==
  ASSUME DecodeTypeOK, TreeRead, phase = "items",
         Handed' = Handed, UNCHANGED <<phase, itemOf, children, instances>>,
         NEW f \in Frame, f.parent = D!Top.parent, stack' = D!WithTop(f),
         NEW n \in Nat, n >= ReadBy(Len(stack)),
         n = Len(TagsOf(f.parent)) - Len(f.tags),
         \A i \in DOMAIN f.tags : f.tags[i] = TagsOf(f.parent)[n + i],
         Gathered(f.items, TagsOf(f.parent), n)
  PROVE  TreeRead' /\ \A inst : Running(inst)' <=> Running(inst)
<1> DEFINE last == Len(stack)
<1>1. /\ last \in DOMAIN stack /\ DOMAIN stack' = DOMAIN stack /\ Len(stack') = last
      /\ \A d \in DOMAIN stack : stack'[d] = IF d = last THEN f ELSE stack[d]
      /\ stack[last].parent = f.parent
  BY TopFrame, TopReplaced DEF TreeRead
<1>2. Calls /\ Gathering /\ Placed
  BY DEF TreeRead
<1>3. Grown /\ D!Made' = D!Made
  BY DEF Grown, D!Made
<1>4. \A inst \in D!Made \cup {Nil} : TagsOf(inst)' = TagsOf(inst)
  BY <1>3, ListsKept
<1>5. \A d \in DOMAIN stack : stack'[d].parent = stack[d].parent
                              /\ stack[d].parent \in D!Made \cup {Nil}
  BY <1>1, <1>2 DEF Calls
<1>6. \A d \in DOMAIN stack : ReadBy(d)' = IF d = last THEN n ELSE ReadBy(d)
  <2> SUFFICES ASSUME NEW d \in DOMAIN stack
               PROVE  ReadBy(d)' = IF d = last THEN n ELSE ReadBy(d)
    OBVIOUS
  <2>1. TagsOf(stack[d].parent)' = TagsOf(stack[d].parent)'
    OBVIOUS
  <2>2. ReadBy(d)' = Len(TagsOf(stack[d].parent)') - Len(stack'[d].tags)
    BY DEF ReadBy
  <2>3. stack'[d].parent = stack[d].parent /\ TagsOf(stack[d].parent)' = TagsOf(stack[d].parent)
    <3>1. PICK q \in D!Made \cup {Nil} : q = stack[d].parent
      BY <1>5
    <3>2. TagsOf(q)' = TagsOf(q)
      BY <1>4
    <3>3. stack'[d].parent = q
      BY <1>5, <3>1
    <3>4. QED
      BY <3>1, <3>2, <3>3 DEF TagsOf
  <2>4. QED
    BY <1>1, <2>2, <2>3 DEF ReadBy
<1>7. Calls'
  <2>1. \A d \in DOMAIN stack :
          /\ ReadBy(d)' >= 0
          /\ \A i \in DOMAIN stack'[d].tags :
               stack'[d].tags[i] = TagsOf(stack[d].parent)[ReadBy(d)' + i]
    <3> SUFFICES ASSUME NEW d \in DOMAIN stack
                 PROVE  /\ ReadBy(d)' >= 0
                        /\ \A i \in DOMAIN stack'[d].tags :
                             stack'[d].tags[i] = TagsOf(stack[d].parent)[ReadBy(d)' + i]
      OBVIOUS
    <3>1. CASE d = last
      <4>1. ReadBy(d)' = n /\ stack'[d].tags = f.tags /\ stack[d].parent = f.parent
        BY <1>1, <1>6, <3>1
      <4>2. ReadBy(d)' >= 0
        BY <4>1
      <4>3. TagsOf(f.parent) = TagsOf(stack[d].parent)
        BY <4>1
      <4>4. ASSUME NEW i \in DOMAIN stack'[d].tags
            PROVE  stack'[d].tags[i] = TagsOf(stack[d].parent)[ReadBy(d)' + i]
        <5>1. f.tags[i] = TagsOf(f.parent)[n + i]
          BY <4>1
        <5>2. QED
          BY <4>1, <4>3, <5>1
      <4>5. QED
        BY <4>2, <4>4
    <3>2. CASE d # last
      <4>1. ReadBy(d)' = ReadBy(d) /\ stack'[d].tags = stack[d].tags
        BY <1>1, <1>6, <3>2
      <4>2. QED
        BY <1>2, <4>1 DEF Calls
    <3>3. QED
      BY <3>1, <3>2
  <2>2. \A d \in DOMAIN stack : \A q : q = stack'[d].parent => TagsOf(q)' = TagsOf(stack[d].parent)
    BY <1>4, <1>5
  <2>3. \A d \in DOMAIN stack : TagsOf(stack[d].parent)' = TagsOf(stack[d].parent)
    <3> SUFFICES ASSUME NEW d \in DOMAIN stack
                 PROVE  TagsOf(stack[d].parent)' = TagsOf(stack[d].parent)
      OBVIOUS
    <3>1. PICK q : q = stack'[d].parent
      OBVIOUS
    <3>2. TagsOf(q)' = TagsOf(stack[d].parent)
      BY <2>2, <3>1
    <3>3. QED
      BY <3>1, <3>2 DEF TagsOf
  <2>4. stack' # <<>> /\ stack'[1].parent = Nil
    BY <1>1, <1>2, <1>5 DEF Calls
  <2>5. \A d, e \in DOMAIN stack' : stack'[d].parent = stack'[e].parent => d = e
    BY <1>1, <1>2, <1>5 DEF Calls
  <2>6. QED
    BY <1>1, <1>3, <1>5, <2>1, <2>3, <2>4, <2>5 DEF Calls
<1>8. \A inst : Running(inst)' <=> Running(inst)
  BY <1>1, <1>5 DEF Running
<1>9. Gathering'
  <2>1. ASSUME NEW d \in DOMAIN stack'
        PROVE  Gathered(stack[d].items, TagsOf(stack[d].parent), ReadBy(d))'
    <3>1. PICK items, list, m :
            items = stack'[d].items /\ list = TagsOf(stack[d].parent) /\ m = ReadBy(d)'
      OBVIOUS
    <3>2. Gathered(items, list, m)
      BY <1>1, <1>2, <1>6, <3>1 DEF Gathering
    <3>3. Gathered(items, list, m)'
      BY <1>3, <3>2, GatheredKept
    <3>4. TagsOf(stack[d].parent)' = list
      <4>1. PICK q \in D!Made \cup {Nil} : q = stack'[d].parent /\ q = stack[d].parent
        BY <1>1, <1>5
      <4>2. TagsOf(q)' = TagsOf(q)
        BY <1>4
      <4>3. QED
        BY <3>1, <4>1, <4>2 DEF TagsOf
    <3>5. QED
      BY <3>1, <3>3, <3>4 DEF Gathered
  <2>2. ASSUME NEW inst \in D!Made, ~Running(inst)
        PROVE  Gathered(children[inst], TagsOf(inst), Len(TagsOf(inst)))'
    <3>1. PICK items, list, m :
            items = children[inst] /\ list = TagsOf(inst) /\ m = Len(TagsOf(inst))
      OBVIOUS
    <3>2. Gathered(items, list, m)'
      BY <1>2, <1>3, <2>2, <3>1, GatheredKept DEF Gathering
    <3>3. items = children'[inst] /\ list = TagsOf(inst)' /\ m = Len(TagsOf(inst)')
      BY <1>4, <3>1
    <3>4. QED
      BY <3>2, <3>3 DEF Gathered
  <2>3. QED
    BY <1>3, <1>8, <2>1, <2>2 DEF Gathering
<1>10. Placed'
  <2>1. ASSUME NEW inst \in D!Made
        PROVE  \E parent \in D!Made \cup {Nil} : \E i \in DOMAIN TagsOf(parent)' : IsPlace(inst, parent, i)'
    <3>1. PICK parent \in D!Made \cup {Nil} : \E i \in DOMAIN TagsOf(parent) : IsPlace(inst, parent, i)
      BY <1>2 DEF Placed
    <3>2. PICK i \in DOMAIN TagsOf(parent) : IsPlace(inst, parent, i)
      BY <3>1
    <3>3. i \in Nat
      BY ListType
    <3>4. \A d \in DOMAIN stack : ReadBy(d)' >= ReadBy(d)
                                    /\ ReadBy(d) \in Int /\ ReadBy(d)' \in Int
      <4>1. \A d \in DOMAIN stack : Len(TagsOf(stack[d].parent)) \in Nat /\ Len(stack[d].tags) \in Nat
        <5>1. \A d \in DOMAIN stack : TagsOf(stack[d].parent) \in Seq(DOMAIN Handed.tags)
          BY <1>5, ListType
        <5>2. \A d \in DOMAIN stack : stack[d].tags \in Seq(Nat)
          <6>1. \A d \in DOMAIN stack : stack[d] \in Frame
            BY DEF DecodeTypeOK
          <6>2. QED
            BY <6>1 DEF Frame
        <5>3. QED
          BY <5>1, <5>2
      <4>2. \A d \in DOMAIN stack : ReadBy(d) \in Int
        BY <4>1 DEF ReadBy
      <4>3. \A d \in DOMAIN stack : (ReadBy(d)' = n /\ d = last) \/ ReadBy(d)' = ReadBy(d)
        BY <1>6
      <4>4. \A d \in DOMAIN stack : ReadBy(d)' >= ReadBy(d) /\ ReadBy(d)' \in Int
        BY ONLY <4>2, <4>3, n \in Nat, n >= ReadBy(last)
      <4>5. QED
        BY <4>2, <4>4
    <3>5. \A d \in DOMAIN stack' : stack'[d].parent = parent => i <= ReadBy(d)'
      <4> SUFFICES ASSUME NEW d \in DOMAIN stack, stack[d].parent = parent
                   PROVE  i <= ReadBy(d)'
        BY <1>1, <1>5
      <4>1. i <= ReadBy(d) /\ ReadBy(d) \in Int /\ ReadBy(d)' >= ReadBy(d)
              /\ ReadBy(d)' \in Int /\ i \in Nat
        BY <3>2, <3>3, <3>4 DEF IsPlace
      <4>2. QED
        BY <4>1
    <3>6. TagsOf(parent)' = TagsOf(parent)
      BY <1>4
    <3>7. IsPlace(inst, parent, i)'
      BY <3>2, <3>5, <3>6 DEF IsPlace
    <3>8. QED
      BY <3>6, <3>7
  <2>2. QED
    BY <1>2, <1>3, <2>1 DEF Placed
<1>11. QED
  BY <1>7, <1>8, <1>9, <1>10 DEF TreeRead

LEMMA FrameParts ==
  ASSUME NEW f \in Frame
  PROVE  /\ f.tags \in Seq(Nat) /\ f.parent \in News \cup {Nil} /\ f.pending \in Seq(PropertyTag)
         /\ f.hasProps \in BOOLEAN /\ f.properties \in [Properties -> D!Value \cup {Unset}]
         /\ f.items \in Seq(News)
         /\ f = [tags |-> f.tags, parent |-> f.parent, pending |-> f.pending,
                 hasProps |-> f.hasProps, properties |-> f.properties, items |-> f.items]
BY DEF Frame

LEMMA FrameRecord ==
  ASSUME NEW f \in Frame, NEW g \in Frame,
         f.tags = g.tags, f.parent = g.parent, f.pending = g.pending,
         f.hasProps = g.hasProps, f.properties = g.properties, f.items = g.items
  PROVE  f = g
BY FrameParts

LEMMA RestOf ==
  ASSUME NEW f \in Frame, f.tags # <<>>
  PROVE  /\ D!Rest(f) \in Frame
         /\ D!Rest(f).tags = Tail(f.tags) /\ D!Rest(f).parent = f.parent
         /\ D!Rest(f).pending = f.pending /\ D!Rest(f).hasProps = f.hasProps
         /\ D!Rest(f).properties = f.properties /\ D!Rest(f).items = f.items
<1>1. Tail(f.tags) \in Seq(Nat)
  BY FrameParts
<1>2. QED
  BY <1>1 DEF Frame, D!Rest

LEMMA WithItems ==
  ASSUME NEW f \in Frame, NEW items \in Seq(News)
  PROVE  LET g == [f EXCEPT !.items = items] IN
         /\ g \in Frame /\ g.items = items
         /\ g.tags = f.tags /\ g.parent = f.parent /\ g.pending = f.pending
         /\ g.hasProps = f.hasProps /\ g.properties = f.properties
BY DEF Frame

(* What DecodeItem does.                                                   *)
LEMMA ItemFacts ==
  ASSUME DecodeTypeOK, Calls, D!DecodeItem, Handed' = Handed, NEW inst, inst = Len(itemOf) + 1
  PROVE  LET f == [tags |-> Tail(D!Top.tags), parent |-> D!Top.parent, pending |-> D!Top.pending,
                   hasProps |-> D!Top.hasProps, properties |-> D!Top.properties,
                   items |-> Append(D!Top.items, inst)]
             g == D!FrameFor(D!NextTag.tags, inst) IN
         /\ phase = "items" /\ D!Top.tags # <<>> /\ D!Top.pending = <<>>
         /\ inst \in News /\ inst \notin D!Made
         /\ D!IsInstance(Head(D!Top.tags))
         /\ itemOf' = Append(itemOf, Head(D!Top.tags)) /\ Grown
         /\ itemOf' \in Seq(DOMAIN Handed.tags) /\ Len(itemOf') = inst
         /\ D!Made' = D!Made \cup {inst} /\ itemOf'[inst] = Head(D!Top.tags)
         /\ TagsOf(inst)' = D!NextTag.tags /\ D!NextTag.tags \in Seq(Nat)
         /\ f \in Frame /\ g \in Frame
         /\ stack' = Append(D!WithTop(f), g)
<1> DEFINE f == [tags |-> Tail(D!Top.tags), parent |-> D!Top.parent, pending |-> D!Top.pending,
                 hasProps |-> D!Top.hasProps, properties |-> D!Top.properties,
                 items |-> Append(D!Top.items, inst)]
           g == D!FrameFor(D!NextTag.tags, inst)
<1>1. /\ phase = "items" /\ D!Top.tags # <<>> /\ D!Top.pending = <<>>
      /\ D!NextTag.start = "Item" /\ D!NextTag.class # NoAttr
      /\ inst \in News
      /\ itemOf' = Append(itemOf, Head(D!Top.tags))
      /\ stack' = Append(D!WithTop([D!Rest(D!Top) EXCEPT !.items = Append(@, inst)]), g)
  BY DEF D!DecodeItem, D!NextIs, D!NextTag, News, D!Collected
<1>2. itemOf \in Seq(DOMAIN Handed.tags) /\ D!Made = 1 .. Len(itemOf) /\ Len(itemOf) \in Nat
  BY MadeType DEF DecodeTypeOK
<1>3. /\ Head(D!Top.tags) \in DOMAIN Handed.tags
      /\ D!NextTag = Handed.tags[Head(D!Top.tags)]
      /\ Tail(D!Top.tags) \in Seq(Nat)
  BY <1>1, NextTag
<1>4. D!IsInstance(Head(D!Top.tags))
  BY <1>1, <1>3 DEF D!IsInstance
<1>5. /\ itemOf' \in Seq(DOMAIN Handed.tags) /\ Len(itemOf') = inst
      /\ DOMAIN itemOf' = 1 .. Len(itemOf) + 1
      /\ \A i \in 1 .. Len(itemOf) : itemOf'[i] = itemOf[i]
      /\ itemOf'[inst] = Head(D!Top.tags)
  <2>1. PICK tag \in DOMAIN Handed.tags : tag = Head(D!Top.tags)
    BY <1>3
  <2>2. QED
    <3>1. itemOf' = Append(itemOf, tag)
      BY <1>1, <2>1
    <3>2. itemOf' \in Seq(DOMAIN Handed.tags)
      BY <1>2, <3>1, AppendType
    <3>3. QED
      BY ONLY <1>2, <2>1, <3>1, <3>2, Appended, inst = Len(itemOf) + 1
<1>6. D!Made' = D!Made \cup {inst} /\ Grown /\ inst \notin D!Made
  <2>1. D!Made' = 1 .. Len(itemOf) + 1
    BY <1>5 DEF D!Made
  <2>2. QED
    BY <1>2, <1>5, <2>1 DEF Grown
<1>7. /\ D!NextTag.tags \in Seq(DOMAIN Handed.tags)
      /\ D!NextTag.tags \in Seq(Nat)
  <2>1. D!NextTag.tags \in Seq(DOMAIN Handed.tags)
    BY <1>1, <1>3, ItemLists DEF DecodeTypeOK
  <2>2. DOMAIN Handed.tags \subseteq Nat
    BY DocumentParts DEF DecodeTypeOK
  <2>3. QED
    BY <2>1, <2>2
<1>8. TagsOf(inst)' = D!NextTag.tags
  BY <1>1, <1>3, <1>5, NewsAreNot DEF TagsOf
<1>9. D!Top \in Frame
  BY <1>1, TopFrame
<1>10. Append(D!Top.items, inst) \in Seq(News)
  BY <1>1, <1>9, FrameParts
<1>11. f \in Frame
  BY <1>3, <1>9, <1>10, FrameParts DEF Frame
<1>12. [D!Rest(D!Top) EXCEPT !.items = Append(@, inst)] = f
  <2>1. PICK r \in Frame : r = D!Rest(D!Top)
    BY <1>1, <1>9, RestOf
  <2>2. r.items = D!Top.items /\ r.tags = Tail(D!Top.tags) /\ r.parent = D!Top.parent
        /\ r.pending = D!Top.pending /\ r.hasProps = D!Top.hasProps
        /\ r.properties = D!Top.properties
    BY <1>1, <1>9, <2>1, RestOf
  <2>3. [r EXCEPT !.items = Append(@, inst)] = [r EXCEPT !.items = Append(D!Top.items, inst)]
    BY <2>2
  <2> DEFINE g1 == [r EXCEPT !.items = Append(D!Top.items, inst)]
  <2>4. /\ g1 \in Frame /\ g1.items = Append(D!Top.items, inst)
        /\ g1.tags = r.tags /\ g1.parent = r.parent /\ g1.pending = r.pending
        /\ g1.hasProps = r.hasProps /\ g1.properties = r.properties
    BY <1>10, WithItems
  <2> HIDE DEF g1
  <2>5. g1 = f
    BY <1>11, <2>2, <2>4, FrameRecord
  <2>6. QED
    BY <2>1, <2>3, <2>5 DEF g1
<1>13. g \in Frame
  <2>1. D!NoProperties \in [Properties -> D!Value \cup {Unset}]
    BY DEF D!NoProperties
  <2>2. g = [tags |-> D!NextTag.tags, parent |-> inst, pending |-> <<>>, hasProps |-> FALSE,
             properties |-> D!NoProperties, items |-> <<>>]
    BY DEF D!FrameFor
  <2> HIDE DEF g
  <2>3. <<>> \in Seq(PropertyTag) /\ <<>> \in Seq(News)
    OBVIOUS
  <2>4. QED
    BY <1>1, <1>7, <2>1, <2>2, <2>3 DEF Frame
<1>14. QED
  BY <1>1, <1>4, <1>5, <1>6, <1>7, <1>8, <1>11, <1>12, <1>13

LEMMA ReadsType ==
  ASSUME DecodeTypeOK, Calls
  PROVE  \A d \in DOMAIN stack :
           /\ TagsOf(stack[d].parent) \in Seq(DOMAIN Handed.tags) /\ stack[d].tags \in Seq(Nat)
           /\ stack[d] \in Frame /\ d \in Nat /\ ReadBy(d) \in Nat
<1> SUFFICES ASSUME NEW d \in DOMAIN stack
             PROVE  /\ TagsOf(stack[d].parent) \in Seq(DOMAIN Handed.tags)
                    /\ stack[d].tags \in Seq(Nat)
                    /\ stack[d] \in Frame /\ d \in Nat /\ ReadBy(d) \in Nat
  OBVIOUS
<1>1. stack[d] \in Frame /\ d \in Nat
  BY DEF DecodeTypeOK
<1>2. stack[d].tags \in Seq(Nat) /\ stack[d].parent \in D!Made \cup {Nil} /\ ReadBy(d) >= 0
  BY <1>1 DEF Frame, Calls
<1>3. TagsOf(stack[d].parent) \in Seq(DOMAIN Handed.tags)
  BY <1>2, ListType
<1>4. ReadBy(d) \in Int
  BY <1>2, <1>3 DEF ReadBy
<1>5. QED
  BY <1>1, <1>2, <1>3, <1>4

(* The stack of DecodeItem.                                                *)
LEMMA ItemCalls ==
  ASSUME DecodeTypeOK, Calls, D!DecodeItem, Handed' = Handed, NEW inst, inst = Len(itemOf) + 1,
         NEW last, last = Len(stack)
  PROVE  /\ DOMAIN stack' = DOMAIN stack \cup {last + 1} /\ last \in DOMAIN stack
         /\ last + 1 \notin DOMAIN stack
         /\ \A d \in DOMAIN stack : d # last => stack'[d] = stack[d]
         /\ \A d \in DOMAIN stack : stack'[d].parent = stack[d].parent
         /\ stack'[last].tags = Tail(D!Top.tags)
         /\ stack'[last].items = Append(D!Top.items, inst)
         /\ stack'[last + 1].tags = TagsOf(inst)'
         /\ stack'[last + 1].parent = inst /\ stack'[last + 1].items = <<>>
         /\ \A d \in DOMAIN stack :
              /\ stack'[d].pending = stack[d].pending /\ stack'[d].hasProps = stack[d].hasProps
              /\ stack'[d].properties = stack[d].properties
         /\ stack'[last + 1].pending = <<>> /\ stack'[last + 1].hasProps = FALSE
         /\ stack'[last + 1].properties = D!NoProperties
         /\ \A d \in DOMAIN stack : ReadBy(d)' = IF d = last THEN ReadBy(last) + 1 ELSE ReadBy(d)
         /\ ReadBy(last + 1)' = 0
<1> DEFINE f == [tags |-> Tail(D!Top.tags), parent |-> D!Top.parent, pending |-> D!Top.pending,
                 hasProps |-> D!Top.hasProps, properties |-> D!Top.properties,
                 items |-> Append(D!Top.items, inst)]
           g == D!FrameFor(D!NextTag.tags, inst)
<1>1. /\ phase = "items" /\ D!Top.tags # <<>> /\ Grown
      /\ TagsOf(inst)' = D!NextTag.tags /\ D!NextTag.tags \in Seq(Nat)
      /\ f \in Frame /\ g \in Frame /\ stack' = Append(D!WithTop(f), g)
  BY ItemFacts
<1>2. /\ last \in DOMAIN stack /\ DOMAIN stack = 1 .. last /\ last \in Nat
      /\ D!Top = stack[last]
  BY <1>1, TopFrame
<1>3. /\ D!WithTop(f) \in Seq(Frame) /\ Len(D!WithTop(f)) = last
      /\ \A d \in DOMAIN stack : D!WithTop(f)[d] = IF d = last THEN f ELSE stack[d]
  BY <1>1, TopReplaced
<1>4. /\ f.tags = Tail(D!Top.tags) /\ f.parent = D!Top.parent
      /\ f.items = Append(D!Top.items, inst)
      /\ f.pending = D!Top.pending /\ f.hasProps = D!Top.hasProps
      /\ f.properties = D!Top.properties
  OBVIOUS
<1>5. /\ g.tags = D!NextTag.tags /\ g.parent = inst /\ g.items = <<>>
      /\ g.pending = <<>> /\ g.hasProps = FALSE /\ g.properties = D!NoProperties
  BY DEF D!FrameFor
<1> HIDE DEF f, g
<1>6. /\ DOMAIN stack' = 1 .. last + 1 /\ stack'[last + 1] = g
      /\ \A d \in 1 .. last : stack'[d] = D!WithTop(f)[d]
  BY <1>1, <1>3, Appended
<1>7. \A d \in DOMAIN stack : stack'[d] = IF d = last THEN f ELSE stack[d]
  BY <1>2, <1>3, <1>6
<1>8. \A d \in DOMAIN stack : stack'[d].parent = stack[d].parent
  BY <1>2, <1>4, <1>7
<1>9. \A d \in DOMAIN stack : \A q : q = stack'[d].parent => TagsOf(q)' = TagsOf(q)
  BY <1>1, <1>8, ListsKept DEF Calls
<1>10. \A d \in DOMAIN stack : ReadBy(d)' = Len(TagsOf(stack[d].parent)) - Len(stack'[d].tags)
  <2> SUFFICES ASSUME NEW d \in DOMAIN stack
               PROVE  ReadBy(d)' = Len(TagsOf(stack[d].parent)) - Len(stack'[d].tags)
    OBVIOUS
  <2>1. PICK q : q = stack'[d].parent
    OBVIOUS
  <2>2. TagsOf(q)' = TagsOf(q) /\ q = stack[d].parent
    BY <1>8, <1>9, <2>1
  <2>3. ReadBy(d)' = Len(TagsOf(q)') - Len(stack'[d].tags)
    BY <2>1 DEF ReadBy, TagsOf
  <2>4. QED
    BY <2>2, <2>3
<1>11. \A d \in DOMAIN stack : ReadBy(d)' = IF d = last THEN ReadBy(last) + 1 ELSE ReadBy(d)
  <2> SUFFICES ASSUME NEW d \in DOMAIN stack
               PROVE  ReadBy(d)' = IF d = last THEN ReadBy(last) + 1 ELSE ReadBy(d)
    OBVIOUS
  <2>1. CASE d = last
    <3>1. Len(TagsOf(D!Top.parent)) - Len(Tail(D!Top.tags)) = ReadBy(last) + 1
      BY <1>1, NextTag
    <3>2. QED
      BY <1>2, <1>4, <1>7, <1>10, <2>1, <3>1
  <2>2. CASE d # last
    BY <1>7, <1>10, <2>2 DEF ReadBy
  <2>3. QED
    BY <2>1, <2>2
<1>12. ReadBy(last + 1)' = 0
  <2>1. PICK d : d = last + 1
    OBVIOUS
  <2>2. stack'[d].parent = inst /\ stack'[d].tags = TagsOf(inst)'
    BY <1>1, <1>5, <1>6, <2>1
  <2>3. ReadBy(d)' = Len(TagsOf(inst)') - Len(TagsOf(inst)')
    BY <2>2 DEF ReadBy, TagsOf
  <2>4. Len(TagsOf(inst)') \in Nat
    BY <1>1
  <2>5. ReadBy(d)' = 0
    BY <2>3, <2>4
  <2>6. QED
    BY <2>1, <2>5
<1>13. QED
  BY <1>1, <1>2, <1>4, <1>5, <1>6, <1>7, <1>8, <1>11, <1>12

(* An Item of a class is read: one more is made, and its list begins.      *)
LEMMA ItemTree ==
  ASSUME DecodeTypeOK, TreeRead, D!DecodeItem, Handed' = Handed,
         NEW inst, inst = Len(itemOf) + 1, NEW last, last = Len(stack)
  PROVE  TreeRead'
<1>1. inst = Len(itemOf) + 1 /\ last = Len(stack)
  OBVIOUS
<1>2. Calls /\ Gathering /\ Placed
  BY DEF TreeRead
<1>3. /\ DOMAIN stack' = DOMAIN stack \cup {last + 1} /\ last \in DOMAIN stack
      /\ last + 1 \notin DOMAIN stack
      /\ \A d \in DOMAIN stack : d # last => stack'[d] = stack[d]
      /\ \A d \in DOMAIN stack : stack'[d].parent = stack[d].parent
      /\ stack'[last].tags = Tail(D!Top.tags)
      /\ stack'[last].items = Append(D!Top.items, inst)
      /\ stack'[last + 1].tags = TagsOf(inst)'
      /\ stack'[last + 1].parent = inst /\ stack'[last + 1].items = <<>>
      /\ \A d \in DOMAIN stack :
           /\ stack'[d].pending = stack[d].pending /\ stack'[d].hasProps = stack[d].hasProps
           /\ stack'[d].properties = stack[d].properties
      /\ stack'[last + 1].pending = <<>> /\ stack'[last + 1].hasProps = FALSE
      /\ stack'[last + 1].properties = D!NoProperties
      /\ \A d \in DOMAIN stack : ReadBy(d)' = IF d = last THEN ReadBy(last) + 1 ELSE ReadBy(d)
      /\ ReadBy(last + 1)' = 0
  BY <1>1, <1>2, ItemCalls
<1>4. /\ phase = "items" /\ D!Top.tags # <<>> /\ Grown
      /\ inst \in News /\ inst \notin D!Made
      /\ D!IsInstance(Head(D!Top.tags))
      /\ D!Made' = D!Made \cup {inst} /\ itemOf'[inst] = Head(D!Top.tags)
      /\ TagsOf(inst)' = D!NextTag.tags /\ D!NextTag.tags \in Seq(Nat)
  BY <1>1, <1>2, ItemFacts
<1>5. phase' = phase /\ children' = children /\ instances' = instances
  BY DEF D!DecodeItem
<1> DEFINE list == TagsOf(D!Top.parent)
           n == ReadBy(last) + 1
<1>6. /\ n \in DOMAIN list /\ n \in Nat /\ n - 1 \in Nat /\ Head(D!Top.tags) = list[n]
      /\ \A i \in DOMAIN Tail(D!Top.tags) : Tail(D!Top.tags)[i] = list[n + i]
  BY <1>1, <1>2, <1>4, NextTag
<1>7. /\ D!Top = stack[last] /\ D!Top.parent \in D!Made \cup {Nil} /\ D!Top \in Frame
      /\ D!Top.items \in Seq(News)
  BY <1>1, <1>2, <1>4, TopFrame, FrameParts
<1>8. \A d \in DOMAIN stack : /\ stack[d].parent \in D!Made \cup {Nil}
                              /\ stack[d].parent # inst
                              /\ \A q : q = stack[d].parent => TagsOf(q)' = TagsOf(q)
  BY <1>2, <1>4, ListsKept, NewsAreNot DEF Calls
<1>9. Calls'
  <2>1. stack' # <<>> /\ stack'[1].parent = Nil
    <3>1. stack # <<>> /\ stack[1].parent = Nil /\ 1 \in DOMAIN stack
      BY <1>2, <1>4, TopFrame DEF Calls
    <3>2. stack'[1].parent = Nil /\ 1 \in DOMAIN stack'
      BY <1>3, <3>1
    <3>3. QED
      BY <3>2
  <2>2. ASSUME NEW d \in DOMAIN stack'
        PROVE  /\ stack'[d].parent \in D!Made' \cup {Nil}
               /\ ReadBy(d)' >= 0
               /\ \A i \in DOMAIN stack'[d].tags :
                    stack'[d].tags[i] = TagsOf(stack[d].parent)'[ReadBy(d)' + i]
    <3>1. CASE d \in DOMAIN stack /\ d # last
      <4>1. PICK q : q = stack[d].parent
        OBVIOUS
      <4>2. /\ TagsOf(q)' = TagsOf(q) /\ stack'[d] = stack[d] /\ ReadBy(d)' = ReadBy(d)
            /\ q \in D!Made \cup {Nil}
        BY <1>3, <1>8, <3>1, <4>1
      <4>3. TagsOf(stack[d].parent)' = TagsOf(stack[d].parent)
        BY <4>1, <4>2 DEF TagsOf
      <4>4. QED
        BY <1>2, <1>4, <3>1, <4>1, <4>2, <4>3 DEF Calls
    <3>2. CASE d = last
      <4>1. PICK q : q = stack[d].parent
        OBVIOUS
      <4>2. /\ TagsOf(q)' = TagsOf(q) /\ stack'[d].parent = q /\ ReadBy(d)' = n
            /\ q \in D!Made \cup {Nil} /\ TagsOf(q) = list
            /\ stack'[d].tags = Tail(D!Top.tags)
        BY <1>3, <1>7, <1>8, <3>2, <4>1
      <4>3. TagsOf(stack[d].parent)' = list
        BY <4>1, <4>2 DEF TagsOf
      <4> HIDE DEF n, list
      <4>4. ReadBy(d)' >= 0
        BY <1>6, <4>2
      <4>5. QED
        BY <1>4, <1>6, <4>2, <4>3, <4>4
    <3>3. CASE d = last + 1
      <4>1. /\ stack'[d].parent = inst /\ ReadBy(d)' = 0 /\ stack'[d].tags = TagsOf(inst)'
        BY <1>3, <3>3
      <4>2. TagsOf(stack[d].parent)' = TagsOf(inst)' /\ TagsOf(inst)' \in Seq(Nat)
        BY <1>4, <4>1 DEF TagsOf
      <4>3. \A i \in DOMAIN stack'[d].tags : 0 + i = i
        BY <4>1, <4>2
      <4>4. QED
        BY <1>4, <4>1, <4>2, <4>3
    <3>4. QED
      BY <1>3, <3>1, <3>2, <3>3
  <2>3. \A d, e \in DOMAIN stack' : stack'[d].parent = stack'[e].parent => d = e
    <3>1. \A d, e \in DOMAIN stack : stack[d].parent = stack[e].parent => d = e
      BY <1>2 DEF Calls
    <3>2. QED
      BY <1>3, <1>8, <3>1
  <2>4. QED
    BY <1>4, <1>5, <2>1, <2>2, <2>3 DEF Calls
<1>10. \A q \in D!Made : ~Running(q)' => ~Running(q)
  BY <1>3 DEF Running
<1>11. Running(inst)'
  BY <1>3 DEF Running
<1>12. Gathering'
  <2>1. ASSUME NEW d \in DOMAIN stack'
        PROVE  Gathered(stack[d].items, TagsOf(stack[d].parent), ReadBy(d))'
    <3>1. CASE d \in DOMAIN stack
      <4>1. PICK q, items, ts, m :
              q = stack[d].parent /\ items = stack[d].items /\ ts = TagsOf(q) /\ m = ReadBy(d)
        OBVIOUS
      <4>2. TagsOf(stack[d].parent)' = ts
        <5>1. TagsOf(q)' = ts /\ stack'[d].parent = q
          BY <1>3, <1>8, <3>1, <4>1
        <5>2. QED
          BY <5>1 DEF TagsOf
      <4>3. Gathered(items, ts, m)
        BY <1>2, <3>1, <4>1 DEF Gathering
      <4>4. CASE d # last
        <5>1. Gathered(items, ts, m)'
          BY <1>4, <4>3, GatheredKept
        <5>2. stack'[d].items = items /\ ReadBy(d)' = m
          BY <1>3, <3>1, <4>1, <4>4
        <5>3. QED
          BY <4>2, <5>1, <5>2 DEF Gathered
      <4>5. CASE d = last
        <5>1. ts = list /\ m \in Nat /\ n = m + 1 /\ items = D!Top.items /\ items \in Seq(News)
          BY <1>2, <1>3, <1>7, <4>1, <4>5, ReadsType
        <5>2. D!IsInstance(ts[m + 1]) /\ itemOf'[inst] = ts[m + 1]
          BY <1>4, <1>6, <5>1
        <5>3. Gathered(Append(items, inst), ts, m + 1)'
          BY <1>4, <4>3, <5>1, <5>2, GatherOne
        <5>4. stack'[d].items = Append(items, inst) /\ ReadBy(d)' = m + 1
          BY <1>3, <4>1, <4>5, <5>1
        <5>5. QED
          BY <4>2, <5>3, <5>4 DEF Gathered
      <4>6. QED
        BY <4>4, <4>5
    <3>2. CASE d = last + 1
      <4>1. stack'[d].items = <<>> /\ ReadBy(d)' = 0
        BY <1>3, <3>2
      <4>2. ASSUME NEW ts PROVE Gathered(<<>>, ts, 0)'
        <5>1. 1 .. 0 = {} /\ DOMAIN <<>> = {}
          OBVIOUS
        <5>2. PICK at : at = [i \in {} |-> 0]
          OBVIOUS
        <5>3. at \in [DOMAIN <<>> -> {i \in 1 .. 0 : D!IsInstance(ts[i])'}]
          BY <5>1, <5>2
        <5>4. QED
          BY <5>1, <5>3 DEF Gathered
      <4>3. QED
        BY <4>1, <4>2 DEF Gathered
    <3>3. QED
      BY <1>3, <3>1, <3>2
  <2>2. ASSUME NEW q \in D!Made', ~Running(q)'
        PROVE  Gathered(children[q], TagsOf(q), Len(TagsOf(q)))'
    <3>1. q \in D!Made /\ ~Running(q)
      BY <1>4, <1>10, <1>11, <2>2
    <3>2. PICK items, ts, m : items = children[q] /\ ts = TagsOf(q) /\ m = Len(TagsOf(q))
      OBVIOUS
    <3>3. Gathered(items, ts, m)'
      BY <1>2, <1>4, <3>1, <3>2, GatheredKept DEF Gathering
    <3>4. items = children'[q] /\ ts = TagsOf(q)' /\ m = Len(TagsOf(q)')
      BY <1>4, <1>5, <3>1, <3>2, ListsKept
    <3>5. QED
      BY <3>3, <3>4 DEF Gathered
  <2>3. QED
    BY <1>4, <1>5, <2>1, <2>2 DEF Gathering
<1>13. \A parent \in D!Made \cup {Nil}, i \in Nat :
         (\A d \in DOMAIN stack : stack[d].parent = parent => i <= ReadBy(d))
         => \A d \in DOMAIN stack' : stack'[d].parent = parent => i <= ReadBy(d)'
  <2> SUFFICES ASSUME NEW parent \in D!Made \cup {Nil}, NEW i \in Nat,
                      \A d \in DOMAIN stack : stack[d].parent = parent => i <= ReadBy(d),
                      NEW d \in DOMAIN stack', stack'[d].parent = parent
               PROVE  i <= ReadBy(d)'
    OBVIOUS
  <2>1. d \in DOMAIN stack
    BY <1>3, <1>4, NewsAreNot
  <2>2. i <= ReadBy(d) /\ ReadBy(d) \in Nat
    BY <1>2, <1>3, <2>1, ReadsType
  <2>3. ReadBy(d)' = ReadBy(d) \/ ReadBy(d)' = ReadBy(d) + 1
    BY <1>3, <2>1
  <2>4. QED
    BY <2>2, <2>3
<1>14. \A q \in D!Made : \E parent \in D!Made' \cup {Nil} :
         \E i \in DOMAIN TagsOf(parent)' : IsPlace(q, parent, i)'
  <2> SUFFICES ASSUME NEW q \in D!Made
               PROVE  \E parent \in D!Made' \cup {Nil} :
                        \E i \in DOMAIN TagsOf(parent)' : IsPlace(q, parent, i)'
    OBVIOUS
  <2>1. PICK parent \in D!Made \cup {Nil} : \E i \in DOMAIN TagsOf(parent) : IsPlace(q, parent, i)
    BY <1>2 DEF Placed
  <2>2. PICK i \in DOMAIN TagsOf(parent) : IsPlace(q, parent, i)
    BY <2>1
  <2>3. i \in Nat /\ TagsOf(parent)' = TagsOf(parent) /\ itemOf'[q] = itemOf[q]
    BY <1>4, ListType, ListsKept DEF Grown
  <2>4. IsPlace(q, parent, i)'
    BY <1>13, <2>2, <2>3 DEF IsPlace
  <2>5. QED
    BY <1>4, <2>3, <2>4
<1>15. \E parent \in D!Made' \cup {Nil} : \E i \in DOMAIN TagsOf(parent)' : IsPlace(inst, parent, i)'
  <2>1. PICK q \in D!Made \cup {Nil} : q = D!Top.parent
    BY <1>7
  <2>2. TagsOf(q)' = list /\ n \in DOMAIN list
    BY <1>4, <1>6, <2>1, ListsKept
  <2>3. \A d \in DOMAIN stack' : stack'[d].parent = q => n <= ReadBy(d)'
    <3> SUFFICES ASSUME NEW d \in DOMAIN stack', stack'[d].parent = q PROVE n <= ReadBy(d)'
      OBVIOUS
    <3>1. d \in DOMAIN stack /\ stack[d].parent = stack[last].parent
      BY <1>3, <1>4, <1>7, <2>1, NewsAreNot
    <3>2. d = last
      BY <1>2, <1>3, <3>1 DEF Calls
    <3>3. QED
      BY <1>3, <1>6, <3>2
  <2>4. PICK m : m = n
    OBVIOUS
  <2>5. itemOf'[inst] = TagsOf(q)'[m]
    BY <1>4, <1>6, <2>2, <2>4
  <2>6. IsPlace(inst, q, m)'
    BY <2>3, <2>4, <2>5 DEF IsPlace
  <2>7. m \in DOMAIN TagsOf(q)' /\ q \in D!Made' \cup {Nil}
    BY <1>4, <2>2, <2>4
  <2>8. QED
    BY <2>6, <2>7
<1>16. \A other \in D!Made : itemOf[other] # list[n]
  <2> SUFFICES ASSUME NEW other \in D!Made, itemOf[other] = list[n] PROVE FALSE
    OBVIOUS
  <2>1. PICK parent \in D!Made \cup {Nil} : \E i \in DOMAIN TagsOf(parent) : IsPlace(other, parent, i)
    BY <1>2 DEF Placed
  <2>2. PICK i \in DOMAIN TagsOf(parent) : IsPlace(other, parent, i)
    BY <2>1
  <2>3. TagsOf(parent)[i] = list[n] /\ D!IsInstance(TagsOf(parent)[i])
    BY <1>4, <1>6, <2>2 DEF IsPlace
  <2>4. parent = D!Top.parent /\ i = n
    BY <1>2, <1>6, <1>7, <2>3, OnePlace
  <2>5. n <= ReadBy(last)
    BY <1>3, <1>7, <2>2, <2>4 DEF IsPlace
  <2>6. ReadBy(last) \in Nat
    BY <1>2, <1>3, ReadsType
  <2>7. QED
    BY <2>5, <2>6
<1>17. \A q, other \in D!Made' : itemOf'[q] = itemOf'[other] => q = other
  <2>1. \A q, other \in D!Made : itemOf'[q] = itemOf'[other] => q = other
    BY <1>2, <1>4 DEF Placed, Grown
  <2>2. \A other \in D!Made : itemOf'[other] # itemOf'[inst]
    BY <1>4, <1>6, <1>16 DEF Grown
  <2>3. QED
    BY <1>4, <2>1, <2>2
<1>18. Placed'
  <2>1. \A q \in D!Made' : q \in D!Made \/ q = inst
    BY <1>4
  <2>2. QED
    BY <1>14, <1>15, <1>17, <2>1 DEF Placed
<1>19. QED
  BY <1>9, <1>12, <1>18 DEF TreeRead

(* The stack of Return.                                                    *)
LEMMA ReturnCalls ==
  ASSUME DecodeTypeOK, Calls, D!Return, Handed' = Handed, NEW last, last = Len(stack)
  PROVE  /\ phase = "items" /\ D!Top = stack[last] /\ D!Top \in Frame /\ last \in DOMAIN stack
         /\ D!Top.parent \in D!Made \cup {Nil}
         /\ D!Top.pending = <<>> /\ D!Top.tags = <<>>
         /\ ReadBy(last) = Len(TagsOf(D!Top.parent))
         /\ DOMAIN stack' = DOMAIN stack \ {last} /\ stack' \in Seq(Frame)
         /\ \A d \in DOMAIN stack' : stack'[d] = stack[d]
         /\ Grown /\ D!Made' = D!Made /\ itemOf' = itemOf
         /\ \A inst : TagsOf(inst)' = TagsOf(inst)
         /\ \A d \in DOMAIN stack' : ReadBy(d)' = ReadBy(d)
         /\ \A inst : Running(inst)' <=> (Running(inst) /\ inst # D!Top.parent)
         /\ D!Top.parent = Nil =>
              /\ stack' = <<>> /\ instances' = D!Top.items /\ phase' = "top"
              /\ newProperties' = newProperties /\ children' = children
         /\ D!Top.parent # Nil =>
              /\ newProperties' = [newProperties EXCEPT ![D!Top.parent] = D!Top.properties]
              /\ children' = [children EXCEPT ![D!Top.parent] = D!Top.items]
              /\ instances' = instances /\ phase' = phase
              /\ 1 \in DOMAIN stack'
<1>1. /\ phase = "items" /\ D!Top.pending = <<>> /\ D!Top.tags = <<>>
      /\ stack' = SubSeq(stack, 1, Len(stack) - 1) /\ itemOf' = itemOf
      /\ D!Top.parent = Nil =>
           /\ instances' = D!Top.items /\ phase' = "top"
           /\ newProperties' = newProperties /\ children' = children
      /\ D!Top.parent # Nil =>
           /\ newProperties' = [newProperties EXCEPT ![D!Top.parent] = D!Top.properties]
           /\ children' = [children EXCEPT ![D!Top.parent] = D!Top.items]
           /\ instances' = instances /\ phase' = phase
  BY DEF D!Return
<1>2. /\ last \in Nat /\ last >= 1 /\ DOMAIN stack = 1 .. last /\ D!Top = stack[last]
      /\ D!Top \in Frame /\ D!Top.parent \in D!Made \cup {Nil} /\ last \in DOMAIN stack
  BY <1>1, TopFrame
<1>3. /\ stack' \in Seq(Frame) /\ Len(stack') = last - 1 /\ DOMAIN stack' = 1 .. last - 1
      /\ \A d \in 1 .. last - 1 : stack'[d] = stack[d]
  <2>1. stack \in Seq(Frame)
    BY DEF DecodeTypeOK
  <2>2. QED
    BY <1>1, <1>2, <2>1
<1>4. DOMAIN stack' = DOMAIN stack \ {last} /\ \A d \in DOMAIN stack' : stack'[d] = stack[d]
  BY <1>2, <1>3
<1>5. Grown /\ D!Made' = D!Made /\ \A inst : TagsOf(inst)' = TagsOf(inst)
  BY <1>1 DEF Grown, D!Made, TagsOf
<1>6. \A d \in DOMAIN stack' : ReadBy(d)' = ReadBy(d)
  BY <1>1, <1>4 DEF ReadBy, TagsOf
<1>7. ReadBy(last) = Len(TagsOf(D!Top.parent))
  <2>1. Len(D!Top.tags) = 0
    BY <1>1
  <2>2. Len(TagsOf(D!Top.parent)) \in Nat
    BY <1>2, ListType
  <2>3. QED
    BY <1>2, <2>1, <2>2 DEF ReadBy
<1>8. \A d, e \in DOMAIN stack : stack[d].parent = stack[e].parent => d = e
  BY DEF Calls
<1>9. \A inst : Running(inst)' <=> (Running(inst) /\ inst # D!Top.parent)
  BY <1>2, <1>4, <1>8 DEF Running
<1>10. stack[1].parent = Nil /\ 1 \in DOMAIN stack
  BY <1>1, <1>2 DEF Calls
<1>11. D!Top.parent = Nil => stack' = <<>>
  <2> SUFFICES ASSUME D!Top.parent = Nil PROVE stack' = <<>>
    OBVIOUS
  <2>1. last = 1
    BY <1>2, <1>8, <1>10
  <2>2. Len(stack') = 0
    BY <1>3, <2>1
  <2>3. QED
    BY <1>3, <2>2
<1>12. D!Top.parent # Nil => 1 \in DOMAIN stack'
  BY <1>2, <1>4, <1>10
<1>13. QED
  BY <1>1, <1>2, <1>3, <1>4, <1>5, <1>6, <1>7, <1>9, <1>11, <1>12

(* A call returns: its list is read to the end.                            *)
LEMMA ReturnTree ==
  ASSUME DecodeTypeOK, TreeRead, D!Return, Handed' = Handed, NEW last, last = Len(stack)
  PROVE  TreeRead'
<1>1. Calls /\ Gathering /\ Placed
  BY DEF TreeRead
<1>2. /\ phase = "items" /\ D!Top = stack[last] /\ last \in DOMAIN stack
      /\ D!Top.parent \in D!Made \cup {Nil}
      /\ ReadBy(last) = Len(TagsOf(D!Top.parent))
      /\ DOMAIN stack' = DOMAIN stack \ {last} /\ stack' \in Seq(Frame)
      /\ \A d \in DOMAIN stack' : stack'[d] = stack[d]
      /\ Grown /\ D!Made' = D!Made /\ itemOf' = itemOf
      /\ \A inst : TagsOf(inst)' = TagsOf(inst)
      /\ \A d \in DOMAIN stack' : ReadBy(d)' = ReadBy(d)
      /\ \A inst : Running(inst)' <=> (Running(inst) /\ inst # D!Top.parent)
      /\ D!Top.parent = Nil => /\ stack' = <<>> /\ instances' = D!Top.items /\ phase' = "top"
                               /\ children' = children
      /\ D!Top.parent # Nil => /\ children' = [children EXCEPT ![D!Top.parent] = D!Top.items]
                               /\ instances' = instances /\ phase' = phase
                               /\ 1 \in DOMAIN stack'
  BY <1>1, ReturnCalls
<1>3. Calls'
  <2>1. phase' = "items" => stack' # <<>> /\ stack'[1].parent = Nil
    <3> SUFFICES ASSUME phase' = "items" PROVE stack' # <<>> /\ stack'[1].parent = Nil
      OBVIOUS
    <3>1. 1 \in DOMAIN stack' /\ stack'[1] = stack[1]
      BY <1>2
    <3>2. stack[1].parent = Nil
      BY <1>1, <1>2 DEF Calls
    <3>3. QED
      BY <3>1, <3>2
  <2>2. phase' # "items" => stack' = <<>>
    BY <1>2
  <2>3. ASSUME NEW d \in DOMAIN stack'
        PROVE  /\ stack'[d].parent \in D!Made' \cup {Nil}
               /\ ReadBy(d)' >= 0
               /\ \A i \in DOMAIN stack'[d].tags :
                    stack'[d].tags[i] = TagsOf(stack[d].parent)'[ReadBy(d)' + i]
    <3>1. stack'[d] = stack[d] /\ d \in DOMAIN stack /\ ReadBy(d)' = ReadBy(d)
      BY <1>2
    <3>2. TagsOf(stack[d].parent)' = TagsOf(stack[d].parent)
      BY <1>2, <3>1 DEF TagsOf
    <3>3. QED
      BY <1>1, <1>2, <3>1, <3>2 DEF Calls
  <2>4. \A d, e \in DOMAIN stack' : stack'[d].parent = stack'[e].parent => d = e
    BY <1>1, <1>2 DEF Calls
  <2>5. QED
    BY <2>1, <2>2, <2>3, <2>4 DEF Calls
<1>4. ASSUME NEW d \in DOMAIN stack'
      PROVE  Gathered(stack[d].items, TagsOf(stack[d].parent), ReadBy(d))'
  <2>1. PICK q, items, ts, m :
          q = stack[d].parent /\ items = stack[d].items /\ ts = TagsOf(q) /\ m = ReadBy(d)
    OBVIOUS
  <2>2. Gathered(items, ts, m)'
    BY <1>1, <1>2, <2>1, GatheredKept DEF Gathering
  <2>3. stack'[d].items = items /\ ReadBy(d)' = m /\ TagsOf(stack[d].parent)' = ts
    BY <1>2, <2>1 DEF TagsOf
  <2>4. QED
    BY <2>2, <2>3 DEF Gathered
<1>5. \A items, ts, m : Gathered(items, ts, m) => Gathered(items, ts, m)'
  BY <1>2, GatheredKept
<1>6. ASSUME NEW q \in D!Made, ~Running(q)'
      PROVE  Gathered(children[q], TagsOf(q), Len(TagsOf(q)))'
  <2>1. PICK items, ts, m : items = children'[q] /\ ts = TagsOf(q) /\ m = Len(TagsOf(q))
    OBVIOUS
  <2>2. CASE ~Running(q)
    <3>1. q # D!Top.parent
      BY <1>2, <2>2 DEF Running
    <3>2. children'[q] = children[q]
      <4>1. children \in [News -> Seq(News)]
        BY DEF DecodeTypeOK
      <4>2. QED
        BY <1>2, <3>1, <4>1, MadeType
    <3>3. Gathered(items, ts, m)
      BY <1>1, <2>1, <2>2, <3>2 DEF Gathering
    <3>4. Gathered(items, ts, m)'
      BY <1>5, <3>3
    <3>5. items = children'[q] /\ ts = TagsOf(q)' /\ m = Len(TagsOf(q)')
      BY <1>2, <2>1
    <3>6. QED
      BY <3>4, <3>5 DEF Gathered
  <2>3. CASE q = D!Top.parent
    <3>1. children'[q] = D!Top.items
      <4>1. children \in [News -> Seq(News)] /\ q \in News /\ q # Nil
        BY MadeType DEF DecodeTypeOK
      <4>2. QED
        BY <1>2, <2>3, <4>1
    <3>2. Gathered(items, ts, m)
      BY <1>1, <1>2, <2>1, <2>3, <3>1 DEF Gathering
    <3>3. Gathered(items, ts, m)'
      BY <1>5, <3>2
    <3>4. items = children'[q] /\ ts = TagsOf(q)' /\ m = Len(TagsOf(q)')
      BY <1>2, <2>1
    <3>5. QED
      BY <3>3, <3>4 DEF Gathered
  <2>4. QED
    BY <1>2, <1>6, <2>2, <2>3
<1>7. phase' # "items" => Gathered(instances, Handed.top, Len(Handed.top))'
  <2> SUFFICES ASSUME phase' # "items" PROVE Gathered(instances, Handed.top, Len(Handed.top))'
    OBVIOUS
  <2>1. D!Top.parent = Nil
    BY <1>2
  <2>2. PICK items, ts, m : items = D!Top.items /\ ts = Handed.top /\ m = Len(Handed.top)
    OBVIOUS
  <2>3. Gathered(items, ts, m)
    BY <1>1, <1>2, <2>1, <2>2 DEF Gathering, TagsOf
  <2>4. Gathered(items, ts, m)'
    BY <1>5, <2>3
  <2>5. items = instances' /\ ts = Handed'.top /\ m = Len(Handed'.top)
    BY <1>2, <2>1, <2>2
  <2>6. QED
    BY <2>4, <2>5 DEF Gathered
<1>8. Gathering'
  BY <1>2, <1>4, <1>6, <1>7 DEF Gathering
<1>9. Placed'
  <2>1. ASSUME NEW q \in D!Made
        PROVE  \E parent \in D!Made \cup {Nil} :
                 \E i \in DOMAIN TagsOf(parent) : IsPlace(q, parent, i)'
    <3>1. PICK parent \in D!Made \cup {Nil} : \E i \in DOMAIN TagsOf(parent) : IsPlace(q, parent, i)
      BY <1>1 DEF Placed
    <3>2. PICK i \in DOMAIN TagsOf(parent) : IsPlace(q, parent, i)
      BY <3>1
    <3>3. IsPlace(q, parent, i)'
      BY <1>2, <3>2 DEF IsPlace
    <3>4. QED
      BY <3>3
  <2>2. QED
    BY <1>1, <1>2, <2>1 DEF Placed
<1>10. QED
  BY <1>3, <1>8, <1>9 DEF TreeRead

(* The call at the top goes on to the next tag, which is not an instance.  *)
LEMMA TagRead ==
  ASSUME DecodeTypeOK, TreeRead, phase = "items", Handed' = Handed,
         UNCHANGED <<phase, itemOf, children, instances>>,
         D!Top.tags # <<>>, ~D!IsInstance(Head(D!Top.tags)),
         NEW f \in Frame, f.tags = Tail(D!Top.tags), f.parent = D!Top.parent,
         f.items = D!Top.items, stack' = D!WithTop(f),
         NEW last, last = Len(stack)
  PROVE  /\ TreeRead' /\ \A inst : Running(inst)' <=> Running(inst)
         /\ \A d \in DOMAIN stack : d # last => ReadBy(d)' = ReadBy(d)
         /\ ReadBy(last)' = ReadBy(last) + 1
<1> DEFINE list == TagsOf(f.parent)
           r == ReadBy(last)
           n == r + 1
<1>1. Calls /\ Gathering
  BY DEF TreeRead
<1>2. /\ last \in DOMAIN stack /\ D!Top = stack[last] /\ r \in Nat
  BY <1>1, TopFrame, ReadsType
<1>3. /\ n \in Nat /\ Head(D!Top.tags) = list[n]
      /\ \A i \in DOMAIN f.tags : f.tags[i] = list[n + i]
      /\ n = Len(list) - Len(f.tags)
  BY <1>1, NextTag
<1>4. Gathered(D!Top.items, list, r)
  BY <1>1, <1>2 DEF Gathering
<1>5. Gathered(f.items, list, n)
  BY <1>2, <1>3, <1>4, GatherNone
<1>6. n >= r
  BY <1>2
<1>7. TreeRead' /\ \A inst : Running(inst)' <=> Running(inst)
  <2> HIDE DEF n
  <2>1. QED
    BY <1>3, <1>5, <1>6, TopMoves DEF r
<1>8. /\ DOMAIN stack' = DOMAIN stack
      /\ \A d \in DOMAIN stack : stack'[d] = IF d = last THEN f ELSE stack[d]
  BY <1>1, TopReplaced
<1>9. \A q : TagsOf(q)' = TagsOf(q)
  BY DEF TagsOf
<1>10. \A d \in DOMAIN stack : d # last => ReadBy(d)' = ReadBy(d)
  BY <1>8 DEF ReadBy, TagsOf
<1>11. ReadBy(last)' = n
  <2>1. stack'[last] = f
    BY <1>2, <1>8
  <2>2. ReadBy(last)' = Len(TagsOf(f.parent)) - Len(f.tags)
    BY <2>1 DEF ReadBy, TagsOf
  <2>3. QED
    BY <1>3, <2>2
<1>12. QED
  BY <1>7, <1>10, <1>11

(* The call at the top does something else.                                *)
LEMMA TagKept ==
  ASSUME DecodeTypeOK, TreeRead, phase = "items", Handed' = Handed,
         UNCHANGED <<phase, itemOf, children, instances>>,
         NEW f \in Frame, f.tags = D!Top.tags, f.parent = D!Top.parent,
         f.items = D!Top.items, stack' = D!WithTop(f),
         NEW last, last = Len(stack)
  PROVE  /\ TreeRead' /\ \A inst : Running(inst)' <=> Running(inst)
         /\ \A d \in DOMAIN stack : ReadBy(d)' = ReadBy(d)
<1> DEFINE list == TagsOf(f.parent)
           r == ReadBy(last)
<1>1. Calls /\ Gathering
  BY DEF TreeRead
<1>2. last \in DOMAIN stack /\ D!Top = stack[last] /\ r \in Nat
  BY <1>1, TopFrame, ReadsType
<1>3. r = Len(list) - Len(f.tags) /\ \A i \in DOMAIN f.tags : f.tags[i] = list[r + i]
  <2>1. r = Len(list) - Len(f.tags)
    BY <1>2 DEF ReadBy
  <2>2. \A i \in DOMAIN D!Top.tags : D!Top.tags[i] = TagsOf(D!Top.parent)[r + i]
    BY <1>1, <1>2 DEF Calls
  <2>3. QED
    BY <2>1, <2>2
<1>4. Gathered(f.items, list, r)
  BY <1>1, <1>2 DEF Gathering
<1>5. r >= r
  BY <1>2
<1>6. TreeRead' /\ \A inst : Running(inst)' <=> Running(inst)
  <2>1. PICK n : n = r
    OBVIOUS
  <2> HIDE DEF r
  <2>2. n \in Nat /\ n >= ReadBy(Len(stack))
    BY <1>2, <1>5, <2>1 DEF r
  <2>3. /\ n = Len(TagsOf(f.parent)) - Len(f.tags)
        /\ \A i \in DOMAIN f.tags : f.tags[i] = TagsOf(f.parent)[n + i]
        /\ Gathered(f.items, TagsOf(f.parent), n)
    BY <1>3, <1>4, <2>1
  <2>4. QED
    BY <2>2, <2>3, TopMoves
<1>7. /\ DOMAIN stack' = DOMAIN stack
      /\ \A d \in DOMAIN stack : stack'[d] = IF d = last THEN f ELSE stack[d]
  BY <1>1, TopReplaced
<1>8. \A d \in DOMAIN stack : ReadBy(d)' = ReadBy(d)
  BY <1>2, <1>7 DEF ReadBy, TagsOf
<1>9. QED
  BY <1>6, <1>8

(* The tree after the items.                                               *)
LEMMA TreeSame ==
  ASSUME TreeRead, Handed' = Handed, UNCHANGED <<stack, itemOf, children, instances>>,
         phase # "items" /\ phase' # "items"
  PROVE  TreeRead' /\ D!Made' = D!Made /\ \A inst : Running(inst)' <=> Running(inst)
<1>1. /\ D!Made' = D!Made /\ \A q : TagsOf(q)' = TagsOf(q)
      /\ \A d : ReadBy(d)' = ReadBy(d)
      /\ \A k : D!IsInstance(k)' = D!IsInstance(k)
  BY InstanceKept DEF D!Made, TagsOf, ReadBy
<1>2. \A inst : Running(inst)' <=> Running(inst)
  BY DEF Running
<1>3. \A insts, list, n : Gathered(insts, list, n) => Gathered(insts, list, n)'
  BY <1>1, GatheredKept DEF Grown
<1>4. Calls'
  BY <1>1 DEF TreeRead, Calls, ReadBy, TagsOf
<1>5. stack = <<>> /\ DOMAIN stack = {}
  BY DEF TreeRead, Calls
<1>6. Gathering'
  <2>1. ASSUME NEW q \in D!Made
        PROVE  Gathered(children[q], TagsOf(q), Len(TagsOf(q)))'
    <3>1. PICK items, ts, m : items = children[q] /\ ts = TagsOf(q) /\ m = Len(TagsOf(q))
      OBVIOUS
    <3>2. Gathered(items, ts, m)
      BY <1>5, <3>1 DEF TreeRead, Gathering, Running
    <3>3. Gathered(items, ts, m)'
      BY <1>3, <3>2
    <3>4. items = children'[q] /\ ts = TagsOf(q)' /\ m = Len(TagsOf(q)')
      BY <1>1, <3>1
    <3>5. QED
      BY <3>3, <3>4 DEF Gathered
  <2>2. Gathered(instances, Handed.top, Len(Handed.top))'
    <3>1. PICK items, ts, m : items = instances /\ ts = Handed.top /\ m = Len(Handed.top)
      OBVIOUS
    <3>2. Gathered(items, ts, m)'
      BY <1>3, <3>1 DEF TreeRead, Gathering
    <3>3. items = instances' /\ ts = Handed'.top /\ m = Len(Handed'.top)
      BY <3>1
    <3>4. QED
      BY <3>2, <3>3 DEF Gathered
  <2>3. QED
    BY <1>1, <1>5, <2>1, <2>2 DEF Gathering
<1>7. Placed'
  <2>1. \A q, parent, i : IsPlace(q, parent, i)' <=> IsPlace(q, parent, i)
    BY <1>1 DEF IsPlace
  <2>2. QED
    BY <1>1, <2>1 DEF TreeRead, Placed
<1>8. QED
  BY <1>1, <1>2, <1>4, <1>6, <1>7 DEF TreeRead

-------------------------------------------------------------------------------
(* What the other steps do to the call at the top.                         *)

OnlyStack ==
  UNCHANGED <<instLookup, newReference, newProperties, phase, itemOf, children, instances,
              metadata, pos>>

Skips ==
  \/ D!SkipItem \/ D!SkipTag
  \/ D!DecodeProperties /\ ~D!TakesProperties(D!Top)

(* The steps that pass a tag of the list.                                  *)
LEMMA SkipFacts ==
  ASSUME DecodeTypeOK, Calls, Skips
  PROVE  LET f == D!Rest(D!Top) IN
         /\ phase = "items" /\ OnlyStack /\ propRefs' = propRefs /\ stringRefs' = stringRefs
         /\ D!Top.tags # <<>> /\ D!Top.pending = <<>>
         /\ ~D!IsInstance(Head(D!Top.tags))
         /\ D!NextTag.start = "Properties" => D!Top.hasProps \/ D!Top.parent = Nil
         /\ f \in Frame /\ f.tags = Tail(D!Top.tags) /\ f.parent = D!Top.parent
         /\ f.items = D!Top.items /\ f.pending = D!Top.pending
         /\ f.hasProps = D!Top.hasProps /\ f.properties = D!Top.properties
         /\ stack' = D!WithTop(f)
<1> DEFINE f == D!Rest(D!Top)
<1>1. /\ phase = "items" /\ D!Top.tags # <<>> /\ D!Top.pending = <<>>
      /\ OnlyStack /\ propRefs' = propRefs /\ stringRefs' = stringRefs
      /\ stack' = D!WithTop(f)
  <2>1. CASE D!SkipItem
    BY <2>1 DEF D!SkipItem, D!NextIs, OnlyStack
  <2>2. CASE D!SkipTag
    BY <2>2 DEF D!SkipTag, OnlyStack
  <2>3. CASE D!DecodeProperties /\ ~D!TakesProperties(D!Top)
    BY <2>3 DEF D!DecodeProperties, D!NextIs, OnlyStack
  <2>4. QED
    BY <2>1, <2>2, <2>3 DEF Skips
<1>2. D!Top \in Frame
  BY <1>1, TopFrame
<1>3. /\ f \in Frame /\ f.tags = Tail(D!Top.tags) /\ f.parent = D!Top.parent
      /\ f.items = D!Top.items /\ f.pending = D!Top.pending
      /\ f.hasProps = D!Top.hasProps /\ f.properties = D!Top.properties
  BY <1>1, <1>2, RestOf
<1>4. D!NextTag = Handed.tags[Head(D!Top.tags)]
  BY DEF D!NextTag
<1>5. ~D!IsInstance(Head(D!Top.tags))
  BY <1>4 DEF Skips, D!SkipItem, D!SkipTag, D!DecodeProperties, D!NextIs, D!IsInstance
<1>6. D!NextTag.start = "Properties" => D!Top.hasProps \/ D!Top.parent = Nil
  BY <1>4 DEF Skips, D!SkipItem, D!SkipTag, D!DecodeProperties, D!NextIs, D!TakesProperties
<1>7. QED
  BY <1>1, <1>3, <1>5, <1>6

LEMMA WithPending ==
  ASSUME NEW f \in Frame, NEW more \in Seq(PropertyTag)
  PROVE  LET g == [f EXCEPT !.hasProps = TRUE, !.pending = more] IN
         /\ g \in Frame /\ g.pending = more /\ g.hasProps = TRUE
         /\ g.tags = f.tags /\ g.parent = f.parent
         /\ g.items = f.items /\ g.properties = f.properties
BY DEF Frame

(* The Properties tag that counts.                                         *)
LEMMA TakeFacts ==
  ASSUME DecodeTypeOK, Calls, D!DecodeProperties, D!TakesProperties(D!Top)
  PROVE  LET f == [D!Rest(D!Top) EXCEPT !.hasProps = TRUE, !.pending = D!NextTag.properties] IN
         /\ phase = "items" /\ OnlyStack /\ propRefs' = propRefs /\ stringRefs' = stringRefs
         /\ D!Top.tags # <<>> /\ D!Top.pending = <<>> /\ ~D!Top.hasProps /\ D!Top.parent # Nil
         /\ ~D!IsInstance(Head(D!Top.tags)) /\ D!NextTag.start = "Properties"
         /\ D!NextTag.properties \in Seq(PropertyTag)
         /\ f \in Frame /\ f.tags = Tail(D!Top.tags) /\ f.parent = D!Top.parent
         /\ f.items = D!Top.items /\ f.pending = D!NextTag.properties
         /\ f.hasProps = TRUE /\ f.properties = D!Top.properties
         /\ stack' = D!WithTop(f)
<1> DEFINE more == D!NextTag.properties
           f == [D!Rest(D!Top) EXCEPT !.hasProps = TRUE, !.pending = more]
<1>1. /\ phase = "items" /\ D!Top.tags # <<>> /\ D!Top.pending = <<>>
      /\ OnlyStack /\ propRefs' = propRefs /\ stringRefs' = stringRefs
      /\ stack' = D!WithTop(f)
      /\ Handed.tags[Head(D!Top.tags)].start = "Properties"
      /\ ~D!Top.hasProps /\ D!Top.parent # Nil
  BY DEF D!DecodeProperties, D!NextIs, OnlyStack, D!TakesProperties
<1>2. D!Top \in Frame
  BY <1>1, TopFrame
<1>3. D!NextTag = Handed.tags[Head(D!Top.tags)] /\ ~D!IsInstance(Head(D!Top.tags))
  BY <1>1 DEF D!NextTag, D!IsInstance
<1>4. more \in Seq(PropertyTag)
  <2>1. Head(D!Top.tags) \in DOMAIN Handed.tags /\ Handed.tags \in Seq(Tag)
    BY <1>1, NextTag, DocumentParts DEF DecodeTypeOK
  <2>2. D!NextTag \in Tag
    BY <1>3, <2>1
  <2>3. QED
    BY <1>1, <1>3, <2>2, TagKinds
<1>5. /\ D!Rest(D!Top) \in Frame
      /\ D!Rest(D!Top).tags = Tail(D!Top.tags) /\ D!Rest(D!Top).parent = D!Top.parent
      /\ D!Rest(D!Top).items = D!Top.items /\ D!Rest(D!Top).properties = D!Top.properties
  BY <1>1, <1>2, RestOf
<1>6. /\ f \in Frame /\ f.tags = Tail(D!Top.tags) /\ f.parent = D!Top.parent
      /\ f.items = D!Top.items /\ f.pending = more
      /\ f.hasProps = TRUE /\ f.properties = D!Top.properties
  BY <1>4, <1>5, WithPending
<1>7. QED
  BY <1>1, <1>3, <1>4, <1>6

(* A property tag.                                                         *)
LEMMA TagParts ==
  ASSUME NEW t \in PropertyTag
  PROVE  /\ t.name \in Properties \cup {NoAttr}
         /\ t.kind \in {"Ref", "SharedString", "badhash", "value", "broken", "unknown"}
         /\ t.kind = "Ref" => t.text \in Refs
         /\ t.kind \in {"SharedString", "badhash"} => t.text \in Hash
         /\ t.kind \in {"value", "broken", "unknown"} => t.text \in Data
BY DEF PropertyTag

(* What a property tag gives at once has the type of the property.         *)
LEMMA ReadNowType ==
  ASSUME NEW t \in PropertyTag, NEW map \in [Properties -> D!Value \cup {Unset}]
  PROVE  D!ReadNow(t, map) \in [Properties -> D!Value \cup {Unset}]
<1>1. \A v \in Data \cup {Nil} : v \in D!Value
  BY DEF D!Value
<1>2. Zero \in Data
  BY DocumentsAssumption
<1>3. CASE t.name = NoAttr
  BY <1>3 DEF D!ReadNow
<1>4. CASE t.name # NoAttr
  <2>1. t.name \in Properties
    BY <1>4, TagParts
  <2>2. \A v \in D!Value : [map EXCEPT ![t.name] = v] \in [Properties -> D!Value \cup {Unset}]
    BY <2>1
  <2>3. CASE t.kind = "value"
    <3>1. D!ReadNow(t, map) = [map EXCEPT ![t.name] = t.text]
      BY <1>4, <2>3 DEF D!ReadNow
    <3>2. QED
      BY <1>1, <2>2, <2>3, <3>1, TagParts
  <2>4. CASE t.kind = "broken" /\ ~Handed.discard
    <3>1. D!ReadNow(t, map) = [map EXCEPT ![t.name] = Zero]
      BY <1>4, <2>4 DEF D!ReadNow
    <3>2. QED
      BY <1>1, <1>2, <2>2, <3>1
  <2>5. CASE t.kind = "Ref" /\ t.text \in EmptyRefs
    <3>1. D!ReadNow(t, map) = [map EXCEPT ![t.name] = Nil]
      BY <1>4, <2>5 DEF D!ReadNow, D!IsEmptyReference
    <3>2. QED
      BY <1>1, <2>2, <3>1
  <2>6. CASE ~(t.kind = "value" \/ (t.kind = "broken" /\ ~Handed.discard)
               \/ (t.kind = "Ref" /\ t.text \in EmptyRefs))
    BY <1>4, <2>6 DEF D!ReadNow, D!IsEmptyReference
  <2>7. QED
    BY <2>3, <2>4, <2>5, <2>6
<1>5. QED
  BY <1>3, <1>4

(* One property tag.                                                       *)
LEMMA PropertyFacts ==
  ASSUME DecodeTypeOK, Calls, D!DecodeProperty
  PROVE  LET t == Head(D!Top.pending)
             f == [D!Top EXCEPT !.pending = Tail(D!Top.pending),
                                !.properties = D!ReadNow(t, D!Top.properties)] IN
         /\ phase = "items" /\ OnlyStack
         /\ D!Top.pending # <<>> /\ t \in PropertyTag
         /\ f \in Frame /\ f.tags = D!Top.tags /\ f.parent = D!Top.parent
         /\ f.items = D!Top.items /\ f.pending = Tail(D!Top.pending)
         /\ f.hasProps = D!Top.hasProps /\ f.properties = D!ReadNow(t, D!Top.properties)
         /\ stack' = D!WithTop(f)
         /\ propRefs' = IF t.name # NoAttr /\ D!IsLink(t)
                        THEN Append(propRefs, D!PutOff(t, t.text)) ELSE propRefs
         /\ stringRefs' = IF t.name # NoAttr /\ D!IsHash(t)
                          THEN Append(stringRefs, D!PutOff(t, D!HashOf(t))) ELSE stringRefs
<1> DEFINE t == Head(D!Top.pending)
           f == [D!Top EXCEPT !.pending = Tail(D!Top.pending),
                              !.properties = D!ReadNow(t, D!Top.properties)]
<1>1. /\ phase = "items" /\ OnlyStack /\ D!Top.pending # <<>>
      /\ stack' = D!WithTop([D!Top EXCEPT !.pending = Tail(@), !.properties = D!ReadNow(t, @)])
      /\ propRefs' = IF t.name # NoAttr /\ D!IsLink(t)
                     THEN Append(propRefs, D!PutOff(t, t.text)) ELSE propRefs
      /\ stringRefs' = IF t.name # NoAttr /\ D!IsHash(t)
                       THEN Append(stringRefs, D!PutOff(t, D!HashOf(t))) ELSE stringRefs
  BY DEF D!DecodeProperty, OnlyStack
<1>2. D!Top \in Frame /\ D!Top.pending \in Seq(PropertyTag)
        /\ D!Top.properties \in [Properties -> D!Value \cup {Unset}]
  BY <1>1, TopFrame, FrameParts
<1>3. t \in PropertyTag /\ Tail(D!Top.pending) \in Seq(PropertyTag)
  BY <1>1, <1>2
<1>4. D!ReadNow(t, D!Top.properties) \in [Properties -> D!Value \cup {Unset}]
  BY <1>2, <1>3, ReadNowType
<1>5. /\ f \in Frame /\ f.tags = D!Top.tags /\ f.parent = D!Top.parent
      /\ f.items = D!Top.items /\ f.pending = Tail(D!Top.pending)
      /\ f.hasProps = D!Top.hasProps /\ f.properties = D!ReadNow(t, D!Top.properties)
  <2>1. PICK frame \in Frame, rest \in Seq(PropertyTag), map \in [Properties -> D!Value \cup {Unset}] :
          /\ frame = D!Top /\ rest = Tail(D!Top.pending)
          /\ map = D!ReadNow(t, D!Top.properties)
    BY <1>2, <1>3, <1>4
  <2>2. PICK g : g = [frame EXCEPT !.pending = rest, !.properties = map]
    OBVIOUS
  <2>3. /\ g \in Frame /\ g.tags = frame.tags /\ g.parent = frame.parent
        /\ g.items = frame.items /\ g.pending = rest
        /\ g.hasProps = frame.hasProps /\ g.properties = map
    BY <2>2 DEF Frame
  <2>4. g = f
    BY <2>1, <2>2
  <2> HIDE DEF f, t
  <2>5. QED
    BY <2>1, <2>3, <2>4 DEF t
<1>6. QED
  BY <1>1, <1>3, <1>5

-------------------------------------------------------------------------------
(* Types.                                                                  *)

(* A set of numbers that is not empty and has a bound has a greatest one.  *)
LEMMA GreatestExists ==
  ASSUME NEW n \in Nat, NEW S \in SUBSET (1 .. n), S # {}
  PROVE  \E x \in S : \A y \in S : y <= x
<1> DEFINE R == {ss \in Nat \X Nat : ss[1] < ss[2]}
           T == {n - x : x \in S}
<1>1. IsWellFoundedOn(R, Nat)
  BY NatLessThanWellFounded DEF OpToRel
<1>2. T \subseteq Nat /\ T # {}
  <2>1. \A x \in S : n - x \in Nat
    OBVIOUS
  <2>2. QED
    BY <2>1
<1>3. PICK x \in T : \A y \in T : ~ (<<y, x>> \in R)
  <2> HIDE DEF R, T
  <2>1. QED
    BY <1>1, <1>2, WFMin
<1>4. \A y \in T : ~(y < x)
  BY <1>2, <1>3
<1>5. n - x \in S /\ x \in Nat
  BY <1>2
<1>6. \A y \in S : y <= n - x
  <2> SUFFICES ASSUME NEW y \in S PROVE y <= n - x
    OBVIOUS
  <2>1. ~(n - y < x)
    BY <1>4
  <2>2. y \in Nat
    OBVIOUS
  <2>3. QED
    BY <1>5, <2>1, <2>2
<1>7. QED
  BY <1>5, <1>6

LEMMA StringTagsType ==
  ASSUME DecodeTypeOK, NEW k \in DOMAIN Handed.tags, Handed.tags[k].start = "SharedStrings"
  PROVE  Handed.tags[k].strings \in Seq(StringTag)
<1>1. Handed.tags[k] \in Tag
  BY DocumentParts DEF DecodeTypeOK
<1>2. QED
  BY <1>1 DEF Tag, ItemTags, PropertiesTags

(* The contents that a tag has for one of several hashes.                  *)
LEMMA ContentsType ==
  ASSUME NEW strings \in Seq(StringTag), NEW keys, D!KeysAt(strings, keys) # {}
  PROVE  \E i \in D!KeysAt(strings, keys) :
           /\ \A j \in D!KeysAt(strings, keys) : j <= i
           /\ i \in DOMAIN strings /\ strings[i].md5 \in keys
           /\ D!ContentsOf(strings, keys) = strings[i].text /\ strings[i].text \in Shared
<1> DEFINE S == D!KeysAt(strings, keys)
<1>1. S \subseteq 1 .. Len(strings) /\ Len(strings) \in Nat
  BY DEF D!KeysAt
<1>2. \E x \in S : \A y \in S : y <= x
  <2> HIDE DEF S
  <2>1. S # {}
    BY DEF S
  <2>2. QED
    BY <1>1, <2>1, GreatestExists
<1>3. PICK i : i = CHOOSE m \in S : \A j \in S : j <= m
  OBVIOUS
<1>4. i \in S /\ \A j \in S : j <= i
  BY <1>2, <1>3
<1>5. D!ContentsOf(strings, keys) = strings[i].text
  BY <1>3 DEF D!ContentsOf
<1>6. i \in DOMAIN strings /\ strings[i].md5 \in keys
  BY <1>4 DEF D!KeysAt
<1>7. strings[i].text \in Shared
  <2>1. strings[i] \in StringTag
    BY <1>6
  <2>2. QED
    BY <2>1 DEF StringTag
<1>8. QED
  BY <1>4, <1>5, <1>6, <1>7

(* The parts of the types that only the items change.                      *)
TreeTypes ==
  /\ stack \in Seq(Frame)
  /\ itemOf \in Seq(DOMAIN Handed.tags) /\ Len(itemOf) <= MaxMade
  /\ \A inst \in D!Made : D!IsInstance(itemOf[inst])
  /\ instLookup \in [Refs -> News \cup {Nil}]
  /\ newReference \in [News -> Refs]
  /\ children \in [News -> Seq(News)]
  /\ instances \in Seq(News)

LEMMA TreeTypesSame ==
  ASSUME TreeTypes, Handed' = Handed, stack' \in Seq(Frame),
         UNCHANGED <<itemOf, instLookup, newReference, children, instances>>
  PROVE  TreeTypes'
<1>1. D!Made' = D!Made /\ \A k : D!IsInstance(k)' = D!IsInstance(k)
  BY InstanceKept DEF D!Made
<1>2. QED
  BY <1>1 DEF TreeTypes

LEMMA TopType ==
  ASSUME DecodeTypeOK, phase = "top", pos < Len(Handed.top)
  PROVE  /\ pos \in Nat /\ pos + 1 \in 0 .. Len(Handed.top)
         /\ pos + 1 \in DOMAIN Handed.top
         /\ Handed.top[pos + 1] \in DOMAIN Handed.tags
         /\ D!TopTag = Handed.tags[Handed.top[pos + 1]]
<1>1. Handed.top \in Seq(DOMAIN Handed.tags) /\ pos \in 0 .. Len(Handed.top)
  BY DocumentParts DEF DecodeTypeOK
<1>2. pos \in Nat /\ pos + 1 \in DOMAIN Handed.top /\ pos + 1 \in 0 .. Len(Handed.top)
  BY <1>1
<1>3. QED
  BY <1>1, <1>2 DEF D!TopTag

(* So have the contents of shared strings.                                 *)
LEMMA FilledType ==
  ASSUME DecodeTypeOK, NEW strings \in Seq(StringTag)
  PROVE  D!Filled(strings) \in [News -> [Properties -> D!Value \cup {Unset}]]
<1>1. newProperties \in [News -> [Properties -> D!Value \cup {Unset}]]
  BY DEF DecodeTypeOK
<1>2. \A t \in Shared : t \in D!Value
  BY TagAssumption DEF D!Value
<1>3. ASSUME NEW inst \in News, NEW p \in Properties
      PROVE  (IF D!KeysAt(strings, D!Awaited(inst, p)) = {} THEN newProperties[inst][p]
              ELSE D!ContentsOf(strings, D!Awaited(inst, p))) \in D!Value \cup {Unset}
  <2>1. D!KeysAt(strings, D!Awaited(inst, p)) # {} =>
          D!ContentsOf(strings, D!Awaited(inst, p)) \in Shared
    BY ContentsType
  <2>2. newProperties[inst][p] \in D!Value \cup {Unset}
    BY <1>1
  <2>3. QED
    BY <1>2, <2>1, <2>2
<1>4. QED
  BY <1>3 DEF D!Filled, News

(* The parts of DecodeTypeOK.                                              *)
LEMMA TypeParts ==
  DecodeTypeOK <=>
    /\ Handed \in D!Document
    /\ phase \in {"items", "top", "resolve", "done"}
    /\ TreeTypes
    /\ newProperties \in [News -> [Properties -> D!Value \cup {Unset}]]
    /\ propRefs \in Seq(Later(Refs))
    /\ stringRefs \in Seq(Later(Hash))
    /\ pos \in 0 .. Len(Handed.top)
BY DEF DecodeTypeOK, TreeTypes

LEMMA StackTypes ==
  ASSUME DecodeTypeOK, Calls, phase = "items", OnlyStack, Handed' = Handed,
         NEW f \in Frame, stack' = D!WithTop(f),
         propRefs' \in Seq(Later(Refs)), stringRefs' \in Seq(Later(Hash))
  PROVE  DecodeTypeOK'
<1>1. stack' \in Seq(Frame)
  BY TopReplaced
<1>2. /\ Handed \in D!Document /\ phase \in {"items", "top", "resolve", "done"} /\ TreeTypes
      /\ newProperties \in [News -> [Properties -> D!Value \cup {Unset}]]
      /\ pos \in 0 .. Len(Handed.top)
  BY TypeParts
<1>3. /\ newProperties' = newProperties /\ pos' = pos /\ phase' = phase
      /\ UNCHANGED <<itemOf, instLookup, newReference, children, instances>>
  BY DEF OnlyStack
<1>4. TreeTypes'
  BY <1>1, <1>2, <1>3, TreeTypesSame
<1>5. Handed' \in D!Document'
  BY <1>2 DEF D!Document, D!Tag, D!ItemTags, D!PropertiesTags, D!PropertyTag, D!StringTag,
              D!Hash, D!Nests, D!TagsUnder
<1>6. DecodeTypeOK'
  BY <1>1, <1>2, <1>3, <1>4, <1>5 DEF DecodeTypeOK, TreeTypes
<1>7. QED
  BY <1>6

LEMMA ItemTypes ==
  ASSUME DecodeTypeOK, Calls, D!DecodeItem, Handed' = Handed
  PROVE  DecodeTypeOK'
<1>1. PICK inst : inst = Len(itemOf) + 1
  OBVIOUS
<1> DEFINE f == [tags |-> Tail(D!Top.tags), parent |-> D!Top.parent, pending |-> D!Top.pending,
                 hasProps |-> D!Top.hasProps, properties |-> D!Top.properties,
                 items |-> Append(D!Top.items, inst)]
           g == D!FrameFor(D!NextTag.tags, inst)
<1>2. /\ phase = "items" /\ D!Top.tags # <<>> /\ inst \in News
      /\ D!IsInstance(Head(D!Top.tags)) /\ Grown
      /\ itemOf' \in Seq(DOMAIN Handed.tags) /\ Len(itemOf') = inst
      /\ D!Made' = D!Made \cup {inst} /\ itemOf'[inst] = Head(D!Top.tags)
      /\ f \in Frame /\ g \in Frame
      /\ stack' = Append(D!WithTop(f), g)
  BY <1>1, ItemFacts
<1>3. /\ UNCHANGED <<newProperties, phase, children, instances, propRefs, stringRefs, pos>>
      /\ newReference' = [newReference EXCEPT ![inst] = D!ReferentOf(D!NextTag)]
      /\ instLookup' = D!Mark(inst, D!ReferentOf(D!NextTag))
  BY <1>1 DEF D!DecodeItem
<1>4. D!ReferentOf(D!NextTag) \in Refs
  <2>1. D!NextTag \in Tag /\ D!NextTag.start = "Item"
    <3>1. /\ D!NextTag = Handed.tags[Head(D!Top.tags)] /\ Head(D!Top.tags) \in DOMAIN Handed.tags
          /\ Handed.tags \in Seq(Tag)
      BY <1>2, NextTag, DocumentParts DEF DecodeTypeOK
    <3>2. QED
      BY <1>2, <3>1 DEF D!IsInstance
  <2>2. D!NextTag.referent \in Refs \cup {NoAttr}
    BY <2>1, TagKinds DEF ItemTags
  <2>3. QED
    BY <2>2, RefsAssumption DEF D!ReferentOf
<1>5. /\ Handed \in D!Document /\ phase \in {"items", "top", "resolve", "done"} /\ TreeTypes
      /\ newProperties \in [News -> [Properties -> D!Value \cup {Unset}]]
      /\ propRefs \in Seq(Later(Refs)) /\ stringRefs \in Seq(Later(Hash))
      /\ pos \in 0 .. Len(Handed.top)
  BY TypeParts
<1>6. instLookup' \in [Refs -> News \cup {Nil}] /\ newReference' \in [News -> Refs]
  BY <1>2, <1>3, <1>4, <1>5 DEF TreeTypes, D!Mark, D!IsEmptyReference
<1>7. stack' \in Seq(Frame)
  <2>1. D!WithTop(f) \in Seq(Frame)
    BY <1>2, TopReplaced
  <2>2. QED
    BY <1>2, <2>1, AppendType
<1>8. Len(itemOf') <= MaxMade
  BY <1>2, DocumentsAssumption DEF News
<1>9. \A i \in D!Made' : D!IsInstance(itemOf[i])'
  <2>1. \A k : D!IsInstance(k)' = D!IsInstance(k)
    BY InstanceKept
  <2>2. \A i \in D!Made : itemOf'[i] = itemOf[i] /\ D!IsInstance(itemOf[i])
    BY <1>2 DEF Grown, DecodeTypeOK
  <2>3. \A i \in D!Made' : D!IsInstance(itemOf'[i])
    BY <1>2, <2>2
  <2>4. QED
    BY <2>3 DEF D!IsInstance
<1>10. QED
  BY <1>3, <1>5, <1>6, <1>7, <1>8, <1>9, <1>2 DEF DecodeTypeOK, TreeTypes

LEMMA ReturnTypes ==
  ASSUME DecodeTypeOK, Calls, D!Return, Handed' = Handed
  PROVE  DecodeTypeOK'
<1>1. PICK last : last = Len(stack)
  OBVIOUS
<1>2. /\ D!Top \in Frame /\ D!Top.parent \in D!Made \cup {Nil} /\ stack' \in Seq(Frame)
      /\ itemOf' = itemOf /\ phase = "items"
      /\ D!Top.parent = Nil =>
           /\ instances' = D!Top.items /\ phase' = "top"
           /\ newProperties' = newProperties /\ children' = children
      /\ D!Top.parent # Nil =>
           /\ newProperties' = [newProperties EXCEPT ![D!Top.parent] = D!Top.properties]
           /\ children' = [children EXCEPT ![D!Top.parent] = D!Top.items]
           /\ instances' = instances /\ phase' = phase
  BY <1>1, ReturnCalls
<1>3. UNCHANGED <<instLookup, newReference, itemOf, propRefs, stringRefs, pos>>
  BY DEF D!Return
<1>4. /\ Handed \in D!Document /\ phase \in {"items", "top", "resolve", "done"} /\ TreeTypes
      /\ newProperties \in [News -> [Properties -> D!Value \cup {Unset}]]
      /\ propRefs \in Seq(Later(Refs)) /\ stringRefs \in Seq(Later(Hash))
      /\ pos \in 0 .. Len(Handed.top)
  BY TypeParts
<1>5. /\ D!Top.properties \in [Properties -> D!Value \cup {Unset}]
      /\ D!Top.items \in Seq(News)
  BY <1>2, FrameParts
<1>6. newProperties' \in [News -> [Properties -> D!Value \cup {Unset}]]
  BY <1>2, <1>4, <1>5
<1>7. children' \in [News -> Seq(News)] /\ instances' \in Seq(News)
  BY <1>2, <1>4, <1>5 DEF TreeTypes
<1>8. \A i \in D!Made' : D!IsInstance(itemOf[i])'
  BY <1>2, <1>4, InstanceKept DEF TreeTypes, D!Made, D!IsInstance
<1>9. phase' \in {"items", "top", "resolve", "done"}
  BY <1>2
<1>10. QED
  BY <1>2, <1>3, <1>4, <1>6, <1>7, <1>8, <1>9 DEF DecodeTypeOK, TreeTypes

(* A set of positive numbers that is not empty has a least one.            *)
LEMMA LeastExists ==
  ASSUME NEW S \in SUBSET Nat, S # {}
  PROVE  \E x \in S : \A y \in S : x <= y
<1> DEFINE R == {ss \in Nat \X Nat : ss[1] < ss[2]}
<1>1. IsWellFoundedOn(R, Nat)
  BY NatLessThanWellFounded DEF OpToRel
<1>2. PICK x \in S : \A y \in S : ~ (<<y, x>> \in R)
  <2> HIDE DEF R
  <2>1. QED
    BY <1>1, WFMin
<1>3. \A y \in S : x <= y
  <2> SUFFICES ASSUME NEW y \in S PROVE x <= y
    OBVIOUS
  <2>1. ~(<<y, x>> \in R) /\ x \in Nat /\ y \in Nat
    BY <1>2
  <2>2. ~(y < x)
    BY <2>1
  <2>3. QED
    BY <2>1, <2>2
<1>4. QED
  BY <1>3

(* The property tags of an instance are those of its first Properties tag. *)
LEMMA TagsAre ==
  ASSUME DecodeTypeOK, NEW inst \in D!Made
  PROVE  /\ Tags(inst) \in Seq(PropertyTag)
         /\ \/ /\ Tags(inst) = <<>>
               /\ \A i \in DOMAIN TagsOf(inst) : Handed.tags[TagsOf(inst)[i]].start # "Properties"
            \/ \E n \in DOMAIN TagsOf(inst) :
                 /\ Handed.tags[TagsOf(inst)[n]].start = "Properties"
                 /\ Tags(inst) = Handed.tags[TagsOf(inst)[n]].properties
                 /\ \A i \in DOMAIN TagsOf(inst) :
                      Handed.tags[TagsOf(inst)[i]].start = "Properties" => n <= i
<1> DEFINE list == TagsOf(inst)
           places == {i \in DOMAIN list : Handed.tags[list[i]].start = "Properties"}
<1>1. list \in Seq(DOMAIN Handed.tags) /\ Handed.tags \in Seq(Tag)
  BY ListType, DocumentParts DEF DecodeTypeOK
<1>2. list = Handed.tags[itemOf[inst]].tags
  BY MadeType DEF TagsOf
<1>3. Tags(inst) = IF places = {} THEN <<>> ELSE Handed.tags[list[D!First(places)]].properties
  BY <1>2 DEF Tags, D!PropertiesIn
<1>4. CASE places = {}
  <2>1. Tags(inst) = <<>> /\ \A i \in DOMAIN list : Handed.tags[list[i]].start # "Properties"
    BY <1>3, <1>4
  <2>2. Tags(inst) \in Seq(PropertyTag)
    BY <2>1
  <2>3. QED
    BY <2>1, <2>2
<1>5. CASE places # {}
  <2>1. places \in SUBSET Nat
    BY <1>1
  <2>2. \E i \in places : \A j \in places : i <= j
    <3> HIDE DEF places
    <3>1. QED
      BY <1>5, <2>1, LeastExists
  <2>3. PICK n : n = D!First(places)
    OBVIOUS
  <2>4. n \in places /\ \A j \in places : n <= j
    BY <2>2, <2>3 DEF D!First
  <2>5. Tags(inst) = Handed.tags[list[n]].properties
    BY <1>3, <1>5, <2>3
  <2>6. Handed.tags[list[n]] \in Tag /\ Handed.tags[list[n]].start = "Properties"
    BY <1>1, <2>4
  <2>7. Tags(inst) \in Seq(PropertyTag)
    BY <2>5, <2>6, TagKinds
  <2>8. QED
    BY <2>4, <2>5, <2>7
<1>6. QED
  BY <1>4, <1>5

(* The next property tag of the call at the top.                           *)
LEMMA NextProperty ==
  ASSUME DecodeTypeOK, Calls, Pending, phase = "items", D!Top.pending # <<>>,
         NEW last, last = Len(stack)
  PROVE  LET k == PropsRead(last) + 1 IN
         /\ last \in DOMAIN stack /\ D!Top = stack[last] /\ D!Top.hasProps
         /\ D!Top.parent \in D!Made /\ D!Top.parent # Nil
         /\ PropsRead(last) \in Nat /\ k \in DOMAIN Tags(D!Top.parent)
         /\ Head(D!Top.pending) = Tags(D!Top.parent)[k]
         /\ Len(Tags(D!Top.parent)) - Len(Tail(D!Top.pending)) = k
         /\ \A i \in DOMAIN Tail(D!Top.pending) :
              Tail(D!Top.pending)[i] = Tags(D!Top.parent)[k + i]
<1>1. /\ last \in DOMAIN stack /\ D!Top = stack[last] /\ D!Top \in Frame
      /\ D!Top.parent \in D!Made \cup {Nil}
  BY TopFrame
<1>2. D!Top.pending \in Seq(PropertyTag)
  BY <1>1, FrameParts
<1>3. D!Top.hasProps /\ D!Top.parent # Nil
  BY <1>1 DEF Pending, PendingAt
<1>4. D!Top.parent \in D!Made
  BY <1>1, <1>3
<1> DEFINE ts == Tags(D!Top.parent)
           more == D!Top.pending
           r == PropsRead(last)
<1>5. ts \in Seq(PropertyTag)
  BY <1>4, TagsAre
<1>6. r = Len(ts) - Len(more) /\ r >= 0 /\ \A i \in DOMAIN more : more[i] = ts[r + i]
  <2>1. r = Len(ts) - Len(more)
    BY <1>1, <1>3 DEF PropsRead
  <2>2. r >= 0 /\ \A i \in DOMAIN more : more[i] = ts[r + i]
    BY <1>1, <1>3 DEF Pending, PendingAt
  <2>3. QED
    BY <2>1, <2>2
<1>7. more # <<>>
  OBVIOUS
<1> HIDE DEF ts, more, r
<1>8. Len(ts) \in Nat /\ DOMAIN ts = 1 .. Len(ts)
  BY <1>5
<1>9. /\ Len(more) \in Nat /\ Len(more) >= 1 /\ 1 \in DOMAIN more /\ Head(more) = more[1]
      /\ Len(Tail(more)) = Len(more) - 1 /\ DOMAIN Tail(more) = 1 .. Len(more) - 1
      /\ \A i \in DOMAIN Tail(more) : i + 1 \in DOMAIN more /\ Tail(more)[i] = more[i + 1]
  BY <1>2, <1>7 DEF more
<1>10. r \in Nat /\ r + 1 \in DOMAIN ts /\ Len(ts) - Len(Tail(more)) = r + 1
  <2>1. PICK m, n : m = Len(ts) /\ n = Len(more)
    OBVIOUS
  <2>2. m \in Nat /\ n \in Nat /\ n >= 1 /\ r = m - n /\ r >= 0 /\ Len(Tail(more)) = n - 1
    BY <1>6, <1>8, <1>9, <2>1
  <2>3. r \in Nat /\ r + 1 \in 1 .. m /\ m - (n - 1) = r + 1
    BY ONLY <2>2
  <2>4. QED
    BY <1>8, <2>1, <2>2, <2>3
<1>11. Head(more) = ts[r + 1]
  BY <1>6, <1>9
<1>12. \A i \in DOMAIN Tail(more) : Tail(more)[i] = ts[(r + 1) + i]
  <2> SUFFICES ASSUME NEW i \in DOMAIN Tail(more) PROVE Tail(more)[i] = ts[(r + 1) + i]
    OBVIOUS
  <2>1. Tail(more)[i] = ts[r + (i + 1)]
    BY <1>6, <1>9
  <2>2. r + (i + 1) = (r + 1) + i
    BY <1>9, <1>10
  <2>3. QED
    BY <2>1, <2>2
<1>13. QED
  BY <1>1, <1>3, <1>4, <1>10, <1>11, <1>12 DEF ts, more, r

LEMMA SkipTypes ==
  ASSUME DecodeTypeOK, Calls, Skips, Handed' = Handed
  PROVE  DecodeTypeOK'
<1>1. PICK f \in Frame : /\ stack' = D!WithTop(f) /\ phase = "items" /\ OnlyStack
                         /\ propRefs' = propRefs /\ stringRefs' = stringRefs
  BY SkipFacts
<1>2. propRefs' \in Seq(Later(Refs)) /\ stringRefs' \in Seq(Later(Hash))
  BY <1>1 DEF DecodeTypeOK
<1>3. QED
  BY <1>1, <1>2, StackTypes

LEMMA TakeTypes ==
  ASSUME DecodeTypeOK, Calls, D!DecodeProperties, D!TakesProperties(D!Top), Handed' = Handed
  PROVE  DecodeTypeOK'
<1> DEFINE g == [D!Rest(D!Top) EXCEPT !.hasProps = TRUE, !.pending = D!NextTag.properties]
<1>1. /\ g \in Frame /\ stack' = D!WithTop(g) /\ phase = "items" /\ OnlyStack
      /\ propRefs' = propRefs /\ stringRefs' = stringRefs
  BY TakeFacts
<1> HIDE DEF g
<1>2. propRefs' \in Seq(Later(Refs)) /\ stringRefs' \in Seq(Later(Hash))
  BY <1>1 DEF DecodeTypeOK
<1>3. QED
  BY <1>1, <1>2, StackTypes

(* A property that is put off.                                             *)
LEMMA PutOffParts ==
  ASSUME DecodeTypeOK, NEW t \in PropertyTag, t.name # NoAttr, D!Top.parent \in D!Made
  PROVE  /\ t.name \in Properties
         /\ D!IsLink(t) => t.text \in Refs \ EmptyRefs
                             /\ D!PutOff(t, t.text) \in Later(Refs)
         /\ D!IsHash(t) => D!HashOf(t) \in Hash /\ D!PutOff(t, D!HashOf(t)) \in Later(Hash)
         /\ \A ref : /\ D!PutOff(t, ref).instance = D!Top.parent
                     /\ D!PutOff(t, ref).property = t.name
                     /\ D!PutOff(t, ref).reference = ref
<1>1. D!Top.parent \in News /\ t.name \in Properties
  BY MadeType, TagParts
<1>2. D!IsLink(t) => t.text \in Refs \ EmptyRefs
  BY TagParts DEF D!IsLink, D!IsEmptyReference
<1>3. D!IsHash(t) => D!HashOf(t) \in Hash
  BY TagParts DEF D!IsHash, D!HashOf, Hash
<1>4. QED
  BY <1>1, <1>2, <1>3 DEF D!PutOff, Later

LEMMA PropertyTypes ==
  ASSUME DecodeTypeOK, Calls, Pending, D!DecodeProperty, Handed' = Handed
  PROVE  DecodeTypeOK'
<1> DEFINE t == Head(D!Top.pending)
           f == [D!Top EXCEPT !.pending = Tail(D!Top.pending),
                              !.properties = D!ReadNow(t, D!Top.properties)]
<1>1. /\ phase = "items" /\ OnlyStack /\ D!Top.pending # <<>> /\ t \in PropertyTag
      /\ f \in Frame /\ stack' = D!WithTop(f)
      /\ propRefs' = IF t.name # NoAttr /\ D!IsLink(t)
                     THEN Append(propRefs, D!PutOff(t, t.text)) ELSE propRefs
      /\ stringRefs' = IF t.name # NoAttr /\ D!IsHash(t)
                       THEN Append(stringRefs, D!PutOff(t, D!HashOf(t))) ELSE stringRefs
  BY PropertyFacts
<1> HIDE DEF t, f
<1>2. D!Top.parent \in D!Made
  BY <1>1, NextProperty
<1>3. propRefs \in Seq(Later(Refs)) /\ stringRefs \in Seq(Later(Hash))
  BY DEF DecodeTypeOK
<1>4. propRefs' \in Seq(Later(Refs))
  BY <1>1, <1>2, <1>3, PutOffParts, AppendType
<1>5. stringRefs' \in Seq(Later(Hash))
  BY <1>1, <1>2, <1>3, PutOffParts, AppendType
<1>6. QED
  BY <1>1, <1>4, <1>5, StackTypes

LEMMA DocumentKept ==
  ASSUME Handed \in D!Document, Handed' = Handed
  PROVE  (Handed \in D!Document)'
BY DEF D!Document, D!Tag, D!ItemTags, D!PropertiesTags, D!PropertyTag, D!StringTag, D!Hash,
       D!Nests, D!TagsUnder

(* What is done after the items.                                           *)
AfterItems ==
  \/ D!DecodeMeta \/ D!DecodeSharedStrings \/ D!PassTag \/ D!AllRead
  \/ D!ResolveNext \/ D!AllResolved

LEMMA LaterFacts ==
  ASSUME AfterItems
  PROVE  /\ phase \in {"top", "resolve"} /\ phase' \in {"top", "resolve", "done"}
         /\ UNCHANGED <<stack, itemOf, instLookup, newReference, children, instances, stringRefs>>
         /\ phase = "top" => propRefs' = propRefs
         /\ phase = "resolve" => pos' = pos
<1>1. CASE D!DecodeMeta
  BY <1>1 DEF D!DecodeMeta, D!AtTop
<1>2. CASE D!DecodeSharedStrings
  BY <1>2 DEF D!DecodeSharedStrings, D!AtTop
<1>3. CASE D!PassTag
  BY <1>3 DEF D!PassTag
<1>4. CASE D!AllRead
  BY <1>4 DEF D!AllRead
<1>5. CASE D!ResolveNext
  BY <1>5 DEF D!ResolveNext, D!Resolve
<1>6. CASE D!AllResolved
  BY <1>6 DEF D!AllResolved
<1>7. QED
  BY <1>1, <1>2, <1>3, <1>4, <1>5, <1>6 DEF AfterItems

LEMMA ResolveType ==
  ASSUME DecodeTypeOK, D!ResolveNext
  PROVE  /\ propRefs # <<>> /\ Head(propRefs) \in Later(Refs) /\ propRefs' \in Seq(Later(Refs))
         /\ newProperties' \in [News -> [Properties -> D!Value \cup {Unset}]]
         /\ newProperties' = [newProperties EXCEPT
              ![Head(propRefs).instance][Head(propRefs).property] =
                instLookup[Head(propRefs).reference]]
         /\ propRefs' = Tail(propRefs)
<1> DEFINE e == Head(propRefs)
<1>1. /\ propRefs # <<>> /\ propRefs' = Tail(propRefs)
      /\ newProperties' = [newProperties EXCEPT ![e.instance][e.property] = instLookup[e.reference]]
  BY DEF D!ResolveNext, D!Resolve, D!Resolved
<1>2. propRefs \in Seq(Later(Refs))
  BY DEF DecodeTypeOK
<1>3. e \in Later(Refs) /\ propRefs' \in Seq(Later(Refs))
  BY <1>1, <1>2
<1>4. e.instance \in News /\ e.property \in Properties /\ e.reference \in Refs
  BY <1>3 DEF Later
<1>5. instLookup[e.reference] \in D!Value
  BY <1>4 DEF DecodeTypeOK, D!Value, News
<1>6. newProperties' \in [News -> [Properties -> D!Value \cup {Unset}]]
  <2>1. newProperties \in [News -> [Properties -> D!Value \cup {Unset}]]
    BY DEF DecodeTypeOK
  <2>2. PICK inst \in News, p \in Properties, v \in D!Value :
          inst = e.instance /\ p = e.property /\ v = instLookup[e.reference]
    BY <1>4, <1>5
  <2>3. newProperties' = [newProperties EXCEPT ![inst][p] = v]
    BY <1>1, <2>2
  <2>4. QED
    BY ONLY <2>1, <2>3, inst \in News, p \in Properties, v \in D!Value
<1>7. QED
  BY <1>1, <1>3, <1>6

LEMMA LaterTypes ==
  ASSUME DecodeTypeOK, AfterItems, Handed' = Handed
  PROVE  DecodeTypeOK'
<1>1. /\ phase' \in {"items", "top", "resolve", "done"}
      /\ UNCHANGED <<stack, itemOf, instLookup, newReference, children, instances, stringRefs>>
      /\ phase \in {"top", "resolve"} /\ phase' \in {"top", "resolve", "done"}
      /\ phase = "top" => propRefs' = propRefs
      /\ phase = "resolve" => pos' = pos
  BY LaterFacts
<1>2. /\ Handed \in D!Document /\ phase \in {"items", "top", "resolve", "done"} /\ TreeTypes
      /\ newProperties \in [News -> [Properties -> D!Value \cup {Unset}]]
      /\ propRefs \in Seq(Later(Refs)) /\ stringRefs \in Seq(Later(Hash))
      /\ pos \in 0 .. Len(Handed.top)
  BY TypeParts
<1>3. TreeTypes' /\ (Handed \in D!Document)'
  BY <1>1, <1>2, TreeTypesSame, DocumentKept DEF TreeTypes
<1>4. stringRefs' \in Seq(Later(Hash))
  BY <1>1, <1>2
<1>5. /\ newProperties' \in [News -> [Properties -> D!Value \cup {Unset}]]
      /\ propRefs' \in Seq(Later(Refs)) /\ pos' \in 0 .. Len(Handed.top)
  <2>1. CASE D!DecodeMeta \/ D!PassTag
    <3>1. /\ phase = "top" /\ pos < Len(Handed.top) /\ pos' = pos + 1
          /\ newProperties' = newProperties /\ propRefs' = propRefs
      BY <2>1 DEF D!DecodeMeta, D!PassTag, D!AtTop
    <3>2. QED
      BY <1>2, <3>1, TopType
  <2>2. CASE D!DecodeSharedStrings
    <3>1. /\ phase = "top" /\ pos < Len(Handed.top) /\ pos' = pos + 1 /\ propRefs' = propRefs
          /\ newProperties' = D!Filled(D!TopTag.strings)
          /\ Handed.tags[Handed.top[pos + 1]].start = "SharedStrings"
      BY <2>2 DEF D!DecodeSharedStrings, D!AtTop
    <3>2. D!TopTag.strings \in Seq(StringTag)
      BY <3>1, TopType, StringTagsType
    <3>3. newProperties' \in [News -> [Properties -> D!Value \cup {Unset}]]
      BY <3>1, <3>2, FilledType
    <3>4. QED
      BY <1>2, <3>1, <3>3, TopType
  <2>3. CASE D!AllRead \/ D!AllResolved
    BY <1>2, <2>3 DEF D!AllRead, D!AllResolved
  <2>4. CASE D!ResolveNext
    <3>1. pos' = pos
      BY <2>4 DEF D!ResolveNext
    <3>2. QED
      BY <1>2, <2>4, <3>1, ResolveType
  <2>5. QED
    BY <2>1, <2>2, <2>3, <2>4 DEF AfterItems
<1>6. QED
  BY <1>1, <1>3, <1>4, <1>5 DEF DecodeTypeOK, TreeTypes

-------------------------------------------------------------------------------
(* Every step keeps the types and the tree.                                *)

LEMMA DecodeCases ==
  ASSUME D!DecodeNext
  PROVE  \/ Skips \/ D!DecodeItem \/ (D!DecodeProperties /\ D!TakesProperties(D!Top))
         \/ D!DecodeProperty \/ D!Return \/ AfterItems
BY DEF D!DecodeNext, Skips, AfterItems

LEMMA TypesKept ==
  ASSUME DecodeTypeOK, Calls, Pending, D!DecodeNext, Handed' = Handed
  PROVE  DecodeTypeOK'
BY DecodeCases, SkipTypes, ItemTypes, TakeTypes, PropertyTypes, ReturnTypes, LaterTypes

LEMMA TreeKept ==
  ASSUME DecodeTypeOK, TreeRead, D!DecodeNext, Handed' = Handed
  PROVE  TreeRead'
<1>1. Calls
  BY DEF TreeRead
<1>2. PICK last : last = Len(stack)
  OBVIOUS
<1>3. CASE Skips
  BY <1>1, <1>2, <1>3, SkipFacts, TagRead DEF OnlyStack
<1>4. CASE D!DecodeItem
  BY <1>2, <1>4, ItemTree
<1>5. CASE D!DecodeProperties /\ D!TakesProperties(D!Top)
  <2> DEFINE g == [D!Rest(D!Top) EXCEPT !.hasProps = TRUE, !.pending = D!NextTag.properties]
  <2>1. /\ g \in Frame /\ stack' = D!WithTop(g) /\ phase = "items" /\ OnlyStack
        /\ D!Top.tags # <<>> /\ ~D!IsInstance(Head(D!Top.tags))
        /\ g.tags = Tail(D!Top.tags) /\ g.parent = D!Top.parent /\ g.items = D!Top.items
    BY <1>1, <1>5, TakeFacts
  <2> HIDE DEF g
  <2>2. QED
    BY <1>2, <2>1, TagRead DEF OnlyStack
<1>6. CASE D!DecodeProperty
  <2> DEFINE g == [D!Top EXCEPT !.pending = Tail(D!Top.pending),
                     !.properties = D!ReadNow(Head(D!Top.pending), D!Top.properties)]
  <2>1. /\ g \in Frame /\ stack' = D!WithTop(g) /\ phase = "items" /\ OnlyStack
        /\ g.tags = D!Top.tags /\ g.parent = D!Top.parent /\ g.items = D!Top.items
    BY <1>1, <1>6, PropertyFacts
  <2> HIDE DEF g
  <2>2. QED
    BY <1>2, <2>1, TagKept DEF OnlyStack
<1>7. CASE D!Return
  BY <1>2, <1>7, ReturnTree
<1>8. CASE AfterItems
  <2>1. phase # "items" /\ phase' # "items" /\ UNCHANGED <<stack, itemOf, children, instances>>
    BY <1>8, LaterFacts
  <2>2. QED
    BY <2>1, TreeSame
<1>9. QED
  BY <1>3, <1>4, <1>5, <1>6, <1>7, <1>8, DecodeCases

-------------------------------------------------------------------------------
(* The property tags that have been read.                                  *)

LEMMA TagsSame ==
  ASSUME Grown, NEW inst \in D!Made
  PROVE  Tags(inst)' = Tags(inst)
<1>1. PICK k : k = itemOf[inst]
  OBVIOUS
<1>2. Handed' = Handed /\ itemOf'[inst] = k
  BY <1>1 DEF Grown
<1>3. D!PropertiesIn(k)' = D!PropertiesIn(k)
  BY <1>2 DEF D!PropertiesIn
<1>4. Tags(inst)' = D!PropertiesIn(k)'
  BY <1>2 DEF Tags, D!PropertiesIn
<1>5. QED
  BY <1>1, <1>3, <1>4 DEF Tags

(* A call that goes on without its Properties tag has read as many         *)
(* property tags as before.                                                *)
LEMMA PendingSame ==
  ASSUME DecodeTypeOK, Calls, Pending, Grown, NEW d \in DOMAIN stack,
         stack'[d].parent = stack[d].parent, stack'[d].hasProps = stack[d].hasProps,
         stack'[d].pending = stack[d].pending,
         \/ ReadBy(d)' = ReadBy(d)
         \/ /\ ReadBy(d)' = ReadBy(d) + 1
            /\ \/ stack[d].hasProps \/ stack[d].parent = Nil
               \/ Handed.tags[TagsOf(stack[d].parent)[ReadBy(d) + 1]].start # "Properties"
  PROVE  PendingAt(d)' /\ PropsRead(d)' = PropsRead(d)
<1>1. PendingAt(d) /\ stack[d].parent \in D!Made \cup {Nil} /\ ReadBy(d) \in Nat
  BY ReadsType DEF Pending, Calls
<1>2. PICK q : q = stack[d].parent
  OBVIOUS
<1>3. q \in D!Made \cup {Nil} /\ stack'[d].parent = q /\ Handed' = Handed
  BY <1>1, <1>2 DEF Grown
<1>4. TagsOf(q)' = TagsOf(q) /\ (q # Nil => Tags(q)' = Tags(q))
  BY <1>3, ListsKept, TagsSame
<1>5. TagsOf(stack[d].parent)' = TagsOf(stack[d].parent)
  BY <1>2, <1>3, <1>4 DEF TagsOf
<1>6. stack[d].parent # Nil => Tags(stack[d].parent)' = Tags(stack[d].parent)
  <2>1. Tags(stack[d].parent)' = Tags(q)'
    BY <1>3 DEF Tags
  <2>2. QED
    BY <1>2, <1>4, <2>1
<1>7. PropsRead(d)' = PropsRead(d)
  <2>1. stack[d].hasProps => stack[d].parent # Nil
    BY <1>1 DEF PendingAt
  <2>2. QED
    BY <1>6, <2>1 DEF PropsRead
<1>8. ASSUME ~stack[d].hasProps, NEW i \in 1 .. ReadBy(d)', stack[d].parent # Nil
      PROVE  Handed.tags[TagsOf(stack[d].parent)[i]].start # "Properties"
  <2>1. i \in 1 .. ReadBy(d) \/ (i = ReadBy(d) + 1 /\ ReadBy(d)' = ReadBy(d) + 1)
    BY <1>1
  <2>2. CASE i \in 1 .. ReadBy(d)
    BY <1>1, <1>8, <2>2 DEF PendingAt
  <2>3. QED
    BY <1>8, <2>1, <2>2
<1>9. ~stack[d].hasProps =>
        /\ stack'[d].pending = <<>>
        /\ \A i \in 1 .. ReadBy(d)' : stack'[d].parent # Nil =>
             Handed'.tags[TagsOf(stack[d].parent)'[i]].start # "Properties"
  BY <1>1, <1>3, <1>5, <1>8 DEF PendingAt
<1>10. stack[d].hasProps =>
         /\ stack'[d].parent # Nil
         /\ PropsRead(d)' >= 0
         /\ \A i \in DOMAIN stack'[d].pending :
              stack'[d].pending[i] = Tags(stack[d].parent)'[PropsRead(d)' + i]
  BY <1>1, <1>6, <1>7 DEF PendingAt
<1>11. QED
  BY <1>7, <1>9, <1>10 DEF PendingAt

LEMMA SkipPending ==
  ASSUME DecodeTypeOK, TreeRead, Pending, Skips, Handed' = Handed
  PROVE  /\ Pending' /\ DOMAIN stack' = DOMAIN stack
         /\ \A d \in DOMAIN stack : PropsRead(d)' = PropsRead(d)
<1> DEFINE f == D!Rest(D!Top)
<1>1. PICK last : last = Len(stack)
  OBVIOUS
<1>2. Calls
  BY DEF TreeRead
<1>3. /\ phase = "items" /\ OnlyStack /\ D!Top.tags # <<>>
      /\ ~D!IsInstance(Head(D!Top.tags))
      /\ D!NextTag.start = "Properties" => D!Top.hasProps \/ D!Top.parent = Nil
      /\ f \in Frame /\ f.tags = Tail(D!Top.tags) /\ f.parent = D!Top.parent
      /\ f.items = D!Top.items /\ f.pending = D!Top.pending
      /\ f.hasProps = D!Top.hasProps /\ stack' = D!WithTop(f)
  BY <1>2, SkipFacts
<1> HIDE DEF f
<1>4. /\ \A d \in DOMAIN stack : d # last => ReadBy(d)' = ReadBy(d)
      /\ ReadBy(last)' = ReadBy(last) + 1
  BY <1>1, <1>3, TagRead DEF OnlyStack
<1>5. /\ last \in DOMAIN stack /\ D!Top = stack[last] /\ DOMAIN stack' = DOMAIN stack
      /\ \A d \in DOMAIN stack : stack'[d] = IF d = last THEN f ELSE stack[d]
  BY <1>1, <1>2, <1>3, TopFrame, TopReplaced
<1>6. D!NextTag = Handed.tags[TagsOf(stack[last].parent)[ReadBy(last) + 1]]
  BY <1>1, <1>2, <1>3, <1>5, NextTag
<1>7. Grown
  BY <1>3 DEF OnlyStack, Grown, D!Made
<1>8. ASSUME NEW d \in DOMAIN stack
      PROVE  PendingAt(d)' /\ PropsRead(d)' = PropsRead(d)
  <2>1. /\ stack'[d].parent = stack[d].parent /\ stack'[d].hasProps = stack[d].hasProps
        /\ stack'[d].pending = stack[d].pending
    BY <1>3, <1>5
  <2>2. CASE d # last
    <3>1. ReadBy(d)' = ReadBy(d)
      BY <1>4, <2>2
    <3>2. QED
      BY <1>2, <1>7, <2>1, <3>1, PendingSame
  <2>3. CASE d = last
    <3>1. /\ ReadBy(d)' = ReadBy(d) + 1
          /\ \/ stack[d].hasProps \/ stack[d].parent = Nil
             \/ Handed.tags[TagsOf(stack[d].parent)[ReadBy(d) + 1]].start # "Properties"
      BY <1>3, <1>4, <1>5, <1>6, <2>3
    <3>2. QED
      BY <1>2, <1>7, <2>1, <3>1, PendingSame
  <2>4. QED
    BY <2>2, <2>3
<1>9. QED
  BY <1>5, <1>8 DEF Pending

LEMMA ItemPending ==
  ASSUME DecodeTypeOK, Calls, Pending, D!DecodeItem, Handed' = Handed,
         NEW last, last = Len(stack)
  PROVE  /\ Pending'
         /\ \A d \in DOMAIN stack : PropsRead(d)' = PropsRead(d)
         /\ PropsRead(last + 1)' = 0
<1>1. PICK inst : inst = Len(itemOf) + 1
  OBVIOUS
<1>2. /\ DOMAIN stack' = DOMAIN stack \cup {last + 1} /\ last \in DOMAIN stack
      /\ \A d \in DOMAIN stack : stack'[d].parent = stack[d].parent
      /\ stack'[last + 1].parent = inst
      /\ \A d \in DOMAIN stack :
           stack'[d].pending = stack[d].pending /\ stack'[d].hasProps = stack[d].hasProps
      /\ stack'[last + 1].pending = <<>> /\ stack'[last + 1].hasProps = FALSE
      /\ \A d \in DOMAIN stack : ReadBy(d)' = IF d = last THEN ReadBy(last) + 1 ELSE ReadBy(d)
      /\ ReadBy(last + 1)' = 0
  BY <1>1, ItemCalls
<1>3. Grown /\ phase = "items" /\ D!Top.tags # <<>> /\ D!IsInstance(Head(D!Top.tags))
  BY <1>1, ItemFacts
<1>4. Handed.tags[TagsOf(stack[last].parent)[ReadBy(last) + 1]].start # "Properties"
  <2>1. D!Top = stack[last]
    BY <1>3, TopFrame
  <2>2. Head(D!Top.tags) = TagsOf(D!Top.parent)[ReadBy(last) + 1]
    BY <1>3, NextTag
  <2>3. QED
    BY <1>3, <2>1, <2>2 DEF D!IsInstance
<1>5. ASSUME NEW d \in DOMAIN stack
      PROVE  PendingAt(d)' /\ PropsRead(d)' = PropsRead(d)
  <2>1. CASE d # last
    BY <1>2, <1>3, <2>1, PendingSame
  <2>2. CASE d = last
    BY <1>2, <1>3, <1>4, <2>2, PendingSame
  <2>3. QED
    BY <2>1, <2>2
<1>6. PICK e : e = last + 1
  OBVIOUS
<1>7. stack'[e].pending = <<>> /\ stack'[e].hasProps = FALSE /\ ReadBy(e)' = 0
  BY <1>2, <1>6
<1>8. PendingAt(e)'
  <2>1. 1 .. 0 = {}
    OBVIOUS
  <2>2. QED
    BY <1>7, <2>1 DEF PendingAt
<1>9. PropsRead(e)' = 0
  BY <1>7 DEF PropsRead
<1>10. Pending'
  BY <1>2, <1>5, <1>6, <1>8 DEF Pending
<1>11. PropsRead(last + 1)' = 0
  BY <1>6, <1>9
<1>12. QED
  BY <1>5, <1>10, <1>11

LEMMA TakePending ==
  ASSUME DecodeTypeOK, TreeRead, Pending,
         D!DecodeProperties, D!TakesProperties(D!Top), Handed' = Handed
  PROVE  /\ Pending' /\ DOMAIN stack' = DOMAIN stack
         /\ \A d \in DOMAIN stack : PropsRead(d)' = PropsRead(d)
<1> DEFINE f == [D!Rest(D!Top) EXCEPT !.hasProps = TRUE, !.pending = D!NextTag.properties]
<1>1. PICK last : last = Len(stack)
  OBVIOUS
<1>2. Calls
  BY DEF TreeRead
<1>3. /\ phase = "items" /\ OnlyStack /\ D!Top.tags # <<>>
      /\ ~D!Top.hasProps /\ D!Top.parent # Nil
      /\ ~D!IsInstance(Head(D!Top.tags)) /\ D!NextTag.start = "Properties"
      /\ D!NextTag.properties \in Seq(PropertyTag)
      /\ f \in Frame /\ f.tags = Tail(D!Top.tags) /\ f.parent = D!Top.parent
      /\ f.items = D!Top.items /\ f.pending = D!NextTag.properties
      /\ f.hasProps = TRUE /\ stack' = D!WithTop(f)
  BY <1>2, TakeFacts
<1> HIDE DEF f
<1>4. /\ \A d \in DOMAIN stack : d # last => ReadBy(d)' = ReadBy(d)
      /\ ReadBy(last)' = ReadBy(last) + 1
  BY <1>1, <1>3, TagRead DEF OnlyStack
<1>5. /\ last \in DOMAIN stack /\ D!Top = stack[last] /\ DOMAIN stack' = DOMAIN stack
      /\ D!Top.parent \in D!Made \cup {Nil}
      /\ \A d \in DOMAIN stack : stack'[d] = IF d = last THEN f ELSE stack[d]
  BY <1>1, <1>2, <1>3, TopFrame, TopReplaced
<1>6. PICK inst \in D!Made : inst = D!Top.parent
  BY <1>3, <1>5
<1>7. PICK n : n = ReadBy(last) + 1
  OBVIOUS
<1>8. /\ n \in DOMAIN TagsOf(inst) /\ n \in Nat
      /\ D!NextTag = Handed.tags[TagsOf(inst)[n]]
  BY <1>1, <1>2, <1>3, <1>6, <1>7, NextTag
<1>9. \A i \in 1 .. ReadBy(last) : Handed.tags[TagsOf(inst)[i]].start # "Properties"
  BY <1>3, <1>5, <1>6 DEF Pending, PendingAt
<1>10. Tags(inst) = D!NextTag.properties
  <2>1. PICK m \in DOMAIN TagsOf(inst) :
          /\ Handed.tags[TagsOf(inst)[m]].start = "Properties"
          /\ Tags(inst) = Handed.tags[TagsOf(inst)[m]].properties
          /\ \A i \in DOMAIN TagsOf(inst) :
               Handed.tags[TagsOf(inst)[i]].start = "Properties" => m <= i
    BY <1>3, <1>8, TagsAre
  <2>2. m \in Nat /\ m >= 1
    <3>1. TagsOf(inst) \in Seq(DOMAIN Handed.tags)
      BY ListType
    <3>2. QED
      BY <3>1
  <2>3. m <= n
    BY <1>3, <1>8, <2>1
  <2>4. m \notin 1 .. ReadBy(last)
    BY <1>9, <2>1
  <2>5. ReadBy(last) \in Nat
    BY <1>2, <1>5, ReadsType
  <2>6. m = n
    BY <1>7, <2>2, <2>3, <2>4, <2>5
  <2>7. QED
    BY <1>8, <2>1, <2>6
<1>11. Grown
  BY <1>3 DEF OnlyStack, Grown, D!Made
<1>12. Tags(inst)' = Tags(inst)
  BY <1>11, TagsSame
<1>13. /\ stack'[last].parent = inst /\ stack'[last].hasProps
       /\ stack'[last].pending = Tags(inst)
  BY <1>3, <1>5, <1>6, <1>10
<1>14. PropsRead(last)' = 0 /\ PropsRead(last) = 0
  <2>1. Len(Tags(inst)) \in Nat
    BY TagsAre
  <2>2. Tags(stack[last].parent)' = Tags(inst)'
    BY <1>13 DEF Tags
  <2>3. PropsRead(last)' = Len(Tags(inst)) - Len(Tags(inst))
    BY <1>12, <1>13, <2>2 DEF PropsRead
  <2>4. QED
    BY <1>3, <1>5, <2>1, <2>3 DEF PropsRead
<1>15. PendingAt(last)'
  <2>1. Tags(stack[last].parent)' = Tags(inst)
    BY <1>12, <1>13 DEF Tags
  <2>2. \A i \in DOMAIN Tags(inst) : i \in Nat
    BY TagsAre
  <2>3. \A i \in DOMAIN Tags(inst) : 0 + i = i
    BY <2>2
  <2>4. inst # Nil
    BY <1>3, <1>6
  <2>5. QED
    BY <1>13, <1>14, <2>1, <2>3, <2>4 DEF PendingAt
<1>16. ASSUME NEW d \in DOMAIN stack, d # last
       PROVE  PendingAt(d)' /\ PropsRead(d)' = PropsRead(d)
  <2>1. stack'[d] = stack[d] /\ ReadBy(d)' = ReadBy(d)
    BY <1>4, <1>5, <1>16
  <2>2. QED
    BY <1>2, <1>11, <2>1, PendingSame
<1>17. QED
  BY <1>5, <1>14, <1>15, <1>16 DEF Pending

LEMMA PropertyPending ==
  ASSUME DecodeTypeOK, TreeRead, Pending, D!DecodeProperty, Handed' = Handed,
         NEW last, last = Len(stack)
  PROVE  /\ Pending' /\ DOMAIN stack' = DOMAIN stack
         /\ \A d \in DOMAIN stack : stack'[d].parent = stack[d].parent
         /\ \A d \in DOMAIN stack : d # last => PropsRead(d)' = PropsRead(d) /\ stack'[d] = stack[d]
         /\ PropsRead(last)' = PropsRead(last) + 1
<1> DEFINE f == [D!Top EXCEPT !.pending = Tail(D!Top.pending),
                   !.properties = D!ReadNow(Head(D!Top.pending), D!Top.properties)]
<1>1. Calls
  BY DEF TreeRead
<1>2. /\ phase = "items" /\ OnlyStack /\ D!Top.pending # <<>>
      /\ f \in Frame /\ f.tags = D!Top.tags /\ f.parent = D!Top.parent
      /\ f.items = D!Top.items /\ f.pending = Tail(D!Top.pending)
      /\ f.hasProps = D!Top.hasProps /\ stack' = D!WithTop(f)
  BY <1>1, PropertyFacts
<1> HIDE DEF f
<1>3. \A d \in DOMAIN stack : ReadBy(d)' = ReadBy(d)
  BY <1>2, TagKept DEF OnlyStack
<1>4. /\ last \in DOMAIN stack /\ D!Top = stack[last] /\ DOMAIN stack' = DOMAIN stack
      /\ \A d \in DOMAIN stack : stack'[d] = IF d = last THEN f ELSE stack[d]
  BY <1>1, <1>2, TopFrame, TopReplaced
<1>5. PICK k : k = PropsRead(last) + 1
  OBVIOUS
<1>6. /\ D!Top.hasProps /\ D!Top.parent \in D!Made /\ D!Top.parent # Nil
      /\ PropsRead(last) \in Nat
      /\ Len(Tags(D!Top.parent)) - Len(Tail(D!Top.pending)) = k
      /\ \A i \in DOMAIN Tail(D!Top.pending) :
           Tail(D!Top.pending)[i] = Tags(D!Top.parent)[k + i]
  BY <1>1, <1>2, <1>5, NextProperty
<1>7. PICK inst \in D!Made : inst = D!Top.parent
  BY <1>6
<1>8. Grown
  BY <1>2 DEF OnlyStack, Grown, D!Made
<1>9. Tags(inst)' = Tags(inst)
  BY <1>8, TagsSame
<1>10. /\ stack'[last].parent = inst /\ stack'[last].hasProps
       /\ stack'[last].pending = Tail(D!Top.pending)
  BY <1>2, <1>4, <1>6, <1>7
<1>11. Tags(stack[last].parent)' = Tags(inst)
  BY <1>9, <1>10 DEF Tags
<1>12. PropsRead(last)' = k
  BY <1>6, <1>7, <1>10, <1>11 DEF PropsRead
<1>13. PendingAt(last)'
  <2>1. k >= 0
    BY <1>5, <1>6
  <2>2. QED
    BY <1>6, <1>7, <1>10, <1>11, <1>12, <2>1 DEF PendingAt
<1>14. ASSUME NEW d \in DOMAIN stack, d # last
       PROVE  PendingAt(d)' /\ PropsRead(d)' = PropsRead(d) /\ stack'[d] = stack[d]
  <2>1. stack'[d] = stack[d] /\ ReadBy(d)' = ReadBy(d)
    BY <1>3, <1>4, <1>14
  <2>2. QED
    BY <1>1, <1>8, <2>1, PendingSame
<1>15. \A d \in DOMAIN stack : stack'[d].parent = stack[d].parent
  BY <1>2, <1>4
<1>16. Pending'
  BY <1>4, <1>13, <1>14 DEF Pending
<1>17. QED
  BY <1>4, <1>5, <1>12, <1>14, <1>15, <1>16

LEMMA ReturnPending ==
  ASSUME DecodeTypeOK, Calls, Pending, D!Return, Handed' = Handed
  PROVE  Pending' /\ \A d \in DOMAIN stack' : PropsRead(d)' = PropsRead(d)
<1>1. PICK last : last = Len(stack)
  OBVIOUS
<1>2. /\ Grown /\ DOMAIN stack' = DOMAIN stack \ {last}
      /\ \A d \in DOMAIN stack' : stack'[d] = stack[d]
      /\ \A d \in DOMAIN stack' : ReadBy(d)' = ReadBy(d)
  BY <1>1, ReturnCalls
<1>3. ASSUME NEW d \in DOMAIN stack'
      PROVE  PendingAt(d)' /\ PropsRead(d)' = PropsRead(d)
  <2>1. d \in DOMAIN stack /\ stack'[d] = stack[d] /\ ReadBy(d)' = ReadBy(d)
    BY <1>2
  <2>2. QED
    BY <1>2, <2>1, PendingSame
<1>4. QED
  BY <1>3 DEF Pending

LEMMA LaterPending ==
  ASSUME Calls, AfterItems
  PROVE  Pending' /\ stack = <<>> /\ stack' = <<>>
<1>1. stack = <<>> /\ stack' = <<>>
  BY LaterFacts DEF Calls
<1>2. QED
  BY <1>1 DEF Pending

LEMMA PendingKept ==
  ASSUME DecodeTypeOK, TreeRead, Pending, D!DecodeNext, Handed' = Handed
  PROVE  Pending'
<1>1. Calls
  BY DEF TreeRead
<1>2. PICK last : last = Len(stack)
  OBVIOUS
<1>3. QED
  BY <1>1, <1>2, DecodeCases, SkipPending, ItemPending, TakePending, PropertyPending,
     ReturnPending, LaterPending

(* Where no property is read, the property tags read are those before.     *)
LEMMA TagsReadSame ==
  ASSUME Grown, NEW inst \in D!Made,
         \A d \in DOMAIN stack' : stack'[d].parent = inst =>
           d \in DOMAIN stack /\ stack[d].parent = inst /\ PropsRead(d)' = PropsRead(d),
         \A d \in DOMAIN stack : stack[d].parent = inst =>
           \/ d \in DOMAIN stack' /\ stack'[d].parent = inst
           \/ \A i \in DOMAIN Tags(inst) : i <= PropsRead(d)
  PROVE  TagsRead(inst)' = TagsRead(inst)
<1>1. Tags(inst)' = Tags(inst)
  BY TagsSame
<1>2. \A i \in DOMAIN Tags(inst) :
        (\A d \in DOMAIN stack' : stack'[d].parent = inst => i <= PropsRead(d)')
        <=> (\A d \in DOMAIN stack : stack[d].parent = inst => i <= PropsRead(d))
  OBVIOUS
<1>3. QED
  BY <1>1, <1>2 DEF TagsRead

(* The tags of a property.                                                 *)
LEMMA TaggedSame ==
  ASSUME Grown, NEW inst \in D!Made, NEW p
  PROVE  /\ D!Tagged(inst, p)' = D!Tagged(inst, p)
         /\ D!Links(inst, p)' = D!Links(inst, p)
         /\ D!Plain(inst, p)' = D!Plain(inst, p)
<1>1. Tags(inst)' = Tags(inst) /\ Handed' = Handed
  BY TagsSame DEF Grown
<1>2. D!Tagged(inst, p) = {<<i, Tags(inst)[i]>> : i \in {j \in DOMAIN Tags(inst) : Tags(inst)[j].name = p}}
  BY DEF D!Tagged, Tags
<1>3. D!Tagged(inst, p)' = {<<i, Tags(inst)'[i]>> : i \in {j \in DOMAIN Tags(inst)' : Tags(inst)'[j].name = p}}
  BY DEF D!Tagged, Tags
<1>4. D!Tagged(inst, p)' = D!Tagged(inst, p)
  BY <1>1, <1>2, <1>3
<1>5. D!Links(inst, p)' = D!Links(inst, p)
  BY <1>4 DEF D!Links
<1>6. D!Plain(inst, p)' = D!Plain(inst, p)
  BY <1>1, <1>4 DEF D!Plain
<1>7. QED
  BY <1>4, <1>5, <1>6

(* If no property tag is read, none counts that did not.                   *)
LEMMA ReadsSame ==
  ASSUME Grown, NEW inst \in D!Made, NEW p, TagsRead(inst)' = TagsRead(inst)
  PROVE  /\ LinksRead(inst, p)' = LinksRead(inst, p)
         /\ HashesRead(inst, p)' = HashesRead(inst, p)
         /\ PlainRead(inst, p)' = PlainRead(inst, p)
         /\ PlainOf(inst, p)' = PlainOf(inst, p)
<1>1. /\ D!Tagged(inst, p)' = D!Tagged(inst, p)
      /\ D!Links(inst, p)' = D!Links(inst, p)
      /\ D!Plain(inst, p)' = D!Plain(inst, p)
  BY TaggedSame
<1>2. LinksRead(inst, p)' = LinksRead(inst, p)
  BY <1>1 DEF LinksRead, SoFar
<1>3. PlainRead(inst, p)' = PlainRead(inst, p)
  BY <1>1 DEF PlainRead, SoFar
<1>4. HashesRead(inst, p)' = HashesRead(inst, p)
  <2>1. \A t : D!IsHash(t)' = D!IsHash(t)
    BY DEF Grown, D!IsHash
  <2>2. PICK S : S = {y \in D!Tagged(inst, p) : D!IsHash(y[2])}
    OBVIOUS
  <2>3. {y \in D!Tagged(inst, p)' : D!IsHash(y[2])'} = S
    BY <1>1, <2>1, <2>2
  <2>4. HashesRead(inst, p) = {D!HashOf(x[2]) : x \in {y \in S : y[1] \in TagsRead(inst)}}
    BY <2>2 DEF HashesRead, SoFar
  <2>5. HashesRead(inst, p)' = {D!HashOf(x[2]) : x \in {y \in S : y[1] \in TagsRead(inst)}}
    BY <2>3 DEF HashesRead, SoFar
  <2>6. QED
    BY <2>4, <2>5
<1>5. PlainOf(inst, p)' = PlainOf(inst, p)
  BY <1>3 DEF PlainOf
<1>6. QED
  BY <1>2, <1>3, <1>4, <1>5

LEMMA NothingOf ==
  ASSUME NEW inst, NEW p, TagsRead(inst)' = {}
  PROVE  /\ LinksRead(inst, p)' = {} /\ HashesRead(inst, p)' = {}
         /\ PlainRead(inst, p)' = {} /\ PlainOf(inst, p)' = Unset
<1>1. LinksRead(inst, p)' = {} /\ PlainRead(inst, p)' = {}
  BY DEF LinksRead, PlainRead, SoFar
<1>2. HashesRead(inst, p)' = {}
  BY DEF HashesRead, SoFar
<1>3. QED
  BY <1>1, <1>2 DEF PlainOf

LEMMA NamedSame ==
  ASSUME Handed' = Handed, itemOf' = itemOf, NEW r
  PROVE  D!Named(r)' = D!Named(r)
<1>1. D!Made' = D!Made
  BY DEF D!Made
<1>2. QED
  BY <1>1 DEF D!Named

(* Nothing more has been read of the property tags.                        *)
NoneRead ==
  /\ Grown
  /\ \A inst \in D!Made : TagsRead(inst)' = TagsRead(inst)
  /\ \A inst \in D!Made' : inst \notin D!Made => TagsRead(inst)' = {}

LEMMA SkipReads ==
  ASSUME DecodeTypeOK, TreeRead, Pending, Handed' = Handed,
         Skips \/ (D!DecodeProperties /\ D!TakesProperties(D!Top))
  PROVE  /\ NoneRead /\ DOMAIN stack' = DOMAIN stack /\ D!Made' = D!Made
         /\ OnlyStack /\ propRefs' = propRefs /\ stringRefs' = stringRefs /\ phase = "items"
         /\ \A d \in DOMAIN stack : /\ stack'[d].parent = stack[d].parent
                                    /\ stack'[d].properties = stack[d].properties
<1>1. Calls
  BY DEF TreeRead
<1>2. PICK f \in Frame :
        /\ phase = "items" /\ OnlyStack /\ propRefs' = propRefs /\ stringRefs' = stringRefs
        /\ f.parent = D!Top.parent /\ f.properties = D!Top.properties /\ stack' = D!WithTop(f)
  <2>1. CASE Skips
    BY <1>1, <2>1, SkipFacts
  <2>2. CASE D!DecodeProperties /\ D!TakesProperties(D!Top)
    <3> DEFINE g == [D!Rest(D!Top) EXCEPT !.hasProps = TRUE, !.pending = D!NextTag.properties]
    <3>1. /\ phase = "items" /\ OnlyStack /\ propRefs' = propRefs /\ stringRefs' = stringRefs
          /\ g \in Frame
          /\ g.parent = D!Top.parent /\ g.properties = D!Top.properties /\ stack' = D!WithTop(g)
      BY <1>1, <2>2, TakeFacts
    <3> HIDE DEF g
    <3>2. QED
      BY <3>1
  <2>3. QED
    BY <2>1, <2>2
<1>3. /\ DOMAIN stack' = DOMAIN stack /\ D!Top = stack[Len(stack)]
      /\ \A d \in DOMAIN stack : stack'[d] = IF d = Len(stack) THEN f ELSE stack[d]
  BY <1>1, <1>2, TopFrame, TopReplaced
<1>4. \A d \in DOMAIN stack : /\ stack'[d].parent = stack[d].parent
                              /\ stack'[d].properties = stack[d].properties
  BY <1>2, <1>3
<1>5. \A d \in DOMAIN stack : PropsRead(d)' = PropsRead(d)
  BY SkipPending, TakePending
<1>6. Grown /\ D!Made' = D!Made
  BY <1>2 DEF OnlyStack, Grown, D!Made
<1>7. \A inst \in D!Made : TagsRead(inst)' = TagsRead(inst)
  BY <1>3, <1>4, <1>5, <1>6, TagsReadSame
<1>8. QED
  BY <1>2, <1>3, <1>4, <1>6, <1>7 DEF NoneRead

LEMMA ItemReads ==
  ASSUME DecodeTypeOK, TreeRead, Pending, D!DecodeItem, Handed' = Handed,
         NEW inst, inst = Len(itemOf) + 1
  PROVE  NoneRead
<1>1. PICK last : last = Len(stack)
  OBVIOUS
<1>2. Calls
  BY DEF TreeRead
<1>3. /\ DOMAIN stack' = DOMAIN stack \cup {last + 1}
      /\ \A d \in DOMAIN stack : stack'[d].parent = stack[d].parent
      /\ stack'[last + 1].parent = inst
  BY <1>1, <1>2, ItemCalls
<1>4. \A d \in DOMAIN stack : PropsRead(d)' = PropsRead(d)
  BY <1>1, <1>2, ItemPending
<1>5. PropsRead(last + 1)' = 0
  BY <1>1, <1>2, ItemPending
<1>6. Grown /\ inst \notin D!Made /\ D!Made' = D!Made \cup {inst}
  BY <1>2, ItemFacts
<1>7. ASSUME NEW q \in D!Made PROVE TagsRead(q)' = TagsRead(q)
  <2>1. q # inst
    BY <1>6
  <2>2. QED
    BY <1>3, <1>4, <1>6, <2>1, TagsReadSame
<1>8. TagsRead(inst)' = {}
  <2>1. \A i \in DOMAIN Tags(inst)' : i \in Nat /\ i >= 1
    <3>1. (DecodeTypeOK /\ inst \in D!Made)'
      BY <1>2, <1>6, ItemTypes
    <3>2. (Tags(inst) \in Seq(PropertyTag))'
      BY <3>1, TagsAre, PTL
    <3>3. QED
      BY <3>2
  <2>2. PICK e : e = last + 1
    OBVIOUS
  <2>3. e \in DOMAIN stack' /\ stack'[e].parent = inst /\ PropsRead(e)' = 0
    BY <1>3, <1>5, <2>2
  <2>4. \A i \in DOMAIN Tags(inst)' : ~(i <= PropsRead(e)')
    BY <2>1, <2>3
  <2>5. QED
    BY <2>3, <2>4 DEF TagsRead
<1>9. QED
  BY <1>6, <1>7, <1>8 DEF NoneRead

LEMMA ReturnReads ==
  ASSUME DecodeTypeOK, TreeRead, Pending, D!Return, Handed' = Handed
  PROVE  NoneRead /\ D!Made' = D!Made
<1>1. PICK last : last = Len(stack)
  OBVIOUS
<1>2. Calls
  BY DEF TreeRead
<1>3. /\ D!Top = stack[last] /\ last \in DOMAIN stack
      /\ D!Top.parent \in D!Made \cup {Nil} /\ D!Top.pending = <<>>
      /\ ReadBy(last) = Len(TagsOf(D!Top.parent))
      /\ DOMAIN stack' = DOMAIN stack \ {last}
      /\ \A d \in DOMAIN stack' : stack'[d] = stack[d]
      /\ Grown /\ D!Made' = D!Made
  BY <1>1, <1>2, ReturnCalls
<1>4. \A d \in DOMAIN stack' : PropsRead(d)' = PropsRead(d)
  BY <1>2, ReturnPending
<1>5. ASSUME D!Top.parent \in D!Made
      PROVE  \A i \in DOMAIN Tags(D!Top.parent) : i <= PropsRead(last)
  <2>1. PICK inst \in D!Made : inst = D!Top.parent
    BY <1>5
  <2>2. Tags(inst) \in Seq(PropertyTag) /\ TagsOf(inst) \in Seq(DOMAIN Handed.tags)
    BY TagsAre, ListType
  <2>3. CASE D!Top.hasProps
    <3>1. PropsRead(last) = Len(Tags(inst)) - 0
      BY <1>3, <2>1, <2>3 DEF PropsRead
    <3>2. \A i \in DOMAIN Tags(inst) : i <= Len(Tags(inst)) - 0
      BY <2>2
    <3>3. QED
      BY <2>1, <3>1, <3>2
  <2>4. CASE ~D!Top.hasProps
    <3>1. inst # Nil
      BY MadeType
    <3>2. \A i \in 1 .. ReadBy(last) : Handed.tags[TagsOf(inst)[i]].start # "Properties"
      BY <1>3, <2>1, <2>4, <3>1 DEF Pending, PendingAt
    <3>3. \A i \in DOMAIN TagsOf(inst) : Handed.tags[TagsOf(inst)[i]].start # "Properties"
      BY <1>3, <2>1, <2>2, <3>2
    <3>4. Tags(inst) = <<>>
      BY <3>3, TagsAre
    <3>5. QED
      BY <2>1, <3>4
  <2>5. QED
    BY <2>3, <2>4
<1>6. \A inst \in D!Made : TagsRead(inst)' = TagsRead(inst)
  <2> SUFFICES ASSUME NEW inst \in D!Made PROVE TagsRead(inst)' = TagsRead(inst)
    OBVIOUS
  <2>1. \A d \in DOMAIN stack' : stack'[d].parent = inst =>
          d \in DOMAIN stack /\ stack[d].parent = inst /\ PropsRead(d)' = PropsRead(d)
    BY <1>3, <1>4
  <2>2. \A d \in DOMAIN stack : stack[d].parent = inst =>
          \/ d \in DOMAIN stack' /\ stack'[d].parent = inst
          \/ \A i \in DOMAIN Tags(inst) : i <= PropsRead(d)
    BY <1>3, <1>5
  <2>3. QED
    BY <1>3, <2>1, <2>2, TagsReadSame
<1>7. QED
  BY <1>3, <1>6 DEF NoneRead

LEMMA LaterReads ==
  ASSUME Calls, AfterItems, Handed' = Handed
  PROVE  NoneRead /\ D!Made' = D!Made
<1>1. stack = <<>> /\ stack' = <<>> /\ itemOf' = itemOf
  BY LaterPending, LaterFacts
<1>2. Grown /\ D!Made' = D!Made
  BY <1>1 DEF Grown, D!Made
<1>3. \A inst \in D!Made : TagsRead(inst)' = TagsRead(inst)
  BY <1>1, <1>2, TagsReadSame
<1>4. QED
  BY <1>2, <1>3 DEF NoneRead

LEMMA AwaitsSame ==
  ASSUME Awaits, NoneRead, stringRefs' = stringRefs
  PROVE  Awaits'
<1>1. \A inst, p : D!Awaited(inst, p)' = D!Awaited(inst, p)
  BY DEF D!Awaited
<1>2. \A e \in DOMAIN stringRefs : stringRefs[e].instance \in D!Made
  BY DEF Awaits
<1>3. ASSUME NEW inst \in D!Made', NEW p \in Properties
      PROVE  D!Awaited(inst, p) = HashesRead(inst, p)'
  <2>1. CASE inst \in D!Made
    <3>1. HashesRead(inst, p)' = HashesRead(inst, p)
      BY <2>1, ReadsSame DEF NoneRead
    <3>2. QED
      BY <2>1, <3>1 DEF Awaits
  <2>2. CASE inst \notin D!Made
    <3>1. HashesRead(inst, p)' = {}
      BY <2>2, NothingOf DEF NoneRead
    <3>2. D!Awaited(inst, p) = {}
      BY <1>2, <2>2 DEF D!Awaited
    <3>3. QED
      BY <3>1, <3>2
  <2>3. QED
    BY <2>1, <2>2
<1>4. \A e \in DOMAIN stringRefs' : stringRefs'[e].instance \in D!Made'
  BY <1>2 DEF NoneRead, Grown
<1>5. QED
  BY <1>1, <1>3, <1>4 DEF Awaits

LEMMA LinksOffSame ==
  ASSUME LinksOff, NoneRead, propRefs' = propRefs,
         phase' \in {"items", "top"} => phase \in {"items", "top"}
  PROVE  LinksOff'
<1>1. \A e, inst, p : IsFor(e, inst, p)' <=> IsFor(e, inst, p)
  BY DEF IsFor
<1>2. \A inst, p : PutOff(inst, p)' <=> PutOff(inst, p)
  BY <1>1 DEF PutOff
<1>3. \A e \in DOMAIN propRefs : propRefs[e].instance \in D!Made
  BY DEF LinksOff
<1>4. \A inst \in D!Made, p \in Properties : LinksRead(inst, p)' = LinksRead(inst, p)
  BY ReadsSame DEF NoneRead
<1>5. \A inst \in D!Made', p \in Properties :
        inst \notin D!Made => LinksRead(inst, p)' = {} /\ ~PutOff(inst, p)
  BY <1>3, NothingOf DEF NoneRead, PutOff, IsFor
<1>6. \A e \in DOMAIN propRefs :
        /\ propRefs[e].instance \in D!Made'
        /\ LinksRead(propRefs[e].instance, propRefs[e].property)' # {}
  <2> SUFFICES ASSUME NEW e \in DOMAIN propRefs
               PROVE  /\ propRefs[e].instance \in D!Made'
                      /\ LinksRead(propRefs[e].instance, propRefs[e].property)' # {}
    OBVIOUS
  <2>1. PICK inst, p : inst = propRefs[e].instance /\ p = propRefs[e].property
    OBVIOUS
  <2>2. inst \in D!Made /\ LinksRead(inst, p) # {}
    BY <2>1 DEF LinksOff
  <2>3. LinksRead(inst, p)' # {} /\ inst \in D!Made'
    BY <2>2, ReadsSame DEF NoneRead, Grown
  <2>4. propRefs'[e].instance = inst /\ propRefs'[e].property = p
    BY <2>1
  <2>5. QED
    BY <2>1, <2>3, <2>4 DEF LinksRead, SoFar, TagsRead, D!Links, D!Tagged
<1>7. ASSUME NEW inst \in D!Made', NEW p \in Properties, PutOff(inst, p)
      PROVE  \E e \in DOMAIN propRefs :
               /\ IsFor(e, inst, p)
               /\ propRefs[e].reference = D!LastOf(LinksRead(inst, p)').text
               /\ \A f \in DOMAIN propRefs : IsFor(f, inst, p) => f <= e
  <2>1. inst \in D!Made
    BY <1>5, <1>7
  <2>2. LinksRead(inst, p)' = LinksRead(inst, p)
    BY <1>4, <2>1
  <2>3. QED
    BY <1>7, <2>1, <2>2 DEF LinksOff
<1>8. phase' \in {"items", "top"} =>
        \A inst \in D!Made', p \in Properties : LinksRead(inst, p)' # {} => PutOff(inst, p)
  BY <1>4, <1>5 DEF LinksOff
<1>9. \A e \in DOMAIN propRefs : propRefs[e].reference \notin EmptyRefs
  BY DEF LinksOff
<1>10. QED
  BY <1>1, <1>2, <1>6, <1>7, <1>8, <1>9 DEF LinksOff

(* The contents of shared strings that have been read.                     *)
LEMMA ContentsSame ==
  ASSUME Handed' = Handed, NEW hashes
  PROVE  /\ D!Contents(hashes)' = D!Contents(hashes)
         /\ \A x : D!TextAt(x)' = D!TextAt(x)
BY DEF D!Contents, D!TextAt

LEMMA FilledSame ==
  ASSUME Handed' = Handed, NEW inst, NEW p,
         PlainOf(inst, p)' = PlainOf(inst, p), HashesRead(inst, p)' = HashesRead(inst, p),
         \A hashes : ContentsRead(hashes)' = ContentsRead(hashes)
  PROVE  FilledOf(inst, p)' = FilledOf(inst, p)
<1>1. PICK hashes : hashes = HashesRead(inst, p)
  OBVIOUS
<1>2. ContentsRead(HashesRead(inst, p))' = ContentsRead(hashes)
  BY <1>1 DEF ContentsRead, D!Contents
<1>3. \A x : D!TextAt(x)' = D!TextAt(x)
  BY ContentsSame
<1>4. QED
  BY <1>1, <1>2, <1>3 DEF FilledOf, D!TextAt

LEMMA ContentsReadSame ==
  ASSUME Handed' = Handed, pos' = pos, NEW hashes
  PROVE  ContentsRead(hashes)' = ContentsRead(hashes)
BY ContentsSame DEF ContentsRead

(* Values, when no property tag is read and no property set.               *)
LEMMA SkipValues ==
  ASSUME DecodeTypeOK, TreeRead, Pending, Values, Handed' = Handed,
         Skips \/ (D!DecodeProperties /\ D!TakesProperties(D!Top))
  PROVE  Values'
<1>1. /\ NoneRead /\ DOMAIN stack' = DOMAIN stack /\ D!Made' = D!Made
      /\ OnlyStack /\ propRefs' = propRefs
      /\ \A d \in DOMAIN stack : /\ stack'[d].parent = stack[d].parent
                                 /\ stack'[d].properties = stack[d].properties
  BY SkipReads
<1>2. itemOf' = itemOf /\ newProperties' = newProperties /\ phase' = phase /\ pos' = pos
  BY <1>1 DEF OnlyStack
<1>3. \A inst, p : PutOff(inst, p)' <=> PutOff(inst, p)
  BY <1>1 DEF PutOff, IsFor
<1>4. \A inst : Running(inst)' <=> Running(inst)
  BY <1>1 DEF Running
<1>5. ASSUME NEW inst \in D!Made, NEW p \in Properties
      PROVE  /\ PlainOf(inst, p)' = PlainOf(inst, p)
             /\ LinksRead(inst, p)' = LinksRead(inst, p)
             /\ FilledOf(inst, p)' = FilledOf(inst, p)
  <2>1. /\ PlainOf(inst, p)' = PlainOf(inst, p)
        /\ LinksRead(inst, p)' = LinksRead(inst, p)
        /\ HashesRead(inst, p)' = HashesRead(inst, p)
    BY <1>1, ReadsSame DEF NoneRead
  <2>2. \A hashes : ContentsRead(hashes)' = ContentsRead(hashes)
    BY <1>2, ContentsReadSame
  <2>3. QED
    BY <2>1, <2>2, FilledSame
<1>6. ASSUME NEW d \in DOMAIN stack', stack'[d].parent # Nil, NEW p \in Properties
      PROVE  stack'[d].properties[p] = PlainOf(stack[d].parent, p)'
  <2>1. PICK inst : inst = stack[d].parent
    OBVIOUS
  <2>2. inst \in D!Made /\ stack'[d].parent = inst
    BY <1>1, <1>6, <2>1 DEF TreeRead, Calls
  <2>3. stack'[d].properties[p] = PlainOf(inst, p)
    BY <1>1, <1>6, <2>1, <2>2 DEF Values
  <2>4. PlainOf(stack[d].parent, p)' = PlainOf(inst, p)'
    BY <2>2 DEF PlainOf, PlainRead, SoFar, TagsRead, D!Plain, D!Tagged
  <2>5. QED
    BY <1>5, <2>2, <2>3, <2>4
<1>7. ASSUME NEW inst \in D!Made', ~Running(inst)', NEW p \in Properties
      PROVE  /\ LinksRead(inst, p)' = {} \/ phase' \in {"items", "top"} =>
                  newProperties'[inst][p] = FilledOf(inst, p)'
             /\ LinksRead(inst, p)' # {} /\ ~PutOff(inst, p)' =>
                  newProperties'[inst][p] = D!Named(D!LastOf(LinksRead(inst, p)).text)'
  <2>1. inst \in D!Made /\ ~Running(inst)
    BY <1>1, <1>4, <1>7
  <2>2. PICK r : r = D!LastOf(LinksRead(inst, p)).text
    OBVIOUS
  <2>3. D!Named(D!LastOf(LinksRead(inst, p)).text)' = D!Named(r)'
    BY <1>5, <2>1, <2>2 DEF D!Named
  <2>4. D!Named(r)' = D!Named(r)
    BY <1>2, NamedSame
  <2>5. QED
    BY <1>2, <1>3, <1>5, <2>1, <2>2, <2>3, <2>4 DEF Values
<1>8. QED
  BY <1>6, <1>7 DEF Values

(* An instance that is made has no properties yet.                         *)
LEMMA ItemValues ==
  ASSUME DecodeTypeOK, TreeRead, Pending, LinksOff, Values, D!DecodeItem, Handed' = Handed
  PROVE  Values'
<1>1. PICK inst, last : inst = Len(itemOf) + 1 /\ last = Len(stack)
  OBVIOUS
<1>2. Calls
  BY DEF TreeRead
<1>3. /\ DOMAIN stack' = DOMAIN stack \cup {last + 1} /\ last \in DOMAIN stack
      /\ \A d \in DOMAIN stack : stack'[d].parent = stack[d].parent
      /\ stack'[last + 1].parent = inst
      /\ \A d \in DOMAIN stack : stack'[d].properties = stack[d].properties
      /\ stack'[last + 1].properties = D!NoProperties
  BY <1>1, <1>2, ItemCalls
<1>4. /\ phase = "items" /\ inst \notin D!Made /\ Grown /\ D!Made' = D!Made \cup {inst}
  BY <1>1, <1>2, ItemFacts
<1>5. UNCHANGED <<newProperties, phase, propRefs, pos>>
  BY DEF D!DecodeItem
<1>6. NoneRead
  BY <1>1, ItemReads
<1>7. \A q, p : PutOff(q, p)' <=> PutOff(q, p)
  BY <1>5 DEF PutOff, IsFor
<1>8. ASSUME NEW q \in D!Made, NEW p \in Properties
      PROVE  /\ PlainOf(q, p)' = PlainOf(q, p)
             /\ LinksRead(q, p)' = LinksRead(q, p)
             /\ FilledOf(q, p)' = FilledOf(q, p)
  <2>1. /\ PlainOf(q, p)' = PlainOf(q, p)
        /\ LinksRead(q, p)' = LinksRead(q, p)
        /\ HashesRead(q, p)' = HashesRead(q, p)
    BY <1>6, ReadsSame DEF NoneRead
  <2>2. \A hashes : ContentsRead(hashes)' = ContentsRead(hashes)
    BY <1>5, ContentsReadSame
  <2>3. QED
    BY <2>1, <2>2, FilledSame
<1>9. ASSUME NEW d \in DOMAIN stack', stack'[d].parent # Nil, NEW p \in Properties
      PROVE  stack'[d].properties[p] = PlainOf(stack[d].parent, p)'
  <2>1. PICK q : q = stack'[d].parent
    OBVIOUS
  <2>2. PlainOf(stack[d].parent, p)' = PlainOf(q, p)'
    BY <2>1 DEF PlainOf, PlainRead, SoFar, TagsRead, D!Plain, D!Tagged
  <2>3. CASE d \in DOMAIN stack
    <3>1. q \in D!Made /\ stack[d].parent = q /\ stack'[d].properties = stack[d].properties
      BY <1>2, <1>3, <1>9, <2>1, <2>3 DEF Calls
    <3>2. stack[d].properties[p] = PlainOf(q, p)
      BY <1>9, <2>1, <2>3, <3>1 DEF Values
    <3>3. QED
      BY <1>8, <2>2, <3>1, <3>2
  <2>4. CASE d = last + 1
    <3>1. q = inst /\ stack'[d].properties = D!NoProperties
      BY <1>3, <2>1, <2>4
    <3>2. PlainOf(inst, p)' = Unset
      BY <1>4, <1>6, NothingOf DEF NoneRead
    <3>3. D!NoProperties[p] = Unset
      BY DEF D!NoProperties
    <3>4. QED
      BY <2>2, <3>1, <3>2, <3>3
  <2>5. QED
    BY <1>3, <2>3, <2>4
<1>10. ASSUME NEW q \in D!Made', ~Running(q)', NEW p \in Properties
       PROVE  /\ newProperties'[q][p] = FilledOf(q, p)'
              /\ LinksRead(q, p)' # {} => PutOff(q, p)'
  <2>1. q # inst /\ q \in D!Made
    BY <1>3, <1>4, <1>10 DEF Running
  <2>2. ~Running(q)
    BY <1>3, <1>10 DEF Running
  <2>3. newProperties[q][p] = FilledOf(q, p)
    BY <1>4, <2>1, <2>2 DEF Values
  <2>4. LinksRead(q, p) # {} => PutOff(q, p)
    BY <1>4, <2>1 DEF LinksOff
  <2>5. QED
    BY <1>5, <1>7, <1>8, <2>1, <2>3, <2>4
<1>11. QED
  BY <1>9, <1>10 DEF Values

(* The properties of a call become those of its instance.                  *)
LEMMA ReturnValues ==
  ASSUME DecodeTypeOK, TreeRead, Pending, LinksOff, Values, Stages, D!Return, Handed' = Handed
  PROVE  Values'
<1>1. PICK last : last = Len(stack)
  OBVIOUS
<1>2. Calls
  BY DEF TreeRead
<1>3. /\ phase = "items" /\ D!Top = stack[last] /\ last \in DOMAIN stack
      /\ D!Top.parent \in D!Made \cup {Nil}
      /\ DOMAIN stack' = DOMAIN stack \ {last}
      /\ \A d \in DOMAIN stack' : stack'[d] = stack[d]
      /\ D!Made' = D!Made /\ itemOf' = itemOf
      /\ \A inst : Running(inst)' <=> (Running(inst) /\ inst # D!Top.parent)
      /\ D!Top.parent = Nil => phase' = "top" /\ newProperties' = newProperties
      /\ D!Top.parent # Nil =>
           /\ newProperties' = [newProperties EXCEPT ![D!Top.parent] = D!Top.properties]
           /\ phase' = phase
  BY <1>1, <1>2, ReturnCalls
<1>4. propRefs' = propRefs /\ pos' = pos
  BY DEF D!Return
<1>5. NoneRead
  BY ReturnReads
<1>6. \A q, p : PutOff(q, p)' <=> PutOff(q, p)
  BY <1>4 DEF PutOff, IsFor
<1>7. ASSUME NEW q \in D!Made, NEW p \in Properties
      PROVE  /\ PlainOf(q, p)' = PlainOf(q, p)
             /\ LinksRead(q, p)' = LinksRead(q, p)
             /\ FilledOf(q, p)' = FilledOf(q, p)
  <2>1. /\ PlainOf(q, p)' = PlainOf(q, p)
        /\ LinksRead(q, p)' = LinksRead(q, p)
        /\ HashesRead(q, p)' = HashesRead(q, p)
    BY <1>5, ReadsSame DEF NoneRead
  <2>2. \A hashes : ContentsRead(hashes)' = ContentsRead(hashes)
    BY <1>4, ContentsReadSame
  <2>3. QED
    BY <2>1, <2>2, FilledSame
<1>8. ASSUME NEW d \in DOMAIN stack', stack'[d].parent # Nil, NEW p \in Properties
      PROVE  stack'[d].properties[p] = PlainOf(stack[d].parent, p)'
  <2>1. PICK q : q = stack'[d].parent
    OBVIOUS
  <2>2. PlainOf(stack[d].parent, p)' = PlainOf(q, p)'
    BY <2>1 DEF PlainOf, PlainRead, SoFar, TagsRead, D!Plain, D!Tagged
  <2>3. d \in DOMAIN stack /\ q \in D!Made /\ stack[d] = stack'[d] /\ stack[d].parent = q
    BY <1>2, <1>3, <1>8, <2>1 DEF Calls
  <2>4. stack[d].properties[p] = PlainOf(q, p)
    BY <1>8, <2>1, <2>3 DEF Values
  <2>5. QED
    BY <1>7, <2>2, <2>3, <2>4
<1>9. \A hashes : ContentsRead(hashes) = {}
  <2> SUFFICES ASSUME NEW hashes, NEW x \in ContentsRead(hashes) PROVE FALSE
    OBVIOUS
  <2>1. pos = 0 /\ x \in D!Contents(hashes) /\ x[1] <= pos
    BY <1>3 DEF Stages, ContentsRead
  <2>2. \E i \in DOMAIN Handed.top : x[1] = i
    BY <2>1 DEF D!Contents
  <2>3. x[1] \in Nat /\ x[1] >= 1
    BY <2>2, DocumentParts DEF DecodeTypeOK
  <2>4. QED
    BY <2>1, <2>3
<1>10. ASSUME NEW q \in D!Made', ~Running(q)', NEW p \in Properties
       PROVE  /\ newProperties'[q][p] = FilledOf(q, p)'
              /\ LinksRead(q, p)' # {} => PutOff(q, p)'
  <2>1. q \in D!Made
    BY <1>3
  <2>2. newProperties'[q][p] = FilledOf(q, p)
    <3>1. CASE q = D!Top.parent
      <4>1. q # Nil /\ q \in News
        BY <2>1, MadeType
      <4>2. newProperties'[q] = D!Top.properties
        BY <1>3, <3>1, <4>1 DEF DecodeTypeOK
      <4>3. D!Top.properties[p] = PlainOf(q, p)
        BY <1>3, <3>1, <4>1 DEF Values
      <4>4. FilledOf(q, p) = PlainOf(q, p)
        BY <1>9 DEF FilledOf
      <4>5. QED
        BY <4>2, <4>3, <4>4
    <3>2. CASE q # D!Top.parent
      <4>1. ~Running(q)
        BY <1>3, <1>10, <3>2
      <4>2. newProperties[q][p] = FilledOf(q, p)
        BY <1>3, <2>1, <4>1 DEF Values
      <4>3. newProperties'[q] = newProperties[q]
        BY <1>3, <2>1, <3>2, MadeType DEF DecodeTypeOK
      <4>4. QED
        BY <4>2, <4>3
    <3>3. QED
      BY <3>1, <3>2
  <2>3. LinksRead(q, p) # {} => PutOff(q, p)
    BY <1>3, <2>1 DEF LinksOff
  <2>4. QED
    BY <1>6, <1>7, <2>1, <2>2, <2>3
<1>11. QED
  BY <1>8, <1>10 DEF Values

-------------------------------------------------------------------------------
(* One property tag more.                                                  *)

IsPlain(t) ==
  \/ t.kind = "value" \/ (t.kind = "broken" /\ ~Handed.discard)
  \/ t.kind = "Ref" /\ D!IsEmptyReference(t.text)

(* The last of some tags is the one that is added behind them.             *)
LEMMA LastAdded ==
  ASSUME NEW S, NEW k \in Nat, NEW t, \A x \in S : x[1] \in Nat /\ x[1] < k
  PROVE  D!LastOf(S \cup {<<k, t>>}) = t
<1> DEFINE new == <<k, t>>
           T == S \cup {new}
<1>1. PICK z : z = CHOOSE x \in T : \A y \in T : y[1] <= x[1]
  OBVIOUS
<1>2. new[1] = k /\ new[2] = t
  OBVIOUS
<1> HIDE DEF new
<1>3. \A y \in T : y[1] <= new[1]
  BY <1>2
<1>4. z \in T /\ \A y \in T : y[1] <= z[1]
  BY <1>1, <1>3
<1>5. z = new
  <2>1. new[1] <= z[1]
    BY <1>4
  <2>2. z \notin S
    BY <1>2, <2>1
  <2>3. QED
    BY <1>4, <2>2
<1>6. D!LastOf(T) = z[2]
  BY <1>1 DEF D!LastOf
<1>7. QED
  BY <1>2, <1>5, <1>6 DEF new

LEMMA TaggedAre ==
  ASSUME NEW inst, NEW p
  PROVE  /\ D!Tagged(inst, p) =
              {<<i, Tags(inst)[i]>> : i \in {j \in DOMAIN Tags(inst) : Tags(inst)[j].name = p}}
         /\ D!Links(inst, p) \subseteq D!Tagged(inst, p)
         /\ D!Plain(inst, p) \subseteq D!Tagged(inst, p)
         /\ \A x \in D!Tagged(inst, p) :
              /\ x = <<x[1], x[2]>> /\ x[1] \in DOMAIN Tags(inst) /\ x[2] = Tags(inst)[x[1]]
              /\ x[2].name = p
         /\ \A x : x \in D!Links(inst, p) <=> x \in D!Tagged(inst, p) /\ D!IsLink(x[2])
         /\ \A x : x \in D!Plain(inst, p) <=> x \in D!Tagged(inst, p) /\ IsPlain(x[2])
<1>1. D!Tagged(inst, p) =
        {<<i, Tags(inst)[i]>> : i \in {j \in DOMAIN Tags(inst) : Tags(inst)[j].name = p}}
  BY DEF D!Tagged, Tags
<1>2. \A x \in D!Tagged(inst, p) :
        /\ x = <<x[1], x[2]>> /\ x[1] \in DOMAIN Tags(inst) /\ x[2] = Tags(inst)[x[1]]
        /\ x[2].name = p
  BY <1>1
<1>3. /\ \A x : x \in D!Links(inst, p) <=> x \in D!Tagged(inst, p) /\ D!IsLink(x[2])
      /\ \A x : x \in D!Plain(inst, p) <=> x \in D!Tagged(inst, p) /\ IsPlain(x[2])
  BY DEF D!Links, D!Plain, IsPlain
<1>4. QED
  BY <1>1, <1>2, <1>3

(* The tags of S read so far, after one tag more is read.                  *)
LEMMA SoFarGrows ==
  ASSUME NEW inst, NEW p, NEW S \in SUBSET D!Tagged(inst, p), NEW k \in DOMAIN Tags(inst),
         NEW more, more = TagsRead(inst) \cup {k}
  PROVE  {x \in S : x[1] \in more} =
           IF <<k, Tags(inst)[k]>> \in S THEN SoFar(S, inst) \cup {<<k, Tags(inst)[k]>>}
           ELSE SoFar(S, inst)
<1>1. \A x \in S : x[1] = k => x = <<k, Tags(inst)[k]>>
  BY TaggedAre
<1>2. \A x \in S : x[1] \in more <=> x \in SoFar(S, inst) \/ x = <<k, Tags(inst)[k]>>
  BY <1>1 DEF SoFar
<1>3. SoFar(S, inst) \subseteq S
  BY DEF SoFar
<1>4. QED
  BY <1>2, <1>3

(* The property tag read is the next one of that instance, and of no       *)
(* other.                                                                  *)
LEMMA PropertyTagsRead ==
  ASSUME DecodeTypeOK, TreeRead, Pending, D!DecodeProperty, Handed' = Handed,
         NEW inst, inst = D!Top.parent, NEW k, k = PropsRead(Len(stack)) + 1
  PROVE  /\ inst \in D!Made /\ Grown /\ D!Made' = D!Made
         /\ k \in DOMAIN Tags(inst) /\ k \in Nat /\ Tags(inst)[k] = Head(D!Top.pending)
         /\ TagsRead(inst)' = TagsRead(inst) \cup {k}
         /\ \A i \in TagsRead(inst) : i \in Nat /\ i < k
         /\ \A q \in D!Made : q # inst => TagsRead(q)' = TagsRead(q)
         /\ \A d \in DOMAIN stack : stack[d].parent = inst => d = Len(stack)
         /\ Len(stack) \in DOMAIN stack /\ stack[Len(stack)].parent = inst
<1>1. PICK last : last = Len(stack)
  OBVIOUS
<1>2. Calls
  BY DEF TreeRead
<1>3. phase = "items" /\ D!Top.pending # <<>> /\ OnlyStack
  BY <1>2, PropertyFacts
<1>4. /\ last \in DOMAIN stack /\ D!Top = stack[last] /\ inst \in D!Made
      /\ PropsRead(last) \in Nat /\ k \in DOMAIN Tags(inst)
      /\ Head(D!Top.pending) = Tags(inst)[k]
  BY <1>1, <1>2, <1>3, NextProperty
<1>5. /\ DOMAIN stack' = DOMAIN stack
      /\ \A d \in DOMAIN stack : stack'[d].parent = stack[d].parent
      /\ \A d \in DOMAIN stack : d # last => PropsRead(d)' = PropsRead(d)
      /\ PropsRead(last)' = PropsRead(last) + 1
  BY <1>1, PropertyPending
<1>6. Grown /\ D!Made' = D!Made
  BY <1>3 DEF OnlyStack, Grown, D!Made
<1>7. \A d \in DOMAIN stack : stack[d].parent = inst <=> d = last
  BY <1>2, <1>4 DEF Calls
<1>8. Tags(inst)' = Tags(inst) /\ \A i \in DOMAIN Tags(inst) : i \in Nat
  BY <1>4, <1>6, TagsSame, TagsAre
<1>9. TagsRead(inst) = {i \in DOMAIN Tags(inst) : i <= PropsRead(last)}
  BY <1>4, <1>7 DEF TagsRead
<1>10. TagsRead(inst)' = {i \in DOMAIN Tags(inst) : i <= PropsRead(last)'}
  BY <1>4, <1>5, <1>7, <1>8 DEF TagsRead
<1>11. \A i \in DOMAIN Tags(inst) : i <= PropsRead(last)' <=> i <= PropsRead(last) \/ i = k
  BY <1>1, <1>4, <1>5, <1>8
<1>12. TagsRead(inst)' = TagsRead(inst) \cup {k}
  BY <1>4, <1>9, <1>10, <1>11
<1>13. \A i \in TagsRead(inst) : i \in Nat /\ i < k
  BY <1>1, <1>4, <1>8, <1>9
<1>14. \A q \in D!Made : q # inst => TagsRead(q)' = TagsRead(q)
  BY <1>5, <1>6, <1>7, TagsReadSame
<1>15. QED
  BY <1>1, <1>4, <1>6, <1>7, <1>8, <1>12, <1>13, <1>14

(* What one property tag more does to the links, hashes and values read.   *)
LEMMA PropertyReads ==
  ASSUME DecodeTypeOK, TreeRead, Pending, D!DecodeProperty, Handed' = Handed,
         NEW inst, inst = D!Top.parent, NEW t, t = Head(D!Top.pending), NEW p
  PROVE  /\ LinksRead(inst, p)' # {} <=>
              LinksRead(inst, p) # {} \/ (t.name = p /\ D!IsLink(t))
         /\ D!LastOf(LinksRead(inst, p))' =
              IF t.name = p /\ D!IsLink(t) THEN t ELSE D!LastOf(LinksRead(inst, p))
         /\ PlainOf(inst, p)' =
              IF t.name = p /\ IsPlain(t) THEN D!PlainValue(t) ELSE PlainOf(inst, p)
         /\ HashesRead(inst, p)' =
              IF t.name = p /\ D!IsHash(t) THEN HashesRead(inst, p) \cup {D!HashOf(t)}
              ELSE HashesRead(inst, p)
<1>1. PICK k : k = PropsRead(Len(stack)) + 1
  OBVIOUS
<1>2. /\ inst \in D!Made /\ Grown
      /\ k \in DOMAIN Tags(inst) /\ k \in Nat /\ Tags(inst)[k] = t
      /\ TagsRead(inst)' = TagsRead(inst) \cup {k}
      /\ \A i \in TagsRead(inst) : i \in Nat /\ i < k
  BY <1>1, PropertyTagsRead
<1>3. /\ D!Tagged(inst, p)' = D!Tagged(inst, p)
      /\ D!Links(inst, p)' = D!Links(inst, p)
      /\ D!Plain(inst, p)' = D!Plain(inst, p)
  BY <1>2, TaggedSame
<1>4. <<k, t>> \in D!Tagged(inst, p) <=> t.name = p
  BY <1>2, TaggedAre
<1>5. ASSUME NEW S \in SUBSET D!Tagged(inst, p)
      PROVE  /\ {x \in S : x[1] \in TagsRead(inst)'} =
                  IF <<k, t>> \in S THEN SoFar(S, inst) \cup {<<k, t>>} ELSE SoFar(S, inst)
             /\ D!LastOf(SoFar(S, inst) \cup {<<k, t>>}) = t
  <2>1. PICK more : more = TagsRead(inst)'
    OBVIOUS
  <2>2. {x \in S : x[1] \in more} =
          IF <<k, t>> \in S THEN SoFar(S, inst) \cup {<<k, t>>} ELSE SoFar(S, inst)
    BY <1>2, <2>1, SoFarGrows
  <2>3. \A x \in SoFar(S, inst) : x[1] \in Nat /\ x[1] < k
    BY <1>2 DEF SoFar
  <2>4. D!LastOf(SoFar(S, inst) \cup {<<k, t>>}) = t
    BY <1>2, <2>3, LastAdded
  <2>5. QED
    BY <2>1, <2>2, <2>4
<1>6. <<k, t>> \in D!Links(inst, p) <=> t.name = p /\ D!IsLink(t)
  <2>1. <<k, t>>[2] = t
    OBVIOUS
  <2>2. QED
    BY <1>4, <2>1, TaggedAre
<1>7. <<k, t>> \in D!Plain(inst, p) <=> t.name = p /\ IsPlain(t)
  <2>1. <<k, t>>[2] = t
    OBVIOUS
  <2>2. QED
    BY <1>4, <2>1, TaggedAre
<1>8. LinksRead(inst, p)' =
        IF t.name = p /\ D!IsLink(t) THEN LinksRead(inst, p) \cup {<<k, t>>} ELSE LinksRead(inst, p)
  <2>1. PICK S \in SUBSET D!Tagged(inst, p) : S = D!Links(inst, p)
    BY TaggedAre
  <2>2. LinksRead(inst, p)' = {x \in S : x[1] \in TagsRead(inst)'} /\ LinksRead(inst, p) = SoFar(S, inst)
    BY <1>3, <2>1 DEF LinksRead, SoFar
  <2>3. QED
    BY <1>5, <1>6, <2>1, <2>2
<1>9. PlainRead(inst, p)' =
        IF t.name = p /\ IsPlain(t) THEN PlainRead(inst, p) \cup {<<k, t>>} ELSE PlainRead(inst, p)
  <2>1. PICK S \in SUBSET D!Tagged(inst, p) : S = D!Plain(inst, p)
    BY TaggedAre
  <2>2. PlainRead(inst, p)' = {x \in S : x[1] \in TagsRead(inst)'} /\ PlainRead(inst, p) = SoFar(S, inst)
    BY <1>3, <2>1 DEF PlainRead, SoFar
  <2>3. QED
    BY <1>5, <1>7, <2>1, <2>2
<1>10. /\ D!LastOf(LinksRead(inst, p) \cup {<<k, t>>}) = t
       /\ D!LastOf(PlainRead(inst, p) \cup {<<k, t>>}) = t
  <2>1. D!Links(inst, p) \in SUBSET D!Tagged(inst, p) /\ D!Plain(inst, p) \in SUBSET D!Tagged(inst, p)
    BY TaggedAre
  <2>2. QED
    BY <1>5, <2>1 DEF LinksRead, PlainRead
<1>11. HashesRead(inst, p)' =
         IF t.name = p /\ D!IsHash(t) THEN HashesRead(inst, p) \cup {D!HashOf(t)}
         ELSE HashesRead(inst, p)
  <2>1. \A tag : D!IsHash(tag)' = D!IsHash(tag)
    BY <1>2 DEF Grown, D!IsHash
  <2>2. PICK S \in SUBSET D!Tagged(inst, p) : S = {y \in D!Tagged(inst, p) : D!IsHash(y[2])}
    OBVIOUS
  <2>3. {y \in D!Tagged(inst, p)' : D!IsHash(y[2])'} = S
    BY <1>3, <2>1, <2>2
  <2>4. HashesRead(inst, p) = {D!HashOf(x[2]) : x \in SoFar(S, inst)}
    BY <2>2 DEF HashesRead
  <2>5. HashesRead(inst, p)' = {D!HashOf(x[2]) : x \in {y \in S : y[1] \in TagsRead(inst)'}}
    BY <2>3 DEF HashesRead, SoFar
  <2>6. <<k, t>>[2] = t
    OBVIOUS
  <2>7. <<k, t>> \in S <=> t.name = p /\ D!IsHash(t)
    BY <1>4, <2>2, <2>6
  <2>8. CASE <<k, t>> \in S
    <3>1. PICK T : T = {y \in S : y[1] \in TagsRead(inst)'}
      OBVIOUS
    <3>2. T = SoFar(S, inst) \cup {<<k, t>>}
      BY <1>5, <2>8, <3>1
    <3>3. {D!HashOf(x[2]) : x \in T} = {D!HashOf(x[2]) : x \in SoFar(S, inst)} \cup {D!HashOf(t)}
      BY <2>6, <3>2
    <3>4. QED
      BY <2>4, <2>5, <2>7, <2>8, <3>1, <3>3
  <2>9. CASE <<k, t>> \notin S
    <3>1. {y \in S : y[1] \in TagsRead(inst)'} = SoFar(S, inst)
      BY <1>5, <2>9
    <3>2. QED
      BY <2>4, <2>5, <2>7, <2>9, <3>1
  <2>10. QED
    BY <2>8, <2>9
<1>12. PlainOf(inst, p)' =
         IF t.name = p /\ IsPlain(t) THEN D!PlainValue(t) ELSE PlainOf(inst, p)
  <2>1. PlainOf(inst, p)' =
          IF PlainRead(inst, p)' = {} THEN Unset ELSE D!PlainValue(D!LastOf(PlainRead(inst, p)'))
    BY DEF PlainOf
  <2>2. CASE t.name = p /\ IsPlain(t)
    <3>1. PlainRead(inst, p)' = PlainRead(inst, p) \cup {<<k, t>>}
      BY <1>9, <2>2
    <3>2. PlainRead(inst, p)' # {}
      BY <3>1
    <3>3. D!LastOf(PlainRead(inst, p)') = t
      BY <1>10, <3>1
    <3>4. QED
      BY <2>1, <2>2, <3>2, <3>3
  <2>3. CASE ~(t.name = p /\ IsPlain(t))
    <3>1. PlainRead(inst, p)' = PlainRead(inst, p)
      BY <1>9, <2>3
    <3>2. QED
      BY <2>1, <2>3, <3>1 DEF PlainOf
  <2>4. QED
    BY <2>2, <2>3
<1>13. D!LastOf(LinksRead(inst, p))' =
         IF t.name = p /\ D!IsLink(t) THEN t ELSE D!LastOf(LinksRead(inst, p))
  <2>1. D!LastOf(LinksRead(inst, p))' = D!LastOf(LinksRead(inst, p)')
    BY DEF D!LastOf
  <2>2. QED
    BY <1>8, <1>10, <2>1
<1>14. LinksRead(inst, p)' # {} <=>
         LinksRead(inst, p) # {} \/ (t.name = p /\ D!IsLink(t))
  BY <1>8
<1>15. QED
  BY <1>11, <1>12, <1>13, <1>14

LEMMA ReadNowAt ==
  ASSUME NEW t \in PropertyTag, NEW map \in [Properties -> D!Value \cup {Unset}],
         NEW p \in Properties
  PROVE  D!ReadNow(t, map)[p] =
           IF t.name = p /\ IsPlain(t) THEN D!PlainValue(t) ELSE map[p]
<1>1. p # NoAttr
  BY TagAssumption
<1>2. CASE t.name = NoAttr
  BY <1>1, <1>2 DEF D!ReadNow
<1>3. CASE t.name # NoAttr
  <2>1. t.name \in Properties
    BY <1>3, TagParts
  <2>2. \A v : [map EXCEPT ![t.name] = v][p] = IF t.name = p THEN v ELSE map[p]
    BY <2>1
  <2>3. CASE t.kind = "value"
    <3>1. D!ReadNow(t, map) = [map EXCEPT ![t.name] = t.text]
      BY <1>3, <2>3 DEF D!ReadNow
    <3>2. D!PlainValue(t) = t.text /\ IsPlain(t)
      BY <2>3 DEF D!PlainValue, IsPlain
    <3>3. QED
      BY <2>2, <3>1, <3>2
  <2>4. CASE t.kind = "broken" /\ ~Handed.discard
    <3>1. D!ReadNow(t, map) = [map EXCEPT ![t.name] = Zero]
      BY <1>3, <2>4 DEF D!ReadNow
    <3>2. D!PlainValue(t) = Zero /\ IsPlain(t)
      BY <2>4 DEF D!PlainValue, IsPlain
    <3>3. QED
      BY <2>2, <3>1, <3>2
  <2>5. CASE t.kind = "Ref" /\ t.text \in EmptyRefs
    <3>1. D!ReadNow(t, map) = [map EXCEPT ![t.name] = Nil]
      BY <1>3, <2>5 DEF D!ReadNow, D!IsEmptyReference
    <3>2. D!PlainValue(t) = Nil /\ IsPlain(t)
      BY <2>5 DEF D!PlainValue, IsPlain, D!IsEmptyReference
    <3>3. QED
      BY <2>2, <3>1, <3>2
  <2>6. CASE ~(t.kind = "value" \/ (t.kind = "broken" /\ ~Handed.discard)
               \/ (t.kind = "Ref" /\ t.text \in EmptyRefs))
    <3>1. D!ReadNow(t, map) = map
      BY <1>3, <2>6 DEF D!ReadNow, D!IsEmptyReference
    <3>2. ~IsPlain(t)
      BY <2>6 DEF IsPlain, D!IsEmptyReference
    <3>3. QED
      BY <3>1, <3>2
  <2>7. QED
    BY <2>3, <2>4, <2>5, <2>6
<1>4. QED
  BY <1>2, <1>3

(* A hash that is read is waited for.                                      *)
LEMMA PropertyAwaits ==
  ASSUME DecodeTypeOK, TreeRead, Pending, Awaits, D!DecodeProperty, Handed' = Handed
  PROVE  Awaits'
<1> DEFINE f == [D!Top EXCEPT !.pending = Tail(D!Top.pending),
                   !.properties = D!ReadNow(Head(D!Top.pending), D!Top.properties)]
<1>1. Calls
  BY DEF TreeRead
<1>2. PICK t, inst : t = Head(D!Top.pending) /\ inst = D!Top.parent
  OBVIOUS
<1>3. /\ t \in PropertyTag
      /\ stringRefs' = IF t.name # NoAttr /\ D!IsHash(t)
                       THEN Append(stringRefs, D!PutOff(t, D!HashOf(t))) ELSE stringRefs
  BY <1>1, <1>2, PropertyFacts
<1>4. /\ inst \in D!Made /\ Grown /\ D!Made' = D!Made
      /\ \A q \in D!Made : q # inst => TagsRead(q)' = TagsRead(q)
  BY <1>2, PropertyTagsRead
<1>5. ASSUME NEW q \in D!Made, NEW p \in Properties
      PROVE  HashesRead(q, p)' =
               IF q = inst /\ t.name = p /\ D!IsHash(t) THEN HashesRead(q, p) \cup {D!HashOf(t)}
               ELSE HashesRead(q, p)
  <2>1. CASE q = inst
    BY <1>2, <2>1, PropertyReads
  <2>2. CASE q # inst
    BY <1>4, <2>2, ReadsSame
  <2>3. QED
    BY <2>1, <2>2
<1>6. CASE ~(t.name # NoAttr /\ D!IsHash(t))
  <2>1. stringRefs' = stringRefs
    BY <1>3, <1>6
  <2>2. \A q, p : D!Awaited(q, p)' = D!Awaited(q, p)
    BY <2>1 DEF D!Awaited
  <2>3. \A q \in D!Made, p \in Properties : HashesRead(q, p)' = HashesRead(q, p)
    BY <1>5, <1>6, TagAssumption
  <2>4. QED
    BY <1>4, <2>1, <2>2, <2>3 DEF Awaits
<1>7. CASE t.name # NoAttr /\ D!IsHash(t)
  <2>1. PICK e \in Later(Hash) : e = D!PutOff(t, D!HashOf(t))
    BY <1>2, <1>3, <1>4, <1>7, PutOffParts
  <2>2. e.instance = inst /\ e.property = t.name /\ e.reference = D!HashOf(t)
    BY <1>2, <1>3, <1>4, <1>7, <2>1, PutOffParts
  <2>3. stringRefs \in Seq(Later(Hash)) /\ stringRefs' = Append(stringRefs, e)
    BY <1>3, <1>7, <2>1 DEF DecodeTypeOK
  <2>4. PICK n : n = Len(stringRefs) + 1
    OBVIOUS
  <2>5. /\ DOMAIN stringRefs' = DOMAIN stringRefs \cup {n}
        /\ stringRefs'[n] = e
        /\ \A i \in DOMAIN stringRefs : stringRefs'[i] = stringRefs[i]
    BY <2>3, <2>4, Appended
  <2>6. \A i \in DOMAIN stringRefs' : stringRefs'[i].instance \in D!Made'
    BY <1>4, <2>2, <2>5 DEF Awaits
  <2>7. ASSUME NEW q \in D!Made, NEW p \in Properties
        PROVE  D!Awaited(q, p)' = HashesRead(q, p)'
    <3>1. D!Awaited(q, p)' =
            {stringRefs'[i].reference : i \in {j \in DOMAIN stringRefs' :
               stringRefs'[j].instance = q /\ stringRefs'[j].property = p}}
      BY DEF D!Awaited
    <3>2. D!Awaited(q, p) =
            {stringRefs[i].reference : i \in {j \in DOMAIN stringRefs :
               stringRefs[j].instance = q /\ stringRefs[j].property = p}}
      BY DEF D!Awaited
    <3>3. D!Awaited(q, p)' = IF q = inst /\ t.name = p THEN D!Awaited(q, p) \cup {D!HashOf(t)}
                             ELSE D!Awaited(q, p)
      BY <2>2, <2>5, <3>1, <3>2
    <3>4. QED
      BY <1>5, <1>7, <3>3 DEF Awaits
  <2>8. QED
    BY <1>4, <2>6, <2>7 DEF Awaits
<1>8. QED
  BY <1>6, <1>7

(* A link that is read is put off, behind the others.                      *)
LEMMA PropertyLinks ==
  ASSUME DecodeTypeOK, TreeRead, Pending, LinksOff, D!DecodeProperty, Handed' = Handed
  PROVE  LinksOff'
<1>1. Calls
  BY DEF TreeRead
<1>2. PICK t, inst : t = Head(D!Top.pending) /\ inst = D!Top.parent
  OBVIOUS
<1>3. /\ t \in PropertyTag /\ phase = "items"
      /\ propRefs' = IF t.name # NoAttr /\ D!IsLink(t)
                     THEN Append(propRefs, D!PutOff(t, t.text)) ELSE propRefs
  BY <1>1, <1>2, PropertyFacts
<1>4. /\ inst \in D!Made /\ Grown /\ D!Made' = D!Made
      /\ \A q \in D!Made : q # inst => TagsRead(q)' = TagsRead(q)
  BY <1>2, PropertyTagsRead
<1>5. ASSUME NEW q \in D!Made, NEW p
      PROVE  /\ LinksRead(q, p)' # {} <=>
                  LinksRead(q, p) # {} \/ (q = inst /\ t.name = p /\ D!IsLink(t))
             /\ D!LastOf(LinksRead(q, p))' =
                  IF q = inst /\ t.name = p /\ D!IsLink(t) THEN t ELSE D!LastOf(LinksRead(q, p))
  <2>1. CASE q = inst
    BY <1>2, <2>1, PropertyReads
  <2>2. CASE q # inst
    <3>1. LinksRead(q, p)' = LinksRead(q, p)
      BY <1>4, <2>2, ReadsSame
    <3>2. D!LastOf(LinksRead(q, p))' = D!LastOf(LinksRead(q, p)')
      BY DEF D!LastOf
    <3>3. QED
      BY <2>2, <3>1, <3>2
  <2>3. QED
    BY <2>1, <2>2
<1>6. CASE ~(t.name # NoAttr /\ D!IsLink(t))
  <2>1. propRefs' = propRefs
    BY <1>3, <1>6
  <2>2. \A q, p : /\ PutOff(q, p)' <=> PutOff(q, p)
                  /\ \A e : IsFor(e, q, p)' <=> IsFor(e, q, p)
    BY <2>1 DEF PutOff, IsFor
  <2>3. \A q \in D!Made, p \in Properties :
          /\ LinksRead(q, p)' # {} <=> LinksRead(q, p) # {}
          /\ D!LastOf(LinksRead(q, p))' = D!LastOf(LinksRead(q, p))
    BY <1>5, <1>6, TagAssumption
  <2>4. \A e \in DOMAIN propRefs : /\ propRefs[e].instance \in D!Made
                                   /\ propRefs[e].property \in Properties
    <3>1. \A e \in DOMAIN propRefs : propRefs[e] \in Later(Refs)
      BY DEF DecodeTypeOK
    <3>2. QED
      BY <3>1 DEF LinksOff, Later
  <2>5. \A e \in DOMAIN propRefs : LinksRead(propRefs[e].instance, propRefs[e].property)' # {}
    <3> SUFFICES ASSUME NEW e \in DOMAIN propRefs
                 PROVE  LinksRead(propRefs[e].instance, propRefs[e].property)' # {}
      OBVIOUS
    <3>1. PICK q, p : q = propRefs[e].instance /\ p = propRefs[e].property
      OBVIOUS
    <3>2. LinksRead(q, p)' # {}
      BY <2>3, <2>4, <3>1 DEF LinksOff
    <3>3. propRefs'[e].instance = q /\ propRefs'[e].property = p
      BY <2>1, <3>1
    <3>4. QED
      BY <3>2, <3>3 DEF LinksRead, SoFar, TagsRead, D!Links, D!Tagged
  <2>6. ASSUME NEW q \in D!Made, NEW p \in Properties, PutOff(q, p)
        PROVE  \E e \in DOMAIN propRefs :
                 /\ IsFor(e, q, p)
                 /\ propRefs[e].reference = D!LastOf(LinksRead(q, p))'.text
                 /\ \A g \in DOMAIN propRefs : IsFor(g, q, p) => g <= e
    <3>1. D!LastOf(LinksRead(q, p))' = D!LastOf(LinksRead(q, p))
      BY <2>3
    <3>2. QED
      BY <2>6, <3>1 DEF LinksOff
  <2>7. \A q \in D!Made, p \in Properties : LinksRead(q, p)' # {} => PutOff(q, p)
    BY <1>3, <2>3 DEF LinksOff
  <2>8. \A e \in DOMAIN propRefs : propRefs[e].reference \notin EmptyRefs
    BY DEF LinksOff
  <2>9. QED
    BY <1>4, <2>1, <2>2, <2>4, <2>5, <2>6, <2>7, <2>8 DEF LinksOff
<1>7. CASE t.name # NoAttr /\ D!IsLink(t)
  <2>1. PICK new \in Later(Refs) : new = D!PutOff(t, t.text)
    BY <1>2, <1>3, <1>4, <1>7, PutOffParts
  <2>2. /\ new.instance = inst /\ new.property = t.name /\ new.reference = t.text
        /\ t.text \notin EmptyRefs /\ t.name \in Properties
    BY <1>2, <1>3, <1>4, <1>7, <2>1, PutOffParts
  <2>3. propRefs \in Seq(Later(Refs)) /\ propRefs' = Append(propRefs, new)
    BY <1>3, <1>7, <2>1 DEF DecodeTypeOK
  <2>4. PICK n : n = Len(propRefs) + 1
    OBVIOUS
  <2>5. /\ DOMAIN propRefs' = DOMAIN propRefs \cup {n} /\ n \notin DOMAIN propRefs
        /\ propRefs'[n] = new /\ n \in Nat
        /\ \A i \in DOMAIN propRefs : propRefs'[i] = propRefs[i] /\ i < n /\ i \in Nat
    BY <2>3, <2>4, Appended
  <2>6. \A e, q, p : e \in DOMAIN propRefs => (IsFor(e, q, p)' <=> IsFor(e, q, p))
    BY <2>5 DEF IsFor
  <2>7. \A q, p : IsFor(n, q, p)' <=> q = inst /\ p = t.name
    BY <2>2, <2>5 DEF IsFor
  <2>8. \A q, p : PutOff(q, p)' <=> PutOff(q, p) \/ (q = inst /\ p = t.name)
    BY <2>5, <2>6, <2>7 DEF PutOff
  <2>9. ASSUME NEW e \in DOMAIN propRefs'
        PROVE  /\ propRefs'[e].instance \in D!Made
               /\ LinksRead(propRefs[e].instance, propRefs[e].property)' # {}
               /\ propRefs'[e].reference \notin EmptyRefs
    <3>1. PICK q, p : q = propRefs'[e].instance /\ p = propRefs'[e].property
      OBVIOUS
    <3>2. q \in D!Made /\ LinksRead(q, p)' # {} /\ propRefs'[e].reference \notin EmptyRefs
      <4>1. CASE e \in DOMAIN propRefs
        <5>1. propRefs'[e] = propRefs[e] /\ q \in D!Made /\ LinksRead(q, p) # {}
              /\ propRefs[e].reference \notin EmptyRefs
          BY <2>5, <3>1, <4>1 DEF LinksOff
        <5>2. QED
          BY <1>5, <5>1
      <4>2. CASE e = n
        <5>1. propRefs'[e] = new /\ q = inst /\ p = t.name
          BY <2>2, <2>5, <3>1, <4>2
        <5>2. QED
          BY <1>4, <1>5, <1>7, <2>2, <5>1
      <4>3. QED
        BY <2>5, <4>1, <4>2
    <3>3. LinksRead(propRefs[e].instance, propRefs[e].property)' = LinksRead(q, p)'
      BY <3>1 DEF LinksRead, SoFar, TagsRead, D!Links, D!Tagged
    <3>4. QED
      BY <3>1, <3>2, <3>3
  <2>10. ASSUME NEW q \in D!Made, NEW p \in Properties, PutOff(q, p)'
         PROVE  \E e \in DOMAIN propRefs' :
                  /\ IsFor(e, q, p)'
                  /\ propRefs'[e].reference = D!LastOf(LinksRead(q, p))'.text
                  /\ \A g \in DOMAIN propRefs' : IsFor(g, q, p)' => g <= e
    <3>1. CASE q = inst /\ p = t.name
      <4>1. D!LastOf(LinksRead(q, p))' = t
        BY <1>5, <1>7, <3>1
      <4>2. IsFor(n, q, p)' /\ propRefs'[n].reference = t.text /\ n \in DOMAIN propRefs'
        BY <2>2, <2>5, <2>7, <3>1
      <4>3. \A g \in DOMAIN propRefs' : g <= n
        BY <2>5
      <4>4. QED
        BY <4>1, <4>2, <4>3
    <3>2. CASE ~(q = inst /\ p = t.name)
      <4>1. PutOff(q, p) /\ D!LastOf(LinksRead(q, p))' = D!LastOf(LinksRead(q, p))
        BY <1>5, <2>8, <2>10, <3>2
      <4>2. PICK e \in DOMAIN propRefs :
              /\ IsFor(e, q, p) /\ propRefs[e].reference = D!LastOf(LinksRead(q, p)).text
              /\ \A g \in DOMAIN propRefs : IsFor(g, q, p) => g <= e
        BY <4>1 DEF LinksOff
      <4>3. \A g \in DOMAIN propRefs' : IsFor(g, q, p)' => g \in DOMAIN propRefs
        BY <2>5, <2>7, <3>2
      <4>4. QED
        BY <2>5, <2>6, <4>1, <4>2, <4>3
    <3>3. QED
      BY <3>1, <3>2
  <2>11. \A q \in D!Made, p \in Properties : LinksRead(q, p)' # {} => PutOff(q, p)'
    BY <1>3, <1>5, <2>8 DEF LinksOff
  <2>12. QED
    BY <1>4, <2>9, <2>10, <2>11 DEF LinksOff
<1>8. QED
  BY <1>6, <1>7

(* A value that is read is in the property.                                *)
LEMMA PropertyValues ==
  ASSUME DecodeTypeOK, TreeRead, Pending, Values, D!DecodeProperty, Handed' = Handed
  PROVE  Values'
<1> DEFINE f == [D!Top EXCEPT !.pending = Tail(D!Top.pending),
                   !.properties = D!ReadNow(Head(D!Top.pending), D!Top.properties)]
<1>1. Calls
  BY DEF TreeRead
<1>2. PICK t, inst, last : t = Head(D!Top.pending) /\ inst = D!Top.parent /\ last = Len(stack)
  OBVIOUS
<1>3. /\ t \in PropertyTag /\ phase = "items" /\ OnlyStack
      /\ f \in Frame /\ f.parent = D!Top.parent
      /\ f.properties = D!ReadNow(t, D!Top.properties) /\ stack' = D!WithTop(f)
      /\ propRefs' = IF t.name # NoAttr /\ D!IsLink(t)
                     THEN Append(propRefs, D!PutOff(t, t.text)) ELSE propRefs
  BY <1>1, <1>2, PropertyFacts
<1> HIDE DEF f
<1>4. /\ inst \in D!Made /\ Grown /\ D!Made' = D!Made
      /\ \A q \in D!Made : q # inst => TagsRead(q)' = TagsRead(q)
      /\ \A d \in DOMAIN stack : stack[d].parent = inst => d = last
      /\ last \in DOMAIN stack /\ stack[last].parent = inst
  BY <1>2, PropertyTagsRead
<1>5. /\ DOMAIN stack' = DOMAIN stack /\ D!Top = stack[last] /\ D!Top \in Frame
      /\ \A d \in DOMAIN stack : stack'[d] = IF d = last THEN f ELSE stack[d]
  BY <1>1, <1>2, <1>3, TopFrame, TopReplaced
<1>6. \A d \in DOMAIN stack : stack'[d].parent = stack[d].parent
  BY <1>3, <1>5
<1>7. \A q : Running(q)' <=> Running(q)
  BY <1>5, <1>6 DEF Running
<1>8. itemOf' = itemOf /\ newProperties' = newProperties /\ phase' = phase /\ pos' = pos
  BY <1>3 DEF OnlyStack
<1>9. ASSUME NEW q \in D!Made, q # inst, NEW p \in Properties
      PROVE  /\ PlainOf(q, p)' = PlainOf(q, p)
             /\ LinksRead(q, p)' = LinksRead(q, p)
             /\ FilledOf(q, p)' = FilledOf(q, p)
  <2>1. /\ PlainOf(q, p)' = PlainOf(q, p)
        /\ LinksRead(q, p)' = LinksRead(q, p)
        /\ HashesRead(q, p)' = HashesRead(q, p)
    BY <1>4, <1>9, ReadsSame
  <2>2. \A hashes : ContentsRead(hashes)' = ContentsRead(hashes)
    BY <1>8, ContentsReadSame
  <2>3. QED
    BY <2>1, <2>2, FilledSame
<1>10. ASSUME NEW q \in D!Made, q # inst, NEW p \in Properties
       PROVE  PutOff(q, p)' <=> PutOff(q, p)
  <2>1. CASE ~(t.name # NoAttr /\ D!IsLink(t))
    BY <1>3, <2>1 DEF PutOff, IsFor
  <2>2. CASE t.name # NoAttr /\ D!IsLink(t)
    <3>1. PICK new \in Later(Refs) : new = D!PutOff(t, t.text)
      BY <1>2, <1>3, <1>4, <2>2, PutOffParts
    <3>2. new.instance = inst
      BY <1>2, <1>3, <1>4, <2>2, <3>1, PutOffParts
    <3>3. propRefs \in Seq(Later(Refs)) /\ propRefs' = Append(propRefs, new)
      BY <1>3, <2>2, <3>1 DEF DecodeTypeOK
    <3>4. PICK n : n = Len(propRefs) + 1
      OBVIOUS
    <3>5. /\ DOMAIN propRefs' = DOMAIN propRefs \cup {n} /\ propRefs'[n] = new
          /\ \A i \in DOMAIN propRefs : propRefs'[i] = propRefs[i]
      BY <3>3, <3>4, Appended
    <3>6. QED
      BY <1>10, <3>2, <3>5 DEF PutOff, IsFor
  <2>3. QED
    BY <2>1, <2>2
<1>11. ASSUME NEW d \in DOMAIN stack', stack'[d].parent # Nil, NEW p \in Properties
       PROVE  stack'[d].properties[p] = PlainOf(stack[d].parent, p)'
  <2>1. PICK q : q = stack[d].parent
    OBVIOUS
  <2>2. d \in DOMAIN stack /\ q \in D!Made /\ stack'[d].parent = q /\ q # Nil
    BY <1>1, <1>5, <1>6, <1>11, <2>1 DEF Calls
  <2>3. stack[d].properties[p] = PlainOf(q, p)
    BY <2>1, <2>2 DEF Values
  <2>4. PlainOf(stack[d].parent, p)' = PlainOf(q, p)'
    BY <2>2 DEF PlainOf, PlainRead, SoFar, TagsRead, D!Plain, D!Tagged
  <2>5. CASE d = last
    <3>1. q = inst /\ stack'[d].properties = D!ReadNow(t, D!Top.properties)
          /\ D!Top.properties[p] = PlainOf(inst, p)
      BY <1>3, <1>4, <1>5, <2>1, <2>2, <2>3, <2>5
    <3>2. D!Top.properties \in [Properties -> D!Value \cup {Unset}]
      BY <1>5, FrameParts
    <3>3. D!ReadNow(t, D!Top.properties)[p] =
            IF t.name = p /\ IsPlain(t) THEN D!PlainValue(t) ELSE D!Top.properties[p]
      BY <1>3, <3>2, ReadNowAt
    <3>4. PlainOf(inst, p)' =
            IF t.name = p /\ IsPlain(t) THEN D!PlainValue(t) ELSE PlainOf(inst, p)
      BY <1>2, PropertyReads
    <3>5. QED
      BY <2>4, <3>1, <3>3, <3>4
  <2>6. CASE d # last
    <3>1. q # inst /\ stack'[d] = stack[d]
      BY <1>4, <1>5, <2>1, <2>2, <2>6
    <3>2. QED
      BY <1>9, <2>2, <2>3, <2>4, <3>1
  <2>7. QED
    BY <2>5, <2>6
<1>12. ASSUME NEW q \in D!Made', ~Running(q)', NEW p \in Properties
       PROVE  /\ LinksRead(q, p)' = {} \/ phase' \in {"items", "top"} =>
                   newProperties'[q][p] = FilledOf(q, p)'
              /\ LinksRead(q, p)' # {} /\ ~PutOff(q, p)' =>
                   newProperties'[q][p] = D!Named(D!LastOf(LinksRead(q, p)).text)'
  <2>1. q \in D!Made /\ ~Running(q) /\ q # inst
    BY <1>4, <1>7, <1>12 DEF Running
  <2>2. PICK r : r = D!LastOf(LinksRead(q, p)).text
    OBVIOUS
  <2>3. D!Named(D!LastOf(LinksRead(q, p)).text)' = D!Named(r)'
    BY <1>9, <2>1, <2>2 DEF D!Named
  <2>4. D!Named(r)' = D!Named(r)
    BY <1>8, NamedSame
  <2>5. QED
    BY <1>8, <1>9, <1>10, <2>1, <2>2, <2>3, <2>4 DEF Values
<1>13. QED
  BY <1>11, <1>12 DEF Values

-------------------------------------------------------------------------------
(* Names, contents and references.                                         *)

LEMMA LookedSame ==
  ASSUME Looked, Handed' = Handed, itemOf' = itemOf, instLookup' = instLookup
  PROVE  Looked'
BY NamedSame DEF Looked

(* The instance that is made last has its name from then on.               *)
LEMMA ItemLooked ==
  ASSUME DecodeTypeOK, Calls, Looked, D!DecodeItem, Handed' = Handed
  PROVE  Looked'
<1>1. PICK inst : inst = Len(itemOf) + 1
  OBVIOUS
<1>2. /\ phase = "items" /\ D!Top.tags # <<>>
      /\ inst \in News /\ inst \notin D!Made /\ Grown
      /\ D!IsInstance(Head(D!Top.tags))
      /\ D!Made' = D!Made \cup {inst} /\ itemOf'[inst] = Head(D!Top.tags)
  BY <1>1, ItemFacts
<1>3. instLookup' = D!Mark(inst, D!ReferentOf(D!NextTag))
  BY <1>1 DEF D!DecodeItem
<1>4. D!NextTag = Handed.tags[Head(D!Top.tags)] /\ D!NextTag \in Tag /\ D!NextTag.start = "Item"
  <2>1. /\ D!NextTag = Handed.tags[Head(D!Top.tags)] /\ Head(D!Top.tags) \in DOMAIN Handed.tags
        /\ Handed.tags \in Seq(Tag)
    BY <1>2, NextTag, DocumentParts DEF DecodeTypeOK
  <2>2. QED
    BY <1>2, <2>1 DEF D!IsInstance
<1>5. /\ D!NextTag.referent \in Refs \cup {NoAttr} /\ NoAttr \notin Refs
      /\ NoRef \in EmptyRefs /\ EmptyRefs \subseteq Refs
  BY <1>4, TagKinds, TagAssumption, RefsAssumption DEF ItemTags
<1>6. \A q \in D!Made : q \in Nat /\ q < inst
  BY <1>1, MadeType
<1>7. inst \in Nat
  BY <1>2 DEF News
<1>8. ASSUME NEW r \in Refs \ EmptyRefs PROVE instLookup'[r] = D!Named(r)'
  <2> DEFINE old == {q \in D!Made : Handed.tags[itemOf[q]].referent = r}
             new == {q \in D!Made' : Handed'.tags[itemOf'[q]].referent = r}
  <2>1. D!Named(r) = IF old = {} THEN Nil ELSE D!Last(old)
    BY DEF D!Named
  <2>2. D!Named(r)' = IF new = {} THEN Nil ELSE D!Last(new)
    BY DEF D!Named, D!Last
  <2>3. instLookup[r] = D!Named(r)
    BY DEF Looked
  <2>4. CASE D!NextTag.referent = r
    <3>1. instLookup'[r] = inst
      BY <1>2, <1>3, <1>5, <2>4 DEF D!Mark, D!ReferentOf, D!IsEmptyReference, DecodeTypeOK
    <3>2. inst \in new
      BY <1>2, <1>4, <2>4 DEF Grown
    <3>3. \A q \in new : q <= inst
      BY <1>2, <1>6, <1>7
    <3>4. D!Last(new) = inst
      <4> HIDE DEF new
      <4>1. PICK z : z = CHOOSE i \in new : \A j \in new : j <= i
        OBVIOUS
      <4>2. z \in new /\ \A j \in new : j <= z
        BY <3>2, <3>3, <4>1
      <4>3. z \in Nat
        BY <1>2, <1>6, <1>7, <4>2 DEF new
      <4>4. z = inst
        BY <1>7, <3>2, <3>3, <4>2, <4>3
      <4>5. QED
        BY <4>1, <4>4 DEF D!Last
    <3>5. QED
      BY <2>2, <3>1, <3>2, <3>4
  <2>5. CASE D!NextTag.referent # r
    <3>1. instLookup'[r] = instLookup[r]
      BY <1>3, <1>5, <2>5 DEF D!Mark, D!ReferentOf, D!IsEmptyReference, DecodeTypeOK
    <3>2. new = old
      BY <1>2, <1>4, <2>5 DEF Grown
    <3>3. QED
      BY <2>1, <2>2, <2>3, <3>1, <3>2
  <2>6. QED
    BY <2>4, <2>5
<1>9. QED
  BY <1>8 DEF Looked

LEMMA LaterSame ==
  ASSUME AfterItems, Handed' = Handed, Calls
  PROVE  /\ stack = <<>> /\ stack' = <<>> /\ itemOf' = itemOf /\ instLookup' = instLookup
         /\ stringRefs' = stringRefs /\ NoneRead /\ D!Made' = D!Made
         /\ phase' \in {"items", "top"} => phase \in {"items", "top"}
<1>1. /\ stack = <<>> /\ stack' = <<>> /\ itemOf' = itemOf /\ instLookup' = instLookup
      /\ stringRefs' = stringRefs
  BY LaterPending, LaterFacts
<1>2. NoneRead /\ D!Made' = D!Made
  BY LaterReads
<1>3. phase' \in {"items", "top"} => phase \in {"items", "top"}
  BY DEF AfterItems, D!DecodeMeta, D!DecodeSharedStrings, D!PassTag, D!AllRead, D!ResolveNext,
         D!AllResolved, D!AtTop
<1>4. QED
  BY <1>1, <1>2, <1>3

(* Values, when no property is set after the items.                        *)
LEMMA ValuesSame ==
  ASSUME Values, AfterItems, Handed' = Handed, Calls,
         newProperties' = newProperties, propRefs' = propRefs,
         \A hashes : ContentsRead(hashes)' = ContentsRead(hashes)
  PROVE  Values'
<1>1. /\ stack = <<>> /\ stack' = <<>> /\ itemOf' = itemOf /\ NoneRead /\ D!Made' = D!Made
      /\ phase' \in {"items", "top"} => phase \in {"items", "top"}
  BY LaterSame
<1>2. \A inst : ~Running(inst) /\ ~Running(inst)'
  BY <1>1 DEF Running
<1>3. \A inst, p : PutOff(inst, p)' <=> PutOff(inst, p)
  BY DEF PutOff, IsFor
<1>4. ASSUME NEW inst \in D!Made, NEW p \in Properties
      PROVE  /\ LinksRead(inst, p)' = LinksRead(inst, p)
             /\ FilledOf(inst, p)' = FilledOf(inst, p)
  <2>1. /\ PlainOf(inst, p)' = PlainOf(inst, p)
        /\ LinksRead(inst, p)' = LinksRead(inst, p)
        /\ HashesRead(inst, p)' = HashesRead(inst, p)
    BY <1>1, ReadsSame DEF NoneRead
  <2>2. QED
    BY <2>1, FilledSame
<1>5. ASSUME NEW inst \in D!Made, NEW p \in Properties
      PROVE  D!Named(D!LastOf(LinksRead(inst, p)).text)' = D!Named(D!LastOf(LinksRead(inst, p)).text)
  <2>1. PICK r : r = D!LastOf(LinksRead(inst, p)).text
    OBVIOUS
  <2>2. D!Named(D!LastOf(LinksRead(inst, p)).text)' = D!Named(r)'
    BY <1>4, <2>1 DEF D!Named
  <2>3. QED
    BY <1>1, <2>1, <2>2, NamedSame
<1>6. \A d \in DOMAIN stack' : FALSE
  BY <1>1
<1>7. ASSUME NEW inst \in D!Made, NEW p \in Properties
      PROVE  /\ LinksRead(inst, p)' = {} \/ phase' \in {"items", "top"} =>
                  newProperties'[inst][p] = FilledOf(inst, p)'
             /\ LinksRead(inst, p)' # {} /\ ~PutOff(inst, p)' =>
                  newProperties'[inst][p] = D!Named(D!LastOf(LinksRead(inst, p)).text)'
  BY <1>1, <1>2, <1>3, <1>4, <1>5 DEF Values
<1>8. QED
  BY <1>1, <1>6, <1>7 DEF Values

(* The contents of a hash are at these places.                             *)
LEMMA ContentsAre ==
  ASSUME NEW hashes, NEW x
  PROVE  x \in D!Contents(hashes) <=>
           \E i \in DOMAIN Handed.top :
             /\ Handed.tags[Handed.top[i]].start = "SharedStrings"
             /\ \E j \in D!KeysAt(Handed.tags[Handed.top[i]].strings, hashes) : x = <<i, j>>
BY DEF D!Contents, D!KeysAt

(* A tag that is no SharedStrings has no contents.                         *)
LEMMA NoContents ==
  ASSUME DecodeTypeOK, phase = "top", pos < Len(Handed.top), D!TopTag.start # "SharedStrings",
         Handed' = Handed, pos' = pos + 1, NEW hashes
  PROVE  ContentsRead(hashes)' = ContentsRead(hashes)
<1>1. /\ pos \in Nat /\ D!TopTag = Handed.tags[Handed.top[pos + 1]]
      /\ Handed.top \in Seq(DOMAIN Handed.tags)
  BY TopType, DocumentParts DEF DecodeTypeOK
<1>2. \A x \in D!Contents(hashes) : x[1] <= pos + 1 <=> x[1] <= pos
  <2> SUFFICES ASSUME NEW x \in D!Contents(hashes) PROVE x[1] <= pos + 1 <=> x[1] <= pos
    OBVIOUS
  <2>1. PICK i \in DOMAIN Handed.top :
          Handed.tags[Handed.top[i]].start = "SharedStrings" /\ x[1] = i
    BY ContentsAre
  <2>2. i \in Nat /\ i # pos + 1
    BY <1>1, <2>1
  <2>3. QED
    BY <1>1, <2>1, <2>2
<1>3. D!Contents(hashes)' = D!Contents(hashes)
  BY ContentsSame
<1>4. QED
  BY <1>2, <1>3 DEF ContentsRead

(* A SharedStrings tag has the contents of those hashes that it has.       *)
LEMMA MoreContents ==
  ASSUME DecodeTypeOK, phase = "top", pos < Len(Handed.top), D!TopTag.start = "SharedStrings",
         Handed' = Handed, pos' = pos + 1, NEW hashes
  PROVE  /\ D!KeysAt(D!TopTag.strings, hashes) = {} =>
              ContentsRead(hashes)' = ContentsRead(hashes)
         /\ D!KeysAt(D!TopTag.strings, hashes) # {} =>
              /\ ContentsRead(hashes)' # {}
              /\ D!TextAt(D!Latest(ContentsRead(hashes)')) = D!ContentsOf(D!TopTag.strings, hashes)
<1>1. PICK n, strings : n = pos + 1 /\ strings = D!TopTag.strings
  OBVIOUS
<1>2. /\ pos \in Nat /\ n \in DOMAIN Handed.top /\ D!TopTag = Handed.tags[Handed.top[n]]
      /\ Handed.top[n] \in DOMAIN Handed.tags /\ Handed.top \in Seq(DOMAIN Handed.tags)
  BY <1>1, TopType, DocumentParts DEF DecodeTypeOK
<1>3. strings = Handed.tags[Handed.top[n]].strings /\ strings \in Seq(StringTag)
  BY <1>1, <1>2, StringTagsType
<1> DEFINE keys == D!KeysAt(strings, hashes)
           S == ContentsRead(hashes)
           T == {x \in D!Contents(hashes) : x[1] <= n}
<1>4. ContentsRead(hashes)' = T
  BY <1>1, ContentsSame DEF ContentsRead
<1>5. \A x \in D!Contents(hashes) : x = <<x[1], x[2]>> /\ x[1] \in Nat /\ x[2] \in Nat
  <2> SUFFICES ASSUME NEW x \in D!Contents(hashes)
               PROVE  x = <<x[1], x[2]>> /\ x[1] \in Nat /\ x[2] \in Nat
    OBVIOUS
  <2>1. PICK i \in DOMAIN Handed.top :
          /\ Handed.tags[Handed.top[i]].start = "SharedStrings"
          /\ \E j \in D!KeysAt(Handed.tags[Handed.top[i]].strings, hashes) : x = <<i, j>>
    BY ContentsAre
  <2>2. PICK j \in D!KeysAt(Handed.tags[Handed.top[i]].strings, hashes) : x = <<i, j>>
    BY <2>1
  <2>3. Handed.top[i] \in DOMAIN Handed.tags /\ i \in Nat
    BY <1>2
  <2>4. Handed.tags[Handed.top[i]].strings \in Seq(StringTag)
    BY <2>1, <2>3, StringTagsType
  <2>5. j \in Nat
    BY <2>4 DEF D!KeysAt
  <2>6. QED
    BY <2>2, <2>3, <2>5
<1>6. \A x : x \in T <=> x \in S \/ \E j \in keys : x = <<n, j>>
  <2>1. ASSUME NEW x \in T, x \notin S PROVE \E j \in keys : x = <<n, j>>
    <3>1. x \in D!Contents(hashes) /\ x[1] <= n /\ ~(x[1] <= pos)
      BY <2>1 DEF ContentsRead
    <3>2. x[1] = n
      BY <1>1, <1>2, <1>5, <3>1
    <3>3. PICK i \in DOMAIN Handed.top :
            \E j \in D!KeysAt(Handed.tags[Handed.top[i]].strings, hashes) : x = <<i, j>>
      BY <3>1, ContentsAre
    <3>4. i = n
      BY <3>2, <3>3
    <3>5. QED
      BY <1>3, <3>3, <3>4
  <2>2. ASSUME NEW x \in S PROVE x \in T
    BY <1>1, <1>2, <1>5 DEF ContentsRead
  <2>3. ASSUME NEW j \in keys PROVE <<n, j>> \in T
    <3>1. <<n, j>> \in D!Contents(hashes)
      BY <1>2, <1>3, ContentsAre
    <3>2. <<n, j>>[1] <= n
      BY <1>1, <1>2
    <3>3. QED
      BY <3>1, <3>2
  <2>4. QED
    BY <2>1, <2>2, <2>3
<1>7. keys = {} => T = S
  BY <1>6
<1>8. ASSUME keys # {}
      PROVE  T # {} /\ D!TextAt(D!Latest(T)) = D!ContentsOf(strings, hashes)
  <2>1. PICK i \in keys : /\ \A j \in keys : j <= i
                          /\ i \in DOMAIN strings
                          /\ D!ContentsOf(strings, hashes) = strings[i].text
    BY <1>3, <1>8, ContentsType
  <2>2. i \in Nat /\ n \in Nat
    BY <1>1, <1>2, <1>3, <2>1
  <2>3. PICK w : w = <<n, i>>
    OBVIOUS
  <2>4. w \in T /\ w[1] = n /\ w[2] = i
    BY <1>6, <2>1, <2>3
  <2>5. \A x \in S : x[1] <= pos /\ x[1] \in Nat
    BY <1>5 DEF ContentsRead
  <2>6. \A y \in T : y[1] < w[1] \/ (y[1] = w[1] /\ y[2] <= w[2])
    <3> SUFFICES ASSUME NEW y \in T PROVE y[1] < n \/ (y[1] = n /\ y[2] <= i)
      BY <2>4
    <3>1. CASE y \in S
      BY <1>1, <1>2, <2>5, <3>1
    <3>2. CASE y \notin S
      <4>1. PICK j \in keys : y = <<n, j>>
        BY <1>6, <3>2
      <4>2. y[1] = n /\ y[2] = j /\ j <= i
        BY <2>1, <4>1
      <4>3. QED
        BY <4>2
    <3>3. QED
      BY <3>1, <3>2
  <2>7. \A y \in T : y = <<y[1], y[2]>> /\ y[1] \in Nat /\ y[2] \in Nat
    BY <1>5
  <2> HIDE DEF T
  <2>8. PICK z : z = CHOOSE x \in T : \A y \in T : y[1] < x[1] \/ (y[1] = x[1] /\ y[2] <= x[2])
    OBVIOUS
  <2>9. z \in T /\ \A y \in T : y[1] < z[1] \/ (y[1] = z[1] /\ y[2] <= z[2])
    BY <2>4, <2>6, <2>8
  <2>10. z[1] = n /\ z[2] = i
    <3>1. n < z[1] \/ (n = z[1] /\ i <= z[2])
      BY <2>4, <2>9
    <3>2. z[1] < n \/ (z[1] = n /\ z[2] <= i)
      BY <2>4, <2>6, <2>9
    <3>3. z[1] \in Nat /\ z[2] \in Nat
      BY <2>7, <2>9
    <3>4. QED
      BY <2>2, <3>1, <3>2, <3>3
  <2>11. D!Latest(T) = z
    BY <2>8 DEF D!Latest
  <2>12. D!TextAt(z) = strings[i].text
    BY <1>3, <2>10 DEF D!TextAt
  <2>13. QED
    BY <2>1, <2>4, <2>11, <2>12
<1>9. QED
  BY <1>1, <1>4, <1>7, <1>8

(* A SharedStrings tag fills what waits for its strings, and leaves the    *)
(* rest.                                                                   *)
LEMMA StringsValues ==
  ASSUME DecodeTypeOK, Calls, Awaits, LinksOff, Values, D!DecodeSharedStrings, Handed' = Handed
  PROVE  Values'
<1>1. AfterItems
  BY DEF AfterItems
<1>2. PICK strings : strings = D!TopTag.strings
  OBVIOUS
<1>3. /\ phase = "top" /\ phase' = "top" /\ pos < Len(Handed.top) /\ pos' = pos + 1
      /\ propRefs' = propRefs /\ newProperties' = D!Filled(strings)
      /\ Handed.tags[Handed.top[pos + 1]].start = "SharedStrings"
  BY <1>2 DEF D!DecodeSharedStrings, D!AtTop
<1>4. D!TopTag.start = "SharedStrings"
  BY <1>3, TopType
<1>5. /\ stack = <<>> /\ stack' = <<>> /\ NoneRead /\ D!Made' = D!Made
  BY <1>1, LaterSame
<1>6. \A inst : ~Running(inst)
  BY <1>5 DEF Running
<1>7. \A inst, p : PutOff(inst, p)' <=> PutOff(inst, p)
  BY <1>3 DEF PutOff, IsFor
<1>8. ASSUME NEW inst \in D!Made, NEW p \in Properties
      PROVE  /\ newProperties'[inst][p] = FilledOf(inst, p)'
             /\ LinksRead(inst, p)' # {} => PutOff(inst, p)'
  <2>1. /\ PlainOf(inst, p)' = PlainOf(inst, p)
        /\ LinksRead(inst, p)' = LinksRead(inst, p)
        /\ HashesRead(inst, p)' = HashesRead(inst, p)
    BY <1>5, ReadsSame DEF NoneRead
  <2>2. PICK hashes : hashes = HashesRead(inst, p)
    OBVIOUS
  <2>3. D!Awaited(inst, p) = hashes
    BY <2>2 DEF Awaits
  <2>4. newProperties[inst][p] = FilledOf(inst, p)
    BY <1>3, <1>6 DEF Values
  <2>5. newProperties'[inst][p] =
          IF D!KeysAt(strings, hashes) = {} THEN newProperties[inst][p]
          ELSE D!ContentsOf(strings, hashes)
    <3>1. inst \in 1 .. MaxMade
      BY MadeType DEF News
    <3>2. QED
      BY <1>3, <2>3, <3>1 DEF D!Filled
  <2>6. FilledOf(inst, p)' =
          IF ContentsRead(hashes)' = {} THEN PlainOf(inst, p)
          ELSE D!TextAt(D!Latest(ContentsRead(hashes)'))
    <3>1. ContentsRead(HashesRead(inst, p))' = ContentsRead(hashes)'
      BY <2>1, <2>2 DEF ContentsRead, D!Contents
    <3>2. \A x : D!TextAt(x)' = D!TextAt(x)
      BY ContentsSame
    <3>3. QED
      BY <2>1, <3>1, <3>2 DEF FilledOf, D!TextAt
  <2>7. FilledOf(inst, p) =
          IF ContentsRead(hashes) = {} THEN PlainOf(inst, p)
          ELSE D!TextAt(D!Latest(ContentsRead(hashes)))
    BY <2>2 DEF FilledOf
  <2>8. /\ D!KeysAt(strings, hashes) = {} => ContentsRead(hashes)' = ContentsRead(hashes)
        /\ D!KeysAt(strings, hashes) # {} =>
             /\ ContentsRead(hashes)' # {}
             /\ D!TextAt(D!Latest(ContentsRead(hashes)')) = D!ContentsOf(strings, hashes)
    BY <1>2, <1>3, <1>4, MoreContents
  <2>9. newProperties'[inst][p] = FilledOf(inst, p)'
    BY <2>4, <2>5, <2>6, <2>7, <2>8
  <2>10. LinksRead(inst, p)' # {} => PutOff(inst, p)'
    BY <1>3, <1>7, <2>1 DEF LinksOff
  <2>11. QED
    BY <2>9, <2>10
<1>9. \A d \in DOMAIN stack' : FALSE
  BY <1>5
<1>10. QED
  BY <1>5, <1>8, <1>9 DEF Values

(* The first of the references put off is gone; if no other is for its     *)
(* property, it was the last link there.                                   *)
LEMMA ResolveLinks ==
  ASSUME DecodeTypeOK, Calls, LinksOff, D!ResolveNext, Handed' = Handed,
         NEW e, e = Head(propRefs)
  PROVE  /\ LinksOff'
         /\ e.instance \in D!Made /\ e.property \in Properties
         /\ e.reference \in Refs \ EmptyRefs
         /\ LinksRead(e.instance, e.property) # {}
         /\ ~PutOff(e.instance, e.property)' =>
              e.reference = D!LastOf(LinksRead(e.instance, e.property)).text
         /\ \A q, p : ~(q = e.instance /\ p = e.property) => (PutOff(q, p)' <=> PutOff(q, p))
<1>1. AfterItems /\ phase = "resolve" /\ phase' = phase
  BY DEF AfterItems, D!ResolveNext
<1>2. NoneRead /\ D!Made' = D!Made
  BY <1>1, LaterSame
<1>4. propRefs \in Seq(Later(Refs)) /\ propRefs # <<>> /\ propRefs' = Tail(propRefs) /\ e \in Later(Refs)
  BY ResolveType DEF DecodeTypeOK
<1>5. /\ 1 \in DOMAIN propRefs /\ propRefs[1] = e
      /\ \A i \in DOMAIN propRefs : i \in Nat /\ i >= 1
      /\ \A i \in DOMAIN propRefs' : i + 1 \in DOMAIN propRefs /\ propRefs'[i] = propRefs[i + 1]
                                     /\ i \in Nat
      /\ \A i \in DOMAIN propRefs : i # 1 => i - 1 \in DOMAIN propRefs'
  BY <1>4
<1>6. /\ e.instance \in D!Made /\ e.property \in Properties
      /\ e.reference \in Refs \ EmptyRefs /\ LinksRead(e.instance, e.property) # {}
  BY <1>4, <1>5 DEF LinksOff, Later
<1>7. \A i \in DOMAIN propRefs' : \A q, p : IsFor(i, q, p)' <=> IsFor(i + 1, q, p)
  BY <1>5 DEF IsFor
<1>8. \A i \in DOMAIN propRefs : \A q, p : i # 1 =>
        i - 1 \in DOMAIN propRefs' /\ (IsFor(i - 1, q, p)' <=> IsFor(i, q, p))
           /\ propRefs'[i - 1] = propRefs[i]
  <2> SUFFICES ASSUME NEW i \in DOMAIN propRefs, NEW q, NEW p, i # 1
               PROVE  i - 1 \in DOMAIN propRefs' /\ (IsFor(i - 1, q, p)' <=> IsFor(i, q, p))
                        /\ propRefs'[i - 1] = propRefs[i]
    OBVIOUS
  <2>1. i - 1 \in DOMAIN propRefs' /\ (i - 1) + 1 = i
    BY <1>5
  <2>2. propRefs'[i - 1] = propRefs[i]
    BY <1>5, <2>1
  <2>3. QED
    BY <2>1, <2>2 DEF IsFor
<1>9. \A q, p : IsFor(1, q, p) <=> q = e.instance /\ p = e.property
  BY <1>5 DEF IsFor
<1>10. \A q, p : PutOff(q, p)' => PutOff(q, p)
  BY <1>5, <1>7 DEF PutOff
<1>11. \A q, p : ~(q = e.instance /\ p = e.property) => (PutOff(q, p)' <=> PutOff(q, p))
  <2>1. ASSUME NEW q, NEW p, ~(q = e.instance /\ p = e.property), PutOff(q, p)
        PROVE  PutOff(q, p)'
    <3>1. PICK i \in DOMAIN propRefs : IsFor(i, q, p)
      BY <2>1 DEF PutOff
    <3>2. i # 1
      BY <1>9, <2>1, <3>1
    <3>3. QED
      BY <1>8, <3>1, <3>2 DEF PutOff
  <2>2. QED
    BY <1>10, <2>1
<1>12. ASSUME ~PutOff(e.instance, e.property)'
       PROVE  e.reference = D!LastOf(LinksRead(e.instance, e.property)).text
  <2>1. PICK q, p : q = e.instance /\ p = e.property
    OBVIOUS
  <2>2. PutOff(q, p)
    BY <1>5, <1>9, <2>1 DEF PutOff
  <2>3. PICK i \in DOMAIN propRefs :
          IsFor(i, q, p) /\ propRefs[i].reference = D!LastOf(LinksRead(q, p)).text
    BY <1>6, <2>1, <2>2 DEF LinksOff
  <2>4. i = 1
    <3>1. ~PutOff(q, p)'
      BY <1>12, <2>1 DEF PutOff, IsFor
    <3>2. QED
      BY <1>8, <2>3, <3>1 DEF PutOff
  <2>5. QED
    BY <1>5, <2>1, <2>3, <2>4
<1>13. \A q \in D!Made, p \in Properties : LinksRead(q, p)' = LinksRead(q, p)
  BY <1>2, ReadsSame DEF NoneRead
<1>14. \A i \in DOMAIN propRefs' :
         /\ propRefs'[i].instance \in D!Made
         /\ propRefs'[i].reference \notin EmptyRefs
         /\ LinksRead(propRefs[i].instance, propRefs[i].property)' # {}
  <2> SUFFICES ASSUME NEW i \in DOMAIN propRefs'
               PROVE  /\ propRefs'[i].instance \in D!Made
                      /\ propRefs'[i].reference \notin EmptyRefs
                      /\ LinksRead(propRefs[i].instance, propRefs[i].property)' # {}
    OBVIOUS
  <2>1. PICK q, p : q = propRefs'[i].instance /\ p = propRefs'[i].property
    OBVIOUS
  <2>2. PICK j \in DOMAIN propRefs : propRefs[j] = propRefs'[i]
    BY <1>5
  <2>3. q \in D!Made /\ p \in Properties /\ LinksRead(q, p) # {}
        /\ propRefs'[i].reference \notin EmptyRefs
    <3>1. propRefs[j] \in Later(Refs)
      BY <1>4
    <3>2. QED
      BY <2>1, <2>2, <3>1 DEF LinksOff, Later
  <2>4. LinksRead(propRefs[i].instance, propRefs[i].property)' = LinksRead(q, p)'
    BY <2>1 DEF LinksRead, SoFar, TagsRead, D!Links, D!Tagged
  <2>5. QED
    BY <1>13, <2>1, <2>3, <2>4
<1>15. ASSUME NEW q \in D!Made, NEW p \in Properties, PutOff(q, p)'
       PROVE  \E i \in DOMAIN propRefs' :
                /\ IsFor(i, q, p)'
                /\ propRefs'[i].reference = D!LastOf(LinksRead(q, p)').text
                /\ \A g \in DOMAIN propRefs' : IsFor(g, q, p)' => g <= i
  <2>1. PICK i \in DOMAIN propRefs :
          /\ IsFor(i, q, p) /\ propRefs[i].reference = D!LastOf(LinksRead(q, p)).text
          /\ \A g \in DOMAIN propRefs : IsFor(g, q, p) => g <= i
    BY <1>10, <1>15 DEF LinksOff
  <2>2. PICK g \in DOMAIN propRefs' : IsFor(g, q, p)'
    BY <1>15 DEF PutOff
  <2>3. g + 1 <= i /\ g \in Nat /\ g >= 1 /\ i \in Nat
    <3>1. g >= 1
      BY <1>4, <1>5
    <3>2. QED
      BY <1>5, <1>7, <2>1, <2>2, <3>1
  <2>4. i # 1
    BY <2>3
  <2>5. /\ i - 1 \in DOMAIN propRefs' /\ IsFor(i - 1, q, p)' /\ propRefs'[i - 1] = propRefs[i]
    BY <1>8, <2>1, <2>4
  <2>6. \A h \in DOMAIN propRefs' : IsFor(h, q, p)' => h <= i - 1
    <3> SUFFICES ASSUME NEW h \in DOMAIN propRefs', IsFor(h, q, p)' PROVE h <= i - 1
      OBVIOUS
    <3>1. h + 1 <= i /\ h \in Nat
      BY <1>5, <1>7, <2>1
    <3>2. QED
      BY <2>3, <3>1
  <2>7. QED
    BY <1>13, <2>1, <2>5, <2>6
<1>16. \A q, p : D!LastOf(LinksRead(q, p))' = D!LastOf(LinksRead(q, p)')
  BY DEF D!LastOf
<1>17. LinksOff'
  BY <1>1, <1>2, <1>14, <1>15, <1>16 DEF LinksOff
<1>18. QED
  BY <1>6, <1>11, <1>12, <1>17

(* That property leads where the link says, unless a later link is to      *)
(* come.                                                                   *)
LEMMA ResolveValues ==
  ASSUME DecodeTypeOK, Calls, LinksOff, Values, Looked, D!ResolveNext, Handed' = Handed
  PROVE  Values'
<1>1. AfterItems /\ phase = "resolve" /\ phase' = phase /\ pos' = pos
  BY DEF AfterItems, D!ResolveNext
<1>2. /\ stack = <<>> /\ stack' = <<>> /\ itemOf' = itemOf /\ NoneRead /\ D!Made' = D!Made
  BY <1>1, LaterSame
<1>3. PICK e : e = Head(propRefs)
  OBVIOUS
<1>4. newProperties' = [newProperties EXCEPT ![e.instance][e.property] = instLookup[e.reference]]
  BY <1>3, ResolveType
<1>5. /\ e.instance \in D!Made /\ e.property \in Properties /\ e.reference \in Refs \ EmptyRefs
      /\ LinksRead(e.instance, e.property) # {}
      /\ ~PutOff(e.instance, e.property)' =>
           e.reference = D!LastOf(LinksRead(e.instance, e.property)).text
      /\ \A q, p : ~(q = e.instance /\ p = e.property) => (PutOff(q, p)' <=> PutOff(q, p))
  BY <1>3, ResolveLinks
<1>6. newProperties \in [News -> [Properties -> D!Value \cup {Unset}]] /\ D!Made \subseteq News
  BY MadeType DEF DecodeTypeOK
<1>7. \A q \in D!Made, p \in Properties : newProperties'[q][p] =
        IF q = e.instance /\ p = e.property THEN instLookup[e.reference] ELSE newProperties[q][p]
  BY <1>4, <1>5, <1>6
<1>8. instLookup[e.reference] = D!Named(e.reference)
  BY <1>5 DEF Looked
<1>9. \A q : ~Running(q)
  BY <1>2 DEF Running
<1>10. ASSUME NEW q \in D!Made, NEW p \in Properties
       PROVE  /\ LinksRead(q, p)' = {} => newProperties'[q][p] = FilledOf(q, p)'
              /\ LinksRead(q, p)' # {} /\ ~PutOff(q, p)' =>
                   newProperties'[q][p] = D!Named(D!LastOf(LinksRead(q, p)).text)'
  <2>1. /\ PlainOf(q, p)' = PlainOf(q, p)
        /\ LinksRead(q, p)' = LinksRead(q, p)
        /\ HashesRead(q, p)' = HashesRead(q, p)
    BY <1>2, ReadsSame DEF NoneRead
  <2>2. \A hashes : ContentsRead(hashes)' = ContentsRead(hashes)
    BY <1>1, ContentsReadSame
  <2>3. FilledOf(q, p)' = FilledOf(q, p)
    BY <2>1, <2>2, FilledSame
  <2>4. PICK r : r = D!LastOf(LinksRead(q, p)).text
    OBVIOUS
  <2>5. D!Named(D!LastOf(LinksRead(q, p)).text)' = D!Named(r)'
    BY <2>1, <2>4 DEF D!Named
  <2>6. D!Named(r)' = D!Named(r)
    BY <1>2, NamedSame
  <2>7. CASE q = e.instance /\ p = e.property
    <3>1. LinksRead(q, p)' # {}
      BY <1>5, <2>1, <2>7
    <3>2. ~PutOff(q, p)' => e.reference = r
      <4>1. PutOff(e.instance, e.property)' <=> PutOff(q, p)'
        BY <2>7
      <4>2. QED
        BY <1>5, <2>4, <2>7, <4>1
    <3>3. QED
      BY <1>7, <1>8, <2>5, <2>6, <2>7, <3>1, <3>2
  <2>8. CASE ~(q = e.instance /\ p = e.property)
    <3>1. newProperties'[q][p] = newProperties[q][p] /\ (PutOff(q, p)' <=> PutOff(q, p))
      BY <1>5, <1>7, <2>8
    <3>2. /\ LinksRead(q, p) = {} => newProperties[q][p] = FilledOf(q, p)
          /\ LinksRead(q, p) # {} /\ ~PutOff(q, p) => newProperties[q][p] = D!Named(r)
      BY <1>9, <2>4 DEF Values
    <3>3. QED
      BY <2>1, <2>3, <2>5, <2>6, <3>1, <3>2
  <2>9. QED
    BY <2>7, <2>8
<1>11. \A d \in DOMAIN stack' : FALSE
  BY <1>2
<1>12. QED
  BY <1>1, <1>2, <1>10, <1>11 DEF Values

-------------------------------------------------------------------------------

(* Every step keeps the invariant.                                         *)
LEMMA AwaitsKept ==
  ASSUME DecodeTypeOK, TreeRead, Pending, Awaits, D!DecodeNext, Handed' = Handed
  PROVE  Awaits'
<1>1. CASE Skips \/ (D!DecodeProperties /\ D!TakesProperties(D!Top))
  BY <1>1, SkipReads, AwaitsSame
<1>2. CASE D!DecodeItem
  <2>1. stringRefs' = stringRefs
    BY <1>2 DEF D!DecodeItem
  <2>2. QED
    BY <1>2, <2>1, ItemReads, AwaitsSame
<1>3. CASE D!DecodeProperty
  BY <1>3, PropertyAwaits
<1>4. CASE D!Return
  <2>1. stringRefs' = stringRefs
    BY <1>4 DEF D!Return
  <2>2. QED
    BY <1>4, <2>1, ReturnReads, AwaitsSame
<1>5. CASE AfterItems
  BY <1>5, LaterSame, AwaitsSame DEF TreeRead
<1>6. QED
  BY <1>1, <1>2, <1>3, <1>4, <1>5, DecodeCases

LEMMA LinksOffKept ==
  ASSUME DecodeTypeOK, TreeRead, Pending, LinksOff, D!DecodeNext, Handed' = Handed
  PROVE  LinksOff'
<1>1. CASE Skips \/ (D!DecodeProperties /\ D!TakesProperties(D!Top))
  BY <1>1, SkipReads, LinksOffSame
<1>2. CASE D!DecodeItem
  <2>1. propRefs' = propRefs /\ phase' = phase
    BY <1>2 DEF D!DecodeItem
  <2>2. QED
    BY <1>2, <2>1, ItemReads, LinksOffSame
<1>3. CASE D!DecodeProperty
  BY <1>3, PropertyLinks
<1>4. CASE D!Return
  <2>1. propRefs' = propRefs /\ phase = "items"
    BY <1>4 DEF D!Return
  <2>2. QED
    BY <1>4, <2>1, ReturnReads, LinksOffSame
<1>5. CASE D!ResolveNext
  BY <1>5, ResolveLinks DEF TreeRead
<1>6. CASE AfterItems /\ ~D!ResolveNext
  <2>1. propRefs' = propRefs
    BY <1>6 DEF AfterItems, D!DecodeMeta, D!DecodeSharedStrings, D!PassTag, D!AllRead, D!AllResolved
  <2>2. QED
    BY <1>6, <2>1, LaterSame, LinksOffSame DEF TreeRead
<1>7. QED
  BY <1>1, <1>2, <1>3, <1>4, <1>5, <1>6, DecodeCases

LEMMA ValuesKept ==
  ASSUME DecodeInv, D!DecodeNext, Handed' = Handed
  PROVE  Values'
<1>0. /\ DecodeTypeOK /\ TreeRead /\ Calls /\ Pending /\ Awaits /\ LinksOff /\ Values
      /\ Looked /\ Stages
  BY DEF DecodeInv, TreeRead
<1>1. CASE Skips \/ (D!DecodeProperties /\ D!TakesProperties(D!Top))
  BY <1>0, <1>1, SkipValues
<1>2. CASE D!DecodeItem
  BY <1>0, <1>2, ItemValues
<1>3. CASE D!DecodeProperty
  BY <1>0, <1>3, PropertyValues
<1>4. CASE D!Return
  BY <1>0, <1>4, ReturnValues
<1>5. CASE D!DecodeSharedStrings
  BY <1>0, <1>5, StringsValues
<1>6. CASE D!ResolveNext
  BY <1>0, <1>6, ResolveValues
<1>7. CASE D!DecodeMeta \/ D!PassTag
  <2>1. /\ phase = "top" /\ pos < Len(Handed.top) /\ pos' = pos + 1
        /\ newProperties' = newProperties /\ propRefs' = propRefs
    BY <1>7 DEF D!DecodeMeta, D!PassTag, D!AtTop
  <2>2. D!TopTag.start # "SharedStrings"
    BY <1>7 DEF D!DecodeMeta, D!PassTag, D!AtTop, D!TopTag
  <2>3. \A hashes : ContentsRead(hashes)' = ContentsRead(hashes)
    BY <1>0, <2>1, <2>2, NoContents
  <2>4. AfterItems
    BY <1>7 DEF AfterItems
  <2>5. QED
    BY <1>0, <2>1, <2>3, <2>4, ValuesSame
<1>8. CASE D!AllRead \/ D!AllResolved
  <2>1. pos' = pos /\ newProperties' = newProperties /\ propRefs' = propRefs
    BY <1>8 DEF D!AllRead, D!AllResolved
  <2>2. \A hashes : ContentsRead(hashes)' = ContentsRead(hashes)
    BY <2>1, ContentsReadSame
  <2>3. AfterItems
    BY <1>8 DEF AfterItems
  <2>4. QED
    BY <1>0, <2>1, <2>2, <2>3, ValuesSame
<1>9. QED
  BY <1>1, <1>2, <1>3, <1>4, <1>5, <1>6, <1>7, <1>8, DecodeCases DEF AfterItems

LEMMA LookedKept ==
  ASSUME DecodeTypeOK, TreeRead, Pending, Looked, D!DecodeNext, Handed' = Handed
  PROVE  Looked'
<1>1. CASE Skips \/ (D!DecodeProperties /\ D!TakesProperties(D!Top))
  BY <1>1, SkipReads, LookedSame DEF OnlyStack
<1>2. CASE D!DecodeItem
  BY <1>2, ItemLooked DEF TreeRead
<1>3. CASE D!DecodeProperty \/ D!Return
  <2>1. itemOf' = itemOf /\ instLookup' = instLookup
    BY <1>3 DEF D!DecodeProperty, D!Return
  <2>2. QED
    BY <2>1, LookedSame
<1>4. CASE AfterItems
  BY <1>4, LaterFacts, LookedSame
<1>5. QED
  BY <1>1, <1>2, <1>3, <1>4, DecodeCases

LEMMA StagesKept ==
  ASSUME DecodeTypeOK, TreeRead, Pending, Stages, D!DecodeNext, Handed' = Handed
  PROVE  Stages'
<1>1. CASE Skips \/ (D!DecodeProperties /\ D!TakesProperties(D!Top))
  BY <1>1, SkipReads DEF OnlyStack, Stages
<1>2. CASE D!DecodeItem \/ D!DecodeProperty \/ D!Return
  <2>1. phase = "items" /\ phase' \in {"items", "top"} /\ pos' = pos
    BY <1>2 DEF D!DecodeItem, D!DecodeProperty, D!Return, D!NextIs
  <2>2. QED
    BY <2>1 DEF Stages
<1>3. CASE D!DecodeMeta \/ D!DecodeSharedStrings \/ D!PassTag
  <2>1. phase = "top" /\ phase' = phase
    BY <1>3 DEF D!DecodeMeta, D!DecodeSharedStrings, D!PassTag, D!AtTop
  <2>2. QED
    BY <2>1 DEF Stages
<1>4. CASE D!AllRead
  BY <1>4 DEF D!AllRead, Stages
<1>5. CASE D!ResolveNext
  BY <1>5 DEF D!ResolveNext, Stages
<1>6. CASE D!AllResolved
  BY <1>6 DEF D!AllResolved, Stages
<1>7. QED
  BY <1>1, <1>2, <1>3, <1>4, <1>5, <1>6, DecodeCases DEF AfterItems

LEMMA DecodeInvKept ==
  ASSUME DecodeInv, D!DecodeNext, Handed' = Handed
  PROVE  DecodeInv'
<1>1. /\ DecodeTypeOK /\ TreeRead /\ Calls /\ Pending /\ Awaits /\ LinksOff /\ Values
      /\ Looked /\ Stages
  BY DEF DecodeInv, TreeRead
<1>2. DecodeTypeOK'
  BY <1>1, TypesKept
<1>3. TreeRead'
  BY <1>1, TreeKept
<1>4. Pending' /\ Awaits' /\ LinksOff'
  BY <1>1, PendingKept, AwaitsKept, LinksOffKept
<1>5. Values'
  BY ValuesKept
<1>6. Looked' /\ Stages'
  BY <1>1, LookedKept, StagesKept
<1>7. QED
  BY <1>2, <1>3, <1>4, <1>5, <1>6 DEF DecodeInv

-------------------------------------------------------------------------------
(* The document that is encoded is one that nests.                         *)

(* Hence what Decode gets is a document in the sense of XmlDecode.         *)
LEMMA EncodedNests ==
  ASSUME EncodeInv, OnceListed, given = <<>>
  PROVE  Handed \in D!Document
<1>1. PICK doc : doc = [tags |-> tags, top |-> top, discard |-> FALSE]
  OBVIOUS
<1>2. Handed = doc
  BY <1>1 DEF Handed
<1>3. /\ tags \in Seq(Tag) /\ Items = {m \in DOMAIN tags : tags[m].start = "Item"}
      /\ Items \subseteq 1 .. Len(tags) /\ Len(tags) \in Nat
      /\ \A n \in Items \cup {0} : Listed(n) \in Seq(1 .. Len(tags))
  BY ListedType DEF EncodeInv, EncodeTypeOK
<1>4. \A n : D!TagsUnder(doc, n) = Listed(n)
  BY <1>1 DEF D!TagsUnder, Listed
<1>5. DOMAIN doc.tags = 1 .. Len(tags) /\ doc.tags = tags
  BY <1>1, <1>3
<1>6. \A n \in Items \cup {0} : \A i \in DOMAIN Listed(n) :
        tags[Listed(n)[i]].start = "Item" => Listed(n)[i] \in Items
  BY <1>3
<1>7. {0} \cup {k \in DOMAIN doc.tags : doc.tags[k].start = "Item"} = Items \cup {0}
  BY <1>3, <1>5
<1>8. D!Nests(doc)
  <2>1. \A k \in Items \cup {0} : D!TagsUnder(doc, k) \in Seq(DOMAIN doc.tags)
    BY <1>3, <1>4, <1>5
  <2>2. \A k, l \in Items \cup {0} :
          \A i \in DOMAIN D!TagsUnder(doc, k), j \in DOMAIN D!TagsUnder(doc, l) :
            /\ D!TagsUnder(doc, k)[i] = D!TagsUnder(doc, l)[j]
            /\ doc.tags[D!TagsUnder(doc, k)[i]].start = "Item"
            => k = l /\ i = j
    BY <1>4, <1>5, <1>6 DEF OnceListed
  <2>3. QED
    BY <1>7, <2>1, <2>2 DEF D!Nests
<1>9. top \in Seq(Nat)
  <2>1. top \in Seq(1 .. Len(tags))
    BY <1>3 DEF Listed
  <2>2. QED
    BY <1>3, <2>1
<1>10. QED
  <2>1. doc \in [tags : Seq(D!Tag), top : Seq(Nat), discard : BOOLEAN]
    BY <1>1, <1>3, <1>9, SameTags
  <2>2. QED
    BY <1>2, <1>8, <2>1 DEF D!Document

-------------------------------------------------------------------------------

Start ==
  /\ D!NothingRead
  /\ Handed \in D!Document
  /\ phase = "items"
  /\ stack = <<D!FrameFor(Handed.top, Nil)>>

LEMMA GatheredNothing ==
  ASSUME NEW list
  PROVE  Gathered(<<>>, list, 0)
<1>1. PICK at : at = [i \in DOMAIN <<>> |-> 0]
  OBVIOUS
<1>2. at \in [DOMAIN <<>> -> {i \in 1 .. 0 : D!IsInstance(list[i])}]
  BY <1>1
<1>3. \A i \in DOMAIN <<>> : FALSE
  OBVIOUS
<1>4. \A i \in 1 .. 0 : FALSE
  OBVIOUS
<1>5. QED
  BY <1>2, <1>3, <1>4 DEF Gathered

(* Nothing has been read, and all agrees.                                  *)
LEMMA StartInv == Start => DecodeInv
<1> SUFFICES ASSUME Start PROVE DecodeInv
  OBVIOUS
<1>1. /\ Handed.tags \in Seq(Tag) /\ Handed.top \in Seq(DOMAIN Handed.tags)
      /\ Handed.top \in Seq(Nat) /\ Len(Handed.top) \in Nat
      /\ DOMAIN Handed.top = 1 .. Len(Handed.top)
  BY DocumentParts DEF Start
<1>2. /\ instLookup = [r \in Refs |-> Nil]
      /\ newReference = [inst \in News |-> NoRef]
      /\ newProperties = [inst \in News |-> D!NoProperties]
      /\ children = [inst \in News |-> <<>>]
      /\ itemOf = <<>> /\ instances = <<>> /\ propRefs = <<>> /\ stringRefs = <<>> /\ pos = 0
      /\ phase = "items" /\ Handed \in D!Document
  BY DEF Start, D!NothingRead, D!EmptyTable, News
<1>3. D!Made = {} /\ DOMAIN propRefs = {} /\ DOMAIN stringRefs = {}
  BY <1>2 DEF D!Made
<1>4. PICK f : f = D!FrameFor(Handed.top, Nil)
  OBVIOUS
<1>5. /\ f \in Frame /\ f.tags = Handed.top /\ f.parent = Nil /\ f.pending = <<>>
      /\ f.hasProps = FALSE /\ f.items = <<>>
  <2>1. D!NoProperties \in [Properties -> D!Value \cup {Unset}]
    BY DEF D!NoProperties
  <2>2. <<>> \in Seq(PropertyTag) /\ <<>> \in Seq(News)
    OBVIOUS
  <2>3. QED
    BY <1>1, <1>4, <2>1, <2>2 DEF D!FrameFor, Frame
<1>6. DOMAIN stack = {1} /\ stack[1] = f /\ stack \in Seq(Frame) /\ stack # <<>>
  BY <1>4, <1>5 DEF Start
<1>7. TagsOf(Nil) = Handed.top /\ ReadBy(1) = 0
  BY <1>1, <1>5, <1>6 DEF TagsOf, ReadBy
<1>8. DecodeTypeOK
  <2>1. instLookup \in [Refs -> News \cup {Nil}]
    BY <1>2
  <2>2. newReference \in [News -> Refs]
    BY <1>2, RefsAssumption
  <2>3. newProperties \in [News -> [Properties -> D!Value \cup {Unset}]]
    BY <1>2 DEF D!NoProperties
  <2>4. children \in [News -> Seq(News)]
    BY <1>2
  <2>5. itemOf \in Seq(DOMAIN Handed.tags) /\ Len(itemOf) <= MaxMade
    BY <1>2, DocumentsAssumption
  <2>6. instances \in Seq(News) /\ propRefs \in Seq(Later(Refs)) /\ stringRefs \in Seq(Later(Hash))
    BY <1>2
  <2>7. pos \in 0 .. Len(Handed.top)
    BY <1>1, <1>2
  <2>8. QED
    BY <1>2, <1>3, <1>6, <2>1, <2>2, <2>3, <2>4, <2>5, <2>6, <2>7 DEF DecodeTypeOK
<1>9. Calls
  <2>1. \A i \in DOMAIN f.tags : f.tags[i] = TagsOf(Nil)[0 + i]
    BY <1>1, <1>5, <1>7
  <2>2. QED
    BY <1>2, <1>5, <1>6, <1>7, <2>1 DEF Calls
<1>10. Gathering
  <2>1. Gathered(<<>>, TagsOf(Nil), 0)
    BY GatheredNothing
  <2>2. \A d \in DOMAIN stack : Gathered(stack[d].items, TagsOf(stack[d].parent), ReadBy(d))
    BY <1>5, <1>6, <1>7, <2>1
  <2>3. QED
    BY <1>2, <1>3, <2>2 DEF Gathering
<1>11. Placed
  BY <1>3 DEF Placed
<1>12. Pending
  <2>1. \A i \in 1 .. ReadBy(1) : FALSE
    BY <1>7
  <2>2. QED
    BY <1>5, <1>6, <2>1 DEF Pending, PendingAt
<1>13. Awaits
  BY <1>3 DEF Awaits
<1>14. LinksOff
  BY <1>3 DEF LinksOff
<1>15. Values
  BY <1>3, <1>5, <1>6 DEF Values
<1>16. Looked
  <2>1. \A r : D!Named(r) = Nil
    BY <1>3 DEF D!Named
  <2>2. QED
    BY <1>2, <2>1 DEF Looked
<1>17. Stages
  BY <1>2 DEF Stages
<1>18. QED
  BY <1>8, <1>9, <1>10, <1>11, <1>12, <1>13, <1>14, <1>15, <1>16, <1>17 DEF DecodeInv, TreeRead

LEMMA StartInvNext == (Start => DecodeInv)'
BY StartInv, PTL

-------------------------------------------------------------------------------

(* Nothing happens.                                                        *)
LEMMA TreeStutter ==
  ASSUME DecodeTypeOK, TreeRead, Pending, Looked, Stages, Handed' = Handed,
         UNCHANGED decodeVars
  PROVE  /\ DecodeTypeOK' /\ TreeRead' /\ Pending' /\ Looked' /\ Stages'
         /\ Grown /\ NoneRead /\ \A inst : Running(inst)' <=> Running(inst)
<1>1. /\ UNCHANGED <<given, instLookup, newReference, newProperties, phase, stack, itemOf>>
      /\ UNCHANGED <<children, instances, metadata, propRefs, stringRefs, pos, missing>>
  BY DEF decodeVars
<1>2. D!Made' = D!Made /\ Grown
  BY <1>1 DEF D!Made, Grown
<1>3. /\ \A inst : TagsOf(inst)' = TagsOf(inst)
      /\ \A d : ReadBy(d)' = ReadBy(d)
      /\ \A inst : Running(inst)' <=> Running(inst)
      /\ \A k : D!IsInstance(k)' = D!IsInstance(k)
  BY <1>1 DEF TagsOf, ReadBy, Running, D!IsInstance
<1>4. DecodeTypeOK'
  BY <1>1, <1>2, <1>3 DEF DecodeTypeOK
<1>5. Calls'
  BY <1>1, <1>2, <1>3 DEF TreeRead, Calls, TagsOf
<1>6. \A insts, list, n : Gathered(insts, list, n) => Gathered(insts, list, n)'
  BY <1>2, GatheredKept
<1>7. Gathering'
  <2>1. ASSUME NEW d \in DOMAIN stack
        PROVE  Gathered(stack[d].items, TagsOf(stack[d].parent), ReadBy(d))'
    <3>1. PICK items, list, n : items = stack[d].items /\ list = TagsOf(stack[d].parent) /\ n = ReadBy(d)
      OBVIOUS
    <3>2. Gathered(items, list, n)'
      BY <1>6, <3>1 DEF TreeRead, Gathering
    <3>3. stack'[d].items = items /\ TagsOf(stack[d].parent)' = list /\ ReadBy(d)' = n
      BY <1>1, <1>3, <3>1 DEF TagsOf
    <3>4. QED
      BY <3>2, <3>3 DEF Gathered
  <2>2. ASSUME NEW inst \in D!Made, ~Running(inst)
        PROVE  Gathered(children[inst], TagsOf(inst), Len(TagsOf(inst)))'
    <3>1. PICK insts, list, n : insts = children[inst] /\ list = TagsOf(inst) /\ n = Len(TagsOf(inst))
      OBVIOUS
    <3>2. Gathered(insts, list, n)'
      BY <1>6, <2>2, <3>1 DEF TreeRead, Gathering
    <3>3. children'[inst] = insts /\ TagsOf(inst)' = list /\ Len(TagsOf(inst)') = n
      BY <1>1, <1>3, <3>1
    <3>4. QED
      BY <3>2, <3>3 DEF Gathered
  <2>3. ASSUME phase # "items"
        PROVE  Gathered(instances, Handed.top, Len(Handed.top))'
    <3>1. PICK insts, list, n : insts = instances /\ list = Handed.top /\ n = Len(Handed.top)
      OBVIOUS
    <3>2. Gathered(insts, list, n)'
      BY <1>6, <2>3, <3>1 DEF TreeRead, Gathering
    <3>3. instances' = insts /\ Handed'.top = list /\ Len(Handed'.top) = n
      BY <1>1, <3>1
    <3>4. QED
      BY <3>2, <3>3 DEF Gathered
  <2>4. QED
    BY <1>1, <1>2, <1>3, <2>1, <2>2, <2>3 DEF Gathering
<1>8. Placed'
  BY <1>1, <1>2, <1>3 DEF TreeRead, Placed, IsPlace, TagsOf
<1>9. \A inst \in D!Made : Tags(inst)' = Tags(inst)
  BY <1>2, TagsSame
<1>10. \A d \in DOMAIN stack : PendingAt(d)' /\ PropsRead(d)' = PropsRead(d)
  BY <1>1, <1>2, <1>3, PendingSame DEF TreeRead
<1>11. Pending'
  BY <1>1, <1>10 DEF Pending
<1>12. Looked' /\ Stages'
  BY <1>1, LookedSame DEF Stages
<1>13. \A inst \in D!Made : TagsRead(inst)' = TagsRead(inst)
  BY <1>1, <1>2, <1>10, TagsReadSame
<1>14. QED
  BY <1>2, <1>3, <1>4, <1>5, <1>7, <1>8, <1>11, <1>12, <1>13 DEF TreeRead, NoneRead

LEMMA DecodeStutter ==
  ASSUME DecodeInv, Handed' = Handed, UNCHANGED decodeVars
  PROVE  DecodeInv'
<1>1. /\ UNCHANGED <<given, instLookup, newReference, newProperties, phase, stack, itemOf>>
      /\ UNCHANGED <<children, instances, metadata, propRefs, stringRefs, pos, missing>>
  BY DEF decodeVars
<1>2. /\ DecodeTypeOK' /\ TreeRead' /\ Pending' /\ Looked' /\ Stages'
      /\ Grown /\ NoneRead /\ \A inst : Running(inst)' <=> Running(inst)
  BY TreeStutter DEF DecodeInv
<1>3. Awaits' /\ LinksOff'
  BY <1>1, <1>2, AwaitsSame, LinksOffSame DEF DecodeInv
<1>4. D!Made' = D!Made
  BY <1>1 DEF D!Made
<1>5. \A inst, p : PutOff(inst, p)' <=> PutOff(inst, p)
  BY <1>1 DEF PutOff, IsFor
<1>6. \A inst \in D!Made, p \in Properties :
        /\ LinksRead(inst, p)' = LinksRead(inst, p)
        /\ HashesRead(inst, p)' = HashesRead(inst, p)
        /\ PlainOf(inst, p)' = PlainOf(inst, p)
  BY <1>2, ReadsSame DEF NoneRead
<1>7. \A hashes : ContentsRead(hashes)' = ContentsRead(hashes)
  BY <1>1, ContentsReadSame
<1>8. \A inst \in D!Made, p \in Properties : FilledOf(inst, p)' = FilledOf(inst, p)
  BY <1>6, <1>7, FilledSame
<1>9. \A inst \in D!Made, p \in Properties :
        D!Named(D!LastOf(LinksRead(inst, p)).text)' = D!Named(D!LastOf(LinksRead(inst, p)).text)
  <2> SUFFICES ASSUME NEW inst \in D!Made, NEW p \in Properties
               PROVE  D!Named(D!LastOf(LinksRead(inst, p)).text)'
                        = D!Named(D!LastOf(LinksRead(inst, p)).text)
    OBVIOUS
  <2>1. PICK r : r = D!LastOf(LinksRead(inst, p)).text
    OBVIOUS
  <2>2. D!Named(D!LastOf(LinksRead(inst, p)).text)' = D!Named(r)'
    BY <1>6, <2>1 DEF D!Named
  <2>3. D!Named(r)' = D!Named(r)
    BY <1>1, NamedSame
  <2>4. QED
    BY <2>1, <2>2, <2>3
<1>10. \A d \in DOMAIN stack' : stack'[d].parent # Nil =>
         \A p \in Properties : stack'[d].properties[p] = PlainOf(stack[d].parent, p)'
  <2> SUFFICES ASSUME NEW d \in DOMAIN stack', stack'[d].parent # Nil, NEW p \in Properties
               PROVE  stack'[d].properties[p] = PlainOf(stack[d].parent, p)'
    OBVIOUS
  <2>1. PICK q : q = stack[d].parent
    OBVIOUS
  <2>2. q \in D!Made /\ stack[d].properties[p] = PlainOf(q, p)
    BY <1>1, <2>1 DEF DecodeInv, TreeRead, Calls, Values
  <2>3. PlainOf(stack[d].parent, p)' = PlainOf(q, p)'
    BY <1>1, <2>1 DEF PlainOf, PlainRead, SoFar, TagsRead, D!Plain, D!Tagged
  <2>4. QED
    BY <1>1, <1>6, <2>2, <2>3
<1>11. Values'
  <2>1. ASSUME NEW inst \in D!Made, ~Running(inst), NEW p \in Properties
        PROVE  /\ LinksRead(inst, p)' = {} \/ phase' \in {"items", "top"} =>
                    newProperties'[inst][p] = FilledOf(inst, p)'
               /\ LinksRead(inst, p)' # {} /\ ~PutOff(inst, p)' =>
                    newProperties'[inst][p] = D!Named(D!LastOf(LinksRead(inst, p)).text)'
    <3>1. /\ LinksRead(inst, p) = {} \/ phase \in {"items", "top"} =>
               newProperties[inst][p] = FilledOf(inst, p)
          /\ LinksRead(inst, p) # {} /\ ~PutOff(inst, p) =>
               newProperties[inst][p] = D!Named(D!LastOf(LinksRead(inst, p)).text)
      BY <2>1 DEF DecodeInv, Values
    <3>2. QED
      BY <1>1, <1>5, <1>6, <1>8, <1>9, <3>1
  <2>2. QED
    BY <1>2, <1>4, <1>10, <2>1 DEF Values
<1>12. QED
  BY <1>2, <1>3, <1>11 DEF DecodeInv

(* The invariant of the whole.                                             *)
LEMMA TripInit == RoundTripInit => TripInv
<1> SUFFICES ASSUME RoundTripInit PROVE TripInv
  OBVIOUS
<1>1. EncodeInv
  BY InitInv DEF RoundTripInit
<1>2. OnceListed
  <2>1. Items = {}
    BY DEF RoundTripInit, EncodeInit, Items
  <2>2. QED
    BY <2>1 DEF OnceListed
<1>3. CASE given = <<>> /\ phase = "wait" /\ stack = <<>>
  BY <1>1, <1>2, <1>3 DEF TripInv, NothingRead, RoundTripInit
<1>4. CASE /\ \E document \in Documents : given = <<document>>
           /\ phase = "items" /\ stack = <<D!FrameFor(given[1].top, Nil)>>
  <2>1. PICK document \in Documents : given = <<document>>
    BY <1>4
  <2>2. given # <<>> /\ Handed = given[1] /\ given[1] = document
    BY <2>1 DEF Handed
  <2>3. Start
    BY <1>4, <2>2, DocumentsAssumption DEF Start, RoundTripInit
  <2>4. QED
    BY <1>1, <1>2, <1>4, <2>2, <2>3, StartInv DEF TripInv
<1>5. QED
  BY <1>3, <1>4 DEF RoundTripInit

(* Encode is done, and Decode starts on a document that nests.             *)
LEMMA HandOverStep ==
  ASSUME TripInv, HandOver
  PROVE  TripInv'
<1>1. /\ EncodeInv /\ OnceListed /\ given = <<>> /\ D!NothingRead /\ phase' = "items"
      /\ stack' = <<D!FrameFor(top, Nil)>> /\ UNCHANGED encodeVars
      /\ UNCHANGED <<given, instLookup, newReference, newProperties, itemOf, children, instances,
                     metadata, propRefs, stringRefs, pos, missing>>
      /\ step = "done"
  BY DEF TripInv, NothingRead, HandOver
<1>2. UNCHANGED <<tags, top, written, step>>
  BY <1>1 DEF encodeVars
<1>3. EncodeInv' /\ OnceListed'
  BY <1>1, <1>2, EncodeStep, OnceSame
<1>4. Handed \in D!Document /\ Handed' = Handed /\ Handed.top = top
  BY <1>1, <1>2, EncodedNests DEF Handed
<1>5. Start'
  <2>1. D!NothingRead'
    BY <1>1 DEF D!NothingRead, D!EmptyTable, D!NoProperties
  <2>2. (Handed \in D!Document)'
    BY <1>4, DocumentKept
  <2>3. stack' = <<D!FrameFor(Handed'.top, Nil)>>
    BY <1>1, <1>4
  <2>4. QED
    BY <1>1, <2>1, <2>2, <2>3 DEF Start, D!FrameFor, D!NoProperties
<1>6. DecodeInv'
  BY <1>5, StartInvNext
<1>7. QED
  BY <1>1, <1>2, <1>3, <1>6 DEF TripInv

LEMMA EncodeEnds ==
  ASSUME EncodeNext
  PROVE  step # "done"
BY DEF EncodeNext, EncodeRoot, EncodeInstance, EncodeReference, EncodeValue, IsNext, AppendItem,
       EncodeStrings

LEMMA DecodeStarts ==
  ASSUME D!DecodeNext
  PROVE  phase # "wait"
<1>1. CASE AfterItems
  BY <1>1, LaterFacts
<1>2. CASE ~AfterItems
  BY <1>2 DEF D!DecodeNext, AfterItems, D!SkipItem, D!DecodeItem, D!DecodeProperties, D!SkipTag,
              D!DecodeProperty, D!Return, D!NextIs
<1>3. QED
  BY <1>1, <1>2

LEMMA TripStep ==
  TripInv /\ [Encode \/ HandOver \/ Decode \/ Over]_<<encodeVars, decodeVars>> => TripInv'
<1> SUFFICES ASSUME TripInv, [Encode \/ HandOver \/ Decode \/ Over]_<<encodeVars, decodeVars>>
             PROVE  TripInv'
  OBVIOUS
<1>1. EncodeInv /\ OnceListed
  BY DEF TripInv
<1>2. CASE Encode
  <2>1. EncodeInv' /\ OnceListed'
    BY <1>1, <1>2, EncodeStep, OnceStep DEF Encode
  <2>2. phase = "wait" /\ NothingRead
    BY <1>2, EncodeEnds DEF Encode, TripInv
  <2>3. /\ UNCHANGED <<given, instLookup, newReference, newProperties, phase, stack, itemOf>>
        /\ UNCHANGED <<children, instances, metadata, propRefs, stringRefs, pos, missing>>
    BY <1>2 DEF Encode, decodeVars
  <2>4. NothingRead'
    BY <2>2, <2>3 DEF NothingRead, D!NothingRead, D!EmptyTable, D!NoProperties
  <2>5. QED
    BY <2>1, <2>2, <2>3, <2>4 DEF TripInv
<1>3. CASE HandOver
  BY <1>3, HandOverStep
<1>4. CASE Decode
  <2>1. UNCHANGED <<tags, top, written, step, given>> /\ UNCHANGED encodeVars
    BY <1>4 DEF Decode, encodeVars
  <2>2. EncodeInv' /\ OnceListed'
    BY <1>1, <2>1, EncodeStep, OnceSame
  <2>3. D!DecodeNext /\ Handed' = Handed /\ phase # "wait"
    BY <1>4, SameDocument, DecodeStarts DEF Decode
  <2>4. DecodeInv'
    BY <2>3, DecodeInvKept DEF TripInv
  <2>5. phase' # "wait"
    BY <2>4 DEF DecodeInv, DecodeTypeOK
  <2>6. QED
    BY <2>1, <2>2, <2>3, <2>4, <2>5 DEF TripInv
<1>5. CASE UNCHANGED <<encodeVars, decodeVars>>
  <2>1. UNCHANGED <<tags, top, written, step, given, phase>> /\ UNCHANGED encodeVars
        /\ UNCHANGED decodeVars
    BY <1>5 DEF encodeVars, decodeVars
  <2>2. EncodeInv' /\ OnceListed'
    BY <1>1, <2>1, EncodeStep, OnceSame
  <2>3. Handed' = Handed
    BY <2>1, SameDocument
  <2>4. phase = "wait" => NothingRead'
    <3>1. /\ UNCHANGED <<given, instLookup, newReference, newProperties, phase, stack, itemOf>>
          /\ UNCHANGED <<children, instances, metadata, propRefs, stringRefs, pos, missing>>
      BY <2>1 DEF decodeVars
    <3>2. QED
      BY <3>1 DEF TripInv, NothingRead, D!NothingRead, D!EmptyTable, D!NoProperties
  <2>5. phase # "wait" => DecodeInv'
    BY <2>1, <2>3, DecodeStutter DEF TripInv
  <2>6. QED
    BY <2>1, <2>2, <2>4, <2>5 DEF TripInv
<1>6. QED
  BY <1>2, <1>3, <1>4, <1>5 DEF Over

-------------------------------------------------------------------------------
(* In the end everything has been read.                                    *)

LEMMA GatheredAll ==
  ASSUME NEW S, NEW list \in Seq(S), NEW insts, Gathered(insts, list, Len(list))
  PROVE  D!AreItems(insts, list)
<1>1. DOMAIN list = 1 .. Len(list)
  OBVIOUS
<1>2. QED
  BY <1>1 DEF Gathered, D!AreItems

(* The tree is the nest of Items.                                          *)
LEMMA ItemsRead ==
  ASSUME DecodeInv
  PROVE  D!TreeIsItems
<1>1. DecodeTypeOK /\ Calls /\ Gathering /\ Placed
  BY DEF DecodeInv, TreeRead
<1>2. SUFFICES ASSUME phase # "items"
               PROVE  /\ \A i, j \in D!Made : itemOf[i] = itemOf[j] => i = j
                      /\ D!AreItems(instances, Handed.top)
                      /\ \A inst \in D!Made :
                           D!AreItems(children[inst], Handed.tags[itemOf[inst]].tags)
  BY DEF D!TreeIsItems
<1>3. \A i, j \in D!Made : itemOf[i] = itemOf[j] => i = j
  BY <1>1 DEF Placed
<1>4. D!AreItems(instances, Handed.top)
  <2>1. Handed.top \in Seq(DOMAIN Handed.tags)
    BY <1>1, DocumentParts DEF DecodeTypeOK
  <2>2. Gathered(instances, Handed.top, Len(Handed.top))
    BY <1>1, <1>2 DEF Gathering
  <2>3. QED
    BY <2>1, <2>2, GatheredAll
<1>5. ASSUME NEW inst \in D!Made
      PROVE  D!AreItems(children[inst], Handed.tags[itemOf[inst]].tags)
  <2>1. TagsOf(inst) = Handed.tags[itemOf[inst]].tags
    BY <1>1, MadeType DEF TagsOf
  <2>2. TagsOf(inst) \in Seq(DOMAIN Handed.tags)
    BY <1>1, ListType
  <2>3. ~Running(inst)
    BY <1>1, <1>2 DEF Calls, Running
  <2>4. Gathered(children[inst], TagsOf(inst), Len(TagsOf(inst)))
    BY <1>1, <2>3 DEF Gathering
  <2>5. QED
    BY <2>1, <2>2, <2>4, GatheredAll
<1>6. QED
  BY <1>3, <1>4, <1>5

LEMMA AllTagsRead ==
  ASSUME stack = <<>>, NEW inst, NEW p
  PROVE  /\ LinksRead(inst, p) = D!Links(inst, p)
         /\ PlainRead(inst, p) = D!Plain(inst, p)
         /\ HashesRead(inst, p) = D!Hashes(inst, p)
<1>1. TagsRead(inst) = DOMAIN Tags(inst)
  <2>1. DOMAIN stack = {}
    OBVIOUS
  <2>2. QED
    BY <2>1 DEF TagsRead
<1>2. \A S : S \subseteq D!Tagged(inst, p) => SoFar(S, inst) = S
  BY <1>1, TaggedAre DEF SoFar
<1>3. LinksRead(inst, p) = D!Links(inst, p) /\ PlainRead(inst, p) = D!Plain(inst, p)
  BY <1>2, TaggedAre DEF LinksRead, PlainRead
<1>4. PICK those : those = {y \in D!Tagged(inst, p) : D!IsHash(y[2])}
  OBVIOUS
<1>5. SoFar(those, inst) = those
  BY <1>2, <1>4
<1>6. HashesRead(inst, p) = D!Hashes(inst, p)
  BY <1>4, <1>5 DEF HashesRead, D!Hashes
<1>7. QED
  BY <1>3, <1>6

LEMMA AllContentsRead ==
  ASSUME DecodeTypeOK, pos = Len(Handed.top), NEW hashes
  PROVE  ContentsRead(hashes) = D!Contents(hashes)
<1>1. Handed.top \in Seq(DOMAIN Handed.tags)
  BY DocumentParts DEF DecodeTypeOK
<1>2. DOMAIN Handed.top = 1 .. pos
  BY <1>1
<1>3. \A x \in D!Contents(hashes) : x[1] \in DOMAIN Handed.top
  <2> SUFFICES ASSUME NEW x \in D!Contents(hashes) PROVE x[1] \in DOMAIN Handed.top
    OBVIOUS
  <2>1. PICK i, j : i \in DOMAIN Handed.top /\ x = <<i, j>>
    BY ContentsAre
  <2>2. QED
    BY <2>1
<1>4. QED
  BY <1>2, <1>3 DEF ContentsRead

(* The properties are what their tags say.                                 *)
LEMMA PropertiesRead ==
  ASSUME DecodeInv
  PROVE  D!PropertiesAsTagged
<1>1. DecodeTypeOK /\ Calls /\ Values /\ Stages
  BY DEF DecodeInv, TreeRead
<1>2. SUFFICES ASSUME phase = "done", NEW inst \in D!Made, NEW p \in Properties,
                      NEW contents, contents = D!Contents(D!Hashes(inst, p)),
                      D!Links(inst, p) # {} \/ ~D!Misread(inst, p)
               PROVE  newProperties[inst][p] =
                        IF D!Links(inst, p) # {} THEN D!Named(D!LastOf(D!Links(inst, p)).text)
                        ELSE IF contents # {} THEN D!TextAt(D!Latest(contents))
                        ELSE IF D!Plain(inst, p) # {} THEN D!PlainValue(D!LastOf(D!Plain(inst, p)))
                        ELSE Unset
  BY DEF D!PropertiesAsTagged
<1>3. stack = <<>> /\ pos = Len(Handed.top) /\ propRefs = <<>>
  BY <1>1, <1>2 DEF Calls, Stages
<1>4. ~Running(inst) /\ ~PutOff(inst, p)
  BY <1>3 DEF Running, PutOff
<1>5. /\ LinksRead(inst, p) = D!Links(inst, p)
      /\ PlainRead(inst, p) = D!Plain(inst, p)
      /\ ContentsRead(HashesRead(inst, p)) = contents
  BY <1>1, <1>2, <1>3, AllTagsRead, AllContentsRead
<1>6. /\ D!Links(inst, p) = {} => newProperties[inst][p] = FilledOf(inst, p)
      /\ D!Links(inst, p) # {} =>
           newProperties[inst][p] = D!Named(D!LastOf(D!Links(inst, p)).text)
  BY <1>1, <1>4, <1>5 DEF Values
<1>7. FilledOf(inst, p) =
        IF contents # {} THEN D!TextAt(D!Latest(contents))
        ELSE IF D!Plain(inst, p) # {} THEN D!PlainValue(D!LastOf(D!Plain(inst, p)))
        ELSE Unset
  BY <1>5 DEF FilledOf, PlainOf
<1>8. QED
  BY <1>6, <1>7

-------------------------------------------------------------------------------

(* The state of the decoder agrees with what it has read of the document,  *)
(* at every step: the tree with the Items, the table with the names, the   *)
(* lists of what is put off with the property tags (rbxlx/codec.go:68-237, *)
(* DecodeInv).                                                             *)
THEOREM DecoderAgrees == RoundTripSpec => []TripInv
BY TripInit, TripStep, PTL DEF RoundTripSpec

(* A document that nests, encoded here or not, is decoded to the tree of   *)
(* its Items, with the properties its tags give them, whatever order they  *)
(* come in and whatever names are used twice, for documents of any size    *)
(* (rbxlx/codec.go:78-237, DocumentDecoded), but for the shared strings    *)
(* whose hash cannot be read.                                              *)
THEOREM DocumentAlwaysDecoded == RoundTripSpec => []DocumentDecoded
<1>1. TripInv => DocumentDecoded
  BY ItemsRead, PropertiesRead DEF TripInv, DocumentDecoded
<1>2. QED
  BY <1>1, DecoderAgrees, PTL

-------------------------------------------------------------------------------
(* What has been read beside the tree.                                     *)
MetaIs(i, key) == Handed.tags[Handed.top[i]].start = "Meta" /\ Handed.tags[Handed.top[i]].name = key
MetaRead ==
  /\ metadata \in [Metadata -> Metadata \cup {NoAttr}]
  /\ \A key \in Metadata :
       \/ metadata[key] = NoAttr /\ \A i \in 1 .. pos : ~MetaIs(i, key)
       \/ \E i \in 1 .. pos : MetaIs(i, key) /\ Handed.tags[Handed.top[i]].text = metadata[key]
NamesRead == \A inst \in D!Made : newReference[inst] = D!ReferentOf(Handed.tags[itemOf[inst]])
NoneMissing ==
  missing = 0 \/ \E k \in DOMAIN Handed.tags :
                   Handed.tags[k].start = "Item" /\ Handed.tags[k].class = NoAttr

BackInv ==
  /\ TripInv /\ TreeInv
  /\ phase = "wait" => metadata = [key \in Metadata |-> NoAttr] /\ missing = 0
  /\ phase # "wait" => MetaRead /\ NamesRead /\ NoneMissing

LEMMA MetaStays ==
  ASSUME MetaRead, Handed' = Handed, metadata' = metadata, pos' = pos
  PROVE  MetaRead'
BY DEF MetaRead, MetaIs

LEMMA MetaReadStep ==
  ASSUME DecodeTypeOK, MetaRead, D!DecodeNext, Handed' = Handed
  PROVE  MetaRead'
<1>1. /\ Handed.tags \in Seq(Tag) /\ Handed.top \in Seq(DOMAIN Handed.tags)
      /\ pos \in 0 .. Len(Handed.top)
  BY DocumentParts DEF DecodeTypeOK
<1>2. PICK next : next = pos + 1
  OBVIOUS
<1>3. next \in Nat /\ \A i \in 1 .. next : i \in 1 .. pos \/ i = next
  BY <1>1, <1>2
<1>4. CASE D!DecodeMeta
  <2>1. /\ pos' = next /\ next \in 1 .. Len(Handed.top) /\ next \in DOMAIN Handed.top
        /\ Handed.tags[Handed.top[next]].start = "Meta"
    BY <1>1, <1>2, <1>4 DEF D!DecodeMeta, D!AtTop
  <2>2. PICK t : t = Handed.tags[Handed.top[next]]
    OBVIOUS
  <2>3. t \in Tag
    BY <1>1, <2>1, <2>2
  <2>4. t.name \in Metadata \cup {NoAttr} /\ t.text \in Metadata
    BY <2>1, <2>2, <2>3 DEF Tag, ItemTags, PropertiesTags
  <2>5. metadata' = IF t.name = NoAttr THEN metadata ELSE [metadata EXCEPT ![t.name] = t.text]
    BY <1>2, <1>4, <2>2 DEF D!DecodeMeta, D!TopTag
  <2>6. metadata' \in [Metadata -> Metadata \cup {NoAttr}]
    BY <2>4, <2>5 DEF MetaRead
  <2>7. ASSUME NEW key \in Metadata
        PROVE  \/ metadata'[key] = NoAttr /\ \A i \in 1 .. next : ~MetaIs(i, key)
               \/ \E i \in 1 .. next : MetaIs(i, key) /\ Handed.tags[Handed.top[i]].text = metadata'[key]
    <3>1. CASE key = t.name
      <4>1. metadata'[key] = t.text
        BY <2>5, <3>1, TagAssumption DEF MetaRead
      <4>2. MetaIs(next, key) /\ next \in 1 .. next
        BY <1>3, <2>1, <2>2, <3>1 DEF MetaIs
      <4>3. QED
        BY <2>2, <4>1, <4>2
    <3>2. CASE key # t.name
      <4>1. metadata'[key] = metadata[key] /\ ~MetaIs(next, key)
        BY <2>2, <2>5, <3>2 DEF MetaRead, MetaIs
      <4>2. \/ metadata[key] = NoAttr /\ \A i \in 1 .. pos : ~MetaIs(i, key)
            \/ \E i \in 1 .. pos : MetaIs(i, key) /\ Handed.tags[Handed.top[i]].text = metadata[key]
        BY DEF MetaRead
      <4>3. \A i \in 1 .. pos : i \in 1 .. next
        BY <1>1, <1>2
      <4>4. QED
        BY <1>3, <4>1, <4>2, <4>3
    <3>3. QED
      BY <3>1, <3>2
  <2>8. QED
    BY <2>1, <2>6, <2>7 DEF MetaRead, MetaIs
<1>5. CASE pos' = next /\ metadata' = metadata /\ Handed.tags[Handed.top[next]].start # "Meta"
  <2>1. ASSUME NEW key \in Metadata
        PROVE  \/ metadata[key] = NoAttr /\ \A i \in 1 .. next : ~MetaIs(i, key)
               \/ \E i \in 1 .. next : MetaIs(i, key) /\ Handed.tags[Handed.top[i]].text = metadata[key]
    <3>1. ~MetaIs(next, key)
      BY <1>5 DEF MetaIs
    <3>2. \/ metadata[key] = NoAttr /\ \A i \in 1 .. pos : ~MetaIs(i, key)
          \/ \E i \in 1 .. pos : MetaIs(i, key) /\ Handed.tags[Handed.top[i]].text = metadata[key]
      BY DEF MetaRead
    <3>3. \A i \in 1 .. pos : i \in 1 .. next
      BY <1>1, <1>2
    <3>4. QED
      BY <1>3, <3>1, <3>2, <3>3
  <2>2. metadata' \in [Metadata -> Metadata \cup {NoAttr}]
    BY <1>5 DEF MetaRead
  <2>3. QED
    BY <1>5, <2>1, <2>2 DEF MetaRead, MetaIs
<1>6. D!DecodeSharedStrings \/ D!PassTag =>
        pos' = next /\ metadata' = metadata /\ Handed.tags[Handed.top[next]].start # "Meta"
  BY <1>2 DEF D!DecodeSharedStrings, D!PassTag, D!AtTop, D!TopTag
<1>7. \/ D!DecodeMeta \/ D!DecodeSharedStrings \/ D!PassTag
      \/ pos' = pos /\ metadata' = metadata
  BY DEF D!DecodeNext, D!SkipItem, D!DecodeItem, D!DecodeProperties, D!SkipTag, D!DecodeProperty,
         D!Return, D!AllRead, D!ResolveNext, D!AllResolved
<1>8. QED
  BY <1>4, <1>5, <1>6, <1>7, MetaStays

(* Only the calls for the items change names, or find one without a class. *)
LEMMA OthersKeep ==
  ASSUME D!DecodeNext
  PROVE  /\ D!DecodeItem \/ UNCHANGED <<itemOf, newReference>>
         /\ D!SkipItem \/ missing' = missing
BY DEF D!DecodeNext, D!SkipItem, D!DecodeItem, D!DecodeProperties, D!SkipTag, D!DecodeProperty,
       D!Return, D!DecodeMeta, D!DecodeSharedStrings, D!PassTag, D!AllRead, D!ResolveNext,
       D!Resolve, D!AllResolved

LEMMA NamesReadStep ==
  ASSUME DecodeTypeOK, Calls, NamesRead, D!DecodeNext, Handed' = Handed
  PROVE  NamesRead'
<1>1. CASE UNCHANGED <<itemOf, newReference>>
  <2>1. D!Made' = D!Made
    BY <1>1 DEF D!Made
  <2>2. QED
    BY <1>1, <2>1 DEF NamesRead, D!ReferentOf
<1>2. CASE D!DecodeItem
  <2>1. PICK inst : inst = Len(itemOf) + 1
    OBVIOUS
  <2>2. /\ inst \in News /\ inst \notin D!Made /\ D!Made' = D!Made \cup {inst}
        /\ itemOf' = Append(itemOf, Head(D!Top.tags)) /\ itemOf'[inst] = Head(D!Top.tags)
    BY <1>2, <2>1, ItemFacts
  <2>3. newReference' = [newReference EXCEPT ![inst] = D!ReferentOf(Handed.tags[Head(D!Top.tags)])]
    BY <1>2, <2>1 DEF D!DecodeItem, D!NextTag
  <2>4. newReference \in [News -> Refs] /\ itemOf \in Seq(DOMAIN Handed.tags)
          /\ D!Made \subseteq News /\ D!Made = 1 .. Len(itemOf)
    BY MadeType DEF DecodeTypeOK
  <2>5. \A other \in D!Made :
          itemOf'[other] = itemOf[other] /\ newReference'[other] = newReference[other]
    BY <2>2, <2>3, <2>4, Appended
  <2>6. newReference'[inst] = D!ReferentOf(Handed.tags[itemOf'[inst]])
    BY <2>2, <2>3, <2>4
  <2>7. \A other \in D!Made : newReference'[other] = D!ReferentOf(Handed.tags[itemOf'[other]])
    BY <2>5 DEF NamesRead
  <2>8. \A other \in D!Made' : newReference'[other] = D!ReferentOf(Handed.tags[itemOf'[other]])
    BY <2>2, <2>6, <2>7
  <2>9. QED
    BY <2>8 DEF NamesRead, D!ReferentOf
<1>3. QED
  BY <1>1, <1>2, OthersKeep

LEMMA MissingStep ==
  ASSUME DecodeTypeOK, Calls, NoneMissing, D!DecodeNext, Handed' = Handed
  PROVE  NoneMissing'
<1>1. CASE missing' = missing
  BY <1>1 DEF NoneMissing
<1>2. CASE D!SkipItem
  <2>1. phase = "items" /\ D!Top.tags # <<>> /\ D!NextTag.start = "Item" /\ D!NextTag.class = NoAttr
    BY <1>2 DEF D!SkipItem, D!NextIs, D!NextTag
  <2>2. PICK list, n : list = TagsOf(D!Top.parent) /\ n = ReadBy(Len(stack)) + 1
    OBVIOUS
  <2>3. list[n] \in DOMAIN Handed.tags /\ D!NextTag = Handed.tags[list[n]]
    BY <2>1, <2>2, NextTag
  <2>4. QED
    BY <2>1, <2>3 DEF NoneMissing
<1>3. QED
  BY <1>1, <1>2, OthersKeep

-------------------------------------------------------------------------------

LEMMA BackInit == RoundTripInit => BackInv
<1> SUFFICES ASSUME RoundTripInit PROVE BackInv
  OBVIOUS
<1>1. TripInv /\ TreeInv
  BY TripInit, TreeInit DEF RoundTripInit
<1>2. metadata = [key \in Metadata |-> NoAttr] /\ missing = 0 /\ pos = 0 /\ itemOf = <<>>
  BY DEF RoundTripInit, D!NothingRead
<1>3. D!Made = {} /\ \A i \in 1 .. pos : FALSE
  BY <1>2 DEF D!Made
<1>4. MetaRead /\ NamesRead /\ NoneMissing
  BY <1>2, <1>3 DEF MetaRead, NamesRead, NoneMissing
<1>5. QED
  BY <1>1, <1>2, <1>4 DEF BackInv

LEMMA BackStep ==
  BackInv /\ [Encode \/ HandOver \/ Decode \/ Over]_<<encodeVars, decodeVars>> => BackInv'
<1> SUFFICES ASSUME BackInv, [Encode \/ HandOver \/ Decode \/ Over]_<<encodeVars, decodeVars>>
             PROVE  BackInv'
  OBVIOUS
<1>1. TripInv /\ TripInv' /\ EncodeInv /\ EncodeInv' /\ TreeInv
  <2>1. TripInv'
    BY TripStep DEF BackInv
  <2>2. QED
    BY <2>1 DEF BackInv, TripInv
<1>2. CASE Encode
  <2>1. TreeInv'
    BY <1>1, <1>2, TreeStep DEF Encode
  <2>2. phase = "wait" /\ phase' = phase /\ metadata' = metadata /\ missing' = missing
    BY <1>1, <1>2, EncodeEnds DEF Encode, TripInv, decodeVars
  <2>3. QED
    BY <1>1, <2>1, <2>2 DEF BackInv
<1>3. CASE UNCHANGED encodeVars
  <2>1. TreeInv'
    BY <1>1, <1>3, TreeStep
  <2>2. CASE HandOver
    <3>1. /\ phase = "wait" /\ phase' = "items" /\ UNCHANGED <<metadata, missing, pos, itemOf>>
          /\ metadata = [key \in Metadata |-> NoAttr] /\ missing = 0 /\ D!NothingRead
      BY <1>1, <2>2 DEF HandOver, BackInv, TripInv, NothingRead
    <3>2. pos' = 0 /\ itemOf' = <<>>
      BY <3>1 DEF D!NothingRead
    <3>3. D!Made' = {} /\ \A i \in 1 .. pos' : FALSE
      BY <3>2 DEF D!Made
    <3>4. MetaRead' /\ NamesRead' /\ NoneMissing'
      BY <3>1, <3>3 DEF MetaRead, NamesRead, NoneMissing
    <3>5. QED
      BY <1>1, <2>1, <3>1, <3>4 DEF BackInv
  <2>3. CASE Decode
    <3>1. D!DecodeNext /\ Handed' = Handed /\ phase # "wait"
      BY <2>3, SameDocument, DecodeStarts DEF Decode
    <3>2. DecodeTypeOK /\ Calls /\ MetaRead /\ NamesRead /\ NoneMissing
      BY <1>1, <3>1 DEF TripInv, DecodeInv, TreeRead, BackInv
    <3>3. MetaRead' /\ NamesRead' /\ NoneMissing'
      BY <3>1, <3>2, MetaReadStep, NamesReadStep, MissingStep
    <3>4. phase' # "wait"
      <4>1. DecodeTypeOK'
        BY <3>1, <3>2, TypesKept, <1>1 DEF TripInv, DecodeInv
      <4>2. QED
        BY <4>1 DEF DecodeTypeOK
    <3>5. QED
      BY <1>1, <2>1, <3>3, <3>4 DEF BackInv
  <2>4. CASE UNCHANGED decodeVars
    <3>1. UNCHANGED <<given, newReference, phase, itemOf, metadata, pos, missing>> /\ Handed' = Handed
      BY <1>3, <2>4, SameDocument DEF decodeVars
    <3>2. D!Made' = D!Made
      BY <3>1 DEF D!Made
    <3>3. phase # "wait" => MetaRead' /\ NamesRead' /\ NoneMissing'
      BY <3>1, <3>2, MetaStays DEF BackInv, NamesRead, NoneMissing, D!ReferentOf
    <3>4. QED
      BY <1>1, <2>1, <3>1, <3>3 DEF BackInv
  <2>5. QED
    <3>1. HandOver \/ Decode \/ UNCHANGED decodeVars \/ Encode
      BY DEF Over
    <3>2. QED
      BY <1>2, <2>2, <2>3, <2>4, <3>1
<1>4. Encode \/ UNCHANGED encodeVars
  BY DEF HandOver, Decode, Over
<1>5. QED
  BY <1>2, <1>3, <1>4

LEMMA BackInvariant == RoundTripSpec => []BackInv
BY BackInit, BackStep, PTL DEF RoundTripSpec

-------------------------------------------------------------------------------
(* When a tree that was encoded has been decoded.                          *)

Ended == BackInv /\ phase = "done" /\ given = <<>>

LEMMA EndedFacts ==
  ASSUME Ended
  PROVE  /\ EncodeInv /\ EncodeTypeOK /\ TreeInv /\ DecodeInv /\ DecodeTypeOK
         /\ step = "done" /\ stack = <<>> /\ pos = Len(top)
         /\ Handed = [tags |-> tags, top |-> top, discard |-> FALSE]
         /\ Handed.tags = tags /\ Handed.top = top /\ Handed.discard = FALSE
         /\ MetaRead /\ NamesRead /\ NoneMissing
<1>1. EncodeInv /\ TreeInv /\ DecodeInv /\ step = "done" /\ MetaRead /\ NamesRead /\ NoneMissing
  BY DEF Ended, BackInv, TripInv
<1>2. Handed = [tags |-> tags, top |-> top, discard |-> FALSE]
  BY DEF Ended, Handed
<1>3. Handed.tags = tags /\ Handed.top = top /\ Handed.discard = FALSE
  BY <1>2
<1>4. DecodeTypeOK /\ Calls /\ Stages /\ EncodeTypeOK
  BY <1>1 DEF DecodeInv, TreeRead, EncodeInv
<1>5. stack = <<>> /\ pos = Len(top)
  BY <1>3, <1>4 DEF Calls, Stages, Ended
<1>6. QED
  BY <1>1, <1>2, <1>3, <1>4, <1>5

(* Every Item has a class, so all of them become instances.                *)
LEMMA AllAreInstances ==
  ASSUME Ended
  PROVE  /\ \A k \in DOMAIN tags : D!IsInstance(k) <=> k \in Items
         /\ \A k \in Items : k \in DOMAIN tags /\ tags[k].class = root.class[written[k]]
         /\ missing = 0
         /\ \A inst \in D!Made : itemOf[inst] \in Items /\ Original(inst) \in Instances
<1>1. EncodeTypeOK /\ ItemsTold /\ Handed.tags = tags /\ DecodeTypeOK /\ NoneMissing
  BY EndedFacts DEF TreeInv
<1>2. \A k \in DOMAIN tags : k \in Items <=> tags[k].start = "Item"
  BY <1>1 DEF EncodeTypeOK, Items
<1>3. root.class \in [Instances -> Classes] /\ \A k \in Items : written[k] \in Instances
  <2>1. root \in RootRecord
    BY <1>1 DEF EncodeTypeOK
  <2>2. QED
    BY <1>1, <2>1, RootParts DEF EncodeTypeOK, Items
<1>4. \A k \in Items : tags[k].class = root.class[written[k]] /\ tags[k].class # NoAttr
                         /\ k \in DOMAIN tags
  BY <1>1, <1>3, TagAssumption DEF ItemsTold, EncodeTypeOK, Items
<1>5. \A k \in DOMAIN tags : D!IsInstance(k) <=> k \in Items
  BY <1>1, <1>2, <1>4 DEF D!IsInstance
<1>6. missing = 0
  BY <1>1, <1>2, <1>4 DEF NoneMissing
<1>7. \A inst \in D!Made : itemOf[inst] \in Items
  BY <1>1, <1>2, MadeType
<1>8. QED
  BY <1>3, <1>4, <1>5, <1>6, <1>7 DEF Original

(* What lists the places m + 1 to m + w in their order lists them one by   *)
(* one.                                                                    *)
AllInOrder(at, n, m, w) ==
  /\ \A i \in 1 .. n : at[i] \in m + 1 .. m + w
  /\ \A i, j \in 1 .. n : i < j => at[i] < at[j]
  /\ \A k \in m + 1 .. m + w : \E j \in 1 .. n : at[j] = k

LEMMA InARow ==
  ASSUME NEW n \in Nat, NEW w \in Nat, NEW m \in Nat, NEW at, AllInOrder(at, n, m, w)
  PROVE  n = w /\ \A i \in 1 .. n : at[i] = m + i
<1> USE DEF AllInOrder
<1>1. ASSUME NEW i \in 1 .. n, \A j \in 1 .. n : j < i => at[j] = m + j
      PROVE  at[i] = m + i
  <2>1. at[i] \in Nat /\ at[i] > m /\ at[i] <= m + w
    OBVIOUS
  <2>2. ~(at[i] < m + i)
    <3> SUFFICES ASSUME at[i] < m + i PROVE FALSE
      OBVIOUS
    <3>1. PICK j \in Nat : j = at[i] - m
      BY <2>1
    <3>2. j \in 1 .. n /\ j < i
      BY <2>1, <3>1
    <3>3. at[j] = m + j /\ at[j] < at[i]
      BY <1>1, <3>2
    <3>4. QED
      BY <2>1, <3>1, <3>3
  <2>3. ~(at[i] > m + i)
    <3> SUFFICES ASSUME at[i] > m + i PROVE FALSE
      OBVIOUS
    <3>1. m + i \in m + 1 .. m + w
      BY <2>1
    <3>2. PICK j \in 1 .. n : at[j] = m + i
      BY <3>1
    <3>3. CASE j < i
      BY <1>1, <3>2, <3>3
    <3>4. CASE j = i
      BY <3>2, <3>4
    <3>5. CASE j > i
      <4>1. at[i] < at[j]
        BY <3>5
      <4>2. QED
        BY <2>1, <3>2, <4>1
    <3>6. QED
      BY <3>3, <3>4, <3>5
  <2>4. QED
    BY <2>1, <2>2, <2>3
<1>2. \A i \in 1 .. n : at[i] = m + i
  <2> DEFINE wrong == {i \in 1 .. n : at[i] # m + i}
  <2>1. CASE wrong = {}
    BY <2>1
  <2>2. CASE wrong # {}
    <3>1. wrong \in SUBSET Nat
      OBVIOUS
    <3>2. \E i \in wrong : \A j \in wrong : i <= j
      <4> HIDE DEF wrong
      <4>1. QED
        BY <2>2, <3>1, LeastExists
    <3>3. PICK i \in wrong : \A j \in wrong : i <= j
      BY <3>2
    <3>4. i \in 1 .. n /\ at[i] # m + i /\ \A j \in 1 .. n : j < i => at[j] = m + j
      BY <3>3
    <3>5. QED
      BY <1>1, <3>4
  <2>3. QED
    BY <2>1, <2>2
<1>3. ~(n < w)
  <2> SUFFICES ASSUME n < w PROVE FALSE
    OBVIOUS
  <2>1. m + w \in m + 1 .. m + w
    OBVIOUS
  <2>2. PICK j \in 1 .. n : at[j] = m + w
    BY <2>1
  <2>3. at[j] = m + j
    BY <1>2
  <2>4. QED
    BY <2>2, <2>3
<1>4. ~(n > w)
  <2> SUFFICES ASSUME n > w PROVE FALSE
    OBVIOUS
  <2>1. n \in 1 .. n
    OBVIOUS
  <2>2. at[n] = m + n /\ at[n] \in m + 1 .. m + w
    BY <1>2, <2>1
  <2>3. QED
    BY <2>2
<1>5. QED
  BY <1>2, <1>3, <1>4

(* The instances for the Items under one are for the instances that were   *)
(* wanted there, in their order.                                           *)
LEMMA SameOrder ==
  ASSUME Ended, NEW k \in Items \cup {0}, NEW insts \in Seq(News), D!AreItems(insts, Listed(k))
  PROVE  Originals(insts) = Wanted(k)
<1>1. PICK list, wanted : list = Listed(k) /\ wanted = Wanted(k)
  OBVIOUS
<1>2. list \in Seq(DOMAIN tags) /\ wanted \in Seq(Instances \cup {Nil})
  <2>1. EncodeTypeOK /\ EncodeInv /\ TreeInv /\ step = "done"
    BY EndedFacts
  <2>2. Listed(k) \in Seq(1 .. Len(tags)) /\ tags \in Seq(Tag)
    BY <2>1, ListedType DEF EncodeTypeOK
  <2>3. wanted \in Seq(Instances \cup {Nil})
    BY <1>1, <2>1, AllListed
  <2>4. QED
    BY <1>1, <2>2, <2>3
<1>3. PICK m \in Nat :
        /\ m + Len(wanted) <= Len(list)
        /\ \A j \in DOMAIN list : list[j] \in Items <=> m < j /\ j <= m + Len(wanted)
        /\ \A j \in 1 .. Len(wanted) : written[list[m + j]] = wanted[j]
  BY <1>1, AllListed, EndedFacts
<1>4. PICK at \in [DOMAIN insts -> {i \in DOMAIN list : D!IsInstance(list[i])}] :
        /\ \A i, j \in DOMAIN insts : i < j => at[i] < at[j]
        /\ \A i \in DOMAIN list : D!IsInstance(list[i]) => \E j \in DOMAIN insts : at[j] = i
        /\ \A i \in DOMAIN insts : itemOf[insts[i]] = list[at[i]]
  BY <1>1 DEF D!AreItems
<1>5. \A j \in DOMAIN list : D!IsInstance(list[j]) <=> m < j /\ j <= m + Len(wanted)
  BY <1>2, <1>3, AllAreInstances
<1>6. PICK n \in Nat, w \in Nat : n = Len(insts) /\ w = Len(wanted)
  BY <1>2
<1>7. DOMAIN insts = 1 .. n /\ DOMAIN wanted = 1 .. w /\ DOMAIN list = 1 .. Len(list)
        /\ Len(list) \in Nat
  BY <1>2, <1>6
<1>8. n = w /\ \A i \in 1 .. n : at[i] = m + i
  <2>1. \A i \in 1 .. n : at[i] \in m + 1 .. m + w
    <3> SUFFICES ASSUME NEW i \in 1 .. n PROVE at[i] \in m + 1 .. m + w
      OBVIOUS
    <3>1. at[i] \in DOMAIN list /\ D!IsInstance(list[at[i]])
      BY <1>7
    <3>2. m < at[i] /\ at[i] <= m + w /\ at[i] \in Nat
      BY <1>5, <1>6, <1>7, <3>1
    <3>3. QED
      BY <3>2
  <2>2. \A i, j \in 1 .. n : i < j => at[i] < at[j]
    BY <1>4, <1>7
  <2>3. \A i \in m + 1 .. m + w : \E j \in 1 .. n : at[j] = i
    <3> SUFFICES ASSUME NEW i \in m + 1 .. m + w PROVE \E j \in 1 .. n : at[j] = i
      OBVIOUS
    <3>1. i \in DOMAIN list /\ m < i /\ i <= m + w
      BY <1>3, <1>6, <1>7
    <3>2. QED
      BY <1>4, <1>5, <1>6, <1>7, <3>1
  <2>4. QED
    <3>1. AllInOrder(at, n, m, w)
      BY <2>1, <2>2, <2>3 DEF AllInOrder
    <3>2. QED
      BY <3>1, InARow
<1>9. \A i \in 1 .. w : Original(insts[i]) = wanted[i]
  BY <1>3, <1>4, <1>6, <1>7, <1>8 DEF Original
<1>10. Originals(insts) = [i \in 1 .. w |-> wanted[i]]
  BY <1>7, <1>8, <1>9 DEF Originals
<1>11. [i \in 1 .. w |-> wanted[i]] = wanted
  BY <1>2, <1>7
<1>12. QED
  BY <1>1, <1>10, <1>11

(* The tree is the one that was encoded.                                   *)
LEMMA TreeBack ==
  ASSUME Ended
  PROVE  /\ Originals(instances) = root.instances
         /\ \A inst \in D!Made : Originals(children[inst]) = root.children[Original(inst)]
<1>1. DecodeInv /\ DecodeTypeOK /\ EncodeTypeOK /\ Handed.tags = tags /\ Handed.top = top
  BY EndedFacts
<1>2. /\ D!AreItems(instances, top)
      /\ \A inst \in D!Made : D!AreItems(children[inst], tags[itemOf[inst]].tags)
  BY <1>1, ItemsRead DEF Ended, D!TreeIsItems
<1>3. instances \in Seq(News) /\ \A inst \in D!Made : children[inst] \in Seq(News)
  BY <1>1, MadeType DEF DecodeTypeOK
<1>4. Originals(instances) = root.instances
  <2>1. 0 \in Items \cup {0} /\ Listed(0) = top /\ Wanted(0) = root.instances
    BY DEF Listed, Wanted
  <2>2. QED
    BY <1>2, <1>3, <2>1, SameOrder
<1>5. ASSUME NEW inst \in D!Made
      PROVE  Originals(children[inst]) = root.children[Original(inst)]
  <2>1. itemOf[inst] \in Items /\ itemOf[inst] # 0
    BY <1>1, AllAreInstances, MadeType
  <2>2. Listed(itemOf[inst]) = tags[itemOf[inst]].tags
          /\ Wanted(itemOf[inst]) = root.children[Original(inst)]
    BY <2>1 DEF Listed, Wanted, Original
  <2>3. QED
    BY <1>2, <1>3, <2>1, <2>2, SameOrder
<1>6. QED
  BY <1>4, <1>5

(* The metadata are those that were written.                               *)
LEMMA MetaBack ==
  ASSUME Ended
  PROVE  metadata = IF root.excludeMetadata THEN [key \in Metadata |-> NoAttr] ELSE root.metadata
<1>1. /\ MetaRead /\ MetaTold /\ step = "done" /\ pos = Len(top)
      /\ Handed.tags = tags /\ Handed.top = top /\ EncodeTypeOK
  BY EndedFacts DEF TreeInv
<1>2. root.metadata \in [Metadata -> Metadata \cup {NoAttr}]
  BY <1>1, RootParts DEF EncodeTypeOK
<1>3. metadata \in [Metadata -> Metadata \cup {NoAttr}]
  BY <1>1 DEF MetaRead
<1>4. DOMAIN top = 1 .. pos /\ \A i \in 1 .. pos : top[i] \in DOMAIN tags
  BY <1>1 DEF EncodeTypeOK
<1>5. ASSUME NEW key \in Metadata
      PROVE  metadata[key] = IF key \in MetaKeys THEN root.metadata[key] ELSE NoAttr
  <2>1. CASE metadata[key] = NoAttr /\ \A i \in 1 .. pos : ~MetaIs(i, key)
    <3>1. key \notin MetaKeys
      BY <1>1, <1>4, <2>1 DEF MetaTold, MetaIs
    <3>2. QED
      BY <2>1, <3>1
  <2>2. CASE \E i \in 1 .. pos : MetaIs(i, key) /\ Handed.tags[Handed.top[i]].text = metadata[key]
    <3>1. PICK i \in 1 .. pos : MetaIs(i, key) /\ Handed.tags[Handed.top[i]].text = metadata[key]
      BY <2>2
    <3>2. key \in MetaKeys /\ metadata[key] = root.metadata[key]
      BY <1>1, <1>4, <3>1 DEF MetaTold, MetaIs
    <3>3. QED
      BY <3>2
  <2>3. QED
    BY <1>1, <2>1, <2>2 DEF MetaRead
<1>6. CASE root.excludeMetadata
  <2>1. \A key \in Metadata : metadata[key] = NoAttr
    BY <1>5, <1>6 DEF MetaKeys
  <2>2. metadata = [key \in Metadata |-> NoAttr]
    BY <1>3, <2>1
  <2>3. QED
    BY <1>6, <2>2
<1>7. CASE ~root.excludeMetadata
  <2>1. \A key \in Metadata : metadata[key] = root.metadata[key]
    BY <1>5, <1>7 DEF MetaKeys
  <2>2. metadata = root.metadata
    BY <1>2, <1>3, <2>1
  <2>3. QED
    BY <1>7, <2>2
<1>8. QED
  BY <1>6, <1>7

(* An Item has the name of its instance, or none.                          *)
LEMMA ItemNames ==
  ASSUME Ended, NEW inst \in D!Made
  PROVE  /\ root.excludeReferent => tags[itemOf[inst]].referent = NoAttr
         /\ ~root.excludeReferent =>
              /\ tags[itemOf[inst]].referent \in Refs
              /\ tags[itemOf[inst]].referent = reference[Original(inst)]
              /\ refs[tags[itemOf[inst]].referent] = Original(inst)
<1>1. /\ EncodeInv /\ EncodeTypeOK /\ NamesLead /\ ItemsTold /\ MarksAgree
      /\ itemOf[inst] \in Items /\ Original(inst) \in Instances
  BY EndedFacts, AllAreInstances DEF EncodeInv, TreeInv
<1>2. PICK k \in Items : k = itemOf[inst]
  BY <1>1
<1>3. root.excludeReferent => tags[k].referent = NoAttr
  BY <1>1 DEF ItemsTold
<1>4. ASSUME ~root.excludeReferent
      PROVE  /\ tags[k].referent \in Refs
             /\ tags[k].referent = reference[Original(inst)]
             /\ refs[tags[k].referent] = Original(inst)
  <2>1. tags[k].referent # NoAttr
    BY <1>1, <1>4 DEF ItemsTold
  <2>2. refs[tags[k].referent] = Original(inst)
    BY <1>1, <1>2, <2>1 DEF NamesLead, Original
  <2>3. tags[k].referent \in Refs
    <3>1. k \in DOMAIN tags /\ tags[k].start = "Item" /\ tags \in Seq(Tag)
      BY <1>1 DEF EncodeTypeOK, Items
    <3>2. tags[k] \in ItemTags
      BY <3>1, TagKinds
    <3>3. QED
      BY <2>1, <3>2 DEF ItemTags
  <2>4. Original(inst) # Nil
    BY <1>1, NilAssumption
  <2>5. QED
    BY <1>1, <2>2, <2>3, <2>4 DEF MarksAgree
<1>5. QED
  BY <1>2, <1>3, <1>4

LEMMA ReferencesBack ==
  ASSUME Ended, NEW inst \in D!Made
  PROVE  newReference[inst] = IF root.excludeReferent THEN NoRef ELSE reference[Original(inst)]
<1>1. NamesRead /\ Handed.tags = tags
  BY EndedFacts
<1>2. newReference[inst] = D!ReferentOf(tags[itemOf[inst]])
  BY <1>1 DEF NamesRead
<1>3. QED
  BY <1>2, ItemNames, TagAssumption DEF D!ReferentOf

(* A name leads to the last instance for the one it was the name of.       *)
LEMMA NamedLast ==
  ASSUME Ended, NEW ref \in Refs, refs[ref] \in Instances
  PROVE  D!Named(ref) = LastCopy(refs[ref])
<1>1. /\ MarksAgree /\ Handed.tags = tags
  BY EndedFacts DEF TreeInv
<1>2. D!Named(ref) =
        IF {inst \in D!Made : tags[itemOf[inst]].referent = ref} = {} THEN Nil
        ELSE D!Last({inst \in D!Made : tags[itemOf[inst]].referent = ref})
  BY <1>1 DEF D!Named
<1>3. CASE root.excludeReferent
  <2>1. \A inst \in D!Made : tags[itemOf[inst]].referent # ref
    BY <1>3, ItemNames, TagAssumption
  <2>2. D!Named(ref) = Nil
    BY <1>2, <2>1
  <2>3. QED
    BY <1>3, <2>2 DEF LastCopy
<1>4. CASE ~root.excludeReferent
  <2>1. refs[ref] # Nil /\ reference[refs[ref]] = ref
    BY <1>1, NilAssumption DEF MarksAgree
  <2>2. \A inst \in D!Made : tags[itemOf[inst]].referent = ref <=> Original(inst) = refs[ref]
    BY <1>4, <2>1, ItemNames
  <2>3. {inst \in D!Made : tags[itemOf[inst]].referent = ref} = CopiesOf(refs[ref])
    BY <2>2 DEF CopiesOf
  <2>4. D!Named(ref) = IF CopiesOf(refs[ref]) = {} THEN Nil ELSE D!Last(CopiesOf(refs[ref]))
    BY <1>2, <2>3
  <2>5. QED
    BY <1>4, <2>4 DEF LastCopy, D!Last
<1>5. QED
  BY <1>3, <1>4

(* Of all contents there is the latest.                                    *)
LEMMA LatestExists ==
  ASSUME DecodeTypeOK, NEW hashes, D!Contents(hashes) # {}
  PROVE  D!Latest(D!Contents(hashes)) \in D!Contents(hashes)
<1> DEFINE C == D!Contents(hashes)
           At(i) == D!KeysAt(Handed.tags[Handed.top[i]].strings, hashes)
           F == {i \in DOMAIN Handed.top :
                   Handed.tags[Handed.top[i]].start = "SharedStrings" /\ At(i) # {}}
<1>1. Handed.top \in Seq(DOMAIN Handed.tags)
  BY DocumentParts DEF DecodeTypeOK
<1>2. \A x : x \in C <=> \E i \in F : \E j \in At(i) : x = <<i, j>>
  <2>1. \A x : x \in C => \E i \in F : \E j \in At(i) : x = <<i, j>>
    <3> SUFFICES ASSUME NEW x \in C PROVE \E i \in F : \E j \in At(i) : x = <<i, j>>
      OBVIOUS
    <3>1. PICK i \in DOMAIN Handed.top :
            /\ Handed.tags[Handed.top[i]].start = "SharedStrings"
            /\ \E j \in At(i) : x = <<i, j>>
      BY ContentsAre
    <3>2. i \in F
      BY <3>1
    <3>3. QED
      BY <3>1, <3>2
  <2>2. \A i \in F : \A j \in At(i) : <<i, j>> \in C
    BY ContentsAre
  <2>3. QED
    BY <2>1, <2>2
<1>3. F \in SUBSET (1 .. Len(Handed.top)) /\ Len(Handed.top) \in Nat
  BY <1>1
<1>4. F # {}
  <2>1. PICK x : x \in C
    OBVIOUS
  <2> HIDE DEF C, F, At
  <2>2. QED
    BY <1>2, <2>1
<1>5. PICK m \in F : \A i \in F : i <= m
  <2> HIDE DEF F
  <2>1. QED
    BY <1>3, <1>4, GreatestExists
<1>6. PICK strings : strings = Handed.tags[Handed.top[m]].strings
  OBVIOUS
<1>7. strings \in Seq(StringTag)
  <2>1. Handed.top[m] \in DOMAIN Handed.tags /\ Handed.tags[Handed.top[m]].start = "SharedStrings"
    BY <1>1, <1>3, <1>5
  <2>2. QED
    BY <1>6, <2>1, StringTagsType
<1>8. At(m) \in SUBSET (1 .. Len(strings)) /\ Len(strings) \in Nat /\ At(m) # {}
  BY <1>5, <1>6, <1>7 DEF D!KeysAt
<1>9. PICK l \in At(m) : \A j \in At(m) : j <= l
  <2> HIDE DEF At
  <2>1. QED
    BY <1>8, GreatestExists
<1>10. PICK x : x = <<m, l>>
  OBVIOUS
<1> HIDE DEF C, F, At
<1>11. x \in C /\ x[1] = m /\ x[2] = l
  BY <1>2, <1>10
<1>12. ASSUME NEW y \in C PROVE y[1] < x[1] \/ (y[1] = x[1] /\ y[2] <= x[2])
  <2>1. PICK i \in F : \E j \in At(i) : y = <<i, j>>
    BY <1>2
  <2>2. PICK j \in At(i) : y = <<i, j>>
    BY <2>1
  <2>3. y[1] = i /\ y[2] = j
    BY <2>2
  <2>4. i <= m /\ i \in Nat /\ m \in Nat
    BY <1>3, <1>5
  <2>5. i = m => j <= l
    BY <1>9
  <2>6. QED
    BY <1>11, <2>3, <2>4, <2>5
<1>13. \E z \in C : \A y \in C : y[1] < z[1] \/ (y[1] = z[1] /\ y[2] <= z[2])
  BY <1>11, <1>12
<1>14. D!Latest(C) \in C
  BY <1>13 DEF D!Latest
<1>15. QED
  BY <1>14 DEF C

LEMMA NoHashes == D!Contents({}) = {}
<1>1. \A strings : D!KeysAt(strings, {}) = {}
  BY DEF D!KeysAt
<1>2. QED
  BY <1>1, ContentsAre

(* The contents of a shared string that was met are read back.             *)
LEMMA ContentsBack ==
  ASSUME Ended, NEW value \in sharedStrings
  PROVE  /\ D!Contents({value}) # {}
         /\ D!TextAt(D!Latest(D!Contents({value}))) = value
<1>1. /\ DecodeTypeOK /\ EncodeTypeOK /\ StringsTold /\ step = "done"
      /\ Handed.tags = tags /\ Handed.top = top
  BY EndedFacts DEF TreeInv
<1>2. PICK i \in DOMAIN top :
        /\ tags[top[i]].start = "SharedStrings"
        /\ \E j \in DOMAIN tags[top[i]].strings : tags[top[i]].strings[j].md5 = value
  BY <1>1 DEF StringsTold
<1>3. PICK j \in DOMAIN tags[top[i]].strings : tags[top[i]].strings[j].md5 = value
  BY <1>2
<1>4. j \in D!KeysAt(tags[top[i]].strings, {value})
  BY <1>3 DEF D!KeysAt
<1>5. <<i, j>> \in D!Contents({value})
  BY <1>1, <1>2, <1>4, ContentsAre
<1>6. PICK x : x = D!Latest(D!Contents({value}))
  OBVIOUS
<1>7. x \in D!Contents({value})
  BY <1>1, <1>5, <1>6, LatestExists
<1>8. PICK m \in DOMAIN top :
        /\ tags[top[m]].start = "SharedStrings"
        /\ \E l \in D!KeysAt(tags[top[m]].strings, {value}) : x = <<m, l>>
  BY <1>1, <1>7, ContentsAre
<1>9. PICK l \in D!KeysAt(tags[top[m]].strings, {value}) : x = <<m, l>>
  BY <1>8
<1>10. x[1] = m /\ x[2] = l
  BY <1>9
<1>11. l \in DOMAIN tags[top[m]].strings /\ tags[top[m]].strings[l].md5 = value
  BY <1>9 DEF D!KeysAt
<1>12. top[m] \in DOMAIN tags
  BY <1>1 DEF EncodeTypeOK
<1>13. tags[top[m]].strings[l].text = value
  BY <1>1, <1>8, <1>11, <1>12 DEF StringsTold
<1>14. D!TextAt(x) = value
  BY <1>1, <1>10, <1>13 DEF D!TextAt
<1>15. QED
  BY <1>5, <1>6, <1>14

(* The property tags of an instance are those written for it.              *)
LEMMA TagsBack ==
  ASSUME Ended, NEW inst \in D!Made
  PROVE  Tags(inst) = PropertiesOf(itemOf[inst]) /\ Tags(inst) \in Seq(PropertyTag)
<1>1. /\ DecodeTypeOK /\ EncodeInv /\ EncodeTypeOK /\ Handed.tags = tags
      /\ itemOf[inst] \in Items
  BY EndedFacts, AllAreInstances
<1>2. PICK list : list = TagsOf(inst)
  OBVIOUS
<1>3. list = tags[itemOf[inst]].tags
  BY <1>1, <1>2, MadeType DEF TagsOf
<1>4. list # <<>> /\ tags[list[1]].start = "Properties" /\ list \in Seq(DOMAIN tags)
  <2>1. list \in Seq(DOMAIN tags)
    BY <1>1, <1>2, ListType
  <2>2. QED
    BY <1>1, <1>3, <2>1 DEF EncodeInv, Nesting
<1>5. 1 \in DOMAIN list /\ \A n \in DOMAIN list : n <= 1 => n = 1
  BY <1>4
<1>6. PICK n \in DOMAIN list :
        /\ Tags(inst) = tags[list[n]].properties
        /\ \A i \in DOMAIN list : tags[list[i]].start = "Properties" => n <= i
  BY <1>1, <1>2, <1>4, <1>5, TagsAre
<1>7. n = 1
  BY <1>4, <1>5, <1>6
<1>8. Tags(inst) = PropertiesOf(itemOf[inst])
  BY <1>3, <1>6, <1>7 DEF PropertiesOf
<1>9. QED
  BY <1>1, <1>8, TagsAre

(* A property has one tag, which says its value, or none.                  *)
LEMMA OneTag ==
  ASSUME Ended, NEW inst \in D!Made, NEW p \in Properties, NEW value,
         value = root.properties[Original(inst)][p]
  PROVE  /\ value \in Unknown \cup {Unset} => D!Tagged(inst, p) = {}
         /\ value \notin Unknown \cup {Unset} =>
              \E j \in Nat, t \in PropertyTag :
                /\ D!Tagged(inst, p) = {<<j, t>>} /\ t.name = p /\ Says(t, value)
                /\ Leads(Original(inst), t)
<1>1. /\ PropertiesTold /\ properties = root.properties /\ NamesLead /\ itemOf[inst] \in Items
  BY EndedFacts, AllAreInstances DEF TreeInv, EncodeInv
<1>2. PICK list : list = Tags(inst)
  OBVIOUS
<1>3. list = PropertiesOf(itemOf[inst]) /\ list \in Seq(PropertyTag)
  BY <1>2, TagsBack
<1>4. AreTold(Original(inst), list, {})
  BY <1>1, <1>3 DEF PropertiesTold, Original
<1>5. IF value \in Unknown \cup {Unset} THEN NotTold(list, p) ELSE Told(list, p, value)
  BY <1>1, <1>4 DEF AreTold
<1>6. D!Tagged(inst, p) = {<<i, list[i]>> : i \in {j \in DOMAIN list : list[j].name = p}}
  BY <1>2, TaggedAre
<1>7. ASSUME value \in Unknown \cup {Unset} PROVE D!Tagged(inst, p) = {}
  <2>1. {j \in DOMAIN list : list[j].name = p} = {}
    BY <1>5, <1>7 DEF NotTold
  <2>2. QED
    BY <1>6, <2>1
<1>8. ASSUME value \notin Unknown \cup {Unset}
      PROVE  \E j \in Nat, t \in PropertyTag :
               /\ D!Tagged(inst, p) = {<<j, t>>} /\ t.name = p /\ Says(t, value)
               /\ Leads(Original(inst), t)
  <2>1. PICK j \in DOMAIN list :
          /\ list[j].name = p /\ Says(list[j], value)
          /\ \A i \in DOMAIN list : list[i].name = p => i = j
    BY <1>5, <1>8 DEF Told
  <2>2. {i \in DOMAIN list : list[i].name = p} = {j}
    BY <2>1
  <2>3. D!Tagged(inst, p) = {<<j, list[j]>>}
    BY <1>6, <2>2
  <2>4. j \in Nat /\ list[j] \in PropertyTag
    BY <1>3
  <2>5. Leads(Original(inst), list[j])
    BY <1>1, <1>3 DEF NamesLead, Original
  <2>6. QED
    BY <2>1, <2>3, <2>4, <2>5
<1>9. QED
  BY <1>7, <1>8

LEMMA OnlyOne ==
  ASSUME NEW j \in Nat, NEW t
  PROVE  D!LastOf({<<j, t>>}) = t
<1>1. PICK none : none = {}
  OBVIOUS
<1>2. \A x \in none : x[1] \in Nat /\ x[1] < j
  BY <1>1
<1>3. D!LastOf(none \cup {<<j, t>>}) = t
  BY <1>2, LastAdded
<1>4. none \cup {<<j, t>>} = {<<j, t>>}
  BY <1>1
<1>5. QED
  BY <1>3, <1>4

(* What a single tag gives.                                                *)
LEMMA OneTagRead ==
  ASSUME NEW inst, NEW p, NEW j \in Nat, NEW t, D!Tagged(inst, p) = {<<j, t>>}
  PROVE  /\ D!Links(inst, p) = IF D!IsLink(t) THEN {<<j, t>>} ELSE {}
         /\ D!Plain(inst, p) = IF IsPlain(t) THEN {<<j, t>>} ELSE {}
         /\ D!Hashes(inst, p) = IF D!IsHash(t) THEN {D!HashOf(t)} ELSE {}
<1>1. PICK x : x = <<j, t>>
  OBVIOUS
<1>2. x[2] = t /\ D!Tagged(inst, p) = {x}
  BY <1>1
<1>3. D!Links(inst, p) = IF D!IsLink(t) THEN {x} ELSE {}
  BY <1>2 DEF D!Links
<1>4. D!Plain(inst, p) = IF IsPlain(t) THEN {x} ELSE {}
  BY <1>2, TaggedAre
<1>5. {y \in D!Tagged(inst, p) : D!IsHash(y[2])} = IF D!IsHash(t) THEN {x} ELSE {}
  BY <1>2
<1>6. D!Hashes(inst, p) = IF D!IsHash(t) THEN {D!HashOf(t)} ELSE {}
  <2>1. CASE D!IsHash(t)
    <3>1. D!Hashes(inst, p) = {D!HashOf(y[2]) : y \in {x}}
      BY <1>5, <2>1 DEF D!Hashes
    <3>2. QED
      BY <1>2, <2>1, <3>1
  <2>2. CASE ~D!IsHash(t)
    <3>1. D!Hashes(inst, p) = {D!HashOf(y[2]) : y \in {}}
      BY <1>5, <2>2 DEF D!Hashes
    <3>2. QED
      BY <2>2, <3>1
  <2>3. QED
    BY <2>1, <2>2
<1>7. QED
  BY <1>1, <1>3, <1>4, <1>6

(* A property has the value that could be read of what was written.        *)
LEMMA PropertyBack ==
  ASSUME Ended, NEW inst \in D!Made, NEW p \in Properties
  PROVE  newProperties[inst][p] = Back(root.properties[Original(inst)][p])
<1>1. PICK value : value = root.properties[Original(inst)][p]
  OBVIOUS
<1>2. /\ DecodeInv /\ EncodeTypeOK /\ EmptyNeverMarked /\ properties = root.properties
      /\ Handed.discard = FALSE /\ Original(inst) \in Instances
  BY EndedFacts, AllAreInstances DEF TreeInv
<1>3. value \in Value \cup {Unset}
  <2>1. root.properties \in [Instances -> [Properties -> Value \cup {Unset}]]
    BY <1>2, RootParts DEF EncodeTypeOK
  <2>2. QED
    BY <1>1, <1>2, <2>1
<1>4. newProperties[inst][p] =
        IF D!Links(inst, p) # {} THEN D!Named(D!LastOf(D!Links(inst, p)).text)
        ELSE IF D!Contents(D!Hashes(inst, p)) # {}
             THEN D!TextAt(D!Latest(D!Contents(D!Hashes(inst, p))))
        ELSE IF D!Plain(inst, p) # {} THEN D!PlainValue(D!LastOf(D!Plain(inst, p)))
        ELSE Unset
  <2>1. CASE value \in Unknown \cup {Unset}
    <3>1. D!Tagged(inst, p) = {}
      BY <1>1, <2>1, OneTag
    <3>2. ~D!Misread(inst, p)
      BY <3>1 DEF D!Misread
    <3>3. QED
      BY <1>2, <3>2, PropertiesRead DEF Ended, D!PropertiesAsTagged
  <2>2. CASE value \notin Unknown \cup {Unset}
    <3>1. PICK j \in Nat, t \in PropertyTag : D!Tagged(inst, p) = {<<j, t>>} /\ Says(t, value)
      BY <1>1, <2>2, OneTag
    <3>2. t.kind # "badhash"
      BY <3>1, Zenon DEF Says
    <3>3. \A x \in D!Tagged(inst, p) : x[2] = t
      BY <3>1
    <3>4. ~D!Misread(inst, p)
      BY <3>2, <3>3 DEF D!Misread
    <3>5. QED
      BY <1>2, <3>4, PropertiesRead DEF Ended, D!PropertiesAsTagged
  <2>3. QED
    BY <2>1, <2>2
<1>5. /\ Shared \subseteq Data /\ Unknown \subseteq Data /\ Unknown \cap Shared = {}
      /\ Nil \notin Instances /\ Nil \notin Data /\ Instances \cap Data = {}
      /\ Unset \notin Instances /\ Unset # Nil /\ Unset \notin Data
  BY NilAssumption, DataAssumption, TagAssumption
<1>6. CASE value \in Unknown \cup {Unset}
  <2>1. D!Tagged(inst, p) = {}
    BY <1>1, <1>6, OneTag
  <2>2. D!Links(inst, p) = {} /\ D!Plain(inst, p) = {} /\ D!Hashes(inst, p) = {}
    BY <2>1 DEF D!Links, D!Plain, D!Hashes
  <2>3. newProperties[inst][p] = Unset
    BY <1>4, <2>2, NoHashes
  <2>4. Back(value) = Unset
    <3>1. CASE value \in Unknown
      BY <1>5, <3>1 DEF Back
    <3>2. CASE value = Unset
      BY <1>5, <3>2 DEF Back
    <3>3. QED
      BY <1>6, <3>1, <3>2
  <2>5. QED
    BY <1>1, <2>3, <2>4
<1>7. CASE value \notin Unknown \cup {Unset}
  <2>1. PICK j \in Nat, t \in PropertyTag :
          /\ D!Tagged(inst, p) = {<<j, t>>} /\ t.name = p /\ Says(t, value)
          /\ Leads(Original(inst), t)
    BY <1>1, <1>7, OneTag
  <2>2. /\ D!Links(inst, p) = IF D!IsLink(t) THEN {<<j, t>>} ELSE {}
        /\ D!Plain(inst, p) = IF IsPlain(t) THEN {<<j, t>>} ELSE {}
        /\ D!Hashes(inst, p) = IF D!IsHash(t) THEN {D!HashOf(t)} ELSE {}
    BY <2>1, OneTagRead
  <2>3. D!LastOf({<<j, t>>}) = t
    BY OnlyOne
  <2>4. CASE value = Nil
    <3>1. t.kind = "Ref" /\ t.text \in EmptyRefs
      BY <1>5, <2>1, <2>4 DEF Says
    <3>2. ~D!IsLink(t) /\ IsPlain(t) /\ ~D!IsHash(t)
      BY <3>1 DEF D!IsLink, IsPlain, D!IsHash, D!IsEmptyReference
    <3>3. newProperties[inst][p] = D!PlainValue(t)
      BY <1>4, <2>2, <2>3, <3>2, NoHashes
    <3>4. D!PlainValue(t) = Nil
      BY <3>1 DEF D!PlainValue
    <3>5. Back(value) = Nil
      BY <1>5, <2>4 DEF Back
    <3>6. QED
      BY <1>1, <3>3, <3>4, <3>5
  <2>5. CASE value \in Instances
    <3>1. t.kind = "Ref" /\ t.text \notin EmptyRefs
      BY <1>5, <2>1, <2>5 DEF Says
    <3>2. D!IsLink(t) /\ t.text \in Refs
      BY <3>1, ReferenceText DEF D!IsLink, D!IsEmptyReference
    <3>3. newProperties[inst][p] = D!Named(t.text)
      BY <1>4, <2>2, <2>3, <3>2
    <3>4. refs[t.text] = value
      BY <1>1, <1>2, <1>5, <2>1, <2>5, <3>1 DEF Leads
    <3>5. D!Named(t.text) = LastCopy(value)
      BY <2>5, <3>2, <3>4, NamedLast
    <3>6. Back(value) = LastCopy(value)
      BY <1>5, <2>5 DEF Back
    <3>7. QED
      BY <1>1, <3>3, <3>5, <3>6
  <2>6. CASE value \in Shared
    <3>1. t.kind = "SharedString" /\ t.text = value /\ value \in sharedStrings
      BY <1>5, <2>1, <2>6 DEF Says
    <3>2. ~D!IsLink(t) /\ D!IsHash(t) /\ D!HashOf(t) = value
      BY <3>1 DEF D!IsLink, D!IsHash, D!HashOf
    <3>3. newProperties[inst][p] = value
      BY <1>4, <2>2, <3>1, <3>2, ContentsBack
    <3>4. Back(value) = value
      BY <1>5, <2>6 DEF Back
    <3>5. QED
      BY <1>1, <3>3, <3>4
  <2>7. CASE value \in Data \ Shared
    <3>1. t.kind = "value" /\ t.text = Readable[value]
      BY <1>5, <1>7, <2>1, <2>7 DEF Says
    <3>2. ~D!IsLink(t) /\ IsPlain(t) /\ ~D!IsHash(t)
      BY <3>1 DEF D!IsLink, IsPlain, D!IsHash
    <3>3. newProperties[inst][p] = D!PlainValue(t)
      BY <1>4, <2>2, <2>3, <3>2, NoHashes
    <3>4. D!PlainValue(t) = Readable[value]
      BY <3>1 DEF D!PlainValue
    <3>5. Back(value) = Readable[value]
      BY <1>5, <1>7, <2>7 DEF Back
    <3>6. QED
      BY <1>1, <3>3, <3>4, <3>5
  <2>8. QED
    BY <1>3, <1>7, <2>4, <2>5, <2>6, <2>7 DEF Value
<1>8. QED
  BY <1>6, <1>7

-------------------------------------------------------------------------------

(* A tree of any size that is encoded to XML and decoded is the tree that  *)
(* was encoded, whatever its names are, wherever its references lead and   *)
(* in whatever order things are written; only a nil instance in the tree   *)
(* makes Encode panic (rbxlx/codec.go:68-237, 1151-1245, RoundTrip).       *)
THEOREM TreeComesBack == RoundTripSpec => []RoundTrip
<1>1. BackInv => RoundTrip
  <2> SUFFICES ASSUME BackInv PROVE RoundTrip
    OBVIOUS
  <2>1. step = "panic" => NilInTree
    BY DEF BackInv, TreeInv
  <2>2. ASSUME phase = "done", given = <<>>
        PROVE  /\ Originals(instances) = root.instances
               /\ metadata = IF root.excludeMetadata THEN [key \in Metadata |-> NoAttr]
                             ELSE root.metadata
               /\ missing = 0
               /\ \A inst \in D!Made :
                    /\ tags[itemOf[inst]].class = root.class[Original(inst)]
                    /\ Originals(children[inst]) = root.children[Original(inst)]
                    /\ newReference[inst] = IF root.excludeReferent THEN NoRef
                                            ELSE reference[Original(inst)]
                    /\ \A p \in Properties :
                         newProperties[inst][p] = Back(root.properties[Original(inst)][p])
    <3>1. Ended
      BY <2>2 DEF Ended
    <3>2. \A inst \in D!Made : tags[itemOf[inst]].class = root.class[Original(inst)]
      BY <3>1, AllAreInstances DEF Original
    <3>3. missing = 0
      BY <3>1, AllAreInstances
    <3>4. QED
      BY <3>1, <3>2, <3>3, TreeBack, MetaBack, ReferencesBack, PropertyBack
  <2>3. QED
    BY <2>1, <2>2 DEF RoundTrip, NilInTree
<1>2. QED
  BY <1>1, BackInvariant, PTL

===============================================================================
