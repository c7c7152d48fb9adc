------------------------------- MODULE XmlDecode -------------------------------
(***************************************************************************)
(* Decoding from XML: robloxCodec.Decode (rbxlx/codec.go) turns a document *)
(* of tags, in whatever order they come, into a tree.                      *)
(*                                                                         *)
(* The items are read recursively.  Properties that refer to an instance   *)
(* or to a shared string are put off: the strings are set when their       *)
(* contents are met at the top of the document, the references in the end, *)
(* from a table in which a later item may have taken the name of an        *)
(* earlier one.                                                            *)
(*                                                                         *)
(* Here the Instances of References are those that Decode makes, numbered  *)
(* as they are made, and refs is instLookup.                               *)
(***************************************************************************)
EXTENDS XmlTags

CONSTANTS
  Zero,         \* the zero value of a property that cannot be read
  Documents     \* documents: a table of tags, those right under the root tag, and
                \* the codec's DiscardInvalidProperties

(* The tags under Item k of a document, the root tag being number 0.  They *)
(* are in the table, and no Item is in two places.                         *)
TagsUnder(doc, k) == IF k = 0 THEN doc.top ELSE doc.tags[k].tags
Nests(doc) ==
  LET nests == {0} \cup {k \in DOMAIN doc.tags : doc.tags[k].start = "Item"} IN
  /\ \A k \in nests : TagsUnder(doc, k) \in Seq(DOMAIN doc.tags)
  /\ \A k, l \in nests : \A i \in DOMAIN TagsUnder(doc, k), j \in DOMAIN TagsUnder(doc, l) :
       /\ TagsUnder(doc, k)[i] = TagsUnder(doc, l)[j]
       /\ doc.tags[TagsUnder(doc, k)[i]].start = "Item"
       => k = l /\ i = j
Document == {doc \in [tags : Seq(Tag), top : Seq(Nat), discard : BOOLEAN] : Nests(doc)}

VARIABLES
  document,     \* the document
  phase,        \* items, top, resolve, then done
  stack,        \* one frame for each call of getItems that has not returned
  itemOf,       \* the Item tag of every instance made
  children,     \* the Children of every instance
  instances,    \* Root.Instances
  metadata,     \* Root.Metadata
  propRefs,     \* references put off
  stringRefs,   \* shared strings put off
  pos,          \* how many tags at the top have been read the second time
  missing       \* how many items had no class

decodeVars == <<refs, reference, properties, document, phase, stack, itemOf, children,
                instances, metadata, propRefs, stringRefs, pos, missing>>

Made == DOMAIN itemOf

-------------------------------------------------------------------------------

Top == stack[Len(stack)]
WithTop(frame) == [stack EXCEPT ![Len(stack)] = frame]
Rest(frame) == [frame EXCEPT !.tags = Tail(@)]
NextIs(start) ==
  /\ phase = "items"
  /\ Top.pending = <<>>
  /\ Top.tags # <<>>
  /\ document.tags[Head(Top.tags)].start = start
NextTag == document.tags[Head(Top.tags)]

FrameFor(tags, parent) ==
  [tags |-> tags, parent |-> parent, pending |-> <<>>, hasProps |-> FALSE,
   properties |-> NoProperties, items |-> <<>>]

SkipItem ==
  /\ NextIs("Item")
  /\ NextTag.class = NoAttr
  /\ stack' = WithTop(Rest(Top))
  /\ missing' = missing + 1
  /\ UNCHANGED <<refs, reference, properties, document, phase, itemOf, children, instances,
                 metadata, propRefs, stringRefs, pos>>

(* The assignment to instLookup, which does not ask who had the name.      *)
Mark(inst, referent) ==
  IF IsEmptyReference(referent) THEN refs ELSE [refs EXCEPT ![referent] = inst]

(* Mutant: an item is put before those that came before it.                *)
MutCollected(items, inst) == <<inst>> \o items

ReferentOf(tag) == IF tag.referent = NoAttr THEN NoRef ELSE tag.referent
Collected(items, inst) == Append(items, inst)

(* A new instance, and the call of getItems for what is in its tag.        *)
DecodeItem ==
  /\ NextIs("Item")
  /\ NextTag.class # NoAttr
  /\ LET inst == Len(itemOf) + 1
         referent == ReferentOf(NextTag) IN
     /\ inst \in Instances
     /\ itemOf' = Append(itemOf, Head(Top.tags))
     /\ reference' = [reference EXCEPT ![inst] = referent]
     /\ refs' = Mark(inst, referent)
     /\ stack' = Append(WithTop([Rest(Top) EXCEPT !.items = Collected(@, inst)]),
                        FrameFor(NextTag.tags, inst))
  /\ UNCHANGED <<properties, document, phase, children, instances, metadata, propRefs,
                 stringRefs, pos, missing>>

(* Mutant: a second Properties tag counts as well.                         *)
MutTakesProperties(frame) == frame.parent # Nil
TakesProperties(frame) == ~frame.hasProps /\ frame.parent # Nil

DecodeProperties ==
  /\ NextIs("Properties")
  /\ stack' = WithTop(IF TakesProperties(Top)
                      THEN [Rest(Top) EXCEPT !.hasProps = TRUE, !.pending = NextTag.properties]
                      ELSE Rest(Top))
  /\ UNCHANGED <<refs, reference, properties, document, phase, itemOf, children, instances,
                 metadata, propRefs, stringRefs, pos, missing>>

SkipTag ==
  /\ phase = "items"
  /\ Top.pending = <<>>
  /\ Top.tags # <<>>
  /\ NextTag.start \notin {"Item", "Properties"}
  /\ stack' = WithTop(Rest(Top))
  /\ UNCHANGED <<refs, reference, properties, document, phase, itemOf, children, instances,
                 metadata, propRefs, stringRefs, pos, missing>>

(* What a property tag gives at once: the properties read so far with the  *)
(* value of the tag, unless it is put off or cannot be read.               *)
ReadNow(tag, map) ==
  IF tag.name = NoAttr THEN map ELSE
  CASE tag.kind = "value" -> [map EXCEPT ![tag.name] = tag.text]
    [] tag.kind = "broken" /\ ~document.discard -> [map EXCEPT ![tag.name] = Zero]
    [] tag.kind = "Ref" /\ IsEmptyReference(tag.text) -> [map EXCEPT ![tag.name] = Nil]
    [] OTHER -> map

(* The hash of a shared string that cannot be read is taken to be empty.   *)
HashOf(tag) == IF tag.kind = "badhash" THEN EmptyHash ELSE tag.text
IsLink(tag) == tag.kind = "Ref" /\ ~IsEmptyReference(tag.text)
IsHash(tag) == tag.kind = "SharedString" \/ (tag.kind = "badhash" /\ ~document.discard)

PutOff(tag, ref) == [instance |-> Top.parent, property |-> tag.name, reference |-> ref]

DecodeProperty ==
  /\ phase = "items"
  /\ Top.pending # <<>>
  /\ LET tag == Head(Top.pending) IN
     /\ stack' = WithTop([Top EXCEPT !.pending = Tail(@), !.properties = ReadNow(tag, @)])
     /\ propRefs' = IF tag.name # NoAttr /\ IsLink(tag)
                    THEN Append(propRefs, PutOff(tag, tag.text)) ELSE propRefs
     /\ stringRefs' = IF tag.name # NoAttr /\ IsHash(tag)
                      THEN Append(stringRefs, PutOff(tag, HashOf(tag))) ELSE stringRefs
  /\ UNCHANGED <<refs, reference, properties, document, phase, itemOf, children, instances,
                 metadata, pos, missing>>

(* getItems returns; the caller stores both results.                       *)
Return ==
  /\ phase = "items"
  /\ Top.pending = <<>> /\ Top.tags = <<>>
  /\ stack' = SubSeq(stack, 1, Len(stack) - 1)
  /\ IF Top.parent = Nil
     THEN /\ instances' = Top.items
          /\ phase' = "top"
          /\ UNCHANGED <<properties, children>>
     ELSE /\ properties' = [properties EXCEPT ![Top.parent] = Top.properties]
          /\ children' = [children EXCEPT ![Top.parent] = Top.items]
          /\ UNCHANGED <<instances, phase>>
  /\ UNCHANGED <<refs, reference, document, itemOf, metadata, propRefs, stringRefs, pos, missing>>

-------------------------------------------------------------------------------
(* The second look at the tags at the top.                                 *)

AtTop(start) ==
  phase = "top" /\ pos < Len(document.top) /\ document.tags[document.top[pos + 1]].start = start
TopTag == document.tags[document.top[pos + 1]]

DecodeMeta ==
  /\ AtTop("Meta")
  /\ metadata' = IF TopTag.name = NoAttr THEN metadata
                 ELSE [metadata EXCEPT ![TopTag.name] = TopTag.text]
  /\ pos' = pos + 1
  /\ UNCHANGED <<refs, reference, properties, document, phase, stack, itemOf, children,
                 instances, propRefs, stringRefs, missing>>

(* The strings of a tag with one of the keys.                              *)
KeysAt(strings, keys) == {i \in DOMAIN strings : strings[i].md5 \in keys}

(* The contents a SharedStrings tag has for them: the last of several.     *)
ContentsOf(strings, keys) ==
  strings[CHOOSE i \in KeysAt(strings, keys) : \A j \in KeysAt(strings, keys) : j <= i].text

(* The hashes that a property waits for.                                   *)
Awaited(inst, p) ==
  {stringRefs[i].reference : i \in {j \in DOMAIN stringRefs :
     stringRefs[j].instance = inst /\ stringRefs[j].property = p}}

(* The properties that wait for a string of this tag get it.               *)
Filled(strings) ==
  [inst \in Instances |-> [p \in Properties |->
     IF KeysAt(strings, Awaited(inst, p)) = {} THEN properties[inst][p]
     ELSE ContentsOf(strings, Awaited(inst, p))]]

DecodeSharedStrings ==
  /\ AtTop("SharedStrings")
  /\ properties' = Filled(TopTag.strings)
  /\ pos' = pos + 1
  /\ UNCHANGED <<refs, reference, document, phase, stack, itemOf, children, instances,
                 metadata, propRefs, stringRefs, missing>>

PassTag ==
  /\ phase = "top"
  /\ pos < Len(document.top)
  /\ TopTag.start \notin {"Meta", "SharedStrings"}
  /\ pos' = pos + 1
  /\ UNCHANGED <<refs, reference, properties, document, phase, stack, itemOf, children,
                 instances, metadata, propRefs, stringRefs, missing>>

AllRead ==
  /\ phase = "top"
  /\ pos = Len(document.top)
  /\ phase' = "resolve"
  /\ UNCHANGED <<refs, reference, properties, document, stack, itemOf, children, instances,
                 metadata, propRefs, stringRefs, pos, missing>>

ResolveNext ==
  /\ phase = "resolve"
  /\ propRefs # <<>>
  /\ Resolve(Head(propRefs).instance, Head(propRefs).property, Head(propRefs).reference)
  /\ propRefs' = Tail(propRefs)
  /\ UNCHANGED <<document, phase, stack, itemOf, children, instances, metadata, stringRefs,
                 pos, missing>>

AllResolved ==
  /\ phase = "resolve"
  /\ propRefs = <<>>
  /\ phase' = "done"
  /\ UNCHANGED <<refs, reference, properties, document, stack, itemOf, children, instances,
                 metadata, propRefs, stringRefs, pos, missing>>

NothingRead ==
  /\ refs = EmptyTable
  /\ reference = [inst \in Instances |-> NoRef]
  /\ properties = [inst \in Instances |-> NoProperties]
  /\ itemOf = <<>>
  /\ children = [inst \in Instances |-> <<>>]
  /\ instances = <<>>
  /\ metadata = [key \in Metadata |-> NoAttr]
  /\ propRefs = <<>>
  /\ stringRefs = <<>>
  /\ pos = 0
  /\ missing = 0

DecodeInit ==
  /\ document \in Documents
  /\ phase = "items"
  /\ stack = <<FrameFor(document.top, Nil)>>
  /\ NothingRead

DecodeNext ==
  \/ SkipItem \/ DecodeItem \/ DecodeProperties \/ SkipTag \/ DecodeProperty \/ Return
  \/ DecodeMeta \/ DecodeSharedStrings \/ PassTag \/ AllRead \/ ResolveNext \/ AllResolved

Returned == phase = "done" /\ UNCHANGED decodeVars
DecodeSpec == DecodeInit /\ [][DecodeNext \/ Returned]_decodeVars

-------------------------------------------------------------------------------

(* The tree is the nest of Items, in the order of the document; an Item    *)
(* without a class is not there, and nothing that is in it                 *)
(* (rbxlx/codec.go:123-170).                                               *)
IsInstance(k) == document.tags[k].start = "Item" /\ document.tags[k].class # NoAttr
AreItems(insts, list) ==
  \E at \in [DOMAIN insts -> {i \in DOMAIN list : IsInstance(list[i])}] :
    /\ \A m, n \in DOMAIN insts : m < n => at[m] < at[n]
    /\ \A i \in DOMAIN list : IsInstance(list[i]) => \E n \in DOMAIN insts : at[n] = i
    /\ \A n \in DOMAIN insts : itemOf[insts[n]] = list[at[n]]
TreeIsItems ==
  phase # "items" =>
    /\ \A i, j \in Made : itemOf[i] = itemOf[j] => i = j
    /\ AreItems(instances, document.top)
    /\ \A inst \in Made : AreItems(children[inst], document.tags[itemOf[inst]].tags)

(* What the document says of property p of an instance: its tags in the    *)
(* first Properties tag of the item.                                       *)
First(S) == CHOOSE i \in S : \A j \in S : i <= j
Last(S) == CHOOSE i \in S : \A j \in S : j <= i
PropertiesIn(k) ==
  LET list == document.tags[k].tags
      places == {i \in DOMAIN list : document.tags[list[i]].start = "Properties"} IN
  IF places = {} THEN <<>> ELSE document.tags[list[First(places)]].properties
Tagged(inst, p) ==
  LET list == PropertiesIn(itemOf[inst]) IN
  {<<i, list[i]>> : i \in {j \in DOMAIN list : list[j].name = p}}

LastOf(S) == (CHOOSE x \in S : \A y \in S : y[1] <= x[1])[2]
Links(inst, p) == {x \in Tagged(inst, p) : IsLink(x[2])}
Hashes(inst, p) == {HashOf(x[2]) : x \in {y \in Tagged(inst, p) : IsHash(y[2])}}
Plain(inst, p) ==
  {x \in Tagged(inst, p) : \/ x[2].kind = "value" \/ (x[2].kind = "broken" /\ ~document.discard)
                           \/ x[2].kind = "Ref" /\ IsEmptyReference(x[2].text)}

(* A hash among its tags could not be read, and is not to be discarded.    *)
Misread(inst, p) == \E x \in Tagged(inst, p) : x[2].kind = "badhash" /\ ~document.discard

Named(ref) ==
  LET those == {inst \in Made : document.tags[itemOf[inst]].referent = ref} IN
  IF those = {} THEN Nil ELSE Last(those)

(* The places <<i, j>> at which string j of tag i at the top has contents  *)
(* for one of the hashes.                                                  *)
Contents(hashes) ==
  UNION {LET strings == document.tags[document.top[i]].strings IN
         {<<i, j>> : j \in {n \in DOMAIN strings : strings[n].md5 \in hashes}} :
         i \in {n \in DOMAIN document.top : document.tags[document.top[n]].start = "SharedStrings"}}
TextAt(place) == document.tags[document.top[place[1]]].strings[place[2]].text
Latest(S) == CHOOSE x \in S : \A y \in S : y[1] < x[1] \/ (y[1] = x[1] /\ y[2] <= x[2])
PlainValue(tag) ==
  CASE tag.kind = "value" -> tag.text [] tag.kind = "broken" -> Zero [] tag.kind = "Ref" -> Nil

(* A property is what its tags say, whatever has been put off and in       *)
(* whatever order items, contents and properties come: a reference leads   *)
(* to the last Item of that name in the document, before or after, inside  *)
(* or outside; a shared string has the last contents given for its hash,   *)
(* before or after; references go before shared strings, and both before   *)
(* what can be read at once (rbxlx/codec.go:78-118, 190-237).  Left out is *)
(* a hash that could not be read: it is to be emitted as a zero value      *)
(* (rbxlx/codec.go:37-38), but the property stays as it is (922).          *)
PropertiesAsTagged ==
  phase = "done" =>
    \A inst \in Made, p \in Properties :
      LET contents == Contents(Hashes(inst, p)) IN
      Links(inst, p) # {} \/ ~Misread(inst, p) =>
        properties[inst][p] =
          IF Links(inst, p) # {} THEN Named(LastOf(Links(inst, p)).text)
          ELSE IF contents # {} THEN TextAt(Latest(contents))
          ELSE IF Plain(inst, p) # {} THEN PlainValue(LastOf(Plain(inst, p)))
          ELSE Unset

===============================================================================
