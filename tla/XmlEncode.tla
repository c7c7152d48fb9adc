------------------------------- MODULE XmlEncode -------------------------------
(***************************************************************************)
(* Encoding to XML: robloxCodec.Encode (rbxlx/codec.go) turns a tree into  *)
(* a document of tags.                                                     *)
(*                                                                         *)
(* An instance gets its reference from the table of References when it is  *)
(* met, and that is when its Item is written or when a property refers to  *)
(* it, whichever comes first; either may rename it.  Contents of shared    *)
(* strings are left to the end, in a tag of their own.                     *)
(*                                                                         *)
(* The tags that nest are kept in a table and point to each other by their *)
(* position in it; a Properties tag holds its property tags itself.        *)
(***************************************************************************)
EXTENDS XmlTags, FiniteSets

CONSTANTS
  Unknown,      \* those of Data whose type has no tag
  Readable,     \* what the tag of each of the others can be read as
  NullRef,      \* "null"
  Roots         \* the roots to encode, each with the settings of the codec

(* Of an optional of a type other than CFrame only the type is left.       *)
ASSUME MetadataAssumption == IsFiniteSet(Metadata)
ASSUME DataAssumption == Unknown \subseteq Data \ Shared /\ Readable \in [Data -> Data]
ASSUME NamesAssumption ==
  /\ Properties \subseteq Nat
  /\ NullRef \in EmptyRefs

RootRecord ==
  [instances : Seq(Instances \cup {Nil}), children : [Instances -> Seq(Instances \cup {Nil})],
   class : [Instances -> Classes], reference : [Instances -> Refs],
   properties : [Instances -> [Properties -> Value \cup {Unset}]],
   metadata : [Metadata -> Metadata \cup {NoAttr}],
   excludeReferent : BOOLEAN, excludeExternal : BOOLEAN, excludeMetadata : BOOLEAN]
ASSUME RootsAssumption == Roots \subseteq RootRecord

VARIABLES
  root,         \* the root, which Encode reads
  step,         \* start, items, then done or panic
  todo,         \* the calls of encodeInstance still to be made
  item,         \* the instance whose properties are being encoded, with its tags
  sharedStrings,\* the contents met so far
  tags,         \* the table of tags
  top,          \* the tags right under the root tag
  written       \* (history) the instance of each Item tag

encodeVars == <<refs, reference, properties, root, step, todo, item, sharedStrings,
                tags, top, written>>

Call == [instance : Instances \cup {Nil}, parent : Nat]
Item ==
  [instance : Instances, parent : Nat, ref : Refs, names : SUBSET Properties,
   properties : Seq(PropertyTag)]
NoItem == [instance |-> Nil]

EncodeTypeOK ==
  /\ TypeOK
  /\ root \in RootRecord
  /\ step \in {"start", "items", "done", "panic"}
  /\ todo \in Seq(Call)
  /\ item \in Item \cup {NoItem}
  /\ sharedStrings \subseteq Shared /\ IsFiniteSet(sharedStrings)
  /\ tags \in Seq(Tag)
  /\ top \in Seq(1 .. Len(tags))
  /\ \A k \in DOMAIN tags : tags[k].start = "Item" => tags[k].tags \in Seq(1 .. Len(tags))
  /\ written \in [{k \in DOMAIN tags : tags[k].start = "Item"} -> Instances]

-------------------------------------------------------------------------------

Orders(S) == {s \in [1 .. Cardinality(S) -> S] : \A x \in S : \E i \in DOMAIN s : s[i] = x}
IsLeast(x, S) == x \in S /\ \A y \in S : x <= y

CallsFor(instances, parent) ==
  [i \in DOMAIN instances |-> [instance |-> instances[i], parent |-> parent]]

WithChild(tag, child) == [tag EXCEPT !.tags = Append(@, child)]

(* Mutant: the child is taken to be behind the end of the table.           *)
MutUnder(table, k, child) ==
  [i \in DOMAIN table |-> IF i = k THEN WithChild(table[i], Len(table) + 1) ELSE table[i]]

(* The tags under tag k, the root tag being number 0, get one more.        *)
Under(table, k, child) ==
  [i \in DOMAIN table |-> IF i = k THEN WithChild(table[i], child) ELSE table[i]]

MetaTags(keys) ==
  [i \in DOMAIN keys |-> [start |-> "Meta", name |-> keys[i], text |-> root.metadata[keys[i]]]]

External == [start |-> "External"]
ExternalTags == IF root.excludeExternal THEN <<>> ELSE <<External, External>>

(* Metadata, sorted by its names, which are in some order; then External.  *)
EncodeRoot ==
  /\ step = "start"
  /\ \E keys \in Orders({key \in Metadata : root.metadata[key] # NoAttr /\ ~root.excludeMetadata}) :
       tags' = MetaTags(keys) \o ExternalTags
  /\ top' = [k \in DOMAIN tags' |-> k]
  /\ todo' = CallsFor(root.instances, 0)
  /\ step' = "items"
  /\ UNCHANGED <<refs, reference, properties, root, item, sharedStrings, written>>

Crash ==
  /\ step' = "panic"
  /\ UNCHANGED <<refs, reference, properties, root, todo, item, sharedStrings, tags, top, written>>

(* encodeInstance up to its properties.  Get has nothing for nil, whose    *)
(* properties are then read.                                               *)
EncodeInstance ==
  /\ step = "items"
  /\ item = NoItem
  /\ todo # <<>>
  /\ LET call == Head(todo) IN
     \/ call.instance = Nil /\ Crash
     \/ /\ call.instance # Nil
        /\ \E ref \in Refs :
             /\ Get(call.instance, ref)
             /\ item' = [instance |-> call.instance, parent |-> call.parent, ref |-> ref,
                         names |-> {p \in Properties : properties[call.instance][p] # Unset},
                         properties |-> <<>>]
        /\ todo' = Tail(todo)
        /\ UNCHANGED <<properties, root, step, sharedStrings, tags, top, written>>

(* Mutant: the reference the referent had.                                 *)
MutRefText(referent, ref) == reference[referent]

(* The text of a property that refers to an instance.                      *)
RefText(referent, ref) == ref

PropertyOf(name, kind, text) == [name |-> name, kind |-> kind, text |-> text]
WithTag(tag) ==
  [item EXCEPT !.names = @ \ {tag.name}, !.properties = Append(@, tag)]

(* The next property, in the order of the names.                           *)
IsNext(name) == step = "items" /\ item # NoItem /\ IsLeast(name, item.names)

EncodeReference(name) ==
  /\ IsNext(name)
  /\ LET value == properties[item.instance][name] IN
     \/ /\ value = Nil
        /\ item' = WithTag(PropertyOf(name, "Ref", NullRef))
        /\ UNCHANGED <<refs, reference>>
     \/ /\ value \in Instances
        /\ \E ref \in Refs :
             /\ Get(value, ref)
             /\ item' = WithTag(PropertyOf(name, "Ref", RefText(value, ref)))
  /\ UNCHANGED <<properties, root, step, todo, sharedStrings, tags, top, written>>

(* Mutant: the contents are not kept.                                      *)
MutKept(value) == sharedStrings

(* The shared strings once a value is encoded; the hash, which is the key, *)
(* tells all contents apart.                                               *)
Kept(value) == IF value \in Shared THEN sharedStrings \cup {value} ELSE sharedStrings

(* The tag of any other value, if it has one.                              *)
EncodeValue(name) ==
  /\ IsNext(name)
  /\ LET value == properties[item.instance][name] IN
     /\ value \in Data
     /\ item' =
          CASE value \in Shared -> WithTag(PropertyOf(name, "SharedString", value))
            [] value \in Unknown -> [item EXCEPT !.names = @ \ {name}]
            [] OTHER -> WithTag(PropertyOf(name, "value", Readable[value]))
     /\ sharedStrings' = Kept(value)
  /\ UNCHANGED <<refs, reference, properties, root, step, todo, tags, top, written>>

ItemTag(k) ==
  [start |-> "Item", class |-> root.class[item.instance],
   referent |-> IF root.excludeReferent THEN NoAttr ELSE item.ref, tags |-> <<k>>]

(* The item is put under its parent, and the children are next.            *)
AppendItem ==
  /\ step = "items"
  /\ item # NoItem
  /\ item.names = {}
  /\ LET k == Len(tags) + 1
         grown == Append(Append(tags, [start |-> "Properties", properties |-> item.properties]),
                         ItemTag(k)) IN
     /\ tags' = Under(grown, item.parent, k + 1)
     /\ top' = IF item.parent = 0 THEN Append(top, k + 1) ELSE top
     /\ todo' = CallsFor(root.children[item.instance], k + 1) \o todo
     /\ written' = [n \in DOMAIN written \cup {k + 1} |->
                      IF n = k + 1 THEN item.instance ELSE written[n]]
  /\ item' = NoItem
  /\ UNCHANGED <<refs, reference, properties, root, step, sharedStrings>>

(* The contents of the shared strings, in the order of the hashes.         *)
EncodeStrings ==
  /\ step = "items"
  /\ item = NoItem
  /\ todo = <<>>
  /\ IF sharedStrings = {} THEN UNCHANGED <<tags, top>>
     ELSE /\ \E keys \in Orders(sharedStrings) :
               tags' = Append(tags, [start |-> "SharedStrings",
                                     strings |-> [i \in DOMAIN keys |-> [md5 |-> keys[i], text |-> keys[i]]]])
          /\ top' = Append(top, Len(tags) + 1)
  /\ step' = "done"
  /\ UNCHANGED <<refs, reference, properties, root, todo, item, sharedStrings, written>>

EncodeInit ==
  /\ root \in Roots
  /\ refs = EmptyTable
  /\ reference = root.reference
  /\ properties = root.properties
  /\ step = "start"
  /\ todo = <<>>
  /\ item = NoItem
  /\ sharedStrings = {}
  /\ tags = <<>>
  /\ top = <<>>
  /\ written = [n \in {} |-> Nil]

EncodeNext ==
  \/ EncodeRoot \/ EncodeInstance
  \/ \E name \in Properties : EncodeReference(name) \/ EncodeValue(name)
  \/ AppendItem \/ EncodeStrings

EncodeSpec == EncodeInit /\ [][EncodeNext]_encodeVars

-------------------------------------------------------------------------------

Items == DOMAIN written
PropertiesOf(k) == tags[tags[k].tags[1]].properties

(* The text of a reference property names what the property leads to.      *)
Leads(inst, tag) ==
  tag.kind = "Ref" =>
    IF properties[inst][tag.name] = Nil THEN tag.text \in EmptyRefs
    ELSE refs[tag.text] = properties[inst][tag.name]

(* Every name in the document is the name of the instance it was written   *)
(* for, however often instances were renamed before and after: the         *)
(* referent of an Item is found in the table with the instance of the      *)
(* Item, and so is the text of a property with the instance the property   *)
(* leads to (rbxlx/codec.go:1209, 1426).                                   *)
NamesLead ==
  \A k \in Items :
    /\ tags[k].referent # NoAttr => refs[tags[k].referent] = written[k]
    /\ \A i \in DOMAIN PropertiesOf(k) : Leads(written[k], PropertiesOf(k)[i])

===============================================================================
