---------------------------- MODULE XmlEncodeProofs ----------------------------
(***************************************************************************)
(* The XML encoder is type correct, and the names it writes keep leading   *)
(* to the instances they were written for, for every tree, whatever names  *)
(* its instances have and whatever is drawn.                               *)
(*                                                                         *)
(* The table only grows (RefsGrow), so what is true of a name when it is   *)
(* written (Leading) is true ever after.  That the tags hang together      *)
(* (Nesting) says which of them the names are in.                          *)
(*                                                                         *)
(* At every moment the tree is what has been written, what is being        *)
(* written and what is still to do, put together (TreeInv): the Items      *)
(* under one are the first of the children it must get (Progress, Shape),  *)
(* and a property that has been passed has one tag, which says its value   *)
(* (AreTold).                                                              *)
(***************************************************************************)
EXTENDS XmlEncode, ReferencesProofs, FiniteSetTheorems

(* Parents are Items, and the first tag of an Item is its Properties.      *)
Nesting ==
  /\ step = "start" => tags = <<>> /\ item = NoItem
  /\ \A i \in DOMAIN todo : todo[i].parent \in Items \cup {0}
  /\ item # NoItem => item.parent \in Items \cup {0}
  /\ \A k \in Items : tags[k].tags # <<>> /\ tags[tags[k].tags[1]].start = "Properties"

(* The names in the item that is being written lead where they should.     *)
Leading ==
  item # NoItem =>
    /\ refs[item.ref] = item.instance
    /\ \A j \in DOMAIN item.properties : Leads(item.instance, item.properties[j])

EncodeInv == EncodeTypeOK /\ Nesting /\ Leading /\ NamesLead

(* What a step does to the table.                                          *)
RefsGrow == \A r \in Refs : refs[r] # Nil => refs'[r] = refs[r]

-------------------------------------------------------------------------------

(* What one element more does to a sequence.                               *)
LEMMA Appended ==
  ASSUME NEW S, NEW s \in Seq(S), NEW e
  PROVE  /\ Len(Append(s, e)) = Len(s) + 1
         /\ DOMAIN Append(s, e) = 1 .. Len(s) + 1
         /\ DOMAIN s = 1 .. Len(s)
         /\ \A i \in 1 .. Len(s) : Append(s, e)[i] = s[i] /\ s[i] \in S
         /\ Append(s, e)[Len(s) + 1] = e
OBVIOUS

LEMMA AppendType ==
  ASSUME NEW S, NEW s \in Seq(S), NEW e \in S
  PROVE  Append(s, e) \in Seq(S)
OBVIOUS

(* The parts of a root.                                                    *)
LEMMA RootParts ==
  ASSUME NEW r \in RootRecord
  PROVE  /\ r.instances \in Seq(Instances \cup {Nil})
         /\ r.children \in [Instances -> Seq(Instances \cup {Nil})]
         /\ r.class \in [Instances -> Classes]
         /\ r.reference \in [Instances -> Refs]
         /\ r.properties \in [Instances -> [Properties -> Value \cup {Unset}]]
         /\ r.metadata \in [Metadata -> Metadata \cup {NoAttr}]
BY DEF RootRecord

(* A tag by its start.                                                     *)
LEMMA TagKinds ==
  ASSUME NEW t \in Tag
  PROVE  /\ t.start = "Item" => t \in ItemTags /\ t.tags \in Seq(Nat)
         /\ t.start = "Properties" => t \in PropertiesTags /\ t.properties \in Seq(PropertyTag)
BY DEF Tag, ItemTags, PropertiesTags

(* The properties of an Item, and the name in a reference among them.      *)
LEMMA PropertiesType ==
  ASSUME EncodeTypeOK, Nesting, NEW k \in Items
  PROVE  /\ k \in 1 .. Len(tags) /\ tags[k] \in ItemTags
         /\ tags[k].tags[1] \in 1 .. Len(tags)
         /\ PropertiesOf(k) \in Seq(PropertyTag)
<1>1. tags \in Seq(Tag) /\ k \in 1 .. Len(tags) /\ tags[k].start = "Item"
  BY DEF EncodeTypeOK, Items
<1>2. tags[k] \in Tag
  BY <1>1
<1>3. tags[k].tags \in Seq(1 .. Len(tags)) /\ tags[k].tags # <<>>
  BY <1>1 DEF EncodeTypeOK, Nesting
<1>4. tags[k].tags[1] \in 1 .. Len(tags)
  BY <1>3
<1>5. tags[tags[k].tags[1]] \in Tag /\ tags[tags[k].tags[1]].start = "Properties"
  BY <1>1, <1>4 DEF Nesting
<1>6. QED
  BY <1>1, <1>2, <1>4, <1>5, TagKinds DEF PropertiesOf

LEMMA ReferenceText ==
  ASSUME NEW t \in PropertyTag, t.kind = "Ref"
  PROVE  t.text \in Refs
BY DEF PropertyTag

(* What a table that grows keeps.                                          *)
LEMMA LeadsStays ==
  ASSUME TypeOK, RefsGrow, properties' = properties,
         NEW inst \in Instances, NEW t \in PropertyTag, Leads(inst, t)
  PROVE  Leads(inst, t)'
<1>1. CASE t.kind = "Ref" /\ properties[inst][t.name] # Nil
  <2>1. t.text \in Refs /\ refs[t.text] # Nil
    BY <1>1, ReferenceText DEF Leads
  <2>2. QED
    BY <1>1, <2>1 DEF Leads, RefsGrow
<1>2. CASE ~ (t.kind = "Ref" /\ properties[inst][t.name] # Nil)
  BY <1>2 DEF Leads
<1>3. QED
  BY <1>1, <1>2

(* Get gives a name that leads to its instance and takes none away.        *)
LEMMA GetGrows ==
  ASSUME TypeOK, NEW i \in Instances, NEW ref \in Refs, Get(i, ref), properties' = properties
  PROVE  TypeOK' /\ RefsGrow /\ refs'[ref] = i
<1>1. refs[ref] \in {Nil, i}
  BY GetReferenceFree DEF Get
<1>2. /\ reference' = [reference EXCEPT ![i] = ref]
      /\ refs' = [refs EXCEPT ![ref] = i]
  BY DEF Get
<1>3. refs \in [Refs -> Instances \cup {Nil}] /\ reference \in [Instances -> Refs]
  BY DEF TypeOK
<1>4. TypeOK'
  BY <1>2, <1>3 DEF TypeOK
<1>5. QED
  BY <1>1, <1>2, <1>3, <1>4 DEF RefsGrow

(* One tag more under one of a table.                                      *)
LEMMA UnderType ==
  ASSUME NEW table \in Seq(Tag), NEW k \in Nat, NEW child \in Nat,
         k \in DOMAIN table => table[k] \in ItemTags
  PROVE  /\ Under(table, k, child) \in Seq(Tag)
         /\ DOMAIN Under(table, k, child) = 1 .. Len(table)
         /\ Len(Under(table, k, child)) = Len(table)
         /\ \A i \in 1 .. Len(table) : i # k => Under(table, k, child)[i] = table[i]
         /\ k \in 1 .. Len(table) =>
              /\ Under(table, k, child)[k] \in ItemTags
              /\ Under(table, k, child)[k].class = table[k].class
              /\ Under(table, k, child)[k].referent = table[k].referent
              /\ Under(table, k, child)[k].tags = Append(table[k].tags, child)
<1> DEFINE longer == WithChild(table[k], child)
           new == Under(table, k, child)
<1>1. DOMAIN new = 1 .. Len(table) /\ \A i \in 1 .. Len(table) : new[i] = IF i = k THEN longer ELSE table[i]
  BY DEF Under
<1>2. ASSUME k \in 1 .. Len(table)
      PROVE  longer \in ItemTags /\ longer.class = table[k].class /\ longer.referent = table[k].referent
             /\ longer.tags = Append(table[k].tags, child)
  <2>1. table[k] \in ItemTags
    BY <1>2
  <2>2. Append(table[k].tags, child) \in Seq(Nat)
    BY <2>1, AppendType DEF ItemTags
  <2>3. QED
    BY <2>1, <2>2 DEF ItemTags, WithChild
<1>3. \A i \in 1 .. Len(table) : new[i] \in Tag
  <2> SUFFICES ASSUME NEW i \in 1 .. Len(table) PROVE new[i] \in Tag
    OBVIOUS
  <2>1. table[i] \in Tag
    OBVIOUS
  <2>2. QED
    BY <1>1, <1>2, <2>1 DEF Tag
<1>4. new = [i \in 1 .. Len(table) |-> IF i = k THEN longer ELSE table[i]]
  BY DEF Under
<1>5. new \in Seq(Tag) /\ Len(new) = Len(table)
  <2> HIDE DEF longer, new
  <2>1. Len(table) \in Nat
    OBVIOUS
  <2>2. new \in [1 .. Len(table) -> Tag]
    BY <1>3, <1>4
  <2>3. QED
    BY <2>1, <2>2
<1>6. QED
  BY <1>1, <1>2, <1>5

LEMMA CallsType ==
  ASSUME NEW list \in Seq(Instances \cup {Nil}), NEW k \in Nat
  PROVE  /\ CallsFor(list, k) \in Seq(Call)
         /\ \A i \in DOMAIN CallsFor(list, k) : CallsFor(list, k)[i].parent = k
<1>1. CallsFor(list, k) = [i \in 1 .. Len(list) |-> [instance |-> list[i], parent |-> k]]
  BY DEF CallsFor
<1>2. \A i \in 1 .. Len(list) : [instance |-> list[i], parent |-> k] \in Call
  BY DEF Call
<1>3. CallsFor(list, k) \in [1 .. Len(list) -> Call] /\ Len(list) \in Nat
  BY <1>1, <1>2
<1>4. CallsFor(list, k) \in Seq(Call)
  BY <1>3
<1>5. QED
  BY <1>1, <1>4

(* What is written keeps its meaning while no tag is.                      *)
LEMMA NamesStay ==
  ASSUME EncodeInv, RefsGrow, properties' = properties, tags' = tags, written' = written
  PROVE  NamesLead'
<1>1. TypeOK /\ written \in [Items -> Instances]
  BY DEF EncodeInv, EncodeTypeOK, Items
<1>2. SUFFICES ASSUME NEW k \in Items
               PROVE  /\ tags[k].referent # NoAttr => refs'[tags[k].referent] = written[k]
                      /\ \A i \in DOMAIN PropertiesOf(k) :
                           Leads(written[k], PropertiesOf(k)[i])'
  BY DEF NamesLead, Items, PropertiesOf
<1>3. tags[k] \in ItemTags /\ PropertiesOf(k) \in Seq(PropertyTag)
  BY PropertiesType DEF EncodeInv
<1>4. tags[k].referent # NoAttr => refs'[tags[k].referent] = written[k]
  <2>1. tags[k].referent # NoAttr =>
          tags[k].referent \in Refs /\ refs[tags[k].referent] = written[k]
    BY <1>3 DEF ItemTags, EncodeInv, NamesLead
  <2>2. QED
    BY <1>1, <2>1, NilAssumption DEF RefsGrow
<1>5. ASSUME NEW i \in DOMAIN PropertiesOf(k)
      PROVE  Leads(written[k], PropertiesOf(k)[i])'
  <2>1. PICK inst \in Instances : inst = written[k]
    BY <1>1
  <2>2. PICK t \in PropertyTag : t = PropertiesOf(k)[i]
    BY <1>3
  <2>3. Leads(inst, t)
    BY <2>1, <2>2 DEF EncodeInv, NamesLead
  <2>4. Leads(inst, t)'
    BY <1>1, <2>3, LeadsStays
  <2>5. QED
    BY <2>1, <2>2, <2>4 DEF PropertiesOf, Leads
<1>6. QED
  BY <1>4, <1>5

(* Leading, for the item that is being written.                            *)
LEMMA LeadingStays ==
  ASSUME EncodeInv, RefsGrow, properties' = properties, item # NoItem
  PROVE  /\ refs'[item.ref] = item.instance
         /\ \A j \in DOMAIN item.properties :
              \A inst, t : inst = item.instance /\ t = item.properties[j] => Leads(inst, t)'
<1>1. TypeOK /\ item \in Item
  BY DEF EncodeInv, EncodeTypeOK
<1>2. refs'[item.ref] = item.instance
  BY <1>1, NilAssumption DEF EncodeInv, Leading, RefsGrow, Item
<1>3. ASSUME NEW j \in DOMAIN item.properties,
             NEW inst, NEW t, inst = item.instance, t = item.properties[j]
      PROVE  Leads(inst, t)'
  <2>1. inst \in Instances /\ t \in PropertyTag
    BY <1>1, <1>3 DEF Item
  <2>2. Leads(inst, t)
    BY <1>3 DEF EncodeInv, Leading
  <2>3. QED
    BY <1>1, <2>1, <2>2, LeadsStays
<1>4. QED
  BY <1>2, <1>3

LEMMA InitInv == EncodeInit => EncodeInv
<1> SUFFICES ASSUME EncodeInit PROVE EncodeInv
  OBVIOUS
<1>1. root \in RootRecord
  BY RootsAssumption DEF EncodeInit
<1>2. TypeOK
  BY <1>1, RootParts, NilAssumption DEF EncodeInit, TypeOK, EmptyTable
<1>3. Items = {} /\ DOMAIN tags = {}
  BY DEF EncodeInit, Items
<1>4. tags \in Seq(Tag) /\ top \in Seq(1 .. Len(tags)) /\ todo \in Seq(Call)
  BY DEF EncodeInit
<1>5. written \in [{k \in DOMAIN tags : tags[k].start = "Item"} -> Instances]
  BY <1>3 DEF EncodeInit
<1>6. IsFiniteSet({})
  BY FS_EmptySet
<1>7. EncodeTypeOK
  BY <1>1, <1>2, <1>3, <1>4, <1>5, <1>6 DEF EncodeInit, EncodeTypeOK
<1>8. QED
  BY <1>3, <1>7 DEF EncodeInit, EncodeInv, Nesting, Leading, NamesLead

(* An order of a finite set is a sequence.                                 *)
LEMMA OrdersType ==
  ASSUME NEW S, IsFiniteSet(S), NEW s \in Orders(S)
  PROVE  s \in Seq(S)
<1>1. Cardinality(S) \in Nat
  BY FS_CardinalityType
<1>2. s \in [1 .. Cardinality(S) -> S]
  BY DEF Orders
<1>3. QED
  BY <1>1, <1>2

LEMMA RootStep == EncodeInv /\ EncodeRoot => EncodeInv'
<1> SUFFICES ASSUME EncodeInv, EncodeRoot PROVE EncodeInv'
  OBVIOUS
<1> DEFINE S == {key \in Metadata : root.metadata[key] # NoAttr /\ ~root.excludeMetadata}
<1>1. EncodeTypeOK /\ tags = <<>> /\ item = NoItem /\ Items = {}
  <2>1. EncodeTypeOK /\ tags = <<>> /\ item = NoItem
    BY DEF EncodeInv, Nesting, EncodeRoot
  <2>2. QED
    BY <2>1 DEF EncodeTypeOK, Items
<1>2. PICK keys \in Orders(S) : tags' = MetaTags(keys) \o ExternalTags
  BY DEF EncodeRoot
<1>3. keys \in Seq(S)
  <2>1. IsFiniteSet(S)
    BY MetadataAssumption, FS_Subset
  <2>2. QED
    BY <2>1, OrdersType
<1>4. root \in RootRecord /\ root.instances \in Seq(Instances \cup {Nil})
        /\ root.metadata \in [Metadata -> Metadata \cup {NoAttr}]
  BY <1>1, RootParts DEF EncodeTypeOK
<1> DEFINE tagOf(i) == [start |-> "Meta", name |-> keys[i], text |-> root.metadata[keys[i]]]
<1>5. \A i \in 1 .. Len(keys) : tagOf(i) \in Tag /\ tagOf(i).start = "Meta"
  <2> SUFFICES ASSUME NEW i \in 1 .. Len(keys) PROVE tagOf(i) \in Tag
    OBVIOUS
  <2>1. keys[i] \in S
    BY <1>3
  <2>2. QED
    BY <1>4, <2>1 DEF Tag
<1>6. MetaTags(keys) \in Seq(Tag) /\ \A i \in DOMAIN MetaTags(keys) : MetaTags(keys)[i].start = "Meta"
  <2>1. MetaTags(keys) = [i \in 1 .. Len(keys) |-> tagOf(i)] /\ Len(keys) \in Nat
    BY <1>3 DEF MetaTags
  <2> HIDE DEF tagOf
  <2>2. MetaTags(keys) \in [1 .. Len(keys) -> Tag]
    BY <1>5, <2>1
  <2>3. QED
    BY <1>5, <2>1, <2>2
<1>7. ExternalTags \in Seq(Tag) /\ \A i \in DOMAIN ExternalTags : ExternalTags[i] = External
  <2>1. External \in Tag
    BY DEF External, Tag
  <2>2. QED
    BY <2>1 DEF ExternalTags
<1>8. tags' \in Seq(Tag) /\ \A k \in DOMAIN tags' : tags'[k].start # "Item"
  <2>1. tags' \in Seq(Tag)
    BY <1>2, <1>6, <1>7
  <2>2. ASSUME NEW k \in DOMAIN tags' PROVE tags'[k].start # "Item"
    <3>1. \/ k \in DOMAIN MetaTags(keys) /\ tags'[k] = MetaTags(keys)[k]
          \/ k - Len(MetaTags(keys)) \in DOMAIN ExternalTags
               /\ tags'[k] = ExternalTags[k - Len(MetaTags(keys))]
      BY <1>2, <1>6, <1>7, <2>2
    <3>2. QED
      BY <1>6, <1>7, <3>1 DEF External
  <2>3. QED
    BY <2>1, <2>2
<1>9. top' \in Seq(1 .. Len(tags'))
  <2>1. top' = [k \in 1 .. Len(tags') |-> k] /\ Len(tags') \in Nat
    BY <1>8 DEF EncodeRoot
  <2>2. top' \in [1 .. Len(tags') -> 1 .. Len(tags')]
    BY <2>1
  <2>3. QED
    BY <2>1, <2>2
<1>10. todo' \in Seq(Call) /\ \A i \in DOMAIN todo' : todo'[i].parent = 0
  BY <1>4, CallsType DEF EncodeRoot
<1>11. written' \in [{k \in DOMAIN tags' : tags'[k].start = "Item"} -> Instances] /\ Items' = {}
  BY <1>1, <1>8 DEF EncodeRoot, EncodeTypeOK, Items
<1>12. TypeOK'
  BY <1>1 DEF EncodeRoot, EncodeTypeOK, TypeOK
<1>13. EncodeTypeOK'
  BY <1>1, <1>8, <1>9, <1>10, <1>11, <1>12 DEF EncodeRoot, EncodeTypeOK
<1>14. step' = "items" /\ item' = NoItem
  BY <1>1 DEF EncodeRoot
<1>15. QED
  BY <1>10, <1>11, <1>13, <1>14 DEF EncodeInv, Nesting, Leading, NamesLead

(* The rest of the invariant when a step touches neither tags nor calls.   *)
LEMMA TypeStays ==
  ASSUME EncodeInv, TypeOK', UNCHANGED <<root, tags, top, written>>,
         step' \in {"items", "done", "panic"}, todo' \in Seq(Call), item' \in Item \cup {NoItem},
         sharedStrings' \subseteq Shared, IsFiniteSet(sharedStrings')
  PROVE  EncodeTypeOK' /\ Items' = Items
BY DEF EncodeInv, EncodeTypeOK, Items

LEMMA TreeStays ==
  ASSUME EncodeInv, UNCHANGED <<tags, written>>, step' # "start",
         \A i \in DOMAIN todo' : todo'[i].parent \in Items \cup {0},
         item' # NoItem => item'.parent \in Items \cup {0}
  PROVE  Nesting'
BY DEF EncodeInv, Nesting, Items

LEMMA RefsSame ==
  ASSUME refs' = refs
  PROVE  RefsGrow
BY DEF RefsGrow

LEMMA InstanceStep == EncodeInv /\ EncodeInstance => EncodeInv'
<1> SUFFICES ASSUME EncodeInv, EncodeInstance PROVE EncodeInv'
  OBVIOUS
<1> DEFINE call == Head(todo)
<1>1. EncodeTypeOK /\ TypeOK /\ todo \in Seq(Call) /\ todo # <<>> /\ item = NoItem
  BY DEF EncodeInv, EncodeTypeOK, EncodeInstance
<1>2. call \in Call /\ Tail(todo) \in Seq(Call)
        /\ call.parent \in Items \cup {0}
        /\ \A i \in DOMAIN Tail(todo) : Tail(todo)[i].parent \in Items \cup {0}
  <2>1. 1 \in DOMAIN todo /\ todo[1] = call /\ DOMAIN Tail(todo) = 1 .. Len(todo) - 1
    BY <1>1
  <2>2. \A i \in DOMAIN Tail(todo) : Tail(todo)[i] = todo[i + 1] /\ i + 1 \in DOMAIN todo
    BY <1>1, <2>1
  <2>3. \A i \in DOMAIN todo : todo[i].parent \in Items \cup {0}
    BY DEF EncodeInv, Nesting
  <2>4. call \in Call /\ Tail(todo) \in Seq(Call)
    BY <1>1
  <2>5. QED
    BY <2>1, <2>2, <2>3, <2>4
<1>3. CASE Crash
  <2>1. UNCHANGED <<refs, reference, properties, root, todo, item, sharedStrings, tags, top, written>>
          /\ step' = "panic"
    BY <1>3 DEF Crash
  <2>2. TypeOK'
    BY <1>1, <2>1 DEF TypeOK
  <2>3. EncodeTypeOK' /\ Items' = Items
    BY <1>1, <2>1, <2>2, TypeStays DEF EncodeTypeOK
  <2>4. Nesting'
    BY <2>1, TreeStays DEF EncodeInv, Nesting
  <2>5. NamesLead'
    BY <2>1, RefsSame, NamesStay
  <2>6. Leading'
    BY <1>1, <2>1 DEF Leading
  <2>7. QED
    BY <2>3, <2>4, <2>5, <2>6 DEF EncodeInv
<1>4. ASSUME NEW ref \in Refs, call.instance # Nil,
             Get(call.instance, ref), todo' = Tail(todo),
             item' = [instance |-> call.instance, parent |-> call.parent, ref |-> ref,
                      names |-> {p \in Properties : properties[call.instance][p] # Unset},
                      properties |-> <<>>],
             UNCHANGED <<properties, root, step, sharedStrings, tags, top, written>>
      PROVE  EncodeInv'
  <2>1. call.instance \in Instances /\ call.parent \in Nat
    BY <1>2, <1>4 DEF Call
  <2>2. TypeOK' /\ RefsGrow /\ refs'[ref] = call.instance
    BY <1>1, <1>4, <2>1, GetGrows
  <2>3. item' \in Item
    BY <1>4, <2>1 DEF Item
  <2>4. step' = "items"
    BY <1>4 DEF EncodeInstance
  <2>5. EncodeTypeOK' /\ Items' = Items
    BY <1>1, <1>2, <1>4, <2>2, <2>3, <2>4, TypeStays DEF EncodeTypeOK
  <2>6. Nesting'
    BY <1>2, <1>4, <2>4, TreeStays
  <2>7. NamesLead'
    BY <1>4, <2>2, NamesStay
  <2>8. Leading'
    BY <1>4, <2>2 DEF Leading
  <2>9. QED
    BY <2>5, <2>6, <2>7, <2>8 DEF EncodeInv
<1>5. QED
  BY <1>3, <1>4 DEF EncodeInstance

LEMMA WithTagType ==
  ASSUME item \in Item, NEW tag \in PropertyTag
  PROVE  /\ WithTag(tag) \in Item
         /\ WithTag(tag).instance = item.instance /\ WithTag(tag).parent = item.parent
         /\ WithTag(tag).ref = item.ref
         /\ WithTag(tag).properties = Append(item.properties, tag)
<1>1. item.properties \in Seq(PropertyTag)
  BY DEF Item
<1>2. Append(item.properties, tag) \in Seq(PropertyTag)
  BY <1>1, AppendType
<1>3. QED
  BY <1>2 DEF WithTag, Item

LEMMA NotNoItem ==
  ASSUME NEW it \in Item
  PROVE  it # NoItem
BY NilAssumption DEF Item, NoItem

(* One more tag of the item that is being written.                         *)
LEMMA TagStep ==
  ASSUME EncodeInv, item # NoItem, step = "items",
         TypeOK', RefsGrow, UNCHANGED <<properties, root, step, todo, tags, top, written>>,
         sharedStrings' \subseteq Shared, IsFiniteSet(sharedStrings'),
         NEW CONSTANT tag \in PropertyTag, item' = WithTag(tag),
         \A inst : inst = item.instance => Leads(inst, tag)'
  PROVE  EncodeInv'
<1>1. EncodeTypeOK /\ TypeOK /\ item \in Item
  BY DEF EncodeInv, EncodeTypeOK
<1>2. /\ item' \in Item
      /\ item'.instance = item.instance /\ item'.parent = item.parent /\ item'.ref = item.ref
      /\ item'.properties = Append(item.properties, tag)
  BY <1>1, WithTagType
<1>3. EncodeTypeOK' /\ Items' = Items
  BY <1>1, <1>2, TypeStays DEF EncodeTypeOK
<1>4. Nesting'
  BY <1>2, TreeStays DEF EncodeInv, Nesting
<1>5. NamesLead'
  BY NamesStay
<1>6. Leading'
  <2>1. refs'[item'.ref] = item'.instance
    BY <1>2, LeadingStays
  <2>2. ASSUME NEW j \in DOMAIN item'.properties,
               NEW inst, NEW t, inst = item.instance, t = item'.properties[j]
        PROVE  Leads(inst, t)'
    <3>1. item.properties \in Seq(PropertyTag)
      BY <1>1 DEF Item
    <3>2. CASE j \in DOMAIN item.properties
      <4>1. item'.properties[j] = item.properties[j]
        BY <1>2, <3>1, <3>2, Appended
      <4>2. QED
        BY <2>2, <3>2, <4>1, LeadingStays
    <3>3. CASE j \notin DOMAIN item.properties
      <4>1. item'.properties[j] = tag
        BY <1>2, <2>2, <3>1, <3>3, Appended
      <4>2. QED
        BY <2>2, <4>1
    <3>4. QED
      BY <3>2, <3>3
  <2>3. \A j \in DOMAIN item'.properties :
          Leads(item.instance, item.properties[j])'
    BY <1>2, <2>2 DEF Leads
  <2>4. QED
    BY <2>1, <2>3 DEF Leading
<1>7. QED
  BY <1>3, <1>4, <1>5, <1>6 DEF EncodeInv

LEMMA ReferenceStep ==
  ASSUME EncodeInv, NEW name \in Properties, EncodeReference(name)
  PROVE  EncodeInv'
<1>1. EncodeTypeOK /\ TypeOK /\ item \in Item /\ item # NoItem /\ step = "items"
  BY DEF EncodeInv, EncodeTypeOK, EncodeReference, IsNext
<1>2. /\ UNCHANGED <<properties, root, step, todo, tags, top, written>>
      /\ sharedStrings' \subseteq Shared /\ IsFiniteSet(sharedStrings')
  BY <1>1 DEF EncodeReference, EncodeTypeOK
<1> DEFINE value == properties[item.instance][name]
<1>3. CASE value = Nil /\ item' = WithTag(PropertyOf(name, "Ref", NullRef))
             /\ UNCHANGED <<refs, reference>>
  <2>1. PropertyOf(name, "Ref", NullRef) \in PropertyTag
    BY NamesAssumption, RefsAssumption DEF PropertyOf, PropertyTag
  <2>2. \A inst : inst = item.instance => Leads(inst, PropertyOf(name, "Ref", NullRef))'
    BY <1>2, <1>3, NamesAssumption DEF Leads, PropertyOf
  <2>3. TypeOK' /\ RefsGrow
    BY <1>1, <1>2, <1>3, RefsSame DEF TypeOK
  <2>4. QED
    BY <1>1, <1>2, <1>3, <2>1, <2>2, <2>3, TagStep
<1>4. ASSUME value \in Instances, NEW ref \in Refs, Get(value, ref),
             item' = WithTag(PropertyOf(name, "Ref", RefText(value, ref)))
      PROVE  EncodeInv'
  <2>1. RefText(value, ref) = ref
    BY DEF RefText
  <2>2. PropertyOf(name, "Ref", ref) \in PropertyTag
    BY DEF PropertyOf, PropertyTag
  <2>3. TypeOK' /\ RefsGrow /\ refs'[ref] = value
    BY <1>1, <1>2, <1>4, GetGrows
  <2>4. \A inst : inst = item.instance => Leads(inst, PropertyOf(name, "Ref", ref))'
    BY <1>2, <1>4, <2>3, NilAssumption DEF Leads, PropertyOf
  <2>5. QED
    BY <1>1, <1>2, <1>4, <2>1, <2>2, <2>3, <2>4, TagStep
<1>5. QED
  BY <1>3, <1>4 DEF EncodeReference

LEMMA ValueStep ==
  ASSUME EncodeInv, NEW name \in Properties, EncodeValue(name)
  PROVE  EncodeInv'
<1> DEFINE value == properties[item.instance][name]
<1>1. EncodeTypeOK /\ TypeOK /\ item \in Item /\ item # NoItem /\ step = "items"
  BY DEF EncodeInv, EncodeTypeOK, EncodeValue, IsNext
<1>2. /\ UNCHANGED <<refs, reference, properties, root, step, todo, tags, top, written>>
      /\ value \in Data /\ sharedStrings' = Kept(value)
  BY DEF EncodeValue
<1>3. TypeOK' /\ RefsGrow
  BY <1>1, <1>2, RefsSame DEF TypeOK
<1>4. sharedStrings' \subseteq Shared /\ IsFiniteSet(sharedStrings')
  <2>1. sharedStrings \subseteq Shared /\ IsFiniteSet(sharedStrings)
    BY <1>1 DEF EncodeTypeOK
  <2>2. QED
    BY <1>2, <2>1, FS_AddElement DEF Kept
<1>5. CASE value \in Shared
  <2>0. PropertyOf(name, "SharedString", value) \in PropertyTag
          /\ PropertyOf(name, "SharedString", value).kind # "Ref"
    BY <1>5 DEF PropertyOf, PropertyTag, Hash
  <2>1. PICK tag \in PropertyTag :
          tag = PropertyOf(name, "SharedString", value) /\ tag.kind # "Ref"
    BY <2>0
  <2>2. item' = WithTag(tag)
    BY <1>2, <1>5, <2>1, DataAssumption DEF EncodeValue
  <2>3. \A inst : inst = item.instance => Leads(inst, tag)'
    BY <2>1 DEF Leads
  <2>4. QED
    BY <1>1, <1>2, <1>3, <1>4, <2>1, <2>2, <2>3, TagStep
<1>6. CASE value \notin Shared /\ value \in Unknown
  <2>1. item' = [item EXCEPT !.names = item.names \ {name}]
    BY <1>6 DEF EncodeValue
  <2>2. /\ item' \in Item /\ item'.instance = item.instance /\ item'.ref = item.ref
        /\ item'.parent = item.parent /\ item'.properties = item.properties
    BY <1>1, <2>1 DEF Item
  <2>3. EncodeTypeOK' /\ Items' = Items
    BY <1>1, <1>2, <1>3, <1>4, <2>2, TypeStays DEF EncodeTypeOK
  <2>4. Nesting'
    BY <1>1, <1>2, <2>2, TreeStays DEF EncodeInv, Nesting
  <2>5. NamesLead'
    BY <1>2, <1>3, NamesStay
  <2>6. Leading'
    BY <1>1, <1>2, <1>3, <2>2, LeadingStays DEF Leading, Leads
  <2>7. QED
    BY <2>3, <2>4, <2>5, <2>6 DEF EncodeInv
<1>7. CASE value \notin Shared /\ value \notin Unknown
  <2>0. PropertyOf(name, "value", Readable[value]) \in PropertyTag
          /\ PropertyOf(name, "value", Readable[value]).kind # "Ref"
    BY <1>2, DataAssumption DEF PropertyOf, PropertyTag
  <2>1. PICK tag \in PropertyTag :
          tag = PropertyOf(name, "value", Readable[value]) /\ tag.kind # "Ref"
    BY <2>0
  <2>2. item' = WithTag(tag)
    BY <1>7, <2>1 DEF EncodeValue
  <2>3. \A inst : inst = item.instance => Leads(inst, tag)'
    BY <2>1 DEF Leads
  <2>4. QED
    BY <1>1, <1>2, <1>3, <1>4, <2>1, <2>2, <2>3, TagStep
<1>8. QED
  BY <1>5, <1>6, <1>7

(* What is said of the Items that are there holds when tags are added that *)
(* leave their referents, their properties and what they were written for. *)
LEMMA NamesCarried ==
  ASSUME EncodeInv, UNCHANGED <<refs, properties>>,
         \A k \in Items : /\ tags'[k].referent = tags[k].referent
                          /\ written'[k] = written[k]
                          /\ PropertiesOf(k)' = PropertiesOf(k)
  PROVE  \A k \in Items :
           /\ tags'[k].referent # NoAttr => refs'[tags'[k].referent] = written'[k]
           /\ \A i \in DOMAIN PropertiesOf(k)' : Leads(written[k], PropertiesOf(k)[i])'
<1>1. SUFFICES ASSUME NEW k \in Items
               PROVE  /\ tags'[k].referent # NoAttr => refs'[tags'[k].referent] = written'[k]
                      /\ \A i \in DOMAIN PropertiesOf(k)' :
                           Leads(written[k], PropertiesOf(k)[i])'
  OBVIOUS
<1>2. /\ tags[k].referent # NoAttr => refs[tags[k].referent] = written[k]
      /\ \A i \in DOMAIN PropertiesOf(k) : Leads(written[k], PropertiesOf(k)[i])
  BY DEF EncodeInv, NamesLead
<1>3. QED
  BY <1>2 DEF Leads

(* What an Item that is put under its parent does to the table of tags.    *)
LEMMA AppendFacts ==
  ASSUME EncodeInv, AppendItem, NEW k, k = Len(tags) + 1,
         NEW props, props = [start |-> "Properties", properties |-> item.properties]
  PROVE  /\ tags' \in Seq(Tag) /\ Len(tags') = k + 1 /\ DOMAIN tags' = 1 .. k + 1
         /\ \A n \in 1 .. Len(tags) : n # item.parent => tags'[n] = tags[n]
         /\ tags'[k] = props /\ tags'[k + 1] = ItemTag(k)
         /\ item.parent \in Items =>
              /\ tags'[item.parent] \in ItemTags
              /\ tags'[item.parent].class = tags[item.parent].class
              /\ tags'[item.parent].referent = tags[item.parent].referent
              /\ tags'[item.parent].tags = Append(tags[item.parent].tags, k + 1)
<1> DEFINE longer == Append(tags, props)
           grown == Append(longer, ItemTag(k))
<1>1. /\ EncodeTypeOK /\ TypeOK /\ item \in Item /\ item # NoItem /\ step = "items"
      /\ tags \in Seq(Tag) /\ top \in Seq(1 .. Len(tags)) /\ root \in RootRecord
      /\ written \in [Items -> Instances] /\ Items \subseteq 1 .. Len(tags)
      /\ Items = {n \in 1 .. Len(tags) : tags[n].start = "Item"}
  BY DEF EncodeInv, EncodeTypeOK, AppendItem, Items
<1>2. tags' = Under(grown, item.parent, k + 1)
  BY DEF AppendItem
<1>3. /\ item.instance \in Instances /\ item.ref \in Refs
      /\ item.properties \in Seq(PropertyTag)
      /\ item.parent \in Items \cup {0} /\ item.parent \in 0 .. Len(tags)
  BY <1>1 DEF Item, EncodeInv, Nesting
<1>4. props \in Tag /\ props.start = "Properties" /\ ItemTag(k) \in ItemTags /\ ItemTag(k) \in Tag
        /\ ItemTag(k).start = "Item" /\ ItemTag(k).tags = <<k>>
  <2>1. root.class[item.instance] \in Classes
    BY <1>1, <1>3, RootParts
  <2>2. <<k>> \in Seq(Nat)
    BY <1>1
  <2>3. QED
    BY <1>3, <2>1, <2>2 DEF Tag, ItemTags, PropertiesTags, ItemTag
<1>5. /\ grown \in Seq(Tag) /\ Len(grown) = k + 1 /\ k \in Nat
      /\ \A n \in 1 .. Len(tags) : grown[n] = tags[n]
      /\ grown[k] = props /\ grown[k + 1] = ItemTag(k)
  <2>1. /\ longer \in Seq(Tag) /\ Len(longer) = k
        /\ \A n \in 1 .. Len(tags) : longer[n] = tags[n]
        /\ longer[k] = props
    BY <1>1, <1>4, Appended, AppendType
  <2> HIDE DEF longer
  <2>2. /\ grown \in Seq(Tag) /\ Len(grown) = k + 1
        /\ \A n \in 1 .. k : grown[n] = longer[n]
        /\ grown[k + 1] = ItemTag(k)
    BY <1>4, <2>1, Appended, AppendType
  <2> HIDE DEF grown
  <2>3. Len(tags) \in Nat /\ k \in Nat /\ k \in 1 .. k /\ \A n \in 1 .. Len(tags) : n \in 1 .. k
    BY <1>1
  <2>4. \A n \in 1 .. Len(tags) : grown[n] = tags[n]
    BY <2>1, <2>2, <2>3
  <2>5. grown[k] = props
    BY <2>1, <2>2, <2>3
  <2>6. QED
    BY <2>2, <2>3, <2>4, <2>5
<1> HIDE DEF longer, grown
<1>6. QED
  <2>1. item.parent \in DOMAIN grown => item.parent \in Items /\ grown[item.parent] = tags[item.parent]
    BY <1>1, <1>3, <1>5
  <2>2. \A n \in Items : tags[n] \in ItemTags
    BY PropertiesType DEF EncodeInv
  <2>3. item.parent \in Nat /\ k + 1 \in Nat
    BY <1>3, <1>5
  <2>4. /\ tags' \in Seq(Tag) /\ DOMAIN tags' = 1 .. Len(grown) /\ Len(tags') = Len(grown)
        /\ \A i \in 1 .. Len(grown) : i # item.parent => tags'[i] = grown[i]
        /\ item.parent \in 1 .. Len(grown) =>
             /\ tags'[item.parent] \in ItemTags
             /\ tags'[item.parent].class = grown[item.parent].class
             /\ tags'[item.parent].referent = grown[item.parent].referent
             /\ tags'[item.parent].tags = Append(grown[item.parent].tags, k + 1)
    <3>1. item.parent \in DOMAIN grown => grown[item.parent] \in ItemTags
      BY <2>1, <2>2
    <3>2. QED
      BY ONLY <1>2, <1>5, <2>3, <3>1, UnderType
  <2>5. /\ \A n \in 1 .. Len(tags) : n \in 1 .. k + 1
        /\ k \in 1 .. k + 1 /\ k + 1 \in 1 .. k + 1
        /\ k # item.parent /\ k + 1 # item.parent
    BY <1>1, <1>3
  <2>6. item.parent \in Items => item.parent \in 1 .. Len(grown) /\ grown[item.parent] = tags[item.parent]
    BY <1>1, <1>5, <2>5
  <2>7. QED
    BY <1>5, <2>4, <2>5, <2>6

LEMMA AppendStep == EncodeInv /\ AppendItem => EncodeInv'
<1> SUFFICES ASSUME EncodeInv, AppendItem PROVE EncodeInv'
  OBVIOUS
<1> DEFINE k == Len(tags) + 1
           props == [start |-> "Properties", properties |-> item.properties]
           calls == CallsFor(root.children[item.instance], k + 1)
<1>1. /\ EncodeTypeOK /\ TypeOK /\ item \in Item /\ item # NoItem /\ step = "items"
      /\ tags \in Seq(Tag) /\ top \in Seq(1 .. Len(tags)) /\ root \in RootRecord
      /\ written \in [Items -> Instances] /\ Items \subseteq 1 .. Len(tags)
      /\ Items = {n \in 1 .. Len(tags) : tags[n].start = "Item"}
  BY DEF EncodeInv, EncodeTypeOK, AppendItem, Items
<1>2. /\ top' = IF item.parent = 0 THEN Append(top, k + 1) ELSE top
      /\ todo' = calls \o todo
      /\ written' = [n \in DOMAIN written \cup {k + 1} |->
                       IF n = k + 1 THEN item.instance ELSE written[n]]
      /\ item' = NoItem
      /\ UNCHANGED <<refs, reference, properties, root, step, sharedStrings>>
  BY DEF AppendItem
<1>3. /\ item.instance \in Instances /\ item.ref \in Refs
      /\ item.properties \in Seq(PropertyTag)
      /\ item.parent \in Items \cup {0} /\ item.parent \in 0 .. Len(tags)
  BY <1>1 DEF Item, EncodeInv, Nesting
<1>4. props \in Tag /\ props.start = "Properties" /\ ItemTag(k) \in ItemTags /\ ItemTag(k) \in Tag
        /\ ItemTag(k).start = "Item" /\ ItemTag(k).tags = <<k>>
  <2>1. root.class[item.instance] \in Classes
    BY <1>1, <1>3, RootParts
  <2>2. <<k>> \in Seq(Nat)
    BY <1>1
  <2>3. QED
    BY <1>3, <2>1, <2>2 DEF Tag, ItemTags, PropertiesTags, ItemTag
<1>5. k \in Nat
  BY <1>1
<1> HIDE DEF props
<1>6. /\ tags' \in Seq(Tag) /\ Len(tags') = k + 1 /\ DOMAIN tags' = 1 .. k + 1
      /\ \A n \in 1 .. Len(tags) : n # item.parent => tags'[n] = tags[n]
      /\ tags'[k] = props /\ tags'[k + 1] = ItemTag(k)
      /\ item.parent \in Items =>
           /\ tags'[item.parent] \in ItemTags
           /\ tags'[item.parent].class = tags[item.parent].class
           /\ tags'[item.parent].referent = tags[item.parent].referent
           /\ tags'[item.parent].tags = Append(tags[item.parent].tags, k + 1)
  BY AppendFacts DEF props
<1>7. ASSUME NEW n \in 1 .. Len(tags), n \notin Items
      PROVE  tags'[n] = tags[n] /\ tags'[n].start # "Item"
  <2>1. n # item.parent /\ tags[n].start # "Item"
    BY ONLY <1>1, <1>3, <1>7
  <2>2. QED
    BY <1>6, <2>1
<1>8. ASSUME NEW n \in Items
      PROVE  /\ tags'[n].start = "Item" /\ tags'[n].referent = tags[n].referent
             /\ tags'[n].tags \in Seq(1 .. k + 1)
             /\ tags'[n].tags # <<>> /\ tags'[n].tags[1] = tags[n].tags[1]
             /\ tags[n].tags[1] \in (1 .. Len(tags)) \ Items
  <2>1. tags[n].tags \in Seq(1 .. Len(tags)) /\ tags[n].tags # <<>> /\ tags[n].start = "Item"
    BY <1>1 DEF EncodeInv, EncodeTypeOK, Nesting
  <2>2. tags[n].tags[1] \in (1 .. Len(tags)) \ Items
    BY <1>1, PropertiesType DEF EncodeInv, Nesting
  <2>3. tags[n].tags \in Seq(1 .. k + 1)
    BY <1>5, <2>1
  <2>4. CASE n = item.parent
    <3>1. tags'[n].tags = Append(tags[n].tags, k + 1) /\ k + 1 \in 1 .. k + 1
      BY <1>5, <1>6, <2>4
    <3>2. Append(tags[n].tags, k + 1) \in Seq(1 .. k + 1)
      BY <2>3, <3>1, AppendType
    <3>3. Append(tags[n].tags, k + 1) # <<>> /\ Append(tags[n].tags, k + 1)[1] = tags[n].tags[1]
      <4>1. 1 \in 1 .. Len(tags[n].tags)
        BY <2>1
      <4>2. Append(tags[n].tags, k + 1)[1] = tags[n].tags[1]
              /\ Len(Append(tags[n].tags, k + 1)) = Len(tags[n].tags) + 1
        BY <2>1, <4>1, Appended
      <4>3. QED
        BY <2>1, <3>2, <4>1, <4>2
    <3>4. tags'[n].start = "Item" /\ tags'[n].referent = tags[n].referent
      BY <1>6, <2>4 DEF ItemTags
    <3>5. QED
      BY <2>2, <3>1, <3>2, <3>3, <3>4
  <2>5. CASE n # item.parent
    BY <1>1, <1>6, <2>1, <2>2, <2>3, <2>5
  <2>6. QED
    BY <2>4, <2>5
<1>9. /\ Items' = Items \cup {k + 1} /\ k + 1 \notin Items
      /\ written' \in [Items' -> Instances]
      /\ \A n \in Items : written'[n] = written[n]
      /\ written'[k + 1] = item.instance
  <2>1. k + 1 \notin Items
    BY <1>1, <1>5
  <2>2. written' = [n \in Items \cup {k + 1} |-> IF n = k + 1 THEN item.instance ELSE written[n]]
    BY <1>2 DEF Items
  <2>3. QED
    BY <1>1, <1>3, <2>1, <2>2 DEF Items
<1>10. Items' = {n \in DOMAIN tags' : tags'[n].start = "Item"}
  <2>1. tags'[k].start # "Item"
    BY <1>4, <1>6
  <2>2. tags'[k + 1].start = "Item"
    BY <1>4, <1>6
  <2>3. \A n \in DOMAIN tags' : n \in 1 .. Len(tags) \/ n = k \/ n = k + 1
    BY <1>1, <1>6
  <2>4. QED
    BY <1>1, <1>5, <1>6, <1>7, <1>8, <1>9, <2>1, <2>2, <2>3
<1>11. top' \in Seq(1 .. Len(tags'))
  <2>1. top \in Seq(1 .. Len(tags')) /\ k + 1 \in 1 .. Len(tags')
    BY <1>1, <1>5, <1>6
  <2>2. QED
    BY <1>2, <2>1, AppendType
<1>12. \A n \in DOMAIN tags' : tags'[n].start = "Item" => tags'[n].tags \in Seq(1 .. Len(tags'))
  <2>1. <<k>> \in Seq(1 .. k + 1)
    BY <1>5
  <2>2. SUFFICES ASSUME NEW n \in Items'
                 PROVE  tags'[n].tags \in Seq(1 .. Len(tags'))
    BY <1>10
  <2>3. CASE n \in Items
    BY <1>6, <1>8, <2>3
  <2>4. CASE n = k + 1
    <3>1. tags'[k + 1].tags = <<k>>
      BY <1>4, <1>6
    <3>2. QED
      BY <1>6, <2>1, <2>4, <3>1
  <2>5. QED
    BY <1>9, <2>3, <2>4
<1>13. /\ todo' \in Seq(Call)
       /\ \A i \in DOMAIN todo' : todo'[i].parent \in Items' \cup {0}
  <2>1. calls \in Seq(Call) /\ \A i \in DOMAIN calls : calls[i].parent = k + 1
    <3>1. root.children[item.instance] \in Seq(Instances \cup {Nil}) /\ k + 1 \in Nat
      BY <1>1, <1>3, <1>5, RootParts
    <3>2. QED
      BY <3>1, CallsType
  <2>2. todo \in Seq(Call) /\ \A i \in DOMAIN todo : todo[i].parent \in Items \cup {0}
    BY <1>1 DEF EncodeTypeOK, EncodeInv, Nesting
  <2> HIDE DEF calls
  <2>3. todo' \in Seq(Call)
    BY <1>2, <2>1, <2>2
  <2>4. ASSUME NEW i \in DOMAIN todo'
        PROVE  todo'[i].parent \in Items' \cup {0}
    <3>1. \/ i \in DOMAIN calls /\ todo'[i] = calls[i]
          \/ i - Len(calls) \in DOMAIN todo /\ todo'[i] = todo[i - Len(calls)]
      BY <1>2, <2>1, <2>2, <2>4
    <3>2. QED
      BY <1>9, <2>1, <2>2, <3>1
  <2>5. QED
    BY <2>3, <2>4
<1>14. TypeOK'
  BY <1>1, <1>2 DEF TypeOK
<1>15. EncodeTypeOK'
  <2>1. /\ root' \in RootRecord /\ step' \in {"start", "items", "done", "panic"}
        /\ item' \in Item \cup {NoItem}
        /\ sharedStrings' \subseteq Shared /\ IsFiniteSet(sharedStrings')
    BY <1>1, <1>2 DEF EncodeTypeOK
  <2>2. written' \in [{n \in DOMAIN tags' : tags'[n].start = "Item"} -> Instances]
    BY <1>9, <1>10
  <2>3. QED
    BY <1>6, <1>11, <1>12, <1>13, <1>14, <2>1, <2>2 DEF EncodeTypeOK
<1>16. Nesting'
  <2>1. \A n \in Items' : tags'[n].tags # <<>> /\ tags'[tags'[n].tags[1]].start = "Properties"
    <3>1. ASSUME NEW n \in Items
          PROVE  tags'[n].tags # <<>> /\ tags'[tags'[n].tags[1]].start = "Properties"
      <4>1. tags[tags[n].tags[1]].start = "Properties"
        BY DEF EncodeInv, Nesting
      <4>2. /\ tags'[n].tags # <<>> /\ tags'[n].tags[1] = tags[n].tags[1]
            /\ tags[n].tags[1] \in 1 .. Len(tags) /\ tags[n].tags[1] \notin Items
        BY <1>8
      <4>3. tags'[tags[n].tags[1]] = tags[tags[n].tags[1]]
        BY <1>7, <4>2
      <4>4. QED
        BY <4>1, <4>2, <4>3
    <3>2. tags'[k + 1].tags # <<>> /\ tags'[tags'[k + 1].tags[1]].start = "Properties"
      BY <1>4, <1>6
    <3>3. QED
      BY <1>9, <3>1, <3>2
  <2>2. QED
    BY <1>1, <1>2, <1>13, <2>1 DEF Nesting
<1>17. Leading'
  BY <1>2 DEF Leading, NoItem
<1>18. NamesLead'
  <2>1. \A n \in Items : PropertiesOf(n)' = PropertiesOf(n)
    BY <1>7, <1>8 DEF PropertiesOf
  <2>2. \A n \in Items :
           /\ tags'[n].referent # NoAttr => refs'[tags'[n].referent] = written'[n]
           /\ \A i \in DOMAIN PropertiesOf(n)' : Leads(written[n], PropertiesOf(n)[i])'
    BY <1>2, <1>8, <1>9, <2>1, NamesCarried
  <2>3. tags'[k + 1].referent # NoAttr => refs'[tags'[k + 1].referent] = written'[k + 1]
    <3>1. tags'[k + 1].referent \in {NoAttr, item.ref}
      BY <1>6 DEF ItemTag
    <3>2. refs[item.ref] = item.instance
      BY <1>1 DEF EncodeInv, Leading
    <3>3. QED
      BY <1>2, <1>9, <3>1, <3>2
  <2>4. tags'[tags'[k + 1].tags[1]].properties = item.properties
    BY <1>4, <1>6 DEF props
  <2>5. \A i \in DOMAIN item.properties :
          \A inst, t : inst = item.instance /\ t = item.properties[i] => Leads(inst, t)'
    BY <1>1, <1>2 DEF EncodeInv, Leading, Leads
  <2> HIDE DEF k
  <2>6. SUFFICES ASSUME NEW n \in Items'
        PROVE  /\ tags'[n].referent # NoAttr => refs'[tags'[n].referent] = written'[n]
               /\ \A i \in DOMAIN PropertiesOf(n)' : Leads(written[n], PropertiesOf(n)[i])'
    BY DEF NamesLead
  <2>7. CASE n \in Items
    BY <2>2, <2>7
  <2>8. CASE n = k + 1
    <3>1. PropertiesOf(n)' = item.properties /\ written'[n] = item.instance
      BY <1>9, <2>4, <2>8 DEF PropertiesOf
    <3>2. ASSUME NEW i \in DOMAIN PropertiesOf(n)'
          PROVE  Leads(written[n], PropertiesOf(n)[i])'
      <4>1. PICK inst, t : inst = item.instance /\ t = item.properties[i]
        OBVIOUS
      <4>2. Leads(inst, t)'
        BY <2>5, <3>1, <4>1
      <4>3. QED
        BY <3>1, <4>1, <4>2 DEF Leads
    <3>3. QED
      BY <2>3, <2>8, <3>2
  <2>9. QED
    BY <1>9, <2>7, <2>8
<1>19. QED
  BY <1>15, <1>16, <1>17, <1>18 DEF EncodeInv

LEMMA StringsStep == EncodeInv /\ EncodeStrings => EncodeInv'
<1> SUFFICES ASSUME EncodeInv, EncodeStrings PROVE EncodeInv'
  OBVIOUS
<1>1. /\ EncodeTypeOK /\ TypeOK /\ tags \in Seq(Tag) /\ item = NoItem /\ step' = "done"
      /\ written \in [Items -> Instances] /\ Items = {n \in DOMAIN tags : tags[n].start = "Item"}
      /\ UNCHANGED <<refs, reference, properties, root, todo, item, sharedStrings, written>>
  BY DEF EncodeInv, EncodeTypeOK, EncodeStrings, Items
<1>2. TypeOK' /\ RefsGrow
  BY <1>1, RefsSame DEF TypeOK
<1>3. CASE UNCHANGED <<tags, top>>
  <2>1. EncodeTypeOK' /\ Items' = Items
    BY <1>1, <1>2, <1>3, TypeStays DEF EncodeTypeOK
  <2>2. Nesting' /\ Leading'
    BY <1>1, <1>3, TreeStays DEF EncodeInv, Nesting, Leading
  <2>3. NamesLead'
    BY <1>1, <1>2, <1>3, NamesStay
  <2>4. QED
    BY <2>1, <2>2, <2>3 DEF EncodeInv
<1>4. ASSUME NEW keys \in Orders(sharedStrings),
             tags' = Append(tags, [start |-> "SharedStrings",
               strings |-> [i \in DOMAIN keys |-> [md5 |-> keys[i], text |-> keys[i]]]]),
             top' = Append(top, Len(tags) + 1)
      PROVE  EncodeInv'
  <2> DEFINE strings == [i \in DOMAIN keys |-> [md5 |-> keys[i], text |-> keys[i]]]
             tag == [start |-> "SharedStrings", strings |-> strings]
  <2>1. tag \in Tag /\ tag.start = "SharedStrings"
    <3>1. keys \in Seq(Shared)
      <4>1. keys \in Seq(sharedStrings) /\ sharedStrings \subseteq Shared
        BY <1>1, OrdersType DEF EncodeTypeOK
      <4>2. QED
        BY <4>1
    <3>2. strings = [i \in 1 .. Len(keys) |-> [md5 |-> keys[i], text |-> keys[i]]]
            /\ Len(keys) \in Nat
      BY <3>1
    <3>3. \A i \in 1 .. Len(keys) : [md5 |-> keys[i], text |-> keys[i]] \in StringTag
      BY <3>1 DEF StringTag, Hash
    <3>4. strings \in [1 .. Len(keys) -> StringTag]
      BY <3>2, <3>3
    <3>5. strings \in Seq(StringTag)
      BY <3>2, <3>4
    <3> HIDE DEF strings
    <3>6. QED
      BY <3>5 DEF Tag
  <2> HIDE DEF tag
  <2>2. tags' = Append(tags, tag)
    BY <1>4 DEF tag
  <2>3. /\ tags' \in Seq(Tag) /\ Len(tags') = Len(tags) + 1
        /\ DOMAIN tags' = 1 .. Len(tags) + 1 /\ DOMAIN tags = 1 .. Len(tags)
        /\ \A n \in DOMAIN tags : tags'[n] = tags[n]
        /\ tags'[Len(tags) + 1] = tag
    BY <1>1, <2>1, <2>2, Appended, AppendType
  <2>4. Len(tags) \in Nat /\ \A n \in DOMAIN tags' : n \in DOMAIN tags \/ n = Len(tags) + 1
    BY <1>1, <2>3
  <2>5. Items' = Items /\ Items = {n \in DOMAIN tags' : tags'[n].start = "Item"}
    <3>1. Items' = Items
      BY <1>1 DEF Items
    <3>2. \A n : n \in Items <=> n \in DOMAIN tags' /\ tags'[n].start = "Item"
      BY <1>1, <2>1, <2>3, <2>4
    <3>3. QED
      BY <3>1, <3>2
  <2>6. top' \in Seq(1 .. Len(tags'))
    <3>1. top \in Seq(1 .. Len(tags')) /\ Len(tags) + 1 \in 1 .. Len(tags')
      BY <1>1, <2>3, <2>4 DEF EncodeTypeOK
    <3>2. QED
      BY <1>4, <3>1, AppendType
  <2>7. \A n \in Items : tags'[n].tags \in Seq(1 .. Len(tags')) /\ tags'[n] = tags[n]
    <3>1. \A n \in Items : tags[n].tags \in Seq(1 .. Len(tags)) /\ tags'[n] = tags[n]
      BY <1>1, <2>3 DEF EncodeTypeOK
    <3>2. Seq(1 .. Len(tags)) \subseteq Seq(1 .. Len(tags'))
      BY <2>3, <2>4
    <3>3. QED
      BY <3>1, <3>2
  <2>8. written' \in [{n \in DOMAIN tags' : tags'[n].start = "Item"} -> Instances]
    BY <1>1, <2>5
  <2>9. EncodeTypeOK'
    BY <1>1, <1>2, <2>3, <2>5, <2>6, <2>7, <2>8 DEF EncodeTypeOK
  <2>10. \A n \in Items : PropertiesOf(n)' = PropertiesOf(n)
                          /\ tags'[tags'[n].tags[1]] = tags[tags[n].tags[1]]
    BY <2>3, <2>7, PropertiesType DEF PropertiesOf, EncodeInv
  <2>11. Nesting' /\ Leading'
    BY <1>1, <2>5, <2>7, <2>10 DEF EncodeInv, Nesting, Leading
  <2>12. NamesLead'
    <3>1. \A n \in Items :
            /\ tags'[n].referent # NoAttr => refs'[tags'[n].referent] = written'[n]
            /\ \A i \in DOMAIN PropertiesOf(n)' : Leads(written[n], PropertiesOf(n)[i])'
      BY <1>1, <2>7, <2>10, NamesCarried
    <3>2. QED
      BY <2>5, <3>1 DEF NamesLead
  <2>13. QED
    BY <2>9, <2>11, <2>12 DEF EncodeInv
<1>5. QED
  BY <1>3, <1>4 DEF EncodeStrings

LEMMA EncodeStep == EncodeInv /\ [EncodeNext]_encodeVars => EncodeInv'
<1> SUFFICES ASSUME EncodeInv, [EncodeNext]_encodeVars PROVE EncodeInv'
  OBVIOUS
<1>1. CASE UNCHANGED encodeVars
  <2>1. UNCHANGED <<refs, reference, properties, root, step, todo, item, sharedStrings, tags,
                    top, written>>
    BY <1>1 DEF encodeVars
  <2>2. TypeOK' /\ RefsGrow
    BY <2>1, RefsSame DEF EncodeInv, EncodeTypeOK, TypeOK
  <2>3. EncodeTypeOK' /\ Items' = Items
    BY <2>1, <2>2 DEF EncodeInv, EncodeTypeOK, Items
  <2>4. Nesting' /\ Leading'
    BY <2>1, <2>3 DEF EncodeInv, Nesting, Leading, Leads
  <2>5. NamesLead'
    BY <2>1, <2>2, NamesStay
  <2>6. QED
    BY <2>3, <2>4, <2>5 DEF EncodeInv
<1>2. CASE EncodeNext
  BY <1>2, RootStep, InstanceStep, ReferenceStep, ValueStep, AppendStep, StringsStep
     DEF EncodeNext
<1>3. QED
  BY <1>1, <1>2

LEMMA EncodeInvariant == EncodeSpec => []EncodeInv
BY InitInv, EncodeStep, PTL DEF EncodeSpec

(* The document is always a table of tags in which every Item points to    *)
(* tags that are there.                                                    *)
THEOREM EncodeTypeCorrect == EncodeSpec => []EncodeTypeOK
<1>1. EncodeInv => EncodeTypeOK
  BY DEF EncodeInv
<1>2. QED
  BY <1>1, EncodeInvariant, PTL

(* Every name that is in the document leads to the instance it was written *)
(* for, at every step and for any tree, names and draws (NamesLead).       *)
THEOREM NamesAlwaysLead == EncodeSpec => []NamesLead
<1>1. EncodeInv => NamesLead
  BY DEF EncodeInv
<1>2. QED
  BY <1>1, EncodeInvariant, PTL

-------------------------------------------------------------------------------
(* In a document that is encoded here, every Item is under one other.      *)
Listed(k) == IF k = 0 THEN top ELSE tags[k].tags
OnceListed ==
  \A k, l \in Items \cup {0} : \A i \in DOMAIN Listed(k), j \in DOMAIN Listed(l) :
    Listed(k)[i] = Listed(l)[j] /\ Listed(k)[i] \in Items => k = l /\ i = j

LEMMA ListedType ==
  ASSUME EncodeTypeOK, NEW n \in Items \cup {0}
  PROVE  /\ Items = {m \in DOMAIN tags : tags[m].start = "Item"} /\ 0 \notin Items
         /\ Items \subseteq 1 .. Len(tags) /\ Len(tags) \in Nat
         /\ Listed(n) \in Seq(1 .. Len(tags))
<1>1. tags \in Seq(Tag) /\ Items = {m \in DOMAIN tags : tags[m].start = "Item"}
  BY DEF EncodeTypeOK, Items
<1>2. /\ \A k \in DOMAIN tags : tags[k].start = "Item" => tags[k].tags \in Seq(1 .. Len(tags))
      /\ top \in Seq(1 .. Len(tags))
  BY DEF EncodeTypeOK
<1>3. Items \subseteq 1 .. Len(tags) /\ Len(tags) \in Nat /\ 0 \notin Items
  BY <1>1
<1>4. Listed(n) \in Seq(1 .. Len(tags))
  BY <1>1, <1>2, <1>3 DEF Listed
<1>5. QED
  BY <1>1, <1>3, <1>4

(* At most one Item is new, and it is in one place.                        *)
LEMMA OnceMore ==
  ASSUME OnceListed, NEW new, new \notin Items, NEW under, NEW place,
         \A n \in Items' \cup {0} : \A i \in DOMAIN Listed(n)' : Listed(n)'[i] \in Items' =>
           \/ /\ n \in Items \cup {0} /\ i \in DOMAIN Listed(n)
              /\ Listed(n)'[i] = Listed(n)[i] /\ Listed(n)[i] \in Items
           \/ n = under /\ i = place /\ Listed(n)'[i] = new
  PROVE  OnceListed'
<1> SUFFICES ASSUME NEW k \in Items' \cup {0}, NEW l \in Items' \cup {0},
                    NEW i \in DOMAIN Listed(k)', NEW j \in DOMAIN Listed(l)',
                    Listed(k)'[i] = Listed(l)'[j], Listed(k)'[i] \in Items'
             PROVE  k = l /\ i = j
  BY DEF OnceListed
<1>1. CASE Listed(k)'[i] = new
  BY <1>1
<1>2. CASE Listed(k)'[i] # new
  <2>1. /\ k \in Items \cup {0} /\ i \in DOMAIN Listed(k) /\ Listed(k)'[i] = Listed(k)[i]
        /\ l \in Items \cup {0} /\ j \in DOMAIN Listed(l) /\ Listed(l)'[j] = Listed(l)[j]
        /\ Listed(k)[i] \in Items
    BY <1>2
  <2>2. QED
    BY <2>1 DEF OnceListed
<1>3. QED
  BY <1>1, <1>2

LEMMA OnceSame ==
  ASSUME OnceListed, UNCHANGED <<tags, top, written>>
  PROVE  OnceListed'
BY DEF OnceListed, Listed, Items

(* No Item yet.                                                            *)
LEMMA RootOnce ==
  ASSUME EncodeInv, EncodeRoot
  PROVE  OnceListed'
<1>1. tags = <<>> /\ EncodeTypeOK
  BY DEF EncodeInv, Nesting, EncodeRoot
<1>2. Items = {}
  BY <1>1, ListedType
<1>3. Items' = {}
  BY <1>2 DEF EncodeRoot, Items
<1>4. QED
  BY <1>3 DEF OnceListed

(* What is under what once an Item is there: it is behind the others under *)
(* its parent, and has its Properties.                                     *)
LEMMA AppendListed ==
  ASSUME EncodeInv, AppendItem, NEW k, k = Len(tags) + 1, NEW parent, parent = item.parent
  PROVE  /\ k \in Nat /\ k \notin Items /\ k + 1 \notin Items /\ k # k + 1 /\ k + 1 # 0
         /\ parent \in Items \cup {0} /\ k + 1 # parent
         /\ Items' = Items \cup {k + 1}
         /\ Listed(k + 1)' = <<k>>
         /\ Listed(parent)' = Append(Listed(parent), k + 1)
         /\ \A n \in Items \cup {0} : n # parent => Listed(n)' = Listed(n)
<1>1. PICK props : props = [start |-> "Properties", properties |-> item.properties]
  OBVIOUS
<1>2. /\ EncodeTypeOK /\ Len(tags) \in Nat /\ Items \subseteq 1 .. Len(tags) /\ 0 \notin Items
      /\ \A n \in Items \cup {0} : Listed(n) \in Seq(1 .. Len(tags))
  BY ListedType DEF EncodeInv
<1>3. parent \in Items \cup {0}
  BY DEF EncodeInv, Nesting, AppendItem
<1>4. /\ \A n \in 1 .. Len(tags) : n # parent => tags'[n] = tags[n]
      /\ tags'[k + 1] = ItemTag(k)
      /\ parent \in Items => tags'[parent].tags = Append(tags[parent].tags, k + 1)
  BY <1>1, AppendFacts
<1>5. /\ top' = IF parent = 0 THEN Append(top, k + 1) ELSE top
      /\ Items' = Items \cup {k + 1}
  BY DEF AppendItem, Items
<1>6. k \in Nat /\ k \notin Items /\ k + 1 \notin Items /\ k # k + 1 /\ k + 1 # 0
  BY <1>2
<1>7. Listed(k + 1)' = <<k>>
  BY <1>4, <1>6 DEF Listed, ItemTag
<1>8. Listed(parent)' = Append(Listed(parent), k + 1)
  BY <1>2, <1>3, <1>4, <1>5 DEF Listed
<1>9. \A n \in Items \cup {0} : n # parent => Listed(n)' = Listed(n)
  BY <1>2, <1>4, <1>5 DEF Listed
<1>10. QED
  BY <1>2, <1>3, <1>5, <1>6, <1>7, <1>8, <1>9

(* So it is in no other place.                                             *)
LEMMA AppendOnce ==
  ASSUME EncodeInv, OnceListed, AppendItem
  PROVE  OnceListed'
<1>1. PICK k : k = Len(tags) + 1
  OBVIOUS
<1>2. PICK parent : parent = item.parent
  OBVIOUS
<1>3. /\ EncodeTypeOK /\ Len(tags) \in Nat /\ Items \subseteq 1 .. Len(tags) /\ 0 \notin Items
      /\ \A n \in Items \cup {0} : Listed(n) \in Seq(1 .. Len(tags))
  BY ListedType DEF EncodeInv
<1>4. /\ k \in Nat /\ k \notin Items /\ k + 1 \notin Items /\ k # k + 1 /\ k + 1 # 0
      /\ parent \in Items \cup {0}
      /\ Items' = Items \cup {k + 1}
      /\ Listed(k + 1)' = <<k>>
      /\ Listed(parent)' = Append(Listed(parent), k + 1)
      /\ \A n \in Items \cup {0} : n # parent => Listed(n)' = Listed(n)
  BY <1>1, <1>2, AppendListed
<1>5. PICK place : place = Len(Listed(parent)) + 1
  OBVIOUS
<1>6. ASSUME NEW n \in Items' \cup {0}, NEW i \in DOMAIN Listed(n)', Listed(n)'[i] \in Items'
      PROVE  \/ /\ n \in Items \cup {0} /\ i \in DOMAIN Listed(n)
                /\ Listed(n)'[i] = Listed(n)[i] /\ Listed(n)[i] \in Items
             \/ n = parent /\ i = place /\ Listed(n)'[i] = k + 1
  <2>1. CASE n = k + 1
    <3>1. Listed(n)'[i] = k
      BY <1>4, <1>6, <2>1
    <3>2. QED
      BY <1>4, <1>6, <3>1
  <2>2. CASE n = parent
    <3>1. PICK list \in Seq(1 .. Len(tags)) : list = Listed(parent)
      BY <1>3, <1>4
    <3>2. Listed(n)' = Append(list, k + 1)
      BY <1>4, <2>2, <3>1
    <3>3. \/ i \in 1 .. Len(list) /\ Listed(n)'[i] = list[i] /\ list[i] \in 1 .. Len(tags)
          \/ i = Len(list) + 1 /\ Listed(n)'[i] = k + 1
      <4>1. Len(list) \in Nat /\ i \in 1 .. Len(list) + 1
        BY <1>6, <3>2, Appended
      <4>2. i \in 1 .. Len(list) \/ i = Len(list) + 1
        BY <4>1
      <4>3. QED
        BY <3>2, <4>2, Appended
    <3>4. k + 1 \notin 1 .. Len(tags) /\ DOMAIN list = 1 .. Len(list)
      BY <1>1, <1>3
    <3>5. QED
      BY <1>4, <1>5, <1>6, <2>2, <3>1, <3>3, <3>4
  <2>3. CASE n # k + 1 /\ n # parent
    <3>1. n \in Items \cup {0} /\ Listed(n)' = Listed(n)
      BY <1>4, <2>3
    <3>2. Listed(n)[i] \in 1 .. Len(tags)
      BY <1>3, <1>6, <3>1
    <3>3. k + 1 \notin 1 .. Len(tags)
      BY <1>1, <1>3
    <3>4. QED
      BY <1>4, <1>6, <3>1, <3>2, <3>3
  <2>4. QED
    BY <2>1, <2>2, <2>3
<1>7. k + 1 \notin Items
  BY <1>4
<1>8. QED
  BY <1>6, <1>7, OnceMore

(* The tag with the shared strings is no Item.                             *)
LEMMA StringsListed ==
  ASSUME EncodeInv, EncodeStrings, NEW n \in Items \cup {0}
  PROVE  /\ Items' = Items /\ Len(Listed(n)) \in Nat /\ Len(Listed(n)') \in Nat
         /\ DOMAIN Listed(n) = 1 .. Len(Listed(n)) /\ DOMAIN Listed(n)' = 1 .. Len(Listed(n)')
         /\ Len(Listed(n)) <= Len(Listed(n)')
         /\ \A i \in 1 .. Len(Listed(n)) : Listed(n)'[i] = Listed(n)[i]
         /\ \A i \in 1 .. Len(Listed(n)') : i > Len(Listed(n)) => Listed(n)'[i] \notin Items
<1>1. /\ EncodeTypeOK /\ Len(tags) \in Nat /\ Items \subseteq 1 .. Len(tags) /\ 0 \notin Items
      /\ Listed(n) \in Seq(1 .. Len(tags)) /\ tags \in Seq(Tag)
  BY ListedType DEF EncodeInv, EncodeTypeOK
<1>2. Items' = Items
  BY DEF EncodeStrings, Items
<1>3. PICK k : k = Len(tags) + 1
  OBVIOUS
<1>4. /\ \A x \in 1 .. Len(tags) : tags'[x] = tags[x]
      /\ top' = top \/ top' = Append(top, k)
  <2>1. CASE UNCHANGED <<tags, top>>
    BY <2>1
  <2>2. CASE \E tag : tags' = Append(tags, tag) /\ top' = Append(top, k)
    <3>1. PICK tag : tags' = Append(tags, tag)
      BY <2>2
    <3>2. QED
      BY <1>1, <2>2, <3>1, Appended
  <2>3. QED
    BY <1>3, <2>1, <2>2 DEF EncodeStrings
<1>5. CASE Listed(n)' = Listed(n)
  BY <1>1, <1>2, <1>5
<1>6. CASE n = 0 /\ top' = Append(top, k)
  <2>1. Listed(n)' = Append(top, k) /\ Listed(n) = top
    BY <1>6 DEF Listed
  <2>2. top \in Seq(1 .. Len(tags)) /\ k \notin Items
    BY <1>1, <1>3, <2>1
  <2>3. /\ Len(Append(top, k)) = Len(top) + 1 /\ DOMAIN Append(top, k) = 1 .. Len(top) + 1
        /\ \A i \in 1 .. Len(top) : Append(top, k)[i] = top[i]
        /\ Append(top, k)[Len(top) + 1] = k /\ Len(top) \in Nat /\ DOMAIN top = 1 .. Len(top)
    BY <2>2, Appended
  <2>4. \A i \in 1 .. Len(top) + 1 : i > Len(top) => Append(top, k)[i] \notin Items
    <3>1. \A i \in 1 .. Len(top) + 1 : i > Len(top) => i = Len(top) + 1
      BY <2>3
    <3>2. QED
      BY <2>2, <2>3, <3>1
  <2>5. QED
    BY <1>2, <2>1, <2>3, <2>4
<1>7. n # 0 \/ top' = top => Listed(n)' = Listed(n)
  BY <1>1, <1>4 DEF Listed
<1>8. QED
  BY <1>4, <1>5, <1>6, <1>7

LEMMA StringsOnce ==
  ASSUME EncodeInv, OnceListed, EncodeStrings
  PROVE  OnceListed'
<1>1. Items' = Items
  BY DEF EncodeStrings, Items
<1>2. ASSUME NEW n \in Items \cup {0}, NEW i \in DOMAIN Listed(n)', Listed(n)'[i] \in Items
      PROVE  i \in DOMAIN Listed(n) /\ Listed(n)'[i] = Listed(n)[i]
  <2>1. /\ Len(Listed(n)) \in Nat /\ Len(Listed(n)') \in Nat
        /\ DOMAIN Listed(n) = 1 .. Len(Listed(n)) /\ DOMAIN Listed(n)' = 1 .. Len(Listed(n)')
        /\ \A x \in 1 .. Len(Listed(n)) : Listed(n)'[x] = Listed(n)[x]
        /\ \A x \in 1 .. Len(Listed(n)') : x > Len(Listed(n)) => Listed(n)'[x] \notin Items
    BY StringsListed
  <2>2. i <= Len(Listed(n)) /\ i >= 1 /\ i \in Nat
    BY <1>2, <2>1
  <2>3. QED
    BY <2>1, <2>2
<1>3. PICK k : k = Len(tags) + 1
  OBVIOUS
<1>4. k \notin Items
  BY <1>3, ListedType DEF EncodeInv
<1>5. \A n \in Items' \cup {0} : \A i \in DOMAIN Listed(n)' : Listed(n)'[i] \in Items' =>
        /\ n \in Items \cup {0} /\ i \in DOMAIN Listed(n)
        /\ Listed(n)'[i] = Listed(n)[i] /\ Listed(n)[i] \in Items
  BY <1>1, <1>2
<1>6. QED
  BY <1>4, <1>5, OnceMore

LEMMA OnceStep ==
  ASSUME EncodeInv, OnceListed, [EncodeNext]_encodeVars
  PROVE  OnceListed'
<1>1. CASE UNCHANGED <<tags, top, written>>
  BY <1>1, OnceSame
<1>2. CASE EncodeRoot
  BY <1>2, RootOnce
<1>3. CASE AppendItem
  BY <1>3, AppendOnce
<1>4. CASE EncodeStrings
  BY <1>4, StringsOnce
<1>5. EncodeInstance => UNCHANGED <<tags, top, written>>
  BY DEF EncodeInstance, Crash
<1>6. \A name \in Properties : EncodeReference(name) \/ EncodeValue(name) =>
        UNCHANGED <<tags, top, written>>
  BY DEF EncodeReference, EncodeValue
<1>7. UNCHANGED encodeVars => UNCHANGED <<tags, top, written>>
  BY DEF encodeVars
<1>8. QED
  BY <1>1, <1>2, <1>3, <1>4, <1>5, <1>6, <1>7 DEF EncodeNext

-------------------------------------------------------------------------------
(* The document is the tree: what the calls that are still to be made, the *)
(* item that is being written and the tags say, put together, is the root. *)

(* The instances that belong under Item k, the root being number 0; how    *)
(* many of them are being written, and of the others, given that n have    *)
(* been, how many are not yet.                                             *)
Wanted(k) == IF k = 0 THEN root.instances ELSE root.children[written[k]]
Open(k) == IF item # NoItem /\ item.parent = k THEN 1 ELSE 0
Left(k, n) == Len(Wanted(k)) - n - Open(k)

(* Under k there are m tags that are no Items and then n Items, which are  *)
(* the first of those wanted; the next is being written, or is todo behind *)
(* s other calls, and so are all that follow.                              *)
Progress(k, m, n, s) ==
  /\ m + n <= Len(Listed(k))
  /\ step = "items" => m + n = Len(Listed(k))
  /\ \A j \in DOMAIN Listed(k) : Listed(k)[j] \in Items <=> m < j /\ j <= m + n
  /\ \A j \in 1 .. n : written[Listed(k)[m + j]] = Wanted(k)[j]
  /\ Open(k) = 1 => item.instance = Wanted(k)[n + 1]
  /\ Left(k, n) \in Nat
  /\ s + Left(k, n) <= Len(todo)
  /\ \A i \in 1 .. Left(k, n) :
       todo[s + i] = [instance |-> Wanted(k)[n + Open(k) + i], parent |-> k]
  /\ \A i \in DOMAIN todo : todo[i].parent = k => s < i /\ i <= s + Left(k, n)
Shape ==
  step # "start" =>
    \A k \in Items \cup {0} : \E m, n, s \in Nat : Progress(k, m, n, s)

(* The tag for a value.                                                    *)
Says(tag, value) ==
  \/ value = Nil /\ tag.kind = "Ref" /\ tag.text \in EmptyRefs
  \/ value \in Instances /\ tag.kind = "Ref" /\ tag.text \notin EmptyRefs
  \/ /\ value \in Shared /\ tag.kind = "SharedString"
     /\ tag.text = value /\ value \in sharedStrings
  \/ value \in Data \ (Shared \cup Unknown) /\ tag.kind = "value" /\ tag.text = Readable[value]

(* A property has one tag in a list, or none.                              *)
Told(list, p, value) ==
  \E j \in DOMAIN list :
    /\ list[j].name = p /\ Says(list[j], value)
    /\ \A i \in DOMAIN list : list[i].name = p => i = j
NotTold(list, p) == \A j \in DOMAIN list : list[j].name # p
AreTold(inst, list, left) ==
  \A p \in Properties :
    LET value == properties[inst][p] IN
    IF value \in Unknown \cup {Unset} \/ p \in left THEN NotTold(list, p)
    ELSE Told(list, p, value)
PropertiesTold ==
  /\ item # NoItem => AreTold(item.instance, item.properties, item.names)
  /\ \A k \in Items : AreTold(written[k], PropertiesOf(k), {})

ItemsTold ==
  \A k \in Items :
    /\ tags[k].class = root.class[written[k]]
    /\ tags[k].referent = NoAttr <=> root.excludeReferent

MetaKeys == {key \in Metadata : root.metadata[key] # NoAttr /\ ~root.excludeMetadata}
MetaTold ==
  /\ \A i \in DOMAIN tags : tags[i].start = "Meta" =>
       tags[i].name \in MetaKeys /\ tags[i].text = root.metadata[tags[i].name]
  /\ step # "start" => \A key \in MetaKeys :
       \E i \in DOMAIN top : tags[top[i]].start = "Meta" /\ tags[top[i]].name = key

StringsTold ==
  /\ \A i \in DOMAIN tags : tags[i].start = "SharedStrings" =>
       \A j \in DOMAIN tags[i].strings : tags[i].strings[j].md5 = tags[i].strings[j].text
  /\ step = "done" => \A value \in sharedStrings :
       \E i \in DOMAIN top :
         /\ tags[top[i]].start = "SharedStrings"
         /\ \E j \in DOMAIN tags[top[i]].strings : tags[top[i]].strings[j].md5 = value

NilInTree ==
  \/ Nil \in {root.instances[n] : n \in DOMAIN root.instances}
  \/ \E i \in Instances : Nil \in {root.children[i][n] : n \in DOMAIN root.children[i]}
AllGone == step = "done" => todo = <<>> /\ item = NoItem

TreeInv ==
  /\ properties = root.properties
  /\ MarksAgree /\ EmptyNeverMarked
  /\ step = "panic" => NilInTree
  /\ AllGone
  /\ Shape /\ PropertiesTold /\ ItemsTold /\ MetaTold /\ StringsTold

LEMMA WantedType ==
  ASSUME EncodeTypeOK, NEW k \in Items \cup {0}
  PROVE  Wanted(k) \in Seq(Instances \cup {Nil}) /\ Open(k) \in {0, 1}
<1>1. root.instances \in Seq(Instances \cup {Nil})
        /\ root.children \in [Instances -> Seq(Instances \cup {Nil})]
  BY RootParts DEF EncodeTypeOK
<1>2. k # 0 => written[k] \in Instances
  BY DEF EncodeTypeOK, Items
<1>3. QED
  BY <1>1, <1>2 DEF Wanted, Open

(* The next tag, or the end of the document, changes nothing here.         *)
LEMMA ProgressSame ==
  ASSUME NEW k, NEW m, NEW n, NEW s, Progress(k, m, n, s),
         UNCHANGED <<root, todo, tags, top, written>>, step' # "items" \/ step = "items",
         Open(k)' = Open(k), Open(k) = 1 => item'.instance = item.instance
  PROVE  Progress(k, m, n, s)'
<1>1. Listed(k)' = Listed(k) /\ Wanted(k)' = Wanted(k) /\ Items' = Items /\ Left(k, n)' = Left(k, n)
  BY DEF Listed, Wanted, Items, Left
<1>2. QED
  BY <1>1 DEF Progress

LEMMA ShapeSame ==
  ASSUME Shape, UNCHANGED <<root, todo, tags, top, written>>,
         step # "start", step' # "items" \/ step = "items",
         \/ item' = item
         \/ /\ item # NoItem /\ item' # NoItem
            /\ item'.parent = item.parent /\ item'.instance = item.instance
  PROVE  Shape'
<1>1. Items' = Items /\ \A k \in Items \cup {0} : Open(k)' = Open(k) /\ (Open(k) = 1 => item'.instance = item.instance)
  BY DEF Items, Open
<1>2. ASSUME NEW k \in Items \cup {0}
      PROVE  \E m, n, s \in Nat : Progress(k, m, n, s)'
  <2>1. PICK m \in Nat, n \in Nat, s \in Nat : Progress(k, m, n, s)
    BY DEF Shape
  <2>2. QED
    BY <1>1, <2>1, ProgressSame
<1>3. QED
  BY <1>1, <1>2 DEF Shape

(* Nothing of the tree is there.                                           *)
LEMMA RootShape ==
  ASSUME EncodeInv, EncodeRoot, EncodeInv'
  PROVE  Shape'
<1>1. /\ EncodeTypeOK /\ EncodeTypeOK' /\ tags = <<>> /\ item = NoItem /\ UNCHANGED <<root, item, written>>
      /\ step' = "items" /\ top' = [k \in DOMAIN tags' |-> k]
      /\ todo' = CallsFor(root.instances, 0)
  BY DEF EncodeInv, Nesting, EncodeRoot
<1>2. Items = {} /\ Items' = {}
  BY <1>1, ListedType DEF Items
<1>3. tags' \in Seq(Tag) /\ root.instances \in Seq(Instances \cup {Nil})
  BY <1>1, RootParts DEF EncodeTypeOK
<1>4. Listed(0)' = top' /\ Wanted(0)' = root.instances /\ Open(0)' = 0
  BY <1>1 DEF Listed, Wanted, Open
<1>5. Len(top') = Len(tags') /\ Len(tags') \in Nat
  BY <1>1, <1>3
<1>6. Left(0, 0)' = Len(root.instances) /\ Len(root.instances) \in Nat
  BY <1>3, <1>4 DEF Left
<1>7. /\ Len(todo') = Len(root.instances) /\ DOMAIN todo' = 1 .. Len(root.instances)
      /\ \A i \in 1 .. Len(root.instances) : todo'[i] = [instance |-> root.instances[i], parent |-> 0]
  BY <1>1, <1>3 DEF CallsFor
<1>8. \E m \in Nat : Progress(0, m, 0, 0)'
  <2>1. PICK m \in Nat : m = Len(tags')
    BY <1>5
  <2>2. /\ m + 0 <= Len(Listed(0)') /\ m + 0 = Len(Listed(0)')
        /\ \A j \in DOMAIN Listed(0)' : Listed(0)'[j] \in Items' <=> m < j /\ j <= m + 0
    BY <1>2, <1>4, <1>5, <2>1
  <2>3. Progress(0, m, 0, 0)'
    BY <1>1, <1>2, <1>4, <1>6, <1>7, <2>2 DEF Progress
  <2>4. QED
    BY <2>3
<1>9. QED
  BY <1>2, <1>8 DEF Shape

(* The next instance is taken from the calls.                              *)
LEMMA InstanceShape ==
  ASSUME EncodeInv, Shape, EncodeInstance
  PROVE  Shape'
<1>1. /\ EncodeTypeOK /\ todo \in Seq(Call) /\ todo # <<>> /\ item = NoItem /\ step = "items"
  BY DEF EncodeInv, EncodeTypeOK, EncodeInstance
<1>2. CASE Crash
  BY <1>1, <1>2, ShapeSame DEF Crash
<1>3. ASSUME NEW ref, todo' = Tail(todo),
             item' = [instance |-> Head(todo).instance, parent |-> Head(todo).parent, ref |-> ref,
                      names |-> {p \in Properties : properties[Head(todo).instance][p] # Unset},
                      properties |-> <<>>],
             Head(todo).instance # Nil,
             UNCHANGED <<properties, root, step, sharedStrings, tags, top, written>>
      PROVE  Shape'
  <2>1. PICK call : call = todo[1]
    OBVIOUS
  <2>2. /\ call = Head(todo) /\ call \in Call /\ 1 \in DOMAIN todo /\ Len(todo') = Len(todo) - 1
        /\ DOMAIN todo' = 1 .. Len(todo) - 1 /\ Len(todo) \in Nat /\ DOMAIN todo = 1 .. Len(todo)
        /\ \A i \in 1 .. Len(todo) - 1 : todo'[i] = todo[i + 1]
    BY <1>1, <1>3, <2>1
  <2>3. item' # NoItem /\ item'.parent = call.parent /\ item'.instance = call.instance
    BY <1>3, <2>2 DEF NoItem
  <2>4. /\ Items' = Items
        /\ \A k \in Items \cup {0} :
             /\ Listed(k)' = Listed(k) /\ Wanted(k)' = Wanted(k)
             /\ Open(k) = 0 /\ Open(k)' = IF k = call.parent THEN 1 ELSE 0
    BY <1>1, <1>3, <2>3 DEF Items, Listed, Wanted, Open
  <2>5. ASSUME NEW k \in Items \cup {0}
        PROVE  \E m, n, s \in Nat : Progress(k, m, n, s)'
    <3>1. PICK m \in Nat, n \in Nat, s \in Nat : Progress(k, m, n, s)
      BY <1>1 DEF Shape
    <3>2. PICK left \in Nat : left = Left(k, n)
      BY <3>1 DEF Progress
    <3>3. Len(Wanted(k)) \in Nat /\ left = Len(Wanted(k)) - n
      BY <1>1, <2>4, <3>2, WantedType DEF Left
    <3>4. /\ s + left <= Len(todo)
          /\ \A i \in 1 .. left : todo[s + i] = [instance |-> Wanted(k)[n + i], parent |-> k]
          /\ \A i \in DOMAIN todo : todo[i].parent = k => s < i /\ i <= s + left
      BY <2>4, <3>1, <3>2 DEF Progress
    <3>5. /\ m + n <= Len(Listed(k))' /\ m + n = Len(Listed(k))'
          /\ \A j \in DOMAIN Listed(k)' : Listed(k)'[j] \in Items' <=> m < j /\ j <= m + n
          /\ \A j \in 1 .. n : written'[Listed(k)'[m + j]] = Wanted(k)'[j]
      BY <1>1, <1>3, <2>4, <3>1 DEF Progress
    <3>6. CASE k = call.parent
      <4>1. s = 0 /\ left >= 1
        BY <2>1, <2>2, <3>4, <3>6
      <4>2. todo[0 + 1] = [instance |-> Wanted(k)[n + 1], parent |-> k]
        BY <3>4, <4>1
      <4>3. item'.instance = Wanted(k)'[n + 1]
        BY <2>1, <2>3, <2>4, <4>2
      <4>4. Left(k, n)' = left - 1 /\ Open(k)' = 1
        BY <2>4, <3>3, <3>6 DEF Left
      <4>5. \A i \in 1 .. left - 1 : todo'[0 + i] = [instance |-> Wanted(k)'[n + 1 + i], parent |-> k]
        <5>1. SUFFICES ASSUME NEW i \in 1 .. left - 1
                       PROVE  todo'[0 + i] = [instance |-> Wanted(k)'[n + 1 + i], parent |-> k]
          OBVIOUS
        <5>2. todo[s + (i + 1)] = [instance |-> Wanted(k)[n + (i + 1)], parent |-> k]
          <6>1. i + 1 \in 1 .. left
            BY <5>1
          <6>2. QED
            BY <3>4, <6>1
        <5>3. todo'[i] = todo[i + 1]
          BY <2>2, <3>4, <4>1
        <5>4. QED
          BY <2>4, <4>1, <5>2, <5>3
      <4>6. \A i \in DOMAIN todo' : todo'[i].parent = k => 0 < i /\ i <= 0 + (left - 1)
        <5>1. SUFFICES ASSUME NEW i \in 1 .. Len(todo) - 1, todo'[i].parent = k
                       PROVE  i <= left - 1
          BY <2>2
        <5>2. i + 1 \in DOMAIN todo /\ todo[i + 1].parent = k
          BY <2>2, <5>1
        <5>3. QED
          BY <3>4, <4>1, <5>2
      <4>7. 0 + (left - 1) <= Len(todo') /\ left - 1 \in Nat
        BY <2>2, <3>4, <4>1
      <4>8. Progress(k, m, n, 0)'
        BY <3>5, <4>3, <4>4, <4>5, <4>6, <4>7 DEF Progress
      <4>9. QED
        BY <4>8
    <3>7. CASE k # call.parent
      <4>1. PICK t \in Nat : t = IF s = 0 THEN 0 ELSE s - 1
        OBVIOUS
      <4>2. left >= 1 => s >= 1
        <5>1. ASSUME left >= 1, s = 0
              PROVE  todo[1].parent = k
          <6>1. 1 \in 1 .. left
            BY <5>1
          <6>2. todo[s + 1] = [instance |-> Wanted(k)[n + 1], parent |-> k]
            BY <3>4, <6>1
          <6>3. QED
            BY <5>1, <6>2
        <5>2. QED
          BY <2>1, <3>7, <5>1
      <4>3. Left(k, n)' = left /\ Open(k)' = 0
        BY <2>4, <3>3, <3>7 DEF Left
      <4>4. t + left <= Len(todo')
        BY <2>2, <3>4, <4>1, <4>2
      <4>5. \A i \in 1 .. left : todo'[t + i] = [instance |-> Wanted(k)'[n + 0 + i], parent |-> k]
        <5>1. SUFFICES ASSUME NEW i \in 1 .. left
                       PROVE  todo'[t + i] = [instance |-> Wanted(k)'[n + i], parent |-> k]
          OBVIOUS
        <5>2. t = s - 1 /\ t + i \in 1 .. Len(todo) - 1
          BY <2>2, <3>4, <4>1, <4>2
        <5>3. todo'[t + i] = todo[s + i]
          BY <2>2, <5>2
        <5>4. QED
          BY <2>4, <3>4, <5>3
      <4>6. \A i \in DOMAIN todo' : todo'[i].parent = k => t < i /\ i <= t + left
        <5>1. SUFFICES ASSUME NEW i \in 1 .. Len(todo) - 1, todo'[i].parent = k
                       PROVE  t < i /\ i <= t + left
          BY <2>2
        <5>2. i + 1 \in DOMAIN todo /\ todo[i + 1].parent = k
          BY <2>2, <5>1
        <5>3. s < i + 1 /\ i + 1 <= s + left
          BY <3>4, <5>2
        <5>4. QED
          BY <4>1, <4>2, <5>3
      <4>7. Progress(k, m, n, t)'
        <5>1. Open(k)' = 1 => item'.instance = Wanted(k)'[n + 1]
          BY <4>3
        <5>2. Left(k, n)' \in Nat /\ t + Left(k, n)' <= Len(todo')
          BY <4>3, <4>4
        <5>3. \A i \in 1 .. Left(k, n)' :
                todo'[t + i] = [instance |-> Wanted(k)'[n + Open(k)' + i], parent |-> k]
          BY <4>3, <4>5
        <5>4. \A i \in DOMAIN todo' : todo'[i].parent = k => t < i /\ i <= t + Left(k, n)'
          BY <4>3, <4>6
        <5>5. QED
          BY <3>5, <5>1, <5>2, <5>3, <5>4 DEF Progress
      <4>8. QED
        BY <4>7
    <3>8. QED
      BY <3>6, <3>7
  <2>6. QED
    BY <2>4, <2>5 DEF Shape
<1>4. QED
  BY <1>2, <1>3 DEF EncodeInstance

(* The Item of an instance is there, and its children are wanted.          *)
LEMMA AppendShape ==
  ASSUME EncodeInv, Shape, AppendItem
  PROVE  Shape'
<1>1. PICK k : k = Len(tags) + 1
  OBVIOUS
<1>2. PICK parent : parent = item.parent
  OBVIOUS
<1>3. PICK list : list = root.children[item.instance]
  OBVIOUS
<1>4. /\ k \in Nat /\ k \notin Items /\ k + 1 \notin Items /\ k # k + 1 /\ k + 1 # 0
      /\ parent \in Items \cup {0} /\ k + 1 # parent
      /\ Items' = Items \cup {k + 1}
      /\ Listed(k + 1)' = <<k>>
      /\ Listed(parent)' = Append(Listed(parent), k + 1)
      /\ \A x \in Items \cup {0} : x # parent => Listed(x)' = Listed(x)
  BY <1>1, <1>2, AppendListed
<1>5. /\ EncodeTypeOK /\ step = "items" /\ step' = "items" /\ item # NoItem /\ item' = NoItem
      /\ item \in Item /\ todo \in Seq(Call) /\ root \in RootRecord /\ root' = root
      /\ todo' = CallsFor(root.children[item.instance], Len(tags) + 1 + 1) \o todo
      /\ written' = [x \in DOMAIN written \cup {Len(tags) + 1 + 1} |->
                       IF x = Len(tags) + 1 + 1 THEN item.instance ELSE written[x]]
  BY DEF EncodeInv, EncodeTypeOK, AppendItem
<1>6. list \in Seq(Instances \cup {Nil}) /\ item.instance \in Instances
  BY <1>3, <1>5, RootParts DEF Item
<1>7. todo' = CallsFor(list, k + 1) \o todo
  BY <1>1, <1>3, <1>5
<1>8. /\ Len(todo') = Len(list) + Len(todo) /\ DOMAIN todo' = 1 .. Len(list) + Len(todo)
      /\ \A i \in 1 .. Len(list) : todo'[i] = [instance |-> list[i], parent |-> k + 1]
      /\ \A i \in 1 .. Len(todo) : todo'[Len(list) + i] = todo[i]
      /\ Len(list) \in Nat /\ Len(todo) \in Nat /\ DOMAIN todo = 1 .. Len(todo)
  <2>1. k + 1 \in Nat /\ todo \in Seq(Call)
    BY <1>4, <1>5
  <2>2. /\ Len(list) \in Nat /\ Len(todo) \in Nat /\ DOMAIN todo = 1 .. Len(todo)
    BY <1>5, <1>6
  <2>3. QED
    <3>1. PICK next \in Nat : next = k + 1
      BY <2>1
    <3>2. todo' = CallsFor(list, next) \o todo
      BY <1>7, <3>1
    <3>3. PICK first \in Seq(Call) : first = CallsFor(list, next)
      BY <1>6, CallsType
    <3>4. first = [i \in 1 .. Len(list) |-> [instance |-> list[i], parent |-> next]]
      BY <1>6, <3>3 DEF CallsFor
    <3>5. Len(first) = Len(list)
      BY <2>2, <3>4
    <3>6. todo' = first \o todo
      BY <3>2, <3>3
    <3>7. /\ Len(todo') = Len(first) + Len(todo)
          /\ DOMAIN todo' = 1 .. Len(first) + Len(todo)
          /\ \A i \in 1 .. Len(first) : todo'[i] = first[i]
          /\ \A i \in 1 .. Len(todo) : todo'[Len(first) + i] = todo[i]
      BY ONLY <2>1, <3>6
    <3>8. QED
      BY <2>2, <3>1, <3>4, <3>5, <3>7
<1>9. /\ written'[k + 1] = item.instance
      /\ \A x \in Items : written'[x] = written[x]
  BY <1>1, <1>4, <1>5 DEF Items
<1>10. /\ \A x \in Items \cup {0} : Wanted(x)' = Wanted(x)
       /\ Wanted(k + 1)' = list
       /\ \A x : Open(x)' = 0
       /\ Open(parent) = 1
       /\ \A x : x # parent => Open(x) = 0
  <2>1. \A x \in Items \cup {0} : Wanted(x)' = Wanted(x)
    <3>1. root' = root /\ \A x \in Items : written'[x] = written[x]
      BY <1>5, <1>9
    <3>2. QED
      BY <3>1 DEF Wanted
  <2>2. Wanted(k + 1)' = list
    BY <1>3, <1>4, <1>5, <1>9 DEF Wanted
  <2>3. \A x : Open(x)' = 0
    BY <1>5 DEF Open
  <2>4. Open(parent) = 1 /\ \A x : x # parent => Open(x) = 0
    BY <1>2, <1>5 DEF Open
  <2>5. QED
    BY <2>1, <2>2, <2>3, <2>4
<1>11. \A x \in Items \cup {0} : Listed(x) \in Seq(1 .. Len(tags)) /\ Items \subseteq 1 .. Len(tags)
  BY <1>5, ListedType
<1>12. k + 1 \notin 1 .. Len(tags) /\ Len(tags) \in Nat
  BY <1>1, <1>5 DEF EncodeTypeOK
<1>13. ASSUME NEW x \in Items \cup {0}
       PROVE  \E m, n, s \in Nat : Progress(x, m, n, s)'
  <2>1. PICK m \in Nat, n \in Nat, s \in Nat : Progress(x, m, n, s)
    BY <1>5 DEF Shape
  <2>2. PICK left \in Nat : left = Left(x, n)
    BY <2>1 DEF Progress
  <2>3. PICK more \in {0, 1} : more = Open(x)
    BY <1>10
  <2>4. Len(Wanted(x)) \in Nat /\ left = Len(Wanted(x)) - n - more
    BY <1>5, <2>2, <2>3, WantedType DEF Left
  <2>5. PICK wanted : wanted = [i \in 1 .. left |-> Wanted(x)[n + more + i]]
    OBVIOUS
  <2>6. /\ s + left <= Len(todo)
        /\ \A i \in 1 .. left : todo[s + i] = [instance |-> wanted[i], parent |-> x]
        /\ \A i \in DOMAIN todo : todo[i].parent = x => s < i /\ i <= s + left
    BY <2>1, <2>2, <2>3, <2>5 DEF Progress
  <2>7. \A i \in 1 .. Len(list) : todo'[i].parent # x
    <3>1. x # k + 1
      BY <1>4
    <3>2. ASSUME NEW i \in 1 .. Len(list) PROVE todo'[i].parent = k + 1
      <4>1. todo'[i] = [instance |-> list[i], parent |-> k + 1]
        BY <1>8
      <4>2. QED
        BY <4>1
    <3>3. QED
      BY <3>1, <3>2
  <2>8. /\ \A i \in 1 .. left : todo'[(s + Len(list)) + i] = [instance |-> wanted[i], parent |-> x]
        /\ \A i \in DOMAIN todo' :
             todo'[i].parent = x => s + Len(list) < i /\ i <= (s + Len(list)) + left
    <3>1. PICK new, c, size : new = todo' /\ c = Len(list) /\ size = Len(todo)
      OBVIOUS
    <3>2. /\ DOMAIN new = 1 .. c + size
          /\ \A i \in 1 .. c : new[i].parent # x
          /\ \A i \in 1 .. size : new[c + i] = todo[i]
      BY <1>8, <2>7, <3>1
    <3>3. c \in Nat /\ size \in Nat /\ DOMAIN todo = 1 .. size /\ s + left <= size /\ todo \in Seq(Call)
      BY <1>5, <1>8, <2>6, <3>1
    <3>4. /\ \A i \in 1 .. left : new[(s + c) + i] = [instance |-> wanted[i], parent |-> x]
          /\ \A i \in DOMAIN new : new[i].parent = x => s + c < i /\ i <= (s + c) + left
      <4>1. ASSUME NEW i \in 1 .. left
            PROVE  new[(s + c) + i] = [instance |-> wanted[i], parent |-> x]
        <5>1. s + i \in 1 .. size /\ c + (s + i) = (s + c) + i
          BY <3>3
        <5>2. new[c + (s + i)] = todo[s + i]
          BY <3>2, <5>1
        <5>3. QED
          BY <2>6, <5>1, <5>2
      <4>2. ASSUME NEW i \in 1 .. c + size, new[i].parent = x
            PROVE  s + c < i /\ i <= (s + c) + left
        <5>1. i \notin 1 .. c
          BY <3>2, <4>2
        <5>2. PICK j \in 1 .. size : j = i - c
          BY <3>3, <5>1
        <5>3. new[c + j] = todo[j] /\ c + j = i
          BY <3>2, <3>3, <5>2
        <5>4. todo[j].parent = x
          BY <4>2, <5>3
        <5>5. s < j /\ j <= s + left
          BY <2>6, <3>3, <5>4
        <5>6. QED
          BY <3>3, <5>3, <5>5
      <4>3. QED
        BY <3>2, <4>1, <4>2
    <3>5. QED
      BY <3>1, <3>4
  <2>9. PICK t \in Nat : t = s + Len(list)
    BY <1>8
  <2>10. PICK old \in Seq(1 .. Len(tags)) : old = Listed(x)
    BY <1>11
  <2>11. /\ m + n = Len(old) /\ DOMAIN old = 1 .. Len(old)
         /\ \A j \in DOMAIN old : old[j] \in Items <=> m < j /\ j <= m + n
         /\ \A j \in 1 .. n : written[old[m + j]] = Wanted(x)[j]
         /\ more = 1 => item.instance = Wanted(x)[n + 1]
    <3>1. /\ m + n = Len(old)
          /\ \A j \in DOMAIN old : old[j] \in Items <=> m < j /\ j <= m + n
          /\ \A j \in 1 .. n : written[old[m + j]] = Wanted(x)[j]
      BY <1>5, <2>1, <2>10 DEF Progress
    <3>2. more = 1 => item.instance = Wanted(x)[n + 1]
      BY <2>1, <2>3 DEF Progress
    <3>3. QED
      BY <3>1, <3>2
  <2>12. \A j \in DOMAIN old : old[j] \in Items' <=> m < j /\ j <= m + n
    BY <1>4, <1>12, <2>11
  <2>13. \A j \in 1 .. n : written'[old[m + j]] = Wanted(x)'[j]
    <3>1. SUFFICES ASSUME NEW j \in 1 .. n PROVE written'[old[m + j]] = Wanted(x)[j]
      BY <1>10
    <3>2. m + j \in DOMAIN old /\ m < m + j /\ m + j <= m + n
      BY <2>11
    <3>3. old[m + j] \in Items
      BY <2>11, <3>2
    <3>4. QED
      BY <1>9, <2>11, <3>3
  <2>14. CASE x = parent
    <3>1. more = 1 /\ Listed(x)' = Append(old, k + 1)
      BY <1>4, <1>10, <2>3, <2>10, <2>14
    <3>2. /\ Len(Listed(x)') = m + (n + 1) /\ DOMAIN Listed(x)' = 1 .. m + (n + 1)
          /\ \A j \in 1 .. m + n : Listed(x)'[j] = old[j]
          /\ Listed(x)'[m + (n + 1)] = k + 1
      BY <2>11, <3>1, Appended
    <3>3. \A j \in DOMAIN Listed(x)' : Listed(x)'[j] \in Items' <=> m < j /\ j <= m + (n + 1)
      <4>1. SUFFICES ASSUME NEW j \in 1 .. m + (n + 1)
                     PROVE  Listed(x)'[j] \in Items' <=> m < j /\ j <= m + (n + 1)
        BY <3>2
      <4>2. CASE j \in 1 .. m + n
        <5>1. j \in DOMAIN old
          BY <2>11, <4>2
        <5>2. old[j] \in Items' <=> m < j /\ j <= m + n
          BY <2>12, <5>1
        <5>3. m < j /\ j <= m + n <=> m < j /\ j <= m + (n + 1)
          BY <4>2
        <5>4. QED
          BY <3>2, <4>2, <5>2, <5>3
      <4>3. CASE j = m + (n + 1)
        BY <1>4, <3>2, <4>3
      <4>4. QED
        BY <4>2, <4>3
    <3>4. \A j \in 1 .. n + 1 : written'[Listed(x)'[m + j]] = Wanted(x)'[j]
      <4>1. SUFFICES ASSUME NEW j \in 1 .. n + 1
                     PROVE  written'[Listed(x)'[m + j]] = Wanted(x)'[j]
        OBVIOUS
      <4>2. CASE j \in 1 .. n
        <5>1. m + j \in 1 .. m + n
          BY <4>2
        <5>2. QED
          BY <2>13, <3>2, <4>2, <5>1
      <4>3. CASE j = n + 1
        BY <1>9, <1>10, <2>11, <3>1, <3>2, <4>3
      <4>4. QED
        BY <4>2, <4>3
    <3>5. Left(x, n + 1)' = left /\ Open(x)' = 0
      BY <1>10, <2>4, <3>1 DEF Left
    <3>6. \A i \in 1 .. left :
            todo'[t + i] = [instance |-> Wanted(x)'[(n + 1) + 0 + i], parent |-> x]
      <4>1. SUFFICES ASSUME NEW i \in 1 .. left
                     PROVE  todo'[t + i] = [instance |-> Wanted(x)[(n + 1) + 0 + i], parent |-> x]
        BY <1>10
      <4>2. wanted[i] = Wanted(x)[n + 1 + i] /\ n + 1 + i = (n + 1) + 0 + i
        BY <2>5, <3>1
      <4>3. QED
        BY <2>8, <2>9, <4>2
    <3>7. t + left <= Len(todo')
      BY <1>8, <2>6, <2>9
    <3>8. Progress(x, m, n + 1, t)'
      <4>1. Open(x)' = 1 => item'.instance = Wanted(x)'[n + 1 + 1]
        BY <3>5
      <4>2. Left(x, n + 1)' \in Nat /\ t + Left(x, n + 1)' <= Len(todo')
        BY <3>5, <3>7
      <4>3. \A i \in 1 .. Left(x, n + 1)' :
              todo'[t + i] = [instance |-> Wanted(x)'[(n + 1) + Open(x)' + i], parent |-> x]
        BY <3>5, <3>6
      <4>4. \A i \in DOMAIN todo' : todo'[i].parent = x => t < i /\ i <= t + Left(x, n + 1)'
        BY <2>8, <2>9, <3>5
      <4>5. m + (n + 1) <= Len(Listed(x)') /\ m + (n + 1) = Len(Listed(x)')
        BY <3>2
      <4>6. QED
        BY <3>3, <3>4, <4>1, <4>2, <4>3, <4>4, <4>5 DEF Progress
    <3>9. QED
      BY <3>8
  <2>15. CASE x # parent
    <3>1. more = 0 /\ Listed(x)' = old
      BY <1>4, <1>10, <2>3, <2>10, <2>15
    <3>2. Left(x, n)' = left /\ Open(x)' = 0
      BY <1>10, <2>4, <3>1 DEF Left
    <3>3. \A i \in 1 .. left : todo'[t + i] = [instance |-> Wanted(x)'[n + 0 + i], parent |-> x]
      <4>1. SUFFICES ASSUME NEW i \in 1 .. left
                     PROVE  todo'[t + i] = [instance |-> Wanted(x)[n + 0 + i], parent |-> x]
        BY <1>10
      <4>2. wanted[i] = Wanted(x)[n + 0 + i]
        BY <2>5, <3>1
      <4>3. QED
        BY <2>8, <2>9, <4>2
    <3>4. t + left <= Len(todo')
      BY <1>8, <2>6, <2>9
    <3>5. Progress(x, m, n, t)'
      <4>1. Open(x)' = 1 => item'.instance = Wanted(x)'[n + 1]
        BY <3>2
      <4>2. Left(x, n)' \in Nat /\ t + Left(x, n)' <= Len(todo')
        BY <3>2, <3>4
      <4>3. \A i \in 1 .. Left(x, n)' :
              todo'[t + i] = [instance |-> Wanted(x)'[n + Open(x)' + i], parent |-> x]
        BY <3>2, <3>3
      <4>4. \A i \in DOMAIN todo' : todo'[i].parent = x => t < i /\ i <= t + Left(x, n)'
        BY <2>8, <2>9, <3>2
      <4>5. m + n <= Len(Listed(x)') /\ m + n = Len(Listed(x)')
        BY <2>11, <3>1
      <4>6. /\ \A j \in DOMAIN Listed(x)' : Listed(x)'[j] \in Items' <=> m < j /\ j <= m + n
            /\ \A j \in 1 .. n : written'[Listed(x)'[m + j]] = Wanted(x)'[j]
        BY <2>12, <2>13, <3>1
      <4>7. QED
        BY <4>1, <4>2, <4>3, <4>4, <4>5, <4>6 DEF Progress
    <3>6. QED
      BY <3>5
  <2>16. QED
    BY <2>14, <2>15
<1>14. Progress(k + 1, 1, 0, 0)'
  <2>1. PICK x : x = k + 1
    OBVIOUS
  <2>2. /\ Listed(x)' = <<k>> /\ Wanted(x)' = list /\ Open(x)' = 0 /\ Left(x, 0)' = Len(list)
    BY <1>4, <1>8, <1>10, <2>1 DEF Left
  <2>3. k \notin Items'
    BY <1>4
  <2>4. /\ 1 + 0 = Len(Listed(x)')
        /\ \A j \in DOMAIN Listed(x)' : Listed(x)'[j] \in Items' <=> 1 < j /\ j <= 1 + 0
    BY <2>2, <2>3
  <2>5. \A i \in 1 .. Len(list) : todo'[0 + i] = [instance |-> Wanted(x)'[0 + 0 + i], parent |-> x]
    BY <1>8, <2>1, <2>2
  <2>6. \A i \in DOMAIN todo' : todo'[i].parent = x => 0 < i /\ i <= 0 + Len(list)
    <3>1. SUFFICES ASSUME NEW i \in 1 .. Len(list) + Len(todo), i > Len(list)
                   PROVE  todo'[i].parent # x
      BY <1>8
    <3>2. PICK j \in 1 .. Len(todo) : j = i - Len(list)
      BY <1>8, <3>1
    <3>3. todo'[i] = todo[j] /\ todo[j].parent \in Items \cup {0}
      BY <1>8, <3>2 DEF EncodeInv, Nesting
    <3>4. QED
      BY <1>4, <2>1, <3>3
  <2>7. Progress(x, 1, 0, 0)'
    BY <1>5, <1>8, <2>2, <2>4, <2>5, <2>6 DEF Progress
  <2>8. QED
    BY <2>1, <2>7 DEF Progress, Listed, Wanted, Left, Open
<1>15. QED
  <2>1. ASSUME NEW x \in Items'  \cup {0} PROVE \E m, n, s \in Nat : Progress(x, m, n, s)'
    <3>1. CASE x = k + 1
      BY <1>14, <3>1
    <3>2. CASE x \in Items \cup {0}
      BY <1>13, <3>2
    <3>3. QED
      BY <1>4, <3>1, <3>2
  <2>2. QED
    BY <1>5, <2>1 DEF Shape

(* The tag with the shared strings is under the root, behind all Items.    *)
LEMMA StringsShape ==
  ASSUME EncodeInv, Shape, EncodeStrings
  PROVE  Shape'
<1>1. Items' = Items /\ UNCHANGED <<root, todo, item, written>> /\ step' = "done" /\ step = "items"
  BY DEF EncodeStrings, Items
<1>2. ASSUME NEW k \in Items \cup {0}
      PROVE  \E m, n, s \in Nat : Progress(k, m, n, s)'
  <2>1. PICK m \in Nat, n \in Nat, s \in Nat : Progress(k, m, n, s)
    BY <1>1 DEF Shape
  <2>2. Wanted(k)' = Wanted(k) /\ Open(k)' = Open(k) /\ Left(k, n)' = Left(k, n)
    BY <1>1 DEF Wanted, Open, Left
  <2>3. /\ Len(Listed(k)) \in Nat /\ Len(Listed(k)') \in Nat
        /\ DOMAIN Listed(k) = 1 .. Len(Listed(k)) /\ DOMAIN Listed(k)' = 1 .. Len(Listed(k)')
        /\ Len(Listed(k)) <= Len(Listed(k)')
        /\ \A i \in 1 .. Len(Listed(k)) : Listed(k)'[i] = Listed(k)[i]
        /\ \A i \in 1 .. Len(Listed(k)') : i > Len(Listed(k)) => Listed(k)'[i] \notin Items
    BY StringsListed
  <2>4. /\ m + n = Len(Listed(k))
        /\ \A j \in DOMAIN Listed(k) : Listed(k)[j] \in Items <=> m < j /\ j <= m + n
        /\ \A j \in 1 .. n : written[Listed(k)[m + j]] = Wanted(k)[j]
    BY <1>1, <2>1 DEF Progress
  <2>5. \A j \in DOMAIN Listed(k)' : Listed(k)'[j] \in Items' <=> m < j /\ j <= m + n
    <3>1. SUFFICES ASSUME NEW j \in 1 .. Len(Listed(k)')
                   PROVE  Listed(k)'[j] \in Items <=> m < j /\ j <= m + n
      BY <1>1, <2>3
    <3>2. CASE j <= Len(Listed(k))
      BY <2>3, <2>4, <3>2
    <3>3. CASE j > Len(Listed(k))
      BY <2>3, <2>4, <3>3
    <3>4. QED
      BY <2>3, <3>2, <3>3
  <2>6. \A j \in 1 .. n : written'[Listed(k)'[m + j]] = Wanted(k)'[j]
    BY <1>1, <2>2, <2>3, <2>4
  <2>7. m + n <= Len(Listed(k)')
    BY <2>3, <2>4
  <2>8. Progress(k, m, n, s)'
    BY <1>1, <2>1, <2>2, <2>5, <2>6, <2>7 DEF Progress
  <2>9. QED
    BY <2>8
<1>3. QED
  BY <1>1, <1>2 DEF Shape

(* Writing a property changes the item only in its tags.                   *)
LEMMA TagKeeps ==
  ASSUME EncodeTypeOK, NEW name \in Properties, EncodeReference(name) \/ EncodeValue(name)
  PROVE  /\ step = "items" /\ item # NoItem /\ item \in Item /\ item' # NoItem
         /\ item'.parent = item.parent /\ item'.instance = item.instance /\ item'.ref = item.ref
         /\ UNCHANGED <<properties, root, step, todo, tags, top, written>>
<1>1. step = "items" /\ item # NoItem /\ item \in Item
        /\ UNCHANGED <<properties, root, step, todo, tags, top, written>>
  BY DEF EncodeTypeOK, EncodeReference, EncodeValue, IsNext
<1>2. \/ \E tag : item' = WithTag(tag)
      \/ item' = [item EXCEPT !.names = @ \ {name}]
  BY DEF EncodeReference, EncodeValue
<1>3. ASSUME NEW names, NEW list, item' = [item EXCEPT !.names = names, !.properties = list]
      PROVE  item'.parent = item.parent /\ item'.instance = item.instance /\ item'.ref = item.ref
  BY <1>1, <1>3 DEF Item
<1>4. item'.parent = item.parent /\ item'.instance = item.instance /\ item'.ref = item.ref
  <2>1. CASE \E tag : item' = WithTag(tag)
    BY <1>1, <2>1 DEF WithTag, Item
  <2>2. CASE item' = [item EXCEPT !.names = @ \ {name}]
    BY <1>1, <2>2 DEF Item
  <2>3. QED
    BY <1>2, <2>1, <2>2
<1>5. item' # NoItem
  BY <1>1, <1>4, NilAssumption DEF Item, NoItem
<1>6. QED
  BY <1>1, <1>4, <1>5

LEMMA ShapeStep ==
  ASSUME EncodeInv, EncodeInv', Shape, EncodeNext
  PROVE  Shape'
<1>1. ASSUME NEW name \in Properties, EncodeReference(name) \/ EncodeValue(name)
      PROVE  Shape'
  <2>1. EncodeTypeOK
    BY DEF EncodeInv
  <2>2. QED
    BY <1>1, <2>1, TagKeeps, ShapeSame
<1>2. QED
  BY <1>1, RootShape, InstanceShape, AppendShape, StringsShape DEF EncodeNext

-------------------------------------------------------------------------------
(* What the tags say of every property.                                    *)

(* An Item that is put under its parent leaves what the others say.        *)
LEMMA AppendKeeps ==
  ASSUME EncodeInv, AppendItem, NEW k, k = Len(tags) + 1
  PROVE  /\ \A n \in Items :
              /\ PropertiesOf(n)' = PropertiesOf(n) /\ written'[n] = written[n]
              /\ tags'[n].class = tags[n].class /\ tags'[n].referent = tags[n].referent
         /\ PropertiesOf(k + 1)' = item.properties /\ written'[k + 1] = item.instance
         /\ tags'[k + 1] = ItemTag(k)
<1>1. PICK props : props = [start |-> "Properties", properties |-> item.properties]
  OBVIOUS
<1>2. PICK parent : parent = item.parent
  OBVIOUS
<1>3. /\ EncodeTypeOK /\ Len(tags) \in Nat /\ Items \subseteq 1 .. Len(tags) /\ 0 \notin Items
      /\ Items = {m \in DOMAIN tags : tags[m].start = "Item"} /\ tags \in Seq(Tag)
      /\ \A n \in Items \cup {0} : Listed(n) \in Seq(1 .. Len(tags))
  BY ListedType DEF EncodeInv, EncodeTypeOK
<1>4. /\ \A n \in 1 .. Len(tags) : n # parent => tags'[n] = tags[n]
      /\ tags'[k] = props /\ tags'[k + 1] = ItemTag(k)
      /\ parent \in Items =>
           tags'[parent].class = tags[parent].class /\ tags'[parent].referent = tags[parent].referent
  BY <1>1, <1>2, AppendFacts
<1>5. /\ k \in Nat /\ k + 1 \notin Items /\ parent \in Items \cup {0}
      /\ Listed(parent)' = Append(Listed(parent), k + 1)
      /\ \A n \in Items \cup {0} : n # parent => Listed(n)' = Listed(n)
      /\ Items' = Items \cup {k + 1}
  BY <1>2, AppendListed
<1>6. ASSUME NEW n \in Items
      PROVE  PropertiesOf(n)' = PropertiesOf(n)
  <2>1. Listed(n) = tags[n].tags /\ Listed(n)' = tags'[n].tags /\ Listed(n) # <<>>
    BY <1>3 DEF Listed, EncodeInv, Nesting
  <2>2. PICK list \in Seq(1 .. Len(tags)) : list = Listed(n)
    BY <1>3
  <2>3. PICK p \in 1 .. Len(tags) : p = list[1]
    BY <2>1, <2>2
  <2>4. tags[p].start = "Properties"
    BY <2>1, <2>2, <2>3 DEF EncodeInv, Nesting
  <2>5. p \notin Items /\ p # parent
    BY <1>3, <1>5, <2>3, <2>4
  <2>6. Listed(n)'[1] = p
    <3>1. CASE n = parent
      <4>1. 1 \in 1 .. Len(list)
        BY <2>1, <2>2
      <4>2. Append(list, k + 1)[1] = list[1]
        BY <4>1, Appended
      <4>3. QED
        BY <1>5, <2>2, <2>3, <3>1, <4>2
    <3>2. CASE n # parent
      BY <1>5, <2>2, <2>3, <3>2
    <3>3. QED
      BY <3>1, <3>2
  <2>7. tags'[p] = tags[p]
    BY <1>4, <2>5
  <2>8. QED
    BY <2>1, <2>2, <2>3, <2>6, <2>7 DEF PropertiesOf
<1>7. PropertiesOf(k + 1)' = item.properties
  BY <1>1, <1>4 DEF PropertiesOf, ItemTag
<1>8. written' = [n \in DOMAIN written \cup {Len(tags) + 1 + 1} |->
                    IF n = Len(tags) + 1 + 1 THEN item.instance ELSE written[n]]
  BY DEF AppendItem
<1>9. written'[k + 1] = item.instance /\ \A n \in Items : written'[n] = written[n]
  BY <1>5, <1>8 DEF Items
<1>10. \A n \in Items : tags'[n].class = tags[n].class /\ tags'[n].referent = tags[n].referent
  BY <1>3, <1>4
<1>11. QED
  BY <1>4, <1>6, <1>7, <1>9, <1>10

(* What is said is still true later.                                       *)
LEMMA ToldStays ==
  ASSUME NEW inst, NEW list, NEW left, AreTold(inst, list, left),
         properties' = properties, sharedStrings \subseteq sharedStrings'
  PROVE  AreTold(inst, list, left)'
<1>1. \A value, tag : Says(tag, value) => Says(tag, value)'
  BY DEF Says
<1>2. SUFFICES ASSUME NEW p \in Properties
               PROVE  LET value == properties[inst][p] IN
                      IF value \in Unknown \cup {Unset} \/ p \in left THEN NotTold(list, p)
                      ELSE Told(list, p, value)'
  BY DEF AreTold, NotTold, Told
<1>3. PICK value : value = properties[inst][p]
  OBVIOUS
<1>4. CASE value \in Unknown \cup {Unset} \/ p \in left
  BY <1>3, <1>4 DEF AreTold
<1>5. CASE ~ (value \in Unknown \cup {Unset} \/ p \in left)
  <2>1. Told(list, p, value)
    BY <1>3, <1>5 DEF AreTold
  <2>2. Told(list, p, value)'
    BY <1>1, <2>1 DEF Told
  <2>3. QED
    BY <1>3, <1>5, <2>2 DEF Told, Says
<1>6. QED
  BY <1>4, <1>5

(* One property more is told.                                              *)
LEMMA OneMoreTold ==
  ASSUME NEW inst, NEW list \in Seq(PropertyTag), NEW left, NEW name \in left,
         AreTold(inst, list, left), properties' = properties, sharedStrings \subseteq sharedStrings',
         NEW tag \in PropertyTag, tag.name = name,
         NEW value, value = properties[inst][name], value \notin Unknown \cup {Unset},
         Says(tag, value)', name \in Properties
  PROVE  AreTold(inst, Append(list, tag), left \ {name})'
<1>1. PICK more \in Seq(PropertyTag) : more = Append(list, tag)
  BY AppendType
<1>2. /\ DOMAIN more = 1 .. Len(list) + 1 /\ Len(list) \in Nat /\ DOMAIN list = 1 .. Len(list)
      /\ \A i \in 1 .. Len(list) : more[i] = list[i]
      /\ more[Len(list) + 1] = tag
  BY <1>1, Appended
<1>3. AreTold(inst, list, left)'
  BY ToldStays
<1>4. \A p : p # name /\ NotTold(list, p) => NotTold(more, p)
  BY <1>2 DEF NotTold
<1>5. ASSUME NEW p, p # name, NEW is, Told(list, p, is)'
      PROVE  Told(more, p, is)'
  <2>1. PICK j \in DOMAIN list : /\ list[j].name = p /\ Says(list[j], is)'
                                 /\ \A i \in DOMAIN list : list[i].name = p => i = j
    BY <1>5 DEF Told
  <2>2. j \in DOMAIN more /\ more[j] = list[j]
    BY <1>2
  <2>3. Says(more[j], is)'
    BY <2>1, <2>2
  <2>4. \A i \in DOMAIN more : more[i].name = p => i = j
    BY <1>2, <1>5, <2>1
  <2>5. QED
    BY <2>1, <2>2, <2>3, <2>4 DEF Told
<1>6. Told(more, name, value)'
  <2>1. NotTold(list, name)
    BY DEF AreTold
  <2>2. \A i \in DOMAIN more : more[i].name = name => i = Len(list) + 1
    BY <1>2, <2>1 DEF NotTold
  <2>3. Says(more[Len(list) + 1], value)' /\ Len(list) + 1 \in DOMAIN more
    BY <1>2
  <2>4. QED
    BY <1>2, <2>2, <2>3 DEF Told
<1>7. ASSUME NEW p \in Properties
      PROVE  LET v == properties[inst][p] IN
             IF v \in Unknown \cup {Unset} \/ p \in left \ {name} THEN NotTold(more, p)
             ELSE Told(more, p, v)'
  <2>1. PICK is : is = properties[inst][p]
    OBVIOUS
  <2>2. CASE p = name
    <3>1. Told(more, p, is)'
      BY <1>6, <2>1, <2>2
    <3>2. QED
      BY <2>1, <2>2, <3>1 DEF Told, Says
  <2>3. CASE p # name
    <3>1. IF is \in Unknown \cup {Unset} \/ p \in left THEN NotTold(list, p) ELSE Told(list, p, is)'
      BY <1>3, <2>1 DEF AreTold, NotTold, Told, Says
    <3>2. IF is \in Unknown \cup {Unset} \/ p \in left \ {name} THEN NotTold(more, p)
          ELSE Told(more, p, is)'
      BY <1>4, <1>5, <2>3, <3>1
    <3>3. QED
      BY <2>1, <3>2 DEF Told, Says
  <2>4. QED
    BY <2>2, <2>3
<1>8. AreTold(inst, more, left \ {name})'
  BY <1>7 DEF AreTold, NotTold, Told, Says
<1>9. QED
  BY <1>1, <1>8

LEMMA ToldCarried ==
  ASSUME PropertiesTold, properties' = properties, sharedStrings \subseteq sharedStrings',
         NEW n \in Items, PropertiesOf(n)' = PropertiesOf(n), written'[n] = written[n]
  PROVE  AreTold(written[n], PropertiesOf(n), {})'
<1>1. PICK inst, list : inst = written[n] /\ list = PropertiesOf(n)
  OBVIOUS
<1>2. AreTold(inst, list, {})
  BY <1>1 DEF PropertiesTold
<1>3. AreTold(inst, list, {})'
  BY <1>2, ToldStays
<1>4. inst = written'[n] /\ list = PropertiesOf(n)'
  BY <1>1
<1>5. QED
  BY <1>3, <1>4 DEF AreTold, Told, NotTold, Says

(* For the item that is being written.                                     *)
LEMMA TagTold ==
  ASSUME EncodeInv, PropertiesTold, NEW name \in Properties,
         EncodeReference(name) \/ EncodeValue(name)
  PROVE  AreTold(item.instance, item.properties, item.names)'
<1>1. /\ step = "items" /\ item # NoItem /\ item \in Item /\ item' # NoItem
      /\ item'.instance = item.instance /\ properties' = properties
      /\ properties \in [Instances -> [Properties -> Value \cup {Unset}]]
      /\ TypeOK /\ EncodeTypeOK
  BY TagKeeps DEF EncodeInv, EncodeTypeOK, TypeOK
<1>2. name \in item.names
  BY DEF EncodeReference, EncodeValue, IsNext, IsLeast
<1>3. PICK inst \in Instances, list \in Seq(PropertyTag), left \in SUBSET Properties :
        inst = item.instance /\ list = item.properties /\ left = item.names
  BY <1>1 DEF Item
<1>4. AreTold(inst, list, left)
  BY <1>1, <1>3 DEF PropertiesTold
<1>5. PICK value \in Value \cup {Unset} : value = properties[inst][name]
  BY <1>1, <1>3
<1>6. sharedStrings \subseteq sharedStrings'
  BY DEF EncodeReference, EncodeValue, Kept
<1>7. ASSUME NEW more, item'.instance = inst, item'.properties = more, item'.names = left \ {name},
             AreTold(inst, more, left \ {name})'
      PROVE  AreTold(item.instance, item.properties, item.names)'
  BY <1>7 DEF AreTold, Told, NotTold, Says
<1>8. ASSUME NEW tag \in PropertyTag, tag.name = name, item' = WithTag(tag),
             value \notin Unknown \cup {Unset}, Says(tag, value)'
      PROVE  AreTold(item.instance, item.properties, item.names)'
  <2>1. /\ item'.properties = Append(list, tag) /\ item'.names = left \ {name}
        /\ item'.instance = inst
    BY <1>1, <1>3, <1>8 DEF WithTag, Item
  <2>2. AreTold(inst, Append(list, tag), left \ {name})'
    BY <1>1, <1>2, <1>3, <1>4, <1>5, <1>6, <1>8, OneMoreTold
  <2>3. QED
    BY <1>7, <2>1, <2>2
<1>9. CASE EncodeReference(name)
  <2>1. CASE value = Nil /\ item' = WithTag(PropertyOf(name, "Ref", NullRef))
    <3>1. PICK tag \in PropertyTag : tag = PropertyOf(name, "Ref", NullRef)
      BY NamesAssumption, RefsAssumption DEF PropertyOf, PropertyTag
    <3>2. tag.name = name /\ tag.kind = "Ref" /\ tag.text \in EmptyRefs
      BY <3>1, NamesAssumption DEF PropertyOf
    <3>3. Says(tag, value)'
      BY <2>1, <3>2 DEF Says
    <3>4. value \notin Unknown \cup {Unset}
      BY <2>1, NilAssumption, DataAssumption
    <3>5. QED
      BY <1>8, <2>1, <3>1, <3>2, <3>3, <3>4
  <2>2. ASSUME value \in Instances, NEW ref \in Refs, Get(value, ref),
               item' = WithTag(PropertyOf(name, "Ref", RefText(value, ref)))
        PROVE  AreTold(item.instance, item.properties, item.names)'
    <3>1. PICK tag \in PropertyTag : tag = PropertyOf(name, "Ref", ref)
      BY DEF PropertyOf, PropertyTag
    <3>2. item' = WithTag(tag) /\ tag.name = name /\ tag.kind = "Ref" /\ tag.text = ref
      BY <2>2, <3>1 DEF RefText, PropertyOf
    <3>3. ref \notin EmptyRefs
      BY <1>1, <2>2, GetReferenceFree DEF Get
    <3>4. Says(tag, value)'
      BY <2>2, <3>2, <3>3 DEF Says
    <3>5. value \notin Unknown \cup {Unset}
      BY <2>2, NilAssumption, DataAssumption
    <3>6. QED
      BY <1>8, <3>2, <3>4, <3>5
  <2>3. QED
    BY <1>3, <1>5, <1>9, <2>1, <2>2 DEF EncodeReference
<1>10. CASE EncodeValue(name)
  <2>1. /\ value \in Data /\ sharedStrings' = Kept(value)
        /\ item' =
             CASE value \in Shared -> WithTag(PropertyOf(name, "SharedString", value))
               [] value \in Unknown -> [item EXCEPT !.names = @ \ {name}]
               [] OTHER -> WithTag(PropertyOf(name, "value", Readable[value]))
    BY <1>3, <1>5, <1>10 DEF EncodeValue
  <2>2. value # Unset
    BY <2>1, NilAssumption
  <2>3. CASE value \in Shared
    <3>1. PICK tag \in PropertyTag : tag = PropertyOf(name, "SharedString", value)
      BY <2>3 DEF PropertyOf, PropertyTag, Hash
    <3>2. tag.name = name /\ tag.kind = "SharedString" /\ tag.text = value
      BY <3>1 DEF PropertyOf
    <3>3. Says(tag, value)'
      BY <2>1, <2>3, <3>2 DEF Says, Kept
    <3>4. value \notin Unknown
      BY <2>3, DataAssumption
    <3>5. item' = WithTag(tag)
      BY <2>1, <2>3, <3>1, <3>4
    <3>6. QED
      BY <1>8, <2>2, <3>2, <3>3, <3>4, <3>5
  <2>4. CASE value \notin Shared /\ value \in Unknown
    <3>1. item' = [item EXCEPT !.names = @ \ {name}]
      BY <2>1, <2>4
    <3>2. /\ item'.instance = inst /\ item'.properties = list /\ item'.names = left \ {name}
      BY <1>1, <1>3, <3>1 DEF Item
    <3>3. AreTold(inst, list, left)'
      BY <1>1, <1>4, <1>6, ToldStays
    <3>4. ASSUME NEW p \in Properties
          PROVE  LET v == properties[inst][p] IN
                 IF v \in Unknown \cup {Unset} \/ p \in left \ {name} THEN NotTold(list, p)
                 ELSE Told(list, p, v)'
      <4>1. PICK is : is = properties[inst][p]
        OBVIOUS
      <4>2. IF is \in Unknown \cup {Unset} \/ p \in left THEN NotTold(list, p) ELSE Told(list, p, is)'
        BY <1>1, <3>3, <4>1 DEF AreTold, NotTold, Told, Says
      <4>3. IF is \in Unknown \cup {Unset} \/ p \in left \ {name} THEN NotTold(list, p)
            ELSE Told(list, p, is)'
        BY <1>5, <2>4, <4>1, <4>2
      <4>4. QED
        BY <1>1, <4>1, <4>3 DEF Told, Says
    <3>5. AreTold(inst, list, left \ {name})'
      BY <1>1, <3>4 DEF AreTold, NotTold, Told, Says
    <3>6. QED
      BY <1>7, <3>2, <3>5
  <2>5. CASE value \notin Shared /\ value \notin Unknown
    <3>1. PICK tag \in PropertyTag : tag = PropertyOf(name, "value", Readable[value])
      BY <2>1, DataAssumption DEF PropertyOf, PropertyTag
    <3>2. tag.name = name /\ tag.kind = "value" /\ tag.text = Readable[value]
      BY <3>1 DEF PropertyOf
    <3>3. Says(tag, value)'
      BY <2>1, <2>5, <3>2 DEF Says
    <3>4. item' = WithTag(tag)
      BY <2>1, <2>5, <3>1
    <3>5. QED
      BY <1>8, <2>2, <2>5, <3>2, <3>3, <3>4
  <2>6. QED
    BY <2>3, <2>4, <2>5
<1>11. QED
  BY <1>9, <1>10

(* The shared strings change no Item.                                      *)
LEMMA StringsKeep ==
  ASSUME EncodeInv, EncodeStrings, NEW n \in Items
  PROVE  PropertiesOf(n)' = PropertiesOf(n) /\ written'[n] = written[n] /\ tags'[n] = tags[n]
<1>1. /\ EncodeTypeOK /\ Len(tags) \in Nat /\ Items \subseteq 1 .. Len(tags)
      /\ tags \in Seq(Tag) /\ n \in 1 .. Len(tags)
  BY ListedType DEF EncodeInv, EncodeTypeOK
<1>2. \A x \in 1 .. Len(tags) : tags'[x] = tags[x]
  <2>1. CASE UNCHANGED <<tags, top>>
    BY <2>1
  <2>2. ASSUME NEW tag, tags' = Append(tags, tag) PROVE \A x \in 1 .. Len(tags) : tags'[x] = tags[x]
    BY <1>1, <2>2, Appended
  <2>3. QED
    BY <2>1, <2>2 DEF EncodeStrings
<1>3. tags[n].tags[1] \in 1 .. Len(tags)
  BY PropertiesType DEF EncodeInv
<1>4. written' = written
  BY DEF EncodeStrings
<1>5. QED
  BY <1>1, <1>2, <1>3, <1>4 DEF PropertiesOf

LEMMA ToldStep ==
  ASSUME EncodeInv, PropertiesTold, EncodeNext
  PROVE  PropertiesTold'
<1>1. properties' = properties /\ sharedStrings \subseteq sharedStrings'
  <2>1. EncodeInstance => properties' = properties /\ sharedStrings' = sharedStrings
    BY DEF EncodeInstance, Crash
  <2>2. \A name \in Properties : EncodeReference(name) \/ EncodeValue(name) =>
          properties' = properties /\ sharedStrings \subseteq sharedStrings'
    BY DEF EncodeReference, EncodeValue, Kept
  <2>3. QED
    BY <2>1, <2>2 DEF EncodeNext, EncodeRoot, AppendItem, EncodeStrings
<1>2. ASSUME UNCHANGED <<tags, written>>,
             item' # NoItem => AreTold(item.instance, item.properties, item.names)'
      PROVE  PropertiesTold'
  <2>1. Items' = Items /\ \A n \in Items : PropertiesOf(n)' = PropertiesOf(n) /\ written'[n] = written[n]
    BY <1>2 DEF Items, PropertiesOf
  <2>2. QED
    BY <1>1, <1>2, <2>1, ToldCarried DEF PropertiesTold
<1>3. CASE EncodeRoot
  <2>1. tags = <<>> /\ item = NoItem /\ EncodeTypeOK
    BY <1>3 DEF EncodeInv, Nesting, EncodeRoot
  <2>2. Items = {}
    BY <2>1, ListedType
  <2>3. Items' = {} /\ item' = NoItem
    BY <1>3, <2>1, <2>2 DEF EncodeRoot, Items
  <2>4. QED
    BY <2>3 DEF PropertiesTold
<1>4. CASE EncodeInstance
  <2>1. item = NoItem
    BY <1>4 DEF EncodeInstance
  <2>2. CASE Crash
    BY <1>2, <2>1, <2>2 DEF Crash
  <2>3. ASSUME NEW ref, Head(todo).instance # Nil, UNCHANGED <<tags, written>>,
               item' = [instance |-> Head(todo).instance, parent |-> Head(todo).parent, ref |-> ref,
                        names |-> {p \in Properties : properties[Head(todo).instance][p] # Unset},
                        properties |-> <<>>]
        PROVE  PropertiesTold'
    <3>1. PICK inst : inst = Head(todo).instance
      OBVIOUS
    <3>2. /\ item'.instance = inst /\ item'.properties = <<>>
          /\ item'.names = {p \in Properties : properties[inst][p] # Unset}
      BY <2>3, <3>1
    <3>3. AreTold(item.instance, item.properties, item.names)'
      <4>1. \A p \in Properties : NotTold(<<>>, p)
        BY DEF NotTold
      <4>2. \A p \in Properties : properties[inst][p] \in Unknown \cup {Unset} \/ p \in item'.names
        BY <3>2
      <4>3. QED
        BY <1>1, <3>2, <4>1, <4>2 DEF AreTold, NotTold
    <3>4. QED
      BY <1>2, <2>3, <3>3
  <2>4. QED
    BY <1>4, <2>2, <2>3 DEF EncodeInstance
<1>5. ASSUME NEW name \in Properties, EncodeReference(name) \/ EncodeValue(name)
      PROVE  PropertiesTold'
  <2>1. AreTold(item.instance, item.properties, item.names)'
    BY <1>5, TagTold
  <2>2. UNCHANGED <<tags, written>>
    BY <1>5 DEF EncodeReference, EncodeValue
  <2>3. QED
    BY <1>2, <2>1, <2>2
<1>6. CASE AppendItem
  <2>1. PICK k : k = Len(tags) + 1
    OBVIOUS
  <2>2. /\ \A n \in Items : PropertiesOf(n)' = PropertiesOf(n) /\ written'[n] = written[n]
        /\ PropertiesOf(k + 1)' = item.properties /\ written'[k + 1] = item.instance
        /\ Items' = Items \cup {k + 1}
    <3>1. PICK parent : parent = item.parent
      OBVIOUS
    <3>2. QED
      BY <1>6, <2>1, <3>1, AppendKeeps, AppendListed
  <2>3. item # NoItem /\ item' = NoItem /\ item.names = {}
    BY <1>6 DEF AppendItem
  <2>4. PICK inst, list : inst = item.instance /\ list = item.properties
    OBVIOUS
  <2>5. AreTold(inst, list, {})
    BY <2>3, <2>4 DEF PropertiesTold
  <2>6. AreTold(inst, list, {})'
    BY <1>1, <2>5, ToldStays
  <2>7. PICK new : new = k + 1
    OBVIOUS
  <2>8. AreTold(written[new], PropertiesOf(new), {})'
    <3>1. inst = written'[new] /\ list = PropertiesOf(new)'
      BY <2>2, <2>4, <2>7
    <3>2. QED
      BY <2>6, <3>1 DEF AreTold, Told, NotTold, Says
  <2>9. ASSUME NEW n \in Items'
        PROVE  AreTold(written[n], PropertiesOf(n), {})'
    <3>1. CASE n = new
      BY <2>8, <3>1
    <3>2. CASE n \in Items
      BY <1>1, <2>2, <3>2, ToldCarried
    <3>3. QED
      BY <2>2, <2>7, <3>1, <3>2
  <2>10. QED
    BY <2>3, <2>9 DEF PropertiesTold
<1>7. CASE EncodeStrings
  <2>1. Items' = Items /\ item' = NoItem
    BY <1>7 DEF EncodeStrings, Items
  <2>2. \A n \in Items : PropertiesOf(n)' = PropertiesOf(n) /\ written'[n] = written[n]
    BY <1>7, StringsKeep
  <2>3. QED
    BY <1>1, <2>1, <2>2, ToldCarried DEF PropertiesTold
<1>8. QED
  BY <1>3, <1>4, <1>5, <1>6, <1>7 DEF EncodeNext

-------------------------------------------------------------------------------
(* The rest of the document, and the names.                                *)

LEMMA ItemsStep ==
  ASSUME EncodeInv, ItemsTold, EncodeNext
  PROVE  ItemsTold'
<1>1. root' = root
  <2>1. EncodeInstance => root' = root
    BY DEF EncodeInstance, Crash
  <2>2. QED
    BY <2>1 DEF EncodeNext, EncodeRoot, EncodeReference, EncodeValue, AppendItem, EncodeStrings
<1>2. CASE UNCHANGED <<tags, written>>
  BY <1>1, <1>2 DEF ItemsTold, Items
<1>3. CASE EncodeRoot
  <2>1. Items = {}
    BY <1>3, ListedType DEF EncodeInv, Nesting, EncodeRoot
  <2>2. Items' = {}
    BY <1>3, <2>1 DEF EncodeRoot, Items
  <2>3. QED
    BY <2>2 DEF ItemsTold
<1>4. CASE AppendItem
  <2>1. PICK k, parent : k = Len(tags) + 1 /\ parent = item.parent
    OBVIOUS
  <2>2. /\ \A n \in Items : /\ written'[n] = written[n]
                            /\ tags'[n].class = tags[n].class /\ tags'[n].referent = tags[n].referent
        /\ written'[k + 1] = item.instance
        /\ tags'[k + 1] = ItemTag(k)
        /\ Items' = Items \cup {k + 1}
    BY <1>4, <2>1, AppendKeeps, AppendListed
  <2>3. item.ref # NoAttr
    <3>1. item \in Item
      BY <1>4 DEF EncodeInv, EncodeTypeOK, AppendItem
    <3>2. QED
      BY <3>1, TagAssumption DEF Item
  <2>4. /\ tags'[k + 1].class = root.class[written'[k + 1]]
        /\ tags'[k + 1].referent = NoAttr <=> root.excludeReferent
    BY <2>2, <2>3, RootParts DEF ItemTag, EncodeInv, EncodeTypeOK, RootRecord
  <2>5. ASSUME NEW n \in Items'
        PROVE  /\ tags'[n].class = root.class[written'[n]]
               /\ tags'[n].referent = NoAttr <=> root.excludeReferent
    BY <2>2, <2>4 DEF ItemsTold
  <2>6. QED
    BY <1>1, <2>5 DEF ItemsTold
<1>5. CASE EncodeStrings
  <2>1. \A n \in Items : written'[n] = written[n] /\ tags'[n] = tags[n]
    BY <1>5, StringsKeep
  <2>2. Items' = Items
    BY <1>5 DEF EncodeStrings, Items
  <2>3. QED
    BY <1>1, <2>1, <2>2 DEF ItemsTold
<1>6. EncodeInstance => UNCHANGED <<tags, written>>
  BY DEF EncodeInstance, Crash
<1>7. \A name \in Properties : EncodeReference(name) \/ EncodeValue(name) => UNCHANGED <<tags, written>>
  BY DEF EncodeReference, EncodeValue
<1>8. QED
  BY <1>2, <1>3, <1>4, <1>5, <1>6, <1>7 DEF EncodeNext

(* The tags that are not Items stay, and the top only gets longer.         *)
LEMMA OthersStay ==
  ASSUME EncodeInv, EncodeNext, step = "items"
  PROVE  /\ root' = root /\ step' # "start"
         /\ \A i \in 1 .. Len(tags) : tags[i].start # "Item" => tags'[i] = tags[i]
         /\ \A i \in DOMAIN tags' :
              \/ i \in 1 .. Len(tags)
              \/ tags'[i].start \in {"Item", "Properties"}
              \/ EncodeStrings /\ tags'[i].start = "SharedStrings"
         /\ \A i \in 1 .. Len(tags) : tags[i].start = "Item" => tags'[i].start = "Item"
         /\ \A i \in DOMAIN top : i \in DOMAIN top' /\ top'[i] = top[i]
<1>1. /\ EncodeTypeOK /\ Len(tags) \in Nat /\ DOMAIN tags = 1 .. Len(tags) /\ tags \in Seq(Tag)
      /\ Items = {m \in DOMAIN tags : tags[m].start = "Item"}
      /\ top \in Seq(1 .. Len(tags))
  BY DEF EncodeInv, EncodeTypeOK, Items
<1>2. CASE AppendItem
  <2>1. PICK k, parent, props :
          /\ k = Len(tags) + 1 /\ parent = item.parent
          /\ props = [start |-> "Properties", properties |-> item.properties]
    OBVIOUS
  <2>2. /\ DOMAIN tags' = 1 .. k + 1
        /\ \A n \in 1 .. Len(tags) : n # parent => tags'[n] = tags[n]
        /\ tags'[k] = props /\ tags'[k + 1] = ItemTag(k)
        /\ parent \in Items => tags'[parent] \in ItemTags
        /\ parent \in Items \cup {0}
    BY <1>2, <2>1, AppendFacts, AppendListed
  <2>3. \A i \in 1 .. Len(tags) : tags[i].start # "Item" => tags'[i] = tags[i]
    BY <1>1, <2>2
  <2>4. \A i \in DOMAIN tags' : i \in 1 .. Len(tags) \/ tags'[i].start \in {"Item", "Properties"}
    <3>1. ASSUME NEW i \in 1 .. k + 1, i \notin 1 .. Len(tags) PROVE i = k \/ i = k + 1
      BY <1>1, <2>1, <3>1
    <3>2. tags'[k].start = "Properties" /\ tags'[k + 1].start = "Item"
      BY <2>1, <2>2 DEF ItemTag
    <3>3. QED
      BY <2>2, <3>1, <3>2
  <2>5. \A i \in 1 .. Len(tags) : tags[i].start = "Item" => tags'[i].start = "Item"
    BY <1>1, <2>2 DEF ItemTags
  <2>6. \A i \in DOMAIN top : i \in DOMAIN top' /\ top'[i] = top[i]
    <3>1. top' = top \/ top' = Append(top, k + 1)
      BY <1>2, <2>1 DEF AppendItem
    <3>2. QED
      BY <1>1, <3>1, Appended
  <2>7. root' = root /\ step' # "start"
    BY <1>2 DEF AppendItem
  <2>8. QED
    BY <2>3, <2>4, <2>5, <2>6, <2>7
<1>3. CASE EncodeStrings
  <2>1. CASE UNCHANGED <<tags, top>>
    BY <1>1, <1>3, <2>1 DEF EncodeStrings
  <2>2. ASSUME NEW strings, tags' = Append(tags, [start |-> "SharedStrings", strings |-> strings]),
               top' = Append(top, Len(tags) + 1)
        PROVE  /\ \A i \in 1 .. Len(tags) : tags'[i] = tags[i]
               /\ \A i \in DOMAIN tags' : i \in 1 .. Len(tags) \/ tags'[i].start = "SharedStrings"
               /\ \A i \in DOMAIN top : i \in DOMAIN top' /\ top'[i] = top[i]
    <3>1. PICK tag : tag = [start |-> "SharedStrings", strings |-> strings]
      OBVIOUS
    <3>2. /\ DOMAIN tags' = 1 .. Len(tags) + 1 /\ tags'[Len(tags) + 1] = tag
          /\ \A i \in 1 .. Len(tags) : tags'[i] = tags[i]
      BY <1>1, <2>2, <3>1, Appended
    <3>3. \A i \in DOMAIN top : i \in DOMAIN top' /\ top'[i] = top[i]
      BY <1>1, <2>2, Appended
    <3>4. \A i \in 1 .. Len(tags) + 1 : i \in 1 .. Len(tags) \/ i = Len(tags) + 1
      BY <1>1
    <3>5. tag.start = "SharedStrings"
      BY <3>1
    <3>6. QED
      BY <3>2, <3>3, <3>4, <3>5
  <2>3. QED
    BY <1>1, <1>3, <2>1, <2>2 DEF EncodeStrings
<1>4. CASE UNCHANGED <<root, tags, top>> /\ step' # "start"
  BY <1>1, <1>4
<1>5. EncodeInstance => UNCHANGED <<root, tags, top>> /\ step' # "start"
  BY DEF EncodeInstance, Crash
<1>6. \A name \in Properties : EncodeReference(name) \/ EncodeValue(name) =>
        UNCHANGED <<root, tags, top>> /\ step' # "start"
  BY DEF EncodeReference, EncodeValue, IsNext
<1>7. ~EncodeRoot
  BY DEF EncodeRoot
<1>8. QED
  BY <1>2, <1>3, <1>4, <1>5, <1>6, <1>7 DEF EncodeNext

(* Nothing is done once the document is there.                             *)
LEMMA EncodeSteps ==
  ASSUME EncodeNext
  PROVE  EncodeRoot \/ step = "items"
BY DEF EncodeNext, EncodeRoot, EncodeInstance, EncodeReference, EncodeValue, IsNext, AppendItem,
       EncodeStrings

LEMMA RootTags ==
  ASSUME EncodeInv, EncodeRoot
  PROVE  \E keys \in Orders(MetaKeys) :
           /\ \A i \in DOMAIN keys :
                /\ i \in DOMAIN tags' /\ keys[i] \in MetaKeys
                /\ tags'[i].start = "Meta" /\ tags'[i].name = keys[i]
                /\ tags'[i].text = root.metadata[keys[i]]
           /\ \A i \in DOMAIN tags' : i \in DOMAIN keys \/ tags'[i] = External
<1>1. PICK keys \in Orders(MetaKeys) : tags' = MetaTags(keys) \o ExternalTags
  BY DEF EncodeRoot, MetaKeys
<1>2. keys \in Seq(MetaKeys)
  <2>1. IsFiniteSet(MetaKeys)
    BY MetadataAssumption, FS_Subset DEF MetaKeys
  <2>2. QED
    BY <2>1, OrdersType
<1>3. PICK first, last : first = MetaTags(keys) /\ last = ExternalTags
  OBVIOUS
<1>4. /\ first \in Seq({first[i] : i \in DOMAIN first}) /\ Len(first) = Len(keys)
      /\ DOMAIN first = 1 .. Len(keys) /\ DOMAIN keys = 1 .. Len(keys) /\ Len(keys) \in Nat
  BY <1>2, <1>3 DEF MetaTags
<1>5. \A i \in 1 .. Len(keys) :
        /\ keys[i] \in MetaKeys
        /\ first[i].start = "Meta" /\ first[i].name = keys[i] /\ first[i].text = root.metadata[keys[i]]
  BY <1>2, <1>3, <1>4 DEF MetaTags
<1>6. last \in Seq(Tag) /\ \A i \in DOMAIN last : last[i] = External
  <2>1. External \in Tag
    BY DEF External, Tag
  <2>2. QED
    BY <1>3, <2>1 DEF ExternalTags
<1>7. PICK S : first \in Seq(S) /\ last \in Seq(S)
  <2>1. PICK A : first \in Seq(A)
    BY <1>4
  <2>2. first \in Seq(A \cup Tag) /\ last \in Seq(A \cup Tag)
    BY <1>6, <2>1
  <2>3. QED
    BY <2>2
<1>8. /\ DOMAIN tags' = 1 .. Len(first) + Len(last)
      /\ \A i \in 1 .. Len(first) : tags'[i] = first[i]
      /\ \A i \in 1 .. Len(last) : tags'[Len(first) + i] = last[i] /\ i \in DOMAIN last
      /\ Len(first) \in Nat /\ Len(last) \in Nat
  BY <1>1, <1>3, <1>7
<1>9. ASSUME NEW i \in DOMAIN tags', i \notin DOMAIN keys
      PROVE  tags'[i] = External
  <2>1. PICK j \in 1 .. Len(last) : i = Len(first) + j
    <3>1. i - Len(first) \in 1 .. Len(last) /\ i = Len(first) + (i - Len(first))
      BY <1>4, <1>8, <1>9
    <3>2. QED
      BY <3>1
  <2>2. QED
    BY <1>6, <1>8, <2>1
<1>10. \A i \in DOMAIN keys : i \in DOMAIN tags' /\ tags'[i] = first[i]
  BY <1>4, <1>8
<1>11. QED
  BY <1>4, <1>5, <1>9, <1>10

LEMMA MetaStep ==
  ASSUME EncodeInv, MetaTold, EncodeNext
  PROVE  MetaTold'
<1>1. CASE EncodeRoot
  <2>1. PICK keys \in Orders(MetaKeys) :
          /\ \A i \in DOMAIN keys :
               /\ i \in DOMAIN tags' /\ keys[i] \in MetaKeys
               /\ tags'[i].start = "Meta" /\ tags'[i].name = keys[i]
               /\ tags'[i].text = root.metadata[keys[i]]
          /\ \A i \in DOMAIN tags' : i \in DOMAIN keys \/ tags'[i] = External
    BY <1>1, RootTags
  <2>2. root' = root /\ top' = [k \in DOMAIN tags' |-> k] /\ MetaKeys' = MetaKeys
    BY <1>1 DEF EncodeRoot, MetaKeys
  <2>3. ASSUME NEW i \in DOMAIN tags', tags'[i].start = "Meta"
        PROVE  tags'[i].name \in MetaKeys /\ tags'[i].text = root.metadata[tags'[i].name]
    <3>1. i \in DOMAIN keys
      BY <2>1, <2>3 DEF External
    <3>2. QED
      BY <2>1, <3>1
  <2>4. ASSUME NEW key \in MetaKeys
        PROVE  \E i \in DOMAIN top' : tags'[top'[i]].start = "Meta" /\ tags'[top'[i]].name = key
    <3>1. PICK i \in DOMAIN keys : keys[i] = key
      BY DEF Orders
    <3>2. QED
      BY <2>1, <2>2, <3>1
  <2>5. QED
    BY <2>2, <2>3, <2>4 DEF MetaTold
<1>2. CASE step = "items"
  <2>1. /\ root' = root
        /\ \A i \in 1 .. Len(tags) : tags[i].start # "Item" => tags'[i] = tags[i]
        /\ \A i \in DOMAIN tags' :
             \/ i \in 1 .. Len(tags)
             \/ tags'[i].start \in {"Item", "Properties", "SharedStrings"}
        /\ \A i \in 1 .. Len(tags) : tags[i].start = "Item" => tags'[i].start = "Item"
        /\ \A i \in DOMAIN top : i \in DOMAIN top' /\ top'[i] = top[i]
    BY <1>2, OthersStay
  <2>2. tags \in Seq(Tag) /\ top \in Seq(1 .. Len(tags)) /\ DOMAIN tags = 1 .. Len(tags)
    BY DEF EncodeInv, EncodeTypeOK
  <2>3. MetaKeys' = MetaKeys
    BY <2>1 DEF MetaKeys
  <2>4. ASSUME NEW i \in DOMAIN tags', tags'[i].start = "Meta"
        PROVE  tags'[i].name \in MetaKeys /\ tags'[i].text = root.metadata[tags'[i].name]
    <3>1. i \in DOMAIN tags /\ tags'[i] = tags[i]
      BY <2>1, <2>2, <2>4
    <3>2. QED
      BY <2>4, <3>1 DEF MetaTold
  <2>5. ASSUME NEW key \in MetaKeys
        PROVE  \E i \in DOMAIN top' : tags'[top'[i]].start = "Meta" /\ tags'[top'[i]].name = key
    <3>1. PICK i \in DOMAIN top : tags[top[i]].start = "Meta" /\ tags[top[i]].name = key
      BY <1>2 DEF MetaTold
    <3>2. top[i] \in 1 .. Len(tags)
      BY <2>2
    <3>3. tags'[top[i]] = tags[top[i]] /\ i \in DOMAIN top' /\ top'[i] = top[i]
      BY <2>1, <3>1, <3>2
    <3>4. QED
      BY <3>1, <3>3
  <2>6. QED
    BY <2>1, <2>3, <2>4, <2>5 DEF MetaTold
<1>3. QED
  BY <1>1, <1>2, EncodeSteps

LEMMA StringsTellStep ==
  ASSUME EncodeInv, StringsTold, EncodeNext
  PROVE  StringsTold'
<1>1. CASE EncodeRoot
  <2>1. step' = "items"
    BY <1>1 DEF EncodeRoot
  <2>2. \A i \in DOMAIN tags' : tags'[i].start # "SharedStrings"
    <3>1. PICK keys \in Orders(MetaKeys) :
            /\ \A i \in DOMAIN keys : tags'[i].start = "Meta"
            /\ \A i \in DOMAIN tags' : i \in DOMAIN keys \/ tags'[i] = External
      BY <1>1, RootTags
    <3>2. External.start = "External"
      BY DEF External
    <3>3. QED
      BY <3>1, <3>2
  <2>3. QED
    BY <2>1, <2>2 DEF StringsTold
<1>2. CASE EncodeStrings
  <2>1. /\ tags \in Seq(Tag) /\ top \in Seq(1 .. Len(tags)) /\ DOMAIN tags = 1 .. Len(tags)
        /\ sharedStrings' = sharedStrings /\ IsFiniteSet(sharedStrings) /\ step # "done"
    BY <1>2 DEF EncodeInv, EncodeTypeOK, EncodeStrings
  <2>2. CASE sharedStrings = {}
    BY <1>2, <2>1, <2>2 DEF StringsTold, EncodeStrings
  <2>3. ASSUME NEW keys \in Orders(sharedStrings),
               tags' = Append(tags, [start |-> "SharedStrings",
                 strings |-> [i \in DOMAIN keys |-> [md5 |-> keys[i], text |-> keys[i]]]]),
               top' = Append(top, Len(tags) + 1)
        PROVE  StringsTold'
    <3>1. PICK tag : tag = [start |-> "SharedStrings",
                            strings |-> [i \in DOMAIN keys |-> [md5 |-> keys[i], text |-> keys[i]]]]
      OBVIOUS
    <3>2. /\ DOMAIN tags' = 1 .. Len(tags) + 1 /\ tags'[Len(tags) + 1] = tag
          /\ \A i \in 1 .. Len(tags) : tags'[i] = tags[i]
          /\ Len(tags) \in Nat
      BY <2>1, <2>3, <3>1, Appended
    <3>3. /\ tag.start = "SharedStrings" /\ DOMAIN tag.strings = DOMAIN keys
          /\ \A j \in DOMAIN tag.strings : tag.strings[j].md5 = keys[j] /\ tag.strings[j].text = keys[j]
      BY <3>1
    <3>4. ASSUME NEW i \in DOMAIN tags', tags'[i].start = "SharedStrings"
          PROVE  \A j \in DOMAIN tags'[i].strings : tags'[i].strings[j].md5 = tags'[i].strings[j].text
      <4>1. CASE i \in 1 .. Len(tags)
        BY <2>1, <3>2, <3>4, <4>1 DEF StringsTold
      <4>2. CASE i = Len(tags) + 1
        BY <3>2, <3>3, <4>2
      <4>3. QED
        BY <3>2, <4>1, <4>2
    <3>5. PICK last : last = Len(top) + 1
      OBVIOUS
    <3>6. last \in DOMAIN top' /\ top'[last] = Len(tags) + 1
      BY <2>1, <2>3, <3>5, Appended
    <3>7. ASSUME NEW value \in sharedStrings
          PROVE  \E j \in DOMAIN tag.strings : tag.strings[j].md5 = value
      <4>1. PICK j \in DOMAIN keys : keys[j] = value
        BY DEF Orders
      <4>2. QED
        BY <3>3, <4>1
    <3>8. \A value \in sharedStrings' :
            \E i \in DOMAIN top' :
              /\ tags'[top'[i]].start = "SharedStrings"
              /\ \E j \in DOMAIN tags'[top'[i]].strings : tags'[top'[i]].strings[j].md5 = value
      BY <2>1, <3>2, <3>3, <3>6, <3>7
    <3>9. QED
      BY <3>4, <3>8 DEF StringsTold
  <2>4. QED
    BY <1>2, <2>2, <2>3 DEF EncodeStrings
<1>3. CASE step = "items" /\ ~EncodeStrings
  <2>1. /\ \A i \in 1 .. Len(tags) : tags[i].start # "Item" => tags'[i] = tags[i]
        /\ \A i \in DOMAIN tags' :
             i \in 1 .. Len(tags) \/ tags'[i].start \in {"Item", "Properties"}
        /\ \A i \in 1 .. Len(tags) : tags[i].start = "Item" => tags'[i].start = "Item"
    BY <1>3, OthersStay
  <2>2. tags \in Seq(Tag) /\ DOMAIN tags = 1 .. Len(tags)
    BY DEF EncodeInv, EncodeTypeOK
  <2>3. step' # "done"
    <3>1. EncodeInstance => step' # "done"
      BY <1>3 DEF EncodeInstance, Crash
    <3>2. QED
      BY <1>3, <3>1 DEF EncodeNext, EncodeRoot, EncodeReference, EncodeValue, AppendItem
  <2>4. ASSUME NEW i \in DOMAIN tags', tags'[i].start = "SharedStrings"
        PROVE  i \in DOMAIN tags /\ tags'[i] = tags[i]
    BY <2>1, <2>2, <2>4
  <2>5. QED
    BY <2>3, <2>4 DEF StringsTold
<1>4. QED
  BY <1>1, <1>2, <1>3, EncodeSteps

LEMMA NamesStep ==
  ASSUME EncodeInv, MarksAgree, EmptyNeverMarked, EncodeNext
  PROVE  MarksAgree' /\ EmptyNeverMarked'
<1>1. TypeOK /\ EncodeTypeOK
  BY DEF EncodeInv, EncodeTypeOK
<1>2. CASE UNCHANGED <<refs, reference>>
  BY <1>2 DEF MarksAgree, EmptyNeverMarked
<1>3. CASE EncodeInstance
  <2>1. Crash => UNCHANGED <<refs, reference>>
    BY DEF Crash
  <2>2. ASSUME NEW ref \in Refs, Head(todo).instance # Nil, Get(Head(todo).instance, ref)
        PROVE  MarksAgree' /\ EmptyNeverMarked'
    <3>1. Head(todo) \in Call
      BY <1>1, <1>3 DEF EncodeTypeOK, EncodeInstance
    <3>2. Head(todo).instance \in Instances
      BY <2>2, <3>1 DEF Call
    <3>3. QED
      BY <1>1, <2>2, <3>2, GetKeepsNames
  <2>3. QED
    BY <1>2, <1>3, <2>1, <2>2 DEF EncodeInstance
<1>4. ASSUME NEW name \in Properties, EncodeReference(name)
      PROVE  MarksAgree' /\ EmptyNeverMarked'
  BY <1>1, <1>2, <1>4, GetKeepsNames DEF EncodeReference
<1>5. \A name \in Properties : EncodeValue(name) => UNCHANGED <<refs, reference>>
  BY DEF EncodeValue
<1>6. QED
  BY <1>2, <1>3, <1>4, <1>5 DEF EncodeNext, EncodeRoot, AppendItem, EncodeStrings

(* A nil that Encode meets is in the tree.                                 *)
LEMMA PanicStep ==
  ASSUME EncodeInv, Shape, EncodeNext, step' = "panic"
  PROVE  NilInTree'
<1>1. EncodeInstance /\ Crash /\ Head(todo).instance = Nil /\ root' = root
  <2>1. EncodeInstance
    BY DEF EncodeNext, EncodeRoot, EncodeReference, EncodeValue, IsNext, AppendItem, EncodeStrings
  <2>2. step = "items"
    BY <2>1 DEF EncodeInstance
  <2>3. QED
    BY <2>1, <2>2 DEF EncodeInstance, Crash
<1>2. /\ todo \in Seq(Call) /\ todo # <<>> /\ step = "items" /\ EncodeTypeOK
      /\ todo[1].instance = Nil /\ 1 \in DOMAIN todo
  BY <1>1 DEF EncodeInv, EncodeTypeOK, EncodeInstance
<1>3. PICK k \in Items \cup {0} : k = todo[1].parent
  BY <1>2 DEF EncodeInv, Nesting
<1>4. PICK m \in Nat, n \in Nat, s \in Nat : Progress(k, m, n, s)
  BY <1>2 DEF Shape
<1>5. PICK left \in Nat, more \in {Open(k)} : left = Left(k, n) /\ more = Open(k)
  BY <1>4 DEF Progress
<1>6. /\ \A i \in 1 .. left : todo[s + i] = [instance |-> Wanted(k)[n + more + i], parent |-> k]
      /\ \A i \in DOMAIN todo : todo[i].parent = k => s < i /\ i <= s + left
  BY <1>4, <1>5 DEF Progress
<1>7. s = 0 /\ left >= 1 /\ 1 \in 1 .. left
  BY <1>2, <1>3, <1>6
<1>8. Wanted(k)[n + more + 1] = Nil
  <2>1. todo[0 + 1] = [instance |-> Wanted(k)[n + more + 1], parent |-> k]
    BY <1>6, <1>7
  <2>2. QED
    BY <1>2, <2>1
<1>9. /\ Wanted(k) \in Seq(Instances \cup {Nil}) /\ more \in {0, 1}
      /\ left = Len(Wanted(k)) - n - more
  BY <1>2, <1>5, WantedType DEF Left
<1>10. n + more + 1 \in DOMAIN Wanted(k)
  BY <1>7, <1>9
<1>11. k # 0 => written[k] \in Instances
  BY <1>2 DEF EncodeTypeOK, Items
<1>12. NilInTree
  BY <1>8, <1>10, <1>11 DEF NilInTree, Wanted
<1>13. QED
  BY <1>1, <1>12 DEF NilInTree

-------------------------------------------------------------------------------

LEMMA TreeInit == EncodeInit => TreeInv
<1> SUFFICES ASSUME EncodeInit PROVE TreeInv
  OBVIOUS
<1>1. Items = {} /\ DOMAIN tags = {}
  BY DEF EncodeInit, Items
<1>2. \A r \in Refs : refs[r] = Nil
  BY DEF EncodeInit, EmptyTable
<1>3. MarksAgree /\ EmptyNeverMarked
  BY <1>2, RefsAssumption DEF MarksAgree, EmptyNeverMarked
<1>4. step = "start" /\ item = NoItem /\ properties = root.properties
  BY DEF EncodeInit
<1>5. QED
  BY <1>1, <1>3, <1>4
     DEF TreeInv, AllGone, Shape, PropertiesTold, ItemsTold, MetaTold, StringsTold

LEMMA TreeStep ==
  ASSUME EncodeInv, EncodeInv', TreeInv, [EncodeNext]_encodeVars
  PROVE  TreeInv'
<1>1. CASE UNCHANGED encodeVars
  <2>1. UNCHANGED <<refs, reference, properties, root, step, todo, item, sharedStrings, tags, top,
                    written>>
    BY <1>1 DEF encodeVars
  <2>2. Items' = Items /\ MetaKeys' = MetaKeys
    BY <2>1 DEF Items, MetaKeys
  <2>3. MarksAgree' /\ EmptyNeverMarked' /\ (step' = "panic" => NilInTree') /\ AllGone'
    BY <2>1 DEF TreeInv, MarksAgree, EmptyNeverMarked, NilInTree, AllGone
  <2>4. Shape'
    <3>1. step # "start" => Shape'
      BY <2>1, ShapeSame DEF TreeInv
    <3>2. QED
      BY <2>1, <3>1 DEF Shape
  <2>5. PropertiesTold'
    <3>1. \A n \in Items : PropertiesOf(n)' = PropertiesOf(n) /\ written'[n] = written[n]
      BY <2>1 DEF PropertiesOf
    <3>2. PICK inst, list, left :
            inst = item.instance /\ list = item.properties /\ left = item.names
      OBVIOUS
    <3>3. item # NoItem => AreTold(inst, list, left)
      BY <3>2 DEF TreeInv, PropertiesTold
    <3>4. item # NoItem => AreTold(inst, list, left)'
      BY <2>1, <3>3, ToldStays
    <3>5. inst = item'.instance /\ list = item'.properties /\ left = item'.names
      BY <2>1, <3>2
    <3>6. item' # NoItem => AreTold(item.instance, item.properties, item.names)'
      BY <2>1, <3>4, <3>5 DEF AreTold, Told, NotTold, Says
    <3>7. \A n \in Items : AreTold(written[n], PropertiesOf(n), {})'
      BY <2>1, <3>1, ToldCarried DEF TreeInv
    <3>8. QED
      BY <2>2, <3>6, <3>7 DEF PropertiesTold
  <2>6. ItemsTold' /\ MetaTold' /\ StringsTold'
    BY <2>1, <2>2 DEF TreeInv, ItemsTold, MetaTold, StringsTold
  <2>7. QED
    BY <2>1, <2>3, <2>4, <2>5, <2>6 DEF TreeInv
<1>2. CASE EncodeNext
  <2>1. properties' = properties /\ root' = root
    <3>1. EncodeInstance => properties' = properties /\ root' = root
      BY DEF EncodeInstance, Crash
    <3>2. QED
      BY <1>2, <3>1 DEF EncodeNext, EncodeRoot, EncodeReference, EncodeValue, AppendItem, EncodeStrings
  <2>2. MarksAgree' /\ EmptyNeverMarked'
    BY <1>2, NamesStep DEF TreeInv
  <2>3. step' = "panic" => NilInTree'
    BY <1>2, PanicStep DEF TreeInv
  <2>4. AllGone'
    <3>1. step' = "done" => EncodeStrings
      <4>1. EncodeInstance => step' # "done"
        BY DEF EncodeInstance, Crash
      <4>2. QED
        BY <1>2, <4>1
           DEF EncodeNext, EncodeRoot, EncodeReference, EncodeValue, IsNext, AppendItem
    <3>2. QED
      BY <3>1 DEF AllGone, EncodeStrings
  <2>5. Shape'
    BY <1>2, ShapeStep DEF TreeInv
  <2>6. PropertiesTold' /\ ItemsTold' /\ MetaTold' /\ StringsTold'
    BY <1>2, ToldStep, ItemsStep, MetaStep, StringsTellStep DEF TreeInv
  <2>7. QED
    BY <2>1, <2>2, <2>3, <2>4, <2>5, <2>6 DEF TreeInv
<1>3. QED
  BY <1>1, <1>2

(* The Items under one are the instances under the one it was written for, *)
(* in their order, and behind tags that are no Items.                      *)
LEMMA AllListed ==
  ASSUME EncodeInv, TreeInv, step = "done", NEW k \in Items \cup {0}
  PROVE  /\ Wanted(k) \in Seq(Instances \cup {Nil})
         /\ \E m \in Nat :
              /\ m + Len(Wanted(k)) <= Len(Listed(k))
              /\ \A j \in DOMAIN Listed(k) :
                   Listed(k)[j] \in Items <=> m < j /\ j <= m + Len(Wanted(k))
              /\ \A j \in 1 .. Len(Wanted(k)) : written[Listed(k)[m + j]] = Wanted(k)[j]
<1>1. EncodeTypeOK /\ item = NoItem /\ todo = <<>>
  BY DEF EncodeInv, TreeInv, AllGone
<1>2. Wanted(k) \in Seq(Instances \cup {Nil}) /\ Open(k) = 0
  BY <1>1, WantedType DEF Open
<1>3. PICK m \in Nat, n \in Nat, s \in Nat : Progress(k, m, n, s)
  BY DEF TreeInv, Shape
<1>4. Left(k, n) = 0
  BY <1>1, <1>3 DEF Progress
<1>5. n = Len(Wanted(k))
  BY <1>2, <1>4 DEF Left
<1>6. QED
  BY <1>2, <1>3, <1>5 DEF Progress

LEMMA TreeInvariant == EncodeSpec => [](EncodeInv /\ TreeInv)
<1>1. EncodeInit => EncodeInv /\ TreeInv
  BY InitInv, TreeInit
<1>2. EncodeInv /\ TreeInv /\ [EncodeNext]_encodeVars => (EncodeInv /\ TreeInv)'
  BY EncodeStep, TreeStep
<1>3. QED
  BY <1>1, <1>2, PTL DEF EncodeSpec

(* At every moment the tags written, the item that is being written and    *)
(* the calls still to be made are, put together, the tree: its instances   *)
(* under their parents in their order, with the tags of their properties   *)
(* and the metadata, for every tree; and Encode only panics at a nil       *)
(* instance (rbxlx/codec.go:1151-1245, TreeInv).                           *)
THEOREM TreeAlwaysTold == EncodeSpec => []TreeInv
<1>1. EncodeInv /\ TreeInv => TreeInv
  OBVIOUS
<1>2. QED
  BY <1>1, TreeInvariant, PTL

===============================================================================
