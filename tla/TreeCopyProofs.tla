---------------------------- MODULE TreeCopyProofs ----------------------------
(***************************************************************************)
(* Proofs about TreeCopy, for every heap, every table of names and every   *)
(* generator: the state stays well typed, the references of the copy lead  *)
(* where the comment of Copy says, the copy has the shape of what was      *)
(* copied and its values but for the cached faces of fonts, and good       *)
(* names are kept.                                                         *)
(***************************************************************************)
EXTENDS TreeCopy, ReferencesProofs, SequenceTheorems

(***************************************************************************)
(* The inductive invariant.  ReferencesFollowCopy speaks of the end only;  *)
(* what makes it true is that the two tables agree on every name from the  *)
(* first step on (Tables), that a name given to a pending reference keeps  *)
(* leading to its referent (Pending), and that no reference property is    *)
(* ever forgotten (Covered).                                               *)
(***************************************************************************)
Target(c, p) == properties[origin[c]][p]

HeapKept ==
  \A i \in Originals :
    /\ children[i] \in Seq(Originals)
    /\ \A p \in Properties : properties[i][p] \in Originals \cup {Nil, Unset} \cup Data

Tables ==
  /\ \A r \in Refs : refs[r] # Nil => refs[r] \in Originals /\ reference[refs[r]] = r
  /\ \A r \in EmptyRefs : refs[r] = Nil
  /\ \A r \in Refs : crefs[r] # Nil => crefs[r] \in DOMAIN origin /\ origin[crefs[r]] = refs[r]
  /\ \A c \in DOMAIN origin : refs[reference[c]] = origin[c] /\ crefs[reference[c]] # Nil

Frames ==
  \A k \in DOMAIN stack :
    stack[k].clone \in DOMAIN origin /\ origin[stack[k].clone] = stack[k].instance

PendingRef(pr) ==
  /\ pr.instance \in DOMAIN origin
  /\ \/ Target(pr.instance, pr.property) = Nil /\ pr.reference = NoRef
     \/ /\ Target(pr.instance, pr.property) \in Originals
        /\ refs[pr.reference] = Target(pr.instance, pr.property)

Pending == \A k \in DOMAIN propRefs : PendingRef(propRefs[k])

InFrame(c, p) == \E k \in DOMAIN stack : stack[k].clone = c /\ p \in stack[k].names

InPropRefs(c, p) ==
  \E k \in DOMAIN propRefs : propRefs[k].instance = c /\ propRefs[k].property = p

Covered ==
  \A c \in DOMAIN origin, p \in Properties :
    Target(c, p) \in Instances \cup {Nil} =>
      \/ InFrame(c, p)
      \/ InPropRefs(c, p)
      \/ CopyDone /\ Corresponds(properties[c][p], Target(c, p))

CopyInv == HeapKept /\ Tables /\ Frames /\ Pending /\ Covered

-------------------------------------------------------------------------------
(* The frames under the running call.                                      *)
LEMMA UnderFrames ==
  ASSUME stack \in Seq(Frame), stack # <<>>
  PROVE  /\ Len(stack) \in Nat \ {0}
         /\ Top \in Frame
         /\ Under \in Seq(Frame)
         /\ Len(Under) = Len(stack) - 1
         /\ \A k \in 1 .. Len(stack) - 1 : Under[k] = stack[k]
<1>1. Len(stack) \in Nat \ {0} /\ \A k \in 1 .. Len(stack) : stack[k] \in Frame
  OBVIOUS
<1>2. Top \in Frame
  BY <1>1 DEF Top
<1>3. /\ Under \in Seq(Frame)
      /\ Len(Under) = Len(stack) - 1
      /\ \A k \in 1 .. Len(stack) - 1 : Under[k] = stack[k]
  <2>1. /\ SubSeq(stack, 1, Len(stack) - 1) \in Seq(Frame)
        /\ Len(SubSeq(stack, 1, Len(stack) - 1)) = Len(stack) - 1
    <3> DEFINE n == Len(stack) - 1
    <3>1. n \in Int /\ 1 \in Int /\ \A k \in 1 .. n : stack[k] \in Frame
      BY <1>1
    <3>2. /\ SubSeq(stack, 1, n) \in Seq(Frame)
          /\ Len(SubSeq(stack, 1, n)) = IF 1 <= n THEN n - 1 + 1 ELSE 0
      BY ONLY <3>1, SubSeqProperties
    <3>3. n \in Nat
      BY <1>1
    <3>4. (IF 1 <= n THEN n - 1 + 1 ELSE 0) = n
      BY ONLY <3>3
    <3>5. QED
      BY <3>2, <3>4
  <2>2. ASSUME NEW k \in 1 .. Len(stack) - 1
        PROVE  SubSeq(stack, 1, Len(stack) - 1)[k] = stack[k]
    BY <1>1
  <2>3. QED
    BY <2>1, <2>2 DEF Under
<1>4. QED
  BY <1>1, <1>2, <1>3

(* Copies are numbered from 1 and are not originals.                       *)
LEMMA CloneNumber ==
  ASSUME CopyTypeOK
  PROVE  /\ DOMAIN origin = 1 .. Len(origin)
         /\ Len(origin) \in Nat
         /\ DOMAIN origin \subseteq Clones
         /\ \A c \in DOMAIN origin : origin[c] \in Originals /\ c \in Instances \ Originals
BY HeapAssumption DEF CopyTypeOK, Clones

-------------------------------------------------------------------------------
(* Type correctness, one lemma for each action that builds a new frame,    *)
(* sequence or function.                                                   *)

LEMMA InitType == CopyInit => CopyTypeOK /\ HeapKept
<1> SUFFICES ASSUME NEW in \in Inputs,
      root = [instances |-> in.roots, metadata |-> in.metadata],
      clone = [instances |-> <<>>, metadata |-> NoMetadata],
      given = in.reference,
      children = [i \in Instances |-> IF i \in Originals THEN in.children[i] ELSE <<>>],
      reference = [i \in Instances |-> IF i \in Originals THEN in.reference[i] ELSE NoRef],
      properties = [i \in Instances |-> [p \in Properties |->
                      IF i \in Originals THEN in.properties[i][p] ELSE Unset]],
      refs = EmptyTable, crefs = EmptyTable, origin = <<>>, propRefs = <<>>, stack = <<>>
    PROVE CopyTypeOK /\ HeapKept
  BY DEF CopyInit
<1>1. /\ in.roots \in Seq(Originals) /\ in.metadata \in Metadata
      /\ in.children \in [Originals -> Seq(Originals)]
      /\ in.reference \in [Originals -> Refs]
      /\ in.properties \in [Originals -> [Properties -> Originals \cup {Nil, Unset} \cup Data]]
  BY InputsAssumption
<1>2. TypeOK
  <2>1. refs \in [Refs -> Instances \cup {Nil}]
    BY DEF EmptyTable
  <2>2. reference \in [Instances -> Refs]
    BY <1>1, RefsAssumption
  <2>3. properties \in [Instances -> [Properties -> Value \cup {Unset}]]
    BY <1>1, HeapAssumption DEF Value
  <2>4. QED
    BY <2>1, <2>2, <2>3 DEF TypeOK
<1>3. children \in [Instances -> Seq(Instances)]
  BY <1>1, HeapAssumption
<1>4. crefs \in [Refs -> Clones \cup {Nil}]
  BY DEF EmptyTable
<1>5. /\ root \in [instances : Seq(Originals), metadata : Metadata]
      /\ clone \in [instances : Seq(Clones), metadata : Metadata]
      /\ given \in [Originals -> Refs]
  BY <1>1, HeapAssumption
<1>6. origin \in Seq(Originals) /\ Len(origin) <= MaxClones
      /\ propRefs \in Seq(PropRef) /\ stack \in Seq(Frame)
  BY HeapAssumption
<1>7. CopyTypeOK
  BY <1>2, <1>3, <1>4, <1>5, <1>6 DEF CopyTypeOK
<1>8. HeapKept
  BY <1>1, HeapAssumption DEF HeapKept
<1>9. QED
  BY <1>7, <1>8

LEMMA CallType ==
  ASSUME CopyTypeOK, HeapKept, NEW i \in Originals, NEW ref \in Refs, Call(i, ref)
  PROVE  CopyTypeOK' /\ HeapKept'
<1> DEFINE c == Len(origin) + 1
<1>1. c \in Clones /\ c \in Instances /\ i \in Instances
  BY HeapAssumption DEF Call
<1>2. TypeOK'
  BY <1>1 DEF Call, CopyTypeOK, TypeOK
<1>3. crefs' \in [Refs -> Clones \cup {Nil}]
  BY <1>1 DEF Call, CopyTypeOK
<1>4. origin' \in Seq(Originals) /\ Len(origin') = c /\ Len(origin') <= MaxClones
  BY <1>1, HeapAssumption DEF Call, CopyTypeOK, Clones
<1>5. [instance |-> i, clone |-> c, names |-> SetNames(i), child |-> 1] \in Frame
  BY <1>1 DEF Frame, SetNames
<1>6. stack' \in Seq(Frame)
  BY <1>5 DEF Call, CopyTypeOK
<1>7. CopyTypeOK'
  BY <1>2, <1>3, <1>4, <1>6 DEF Call, CopyTypeOK
<1>8. HeapKept'
  BY DEF Call, HeapKept
<1>9. QED
  BY <1>7, <1>8

LEMMA CopyReferenceType ==
  ASSUME CopyTypeOK, HeapKept, CopyReference
  PROVE  CopyTypeOK' /\ HeapKept'
<1>1. PICK p \in Top.names, ref \in Refs :
        /\ \/ properties[Top.instance][p] = Nil /\ ref = NoRef /\ UNCHANGED <<refs, reference>>
           \/ properties[Top.instance][p] \in Instances /\ Get(properties[Top.instance][p], ref)
        /\ propRefs' = Append(propRefs, [instance |-> Top.clone, property |-> p, reference |-> ref])
        /\ stack' = Append(Under, [Top EXCEPT !.names = @ \ {p}])
  BY DEF CopyReference
<1>2. stack # <<>> /\ Top \in Frame /\ Under \in Seq(Frame)
  BY UnderFrames DEF CopyReference, CopyTypeOK
<1>3. TypeOK'
  <2>1. CASE UNCHANGED <<refs, reference>>
    BY <2>1 DEF CopyReference, CopyTypeOK, TypeOK
  <2>2. CASE properties[Top.instance][p] \in Instances /\ Get(properties[Top.instance][p], ref)
    BY <2>2 DEF Get, CopyReference, CopyTypeOK, TypeOK
  <2>3. QED
    BY <1>1, <2>1, <2>2
<1>4. propRefs' \in Seq(PropRef)
  BY <1>1, <1>2 DEF CopyTypeOK, PropRef, Frame
<1>5. [Top EXCEPT !.names = @ \ {p}] \in Frame
  BY <1>2 DEF Frame
<1>6. stack' \in Seq(Frame)
  BY <1>1, <1>2, <1>5
<1>7. CopyTypeOK'
  BY <1>3, <1>4, <1>6 DEF CopyTypeOK, CopyReference
<1>8. HeapKept'
  BY DEF CopyReference, HeapKept
<1>9. QED
  BY <1>7, <1>8

(* A copied value stays a value that is not a reference, the same one but  *)
(* for the cached face of a font.                                          *)
LEMMA CopiedValue ==
  ASSUME NEW value \in Data, NEW copy \in ValueCopies(value)
  PROVE  copy \in Data /\ SameValue(copy, value)
<1>1. CASE value \in Fonts
  <2>1. copy \in Fonts /\ Font[copy] = [Font[value] EXCEPT !.cachedFaceId = Font[value].family]
    BY <1>1 DEF ValueCopies
  <2>2. Font[value] \in [optionals : Nat, family : Contents, cachedFaceId : Contents]
    BY <1>1, FontsAssumption
  <2>3. /\ Font[copy].optionals = Font[value].optionals
        /\ Font[copy].family = Font[value].family
        /\ Font[copy].cachedFaceId = Font[value].family
    BY <2>1, <2>2
  <2>4. QED
    BY <1>1, <2>1, <2>3, FontsAssumption DEF SameValue
<1>2. CASE value \notin Fonts
  BY <1>2 DEF ValueCopies, SameValue
<1>3. QED
  BY <1>1, <1>2

LEMMA CopyValueType ==
  ASSUME CopyTypeOK, HeapKept, CopyValue
  PROVE  CopyTypeOK' /\ HeapKept'
<1>1. PICK p, v :
        /\ p \in Top.names /\ v \in ValueCopies(properties[Top.instance][p])
        /\ properties[Top.instance][p] \in Data
        /\ properties' = [properties EXCEPT ![Top.clone][p] = v]
        /\ stack' = Append(Under, [Top EXCEPT !.names = @ \ {p}])
  BY DEF CopyValue
<1>2. stack # <<>> /\ Top \in Frame /\ Under \in Seq(Frame)
  BY UnderFrames DEF CopyValue, CopyTypeOK
<1>3. TypeOK'
  <2>1. Top.clone \in Instances /\ p \in Properties
    BY <1>1, <1>2, HeapAssumption DEF Frame
  <2>2. v \in Data
    BY <1>1, CopiedValue
  <2>3. QED
    BY <1>1, <2>1, <2>2 DEF CopyValue, CopyTypeOK, TypeOK, Value
<1>4. [Top EXCEPT !.names = @ \ {p}] \in Frame
  BY <1>2 DEF Frame
<1>5. stack' \in Seq(Frame)
  BY <1>1, <1>2, <1>4
<1>6. CopyTypeOK'
  BY <1>3, <1>5 DEF CopyTypeOK, CopyValue
<1>7. HeapKept'
  <2>1. Top.clone \notin Originals
    BY <1>2, HeapAssumption DEF Frame
  <2>2. \A i \in Originals : properties'[i] = properties[i]
    BY <1>1, <2>1, HeapAssumption DEF CopyTypeOK, TypeOK
  <2>3. QED
    BY <2>2 DEF HeapKept, CopyValue
<1>8. QED
  BY <1>6, <1>7

LEMMA ReturnType ==
  ASSUME CopyTypeOK, HeapKept, Return
  PROVE  CopyTypeOK' /\ HeapKept'
<1>1. /\ stack # <<>> /\ Top \in Frame /\ Under \in Seq(Frame)
      /\ Store(Top.clone, Under)
  BY UnderFrames DEF Return, CopyTypeOK
<1>2. Top.clone \in Clones
  BY <1>1 DEF Frame
<1>3. CASE Under = <<>>
  <2>1. clone' \in [instances : Seq(Clones), metadata : Metadata]
    <3>1. Append(clone.instances, Top.clone) \in Seq(Clones)
      BY <1>2 DEF CopyTypeOK
    <3>2. clone' = [clone EXCEPT !.instances = Append(clone.instances, Top.clone)]
      BY <1>1, <1>3 DEF Store
    <3>3. QED
      BY <3>1, <3>2 DEF CopyTypeOK
  <2>2. stack' \in Seq(Frame) /\ children' = children
    BY <1>1, <1>3 DEF Store
  <2>3. CopyTypeOK'
    BY <2>1, <2>2 DEF Return, CopyTypeOK, TypeOK
  <2>4. QED
    BY <2>2, <2>3 DEF HeapKept, Return
<1>4. CASE Under # <<>>
  <2> DEFINE caller == Under[Len(Under)]
  <2>1. Len(Under) \in 1 .. Len(Under) /\ caller \in Frame
    BY <1>1, <1>4
  <2>2. children' = [children EXCEPT ![caller.clone] = Append(@, Top.clone)]
    BY <1>1, <1>4 DEF Store
  <2>3. caller.clone \in Clones /\ caller.clone \in Instances /\ Top.clone \in Instances
    BY <1>2, <2>1, HeapAssumption DEF Frame
  <2>4. children' \in [Instances -> Seq(Instances)]
    BY <2>2, <2>3 DEF CopyTypeOK
  <2>5. stack' = [Under EXCEPT ![Len(Under)] = [caller EXCEPT !.child = @ + 1]]
    BY <1>1, <1>4 DEF Store
  <2>6. [caller EXCEPT !.child = @ + 1] \in Frame
    BY <2>1 DEF Frame
  <2>7. stack' \in Seq(Frame)
    BY <1>1, <2>1, <2>5, <2>6
  <2>8. CopyTypeOK'
    BY <1>1, <1>4, <2>4, <2>7 DEF Store, Return, CopyTypeOK, TypeOK
  <2>9. \A i \in Originals : children'[i] = children[i]
    BY <2>2, <2>3, HeapAssumption DEF CopyTypeOK
  <2>10. HeapKept'
    BY <2>9 DEF HeapKept, Return
  <2>11. QED
    BY <2>8, <2>10
<1>5. QED
  BY <1>3, <1>4

LEMMA ResolveNextType ==
  ASSUME CopyTypeOK, HeapKept, ResolveNext
  PROVE  CopyTypeOK' /\ HeapKept'
<1> DEFINE pr == Head(propRefs)
           m == IF ResolveOK(crefs, pr.reference) THEN crefs ELSE refs
<1>1. propRefs # <<>> /\ pr \in PropRef /\ Tail(propRefs) \in Seq(PropRef)
  BY DEF ResolveNext, CopyTypeOK
<1>2. /\ pr.instance \in Clones /\ pr.instance \in Instances /\ pr.instance \notin Originals
      /\ pr.property \in Properties /\ pr.reference \in Refs
  BY <1>1, HeapAssumption DEF PropRef
<1>3. m[pr.reference] \in Instances \cup {Nil}
  BY <1>2, HeapAssumption DEF CopyTypeOK, TypeOK
<1>4. properties' = [properties EXCEPT ![pr.instance][pr.property] = m[pr.reference]]
  BY DEF ResolveNext, Resolution, Resolved
<1>5. TypeOK'
  <2>1. PICK i \in Instances, p \in Properties, v \in Instances \cup {Nil} :
          properties' = [properties EXCEPT ![i][p] = v]
    BY <1>2, <1>3, <1>4
  <2>2. properties' \in [Instances -> [Properties -> Value \cup {Unset}]]
    BY <2>1 DEF CopyTypeOK, TypeOK, Value
  <2>3. QED
    BY <2>2 DEF ResolveNext, CopyTypeOK, TypeOK
<1>6. CopyTypeOK'
  BY <1>1, <1>5 DEF ResolveNext, CopyTypeOK
<1>7. \A i \in Originals : properties'[i] = properties[i]
  BY <1>2, <1>4, HeapAssumption DEF CopyTypeOK, TypeOK
<1>8. HeapKept'
  BY <1>7 DEF HeapKept, ResolveNext
<1>9. QED
  BY <1>6, <1>8

(* The instances copy is called with exist: they come from the roots or    *)
(* from the Children of an instance that is being copied.                  *)
LEMMA CalledInstances ==
  ASSUME CopyTypeOK, HeapKept
  PROVE  /\ CopyRoot => root.instances[Len(clone.instances) + 1] \in Originals
         /\ CopyChild => children[Top.instance][Top.child] \in Originals
<1>1. ASSUME CopyRoot PROVE root.instances[Len(clone.instances) + 1] \in Originals
  BY <1>1 DEF CopyRoot, CopyTypeOK
<1>2. ASSUME CopyChild PROVE children[Top.instance][Top.child] \in Originals
  <2>1. Top \in Frame
    BY <1>2, UnderFrames DEF CopyChild, CopyTypeOK
  <2>2. children[Top.instance] \in Seq(Originals) /\ Top.child \in Nat
    BY <2>1 DEF HeapKept, Frame
  <2>3. Top.child # 0
    BY <2>1 DEF Frame
  <2>4. QED
    BY <1>2, <2>2, <2>3 DEF CopyChild
<1>3. QED
  BY <1>1, <1>2

(* Every step of a copy keeps the state well typed and the instances it    *)
(* copies from as they were, but for their names.                          *)
LEMMA StepType == CopyTypeOK /\ HeapKept /\ [CopyNext]_copyVars => CopyTypeOK' /\ HeapKept'
<1> SUFFICES ASSUME CopyTypeOK, HeapKept, [CopyNext]_copyVars
             PROVE  CopyTypeOK' /\ HeapKept'
  OBVIOUS
<1>1. CASE CopyRoot
  BY <1>1, CalledInstances, CallType DEF CopyRoot
<1>2. CASE CopyChild
  BY <1>2, CalledInstances, CallType DEF CopyChild
<1>3. CASE UNCHANGED copyVars
  BY <1>3 DEF copyVars, CopyTypeOK, TypeOK, HeapKept
<1>4. QED
  BY <1>1, <1>2, <1>3, CopyReferenceType, CopyValueType, ReturnType, ResolveNextType
     DEF CopyNext, Returned

(* The type invariant of the copy, for every heap and every generator.     *)
THEOREM CopyTypeCorrect == CopySpec => []CopyTypeOK
<1>1. CopySpec => [](CopyTypeOK /\ HeapKept)
  BY InitType, StepType, PTL DEF CopySpec
<1>2. QED
  BY <1>1, PTL

-------------------------------------------------------------------------------
(* The two tables.                                                         *)

(* Get and Call move no mark: a name in the table keeps its owner, and the *)
(* owner keeps the name.                                                   *)
LEMMA MarkedStays ==
  ASSUME CopyTypeOK, Tables, NEW i \in Originals, NEW ref \in Refs,
         ref \in GetReference(refs, i, reference[i])
  PROVE  /\ ref \notin EmptyRefs
         /\ refs[ref] \in {Nil, i}
         /\ \A r \in Refs : refs[r] = i => r = ref
<1>1. i \in Instances /\ TypeOK
  BY HeapAssumption DEF CopyTypeOK
<1>2. ref \notin EmptyRefs /\ refs[ref] \in {Nil, i}
  BY <1>1, GetReferenceFree
<1>3. ASSUME NEW r \in Refs, refs[r] = i PROVE r = ref
  <2>1. reference[i] = r /\ r \notin EmptyRefs
    BY <1>1, <1>3, NilAssumption, RefsAssumption DEF Tables
  <2>2. QED
    BY <1>3, <2>1 DEF GetReference, MustRename, IsEmptyReference
<1>4. QED
  BY <1>2, <1>3

LEMMA CallTables ==
  ASSUME CopyTypeOK, Tables, NEW i \in Originals, NEW ref \in Refs, Call(i, ref)
  PROVE  /\ Tables'
         /\ \A r \in Refs : refs[r] # Nil => refs'[r] = refs[r]
<1> DEFINE c == Len(origin) + 1
<1>1. /\ ref \notin EmptyRefs /\ refs[ref] \in {Nil, i}
      /\ \A r \in Refs : refs[r] = i => r = ref
  BY MarkedStays DEF Call
<1>2. /\ reference' = [reference EXCEPT ![i] = ref, ![c] = ref]
      /\ refs' = [refs EXCEPT ![ref] = i]
      /\ crefs' = [crefs EXCEPT ![ref] = c]
      /\ origin' = Append(origin, i)
      /\ c \in Clones
  BY DEF Call
<1>3. /\ refs \in [Refs -> Instances \cup {Nil}] /\ crefs \in [Refs -> Clones \cup {Nil}]
      /\ reference \in [Instances -> Refs]
  BY DEF CopyTypeOK, TypeOK
<1>4. i \in Instances /\ c \in Instances /\ c \notin Originals /\ i # Nil /\ c # Nil
  BY <1>2, HeapAssumption, NilAssumption
<1>5. /\ \A k \in DOMAIN origin : origin'[k] = origin[k] /\ k # c /\ k \in Instances
      /\ DOMAIN origin' = DOMAIN origin \cup {c}
      /\ origin'[c] = i
      /\ \A k \in DOMAIN origin : origin[k] \in Originals /\ k \notin Originals
  BY <1>2, CloneNumber DEF CopyTypeOK
<1>6. /\ \A x \in Instances : x # i /\ x # c => reference'[x] = reference[x]
      /\ reference'[i] = ref /\ reference'[c] = ref
  BY <1>2, <1>3, <1>4
<1>7. /\ refs'[ref] = i /\ crefs'[ref] = c
      /\ \A r \in Refs : r # ref => refs'[r] = refs[r] /\ crefs'[r] = crefs[r]
  BY <1>2, <1>3
<1>8. \A r \in Refs : refs[r] # Nil => refs'[r] = refs[r]
  BY <1>1, <1>7
<1>9. \A r \in Refs : refs'[r] # Nil => refs'[r] \in Originals /\ reference'[refs'[r]] = r
  <2> SUFFICES ASSUME NEW r \in Refs, refs'[r] # Nil
               PROVE  refs'[r] \in Originals /\ reference'[refs'[r]] = r
    OBVIOUS
  <2>1. CASE r = ref
    BY <2>1, <1>6, <1>7
  <2>2. CASE r # ref
    <3>1. refs[r] # i /\ refs'[r] = refs[r]
      BY <2>2, <1>1, <1>7
    <3>2. refs[r] \in Originals /\ reference[refs[r]] = r
      BY <3>1 DEF Tables
    <3>3. refs[r] # c /\ refs[r] \in Instances
      BY <3>2, <1>4, HeapAssumption
    <3>4. QED
      BY <3>1, <3>2, <3>3, <1>6
  <2>3. QED
    BY <2>1, <2>2
<1>10. \A r \in EmptyRefs : refs'[r] = Nil
  BY <1>1, <1>7, RefsAssumption DEF Tables
<1>11. \A r \in Refs : crefs'[r] # Nil => crefs'[r] \in DOMAIN origin' /\ origin'[crefs'[r]] = refs'[r]
  <2> SUFFICES ASSUME NEW r \in Refs, crefs'[r] # Nil
               PROVE  crefs'[r] \in DOMAIN origin' /\ origin'[crefs'[r]] = refs'[r]
    OBVIOUS
  <2>1. CASE r = ref
    BY <2>1, <1>5, <1>7
  <2>2. CASE r # ref
    BY <2>2, <1>5, <1>7 DEF Tables
  <2>3. QED
    BY <2>1, <2>2
<1>12. \A k \in DOMAIN origin' : refs'[reference'[k]] = origin'[k] /\ crefs'[reference'[k]] # Nil
  <2> SUFFICES ASSUME NEW k \in DOMAIN origin'
               PROVE  refs'[reference'[k]] = origin'[k] /\ crefs'[reference'[k]] # Nil
    OBVIOUS
  <2>1. CASE k = c
    BY <2>1, <1>4, <1>5, <1>6, <1>7
  <2>2. CASE k # c
    <3>1. k \in DOMAIN origin /\ k # i /\ reference'[k] = reference[k]
      BY <2>2, <1>5, <1>6
    <3>2. reference[k] \in Refs
      BY <3>1, <1>3, <1>5
    <3>3. refs[reference[k]] = origin[k] /\ crefs[reference[k]] # Nil
      BY <3>1 DEF Tables
    <3>4. refs'[reference[k]] = origin[k]
      BY <3>1, <3>2, <3>3, <1>5, <1>8, HeapAssumption, NilAssumption
    <3>5. crefs'[reference[k]] # Nil
      BY <3>2, <3>3, <1>4, <1>7
    <3>6. QED
      BY <3>1, <3>4, <3>5, <1>5
  <2>3. QED
    BY <2>1, <2>2
<1>13. QED
  BY <1>8, <1>9, <1>10, <1>11, <1>12 DEF Tables

LEMMA GetTables ==
  ASSUME CopyTypeOK, Tables, NEW i \in Originals, NEW ref \in Refs,
         Get(i, ref), UNCHANGED <<crefs, origin>>
  PROVE  /\ Tables'
         /\ \A r \in Refs : refs[r] # Nil => refs'[r] = refs[r]
<1>1. /\ ref \notin EmptyRefs /\ refs[ref] \in {Nil, i}
      /\ \A r \in Refs : refs[r] = i => r = ref
  BY MarkedStays DEF Get
<1>2. /\ reference' = [reference EXCEPT ![i] = ref]
      /\ refs' = [refs EXCEPT ![ref] = i]
  BY DEF Get
<1>3. /\ refs \in [Refs -> Instances \cup {Nil}] /\ crefs \in [Refs -> Clones \cup {Nil}]
      /\ reference \in [Instances -> Refs]
  BY DEF CopyTypeOK, TypeOK
<1>4. i \in Instances /\ i # Nil
  BY HeapAssumption, NilAssumption
<1>5. \A k \in DOMAIN origin : origin[k] \in Originals /\ k \in Instances /\ k # i
  BY CloneNumber
<1>6. reference'[i] = ref /\ \A x \in Instances : x # i => reference'[x] = reference[x]
  BY <1>2, <1>3, <1>4
<1>7. refs'[ref] = i /\ \A r \in Refs : r # ref => refs'[r] = refs[r]
  BY <1>2, <1>3
<1>8. \A r \in Refs : refs[r] # Nil => refs'[r] = refs[r]
  BY <1>1, <1>7
<1>9. \A r \in Refs : refs'[r] # Nil => refs'[r] \in Originals /\ reference'[refs'[r]] = r
  <2> SUFFICES ASSUME NEW r \in Refs, refs'[r] # Nil
               PROVE  refs'[r] \in Originals /\ reference'[refs'[r]] = r
    OBVIOUS
  <2>1. CASE r = ref
    BY <2>1, <1>6, <1>7
  <2>2. CASE r # ref
    BY <2>2, <1>1, <1>6, <1>7, HeapAssumption DEF Tables
  <2>3. QED
    BY <2>1, <2>2
<1>10. \A r \in EmptyRefs : refs'[r] = Nil
  BY <1>1, <1>7, RefsAssumption DEF Tables
<1>11. \A r \in Refs : crefs[r] # Nil => crefs[r] \in DOMAIN origin /\ origin[crefs[r]] = refs'[r]
  <2> SUFFICES ASSUME NEW r \in Refs, crefs[r] # Nil
               PROVE  crefs[r] \in DOMAIN origin /\ origin[crefs[r]] = refs'[r]
    OBVIOUS
  <2>1. crefs[r] \in DOMAIN origin /\ origin[crefs[r]] = refs[r]
    BY DEF Tables
  <2>2. refs[r] # Nil
    BY <2>1, <1>5, HeapAssumption, NilAssumption
  <2>3. QED
    BY <2>1, <2>2, <1>8
<1>12. \A k \in DOMAIN origin : refs'[reference'[k]] = origin[k] /\ crefs[reference'[k]] # Nil
  <2> SUFFICES ASSUME NEW k \in DOMAIN origin
               PROVE  refs'[reference'[k]] = origin[k] /\ crefs[reference'[k]] # Nil
    OBVIOUS
  <2>1. reference'[k] = reference[k] /\ reference[k] \in Refs
    BY <1>3, <1>5, <1>6
  <2>2. refs[reference[k]] = origin[k] /\ crefs[reference[k]] # Nil /\ origin[k] # Nil
    BY <1>5, HeapAssumption, NilAssumption DEF Tables
  <2>3. QED
    BY <2>1, <2>2, <1>8
<1>13. Tables'
  BY <1>9, <1>10, <1>11, <1>12 DEF Tables
<1>14. QED
  BY <1>8, <1>13

-------------------------------------------------------------------------------
(* The remaining parts of the invariant, action by action.                 *)

(* The parts that speak of origin and properties see the same referents    *)
(* after a step, and a pending reference still leads to its own.           *)
LEMMA TargetsKept ==
  ASSUME CopyTypeOK, HeapKept, CopyTypeOK',
         \A i \in Originals : properties'[i] = properties[i],
         \A c \in DOMAIN origin : c \in DOMAIN origin' /\ origin'[c] = origin[c]
  PROVE  \A c \in DOMAIN origin, p \in Properties : Target(c, p)' = Target(c, p)
BY CloneNumber DEF Target

LEMMA PendingRefKept ==
  ASSUME CopyTypeOK, HeapKept, CopyTypeOK',
         \A i \in Originals : properties'[i] = properties[i],
         \A c \in DOMAIN origin : c \in DOMAIN origin' /\ origin'[c] = origin[c],
         \A r \in Refs : refs[r] # Nil => refs'[r] = refs[r],
         NEW pr \in PropRef, PendingRef(pr)
  PROVE  PendingRef(pr)'
<1>1. pr.instance \in DOMAIN origin /\ pr.property \in Properties /\ pr.reference \in Refs
  BY DEF PendingRef, PropRef
<1>2. Target(pr.instance, pr.property)' = Target(pr.instance, pr.property)
  BY <1>1, TargetsKept
<1>3. pr.instance \in DOMAIN origin'
  BY <1>1
<1>4. CASE Target(pr.instance, pr.property) = Nil /\ pr.reference = NoRef
  BY <1>2, <1>3, <1>4 DEF PendingRef
<1>5. CASE /\ Target(pr.instance, pr.property) \in Originals
           /\ refs[pr.reference] = Target(pr.instance, pr.property)
  <2>1. refs'[pr.reference] = refs[pr.reference]
    BY <1>1, <1>5, HeapAssumption, NilAssumption
  <2>2. QED
    BY <1>2, <1>3, <1>5, <2>1 DEF PendingRef
<1>6. QED
  BY <1>4, <1>5 DEF PendingRef

LEMMA CallInv ==
  ASSUME CopyTypeOK, CopyInv, ~CopyDone, NEW i \in Originals, NEW ref \in Refs, Call(i, ref)
  PROVE  CopyInv'
<1> DEFINE c == Len(origin) + 1
           frame == [instance |-> i, clone |-> c, names |-> SetNames(i), child |-> 1]
<1>1. CopyTypeOK' /\ HeapKept'
  BY CallType DEF CopyInv
<1>2. Tables' /\ \A r \in Refs : refs[r] # Nil => refs'[r] = refs[r]
  BY CallTables DEF CopyInv
<1>3. /\ properties' = properties /\ propRefs' = propRefs
      /\ origin' = Append(origin, i) /\ stack' = Append(stack, frame)
  BY DEF Call
<1>4. /\ \A k \in DOMAIN origin : origin'[k] = origin[k] /\ k # c
      /\ DOMAIN origin' = DOMAIN origin \cup {c}
      /\ origin'[c] = i
  BY <1>3, CloneNumber DEF CopyTypeOK
<1>5. /\ DOMAIN stack' = DOMAIN stack \cup {Len(stack) + 1}
      /\ \A k \in DOMAIN stack : stack'[k] = stack[k]
      /\ stack'[Len(stack) + 1] = frame
  BY <1>3 DEF CopyTypeOK
<1>6. Frames'
  BY <1>4, <1>5 DEF CopyInv, Frames
<1>7. Pending'
  <2> SUFFICES ASSUME NEW k \in DOMAIN propRefs PROVE PendingRef(propRefs[k])'
    BY <1>3 DEF Pending
  <2>1. propRefs[k] \in PropRef /\ PendingRef(propRefs[k])
    BY DEF CopyTypeOK, CopyInv, Pending
  <2>2. QED
    BY <2>1, <1>1, <1>2, <1>3, <1>4, PendingRefKept DEF CopyInv
<1>8. Covered'
  <2> SUFFICES ASSUME NEW k \in DOMAIN origin', NEW p \in Properties,
                      Target(k, p)' \in Instances \cup {Nil}
               PROVE  InFrame(k, p)' \/ InPropRefs(k, p)'
    BY DEF Covered
  <2>1. CASE k = c
    <3>1. Target(k, p)' = properties[i][p]
      BY <2>1, <1>3, <1>4 DEF Target
    <3>2. p \in SetNames(i)
      BY <3>1, NilAssumption DEF SetNames
    <3>3. InFrame(k, p)'
      BY <2>1, <3>2, <1>5 DEF InFrame
    <3>4. QED
      BY <3>3
  <2>2. CASE k # c
    <3>1. k \in DOMAIN origin /\ Target(k, p)' = Target(k, p)
      BY <2>2, <1>3, <1>4 DEF Target
    <3>2. InFrame(k, p) \/ InPropRefs(k, p)
      BY <3>1 DEF CopyInv, Covered
    <3>3. InFrame(k, p) => InFrame(k, p)'
      BY <1>5 DEF InFrame
    <3>4. InPropRefs(k, p) => InPropRefs(k, p)'
      BY <1>3 DEF InPropRefs
    <3>5. QED
      BY <3>2, <3>3, <3>4
  <2>3. QED
    BY <2>1, <2>2
<1>9. QED
  BY <1>1, <1>2, <1>6, <1>7, <1>8 DEF CopyInv

(* A visited name leaves the running frame; whatever else waits, waits on. *)
LEMMA VisitFrames ==
  ASSUME CopyTypeOK, Frames, stack # <<>>, NEW p,
         stack' = Append(Under, [Top EXCEPT !.names = @ \ {p}]),
         origin' = origin
  PROVE  /\ Frames'
         /\ Top.clone \in DOMAIN origin /\ origin[Top.clone] = Top.instance
         /\ \A c, q : InFrame(c, q) => InFrame(c, q)' \/ (c = Top.clone /\ q = p)
<1> DEFINE n == Len(stack)
           visited == [Top EXCEPT !.names = @ \ {p}]
<1>1. /\ n \in Nat \ {0} /\ Top \in Frame /\ Under \in Seq(Frame)
      /\ Len(Under) = n - 1 /\ \A k \in 1 .. n - 1 : Under[k] = stack[k]
  BY UnderFrames DEF CopyTypeOK
<1>2. /\ visited.clone = Top.clone /\ visited.instance = Top.instance
      /\ visited.names = Top.names \ {p} /\ visited \in Frame
  BY <1>1 DEF Frame
<1>3. /\ DOMAIN stack = 1 .. n /\ DOMAIN stack' = 1 .. n
      /\ \A k \in 1 .. n - 1 : stack'[k] = stack[k]
      /\ stack'[n] = visited /\ stack[n] = Top
  BY <1>1, <1>2 DEF CopyTypeOK, Top
<1>4. Top.clone \in DOMAIN origin /\ origin[Top.clone] = Top.instance
  BY <1>1, <1>3 DEF Frames
<1>5. Frames'
  <2> SUFFICES ASSUME NEW k \in 1 .. n
               PROVE  /\ stack'[k].clone \in DOMAIN origin
                      /\ origin[stack'[k].clone] = stack'[k].instance
    BY <1>3 DEF Frames
  <2>1. CASE k = n
    BY <2>1, <1>2, <1>3, <1>4
  <2>2. CASE k # n
    BY <2>2, <1>1, <1>3 DEF Frames
  <2>3. QED
    BY <2>1, <2>2
<1>6. ASSUME NEW d, NEW q, InFrame(d, q)
      PROVE  InFrame(d, q)' \/ (d = Top.clone /\ q = p)
  <2>1. PICK k \in 1 .. n : stack[k].clone = d /\ q \in stack[k].names
    BY <1>3, <1>6 DEF InFrame
  <2>2. CASE k = n /\ q # p
    <3>1. stack'[n].clone = d /\ q \in stack'[n].names
      BY <2>1, <2>2, <1>2, <1>3
    <3>2. QED
      BY <3>1, <1>1, <1>3 DEF InFrame
  <2>3. CASE k # n
    BY <2>1, <2>3, <1>1, <1>3 DEF InFrame
  <2>4. QED
    BY <2>1, <2>2, <2>3, <1>3
<1>7. QED
  BY <1>4, <1>5, <1>6

LEMMA CopyReferenceInv ==
  ASSUME CopyTypeOK, CopyInv, CopyReference
  PROVE  CopyInv'
<1>1. PICK p \in Top.names, ref \in Refs :
        /\ \/ properties[Top.instance][p] = Nil /\ ref = NoRef /\ UNCHANGED <<refs, reference>>
           \/ properties[Top.instance][p] \in Instances /\ Get(properties[Top.instance][p], ref)
        /\ propRefs' = Append(propRefs, [instance |-> Top.clone, property |-> p, reference |-> ref])
        /\ stack' = Append(Under, [Top EXCEPT !.names = @ \ {p}])
  BY DEF CopyReference
<1> DEFINE pr == [instance |-> Top.clone, property |-> p, reference |-> ref]
           target == properties[Top.instance][p]
<1>2. stack # <<>> /\ UNCHANGED <<properties, crefs, origin>>
  BY DEF CopyReference
<1>3. CopyTypeOK' /\ HeapKept'
  BY CopyReferenceType DEF CopyInv
<1>4. /\ Frames'
      /\ Top.clone \in DOMAIN origin /\ origin[Top.clone] = Top.instance
      /\ \A c, q : InFrame(c, q) => InFrame(c, q)' \/ (c = Top.clone /\ q = p)
  BY <1>1, <1>2, VisitFrames DEF CopyInv
<1>5. Top \in Frame /\ p \in Properties /\ Top.instance \in Originals
  BY <1>2, UnderFrames DEF CopyTypeOK, Frame
<1>6. target \in Originals \/ target = Nil
  BY <1>1, <1>5, HeapAssumption, NilAssumption DEF CopyInv, HeapKept
<1>7. /\ Tables' /\ \A r \in Refs : refs[r] # Nil => refs'[r] = refs[r]
      /\ target # Nil => refs'[ref] = target
  <2>1. CASE target = Nil /\ UNCHANGED <<refs, reference>>
    BY <2>1, <1>2 DEF CopyInv, Tables
  <2>2. CASE target \in Instances /\ Get(target, ref)
    <3>1. target \in Originals
      BY <2>2, <1>6, NilAssumption
    <3>2. refs'[ref] = target
      BY <2>2 DEF Get, CopyTypeOK, TypeOK
    <3>3. QED
      BY <2>2, <3>1, <3>2, <1>2, GetTables DEF CopyInv
  <2>3. QED
    BY <1>1, <2>1, <2>2
<1>8. /\ DOMAIN propRefs' = DOMAIN propRefs \cup {Len(propRefs) + 1}
      /\ \A k \in DOMAIN propRefs : propRefs'[k] = propRefs[k]
      /\ propRefs'[Len(propRefs) + 1] = pr
  BY <1>1 DEF CopyTypeOK
<1>9. Pending'
  <2> SUFFICES ASSUME NEW k \in DOMAIN propRefs' PROVE PendingRef(propRefs[k])'
    BY DEF Pending
  <2>1. CASE k \in DOMAIN propRefs
    <3>1. propRefs[k] \in PropRef /\ PendingRef(propRefs[k])
      BY <2>1 DEF CopyTypeOK, CopyInv, Pending
    <3>2. PICK x \in PropRef : x = propRefs[k] /\ x = propRefs'[k]
      BY <2>1, <3>1, <1>8
    <3>3. PendingRef(x)'
      BY <3>1, <3>2, <1>2, <1>3, <1>7, PendingRefKept DEF CopyInv
    <3>4. QED
      BY <3>2, <3>3 DEF PendingRef, Target
  <2>2. CASE k = Len(propRefs) + 1
    <3>1. propRefs'[k] = pr
      BY <2>2, <1>8
    <3>2. properties'[origin'[Top.clone]][p] = target
      BY <1>2, <1>4
    <3>3. \/ target = Nil /\ ref = NoRef
          \/ target \in Originals /\ refs'[ref] = target
      BY <1>1, <1>6, <1>7, NilAssumption
    <3>4. QED
      BY <3>1, <3>2, <3>3, <1>2, <1>4 DEF PendingRef, Target
  <2>3. QED
    BY <2>1, <2>2, <1>8
<1>10. Covered'
  <2> SUFFICES ASSUME NEW c \in DOMAIN origin, NEW q \in Properties,
                      Target(c, q) \in Instances \cup {Nil}
               PROVE  InFrame(c, q)' \/ InPropRefs(c, q)'
    BY <1>2 DEF Covered, Target
  <2>1. InFrame(c, q) \/ InPropRefs(c, q)
    BY <1>2 DEF CopyInv, Covered, CopyDone
  <2>2. CASE c = Top.clone /\ q = p
    BY <2>2, <1>8 DEF InPropRefs
  <2>3. CASE InPropRefs(c, q)
    BY <2>3, <1>8 DEF InPropRefs
  <2>4. QED
    BY <2>1, <2>2, <2>3, <1>4
<1>11. QED
  BY <1>3, <1>4, <1>7, <1>9, <1>10 DEF CopyInv

LEMMA CopyValueInv ==
  ASSUME CopyTypeOK, CopyInv, CopyValue
  PROVE  CopyInv'
<1>1. PICK p, v :
        /\ p \in Top.names /\ v \in ValueCopies(properties[Top.instance][p])
        /\ properties[Top.instance][p] \in Data
        /\ properties' = [properties EXCEPT ![Top.clone][p] = v]
        /\ stack' = Append(Under, [Top EXCEPT !.names = @ \ {p}])
  BY DEF CopyValue
<1>2. stack # <<>> /\ UNCHANGED <<refs, reference, crefs, origin, propRefs>>
  BY DEF CopyValue
<1>3. CopyTypeOK' /\ HeapKept'
  BY CopyValueType DEF CopyInv
<1>4. /\ Frames'
      /\ Top.clone \in DOMAIN origin /\ origin[Top.clone] = Top.instance
      /\ \A c, q : InFrame(c, q) => InFrame(c, q)' \/ (c = Top.clone /\ q = p)
  BY <1>1, <1>2, VisitFrames DEF CopyInv
<1>5. \A i \in Originals : properties'[i] = properties[i]
  BY <1>1, <1>4, CloneNumber, HeapAssumption DEF CopyTypeOK, TypeOK
<1>6. Tables'
  BY <1>2 DEF CopyInv, Tables
<1>7. Pending'
  <2> SUFFICES ASSUME NEW k \in DOMAIN propRefs PROVE PendingRef(propRefs[k])'
    BY <1>2 DEF Pending
  <2>1. PICK x \in PropRef : x = propRefs[k] /\ x = propRefs'[k] /\ PendingRef(x)
    BY <1>2 DEF CopyTypeOK, CopyInv, Pending
  <2>2. PendingRef(x)'
    BY <2>1, <1>2, <1>3, <1>5, PendingRefKept DEF CopyInv
  <2>3. QED
    BY <2>1, <2>2 DEF PendingRef, Target
<1>8. \A c \in DOMAIN origin, q \in Properties : Target(c, q)' = Target(c, q)
  BY <1>2, <1>3, <1>5, TargetsKept DEF CopyInv
<1>9. Covered'
  <2> SUFFICES ASSUME NEW c \in DOMAIN origin, NEW q \in Properties,
                      Target(c, q) \in Instances \cup {Nil}
               PROVE  InFrame(c, q)' \/ InPropRefs(c, q)'
    BY <1>2, <1>8 DEF Covered
  <2>1. InFrame(c, q) \/ InPropRefs(c, q)
    BY <1>2 DEF CopyInv, Covered, CopyDone
  <2>2. ~(c = Top.clone /\ q = p)
    BY <1>1, <1>4, NilAssumption DEF Target
  <2>3. InPropRefs(c, q) => InPropRefs(c, q)'
    BY <1>2 DEF InPropRefs
  <2>4. QED
    BY <2>1, <2>2, <2>3, <1>4
<1>10. QED
  BY <1>3, <1>4, <1>6, <1>7, <1>9 DEF CopyInv

LEMMA ReturnInv ==
  ASSUME CopyTypeOK, CopyInv, Return
  PROVE  CopyInv'
<1> DEFINE n == Len(stack)
<1>1. UNCHANGED <<refs, reference, properties, crefs, origin, propRefs>>
  BY DEF Return
<1>2. stack # <<>> /\ Top.names = {} /\ Store(Top.clone, Under)
  BY DEF Return
<1>3. CopyTypeOK' /\ HeapKept'
  BY ReturnType DEF CopyInv
<1>4. /\ n \in Nat \ {0} /\ Top = stack[n] /\ Under \in Seq(Frame)
      /\ Len(Under) = n - 1 /\ \A k \in 1 .. n - 1 : Under[k] = stack[k]
      /\ DOMAIN stack = 1 .. n
  BY <1>2, UnderFrames DEF CopyTypeOK, Top
<1>5. /\ DOMAIN stack' = 1 .. n - 1
      /\ \A k \in 1 .. n - 1 : /\ stack'[k].clone = stack[k].clone
                               /\ stack'[k].instance = stack[k].instance
                               /\ stack'[k].names = stack[k].names
  <2>1. CASE Under = <<>>
    BY <2>1, <1>2, <1>4 DEF Store
  <2>2. CASE Under # <<>>
    <3>1. stack' = [Under EXCEPT ![Len(Under)].child = @ + 1]
      BY <2>2, <1>2 DEF Store
    <3>2. \A k \in 1 .. n - 1 : Under[k] \in Frame
      BY <1>4
    <3>3. QED
      BY <3>1, <3>2, <1>4 DEF Frame
  <2>3. QED
    BY <2>1, <2>2
<1>6. Frames'
  BY <1>1, <1>4, <1>5 DEF CopyInv, Frames
<1>7. Tables' /\ Pending'
  BY <1>1 DEF CopyInv, Tables, Pending, PendingRef, Target
<1>8. Covered'
  <2> SUFFICES ASSUME NEW c \in DOMAIN origin, NEW q \in Properties,
                      Target(c, q) \in Instances \cup {Nil}
               PROVE  InFrame(c, q)' \/ InPropRefs(c, q)'
    BY <1>1 DEF Covered, Target
  <2>1. InFrame(c, q) \/ InPropRefs(c, q)
    BY <1>2 DEF CopyInv, Covered, CopyDone
  <2>2. ASSUME InFrame(c, q) PROVE InFrame(c, q)'
    <3>1. PICK k \in 1 .. n : stack[k].clone = c /\ q \in stack[k].names
      BY <2>2, <1>4 DEF InFrame
    <3>2. k \in 1 .. n - 1
      BY <3>1, <1>2, <1>4
    <3>3. QED
      BY <3>1, <3>2, <1>5 DEF InFrame
  <2>3. InPropRefs(c, q) => InPropRefs(c, q)'
    BY <1>1 DEF InPropRefs
  <2>4. QED
    BY <2>1, <2>2, <2>3
<1>9. QED
  BY <1>3, <1>6, <1>7, <1>8 DEF CopyInv

(* The value a pending reference is resolved to.  A name that is in both   *)
(* tables leads to a copy of the referent; a name that is only in the      *)
(* first belongs to an instance of which there is no copy.                 *)
ResolvedValue(pr) ==
  IF ResolveOK(crefs, pr.reference) THEN crefs[pr.reference] ELSE refs[pr.reference]

LEMMA ResolutionCorresponds ==
  ASSUME CopyTypeOK, Tables, NEW pr \in PropRef, PendingRef(pr)
  PROVE  Corresponds(ResolvedValue(pr), Target(pr.instance, pr.property))
<1> DEFINE r == pr.reference
           t == Target(pr.instance, pr.property)
<1>1. r \in Refs /\ \A x \in Copied : x \in Originals
  BY CloneNumber DEF PropRef, Copied
<1>2. CASE t = Nil /\ r = NoRef
  <2>1. r \in EmptyRefs /\ refs[r] = Nil
    BY <1>2, RefsAssumption DEF Tables
  <2>2. ResolvedValue(pr) = Nil
    BY <2>1 DEF ResolvedValue, ResolveOK, IsEmptyReference
  <2>3. Nil \notin Copied
    BY <1>1, HeapAssumption, NilAssumption
  <2>4. QED
    BY <1>2, <2>2, <2>3 DEF Corresponds
<1>3. CASE t \in Originals /\ refs[r] = t
  <2>1. t # Nil /\ r \notin EmptyRefs /\ reference[t] = r
    BY <1>1, <1>3, HeapAssumption, NilAssumption DEF Tables
  <2>2. CASE crefs[r] # Nil
    <3>1. ResolvedValue(pr) = crefs[r]
      BY <2>1, <2>2 DEF ResolvedValue, ResolveOK, IsEmptyReference
    <3>2. crefs[r] \in DOMAIN origin /\ origin[crefs[r]] = t
      BY <1>1, <1>3, <2>2 DEF Tables
    <3>3. QED
      BY <3>1, <3>2 DEF Corresponds, Copied
  <2>3. CASE crefs[r] = Nil
    <3>1. ResolvedValue(pr) = t
      BY <1>3, <2>3 DEF ResolvedValue, ResolveOK
    <3>2. ASSUME NEW c \in DOMAIN origin, origin[c] = t PROVE FALSE
      <4>1. refs[reference[c]] = t /\ crefs[reference[c]] # Nil
        BY <3>2 DEF Tables
      <4>2. reference[c] \in Refs
        BY CloneNumber DEF CopyTypeOK, TypeOK
      <4>3. reference[t] = reference[c]
        BY <2>1, <4>1, <4>2 DEF Tables
      <4>4. QED
        BY <2>1, <2>3, <4>1, <4>3
    <3>3. t \notin Copied
      BY <3>2 DEF Copied
    <3>4. QED
      BY <3>1, <3>3 DEF Corresponds
  <2>4. QED
    BY <2>2, <2>3
<1>4. QED
  BY <1>2, <1>3 DEF PendingRef

LEMMA ResolveNextInv ==
  ASSUME CopyTypeOK, CopyInv, ResolveNext
  PROVE  CopyInv'
<1> DEFINE n == Len(propRefs)
<1>1. /\ UNCHANGED <<refs, reference, crefs, origin, stack, clone, root>>
      /\ CopyDone /\ propRefs # <<>> /\ propRefs' = Tail(propRefs)
  BY DEF ResolveNext
<1>2. CopyTypeOK' /\ HeapKept'
  BY ResolveNextType DEF CopyInv
<1>3. /\ n \in Nat \ {0} /\ DOMAIN propRefs = 1 .. n /\ DOMAIN propRefs' = 1 .. n - 1
      /\ \A k \in 1 .. n - 1 : propRefs'[k] = propRefs[k + 1]
  BY <1>1 DEF CopyTypeOK
<1>4. PICK pr \in PropRef : pr = propRefs[1] /\ pr = Head(propRefs) /\ PendingRef(pr)
  <2>1. 1 \in DOMAIN propRefs /\ propRefs[1] = Head(propRefs) /\ propRefs[1] \in PropRef
    BY <1>1, <1>3 DEF CopyTypeOK
  <2>2. PendingRef(propRefs[1])
    BY <2>1 DEF CopyInv, Pending
  <2>3. QED
    BY <2>1, <2>2
<1>5. /\ pr.instance \in DOMAIN origin /\ pr.instance \in Instances \ Originals
      /\ pr.property \in Properties
  BY <1>4, CloneNumber DEF PendingRef, PropRef
<1>6. properties' = [properties EXCEPT ![pr.instance][pr.property] = ResolvedValue(pr)]
  BY <1>4 DEF ResolveNext, Resolution, Resolved, ResolvedValue
<1>7. \A i \in Originals : properties'[i] = properties[i]
  BY <1>5, <1>6, HeapAssumption DEF CopyTypeOK, TypeOK
<1>8. \A c \in DOMAIN origin, q \in Properties : Target(c, q)' = Target(c, q)
  BY <1>1, <1>2, <1>7, TargetsKept DEF CopyInv
<1>9. Tables' /\ Frames'
  BY <1>1 DEF CopyInv, Tables, Frames
<1>10. Pending'
  <2> SUFFICES ASSUME NEW k \in 1 .. n - 1 PROVE PendingRef(propRefs[k])'
    BY <1>3 DEF Pending
  <2>1. k + 1 \in 1 .. n
    BY <1>3
  <2>2. PICK x \in PropRef : x = propRefs[k + 1] /\ x = propRefs'[k] /\ PendingRef(x)
    BY <2>1, <1>3 DEF CopyTypeOK, CopyInv, Pending
  <2>3. PendingRef(x)'
    BY <2>2, <1>1, <1>2, <1>7, PendingRefKept DEF CopyInv
  <2>4. QED
    BY <2>2, <2>3 DEF PendingRef, Target
<1>11. Covered'
  <2> SUFFICES ASSUME NEW c \in DOMAIN origin, NEW q \in Properties,
                      Target(c, q) \in Instances \cup {Nil}
               PROVE  InPropRefs(c, q)' \/ Corresponds(properties'[c][q], Target(c, q))
    BY <1>1, <1>8 DEF Covered, CopyDone, Corresponds, Copied
  <2>1. CASE c = pr.instance /\ q = pr.property
    <3>1. properties'[c][q] = ResolvedValue(pr)
      BY <2>1, <1>5, <1>6 DEF CopyTypeOK, TypeOK
    <3>2. QED
      BY <2>1, <3>1, <1>4, ResolutionCorresponds DEF CopyInv
  <2>2. CASE ~(c = pr.instance /\ q = pr.property)
    <3>1. properties'[c][q] = properties[c][q]
      BY <2>2, <1>5, <1>6, CloneNumber DEF CopyTypeOK, TypeOK
    <3>2. ~InFrame(c, q)
      BY <1>1 DEF CopyDone, InFrame
    <3>3. ASSUME InPropRefs(c, q) PROVE InPropRefs(c, q)'
      <4>1. PICK k \in 1 .. n : propRefs[k].instance = c /\ propRefs[k].property = q
        BY <3>3, <1>3 DEF InPropRefs
      <4>2. k # 1
        BY <4>1, <2>2, <1>4
      <4>3. k - 1 \in 1 .. n - 1 /\ propRefs'[k - 1] = propRefs[k]
        BY <4>1, <4>2, <1>3
      <4>4. QED
        BY <4>1, <4>3, <1>3 DEF InPropRefs
    <3>4. QED
      BY <3>1, <3>2, <3>3 DEF CopyInv, Covered
  <2>3. QED
    BY <2>1, <2>2
<1>12. QED
  BY <1>2, <1>9, <1>10, <1>11 DEF CopyInv

-------------------------------------------------------------------------------

LEMMA InitInv == CopyInit => CopyTypeOK /\ CopyInv
<1> SUFFICES ASSUME CopyInit PROVE CopyTypeOK /\ CopyInv
  OBVIOUS
<1>1. CopyTypeOK /\ HeapKept
  BY InitType
<1>2. refs = EmptyTable /\ crefs = EmptyTable /\ origin = <<>> /\ propRefs = <<>> /\ stack = <<>>
  BY DEF CopyInit
<1>3. DOMAIN origin = {} /\ DOMAIN propRefs = {} /\ DOMAIN stack = {}
  BY <1>2
<1>4. Tables
  BY <1>2, <1>3, RefsAssumption DEF Tables, EmptyTable
<1>5. Frames /\ Pending /\ Covered
  BY <1>3 DEF Frames, Pending, Covered
<1>6. QED
  BY <1>1, <1>4, <1>5 DEF CopyInv

LEMMA StepInv ==
  CopyTypeOK /\ CopyInv /\ [CopyNext]_copyVars => CopyTypeOK' /\ CopyInv'
<1> SUFFICES ASSUME CopyTypeOK, CopyInv, [CopyNext]_copyVars
             PROVE  CopyTypeOK' /\ CopyInv'
  OBVIOUS
<1>1. CopyTypeOK'
  BY StepType DEF CopyInv
<1>2. CASE CopyRoot
  <2>1. root.instances[Len(clone.instances) + 1] \in Originals /\ ~CopyDone
    BY <1>2, CalledInstances DEF CopyInv, CopyRoot, CopyDone, CopyTypeOK
  <2>2. PICK ref \in Refs : Call(root.instances[Len(clone.instances) + 1], ref)
    BY <1>2 DEF CopyRoot
  <2>3. CopyInv'
    BY <2>1, <2>2, CallInv
  <2>4. QED
    BY <1>1, <2>3
<1>3. CASE CopyChild
  <2>1. children[Top.instance][Top.child] \in Originals /\ ~CopyDone
    BY <1>3, CalledInstances DEF CopyInv, CopyChild, CopyDone
  <2>2. PICK ref \in Refs : Call(children[Top.instance][Top.child], ref)
    BY <1>3 DEF CopyChild
  <2>3. CopyInv'
    BY <2>1, <2>2, CallInv
  <2>4. QED
    BY <1>1, <2>3
<1>4. CASE UNCHANGED copyVars
  <2>1. UNCHANGED <<refs, reference, properties, children, root, clone, origin, crefs,
                    propRefs, stack>>
    BY <1>4 DEF copyVars
  <2>2. HeapKept' /\ Tables' /\ Frames'
    BY <2>1 DEF CopyInv, HeapKept, Tables, Frames
  <2>3. Pending'
    BY <2>1 DEF CopyInv, Pending, PendingRef, Target
  <2>4. Covered'
    BY <2>1 DEF CopyInv, Covered, Target, InFrame, InPropRefs, CopyDone, Corresponds, Copied
  <2>5. QED
    BY <1>1, <2>2, <2>3, <2>4 DEF CopyInv
<1>5. QED
  BY <1>1, <1>2, <1>3, <1>4, CopyReferenceInv, CopyValueInv, ReturnInv, ResolveNextInv
     DEF CopyNext, Returned

LEMMA CopyInvariant == CopySpec => [](CopyTypeOK /\ CopyInv)
<1>1. QED
  BY InitInv, StepInv, PTL DEF CopySpec

(* The references of a copy lead to the copies of their referents, and to  *)
(* the referents themselves outside of what is copied (file.go:44-47): for *)
(* every heap, tree or not, whatever names collide or are empty.           *)
THEOREM ReferencesCorrect == CopySpec => []ReferencesFollowCopy
<1>1. CopyTypeOK /\ CopyInv => ReferencesFollowCopy
  <2> SUFFICES ASSUME CopyTypeOK, CopyInv, Finished,
                      NEW c \in DOMAIN origin, NEW p \in Properties,
                      properties[origin[c]][p] \in Instances \cup {Nil}
               PROVE  Corresponds(properties[c][p], properties[origin[c]][p])
    BY DEF ReferencesFollowCopy
  <2>1. ~InFrame(c, p) /\ ~InPropRefs(c, p)
    BY DEF Finished, CopyDone, InFrame, InPropRefs
  <2>2. QED
    BY <2>1 DEF CopyInv, Covered, Target
<1>2. QED
  BY <1>1, CopyInvariant, PTL

(* Copies are named like their originals, never with an empty reference,   *)
(* and never like the copy of another instance (file.go:105).              *)
THEOREM CopyNamesCorrect == CopySpec => []CopyNames
<1>1. CopyTypeOK /\ CopyInv => CopyNames
  <2> SUFFICES ASSUME CopyTypeOK, Tables, NEW c \in DOMAIN origin
               PROVE  /\ reference[c] = reference[origin[c]]
                      /\ ~IsEmptyReference(reference[c])
                      /\ \A d \in DOMAIN origin :
                           reference[c] = reference[d] => origin[c] = origin[d]
    BY DEF CopyInv, CopyNames
  <2>1. refs[reference[c]] = origin[c] /\ origin[c] # Nil /\ reference[c] \in Refs
    BY CloneNumber, HeapAssumption, NilAssumption DEF Tables, CopyTypeOK, TypeOK
  <2>2. reference[c] = reference[origin[c]] /\ reference[c] \notin EmptyRefs
    BY <2>1 DEF Tables
  <2>3. ASSUME NEW d \in DOMAIN origin, reference[c] = reference[d]
        PROVE  origin[c] = origin[d]
    BY <2>1, <2>3 DEF Tables
  <2>4. QED
    BY <2>2, <2>3 DEF IsEmptyReference
<1>2. QED
  BY <1>1, CopyInvariant, PTL

-------------------------------------------------------------------------------
(***************************************************************************)
(* The shape of the copy.  SameTree speaks of the end; while frames are    *)
(* open, a frame stands for the next child of the frame below it (Chain),  *)
(* the first for the next root (Roots), and the children a copy has are    *)
(* the copies of as many children of its original, of all of them once its *)
(* frame is gone (ChildrenCopied).                                         *)
(***************************************************************************)
Chain ==
  \A k \in DOMAIN stack :
    /\ stack[k].child = Len(children[stack[k].clone]) + 1
    /\ stack[k].child <= Len(children[stack[k].instance]) + 1
    /\ \A j \in 1 .. k - 1 : stack[j].clone < stack[k].clone
    /\ k > 1 =>
         /\ stack[k - 1].child <= Len(children[stack[k - 1].instance])
         /\ stack[k].instance = children[stack[k - 1].instance][stack[k - 1].child]

Roots ==
  /\ stack # <<>> =>
       /\ Len(clone.instances) < Len(root.instances)
       /\ stack[1].instance = root.instances[Len(clone.instances) + 1]
  /\ Len(clone.instances) <= Len(root.instances)
  /\ \A k \in DOMAIN clone.instances :
       clone.instances[k] \in DOMAIN origin /\ origin[clone.instances[k]] = root.instances[k]

ChildrenCopied ==
  \A c \in DOMAIN origin :
    /\ Len(children[c]) <= Len(children[origin[c]])
    /\ \A k \in DOMAIN children[c] :
         children[c][k] \in DOMAIN origin /\ origin[children[c][k]] = children[origin[c]][k]
    /\ \/ \E k \in DOMAIN stack : stack[k].clone = c
       \/ Len(children[c]) = Len(children[origin[c]])

ValuesCopied ==
  \A c \in DOMAIN origin, p \in Properties :
    Target(c, p) \in Data \cup {Unset} =>
      \/ InFrame(c, p) /\ Target(c, p) \in Data
      \/ SameValue(properties[c][p], Target(c, p))

Fresh ==
  \A c \in Clones \ DOMAIN origin :
    children[c] = <<>> /\ \A p \in Properties : properties[c][p] = Unset

ShapeInv == Chain /\ Roots /\ ChildrenCopied /\ ValuesCopied /\ Fresh

(* Names that leave a frame move nothing.                                  *)
LEMMA ShapeStays ==
  ASSUME Chain, Roots, ChildrenCopied, UNCHANGED <<children, root, clone, origin>>,
         stack \in Seq(Frame), stack' \in Seq(Frame), Len(stack') = Len(stack),
         \A k \in 1 .. Len(stack) : /\ stack'[k].clone = stack[k].clone
                                    /\ stack'[k].instance = stack[k].instance
                                    /\ stack'[k].child = stack[k].child
  PROVE  Chain' /\ Roots' /\ ChildrenCopied'
<1>1. DOMAIN stack = 1 .. Len(stack) /\ DOMAIN stack' = 1 .. Len(stack) /\ Len(stack) \in Nat
  OBVIOUS
<1>2. Chain'
  <2> SUFFICES ASSUME NEW k \in 1 .. Len(stack)
               PROVE  /\ stack'[k].child = Len(children[stack'[k].clone]) + 1
                      /\ stack'[k].child <= Len(children[stack'[k].instance]) + 1
                      /\ \A j \in 1 .. k - 1 : stack'[j].clone < stack'[k].clone
                      /\ k > 1 =>
                           /\ stack'[k - 1].child <= Len(children[stack'[k - 1].instance])
                           /\ stack'[k].instance =
                                children[stack'[k - 1].instance][stack'[k - 1].child]
    BY <1>1 DEF Chain
  <2>1. \A j \in 1 .. k : j \in 1 .. Len(stack)
    BY <1>1
  <2>2. k > 1 => k - 1 \in 1 .. Len(stack)
    BY <1>1
  <2>3. \A j \in 1 .. k - 1 : j \in 1 .. Len(stack)
    BY <1>1
  <2>4. \A j \in 1 .. k - 1 : stack'[j].clone < stack'[k].clone
    BY <1>1, <2>3 DEF Chain
  <2>5. QED
    BY <1>1, <2>2, <2>4 DEF Chain
<1>3. Roots'
  <2>1. stack' # <<>> => stack # <<>> /\ 1 \in 1 .. Len(stack)
    BY <1>1
  <2>2. QED
    BY <2>1 DEF Roots
<1>4. ChildrenCopied'
  <2>1. ASSUME NEW c, \E k \in DOMAIN stack : stack[k].clone = c
        PROVE  \E k \in DOMAIN stack' : stack'[k].clone = c
    BY <1>1, <2>1
  <2>2. QED
    BY <2>1 DEF ChildrenCopied
<1>5. QED
  BY <1>2, <1>3, <1>4

LEMMA CallShape ==
  ASSUME CopyTypeOK, CopyInv, ShapeInv, NEW i \in Originals, NEW ref \in Refs, Call(i, ref),
         \/ /\ stack = <<>>
            /\ Len(clone.instances) < Len(root.instances)
            /\ i = root.instances[Len(clone.instances) + 1]
         \/ /\ stack # <<>>
            /\ Top.child <= Len(children[Top.instance])
            /\ i = children[Top.instance][Top.child]
  PROVE  ShapeInv'
<1> DEFINE c == Len(origin) + 1
           n == Len(stack)
           frame == [instance |-> i, clone |-> c, names |-> SetNames(i), child |-> 1]
<1>1. /\ UNCHANGED <<properties, children, root, clone>>
      /\ origin' = Append(origin, i) /\ stack' = Append(stack, frame) /\ c \in Clones
  BY DEF Call
<1>2. /\ Len(origin) \in Nat /\ DOMAIN origin = 1 .. Len(origin)
      /\ \A k \in DOMAIN origin : origin'[k] = origin[k] /\ k < c
      /\ DOMAIN origin' = DOMAIN origin \cup {c}
      /\ origin'[c] = i /\ c \notin DOMAIN origin
  BY <1>1, CloneNumber DEF CopyTypeOK
<1>3. /\ n \in Nat /\ DOMAIN stack = 1 .. n /\ DOMAIN stack' = 1 .. n + 1
      /\ \A k \in 1 .. n : stack'[k] = stack[k]
      /\ stack'[n + 1] = frame
  BY <1>1 DEF CopyTypeOK
<1>4. children[c] = <<>> /\ \A p \in Properties : properties[c][p] = Unset
  BY <1>1, <1>2 DEF ShapeInv, Fresh
<1>5. children[i] \in Seq(Originals) /\ Len(children[i]) \in Nat
  BY DEF CopyInv, HeapKept
<1>6. Chain'
  <2> SUFFICES ASSUME NEW k \in 1 .. n + 1
               PROVE  /\ stack'[k].child = Len(children[stack'[k].clone]) + 1
                      /\ stack'[k].child <= Len(children[stack'[k].instance]) + 1
                      /\ \A j \in 1 .. k - 1 : stack'[j].clone < stack'[k].clone
                      /\ k > 1 =>
                           /\ stack'[k - 1].child <= Len(children[stack'[k - 1].instance])
                           /\ stack'[k].instance =
                                children[stack'[k - 1].instance][stack'[k - 1].child]
    BY <1>1, <1>3 DEF Chain
  <2>1. CASE k \in 1 .. n
    <3>1. stack'[k] = stack[k] /\ \A j \in 1 .. k - 1 : stack'[j] = stack[j]
      BY <2>1, <1>3
    <3>2. k > 1 => stack'[k - 1] = stack[k - 1]
      BY <2>1, <3>1
    <3>3. Chain
      BY DEF ShapeInv
    <3>4. \A j \in 1 .. k - 1 : stack'[j].clone < stack'[k].clone
      BY <2>1, <3>1, <3>3, <1>3 DEF Chain
    <3>5. QED
      BY <2>1, <3>1, <3>2, <3>3, <3>4, <1>3 DEF Chain
  <2>2. CASE k = n + 1
    <3>1. /\ stack'[k].child = 1 /\ stack'[k].clone = c /\ stack'[k].instance = i
      BY <2>2, <1>3
    <3>2. \A j \in 1 .. n : stack'[j].clone < c
      BY <1>2, <1>3 DEF CopyInv, Frames
    <3>3. n > 0 => stack'[n] = Top /\ Top.child <= Len(children[Top.instance])
                   /\ i = children[Top.instance][Top.child]
      BY <1>3 DEF Top
    <3>4. QED
      BY <2>2, <3>1, <3>2, <3>3, <1>3, <1>4, <1>5
  <2>3. QED
    BY ONLY <2>1, <2>2, <1>3, k \in 1 .. n + 1
<1>7. Roots'
  <2>1. stack' # <<>> /\ stack'[1] = IF n = 0 THEN frame ELSE stack[1]
    BY <1>3
  <2>2. /\ Len(clone.instances) < Len(root.instances)
        /\ stack'[1].instance = root.instances[Len(clone.instances) + 1]
    <3>1. CASE n = 0
      BY <3>1, <2>1, <1>3 DEF CopyTypeOK
    <3>2. CASE n # 0
      BY <3>2, <2>1, <1>3 DEF ShapeInv, Roots
    <3>3. QED
      BY <3>1, <3>2
  <2>3. QED
    BY <2>2, <1>1, <1>2 DEF ShapeInv, Roots
<1>8. ChildrenCopied'
  <2> SUFFICES ASSUME NEW d \in DOMAIN origin'
               PROVE  /\ Len(children[d]) <= Len(children[origin'[d]])
                      /\ \A k \in DOMAIN children[d] :
                           /\ children[d][k] \in DOMAIN origin'
                           /\ origin'[children[d][k]] = children[origin'[d]][k]
                      /\ \/ \E k \in DOMAIN stack' : stack'[k].clone = d
                         \/ Len(children[d]) = Len(children[origin'[d]])
    <3>1. children' = children
      BY <1>1
    <3>2. QED
      BY <3>1 DEF ChildrenCopied
  <2>1. CASE d = c
    <3>1. n + 1 \in 1 .. n + 1 /\ stack'[n + 1].clone = d
      BY <2>1, <1>3
    <3>2. children[d] = <<>> /\ origin'[d] = i
      BY <2>1, <1>2, <1>4
    <3>3. Len(children[d]) = 0 /\ DOMAIN children[d] = {}
      BY <3>2
    <3>4. Len(children[d]) <= Len(children[origin'[d]])
      BY <3>2, <3>3, <1>5
    <3>5. \E k \in DOMAIN stack' : stack'[k].clone = d
      BY <3>1, <1>3
    <3>6. QED
      BY <3>3, <3>4, <3>5
  <2>2. CASE d \in DOMAIN origin
    BY <2>2, <1>2, <1>3 DEF ShapeInv, ChildrenCopied
  <2>3. QED
    BY <2>1, <2>2, <1>2
<1>9. ValuesCopied'
  <2> SUFFICES ASSUME NEW d \in DOMAIN origin', NEW p \in Properties,
                      Target(d, p)' \in Data \cup {Unset}
               PROVE  \/ InFrame(d, p)' /\ Target(d, p)' \in Data
                      \/ SameValue(properties[d][p], Target(d, p)')
    BY <1>1 DEF ValuesCopied
  <2>1. CASE d = c
    <3>1. Target(d, p)' = properties[i][p]
      BY <2>1, <1>1, <1>2 DEF Target
    <3>2. CASE properties[i][p] = Unset
      <4>1. properties[d][p] = Unset /\ Unset \notin Fonts
        BY <2>1, <1>4, NilAssumption, FontsAssumption
      <4>2. QED
        BY <3>1, <3>2, <4>1 DEF SameValue
    <3>3. CASE properties[i][p] # Unset
      <4>1. p \in stack'[n + 1].names /\ stack'[n + 1].clone = d /\ n + 1 \in DOMAIN stack'
        BY <2>1, <3>3, <1>3 DEF SetNames
      <4>2. QED
        BY <3>1, <3>3, <4>1 DEF InFrame
    <3>4. QED
      BY <3>2, <3>3
  <2>2. CASE d \in DOMAIN origin
    <3>1. Target(d, p)' = Target(d, p)
      BY <2>2, <1>1, <1>2 DEF Target
    <3>2. InFrame(d, p) => InFrame(d, p)'
      BY <1>3 DEF InFrame
    <3>3. QED
      BY <2>2, <3>1, <3>2 DEF ShapeInv, ValuesCopied
  <2>3. QED
    BY <2>1, <2>2, <1>2
<1>10. Fresh'
  BY <1>1, <1>2 DEF ShapeInv, Fresh
<1>11. QED
  BY <1>6, <1>7, <1>8, <1>9, <1>10 DEF ShapeInv

(* What visiting a name does to the frames.                                *)
LEMMA VisitShape ==
  ASSUME CopyTypeOK, ShapeInv, stack # <<>>, NEW p,
         stack' = Append(Under, [Top EXCEPT !.names = @ \ {p}]),
         UNCHANGED <<children, root, clone, origin>>
  PROVE  Chain' /\ Roots' /\ ChildrenCopied'
<1> DEFINE n == Len(stack)
           visited == [Top EXCEPT !.names = @ \ {p}]
<1>1. /\ n \in Nat \ {0} /\ Top \in Frame /\ Under \in Seq(Frame)
      /\ Len(Under) = n - 1 /\ \A k \in 1 .. n - 1 : Under[k] = stack[k]
  BY UnderFrames DEF CopyTypeOK
<1>2. /\ visited.clone = Top.clone /\ visited.instance = Top.instance
      /\ visited.child = Top.child /\ visited \in Frame
  BY <1>1 DEF Frame
<1>3. stack' \in Seq(Frame) /\ Len(stack') = n
  BY <1>1, <1>2
<1>4. ASSUME NEW k \in 1 .. n
      PROVE  /\ stack'[k].clone = stack[k].clone
             /\ stack'[k].instance = stack[k].instance
             /\ stack'[k].child = stack[k].child
  <2>1. CASE k = n
    BY <2>1, <1>1, <1>2 DEF Top
  <2>2. CASE k # n
    <3>1. k \in 1 .. Len(Under)
      BY <2>2, <1>1
    <3>2. stack'[k] = Under[k]
      BY <3>1, <1>1, <1>2
    <3>3. QED
      BY <3>1, <3>2, <1>1
  <2>3. QED
    BY <2>1, <2>2
<1>5. stack \in Seq(Frame) /\ Chain /\ Roots /\ ChildrenCopied
  BY DEF CopyTypeOK, ShapeInv
<1>6. QED
  BY <1>3, <1>4, <1>5, ShapeStays

LEMMA CopyReferenceShape ==
  ASSUME CopyTypeOK, CopyInv, ShapeInv, CopyReference
  PROVE  ShapeInv'
<1>1. PICK p \in Top.names :
        /\ properties[Top.instance][p] \in Instances \cup {Nil}
        /\ stack' = Append(Under, [Top EXCEPT !.names = @ \ {p}])
  BY DEF CopyReference
<1>2. stack # <<>> /\ UNCHANGED <<properties, children, root, clone, origin>>
  BY DEF CopyReference
<1>3. Chain' /\ Roots' /\ ChildrenCopied'
  BY <1>1, <1>2, VisitShape
<1>4. /\ Top.clone \in DOMAIN origin /\ origin[Top.clone] = Top.instance
      /\ \A c, q : InFrame(c, q) => InFrame(c, q)' \/ (c = Top.clone /\ q = p)
  BY <1>1, <1>2, VisitFrames DEF CopyInv
<1>5. ValuesCopied'
  <2> SUFFICES ASSUME NEW c \in DOMAIN origin, NEW q \in Properties,
                      Target(c, q) \in Data \cup {Unset}
               PROVE  \/ InFrame(c, q)' /\ Target(c, q) \in Data
                      \/ SameValue(properties[c][q], Target(c, q))
    BY <1>2 DEF ValuesCopied, Target
  <2>1. ~(c = Top.clone /\ q = p)
    BY <1>1, <1>4, NilAssumption DEF Target
  <2>2. QED
    BY <2>1, <1>4 DEF ShapeInv, ValuesCopied
<1>6. Fresh'
  BY <1>2 DEF ShapeInv, Fresh
<1>7. QED
  BY <1>3, <1>5, <1>6 DEF ShapeInv

LEMMA CopyValueShape ==
  ASSUME CopyTypeOK, CopyInv, ShapeInv, CopyValue
  PROVE  ShapeInv'
<1>1. PICK p, v :
        /\ p \in Top.names /\ v \in ValueCopies(properties[Top.instance][p])
        /\ properties[Top.instance][p] \in Data
        /\ properties' = [properties EXCEPT ![Top.clone][p] = v]
        /\ stack' = Append(Under, [Top EXCEPT !.names = @ \ {p}])
  BY DEF CopyValue
<1>2. stack # <<>> /\ UNCHANGED <<children, root, clone, origin>>
  BY DEF CopyValue
<1>3. Chain' /\ Roots' /\ ChildrenCopied'
  BY <1>1, <1>2, VisitShape
<1>4. /\ Top.clone \in DOMAIN origin /\ origin[Top.clone] = Top.instance
      /\ \A c, q : InFrame(c, q) => InFrame(c, q)' \/ (c = Top.clone /\ q = p)
  BY <1>1, <1>2, VisitFrames DEF CopyInv
<1>5. /\ \A i \in Instances, q \in Properties :
           i # Top.clone \/ q # p => properties'[i][q] = properties[i][q]
      /\ p \in Properties => properties'[Top.clone][p] = v
      /\ SameValue(v, Target(Top.clone, p))
  <2>1. SameValue(v, Target(Top.clone, p))
    BY <1>1, <1>4, CopiedValue DEF Target
  <2>2. QED
    BY <2>1, <1>1, <1>4, CloneNumber DEF CopyTypeOK, TypeOK
<1>6. \A i \in Originals : properties'[i] = properties[i]
  BY <1>1, <1>4, CloneNumber, HeapAssumption DEF CopyTypeOK, TypeOK
<1>7. \A c \in DOMAIN origin, q \in Properties : Target(c, q)' = Target(c, q)
  BY <1>2, <1>6, CloneNumber DEF Target
<1>8. ValuesCopied'
  <2> SUFFICES ASSUME NEW c \in DOMAIN origin, NEW q \in Properties,
                      Target(c, q) \in Data \cup {Unset}
               PROVE  \/ InFrame(c, q)' /\ Target(c, q) \in Data
                      \/ SameValue(properties'[c][q], Target(c, q))
    BY <1>2, <1>7 DEF ValuesCopied
  <2>1. CASE c = Top.clone /\ q = p
    BY <2>1, <1>5
  <2>2. CASE ~(c = Top.clone /\ q = p)
    <3>1. properties'[c][q] = properties[c][q]
      BY <2>2, <1>5, CloneNumber
    <3>2. QED
      BY <2>2, <3>1, <1>4 DEF ShapeInv, ValuesCopied
  <2>3. QED
    BY <2>1, <2>2
<1>9. Fresh'
  BY <1>2, <1>4, <1>5, HeapAssumption DEF ShapeInv, Fresh
<1>10. QED
  BY <1>3, <1>8, <1>9 DEF ShapeInv

(* A returned copy is complete, and it is stored where its original is in  *)
(* the children of the caller's, or in the roots.                          *)
LEMMA ReturnShape ==
  ASSUME CopyTypeOK, CopyInv, ShapeInv, Return
  PROVE  ShapeInv'
<1> DEFINE n == Len(stack)
<1>1. /\ UNCHANGED <<properties, root, origin>>
      /\ stack # <<>> /\ Top.names = {} /\ Top.child > Len(children[Top.instance])
      /\ Store(Top.clone, Under)
  BY DEF Return
<1>2. /\ n \in Nat \ {0} /\ Top = stack[n] /\ Top \in Frame /\ Under \in Seq(Frame)
      /\ Len(Under) = n - 1 /\ \A k \in 1 .. n - 1 : Under[k] = stack[k]
      /\ DOMAIN stack = 1 .. n
  BY <1>1, UnderFrames DEF CopyTypeOK, Top
<1>3. /\ \A k \in 1 .. n : /\ stack[k].clone \in DOMAIN origin
                           /\ origin[stack[k].clone] = stack[k].instance
      /\ Top.clone \in DOMAIN origin /\ origin[Top.clone] = Top.instance
  BY <1>2 DEF CopyInv, Frames
<1>4. \A i \in Instances : children[i] \in Seq(Instances) /\ Len(children[i]) \in Nat
  BY DEF CopyTypeOK
<1>5. Len(children[Top.clone]) = Len(children[origin[Top.clone]])
  <2>1. /\ Top.child = Len(children[Top.clone]) + 1
        /\ Top.child <= Len(children[Top.instance]) + 1
    <3>1. Chain /\ n \in DOMAIN stack
      BY <1>2 DEF ShapeInv
    <3>2. /\ stack[n].child = Len(children[stack[n].clone]) + 1
          /\ stack[n].child <= Len(children[stack[n].instance]) + 1
      <4> HIDE DEF n
      <4>1. QED
        BY <3>1, Zenon DEF Chain
    <3>3. QED
      BY ONLY <1>2, <3>2
  <2>2. Len(children[Top.clone]) \in Nat /\ Len(children[Top.instance]) \in Nat
    BY <1>2, <1>3, <1>4, CloneNumber, HeapAssumption DEF Frame
  <2>3. QED
    BY ONLY <2>1, <2>2, <1>1, <1>3
<1>6. \A j, k \in 1 .. n : j # k => stack[j].clone # stack[k].clone
  <2> SUFFICES ASSUME NEW j \in 1 .. n, NEW k \in 1 .. n, j < k
               PROVE  stack[j].clone # stack[k].clone
    BY <1>2
  <2>1. j \in 1 .. k - 1
    BY <1>2
  <2>2. stack[j].clone < stack[k].clone
    BY <2>1, <1>2 DEF ShapeInv, Chain
  <2>3. stack[j].clone \in Nat /\ stack[k].clone \in Nat
    BY <1>3, CloneNumber
  <2>4. QED
    BY <2>2, <2>3
<1>7. ASSUME Under = <<>>
      PROVE  Chain' /\ Roots' /\ ChildrenCopied'
  <2>1. /\ n = 1 /\ stack' = <<>> /\ UNCHANGED children
        /\ clone' = [clone EXCEPT !.instances = Append(@, Top.clone)]
    BY <1>1, <1>2, <1>7 DEF Store
  <2>2. /\ clone.instances \in Seq(Clones)
        /\ clone'.instances = Append(clone.instances, Top.clone)
    BY <2>1 DEF CopyTypeOK
  <2>3. /\ Len(clone'.instances) = Len(clone.instances) + 1
        /\ DOMAIN clone'.instances = 1 .. Len(clone.instances) + 1
        /\ \A k \in 1 .. Len(clone.instances) : clone'.instances[k] = clone.instances[k]
        /\ clone'.instances[Len(clone.instances) + 1] = Top.clone
        /\ Len(clone.instances) \in Nat /\ DOMAIN clone.instances = 1 .. Len(clone.instances)
    BY <2>2
  <2>4. /\ Len(clone.instances) < Len(root.instances) /\ Len(root.instances) \in Nat
        /\ Top.instance = root.instances[Len(clone.instances) + 1]
    BY <2>1, <1>1, <1>2 DEF ShapeInv, Roots, CopyTypeOK
  <2>5. Chain'
    BY <2>1 DEF Chain
  <2>6. Roots'
    <3>1. ASSUME NEW k \in 1 .. Len(clone.instances) + 1
          PROVE  /\ clone'.instances[k] \in DOMAIN origin
                 /\ origin[clone'.instances[k]] = root.instances[k]
      <4>1. CASE k = Len(clone.instances) + 1
        BY <4>1, <2>3, <2>4, <1>3
      <4>2. CASE k \in 1 .. Len(clone.instances)
        BY <4>2, <2>3 DEF ShapeInv, Roots
      <4>3. QED
        BY <4>1, <4>2, <2>3
    <3>2. Len(clone'.instances) <= Len(root.instances)
      BY <2>3, <2>4
    <3>3. QED
      BY <3>1, <3>2, <2>1, <2>3, <1>1 DEF Roots
  <2>7. ChildrenCopied'
    <3> SUFFICES ASSUME NEW d \in DOMAIN origin
                 PROVE  /\ Len(children[d]) <= Len(children[origin[d]])
                        /\ \A k \in DOMAIN children[d] :
                             /\ children[d][k] \in DOMAIN origin
                             /\ origin[children[d][k]] = children[origin[d]][k]
                        /\ Len(children[d]) = Len(children[origin[d]])
      BY <2>1, <1>1 DEF ChildrenCopied
    <3>1. (\E k \in DOMAIN stack : stack[k].clone = d) => d = Top.clone
      BY <2>1, <1>2
    <3>2. QED
      BY <3>1, <1>5 DEF ShapeInv, ChildrenCopied
  <2>8. QED
    BY <2>5, <2>6, <2>7
<1>8. ASSUME Under # <<>>
      PROVE  Chain' /\ Roots' /\ ChildrenCopied'
  <2> DEFINE m == n - 1
             caller == stack[m]
             len == Len(children[caller.clone])
  <2>1. /\ m \in 1 .. n /\ m \in Nat \ {0} /\ m + 1 = n /\ Under[Len(Under)] = caller
        /\ Len(Under) = m /\ m = n - 1
    BY <1>2, <1>8
  <2> HIDE DEF m, n
  <2>2. /\ children' = [children EXCEPT ![caller.clone] = Append(@, Top.clone)]
        /\ stack' = [Under EXCEPT ![m].child = @ + 1]
        /\ UNCHANGED clone
    BY <2>1, <1>1, <1>8 DEF Store
  <2>3. /\ caller.clone \in DOMAIN origin /\ origin[caller.clone] = caller.instance
        /\ caller.clone \in Instances /\ caller.clone \notin Originals
        /\ caller \in Frame
    <3>1. caller \in Frame
      BY <2>1, <1>2
    <3>2. QED
      BY <3>1, <2>1, <1>3, CloneNumber
  <2>4. /\ caller.child = len + 1
        /\ caller.child <= Len(children[caller.instance])
        /\ Top.instance = children[caller.instance][caller.child]
    <3>1. Chain /\ m \in DOMAIN stack /\ n \in DOMAIN stack /\ n > 1 /\ n - 1 = m
      BY <2>1, <1>2 DEF ShapeInv
    <3>2. QED
      BY <3>1, <1>2 DEF Chain
  <2>5. /\ \A i \in Instances : i # caller.clone => children'[i] = children[i]
        /\ children'[caller.clone] = Append(children[caller.clone], Top.clone)
    BY <2>2, <2>3 DEF CopyTypeOK
  <2>6. /\ Len(children'[caller.clone]) = len + 1 /\ len \in Nat
        /\ DOMAIN children'[caller.clone] = 1 .. len + 1
        /\ \A k \in 1 .. len : children'[caller.clone][k] = children[caller.clone][k]
        /\ children'[caller.clone][len + 1] = Top.clone
        /\ DOMAIN children[caller.clone] = 1 .. len
    BY <2>3, <2>5, <1>4
  <2>7. \A i \in Originals : children'[i] = children[i]
    BY <2>3, <2>5, HeapAssumption
  <2>8. /\ DOMAIN stack' = 1 .. m /\ Len(stack') = m
        /\ \A k \in 1 .. m : /\ stack'[k].clone = stack[k].clone
                             /\ stack'[k].instance = stack[k].instance
                             /\ stack'[k].names = stack[k].names
        /\ \A k \in 1 .. m - 1 : stack'[k] = stack[k]
        /\ stack'[m].child = caller.child + 1
    <3>1. \A k \in 1 .. m : Under[k] = stack[k] /\ Under[k] \in Frame
      BY <2>1, <1>2
    <3>2. DOMAIN Under = 1 .. m /\ m \in 1 .. m
      BY <2>1, <1>2
    <3>3. stack' = [Under EXCEPT ![m] = [caller EXCEPT !.child = @ + 1]]
      BY <3>1, <3>2, <2>2
    <3>4. DOMAIN stack' = 1 .. m /\ Len(stack') = m
      BY <3>2, <3>3, <2>1
    <3>5. \A k \in 1 .. m : k # m => stack'[k] = stack[k]
      BY <3>1, <3>2, <3>3
    <3>6. stack'[m] = [caller EXCEPT !.child = @ + 1]
      BY <3>2, <3>3
    <3>7. /\ stack'[m].clone = caller.clone /\ stack'[m].instance = caller.instance
          /\ stack'[m].names = caller.names /\ stack'[m].child = caller.child + 1
      BY <3>6, <2>3 DEF Frame
    <3>8. \A k \in 1 .. m - 1 : k \in 1 .. m /\ k # m
      BY <2>1
    <3>9. QED
      BY <3>4, <3>5, <3>7, <3>8
  <2>9. \A k \in 1 .. m : stack[k].instance \in Originals /\ stack[k].clone \in Instances
    BY <2>1, <1>2, <1>3, CloneNumber
  <2>10. Chain'
    <3> SUFFICES ASSUME NEW k \in 1 .. m
                 PROVE  /\ stack'[k].child = Len(children'[stack'[k].clone]) + 1
                        /\ stack'[k].child <= Len(children'[stack'[k].instance]) + 1
                        /\ \A j \in 1 .. k - 1 : stack'[j].clone < stack'[k].clone
                        /\ k > 1 =>
                             /\ stack'[k - 1].child <= Len(children'[stack'[k - 1].instance])
                             /\ stack'[k].instance =
                                  children'[stack'[k - 1].instance][stack'[k - 1].child]
      BY <2>8 DEF Chain
    <3>1. k \in DOMAIN stack /\ Chain
      BY <2>1, <1>2 DEF ShapeInv
    <3>2. \A j \in 1 .. k - 1 : j \in 1 .. m
      BY <2>1
    <3>3. \A j \in 1 .. k - 1 : stack'[j].clone < stack'[k].clone
      BY <3>1, <3>2, <2>8 DEF Chain
    <3>4. k > 1 => /\ stack'[k - 1].child <= Len(children'[stack'[k - 1].instance])
                   /\ stack'[k].instance =
                        children'[stack'[k - 1].instance][stack'[k - 1].child]
      <4>1. k > 1 => k - 1 \in 1 .. m - 1 /\ k - 1 \in 1 .. m
        BY <2>1
      <4>2. k > 1 => stack'[k - 1] = stack[k - 1]
        BY <4>1, <2>8
      <4>3. k > 1 => children'[stack[k - 1].instance] = children[stack[k - 1].instance]
        BY <4>1, <2>7, <2>9
      <4>4. stack'[k].instance = stack[k].instance
        BY <2>8
      <4>5. QED
        BY <3>1, <4>2, <4>3, <4>4 DEF Chain
    <3>5. children'[stack'[k].instance] = children[stack[k].instance]
      BY <2>7, <2>8, <2>9
    <3>6. /\ stack'[k].child = Len(children'[stack'[k].clone]) + 1
          /\ stack'[k].child <= Len(children[stack[k].instance]) + 1
      <4>1. CASE k = m
        <5>1. stack'[k].clone = caller.clone /\ stack'[k].child = len + 1 + 1
          BY <4>1, <2>4, <2>8
        <5>2. Len(children[caller.instance]) \in Nat
          BY <2>1, <2>9, <1>4, HeapAssumption
        <5>3. QED
          BY <4>1, <5>1, <5>2, <2>4, <2>6
      <4>2. CASE k # m
        <5>1. k \in 1 .. m - 1 /\ k \in 1 .. n
          BY <4>2, <2>1
        <5>3. stack'[k] = stack[k] /\ stack[k].clone # caller.clone
          BY <4>2, <5>1, <2>1, <2>8, <1>6
        <5>2. children'[stack[k].clone] = children[stack[k].clone]
          BY <5>3, <2>5, <2>9
        <5>4. QED
          BY <3>1, <5>2, <5>3 DEF Chain
      <4>3. QED
        BY <4>1, <4>2
    <3>7. QED
      BY <3>3, <3>4, <3>5, <3>6
  <2>11. Roots'
    <3>1. stack # <<>> /\ stack'[1].instance = stack[1].instance
      BY <1>1, <2>1, <2>8
    <3>2. QED
      BY <3>1, <2>2, <1>1 DEF ShapeInv, Roots
  <2>12. ChildrenCopied'
    <3> SUFFICES ASSUME NEW d \in DOMAIN origin
                 PROVE  /\ Len(children'[d]) <= Len(children'[origin[d]])
                        /\ \A k \in DOMAIN children'[d] :
                             /\ children'[d][k] \in DOMAIN origin
                             /\ origin[children'[d][k]] = children'[origin[d]][k]
                        /\ \/ \E k \in 1 .. m : stack'[k].clone = d
                           \/ Len(children'[d]) = Len(children'[origin[d]])
      BY <2>8, <1>1 DEF ChildrenCopied
    <3>1. d \in Instances /\ children'[origin[d]] = children[origin[d]]
      BY <2>7, CloneNumber
    <3>2. CASE d = caller.clone
      <4>1. \A k \in 1 .. len : /\ children[d][k] \in DOMAIN origin
                                /\ origin[children[d][k]] = children[origin[d]][k]
        BY <3>2, <2>6 DEF ShapeInv, ChildrenCopied
      <4>2. ASSUME NEW k \in 1 .. len + 1
            PROVE  /\ children'[d][k] \in DOMAIN origin
                   /\ origin[children'[d][k]] = children[origin[d]][k]
        <5>1. CASE k = len + 1
          BY <3>2, <5>1, <2>3, <2>4, <2>6, <1>3
        <5>2. CASE k \in 1 .. len
          BY <3>2, <4>1, <5>2, <2>6
        <5>3. QED
          BY <5>1, <5>2, <2>6
      <4>3. Len(children'[d]) <= Len(children[origin[d]])
        BY <3>2, <2>3, <2>4, <2>6
      <4>4. m \in 1 .. m /\ stack'[m].clone = d
        BY <3>2, <2>1, <2>8
      <4>5. QED
        BY <3>1, <3>2, <4>2, <4>3, <4>4, <2>6
    <3>3. CASE d # caller.clone
      <4>1. children'[d] = children[d]
        BY <3>1, <3>3, <2>5
      <4>2. \/ \E k \in 1 .. m : stack'[k].clone = d
            \/ Len(children[d]) = Len(children[origin[d]])
        <5>1. CASE \E k \in DOMAIN stack : stack[k].clone = d
          <6>1. PICK k \in 1 .. n : stack[k].clone = d
            BY <5>1, <1>2
          <6>2. CASE k = n
            BY <6>1, <6>2, <1>2, <1>5
          <6>3. CASE k # n
            <7>1. k \in 1 .. m
              BY <6>1, <6>3, <2>1, <1>2
            <7>2. QED
              BY <6>1, <7>1, <2>8
          <6>4. QED
            BY <6>2, <6>3
        <5>2. QED
          BY <5>1 DEF ShapeInv, ChildrenCopied
      <4>3. QED
        BY <3>1, <4>1, <4>2 DEF ShapeInv, ChildrenCopied
    <3>4. QED
      BY <3>2, <3>3
  <2>13. QED
    BY <2>10, <2>11, <2>12
<1>9. ValuesCopied'
  <2> SUFFICES ASSUME NEW c \in DOMAIN origin, NEW p \in Properties,
                      Target(c, p) \in Data \cup {Unset}
               PROVE  \/ InFrame(c, p)' /\ Target(c, p) \in Data
                      \/ SameValue(properties[c][p], Target(c, p))
    BY <1>1 DEF ValuesCopied, Target
  <2>1. ASSUME InFrame(c, p) PROVE InFrame(c, p)'
    <3>1. PICK k \in 1 .. n : stack[k].clone = c /\ p \in stack[k].names
      BY <2>1, <1>2 DEF InFrame
    <3>2. k \in 1 .. n - 1
      BY <3>1, <1>1, <1>2
    <3>3. CASE Under = <<>>
      BY <3>2, <3>3, <1>2
    <3>4. CASE Under # <<>>
      <4>1. stack' = [Under EXCEPT ![Len(Under)].child = @ + 1]
        BY <3>4, <1>1 DEF Store
      <4>2. \A j \in 1 .. n - 1 : Under[j] \in Frame
        BY <1>2
      <4>3. k \in DOMAIN stack' /\ stack'[k].clone = c /\ p \in stack'[k].names
        BY <3>1, <3>2, <4>1, <4>2, <1>2 DEF Frame
      <4>4. QED
        BY <4>3 DEF InFrame
    <3>5. QED
      BY <3>3, <3>4
  <2>2. QED
    BY <2>1 DEF ShapeInv, ValuesCopied
<1>10. Fresh'
  <2> SUFFICES ASSUME NEW c \in Clones \ DOMAIN origin
               PROVE  children'[c] = <<>> /\ \A p \in Properties : properties[c][p] = Unset
    BY <1>1 DEF Fresh
  <2>1. children[c] = <<>> /\ \A p \in Properties : properties[c][p] = Unset
    BY DEF ShapeInv, Fresh
  <2>2. CASE Under = <<>>
    BY <2>1, <2>2, <1>1 DEF Store
  <2>3. CASE Under # <<>>
    <3>1. Under[Len(Under)].clone \in DOMAIN origin
      BY <2>3, <1>2, <1>3
    <3>2. children' = [children EXCEPT ![Under[Len(Under)].clone] = Append(@, Top.clone)]
      BY <2>3, <1>1 DEF Store
    <3>3. QED
      BY <2>1, <3>1, <3>2 DEF CopyTypeOK
  <2>4. QED
    BY <2>2, <2>3
<1>11. QED
  BY <1>7, <1>8, <1>9, <1>10 DEF ShapeInv

(* Resolving writes to reference properties of copies only.                *)
LEMMA ResolveNextShape ==
  ASSUME CopyTypeOK, CopyInv, ShapeInv, ResolveNext
  PROVE  ShapeInv'
<1>1. /\ UNCHANGED <<children, root, clone, origin, stack>> /\ propRefs # <<>>
  BY DEF ResolveNext
<1>2. PICK pr \in PropRef : pr = Head(propRefs) /\ PendingRef(pr)
  <2>1. 1 \in DOMAIN propRefs /\ propRefs[1] = Head(propRefs) /\ propRefs[1] \in PropRef
    BY <1>1 DEF CopyTypeOK
  <2>2. QED
    BY <2>1 DEF CopyInv, Pending
<1>3. /\ pr.instance \in DOMAIN origin /\ pr.instance \in Instances \ Originals
      /\ pr.property \in Properties
      /\ Target(pr.instance, pr.property) \in Originals \cup {Nil}
  BY <1>2, CloneNumber DEF PendingRef, PropRef
<1>4. properties' = [properties EXCEPT ![pr.instance][pr.property] = ResolvedValue(pr)]
  BY <1>2 DEF ResolveNext, Resolution, Resolved, ResolvedValue
<1>5. \A i \in Instances, q \in Properties :
        i # pr.instance \/ q # pr.property => properties'[i][q] = properties[i][q]
  BY <1>3, <1>4 DEF CopyTypeOK, TypeOK
<1>6. \A i \in Originals : properties'[i] = properties[i]
  BY <1>3, <1>4, HeapAssumption DEF CopyTypeOK, TypeOK
<1>7. \A c \in DOMAIN origin, q \in Properties : Target(c, q)' = Target(c, q)
  BY <1>1, <1>6, CloneNumber DEF Target
<1>8. Chain' /\ Roots' /\ ChildrenCopied'
  BY <1>1 DEF ShapeInv, Chain, Roots, ChildrenCopied
<1>9. ValuesCopied'
  <2> SUFFICES ASSUME NEW c \in DOMAIN origin, NEW q \in Properties,
                      Target(c, q) \in Data \cup {Unset}
               PROVE  \/ InFrame(c, q) /\ Target(c, q) \in Data
                      \/ SameValue(properties'[c][q], Target(c, q))
    BY <1>1, <1>7 DEF ValuesCopied, InFrame
  <2>1. c # pr.instance \/ q # pr.property
    BY <1>3, HeapAssumption, NilAssumption
  <2>2. properties'[c][q] = properties[c][q]
    BY <2>1, <1>5, CloneNumber
  <2>3. QED
    BY <2>2 DEF ShapeInv, ValuesCopied
<1>10. Fresh'
  BY <1>1, <1>3, <1>5, HeapAssumption DEF ShapeInv, Fresh
<1>11. QED
  BY <1>8, <1>9, <1>10 DEF ShapeInv

LEMMA InitShape == CopyInit => ShapeInv
<1> SUFFICES ASSUME CopyInit PROVE ShapeInv
  OBVIOUS
<1>1. CopyTypeOK
  BY InitType
<1>2. /\ origin = <<>> /\ stack = <<>> /\ clone.instances = <<>>
      /\ root.instances \in Seq(Originals)
  BY <1>1 DEF CopyInit, CopyTypeOK
<1>3. /\ DOMAIN origin = {} /\ DOMAIN stack = {} /\ DOMAIN clone.instances = {}
      /\ Len(clone.instances) = 0 /\ Len(root.instances) \in Nat
  BY <1>2
<1>4. Chain /\ Roots /\ ChildrenCopied /\ ValuesCopied
  BY <1>2, <1>3 DEF Chain, Roots, ChildrenCopied, ValuesCopied
<1>5. ASSUME NEW c \in Clones
      PROVE  children[c] = <<>> /\ \A p \in Properties : properties[c][p] = Unset
  <2>1. c \in Instances /\ c \notin Originals
    BY HeapAssumption
  <2>2. QED
    BY <2>1 DEF CopyInit
<1>6. Fresh
  BY <1>5 DEF Fresh
<1>7. QED
  BY <1>4, <1>6 DEF ShapeInv

LEMMA StepShape ==
  ASSUME CopyTypeOK, CopyInv, ShapeInv, [CopyNext]_copyVars
  PROVE  ShapeInv'
<1>1. CASE CopyRoot
  <2> DEFINE i == root.instances[Len(clone.instances) + 1]
  <2>1. i \in Originals /\ stack = <<>> /\ Len(clone.instances) < Len(root.instances)
    BY <1>1, CalledInstances DEF CopyInv, CopyRoot
  <2>2. PICK ref \in Refs : Call(i, ref)
    BY <1>1 DEF CopyRoot
  <2>3. QED
    BY <2>1, <2>2, CallShape
<1>2. CASE CopyChild
  <2> DEFINE i == children[Top.instance][Top.child]
  <2>1. i \in Originals /\ stack # <<>> /\ Top.child <= Len(children[Top.instance])
    BY <1>2, CalledInstances DEF CopyInv, CopyChild
  <2>2. PICK ref \in Refs : Call(i, ref)
    BY <1>2 DEF CopyChild
  <2>3. QED
    BY <2>1, <2>2, CallShape
<1>3. CASE UNCHANGED copyVars
  <2>1. UNCHANGED <<properties, children, root, clone, origin, stack>>
    BY <1>3 DEF copyVars
  <2>2. Chain' /\ Roots' /\ ChildrenCopied' /\ Fresh'
    BY <2>1 DEF ShapeInv, Chain, Roots, ChildrenCopied, Fresh
  <2>3. ValuesCopied'
    BY <2>1 DEF ShapeInv, ValuesCopied, Target, InFrame
  <2>4. QED
    BY <2>2, <2>3 DEF ShapeInv
<1>4. QED
  BY <1>1, <1>2, <1>3, CopyReferenceShape, CopyValueShape, ReturnShape, ResolveNextShape
     DEF CopyNext, Returned

(* The copy has the shape of what was copied and its values, but for the   *)
(* cached faces of fonts, for every heap that Copy returns for, trees or   *)
(* not (file.go, Root.Copy and Instance.copy; values.go, ValueFont.Copy).  *)
THEOREM SameTreeCopied == CopySpec => []SameTree
<1> DEFINE Inv == CopyTypeOK /\ CopyInv /\ ShapeInv
<1>1. CopyInit => Inv
  BY InitInv, InitShape
<1>2. Inv /\ [CopyNext]_copyVars => Inv'
  BY StepInv, StepShape
<1>3. Inv => SameTree
  <2> SUFFICES ASSUME CopyTypeOK, CopyInv, ShapeInv, Finished
               PROVE  /\ [k \in DOMAIN clone.instances |-> origin[clone.instances[k]]] = root.instances
                      /\ \A c \in DOMAIN origin :
                           /\ \A k \in DOMAIN children[c] : children[c][k] \in DOMAIN origin
                           /\ [k \in DOMAIN children[c] |-> origin[children[c][k]]]
                                = children[origin[c]]
                           /\ \A p \in Properties :
                                properties[origin[c]][p] \in Data \cup {Unset} =>
                                  SameValue(properties[c][p], properties[origin[c]][p])
    BY DEF SameTree
  <2>1. stack = <<>> /\ DOMAIN stack = {} /\ Len(clone.instances) = Len(root.instances)
    BY DEF Finished, CopyDone
  <2>2. [k \in DOMAIN clone.instances |-> origin[clone.instances[k]]] = root.instances
    <3>1. root.instances \in Seq(Originals) /\ clone.instances \in Seq(Clones)
      BY DEF CopyTypeOK
    <3>2. DOMAIN root.instances = DOMAIN clone.instances
      BY <2>1, <3>1
    <3>3. root.instances = [k \in DOMAIN root.instances |-> root.instances[k]]
      BY <3>1
    <3>4. \A k \in DOMAIN clone.instances : origin[clone.instances[k]] = root.instances[k]
      BY DEF ShapeInv, Roots
    <3>5. QED
      BY <3>2, <3>3, <3>4
  <2>3. ASSUME NEW c \in DOMAIN origin
        PROVE  /\ \A k \in DOMAIN children[c] : children[c][k] \in DOMAIN origin
               /\ [k \in DOMAIN children[c] |-> origin[children[c][k]]] = children[origin[c]]
    <3>1. /\ Len(children[c]) = Len(children[origin[c]])
          /\ \A k \in DOMAIN children[c] :
               children[c][k] \in DOMAIN origin /\ origin[children[c][k]] = children[origin[c]][k]
      BY <2>1 DEF ShapeInv, ChildrenCopied
    <3>2. children[c] \in Seq(Instances) /\ children[origin[c]] \in Seq(Instances)
      BY CloneNumber, HeapAssumption DEF CopyTypeOK
    <3>3. DOMAIN children[c] = DOMAIN children[origin[c]]
      BY <3>1, <3>2
    <3>4. children[origin[c]] = [k \in DOMAIN children[origin[c]] |-> children[origin[c]][k]]
      BY <3>2
    <3>5. QED
      BY <3>1, <3>3, <3>4
  <2>4. ASSUME NEW c \in DOMAIN origin, NEW p \in Properties,
               properties[origin[c]][p] \in Data \cup {Unset}
        PROVE  SameValue(properties[c][p], properties[origin[c]][p])
    BY <2>1, <2>4 DEF ShapeInv, ValuesCopied, Target, InFrame
  <2>5. QED
    BY <2>2, <2>3, <2>4 DEF SameTree
<1>4. QED
  BY <1>1, <1>2, <1>3, PTL DEF CopySpec

-------------------------------------------------------------------------------
(***************************************************************************)
(* The names the caller set.  As long as the instances met so far have     *)
(* good names, Get finds each of them free or taken by the instance itself *)
(* and renames nobody; that is seen only together with the fact that the   *)
(* table leads to instances met so far.                                    *)
(***************************************************************************)
GoodNames ==
  \A i, j \in Named \cap Originals :
    /\ ~IsEmptyReference(given[i])
    /\ given[i] = given[j] => i = j

NamesInv ==
  GoodNames =>
    /\ \A i \in Originals : reference[i] = given[i]
    /\ \A r \in Refs : refs[r] # Nil => refs[r] \in Named

(* Get of an instance whose name is good gives it that name.               *)
LEMMA GoodNameKept ==
  ASSUME CopyTypeOK, Tables, NamesInv, NEW i \in Originals, NEW ref \in Refs,
         ref \in GetReference(refs, i, reference[i]),
         UNCHANGED given, Named \subseteq Named', i \in Named', GoodNames'
  PROVE  /\ ref = reference[i]
         /\ \A j \in Originals : reference[j] = given[j]
         /\ \A r \in Refs : refs[r] # Nil => refs[r] \in Named
<1>1. GoodNames
  BY DEF GoodNames
<1>2. /\ \A j \in Originals : reference[j] = given[j]
      /\ \A r \in Refs : refs[r] # Nil => refs[r] \in Named
  BY <1>1 DEF NamesInv
<1>3. ~IsEmptyReference(reference[i])
  BY <1>2 DEF GoodNames
<1>4. refs[reference[i]] \in {Nil, i}
  <2> SUFFICES ASSUME refs[reference[i]] # Nil PROVE refs[reference[i]] = i
    OBVIOUS
  <2> DEFINE j == refs[reference[i]]
  <2>1. reference[i] \in Refs
    BY HeapAssumption DEF CopyTypeOK, TypeOK
  <2>2. j \in Originals /\ reference[j] = reference[i] /\ j \in Named
    BY <1>2, <2>1 DEF Tables
  <2>3. given[i] = given[j]
    BY <1>2, <2>2
  <2>4. QED
    BY <2>2, <2>3 DEF GoodNames
<1>5. QED
  BY <1>2, <1>3, <1>4 DEF GetReference, MustRename

LEMMA StepNames ==
  ASSUME CopyTypeOK, CopyInv, NamesInv, [CopyNext]_copyVars
  PROVE  NamesInv'
<1>1. CopyTypeOK' /\ CopyInv'
  BY StepInv
<1>2. given' = given
  BY DEF CopyNext, CopyRoot, CopyReference, CopyValue, CopyChild, Return, ResolveNext, Returned,
         Call, copyVars
<1>3. /\ \A c \in DOMAIN origin : c \in DOMAIN origin' /\ origin'[c] = origin[c]
      /\ \A i \in Originals : properties'[i] = properties[i]
  <2>1. CASE UNCHANGED <<origin, properties>>
    BY <2>1
  <2>2. CASE UNCHANGED properties /\ \E i \in Originals : origin' = Append(origin, i)
    BY <2>2 DEF CopyTypeOK
  <2>3. CASE CopyValue
    <3>1. PICK p, v : properties' = [properties EXCEPT ![Top.clone][p] = v]
      BY <2>3 DEF CopyValue
    <3>2. Top.clone \notin Originals /\ origin' = origin
      BY <2>3, UnderFrames, HeapAssumption DEF CopyValue, CopyTypeOK, Frame
    <3>3. QED
      BY <3>1, <3>2, HeapAssumption DEF CopyTypeOK, TypeOK
  <2>4. CASE ResolveNext
    <3>1. Head(propRefs) \in PropRef /\ origin' = origin
      BY <2>4 DEF ResolveNext, CopyTypeOK
    <3>2. Head(propRefs).instance \notin Originals
      BY <3>1, HeapAssumption DEF PropRef
    <3>3. PICK p, v : properties' = [properties EXCEPT ![Head(propRefs).instance][p] = v]
      BY <2>4 DEF ResolveNext, Resolution, Resolved
    <3>4. QED
      BY <3>1, <3>2, <3>3, HeapAssumption DEF CopyTypeOK, TypeOK
  <2>5. CASE CopyRoot \/ CopyChild
    <3>1. PICK i \in Originals, ref \in Refs : Call(i, ref)
      BY <2>5, CalledInstances DEF CopyRoot, CopyChild, CopyInv
    <3>2. QED
      BY <3>1, <2>2 DEF Call
  <2>6. QED
    BY <2>1, <2>3, <2>4, <2>5 DEF CopyNext, CopyReference, Return, Returned, copyVars
<1>4. Named \subseteq Named'
  <2>1. Copied \subseteq Copied' /\ Copied \subseteq Originals
    BY <1>3, CloneNumber DEF Copied
  <2>2. QED
    BY <1>3, <2>1 DEF Named
<1>5. CASE UNCHANGED <<refs, reference>>
  BY <1>2, <1>4, <1>5 DEF NamesInv, GoodNames
<1>6. ASSUME NEW i \in Originals, NEW ref \in Refs, i \in Named',
             ref \in GetReference(refs, i, reference[i]),
             \A j \in Originals : j # i => reference'[j] = reference[j],
             reference'[i] = ref,
             refs' = [refs EXCEPT ![ref] = i]
      PROVE  NamesInv'
  <2> SUFFICES ASSUME GoodNames'
               PROVE  /\ \A j \in Originals : reference'[j] = given'[j]
                      /\ \A r \in Refs : refs'[r] # Nil => refs'[r] \in Named'
    BY DEF NamesInv
  <2>1. /\ ref = reference[i]
        /\ \A j \in Originals : reference[j] = given[j]
        /\ \A r \in Refs : refs[r] # Nil => refs[r] \in Named
    BY <1>2, <1>4, <1>6, GoodNameKept DEF CopyInv
  <2>2. refs \in [Refs -> Instances \cup {Nil}]
    BY DEF CopyTypeOK, TypeOK
  <2>3. QED
    BY <1>2, <1>4, <1>6, <2>1, <2>2
<1>7. CASE CopyRoot \/ CopyChild
  <2>1. PICK i \in Originals, ref \in Refs : Call(i, ref)
    BY <1>7, CalledInstances DEF CopyRoot, CopyChild, CopyInv
  <2> DEFINE c == Len(origin) + 1
  <2>2. c \in Clones /\ c \notin Originals /\ c \in Instances /\ i \in Instances
    BY <2>1, HeapAssumption DEF Call
  <2>3. /\ \A j \in Originals : j # i => reference'[j] = reference[j]
        /\ reference'[i] = ref
    BY <2>1, <2>2, HeapAssumption DEF Call, CopyTypeOK, TypeOK
  <2>4. c \in DOMAIN origin' /\ origin'[c] = i
    BY <2>1 DEF Call, CopyTypeOK
  <2>5. i \in Named'
    BY <2>4 DEF Named, Copied
  <2>6. ref \in GetReference(refs, i, reference[i]) /\ refs' = [refs EXCEPT ![ref] = i]
    BY <2>1 DEF Call
  <2>7. QED
    BY <1>6, <2>3, <2>5, <2>6
<1>8. CASE CopyReference
  <2>1. PICK p \in Top.names, ref \in Refs :
          \/ UNCHANGED <<refs, reference>>
          \/ properties[Top.instance][p] \in Instances /\ Get(properties[Top.instance][p], ref)
    BY <1>8 DEF CopyReference
  <2> DEFINE i == properties[Top.instance][p]
  <2>2. CASE i \in Instances /\ Get(i, ref)
    <3>1. /\ stack # <<>> /\ Top \in Frame /\ UNCHANGED <<properties, origin>>
          /\ Len(stack) \in DOMAIN stack
      BY <1>8, UnderFrames DEF CopyReference, CopyTypeOK
    <3>2. Top.clone \in DOMAIN origin /\ origin[Top.clone] = Top.instance
      BY <3>1 DEF CopyInv, Frames, Top
    <3>3. p \in Properties /\ Top.instance \in Copied /\ Top.instance \in Originals
      BY <3>1, <3>2 DEF Frame, Copied
    <3>4. i \in Originals
      BY <2>2, <3>3, NilAssumption DEF CopyInv, HeapKept
    <3>5. i \in Named /\ i \in Named'
      BY <3>3, <1>4 DEF Named
    <3>6. /\ ref \in GetReference(refs, i, reference[i]) /\ refs' = [refs EXCEPT ![ref] = i]
          /\ reference' = [reference EXCEPT ![i] = ref]
      BY <2>2 DEF Get
    <3>7. /\ \A j \in Originals : j # i => reference'[j] = reference[j]
          /\ reference'[i] = ref
      BY <3>4, <3>6, HeapAssumption DEF CopyTypeOK, TypeOK
    <3>8. QED
      BY <1>6, <3>4, <3>5, <3>6, <3>7
  <2>3. QED
    BY <1>5, <2>1, <2>2
<1>9. QED
  BY <1>5, <1>7, <1>8 DEF CopyNext, CopyValue, Return, ResolveNext, Returned, copyVars

(* Copying renames no instance of a tree whose names were good, whatever   *)
(* the generator draws (ref.go, Get; file.go, Instance.copy).              *)
THEOREM GoodNamesAlwaysKept == CopySpec => []GoodNamesKept
<1> DEFINE Inv == CopyTypeOK /\ CopyInv /\ NamesInv
<1>1. CopyInit => NamesInv
  <2> SUFFICES ASSUME CopyInit PROVE NamesInv
    OBVIOUS
  <2>1. \A r \in Refs : refs[r] = Nil
    BY DEF CopyInit, EmptyTable
  <2>2. \A i \in Originals : reference[i] = given[i]
    BY HeapAssumption DEF CopyInit
  <2>3. QED
    BY <2>1, <2>2 DEF NamesInv
<1>2. CopyInit => Inv
  BY <1>1, InitInv
<1>3. Inv /\ [CopyNext]_copyVars => Inv'
  BY StepInv, StepNames
<1>4. Inv => GoodNamesKept
  BY DEF NamesInv, GoodNames, GoodNamesKept
<1>5. QED
  BY <1>2, <1>3, <1>4, PTL DEF CopySpec

===============================================================================
