--------------------------- MODULE ReferencesProofs ---------------------------
(***************************************************************************)
(* Proofs about References: the table never loses, shares or renames a     *)
(* reference, for any number of instances, names and properties.           *)
(***************************************************************************)
EXTENDS References, TLAPS

(* Get leaves with a name that is not empty and is either free or already  *)
(* its own: the test before the loop and the loop's exit agree (ref.go).   *)
LEMMA GetReferenceFree ==
  ASSUME TypeOK, NEW i \in Instances,
         NEW ref \in GetReference(refs, i, reference[i])
  PROVE  ref \in Refs /\ ref \notin EmptyRefs /\ refs[ref] \in {Nil, i}
<1>1. CASE MustRename(refs, i, reference[i])
  BY <1>1, GeneratedAssumption DEF GetReference, GenerateReference
<1>2. CASE ~MustRename(refs, i, reference[i])
  BY <1>2 DEF GetReference, MustRename, IsEmptyReference, TypeOK
<1>3. QED
  BY <1>1, <1>2

(* Every Get and every Resolve keeps the state well typed.                 *)
THEOREM TypeCorrect == Spec => []TypeOK
<1>1. Init => TypeOK
  BY NilAssumption DEF Init, TypeOK, EmptyTable
<1>2. TypeOK /\ [Next]_vars => TypeOK'
  <2> SUFFICES ASSUME TypeOK, [Next]_vars PROVE TypeOK'
    OBVIOUS
  <2>1. ASSUME NEW i \in Instances, NEW ref \in Refs, Get(i, ref), UNCHANGED properties
        PROVE  TypeOK'
    BY <2>1 DEF Get, TypeOK
  <2>2. ASSUME NEW i \in Instances, NEW p \in Properties, NEW r \in Refs, Resolve(i, p, r)
        PROVE  TypeOK'
    BY <2>2 DEF Resolve, Resolved, TypeOK, Value
  <2>3. CASE UNCHANGED vars
    BY <2>3 DEF vars, TypeOK
  <2>4. QED
    BY <2>1, <2>2, <2>3 DEF Next
<1>3. QED
  BY <1>1, <1>2, PTL DEF Spec

-------------------------------------------------------------------------------

(* What one step may do to the marks, from any state that keeps them.      *)
Marks == MarksAgree /\ EmptyNeverMarked /\ ResolvedIsMarked

MarksStep ==
  \A r \in Refs : refs[r] # Nil => refs'[r] = refs[r] /\ reference'[refs[r]] = r

LEMMA GetKeepsNames ==
  ASSUME TypeOK, MarksAgree, EmptyNeverMarked,
         NEW i \in Instances, NEW ref \in Refs, Get(i, ref)
  PROVE  MarksAgree' /\ EmptyNeverMarked' /\ MarksStep
<1>1. ref \notin EmptyRefs /\ refs[ref] \in {Nil, i}
  BY GetReferenceFree DEF Get
<1>2. /\ reference' = [reference EXCEPT ![i] = ref]
      /\ refs' = [refs EXCEPT ![ref] = i]
  BY DEF Get
<1>3. MarksStep
  <2> SUFFICES ASSUME NEW r \in Refs, refs[r] # Nil
               PROVE  refs'[r] = refs[r] /\ reference'[refs[r]] = r
    BY DEF MarksStep
  <2>1. refs[r] \in Instances /\ reference[refs[r]] = r
    BY DEF TypeOK, MarksAgree
  <2>2. CASE refs[r] = i
    <3>1. reference[i] = r /\ ~MustRename(refs, i, r)
      BY <2>1, <2>2 DEF MustRename, IsEmptyReference, EmptyNeverMarked
    <3>2. ref = r
      BY <3>1 DEF Get, GetReference
    <3>3. QED
      BY <1>2, <2>1, <2>2, <3>2 DEF TypeOK
  <2>3. CASE refs[r] # i
    BY <1>1, <1>2, <2>1, <2>3 DEF TypeOK
  <2>4. QED
    BY <2>2, <2>3
<1>4. MarksAgree'
  BY <1>2, <1>3, NilAssumption DEF MarksAgree, MarksStep, TypeOK
<1>5. EmptyNeverMarked'
  BY <1>1, <1>2, RefsAssumption DEF EmptyNeverMarked, TypeOK
<1>6. QED
  BY <1>3, <1>4, <1>5

LEMMA GetKeepsMarks ==
  ASSUME TypeOK, Marks, NEW i \in Instances, NEW ref \in Refs,
         Get(i, ref), UNCHANGED properties
  PROVE  Marks' /\ MarksStep
<1>1. MarksAgree' /\ EmptyNeverMarked' /\ MarksStep
  BY GetKeepsNames DEF Marks
<1>2. ResolvedIsMarked'
  <2> SUFFICES ASSUME NEW j \in Instances, NEW p \in Properties,
                      properties[j][p] \in Instances
               PROVE  refs'[reference'[properties[j][p]]] = properties[j][p]
    BY DEF ResolvedIsMarked
  <2>1. refs[reference[properties[j][p]]] = properties[j][p]
    BY DEF Marks, ResolvedIsMarked
  <2>2. reference[properties[j][p]] \in Refs
    BY DEF TypeOK
  <2>3. QED
    BY <1>1, <2>1, <2>2, NilAssumption DEF MarksStep
<1>3. QED
  BY <1>1, <1>2 DEF Marks

LEMMA ResolveKeepsMarks ==
  ASSUME TypeOK, Marks, NEW i \in Instances, NEW p \in Properties, NEW r \in Refs,
         Resolve(i, p, r)
  PROVE  Marks' /\ MarksStep
<1>1. refs' = refs /\ reference' = reference
  BY DEF Resolve
<1>2. MarksStep /\ MarksAgree' /\ EmptyNeverMarked'
  BY <1>1 DEF Marks, MarksStep, MarksAgree, EmptyNeverMarked
<1>3. ResolvedIsMarked'
  <2> SUFFICES ASSUME NEW j \in Instances, NEW q \in Properties,
                      properties'[j][q] \in Instances
               PROVE  refs[reference[properties'[j][q]]] = properties'[j][q]
    BY <1>1 DEF ResolvedIsMarked
  <2>1. CASE j = i /\ q = p
    <3>1. properties'[j][q] = refs[r]
      BY <2>1 DEF Resolve, Resolved, TypeOK
    <3>2. QED
      BY <3>1, NilAssumption DEF Marks, MarksAgree
  <2>2. CASE ~(j = i /\ q = p)
    <3>1. properties'[j][q] = properties[j][q]
      BY <2>2 DEF Resolve, Resolved, TypeOK
    <3>2. QED
      BY <3>1 DEF Marks, ResolvedIsMarked
  <2>3. QED
    BY <2>1, <2>2
<1>4. QED
  BY <1>2, <1>3 DEF Marks

LEMMA StepKeepsMarks == TypeOK /\ Marks /\ [Next]_vars => Marks' /\ MarksStep
<1> SUFFICES ASSUME TypeOK, Marks, [Next]_vars PROVE Marks' /\ MarksStep
  OBVIOUS
<1>1. CASE UNCHANGED vars
  BY <1>1 DEF vars, Marks, MarksAgree, EmptyNeverMarked, ResolvedIsMarked, MarksStep
<1>2. CASE Next
  BY <1>2, GetKeepsMarks, ResolveKeepsMarks DEF Next
<1>3. QED
  BY <1>1, <1>2

LEMMA InitMarks == Init => Marks
BY RefsAssumption, NilAssumption
   DEF Init, Marks, MarksAgree, EmptyNeverMarked, ResolvedIsMarked, EmptyTable

LEMMA MarksInvariant == Spec => []Marks
<1>1. QED
  BY InitMarks, TypeCorrect, StepKeepsMarks, PTL DEF Spec

(* Two instances in the table never share a Reference: each key is the     *)
(* Reference of the instance it leads to (ref.go, Get).                    *)
THEOREM MarksAgreeAlways == Spec => []MarksAgree
<1>1. Marks => MarksAgree
  BY DEF Marks
<1>2. QED
  BY <1>1, MarksInvariant, PTL

(* What Resolve linked is always found again under its own Reference.      *)
THEOREM ResolvedIsMarkedAlways == Spec => []ResolvedIsMarked
<1>1. Marks => ResolvedIsMarked
  BY DEF Marks
<1>2. QED
  BY <1>1, MarksInvariant, PTL

(* A reference that was handed out keeps its meaning for ever (ref.go).    *)
THEOREM MarksNeverMove == Spec => MarksPermanent
<1>1. TypeOK /\ Marks /\ [Next]_vars =>
        [\A r \in Refs : refs[r] # Nil => /\ refs'[r] = refs[r]
                                          /\ reference'[refs[r]] = r]_vars
  BY StepKeepsMarks DEF MarksStep
<1>2. QED
  BY <1>1, TypeCorrect, MarksInvariant, PTL DEF Spec, MarksPermanent
===============================================================================
