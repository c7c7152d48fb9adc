------------------------------ MODULE References ------------------------------
(***************************************************************************)
(* The References mapping of ref.go: the table that names instances while  *)
(* a tree is copied or written to XML, and that turns reference strings    *)
(* back into instances.                                                    *)
(*                                                                         *)
(* Only the two methods of the type change state.  Get may rename the      *)
(* instance it is given and always enters it in the table; Resolve writes  *)
(* one property of one instance.  The nil receiver, for which Get answers  *)
(* the bare Reference and Resolve answers false, changes nothing and is    *)
(* left out: every caller in the repository makes the map first.           *)
(***************************************************************************)

CONSTANTS
  Instances,   \* the instances that exist
  Nil,         \* Go's nil *Instance: a missing entry, an empty reference
  Unset,       \* a property name that is not in the Properties map
  Data,        \* values that are not references
  Refs,        \* reference strings
  EmptyRefs,   \* "", "null" and "nil"
  NoRef,       \* the empty string, which Get answers for a nil instance
  Generated,   \* the strings GenerateReference can draw
  Properties   \* property names

ASSUME NilAssumption ==
  /\ Nil \notin Instances
  /\ (Instances \cup {Nil}) \cap Data = {}
  /\ Unset \notin Instances \cup {Nil} \cup Data
ASSUME RefsAssumption == NoRef \in EmptyRefs /\ EmptyRefs \subseteq Refs
(* "RBX" followed by 32 hexadecimal digits is never an empty reference.    *)
ASSUME GeneratedAssumption == Generated \subseteq Refs \ EmptyRefs

VARIABLES
  refs,        \* the mapping: reference string -> instance or Nil
  reference,   \* the Reference field of every instance
  properties   \* the Properties map of every instance

vars == <<refs, reference, properties>>

Value == Instances \cup {Nil} \cup Data

TypeOK ==
  /\ refs \in [Refs -> Instances \cup {Nil}]
  /\ reference \in [Instances -> Refs]
  /\ properties \in [Instances -> [Properties -> Value \cup {Unset}]]

-------------------------------------------------------------------------------

IsEmptyReference(r) == r \in EmptyRefs

EmptyTable == [r \in Refs |-> Nil]

(* Mutants of the two definitions below: the loop that keeps its first     *)
(* draw, the guard that looks only at emptiness, the guard that renames an  *)
(* instance found under its own name.                                      *)
MutAnyGenerated(m) == Generated
MutRenameEmptyOnly(m, i, r) == IsEmptyReference(r)
MutRenameAgain(m, i, r) == IsEmptyReference(r) \/ m[r] # Nil

(* The strings the loop of Get can stop at: drawn, and not yet a key.      *)
GenerateReference(m) == {g \in Generated : m[g] = Nil}

(* Must Get give the instance i, now named r, another name?                *)
MustRename(m, i, r) == IsEmptyReference(r) \/ m[r] \notin {Nil, i}

(* The names instance i, now named r, can leave Get with.                  *)
GetReference(m, i, r) ==
  IF MustRename(m, i, r) THEN GenerateReference(m) ELSE {r}

(* refs.Get(i) answering ref.                                              *)
Get(i, ref) ==
  /\ ref \in GetReference(refs, i, reference[i])
  /\ reference' = [reference EXCEPT ![i] = ref]
  /\ refs' = [refs EXCEPT ![ref] = i]

(* Mutant: the property is left with the reference string.                 *)
MutResolvedString(m, i, p, r) == [properties EXCEPT ![i][p] = r]

(* The assignment of Resolve, for a table m and PropRef{i, p, r}.  It is   *)
(* made whether or not there is a referent.                                *)
Resolved(m, i, p, r) == [properties EXCEPT ![i][p] = m[r]]

(* What Resolve answers.                                                   *)
ResolveOK(m, r) == m[r] # Nil /\ ~IsEmptyReference(r)

Resolve(i, p, r) ==
  /\ properties' = Resolved(refs, i, p, r)
  /\ UNCHANGED <<refs, reference>>

-------------------------------------------------------------------------------

Init ==
  /\ refs = EmptyTable
  /\ reference \in [Instances -> Refs]
  /\ properties = [i \in Instances |-> [p \in Properties |-> Unset]]

Next ==
  \/ \E i \in Instances, ref \in Refs : Get(i, ref) /\ UNCHANGED properties
  \/ \E i \in Instances, p \in Properties, r \in Refs : Resolve(i, p, r)

Spec == Init /\ [][Next]_vars

-------------------------------------------------------------------------------

(* A key of the table is the current Reference of the instance it leads    *)
(* to.  Two instances in the table therefore never share a Reference,      *)
(* however many of them started with the same one (ref.go, Get).           *)
MarksAgree == \A r \in Refs : refs[r] # Nil => reference[refs[r]] = r

(* No instance is ever entered under "", "null" or "nil", so an empty      *)
(* reference never resolves to an instance (ref.go, Get and Resolve).      *)
EmptyNeverMarked == \A r \in EmptyRefs : refs[r] = Nil

(* An instance some property was resolved to can still be found in the     *)
(* table under its own Reference: what Resolve linked, a later Get writes  *)
(* out with a reference that resolves back to it (ref.go).                 *)
ResolvedIsMarked ==
  \A i \in Instances, p \in Properties :
    properties[i][p] \in Instances =>
      refs[reference[properties[i][p]]] = properties[i][p]

(* Once a reference is taken it stays with its instance: no later Get of   *)
(* any instance hands it over or renames its owner, so a reference string  *)
(* that was already written out never changes its meaning (ref.go, Get).   *)
MarksPermanent ==
  [][\A r \in Refs : refs[r] # Nil => /\ refs'[r] = refs[r]
                                      /\ reference'[refs[r]] = r]_vars

===============================================================================
