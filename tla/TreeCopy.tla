------------------------------- MODULE TreeCopy -------------------------------
(***************************************************************************)
(* Root.Copy and Instance.Copy of file.go.  The recursive copy is a stack  *)
(* of frames, one for each call of Instance.copy that has not returned;    *)
(* the range over the Properties map takes the names in any order.  When   *)
(* the recursion is over, the collected PropRefs are resolved in turn,     *)
(* first in the table of copies, then in the table of originals.           *)
(*                                                                         *)
(* The heap holds the instances given and the copies, numbered in the      *)
(* order they are allocated.  Instance.Copy(inst) is the case of one root, *)
(* which may sit in the middle of a larger tree.                           *)
(***************************************************************************)
EXTENDS References, Naturals, Sequences

CONSTANTS
  Originals,   \* the instances that exist before the copy
  MaxClones,   \* how many copies the heap has room for
  Metadata,    \* contents of Root.Metadata
  NoMetadata,  \* a Metadata map with no entry
  Contents,    \* what a ValueContent holds
  Fonts,       \* the values that are fonts, bare or held by optionals
  Font,        \* Font[f]: the optionals around font f, its Family, its CachedFaceId
  Inputs       \* the heaps to copy: [roots, metadata, children, reference, properties]

Clones == 1 .. MaxClones

ASSUME HeapAssumption ==
  /\ MaxClones \in Nat
  /\ Originals \cap Clones = {}
  /\ Instances = Originals \cup Clones
  /\ NoMetadata \in Metadata

(* What value.Copy() may return.  A font takes its family for its cached   *)
(* face, an optional copies what it holds, any other value stays itself.   *)
ValueCopies(value) ==
  IF value \in Fonts
  THEN {f \in Fonts : Font[f] = [Font[value] EXCEPT !.cachedFaceId = Font[value].family]}
  ELSE {value}

ASSUME FontsAssumption ==
  /\ Fonts \subseteq Data
  /\ Font \in [Fonts -> [optionals : Nat, family : Contents, cachedFaceId : Contents]]
  /\ \A f \in Fonts : ValueCopies(f) # {}

ASSUME InputsAssumption ==
  Inputs \subseteq [roots : Seq(Originals), metadata : Metadata,
                    children : [Originals -> Seq(Originals)],
                    reference : [Originals -> Refs],
                    properties : [Originals -> [Properties -> Originals \cup {Nil, Unset} \cup Data]]]

VARIABLES
  children,    \* the Children field of every instance
  root,        \* the Root that is copied
  clone,       \* the Root that is built
  origin,      \* origin[c] is what copy c was made from: its ClassName and IsService
  crefs,       \* the second References table: reference string -> copy
  propRefs,    \* the PropRefs not resolved yet
  stack,       \* one frame for each running call of copy
  given        \* (history) the Reference fields before the call

copyVars == <<refs, reference, properties, children, root, clone, origin, crefs,
              propRefs, stack, given>>

PropRef == [instance : Clones, property : Properties, reference : Refs]
Frame ==
  [instance : Originals, clone : Clones, names : SUBSET Properties, child : Nat \ {0}]

CopyTypeOK ==
  /\ TypeOK
  /\ children \in [Instances -> Seq(Instances)]
  /\ root \in [instances : Seq(Originals), metadata : Metadata]
  /\ clone \in [instances : Seq(Clones), metadata : Metadata]
  /\ origin \in Seq(Originals) /\ Len(origin) <= MaxClones
  /\ crefs \in [Refs -> Clones \cup {Nil}]
  /\ propRefs \in Seq(PropRef)
  /\ stack \in Seq(Frame)
  /\ given \in [Originals -> Refs]

-------------------------------------------------------------------------------

Top == stack[Len(stack)]
Under == SubSeq(stack, 1, Len(stack) - 1)

(* The instances whose copies exist.                                       *)
Copied == {origin[c] : c \in DOMAIN origin}

(* The names the range over inst.Properties visits.                        *)
SetNames(i) == {p \in Properties : properties[i][p] # Unset}

(* The call copy(i) up to its loops: the original gets its reference, the  *)
(* copy takes the same one and enters the second table.                    *)
Call(i, ref) ==
  LET c == Len(origin) + 1 IN
  /\ c \in Clones
  /\ ref \in GetReference(refs, i, reference[i])
  /\ reference' = [reference EXCEPT ![i] = ref, ![c] = ref]
  /\ refs' = [refs EXCEPT ![ref] = i]
  /\ crefs' = [crefs EXCEPT ![ref] = c]
  /\ origin' = Append(origin, i)
  /\ stack' = Append(stack, [instance |-> i, clone |-> c, names |-> SetNames(i), child |-> 1])
  /\ UNCHANGED <<properties, children, root, clone, propRefs, given>>

(* The loop of Root.Copy over the root instances.                          *)
CopyRoot ==
  /\ stack = <<>>
  /\ Len(clone.instances) < Len(root.instances)
  /\ \E ref \in Refs : Call(root.instances[Len(clone.instances) + 1], ref)

(* A property that is a reference waits for the end of the recursion.  The *)
(* referent, in the tree or not, gets its reference now.                   *)
CopyReference ==
  /\ stack # <<>>
  /\ \E p \in Top.names, ref \in Refs :
       LET target == properties[Top.instance][p] IN
       /\ \/ target = Nil /\ ref = NoRef /\ UNCHANGED <<refs, reference>>
          \/ target \in Instances /\ Get(target, ref)
       /\ propRefs' = Append(propRefs,
                        [instance |-> Top.clone, property |-> p, reference |-> ref])
       /\ stack' = Append(Under, [Top EXCEPT !.names = @ \ {p}])
  /\ UNCHANGED <<properties, children, root, clone, origin, crefs, given>>

(* Any other value is copied at once.                                      *)
CopyValue ==
  /\ stack # <<>>
  /\ \E p \in Top.names :
       LET value == properties[Top.instance][p] IN
       /\ value \in Data
       /\ \E copy \in ValueCopies(value) :
            properties' = [properties EXCEPT ![Top.clone][p] = copy]
       /\ stack' = Append(Under, [Top EXCEPT !.names = @ \ {p}])
  /\ UNCHANGED <<refs, reference, children, root, clone, origin, crefs, propRefs, given>>

(* The loop over inst.Children, once every property was visited.           *)
CopyChild ==
  /\ stack # <<>>
  /\ Top.names = {}
  /\ Top.child <= Len(children[Top.instance])
  /\ \E ref \in Refs : Call(children[Top.instance][Top.child], ref)

(* Mutants of Store: the child index is not advanced; the copy lands in    *)
(* front of its siblings; the root receives the original.                  *)
MutStoreStuck(c, under) ==
  /\ stack' = under
  /\ clone' = IF under = <<>> THEN [clone EXCEPT !.instances = Append(@, c)] ELSE clone
  /\ children' = IF under = <<>> THEN children
                 ELSE [children EXCEPT ![under[Len(under)].clone] = Append(@, c)]
MutStoreFront(c, under) ==
  /\ stack' = IF under = <<>> THEN <<>> ELSE [under EXCEPT ![Len(under)].child = @ + 1]
  /\ clone' = IF under = <<>> THEN [clone EXCEPT !.instances = Append(@, c)] ELSE clone
  /\ children' = IF under = <<>> THEN children
                 ELSE [children EXCEPT ![under[Len(under)].clone] = <<c>> \o @]
MutStoreOriginal(c, under) ==
  /\ stack' = IF under = <<>> THEN <<>> ELSE [under EXCEPT ![Len(under)].child = @ + 1]
  /\ clone' = IF under = <<>> THEN [clone EXCEPT !.instances = Append(@, origin[c])] ELSE clone
  /\ children' = IF under = <<>> THEN children
                 ELSE [children EXCEPT ![under[Len(under)].clone] = Append(@, c)]

(* Where the caller stores the copy: in the parent copy or in the root.    *)
Store(c, under) ==
  IF under = <<>>
  THEN /\ clone' = [clone EXCEPT !.instances = Append(@, c)]
       /\ stack' = <<>>
       /\ UNCHANGED children
  ELSE LET caller == under[Len(under)] IN
       /\ children' = [children EXCEPT ![caller.clone] = Append(@, c)]
       /\ stack' = [under EXCEPT ![Len(under)].child = @ + 1]
       /\ UNCHANGED clone

(* copy returns.                                                           *)
Return ==
  /\ stack # <<>>
  /\ Top.names = {}
  /\ Top.child > Len(children[Top.instance])
  /\ Store(Top.clone, Under)
  /\ UNCHANGED <<refs, reference, properties, root, origin, crefs, propRefs, given>>

CopyDone == stack = <<>> /\ Len(clone.instances) = Len(root.instances)

(* Mutant: the table of originals is asked first.                          *)
MutResolutionOriginalFirst(pr) ==
  Resolved(IF ResolveOK(refs, pr.reference) THEN refs ELSE crefs,
           pr.instance, pr.property, pr.reference)

(* if !crefs.Resolve(propRef) { refs.Resolve(propRef) }: the second call   *)
(* overwrites what the first assigned.                                     *)
Resolution(pr) ==
  Resolved(IF ResolveOK(crefs, pr.reference) THEN crefs ELSE refs,
           pr.instance, pr.property, pr.reference)

ResolveNext ==
  /\ CopyDone
  /\ propRefs # <<>>
  /\ properties' = Resolution(Head(propRefs))
  /\ propRefs' = Tail(propRefs)
  /\ UNCHANGED <<refs, reference, children, root, clone, origin, crefs, stack, given>>

Finished == CopyDone /\ propRefs = <<>>

Returned == Finished /\ UNCHANGED copyVars

-------------------------------------------------------------------------------

CopyInit ==
  \E in \in Inputs :
    /\ root = [instances |-> in.roots, metadata |-> in.metadata]
    /\ clone = [instances |-> <<>>, metadata |-> NoMetadata]
    /\ given = in.reference
    /\ children = [i \in Instances |-> IF i \in Originals THEN in.children[i] ELSE <<>>]
    /\ reference = [i \in Instances |-> IF i \in Originals THEN in.reference[i] ELSE NoRef]
    /\ properties = [i \in Instances |-> [p \in Properties |->
                       IF i \in Originals THEN in.properties[i][p] ELSE Unset]]
    /\ refs = EmptyTable
    /\ crefs = EmptyTable
    /\ origin = <<>>
    /\ propRefs = <<>>
    /\ stack = <<>>

CopyNext ==
  \/ CopyRoot
  \/ CopyReference
  \/ CopyValue
  \/ CopyChild
  \/ Return
  \/ ResolveNext
  \/ Returned

CopySpec == CopyInit /\ [][CopyNext]_copyVars

(* A call runs until it returns: nothing else is scheduled in between.     *)
FairCopySpec == CopySpec /\ WF_copyVars(CopyNext)

-------------------------------------------------------------------------------

(* What a copied value keeps: everything, but that the cached face of a    *)
(* font, held by optionals or not, is the family of the font from then on. *)
SameValue(copy, value) ==
  IF value \in Fonts
  THEN /\ copy \in Fonts
       /\ Font[copy].optionals = Font[value].optionals
       /\ Font[copy].family = Font[value].family
       /\ Font[copy].cachedFaceId = Font[value].family
  ELSE copy = value

(* The copy has the shape of what was copied, at every level, in the same  *)
(* order; a property that is not a reference is set where it was set, to   *)
(* the same value but for the cached face of a font; no original hangs     *)
(* under a copy (file.go, Root.Copy and Instance.copy).                    *)
SameTree ==
  Finished =>
    /\ [k \in DOMAIN clone.instances |-> origin[clone.instances[k]]] = root.instances
    /\ \A c \in DOMAIN origin :
         /\ \A k \in DOMAIN children[c] : children[c][k] \in DOMAIN origin
         /\ [k \in DOMAIN children[c] |-> origin[children[c][k]]] = children[origin[c]]
         /\ \A p \in Properties :
              properties[origin[c]][p] \in Data \cup {Unset} =>
                SameValue(properties[c][p], properties[origin[c]][p])

(* What the property of a copy must lead to: a copy of the referent if it  *)
(* was copied, the referent itself if it is outside, nil if it was nil.    *)
Corresponds(value, target) ==
  IF target \in Copied
  THEN value \in DOMAIN origin /\ origin[value] = target
  ELSE value = target

(* "A copied reference within the tree is resolved so that it points to    *)
(* the corresponding copy of the original referent.  Copied references     *)
(* that point to an instance which isn't being copied will still point to  *)
(* the same instance" (file.go:44-47), whatever names the instances had,   *)
(* shared or empty, and in whatever order the properties were visited.     *)
ReferencesFollowCopy ==
  Finished =>
    \A c \in DOMAIN origin, p \in Properties :
      properties[origin[c]][p] \in Instances \cup {Nil} =>
        Corresponds(properties[c][p], properties[origin[c]][p])

(* A copy carries the Reference its original ends with, which is not       *)
(* empty, and copies of different instances never share one, even when     *)
(* the originals did (file.go:105, ref.go, Get).                           *)
CopyNames ==
  \A c \in DOMAIN origin :
    /\ reference[c] = reference[origin[c]]
    /\ ~IsEmptyReference(reference[c])
    /\ \A d \in DOMAIN origin : reference[c] = reference[d] => origin[c] = origin[d]

(* The instances the copy may name: the copied ones and their referents.   *)
Named == Copied \cup {properties[i][p] : i \in Copied, p \in Properties}

(* Copying writes to the originals only to repair names: if none of those  *)
(* it meets had an empty name or one of another, every Reference is still  *)
(* what the caller set, although the generator could draw it.              *)
GoodNamesKept ==
  Finished =>
    ((\A i, j \in Named \cap Originals :
        /\ ~IsEmptyReference(given[i])
        /\ given[i] = given[j] => i = j)
     => \A i \in Originals : reference[i] = given[i])

(* Copying a tree without circular references always returns.              *)
CopyReturns == <>Finished

===============================================================================
