--------------------------------- MODULE Declare --------------------------------
(***************************************************************************)
(* Declared roots (declare/declare.go): Root.Declare builds the instances  *)
(* of a declaration, parents before their children, then evaluates their   *)
(* properties, the instances in no order.  A property may refer to any     *)
(* instance of the declaration by its Ref.                                 *)
(*                                                                         *)
(* A declaration is a sequence of instances and metadata.  A declared      *)
(* instance is its class and its elements, a sequence as well.             *)
(***************************************************************************)
EXTENDS References, DeclareValues

CONSTANTS
  Declarations, \* the declarations
  Fresh,        \* the instances NewInstance makes, in this order
  Metadata,     \* keys and values of metadata
  NoAttr        \* a key that is not in the Metadata map

ASSUME FreshAssumption ==
  Fresh \in Seq(Instances) /\ \A m, n \in DOMAIN Fresh : m # n => Fresh[m] # Fresh[n]

VARIABLES
  decl,         \* the declaration
  stage,        \* build, evaluate, then declared or panic
  builds,       \* the calls of build still to be made
  builtFor,     \* the declared instance that each instance was built for
  classOf,      \* the fields of the instances that are built, but for
  childrenOf,   \*   their references and properties
  roots,        \* Root.Instances
  metadata,     \* Root.Metadata
  named,        \* the references: the instance of each Ref
  props         \* the instances whose properties are to be evaluated

declareVars == <<decl, stage, builds, builtFor, classOf, childrenOf, roots, metadata, named, props>>

-------------------------------------------------------------------------------
(* Instance: the elements by kind, the last Ref counting.                  *)
OfKind(dinst, is) == SelectSeq(dinst.elements, LAMBDA e : e.is = is)
DeclaredRef(dinst) == IF OfKind(dinst, "ref") = <<>> THEN NoRef ELSE Last(OfKind(dinst, "ref")).ref
DeclaredProperties(dinst) == OfKind(dinst, "property")
DeclaredChildren(dinst) == OfKind(dinst, "instance")

BuildsFor(list, parent) == [i \in DOMAIN list |-> [dinst |-> list[i], parent |-> parent]]
Built == DOMAIN builtFor

(* build, up to the children, and a step of the loop that calls it.        *)
Build ==
  /\ stage = "build" /\ builds # <<>> /\ Head(builds).dinst.is = "instance"
  /\ LET dinst == Head(builds).dinst
         parent == Head(builds).parent
         inst == Fresh[Cardinality(Built) + 1]
     IN  /\ builtFor' = [i \in Built \cup {inst} |-> IF i = inst THEN dinst ELSE builtFor[i]]
         /\ named' = IF DeclaredRef(dinst) = NoRef THEN named
                     ELSE [r \in DOMAIN named \cup {DeclaredRef(dinst)} |->
                             IF r = DeclaredRef(dinst) THEN inst ELSE named[r]]
         /\ reference' = [reference EXCEPT ![inst] = DeclaredRef(dinst)]
         /\ classOf' = [classOf EXCEPT ![inst] = dinst.class]
         /\ childrenOf' = IF parent = Nil THEN childrenOf
                          ELSE [childrenOf EXCEPT ![parent] = Append(@, inst)]
         /\ roots' = IF parent = Nil THEN Append(roots, inst) ELSE roots
         /\ props' = props \cup {inst}
         /\ builds' = BuildsFor(DeclaredChildren(dinst), inst) \o Tail(builds)
  /\ UNCHANGED <<refs, properties, decl, stage, metadata>>

AddMetadata ==
  /\ stage = "build" /\ builds # <<>> /\ Head(builds).dinst.is = "metadata"
  /\ metadata' = [metadata EXCEPT ![Head(builds).dinst.key] = Head(builds).dinst.value]
  /\ builds' = Tail(builds)
  /\ UNCHANGED <<refs, reference, properties, decl, stage, builtFor, classOf, childrenOf, roots,
                 named, props>>

BuiltAll ==
  /\ stage = "build" /\ builds = <<>> /\ stage' = "evaluate"
  /\ UNCHANGED <<refs, reference, properties, decl, builds, builtFor, classOf, childrenOf, roots,
                 metadata, named, props>>

(* Type.value of a Reference.                                              *)
Referred(ref) == IF ref \in DOMAIN named THEN named[ref] ELSE Nil
ReferenceValue(args) ==
  CASE args # <<>> /\ IsText(args[1]) -> Referred(args[1].v)
    [] args # <<>> /\ args[1].go = "pointer" -> args[1].v
    [] args # <<>> /\ assertValue("Reference", args[1]) -> args[1].v
    [] OTHER -> Nil

Evaluated(prop) ==
  IF prop.typ = "Reference" THEN ReferenceValue(prop.args) ELSE value(prop.typ, prop.args)

(* The properties of one instance, in the order they were declared.        *)
MutSet(all, prop) ==
  [p \in Properties |-> IF p = prop.name /\ all[p] = Unset THEN Evaluated(prop) ELSE all[p]]
Set(all, prop) == [p \in Properties |-> IF p = prop.name THEN Evaluated(prop) ELSE all[p]]

Evaluate(inst) ==
  /\ stage = "evaluate" /\ inst \in props
  /\ LET list == DeclaredProperties(builtFor[inst])
         set == FoldLeft(Set, properties[inst], list)
     IN  IF \E i \in DOMAIN list : Evaluated(list[i]) = Panic
           THEN stage' = "panic" /\ UNCHANGED <<properties, props>>
           ELSE /\ properties' = [properties EXCEPT ![inst] = set]
                /\ props' = props \ {inst}
                /\ UNCHANGED stage
  /\ UNCHANGED <<refs, reference, decl, builds, builtFor, classOf, childrenOf, roots, metadata, named>>

DeclareInit ==
  /\ decl \in Declarations
  /\ stage = "build" /\ builds = BuildsFor(decl, Nil)
  /\ builtFor = [i \in {} |-> Nil]
  /\ classOf = [i \in Instances |-> NoRef]
  /\ childrenOf = [i \in Instances |-> <<>>]
  /\ roots = <<>> /\ metadata = [key \in Metadata |-> NoAttr]
  /\ named = [r \in {} |-> Nil] /\ props = {}
  /\ reference = [i \in Instances |-> NoRef]
  /\ properties = [i \in Instances |-> [p \in Properties |-> Unset]]

DeclareNext == Build \/ AddMetadata \/ BuiltAll \/ \E inst \in Instances : Evaluate(inst)
DeclareOver == stage = "evaluate" /\ props = {}

===============================================================================
