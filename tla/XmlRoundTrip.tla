----------------------------- MODULE XmlRoundTrip -----------------------------
(***************************************************************************)
(* XmlEncode composed with an instance D of XmlDecode.  A tree is encoded  *)
(* to XML and decoded again, or a document of any origin is decoded.       *)
(***************************************************************************)
EXTENDS XmlEncode

CONSTANTS
  MaxMade,      \* more instances than this are not decoded
  Zero,         \* see XmlDecode
  Documents     \* the documents of other origin

VARIABLES
  given,        \* <<>>, or <<document>> if there is no tree to encode
  instLookup,   \* the table of the decoder
  newReference, \* Reference and Properties of the new instances
  newProperties,
  phase, stack, itemOf, children, instances, metadata, propRefs, stringRefs, pos, missing

decodeVars == <<given, instLookup, newReference, newProperties, phase, stack, itemOf, children,
                instances, metadata, propRefs, stringRefs, pos, missing>>

(* The document that Decode gets.                                          *)
Handed == IF given = <<>> THEN [tags |-> tags, top |-> top, discard |-> FALSE] ELSE given[1]

D == INSTANCE XmlDecode WITH
       Instances <- 1 .. MaxMade, refs <- instLookup,
       reference <- newReference, properties <- newProperties, document <- Handed

ASSUME DocumentsAssumption ==
  /\ MaxMade \in Nat /\ Zero \in Data
  /\ D!NilAssumption
  /\ Documents \subseteq D!Document

RoundTripInit ==
  /\ EncodeInit /\ D!NothingRead
  /\ \/ given = <<>> /\ phase = "wait" /\ stack = <<>>
     \/ /\ root = CHOOSE any \in Roots : TRUE
        /\ \E document \in Documents : given = <<document>>
        /\ phase = "items" /\ stack = <<D!FrameFor(given[1].top, Nil)>>

Encode == given = <<>> /\ EncodeNext /\ UNCHANGED decodeVars

(* The document goes from Encode to Decode.                                *)
HandOver ==
  /\ step = "done"
  /\ phase = "wait"
  /\ phase' = "items"
  /\ stack' = <<D!FrameFor(top, Nil)>>
  /\ UNCHANGED encodeVars
  /\ UNCHANGED <<given, instLookup, newReference, newProperties, itemOf, children, instances,
                 metadata, propRefs, stringRefs, pos, missing>>

Decode == UNCHANGED <<encodeVars, given>> /\ D!DecodeNext

Over == (step = "panic" \/ phase = "done") /\ UNCHANGED <<encodeVars, decodeVars>>

RoundTripSpec == RoundTripInit /\ [][Encode \/ HandOver \/ Decode \/ Over]_<<encodeVars, decodeVars>>

-------------------------------------------------------------------------------

(* A document, encoded here or not, becomes the tree it describes,         *)
(* whatever order items, properties and shared strings come in and         *)
(* whatever names are used twice (rbxlx/codec.go:78-237; see XmlDecode).   *)
DocumentDecoded == phase # "wait" => D!TreeIsItems /\ D!PropertiesAsTagged

-------------------------------------------------------------------------------

Original(inst) == written[itemOf[inst]]
Originals(list) == [i \in DOMAIN list |-> Original(list[i])]

(* An instance that occurs twice is decoded twice; what refers to it then  *)
(* refers to the later of the two.                                         *)
CopiesOf(i) == {inst \in D!Made : Original(inst) = i}
LastCopy(i) ==
  IF root.excludeReferent \/ CopiesOf(i) = {} THEN Nil
  ELSE CHOOSE inst \in CopiesOf(i) : \A other \in CopiesOf(i) : other <= inst

Back(value) ==
  CASE value \in Instances -> LastCopy(value)
    [] value \in Unknown -> Unset
    [] value \in Shared -> value
    [] value \in Data \ (Shared \cup Unknown) -> Readable[value]
    [] OTHER -> value

(* What is decoded is the tree that was encoded: the same instances under  *)
(* the same parents in the same order, with their classes, metadata, and   *)
(* the names they had when Encode returned; references lead to the         *)
(* counterpart of the instance they led to, although names clashed, were   *)
(* empty or were drawn, and to nil where it is not in the tree or names    *)
(* are not written; other properties have the values that can be read.     *)
(* Only a nil instance in the tree makes Encode panic                      *)
(* (rbxlx/codec.go:68-237, 1151-1245).                                     *)
RoundTrip ==
  /\ step = "panic" =>
       \/ Nil \in {root.instances[n] : n \in DOMAIN root.instances}
       \/ \E i \in Instances : Nil \in {root.children[i][n] : n \in DOMAIN root.children[i]}
  /\ phase = "done" /\ given = <<>> =>
       /\ Originals(instances) = root.instances
       /\ metadata = IF root.excludeMetadata THEN [key \in Metadata |-> NoAttr] ELSE root.metadata
       /\ missing = 0
       /\ \A inst \in D!Made :
            /\ tags[itemOf[inst]].class = root.class[Original(inst)]
            /\ Originals(children[inst]) = root.children[Original(inst)]
            /\ newReference[inst] = IF root.excludeReferent THEN NoRef ELSE reference[Original(inst)]
            /\ \A p \in Properties :
                 newProperties[inst][p] = Back(root.properties[Original(inst)][p])

===============================================================================
