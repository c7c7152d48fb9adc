-------------------------------- MODULE XmlTags --------------------------------
(***************************************************************************)
(* The tags of a document (rbxlx/document.go) as far as the codec of the   *)
(* XML format tells them apart.  Items nest, and point to their tags by    *)
(* their positions in a table; the other tags hold what is in them.        *)
(*                                                                         *)
(* A property tag is a reference, a shared string (of which it has the     *)
(* hash, which may be broken), a value that can be read, one that cannot,  *)
(* or has the name of no type.  A hash stands for the contents it belongs  *)
(* to.                                                                     *)
(***************************************************************************)
EXTENDS References, Integers, Sequences

CONSTANTS
  Classes,      \* class names
  Metadata,     \* keys and values of metadata
  Shared,       \* those of Data that are shared strings
  EmptyHash,    \* the hash that is the empty string
  NoAttr        \* an attribute that a tag does not have

Hash == Shared \cup {EmptyHash}

ASSUME TagAssumption ==
  /\ Shared \subseteq Data
  /\ EmptyHash \notin Shared
  /\ NoAttr \notin Refs /\ NoAttr \notin Classes /\ NoAttr \notin Properties
  /\ NoAttr \notin Metadata /\ NoAttr \notin Hash

PropertyTag ==
  [name : Properties \cup {NoAttr}, kind : {"Ref"}, text : Refs]
    \cup [name : Properties \cup {NoAttr}, kind : {"SharedString", "badhash"}, text : Hash]
    \cup [name : Properties \cup {NoAttr}, kind : {"value", "broken", "unknown"}, text : Data]
StringTag == [md5 : Hash \cup {NoAttr}, text : Shared]
ItemTags ==
  [start : {"Item"}, class : Classes \cup {NoAttr}, referent : Refs \cup {NoAttr}, tags : Seq(Nat)]
PropertiesTags == [start : {"Properties"}, properties : Seq(PropertyTag)]
Tag ==
  ItemTags \cup PropertiesTags
    \cup [start : {"Meta"}, name : Metadata \cup {NoAttr}, text : Metadata]
    \cup [start : {"SharedStrings"}, strings : Seq(StringTag)]
    \cup [start : {"External"}]

(* The properties of an instance that has none.                            *)
NoProperties == [p \in Properties |-> Unset]

===============================================================================
