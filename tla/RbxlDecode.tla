------------------------------ MODULE RbxlDecode ------------------------------
(***************************************************************************)
(* Decoding of the binary format: Decoder.decode reads the header and the  *)
(* chunks of the file one by one (rbxl/decoder.go), then robloxCodec.Decode *)
(* walks over the chunks that were read and builds the tree               *)
(* (rbxl/codec.go).                                                        *)
(*                                                                         *)
(* The two passes share groupLookup.  While the file is read it grows, and *)
(* the array of a PROP chunk gets its length from the group it holds then; *)
(* the codec looks at what it holds in the end.  Nothing else ties a PROP  *)
(* chunk to the instances it writes to.                                    *)
(*                                                                         *)
(* A file is any sequence of chunks in any order, with any contents; each  *)
(* step of the first pass chooses the next one.  Strings and values are    *)
(* small integers, and a broken chunk is one whose payload does not parse. *)
(*                                                                         *)
(* Nothing recovers from a panic.  Two are those of files that the decoder *)
(* does read bytes of: the array of coordinate frames that is cut short,   *)
(* and the present element of an optional array that decodeValue has no    *)
(* value for.                                                              *)
(***************************************************************************)
EXTENDS Integers, Sequences, FiniteSets

CONSTANTS
  Headers,      \* file headers, each with the NoXML of the Decoder that meets it
  ClassIDs,     \* class ids that chunks mention
  Ids,          \* instance ids that chunks mention, with nilInstance
  InstChunks,   \* contents of INST chunks
  PrntChunks,   \* contents of PRNT chunks
  MetaChunks,   \* contents of META chunks
  SstrChunks,   \* contents of SSTR chunks
  Names,        \* property names
  Raw,          \* Raw[kind] is what an element of an array of that kind can be
  MaxChunks     \* bound on the number of chunks of a file

nilInstance == -1

nilValue == -1       \* an element that decodeValue gives nil for

(* Optional arrays of references, of shared strings and of optionals are   *)
(* "nested": decodeValue gives nil for the elements of the first two, and  *)
(* for the absent elements of the last.                                    *)
Flagged == {"optional", "nested"}
Kinds == {"reference", "shared", "value"} \cup Flagged
HeaderRecord ==
  [signature : {"binary", "xml", "other"}, intact : BOOLEAN, version : Nat,
   classCount : Nat, instanceCount : Nat, reserved : BOOLEAN, noXML : BOOLEAN]
InstRecord ==
  [sig : {"INST"}, class : ClassIDs, ids : Seq(Ids), isService : BOOLEAN, getService : Seq(Nat)]
PropRecord ==
  [sig : {"PROP"}, class : ClassIDs, name : Names, kind : Kinds \cup {"none"},
   values : Seq(Int), present : Seq(BOOLEAN)]
PrntRecord == [sig : {"PRNT"}, version : Nat, children : Seq(Ids), parents : Seq(Ids)]
MetaRecord == [sig : {"META"}, values : Seq(Nat \X Nat)]
SstrRecord == [sig : {"SSTR"}, values : Seq(Nat)]
Other == [sig |-> "other"]      \* chunkUnknown and chunkErrored
End == [sig |-> "END"]

ASSUME ChunkAssumption ==
  /\ Headers \subseteq HeaderRecord
  /\ ClassIDs \subseteq Int /\ Ids \subseteq Int /\ nilInstance \in Ids
  /\ InstChunks \subseteq InstRecord /\ PrntChunks \subseteq PrntRecord
  /\ MetaChunks \subseteq MetaRecord /\ SstrChunks \subseteq SstrRecord
  /\ Raw \in [Kinds -> SUBSET Int]
  /\ MaxChunks \in Nat

(* What the payload of a chunk decodes to: chunkInstance.Decode makes      *)
(* GetService as long as InstanceIDs, chunkParent.Decode makes Parents as  *)
(* long as Children.                                                       *)
ASSUME PayloadAssumption ==
  /\ \A ch \in InstChunks : ch.isService => Len(ch.getService) = Len(ch.ids)
  /\ \A ch \in PrntChunks : Len(ch.parents) = Len(ch.children)

VARIABLES
  phase,        \* header, chunks, codec, then done, error, xml or panic
  header,       \* the header of the file
  chunks,       \* formatModel.Chunks
  groupLookup,  \* class id -> index of its INST chunk, 0 when missing
  total,        \* DecoderStats.Chunks
  warns,        \* the kinds of warning given
  err,          \* the kind of the error returned, or of the panic
  pos,          \* the chunk the codec is at
  link,         \* the child of a PRNT chunk it is at, 0 outside of one
  instLookup,   \* id -> index of the INST chunk it was made from, 0 when missing
  services,     \* the instances with IsService
  properties,   \* the Properties of every instance
  children,     \* the Children of every instance; of nilInstance, root.Instances
  metadata,     \* root.Metadata, 0 for a key that is not there
  sharedStrings \* the table of the last SSTR chunk

readVars == <<header, chunks, groupLookup, total>>
treeVars == <<instLookup, services, properties, children, metadata, sharedStrings>>
vars == <<phase, warns, err, pos, link, readVars, treeVars>>

Chunk == InstRecord \cup PropRecord \cup PrntRecord \cup MetaRecord \cup SstrRecord \cup {Other, End}

Unset == [type |-> "unset", value |-> 0]
NoneOf == [type |-> "none", value |-> 0]
Value == [type : {"unset", "none", "reference", "shared", "some", "value"}, value : Int]
MetaKeys == UNION {{ch.values[i][1] : i \in DOMAIN ch.values} : ch \in MetaChunks}

ControlTypeOK ==
  /\ phase \in {"header", "chunks", "codec", "done", "error", "xml", "panic"}
  /\ warns \subseteq {"reserved", "chunk", "end", "class", "no value", "child"}
  /\ err \in {"none", "header", "truncated", "class index", "service length",
              "instance id", "array length", "parent version", "parent length", "child id",
              "cut frames", "nil instance", "nil value"}
  /\ pos \in 1 .. Len(chunks) + 1
  /\ link \in Nat

(* A group of groupLookup is an INST chunk of its class.                   *)
ReadTypeOK ==
  /\ header \in Headers
  /\ chunks \in Seq(Chunk) /\ Len(chunks) <= MaxChunks
  /\ groupLookup \in [ClassIDs -> 0 .. Len(chunks)]
  /\ \A class \in ClassIDs : groupLookup[class] # 0 =>
       chunks[groupLookup[class]].sig = "INST" /\ chunks[groupLookup[class]].class = class
  /\ total \in 0 .. Len(chunks)

TreeTypeOK ==
  /\ instLookup \in [Ids -> 0 .. Len(chunks)]
  /\ services \subseteq Ids
  /\ properties \in [Ids -> [Names -> Value]]
  /\ children \in [Ids -> Seq(Ids)]
  /\ metadata \in [MetaKeys -> Nat]
  /\ sharedStrings \in Seq(Nat)

TypeOK == ControlTypeOK /\ ReadTypeOK /\ TreeTypeOK

-------------------------------------------------------------------------------
(* The header.                                                             *)

Fail(cause) ==
  /\ phase' = "error"
  /\ err' = cause
  /\ UNCHANGED <<warns, pos, link, readVars, treeVars>>

HeaderFails ==
  /\ phase = "header"
  /\ \/ header.signature = "other"
     \/ header.signature = "xml" /\ header.noXML
     \/ header.signature = "binary" /\ (~header.intact \/ header.version # 0)
  /\ Fail("header")

(* The file is handed to the XML decoder.                                  *)
LegacyXML ==
  /\ phase = "header"
  /\ header.signature = "xml"
  /\ ~header.noXML
  /\ phase' = "xml"
  /\ UNCHANGED <<warns, err, pos, link, readVars, treeVars>>

HeaderOK ==
  /\ phase = "header"
  /\ header.signature = "binary" /\ header.intact /\ header.version = 0
  /\ phase' = "chunks"
  /\ warns' = warns \cup (IF header.reserved THEN {"reserved"} ELSE {})
  /\ UNCHANGED <<err, pos, link, readVars, treeVars>>

-------------------------------------------------------------------------------
(* decodeChunks.                                                           *)

Room == phase = "chunks" /\ Len(chunks) < MaxChunks - 1

(* A chunk whose payload decoded.                                          *)
Keep(ch) == chunks' = Append(chunks, ch) /\ total' = total + 1

(* A chunk whose payload did not decode is kept as chunkErrored: a warning *)
(* and no count.                                                           *)
KeepErrored ==
  /\ chunks' = Append(chunks, Other)
  /\ warns' = warns \cup {"chunk"}
  /\ UNCHANGED total

(* Mutant: the group is entered under the place before its own.            *)
MutEntryBefore(class) == Len(chunks)

(* f.groupLookup[ch.ClassID] = &ch: a later group replaces an earlier one. *)
GroupEntry(class) == Len(chunks) + 1

KeepGroup(ch) ==
  /\ Room
  /\ Keep(ch)
  /\ groupLookup' = [groupLookup EXCEPT ![ch.class] = GroupEntry(ch.class)]
  /\ UNCHANGED <<phase, warns, err, pos, link, header, treeVars>>

ReadInstance == \E ch \in InstChunks : KeepGroup(ch)

(* Mutant: the array is read with one element more than the group has.     *)
MutArrays(class, name) ==
  LET length == Len(chunks[groupLookup[class]].ids) + 1 IN
  {[sig |-> "PROP", class |-> class, name |-> name, kind |-> "value",
    values |-> values, present |-> <<>>] : values \in [1 .. length -> Raw["value"]]}

(* The arrays the bytes of a PROP chunk of this class can decode to: as    *)
(* many elements as the group found in groupLookup has instances.          *)
Arrays(class, name) ==
  LET length == Len(chunks[groupLookup[class]].ids) IN
  UNION {{[sig |-> "PROP", class |-> class, name |-> name, kind |-> kind,
           values |-> values, present |-> present] :
          values \in [1 .. length -> Raw[kind]],
          present \in IF kind \in Flagged THEN [1 .. length -> BOOLEAN] ELSE {<<>>}} :
         kind \in Kinds}

(* With an unknown type the chunk has no array.                            *)
Decodings(class, name) ==
  Arrays(class, name) \cup
    {[sig |-> "PROP", class |-> class, name |-> name, kind |-> "none",
      values |-> <<>>, present |-> <<>>]}

KeepProperty(ch) ==
  /\ Room
  /\ groupLookup[ch.class] # 0
  /\ Keep(ch)
  /\ UNCHANGED <<phase, warns, err, pos, link, header, groupLookup, treeVars>>

ReadProperty ==
  \E class \in ClassIDs, name \in Names :
    /\ groupLookup[class] # 0
    /\ \E ch \in Decodings(class, name) : KeepProperty(ch)

(* Nothing recovers from a panic.                                          *)
Panic(cause) ==
  /\ phase' = "panic"
  /\ err' = cause
  /\ UNCHANGED <<warns, pos, link, readVars, treeVars>>

(* The positions of an array of coordinate frames are cut out of the       *)
(* payload before it is known to be long enough.                           *)
ReadCutFrames ==
  /\ Room
  /\ \E class \in ClassIDs : groupLookup[class] # 0 /\ chunks[groupLookup[class]].ids # <<>>
  /\ Panic("cut frames")

(* A PROP chunk of a class that has no group yet does not decode.          *)
ReadUngrouped ==
  /\ Room
  /\ \E class \in ClassIDs : groupLookup[class] = 0
  /\ KeepErrored
  /\ UNCHANGED <<phase, err, pos, link, header, groupLookup, treeVars>>

KeepOther(ch) ==
  /\ Room
  /\ Keep(ch)
  /\ UNCHANGED <<phase, warns, err, pos, link, header, groupLookup, treeVars>>

ReadOther == \E ch \in PrntChunks \cup MetaChunks \cup SstrChunks : KeepOther(ch)

ReadUnknown ==
  /\ Room
  /\ Keep(Other)
  /\ warns' = warns \cup {"chunk"}
  /\ UNCHANGED <<phase, err, pos, link, header, groupLookup, treeVars>>

ReadBroken ==
  /\ Room
  /\ KeepErrored
  /\ UNCHANGED <<phase, err, pos, link, header, groupLookup, treeVars>>

(* END stops the loop; a compressed one, or one with unexpected content,   *)
(* is reported.                                                            *)
ReadEnd ==
  /\ phase = "chunks"
  /\ Len(chunks) < MaxChunks
  /\ Keep(End)
  /\ \E proper \in BOOLEAN : warns' = warns \cup (IF proper THEN {} ELSE {"end"})
  /\ phase' = "codec"
  /\ UNCHANGED <<err, pos, link, header, groupLookup, treeVars>>

(* The file ends, or cannot be read on, before an END chunk.               *)
Truncated == phase = "chunks" /\ Fail("truncated")

-------------------------------------------------------------------------------
(* robloxCodec.Decode.                                                     *)

At(sig) == phase = "codec" /\ pos <= Len(chunks) /\ chunks[pos].sig = sig
Current == chunks[pos]

Exists(id) == instLookup[id] # 0

ClassInBounds(class) == class >= 0 /\ class < header.classCount
IdInBounds(id) == id >= 0 /\ id < header.instanceCount

(* Mutants: ids are not checked against the table; a superseded group is   *)
(* let through.                                                            *)
MutIdsFreeOnce(ch) == \A i \in DOMAIN ch.ids : IdInBounds(ch.ids[i])
MutAnyGroup(ch) == groupLookup[ch.class] # 0

(* Every id is in bounds and new, in the file so far and in this chunk.    *)
IdsFree(ch) ==
  /\ \A i \in DOMAIN ch.ids : IdInBounds(ch.ids[i]) /\ ~Exists(ch.ids[i])
  /\ \A i, j \in DOMAIN ch.ids : ch.ids[i] = ch.ids[j] => i = j

(* groupLookup still leads to this very chunk.                             *)
IsOwnGroup(ch) == groupLookup[ch.class] = pos

IdsOf(ch) == {ch.ids[i] : i \in DOMAIN ch.ids}
ServicesOf(ch) ==
  {ch.ids[i] : i \in {j \in DOMAIN ch.ids : ch.isService /\ ch.getService[j] = 1}}

DecodeInstance ==
  /\ At("INST")
  /\ LET ch == Current IN
     \/ ~ClassInBounds(ch.class) /\ Fail("class index")
     \/ /\ ClassInBounds(ch.class)
        /\ ch.isService /\ Len(ch.ids) # Len(ch.getService)
        /\ Fail("service length")
     \/ /\ ClassInBounds(ch.class)
        /\ ch.isService => Len(ch.ids) = Len(ch.getService)
        /\ \/ ~IdsFree(ch) /\ Fail("instance id")
           \/ IdsFree(ch) /\ ~IsOwnGroup(ch) /\ Fail("class index")
           \/ /\ IdsFree(ch) /\ IsOwnGroup(ch)
              /\ instLookup' = [id \in Ids |-> IF id \in IdsOf(ch) THEN pos ELSE instLookup[id]]
              /\ services' = services \cup ServicesOf(ch)
              /\ pos' = pos + 1
              /\ UNCHANGED <<phase, warns, err, link, readVars,
                             properties, children, metadata, sharedStrings>>

(* Mutant: the reference is taken as it is.                                *)
MutReferent(v) == v

(* instLookup[v], nil for an id the table does not have yet.               *)
Referent(v) == IF v \in Ids /\ Exists(v) THEN v ELSE nilInstance

(* The value of element i of an array.  A shared string index that is out  *)
(* of the table gives the empty string.                                    *)
Decoded(ch, i) ==
  CASE ch.kind = "reference" -> [type |-> "reference", value |-> Referent(ch.values[i])]
    [] ch.kind = "shared" ->
         [type |-> "shared",
          value |-> IF ch.values[i] >= 0 /\ ch.values[i] < Len(sharedStrings)
                    THEN sharedStrings[ch.values[i] + 1] ELSE 0]
    [] ch.kind \in Flagged ->
         IF ch.present[i] THEN [type |-> "some", value |-> ch.values[i]] ELSE NoneOf
    [] ch.kind = "value" -> [type |-> "value", value |-> ch.values[i]]

(* Mutant of SetProperties: the last element goes to the first instance.   *)
MutSetFirst(ch, ids) ==
  /\ properties' =
       [id \in Ids |-> IF ids # <<>> /\ id = ids[1]
                       THEN [properties[id] EXCEPT ![ch.name] = Decoded(ch, Len(ids))]
                       ELSE properties[id]]
  /\ pos' = pos + 1
  /\ UNCHANGED <<phase, warns, err, link, readVars,
                 instLookup, services, children, metadata, sharedStrings>>

(* The chunk is skipped, with a warning.                                   *)
Skip(warning) ==
  /\ warns' = warns \cup {warning}
  /\ pos' = pos + 1
  /\ UNCHANGED <<phase, err, link, readVars, treeVars>>

(* Some(decodeValue(v)) panics for a nil value.                            *)
GivesNil(ch, i) == ch.kind = "nested" /\ ch.present[i] /\ ch.values[i] = nilValue

SetProperties(ch, ids) ==
  /\ properties' =
       [id \in Ids |->
          IF \E i \in DOMAIN ids : ids[i] = id
          THEN [properties[id] EXCEPT ![ch.name] =
                  Decoded(ch, CHOOSE i \in DOMAIN ids : ids[i] = id)]
          ELSE properties[id]]
  /\ pos' = pos + 1
  /\ UNCHANGED <<phase, warns, err, link, readVars,
                 instLookup, services, children, metadata, sharedStrings>>

DecodeProperty ==
  /\ At("PROP")
  /\ LET ch == Current
         group == chunks[groupLookup[ch.class]]
         skipped == groupLookup[ch.class] = 0 \/ ch.kind = "none" IN
     \/ ~ClassInBounds(ch.class) /\ Fail("class index")
     \/ ClassInBounds(ch.class) /\ groupLookup[ch.class] = 0 /\ Skip("class")
     \/ /\ ClassInBounds(ch.class) /\ groupLookup[ch.class] # 0 /\ ch.kind = "none"
        /\ Skip("no value")
     \/ /\ ClassInBounds(ch.class) /\ ~skipped
        /\ \/ Len(ch.values) # Len(group.ids) /\ Fail("array length")
           \/ /\ Len(ch.values) = Len(group.ids)
              /\ \/ \E i \in DOMAIN group.ids : ~Exists(group.ids[i]) /\ Panic("nil instance")
                 \/ \E i \in DOMAIN group.ids : GivesNil(ch, i) /\ Panic("nil value")
                 \/ /\ \A i \in DOMAIN group.ids : Exists(group.ids[i]) /\ ~GivesNil(ch, i)
                    /\ SetProperties(ch, group.ids)

EnterParent ==
  /\ At("PRNT")
  /\ link = 0
  /\ \/ Current.version # 0 /\ Fail("parent version")
     \/ /\ Current.version = 0
        /\ Len(Current.parents) # Len(Current.children)
        /\ Fail("parent length")
     \/ /\ Current.version = 0
        /\ Len(Current.parents) = Len(Current.children)
        /\ link' = 1
        /\ UNCHANGED <<phase, warns, err, pos, readVars, treeVars>>

(* Mutant: a child of a missing parent goes to the root.                   *)
MutAttach(child, parent) ==
  children' = [children EXCEPT ![IF Exists(parent) THEN parent ELSE nilInstance] = Append(@, child)]

(* The child joins the root instances or the Children of its parent; with  *)
(* a parent that does not exist it joins neither, without a warning.       *)
Attach(child, parent) ==
  children' = IF parent = nilInstance \/ Exists(parent)
              THEN [children EXCEPT ![parent] = Append(@, child)]
              ELSE children

LinkChild ==
  /\ At("PRNT")
  /\ link \in DOMAIN Current.children
  /\ LET child == Current.children[link]
         parent == Current.parents[link] IN
     \/ ~IdInBounds(child) /\ Fail("child id")
     \/ /\ IdInBounds(child)
        /\ link' = link + 1
        /\ \/ ~Exists(child) /\ warns' = warns \cup {"child"} /\ UNCHANGED children
           \/ Exists(child) /\ Attach(child, parent) /\ UNCHANGED warns
        /\ UNCHANGED <<phase, err, pos, readVars,
                       instLookup, services, properties, metadata, sharedStrings>>

LeaveParent ==
  /\ At("PRNT")
  /\ link > Len(Current.children)
  /\ link' = 0
  /\ pos' = pos + 1
  /\ UNCHANGED <<phase, warns, err, readVars, treeVars>>

(* The last pair of the chunk with this key.                               *)
IsLastPair(i, key) ==
  /\ Current.values[i][1] = key
  /\ \A j \in DOMAIN Current.values : Current.values[j][1] = key => j <= i

(* Metadata merges, a later value of a key replacing an earlier one.       *)
DecodeMeta ==
  /\ At("META")
  /\ metadata' = [key \in MetaKeys |->
                   IF \E i \in DOMAIN Current.values : IsLastPair(i, key)
                   THEN Current.values[CHOOSE i \in DOMAIN Current.values : IsLastPair(i, key)][2]
                   ELSE metadata[key]]
  /\ pos' = pos + 1
  /\ UNCHANGED <<phase, warns, err, link, readVars,
                 instLookup, services, properties, children, sharedStrings>>

(* Shared strings do not merge.                                            *)
DecodeSharedStrings ==
  /\ At("SSTR")
  /\ sharedStrings' = Current.values
  /\ pos' = pos + 1
  /\ UNCHANGED <<phase, warns, err, link, readVars,
                 instLookup, services, properties, children, metadata>>

(* chunkUnknown and chunkErrored are passed over.                          *)
PassOther ==
  /\ At("other")
  /\ pos' = pos + 1
  /\ UNCHANGED <<phase, warns, err, link, readVars, treeVars>>

DecodeEnd ==
  /\ At("END")
  /\ phase' = "done"
  /\ UNCHANGED <<warns, err, pos, link, readVars, treeVars>>

Stopped == phase \in {"done", "error", "xml", "panic"}

Returned == Stopped /\ UNCHANGED vars

-------------------------------------------------------------------------------

Init ==
  /\ phase = "header"
  /\ header \in Headers
  /\ chunks = <<>>
  /\ groupLookup = [class \in ClassIDs |-> 0]
  /\ total = 0
  /\ warns = {}
  /\ err = "none"
  /\ pos = 1
  /\ link = 0
  /\ instLookup = [id \in Ids |-> 0]
  /\ services = {}
  /\ properties = [id \in Ids |-> [name \in Names |-> Unset]]
  /\ children = [id \in Ids |-> <<>>]
  /\ metadata = [key \in MetaKeys |-> 0]
  /\ sharedStrings = <<>>

Next ==
  \/ HeaderFails \/ LegacyXML \/ HeaderOK
  \/ ReadInstance \/ ReadProperty \/ ReadCutFrames \/ ReadUngrouped \/ ReadOther \/ ReadUnknown \/ ReadBroken
  \/ ReadEnd \/ Truncated
  \/ DecodeInstance \/ DecodeProperty
  \/ EnterParent \/ LinkChild \/ LeaveParent
  \/ DecodeMeta \/ DecodeSharedStrings \/ PassOther \/ DecodeEnd
  \/ Returned

Spec == Init /\ [][Next]_vars
FairSpec == Spec /\ WF_vars(Next)

-------------------------------------------------------------------------------

(* Properties are never written to a nil instance: whatever the file says  *)
(* and in whatever order, when the codec comes to a PROP chunk every id of *)
(* the group it finds under the class leads to an instance, although       *)
(* neither pass checks it (rbxl/codec.go:112, 118, 129, 139).              *)
InstancesExist == err # "nil instance"

(* For a model that Decoder.decode has read, the checks of array lengths   *)
(* and the warning about an unknown class are never needed: the group a    *)
(* PROP chunk was read with is the group the codec finds, or the decode    *)
(* has failed before (rbxl/codec.go:62, 94, 105, 150).                     *)
GroupsFit ==
  /\ err \notin {"service length", "array length", "parent length"}
  /\ "class" \notin warns

(* In a file that decodes, no two INST chunks share a class id and no      *)
(* instance id is made twice (rbxl/codec.go:74, 83).                       *)
GroupsDistinct ==
  phase = "done" =>
    \A j, k \in DOMAIN chunks :
      (j # k /\ chunks[j].sig = "INST" /\ chunks[k].sig = "INST") =>
        /\ chunks[j].class # chunks[k].class
        /\ IdsOf(chunks[j]) \cap IdsOf(chunks[k]) = {}

(* The instance was made by a chunk before chunk j.                        *)
ExistsAt(id, j) == id \in Ids /\ instLookup[id] \in 1 .. j - 1

IsGreatest(j, S) == j \in S /\ \A k \in S : k <= j

(* The value chunk j says the instance has, in terms of the file alone.    *)
Meant(j, id) ==
  LET ch == chunks[j]
      i == CHOOSE i \in DOMAIN chunks[instLookup[id]].ids : chunks[instLookup[id]].ids[i] = id
      tables == {k \in 1 .. j - 1 : chunks[k].sig = "SSTR"}
      strings == IF tables = {} THEN <<>>
                 ELSE chunks[CHOOSE k \in tables : IsGreatest(k, tables)].values IN
  CASE ch.kind = "reference" ->
         [type |-> "reference",
          value |-> IF ExistsAt(ch.values[i], j) THEN ch.values[i] ELSE nilInstance]
    [] ch.kind = "shared" ->
         [type |-> "shared",
          value |-> IF ch.values[i] \in 0 .. Len(strings) - 1 THEN strings[ch.values[i] + 1] ELSE 0]
    [] ch.kind \in Flagged ->
         IF ch.present[i] THEN [type |-> "some", value |-> ch.values[i]] ELSE NoneOf
    [] ch.kind = "value" -> [type |-> "value", value |-> ch.values[i]]

(* Every instance ends with exactly the properties of the last PROP chunk  *)
(* of its class and their name, element for element; a reference leads to  *)
(* an instance of an INST chunk before that PROP chunk or is nil, a shared *)
(* string is looked up in the last SSTR chunk before it                    *)
(* (rbxl/codec.go:108-143).                                                *)
PropertiesFromFile ==
  phase = "done" =>
    \A id \in Ids, name \in Names :
      LET sources == {j \in DOMAIN chunks :
                        /\ Exists(id)
                        /\ chunks[j].sig = "PROP"
                        /\ chunks[j].kind # "none"
                        /\ chunks[j].name = name
                        /\ chunks[j].class = chunks[instLookup[id]].class} IN
      IF sources = {}
      THEN properties[id][name] = Unset
      ELSE properties[id][name] = Meant(CHOOSE j \in sources : IsGreatest(j, sources), id)

(* The links of the file to a parent, as places <<chunk, index>>.          *)
LinksTo(parent) ==
  LET prnts == {j \in DOMAIN chunks : chunks[j].sig = "PRNT"}
      places == UNION {{j} \X DOMAIN chunks[j].children : j \in prnts} IN
  {l \in places :
     /\ chunks[l[1]].parents[l[2]] = parent
     /\ ExistsAt(chunks[l[1]].children[l[2]], l[1])
     /\ parent = nilInstance \/ ExistsAt(parent, l[1])}

Before(l, m) == l[1] < m[1] \/ (l[1] = m[1] /\ l[2] < m[2])

(* The tree is the links of the file and nothing else: the children of an  *)
(* instance, and the root instances, are the linked instances in the order *)
(* of the links, each as often as it is linked, and a link takes effect    *)
(* exactly when both of its ends exist by then (rbxl/codec.go:154-177).    *)
TreeIsLinks ==
  phase = "done" =>
    \A parent \in Ids :
      LET links == LinksTo(parent) IN
      /\ Len(children[parent]) = Cardinality(links)
      /\ \A l \in links :
           children[parent][1 + Cardinality({m \in links : Before(m, l)})]
             = chunks[l[1]].children[l[2]]

===============================================================================
