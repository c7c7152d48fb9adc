----------------------------- MODULE RbxlRoundTrip -----------------------------
(***************************************************************************)
(* A tree is encoded (RbxlEncode), the chunks are written to a file, and   *)
(* the file is decoded (RbxlDecode).  The decoder reads the chunks that    *)
(* were written, in their order.  The bytes between are those of           *)
(* RbxlChunkArray: every array is read back as it was written, but for the *)
(* optional arrays of interleaved types.                                   *)
(***************************************************************************)
EXTENDS RbxlEncode

CONSTANTS Headers, ClassIDs, Ids, InstChunks, PrntChunks, MetaChunks, SstrChunks,
          Raw, MaxChunks    \* the parameters of RbxlDecode; large enough for the files

VARIABLES phase, header, chunks, groupLookup, total, warns, err, pos, link,
          instLookup, services, properties, children, metadata, strings

D == INSTANCE RbxlDecode WITH sharedStrings <- strings

ASSUME DecodeAssumption == D!ChunkAssumption /\ D!PayloadAssumption

(* The metadata of a root is a map: a key has one value.  The value 0 is   *)
(* what a key that is not there has, so it is not the number of a string.  *)
ASSUME MetadataAssumption ==
  \A r \in Roots :
    /\ IsFiniteSet(r.metadata)
    /\ \A p, q \in r.metadata : p[1] = q[1] => p = q
    /\ \A p \in r.metadata : p[2] # 0

decodeVars == <<phase, header, chunks, groupLookup, total, warns, err, pos, link,
                instLookup, services, properties, children, metadata, strings>>
tripVars == <<encodeVars, decodeVars>>

(* The header Encoder.encode writes.                                       *)
FileHeader ==
  [signature |-> "binary", intact |-> TRUE, version |-> 0,
   classCount |-> Len(instChunks), instanceCount |-> Len(instList),
   reserved |-> FALSE, noXML |-> FALSE]

(* Before the file is written there is no header to read.                  *)
NoHeader ==
  [signature |-> "binary", intact |-> FALSE, version |-> 0, classCount |-> 0,
   instanceCount |-> 0, reserved |-> FALSE, noXML |-> FALSE]

Encode == Next /\ UNCHANGED decodeVars

WriteFile ==
  /\ step = "done"
  /\ header = NoHeader
  /\ header' = FileHeader
  /\ UNCHANGED <<encodeVars, phase, chunks, groupLookup, total, warns, err, pos, link,
                 instLookup, services, properties, children, metadata, strings>>

ReadHeader ==
  /\ header # NoHeader
  /\ D!HeaderOK
  /\ UNCHANGED encodeVars

(* The bytes of an optional array of an interleaved type are its values,   *)
(* interleaved, and its flags; arrayFromBytes deinterleaves all of them.   *)
(* Mostly their number is not a multiple of the size of a value, or what   *)
(* is then in the place of the type of the flags is not the Bool type, and *)
(* the chunk is errored.  It takes a value to be that byte: with none      *)
(* present all are zero.  Where it is, any values and flags are read.      *)
IsPacked(ch) == ch.sig = "PROP" /\ ch.kind = "packed"

ReadPacked(ch) ==
  \/ D!ReadBroken
  \/ /\ \E i \in DOMAIN ch.present : ch.present[i]
     /\ \E read \in D!Arrays(ch.class, ch.name) : read.kind = "optional" /\ D!KeepProperty(read)

(* The next chunk of the file.  The parameters of RbxlDecode bound what is  *)
(* read; that they are large enough shows in that nothing gets stuck.      *)
ReadChunk ==
  /\ Len(chunks) < Len(file)
  /\ LET next == file[Len(chunks) + 1] IN
     \/ IsPacked(next) /\ ReadPacked(next)
     \/ next \in InstChunks /\ D!KeepGroup(next)
     \/ next.sig = "PROP" /\ D!KeepProperty(next) /\ next \in D!Decodings(next.class, next.name)
     \/ next \in PrntChunks \cup MetaChunks \cup SstrChunks /\ D!KeepOther(next)
     \/ next.sig = "END" /\ D!ReadEnd /\ warns' = warns
  /\ UNCHANGED encodeVars

Decode ==
  /\ \/ D!DecodeInstance \/ D!DecodeProperty
     \/ D!EnterParent \/ D!LinkChild \/ D!LeaveParent
     \/ D!DecodeMeta \/ D!DecodeSharedStrings \/ D!PassOther \/ D!DecodeEnd
  /\ UNCHANGED encodeVars

Stopped == step = "panic" \/ phase \in {"done", "error", "panic"}
Returned == Stopped /\ UNCHANGED tripVars

TripInit == Init /\ D!Init /\ header = NoHeader

TripNext == Encode \/ WriteFile \/ ReadHeader \/ ReadChunk \/ Decode \/ Returned

TripSpec == TripInit /\ [][TripNext]_tripVars

-------------------------------------------------------------------------------

(* The decoded tree in terms of the instances that were encoded.           *)
InstanceOf(id) == IF id = nilInstance THEN Nil ELSE InstanceAt(id)
Written == {instList[i] : i \in DOMAIN instList}
InstancesOf(ids) == [i \in DOMAIN ids |-> InstanceOf(ids[i])]
ValueOf(v) == IF v.type = "reference" THEN [v EXCEPT !.value = InstanceOf(v.value)] ELSE v

Taken ==
  [instances |-> InstancesOf(children[nilInstance]),
   children |-> [inst \in Written |-> InstancesOf(children[Number(inst)])],
   class |-> [inst \in Written |-> chunks[instLookup[Number(inst)]].class],
   services |-> {InstanceAt(id) : id \in services},
   properties |-> [inst \in Written |->
                     [name \in Names |-> ValueOf(properties[Number(inst)][name])]],
   metadata |-> {<<key, metadata[key]>> : key \in {k \in DOMAIN metadata : metadata[k] # 0}}]

NoTree ==
  [instances |-> <<>>, children |-> <<>>, class |-> <<>>, services |-> {},
   properties |-> <<>>, metadata |-> {}]

Status ==
  IF step = "panic" \/ phase \in {"error", "panic"} THEN "lost"
  ELSE IF phase = "done" THEN "taken" ELSE "given"

T == INSTANCE RbxlTransfer WITH
       status <- Status,
       tree <- IF phase = "done" THEN Taken ELSE NoTree

(* Encoding and decoding hand the tree over as RbxlTransfer says: a sound  *)
(* tree comes back with the same instances in the same order, with its     *)
(* services, its metadata, and its properties, references to the same      *)
(* instances included, whatever is numbered, grouped, sorted and indexed   *)
(* on the way, and only an unsound one can make the encoder panic          *)
(* (rbxl/codec.go:426-740 against 39-190).  An optional of an interleaved  *)
(* type is lost or garbled (rbxl/arrays.go:1454).                          *)
Implements == T!Spec

(* The array of the next chunk is read with the length of its group, which *)
(* is there.                                                               *)
NextDecodes ==
  phase = "chunks" /\ Len(chunks) < Len(file) =>
    LET next == file[Len(chunks) + 1] IN
    next.sig = "PROP" =>
      /\ groupLookup[next.class] # 0
      /\ Len(next.values) = Len(chunks[groupLookup[next.class]].ids)

(* A file of the encoder decodes without an error: no group is entered     *)
(* twice, no id is out of bounds, no child is missing and no array has a   *)
(* length other than its group, be it when the bytes are read or when they *)
(* are decoded (rbxl/codec.go:56-162).  Only an optional array of an       *)
(* interleaved type is not read as it was written (rbxl/arrays.go:1454),   *)
(* and there is no warning but that such a chunk is errored                *)
(* (rbxl/decoder.go:246-255).                                              *)
DecodesCleanly ==
  /\ phase # "error" /\ phase # "panic"
  /\ \A i \in DOMAIN chunks : chunks[i] = file[i] \/ IsPacked(file[i])
  /\ warns \subseteq {"chunk"}
  /\ warns # {} => \E i \in DOMAIN chunks : IsPacked(file[i]) /\ chunks[i] = D!Other
  /\ NextDecodes

-------------------------------------------------------------------------------

(* "mismatched types %s and %s for property %s.%s, chunk skipped"          *)
(* (rbxl/codec.go:564, 571): a chunk the warning calls skipped is not in   *)
(* the map when the arrays are filled.                                     *)
SkippedIsGone ==
  step = "fill" => \A name \in Names : <<Group.class, name>> \in skipped => propChunkMap[name] = "none"

===============================================================================
