------------------------------- MODULE RbxlFile -------------------------------
(***************************************************************************)
(* The bytes of a binary file (rbxl/encoder.go, decoder.go, model.go): a   *)
(* header, then chunks, each with a frame (signature, lengths, reserved    *)
(* bytes) and a payload that may be compressed, up to an END chunk; what   *)
(* follows it is trailing content.                                         *)
(*                                                                         *)
(* A chunk whose payload is broken is kept as it is and the next one read; *)
(* bytes that end early fail the whole file.  Decompress reads the frames  *)
(* only, and writes them again without compression.                        *)
(*                                                                         *)
(* The parts of the header that are the same in every file are one byte    *)
(* long here, and so is the content of a proper END chunk.  LZ4 is         *)
(* external: compressed bytes are the plain ones behind a byte of their    *)
(* own.                                                                    *)
(***************************************************************************)
EXTENDS RbxlArrays, FiniteSets, TLC

CONSTANTS
  zHash,        \* the bytes of a hash: 16
  Models,       \* the contents of files (formatModel)
  Uncompressed  \* the values of Encoder.Uncompressed

ASSUME FileAssumption == zHash \in Nat \ {0}

robloxSig == <<60>>
binaryMarker == <<33>>
xmlMarker == <<32>>
binaryHeader == <<9>>
endContent == <<47>>
zeros == <<0, 0, 0, 0, 0, 0, 0, 0>>
signature == [META |-> 1, SSTR |-> 2, INST |-> 3, PROP |-> 4, PRNT |-> 5, END |-> 6]
validChunk(sig) == \E s \in DOMAIN signature : signature[s] = sig

VARIABLES
  model,        \* the content of the file
  uncompressed, \* whether the encoder may compress
  phase,        \* header, write, damage, open, read, then done, error or xml
  written,      \* how many chunks are written, or the trailing content too
  file,         \* the bytes
  whole,        \* the bytes as the encoder wrote them
  damage,       \* what happened to the file since
  task,         \* decode, decompress, or decode what was decompressed
  rest,         \* what is still to be read
  chunks,       \* the chunks that are read
  groupLookup,  \* the groups that are read: class -> number of instances
  warns         \* the warnings of the encoder, and of the decoder

readVars == <<rest, chunks, groupLookup>>
vars == <<model, uncompressed, phase, written, file, whole, damage, task, readVars, warns>>

-------------------------------------------------------------------------------
(* Payloads.                                                               *)
Number(n) == appendUint(f32[1], n)
writeString(s) == Number(Len(s)) \o s
References(ids) == [i \in DOMAIN ids |-> <<ids[i]>>]
refArrayToBytes(ids) == arrayToBytes("Reference", References(ids)).bytes

(* chunk.WriteTo, of each kind of chunk.  Empty arrays of references are   *)
(* not written, for they could not be interleaved.                         *)
NoArray == [type |-> "none"]
RefBytes(ids) == IF ids # <<>> THEN refArrayToBytes(ids) ELSE <<>>

chunkInstance(c) ==
  Number(c.class) \o writeString(c.name) \o <<IF c.isService THEN 1 ELSE 0>>
    \o Number(Len(c.ids)) \o RefBytes(c.ids)
    \o (IF c.isService THEN c.getService ELSE <<>>)
chunkProperty(c) ==
  Number(c.class) \o writeString(c.name)
    \o (IF c.properties = NoArray THEN <<>> ELSE typeArrayToBytes(c.properties))
chunkParent(c) ==
  <<c.version>> \o Number(Len(c.children)) \o RefBytes(c.children) \o RefBytes(c.parents)
chunkMeta(c) ==
  Number(Len(c.values))
    \o FlattenSeq([i \in DOMAIN c.values |->
                     writeString(c.values[i][1]) \o writeString(c.values[i][2])])
chunkSharedStrings(c) ==
  Number(c.version) \o Number(Len(c.values))
    \o FlattenSeq([i \in DOMAIN c.values |-> c.values[i].hash \o writeString(c.values[i].value)])

Payload(c) ==
  CASE c.sig = signature.INST -> chunkInstance(c)
    [] c.sig = signature.PROP -> chunkProperty(c)
    [] c.sig = signature.PRNT -> chunkParent(c)
    [] c.sig = signature.META -> chunkMeta(c)
    [] c.sig = signature.SSTR -> chunkSharedStrings(c)
    [] OTHER -> c.content     \* chunkEnd, chunkUnknown

(* chunkParent.WriteTo refuses arrays of different lengths.                *)
Writable(c) == c.sig = signature.PRNT => Len(c.children) = Len(c.parents)

(* lz4.Encode and lz4.Decode                                               *)
Compress(b) == <<1>> \o b
Compresses(b, z) == z = Compress(b)

(* rawChunk.WriteTo                                                        *)
Frame(sig, compressed, payload) ==
  LET data == IF compressed THEN Compress(payload) ELSE payload
  IN  Number(sig) \o Number(IF compressed THEN Len(data) ELSE 0) \o Number(Len(payload))
        \o Number(0) \o data

Header(m) ==
  robloxSig \o binaryMarker \o binaryHeader \o appendUint(u16[1], m.version)
    \o Number(m.classCount) \o Number(m.instanceCount) \o zeros

FrameOf(c) == Frame(c.sig, c.compressed /\ ~uncompressed, Payload(c))

-------------------------------------------------------------------------------
(* Reading: b are the bytes that are left, got what was read so far.       *)
Reader(b) == [ok |-> TRUE, b |-> b, got |-> <<>>]
Failed == [ok |-> FALSE]
TakeBytes(r, n) ==
  IF r.ok /\ Len(r.b) >= n
    THEN [ok |-> TRUE, b |-> Drop(r.b, n), got |-> Append(r.got, SubSeq(r.b, 1, n))]
    ELSE Failed
TakeNumber(r, field) ==
  IF r.ok /\ Len(r.b) >= field.size
    THEN [ok |-> TRUE, b |-> Drop(r.b, field.size),
          got |-> Append(r.got, readUint(field, SubSeq(r.b, 1, field.size)))]
    ELSE Failed
InsteadOf(r, s) == IF s.ok THEN [s EXCEPT !.got = Append(r.got, Last(@))] ELSE Failed
TakeCounted(r, length) ==
  IF length.ok THEN InsteadOf(r, TakeBytes(length, Last(length.got))) ELSE Failed
readString(r) == TakeCounted(r, TakeNumber(r, f32[1]))

(* As many references as a number that was read, of which the code counts  *)
(* the bytes with 32 bits.                                                 *)
TakeArray(r, n, size) ==
  IF Len(r.b) < size \/ size < n * zu32 THEN Failed
  ELSE [ok |-> TRUE, b |-> Drop(r.b, size),
        got |-> Append(r.got,
                  IF n = 0 THEN <<>>
                  ELSE [i \in 1 .. n |->
                          arrayFromBytes("Reference", SubSeq(r.b, 1, size), n, 0).values[i][1]])]
TakeRefs(r, number) ==
  IF r.ok THEN TakeArray(r, r.got[number], (r.got[number] * zu32) % Modulus(zu32)) ELSE Failed
TakeFlags(r) == IF r.ok /\ r.got[3] # 0 THEN TakeBytes(r, r.got[4]) ELSE r

(* chunk.Decode, of each kind of chunk: the chunk, or Failed.  What is     *)
(* left of the payload is not looked at.                                   *)
InstanceOf(r) ==
  IF r.ok
    THEN [sig |-> signature.INST, class |-> r.got[1], name |-> r.got[2],
          isService |-> r.got[3] # 0, ids |-> r.got[5],
          getService |-> IF r.got[3] # 0 THEN r.got[6] ELSE <<>>]
    ELSE Failed
ReadInstance(b) ==
  InstanceOf(TakeFlags(TakeRefs(
    TakeNumber(TakeNumber(readString(TakeNumber(Reader(b), f32[1])), u8[1]), f32[1]), 4)))

PropertyOf(r, array) ==
  IF array.ok
    THEN [sig |-> signature.PROP, class |-> r.got[1], name |-> r.got[2], properties |-> array.array]
    ELSE Failed
ReadArrayOf(r, groups) ==
  IF ~r.ok \/ r.got[1] \notin DOMAIN groups THEN Failed
  ELSE PropertyOf(r, IF r.b = <<>> THEN [ok |-> TRUE, array |-> NoArray]
                     ELSE typeArrayFromBytes(r.b, groups[r.got[1]], 0))
ReadProperty(b, groups) == ReadArrayOf(readString(TakeNumber(Reader(b), f32[1])), groups)

ParentOf(r) ==
  IF r.ok
    THEN [sig |-> signature.PRNT, version |-> r.got[1], children |-> r.got[3], parents |-> r.got[4]]
    ELSE Failed
ReadParent(b) ==
  ParentOf(TakeRefs(TakeRefs(TakeNumber(TakeNumber(Reader(b), u8[1]), f32[1]), 2), 2))

Times(n) == [i \in 1 .. n |-> i]
MetaOf(r) ==
  IF r.ok
    THEN [sig |-> signature.META,
          values |-> [i \in 1 .. r.got[1] |-> <<r.got[2 * i], r.got[2 * i + 1]>>]]
    ELSE Failed
TakePairs(r) ==
  IF r.ok THEN FoldLeft(LAMBDA got, i : readString(readString(got)), r, Times(r.got[1])) ELSE Failed
ReadMeta(b) == MetaOf(TakePairs(TakeNumber(Reader(b), f32[1])))

SharedStringsOf(r) ==
  IF r.ok
    THEN [sig |-> signature.SSTR, version |-> r.got[1],
          values |-> [i \in 1 .. r.got[2] |->
                        [hash |-> r.got[2 * i + 1], value |-> r.got[2 * i + 2]]]]
    ELSE Failed
TakeHashed(r) ==
  IF r.ok THEN FoldLeft(LAMBDA got, i : readString(TakeBytes(got, zHash)), r, Times(r.got[2]))
  ELSE Failed
ReadSharedStrings(b) ==
  SharedStringsOf(TakeHashed(TakeNumber(TakeNumber(Reader(b), f32[1]), f32[1])))

ReadPayload(sig, b, groups) ==
  CASE sig = signature.INST -> ReadInstance(b)
    [] sig = signature.PROP -> ReadProperty(b, groups)
    [] sig = signature.PRNT -> ReadParent(b)
    [] sig = signature.META -> ReadMeta(b)
    [] sig = signature.SSTR -> ReadSharedStrings(b)
    [] OTHER -> [sig |-> sig, content |-> b]

(* rawChunk.Decode: the length of the data is the compressed one, unless   *)
(* that is zero.                                                           *)
MutDataLength(compressed, decompressed) == decompressed
DataLength(compressed, decompressed) == IF compressed = 0 THEN decompressed ELSE compressed
Unframed(head, r) ==
  LET compressed == head.got[2] # 0
      payload == IF compressed THEN Tail(r.got[5]) ELSE r.got[5]
  IN  IF ~r.ok \/ (compressed /\ ~(Compresses(payload, r.got[5]) /\ Len(payload) = head.got[3]))
        THEN Failed
        ELSE [ok |-> TRUE, b |-> r.b, sig |-> head.got[1], compressed |-> compressed,
              payload |-> payload]
ReadData(head) ==
  IF head.ok THEN Unframed(head, TakeBytes(head, DataLength(head.got[2], head.got[3]))) ELSE Failed
ReadFrame(b) == ReadData(FoldLeft(LAMBDA r, i : TakeNumber(r, f32[1]), Reader(b), Times(4)))

-------------------------------------------------------------------------------
Init ==
  /\ model \in Models /\ uncompressed \in Uncompressed
  /\ phase = "header" /\ written = 0 /\ file = <<>> /\ whole = <<>>
  /\ damage = [kind |-> "none"] /\ task = "decode"
  /\ rest = <<>> /\ chunks = <<>> /\ groupLookup = <<>>
  /\ warns = {}

(* Encoder.encode                                                          *)
WriteHeader ==
  /\ phase = "header"
  /\ file' = Header(model)
  /\ phase' = "write"
  /\ UNCHANGED <<model, uncompressed, written, whole, damage, task, readVars, warns>>

MutWriteWarnings(i) ==
  {w \in {"unknown", "not last"} :
     CASE w = "unknown" -> ~validChunk(model.chunks[i].sig)
       [] w = "not last" -> model.chunks[i].sig = signature.END /\ i < Len(model.chunks) - 1}
WriteWarnings(i) ==
  LET c == model.chunks[i]
      end == c.sig = signature.END
  IN  {w \in {"unknown", "compressed", "content", "not last"} :
         CASE w = "unknown" -> ~validChunk(c.sig)
           [] w = "compressed" -> end /\ c.compressed /\ ~uncompressed
           [] w = "content" -> end /\ c.content # endContent
           [] w = "not last" -> end /\ i # Len(model.chunks)}

WriteChunk ==
  /\ phase = "write" /\ written < Len(model.chunks)
  /\ warns' = warns \cup {<<"encode", w>> : w \in WriteWarnings(written + 1)}
  /\ IF Writable(model.chunks[written + 1])
       THEN /\ file' = file \o FrameOf(model.chunks[written + 1])
            /\ written' = written + 1
            /\ UNCHANGED phase
       ELSE /\ phase' = "error"
            /\ UNCHANGED <<file, written>>
  /\ UNCHANGED <<model, uncompressed, whole, damage, task, readVars>>

WriteTrailing ==
  /\ phase = "write" /\ written = Len(model.chunks)
  /\ file' = file \o model.trailing
  /\ whole' = file'
  /\ phase' = "damage"
  /\ UNCHANGED <<model, uncompressed, written, damage, task, readVars, warns>>

(* What may have become of a file until it is read: it is cut, a number    *)
(* that is reserved is not zero, a group claims a quarter of all numbers   *)
(* more, so that the bytes that they take wrap around to what they were,   *)
(* compressed data are broken, or it is a file of the older format.        *)
FrameAt(i) ==
  Len(Header(model))
    + FoldLeft(LAMBDA n, c : n + Len(FrameOf(c)), 0, SubSeq(model.chunks, 1, i - 1))
PayloadAt(i) == FrameAt(i) + 4 * zu32
Damages ==
  [kind : {"none", "reserved", "xml"}]
    \cup [kind : {"cut"}, at : 1 .. Len(file) - 1]
    \cup [kind : {"count"},
          chunk : {i \in DOMAIN model.chunks : model.chunks[i].sig = signature.INST
                                                 /\ (model.chunks[i].compressed => uncompressed)}]
    \cup [kind : {"lz4"},
          chunk : {i \in DOMAIN model.chunks : model.chunks[i].compressed /\ ~uncompressed}]
Damaged(f, d) ==
  CASE d.kind = "none" -> f
    [] d.kind = "reserved" -> [f EXCEPT ![Len(Header(model))] = 1]
    [] d.kind = "xml" -> robloxSig \o xmlMarker \o Drop(f, 2)
    [] d.kind = "cut" -> SubSeq(f, 1, d.at)
    [] d.kind = "count" ->
         [f EXCEPT ![PayloadAt(d.chunk) + 2 * zu32 + Len(model.chunks[d.chunk].name) + 1 + zu32]
                        = Radix \div zu32]
    [] d.kind = "lz4" -> [f EXCEPT ![PayloadAt(d.chunk) + 1] = 0]

Damage ==
  /\ phase = "damage"
  /\ \E d \in Damages : damage' = d /\ file' = Damaged(file, d)
  /\ task' \in {"decode", "decompress"}
  /\ phase' = "open"
  /\ UNCHANGED <<model, uncompressed, written, whole, readVars, warns>>

(* Decoder.decode.  A file of the older format is handed on from its first *)
(* byte on, and not decompressed.                                          *)
ReadSignature ==
  /\ phase = "open"
  /\ LET size == Len(Header(model))
     IN  IF Len(file) >= 2 /\ SubSeq(file, 1, 2) # robloxSig \o binaryMarker
           THEN /\ phase' = IF task = "decompress" THEN "error" ELSE "xml"
                /\ rest' = file
                /\ UNCHANGED warns
           ELSE IF Len(file) < size \/ model.version # 0
             THEN phase' = "error" /\ UNCHANGED <<rest, warns>>
           ELSE /\ phase' = "read"
                /\ rest' = Drop(file, size)
                /\ warns' = IF SubSeq(file, size - 7, size) # zeros
                              THEN warns \cup {<<"decode", "reserved">>} ELSE warns
  /\ UNCHANGED <<model, uncompressed, written, file, whole, damage, task, chunks, groupLookup>>

Fails ==
  /\ phase = "read" /\ ~ReadFrame(rest).ok
  /\ phase' = "error" /\ chunks' = <<>>
  /\ UNCHANGED <<model, uncompressed, written, file, whole, damage, task, rest, groupLookup, warns>>

(* A chunk of decodeChunks.                                                *)
With(frame, c) == [compressed |-> frame.compressed] @@ c
Errored(sig, b) == [sig |-> sig, errored |-> TRUE, content |-> b]
ReadWarnings(frame, c) ==
  {w \in {"unknown", "errored", "compressed", "content"} :
     CASE w = "unknown" -> ~validChunk(frame.sig)
       [] w = "errored" -> c = Failed
       [] w = "compressed" -> frame.sig = signature.END /\ frame.compressed
       [] w = "content" -> frame.sig = signature.END /\ frame.payload # endContent}
MutGrouped(c) ==
  IF c # Failed /\ c.sig = signature.INST
    THEN groupLookup @@ (c.class :> Len(c.ids)) ELSE groupLookup
Grouped(c) ==
  IF c # Failed /\ c.sig = signature.INST
    THEN (c.class :> Len(c.ids)) @@ groupLookup ELSE groupLookup

ReadChunk ==
  /\ phase = "read" /\ task # "decompress"
  /\ \E frame \in {ReadFrame(rest)} :
       /\ frame.ok
       /\ \E c \in {ReadPayload(frame.sig, frame.payload, groupLookup)} :
            /\ chunks' = Append(chunks, With(frame, IF c = Failed THEN Errored(frame.sig, frame.payload)
                                                    ELSE c))
            /\ groupLookup' = Grouped(c)
            /\ warns' = warns \cup {<<"decode", w>> : w \in ReadWarnings(frame, c)}
       /\ rest' = frame.b
       /\ phase' = IF frame.sig = signature.END THEN "done" ELSE "read"
  /\ UNCHANGED <<model, uncompressed, written, file, whole, damage, task>>

(* A chunk of decompressChunks, after the last of which the file is        *)
(* written again: all frames without compression, and what is left.        *)
MutRewritten(cs, trailing) ==
  Header(model) \o FlattenSeq([i \in DOMAIN cs |-> Frame(cs[i].sig, FALSE, cs[i].content)])
Rewritten(cs, trailing) ==
  Header(model)
    \o FlattenSeq([i \in DOMAIN cs |-> Frame(cs[i].sig, FALSE, cs[i].content)]) \o trailing

ReadRaw ==
  /\ phase = "read" /\ task = "decompress"
  /\ \E frame \in {ReadFrame(rest)} :
       LET c == With(frame, [sig |-> frame.sig, content |-> frame.payload])
       IN  /\ frame.ok
           /\ IF frame.sig = signature.END
                THEN /\ file' = Rewritten(Append(chunks, c), frame.b)
                     /\ task' = "decompressed" /\ phase' = "open"
                     /\ chunks' = <<>> /\ rest' = <<>>
                ELSE /\ chunks' = Append(chunks, c)
                     /\ rest' = frame.b
                     /\ UNCHANGED <<file, task, phase>>
  /\ UNCHANGED <<model, uncompressed, written, whole, damage, groupLookup, warns>>

Next ==
  WriteHeader \/ WriteChunk \/ WriteTrailing \/ Damage \/ ReadSignature \/ Fails \/ ReadChunk
    \/ ReadRaw
Spec == Init /\ [][Next]_vars

-------------------------------------------------------------------------------
(* What the content of the file tells of what is read.                     *)
Size0 == Len(model.chunks)
Ends == {i \in DOMAIN model.chunks : model.chunks[i].sig = signature.END}
LastRead == CHOOSE i \in Ends : \A j \in Ends : i <= j
Final == phase \in {"done", "error", "xml"}

(* The chunk that cannot be decoded any more, and the group that is known  *)
(* when chunk i is read.                                                   *)
Broken == IF damage.kind = "count" THEN {damage.chunk} ELSE {}
GroupOf(i) ==
  {j \in 1 .. i - 1 : /\ model.chunks[j].sig = signature.INST /\ j \notin Broken
                      /\ model.chunks[j].class = model.chunks[i].class}
CountOf(i) ==
  Len(model.chunks[CHOOSE j \in GroupOf(i) : \A k \in GroupOf(i) : k <= j].ids)

(* A property needs a group, and a value for each of its instances; it is  *)
(* read for as many as there are.                                          *)
Lost(i) ==
  \/ i \in Broken
  \/ /\ model.chunks[i].sig = signature.PROP
     /\ \/ GroupOf(i) = {}
        \/ /\ model.chunks[i].properties # NoArray
           /\ CountOf(i) > Len(model.chunks[i].properties.values)
PayloadOf(i) ==
  LET at == (IF i \in Broken THEN PayloadAt(i) ELSE 0)
  IN  IF i \in Broken
        THEN SubSeq(Damaged(whole, damage), at + 1, at + Len(Payload(model.chunks[i])))
        ELSE Payload(model.chunks[i])
Fitting(i) ==
  IF model.chunks[i].sig = signature.PROP /\ model.chunks[i].properties # NoArray
    THEN [model.chunks[i] EXCEPT !.properties.values = SubSeq(@, 1, CountOf(i))]
    ELSE model.chunks[i]
Expected(i) ==
  [compressed |-> model.chunks[i].compressed /\ ~uncompressed /\ task = "decode"]
    @@ (IF Lost(i) THEN Errored(model.chunks[i].sig, PayloadOf(i)) ELSE Fitting(i))

(* The type invariant: a file is bytes, what is left of it its end, and    *)
(* the groups are those of the last INST chunk of each class that could be *)
(* decoded (decoder.go:217-222).                                           *)
IsInstances(c) == c.sig = signature.INST /\ "class" \in DOMAIN c
TypeOK ==
  /\ phase \in {"header", "write", "damage", "open", "read", "done", "error", "xml"}
  /\ written \in 0 .. Size0
  /\ \A i \in DOMAIN file : file[i] \in Byte
  /\ rest = Drop(file, Len(file) - Len(rest))
  /\ \A class \in DOMAIN groupLookup :
       LET those == {i \in DOMAIN chunks : IsInstances(chunks[i]) /\ chunks[i].class = class}
       IN  phase # "error" =>
             groupLookup[class] = Len(chunks[CHOOSE i \in those : \A j \in those : j <= i].ids)

(* A file is read as it was written, up to its first END chunk, and what   *)
(* follows that is its trailing content (decoder.go:165-173).  A chunk     *)
(* that cannot be decoded is kept as it is and costs no other one, but for *)
(* the properties of a group that it was (decoder.go:246-257).  Whether    *)
(* the encoder was told to compress, and whether the file went through     *)
(* Decompress, changes nothing but the flags.                              *)
FileReadBack ==
  phase = "done" =>
    /\ chunks = [i \in 1 .. LastRead |-> Expected(i)]
    /\ rest = Drop(Damaged(whole, damage), FrameAt(LastRead + 1))

(* Decoding fails on files that are not whole, and on no others: no END    *)
(* chunk, bytes missing before its end, data that do not decompress,       *)
(* another version, or XML where it cannot be handed on                    *)
(* (model.go:153-203, decoder.go:101-173).                                 *)
NotWhole ==
  \/ \E i \in DOMAIN model.chunks : ~Writable(model.chunks[i])
  \/ damage.kind = "xml" /\ task = "decompress"
  \/ /\ damage.kind # "xml"
     /\ \/ model.version # 0
        \/ Ends = {}
        \/ damage.kind = "cut" /\ damage.at < FrameAt(LastRead + 1)
        \/ damage.kind = "lz4" /\ damage.chunk <= LastRead
OnlyWholeFiles ==
  Final => /\ phase = "error" <=> NotWhole
           /\ phase = "xml" => damage.kind = "xml" /\ rest = file

(* Chunks that a reader will not see, for they are behind an END chunk,    *)
(* are not lost in silence: the encoder warns (encoder.go:89-91).          *)
LossWarned ==
  phase = "done" => (LastRead < Size0 <=> <<"encode", "not last">> \in warns)

===============================================================================
