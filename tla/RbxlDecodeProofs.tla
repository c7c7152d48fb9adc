--------------------------- MODULE RbxlDecodeProofs ---------------------------
(***************************************************************************)
(* Proofs about RbxlDecode, for every set of chunk contents and every      *)
(* length of file: the state stays well typed, writing properties never    *)
(* panics, the checks the codec repeats are never needed, groups stay      *)
(* apart in a file that decodes, and the tree that is returned is what the *)
(* file says: its properties and its links.                                *)
(***************************************************************************)
EXTENDS RbxlDecode, FiniteSetTheorems, WellFoundedInduction, TLAPS

(***************************************************************************)
(* The inductive invariant.  That a PROP chunk fits the group the codec    *)
(* finds under its class takes both passes: the chunk was read with the    *)
(* length of some earlier group of the class (PropsFit), and a group the   *)
(* codec has passed is the only one of its class and all its instances     *)
(* exist (GroupsDone), or the decode would have failed at it.              *)
(***************************************************************************)
Payloads ==
  \A j \in DOMAIN chunks :
    /\ chunks[j].sig = "INST" /\ chunks[j].isService =>
         Len(chunks[j].getService) = Len(chunks[j].ids)
    /\ chunks[j].sig = "PRNT" => Len(chunks[j].parents) = Len(chunks[j].children)

PropsFit ==
  \A j \in DOMAIN chunks :
    chunks[j].sig = "PROP" =>
      \E i \in 1 .. j - 1 :
        /\ chunks[i].sig = "INST"
        /\ chunks[i].class = chunks[j].class
        /\ chunks[j].kind # "none" => Len(chunks[j].values) = Len(chunks[i].ids)

GroupsKnown ==
  \A i \in DOMAIN chunks : chunks[i].sig = "INST" => groupLookup[chunks[i].class] # 0

EndLast ==
  /\ \A j \in DOMAIN chunks :
       chunks[j].sig = "END" => phase \notin {"header", "chunks"} /\ j = Len(chunks)
  /\ phase = "done" => pos \in DOMAIN chunks /\ chunks[pos].sig = "END"

GroupsDone ==
  \A i \in 1 .. pos - 1 :
    chunks[i].sig = "INST" =>
      /\ groupLookup[chunks[i].class] = i
      /\ \A k \in DOMAIN chunks[i].ids : instLookup[chunks[i].ids[k]] = i

Reading == phase \in {"header", "chunks"} => pos = 1

DecodeInv ==
  /\ Payloads /\ PropsFit /\ GroupsKnown /\ EndLast /\ GroupsDone /\ Reading
  /\ InstancesExist /\ GroupsFit

-------------------------------------------------------------------------------
(* The parts of a chunk, by its signature.                                 *)
LEMMA ChunkParts ==
  ASSUME NEW ch \in Chunk
  PROVE  /\ ch.sig = "INST" => ch \in InstRecord
         /\ ch.sig = "PROP" => ch \in PropRecord
         /\ ch.sig = "PRNT" => ch \in PrntRecord
         /\ ch.sig = "META" => ch \in MetaRecord
         /\ ch.sig = "SSTR" => ch \in SstrRecord
BY DEF Chunk, InstRecord, PropRecord, PrntRecord, MetaRecord, SstrRecord, Other, End

(* The chunk at a place of the model.                                      *)
LEMMA ChunkAt ==
  ASSUME ReadTypeOK, NEW j \in DOMAIN chunks
  PROVE  /\ j \in 1 .. Len(chunks) /\ Len(chunks) \in Nat
         /\ chunks[j] \in Chunk
         /\ chunks[j].sig = "INST" => chunks[j] \in InstRecord
         /\ chunks[j].sig = "PROP" => chunks[j] \in PropRecord
         /\ chunks[j].sig = "PRNT" => chunks[j] \in PrntRecord
         /\ chunks[j].sig = "META" => chunks[j] \in MetaRecord
         /\ chunks[j].sig = "SSTR" => chunks[j] \in SstrRecord
<1>1. j \in 1 .. Len(chunks) /\ Len(chunks) \in Nat /\ chunks[j] \in Chunk
  BY DEF ReadTypeOK
<1>2. QED
  BY <1>1, ChunkParts

(* Appending a chunk leaves the others in their places.                    *)
LEMMA Appended ==
  ASSUME ReadTypeOK, NEW ch \in Chunk, chunks' = Append(chunks, ch)
  PROVE  /\ chunks' \in Seq(Chunk)
         /\ Len(chunks) \in Nat
         /\ Len(chunks') = Len(chunks) + 1
         /\ DOMAIN chunks = 1 .. Len(chunks)
         /\ DOMAIN chunks' = 1 .. Len(chunks) + 1
         /\ \A j \in 1 .. Len(chunks) : chunks'[j] = chunks[j]
         /\ chunks'[Len(chunks) + 1] = ch
BY DEF ReadTypeOK

(* What the arrays of a PROP chunk are.                                    *)
LEMMA ArraysShape ==
  ASSUME ReadTypeOK, NEW class \in ClassIDs, NEW name \in Names, groupLookup[class] # 0,
         NEW ch \in Arrays(class, name)
  PROVE  /\ ch \in PropRecord
         /\ ch.sig = "PROP" /\ ch.class = class
         /\ Len(ch.values) = Len(chunks[groupLookup[class]].ids)
<1> DEFINE n == Len(chunks[groupLookup[class]].ids)
<1>1. chunks[groupLookup[class]] \in InstRecord
  BY ChunkAt DEF ReadTypeOK
<1>2. n \in Nat
  BY <1>1 DEF InstRecord
<1> DEFINE Of(kind) ==
      {[sig |-> "PROP", class |-> class, name |-> name, kind |-> kind,
        values |-> values, present |-> present] :
       values \in [1 .. n -> Raw[kind]],
       present \in IF kind \in Flagged THEN [1 .. n -> BOOLEAN] ELSE {<<>>}}
<1>8. PICK kind \in Kinds : ch \in Of(kind)
  BY DEF Arrays
<1>3. PICK values \in [1 .. n -> Raw[kind]],
           present \in IF kind \in Flagged THEN [1 .. n -> BOOLEAN] ELSE {<<>>} :
        ch = [sig |-> "PROP", class |-> class, name |-> name, kind |-> kind,
              values |-> values, present |-> present]
  BY <1>8
<1>4. Raw[kind] \subseteq Int
  BY ChunkAssumption
<1>5. values \in Seq(Int) /\ Len(values) = n
  BY <1>2, <1>3, <1>4
<1>6. present \in Seq(BOOLEAN)
  <2>1. CASE kind \in Flagged
    <3>1. present \in [1 .. n -> BOOLEAN]
      BY <2>1, <1>3
    <3>2. QED
      BY <3>1, <1>2
  <2>2. CASE kind \notin Flagged
    <3>1. present = <<>>
      BY <2>2, <1>3
    <3>2. QED
      BY <3>1
  <2>3. QED
    BY <2>1, <2>2
<1>7. QED
  BY <1>3, <1>5, <1>6 DEF PropRecord

-------------------------------------------------------------------------------
(* The steps that read a chunk, seen as one: the chunk is appended, and    *)
(* groupLookup leads to it if it is an INST chunk.                         *)
Reads(ch) ==
  /\ ch \in Chunk
  /\ chunks' = Append(chunks, ch)
  /\ Len(chunks) < MaxChunks
  /\ total' \in {total, total + 1}
  /\ \/ ch.sig \notin {"INST", "END"} /\ phase' = "chunks" /\ UNCHANGED groupLookup
     \/ ch.sig = "END" /\ phase' = "codec" /\ UNCHANGED groupLookup
     \/ /\ ch.sig = "INST"
        /\ phase' = "chunks"
        /\ groupLookup' = [groupLookup EXCEPT ![ch.class] = Len(chunks) + 1]
  /\ ch.sig = "INST" /\ ch.isService => Len(ch.getService) = Len(ch.ids)
  /\ ch.sig = "PRNT" => Len(ch.parents) = Len(ch.children)
  /\ ch.sig = "PROP" =>
       /\ groupLookup[ch.class] # 0
       /\ ch.kind # "none" => Len(ch.values) = Len(chunks[groupLookup[ch.class]].ids)
  /\ warns' \in {warns, warns \cup {"chunk"}, warns \cup {"end"}}
  /\ phase = "chunks"
  /\ UNCHANGED <<err, pos, link, header, treeVars>>

LEMMA ReadsType ==
  ASSUME TypeOK, DecodeInv, NEW ch, Reads(ch)
  PROVE  TypeOK'
<1>9. ReadTypeOK /\ ControlTypeOK /\ TreeTypeOK
  BY DEF TypeOK
<1> USE DEF Reads, treeVars
<1>1. /\ chunks' \in Seq(Chunk) /\ Len(chunks) \in Nat /\ Len(chunks') = Len(chunks) + 1
      /\ \A j \in 1 .. Len(chunks) : chunks'[j] = chunks[j]
      /\ chunks'[Len(chunks) + 1] = ch
  BY <1>9, Appended
<1>2. Len(chunks') <= MaxChunks
  BY <1>1, ChunkAssumption
<1>3. groupLookup' \in [ClassIDs -> 0 .. Len(chunks')]
  BY <1>1, ChunkParts, <1>9 DEF ReadTypeOK, InstRecord
<1>4. ASSUME NEW class \in ClassIDs, groupLookup'[class] # 0
      PROVE  chunks'[groupLookup'[class]].sig = "INST"
             /\ chunks'[groupLookup'[class]].class = class
  <2>1. CASE ch.sig = "INST" /\ class = ch.class
    BY <2>1, <1>1, ChunkParts, <1>9 DEF ReadTypeOK, InstRecord
  <2>2. CASE ~(ch.sig = "INST" /\ class = ch.class)
    <3>1. groupLookup'[class] = groupLookup[class]
      BY <2>2, <1>9 DEF ReadTypeOK
    <3>2. groupLookup[class] \in 1 .. Len(chunks)
      BY <1>4, <3>1, <1>1, <1>9 DEF ReadTypeOK
    <3>3. QED
      BY <3>1, <3>2, <1>1, <1>4, <1>9 DEF ReadTypeOK
  <2>3. QED
    BY <2>1, <2>2
<1>5. total' \in 0 .. Len(chunks') /\ pos' \in 1 .. Len(chunks') + 1
  <2>1. total \in 0 .. Len(chunks) /\ pos \in 1 .. Len(chunks) + 1
    BY <1>9 DEF ReadTypeOK, ControlTypeOK
  <2>2. total' \in {total, total + 1} /\ pos' = pos
    OBVIOUS
  <2>3. QED
    BY ONLY <2>1, <2>2, <1>1
<1>6. TreeTypeOK'
  BY <1>1, <1>9 DEF TreeTypeOK
<1>7. warns' \subseteq {"reserved", "chunk", "end", "class", "no value", "child"}
  BY <1>9 DEF ControlTypeOK
<1>8. QED
  BY <1>1, <1>2, <1>3, <1>4, <1>5, <1>6, <1>7, <1>9 DEF TypeOK, ReadTypeOK, ControlTypeOK

LEMMA ReadsInv ==
  ASSUME TypeOK, DecodeInv, NEW ch, Reads(ch)
  PROVE  DecodeInv'
<1>9. ReadTypeOK
  BY DEF TypeOK
<1> USE DEF Reads, treeVars
<1>1. /\ Len(chunks) \in Nat /\ Len(chunks') = Len(chunks) + 1
      /\ DOMAIN chunks = 1 .. Len(chunks)
      /\ DOMAIN chunks' = 1 .. Len(chunks) + 1
      /\ \A j \in 1 .. Len(chunks) : chunks'[j] = chunks[j]
      /\ chunks'[Len(chunks) + 1] = ch
  BY <1>9, Appended
<1>2. Payloads'
  BY <1>1 DEF DecodeInv, Payloads
<1>3. PropsFit'
  <2> SUFFICES ASSUME NEW j \in 1 .. Len(chunks) + 1, chunks'[j].sig = "PROP"
               PROVE  \E i \in 1 .. j - 1 :
                        /\ chunks'[i].sig = "INST"
                        /\ chunks'[i].class = chunks'[j].class
                        /\ chunks'[j].kind # "none" =>
                             Len(chunks'[j].values) = Len(chunks'[i].ids)
    BY <1>1 DEF PropsFit
  <2>1. CASE j \in 1 .. Len(chunks)
    <3>1. PICK i \in 1 .. j - 1 :
             /\ chunks[i].sig = "INST"
             /\ chunks[i].class = chunks[j].class
             /\ chunks[j].kind # "none" => Len(chunks[j].values) = Len(chunks[i].ids)
      BY <2>1, <1>1 DEF DecodeInv, PropsFit
    <3>2. i \in 1 .. Len(chunks)
      BY <1>1, <2>1
    <3>3. QED
      BY <3>1, <3>2, <2>1, <1>1
  <2>2. CASE j = Len(chunks) + 1
    <3> DEFINE i == groupLookup[ch.class]
    <3>1. ch.sig = "PROP" /\ chunks'[j] = ch
      BY <2>2, <1>1
    <3>2. ch.class \in ClassIDs /\ i # 0
      BY <3>1, ChunkParts DEF PropRecord
    <3>3. i \in 1 .. Len(chunks) /\ chunks[i].sig = "INST" /\ chunks[i].class = ch.class
      BY <3>2, <1>1, <1>9 DEF ReadTypeOK
    <3>4. i \in 1 .. j - 1 /\ chunks'[i] = chunks[i]
      BY <3>3, <2>2, <1>1
    <3>5. QED
      BY <3>1, <3>3, <3>4
  <2>3. QED
    BY <2>1, <2>2, <1>1
<1>4. GroupsKnown'
  <2> SUFFICES ASSUME NEW j \in 1 .. Len(chunks) + 1, chunks'[j].sig = "INST"
               PROVE  groupLookup'[chunks'[j].class] # 0
    BY <1>1 DEF GroupsKnown
  <2>1. CASE j = Len(chunks) + 1
    BY <2>1, <1>1, ChunkParts, <1>9 DEF ReadTypeOK, InstRecord
  <2>2. CASE j \in 1 .. Len(chunks)
    <3>1. chunks'[j] = chunks[j] /\ chunks[j].class \in ClassIDs
      BY <2>2, <1>1, <1>9, ChunkAt DEF InstRecord
    <3>2. groupLookup[chunks[j].class] # 0
      BY <2>2, <3>1, <1>1 DEF DecodeInv, GroupsKnown
    <3>3. QED
      BY <3>1, <3>2, <1>1, <1>9 DEF ReadTypeOK
  <2>3. QED
    BY <2>1, <2>2, <1>1
<1>5. EndLast'
  BY <1>1 DEF DecodeInv, EndLast
<1>6. GroupsDone' /\ Reading' /\ InstancesExist'
  <2>1. pos' = 1
    BY DEF DecodeInv, Reading
  <2>2. InstancesExist'
    BY DEF DecodeInv, InstancesExist
  <2>3. QED
    BY <2>1, <2>2 DEF GroupsDone, Reading
<1>7. GroupsFit'
  BY DEF DecodeInv, GroupsFit
<1>8. QED
  BY <1>2, <1>3, <1>4, <1>5, <1>6, <1>7 DEF DecodeInv

-------------------------------------------------------------------------------
(* Every step of the first pass reads a chunk in this sense.               *)
LEMMA StepReads ==
  ASSUME TypeOK, DecodeInv,
         \/ ReadInstance \/ ReadProperty \/ ReadUngrouped \/ ReadOther
         \/ ReadUnknown \/ ReadBroken \/ ReadEnd
  PROVE  \E ch : Reads(ch)
<1>9. ReadTypeOK /\ ControlTypeOK
  BY DEF TypeOK
<1>0. /\ Len(chunks) \in Nat /\ MaxChunks \in Nat /\ Len(chunks) <= MaxChunks
      /\ Other \in Chunk /\ Other.sig = "other" /\ End \in Chunk /\ End.sig = "END"
  BY <1>9, ChunkAssumption DEF ReadTypeOK, Chunk, Other, End
<1>1. CASE ReadInstance
  <2>1. PICK ch \in InstChunks : KeepGroup(ch)
    BY <1>1 DEF ReadInstance
  <2>2. ch \in Chunk /\ ch.sig = "INST"
    BY ChunkAssumption DEF Chunk, InstRecord
  <2>3. ch.isService => Len(ch.getService) = Len(ch.ids)
    BY PayloadAssumption
  <2>4. chunks' = Append(chunks, ch) /\ total' = total + 1
    BY <2>1 DEF KeepGroup, Keep
  <2>5. groupLookup' = [groupLookup EXCEPT ![ch.class] = Len(chunks) + 1]
    BY <2>1 DEF KeepGroup, GroupEntry
  <2>6. /\ phase = "chunks" /\ phase' = "chunks"
        /\ Len(chunks) < MaxChunks
        /\ warns' = warns
        /\ UNCHANGED <<err, pos, link, header, treeVars>>
    BY <2>1, <1>0 DEF KeepGroup, Room
  <2>8. Reads(ch)
    BY ONLY <2>2, <2>3, <2>4, <2>5, <2>6 DEF Reads
  <2>7. QED
    BY <2>8
<1>2. CASE ReadProperty
  <2>1. PICK class \in ClassIDs, name \in Names :
          /\ groupLookup[class] # 0
          /\ \E ch \in Decodings(class, name) : KeepProperty(ch)
    BY <1>2 DEF ReadProperty
  <2>2. PICK ch \in Decodings(class, name) : KeepProperty(ch)
    BY <2>1
  <2>3. /\ ch \in PropRecord /\ ch.sig = "PROP" /\ ch.class = class
        /\ ch.kind # "none" => Len(ch.values) = Len(chunks[groupLookup[class]].ids)
    <3> DEFINE empty == [sig |-> "PROP", class |-> class, name |-> name, kind |-> "none",
                         values |-> <<>>, present |-> <<>>]
    <3>1. CASE ch \in Arrays(class, name)
      BY <3>1, <2>1, <1>9, ArraysShape
    <3>2. CASE ch = empty
      BY <3>2 DEF PropRecord
    <3>3. QED
      BY <2>2, <3>1, <3>2 DEF Decodings
  <2>4. ch \in Chunk
    BY <2>3 DEF Chunk
  <2>5. /\ Keep(ch) /\ Room
        /\ UNCHANGED <<phase, warns, err, pos, link, header, groupLookup, treeVars>>
    BY <2>2 DEF KeepProperty
  <2>6. Reads(ch)
    BY <1>0, <2>1, <2>3, <2>4, <2>5 DEF Reads, Keep, Room
  <2>7. QED
    BY <2>6
<1>7. CASE ReadUngrouped
  <2>1. Reads(Other)
    BY <1>7, <1>0 DEF ReadUngrouped, Reads, KeepErrored, Room, treeVars
  <2>2. QED
    BY <2>1
<1>3. CASE ReadOther
  <2>1. PICK ch \in PrntChunks \cup MetaChunks \cup SstrChunks : KeepOther(ch)
    BY <1>3 DEF ReadOther
  <2>2. /\ ch \in Chunk /\ ch.sig \in {"PRNT", "META", "SSTR"}
        /\ ch.sig = "PRNT" => Len(ch.parents) = Len(ch.children)
    BY ChunkAssumption, PayloadAssumption DEF Chunk, PrntRecord, MetaRecord, SstrRecord
  <2>3. Reads(ch)
    BY <1>0, <2>1, <2>2 DEF KeepOther, Reads, Keep, Room
  <2>4. QED
    BY <2>3
<1>4. CASE ReadUnknown \/ ReadBroken
  <2>1. Reads(Other)
    BY <1>4, <1>0 DEF ReadUnknown, ReadBroken, Reads, Keep, KeepErrored, Room
  <2>2. QED
    BY <2>1
<1>5. CASE ReadEnd
  <2>1. warns' \in {warns, warns \cup {"chunk"}, warns \cup {"end"}}
    BY <1>5 DEF ReadEnd
  <2>3. Reads(End)
    BY <1>5, <1>0, <2>1 DEF ReadEnd, Reads, Keep
  <2>4. QED
    BY <2>3
<1>6. QED
  BY <1>1, <1>2, <1>3, <1>4, <1>5, <1>7

-------------------------------------------------------------------------------
(* A failure, or a panic, changes nothing else.                            *)
LEMMA FailKeeps ==
  ASSUME TypeOK, DecodeInv,
         NEW cause \in {"header", "truncated", "class index", "instance id",
                        "parent version", "child id", "cut frames", "nil value"},
         Fail(cause) \/ Panic(cause)
  PROVE  TypeOK' /\ DecodeInv'
<1>1. /\ phase' \in {"error", "panic"} /\ err' = cause
      /\ UNCHANGED <<warns, pos, link, header, chunks, groupLookup, total,
                     instLookup, services, properties, children, metadata, sharedStrings>>
  BY DEF Fail, Panic, readVars, treeVars
<1>2. TypeOK'
  BY <1>1 DEF TypeOK, ControlTypeOK, ReadTypeOK, TreeTypeOK
<1>3. Payloads' /\ PropsFit' /\ GroupsKnown' /\ GroupsDone'
  BY <1>1 DEF DecodeInv, Payloads, PropsFit, GroupsKnown, GroupsDone
<1>4. EndLast' /\ Reading' /\ InstancesExist' /\ GroupsFit'
  BY <1>1 DEF DecodeInv, EndLast, Reading, InstancesExist, GroupsFit
<1>5. QED
  BY <1>2, <1>3, <1>4 DEF DecodeInv

(* Walking over a chunk that is not an INST chunk.                         *)
LEMMA WalkKeeps ==
  ASSUME TypeOK, DecodeInv,
         phase = "codec", pos \in DOMAIN chunks, chunks[pos].sig # "INST",
         UNCHANGED <<phase, err, readVars, instLookup>>,
         pos' \in {pos, pos + 1}, link' \in Nat,
         warns' \in {warns, warns \cup {"no value"}, warns \cup {"child"}},
         TreeTypeOK'
  PROVE  TypeOK' /\ DecodeInv'
<1>9. ReadTypeOK /\ ControlTypeOK
  BY DEF TypeOK
<1>1. UNCHANGED <<phase, err, header, chunks, groupLookup, total, instLookup>>
  BY DEF readVars
<1>2. pos \in 1 .. Len(chunks) /\ Len(chunks) \in Nat
  BY <1>9, ChunkAt
<1>3. pos' \in 1 .. Len(chunks') + 1
  <2>1. chunks' = chunks /\ (pos' = pos \/ pos' = pos + 1)
    BY <1>1
  <2>2. QED
    BY ONLY <1>2, <2>1
<1>4. TypeOK'
  BY <1>1, <1>3, <1>9 DEF TypeOK, ControlTypeOK, ReadTypeOK
<1>5. Payloads' /\ PropsFit' /\ GroupsKnown'
  BY <1>1 DEF DecodeInv, Payloads, PropsFit, GroupsKnown
<1>6. GroupsDone'
  <2> SUFFICES ASSUME NEW i \in 1 .. pos' - 1, chunks[i].sig = "INST"
               PROVE  /\ groupLookup[chunks[i].class] = i
                      /\ \A k \in DOMAIN chunks[i].ids : instLookup[chunks[i].ids[k]] = i
    <3>1. chunks' = chunks /\ groupLookup' = groupLookup /\ instLookup' = instLookup
      BY <1>1
    <3>2. QED
      BY ONLY <3>1,
        \A i \in 1 .. pos' - 1 :
          chunks[i].sig = "INST" =>
            /\ groupLookup[chunks[i].class] = i
            /\ \A k \in DOMAIN chunks[i].ids : instLookup[chunks[i].ids[k]] = i
        DEF GroupsDone
  <2>1. i \in 1 .. pos - 1
    <3>1. pos' = pos \/ pos' = pos + 1
      OBVIOUS
    <3>2. i = pos => chunks[pos].sig = "INST"
      OBVIOUS
    <3>3. QED
      BY ONLY <1>2, <3>1, <3>2, i \in 1 .. pos' - 1, chunks[pos].sig # "INST"
  <2>2. QED
    BY <2>1 DEF DecodeInv, GroupsDone
<1>7. EndLast' /\ Reading' /\ InstancesExist' /\ GroupsFit'
  BY <1>1 DEF DecodeInv, EndLast, Reading, InstancesExist, GroupsFit
<1>8. QED
  BY <1>4, <1>5, <1>6, <1>7 DEF DecodeInv

(* The chunk the codec is at.                                              *)
LEMMA AtChunk ==
  ASSUME TypeOK, NEW sig, At(sig)
  PROVE  /\ phase = "codec"
         /\ Len(chunks) \in Nat /\ pos \in 1 .. Len(chunks) /\ pos \in DOMAIN chunks
         /\ Current = chunks[pos] /\ Current.sig = sig /\ Current \in Chunk
<1>1. chunks \in Seq(Chunk) /\ pos \in 1 .. Len(chunks) + 1
  BY DEF TypeOK, ReadTypeOK, ControlTypeOK
<1>2. phase = "codec" /\ pos <= Len(chunks) /\ chunks[pos].sig = sig
  BY DEF At
<1>3. Len(chunks) \in Nat /\ DOMAIN chunks = 1 .. Len(chunks)
  BY <1>1
<1>4. pos \in 1 .. Len(chunks)
  BY ONLY <1>1, <1>2, <1>3
<1>5. QED
  BY <1>1, <1>2, <1>3, <1>4 DEF Current

(* The group of a PROP chunk the codec is at.                              *)
LEMMA PropGroup ==
  ASSUME TypeOK, DecodeInv, At("PROP")
  PROVE  /\ groupLookup[Current.class] \in 1 .. pos - 1
         /\ Current.kind # "none" =>
              Len(Current.values) = Len(chunks[groupLookup[Current.class]].ids)
         /\ \A k \in DOMAIN chunks[groupLookup[Current.class]].ids :
              Exists(chunks[groupLookup[Current.class]].ids[k])
<1>1. pos \in DOMAIN chunks /\ chunks[pos].sig = "PROP" /\ Current = chunks[pos]
  BY AtChunk
<1>2. PICK i \in 1 .. pos - 1 :
        /\ chunks[i].sig = "INST"
        /\ chunks[i].class = chunks[pos].class
        /\ chunks[pos].kind # "none" => Len(chunks[pos].values) = Len(chunks[i].ids)
  BY <1>1 DEF DecodeInv, PropsFit
<1>3. /\ groupLookup[chunks[i].class] = i
      /\ \A k \in DOMAIN chunks[i].ids : instLookup[chunks[i].ids[k]] = i
  BY <1>2 DEF DecodeInv, GroupsDone
<1>4. i # 0
  BY <1>2
<1>5. QED
  BY <1>1, <1>2, <1>3, <1>4 DEF Exists

LEMMA DecodeInstanceInv ==
  ASSUME TypeOK, DecodeInv, DecodeInstance
  PROVE  TypeOK' /\ DecodeInv'
<1>9. ReadTypeOK /\ ControlTypeOK /\ TreeTypeOK
  BY DEF TypeOK
<1> DEFINE ch == chunks[pos]
<1>1. /\ phase = "codec" /\ pos \in DOMAIN chunks /\ ch.sig = "INST" /\ Current = ch
      /\ pos \in 1 .. Len(chunks) /\ Len(chunks) \in Nat /\ ch \in InstRecord
  <2>1. At("INST")
    BY DEF DecodeInstance
  <2>2. QED
    BY <2>1, <1>9, AtChunk, ChunkParts
<1>2. CASE Fail("class index") \/ Fail("instance id")
  BY <1>2, FailKeeps
<1>3. ch.isService => Len(ch.ids) = Len(ch.getService)
  BY <1>1 DEF DecodeInv, Payloads
<1>4. CASE /\ IdsFree(ch) /\ IsOwnGroup(ch)
           /\ instLookup' = [id \in Ids |-> IF id \in IdsOf(ch) THEN pos ELSE instLookup[id]]
           /\ services' = services \cup ServicesOf(ch)
           /\ pos' = pos + 1
           /\ UNCHANGED <<phase, warns, err, link, readVars,
                          properties, children, metadata, sharedStrings>>
  <2>1. UNCHANGED <<phase, warns, err, link, header, chunks, groupLookup, total,
                    properties, children, metadata, sharedStrings>>
    BY <1>4 DEF readVars
  <2>2. ch.ids \in Seq(Ids)
    BY <1>1 DEF InstRecord
  <2>3. IdsOf(ch) \subseteq Ids /\ ServicesOf(ch) \subseteq Ids
    BY <2>2 DEF IdsOf, ServicesOf
  <2>4. instLookup' \in [Ids -> 0 .. Len(chunks)]
    BY <1>1, <1>4, <1>9 DEF TreeTypeOK
  <2>5. TreeTypeOK'
    BY <2>1, <2>3, <2>4, <1>4, <1>9 DEF TreeTypeOK
  <2>6. ReadTypeOK'
    BY <2>1, <1>9 DEF ReadTypeOK
  <2>7. pos' \in 1 .. Len(chunks') + 1
    BY <2>1, <1>1, <1>4
  <2>8. ControlTypeOK'
    BY <2>1, <2>7, <1>9 DEF ControlTypeOK
  <2>9. Payloads' /\ PropsFit' /\ GroupsKnown'
    BY <2>1 DEF DecodeInv, Payloads, PropsFit, GroupsKnown
  <2>10. GroupsDone'
    <3> SUFFICES ASSUME NEW i \in 1 .. pos, chunks[i].sig = "INST"
                 PROVE  /\ groupLookup[chunks[i].class] = i
                        /\ \A k \in DOMAIN chunks[i].ids : instLookup'[chunks[i].ids[k]] = i
      <4>1. chunks' = chunks /\ groupLookup' = groupLookup /\ 1 .. pos' - 1 = 1 .. pos
        BY <2>1, <1>1, <1>4
      <4>2. QED
        BY <4>1 DEF GroupsDone
    <3>1. CASE i = pos
      <4>1. \A k \in DOMAIN ch.ids : ch.ids[k] \in Ids /\ ch.ids[k] \in IdsOf(ch)
        BY <2>2 DEF IdsOf
      <4>2. QED
        BY <3>1, <4>1, <1>4 DEF IsOwnGroup
    <3>2. CASE i # pos
      <4>1. i \in 1 .. pos - 1 /\ i \in DOMAIN chunks
        BY <3>2, <1>1, <1>9 DEF ReadTypeOK
      <4>2. /\ groupLookup[chunks[i].class] = i
            /\ \A k \in DOMAIN chunks[i].ids : instLookup[chunks[i].ids[k]] = i
        BY <4>1 DEF DecodeInv, GroupsDone
      <4>3. chunks[i].ids \in Seq(Ids)
        BY <4>1, <1>9, ChunkAt DEF InstRecord
      <4>4. ASSUME NEW k \in DOMAIN chunks[i].ids
            PROVE  instLookup'[chunks[i].ids[k]] = i
        <5> DEFINE id == chunks[i].ids[k]
        <5>1. id \in Ids /\ instLookup[id] = i /\ i # 0
          BY <4>1, <4>2, <4>3
        <5>2. id \notin IdsOf(ch)
          BY <5>1, <1>4 DEF IdsFree, Exists, IdsOf
        <5>3. QED
          BY <5>1, <5>2, <1>4
      <4>5. QED
        BY <4>2, <4>4
    <3>3. QED
      BY <3>1, <3>2
  <2>11. EndLast' /\ Reading' /\ InstancesExist' /\ GroupsFit'
    BY <2>1, <1>1 DEF DecodeInv, EndLast, Reading, InstancesExist, GroupsFit
  <2>12. QED
    BY <2>5, <2>6, <2>8, <2>9, <2>10, <2>11 DEF TypeOK, DecodeInv
<1>5. QED
  BY <1>1, <1>2, <1>3, <1>4 DEF DecodeInstance

(* The value of an element is a value.                                     *)
LEMMA DecodedType ==
  ASSUME TypeOK, NEW ch \in PropRecord, ch.kind # "none", NEW i \in DOMAIN ch.values
  PROVE  Decoded(ch, i) \in Value
<1>1. ch.values[i] \in Int /\ ch.kind \in Kinds
  BY DEF PropRecord
<1>2. sharedStrings \in Seq(Nat)
  BY DEF TypeOK, TreeTypeOK
<1>3. CASE ch.kind = "reference"
  <2>1. Referent(ch.values[i]) \in Int
    BY <1>1 DEF Referent, nilInstance
  <2>2. QED
    BY <1>3, <2>1 DEF Decoded, Value, Flagged
<1>4. CASE ch.kind = "shared"
  <2> DEFINE v == ch.values[i]
  <2>1. v >= 0 /\ v < Len(sharedStrings) => sharedStrings[v + 1] \in Nat
    BY <1>1, <1>2
  <2>2. (IF v >= 0 /\ v < Len(sharedStrings) THEN sharedStrings[v + 1] ELSE 0) \in Int
    BY <2>1
  <2>3. QED
    BY <1>4, <2>2 DEF Decoded, Value, Flagged
<1>5. CASE ch.kind \in Flagged
  BY <1>1, <1>5 DEF Decoded, Value, NoneOf
<1>6. CASE ch.kind = "value"
  BY <1>1, <1>6 DEF Decoded, Value
<1>7. QED
  BY <1>1, <1>3, <1>4, <1>5, <1>6 DEF Kinds

LEMMA DecodePropertyInv ==
  ASSUME TypeOK, DecodeInv, DecodeProperty
  PROVE  TypeOK' /\ DecodeInv'
<1>9. TreeTypeOK
  BY DEF TypeOK
<1> DEFINE ch == Current
           group == chunks[groupLookup[ch.class]]
<1>1. At("PROP")
  BY DEF DecodeProperty
<1>2. /\ phase = "codec" /\ pos \in DOMAIN chunks /\ chunks[pos].sig # "INST"
      /\ ch \in PropRecord /\ pos \in 1 .. Len(chunks) /\ Len(chunks) \in Nat
  BY <1>1, AtChunk, ChunkParts
<1>3. /\ groupLookup[ch.class] \in 1 .. pos - 1
      /\ ch.kind # "none" => Len(ch.values) = Len(group.ids)
      /\ \A k \in DOMAIN group.ids : Exists(group.ids[k])
  BY <1>1, PropGroup
<1>4. \/ Fail("class index") \/ Panic("nil value")
      \/ Skip("no value")
      \/ ch.kind # "none" /\ SetProperties(ch, group.ids)
  <2>1. groupLookup[ch.class] # 0
    BY <1>3, <1>2
  <2>2. QED
    BY <1>3, <2>1 DEF DecodeProperty
<1>5. CASE Fail("class index") \/ Panic("nil value")
  BY <1>5, FailKeeps
<1>6. CASE Skip("no value")
  <2>1. TreeTypeOK' /\ link' \in Nat /\ instLookup' = instLookup
    BY <1>6, <1>9 DEF Skip, treeVars, TreeTypeOK, TypeOK, ControlTypeOK, readVars
  <2>2. QED
    BY <1>2, <1>6, <2>1, WalkKeeps DEF Skip
<1>7. CASE ch.kind # "none" /\ SetProperties(ch, group.ids)
  <2>1. ch.kind # "none" /\ ch.name \in Names
    BY <1>2, <1>7 DEF PropRecord
  <2>2. /\ UNCHANGED <<phase, warns, err, link, readVars,
                       instLookup, services, children, metadata, sharedStrings>>
        /\ pos' = pos + 1
    BY <1>7 DEF SetProperties
  <2>3. properties' \in [Ids -> [Names -> Value]]
    <3> DEFINE ids == group.ids
               new(id) == IF \E i \in DOMAIN ids : ids[i] = id
                          THEN [properties[id] EXCEPT ![ch.name] =
                                  Decoded(ch, CHOOSE i \in DOMAIN ids : ids[i] = id)]
                          ELSE properties[id]
    <3>1. properties' = [id \in Ids |-> new(id)]
      BY <1>7 DEF SetProperties
    <3>2. DOMAIN ids = DOMAIN ch.values
      <4>1. groupLookup[ch.class] \in DOMAIN chunks /\ ReadTypeOK
        BY <1>2, <1>3 DEF TypeOK, ReadTypeOK
      <4>2. group.sig = "INST"
        BY <1>2, <1>3, <4>1 DEF ReadTypeOK, PropRecord
      <4>3. group.ids \in Seq(Ids) /\ ch.values \in Seq(Int)
        BY <1>2, <4>1, <4>2, ChunkAt DEF InstRecord, PropRecord
      <4>4. QED
        BY <4>3, <1>3, <2>1
    <3>3. ASSUME NEW id \in Ids
          PROVE  new(id) \in [Names -> Value]
      <4>1. properties[id] \in [Names -> Value]
        BY <1>9 DEF TreeTypeOK
      <4>2. CASE \E i \in DOMAIN ids : ids[i] = id
        <5> DEFINE i == CHOOSE i \in DOMAIN ids : ids[i] = id
        <5>1. i \in DOMAIN ids
          BY <4>2
        <5>2. Decoded(ch, i) \in Value
          BY <5>1, <3>2, <1>2, <2>1, DecodedType
        <5>3. QED
          BY <4>1, <4>2, <5>2
      <4>3. QED
        BY <4>1, <4>2
    <3>4. QED
      BY <3>1, <3>3
  <2>4. TreeTypeOK' /\ link' \in Nat
    BY <2>2, <2>3, <1>9 DEF TreeTypeOK, TypeOK, ControlTypeOK, readVars
  <2>5. QED
    BY <1>2, <2>2, <2>4, WalkKeeps
<1>8. QED
  BY <1>4, <1>5, <1>6, <1>7

LEMMA ParentInv ==
  ASSUME TypeOK, DecodeInv, EnterParent \/ LinkChild \/ LeaveParent
  PROVE  TypeOK' /\ DecodeInv'
<1>9. TreeTypeOK /\ link \in Nat
  BY DEF TypeOK, ControlTypeOK
<1>1. At("PRNT")
  BY DEF EnterParent, LinkChild, LeaveParent
<1>2. /\ phase = "codec" /\ pos \in DOMAIN chunks /\ chunks[pos].sig # "INST"
      /\ Current = chunks[pos] /\ Current.sig = "PRNT" /\ Current \in PrntRecord
  BY <1>1, AtChunk, ChunkParts
<1>3. Len(Current.parents) = Len(Current.children)
  BY <1>2 DEF DecodeInv, Payloads
<1>4. CASE EnterParent
  <2>1. CASE Fail("parent version")
    BY <2>1, FailKeeps
  <2>2. CASE link' = 1 /\ UNCHANGED <<phase, warns, err, pos, readVars, treeVars>>
    <3>1. TreeTypeOK' /\ link' \in Nat /\ instLookup' = instLookup
      BY <2>2, <1>9 DEF treeVars, TreeTypeOK, readVars
    <3>2. QED
      BY <1>2, <2>2, <3>1, WalkKeeps
  <2>3. QED
    BY <1>3, <1>4, <2>1, <2>2 DEF EnterParent
<1>5. CASE LeaveParent
  <2>1. /\ link' = 0 /\ pos' = pos + 1
        /\ UNCHANGED <<phase, warns, err, readVars, treeVars>>
    BY <1>5 DEF LeaveParent
  <2>2. TreeTypeOK' /\ link' \in Nat /\ instLookup' = instLookup
    BY <2>1, <1>9 DEF treeVars, TreeTypeOK, readVars
  <2>3. QED
    BY <1>2, <2>1, <2>2, WalkKeeps
<1>6. CASE LinkChild
  <2> DEFINE child == Current.children[link]
             parent == Current.parents[link]
  <2>1. CASE Fail("child id")
    BY <2>1, FailKeeps
  <2>2. CASE ~Fail("child id")
    <3>1. /\ link' = link + 1
          /\ \/ warns' = warns \cup {"child"} /\ UNCHANGED children
             \/ Attach(child, parent) /\ UNCHANGED warns
          /\ UNCHANGED <<phase, err, pos, readVars,
                         instLookup, services, properties, metadata, sharedStrings>>
      BY <1>6, <2>2 DEF LinkChild
    <3>2. child \in Ids /\ parent \in Ids
      <4>1. link \in DOMAIN Current.children
        BY <1>6 DEF LinkChild
      <4>2. Current.children \in Seq(Ids) /\ Current.parents \in Seq(Ids)
        BY <1>2 DEF PrntRecord
      <4>3. QED
        BY <4>1, <4>2, <1>3
    <3>3. children' \in [Ids -> Seq(Ids)]
      <4>1. children \in [Ids -> Seq(Ids)]
        BY <1>9 DEF TreeTypeOK
      <4>2. children' = children \/ children' = [children EXCEPT ![parent] = Append(@, child)]
        BY <3>1 DEF Attach
      <4>3. Append(children[parent], child) \in Seq(Ids)
        BY <4>1, <3>2
      <4>4. QED
        BY <4>1, <4>2, <4>3, <3>2
    <3>4. TreeTypeOK' /\ link' \in Nat
      BY <3>1, <3>3, <1>9 DEF TreeTypeOK, readVars
    <3>5. warns' \in {warns, warns \cup {"child"}}
      BY <3>1
    <3>6. QED
      BY <1>2, <3>1, <3>4, <3>5, WalkKeeps
  <2>3. QED
    BY <2>1, <2>2
<1>7. QED
  BY <1>4, <1>5, <1>6

LEMMA TablesInv ==
  ASSUME TypeOK, DecodeInv, DecodeMeta \/ DecodeSharedStrings \/ PassOther
  PROVE  TypeOK' /\ DecodeInv'
<1>9. TreeTypeOK /\ link \in Nat
  BY DEF TypeOK, ControlTypeOK
<1>1. At("META") \/ At("SSTR") \/ At("other")
  BY DEF DecodeMeta, DecodeSharedStrings, PassOther
<1>2. /\ phase = "codec" /\ pos \in DOMAIN chunks /\ chunks[pos].sig # "INST"
      /\ Current = chunks[pos]
  BY <1>1, AtChunk
<1>3. /\ pos' = pos + 1
      /\ UNCHANGED <<phase, warns, err, link, readVars, instLookup, services,
                     properties, children>>
  BY DEF DecodeMeta, DecodeSharedStrings, PassOther, treeVars
<1>4. metadata' \in [MetaKeys -> Nat] /\ sharedStrings' \in Seq(Nat)
  <2>1. metadata \in [MetaKeys -> Nat] /\ sharedStrings \in Seq(Nat)
    BY <1>9 DEF TreeTypeOK
  <2>2. CASE DecodeMeta
    <3>1. Current \in MetaRecord
      BY <2>2, AtChunk, ChunkParts DEF DecodeMeta
    <3>2. Current.values \in Seq(Nat \X Nat)
      BY <3>1 DEF MetaRecord
    <3>3. ASSUME NEW i \in DOMAIN Current.values
          PROVE  Current.values[i][2] \in Nat
      BY <3>2
    <3>4. /\ metadata' = [key \in MetaKeys |->
               IF \E i \in DOMAIN Current.values : IsLastPair(i, key)
               THEN Current.values[CHOOSE i \in DOMAIN Current.values : IsLastPair(i, key)][2]
               ELSE metadata[key]]
          /\ UNCHANGED sharedStrings
      BY <2>2 DEF DecodeMeta
    <3>5. ASSUME NEW key \in MetaKeys
          PROVE  metadata'[key] \in Nat
      <4>1. metadata[key] \in Nat
        BY <2>1
      <4>2. CASE \E i \in DOMAIN Current.values : IsLastPair(i, key)
        BY ONLY <3>3, <3>4, <4>2
      <4>3. CASE ~ \E i \in DOMAIN Current.values : IsLastPair(i, key)
        BY ONLY <3>4, <4>1, <4>3
      <4>4. QED
        BY <4>2, <4>3
    <3>6. QED
      BY <2>1, <3>4, <3>5
  <2>3. CASE DecodeSharedStrings
    <3>1. Current \in SstrRecord
      BY <2>3, AtChunk, ChunkParts DEF DecodeSharedStrings
    <3>2. sharedStrings' = Current.values /\ UNCHANGED metadata
      BY <2>3 DEF DecodeSharedStrings
    <3>3. QED
      BY <2>1, <3>1, <3>2 DEF SstrRecord
  <2>4. CASE PassOther
    BY <2>1, <2>4 DEF PassOther, treeVars
  <2>5. QED
    BY <2>2, <2>3, <2>4
<1>5. TreeTypeOK' /\ link' \in Nat
  BY <1>3, <1>4, <1>9 DEF TreeTypeOK, readVars
<1>6. QED
  BY <1>2, <1>3, <1>5, WalkKeeps

(* The steps that only move the phase, and those that do nothing.          *)
LEMMA PhaseInv ==
  ASSUME TypeOK, DecodeInv,
         HeaderOK \/ LegacyXML \/ DecodeEnd \/ UNCHANGED vars
  PROVE  TypeOK' /\ DecodeInv'
<1>1. UNCHANGED <<err, pos, link, header, chunks, groupLookup, total,
                  instLookup, services, properties, children, metadata, sharedStrings>>
  BY DEF HeaderOK, LegacyXML, DecodeEnd, vars, readVars, treeVars
<1>2. /\ warns' \in {warns, warns \cup {"reserved"}}
      /\ \/ phase' = phase
         \/ phase = "header" /\ phase' \in {"chunks", "xml"}
         \/ At("END") /\ phase' = "done"
  BY DEF HeaderOK, LegacyXML, DecodeEnd, vars
<1>3. TypeOK'
  BY <1>1, <1>2 DEF TypeOK, ControlTypeOK, ReadTypeOK, TreeTypeOK
<1>4. Payloads' /\ PropsFit' /\ GroupsKnown' /\ GroupsDone'
  BY <1>1 DEF DecodeInv, Payloads, PropsFit, GroupsKnown, GroupsDone
<1>5. EndLast'
  <2>1. CASE phase' = phase \/ phase = "header"
    BY <2>1, <1>1, <1>2 DEF DecodeInv, EndLast, At
  <2>2. CASE At("END") /\ phase' = "done"
    <3>1. pos \in DOMAIN chunks /\ chunks[pos].sig = "END" /\ phase = "codec"
      BY <2>2, AtChunk
    <3>2. QED
      BY <2>2, <3>1, <1>1 DEF DecodeInv, EndLast
  <2>3. QED
    BY <1>2, <2>1, <2>2
<1>6. Reading' /\ InstancesExist' /\ GroupsFit'
  BY <1>1, <1>2 DEF DecodeInv, Reading, InstancesExist, GroupsFit
<1>7. QED
  BY <1>3, <1>4, <1>5, <1>6 DEF DecodeInv

LEMMA DecodeStep ==
  ASSUME TypeOK, DecodeInv, [Next]_vars
  PROVE  TypeOK' /\ DecodeInv'
<1>1. CASE HeaderFails \/ Truncated \/ ReadCutFrames
  BY <1>1, FailKeeps DEF HeaderFails, Truncated, ReadCutFrames
<1>2. CASE \/ ReadInstance \/ ReadProperty \/ ReadUngrouped \/ ReadOther
           \/ ReadUnknown \/ ReadBroken \/ ReadEnd
  BY <1>2, StepReads, ReadsType, ReadsInv
<1>3. CASE DecodeInstance
  BY <1>3, DecodeInstanceInv
<1>4. CASE DecodeProperty
  BY <1>4, DecodePropertyInv
<1>5. CASE EnterParent \/ LinkChild \/ LeaveParent
  BY <1>5, ParentInv
<1>6. CASE DecodeMeta \/ DecodeSharedStrings \/ PassOther
  BY <1>6, TablesInv
<1>7. CASE HeaderOK \/ LegacyXML \/ DecodeEnd \/ UNCHANGED vars
  BY <1>7, PhaseInv
<1>8. QED
  BY <1>1, <1>2, <1>3, <1>4, <1>5, <1>6, <1>7 DEF Next, Returned

LEMMA DecodeStart == Init => TypeOK /\ DecodeInv
<1> SUFFICES ASSUME Init PROVE TypeOK /\ DecodeInv
  OBVIOUS
<1>1. /\ phase = "header" /\ header \in Headers /\ chunks = <<>>
      /\ groupLookup = [class \in ClassIDs |-> 0]
      /\ total = 0 /\ warns = {} /\ err = "none" /\ pos = 1 /\ link = 0
      /\ instLookup = [id \in Ids |-> 0] /\ services = {}
      /\ properties = [id \in Ids |-> [name \in Names |-> Unset]]
      /\ children = [id \in Ids |-> <<>>]
      /\ metadata = [key \in MetaKeys |-> 0] /\ sharedStrings = <<>>
  BY DEF Init
<1>2. Len(chunks) = 0 /\ DOMAIN chunks = {} /\ chunks \in Seq(Chunk)
  BY <1>1
<1>3. ControlTypeOK
  BY <1>1, <1>2 DEF ControlTypeOK
<1>4. ReadTypeOK
  BY <1>1, <1>2, ChunkAssumption DEF ReadTypeOK
<1>5. TreeTypeOK
  <2>1. Unset \in Value
    BY DEF Unset, Value
  <2>2. QED
    BY <1>1, <1>2, <2>1 DEF TreeTypeOK
<1>6. DecodeInv
  <2>1. Payloads /\ PropsFit /\ GroupsKnown /\ EndLast
    BY <1>1, <1>2 DEF Payloads, PropsFit, GroupsKnown, EndLast
  <2>2. GroupsDone /\ Reading /\ InstancesExist /\ GroupsFit
    BY <1>1 DEF GroupsDone, Reading, InstancesExist, GroupsFit
  <2>3. QED
    BY <2>1, <2>2 DEF DecodeInv
<1>7. QED
  BY <1>3, <1>4, <1>5, <1>6 DEF TypeOK

LEMMA DecodeInvariant == Spec => [](TypeOK /\ DecodeInv)
<1>1. QED
  BY DecodeStart, DecodeStep, PTL DEF Spec

-------------------------------------------------------------------------------

(* The state keeps its types, groupLookup leading only to INST chunks of   *)
(* the class it is asked for (rbxl/decoder.go:222).                        *)
THEOREM DecodeTypeCorrect == Spec => []TypeOK
<1>1. QED
  BY DecodeInvariant, PTL

(* Properties are never written to a nil instance, for any file            *)
(* (rbxl/codec.go:112, 118, 129, 139).                                     *)
THEOREM InstancesAlwaysExist == Spec => []InstancesExist
<1>1. TypeOK /\ DecodeInv => InstancesExist
  BY DEF DecodeInv
<1>2. QED
  BY <1>1, DecodeInvariant, PTL

(* The checks of array lengths and the warning about an unknown class are  *)
(* never needed, for any file (rbxl/codec.go:62, 94, 105, 150).            *)
THEOREM GroupsAlwaysFit == Spec => []GroupsFit
<1>1. TypeOK /\ DecodeInv => GroupsFit
  BY DEF DecodeInv
<1>2. QED
  BY <1>1, DecodeInvariant, PTL

(* In a file that decodes, groups share neither class ids nor instance ids *)
(* (rbxl/codec.go:74, 83).                                                 *)
THEOREM GroupsAlwaysDistinct == Spec => []GroupsDistinct
<1>1. TypeOK /\ DecodeInv => GroupsDistinct
  <2> SUFFICES ASSUME TypeOK, DecodeInv, phase = "done",
                      NEW j \in DOMAIN chunks, NEW k \in DOMAIN chunks, j # k,
                      chunks[j].sig = "INST", chunks[k].sig = "INST"
               PROVE  /\ chunks[j].class # chunks[k].class
                      /\ IdsOf(chunks[j]) \cap IdsOf(chunks[k]) = {}
    BY DEF GroupsDistinct
  <2>1. DOMAIN chunks = 1 .. Len(chunks) /\ Len(chunks) \in Nat
    BY DEF TypeOK, ReadTypeOK
  <2>2. pos = Len(chunks) /\ chunks[pos].sig = "END"
    BY DEF DecodeInv, EndLast
  <2>3. j \in 1 .. pos - 1 /\ k \in 1 .. pos - 1
    <3>1. j # pos /\ k # pos
      BY <2>2
    <3>2. QED
      BY ONLY <2>1, <2>2, <3>1, j \in DOMAIN chunks, k \in DOMAIN chunks
  <2>4. /\ groupLookup[chunks[j].class] = j /\ groupLookup[chunks[k].class] = k
        /\ \A n \in DOMAIN chunks[j].ids : instLookup[chunks[j].ids[n]] = j
        /\ \A n \in DOMAIN chunks[k].ids : instLookup[chunks[k].ids[n]] = k
    BY <2>3 DEF DecodeInv, GroupsDone
  <2>5. QED
    BY <2>4 DEF IdsOf
<1>2. QED
  BY <1>1, DecodeInvariant, PTL

-------------------------------------------------------------------------------
(***************************************************************************)
(* What the codec has built of the file so far.  Nothing of it survives    *)
(* in the state but instLookup, the table of shared strings and the tree   *)
(* itself, so the invariant says of each what the chunks passed so far     *)
(* make of it: of an instance the group it came from, of the table the     *)
(* last SSTR chunk, of a property the last PROP chunk of the class, of the *)
(* children the links up to the place <<pos, link>>.                       *)
(***************************************************************************)
Made ==
  \A id \in Ids :
    Exists(id) =>
      /\ instLookup[id] \in 1 .. pos - 1
      /\ chunks[instLookup[id]].sig = "INST"
      /\ id \in IdsOf(chunks[instLookup[id]])

IsTable(k) == chunks[k].sig = "SSTR"

Strings ==
  \/ sharedStrings = <<>> /\ \A k \in 1 .. pos - 1 : ~IsTable(k)
  \/ \E k \in 1 .. pos - 1 :
       /\ IsTable(k) /\ \A l \in 1 .. pos - 1 : IsTable(l) => l <= k
       /\ sharedStrings = chunks[k].values

IsSource(j, id, name) ==
  /\ Exists(id)
  /\ chunks[j].sig = "PROP"
  /\ chunks[j].kind # "none"
  /\ chunks[j].name = name
  /\ chunks[j].class = chunks[instLookup[id]].class

PropertiesSoFar ==
  \A id \in Ids, name \in Names :
    \/ /\ properties[id][name] = Unset
       /\ \A j \in 1 .. pos - 1 : ~IsSource(j, id, name)
    \/ \E j \in 1 .. pos - 1 :
         /\ IsSource(j, id, name)
         /\ \A k \in 1 .. pos - 1 : IsSource(k, id, name) => k <= j
         /\ properties[id][name] = Meant(j, id)

(* A link is walked over at its place in a PRNT chunk, and at no other.    *)
Linking ==
  /\ phase \in {"header", "chunks"} => link = 0
  /\ link # 0 => pos \in DOMAIN chunks /\ chunks[pos].sig = "PRNT"

Passed(l) == l[1] < pos \/ (l[1] = pos /\ l[2] < link)

LinksPassed(parent) == {l \in LinksTo(parent) : Passed(l)}

LinksBefore(l, parent) == {m \in LinksPassed(parent) : Before(m, l)}

TreeSoFar ==
  \A parent \in Ids :
    /\ IsFiniteSet(LinksPassed(parent))
    /\ Len(children[parent]) = Cardinality(LinksPassed(parent))
    /\ \A l \in LinksPassed(parent) :
         children[parent][1 + Cardinality(LinksBefore(l, parent))]
           = chunks[l[1]].children[l[2]]

FileInv == Made /\ Strings /\ PropertiesSoFar /\ Linking /\ TreeSoFar

(* Where the codec is.                                                     *)
LEMMA Place ==
  ASSUME TypeOK
  PROVE  /\ Len(chunks) \in Nat /\ DOMAIN chunks = 1 .. Len(chunks)
         /\ pos \in Nat \ {0} /\ pos \in 1 .. Len(chunks) + 1 /\ link \in Nat
<1>1. chunks \in Seq(Chunk) /\ pos \in 1 .. Len(chunks) + 1
  BY DEF TypeOK, ReadTypeOK, ControlTypeOK
<1>4. link \in Nat
  BY DEF TypeOK, ControlTypeOK
<1>2. Len(chunks) \in Nat /\ DOMAIN chunks = 1 .. Len(chunks)
  BY <1>1
<1>3. QED
  BY ONLY <1>1, <1>2, <1>4

(* What a chunk says an instance has depends on the chunks, on where the   *)
(* instance was made and on which instances were made before the chunk.    *)
Element(file, made, id) ==
  CHOOSE i \in DOMAIN file[made].ids : file[made].ids[i] = id

Table(file, j) ==
  LET tables == {k \in 1 .. j - 1 : file[k].sig = "SSTR"} IN
  IF tables = {} THEN <<>> ELSE file[CHOOSE k \in tables : IsGreatest(k, tables)].values

MeantIn(ch, i, strings, referent) ==
  CASE ch.kind = "reference" -> [type |-> "reference", value |-> referent]
    [] ch.kind = "shared" ->
         [type |-> "shared",
          value |-> IF ch.values[i] \in 0 .. Len(strings) - 1 THEN strings[ch.values[i] + 1] ELSE 0]
    [] ch.kind \in Flagged ->
         IF ch.present[i] THEN [type |-> "some", value |-> ch.values[i]] ELSE NoneOf
    [] ch.kind = "value" -> [type |-> "value", value |-> ch.values[i]]

LEMMA MeantAgain ==
  ASSUME UNCHANGED chunks, NEW j, NEW id, instLookup'[id] = instLookup[id],
         \A x : (ExistsAt(x, j) <=> ExistsAt(x, j)')
  PROVE  Meant(j, id)' = Meant(j, id)
<1> DEFINE i == Element(chunks, instLookup[id], id)
           v == chunks[j].values[i]
           referent == IF ExistsAt(v, j) THEN v ELSE nilInstance
<1>1. Meant(j, id) = MeantIn(chunks[j], i, Table(chunks, j), referent)
  BY Zenon DEF Meant, MeantIn, Element, Table
<1>2. Meant(j, id)' = MeantIn(chunks'[j], i', Table(chunks', j), referent')
  BY Zenon DEF Meant, MeantIn, Element, Table
<1>3. chunks' = chunks /\ i' = i /\ v' = v
  OBVIOUS
<1>4. referent' = referent
  <2> HIDE DEF v
  <2>1. ExistsAt(v, j) <=> ExistsAt(v, j)'
    BY <1>3 DEF ExistsAt
  <2>2. QED
    BY <1>3, <2>1
<1>5. QED
  BY <1>1, <1>2, <1>3, <1>4

LEMMA MeantStays ==
  ASSUME UNCHANGED <<chunks, instLookup>>, NEW j, NEW id
  PROVE  Meant(j, id)' = Meant(j, id)
BY MeantAgain DEF ExistsAt

LEMMA LinksStay ==
  ASSUME UNCHANGED <<chunks, instLookup>>, NEW parent
  PROVE  LinksTo(parent)' = LinksTo(parent)
BY DEF LinksTo, ExistsAt

(* How the parts of the invariant fare under a step is a matter of what it *)
(* leaves alone.  A step that leaves everything they speak of alone:       *)
LEMMA FileStays ==
  ASSUME FileInv,
         UNCHANGED <<chunks, instLookup, sharedStrings, properties, children, pos, link>>,
         phase' \in {"header", "chunks"} => phase \in {"header", "chunks"}
  PROVE  FileInv'
<1>1. Made' /\ Strings'
  BY DEF FileInv, Made, Strings, Exists, IdsOf, IsTable
<1>2. PropertiesSoFar'
  BY MeantStays DEF FileInv, PropertiesSoFar, IsSource, Exists
<1>3. Linking'
  BY DEF FileInv, Linking
<1>4. TreeSoFar'
  <2>1. ASSUME NEW parent \in Ids, NEW l
        PROVE  /\ LinksPassed(parent)' = LinksPassed(parent)
               /\ LinksBefore(l, parent)' = LinksBefore(l, parent)
    BY LinksStay DEF LinksPassed, LinksBefore, Passed
  <2>2. QED
    BY <2>1 DEF FileInv, TreeSoFar
<1>5. QED
  BY <1>1, <1>2, <1>3, <1>4 DEF FileInv

(* The table of strings when the codec is at a chunk is the one Meant      *)
(* looks for in the file.                                                  *)
LEMMA StringsMeant ==
  ASSUME TypeOK, Strings
  PROVE  LET tables == {k \in 1 .. pos - 1 : chunks[k].sig = "SSTR"} IN
         sharedStrings = IF tables = {} THEN <<>>
                         ELSE chunks[CHOOSE k \in tables : IsGreatest(k, tables)].values
<1> DEFINE tables == {k \in 1 .. pos - 1 : chunks[k].sig = "SSTR"}
           last == CHOOSE k \in tables : IsGreatest(k, tables)
<1>1. \A k : k \in tables <=> k \in 1 .. pos - 1 /\ IsTable(k)
  BY DEF IsTable
<1>2. tables \subseteq Int
  OBVIOUS
<1>3. ASSUME NEW k \in tables, \A l \in tables : l <= k
      PROVE  last = k
  <2> HIDE DEF tables
  <2>1. IsGreatest(k, tables)
    BY <1>3 DEF IsGreatest
  <2>2. ASSUME NEW j \in tables, IsGreatest(j, tables) PROVE j = k
    <3>1. j <= k /\ k <= j /\ j \in Int /\ k \in Int
      BY <2>1, <2>2, <1>2 DEF IsGreatest
    <3>2. QED
      BY <3>1
  <2>3. QED
    BY <2>1, <2>2
<1> HIDE DEF tables, last
<1>4. sharedStrings = IF tables = {} THEN <<>> ELSE chunks[last].values
  <2>1. CASE sharedStrings = <<>> /\ \A k \in 1 .. pos - 1 : ~IsTable(k)
    BY <1>1, <2>1
  <2>2. ASSUME NEW k \in 1 .. pos - 1, IsTable(k), sharedStrings = chunks[k].values,
               \A l \in 1 .. pos - 1 : IsTable(l) => l <= k
        PROVE  sharedStrings = IF tables = {} THEN <<>> ELSE chunks[last].values
    BY <1>1, <1>3, <2>2
  <2>3. QED
    BY <2>1, <2>2 DEF Strings
<1>5. QED
  BY <1>4 DEF tables, last

(* What an element decodes to is what the file means, when the codec is at *)
(* the PROP chunk.                                                         *)
LEMMA DecodedMeant ==
  ASSUME TypeOK, Made, Strings, At("PROP"), Current.kind # "none",
         NEW id \in Ids, NEW i,
         i = CHOOSE k \in DOMAIN chunks[instLookup[id]].ids : chunks[instLookup[id]].ids[k] = id,
         i \in DOMAIN Current.values
  PROVE  Decoded(Current, i) = Meant(pos, id)
<1> DEFINE ch == Current
           v == ch.values[i]
           tables == {k \in 1 .. pos - 1 : chunks[k].sig = "SSTR"}
           strings == IF tables = {} THEN <<>>
                      ELSE chunks[CHOOSE k \in tables : IsGreatest(k, tables)].values
<1>1. ch \in PropRecord /\ ch = chunks[pos] /\ pos \in Nat \ {0}
  BY AtChunk, ChunkParts, Place
<1>2. ch.kind \in Kinds /\ v \in Int
  BY <1>1 DEF PropRecord
<1>3. strings = sharedStrings
  BY StringsMeant
<1>6. Meant(pos, id) =
        CASE ch.kind = "reference" ->
               [type |-> "reference",
                value |-> IF ExistsAt(v, pos) THEN v ELSE nilInstance]
          [] ch.kind = "shared" ->
               [type |-> "shared",
                value |-> IF v \in 0 .. Len(strings) - 1 THEN strings[v + 1] ELSE 0]
          [] ch.kind \in Flagged ->
               IF ch.present[i] THEN [type |-> "some", value |-> v] ELSE NoneOf
          [] ch.kind = "value" -> [type |-> "value", value |-> v]
  BY <1>1 DEF Meant
<1>12. Decoded(ch, i) =
        CASE ch.kind = "reference" -> [type |-> "reference", value |-> Referent(v)]
          [] ch.kind = "shared" ->
               [type |-> "shared",
                value |-> IF v >= 0 /\ v < Len(sharedStrings)
                          THEN sharedStrings[v + 1] ELSE 0]
          [] ch.kind \in Flagged ->
               IF ch.present[i] THEN [type |-> "some", value |-> v] ELSE NoneOf
          [] ch.kind = "value" -> [type |-> "value", value |-> v]
  BY DEF Decoded
<1> HIDE DEF strings, tables, v, ch
<1>4. Referent(v) = IF ExistsAt(v, pos) THEN v ELSE nilInstance
  <2>1. v \in Ids /\ Exists(v) <=> ExistsAt(v, pos)
    <3>1. v \in Ids /\ Exists(v) => instLookup[v] \in 1 .. pos - 1
      BY DEF Made
    <3>2. instLookup[v] \in 1 .. pos - 1 => instLookup[v] # 0
      BY <1>1
    <3>3. QED
      BY <3>1, <3>2 DEF ExistsAt, Exists
  <2>2. QED
    BY <2>1 DEF Referent
<1>5. v >= 0 /\ v < Len(sharedStrings) <=> v \in 0 .. Len(strings) - 1
  <2>1. Len(sharedStrings) \in Nat
    BY DEF TypeOK, TreeTypeOK
  <2>2. QED
    BY <2>1, <1>2, <1>3
<1>7. CASE ch.kind = "reference"
  BY <1>4, <1>6, <1>7, <1>12 DEF ch, Flagged
<1>8. CASE ch.kind = "shared"
  BY <1>3, <1>5, <1>6, <1>8, <1>12 DEF ch, Flagged
<1>9. CASE ch.kind \in Flagged
  BY <1>6, <1>9, <1>12 DEF ch
<1>10. CASE ch.kind = "value"
  BY <1>6, <1>10, <1>12 DEF ch
<1>11. QED
  BY <1>2, <1>7, <1>8, <1>9, <1>10 DEF Kinds, ch

-------------------------------------------------------------------------------
(* Links as pairs of numbers.                                              *)
IsLink(j, k, parent) ==
  /\ j \in DOMAIN chunks /\ chunks[j].sig = "PRNT" /\ k \in DOMAIN chunks[j].children
  /\ chunks[j].parents[k] = parent
  /\ ExistsAt(chunks[j].children[k], j)
  /\ parent = nilInstance \/ ExistsAt(parent, j)

LinksArePairs ==
  \A parent, l : l \in LinksTo(parent) <=> \E j, k : l = <<j, k>> /\ IsLink(j, k, parent)

LEMMA LinkPairs == LinksArePairs
<1> SUFFICES ASSUME NEW parent, NEW l
             PROVE  l \in LinksTo(parent) <=> \E j, k : l = <<j, k>> /\ IsLink(j, k, parent)
  BY DEF LinksArePairs
<1> DEFINE prnts == {j \in DOMAIN chunks : chunks[j].sig = "PRNT"}
           places == UNION {{j} \X DOMAIN chunks[j].children : j \in prnts}
<1>1. l \in places <=> \E j \in prnts : \E k \in DOMAIN chunks[j].children : l = <<j, k>>
  OBVIOUS
<1>2. l \in LinksTo(parent) <=>
        /\ l \in places
        /\ chunks[l[1]].parents[l[2]] = parent
        /\ ExistsAt(chunks[l[1]].children[l[2]], l[1])
        /\ parent = nilInstance \/ ExistsAt(parent, l[1])
  BY DEF LinksTo
<1>3. QED
  BY <1>1, <1>2 DEF IsLink

LEMMA LinkRange ==
  ASSUME TypeOK, NEW parent, NEW j, NEW k, IsLink(j, k, parent)
  PROVE  /\ j \in 1 .. Len(chunks)
         /\ Len(chunks[j].children) \in Nat /\ k \in 1 .. Len(chunks[j].children)
         /\ chunks[j].children[k] \in Ids
<1>1. j \in DOMAIN chunks /\ k \in DOMAIN chunks[j].children /\ chunks[j].sig = "PRNT"
  BY DEF IsLink
<1>2. chunks[j].children \in Seq(Ids)
  BY <1>1, ChunkAt DEF PrntRecord, TypeOK
<1>3. QED
  BY <1>1, <1>2, Place

LEMMA PassedPairs ==
  ASSUME NEW parent, NEW l
  PROVE  l \in LinksPassed(parent) <=>
           \E j, k : l = <<j, k>> /\ IsLink(j, k, parent) /\ (j < pos \/ (j = pos /\ k < link))
<1>1. l \in LinksPassed(parent) <=> l \in LinksTo(parent) /\ Passed(l)
  BY DEF LinksPassed
<1>2. \A j, k : l = <<j, k>> => (Passed(l) <=> j < pos \/ (j = pos /\ k < link))
  BY DEF Passed
<1>3. QED
  BY <1>1, <1>2, LinkPairs DEF LinksArePairs

(* Leaving a chunk passes the links that were walked over and no other.    *)
LEMMA PassedStay ==
  ASSUME TypeOK, UNCHANGED chunks, pos \in DOMAIN chunks, pos' = pos + 1, link' = 0,
         chunks[pos].sig = "PRNT" => link > Len(chunks[pos].children),
         \A x : \A j \in 1 .. pos : (ExistsAt(x, j) <=> ExistsAt(x, j)'),
         NEW parent
  PROVE  LinksPassed(parent)' = LinksPassed(parent)
<1>1. pos \in Nat \ {0} /\ link \in Nat /\ Len(chunks) \in Nat
  BY Place
<1>2. ASSUME NEW j, NEW k, j \in 1 .. pos
      PROVE  IsLink(j, k, parent)' <=> IsLink(j, k, parent)
  BY <1>2 DEF IsLink
<1>3. ASSUME NEW j, NEW k, IsLink(j, k, parent) \/ IsLink(j, k, parent)'
      PROVE  /\ j \in Nat /\ k \in Nat \ {0} /\ chunks[j].sig = "PRNT" /\ j # 0
             /\ k <= Len(chunks[j].children) /\ Len(chunks[j].children) \in Nat
  <2>1. j \in DOMAIN chunks /\ k \in DOMAIN chunks[j].children /\ chunks[j].sig = "PRNT"
    BY <1>3 DEF IsLink
  <2>2. chunks[j].children \in Seq(Ids)
    BY <2>1, ChunkAt DEF PrntRecord, TypeOK
  <2>3. QED
    BY <2>1, <2>2, Place
<1>6. LinksArePairs'
  BY LinkPairs, PTL
<1>4. ASSUME NEW l
      PROVE  l \in LinksPassed(parent)' <=> l \in LinksPassed(parent)
  <2>1. ASSUME l \in LinksPassed(parent) PROVE l \in LinksPassed(parent)'
    <3>1. PICK j, k : l = <<j, k>> /\ IsLink(j, k, parent) /\ (j < pos \/ (j = pos /\ k < link))
      BY <2>1, PassedPairs
    <3>2. j \in 1 .. pos /\ j < pos'
      BY <3>1, <1>1, <1>3
    <3>3. IsLink(j, k, parent)'
      BY <3>1, <3>2, <1>2
    <3>4. l \in LinksTo(parent)'
      BY <3>1, <3>3, <1>6 DEF LinksArePairs
    <3>5. Passed(l)'
      BY <3>1, <3>2 DEF Passed
    <3>6. QED
      BY <3>4, <3>5 DEF LinksPassed
  <2>2. ASSUME l \in LinksPassed(parent)' PROVE l \in LinksPassed(parent)
    <3>1. l \in LinksTo(parent)' /\ Passed(l)'
      BY <2>2 DEF LinksPassed
    <3>2. PICK j, k : l = <<j, k>> /\ IsLink(j, k, parent)'
      BY <3>1, <1>6 DEF LinksArePairs
    <3>3. j < pos + 1 \/ (j = pos + 1 /\ k < 0)
      BY <3>1, <3>2 DEF Passed
    <3>4. j \in 1 .. pos
      BY <3>2, <3>3, <1>1, <1>3
    <3>5. IsLink(j, k, parent)
      BY <3>2, <3>4, <1>2
    <3>6. j = pos => k < link
      BY <3>5, <1>1, <1>3
    <3>7. j < pos \/ (j = pos /\ k < link)
      BY <3>4, <3>6, <1>1
    <3>8. QED
      BY <3>2, <3>5, <3>7, PassedPairs
  <2>3. QED
    BY <2>1, <2>2
<1>5. QED
  BY <1>4 DEF LinksPassed

LEMMA TreeStays ==
  ASSUME TreeSoFar, UNCHANGED <<chunks, children>>,
         \A parent : LinksPassed(parent)' = LinksPassed(parent)
  PROVE  TreeSoFar'
<1>1. ASSUME NEW parent \in Ids, NEW l
      PROVE  LinksBefore(l, parent)' = LinksBefore(l, parent)
  BY DEF LinksBefore
<1>2. QED
  BY <1>1 DEF TreeSoFar

(* A property stays what it is when a chunk is passed that is not about    *)
(* the instance and the name.                                              *)
LEMMA PropertyStays ==
  ASSUME TypeOK, PropertiesSoFar, NEW id \in Ids, NEW name \in Names,
         UNCHANGED chunks, pos' = pos + 1,
         properties'[id][name] = properties[id][name],
         ~IsSource(pos, id, name),
         \A j \in 1 .. pos :
           /\ IsSource(j, id, name)' <=> IsSource(j, id, name)
           /\ IsSource(j, id, name) => Meant(j, id)' = Meant(j, id)
  PROVE  \/ /\ properties'[id][name] = Unset
            /\ \A j \in 1 .. pos' - 1 : ~IsSource(j, id, name)'
         \/ \E j \in 1 .. pos' - 1 :
              /\ IsSource(j, id, name)'
              /\ \A k \in 1 .. pos' - 1 : IsSource(k, id, name)' => k <= j
              /\ properties'[id][name] = Meant(j, id)'
<1>1. pos \in Nat \ {0} /\ pos' - 1 = pos
  BY Place
<1>2. ASSUME NEW j \in 1 .. pos, IsSource(j, id, name)' PROVE j \in 1 .. pos - 1 /\ IsSource(j, id, name)
  <2>1. IsSource(j, id, name) /\ j # pos
    BY <1>2
  <2>2. QED
    BY <2>1, <1>1
<1>3. \A j \in 1 .. pos - 1 : j \in 1 .. pos
  BY <1>1
<1>4. CASE /\ properties[id][name] = Unset
           /\ \A j \in 1 .. pos - 1 : ~IsSource(j, id, name)
  BY <1>1, <1>2, <1>4
<1>5. ASSUME NEW j \in 1 .. pos - 1, IsSource(j, id, name),
             \A k \in 1 .. pos - 1 : IsSource(k, id, name) => k <= j,
             properties[id][name] = Meant(j, id)
      PROVE  /\ j \in 1 .. pos /\ IsSource(j, id, name)'
             /\ \A k \in 1 .. pos : IsSource(k, id, name)' => k <= j
             /\ properties'[id][name] = Meant(j, id)'
  BY <1>2, <1>3, <1>5
<1>6. QED
  BY <1>1, <1>4, <1>5 DEF PropertiesSoFar

-------------------------------------------------------------------------------
(* While the file is read the codec has passed nothing.                    *)
LEMMA ReadsFile ==
  ASSUME TypeOK, DecodeInv, FileInv, NEW ch, Reads(ch)
  PROVE  FileInv'
<1>1. /\ pos = 1 /\ pos' = 1 /\ link = 0 /\ link' = 0
      /\ UNCHANGED <<instLookup, sharedStrings, properties, children>>
  BY DEF Reads, treeVars, DecodeInv, Reading, FileInv, Linking
<1>2. 1 .. pos - 1 = {} /\ 1 .. pos' - 1 = {}
  BY <1>1
<1>3. Made'
  BY <1>1, <1>2 DEF FileInv, Made, Exists
<1>4. Strings' /\ PropertiesSoFar'
  BY <1>1, <1>2 DEF FileInv, Strings, PropertiesSoFar
<1>5. Linking'
  BY <1>1 DEF Linking
<1>6. TreeSoFar'
  <2>1. ASSUME NEW parent
        PROVE  LinksPassed(parent) = {} /\ LinksPassed(parent)' = {}
    <3>1. ASSUME NEW l \in LinksTo(parent), Passed(l) PROVE FALSE
      <4>1. PICK j, k : l = <<j, k>> /\ IsLink(j, k, parent)
        BY LinkPairs DEF LinksArePairs
      <4>2. j \in Nat \ {0} /\ k \in Nat \ {0}
        BY <4>1, LinkRange
      <4>3. QED
        BY <3>1, <4>1, <4>2, <1>1 DEF Passed
    <3>2. ASSUME NEW l \in LinksTo(parent)', Passed(l)' PROVE FALSE
      <4>1. LinksArePairs' /\ TypeOK'
        BY LinkPairs, ReadsType, PTL
      <4>2. PICK j, k : l = <<j, k>> /\ IsLink(j, k, parent)'
        BY <4>1 DEF LinksArePairs
      <4>3. PICK x : ExistsAt(x, j)'
        BY <4>2 DEF IsLink
      <4>4. x \in Ids /\ instLookup[x] # 0
        <5>1. x \in Ids /\ instLookup[x] \in 1 .. j - 1
          BY <4>3, <1>1 DEF ExistsAt
        <5>2. QED
          BY <5>1
      <4>5. QED
        BY <4>4, <1>2 DEF FileInv, Made, Exists
    <3>3. QED
      BY <3>1, <3>2 DEF LinksPassed
  <2>2. ASSUME NEW parent \in Ids
        PROVE  /\ IsFiniteSet(LinksPassed(parent)')
               /\ Len(children'[parent]) = Cardinality(LinksPassed(parent)')
    <3>1. IsFiniteSet(LinksPassed(parent)) /\ Len(children[parent]) = Cardinality(LinksPassed(parent))
      BY <2>2 DEF FileInv, TreeSoFar
    <3>2. LinksPassed(parent)' = LinksPassed(parent) /\ children' = children
      BY <2>1, <1>1
    <3>3. QED
      BY <3>1, <3>2
  <2>3. QED
    BY <2>1, <2>2 DEF TreeSoFar
<1>7. QED
  BY <1>3, <1>4, <1>5, <1>6 DEF FileInv

(* The codec passes a chunk without consequence for instances and          *)
(* properties.                                                             *)
LEMMA PassFile ==
  ASSUME TypeOK, FileInv, phase = "codec", pos \in DOMAIN chunks, pos' = pos + 1, link' = 0,
         chunks[pos].sig # "INST",
         chunks[pos].sig = "PROP" => chunks[pos].kind = "none",
         chunks[pos].sig = "PRNT" => link > Len(chunks[pos].children),
         sharedStrings' = IF chunks[pos].sig = "SSTR" THEN chunks[pos].values ELSE sharedStrings,
         UNCHANGED <<phase, chunks, instLookup, properties, children>>
  PROVE  FileInv'
<1>1. /\ pos \in Nat \ {0} /\ pos' - 1 = pos
      /\ \A j : j \in 1 .. pos <=> j \in 1 .. pos - 1 \/ j = pos
  BY Place
<1>2. Made'
  BY <1>1 DEF FileInv, Made, Exists, IdsOf
<1>3. Strings'
  <2>1. CASE IsTable(pos)
    <3>1. \A l \in 1 .. pos : l <= pos
      BY <1>1
    <3>2. sharedStrings' = chunks[pos].values /\ pos \in 1 .. pos
      BY <2>1, <1>1 DEF IsTable
    <3>3. QED
      BY <2>1, <3>1, <3>2, <1>1 DEF Strings, IsTable
  <2>2. CASE ~IsTable(pos)
    <3>1. sharedStrings' = sharedStrings
      BY <2>2 DEF IsTable
    <3>2. \A l \in 1 .. pos : IsTable(l) => l \in 1 .. pos - 1
      BY <2>2, <1>1
    <3>3. QED
      BY <3>1, <3>2, <1>1 DEF FileInv, Strings, IsTable
  <2>3. QED
    BY <2>1, <2>2
<1>4. PropertiesSoFar'
  <2> SUFFICES ASSUME NEW id \in Ids, NEW name \in Names
               PROVE  \/ /\ properties'[id][name] = Unset
                         /\ \A j \in 1 .. pos' - 1 : ~IsSource(j, id, name)'
                      \/ \E j \in 1 .. pos' - 1 :
                           /\ IsSource(j, id, name)'
                           /\ \A k \in 1 .. pos' - 1 : IsSource(k, id, name)' => k <= j
                           /\ properties'[id][name] = Meant(j, id)'
    BY DEF PropertiesSoFar
  <2>1. ~IsSource(pos, id, name)
    BY DEF IsSource
  <2>2. \A j : (IsSource(j, id, name)' <=> IsSource(j, id, name))
    BY DEF IsSource, Exists
  <2>3. \A j : Meant(j, id)' = Meant(j, id)
    BY MeantStays
  <2>4. QED
    BY <2>1, <2>2, <2>3, PropertyStays DEF FileInv
<1>5. Linking'
  BY DEF Linking
<1>6. TreeSoFar'
  <2>1. \A x : \A j \in 1 .. pos : (ExistsAt(x, j) <=> ExistsAt(x, j)')
    BY DEF ExistsAt
  <2>2. \A parent : LinksPassed(parent)' = LinksPassed(parent)
    BY <2>1, PassedStay
  <2>3. QED
    BY <2>2, TreeStays DEF FileInv
<1>7. QED
  BY <1>2, <1>3, <1>4, <1>5, <1>6 DEF FileInv

-------------------------------------------------------------------------------
(* The instances of a group.                                               *)
LEMMA InstanceFile ==
  ASSUME TypeOK, DecodeInv, FileInv, DecodeInstance
  PROVE  FileInv'
<1> DEFINE ch == chunks[pos]
<1>1. /\ phase = "codec" /\ pos \in DOMAIN chunks /\ ch.sig = "INST" /\ Current = ch
      /\ pos \in Nat \ {0} /\ pos \in 1 .. Len(chunks)
      /\ \A j : j \in 1 .. pos <=> j \in 1 .. pos - 1 \/ j = pos
      /\ ch.ids \in Seq(Ids) /\ instLookup \in [Ids -> 0 .. Len(chunks)]
  <2>1. At("INST")
    BY DEF DecodeInstance
  <2>2. ch \in InstRecord /\ ch.sig = "INST" /\ Current = ch /\ phase = "codec" /\ pos \in DOMAIN chunks
    BY <2>1, AtChunk, ChunkParts
  <2>3. pos \in Nat \ {0} /\ pos \in 1 .. Len(chunks)
        /\ \A j : j \in 1 .. pos <=> j \in 1 .. pos - 1 \/ j = pos
    BY <2>2, Place
  <2>4. ch.ids \in Seq(Ids)
    BY <2>2 DEF InstRecord
  <2>5. instLookup \in [Ids -> 0 .. Len(chunks)]
    BY DEF TypeOK, TreeTypeOK
  <2>6. QED
    BY <2>2, <2>3, <2>4, <2>5
<1>2. CASE Fail("class index") \/ Fail("instance id")
  <2>1. /\ UNCHANGED <<chunks, instLookup, sharedStrings, properties, children, pos, link>>
        /\ phase' = "error"
    BY <1>2 DEF Fail, readVars, treeVars
  <2>2. QED
    BY <2>1, FileStays
<1>3. ch.isService => Len(ch.ids) = Len(ch.getService)
  BY <1>1 DEF DecodeInv, Payloads
<1>4. CASE /\ IdsFree(ch) /\ IsOwnGroup(ch)
           /\ instLookup' = [id \in Ids |-> IF id \in IdsOf(ch) THEN pos ELSE instLookup[id]]
           /\ pos' = pos + 1
           /\ UNCHANGED <<phase, warns, err, link, readVars,
                          properties, children, metadata, sharedStrings>>
  <2>1. /\ UNCHANGED <<phase, chunks, groupLookup, link, properties, children, sharedStrings>>
        /\ pos' = pos + 1 /\ pos' - 1 = pos
    BY <1>1, <1>4 DEF readVars
  <2>2. link = 0 /\ link' = 0
    BY <1>1, <2>1 DEF FileInv, Linking
  <2>3. ASSUME NEW id \in Ids
        PROVE  /\ id \in IdsOf(ch) => instLookup[id] = 0 /\ instLookup'[id] = pos
               /\ id \notin IdsOf(ch) => instLookup'[id] = instLookup[id]
    BY <1>1, <1>4 DEF IdsOf, IdsFree, Exists
  <2>4. \A x : \A j \in 1 .. pos : (ExistsAt(x, j) <=> ExistsAt(x, j)')
    <3> SUFFICES ASSUME NEW x \in Ids, NEW j \in 1 .. pos
                 PROVE  instLookup[x] \in 1 .. j - 1 <=> instLookup'[x] \in 1 .. j - 1
      BY DEF ExistsAt
    <3>1. 0 \notin 1 .. j - 1 /\ pos \notin 1 .. j - 1
      BY <1>1
    <3>2. QED
      BY <2>3, <3>1
  <2>5. Made'
    <3> SUFFICES ASSUME NEW id \in Ids, instLookup'[id] # 0
                 PROVE  /\ instLookup'[id] \in 1 .. pos
                        /\ chunks[instLookup'[id]].sig = "INST"
                        /\ id \in IdsOf(chunks[instLookup'[id]])
      BY <2>1 DEF Made, Exists, IdsOf
    <3>1. CASE id \in IdsOf(ch)
      BY <3>1, <2>3, <1>1
    <3>2. CASE id \notin IdsOf(ch)
      <4>1. instLookup'[id] = instLookup[id]
        BY <3>2, <2>3
      <4>2. QED
        BY <4>1, <1>1 DEF FileInv, Made, Exists
    <3>3. QED
      BY <3>1, <3>2
  <2>6. Strings'
    <3>1. ~IsTable(pos)
      BY <1>1 DEF IsTable
    <3>2. \A l \in 1 .. pos : IsTable(l) => l \in 1 .. pos - 1
      BY <3>1, <1>1
    <3>3. QED
      BY <2>1, <3>2, <1>1 DEF FileInv, Strings, IsTable
  <2>7. PropertiesSoFar'
    <3> SUFFICES ASSUME NEW id \in Ids, NEW name \in Names
                 PROVE  \/ /\ properties'[id][name] = Unset
                           /\ \A j \in 1 .. pos' - 1 : ~IsSource(j, id, name)'
                        \/ \E j \in 1 .. pos' - 1 :
                             /\ IsSource(j, id, name)'
                             /\ \A k \in 1 .. pos' - 1 : IsSource(k, id, name)' => k <= j
                             /\ properties'[id][name] = Meant(j, id)'
      BY DEF PropertiesSoFar
    <3>1. ~IsSource(pos, id, name)
      BY <1>1 DEF IsSource
    <3>2. CASE id \in IdsOf(ch)
      <4>1. properties'[id][name] = Unset
        <5>1. ~Exists(id)
          BY <2>3, <3>2 DEF Exists
        <5>2. QED
          BY <2>1, <5>1 DEF FileInv, PropertiesSoFar, IsSource
      <4>2. ASSUME NEW j \in 1 .. pos, chunks[j].sig = "PROP", chunks[j].class = ch.class
            PROVE  FALSE
        <5>1. j \in DOMAIN chunks /\ j < pos
          <6>1. j # pos
            BY <1>1, <4>2
          <6>2. QED
            BY <6>1, <1>1, Place
        <5>2. PICK i \in 1 .. j - 1 : chunks[i].sig = "INST" /\ chunks[i].class = ch.class
          BY <5>1, <4>2 DEF DecodeInv, PropsFit
        <5>3. i \in 1 .. pos - 1 /\ i # pos
          BY <5>1, <5>2, <1>1
        <5>4. groupLookup[ch.class] = i
          BY <5>2, <5>3 DEF DecodeInv, GroupsDone
        <5>5. QED
          BY <5>3, <5>4, <1>4 DEF IsOwnGroup
      <4>3. ASSUME NEW j \in 1 .. pos, IsSource(j, id, name)'
            PROVE  FALSE
        <5>1. chunks[j].sig = "PROP" /\ chunks[j].class = chunks[instLookup'[id]].class
          BY <4>3, <2>1 DEF IsSource
        <5>2. QED
          BY <5>1, <4>2, <2>3, <3>2
      <4>4. QED
        BY <2>1, <4>1, <4>3
    <3>3. CASE id \notin IdsOf(ch)
      <4>1. instLookup'[id] = instLookup[id]
        BY <2>3, <3>3
      <4>2. ASSUME NEW j \in 1 .. pos
            PROVE  /\ IsSource(j, id, name)' <=> IsSource(j, id, name)
                   /\ Meant(j, id)' = Meant(j, id)
        <5>1. IsSource(j, id, name)' <=> IsSource(j, id, name)
          BY <4>1, <2>1 DEF IsSource, Exists
        <5>2. QED
          BY <5>1, <4>1, <2>1, <2>4, MeantAgain
      <4>3. QED
        BY <2>1, <3>1, <4>2, PropertyStays DEF FileInv
    <3>4. QED
      BY <3>2, <3>3
  <2>8. Linking'
    BY <2>1, <2>2, <1>1 DEF Linking
  <2>9. TreeSoFar'
    <3>1. \A parent : LinksPassed(parent)' = LinksPassed(parent)
      BY <2>1, <2>2, <2>4, <1>1, PassedStay
    <3>2. QED
      BY <2>1, <3>1, TreeStays DEF FileInv
  <2>10. QED
    BY <2>5, <2>6, <2>7, <2>8, <2>9 DEF FileInv
<1>5. QED
  BY <1>1, <1>2, <1>3, <1>4 DEF DecodeInstance

(* The group of a PROP chunk and the instances the chunk is about are the  *)
(* same: an instance of its class was made by that group and no other.     *)
LEMMA GroupOfClass ==
  ASSUME TypeOK, DecodeInv, FileInv, At("PROP"), NEW id \in Ids,
         NEW g, g = groupLookup[Current.class]
  PROVE  /\ chunks[g].sig = "INST" /\ chunks[g].class = Current.class /\ g \in 1 .. pos - 1
         /\ id \in IdsOf(chunks[g]) => instLookup[id] = g /\ Exists(id)
         /\ (Exists(id) /\ chunks[instLookup[id]].class = Current.class) => id \in IdsOf(chunks[g])
<1>1. Current \in PropRecord /\ Current = chunks[pos]
  BY AtChunk, ChunkParts
<1>2. g \in 1 .. pos - 1 /\ g # 0
  <2>1. g \in 1 .. pos - 1
    BY PropGroup
  <2>2. QED
    BY <2>1
<1>3. chunks[g].sig = "INST" /\ chunks[g].class = Current.class
  BY <1>1, <1>2 DEF TypeOK, ReadTypeOK, PropRecord
<1>4. id \in IdsOf(chunks[g]) => instLookup[id] = g /\ Exists(id)
  BY <1>2, <1>3 DEF DecodeInv, GroupsDone, IdsOf, Exists
<1>5. ASSUME Exists(id), chunks[instLookup[id]].class = Current.class
      PROVE  id \in IdsOf(chunks[g])
  <2>1. /\ instLookup[id] \in 1 .. pos - 1
        /\ chunks[instLookup[id]].sig = "INST"
        /\ id \in IdsOf(chunks[instLookup[id]])
    BY <1>5 DEF FileInv, Made
  <2>2. g = instLookup[id]
    BY <2>1, <1>5 DEF DecodeInv, GroupsDone
  <2>3. QED
    BY <2>1, <2>2
<1>6. QED
  BY <1>2, <1>3, <1>4, <1>5

LEMMA PropertyFile ==
  ASSUME TypeOK, DecodeInv, FileInv, DecodeProperty
  PROVE  FileInv'
<1> DEFINE ch == Current
           g == groupLookup[ch.class]
           group == chunks[g]
<1>1. At("PROP")
  BY DEF DecodeProperty
<1>2. /\ phase = "codec" /\ pos \in DOMAIN chunks /\ ch = chunks[pos] /\ ch.sig = "PROP"
      /\ ch \in PropRecord
      /\ pos \in Nat \ {0} /\ \A j : j \in 1 .. pos <=> j \in 1 .. pos - 1 \/ j = pos
  <2>1. phase = "codec" /\ pos \in DOMAIN chunks /\ ch = chunks[pos] /\ ch.sig = "PROP"
        /\ ch \in PropRecord
    BY <1>1, AtChunk, ChunkParts
  <2>2. pos \in Nat \ {0} /\ \A j : j \in 1 .. pos <=> j \in 1 .. pos - 1 \/ j = pos
    BY Place
  <2>3. QED
    BY <2>1, <2>2
<1>3. /\ g \in 1 .. pos - 1 /\ g # 0
      /\ ch.kind # "none" => Len(ch.values) = Len(group.ids)
      /\ \A k \in DOMAIN group.ids : Exists(group.ids[k])
  <2>1. g \in 1 .. pos - 1
    BY <1>1, PropGroup
  <2>2. QED
    BY <1>1, <2>1, PropGroup
<1>4. link = 0
  BY <1>2 DEF FileInv, Linking
<1>5. CASE Fail("class index") \/ Panic("nil value")
  <2>1. /\ UNCHANGED <<chunks, instLookup, sharedStrings, properties, children, pos, link>>
        /\ phase' \in {"error", "panic"}
    BY <1>5 DEF Fail, Panic, readVars, treeVars
  <2>2. QED
    BY <2>1, FileStays
<1>6. CASE ch.kind = "none" /\ Skip("no value")
  <2>1. /\ UNCHANGED <<phase, link, chunks, instLookup, properties, children, sharedStrings>>
        /\ pos' = pos + 1
    BY <1>6 DEF Skip, readVars, treeVars
  <2>2. QED
    BY <1>2, <1>4, <1>6, <2>1, PassFile
<1>7. CASE ch.kind # "none" /\ SetProperties(ch, group.ids)
  <2>1. /\ UNCHANGED <<phase, link, chunks, instLookup, children, sharedStrings>>
        /\ pos' = pos + 1 /\ pos' - 1 = pos
    BY <1>2, <1>7 DEF SetProperties, readVars
  <2>2. ch.name \in Names /\ ch.values \in Seq(Int) /\ properties \in [Ids -> [Names -> Value]]
    BY <1>2 DEF PropRecord, TypeOK, TreeTypeOK
  <2>3. DOMAIN group.ids = DOMAIN ch.values
    <3>1. g \in DOMAIN chunks /\ group.sig = "INST"
      <4>1. g \in DOMAIN chunks
        BY <1>2, <1>3, Place
      <4>2. QED
        BY <4>1, <1>2, <1>3 DEF TypeOK, ReadTypeOK, PropRecord
    <3>2. group.ids \in Seq(Ids)
      BY <3>1, ChunkAt DEF InstRecord, TypeOK
    <3>3. QED
      BY <3>2, <2>2, <1>3, <1>7
  <2>4. Made'
    BY <2>1, <1>2 DEF FileInv, Made, Exists, IdsOf
  <2>5. Strings'
    <3>1. ~IsTable(pos)
      BY <1>2 DEF IsTable
    <3>2. \A l \in 1 .. pos : IsTable(l) => l \in 1 .. pos - 1
      BY <3>1, <1>2
    <3>3. QED
      BY <2>1, <3>2, <1>2 DEF FileInv, Strings, IsTable
  <2>6. PropertiesSoFar'
    <3> SUFFICES ASSUME NEW id \in Ids, NEW name \in Names
                 PROVE  \/ /\ properties'[id][name] = Unset
                           /\ \A j \in 1 .. pos' - 1 : ~IsSource(j, id, name)'
                        \/ \E j \in 1 .. pos' - 1 :
                             /\ IsSource(j, id, name)'
                             /\ \A k \in 1 .. pos' - 1 : IsSource(k, id, name)' => k <= j
                             /\ properties'[id][name] = Meant(j, id)'
      BY DEF PropertiesSoFar
    <3>1. \A j : /\ IsSource(j, id, name)' <=> IsSource(j, id, name)
                 /\ Meant(j, id)' = Meant(j, id)
      BY <2>1, MeantStays DEF IsSource, Exists
    <3> DEFINE ids == group.ids
               k == CHOOSE k \in DOMAIN ids : ids[k] = id
    <3>2. properties'[id] =
            IF \E n \in DOMAIN ids : ids[n] = id
            THEN [properties[id] EXCEPT ![ch.name] = Decoded(ch, k)]
            ELSE properties[id]
      BY <1>7 DEF SetProperties
    <3>3. (\E n \in DOMAIN ids : ids[n] = id) <=> id \in IdsOf(group)
      BY DEF IdsOf
    <3>4. CASE id \in IdsOf(group) /\ name = ch.name
      <4>1. k \in DOMAIN ids
        BY <3>3, <3>4
      <4>2. properties'[id][name] = Decoded(ch, k)
        BY <3>2, <3>3, <3>4, <2>2
      <4>3. instLookup[id] = g /\ Exists(id) /\ group.class = ch.class
        BY <1>1, <3>4, GroupOfClass
      <4>4. Decoded(ch, k) = Meant(pos, id)
        BY <1>1, <1>7, <2>3, <4>1, <4>3, DecodedMeant DEF FileInv
      <4>5. IsSource(pos, id, name)
        BY <1>2, <1>7, <3>4, <4>3 DEF IsSource
      <4>6. pos \in 1 .. pos /\ \A n \in 1 .. pos : n <= pos
        BY <1>2
      <4>7. QED
        BY <2>1, <3>1, <4>2, <4>4, <4>5, <4>6
    <3>5. CASE ~(id \in IdsOf(group) /\ name = ch.name)
      <4>1. ~IsSource(pos, id, name)
        BY <1>1, <1>2, <3>5, GroupOfClass DEF IsSource
      <4>2. properties'[id][name] = properties[id][name]
        BY <3>2, <3>3, <3>5, <2>2
      <4>3. QED
        BY <2>1, <3>1, <4>1, <4>2, PropertyStays DEF FileInv
    <3>6. QED
      BY <3>4, <3>5
  <2>7. Linking'
    BY <2>1, <1>2, <1>4 DEF Linking
  <2>8. TreeSoFar'
    <3>1. \A x : \A j \in 1 .. pos : (ExistsAt(x, j) <=> ExistsAt(x, j)')
      BY <2>1 DEF ExistsAt
    <3>2. \A parent : LinksPassed(parent)' = LinksPassed(parent)
      BY <2>1, <3>1, <1>2, <1>4, PassedStay
    <3>3. QED
      BY <2>1, <3>2, TreeStays DEF FileInv
  <2>9. QED
    BY <2>4, <2>5, <2>6, <2>7, <2>8 DEF FileInv
<1>8. QED
  <2>1. \/ Fail("class index") \/ Panic("nil value")
        \/ ch.kind = "none" /\ Skip("no value")
        \/ ch.kind # "none" /\ SetProperties(ch, group.ids)
    BY <1>3 DEF DecodeProperty
  <2>2. QED
    BY <1>5, <1>6, <1>7, <2>1

(* The link the codec is at, if it takes effect, becomes the last child of *)
(* its parent.                                                             *)
LEMMA LinkLast ==
  ASSUME TypeOK, NEW parent, NEW l \in LinksPassed(parent)
  PROVE  /\ Before(l, <<pos, link>>) /\ ~Before(<<pos, link>>, l) /\ l # <<pos, link>>
         /\ ~Before(<<pos, link>>, <<pos, link>>) /\ ~Before(l, l)
<1>1. PICK j, k : l = <<j, k>> /\ IsLink(j, k, parent) /\ (j < pos \/ (j = pos /\ k < link))
  BY PassedPairs
<1>2. j \in Nat /\ k \in Nat /\ pos \in Nat /\ link \in Nat
  BY <1>1, LinkRange, Place
<1>3. QED
  BY <1>1, <1>2 DEF Before

LEMMA ChildAppended ==
  ASSUME TypeOK, NEW parent \in Ids,
         IsFiniteSet(LinksPassed(parent)),
         Len(children[parent]) = Cardinality(LinksPassed(parent)),
         \A l \in LinksPassed(parent) :
           children[parent][1 + Cardinality(LinksBefore(l, parent))] = chunks[l[1]].children[l[2]],
         UNCHANGED chunks,
         LinksPassed(parent)' = LinksPassed(parent) \cup {<<pos, link>>},
         NEW child \in Ids, child = chunks[pos].children[link],
         children'[parent] = Append(children[parent], child)
  PROVE  /\ IsFiniteSet(LinksPassed(parent)')
         /\ Len(children'[parent]) = Cardinality(LinksPassed(parent)')
         /\ \A l \in LinksPassed(parent)' :
              children'[parent][1 + Cardinality(LinksBefore(l, parent)')] = chunks'[l[1]].children[l[2]]
<1> DEFINE S == LinksPassed(parent)
           p == <<pos, link>>
           n == Len(children[parent])
<1>1. children[parent] \in Seq(Ids) /\ n \in Nat /\ n = Cardinality(S)
  BY DEF TypeOK, TreeTypeOK
<1>2. /\ Len(children'[parent]) = n + 1
      /\ children'[parent][n + 1] = child
      /\ \A k \in 1 .. n : children'[parent][k] = children[parent][k]
  BY <1>1
<1>3. p \notin S
  BY LinkLast
<1>4. IsFiniteSet(S \cup {p}) /\ Cardinality(S \cup {p}) = n + 1
  BY <1>1, <1>3, FS_AddElement
<1>5. \A l : LinksBefore(l, parent)' = {m \in S \cup {p} : Before(m, l)}
  BY DEF LinksBefore, Before
<1>6. ASSUME NEW l \in S
      PROVE  children'[parent][1 + Cardinality(LinksBefore(l, parent)')] = chunks[l[1]].children[l[2]]
  <2>1. LinksBefore(l, parent)' = LinksBefore(l, parent)
    BY <1>5, LinkLast DEF LinksBefore
  <2>2. LinksBefore(l, parent) \subseteq S /\ l \notin LinksBefore(l, parent)
    BY LinkLast DEF LinksBefore
  <2>3. /\ IsFiniteSet(LinksBefore(l, parent))
        /\ Cardinality(LinksBefore(l, parent)) <= n
        /\ Cardinality(LinksBefore(l, parent)) # n
    BY <1>1, <2>2, FS_Subset
  <2>4. Cardinality(LinksBefore(l, parent)) \in Nat
    BY <2>3, FS_CardinalityType
  <2>5. 1 + Cardinality(LinksBefore(l, parent)) \in 1 .. n
    BY <2>3, <2>4, <1>1
  <2>6. QED
    BY <1>2, <2>1, <2>5
<1>7. ASSUME NEW l, l = p
      PROVE  children'[parent][1 + Cardinality(LinksBefore(l, parent)')] = chunks[l[1]].children[l[2]]
  <2>1. LinksBefore(l, parent)' = S
    <3>1. (\A m \in S : Before(m, l)) /\ ~Before(p, l)
      BY <1>7, LinkLast, Place DEF Before
    <3>2. QED
      BY <1>5, <3>1
  <2>2. 1 + Cardinality(S) = n + 1 /\ l[1] = pos /\ l[2] = link
    BY <1>1, <1>7
  <2>3. QED
    BY <1>2, <2>1, <2>2
<1>8. \A l \in S \cup {p} :
        children'[parent][1 + Cardinality(LinksBefore(l, parent)')] = chunks'[l[1]].children[l[2]]
  BY <1>6, <1>7
<1>9. QED
  BY <1>2, <1>4, <1>8

LEMMA LinkFile ==
  ASSUME TypeOK, DecodeInv, FileInv, EnterParent \/ LinkChild \/ LeaveParent
  PROVE  FileInv'
<1>1. At("PRNT")
  BY DEF EnterParent, LinkChild, LeaveParent
<1>2. /\ phase = "codec" /\ pos \in DOMAIN chunks /\ Current = chunks[pos] /\ Current.sig = "PRNT"
      /\ pos \in Nat \ {0} /\ link \in Nat
      /\ Current.children \in Seq(Ids) /\ Current.parents \in Seq(Ids)
      /\ Len(Current.parents) = Len(Current.children)
  <2>1. phase = "codec" /\ pos \in DOMAIN chunks /\ Current = chunks[pos] /\ Current.sig = "PRNT"
        /\ Current \in PrntRecord
    BY <1>1, AtChunk, ChunkParts
  <2>2. Len(Current.parents) = Len(Current.children)
    BY <2>1 DEF DecodeInv, Payloads
  <2>3. QED
    BY <2>1, <2>2, Place DEF PrntRecord
<1>3. ASSUME NEW cause, Fail(cause)
      PROVE  FileInv'
  <2>1. /\ UNCHANGED <<chunks, instLookup, sharedStrings, properties, children, pos, link>>
        /\ phase' = "error"
    BY <1>3 DEF Fail, readVars, treeVars
  <2>2. QED
    BY <2>1, FileStays
<1>4. ASSUME UNCHANGED <<phase, pos, chunks, instLookup, properties, sharedStrings>>, link' # link
      PROVE  Made' /\ Strings' /\ PropertiesSoFar' /\ Linking'
  <2>1. Made' /\ Strings'
    BY <1>4 DEF FileInv, Made, Strings, Exists, IdsOf, IsTable
  <2>2. PropertiesSoFar'
    BY <1>4, MeantStays DEF FileInv, PropertiesSoFar, IsSource, Exists
  <2>3. Linking'
    BY <1>2, <1>4 DEF Linking
  <2>4. QED
    BY <2>1, <2>2, <2>3
<1>5. CASE LeaveParent
  <2>1. /\ link > Len(Current.children) /\ link' = 0 /\ pos' = pos + 1
        /\ UNCHANGED <<phase, chunks, instLookup, properties, children, sharedStrings>>
    BY <1>5 DEF LeaveParent, readVars, treeVars
  <2>2. QED
    BY <1>2, <2>1, PassFile
<1>6. LinksArePairs'
  BY LinkPairs, PTL
<1>7. ASSUME UNCHANGED <<pos, chunks, instLookup>>, link' = link + 1, NEW parent
      PROVE  LinksPassed(parent)' = IF IsLink(pos, link, parent)
                                    THEN LinksPassed(parent) \cup {<<pos, link>>}
                                    ELSE LinksPassed(parent)
  <2>1. LinksTo(parent)' = LinksTo(parent)
    BY <1>7, LinksStay
  <2>2. ASSUME NEW l \in LinksTo(parent)
        PROVE  Passed(l)' <=> Passed(l) \/ l = <<pos, link>>
    <3>1. PICK j, k : l = <<j, k>> /\ IsLink(j, k, parent)
      BY LinkPairs DEF LinksArePairs
    <3>2. j \in Nat /\ k \in Nat
      BY <3>1, LinkRange
    <3>3. QED
      BY <1>2, <1>7, <3>1, <3>2 DEF Passed
  <2>3. <<pos, link>> \in LinksTo(parent) <=> IsLink(pos, link, parent)
    BY LinkPairs DEF LinksArePairs
  <2>4. QED
    BY <2>1, <2>2, <2>3 DEF LinksPassed
<1>8. CASE EnterParent
  <2>1. CASE link' = 1 /\ UNCHANGED <<phase, warns, err, pos, readVars, treeVars>>
    <3>0. link = 0
      BY <1>8 DEF EnterParent
    <3>1. /\ link = 0 /\ link' = link + 1
          /\ UNCHANGED <<phase, pos, chunks, instLookup, properties, children, sharedStrings>>
      BY <2>1, <3>0 DEF readVars, treeVars
    <3>2. \A parent : ~IsLink(pos, link, parent)
      BY <1>2, <3>1 DEF IsLink
    <3>3. \A parent : LinksPassed(parent)' = LinksPassed(parent)
      BY <1>7, <3>1, <3>2
    <3>4. TreeSoFar'
      BY <3>1, <3>3, TreeStays DEF FileInv
    <3>5. link' # link
      BY <3>1
    <3>6. QED
      BY <1>4, <3>1, <3>4, <3>5 DEF FileInv
  <2>2. QED
    BY <1>3, <1>8, <2>1 DEF EnterParent
<1>9. CASE LinkChild /\ ~Fail("child id")
  <2> DEFINE child == Current.children[link]
             parent == Current.parents[link]
  <2>9. link' = link + 1 /\ link' # link
    <3>1. link' = link + 1
      BY <1>9 DEF LinkChild
    <3>2. QED
      BY <1>2, <3>1
  <2>1. /\ link' = link + 1 /\ link \in DOMAIN Current.children /\ link' # link
        /\ \/ ~Exists(child) /\ UNCHANGED children
           \/ Exists(child) /\ Attach(child, parent)
        /\ UNCHANGED <<phase, pos, chunks, instLookup, properties, sharedStrings>>
    BY <1>9, <2>9 DEF LinkChild, readVars
  <2>2. child \in Ids /\ parent \in Ids /\ nilInstance \in Ids
    BY <1>2, <2>1, ChunkAssumption
  <2>3. \A id \in Ids : ExistsAt(id, pos) <=> Exists(id)
    BY <1>2 DEF FileInv, Made, ExistsAt, Exists
  <2>4. ASSUME NEW q \in Ids
        PROVE  IsLink(pos, link, q) <=>
                 q = parent /\ Exists(child) /\ (parent = nilInstance \/ Exists(parent))
    BY <1>2, <2>1, <2>2, <2>3 DEF IsLink
  <2>5. children \in [Ids -> Seq(Ids)]
    BY DEF TypeOK, TreeTypeOK
  <2>6. ASSUME NEW q \in Ids
        PROVE  children'[q] = IF IsLink(pos, link, q) THEN Append(children[q], child) ELSE children[q]
    BY <2>1, <2>2, <2>4, <2>5 DEF Attach
  <2>7. TreeSoFar'
    <3> SUFFICES ASSUME NEW q \in Ids
                 PROVE  /\ IsFiniteSet(LinksPassed(q)')
                        /\ Len(children'[q]) = Cardinality(LinksPassed(q)')
                        /\ \A l \in LinksPassed(q)' :
                             children'[q][1 + Cardinality(LinksBefore(l, q)')]
                               = chunks'[l[1]].children[l[2]]
      BY DEF TreeSoFar
    <3>1. /\ IsFiniteSet(LinksPassed(q))
          /\ Len(children[q]) = Cardinality(LinksPassed(q))
          /\ \A l \in LinksPassed(q) :
               children[q][1 + Cardinality(LinksBefore(l, q))] = chunks[l[1]].children[l[2]]
      BY DEF FileInv, TreeSoFar
    <3>2. CASE IsLink(pos, link, q)
      <4>1. LinksPassed(q)' = LinksPassed(q) \cup {<<pos, link>>}
        BY <1>7, <2>1, <3>2
      <4>2. children'[q] = Append(children[q], child) /\ child = chunks[pos].children[link]
        BY <1>2, <2>6, <3>2
      <4>3. QED
        BY <2>1, <2>2, <3>1, <4>1, <4>2, ChildAppended
    <3>3. CASE ~IsLink(pos, link, q)
      <4>1. LinksPassed(q)' = LinksPassed(q) /\ children'[q] = children[q] /\ chunks' = chunks
        BY <1>7, <2>1, <2>6, <3>3
      <4>2. \A l : LinksBefore(l, q)' = LinksBefore(l, q)
        BY <4>1 DEF LinksBefore, Before
      <4>3. QED
        BY <3>1, <4>1, <4>2
    <3>4. QED
      BY <3>2, <3>3
  <2>8. QED
    BY <1>4, <2>1, <2>7 DEF FileInv
<1>10. QED
  BY <1>3, <1>5, <1>8, <1>9

LEMMA TablesFile ==
  ASSUME TypeOK, DecodeInv, FileInv, DecodeMeta \/ DecodeSharedStrings \/ PassOther
  PROVE  FileInv'
<1>1. /\ phase = "codec" /\ pos \in DOMAIN chunks /\ Current = chunks[pos]
      /\ chunks[pos].sig \in {"META", "SSTR", "other"}
  BY AtChunk DEF DecodeMeta, DecodeSharedStrings, PassOther
<1>2. link = 0
  BY <1>1 DEF FileInv, Linking
<1>3. /\ pos' = pos + 1
      /\ UNCHANGED <<phase, link, chunks, instLookup, properties, children>>
  BY DEF DecodeMeta, DecodeSharedStrings, PassOther, readVars, treeVars
<1>4. sharedStrings' = IF chunks[pos].sig = "SSTR" THEN chunks[pos].values ELSE sharedStrings
  <2>1. CASE DecodeSharedStrings
    <3>1. chunks[pos].sig = "SSTR"
      BY <2>1 DEF DecodeSharedStrings, At
    <3>2. QED
      BY <2>1, <3>1, <1>1 DEF DecodeSharedStrings
  <2>2. CASE DecodeMeta \/ PassOther
    <3>1. chunks[pos].sig # "SSTR"
      BY <2>2 DEF DecodeMeta, PassOther, At
    <3>2. QED
      BY <2>2, <3>1 DEF DecodeMeta, PassOther, treeVars
  <2>3. QED
    BY <2>1, <2>2
<1>5. QED
  BY <1>1, <1>2, <1>3, <1>4, PassFile

LEMMA FileStep ==
  ASSUME TypeOK, DecodeInv, FileInv, [Next]_vars
  PROVE  FileInv'
<1>1. CASE HeaderFails \/ Truncated \/ ReadCutFrames
  <2>1. PICK cause : Fail(cause) \/ Panic(cause)
    BY <1>1 DEF HeaderFails, Truncated, ReadCutFrames
  <2>2. /\ UNCHANGED <<chunks, instLookup, sharedStrings, properties, children, pos, link>>
        /\ phase' \in {"error", "panic"}
    BY <2>1 DEF Fail, Panic, readVars, treeVars
  <2>3. QED
    BY <2>2, FileStays
<1>2. CASE \/ ReadInstance \/ ReadProperty \/ ReadUngrouped \/ ReadOther
           \/ ReadUnknown \/ ReadBroken \/ ReadEnd
  BY <1>2, StepReads, ReadsFile
<1>3. CASE HeaderOK \/ LegacyXML \/ DecodeEnd \/ UNCHANGED vars
  <2>1. /\ UNCHANGED <<chunks, instLookup, sharedStrings, properties, children, pos, link>>
        /\ phase' \in {"header", "chunks"} => phase \in {"header", "chunks"}
    BY <1>3 DEF HeaderOK, LegacyXML, DecodeEnd, vars, readVars, treeVars
  <2>2. QED
    BY <2>1, FileStays
<1>4. QED
  BY <1>1, <1>2, <1>3, InstanceFile, PropertyFile, LinkFile, TablesFile DEF Next, Returned

LEMMA FileStart == Init => FileInv
<1> SUFFICES ASSUME Init PROVE FileInv
  OBVIOUS
<1>1. /\ chunks = <<>> /\ pos = 1 /\ link = 0 /\ sharedStrings = <<>>
      /\ instLookup = [id \in Ids |-> 0]
      /\ properties = [id \in Ids |-> [name \in Names |-> Unset]]
      /\ children = [id \in Ids |-> <<>>]
  BY DEF Init
<1>2. 1 .. pos - 1 = {} /\ DOMAIN chunks = {}
  BY <1>1
<1>3. Made /\ Strings /\ PropertiesSoFar /\ Linking
  BY <1>1, <1>2 DEF Made, Exists, Strings, PropertiesSoFar, Linking
<1>4. TreeSoFar
  <2>1. \A parent : LinksPassed(parent) = {}
    BY <1>2, PassedPairs DEF IsLink
  <2>2. \A parent \in Ids : Len(children[parent]) = 0
    BY <1>1
  <2>3. QED
    BY <2>1, <2>2, FS_EmptySet DEF TreeSoFar
<1>5. QED
  BY <1>3, <1>4 DEF FileInv

LEMMA FileInvariant == Spec => [](TypeOK /\ DecodeInv /\ FileInv)
<1>1. QED
  BY DecodeStart, FileStart, DecodeStep, FileStep, PTL DEF Spec

(* At the end everything but the END chunk has been passed.                *)
LEMMA AllPassed ==
  ASSUME TypeOK, DecodeInv, phase = "done", NEW j \in DOMAIN chunks, chunks[j].sig # "END"
  PROVE  j \in 1 .. pos - 1
<1>1. pos = Len(chunks) /\ chunks[pos].sig = "END"
  BY DEF DecodeInv, EndLast
<1>2. j # pos
  BY <1>1
<1>3. QED
  BY <1>1, <1>2, Place

-------------------------------------------------------------------------------

(* In a file that decodes every instance ends with the properties of the   *)
(* last PROP chunks of its class, element for element, for any file        *)
(* (rbxl/codec.go:108-143).                                                *)
THEOREM PropertiesAlwaysFromFile == Spec => []PropertiesFromFile
<1>1. TypeOK /\ DecodeInv /\ FileInv => PropertiesFromFile
  <2> SUFFICES ASSUME TypeOK, DecodeInv, FileInv, phase = "done",
                      NEW id \in Ids, NEW name \in Names
               PROVE  LET sources == {j \in DOMAIN chunks :
                                        /\ Exists(id)
                                        /\ chunks[j].sig = "PROP"
                                        /\ chunks[j].kind # "none"
                                        /\ chunks[j].name = name
                                        /\ chunks[j].class = chunks[instLookup[id]].class} IN
                      IF sources = {}
                      THEN properties[id][name] = Unset
                      ELSE properties[id][name] = Meant(CHOOSE j \in sources : IsGreatest(j, sources), id)
    BY DEF PropertiesFromFile
  <2> DEFINE sources == {j \in DOMAIN chunks :
                           /\ Exists(id)
                           /\ chunks[j].sig = "PROP"
                           /\ chunks[j].kind # "none"
                           /\ chunks[j].name = name
                           /\ chunks[j].class = chunks[instLookup[id]].class}
             last == CHOOSE j \in sources : IsGreatest(j, sources)
  <2>1. \A j : j \in sources <=> j \in 1 .. pos - 1 /\ IsSource(j, id, name)
    <3>1. \A j \in 1 .. pos - 1 : j \in DOMAIN chunks
      BY Place
    <3>2. ASSUME NEW j \in sources PROVE j \in 1 .. pos - 1
      BY AllPassed
    <3>3. QED
      BY <3>1, <3>2 DEF IsSource
  <2> HIDE DEF sources
  <2>2. ASSUME NEW j \in sources, \A k \in sources : k <= j
        PROVE  last = j
    <3>1. IsGreatest(j, sources)
      BY <2>2 DEF IsGreatest
    <3>2. ASSUME NEW k \in sources, IsGreatest(k, sources) PROVE k = j
      <4>1. j <= k /\ k <= j /\ j \in Int /\ k \in Int
        BY <2>1, <3>1, <3>2 DEF IsGreatest
      <4>2. QED
        BY <4>1
    <3>3. QED
      BY <3>1, <3>2
  <2> HIDE DEF last
  <2>3. IF sources = {} THEN properties[id][name] = Unset ELSE properties[id][name] = Meant(last, id)
    <3>1. CASE /\ properties[id][name] = Unset
               /\ \A j \in 1 .. pos - 1 : ~IsSource(j, id, name)
      BY <2>1, <3>1
    <3>2. ASSUME NEW j \in 1 .. pos - 1, IsSource(j, id, name),
                 \A k \in 1 .. pos - 1 : IsSource(k, id, name) => k <= j,
                 properties[id][name] = Meant(j, id)
          PROVE  sources # {} /\ properties[id][name] = Meant(last, id)
      <4>1. j \in sources /\ \A k \in sources : k <= j
        BY <2>1, <3>2
      <4>2. last = j
        BY <2>2, <4>1
      <4>3. QED
        BY <3>2, <4>1, <4>2
    <3>3. QED
      BY <3>1, <3>2 DEF FileInv, PropertiesSoFar
  <2>4. QED
    BY <2>3 DEF sources, last
<1>2. QED
  BY <1>1, FileInvariant, PTL

(* In a file that decodes the tree is the links of the file and nothing    *)
(* else, each as often as it is there and in their order, for any file     *)
(* (rbxl/codec.go:154-177).                                                *)
THEOREM TreeAlwaysLinks == Spec => []TreeIsLinks
<1>1. TypeOK /\ DecodeInv /\ FileInv => TreeIsLinks
  <2> SUFFICES ASSUME TypeOK, DecodeInv, FileInv, phase = "done", NEW parent \in Ids
               PROVE  /\ Len(children[parent]) = Cardinality(LinksTo(parent))
                      /\ \A l \in LinksTo(parent) :
                           children[parent][1 + Cardinality({m \in LinksTo(parent) : Before(m, l)})]
                             = chunks[l[1]].children[l[2]]
    BY DEF TreeIsLinks
  <2>1. LinksPassed(parent) = LinksTo(parent)
    <3>1. ASSUME NEW l \in LinksTo(parent) PROVE Passed(l)
      <4>1. PICK j, k : l = <<j, k>> /\ IsLink(j, k, parent)
        BY LinkPairs DEF LinksArePairs
      <4>2. j \in 1 .. pos - 1
        BY <4>1, AllPassed DEF IsLink
      <4>3. j < pos
        BY <4>2, Place
      <4>4. QED
        BY <4>1, <4>3 DEF Passed
    <3>2. QED
      BY <3>1 DEF LinksPassed
  <2>2. \A l : LinksBefore(l, parent) = {m \in LinksTo(parent) : Before(m, l)}
    BY <2>1 DEF LinksBefore
  <2>3. QED
    BY <2>1, <2>2 DEF FileInv, TreeSoFar
<1>2. QED
  BY <1>1, FileInvariant, PTL

-------------------------------------------------------------------------------
(***************************************************************************)
(* The services are those that the groups passed so far mark, and what a   *)
(* key has is what the last pair with it says, in the last chunk that has  *)
(* one.                                                                    *)
(***************************************************************************)
MarkedAt(j, id) == chunks[j].sig = "INST" /\ id \in ServicesOf(chunks[j])

ServicesSoFar == \A id : id \in services <=> \E j \in 1 .. pos - 1 : MarkedAt(j, id)

IsPair(j, i, key) ==
  chunks[j].sig = "META" /\ i \in DOMAIN chunks[j].values /\ chunks[j].values[i][1] = key

MetadataSoFar ==
  \A key \in MetaKeys :
    \/ metadata[key] = 0 /\ \A j \in 1 .. pos - 1 : \A i : ~IsPair(j, i, key)
    \/ \E j \in 1 .. pos - 1 : \E i :
         /\ IsPair(j, i, key) /\ metadata[key] = chunks[j].values[i][2]
         /\ \A k \in 1 .. pos - 1 : \A l : IsPair(k, l, key) => k < j \/ (k = j /\ l <= i)

TablesSoFar == ServicesSoFar /\ MetadataSoFar

(* A set of numbers that is not empty and has a bound has a greatest.      *)
LEMMA GreatestExists ==
  ASSUME NEW n \in Nat, NEW S \in SUBSET (1 .. n), S # {}
  PROVE  \E x \in S : IsGreatest(x, S)
<1> DEFINE R == {n - x : x \in S}
           order == OpToRel(<, Nat)
<1>1. R \subseteq Nat /\ R # {}
  <2>1. \A x \in S : n - x \in Nat
    OBVIOUS
  <2>2. R # {}
    OBVIOUS
  <2>3. QED
    BY <2>1, <2>2
<1>2. IsWellFoundedOn(order, Nat)
  BY NatLessThanWellFounded
<1>3. PICK y \in R : \A z \in Nat : z < y => z \notin R
  <2>1. PICK y \in R : \A z \in R : ~(<<z, y>> \in order)
    BY <1>1, <1>2, WFMin
  <2>2. \A z \in Nat : z < y => <<z, y>> \in order
    BY <1>1 DEF OpToRel
  <2>3. QED
    BY <2>1, <2>2
<1>4. PICK x \in S : y = n - x
  BY <1>3
<1>5. ASSUME NEW z \in S PROVE z <= x
  <2>1. n - z \in R /\ n - z \in Nat
    BY <1>1
  <2>2. ~(n - z < n - x)
    BY <1>3, <1>4, <2>1
  <2>3. QED
    BY <2>2
<1>6. QED
  BY <1>4, <1>5 DEF IsGreatest

(* A chunk that is neither a group nor metadata changes neither.           *)
LEMMA TablesStay ==
  ASSUME TypeOK, TablesSoFar, UNCHANGED <<chunks, services, metadata>>,
         pos' = pos \/ (pos' = pos + 1 /\ chunks[pos].sig \notin {"INST", "META"})
  PROVE  TablesSoFar'
<1>1. pos \in Nat \ {0}
  BY Place
<1>2. \A j : j \in 1 .. pos - 1 => j \in 1 .. pos' - 1
  BY <1>1
<1>3. \A j \in 1 .. pos' - 1 : j \in 1 .. pos - 1 \/ chunks[j].sig \notin {"INST", "META"}
  BY <1>1
<1>4. ServicesSoFar'
  <2>1. \A id, j : MarkedAt(j, id)' <=> MarkedAt(j, id)
    BY DEF MarkedAt, ServicesOf
  <2>2. \A id : (\E j \in 1 .. pos' - 1 : MarkedAt(j, id)') <=> \E j \in 1 .. pos - 1 : MarkedAt(j, id)
    BY <1>2, <1>3, <2>1 DEF MarkedAt
  <2>3. QED
    BY <2>2 DEF TablesSoFar, ServicesSoFar
<1>5. MetadataSoFar'
  <2> SUFFICES ASSUME NEW key \in MetaKeys
               PROVE  \/ metadata[key] = 0 /\ \A j \in 1 .. pos' - 1 : \A i : ~IsPair(j, i, key)
                      \/ \E j \in 1 .. pos' - 1 : \E i :
                           /\ IsPair(j, i, key) /\ metadata[key] = chunks[j].values[i][2]
                           /\ \A k \in 1 .. pos' - 1 : \A l :
                                IsPair(k, l, key) => k < j \/ (k = j /\ l <= i)
    BY DEF MetadataSoFar, IsPair
  <2>1. \A j \in 1 .. pos' - 1 : \A i : IsPair(j, i, key) => j \in 1 .. pos - 1
    BY <1>3 DEF IsPair
  <2>2. QED
    BY <1>2, <2>1 DEF TablesSoFar, MetadataSoFar
<1>6. QED
  BY <1>4, <1>5 DEF TablesSoFar

(* Before the second pass there is nothing to say.                         *)
LEMMA TablesRead ==
  ASSUME TypeOK, DecodeInv, TablesSoFar, NEW ch, Reads(ch)
  PROVE  TablesSoFar'
<1>1. phase = "chunks" /\ pos' = pos /\ services' = services /\ metadata' = metadata
  BY DEF Reads, treeVars
<1>2. pos = 1
  BY <1>1 DEF DecodeInv, Reading
<1>3. 1 .. pos - 1 = {} /\ 1 .. pos' - 1 = {}
  BY <1>1, <1>2
<1>4. services = {} /\ \A key \in MetaKeys : metadata[key] = 0
  BY <1>3 DEF TablesSoFar, ServicesSoFar, MetadataSoFar
<1>5. QED
  BY <1>1, <1>3, <1>4 DEF TablesSoFar, ServicesSoFar, MetadataSoFar

LEMMA ServicesTables ==
  ASSUME TypeOK, TablesSoFar, DecodeInstance
  PROVE  TablesSoFar'
<1>1. At("INST")
  BY DEF DecodeInstance
<1>2. /\ pos \in DOMAIN chunks /\ Current = chunks[pos] /\ chunks[pos].sig = "INST"
      /\ pos \in Nat \ {0}
  BY <1>1, AtChunk, Place
<1>3. CASE UNCHANGED <<chunks, services, metadata, pos>>
  BY <1>3, TablesStay
<1>4. CASE /\ services' = services \cup ServicesOf(chunks[pos]) /\ pos' = pos + 1
           /\ UNCHANGED <<chunks, metadata>>
  <2>1. \A id, j : MarkedAt(j, id)' <=> MarkedAt(j, id)
    BY <1>4 DEF MarkedAt, ServicesOf
  <2>2. \A j : j \in 1 .. pos' - 1 <=> j \in 1 .. pos - 1 \/ j = pos
    BY <1>2, <1>4
  <2>3. \A id : id \in ServicesOf(chunks[pos]) <=> MarkedAt(pos, id)
    BY <1>2 DEF MarkedAt
  <2>4. ServicesSoFar'
    BY <1>4, <2>1, <2>2, <2>3 DEF TablesSoFar, ServicesSoFar
  <2>5. MetadataSoFar'
    <3>1. \A i, key : ~IsPair(pos, i, key)
      BY <1>2 DEF IsPair
    <3>2. \A j, i, key : IsPair(j, i, key)' <=> IsPair(j, i, key)
      BY <1>4 DEF IsPair
    <3>3. MetaKeys' = MetaKeys
      OBVIOUS
    <3>4. QED
      BY <1>4, <2>2, <3>1, <3>2 DEF TablesSoFar, MetadataSoFar
  <2>6. QED
    BY <2>4, <2>5 DEF TablesSoFar
<1>5. QED
  BY <1>2, <1>3, <1>4 DEF DecodeInstance, Fail, readVars, treeVars

LEMMA MetadataTables ==
  ASSUME TypeOK, TablesSoFar, DecodeMeta
  PROVE  TablesSoFar'
<1>1. At("META")
  BY DEF DecodeMeta
<1>2. /\ pos \in DOMAIN chunks /\ Current = chunks[pos] /\ chunks[pos].sig = "META"
      /\ pos \in Nat \ {0}
  BY <1>1, AtChunk, Place
<1>3. UNCHANGED <<chunks, services>> /\ pos' = pos + 1
  BY DEF DecodeMeta, readVars
<1>4. \A j : j \in 1 .. pos' - 1 <=> j \in 1 .. pos - 1 \/ j = pos
  BY <1>2, <1>3
<1>5. ServicesSoFar'
  <2>1. \A id, j : MarkedAt(j, id)' <=> MarkedAt(j, id)
    BY <1>3 DEF MarkedAt, ServicesOf
  <2>2. \A id : ~MarkedAt(pos, id)
    BY <1>2 DEF MarkedAt
  <2>3. QED
    BY <1>3, <1>4, <2>1, <2>2 DEF TablesSoFar, ServicesSoFar
<1>6. MetadataSoFar'
  <2> SUFFICES ASSUME NEW key \in MetaKeys
               PROVE  \/ metadata'[key] = 0 /\ \A j \in 1 .. pos' - 1 : \A i : ~IsPair(j, i, key)
                      \/ \E j \in 1 .. pos' - 1 : \E i :
                           /\ IsPair(j, i, key) /\ metadata'[key] = chunks[j].values[i][2]
                           /\ \A k \in 1 .. pos' - 1 : \A l :
                                IsPair(k, l, key) => k < j \/ (k = j /\ l <= i)
    BY <1>3 DEF MetadataSoFar, IsPair
  <2> DEFINE last == CHOOSE i \in DOMAIN chunks[pos].values : IsLastPair(i, key)
             here == {i \in DOMAIN chunks[pos].values : chunks[pos].values[i][1] = key}
  <2>1. metadata'[key] = IF \E i \in DOMAIN chunks[pos].values : IsLastPair(i, key)
                         THEN chunks[pos].values[last][2] ELSE metadata[key]
    BY <1>2 DEF DecodeMeta
  <2>2. chunks[pos].values \in Seq(Nat \X Nat)
    BY <1>2, ChunkAt DEF TypeOK, MetaRecord
  <2>3. here \subseteq 1 .. Len(chunks[pos].values) /\ Len(chunks[pos].values) \in Nat
    BY <2>2
  <2>4. \A i : IsPair(pos, i, key) <=> i \in here
    BY <1>2 DEF IsPair
  <2>5. \A i \in DOMAIN chunks[pos].values : IsLastPair(i, key) <=> IsGreatest(i, here)
    BY <1>2 DEF IsLastPair, IsGreatest
  <2>6. CASE here = {}
    <3>1. metadata'[key] = metadata[key]
      BY <2>1, <2>5, <2>6 DEF IsGreatest
    <3>2. \A i : ~IsPair(pos, i, key)
      BY <2>4, <2>6
    <3>3. QED
      BY <1>4, <3>1, <3>2 DEF TablesSoFar, MetadataSoFar
  <2>7. CASE here # {}
    <3>1. PICK i \in here : IsGreatest(i, here)
      BY <2>3, <2>7, GreatestExists
    <3>2. IsLastPair(last, key) /\ last \in DOMAIN chunks[pos].values
      BY <3>1, <2>5
    <3>3. IsGreatest(last, here)
      BY <3>2, <2>5
    <3>4. metadata'[key] = chunks[pos].values[last][2]
      BY <2>1, <3>2
    <3>5. last \in here /\ \A l \in here : l <= last
      BY <3>3 DEF IsGreatest
    <3> HIDE DEF last, here
    <3>6. \A k \in 1 .. pos' - 1 : \A l : IsPair(k, l, key) => k < pos \/ (k = pos /\ l <= last)
      BY <1>2, <1>4, <2>4, <3>5
    <3>7. pos \in 1 .. pos' - 1 /\ IsPair(pos, last, key)
      BY <1>4, <2>4, <3>5
    <3>8. QED
      BY <3>4, <3>6, <3>7
  <2>8. QED
    BY <2>6, <2>7
<1>7. QED
  BY <1>5, <1>6 DEF TablesSoFar

LEMMA TablesStep ==
  ASSUME TypeOK, DecodeInv, TablesSoFar, [Next]_vars
  PROVE  TablesSoFar'
<1>1. CASE \/ ReadInstance \/ ReadProperty \/ ReadUngrouped \/ ReadOther
           \/ ReadUnknown \/ ReadBroken \/ ReadEnd
  BY <1>1, StepReads, TablesRead
<1>2. CASE \/ HeaderFails \/ Truncated \/ ReadCutFrames \/ HeaderOK \/ LegacyXML \/ DecodeEnd \/ UNCHANGED vars
  <2>1. UNCHANGED <<chunks, services, metadata, pos>>
    BY <1>2 DEF HeaderFails, Truncated, ReadCutFrames, Fail, Panic, HeaderOK, LegacyXML,
       DecodeEnd, vars, readVars, treeVars
  <2>2. QED
    BY <2>1, TablesStay
<1>3. CASE DecodeProperty
  <2>1. chunks[pos].sig = "PROP"
    BY <1>3 DEF DecodeProperty, At
  <2>2. UNCHANGED <<chunks, services, metadata>> /\ (pos' = pos \/ pos' = pos + 1)
    BY <1>3 DEF DecodeProperty, Fail, Skip, Panic, SetProperties, readVars, treeVars
  <2>3. QED
    BY <2>1, <2>2, TablesStay
<1>4. CASE EnterParent \/ LinkChild \/ LeaveParent
  <2>1. chunks[pos].sig = "PRNT"
    BY <1>4 DEF EnterParent, LinkChild, LeaveParent, At
  <2>2. UNCHANGED <<chunks, services, metadata>> /\ (pos' = pos \/ pos' = pos + 1)
    BY <1>4 DEF EnterParent, LinkChild, LeaveParent, Fail, readVars, treeVars
  <2>3. QED
    BY <2>1, <2>2, TablesStay
<1>5. CASE DecodeSharedStrings \/ PassOther
  <2>1. chunks[pos].sig \in {"SSTR", "other"}
    BY <1>5 DEF DecodeSharedStrings, PassOther, At
  <2>2. UNCHANGED <<chunks, services, metadata>> /\ pos' = pos + 1
    BY <1>5 DEF DecodeSharedStrings, PassOther, readVars, treeVars
  <2>3. QED
    BY <2>1, <2>2, TablesStay
<1>6. QED
  BY <1>1, <1>2, <1>3, <1>4, <1>5, ServicesTables, MetadataTables DEF Next, Returned

LEMMA TablesStart == Init => TablesSoFar
<1> SUFFICES ASSUME Init PROVE TablesSoFar
  OBVIOUS
<1>1. pos = 1 /\ services = {} /\ metadata = [key \in MetaKeys |-> 0]
  BY DEF Init
<1>2. 1 .. pos - 1 = {}
  BY <1>1
<1>3. QED
  BY <1>1, <1>2 DEF TablesSoFar, ServicesSoFar, MetadataSoFar

===============================================================================
