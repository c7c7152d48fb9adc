-------------------------- MODULE RbxlRoundTripProofs --------------------------
(***************************************************************************)
(* A file of the encoder decodes without an error, for every tree, and but *)
(* for the optional arrays of interleaved types it is read as it was       *)
(* written.                                                                *)
(*                                                                         *)
(* The encoder's half: what a listed instance holds is listed too when the *)
(* list is done (Reached), so the second walk meets only numbers (Walked), *)
(* and the file has the groups before the arrays and the arrays before the *)
(* links (FileLaid).  The decoder's half: what was read is a beginning of  *)
(* the file (ReadSoFar), groupLookup leads to every group of it (Groups),  *)
(* and the instances made are those of the groups passed (Made).  The two  *)
(* meet in the consistency of the numbers, which RbxlEncodeProofs shows.   *)
(*                                                                         *)
(* Then Implements.  Only an unsound tree makes the encoder panic.  It     *)
(* panics in two places, and each of them is led back to the tree: the     *)
(* arrays it fills (InTree, Sorted, Verdicts) and the links it makes       *)
(* (WalkInv).  And what is taken fits the tree (TakenFits).  What the      *)
(* groups and the arrays say of the tree (Contents) is brought together    *)
(* with what RbxlDecodeProofs knows of the decoder of any file             *)
(* (DecodeKnown): every instance has one place in the file (IsAt), the     *)
(* links of a parent are its children in their order (Walk), and a value   *)
(* is read from the one array that has the element of the instance.        *)
(***************************************************************************)
EXTENDS RbxlRoundTrip, RbxlEncodeProofs, FiniteSetTheorems

(* An instance of the tree is numbered, or it will be.                     *)
Settled(inst) == inst = Nil \/ Listed(inst) \/ \E i \in DOMAIN todo : todo[i] = inst
Reached ==
  /\ step \notin {"list", "panic"} => todo = <<>>
  /\ \A i \in DOMAIN root.instances : Settled(root.instances[i])
  /\ \A k \in DOMAIN instList :
       \A i \in DOMAIN root.children[instList[k]] : Settled(root.children[instList[k]][i])

(* The second walk is over numbered instances.                             *)
CallOK(call) ==
  /\ call.instance = Nil \/ Listed(call.instance)
  /\ call.entered => call.instance # Nil
Walked ==
  /\ \A i \in DOMAIN walk : CallOK(walk[i])
  /\ \A i \in DOMAIN links : links[i].child # nilInstance

(* The file: n chunks of metadata and shared strings, the groups, the      *)
(* arrays, the links and the end.                                          *)
Laid(n) ==
  /\ Len(file) = n + Len(instChunks) + Len(propChunks) + 2
  /\ \A i \in 1 .. n : file[i].sig \in {"META", "SSTR"}
  /\ \A k \in 1 .. Len(instChunks) : file[n + k] = instChunks[k]
  /\ \A k \in 1 .. Len(propChunks) : file[n + Len(instChunks) + k] = propChunks[k]
  /\ file[Len(file) - 1] = ParentChunk
  /\ file[Len(file)] = [sig |-> "END"]
FileLaid == step = "done" => \E n \in Nat : Laid(n)

WriteInv == Reached /\ Walked /\ FileLaid

(* A chunk and what it is read as.  Only a packed one is read otherwise:   *)
(* it is errored, or the values are not those that were written.           *)
FileChunks == {file[i] : i \in 1 .. Len(file)}
ReadChunks == FileChunks \cup D!PropRecord \cup {D!Other}

Garbled(read, ch) ==
  /\ read \in D!PropRecord /\ read.kind = "optional"
  /\ read.class = ch.class /\ read.name = ch.name /\ Len(read.values) = Len(ch.values)
ReadAs(read, ch) ==
  \/ ~IsPacked(ch) /\ read = ch
  \/ IsPacked(ch) /\ (read = D!Other \/ Garbled(read, ch))

(* What was read is a beginning of the file.                               *)
ReadSoFar ==
  /\ phase \in {"header", "chunks", "codec", "done"}
  /\ warns \subseteq {"chunk"}
  /\ warns # {} => \E i \in 1 .. Len(chunks) : IsPacked(file[i]) /\ chunks[i] = D!Other
  /\ header = NoHeader => phase = "header" /\ warns = {}
  /\ header # NoHeader =>
       /\ step = "done" /\ header = FileHeader
       /\ chunks \in Seq(ReadChunks) /\ Len(chunks) <= Len(file)
       /\ \A i \in 1 .. Len(chunks) : ReadAs(chunks[i], file[i])
  /\ phase = "header" => chunks = <<>>
  /\ phase \in {"header", "chunks"} => pos = 1
  /\ phase \in {"codec", "done"} => Len(chunks) = Len(file)
  /\ pos \in 1 .. Len(chunks) + 1
  /\ link \in Nat

(* The group of a class is the one INST chunk of it.                       *)
Groups ==
  /\ groupLookup \in [ClassIDs -> Nat]
  /\ \A class \in ClassIDs : groupLookup[class] # 0 =>
       /\ groupLookup[class] \in 1 .. Len(chunks)
       /\ chunks[groupLookup[class]].sig = "INST"
       /\ chunks[groupLookup[class]].class = class
  /\ \A i \in 1 .. Len(chunks) : chunks[i].sig = "INST" =>
       chunks[i] \in InstChunks /\ groupLookup[chunks[i].class] = i

(* The instances that exist are those of the groups the codec has passed.  *)
MadeAt(i, id) == chunks[i].sig = "INST" /\ \E j \in DOMAIN chunks[i].ids : chunks[i].ids[j] = id
Made ==
  /\ instLookup \in [Ids -> Nat]
  /\ \A id \in Ids : instLookup[id] # 0 <=> \E i \in 1 .. pos - 1 : MadeAt(i, id)

ReadInv == ReadSoFar /\ Groups /\ Made

TripInv == TypeOK /\ EncodeInv /\ WriteInv /\ ReadInv

-------------------------------------------------------------------------------
(* The encoder.                                                            *)

(* The steps that do not touch the list, the walk or the file.             *)
Still ==
  /\ root' = root /\ todo' = todo /\ instList' = instList /\ walk' = walk /\ links' = links
  /\ step \notin {"done", "panic"} /\ step' \notin {"list", "done"}
  /\ step = "list" => todo = <<>>

LEMMA Moves ==
  ASSUME Next
  PROVE  \/ AddInstance \/ AllFilled \/ Still \/ WriteChunks
         \/ EnterInstance /\ ~Crash
         \/ LeaveInstance /\ ~Crash
<1>1. AllListed \/ GroupInstance \/ AllGrouped \/ AllChecked \/ GroupDone => Still
  BY DEF AllListed, GroupInstance, AllGrouped, AllChecked, GroupDone, linkVars, Still
<1>2. ASSUME NEW class, NextGroup(class) PROVE Still
  BY <1>2 DEF NextGroup, linkVars, Still
<1>3. ASSUME Crash, step \in {"check", "fill", "link"} PROVE Still
  BY <1>3 DEF Crash, linkVars, Still
<1>4. ASSUME NEW name, CheckProperty(name) PROVE Still
  BY <1>3, <1>4 DEF CheckProperty, linkVars, Still
<1>5. ASSUME NEW name, StartProperty(name) PROVE Still
  BY <1>3, <1>5 DEF StartProperty, linkVars, Still
<1>6. FillValue => Still
  BY <1>3 DEF FillValue, linkVars, Still
<1>7. EnterInstance \/ LeaveInstance => step = "link"
  BY DEF EnterInstance, LeaveInstance
<1>8. QED
  BY <1>1, <1>2, <1>3, <1>4, <1>5, <1>6, <1>7 DEF Next

(* What two sequences become when they are joined.                         *)
LEMMA Joined ==
  ASSUME NEW S, NEW s \in Seq(S), NEW t \in Seq(S)
  PROVE  /\ s \o t \in Seq(S)
         /\ Len(s \o t) = Len(s) + Len(t) /\ Len(s) \in Nat /\ Len(t) \in Nat
         /\ DOMAIN s = 1 .. Len(s) /\ DOMAIN t = 1 .. Len(t)
         /\ DOMAIN (s \o t) = 1 .. Len(s) + Len(t)
         /\ \A i \in 1 .. Len(s) : (s \o t)[i] = s[i]
         /\ \A i \in 1 .. Len(t) : (s \o t)[Len(s) + i] = t[i]
OBVIOUS

(* What was settled stays so while the list grows by the head of the calls *)
(* and its children join them.                                             *)
LEMMA AddReached ==
  ASSUME TypeOK, Reached, AddInstance
  PROVE  Reached'
<1> DEFINE inst == Head(todo)
<1>1. /\ root \in Roots /\ todo \in Seq(Instances \cup {Nil}) /\ instList \in Seq(Instances)
      /\ todo # <<>> /\ step = "list" /\ step' = "list" /\ root' = root
  BY DEF TypeOK, ListTypeOK, AddInstance
<1>2. inst \in Instances \cup {Nil} /\ Tail(todo) \in Seq(Instances \cup {Nil})
  BY <1>1
<1>3. \A i \in DOMAIN todo : todo[i] = inst \/ \E j \in DOMAIN Tail(todo) : Tail(todo)[j] = todo[i]
  <2> SUFFICES ASSUME NEW i \in DOMAIN todo, i # 1
               PROVE  \E j \in DOMAIN Tail(todo) : Tail(todo)[j] = todo[i]
    BY <1>1
  <2>1. i - 1 \in DOMAIN Tail(todo) /\ Tail(todo)[i - 1] = todo[i]
    BY <1>1
  <2>2. QED
    BY <2>1
<1>4. CASE Seen(inst)
  <2>1. todo' = Tail(todo) /\ instList' = instList
    BY <1>4 DEF AddInstance
  <2>2. inst = Nil \/ Listed(inst)
    BY <1>4 DEF Seen
  <2>3. ASSUME NEW x, Settled(x) PROVE Settled(x)'
    BY <1>3, <2>1, <2>2, <2>3 DEF Settled, Listed
  <2>4. QED
    BY <1>1, <2>1, <2>3 DEF Reached
<1>5. CASE ~Seen(inst)
  <2>1. instList' = Append(instList, inst) /\ todo' = root.children[inst] \o Tail(todo)
    BY <1>5 DEF AddInstance, Calls
  <2>2. inst \in Instances
    BY <1>2, <1>5 DEF Seen
  <2>3. root.children[inst] \in Seq(Instances \cup {Nil})
    BY <1>1, <2>2, RootParts
  <2>4. /\ \A i \in DOMAIN root.children[inst] :
             i \in DOMAIN todo' /\ todo'[i] = root.children[inst][i]
        /\ \A j \in DOMAIN Tail(todo) : \E i \in DOMAIN todo' : todo'[i] = Tail(todo)[j]
    <3> DEFINE kids == root.children[inst]
               rest == Tail(todo)
    <3>1. kids \in Seq(Instances \cup {Nil}) /\ rest \in Seq(Instances \cup {Nil})
          /\ todo' = kids \o rest
      BY <1>2, <2>1, <2>3
    <3> HIDE DEF kids, rest
    <3>2. /\ DOMAIN todo' = 1 .. Len(kids) + Len(rest)
          /\ DOMAIN kids = 1 .. Len(kids) /\ DOMAIN rest = 1 .. Len(rest)
          /\ Len(kids) \in Nat /\ Len(rest) \in Nat
          /\ \A i \in 1 .. Len(kids) : todo'[i] = kids[i]
          /\ \A i \in 1 .. Len(rest) : todo'[Len(kids) + i] = rest[i]
      BY <3>1, Joined
    <3>3. ASSUME NEW j \in DOMAIN rest PROVE \E i \in DOMAIN todo' : todo'[i] = rest[j]
      <4>1. Len(kids) + j \in DOMAIN todo' /\ todo'[Len(kids) + j] = rest[j]
        BY <3>2
      <4>2. QED
        BY <4>1
    <3>4. ASSUME NEW i \in DOMAIN kids PROVE i \in DOMAIN todo' /\ todo'[i] = kids[i]
      BY <3>2
    <3>5. QED
      BY <3>3, <3>4 DEF kids, rest
  <2>5. /\ \A i \in DOMAIN instList : i \in DOMAIN instList' /\ instList'[i] = instList[i]
        /\ Len(instList) + 1 \in DOMAIN instList' /\ instList'[Len(instList) + 1] = inst
        /\ \A i \in DOMAIN instList' : i \in DOMAIN instList \/ instList'[i] = inst
    BY <1>1, <2>1, <2>2
  <2>6. ASSUME NEW x, Settled(x) PROVE Settled(x)'
    <3>1. CASE Listed(x)
      BY <2>5, <3>1 DEF Settled, Listed
    <3>2. CASE x = inst
      BY <2>5, <3>2 DEF Settled, Listed
    <3>3. ASSUME NEW i \in DOMAIN todo, todo[i] = x, x # inst PROVE Settled(x)'
      BY <1>3, <2>4, <3>3 DEF Settled
    <3>4. QED
      BY <2>6, <3>1, <3>2, <3>3 DEF Settled
  <2>7. ASSUME NEW x, NEW i \in DOMAIN root.children[inst], x = root.children[inst][i]
        PROVE  Settled(x)'
    BY <2>4, <2>7 DEF Settled
  <2>8. ASSUME NEW k \in DOMAIN instList', NEW i \in DOMAIN root.children[instList'[k]],
               NEW x, x = root.children[instList'[k]][i]
        PROVE  Settled(x)'
    <3>1. CASE instList'[k] = inst
      BY <2>7, <2>8, <3>1
    <3>2. CASE k \in DOMAIN instList
      <4>1. instList'[k] = instList[k]
        BY <2>5, <3>2
      <4>2. Settled(x)
        BY <2>8, <3>2, <4>1 DEF Reached
      <4>3. QED
        BY <2>6, <4>2
    <3>3. QED
      BY <2>5, <3>1, <3>2
  <2>9. QED
    BY <1>1, <2>6, <2>8 DEF Reached
<1>6. QED
  BY <1>4, <1>5

LEMMA AddWalked ==
  ASSUME TypeOK, Walked, AddInstance
  PROVE  Walked'
<1>1. walk' = walk /\ links' = links /\ instList \in Seq(Instances)
  BY DEF TypeOK, ListTypeOK, AddInstance, linkVars
<1>2. \A i \in DOMAIN instList : i \in DOMAIN instList' /\ instList'[i] = instList[i]
  BY <1>1 DEF AddInstance
<1>3. \A x : Listed(x) => Listed(x)'
  BY <1>2 DEF Listed
<1>4. QED
  BY <1>1, <1>3 DEF Walked, CallOK

(* The rest of the steps before the walk.                                  *)
LEMMA StillInv ==
  ASSUME Reached, Walked, Still
  PROVE  Reached' /\ Walked' /\ FileLaid'
<1>1. \A x : Settled(x)' <=> Settled(x)
  BY DEF Still, Settled, Listed
<1>2. Reached'
  BY <1>1 DEF Still, Reached
<1>3. \A x : Listed(x)' <=> Listed(x)
  BY DEF Still, Listed
<1>4. QED
  BY <1>2, <1>3 DEF Still, Walked, CallOK, FileLaid

(* The list, the root and the calls stay while the links are made.         *)
LEMMA ReachedStays ==
  ASSUME Reached, root' = root, instList' = instList, todo' = todo,
         step \notin {"list", "panic"}
  PROVE  Reached' /\ (\A x : Listed(x)' <=> Listed(x)) /\ todo = <<>>
<1>1. \A x : Settled(x)' <=> Settled(x)
  BY DEF Settled, Listed
<1>2. QED
  BY <1>1 DEF Reached, Listed

(* The calls for instances that are settled when the list is done.         *)
LEMMA CallsOK ==
  ASSUME NEW s, NEW parent, todo = <<>>, \A i \in DOMAIN s : Settled(s[i])
  PROVE  /\ DOMAIN CallsFor(s, parent) = DOMAIN s
         /\ \A i \in DOMAIN s : CallOK(CallsFor(s, parent)[i])
<1>1. \A i \in DOMAIN s : s[i] = Nil \/ Listed(s[i])
  BY DEF Settled
<1>2. QED
  BY <1>1 DEF CallsFor, CallOK

LEMMA FilledInv ==
  ASSUME TypeOK, Reached, Walked, AllFilled
  PROVE  Reached' /\ Walked' /\ FileLaid'
<1>1. /\ root' = root /\ instList' = instList /\ todo' = todo /\ links' = links
      /\ step = "sort" /\ step' = "link"
  BY DEF AllFilled
<1>2. Reached' /\ (\A x : Listed(x)' <=> Listed(x)) /\ todo = <<>>
  BY <1>1, ReachedStays
<1>3. ASSUME NEW i \in DOMAIN walk' PROVE CallOK(walk'[i])
  <2>1. walk' = CallsFor(root.instances, Nil)
    BY <1>3 DEF AllFilled
  <2>2. \A j \in DOMAIN root.instances : Settled(root.instances[j])
    BY DEF Reached
  <2>3. QED
    BY <1>2, <1>3, <2>1, <2>2, CallsOK
<1>4. Walked'
  BY <1>1, <1>2, <1>3 DEF Walked, CallOK
<1>5. QED
  BY <1>1, <1>2, <1>4 DEF FileLaid

(* An instance that is entered is not nil, and its children are settled.   *)
LEMMA EnterWalked ==
  ASSUME TypeOK, Reached, Walked, EnterInstance, ~Crash
  PROVE  Reached' /\ Walked' /\ FileLaid'
<1> DEFINE call == Head(walk)
           left == [call EXCEPT !.entered = TRUE]
           calls == CallsFor(root.children[call.instance], call.instance)
           rest == Tail(walk)
<1>1. /\ root' = root /\ instList' = instList /\ todo' = todo /\ links' = links
      /\ step = "link" /\ step' = "link" /\ walk # <<>>
      /\ call.instance # Nil /\ walk' = (calls \o <<left>>) \o rest
  BY DEF EnterInstance
<1>2. Reached' /\ (\A x : Listed(x)' <=> Listed(x)) /\ todo = <<>>
  BY <1>1, ReachedStays
<1>3. walk \in Seq(Call) /\ root \in Roots /\ instList \in Seq(Instances)
  BY DEF TypeOK, ListTypeOK, LinkTypeOK
<1>4. call \in Call /\ call = walk[1] /\ 1 \in DOMAIN walk
      /\ rest \in Seq(Call) /\ (\A i \in DOMAIN rest : i + 1 \in DOMAIN walk /\ rest[i] = walk[i + 1])
  BY <1>1, <1>3
<1>5. CallOK(call)
  BY <1>4 DEF Walked
<1>6. PICK k \in DOMAIN instList : instList[k] = call.instance
  BY <1>1, <1>5 DEF CallOK, Listed
<1>7. \A i \in DOMAIN root.children[call.instance] : Settled(root.children[call.instance][i])
  BY <1>6 DEF Reached
<1>8. \A i \in DOMAIN calls : CallOK(calls[i])
  BY <1>2, <1>7, CallsOK
<1>9. CallOK(left) /\ left \in Call
  BY <1>1, <1>4, <1>5 DEF CallOK, Call
<1>10. calls \in Seq(Call)
  <2>1. call.instance \in Instances /\ call.parent \in Instances \cup {Nil}
    BY <1>1, <1>4 DEF Call
  <2>2. root.children[call.instance] \in Seq(Instances \cup {Nil})
    BY <1>3, <2>1, RootParts
  <2>3. QED
    BY <2>1, <2>2, CallsType
<1>11. \A i \in DOMAIN rest : CallOK(rest[i])
  BY <1>4 DEF Walked
<1> HIDE DEF call, left, calls, rest
<1>12. ASSUME NEW i \in DOMAIN walk' PROVE CallOK(walk'[i])
  <2>1. <<left>> \in Seq(Call) /\ Len(<<left>>) = 1 /\ <<left>>[1] = left
    BY <1>9
  <2>2. /\ calls \o <<left>> \in Seq(Call)
        /\ Len(calls \o <<left>>) = Len(calls) + 1 /\ Len(calls) \in Nat
        /\ DOMAIN calls = 1 .. Len(calls)
        /\ \A j \in 1 .. Len(calls) : (calls \o <<left>>)[j] = calls[j]
        /\ (calls \o <<left>>)[Len(calls) + 1] = left
    BY <1>10, <2>1, Joined
  <2>3. /\ DOMAIN walk' = 1 .. Len(calls) + 1 + Len(rest) /\ Len(rest) \in Nat
        /\ DOMAIN rest = 1 .. Len(rest)
        /\ \A j \in 1 .. Len(calls) + 1 : walk'[j] = (calls \o <<left>>)[j]
        /\ \A j \in 1 .. Len(rest) : walk'[Len(calls) + 1 + j] = rest[j]
    BY <1>1, <1>4, <2>2, Joined
  <2>4. CASE i \in 1 .. Len(calls)
    BY <1>8, <2>2, <2>3, <2>4
  <2>5. CASE i = Len(calls) + 1
    BY <1>9, <2>2, <2>3, <2>5
  <2>6. CASE i > Len(calls) + 1
    <3>1. i - (Len(calls) + 1) \in 1 .. Len(rest)
      BY <1>12, <2>2, <2>3, <2>6
    <3>2. walk'[i] = rest[i - (Len(calls) + 1)]
      BY <1>12, <2>2, <2>3, <3>1
    <3>3. QED
      BY <1>11, <2>3, <3>1, <3>2
  <2>7. QED
    BY <1>12, <2>2, <2>3, <2>4, <2>5, <2>6
<1>13. Walked'
  BY <1>1, <1>2, <1>12 DEF Walked, CallOK
<1>14. QED
  BY <1>1, <1>2, <1>13 DEF FileLaid

(* A link is from an instance with a number.                               *)
LEMMA LeaveWalked ==
  ASSUME TypeOK, Reached, Walked, LeaveInstance, ~Crash
  PROVE  Reached' /\ Walked' /\ FileLaid'
<1> DEFINE call == Head(walk)
           new == LinkFor(call)
<1>1. /\ root' = root /\ instList' = instList /\ todo' = todo
      /\ step = "link" /\ step' = "link" /\ walk # <<>> /\ call.entered
      /\ walk' = Tail(walk) /\ links' = Append(links, new)
  BY DEF LeaveInstance
<1>2. Reached' /\ (\A x : Listed(x)' <=> Listed(x))
  BY <1>1, ReachedStays
<1>3. walk \in Seq(Call) /\ links \in Seq(Link) /\ instList \in Seq(Instances)
  BY DEF TypeOK, ListTypeOK, LinkTypeOK
<1>4. CallOK(walk[1]) /\ call = walk[1]
  BY <1>1, <1>3 DEF Walked
<1>5. PICK k \in DOMAIN instList : instList[k] = call.instance
  BY <1>1, <1>4 DEF CallOK, Listed
<1>6. new.child # nilInstance
  <2>1. (CHOOSE i \in DOMAIN instList : instList[i] = call.instance) \in DOMAIN instList
    BY <1>5
  <2>2. Number(call.instance) \in Nat
    BY <1>3, <1>5, <2>1 DEF Number, Listed
  <2>3. QED
    BY <2>2 DEF LinkFor, nilInstance
<1> HIDE DEF new, call
<1>7. \A i \in DOMAIN links' : links'[i].child # nilInstance
  BY <1>1, <1>3, <1>6, Appended DEF Walked
<1>8. \A i \in DOMAIN walk' : CallOK(walk'[i])
  <2>1. \A i \in DOMAIN walk' : i + 1 \in DOMAIN walk /\ walk'[i] = walk[i + 1]
    BY <1>1, <1>3
  <2>2. QED
    BY <2>1 DEF Walked
<1>9. Walked'
  BY <1>2, <1>7, <1>8 DEF Walked, CallOK
<1>10. QED
  BY <1>1, <1>2, <1>9 DEF FileLaid

(* The chunks of the file in their places.                                 *)
LEMMA WriteLaid ==
  ASSUME TypeOK, Reached, Walked, WriteChunks
  PROVE  Reached' /\ Walked' /\ FileLaid'
<1>1. /\ root' = root /\ instList' = instList /\ todo' = todo /\ walk' = walk /\ links' = links
      /\ instChunks' = instChunks /\ propChunks' = propChunks /\ step = "link"
  BY DEF WriteChunks, propVars, linkVars
<1>2. Reached' /\ (\A x : Listed(x)' <=> Listed(x))
  BY <1>1, ReachedStays
<1>3. Walked'
  BY <1>1, <1>2 DEF Walked, CallOK
<1>4. PICK values : file' = (IF values = <<>> THEN <<>> ELSE <<[sig |-> "META", values |-> values]>>)
               \o (IF sharedStrings = <<>> THEN <<>>
                   ELSE <<[sig |-> "SSTR", values |-> sharedStrings]>>)
               \o instChunks \o propChunks \o <<ParentChunk, [sig |-> "END"]>>
  BY DEF WriteChunks
<1> DEFINE meta == [sig |-> "META", values |-> values]
           sstr == [sig |-> "SSTR", values |-> sharedStrings]
           last == [sig |-> "END"]
           C == {meta, sstr, last, ParentChunk} \cup InstChunk \cup PropChunk
           m == IF values = <<>> THEN <<>> ELSE <<meta>>
           s == IF sharedStrings = <<>> THEN <<>> ELSE <<sstr>>
           tail == <<ParentChunk, last>>
<1>5. /\ meta.sig = "META" /\ sstr.sig = "SSTR" /\ last.sig = "END"
  OBVIOUS
<1>6. /\ instChunks \in Seq(InstChunk) /\ propChunks \in Seq(PropChunk)
  BY DEF TypeOK, GroupTypeOK, PropTypeOK
<1>7. file' = (((m \o s) \o instChunks) \o propChunks) \o tail
  BY <1>4
<1>8. /\ meta \in C /\ sstr \in C /\ last \in C /\ ParentChunk \in C
      /\ instChunks \in Seq(C) /\ propChunks \in Seq(C)
  BY <1>6
<1> HIDE DEF meta, sstr, last, C
<1>9. m \in Seq(C) /\ (\A i \in 1 .. Len(m) : m[i].sig = "META")
  BY <1>5, <1>8
<1>10. s \in Seq(C) /\ (\A i \in 1 .. Len(s) : s[i].sig = "SSTR")
  BY <1>5, <1>8
<1>11. tail \in Seq(C) /\ Len(tail) = 2 /\ tail[1] = ParentChunk /\ tail[2] = last
  BY <1>8
<1> HIDE DEF m, s, tail
<1> DEFINE n == Len(m \o s)
<1>12. /\ m \o s \in Seq(C) /\ n \in Nat
       /\ \A i \in 1 .. n : (m \o s)[i].sig \in {"META", "SSTR"}
  <2>1. /\ m \o s \in Seq(C) /\ n = Len(m) + Len(s) /\ Len(m) \in Nat /\ Len(s) \in Nat
        /\ \A i \in 1 .. Len(m) : (m \o s)[i] = m[i]
        /\ \A i \in 1 .. Len(s) : (m \o s)[Len(m) + i] = s[i]
    BY <1>9, <1>10, Joined
  <2>2. ASSUME NEW i \in 1 .. n PROVE (m \o s)[i].sig \in {"META", "SSTR"}
    <3>1. CASE i \in 1 .. Len(m)
      BY <1>9, <2>1, <3>1
    <3>2. CASE i \notin 1 .. Len(m)
      <4>1. i - Len(m) \in 1 .. Len(s) /\ i = Len(m) + (i - Len(m))
        BY <2>1, <3>2
      <4>2. QED
        BY <1>10, <2>1, <4>1
    <3>3. QED
      BY <3>1, <3>2
  <2>3. QED
    BY <2>1, <2>2
<1> DEFINE head == m \o s
           groups == head \o instChunks
           arrays == groups \o propChunks
<1>13. head \in Seq(C) /\ n = Len(head) /\ \A i \in 1 .. n : head[i].sig \in {"META", "SSTR"}
  BY <1>12
<1> HIDE DEF head, n
<1>14. /\ groups \in Seq(C) /\ Len(groups) = n + Len(instChunks)
       /\ n \in Nat /\ Len(instChunks) \in Nat
       /\ \A i \in 1 .. n : groups[i] = head[i]
       /\ \A i \in 1 .. Len(instChunks) : groups[n + i] = instChunks[i]
  BY <1>8, <1>13, Joined
<1> HIDE DEF groups
<1>15. /\ arrays \in Seq(C) /\ Len(arrays) = n + Len(instChunks) + Len(propChunks)
       /\ Len(propChunks) \in Nat
       /\ \A i \in 1 .. n + Len(instChunks) : arrays[i] = groups[i]
       /\ \A i \in 1 .. Len(propChunks) : arrays[n + Len(instChunks) + i] = propChunks[i]
  <2>1. /\ arrays \in Seq(C) /\ Len(arrays) = Len(groups) + Len(propChunks)
        /\ Len(propChunks) \in Nat
        /\ \A i \in 1 .. Len(groups) : arrays[i] = groups[i]
        /\ \A i \in 1 .. Len(propChunks) : arrays[Len(groups) + i] = propChunks[i]
    <3>1. groups \in Seq(C) /\ propChunks \in Seq(C)
      BY <1>8, <1>14
    <3>2. QED
      BY ONLY <3>1, Joined
  <2> HIDE DEF arrays
  <2>2. Len(groups) = n + Len(instChunks)
    BY <1>14
  <2>3. QED
    BY <2>1, <2>2
<1>16. file' = arrays \o tail
  BY <1>7 DEF groups, head
<1> HIDE DEF arrays
<1>17. /\ Len(file') = n + Len(instChunks) + Len(propChunks) + 2
       /\ \A i \in 1 .. n + Len(instChunks) + Len(propChunks) : file'[i] = arrays[i]
       /\ file'[n + Len(instChunks) + Len(propChunks) + 1] = ParentChunk
       /\ file'[n + Len(instChunks) + Len(propChunks) + 2] = last
  <2>1. /\ Len(file') = Len(arrays) + 2
        /\ \A i \in 1 .. Len(arrays) : file'[i] = arrays[i]
        /\ file'[Len(arrays) + 1] = tail[1] /\ file'[Len(arrays) + 2] = tail[2]
    <3>1. arrays \in Seq(C) /\ tail \in Seq(C) /\ Len(tail) = 2
      BY <1>11, <1>15
    <3>2. /\ Len(arrays \o tail) = Len(arrays) + 2
          /\ \A i \in 1 .. Len(arrays) : (arrays \o tail)[i] = arrays[i]
          /\ \A i \in 1 .. 2 : (arrays \o tail)[Len(arrays) + i] = tail[i]
      BY ONLY <3>1, Joined
    <3>3. QED
      BY <1>16, <3>2
  <2>2. Len(arrays) = n + Len(instChunks) + Len(propChunks)
    BY <1>15
  <2>3. QED
    BY <1>11, <2>1, <2>2
<1>18. ASSUME NEW i \in 1 .. n PROVE file'[i].sig \in {"META", "SSTR"}
  <2>1. i \in 1 .. n + Len(instChunks) /\ i \in 1 .. n + Len(instChunks) + Len(propChunks)
    BY <1>14, <1>15
  <2>2. QED
    BY <1>13, <1>14, <1>15, <1>17, <2>1
<1>19. ASSUME NEW k \in 1 .. Len(instChunks) PROVE file'[n + k] = instChunks[k]
  <2>1. n + k \in 1 .. n + Len(instChunks)
        /\ n + k \in 1 .. n + Len(instChunks) + Len(propChunks)
    BY <1>14, <1>15
  <2>2. QED
    BY <1>14, <1>15, <1>17, <2>1
<1>20. ASSUME NEW k \in 1 .. Len(propChunks)
       PROVE  file'[n + Len(instChunks) + k] = propChunks[k]
  <2>1. n + Len(instChunks) + k \in 1 .. n + Len(instChunks) + Len(propChunks)
    BY <1>14, <1>15
  <2>2. QED
    BY <1>15, <1>17, <2>1
<1>21. ParentChunk' = ParentChunk
  BY <1>1 DEF ParentChunk
<1>22. Len(file') - 1 = n + Len(instChunks) + Len(propChunks) + 1
  BY <1>14, <1>15, <1>17
<1>23. ASSUME NEW k, k = n PROVE Laid(k)'
  BY <1>1, <1>5, <1>17, <1>18, <1>19, <1>20, <1>21, <1>22, <1>23 DEF Laid, last
<1>24. QED
  BY <1>2, <1>3, <1>14, <1>23 DEF FileLaid

(* The encoder's half along the encoding.                                  *)
LEMMA WriteInvStart ==
  ASSUME Init PROVE WriteInv
<1>1. Reached
  BY DEF Init, Reached, Settled
<1>2. QED
  BY <1>1 DEF Init, WriteInv, Walked, FileLaid

LEMMA WriteInvStep ==
  ASSUME TypeOK, WriteInv, Next
  PROVE  WriteInv'
<1>1. CASE AddInstance
  <2>1. FileLaid'
    BY <1>1 DEF AddInstance, FileLaid
  <2>2. QED
    BY <1>1, <2>1, AddReached, AddWalked DEF WriteInv
<1>2. CASE AllFilled
  BY <1>2, FilledInv DEF WriteInv
<1>3. CASE Still
  BY <1>3, StillInv DEF WriteInv
<1>4. CASE WriteChunks
  BY <1>4, WriteLaid DEF WriteInv
<1>5. CASE EnterInstance /\ ~Crash
  BY <1>5, EnterWalked DEF WriteInv
<1>6. CASE LeaveInstance /\ ~Crash
  BY <1>6, LeaveWalked DEF WriteInv
<1>7. QED
  BY <1>1, <1>2, <1>3, <1>4, <1>5, <1>6, Moves

LEMMA WriteInvStays ==
  ASSUME WriteInv, UNCHANGED encodeVars
  PROVE  WriteInv'
<1>1. /\ root' = root /\ todo' = todo /\ instList' = instList /\ walk' = walk /\ links' = links
      /\ step' = step /\ file' = file /\ instChunks' = instChunks /\ propChunks' = propChunks
  BY DEF encodeVars, propVars, linkVars
<1>2. Reached'
  BY <1>1 DEF WriteInv, Reached, Settled, Listed
<1>3. Walked'
  BY <1>1 DEF WriteInv, Walked, CallOK, Listed
<1>4. FileLaid'
  BY <1>1 DEF WriteInv, FileLaid, Laid, ParentChunk
<1>5. QED
  BY <1>2, <1>3, <1>4 DEF WriteInv

-------------------------------------------------------------------------------
(* The file.                                                               *)

(* A chunk is the group of its class, and all groups come before place i.  *)
IsGroup(ch) == ch.class + 1 \in DOMAIN instChunks /\ ch = instChunks[ch.class + 1]
GroupsBefore(i) == \A k \in DOMAIN instChunks : \E j \in 1 .. i - 1 : file[j] = instChunks[k]

FileOK ==
  /\ Len(file) \in Nat
  /\ \A i \in 1 .. Len(file) :
       /\ file[i].sig = "INST" => IsGroup(file[i])
       /\ file[i].sig = "PROP" => \E k \in DOMAIN propChunks : file[i] = propChunks[k]
       /\ file[i].sig = "PRNT" => file[i] = ParentChunk
       /\ file[i].sig \in {"PROP", "PRNT"} => GroupsBefore(i)
       /\ file[i].sig = "END" => i = Len(file) /\ file[i] = [sig |-> "END"]
  /\ \A i, j \in 1 .. Len(file) :
       file[i].sig = "INST" /\ file[j].sig = "INST" /\ file[i].class = file[j].class => i = j

LEMMA ChunkSigs ==
  /\ \A ch \in InstChunk : ch.sig = "INST" /\ ch.class \in Nat /\ ch.ids \in Seq(Nat)
  /\ \A ch \in PropChunk : ch.sig = "PROP" /\ ch.class \in Nat /\ ch.kind # "none"
<1>1. ASSUME NEW ch \in InstChunk PROVE ch.sig = "INST" /\ ch.class \in Nat /\ ch.ids \in Seq(Nat)
  BY <1>1 DEF InstChunk
<1>2. ASSUME NEW ch \in PropChunk
      PROVE  ch.sig = "PROP" /\ ch.class \in Nat /\ ch.kind # "none"
  BY <1>2 DEF PropChunk
<1>3. QED
  BY <1>1, <1>2

(* The finished file is in order.                                          *)
LEMMA FileFacts ==
  ASSUME TypeOK, EncodeInv, FileLaid, step = "done"
  PROVE  FileOK
<1>1. PICK n \in Nat : Laid(n)
  BY DEF FileLaid
<1> DEFINE I == Len(instChunks)
           P == Len(propChunks)
<1>2. /\ instChunks \in Seq(InstChunk) /\ propChunks \in Seq(PropChunk)
  BY DEF TypeOK, GroupTypeOK, PropTypeOK
<1>3. /\ I \in Nat /\ P \in Nat /\ DOMAIN instChunks = 1 .. I /\ DOMAIN propChunks = 1 .. P
  BY <1>2
<1>4. \A k \in 1 .. I : instChunks[k].sig = "INST"
  BY <1>2, <1>3, ChunkSigs
<1>5. \A k \in 1 .. P : propChunks[k].sig = "PROP"
  BY <1>2, <1>3, ChunkSigs
<1>6. \A k \in 1 .. I : instChunks[k].class = k - 1
  BY <1>3 DEF EncodeInv, Chunked
<1>7. ParentChunk.sig = "PRNT"
  BY DEF ParentChunk
<1>8. /\ Len(file) = n + I + P + 2
      /\ \A i \in 1 .. n : file[i].sig \in {"META", "SSTR"}
      /\ \A k \in 1 .. I : file[n + k] = instChunks[k]
      /\ \A k \in 1 .. P : file[n + I + k] = propChunks[k]
      /\ file[n + I + P + 1] = ParentChunk
      /\ file[n + I + P + 2] = [sig |-> "END"]
  <2>1. Len(file) = n + I + P + 2
    BY <1>1 DEF Laid
  <2>2. Len(file) - 1 = n + I + P + 1
    BY <1>3, <2>1
  <2>3. QED
    BY <1>1, <2>1, <2>2 DEF Laid
<1> HIDE DEF I, P
<1>9. ASSUME NEW i \in 1 .. Len(file)
      PROVE  \/ i \in 1 .. n /\ file[i].sig \in {"META", "SSTR"}
             \/ i - n \in 1 .. I /\ file[i] = instChunks[i - n]
             \/ i - (n + I) \in 1 .. P /\ file[i] = propChunks[i - (n + I)]
             \/ i = n + I + P + 1 /\ file[i] = ParentChunk
             \/ i = n + I + P + 2 /\ file[i] = [sig |-> "END"]
  <2>1. CASE i \in 1 .. n
    BY <1>8, <2>1
  <2>2. CASE i - n \in 1 .. I
    <3>1. i = n + (i - n)
      OBVIOUS
    <3>2. QED
      BY <1>8, <2>2, <3>1
  <2>3. CASE i - (n + I) \in 1 .. P
    <3>1. i = n + I + (i - (n + I))
      BY <1>3
    <3>2. QED
      BY <1>8, <2>3, <3>1
  <2>4. \/ i \in 1 .. n \/ i - n \in 1 .. I \/ i - (n + I) \in 1 .. P
        \/ i = n + I + P + 1 \/ i = n + I + P + 2
    BY <1>3, <1>8
  <2>5. QED
    BY <1>8, <2>1, <2>2, <2>3, <2>4
<1>10. ASSUME NEW i \in 1 .. Len(file), file[i].sig = "INST"
       PROVE  /\ i - n \in 1 .. I /\ file[i] = instChunks[i - n] /\ file[i].class = i - n - 1
  BY <1>5, <1>6, <1>7, <1>9, <1>10
<1>11. ASSUME NEW i \in 1 .. Len(file), file[i].sig \in {"PROP", "PRNT"}
       PROVE  i > n + I /\ GroupsBefore(i)
  <2>1. i > n + I
    <3>1. CASE i \in 1 .. n /\ file[i].sig \in {"META", "SSTR"}
      BY <1>11, <3>1
    <3>2. CASE i - n \in 1 .. I /\ file[i] = instChunks[i - n]
      BY <1>4, <1>11, <3>2
    <3>3. CASE i - (n + I) \in 1 .. P \/ i = n + I + P + 1 \/ i = n + I + P + 2
      BY <1>3, <3>3
    <3>4. QED
      BY <1>9, <3>1, <3>2, <3>3
  <2>2. ASSUME NEW k \in 1 .. I PROVE \E j \in 1 .. i - 1 : file[j] = instChunks[k]
    <3>1. n + k \in 1 .. i - 1
      BY <1>3, <2>1
    <3>2. QED
      BY <1>8, <3>1
  <2>3. QED
    BY <1>3, <2>1, <2>2 DEF GroupsBefore
<1>12. ASSUME NEW i \in 1 .. Len(file), file[i].sig = "INST" PROVE IsGroup(file[i])
  <2>1. file[i].class + 1 = i - n
    BY <1>10, <1>12
  <2>2. QED
    BY <1>3, <1>10, <1>12, <2>1 DEF IsGroup
<1>13. ASSUME NEW i \in 1 .. Len(file), file[i].sig = "PROP"
       PROVE  \E k \in DOMAIN propChunks : file[i] = propChunks[k]
  BY <1>3, <1>4, <1>7, <1>9, <1>13
<1>14. ASSUME NEW i \in 1 .. Len(file), file[i].sig = "PRNT" PROVE file[i] = ParentChunk
  BY <1>4, <1>5, <1>9, <1>14
<1>15. ASSUME NEW i \in 1 .. Len(file), file[i].sig = "END"
       PROVE  i = Len(file) /\ file[i] = [sig |-> "END"]
  BY <1>4, <1>5, <1>7, <1>8, <1>9, <1>15
<1>16. ASSUME NEW i \in 1 .. Len(file), NEW j \in 1 .. Len(file),
              file[i].sig = "INST", file[j].sig = "INST", file[i].class = file[j].class
       PROVE  i = j
  <2>1. i - n - 1 = j - n - 1
    BY <1>10, <1>16
  <2>2. QED
    BY <2>1
<1>17. Len(file) \in Nat
  BY <1>3, <1>8
<1>18. QED
  BY <1>11, <1>12, <1>13, <1>14, <1>15, <1>16, <1>17 DEF FileOK

(* The contents of an INST chunk that is read.                             *)
LEMMA InstParts ==
  ASSUME NEW ch \in InstChunks
  PROVE  /\ ch.class \in ClassIDs /\ ch.ids \in Seq(Ids)
         /\ ch.isService => Len(ch.getService) = Len(ch.ids)
         /\ ch.sig = "INST"
<1>1. ch \in D!InstRecord
  BY DecodeAssumption DEF D!ChunkAssumption
<1>2. ch.isService => Len(ch.getService) = Len(ch.ids)
  BY DecodeAssumption DEF D!PayloadAssumption
<1>3. QED
  BY <1>1, <1>2 DEF D!InstRecord

-------------------------------------------------------------------------------
(* The decoder.                                                            *)

LEMMA HeaderDiffers ==
  /\ FileHeader # NoHeader /\ ~FileHeader.reserved
  /\ FileHeader.classCount = Len(instChunks) /\ FileHeader.instanceCount = Len(instList)
<1>1. FileHeader.intact /\ ~NoHeader.intact
  BY DEF FileHeader, NoHeader
<1>2. QED
  BY <1>1 DEF FileHeader

(* A group the codec has read: its place, its entry and its ids.           *)
LEMMA GroupRead ==
  ASSUME TripInv, header # NoHeader, NEW k \in DOMAIN instChunks,
         NEW i \in Nat, i <= Len(chunks), NEW j \in 1 .. i, file[j] = instChunks[k]
  PROVE  /\ j \in 1 .. Len(chunks) /\ chunks[j] = instChunks[k] /\ chunks[j].sig = "INST"
         /\ chunks[j].class = k - 1 /\ k - 1 \in ClassIDs
         /\ groupLookup[k - 1] = j /\ chunks[j] \in InstChunks
<1>1. chunks \in Seq(ReadChunks) /\ Len(chunks) <= Len(file)
      /\ \A l \in 1 .. Len(chunks) : ReadAs(chunks[l], file[l])
  BY DEF TripInv, ReadInv, ReadSoFar
<1>2. j \in 1 .. Len(chunks)
  BY <1>1
<1>3. instChunks \in Seq(InstChunk)
  BY DEF TripInv, TypeOK, GroupTypeOK
<1>4. instChunks[k].sig = "INST"
  BY <1>3, ChunkSigs
<1>5. instChunks[k].class = k - 1
  BY DEF TripInv, EncodeInv, Chunked
<1>6. chunks[j] = instChunks[k]
  BY <1>1, <1>2, <1>4 DEF ReadAs, IsPacked
<1>7. chunks[j] \in InstChunks /\ groupLookup[k - 1] = j
  BY <1>2, <1>4, <1>5, <1>6 DEF TripInv, ReadInv, Groups
<1>8. QED
  BY <1>2, <1>4, <1>5, <1>6, <1>7, InstParts

(* An array of the file, when all that is before it has been read.         *)
LEMMA ArrayRead ==
  ASSUME TripInv, header # NoHeader, NEW i \in 1 .. Len(file), i - 1 <= Len(chunks),
         file[i].sig = "PROP"
  PROVE  LET ch == file[i] IN
         /\ ch \in PropChunk /\ ch.class \in ClassIDs
         /\ ch.class \in Nat /\ ch.class < Len(instChunks)
         /\ groupLookup[ch.class] \in 1 .. i - 1
         /\ chunks[groupLookup[ch.class]] = instChunks[ch.class + 1]
         /\ chunks[groupLookup[ch.class]] \in InstChunks
         /\ chunks[groupLookup[ch.class]].sig = "INST"
         /\ Len(ch.values) = Len(chunks[groupLookup[ch.class]].ids)
<1> DEFINE ch == file[i]
<1>1. step = "done"
  BY DEF TripInv, ReadInv, ReadSoFar
<1>2. FileOK
  BY <1>1, FileFacts DEF TripInv, WriteInv
<1>3. PICK k \in DOMAIN propChunks : ch = propChunks[k]
  BY <1>2 DEF FileOK
<1>4. instChunks \in Seq(InstChunk) /\ propChunks \in Seq(PropChunk)
  BY DEF TripInv, TypeOK, GroupTypeOK, PropTypeOK
<1>5. ch \in PropChunk
  BY <1>3, <1>4
<1>6. ch.class \in Nat
  BY <1>5 DEF PropChunk
<1>7. ArraysFit
  BY EncodeInvImplies DEF TripInv, NumbersConsistent
<1>8. ch.class + 1 \in DOMAIN instChunks /\ Len(ch.values) = Len(instChunks[ch.class + 1].ids)
  BY <1>1, <1>3, <1>7 DEF ArraysFit, IsFull
<1>9. PICK j \in 1 .. i - 1 : file[j] = instChunks[ch.class + 1]
  BY <1>2, <1>8 DEF FileOK, GroupsBefore
<1>10. i - 1 \in Nat /\ ch.class + 1 - 1 = ch.class
  BY <1>6
<1>11. /\ chunks[j] = instChunks[ch.class + 1] /\ groupLookup[ch.class] = j
       /\ ch.class \in ClassIDs
       /\ chunks[j] \in InstChunks /\ chunks[j].sig = "INST"
  <2> DEFINE l == ch.class + 1
  <2>0. l - 1 = ch.class
    BY <1>6
  <2>1. l \in DOMAIN instChunks /\ file[j] = instChunks[l] /\ l - 1 = ch.class
    BY <1>8, <1>9, <2>0
  <2> HIDE DEF l
  <2>2. /\ chunks[j] = instChunks[l] /\ groupLookup[l - 1] = j /\ l - 1 \in ClassIDs
        /\ chunks[j] \in InstChunks /\ chunks[j].sig = "INST"
    BY <1>10, <2>1, GroupRead
  <2>3. QED
    BY <2>1, <2>2 DEF l
<1>12. QED
  BY <1>4, <1>5, <1>6, <1>8, <1>11

(* What is read of it, be it what was written or not.                      *)
LEMMA ArrayAs ==
  ASSUME NEW ch \in PropChunk, NEW read, ReadAs(read, ch), read # D!Other
  PROVE  /\ read.class = ch.class /\ read.name = ch.name /\ read.sig = "PROP"
         /\ Len(read.values) = Len(ch.values) /\ read.kind \notin {"none", "nested"}
<1>1. CASE read = ch
  BY <1>1 DEF PropChunk
<1>2. CASE Garbled(read, ch)
  BY <1>2 DEF Garbled, D!PropRecord
<1>3. QED
  BY <1>1, <1>2 DEF ReadAs

(* While the file is not written nothing is read ...                       *)
LEMMA UnwrittenStays ==
  ASSUME ReadInv, Next, UNCHANGED decodeVars
  PROVE  ReadInv'
<1>1. /\ phase' = phase /\ header' = header /\ chunks' = chunks /\ groupLookup' = groupLookup
      /\ warns' = warns /\ pos' = pos /\ link' = link /\ instLookup' = instLookup
  BY DEF decodeVars
<1>2. step # "done"
  <2>1. AddInstance \/ AllFilled \/ WriteChunks \/ EnterInstance \/ LeaveInstance => step # "done"
    BY DEF AddInstance, AllFilled, WriteChunks, EnterInstance, LeaveInstance
  <2>2. QED
    BY <2>1, Moves DEF Still
<1>3. header = NoHeader /\ warns = {}
  BY <1>2 DEF ReadInv, ReadSoFar
<1>4. ReadSoFar'
  BY <1>1, <1>3 DEF ReadInv, ReadSoFar, NoHeader
<1>5. Groups'
  BY <1>1 DEF ReadInv, Groups
<1>6. Made'
  BY <1>1 DEF ReadInv, Made, MadeAt
<1>7. QED
  BY <1>4, <1>5, <1>6 DEF ReadInv

(* ... and then the file stays as it is.                                   *)
LEMMA FileStays ==
  ASSUME UNCHANGED encodeVars
  PROVE  /\ step' = step /\ file' = file /\ FileHeader' = FileHeader /\ FileChunks' = FileChunks
         /\ ReadChunks' = ReadChunks
         /\ (ReadSoFar /\ UNCHANGED decodeVars => ReadSoFar')
<1>1. step' = step /\ file' = file /\ instChunks' = instChunks /\ instList' = instList
  BY DEF encodeVars
<1>2. FileHeader' = FileHeader /\ FileChunks' = FileChunks /\ ReadChunks' = ReadChunks
  BY <1>1 DEF FileHeader, FileChunks, ReadChunks
<1>3. ASSUME ReadSoFar, UNCHANGED decodeVars PROVE ReadSoFar'
  <2>1. /\ phase' = phase /\ header' = header /\ chunks' = chunks
        /\ warns' = warns /\ pos' = pos /\ link' = link
    BY <1>3 DEF decodeVars
  <2>2. QED
    BY <1>1, <1>2, <1>3, <2>1 DEF ReadSoFar, NoHeader
<1>4. QED
  BY <1>1, <1>2, <1>3

LEMMA WriteFileRead ==
  ASSUME TripInv, WriteFile
  PROVE  ReadInv'
<1>1. /\ phase' = phase /\ header' = FileHeader /\ chunks' = chunks /\ groupLookup' = groupLookup
      /\ warns' = warns /\ pos' = pos /\ link' = link /\ instLookup' = instLookup
      /\ header = NoHeader /\ step = "done" /\ UNCHANGED encodeVars
  BY DEF WriteFile
<1>2. /\ step' = step /\ file' = file /\ FileHeader' = FileHeader /\ ReadChunks' = ReadChunks
  BY <1>1, FileStays
<1>3. phase = "header" /\ chunks = <<>>
  BY <1>1 DEF TripInv, ReadInv, ReadSoFar
<1>4. Len(file) \in Nat
  BY <1>1, FileFacts DEF TripInv, WriteInv, FileOK
<1>5. NoHeader' = NoHeader
  BY DEF NoHeader
<1>6. chunks' \in Seq(ReadChunks) /\ Len(chunks') = 0 /\ Len(chunks') <= Len(file)
  BY <1>1, <1>3, <1>4
<1>7. ReadSoFar'
  BY <1>1, <1>2, <1>3, <1>5, <1>6, HeaderDiffers DEF TripInv, ReadInv, ReadSoFar
<1>8. Groups'
  BY <1>1 DEF TripInv, ReadInv, Groups
<1>9. Made'
  BY <1>1 DEF TripInv, ReadInv, Made, MadeAt
<1>10. QED
  BY <1>7, <1>8, <1>9 DEF ReadInv

LEMMA HeaderRead ==
  ASSUME TripInv, ReadHeader
  PROVE  ReadInv'
<1>1. /\ phase' = "chunks" /\ header' = header /\ chunks' = chunks /\ groupLookup' = groupLookup
      /\ warns' = warns \cup (IF header.reserved THEN {"reserved"} ELSE {})
      /\ pos' = pos /\ link' = link /\ instLookup' = instLookup
      /\ header # NoHeader /\ phase = "header" /\ UNCHANGED encodeVars
  BY DEF ReadHeader, D!HeaderOK, D!readVars, D!treeVars
<1>2. /\ step' = step /\ file' = file /\ FileHeader' = FileHeader /\ ReadChunks' = ReadChunks
  BY <1>1, FileStays
<1>3. header = FileHeader
  BY <1>1 DEF TripInv, ReadInv, ReadSoFar
<1>4. warns' = warns
  BY <1>1, <1>3, HeaderDiffers
<1>5. NoHeader' = NoHeader
  BY DEF NoHeader
<1>6. ReadSoFar'
  BY <1>1, <1>2, <1>4, <1>5 DEF TripInv, ReadInv, ReadSoFar
<1>7. Groups'
  BY <1>1 DEF TripInv, ReadInv, Groups
<1>8. Made'
  BY <1>1 DEF TripInv, ReadInv, Made, MadeAt
<1>9. QED
  BY <1>6, <1>7, <1>8 DEF ReadInv

(* What the next chunk is read as, and the warning that may come with it.  *)
Reads(read) ==
  LET next == file[Len(chunks) + 1] IN
  /\ chunks' = Append(chunks, read)
  /\ ReadAs(read, next)
  /\ \/ warns' = warns
     \/ IsPacked(next) /\ read = D!Other /\ warns' = warns \cup {"chunk"}
  /\ \/ /\ next \in InstChunks /\ phase' = "chunks"
        /\ groupLookup' = [groupLookup EXCEPT ![next.class] = Len(chunks) + 1]
     \/ next.sig # "INST" /\ phase' = "chunks" /\ groupLookup' = groupLookup
     \/ next.sig = "END" /\ phase' = "codec" /\ groupLookup' = groupLookup

LEMMA ArrayParts ==
  ASSUME NEW class, NEW name, NEW read \in D!Arrays(class, name)
  PROVE  LET length == Len(chunks[groupLookup[class]].ids) IN
         \E kind \in D!Kinds : \E values \in [1 .. length -> Raw[kind]] :
           \E present \in IF kind \in D!Flagged THEN [1 .. length -> BOOLEAN] ELSE {<<>>} :
             read = [sig |-> "PROP", class |-> class, name |-> name, kind |-> kind,
                     values |-> values, present |-> present]
BY DEF D!Arrays

LEMMA NextRead ==
  ASSUME TripInv, ReadChunk
  PROVE  /\ Len(chunks) < Len(file) /\ UNCHANGED encodeVars /\ phase = "chunks"
         /\ header' = header /\ pos' = pos /\ link' = link /\ instLookup' = instLookup
         /\ \E read : Reads(read)
<1> DEFINE at == Len(chunks) + 1
           next == file[at]
<1>1. Len(chunks) < Len(file) /\ UNCHANGED encodeVars
  BY DEF ReadChunk
<1>2. phase = "chunks" /\ header # NoHeader /\ step = "done"
  <2>1. phase = "chunks"
    BY DEF ReadChunk, ReadPacked, D!ReadBroken, D!KeepGroup, D!KeepProperty, D!KeepOther,
           D!ReadEnd, D!Room
  <2>2. QED
    BY <2>1 DEF TripInv, ReadInv, ReadSoFar
<1>3. FileOK /\ Len(chunks) \in Nat /\ at \in 1 .. Len(file) /\ at - 1 = Len(chunks)
  <2>1. FileOK
    BY <1>2, FileFacts DEF TripInv, WriteInv
  <2>2. chunks \in Seq(ReadChunks)
    BY <1>2 DEF TripInv, ReadInv, ReadSoFar
  <2>3. QED
    BY <1>1, <2>1, <2>2 DEF FileOK
<1>4. CASE IsPacked(next) /\ D!ReadBroken
  BY <1>1, <1>2, <1>4
     DEF D!ReadBroken, D!Room, D!KeepErrored, D!treeVars, Reads, ReadAs, IsPacked
<1>5. CASE /\ IsPacked(next)
           /\ \E read \in D!Arrays(next.class, next.name) :
                read.kind = "optional" /\ D!KeepProperty(read)
  <2>1. PICK read \in D!Arrays(next.class, next.name) :
          read.kind = "optional" /\ D!KeepProperty(read)
    BY <1>5
  <2>2. /\ next \in PropChunk /\ next.class \in ClassIDs
        /\ Len(next.values) = Len(chunks[groupLookup[next.class]].ids)
    BY <1>2, <1>3, <1>5, ArrayRead DEF IsPacked
  <2>3. next.name \in Names /\ Len(next.values) \in Nat
    BY <2>2 DEF PropChunk
  <2> DEFINE length == Len(chunks[groupLookup[next.class]].ids)
  <2> HIDE DEF next
  <2>4. PICK values \in [1 .. length -> Raw["optional"]], present \in [1 .. length -> BOOLEAN] :
          read = [sig |-> "PROP", class |-> next.class, name |-> next.name, kind |-> "optional",
                  values |-> values, present |-> present]
    <3> DEFINE Same(kind, values, present) ==
          read = [sig |-> "PROP", class |-> next.class, name |-> next.name, kind |-> kind,
                  values |-> values, present |-> present]
    <3>1. PICK kind \in D!Kinds : \E values \in [1 .. length -> Raw[kind]] :
            \E present \in IF kind \in D!Flagged THEN [1 .. length -> BOOLEAN] ELSE {<<>>} :
              Same(kind, values, present)
      BY <2>1, ArrayParts
    <3>2. kind = "optional" /\ "optional" \in D!Flagged
      BY <2>1, <3>1 DEF D!Flagged
    <3> HIDE DEF Same, length
    <3>3. \E values \in [1 .. length -> Raw["optional"]], present \in [1 .. length -> BOOLEAN] :
            Same("optional", values, present)
      BY <3>1, <3>2
    <3>4. QED
      BY <3>3 DEF Same
  <2>5. Raw["optional"] \subseteq Int
    BY DecodeAssumption DEF D!ChunkAssumption, D!Kinds, D!Flagged
  <2>6. length = Len(next.values)
    BY <2>2
  <2> HIDE DEF length
  <2>7. values \in Seq(Int) /\ present \in Seq(BOOLEAN) /\ Len(values) = length
    BY <2>3, <2>4, <2>5, <2>6
  <2>8. Garbled(read, next)
    BY <2>2, <2>3, <2>4, <2>6, <2>7 DEF Garbled, D!PropRecord, D!Kinds, D!Flagged
  <2>9. QED
    BY <1>1, <1>2, <1>5, <2>1, <2>8
       DEF D!KeepProperty, D!Room, D!Keep, D!treeVars, Reads, ReadAs, IsPacked, next
<1>6. CASE next \in InstChunks /\ D!KeepGroup(next) /\ warns' = warns
  <2>1. next.sig = "INST"
    BY <1>6, InstParts
  <2>2. QED
    BY <1>1, <1>2, <1>6, <2>1
       DEF D!KeepGroup, D!Room, D!Keep, D!GroupEntry, D!treeVars, Reads, ReadAs, IsPacked
<1>7. CASE /\ next.sig = "PROP" /\ D!KeepProperty(next)
           /\ next \in D!Decodings(next.class, next.name)
  <2>1. next.kind # "packed"
    <3>1. CASE next \in D!Arrays(next.class, next.name)
      <4>1. next.kind \in D!Kinds
        <5> DEFINE class == next.class
                   name == next.name
        <5>1. next \in D!Arrays(class, name)
          BY <3>1
        <5> HIDE DEF next, class, name
        <5>2. QED
          BY <5>1, ArrayParts
      <4>2. QED
        BY <4>1 DEF D!Kinds, D!Flagged
    <3>2. CASE next \notin D!Arrays(next.class, next.name)
      BY <1>7, <3>2 DEF D!Decodings
    <3>3. QED
      BY <3>1, <3>2
  <2>2. QED
    BY <1>1, <1>2, <1>7, <2>1
       DEF D!KeepProperty, D!Room, D!Keep, D!treeVars, Reads, ReadAs, IsPacked
<1>8. CASE next \in PrntChunks \cup MetaChunks \cup SstrChunks /\ D!KeepOther(next)
  <2>1. next.sig # "INST" /\ next.sig # "PROP"
    BY <1>8, DecodeAssumption
       DEF D!ChunkAssumption, D!PrntRecord, D!MetaRecord, D!SstrRecord
  <2>2. QED
    BY <1>1, <1>2, <1>8, <2>1
       DEF D!KeepOther, D!Room, D!Keep, D!treeVars, Reads, ReadAs, IsPacked
<1>9. CASE next.sig = "END" /\ D!ReadEnd /\ warns' = warns
  <2>1. next = D!End
    BY <1>3, <1>9 DEF FileOK, D!End
  <2>2. QED
    BY <1>1, <1>2, <1>9, <2>1 DEF D!ReadEnd, D!Keep, D!treeVars, Reads, ReadAs, IsPacked
<1>10. QED
  <2>1. D!KeepGroup(next) => warns' = warns
    BY DEF D!KeepGroup
  <2>2. QED
    BY <1>4, <1>5, <1>6, <1>7, <1>8, <1>9, <2>1 DEF ReadChunk, ReadPacked

(* The next chunk is read; a group gets its entry.                         *)
LEMMA ChunkRead ==
  ASSUME TripInv, ReadChunk
  PROVE  ReadInv'
<1> DEFINE at == Len(chunks) + 1
           next == file[at]
<1>0. PICK read : Reads(read)
  BY NextRead
<1>1. /\ Len(chunks) < Len(file) /\ UNCHANGED encodeVars
      /\ phase = "chunks" /\ chunks' = Append(chunks, read) /\ ReadAs(read, next)
      /\ header' = header /\ pos' = pos /\ link' = link /\ instLookup' = instLookup
      /\ \/ warns' = warns
         \/ IsPacked(next) /\ read = D!Other /\ warns' = warns \cup {"chunk"}
      /\ \/ /\ next \in InstChunks /\ phase' = "chunks"
            /\ groupLookup' = [groupLookup EXCEPT ![next.class] = at]
         \/ next.sig # "INST" /\ phase' = "chunks" /\ groupLookup' = groupLookup
         \/ next.sig = "END" /\ phase' = "codec" /\ groupLookup' = groupLookup
  BY <1>0, NextRead DEF Reads
<1>2. /\ step = "done" /\ header # NoHeader /\ header = FileHeader /\ pos = 1
      /\ chunks \in Seq(ReadChunks) /\ (\A i \in 1 .. Len(chunks) : ReadAs(chunks[i], file[i]))
      /\ warns \subseteq {"chunk"} /\ link \in Nat
      /\ warns # {} => \E i \in 1 .. Len(chunks) : IsPacked(file[i]) /\ chunks[i] = D!Other
  BY <1>1 DEF TripInv, ReadInv, ReadSoFar
<1>3. FileOK /\ Len(file) \in Nat
  <2>1. FileOK
    BY <1>2, FileFacts DEF TripInv, WriteInv
  <2>2. QED
    BY <2>1 DEF FileOK
<1>4. at \in 1 .. Len(file) /\ next \in FileChunks
  BY <1>1, <1>2, <1>3 DEF FileChunks
<1> HIDE DEF next
<1>5. /\ read \in ReadChunks
      /\ next.sig = "INST" => read = next
      /\ next.sig # "INST" => read.sig # "INST"
  <2>1. CASE read = next
    BY <1>4, <2>1 DEF ReadChunks
  <2>2. CASE IsPacked(next) /\ read = D!Other
    BY <2>2 DEF ReadChunks, IsPacked, D!Other
  <2>3. CASE IsPacked(next) /\ Garbled(read, next)
    BY <2>3 DEF ReadChunks, IsPacked, Garbled, D!PropRecord
  <2>4. QED
    BY <1>1, <2>1, <2>2, <2>3 DEF ReadAs
<1>6. /\ chunks' \in Seq(ReadChunks) /\ Len(chunks') = at /\ at \in Nat
      /\ \A i \in 1 .. Len(chunks) : chunks'[i] = chunks[i]
      /\ chunks'[at] = read
  BY <1>1, <1>2, <1>4, <1>5, Appended, AppendType
<1> DEFINE len == Len(chunks)
<1>7. len \in Nat /\ at = len + 1 /\ at \in 1 .. at /\ 1 .. len \subseteq 1 .. at
      /\ \A i \in 1 .. at : i \in 1 .. Len(chunks) \/ i = at
  BY <1>2
<1>8. /\ step' = step /\ file' = file /\ FileHeader' = FileHeader /\ ReadChunks' = ReadChunks
  BY <1>1, FileStays
<1>9. \A i \in 1 .. at : ReadAs(chunks'[i], file[i])
  BY <1>1, <1>2, <1>6, <1>7 DEF next
<1>10. phase' = "codec" => Len(chunks') = Len(file)
  <2>1. next.sig = "END" => at = Len(file)
    BY <1>3, <1>4 DEF FileOK, next
  <2>2. QED
    BY <1>1, <1>6, <2>1
<1>11. ReadSoFar'
  <2>1. NoHeader' = NoHeader
    BY DEF NoHeader
  <2>2. Len(chunks') <= Len(file)
    BY <1>4, <1>6
  <2>3. pos' \in 1 .. Len(chunks') + 1 /\ pos' = 1
    BY <1>1, <1>2, <1>6
  <2>4. phase' \in {"chunks", "codec"}
    BY <1>1
  <2>5. warns' \subseteq {"chunk"}
        /\ (warns' # {} => \E i \in 1 .. at : IsPacked(file[i]) /\ chunks'[i] = D!Other)
    <3>1. CASE warns' = warns
      BY <1>2, <1>6, <1>7, <3>1
    <3>2. CASE IsPacked(next) /\ read = D!Other /\ warns' = warns \cup {"chunk"}
      BY <1>2, <1>6, <1>7, <3>2 DEF next
    <3>3. QED
      BY <1>1, <3>1, <3>2
  <2> HIDE DEF at
  <2>6. QED
    BY <1>1, <1>2, <1>6, <1>8, <1>9, <1>10, <2>1, <2>2, <2>3, <2>4, <2>5 DEF ReadSoFar
<1>12. Groups'
  <2> USE DEF Groups
  <2>1. Groups
    BY DEF TripInv, ReadInv
  <2>2. CASE next.sig # "INST"
    <3>1. groupLookup' = groupLookup
      BY <1>1, <2>2, InstParts
    <3>2. read.sig # "INST"
      BY <1>5, <2>2
    <3>3. \A c \in ClassIDs : groupLookup'[c] # 0 =>
            /\ groupLookup'[c] \in 1 .. at
            /\ chunks'[groupLookup'[c]].sig = "INST" /\ chunks'[groupLookup'[c]].class = c
      BY <1>6, <1>7, <2>1, <3>1
    <3>4. \A i \in 1 .. at : chunks'[i].sig = "INST" =>
            chunks'[i] \in InstChunks /\ groupLookup'[chunks'[i].class] = i
      BY <1>6, <1>7, <2>1, <3>1, <3>2
    <3> HIDE DEF at
    <3>5. QED
      BY <1>6, <2>1, <3>1, <3>3, <3>4
  <2>3. CASE next.sig = "INST"
    <3>0. read = next
      BY <1>5, <2>3
    <3>1. next \in InstChunks /\ groupLookup' = [groupLookup EXCEPT ![next.class] = at]
      BY <1>1, <2>3
    <3>2. next.class \in ClassIDs
      BY <3>1, InstParts
    <3>3. /\ groupLookup' \in [ClassIDs -> Nat] /\ groupLookup'[next.class] = at
          /\ \A c \in ClassIDs : c # next.class => groupLookup'[c] = groupLookup[c]
      BY <1>6, <2>1, <3>1, <3>2
    <3> HIDE DEF at
    <3>4. ASSUME NEW c \in ClassIDs, groupLookup'[c] # 0
          PROVE  /\ groupLookup'[c] \in 1 .. at
                 /\ chunks'[groupLookup'[c]].sig = "INST" /\ chunks'[groupLookup'[c]].class = c
      <4>1. CASE c = next.class
        BY <1>6, <1>7, <2>3, <3>0, <3>3, <4>1
      <4>2. CASE c # next.class
        <5>1. /\ groupLookup'[c] = groupLookup[c] /\ groupLookup[c] \in 1 .. Len(chunks)
              /\ chunks[groupLookup[c]].sig = "INST" /\ chunks[groupLookup[c]].class = c
          BY <2>1, <3>3, <3>4, <4>2
        <5>2. QED
          BY <1>6, <1>7, <5>1
      <4>3. QED
        BY <4>1, <4>2
    <3>5. ASSUME NEW i \in 1 .. at, chunks'[i].sig = "INST"
          PROVE  chunks'[i] \in InstChunks /\ groupLookup'[chunks'[i].class] = i
      <4>1. CASE i = at
        BY <1>6, <3>0, <3>1, <3>3, <4>1
      <4>2. CASE i \in 1 .. Len(chunks) /\ i # at
        <5>1. chunks'[i] = chunks[i] /\ chunks[i] \in InstChunks
              /\ groupLookup[chunks[i].class] = i
          BY <1>6, <2>1, <3>5, <4>2
        <5>2. chunks[i].class \in ClassIDs /\ chunks[i].sig = "INST"
          BY <5>1, InstParts
        <5>3. chunks[i] = file[i]
          BY <1>2, <4>2, <5>2 DEF ReadAs, Garbled, D!PropRecord, D!Other
        <5>4. i \in 1 .. Len(file) /\ file[i].sig = "INST" /\ file[at].sig = "INST"
          BY <1>2, <1>3, <1>4, <1>7, <2>3, <4>2, <5>2, <5>3 DEF next, at
        <5>5. file[i].class # file[at].class
          BY <1>3, <1>4, <4>2, <5>4 DEF FileOK
        <5>6. chunks[i].class # next.class
          BY <5>3, <5>5 DEF next
        <5>7. QED
          BY <3>3, <5>1, <5>2, <5>6
      <4>3. QED
        BY <1>7, <4>1, <4>2
    <3>6. QED
      BY <1>6, <3>3, <3>4, <3>5
  <2>4. QED
    BY <2>2, <2>3
<1>13. Made'
  <2>1. pos = 1
    BY <1>2
  <2>2. QED
    BY <1>1, <2>1 DEF TripInv, ReadInv, Made, MadeAt
<1>14. QED
  BY <1>11, <1>12, <1>13 DEF ReadInv

-------------------------------------------------------------------------------
(* The codec.                                                              *)

LEMMA CodecAt ==
  ASSUME TripInv, NEW sig, D!At(sig)
  PROVE  /\ phase = "codec" /\ step = "done" /\ FileOK /\ NumbersConsistent
         /\ header # NoHeader /\ header = FileHeader
         /\ Len(chunks) = Len(file) /\ Len(chunks) \in Nat
         /\ pos \in 1 .. Len(file) /\ pos \in 1 .. Len(chunks)
         /\ D!Current = chunks[pos] /\ chunks[pos].sig = sig /\ ReadAs(chunks[pos], file[pos])
         /\ sig \notin {"PROP", "other"} => chunks[pos] = file[pos]
         /\ Groups /\ Made /\ link \in Nat
<1>1. /\ phase = "codec" /\ step = "done" /\ header # NoHeader /\ header = FileHeader
      /\ Len(chunks) = Len(file) /\ chunks \in Seq(ReadChunks)
      /\ pos <= Len(chunks) /\ pos \in 1 .. Len(chunks) + 1 /\ chunks[pos].sig = sig
      /\ \A i \in 1 .. Len(chunks) : ReadAs(chunks[i], file[i])
      /\ link \in Nat
  BY DEF D!At, TripInv, ReadInv, ReadSoFar
<1>2. FileOK
  BY <1>1, FileFacts DEF TripInv, WriteInv
<1>3. NumbersConsistent
  BY EncodeInvImplies DEF TripInv
<1>4. Len(chunks) \in Nat /\ pos \in 1 .. Len(chunks)
  BY <1>1
<1>5. sig \notin {"PROP", "other"} => chunks[pos] = file[pos]
  BY <1>1, <1>4 DEF ReadAs, Garbled, D!PropRecord, D!Other
<1>6. QED
  BY <1>1, <1>2, <1>3, <1>4, <1>5 DEF D!Current, TripInv, ReadInv

(* A step of the codec that gives no warning and does not fail.            *)
LEMMA StepRead ==
  ASSUME TripInv, phase = "codec", UNCHANGED encodeVars,
         chunks' = chunks, header' = header, groupLookup' = groupLookup, warns' = warns,
         phase' \in {"codec", "done"}, pos' \in 1 .. Len(chunks) + 1, link' \in Nat
  PROVE  ReadSoFar' /\ Groups'
<1>1. /\ step' = step /\ file' = file /\ FileHeader' = FileHeader /\ ReadChunks' = ReadChunks
  BY FileStays
<1>2. NoHeader' = NoHeader
  BY DEF NoHeader
<1>3. header # NoHeader /\ Len(chunks) = Len(file)
  BY DEF TripInv, ReadInv, ReadSoFar
<1>4. ReadSoFar'
  BY <1>1, <1>2, <1>3 DEF TripInv, ReadInv, ReadSoFar
<1>5. Groups'
  BY DEF TripInv, ReadInv, Groups
<1>6. QED
  BY <1>4, <1>5

(* Only the chunk of a group makes instances.                              *)
LEMMA PassMade ==
  ASSUME Made, chunks' = chunks, instLookup' = instLookup, pos \in Nat,
         pos' = pos \/ (pos' = pos + 1 /\ chunks[pos].sig # "INST")
  PROVE  Made'
<1>1. CASE pos' = pos
  BY <1>1 DEF Made, MadeAt
<1>2. CASE pos' = pos + 1 /\ chunks[pos].sig # "INST"
  <2>1. \A id : ~MadeAt(pos, id)
    BY <1>2 DEF MadeAt
  <2>2. \A i \in 1 .. pos' - 1 : i \in 1 .. pos - 1 \/ i = pos
    BY <1>2
  <2>3. 1 .. pos - 1 \subseteq 1 .. pos' - 1
    BY <1>2
  <2>4. \A id \in Ids : (\E i \in 1 .. pos' - 1 : MadeAt(i, id)) <=> \E i \in 1 .. pos - 1 : MadeAt(i, id)
    BY <2>1, <2>2, <2>3
  <2>5. \A i, id : MadeAt(i, id)' <=> MadeAt(i, id)
    BY DEF MadeAt
  <2>6. QED
    BY <2>4, <2>5 DEF Made
<1>3. QED
  BY <1>1, <1>2

(* The chunks without ids, those that are passed over, and the end.        *)
LEMMA OtherDecoded ==
  ASSUME TripInv, UNCHANGED encodeVars,
         D!DecodeMeta \/ D!DecodeSharedStrings \/ D!PassOther \/ D!DecodeEnd \/ D!LeaveParent
  PROVE  ReadInv'
<1>1. PICK sig \in {"META", "SSTR", "other", "END", "PRNT"} : D!At(sig)
  BY DEF D!DecodeMeta, D!DecodeSharedStrings, D!PassOther, D!DecodeEnd, D!LeaveParent
<1>2. /\ phase = "codec" /\ pos \in 1 .. Len(chunks) /\ Len(chunks) \in Nat
      /\ chunks[pos].sig # "INST" /\ Made /\ link \in Nat
  BY <1>1, CodecAt
<1>3. /\ chunks' = chunks /\ header' = header /\ groupLookup' = groupLookup /\ warns' = warns
      /\ phase' \in {"codec", "done"} /\ pos' \in {pos, pos + 1} /\ link' \in Nat
      /\ instLookup' = instLookup
  <2>1. CASE D!DecodeMeta \/ D!DecodeSharedStrings
    BY <1>2, <2>1 DEF D!DecodeMeta, D!DecodeSharedStrings, D!readVars
  <2>2. CASE D!DecodeEnd
    BY <1>2, <2>2 DEF D!DecodeEnd, D!readVars, D!treeVars
  <2>3. CASE D!LeaveParent
    BY <1>2, <2>3 DEF D!LeaveParent, D!readVars, D!treeVars
  <2>4. CASE D!PassOther
    BY <1>2, <2>4 DEF D!PassOther, D!readVars, D!treeVars
  <2>5. QED
    BY <2>1, <2>2, <2>3, <2>4
<1>4. pos' \in 1 .. Len(chunks) + 1 /\ pos \in Nat
  BY <1>2, <1>3
<1>5. ReadSoFar' /\ Groups'
  BY <1>2, <1>3, <1>4, StepRead
<1>6. Made'
  BY <1>2, <1>3, <1>4, PassMade
<1>7. QED
  BY <1>5, <1>6 DEF ReadInv

(* A group: its class is in bounds, its ids are in bounds and free, and    *)
(* groupLookup leads to it.                                                *)
LEMMA GroupDecoded ==
  ASSUME TripInv, D!DecodeInstance, UNCHANGED encodeVars
  PROVE  ReadInv'
<1> DEFINE ch == file[pos]
           k == ch.class + 1
<1>1. /\ phase = "codec" /\ step = "done" /\ FileOK /\ NumbersConsistent
      /\ header # NoHeader /\ header = FileHeader
      /\ Len(chunks) = Len(file) /\ Len(chunks) \in Nat
      /\ pos \in 1 .. Len(file) /\ pos \in 1 .. Len(chunks)
      /\ D!Current = ch /\ chunks[pos] = ch /\ ch.sig = "INST"
      /\ Groups /\ Made /\ link \in Nat
  <2>1. D!At("INST")
    BY DEF D!DecodeInstance
  <2>2. QED
    BY <2>1, CodecAt
<1>2. /\ k \in DOMAIN instChunks /\ ch = instChunks[k]
  BY <1>1 DEF FileOK, IsGroup
<1>3. ch \in InstChunks /\ groupLookup[ch.class] = pos
  BY <1>1 DEF Groups
<1>4. ch.ids \in Seq(Ids) /\ (ch.isService => Len(ch.ids) = Len(ch.getService))
  BY <1>3, InstParts
<1>5. instChunks \in Seq(InstChunk)
  BY DEF TripInv, TypeOK, GroupTypeOK
<1>6. ch.class = k - 1 /\ k \in 1 .. Len(instChunks) /\ ch.ids \in Seq(Nat)
  <2>1. ch \in InstChunk
    BY <1>2, <1>5
  <2>2. QED
    BY <1>2, <1>5, <2>1, ChunkSigs
<1>7. D!ClassInBounds(ch.class)
  BY <1>1, <1>5, <1>6, HeaderDiffers DEF D!ClassInBounds
<1>8. \A i \in DOMAIN ch.ids : ch.ids[i] \in Nat /\ ch.ids[i] < Len(instList) /\ ch.ids[i] \in Ids
  <2>1. grouped = Len(instList)
    BY <1>1 DEF TripInv, EncodeInv, Stages
  <2>2. QED
    BY SMTT(20), <1>2, <1>4, <1>6, <2>1 DEF TripInv, EncodeInv, Chunked
<1>9. GroupsDisjoint
  BY <1>1 DEF NumbersConsistent
<1> HIDE DEF ch, k
<1>10. ASSUME NEW i \in DOMAIN ch.ids, D!Exists(ch.ids[i]) PROVE FALSE
  <2>1. PICK j \in 1 .. pos - 1 : MadeAt(j, ch.ids[i])
    BY <1>1, <1>8, <1>10 DEF D!Exists, Made
  <2>2. j \in 1 .. Len(file) /\ j # pos /\ chunks[j] = file[j] /\ file[j].sig = "INST"
    <3>1. j \in 1 .. Len(chunks) /\ j # pos
      BY <1>1
    <3>2. chunks[j] = file[j]
      <4>1. ReadAs(chunks[j], file[j])
        BY <1>1, <3>1 DEF TripInv, ReadInv, ReadSoFar
      <4>2. QED
        BY <2>1, <4>1 DEF MadeAt, ReadAs, Garbled, D!PropRecord, D!Other
    <3>3. QED
      BY <1>1, <2>1, <3>1, <3>2 DEF MadeAt
  <2>3. file[j].class + 1 \in DOMAIN instChunks /\ file[j] = instChunks[file[j].class + 1]
    BY <1>1, <2>2 DEF FileOK, IsGroup
  <2>4. PICK l \in DOMAIN file[j].ids : file[j].ids[l] = ch.ids[i]
    BY <2>1, <2>2 DEF MadeAt
  <2>5. file[j].class + 1 = k
    <3> DEFINE m == file[j].class + 1
    <3>1. m \in DOMAIN instChunks /\ file[j] = instChunks[m]
      BY <2>3
    <3> HIDE DEF m
    <3>2. m = k
      BY <1>2, <1>9, <1>10, <2>4, <3>1 DEF GroupsDisjoint
    <3>3. QED
      BY <3>2 DEF m
  <2>6. file[j] = ch
    BY <1>2, <2>3, <2>5
  <2>7. QED
    BY <1>1, <2>2, <2>6 DEF FileOK, ch
<1>11. D!IdsFree(ch)
  <2>1. \A i \in DOMAIN ch.ids : D!IdInBounds(ch.ids[i])
    BY <1>1, <1>8, HeaderDiffers DEF D!IdInBounds
  <2>2. \A i, j \in DOMAIN ch.ids : ch.ids[i] = ch.ids[j] => i = j
    BY <1>2, <1>9 DEF GroupsDisjoint
  <2>3. QED
    BY <1>10, <2>1, <2>2 DEF D!IdsFree
<1>12. D!IsOwnGroup(ch)
  BY <1>3 DEF D!IsOwnGroup
<1>13. /\ instLookup' = [id \in Ids |-> IF id \in D!IdsOf(ch) THEN pos ELSE instLookup[id]]
       /\ pos' = pos + 1 /\ phase' = phase /\ warns' = warns /\ link' = link
       /\ header' = header /\ chunks' = chunks /\ groupLookup' = groupLookup
  BY <1>1, <1>4, <1>7, <1>11, <1>12 DEF D!DecodeInstance, D!readVars
<1>14. pos' \in 1 .. Len(chunks) + 1
  BY <1>1, <1>13
<1>15. ReadSoFar' /\ Groups'
  BY <1>1, <1>13, <1>14, StepRead
<1>16. Made'
  <2>1. instLookup' \in [Ids -> Nat]
    BY <1>1, <1>13 DEF Made
  <2>2. \A i, id : MadeAt(i, id)' <=> MadeAt(i, id)
    BY <1>13 DEF MadeAt
  <2>3. pos # 0 /\ (\A i \in 1 .. pos : i \in 1 .. pos - 1 \/ i = pos)
        /\ 1 .. pos - 1 \subseteq 1 .. pos /\ pos \in 1 .. pos /\ pos' - 1 = pos
    BY <1>1, <1>13
  <2>4. \A id : id \in D!IdsOf(ch) <=> MadeAt(pos, id)
    BY <1>1 DEF D!IdsOf, MadeAt
  <2>5. ASSUME NEW id \in Ids PROVE instLookup'[id] # 0 <=> \E i \in 1 .. pos : MadeAt(i, id)
    <3>1. instLookup'[id] # 0 <=> MadeAt(pos, id) \/ instLookup[id] # 0
      BY <1>13, <2>3, <2>4
    <3>2. QED
      BY <1>1, <2>3, <3>1 DEF Made
  <2>6. QED
    BY <2>1, <2>2, <2>3, <2>5 DEF Made
<1>17. QED
  BY <1>15, <1>16 DEF ReadInv

(* An array: its group has been passed, so its instances exist, and it is  *)
(* as long as that.                                                        *)
LEMMA ArrayDecoded ==
  ASSUME TripInv, D!DecodeProperty, UNCHANGED encodeVars
  PROVE  ReadInv'
<1> DEFINE written == file[pos]
           ch == chunks[pos]
           group == chunks[groupLookup[ch.class]]
<1>1. /\ phase = "codec" /\ header # NoHeader /\ header = FileHeader
      /\ Len(chunks) = Len(file) /\ Len(chunks) \in Nat
      /\ pos \in 1 .. Len(file) /\ pos \in 1 .. Len(chunks)
      /\ D!Current = ch /\ ch.sig = "PROP" /\ ReadAs(ch, written)
      /\ Groups /\ Made /\ link \in Nat
  BY CodecAt DEF D!DecodeProperty
<1>2. pos - 1 <= Len(chunks)
  BY <1>1
<1>3. /\ ch.class \in Nat /\ ch.class < Len(instChunks) /\ ch.kind \notin {"none", "nested"}
      /\ groupLookup[ch.class] \in 1 .. pos - 1
      /\ group \in InstChunks /\ group.sig = "INST"
      /\ Len(ch.values) = Len(group.ids)
  <2>1. written.sig = "PROP" /\ ch # D!Other
    BY <1>1 DEF ReadAs, IsPacked, D!Other
  <2>2. /\ written \in PropChunk /\ written.class \in Nat /\ written.class < Len(instChunks)
        /\ groupLookup[written.class] \in 1 .. pos - 1
        /\ chunks[groupLookup[written.class]] \in InstChunks
        /\ chunks[groupLookup[written.class]].sig = "INST"
        /\ Len(written.values) = Len(chunks[groupLookup[written.class]].ids)
    BY <1>1, <1>2, <2>1, ArrayRead
  <2>3. ch.class = written.class /\ Len(ch.values) = Len(written.values)
        /\ ch.kind \notin {"none", "nested"}
    <3> HIDE DEF ch, written
    <3>1. QED
      BY <1>1, <2>1, <2>2, ArrayAs
  <2>4. QED
    BY <2>2, <2>3
<1>4. groupLookup[ch.class] # 0
  BY <1>1, <1>3
<1>5. group.ids \in Seq(Ids)
  BY <1>3, InstParts
<1> HIDE DEF ch
<1>6. \A i \in DOMAIN group.ids : D!Exists(group.ids[i])
  <2>1. ASSUME NEW i \in DOMAIN group.ids PROVE D!Exists(group.ids[i])
    <3>1. MadeAt(groupLookup[ch.class], group.ids[i])
      BY <1>3 DEF MadeAt
    <3>2. group.ids[i] \in Ids
      BY <1>5
    <3>3. QED
      BY <1>1, <1>3, <3>1, <3>2 DEF Made, D!Exists
  <2>2. QED
    BY <2>1
<1>7. D!ClassInBounds(ch.class) /\ \A i : ~D!GivesNil(ch, i)
  BY <1>1, <1>3, HeaderDiffers DEF D!ClassInBounds, D!GivesNil
<1>8. D!SetProperties(ch, group.ids)
  BY <1>1, <1>3, <1>4, <1>6, <1>7 DEF D!DecodeProperty
<1>9. /\ pos' = pos + 1 /\ phase' = phase /\ warns' = warns /\ link' = link
      /\ header' = header /\ chunks' = chunks /\ groupLookup' = groupLookup
      /\ instLookup' = instLookup
  BY <1>8 DEF D!SetProperties, D!readVars
<1>10. pos' \in 1 .. Len(chunks) + 1 /\ pos \in Nat /\ chunks[pos].sig # "INST"
  BY <1>1, <1>9 DEF ch
<1>11. ReadSoFar' /\ Groups'
  BY <1>1, <1>9, <1>10, StepRead
<1>12. Made'
  BY <1>1, <1>9, <1>10, PassMade
<1>13. QED
  BY <1>11, <1>12 DEF ReadInv

(* The links: every child has a number, and that is in a group, which has  *)
(* been passed.                                                            *)
LEMMA LinksDecoded ==
  ASSUME TripInv, D!EnterParent \/ D!LinkChild, UNCHANGED encodeVars
  PROVE  ReadInv'
<1>1. /\ phase = "codec" /\ step = "done" /\ FileOK /\ NumbersConsistent
      /\ header # NoHeader /\ header = FileHeader
      /\ Len(chunks) = Len(file) /\ Len(chunks) \in Nat
      /\ pos \in 1 .. Len(file) /\ pos \in 1 .. Len(chunks)
      /\ D!Current = file[pos] /\ file[pos].sig = "PRNT"
      /\ Groups /\ Made /\ link \in Nat
  <2>1. D!At("PRNT")
    BY DEF D!EnterParent, D!LinkChild
  <2>2. QED
    BY <2>1, CodecAt
<1>2. /\ D!Current = ParentChunk /\ GroupsBefore(pos)
  BY <1>1 DEF FileOK
<1>3. /\ ParentChunk.version = 0
      /\ ParentChunk.children = [i \in DOMAIN links |-> links[i].child]
      /\ ParentChunk.parents = [i \in DOMAIN links |-> links[i].parent]
  BY DEF ParentChunk
<1>4. links \in Seq(Link) /\ instList \in Seq(Instances)
      /\ \A i \in DOMAIN links : links[i].child < Len(instList)
  BY DEF TripInv, TypeOK, ListTypeOK, LinkTypeOK
<1>5. Len(ParentChunk.parents) = Len(ParentChunk.children)
      /\ DOMAIN ParentChunk.children = DOMAIN links
  BY <1>3, <1>4
<1>6. /\ chunks' = chunks /\ header' = header /\ groupLookup' = groupLookup /\ warns' = warns
      /\ phase' = phase /\ pos' = pos /\ link' \in Nat /\ instLookup' = instLookup
  <2>1. CASE D!EnterParent
    <3>1. D!Current.version = 0 /\ Len(D!Current.parents) = Len(D!Current.children)
      BY <1>2, <1>3, <1>5
    <3>2. link' = 1 /\ UNCHANGED <<phase, warns, pos, D!readVars, D!treeVars>>
      BY <2>1, <3>1, Zenon DEF D!EnterParent
    <3>3. QED
      BY <3>2 DEF D!readVars, D!treeVars
  <2>2. CASE D!LinkChild
    <3> DEFINE child == ParentChunk.children[link]
    <3>1. link \in DOMAIN links /\ child = links[link].child
      BY <1>2, <1>3, <1>5, <2>2 DEF D!LinkChild
    <3>2. child \in Nat /\ child < Len(instList)
      <4>1. links[link] \in Link
        BY <1>4, <3>1
      <4>2. links[link].child # nilInstance
        BY <3>1 DEF TripInv, WriteInv, Walked
      <4>3. QED
        BY <1>4, <3>1, <4>1, <4>2 DEF Link
    <3> HIDE DEF child
    <3>3. D!IdInBounds(child)
      BY <1>1, <3>2, HeaderDiffers DEF D!IdInBounds
    <3>4. D!Exists(child)
      <4>1. child \in 0 .. Len(instList) - 1
        BY <1>4, <3>2
      <4>2. PICK k \in DOMAIN instChunks : \E i \in DOMAIN instChunks[k].ids : instChunks[k].ids[i] = child
        BY <1>1, <4>1 DEF NumbersConsistent, GroupsCover
      <4>3. PICK j \in 1 .. pos - 1 : file[j] = instChunks[k]
        BY <1>2 DEF GroupsBefore
      <4>4. pos - 1 \in Nat /\ pos - 1 <= Len(chunks)
        BY <1>1
      <4>5. chunks[j] = instChunks[k] /\ chunks[j].sig = "INST" /\ chunks[j] \in InstChunks
        BY <1>1, <4>3, <4>4, GroupRead
      <4>6. chunks[j].ids \in Seq(Ids)
        BY <4>5, InstParts
      <4>7. MadeAt(j, child) /\ child \in Ids
        BY <4>2, <4>5, <4>6 DEF MadeAt
      <4>8. QED
        BY <1>1, <4>3, <4>7 DEF Made, D!Exists
    <3>5. QED
      BY <1>1, <1>2, <2>2, <3>3, <3>4 DEF D!LinkChild, D!readVars, child
  <2>3. QED
    BY <2>1, <2>2
<1>7. pos' \in 1 .. Len(chunks) + 1 /\ pos \in Nat
  BY <1>1, <1>6
<1>8. ReadSoFar' /\ Groups'
  BY <1>1, <1>6, <1>7, StepRead
<1>9. Made'
  BY <1>1, <1>6, <1>7, PassMade
<1>10. QED
  BY <1>8, <1>9 DEF ReadInv

-------------------------------------------------------------------------------

(* The invariant of the trip.                                              *)
LEMMA TripStart ==
  ASSUME TripInit
  PROVE  TripInv
<1>1. TypeOK /\ EncodeInv /\ WriteInv
  BY EncodeStart, WriteInvStart DEF TripInit
<1>2. /\ phase = "header" /\ chunks = <<>> /\ groupLookup = [class \in ClassIDs |-> 0]
      /\ warns = {} /\ pos = 1 /\ link = 0 /\ instLookup = [id \in Ids |-> 0]
      /\ header = NoHeader
  BY DEF TripInit, D!Init
<1>3. ReadSoFar /\ Groups /\ Made
  BY <1>2 DEF ReadSoFar, Groups, Made
<1>4. QED
  BY <1>1, <1>3 DEF TripInv, ReadInv

LEMMA TripStep ==
  ASSUME TripInv, [TripNext]_tripVars
  PROVE  TripInv'
<1>1. CASE Encode
  <2>1. TypeOK' /\ EncodeInv'
    BY <1>1, EncodeStep DEF Encode, TripInv
  <2>2. WriteInv'
    BY <1>1, WriteInvStep DEF Encode, TripInv
  <2>3. ReadInv'
    BY <1>1, UnwrittenStays DEF Encode, TripInv
  <2>4. QED
    BY <2>1, <2>2, <2>3 DEF TripInv
<1>2. ASSUME UNCHANGED encodeVars, ReadInv' PROVE TripInv'
  BY <1>2, EncodeStep, WriteInvStays DEF TripInv
<1>3. CASE WriteFile
  BY <1>2, <1>3, WriteFileRead DEF WriteFile
<1>4. CASE ReadHeader
  BY <1>2, <1>4, HeaderRead DEF ReadHeader
<1>5. CASE ReadChunk
  BY <1>2, <1>5, ChunkRead DEF ReadChunk
<1>6. CASE Decode
  BY <1>2, <1>6, GroupDecoded, ArrayDecoded, LinksDecoded, OtherDecoded DEF Decode
<1>7. CASE UNCHANGED tripVars
  <2>1. UNCHANGED encodeVars /\ UNCHANGED decodeVars
    BY <1>7 DEF tripVars
  <2>2. ReadSoFar'
    BY <2>1, FileStays DEF TripInv, ReadInv
  <2>3. Groups' /\ Made'
    BY <2>1 DEF decodeVars, TripInv, ReadInv, Groups, Made, MadeAt
  <2>4. QED
    BY <1>2, <2>1, <2>2, <2>3 DEF ReadInv
<1>8. QED
  BY <1>1, <1>3, <1>4, <1>5, <1>6, <1>7 DEF TripNext, Returned

LEMMA TripClean ==
  ASSUME TripInv
  PROVE  DecodesCleanly
<1>1. /\ phase # "error" /\ phase # "panic" /\ warns \subseteq {"chunk"}
      /\ \A i \in DOMAIN chunks : chunks[i] = file[i] \/ IsPacked(file[i])
      /\ warns # {} => \E i \in DOMAIN chunks : IsPacked(file[i]) /\ chunks[i] = D!Other
  <2>1. CASE header = NoHeader
    <3>1. phase = "header" /\ warns = {} /\ chunks = <<>>
      BY <2>1 DEF TripInv, ReadInv, ReadSoFar
    <3>2. QED
      BY <3>1
  <2>2. CASE header # NoHeader
    <3>1. DOMAIN chunks = 1 .. Len(chunks)
      BY <2>2 DEF TripInv, ReadInv, ReadSoFar
    <3>2. QED
      BY <2>2, <3>1 DEF TripInv, ReadInv, ReadSoFar, ReadAs
  <2>3. QED
    BY <2>1, <2>2
<1>2. ASSUME phase = "chunks", Len(chunks) < Len(file), file[Len(chunks) + 1].sig = "PROP"
      PROVE  LET next == file[Len(chunks) + 1] IN
             /\ groupLookup[next.class] # 0
             /\ Len(next.values) = Len(chunks[groupLookup[next.class]].ids)
  <2> DEFINE at == Len(chunks) + 1
  <2>1. header # NoHeader /\ step = "done" /\ chunks \in Seq(ReadChunks)
    BY <1>2 DEF TripInv, ReadInv, ReadSoFar
  <2>2. FileOK
    BY <2>1, FileFacts DEF TripInv, WriteInv
  <2>3. at \in 1 .. Len(file) /\ at - 1 <= Len(chunks) /\ file[at].sig = "PROP"
    BY <1>2, <2>1, <2>2 DEF FileOK
  <2>4. groupLookup[file[at].class] \in 1 .. at - 1
        /\ Len(file[at].values) = Len(chunks[groupLookup[file[at].class]].ids)
    <3> HIDE DEF at
    <3>1. QED
      BY <2>1, <2>3, ArrayRead
  <2>5. \A i \in 1 .. at - 1 : i # 0
    BY <2>1
  <2>6. QED
    BY <2>4, <2>5
<1>3. QED
  BY <1>1, <1>2 DEF DecodesCleanly, NextDecodes

(* Whatever tree is encoded, its file is read and decoded without an error *)
(* (rbxl/codec.go:426-740, 39-190): the ids are in bounds and new, the     *)
(* groups in place, the arrays of their length and the children there.     *)
(* Every chunk is read as it was written but the optional arrays of        *)
(* interleaved types (rbxl/arrays.go:1454), and a warning is one of those. *)
THEOREM AlwaysDecodesCleanly == TripSpec => []DecodesCleanly
<1>1. TripInit => TripInv
  BY TripStart
<1>2. TripInv /\ [TripNext]_tripVars => TripInv'
  BY TripStep
<1>3. TripInv => DecodesCleanly
  BY TripClean
<1>4. QED
  BY <1>1, <1>2, <1>3, PTL DEF TripSpec

-------------------------------------------------------------------------------
(* Who is in the tree.                                                     *)

(* What is listed or is to be listed is in the tree.                       *)
InTree ==
  /\ \A i \in DOMAIN todo : todo[i] = Nil \/ todo[i] \in T!Tree
  /\ \A i \in DOMAIN instList : instList[i] \in T!Tree

LEMMA TreeParts ==
  ASSUME root \in Roots
  PROVE  /\ \A i \in DOMAIN root.instances : root.instances[i] = Nil \/ root.instances[i] \in T!Tree
         /\ \A inst \in T!Tree : \A i \in DOMAIN root.children[inst] :
              root.children[inst][i] = Nil \/ root.children[inst][i] \in T!Tree
         /\ T!Tree \subseteq Instances
<1>1. root.instances \in Seq(Instances \cup {Nil})
      /\ root.children \in [Instances -> Seq(Instances \cup {Nil})]
  BY RootParts
<1>2. ASSUME NEW i \in DOMAIN root.instances, root.instances[i] # Nil
      PROVE  root.instances[i] \in T!Tree
  <2>1. root.instances[i] \in Instances
    BY <1>1, <1>2
  <2>2. \A S \in SUBSET Instances : T!Closed(S) => root.instances[i] \in S
    BY <1>2 DEF T!Closed, T!Elements
  <2>3. QED
    BY <2>1, <2>2 DEF T!Tree
<1>3. ASSUME NEW inst \in T!Tree, NEW i \in DOMAIN root.children[inst], root.children[inst][i] # Nil
      PROVE  root.children[inst][i] \in T!Tree
  <2>1. inst \in Instances /\ \A S \in SUBSET Instances : T!Closed(S) => inst \in S
    BY <1>3 DEF T!Tree
  <2>2. root.children[inst] \in Seq(Instances \cup {Nil})
    BY <1>1, <2>1
  <2>3. root.children[inst][i] \in Instances
    BY <1>3, <2>2
  <2>4. \A S \in SUBSET Instances : T!Closed(S) => root.children[inst][i] \in S
    BY <1>3, <2>1 DEF T!Closed, T!Elements
  <2>5. QED
    BY <2>3, <2>4 DEF T!Tree
<1>4. QED
  BY <1>2, <1>3 DEF T!Tree

(* The tree depends on the root alone.                                     *)
LEMMA TreeStays ==
  ASSUME root' = root
  PROVE  /\ T!Tree' = T!Tree /\ (T!Sound)' = T!Sound
         /\ \A p : T!ListOf(p)' = T!ListOf(p)
<1>1. T!Tree' = T!Tree
  BY DEF T!Tree, T!Closed, T!Elements
<1>2. \A p : T!ListOf(p)' = T!ListOf(p)
  BY DEF T!ListOf
<1>3. T!Places' = T!Places /\ \A p : T!At(p)' = T!At(p)
  BY <1>1, <1>2 DEF T!Places, T!At
<1>4. T!ClassesInTree' = T!ClassesInTree /\ (\A c, n : T!Holders(c, n)' = T!Holders(c, n))
      /\ \A i, n : T!Value(i, n)' = T!Value(i, n)
  BY <1>1 DEF T!ClassesInTree, T!Holders, T!Has, T!Value
<1>5. (T!Sound)' = T!Sound
  BY <1>3, <1>4 DEF T!Sound, T!IsOptional
<1>6. QED
  BY <1>1, <1>2, <1>5

(* The list is the tree when it is done.                                   *)
LEMMA TreeListed ==
  ASSUME TypeOK, InTree, Reached, step \notin {"list", "panic"}
  PROVE  T!Tree = Written /\ \A x : x \in T!Tree <=> Listed(x)
<1>1. root \in Roots /\ instList \in Seq(Instances) /\ todo = <<>>
  BY DEF TypeOK, ListTypeOK, Reached
<1>2. \A x : Settled(x) => x = Nil \/ x \in Written
  BY <1>1 DEF Settled, Listed, Written
<1>3. T!Closed(Written)
  <2>1. T!Elements(root.instances) \ {Nil} \subseteq Written
    BY <1>2 DEF Reached, T!Elements
  <2>2. ASSUME NEW inst \in Written PROVE T!Elements(root.children[inst]) \ {Nil} \subseteq Written
    <3>1. PICK k \in DOMAIN instList : instList[k] = inst
      BY DEF Written
    <3>2. \A i \in DOMAIN root.children[inst] : Settled(root.children[inst][i])
      BY <3>1 DEF Reached
    <3>3. QED
      BY <1>2, <3>2 DEF T!Elements
  <2>3. QED
    BY <2>1, <2>2 DEF T!Closed
<1>4. Written \subseteq Instances
  BY <1>1 DEF Written
<1>5. T!Tree \subseteq Written
  BY <1>3, <1>4 DEF T!Tree
<1>6. Written \subseteq T!Tree
  BY DEF InTree, Written
<1>7. \A x : x \in Written <=> Listed(x)
  BY DEF Written, Listed
<1>8. QED
  BY <1>5, <1>6, <1>7

LEMMA InTreeStart ==
  ASSUME Init
  PROVE  InTree
BY TreeParts DEF Init, InTree

LEMMA InTreeStep ==
  ASSUME TypeOK, InTree, Next
  PROVE  InTree'
<1>1. CASE ~AddInstance
  <2>1. root' = root /\ todo' = todo /\ instList' = instList
    BY <1>1, Moves DEF AllFilled, Still, WriteChunks, EnterInstance, LeaveInstance
  <2>2. QED
    BY <2>1, TreeStays DEF InTree
<1>2. CASE AddInstance
  <2> DEFINE inst == Head(todo)
  <2>1. /\ root \in Roots /\ todo \in Seq(Instances \cup {Nil}) /\ instList \in Seq(Instances)
        /\ todo # <<>> /\ root' = root
    BY <1>2 DEF TypeOK, ListTypeOK, AddInstance
  <2>2. T!Tree' = T!Tree
    BY <2>1, TreeStays
  <2>3. inst \in Instances \cup {Nil} /\ Tail(todo) \in Seq(Instances \cup {Nil})
        /\ (inst = Nil \/ inst \in T!Tree)
        /\ \A i \in DOMAIN Tail(todo) : Tail(todo)[i] = Nil \/ Tail(todo)[i] \in T!Tree
    <3>1. inst = todo[1] /\ 1 \in DOMAIN todo
      BY <2>1
    <3>2. \A i \in DOMAIN Tail(todo) : i + 1 \in DOMAIN todo /\ Tail(todo)[i] = todo[i + 1]
      BY <2>1
    <3>3. QED
      BY <2>1, <3>1, <3>2 DEF InTree
  <2>4. CASE Seen(inst)
    <3>1. todo' = Tail(todo) /\ instList' = instList
      BY <1>2, <2>4 DEF AddInstance
    <3>2. QED
      BY <2>2, <2>3, <3>1 DEF InTree
  <2>5. CASE ~Seen(inst)
    <3>1. instList' = Append(instList, inst) /\ todo' = root.children[inst] \o Tail(todo)
      BY <1>2, <2>5 DEF AddInstance, Calls
    <3>2. inst \in T!Tree /\ inst \in Instances
      BY <2>3, <2>5 DEF Seen
    <3> DEFINE kids == root.children[inst]
               rest == Tail(todo)
    <3>3. kids \in Seq(Instances \cup {Nil})
          /\ \A i \in DOMAIN kids : kids[i] = Nil \/ kids[i] \in T!Tree
      BY <2>1, <3>2, RootParts, TreeParts
    <3>4. rest \in Seq(Instances \cup {Nil}) /\ todo' = kids \o rest
          /\ \A i \in DOMAIN rest : rest[i] = Nil \/ rest[i] \in T!Tree
      BY <2>3, <3>1
    <3> HIDE DEF inst, kids, rest
    <3>5. ASSUME NEW i \in DOMAIN todo' PROVE todo'[i] = Nil \/ todo'[i] \in T!Tree
      <4>1. /\ i \in 1 .. Len(kids) + Len(rest) /\ DOMAIN kids = 1 .. Len(kids)
            /\ DOMAIN rest = 1 .. Len(rest) /\ Len(kids) \in Nat /\ Len(rest) \in Nat
            /\ \A j \in 1 .. Len(kids) : todo'[j] = kids[j]
            /\ \A j \in 1 .. Len(rest) : todo'[Len(kids) + j] = rest[j]
        BY <3>3, <3>4, <3>5, Joined
      <4>2. CASE i \in 1 .. Len(kids)
        BY <3>3, <4>1, <4>2
      <4>3. CASE i > Len(kids)
        <5>1. i - Len(kids) \in 1 .. Len(rest) /\ Len(kids) + (i - Len(kids)) = i
          BY <4>1, <4>3
        <5>2. todo'[i] = rest[i - Len(kids)]
          BY <4>1, <5>1
        <5>3. QED
          BY <3>4, <4>1, <5>1, <5>2
      <4>4. QED
        BY <4>1, <4>2, <4>3
    <3>6. \A i \in DOMAIN instList' : instList'[i] \in T!Tree
      <4>1. \A i \in DOMAIN instList : instList[i] \in T!Tree
        BY DEF InTree
      <4>2. QED
        BY <2>1, <3>1, <3>2, <4>1, Appended
    <3>7. QED
      BY <2>2, <3>5, <3>6 DEF InTree
  <2>6. QED
    BY <2>4, <2>5
<1>3. QED
  BY <1>1, <1>2

-------------------------------------------------------------------------------
(* Groups of one class, in the order of the classes.                       *)

GroupClass(k) == ClassOf(instChunks[k].ids[1])
Sorted ==
  /\ \A k \in DOMAIN instChunks :
       /\ instChunks[k].ids # <<>> /\ GroupClass(k) \in Classes
       /\ \A i \in DOMAIN instChunks[k].ids : ClassOf(instChunks[k].ids[i]) = GroupClass(k)
       /\ \A c \in Waiting : GroupClass(k) < c
  /\ \A k, l \in DOMAIN instChunks : k < l => GroupClass(k) < GroupClass(l)

LEMMA NextGroupSorted ==
  ASSUME TypeOK, EncodeInv, Sorted, NEW class \in Classes, NextGroup(class)
  PROVE  Sorted'
<1> DEFINE ids == instChunkMap[class]
           new == InstChunkOf(ids)
<1>1. /\ class \in Waiting /\ \A c \in Waiting : class <= c
      /\ instChunks' = Append(instChunks, new)
      /\ instChunkMap' = [instChunkMap EXCEPT ![class] = <<>>]
      /\ root' = root /\ instList' = instList
  BY DEF NextGroup, IsLeast
<1>2. /\ instChunkMap \in [Classes -> Seq(Nat)] /\ ids \in Seq(Nat) /\ ids # <<>>
      /\ instChunks \in Seq(InstChunk) /\ Len(instChunks) \in Nat
  BY <1>1 DEF TypeOK, GroupTypeOK, Waiting
<1>3. new.ids = ids
  BY <1>2, InstChunkType
<1>4. 1 \in DOMAIN ids /\ \A i \in DOMAIN ids : ClassOf(ids[i]) = class
  BY <1>2 DEF EncodeInv, Grouped
<1> HIDE DEF new
<1>5. /\ DOMAIN instChunks' = 1 .. Len(instChunks) + 1
      /\ DOMAIN instChunks = 1 .. Len(instChunks)
      /\ \A k \in 1 .. Len(instChunks) : instChunks'[k] = instChunks[k]
      /\ instChunks'[Len(instChunks) + 1] = new
  BY <1>1, <1>2, Appended
<1>6. Waiting' = Waiting \ {class}
  BY <1>1, <1>2 DEF Waiting
<1>7. \A id : ClassOf(id)' = ClassOf(id)
  BY <1>1 DEF ClassOf, InstanceAt
<1>8. \A k \in 1 .. Len(instChunks) : GroupClass(k)' = GroupClass(k)
  BY <1>5, <1>7 DEF GroupClass
<1>14. PICK n \in Nat : n = Len(instChunks) + 1
  BY <1>2
<1>9. GroupClass(n)' = class
  BY <1>3, <1>4, <1>5, <1>7, <1>14 DEF GroupClass
<1>10. Classes \subseteq Nat /\ Waiting \subseteq Classes
  BY EncodeAssumption DEF Waiting
<1>11. ASSUME NEW k \in 1 .. Len(instChunks) + 1
       PROVE  /\ instChunks'[k].ids # <<>> /\ GroupClass(k)' \in Classes
              /\ \A i \in DOMAIN instChunks'[k].ids : ClassOf(instChunks'[k].ids[i]) = GroupClass(k)'
              /\ \A c \in Waiting' : GroupClass(k)' < c
  <2>1. CASE k \in 1 .. Len(instChunks)
    BY <2>1, <1>5, <1>6, <1>8 DEF Sorted
  <2>2. CASE k = Len(instChunks) + 1
    <3>1. \A c \in Waiting' : class < c
      BY <1>1, <1>6, <1>10
    <3>2. QED
      BY <2>2, <3>1, <1>2, <1>3, <1>4, <1>5, <1>9, <1>14
  <2>3. QED
    BY <2>1, <2>2, <1>2
<1>12. ASSUME NEW k \in 1 .. Len(instChunks) + 1, NEW l \in 1 .. Len(instChunks) + 1, k < l
       PROVE  GroupClass(k)' < GroupClass(l)'
  <2>1. k \in 1 .. Len(instChunks)
    BY <1>2, <1>12
  <2>2. CASE l \in 1 .. Len(instChunks)
    BY <2>1, <2>2, <1>5, <1>8, <1>12 DEF Sorted
  <2>3. CASE l = Len(instChunks) + 1
    BY <2>1, <2>3, <1>1, <1>5, <1>8, <1>9, <1>14 DEF Sorted
  <2>4. QED
    BY <2>2, <2>3, <1>2
<1>13. QED
  BY <1>5, <1>7, <1>11, <1>12 DEF Sorted

(* The other steps keep the groups and what waits, once there is a group.  *)
LEMMA SortedStep ==
  ASSUME TypeOK, EncodeInv, Sorted, Next
  PROVE  Sorted'
<1>1. CASE \E class \in Classes : NextGroup(class)
  BY <1>1, NextGroupSorted
<1>2. CASE AddInstance \/ GroupInstance
  <2>1. instChunks = <<>> /\ instChunks' = instChunks
    BY <1>2 DEF EncodeInv, Stages, AddInstance, GroupInstance
  <2>2. QED
    BY <2>1 DEF Sorted
<1>3. CASE ~(\E class \in Classes : NextGroup(class)) /\ ~AddInstance /\ ~GroupInstance
  <2>1. UNCHANGED <<root, instList, instChunkMap, instChunks>>
    BY <1>3 DEF Next, AllListed, AllGrouped, CheckProperty, Crash, AllChecked, StartProperty,
                FillValue, GroupDone, AllFilled, EnterInstance, LeaveInstance, WriteChunks
  <2>2. \A id : ClassOf(id)' = ClassOf(id)
    BY <2>1 DEF ClassOf, InstanceAt
  <2>3. QED
    BY <2>1, <2>2 DEF Sorted, GroupClass, Waiting
<1>4. QED
  BY <1>1, <1>2, <1>3

-------------------------------------------------------------------------------
(* The values of a group.                                                  *)

ValueIn(k, i, name) == Property(instChunks[k].ids[i], name)
HoldersIn(k, name) == {i \in DOMAIN instChunks[k].ids : ValueIn(k, i, name) # Absent}

(* The types of all that have the property are t.                          *)
Agreed(k, name, t) ==
  /\ HoldersIn(k, name) # {}
  /\ t = "unique" => root.mode = "place"
  /\ \A i \in HoldersIn(k, name) : TypeOf(ValueIn(k, i, name)) = t
  /\ t = "optional" => \A i \in HoldersIn(k, name), j \in HoldersIn(k, name) :
                         ValueIn(k, i, name).inner = ValueIn(k, j, name).inner

(* Optionals of two types.                                                 *)
Clash(k, name) ==
  \E i, j \in HoldersIn(k, name) :
    /\ TypeOf(ValueIn(k, i, name)) = "optional" /\ TypeOf(ValueIn(k, j, name)) = "optional"
    /\ ValueIn(k, i, name).inner # ValueIn(k, j, name).inner

(* T!Kept for the class of a group.                                        *)
KeptIn(k, name) ==
  /\ HoldersIn(k, name) # {}
  /\ \A i, j \in HoldersIn(k, name) : SameType(ValueIn(k, i, name), ValueIn(k, j, name))
  /\ root.mode = "place" \/ \A i \in HoldersIn(k, name) : ValueIn(k, i, name).type # "unique"

HasArray(k, name) ==
  \E p \in DOMAIN propChunks : propChunks[p].class + 1 = k /\ propChunks[p].name = name

(* What the check of a property has left for it.                           *)
Verdict(name) ==
  /\ name \in unchecked => propChunkMap[name] = "nil"
  /\ name \notin unchecked /\ propChunkMap[name] = "nil" => Clash(Len(instChunks), name)
  /\ propChunkMap[name] \notin {"nil", "none"} => Agreed(Len(instChunks), name, propChunkMap[name])
  /\ propChunkMap[name] = "none" /\ KeptIn(Len(instChunks), name) => HasArray(Len(instChunks), name)
  /\ propChunkMap[name] # "none" => ~HasArray(Len(instChunks), name)

(* The kind of an array is that of all its values.                         *)
KindOf(v) ==
  IF TypeOf(v) = "optional" THEN IF v.inner \in Interleaved THEN "packed" ELSE "optional"
  ELSE IF TypeOf(v) = "unique" THEN "value" ELSE TypeOf(v)
AsKind(k, name, kind) == \A i \in HoldersIn(k, name) : kind = KindOf(ValueIn(k, i, name))
Typed(p) ==
  \E t \in Types : Agreed(propChunks[p].class + 1, propChunks[p].name, t)
                   /\ AsKind(propChunks[p].class + 1, propChunks[p].name, propChunks[p].kind)
Verdicts ==
  /\ step \in {"check", "fill"} => \A name \in Names : Verdict(name)
  /\ step = "fill" => unchecked = {}
  /\ \A p \in DOMAIN propChunks : Typed(p)
  /\ \A p, q \in DOMAIN propChunks :
       propChunks[p].class = propChunks[q].class /\ propChunks[p].name = propChunks[q].name => p = q
  /\ \A k \in DOMAIN instChunks, name \in Names :
       (k < Len(instChunks) \/ step \notin {"check", "fill", "panic"}) /\ KeptIn(k, name) => HasArray(k, name)

(* The definitions of the encoder are about the last group.                *)
LEMMA LastGroup ==
  ASSUME TypeOK, EncodeInv, instChunks # <<>>
  PROVE  /\ \A name : Holders(name) = HoldersIn(Len(instChunks), name)
         /\ \A i, name : ValueAt(i, name) = ValueIn(Len(instChunks), i, name)
BY GroupParts DEF Holders, HoldersIn, ValueAt, ValueIn

(* Least elements of the two sets the check looks at.                      *)
LEMMA FirstIs ==
  ASSUME TypeOK, EncodeInv, instChunks # <<>>, NEW name \in Names, Holders(name) # {}
  PROVE  /\ \E i \in Holders(name) : First(name) = ValueAt(i, name)
         /\ Odd(name) # {} => \E i \in Odd(name) : FirstOdd(name) = ValueAt(i, name)
<1>1. Holders(name) \in SUBSET Nat /\ Odd(name) \in SUBSET Nat
  BY GroupParts DEF Holders, Odd
<1>2. \E i \in Holders(name) : IsLeast(i, Holders(name))
  BY <1>1, LeastExists
<1>3. Odd(name) # {} => \E i \in Odd(name) : IsLeast(i, Odd(name))
  BY <1>1, LeastExists
<1>4. QED
  BY <1>2, <1>3 DEF First, FirstOdd

(* What a check finds is so.                                               *)
LEMMA CheckedVerdict ==
  ASSUME TypeOK, EncodeInv, instChunks # <<>>, NEW name \in Names, Holders(name) # {},
         NEW k, k = Len(instChunks)
  PROVE  /\ Checked(name) = "nil" => Clash(k, name)
         /\ Checked(name) \notin {"nil", "none"} => Agreed(k, name, Checked(name))
         /\ Checked(name) = "none" => ~KeptIn(k, name)
<1>1. HoldersIn(k, name) = Holders(name) /\ \A i : ValueIn(k, i, name) = ValueAt(i, name)
  BY LastGroup
<1>2. PICK f \in Holders(name) : First(name) = ValueAt(f, name)
  BY FirstIs
<1>3. TypeOf(First(name)) \in Types /\ "nil" \notin Types /\ "none" \notin Types
  BY FirstType DEF Types
<1>4. CASE PlaceOnly(name)
  <2>1. Checked(name) = "none"
    BY <1>4 DEF Checked
  <2>2. ValueAt(f, name).type = "unique" /\ root.mode # "place"
    BY <1>2, <1>4 DEF PlaceOnly, TypeOf
  <2>3. QED
    BY <1>1, <2>1, <2>2 DEF KeptIn
<1>5. CASE ~PlaceOnly(name) /\ Odd(name) = {}
  <2>1. Checked(name) = TypeOf(First(name))
    BY <1>5 DEF Checked
  <2>2. \A i \in Holders(name) : SameType(ValueAt(i, name), First(name))
                                 /\ SameInner(ValueAt(i, name), First(name))
    BY <1>5 DEF Odd
  <2>3. \A i \in Holders(name) : TypeOf(ValueAt(i, name)) = TypeOf(First(name))
    BY <2>2 DEF SameType
  <2>4. TypeOf(First(name)) = "optional" =>
          \A i \in Holders(name) : ValueAt(i, name).inner = First(name).inner
    BY <2>2, <2>3 DEF SameInner
  <2>5. TypeOf(First(name)) = "unique" => root.mode = "place"
    BY <1>5 DEF PlaceOnly
  <2>6. Agreed(k, name, TypeOf(First(name)))
    BY <1>1, <1>2, <2>3, <2>4, <2>5 DEF Agreed
  <2>7. QED
    BY <2>1, <2>6, <1>3
<1>6. CASE ~PlaceOnly(name) /\ Odd(name) # {} /\ ~SameType(FirstOdd(name), First(name))
  <2>1. Checked(name) = "none"
    BY <1>6 DEF Checked
  <2>2. PICK i \in Odd(name) : FirstOdd(name) = ValueAt(i, name)
    BY <1>6, FirstIs
  <2>3. i \in Holders(name)
    BY DEF Odd
  <2>4. ~KeptIn(k, name)
    BY <1>1, <1>2, <1>6, <2>2, <2>3 DEF KeptIn
  <2>5. QED
    BY <2>1, <2>4
<1>7. CASE ~PlaceOnly(name) /\ Odd(name) # {} /\ SameType(FirstOdd(name), First(name))
  <2>1. Checked(name) = "nil"
    BY <1>7 DEF Checked
  <2>2. PICK i \in Odd(name) : FirstOdd(name) = ValueAt(i, name)
    BY <1>7, FirstIs
  <2>3. i \in Holders(name) /\ ~SameInner(ValueAt(i, name), First(name))
    BY <2>2, <1>7 DEF Odd
  <2>4. TypeOf(ValueAt(i, name)) = "optional" /\ ValueAt(i, name).inner # First(name).inner
        /\ TypeOf(First(name)) = "optional"
    BY <2>2, <2>3, <1>7 DEF SameInner, SameType
  <2>5. Clash(k, name)
    BY <1>1, <1>2, <2>3, <2>4 DEF Clash
  <2>6. QED
    BY <2>1, <2>5
<1>8. QED
  BY <1>4, <1>5, <1>6, <1>7

(* A group stays what it is.                                               *)
LEMMA GroupKept ==
  ASSUME root' = root, instList' = instList, NEW k, instChunks'[k].ids = instChunks[k].ids
  PROVE  /\ \A i, n : ValueIn(k, i, n)' = ValueIn(k, i, n)
         /\ \A n : HoldersIn(k, n)' = HoldersIn(k, n)
         /\ \A n, t : Agreed(k, n, t)' <=> Agreed(k, n, t)
         /\ \A n : Clash(k, n)' <=> Clash(k, n)
         /\ \A n : KeptIn(k, n)' <=> KeptIn(k, n)
         /\ \A n, kind : AsKind(k, n, kind)' <=> AsKind(k, n, kind)
<1>1. \A i, n : ValueIn(k, i, n)' = ValueIn(k, i, n)
  BY DEF ValueIn, Property, InstanceAt
<1>2. \A n : HoldersIn(k, n)' = HoldersIn(k, n)
  BY <1>1 DEF HoldersIn
<1>3. \A n, t : Agreed(k, n, t)' <=> Agreed(k, n, t)
  BY <1>1, <1>2 DEF Agreed
<1>4. \A n : Clash(k, n)' <=> Clash(k, n)
  BY <1>1, <1>2 DEF Clash
<1>5. \A n : KeptIn(k, n)' <=> KeptIn(k, n)
  BY <1>1, <1>2 DEF KeptIn
<1>6. \A n, kind : AsKind(k, n, kind)' <=> AsKind(k, n, kind)
  BY <1>1, <1>2 DEF AsKind
<1>7. QED
  BY <1>1, <1>2, <1>3, <1>4, <1>5, <1>6

(* The arrays that are there keep their class, their name and their kind.  *)
ArraysStay ==
  /\ root' = root /\ instList' = instList /\ instChunks' = instChunks
  /\ DOMAIN propChunks' = DOMAIN propChunks
  /\ \A p \in DOMAIN propChunks :
       /\ propChunks'[p].class = propChunks[p].class /\ propChunks'[p].name = propChunks[p].name
       /\ propChunks'[p].kind = propChunks[p].kind

LEMMA ArraysStayInv ==
  ASSUME TypeOK, Verdicts, ArraysStay,
         step' \in {"check", "fill"} => \A name \in Names : Verdict(name)',
         step' = "fill" => unchecked' = {},
         \A name \in Names, k \in DOMAIN instChunks :
           k = Len(instChunks) /\ step' \notin {"check", "fill", "panic"}
             /\ step \in {"check", "fill", "panic"} /\ KeptIn(k, name) => HasArray(k, name)
  PROVE  Verdicts'
<1>1. \A k : /\ \A n, t : Agreed(k, n, t)' <=> Agreed(k, n, t)
             /\ \A n : KeptIn(k, n)' <=> KeptIn(k, n)
             /\ \A n : HasArray(k, n)' <=> HasArray(k, n)
             /\ \A n, kind : AsKind(k, n, kind)' <=> AsKind(k, n, kind)
  <2>1. \A k, n : HasArray(k, n)' <=> HasArray(k, n)
    BY DEF HasArray, ArraysStay
  <2>2. QED
    BY <2>1, GroupKept DEF ArraysStay
<1>2. \A p \in DOMAIN propChunks' : Typed(p)'
  <2> SUFFICES ASSUME NEW p \in DOMAIN propChunks
               PROVE  Typed(p)'
    BY DEF ArraysStay
  <2>1. PICK t \in Types :
          /\ Agreed(propChunks[p].class + 1, propChunks[p].name, t)
          /\ AsKind(propChunks[p].class + 1, propChunks[p].name, propChunks[p].kind)
    BY DEF Verdicts, Typed
  <2>2. PICK k, n, kind : /\ k = propChunks[p].class + 1 /\ n = propChunks[p].name
                          /\ kind = propChunks[p].kind
    OBVIOUS
  <2>3. Agreed(k, n, t)' /\ AsKind(k, n, kind)'
    BY <1>1, <2>1, <2>2
  <2>4. propChunks'[p].class + 1 = k /\ propChunks'[p].name = n /\ propChunks'[p].kind = kind
    BY <2>2 DEF ArraysStay
  <2>5. QED
    BY <2>3, <2>4 DEF Typed, Agreed, AsKind, HoldersIn, ValueIn
<1>3. \A p, q \in DOMAIN propChunks' :
       propChunks'[p].class = propChunks'[q].class /\ propChunks'[p].name = propChunks'[q].name => p = q
  BY DEF Verdicts, ArraysStay
<1>4. \A k \in DOMAIN instChunks', name \in Names :
       (k < Len(instChunks') \/ step' \notin {"check", "fill", "panic"}) /\ KeptIn(k, name)'
         => HasArray(k, name)'
  <2> SUFFICES ASSUME NEW k \in DOMAIN instChunks, NEW name \in Names, KeptIn(k, name),
                      k < Len(instChunks) \/ step' \notin {"check", "fill", "panic"}
               PROVE  HasArray(k, name)
    BY <1>1 DEF ArraysStay
  <2>1. instChunks \in Seq(InstChunk)
    BY DEF TypeOK, GroupTypeOK
  <2>2. k < Len(instChunks) \/ k = Len(instChunks)
    BY <2>1
  <2>3. CASE k < Len(instChunks) \/ step \notin {"check", "fill", "panic"}
    BY <2>3 DEF Verdicts
  <2>4. CASE k = Len(instChunks) /\ step \in {"check", "fill", "panic"}
                                 /\ step' \notin {"check", "fill", "panic"}
    BY <2>4
  <2>5. QED
    BY <2>2, <2>3, <2>4
<1>5. QED
  BY <1>2, <1>3, <1>4 DEF Verdicts

(* Before there is a group there is nothing to say.                        *)
LEMMA EmptyVerdicts ==
  ASSUME instChunks = <<>>, propChunks = <<>>, step \notin {"check", "fill"}
  PROVE  Verdicts
BY DEF Verdicts

(* A group begins with all names unchecked that have a holder.             *)
LEMMA NextGroupVerdicts ==
  ASSUME TypeOK, EncodeInv, Verdicts, NEW class \in Classes, NextGroup(class)
  PROVE  Verdicts'
<1> DEFINE ids == instChunkMap[class]
           named == {name \in Names : \E i \in DOMAIN ids : Property(ids[i], name) # Absent}
           new == InstChunkOf(ids)
<1>1. /\ step = "sort" /\ step' = "check" /\ class \in Waiting
      /\ instChunks' = Append(instChunks, new)
      /\ unchecked' = named
      /\ propChunkMap' = [name \in Names |-> IF name \in named THEN "nil" ELSE "none"]
      /\ root' = root /\ instList' = instList /\ propChunks' = propChunks
  BY DEF NextGroup, IsLeast
<1>2. /\ instChunkMap \in [Classes -> Seq(Nat)] /\ ids \in Seq(Nat)
      /\ instChunks \in Seq(InstChunk) /\ Len(instChunks) \in Nat
  BY <1>1 DEF TypeOK, GroupTypeOK, Waiting
<1>3. new.ids = ids
  BY <1>2, InstChunkType
<1> HIDE DEF new
<1>4. PICK n \in Nat : n = Len(instChunks) + 1
  BY <1>2
<1>5. /\ DOMAIN instChunks' = 1 .. n /\ Len(instChunks') = n
      /\ DOMAIN instChunks = 1 .. n - 1
      /\ \A k \in 1 .. n - 1 : instChunks'[k] = instChunks[k]
      /\ instChunks'[n] = new
  BY <1>1, <1>2, <1>4, Appended
<1>6. \A p \in DOMAIN propChunks : propChunks[p].class + 1 \in 1 .. n - 1
  BY <1>5, PropChunkParts
<1>7. \A k, name : HasArray(k, name)' <=> HasArray(k, name)
  BY <1>1 DEF HasArray
<1>8. \A name : ~HasArray(n, name)
  BY <1>4, <1>6 DEF HasArray
<1>9. ASSUME NEW k \in 1 .. n - 1
      PROVE  /\ \A m, t : Agreed(k, m, t)' <=> Agreed(k, m, t)
             /\ \A m : KeptIn(k, m)' <=> KeptIn(k, m)
             /\ \A m, kind : AsKind(k, m, kind)' <=> AsKind(k, m, kind)
  <2>1. instChunks'[k].ids = instChunks[k].ids
    BY <1>5
  <2>2. QED
    BY <1>1, <2>1, GroupKept
<1>10. ASSUME NEW name \in Names PROVE Verdict(name)'
  <2>1. CASE name \in named
    <3>1. name \in unchecked' /\ propChunkMap'[name] = "nil" /\ ~HasArray(n, name)'
      BY <2>1, <1>1, <1>7, <1>8
    <3>2. ~HasArray(Len(instChunks), name)'
      BY <3>1, <1>5 DEF HasArray
    <3>3. QED
      BY <3>1, <3>2 DEF Verdict
  <2>2. CASE name \notin named
    <3>1. name \notin unchecked' /\ propChunkMap'[name] = "none"
      BY <2>2, <1>1
    <3>2. \A i \in DOMAIN ids : Property(ids[i], name) = Absent
      BY <2>2
    <3>3. \A id : Property(id, name)' = Property(id, name)
      BY <1>1 DEF Property, InstanceAt
    <3>4. instChunks'[Len(instChunks')].ids = ids
      BY <1>3, <1>5
    <3> HIDE DEF ids
    <3>5. HoldersIn(Len(instChunks), name)' = {}
      BY <3>2, <3>3, <3>4 DEF HoldersIn, ValueIn
    <3>6. ~KeptIn(Len(instChunks), name)'
      BY <3>5 DEF KeptIn
    <3>7. QED
      BY <3>1, <3>6 DEF Verdict
  <2>3. QED
    BY <2>1, <2>2
<1>11. ASSUME NEW p \in DOMAIN propChunks PROVE Typed(p)'
  <2>1. PICK t \in Types :
          /\ Agreed(propChunks[p].class + 1, propChunks[p].name, t)
          /\ AsKind(propChunks[p].class + 1, propChunks[p].name, propChunks[p].kind)
    BY DEF Verdicts, Typed
  <2>2. PICK k, m, kind : /\ k = propChunks[p].class + 1 /\ m = propChunks[p].name
                          /\ kind = propChunks[p].kind
    OBVIOUS
  <2>3. Agreed(k, m, t)' /\ AsKind(k, m, kind)'
    BY <1>6, <1>9, <2>1, <2>2
  <2>4. propChunks'[p] = propChunks[p]
    BY <1>1
  <2>5. QED
    BY <2>2, <2>3, <2>4 DEF Typed, Agreed, AsKind, HoldersIn, ValueIn
<1>12. \A k \in DOMAIN instChunks', name \in Names :
         (k < Len(instChunks') \/ step' \notin {"check", "fill", "panic"}) /\ KeptIn(k, name)'
           => HasArray(k, name)'
  <2> SUFFICES ASSUME NEW k \in 1 .. n, NEW name \in Names, KeptIn(k, name)', k < n
               PROVE  HasArray(k, name)
    BY <1>1, <1>5, <1>7
  <2>1. k \in 1 .. n - 1
    BY <1>4
  <2>2. KeptIn(k, name)
    BY <2>1, <1>9
  <2>3. QED
    BY <2>1, <2>2, <1>1, <1>5 DEF Verdicts
<1>13. QED
  BY <1>1, <1>10, <1>11, <1>12 DEF Verdicts

(* A check of a property leaves the verdict of CheckedVerdict.             *)
LEMMA CheckVerdicts ==
  ASSUME TypeOK, EncodeInv, Verdicts, NEW name \in Names, CheckProperty(name), ~Crash
  PROVE  Verdicts'
<1>1. /\ step = "check" /\ step' = "check" /\ name \in unchecked /\ ~Unknown(name)
      /\ unchecked' = unchecked \ {name}
      /\ propChunkMap' = [propChunkMap EXCEPT ![name] = Checked(name)]
      /\ root' = root /\ instList' = instList /\ instChunks' = instChunks /\ propChunks' = propChunks
  BY DEF CheckProperty
<1>2. instChunks # <<>> /\ Holders(name) # {}
  BY <1>1 DEF EncodeInv, Stages, HoldersKnown
<1>3. PICK k : k = Len(instChunks)
  OBVIOUS
<1>4. /\ Checked(name) = "nil" => Clash(k, name)
      /\ Checked(name) \notin {"nil", "none"} => Agreed(k, name, Checked(name))
      /\ Checked(name) = "none" => ~KeptIn(k, name)
  BY <1>2, <1>3, CheckedVerdict
<1>5. PICK c : c = Checked(name)
  OBVIOUS
<1>6. /\ \A n, t : Agreed(k, n, t)' <=> Agreed(k, n, t)
      /\ \A n : Clash(k, n)' <=> Clash(k, n)
      /\ \A n : KeptIn(k, n)' <=> KeptIn(k, n)
  BY <1>1, GroupKept
<1>7. \A n : HasArray(k, n)' <=> HasArray(k, n)
  BY <1>1 DEF HasArray
<1>8. propChunkMap' = [propChunkMap EXCEPT ![name] = c] /\ propChunkMap \in [Names -> {propChunkMap[n] : n \in Names}]
  BY <1>1, <1>5 DEF TypeOK, PropTypeOK
<1>9. ASSUME NEW n \in Names
      PROVE  /\ n \in unchecked' => propChunkMap'[n] = "nil"
             /\ n \notin unchecked' /\ propChunkMap'[n] = "nil" => Clash(k, n)
             /\ propChunkMap'[n] \notin {"nil", "none"} => Agreed(k, n, propChunkMap'[n])
             /\ propChunkMap'[n] = "none" /\ KeptIn(k, n) => HasArray(k, n)
             /\ propChunkMap'[n] # "none" => ~HasArray(k, n)
  <2>1. Verdict(n) /\ Verdict(name)
    BY <1>1 DEF Verdicts
  <2>2. CASE n # name
    <3>1. propChunkMap'[n] = propChunkMap[n] /\ (n \in unchecked' <=> n \in unchecked)
      BY <2>2, <1>1, <1>8
    <3>2. QED
      BY <2>1, <3>1, <1>3 DEF Verdict
  <2>3. CASE n = name
    <3>1. propChunkMap'[n] = c /\ n \notin unchecked'
      BY <2>3, <1>1, <1>8
    <3>2. ~HasArray(k, n)
      BY <2>1, <2>3, <1>1, <1>3 DEF Verdict
    <3>3. QED
      BY <2>3, <3>1, <3>2, <1>4, <1>5
  <2>4. QED
    BY <2>2, <2>3
<1>10. ASSUME NEW n \in Names PROVE Verdict(n)'
  <2>1. PICK m : m = propChunkMap'[n]
    OBVIOUS
  <2>2. /\ n \notin unchecked' /\ m = "nil" => Clash(k, n)'
        /\ m \notin {"nil", "none"} => Agreed(k, n, m)'
        /\ m = "none" /\ KeptIn(k, n)' => HasArray(k, n)'
        /\ m # "none" => ~HasArray(k, n)'
    BY <1>6, <1>7, <1>9, <2>1
  <2>3. k = Len(instChunks)'
    BY <1>1, <1>3
  <2>4. /\ n \notin unchecked' /\ propChunkMap'[n] = "nil" => Clash(Len(instChunks), n)'
        /\ propChunkMap'[n] = "none" /\ KeptIn(Len(instChunks), n)' => HasArray(Len(instChunks), n)'
        /\ propChunkMap'[n] # "none" => ~HasArray(Len(instChunks), n)'
    BY <2>1, <2>2, <2>3 DEF Clash, KeptIn, HasArray, HoldersIn, ValueIn
  <2>5. propChunkMap'[n] \notin {"nil", "none"} => Agreed(Len(instChunks), n, propChunkMap[n])'
    BY <2>1, <2>2, <2>3 DEF Agreed, HoldersIn, ValueIn
  <2>6. QED
    BY <2>4, <2>5, <1>9 DEF Verdict
<1>11. ArraysStay
  BY <1>1 DEF ArraysStay
<1>12. QED
  BY <1>1, <1>10, <1>11, ArraysStayInv

(* All names are checked.                                                  *)
LEMMA AllCheckedVerdicts ==
  ASSUME TypeOK, Verdicts, AllChecked
  PROVE  Verdicts'
<1>1. /\ step = "check" /\ step' = "fill" /\ unchecked = {} /\ unchecked' = unchecked
      /\ propChunkMap' = propChunkMap /\ propChunks' = propChunks
      /\ root' = root /\ instList' = instList /\ instChunks' = instChunks
  BY DEF AllChecked, propVars
<1>2. \A n : Verdict(n)' <=> Verdict(n)
  BY <1>1, GroupKept DEF Verdict, HasArray
<1>3. ArraysStay
  BY <1>1 DEF ArraysStay
<1>4. QED
  BY <1>1, <1>2, <1>3, ArraysStayInv DEF Verdicts

(* The name that gets its array was agreed upon.                           *)
LEMMA StartVerdicts ==
  ASSUME TypeOK, EncodeInv, Verdicts, NEW name \in Names, StartProperty(name), ~Crash
  PROVE  Verdicts'
<1> DEFINE new == [sig |-> "PROP", class |-> Group.class, name |-> name,
                   kind |-> Kind(name), values |-> <<>>, present |-> <<>>]
<1>1. /\ step = "fill" /\ step' = "fill" /\ name \in Remaining /\ propChunkMap[name] # "nil"
      /\ propChunks' = Append(propChunks, new)
      /\ propChunkMap' = [propChunkMap EXCEPT ![name] = "none"]
      /\ root' = root /\ instList' = instList /\ instChunks' = instChunks /\ unchecked' = unchecked
  BY DEF StartProperty, IsLeast
<1>2. instChunks # <<>>
  BY <1>1 DEF EncodeInv, Stages
<1>3. PICK k \in Nat : k = Len(instChunks)
  BY DEF TypeOK, GroupTypeOK
<1>4. PICK t \in Types : t = propChunkMap[name] /\ t \notin {"nil", "none"}
  BY <1>1 DEF TypeOK, PropTypeOK, Remaining
<1>5. new.class + 1 = k /\ new.name = name /\ new.kind = Kind(name) /\ k \in DOMAIN instChunks
  BY <1>2, <1>3, <1>4, GroupParts
<1> HIDE DEF new
<1>6. /\ DOMAIN propChunks' = 1 .. Len(propChunks) + 1
      /\ DOMAIN propChunks = 1 .. Len(propChunks) /\ Len(propChunks) \in Nat
      /\ \A p \in 1 .. Len(propChunks) : propChunks'[p] = propChunks[p]
      /\ propChunks'[Len(propChunks) + 1] = new
  BY <1>1, Appended DEF TypeOK, PropTypeOK
<1>7. Agreed(k, name, t) /\ ~HasArray(k, name) /\ AsKind(k, name, new.kind)
  <2>1. Agreed(k, name, t) /\ ~HasArray(k, name)
    BY <1>1, <1>3, <1>4 DEF Verdicts, Verdict
  <2>2. Holders(name) = HoldersIn(k, name) /\ \A i : ValueAt(i, name) = ValueIn(k, i, name)
    BY <1>2, <1>3, LastGroup
  <2>3. Holders(name) # {} /\ name \in Names
    BY <2>1, <2>2 DEF Agreed
  <2>4. PICK f \in Holders(name) : First(name) = ValueAt(f, name)
    BY <1>2, <2>3, FirstIs
  <2>5. ASSUME NEW i \in HoldersIn(k, name) PROVE new.kind = KindOf(ValueIn(k, i, name))
    <3>1. TypeOf(ValueIn(k, i, name)) = t
          /\ (t = "optional" => ValueIn(k, i, name).inner = First(name).inner)
      BY <2>1, <2>2, <2>4 DEF Agreed
    <3>2. QED
      BY <1>4, <1>5, <3>1 DEF Kind, KindOf
  <2>6. QED
    BY <2>1, <2>5 DEF AsKind
<1>8. \A l : /\ \A n, u : Agreed(l, n, u)' <=> Agreed(l, n, u)
             /\ \A n, kind : AsKind(l, n, kind)' <=> AsKind(l, n, kind)
             /\ \A n : Clash(l, n)' <=> Clash(l, n)
             /\ \A n : KeptIn(l, n)' <=> KeptIn(l, n)
  BY <1>1, GroupKept
<1>9. \A l, n : HasArray(l, n)' <=> HasArray(l, n) \/ (l = k /\ n = name)
  BY <1>5, <1>6 DEF HasArray
<1>10. ASSUME NEW n \in Names PROVE Verdict(n)'
  <2>1. PICK m : m = propChunkMap'[n]
    OBVIOUS
  <2>2. n # name => m = propChunkMap[n]
    BY <1>1, <2>1
  <2>3. n = name => m = "none"
    BY <1>1, <2>1 DEF TypeOK, PropTypeOK
  <2>4. Verdict(n) /\ n \notin unchecked
    BY <1>1 DEF Verdicts
  <2>5. /\ m = "nil" => Clash(k, n)'
        /\ m \notin {"nil", "none"} => Agreed(k, n, m)'
        /\ m = "none" /\ KeptIn(k, n)' => HasArray(k, n)'
        /\ m # "none" => ~HasArray(k, n)'
    BY <1>3, <1>8, <1>9, <2>2, <2>3, <2>4 DEF Verdict
  <2>6. k = Len(instChunks)'
    BY <1>1, <1>3
  <2>7. /\ propChunkMap'[n] = "nil" => Clash(Len(instChunks), n)'
        /\ propChunkMap'[n] = "none" /\ KeptIn(Len(instChunks), n)' => HasArray(Len(instChunks), n)'
        /\ propChunkMap'[n] # "none" => ~HasArray(Len(instChunks), n)'
    BY <2>1, <2>5, <2>6 DEF Clash, KeptIn, HasArray, HoldersIn, ValueIn
  <2>8. propChunkMap'[n] \notin {"nil", "none"} => Agreed(Len(instChunks), n, propChunkMap[n])'
    BY <2>1, <2>5, <2>6 DEF Agreed, HoldersIn, ValueIn
  <2>9. QED
    BY <1>1, <2>4, <2>7, <2>8 DEF Verdict
<1>11. ASSUME NEW p \in DOMAIN propChunks' PROVE Typed(p)'
  <2>1. CASE p \in DOMAIN propChunks
    <3>1. PICK u \in Types :
            /\ Agreed(propChunks[p].class + 1, propChunks[p].name, u)
            /\ AsKind(propChunks[p].class + 1, propChunks[p].name, propChunks[p].kind)
      BY <2>1 DEF Verdicts, Typed
    <3>2. PICK l, m, kind : /\ l = propChunks[p].class + 1 /\ m = propChunks[p].name
                            /\ kind = propChunks[p].kind
      OBVIOUS
    <3>3. Agreed(l, m, u)' /\ AsKind(l, m, kind)'
      BY <1>8, <3>1, <3>2
    <3>4. propChunks'[p] = propChunks[p]
      BY <1>6, <2>1
    <3>5. QED
      BY <3>2, <3>3, <3>4 DEF Typed, Agreed, AsKind, HoldersIn, ValueIn
  <2>2. CASE p = Len(propChunks) + 1
    <3>1. PICK kind : kind = new.kind
      OBVIOUS
    <3>2. Agreed(k, name, t)' /\ AsKind(k, name, kind)'
      BY <1>7, <1>8, <3>1
    <3>3. propChunks'[p] = new
      BY <1>6, <2>2
    <3>4. QED
      BY <1>5, <3>1, <3>2, <3>3 DEF Typed, Agreed, AsKind, HoldersIn, ValueIn
  <2>3. QED
    BY SMTT(20), <2>1, <2>2, <1>6
<1>12. ASSUME NEW p \in DOMAIN propChunks', NEW q \in DOMAIN propChunks',
              propChunks'[p].class = propChunks'[q].class, propChunks'[p].name = propChunks'[q].name
       PROVE  p = q
  <2>1. ASSUME NEW r \in DOMAIN propChunks
        PROVE  ~(propChunks[r].class = new.class /\ propChunks[r].name = new.name)
    BY <1>5, <1>7, <2>1 DEF HasArray
  <2>2. CASE p \in DOMAIN propChunks /\ q \in DOMAIN propChunks
    BY <2>2, <1>6, <1>12 DEF Verdicts
  <2>3. CASE p \in DOMAIN propChunks /\ q = Len(propChunks) + 1
    BY <2>1, <2>3, <1>6, <1>12
  <2>4. CASE p = Len(propChunks) + 1 /\ q \in DOMAIN propChunks
    BY <2>1, <2>4, <1>6, <1>12
  <2>5. QED
    BY <2>2, <2>3, <2>4, <1>6
<1>13. \A l \in DOMAIN instChunks', n \in Names :
         (l < Len(instChunks') \/ step' \notin {"check", "fill", "panic"}) /\ KeptIn(l, n)'
           => HasArray(l, n)'
  BY <1>1, <1>8, <1>9 DEF Verdicts
<1>14. unchecked' = {}
  BY <1>1 DEF Verdicts
<1>15. QED
  BY <1>1, <1>10, <1>11, <1>12, <1>13, <1>14 DEF Verdicts

(* One more element changes neither the name nor the kind of an array.     *)
LEMMA FillVerdicts ==
  ASSUME TypeOK, EncodeInv, Verdicts, FillValue, ~Crash
  PROVE  Verdicts'
<1> DEFINE last == Len(propChunks)
           v == ValueAt(Len(Current.values) + 1, Current.name)
<1>1. /\ step = "fill" /\ Filling /\ step' = "fill"
      /\ propChunks' = [propChunks EXCEPT ![last] = Longer(v)]
      /\ root' = root /\ instList' = instList /\ instChunks' = instChunks
      /\ unchecked' = unchecked /\ propChunkMap' = propChunkMap
  BY DEF FillValue
<1>2. propChunks \in Seq(PropChunk) /\ last \in DOMAIN propChunks
      /\ Current = propChunks[last] /\ Current \in PropChunk
  BY <1>1 DEF TypeOK, PropTypeOK, Filling, Current
<1> HIDE DEF v
<1>3. Longer(v).class = Current.class /\ Longer(v).name = Current.name
      /\ Longer(v).kind = Current.kind
  <2>1. PICK s, pr : Longer(v) = [Current EXCEPT !.values = s, !.present = pr]
    BY DEF Longer
  <2>2. QED
    BY <1>2, <2>1 DEF PropChunk
<1>4. /\ DOMAIN propChunks' = DOMAIN propChunks
      /\ propChunks'[last] = Longer(v)
      /\ \A p \in DOMAIN propChunks : p # last => propChunks'[p] = propChunks[p]
  BY <1>1, <1>2
<1>5. ArraysStay
  BY <1>1, <1>2, <1>3, <1>4 DEF ArraysStay
<1>6. ASSUME NEW n \in Names PROVE Verdict(n)'
  <2>1. \A k, m : HasArray(k, m)' <=> HasArray(k, m)
    BY <1>5 DEF HasArray, ArraysStay
  <2>2. \A k : /\ \A m, t : Agreed(k, m, t)' <=> Agreed(k, m, t)
               /\ \A m : Clash(k, m)' <=> Clash(k, m)
               /\ \A m : KeptIn(k, m)' <=> KeptIn(k, m)
    BY <1>1, GroupKept
  <2>3. PICK k, m : k = Len(instChunks) /\ m = propChunkMap[n]
    OBVIOUS
  <2>4. Verdict(n)
    BY <1>1 DEF Verdicts
  <2>5. /\ n \notin unchecked /\ m = "nil" => Clash(k, n)'
        /\ m \notin {"nil", "none"} => Agreed(k, n, m)'
        /\ m = "none" /\ KeptIn(k, n)' => HasArray(k, n)'
        /\ m # "none" => ~HasArray(k, n)'
    BY <2>1, <2>2, <2>3, <2>4 DEF Verdict
  <2>6. k = Len(instChunks)' /\ m = propChunkMap'[n]
    BY <1>1, <2>3
  <2>7. /\ n \notin unchecked /\ propChunkMap'[n] = "nil" => Clash(Len(instChunks), n)'
        /\ propChunkMap'[n] = "none" /\ KeptIn(Len(instChunks), n)' => HasArray(Len(instChunks), n)'
        /\ propChunkMap'[n] # "none" => ~HasArray(Len(instChunks), n)'
    BY <2>5, <2>6 DEF Clash, KeptIn, HasArray, HoldersIn, ValueIn
  <2>8. propChunkMap'[n] \notin {"nil", "none"} => Agreed(Len(instChunks), n, propChunkMap[n])'
    BY <2>5, <2>6 DEF Agreed, HoldersIn, ValueIn
  <2>9. QED
    BY <1>1, <2>4, <2>7, <2>8 DEF Verdict
<1>7. QED
  BY <1>1, <1>5, <1>6, ArraysStayInv DEF Verdicts

(* When no name remains, all that can be kept have their array.            *)
LEMMA GroupDoneVerdicts ==
  ASSUME TypeOK, Verdicts, GroupDone
  PROVE  Verdicts'
<1>1. /\ step = "fill" /\ step' = "sort" /\ Remaining = {} /\ propChunks' = propChunks
      /\ root' = root /\ instList' = instList /\ instChunks' = instChunks
  BY DEF GroupDone, propVars
<1>2. \A name \in Names, k \in DOMAIN instChunks :
        k = Len(instChunks) /\ KeptIn(k, name) => HasArray(k, name)
  BY <1>1 DEF Verdicts, Verdict, Remaining
<1>3. ArraysStay
  BY <1>1 DEF ArraysStay
<1>4. QED
  BY <1>1, <1>2, <1>3, ArraysStayInv

LEMMA VerdictsStart ==
  ASSUME Init
  PROVE  Verdicts
BY EmptyVerdicts DEF Init

LEMMA VerdictsStep ==
  ASSUME TypeOK, EncodeInv, Verdicts, Next
  PROVE  Verdicts'
<1>1. CASE AddInstance \/ AllListed \/ GroupInstance \/ AllGrouped
  <2>1. instChunks = <<>> /\ propChunks = <<>>
    BY <1>1 DEF EncodeInv, Stages, AddInstance, AllListed, GroupInstance, AllGrouped
  <2>2. instChunks' = instChunks /\ propChunks' = propChunks /\ step' \notin {"check", "fill"}
    BY <1>1 DEF AddInstance, AllListed, GroupInstance, AllGrouped, propVars
  <2>3. (instChunks = <<>>)' /\ (propChunks = <<>>)' /\ (step \notin {"check", "fill"})'
    BY <2>1, <2>2
  <2>4. QED
    BY <2>1, <2>2 DEF Verdicts
<1>2. ASSUME NEW class \in Classes, NextGroup(class) PROVE Verdicts'
  BY <1>2, NextGroupVerdicts
<1>3. ASSUME NEW name \in Names, CheckProperty(name), ~Crash PROVE Verdicts'
  BY <1>3, CheckVerdicts
<1>4. ASSUME NEW name \in Names, StartProperty(name), ~Crash PROVE Verdicts'
  BY <1>4, StartVerdicts
<1>5. CASE AllChecked
  BY <1>5, AllCheckedVerdicts
<1>6. CASE FillValue /\ ~Crash
  BY <1>6, FillVerdicts
<1>7. CASE GroupDone
  BY <1>7, GroupDoneVerdicts
<1>8. CASE Crash
  <2>1. ArraysStay /\ step' = "panic"
    BY <1>8 DEF Crash, propVars, ArraysStay
  <2>2. QED
    BY <2>1, ArraysStayInv
<1>9. CASE AllFilled \/ WriteChunks \/ ((EnterInstance \/ LeaveInstance) /\ ~Crash)
  <2>1. ArraysStay /\ step' \notin {"check", "fill"} /\ step \notin {"check", "fill", "panic"}
    BY <1>9 DEF AllFilled, WriteChunks, EnterInstance, LeaveInstance, propVars, ArraysStay
  <2>2. QED
    BY <2>1, ArraysStayInv
<1>10. QED
  BY <1>1, <1>2, <1>3, <1>4, <1>5, <1>6, <1>7, <1>8, <1>9 DEF Next

-------------------------------------------------------------------------------
(* What makes the arrays panic.                                            *)

(* Whoever has a property in a group has it in the tree.                   *)
LEMMA HolderInTree ==
  ASSUME TypeOK, EncodeInv, InTree, Sorted, NEW k \in DOMAIN instChunks, NEW name \in Names,
         NEW i \in HoldersIn(k, name)
  PROVE  /\ GroupClass(k) \in T!ClassesInTree
         /\ InstanceAt(instChunks[k].ids[i]) \in T!Holders(GroupClass(k), name)
         /\ ValueIn(k, i, name) = T!Value(InstanceAt(instChunks[k].ids[i]), name)
         /\ ValueIn(k, i, name) \in Value \ {Absent}
<1> DEFINE id == instChunks[k].ids[i]
           inst == InstanceAt(id)
<1>1. instChunks[k] \in InstChunk /\ grouped <= Len(instList) /\ instList \in Seq(Instances)
      /\ grouped \in Nat
  BY DEF TypeOK, GroupTypeOK, ListTypeOK
<1>2. i \in DOMAIN instChunks[k].ids /\ ValueIn(k, i, name) # Absent
  BY DEF HoldersIn
<1>3. id \in Nat /\ id < grouped
  <2>1. instChunks[k].ids \in Seq(Nat)
    BY <1>1 DEF InstChunk
  <2>2. id \in Nat
    BY <2>1, <1>2
  <2>3. id < grouped
    BY <1>2 DEF EncodeInv, Chunked
  <2>4. QED
    BY <2>2, <2>3
<1>4. id + 1 \in DOMAIN instList /\ id < Len(instList)
  BY <1>1, <1>3
<1>5. inst \in T!Tree
  BY <1>4 DEF InTree, InstanceAt
<1>6. Property(id, name) \in Value
  BY <1>3, <1>4, AtNumber
<1>7. root.class[inst] = GroupClass(k)
  BY <1>2 DEF Sorted, ClassOf
<1>8. ValueIn(k, i, name) = T!Value(inst, name)
  BY DEF ValueIn, T!Value, Property
<1>9. ValueIn(k, i, name) \in Value \ {Absent}
  BY <1>2, <1>6 DEF ValueIn
<1>10. T!Value(inst, name).type # "absent"
  <2>1. \A v \in Value \ {Absent} : v.type # "absent"
    BY DEF Value, Types
  <2>2. QED
    BY <2>1, <1>8, <1>9
<1>11. QED
  BY <1>5, <1>7, <1>8, <1>9, <1>10 DEF T!ClassesInTree, T!Holders, T!Has

(* The types of properties in a sound tree.                                *)
LEMMA SoundTypes ==
  ASSUME TypeOK, EncodeInv, InTree, Sorted, NEW k \in DOMAIN instChunks, NEW name \in Names,
         T!Sound
  PROVE  /\ \A i \in HoldersIn(k, name) :
              /\ TypeOf(ValueIn(k, i, name)) # "invalid"
              /\ TypeOf(ValueIn(k, i, name)) = "optional" =>
                   ValueIn(k, i, name).inner \notin {"invalid", "optional"}
         /\ ~Clash(k, name)
<1>1. ASSUME NEW i \in HoldersIn(k, name), NEW j \in HoldersIn(k, name)
      PROVE  LET v == ValueIn(k, i, name)
                 w == ValueIn(k, j, name) IN
             /\ v.type # "invalid"
             /\ T!IsOptional(v) => v.inner \notin {"invalid", "optional"}
             /\ T!IsOptional(v) /\ T!IsOptional(w) => v.inner = w.inner
  <2>1. PICK class \in T!ClassesInTree : class = GroupClass(k)
    BY HolderInTree
  <2>2. PICK a \in T!Holders(class, name) : ValueIn(k, i, name) = T!Value(a, name)
    BY <2>1, HolderInTree
  <2>3. PICK b \in T!Holders(class, name) : ValueIn(k, j, name) = T!Value(b, name)
    BY <2>1, HolderInTree
  <2>4. QED
    BY <2>1, <2>2, <2>3 DEF T!Sound
<1>2. \A i \in HoldersIn(k, name) : LET v == ValueIn(k, i, name) IN
        v.type # "optional" /\ (TypeOf(v) = "optional" => T!IsOptional(v))
        /\ (TypeOf(v) = "invalid" => v.type = "invalid")
  <2>1. \A v \in Value : v.type # "optional"
    BY DEF Value, Types, Absent
  <2>2. \A i \in HoldersIn(k, name) : ValueIn(k, i, name) \in Value
    BY HolderInTree
  <2>3. QED
    BY <2>1, <2>2 DEF TypeOf, T!IsOptional
<1>3. QED
  BY <1>1, <1>2 DEF Clash

LEMMA GroupCrash ==
  ASSUME TypeOK, EncodeInv, InTree, Sorted, Verdicts, Crash, NEW name \in Names,
         CheckProperty(name) \/ StartProperty(name) \/ FillValue
  PROVE  ~T!Sound
<1> SUFFICES ASSUME T!Sound PROVE FALSE
  OBVIOUS
<1>1. step' = "panic" /\ step \in {"check", "fill"} /\ step' # step
  BY DEF Crash, CheckProperty, StartProperty, FillValue
<1>2. instChunks # <<>>
  BY <1>1 DEF EncodeInv, Stages
<1>3. PICK k : k = Len(instChunks) /\ k \in DOMAIN instChunks
  BY <1>2, GroupParts
<1>4. /\ \A n : Holders(n) = HoldersIn(k, n)
      /\ \A i, n : ValueAt(i, n) = ValueIn(k, i, n)
  BY <1>2, <1>3, LastGroup
<1>5. CASE CheckProperty(name)
  <2>1. Unknown(name) /\ step = "check" /\ name \in unchecked
    BY <1>1, <1>5 DEF CheckProperty
  <2>2. Holders(name) # {}
    BY <2>1 DEF EncodeInv, HoldersKnown
  <2>3. PICK i \in Holders(name) : First(name) = ValueAt(i, name)
    BY <2>2, <1>2, FirstIs
  <2>4. i \in HoldersIn(k, name) /\ First(name) = ValueIn(k, i, name)
    BY <1>4, <2>3
  <2>5. QED
    BY <2>1, <2>4, <1>3, SoundTypes DEF Unknown
<1>6. CASE StartProperty(name)
  <2>1. propChunkMap[name] = "nil" /\ step = "fill"
    BY <1>1, <1>6 DEF StartProperty
  <2>2. Clash(k, name)
    BY <2>1, <1>3 DEF Verdicts, Verdict
  <2>3. QED
    BY <2>2, <1>3, SoundTypes
<1>7. CASE FillValue
  <2>1. Filling /\ OfOptionals(Current) /\ First(Current.name).inner = "optional"
    BY <1>1, <1>7 DEF FillValue
  <2>2. Len(propChunks) \in DOMAIN propChunks /\ Current = propChunks[Len(propChunks)]
        /\ Current \in PropChunk /\ Current.class = Group.class
    BY <2>1 DEF TypeOK, PropTypeOK, Filling, Current
  <2>3. Current.class + 1 = k
    BY <2>2, <1>2, <1>3, GroupParts
  <2>4. PICK t \in Types : Agreed(k, Current.name, t) /\ AsKind(k, Current.name, Current.kind)
    BY <2>2, <2>3 DEF Verdicts, Typed
  <2>5. t = "optional" /\ Current.name \in Names
    <3>1. PICK i \in HoldersIn(k, Current.name) : TypeOf(ValueIn(k, i, Current.name)) = t
      BY <2>4 DEF Agreed
    <3>2. Current.kind = KindOf(ValueIn(k, i, Current.name))
      BY <2>4, <3>1 DEF AsKind
    <3>3. QED
      BY <2>1, <2>2, <3>1, <3>2 DEF KindOf, OfOptionals, Types, PropChunk
  <2>6. Holders(Current.name) # {}
    BY <2>4, <1>4 DEF Agreed
  <2>7. PICK i \in Holders(Current.name) : First(Current.name) = ValueAt(i, Current.name)
    BY <2>5, <2>6, <1>2, FirstIs
  <2>8. i \in HoldersIn(k, Current.name) /\ First(Current.name) = ValueIn(k, i, Current.name)
    BY <1>4, <2>7
  <2>9. TypeOf(First(Current.name)) = "optional"
    BY <2>4, <2>5, <2>8 DEF Agreed
  <2>10. QED
    BY <2>1, <2>5, <2>8, <2>9, <1>3, SoundTypes
<1>8. QED
  BY <1>5, <1>6, <1>7

-------------------------------------------------------------------------------
(* The second walk.                                                        *)

(* The calls of the walk in the order in which they end: those that have   *)
(* their link and those that wait for it; position at[i] of the list of    *)
(* its parent is where the i-th call was found.                            *)
Unique == \A p, q \in T!Places : T!At(p) = T!At(q) => p = q
Distinct(C) == \A i, j \in DOMAIN C : C[i].instance = C[j].instance => i = j
InOrder(C, at) == \A i, j \in DOMAIN C : i < j /\ C[i].parent = C[j].parent => at[i] < at[j]
Covers(C, at, p) ==
  \A e \in DOMAIN T!ListOf(p) : \E i \in DOMAIN C : C[i].parent = p /\ at[i] = e
Found(call, e) ==
  /\ call.parent \in T!Tree \cup {Nil}
  /\ e \in DOMAIN T!ListOf(call.parent) /\ T!ListOf(call.parent)[e] = call.instance
  /\ call.entered => call.instance # Nil
Under(C, i) ==
  C[i].parent # Nil => \E k \in DOMAIN C : C[k].entered /\ C[k].instance = C[i].parent

Told(C, at) ==
  /\ DOMAIN at = DOMAIN C
  /\ \A i \in DOMAIN C : Found(C[i], at[i]) /\ Under(C, i)
  /\ Unique => Distinct(C)
  /\ Distinct(C) => InOrder(C, at)
  /\ Covers(C, at, Nil)
  /\ \A k \in DOMAIN C : C[k].entered => Covers(C, at, C[k].instance)

(* The calls are those of the links and those of the walk.                 *)
Split(C) ==
  /\ DOMAIN C = 1 .. Len(links) + Len(walk)
  /\ \A i \in 1 .. Len(links) : C[i].entered /\ links[i] = LinkFor(C[i])
  /\ \A i \in 1 .. Len(walk) : C[Len(links) + i] = walk[i]

WalkInv ==
  /\ step \notin {"link", "done", "panic"} => links = <<>>
  /\ step \in {"link", "done"} /\ instList # <<>> =>
       \E C \in Seq(Call) : \E at \in Seq(Nat) : Split(C) /\ Told(C, at)
  /\ step \in {"link", "done"} /\ instList = <<>> => walk = <<>> /\ links = <<>>
  /\ step = "done" => walk = <<>>

(* Where the calls of an instance come to stand when it is entered: a call *)
(* i of C is call L(i) of the longer sequence, and the others are new.     *)
Widened(C, at, C2, at2, n, m, c, x) ==
  /\ DOMAIN C = 1 .. c /\ n < c /\ DOMAIN C2 = 1 .. c + m /\ DOMAIN at2 = 1 .. c + m
  /\ x \in T!Tree /\ ~C[n + 1].entered /\ C[n + 1].instance = x
  /\ DOMAIN T!ListOf(x) = 1 .. m
  /\ \A i \in 1 .. n : C2[i] = C[i] /\ at2[i] = at[i]
  /\ \A i \in 1 .. m : /\ C2[n + i].instance = T!ListOf(x)[i] /\ C2[n + i].parent = x
                        /\ ~C2[n + i].entered /\ at2[n + i] = i
  /\ C2[n + m + 1].instance = x /\ C2[n + m + 1].parent = C[n + 1].parent
  /\ C2[n + m + 1].entered /\ at2[n + m + 1] = at[n + 1]
  /\ \A i \in n + 2 .. c : C2[i + m] = C[i] /\ at2[i + m] = at[i]

LEMMA EnterTold ==
  ASSUME root \in Roots, NEW C, NEW at, NEW C2, NEW at2, Told(C, at),
         NEW n \in Nat, NEW m \in Nat, NEW c \in Nat, NEW x, Widened(C, at, C2, at2, n, m, c, x)
  PROVE  Told(C2, at2)
<1> DEFINE L(i) == IF i <= n THEN i ELSE i + m
           New == n + 1 .. n + m
<1>20. /\ DOMAIN C = 1 .. c /\ n < c /\ DOMAIN C2 = 1 .. c + m /\ DOMAIN at2 = 1 .. c + m
       /\ x \in T!Tree /\ ~C[n + 1].entered /\ C[n + 1].instance = x
       /\ DOMAIN T!ListOf(x) = 1 .. m
       /\ \A i \in 1 .. n : C2[i] = C[i] /\ at2[i] = at[i]
       /\ \A i \in 1 .. m : /\ C2[n + i].instance = T!ListOf(x)[i] /\ C2[n + i].parent = x
                             /\ ~C2[n + i].entered /\ at2[n + i] = i
       /\ C2[n + m + 1].instance = x /\ C2[n + m + 1].parent = C[n + 1].parent
       /\ C2[n + m + 1].entered /\ at2[n + m + 1] = at[n + 1]
       /\ \A i \in n + 2 .. c : C2[i + m] = C[i] /\ at2[i + m] = at[i]
  BY DEF Widened
<1> USE <1>20
<1>1. ASSUME NEW i \in 1 .. c
      PROVE  /\ L(i) \in 1 .. c + m /\ L(i) \notin New
             /\ C2[L(i)].instance = C[i].instance /\ C2[L(i)].parent = C[i].parent
             /\ at2[L(i)] = at[i] /\ (C[i].entered => C2[L(i)].entered)
             /\ i # n + 1 => C2[L(i)] = C[i]
  <2>1. CASE i <= n
    BY <2>1
  <2>2. CASE i = n + 1
    BY <2>2
  <2>3. CASE i \in n + 2 .. c
    <3>1. C2[i + m] = C[i] /\ at2[i + m] = at[i]
      BY <2>3
    <3>2. L(i) = i + m /\ i # n + 1 /\ i + m \in 1 .. c + m /\ i + m \notin New
      BY <2>3
    <3> HIDE DEF L, New
    <3>3. QED
      BY <3>1, <3>2
  <2>4. QED
    BY <2>1, <2>2, <2>3
<1>2. ASSUME NEW a \in 1 .. c + m, a \notin New
      PROVE  \E i \in 1 .. c : a = L(i)
  <2>1. CASE a <= n
    <3>1. a \in 1 .. c /\ a = L(a)
      BY <2>1
    <3>2. QED
      BY <3>1
  <2>2. CASE a > n + m
    <3>1. a - m \in 1 .. c /\ a = L(a - m)
      BY <2>2
    <3>2. QED
      BY <3>1
  <2>3. QED
    BY <2>1, <2>2, <1>2
<1>3. \A i, j \in 1 .. c : i < j <=> L(i) < L(j)
  OBVIOUS
<1>4. \A i, j \in 1 .. c : L(i) = L(j) => i = j
  OBVIOUS
<1>5. ASSUME NEW a \in New
      PROVE  /\ a \in 1 .. c + m /\ a - n \in 1 .. m
             /\ C2[a].instance = T!ListOf(x)[a - n] /\ C2[a].parent = x
             /\ ~C2[a].entered /\ at2[a] = a - n
  <2>1. a - n \in 1 .. m /\ n + (a - n) = a
    OBVIOUS
  <2>2. QED
    BY <2>1
<1>6. PICK old : old \in 1 .. c /\ old = n + 1
  OBVIOUS
<1>7. x # Nil
  BY TreeParts, EncodeAssumption
<1> HIDE DEF L, New
<1>8. ASSUME Distinct(C), NEW i \in 1 .. c PROVE C[i].parent # x
  <2> SUFFICES ASSUME C[i].parent = x PROVE FALSE
    OBVIOUS
  <2>4. Under(C, i)
    BY DEF Told
  <2>1. PICK k \in 1 .. c : C[k].entered /\ C[k].instance = x
    BY <1>7, <2>4 DEF Under
  <2>5. C[k].instance = C[old].instance /\ k \in DOMAIN C /\ old \in DOMAIN C
    BY <2>1, <1>6
  <2>2. k = old
    BY <2>5, <1>8 DEF Distinct
  <2>3. QED
    BY <2>1, <2>2, <1>6
<1>9. ASSUME NEW a \in 1 .. c + m PROVE Found(C2[a], at2[a]) /\ Under(C2, a)
  <2>1. CASE a \in New
    <3>1. Found(C2[a], at2[a])
      BY <1>5, <2>1 DEF Found
    <3>2. L(old) \in 1 .. c + m /\ C2[L(old)].instance = x /\ C2[L(old)].entered
      BY <1>1, <1>6 DEF L
    <3>3. Under(C2, a)
      BY <1>5, <2>1, <3>2 DEF Under
    <3>4. QED
      BY <3>1, <3>3
  <2>2. CASE a \notin New
    <3>1. PICK i \in 1 .. c : a = L(i)
      BY <1>2, <2>2
    <3>2. Found(C[i], at[i]) /\ Under(C, i)
      BY DEF Told
    <3>3. Found(C2[a], at2[a])
      <4>1. CASE i = old
        BY <1>1, <1>6, <1>7, <3>1, <3>2, <4>1 DEF Found
      <4>2. CASE i # old
        BY <1>1, <1>6, <3>1, <3>2, <4>2
      <4>3. QED
        BY <4>1, <4>2
    <3>4. Under(C2, a)
      BY <1>1, <3>1, <3>2 DEF Under
    <3>5. QED
      BY <3>3, <3>4
  <2>3. QED
    BY <2>1, <2>2
<1>10. ASSUME Unique PROVE Distinct(C2)
  <2>1. Distinct(C)
    BY <1>10 DEF Told
  <2>2. ASSUME NEW a \in 1 .. c + m
        PROVE  /\ <<C2[a].parent, at2[a]>> \in T!Places
               /\ T!At(<<C2[a].parent, at2[a]>>) = C2[a].instance
    <3>1. C2[a].parent \in T!Tree \cup {Nil} /\ at2[a] \in DOMAIN T!ListOf(C2[a].parent)
          /\ T!ListOf(C2[a].parent)[at2[a]] = C2[a].instance
      BY <1>9 DEF Found
    <3>2. QED
      BY <3>1 DEF T!Places, T!At
  <2>3. ASSUME NEW a \in 1 .. c + m, NEW b \in 1 .. c + m, C2[a].instance = C2[b].instance
        PROVE  C2[a].parent = C2[b].parent /\ at2[a] = at2[b]
    <3>1. PICK p, q : p = <<C2[a].parent, at2[a]>> /\ q = <<C2[b].parent, at2[b]>>
      OBVIOUS
    <3>2. p \in T!Places /\ q \in T!Places /\ T!At(p) = T!At(q)
      <4>1. p \in T!Places /\ T!At(p) = C2[a].instance
        BY <2>2, <3>1
      <4>2. q \in T!Places /\ T!At(q) = C2[b].instance
        BY <2>2, <3>1
      <4>3. QED
        BY <4>1, <4>2, <2>3
    <3>3. p = q
      BY <3>2, <1>10 DEF Unique
    <3>4. QED
      BY <3>1, <3>3
  <2>4. ASSUME NEW a \in New, NEW i \in 1 .. c PROVE C2[a].instance # C2[L(i)].instance
    <3>4. C[i].parent # x
      BY <1>8, <2>1
    <3>1. C2[L(i)].parent # x /\ L(i) \in 1 .. c + m
      BY <1>1, <3>4
    <3>2. C2[a].parent = x /\ a \in 1 .. c + m
      BY <1>5
    <3>3. QED
      BY <2>3, <3>1, <3>2
  <2>5. ASSUME NEW a \in 1 .. c + m, NEW b \in 1 .. c + m, C2[a].instance = C2[b].instance
        PROVE  a = b
    <3>1. CASE a \in New /\ b \in New
      <4>1. a - n = b - n
        BY <1>5, <2>3, <2>5, <3>1
      <4>2. QED
        BY <4>1
    <3>2. CASE a \notin New /\ b \notin New
      <4>1. PICK i \in 1 .. c, j \in 1 .. c : a = L(i) /\ b = L(j)
        BY <1>2, <3>2
      <4>2. C[i].instance = C[j].instance
        BY <1>1, <2>5, <4>1
      <4>4. i = j
        BY <2>1, <4>2 DEF Distinct
      <4>3. QED
        BY <4>1, <4>4
    <3>3. CASE a \in New /\ b \notin New
      <4>1. PICK j \in 1 .. c : b = L(j)
        BY <1>2, <3>3
      <4>2. QED
        BY <2>4, <2>5, <3>3, <4>1
    <3>4. CASE a \notin New /\ b \in New
      <4>1. PICK i \in 1 .. c : a = L(i)
        BY <1>2, <3>4
      <4>2. QED
        BY <2>4, <2>5, <3>4, <4>1
    <3>5. QED
      BY <3>1, <3>2, <3>3, <3>4
  <2>6. QED
    BY <2>5 DEF Distinct
<1>11. ASSUME Distinct(C2) PROVE InOrder(C2, at2)
  <2>1. ASSUME NEW i \in 1 .. c, NEW j \in 1 .. c, C[i].instance = C[j].instance
        PROVE  i = j
    <3>1. L(i) = L(j)
      BY <1>1, <1>11, <2>1 DEF Distinct
    <3>2. QED
      BY <1>4, <3>1
  <2>2. Distinct(C)
    BY <2>1 DEF Distinct
  <2>3. InOrder(C, at)
    BY <2>2 DEF Told
  <2>6. ASSUME NEW a \in 1 .. c + m, a \notin New PROVE C2[a].parent # x
    <3>1. PICK i \in 1 .. c : a = L(i)
      BY <1>2, <2>6
    <3>2. C[i].parent # x
      BY <1>8, <2>2
    <3>3. QED
      BY <1>1, <3>1, <3>2
  <2>4. ASSUME NEW a \in 1 .. c + m, NEW b \in 1 .. c + m, a < b, C2[a].parent = C2[b].parent
        PROVE  at2[a] < at2[b]
    <3>1. CASE a \in New /\ b \in New
      BY <1>5, <2>4, <3>1
    <3>2. CASE a \notin New /\ b \notin New
      <4>1. PICK i \in 1 .. c, j \in 1 .. c : a = L(i) /\ b = L(j)
        BY <1>2, <3>2
      <4>2. i < j /\ C[i].parent = C[j].parent
        BY <1>1, <1>3, <2>4, <4>1
      <4>3. at[i] < at[j]
        BY <2>3, <4>2 DEF InOrder
      <4>4. QED
        BY <1>1, <4>1, <4>3
    <3>3. CASE a \in New /\ b \notin New
      BY <1>5, <2>4, <2>6, <3>3
    <3>4. CASE a \notin New /\ b \in New
      BY <1>5, <2>4, <2>6, <3>4
    <3>5. QED
      BY <3>1, <3>2, <3>3, <3>4
  <2>5. QED
    BY <2>4 DEF InOrder
<1>12. ASSUME NEW p, Covers(C, at, p) PROVE Covers(C2, at2, p)
  <2>1. ASSUME NEW e \in DOMAIN T!ListOf(p)
        PROVE  \E a \in DOMAIN C2 : C2[a].parent = p /\ at2[a] = e
    <3>1. PICK i \in 1 .. c : C[i].parent = p /\ at[i] = e
      BY <1>12 DEF Covers
    <3>2. L(i) \in DOMAIN C2 /\ C2[L(i)].parent = p /\ at2[L(i)] = e
      BY <1>1, <3>1
    <3>3. QED
      BY <3>2
  <2>2. QED
    BY <2>1 DEF Covers
<1>13. Covers(C2, at2, x)
  <2>1. ASSUME NEW e \in 1 .. m PROVE \E i \in 1 .. c + m : C2[i].parent = x /\ at2[i] = e
    <3>1. n + e \in 1 .. c + m
      OBVIOUS
    <3>2. QED
      BY <3>1
  <2>2. QED
    BY SMTT(20), <2>1 DEF Covers
<1>14. ASSUME NEW a \in 1 .. c + m, C2[a].entered PROVE Covers(C2, at2, C2[a].instance)
  <2>1. a \notin New
    BY <1>5, <1>14
  <2>2. PICK i \in 1 .. c : a = L(i)
    BY <1>2, <2>1
  <2>3. CASE i = old
    BY <1>1, <1>6, <1>13, <2>2, <2>3
  <2>4. CASE i # old
    <3>1. C[i].entered /\ C2[a].instance = C[i].instance
      BY <1>1, <1>6, <1>14, <2>2, <2>4
    <3>2. QED
      BY <1>12, <3>1 DEF Told
  <2>5. QED
    BY <2>3, <2>4
<1>15. Covers(C2, at2, Nil)
  BY <1>12 DEF Told
<1>16. QED
  BY <1>9, <1>10, <1>11, <1>14, <1>15 DEF Told

(* A call that is entered gives way to the calls of the children and to    *)
(* itself.                                                                 *)
LEMMA EnterWalk ==
  ASSUME TypeOK, InTree, Reached, Walked, WalkInv, EnterInstance, ~Crash
  PROVE  WalkInv'
<1> DEFINE call == Head(walk)
           left == [call EXCEPT !.entered = TRUE]
           x == call.instance
           calls == CallsFor(root.children[x], x)
           rest == Tail(walk)
           n == Len(links)
           m == Len(root.children[x])
<1>1. /\ root' = root /\ instList' = instList /\ links' = links
      /\ step = "link" /\ step' = "link" /\ walk # <<>> /\ ~call.entered
      /\ x # Nil /\ walk' = (calls \o <<left>>) \o rest
  BY DEF EnterInstance
<1>2. /\ walk \in Seq(Call) /\ root \in Roots /\ links \in Seq(Link) /\ n \in Nat
  BY DEF TypeOK, ListTypeOK, LinkTypeOK
<1>3. /\ call \in Call /\ call = walk[1] /\ 1 \in DOMAIN walk /\ rest \in Seq(Call)
      /\ Len(rest) = Len(walk) - 1 /\ Len(walk) \in Nat
      /\ \A i \in 1 .. Len(rest) : rest[i] = walk[i + 1]
  BY <1>1, <1>2
<1>4. x \in Instances /\ left \in Call /\ left.instance = x /\ left.parent = call.parent
      /\ left.entered
  BY <1>1, <1>3 DEF Call
<1>5. CallOK(call)
  BY <1>3 DEF Walked
<1>6. x \in T!Tree /\ instList # <<>>
  <2>1. Listed(x)
    BY <1>1, <1>5 DEF CallOK
  <2>2. QED
    BY <2>1 DEF Listed, InTree
<1>7. root.children[x] \in Seq(Instances \cup {Nil}) /\ m \in Nat
      /\ DOMAIN root.children[x] = 1 .. m
  BY <1>2, <1>4, RootParts
<1>8. T!ListOf(x) = root.children[x]
  BY SMTT(20), <1>1 DEF T!ListOf
<1>9. calls \in Seq(Call) /\ Len(calls) = m
      /\ \A i \in 1 .. m : /\ calls[i].instance = root.children[x][i] /\ calls[i].parent = x
                           /\ ~calls[i].entered
  <2>1. calls \in Seq(Call)
    BY <1>4, <1>7, CallsType
  <2>2. DOMAIN calls = 1 .. m
    BY <1>7 DEF CallsFor
  <2>3. QED
    BY <1>7, <2>1, <2>2 DEF CallsFor
<1>10. PICK C \in Seq(Call), at \in Seq(Nat) : Split(C) /\ Told(C, at)
  BY <1>1, <1>6 DEF WalkInv
<1>11. Len(C) = n + Len(walk) /\ DOMAIN C = 1 .. n + Len(walk) /\ C[n + 1] = call
  <2>1. DOMAIN C = 1 .. n + Len(walk)
    BY <1>10 DEF Split
  <2>2. C[n + 1] = walk[1]
    BY <1>3, <1>10 DEF Split
  <2>3. QED
    BY <1>2, <1>3, <2>1, <2>2
<1> DEFINE c == n + Len(walk)
           C2 == [i \in 1 .. c + m |-> IF i <= n THEN C[i]
                                       ELSE IF i <= n + m THEN calls[i - n]
                                       ELSE IF i = n + m + 1 THEN left ELSE C[i - m]]
           at2 == [i \in 1 .. c + m |-> IF i <= n THEN at[i]
                                        ELSE IF i <= n + m THEN i - n ELSE at[i - m]]
<1>12. c \in Nat /\ n < c /\ DOMAIN at = 1 .. c
  BY <1>2, <1>3, <1>10, <1>11 DEF Told
<1>20. Told(C, at)
  BY <1>10
<1> HIDE DEF n, m, c, x, call, left, calls, rest

<1>13. /\ \A i \in 1 .. n : C2[i] = C[i] /\ at2[i] = at[i]
       /\ \A i \in 1 .. m : C2[n + i] = calls[i] /\ at2[n + i] = i
       /\ C2[n + m + 1] = left /\ at2[n + m + 1] = at[n + 1]
       /\ \A i \in n + 2 .. c : C2[i + m] = C[i] /\ at2[i + m] = at[i]
       /\ DOMAIN C2 = 1 .. c + m /\ DOMAIN at2 = 1 .. c + m
  <2>1. n \in Nat /\ m \in Nat
    BY <1>2, <1>7
  <2>2. \A i \in 1 .. n : C2[i] = C[i] /\ at2[i] = at[i]
    BY <2>1, <1>12
  <2>3. \A i \in 1 .. m : C2[n + i] = calls[i] /\ at2[n + i] = i
    <3> SUFFICES ASSUME NEW i \in 1 .. m PROVE C2[n + i] = calls[i] /\ at2[n + i] = i
      OBVIOUS
    <3>1. n + i \in 1 .. c + m /\ ~(n + i <= n) /\ n + i <= n + m /\ (n + i) - n = i
      BY <2>1, <1>12
    <3>2. QED
      BY <3>1
  <2>4. C2[n + m + 1] = left /\ at2[n + m + 1] = at[n + 1]
    <3>1. n + m + 1 \in 1 .. c + m /\ ~(n + m + 1 <= n) /\ ~(n + m + 1 <= n + m)
          /\ (n + m + 1) - m = n + 1
      BY <2>1, <1>12
    <3>2. QED
      BY <3>1
  <2>5. \A i \in n + 2 .. c : C2[i + m] = C[i] /\ at2[i + m] = at[i]
    <3> SUFFICES ASSUME NEW i \in n + 2 .. c PROVE C2[i + m] = C[i] /\ at2[i + m] = at[i]
      OBVIOUS
    <3>1. i + m \in 1 .. c + m /\ ~(i + m <= n) /\ ~(i + m <= n + m) /\ i + m # n + m + 1
          /\ (i + m) - m = i
      BY <2>1, <1>12
    <3>2. QED
      BY <3>1
  <2>6. QED
    BY <2>2, <2>3, <2>4, <2>5
<1>14. C2 \in Seq(Call)
  <2>1. \A i \in 1 .. c + m : C2[i] \in Call
    <3> SUFFICES ASSUME NEW i \in 1 .. c + m PROVE C2[i] \in Call
      OBVIOUS
    <3>1. \A j \in 1 .. c : C[j] \in Call
      BY <1>10, <1>11 DEF c
    <3>2. \A j \in 1 .. m : calls[j] \in Call
      BY <1>9
    <3>3. QED
      BY <3>1, <3>2, <1>2, <1>4, <1>7, <1>12 DEF n
  <2>2. C2 \in [1 .. c + m -> Call]
    BY <2>1
  <2>3. PICK d \in Nat : d = c + m
    BY <1>7, <1>12
  <2> HIDE DEF C2
  <2>4. C2 \in [1 .. d -> Call]
    BY <2>2, <2>3
  <2>5. QED
    BY <2>4
<1>15. at2 \in Seq(Nat)
  <2>1. \A j \in 1 .. c : at[j] \in Nat
    BY <1>12
  <2>2. at2 \in [1 .. c + m -> Nat]
    BY <2>1, <1>2, <1>7, <1>12 DEF n
  <2>3. PICK d \in Nat : d = c + m
    BY <1>7, <1>12
  <2> HIDE DEF at2
  <2>4. at2 \in [1 .. d -> Nat]
    BY <2>2, <2>3
  <2>5. QED
    BY <2>4
<1> HIDE DEF C2, at2
<1>16. Told(C2, at2)
  <2>1. DOMAIN C = 1 .. c /\ ~C[n + 1].entered /\ C[n + 1].instance = x
        /\ C[n + 1].parent = call.parent
    BY <1>1, <1>11 DEF c, call, x
  <2>2. DOMAIN T!ListOf(x) = 1 .. m
    BY <1>7, <1>8
  <2>3. \A i \in 1 .. m : /\ C2[n + i].instance = T!ListOf(x)[i] /\ C2[n + i].parent = x
                           /\ ~C2[n + i].entered /\ at2[n + i] = i
    BY <1>8, <1>9, <1>13
  <2>4. /\ C2[n + m + 1].instance = x /\ C2[n + m + 1].parent = C[n + 1].parent
        /\ C2[n + m + 1].entered /\ at2[n + m + 1] = at[n + 1]
    BY <2>1, <1>4, <1>13
  <2>5. /\ \A i \in 1 .. n : C2[i] = C[i] /\ at2[i] = at[i]
        /\ \A i \in n + 2 .. c : C2[i + m] = C[i] /\ at2[i + m] = at[i]
        /\ DOMAIN C2 = 1 .. c + m /\ DOMAIN at2 = 1 .. c + m
    BY <1>13
  <2>6. n \in Nat /\ m \in Nat /\ c \in Nat /\ n < c
    BY <1>2, <1>7, <1>12 DEF n
  <2>7. Widened(C, at, C2, at2, n, m, c, x)
    BY <2>1, <2>2, <2>3, <2>4, <2>5, <2>6, <1>6 DEF Widened
  <2>8. QED
    BY <2>6, <2>7, <1>2, <1>20, EnterTold
<1>17. /\ Len(walk') = m + 1 + Len(rest) /\ Len(rest) \in Nat
       /\ \A i \in 1 .. m : walk'[i] = calls[i]
       /\ walk'[m + 1] = left
       /\ \A i \in 1 .. Len(rest) : walk'[m + 1 + i] = rest[i]
  <2>1. <<left>> \in Seq(Call) /\ Len(<<left>>) = 1 /\ <<left>>[1] = left
    BY <1>4
  <2>2. /\ calls \o <<left>> \in Seq(Call) /\ Len(calls \o <<left>>) = m + 1
        /\ \A i \in 1 .. m : (calls \o <<left>>)[i] = calls[i]
        /\ (calls \o <<left>>)[m + 1] = left
    BY <2>1, <1>9, Joined
  <2> DEFINE front == calls \o <<left>>
  <2> HIDE DEF front
  <2>3. front \in Seq(Call) /\ Len(front) = m + 1 /\ front[m + 1] = left
        /\ (\A i \in 1 .. m : front[i] = calls[i]) /\ walk' = front \o rest
    BY <2>2, <1>1 DEF front, call, calls, left, rest, x
  <2>4. /\ Len(walk') = m + 1 + Len(rest) /\ Len(rest) \in Nat
        /\ \A i \in 1 .. m + 1 : walk'[i] = front[i]
        /\ \A i \in 1 .. Len(rest) : walk'[m + 1 + i] = rest[i]
    <3>1. front \in Seq(Call) /\ rest \in Seq(Call)
      BY <2>3, <1>3
    <3>2. /\ Len(front \o rest) = Len(front) + Len(rest) /\ Len(rest) \in Nat
          /\ \A i \in 1 .. Len(front) : (front \o rest)[i] = front[i]
          /\ \A i \in 1 .. Len(rest) : (front \o rest)[Len(front) + i] = rest[i]
      BY ONLY <3>1, Joined
    <3>3. QED
      BY ONLY <2>3, <3>2
  <2>5. m \in Nat /\ m + 1 \in 1 .. m + 1 /\ \A i \in 1 .. m : i \in 1 .. m + 1
    BY <1>7
  <2> HIDE DEF calls, left, rest, m
  <2>6. \A i \in 1 .. m : walk'[i] = calls[i]
    BY ONLY <2>3, <2>4, <2>5
  <2>7. walk'[m + 1] = left
    BY ONLY <2>3, <2>4, <2>5
  <2>8. QED
    BY ONLY <2>4, <2>6, <2>7
<1>22. PICK CC \in Seq(Call), aa \in Seq(Nat) : CC = C2 /\ aa = at2
  BY <1>14, <1>15
<1>23. /\ \A i \in 1 .. n : CC[i] = C[i]
       /\ \A i \in 1 .. m : CC[n + i] = calls[i]
       /\ CC[n + m + 1] = left
       /\ \A i \in n + 2 .. c : CC[i + m] = C[i]
       /\ DOMAIN CC = 1 .. c + m
       /\ Told(CC, aa)
  BY <1>13, <1>16, <1>22
<1>18. Split(CC)'
  <2>1. 1 .. c + m = 1 .. n + Len(walk')
    <3>1. c + m = n + Len(walk')
      BY <1>2, <1>3, <1>7, <1>17 DEF c, n
    <3>2. QED
      BY <3>1
  <2>2. \A id : Number(id)' = Number(id)
    BY <1>1 DEF Number, Listed
  <2>3. \A i \in 1 .. n : C[i].entered /\ links[i] = LinkFor(C[i])
    BY <1>10 DEF Split, n
  <2>4. \A i \in 1 .. n : CC[i].entered /\ links[i] = [child |-> Number(CC[i].instance), parent |-> Number(CC[i].parent)]
    BY <2>3, <1>23 DEF LinkFor
  <2>5. ASSUME NEW i \in 1 .. Len(walk') PROVE CC[n + i] = walk'[i]
    <3>1. CASE i \in 1 .. m
      BY <3>1, <1>23, <1>17
    <3>2. CASE i = m + 1
      <4>1. n + i = n + m + 1
        BY <3>2, <1>2, <1>7
      <4>2. QED
        BY <3>2, <4>1, <1>23, <1>17
    <3>3. CASE i > m + 1
      <4>1. PICK j \in 1 .. Len(rest) : i = m + 1 + j
        <5>1. i - (m + 1) \in 1 .. Len(rest) /\ i = m + 1 + (i - (m + 1))
          BY <3>3, <1>7, <1>17
        <5>2. QED
          BY <5>1
      <4>2. walk'[i] = walk[j + 1]
        BY <4>1, <1>3, <1>17
      <4>3. C[n + (j + 1)] = walk[j + 1]
        <5>1. j + 1 \in 1 .. Len(walk)
          BY <1>3
        <5>2. QED
          BY <5>1, <1>10 DEF Split, n
      <4>4. n + j + 1 \in n + 2 .. c /\ n + i = (n + j + 1) + m /\ n + (j + 1) = n + j + 1
        BY <4>1, <1>2, <1>3, <1>7 DEF c, n
      <4>5. CC[(n + j + 1) + m] = C[n + j + 1]
        BY <4>4, <1>23
      <4>6. QED
        BY <4>2, <4>3, <4>4, <4>5
    <3>4. QED
      BY <3>1, <3>2, <3>3, <1>7, <1>17
  <2>6. links' = links
    BY <1>1
  <2>7. /\ DOMAIN CC = 1 .. Len(links') + Len(walk')
        /\ \A i \in 1 .. Len(links') : CC[i].entered /\ links'[i] = LinkFor(CC[i])'
        /\ \A i \in 1 .. Len(walk') : CC[Len(links') + i] = walk'[i]
    <3>1. Len(links') = n
      BY <2>6 DEF n
    <3>2. \A i : LinkFor(CC[i])' = [child |-> Number(CC[i].instance), parent |-> Number(CC[i].parent)]
      BY <2>2 DEF LinkFor
    <3>3. DOMAIN CC = 1 .. Len(links') + Len(walk')
      BY <2>1, <3>1, <1>23
    <3>4. \A i \in 1 .. n : CC[i].entered /\ links'[i] = LinkFor(CC[i])'
      BY <2>4, <2>6, <3>2
    <3>5. QED
      BY <2>5, <3>1, <3>3, <3>4
  <2>8. QED
    BY <2>7 DEF Split
<1>19. Told(CC, aa)'
  <2>1. T!Tree' = T!Tree /\ (\A p : T!ListOf(p)' = T!ListOf(p)) /\ Unique' = Unique
    <3>1. T!Tree' = T!Tree /\ (\A p : T!ListOf(p)' = T!ListOf(p))
      BY <1>1, TreeStays
    <3>2. QED
      BY <3>1 DEF Unique, T!Places, T!At
  <2>2. QED
    BY <1>23, <2>1 DEF Told, Found, Under, Covers
<1>21. QED
  BY <1>1, <1>6, <1>18, <1>19 DEF WalkInv

(* What is told of the calls speaks of the root alone.                     *)
LEMMA ToldStays ==
  ASSUME root' = root, NEW C, NEW at, Told(C, at)
  PROVE  Told(C, at)'
<1>1. T!Tree' = T!Tree /\ (\A p : T!ListOf(p)' = T!ListOf(p)) /\ Unique' = Unique
  <2>1. T!Tree' = T!Tree /\ (\A p : T!ListOf(p)' = T!ListOf(p))
    BY TreeStays
  <2>2. QED
    BY <2>1 DEF Unique, T!Places, T!At
<1>2. QED
  BY <1>1 DEF Told, Found, Under, Covers

(* A call that ends gets its link and stays where it is.                   *)
LEMMA LeaveWalk ==
  ASSUME TypeOK, WalkInv, LeaveInstance, ~Crash
  PROVE  WalkInv'
<1> DEFINE n == Len(links)
<1>1. /\ step = "link" /\ walk # <<>> /\ walk' = Tail(walk) /\ step' = "link"
      /\ links' = Append(links, LinkFor(Head(walk))) /\ Head(walk).entered
      /\ root' = root /\ instList' = instList
  BY DEF LeaveInstance
<1>2. /\ walk \in Seq(Call) /\ links \in Seq(Link) /\ n \in Nat
  BY DEF TypeOK, LinkTypeOK
<1>3. /\ Head(walk) = walk[1] /\ Len(walk) \in Nat /\ Len(walk) >= 1
      /\ Len(walk') = Len(walk) - 1 /\ \A i \in 1 .. Len(walk') : walk'[i] = walk[i + 1]
  BY <1>1, <1>2
<1>4. /\ Len(links') = n + 1 /\ (\A i \in 1 .. n : links'[i] = links[i])
      /\ links'[n + 1] = LinkFor(Head(walk))
  BY <1>1, <1>2, Appended
<1>5. instList # <<>>
  BY <1>1 DEF WalkInv
<1>6. PICK C \in Seq(Call), at \in Seq(Nat) : Split(C) /\ Told(C, at)
  BY <1>1, <1>5 DEF WalkInv
<1>7. Told(C, at)'
  BY <1>1, <1>6, ToldStays
<1>8. \A id : Number(id)' = Number(id)
  BY <1>1 DEF Number, Listed
<1>9. \A call : LinkFor(call)' = LinkFor(call)
  BY <1>8 DEF LinkFor
<1>10. /\ DOMAIN C = 1 .. n + Len(walk)
       /\ \A i \in 1 .. n : C[i].entered /\ links[i] = LinkFor(C[i])
       /\ \A i \in 1 .. Len(walk) : C[n + i] = walk[i]
  BY <1>6 DEF Split
<1> HIDE DEF n
<1>11. C[n + 1] = Head(walk)
  BY <1>3, <1>10
<1>12. /\ DOMAIN C = 1 .. Len(links') + Len(walk')
       /\ \A i \in 1 .. Len(links') : C[i].entered /\ links'[i] = LinkFor(C[i])
       /\ \A i \in 1 .. Len(walk') : C[Len(links') + i] = walk'[i]
  <2>1. DOMAIN C = 1 .. Len(links') + Len(walk')
    BY <1>2, <1>3, <1>4, <1>10
  <2>2. \A i \in 1 .. n + 1 : C[i].entered /\ links'[i] = LinkFor(C[i])
    <3> SUFFICES ASSUME NEW i \in 1 .. n + 1 PROVE C[i].entered /\ links'[i] = LinkFor(C[i])
      OBVIOUS
    <3>1. i \in 1 .. n \/ i = n + 1
      BY <1>2
    <3>2. QED
      BY <3>1, <1>1, <1>4, <1>10, <1>11
  <2>3. ASSUME NEW i \in 1 .. Len(walk') PROVE C[(n + 1) + i] = walk'[i]
    <3>1. i + 1 \in 1 .. Len(walk) /\ (n + 1) + i = n + (i + 1)
      BY <1>2, <1>3
    <3>2. QED
      BY <3>1, <1>3, <1>10
  <2>4. QED
    BY <2>1, <2>2, <2>3, <1>4
<1>13. Split(C)'
  BY <1>9, <1>12 DEF Split
<1>14. QED
  BY <1>1, <1>5, <1>7, <1>13 DEF WalkInv

(* The walk begins with the calls for the instances of the root.           *)
LEMMA FilledWalk ==
  ASSUME TypeOK, InTree, Reached, WalkInv, AllFilled
  PROVE  WalkInv'
<1>1. /\ step = "sort" /\ step' = "link" /\ root' = root /\ instList' = instList /\ links' = links
      /\ walk' = IF instList = <<>> THEN <<>> ELSE CallsFor(root.instances, Nil)
  BY DEF AllFilled
<1>2. links = <<>>
  BY <1>1 DEF WalkInv
<1>3. CASE instList = <<>>
  BY <1>1, <1>2, <1>3 DEF WalkInv
<1>4. CASE instList # <<>>
  <2>1. root \in Roots /\ root.instances \in Seq(Instances \cup {Nil})
    BY RootParts DEF TypeOK, ListTypeOK
  <2>2. PICK m \in Nat : m = Len(root.instances) /\ DOMAIN root.instances = 1 .. m
    BY <2>1
  <2>3. PICK C \in Seq(Call) : C = CallsFor(root.instances, Nil)
    BY <2>1, CallsType
  <2>4. /\ DOMAIN C = 1 .. m
        /\ \A i \in 1 .. m : C[i].instance = root.instances[i] /\ C[i].parent = Nil /\ ~C[i].entered
    BY <2>2, <2>3 DEF CallsFor
  <2>12. [i \in 1 .. m |-> i] \in Seq(Nat)
    <3>1. [i \in 1 .. m |-> i] \in [1 .. m -> Nat]
      OBVIOUS
    <3>2. QED
      BY <3>1
  <2>5. PICK at \in Seq(Nat) : at = [i \in 1 .. m |-> i]
    BY <2>12
  <2>6. T!ListOf(Nil) = root.instances
    BY DEF T!ListOf
  <2>7. Told(C, at)
    <3>1. \A i \in DOMAIN C : Found(C[i], at[i]) /\ Under(C, i)
      BY <2>2, <2>4, <2>5, <2>6 DEF Found, Under
    <3>2. ASSUME Unique PROVE Distinct(C)
      <4>1. ASSUME NEW i \in 1 .. m, NEW j \in 1 .. m, C[i].instance = C[j].instance
            PROVE  i = j
        <5>1. PICK p, q : p = <<Nil, i>> /\ q = <<Nil, j>>
          OBVIOUS
        <5>2. p \in T!Places /\ q \in T!Places
          BY <2>2, <2>6, <5>1 DEF T!Places
        <5>3. T!At(p) = T!At(q)
          BY <2>4, <2>6, <4>1, <5>1 DEF T!At
        <5>4. p = q
          BY <3>2, <5>2, <5>3 DEF Unique
        <5>5. QED
          BY <5>1, <5>4
      <4>2. QED
        BY <2>4, <4>1 DEF Distinct
    <3>3. InOrder(C, at)
      BY <2>4, <2>5 DEF InOrder
    <3>4. Covers(C, at, Nil)
      BY <2>2, <2>4, <2>5, <2>6 DEF Covers
    <3>5. QED
      BY <2>4, <2>5, <3>1, <3>2, <3>3, <3>4 DEF Told
  <2>8. Told(C, at)'
    BY <1>1, <2>7, ToldStays
  <2>9. /\ DOMAIN C = 1 .. Len(links') + Len(walk')
        /\ \A i \in 1 .. Len(links') : C[i].entered /\ links'[i] = LinkFor(C[i])'
        /\ \A i \in 1 .. Len(walk') : C[Len(links') + i] = walk'[i]
    <3>1. walk' = C /\ Len(links') = 0
      BY <1>1, <1>2, <1>4, <2>3
    <3>2. DOMAIN C = 1 .. Len(C) /\ Len(C) \in Nat
      OBVIOUS
    <3>3. QED
      BY <3>1, <3>2
  <2>10. Split(C)'
    BY <2>9 DEF Split
  <2>11. QED
    BY <1>1, <1>4, <2>8, <2>10 DEF WalkInv
<1>5. QED
  BY <1>3, <1>4

LEMMA WalkStart ==
  ASSUME Init
  PROVE  WalkInv
BY DEF Init, WalkInv

LEMMA WalkStep ==
  ASSUME TypeOK, InTree, Reached, Walked, WalkInv, Next
  PROVE  WalkInv'
<1>1. CASE AddInstance
  BY <1>1 DEF AddInstance, linkVars, WalkInv
<1>2. CASE AllFilled
  BY <1>2, FilledWalk
<1>3. CASE EnterInstance /\ ~Crash
  BY <1>3, EnterWalk
<1>4. CASE LeaveInstance /\ ~Crash
  BY <1>4, LeaveWalk
<1>5. CASE WriteChunks
  <2>1. /\ step = "link" /\ step' = "done" /\ walk = <<>> /\ walk' = walk /\ links' = links
        /\ root' = root /\ instList' = instList
    BY <1>5 DEF WriteChunks, linkVars
  <2>2. ASSUME instList # <<>>
        PROVE  \E C \in Seq(Call) : \E at \in Seq(Nat) : Split(C)' /\ Told(C, at)'
    <3>1. PICK C \in Seq(Call), at \in Seq(Nat) : Split(C) /\ Told(C, at)
      BY <2>1, <2>2 DEF WalkInv
    <3>2. Told(C, at)'
      BY <2>1, <3>1, ToldStays
    <3>3. \A id : Number(id)' = Number(id)
      BY <2>1 DEF Number, Listed
    <3>4. Split(C)'
      BY <2>1, <3>1, <3>3 DEF Split, LinkFor
    <3>5. QED
      BY <3>2, <3>4
  <2>3. QED
    BY <2>1, <2>2 DEF WalkInv
<1>6. CASE ~AllFilled /\ ~EnterInstance /\ ~LeaveInstance /\ Next /\ Still
  <2>1. links' = links /\ step \notin {"link", "done", "panic"} /\ step' \notin {"link", "done"}
    BY <1>6 DEF Next, Still, AddInstance, AllListed, GroupInstance, AllGrouped, NextGroup,
                CheckProperty, StartProperty, AllChecked, FillValue, GroupDone, WriteChunks, Crash
  <2>2. QED
    BY <2>1 DEF WalkInv
<1>7. CASE (EnterInstance \/ LeaveInstance) /\ Crash
  BY <1>7 DEF WalkInv, Crash
<1>8. QED
  BY <1>1, <1>2, <1>3, <1>4, <1>5, <1>6, <1>7, Moves

-------------------------------------------------------------------------------
(* What makes the walk panic.                                              *)

(* A call that is found leads to a place of the tree.                      *)
LEMMA FoundPlace ==
  ASSUME root \in Roots, NEW call, NEW e, Found(call, e), T!Sound
  PROVE  call.instance # Nil /\ call.instance \in T!Tree
<1>1. PICK p : p = <<call.parent, e>>
  OBVIOUS
<1>2. p \in T!Places /\ T!At(p) = call.instance
  BY <1>1 DEF Found, T!Places, T!At
<1>3. call.instance # Nil
  BY <1>2 DEF T!Sound
<1>4. CASE call.parent = Nil
  BY <1>3, <1>4, TreeParts DEF Found, T!ListOf
<1>5. CASE call.parent # Nil
  BY <1>3, <1>5, TreeParts DEF Found, T!ListOf
<1>6. QED
  BY <1>3, <1>4, <1>5

LEMMA WalkCrash ==
  ASSUME TypeOK, EncodeInv, InTree, Reached, WalkInv, Crash, EnterInstance \/ LeaveInstance
  PROVE  ~T!Sound
<1> SUFFICES ASSUME T!Sound PROVE FALSE
  OBVIOUS
<1>1. step = "link" /\ walk # <<>> /\ step' = "panic"
  BY DEF EnterInstance, LeaveInstance, Crash
<1>2. /\ root \in Roots /\ instList \in Seq(Instances) /\ walk \in Seq(Call) /\ links \in Seq(Link)
      /\ Len(walk) \in Nat /\ Len(walk) >= 1 /\ Head(walk) = walk[1]
      /\ Len(links) \in Nat /\ Len(instList) \in Nat
  BY <1>1 DEF TypeOK, ListTypeOK, LinkTypeOK
<1>3. instList # <<>>
  BY <1>1 DEF WalkInv
<1>4. PICK C \in Seq(Call), at \in Seq(Nat) : Split(C) /\ Told(C, at)
  BY <1>1, <1>3 DEF WalkInv
<1>5. PICK c \in Nat : c = Len(links) + Len(walk) /\ DOMAIN C = 1 .. c
  BY <1>2, <1>4 DEF Split
<1>6. \A i \in 1 .. c : C[i].instance # Nil /\ C[i].instance \in T!Tree
  <2>1. \A i \in 1 .. c : Found(C[i], at[i])
    BY <1>4, <1>5 DEF Told
  <2>2. QED
    BY <2>1, <1>2, FoundPlace
<1>7. CASE EnterInstance
  <2>1. Head(walk).instance = Nil
    BY <1>1, <1>7 DEF EnterInstance
  <2>2. Len(links) + 1 \in 1 .. c /\ C[Len(links) + 1] = walk[1]
    BY <1>2, <1>4, <1>5 DEF Split
  <2>3. QED
    BY <2>1, <2>2, <1>2, <1>6
<1>8. CASE LeaveInstance
  <2>1. Len(links) = Len(instList)
    BY <1>1, <1>8 DEF LeaveInstance
  <2>2. Distinct(C)
    BY <1>4 DEF Told, T!Sound, Unique
  <2>3. \A i \in 1 .. c : Listed(C[i].instance)
    BY <1>1, <1>6, TreeListed
  <2> DEFINE position(x) == CHOOSE j \in DOMAIN instList : instList[j] = x
             f == [i \in 1 .. c |-> position(C[i].instance)]
  <2>4. ASSUME NEW i \in 1 .. c
        PROVE  position(C[i].instance) \in 1 .. Len(instList)
               /\ instList[position(C[i].instance)] = C[i].instance
    <3>1. PICK j \in DOMAIN instList : instList[j] = C[i].instance
      BY <2>3 DEF Listed
    <3>2. QED
      BY <3>1, <1>2
  <2> HIDE DEF position
  <2>5. f \in [1 .. c -> 1 .. Len(instList)]
    BY <2>4
  <2>6. /\ IsFiniteSet(1 .. c) /\ Cardinality(1 .. c) = c
        /\ IsFiniteSet(1 .. Len(instList)) /\ Cardinality(1 .. Len(instList)) = Len(instList)
    <3>1. ASSUME NEW a \in Nat PROVE IsFiniteSet(1 .. a) /\ Cardinality(1 .. a) = a
      <4>1. IsFiniteSet(1 .. a) /\ Cardinality(1 .. a) = IF 1 > a THEN 0 ELSE a - 1 + 1
        BY FS_Interval
      <4>2. QED
        BY <4>1
    <3>2. QED
      BY <3>1, <1>2
  <2>7. Cardinality(1 .. Len(instList)) < Cardinality(1 .. c)
    BY <2>1, <2>6, <1>2, <1>5
  <2>8. PICK i \in 1 .. c, j \in 1 .. c : i # j /\ f[i] = f[j]
    <3> HIDE DEF f
    <3>1. QED
      BY <2>5, <2>6, <2>7, FS_PigeonHole
  <2>9. C[i].instance = C[j].instance
    BY <2>4, <2>8
  <2>10. QED
    BY <2>2, <2>8, <2>9, <1>5 DEF Distinct
<1>9. QED
  BY <1>7, <1>8

-------------------------------------------------------------------------------

(* The encoder's half once more: who is in the tree, what the groups and   *)
(* the arrays hold, and how the walk went.                                 *)
TellInv == InTree /\ Sorted /\ Verdicts /\ WalkInv
LostInv == step = "panic" => ~T!Sound

LEMMA TellStart ==
  ASSUME TripInit
  PROVE  TellInv /\ LostInv
<1>1. Init
  BY DEF TripInit
<1>2. Sorted /\ LostInv
  BY <1>1 DEF Init, Sorted, LostInv
<1>3. QED
  BY <1>1, <1>2, InTreeStart, VerdictsStart, WalkStart DEF TellInv

LEMMA LostStep ==
  ASSUME TypeOK, EncodeInv, WriteInv, TellInv, LostInv, Next
  PROVE  LostInv'
<1>1. root' = root
  BY DEF Next, AddInstance, AllListed, GroupInstance, AllGrouped, NextGroup,
         CheckProperty, StartProperty, AllChecked, FillValue, GroupDone, WriteChunks, Crash,
         AllFilled, EnterInstance, LeaveInstance
<1>2. (T!Sound)' = T!Sound
  BY <1>1, TreeStays
<1>3. CASE ~Crash
  <2>1. step' # "panic"
    BY <1>3 DEF Next, AddInstance, AllListed, GroupInstance, AllGrouped, NextGroup,
         CheckProperty, StartProperty, AllChecked, FillValue, GroupDone, WriteChunks,
         AllFilled, EnterInstance, LeaveInstance
  <2>2. QED
    BY <2>1 DEF LostInv
<1>4. CASE Crash
  <2>1. \/ \E name \in Names : CheckProperty(name) \/ StartProperty(name)
        \/ FillValue \/ EnterInstance \/ LeaveInstance
    BY <1>4 DEF Next, AddInstance, AllListed, GroupInstance, AllGrouped, NextGroup,
         AllChecked, GroupDone, WriteChunks, AllFilled, Crash
  <2>2. CASE EnterInstance \/ LeaveInstance
    BY <2>2, <1>2, <1>4, WalkCrash DEF LostInv, TellInv, WriteInv
  <2>3. ASSUME NEW name \in Names, CheckProperty(name) \/ StartProperty(name) PROVE LostInv'
    BY <2>3, <1>2, <1>4, GroupCrash DEF LostInv, TellInv
  <2>4. CASE FillValue
    <3>1. Current.name \in Names
      <4>1. propChunks # <<>> /\ propChunks \in Seq(PropChunk)
        BY <2>4 DEF FillValue, Filling, TypeOK, PropTypeOK
      <4>2. Current \in PropChunk
        BY <4>1 DEF Current
      <4>3. QED
        BY <4>2 DEF PropChunk
    <3>2. QED
      BY <2>4, <3>1, <1>2, <1>4, GroupCrash DEF LostInv, TellInv
  <2>5. QED
    BY <2>1, <2>2, <2>3, <2>4
<1>5. QED
  BY <1>3, <1>4

LEMMA TellStep ==
  ASSUME TypeOK, EncodeInv, WriteInv, TellInv, LostInv, [TripNext]_tripVars
  PROVE  TellInv' /\ LostInv'
<1>1. CASE Next
  <2>1. InTree' /\ Sorted' /\ Verdicts' /\ WalkInv'
    BY <1>1, InTreeStep, SortedStep, VerdictsStep, WalkStep DEF TellInv, WriteInv
  <2>2. QED
    BY <2>1, <1>1, LostStep DEF TellInv
<1>2. CASE UNCHANGED encodeVars
  <2>1. /\ root' = root /\ step' = step /\ todo' = todo /\ instList' = instList
        /\ instChunkMap' = instChunkMap /\ grouped' = grouped /\ instChunks' = instChunks
        /\ unchecked' = unchecked /\ propChunkMap' = propChunkMap /\ skipped' = skipped
        /\ propChunks' = propChunks /\ walk' = walk /\ links' = links
    BY <1>2 DEF encodeVars, propVars, linkVars
  <2>2. T!Tree' = T!Tree /\ (T!Sound)' = T!Sound
    BY <2>1, TreeStays
  <2>3. InTree' /\ LostInv'
    BY <2>1, <2>2 DEF InTree, TellInv, LostInv
  <2>4. \A id : ClassOf(id)' = ClassOf(id)
    BY <2>1 DEF ClassOf, InstanceAt
  <2>5. Sorted'
    BY <2>1, <2>4 DEF TellInv, Sorted, GroupClass, Waiting
  <2>6. ArraysStay
    BY <2>1 DEF ArraysStay
  <2>7. \A n : Verdict(n)' <=> Verdict(n)
    BY <2>1, GroupKept DEF Verdict, HasArray
  <2>8. Verdicts'
    BY <2>1, <2>6, <2>7, ArraysStayInv DEF TellInv, Verdicts
  <2>9. WalkInv'
    <3>1. ASSUME NEW C \in Seq(Call), NEW at \in Seq(Nat), Split(C) /\ Told(C, at)
          PROVE  Split(C)' /\ Told(C, at)'
      <4>1. Told(C, at)'
        BY <2>1, <3>1, ToldStays
      <4>2. \A id : Number(id)' = Number(id)
        BY <2>1 DEF Number, Listed
      <4>3. QED
        BY <2>1, <3>1, <4>1, <4>2 DEF Split, LinkFor
    <3>2. QED
      BY <2>1, <3>1 DEF TellInv, WalkInv
  <2>10. QED
    BY <2>3, <2>5, <2>8, <2>9 DEF TellInv
<1>3. QED
  BY <1>1, <1>2 DEF TripNext, Encode, WriteFile, ReadHeader, ReadChunk, Decode, Returned, tripVars

(* Only a tree that is not sound makes the encoder panic: one in which an  *)
(* instance occurs twice, a nil stands where an instance should, or the    *)
(* types of a property cannot be written together (rbxl/codec.go:530-740). *)
THEOREM OnlyUnsoundPanics == TripSpec => [](step = "panic" => ~T!Sound)
<1>1. TripInit => TripInv
  BY TripStart
<1>2. TripInv /\ [TripNext]_tripVars => TripInv'
  BY TripStep
<1>3. TripInit => TellInv /\ LostInv
  BY TellStart
<1>4. TripInv /\ TellInv /\ LostInv /\ [TripNext]_tripVars => TellInv' /\ LostInv'
  BY TellStep DEF TripInv
<1>5. LostInv => (step = "panic" => ~T!Sound)
  BY DEF LostInv
<1>6. QED
  BY <1>1, <1>2, <1>3, <1>4, <1>5, PTL DEF TripSpec

-------------------------------------------------------------------------------
(***************************************************************************)
(* What is taken: the decoder's half of Implements.  What RbxlDecodeProofs *)
(* knows of a file of whatever origin holds along the trip, where the      *)
(* header comes from the encoder and not from Headers.                     *)
(***************************************************************************)
DP == INSTANCE RbxlDecodeProofs WITH sharedStrings <- strings, Headers <- D!HeaderRecord

DecodeKnown == DP!TypeOK /\ DP!DecodeInv /\ DP!FileInv /\ DP!TablesSoFar

LEMMA SameKinds == DP!Flagged = D!Flagged /\ DP!Kinds = D!Kinds /\ DP!nilValue = D!nilValue
BY DEF DP!Flagged, D!Flagged, DP!Kinds, D!Kinds, DP!nilValue, D!nilValue

(* The assumptions of RbxlDecode hold of the decoder of the trip.          *)
LEMMA DecodeAssumed == DP!ChunkAssumption /\ DP!PayloadAssumption
<1>1. /\ DP!InstRecord = D!InstRecord /\ DP!PrntRecord = D!PrntRecord
      /\ DP!MetaRecord = D!MetaRecord /\ DP!SstrRecord = D!SstrRecord
      /\ DP!HeaderRecord = D!HeaderRecord /\ DP!Kinds = D!Kinds /\ DP!nilInstance = D!nilInstance
  BY SameKinds
     DEF DP!InstRecord, D!InstRecord, DP!PrntRecord, D!PrntRecord, DP!MetaRecord, D!MetaRecord,
         DP!SstrRecord, D!SstrRecord, DP!HeaderRecord, D!HeaderRecord,
         DP!nilInstance, D!nilInstance
<1>2. DP!ChunkAssumption
  BY <1>1, DecodeAssumption DEF DP!ChunkAssumption, D!ChunkAssumption
<1>3. DP!PayloadAssumption
  BY DecodeAssumption DEF DP!PayloadAssumption, D!PayloadAssumption
<1>4. QED
  BY <1>2, <1>3

(* A step of the decoder keeps what is known of it.                        *)
LEMMA DecodeKnownStep ==
  ASSUME DecodeKnown, [DP!Next]_(DP!vars)
  PROVE  DecodeKnown'
<1>1. DP!TypeOK' /\ DP!DecodeInv'
  BY DecodeAssumed, DP!DecodeStep DEF DecodeKnown
<1>2. DP!FileInv'
  BY DecodeAssumed, DP!FileStep DEF DecodeKnown
<1>3. DP!TablesSoFar'
  BY DecodeAssumed, DP!TablesStep DEF DecodeKnown
<1>4. QED
  BY <1>1, <1>2, <1>3 DEF DecodeKnown

(* What is known of the decoder holds before it has read anything.         *)
LEMMA DecodeKnownStart ==
  ASSUME TripInit
  PROVE  DecodeKnown
<1>1. DP!Init
  <2>1. header \in D!HeaderRecord
    BY DecodeAssumption DEF TripInit, D!Init, D!ChunkAssumption
  <2>2. QED
    BY <2>1 DEF TripInit, D!Init, DP!Init, D!Unset, DP!Unset, D!MetaKeys, DP!MetaKeys
<1>2. DP!TypeOK /\ DP!DecodeInv
  BY <1>1, DecodeAssumed, DP!DecodeStart
<1>3. DP!FileInv
  BY <1>1, DecodeAssumed, DP!FileStart
<1>4. DP!TablesSoFar
  BY <1>1, DecodeAssumed, DP!TablesStart
<1>5. QED
  BY <1>2, <1>3, <1>4 DEF DecodeKnown

(* The arrays a chunk can decode to are those of RbxlDecodeProofs.         *)
LEMMA SameArrays ==
  ASSUME NEW class, NEW name, NEW read \in D!Decodings(class, name)
  PROVE  read \in DP!Decodings(class, name)
<1>1. CASE read \in D!Arrays(class, name)
  <2> DEFINE length == Len(chunks[groupLookup[class]].ids)
             Presents(kind) == IF kind \in DP!Flagged THEN [1 .. length -> BOOLEAN] ELSE {<<>>}
             Read(kind, values, present) ==
               [sig |-> "PROP", class |-> class, name |-> name, kind |-> kind,
                values |-> values, present |-> present]
  <2>1. \E kind \in DP!Kinds : \E values \in [1 .. length -> Raw[kind]] :
          \E present \in Presents(kind) : read = Read(kind, values, present)
    <3>1. \E kind \in D!Kinds : \E values \in [1 .. length -> Raw[kind]] :
            \E present \in IF kind \in D!Flagged THEN [1 .. length -> BOOLEAN] ELSE {<<>>} :
              read = Read(kind, values, present)
      BY <1>1, ArrayParts
    <3> HIDE DEF length, Read
    <3>2. QED
      BY <3>1, SameKinds
  <2>2. DP!Arrays(class, name) =
          UNION {{Read(kind, values, present) : values \in [1 .. length -> Raw[kind]],
                                                present \in Presents(kind)} : kind \in DP!Kinds}
    BY DEF DP!Arrays
  <2> HIDE DEF length, Presents, Read
  <2>3. read \in DP!Arrays(class, name)
    BY <2>1, <2>2
  <2>4. QED
    BY <2>3, Zenon DEF DP!Decodings
<1>2. CASE read \notin D!Arrays(class, name)
  BY <1>2 DEF D!Decodings, DP!Decodings
<1>3. QED
  BY <1>1, <1>2

(* The steps of the decoder are those of RbxlDecodeProofs.                 *)
LEMMA DecodeSteps ==
  ASSUME TripInv, ReadHeader \/ ReadChunk \/ Decode
  PROVE  DP!Next
<1> USE DEF D!readVars, DP!readVars, D!treeVars, DP!treeVars
<1>1. CASE ReadHeader
  <2>1. DP!HeaderOK
    BY <1>1 DEF ReadHeader, D!HeaderOK, DP!HeaderOK
  <2>2. QED
    BY <2>1 DEF DP!Next
<1>2. CASE ReadChunk
  <2> DEFINE next == file[Len(chunks) + 1]
  <2> USE DEF D!Room, DP!Room, D!Keep, DP!Keep
  <2>1. CASE next \in InstChunks /\ D!KeepGroup(next)
    <3>1. DP!KeepGroup(next)
      BY <2>1 DEF D!KeepGroup, DP!KeepGroup, D!GroupEntry, DP!GroupEntry
    <3>2. QED
      BY <2>1, <3>1 DEF DP!ReadInstance, DP!Next
  <2>2. CASE D!ReadBroken
    <3>1. DP!ReadBroken
      BY <2>2 DEF D!ReadBroken, DP!ReadBroken, D!KeepErrored, DP!KeepErrored, D!Other, DP!Other
    <3>2. QED
      BY <3>1 DEF DP!Next
  <2>3. ASSUME next.sig = "PROP",
               NEW read, D!KeepProperty(read), read.class = next.class, read.name = next.name,
               read \in D!Decodings(next.class, next.name)
        PROVE  DP!Next
    <3>1. DP!KeepProperty(read)
      BY <2>3 DEF D!KeepProperty, DP!KeepProperty
    <3>2. read \in DP!Decodings(next.class, next.name)
      BY <2>3, SameArrays
    <3>3. /\ header # NoHeader /\ Len(chunks) + 1 \in 1 .. Len(file) /\ Len(chunks) \in Nat
      <4>1. phase = "chunks"
        BY <2>3 DEF D!KeepProperty
      <4>2. header # NoHeader /\ Len(chunks) < Len(file) /\ Len(chunks) \in Nat /\ step = "done"
        BY <4>1, <1>2 DEF ReadChunk, TripInv, ReadInv, ReadSoFar
      <4>3. Len(file) \in Nat
        BY <4>2, FileFacts DEF TripInv, WriteInv, FileOK
      <4>4. QED
        BY <4>2, <4>3
    <3>4. next \in PropChunk /\ next.class \in ClassIDs
      BY <2>3, <3>3, ArrayRead
    <3>5. next.name \in Names
      BY <3>4 DEF PropChunk
    <3>6. groupLookup[next.class] # 0
      BY <2>3 DEF D!KeepProperty
    <3>7. DP!ReadProperty
      BY <3>1, <3>2, <3>4, <3>5, <3>6 DEF DP!ReadProperty
    <3>8. QED
      BY <3>7 DEF DP!Next
  <2>4. CASE IsPacked(next) /\ ReadPacked(next)
    <3>1. CASE \E read \in D!Arrays(next.class, next.name) :
                 read.kind = "optional" /\ D!KeepProperty(read)
      <4>1. PICK read \in D!Arrays(next.class, next.name) : D!KeepProperty(read)
        BY <3>1
      <4>2. read.class = next.class /\ read.name = next.name
        <5> DEFINE class == next.class
                   name == next.name
        <5>1. read \in D!Arrays(class, name)
          BY <4>1
        <5> HIDE DEF next, class, name
        <5>2. read.class = class /\ read.name = name
          BY <5>1, ArrayParts
        <5>3. QED
          BY <5>2 DEF class, name
      <4>3. read \in D!Decodings(next.class, next.name)
        BY <4>1, Zenon DEF D!Decodings
      <4>4. QED
        BY <2>3, <2>4, <4>1, <4>2, <4>3 DEF IsPacked
    <3>2. QED
      BY <2>2, <2>4, <3>1 DEF ReadPacked
  <2>5. CASE next \in PrntChunks \cup MetaChunks \cup SstrChunks /\ D!KeepOther(next)
    <3>1. DP!KeepOther(next)
      BY <2>5 DEF D!KeepOther, DP!KeepOther
    <3>2. QED
      BY <2>5, <3>1 DEF DP!ReadOther, DP!Next
  <2>6. CASE D!ReadEnd
    <3>1. DP!ReadEnd
      BY <2>6 DEF D!ReadEnd, DP!ReadEnd, D!End, DP!End
    <3>2. QED
      BY <3>1 DEF DP!Next
  <2>7. CASE /\ next.sig = "PROP" /\ D!KeepProperty(next)
             /\ next \in D!Decodings(next.class, next.name)
    BY <2>3, <2>7
  <2> HIDE DEF next
  <2>8. \/ IsPacked(next) /\ ReadPacked(next)
        \/ next \in InstChunks /\ D!KeepGroup(next)
        \/ next.sig = "PROP" /\ D!KeepProperty(next) /\ next \in D!Decodings(next.class, next.name)
        \/ next \in PrntChunks \cup MetaChunks \cup SstrChunks /\ D!KeepOther(next)
        \/ D!ReadEnd
    BY <1>2 DEF ReadChunk, next
  <2>9. QED
    BY <2>1, <2>4, <2>5, <2>6, <2>7, <2>8
<1>3. CASE Decode
  <2> USE DEF D!At, DP!At, D!Current, DP!Current, D!Exists, DP!Exists, D!Fail, DP!Fail,
              D!ClassInBounds, DP!ClassInBounds, D!IdInBounds, DP!IdInBounds
  <2>1. CASE D!DecodeInstance
    <3>1. DP!DecodeInstance
      BY <2>1 DEF D!DecodeInstance, DP!DecodeInstance, D!IdsFree, DP!IdsFree,
           D!IsOwnGroup, DP!IsOwnGroup, D!IdsOf, DP!IdsOf, D!ServicesOf, DP!ServicesOf
    <3>2. QED
      BY <3>1 DEF DP!Next
  <2>2. CASE D!DecodeProperty
    <3>1. DP!DecodeProperty
      <4>1. \A v : D!Referent(v) = DP!Referent(v)
        BY DEF D!Referent, DP!Referent, D!nilInstance, DP!nilInstance
      <4>2. \A ch, i : D!Decoded(ch, i) = DP!Decoded(ch, i)
        BY <4>1, SameKinds DEF D!Decoded, DP!Decoded, D!NoneOf, DP!NoneOf
      <4>3. \A ch, i : D!GivesNil(ch, i) <=> DP!GivesNil(ch, i)
        BY SameKinds DEF D!GivesNil, DP!GivesNil
      <4>4. \A ch, ids : D!SetProperties(ch, ids) <=> DP!SetProperties(ch, ids)
        BY <4>2, Zenon DEF D!SetProperties, DP!SetProperties
      <4>5. QED
        BY <2>2, <4>3, <4>4 DEF D!DecodeProperty, DP!DecodeProperty, D!Skip, DP!Skip, D!Panic, DP!Panic
    <3>2. QED
      BY <3>1 DEF DP!Next
  <2>3. CASE D!EnterParent
    <3>1. DP!EnterParent
      BY <2>3 DEF D!EnterParent, DP!EnterParent
    <3>2. QED
      BY <3>1 DEF DP!Next
  <2>4. CASE D!LinkChild
    <3>1. DP!LinkChild
      BY <2>4 DEF D!LinkChild, DP!LinkChild, D!Attach, DP!Attach, D!nilInstance, DP!nilInstance
    <3>2. QED
      BY <3>1 DEF DP!Next
  <2>5. CASE D!LeaveParent
    <3>1. DP!LeaveParent
      BY <2>5 DEF D!LeaveParent, DP!LeaveParent
    <3>2. QED
      BY <3>1 DEF DP!Next
  <2>6. CASE D!DecodeMeta
    <3>1. DP!DecodeMeta
      BY <2>6 DEF D!DecodeMeta, DP!DecodeMeta, D!IsLastPair, DP!IsLastPair, D!MetaKeys, DP!MetaKeys
    <3>2. QED
      BY <3>1 DEF DP!Next
  <2>7. CASE D!DecodeSharedStrings
    <3>1. DP!DecodeSharedStrings
      BY <2>7 DEF D!DecodeSharedStrings, DP!DecodeSharedStrings
    <3>2. QED
      BY <3>1 DEF DP!Next
  <2>8. CASE D!DecodeEnd
    <3>1. DP!DecodeEnd
      BY <2>8 DEF D!DecodeEnd, DP!DecodeEnd
    <3>2. QED
      BY <3>1 DEF DP!Next
  <2>9. CASE D!PassOther
    <3>1. DP!PassOther
      BY <2>9 DEF D!PassOther, DP!PassOther
    <3>2. QED
      BY <3>1 DEF DP!Next
  <2>10. QED
    BY <1>3, <2>1, <2>2, <2>3, <2>4, <2>5, <2>6, <2>7, <2>8, <2>9 DEF Decode
<1>4. QED
  BY <1>1, <1>2, <1>3

(* Writing the file gives the decoder its header and nothing else.         *)
LEMMA WriteFileKnown ==
  ASSUME TripInv, DecodeKnown, WriteFile
  PROVE  DecodeKnown'
<1>1. /\ header' = FileHeader
      /\ UNCHANGED <<phase, chunks, groupLookup, total, warns, err, pos, link,
                     instLookup, services, properties, children, metadata, strings>>
  BY DEF WriteFile
<1>2. header' \in D!HeaderRecord
  <2>1. Len(instChunks) \in Nat /\ Len(instList) \in Nat
    BY DEF TripInv, TypeOK, GroupTypeOK, ListTypeOK
  <2>2. QED
    BY <1>1, <2>1 DEF FileHeader, D!HeaderRecord
<1>3. DP!TypeOK'
  <2>1. DP!ControlTypeOK'
    BY <1>1 DEF DecodeKnown, DP!TypeOK, DP!ControlTypeOK
  <2>2. DP!ReadTypeOK'
    BY <1>1, <1>2 DEF DecodeKnown, DP!TypeOK, DP!ReadTypeOK
  <2>3. DP!TreeTypeOK'
    BY <1>1 DEF DecodeKnown, DP!TypeOK, DP!TreeTypeOK
  <2>4. QED
    BY <2>1, <2>2, <2>3 DEF DP!TypeOK
<1>4. DP!DecodeInv'
  <2>1. DP!Payloads' /\ DP!PropsFit' /\ DP!GroupsKnown' /\ DP!GroupsDone'
    BY <1>1 DEF DecodeKnown, DP!DecodeInv, DP!Payloads, DP!PropsFit, DP!GroupsKnown, DP!GroupsDone
  <2>2. DP!EndLast' /\ DP!Reading' /\ DP!InstancesExist' /\ DP!GroupsFit'
    BY <1>1 DEF DecodeKnown, DP!DecodeInv, DP!EndLast, DP!Reading, DP!InstancesExist, DP!GroupsFit
  <2>3. QED
    BY <2>1, <2>2 DEF DP!DecodeInv
<1>5. DP!FileInv'
  BY <1>1, DecodeAssumed, DP!FileStays DEF DecodeKnown
<1>6. DP!TablesSoFar'
  BY <1>1, DecodeAssumed, DP!TablesStay DEF DecodeKnown
<1>7. QED
  BY <1>3, <1>4, <1>5, <1>6 DEF DecodeKnown

(* A step of the trip is one of the decoder or leaves alone what it reads. *)
LEMMA TripKnownStep ==
  ASSUME TripInv, DecodeKnown, [TripNext]_tripVars
  PROVE  DecodeKnown'
<1>1. CASE ReadHeader \/ ReadChunk \/ Decode
  BY <1>1, DecodeSteps, DecodeKnownStep
<1>2. CASE UNCHANGED decodeVars
  <2>1. UNCHANGED DP!vars
    BY <1>2 DEF decodeVars, DP!vars, DP!readVars, DP!treeVars
  <2>2. QED
    BY <2>1, DecodeKnownStep
<1>3. CASE WriteFile
  BY <1>3, WriteFileKnown
<1>4. QED
  BY <1>1, <1>2, <1>3 DEF TripNext, Encode, Returned, tripVars

-------------------------------------------------------------------------------
(* What the chunks before the groups say.                                  *)
Order(values) == root.metadata # {} /\ values \in Orders(root.metadata)

FileTables ==
  step = "done" =>
    /\ \A i \in 1 .. Len(file) :
         /\ file[i].sig = "META" => Order(file[i].values)
         /\ file[i].sig = "SSTR" => file[i].values = sharedStrings
    /\ root.metadata # {} => \E i \in 1 .. Len(file) : file[i].sig = "META"
    /\ sharedStrings # <<>> => \E i \in 1 .. Len(file) : file[i].sig = "SSTR"

(* Where a sequence is found again that was joined to others.              *)
LEMMA JoinedFirst ==
  ASSUME NEW S, NEW s \in Seq(S), NEW t \in Seq(S), NEW j \in 1 .. Len(s)
  PROVE  j \in 1 .. Len(s \o t) /\ (s \o t)[j] = s[j] /\ s \o t \in Seq(S)
OBVIOUS

(* Only the metadata without a key is written as no pair at all.           *)
LEMMA OrdersEmpty ==
  ASSUME root \in Roots, NEW values \in Orders(root.metadata)
  PROVE  values = <<>> <=> root.metadata = {}
<1> DEFINE S == root.metadata
           n == Cardinality(S)
<1>1. IsFiniteSet(S)
  BY MetadataAssumption
<1>2. n \in Nat /\ (n = 0 <=> S = {})
  BY <1>1, FS_CardinalityType, FS_EmptySet
<1>3. values \in [1 .. n -> S] /\ DOMAIN values = 1 .. n
  BY DEF Orders
<1>4. values = <<>> <=> n = 0
  <2>1. PICK d \in Nat : d = n
    BY <1>2
  <2> HIDE DEF n, S
  <2>2. values \in Seq(S) /\ Len(values) = d
    BY <1>3, <2>1
  <2>3. QED
    BY <2>1, <2>2
<1>5. QED
  BY <1>2, <1>4

(* The file gets the metadata and the shared strings, each if there are    *)
(* any.                                                                    *)
LEMMA WriteTables ==
  ASSUME TypeOK, WriteChunks
  PROVE  FileTables'
<1>1. /\ root' = root /\ sharedStrings' = sharedStrings /\ root \in Roots
  BY DEF WriteChunks, propVars, linkVars, TypeOK, ListTypeOK
<1>2. PICK values \in Orders(root.metadata) :
        file' = (IF values = <<>> THEN <<>> ELSE <<[sig |-> "META", values |-> values]>>)
               \o (IF sharedStrings = <<>> THEN <<>>
                   ELSE <<[sig |-> "SSTR", values |-> sharedStrings]>>)
               \o instChunks \o propChunks \o <<ParentChunk, [sig |-> "END"]>>
  BY DEF WriteChunks
<1> DEFINE meta == [sig |-> "META", values |-> values]
           sstr == [sig |-> "SSTR", values |-> sharedStrings]
           last == [sig |-> "END"]
           metas == IF values = <<>> THEN {} ELSE {meta}
           sstrs == IF sharedStrings = <<>> THEN {} ELSE {sstr}
           others == {last, ParentChunk} \cup InstChunk \cup PropChunk
           C == metas \cup sstrs \cup others
           m == IF values = <<>> THEN <<>> ELSE <<meta>>
           s == IF sharedStrings = <<>> THEN <<>> ELSE <<sstr>>
           tail == <<ParentChunk, last>>
<1>3. file' = (((m \o s) \o instChunks) \o propChunks) \o tail
  BY <1>2
<1>4. /\ meta.sig = "META" /\ sstr.sig = "SSTR" /\ meta.values = values
      /\ sstr.values = sharedStrings
      /\ \A ch \in others : ch.sig \notin {"META", "SSTR"}
  <2>1. last.sig = "END" /\ ParentChunk.sig = "PRNT"
    BY DEF ParentChunk
  <2>2. QED
    BY <2>1, ChunkSigs
<1>5. instChunks \in Seq(InstChunk) /\ propChunks \in Seq(PropChunk)
  BY DEF TypeOK, GroupTypeOK, PropTypeOK
<1>6. instChunks \in Seq(C) /\ propChunks \in Seq(C) /\ last \in C /\ ParentChunk \in C
  BY <1>5
<1> HIDE DEF meta, sstr, last
<1>7. m \in Seq(C) /\ s \in Seq(C) /\ tail \in Seq(C)
  <2>1. values # <<>> => meta \in C
    OBVIOUS
  <2>2. sharedStrings # <<>> => sstr \in C
    OBVIOUS
  <2> HIDE DEF C
  <2>3. m \in Seq(C)
    BY <2>1
  <2>4. s \in Seq(C)
    BY <2>2
  <2>5. tail \in Seq(C)
    BY <1>6
  <2>6. QED
    BY <2>3, <2>4, <2>5
<1>8. \A ch \in C : /\ ch.sig = "META" => values # <<>> /\ ch = meta
                    /\ ch.sig = "SSTR" => ch = sstr
  BY <1>4
<1>9. /\ values # <<>> => Len(m) = 1 /\ m[1] = meta
      /\ sharedStrings # <<>> => Len(s) = 1 /\ s[1] = sstr
  OBVIOUS
<1> HIDE DEF m, s, tail, C, others, metas, sstrs
<1>10. /\ m \o s \in Seq(C) /\ (m \o s) \o instChunks \in Seq(C)
       /\ ((m \o s) \o instChunks) \o propChunks \in Seq(C)
       /\ (((m \o s) \o instChunks) \o propChunks) \o tail \in Seq(C)
  <2>1. m \o s \in Seq(C)
    BY <1>7
  <2> DEFINE a == m \o s
             b == a \o instChunks
             c == b \o propChunks
  <2>2. b \in Seq(C)
    BY <2>1, <1>6, Joined
  <2>3. c \in Seq(C)
    <3> HIDE DEF b
    <3>1. QED
      BY <2>2, <1>6, Joined
  <2>4. c \o tail \in Seq(C)
    <3> HIDE DEF c
    <3>1. QED
      BY <2>3, <1>7, Joined
  <2>5. QED
    BY <2>1, <2>2, <2>3, <2>4
<1>11. file' \in Seq(C)
  BY <1>3, <1>10
<1>12. \A i \in 1 .. Len(file') : file'[i] \in C
  BY <1>11
<1>13. ASSUME NEW j \in 1 .. Len(m \o s)
       PROVE  j \in 1 .. Len(file') /\ file'[j] = (m \o s)[j]
  <2> DEFINE a == m \o s
             b == a \o instChunks
             c == b \o propChunks
  <2>1. a \in Seq(C) /\ b \in Seq(C) /\ c \in Seq(C) /\ file' = c \o tail /\ j \in 1 .. Len(a)
    BY <1>3, <1>10, <1>13
  <2>2. j \in 1 .. Len(b) /\ b[j] = a[j]
    <3> HIDE DEF a
    <3>1. QED
      BY <2>1, <1>6, JoinedFirst
  <2>3. j \in 1 .. Len(c) /\ c[j] = b[j]
    <3> HIDE DEF a, b
    <3>1. QED
      BY <2>1, <2>2, <1>6, JoinedFirst
  <2>4. j \in 1 .. Len(c \o tail) /\ (c \o tail)[j] = c[j]
    <3> HIDE DEF a, b, c
    <3>1. QED
      BY <2>1, <2>3, <1>7, JoinedFirst
  <2>5. QED
    BY <2>1, <2>2, <2>3, <2>4
<1>14. values # <<>> => \E j \in 1 .. Len(file') : file'[j].sig = "META"
  <2> SUFFICES ASSUME values # <<>> PROVE \E j \in 1 .. Len(file') : file'[j].sig = "META"
    OBVIOUS
  <2>1. 1 \in 1 .. Len(m) /\ m[1] = meta
    BY <1>9
  <2>2. 1 \in 1 .. Len(m \o s) /\ (m \o s)[1] = meta
    BY <1>7, <2>1, JoinedFirst
  <2>3. QED
    BY <1>4, <1>13, <2>2
<1>15. sharedStrings # <<>> => \E j \in 1 .. Len(file') : file'[j].sig = "SSTR"
  <2> SUFFICES ASSUME sharedStrings # <<>> PROVE \E j \in 1 .. Len(file') : file'[j].sig = "SSTR"
    OBVIOUS
  <2>1. Len(s) = 1 /\ s[1] = sstr
    BY <1>9
  <2>2. /\ Len(m \o s) = Len(m) + Len(s) /\ Len(m) \in Nat
        /\ \A i \in 1 .. Len(s) : (m \o s)[Len(m) + i] = s[i]
    BY <1>7, Joined
  <2>3. Len(m) + 1 \in 1 .. Len(m \o s) /\ (m \o s)[Len(m) + 1] = sstr
    BY <2>1, <2>2
  <2>4. QED
    BY <1>4, <1>13, <2>3
<1>16. values = <<>> <=> root.metadata = {}
  BY <1>1, OrdersEmpty
<1>17. \A i \in 1 .. Len(file') :
         /\ file'[i].sig = "META" => Order(file'[i].values)
         /\ file'[i].sig = "SSTR" => file'[i].values = sharedStrings
  BY <1>4, <1>8, <1>12, <1>16 DEF Order
<1>18. QED
  BY <1>1, <1>14, <1>15, <1>16, <1>17 DEF FileTables, Order, Orders

-------------------------------------------------------------------------------
(* What the groups and the arrays say of the instances.                    *)
MarksServices(ch) ==
  /\ ch.isService <=> \E i \in DOMAIN ch.ids : IsService(ch.ids[i])
  /\ ch.isService => /\ DOMAIN ch.getService = DOMAIN ch.ids
                     /\ \A i \in DOMAIN ch.ids : ch.getService[i] = 1 <=> IsService(ch.ids[i])

(* Element i of an array for the value v, where number is what a reference *)
(* v leads to.                                                             *)
Says(ch, i, v, number, table) ==
  /\ v.type = "reference" => ch.values[i] = number
  /\ v.type = "shared" => /\ ch.values[i] + 1 \in DOMAIN table
                          /\ table[ch.values[i] + 1] = v.value
  /\ v.type \in {"value", "unique"} \/ Encodable(v) => ch.values[i] = v.value
  /\ v.type = "absent" => ch.values[i] = 0
  /\ ch.kind = "optional" => i \in DOMAIN ch.present /\ (ch.present[i] <=> Encodable(v))

ValueOfElement(p, i) == ValueIn(propChunks[p].class + 1, i, propChunks[p].name)

SaysElement(p, i) ==
  Says(propChunks[p], i, ValueOfElement(p, i), Number(ValueOfElement(p, i).value), sharedStrings)

Contents ==
  /\ \A k \in DOMAIN instChunks : MarksServices(instChunks[k])
  /\ \A p \in DOMAIN propChunks :
       /\ propChunks[p].kind = "optional" => Len(propChunks[p].present) = Len(propChunks[p].values)
       /\ \A i \in DOMAIN propChunks[p].values : SaysElement(p, i)

(* An element keeps what it says while the tables grow.                    *)
LEMMA SaysOn ==
  ASSUME NEW ch, NEW i, NEW v, NEW number, NEW table, Says(ch, i, v, number, table),
         NEW ch2, NEW table2, ch2.values[i] = ch.values[i], ch2.kind = ch.kind,
         ch2.kind = "optional" => i \in DOMAIN ch2.present /\ (ch2.present[i] <=> ch.present[i]),
         \A j \in DOMAIN table : j \in DOMAIN table2 /\ table2[j] = table[j]
  PROVE  Says(ch2, i, v, number, table2)
BY DEF Says

(* A group is marked as it was while the root and the list stay.           *)
LEMMA MarksStay ==
  ASSUME root' = root, instList' = instList, NEW ch, MarksServices(ch)
  PROVE  MarksServices(ch)'
<1>1. \A id : IsService(id)' <=> IsService(id)
  BY DEF IsService, InstanceAt
<1>2. QED
  BY <1>1 DEF MarksServices

(* The values behind the elements stay with the list and the groups.       *)
LEMMA ElementsStay ==
  ASSUME TypeOK, EncodeInv, root' = root, instList' = instList,
         \A k \in DOMAIN instChunks : instChunks'[k] = instChunks[k],
         NEW p \in DOMAIN propChunks,
         propChunks'[p].class = propChunks[p].class, propChunks'[p].name = propChunks[p].name,
         NEW i
  PROVE  /\ ValueOfElement(p, i)' = ValueOfElement(p, i)
         /\ Number(ValueOfElement(p, i).value)' = Number(ValueOfElement(p, i).value)
<1>1. propChunks[p].class + 1 \in DOMAIN instChunks
  BY DEF EncodeInv, ArraysGrow
<1>2. ValueOfElement(p, i)' = ValueOfElement(p, i)
  BY <1>1 DEF ValueOfElement, ValueIn, Property, InstanceAt
<1>3. \A x : Number(x)' = Number(x)
  BY DEF Number, Listed
<1>4. PICK v : v = ValueOfElement(p, i)
  OBVIOUS
<1>5. Number(ValueOfElement(p, i).value)' = Number(v.value)'
  BY <1>2, <1>4 DEF Number, Listed
<1>6. QED
  BY <1>2, <1>3, <1>4, <1>5

(* Steps that touch neither the chunks made nor the tables.                *)
LEMMA ContentsStay ==
  ASSUME TypeOK, EncodeInv, Contents, root' = root, instList' = instList,
         instChunks' = instChunks, propChunks' = propChunks, sharedStrings' = sharedStrings
  PROVE  Contents'
<1>1. \A k \in DOMAIN instChunks : MarksServices(instChunks[k])'
  BY MarksStay DEF Contents
<1>2. ASSUME NEW p \in DOMAIN propChunks, NEW i \in DOMAIN propChunks[p].values
      PROVE  SaysElement(p, i)'
  <2>1. /\ ValueOfElement(p, i)' = ValueOfElement(p, i)
        /\ Number(ValueOfElement(p, i).value)' = Number(ValueOfElement(p, i).value)
    BY ElementsStay
  <2>2. SaysElement(p, i)
    BY DEF Contents
  <2>3. QED
    BY <2>1, <2>2 DEF SaysElement, Says, Encodable
<1>3. QED
  BY <1>1, <1>2 DEF Contents, MarksServices, IsService, InstanceAt

(* A new group says which of its instances are services.                   *)
LEMMA NextGroupContents ==
  ASSUME TypeOK, EncodeInv, Contents, NEW class \in Classes, NextGroup(class)
  PROVE  Contents'
<1> DEFINE ids == instChunkMap[class]
           new == InstChunkOf(ids)
<1>1. /\ root' = root /\ instList' = instList /\ propChunks' = propChunks
      /\ sharedStrings' = sharedStrings
  BY DEF NextGroup
<1>2. ids \in Seq(Nat)
  BY DEF TypeOK, GroupTypeOK
<1>3. instChunks' = Append(instChunks, new) /\ instChunks \in Seq(InstChunk)
  BY DEF NextGroup, TypeOK, GroupTypeOK
<1>4. MarksServices(new)
  BY <1>2 DEF InstChunkOf, MarksServices
<1> HIDE DEF new
<1>5. /\ DOMAIN instChunks' = 1 .. Len(instChunks) + 1 /\ DOMAIN instChunks = 1 .. Len(instChunks)
      /\ \A i \in 1 .. Len(instChunks) : instChunks'[i] = instChunks[i]
      /\ instChunks'[Len(instChunks) + 1] = new
  BY <1>3, Appended
<1>6. PICK c : c = new
  OBVIOUS
<1>7. MarksServices(c)'
  BY <1>1, <1>4, <1>6, MarksStay
<1>8. ASSUME NEW k \in DOMAIN instChunks', NEW d, d = instChunks'[k]
      PROVE  MarksServices(d)'
  <2>1. CASE k \in DOMAIN instChunks
    <3>1. MarksServices(d)
      BY <1>5, <1>8, <2>1 DEF Contents
    <3>2. QED
      BY <1>1, <3>1, MarksStay
  <2>2. CASE k = Len(instChunks) + 1
    <3>1. d = c
      BY <1>5, <1>6, <1>8, <2>2
    <3>2. QED
      BY <1>7, <3>1
  <2>3. QED
    BY <1>3, <1>5, <2>1, <2>2
<1>9. ASSUME NEW p \in DOMAIN propChunks, NEW i \in DOMAIN propChunks[p].values
      PROVE  SaysElement(p, i)'
  <2>1. /\ ValueOfElement(p, i)' = ValueOfElement(p, i)
        /\ Number(ValueOfElement(p, i).value)' = Number(ValueOfElement(p, i).value)
    BY <1>1, <1>5, ElementsStay
  <2>2. SaysElement(p, i)
    BY DEF Contents
  <2>3. QED
    BY <1>1, <2>1, <2>2 DEF SaysElement, Says, Encodable
<1>10. (\A k \in DOMAIN instChunks : MarksServices(instChunks[k]))'
  <2>1. ASSUME NEW k \in DOMAIN instChunks' PROVE \E d : d = instChunks'[k] /\ MarksServices(d)'
    BY <1>8
  <2>2. QED
    BY <2>1 DEF MarksServices, IsService, InstanceAt
<1>11. QED
  BY <1>1, <1>9, <1>10 DEF Contents

(* An element keeps what it says while its array and the tables grow.      *)
LEMMA ElementOn ==
  ASSUME TypeOK, EncodeInv, Contents, root' = root, instList' = instList,
         instChunks' = instChunks,
         NEW p \in DOMAIN propChunks, NEW i \in DOMAIN propChunks[p].values,
         propChunks'[p].class = propChunks[p].class, propChunks'[p].name = propChunks[p].name,
         propChunks'[p].kind = propChunks[p].kind,
         propChunks'[p].values[i] = propChunks[p].values[i],
         propChunks[p].kind = "optional" =>
           i \in DOMAIN propChunks'[p].present /\ propChunks'[p].present[i] = propChunks[p].present[i],
         \A j \in DOMAIN sharedStrings :
           j \in DOMAIN sharedStrings' /\ sharedStrings'[j] = sharedStrings[j]
  PROVE  SaysElement(p, i)'
<1>1. /\ ValueOfElement(p, i)' = ValueOfElement(p, i)
      /\ Number(ValueOfElement(p, i).value)' = Number(ValueOfElement(p, i).value)
  BY ElementsStay
<1>2. SaysElement(p, i)
  BY DEF Contents
<1>3. PICK v : v = ValueOfElement(p, i)
  OBVIOUS
<1>4. PICK number : number = Number(ValueOfElement(p, i).value)
  OBVIOUS
<1>5. PICK ch : ch = propChunks[p]
  OBVIOUS
<1>6. PICK ch2 : ch2 = propChunks'[p]
  OBVIOUS
<1>7. PICK table2 : table2 = sharedStrings'
  OBVIOUS
<1>8. Says(ch, i, v, number, sharedStrings)
  BY <1>2, <1>3, <1>4, <1>5 DEF SaysElement
<1>9. Says(ch2, i, v, number, table2)
  BY <1>5, <1>6, <1>7, <1>8, SaysOn
<1>10. QED
  BY <1>1, <1>3, <1>4, <1>6, <1>7, <1>9 DEF SaysElement, Says, Encodable

(* An array begins with no element.                                        *)
LEMMA StartContents ==
  ASSUME TypeOK, EncodeInv, Contents, NEW name \in Names, StartProperty(name), ~Crash
  PROVE  Contents'
<1>1. /\ root' = root /\ instList' = instList /\ instChunks' = instChunks
      /\ sharedStrings' = sharedStrings
  BY DEF StartProperty
<1>2. PICK new : /\ propChunks' = Append(propChunks, new)
                 /\ new.values = <<>> /\ new.present = <<>>
  BY DEF StartProperty
<1>3. propChunks \in Seq(PropChunk)
  BY DEF TypeOK, PropTypeOK
<1>4. /\ DOMAIN propChunks' = 1 .. Len(propChunks) + 1 /\ DOMAIN propChunks = 1 .. Len(propChunks)
      /\ \A p \in 1 .. Len(propChunks) : propChunks'[p] = propChunks[p]
      /\ propChunks'[Len(propChunks) + 1] = new
  BY <1>2, <1>3, Appended
<1>5. \A k \in DOMAIN instChunks : MarksServices(instChunks[k])'
  BY <1>1, MarksStay DEF Contents
<1>6. ASSUME NEW p \in DOMAIN propChunks'
      PROVE  /\ propChunks'[p].kind = "optional" =>
                  Len(propChunks'[p].present) = Len(propChunks'[p].values)
             /\ \A i \in DOMAIN propChunks'[p].values : SaysElement(p, i)'
  <2>1. CASE p \in DOMAIN propChunks
    <3>1. propChunks'[p] = propChunks[p]
      BY <1>4, <2>1
    <3>2. propChunks[p].kind = "optional" =>
            /\ Len(propChunks[p].present) = Len(propChunks[p].values)
            /\ DOMAIN propChunks[p].present = DOMAIN propChunks[p].values
      <4>1. propChunks[p] \in PropChunk
        BY <1>3, <2>1
      <4>2. propChunks[p].present \in Seq(BOOLEAN) /\ propChunks[p].values \in Seq(Int)
        BY <4>1 DEF PropChunk
      <4>3. QED
        BY <2>1, <4>2 DEF Contents
    <3>3. ASSUME NEW i \in DOMAIN propChunks[p].values PROVE SaysElement(p, i)'
      BY <1>1, <2>1, <3>1, <3>2, ElementOn
    <3>4. QED
      BY <3>1, <3>2, <3>3
  <2>2. CASE p = Len(propChunks) + 1
    BY <1>2, <1>4, <2>2
  <2>3. QED
    BY <1>3, <1>4, <2>1, <2>2
<1>7. QED
  BY <1>1, <1>5, <1>6 DEF Contents, MarksServices, IsService, InstanceAt

(* The element made of a value says that value.                            *)
LEMMA ElementMade ==
  ASSUME TypeOK, NEW v \in Value, NEW ch, NEW i, ch.values[i] = Element(v),
         ch.kind = "optional" => i \in DOMAIN ch.present /\ (ch.present[i] <=> Encodable(v)),
         NEW table,
         table = IF v.type = "shared" /\ ~Known(v.value)
                 THEN Append(sharedStrings, v.value) ELSE sharedStrings
  PROVE  Says(ch, i, v, Number(v.value), table)
<1>1. v.type = "reference" => Element(v) = Number(v.value)
  BY DEF Element
<1>2. v.type = "shared" => Element(v) = Index(v.value)
  BY DEF Element
<1>3. v.type \in {"value", "unique"} \/ Encodable(v) => Element(v) = v.value
  BY DEF Element, Encodable
<1>4. v.type = "absent" => Element(v) = 0
  BY DEF Element
<1>5. ASSUME v.type = "shared"
      PROVE  Index(v.value) + 1 \in DOMAIN table /\ table[Index(v.value) + 1] = v.value
  <2>1. sharedStrings \in Seq(Int)
    BY DEF TypeOK, PropTypeOK
  <2>2. CASE Known(v.value)
    <3>1. PICK i0 \in DOMAIN sharedStrings : sharedStrings[i0] = v.value
      BY <2>2 DEF Known
    <3> DEFINE c == CHOOSE j \in DOMAIN sharedStrings : sharedStrings[j] = v.value
    <3>2. c \in DOMAIN sharedStrings /\ sharedStrings[c] = v.value
      BY <3>1
    <3>3. Index(v.value) = c - 1
      BY <2>2 DEF Index
    <3> HIDE DEF c
    <3>4. c \in Nat
      BY <2>1, <3>2
    <3>5. Index(v.value) + 1 = c /\ table = sharedStrings
      BY <2>2, <3>3, <3>4
    <3>6. QED
      BY <3>2, <3>5
  <2>3. CASE ~Known(v.value)
    <3>1. Index(v.value) = Len(sharedStrings) /\ table = Append(sharedStrings, v.value)
      BY <1>5, <2>3 DEF Index
    <3>2. QED
      BY <2>1, <3>1, Appended
  <2>4. QED
    BY <2>2, <2>3
<1>6. QED
  BY <1>1, <1>2, <1>3, <1>4, <1>5 DEF Says

(* An element more says what the next instance of the group has.           *)
LEMMA FillContents ==
  ASSUME TypeOK, EncodeInv, Contents, FillValue, ~Crash
  PROVE  Contents'
<1> DEFINE n == Len(propChunks)
           m == Len(Current.values)
           v == ValueAt(m + 1, Current.name)
<1>1. /\ propChunks' = [propChunks EXCEPT ![n] = Longer(v)]
      /\ sharedStrings' = IF v.type = "shared" /\ ~Known(v.value)
                          THEN Append(sharedStrings, v.value) ELSE sharedStrings
      /\ root' = root /\ instList' = instList /\ instChunks' = instChunks
      /\ Filling /\ step = "fill"
  BY DEF FillValue
<1>2. /\ propChunks \in Seq(PropChunk) /\ n \in DOMAIN propChunks /\ n \in Nat
      /\ Current = propChunks[n] /\ Current \in PropChunk
  BY <1>1 DEF TypeOK, PropTypeOK, Filling, Current
<1>3. instChunks # <<>>
  BY <1>1 DEF EncodeInv, Stages
<1>4. /\ Current.values \in Seq(Int) /\ Current.present \in Seq(BOOLEAN) /\ Current.name \in Names
      /\ m \in Nat
  BY <1>2 DEF PropChunk
<1>5. Group.ids \in Seq(Nat) /\ Group.class + 1 = Len(instChunks)
  BY <1>3, GroupParts, ChunkSigs
<1>6. m + 1 \in DOMAIN Group.ids /\ v \in Value
  <2>1. m < Len(Group.ids) /\ Len(Group.ids) \in Nat /\ DOMAIN Group.ids = 1 .. Len(Group.ids)
    BY <1>1, <1>5 DEF Filling
  <2>2. m + 1 \in DOMAIN Group.ids
    BY <1>4, <2>1
  <2>3. QED
    BY <1>3, <1>4, <2>2, GroupParts
<1>7. PICK new : new = Longer(v)
  OBVIOUS
<1>8. /\ new.class = Current.class /\ new.name = Current.name /\ new.kind = Current.kind
      /\ new.values = Append(Current.values, Element(v)) /\ new.present = Presence(v)
  BY <1>2, <1>7 DEF Longer, PropChunk
<1>9. v = ValueOfElement(n, m + 1)
  <2>1. Current.class + 1 = Len(instChunks)
    BY <1>1, <1>5 DEF Filling
  <2>2. v = ValueIn(Len(instChunks), m + 1, Current.name)
    BY <1>3, LastGroup
  <2>3. QED
    BY <1>2, <2>1, <2>2 DEF ValueOfElement
<1> HIDE DEF v
<1>10. /\ DOMAIN new.values = 1 .. m + 1 /\ DOMAIN Current.values = 1 .. m
       /\ \A i \in 1 .. m : new.values[i] = Current.values[i]
       /\ new.values[m + 1] = Element(v) /\ Len(new.values) = m + 1
  BY <1>4, <1>8, Appended
<1>11. Current.kind = "optional" =>
         /\ DOMAIN new.present = 1 .. m + 1 /\ Len(new.present) = m + 1
         /\ \A i \in 1 .. m : new.present[i] = Current.present[i]
         /\ new.present[m + 1] = Encodable(v)
  <2>1. Current.kind = "optional" => Len(Current.present) = m
    BY <1>2 DEF Contents
  <2>2. Current.kind = "optional" => new.present = Append(Current.present, Encodable(v))
    BY <1>8 DEF Presence, OfOptionals
  <2>3. QED
    BY <1>4, <2>1, <2>2, Appended
<1>12. /\ DOMAIN propChunks' = DOMAIN propChunks /\ propChunks'[n] = new
       /\ \A p \in DOMAIN propChunks : p # n => propChunks'[p] = propChunks[p]
  BY <1>1, <1>2, <1>7
<1>13. \A j \in DOMAIN sharedStrings :
         j \in DOMAIN sharedStrings' /\ sharedStrings'[j] = sharedStrings[j]
  <2>1. sharedStrings \in Seq(Int)
    BY DEF TypeOK, PropTypeOK
  <2>2. CASE sharedStrings' = sharedStrings
    BY <2>2
  <2>3. CASE sharedStrings' = Append(sharedStrings, v.value)
    BY <2>1, <2>3, Appended
  <2>4. QED
    BY <1>1, <2>2, <2>3
<1>14. \A k \in DOMAIN instChunks : MarksServices(instChunks[k])'
  BY <1>1, MarksStay DEF Contents
<1>15. ASSUME NEW p \in DOMAIN propChunks, NEW i \in DOMAIN propChunks[p].values
       PROVE  SaysElement(p, i)'
  <2>1. propChunks[p].kind = "optional" =>
            /\ Len(propChunks[p].present) = Len(propChunks[p].values)
            /\ DOMAIN propChunks[p].present = DOMAIN propChunks[p].values
    <3>1. propChunks[p] \in PropChunk
      BY <1>2
    <3>2. propChunks[p].present \in Seq(BOOLEAN) /\ propChunks[p].values \in Seq(Int)
      BY <3>1 DEF PropChunk
    <3>3. QED
      BY <3>2 DEF Contents
  <2>2. CASE p # n
    <3>1. propChunks'[p] = propChunks[p]
      BY <1>12, <2>2
    <3>2. QED
      BY <1>1, <1>13, <2>1, <3>1, ElementOn
  <2>3. CASE p = n
    <3>1. propChunks[p] = Current /\ propChunks'[p] = new /\ i \in 1 .. m
      BY <1>2, <1>10, <1>12, <2>3
    <3>2. new.values[i] = Current.values[i]
      BY <1>10, <3>1
    <3>3. Current.kind = "optional" => i \in DOMAIN new.present /\ new.present[i] = Current.present[i]
      BY <1>4, <1>11, <3>1
    <3>4. QED
      BY <1>1, <1>8, <1>13, <3>1, <3>2, <3>3, ElementOn
  <2>4. QED
    BY <2>2, <2>3
<1>16. ASSUME NEW q, q = n, NEW i, i = m + 1 PROVE SaysElement(q, i)'
  <2>1. PICK table : table = sharedStrings'
    OBVIOUS
  <2>2. Says(new, m + 1, v, Number(v.value), table)
    <3>1. Current.kind = "optional" =>
            m + 1 \in DOMAIN new.present /\ (new.present[m + 1] <=> Encodable(v))
      BY <1>4, <1>11
    <3>2. QED
      BY <1>1, <1>6, <1>8, <1>10, <2>1, <3>1, ElementMade
  <2>3. PICK w : w = v
    OBVIOUS
  <2>4. PICK number : number = Number(v.value)
    OBVIOUS
  <2>5. /\ propChunks'[n].class = propChunks[n].class /\ propChunks'[n].name = propChunks[n].name
    BY <1>2, <1>8, <1>12
  <2>6. q = n /\ i = m + 1
    BY <1>16
  <2>8. /\ ValueOfElement(q, i)' = ValueOfElement(q, i)
        /\ Number(ValueOfElement(q, i).value)' = Number(ValueOfElement(q, i).value)
    BY <1>1, <1>2, <2>5, <2>6, ElementsStay
  <2>9. SaysElement(q, i)'
    <3>1. Says(new, i, w, number, table)
      BY <2>2, <2>3, <2>4, <2>6
    <3>2. ValueOfElement(q, i) = w /\ Number(ValueOfElement(q, i).value) = number
      BY <1>9, <2>3, <2>4, <2>6
    <3>3. QED
      BY <1>12, <2>1, <2>6, <2>8, <3>1, <3>2 DEF SaysElement, Says, Encodable
  <2>10. QED
    BY <2>9
<1>17. ASSUME NEW p \in DOMAIN propChunks'
       PROVE  /\ propChunks'[p].kind = "optional" =>
                   Len(propChunks'[p].present) = Len(propChunks'[p].values)
              /\ \A i \in DOMAIN propChunks'[p].values : SaysElement(p, i)'
  <2>1. CASE p # n
    <3>1. p \in DOMAIN propChunks /\ propChunks'[p] = propChunks[p]
      BY <1>12, <2>1
    <3>2. QED
      BY <1>15, <3>1 DEF Contents
  <2>2. CASE p = n
    <3>1. propChunks'[p] = new /\ p \in DOMAIN propChunks
      BY <1>12, <2>2
    <3>2. new.kind = "optional" => Len(new.present) = Len(new.values)
      BY <1>8, <1>10, <1>11
    <3>3. ASSUME NEW i \in DOMAIN new.values PROVE SaysElement(p, i)'
      <4>1. CASE i \in 1 .. m
        <5>1. i \in DOMAIN propChunks[p].values
          BY <1>2, <1>10, <2>2, <4>1
        <5>2. QED
          BY <1>15, <3>1, <5>1
      <4>2. CASE i = m + 1
        BY <1>16, <2>2, <4>2
      <4>3. QED
        BY <1>4, <1>10, <3>3, <4>1, <4>2
    <3>4. QED
      BY <3>1, <3>2, <3>3
  <2>3. QED
    BY <2>1, <2>2
<1>18. QED
  BY <1>1, <1>14, <1>17 DEF Contents, MarksServices, IsService, InstanceAt

(* Every step of the encoder keeps what the groups and arrays say.         *)
LEMMA ContentsStep ==
  ASSUME TypeOK, EncodeInv, Contents, Next
  PROVE  Contents'
<1>1. CASE AddInstance
  <2>1. instChunks' = <<>> /\ propChunks' = <<>>
    BY <1>1 DEF AddInstance, EncodeInv, Stages, propVars
  <2>2. QED
    BY <2>1 DEF Contents
<1>2. CASE Crash \/ AllListed \/ GroupInstance \/ AllGrouped \/ AllChecked \/ GroupDone
           \/ AllFilled \/ EnterInstance \/ LeaveInstance \/ WriteChunks
  BY <1>2, ContentsStay DEF Crash, AllListed, GroupInstance, AllGrouped, AllChecked, GroupDone,
       AllFilled, EnterInstance, LeaveInstance, WriteChunks, propVars
<1>3. ASSUME NEW name \in Names, CheckProperty(name)
      PROVE  Contents'
  <2>1. CASE ~Crash
    BY <1>3, <2>1, ContentsStay DEF CheckProperty
  <2>2. QED
    BY <1>2, <2>1
<1>4. ASSUME NEW class \in Classes, NextGroup(class)
      PROVE  Contents'
  BY <1>4, NextGroupContents
<1>5. ASSUME NEW name \in Names, StartProperty(name)
      PROVE  Contents'
  BY <1>2, <1>5, StartContents
<1>6. ASSUME FillValue
      PROVE  Contents'
  BY <1>2, <1>6, FillContents
<1>7. QED
  BY <1>1, <1>2, <1>3, <1>4, <1>5, <1>6 DEF Next

(* Only the step that writes the file makes it done.                       *)
LEMMA FileTablesStep ==
  ASSUME TypeOK, Next
  PROVE  FileTables'
<1>1. CASE WriteChunks
  BY <1>1, WriteTables
<1>2. CASE ~WriteChunks
  <2>1. step' # "done"
    <3>1. CASE AddInstance
      BY <3>1 DEF AddInstance
    <3>2. CASE AllFilled
      BY <3>2 DEF AllFilled
    <3>3. CASE Still
      BY <3>3 DEF Still
    <3>4. CASE EnterInstance /\ ~Crash
      BY <3>4 DEF EnterInstance
    <3>5. CASE LeaveInstance /\ ~Crash
      BY <3>5 DEF LeaveInstance
    <3>6. QED
      BY <1>2, <3>1, <3>2, <3>3, <3>4, <3>5, Moves
  <2>2. QED
    BY <2>1 DEF FileTables
<1>3. QED
  BY <1>1, <1>2

-------------------------------------------------------------------------------
(* The metadata that is read is among the contents the decoder expects, so *)
(* every key of it is a key of the map.                                    *)
MetaKept == \A j \in 1 .. Len(chunks) : chunks[j].sig = "META" => chunks[j] \in MetaChunks

(* There is no more than one link for an instance.                         *)
LinksBounded == Len(links) <= Len(instList)

(* What is known when the tree is taken.                                   *)
TakeInv == DecodeKnown /\ Contents /\ FileTables /\ MetaKept /\ LinksBounded

(* A link is made of a call, and no two calls are of the same instance.    *)
LEMMA LinksBoundedStep ==
  ASSUME TypeOK, WalkInv, LinksBounded, Next
  PROVE  LinksBounded'
<1>1. /\ Len(links) \in Nat /\ Len(instList) \in Nat /\ links \in Seq(Link)
      /\ instList \in Seq(Instances)
  BY DEF TypeOK, ListTypeOK, LinkTypeOK
<1>2. CASE AddInstance
  <2>1. links' = <<>>
    BY <1>2 DEF AddInstance, WalkInv, linkVars
  <2>2. Len(instList') \in Nat
    <3>1. instList' = instList \/ instList' = Append(instList, Head(todo))
      BY <1>2 DEF AddInstance
    <3>2. Len(Append(instList, Head(todo))) = Len(instList) + 1
      BY <1>1, Appended
    <3>3. QED
      BY <1>1, <3>1, <3>2
  <2>3. QED
    BY <2>1, <2>2 DEF LinksBounded
<1>3. CASE LeaveInstance /\ ~Crash
  <2>1. /\ Len(links) < Len(instList) /\ links' = Append(links, LinkFor(Head(walk)))
        /\ instList' = instList
    BY <1>3 DEF LeaveInstance
  <2>2. Len(links') = Len(links) + 1
    BY <1>1, <2>1, Appended
  <2>3. QED
    BY <1>1, <2>1, <2>2 DEF LinksBounded
<1>4. CASE AllFilled \/ Still \/ WriteChunks \/ (EnterInstance /\ ~Crash)
  BY <1>4 DEF AllFilled, Still, WriteChunks, EnterInstance, LinksBounded, linkVars
<1>5. QED
  BY <1>2, <1>3, <1>4, Moves

(* Metadata is read as one of the chunks the decoder can read.             *)
LEMMA MetaKeptStep ==
  ASSUME DecodeKnown, MetaKept, ReadChunk
  PROVE  MetaKept'
<1> DEFINE next == file[Len(chunks) + 1]
<1>1. PICK ch : chunks' = Append(chunks, ch) /\ (ch.sig = "META" => ch \in MetaChunks)
  <2>1. CASE next \in InstChunks /\ D!KeepGroup(next)
    <3>1. next.sig = "INST"
      BY <2>1, InstParts
    <3>2. chunks' = Append(chunks, next)
      BY <2>1 DEF D!KeepGroup, D!Keep
    <3>3. QED
      BY <3>1, <3>2
  <2>2. ASSUME NEW read, D!KeepProperty(read), read.sig = "PROP"
        PROVE  \E ch : chunks' = Append(chunks, ch) /\ (ch.sig = "META" => ch \in MetaChunks)
    <3>1. chunks' = Append(chunks, read)
      BY <2>2 DEF D!KeepProperty, D!Keep
    <3>2. QED
      BY <2>2, <3>1
  <2>3. CASE next \in PrntChunks \cup MetaChunks \cup SstrChunks /\ D!KeepOther(next)
    <3>1. chunks' = Append(chunks, next)
      BY <2>3 DEF D!KeepOther, D!Keep
    <3>2. /\ next \in PrntChunks => next.sig = "PRNT"
          /\ next \in SstrChunks => next.sig = "SSTR"
      BY DecodeAssumption DEF D!ChunkAssumption, D!PrntRecord, D!SstrRecord
    <3>3. QED
      BY <2>3, <3>1, <3>2
  <2>4. CASE D!ReadEnd
    <3>1. chunks' = Append(chunks, D!End) /\ D!End.sig = "END"
      BY <2>4 DEF D!ReadEnd, D!Keep, D!End
    <3>2. QED
      BY <3>1
  <2>5. CASE ReadPacked(next)
    <3>1. CASE D!ReadBroken
      <4>1. chunks' = Append(chunks, D!Other) /\ D!Other.sig = "other"
        BY <3>1 DEF D!ReadBroken, D!KeepErrored, D!Other
      <4>2. QED
        BY <4>1
    <3>2. ASSUME NEW read \in D!Arrays(next.class, next.name), D!KeepProperty(read)
          PROVE  read.sig = "PROP"
      <4> DEFINE class == next.class
                 name == next.name
      <4>1. read \in D!Arrays(class, name)
        BY <3>2
      <4> HIDE DEF class, name
      <4>2. QED
        BY <4>1, ArrayParts
    <3>3. QED
      BY <2>2, <2>5, <3>1, <3>2 DEF ReadPacked
  <2> HIDE DEF next
  <2>6. \/ ReadPacked(next)
        \/ next \in InstChunks /\ D!KeepGroup(next)
        \/ next.sig = "PROP" /\ D!KeepProperty(next)
        \/ next \in PrntChunks \cup MetaChunks \cup SstrChunks /\ D!KeepOther(next)
        \/ D!ReadEnd
    BY DEF ReadChunk, next
  <2>7. QED
    BY <2>1, <2>2, <2>3, <2>4, <2>5, <2>6
<1>2. chunks \in Seq(DP!Chunk)
  BY DEF DecodeKnown, DP!TypeOK, DP!ReadTypeOK
<1>3. /\ Len(chunks) \in Nat /\ Len(chunks') = Len(chunks) + 1
      /\ \A j \in 1 .. Len(chunks) : chunks'[j] = chunks[j]
      /\ chunks'[Len(chunks) + 1] = ch
  BY <1>1, <1>2, Appended
<1>4. ASSUME NEW j \in 1 .. Len(chunks'), chunks'[j].sig = "META"
      PROVE  chunks'[j] \in MetaChunks
  <2>1. CASE j \in 1 .. Len(chunks)
    BY <1>3, <1>4, <2>1 DEF MetaKept
  <2>2. CASE j = Len(chunks) + 1
    BY <1>1, <1>3, <1>4, <2>2
  <2>3. QED
    BY <1>3, <2>1, <2>2
<1>5. QED
  BY <1>4 DEF MetaKept

(* Every step of the trip keeps what is known when the tree is taken.      *)
LEMMA TakeStep ==
  ASSUME TripInv, TellInv, TakeInv, [TripNext]_tripVars
  PROVE  TakeInv'
<1>1. DecodeKnown'
  BY TripKnownStep DEF TakeInv
<1>2. Contents' /\ FileTables' /\ LinksBounded'
  <2>1. CASE UNCHANGED encodeVars
    <3>1. Contents'
      BY <2>1, ContentsStay DEF TripInv, TakeInv, encodeVars, propVars
    <3>2. FileTables'
      BY <2>1 DEF TakeInv, FileTables, Order, Orders, encodeVars, propVars
    <3>3. LinksBounded'
      BY <2>1 DEF TakeInv, LinksBounded, encodeVars, linkVars
    <3>4. QED
      BY <3>1, <3>2, <3>3
  <2>2. CASE Next
    BY <2>2, ContentsStep, FileTablesStep, LinksBoundedStep DEF TripInv, TakeInv, TellInv
  <2>3. QED
    BY <2>1, <2>2 DEF TripNext, Encode, WriteFile, ReadHeader, ReadChunk, Decode, Returned, tripVars
<1>3. MetaKept'
  <2>1. CASE ReadChunk
    BY <2>1, MetaKeptStep DEF TakeInv
  <2>2. CASE UNCHANGED chunks
    BY <2>2 DEF TakeInv, MetaKept
  <2>3. ReadHeader \/ WriteFile \/ Encode => UNCHANGED chunks
    BY DEF ReadHeader, D!HeaderOK, D!readVars, WriteFile, Encode, decodeVars
  <2>4. Decode => UNCHANGED chunks
    BY DEF Decode, D!DecodeInstance, D!DecodeProperty, D!EnterParent, D!LinkChild, D!LeaveParent,
       D!DecodeMeta, D!DecodeSharedStrings, D!PassOther, D!DecodeEnd, D!readVars, D!Fail, D!Skip,
       D!Panic, D!SetProperties
  <2>5. QED
    BY <2>1, <2>2, <2>3, <2>4 DEF TripNext, Returned, tripVars, decodeVars
<1>4. QED
  BY <1>1, <1>2, <1>3 DEF TakeInv

(* It holds when nothing has been encoded.                                 *)
LEMMA TakeStart ==
  ASSUME TripInit
  PROVE  TakeInv
<1>1. DecodeKnown
  BY DecodeKnownStart
<1>2. instChunks = <<>> /\ propChunks = <<>> /\ step = "list" /\ chunks = <<>>
      /\ links = <<>> /\ instList = <<>>
  BY DEF TripInit, Init, D!Init
<1>3. QED
  BY <1>1, <1>2 DEF TakeInv, Contents, FileTables, MetaKept, LinksBounded

-------------------------------------------------------------------------------
(* The file as it stands before the decoder when the decoder is done.      *)
Passed(n) ==
  /\ n \in Nat /\ Len(instChunks) \in Nat /\ Len(propChunks) \in Nat
  /\ pos = n + Len(instChunks) + Len(propChunks) + 2 /\ DOMAIN chunks = 1 .. pos
  /\ \A i \in 1 .. n : chunks[i].sig \in {"META", "SSTR"}
  /\ \A k \in DOMAIN instChunks : chunks[n + k] = instChunks[k] /\ n + k \in 1 .. pos - 1
  /\ \A p \in DOMAIN propChunks :
       /\ ReadAs(chunks[n + Len(instChunks) + p], propChunks[p])
       /\ n + Len(instChunks) + p \in n + Len(instChunks) + 1 .. pos - 2
  /\ chunks[pos - 1] = ParentChunk
  /\ chunks[pos].sig = "END"

(* The decoder is done when it has passed the whole file.                  *)
LEMMA Finished ==
  ASSUME TripInv, TakeInv, phase = "done"
  PROVE  /\ step = "done" /\ FileOK /\ NumbersConsistent /\ pos = Len(file)
         /\ \A i \in 1 .. Len(file) :
              /\ ReadAs(chunks[i], file[i])
              /\ chunks[i].sig \notin {"PROP", "other"} => chunks[i] = file[i]
              /\ file[i].sig # "PROP" => chunks[i] = file[i]
         /\ \E n : Passed(n)
<1>1. /\ header # NoHeader /\ step = "done" /\ Len(chunks) = Len(file)
      /\ \A i \in 1 .. Len(chunks) : ReadAs(chunks[i], file[i])
      /\ chunks \in Seq(ReadChunks)
  BY DEF TripInv, ReadInv, ReadSoFar
<1>2. FileOK
  BY <1>1, FileFacts DEF TripInv, WriteInv
<1>3. NumbersConsistent
  BY EncodeInvImplies DEF TripInv
<1>4. Len(file) \in Nat /\ DOMAIN chunks = 1 .. Len(file)
  BY <1>1, <1>2 DEF FileOK
<1>5. pos \in DOMAIN chunks /\ chunks[pos].sig = "END" /\ pos = Len(chunks)
  BY DEF TakeInv, DecodeKnown, DP!DecodeInv, DP!EndLast
<1>6. PICK n \in Nat : Laid(n)
  BY <1>1 DEF TripInv, WriteInv, FileLaid
<1>7. /\ instChunks \in Seq(InstChunk) /\ propChunks \in Seq(PropChunk)
  BY DEF TripInv, TypeOK, GroupTypeOK, PropTypeOK
<1>8. /\ Len(instChunks) \in Nat /\ Len(propChunks) \in Nat
      /\ DOMAIN instChunks = 1 .. Len(instChunks) /\ DOMAIN propChunks = 1 .. Len(propChunks)
  BY <1>7
<1>9. pos = n + Len(instChunks) + Len(propChunks) + 2
  BY <1>1, <1>5, <1>6 DEF Laid
<1>0. \A i \in 1 .. Len(file) :
        /\ chunks[i].sig \notin {"PROP", "other"} => chunks[i] = file[i]
        /\ file[i].sig # "PROP" => chunks[i] = file[i]
  <2>1. ASSUME NEW i \in 1 .. Len(file)
        PROVE  /\ chunks[i].sig \notin {"PROP", "other"} => chunks[i] = file[i]
               /\ file[i].sig # "PROP" => chunks[i] = file[i]
    <3>1. ReadAs(chunks[i], file[i])
      BY <1>1
    <3>2. QED
      BY <3>1 DEF ReadAs, IsPacked, Garbled, D!PropRecord, D!Other
  <2>2. QED
    BY <2>1
<1>10. \A i \in 1 .. n : chunks[i].sig \in {"META", "SSTR"}
  BY <1>0, <1>1, <1>4, <1>5, <1>6, <1>8, <1>9 DEF Laid
<1>11. \A k \in DOMAIN instChunks : chunks[n + k] = instChunks[k] /\ n + k \in 1 .. pos - 1
  <2>1. ASSUME NEW k \in DOMAIN instChunks
        PROVE  n + k \in 1 .. pos - 1 /\ n + k \in 1 .. Len(chunks) /\ file[n + k] = instChunks[k]
    BY <1>1, <1>5, <1>6, <1>8, <1>9 DEF Laid
  <2>2. \A k \in DOMAIN instChunks : instChunks[k].sig = "INST"
    BY <1>7, ChunkSigs
  <2>3. QED
    BY <1>0, <1>1, <2>1, <2>2
<1>12. \A p \in DOMAIN propChunks :
         /\ ReadAs(chunks[n + Len(instChunks) + p], propChunks[p])
         /\ n + Len(instChunks) + p \in n + Len(instChunks) + 1 .. pos - 2
  <2>1. ASSUME NEW p \in DOMAIN propChunks
        PROVE  /\ n + Len(instChunks) + p \in n + Len(instChunks) + 1 .. pos - 2
               /\ n + Len(instChunks) + p \in 1 .. Len(chunks)
               /\ file[n + Len(instChunks) + p] = propChunks[p]
    BY <1>1, <1>5, <1>6, <1>8, <1>9 DEF Laid
  <2>2. QED
    BY <1>1, <2>1
<1>13. chunks[pos - 1] = ParentChunk
  <2>1. pos - 1 \in 1 .. Len(chunks)
    BY <1>5, <1>6, <1>8, <1>9
  <2>2. file[pos - 1] = ParentChunk /\ ParentChunk.sig = "PRNT"
    BY <1>1, <1>5, <1>6 DEF Laid, ParentChunk
  <2>3. QED
    BY <1>0, <1>1, <2>1, <2>2
<1>14. Passed(n)
  BY <1>1, <1>4, <1>5, <1>8, <1>9, <1>10, <1>11, <1>12, <1>13 DEF Passed
<1>15. QED
  BY <1>0, <1>1, <1>2, <1>3, <1>5, <1>14

(* Numbers and instances lead to one another.                              *)
LEMMA NumberOf ==
  ASSUME TypeOK, NumbersDistinct
  PROVE  /\ \A inst \in Written :
              /\ Number(inst) \in 0 .. Len(instList) - 1
              /\ InstanceAt(Number(inst)) = inst /\ inst \in Instances
         /\ \A id \in 0 .. Len(instList) - 1 :
              InstanceAt(id) \in Written /\ Number(InstanceAt(id)) = id
         /\ \A x : x \notin Written => Number(x) = nilInstance
         /\ Nil \notin Written /\ Len(instList) \in Nat
<1>1. instList \in Seq(Instances)
  BY DEF TypeOK, ListTypeOK
<1>2. Len(instList) \in Nat /\ DOMAIN instList = 1 .. Len(instList)
  BY <1>1
<1>3. ASSUME NEW inst \in Written
      PROVE  /\ Number(inst) \in 0 .. Len(instList) - 1
             /\ InstanceAt(Number(inst)) = inst /\ inst \in Instances
  <2>1. Listed(inst)
    BY DEF Written, Listed
  <2> DEFINE c == CHOOSE i \in DOMAIN instList : instList[i] = inst
  <2>2. c \in DOMAIN instList /\ instList[c] = inst
    BY <2>1 DEF Listed
  <2>3. Number(inst) = c - 1
    BY <2>1 DEF Number
  <2> HIDE DEF c
  <2>4. (c - 1) + 1 = c /\ c - 1 \in 0 .. Len(instList) - 1
    BY <1>2, <2>2
  <2>5. QED
    BY <1>1, <2>2, <2>3, <2>4 DEF InstanceAt
<1>4. ASSUME NEW id \in 0 .. Len(instList) - 1
      PROVE  InstanceAt(id) \in Written /\ Number(InstanceAt(id)) = id
  <2>1. id + 1 \in DOMAIN instList
    BY <1>2
  <2>2. InstanceAt(id) \in Written
    BY <2>1 DEF InstanceAt, Written
  <2>3. PICK m : m = Number(InstanceAt(id))
    OBVIOUS
  <2>4. m \in 0 .. Len(instList) - 1 /\ instList[m + 1] = instList[id + 1]
    BY <1>3, <2>2, <2>3 DEF InstanceAt
  <2>5. m + 1 = id + 1
    BY <1>2, <2>1, <2>4 DEF NumbersDistinct
  <2>6. QED
    BY <1>2, <2>2, <2>3, <2>4, <2>5
<1>5. \A x : x \notin Written => Number(x) = nilInstance
  BY DEF Number, Listed, Written
<1>6. Nil \notin Written
  <2>1. Nil \notin Instances
    BY EncodeAssumption
  <2>2. \A i \in DOMAIN instList : instList[i] \in Instances
    BY <1>1
  <2>3. QED
    BY <2>1, <2>2 DEF Written
<1>7. QED
  BY <1>2, <1>3, <1>4, <1>5, <1>6

(* Where an instance is: in a group, and the decoder knows in which.       *)
IsAt(n, inst, k, i) ==
  /\ k \in DOMAIN instChunks /\ i \in DOMAIN instChunks[k].ids
  /\ instChunks[k].ids[i] = Number(inst) /\ Number(inst) \in Ids
  /\ instLookup[Number(inst)] = n + k /\ D!Exists(Number(inst))
  /\ instChunks[k].class = k - 1 /\ root.class[inst] = GroupClass(k)

(* Every instance that was written has its place in the file.              *)
LEMMA InstanceIsAt ==
  ASSUME TripInv, TakeInv, TellInv, phase = "done", NEW n, Passed(n), NEW inst \in Written
  PROVE  \E k, i : IsAt(n, inst, k, i)
<1>1. step = "done" /\ NumbersConsistent /\ TypeOK
  BY Finished DEF TripInv
<1>2. Number(inst) \in 0 .. Len(instList) - 1 /\ InstanceAt(Number(inst)) = inst
  BY <1>1, NumberOf DEF NumbersConsistent
<1>3. PICK k \in DOMAIN instChunks : \E i \in DOMAIN instChunks[k].ids : instChunks[k].ids[i] = Number(inst)
  BY <1>1, <1>2 DEF NumbersConsistent, GroupsCover
<1>4. PICK i \in DOMAIN instChunks[k].ids : instChunks[k].ids[i] = Number(inst)
  BY <1>3
<1>5. chunks[n + k] = instChunks[k] /\ n + k \in 1 .. pos - 1 /\ n + k \in DOMAIN chunks
      /\ n + k \in Nat \ {0}
  <2>1. chunks[n + k] = instChunks[k] /\ n + k \in 1 .. pos - 1 /\ pos \in Nat
        /\ DOMAIN chunks = 1 .. pos
    BY DEF Passed
  <2>2. QED
    BY <2>1
<1>6. instChunks[k] \in InstChunk /\ instChunks[k].sig = "INST"
  BY ChunkSigs DEF TripInv, TypeOK, GroupTypeOK
<1>7. instLookup[Number(inst)] = n + k
  BY <1>4, <1>5, <1>6 DEF TakeInv, DecodeKnown, DP!DecodeInv, DP!GroupsDone
<1>8. Number(inst) \in Ids
  <2>1. chunks \in Seq(ReadChunks) /\ DOMAIN chunks = 1 .. Len(chunks)
    BY DEF TripInv, ReadInv, ReadSoFar, Passed
  <2>2. chunks[n + k] \in InstChunks
    BY <1>5, <1>6, <2>1 DEF TripInv, ReadInv, Groups
  <2>3. instChunks[k].ids \in Seq(Ids)
    BY <1>5, <2>2, InstParts
  <2>4. QED
    BY <1>4, <2>3
<1>9. D!Exists(Number(inst))
  BY <1>5, <1>7 DEF D!Exists
<1>10. instChunks[k].class = k - 1
  BY DEF TripInv, EncodeInv, Chunked
<1>11. root.class[inst] = GroupClass(k)
  <2>1. ClassOf(Number(inst)) = GroupClass(k)
    BY <1>4 DEF TellInv, Sorted
  <2>2. QED
    BY <1>2, <2>1 DEF ClassOf
<1>12. QED
  BY <1>3, <1>4, <1>7, <1>8, <1>9, <1>10, <1>11 DEF IsAt

-------------------------------------------------------------------------------
(* The classes come in the order of their names.                           *)
LEMMA ClassesFit ==
  ASSUME TripInv, TakeInv, TellInv, phase = "done"
  PROVE  \A inst, other \in T!Tree :
           Taken.class[inst] < Taken.class[other] <=> root.class[inst] < root.class[other]
<1>1. PICK n : Passed(n)
  BY Finished
<1>2. T!Tree = Written
  <2>1. step = "done"
    BY Finished
  <2>2. QED
    BY <2>1, TreeListed DEF TripInv, WriteInv, TellInv
<1>3. \A inst \in Written : Taken.class[inst] = chunks[instLookup[Number(inst)]].class
  BY DEF Taken
<1> SUFFICES ASSUME NEW inst \in Written, NEW other \in Written
             PROVE  Taken.class[inst] < Taken.class[other] <=> root.class[inst] < root.class[other]
  BY <1>2
<1>4. PICK k, i : IsAt(n, inst, k, i)
  BY <1>1, InstanceIsAt
<1>5. PICK l, j : IsAt(n, other, l, j)
  BY <1>1, InstanceIsAt
<1>6. k \in Nat /\ l \in Nat
  <2>1. instChunks \in Seq(InstChunk)
    BY DEF TripInv, TypeOK, GroupTypeOK
  <2>2. QED
    BY <1>4, <1>5, <2>1 DEF IsAt
<1>7. Taken.class[inst] = k - 1 /\ Taken.class[other] = l - 1
  <2>1. ASSUME NEW x \in Written, NEW m, NEW o, IsAt(n, x, m, o)
        PROVE  Taken.class[x] = m - 1
    <3>1. m \in DOMAIN instChunks /\ instLookup[Number(x)] = n + m /\ instChunks[m].class = m - 1
      BY <2>1 DEF IsAt
    <3>2. chunks[n + m] = instChunks[m]
      BY <1>1, <3>1 DEF Passed
    <3>3. Taken.class[x] = chunks[instLookup[Number(x)]].class
      BY <1>3
    <3>4. QED
      BY <3>1, <3>2, <3>3
  <2>2. QED
    BY <1>4, <1>5, <2>1
<1>8. GroupClass(k) \in Nat /\ GroupClass(l) \in Nat
  BY <1>4, <1>5, EncodeAssumption DEF TellInv, Sorted, IsAt
<1>9. /\ k < l => GroupClass(k) < GroupClass(l)
      /\ l < k => GroupClass(l) < GroupClass(k)
  BY <1>4, <1>5 DEF TellInv, Sorted, IsAt
<1>10. root.class[inst] = GroupClass(k) /\ root.class[other] = GroupClass(l)
  BY <1>4, <1>5 DEF IsAt
<1> HIDE DEF GroupClass
<1>11. QED
  BY <1>6, <1>7, <1>8, <1>9, <1>10

(* The groups and the arrays that were read are those that were made.      *)
LEMMA ChunkMade ==
  ASSUME TripInv, TakeInv, phase = "done", NEW n, Passed(n), NEW j \in 1 .. pos
  PROVE  /\ chunks[j].sig = "INST" => \E k \in DOMAIN instChunks : chunks[j] = instChunks[k]
         /\ chunks[j].sig = "PROP" =>
              \E p \in DOMAIN propChunks :
                ReadAs(chunks[j], propChunks[p]) /\ j = n + Len(instChunks) + p
         /\ chunks[j].sig = "PRNT" => j = pos - 1
         /\ chunks[j].sig \in {"META", "SSTR"} => j \in 1 .. n
<1>1. /\ FileOK /\ pos = Len(file)
      /\ chunks[j].sig \notin {"PROP", "other"} => chunks[j] = file[j]
  BY Finished
<1>2. chunks[j].sig = "INST" => \E k \in DOMAIN instChunks : chunks[j] = instChunks[k]
  BY <1>1 DEF FileOK, IsGroup
<1>3. /\ n \in Nat /\ Len(instChunks) \in Nat /\ Len(propChunks) \in Nat
      /\ pos = n + Len(instChunks) + Len(propChunks) + 2
  BY DEF Passed
<1>4. instChunks \in Seq(InstChunk) /\ propChunks \in Seq(PropChunk)
  BY DEF TripInv, TypeOK, GroupTypeOK, PropTypeOK
<1>5. DOMAIN instChunks = 1 .. Len(instChunks) /\ DOMAIN propChunks = 1 .. Len(propChunks)
  BY <1>4
<1>6. CASE j \in 1 .. n
  BY <1>2, <1>6 DEF Passed
<1>7. CASE j \in n + 1 .. n + Len(instChunks)
  <2>1. PICK k \in DOMAIN instChunks : j = n + k
    <3>1. j - n \in 1 .. Len(instChunks) /\ j = n + (j - n)
      BY <1>3, <1>7
    <3>2. QED
      BY <1>5, <3>1
  <2>2. chunks[j] = instChunks[k]
    BY <2>1 DEF Passed
  <2>3. chunks[j].sig = "INST"
    BY <1>4, <2>2, ChunkSigs
  <2>4. QED
    BY <1>2, <2>3
<1>8. CASE j \in n + Len(instChunks) + 1 .. pos - 2
  <2>1. PICK p \in DOMAIN propChunks : j = n + Len(instChunks) + p
    <3>1. /\ j - (n + Len(instChunks)) \in 1 .. Len(propChunks)
          /\ j = n + Len(instChunks) + (j - (n + Len(instChunks)))
      BY <1>3, <1>8
    <3>2. QED
      BY <1>5, <3>1
  <2>2. ReadAs(chunks[j], propChunks[p])
    BY <2>1 DEF Passed
  <2>3. chunks[j].sig \in {"PROP", "other"}
    <3>1. chunks[j] = D!Other => chunks[j].sig = "other"
      BY DEF D!Other
    <3>2. propChunks[p] \in PropChunk
      BY <1>4
    <3>3. QED
      BY <2>2, <3>1, <3>2, ArrayAs
  <2>4. QED
    BY <2>1, <2>2, <2>3
<1>9. CASE j = pos - 1
  <2>1. chunks[j].sig = "PRNT"
    BY <1>9 DEF Passed, ParentChunk
  <2>2. QED
    BY <1>9, <2>1
<1>10. CASE j = pos
  <2>1. chunks[j].sig = "END"
    BY <1>10 DEF Passed
  <2>2. QED
    BY <2>1
<1>11. QED
  BY <1>3, <1>6, <1>7, <1>8, <1>9, <1>10

(* The services of a place come back, and nothing else is one.             *)
LEMMA ServicesFit ==
  ASSUME TripInv, TakeInv, TellInv, phase = "done"
  PROVE  Taken.services = IF root.mode = "place" THEN root.services \cap T!Tree ELSE {}
<1>1. PICK n : Passed(n)
  BY Finished
<1>2. /\ T!Tree = Written /\ NumbersDistinct /\ TypeOK
  <2>1. step = "done" /\ NumbersConsistent
    BY Finished
  <2>2. QED
    BY <2>1, TreeListed DEF TripInv, WriteInv, TellInv, NumbersConsistent
<1>3. Taken.services = {InstanceAt(id) : id \in services}
  BY DEF Taken
<1>4. \A id : id \in services <=> \E j \in 1 .. pos - 1 : DP!MarkedAt(j, id)
  BY DEF TakeInv, DecodeKnown, DP!TablesSoFar, DP!ServicesSoFar
<1>5. grouped = Len(instList) /\ Len(instList) \in Nat
  BY <1>2, NumberOf, Finished DEF TripInv, EncodeInv, Stages
<1>6. ASSUME NEW id \in services
      PROVE  IsService(id) /\ InstanceAt(id) \in Written
  <2>1. PICK j \in 1 .. pos - 1 : chunks[j].sig = "INST" /\ id \in DP!ServicesOf(chunks[j])
    BY <1>4 DEF DP!MarkedAt
  <2>2. j \in 1 .. pos
    BY <1>1, <2>1 DEF Passed
  <2>3. PICK k \in DOMAIN instChunks : chunks[j] = instChunks[k]
    BY <1>1, <2>1, <2>2, ChunkMade
  <2>4. PICK i \in DOMAIN instChunks[k].ids :
          id = instChunks[k].ids[i] /\ instChunks[k].isService /\ instChunks[k].getService[i] = 1
    BY <2>1, <2>3 DEF DP!ServicesOf
  <2>5. IsService(id)
    BY <2>4 DEF TakeInv, Contents, MarksServices
  <2>6. id \in 0 .. Len(instList) - 1
    <3>1. instChunks[k] \in InstChunk
      BY DEF TripInv, TypeOK, GroupTypeOK
    <3>2. id \in Nat
      BY <2>4, <3>1, ChunkSigs
    <3>3. id < grouped
      BY <2>4 DEF TripInv, EncodeInv, Chunked
    <3>4. QED
      BY <1>5, <3>2, <3>3
  <2>7. QED
    BY <1>2, <2>5, <2>6, NumberOf
<1>7. ASSUME NEW inst \in Written, root.mode = "place", inst \in root.services
      PROVE  Number(inst) \in services /\ InstanceAt(Number(inst)) = inst
  <2>1. InstanceAt(Number(inst)) = inst
    BY <1>2, NumberOf
  <2>2. PICK k, i : IsAt(n, inst, k, i)
    BY <1>1, InstanceIsAt
  <2>3. /\ k \in DOMAIN instChunks /\ i \in DOMAIN instChunks[k].ids
        /\ instChunks[k].ids[i] = Number(inst)
    BY <2>2 DEF IsAt
  <2>4. IsService(instChunks[k].ids[i])
    BY <1>7, <2>1, <2>3 DEF IsService
  <2>5. instChunks[k].isService /\ instChunks[k].getService[i] = 1
    BY <2>3, <2>4 DEF TakeInv, Contents, MarksServices
  <2>6. chunks[n + k] = instChunks[k] /\ n + k \in 1 .. pos - 1
    BY <1>1, <2>3 DEF Passed
  <2>7. instChunks[k].sig = "INST"
    BY <2>3, ChunkSigs DEF TripInv, TypeOK, GroupTypeOK
  <2>8. Number(inst) \in DP!ServicesOf(chunks[n + k])
    BY <2>3, <2>5, <2>6 DEF DP!ServicesOf
  <2>9. DP!MarkedAt(n + k, Number(inst))
    BY <2>6, <2>7, <2>8 DEF DP!MarkedAt
  <2>10. QED
    BY <1>4, <2>1, <2>6, <2>9
<1>8. CASE root.mode = "place"
  BY <1>2, <1>3, <1>6, <1>7, <1>8 DEF IsService
<1>9. CASE root.mode # "place"
  BY <1>3, <1>6, <1>9 DEF IsService
<1>10. QED
  BY <1>8, <1>9

(* The pairs of the metadata come back, in whatever order they were.       *)
LEMMA MetadataFits ==
  ASSUME TripInv, TakeInv, phase = "done"
  PROVE  Taken.metadata = root.metadata
<1>1. PICK n : Passed(n)
  BY Finished
<1>2. /\ step = "done" /\ pos = Len(file)
      /\ \A i \in 1 .. Len(file) :
           /\ chunks[i].sig \notin {"PROP", "other"} => chunks[i] = file[i]
           /\ file[i].sig # "PROP" => chunks[i] = file[i]
  BY Finished
<1>3. /\ root \in Roots /\ root.metadata \subseteq Nat \X Nat
      /\ \A p, q \in root.metadata : p[1] = q[1] => p = q
      /\ \A p \in root.metadata : p[2] # 0
  <2>1. root \in Roots
    BY DEF TripInv, TypeOK, ListTypeOK
  <2>2. root.metadata \subseteq Nat \X Nat
    BY <2>1, EncodeAssumption DEF RootRecord
  <2>3. QED
    BY <2>1, <2>2, MetadataAssumption
<1>4. metadata \in [DP!MetaKeys -> Nat]
  BY DEF TakeInv, DecodeKnown, DP!TypeOK, DP!TreeTypeOK
<1>5. \A j \in 1 .. pos : chunks[j].sig = "META" => Order(chunks[j].values)
  BY <1>2 DEF TakeInv, FileTables
<1>6. ASSUME NEW j \in 1 .. pos, NEW i, NEW key, DP!IsPair(j, i, key)
      PROVE  <<key, chunks[j].values[i][2]>> \in root.metadata
  <2>1. /\ chunks[j].sig = "META" /\ i \in DOMAIN chunks[j].values
        /\ chunks[j].values[i][1] = key
    BY <1>6 DEF DP!IsPair
  <2>2. chunks[j].values \in Orders(root.metadata)
    BY <1>5, <2>1 DEF Order
  <2>3. chunks[j].values[i] \in root.metadata
    BY <2>1, <2>2 DEF Orders
  <2>4. chunks[j].values[i] = <<chunks[j].values[i][1], chunks[j].values[i][2]>>
    BY <1>3, <2>3
  <2>5. QED
    BY <2>1, <2>3, <2>4
<1>7. \A j \in 1 .. pos - 1 : j \in 1 .. pos
  BY <1>1 DEF Passed
<1>8. ASSUME NEW key \in DP!MetaKeys, metadata[key] # 0
      PROVE  <<key, metadata[key]>> \in root.metadata
  <2>1. PICK j \in 1 .. pos - 1 : \E i : DP!IsPair(j, i, key) /\ metadata[key] = chunks[j].values[i][2]
    BY <1>8 DEF TakeInv, DecodeKnown, DP!TablesSoFar, DP!MetadataSoFar
  <2>2. QED
    BY <1>6, <1>7, <2>1
<1>9. ASSUME NEW pair \in root.metadata
      PROVE  /\ pair[1] \in DP!MetaKeys /\ metadata[pair[1]] # 0
             /\ pair = <<pair[1], metadata[pair[1]]>>
  <2>1. PICK j \in 1 .. pos : chunks[j].sig = "META"
    BY <1>2, <1>9 DEF TakeInv, FileTables
  <2>2. chunks[j].values \in Orders(root.metadata)
    BY <1>5, <2>1 DEF Order
  <2>3. PICK i \in DOMAIN chunks[j].values : chunks[j].values[i] = pair
    BY <2>2 DEF Orders
  <2>4. j \in 1 .. pos - 1 /\ DOMAIN chunks = 1 .. pos /\ chunks \in Seq(ReadChunks)
    <3>1. chunks[pos].sig = "END" /\ pos \in Nat /\ DOMAIN chunks = 1 .. pos
      BY <1>1 DEF Passed
    <3>2. j # pos
      BY <2>1, <3>1
    <3>3. chunks \in Seq(ReadChunks)
      BY DEF TripInv, ReadInv, ReadSoFar
    <3>4. QED
      BY <3>1, <3>2, <3>3
  <2>5. chunks[j] \in MetaChunks
    <3>1. Len(chunks) = pos
      BY <1>2 DEF TripInv, ReadInv, ReadSoFar
    <3>2. QED
      BY <2>1, <3>1 DEF TakeInv, MetaKept
  <2>6. pair[1] \in DP!MetaKeys
    BY <2>3, <2>5 DEF DP!MetaKeys
  <2>7. DP!IsPair(j, i, pair[1])
    BY <2>1, <2>3 DEF DP!IsPair
  <2>8. PICK m \in 1 .. pos - 1 : \E l : DP!IsPair(m, l, pair[1]) /\ metadata[pair[1]] = chunks[m].values[l][2]
    BY <2>4, <2>6, <2>7 DEF TakeInv, DecodeKnown, DP!TablesSoFar, DP!MetadataSoFar
  <2>9. <<pair[1], metadata[pair[1]]>> \in root.metadata
    BY <1>6, <1>7, <2>8
  <2>10. pair = <<pair[1], metadata[pair[1]]>>
    BY <1>3, <2>9
  <2>11. QED
    BY <1>3, <2>6, <2>9, <2>10
<1>10. Taken.metadata = {<<key, metadata[key]>> : key \in {k \in DP!MetaKeys : metadata[k] # 0}}
  BY <1>4 DEF Taken
<1>11. \A pair : pair \in Taken.metadata <=> pair \in root.metadata
  <2>1. ASSUME NEW pair, pair \in Taken.metadata PROVE pair \in root.metadata
    BY <1>8, <1>10, <2>1
  <2>2. ASSUME NEW pair, pair \in root.metadata PROVE pair \in Taken.metadata
    BY <1>9, <1>10, <2>2
  <2>3. QED
    BY <2>1, <2>2
<1>12. QED
  BY <1>11

-------------------------------------------------------------------------------
(* The calls of the second walk when it is over: one for each instance of  *)
(* the tree, the children of one in their order.                           *)
Walk(C, at) ==
  /\ Len(links) \in Nat /\ DOMAIN C = 1 .. Len(links)
  /\ \A i \in 1 .. Len(links) :
       /\ links[i] = LinkFor(C[i]) /\ C[i].instance \in T!Tree
       /\ Found(C[i], at[i])
  /\ InOrder(C, at)
  /\ \A p \in T!Tree \cup {Nil} : Covers(C, at, p)

(* When every call has been made, the calls are those of the instances of  *)
(* the tree.                                                               *)
LEMMA CallsCover ==
  ASSUME root \in Roots, NEW C, NEW at, Told(C, at), \A i \in DOMAIN C : C[i].entered
  PROVE  /\ \A i \in DOMAIN C : C[i].instance \in T!Tree
         /\ \A inst \in T!Tree : \E i \in DOMAIN C : C[i].instance = inst
<1>1. Nil \notin Instances /\ Nil \notin T!Tree /\ T!Tree \subseteq Instances
  BY TreeParts, EncodeAssumption
<1>2. ASSUME NEW i \in DOMAIN C
      PROVE  C[i].instance \in T!Tree
  <2>1. Found(C[i], at[i]) /\ C[i].instance # Nil
    BY DEF Told, Found
  <2>2. CASE C[i].parent = Nil
    <3>1. at[i] \in DOMAIN root.instances /\ root.instances[at[i]] = C[i].instance
      BY <2>1, <2>2 DEF Found, T!ListOf
    <3>2. QED
      BY <2>1, <3>1, TreeParts
  <2>3. CASE C[i].parent # Nil
    <3>1. /\ C[i].parent \in T!Tree /\ at[i] \in DOMAIN root.children[C[i].parent]
          /\ root.children[C[i].parent][at[i]] = C[i].instance
      BY <2>1, <2>3 DEF Found, T!ListOf
    <3>2. QED
      BY <2>1, <3>1, TreeParts
  <2>4. QED
    BY <2>2, <2>3
<1> DEFINE S == {C[i].instance : i \in DOMAIN C}
<1>3. S \in SUBSET Instances
  BY <1>1, <1>2
<1>4. ASSUME NEW p, Covers(C, at, p), NEW e \in DOMAIN T!ListOf(p)
      PROVE  T!ListOf(p)[e] \in S
  <2>1. PICK i \in DOMAIN C : C[i].parent = p /\ at[i] = e
    BY <1>4 DEF Covers
  <2>2. Found(C[i], at[i])
    BY DEF Told
  <2>3. QED
    BY <2>1, <2>2 DEF Found
<1>5. T!Closed(S)
  <2>1. \A e \in DOMAIN root.instances : root.instances[e] \in S
    <3>1. Covers(C, at, Nil) /\ T!ListOf(Nil) = root.instances
      BY DEF Told, T!ListOf
    <3>2. QED
      BY <1>4, <3>1
  <2>2. ASSUME NEW inst \in S
        PROVE  \A e \in DOMAIN root.children[inst] : root.children[inst][e] \in S
    <3>1. PICK k \in DOMAIN C : C[k].instance = inst
      OBVIOUS
    <3>2. Covers(C, at, inst)
      BY <3>1 DEF Told
    <3>3. T!ListOf(inst) = root.children[inst]
      BY <1>1, <1>3 DEF T!ListOf
    <3>4. QED
      BY <1>4, <3>2, <3>3
  <2>3. QED
    BY <2>1, <2>2 DEF T!Closed, T!Elements
<1>6. \A inst \in T!Tree : inst \in S
  BY <1>3, <1>5 DEF T!Tree
<1>7. QED
  BY <1>2, <1>6

(* There are no more calls than instances, and every instance has one, so  *)
(* none has two.                                                           *)
LEMMA CallsDistinct ==
  ASSUME TypeOK, InTree, Reached, step = "done", NumbersDistinct,
         NEW C, NEW c \in Nat, DOMAIN C = 1 .. c, c <= Len(instList),
         \A i \in DOMAIN C : C[i].instance \in T!Tree,
         \A inst \in T!Tree : \E i \in DOMAIN C : C[i].instance = inst
  PROVE  Distinct(C)
<1>1. T!Tree = Written
  BY TreeListed
<1>2. PICK n \in Nat : n = Len(instList)
  BY NumberOf
<1> DEFINE f == [i \in 1 .. c |-> Number(C[i].instance) + 1]
<1>3. ASSUME NEW i \in 1 .. c
      PROVE  f[i] \in 1 .. n
  <2>1. Number(C[i].instance) \in 0 .. n - 1
    BY <1>1, <1>2, NumberOf
  <2>2. QED
    BY <2>1, <1>2
<1>4. ASSUME NEW t \in 1 .. n
      PROVE  \E i \in 1 .. c : f[i] = t
  <2>1. PICK id \in 0 .. n - 1 : t = id + 1
    <3>1. t - 1 \in 0 .. n - 1 /\ t = (t - 1) + 1
      BY <1>2
    <3>2. QED
      BY <3>1
  <2>2. InstanceAt(id) \in Written /\ Number(InstanceAt(id)) = id
    BY <1>2, NumberOf
  <2>3. PICK i \in 1 .. c : C[i].instance = InstanceAt(id)
    BY <1>1, <2>2
  <2>4. QED
    BY <2>1, <2>2, <2>3
<1>5. f \in Surjection(1 .. c, 1 .. n)
  <2>1. f \in [1 .. c -> 1 .. n]
    BY <1>3
  <2> HIDE DEF f
  <2>2. QED
    BY <1>4, <2>1 DEF Surjection
<1>6. ASSUME NEW a \in Nat
      PROVE  IsFiniteSet(1 .. a) /\ Cardinality(1 .. a) = a
  <2>1. IsFiniteSet(1 .. a) /\ Cardinality(1 .. a) = IF 1 > a THEN 0 ELSE a - 1 + 1
    BY FS_Interval
  <2>2. QED
    BY <2>1
<1>7. f \in Injection(1 .. c, 1 .. n)
  <2> HIDE DEF f
  <2>1. /\ Cardinality(1 .. n) <= Cardinality(1 .. c)
        /\ Cardinality(1 .. n) = Cardinality(1 .. c) <=> f \in Injection(1 .. c, 1 .. n)
    BY <1>5, <1>6, FS_Surjection
  <2>2. Cardinality(1 .. n) = n /\ Cardinality(1 .. c) = c /\ c <= n
    BY <1>2, <1>6
  <2>3. QED
    BY <1>2, <2>1, <2>2
<1>8. \A i, j \in 1 .. c : f[i] = f[j] => i = j
  <2> HIDE DEF f
  <2>1. QED
    BY <1>7 DEF Injection, IsInjective
<1>9. QED
  BY <1>8 DEF Distinct

(* When the encoder is done, the walk has been over the whole tree.        *)
LEMMA WalkOver ==
  ASSUME TripInv, TakeInv, TellInv, step = "done", instList # <<>>
  PROVE  \E C, at : Walk(C, at)
<1>1. PICK C \in Seq(Call), at \in Seq(Nat) : Split(C) /\ Told(C, at)
  BY DEF TellInv, WalkInv
<1>2. walk = <<>> /\ Len(links) \in Nat /\ Len(walk) = 0
  BY DEF TellInv, WalkInv, TripInv, TypeOK, LinkTypeOK
<1>3. DOMAIN C = 1 .. Len(links) /\ \A i \in 1 .. Len(links) : C[i].entered /\ links[i] = LinkFor(C[i])
  BY <1>1, <1>2 DEF Split
<1>4. /\ TypeOK /\ InTree /\ Reached /\ root \in Roots /\ NumbersDistinct
  BY DEF TripInv, TellInv, WriteInv, TypeOK, ListTypeOK, EncodeInv
<1>5. /\ \A i \in DOMAIN C : C[i].instance \in T!Tree
      /\ \A inst \in T!Tree : \E i \in DOMAIN C : C[i].instance = inst
  BY <1>1, <1>3, <1>4, CallsCover
<1>6. Distinct(C)
  BY <1>2, <1>3, <1>4, <1>5, CallsDistinct DEF TakeInv, LinksBounded
<1>7. InOrder(C, at)
  BY <1>1, <1>6 DEF Told
<1>8. \A p \in T!Tree \cup {Nil} : Covers(C, at, p)
  BY <1>1, <1>3, <1>5 DEF Told
<1>9. \A i \in 1 .. Len(links) : Found(C[i], at[i])
  BY <1>1, <1>3 DEF Told
<1>10. Walk(C, at)
  BY <1>2, <1>3, <1>5, <1>7, <1>8, <1>9 DEF Walk
<1>11. QED
  BY <1>10

(* A set of pairs that is ordered like the numbers up to m has m members,  *)
(* and before the one that stands for e there are e - 1.                   *)
LEMMA Ranked ==
  ASSUME NEW m \in Nat, NEW L, NEW g, g \in [L -> 1 .. m],
         \A e \in 1 .. m : \E l \in L : g[l] = e,
         \A l, k \in L : g[l] = g[k] => l = k
  PROVE  IsFiniteSet(L) /\ Cardinality(L) = m
<1>1. IsFiniteSet(1 .. m) /\ Cardinality(1 .. m) = IF 1 > m THEN 0 ELSE m - 1 + 1
  BY FS_Interval
<1>2. Cardinality(1 .. m) = m
  BY <1>1
<1>3. g \in Surjection(L, 1 .. m)
  BY DEF Surjection
<1>4. g \in Injection(L, 1 .. m)
  BY DEF Injection, IsInjective
<1>5. /\ IsFiniteSet(L)
      /\ Cardinality(L) = Cardinality(1 .. m) <=> g \in Surjection(L, 1 .. m)
  BY <1>1, <1>4, FS_Injection
<1>6. QED
  BY <1>2, <1>3, <1>5

(* Numbers tell the instances of the tree and nil apart.                   *)
LEMMA NumbersTell ==
  ASSUME TripInv, TellInv, step = "done"
  PROVE  /\ T!Tree = Written
         /\ \A x, y \in T!Tree \cup {Nil} : Number(x) = Number(y) => x = y
         /\ Number(Nil) = nilInstance
         /\ \A x \in T!Tree : Number(x) # nilInstance /\ InstanceOf(Number(x)) = x
<1>1. TypeOK /\ NumbersDistinct
  BY DEF TripInv, EncodeInv
<1>2. T!Tree = Written
  BY <1>1, TreeListed DEF TripInv, WriteInv, TellInv
<1>3. Number(Nil) = nilInstance
  BY <1>1, NumberOf
<1>4. ASSUME NEW x \in T!Tree
      PROVE  Number(x) # nilInstance /\ InstanceAt(Number(x)) = x
  <2>1. Number(x) \in 0 .. Len(instList) - 1 /\ InstanceAt(Number(x)) = x
    BY <1>1, <1>2, NumberOf
  <2>2. -1 \notin 0 .. Len(instList) - 1
    OBVIOUS
  <2>3. QED
    BY <2>1, <2>2 DEF nilInstance
<1>5. QED
  BY <1>2, <1>3, <1>4 DEF InstanceOf

(* The decoder has made the instance by the time it comes to the arrays.   *)
LEMMA MadeBefore ==
  ASSUME TripInv, TakeInv, TellInv, phase = "done", NEW n, Passed(n), NEW inst \in T!Tree,
         NEW j \in n + Len(instChunks) + 1 .. pos
  PROVE  DP!ExistsAt(Number(inst), j) /\ Number(inst) \in Ids
<1>1. T!Tree = Written
  BY Finished, NumbersTell
<1>2. PICK k, i : IsAt(n, inst, k, i)
  BY <1>1, InstanceIsAt
<1>3. k \in 1 .. Len(instChunks) /\ n \in Nat /\ Len(instChunks) \in Nat /\ pos \in Nat
  <2>1. instChunks \in Seq(InstChunk)
    BY DEF TripInv, TypeOK, GroupTypeOK
  <2>2. pos \in Nat
    BY DEF Passed
  <2>3. QED
    BY <1>2, <2>1, <2>2 DEF IsAt, Passed
<1>4. n + k \in 1 .. j - 1
  BY <1>3
<1>5. QED
  BY <1>2, <1>4 DEF IsAt, DP!ExistsAt

(* The links to a parent in the file are those of the walk.                *)
LEMMA LinksOf ==
  ASSUME TripInv, TakeInv, TellInv, phase = "done", NEW C, NEW at, Walk(C, at),
         NEW p \in T!Tree \cup {Nil}
  PROVE  /\ \A l : l \in DP!LinksPassed(Number(p)) <=>
               \E i \in 1 .. Len(links) : l = <<pos - 1, i>> /\ C[i].parent = p
         /\ \A i \in 1 .. Len(links) : chunks[pos - 1].children[i] = Number(C[i].instance)
         /\ Number(p) \in Ids
<1>1. PICK n : Passed(n)
  BY Finished
<1>2. step = "done"
  BY Finished
<1> DEFINE q == pos - 1
<1>3. /\ q \in Nat /\ pos \in Nat /\ q < pos /\ DOMAIN chunks = 1 .. pos /\ q \in DOMAIN chunks
      /\ q \in n + Len(instChunks) + 1 .. pos
  BY <1>1 DEF Passed
<1>4. /\ chunks[q].sig = "PRNT" /\ DOMAIN links = 1 .. Len(links)
      /\ DOMAIN chunks[q].children = 1 .. Len(links)
      /\ \A i \in 1 .. Len(links) : /\ chunks[q].children[i] = Number(C[i].instance)
                                     /\ chunks[q].parents[i] = Number(C[i].parent)
  <2>1. links \in Seq(Link)
    BY DEF TripInv, TypeOK, LinkTypeOK
  <2>2. DOMAIN links = 1 .. Len(links)
    BY <2>1
  <2>3. chunks[q] = ParentChunk
    BY <1>1 DEF Passed
  <2>4. \A i \in 1 .. Len(links) : links[i] = LinkFor(C[i])
    BY DEF Walk
  <2>5. QED
    BY <2>2, <2>3, <2>4 DEF ParentChunk, LinkFor
<1>5. Number(p) \in Ids /\ (p # Nil => DP!ExistsAt(Number(p), q))
  <2>1. CASE p = Nil
    <3>1. Number(p) = D!nilInstance
      BY <1>2, <2>1, NumbersTell DEF nilInstance, D!nilInstance
    <3>2. QED
      BY <2>1, <3>1, DecodeAssumption DEF D!ChunkAssumption
  <2>2. CASE p # Nil
    <3>1. p \in T!Tree
      BY <2>2
    <3>2. QED
      BY <1>1, <1>3, <3>1, MadeBefore
  <2>3. QED
    BY <2>1, <2>2
<1>6. \A i \in 1 .. Len(links) : C[i].instance \in T!Tree /\ C[i].parent \in T!Tree \cup {Nil}
  BY DEF Walk, Found
<1>7. \A j \in DOMAIN chunks : chunks[j].sig = "PRNT" => j = q
  BY <1>1, <1>3, ChunkMade
<1>8. ASSUME NEW i \in 1 .. Len(links)
      PROVE  DP!IsLink(q, i, Number(p)) <=> C[i].parent = p
  <2>1. Number(C[i].parent) = Number(p) <=> C[i].parent = p
    BY <1>2, <1>6, NumbersTell
  <2>2. DP!ExistsAt(chunks[q].children[i], q)
    BY <1>1, <1>3, <1>4, <1>6, MadeBefore
  <2>3. Number(p) = DP!nilInstance \/ DP!ExistsAt(Number(p), q)
    BY <1>2, <1>5, NumbersTell DEF nilInstance, DP!nilInstance
  <2>4. QED
    BY <1>3, <1>4, <2>1, <2>2, <2>3 DEF DP!IsLink
<1>9. ASSUME NEW l
      PROVE  l \in DP!LinksPassed(Number(p)) <=>
               \E i \in 1 .. Len(links) : l = <<q, i>> /\ C[i].parent = p
  <2>1. l \in DP!LinksPassed(Number(p)) <=>
          \E j, k : l = <<j, k>> /\ DP!IsLink(j, k, Number(p)) /\ (j < pos \/ (j = pos /\ k < link))
    BY DecodeAssumed, DP!PassedPairs
  <2>2. ASSUME NEW j, NEW k, DP!IsLink(j, k, Number(p))
        PROVE  j = q /\ k \in 1 .. Len(links)
    <3>1. j = q
      BY <1>7, <2>2 DEF DP!IsLink
    <3>2. QED
      BY <1>4, <2>2, <3>1 DEF DP!IsLink
  <2>3. QED
    BY <1>3, <1>8, <2>1, <2>2
<1>10. QED
  BY <1>4, <1>5, <1>9

(* Sets are counted in the one module as in the other.                     *)
LEMMA SameCount ==
  ASSUME NEW S
  PROVE  DP!Cardinality(S) = Cardinality(S) /\ (DP!IsFiniteSet(S) <=> IsFiniteSet(S))
<1>1. DP!IsFiniteSet(S) <=> IsFiniteSet(S)
  BY DEF DP!IsFiniteSet, IsFiniteSet
<1>2. DP!Cardinality(S) = Cardinality(S)
  BY DEF DP!Cardinality, Cardinality
<1>3. QED
  BY <1>1, <1>2

(* The children of an instance, and the instances of the root, come back   *)
(* in their order.                                                         *)
LEMMA ChildrenFit ==
  ASSUME TripInv, TakeInv, TellInv, phase = "done", NEW C, NEW at, Walk(C, at),
         NEW p \in T!Tree \cup {Nil}
  PROVE  InstancesOf(children[Number(p)]) = T!ListOf(p)
<1> DEFINE L == DP!LinksPassed(Number(p))
           s == children[Number(p)]
           list == T!ListOf(p)
           m == Len(list)
<1>1. /\ \A l : l \in L <=> \E i \in 1 .. Len(links) : l = <<pos - 1, i>> /\ C[i].parent = p
      /\ \A i \in 1 .. Len(links) : chunks[pos - 1].children[i] = Number(C[i].instance)
      /\ Number(p) \in Ids
  BY LinksOf
<1>2. /\ IsFiniteSet(L) /\ Len(s) = Cardinality(L)
      /\ \A l \in L : s[1 + Cardinality(DP!LinksBefore(l, Number(p)))] = chunks[l[1]].children[l[2]]
  <2>1. DP!TreeSoFar
    BY DEF TakeInv, DecodeKnown, DP!FileInv
  <2>2. PICK parent \in Ids : parent = Number(p)
    BY <1>1
  <2>3. /\ IsFiniteSet(DP!LinksPassed(parent))
        /\ Len(children[parent]) = Cardinality(DP!LinksPassed(parent))
        /\ \A l \in DP!LinksPassed(parent) :
             children[parent][1 + Cardinality(DP!LinksBefore(l, parent))] = chunks[l[1]].children[l[2]]
    BY <2>1, <2>2, SameCount DEF DP!TreeSoFar
  <2>4. QED
    BY <2>2, <2>3
<1>3. s \in Seq(Ids) /\ Len(s) \in Nat
  BY <1>1 DEF TakeInv, DecodeKnown, DP!TypeOK, DP!TreeTypeOK
<1>4. list \in Seq(Instances \cup {Nil}) /\ m \in Nat /\ DOMAIN list = 1 .. m
  <2>1. root \in Roots /\ T!Tree \subseteq Instances
    BY TreeParts DEF TripInv, TypeOK, ListTypeOK
  <2>2. list \in Seq(Instances \cup {Nil})
    BY <2>1, RootParts DEF T!ListOf
  <2>3. QED
    BY <2>2
<1>5. \A i \in 1 .. Len(links) :
        C[i].parent = p => at[i] \in 1 .. m /\ list[at[i]] = C[i].instance /\ C[i].instance \in T!Tree
  BY <1>4 DEF Walk, Found
<1>6. \A e \in 1 .. m : \E i \in 1 .. Len(links) : C[i].parent = p /\ at[i] = e
  <2>1. Covers(C, at, p) /\ DOMAIN C = 1 .. Len(links)
    BY DEF Walk
  <2>2. DOMAIN list = 1 .. m
    BY <1>4
  <2> HIDE DEF m
  <2>3. QED
    BY <2>1, <2>2 DEF Covers
<1>7. \A i, j \in 1 .. Len(links) :
        i < j /\ C[i].parent = p /\ C[j].parent = p => at[i] < at[j]
  BY DEF Walk, InOrder
<1>8. Len(links) \in Nat /\ pos - 1 \in Nat
  <2>1. \E n : Passed(n)
    BY Finished
  <2>2. QED
    BY <2>1 DEF Passed, Walk
<1> HIDE DEF L, list, m, s
<1>9. Cardinality(L) = m
  <2> DEFINE g == [l \in L |-> at[l[2]]]
  <2>1. g \in [L -> 1 .. m]
    BY <1>1, <1>5
  <2>2. \A e \in 1 .. m : \E l \in L : g[l] = e
    <3>1. ASSUME NEW e \in 1 .. m PROVE \E l \in L : g[l] = e
      <4>1. PICK i \in 1 .. Len(links) : C[i].parent = p /\ at[i] = e
        BY <1>6
      <4>2. <<pos - 1, i>> \in L
        BY <1>1, <4>1
      <4>3. g[<<pos - 1, i>>] = e
        BY <4>1, <4>2
      <4>4. QED
        BY <4>2, <4>3
    <3>2. QED
      BY <3>1
  <2>3. ASSUME NEW l \in L, NEW k \in L, g[l] = g[k]
        PROVE  l = k
    <3>1. PICK i \in 1 .. Len(links) : l = <<pos - 1, i>> /\ C[i].parent = p
      BY <1>1
    <3>2. PICK j \in 1 .. Len(links) : k = <<pos - 1, j>> /\ C[j].parent = p
      BY <1>1
    <3>3. at[i] = at[j] /\ at[i] \in 1 .. m
      BY <2>3, <3>1, <3>2, <1>5
    <3>4. i = j
      BY <3>1, <3>2, <3>3, <1>4, <1>7, <1>8
    <3>5. QED
      BY <3>1, <3>2, <3>4
  <2> HIDE DEF g
  <2>4. QED
    BY <1>4, <2>1, <2>2, <2>3, Ranked
<1>10. ASSUME NEW i \in 1 .. Len(links), C[i].parent = p
       PROVE  s[at[i]] = Number(C[i].instance)
  <2> DEFINE l == <<pos - 1, i>>
             B == DP!LinksBefore(l, Number(p))
             g == [k \in B |-> at[k[2]]]
  <2>1. l \in L
    BY <1>1, <1>10
  <2>2. PICK a \in Nat : a = at[i] - 1
    BY <1>4, <1>5, <1>10
  <2>3. at[i] \in 1 .. m /\ at[i] = a + 1
    BY <1>4, <1>5, <1>10, <2>2
  <2>4. \A k : k \in B <=> \E j \in 1 .. Len(links) : k = <<pos - 1, j>> /\ C[j].parent = p /\ j < i
    <3>1. \A k : k \in B <=> k \in L /\ DP!Before(k, l)
      BY DEF DP!LinksBefore, L
    <3>2. \A j \in 1 .. Len(links) : DP!Before(<<pos - 1, j>>, l) <=> j < i
      BY <1>8 DEF DP!Before
    <3> HIDE DEF B, l
    <3>3. QED
      BY <1>1, <3>1, <3>2
  <2>5. g \in [B -> 1 .. a]
    <3>1. ASSUME NEW k \in B PROVE at[k[2]] \in 1 .. a
      <4>1. PICK j \in 1 .. Len(links) : k = <<pos - 1, j>> /\ C[j].parent = p /\ j < i
        BY <2>4
      <4>2. at[j] < at[i] /\ at[j] \in 1 .. m
        BY <1>5, <1>7, <1>10, <4>1
      <4>3. k[2] = j
        BY <4>1
      <4> HIDE DEF B
      <4>4. QED
        BY <1>4, <2>3, <4>2, <4>3
    <3> HIDE DEF B
    <3>2. QED
      BY <3>1
  <2>6. ASSUME NEW e \in 1 .. a PROVE \E k \in B : g[k] = e
    <3>1. e \in 1 .. m /\ e < at[i]
      BY <1>4, <2>3
    <3>2. PICK j \in 1 .. Len(links) : C[j].parent = p /\ at[j] = e
      BY <1>6, <3>1
    <3>3. j < i
      <4>1. ~(i < j) /\ i # j
        BY <1>7, <1>10, <2>3, <3>1, <3>2
      <4>2. QED
        BY <1>8, <4>1
    <3>4. <<pos - 1, j>> \in B
      BY <2>4, <3>2, <3>3
    <3>5. g[<<pos - 1, j>>] = e
      BY <3>2, <3>4
    <3>6. QED
      BY <3>4, <3>5
  <2>7. ASSUME NEW k \in B, NEW k2 \in B, g[k] = g[k2]
        PROVE  k = k2
    <3>1. PICK j \in 1 .. Len(links) : k = <<pos - 1, j>> /\ C[j].parent = p
      BY <2>4
    <3>2. PICK j2 \in 1 .. Len(links) : k2 = <<pos - 1, j2>> /\ C[j2].parent = p
      BY <2>4
    <3>3. at[j] = at[j2] /\ at[j] \in 1 .. m
      BY <2>7, <3>1, <3>2, <1>5
    <3>4. j = j2
      BY <3>1, <3>2, <3>3, <1>4, <1>7, <1>8
    <3>5. QED
      BY <3>1, <3>2, <3>4
  <2>8. Cardinality(B) = a
    <3> HIDE DEF g, B
    <3>1. QED
      BY <2>5, <2>6, <2>7, Ranked
  <2>9. s[1 + Cardinality(B)] = chunks[l[1]].children[l[2]]
    BY <1>2, <2>1
  <2>10. l[1] = pos - 1 /\ l[2] = i /\ 1 + Cardinality(B) = at[i]
    <3> HIDE DEF B
    <3>1. QED
      BY <2>3, <2>8
  <2>11. QED
    BY <1>1, <2>9, <2>10
<1>11. DOMAIN s = 1 .. m
  BY <1>2, <1>3, <1>9
<1>12. ASSUME NEW e \in 1 .. m
       PROVE  InstanceOf(s[e]) = list[e]
  <2>1. PICK i \in 1 .. Len(links) : C[i].parent = p /\ at[i] = e
    BY <1>6
  <2>2. s[e] = Number(C[i].instance) /\ list[e] = C[i].instance /\ C[i].instance \in T!Tree
    BY <1>5, <1>10, <2>1
  <2>3. QED
    BY <2>2, Finished, NumbersTell
<1>13. InstancesOf(s) = [e \in 1 .. m |-> list[e]]
  BY <1>11, <1>12 DEF InstancesOf
<1>14. list = [e \in 1 .. m |-> list[e]]
  BY <1>4
<1>15. QED
  BY <1>13, <1>14 DEF s, list

-------------------------------------------------------------------------------
(* Two groups are of two classes.                                          *)
LEMMA GroupByClass ==
  ASSUME TypeOK, Sorted, NEW k \in DOMAIN instChunks, NEW l \in DOMAIN instChunks,
         GroupClass(k) = GroupClass(l)
  PROVE  k = l
<1>1. instChunks \in Seq(InstChunk)
  BY DEF TypeOK, GroupTypeOK
<1>2. k \in Nat /\ l \in Nat
  BY <1>1
<1>3. GroupClass(k) \in Nat
  BY EncodeAssumption DEF Sorted
<1>4. /\ k < l => GroupClass(k) < GroupClass(l)
      /\ l < k => GroupClass(l) < GroupClass(k)
  BY DEF Sorted
<1> HIDE DEF GroupClass
<1>5. QED
  BY <1>2, <1>3, <1>4

(* The types of values, in the words of the two modules.                   *)
LEMMA TypesTold ==
  ASSUME NEW v \in Value, NEW w \in Value
  PROVE  /\ v # Absent <=> v.type # "absent"
         /\ T!SameType(v, w) <=> SameType(v, w)
         /\ TypeOf(v) = "optional" <=> T!IsOptional(v)
         /\ ~T!IsOptional(v) => TypeOf(v) = v.type
<1>1. v # Absent <=> v.type # "absent"
  BY DEF Value, Absent, Types
<1>2. v.type # "optional" /\ w.type # "optional"
  BY DEF Value, Absent, Types
<1>3. QED
  BY <1>1, <1>2 DEF T!SameType, SameType, T!IsOptional, TypeOf

(* Who has a property in the tree has it in the group of its class.        *)
LEMMA HoldersMeet ==
  ASSUME TripInv, TakeInv, TellInv, phase = "done", NEW k \in DOMAIN instChunks,
         NEW name \in Names, NEW other \in T!Holders(GroupClass(k), name)
  PROVE  \E i \in HoldersIn(k, name) : ValueIn(k, i, name) = T!Value(other, name)
<1>1. PICK n : Passed(n)
  BY Finished
<1>2. /\ other \in T!Tree /\ root.class[other] = GroupClass(k)
      /\ T!Value(other, name).type # "absent"
  BY DEF T!Holders, T!Has
<1>3. TypeOK /\ NumbersDistinct /\ Sorted /\ T!Tree = Written
  BY Finished, NumbersTell DEF TripInv, EncodeInv, TellInv
<1>4. PICK l, i : IsAt(n, other, l, i)
  BY <1>1, <1>2, <1>3, InstanceIsAt
<1>5. l = k
  BY <1>2, <1>3, <1>4, GroupByClass DEF IsAt
<1>6. /\ i \in DOMAIN instChunks[k].ids /\ instChunks[k].ids[i] = Number(other)
      /\ InstanceAt(Number(other)) = other
  BY <1>2, <1>3, <1>4, <1>5, NumberOf DEF IsAt
<1>7. ValueIn(k, i, name) = T!Value(other, name)
  BY <1>6 DEF ValueIn, Property, T!Value
<1>8. ValueIn(k, i, name) # Absent
  BY <1>2, <1>7 DEF Absent
<1>9. QED
  BY <1>6, <1>7, <1>8 DEF HoldersIn

(* What is handed over of a class is what is kept of its group.            *)
LEMMA KeptSame ==
  ASSUME TripInv, TakeInv, TellInv, phase = "done", NEW k \in DOMAIN instChunks,
         NEW name \in Names
  PROVE  T!Kept(GroupClass(k), name) <=> KeptIn(k, name)
<1> DEFINE H == T!Holders(GroupClass(k), name)
           G == HoldersIn(k, name)
           V(inst) == T!Value(inst, name)
           W(i) == ValueIn(k, i, name)
<1>1. \A inst \in H : \E i \in G : W(i) = V(inst)
  BY HoldersMeet
<1>2. \A i \in G : W(i) \in Value /\ \E inst \in H : W(i) = V(inst)
  <2>1. ASSUME NEW i \in G
        PROVE  /\ W(i) \in Value
               /\ InstanceAt(instChunks[k].ids[i]) \in H
               /\ W(i) = V(InstanceAt(instChunks[k].ids[i]))
    BY HolderInTree DEF TripInv, TellInv
  <2>2. QED
    BY <2>1
<1>3. T!Kept(GroupClass(k), name) <=>
        /\ H # {}
        /\ \A inst, other \in H : T!SameType(V(inst), V(other))
        /\ root.mode = "place" \/ \A inst \in H : V(inst).type # "unique"
  BY DEF T!Kept
<1>4. KeptIn(k, name) <=>
        /\ G # {}
        /\ \A i, j \in G : SameType(W(i), W(j))
        /\ root.mode = "place" \/ \A i \in G : W(i).type # "unique"
  BY DEF KeptIn
<1> HIDE DEF H, G, V, W
<1>5. H # {} <=> G # {}
  BY <1>1, <1>2
<1>6. (\A inst, other \in H : T!SameType(V(inst), V(other))) <=> \A i, j \in G : SameType(W(i), W(j))
  <2>1. \A i, j \in G : T!SameType(W(i), W(j)) <=> SameType(W(i), W(j))
    BY <1>2, TypesTold
  <2>2. ASSUME \A inst, other \in H : T!SameType(V(inst), V(other))
        PROVE  \A i, j \in G : SameType(W(i), W(j))
    BY <1>2, <2>1, <2>2
  <2>3. ASSUME \A i, j \in G : SameType(W(i), W(j))
        PROVE  \A inst, other \in H : T!SameType(V(inst), V(other))
    BY <1>1, <2>1, <2>3
  <2>4. QED
    BY <2>2, <2>3
<1>7. (\A inst \in H : V(inst).type # "unique") <=> \A i \in G : W(i).type # "unique"
  BY <1>1, <1>2
<1>8. QED
  BY <1>3, <1>4, <1>5, <1>6, <1>7

(* An array is there for what is kept, and for nothing else.               *)
LEMMA TypedKept ==
  ASSUME TypeOK, NEW p \in DOMAIN propChunks, Typed(p)
  PROVE  KeptIn(propChunks[p].class + 1, propChunks[p].name)
<1> DEFINE k == propChunks[p].class + 1
           name == propChunks[p].name
<1>1. PICK t \in Types : Agreed(k, name, t)
  BY DEF Typed
<1>2. /\ HoldersIn(k, name) # {} /\ (t = "unique" => root.mode = "place")
      /\ \A i \in HoldersIn(k, name) : TypeOf(ValueIn(k, i, name)) = t
  BY <1>1 DEF Agreed
<1>3. \A i \in HoldersIn(k, name) : ValueIn(k, i, name).type = "unique" => t = "unique"
  <2>1. ASSUME NEW i \in HoldersIn(k, name), ValueIn(k, i, name).type = "unique"
        PROVE  t = "unique"
    <3>1. TypeOf(ValueIn(k, i, name)) = t
      BY <1>2
    <3>2. QED
      BY <2>1, <3>1 DEF TypeOf
  <2>2. QED
    BY <2>1
<1>4. QED
  BY <1>2, <1>3 DEF KeptIn, SameType

-------------------------------------------------------------------------------
(* The shared strings are read before the arrays.                          *)
LEMMA TableRead ==
  ASSUME TripInv, TakeInv, phase = "done", NEW n, Passed(n), sharedStrings # <<>>,
         NEW j \in n + Len(instChunks) + 1 .. pos
  PROVE  DP!Table(chunks, j) = sharedStrings
<1> DEFINE tables == {k \in 1 .. j - 1 : chunks[k].sig = "SSTR"}
           c == CHOOSE k \in tables : DP!IsGreatest(k, tables)
<1>1. /\ step = "done" /\ pos = Len(file)
      /\ \A i \in 1 .. Len(file) :
           /\ chunks[i].sig \notin {"PROP", "other"} => chunks[i] = file[i]
           /\ file[i].sig # "PROP" => chunks[i] = file[i]
  BY Finished
<1>2. n \in Nat /\ Len(instChunks) \in Nat /\ pos \in Nat
  BY DEF Passed
<1>3. PICK i \in 1 .. pos : chunks[i].sig = "SSTR"
  BY <1>1 DEF TakeInv, FileTables
<1>4. i \in 1 .. n
  BY <1>3, ChunkMade
<1>5. i \in tables /\ j - 1 \in Nat /\ tables \in SUBSET (1 .. j - 1)
  BY <1>2, <1>3, <1>4
<1>6. \E k \in tables : DP!IsGreatest(k, tables)
  <2> HIDE DEF tables
  <2>1. QED
    BY <1>5, DecodeAssumed, DP!GreatestExists
<1>7. c \in tables
  BY <1>6
<1>8. chunks[c].values = sharedStrings
  <2>1. c \in 1 .. pos /\ chunks[c].sig = "SSTR"
    <3> HIDE DEF c
    <3>1. QED
      BY <1>2, <1>7
  <2> HIDE DEF c
  <2>2. QED
    BY <1>1, <2>1 DEF TakeInv, FileTables
<1>9. DP!Table(chunks, j) = IF tables = {} THEN <<>> ELSE chunks[c].values
  BY DEF DP!Table
<1>10. QED
  BY <1>5, <1>8, <1>9

(* What the file means by an element of an array.                          *)
MeansOf(ch, i, v, m) ==
  /\ ch.kind = "reference" =>
       /\ m.type = "reference"
       /\ v.type = "reference" =>
            m = [type |-> "reference", value |-> IF v.value \in T!Tree THEN Number(v.value) ELSE nilInstance]
  /\ ch.kind = "shared" =>
       m.type = "shared" /\ (v.type = "shared" => m = [type |-> "shared", value |-> v.value])
  /\ ch.kind = "optional" =>
       m = IF Encodable(v) THEN [type |-> "some", value |-> v.value] ELSE [type |-> "none", value |-> 0]
  /\ ch.kind = "value" =>
       /\ v.type \in {"value", "unique"} => m = [type |-> "value", value |-> v.value]
       /\ v.type = "absent" => m = [type |-> "value", value |-> 0]

(* The value the decoder takes from an array is the one that was put       *)
(* there, unless the array is packed.                                      *)
LEMMA Means ==
  ASSUME TripInv, TakeInv, TellInv, phase = "done", NEW n, Passed(n),
         NEW inst \in T!Tree, NEW k, NEW i, IsAt(n, inst, k, i),
         NEW p \in DOMAIN propChunks, propChunks[p].class + 1 = k,
         propChunks[p].kind # "packed"
  PROVE  MeansOf(propChunks[p], i, ValueOfElement(p, i),
                 DP!Meant(n + Len(instChunks) + p, Number(inst)))
<1> DEFINE j == n + Len(instChunks) + p
           ch == propChunks[p]
           v == ValueOfElement(p, i)
           m == DP!Meant(j, Number(inst))
<1>1. /\ step = "done" /\ NumbersConsistent /\ TypeOK
  BY Finished DEF TripInv
<1>2. /\ k \in DOMAIN instChunks /\ i \in DOMAIN instChunks[k].ids
      /\ instChunks[k].ids[i] = Number(inst)
      /\ instLookup[Number(inst)] = n + k
  BY DEF IsAt
<1>3. /\ chunks[j] = ch /\ chunks[n + k] = instChunks[k] /\ j \in n + Len(instChunks) + 1 .. pos
  <2>1. j \in n + Len(instChunks) + 1 .. pos - 2 /\ pos \in Nat /\ n \in Nat /\ Len(instChunks) \in Nat
    BY DEF Passed
  <2>2. ReadAs(chunks[j], ch) /\ chunks[n + k] = instChunks[k]
    BY <1>2 DEF Passed
  <2>3. chunks[j] = ch
    BY <2>2 DEF ReadAs, IsPacked
  <2> HIDE DEF j
  <2>4. QED
    BY <2>1, <2>2, <2>3
<1>4. (CHOOSE e \in DOMAIN chunks[instLookup[Number(inst)]].ids :
         chunks[instLookup[Number(inst)]].ids[e] = Number(inst)) = i
  <2>1. \A e \in DOMAIN instChunks[k].ids : instChunks[k].ids[e] = Number(inst) => e = i
    BY <1>1, <1>2 DEF NumbersConsistent, GroupsDisjoint
  <2>2. QED
    BY <1>2, <1>3, <2>1
<1>5. SaysElement(p, i) /\ (ch.kind = "optional" => i \in DOMAIN ch.present)
  <2>1. /\ Len(ch.values) = Len(instChunks[k].ids)
        /\ ch \in PropChunk /\ instChunks[k] \in InstChunk
    BY <1>1, <1>2 DEF NumbersConsistent, ArraysFit, IsFull, TypeOK, PropTypeOK, GroupTypeOK
  <2>2. ch.values \in Seq(Int) /\ instChunks[k].ids \in Seq(Nat)
    BY <2>1, ChunkSigs DEF PropChunk
  <2>3. i \in DOMAIN ch.values
    BY <1>2, <2>1, <2>2
  <2>4. SaysElement(p, i)
    BY <2>3 DEF TakeInv, Contents
  <2>5. QED
    BY <2>4 DEF SaysElement, Says
<1>6. Says(ch, i, v, Number(v.value), sharedStrings)
  BY <1>5 DEF SaysElement
<1>7. m = CASE ch.kind = "reference" ->
                 [type |-> "reference",
                  value |-> IF DP!ExistsAt(ch.values[i], j) THEN ch.values[i] ELSE DP!nilInstance]
            [] ch.kind = "shared" ->
                 [type |-> "shared",
                  value |-> IF ch.values[i] \in 0 .. Len(DP!Table(chunks, j)) - 1
                            THEN DP!Table(chunks, j)[ch.values[i] + 1] ELSE 0]
            [] ch.kind \in DP!Flagged ->
                 IF ch.present[i] THEN [type |-> "some", value |-> ch.values[i]] ELSE DP!NoneOf
            [] ch.kind = "value" -> [type |-> "value", value |-> ch.values[i]]
  <2> DEFINE e == DP!Element(chunks, instLookup[Number(inst)], Number(inst))
             referent == IF DP!ExistsAt(chunks[j].values[e], j) THEN chunks[j].values[e]
                         ELSE DP!nilInstance
  <2> HIDE DEF j
  <2>1. m = DP!MeantIn(chunks[j], e, DP!Table(chunks, j), referent)
    BY Zenon DEF DP!Meant, DP!MeantIn, DP!Element, DP!Table
  <2>2. e = i /\ chunks[j] = ch
    BY <1>3, <1>4 DEF DP!Element
  <2> HIDE DEF e, m, ch
  <2>3. QED
    BY Zenon, <2>1, <2>2 DEF DP!MeantIn
<1>8. CASE ch.kind = "reference"
  <2>1. m = [type |-> "reference",
             value |-> IF DP!ExistsAt(ch.values[i], j) THEN ch.values[i] ELSE DP!nilInstance]
    BY <1>7, <1>8 DEF DP!Flagged
  <2>2. ASSUME v.type = "reference", v.value \in T!Tree
        PROVE  ch.values[i] = Number(v.value) /\ DP!ExistsAt(ch.values[i], j)
    <3>1. ch.values[i] = Number(v.value)
      BY <1>6, <2>2 DEF Says
    <3> HIDE DEF j, v
    <3>2. QED
      BY <1>3, <2>2, <3>1, MadeBefore
  <2>3. ASSUME v.type = "reference", v.value \notin T!Tree
        PROVE  ch.values[i] = nilInstance
    <3>1. ch.values[i] = Number(v.value)
      BY <1>6, <2>3 DEF Says
    <3>2. v.value \notin Written
      BY <1>1, <2>3, NumbersTell
    <3>3. QED
      BY <1>1, <3>1, <3>2, NumberOf DEF NumbersConsistent
  <2>4. DP!nilInstance = nilInstance
    BY DEF DP!nilInstance, nilInstance
  <2> HIDE DEF m, v, j, ch
  <2>5. m.type = "reference"
    BY <2>1
  <2>6. v.type = "reference" =>
            m = [type |-> "reference", value |-> IF v.value \in T!Tree THEN Number(v.value) ELSE nilInstance]
    BY <2>1, <2>2, <2>3, <2>4
  <2>7. QED
    BY <1>8, <2>5, <2>6 DEF MeansOf, m, v, ch, j
<1>9. CASE ch.kind = "shared"
  <2>1. m = [type |-> "shared",
             value |-> IF ch.values[i] \in 0 .. Len(DP!Table(chunks, j)) - 1
                       THEN DP!Table(chunks, j)[ch.values[i] + 1] ELSE 0]
    BY <1>7, <1>9 DEF DP!Flagged
  <2>2. ASSUME v.type = "shared"
        PROVE  /\ ch.values[i] \in 0 .. Len(DP!Table(chunks, j)) - 1
               /\ DP!Table(chunks, j)[ch.values[i] + 1] = v.value
    <3>1. ch.values[i] + 1 \in DOMAIN sharedStrings /\ sharedStrings[ch.values[i] + 1] = v.value
      BY <1>6, <2>2 DEF Says
    <3>2. sharedStrings \in Seq(Int)
      BY <1>1 DEF TypeOK, PropTypeOK
    <3>3. sharedStrings # <<>>
      BY <3>1
    <3>4. DP!Table(chunks, j) = sharedStrings
      BY <1>3, <3>3, TableRead
    <3>5. ch.values[i] \in Int
      <4>1. ch \in PropChunk
        BY <1>1 DEF TypeOK, PropTypeOK
      <4>2. ch.values \in Seq(Int)
        BY <4>1 DEF PropChunk
      <4>3. i \in DOMAIN ch.values
        <5>1. Len(ch.values) = Len(instChunks[k].ids) /\ instChunks[k] \in InstChunk
          BY <1>1, <1>2 DEF NumbersConsistent, ArraysFit, IsFull, TypeOK, GroupTypeOK
        <5>2. instChunks[k].ids \in Seq(Nat)
          BY <5>1, ChunkSigs
        <5>3. QED
          BY <1>2, <4>2, <5>1, <5>2
      <4>4. QED
        BY <4>2, <4>3
    <3>6. QED
      BY <3>1, <3>2, <3>4, <3>5
  <2> HIDE DEF m, v, j, ch
  <2>3. m.type = "shared"
    BY <2>1
  <2>4. v.type = "shared" => m = [type |-> "shared", value |-> v.value]
    BY <2>1, <2>2
  <2>5. QED
    BY <1>9, <2>3, <2>4 DEF MeansOf, m, v, ch, j
<1>10. CASE ch.kind = "optional"
  <2>1. m = IF ch.present[i] THEN [type |-> "some", value |-> ch.values[i]]
            ELSE [type |-> "none", value |-> 0]
    BY <1>7, <1>10 DEF DP!Flagged, DP!NoneOf
  <2>2. ch.present[i] <=> Encodable(v)
    BY <1>6, <1>10 DEF Says
  <2>3. Encodable(v) => ch.values[i] = v.value
    BY <1>6 DEF Says
  <2> HIDE DEF m, v, j, ch
  <2>4. m = IF Encodable(v) THEN [type |-> "some", value |-> v.value] ELSE [type |-> "none", value |-> 0]
    BY <2>1, <2>2, <2>3
  <2>5. QED
    BY <1>10, <2>4 DEF MeansOf, m, v, ch, j
<1>11. CASE ch.kind = "value"
  <2>1. m = [type |-> "value", value |-> ch.values[i]]
    BY <1>7, <1>11 DEF DP!Flagged
  <2>2. /\ v.type \in {"value", "unique"} => ch.values[i] = v.value
        /\ v.type = "absent" => ch.values[i] = 0
    BY <1>6 DEF Says
  <2> HIDE DEF m, v, j, ch
  <2>3. QED
    BY <1>11, <2>1, <2>2 DEF MeansOf, m, v, ch, j
<1>12. ch.kind \in {"reference", "shared", "optional", "value"}
  <2>1. ch \in PropChunk
    BY <1>1 DEF TypeOK, PropTypeOK
  <2>2. QED
    BY <2>1 DEF PropChunk
<1>13. QED
  BY <1>8, <1>9, <1>10, <1>11, <1>12

-------------------------------------------------------------------------------
(* The array a property of an instance is read from.                       *)
LEMMA SourceArray ==
  ASSUME TripInv, TakeInv, TellInv, phase = "done", NEW n, Passed(n),
         NEW inst \in T!Tree, NEW k, NEW i, IsAt(n, inst, k, i), NEW name \in Names,
         NEW j \in 1 .. pos - 1, DP!IsSource(j, Number(inst), name)
  PROVE  \E p \in DOMAIN propChunks :
           /\ j = n + Len(instChunks) + p
           /\ propChunks[p].class + 1 = k /\ propChunks[p].name = name
<1>1. /\ chunks[j].sig = "PROP" /\ chunks[j].name = name
      /\ chunks[j].class = chunks[instLookup[Number(inst)]].class
  BY DEF DP!IsSource
<1>2. j \in 1 .. pos
  BY DEF Passed
<1>3. PICK p \in DOMAIN propChunks :
        ReadAs(chunks[j], propChunks[p]) /\ j = n + Len(instChunks) + p
  BY <1>1, <1>2, ChunkMade
<1>9. chunks[j].class = propChunks[p].class /\ chunks[j].name = propChunks[p].name
  <2>1. chunks[j] # D!Other
    BY <1>1 DEF D!Other
  <2>2. propChunks[p] \in PropChunk
    BY DEF TripInv, TypeOK, PropTypeOK
  <2>3. QED
    BY <1>3, <2>1, <2>2, ArrayAs
<1>4. /\ chunks[instLookup[Number(inst)]] = instChunks[k] /\ instChunks[k].class = k - 1
      /\ k \in DOMAIN instChunks
  BY DEF IsAt, Passed
<1>5. k \in Nat
  <2>1. instChunks \in Seq(InstChunk)
    BY DEF TripInv, TypeOK, GroupTypeOK
  <2>2. QED
    BY <1>4, <2>1
<1>6. propChunks[p].class = k - 1
  BY <1>1, <1>9, <1>4
<1>7. propChunks[p].class + 1 = k
  BY <1>5, <1>6
<1>8. QED
  BY <1>1, <1>3, <1>7, <1>9

(* An array that is not packed is about all instances of its group.        *)
LEMMA ArraySource ==
  ASSUME TripInv, TakeInv, TellInv, phase = "done", NEW n, Passed(n),
         NEW inst \in T!Tree, NEW k, NEW i, IsAt(n, inst, k, i),
         NEW p \in DOMAIN propChunks, propChunks[p].class + 1 = k,
         propChunks[p].kind # "packed"
  PROVE  /\ n + Len(instChunks) + p \in 1 .. pos - 1
         /\ DP!IsSource(n + Len(instChunks) + p, Number(inst), propChunks[p].name)
<1> DEFINE j == n + Len(instChunks) + p
<1>1. chunks[j] = propChunks[p] /\ j \in 1 .. pos - 1
  <2>1. chunks[j] = propChunks[p] /\ j \in n + Len(instChunks) + 1 .. pos - 2
    BY DEF Passed, ReadAs, IsPacked
  <2>2. n \in Nat /\ Len(instChunks) \in Nat /\ pos \in Nat
    BY DEF Passed
  <2> HIDE DEF j
  <2>3. QED
    BY <2>1, <2>2
<1>2. propChunks[p] \in PropChunk
  BY DEF TripInv, TypeOK, PropTypeOK
<1>3. propChunks[p].sig = "PROP" /\ propChunks[p].kind # "none" /\ propChunks[p].class \in Nat
  BY <1>2, ChunkSigs
<1>4. /\ chunks[instLookup[Number(inst)]] = instChunks[k] /\ instChunks[k].class = k - 1
      /\ D!Exists(Number(inst))
  BY DEF IsAt, Passed
<1>5. propChunks[p].class = k - 1
  BY <1>3
<1> HIDE DEF j
<1>6. DP!IsSource(j, Number(inst), propChunks[p].name)
  BY <1>1, <1>3, <1>4, <1>5 DEF DP!IsSource, DP!Exists, D!Exists
<1>7. QED
  BY <1>1, <1>6 DEF j

(* What is read of a packed array is optional.                             *)
LEMMA GarbledMeans ==
  ASSUME TripInv, TakeInv, phase = "done", NEW n, Passed(n), NEW p \in DOMAIN propChunks,
         propChunks[p].kind = "packed", NEW id,
         chunks[n + Len(instChunks) + p].sig = "PROP"
  PROVE  DP!Meant(n + Len(instChunks) + p, id).type \in {"some", "none"}
<1> DEFINE j == n + Len(instChunks) + p
           e == DP!Element(chunks, instLookup[id], id)
           referent == IF DP!ExistsAt(chunks[j].values[e], j) THEN chunks[j].values[e]
                       ELSE DP!nilInstance
<1>1. chunks[j].kind = "optional"
  <2>1. ReadAs(chunks[j], propChunks[p]) /\ propChunks[p] \in PropChunk
    BY DEF Passed, TripInv, TypeOK, PropTypeOK
  <2>2. chunks[j] # D!Other
    BY DEF D!Other
  <2>3. IsPacked(propChunks[p])
    BY <2>1 DEF IsPacked, PropChunk
  <2>4. QED
    BY <2>1, <2>2, <2>3 DEF ReadAs, Garbled
<1>2. DP!Meant(j, id) = DP!MeantIn(chunks[j], e, DP!Table(chunks, j), referent)
  <2> HIDE DEF j
  <2>1. QED
    BY Zenon DEF DP!Meant, DP!MeantIn, DP!Element, DP!Table
<1> HIDE DEF j, e, referent
<1>3. DP!Meant(j, id).type \in {"some", "none"}
  BY <1>1, <1>2 DEF DP!MeantIn, DP!Flagged, DP!NoneOf
<1>4. QED
  BY <1>3 DEF j

(* A property is read from the array of its group, or it is not set.       *)
LEMMA PropertyRead ==
  ASSUME TripInv, TakeInv, TellInv, phase = "done", NEW n, Passed(n),
         NEW inst \in T!Tree, NEW k, NEW i, IsAt(n, inst, k, i), NEW name \in Names
  PROVE  /\ ~KeptIn(k, name) => properties[Number(inst)][name] = DP!Unset
         /\ KeptIn(k, name) =>
              \E p \in DOMAIN propChunks :
                /\ propChunks[p].class + 1 = k /\ propChunks[p].name = name /\ Typed(p)
                /\ propChunks[p].kind # "packed" =>
                     properties[Number(inst)][name] = DP!Meant(n + Len(instChunks) + p, Number(inst))
                /\ propChunks[p].kind = "packed" =>
                     properties[Number(inst)][name].type \in {"unset", "some", "none"}
<1>1. /\ step = "done" /\ TypeOK /\ Verdicts /\ k \in DOMAIN instChunks
      /\ \A p \in DOMAIN propChunks : Typed(p)
  BY Finished DEF TripInv, TellInv, Verdicts, IsAt
<1>2. PICK id \in Ids : id = Number(inst)
  BY DEF IsAt
<1>3. \/ /\ properties[id][name] = DP!Unset
         /\ \A j \in 1 .. pos - 1 : ~DP!IsSource(j, id, name)
      \/ \E j \in 1 .. pos - 1 :
           DP!IsSource(j, id, name) /\ properties[id][name] = DP!Meant(j, id)
  BY DEF TakeInv, DecodeKnown, DP!FileInv, DP!PropertiesSoFar
<1>4. ASSUME NEW j \in 1 .. pos - 1, DP!IsSource(j, id, name)
      PROVE  \E p \in DOMAIN propChunks :
               /\ j = n + Len(instChunks) + p
               /\ propChunks[p].class + 1 = k /\ propChunks[p].name = name
  BY <1>2, <1>4, SourceArray
<1>5. CASE ~KeptIn(k, name)
  <2>1. \A j \in 1 .. pos - 1 : ~DP!IsSource(j, id, name)
    <3>1. ASSUME NEW j \in 1 .. pos - 1, DP!IsSource(j, id, name) PROVE FALSE
      <4>1. PICK p \in DOMAIN propChunks : propChunks[p].class + 1 = k /\ propChunks[p].name = name
        BY <1>4, <3>1
      <4>2. KeptIn(k, name)
        BY <1>1, <4>1, TypedKept
      <4>3. QED
        BY <1>5, <4>2
    <3>2. QED
      BY <3>1
  <2>2. QED
    BY <1>2, <1>3, <1>5, <2>1
<1>6. CASE KeptIn(k, name)
  <2>1. PICK p \in DOMAIN propChunks : propChunks[p].class + 1 = k /\ propChunks[p].name = name
    BY <1>1, <1>6 DEF Verdicts, HasArray
  <2>2. CASE \E j \in 1 .. pos - 1 :
               DP!IsSource(j, id, name) /\ properties[id][name] = DP!Meant(j, id)
    <3>1. PICK j \in 1 .. pos - 1 : DP!IsSource(j, id, name) /\ properties[id][name] = DP!Meant(j, id)
      BY <2>2
    <3>2. PICK q \in DOMAIN propChunks : /\ j = n + Len(instChunks) + q
                                         /\ propChunks[q].class + 1 = k /\ propChunks[q].name = name
      BY <1>4, <3>1
    <3>3. chunks[n + Len(instChunks) + q].sig = "PROP"
      BY <3>1, <3>2 DEF DP!IsSource
    <3>4. propChunks[q].kind = "packed" =>
            DP!Meant(n + Len(instChunks) + q, id).type \in {"unset", "some", "none"}
      BY <3>3, GarbledMeans
    <3>5. QED
      BY <1>1, <1>2, <1>6, <3>1, <3>2, <3>4
  <2>3. CASE /\ properties[id][name] = DP!Unset
             /\ \A j \in 1 .. pos - 1 : ~DP!IsSource(j, id, name)
    <3>1. propChunks[p].kind = "packed"
      BY <1>2, <2>1, <2>3, ArraySource
    <3>2. QED
      BY <1>1, <1>2, <1>6, <2>1, <2>3, <3>1 DEF DP!Unset
  <2>4. QED
    BY <1>3, <2>2, <2>3
<1>7. QED
  BY <1>5, <1>6

(* A value that all agree on comes back as it should, and so does the one  *)
(* an instance gets that has none.                                         *)
LEMMA GivenFits ==
  ASSUME TripInv, TellInv, step = "done", NEW ch \in PropChunk, NEW i, NEW v \in Value \ {Absent},
         NEW m, MeansOf(ch, i, v, m), ch.kind = KindOf(v), ch.kind # "packed"
  PROVE  T!Given(v, ValueOf(m))
<1>1. v.type \in {"value", "unique", "reference", "shared", "some", "none", "invalid"}
  BY DEF Value, Absent, Types
<1>2. ch.kind \in {"reference", "shared", "optional", "value"}
  BY DEF PropChunk
<1>3. v.type # "invalid"
  BY <1>2 DEF KindOf, TypeOf
<1>4. CASE v.type = "reference"
  <2>1. ch.kind = "reference"
    BY <1>4 DEF KindOf, TypeOf
  <2>2. m = [type |-> "reference", value |-> IF v.value \in T!Tree THEN Number(v.value) ELSE nilInstance]
    BY <1>4, <2>1 DEF MeansOf
  <2>3. InstanceOf(m.value) = IF v.value \in T!Tree THEN v.value ELSE Nil
    BY <2>2, NumbersTell DEF InstanceOf
  <2>4. ValueOf(m) = [type |-> "reference", value |-> IF v.value \in T!Tree THEN v.value ELSE Nil]
    BY <2>2, <2>3 DEF ValueOf
  <2>5. QED
    BY <1>4, <2>4 DEF T!Given, T!Plain
<1>5. CASE v.type = "shared"
  <2>1. ch.kind = "shared"
    BY <1>5 DEF KindOf, TypeOf
  <2>2. m = [type |-> "shared", value |-> v.value]
    BY <1>5, <2>1 DEF MeansOf
  <2>3. ValueOf(m) = m
    BY <2>2 DEF ValueOf
  <2>4. QED
    BY <1>5, <2>2, <2>3 DEF T!Given, T!Plain
<1>6. CASE v.type \in {"some", "none"}
  <2>1. ch.kind = "optional"
    BY <1>6 DEF KindOf, TypeOf
  <2>2. m = IF Encodable(v) THEN [type |-> "some", value |-> v.value] ELSE [type |-> "none", value |-> 0]
    BY <2>1 DEF MeansOf
  <2>3. ValueOf(m) = m
    BY <2>2 DEF ValueOf
  <2>4. v.inner \notin {"reference", "shared"}
    BY <1>6 DEF KindOf, TypeOf, Interleaved
  <2>5. QED
    BY <1>6, <2>2, <2>3, <2>4 DEF T!Given, T!Plain, Encodable
<1>7. CASE v.type \in {"value", "unique"}
  <2>1. ch.kind = "value"
    BY <1>7 DEF KindOf, TypeOf
  <2>2. m = [type |-> "value", value |-> v.value]
    BY <1>7, <2>1 DEF MeansOf
  <2>3. ValueOf(m) = m
    BY <2>2 DEF ValueOf
  <2>4. QED
    BY <1>7, <2>2, <2>3 DEF T!Given, T!Plain
<1>8. QED
  BY <1>1, <1>3, <1>4, <1>5, <1>6, <1>7

(* The same of an instance that does not have the property.                *)
LEMMA FilledFits ==
  ASSUME NEW ch \in PropChunk, NEW i, NEW m, MeansOf(ch, i, Absent, m),
         NEW w \in Value \ {Absent}, ch.kind = KindOf(w), ch.kind # "packed"
  PROVE  T!FilledIn(w, ValueOf(m))
<1>1. w.type \in {"value", "unique", "reference", "shared", "some", "none", "invalid"}
  BY DEF Value, Absent, Types
<1>2. ch.kind \in {"reference", "shared", "optional", "value"}
  BY DEF PropChunk
<1>3. w.type # "invalid"
  BY <1>2 DEF KindOf, TypeOf
<1>4. CASE w.type = "reference"
  <2>1. ch.kind = "reference"
    BY <1>4 DEF KindOf, TypeOf
  <2>2. m.type = "reference"
    BY <2>1 DEF MeansOf
  <2>3. ValueOf(m).type = "reference"
    BY <2>2 DEF ValueOf
  <2>4. QED
    BY <1>4, <2>3 DEF T!FilledIn, T!Plain, T!IsOptional
<1>5. CASE w.type = "shared"
  <2>1. ch.kind = "shared"
    BY <1>5 DEF KindOf, TypeOf
  <2>2. m.type = "shared"
    BY <2>1 DEF MeansOf
  <2>3. ValueOf(m) = m
    BY <2>2 DEF ValueOf
  <2>4. QED
    BY <1>5, <2>2, <2>3 DEF T!FilledIn, T!Plain, T!IsOptional
<1>6. CASE w.type \in {"some", "none"}
  <2>1. ch.kind = "optional"
    BY <1>6 DEF KindOf, TypeOf
  <2>2. ~Encodable(Absent)
    BY DEF Encodable, Absent
  <2>3. m = [type |-> "none", value |-> 0]
    BY <2>1, <2>2 DEF MeansOf
  <2>4. ValueOf(m) = m
    BY <2>3 DEF ValueOf
  <2>5. QED
    BY <1>6, <2>3, <2>4 DEF T!FilledIn, T!IsOptional, T!Plain
<1>7. CASE w.type \in {"value", "unique"}
  <2>1. ch.kind = "value"
    BY <1>7 DEF KindOf, TypeOf
  <2>2. m = [type |-> "value", value |-> 0]
    BY <2>1 DEF MeansOf, Absent
  <2>3. ValueOf(m) = m
    BY <2>2 DEF ValueOf
  <2>4. QED
    BY <1>7, <2>2, <2>3 DEF T!FilledIn, T!Plain, T!IsOptional
<1>8. QED
  BY <1>1, <1>3, <1>4, <1>5, <1>6, <1>7

(* A packed array is of optionals of an interleaved type.                  *)
LEMMA GarbledKind ==
  ASSUME TripInv, TakeInv, TellInv, phase = "done", NEW k \in DOMAIN instChunks,
         NEW name \in Names, HoldersIn(k, name) # {}, NEW kind,
         \A l \in HoldersIn(k, name) : kind = KindOf(ValueIn(k, l, name))
  PROVE  T!Garbled(GroupClass(k), name) <=> kind = "packed"
<1>1. \A v \in Value : KindOf(v) = "packed" <=> T!IsOptional(v) /\ v.inner \in T!Interleaved
  BY DEF Value, Absent, Types, KindOf, TypeOf, T!IsOptional, T!Interleaved, Interleaved
<1>2. ASSUME T!Garbled(GroupClass(k), name) PROVE kind = "packed"
  <2>1. PICK other \in T!Holders(GroupClass(k), name) :
          T!IsOptional(T!Value(other, name)) /\ T!Value(other, name).inner \in T!Interleaved
    BY <1>2 DEF T!Garbled
  <2>2. PICK l \in HoldersIn(k, name) : ValueIn(k, l, name) = T!Value(other, name)
    BY HoldersMeet
  <2>3. ValueIn(k, l, name) \in Value
    BY HolderInTree DEF TripInv, TellInv
  <2>4. QED
    BY <1>1, <2>1, <2>2, <2>3
<1>3. ASSUME kind = "packed" PROVE T!Garbled(GroupClass(k), name)
  <2>1. PICK l \in HoldersIn(k, name) : KindOf(ValueIn(k, l, name)) = "packed"
    BY <1>3
  <2>2. PICK other : /\ other \in T!Holders(GroupClass(k), name)
                     /\ ValueIn(k, l, name) = T!Value(other, name)
                     /\ ValueIn(k, l, name) \in Value
    BY HolderInTree DEF TripInv, TellInv
  <2>3. QED
    BY <1>1, <2>1, <2>2 DEF T!Garbled
<1>4. QED
  BY <1>2, <1>3

(* The properties come back as far as they can be written together.        *)
LEMMA PropertiesFit ==
  ASSUME TripInv, TakeInv, TellInv, phase = "done", NEW inst \in T!Tree, NEW name \in Names
  PROVE  T!PropertyFits(inst, name, Taken.properties[inst][name])
<1>1. PICK n : Passed(n)
  BY Finished
<1>2. /\ step = "done" /\ T!Tree = Written /\ TypeOK /\ NumbersDistinct /\ root \in Roots
  BY Finished, NumbersTell DEF TripInv, EncodeInv, TypeOK, ListTypeOK
<1>3. PICK k, i : IsAt(n, inst, k, i)
  BY <1>1, <1>2, InstanceIsAt
<1>4. /\ k \in DOMAIN instChunks /\ i \in DOMAIN instChunks[k].ids
      /\ instChunks[k].ids[i] = Number(inst) /\ root.class[inst] = GroupClass(k)
      /\ InstanceAt(Number(inst)) = inst /\ inst \in Instances
  BY <1>2, <1>3, NumberOf DEF IsAt
<1>5. PICK taken : taken = Taken.properties[inst][name]
  OBVIOUS
<1>6. taken = ValueOf(properties[Number(inst)][name])
  BY <1>2, <1>5 DEF Taken
<1>7. PICK v : v = T!Value(inst, name)
  OBVIOUS
<1>8. v = ValueIn(k, i, name) /\ v \in Value
  <2>1. v = ValueIn(k, i, name)
    BY <1>4, <1>7 DEF ValueIn, Property, T!Value
  <2>2. root.properties \in [Instances -> [Names -> Value]]
    BY <1>2, RootParts
  <2>3. QED
    <3>1. root.properties[inst] \in [Names -> Value]
      BY <1>4, <2>2
    <3>2. root.properties[inst][name] \in Value
      BY <3>1
    <3>3. QED
      BY <1>7, <2>1, <3>2 DEF T!Value
<1>9. T!Kept(root.class[inst], name) <=> KeptIn(k, name)
  BY <1>4, KeptSame
<1>10. CASE ~KeptIn(k, name)
  <2>1. properties[Number(inst)][name] = DP!Unset
    BY <1>1, <1>3, <1>10, PropertyRead
  <2>2. taken.type = "unset"
    BY <1>6, <2>1 DEF DP!Unset, ValueOf
  <2>3. QED
    BY <1>5, <1>9, <1>10, <2>2 DEF T!PropertyFits
<1>11. CASE KeptIn(k, name)
  <2>1. PICK p \in DOMAIN propChunks :
          /\ propChunks[p].class + 1 = k /\ propChunks[p].name = name /\ Typed(p)
          /\ propChunks[p].kind # "packed" =>
               properties[Number(inst)][name] = DP!Meant(n + Len(instChunks) + p, Number(inst))
          /\ propChunks[p].kind = "packed" =>
               properties[Number(inst)][name].type \in {"unset", "some", "none"}
    BY <1>1, <1>3, <1>11, PropertyRead
  <2>2. propChunks[p] \in PropChunk
    BY <1>2 DEF TypeOK, PropTypeOK
  <2>3. /\ HoldersIn(k, name) # {}
        /\ \A l \in HoldersIn(k, name) : propChunks[p].kind = KindOf(ValueIn(k, l, name))
    BY <1>11, <2>1 DEF KeptIn, Typed, AsKind
  <2>4. T!Garbled(root.class[inst], name) <=> propChunks[p].kind = "packed"
    BY <1>1, <1>3, <1>4, <2>3, GarbledKind
  <2>5. CASE propChunks[p].kind = "packed"
    <3>1. properties[Number(inst)][name].type \in {"unset", "some", "none"}
      BY <2>1, <2>5
    <3>2. taken.type \in {"unset", "some", "none"}
      BY <1>6, <3>1 DEF ValueOf
    <3>3. QED
      BY <1>5, <1>9, <1>11, <2>4, <2>5, <3>2 DEF T!PropertyFits
  <2>6. CASE propChunks[p].kind # "packed"
    <3>1. PICK m : m = DP!Meant(n + Len(instChunks) + p, Number(inst))
      OBVIOUS
    <3>2. taken = ValueOf(m)
      BY <1>6, <2>1, <2>6, <3>1
    <3>3. MeansOf(propChunks[p], i, v, m)
      <4>1. ValueOfElement(p, i) = v
        BY <1>8, <2>1 DEF ValueOfElement
      <4>2. QED
        BY <1>1, <1>3, <2>1, <2>6, <3>1, <4>1, Means
    <3>4. CASE T!Has(inst, name)
      <4>1. v # Absent
        BY <1>7, <3>4 DEF T!Has, Absent
      <4>2. i \in HoldersIn(k, name)
        BY <1>4, <1>8, <4>1 DEF HoldersIn
      <4>3. propChunks[p].kind = KindOf(v)
        BY <1>8, <2>3, <4>2
      <4>4. T!Given(v, taken)
        BY <1>2, <1>8, <2>2, <2>6, <3>2, <3>3, <4>1, <4>3, GivenFits
      <4>5. QED
        BY <1>5, <1>7, <1>9, <1>11, <2>4, <2>6, <3>4, <4>4 DEF T!PropertyFits
    <3>5. CASE ~T!Has(inst, name)
      <4>1. v = Absent
        <5>1. v.type = "absent"
          BY <1>7, <3>5 DEF T!Has
        <5>2. QED
          BY <1>8, <5>1, TypesTold
      <4>2. ASSUME NEW other \in T!Holders(root.class[inst], name)
            PROVE  T!FilledIn(T!Value(other, name), taken)
        <5>1. PICK l \in HoldersIn(k, name) : ValueIn(k, l, name) = T!Value(other, name)
          BY <1>4, HoldersMeet
        <5>2. ValueIn(k, l, name) \in Value \ {Absent}
          BY <1>4, HolderInTree DEF TripInv, TellInv
        <5>3. PICK w : w = T!Value(other, name)
          OBVIOUS
        <5>4. w \in Value \ {Absent} /\ propChunks[p].kind = KindOf(w)
          BY <2>3, <5>1, <5>2, <5>3
        <5>5. T!FilledIn(w, taken)
          BY <2>2, <2>6, <3>2, <3>3, <4>1, <5>4, FilledFits
        <5>6. QED
          BY <5>3, <5>5
      <4>3. QED
        BY <1>5, <1>9, <1>11, <2>4, <2>6, <3>5, <4>2 DEF T!PropertyFits
    <3>6. QED
      BY <3>4, <3>5
  <2>7. QED
    BY <2>5, <2>6
<1>12. QED
  BY <1>10, <1>11

-------------------------------------------------------------------------------
(* What is taken is what RbxlTransfer asks for.                            *)

(* Without an instance there is no link, and nothing under the root.       *)
LEMMA NothingTaken ==
  ASSUME TripInv, TakeInv, TellInv, phase = "done", instList = <<>>
  PROVE  Taken.instances = <<>> /\ T!Tree = {}
<1>1. PICK n : Passed(n)
  BY Finished
<1>2. step = "done"
  BY Finished
<1>3. T!Tree = {}
  BY <1>2, NumbersTell DEF Written
<1>4. DOMAIN chunks[pos - 1].children = {} /\ pos \in Nat
  <2>1. links \in Seq(Link) /\ Len(links) <= 0
    BY DEF TripInv, TypeOK, LinkTypeOK, TakeInv, LinksBounded
  <2>2. DOMAIN links = {}
    BY <2>1
  <2>3. chunks[pos - 1] = ParentChunk
    BY <1>1 DEF Passed
  <2>4. QED
    BY <1>1, <2>2, <2>3 DEF ParentChunk, Passed
<1>5. \A l : l \notin DP!LinksPassed(nilInstance)
  <2>1. ASSUME NEW j, NEW k, DP!IsLink(j, k, nilInstance), j < pos \/ (j = pos /\ k < link)
        PROVE  FALSE
    <3>1. j \in DOMAIN chunks /\ chunks[j].sig = "PRNT" /\ k \in DOMAIN chunks[j].children
      BY <2>1 DEF DP!IsLink
    <3>2. j \in 1 .. pos
      BY <1>1, <3>1 DEF Passed
    <3>3. j = pos - 1
      BY <1>1, <3>1, <3>2, ChunkMade
    <3>4. QED
      BY <1>4, <3>1, <3>3
  <2>2. \A l : l \in DP!LinksPassed(nilInstance) =>
          \E j, k : l = <<j, k>> /\ DP!IsLink(j, k, nilInstance) /\ (j < pos \/ (j = pos /\ k < link))
    BY DecodeAssumed, DP!PassedPairs
  <2>3. QED
    BY <2>1, <2>2
<1>6. Len(children[nilInstance]) = Cardinality(DP!LinksPassed(nilInstance)) /\ nilInstance \in Ids
  <2>1. DP!TreeSoFar
    BY DEF TakeInv, DecodeKnown, DP!FileInv
  <2>2. PICK parent \in Ids : parent = nilInstance
    BY DecodeAssumption DEF D!ChunkAssumption, nilInstance, D!nilInstance
  <2>3. Len(children[parent]) = Cardinality(DP!LinksPassed(parent))
    BY <2>1, SameCount DEF DP!TreeSoFar
  <2>4. QED
    BY <2>2, <2>3
<1>7. DP!LinksPassed(nilInstance) = {}
  BY <1>5
<1>8. Len(children[nilInstance]) = 0
  BY <1>6, <1>7, FS_EmptySet
<1>9. children[nilInstance] \in Seq(Ids)
  BY <1>6 DEF TakeInv, DecodeKnown, DP!TypeOK, DP!TreeTypeOK
<1>10. DOMAIN children[nilInstance] = {}
  BY <1>8, <1>9
<1>11. InstancesOf(children[nilInstance]) = <<>>
  BY <1>10 DEF InstancesOf
<1>12. QED
  BY <1>3, <1>11 DEF Taken

(* The instances come back in their places.                                *)
LEMMA InstancesFit ==
  ASSUME TripInv, TakeInv, TellInv, phase = "done"
  PROVE  /\ Taken.instances = IF T!Tree = {} THEN <<>> ELSE root.instances
         /\ Taken.children = [inst \in T!Tree |-> root.children[inst]]
<1>1. CASE instList = <<>>
  <2>1. Taken.instances = <<>> /\ T!Tree = {}
    BY <1>1, NothingTaken
  <2>2. Written = {}
    BY <1>1 DEF Written
  <2>3. QED
    BY <2>1, <2>2 DEF Taken
<1>2. CASE instList # <<>>
  <2>1. step = "done"
    BY Finished
  <2>2. PICK C, at : Walk(C, at)
    BY <1>2, <2>1, WalkOver
  <2>3. /\ T!Tree = Written /\ Number(Nil) = nilInstance
        /\ Nil \notin T!Tree
    <3>1. T!Tree \subseteq Instances
      BY TreeParts DEF TripInv, TypeOK, ListTypeOK
    <3>2. QED
      BY <2>1, <3>1, NumbersTell, EncodeAssumption
  <2>4. T!Tree # {}
    <3>1. 1 \in DOMAIN instList
      BY <1>2 DEF TripInv, TypeOK, ListTypeOK
    <3>2. QED
      BY <2>3, <3>1 DEF Written
  <2>5. InstancesOf(children[nilInstance]) = root.instances
    <3>1. InstancesOf(children[Number(Nil)]) = T!ListOf(Nil)
      BY <2>2, ChildrenFit
    <3>2. QED
      BY <2>3, <3>1 DEF T!ListOf
  <2>6. \A inst \in T!Tree : InstancesOf(children[Number(inst)]) = root.children[inst]
    <3>1. ASSUME NEW inst \in T!Tree
          PROVE  InstancesOf(children[Number(inst)]) = root.children[inst]
      <4>1. InstancesOf(children[Number(inst)]) = T!ListOf(inst)
        BY <2>2, ChildrenFit
      <4>2. inst # Nil
        BY <2>3
      <4>3. QED
        BY <4>1, <4>2 DEF T!ListOf
    <3>2. QED
      BY <3>1
  <2>7. Taken.instances = root.instances
    BY <2>5 DEF Taken
  <2>8. Taken.children = [inst \in Written |-> InstancesOf(children[Number(inst)])]
    BY DEF Taken
  <2>9. QED
    BY <2>3, <2>4, <2>6, <2>7, <2>8
<1>3. QED
  BY <1>1, <1>2

(* What is taken fits the root.                                            *)
LEMMA TakenFits == TripInv /\ TakeInv /\ TellInv /\ phase = "done" => T!Fits(Taken)
<1> SUFFICES ASSUME TripInv, TakeInv, TellInv, phase = "done"
             PROVE  T!Fits(Taken)
  OBVIOUS
<1>1. /\ Taken.instances = IF T!Tree = {} THEN <<>> ELSE root.instances
      /\ Taken.children = [inst \in T!Tree |-> root.children[inst]]
  BY InstancesFit
<1>2. \A inst, other \in T!Tree :
        Taken.class[inst] < Taken.class[other] <=> root.class[inst] < root.class[other]
  BY ClassesFit
<1>3. Taken.services = IF root.mode = "place" THEN root.services \cap T!Tree ELSE {}
  BY ServicesFit
<1>4. \A inst \in T!Tree, name \in Names : T!PropertyFits(inst, name, Taken.properties[inst][name])
  BY PropertiesFit
<1>5. Taken.metadata = root.metadata
  BY MetadataFits
<1>6. QED
  BY <1>1, <1>2, <1>3, <1>4, <1>5 DEF T!Fits

(* What fits a root fits it as long as it stays the same.                  *)
LEMMA FitsStays ==
  ASSUME root' = root, NEW t, t = Taken', T!Fits(Taken)'
  PROVE  T!Fits(t)
<1>1. T!Tree' = T!Tree
  BY TreeStays
<1>2. /\ t.instances = IF T!Tree = {} THEN <<>> ELSE root.instances
      /\ t.children = [inst \in T!Tree |-> root.children[inst]]
      /\ \A inst, other \in T!Tree :
           t.class[inst] < t.class[other] <=> root.class[inst] < root.class[other]
      /\ t.services = IF root.mode = "place" THEN root.services \cap T!Tree ELSE {}
      /\ t.metadata = root.metadata
  BY <1>1 DEF T!Fits
<1>3. \A inst \in T!Tree, name \in Names : T!PropertyFits(inst, name, t.properties[inst][name])
  <2>1. ASSUME NEW inst \in T!Tree, NEW name \in Names
        PROVE  T!PropertyFits(inst, name, t.properties[inst][name])
    <3>1. PICK taken : taken = t.properties[inst][name]
      OBVIOUS
    <3>2. T!PropertyFits(inst, name, taken)'
      BY <1>1, <2>1, <3>1 DEF T!Fits
    <3>3. /\ \A c, n : T!Holders(c, n)' = T!Holders(c, n)
          /\ \A i, n : T!Value(i, n)' = T!Value(i, n)
          /\ \A i, n : T!Has(i, n)' = T!Has(i, n)
      BY <1>1 DEF T!Holders, T!Has, T!Value
    <3>4. \A c, n : T!Kept(c, n)' <=> T!Kept(c, n)
      BY <3>3 DEF T!Kept, T!SameType, T!IsOptional
    <3>5. \A v : T!Given(v, taken)' <=> T!Given(v, taken)
      BY <1>1 DEF T!Given, T!Plain
    <3>6. \A v : T!FilledIn(v, taken)' <=> T!FilledIn(v, taken)
      BY DEF T!FilledIn, T!Plain, T!IsOptional
    <3>7. \A c, n : T!Garbled(c, n)' <=> T!Garbled(c, n)
      BY <3>3 DEF T!Garbled, T!IsOptional, T!Interleaved
    <3>8. T!PropertyFits(inst, name, taken)
      BY <3>2, <3>3, <3>4, <3>5, <3>6, <3>7 DEF T!PropertyFits
    <3>9. QED
      BY <3>1, <3>8
  <2>2. QED
    BY <2>1
<1>4. QED
  BY <1>2, <1>3 DEF T!Fits

-------------------------------------------------------------------------------
(* The trip implements RbxlTransfer.                                       *)

(* Before the encoder begins the tree is given.                            *)
LEMMA HandedStart ==
  ASSUME TripInit
  PROVE  T!Init
<1>1. root \in Roots /\ step = "list" /\ phase = "header"
  BY DEF TripInit, Init, D!Init
<1>2. QED
  BY <1>1 DEF T!Init, Status

(* The root is given once; an end is not left.                             *)
LEMMA RootStays ==
  ASSUME [TripNext]_tripVars
  PROVE  root' = root
<1>1. ASSUME Next PROVE root' = root
  BY <1>1 DEF Next, AddInstance, AllListed, GroupInstance, AllGrouped, NextGroup,
         CheckProperty, StartProperty, AllChecked, FillValue, GroupDone, WriteChunks, Crash,
         AllFilled, EnterInstance, LeaveInstance
<1>2. ASSUME UNCHANGED encodeVars PROVE root' = root
  BY <1>2 DEF encodeVars
<1>3. Next \/ UNCHANGED encodeVars
  BY DEF TripNext, Encode, WriteFile, ReadHeader, ReadChunk, Decode, Returned, tripVars
<1>4. QED
  BY <1>1, <1>2, <1>3

(* When the tree is taken or lost nothing more happens.                    *)
LEMMA EndStays ==
  ASSUME TripInv, [TripNext]_tripVars, step = "panic" \/ phase = "done"
  PROVE  UNCHANGED tripVars
<1>1. step = "panic" => phase = "header" /\ header = NoHeader
  BY DEF TripInv, ReadInv, ReadSoFar
<1>2. phase = "done" => step = "done" /\ header # NoHeader
  BY DEF TripInv, ReadInv, ReadSoFar
<1>3. ~Encode
  <2>1. step \in {"panic", "done"}
    BY <1>1, <1>2
  <2>2. ~Next
    BY <2>1 DEF Next, AddInstance, AllListed, GroupInstance, AllGrouped, NextGroup,
         CheckProperty, StartProperty, AllChecked, FillValue, GroupDone, WriteChunks,
         AllFilled, EnterInstance, LeaveInstance, Filling
  <2>3. QED
    BY <2>2 DEF Encode
<1>4. ~WriteFile
  BY <1>1, <1>2 DEF WriteFile
<1>5. ~ReadHeader
  BY <1>1, <1>2 DEF ReadHeader, D!HeaderOK
<1>6. ~ReadChunk
  BY <1>1, <1>2 DEF ReadChunk, ReadPacked, D!ReadBroken, D!KeepGroup, D!KeepProperty, D!KeepOther,
         D!ReadEnd, D!Room
<1>7. ~Decode
  BY <1>1, <1>2 DEF Decode, D!DecodeInstance, D!DecodeProperty, D!EnterParent, D!LinkChild,
         D!LeaveParent, D!DecodeMeta, D!DecodeSharedStrings, D!PassOther, D!DecodeEnd, D!At
<1>8. QED
  BY <1>3, <1>4, <1>5, <1>6, <1>7 DEF TripNext, Returned

(* Every step of the trip hands the tree over, loses it for a reason, or   *)
(* is not seen from outside.                                               *)
LEMMA HandedStep ==
  TripInv /\ TripInv' /\ TellInv' /\ TakeInv' /\ LostInv' /\ [TripNext]_tripVars
    => [T!Next]_(T!vars)
<1> SUFFICES ASSUME TripInv, TripInv', TellInv', TakeInv', LostInv', [TripNext]_tripVars
             PROVE  T!Next \/ UNCHANGED T!vars
  OBVIOUS
<1>1. root' = root
  BY RootStays
<1>2. /\ phase \notin {"error", "panic"} /\ phase' \notin {"error", "panic"}
      /\ step = "panic" => phase # "done"
      /\ step' = "panic" => phase' # "done"
  BY DEF TripInv, ReadInv, ReadSoFar
<1> DEFINE tree == IF phase = "done" THEN Taken ELSE NoTree
<1>3. CASE step = "panic" \/ phase = "done"
  <2>1. UNCHANGED tripVars
    BY <1>3, EndStays
  <2>2. UNCHANGED <<step, phase, root, instList>> /\ UNCHANGED <<chunks, instLookup, children, services, properties, metadata>>
    BY <2>1 DEF tripVars, encodeVars, decodeVars
  <2>3. Status' = Status /\ Taken' = Taken
    BY <2>2 DEF Status, Taken, InstancesOf, InstanceOf, InstanceAt, Written, Number, Listed, ValueOf
  <2>4. QED
    BY <2>2, <2>3 DEF T!vars, NoTree
<1>4. CASE step # "panic" /\ phase # "done"
  <2>1. Status = "given" /\ tree = NoTree
    BY <1>2, <1>4 DEF Status
  <2>2. CASE step' = "panic"
    <3>1. ~(T!Sound)'
      BY <2>2 DEF LostInv
    <3>2. ~T!Sound
      BY <1>1, <3>1, TreeStays
    <3>3. Status' = "lost" /\ tree' = NoTree
      BY <1>2, <2>2 DEF Status, NoTree
    <3>4. T!Lose
      BY <1>1, <2>1, <3>2, <3>3 DEF T!Lose, NoTree
    <3>5. QED
      BY <3>4 DEF T!Next
  <2>3. CASE phase' = "done"
    <3>1. Status' = "taken" /\ tree' = Taken'
      BY <1>2, <2>3 DEF Status
    <3>2. T!Fits(Taken)'
      <4>1. (TripInv /\ TakeInv /\ TellInv /\ phase = "done" => T!Fits(Taken))'
        BY TakenFits, PTL
      <4>2. QED
        BY <4>1, <2>3
    <3>3. PICK t : t = Taken'
      OBVIOUS
    <3>4. T!Fits(t)
      BY <1>1, <3>2, <3>3, FitsStays
    <3>5. T!Fits(Taken')
      BY <3>3, <3>4
    <3>6. T!Take
      BY <1>1, <2>1, <3>1, <3>5 DEF T!Take
    <3>7. QED
      BY <3>6 DEF T!Next
  <2>4. CASE step' # "panic" /\ phase' # "done"
    <3>1. Status' = "given" /\ tree' = NoTree
      BY <1>2, <2>4 DEF Status, NoTree
    <3>2. QED
      BY <1>1, <2>1, <3>1 DEF T!vars, NoTree
  <2>5. QED
    BY <2>2, <2>3, <2>4
<1>5. QED
  BY <1>3, <1>4

(* Whatever tree is encoded, its file is decoded to that tree, with the    *)
(* same instances in the same order, its services, its metadata and its    *)
(* properties, unless the tree is not sound and the encoder panics         *)
(* (rbxl/codec.go:426-740, 39-190): the numbers, the groups, the sorted    *)
(* arrays and the tables of the format cannot be seen from outside.  All   *)
(* that is lost or garbled are the optionals of an interleaved type        *)
(* (rbxl/arrays.go:1454), which leave every other property as it is.       *)
THEOREM FileIsATransfer == TripSpec => Implements
<1>1. TripInit => TripInv /\ TellInv /\ LostInv /\ TakeInv /\ T!Init
  BY TripStart, TellStart, TakeStart, HandedStart
<1>2. TripInv /\ [TripNext]_tripVars => TripInv'
  BY TripStep
<1>3. TripInv /\ TellInv /\ LostInv /\ [TripNext]_tripVars => TellInv' /\ LostInv'
  BY TellStep DEF TripInv
<1>4. TripInv /\ TellInv /\ TakeInv /\ [TripNext]_tripVars => TakeInv'
  BY TakeStep
<1>5. TripInv /\ TripInv' /\ TellInv' /\ TakeInv' /\ LostInv' /\ [TripNext]_tripVars
        => [T!Next]_(T!vars)
  BY HandedStep
<1>6. QED
  BY <1>1, <1>2, <1>3, <1>4, <1>5, PTL DEF TripSpec, Implements, T!Spec

===============================================================================
