---------------------------- MODULE RbxlChunkArray ----------------------------
(***************************************************************************)
(* The array of a property chunk (chunkProperty of rbxl/model.go), from    *)
(* the writer to the reader.  The bytes of an array end where those of its *)
(* chunk do, and it is read for as many values as its group has instances. *)
(* In between a file may lose bytes, or the group have another number of   *)
(* instances.                                                              *)
(***************************************************************************)
EXTENDS RbxlArrays

CONSTANTS
  Arrays,       \* the arrays that are written
  Spares        \* the capacities that the buffer of a reader has beyond its length

VARIABLES
  array,        \* the array that is written
  step,         \* write, change, read, then done
  bytes,        \* what is in the chunk
  count,        \* how many instances the group has
  result        \* what the reader gets

vars == <<array, step, bytes, count, result>>
-------------------------------------------------------------------------------
Init ==
  /\ array \in Arrays
  /\ step = "write"
  /\ bytes = <<>> /\ count = 0 /\ result = Failure

(* chunkProperty.WriteTo                                                   *)
Write ==
  /\ step = "write"
  /\ bytes' = typeArrayToBytes(array)
  /\ count' = Len(array.values)
  /\ step' = "change"
  /\ UNCHANGED <<array, result>>

Keep == step = "change" /\ step' = "read" /\ UNCHANGED <<array, bytes, count, result>>
Lose ==
  /\ step = "change" /\ step' = "read"
  /\ \E n \in 1 .. Len(bytes) - 1 : bytes' = SubSeq(bytes, 1, n)
  /\ UNCHANGED <<array, count, result>>
Regroup ==
  /\ step = "change" /\ step' = "read"
  /\ \E n \in 0 .. count + 1 : n # count /\ count' = n
  /\ UNCHANGED <<array, bytes, result>>

(* chunkProperty.Decode                                                    *)
ReadBytes ==
  /\ step = "read" /\ step' = "done"
  /\ \E spare \in Spares : result' = typeArrayFromBytes(bytes, count, spare)
  /\ UNCHANGED <<array, bytes, count>>

Next == Write \/ Keep \/ Lose \/ Regroup \/ ReadBytes
Spec == Init /\ [][Next]_vars

-------------------------------------------------------------------------------
Length == Len(array.values)
Written == typeArrayToBytes(array)
Intact == bytes = Written /\ count = Length
(* What is read is what was written, up to the last byte.                  *)
IsArray == result.ok /\ result.array = array /\ result.rest = <<>>

(* The type invariant: an array is written as bytes, as many as BytesLen   *)
(* says (arrays.go:332-1568), and only the slice of the positions of       *)
(* coordinate frames (arrays.go:896) may panic, when bytes are missing or  *)
(* the group has other instances than the array was written for.           *)
SizeOfArray(t, values) ==
  1 + FoldLeft(LAMBDA n, v : n + BytesLen(t, v), 0, values)
TypeOK ==
  /\ array \in Arrays
  /\ step \in {"write", "change", "read", "done"}
  /\ \A i \in DOMAIN bytes : bytes[i] \in Byte
  /\ step = "change" =>
       Len(bytes) = IF array.type = "Optional"
                      THEN 1 + SizeOfArray(array.inner, array.values) + 1 + Length
                      ELSE SizeOfArray(array.type, array.values)
  /\ result.panic => ~Intact /\ (array.type \in Frames \/ array.inner \in Frames)

(* An array is read as it was written (arrays.go:129-131, 1-830): sizes,   *)
(* byte orders, signs, differences and interleaving all undo each other.   *)
(* An optional array of an interleaved type is not: its values would be    *)
(* deinterleaved together with the flags behind them.                      *)
Separable == array.type = "Optional" => ~interleaver(array.inner)
ReadBack == step = "done" /\ Intact /\ Separable => IsArray

(* An array that has lost bytes at its end is never read for all of the    *)
(* instances (arrays.go:144-160, values.go:567-609): a file cut short is   *)
(* noticed, whatever was lost.                                             *)
LossNoticed == step = "done" /\ Len(bytes) < Len(Written) => ~result.ok

(* An array that is read for other instances than it was written for: for  *)
(* more of them it is refused, for fewer the first values are read as they *)
(* were (arrays.go:132-162).  Not so for coordinate frames, whose          *)
(* positions begin where the rotations were taken to end, and for optional *)
(* arrays, whose flags do.                                                 *)
OtherGroup ==
  step = "done" /\ bytes = Written /\ array.type \notin Frames \cup {"Optional"} =>
    /\ count > Length => ~result.ok
    /\ count < Length =>
         result.ok /\ result.array = [array EXCEPT !.values = SubSeq(array.values, 1, count)]

(* Interleaving moves the n-th byte of every value to the n-th group       *)
(* (arrays.go:66-74: ABCDabcd becomes AaBbCcDd), in place when there are   *)
(* as many values as bytes in one, and byte by byte when there are not.    *)
Interleaving ==
  step = "change" /\ interleaver(array.type) =>
    \A v \in 1 .. Length, b \in 1 .. Size(array.type) :
      bytes[1 + (b - 1) * Length + v] =
        ArrayOf(array.type, array.values)[(v - 1) * Size(array.type) + b]

(* What arrays.go:129-131 says of every array: "arrayFromBytes decodes an  *)
(* array of length elements from b into a. Returns an error if the array   *)
(* could not be decoded. n is the number of bytes successfully read."      *)
(* Optional arrays of interleaved types are not decoded.                   *)
EveryArrayReadBack == step = "done" /\ Intact => IsArray

===============================================================================
