--------------------------- MODULE MCRbxlChunkArray ---------------------------
(***************************************************************************)
(* Arrays of every type, of one to four values: four values of four bytes  *)
(* are interleaved in place.  The words are those at the edges of their    *)
(* range, signs included, and one whose bytes all differ; references jump  *)
(* from one edge to the other.  A byte has 64 values and a 64-bit word 5   *)
(* of them, so that words stay within the integers of TLC.                 *)
(***************************************************************************)
EXTENDS RbxlChunkArray

CONSTANTS
  Lengths,      \* the numbers of values
  Seeds         \* which words a value has

Word(field, k) ==
  LET m == IF field.code \in {"bool", "axes"} THEN (IF field.code = "bool" THEN 2 ELSE 8)
           ELSE Modulus(field.size)
  IN  CASE k % 5 = 0 -> m - 1
        [] k % 5 = 1 -> readUint(field, [i \in 1 .. field.size |-> i]) % m
        [] k % 5 = 2 -> m \div 2
        [] k % 5 = 3 -> 0
        [] k % 5 = 4 -> (m \div 2) - 1

Tuple(layout, k) == [j \in DOMAIN layout |-> Word(layout[j], k + 2 * j)]
Tuples(layout, n, k) == [i \in 1 .. n |-> Tuple(layout, k + i)]

Sample(t, k) ==
  CASE Size(t) = zArray -> Tuples(newValue[t], k % 3, k)
    [] Size(t) = zCond -> LET cond == (k % 3) % 2 IN <<cond>> \o Tuple(Conditional(newValue[t], cond) \o newValue[t].rest, k)
    [] Size(t) = zOther -> [family |-> Tuples(u8, k % 3, k), face |-> Tuple(valueFont, k),
                            cached |-> Tuples(u8, (k + 1) % 2, k)]
    [] OTHER -> Tuple(newValue[t], k)

Samples(t, n, seed) == [i \in 1 .. n |-> Sample(t, seed + i)]

MCArrays ==
  {[type |-> t, inner |-> "none", values |-> Samples(t, n, seed)] :
     t \in Types \ {"Optional"}, n \in Lengths, seed \in Seeds}
  \cup {[type |-> "Optional", inner |-> t, values |-> Samples(t, n, seed),
         present |-> [i \in 1 .. n |-> <<(seed + i) % 2>>]] :
          t \in Types \ {"Optional"}, n \in Lengths \ {4}, seed \in Seeds}

===============================================================================
