--------------------------- MODULE RbxlValuesProofs ---------------------------
(***************************************************************************)
(* What is done to a word before it is written is undone when it is read,  *)
(* for words of every size.                                                *)
(***************************************************************************)
EXTENDS RbxlArrays, TLAPS

LEMMA Halves ==
  ASSUME NEW m \in Nat, m % 2 = 0
  PROVE  /\ m \div 2 \in Nat
         /\ m = 2 * (m \div 2)
  OBVIOUS

LEMMA EvenCode ==
  ASSUME NEW n \in Nat
  PROVE  /\ (2 * n) % 2 = 0
         /\ (2 * n) \div 2 = n
         /\ (2 * n + 1) % 2 = 1
         /\ (2 * n + 1) \div 2 = n
  OBVIOUS

(* A signed integer of any even number m of words is read as it was        *)
(* written (values.go:528-542), the least of them, which has no opposite,  *)
(* included; and its code is again a word.                                 *)
THEOREM ZigzagReadBack ==
  ASSUME NEW m \in Nat, m % 2 = 0, NEW word \in 0 .. m - 1
  PROVE  /\ encodeZigzag(m, word) \in 0 .. m - 1
         /\ decodeZigzag(m, encodeZigzag(m, word)) = word
<1> DEFINE half == m \div 2
<1>1. half \in Nat /\ m = 2 * half
  BY Halves
<1>2. CASE word < half
  <2>1. encodeZigzag(m, word) = 2 * word
    BY <1>2 DEF encodeZigzag
  <2> QED
    BY <1>1, <1>2, <2>1, EvenCode DEF decodeZigzag
<1>3. CASE word >= half
  <2> DEFINE n == m - word - 1
  <2>1. n \in Nat /\ n < half
    BY <1>1, <1>3
  <2>2. encodeZigzag(m, word) = 2 * n + 1
    BY <1>1, <1>3 DEF encodeZigzag
  <2>3. (2 * n + 1) % 2 = 1 /\ (2 * n + 1) \div 2 = n
    BY <2>1, EvenCode
  <2>4. decodeZigzag(m, 2 * n + 1) = m - 1 - n
    BY <2>3 DEF decodeZigzag
  <2> QED
    BY <1>1, <2>1, <2>2, <2>4
<1> QED
  BY <1>1, <1>2, <1>3

(* A float of any even number m of words is read as it was written         *)
(* (values.go:544-553), and its code is again a word.                      *)
THEOREM FloatReadBack ==
  ASSUME NEW m \in Nat, m % 2 = 0, NEW word \in 0 .. m - 1
  PROVE  /\ encodeRobloxFloat(m, word) \in 0 .. m - 1
         /\ decodeRobloxFloat(m, encodeRobloxFloat(m, word)) = word
<1> DEFINE half == m \div 2
<1>1. half \in Nat /\ m = 2 * half
  BY Halves
<1>2. CASE word < half
  <2>1. (2 * word) % m = 2 * word /\ (2 * word) \div m = 0
    BY <1>1, <1>2
  <2>2. encodeRobloxFloat(m, word) = 2 * word
    BY <2>1 DEF encodeRobloxFloat
  <2> QED
    BY <1>1, <1>2, <2>2, EvenCode DEF decodeRobloxFloat
<1>3. CASE word >= half
  <2> DEFINE n == word - half
  <2>1. n \in Nat /\ n < half
    BY <1>1, <1>3
  <2>2. (2 * word) % m = 2 * n /\ (2 * word) \div m = 1
    BY <1>1, <1>3, <2>1
  <2>3. encodeRobloxFloat(m, word) = 2 * n + 1
    BY <2>1, <2>2 DEF encodeRobloxFloat
  <2>4. (2 * n + 1) % 2 = 1 /\ (2 * n + 1) \div 2 = n
    BY <2>1, EvenCode
  <2>5. decodeRobloxFloat(m, 2 * n + 1) = n + 1 * half
    BY <2>4 DEF decodeRobloxFloat
  <2> QED
    BY <1>1, <2>1, <2>3, <2>5
<1> QED
  BY <1>1, <1>2, <1>3

-------------------------------------------------------------------------------
LEMMA Reduced ==
  ASSUME NEW m \in Nat \ {0}, NEW n \in Int, NEW word \in 0 .. m - 1, n = word \/ n = word - m \/ n = word + m
  PROVE  n % m = word
  OBVIOUS

LEMMA Wrap ==
  ASSUME NEW m \in Nat \ {0}, NEW v \in 0 .. m - 1, NEW prev \in 0 .. m - 1
  PROVE  (((v - prev) % m) + prev) % m = v
<1>1. CASE v >= prev
  <2>1. (v - prev) % m = v - prev
    BY <1>1, Reduced
  <2>2. (v - prev) + prev = v
    OBVIOUS
  <2> QED
    BY <2>1, <2>2, Reduced
<1>2. CASE v < prev
  <2>1. (v - prev) % m = v - prev + m
    <3>1. v - prev + m \in 0 .. m - 1 /\ v - prev \in Int /\ v - prev = (v - prev + m) - m
      BY <1>2
    <3> QED
      BY <3>1, Reduced
  <2>2. (v - prev + m) + prev = v + m /\ v + m \in Int
    OBVIOUS
  <2>3. (v + m) % m = v
    BY Reduced
  <2> QED
    BY <2>1, <2>2, <2>3
<1> QED
  BY <1>1, <1>2

(* The difference of two references, which may wrap around, and the one    *)
(* that it is added to make the other again (arrays.go:1058-1080): what    *)
(* Differences takes apart, one step of Sums puts together.                *)
THEOREM DifferenceReadBack ==
  ASSUME NEW m \in Nat \ {0}, NEW values \in Seq(Seq(0 .. m - 1)),
         NEW i \in 2 .. Len(values),
         values[i][1] \in 0 .. m - 1, values[i - 1][1] \in 0 .. m - 1
  PROVE  (Differences(m, values)[i][1] + values[i - 1][1]) % m = values[i][1]
<1>1. Differences(m, values)[i][1] = (values[i][1] - values[i - 1][1]) % m
  BY DEF Differences
<1> QED
  BY <1>1, Wrap

===============================================================================
