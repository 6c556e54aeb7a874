----------------------------- MODULE PerProofs -----------------------------
(***************************************************************************)
(* One PER encoder and one PER decoder, aligned or not, for every word     *)
(* size, buffer and set of scripts.                                        *)
(*                                                                         *)
(* First, for any scripts that have room: no bit is written or read        *)
(* outside the buffer, and the batch stays below its size.  PerInv is      *)
(* inductive: what the calls wrote lies between their marks (Written), and *)
(* no mark is above where the aligned variant would be (EndsAre).          *)
(*                                                                         *)
(* Then, for scripts of meant calls: the reader stays in step, answers     *)
(* what was written, and accepts the padding of a cleared buffer.  Sync    *)
(* says where the next read starts; ReadsCall, one lemma for each          *)
(* operation behind it, says that a read that starts where a layout lies   *)
(* answers its call and ends where the layout ends, or finds that octets   *)
(* are missing.                                                            *)
(***************************************************************************)
EXTENDS PerLink, OctetTheorems

-----------------------------------------------------------------------------
(* Powers, and functions that are given step by step.                      *)

(* The exponents of the codec are few: powers of two are known one by one.  *)
LEMMA PowersListed ==
  /\ 2 ^ 0 = 1
  /\ 2 ^ 1 = 2
  /\ 2 ^ 2 = 4
  /\ 2 ^ 3 = 8
  /\ 2 ^ 4 = 16
  /\ 2 ^ 5 = 32
  /\ 2 ^ 6 = 64
  /\ 2 ^ 7 = 128
  /\ 2 ^ 8 = 256
  /\ 2 ^ 9 = 512
  /\ 2 ^ 10 = 1024
  /\ 2 ^ 11 = 2048
  /\ 2 ^ 12 = 4096
  /\ 2 ^ 13 = 8192
  /\ 2 ^ 14 = 16384
  /\ 2 ^ 15 = 32768
  /\ 2 ^ 16 = 65536
  /\ 2 ^ 17 = 131072
  /\ 2 ^ 18 = 262144
  /\ 2 ^ 19 = 524288
  /\ 2 ^ 20 = 1048576
  /\ 2 ^ 21 = 2097152
  /\ 2 ^ 22 = 4194304
  /\ 2 ^ 23 = 8388608
  /\ 2 ^ 24 = 16777216
OBVIOUS

(* Every power is twice the one before. *)
LEMMA PowerOfTwo ==
  ASSUME NEW k \in 0 .. 23
  PROVE  2 ^ k \in Nat \ {0} /\ 2 ^ (k + 1) = 2 * 2 ^ k /\ 2 ^ (k + 1) \in Nat \ {0}
<1>. DEFINE Doubles(j) == 2 ^ j \in Nat \ {0} /\ 2 ^ (j + 1) = 2 * 2 ^ j
<1>1. Doubles(0) /\ Doubles(1) /\ Doubles(2) /\ Doubles(3) /\ Doubles(4) /\ Doubles(5)
  BY PowersListed
<1>2. Doubles(6) /\ Doubles(7) /\ Doubles(8) /\ Doubles(9) /\ Doubles(10) /\ Doubles(11)
  BY PowersListed
<1>3. Doubles(12) /\ Doubles(13) /\ Doubles(14) /\ Doubles(15) /\ Doubles(16) /\ Doubles(17)
  BY PowersListed
<1>4. Doubles(18) /\ Doubles(19) /\ Doubles(20) /\ Doubles(21) /\ Doubles(22) /\ Doubles(23)
  BY PowersListed
<1>. HIDE DEF Doubles
<1>5. Doubles(k)
  BY <1>1, <1>2, <1>3, <1>4
<1>6. 2 * 2 ^ k \in Nat \ {0}
  BY <1>5 DEF Doubles
<1>. QED
  BY <1>5, <1>6 DEF Doubles

(* So it is a natural. *)
LEMMA PowerIsNat ==
  ASSUME NEW k \in 0 .. 23
  PROVE  2 ^ k \in Nat
<1>1. 2 ^ k \in Nat \ {0}
  BY PowerOfTwo
<1>. QED
  BY <1>1, Zenon

(* What is not above a number below a power is below the power.            *)
LEMMA PowerBound ==
  ASSUME NEW n \in Int, NEW b \in 0 .. 16, n < 2 ^ b
  PROVE  \A x \in Nat : x <= n => x < 2 ^ b
<1>1. b \in 0 .. 23
  OBVIOUS
<1>2. 2 ^ b \in Nat
  BY <1>1, PowerIsNat
<1>. DEFINE p == 2 ^ b
<1>3. p \in Nat /\ n < p
  BY <1>2
<1>. HIDE DEF p
<1>. QED
  BY <1>3 DEF p

-----------------------------------------------------------------------------
(* Induction and recursion over the naturals up to a bound.                *)

(* What holds of 0, and of each number when of the one before, holds of all. *)
LEMMA SetInduction ==
  ASSUME NEW n \in Nat, NEW T, 0 \in T, \A i \in 1 .. n : i - 1 \in T => i \in T
  PROVE  (\A i \in 0 .. n : i \in T) /\ n \in T
<1>. DEFINE Bad == {i \in 0 .. n : i \notin T}
<1>. SUFFICES ASSUME Bad # {} PROVE FALSE
  <2>1. n \in 0 .. n
    OBVIOUS
  <2>. QED
    BY <2>1
<1>1. Bad \in SUBSET Nat
  OBVIOUS
<1>2. PICK m \in Bad : \A y \in Bad : m <= y
  BY <1>1, MinIsLeast
<1>3. m \in 1 .. n
  OBVIOUS
<1>4. m - 1 \in 0 .. n /\ m - 1 \notin Bad
  BY <1>2, <1>3
<1>. QED
  BY <1>3, <1>4

(* A function that is given by its first value and its steps.              *)
Follows(f, n, S, a, step) ==
  f \in [0 .. n -> S] /\ f[0] = a /\ \A i \in 1 .. n : f[i] = step[i][f[i - 1]]

(* A function that is given its first value and each value by the one      *)
(* before exists.                                                          *)
LEMMA Recursion ==
  ASSUME NEW n \in Nat, NEW S, NEW a \in S, NEW step \in [1 .. n -> [S -> S]]
  PROVE  \E f : Follows(f, n, S, a, step)
<1>. DEFINE Joins(f, m) == f[0] = a /\ \A i \in 1 .. m : f[i] = step[i][f[i - 1]]
            T == {m \in 0 .. n : \E f \in [0 .. m -> S] : Joins(f, m)}
<1>1. 0 \in T
  <2>. DEFINE h == [i \in 0 .. 0 |-> a]
  <2>1. h \in [0 .. 0 -> S] /\ Joins(h, 0) /\ 0 \in 0 .. n
    OBVIOUS
  <2>. HIDE DEF h, Joins
  <2>. QED
    BY <2>1
<1>2. ASSUME NEW m \in 1 .. n, m - 1 \in T
      PROVE  m \in T
  <2>1. PICK g \in [0 .. m - 1 -> S] : Joins(g, m - 1)
    BY <1>2
  <2>. DEFINE h == [i \in 0 .. m |-> IF i < m THEN g[i] ELSE step[m][g[m - 1]]]
  <2>2. m - 1 \in 0 .. m - 1 /\ 0 \in 0 .. m - 1
    OBVIOUS
  <2>3. step[m][g[m - 1]] \in S
    BY <2>2
  <2>4. h \in [0 .. m -> S]
    BY <2>3
  <2>5. h[0] = a
    BY <2>1, <2>2
  <2>6. ASSUME NEW i \in 1 .. m
        PROVE  h[i] = step[i][h[i - 1]]
    <3>1. h[i - 1] = g[i - 1]
      OBVIOUS
    <3>2. CASE i < m
      BY <2>1, <3>1, <3>2
    <3>3. CASE i = m
      BY <3>1, <3>3
    <3>. QED
      BY <3>2, <3>3
  <2>. HIDE DEF h
  <2>7. Joins(h, m)
    BY <2>5, <2>6
  <2>8. m \in 0 .. n
    OBVIOUS
  <2>. HIDE DEF Joins
  <2>. QED
    BY <2>4, <2>7, <2>8
<1>. HIDE DEF T
<1>3. n \in T
  BY <1>1, <1>2, SetInduction
<1>. QED
  BY <1>3 DEF T, Follows

-----------------------------------------------------------------------------
(* Numbers in bits.                                                        *)

(* Bits that can be read: those of a view from a position on.              *)
Shows(v, start, n) == \A i \in 1 .. n : v.bits[start + i] \in {0, 1}

(* The partial sums of a number, and the number as the last.               *)
Counts(f, v, start, n) ==
  /\ f \in [0 .. n -> Nat] /\ f[0] = 0
  /\ \A i \in 1 .. n : f[i] = 2 * f[i - 1] + v.bits[start + i]
  /\ Number(v, start, n) = f[n]

(* Number exists: the numbers of longer and longer runs of bits.           *)
LEMMA NumberRecursion ==
  ASSUME NEW v, NEW start \in Nat, NEW n \in Nat, Shows(v, start, n)
  PROVE  \E f : Counts(f, v, start, n)
<1>. DEFINE step == [i \in 1 .. n |-> [x \in Nat |-> 2 * x + v.bits[start + i]]]
            Joins(f) == f = [i \in 0 .. n |-> IF i = 0 THEN 0 ELSE 2 * f[i - 1] + v.bits[start + i]]
            up == CHOOSE f : Joins(f)
<1>1. step \in [1 .. n -> [Nat -> Nat]]
  <2>1. ASSUME NEW i \in 1 .. n, NEW x \in Nat
        PROVE  2 * x + v.bits[start + i] \in Nat
    <3>1. v.bits[start + i] \in {0, 1}
      BY DEF Shows
    <3>. QED
      BY <3>1
  <2>. QED
    BY <2>1
<1>. HIDE DEF step
<1>2. PICK g : Follows(g, n, Nat, 0, step)
  BY <1>1, Recursion
<1>3. ASSUME NEW i \in 1 .. n
      PROVE  g[i] = 2 * g[i - 1] + v.bits[start + i]
  <2>1. g[i] = step[i][g[i - 1]] /\ g[i - 1] \in Nat
    BY <1>2 DEF Follows
  <2>. QED
    BY <2>1 DEF step
<1>4. Joins(g)
  <2>1. ASSUME NEW i \in 0 .. n
        PROVE  g[i] = IF i = 0 THEN 0 ELSE 2 * g[i - 1] + v.bits[start + i]
    BY <1>2, <1>3 DEF Follows
  <2>2. g \in [0 .. n -> Nat]
    BY <1>2 DEF Follows
  <2>. QED
    BY <2>1, <2>2
<1>5. Joins(up)
  BY <1>4
<1>6. Number(v, start, n) = up[n]
  BY DEF Number
<1>. HIDE DEF up
<1>7. up[0] = 0 /\ \A i \in 1 .. n : up[i] = 2 * up[i - 1] + v.bits[start + i]
  BY <1>5
<1>8. \A i \in 0 .. n : i \in {j \in 0 .. n : up[j] = g[j]}
  <2>. DEFINE T == {j \in 0 .. n : up[j] = g[j]}
  <2>1. 0 \in T
    BY <1>2, <1>7 DEF Follows
  <2>2. ASSUME NEW i \in 1 .. n, i - 1 \in T
        PROVE  i \in T
    BY <1>3, <1>7, <2>2
  <2>. HIDE DEF T
  <2>3. \A i \in 0 .. n : i \in T
    BY <2>1, <2>2, SetInduction
  <2>. QED
    BY <2>3 DEF T
<1>9. n \in 0 .. n
  OBVIOUS
<1>10. Number(v, start, n) = g[n]
  BY <1>6, <1>8, <1>9
<1>. QED
  BY <1>2, <1>3, <1>10 DEF Counts, Follows

(* No bits are zero, and one bit more doubles the number and adds itself.  *)
LEMMA NumberStep ==
  ASSUME NEW v, NEW start \in Nat, NEW n \in Nat, Shows(v, start, n + 1)
  PROVE  Number(v, start, n + 1) = 2 * Number(v, start, n) + v.bits[start + n + 1]
<1>1. Shows(v, start, n)
  BY DEF Shows
<1>2. PICK f : Counts(f, v, start, n)
  BY <1>1, NumberRecursion
<1>. DEFINE m == n + 1
<1>3. m \in Nat /\ m - 1 = n
  OBVIOUS
<1>12. Shows(v, start, m)
  OBVIOUS
<1>. HIDE DEF m
<1>4. PICK g : Counts(g, v, start, m)
  BY <1>3, <1>12, NumberRecursion
<1>. DEFINE T == {j \in 0 .. n : f[j] = g[j]}
<1>5. 0 \in T
  BY <1>2, <1>4 DEF Counts
<1>6. ASSUME NEW i \in 1 .. n, i - 1 \in T
      PROVE  i \in T
  <2>1. i \in 1 .. m
    BY <1>3
  <2>. QED
    BY <1>2, <1>4, <1>6, <2>1 DEF Counts
<1>. HIDE DEF T
<1>7. n \in T
  BY <1>5, <1>6, SetInduction
<1>8. f[n] = g[n]
  BY <1>7 DEF T
<1>9. m \in 1 .. m
  BY <1>3
<1>10. g[m] = 2 * g[n] + v.bits[start + m]
  BY <1>3, <1>4, <1>9 DEF Counts
<1>11. start + m = start + n + 1
  BY DEF m
<1>. QED
  BY <1>2, <1>4, <1>8, <1>10, <1>11 DEF m, Counts

(* No bits at all are zero; the number of any bits is a natural.           *)
LEMMA NumberIsNat ==
  ASSUME NEW v, NEW start \in Nat, NEW n \in Nat, Shows(v, start, n)
  PROVE  Number(v, start, n) \in Nat /\ (n = 0 => Number(v, start, n) = 0)
<1>1. PICK f : Counts(f, v, start, n)
  BY NumberRecursion
<1>2. n \in 0 .. n
  OBVIOUS
<1>. QED
  BY <1>1, <1>2 DEF Counts

(* The low n bits of a number below 2^n, read back.                        *)
LEMMA NumberOfBits ==
  ASSUME NEW v, NEW start \in Nat, NEW n \in 0 .. 16, NEW x \in Nat, x < 2 ^ n,
         \A i \in 1 .. n : v.bits[start + i] = Bits(x, n)[i]
  PROVE  Number(v, start, n) = x
<1>. DEFINE P(k) == 2 ^ k
            T == {j \in 0 .. n : Number(v, start, j) = x \div P(n - j)}
<1>1. \A k \in 0 .. 16 : P(k) \in Nat \ {0} /\ P(k + 1) = 2 * P(k)
  <2>1. ASSUME NEW k \in 0 .. 16
        PROVE  2 ^ k \in Nat \ {0} /\ 2 ^ (k + 1) = 2 * 2 ^ k
    <3>1. k \in 0 .. 23
      OBVIOUS
    <3>. QED
      BY <3>1, PowerOfTwo
  <2>. QED
    BY <2>1
<1>3. P(0) = 1
  BY PowersListed
<1>4. x < P(n) /\ \A i \in 1 .. n : v.bits[start + i] = (x \div P(n - i)) % 2
  BY DEF Bits
<1>. HIDE DEF P
<1>5. Shows(v, start, n)
  <2>1. ASSUME NEW i \in 1 .. n PROVE (x \div P(n - i)) % 2 \in {0, 1}
    <3>1. P(n - i) \in Nat \ {0}
      BY <1>1
    <3>2. x \div P(n - i) \in Int
      BY <3>1
    <3>. QED
      BY <3>2
  <2>. QED
    BY <1>4, <2>1 DEF Shows
<1>6. 0 \in T
  <2>1. Number(v, start, 0) = 0
    BY NumberIsNat DEF Shows
  <2>2. P(n) \in Nat \ {0}
    BY <1>1
  <2>3. x = P(n) * 0 + x /\ x \in 0 .. P(n) - 1
    BY <1>4, <2>2
  <2>4. x \div P(n) = 0
    BY <2>2, <2>3, DivisionIsUnique
  <2>5. n - 0 = n
    OBVIOUS
  <2>. QED
    BY <2>1, <2>4, <2>5
<1>7. ASSUME NEW i \in 1 .. n, i - 1 \in T
      PROVE  i \in T
  <2>. DEFINE k == n - i
              q == x \div P(k)
  <2>1. k \in 0 .. 16 /\ k + 1 = n - (i - 1)
    OBVIOUS
  <2>2. P(k) \in Nat \ {0} /\ P(k + 1) = 2 * P(k)
    BY <1>1, <2>1
  <2>3. Number(v, start, i - 1) = x \div P(k + 1)
    BY <1>7, <2>1
  <2>4. q \div 2 = x \div P(k + 1) /\ q \in Int
    <3>1. (x \div P(k)) \div 2 = x \div (2 * P(k))
      BY <2>2, ShiftTwice
    <3>. QED
      BY <2>2, <3>1
  <2>5. v.bits[start + i] = q % 2
    BY <1>4
  <2>6. Number(v, start, i) = 2 * Number(v, start, i - 1) + v.bits[start + i]
    <3>1. i - 1 \in Nat /\ (i - 1) + 1 = i /\ start + (i - 1) + 1 = start + i
      OBVIOUS
    <3>2. Shows(v, start, i)
      BY <1>5 DEF Shows
    <3>. DEFINE j == i - 1
    <3>. HIDE DEF j
    <3>3. Number(v, start, j + 1) = 2 * Number(v, start, j) + v.bits[start + j + 1]
      BY <3>1, <3>2, NumberStep DEF j
    <3>. QED
      BY <3>1, <3>3 DEF j
  <2>. HIDE DEF q
  <2>7. Number(v, start, i) = 2 * (q \div 2) + (q % 2)
    BY <2>3, <2>4, <2>5, <2>6
  <2>8. Number(v, start, i) = q
    BY <2>4, <2>7
  <2>. QED
    BY <2>8 DEF q
<1>. HIDE DEF T
<1>8. n \in T
  BY <1>6, <1>7, SetInduction
<1>9. Number(v, start, n) = x \div P(n - n) /\ n - n = 0
  BY <1>8 DEF T
<1>10. x \div 1 = x
  OBVIOUS
<1>. QED
  BY <1>3, <1>9, <1>10

(* Two runs of bits are one number: the first is the high part.            *)
LEMMA NumberSplit ==
  ASSUME NEW v, NEW start \in Nat, NEW m \in Nat, NEW n \in 0 .. 16, Shows(v, start, m + n)
  PROVE  Number(v, start, m + n) = Number(v, start, m) * 2 ^ n + Number(v, start + m, n)
<1>. DEFINE P(k) == 2 ^ k
            a == Number(v, start, m)
            T == {j \in 0 .. n : Number(v, start, m + j) = a * P(j) + Number(v, start + m, j)}
<1>1. \A k \in 0 .. 16 : P(k) \in Nat \ {0} /\ P(k + 1) = 2 * P(k)
  <2>1. ASSUME NEW k \in 0 .. 16
        PROVE  2 ^ k \in Nat \ {0} /\ 2 ^ (k + 1) = 2 * 2 ^ k
    <3>1. k \in 0 .. 23
      OBVIOUS
    <3>. QED
      BY <3>1, PowerOfTwo
  <2>. QED
    BY <2>1
<1>3. P(0) = 1
  BY PowersListed
<1>. HIDE DEF P
<1>4. a \in Nat
  <2>1. Shows(v, start, m)
    BY DEF Shows
  <2>. QED
    BY <2>1, NumberIsNat
<1>5. Shows(v, start + m, n)
  <2>1. ASSUME NEW i \in 1 .. n PROVE v.bits[start + m + i] \in {0, 1}
    <3>1. m + i \in 1 .. m + n /\ start + (m + i) = start + m + i
      OBVIOUS
    <3>. QED
      BY <3>1 DEF Shows
  <2>. QED
    BY <2>1 DEF Shows
<1>6. 0 \in T
  <2>1. Number(v, start + m, 0) = 0
    <3>1. start + m \in Nat /\ Shows(v, start + m, 0)
      BY DEF Shows
    <3>. QED
      BY <3>1, NumberIsNat
  <2>2. m + 0 = m /\ a * 1 + 0 = a
    BY <1>4
  <2>. QED
    BY <1>3, <2>1, <2>2
<1>7. ASSUME NEW i \in 1 .. n, i - 1 \in T
      PROVE  i \in T
  <2>. DEFINE j == i - 1
              b == Number(v, start + m, j)
              bit == v.bits[start + m + i]
  <2>1. j \in 0 .. 16 /\ j + 1 = i /\ m + j \in Nat /\ m + j + 1 = m + i /\ start + m \in Nat
    OBVIOUS
  <2>2. Shows(v, start, m + j + 1) /\ Shows(v, start + m, j + 1) /\ Shows(v, start + m, j)
    <3>1. \A y \in 1 .. m + j + 1 : y \in 1 .. m + n
      OBVIOUS
    <3>2. Shows(v, start, m + j + 1)
      BY <3>1 DEF Shows
    <3>3. \A y \in 1 .. j + 1 : y \in 1 .. n
      OBVIOUS
    <3>4. Shows(v, start + m, j + 1)
      BY <1>5, <3>3 DEF Shows
    <3>5. \A y \in 1 .. j : y \in 1 .. n
      OBVIOUS
    <3>6. Shows(v, start + m, j)
      BY <1>5, <3>5 DEF Shows
    <3>. QED
      BY <3>2, <3>4, <3>6
  <2>3. b \in Nat
    BY <2>1, <2>2, NumberIsNat
  <2>4. bit \in {0, 1}
    BY <1>5 DEF Shows
  <2>5. start + (m + j) + 1 = start + m + i /\ (start + m) + j + 1 = start + m + i
    OBVIOUS
  <2>. DEFINE s == start + m
  <2>. HIDE DEF j, s
  <2>6. Number(v, start, m + j + 1) = 2 * Number(v, start, m + j) + bit
    BY <2>1, <2>2, <2>5, NumberStep
  <2>7. Number(v, start + m, j + 1) = 2 * b + bit
    <3>1. s \in Nat /\ Shows(v, s, j + 1) /\ s + j + 1 = start + m + i /\ j \in Nat
      BY <2>1, <2>2, <2>5 DEF s
    <3>2. Number(v, s, j + 1) = 2 * Number(v, s, j) + v.bits[s + j + 1]
      BY <3>1, NumberStep
    <3>. QED
      BY <3>1, <3>2 DEF s
  <2>8. Number(v, start, m + j) = a * P(j) + b
    BY <1>7 DEF j
  <2>9. P(j + 1) = 2 * P(j) /\ P(j) \in Nat
    BY <1>1, <2>1
  <2>. DEFINE p == P(j)
  <2>. HIDE DEF a, b, bit, p
  <2>10. 2 * (a * p + b) + bit = a * (2 * p) + (2 * b + bit)
    <3>1. p \in Nat
      BY <2>9 DEF p
    <3>2. a * (2 * p) = 2 * (a * p) /\ a * p \in Nat
      BY <1>4, <3>1
    <3>. QED
      BY <2>3, <2>4, <3>2
  <2>11. Number(v, start, m + i) = a * P(i) + Number(v, start + m, i)
    BY <2>1, <2>6, <2>7, <2>8, <2>9, <2>10 DEF p
  <2>. QED
    BY <2>11
<1>. HIDE DEF T
<1>8. n \in T
  BY <1>6, <1>7, SetInduction
<1>. QED
  BY <1>8 DEF T, P, a

-----------------------------------------------------------------------------
(* Bits in a memory.                                                       *)

Bit == {0, 1}

(* A memory holds a piece: the bits that the piece writes.                 *)
Holds(m, start, bits) ==
  \A i \in 1 .. Len(bits) : bits[i] # Kept => m[start + i] = bits[i]

(* The low bits of a number are bits.                                      *)
LEMMA BitsAreBits ==
  ASSUME NEW x \in Int, NEW n \in 0 .. 16
  PROVE  Bits(x, n) \in Seq(Bit) /\ Len(Bits(x, n)) = n
<1>. DEFINE P(k) == 2 ^ k
<1>1. ASSUME NEW i \in 1 .. n PROVE (x \div P(n - i)) % 2 \in Bit
  <2>1. n - i \in 0 .. 23
    OBVIOUS
  <2>2. P(n - i) \in Nat \ {0}
    BY <2>1, PowerOfTwo
  <2>. HIDE DEF P
  <2>3. x \div P(n - i) \in Int
    BY <2>2
  <2>. QED
    BY <2>3 DEF Bit
<1>2. Bits(x, n) = [i \in 1 .. n |-> (x \div P(n - i)) % 2]
  BY DEF Bits
<1>. HIDE DEF P
<1>3. Bits(x, n) \in [1 .. n -> Bit]
  BY <1>1, <1>2
<1>. QED
  BY <1>3

(* Octets are numbers of eight bits.                                       *)
LEMMA OctetNumber ==
  ASSUME NEW o \in Octet
  PROVE  o \in Nat /\ o \in Int /\ o < 256 /\ o < 2 ^ 8
<1>1. o \in 0 .. 255
  BY DEF Octet
<1>2. 2 ^ 8 = 256
  BY PowersListed
<1>. QED
  BY <1>1, <1>2

(* The bits of an octet string are those of its octets, in their order.    *)
LEMMA OctetBitsAreBits ==
  ASSUME NEW s \in Seq(Octet)
  PROVE  /\ OctetBits(s) \in Seq(Bit) /\ Len(OctetBits(s)) = 8 * Len(s)
         /\ \A j \in 1 .. Len(s), k \in 1 .. 8 :
              OctetBits(s)[8 * (j - 1) + k] = Bits(s[j], 8)[k]
<1>0. Len(s) \in Nat
  OBVIOUS
<1>1. ASSUME NEW j \in 1 .. Len(s), NEW k \in 1 .. 8
      PROVE  /\ 8 * (j - 1) + k \in 1 .. 8 * Len(s)
             /\ OctetBits(s)[8 * (j - 1) + k] = Bits(s[j], 8)[k]
  <2>. DEFINE i == 8 * (j - 1) + k
  <2>1. i \in 1 .. 8 * Len(s)
    BY <1>0
  <2>2. (i - 1) \div 8 = j - 1 /\ (i - 1) % 8 = k - 1
    OBVIOUS
  <2>. HIDE DEF i
  <2>3. OctetBits(s)[i] = (s[(i - 1) \div 8 + 1] \div 2 ^ (7 - ((i - 1) % 8))) % 2
    BY <2>1 DEF OctetBits
  <2>4. (i - 1) \div 8 + 1 = j /\ 7 - ((i - 1) % 8) = 8 - k
    BY <2>2
  <2>5. OctetBits(s)[i] = (s[j] \div 2 ^ (8 - k)) % 2
    BY <2>3, <2>4
  <2>6. Bits(s[j], 8)[k] = (s[j] \div 2 ^ (8 - k)) % 2
    BY DEF Bits
  <2>7. OctetBits(s)[i] = Bits(s[j], 8)[k]
    BY <2>5, <2>6
  <2>. QED
    BY <2>1, <2>7 DEF i
<1>2. ASSUME NEW i \in 1 .. 8 * Len(s)
      PROVE  OctetBits(s)[i] \in Bit
  <2>. DEFINE j == (i - 1) \div 8 + 1
              k == ((i - 1) % 8) + 1
  <2>1. j \in 1 .. Len(s) /\ k \in 1 .. 8 /\ i = 8 * (j - 1) + k
    BY <1>0
  <2>. HIDE DEF j, k
  <2>2. OctetBits(s)[i] = Bits(s[j], 8)[k]
    BY <1>1, <2>1
  <2>3. s[j] \in Int
    <3>1. s[j] \in Octet
      BY <2>1, ElementOfSeq
    <3>. QED
      BY <3>1, OctetNumber
  <2>4. Bits(s[j], 8) \in Seq(Bit) /\ Len(Bits(s[j], 8)) = 8
    <3>1. 8 \in 0 .. 16
      OBVIOUS
    <3>. QED
      BY <2>3, <3>1, BitsAreBits
  <2>5. Bits(s[j], 8)[k] \in Bit
    BY <2>1, <2>4, ElementOfSeq
  <2>. QED
    BY <2>2, <2>5
<1>3. OctetBits(s) \in [1 .. 8 * Len(s) -> Bit]
  <2>1. DOMAIN OctetBits(s) = 1 .. 8 * Len(s) /\ OctetBits(s) = [i \in 1 .. 8 * Len(s) |-> OctetBits(s)[i]]
    BY DEF OctetBits
  <2>. QED
    BY <1>2, <2>1
<1>4. 8 * Len(s) \in Nat
  BY <1>0
<1>5. OctetBits(s) \in Seq(Bit) /\ Len(OctetBits(s)) = 8 * Len(s)
  BY <1>3, <1>4
<1>. QED
  BY <1>1, <1>5

(* A bit that is written is never one that is left alone.                  *)
LEMMA HeldBits ==
  ASSUME NEW m, NEW start \in Nat, NEW bits \in Seq(Bit), Holds(m, start, bits)
  PROVE  \A i \in 1 .. Len(bits) : m[start + i] = bits[i] /\ bits[i] \in Bit
<1>. SUFFICES ASSUME NEW i \in 1 .. Len(bits)
              PROVE  m[start + i] = bits[i] /\ bits[i] \in Bit
  OBVIOUS
<1>1. bits[i] \in Bit
  BY ElementOfSeq
<1>2. bits[i] # Kept
  BY <1>1 DEF Bit, Kept
<1>. QED
  BY <1>1, <1>2 DEF Holds

(* A number that fits its bits is read back from them.                     *)
LEMMA NumberHeld ==
  ASSUME NEW v, NEW start \in Nat, NEW n \in 0 .. 16, NEW x \in Nat, x < 2 ^ n,
         Holds(v.bits, start, Bits(x, n))
  PROVE  Number(v, start, n) = x
<1>1. Bits(x, n) \in Seq(Bit) /\ Len(Bits(x, n)) = n
  <2>1. x \in Int
    OBVIOUS
  <2>. QED
    BY <2>1, BitsAreBits
<1>2. \A i \in 1 .. n : v.bits[start + i] = Bits(x, n)[i]
  BY <1>1, HeldBits
<1>. QED
  BY <1>2, NumberOfBits

(* So are the octets of a string.                                          *)
LEMMA OctetsHeld ==
  ASSUME NEW v, NEW start \in Nat, NEW s \in Seq(Octet), Holds(v.bits, start, OctetBits(s))
  PROVE  [i \in 1 .. Len(s) |-> Number(v, start + 8 * (i - 1), 8)] = s
<1>0. Len(s) \in Nat
  OBVIOUS
<1>1. /\ OctetBits(s) \in Seq(Bit) /\ Len(OctetBits(s)) = 8 * Len(s)
      /\ \A j \in 1 .. Len(s), k \in 1 .. 8 :
              OctetBits(s)[8 * (j - 1) + k] = Bits(s[j], 8)[k]
  BY OctetBitsAreBits
<1>2. \A i \in 1 .. 8 * Len(s) : v.bits[start + i] = OctetBits(s)[i]
  <2>. DEFINE o == OctetBits(s)
              m == v.bits
  <2>1. o \in Seq(Bit) /\ Len(o) = 8 * Len(s) /\ Holds(m, start, o)
    BY <1>1
  <2>. HIDE DEF o, m
  <2>2. \A i \in 1 .. Len(o) : m[start + i] = o[i]
    BY <2>1, HeldBits
  <2>. QED
    BY <2>1, <2>2 DEF o, m
<1>3. ASSUME NEW j \in 1 .. Len(s)
      PROVE  Number(v, start + 8 * (j - 1), 8) = s[j]
  <2>. DEFINE b == start + 8 * (j - 1)
  <2>1. ASSUME NEW k \in 1 .. 8
        PROVE  v.bits[b + k] = Bits(s[j], 8)[k]
    <3>1. 8 * (j - 1) + k \in 1 .. 8 * Len(s) /\ b + k = start + (8 * (j - 1) + k)
      BY <1>0
    <3>. QED
      BY <1>1, <1>2, <3>1
  <2>2. s[j] \in Nat /\ s[j] < 2 ^ 8
    <3>1. s[j] \in Octet
      BY ElementOfSeq
    <3>. QED
      BY <3>1, OctetNumber
  <2>3. b \in Nat
    OBVIOUS
  <2>. HIDE DEF b
  <2>4. Number(v, b, 8) = s[j]
    <3>. DEFINE x == s[j]
                n == 8
    <3>1. n \in 0 .. 16 /\ x \in Nat /\ x < 2 ^ n
      BY <2>2
    <3>2. \A k \in 1 .. n : v.bits[b + k] = Bits(x, n)[k]
      BY <2>1
    <3>. HIDE DEF x, n
    <3>3. Number(v, b, n) = x
      BY <2>3, <3>1, <3>2, NumberOfBits
    <3>. QED
      BY <3>3 DEF x, n
  <2>. QED
    BY <2>4 DEF b
<1>4. s = [i \in 1 .. Len(s) |-> s[i]]
  OBVIOUS
<1>. QED
  BY <1>3, <1>4

(* What a longer piece holds: its two parts one after the other.           *)
LEMMA HoldsConcat ==
  ASSUME NEW m, NEW start \in Nat, NEW S, NEW a \in Seq(S), NEW b \in Seq(S),
         Holds(m, start, a \o b)
  PROVE  Holds(m, start, a) /\ Holds(m, start + Len(a), b)
<1>. DEFINE c == a \o b
<1>1. /\ Len(c) = Len(a) + Len(b) /\ Len(a) \in Nat /\ Len(b) \in Nat
      /\ \A i \in 1 .. Len(a) : c[i] = a[i]
      /\ \A i \in 1 .. Len(b) : c[Len(a) + i] = b[i]
  BY ConcatProperties
<1>. HIDE DEF c
<1>2. \A i \in 1 .. Len(c) : c[i] # Kept => m[start + i] = c[i]
  BY DEF Holds, c
<1>3. ASSUME NEW i \in 1 .. Len(a), a[i] # Kept
      PROVE  m[start + i] = a[i]
  BY <1>1, <1>2, <1>3
<1>4. ASSUME NEW i \in 1 .. Len(b), b[i] # Kept
      PROVE  m[start + Len(a) + i] = b[i]
  <2>1. Len(a) + i \in 1 .. Len(c) /\ start + (Len(a) + i) = start + Len(a) + i
    BY <1>1
  <2>. QED
    BY <1>1, <1>2, <1>4, <2>1
<1>. QED
  BY <1>3, <1>4 DEF Holds

-----------------------------------------------------------------------------
(* Layouts: what is written, and where its parts lie.                      *)

Part == [align : BOOLEAN, bits : Seq(Bit)]
PieceBit == {0, 1, Kept}

(* What a part adds to the bits before it, and all that the first parts do. *)
Extended(v, start, before, part) ==
  IF part.align THEN before \o skipped(v, start + Len(before)) ELSE before \o part.bits

Pieces(f, v, start, parts) ==
  /\ f \in [0 .. Len(parts) -> Seq(PieceBit)] /\ f[0] = << >>
  /\ \A i \in 1 .. Len(parts) : f[i] = Extended(v, start, f[i - 1], parts[i])
  /\ Piece(v, start, parts) = f[Len(parts)]

(* An octet boundary is at most seven bits away, and none is passed.       *)
LEMMA AlignToOctet ==
  ASSUME NEW x \in Nat
  PROVE  /\ align_to_octet(x) \in Nat /\ x <= align_to_octet(x) /\ align_to_octet(x) <= x + 7
         /\ align_to_octet(x) % 8 = 0
         /\ \A y \in Nat : x <= y /\ y % 8 = 0 => align_to_octet(x) <= y
         /\ x % 8 = 0 => align_to_octet(x) = x
         /\ \A y \in Nat : x <= y => align_to_octet(x) <= align_to_octet(y)
<1>. DEFINE q == (x + 7) \div 8
<1>1. q \in Nat /\ 8 * q <= x + 7 /\ x + 7 < 8 * q + 8
  OBVIOUS
<1>2. align_to_octet(x) = 8 * q
  BY DEF align_to_octet
<1>3. ASSUME NEW y \in Nat, x <= y, y % 8 = 0
      PROVE  8 * q <= y
  <2>1. y = 8 * (y \div 8) /\ y \div 8 \in Nat
    BY <1>3
  <2>. DEFINE z == y \div 8
  <2>. HIDE DEF q, z
  <2>. QED
    BY <1>1, <1>3, <2>1 DEF z
<1>4. x % 8 = 0 => 8 * q = x
  OBVIOUS
<1>5. ASSUME NEW y \in Nat, x <= y
      PROVE  8 * q <= align_to_octet(y)
  BY <1>5 DEF align_to_octet
<1>6. (8 * q) % 8 = 0
  BY <1>1
<1>. HIDE DEF q
<1>. QED
  BY <1>1, <1>2, <1>3, <1>4, <1>5, <1>6

(* The same of an alignment that only the aligned variant makes.           *)
LEMMA AlignFacts ==
  ASSUME NEW v, NEW x \in Nat
  PROVE  /\ align(v, x) \in Nat /\ x <= align(v, x) /\ align(v, x) <= x + 7
         /\ v = "aligned" => align(v, x) % 8 = 0
         /\ \A y \in Nat : x <= y /\ y % 8 = 0 => align(v, x) <= y
         /\ x % 8 = 0 => align(v, x) = x
         /\ \A y \in Nat : x <= y => align(v, x) <= align("aligned", y)
<1>1. align("aligned", x) = align_to_octet(x)
  BY DEF align
<1>2. \A y \in Nat : align("aligned", y) = align_to_octet(y) /\ y <= align_to_octet(y)
                     /\ align_to_octet(y) \in Nat
  BY AlignToOctet DEF align
<1>3. CASE v = "aligned"
  <2>1. align(v, x) = align_to_octet(x)
    BY <1>3 DEF align
  <2>2. \A y \in Nat : x <= y => align_to_octet(x) <= align("aligned", y)
    BY <1>2, AlignToOctet
  <2>3. /\ align_to_octet(x) \in Nat /\ x <= align_to_octet(x) /\ align_to_octet(x) <= x + 7
        /\ align_to_octet(x) % 8 = 0
        /\ x % 8 = 0 => align_to_octet(x) = x
    BY AlignToOctet
  <2>4. \A y \in Nat : x <= y /\ y % 8 = 0 => align_to_octet(x) <= y
    BY AlignToOctet
  <2>. DEFINE o == align_to_octet(x)
  <2>. HIDE DEF o
  <2>. QED
    BY <2>1, <2>2, <2>3, <2>4 DEF o
<1>4. CASE v # "aligned"
  <2>1. align(v, x) = x
    BY <1>4 DEF align
  <2>2. ASSUME NEW y \in Nat, x <= y PROVE x <= align_to_octet(y)
    BY <1>2, <2>2
  <2>3. x <= x + 7
    OBVIOUS
  <2>. QED
    BY <1>2, <1>4, <2>1, <2>2, <2>3
<1>. QED
  BY <1>3, <1>4

(* The bits an alignment skips.                                            *)
LEMMA SkippedBits ==
  ASSUME NEW v, NEW x \in Nat
  PROVE  skipped(v, x) \in Seq(PieceBit) /\ Len(skipped(v, x)) = align(v, x) - x
<1>1. align(v, x) - x \in Nat
  BY AlignFacts
<1>2. skipped(v, x) = [i \in 1 .. align(v, x) - x |-> Kept]
  BY DEF skipped
<1>3. Kept \in PieceBit
  BY DEF PieceBit
<1>. DEFINE n == align(v, x) - x
<1>. HIDE DEF n
<1>4. skipped(v, x) \in [1 .. n -> PieceBit] /\ n \in Nat
  BY <1>1, <1>2, <1>3 DEF n
<1>5. skipped(v, x) \in Seq(PieceBit) /\ Len(skipped(v, x)) = n
  BY <1>4
<1>. QED
  BY <1>5 DEF n

(* A part more of a layout, and how far it reaches.                        *)
LEMMA ExtendedBits ==
  ASSUME NEW v, NEW start \in Nat, NEW b \in Seq(PieceBit), NEW part \in Part
  PROVE  /\ Extended(v, start, b, part) \in Seq(PieceBit)
         /\ start + Len(Extended(v, start, b, part)) =
              IF part.align THEN align(v, start + Len(b)) ELSE start + Len(b) + Len(part.bits)
         /\ part.align =>
              Len(Extended(v, start, b, part)) = Len(b) + Len(skipped(v, start + Len(b)))
<1>1. Len(b) \in Nat /\ start + Len(b) \in Nat
  OBVIOUS
<1>2. CASE part.align
  <2>. DEFINE s == skipped(v, start + Len(b))
  <2>1. s \in Seq(PieceBit) /\ Len(s) = align(v, start + Len(b)) - (start + Len(b))
    BY <1>1, SkippedBits
  <2>2. Extended(v, start, b, part) = b \o s
    BY <1>2 DEF Extended
  <2>3. align(v, start + Len(b)) \in Nat
    BY <1>1, AlignFacts
  <2>. HIDE DEF s
  <2>4. b \o s \in Seq(PieceBit) /\ Len(b \o s) = Len(b) + Len(s)
    BY <2>1, ConcatProperties
  <2>. DEFINE e == align(v, start + Len(b))
              c == b \o s
  <2>5. Len(s) = e - (start + Len(b)) /\ e \in Nat
    BY <2>1, <2>3
  <2>6. c \in Seq(PieceBit) /\ Len(c) = Len(b) + Len(s) /\ Extended(v, start, b, part) = c
    BY <2>2, <2>4
  <2>. HIDE DEF c, e
  <2>7. start + Len(c) = e
    BY <1>1, <2>5, <2>6
  <2>. QED
    BY <1>2, <2>6, <2>7 DEF s, e
<1>3. CASE ~ part.align
  <2>1. part.bits \in Seq(Bit)
    BY DEF Part
  <2>2. part.bits \in Seq(PieceBit)
    BY <2>1 DEF Bit, PieceBit
  <2>3. Extended(v, start, b, part) = b \o part.bits
    BY <1>3 DEF Extended
  <2>. DEFINE p == part.bits
  <2>. HIDE DEF p
  <2>4. b \o p \in Seq(PieceBit) /\ Len(b \o p) = Len(b) + Len(p) /\ Len(p) \in Nat
    BY <2>2, ConcatProperties DEF p
  <2>5. start + Len(b \o p) = start + Len(b) + Len(p)
    BY <1>1, <2>4
  <2>. QED
    BY <1>3, <2>3, <2>4, <2>5 DEF p
<1>. QED
  BY <1>2, <1>3

(* Piece exists: the bits of longer and longer beginnings of a layout.     *)
LEMMA PieceRecursion ==
  ASSUME NEW v, NEW start \in Nat, NEW parts \in Seq(Part)
  PROVE  \E f : Pieces(f, v, start, parts)
<1>. DEFINE n == Len(parts)
            S == Seq(PieceBit)
            step == [i \in 1 .. n |-> [b \in S |-> Extended(v, start, b, parts[i])]]
            Next1(f, i) == IF i = 0 THEN << >>
                           ELSE IF parts[i].align
                             THEN f[i - 1] \o skipped(v, start + Len(f[i - 1]))
                             ELSE f[i - 1] \o parts[i].bits
            Joins(f) == f = [i \in 0 .. n |->
                               IF i = 0 THEN << >>
                               ELSE IF parts[i].align
                                 THEN f[i - 1] \o skipped(v, start + Len(f[i - 1]))
                                 ELSE f[i - 1] \o parts[i].bits]
            up == CHOOSE f : Joins(f)
<1>0. n \in Nat /\ << >> \in S
  BY EmptySeq
<1>1. step \in [1 .. n -> [S -> S]]
  <2>1. ASSUME NEW i \in 1 .. n, NEW b \in S
        PROVE  Extended(v, start, b, parts[i]) \in S
    <3>1. parts[i] \in Part
      BY ElementOfSeq
    <3>. QED
      BY <3>1, ExtendedBits
  <2>. QED
    BY <2>1
<1>. HIDE DEF step
<1>2. PICK g : Follows(g, n, S, << >>, step)
  <2>. HIDE DEF n, S
  <2>. QED
    BY <1>0, <1>1, Recursion
<1>3. ASSUME NEW i \in 1 .. n
      PROVE  g[i] = Extended(v, start, g[i - 1], parts[i])
  <2>1. g[i] = step[i][g[i - 1]] /\ g[i - 1] \in S
    BY <1>2 DEF Follows
  <2>. QED
    BY <2>1 DEF step
<1>4. Joins(g)
  <2>1. ASSUME NEW i \in 0 .. n
        PROVE  g[i] = Next1(g, i)
    <3>1. CASE i = 0
      BY <1>2, <3>1 DEF Follows
    <3>2. CASE i # 0
      <4>1. i \in 1 .. n
        BY <1>0, <3>2
      <4>. QED
        BY <1>3, <3>2, <4>1 DEF Extended
    <3>. QED
      BY <3>1, <3>2
  <2>2. g \in [0 .. n -> S]
    BY <1>2 DEF Follows
  <2>3. g = [i \in 0 .. n |-> Next1(g, i)]
    <3>. HIDE DEF Next1, n, S
    <3>. QED
      BY <2>1, <2>2
  <2>. QED
    BY <2>3
<1>5. Joins(up)
  <2>. HIDE DEF Joins
  <2>. QED
    BY <1>4
<1>6. Piece(v, start, parts) = up[n]
  BY DEF Piece
<1>. HIDE DEF up
<1>7. up[0] = << >> /\ \A i \in 1 .. n : up[i] = Extended(v, start, up[i - 1], parts[i])
  <2>1. up = [i \in 0 .. n |-> Next1(up, i)]
    BY <1>5
  <2>. HIDE DEF Next1
  <2>2. \A i \in 0 .. n : up[i] = Next1(up, i)
    BY <2>1
  <2>3. up[0] = << >>
    BY <1>0, <2>2 DEF Next1
  <2>4. ASSUME NEW i \in 1 .. n
        PROVE  up[i] = Extended(v, start, up[i - 1], parts[i])
    <3>1. i \in 0 .. n /\ i # 0
      BY <1>0
    <3>2. up[i] = Next1(up, i)
      BY <2>2, <3>1
    <3>. QED
      BY <3>1, <3>2 DEF Next1, Extended
  <2>. QED
    BY <2>3, <2>4
<1>. DEFINE T == {j \in 0 .. n : up[j] = g[j]}
<1>8. n \in T
  <2>1. 0 \in T
    BY <1>0, <1>2, <1>7 DEF Follows
  <2>2. ASSUME NEW i \in 1 .. n, i - 1 \in T
        PROVE  i \in T
    BY <1>0, <1>3, <1>7, <2>2
  <2>. HIDE DEF T, n
  <2>. QED
    BY <1>0, <2>1, <2>2, SetInduction
<1>9. Piece(v, start, parts) = g[n]
  BY <1>6, <1>8
<1>. QED
  BY <1>2, <1>3, <1>9 DEF Follows, Pieces

(* A piece is bits; without a part there is none.                          *)
LEMMA PieceBits ==
  ASSUME NEW v, NEW start \in Nat, NEW parts \in Seq(Part)
  PROVE  /\ Piece(v, start, parts) \in Seq(PieceBit)
         /\ parts = << >> => Piece(v, start, parts) = << >>
<1>1. PICK f : Pieces(f, v, start, parts)
  BY PieceRecursion
<1>2. Len(parts) \in 0 .. Len(parts) /\ (parts = << >> => Len(parts) = 0)
  OBVIOUS
<1>. QED
  BY <1>1, <1>2 DEF Pieces

(* One part more.                                                          *)
LEMMA PieceAppend ==
  ASSUME NEW v, NEW start \in Nat, NEW parts \in Seq(Part), NEW part \in Part
  PROVE  Piece(v, start, Append(parts, part)) =
           Extended(v, start, Piece(v, start, parts), part)
<1>. DEFINE s == Append(parts, part)
            n == Len(parts)
<1>1. /\ s \in Seq(Part) /\ Len(s) = n + 1 /\ s[n + 1] = part
      /\ \A i \in 1 .. n : s[i] = parts[i]
      /\ n \in Nat
  BY AppendProperties, LenProperties
<1>. HIDE DEF s
<1>2. PICK f : Pieces(f, v, start, s)
  BY <1>1, PieceRecursion
<1>3. PICK g : Pieces(g, v, start, parts)
  BY PieceRecursion
<1>. DEFINE T == {j \in 0 .. n : f[j] = g[j]}
<1>4. 0 \in T
  BY <1>1, <1>2, <1>3 DEF Pieces
<1>5. ASSUME NEW i \in 1 .. n, i - 1 \in T
      PROVE  i \in T
  <2>1. i \in 1 .. Len(s) /\ s[i] = parts[i]
    BY <1>1
  <2>2. f[i] = Extended(v, start, f[i - 1], s[i])
    BY <1>2, <2>1 DEF Pieces
  <2>3. g[i] = Extended(v, start, g[i - 1], parts[i])
    BY <1>3 DEF Pieces
  <2>4. f[i - 1] = g[i - 1] /\ i \in 0 .. n
    BY <1>5
  <2>. QED
    BY <2>1, <2>2, <2>3, <2>4
<1>. HIDE DEF T, n
<1>6. n \in T
  BY <1>1, <1>4, <1>5, SetInduction
<1>7. f[n] = g[n]
  BY <1>6 DEF T
<1>8. n + 1 \in 1 .. Len(s) /\ (n + 1) - 1 = n
  BY <1>1
<1>9. f[n + 1] = Extended(v, start, f[n], part)
  BY <1>1, <1>2, <1>8 DEF Pieces
<1>10. Piece(v, start, s) = f[n + 1] /\ Piece(v, start, parts) = g[n]
  BY <1>1, <1>2, <1>3 DEF Pieces, n
<1>. QED
  BY <1>7, <1>9, <1>10 DEF s

-----------------------------------------------------------------------------
(* Where a layout ends.                                                    *)

Past(v, start, parts) == start + Len(Piece(v, start, parts))

(* A layout with a part more ends where its last part does.                *)
LEMMA PastAppend ==
  ASSUME NEW v, NEW start \in Nat, NEW parts \in Seq(Part), NEW part \in Part
  PROVE  Past(v, start, Append(parts, part)) =
           IF part.align THEN align(v, Past(v, start, parts))
                         ELSE Past(v, start, parts) + Len(part.bits)
<1>. DEFINE b == Piece(v, start, parts)
<1>1. b \in Seq(PieceBit)
  BY PieceBits
<1>2. Piece(v, start, Append(parts, part)) = Extended(v, start, b, part)
  BY PieceAppend
<1>. HIDE DEF b
<1>3. start + Len(Extended(v, start, b, part)) =
        IF part.align THEN align(v, start + Len(b)) ELSE start + Len(b) + Len(part.bits)
  BY <1>1, ExtendedBits
<1>. QED
  BY <1>2, <1>3 DEF Past, b

(* It ends at a position, not before its start.                            *)
LEMMA PastIsNat ==
  ASSUME NEW v, NEW start \in Nat, NEW parts \in Seq(Part)
  PROVE  /\ Past(v, start, parts) \in Nat /\ start <= Past(v, start, parts)
         /\ parts = << >> => Past(v, start, parts) = start
<1>. DEFINE b == Piece(v, start, parts)
<1>1. b \in Seq(PieceBit) /\ (parts = << >> => b = << >>)
  BY PieceBits
<1>. HIDE DEF b
<1>2. Len(b) \in Nat /\ (b = << >> => Len(b) = 0)
  BY <1>1
<1>3. Past(v, start, parts) = start + Len(b)
  BY DEF Past, b
<1>. QED
  BY <1>1, <1>2, <1>3

(* Written from an earlier position on, or without alignments, a layout    *)
(* never ends later: room for the aligned variant is room for both.        *)
LEMMA PastMonotone ==
  ASSUME NEW v, NEW start \in Nat, NEW later \in Nat, start <= later, NEW parts \in Seq(Part)
  PROVE  Past(v, start, parts) <= Past("aligned", later, parts)
<1>. DEFINE Early(p) == Past(v, start, p) <= Past("aligned", later, p)
            N == Len(parts)
            T == {n \in 0 .. N : \A p \in Seq(Part) : Len(p) = n => Early(p)}
<1>0. N \in Nat
  OBVIOUS
<1>1. 0 \in T
  <2>1. ASSUME NEW p \in Seq(Part), Len(p) = 0
        PROVE  Early(p)
    <3>1. p = << >>
      BY <2>1
    <3>. QED
      <4>1. Past(v, start, p) = start
        BY <3>1, PastIsNat
      <4>2. Past("aligned", later, p) = later
        BY <3>1, PastIsNat
      <4>. QED
        BY <4>1, <4>2
  <2>. QED
    BY <1>0, <2>1
<1>2. ASSUME NEW n \in 1 .. N, n - 1 \in T
      PROVE  n \in T
  <2>1. ASSUME NEW p \in Seq(Part), Len(p) = n
        PROVE  Early(p)
    <3>1. p # << >>
      BY <2>1
    <3>2. PICK q \in Seq(Part), part \in Part : p = Append(q, part)
      BY <3>1, SequenceEmptyOrAppend
    <3>3. Len(q) = n - 1
      <4>1. Len(p) = Len(q) + 1 /\ Len(q) \in Nat
        BY <3>2, AppendProperties, LenProperties
      <4>. QED
        BY <2>1, <4>1
    <3>4. Early(q)
      BY <1>2, <3>3
    <3>. DEFINE a == Past(v, start, q)
                b == Past("aligned", later, q)
    <3>5. a \in Nat /\ b \in Nat /\ a <= b
      BY <3>4, PastIsNat
    <3>6. /\ Past(v, start, p) = IF part.align THEN align(v, a) ELSE a + Len(part.bits)
          /\ Past("aligned", later, p) = IF part.align THEN align("aligned", b) ELSE b + Len(part.bits)
      BY <3>2, PastAppend
    <3>. HIDE DEF a, b
    <3>7. align(v, a) <= align("aligned", b)
      BY <3>5, AlignFacts
    <3>8. Len(part.bits) \in Nat
      <4>1. part.bits \in Seq(Bit)
        BY DEF Part
      <4>. QED
        BY <4>1, LenProperties
    <3>9. a + Len(part.bits) <= b + Len(part.bits)
      BY <3>5, <3>8
    <3>. QED
      BY <3>6, <3>7, <3>9
  <2>. HIDE DEF Early
  <2>. QED
    BY <1>0, <2>1
<1>. HIDE DEF T, N
<1>3. N \in T
  BY <1>0, <1>1, <1>2, SetInduction
<1>. HIDE DEF Early
<1>4. Early(parts)
  BY <1>3 DEF T, N
<1>. QED
  BY <1>4 DEF Early

-----------------------------------------------------------------------------
(* A layout lies in a memory from a position to another.                   *)
Lies(m, v, start, parts, end) ==
  Holds(m, start, Piece(v, start, parts)) /\ end = Past(v, start, parts)

(* Nothing ends where it starts.                                           *)
LEMMA LiesEmpty ==
  ASSUME NEW m, NEW v, NEW start \in Nat, NEW end, Lies(m, v, start, << >>, end)
  PROVE  end = start
<1>1. << >> \in Seq(Part)
  BY EmptySeq
<1>2. Past(v, start, << >>) = start
  BY <1>1, PastIsNat
<1>. QED
  BY <1>2 DEF Lies

(* The last bits of a layout, where the rest of it ends.                   *)
LEMMA LiesPut ==
  ASSUME NEW m, NEW v, NEW start \in Nat, NEW parts \in Seq(Part), NEW bits \in Seq(Bit),
         NEW end, Lies(m, v, start, Append(parts, Put(bits)), end)
  PROVE  \E e \in Nat : /\ Lies(m, v, start, parts, e)
                        /\ Holds(m, e, bits) /\ end = e + Len(bits)
<1>. DEFINE b == Piece(v, start, parts)
            part == Put(bits)
            e == start + Len(b)
<1>1. part \in Part /\ ~ part.align /\ part.bits = bits
  BY DEF Put, Part
<1>2. b \in Seq(PieceBit) /\ Len(b) \in Nat
  BY PieceBits, LenProperties
<1>. HIDE DEF part
<1>3. Piece(v, start, Append(parts, part)) = b \o bits
  <2>1. Piece(v, start, Append(parts, part)) = Extended(v, start, b, part)
    BY <1>1, PieceAppend
  <2>. QED
    BY <1>1, <2>1 DEF Extended
<1>4. Past(v, start, Append(parts, part)) = Past(v, start, parts) + Len(bits)
  BY <1>1, PastAppend
<1>5. Past(v, start, parts) = e
  BY DEF Past
<1>6. Holds(m, start, b \o bits)
  BY <1>3 DEF Lies, part
<1>7. bits \in Seq(PieceBit)
  BY DEF Bit, PieceBit
<1>. HIDE DEF b
<1>8. Holds(m, start, b) /\ Holds(m, e, bits)
  BY <1>2, <1>6, <1>7, HoldsConcat
<1>9. e \in Nat
  BY <1>2
<1>10. Lies(m, v, start, parts, e)
  BY <1>5, <1>8 DEF Lies, b
<1>11. end = e + Len(bits)
  BY <1>4, <1>5 DEF Lies, part
<1>. QED
  BY <1>8, <1>9, <1>10, <1>11

(* An alignment at the end of a layout.                                    *)
LEMMA LiesAlign ==
  ASSUME NEW m, NEW v, NEW start \in Nat, NEW parts \in Seq(Part),
         NEW end, Lies(m, v, start, Append(parts, Align), end)
  PROVE  \E e \in Nat : Lies(m, v, start, parts, e) /\ end = align(v, e)
<1>. DEFINE b == Piece(v, start, parts)
            part == Align
            e == start + Len(b)
            s == skipped(v, start + Len(b))
<1>1. part \in Part /\ part.align
  <2>1. << >> \in Seq(Bit)
    BY EmptySeq
  <2>. QED
    BY <2>1 DEF Align, Part
<1>2. b \in Seq(PieceBit) /\ Len(b) \in Nat
  BY PieceBits, LenProperties
<1>. HIDE DEF part
<1>3. Piece(v, start, Append(parts, part)) = b \o s
  <2>1. Piece(v, start, Append(parts, part)) = Extended(v, start, b, part)
    BY <1>1, PieceAppend
  <2>. QED
    BY <1>1, <2>1 DEF Extended
<1>4. Past(v, start, Append(parts, part)) = align(v, Past(v, start, parts))
  BY <1>1, PastAppend
<1>5. Past(v, start, parts) = e
  BY DEF Past
<1>6. Holds(m, start, b \o s)
  BY <1>3 DEF Lies, part
<1>. HIDE DEF b
<1>9. e \in Nat
  BY <1>2
<1>7. s \in Seq(PieceBit)
  BY <1>9, SkippedBits
<1>. HIDE DEF s
<1>8. Holds(m, start, b)
  BY <1>2, <1>6, <1>7, HoldsConcat
<1>10. Lies(m, v, start, parts, e)
  BY <1>5, <1>8 DEF Lies, b
<1>11. end = align(v, e)
  BY <1>4, <1>5 DEF Lies, part
<1>. QED
  BY <1>9, <1>10, <1>11

(* The beginnings of a layout are layouts.                                 *)
LEMMA LayoutParts ==
  ASSUME NEW parts \in Seq(Part), NEW bits \in Seq(Bit)
  PROVE  Append(parts, Put(bits)) \in Seq(Part) /\ Append(parts, Align) \in Seq(Part)
<1>1. Put(bits) \in Part
  BY DEF Put, Part
<1>2. Align \in Part
  <2>1. << >> \in Seq(Bit)
    BY EmptySeq
  <2>. QED
    BY <2>1 DEF Align, Part
<1>. QED
  BY <1>1, <1>2, AppendProperties

(* A sequence with an element more, known by its elements.                 *)
LEMMA AppendIs ==
  ASSUME NEW S, NEW s \in Seq(S), NEW t \in Seq(S), NEW x \in S, Len(t) = Len(s) + 1,
         \A i \in 1 .. Len(s) : s[i] = t[i], t[Len(s) + 1] = x
  PROVE  Append(s, x) = t
<1>. DEFINE r == Append(s, x)
            n == Len(s)
<1>1. /\ r \in Seq(S) /\ Len(r) = n + 1 /\ r[n + 1] = x /\ n \in Nat
      /\ \A i \in 1 .. n : r[i] = s[i]
  BY AppendProperties, LenProperties
<1>. HIDE DEF r, n
<1>2. Len(r) = Len(t)
  BY <1>1 DEF n
<1>3. ASSUME NEW i \in 1 .. Len(r) PROVE r[i] = t[i]
  <2>1. i \in 1 .. n \/ i = n + 1
    BY <1>1
  <2>2. i \in 1 .. n => r[i] = s[i] /\ s[i] = t[i]
    BY <1>1 DEF n
  <2>3. r[n + 1] = t[n + 1]
    BY <1>1 DEF n
  <2>. QED
    BY <2>1, <2>2, <2>3
<1>4. r = t
  BY <1>1, <1>2, <1>3, SeqEqual
<1>. QED
  BY <1>4 DEF r

(* Short sequences, one element after the other.                           *)
LEMMA ShortSequences ==
  ASSUME NEW a, NEW b, NEW c
  PROVE  /\ Append(<< >>, a) = <<a>>
         /\ Append(<<a>>, b) = <<a, b>>
         /\ Append(<<a, b>>, c) = <<a, b, c>>
<1>. DEFINE S == {a, b, c}
<1>0. /\ <<a>> \in Seq(S) /\ Len(<<a>>) = 1
      /\ <<a, b>> \in Seq(S) /\ Len(<<a, b>>) = 2
      /\ <<a, b, c>> \in Seq(S) /\ Len(<<a, b, c>>) = 3
      /\ a \in S /\ b \in S /\ c \in S
  OBVIOUS
<1>1. Append(<< >>, a) = <<a>>
  OBVIOUS
<1>2. Append(<<a>>, b) = <<a, b>>
  <2>. DEFINE s == <<a>>
              t == <<a, b>>
  <2>1. s \in Seq(S) /\ t \in Seq(S) /\ Len(t) = Len(s) + 1 /\ Len(s) = 1 /\ b \in S
    BY <1>0
  <2>2. t[2] = b /\ s[1] = t[1]
    OBVIOUS
  <2>. HIDE DEF s, t, S
  <2>3. \A i \in 1 .. Len(s) : s[i] = t[i]
    BY <2>1, <2>2
  <2>4. t[Len(s) + 1] = b /\ Len(t) = Len(s) + 1
    BY <2>1, <2>2
  <2>5. Append(s, b) = t
    BY <2>1, <2>3, <2>4, AppendIs, ZenonT(60)
  <2>. QED
    BY <2>5 DEF s, t
<1>3. Append(<<a, b>>, c) = <<a, b, c>>
  <2>. DEFINE s == <<a, b>>
              t == <<a, b, c>>
  <2>1. s \in Seq(S) /\ t \in Seq(S) /\ Len(t) = Len(s) + 1 /\ Len(s) = 2 /\ c \in S
    BY <1>0
  <2>2. t[3] = c /\ s[1] = t[1] /\ s[2] = t[2]
    OBVIOUS
  <2>. HIDE DEF s, t, S
  <2>3. \A i \in 1 .. Len(s) : s[i] = t[i]
    BY <2>1, <2>2
  <2>4. t[Len(s) + 1] = c /\ Len(t) = Len(s) + 1
    BY <2>1, <2>2
  <2>5. Append(s, c) = t
    BY <2>1, <2>3, <2>4, AppendIs, ZenonT(60)
  <2>. QED
    BY <2>5 DEF s, t
<1>. QED
  BY <1>1, <1>2, <1>3

(* A fourth one.                                                           *)
LEMMA FourElements ==
  ASSUME NEW a, NEW b, NEW c, NEW d
  PROVE  Append(<<a, b, c>>, d) = <<a, b, c, d>>
<1>. DEFINE S == {a, b, c, d}
<1>0. /\ <<a, b, c>> \in Seq(S) /\ Len(<<a, b, c>>) = 3
      /\ <<a, b, c, d>> \in Seq(S) /\ Len(<<a, b, c, d>>) = 4
      /\ d \in S
  OBVIOUS
<1>4. Append(<<a, b, c>>, d) = <<a, b, c, d>>
  <2>. DEFINE s == <<a, b, c>>
              t == <<a, b, c, d>>
  <2>1. s \in Seq(S) /\ t \in Seq(S) /\ Len(t) = Len(s) + 1 /\ Len(s) = 3 /\ d \in S
    BY <1>0
  <2>2. t[4] = d /\ s[1] = t[1] /\ s[2] = t[2] /\ s[3] = t[3]
    OBVIOUS
  <2>. HIDE DEF s, t, S
  <2>3. \A i \in 1 .. Len(s) : s[i] = t[i]
    BY <2>1, <2>2
  <2>4. t[Len(s) + 1] = d /\ Len(t) = Len(s) + 1
    BY <2>1, <2>2
  <2>5. Append(s, d) = t
    BY <2>1, <2>3, <2>4, AppendIs, ZenonT(60)
  <2>. QED
    BY <2>5 DEF s, t
<1>. QED
  BY <1>4

(* An alignment and bits, as the layouts of the codec begin.               *)
LEMMA LiesAligned ==
  ASSUME NEW m, NEW v, NEW start \in Nat, NEW b \in Seq(Bit), NEW end
  PROVE  /\ <<Align, Put(b)>> \in Seq(Part)
         /\ Lies(m, v, start, <<Align, Put(b)>>, end) =>
              /\ Holds(m, align(v, start), b)
              /\ end = align(v, start) + Len(b)
<1>. DEFINE p0 == << >>
            p1 == Append(p0, Align)
            p2 == Append(p1, Put(b))
<1>1. p2 = <<Align, Put(b)>>
  <2>1. Append(<< >>, Align) = <<Align>>
    BY ShortSequences
  <2>2. Append(<<Align>>, Put(b)) = <<Align, Put(b)>>
    BY ShortSequences
  <2>. QED
    BY <2>1, <2>2
<1>2. p0 \in Seq(Part)
  BY EmptySeq
<1>. HIDE DEF p0
<1>3. p1 \in Seq(Part)
  <2>1. << >> \in Seq(Bit)
    BY EmptySeq
  <2>. QED
    BY <1>2, <2>1, LayoutParts
<1>. HIDE DEF p1
<1>4. p2 \in Seq(Part)
  BY <1>3, LayoutParts
<1>. HIDE DEF p2
<1>5. ASSUME Lies(m, v, start, p2, end)
      PROVE  /\ Holds(m, align(v, start), b)
             /\ end = align(v, start) + Len(b)
  <2>1. PICK e1 \in Nat : Lies(m, v, start, p1, e1) /\ Holds(m, e1, b) /\ end = e1 + Len(b)
    BY <1>3, <1>5, LiesPut DEF p2
  <2>2. PICK e0 \in Nat : Lies(m, v, start, p0, e0) /\ e1 = align(v, e0)
    BY <1>2, <2>1, LiesAlign DEF p1
  <2>3. e0 = start
    BY <2>2, LiesEmpty DEF p0
  <2>. QED
    BY <2>1, <2>2, <2>3
<1>. QED
  BY <1>1, <1>4, <1>5

(* Bits from the position itself on, and an alignment after them.          *)
LEMMA LiesLast ==
  ASSUME NEW m, NEW v, NEW start \in Nat, NEW b \in Seq(Bit), NEW end
  PROVE  /\ <<Put(b), Align>> \in Seq(Part)
         /\ Lies(m, v, start, <<Put(b), Align>>, end) =>
              /\ Holds(m, start, b)
              /\ end = align(v, start + Len(b))
<1>. DEFINE p0 == << >>
            p1 == Append(p0, Put(b))
            p2 == Append(p1, Align)
<1>1. p2 = <<Put(b), Align>>
  <2>1. Append(<< >>, Put(b)) = <<Put(b)>>
    BY ShortSequences
  <2>2. Append(<<Put(b)>>, Align) = <<Put(b), Align>>
    BY ShortSequences
  <2>. QED
    BY <2>1, <2>2
<1>2. p0 \in Seq(Part)
  BY EmptySeq
<1>. HIDE DEF p0
<1>3. p1 \in Seq(Part)
  BY <1>2, LayoutParts
<1>. HIDE DEF p1
<1>4. p2 \in Seq(Part)
  <2>1. << >> \in Seq(Bit)
    BY EmptySeq
  <2>. QED
    BY <1>3, <2>1, LayoutParts
<1>. HIDE DEF p2
<1>5. ASSUME Lies(m, v, start, p2, end)
      PROVE  /\ Holds(m, start, b)
             /\ end = align(v, start + Len(b))
  <2>1. PICK e1 \in Nat : Lies(m, v, start, p1, e1) /\ end = align(v, e1)
    BY <1>3, <1>5, LiesAlign DEF p2
  <2>2. PICK e0 \in Nat : Lies(m, v, start, p0, e0) /\ Holds(m, e0, b) /\ e1 = e0 + Len(b)
    BY <1>2, <2>1, LiesPut DEF p1
  <2>3. e0 = start
    BY <2>2, LiesEmpty DEF p0
  <2>. QED
    BY <2>1, <2>2, <2>3
<1>. QED
  BY <1>1, <1>4, <1>5

(* A field.                                                                *)
LEMMA LiesField ==
  ASSUME NEW m, NEW v, NEW start \in Nat, NEW b \in Seq(Bit), NEW end
  PROVE  /\ <<Align, Put(b), Align>> \in Seq(Part)
         /\ Lies(m, v, start, <<Align, Put(b), Align>>, end) =>
              /\ Holds(m, align(v, start), b)
              /\ end = align(v, align(v, start) + Len(b))
<1>. DEFINE p0 == << >>
            p1 == Append(p0, Align)
            p2 == Append(p1, Put(b))
            p3 == Append(p2, Align)
<1>1. p3 = <<Align, Put(b), Align>>
  <2>1. Append(<< >>, Align) = <<Align>>
    BY ShortSequences
  <2>2. Append(<<Align>>, Put(b)) = <<Align, Put(b)>>
    BY ShortSequences
  <2>3. Append(<<Align, Put(b)>>, Align) = <<Align, Put(b), Align>>
    BY ShortSequences
  <2>. QED
    BY <2>1, <2>2, <2>3
<1>2. p0 \in Seq(Part)
  BY EmptySeq
<1>. HIDE DEF p0
<1>3. p1 \in Seq(Part)
  <2>1. << >> \in Seq(Bit)
    BY EmptySeq
  <2>. QED
    BY <1>2, <2>1, LayoutParts
<1>. HIDE DEF p1
<1>4. p2 \in Seq(Part)
  BY <1>3, LayoutParts
<1>. HIDE DEF p2
<1>5. p3 \in Seq(Part)
  <2>1. << >> \in Seq(Bit)
    BY EmptySeq
  <2>. QED
    BY <1>4, <2>1, LayoutParts
<1>. HIDE DEF p3
<1>6. ASSUME Lies(m, v, start, p3, end)
      PROVE  /\ Holds(m, align(v, start), b)
             /\ end = align(v, align(v, start) + Len(b))
  <2>1. PICK e2 \in Nat : Lies(m, v, start, p2, e2) /\ end = align(v, e2)
    BY <1>4, <1>6, LiesAlign DEF p3
  <2>2. PICK e1 \in Nat : Lies(m, v, start, p1, e1) /\ Holds(m, e1, b) /\ e2 = e1 + Len(b)
    BY <1>3, <2>1, LiesPut DEF p2
  <2>3. PICK e0 \in Nat : Lies(m, v, start, p0, e0) /\ e1 = align(v, e0)
    BY <1>2, <2>2, LiesAlign DEF p1
  <2>4. e0 = start
    BY <2>3, LiesEmpty DEF p0
  <2>. QED
    BY <2>1, <2>2, <2>3, <2>4
<1>. QED
  BY <1>1, <1>5, <1>6

(* A count and what it counts.                                             *)
LEMMA LiesCounted ==
  ASSUME NEW m, NEW v, NEW start \in Nat, NEW b \in Seq(Bit), NEW c \in Seq(Bit), NEW end
  PROVE  /\ <<Align, Put(b), Put(c)>> \in Seq(Part)
         /\ Lies(m, v, start, <<Align, Put(b), Put(c)>>, end) =>
              /\ Holds(m, align(v, start), b)
              /\ Holds(m, align(v, start) + Len(b), c)
              /\ end = align(v, start) + Len(b) + Len(c)
<1>. DEFINE p0 == << >>
            p1 == Append(p0, Align)
            p2 == Append(p1, Put(b))
            p3 == Append(p2, Put(c))
<1>1. p3 = <<Align, Put(b), Put(c)>>
  <2>1. Append(<< >>, Align) = <<Align>>
    BY ShortSequences
  <2>2. Append(<<Align>>, Put(b)) = <<Align, Put(b)>>
    BY ShortSequences
  <2>3. Append(<<Align, Put(b)>>, Put(c)) = <<Align, Put(b), Put(c)>>
    BY ShortSequences
  <2>. QED
    BY <2>1, <2>2, <2>3
<1>2. p0 \in Seq(Part)
  BY EmptySeq
<1>. HIDE DEF p0
<1>3. p1 \in Seq(Part)
  <2>1. << >> \in Seq(Bit)
    BY EmptySeq
  <2>. QED
    BY <1>2, <2>1, LayoutParts
<1>. HIDE DEF p1
<1>4. p2 \in Seq(Part)
  BY <1>3, LayoutParts
<1>. HIDE DEF p2
<1>5. p3 \in Seq(Part)
  BY <1>4, LayoutParts
<1>. HIDE DEF p3
<1>6. ASSUME Lies(m, v, start, p3, end)
      PROVE  /\ Holds(m, align(v, start), b)
             /\ Holds(m, align(v, start) + Len(b), c)
             /\ end = align(v, start) + Len(b) + Len(c)
  <2>1. PICK e2 \in Nat : Lies(m, v, start, p2, e2) /\ Holds(m, e2, c) /\ end = e2 + Len(c)
    BY <1>4, <1>6, LiesPut DEF p3
  <2>2. PICK e1 \in Nat : Lies(m, v, start, p1, e1) /\ Holds(m, e1, b) /\ e2 = e1 + Len(b)
    BY <1>3, <2>1, LiesPut DEF p2
  <2>3. PICK e0 \in Nat : Lies(m, v, start, p0, e0) /\ e1 = align(v, e0)
    BY <1>2, <2>2, LiesAlign DEF p1
  <2>4. e0 = start
    BY <2>3, LiesEmpty DEF p0
  <2>. QED
    BY <2>1, <2>2, <2>3, <2>4
<1>. QED
  BY <1>1, <1>5, <1>6

(* A size in a field, and a string of that size.                           *)
LEMMA LiesSized ==
  ASSUME NEW m, NEW v, NEW start \in Nat, NEW b \in Seq(Bit), NEW c \in Seq(Bit), NEW end
  PROVE  /\ <<Align, Put(b), Align, Put(c)>> \in Seq(Part)
         /\ Lies(m, v, start, <<Align, Put(b), Align, Put(c)>>, end) =>
              /\ Holds(m, align(v, start), b)
              /\ Holds(m, align(v, align(v, start) + Len(b)), c)
              /\ end = align(v, align(v, start) + Len(b)) + Len(c)
<1>. DEFINE p0 == << >>
            p1 == Append(p0, Align)
            p2 == Append(p1, Put(b))
            p3 == Append(p2, Align)
            p4 == Append(p3, Put(c))
<1>1. p4 = <<Align, Put(b), Align, Put(c)>>
  <2>1. Append(<< >>, Align) = <<Align>>
    BY ShortSequences
  <2>2. Append(<<Align>>, Put(b)) = <<Align, Put(b)>>
    BY ShortSequences
  <2>3. Append(<<Align, Put(b)>>, Align) = <<Align, Put(b), Align>>
    BY ShortSequences
  <2>4. Append(<<Align, Put(b), Align>>, Put(c)) = <<Align, Put(b), Align, Put(c)>>
    BY FourElements
  <2>. QED
    BY <2>1, <2>2, <2>3, <2>4
<1>2. p0 \in Seq(Part)
  BY EmptySeq
<1>. HIDE DEF p0
<1>3. p1 \in Seq(Part)
  <2>1. << >> \in Seq(Bit)
    BY EmptySeq
  <2>. QED
    BY <1>2, <2>1, LayoutParts
<1>. HIDE DEF p1
<1>4. p2 \in Seq(Part)
  BY <1>3, LayoutParts
<1>. HIDE DEF p2
<1>5. p3 \in Seq(Part)
  <2>1. << >> \in Seq(Bit)
    BY EmptySeq
  <2>. QED
    BY <1>4, <2>1, LayoutParts
<1>. HIDE DEF p3
<1>6. p4 \in Seq(Part)
  BY <1>5, LayoutParts
<1>. HIDE DEF p4
<1>7. ASSUME Lies(m, v, start, p4, end)
      PROVE  /\ Holds(m, align(v, start), b)
             /\ Holds(m, align(v, align(v, start) + Len(b)), c)
             /\ end = align(v, align(v, start) + Len(b)) + Len(c)
  <2>1. PICK e3 \in Nat : Lies(m, v, start, p3, e3) /\ Holds(m, e3, c) /\ end = e3 + Len(c)
    BY <1>5, <1>7, LiesPut DEF p4
  <2>2. PICK e2 \in Nat : Lies(m, v, start, p2, e2) /\ e3 = align(v, e2)
    BY <1>4, <2>1, LiesAlign DEF p3
  <2>3. PICK e1 \in Nat : Lies(m, v, start, p1, e1) /\ Holds(m, e1, b) /\ e2 = e1 + Len(b)
    BY <1>3, <2>2, LiesPut DEF p2
  <2>4. PICK e0 \in Nat : Lies(m, v, start, p0, e0) /\ e1 = align(v, e0)
    BY <1>2, <2>3, LiesAlign DEF p1
  <2>5. e0 = start
    BY <2>4, LiesEmpty DEF p0
  <2>. QED
    BY <2>1, <2>2, <2>3, <2>4, <2>5
<1>. QED
  BY <1>1, <1>6, <1>7

(* A count, and a string in two parts.                                     *)
LEMMA LiesFree ==
  ASSUME NEW m, NEW v, NEW start \in Nat, NEW b \in Seq(Bit), NEW c \in Seq(Bit), NEW d \in Seq(Bit), NEW end
  PROVE  /\ <<Align, Put(b), Put(c), Put(d)>> \in Seq(Part)
         /\ Lies(m, v, start, <<Align, Put(b), Put(c), Put(d)>>, end) =>
              /\ Holds(m, align(v, start), b)
              /\ Holds(m, align(v, start) + Len(b), c)
              /\ Holds(m, align(v, start) + Len(b) + Len(c), d)
              /\ end = align(v, start) + Len(b) + Len(c) + Len(d)
<1>. DEFINE p0 == << >>
            p1 == Append(p0, Align)
            p2 == Append(p1, Put(b))
            p3 == Append(p2, Put(c))
            p4 == Append(p3, Put(d))
<1>1. p4 = <<Align, Put(b), Put(c), Put(d)>>
  <2>1. Append(<< >>, Align) = <<Align>>
    BY ShortSequences
  <2>2. Append(<<Align>>, Put(b)) = <<Align, Put(b)>>
    BY ShortSequences
  <2>3. Append(<<Align, Put(b)>>, Put(c)) = <<Align, Put(b), Put(c)>>
    BY ShortSequences
  <2>4. Append(<<Align, Put(b), Put(c)>>, Put(d)) = <<Align, Put(b), Put(c), Put(d)>>
    BY FourElements
  <2>. QED
    BY <2>1, <2>2, <2>3, <2>4
<1>2. p0 \in Seq(Part)
  BY EmptySeq
<1>. HIDE DEF p0
<1>3. p1 \in Seq(Part)
  <2>1. << >> \in Seq(Bit)
    BY EmptySeq
  <2>. QED
    BY <1>2, <2>1, LayoutParts
<1>. HIDE DEF p1
<1>4. p2 \in Seq(Part)
  BY <1>3, LayoutParts
<1>. HIDE DEF p2
<1>5. p3 \in Seq(Part)
  BY <1>4, LayoutParts
<1>. HIDE DEF p3
<1>6. p4 \in Seq(Part)
  BY <1>5, LayoutParts
<1>. HIDE DEF p4
<1>7. ASSUME Lies(m, v, start, p4, end)
      PROVE  /\ Holds(m, align(v, start), b)
             /\ Holds(m, align(v, start) + Len(b), c)
             /\ Holds(m, align(v, start) + Len(b) + Len(c), d)
             /\ end = align(v, start) + Len(b) + Len(c) + Len(d)
  <2>1. PICK e3 \in Nat : Lies(m, v, start, p3, e3) /\ Holds(m, e3, d) /\ end = e3 + Len(d)
    BY <1>5, <1>7, LiesPut DEF p4
  <2>2. PICK e2 \in Nat : Lies(m, v, start, p2, e2) /\ Holds(m, e2, c) /\ e3 = e2 + Len(c)
    BY <1>4, <2>1, LiesPut DEF p3
  <2>3. PICK e1 \in Nat : Lies(m, v, start, p1, e1) /\ Holds(m, e1, b) /\ e2 = e1 + Len(b)
    BY <1>3, <2>2, LiesPut DEF p2
  <2>4. PICK e0 \in Nat : Lies(m, v, start, p0, e0) /\ e1 = align(v, e0)
    BY <1>2, <2>3, LiesAlign DEF p1
  <2>5. e0 = start
    BY <2>4, LiesEmpty DEF p0
  <2>. QED
    BY <2>1, <2>2, <2>3, <2>4, <2>5
<1>. QED
  BY <1>1, <1>6, <1>7

-----------------------------------------------------------------------------
(* Any read, in step or not, ends inside the memory.                       *)

ReadError == {"ok", "buffer_underflow", "parse_error", "value_out_of_range"}

IsView(s) == s.bits \in [1 .. MemoryBits -> Bit] /\ s.size \in 0 .. MemoryBits

Sound(r) == r.err \in ReadError /\ r.at \in 0 .. MemoryBits
SoundNumber(r) == Sound(r) /\ (r.err = "ok" => \E n \in Nat : r.data = <<n>>)

(* The fields of an answer. *)
LEMMA GotFields ==
  ASSUME NEW err, NEW data, NEW end
  PROVE  /\ Got(err, data, end).err = err /\ Got(err, data, end).data = data
         /\ Got(err, data, end).at = end
BY DEF Got

(* The buffer is full octets.                                              *)
LEMMA MemoryOctets ==
  /\ MemoryBits \in Nat /\ MemoryBits % 8 = 0
  /\ \A v : \A x \in 0 .. MemoryBits : align(v, x) \in 0 .. MemoryBits
<1>1. MemoryBits \in Nat /\ MemoryBits % 8 = 0
  BY LinkAssumption
<1>2. ASSUME NEW v, NEW x \in 0 .. MemoryBits
      PROVE  align(v, x) \in 0 .. MemoryBits
  <2>1. x \in Nat /\ x <= MemoryBits
    BY <1>1
  <2>2. align(v, x) \in Nat /\ align(v, x) <= MemoryBits
    BY <1>1, <2>1, AlignFacts
  <2>. QED
    BY <1>1, <2>2
<1>. QED
  BY <1>1, <1>2

(* The least power above a number is found when 2^16 is above it.          *)
LEMMA PowerAbove ==
  ASSUME NEW n \in Int, n < 2 ^ 16
  PROVE  /\ bits_needed_unsigned(n) \in 0 .. 16
         /\ \A x \in Nat : x <= n => x < 2 ^ bits_needed_unsigned(n)
<1>. DEFINE S == {b \in 0 .. 16 : n < 2 ^ b}
<1>1. 16 \in S
  <2>1. 16 \in 0 .. 16
    OBVIOUS
  <2>. QED
    BY <2>1
<1>2. S \in SUBSET Nat /\ S # {}
  <2>1. S \in SUBSET Nat
    OBVIOUS
  <2>. HIDE DEF S
  <2>. QED
    BY <1>1, <2>1
<1>3. Min(S) \in S
  BY <1>2, MinIsLeast
<1>4. bits_needed_unsigned(n) = Min(S)
  BY DEF bits_needed_unsigned
<1>5. PICK b \in 0 .. 16 : n < 2 ^ b /\ b = bits_needed_unsigned(n)
  BY <1>3, <1>4
<1>6. \A x \in Nat : x <= n => x < 2 ^ b
  BY <1>5, PowerBound
<1>. QED
  BY <1>5, <1>6

(* A range that is counted in bits.                                        *)
CountedInBits(n) == n \in Int /\ n <= 65536

(* It needs sixteen at most, and its values fit them.                      *)
LEMMA BitsNeeded ==
  ASSUME NEW n, CountedInBits(n)
  PROVE  /\ bits_needed_unsigned(n - 1) \in 0 .. 16
         /\ \A x \in Nat : x <= n - 1 => x < 2 ^ bits_needed_unsigned(n - 1)
<1>. DEFINE k == n - 1
<1>1. k \in Int /\ k < 2 ^ 16
  BY PowersListed, SMT DEF CountedInBits
<1>. HIDE DEF k
<1>2. /\ bits_needed_unsigned(k) \in 0 .. 16
      /\ \A x \in Nat : x <= k => x < 2 ^ bits_needed_unsigned(k)
  BY <1>1, PowerAbove
<1>. QED
  BY <1>2 DEF k

(* Bits that are in the view can be read.                                  *)
LEMMA ViewShows ==
  ASSUME NEW s, IsView(s), NEW x \in Nat, NEW n \in Nat, ~ underflow(s, x, n)
  PROVE  Shows(s, x, n) /\ x + n \in 0 .. MemoryBits /\ x + n <= s.size
<1>1. s.size \in 0 .. MemoryBits /\ MemoryBits \in Nat
  BY MemoryOctets DEF IsView
<1>. DEFINE z == s.size
<1>2. x + n <= z
  BY <1>1 DEF underflow
<1>3. z \in Nat /\ z <= MemoryBits
  BY <1>1
<1>. HIDE DEF z
<1>4. ASSUME NEW i \in 1 .. n
      PROVE  s.bits[x + i] \in {0, 1}
  <2>1. x + i \in 1 .. MemoryBits
    BY <1>1, <1>2, <1>3
  <2>. QED
    BY <2>1 DEF IsView, Bit
<1>. QED
  BY <1>1, <1>2, <1>3, <1>4 DEF Shows, z

(* A number of bits.                                                       *)
LEMMA SoundTakeNumber ==
  ASSUME NEW s, IsView(s), NEW x \in 0 .. MemoryBits, NEW n \in Nat
  PROVE  SoundNumber(TakeNumber(s, x, n))
<1>1. x \in Nat
  BY MemoryOctets
<1>2. CASE underflow(s, x, n)
  BY <1>2, GotFields DEF TakeNumber, SoundNumber, Sound, ReadError
<1>3. CASE ~ underflow(s, x, n)
  <2>1. Shows(s, x, n) /\ x + n \in 0 .. MemoryBits
    BY <1>1, <1>3, ViewShows
  <2>2. Number(s, x, n) \in Nat
    BY <1>1, <2>1, NumberIsNat
  <2>3. TakeNumber(s, x, n) = Got("ok", <<Number(s, x, n)>>, x + n)
    BY <1>3 DEF TakeNumber
  <2>. DEFINE k == Number(s, x, n)
              r == TakeNumber(s, x, n)
  <2>4. r.err = "ok" /\ r.data = <<k>> /\ r.at = x + n
    BY <2>3, GotFields
  <2>. HIDE DEF k, r
  <2>. QED
    BY <2>1, <2>2, <2>4 DEF SoundNumber, Sound, ReadError, k, r
<1>. QED
  BY <1>2, <1>3

(* A number in bits, and the alignment after it.                           *)
LEMMA SoundTakeField ==
  ASSUME NEW v, NEW s, IsView(s), NEW x \in 0 .. MemoryBits, NEW n \in Nat
  PROVE  SoundNumber(TakeField(v, s, x, n))
<1>. DEFINE r == TakeNumber(s, x, n)
<1>1. SoundNumber(r)
  BY SoundTakeNumber
<1>2. TakeField(v, s, x, n) = IF r.err = "ok" THEN Got("ok", r.data, align(v, r.at)) ELSE r
  BY DEF TakeField
<1>. HIDE DEF r
<1>3. align(v, r.at) \in 0 .. MemoryBits
  BY <1>1, MemoryOctets DEF SoundNumber, Sound
<1>4. CASE r.err = "ok"
  <2>. DEFINE g == Got("ok", r.data, align(v, r.at))
  <2>1. TakeField(v, s, x, n) = g /\ g.err = "ok" /\ g.data = r.data /\ g.at = align(v, r.at)
    BY <1>2, <1>4, GotFields
  <2>2. \E k \in Nat : r.data = <<k>>
    BY <1>1, <1>4 DEF SoundNumber
  <2>. HIDE DEF g
  <2>. QED
    BY <1>3, <2>1, <2>2 DEF SoundNumber, Sound, ReadError
<1>5. CASE r.err # "ok"
  BY <1>1, <1>2, <1>5
<1>. QED
  BY <1>4, <1>5

(* A number after its high part.                                           *)
LEMMA SoundTakeLow ==
  ASSUME NEW high \in Nat, NEW s, IsView(s), NEW x \in 0 .. MemoryBits, NEW n \in 0 .. 24
  PROVE  SoundNumber(TakeLow(high, s, x, n))
<1>. DEFINE r == TakeNumber(s, x, n)
            p == 2 ^ n
<1>1. SoundNumber(r)
  BY SoundTakeNumber
<1>2. TakeLow(high, s, x, n) = IF r.err = "ok" THEN Got("ok", <<high * p + r.data[1]>>, r.at) ELSE r
  BY DEF TakeLow
<1>3. p \in Nat
  <2>1. CASE n \in 0 .. 23
    BY <2>1, PowerOfTwo
  <2>2. CASE n = 24
    BY <2>2, PowersListed
  <2>. QED
    BY <2>1, <2>2
<1>. HIDE DEF r, p
<1>4. CASE r.err = "ok"
  <2>1. PICK k \in Nat : r.data = <<k>>
    BY <1>1, <1>4 DEF SoundNumber
  <2>2. r.data[1] = k /\ high * p + k \in Nat
    BY <1>3, <2>1
  <2>. DEFINE y == high * p + r.data[1]
              g == Got("ok", <<y>>, r.at)
  <2>3. TakeLow(high, s, x, n) = g /\ g.err = "ok" /\ g.data = <<y>> /\ g.at = r.at /\ y \in Nat
    BY <1>2, <1>4, <2>2, GotFields
  <2>. HIDE DEF g, y
  <2>. QED
    BY <1>1, <2>3 DEF SoundNumber, Sound, ReadError
<1>5. CASE r.err # "ok"
  BY <1>1, <1>2, <1>5
<1>. QED
  BY <1>4, <1>5

(* The four forms of a first octet.                                        *)
LEMMA FirstOctet ==
  ASSUME NEW s, NEW r, NEW k \in Nat, r.err = "ok", r.data[1] = k
  PROVE  /\ k < 128 => length_after(s, r) = r
         /\ k \in 128 .. 191 => length_after(s, r) = TakeLow(k % 64, s, r.at, 8)
         /\ k \in 192 .. 223 => length_after(s, r) = TakeLow(k % 32, s, r.at, 24)
         /\ k > 223 => length_after(s, r) = Got("parse_error", << >>, r.at)
<1>. DEFINE two == TakeLow(k % 64, s, r.at, 8)
            four == TakeLow(k % 32, s, r.at, 24)
            bad == Got("parse_error", << >>, r.at)
<1>1. length_after(s, r) =
        CASE k < 128 -> r [] k \in 128 .. 191 -> two [] k \in 192 .. 223 -> four [] k > 223 -> bad
  BY DEF length_after
<1>. HIDE DEF two, four, bad
<1>2. ASSUME k < 128 PROVE length_after(s, r) = r
  BY <1>1, <1>2
<1>3. ASSUME k \in 128 .. 191 PROVE length_after(s, r) = two
  BY <1>1, <1>3
<1>4. ASSUME k \in 192 .. 223 PROVE length_after(s, r) = four
  BY <1>1, <1>4
<1>5. ASSUME k > 223 PROVE length_after(s, r) = bad
  BY <1>1, <1>5
<1>. QED
  BY <1>2, <1>3, <1>4, <1>5 DEF two, four, bad

(* A length determinant.                                                   *)
LEMMA SoundDeterminant ==
  ASSUME NEW v, NEW s, IsView(s), NEW x \in 0 .. MemoryBits
  PROVE  SoundNumber(decode_length_determinant(v, s, x))
<1>. DEFINE r == TakeNumber(s, align(v, x), 8)
            d == decode_length_determinant(v, s, x)
<1>1. SoundNumber(r)
  <2>1. align(v, x) \in 0 .. MemoryBits
    BY MemoryOctets
  <2>. QED
    BY <2>1, SoundTakeNumber
<1>2. d = length_after(s, r)
  BY DEF decode_length_determinant
<1>. HIDE DEF r, d
<1>3. CASE r.err # "ok"
  <2>1. d = r
    BY <1>2, <1>3 DEF length_after
  <2>. QED
    BY <1>1, <2>1 DEF d
<1>4. CASE r.err = "ok"
  <2>1. PICK k \in Nat : r.data = <<k>>
    BY <1>1, <1>4 DEF SoundNumber
  <2>2. r.data[1] = k /\ r.at \in 0 .. MemoryBits
    BY <1>1, <2>1 DEF SoundNumber, Sound
  <2>3. CASE k < 128
    <3>1. d = r
      BY <1>2, <1>4, <2>2, <2>3, FirstOctet
    <3>. QED
      BY <1>1, <3>1 DEF d
  <2>4. CASE k \in 128 .. 191
    <3>1. d = TakeLow(k % 64, s, r.at, 8)
      BY <1>2, <1>4, <2>2, <2>4, FirstOctet
    <3>2. k % 64 \in Nat /\ 8 \in 0 .. 24
      OBVIOUS
    <3>. QED
      BY <2>2, <3>1, <3>2, SoundTakeLow DEF d
  <2>5. CASE k \in 192 .. 223
    <3>1. d = TakeLow(k % 32, s, r.at, 24)
      BY <1>2, <1>4, <2>2, <2>5, FirstOctet
    <3>2. k % 32 \in Nat /\ 24 \in 0 .. 24
      OBVIOUS
    <3>. QED
      BY <2>2, <3>1, <3>2, SoundTakeLow DEF d
  <2>6. CASE k > 223
    <3>1. d = Got("parse_error", << >>, r.at)
      BY <1>2, <1>4, <2>2, <2>6, FirstOctet
    <3>2. d.err = "parse_error" /\ d.at = r.at
      BY <3>1, GotFields
    <3>. QED
      BY <2>2, <3>2 DEF SoundNumber, Sound, ReadError, d
  <2>. QED
    BY <2>3, <2>4, <2>5, <2>6
<1>. QED
  BY <1>3, <1>4

(* Octets, all there or none read.                                         *)
LEMMA SoundTakeOctets ==
  ASSUME NEW s, IsView(s), NEW x \in 0 .. MemoryBits, NEW n \in Nat
  PROVE  /\ Sound(TakeOctets(s, x, n))
         /\ TakeOctets(s, x, n).err = "ok" =>
              /\ Len(TakeOctets(s, x, n).data) = n
              /\ n = 0 => TakeOctets(s, x, n).data = << >>
<1>. DEFINE r == TakeOctets(s, x, n)
            w == [i \in 1 .. n |-> Number(s, x + 8 * (i - 1), 8)]
            c == 8 * n
<1>1. x \in Nat /\ c \in Nat
  BY MemoryOctets
<1>2. CASE underflow(s, x, c)
  <2>1. r = Got("buffer_underflow", << >>, x)
    BY <1>2 DEF TakeOctets
  <2>2. r.err = "buffer_underflow" /\ r.at = x
    BY <2>1, GotFields
  <2>. QED
    BY <2>2 DEF Sound, ReadError
<1>3. CASE ~ underflow(s, x, c)
  <2>1. r = Got("ok", w, x + c)
    BY <1>3 DEF TakeOctets
  <2>2. r.err = "ok" /\ r.data = w /\ r.at = x + c
    BY <2>1, GotFields
  <2>3. x + c \in 0 .. MemoryBits
    <3>. HIDE DEF c
    <3>. QED
      BY <1>1, <1>3, ViewShows
  <2>4. Len(w) = n
    OBVIOUS
  <2>5. n = 0 => w = << >>
    <3>1. ASSUME n = 0 PROVE w \in Seq(Nat) /\ Len(w) = 0
      BY <3>1
    <3>. HIDE DEF w
    <3>. QED
      BY <3>1, EmptySeq
  <2>. HIDE DEF r, w, c
  <2>. QED
    BY <2>2, <2>3, <2>4, <2>5 DEF Sound, ReadError, r
<1>. QED
  BY <1>2, <1>3

(* Octets that a number that was read counts.                              *)
LEMMA SoundOctetsAfter ==
  ASSUME NEW s, IsView(s), NEW d, SoundNumber(d)
  PROVE  Sound(octets_after(s, d, d.at))
<1>1. CASE d.err = "ok"
  <2>1. PICK k \in Nat : d.data = <<k>>
    BY <1>1 DEF SoundNumber
  <2>2. octets_after(s, d, d.at) = TakeOctets(s, d.at, k)
    <3>1. d.data[1] = k
      BY <2>1
    <3>. QED
      BY <1>1, <3>1 DEF octets_after
  <2>3. d.at \in 0 .. MemoryBits
    BY DEF SoundNumber, Sound
  <2>. QED
    BY <2>2, <2>3, SoundTakeOctets
<1>2. CASE d.err # "ok"
  BY <1>2 DEF octets_after, SoundNumber
<1>. QED
  BY <1>1, <1>2

(* Counted octets.                                                         *)
LEMMA SoundCounted ==
  ASSUME NEW v, NEW s, IsView(s), NEW x \in 0 .. MemoryBits
  PROVE  Sound(TakeCounted(v, s, x))
<1>. DEFINE d == decode_length_determinant(v, s, x)
<1>1. SoundNumber(d)
  BY SoundDeterminant
<1>2. TakeCounted(v, s, x) = octets_after(s, d, d.at)
  BY DEF TakeCounted
<1>. HIDE DEF d
<1>. QED
  BY <1>1, <1>2, SoundOctetsAfter

-----------------------------------------------------------------------------
(* Any read of an element ends inside the memory.                          *)

MetaOK(meta) == meta.bounded \in BOOLEAN /\ meta.min \in Int /\ meta.max \in Int

(* The bits of a constraint that is counted in bits.                       *)
LEMMA ShortMeta ==
  ASSUME NEW meta, MetaOK(meta)
  PROVE  /\ range(meta) \in Int
         /\ short(meta) => CountedInBits(range(meta)) /\ meta.bounded
         /\ fixed(meta) => short(meta)
<1>1. range(meta) \in Int
  BY DEF MetaOK, range
<1>2. short(meta) => CountedInBits(range(meta)) /\ meta.bounded
  BY <1>1, SMT DEF short, CountedInBits
<1>3. fixed(meta) => range(meta) = 1
  BY DEF fixed, MetaOK, range
<1>4. fixed(meta) => short(meta)
  BY <1>3, SMT DEF fixed, short
<1>. QED
  BY <1>1, <1>2, <1>4

(* A field after an alignment.                                             *)
LEMMA SoundShort ==
  ASSUME NEW v, NEW s, IsView(s), NEW x \in 0 .. MemoryBits, NEW meta,
         CountedInBits(range(meta))
  PROVE  SoundNumber(TakeField(v, s, align(v, x), bits_needed_unsigned(range(meta) - 1)))
<1>. DEFINE n == bits_needed_unsigned(range(meta) - 1)
<1>1. n \in Nat
  BY BitsNeeded
<1>2. align(v, x) \in 0 .. MemoryBits
  BY MemoryOctets
<1>. HIDE DEF n
<1>3. SoundNumber(TakeField(v, s, align(v, x), n))
  BY <1>1, <1>2, SoundTakeField
<1>. QED
  BY <1>3 DEF n

(* An answer given for a sound one, at the same place.                     *)
LEMMA SoundGot ==
  ASSUME NEW err \in ReadError, NEW data, NEW end \in 0 .. MemoryBits
  PROVE  Sound(Got(err, data, end))
BY GotFields DEF Sound

(* A constrained INTEGER.                                                  *)
LEMMA SoundWholeNumber ==
  ASSUME NEW v, NEW s, IsView(s), NEW x \in 0 .. MemoryBits, NEW meta, MetaOK(meta)
  PROVE  Sound(decode_constrained_whole_number(v, meta, s, x))
<1>. DEFINE r == TakeField(v, s, align(v, x), bits_needed_unsigned(range(meta) - 1))
            d == decode_constrained_whole_number(v, meta, s, x)
            c == TakeCounted(v, s, x)
            mid == IF r.err = "ok" THEN Got("ok", <<meta.min + r.data[1]>>, r.at) ELSE r
            low == Got("ok", <<meta.min>>, x)
            high == offset_from(meta.min, c)
<1>1. d = low \/ (CountedInBits(range(meta)) /\ d = mid) \/ d = high
  <2>1. range(meta) \in Int
    BY ShortMeta
  <2>2. d = CASE range(meta) <= 1 -> low
              [] range(meta) > 1 /\ range(meta) <= 65536 -> mid
              [] range(meta) > 65536 -> high
    BY SMT DEF decode_constrained_whole_number
  <2>. HIDE DEF d, low, mid, high
  <2>3. CASE range(meta) <= 1
    BY <2>1, <2>2, <2>3, SMT
  <2>4. CASE range(meta) > 1 /\ range(meta) <= 65536
    BY <2>1, <2>2, <2>4, SMT DEF CountedInBits
  <2>5. CASE range(meta) > 65536
    BY <2>1, <2>2, <2>5, SMT
  <2>. QED
    BY <2>1, <2>3, <2>4, <2>5, SMT
<1>2. "ok" \in ReadError
  BY DEF ReadError
<1>3. Sound(low)
  BY <1>2, SoundGot
<1>4. ASSUME CountedInBits(range(meta)) PROVE Sound(mid)
  <2>1. SoundNumber(r)
    BY <1>4, SoundShort
  <2>2. Sound(r)
    BY <2>1 DEF SoundNumber
  <2>. HIDE DEF r
  <2>3. CASE r.err = "ok"
    <3>1. r.at \in 0 .. MemoryBits
      BY <2>2 DEF Sound
    <3>. QED
      BY <1>2, <2>3, <3>1, SoundGot
  <2>4. CASE r.err # "ok"
    BY <2>2, <2>4
  <2>. QED
    BY <2>3, <2>4
<1>5. Sound(high)
  <2>1. Sound(c)
    BY SoundCounted
  <2>2. c.at \in 0 .. MemoryBits
    BY <2>1 DEF Sound
  <2>3. high = IF c.err = "ok" THEN Got("ok", <<meta.min + Unsigned(c.data)>>, c.at) ELSE c
    BY DEF offset_from
  <2>. HIDE DEF c
  <2>4. Sound(Got("ok", <<meta.min + Unsigned(c.data)>>, c.at))
    BY <1>2, <2>2, SoundGot
  <2>. QED
    BY <2>1, <2>3, <2>4
<1>. QED
  BY <1>1, <1>3, <1>4, <1>5

(* An OCTET STRING.                                                        *)
LEMMA SoundOctetString ==
  ASSUME NEW v, NEW s, IsView(s), NEW x \in 0 .. MemoryBits, NEW meta, MetaOK(meta),
         fixed(meta) => meta.min \in Nat
  PROVE  Sound(decode_octet_string(v, meta, s, x))
<1>. DEFINE h == TakeField(v, s, align(v, x), bits_needed_unsigned(range(meta) - 1))
            d == decode_octet_string(v, meta, s, x)
<1>1. d = CASE fixed(meta) -> TakeOctets(s, align(v, x), meta.min)
            [] short(meta) /\ ~ fixed(meta) -> octets_after(s, h, h.at)
            [] ~ short(meta) -> TakeCounted(v, s, x)
  BY DEF decode_octet_string
<1>2. fixed(meta) => short(meta)
  BY ShortMeta
<1>3. short(meta) => SoundNumber(h)
  BY ShortMeta, SoundShort
<1>. HIDE DEF d, h
<1>4. CASE fixed(meta)
  <2>1. d = TakeOctets(s, align(v, x), meta.min)
    BY <1>1, <1>2, <1>4
  <2>2. align(v, x) \in 0 .. MemoryBits
    BY MemoryOctets
  <2>. QED
    BY <1>4, <2>1, <2>2, SoundTakeOctets DEF d
<1>5. CASE short(meta) /\ ~ fixed(meta)
  <2>1. d = octets_after(s, h, h.at)
    BY <1>1, <1>5
  <2>. QED
    BY <1>3, <1>5, <2>1, SoundOctetsAfter DEF d
<1>6. CASE ~ short(meta)
  <2>1. d = TakeCounted(v, s, x)
    BY <1>1, <1>2, <1>6
  <2>. QED
    BY <2>1, SoundCounted DEF d
<1>. QED
  BY <1>4, <1>5, <1>6

(* The octets of a BIT STRING.                                             *)
LEMMA SoundBitOctets ==
  ASSUME NEW s, IsView(s), NEW size \in Nat, NEW x \in 0 .. MemoryBits
  PROVE  Sound(bit_string_octets(s, size, x))
<1>. DEFINE n == (size + 7) \div 8
            r == TakeOctets(s, x, n)
<1>1. n \in Nat
  OBVIOUS
<1>2. bit_string_octets(s, size, x) =
        IF r.err = "ok" THEN Got("ok", <<8 * n - size>> \o r.data, r.at) ELSE r
  BY DEF bit_string_octets
<1>. HIDE DEF n
<1>3. Sound(r)
  BY <1>1, SoundTakeOctets
<1>. HIDE DEF r
<1>4. r.at \in 0 .. MemoryBits /\ "ok" \in ReadError
  BY <1>3 DEF Sound, ReadError
<1>5. Sound(Got("ok", <<8 * n - size>> \o r.data, r.at))
  BY <1>4, SoundGot
<1>. QED
  BY <1>2, <1>3, <1>5

(* A BIT STRING.                                                           *)
LEMMA SoundBitString ==
  ASSUME NEW v, NEW s, IsView(s), NEW x \in 0 .. MemoryBits, NEW meta, MetaOK(meta),
         fixed(meta) => meta.min \in Nat
  PROVE  Sound(decode_bit_string(v, meta, s, x))
<1>. DEFINE h == TakeField(v, s, align(v, x), bits_needed_unsigned(range(meta) - 1))
            d == decode_length_determinant(v, s, x)
            u == TakeNumber(s, d.at, 8)
            b == decode_bit_string(v, meta, s, x)
<1>1. b = CASE fixed(meta) -> bit_string_octets(s, meta.min, align(v, x))
            [] short(meta) /\ ~ fixed(meta) ->
                 IF h.err = "ok" THEN bit_string_octets(s, h.data[1], h.at) ELSE h
            [] ~ short(meta) -> free_bit_string(s, d, u)
  BY DEF decode_bit_string
<1>2. fixed(meta) => short(meta)
  BY ShortMeta
<1>3. short(meta) => SoundNumber(h)
  BY ShortMeta, SoundShort
<1>4. SoundNumber(d)
  BY SoundDeterminant
<1>. HIDE DEF b, h, d
<1>5. CASE fixed(meta)
  <2>1. b = bit_string_octets(s, meta.min, align(v, x))
    BY <1>1, <1>2, <1>5
  <2>2. align(v, x) \in 0 .. MemoryBits
    BY MemoryOctets
  <2>. QED
    BY <1>5, <2>1, <2>2, SoundBitOctets DEF b
<1>6. CASE short(meta) /\ ~ fixed(meta)
  <2>1. b = IF h.err = "ok" THEN bit_string_octets(s, h.data[1], h.at) ELSE h
    BY <1>1, <1>6
  <2>2. SoundNumber(h) /\ Sound(h) /\ h.at \in 0 .. MemoryBits
    BY <1>3, <1>6 DEF SoundNumber, Sound
  <2>3. CASE h.err = "ok"
    <3>1. PICK k \in Nat : h.data = <<k>>
      BY <2>2, <2>3 DEF SoundNumber
    <3>2. h.data[1] = k
      BY <3>1
    <3>. QED
      BY <2>1, <2>2, <2>3, <3>2, SoundBitOctets DEF b
  <2>4. CASE h.err # "ok"
    BY <2>1, <2>2, <2>4 DEF b
  <2>. QED
    BY <2>3, <2>4
<1>7. CASE ~ short(meta)
  <2>1. b = free_bit_string(s, d, u)
    BY <1>1, <1>2, <1>7
  <2>2. Sound(d) /\ d.at \in 0 .. MemoryBits
    BY <1>4 DEF SoundNumber, Sound
  <2>3. SoundNumber(u) /\ Sound(u)
    <3>1. SoundNumber(u)
      BY <2>2, SoundTakeNumber
    <3>. QED
      BY <3>1 DEF SoundNumber
  <2>. HIDE DEF u
  <2>. DEFINE r == bit_string_octets(s, d.data[1], u.at)
  <2>4. b = CASE d.err # "ok" -> d
              [] d.err = "ok" /\ u.err # "ok" -> u
              [] d.err = "ok" /\ u.err = "ok" ->
                   IF r.err = "ok" THEN Got("ok", u.data \o Tail(r.data), r.at) ELSE r
    BY <2>1 DEF free_bit_string
  <2>5. CASE d.err # "ok"
    <3>1. b = d
      BY <2>4, <2>5
    <3>. QED
      BY <2>2, <3>1 DEF b
  <2>6. CASE d.err = "ok" /\ u.err # "ok"
    <3>1. b = u
      BY <2>4, <2>6
    <3>. QED
      BY <2>3, <3>1 DEF b
  <2>7. CASE d.err = "ok" /\ u.err = "ok"
    <3>1. b = IF r.err = "ok" THEN Got("ok", u.data \o Tail(r.data), r.at) ELSE r
      BY <2>4, <2>7
    <3>2. PICK k \in Nat : d.data = <<k>>
      BY <1>4, <2>7 DEF SoundNumber
    <3>3. d.data[1] = k /\ u.at \in 0 .. MemoryBits
      BY <2>3, <3>2 DEF Sound
    <3>4. Sound(r)
      BY <3>3, SoundBitOctets
    <3>. HIDE DEF r
    <3>5. r.at \in 0 .. MemoryBits /\ "ok" \in ReadError
      BY <3>4 DEF Sound, ReadError
    <3>6. Sound(Got("ok", u.data \o Tail(r.data), r.at))
      BY <3>5, SoundGot
    <3>. QED
      BY <3>1, <3>4, <3>6 DEF b
  <2>. QED
    BY <2>5, <2>6, <2>7
<1>. QED
  BY <1>5, <1>6, <1>7

(* An index.                                                               *)
LEMMA SoundIndex ==
  ASSUME NEW v, NEW s, IsView(s), NEW x \in 0 .. MemoryBits, NEW meta,
         CountedInBits(meta.max)
  PROVE  /\ Sound(decode_choice_index(v, meta, s, x))
         /\ Sound(decode_enumerated(v, meta, s, x))
<1>. DEFINE n == bits_needed_unsigned(meta.max - 1)
            r == TakeField(v, s, x, n)
            c == decode_choice_index(v, meta, s, x)
<1>1. n \in Nat
  <2>1. n \in 0 .. 16
    BY BitsNeeded
  <2>. HIDE DEF n
  <2>. QED
    BY <2>1
<1>2. c = IF r.err = "ok" /\ r.data[1] >= meta.max
            THEN Got("value_out_of_range", << >>, r.at) ELSE r
  BY DEF decode_choice_index, checked_index
<1>. HIDE DEF n
<1>3. SoundNumber(r)
  BY <1>1, SoundTakeField
<1>. HIDE DEF r
<1>4. Sound(r) /\ r.at \in 0 .. MemoryBits /\ "value_out_of_range" \in ReadError /\ "ok" \in ReadError
  BY <1>3 DEF SoundNumber, Sound, ReadError
<1>5. Sound(Got("value_out_of_range", << >>, r.at)) /\ Sound(Got("ok", <<0>>, x))
  BY <1>4, SoundGot
<1>6. Sound(c)
  <2>. HIDE DEF c
  <2>. QED
    BY <1>2, <1>4, <1>5
<1>7. Sound(decode_enumerated(v, meta, s, x))
  BY <1>5, <1>6 DEF decode_enumerated
<1>. QED
  BY <1>6, <1>7

(* A preamble.                                                             *)
LEMMA SoundSequenceStart ==
  ASSUME NEW v, NEW s, IsView(s), NEW x \in 0 .. MemoryBits, NEW meta, meta.max \in Nat
  PROVE  Sound(decode_sequence_start(v, meta, s, x))
<1>. DEFINE n == meta.max + (IF meta.bounded THEN 1 ELSE 0)
<1>1. n \in Nat /\ x \in Nat /\ "ok" \in ReadError /\ "buffer_underflow" \in ReadError
  BY MemoryOctets DEF ReadError
<1>2. decode_sequence_start(v, meta, s, x) =
        IF underflow(s, x, n)
          THEN Got("buffer_underflow", << >>, s.size)
          ELSE Got("ok", [i \in 1 .. n |-> s.bits[x + i]], align(v, x + n))
  BY DEF decode_sequence_start
<1>. HIDE DEF n
<1>3. CASE underflow(s, x, n)
  <2>1. s.size \in 0 .. MemoryBits
    BY DEF IsView
  <2>2. Sound(Got("buffer_underflow", << >>, s.size))
    BY <1>1, <2>1, SoundGot
  <2>. QED
    BY <1>2, <1>3, <2>2
<1>4. CASE ~ underflow(s, x, n)
  <2>1. x + n \in 0 .. MemoryBits
    BY <1>1, <1>4, ViewShows
  <2>2. align(v, x + n) \in 0 .. MemoryBits
    BY <2>1, MemoryOctets
  <2>3. Sound(Got("ok", [i \in 1 .. n |-> s.bits[x + i]], align(v, x + n)))
    BY <1>1, <2>2, SoundGot
  <2>. QED
    BY <1>2, <1>4, <2>3
<1>. QED
  BY <1>3, <1>4

(* The number of elements of a SEQUENCE OF.                                *)
LEMMA SoundLength ==
  ASSUME NEW v, NEW s, IsView(s), NEW x \in 0 .. MemoryBits, NEW meta, MetaOK(meta)
  PROVE  Sound(decode_sequence_of_length(v, meta, s, x))
<1>. DEFINE h == TakeField(v, s, align(v, x), bits_needed_unsigned(range(meta) - 1))
            d == decode_length_determinant(v, s, x)
            l == decode_sequence_of_length(v, meta, s, x)
<1>1. l = IF ~ short(meta) THEN d
          ELSE IF h.err = "ok" /\ h.data[1] \notin meta.min .. meta.max
            THEN Got("value_out_of_range", << >>, h.at)
            ELSE h
  BY DEF decode_sequence_of_length
<1>2. short(meta) => SoundNumber(h)
  BY ShortMeta, SoundShort
<1>3. Sound(d)
  BY SoundDeterminant DEF SoundNumber
<1>. HIDE DEF h, d, l
<1>4. CASE short(meta)
  <2>1. Sound(h) /\ h.at \in 0 .. MemoryBits /\ "value_out_of_range" \in ReadError
    BY <1>2, <1>4 DEF SoundNumber, Sound, ReadError
  <2>2. Sound(Got("value_out_of_range", << >>, h.at))
    BY <2>1, SoundGot
  <2>. QED
    BY <1>1, <1>4, <2>1, <2>2 DEF l
<1>5. CASE ~ short(meta)
  BY <1>1, <1>3, <1>5 DEF l
<1>. QED
  BY <1>4, <1>5

-----------------------------------------------------------------------------
(* The calls of the scripts.                                               *)

Calls == UNION {{script[i] : i \in DOMAIN script} : script \in Scripts}
GoodCall == {call \in Calls : refusal(call) = "ok"}

(* What a call that is made has been checked for.                          *)
LEMMA GoodCallTyped ==
  ASSUME NEW call \in GoodCall
  PROVE  WellTyped(call) /\ refusal(call) = "ok"
<1>1. PICK script \in Scripts : \E i \in DOMAIN script : call = script[i]
  BY DEF GoodCall, Calls
<1>2. \A i \in DOMAIN script : WellTyped(script[i])
  BY LinkAssumption
<1>. QED
  BY <1>1, <1>2 DEF GoodCall

(* Its operation and its constraint.                                       *)
LEMMA CallMeta ==
  ASSUME NEW call \in GoodCall
  PROVE  call.op \in Operations /\ MetaOK(call.meta)
<1>1. WellTyped(call)
  BY GoodCallTyped
<1>2. call.op \in Operations /\ call.meta \in [bounded : BOOLEAN, min : Int, max : Int]
  BY <1>1 DEF WellTyped
<1>. QED
  BY <1>2 DEF MetaOK

(* An INTEGER is a word, inside its range when it has one.                 *)
LEMMA IntegerCall ==
  ASSUME NEW call \in GoodCall, call.op = "integer"
  PROVE  /\ call.data[1] \in SWord /\ call.data[1] \in Int
         /\ call.meta.bounded =>
              /\ call.data[1] \in call.meta.min .. call.meta.max
              /\ call.meta.max - call.meta.min < 128 * Weight[WordOctets - 1]
<1>1. WellTyped(call) /\ refusal(call) = "ok"
  BY GoodCallTyped
<1>2. call.data[1] \in SWord
  BY <1>1 DEF WellTyped
<1>3. call.data[1] \in Int
  BY <1>2, WordAssumption, WeightIsNat DEF SWord
<1>4. call.meta.bounded => call.meta.max - call.meta.min < 128 * Weight[WordOctets - 1]
  BY <1>1 DEF WellTyped
<1>5. call.meta.bounded => call.data[1] \in call.meta.min .. call.meta.max
  BY <1>1, SMT DEF refusal
<1>. QED
  BY <1>2, <1>3, <1>4, <1>5

(* A BOOLEAN is a bit.                                                     *)
LEMMA BooleanCall ==
  ASSUME NEW call \in GoodCall, call.op = "boolean"
  PROVE  call.data \in {<<0>>, <<1>>}
<1>1. WellTyped(call)
  BY GoodCallTyped
<1>. QED
  BY <1>1 DEF WellTyped

(* An octet string has the size that its type fixes.                       *)
LEMMA OctetCall ==
  ASSUME NEW call \in GoodCall, call.op \in {"octet_string", "oid"}
  PROVE  /\ call.data \in Seq(Octet)
         /\ call.op = "octet_string" /\ fixed(call.meta) => call.meta.min = Len(call.data)
<1>1. WellTyped(call) /\ refusal(call) = "ok"
  BY GoodCallTyped
<1>2. call.data \in Seq(Octet)
  BY <1>1 DEF WellTyped
<1>3. call.op = "octet_string" /\ fixed(call.meta) => call.meta.min = Len(call.data)
  BY <1>1, SMT DEF refusal
<1>. QED
  BY <1>2, <1>3

(* So has a bit string; its first number is the bits it does not use.      *)
LEMMA BitStringCall ==
  ASSUME NEW call \in GoodCall, call.op = "bit_string"
  PROVE  /\ call.data \in Seq(Octet) /\ Len(call.data) >= 1
         /\ bit_length(call.data) \in Nat /\ call.data[1] < 8
         /\ fixed(call.meta) => call.meta.min = bit_length(call.data)
<1>1. WellTyped(call) /\ refusal(call) = "ok"
  BY GoodCallTyped
<1>2. call.data \in Seq(Octet)
  BY <1>1 DEF WellTyped
<1>3. Len(call.data) >= 1 /\ bit_length(call.data) \in Nat /\ call.data[1] < 8
  BY <1>1 DEF WellTyped
<1>4. fixed(call.meta) => call.meta.min = bit_length(call.data)
  BY <1>1, SMT DEF refusal
<1>. QED
  BY <1>2, <1>3, <1>4

(* An index is below the number of alternatives.                           *)
LEMMA IndexCall ==
  ASSUME NEW call \in GoodCall, call.op \in {"enumerated", "choice_index"}
  PROVE  /\ CountedInBits(call.meta.max) /\ call.meta.max \in Nat \ {0}
         /\ call.data[1] \in 0 .. call.meta.max - 1
<1>1. WellTyped(call) /\ refusal(call) = "ok"
  BY GoodCallTyped
<1>2. call.meta.max \in 1 .. MaxRange /\ call.data[1] \in Int
  BY <1>1 DEF WellTyped
<1>3. CountedInBits(call.meta.max) /\ call.meta.max \in Nat \ {0}
  <2>. DEFINE m == call.meta.max
  <2>. HIDE DEF m
  <2>1. m \in 1 .. MaxRange
    BY <1>2 DEF m
  <2>2. MaxRange = 65536
    BY DEF MaxRange
  <2>3. MaxRange \in Nat
    BY <2>2
  <2>4. m \in Nat \ {0} /\ m <= MaxRange
    BY <2>1, <2>3
  <2>5. m <= 65536
    BY <2>2, <2>4
  <2>6. CountedInBits(m)
    BY <2>4, <2>5, SMT DEF CountedInBits
  <2>. QED
    BY <2>4, <2>6, SMT DEF m
<1>4. call.data[1] \in 0 .. call.meta.max - 1
  BY <1>1, SMT DEF refusal
<1>. QED
  BY <1>3, <1>4

(* A preamble has a bit for each optional component.                       *)
LEMMA StartCall ==
  ASSUME NEW call \in GoodCall, call.op = "sequence_start"
  PROVE  call.meta.max \in Nat /\ call.data \in [1 .. call.meta.max -> Bit]
<1>1. WellTyped(call)
  BY GoodCallTyped
<1>. QED
  BY <1>1 DEF WellTyped, Bit

(* A count is inside its range when it has one.                            *)
LEMMA ManyCall ==
  ASSUME NEW call \in GoodCall, call.op = "sequence_of_length"
  PROVE  /\ call.data[1] \in Nat
         /\ call.meta.bounded => call.data[1] \in call.meta.min .. call.meta.max
<1>1. WellTyped(call) /\ refusal(call) = "ok"
  BY GoodCallTyped
<1>2. call.data[1] \in Nat
  <2>1. call.data[1] \in 0 .. MaxLength
    BY <1>1 DEF WellTyped
  <2>2. MaxLength \in Nat
    BY SMT DEF MaxLength
  <2>. QED
    BY <2>1, <2>2
<1>3. call.meta.bounded => call.data[1] \in call.meta.min .. call.meta.max
  BY <1>1, SMT DEF refusal
<1>. QED
  BY <1>2, <1>3

(* Whatever is read for a call that was made, the reader stays inside the  *)
(* memory and gets one of the codes.                                       *)
LEMMA SoundDecode ==
  ASSUME NEW call \in GoodCall, ~ Batched(call), IsView(view), position \in 0 .. MemoryBits
  PROVE  Sound(Decode(call))
<1>0. call.op \in Operations /\ MetaOK(call.meta)
  BY CallMeta
<1>1. CASE call.op = "integer"
  <2>1. call.meta.bounded
    BY <1>1 DEF Batched
  <2>2. Decode(call) = decode_constrained_whole_number(variant, call.meta, view, position)
    BY <1>1, <2>1, SMT DEF Decode
  <2>. QED
    BY <1>0, <2>2, SoundWholeNumber
<1>2. CASE call.op = "boolean"
  <2>1. Decode(call) = TakeField(variant, view, position, 1)
    BY <1>2, SMT DEF Decode, decode_boolean
  <2>2. SoundNumber(TakeField(variant, view, position, 1))
    <3>1. 1 \in Nat
      OBVIOUS
    <3>. QED
      BY <3>1, SoundTakeField
  <2>. QED
    BY <2>1, <2>2 DEF SoundNumber
<1>3. CASE call.op \in {"null", "sequence_end"}
  <2>1. Decode(call) = Got("ok", << >>, position)
    BY <1>3, SMT DEF Decode
  <2>2. "ok" \in ReadError
    BY DEF ReadError
  <2>. QED
    BY <2>1, <2>2, SoundGot
<1>4. CASE call.op = "octet_string"
  <2>1. Decode(call) = decode_octet_string(variant, call.meta, view, position)
    BY <1>4, SMT DEF Decode
  <2>2. fixed(call.meta) => call.meta.min \in Nat
    <3>1. call.data \in Seq(Octet) /\ (fixed(call.meta) => call.meta.min = Len(call.data))
      BY <1>4, OctetCall
    <3>. QED
      BY <3>1, LenProperties
  <2>. QED
    BY <1>0, <2>1, <2>2, SoundOctetString
<1>5. CASE call.op = "bit_string"
  <2>1. Decode(call) = decode_bit_string(variant, call.meta, view, position)
    BY <1>5, SMT DEF Decode
  <2>2. fixed(call.meta) => call.meta.min \in Nat
    BY <1>5, BitStringCall
  <2>. QED
    BY <1>0, <2>1, <2>2, SoundBitString
<1>6. CASE call.op = "enumerated"
  <2>1. Decode(call) = decode_enumerated(variant, call.meta, view, position)
    BY <1>6, SMT DEF Decode
  <2>. QED
    BY <1>6, <2>1, IndexCall, SoundIndex
<1>7. CASE call.op = "sequence_start"
  <2>1. Decode(call) = decode_sequence_start(variant, call.meta, view, position)
    BY <1>7, SMT DEF Decode
  <2>. QED
    BY <1>7, <2>1, StartCall, SoundSequenceStart
<1>8. CASE call.op = "choice_index"
  <2>1. Decode(call) = decode_choice_index(variant, call.meta, view, position)
    BY <1>8, SMT DEF Decode
  <2>. QED
    BY <1>8, <2>1, IndexCall, SoundIndex
<1>9. CASE call.op = "sequence_of_length"
  <2>1. Decode(call) = decode_sequence_of_length(variant, call.meta, view, position)
    BY <1>9, SMT DEF Decode
  <2>. QED
    BY <1>0, <2>1, SoundLength
<1>10. CASE call.op = "oid"
  <2>1. Decode(call) = TakeCounted(variant, view, position)
    BY <1>10, SMT DEF Decode
  <2>. QED
    BY <2>1, SoundCounted
<1>. QED
  BY <1>0, <1>1, <1>2, <1>3, <1>4, <1>5, <1>6, <1>7, <1>8, <1>9, <1>10 DEF Operations

(* The octets of an INTEGER: one that is answered has as many as a word.   *)
LEMMA SoundInteger ==
  ASSUME NEW v, NEW s, IsView(s), NEW x \in 0 .. MemoryBits
  PROVE  /\ Sound(decode_integer_octets(v, s, x))
         /\ decode_integer_octets(v, s, x).err = "ok" =>
              /\ Len(decode_integer_octets(v, s, x).data) \in 0 .. WordOctets
              /\ decode_integer_octets(v, s, x).data # << >> =>
                   Len(decode_integer_octets(v, s, x).data) >= 1
<1>. DEFINE d == decode_length_determinant(v, s, x)
            o == TakeOctets(s, d.at, d.data[1])
            r == decode_integer_octets(v, s, x)
            more == Got("buffer_underflow", << >>, d.at)
            long == Got("value_out_of_range", << >>, d.at)
            u == underflow(s, d.at, 8 * d.data[1])
<1>1. SoundNumber(d)
  BY SoundDeterminant
<1>2. r = CASE d.err # "ok" -> d
            [] d.err = "ok" /\ u -> more
            [] d.err = "ok" /\ ~ u -> IF d.data[1] > WordOctets THEN long ELSE o
  BY DEF decode_integer_octets, integer_after
<1>. HIDE DEF r, more, long, o, d, u
<1>3. Sound(d) /\ d.at \in 0 .. MemoryBits
  BY <1>1 DEF SoundNumber, Sound
<1>4. Sound(more) /\ Sound(long) /\ more.err = "buffer_underflow" /\ long.err = "value_out_of_range"
  <2>1. "buffer_underflow" \in ReadError /\ "value_out_of_range" \in ReadError
    BY DEF ReadError
  <2>2. Sound(more) /\ Sound(long)
    BY <1>3, <2>1, SoundGot DEF more, long
  <2>. QED
    BY <2>2, GotFields DEF more, long
<1>5. CASE d.err # "ok"
  <2>1. r = d
    BY <1>2, <1>5
  <2>. QED
    BY <1>3, <1>5, <2>1 DEF r
<1>6. CASE d.err = "ok" /\ u
  <2>1. r = more
    BY <1>2, <1>6
  <2>2. r.err # "ok"
    BY <1>4, <2>1
  <2>. QED
    BY <1>4, <2>1, <2>2 DEF r
<1>7. CASE d.err = "ok" /\ ~ u
  <2>1. r = IF d.data[1] > WordOctets THEN long ELSE o
    BY <1>2, <1>7
  <2>2. PICK k \in Nat : d.data = <<k>>
    BY <1>1, <1>7 DEF SoundNumber
  <2>3. d.data[1] = k
    BY <2>2
  <2>4. CASE k > WordOctets
    <3>1. r = long
      BY <2>1, <2>3, <2>4
    <3>2. r.err # "ok"
      BY <1>4, <3>1
    <3>. QED
      BY <1>4, <3>1, <3>2 DEF r
  <2>5. CASE ~ (k > WordOctets)
    <3>1. r = o /\ o = TakeOctets(s, d.at, k)
      BY <2>1, <2>3, <2>5 DEF o
    <3>2. Sound(o) /\ (o.err = "ok" => Len(o.data) = k /\ (k = 0 => o.data = << >>))
      BY <1>3, <3>1, SoundTakeOctets
    <3>3. k \in 0 .. WordOctets
      BY <2>5, WordAssumption
    <3>4. k = 0 \/ k >= 1
      OBVIOUS
    <3>. QED
      BY <3>1, <3>2, <3>3, <3>4 DEF r
  <2>. QED
    BY <2>4, <2>5
<1>. QED
  BY <1>5, <1>6, <1>7

-----------------------------------------------------------------------------
(* The forms of the layouts.                                               *)

WholeBits == {b \in Seq(Bit) : Len(b) % 8 = 0}

Counted(s) == <<Align, Put(OctetBits(determinant_octets(Len(s)))), Put(OctetBits(s))>>

Form(p) ==
  \/ p = << >>
  \/ \E b \in Seq(Bit) : p = <<Align, Put(b), Align>> \/ p = <<Put(b), Align>>
  \/ \E b \in WholeBits : p = <<Align, Put(b)>>
  \/ \E b, c \in WholeBits : p = <<Align, Put(b), Put(c)>>
  \/ \E b, c, d \in WholeBits : p = <<Align, Put(b), Put(c), Put(d)>>
  \/ \E b \in Seq(Bit), c \in WholeBits : p = <<Align, Put(b), Align, Put(c)>>

(* The octets of a length.                                                 *)
LEMMA LengthOctets ==
  ASSUME NEW n \in Nat
  PROVE  determinant_octets(n) \in Seq(Octet)
<1>1. CASE n <= 127
  <2>1. determinant_octets(n) = <<n>>
    BY <1>1, SMT DEF determinant_octets
  <2>2. n \in Octet
    BY <1>1, SMT DEF Octet
  <2>. QED
    BY <2>1, <2>2
<1>2. CASE n > 127 /\ n <= 16383
  <2>. DEFINE a == 128 + n \div 256
              b == n % 256
  <2>1. determinant_octets(n) = <<a, b>>
    BY <1>2, SMT DEF determinant_octets
  <2>2. a \in Octet /\ b \in Octet
    BY <1>2, SMT DEF Octet
  <2>. HIDE DEF a, b
  <2>. QED
    BY <2>1, <2>2
<1>3. CASE n > 16383
  <2>. DEFINE a == 192 + ((n \div 16777216) % 32)
              b == (n \div 65536) % 256
              c == (n \div 256) % 256
              d == n % 256
  <2>1. determinant_octets(n) = <<a, b, c, d>>
    BY <1>3, SMT DEF determinant_octets
  <2>2. a \in Octet
    BY SMT DEF Octet
  <2>3. b \in Octet
    BY SMT DEF Octet
  <2>4. c \in Octet /\ d \in Octet
    BY SMT DEF Octet
  <2>. HIDE DEF a, b, c, d
  <2>. QED
    BY <2>1, <2>2, <2>3, <2>4
<1>. QED
  BY <1>1, <1>2, <1>3, SMT

(* The bits of octets are a whole number of octets.                        *)
LEMMA OctetsWhole ==
  ASSUME NEW s \in Seq(Octet)
  PROVE  OctetBits(s) \in WholeBits
<1>1. OctetBits(s) \in Seq(Bit) /\ Len(OctetBits(s)) = 8 * Len(s) /\ Len(s) \in Nat
  BY OctetBitsAreBits, LenProperties
<1>. DEFINE n == Len(s)
<1>. HIDE DEF n
<1>2. n \in Nat => (8 * n) % 8 = 0
  OBVIOUS
<1>. QED
  BY <1>1, <1>2 DEF WholeBits, n

(* Counted octets are in a form.                                           *)
LEMMA CountedForm ==
  ASSUME NEW s \in Seq(Octet)
  PROVE  counted_octets(s) = Counted(s) /\ Form(Counted(s))
<1>. DEFINE a == Put(OctetBits(determinant_octets(Len(s))))
            b == Put(OctetBits(s))
<1>1. counted_octets(s) = Append(<<Align, a>>, b)
  BY DEF counted_octets, encode_length_determinant
<1>2. Append(<<Align, a>>, b) = <<Align, a, b>>
  BY ShortSequences
<1>3. counted_octets(s) = Counted(s)
  BY <1>1, <1>2 DEF Counted
<1>4. Len(s) \in Nat
  BY LenProperties
<1>5. OctetBits(determinant_octets(Len(s))) \in WholeBits /\ OctetBits(s) \in WholeBits
  BY <1>4, LengthOctets, OctetsWhole
<1>6. Form(Counted(s))
  BY <1>5, Zenon DEF Form, Counted
<1>. QED
  BY <1>3, <1>6

(* A layout in a form is parts, and in the aligned variant it ends at an   *)
(* octet when it began at one.                                             *)
LEMMA LastWhole ==
  ASSUME NEW start \in Nat, NEW parts \in Seq(Part), NEW b \in WholeBits
  PROVE  /\ Append(parts, Align) \in Seq(Part) /\ Append(parts, Put(b)) \in Seq(Part)
         /\ Past("aligned", start, Append(parts, Align)) % 8 = 0
         /\ Past("aligned", start, parts) % 8 = 0 =>
              Past("aligned", start, Append(parts, Put(b))) % 8 = 0
<1>. DEFINE x == Past("aligned", start, parts)
            n == Len(b)
<1>1. b \in Seq(Bit) /\ n % 8 = 0 /\ n \in Nat
  BY LenProperties DEF WholeBits
<1>2. x \in Nat
  BY PastIsNat
<1>3. Append(parts, Align) \in Seq(Part) /\ Append(parts, Put(b)) \in Seq(Part)
  BY <1>1, LayoutParts
<1>4. Align \in Part /\ Align.align
  <2>1. << >> \in Seq(Bit)
    BY EmptySeq
  <2>. QED
    BY <2>1 DEF Align, Part
<1>5. Put(b) \in Part /\ ~ Put(b).align /\ Put(b).bits = b
  BY <1>1 DEF Put, Part
<1>6. Past("aligned", start, Append(parts, Align)) = align("aligned", x)
  BY <1>4, PastAppend
<1>7. Past("aligned", start, Append(parts, Put(b))) = x + n
  BY <1>5, PastAppend
<1>. HIDE DEF x, n
<1>8. align("aligned", x) % 8 = 0
  BY <1>2, AlignFacts
<1>9. x % 8 = 0 => (x + n) % 8 = 0
  BY <1>1, <1>2
<1>. QED
  BY <1>3, <1>6, <1>7, <1>8, <1>9 DEF x

(* A layout of one of the forms is a sequence of parts, and ends at an octet *)
(* in the aligned variant.                                                 *)
LEMMA FormParts ==
  ASSUME NEW p, Form(p)
  PROVE  /\ p \in Seq(Part)
         /\ \A start \in Nat : start % 8 = 0 => Past("aligned", start, p) % 8 = 0
<1>0. << >> \in Seq(Part) /\ << >> \in WholeBits
  <2>1. << >> \in Seq(Part) /\ << >> \in Seq(Bit)
    BY EmptySeq
  <2>2. Len(<< >>) % 8 = 0
    OBVIOUS
  <2>. QED
    BY <2>1, <2>2 DEF WholeBits
<1>1. CASE p = << >>
  BY <1>0, <1>1, PastIsNat
<1>. DEFINE Whole(q) == q \in Seq(Part) /\ \A start \in Nat : Past("aligned", start, q) % 8 = 0
<1>2. ASSUME NEW q \in Seq(Part)
      PROVE  Whole(Append(q, Align))
  BY <1>0, <1>2, LastWhole
<1>3. ASSUME NEW q, Whole(q), NEW b \in WholeBits
      PROVE  Whole(Append(q, Put(b)))
  BY <1>3, LastWhole
<1>. HIDE DEF Whole
<1>4. ASSUME NEW q \in Seq(Part), NEW b \in Seq(Bit)
      PROVE  Append(q, Put(b)) \in Seq(Part)
  BY LayoutParts
<1>5. Whole(<<Align>>) /\ <<Align>> \in Seq(Part)
  <2>1. Append(<< >>, Align) = <<Align>>
    BY ShortSequences
  <2>2. Whole(<<Align>>)
    BY <1>0, <1>2, <2>1
  <2>. QED
    BY <2>2 DEF Whole
<1>6. ASSUME NEW b \in Seq(Bit)
      PROVE  Whole(<<Align, Put(b), Align>>) /\ Whole(<<Put(b), Align>>)
  <2>1. <<Align, Put(b)>> \in Seq(Part)
    <3>1. Append(<<Align>>, Put(b)) = <<Align, Put(b)>>
      BY ShortSequences
    <3>. QED
      BY <1>4, <1>5, <3>1
  <2>2. <<Put(b)>> \in Seq(Part)
    <3>1. Append(<< >>, Put(b)) = <<Put(b)>>
      BY ShortSequences
    <3>. QED
      BY <1>0, <1>4, <3>1
  <2>3. /\ Append(<<Align, Put(b)>>, Align) = <<Align, Put(b), Align>>
        /\ Append(<<Put(b)>>, Align) = <<Put(b), Align>>
    BY ShortSequences
  <2>. QED
    BY <1>2, <2>1, <2>2, <2>3
<1>7. ASSUME NEW b \in WholeBits
      PROVE  Whole(<<Align, Put(b)>>)
  <2>1. Append(<<Align>>, Put(b)) = <<Align, Put(b)>>
    BY ShortSequences
  <2>. QED
    BY <1>3, <1>5, <2>1
<1>8. ASSUME NEW b \in WholeBits, NEW c \in WholeBits
      PROVE  Whole(<<Align, Put(b), Put(c)>>)
  <2>1. Append(<<Align, Put(b)>>, Put(c)) = <<Align, Put(b), Put(c)>>
    BY ShortSequences
  <2>2. Whole(<<Align, Put(b)>>)
    BY <1>7
  <2>3. Whole(Append(<<Align, Put(b)>>, Put(c)))
    BY <1>3, <2>2
  <2>. QED
    BY <2>1, <2>3
<1>9. ASSUME NEW b \in WholeBits, NEW c \in WholeBits, NEW d \in WholeBits
      PROVE  Whole(<<Align, Put(b), Put(c), Put(d)>>)
  <2>1. Append(<<Align, Put(b), Put(c)>>, Put(d)) = <<Align, Put(b), Put(c), Put(d)>>
    BY FourElements
  <2>2. Whole(<<Align, Put(b), Put(c)>>)
    BY <1>8
  <2>3. Whole(Append(<<Align, Put(b), Put(c)>>, Put(d)))
    BY <1>3, <2>2
  <2>. QED
    BY <2>1, <2>3
<1>10. ASSUME NEW b \in Seq(Bit), NEW c \in WholeBits
       PROVE  Whole(<<Align, Put(b), Align, Put(c)>>)
  <2>1. Append(<<Align, Put(b), Align>>, Put(c)) = <<Align, Put(b), Align, Put(c)>>
    BY FourElements
  <2>2. Whole(<<Align, Put(b), Align>>)
    BY <1>6
  <2>3. Whole(Append(<<Align, Put(b), Align>>, Put(c)))
    BY <1>3, <2>2
  <2>. QED
    BY <2>1, <2>3
<1>11. p # << >> => Whole(p)
  <2>. SUFFICES ASSUME p # << >> PROVE Whole(p)
    OBVIOUS
  <2>1. CASE \E b \in Seq(Bit) : p = <<Align, Put(b), Align>> \/ p = <<Put(b), Align>>
    BY <1>6, <2>1
  <2>2. CASE \E b \in WholeBits : p = <<Align, Put(b)>>
    BY <1>7, <2>2
  <2>3. CASE \E b, c \in WholeBits : p = <<Align, Put(b), Put(c)>>
    BY <1>8, <2>3
  <2>4. CASE \E b, c, d \in WholeBits : p = <<Align, Put(b), Put(c), Put(d)>>
    BY <1>9, <2>4
  <2>5. CASE \E b \in Seq(Bit), c \in WholeBits : p = <<Align, Put(b), Align, Put(c)>>
    BY <1>10, <2>5
  <2>. QED
    BY <2>1, <2>2, <2>3, <2>4, <2>5, Zenon DEF Form
<1>. QED
  BY <1>1, <1>11 DEF Whole

-----------------------------------------------------------------------------
(* What each call that is made lays out.                                   *)

(* A number that fits its octets without a sign is read back from them.    *)
LEMMA PlainReadBack ==
  ASSUME NEW k \in 1 .. WordOctets, NEW n \in Nat, n < Weight[k]
  PROVE  Unsigned(Octets(n, k)) = n
<1>1. k \in 0 .. WordOctets /\ n \in Int
  BY WordAssumption
<1>2. Weight[k] \in Nat \ {0}
  BY <1>1, WeightIsNat
<1>. DEFINE w == Weight[k]
<1>3. n \div w = 0
  <2>. HIDE DEF w
  <2>1. n \div w = 0
    BY <1>2, SMT DEF w
  <2>. QED
    BY <2>1
<1>4. Unsigned(Octets(n, k)) = n - 0 * Weight[k]
  BY <1>1, <1>3, UnsignedOfOctets
<1>. QED
  BY <1>2, <1>4

(* A distance below half a word has octets that hold it.                   *)
LEMMA DistanceOctets ==
  ASSUME NEW d \in Nat, d < 128 * Weight[WordOctets - 1]
  PROVE  LET k == Min({n \in 1 .. WordOctets : d < Weight[n]})
         IN  /\ k \in 1 .. WordOctets /\ Unsigned(Octets(d, k)) = d
             /\ Octets(d, k) \in Seq(Octet) /\ Len(Octets(d, k)) = k
<1>. DEFINE S == {n \in 1 .. WordOctets : d < Weight[n]}
            k == Min(S)
<1>0. WordOctets \in 1 .. 8
  BY WordAssumption
<1>1. WordOctets \in S
  <2>1. WordOctets \in 1 .. WordOctets /\ WordOctets \in 0 .. WordOctets /\ WordOctets > 0
    BY <1>0
  <2>2. WordOctets - 1 \in 0 .. WordOctets
    BY <1>0
  <2>3. Weight[WordOctets - 1] \in Nat /\ Weight[WordOctets] = 256 * Weight[WordOctets - 1]
    BY <2>1, <2>2, WeightIsNat
  <2>4. d < Weight[WordOctets]
    BY <2>3
  <2>. QED
    BY <2>1, <2>4
<1>2. S \in SUBSET Nat /\ S # {}
  <2>1. S \in SUBSET Nat
    OBVIOUS
  <2>. HIDE DEF S
  <2>. QED
    BY <1>1, <2>1
<1>3. k \in S
  <2>. HIDE DEF S
  <2>. QED
    BY <1>2, MinIsLeast
<1>. HIDE DEF k
<1>4. k \in 1 .. WordOctets /\ d < Weight[k]
  BY <1>3
<1>5. k \in 0 .. WordOctets /\ d \in Int
  BY <1>0, <1>4
<1>6. Unsigned(Octets(d, k)) = d
  BY <1>4, PlainReadBack
<1>7. Octets(d, k) \in Seq(Octet) /\ Len(Octets(d, k)) = k
  BY <1>5, OctetsAreOctets
<1>. QED
  BY <1>4, <1>6, <1>7 DEF k

(* The octets of an unconstrained INTEGER.                                 *)
LEMMA UnboundedLayout ==
  ASSUME NEW call \in GoodCall, call.op = "integer", ~ call.meta.bounded
  PROVE  /\ Layout(call) = Counted(Octets(call.data[1], integer_octets(call.data[1])))
         /\ integer_octets(call.data[1]) \in 1 .. WordOctets
         /\ Octets(call.data[1], integer_octets(call.data[1])) \in Seq(Octet)
         /\ Len(Octets(call.data[1], integer_octets(call.data[1]))) = integer_octets(call.data[1])
<1>. DEFINE v == call.data[1]
            k == integer_octets(v)
<1>1. v \in SWord /\ v \in Int
  BY IntegerCall
<1>2. Layout(call) = counted_octets(Octets(v, k))
  BY SMT DEF Layout
<1>. HIDE DEF v
<1>3. k \in 1 .. WordOctets
  <2>1. meaningful(v) \in 1 .. WordOctets
    BY <1>1, MeaningfulIsLeast
  <2>2. encoded_integer_size(v) \in 1 .. WordOctets
    BY <1>1, EncodedSizeFits
  <2>3. k = meaningful(v) \/ k = encoded_integer_size(v)
    <3>. DEFINE m == meaningful(v)
    <3>1. m \in Nat
      BY <2>1
    <3>2. k = m + (IF v >= 0 /\ needs_extra(v) THEN 1 ELSE 0)
      BY DEF integer_octets
    <3>3. encoded_integer_size(v) = m + (IF needs_extra(v) THEN 1 ELSE 0)
      BY DEF encoded_integer_size
    <3>. HIDE DEF m, k
    <3>4. k = m \/ k = encoded_integer_size(v)
      BY <3>1, <3>2, <3>3
    <3>. QED
      BY <3>4 DEF m
  <2>. QED
    BY <2>1, <2>2, <2>3
<1>. HIDE DEF k
<1>4. k \in 0 .. WordOctets
  BY <1>3, WordAssumption
<1>5. Octets(v, k) \in Seq(Octet) /\ Len(Octets(v, k)) = k
  BY <1>1, <1>4, OctetsAreOctets
<1>6. counted_octets(Octets(v, k)) = Counted(Octets(v, k))
  BY <1>5, CountedForm
<1>. QED
  BY <1>2, <1>3, <1>5, <1>6 DEF k, v

(* A constrained one: nothing, its distance from min in bits, or in octets.*)
LEMMA BoundedLayout ==
  ASSUME NEW call \in GoodCall, call.op = "integer", call.meta.bounded
  PROVE  LET d == call.data[1] - call.meta.min
             n == bits_needed_unsigned(range(call.meta) - 1)
         IN  /\ d \in Nat /\ call.meta.min + d = call.data[1]
             /\ \/ range(call.meta) <= 1 /\ Layout(call) = << >> /\ d = 0
                \/ /\ range(call.meta) > 1 /\ CountedInBits(range(call.meta))
                   /\ d <= range(call.meta) - 1
                   /\ Layout(call) = <<Align, Put(Bits(d, n)), Align>>
                \/ /\ ~ CountedInBits(range(call.meta))
                   /\ \E s \in Seq(Octet) :
                        Layout(call) = Counted(s) /\ Unsigned(s) = d /\ Len(s) \in 1 .. WordOctets
<1>. DEFINE v == call.data[1]
            a == call.meta.min
            b == call.meta.max
            r == range(call.meta)
            d == v - a
            k == Min({m \in 1 .. WordOctets : d < Weight[m]})
            n == bits_needed_unsigned(r - 1)
            low == <<Align, Put(Bits(d, n)), Align>>
            high == counted_octets(Octets(d, k))
<1>1. v \in Int /\ v \in a .. b /\ b - a < 128 * Weight[WordOctets - 1]
  BY IntegerCall
<1>2. a \in Int /\ b \in Int
  BY CallMeta DEF MetaOK
<1>3. r = b - a + 1
  BY DEF range
<1>4. Layout(call) = encode_constrained_whole_number(v, call.meta)
  BY SMT DEF Layout
<1>5. encode_constrained_whole_number(v, call.meta) =
        CASE r <= 1 -> << >> [] r > 1 /\ r <= 65536 -> low [] r > 65536 -> high
  BY SMT DEF encode_constrained_whole_number, field
<1>. HIDE DEF v, a, b, r, low, high
<1>6. r \in Int /\ d \in Nat /\ a + d = v /\ d <= r - 1 /\ d <= b - a
  BY <1>1, <1>2, <1>3
<1>7. CASE r <= 1
  <2>1. Layout(call) = << >>
    BY <1>4, <1>5, <1>6, <1>7, SMT
  <2>2. d = 0
    BY <1>6, <1>7
  <2>. QED
    BY <1>6, <1>7, <2>1, <2>2 DEF v, a, r
<1>8. CASE r > 1 /\ CountedInBits(r)
  <2>1. Layout(call) = low
    BY <1>4, <1>5, <1>6, <1>8, SMT DEF CountedInBits
  <2>. QED
    BY <1>6, <1>8, <2>1 DEF v, a, r, low
<1>9. CASE ~ CountedInBits(r)
  <2>1. Layout(call) = high
    BY <1>4, <1>5, <1>6, <1>9, SMT DEF CountedInBits
  <2>2. d < 128 * Weight[WordOctets - 1]
    <3>1. WordOctets - 1 \in 0 .. WordOctets
      BY WordAssumption
    <3>2. Weight[WordOctets - 1] \in Nat
      BY <3>1, WeightIsNat
    <3>. QED
      BY <1>1, <1>2, <1>6, <3>2
  <2>3. /\ k \in 1 .. WordOctets /\ Unsigned(Octets(d, k)) = d
        /\ Octets(d, k) \in Seq(Octet) /\ Len(Octets(d, k)) = k
    <3>. HIDE DEF d
    <3>. QED
      BY <1>6, <2>2, DistanceOctets
  <2>. DEFINE s == Octets(d, k)
  <2>4. high = Counted(s)
    BY <2>3, CountedForm DEF high
  <2>5. \E t \in Seq(Octet) : Layout(call) = Counted(t) /\ Unsigned(t) = d /\ Len(t) \in 1 .. WordOctets
    <3>. HIDE DEF k, d
    <3>. QED
      BY <2>1, <2>3, <2>4
  <2>. QED
    BY <1>6, <1>9, <2>5 DEF v, a, r
<1>10. ~ (r <= 1) => r > 1
  BY <1>6
<1>. QED
  BY <1>7, <1>8, <1>9, <1>10, Zenon

(* Two pairs are four elements.                                            *)
LEMMA PairsConcat ==
  ASSUME NEW a, NEW b, NEW c, NEW d
  PROVE  <<a, b>> \o <<c, d>> = <<a, b, c, d>>
<1>. DEFINE S == {a, b, c, d}
            s == <<a, b>>
            t == <<c, d>>
            r == <<a, b, c, d>>
<1>1. s \in Seq(S) /\ Len(s) = 2 /\ t \in Seq(S) /\ Len(t) = 2
  OBVIOUS
<1>2. r \in Seq(S) /\ Len(r) = 4
  OBVIOUS
<1>3. s \o t \in Seq(S) /\ Len(s \o t) = 4
  BY <1>1, ConcatProperties
<1>4. /\ \A i \in 1 .. 2 : (s \o t)[i] = s[i]
      /\ \A i \in 1 .. 2 : (s \o t)[2 + i] = t[i]
  <2>. HIDE DEF S, s, t
  <2>1. \A i \in 1 .. Len(s) + Len(t) : (s \o t)[i] = IF i <= Len(s) THEN s[i] ELSE t[i - Len(s)]
    BY <1>1, ConcatProperties
  <2>. DEFINE u == s \o t
              m == Len(s)
              n == Len(t)
  <2>0. \A i \in 1 .. m + n : u[i] = IF i <= m THEN s[i] ELSE t[i - m]
    BY <2>1
  <2>5. m = 2 /\ n = 2
    BY <1>1
  <2>. HIDE DEF u, m, n
  <2>2. \A i \in 1 .. 4 : u[i] = IF i <= 2 THEN s[i] ELSE t[i - 2]
    BY <2>0, <2>5
  <2>3. \A i \in 1 .. 2 : u[i] = s[i]
    BY <2>2
  <2>4. \A i \in 1 .. 2 : u[2 + i] = t[i]
    BY <2>2
  <2>. QED
    BY <2>3, <2>4 DEF u
<1>5. (s \o t)[1] = a /\ (s \o t)[2] = b
  BY <1>4
<1>6. (s \o t)[3] = c /\ (s \o t)[4] = d
  <2>1. (s \o t)[2 + 1] = t[1] /\ (s \o t)[2 + 2] = t[2]
    BY <1>4
  <2>. QED
    BY <2>1
<1>7. \A i \in 1 .. 4 : (s \o t)[i] = r[i]
  <2>. DEFINE u == s \o t
  <2>1. u[1] = r[1] /\ u[2] = r[2] /\ u[3] = r[3] /\ u[4] = r[4]
    BY <1>5, <1>6
  <2>. HIDE DEF u, r
  <2>2. \A i \in 1 .. 4 : i = 1 \/ i = 2 \/ i = 3 \/ i = 4
    OBVIOUS
  <2>. QED
    BY <2>1, <2>2 DEF u
<1>. HIDE DEF s, t, r
<1>8. s \o t = r
  BY <1>2, <1>3, <1>7, SeqEqual
<1>. QED
  BY <1>8 DEF s, t, r

(* The three forms of a string.                                            *)
LEMMA StringLayout ==
  ASSUME NEW meta, MetaOK(meta), NEW size, NEW head, NEW octets
  PROVE  LET s == encode_string(meta, size, head, octets)
             body == Put(OctetBits(octets))
         IN  /\ fixed(meta) => s = <<Align, body>>
             /\ short(meta) /\ ~ fixed(meta) =>
                  s = <<Align, Put(Bits(size, bits_needed_unsigned(range(meta) - 1))), Align, body>>
             /\ ~ short(meta) /\ ~ fixed(meta) =>
                  s = <<Align, Put(OctetBits(determinant_octets(size))), Put(head), body>>
<1>. DEFINE s == encode_string(meta, size, head, octets)
            body == Put(OctetBits(octets))
            h == Put(head)
            f == Put(Bits(size, bits_needed_unsigned(range(meta) - 1)))
            l == Put(OctetBits(determinant_octets(size)))
            one == <<Align, body>>
            two == Append(<<Align, f, Align>>, body)
            three == <<Align, l>> \o <<h, body>>
<1>1. s = CASE fixed(meta) -> one [] short(meta) /\ ~ fixed(meta) -> two [] ~ short(meta) -> three
  BY DEF encode_string, field, encode_length_determinant
<1>2. two = <<Align, f, Align, body>>
  BY FourElements
<1>3. three = <<Align, l, h, body>>
  BY PairsConcat
<1>. HIDE DEF s, one, two, three, f, l, h, body
<1>. DEFINE Fixed == fixed(meta)
            Short == short(meta)
<1>5. s = CASE Fixed -> one [] Short /\ ~ Fixed -> two [] ~ Short -> three
  BY <1>1
<1>. HIDE DEF Fixed, Short
<1>4. Fixed => Short
  BY ShortMeta DEF Fixed, Short
<1>8. Fixed => s = one
  BY <1>4, <1>5
<1>6. Short /\ ~ Fixed => s = two
  BY <1>5
<1>7. ~ Short /\ ~ Fixed => s = three
  BY <1>5
<1>. QED
  BY <1>2, <1>3, <1>6, <1>7, <1>8 DEF s, f, l, h, body, one, Fixed, Short

(* The layouts of the other calls.                                         *)
LEMMA OtherLayouts ==
  ASSUME NEW call \in GoodCall
  PROVE  /\ call.op = "boolean" => Layout(call) = <<Put(call.data), Align>>
         /\ call.op \in {"null", "sequence_end"} => Layout(call) = << >>
         /\ call.op = "octet_string" =>
              Layout(call) = encode_string(call.meta, Len(call.data), << >>, call.data)
         /\ call.op = "bit_string" =>
              Layout(call) = encode_string(call.meta, bit_length(call.data),
                                           Bits(call.data[1], 8), Tail(call.data))
         /\ call.op = "enumerated" =>
              Layout(call) = IF call.meta.max <= 1 THEN << >>
                             ELSE encode_index(call.meta, call.data[1])
         /\ call.op = "choice_index" => Layout(call) = encode_index(call.meta, call.data[1])
         /\ call.op = "sequence_start" =>
              Layout(call) = <<Put((IF call.meta.bounded THEN <<0>> ELSE << >>) \o call.data), Align>>
         /\ call.op = "sequence_of_length" =>
              Layout(call) = IF short(call.meta) THEN field(call.meta, call.data[1])
                             ELSE encode_length_determinant(call.data[1])
         /\ call.op = "oid" => Layout(call) = counted_octets(call.data)
<1>1. ASSUME call.op = "boolean" PROVE Layout(call) = <<Put(call.data), Align>>
  BY <1>1, SMT DEF Layout
<1>2. ASSUME call.op \in {"null", "sequence_end"} PROVE Layout(call) = << >>
  BY <1>2, SMT DEF Layout
<1>3. ASSUME call.op = "octet_string"
      PROVE  Layout(call) = encode_string(call.meta, Len(call.data), << >>, call.data)
  BY <1>3, SMT DEF Layout
<1>4. ASSUME call.op = "bit_string"
      PROVE  Layout(call) = encode_string(call.meta, bit_length(call.data),
                                          Bits(call.data[1], 8), Tail(call.data))
  BY <1>4, SMT DEF Layout
<1>5. ASSUME call.op = "enumerated"
      PROVE  Layout(call) = IF call.meta.max <= 1 THEN << >>
                            ELSE encode_index(call.meta, call.data[1])
  BY <1>5, SMT DEF Layout
<1>6. ASSUME call.op = "choice_index" PROVE Layout(call) = encode_index(call.meta, call.data[1])
  BY <1>6, SMT DEF Layout
<1>7. ASSUME call.op = "sequence_start"
      PROVE  Layout(call) = <<Put((IF call.meta.bounded THEN <<0>> ELSE << >>) \o call.data), Align>>
  BY <1>7, SMT DEF Layout
<1>8. ASSUME call.op = "sequence_of_length"
      PROVE  Layout(call) = IF short(call.meta) THEN field(call.meta, call.data[1])
                            ELSE encode_length_determinant(call.data[1])
  BY <1>8, SMT DEF Layout
<1>9. ASSUME call.op = "oid" PROVE Layout(call) = counted_octets(call.data)
  BY <1>9, SMT DEF Layout
<1>. QED
  BY <1>1, <1>2, <1>3, <1>4, <1>5, <1>6, <1>7, <1>8, <1>9, Zenon

(* A bit sequence that is empty or an octet is whole.                      *)
LEMMA HeadWhole ==
  /\ << >> \in WholeBits
  /\ \A x \in Int : Bits(x, 8) \in WholeBits
<1>1. << >> \in WholeBits
  <2>1. << >> \in Seq(Bit)
    BY EmptySeq
  <2>2. Len(<< >>) % 8 = 0
    OBVIOUS
  <2>. QED
    BY <2>1, <2>2 DEF WholeBits
<1>2. ASSUME NEW x \in Int PROVE Bits(x, 8) \in WholeBits
  <2>1. 8 \in 0 .. 16
    OBVIOUS
  <2>2. Bits(x, 8) \in Seq(Bit) /\ Len(Bits(x, 8)) = 8
    BY <2>1, BitsAreBits
  <2>3. 8 % 8 = 0
    OBVIOUS
  <2>. QED
    BY <2>2, <2>3 DEF WholeBits
<1>. QED
  BY <1>1, <1>2

(* The preamble is bits.                                                   *)
LEMMA PreambleBits ==
  ASSUME NEW call \in GoodCall, call.op = "sequence_start"
  PROVE  LET b == (IF call.meta.bounded THEN <<0>> ELSE << >>) \o call.data
             n == call.meta.max + (IF call.meta.bounded THEN 1 ELSE 0)
         IN  b \in Seq(Bit) /\ Len(b) = n /\ n \in Nat
<1>. DEFINE m == call.meta.max
            h == IF call.meta.bounded THEN <<0>> ELSE << >>
            x == IF call.meta.bounded THEN 1 ELSE 0
            d == call.data
<1>1. m \in Nat /\ d \in [1 .. m -> Bit]
  BY StartCall
<1>2. h \in Seq(Bit) /\ Len(h) = x /\ x \in Nat
  <2>1. << >> \in Seq(Bit) /\ Len(<< >>) = 0
    BY EmptySeq
  <2>2. 0 \in Bit
    BY DEF Bit
  <2>3. <<0>> \in Seq(Bit) /\ Len(<<0>>) = 1
    BY <2>2
  <2>. QED
    BY <2>1, <2>3
<1>. HIDE DEF m, h, x, d
<1>3. d \in Seq(Bit) /\ Len(d) = m
  BY <1>1, SMT
<1>4. h \o d \in Seq(Bit) /\ Len(h \o d) = x + m
  BY <1>2, <1>3, ConcatProperties
<1>5. x + m = m + x /\ m + x \in Nat
  BY <1>1, <1>2
<1>. QED
  BY <1>4, <1>5 DEF h, m, x, d

(* A layout is in one of the forms.                                        *)
LEMMA LayoutForm ==
  ASSUME NEW call \in GoodCall
  PROVE  Form(Layout(call))
<1>0. call.op \in Operations /\ MetaOK(call.meta)
  BY CallMeta
<1>1. ASSUME NEW b \in Seq(Bit)
      PROVE  Form(<<Align, Put(b), Align>>) /\ Form(<<Put(b), Align>>)
  BY <1>1, Zenon DEF Form
<1>2. Form(<< >>)
  BY Zenon DEF Form
<1>3. ASSUME NEW size, size \in Nat, NEW head \in WholeBits, NEW octets \in Seq(Octet)
      PROVE  Form(encode_string(call.meta, size, head, octets))
  <2>1. OctetBits(octets) \in WholeBits /\ OctetBits(determinant_octets(size)) \in WholeBits
    BY <1>3, LengthOctets, OctetsWhole
  <2>2. CASE fixed(call.meta)
    <3>1. encode_string(call.meta, size, head, octets) = <<Align, Put(OctetBits(octets))>>
      BY <1>0, <2>2, StringLayout
    <3>. QED
      BY <2>1, <3>1, Zenon DEF Form
  <2>3. CASE short(call.meta) /\ ~ fixed(call.meta)
    <3>. DEFINE n == bits_needed_unsigned(range(call.meta) - 1)
    <3>1. encode_string(call.meta, size, head, octets) =
            <<Align, Put(Bits(size, n)), Align, Put(OctetBits(octets))>>
      BY <1>0, <2>3, StringLayout
    <3>2. n \in 0 .. 16
      BY <1>0, <2>3, ShortMeta, BitsNeeded
    <3>3. size \in Int
      BY <1>3
    <3>. HIDE DEF n
    <3>4. Bits(size, n) \in Seq(Bit)
      BY <3>2, <3>3, BitsAreBits
    <3>. QED
      BY <2>1, <3>1, <3>4, Zenon DEF Form
  <2>4. CASE ~ short(call.meta) /\ ~ fixed(call.meta)
    <3>1. encode_string(call.meta, size, head, octets) =
            <<Align, Put(OctetBits(determinant_octets(size))), Put(head), Put(OctetBits(octets))>>
      BY <1>0, <2>4, StringLayout
    <3>. QED
      BY <2>1, <3>1, Zenon DEF Form
  <2>. QED
    BY <2>2, <2>3, <2>4
<1>4. ASSUME NEW x, NEW n, x \in Int, n \in 0 .. 16
      PROVE  Form(<<Align, Put(Bits(x, n)), Align>>) /\ Form(<<Put(Bits(x, n)), Align>>)
  <2>1. Bits(x, n) \in Seq(Bit)
    BY <1>4, BitsAreBits
  <2>. QED
    BY <1>1, <2>1
<1>5. CASE call.op = "integer" /\ ~ call.meta.bounded
  <2>1. /\ Layout(call) = Counted(Octets(call.data[1], integer_octets(call.data[1])))
        /\ Octets(call.data[1], integer_octets(call.data[1])) \in Seq(Octet)
    BY <1>5, UnboundedLayout
  <2>. QED
    BY <2>1, CountedForm
<1>6. CASE call.op = "integer" /\ call.meta.bounded
  <2>. DEFINE d == call.data[1] - call.meta.min
              n == bits_needed_unsigned(range(call.meta) - 1)
  <2>1. /\ d \in Nat
        /\ \/ range(call.meta) <= 1 /\ Layout(call) = << >> /\ d = 0
           \/ /\ range(call.meta) > 1 /\ CountedInBits(range(call.meta))
              /\ d <= range(call.meta) - 1
              /\ Layout(call) = <<Align, Put(Bits(d, n)), Align>>
           \/ /\ ~ CountedInBits(range(call.meta))
              /\ \E s \in Seq(Octet) :
                   Layout(call) = Counted(s) /\ Unsigned(s) = d /\ Len(s) \in 1 .. WordOctets
    BY <1>6, BoundedLayout
  <2>2. CountedInBits(range(call.meta)) => n \in 0 .. 16
    BY BitsNeeded
  <2>3. d \in Int
    BY <2>1
  <2>. HIDE DEF d, n
  <2>4. CASE Layout(call) = << >>
    BY <1>2, <2>4
  <2>5. CASE CountedInBits(range(call.meta)) /\ Layout(call) = <<Align, Put(Bits(d, n)), Align>>
    BY <1>4, <2>2, <2>3, <2>5
  <2>6. CASE \E s \in Seq(Octet) : Layout(call) = Counted(s)
    BY <2>6, CountedForm
  <2>. QED
    BY <2>1, <2>4, <2>5, <2>6
<1>7. CASE call.op = "boolean"
  <2>1. call.data \in Seq(Bit)
    <3>1. 0 \in Bit /\ 1 \in Bit
      BY DEF Bit
    <3>2. <<0>> \in Seq(Bit) /\ <<1>> \in Seq(Bit)
      BY <3>1
    <3>. QED
      BY <1>7, <3>2, BooleanCall
  <2>2. Layout(call) = <<Put(call.data), Align>>
    BY <1>7, OtherLayouts
  <2>. QED
    BY <1>1, <2>1, <2>2
<1>8. CASE call.op \in {"null", "sequence_end"}
  BY <1>2, <1>8, OtherLayouts
<1>9. CASE call.op = "octet_string"
  <2>1. call.data \in Seq(Octet)
    BY <1>9, OctetCall
  <2>2. Len(call.data) \in Nat
    BY <2>1, LenProperties
  <2>3. Layout(call) = encode_string(call.meta, Len(call.data), << >>, call.data)
    BY <1>9, OtherLayouts
  <2>. QED
    BY <1>3, <2>1, <2>2, <2>3, HeadWhole
<1>10. CASE call.op = "bit_string"
  <2>1. call.data \in Seq(Octet) /\ Len(call.data) >= 1 /\ bit_length(call.data) \in Nat
    BY <1>10, BitStringCall
  <2>. DEFINE d == call.data
  <2>2. d[1] \in Octet /\ Tail(d) \in Seq(Octet)
    <3>. HIDE DEF d
    <3>1. d \in Seq(Octet) /\ Len(d) >= 1
      BY <2>1 DEF d
    <3>2. d # << >>
      BY <3>1, EmptySeq
    <3>. QED
      BY <3>1, <3>2, HeadTailProperties, ElementOfSeq
  <2>3. d[1] \in Int
    BY <2>2, OctetNumber
  <2>4. Layout(call) = encode_string(call.meta, bit_length(d), Bits(d[1], 8), Tail(d))
    BY <1>10, OtherLayouts
  <2>. HIDE DEF d
  <2>5. Bits(d[1], 8) \in WholeBits
    BY <2>3, HeadWhole
  <2>6. bit_length(d) \in Nat
    BY <2>1 DEF d
  <2>. QED
    BY <1>3, <2>2, <2>4, <2>5, <2>6
<1>11. CASE call.op \in {"enumerated", "choice_index"}
  <2>1. CountedInBits(call.meta.max) /\ call.data[1] \in 0 .. call.meta.max - 1 /\ call.meta.max \in Nat
    BY <1>11, IndexCall
  <2>. DEFINE n == bits_needed_unsigned(call.meta.max - 1)
  <2>2. n \in 0 .. 16 /\ call.data[1] \in Int
    BY <2>1, BitsNeeded
  <2>3. encode_index(call.meta, call.data[1]) = <<Put(Bits(call.data[1], n)), Align>>
    BY DEF encode_index
  <2>. HIDE DEF n
  <2>4. Form(encode_index(call.meta, call.data[1]))
    BY <1>4, <2>2, <2>3
  <2>5. Layout(call) = << >> \/ Layout(call) = encode_index(call.meta, call.data[1])
    BY <1>11, OtherLayouts
  <2>. QED
    BY <1>2, <2>4, <2>5
<1>12. CASE call.op = "sequence_start"
  <2>. DEFINE b == (IF call.meta.bounded THEN <<0>> ELSE << >>) \o call.data
  <2>1. Layout(call) = <<Put(b), Align>>
    BY <1>12, OtherLayouts
  <2>2. b \in Seq(Bit)
    BY <1>12, PreambleBits
  <2>. HIDE DEF b
  <2>. QED
    BY <1>1, <2>1, <2>2
<1>13. CASE call.op = "sequence_of_length"
  <2>1. call.data[1] \in Nat /\ call.data[1] \in Int
    BY <1>13, ManyCall
  <2>2. Layout(call) = IF short(call.meta) THEN field(call.meta, call.data[1])
                       ELSE encode_length_determinant(call.data[1])
    BY <1>13, OtherLayouts
  <2>3. CASE short(call.meta)
    <3>. DEFINE n == bits_needed_unsigned(range(call.meta) - 1)
    <3>1. n \in 0 .. 16
      BY <1>0, <2>3, ShortMeta, BitsNeeded
    <3>2. Layout(call) = <<Align, Put(Bits(call.data[1], n)), Align>>
      BY <2>2, <2>3 DEF field
    <3>. HIDE DEF n
    <3>. QED
      BY <1>4, <2>1, <3>1, <3>2
  <2>4. CASE ~ short(call.meta)
    <3>1. Layout(call) = <<Align, Put(OctetBits(determinant_octets(call.data[1])))>>
      BY <2>2, <2>4 DEF encode_length_determinant
    <3>2. OctetBits(determinant_octets(call.data[1])) \in WholeBits
      BY <2>1, LengthOctets, OctetsWhole
    <3>. QED
      BY <3>1, <3>2, Zenon DEF Form
  <2>. QED
    BY <2>3, <2>4
<1>14. CASE call.op = "oid"
  <2>1. call.data \in Seq(Octet)
    BY <1>14, OctetCall
  <2>2. Layout(call) = counted_octets(call.data)
    BY <1>14, OtherLayouts
  <2>. QED
    BY <2>1, <2>2, CountedForm
<1>. QED
  BY <1>0, <1>5, <1>6, <1>7, <1>8, <1>9, <1>10, <1>11, <1>12, <1>13, <1>14 DEF Operations

-----------------------------------------------------------------------------
(* The scripts, and where their calls end in the aligned variant.          *)

(* A script is a sequence of calls.                                        *)
LEMMA ScriptCalls ==
  ASSUME NEW script \in Scripts
  PROVE  /\ script \in Seq(Calls) /\ Len(script) \in Nat
         /\ \A i \in 1 .. Len(script) :
              script[i] \in Calls /\ (refusal(script[i]) = "ok" => script[i] \in GoodCall)
<1>. DEFINE S == {script[i] : i \in DOMAIN script}
<1>1. script \in Seq(S)
  BY LinkAssumption
<1>2. \A x \in S : x \in Calls
  BY DEF Calls
<1>. HIDE DEF S
<1>3. Len(script) \in Nat /\ \A i \in 1 .. Len(script) : script[i] \in S
  BY <1>1
<1>4. \A i \in 1 .. Len(script) : script[i] \in Calls
  BY <1>2, <1>3
<1>5. script \in Seq(Calls)
  BY <1>1, <1>2
<1>. QED
  BY <1>3, <1>4, <1>5 DEF GoodCall

(* The layout of a call that is made is a sequence of parts.               *)
LEMMA GoodLayout ==
  ASSUME NEW call \in GoodCall
  PROVE  /\ Layout(call) \in Seq(Part)
         /\ \A start \in Nat : start % 8 = 0 => Past("aligned", start, Layout(call)) % 8 = 0
BY LayoutForm, FormParts

(* The table that Ends takes its last entry from.                          *)
EndsAre(f, script) ==
  /\ f \in [0 .. Len(script) -> Nat] /\ f[0] = 0
  /\ \A i \in 1 .. Len(script) :
       f[i] = IF refusal(script[i]) = "ok" THEN Past("aligned", f[i - 1], Layout(script[i]))
                                           ELSE f[i - 1]
  /\ Ends(script)[Len(script)] = f[Len(script)]

(* Ends exists.                                                            *)
LEMMA EndsRecursion ==
  ASSUME NEW script \in Scripts
  PROVE  \E f : EndsAre(f, script)
<1>. DEFINE n == Len(script)
            ok(i) == refusal(script[i]) = "ok"
            step == [i \in 1 .. n |-> [b \in Nat |->
                       IF ok(i) THEN Past("aligned", b, Layout(script[i])) ELSE b]]
            Next1(f, i) == IF i = 0 THEN 0
                           ELSE IF refusal(script[i]) = "ok"
                             THEN f[i - 1] + Len(Piece("aligned", f[i - 1], Layout(script[i])))
                             ELSE f[i - 1]
            Joins(f) == f = [i \in 0 .. n |->
                               IF i = 0 THEN 0
                               ELSE IF refusal(script[i]) = "ok"
                                 THEN f[i - 1] + Len(Piece("aligned", f[i - 1], Layout(script[i])))
                                 ELSE f[i - 1]]
            up == CHOOSE f : Joins(f)
<1>0. n \in Nat /\ 0 \in Nat
  BY ScriptCalls
<1>1. step \in [1 .. n -> [Nat -> Nat]]
  <2>1. ASSUME NEW i \in 1 .. n, NEW b \in Nat
        PROVE  (IF ok(i) THEN Past("aligned", b, Layout(script[i])) ELSE b) \in Nat
    <3>1. CASE ok(i)
      <4>1. script[i] \in GoodCall
        BY <3>1, ScriptCalls
      <4>2. Layout(script[i]) \in Seq(Part)
        BY <4>1, GoodLayout
      <4>. QED
        BY <3>1, <4>2, PastIsNat
    <3>2. CASE ~ ok(i)
      BY <3>2
    <3>. QED
      BY <3>1, <3>2
  <2>. HIDE DEF ok
  <2>. QED
    BY <2>1
<1>. HIDE DEF step
<1>2. PICK g : Follows(g, n, Nat, 0, step)
  <2>. HIDE DEF n
  <2>. QED
    BY <1>0, <1>1, Recursion
<1>3. ASSUME NEW i \in 1 .. n
      PROVE  g[i] = IF ok(i) THEN Past("aligned", g[i - 1], Layout(script[i])) ELSE g[i - 1]
  <2>1. g[i] = step[i][g[i - 1]] /\ g[i - 1] \in Nat
    BY <1>2 DEF Follows
  <2>. HIDE DEF ok
  <2>. QED
    BY <2>1 DEF step
<1>4. Joins(g)
  <2>1. ASSUME NEW i \in 0 .. n
        PROVE  g[i] = Next1(g, i)
    <3>1. CASE i = 0
      BY <1>2, <3>1 DEF Follows
    <3>2. CASE i # 0
      <4>1. i \in 1 .. n
        BY <1>0, <3>2
      <4>. QED
        BY <1>3, <3>2, <4>1 DEF Past
    <3>. QED
      BY <3>1, <3>2
  <2>2. g \in [0 .. n -> Nat]
    BY <1>2 DEF Follows
  <2>3. g = [i \in 0 .. n |-> Next1(g, i)]
    <3>. HIDE DEF Next1, n
    <3>. QED
      BY <2>1, <2>2
  <2>. QED
    BY <2>3
<1>5. Joins(up)
  <2>. HIDE DEF Joins
  <2>. QED
    BY <1>4
<1>6. Ends(script) = up
  BY DEF Ends
<1>. HIDE DEF up
<1>7. up[0] = 0 /\ \A i \in 1 .. n : up[i] = Next1(up, i)
  <2>1. up = [i \in 0 .. n |-> Next1(up, i)]
    BY <1>5
  <2>. HIDE DEF Next1
  <2>2. \A i \in 0 .. n : up[i] = Next1(up, i)
    BY <2>1
  <2>3. up[0] = 0
    BY <1>0, <2>2 DEF Next1
  <2>4. \A i \in 1 .. n : i \in 0 .. n
    BY <1>0
  <2>. QED
    BY <2>2, <2>3, <2>4
<1>. DEFINE T == {j \in 0 .. n : up[j] = g[j]}
<1>8. n \in T
  <2>1. 0 \in T
    BY <1>0, <1>2, <1>7 DEF Follows
  <2>2. ASSUME NEW i \in 1 .. n, i - 1 \in T
        PROVE  i \in T
    <3>1. i \in 0 .. n /\ i # 0 /\ up[i - 1] = g[i - 1]
      BY <1>0, <2>2
    <3>2. up[i] = Next1(g, i)
      BY <1>7, <3>1
    <3>3. g[i] = Next1(g, i)
      BY <1>3, <3>1 DEF Past
    <3>. QED
      BY <3>1, <3>2, <3>3
  <2>. HIDE DEF T, n
  <2>. QED
    BY <1>0, <2>1, <2>2, SetInduction
<1>9. Ends(script)[n] = g[n]
  BY <1>6, <1>8
<1>. QED
  BY <1>2, <1>3, <1>9 DEF Follows, EndsAre

(* No call of a script ends behind the buffer.                             *)
LEMMA EndsInMemory ==
  ASSUME NEW script \in Scripts, NEW f, EndsAre(f, script), NEW i \in 0 .. Len(script)
  PROVE  f[i] \in Nat /\ f[i] <= MemoryBits
<1>. DEFINE n == Len(script)
            T == {j \in 0 .. n : f[n - j] <= f[n]}
<1>0. n \in Nat /\ MemoryBits \in Nat
  BY ScriptCalls, MemoryOctets
<1>1. f \in [0 .. n -> Nat]
  BY DEF EndsAre
<1>2. ASSUME NEW j \in 1 .. n PROVE f[j - 1] <= f[j]
  <2>1. f[j - 1] \in Nat
    BY <1>1
  <2>2. f[j] = IF refusal(script[j]) = "ok" THEN Past("aligned", f[j - 1], Layout(script[j]))
                                            ELSE f[j - 1]
    BY DEF EndsAre
  <2>3. CASE refusal(script[j]) = "ok"
    <3>1. script[j] \in GoodCall
      BY <2>3, ScriptCalls
    <3>2. Layout(script[j]) \in Seq(Part)
      BY <3>1, GoodLayout
    <3>3. f[j - 1] <= Past("aligned", f[j - 1], Layout(script[j]))
      BY <2>1, <3>2, PastIsNat
    <3>. QED
      BY <2>2, <2>3, <3>3
  <2>4. CASE refusal(script[j]) # "ok"
    BY <2>1, <2>2, <2>4
  <2>. QED
    BY <2>3, <2>4
<1>3. \A j \in 0 .. n : j \in T
  <2>1. 0 \in T
    BY <1>0, <1>1
  <2>2. ASSUME NEW j \in 1 .. n, j - 1 \in T
        PROVE  j \in T
    <3>. DEFINE a == n - j
    <3>1. a + 1 \in 1 .. n /\ a \in 0 .. n /\ n \in 0 .. n /\ n - (j - 1) = a + 1 /\ (a + 1) - 1 = a
      BY <1>0
    <3>2. f[a] <= f[a + 1]
      BY <1>2, <3>1
    <3>3. f[a + 1] <= f[n]
      BY <2>2, <3>1
    <3>4. f[a] \in Nat /\ f[a + 1] \in Nat /\ f[n] \in Nat
      BY <1>0, <1>1, <3>1
    <3>5. f[a] <= f[n]
      BY <3>2, <3>3, <3>4
    <3>. QED
      BY <1>0, <3>5
  <2>. HIDE DEF T, n
  <2>. QED
    BY <1>0, <2>1, <2>2, SetInduction
<1>4. f[i] <= f[n]
  <2>1. n - i \in 0 .. n /\ n - (n - i) = i
    BY <1>0
  <2>2. n - i \in T
    BY <1>3, <2>1
  <2>. QED
    BY <2>1, <2>2
<1>5. f[n] <= MemoryBits
  BY LinkAssumption DEF RoomFor, EndsAre
<1>6. f[i] \in Nat /\ f[n] \in Nat
  BY <1>0, <1>1
<1>. QED
  BY <1>0, <1>4, <1>5, <1>6

-----------------------------------------------------------------------------
(* What is written stays.                                                  *)

MemoryOK(m) == m \in [1 .. MemoryBits -> Bit]

(* A piece that ends inside the memory is in it, and nothing else changes. *)
LEMMA OverwriteHolds ==
  ASSUME NEW m, MemoryOK(m), NEW start \in Nat, NEW bits \in Seq(PieceBit),
         start + Len(bits) <= MemoryBits
  PROVE  /\ MemoryOK(Overwrite(m, start, bits))
         /\ Holds(Overwrite(m, start, bits), start, bits)
         /\ \A i \in 1 .. MemoryBits :
              (i <= start \/ i > start + Len(bits)) => Overwrite(m, start, bits)[i] = m[i]
<1>. DEFINE o == Overwrite(m, start, bits)
            n == Len(bits)
            in(i) == i > start /\ i <= start + n /\ bits[i - start] # Kept
<1>1. n \in Nat /\ MemoryBits \in Nat /\ start + n <= MemoryBits
  BY MemoryOctets, LenProperties
<1>2. DOMAIN m = 1 .. MemoryBits /\ \A i \in 1 .. MemoryBits : m[i] \in Bit
  BY DEF MemoryOK
<1>3. o = [i \in 1 .. MemoryBits |-> IF in(i) THEN bits[i - start] ELSE m[i]]
  BY <1>2 DEF Overwrite
<1>4. \A i \in 1 .. n : bits[i] \in PieceBit
  BY <1>1, ElementOfSeq
<1>. HIDE DEF n
<1>5. ASSUME NEW i \in 1 .. MemoryBits, in(i) PROVE bits[i - start] \in Bit
  <2>1. i - start \in 1 .. n
    BY <1>1, <1>5
  <2>2. bits[i - start] \in PieceBit
    BY <1>4, <2>1
  <2>. QED
    BY <1>5, <2>2 DEF PieceBit, Bit
<1>. HIDE DEF o, in
<1>6. MemoryOK(o)
  <2>1. \A i \in 1 .. MemoryBits : (IF in(i) THEN bits[i - start] ELSE m[i]) \in Bit
    BY <1>2, <1>5
  <2>. QED
    BY <1>3, <2>1 DEF MemoryOK
<1>7. \A i \in 1 .. MemoryBits : o[i] = IF in(i) THEN bits[i - start] ELSE m[i]
  BY <1>3
<1>8. ASSUME NEW i \in 1 .. n, bits[i] # Kept PROVE o[start + i] = bits[i]
  <2>1. start + i \in 1 .. MemoryBits /\ (start + i) - start = i
    BY <1>1
  <2>2. in(start + i)
    BY <1>1, <1>8, <2>1 DEF in
  <2>3. o[start + i] = bits[(start + i) - start]
    BY <1>7, <2>1, <2>2
  <2>. QED
    BY <2>1, <2>3
<1>9. ASSUME NEW i \in 1 .. MemoryBits, i <= start \/ i > start + n PROVE o[i] = m[i]
  <2>1. ~ in(i)
    BY <1>1, <1>9 DEF in
  <2>. QED
    BY <1>7, <2>1
<1>. QED
  BY <1>6, <1>8, <1>9 DEF Holds, o, n

(* A layout still lies in a memory that agrees with the first up to it.    *)
LEMMA LiesKept ==
  ASSUME NEW m, NEW o, NEW v, NEW start \in Nat, NEW parts \in Seq(Part), NEW end,
         Lies(m, v, start, parts, end), NEW top \in Nat, end <= top, top <= MemoryBits,
         \A i \in 1 .. MemoryBits : i <= top => o[i] = m[i]
  PROVE  Lies(o, v, start, parts, end)
<1>. DEFINE b == Piece(v, start, parts)
            n == Len(b)
<1>1. b \in Seq(PieceBit)
  BY PieceBits
<1>2. n \in Nat /\ MemoryBits \in Nat
  <2>. HIDE DEF b
  <2>. QED
    BY <1>1, LenProperties, MemoryOctets
<1>3. Holds(m, start, b) /\ end = start + n
  BY DEF Lies, Past
<1>. HIDE DEF b
<1>4. ASSUME NEW i \in 1 .. n, b[i] # Kept PROVE o[start + i] = b[i]
  <2>1. m[start + i] = b[i]
    BY <1>3, <1>4 DEF Holds
  <2>2. start + i \in 1 .. MemoryBits /\ start + i <= top
    <3>. HIDE DEF n
    <3>. QED
      BY <1>2, <1>3
  <2>. QED
    BY <2>1, <2>2
<1>5. Holds(o, start, b)
  BY <1>4 DEF Holds
<1>. QED
  BY <1>3, <1>5 DEF Lies, Past, b

(* Where a sequence of marks ends.                                         *)
Top(mk) == mk[Len(mk)]

(* The marks: positions in the memory, none behind the last one.           *)
Tidy(v, mk) ==
  /\ mk \in Seq(Nat) /\ Len(mk) >= 1 /\ mk[1] = 0 /\ Top(mk) <= MemoryBits
  /\ \A i \in 1 .. Len(mk) : mk[i] <= Top(mk)
  /\ v = "aligned" => \A i \in 1 .. Len(mk) : mk[i] % 8 = 0

(* The calls that were made lie in the memory between the marks; they and  *)
(* those to be made are a script, and leave room for the rest of it.       *)
Written(script, m, v, mk, td, sn) ==
  /\ td \in Seq(Calls) /\ sn \in Seq(GoodCall)
  /\ Len(script) = Len(sn) + Len(td) /\ Len(mk) = Len(sn) + 1
  /\ \A i \in 1 .. Len(td) : td[i] = script[Len(sn) + i]
  /\ \A i \in 1 .. Len(sn) : Lies(m, v, mk[i], Layout(sn[i]), mk[i + 1])
  /\ \E f : EndsAre(f, script) /\ Top(mk) <= f[Len(sn)]

(* Nothing is written yet.                                                 *)
LEMMA WrittenStart ==
  ASSUME NEW script \in Scripts, NEW m, NEW v
  PROVE  Tidy(v, <<0>>) /\ Written(script, m, v, <<0>>, script, << >>)
<1>0. << >> \in Seq(GoodCall) /\ Len(<< >>) = 0 /\ MemoryBits \in Nat
  BY EmptySeq, MemoryOctets
<1>1. <<0>> \in Seq(Nat) /\ Len(<<0>>) = 1 /\ <<0>>[1] = 0 /\ Top(<<0>>) = 0
  BY DEF Top
<1>2. 0 % 8 = 0 /\ \A i \in 1 .. 1 : i = 1
  OBVIOUS
<1>3. PICK f : EndsAre(f, script)
  BY EndsRecursion
<1>4. script \in Seq(Calls) /\ Len(script) \in Nat
  BY ScriptCalls
<1>5. Tidy(v, <<0>>)
  <2>. DEFINE z == <<0>>
  <2>1. z \in Seq(Nat) /\ Len(z) = 1 /\ z[1] = 0 /\ Top(z) = 0
    BY <1>1
  <2>. HIDE DEF z
  <2>2. \A i \in 1 .. Len(z) : z[i] = 0
    BY <1>2, <2>1
  <2>3. Tidy(v, z)
    BY <1>0, <1>2, <2>1, <2>2 DEF Tidy
  <2>. QED
    BY <2>3 DEF z
<1>6. Written(script, m, v, <<0>>, script, << >>)
  <2>. DEFINE z == <<0>>
              e == << >>
  <2>1. Len(z) = 1 /\ Top(z) = 0 /\ Len(e) = 0 /\ e \in Seq(GoodCall)
    BY <1>0, <1>1
  <2>. HIDE DEF z, e
  <2>2. f[Len(e)] = 0
    BY <1>3, <2>1 DEF EndsAre
  <2>3. \A i \in 1 .. Len(script) : script[i] = script[Len(e) + i]
    BY <2>1, <1>4
  <2>4. \A i \in 1 .. Len(e) : Lies(m, v, z[i], Layout(e[i]), z[i + 1])
    BY <2>1
  <2>5. Top(z) <= f[Len(e)]
    BY <2>1, <2>2
  <2>6. Len(script) = Len(e) + Len(script) /\ Len(z) = Len(e) + 1
    BY <1>4, <2>1
  <2>7. Written(script, m, v, z, script, e)
    BY <1>3, <1>4, <2>1, <2>3, <2>4, <2>5, <2>6 DEF Written
  <2>. QED
    BY <2>7 DEF z, e
<1>. QED
  BY <1>5, <1>6

(* One call more.                                                          *)
LEMMA WrittenStep ==
  ASSUME NEW script \in Scripts, NEW m, MemoryOK(m), NEW v, NEW mk, Tidy(v, mk), NEW td, NEW sn,
         Written(script, m, v, mk, td, sn), td # << >>, refusal(Head(td)) = "ok"
  PROVE  LET x == Top(mk)
             b == Piece(v, x, Layout(Head(td)))
             o == Overwrite(m, x, b)
             e == x + Len(b)
         IN  /\ Head(td) \in GoodCall
             /\ MemoryOK(o) /\ Tidy(v, Append(mk, e))
             /\ Written(script, o, v, Append(mk, e), Tail(td), Append(sn, Head(td)))
             /\ x \in Nat /\ e \in Nat /\ x <= e /\ Top(Append(mk, e)) = e
             /\ \A i \in 1 .. MemoryBits : i > e => o[i] = m[i]
<1>. DEFINE x == Top(mk)
            p == Layout(Head(td))
            b == Piece(v, x, p)
            o == Overwrite(m, x, b)
            e == x + Len(b)
            c == Head(td)
            k == Len(sn)
            n == Len(script)
            mk2 == Append(mk, e)
            sn2 == Append(sn, c)
            td2 == Tail(td)
<1>1. /\ td \in Seq(Calls) /\ sn \in Seq(GoodCall) /\ n = k + Len(td) /\ Len(mk) = k + 1
      /\ k \in Nat /\ Len(td) \in Nat /\ n \in Nat
  BY ScriptCalls, LenProperties DEF Written
<1>2. Len(td) >= 1 /\ c = td[1] /\ td2 \in Seq(Calls) /\ Len(td2) = Len(td) - 1
      /\ \A i \in 1 .. Len(td2) : td2[i] = td[i + 1]
  <2>1. td \in Seq(Calls) /\ td # << >>
    BY <1>1
  <2>2. Len(td) >= 1
    BY <2>1, EmptySeq, LenProperties
  <2>. QED
    BY <2>1, <2>2, HeadTailProperties
<1>3. c = script[k + 1] /\ k + 1 \in 1 .. n
  <2>1. 1 \in 1 .. Len(td)
    BY <1>1, <1>2
  <2>2. td[1] = script[k + 1]
    BY <2>1 DEF Written
  <2>. QED
    BY <1>1, <1>2, <2>2
<1>4. c \in GoodCall
  BY <1>3, ScriptCalls
<1>5. p \in Seq(Part) /\ \A start \in Nat : start % 8 = 0 => Past("aligned", start, p) % 8 = 0
  BY <1>4, GoodLayout
<1>6. mk \in Seq(Nat) /\ x \in Nat /\ x <= MemoryBits /\ MemoryBits \in Nat
  <2>1. mk \in Seq(Nat) /\ Len(mk) \in 1 .. Len(mk)
    BY <1>1 DEF Tidy
  <2>2. x \in Nat
    BY <2>1, ElementOfSeq DEF Top
  <2>. QED
    BY <2>1, <2>2, MemoryOctets DEF Tidy
<1>7. PICK f : EndsAre(f, script) /\ x <= f[k]
  BY DEF Written
<1>. HIDE DEF x, p, c, k, n
<1>8. e = Past(v, x, p)
  BY DEF Past
<1>9. b \in Seq(PieceBit)
  BY <1>5, <1>6, PieceBits
<1>. HIDE DEF b, e
<1>10. e \in Nat /\ x <= e
  BY <1>5, <1>6, <1>8, PastIsNat
<1>11. k \in 0 .. n /\ k + 1 \in 0 .. n /\ (k + 1) - 1 = k
  BY <1>1, <1>3
<1>12. f[k] \in Nat /\ f[k + 1] \in Nat /\ f[k + 1] <= MemoryBits
  BY <1>7, <1>11, EndsInMemory DEF n
<1>13. e <= f[k + 1]
  <2>1. refusal(script[k + 1]) = "ok"
    BY <1>3 DEF c
  <2>2. f[k + 1] = Past("aligned", f[k], Layout(script[k + 1]))
    BY <1>3, <1>7, <1>11, <2>1 DEF EndsAre, n
  <2>3. Past(v, x, p) <= Past("aligned", f[k], p)
    BY <1>5, <1>6, <1>7, <1>12, PastMonotone
  <2>. QED
    BY <1>3, <1>8, <2>2, <2>3 DEF p, c
<1>14. e <= MemoryBits
  BY <1>6, <1>10, <1>12, <1>13
<1>15. e = x + Len(b)
  BY DEF e
<1>16. /\ MemoryOK(o) /\ Holds(o, x, b)
       /\ \A i \in 1 .. MemoryBits : (i <= x \/ i > e) => o[i] = m[i]
  BY <1>6, <1>9, <1>14, <1>15, OverwriteHolds
<1>. HIDE DEF o
<1>17. /\ mk2 \in Seq(Nat) /\ Len(mk2) = k + 2 /\ mk2[k + 2] = e
       /\ \A i \in 1 .. k + 1 : mk2[i] = mk[i]
  <2>1. mk2 \in Seq(Nat) /\ Len(mk2) = Len(mk) + 1 /\ mk2[Len(mk) + 1] = e
        /\ \A i \in 1 .. Len(mk) : mk2[i] = mk[i]
    BY <1>6, <1>10, AppendProperties
  <2>. QED
    BY <1>1, <2>1, SMTT(30)
<1>18. /\ sn2 \in Seq(GoodCall) /\ Len(sn2) = k + 1 /\ sn2[k + 1] = c
       /\ \A i \in 1 .. k : sn2[i] = sn[i]
  BY <1>1, <1>4, AppendProperties DEF k
<1>. HIDE DEF mk2, sn2, td2
<1>19. Top(mk2) = e /\ Top(mk) = x /\ x = mk[k + 1]
  BY <1>1, <1>17 DEF Top, x
<1>20. Tidy(v, mk2)
  <2>1. \A i \in 1 .. k + 1 : mk[i] \in Nat /\ mk[i] <= x
    BY <1>1, <1>6, <1>19, ElementOfSeq DEF Tidy
  <2>2. ASSUME NEW i \in 1 .. k + 2 PROVE mk2[i] <= e
    <3>1. CASE i \in 1 .. k + 1
      <4>1. mk2[i] = mk[i] /\ mk[i] \in Nat /\ mk[i] <= x
        BY <1>17, <2>1, <3>1
      <4>. QED
        BY <1>6, <1>10, <4>1
    <3>2. CASE i = k + 2
      BY <1>10, <1>17, <3>2
    <3>. QED
      BY <1>1, <3>1, <3>2
  <2>3. mk2[1] = 0
    <3>1. 1 \in 1 .. k + 1
      BY <1>1
    <3>. QED
      BY <1>17, <3>1 DEF Tidy
  <2>4. ASSUME v = "aligned", NEW i \in 1 .. k + 2 PROVE mk2[i] % 8 = 0
    <3>1. \A j \in 1 .. k + 1 : mk[j] % 8 = 0
      BY <1>1, <2>4 DEF Tidy
    <3>2. CASE i \in 1 .. k + 1
      BY <1>17, <3>1, <3>2
    <3>3. CASE i = k + 2
      <4>1. k + 1 \in 1 .. k + 1
        BY <1>1
      <4>2. x % 8 = 0
        BY <1>19, <3>1, <4>1
      <4>3. e % 8 = 0
        BY <1>5, <1>6, <1>8, <2>4, <4>2
      <4>. QED
        BY <1>17, <3>3, <4>3
    <3>. QED
      BY <1>1, <3>2, <3>3
  <2>5. Len(mk2) >= 1
    BY <1>1, <1>17
  <2>. QED
    BY <1>14, <1>17, <1>19, <2>2, <2>3, <2>4, <2>5 DEF Tidy
<1>21. Written(script, o, v, mk2, td2, sn2)
  <2>1. \A i \in 1 .. Len(td2) : td2[i] = script[Len(sn2) + i]
    <3>. SUFFICES ASSUME NEW i \in 1 .. Len(td2) PROVE td2[i] = script[Len(sn2) + i]
      OBVIOUS
    <3>1. td2[i] = td[i + 1] /\ i + 1 \in 1 .. Len(td)
      BY <1>1, <1>2 DEF td2
    <3>2. td[i + 1] = script[k + (i + 1)]
      BY <3>1 DEF Written, k
    <3>3. k + (i + 1) = Len(sn2) + i
      BY <1>1, <1>18
    <3>. QED
      BY <3>1, <3>2, <3>3
  <2>2. ASSUME NEW i \in 1 .. Len(sn2)
        PROVE  Lies(o, v, mk2[i], Layout(sn2[i]), mk2[i + 1])
    <3>1. CASE i \in 1 .. k
      <4>1. i \in 1 .. k + 1 /\ i + 1 \in 1 .. k + 1
        BY <1>1, <3>1
      <4>2. mk2[i] = mk[i] /\ mk2[i + 1] = mk[i + 1] /\ sn2[i] = sn[i]
        BY <1>17, <1>18, <3>1, <4>1
      <4>3. Lies(m, v, mk[i], Layout(sn[i]), mk[i + 1])
        BY <3>1 DEF Written, k
      <4>4. mk[i] \in Nat /\ mk[i + 1] <= x
        BY <1>1, <1>6, <1>19, <4>1, ElementOfSeq DEF Tidy
      <4>5. Layout(sn[i]) \in Seq(Part)
        <5>1. sn[i] \in GoodCall
          BY <1>1, <3>1, ElementOfSeq DEF k
        <5>. QED
          BY <5>1, GoodLayout
      <4>6. \A j \in 1 .. MemoryBits : j <= x => o[j] = m[j]
        BY <1>16
      <4>7. Lies(o, v, mk[i], Layout(sn[i]), mk[i + 1])
        BY <1>6, <4>3, <4>4, <4>5, <4>6, LiesKept
      <4>. QED
        BY <4>2, <4>7
    <3>2. CASE i = k + 1
      <4>1. mk2[k + 1] = x /\ mk2[k + 1 + 1] = e
        BY <1>1, <1>17, <1>19
      <4>2. Lies(o, v, x, p, e)
        BY <1>8, <1>16 DEF Lies, b
      <4>. QED
        BY <1>18, <3>2, <4>1, <4>2 DEF p, c
    <3>. QED
      BY <1>1, <1>18, <3>1, <3>2
  <2>3. Top(mk2) <= f[Len(sn2)]
    BY <1>13, <1>18, <1>19
  <2>4. Len(script) = Len(sn2) + Len(td2) /\ Len(mk2) = Len(sn2) + 1
    BY <1>1, <1>2, <1>17, <1>18 DEF n, td2
  <2>5. td2 \in Seq(Calls)
    BY <1>2 DEF td2
  <2>. QED
    BY <1>7, <1>18, <2>1, <2>2, <2>3, <2>4, <2>5 DEF Written
<1>22. \A i \in 1 .. MemoryBits : i > e => o[i] = m[i]
  BY <1>16
<1>. QED
  BY <1>4, <1>6, <1>10, <1>16, <1>19, <1>20, <1>21, <1>22 DEF x, p, c, b, o, e, mk2, sn2, td2

-----------------------------------------------------------------------------
(* The batch of the reader, and the padding.                               *)

Slots(p) == (\E S : p \in Seq(S)) /\ \A i \in 1 .. Len(p) : p[i].size \in 1 .. WordOctets

(* A slot of one octet or more, and no more than a word has.               *)
LEMMA SlotsAppend ==
  ASSUME NEW p, Slots(p), NEW data, Len(data) \in 1 .. WordOctets
  PROVE  LET q == Append(p, DecodeSlot(data))
         IN  Slots(q) /\ Len(q) = Len(p) + 1 /\ q[Len(q)] = DecodeSlot(data) /\ Len(p) \in Nat
<1>. DEFINE d == DecodeSlot(data)
            q == Append(p, d)
<1>1. d.size \in 1 .. WordOctets
  BY DEF DecodeSlot
<1>. HIDE DEF d
<1>2. PICK S : p \in Seq(S)
  BY DEF Slots
<1>. DEFINE T == S \cup {d}
<1>3. p \in Seq(T) /\ d \in T /\ Len(p) \in Nat
  BY <1>2
<1>. HIDE DEF T
<1>4. q \in Seq(T) /\ Len(q) = Len(p) + 1 /\ q[Len(p) + 1] = d /\ \A i \in 1 .. Len(p) : q[i] = p[i]
  BY <1>3, AppendProperties
<1>. HIDE DEF q
<1>5. ASSUME NEW i \in 1 .. Len(q) PROVE q[i].size \in 1 .. WordOctets
  <2>1. CASE i \in 1 .. Len(p)
    BY <1>4, <2>1 DEF Slots
  <2>2. CASE i = Len(p) + 1
    BY <1>1, <1>4, <2>2
  <2>. QED
    BY <1>3, <1>4, <2>1, <2>2
<1>. QED
  BY <1>3, <1>4, <1>5 DEF Slots, q, d

(* None is refused, so that draining the batch gives no error.             *)
LEMMA SlotsDecode ==
  ASSUME NEW p, Slots(p)
  PROVE  /\ \A i \in 1 .. Len(p) :
              batch_decode_integers(p)[i] =
                [err |-> "ok",
                 value |-> IF Negative(p[i].value_buf)
                             THEN Unsigned(p[i].value_buf) - Weight[p[i].size]
                             ELSE Unsigned(p[i].value_buf)]
         /\ LET r == batch_decode_integers(p)
            IN  first_error([i \in DOMAIN r |-> r[i].err]) = "ok"
<1>1. DOMAIN p = 1 .. Len(p) /\ WordOctets \in 1 .. 8
  BY WordAssumption DEF Slots
<1>. DEFINE Slot(i) == LET n   == p[i].size
                           raw == Unsigned(p[i].value_buf)
                       IN  CASE n = 0 -> [err |-> "invalid_length", value |-> 0]
                             [] n > WordOctets -> [err |-> "buffer_overflow", value |-> 0]
                             [] n \in 1 .. WordOctets ->
                                  [err |-> "ok",
                                   value |-> IF Negative(p[i].value_buf)
                                               THEN raw - Weight[n] ELSE raw]
            r == batch_decode_integers(p)
            e == [i \in DOMAIN r |-> r[i].err]
<1>2. r = [i \in 1 .. Len(p) |-> Slot(i)]
  BY <1>1 DEF batch_decode_integers
<1>3. ASSUME NEW i \in 1 .. Len(p)
      PROVE  Slot(i) = [err |-> "ok",
                        value |-> IF Negative(p[i].value_buf)
                                    THEN Unsigned(p[i].value_buf) - Weight[p[i].size]
                                    ELSE Unsigned(p[i].value_buf)]
  <2>1. p[i].size \in 1 .. WordOctets
    BY DEF Slots
  <2>. DEFINE n == p[i].size
              w == [err |-> "ok", value |-> IF Negative(p[i].value_buf)
                                              THEN Unsigned(p[i].value_buf) - Weight[n]
                                              ELSE Unsigned(p[i].value_buf)]
              a == [err |-> "invalid_length", value |-> 0]
              b == [err |-> "buffer_overflow", value |-> 0]
  <2>2. Slot(i) = CASE n = 0 -> a [] n > WordOctets -> b [] n \in 1 .. WordOctets -> w
    OBVIOUS
  <2>. HIDE DEF Slot, n, w, a, b
  <2>3. n \in 1 .. WordOctets
    BY <2>1 DEF n
  <2>4. n # 0 /\ ~ (n > WordOctets)
    BY <1>1, <2>3
  <2>5. Slot(i) = w
    BY <2>2, <2>3, <2>4
  <2>. QED
    BY <2>5 DEF w, n
<1>. HIDE DEF Slot, r
<1>4. DOMAIN r = 1 .. Len(p) /\ \A i \in 1 .. Len(p) : r[i] = Slot(i)
  BY <1>2
<1>5. \A i \in 1 .. Len(p) : r[i].err = "ok"
  BY <1>3, <1>4
<1>6. first_error(e) = "ok"
  <2>1. DOMAIN e = 1 .. Len(p) /\ \A i \in 1 .. Len(p) : e[i] = "ok"
    BY <1>4, <1>5
  <2>. HIDE DEF e
  <2>2. {i \in DOMAIN e : e[i] # "ok"} = {}
    BY <2>1
  <2>. QED
    BY <2>2 DEF first_error
<1>. QED
  BY <1>3, <1>4, <1>6 DEF r

(* The look at the padding stays in the memory; zeros are accepted.        *)
LEMMA SoundFlush ==
  ASSUME NEW s, IsView(s), NEW x \in 0 .. MemoryBits
  PROVE  /\ Sound(flush_padding(s, x))
         /\ (\A i \in 1 .. MemoryBits : i > x => s.bits[i] = 0) => flush_padding(s, x).err = "ok"
<1>. DEFINE z == s.size
            ones == ones_after(s, x)
            stop == x + 8 * ((Min(ones) - x - 1) \div 8 + 1)
            r == flush_padding(s, x)
            a == Got("ok", << >>, x)
            b == Got("ok", << >>, z)
            c == Got("parse_error", << >>, Min({stop, z}))
<1>1. z \in 0 .. MemoryBits /\ MemoryBits \in Nat
  BY MemoryOctets DEF IsView
<1>2. ones = {i \in x + 1 .. z : s.bits[i] = 1}
  BY DEF ones_after
<1>3. r = CASE x >= z -> a [] x < z /\ ones = {} -> b [] x < z /\ ones # {} -> c
  BY DEF flush_padding
<1>4. "ok" \in ReadError /\ "parse_error" \in ReadError
  BY DEF ReadError
<1>5. Sound(a) /\ Sound(b) /\ a.err = "ok" /\ b.err = "ok"
  BY <1>1, <1>4, SoundGot, GotFields
<1>6. ones # {} => Sound(c)
  <2>. SUFFICES ASSUME ones # {} PROVE Sound(c)
    OBVIOUS
  <2>. DEFINE l == Min(ones)
  <2>1. ones \in SUBSET Nat
    BY <1>1, <1>2
  <2>2. l \in ones
    <3>. HIDE DEF ones
    <3>. QED
      BY <2>1, MinIsLeast
  <2>3. l \in x + 1 .. z
    BY <1>2, <2>2
  <2>4. x \in Nat /\ z \in Nat
    BY <1>1
  <2>. HIDE DEF l, z
  <2>5. stop \in Nat
    BY <2>3, <2>4 DEF l
  <2>. HIDE DEF stop
  <2>6. Min({stop, z}) \in {stop, z} /\ Min({stop, z}) <= z
    <3>. DEFINE P == {stop, z}
    <3>1. P \in SUBSET Nat /\ P # {} /\ z \in P
      BY <2>4, <2>5
    <3>. HIDE DEF P
    <3>2. Min(P) \in P /\ Min(P) <= z
      BY <3>1, MinIsLeast
    <3>. QED
      BY <3>2 DEF P
  <2>7. Min({stop, z}) \in 0 .. MemoryBits
    BY <1>1, <2>4, <2>5, <2>6 DEF z
  <2>. QED
    BY <1>4, <2>7, SoundGot
<1>7. (\A i \in 1 .. MemoryBits : i > x => s.bits[i] = 0) => ones = {}
  <2>1. ASSUME \A i \in 1 .. MemoryBits : i > x => s.bits[i] = 0, NEW j \in x + 1 .. z
        PROVE  s.bits[j] # 1
    <3>1. j \in 1 .. MemoryBits /\ j > x
      BY <1>1
    <3>. QED
      BY <2>1, <3>1
  <2>. QED
    BY <1>2, <2>1
<1>8. x \in Int /\ z \in Int
  BY <1>1
<1>. HIDE DEF r, a, b, c, ones, z, stop
<1>9. CASE x >= z
  BY <1>3, <1>5, <1>8, <1>9 DEF r
<1>10. CASE x < z /\ ones = {}
  BY <1>3, <1>5, <1>8, <1>10 DEF r
<1>11. CASE x < z /\ ones # {}
  BY <1>3, <1>6, <1>7, <1>8, <1>11 DEF r
<1>12. x >= z \/ x < z
  BY <1>8
<1>. QED
  BY <1>9, <1>10, <1>11, <1>12

-----------------------------------------------------------------------------
(* The invariant of the two sides.                                         *)

WriterOK ==
  /\ variant \in Variant /\ level \in Levels /\ cleared \in BOOLEAN /\ sealed \in BOOLEAN
  /\ MemoryOK(memory) /\ Tidy(variant, marks)
  /\ at = IF sealed THEN align_to_octet(Top(marks)) ELSE Top(marks)
  /\ sealed => todo = << >> /\ sent # << >>
  /\ \/ todo = << >> /\ sent = << >>
     \/ \E script \in Scripts : Written(script, memory, variant, marks, todo, sent)
  /\ cleared => \A i \in 1 .. MemoryBits : i > Top(marks) => memory[i] = 0

ReadCode == {"ok", "buffer_underflow", "parse_error", "value_out_of_range",
             "invalid_length", "buffer_overflow"}

ReaderOK ==
  /\ arrived \in Nat /\ 8 * arrived <= at /\ tried \in 0 .. arrived
  /\ position \in 0 .. MemoryBits /\ saved \in 0 .. MemoryBits
  /\ Slots(pending) /\ Len(pending) < batch_size
  /\ got.err \in ReadCode /\ expected \in Seq(GoodCall) /\ finished \in BOOLEAN

PerInv == WriterOK /\ ReaderOK

(* The batch of any level has room for one slot, and for four at most.     *)
LEMMA BatchWidth ==
  ASSUME level \in Levels
  PROVE  batch_size \in 1 .. 4
<1>1. level \in SimdLevel
  BY LinkAssumption
<1>2. CASE level = "avx2"
  BY <1>2 DEF batch_size, batch_width
<1>3. CASE level \in {"sse42", "neon"}
  BY <1>3 DEF batch_size, batch_width
<1>4. CASE level = "scalar"
  BY <1>4 DEF batch_size, batch_width
<1>. QED
  BY <1>1, <1>2, <1>3, <1>4 DEF SimdLevel

(* The last mark, and the encoder, are in the memory.                      *)
LEMMA TopInMemory ==
  ASSUME WriterOK
  PROVE  /\ Top(marks) \in Nat /\ Top(marks) <= MemoryBits /\ MemoryBits \in Nat
         /\ at \in Nat /\ at <= MemoryBits /\ Top(marks) <= at
         /\ Len(marks) \in Nat /\ Len(sent) \in Nat /\ Len(marks) >= 1 + Len(sent)
<1>1. Tidy(variant, marks) /\ MemoryBits \in Nat /\ MemoryBits % 8 = 0
  BY MemoryOctets DEF WriterOK
<1>2. marks \in Seq(Nat) /\ Len(marks) \in 1 .. Len(marks) /\ Len(marks) \in Nat
  BY <1>1, LenProperties DEF Tidy
<1>3. Top(marks) \in Nat
  BY <1>2, ElementOfSeq DEF Top
<1>4. Top(marks) <= MemoryBits
  BY <1>1 DEF Tidy
<1>. DEFINE x == Top(marks)
<1>5. at \in Nat /\ at <= MemoryBits /\ x <= at
  <2>1. at = IF sealed THEN align_to_octet(x) ELSE x
    BY DEF WriterOK
  <2>. HIDE DEF x
  <2>2. x \in Nat /\ x <= MemoryBits
    BY <1>3, <1>4 DEF x
  <2>3. align_to_octet(x) \in Nat /\ x <= align_to_octet(x) /\ align_to_octet(x) <= MemoryBits
    BY <1>1, <2>2, AlignToOctet
  <2>. QED
    BY <2>1, <2>2, <2>3
<1>6. Len(sent) \in Nat /\ Len(marks) >= 1 + Len(sent)
  <2>1. CASE sent = << >>
    <3>1. Len(sent) = 0
      BY <2>1
    <3>. QED
      BY <1>2, <3>1
  <2>2. CASE \E script \in Scripts : Written(script, memory, variant, marks, todo, sent)
    <3>1. sent \in Seq(GoodCall) /\ Len(marks) = Len(sent) + 1
      BY <2>2 DEF Written
    <3>. QED
      BY <1>2, <3>1, LenProperties
  <2>. QED
    BY <2>1, <2>2 DEF WriterOK
<1>. QED
  BY <1>1, <1>2, <1>3, <1>4, <1>5, <1>6

(* What the runs check.                                                    *)
LEMMA PerInvMeans ==
  ASSUME PerInv
  PROVE  TypeOK /\ BatchInBounds
<1>. USE DEF PerInv
<1>1. BatchInBounds
  BY DEF ReaderOK, BatchInBounds
<1>2. memory \in [1 .. MemoryBits -> {0, 1}]
  BY DEF WriterOK, MemoryOK, Bit
<1>3. at \in 0 .. MemoryBits /\ Len(marks) >= 1 + Len(sent)
  BY TopInMemory
<1>4. arrived \in 0 .. at \div 8
  <2>1. arrived \in Nat /\ 8 * arrived <= at /\ at \in Nat
    BY TopInMemory DEF ReaderOK
  <2>2. arrived <= at \div 8
    BY <2>1
  <2>. QED
    BY <2>1, <2>2
<1>5. Len(pending) \in 0 .. kMaxBatchSize - 1 /\ DOMAIN pending = 1 .. Len(pending)
  <2>1. PICK S : pending \in Seq(S)
    BY DEF ReaderOK, Slots
  <2>2. Len(pending) \in Nat /\ DOMAIN pending = 1 .. Len(pending)
    BY <2>1
  <2>3. batch_size \in 1 .. 4
    BY BatchWidth DEF WriterOK
  <2>. QED
    BY <2>2, <2>3 DEF ReaderOK, kMaxBatchSize
<1>6. \A i \in DOMAIN pending : pending[i].size \in 1 .. WordOctets
  BY <1>5 DEF ReaderOK, Slots
<1>. QED
  BY <1>1, <1>2, <1>3, <1>4, <1>5, <1>6 DEF TypeOK, WriterOK, ReaderOK, ReadCode

(* What has arrived is a view of the memory.                               *)
LEMMA ArrivedView ==
  ASSUME PerInv
  PROVE  IsView(view) /\ view.bits = memory /\ view.size = 8 * arrived
<1>1. view.bits = memory /\ view.size = 8 * arrived
  BY DEF view, View
<1>2. 8 * arrived \in 0 .. MemoryBits
  BY TopInMemory DEF PerInv, ReaderOK
<1>. QED
  BY <1>1, <1>2 DEF IsView, PerInv, WriterOK, MemoryOK

(* The writer is not touched by the reader.                                *)
LEMMA WriterKept ==
  ASSUME WriterOK, UNCHANGED <<machine, writer>>
  PROVE  WriterOK' /\ at' = at /\ batch_size' = batch_size
<1>1. /\ variant' = variant /\ level' = level /\ memory' = memory /\ cleared' = cleared
      /\ at' = at /\ marks' = marks /\ todo' = todo /\ sent' = sent /\ sealed' = sealed
  BY DEF machine, writer
<1>. QED
  BY <1>1 DEF WriterOK, batch_size

(* The initial states satisfy the invariant.                               *)
LEMMA PerInvInit ==
  ASSUME Init
  PROVE  PerInv
<1>. USE DEF Init
<1>1. MemoryOK(memory) /\ \A i \in 1 .. MemoryBits : memory[i] = 0
  <2>1. 0 \in Bit
    BY DEF Bit
  <2>. QED
    BY <2>1 DEF MemoryOK
<1>2. todo \in Scripts /\ marks = <<0>> /\ sent = << >> /\ at = 0
  OBVIOUS
<1>3. Tidy(variant, marks) /\ Written(todo, memory, variant, marks, todo, sent) /\ Top(marks) = 0
  BY <1>2, WrittenStart DEF Top
<1>4. WriterOK
  BY <1>1, <1>2, <1>3 DEF WriterOK
<1>5. ReaderOK
  <2>1. MemoryBits \in Nat
    BY MemoryOctets
  <2>2. << >> \in Seq(GoodCall) /\ Slots(<< >>) /\ Len(<< >>) = 0
    BY EmptySeq DEF Slots
  <2>3. batch_size \in 1 .. 4
    BY <1>4, BatchWidth DEF WriterOK
  <2>4. got.err \in ReadCode
    BY DEF NoAnswer, ReadCode
  <2>5. Len(pending) < batch_size /\ Slots(pending) /\ expected \in Seq(GoodCall)
    BY <2>2, <2>3
  <2>6. /\ arrived = 0 /\ tried = 0 /\ position = 0 /\ saved = 0 /\ finished = FALSE
    OBVIOUS
  <2>7. arrived \in Nat /\ 8 * arrived <= at /\ tried \in 0 .. arrived
    BY <1>2, <2>6
  <2>8. position \in 0 .. MemoryBits /\ saved \in 0 .. MemoryBits
    BY <2>1, <2>6
  <2>9. finished \in BOOLEAN
    BY <2>6
  <2>. QED
    BY <2>4, <2>5, <2>7, <2>8, <2>9 DEF ReaderOK
<1>. QED
  BY <1>4, <1>5 DEF PerInv

(* Each action of the writer keeps it.                                     *)
LEMMA PerInvWriteNext ==
  ASSUME PerInv, WriteNext
  PROVE  PerInv'
<1>. USE DEF PerInv
<1>1. todo # << >> /\ refusal(Head(todo)) = "ok" /\ ~ sealed
  BY DEF WriteNext, WriterOK
<1>2. PICK script \in Scripts : Written(script, memory, variant, marks, todo, sent)
  BY <1>1 DEF WriterOK
<1>. DEFINE x == Top(marks)
            b == Piece(variant, x, Layout(Head(todo)))
            o == Overwrite(memory, x, b)
            e == x + Len(b)
            mk == Append(marks, e)
<1>3. /\ Head(todo) \in GoodCall
      /\ MemoryOK(o) /\ Tidy(variant, mk)
      /\ Written(script, o, variant, mk, Tail(todo), Append(sent, Head(todo)))
      /\ x \in Nat /\ e \in Nat /\ x <= e /\ Top(mk) = e
      /\ \A i \in 1 .. MemoryBits : i > e => o[i] = memory[i]
  BY <1>1, <1>2, WrittenStep DEF WriterOK
<1>4. at = x
  BY <1>1 DEF WriterOK
<1>5. /\ memory' = o /\ at' = e /\ marks' = mk
      /\ todo' = Tail(todo) /\ sent' = Append(sent, Head(todo))
      /\ variant' = variant /\ level' = level /\ cleared' = cleared /\ sealed' = sealed
      /\ arrived' = arrived /\ UNCHANGED reader
  BY <1>4 DEF WriteNext, Encode, machine
<1>. HIDE DEF x, b, o, e, mk
<1>6. WriterOK'
  <2>1. Written(script, memory', variant', marks', todo', sent')
    BY <1>3, <1>5
  <2>2. MemoryOK(memory') /\ Tidy(variant', marks') /\ at' = Top(marks')
    BY <1>3, <1>5
  <2>3. ASSUME cleared', NEW i \in 1 .. MemoryBits, i > Top(marks') PROVE memory'[i] = 0
    <3>1. i > e /\ e \in Nat /\ x \in Nat /\ x <= e
      BY <1>3, <1>5, <2>3
    <3>2. i > x
      BY <3>1
    <3>3. memory[i] = 0
      BY <1>5, <2>3, <3>2 DEF WriterOK, x
    <3>. QED
      BY <1>3, <1>5, <3>1, <3>3
  <2>4. ~ sealed' /\ variant' \in Variant /\ level' \in Levels /\ cleared' \in BOOLEAN /\ sealed' \in BOOLEAN
    BY <1>1, <1>5 DEF WriterOK
  <2>. QED
    BY <2>1, <2>2, <2>3, <2>4 DEF WriterOK
<1>7. ReaderOK'
  <2>1. 8 * arrived <= at /\ arrived \in Nat /\ at = x /\ at' = e
    BY <1>4, <1>5 DEF ReaderOK
  <2>2. 8 * arrived' <= at'
    BY <1>3, <1>5, <2>1
  <2>3. batch_size' = batch_size
    BY <1>5 DEF batch_size
  <2>. QED
    BY <1>5, <2>2, <2>3 DEF ReaderOK, reader
<1>. QED
  BY <1>6, <1>7

(* A refused message is dropped whole; what it wrote stays in the memory.  *)
LEMMA PerInvWriteRefused ==
  ASSUME PerInv, WriteRefused
  PROVE  PerInv'
<1>. USE DEF PerInv
<1>1. /\ todo # << >> /\ todo' = << >> /\ sent' = << >>
      /\ memory' = memory /\ at' = at /\ marks' = marks
      /\ variant' = variant /\ level' = level /\ cleared' = cleared /\ sealed' = sealed
      /\ arrived' = arrived /\ UNCHANGED reader
  BY DEF WriteRefused, machine
<1>2. WriterOK'
  BY <1>1 DEF WriterOK
<1>3. ReaderOK'
  BY <1>1 DEF ReaderOK, reader, batch_size
<1>. QED
  BY <1>2, <1>3

(* Sealing moves the offset to the end of the octet, inside the memory.    *)
LEMMA PerInvflush ==
  ASSUME PerInv, flush
  PROVE  PerInv'
<1>. USE DEF PerInv
<1>1. /\ todo = << >> /\ sent # << >> /\ ~ sealed
      /\ at' = align_to_octet(at) /\ sealed' = TRUE /\ expected' = sent
      /\ memory' = memory /\ marks' = marks /\ todo' = todo /\ sent' = sent
      /\ variant' = variant /\ level' = level /\ cleared' = cleared
      /\ arrived' = arrived /\ position' = position /\ saved' = saved
      /\ pending' = pending /\ got' = got /\ asked' = asked /\ tried' = tried
      /\ finished' = finished
  BY DEF flush, machine
<1>2. at = Top(marks) /\ at \in Nat
  BY <1>1, TopInMemory DEF WriterOK
<1>3. sent \in Seq(GoodCall)
  BY <1>1 DEF WriterOK, Written
<1>4. WriterOK'
  BY <1>1, <1>2 DEF WriterOK
<1>5. ReaderOK'
  <2>1. at <= at' /\ at' \in Nat
    BY <1>1, <1>2, AlignToOctet
  <2>2. 8 * arrived' <= at'
    BY <1>1, <1>2, <2>1 DEF ReaderOK
  <2>3. batch_size' = batch_size
    BY <1>1 DEF batch_size
  <2>. QED
    BY <1>1, <1>3, <2>2, <2>3 DEF ReaderOK
<1>. QED
  BY <1>4, <1>5

(* A new message begins at the first bit of the same memory.               *)
LEMMA PerInvNextMessage ==
  ASSUME PerInv, NextMessage
  PROVE  PerInv'
<1>. USE DEF PerInv
<1>1. PICK zero \in BOOLEAN, script \in Scripts :
        /\ zero \/ cleared
        /\ StartMessage(zero, script)
        /\ memory' = IF zero THEN [i \in 1 .. MemoryBits |-> 0] ELSE memory
  BY DEF NextMessage
<1>2. variant' = variant /\ level' = level /\ pending' = pending
  BY DEF NextMessage, machine
<1>3. /\ cleared' = zero /\ at' = 0 /\ marks' = <<0>> /\ todo' = script /\ sent' = << >>
      /\ sealed' = FALSE /\ arrived' = 0 /\ position' = 0 /\ saved' = 0
      /\ got' = NoAnswer /\ asked' = NoCall /\ tried' = 0 /\ expected' = << >> /\ finished' = FALSE
  BY <1>1 DEF StartMessage
<1>4. MemoryOK(memory') /\ (zero => \A i \in 1 .. MemoryBits : memory'[i] = 0)
  <2>1. 0 \in Bit
    BY DEF Bit
  <2>2. CASE zero
    BY <1>1, <2>1, <2>2 DEF MemoryOK
  <2>3. CASE ~ zero
    BY <1>1, <2>3 DEF WriterOK
  <2>. QED
    BY <2>2, <2>3
<1>5. /\ Tidy(variant', marks') /\ Top(marks') = 0
      /\ Written(script, memory', variant', marks', todo', sent')
  BY <1>3, WrittenStart DEF Top
<1>6. WriterOK'
  <2>1. variant' \in Variant /\ level' \in Levels /\ cleared' \in BOOLEAN /\ sealed' = FALSE
    BY <1>1, <1>2, <1>3 DEF WriterOK
  <2>2. at' = Top(marks')
    BY <1>3, <1>5
  <2>3. cleared' => \A i \in 1 .. MemoryBits : i > Top(marks') => memory'[i] = 0
    BY <1>3, <1>4
  <2>. QED
    BY <1>4, <1>5, <2>1, <2>2, <2>3 DEF WriterOK
<1>7. ReaderOK'
  <2>1. MemoryBits \in Nat
    BY MemoryOctets
  <2>2. expected' \in Seq(GoodCall)
    BY <1>3, EmptySeq
  <2>3. got'.err \in ReadCode
    BY <1>3 DEF NoAnswer, ReadCode
  <2>4. Slots(pending') /\ Len(pending') < batch_size'
    BY <1>2 DEF ReaderOK, batch_size
  <2>5. arrived' \in Nat /\ 8 * arrived' <= at' /\ tried' \in 0 .. arrived'
    BY <1>3
  <2>6. position' \in 0 .. MemoryBits /\ saved' \in 0 .. MemoryBits
    BY <1>3, <2>1
  <2>7. finished' \in BOOLEAN
    BY <1>3
  <2>. QED
    BY <2>2, <2>3, <2>4, <2>5, <2>6, <2>7 DEF ReaderOK
<1>. QED
  BY <1>6, <1>7

(* So does each action of the reader.                                      *)
LEMMA PerInvArrive ==
  ASSUME PerInv, Arrive
  PROVE  PerInv'
<1>. USE DEF PerInv
<1>1. 8 * arrived < at /\ arrived' \in {arrived + 1, at \div 8} /\ UNCHANGED <<machine, writer, reader>>
  BY DEF Arrive
<1>2. WriterOK' /\ at' = at /\ batch_size' = batch_size
  BY <1>1, WriterKept
<1>3. sealed /\ at % 8 = 0 /\ at \in Nat
  <2>1. sealed /\ at = align_to_octet(Top(marks))
    BY DEF Arrive, WriterOK
  <2>2. Top(marks) \in Nat /\ at \in Nat
    BY TopInMemory
  <2>. QED
    BY <2>1, <2>2, AlignToOctet
<1>4. arrived' \in Nat /\ 8 * arrived' <= at /\ arrived <= arrived'
  <2>1. arrived \in Nat
    BY DEF ReaderOK
  <2>2. CASE arrived' = arrived + 1
    BY <1>1, <1>3, <2>1, <2>2
  <2>3. CASE arrived' = at \div 8
    BY <1>1, <1>3, <2>1, <2>3
  <2>. QED
    BY <1>1, <2>2, <2>3
<1>5. tried' \in 0 .. arrived'
  BY <1>1, <1>4 DEF ReaderOK, reader
<1>6. ReaderOK'
  BY <1>1, <1>2, <1>4, <1>5 DEF ReaderOK, reader
<1>. QED
  BY <1>2, <1>6

(* What an answer of decode_integer leaves in the batch.                   *)
LEMMA AnsweredInteger ==
  ASSUME PerInv, NEW r, Sound(r), decode_integer(r),
         r.err = "ok" => /\ Len(r.data) \in 0 .. WordOctets
                         /\ r.data # << >> => Len(r.data) >= 1
  PROVE  Slots(pending') /\ Len(pending') < batch_size /\ got'.err \in ReadCode
<1>. USE DEF PerInv
<1>. DEFINE slots == Append(pending, DecodeSlot(r.data))
            last == batch_decode_integers(slots)[Len(slots)]
<1>0. Slots(pending) /\ Len(pending) < batch_size /\ batch_size \in 1 .. 4
  BY BatchWidth DEF ReaderOK, WriterOK
<1>1. CASE r.err # "ok" \/ r.data = << >>
  <2>1. /\ got' = [err |-> r.err, data |-> IF r.err = "ok" THEN <<0>> ELSE << >>]
        /\ pending' = pending
    BY <1>1, Zenon DEF decode_integer
  <2>. QED
    BY <1>0, <2>1 DEF Sound, ReadError, ReadCode
<1>2. CASE ~ (r.err # "ok" \/ r.data = << >>)
  <2>1. Len(r.data) \in 1 .. WordOctets
    <3>. DEFINE l == Len(r.data)
    <3>1. l \in 0 .. WordOctets /\ l >= 1
      BY <1>2
    <3>. HIDE DEF l
    <3>2. l \in 1 .. WordOctets
      BY <3>1, WordAssumption
    <3>. QED
      BY <3>2 DEF l
  <2>2. Slots(slots) /\ Len(slots) = Len(pending) + 1 /\ Len(pending) \in Nat
    BY <1>0, <2>1, SlotsAppend
  <2>3. CASE batch_full(slots)
    <3>1. got' = [err |-> last.err, data |-> <<last.value>>] /\ pending' = << >>
      BY <1>2, <2>3, Zenon DEF decode_integer
    <3>2. last.err = "ok"
      <4>1. Len(slots) \in 1 .. Len(slots)
        BY <2>2
      <4>. HIDE DEF slots
      <4>2. last = [err |-> "ok",
                    value |-> IF Negative(slots[Len(slots)].value_buf)
                                THEN Unsigned(slots[Len(slots)].value_buf)
                                       - Weight[slots[Len(slots)].size]
                                ELSE Unsigned(slots[Len(slots)].value_buf)]
        BY <2>2, <4>1, SlotsDecode
      <4>. HIDE DEF last
      <4>. QED
        BY <4>2
    <3>. HIDE DEF last
    <3>3. Slots(<< >>) /\ Len(<< >>) = 0
      BY EmptySeq DEF Slots
    <3>4. Len(pending') < batch_size
      BY <1>0, <3>1, <3>3
    <3>. QED
      BY <3>1, <3>2, <3>3, <3>4 DEF ReadCode
  <2>4. CASE ~ batch_full(slots)
    <3>0. got' = [err |-> "ok", data |-> <<decode_integer_value(r.data)>>] /\ pending' = slots
      BY <1>2, <2>4, Zenon DEF decode_integer
    <3>1. got'.err = "ok" /\ pending' = slots
      BY <3>0
    <3>2. Len(slots) < batch_size
      BY <1>0, <2>2, <2>4 DEF batch_full
    <3>. QED
      BY <2>2, <3>1, <3>2 DEF ReadCode
  <2>. QED
    BY <2>3, <2>4
<1>. QED
  BY <1>1, <1>2

(* A read stays in the memory, and the batch below its size.               *)
LEMMA PerInvReadNext ==
  ASSUME PerInv, ReadNext
  PROVE  PerInv'
<1>. USE DEF PerInv
<1>1. /\ expected # << >> /\ got.err = "ok"
      /\ tried' = arrived /\ saved' = position
      /\ expected' = IF got'.err = "ok" THEN Tail(expected) ELSE expected
      /\ arrived' = arrived /\ finished' = finished /\ UNCHANGED <<machine, writer>>
  BY DEF ReadNext
<1>2. WriterOK' /\ at' = at /\ batch_size' = batch_size
  BY <1>1, WriterKept
<1>3. /\ expected \in Seq(GoodCall) /\ position \in 0 .. MemoryBits
      /\ Slots(pending) /\ Len(pending) < batch_size
  BY DEF ReaderOK
<1>4. Head(expected) \in GoodCall /\ Tail(expected) \in Seq(GoodCall)
  BY <1>1, <1>3, HeadTailProperties
<1>5. IsView(view)
  BY ArrivedView
<1>6. Slots(pending') /\ Len(pending') < batch_size /\ got'.err \in ReadCode /\ position' \in 0 .. MemoryBits
  <2>1. CASE Batched(Head(expected))
    <3>. DEFINE r == decode_integer_octets(variant, view, position)
    <3>1. decode_integer(r) /\ position' = r.at
      BY <2>1 DEF ReadNext
    <3>2. Sound(r) /\ (r.err = "ok" => /\ Len(r.data) \in 0 .. WordOctets
                                       /\ r.data # << >> => Len(r.data) >= 1)
      BY <1>3, <1>5, SoundInteger
    <3>. HIDE DEF r
    <3>3. Slots(pending') /\ Len(pending') < batch_size /\ got'.err \in ReadCode
      BY <3>1, <3>2, AnsweredInteger
    <3>. QED
      BY <3>1, <3>2, <3>3 DEF Sound
  <2>2. CASE ~ Batched(Head(expected))
    <3>. DEFINE r == Decode(Head(expected))
    <3>1. got' = [err |-> r.err, data |-> r.data] /\ position' = r.at /\ pending' = pending
      BY <2>2 DEF ReadNext
    <3>2. Sound(r)
      BY <1>3, <1>4, <1>5, <2>2, SoundDecode
    <3>. HIDE DEF r
    <3>. QED
      BY <1>3, <3>1, <3>2 DEF Sound, ReadError, ReadCode
  <2>. QED
    BY <2>1, <2>2
<1>7. ReaderOK'
  <2>1. expected' \in Seq(GoodCall)
    BY <1>1, <1>3, <1>4
  <2>2. arrived' \in Nat /\ 8 * arrived' <= at' /\ tried' \in 0 .. arrived'
    BY <1>1, <1>2 DEF ReaderOK
  <2>3. saved' \in 0 .. MemoryBits /\ finished' \in BOOLEAN
    BY <1>1, <1>3 DEF ReaderOK
  <2>4. Slots(pending') /\ Len(pending') < batch_size'
    BY <1>2, <1>6
  <2>. QED
    BY <1>6, <2>1, <2>2, <2>3, <2>4 DEF ReaderOK
<1>. QED
  BY <1>2, <1>7

(* Rewinding goes back to an offset the reader has had.                    *)
LEMMA PerInvRewind ==
  ASSUME PerInv, Rewind
  PROVE  PerInv'
<1>. USE DEF PerInv
<1>1. /\ position' = saved /\ got' = NoAnswer /\ arrived' = arrived /\ saved' = saved
      /\ pending' = pending /\ tried' = tried /\ expected' = expected /\ finished' = finished
      /\ UNCHANGED <<machine, writer>>
  BY DEF Rewind
<1>2. WriterOK' /\ at' = at /\ batch_size' = batch_size
  BY <1>1, WriterKept
<1>3. got'.err \in ReadCode
  BY <1>1 DEF NoAnswer, ReadCode
<1>. QED
  BY <1>1, <1>2, <1>3 DEF ReaderOK

(* So does the look at the padding.                                        *)
LEMMA PerInvFinish ==
  ASSUME PerInv, Finish
  PROVE  PerInv'
<1>. USE DEF PerInv
<1>. DEFINE r == IF variant = "unaligned" THEN flush_padding(view, position)
                                          ELSE Got("ok", << >>, position)
<1>1. /\ got' = [err |-> r.err, data |-> << >>] /\ position' = r.at /\ finished' = TRUE
      /\ arrived' = arrived /\ saved' = saved
      /\ pending' = pending /\ tried' = tried /\ expected' = expected
      /\ UNCHANGED <<machine, writer>>
  BY DEF Finish
<1>2. WriterOK' /\ at' = at /\ batch_size' = batch_size
  BY <1>1, WriterKept
<1>3. Sound(r)
  <2>1. IsView(view) /\ position \in 0 .. MemoryBits
    BY ArrivedView DEF ReaderOK
  <2>2. Sound(flush_padding(view, position))
    BY <2>1, SoundFlush
  <2>3. Sound(Got("ok", << >>, position))
    BY <2>1, SoundGot DEF ReadError
  <2>. QED
    BY <2>2, <2>3
<1>. HIDE DEF r
<1>4. got'.err \in ReadCode /\ position' \in 0 .. MemoryBits
  BY <1>1, <1>3 DEF Sound, ReadError, ReadCode
<1>5. finished' \in BOOLEAN
  BY <1>1
<1>. QED
  BY <1>1, <1>2, <1>4, <1>5 DEF ReaderOK

(* Draining the batch gives no error: no slot of it is empty or too large. *)
LEMMA PerInvflush_decode ==
  ASSUME PerInv, flush_decode
  PROVE  PerInv' /\ got'.err = "ok"
<1>. USE DEF PerInv
<1>1. /\ pending' = << >> /\ position' = position /\ finished' = finished
      /\ arrived' = arrived /\ saved' = saved
      /\ tried' = tried /\ expected' = expected
      /\ UNCHANGED <<machine, writer>>
  BY DEF flush_decode
<1>2. WriterOK' /\ at' = at /\ batch_size' = batch_size
  BY <1>1, WriterKept
<1>. DEFINE results == batch_decode_integers(pending)
            e == first_error([i \in DOMAIN results |-> results[i].err])
<1>3. got' = [err |-> e, data |-> << >>]
  BY DEF flush_decode
<1>4. e = "ok"
  BY SlotsDecode DEF ReaderOK
<1>. HIDE DEF e
<1>5. got'.err = "ok"
  BY <1>3, <1>4
<1>6. Slots(pending') /\ Len(pending') = 0
  BY <1>1, EmptySeq DEF Slots
<1>7. Len(pending') < batch_size'
  <2>1. batch_size \in 1 .. 4
    BY BatchWidth DEF WriterOK
  <2>. QED
    BY <1>2, <1>6, <2>1
<1>8. got'.err \in ReadCode
  BY <1>5 DEF ReadCode
<1>9. ReaderOK'
  BY <1>1, <1>2, <1>6, <1>7, <1>8 DEF ReaderOK
<1>. QED
  BY <1>2, <1>5, <1>9

(* The invariant is inductive.                                             *)
LEMMA PerInvNext ==
  ASSUME PerInv, [Next]_vars
  PROVE  PerInv'
<1>1. CASE UNCHANGED vars
  <2>1. UNCHANGED <<machine, writer>> /\ arrived' = arrived /\ UNCHANGED reader
    BY <1>1 DEF vars
  <2>2. WriterOK' /\ at' = at /\ batch_size' = batch_size
    BY <2>1, WriterKept DEF PerInv
  <2>3. ReaderOK'
    BY <2>1, <2>2 DEF PerInv, ReaderOK, reader
  <2>. QED
    BY <2>2, <2>3 DEF PerInv
<1>. QED
  BY <1>1, PerInvWriteNext, PerInvWriteRefused, PerInvflush, PerInvNextMessage, PerInvArrive,
     PerInvReadNext, PerInvRewind, PerInvFinish, PerInvflush_decode DEF Next

(* PerInv holds in every state.                                            *)
LEMMA PerInvAlways == Spec => []PerInv
<1>1. Init => PerInv
  BY PerInvInit
<1>2. PerInv /\ [Next]_vars => PerInv'
  BY PerInvNext
<1>. QED
  BY <1>1, <1>2, PTL DEF Spec

(* Type correctness (TypeOK), whatever the messages: the encoder never     *)
(* writes past a buffer that has room for the aligned form of each script, *)
(* and the decoder never reads past it, also out of step and on any bits.  *)
THEOREM PerTypeCorrect == Spec => []TypeOK
<1>1. PerInv => TypeOK
  BY PerInvMeans
<1>. QED
  BY <1>1, PerInvAlways, PTL

(* pending_ of the decoder is never found full (BatchInBounds), so that the *)
(* push of decode_integer always has a slot.                               *)
THEOREM PerBatchInBounds == Spec => []BatchInBounds
<1>1. PerInv => BatchInBounds
  BY PerInvMeans
<1>. QED
  BY <1>1, PerInvAlways, PTL

-----------------------------------------------------------------------------
(* What lies in the view is read, when it has all arrived.                 *)

Reads(r, data, end, size) ==
  IF end <= size THEN r = Got("ok", data, end) ELSE r.err = "buffer_underflow"

OctetView(s) == IsView(s) /\ s.size % 8 = 0

(* The view ends at an octet: an alignment does not leave it.              *)
LEMMA AlignedView ==
  ASSUME NEW s, OctetView(s), NEW v, NEW x \in Nat
  PROVE  s.size \in Nat /\ (align(v, x) <= s.size <=> x <= s.size) /\ align(v, x) \in Nat
<1>. DEFINE z == s.size
<1>1. z \in Nat /\ z % 8 = 0
  BY MemoryOctets DEF OctetView, IsView
<1>. HIDE DEF z
<1>2. align(v, x) \in Nat /\ x <= align(v, x) /\ (x <= z => align(v, x) <= z)
  BY <1>1, AlignFacts
<1>3. align(v, x) <= z <=> x <= z
  BY <1>1, <1>2
<1>. QED
  BY <1>1, <1>2, <1>3 DEF z

(* A number in bits.                                                       *)
LEMMA ReadsNumber ==
  ASSUME NEW s, OctetView(s), NEW x \in Nat, NEW n \in 0 .. 16, NEW k \in Nat, k < 2 ^ n,
         Holds(s.bits, x, Bits(k, n))
  PROVE  Reads(TakeNumber(s, x, n), <<k>>, x + n, s.size)
<1>1. Number(s, x, n) = k
  BY NumberHeld
<1>. DEFINE z == s.size
<1>2. z \in Nat
  BY AlignedView
<1>3. underflow(s, x, n) <=> x + n > z
  BY DEF underflow
<1>. HIDE DEF z
<1>4. CASE x + n <= z
  <2>1. ~ underflow(s, x, n)
    BY <1>2, <1>3, <1>4
  <2>2. TakeNumber(s, x, n) = Got("ok", <<k>>, x + n)
    BY <1>1, <2>1 DEF TakeNumber
  <2>. QED
    BY <1>4, <2>2 DEF Reads, z
<1>5. CASE ~ (x + n <= z)
  <2>1. underflow(s, x, n)
    BY <1>2, <1>3, <1>5
  <2>2. TakeNumber(s, x, n).err = "buffer_underflow"
    BY <2>1, GotFields DEF TakeNumber
  <2>. QED
    BY <1>5, <2>2 DEF Reads, z
<1>. QED
  BY <1>4, <1>5

(* The bit of a BOOLEAN is a number of one bit.                            *)
LEMMA OneBit ==
  ASSUME NEW k \in Bit
  PROVE  Bits(k, 1) = <<k>> /\ k \in Nat /\ k < 2 ^ 1
<1>1. 1 \in 0 .. 16 /\ k \in Int /\ k \in Nat
  BY DEF Bit
<1>2. Bits(k, 1) \in Seq(Bit) /\ Len(Bits(k, 1)) = 1
  BY <1>1, BitsAreBits
<1>3. Bits(k, 1)[1] = k
  <2>1. Bits(k, 1)[1] = (k \div 2 ^ (1 - 1)) % 2
    BY DEF Bits
  <2>2. 1 - 1 = 0 /\ 2 ^ 0 = 1
    BY PowersListed
  <2>3. Bits(k, 1)[1] = (k \div 1) % 2
    BY <2>1, <2>2
  <2>. QED
    BY <2>3 DEF Bit
<1>. DEFINE b == Bits(k, 1)
            t == <<k>>
<1>4. t \in Seq(Bit) /\ Len(t) = 1 /\ t[1] = k
  OBVIOUS
<1>. HIDE DEF b, t
<1>5. b \in Seq(Bit) /\ Len(b) = 1 /\ b[1] = k
  BY <1>2, <1>3 DEF b
<1>6. \A i \in 1 .. 1 : b[i] = t[i]
  <2>1. \A i \in 1 .. 1 : i = 1
    OBVIOUS
  <2>. QED
    BY <1>4, <1>5, <2>1
<1>7. b = t
  BY <1>4, <1>5, <1>6, SeqEqual
<1>8. k < 2 ^ 1
  <2>1. 2 ^ 1 = 2
    BY PowersListed
  <2>2. k < 2
    BY DEF Bit
  <2>. QED
    BY <2>1, <2>2
<1>. QED
  BY <1>1, <1>7, <1>8 DEF b, t

(* A number in bits, and the alignment after it.                           *)
LEMMA ReadsField ==
  ASSUME NEW v, NEW s, OctetView(s), NEW x \in Nat, NEW n \in 0 .. 16, NEW k \in Nat, k < 2 ^ n,
         Holds(s.bits, x, Bits(k, n))
  PROVE  Reads(TakeField(v, s, x, n), <<k>>, align(v, x + n), s.size)
<1>. DEFINE r == TakeNumber(s, x, n)
            z == s.size
            a == align(v, x + n)
<1>1. Reads(r, <<k>>, x + n, z)
  BY ReadsNumber
<1>2. TakeField(v, s, x, n) = IF r.err = "ok" THEN Got("ok", r.data, align(v, r.at)) ELSE r
  BY DEF TakeField
<1>3. z \in Nat /\ (a <= z <=> x + n <= z) /\ a \in Nat
  <2>1. x + n \in Nat
    OBVIOUS
  <2>. QED
    BY <2>1, AlignedView
<1>. HIDE DEF r, z
<1>4. CASE x + n <= z
  <2>1. r = Got("ok", <<k>>, x + n)
    BY <1>1, <1>4 DEF Reads
  <2>2. r.err = "ok" /\ r.data = <<k>> /\ r.at = x + n
    BY <2>1, GotFields
  <2>3. TakeField(v, s, x, n) = Got("ok", <<k>>, a)
    BY <1>2, <2>2
  <2>. QED
    BY <1>3, <1>4, <2>3 DEF Reads, z
<1>5. CASE ~ (x + n <= z)
  <2>1. r.err = "buffer_underflow"
    BY <1>1, <1>5 DEF Reads
  <2>2. TakeField(v, s, x, n) = r
    BY <1>2, <2>1
  <2>. QED
    BY <1>3, <1>5, <2>1, <2>2 DEF Reads, z
<1>. QED
  BY <1>4, <1>5

(* Octets.                                                                 *)
LEMMA ReadsOctets ==
  ASSUME NEW s, OctetView(s), NEW x \in Nat, NEW data \in Seq(Octet),
         Holds(s.bits, x, OctetBits(data))
  PROVE  Reads(TakeOctets(s, x, Len(data)), data, x + 8 * Len(data), s.size)
<1>. DEFINE n == Len(data)
            w == [i \in 1 .. n |-> Number(s, x + 8 * (i - 1), 8)]
            c == 8 * n
            z == s.size
<1>1. w = data
  BY OctetsHeld
<1>2. z \in Nat /\ n \in Nat /\ c \in Nat
  BY AlignedView, LenProperties
<1>3. underflow(s, x, c) <=> x + c > z
  BY DEF underflow
<1>4. TakeOctets(s, x, n) = IF underflow(s, x, c) THEN Got("buffer_underflow", << >>, x)
                            ELSE Got("ok", w, x + c)
  BY DEF TakeOctets
<1>. HIDE DEF w, c, z, n
<1>5. CASE x + c <= z
  <2>1. ~ underflow(s, x, c)
    BY <1>2, <1>3, <1>5
  <2>2. TakeOctets(s, x, n) = Got("ok", data, x + c)
    BY <1>1, <1>4, <2>1
  <2>. QED
    BY <1>5, <2>2 DEF Reads, z, c, n
<1>6. CASE ~ (x + c <= z)
  <2>1. underflow(s, x, c)
    BY <1>2, <1>3, <1>6
  <2>2. TakeOctets(s, x, n).err = "buffer_underflow"
    BY <1>4, <2>1, GotFields
  <2>. QED
    BY <1>6, <2>2 DEF Reads, z, c, n
<1>. QED
  BY <1>5, <1>6

(* The three forms of a length, as numbers.                                *)
LEMMA LengthForms ==
  ASSUME NEW n \in Nat, n < LengthLimit
  PROVE  /\ n <= 127 => n < 128 /\ determinant_octets(n) = <<n>>
         /\ n > 127 /\ n <= 16383 =>
              \E q \in 0 .. 63, d \in Octet :
                /\ determinant_octets(n) = <<128 + q, d>> /\ n = q * 256 + d
                /\ 128 + q \in 128 .. 191 /\ (128 + q) % 64 = q
         /\ n > 16383 =>
              \E q \in 0 .. 31, b, c, d \in Octet :
                /\ determinant_octets(n) = <<192 + q, b, c, d>>
                /\ n = q * 2 ^ 24 + ((b * 256 + c) * 256 + d)
                /\ 192 + q \in 192 .. 223 /\ (192 + q) % 32 = q
<1>1. ASSUME n <= 127
      PROVE  n < 128 /\ determinant_octets(n) = <<n>>
  <2>1. determinant_octets(n) = <<n>> /\ n < 128
    BY <1>1, SMT DEF determinant_octets
  <2>. QED
    BY <2>1
<1>2. ASSUME n > 127, n <= 16383
      PROVE  \E q \in 0 .. 63, d \in Octet :
               /\ determinant_octets(n) = <<128 + q, d>> /\ n = q * 256 + d
               /\ 128 + q \in 128 .. 191 /\ (128 + q) % 64 = q
  <2>. DEFINE q == n \div 256
              d == n % 256
  <2>1. determinant_octets(n) = <<128 + q, d>>
    BY <1>2, SMT DEF determinant_octets
  <2>2. q \in 0 .. 63 /\ d \in Octet
    BY <1>2, SMT DEF Octet
  <2>3. n = q * 256 + d
    BY SMT
  <2>. HIDE DEF q, d
  <2>4. 128 + q \in 128 .. 191 /\ (128 + q) % 64 = q
    BY <2>2, SMT
  <2>. QED
    BY <2>1, <2>2, <2>3, <2>4
<1>3. ASSUME n > 16383
      PROVE  \E q \in 0 .. 31, b, c, d \in Octet :
               /\ determinant_octets(n) = <<192 + q, b, c, d>>
               /\ n = q * 2 ^ 24 + ((b * 256 + c) * 256 + d)
               /\ 192 + q \in 192 .. 223 /\ (192 + q) % 32 = q
  <2>. DEFINE h == n \div 16777216
              q == h % 32
              b == (n \div 65536) % 256
              c == (n \div 256) % 256
              d == n % 256
  <2>1. determinant_octets(n) = <<192 + q, b, c, d>>
    BY <1>3, SMT DEF determinant_octets
  <2>2. b \in Octet /\ c \in Octet /\ d \in Octet
    BY SMT DEF Octet
  <2>3. h \in 0 .. 31
    BY SMT DEF LengthLimit
  <2>4. q = h
    <3>. HIDE DEF h
    <3>. QED
      BY <2>3, SMT
  <2>5. n = h * 16777216 + ((b * 256 + c) * 256 + d)
    BY SMT
  <2>6. 2 ^ 24 = 16777216
    BY PowersListed, SMT
  <2>. HIDE DEF h, q, b, c, d
  <2>7. n = q * 2 ^ 24 + ((b * 256 + c) * 256 + d)
    BY <2>4, <2>5, <2>6, SMT
  <2>8. q \in 0 .. 31 /\ 192 + q \in 192 .. 223 /\ (192 + q) % 32 = q
    BY <2>3, <2>4, SMT
  <2>. QED
    BY <2>1, <2>2, <2>7, <2>8
<1>. QED
  BY <1>1, <1>2, <1>3

(* An octet that lies in the view, by itself.                              *)
LEMMA OctetAt ==
  ASSUME NEW s, NEW x \in Nat, NEW l \in Seq(Octet), Holds(s.bits, x, OctetBits(l)),
         NEW i \in 1 .. Len(l)
  PROVE  Number(s, x + 8 * (i - 1), 8) = l[i]
<1>. DEFINE w == [j \in 1 .. Len(l) |-> Number(s, x + 8 * (j - 1), 8)]
<1>1. w = l
  BY OctetsHeld
<1>2. w[i] = Number(s, x + 8 * (i - 1), 8)
  OBVIOUS
<1>. HIDE DEF w
<1>. QED
  BY <1>1, <1>2

(* Three octets in a row are one number.                                   *)
LEMMA ThreeOctets ==
  ASSUME NEW s, NEW x \in Nat, Shows(s, x, 24),
         NEW b \in Octet, NEW c \in Octet, NEW d \in Octet,
         Number(s, x, 8) = b, Number(s, x + 8, 8) = c, Number(s, x + 16, 8) = d
  PROVE  Number(s, x, 24) = (b * 256 + c) * 256 + d
<1>1. 8 \in 0 .. 16 /\ 8 \in Nat /\ 16 \in Nat /\ 2 ^ 8 = 256 /\ 16 + 8 = 24 /\ 8 + 8 = 16
  BY PowersListed
<1>2. Shows(s, x, 16 + 8)
  BY <1>1
<1>3. Number(s, x, 16 + 8) = Number(s, x, 16) * 2 ^ 8 + Number(s, x + 16, 8)
  BY <1>1, <1>2, NumberSplit
<1>4. Shows(s, x, 8 + 8)
  BY DEF Shows
<1>5. Number(s, x, 8 + 8) = Number(s, x, 8) * 2 ^ 8 + Number(s, x + 8, 8)
  BY <1>1, <1>4, NumberSplit
<1>6. Number(s, x, 16) = b * 256 + c
  BY <1>1, <1>5
<1>. QED
  BY <1>1, <1>3, <1>6

(* A number after its high part, of whole octets.                          *)
LEMMA ReadsLow ==
  ASSUME NEW s, OctetView(s), NEW x \in Nat, NEW high \in Nat, NEW n \in Nat, NEW k \in Nat,
         NEW p \in Nat, p = 2 ^ n, x + n <= s.size => Number(s, x, n) = k
  PROVE  Reads(TakeLow(high, s, x, n), <<high * p + k>>, x + n, s.size)
<1>. DEFINE z == s.size
            r == TakeNumber(s, x, n)
            y == high * p + k
<1>1. z \in Nat
  BY AlignedView
<1>2. underflow(s, x, n) <=> x + n > z
  BY DEF underflow
<1>3. TakeLow(high, s, x, n) = IF r.err = "ok" THEN Got("ok", <<high * p + r.data[1]>>, r.at) ELSE r
  BY DEF TakeLow
<1>. HIDE DEF z, r
<1>4. CASE x + n <= z
  <2>1. ~ underflow(s, x, n)
    BY <1>1, <1>2, <1>4
  <2>2. r = Got("ok", <<k>>, x + n)
    BY <1>4, <2>1 DEF TakeNumber, r, z
  <2>3. r.err = "ok" /\ r.data = <<k>> /\ r.at = x + n
    BY <2>2, GotFields
  <2>4. r.data[1] = k
    BY <2>3
  <2>5. TakeLow(high, s, x, n) = Got("ok", <<y>>, x + n)
    BY <1>3, <2>3, <2>4
  <2>. QED
    BY <1>4, <2>5 DEF Reads, z
<1>5. CASE ~ (x + n <= z)
  <2>1. underflow(s, x, n)
    BY <1>1, <1>2, <1>5
  <2>2. r.err = "buffer_underflow"
    BY <2>1, GotFields DEF TakeNumber, r
  <2>3. TakeLow(high, s, x, n).err = "buffer_underflow"
    BY <1>3, <2>2
  <2>. QED
    BY <1>5, <2>3 DEF Reads, z
<1>. QED
  BY <1>4, <1>5

(* A length determinant.                                                   *)
LEMMA ReadsDeterminant ==
  ASSUME NEW v, NEW s, OctetView(s), NEW x \in Nat, NEW n \in Nat, n < LengthLimit,
         Holds(s.bits, align(v, x), OctetBits(determinant_octets(n)))
  PROVE  Reads(decode_length_determinant(v, s, x), <<n>>,
               align(v, x) + 8 * Len(determinant_octets(n)), s.size)
<1>. DEFINE a == align(v, x)
            l == determinant_octets(n)
            r == TakeNumber(s, a, 8)
            d == decode_length_determinant(v, s, x)
            z == s.size
<1>0. a \in Nat /\ z \in Nat
  BY AlignedView
<1>1. d = length_after(s, r)
  BY DEF decode_length_determinant
<1>2. Holds(s.bits, a, OctetBits(l)) /\ l \in Seq(Octet)
  BY LengthOctets
<1>3. underflow(s, a, 8) <=> a + 8 > z
  BY DEF underflow
<1>. HIDE DEF a, l, d, z
<1>4. \A i \in 1 .. Len(l) : Number(s, a + 8 * (i - 1), 8) = l[i]
  BY <1>0, <1>2, OctetAt
<1>5. Len(l) \in Nat /\ Len(l) >= 1 /\ (a + 8 > z => a + 8 * Len(l) > z)
  <2>1. Len(l) \in Nat
    BY <1>2, LenProperties
  <2>2. Len(l) >= 1
    <3>1. n <= 127 \/ (n > 127 /\ n <= 16383) \/ n > 16383
      OBVIOUS
    <3>2. CASE n <= 127
      <4>1. l = <<n>>
        BY <3>2, LengthForms DEF l
      <4>. QED
        BY <4>1
    <3>3. CASE n > 127 /\ n <= 16383
      <4>1. PICK q \in 0 .. 63, e \in Octet : l = <<128 + q, e>>
        BY <3>3, LengthForms DEF l
      <4>. QED
        BY <4>1
    <3>4. CASE n > 16383
      <4>1. PICK q \in 0 .. 31, e, f, g \in Octet : l = <<192 + q, e, f, g>>
        BY <3>4, LengthForms DEF l
      <4>. QED
        BY <4>1
    <3>. QED
      BY <3>1, <3>2, <3>3, <3>4
  <2>. DEFINE m == Len(l)
  <2>. HIDE DEF m
  <2>3. m \in Nat /\ m >= 1 => (a + 8 > z => a + 8 * m > z)
    BY <1>0
  <2>. QED
    BY <2>1, <2>2, <2>3 DEF m
<1>6. CASE a + 8 > z
  <2>1. r.err = "buffer_underflow"
    BY <1>3, <1>6, GotFields DEF TakeNumber
  <2>. HIDE DEF r
  <2>2. d = r
    BY <1>1, <2>1 DEF length_after
  <2>3. ~ (a + 8 * Len(l) <= z)
    BY <1>0, <1>5, <1>6
  <2>4. Reads(d, <<n>>, a + 8 * Len(l), z)
    BY <2>1, <2>2, <2>3 DEF Reads
  <2>. QED
    BY <2>4 DEF a, l, d, z
<1>7. CASE ~ (a + 8 > z)
  <2>1. r = Got("ok", <<l[1]>>, a + 8)
    <3>1. 1 \in 1 .. Len(l) /\ a + 8 * (1 - 1) = a
      BY <1>0, <1>5
    <3>2. Number(s, a, 8) = l[1]
      BY <1>4, <3>1
    <3>. QED
      BY <1>3, <1>7, <3>2 DEF TakeNumber
  <2>2. r.err = "ok" /\ r.data = <<l[1]>> /\ r.at = a + 8
    BY <2>1, GotFields
  <2>3. r.data[1] = l[1]
    BY <2>2
  <2>. HIDE DEF r
  <2>4. ASSUME n <= 127 PROVE Reads(d, <<n>>, a + 8 * Len(l), z)
    <3>1. l = <<n>> /\ n < 128
      BY <2>4, LengthForms DEF l
    <3>2. l[1] = n /\ Len(l) = 1
      BY <3>1
    <3>3. d = r
      BY <1>1, <2>2, <2>3, <3>1, <3>2, FirstOctet
    <3>4. r = Got("ok", <<n>>, a + 8)
      BY <2>1, <3>2
    <3>5. a + 8 * Len(l) = a + 8 /\ a + 8 <= z
      BY <1>0, <1>7, <3>2
    <3>. QED
      BY <3>3, <3>4, <3>5 DEF Reads
  <2>5. ASSUME n > 127, n <= 16383 PROVE Reads(d, <<n>>, a + 8 * Len(l), z)
    <3>1. PICK q \in 0 .. 63, e \in Octet :
            /\ l = <<128 + q, e>> /\ n = q * 256 + e
            /\ 128 + q \in 128 .. 191 /\ (128 + q) % 64 = q
      BY <2>5, LengthForms DEF l
    <3>2. l[1] = 128 + q /\ l[2] = e /\ Len(l) = 2 /\ 128 + q \in Nat /\ q \in Nat
      BY <3>1
    <3>3. d = TakeLow((128 + q) % 64, s, r.at, 8)
      BY <1>1, <2>2, <2>3, <3>1, <3>2, FirstOctet
    <3>4. d = TakeLow(q, s, a + 8, 8)
      BY <2>2, <3>1, <3>3
    <3>5. Number(s, a + 8, 8) = e
      <4>1. 2 \in 1 .. Len(l) /\ a + 8 * (2 - 1) = a + 8
        BY <1>0, <3>2
      <4>. QED
        BY <1>4, <3>2, <4>1
    <3>6. 8 \in Nat /\ 256 \in Nat /\ 256 = 2 ^ 8 /\ a + 8 \in Nat /\ e \in Nat
      BY <1>0, PowersListed, OctetNumber
    <3>7. Reads(TakeLow(q, s, a + 8, 8), <<q * 256 + e>>, (a + 8) + 8, s.size)
      BY <3>2, <3>5, <3>6, ReadsLow
    <3>8. (a + 8) + 8 = a + 8 * Len(l)
      BY <1>0, <3>2
    <3>. QED
      BY <3>1, <3>4, <3>7, <3>8 DEF z
  <2>6. ASSUME n > 16383 PROVE Reads(d, <<n>>, a + 8 * Len(l), z)
    <3>1. PICK q \in 0 .. 31, b, c, e \in Octet :
            /\ l = <<192 + q, b, c, e>>
            /\ n = q * 2 ^ 24 + ((b * 256 + c) * 256 + e)
            /\ 192 + q \in 192 .. 223 /\ (192 + q) % 32 = q
      BY <2>6, LengthForms DEF l
    <3>2. l[1] = 192 + q /\ l[2] = b /\ l[3] = c /\ l[4] = e /\ Len(l) = 4 /\ 192 + q \in Nat /\ q \in Nat
      BY <3>1
    <3>3. d = TakeLow((192 + q) % 32, s, r.at, 24)
      BY <1>1, <2>2, <2>3, <3>1, <3>2, FirstOctet
    <3>4. d = TakeLow(q, s, a + 8, 24)
      BY <2>2, <3>1, <3>3
    <3>. DEFINE y == a + 8
                k == (b * 256 + c) * 256 + e
                p == 2 ^ 24
    <3>5. Number(s, y, 8) = b /\ Number(s, y + 8, 8) = c /\ Number(s, y + 16, 8) = e
      <4>1. /\ 2 \in 1 .. Len(l) /\ a + 8 * (2 - 1) = y
            /\ 3 \in 1 .. Len(l) /\ a + 8 * (3 - 1) = y + 8
            /\ 4 \in 1 .. Len(l) /\ a + 8 * (4 - 1) = y + 16
        BY <1>0, <3>2
      <4>. HIDE DEF y
      <4>2. Number(s, y, 8) = l[2]
        BY <1>4, <4>1
      <4>3. Number(s, y + 8, 8) = l[3]
        BY <1>4, <4>1
      <4>4. Number(s, y + 16, 8) = l[4]
        BY <1>4, <4>1
      <4>. QED
        BY <3>2, <4>2, <4>3, <4>4
    <3>6. y \in Nat /\ 24 \in Nat /\ k \in Nat
      BY <1>0, <3>1, OctetNumber
    <3>7. p \in Nat
      BY PowersListed, SMT
    <3>8. ASSUME y + 24 <= z PROVE Number(s, y, 24) = k
      <4>1. ~ underflow(s, y, 24)
        BY <1>0, <3>6, <3>8 DEF underflow, z
      <4>2. Shows(s, y, 24)
        BY <3>6, <4>1, ViewShows DEF OctetView
      <4>. HIDE DEF y
      <4>. QED
        BY <3>5, <3>6, <4>2, ThreeOctets
    <3>9. n = q * p + k /\ (y + 24) = a + 8 * Len(l)
      BY <1>0, <3>1, <3>2
    <3>. HIDE DEF y, k
    <3>10. p = 2 ^ 24
      OBVIOUS
    <3>. HIDE DEF p
    <3>11. Reads(TakeLow(q, s, y, 24), <<q * p + k>>, y + 24, s.size)
      BY <3>2, <3>6, <3>7, <3>8, <3>10, ReadsLow DEF z
    <3>. QED
      BY <3>4, <3>9, <3>11 DEF z, y
  <2>7. n <= 127 \/ (n > 127 /\ n <= 16383) \/ n > 16383
    OBVIOUS
  <2>8. Reads(d, <<n>>, a + 8 * Len(l), z)
    BY <2>4, <2>5, <2>6, <2>7
  <2>. QED
    BY <2>8 DEF a, l, d, z
<1>. QED
  BY <1>6, <1>7

(* Octets that a number that was read counts.                              *)
LEMMA ReadsAfter ==
  ASSUME NEW s, OctetView(s), NEW d, NEW y \in Nat, NEW data \in Seq(Octet),
         Reads(d, <<Len(data)>>, y, s.size), Holds(s.bits, y, OctetBits(data))
  PROVE  Reads(octets_after(s, d, d.at), data, y + 8 * Len(data), s.size)
<1>. DEFINE n == Len(data)
            z == s.size
            o == octets_after(s, d, d.at)
<1>1. n \in Nat /\ z \in Nat
  BY AlignedView, LenProperties
<1>2. Reads(TakeOctets(s, y, n), data, y + 8 * n, z)
  BY ReadsOctets
<1>3. Reads(d, <<n>>, y, z)
  OBVIOUS
<1>4. o = IF d.err = "ok" THEN TakeOctets(s, d.at, d.data[1]) ELSE d
  BY DEF octets_after
<1>. HIDE DEF n, z, o
<1>5. CASE y <= z
  <2>1. d = Got("ok", <<n>>, y)
    BY <1>3, <1>5 DEF Reads
  <2>2. d.err = "ok" /\ d.data = <<n>> /\ d.at = y
    BY <2>1, GotFields
  <2>3. d.data[1] = n
    BY <2>2
  <2>4. o = TakeOctets(s, y, n)
    BY <1>4, <2>2, <2>3
  <2>. QED
    BY <1>2, <2>4 DEF n, z, o
<1>6. CASE ~ (y <= z)
  <2>1. d.err = "buffer_underflow"
    BY <1>3, <1>6 DEF Reads
  <2>2. o.err = "buffer_underflow"
    BY <1>4, <2>1
  <2>3. ~ (y + 8 * n <= z)
    BY <1>1, <1>6
  <2>4. Reads(o, data, y + 8 * n, z)
    BY <2>2, <2>3 DEF Reads
  <2>. QED
    BY <2>4 DEF n, z, o
<1>. QED
  BY <1>5, <1>6

(* Where counted octets lie.                                               *)
LEMMA CountedPlaces ==
  ASSUME NEW m, NEW v, NEW x \in Nat, NEW data \in Seq(Octet), NEW e,
         Lies(m, v, x, Counted(data), e)
  PROVE  LET l == determinant_octets(Len(data))
             y == align(v, x) + 8 * Len(l)
         IN  /\ Holds(m, align(v, x), OctetBits(l)) /\ Holds(m, y, OctetBits(data))
             /\ e = y + 8 * Len(data) /\ y \in Nat /\ Len(data) \in Nat
<1>. DEFINE l == determinant_octets(Len(data))
            b == OctetBits(l)
            c == OctetBits(data)
            a == align(v, x)
            y == a + 8 * Len(l)
<1>1. Len(data) \in Nat /\ l \in Seq(Octet)
  BY LenProperties, LengthOctets
<1>. HIDE DEF l
<1>2. b \in Seq(Bit) /\ Len(b) = 8 * Len(l) /\ c \in Seq(Bit) /\ Len(c) = 8 * Len(data)
  BY <1>1, OctetBitsAreBits
<1>3. Lies(m, v, x, <<Align, Put(b), Put(c)>>, e)
  BY DEF Counted, l
<1>4. /\ Holds(m, align(v, x), b) /\ Holds(m, align(v, x) + Len(b), c)
      /\ e = align(v, x) + Len(b) + Len(c)
  <2>. HIDE DEF a, b, c
  <2>1. b \in Seq(Bit) /\ c \in Seq(Bit)
    BY <1>2
  <2>. QED
    BY <1>3, <2>1, LiesCounted
<1>. HIDE DEF b, c
<1>5. Len(l) \in Nat /\ a \in Nat
  BY <1>1, LenProperties, AlignFacts
<1>. QED
  BY <1>1, <1>2, <1>4, <1>5 DEF b, c, l

(* Counted octets.                                                         *)
LEMMA ReadsCounted ==
  ASSUME NEW v, NEW s, OctetView(s), NEW x \in Nat, NEW data \in Seq(Octet),
         Len(data) < LengthLimit, NEW e, Lies(s.bits, v, x, Counted(data), e)
  PROVE  Reads(TakeCounted(v, s, x), data, e, s.size)
<1>. DEFINE l == determinant_octets(Len(data))
            y == align(v, x) + 8 * Len(l)
            d == decode_length_determinant(v, s, x)
<1>1. /\ Holds(s.bits, align(v, x), OctetBits(l)) /\ Holds(s.bits, y, OctetBits(data))
      /\ e = y + 8 * Len(data) /\ y \in Nat /\ Len(data) \in Nat
  BY CountedPlaces
<1>2. Reads(d, <<Len(data)>>, y, s.size)
  BY <1>1, ReadsDeterminant
<1>3. TakeCounted(v, s, x) = octets_after(s, d, d.at)
  BY DEF TakeCounted
<1>. HIDE DEF d, y
<1>. QED
  BY <1>1, <1>2, <1>3, ReadsAfter

(* The octets of an unconstrained INTEGER.                                 *)
LEMMA ReadsInteger ==
  ASSUME NEW v, NEW s, OctetView(s), NEW x \in Nat, NEW data \in Seq(Octet),
         Len(data) \in 1 .. WordOctets, NEW e, Lies(s.bits, v, x, Counted(data), e)
  PROVE  Reads(decode_integer_octets(v, s, x), data, e, s.size)
<1>. DEFINE n == Len(data)
            l == determinant_octets(n)
            y == align(v, x) + 8 * Len(l)
            d == decode_length_determinant(v, s, x)
            r == decode_integer_octets(v, s, x)
            z == s.size
            more == Got("buffer_underflow", << >>, d.at)
            long == Got("value_out_of_range", << >>, d.at)
            o == TakeOctets(s, d.at, d.data[1])
            u == underflow(s, d.at, 8 * d.data[1])
<1>0. n < LengthLimit /\ n \in Nat /\ ~ (n > WordOctets) /\ z \in Nat
  <2>0. n \in 1 .. WordOctets
    OBVIOUS
  <2>. HIDE DEF n
  <2>1. n \in Nat /\ n <= 8 /\ ~ (n > WordOctets)
    BY <2>0, WordAssumption
  <2>2. n < LengthLimit
    BY <2>1, SMT DEF LengthLimit
  <2>. QED
    BY <2>1, <2>2, AlignedView
<1>1. /\ Holds(s.bits, align(v, x), OctetBits(l)) /\ Holds(s.bits, y, OctetBits(data))
      /\ e = y + 8 * n /\ y \in Nat
  BY CountedPlaces
<1>2. Reads(d, <<n>>, y, z)
  BY <1>0, <1>1, ReadsDeterminant
<1>3. r = CASE d.err # "ok" -> d
            [] d.err = "ok" /\ u -> more
            [] d.err = "ok" /\ ~ u -> IF d.data[1] > WordOctets THEN long ELSE o
  BY DEF decode_integer_octets, integer_after
<1>4. Reads(TakeOctets(s, y, n), data, y + 8 * n, z)
  BY <1>1, ReadsOctets
<1>5. more.err = "buffer_underflow"
  BY GotFields
<1>. HIDE DEF d, y, more, long, r, n, z
<1>6. CASE ~ (y <= z)
  <2>1. d.err = "buffer_underflow"
    BY <1>2, <1>6 DEF Reads
  <2>. HIDE DEF o, u
  <2>2. r = d
    BY <1>3, <2>1
  <2>3. ~ (e <= z)
    BY <1>0, <1>1, <1>6
  <2>. QED
    BY <2>1, <2>2, <2>3 DEF Reads, r, z
<1>7. CASE y <= z
  <2>1. d = Got("ok", <<n>>, y)
    BY <1>2, <1>7 DEF Reads
  <2>2. d.err = "ok" /\ d.data = <<n>> /\ d.at = y
    BY <2>1, GotFields
  <2>3. d.data[1] = n
    BY <2>2
  <2>4. u <=> y + 8 * n > z
    BY <2>2, <2>3 DEF underflow, z
  <2>5. o = TakeOctets(s, y, n)
    BY <2>2, <2>3
  <2>. HIDE DEF o, u
  <2>6. CASE u
    <3>1. r = more
      BY <1>3, <2>2, <2>6
    <3>2. ~ (e <= z)
      BY <1>0, <1>1, <2>4, <2>6
    <3>. QED
      BY <1>5, <3>1, <3>2 DEF Reads, r, z
  <2>7. CASE ~ u
    <3>1. r = IF d.data[1] > WordOctets THEN long ELSE o
      BY <1>3, <2>2, <2>7
    <3>2. r = o
      BY <1>0, <2>3, <3>1
    <3>. QED
      BY <1>1, <1>4, <2>5, <3>2 DEF r, z
  <2>. QED
    BY <2>6, <2>7
<1>. QED
  BY <1>6, <1>7

-----------------------------------------------------------------------------
(* Each operation reads what its call wrote.                               *)

(* Where the parts of a string lie.                                        *)
LEMMA StringPlaces ==
  ASSUME NEW m, NEW v, NEW x \in Nat, NEW meta, MetaOK(meta), NEW size \in Nat,
         fixed(meta) \/ Writable(meta, size), NEW head \in Seq(Bit), NEW octets \in Seq(Octet), NEW e,
         Lies(m, v, x, encode_string(meta, size, head, octets), e)
  PROVE  LET n == bits_needed_unsigned(range(meta) - 1)
             a == align(v, x)
             y == align(v, a + n)
             l == determinant_octets(size)
             z == a + 8 * Len(l)
         IN  /\ a \in Nat
             /\ fixed(meta) => Holds(m, a, OctetBits(octets)) /\ e = a + 8 * Len(octets)
             /\ short(meta) /\ ~ fixed(meta) =>
                  /\ n \in 0 .. 16 /\ size < 2 ^ n /\ Holds(m, a, Bits(size, n))
                  /\ y \in Nat /\ Holds(m, y, OctetBits(octets)) /\ e = y + 8 * Len(octets)
             /\ ~ short(meta) =>
                  /\ size < LengthLimit /\ Holds(m, a, OctetBits(l))
                  /\ z \in Nat /\ Holds(m, z, head)
                  /\ Holds(m, z + Len(head), OctetBits(octets))
                  /\ e = z + Len(head) + 8 * Len(octets)
<1>. DEFINE n == bits_needed_unsigned(range(meta) - 1)
            a == align(v, x)
            y == align(v, a + n)
            l == determinant_octets(size)
            z == a + 8 * Len(l)
            c == OctetBits(octets)
            p == encode_string(meta, size, head, octets)
<1>1. a \in Nat
  BY AlignFacts
<1>2. c \in Seq(Bit) /\ Len(c) = 8 * Len(octets)
  BY OctetBitsAreBits
<1>3. l \in Seq(Octet)
  BY LengthOctets
<1>4. OctetBits(l) \in Seq(Bit) /\ Len(OctetBits(l)) = 8 * Len(l) /\ Len(l) \in Nat
  <2>. HIDE DEF l
  <2>. QED
    BY <1>3, OctetBitsAreBits, LenProperties
<1>5. /\ fixed(meta) => p = <<Align, Put(c)>>
      /\ short(meta) /\ ~ fixed(meta) => p = <<Align, Put(Bits(size, n)), Align, Put(c)>>
      /\ ~ short(meta) /\ ~ fixed(meta) =>
           p = <<Align, Put(OctetBits(l)), Put(head), Put(c)>>
  BY StringLayout
<1>6. Lies(m, v, x, p, e)
  OBVIOUS
<1>7. ASSUME fixed(meta) PROVE Holds(m, a, c) /\ e = a + 8 * Len(octets)
  <2>. HIDE DEF c, p
  <2>1. Lies(m, v, x, <<Align, Put(c)>>, e)
    BY <1>5, <1>6, <1>7
  <2>2. c \in Seq(Bit)
    BY <1>2
  <2>3. Holds(m, align(v, x), c) /\ e = align(v, x) + Len(c)
    <3>. HIDE DEF a
    <3>. QED
      BY <2>1, <2>2, LiesAligned
  <2>. QED
    BY <1>2, <2>3
<1>8. ASSUME short(meta), ~ fixed(meta)
      PROVE  /\ n \in 0 .. 16 /\ size < 2 ^ n /\ Holds(m, a, Bits(size, n))
             /\ y \in Nat /\ Holds(m, y, c) /\ e = y + 8 * Len(octets)
  <2>1. n \in 0 .. 16
    BY <1>8, ShortMeta, BitsNeeded
  <2>2. size < 2 ^ n
    BY <1>8 DEF Writable
  <2>. DEFINE b == Bits(size, n)
  <2>3. b \in Seq(Bit) /\ Len(b) = n
    <3>1. n \in 0 .. 16 /\ size \in Int
      BY <2>1
    <3>. HIDE DEF n
    <3>. QED
      BY <3>1, BitsAreBits
  <2>4. Lies(m, v, x, <<Align, Put(b), Align, Put(c)>>, e)
    <3>. HIDE DEF c, p, b
    <3>1. p = <<Align, Put(b), Align, Put(c)>>
      BY <1>5, <1>8 DEF b
    <3>. QED
      BY <1>6, <3>1
  <2>5. /\ Holds(m, align(v, x), b) /\ Holds(m, align(v, align(v, x) + Len(b)), c)
        /\ e = align(v, align(v, x) + Len(b)) + Len(c)
    <3>1. b \in Seq(Bit) /\ c \in Seq(Bit)
      BY <1>2, <2>3
    <3>. HIDE DEF c, p, b, n, a, y
    <3>. QED
      BY <2>4, <3>1, LiesSized, SMTT(60)
  <2>6. y \in Nat
    <3>1. a + n \in Nat
      <4>. HIDE DEF a, n
      <4>. QED
        BY <1>1, <2>1
    <3>. QED
      BY <3>1, AlignFacts
  <2>. QED
    BY <1>2, <2>1, <2>2, <2>3, <2>5, <2>6
<1>9. ASSUME ~ short(meta)
      PROVE  /\ size < LengthLimit /\ Holds(m, a, OctetBits(l))
             /\ z \in Nat /\ Holds(m, z, head) /\ Holds(m, z + Len(head), c)
             /\ e = z + Len(head) + 8 * Len(octets)
  <2>1. size < LengthLimit
    BY <1>9, ShortMeta DEF Writable
  <2>. DEFINE b == OctetBits(l)
  <2>2. Lies(m, v, x, <<Align, Put(b), Put(head), Put(c)>>, e)
    <3>1. ~ fixed(meta)
      BY <1>9, ShortMeta
    <3>. HIDE DEF c, p, b, l
    <3>2. p = <<Align, Put(b), Put(head), Put(c)>>
      BY <1>5, <1>9, <3>1 DEF b
    <3>. QED
      BY <1>6, <3>2
  <2>3. /\ Holds(m, align(v, x), b) /\ Holds(m, align(v, x) + Len(b), head)
        /\ Holds(m, align(v, x) + Len(b) + Len(head), c)
        /\ e = align(v, x) + Len(b) + Len(head) + Len(c)
    <3>1. b \in Seq(Bit) /\ head \in Seq(Bit) /\ c \in Seq(Bit) /\ x \in Nat
      BY <1>2, <1>4
    <3>. HIDE DEF c, p, b, l, a, z
    <3>2. /\ <<Align, Put(b), Put(head), Put(c)>> \in Seq(Part)
          /\ Lies(m, v, x, <<Align, Put(b), Put(head), Put(c)>>, e) =>
               /\ Holds(m, align(v, x), b)
               /\ Holds(m, align(v, x) + Len(b), head)
               /\ Holds(m, align(v, x) + Len(b) + Len(head), c)
               /\ e = align(v, x) + Len(b) + Len(head) + Len(c)
      BY <3>1, LiesFree, SMTT(60)
    <3>. QED
      BY <2>2, <3>2
  <2>4. z \in Nat
    <3>. HIDE DEF l, a
    <3>. QED
      BY <1>1, <1>4
  <2>. QED
    BY <1>2, <1>4, <2>1, <2>3, <2>4
<1>. HIDE DEF n, y, l, z, c, a
<1>. QED
  BY <1>1, <1>7, <1>8, <1>9 DEF n, y, l, z, c, a

(* An OCTET STRING.                                                        *)
LEMMA ReadsString ==
  ASSUME NEW v, NEW s, OctetView(s), NEW x \in Nat, NEW meta, MetaOK(meta),
         NEW data \in Seq(Octet), fixed(meta) \/ Writable(meta, Len(data)),
         fixed(meta) => meta.min = Len(data), NEW e,
         Lies(s.bits, v, x, encode_string(meta, Len(data), << >>, data), e)
  PROVE  Reads(decode_octet_string(v, meta, s, x), data, e, s.size)
<1>. DEFINE n == bits_needed_unsigned(range(meta) - 1)
            a == align(v, x)
            y == align(v, a + n)
            l == determinant_octets(Len(data))
            z == a + 8 * Len(l)
            h == TakeField(v, s, a, n)
            d == decode_length_determinant(v, s, x)
            r == decode_octet_string(v, meta, s, x)
<1>0. Len(data) \in Nat /\ << >> \in Seq(Bit) /\ Len(<< >>) = 0
  BY LenProperties, EmptySeq
<1>1. /\ a \in Nat
      /\ fixed(meta) => Holds(s.bits, a, OctetBits(data)) /\ e = a + 8 * Len(data)
      /\ short(meta) /\ ~ fixed(meta) =>
           /\ n \in 0 .. 16 /\ Len(data) < 2 ^ n /\ Holds(s.bits, a, Bits(Len(data), n))
           /\ y \in Nat /\ Holds(s.bits, y, OctetBits(data)) /\ e = y + 8 * Len(data)
      /\ ~ short(meta) =>
           /\ Len(data) < LengthLimit /\ Holds(s.bits, a, OctetBits(l))
           /\ z \in Nat /\ Holds(s.bits, z + Len(<< >>), OctetBits(data))
           /\ e = z + Len(<< >>) + 8 * Len(data)
  <2>. DEFINE head == << >>
  <2>1. head \in Seq(Bit) /\ Lies(s.bits, v, x, encode_string(meta, Len(data), head, data), e)
    BY <1>0
  <2>. DEFINE k == Len(data)
  <2>2. k \in Nat /\ (fixed(meta) \/ Writable(meta, k))
    BY <1>0
  <2>3. Lies(s.bits, v, x, encode_string(meta, k, head, data), e)
    BY <2>1
  <2>. HIDE DEF head, k
  <2>4. LET i == bits_needed_unsigned(range(meta) - 1)
            b == align(v, x)
            f == align(v, b + i)
            g == determinant_octets(k)
            j == b + 8 * Len(g)
        IN  /\ b \in Nat
            /\ fixed(meta) => Holds(s.bits, b, OctetBits(data)) /\ e = b + 8 * Len(data)
            /\ short(meta) /\ ~ fixed(meta) =>
                 /\ i \in 0 .. 16 /\ k < 2 ^ i /\ Holds(s.bits, b, Bits(k, i))
                 /\ f \in Nat /\ Holds(s.bits, f, OctetBits(data)) /\ e = f + 8 * Len(data)
            /\ ~ short(meta) =>
                 /\ k < LengthLimit /\ Holds(s.bits, b, OctetBits(g))
                 /\ j \in Nat /\ Holds(s.bits, j, head)
                 /\ Holds(s.bits, j + Len(head), OctetBits(data))
                 /\ e = j + Len(head) + 8 * Len(data)
    BY <2>1, <2>2, <2>3, StringPlaces
  <2>. QED
    BY <2>4 DEF k, head
<1>2. /\ fixed(meta) => r = TakeOctets(s, a, meta.min)
      /\ short(meta) /\ ~ fixed(meta) => r = octets_after(s, h, h.at)
      /\ ~ short(meta) => r = octets_after(s, d, d.at)
  <2>1. fixed(meta) => short(meta)
    BY ShortMeta
  <2>. QED
    BY <2>1 DEF decode_octet_string, TakeCounted
<1>3. ASSUME fixed(meta) PROVE Reads(r, data, e, s.size)
  <2>. HIDE DEF r, a
  <2>1. Reads(TakeOctets(s, a, Len(data)), data, a + 8 * Len(data), s.size)
    BY <1>1, <1>3, ReadsOctets
  <2>. QED
    BY <1>1, <1>2, <1>3, <2>1
<1>4. ASSUME short(meta), ~ fixed(meta) PROVE Reads(r, data, e, s.size)
  <2>. HIDE DEF r, a, n
  <2>1. Reads(h, <<Len(data)>>, y, s.size)
    BY <1>0, <1>1, <1>4, ReadsField
  <2>. HIDE DEF h, y
  <2>2. Reads(octets_after(s, h, h.at), data, y + 8 * Len(data), s.size)
    BY <1>1, <1>4, <2>1, ReadsAfter
  <2>. QED
    BY <1>1, <1>2, <1>4, <2>2
<1>5. ASSUME ~ short(meta) PROVE Reads(r, data, e, s.size)
  <2>1. Reads(d, <<Len(data)>>, z, s.size)
    BY <1>0, <1>1, <1>5, ReadsDeterminant
  <2>2. z + Len(<< >>) = z /\ z \in Nat
    <3>. HIDE DEF z
    <3>. QED
      BY <1>0, <1>1, <1>5
  <2>. HIDE DEF r, d, z
  <2>3. Reads(octets_after(s, d, d.at), data, z + 8 * Len(data), s.size)
    BY <1>1, <1>5, <2>1, <2>2, ReadsAfter
  <2>. QED
    BY <1>1, <1>2, <1>5, <2>2, <2>3
<1>. HIDE DEF r
<1>6. fixed(meta) \/ (short(meta) /\ ~ fixed(meta)) \/ ~ short(meta)
  OBVIOUS
<1>7. Reads(r, data, e, s.size)
  BY <1>3, <1>4, <1>5, <1>6
<1>. QED
  BY <1>7 DEF r

(* The contents of a BIT STRING and, before them, how many bits are unused. *)
LEMMA ReadsBits ==
  ASSUME NEW s, OctetView(s), NEW y \in Nat, NEW data \in Seq(Octet), Len(data) >= 1,
         data[1] < 8, Holds(s.bits, y, OctetBits(Tail(data)))
  PROVE  /\ Reads(bit_string_octets(s, bit_length(data), y), data,
                  y + 8 * Len(Tail(data)), s.size)
         /\ <<data[1]>> \o Tail(data) = data /\ Tail(data) \in Seq(Octet)
         /\ data[1] \in Octet /\ Len(Tail(data)) \in Nat
<1>. DEFINE t == Tail(data)
            n == Len(t)
            u == data[1]
            q == bit_length(data)
            r == TakeOctets(s, y, n)
            b == bit_string_octets(s, q, y)
            z == s.size
<1>1. Len(data) \in Nat /\ data # << >>
  BY LenProperties, EmptySeq
<1>2. t \in Seq(Octet) /\ Head(data) = u /\ u \in Octet /\ n = Len(data) - 1
  BY <1>1, HeadTailProperties
<1>3. <<u>> \o t = data
  <2>1. Len(data) = 1 + Len(t) /\ Len(<<u>>) = 1 /\ <<u>> \in Seq(Octet)
    BY <1>1, <1>2
  <2>. DEFINE w == <<u>> \o t
  <2>2. w \in Seq(Octet) /\ Len(w) = 1 + Len(t)
        /\ \A i \in 1 .. Len(w) : w[i] = IF i <= 1 THEN <<u>>[i] ELSE t[i - 1]
    BY <1>2, <2>1, ConcatProperties
  <2>3. \A i \in 1 .. Len(t) : t[i] = data[i + 1]
    BY <1>1, HeadTailProperties
  <2>4. Len(t) \in Nat
    BY <1>2, LenProperties
  <2>. HIDE DEF w, t
  <2>5. ASSUME NEW i \in 1 .. Len(data) PROVE w[i] = data[i]
    <3>1. CASE i = 1
      BY <2>1, <2>2, <2>4, <3>1
    <3>2. CASE i # 1
      <4>1. i - 1 \in 1 .. Len(t) /\ i \in 1 .. Len(w) /\ ~ (i <= 1) /\ (i - 1) + 1 = i
        BY <2>1, <2>2, <2>4, <3>2
      <4>2. w[i] = t[i - 1]
        BY <2>2, <4>1
      <4>3. t[i - 1] = data[(i - 1) + 1]
        BY <2>3, <4>1
      <4>. QED
        BY <4>1, <4>2, <4>3
    <3>. QED
      BY <3>1, <3>2
  <2>6. w = data
    BY <2>1, <2>2, <2>5, SeqEqual
  <2>. QED
    BY <2>6 DEF w, t
<1>4. n \in Nat /\ u \in Nat /\ u < 8 /\ z \in Nat
  <2>1. n \in Nat
    BY <1>2, LenProperties
  <2>2. u \in Nat
    BY <1>2, OctetNumber
  <2>. QED
    BY <2>1, <2>2, AlignedView
<1>5. q = 8 * n - u
  <2>1. q = 8 * (Len(data) - 1) - u
    BY DEF bit_length
  <2>. HIDE DEF q
  <2>. QED
    BY <1>2, <2>1
<1>6. (q + 7) \div 8 = n /\ 8 * n - q = u
  <2>. HIDE DEF q, n, u
  <2>. QED
    BY <1>4, <1>5
<1>7. b = IF r.err = "ok" THEN Got("ok", <<u>> \o r.data, r.at) ELSE r
  <2>. DEFINE o == (q + 7) \div 8
              p == TakeOctets(s, y, o)
  <2>1. b = IF p.err = "ok" THEN Got("ok", <<8 * o - q>> \o p.data, p.at) ELSE p
    BY DEF bit_string_octets
  <2>2. o = n /\ 8 * o - q = u
    BY <1>6
  <2>. HIDE DEF o, q, b, n, u
  <2>. QED
    BY <2>1, <2>2
<1>8. Reads(r, t, y + 8 * n, z)
  BY <1>2, ReadsOctets
<1>9. Reads(b, data, y + 8 * n, z)
  <2>. HIDE DEF r, b, n, u, t, z
  <2>1. CASE y + 8 * n <= z
    <3>1. r = Got("ok", t, y + 8 * n)
      BY <1>8, <2>1 DEF Reads
    <3>2. r.err = "ok" /\ r.data = t /\ r.at = y + 8 * n
      BY <3>1, GotFields
    <3>3. b = Got("ok", data, y + 8 * n)
      BY <1>3, <1>7, <3>2
    <3>. QED
      BY <2>1, <3>3 DEF Reads
  <2>2. CASE ~ (y + 8 * n <= z)
    <3>1. r.err = "buffer_underflow"
      BY <1>8, <2>2 DEF Reads
    <3>2. b.err = "buffer_underflow"
      BY <1>7, <3>1
    <3>. QED
      BY <2>2, <3>2 DEF Reads
  <2>. QED
    BY <2>1, <2>2
<1>. QED
  BY <1>2, <1>3, <1>4, <1>9

(* A BIT STRING without a constraint.                                      *)
LEMMA ReadsFreeBits ==
  ASSUME NEW s, OctetView(s), NEW z \in Nat, NEW data \in Seq(Octet), Len(data) >= 1,
         data[1] < 8, bit_length(data) \in Nat, NEW d,
         Reads(d, <<bit_length(data)>>, z, s.size),
         Holds(s.bits, z, Bits(data[1], 8)), Holds(s.bits, z + 8, OctetBits(Tail(data)))
  PROVE  Reads(free_bit_string(s, d, TakeNumber(s, d.at, 8)), data,
               z + 8 + 8 * Len(Tail(data)), s.size)
<1>. DEFINE t == Tail(data)
            n == Len(t)
            u == data[1]
            q == bit_length(data)
            w == TakeNumber(s, d.at, 8)
            r == bit_string_octets(s, d.data[1], w.at)
            f == free_bit_string(s, d, w)
            m == s.size
            e == (z + 8) + 8 * n
<1>1. /\ Reads(bit_string_octets(s, q, z + 8), data, e, m)
      /\ <<u>> \o t = data /\ u \in Octet /\ n \in Nat
  <2>1. z + 8 \in Nat
    OBVIOUS
  <2>. QED
    BY <2>1, ReadsBits
<1>2. m \in Nat
  BY AlignedView
<1>3. Reads(TakeNumber(s, z, 8), <<u>>, z + 8, m)
  <2>1. u \in Nat /\ u < 2 ^ 8 /\ 8 \in 0 .. 16
    BY <1>1, OctetNumber
  <2>. HIDE DEF u, m
  <2>2. Holds(s.bits, z, Bits(u, 8))
    BY DEF u
  <2>. QED
    BY <2>1, <2>2, ReadsNumber DEF m
<1>4. f = CASE d.err # "ok" -> d
            [] d.err = "ok" /\ w.err # "ok" -> w
            [] d.err = "ok" /\ w.err = "ok" ->
                 IF r.err = "ok" THEN Got("ok", w.data \o Tail(r.data), r.at) ELSE r
  BY DEF free_bit_string
<1>5. Reads(d, <<q>>, z, m)
  OBVIOUS
<1>. HIDE DEF t, n, u, q, f, m
<1>6. CASE ~ (z <= m)
  <2>. HIDE DEF w, r
  <2>1. d.err = "buffer_underflow"
    BY <1>5, <1>6 DEF Reads
  <2>2. f = d
    BY <1>4, <2>1
  <2>3. ~ (e <= m)
    BY <1>1, <1>2, <1>6
  <2>4. Reads(f, data, e, m)
    BY <2>1, <2>2, <2>3 DEF Reads
  <2>. QED
    BY <2>4 DEF f, m, n, t, w
<1>7. CASE z <= m
  <2>1. d = Got("ok", <<q>>, z)
    BY <1>5, <1>7 DEF Reads
  <2>2. d.err = "ok" /\ d.data = <<q>> /\ d.at = z
    BY <2>1, GotFields
  <2>3. d.data[1] = q
    BY <2>2
  <2>4. Reads(w, <<u>>, z + 8, m)
    BY <1>3, <2>2
  <2>. HIDE DEF w
  <2>5. CASE ~ (z + 8 <= m)
    <3>. HIDE DEF r
    <3>1. w.err = "buffer_underflow"
      BY <2>4, <2>5 DEF Reads
    <3>2. f = w
      BY <1>4, <2>2, <3>1
    <3>3. ~ (e <= m)
      BY <1>1, <1>2, <2>5
    <3>4. Reads(f, data, e, m)
      BY <3>1, <3>2, <3>3 DEF Reads
    <3>. QED
      BY <3>4 DEF f, m, n, t, w
  <2>6. CASE z + 8 <= m
    <3>1. w = Got("ok", <<u>>, z + 8)
      BY <2>4, <2>6 DEF Reads
    <3>2. w.err = "ok" /\ w.data = <<u>> /\ w.at = z + 8
      BY <3>1, GotFields
    <3>3. Reads(r, data, e, m)
      BY <1>1, <2>3, <3>2
    <3>. HIDE DEF r
    <3>4. f = IF r.err = "ok" THEN Got("ok", w.data \o Tail(r.data), r.at) ELSE r
      BY <1>4, <2>2, <3>2
    <3>. HIDE DEF e
    <3>5. Reads(f, data, e, m)
      <4>1. CASE e <= m
        <5>1. r = Got("ok", data, e)
          BY <3>3, <4>1 DEF Reads
        <5>2. r.err = "ok" /\ r.data = data /\ r.at = e
          BY <5>1, GotFields
        <5>3. w.data \o Tail(r.data) = data
          BY <1>1, <3>2, <5>2 DEF t
        <5>4. f = Got("ok", data, e)
          BY <3>4, <5>2, <5>3
        <5>. QED
          BY <4>1, <5>4 DEF Reads
      <4>2. CASE ~ (e <= m)
        <5>1. r.err = "buffer_underflow"
          BY <3>3, <4>2 DEF Reads
        <5>2. f = r
          BY <3>4, <5>1
        <5>. QED
          BY <4>2, <5>1, <5>2 DEF Reads
      <4>. QED
        BY <4>1, <4>2
    <3>. QED
      BY <3>5 DEF e, f, m, n, t, w
  <2>. QED
    BY <2>5, <2>6
<1>. QED
  BY <1>6, <1>7

(* A BIT STRING.                                                           *)
LEMMA ReadsBitString ==
  ASSUME NEW v, NEW s, OctetView(s), NEW x \in Nat, NEW meta, MetaOK(meta),
         NEW data \in Seq(Octet), Len(data) >= 1, data[1] < 8, bit_length(data) \in Nat,
         fixed(meta) \/ Writable(meta, bit_length(data)), fixed(meta) => meta.min = bit_length(data), NEW e,
         Lies(s.bits, v, x,
              encode_string(meta, bit_length(data), Bits(data[1], 8), Tail(data)), e)
  PROVE  Reads(decode_bit_string(v, meta, s, x), data, e, s.size)
<1>. DEFINE q == bit_length(data)
            t == Tail(data)
            hd == Bits(data[1], 8)
            n == bits_needed_unsigned(range(meta) - 1)
            a == align(v, x)
            y == align(v, a + n)
            l == determinant_octets(q)
            z == a + 8 * Len(l)
            h == TakeField(v, s, a, n)
            d == decode_length_determinant(v, s, x)
            r == decode_bit_string(v, meta, s, x)
<1>0. q \in Nat /\ t \in Seq(Octet) /\ data[1] \in Octet /\ Len(t) \in Nat
  <2>1. Len(data) \in Nat /\ data # << >>
    BY LenProperties, EmptySeq
  <2>2. t \in Seq(Octet) /\ Head(data) = data[1] /\ data[1] \in Octet
    BY <2>1, HeadTailProperties
  <2>. QED
    BY <2>2, LenProperties
<1>1. hd \in Seq(Bit) /\ Len(hd) = 8
  <2>1. data[1] \in Int /\ 8 \in 0 .. 16
    BY <1>0, OctetNumber
  <2>. QED
    BY <2>1, BitsAreBits
<1>2. /\ a \in Nat
      /\ fixed(meta) => Holds(s.bits, a, OctetBits(t)) /\ e = a + 8 * Len(t)
      /\ short(meta) /\ ~ fixed(meta) =>
           /\ n \in 0 .. 16 /\ q < 2 ^ n /\ Holds(s.bits, a, Bits(q, n))
           /\ y \in Nat /\ Holds(s.bits, y, OctetBits(t)) /\ e = y + 8 * Len(t)
      /\ ~ short(meta) =>
           /\ q < LengthLimit /\ Holds(s.bits, a, OctetBits(l))
           /\ z \in Nat /\ Holds(s.bits, z, hd) /\ Holds(s.bits, z + Len(hd), OctetBits(t))
           /\ e = z + Len(hd) + 8 * Len(t)
  <2>1. Lies(s.bits, v, x, encode_string(meta, q, hd, t), e) /\ (fixed(meta) \/ Writable(meta, q))
    OBVIOUS
  <2>2. q \in Nat /\ t \in Seq(Octet) /\ hd \in Seq(Bit)
    BY <1>0, <1>1
  <2>. HIDE DEF q, t, hd
  <2>3. /\ align(v, x) \in Nat
        /\ fixed(meta) => /\ Holds(s.bits, align(v, x), OctetBits(t))
                          /\ e = align(v, x) + 8 * Len(t)
        /\ short(meta) /\ ~ fixed(meta) =>
             /\ n \in 0 .. 16 /\ q < 2 ^ n /\ Holds(s.bits, align(v, x), Bits(q, n))
             /\ align(v, align(v, x) + n) \in Nat
             /\ Holds(s.bits, align(v, align(v, x) + n), OctetBits(t))
             /\ e = align(v, align(v, x) + n) + 8 * Len(t)
        /\ ~ short(meta) =>
             /\ q < LengthLimit /\ Holds(s.bits, align(v, x), OctetBits(determinant_octets(q)))
             /\ align(v, x) + 8 * Len(determinant_octets(q)) \in Nat
             /\ Holds(s.bits, align(v, x) + 8 * Len(determinant_octets(q)), hd)
             /\ Holds(s.bits, align(v, x) + 8 * Len(determinant_octets(q)) + Len(hd), OctetBits(t))
             /\ e = align(v, x) + 8 * Len(determinant_octets(q)) + Len(hd) + 8 * Len(t)
    BY <2>1, <2>2, StringPlaces, SMTT(60)
  <2>. QED
    BY <2>3
<1>3. /\ fixed(meta) => r = bit_string_octets(s, meta.min, a)
      /\ short(meta) /\ ~ fixed(meta) =>
           r = IF h.err = "ok" THEN bit_string_octets(s, h.data[1], h.at) ELSE h
      /\ ~ short(meta) => r = free_bit_string(s, d, TakeNumber(s, d.at, 8))
  <2>1. fixed(meta) => short(meta)
    BY ShortMeta
  <2>. QED
    BY <2>1 DEF decode_bit_string
<1>. HIDE DEF r
<1>4. ASSUME fixed(meta) PROVE Reads(r, data, e, s.size)
  <2>1. Reads(bit_string_octets(s, q, a), data, a + 8 * Len(t), s.size)
    <3>. HIDE DEF a
    <3>. QED
      BY <1>2, <1>4, ReadsBits
  <2>. QED
    BY <1>2, <1>3, <1>4, <2>1
<1>5. ASSUME short(meta), ~ fixed(meta) PROVE Reads(r, data, e, s.size)
  <2>1. Reads(h, <<q>>, y, s.size)
    <3>. HIDE DEF a, n, q
    <3>. QED
      BY <1>0, <1>2, <1>5, ReadsField
  <2>2. Reads(bit_string_octets(s, q, y), data, y + 8 * Len(t), s.size)
    <3>. HIDE DEF y
    <3>. QED
      BY <1>2, <1>5, ReadsBits
  <2>3. s.size \in Nat /\ y \in Nat
    BY <1>2, <1>5, AlignedView
  <2>4. e = y + 8 * Len(t)
    BY <1>2, <1>5
  <2>5. r = IF h.err = "ok" THEN bit_string_octets(s, h.data[1], h.at) ELSE h
    BY <1>3, <1>5
  <2>. HIDE DEF h, y, q, t
  <2>6. CASE y <= s.size
    <3>1. h = Got("ok", <<q>>, y)
      BY <2>1, <2>6 DEF Reads
    <3>2. h.err = "ok" /\ h.data = <<q>> /\ h.at = y
      BY <3>1, GotFields
    <3>3. h.data[1] = q
      BY <3>2
    <3>4. r = bit_string_octets(s, q, y)
      BY <2>5, <3>2, <3>3
    <3>. QED
      BY <2>2, <2>4, <3>4
  <2>7. CASE ~ (y <= s.size)
    <3>1. h.err = "buffer_underflow"
      BY <2>1, <2>7 DEF Reads
    <3>2. r = h
      BY <2>5, <3>1
    <3>3. ~ (e <= s.size)
      BY <1>0, <2>3, <2>4, <2>7
    <3>. QED
      BY <3>1, <3>2, <3>3 DEF Reads
  <2>. QED
    BY <2>6, <2>7
<1>6. ASSUME ~ short(meta) PROVE Reads(r, data, e, s.size)
  <2>1. Reads(d, <<q>>, z, s.size)
    <3>. HIDE DEF q
    <3>. QED
      BY <1>0, <1>2, <1>6, ReadsDeterminant
  <2>2. /\ z \in Nat /\ Holds(s.bits, z, hd) /\ Holds(s.bits, z + 8, OctetBits(t))
        /\ e = z + 8 + 8 * Len(t)
    <3>. HIDE DEF z, hd
    <3>. QED
      BY <1>1, <1>2, <1>6
  <2>. HIDE DEF d, z
  <2>3. Reads(free_bit_string(s, d, TakeNumber(s, d.at, 8)), data, z + 8 + 8 * Len(t), s.size)
    BY <2>1, <2>2, ReadsFreeBits
  <2>. QED
    BY <1>3, <1>6, <2>2, <2>3
<1>7. fixed(meta) \/ (short(meta) /\ ~ fixed(meta)) \/ ~ short(meta)
  OBVIOUS
<1>8. Reads(r, data, e, s.size)
  BY <1>4, <1>5, <1>6, <1>7
<1>. QED
  BY <1>8 DEF r

(* An index, of an ENUMERATED or a CHOICE.                                 *)
LEMMA ReadsIndex ==
  ASSUME NEW v, NEW s, OctetView(s), NEW x \in Nat, NEW meta, CountedInBits(meta.max),
         NEW k \in 0 .. meta.max - 1, NEW e, Lies(s.bits, v, x, encode_index(meta, k), e)
  PROVE  Reads(decode_choice_index(v, meta, s, x), <<k>>, e, s.size)
<1>. DEFINE n == bits_needed_unsigned(meta.max - 1)
            b == Bits(k, n)
            h == TakeField(v, s, x, n)
            r == decode_choice_index(v, meta, s, x)
<1>0. meta.max \in Int /\ k \in Nat /\ k <= meta.max - 1 /\ ~ (k >= meta.max)
  BY SMT DEF CountedInBits
<1>1. n \in 0 .. 16 /\ k < 2 ^ n
  BY <1>0, BitsNeeded
<1>2. b \in Seq(Bit) /\ Len(b) = n
  <2>1. k \in Int /\ n \in 0 .. 16
    BY <1>0, <1>1
  <2>. HIDE DEF n
  <2>. QED
    BY <2>1, BitsAreBits
<1>3. Lies(s.bits, v, x, <<Put(b), Align>>, e)
  BY DEF encode_index
<1>4. Holds(s.bits, x, b) /\ e = align(v, x + n)
  <2>1. b \in Seq(Bit)
    BY <1>2
  <2>2. Holds(s.bits, x, b) /\ e = align(v, x + Len(b))
    <3>. HIDE DEF b
    <3>. QED
      BY <1>3, <2>1, LiesLast
  <2>. QED
    BY <1>2, <2>2
<1>5. Reads(h, <<k>>, e, s.size)
  <2>. HIDE DEF n
  <2>1. Reads(h, <<k>>, align(v, x + n), s.size)
    BY <1>0, <1>1, <1>4, ReadsField
  <2>. QED
    BY <1>4, <2>1
<1>6. r = IF h.err = "ok" /\ h.data[1] >= meta.max
            THEN Got("value_out_of_range", << >>, h.at) ELSE h
  BY DEF decode_choice_index, checked_index
<1>7. r = h
  <2>. HIDE DEF h, r
  <2>1. CASE e <= s.size
    <3>1. h = Got("ok", <<k>>, e)
      BY <1>5, <2>1 DEF Reads
    <3>2. h.data = <<k>>
      BY <3>1, GotFields
    <3>3. h.data[1] = k
      BY <3>2
    <3>. QED
      BY <1>0, <1>6, <3>3
  <2>2. CASE ~ (e <= s.size)
    <3>1. h.err = "buffer_underflow"
      BY <1>5, <2>2 DEF Reads
    <3>. QED
      BY <1>6, <3>1
  <2>. QED
    BY <2>1, <2>2
<1>. QED
  BY <1>5, <1>7

(* A BOOLEAN.                                                              *)
LEMMA ReadsBoolean ==
  ASSUME NEW v, NEW s, OctetView(s), NEW x \in Nat, NEW k \in Bit, NEW e,
         Lies(s.bits, v, x, <<Put(<<k>>), Align>>, e)
  PROVE  Reads(decode_boolean(v, s, x), <<k>>, e, s.size)
<1>. DEFINE b == <<k>>
<1>1. b \in Seq(Bit) /\ Len(b) = 1
  OBVIOUS
<1>2. Bits(k, 1) = b /\ k \in Nat /\ k < 2 ^ 1 /\ 1 \in 0 .. 16
  BY OneBit
<1>3. Holds(s.bits, x, b) /\ e = align(v, x + Len(b))
  <2>1. Lies(s.bits, v, x, <<Put(b), Align>>, e)
    OBVIOUS
  <2>2. b \in Seq(Bit)
    BY <1>1
  <2>. HIDE DEF b
  <2>3. Lies(s.bits, v, x, <<Put(b), Align>>, e) =>
          Holds(s.bits, x, b) /\ e = align(v, x + Len(b))
    BY <2>2, LiesLast, SMTT(60)
  <2>. QED
    BY <2>1, <2>3
<1>4. Reads(TakeField(v, s, x, 1), <<k>>, align(v, x + 1), s.size)
  BY <1>2, <1>3, ReadsField
<1>. QED
  BY <1>1, <1>3, <1>4 DEF decode_boolean

(* The preamble of a SEQUENCE: its extension bit and its optionals.        *)
LEMMA ReadsStart ==
  ASSUME NEW v, NEW s, OctetView(s), NEW x \in Nat, NEW meta,
         NEW b \in Seq(Bit), Len(b) = meta.max + (IF meta.bounded THEN 1 ELSE 0), NEW e,
         Lies(s.bits, v, x, <<Put(b), Align>>, e)
  PROVE  Reads(decode_sequence_start(v, meta, s, x), b, e, s.size)
<1>. DEFINE n == meta.max + (IF meta.bounded THEN 1 ELSE 0)
            f == [i \in 1 .. n |-> s.bits[x + i]]
            r == decode_sequence_start(v, meta, s, x)
            z == s.size
<1>1. Holds(s.bits, x, b) /\ e = align(v, x + Len(b))
  <2>1. \A m, c : \A g \in Seq(Bit) : Lies(m, v, x, <<Put(g), Align>>, c) =>
          Holds(m, x, g) /\ c = align(v, x + Len(g))
    BY LiesLast, SMTT(60)
  <2>2. b \in Seq(Bit) /\ Lies(s.bits, v, x, <<Put(b), Align>>, e)
    OBVIOUS
  <2>. QED
    BY <2>1, <2>2
<1>2. Len(b) = n /\ n \in Nat
  BY LenProperties
<1>3. f = b
  <2>1. \A i \in 1 .. Len(b) : s.bits[x + i] = b[i]
    BY <1>1, HeldBits
  <2>. HIDE DEF n
  <2>2. b = [i \in 1 .. n |-> b[i]]
    BY <1>2
  <2>. QED
    BY <1>2, <2>1, <2>2
<1>4. z \in Nat /\ x + n \in Nat /\ (align(v, x + n) <= z <=> x + n <= z)
  <2>1. x + n \in Nat
    <3>. HIDE DEF n
    <3>. QED
      BY <1>2
  <2>. QED
    BY <2>1, AlignedView
<1>5. r = IF x + n > z THEN Got("buffer_underflow", << >>, z) ELSE Got("ok", f, align(v, x + n))
  BY DEF decode_sequence_start, underflow
<1>6. e = align(v, x + n)
  BY <1>1, <1>2
<1>. HIDE DEF n, f, r, z
<1>7. CASE e <= z
  <2>1. r = Got("ok", b, e)
    BY <1>3, <1>4, <1>5, <1>6, <1>7
  <2>. QED
    BY <1>7, <2>1 DEF Reads, r, z
<1>8. CASE ~ (e <= z)
  <2>1. x + n > z
    BY <1>4, <1>6, <1>8
  <2>2. r.err = "buffer_underflow"
    BY <1>5, <2>1, GotFields
  <2>. QED
    BY <1>8, <2>2 DEF Reads, r, z
<1>. QED
  BY <1>7, <1>8

(* A number in the bits of a range, between alignments.                    *)
LEMMA ReadsShort ==
  ASSUME NEW v, NEW s, OctetView(s), NEW x \in Nat, NEW n \in 0 .. 16, NEW k \in Nat, k < 2 ^ n,
         NEW e, Lies(s.bits, v, x, <<Align, Put(Bits(k, n)), Align>>, e)
  PROVE  Reads(TakeField(v, s, align(v, x), n), <<k>>, e, s.size)
<1>. DEFINE b == Bits(k, n)
            a == align(v, x)
<1>1. b \in Seq(Bit) /\ Len(b) = n
  <2>1. k \in Int
    OBVIOUS
  <2>. QED
    BY <2>1, BitsAreBits
<1>2. Holds(s.bits, a, b) /\ e = align(v, a + Len(b))
  <2>1. Lies(s.bits, v, x, <<Align, Put(b), Align>>, e)
    OBVIOUS
  <2>2. b \in Seq(Bit)
    BY <1>1
  <2>3. Holds(s.bits, align(v, x), b) /\ e = align(v, align(v, x) + Len(b))
    <3>. HIDE DEF b, a
    <3>. QED
      BY <2>1, <2>2, LiesField
  <2>. QED
    BY <2>3
<1>3. a \in Nat
  BY AlignFacts
<1>4. Reads(TakeField(v, s, a, n), <<k>>, align(v, a + n), s.size)
  <2>. HIDE DEF a
  <2>. QED
    BY <1>2, <1>3, ReadsField
<1>. QED
  BY <1>1, <1>2, <1>4

(* The number of the elements of a SEQUENCE OF.                            *)
LEMMA ReadsMany ==
  ASSUME NEW v, NEW s, OctetView(s), NEW x \in Nat, NEW meta, MetaOK(meta),
         NEW k \in Nat, Writable(meta, k), meta.bounded => k \in meta.min .. meta.max, NEW e,
         Lies(s.bits, v, x, IF short(meta) THEN field(meta, k)
                                           ELSE encode_length_determinant(k), e)
  PROVE  Reads(decode_sequence_of_length(v, meta, s, x), <<k>>, e, s.size)
<1>. DEFINE n == bits_needed_unsigned(range(meta) - 1)
            h == TakeField(v, s, align(v, x), n)
            r == decode_sequence_of_length(v, meta, s, x)
            l == determinant_octets(k)
<1>1. CASE short(meta)
  <2>1. n \in 0 .. 16
    BY <1>1, ShortMeta, BitsNeeded
  <2>2. k < 2 ^ n
    BY <1>1 DEF Writable
  <2>3. Lies(s.bits, v, x, <<Align, Put(Bits(k, n)), Align>>, e)
    BY <1>1 DEF field
  <2>4. Reads(h, <<k>>, e, s.size)
    <3>. HIDE DEF n
    <3>. QED
      BY <2>1, <2>2, <2>3, ReadsShort
  <2>5. r = IF h.err = "ok" /\ h.data[1] \notin meta.min .. meta.max
              THEN Got("value_out_of_range", << >>, h.at) ELSE h
    BY <1>1 DEF decode_sequence_of_length
  <2>6. k \in meta.min .. meta.max
    BY <1>1, ShortMeta
  <2>7. r = h
    <3>. HIDE DEF h, r
    <3>1. CASE e <= s.size
      <4>1. h = Got("ok", <<k>>, e)
        BY <2>4, <3>1 DEF Reads
      <4>2. h.data = <<k>>
        BY <4>1, GotFields
      <4>3. h.data[1] = k
        BY <4>2
      <4>. QED
        BY <2>5, <2>6, <4>3
    <3>2. CASE ~ (e <= s.size)
      <4>1. h.err = "buffer_underflow"
        BY <2>4, <3>2 DEF Reads
      <4>. QED
        BY <2>5, <4>1
    <3>. QED
      BY <3>1, <3>2
  <2>. QED
    BY <2>4, <2>7
<1>2. CASE ~ short(meta)
  <2>1. k < LengthLimit
    BY <1>2 DEF Writable
  <2>2. Lies(s.bits, v, x, <<Align, Put(OctetBits(l))>>, e)
    BY <1>2 DEF encode_length_determinant
  <2>3. OctetBits(l) \in Seq(Bit) /\ Len(OctetBits(l)) = 8 * Len(l)
    <3>1. l \in Seq(Octet)
      BY LengthOctets
    <3>. HIDE DEF l
    <3>. QED
      BY <3>1, OctetBitsAreBits
  <2>4. Holds(s.bits, align(v, x), OctetBits(l)) /\ e = align(v, x) + 8 * Len(l)
    <3>. DEFINE b == OctetBits(l)
    <3>1. b \in Seq(Bit) /\ Lies(s.bits, v, x, <<Align, Put(b)>>, e)
      BY <2>2, <2>3
    <3>2. Holds(s.bits, align(v, x), b) /\ e = align(v, x) + Len(b)
      <4>. HIDE DEF b
      <4>. QED
        BY <3>1, LiesAligned
    <3>. QED
      BY <2>3, <3>2
  <2>5. Reads(decode_length_determinant(v, s, x), <<k>>, e, s.size)
    BY <2>1, <2>4, ReadsDeterminant
  <2>6. r = decode_length_determinant(v, s, x)
    BY <1>2 DEF decode_sequence_of_length
  <2>. QED
    BY <2>5, <2>6
<1>. QED
  BY <1>1, <1>2

(* An INTEGER between two bounds.                                          *)
LEMMA ReadsWhole ==
  ASSUME NEW v, NEW s, OctetView(s), NEW x \in Nat, x <= s.size, NEW call \in GoodCall,
         call.op = "integer", call.meta.bounded, NEW e, Lies(s.bits, v, x, Layout(call), e)
  PROVE  Reads(decode_constrained_whole_number(v, call.meta, s, x), <<call.data[1]>>, e, s.size)
<1>. DEFINE r == range(call.meta)
            a == call.meta.min
            k == call.data[1] - a
            n == bits_needed_unsigned(r - 1)
            h == TakeField(v, s, align(v, x), n)
            c == TakeCounted(v, s, x)
            d == decode_constrained_whole_number(v, call.meta, s, x)
            low == Got("ok", <<a>>, x)
            mid == IF h.err = "ok" THEN Got("ok", <<a + h.data[1]>>, h.at) ELSE h
            high == IF c.err = "ok" THEN Got("ok", <<a + Unsigned(c.data)>>, c.at) ELSE c
            z == s.size
            i == call.data[1]
<1>1. r \in Int
  BY CallMeta, ShortMeta
<1>2. d = CASE r <= 1 -> low [] r > 1 /\ r <= 65536 -> mid [] r > 65536 -> high
  BY SMT DEF decode_constrained_whole_number, offset_from
<1>3. k \in Nat /\ a + k = i
  BY BoundedLayout
<1>4. \/ r <= 1 /\ Layout(call) = << >> /\ k = 0
      \/ /\ r > 1 /\ CountedInBits(r)
         /\ k <= r - 1
         /\ Layout(call) = <<Align, Put(Bits(k, n)), Align>>
      \/ /\ ~ CountedInBits(r)
         /\ \E t \in Seq(Octet) :
              Layout(call) = Counted(t) /\ Unsigned(t) = k /\ Len(t) \in 1 .. WordOctets
  BY BoundedLayout
<1>5. CASE r <= 1 /\ Layout(call) = << >> /\ k = 0
  <2>1. d = low
    <3>. HIDE DEF d, low, mid, high, r
    <3>. QED
      BY <1>1, <1>2, <1>5, SMT
  <2>2. e = x
    BY <1>5, LiesEmpty
  <2>3. a = i
    <3>1. a \in Int
      BY CallMeta DEF MetaOK
    <3>. HIDE DEF a, k, i
    <3>. QED
      BY <1>3, <1>5, <3>1
  <2>. HIDE DEF d
  <2>4. Reads(d, <<i>>, e, z)
    BY <2>1, <2>2, <2>3 DEF Reads
  <2>. QED
    BY <2>4 DEF d
<1>6. CASE r > 1 /\ CountedInBits(r) /\ k <= r - 1
           /\ Layout(call) = <<Align, Put(Bits(k, n)), Align>>
  <2>1. d = mid
    <3>. HIDE DEF d, low, mid, high, r
    <3>. QED
      BY <1>1, <1>2, <1>6, SMT DEF CountedInBits
  <2>2. n \in 0 .. 16 /\ k < 2 ^ n
    <3>. HIDE DEF r, k
    <3>. QED
      BY <1>3, <1>6, BitsNeeded
  <2>3. Reads(h, <<k>>, e, z)
    <3>1. Lies(s.bits, v, x, <<Align, Put(Bits(k, n)), Align>>, e)
      BY <1>6
    <3>. HIDE DEF n, k
    <3>. QED
      BY <1>3, <2>2, <3>1, ReadsShort
  <2>. HIDE DEF h, d, k, a, i, z
  <2>4. Reads(d, <<i>>, e, z)
    <3>1. CASE e <= z
      <4>1. h = Got("ok", <<k>>, e)
        BY <2>3, <3>1 DEF Reads
      <4>2. h.err = "ok" /\ h.data = <<k>> /\ h.at = e
        BY <4>1, GotFields
      <4>3. h.data[1] = k
        BY <4>2
      <4>4. d = Got("ok", <<i>>, e)
        BY <1>3, <2>1, <4>2, <4>3
      <4>. QED
        BY <3>1, <4>4 DEF Reads
    <3>2. CASE ~ (e <= z)
      <4>1. h.err = "buffer_underflow"
        BY <2>3, <3>2 DEF Reads
      <4>2. d = h
        BY <2>1, <4>1
      <4>. QED
        BY <3>2, <4>1, <4>2 DEF Reads
    <3>. QED
      BY <3>1, <3>2
  <2>. QED
    BY <2>4 DEF d, i, z
<1>7. CASE ~ CountedInBits(r)
           /\ \E t \in Seq(Octet) :
                Layout(call) = Counted(t) /\ Unsigned(t) = k /\ Len(t) \in 1 .. WordOctets
  <2>1. d = high
    <3>. HIDE DEF d, low, mid, high, r
    <3>. QED
      BY <1>1, <1>2, <1>7, SMT DEF CountedInBits
  <2>2. PICK t \in Seq(Octet) :
          Layout(call) = Counted(t) /\ Unsigned(t) = k /\ Len(t) \in 1 .. WordOctets
    BY <1>7
  <2>3. Reads(c, t, e, z)
    <3>1. Len(t) < LengthLimit
      <4>. DEFINE l == Len(t)
      <4>1. l \in 1 .. WordOctets
        BY <2>2
      <4>. HIDE DEF l
      <4>2. l \in Nat /\ l <= 8
        BY <4>1, WordAssumption
      <4>3. l < LengthLimit
        BY <4>2, SMT DEF LengthLimit
      <4>. QED
        BY <4>3 DEF l
    <3>2. Lies(s.bits, v, x, Counted(t), e)
      BY <2>2
    <3>. QED
      BY <3>1, <3>2, ReadsCounted
  <2>. HIDE DEF c, d, k, a, i, z
  <2>4. Reads(d, <<i>>, e, z)
    <3>1. CASE e <= z
      <4>1. c = Got("ok", t, e)
        BY <2>3, <3>1 DEF Reads
      <4>2. c.err = "ok" /\ c.data = t /\ c.at = e
        BY <4>1, GotFields
      <4>3. Unsigned(c.data) = k
        BY <2>2, <4>2
      <4>4. d = Got("ok", <<i>>, e)
        BY <1>3, <2>1, <4>2, <4>3
      <4>. QED
        BY <3>1, <4>4 DEF Reads
    <3>2. CASE ~ (e <= z)
      <4>1. c.err = "buffer_underflow"
        BY <2>3, <3>2 DEF Reads
      <4>2. d = c
        BY <2>1, <4>1
      <4>. QED
        BY <3>2, <4>1, <4>2 DEF Reads
    <3>. QED
      BY <3>1, <3>2
  <2>. QED
    BY <2>4 DEF d, i, z
<1>8. Reads(d, <<i>>, e, z)
  BY <1>4, <1>5, <1>6, <1>7
<1>. QED
  BY <1>8

(* A read answers what its call wrote where it starts, or that octets are  *)
(* missing, when they are.                                                 *)
LEMMA ReadsCall ==
  ASSUME NEW call \in GoodCall, Meant(call), ~ Batched(call), OctetView(view),
         position \in Nat, position <= view.size, NEW e,
         Lies(view.bits, variant, position, Layout(call), e)
  PROVE  Reads(Decode(call), Meaning(call), e, view.size)
<1>. DEFINE data == call.data
            meta == call.meta
            z == view.size
            p == Layout(call)
<1>0. call.op \in Operations /\ MetaOK(meta)
  BY CallMeta
<1>1. call.op # "sequence_start" => Meaning(call) = data
  BY DEF Meaning
<1>2. Lies(view.bits, variant, position, p, e)
  OBVIOUS
<1>3. CASE call.op = "integer"
  <2>1. meta.bounded
    BY <1>3 DEF Batched
  <2>2. Decode(call) = decode_constrained_whole_number(variant, meta, view, position)
    BY <1>3, <2>1, SMT DEF Decode
  <2>3. data = <<data[1]>>
    BY <1>3 DEF Meant
  <2>4. Reads(decode_constrained_whole_number(variant, meta, view, position), <<data[1]>>, e, z)
    BY <1>3, <2>1, ReadsWhole
  <2>. QED
    BY <1>1, <1>3, <2>2, <2>3, <2>4
<1>4. CASE call.op = "boolean"
  <2>1. Decode(call) = decode_boolean(variant, view, position)
    BY <1>4, SMT DEF Decode
  <2>2. PICK k \in Bit : data = <<k>>
    BY <1>4, BooleanCall DEF Bit
  <2>3. p = <<Put(<<k>>), Align>>
    BY <1>4, <2>2, OtherLayouts
  <2>4. Reads(decode_boolean(variant, view, position), <<k>>, e, z)
    BY <2>3, ReadsBoolean
  <2>. QED
    BY <1>1, <1>4, <2>1, <2>2, <2>4
<1>5. CASE call.op \in {"null", "sequence_end"}
  <2>1. Decode(call) = Got("ok", << >>, position)
    BY <1>5, SMT DEF Decode
  <2>2. data = << >>
    BY <1>5 DEF Meant
  <2>3. p = << >>
    BY <1>5, OtherLayouts
  <2>4. e = position
    BY <2>3, LiesEmpty
  <2>5. Meaning(call) = << >>
    BY <1>1, <1>5, <2>2
  <2>. QED
    BY <2>1, <2>4, <2>5 DEF Reads
<1>6. CASE call.op = "octet_string"
  <2>1. Decode(call) = decode_octet_string(variant, meta, view, position)
    BY <1>6, SMT DEF Decode
  <2>2. data \in Seq(Octet) /\ (fixed(meta) => meta.min = Len(data))
    BY <1>6, OctetCall
  <2>3. fixed(meta) \/ Writable(meta, Len(data))
    BY <1>6 DEF Meant
  <2>4. p = encode_string(meta, Len(data), << >>, data)
    BY <1>6, OtherLayouts
  <2>5. Reads(decode_octet_string(variant, meta, view, position), data, e, z)
    <3>1. Lies(view.bits, variant, position, encode_string(meta, Len(data), << >>, data), e)
      BY <2>4
    <3>. HIDE DEF data, meta, p
    <3>. QED
      BY <1>0, <2>2, <2>3, <3>1, ReadsString
  <2>. QED
    BY <1>1, <1>6, <2>1, <2>5
<1>7. CASE call.op = "bit_string"
  <2>1. Decode(call) = decode_bit_string(variant, meta, view, position)
    BY <1>7, SMT DEF Decode
  <2>2. /\ data \in Seq(Octet) /\ Len(data) >= 1 /\ bit_length(data) \in Nat /\ data[1] < 8
        /\ fixed(meta) => meta.min = bit_length(data)
    BY <1>7, BitStringCall
  <2>3. fixed(meta) \/ Writable(meta, bit_length(data))
    BY <1>7 DEF Meant
  <2>4. p = encode_string(meta, bit_length(data), Bits(data[1], 8), Tail(data))
    BY <1>7, OtherLayouts
  <2>5. Reads(decode_bit_string(variant, meta, view, position), data, e, z)
    <3>1. Lies(view.bits, variant, position,
               encode_string(meta, bit_length(data), Bits(data[1], 8), Tail(data)), e)
      BY <2>4
    <3>. HIDE DEF data, meta, p
    <3>. QED
      BY <1>0, <2>2, <2>3, <3>1, ReadsBitString
  <2>. QED
    BY <1>1, <1>7, <2>1, <2>5
<1>8. ASSUME call.op \in {"enumerated", "choice_index"}, p = encode_index(meta, data[1])
      PROVE  Reads(decode_choice_index(variant, meta, view, position), data, e, z)
  <2>1. CountedInBits(meta.max) /\ data[1] \in 0 .. meta.max - 1
    BY <1>8, IndexCall
  <2>2. data = <<data[1]>>
    BY <1>8 DEF Meant
  <2>3. Lies(view.bits, variant, position, encode_index(meta, data[1]), e)
    BY <1>8
  <2>. DEFINE k == data[1]
  <2>4. Reads(decode_choice_index(variant, meta, view, position), <<k>>, e, z)
    <3>1. k \in 0 .. meta.max - 1
      BY <2>1
    <3>. HIDE DEF k, meta, data, p
    <3>2. Lies(view.bits, variant, position, encode_index(meta, k), e)
      BY <2>3 DEF k
    <3>. QED
      BY <2>1, <3>1, <3>2, ReadsIndex
  <2>. QED
    BY <2>2, <2>4
<1>9. CASE call.op = "enumerated"
  <2>1. Decode(call) = decode_enumerated(variant, meta, view, position)
    BY <1>9, SMT DEF Decode
  <2>2. p = IF meta.max <= 1 THEN << >> ELSE encode_index(meta, data[1])
    BY <1>9, OtherLayouts
  <2>3. CASE meta.max <= 1
    <3>1. e = position
      BY <2>2, <2>3, LiesEmpty
    <3>2. data = <<0>>
      <4>1. meta.max \in Nat \ {0} /\ data[1] \in 0 .. meta.max - 1
        BY <1>9, IndexCall
      <4>. DEFINE m == meta.max
                  k == data[1]
      <4>2. m \in Nat \ {0} /\ m <= 1 /\ k \in 0 .. m - 1
        BY <2>3, <4>1
      <4>3. data = <<k>>
        BY <1>9 DEF Meant
      <4>. HIDE DEF m, k
      <4>4. k = 0
        BY <4>2
      <4>. QED
        BY <4>3, <4>4
    <3>3. Decode(call) = Got("ok", data, e)
      BY <2>1, <2>3, <3>1, <3>2 DEF decode_enumerated
    <3>. QED
      BY <1>1, <1>9, <3>1, <3>3 DEF Reads
  <2>4. CASE ~ (meta.max <= 1)
    <3>1. Decode(call) = decode_choice_index(variant, meta, view, position)
      BY <2>1, <2>4 DEF decode_enumerated
    <3>2. Reads(decode_choice_index(variant, meta, view, position), data, e, z)
      BY <1>8, <1>9, <2>2, <2>4
    <3>. QED
      BY <1>1, <1>9, <3>1, <3>2
  <2>. QED
    BY <2>3, <2>4
<1>10. CASE call.op = "choice_index"
  <2>1. Decode(call) = decode_choice_index(variant, meta, view, position)
    BY <1>10, SMT DEF Decode
  <2>2. p = encode_index(meta, data[1])
    BY <1>10, OtherLayouts
  <2>3. Reads(decode_choice_index(variant, meta, view, position), data, e, z)
    BY <1>8, <1>10, <2>2
  <2>. QED
    BY <1>1, <1>10, <2>1, <2>3
<1>11. CASE call.op = "sequence_start"
  <2>1. Decode(call) = decode_sequence_start(variant, meta, view, position)
    BY <1>11, SMT DEF Decode
  <2>. DEFINE b == (IF meta.bounded THEN <<0>> ELSE << >>) \o data
  <2>2. b \in Seq(Bit) /\ Len(b) = meta.max + (IF meta.bounded THEN 1 ELSE 0)
    BY <1>11, PreambleBits
  <2>3. p = <<Put(b), Align>>
    BY <1>11, OtherLayouts
  <2>4. Meaning(call) = b
    <3>1. CASE meta.bounded
      BY <1>11, <3>1 DEF Meaning
    <3>2. CASE ~ meta.bounded
      <4>1. b = << >> \o data
        BY <3>2
      <4>2. data \in Seq(Bit)
        BY <1>11, StartCall
      <4>3. << >> \o data = data
        <5>. HIDE DEF data
        <5>. QED
          BY <4>2, ConcatEmptySeq
      <4>. QED
        BY <3>2, <4>1, <4>3 DEF Meaning
    <3>. QED
      BY <3>1, <3>2
  <2>5. Reads(decode_sequence_start(variant, meta, view, position), b, e, z)
    <3>1. Lies(view.bits, variant, position, <<Put(b), Align>>, e)
      BY <2>3
    <3>. HIDE DEF b, meta, data, p
    <3>. QED
      BY <2>2, <3>1, ReadsStart
  <2>. QED
    BY <2>1, <2>4, <2>5
<1>12. CASE call.op = "sequence_of_length"
  <2>1. Decode(call) = decode_sequence_of_length(variant, meta, view, position)
    BY <1>12, SMT DEF Decode
  <2>. DEFINE k == data[1]
  <2>2. k \in Nat /\ (meta.bounded => k \in meta.min .. meta.max)
    BY <1>12, ManyCall
  <2>3. data = <<k>> /\ Writable(meta, k)
    BY <1>12 DEF Meant
  <2>4. p = IF short(meta) THEN field(meta, k) ELSE encode_length_determinant(k)
    BY <1>12, OtherLayouts
  <2>5. Reads(decode_sequence_of_length(variant, meta, view, position), <<k>>, e, z)
    <3>1. Lies(view.bits, variant, position,
               IF short(meta) THEN field(meta, k) ELSE encode_length_determinant(k), e)
      BY <2>4
    <3>. HIDE DEF k, meta, data, p
    <3>. QED
      BY <1>0, <2>2, <2>3, <3>1, ReadsMany
  <2>. QED
    BY <1>1, <1>12, <2>1, <2>3, <2>5
<1>13. CASE call.op = "oid"
  <2>1. Decode(call) = TakeCounted(variant, view, position)
    BY <1>13, SMT DEF Decode
  <2>2. data \in Seq(Octet)
    BY <1>13, OctetCall
  <2>3. Len(data) < LengthLimit
    BY <1>13 DEF Meant
  <2>4. p = Counted(data)
    BY <1>13, <2>2, OtherLayouts, CountedForm
  <2>5. Reads(TakeCounted(variant, view, position), data, e, z)
    <3>1. Lies(view.bits, variant, position, Counted(data), e)
      BY <2>4
    <3>. HIDE DEF data, p
    <3>. QED
      BY <2>2, <2>3, <3>1, ReadsCounted
  <2>. QED
    BY <1>1, <1>13, <2>1, <2>5
<1>. QED
  BY <1>0, <1>3, <1>4, <1>5, <1>6, <1>7, <1>9, <1>10, <1>11, <1>12, <1>13 DEF Operations

(* The octets of an unconstrained INTEGER that is meant stand for it.      *)
LEMMA MeantInteger ==
  ASSUME NEW call \in GoodCall, Meant(call), Batched(call)
  PROVE  \E s \in Seq(Octet) :
           /\ Layout(call) = Counted(s) /\ Len(s) \in 1 .. WordOctets
           /\ call.data = <<decode_integer_value(s)>> /\ Meaning(call) = call.data
<1>. DEFINE v == call.data[1]
            k == integer_octets(v)
            s == Octets(v, k)
<1>1. call.op = "integer" /\ ~ call.meta.bounded
  BY DEF Batched
<1>2. v \in SWord /\ v \in Int
  BY <1>1, IntegerCall
<1>3. Layout(call) = Counted(s) /\ k \in 1 .. WordOctets /\ s \in Seq(Octet) /\ Len(s) = k
  BY <1>1, UnboundedLayout
<1>4. call.data = <<v>> /\ (v < 0 => ~ needs_extra(v))
  BY <1>1 DEF Meant
<1>5. Meaning(call) = call.data
  BY <1>1 DEF Meaning
<1>6. Fits(v, k)
  <2>. HIDE DEF v
  <2>1. k = encoded_integer_size(v)
    BY <1>2, <1>4 DEF integer_octets, encoded_integer_size
  <2>2. Fits(v, encoded_integer_size(v))
    BY <1>2, EncodedSizeFits
  <2>. QED
    BY <2>1, <2>2
<1>7. decode_integer_value(s) = v
  <2>. HIDE DEF v, k
  <2>. QED
    BY <1>2, <1>3, <1>6, OctetsReadBack
<1>8. call.data = <<decode_integer_value(s)>>
  BY <1>4, <1>7
<1>. HIDE DEF s, k, v
<1>9. Len(s) \in 1 .. WordOctets
  BY <1>3
<1>. QED
  BY <1>3, <1>5, <1>8, <1>9

(* The value of a slot is what the octets stand for.                       *)
LEMMA SlotValue ==
  ASSUME NEW p, Slots(p), NEW s \in Seq(Octet), Len(s) \in 1 .. WordOctets
  PROVE  LET q == Append(p, DecodeSlot(s))
         IN  batch_decode_integers(q)[Len(q)] = [err |-> "ok", value |-> decode_integer_value(s)]
<1>. DEFINE d == DecodeSlot(s)
            q == Append(p, d)
            n == Len(s)
<1>1. Slots(q) /\ Len(q) = Len(p) + 1 /\ q[Len(q)] = d /\ Len(p) \in Nat
  BY SlotsAppend
<1>2. d.size = n /\ d.value_buf = s
  BY DEF DecodeSlot
<1>3. Unsigned(s) \in Nat /\ n \in 0 .. WordOctets /\ Weight[n] \in Nat
  <2>1. n \in 1 .. WordOctets
    OBVIOUS
  <2>. HIDE DEF n
  <2>2. n \in 0 .. WordOctets
    BY <2>1, WordAssumption
  <2>. QED
    BY <2>2, UnsignedIsNat, WeightIsNat
<1>. HIDE DEF d, q
<1>4. Len(q) \in 1 .. Len(q)
  BY <1>1
<1>5. batch_decode_integers(q)[Len(q)] =
        [err |-> "ok",
         value |-> IF Negative(q[Len(q)].value_buf)
                     THEN Unsigned(q[Len(q)].value_buf) - Weight[q[Len(q)].size]
                     ELSE Unsigned(q[Len(q)].value_buf)]
  BY <1>1, <1>4, SlotsDecode
<1>6. q[Len(q)].value_buf = s /\ q[Len(q)].size = n
  BY <1>1, <1>2
<1>7. batch_decode_integers(q)[Len(q)] =
        [err |-> "ok", value |-> IF Negative(s) THEN Unsigned(s) - Weight[n] ELSE Unsigned(s)]
  BY <1>5, <1>6
<1>8. (IF Negative(s) THEN Unsigned(s) - Weight[n] ELSE Unsigned(s)) = decode_integer_value(s)
  <2>1. decode_integer_value(s) = (IF Negative(s) THEN -Weight[n] ELSE 0) + Unsigned(s)
    BY DEF decode_integer_value
  <2>. DEFINE u == Unsigned(s)
              w == Weight[n]
              m == Negative(s)
              i == decode_integer_value(s)
  <2>2. u \in Nat /\ w \in Nat /\ i = (IF m THEN -w ELSE 0) + u
    BY <1>3, <2>1
  <2>. HIDE DEF u, w, m, i
  <2>3. (IF m THEN u - w ELSE u) = i
    BY <2>2
  <2>. QED
    BY <2>3 DEF u, w, m, i
<1>. QED
  BY <1>7, <1>8 DEF q, d

(* An unconstrained INTEGER is answered at once, whether or not it fills   *)
(* the batch.                                                              *)
LEMMA ReadsBatched ==
  ASSUME PerInv, NEW call \in GoodCall, Meant(call), Batched(call), OctetView(view),
         position \in Nat, NEW e, Lies(view.bits, variant, position, Layout(call), e),
         NEW r, r = decode_integer_octets(variant, view, position), decode_integer(r)
  PROVE  IF e <= view.size THEN got'.err = "ok" /\ got'.data = Meaning(call) /\ r.at = e
                           ELSE got'.err = "buffer_underflow"
<1>. DEFINE z == view.size
<1>1. PICK s \in Seq(Octet) :
        /\ Layout(call) = Counted(s) /\ Len(s) \in 1 .. WordOctets
        /\ call.data = <<decode_integer_value(s)>> /\ Meaning(call) = call.data
  BY MeantInteger
<1>2. Reads(r, s, e, z)
  <2>1. Lies(view.bits, variant, position, Counted(s), e)
    BY <1>1
  <2>2. Reads(decode_integer_octets(variant, view, position), s, e, view.size)
    BY <1>1, <2>1, ReadsInteger
  <2>. QED
    BY <2>2
<1>. DEFINE slots == Append(pending, DecodeSlot(r.data))
            last == batch_decode_integers(slots)[Len(slots)]
<1>. HIDE DEF z
<1>3. CASE ~ (e <= z)
  <2>1. r.err = "buffer_underflow"
    BY <1>2, <1>3 DEF Reads
  <2>2. got' = [err |-> r.err, data |-> IF r.err = "ok" THEN <<0>> ELSE << >>]
    BY <2>1, Zenon DEF decode_integer
  <2>. QED
    BY <1>3, <2>1, <2>2 DEF z
<1>4. CASE e <= z
  <2>1. r = Got("ok", s, e)
    BY <1>2, <1>4 DEF Reads
  <2>2. r.err = "ok" /\ r.data = s /\ r.at = e
    BY <2>1, GotFields
  <2>3. r.data # << >>
    <3>1. Len(s) # 0
      <4>. DEFINE l == Len(s)
      <4>1. l \in 1 .. WordOctets
        BY <1>1
      <4>. HIDE DEF l
      <4>2. l # 0
        BY <4>1, WordAssumption
      <4>. QED
        BY <4>2 DEF l
    <3>. QED
      BY <2>2, <3>1, EmptySeq
  <2>4. CASE batch_full(slots)
    <3>1. got' = [err |-> last.err, data |-> <<last.value>>]
      BY <2>2, <2>3, <2>4, Zenon DEF decode_integer
    <3>2. Slots(pending)
      BY DEF PerInv, ReaderOK
    <3>3. last = [err |-> "ok", value |-> decode_integer_value(s)]
      BY <1>1, <2>2, <3>2, SlotValue
    <3>. HIDE DEF last
    <3>4. last.err = "ok" /\ last.value = decode_integer_value(s)
      BY <3>3
    <3>5. got'.err = "ok" /\ got'.data = <<decode_integer_value(s)>>
      BY <3>1, <3>4
    <3>. QED
      BY <1>1, <1>4, <2>2, <3>5 DEF z
  <2>5. CASE ~ batch_full(slots)
    <3>1. got' = [err |-> "ok", data |-> <<decode_integer_value(r.data)>>]
      BY <2>2, <2>3, <2>5, Zenon DEF decode_integer
    <3>2. got'.err = "ok" /\ got'.data = <<decode_integer_value(s)>>
      BY <2>2, <3>1
    <3>. QED
      BY <1>1, <1>4, <2>2, <3>2 DEF z
  <2>. QED
    BY <2>4, <2>5
<1>. QED
  BY <1>3, <1>4

-----------------------------------------------------------------------------
(* Reader and writer in step.                                              *)

(* Before a message is complete nothing of it is read.                     *)
Waiting ==
  /\ expected = << >> /\ asked = NoCall /\ finished = FALSE
  /\ got.err = "ok" /\ position = 0 /\ arrived = 0

(* What is still to be read is the end of what was written.                *)
Remaining ==
  /\ Len(expected) <= Len(sent)
  /\ \A i \in 1 .. Len(expected) : expected[i] = sent[Len(sent) - Len(expected) + i]

(* The next read starts where its call wrote, in octets that have arrived. *)
Place == Len(sent) - Len(expected) + 1

Placed ==
  /\ (IF got.err = "ok" THEN position ELSE saved) = marks[Place]
  /\ marks[Place] <= 8 * arrived
  /\ got.err # "ok" => expected # << >>

(* A read that failed has still something to read; a message that was read *)
(* to its end has nothing.                                                 *)
Sync ==
  /\ sealed = FALSE => Waiting
  /\ sealed = TRUE => /\ Remaining
                      /\ finished = FALSE => Placed
                      /\ finished = TRUE => expected = << >> /\ asked = NoCall
  /\ RoundTrip
  /\ PaddingAccepted

(* A script's calls are meant, and so are those that were written.         *)
LEMMA MeantCalls ==
  ASSUME OnlyMeant, NEW call \in GoodCall
  PROVE  Meant(call)
<1>1. call \in Calls
  BY DEF GoodCall
<1>2. PICK script \in Scripts : call \in {script[i] : i \in DOMAIN script}
  BY <1>1 DEF Calls
<1>3. PICK i \in DOMAIN script : call = script[i]
  BY <1>2
<1>. QED
  BY <1>3 DEF OnlyMeant

(* The places of the calls that were written.                              *)
LEMMA WrittenMessage ==
  ASSUME PerInv, sent # << >>
  PROVE  /\ sent \in Seq(GoodCall) /\ Len(sent) \in Nat
         /\ marks \in Seq(Nat) /\ Len(marks) = Len(sent) + 1 /\ marks[1] = 0
         /\ Top(marks) = marks[Len(sent) + 1] /\ Top(marks) <= at /\ at \in Nat
         /\ \A i \in 1 .. Len(sent) + 1 : marks[i] \in Nat /\ marks[i] <= at
         /\ \A i \in 1 .. Len(sent) :
              Lies(memory, variant, marks[i], Layout(sent[i]), marks[i + 1])
<1>1. WriterOK
  BY DEF PerInv
<1>3. PICK script \in Scripts : Written(script, memory, variant, marks, todo, sent)
  BY <1>1 DEF WriterOK
<1>4. /\ sent \in Seq(GoodCall) /\ Len(marks) = Len(sent) + 1
      /\ \A i \in 1 .. Len(sent) : Lies(memory, variant, marks[i], Layout(sent[i]), marks[i + 1])
  BY <1>3 DEF Written
<1>5. Tidy(variant, marks)
  BY <1>1 DEF WriterOK
<1>6. /\ marks \in Seq(Nat) /\ marks[1] = 0
      /\ \A i \in 1 .. Len(marks) : marks[i] <= Top(marks)
  BY <1>5 DEF Tidy
<1>7. Top(marks) \in Nat /\ Top(marks) <= at /\ at \in Nat
  BY <1>1, TopInMemory
<1>8. Len(sent) \in Nat
  BY <1>4, LenProperties
<1>9. ASSUME NEW i \in 1 .. Len(sent) + 1 PROVE marks[i] \in Nat /\ marks[i] <= at
  <2>1. i \in 1 .. Len(marks)
    BY <1>4
  <2>2. marks[i] \in Nat /\ marks[i] <= Top(marks)
    BY <1>6, <2>1, ElementOfSeq
  <2>. QED
    BY <1>7, <2>2
<1>. QED
  BY <1>4, <1>6, <1>7, <1>8, <1>9 DEF Top

(* Those of a complete message.                                            *)
LEMMA SealedMessage ==
  ASSUME PerInv, sealed = TRUE
  PROVE  /\ sent \in Seq(GoodCall) /\ Len(sent) \in Nat
         /\ marks \in Seq(Nat) /\ Len(marks) = Len(sent) + 1 /\ marks[1] = 0
         /\ Top(marks) = marks[Len(sent) + 1] /\ Top(marks) <= at /\ at \in Nat
         /\ \A i \in 1 .. Len(sent) + 1 : marks[i] \in Nat /\ marks[i] <= at
         /\ \A i \in 1 .. Len(sent) :
              Lies(memory, variant, marks[i], Layout(sent[i]), marks[i + 1])
<1>1. sent # << >>
  BY DEF PerInv, WriterOK
<1>. QED
  BY <1>1, WrittenMessage

(* What a read finds.                                                      *)
LEMMA NextElement ==
  ASSUME PerInv, Sync, expected # << >>, got.err = "ok"
  PROVE  /\ sealed = TRUE /\ finished = FALSE
         /\ Place \in 1 .. Len(sent) /\ Head(expected) = sent[Place]
         /\ Head(expected) \in GoodCall /\ Tail(expected) \in Seq(GoodCall)
         /\ Len(Tail(expected)) = Len(expected) - 1 /\ Len(expected) \in Nat
         /\ \A i \in 1 .. Len(Tail(expected)) : Tail(expected)[i] = expected[i + 1]
         /\ position = marks[Place] /\ position <= 8 * arrived
         /\ position \in Nat /\ arrived \in Nat
<1>1. expected \in Seq(GoodCall) /\ arrived \in Nat /\ finished \in BOOLEAN
  BY DEF PerInv, ReaderOK
<1>2. sealed \in BOOLEAN
  BY DEF PerInv, WriterOK
<1>3. sealed = TRUE
  BY <1>2 DEF Sync, Waiting
<1>4. Remaining /\ (finished = FALSE => Placed) /\ (finished = TRUE => expected = << >>)
  BY <1>3 DEF Sync
<1>5. finished = FALSE
  BY <1>1, <1>4
<1>6. position = marks[Place] /\ marks[Place] <= 8 * arrived
  BY <1>4, <1>5 DEF Placed
<1>7. Len(expected) \in Nat /\ Len(expected) >= 1
  BY <1>1, LenProperties, EmptySeq
<1>8. Len(expected) <= Len(sent) /\ expected[1] = sent[Len(sent) - Len(expected) + 1]
  BY <1>4, <1>7 DEF Remaining
<1>9. Len(sent) \in Nat /\ \A i \in 1 .. Len(sent) + 1 : marks[i] \in Nat
  BY <1>3, SealedMessage
<1>10. Place \in 1 .. Len(sent) /\ Head(expected) = sent[Place]
  <2>1. Head(expected) = expected[1]
    BY <1>1, HeadTailProperties
  <2>. QED
    BY <1>7, <1>8, <1>9, <2>1 DEF Place
<1>11. Place \in 1 .. Len(sent) + 1
  BY <1>9, <1>10
<1>12. position \in Nat /\ position <= 8 * arrived
  BY <1>6, <1>9, <1>11
<1>. QED
  BY <1>1, <1>3, <1>5, <1>6, <1>7, <1>10, <1>12, HeadTailProperties

(* What it answers.                                                        *)
LEMMA ReadsNext ==
  ASSUME OnlyMeant, PerInv, Sync, ReadNext
  PROVE  LET e == marks[Place + 1]
         IN  IF e <= 8 * arrived
               THEN got'.err = "ok" /\ got'.data = Meaning(Head(expected)) /\ position' = e
               ELSE got'.err = "buffer_underflow"
<1>. DEFINE call == Head(expected)
            e == marks[Place + 1]
<1>1. expected # << >> /\ got.err = "ok"
  BY DEF ReadNext
<1>2. /\ sealed = TRUE /\ Place \in 1 .. Len(sent) /\ call = sent[Place] /\ call \in GoodCall
      /\ position = marks[Place] /\ position <= 8 * arrived
      /\ position \in Nat /\ arrived \in Nat
  BY <1>1, NextElement
<1>3. view.bits = memory /\ view.size = 8 * arrived /\ IsView(view)
  BY ArrivedView
<1>4. OctetView(view)
  <2>1. (8 * arrived) % 8 = 0
    BY <1>2
  <2>. QED
    BY <1>3, <2>1 DEF OctetView
<1>5. Lies(view.bits, variant, position, Layout(call), e)
  <2>1. Lies(memory, variant, marks[Place], Layout(sent[Place]), marks[Place + 1])
    BY <1>2, SealedMessage
  <2>. QED
    BY <1>2, <1>3, <2>1
<1>6. Meant(call)
  BY <1>2, MeantCalls
<1>. HIDE DEF call, e
<1>7. CASE Batched(call)
  <2>. DEFINE r == decode_integer_octets(variant, view, position)
  <2>1. decode_integer(r) /\ position' = r.at
    BY <1>7 DEF ReadNext, call
  <2>. HIDE DEF r
  <2>2. IF e <= view.size THEN got'.err = "ok" /\ got'.data = Meaning(call) /\ r.at = e
                          ELSE got'.err = "buffer_underflow"
    BY <1>2, <1>4, <1>5, <1>6, <1>7, <2>1, ReadsBatched DEF r
  <2>. QED
    BY <1>3, <2>1, <2>2 DEF call, e
<1>8. CASE ~ Batched(call)
  <2>. DEFINE r == Decode(call)
  <2>1. got' = [err |-> r.err, data |-> r.data] /\ position' = r.at
    BY <1>8 DEF ReadNext, call
  <2>2. Reads(r, Meaning(call), e, view.size)
    <3>1. position <= view.size
      BY <1>2, <1>3
    <3>. QED
      BY <1>2, <1>4, <1>5, <1>6, <1>8, <3>1, ReadsCall
  <2>. HIDE DEF r
  <2>3. CASE e <= view.size
    <3>1. r = Got("ok", Meaning(call), e)
      BY <2>2, <2>3 DEF Reads
    <3>2. r.err = "ok" /\ r.data = Meaning(call) /\ r.at = e
      BY <3>1, GotFields
    <3>3. got'.err = "ok" /\ got'.data = Meaning(call) /\ position' = e
      BY <2>1, <3>2
    <3>. QED
      BY <1>3, <2>3, <3>3 DEF call, e
  <2>4. CASE ~ (e <= view.size)
    <3>1. r.err = "buffer_underflow"
      BY <2>2, <2>4 DEF Reads
    <3>2. got'.err = "buffer_underflow"
      BY <2>1, <3>1
    <3>. QED
      BY <1>3, <2>4, <3>2 DEF call, e
  <2>. QED
    BY <2>3, <2>4
<1>. QED
  BY <1>7, <1>8

-----------------------------------------------------------------------------
(* Every step keeps reader and writer in step.                             *)
LEMMA SyncInit ==
  ASSUME Init
  PROVE  Sync
<1>1. /\ sealed = FALSE /\ finished = FALSE /\ expected = << >> /\ asked = NoCall
      /\ got = NoAnswer /\ position = 0 /\ arrived = 0
  BY DEF Init
<1>2. Waiting
  BY <1>1 DEF Waiting, NoAnswer
<1>. QED
  BY <1>1, <1>2 DEF Sync, RoundTrip, PaddingAccepted

(* While the writer writes, the reader waits.                              *)
LEMMA SyncWriting ==
  ASSUME Sync, sealed = FALSE, sealed' = FALSE, UNCHANGED <<arrived, reader>>
  PROVE  Sync'
<1>1. Waiting
  BY DEF Sync
<1>2. /\ expected' = expected /\ asked' = asked /\ finished' = finished
      /\ got' = got /\ position' = position /\ arrived' = arrived
  BY DEF reader
<1>3. Waiting'
  BY <1>1, <1>2 DEF Waiting
<1>4. asked' = NoCall /\ finished' = FALSE
  BY <1>1, <1>2 DEF Waiting
<1>. QED
  BY <1>3, <1>4 DEF Sync, RoundTrip, PaddingAccepted

(* A call is written, or refused, before the message is complete.          *)
LEMMA SyncWriteNext ==
  ASSUME PerInv, Sync, WriteNext \/ WriteRefused
  PROVE  Sync'
<1>1. todo # << >> /\ UNCHANGED <<arrived, reader>> /\ sealed' = sealed
  BY DEF WriteNext, WriteRefused
<1>2. sealed \in BOOLEAN /\ (sealed => todo = << >>)
  BY DEF PerInv, WriterOK
<1>3. sealed = FALSE
  BY <1>1, <1>2
<1>. QED
  BY <1>1, <1>3, SyncWriting

(* The next message begins with a reader that waits.                       *)
LEMMA SyncNextMessage ==
  ASSUME NextMessage
  PROVE  Sync'
<1>1. PICK zero \in BOOLEAN, script \in Scripts : StartMessage(zero, script)
  BY DEF NextMessage
<1>2. /\ sealed' = FALSE /\ finished' = FALSE /\ expected' = << >> /\ asked' = NoCall
      /\ got' = NoAnswer /\ position' = 0 /\ arrived' = 0
  BY <1>1 DEF StartMessage
<1>3. Waiting'
  BY <1>2 DEF Waiting, NoAnswer
<1>. QED
  BY <1>2, <1>3 DEF Sync, RoundTrip, PaddingAccepted

(* The reader starts at the first mark.                                    *)
LEMMA Syncflush ==
  ASSUME PerInv, Sync, flush
  PROVE  Sync'
<1>1. /\ ~ sealed /\ sealed' = TRUE /\ expected' = sent /\ sent' = sent
      /\ UNCHANGED <<arrived, position, saved, got, asked, finished, marks>>
  BY DEF flush
<1>2. sealed = FALSE
  <2>1. sealed \in BOOLEAN
    BY DEF PerInv, WriterOK
  <2>. QED
    BY <1>1, <2>1
<1>3. Waiting
  BY <1>2 DEF Sync
<1>4. /\ got'.err = "ok" /\ position' = 0 /\ arrived' = 0 /\ asked' = NoCall
      /\ finished' = FALSE
  BY <1>1, <1>3 DEF Waiting
<1>5. sent \in Seq(GoodCall) /\ marks[1] = 0 /\ Len(sent) \in Nat
  <2>1. sent # << >>
    BY DEF flush
  <2>. QED
    BY <2>1, WrittenMessage
<1>6. Remaining'
  <2>1. Len(sent) <= Len(sent) /\ \A i \in 1 .. Len(sent) : Len(sent) - Len(sent) + i = i
    BY <1>5
  <2>. QED
    BY <1>1, <2>1 DEF Remaining
<1>7. Place' = 1
  <2>1. Place' = Len(sent) - Len(sent) + 1
    BY <1>1 DEF Place
  <2>. QED
    BY <1>5, <2>1
<1>8. Placed'
  <2>1. marks'[1] = 0
    BY <1>1, <1>5
  <2>. QED
    BY <1>4, <1>7, <2>1 DEF Placed
<1>. QED
  BY <1>1, <1>4, <1>6, <1>8 DEF Sync, RoundTrip, PaddingAccepted

(* More octets arrive: what was read, and where, stays.                    *)
LEMMA SyncArrive ==
  ASSUME PerInv, Sync, Arrive
  PROVE  Sync'
<1>1. /\ sealed /\ 8 * arrived < at /\ arrived' \in {arrived + 1, at \div 8}
      /\ UNCHANGED <<machine, writer, reader>>
  BY DEF Arrive
<1>2. /\ sealed' = sealed /\ sent' = sent /\ marks' = marks /\ at' = at /\ cleared' = cleared
      /\ expected' = expected /\ asked' = asked /\ finished' = finished /\ got' = got
      /\ position' = position /\ saved' = saved /\ tried' = tried
  BY <1>1 DEF writer, reader
<1>3. sealed = TRUE
  <2>1. sealed \in BOOLEAN
    BY DEF PerInv, WriterOK
  <2>. QED
    BY <1>1, <2>1
<1>4. Remaining /\ (finished = FALSE => Placed) /\ (finished = TRUE => expected = << >> /\ asked = NoCall)
  BY <1>3 DEF Sync
<1>5. Remaining'
  BY <1>2, <1>4 DEF Remaining
<1>6. Place' = Place
  BY <1>2 DEF Place
<1>7. arrived \in Nat /\ arrived' \in Nat /\ 8 * arrived <= 8 * arrived'
  <2>1. arrived \in Nat /\ at \in Nat
    BY <1>3, SealedMessage DEF PerInv, ReaderOK
  <2>2. CASE arrived' = arrived + 1
    BY <2>1, <2>2
  <2>3. CASE arrived' = at \div 8
    BY <1>1, <2>1, <2>3
  <2>. QED
    BY <1>1, <2>2, <2>3
<1>8. ASSUME finished = FALSE PROVE Placed'
  <2>1. /\ (IF got.err = "ok" THEN position ELSE saved) = marks[Place]
        /\ marks[Place] <= 8 * arrived /\ (got.err # "ok" => expected # << >>)
    BY <1>4, <1>8 DEF Placed
  <2>2. marks[Place] \in Nat
    <3>1. Len(sent) \in Nat /\ (\A i \in 1 .. Len(sent) + 1 : marks[i] \in Nat)
      BY <1>3, SealedMessage
    <3>2. Len(expected) \in Nat /\ Len(expected) <= Len(sent)
      <4>1. expected \in Seq(GoodCall)
        BY DEF PerInv, ReaderOK
      <4>. QED
        BY <1>4, <4>1, LenProperties DEF Remaining
    <3>. QED
      BY <3>1, <3>2 DEF Place
  <2>3. marks[Place] <= 8 * arrived'
    <3>. DEFINE c == marks[Place]
                a == 8 * arrived
                b == 8 * arrived'
    <3>1. a \in Nat /\ b \in Nat /\ a <= b
      <4>. DEFINE u == arrived
                  w == arrived'
      <4>1. u \in Nat /\ w \in Nat /\ 8 * u <= 8 * w
        BY <1>7
      <4>. HIDE DEF u, w
      <4>2. 8 * u \in Nat /\ 8 * w \in Nat
        BY <4>1
      <4>. QED
        BY <4>1, <4>2 DEF u, w
    <3>2. c \in Nat
      BY <2>2
    <3>3. c <= a
      BY <2>1
    <3>. HIDE DEF a, b, c
    <3>4. c <= b
      BY <3>1, <3>2, <3>3
    <3>. QED
      BY <3>4 DEF b, c
  <2>. QED
    BY <1>2, <1>6, <2>1, <2>3 DEF Placed
<1>9. RoundTrip' /\ PaddingAccepted'
  BY <1>2 DEF Sync, RoundTrip, PaddingAccepted
<1>. QED
  BY <1>2, <1>3, <1>4, <1>5, <1>8, <1>9 DEF Sync

(* A read that succeeded moves both to the next mark, one that failed      *)
(* leaves the offset where it was to be found again.                       *)
LEMMA SyncReadNext ==
  ASSUME OnlyMeant, PerInv, Sync, ReadNext
  PROVE  Sync'
<1>. DEFINE k == Place
            e == marks[k + 1]
            t == Tail(expected)
            m == Len(expected)
            n == Len(sent)
<1>1. /\ expected # << >> /\ got.err = "ok"
      /\ asked' = Head(expected) /\ tried' = arrived /\ saved' = position
      /\ expected' = IF got'.err = "ok" THEN Tail(expected) ELSE expected
      /\ UNCHANGED <<machine, writer, arrived, finished>>
  BY DEF ReadNext
<1>2. /\ sealed' = sealed /\ sent' = sent /\ marks' = marks /\ at' = at
      /\ arrived' = arrived /\ finished' = finished
  BY <1>1 DEF writer
<1>3. /\ sealed = TRUE /\ finished = FALSE
      /\ k \in 1 .. n /\ Len(t) = m - 1 /\ m \in Nat
      /\ \A i \in 1 .. Len(t) : t[i] = expected[i + 1]
      /\ position = marks[k] /\ position <= 8 * arrived /\ arrived \in Nat
  BY <1>1, NextElement
<1>4. IF e <= 8 * arrived
        THEN got'.err = "ok" /\ got'.data = Meaning(Head(expected)) /\ position' = e
        ELSE got'.err = "buffer_underflow"
  BY ReadsNext
<1>5. Remaining
  BY <1>3 DEF Sync
<1>6. n \in Nat /\ e \in Nat /\ e <= at /\ at \in Nat
  <2>1. n \in Nat /\ at \in Nat /\ \A i \in 1 .. n + 1 : marks[i] \in Nat /\ marks[i] <= at
    BY <1>3, SealedMessage
  <2>. HIDE DEF k, n
  <2>2. k + 1 \in 1 .. n + 1
    BY <1>3, <2>1
  <2>. QED
    BY <2>1, <2>2
<1>7. k = n - m + 1 /\ m <= n
  BY <1>5 DEF Place, Remaining
<1>8. CASE e <= 8 * arrived
  <2>1. got'.err = "ok" /\ got'.data = Meaning(asked') /\ position' = e /\ expected' = t
    BY <1>1, <1>4, <1>8
  <2>2. Remaining'
    <3>1. \A i \in 1 .. m : expected[i] = sent[n - m + i]
      BY <1>5 DEF Remaining
    <3>. HIDE DEF t, m, n, k
    <3>2. Len(t) <= n
      BY <1>3, <1>6, <1>7
    <3>3. ASSUME NEW i \in 1 .. Len(t) PROVE t[i] = sent[n - Len(t) + i]
      <4>1. i + 1 \in 1 .. m /\ n - m + (i + 1) = n - Len(t) + i
        BY <1>3, <1>6, <1>7
      <4>2. t[i] = expected[i + 1] /\ expected[i + 1] = sent[n - m + (i + 1)]
        BY <1>3, <3>1, <4>1
      <4>. QED
        BY <4>1, <4>2
    <3>. QED
      BY <1>2, <2>1, <3>2, <3>3 DEF Remaining, n
  <2>3. Place' = k + 1
    <3>1. Place' = n - Len(t) + 1
      BY <1>2, <2>1 DEF Place
    <3>. HIDE DEF t, m, n, k
    <3>. QED
      BY <1>3, <1>6, <1>7, <3>1
  <2>4. Placed'
    BY <1>2, <1>8, <2>1, <2>3 DEF Placed
  <2>5. RoundTrip'
    BY <2>1 DEF RoundTrip
  <2>. QED
    BY <1>2, <1>3, <2>2, <2>4, <2>5 DEF Sync, PaddingAccepted
<1>9. CASE ~ (e <= 8 * arrived)
  <2>1. got'.err = "buffer_underflow" /\ expected' = expected
    BY <1>1, <1>4, <1>9
  <2>2. Remaining' /\ Place' = k
    BY <1>2, <1>5, <2>1 DEF Remaining, Place
  <2>3. Placed'
    BY <1>1, <1>2, <1>3, <2>1, <2>2 DEF Placed
  <2>4. 8 * tried' < at'
    <3>. HIDE DEF e
    <3>. QED
      BY <1>1, <1>2, <1>3, <1>6, <1>9
  <2>5. RoundTrip'
    BY <2>1, <2>4 DEF RoundTrip
  <2>. QED
    BY <1>2, <1>3, <2>2, <2>3, <2>5 DEF Sync, PaddingAccepted
<1>. QED
  BY <1>8, <1>9

(* The failed read is forgotten.                                           *)
LEMMA SyncRewind ==
  ASSUME PerInv, Sync, Rewind
  PROVE  Sync'
<1>1. /\ got.err # "ok" /\ ~ finished /\ position' = saved /\ got' = NoAnswer /\ asked' = NoCall
      /\ UNCHANGED <<machine, writer, arrived, saved, expected, finished>>
  BY DEF Rewind
<1>2. /\ sealed' = sealed /\ sent' = sent /\ marks' = marks
      /\ arrived' = arrived /\ finished' = finished /\ expected' = expected
  BY <1>1 DEF writer
<1>3. finished = FALSE /\ sealed = TRUE
  <2>1. finished \in BOOLEAN
    BY DEF PerInv, ReaderOK
  <2>2. sealed \in BOOLEAN
    BY DEF PerInv, WriterOK
  <2>3. ~ (sealed = FALSE)
    BY <1>1 DEF Sync, Waiting
  <2>. QED
    BY <1>1, <2>1, <2>2, <2>3
<1>4. Remaining /\ Placed
  BY <1>3 DEF Sync
<1>5. Remaining' /\ Place' = Place
  BY <1>2, <1>4 DEF Remaining, Place
<1>6. got'.err = "ok"
  BY <1>1 DEF NoAnswer
<1>7. Placed'
  BY <1>1, <1>2, <1>4, <1>5, <1>6 DEF Placed
<1>. QED
  BY <1>1, <1>2, <1>3, <1>5, <1>7 DEF Sync, RoundTrip, PaddingAccepted

(* The padding was never written to: in a cleared buffer it is zero.       *)
LEMMA SyncFinish ==
  ASSUME PerInv, Sync, Finish
  PROVE  Sync'
<1>. DEFINE r == IF variant = "unaligned" THEN flush_padding(view, position)
                                          ELSE Got("ok", << >>, position)
<1>1. /\ sealed /\ expected = << >> /\ ~ finished /\ finished' = TRUE /\ asked' = NoCall
      /\ got' = [err |-> r.err, data |-> << >>]
      /\ UNCHANGED <<machine, writer, arrived, expected>>
  BY DEF Finish
<1>2. sealed' = sealed /\ sent' = sent /\ expected' = expected /\ cleared' = cleared
  BY <1>1 DEF writer
<1>3. sealed = TRUE /\ finished = FALSE
  <2>1. finished \in BOOLEAN
    BY DEF PerInv, ReaderOK
  <2>2. sealed \in BOOLEAN
    BY DEF PerInv, WriterOK
  <2>. QED
    BY <1>1, <2>1, <2>2
<1>4. Remaining /\ Placed
  BY <1>3 DEF Sync
<1>5. Remaining'
  BY <1>2, <1>4 DEF Remaining
<1>6. position = Top(marks)
  <2>1. got.err = "ok"
    BY <1>1, <1>4 DEF Placed
  <2>2. position = marks[Place]
    BY <1>4, <2>1 DEF Placed
  <2>3. Place = Len(sent) + 1
    <3>1. Len(expected) = 0 /\ Len(sent) \in Nat
      BY <1>1, <1>3, SealedMessage, EmptySeq
    <3>. QED
      BY <3>1 DEF Place
  <2>4. Top(marks) = marks[Len(sent) + 1]
    BY <1>3, SealedMessage
  <2>. QED
    BY <2>2, <2>3, <2>4
<1>7. ASSUME cleared PROVE r.err = "ok"
  <2>1. \A i \in 1 .. MemoryBits : i > Top(marks) => memory[i] = 0
    BY <1>7 DEF PerInv, WriterOK
  <2>2. view.bits = memory /\ IsView(view) /\ position \in 0 .. MemoryBits
    BY ArrivedView DEF PerInv, ReaderOK
  <2>3. flush_padding(view, position).err = "ok"
    <3>1. \A i \in 1 .. MemoryBits : i > position => view.bits[i] = 0
      BY <1>6, <2>1, <2>2
    <3>. QED
      BY <2>2, <3>1, SoundFlush
  <2>4. Got("ok", << >>, position).err = "ok"
    BY GotFields
  <2>. QED
    BY <2>3, <2>4
<1>. HIDE DEF r
<1>8. PaddingAccepted'
  BY <1>1, <1>2, <1>7 DEF PaddingAccepted
<1>. QED
  BY <1>1, <1>2, <1>3, <1>5, <1>8 DEF Sync, RoundTrip

(* Draining the batch moves nothing.                                       *)
LEMMA Syncflush_decode ==
  ASSUME PerInv, Sync, flush_decode
  PROVE  Sync'
<1>1. /\ got.err = "ok" /\ asked' = NoCall
      /\ UNCHANGED <<machine, writer, arrived, position, saved, expected, finished>>
  BY DEF flush_decode
<1>2. got'.err = "ok"
  BY PerInvflush_decode
<1>3. /\ sealed' = sealed /\ sent' = sent /\ marks' = marks /\ position' = position
      /\ arrived' = arrived /\ finished' = finished /\ expected' = expected
  BY <1>1 DEF writer
<1>4. Remaining => Remaining'
  BY <1>3 DEF Remaining
<1>5. Placed => Placed'
  BY <1>1, <1>2, <1>3 DEF Placed, Place
<1>6. Waiting => Waiting'
  BY <1>1, <1>2, <1>3 DEF Waiting
<1>7. RoundTrip' /\ PaddingAccepted'
  BY <1>1, <1>2 DEF RoundTrip, PaddingAccepted
<1>. QED
  BY <1>1, <1>3, <1>4, <1>5, <1>6, <1>7 DEF Sync

(* A step of anything else changes none of it.                             *)
LEMMA SyncNext ==
  ASSUME OnlyMeant, PerInv, Sync, [Next]_vars
  PROVE  Sync'
<1>1. CASE UNCHANGED vars
  <2>1. UNCHANGED <<machine, writer, arrived, reader>>
    BY <1>1 DEF vars
  <2>2. /\ sealed' = sealed /\ sent' = sent /\ marks' = marks /\ at' = at /\ cleared' = cleared
        /\ expected' = expected /\ asked' = asked /\ finished' = finished /\ got' = got
        /\ position' = position /\ saved' = saved /\ tried' = tried /\ arrived' = arrived
    BY <2>1 DEF writer, reader
  <2>3. (Waiting => Waiting') /\ (Remaining => Remaining') /\ (Placed => Placed')
    BY <2>2 DEF Waiting, Remaining, Placed, Place
  <2>4. RoundTrip' /\ PaddingAccepted'
    BY <2>2 DEF Sync, RoundTrip, PaddingAccepted
  <2>. QED
    BY <2>2, <2>3, <2>4 DEF Sync
<1>2. CASE WriteNext
  BY <1>2, SyncWriteNext
<1>3. CASE WriteRefused
  BY <1>3, SyncWriteNext
<1>4. CASE flush
  BY <1>4, Syncflush
<1>5. CASE NextMessage
  BY <1>5, SyncNextMessage
<1>6. CASE Arrive
  BY <1>6, SyncArrive
<1>7. CASE ReadNext
  BY <1>7, SyncReadNext
<1>8. CASE Rewind
  BY <1>8, SyncRewind
<1>9. CASE Finish
  BY <1>9, SyncFinish
<1>10. CASE flush_decode
  BY <1>10, Syncflush_decode
<1>. QED
  BY <1>1, <1>2, <1>3, <1>4, <1>5, <1>6, <1>7, <1>8, <1>9, <1>10 DEF Next

(* Sync holds in every state.                                              *)
LEMMA SyncAlways ==
  ASSUME OnlyMeant
  PROVE  Spec => []Sync
<1>1. Init => Sync
  BY SyncInit
<1>2. PerInv /\ Sync /\ [Next]_vars => Sync'
  BY SyncNext
<1>. QED
  BY <1>1, <1>2, PerInvAlways, PTL DEF Spec

(* The two offsets agree before each element.                              *)
LEMMA SyncMeans ==
  ASSUME PerInv, Sync
  PROVE  InStep
<1>1. sealed \in BOOLEAN /\ Tidy(variant, marks)
  BY DEF PerInv, WriterOK
<1>2. finished \in BOOLEAN
  BY DEF PerInv, ReaderOK
<1>3. ASSUME sealed, got.err = "ok", ~ finished
      PROVE  position = marks[Len(sent) - Len(expected) + 1]
  <2>1. sealed = TRUE
    BY <1>1, <1>3
  <2>2. finished = FALSE
    BY <1>2, <1>3
  <2>3. Placed
    BY <2>1, <2>2 DEF Sync
  <2>. QED
    BY <1>3, <2>3 DEF Placed, Place
<1>4. ASSUME variant = "aligned" PROVE \A i \in DOMAIN marks : marks[i] % 8 = 0
  <2>1. marks \in Seq(Nat) /\ \A i \in 1 .. Len(marks) : marks[i] % 8 = 0
    BY <1>1, <1>4 DEF Tidy
  <2>. QED
    BY <2>1
<1>. QED
  BY <1>3, <1>4 DEF InStep

(* Reader and writer stay in step (InStep): of a message whose calls are   *)
(* meant, in however many pieces it arrives and however often a read is    *)
(* repeated, every read starts where the encoder began that element, and   *)
(* the elements of per_aligned_encoder begin at full octets.               *)
THEOREM PerStaysInStep ==
  ASSUME OnlyMeant
  PROVE  Spec => []InStep
<1>1. PerInv /\ Sync => InStep
  BY SyncMeans
<1>. QED
  BY <1>1, SyncAlways, PerInvAlways, PTL

(* A decoder answers what the encoder was given, or asks for octets that   *)
(* are still missing (RoundTrip), for every operation of the two variants. *)
THEOREM PerRoundTrip ==
  ASSUME OnlyMeant
  PROVE  Spec => []RoundTrip
<1>1. Sync => RoundTrip
  BY DEF Sync
<1>. QED
  BY <1>1, SyncAlways, PTL

(* uper_decoder::flush accepts the padding of uper_encoder::flush when the *)
(* buffer was zero (PaddingAccepted).                                      *)
THEOREM PerPaddingAccepted ==
  ASSUME OnlyMeant
  PROVE  Spec => []PaddingAccepted
<1>1. Sync => PaddingAccepted
  BY DEF Sync
<1>. QED
  BY <1>1, SyncAlways, PTL
=============================================================================
