--------------------------- MODULE OctetTheorems ---------------------------
(***************************************************************************)
(* Facts that the proofs about the binary codecs share.                    *)
(*                                                                         *)
(* Of the integer forms of module Word, for words of any number of octets. *)
(* Induction is by the least counterexample: a set of naturals that is not *)
(* empty has a least element.                                              *)
(*                                                                         *)
(* Of the tag, length and whole-element octets of BER.  They are octets,   *)
(* and the size functions the encoders check their room with give their    *)
(* number.  A decoder takes one well-formed element off its view or fails  *)
(* with a suffix of it, and takes back what the encoder wrote.             *)
(***************************************************************************)
EXTENDS BerElement, TLAPS, WellFoundedInduction, SequenceTheorems

-----------------------------------------------------------------------------
(* Integers, and octets that are taken off a view.                         *)

(* Min finds the least element of any set of naturals that has one at all. *)
LEMMA MinIsLeast ==
  ASSUME NEW S \in SUBSET Nat, S # {}
  PROVE  Min(S) \in S /\ \A y \in S : Min(S) <= y
<1>1. IsWellFoundedOn(OpToRel(<, Nat), Nat)
  BY NatLessThanWellFounded
<1>2. PICK m \in S : \A y \in S : ~ (<<y, m>> \in OpToRel(<, Nat))
  BY <1>1, WFMin
<1>3. OpToRel(<, Nat) = {ss \in Nat \X Nat : ss[1] < ss[2]}
  BY DEF OpToRel
<1>4. \A y \in S : m <= y
  <2>. SUFFICES ASSUME NEW y \in S, y < m PROVE FALSE
    OBVIOUS
  <2>1. <<y, m>> \in OpToRel(<, Nat)
    BY <1>3
  <2>. QED
    BY <1>2, <2>1
<1>. QED
  BY <1>4 DEF Min

(* The weights are positive naturals, each 256 times the one before.       *)
LEMMA WeightIsNat ==
  ASSUME NEW n \in 0 .. WordOctets
  PROVE  Weight[n] \in Nat /\ (n > 0 => Weight[n] = 256 * Weight[n - 1])
<1>1. WordOctets \in Nat
  BY WordAssumption
<1>2. n > 0 => n \in 1 .. WordOctets
  BY <1>1
<1>3. Weight[n] \in Nat
  BY WordAssumption
<1>. QED
  BY <1>2, <1>3, WordAssumption

(* No weight is zero: the shifts by whole octets can be divisions.         *)
LEMMA WeightPositive ==
  \A n \in 0 .. WordOctets : Weight[n] >= 1
<1>. DEFINE Bad == {n \in 0 .. WordOctets : ~ (Weight[n] >= 1)}
<1>. SUFFICES ASSUME Bad # {} PROVE FALSE
  OBVIOUS
<1>1. Bad \in SUBSET Nat
  BY WordAssumption
<1>2. PICK m \in Bad : \A y \in Bad : m <= y
  BY <1>1, MinIsLeast
<1>3. m > 0
  BY WordAssumption
<1>4. m - 1 \in 0 .. WordOctets /\ m - 1 \notin Bad
  BY <1>2, <1>3, WordAssumption
<1>5. Weight[m - 1] >= 1 /\ Weight[m] = 256 * Weight[m - 1] /\ Weight[m - 1] \in Nat
  BY <1>3, <1>4, WeightIsNat
<1>. QED
  BY <1>5

(* The weights grow with the number of octets.                             *)
LEMMA WeightMonotone ==
  \A n \in 0 .. WordOctets : \A k \in 0 .. n : Weight[k] <= Weight[n]
<1>. SUFFICES ASSUME NEW k \in 0 .. WordOctets
              PROVE  \A n \in k .. WordOctets : Weight[k] <= Weight[n]
  BY WordAssumption
<1>. DEFINE Bad == {n \in k .. WordOctets : ~ (Weight[k] <= Weight[n])}
<1>. SUFFICES ASSUME Bad # {} PROVE FALSE
  OBVIOUS
<1>1. Bad \in SUBSET Nat
  BY WordAssumption
<1>2. PICK m \in Bad : \A y \in Bad : m <= y
  BY <1>1, MinIsLeast
<1>3. m > k /\ m \in Nat
  BY WeightIsNat, WordAssumption
<1>4. m - 1 \in k .. WordOctets /\ m - 1 \notin Bad
  BY <1>2, <1>3, WordAssumption
<1>5. Weight[k] <= Weight[m - 1] /\ Weight[m] = 256 * Weight[m - 1] /\ Weight[m - 1] \in Nat
  BY <1>3, <1>4, WeightIsNat
<1>6. Weight[k] \in Nat /\ Weight[m] \in Nat
  BY WeightIsNat
<1>. QED
  BY <1>5, <1>6

-----------------------------------------------------------------------------
(* The sign strip leaves between one octet and a whole word, the first     *)
(* length at which only sign octets lie above.                             *)
LEMMA MeaningfulIsLeast ==
  ASSUME NEW v \in SWord
  PROVE  /\ meaningful(v) \in 1 .. WordOctets
         /\ SignOnlyAbove(v, meaningful(v))
         /\ \A k \in 1 .. meaningful(v) - 1 : ~ SignOnlyAbove(v, k)
<1>. DEFINE S == {m \in 1 .. WordOctets : SignOnlyAbove(v, m)}
<1>1. S \in SUBSET Nat
  OBVIOUS
<1>2. WordOctets \in 1 .. WordOctets
  BY WordAssumption
<1>3. /\ Weight[WordOctets] = 256 * Weight[WordOctets - 1]
      /\ Weight[WordOctets - 1] \in Nat
  BY <1>2, WeightIsNat, WordAssumption
<1>4. SignOnlyAbove(v, WordOctets)
  BY <1>3 DEF SignOnlyAbove, SWord
<1>5. S # {}
  BY <1>2, <1>4
<1>6. Min(S) \in S /\ \A y \in S : Min(S) <= y
  BY <1>1, <1>5, MinIsLeast
<1>7. meaningful(v) = Min(S)
  BY DEF meaningful
<1>. HIDE DEF S
<1>8. \A k \in 1 .. Min(S) - 1 : k \notin S
  <2>1. Min(S) \in Nat
    BY <1>1, <1>6
  <2>2. \A k \in 1 .. Min(S) - 1 : ~ (Min(S) <= k)
    BY <2>1
  <2>. QED
    BY <1>6, <2>2
<1>9. \A k \in 1 .. Min(S) - 1 : k \in 1 .. WordOctets
  BY <1>6, WordAssumption DEF S
<1>. QED
  BY <1>6, <1>7, <1>8, <1>9 DEF S

(* The size encode_integer_bytes chooses is between 1 and the octets of a  *)
(* word, never the ninth octet its scratch buffer provides for, and the    *)
(* value fits in it.                                                       *)
THEOREM EncodedSizeFits ==
  ASSUME NEW v \in SWord
  PROVE  /\ encoded_integer_size(v) \in 1 .. WordOctets
         /\ Fits(v, encoded_integer_size(v))
<1>. DEFINE m == meaningful(v)
<1>1. /\ m \in 1 .. WordOctets
      /\ SignOnlyAbove(v, m)
  BY MeaningfulIsLeast
<1>2. WordOctets \in Nat \ {0} /\ v \in Int
  BY WordAssumption, WeightIsNat DEF SWord
<1>. HIDE DEF m
<1>3. /\ Weight[m] = 256 * Weight[m - 1]
      /\ Weight[m - 1] \in Nat /\ Weight[m] \in Nat
  BY <1>1, <1>2, WeightIsNat
<1>4. CASE needs_extra(v)
  <2>1. encoded_integer_size(v) = m + 1
    BY <1>4 DEF encoded_integer_size, m
  <2>2. IF v < 0 THEN v < -(128 * Weight[m - 1]) ELSE v >= 128 * Weight[m - 1]
    BY <1>4 DEF needs_extra, m
  <2>3. m # WordOctets
    <3>1. /\ Weight[WordOctets - 1] \in Nat
          /\ v >= -(128 * Weight[WordOctets - 1])
          /\ v <= 128 * Weight[WordOctets - 1] - 1
      BY <1>2, WeightIsNat DEF SWord
    <3>. QED
      BY <1>2, <1>3, <2>2, <3>1
  <2>4. Fits(v, m + 1)
    BY <1>1, <1>2, <1>3 DEF Fits, SignOnlyAbove
  <2>. QED
    BY <1>1, <1>2, <2>1, <2>3, <2>4
<1>5. CASE ~ needs_extra(v)
  <2>1. encoded_integer_size(v) = m
    BY <1>1, <1>5 DEF encoded_integer_size, m
  <2>2. IF v < 0 THEN v >= -(128 * Weight[m - 1]) ELSE v < 128 * Weight[m - 1]
    BY <1>2, <1>3, <1>5 DEF needs_extra, m
  <2>3. Fits(v, m)
    BY <1>2, <1>3, <2>2 DEF Fits
  <2>. QED
    BY <1>1, <2>1, <2>3
<1>. QED
  BY <1>4, <1>5

(* No shorter form holds the value: the size is the one X.690 8.3 asks for.*)
THEOREM EncodedSizeIsShortest ==
  ASSUME NEW v \in SWord
  PROVE  encoded_integer_size(v) = ShortestSize(v)
<1>. DEFINE n == encoded_integer_size(v)
            S == {k \in 1 .. WordOctets : Fits(v, k)}
<1>1. n \in S
  BY EncodedSizeFits
<1>2. S \in SUBSET Nat
  OBVIOUS
<1>3. Min(S) \in S /\ \A y \in S : Min(S) <= y
  BY <1>1, <1>2, MinIsLeast
<1>4. ShortestSize(v) = Min(S)
  BY DEF ShortestSize
<1>5. \A k \in S : n <= k
  <2>. SUFFICES ASSUME NEW k \in S, k < n PROVE FALSE
    BY <1>1, <1>2
  <2>. DEFINE m == meaningful(v)
  <2>1. /\ m \in 1 .. WordOctets
        /\ \A i \in 1 .. m - 1 : ~ SignOnlyAbove(v, i)
    BY MeaningfulIsLeast
  <2>2. v \in Int /\ WordOctets \in Nat
    BY WordAssumption, WeightIsNat DEF SWord
  <2>3. k \in 1 .. WordOctets /\ Fits(v, k)
    OBVIOUS
  <2>4. n = m + (IF needs_extra(v) THEN 1 ELSE 0)
    BY DEF encoded_integer_size
  <2>5. /\ Weight[k] = 256 * Weight[k - 1]
        /\ Weight[k - 1] \in Nat
    BY <2>2, <2>3, WeightIsNat
  <2>. HIDE DEF n, m, S
  <2>6. SignOnlyAbove(v, k)
    BY <2>2, <2>3, <2>5 DEF SignOnlyAbove, Fits
  <2>7. k >= m
    BY <2>1, <2>3, <2>6
  <2>8. k = m /\ needs_extra(v)
    BY <2>1, <2>3, <2>4, <2>7
  <2>9. IF v < 0 THEN v < -(128 * Weight[k - 1]) ELSE v >= 128 * Weight[k - 1]
    BY <2>8 DEF needs_extra, m
  <2>. QED
    BY <2>2, <2>3, <2>5, <2>9 DEF Fits
<1>. HIDE DEF n, S
<1>6. n = Min(S)
  <2>1. n \in Nat /\ Min(S) \in Nat
    BY <1>1, <1>2, <1>3
  <2>2. n <= Min(S) /\ Min(S) <= n
    BY <1>1, <1>3, <1>5
  <2>. QED
    BY <2>1, <2>2
<1>. QED
  BY <1>4, <1>6 DEF n
-----------------------------------------------------------------------------
(* The low n octets of a number are n octets.                              *)
LEMMA OctetsAreOctets ==
  ASSUME NEW v \in Int, NEW n \in 0 .. WordOctets
  PROVE  Octets(v, n) \in Seq(Octet) /\ Len(Octets(v, n)) = n
<1>1. n \in Nat /\ WordOctets \in Nat
  BY WordAssumption
<1>2. \A i \in 1 .. n : Weight[n - i] \in Nat \ {0}
  BY <1>1, WeightIsNat, WeightPositive
<1>3. \A i \in 1 .. n : (v \div Weight[n - i]) % 256 \in Octet
  <2>. SUFFICES ASSUME NEW i \in 1 .. n
                PROVE  (v \div Weight[n - i]) % 256 \in Octet
    OBVIOUS
  <2>1. v \div Weight[n - i] \in Int
    BY <1>2
  <2>. QED
    BY <2>1 DEF Octet
<1>. QED
  BY <1>1, <1>3 DEF Octets

(* Every length up to 255 is a size_t. *)
LEMMA SmallLengths == 0 .. 255 \subseteq UWord
<1>1. 1 \in 0 .. WordOctets /\ WordOctets \in 0 .. WordOctets
  BY WordAssumption
<1>2. Weight[1] = 256
  BY <1>1, WordAssumption
<1>3. Weight[1] <= Weight[WordOctets] /\ Weight[WordOctets] \in Nat
  BY <1>1, WeightMonotone, WeightIsNat
<1>. QED
  BY <1>2, <1>3 DEF UWord

(* The contents of an INTEGER are octets, and few.                         *)
LEMMA IntegerOctets ==
  ASSUME NEW v \in SWord
  PROVE  /\ encode_integer_bytes(v) \in Seq(Octet)
         /\ Len(encode_integer_bytes(v)) \in UWord
         /\ encode_integer_bytes(v) = Octets(v, ShortestSize(v))
<1>1. encoded_integer_size(v) \in 1 .. WordOctets
  BY EncodedSizeFits
<1>2. encoded_integer_size(v) \in 0 .. 8 /\ encoded_integer_size(v) \in 0 .. WordOctets
  <2>1. WordOctets \in 1 .. 8
    BY WordAssumption
  <2>. QED
    BY <1>1, <2>1
<1>3. v \in Int
  BY WordAssumption, WeightIsNat DEF SWord
<1>4. /\ encode_integer_bytes(v) \in Seq(Octet)
      /\ Len(encode_integer_bytes(v)) = encoded_integer_size(v)
  BY <1>2, <1>3, OctetsAreOctets DEF encode_integer_bytes
<1>5. 0 .. 8 \subseteq UWord
  BY SmallLengths, 0 .. 8 \subseteq 0 .. 255
<1>. QED
  BY <1>2, <1>4, <1>5, EncodedSizeIsShortest DEF encode_integer_bytes

-----------------------------------------------------------------------------
(* Arithmetic the provers are not trusted to find by themselves.           *)

(* A quotient and a remainder in range are the quotient and the remainder.*)
LEMMA DivisionIsUnique ==
  ASSUME NEW b \in Nat \ {0}, NEW q \in Int, NEW r \in 0 .. b - 1
  PROVE  (b * q + r) \div b = q /\ (b * q + r) % b = r
<1>. DEFINE a == b * q + r
            p == a \div b
            s == a % b
<1>1. a \in Int /\ p \in Int /\ s \in 0 .. b - 1 /\ a = b * p + s
  OBVIOUS
<1>2. b * (q - p) = s - r
  BY <1>1
<1>. HIDE DEF a, p, s
<1>3. ~ (q - p >= 1)
  <2>. SUFFICES ASSUME q - p >= 1 PROVE FALSE
    OBVIOUS
  <2>1. b * (q - p) >= b * 1
    BY <1>1
  <2>. QED
    BY <1>1, <1>2, <2>1
<1>4. ~ (p - q >= 1)
  <2>. SUFFICES ASSUME p - q >= 1 PROVE FALSE
    OBVIOUS
  <2>1. b * (p - q) >= b * 1
    BY <1>1
  <2>2. b * (p - q) = r - s
    BY <1>1, <1>2
  <2>. QED
    BY <1>1, <2>1, <2>2
<1>5. p = q
  BY <1>1, <1>3, <1>4
<1>. QED
  BY <1>1, <1>2, <1>5 DEF a, p, s

(* Multiplying by a natural keeps the order. *)
LEMMA ProductMonotone ==
  ASSUME NEW a \in Nat, NEW b \in Nat, NEW w \in Nat, a <= b
  PROVE  a * w <= b * w
<1>1. (b - a) * w >= 0
  OBVIOUS
<1>2. (b - a) * w = b * w - a * w
  OBVIOUS
<1>. QED
  BY <1>1, <1>2

(* Shifting right twice is dividing by the product.                        *)
LEMMA ShiftTwice ==
  ASSUME NEW v \in Int, NEW b \in Nat \ {0}, NEW c \in Nat \ {0}
  PROVE  (v \div b) \div c = v \div (c * b)
<1>. DEFINE q == v \div b
            r == v % b
            p == q \div c
            s == q % c
<1>1. q \in Int /\ r \in 0 .. b - 1 /\ v = b * q + r
  OBVIOUS
<1>2. p \in Int /\ s \in 0 .. c - 1 /\ q = c * p + s
  BY <1>1
<1>. HIDE DEF q, r, p, s
<1>3. b * q = (c * b) * p + b * s
  BY <1>1, <1>2
<1>4. b * s \in 0 .. c * b - b
  <2>1. 0 * b <= s * b /\ s * b <= (c - 1) * b
    BY <1>2, ProductMonotone
  <2>2. s * b = b * s /\ (c - 1) * b = c * b - b /\ 0 * b = 0
    BY <1>2
  <2>. QED
    BY <1>2, <2>1, <2>2
<1>5. b * s + r \in 0 .. c * b - 1 /\ v = (c * b) * p + (b * s + r)
  <2>1. c * b \in Int /\ (c * b) * p \in Int /\ b * s \in Int
    BY <1>2
  <2>. QED
    BY <1>1, <1>2, <1>3, <1>4, <2>1
<1>6. c * b \in Nat \ {0}
  OBVIOUS
<1>7. v \div (c * b) = p
  BY <1>2, <1>5, <1>6, DivisionIsUnique
<1>. QED
  BY <1>7 DEF p, q

(* An octet is a natural number. *)
LEMMA OctetIsNat == \A o \in Octet : o \in Nat
BY DEF Octet

-----------------------------------------------------------------------------
(* Octet strings as numbers.                                               *)

(* A view is cut in two by Take and Drop.                                  *)
LEMMA TakeProperties ==
  ASSUME NEW S, NEW s \in Seq(S), NEW n \in 0 .. Len(s)
  PROVE  /\ Take(s, n) \in Seq(S) /\ Len(Take(s, n)) = n
         /\ \A i \in 1 .. n : Take(s, n)[i] = s[i]
         /\ Drop(s, n) \in Seq(S) /\ Len(Drop(s, n)) = Len(s) - n
         /\ \A i \in 1 .. Len(s) - n : Drop(s, n)[i] = s[n + i]
<1>1. \A i \in 1 .. Len(s) : s[i] \in S
  OBVIOUS
<1>2. Len(s) \in Nat /\ n \in Nat /\ n <= Len(s)
  OBVIOUS
<1>3. /\ SubSeq(s, 1, n) \in Seq(S)
      /\ Len(SubSeq(s, 1, n)) = IF 1 <= n THEN n - 1 + 1 ELSE 0
      /\ \A i \in 1 .. n - 1 + 1 : SubSeq(s, 1, n)[i] = s[1 + i - 1]
  <2>1. \A i \in 1 .. n : s[i] \in S
    BY <1>1, <1>2
  <2>. QED
    BY <1>2, <2>1, SubSeqProperties
<1>4. /\ SubSeq(s, n + 1, Len(s)) \in Seq(S)
      /\ Len(SubSeq(s, n + 1, Len(s))) = IF n + 1 <= Len(s) THEN Len(s) - (n + 1) + 1 ELSE 0
      /\ \A i \in 1 .. Len(s) - (n + 1) + 1 : SubSeq(s, n + 1, Len(s))[i] = s[n + 1 + i - 1]
  <2>1. \A i \in n + 1 .. Len(s) : s[i] \in S
    BY <1>1, <1>2
  <2>. QED
    BY <1>2, <2>1, SubSeqProperties
<1>5. Take(s, n) \in Seq(S) /\ Len(Take(s, n)) = n /\ \A i \in 1 .. n : Take(s, n)[i] = s[i]
  BY <1>2, <1>3 DEF Take
<1>6. /\ Drop(s, n) \in Seq(S) /\ Len(Drop(s, n)) = Len(s) - n
      /\ \A i \in 1 .. Len(s) - n : Drop(s, n)[i] = s[n + i]
  BY <1>2, <1>4 DEF Drop
<1>. QED
  BY <1>5, <1>6

(* Taking everything, and taking or dropping nothing.                      *)
LEMMA TakeAll ==
  ASSUME NEW S, NEW s \in Seq(S)
  PROVE  Take(s, Len(s)) = s /\ Take(s, 0) = << >> /\ Drop(s, 0) = s
<1>1. SubSeq(s, 1, Len(s)) = s
  BY SubSeqFull
<1>2. SubSeq(s, 1, 0) = << >>
  BY SubSeqEmpty
<1>. QED
  BY <1>1, <1>2 DEF Take, Drop

(* A part of a view has the octets between the two cuts.                   *)
LEMMA CutProperties ==
  ASSUME NEW S, NEW s \in Seq(S), NEW i \in 0 .. Len(s), NEW j \in i .. Len(s)
  PROVE  /\ SubSeq(s, i + 1, j) \in Seq(S) /\ Len(SubSeq(s, i + 1, j)) = j - i
         /\ \A x \in 1 .. j - i : SubSeq(s, i + 1, j)[x] = s[i + x]
<1>1. \A x \in 1 .. Len(s) : s[x] \in S
  BY ElementOfSeq
<1>2. \A x \in i + 1 .. j : s[x] \in S
  BY <1>1
<1>. DEFINE a == i + 1
<1>3. a \in Int /\ j \in Int /\ \A x \in a .. j : s[x] \in S
  BY <1>2
<1>. HIDE DEF a
<1>4. /\ SubSeq(s, a, j) \in Seq(S)
      /\ Len(SubSeq(s, a, j)) = IF a <= j THEN j - a + 1 ELSE 0
      /\ \A x \in 1 .. j - a + 1 : SubSeq(s, a, j)[x] = s[a + x - 1]
  BY <1>3, SubSeqProperties
<1>. USE DEF a
<1>5. Len(SubSeq(s, a, j)) = j - i
  BY <1>4
<1>6. ASSUME NEW x \in 1 .. j - i
      PROVE  SubSeq(s, a, j)[x] = s[i + x]
  <2>1. x \in 1 .. j - a + 1 /\ a + x - 1 = i + x
    OBVIOUS
  <2>. QED
    BY <1>4, <2>1
<1>. QED
  BY <1>4, <1>5, <1>6

(* A view moved twice has moved by the sum, and the part read in between.  *)
LEMMA DropDrop ==
  ASSUME NEW S, NEW s \in Seq(S), NEW m \in 0 .. Len(s), NEW n \in 0 .. Len(s) - m
  PROVE  /\ Drop(Drop(s, m), n) = Drop(s, m + n)
         /\ Take(Drop(s, m), n) = SubSeq(s, m + 1, m + n)
<1>. DEFINE d == Drop(s, m)
<1>1. d \in Seq(S) /\ Len(d) = Len(s) - m /\ \A i \in 1 .. Len(s) - m : d[i] = s[m + i]
  BY TakeProperties
<1>2. m + n \in 0 .. Len(s)
  OBVIOUS
<1>. HIDE DEF d
<1>3. Drop(d, n) = Drop(s, m + n)
  <2>1. /\ Drop(d, n) \in Seq(S) /\ Len(Drop(d, n)) = Len(d) - n
        /\ \A i \in 1 .. Len(d) - n : Drop(d, n)[i] = d[n + i]
    <3>1. d \in Seq(S) /\ n \in 0 .. Len(d)
      BY <1>1
    <3>. QED
      BY <3>1, TakeProperties
  <2>2. /\ Drop(s, m + n) \in Seq(S) /\ Len(Drop(s, m + n)) = Len(s) - (m + n)
        /\ \A i \in 1 .. Len(s) - (m + n) : Drop(s, m + n)[i] = s[m + n + i]
    BY <1>2, TakeProperties
  <2>3. Len(Drop(d, n)) = Len(Drop(s, m + n))
    <3>1. (Len(s) - m) - n = Len(s) - (m + n)
      OBVIOUS
    <3>. QED
      BY <1>1, <2>1, <2>2, <3>1
  <2>4. ASSUME NEW i \in 1 .. Len(Drop(d, n))
        PROVE  Drop(d, n)[i] = Drop(s, m + n)[i]
    <3>1. i \in 1 .. Len(d) - n /\ n + i \in 1 .. Len(s) - m /\ i \in 1 .. Len(s) - (m + n)
          /\ m + (n + i) = m + n + i
      BY <1>1, <2>1
    <3>. QED
      BY <1>1, <2>1, <2>2, <3>1
  <2>. QED
    BY <2>1, <2>2, <2>3, <2>4, SeqEqual
<1>4. Take(d, n) = SubSeq(s, m + 1, m + n)
  <2>1. /\ Take(d, n) \in Seq(S) /\ Len(Take(d, n)) = n
        /\ \A i \in 1 .. n : Take(d, n)[i] = d[i]
    BY <1>1, TakeProperties
  <2>3. m + n \in m .. Len(s)
    BY <1>2
  <2>4. /\ SubSeq(s, m + 1, m + n) \in Seq(S)
        /\ Len(SubSeq(s, m + 1, m + n)) = m + n - m
        /\ \A x \in 1 .. m + n - m : SubSeq(s, m + 1, m + n)[x] = s[m + x]
    BY <2>3, CutProperties
  <2>5. ASSUME NEW i \in 1 .. n
        PROVE  Take(d, n)[i] = SubSeq(s, m + 1, m + n)[i]
    <3>1. i \in 1 .. m + n - m /\ i \in 1 .. Len(s) - m
      OBVIOUS
    <3>. QED
      BY <1>1, <2>1, <2>4, <3>1
  <2>6. m + n - m = n
    OBVIOUS
  <2>. QED
    BY <2>1, <2>4, <2>5, <2>6, SeqEqual
<1>. QED
  BY <1>3, <1>4 DEF d

(* A view on two strings written one after the other is cut where they meet.*)
LEMMA TakeDropConcat ==
  ASSUME NEW S, NEW s \in Seq(S), NEW t \in Seq(S)
  PROVE  Take(s \o t, Len(s)) = s /\ Drop(s \o t, Len(s)) = t
<1>. DEFINE st == s \o t
            n  == Len(s)
<1>1. /\ st \in Seq(S) /\ Len(st) = n + Len(t) /\ n \in 0 .. Len(st)
      /\ \A i \in 1 .. n : st[i] = s[i]
      /\ \A i \in 1 .. Len(t) : st[n + i] = t[i]
  OBVIOUS
<1>. HIDE DEF st
<1>2. /\ Take(st, n) \in Seq(S) /\ Len(Take(st, n)) = n
      /\ \A i \in 1 .. n : Take(st, n)[i] = st[i]
      /\ Drop(st, n) \in Seq(S) /\ Len(Drop(st, n)) = Len(st) - n
      /\ \A i \in 1 .. Len(st) - n : Drop(st, n)[i] = st[n + i]
  BY <1>1, TakeProperties
<1>3. Take(st, n) = s
  BY <1>1, <1>2, SeqEqual
<1>4. Drop(st, n) = t
  <2>1. Len(Drop(st, n)) = Len(t) /\ Len(st) - n = Len(t)
    BY <1>1, <1>2
  <2>. QED
    BY <1>1, <1>2, <2>1, SeqEqual
<1>. QED
  BY <1>3, <1>4 DEF st

(* A sequence is its first element and what is left without it.            *)
LEMMA FirstAndRest ==
  ASSUME NEW S, NEW s \in Seq(S), s # << >>
  PROVE  <<s[1]>> \o Drop(s, 1) = s
<1>1. Len(s) \in Nat \ {0}
  BY EmptySeq
<1>2. 1 \in 1 .. Len(s) /\ Len(s) \in 1 .. Len(s)
  BY <1>1
<1>3. SubSeq(s, 1, Len(s)) = <<s[1]>> \o SubSeq(s, 1 + 1, Len(s))
  BY <1>2, SubSeqRecursiveFirst
<1>. QED
  BY <1>3, SubSeqFull DEF Drop

(* What is cut off a sequence with more behind it.                         *)
LEMMA DropConcat ==
  ASSUME NEW S, NEW s \in Seq(S), NEW t \in Seq(S), NEW n \in 0 .. Len(s)
  PROVE  /\ Drop(s \o t, n) = Drop(s, n) \o t
         /\ Take(s \o t, n) = Take(s, n)
<1>1. /\ s \o t \in Seq(S) /\ Len(s \o t) = Len(s) + Len(t) /\ Len(s) \in Nat /\ Len(t) \in Nat
      /\ \A i \in 1 .. Len(s) + Len(t) : (s \o t)[i] = IF i <= Len(s) THEN s[i] ELSE t[i - Len(s)]
  BY ConcatProperties, LenProperties
<1>2. n \in 0 .. Len(s \o t)
  BY <1>1
<1>3. /\ Drop(s, n) \in Seq(S) /\ Len(Drop(s, n)) = Len(s) - n
      /\ \A i \in 1 .. Len(s) - n : Drop(s, n)[i] = s[n + i]
      /\ Take(s, n) \in Seq(S) /\ Len(Take(s, n)) = n /\ \A i \in 1 .. n : Take(s, n)[i] = s[i]
  BY TakeProperties
<1>4. /\ Drop(s \o t, n) \in Seq(S) /\ Len(Drop(s \o t, n)) = Len(s) + Len(t) - n
      /\ \A i \in 1 .. Len(s) + Len(t) - n : Drop(s \o t, n)[i] = (s \o t)[n + i]
      /\ Take(s \o t, n) \in Seq(S) /\ Len(Take(s \o t, n)) = n
      /\ \A i \in 1 .. n : Take(s \o t, n)[i] = (s \o t)[i]
  <2>. DEFINE st == s \o t
  <2>1. st \in Seq(S) /\ n \in 0 .. Len(st) /\ Len(st) = Len(s) + Len(t)
    BY <1>1, <1>2
  <2>. HIDE DEF st
  <2>2. /\ Drop(st, n) \in Seq(S) /\ Len(Drop(st, n)) = Len(st) - n
        /\ \A i \in 1 .. Len(st) - n : Drop(st, n)[i] = st[n + i]
        /\ Take(st, n) \in Seq(S) /\ Len(Take(st, n)) = n
        /\ \A i \in 1 .. n : Take(st, n)[i] = st[i]
    <3>1. Drop(st, n) \in Seq(S) /\ Len(Drop(st, n)) = Len(st) - n
      BY <2>1, TakeProperties
    <3>2. \A i \in 1 .. Len(st) - n : Drop(st, n)[i] = st[n + i]
      BY <2>1, TakeProperties
    <3>3. Take(st, n) \in Seq(S) /\ Len(Take(st, n)) = n
      BY <2>1, TakeProperties
    <3>4. \A i \in 1 .. n : Take(st, n)[i] = st[i]
      BY <2>1, TakeProperties
    <3>. QED
      BY <3>1, <3>2, <3>3, <3>4
  <2>. QED
    BY <2>1, <2>2 DEF st
<1>5. Drop(s \o t, n) = Drop(s, n) \o t
  <2>. DEFINE d == Drop(s, n)
  <2>1. /\ d \o t \in Seq(S) /\ Len(d \o t) = Len(d) + Len(t)
        /\ \A i \in 1 .. Len(d) + Len(t) : (d \o t)[i] = IF i <= Len(d) THEN d[i] ELSE t[i - Len(d)]
    BY <1>3, ConcatProperties
  <2>2. ASSUME NEW i \in 1 .. Len(s) + Len(t) - n PROVE Drop(s \o t, n)[i] = (d \o t)[i]
    <3>. DEFINE st == s \o t
                dt == d \o t
                ds == Drop(st, n)
    <3>1. n + i \in 1 .. Len(s) + Len(t) /\ i \in 1 .. Len(d) + Len(t)
      BY <1>1, <1>3
    <3>2. ds[i] = st[n + i]
      BY <1>4
    <3>3. st[n + i] = IF n + i <= Len(s) THEN s[n + i] ELSE t[n + i - Len(s)]
      BY <1>1, <3>1
    <3>4. dt[i] = IF i <= Len(d) THEN d[i] ELSE t[i - Len(d)]
      BY <2>1, <3>1
    <3>5. Len(d) = Len(s) - n /\ \A j \in 1 .. Len(s) - n : d[j] = s[n + j]
      BY <1>3
    <3>. HIDE DEF st, dt, ds, d
    <3>6. CASE i <= Len(s) - n
      <4>1. n + i <= Len(s) /\ i <= Len(d) /\ i \in 1 .. Len(s) - n
        BY <1>1, <3>5, <3>6
      <4>2. ds[i] = s[n + i] /\ dt[i] = d[i] /\ d[i] = s[n + i]
        BY <3>2, <3>3, <3>4, <3>5, <4>1
      <4>. QED
        BY <4>2 DEF ds, st, dt
    <3>7. CASE ~ (i <= Len(s) - n)
      <4>1. ~ (n + i <= Len(s)) /\ ~ (i <= Len(d)) /\ n + i - Len(s) = i - Len(d)
        BY <1>1, <3>5, <3>7
      <4>2. ds[i] = t[n + i - Len(s)] /\ dt[i] = t[n + i - Len(s)]
        BY <3>2, <3>3, <3>4, <4>1
      <4>. QED
        BY <4>2 DEF ds, st, dt
    <3>. QED
      BY <3>6, <3>7
  <2>3. Len(d \o t) = Len(s) + Len(t) - n
    BY <1>1, <1>3, <2>1
  <2>. QED
    BY <1>4, <2>1, <2>2, <2>3, SeqEqual
<1>6. \A i \in 1 .. n : Take(s \o t, n)[i] = Take(s, n)[i]
  BY <1>1, <1>3, <1>4
<1>7. Take(s \o t, n) = Take(s, n)
  BY <1>3, <1>4, <1>6, SeqEqual
<1>. QED
  BY <1>5, <1>7

(* A part that is found after the first element is what is cut from there. *)
LEMMA CutAfterFirst ==
  ASSUME NEW S, NEW s \in Seq(S), NEW t \in Seq(S), 1 + Len(t) <= Len(s),
         \A i \in 1 .. Len(t) : s[1 + i] = t[i]
  PROVE  SubSeq(s, 2, 1 + Len(t)) = t
<1>. DEFINE n == Len(t)
<1>1. n \in Nat /\ 1 \in 0 .. Len(s) /\ n \in 0 .. Len(s) - 1
  OBVIOUS
<1>. HIDE DEF n
<1>2. /\ Take(Drop(s, 1), n) = SubSeq(s, 1 + 1, 1 + n)
      /\ Drop(s, 1) \in Seq(S) /\ Len(Drop(s, 1)) = Len(s) - 1
      /\ \A i \in 1 .. Len(s) - 1 : Drop(s, 1)[i] = s[1 + i]
  <2>1. Take(Drop(s, 1), n) = SubSeq(s, 1 + 1, 1 + n)
    BY <1>1, DropDrop
  <2>2. /\ Drop(s, 1) \in Seq(S) /\ Len(Drop(s, 1)) = Len(s) - 1
        /\ \A i \in 1 .. Len(s) - 1 : Drop(s, 1)[i] = s[1 + i]
    BY <1>1, TakeProperties
  <2>. QED
    BY <2>1, <2>2
<1>3. n \in 0 .. Len(Drop(s, 1))
  BY <1>1, <1>2
<1>4. /\ Take(Drop(s, 1), n) \in Seq(S) /\ Len(Take(Drop(s, 1), n)) = n
      /\ \A i \in 1 .. n : Take(Drop(s, 1), n)[i] = Drop(s, 1)[i]
  BY <1>2, <1>3, TakeProperties
<1>5. ASSUME NEW i \in 1 .. n
      PROVE  Take(Drop(s, 1), n)[i] = t[i]
  <2>1. i \in 1 .. Len(s) - 1
    BY <1>1
  <2>. QED
    BY <1>2, <1>4, <2>1 DEF n
<1>6. Take(Drop(s, 1), n) = t
  BY <1>4, <1>5, SeqEqual DEF n
<1>7. 1 + 1 = 2
  OBVIOUS
<1>. QED
  BY <1>2, <1>6, <1>7 DEF n

(* The octets of a part after its first are a part of the view.            *)
LEMMA TailOfTake ==
  ASSUME NEW S, NEW s \in Seq(S), NEW n \in 1 .. Len(s)
  PROVE  Drop(Take(s, n), 1) = SubSeq(s, 2, n)
<1>. DEFINE front == Take(s, n)
            tail  == SubSeq(s, 1 + 1, n)
<1>1. 1 \in 0 .. Len(s) /\ n \in 1 .. Len(s) /\ n \in 0 .. Len(s)
  OBVIOUS
<1>2. front \in Seq(S) /\ Len(front) = n /\ \A x \in 1 .. n : front[x] = s[x]
  BY <1>1, TakeProperties
<1>3. tail \in Seq(S) /\ Len(tail) = n - 1 /\ \A x \in 1 .. n - 1 : tail[x] = s[1 + x]
  BY <1>1, CutProperties
<1>. HIDE DEF front, tail
<1>4. 1 + Len(tail) = n /\ 1 + Len(tail) <= Len(front)
  BY <1>2, <1>3
<1>5. ASSUME NEW x \in 1 .. Len(tail)
      PROVE  front[1 + x] = tail[x]
  <2>1. 1 + x \in 1 .. n /\ x \in 1 .. n - 1
    BY <1>3
  <2>. QED
    BY <1>2, <1>3, <2>1
<1>6. SubSeq(front, 2, 1 + Len(tail)) = tail
  BY <1>2, <1>3, <1>4, <1>5, CutAfterFirst
<1>7. 1 + 1 = 2 /\ Len(front) = 1 + Len(tail)
  BY <1>2, <1>4
<1>. QED
  BY <1>6, <1>7 DEF Drop, front, tail

(* Unsigned shifts the octets in from the left: there is a function that   *)
(* satisfies the equation of its loop, so CHOOSE takes one that does.      *)
LEMMA UnsignedRecursion ==
  ASSUME NEW bytes \in Seq(Octet)
  PROVE  \E upto \in [0 .. Len(bytes) -> Nat] :
           /\ upto[0] = 0
           /\ \A i \in 1 .. Len(bytes) : upto[i] = 256 * upto[i - 1] + bytes[i]
           /\ Unsigned(bytes) = upto[Len(bytes)]
<1>. DEFINE Sums(f, n) == f = [i \in 0 .. n |-> IF i = 0 THEN 0 ELSE 256 * f[i - 1] + bytes[i]]
            Bad == {n \in 0 .. Len(bytes) : ~ \E f : Sums(f, n)}
            up  == CHOOSE f : Sums(f, Len(bytes))
<1>1. Bad = {}
  <2>. SUFFICES ASSUME Bad # {} PROVE FALSE
    OBVIOUS
  <2>1. Bad \in SUBSET Nat
    OBVIOUS
  <2>2. PICK m \in Bad : \A y \in Bad : m <= y
    BY <2>1, MinIsLeast
  <2>3. CASE m = 0
    <3>1. Sums([i \in 0 .. 0 |-> 0], 0)
      OBVIOUS
    <3>. QED
      BY <2>2, <2>3, <3>1
  <2>4. CASE m # 0
    <3>0. m \in 1 .. Len(bytes)
      BY <2>4
    <3>. HIDE DEF Bad
    <3>1. m - 1 \in 0 .. Len(bytes) /\ m - 1 \notin Bad
      BY <2>2, <3>0
    <3>. USE DEF Bad
    <3>2. PICK g : Sums(g, m - 1)
      BY <3>1
    <3>. DEFINE h == [i \in 0 .. m |-> IF i < m THEN g[i] ELSE 256 * g[m - 1] + bytes[m]]
    <3>3. Sums(h, m)
      <4>1. m \in Nat \ {0}
        BY <2>4
      <4>2. ASSUME NEW i \in 0 .. m
            PROVE  h[i] = IF i = 0 THEN 0 ELSE 256 * h[i - 1] + bytes[i]
        <5>1. CASE i < m
          <6>1. i \in 0 .. m - 1 /\ (i # 0 => i - 1 \in 0 .. m - 1 /\ i - 1 \in 0 .. m /\ i - 1 < m)
            BY <4>1, <5>1
          <6>2. g[i] = IF i = 0 THEN 0 ELSE 256 * g[i - 1] + bytes[i]
            BY <3>2, <6>1
          <6>. QED
            BY <5>1, <6>1, <6>2
        <5>2. CASE i = m
          <6>1. m - 1 \in 0 .. m /\ m - 1 < m /\ m # 0
            BY <4>1
          <6>. QED
            BY <5>2, <6>1
        <5>. QED
          BY <4>1, <5>1, <5>2
      <4>. QED
        BY <4>2
    <3>. QED
      BY <2>2, <3>3
  <2>. QED
    BY <2>3, <2>4
<1>2. Sums(up, Len(bytes))
  <2>1. Len(bytes) \in 0 .. Len(bytes)
    OBVIOUS
  <2>2. \E f : Sums(f, Len(bytes))
    <3>. HIDE DEF Sums
    <3>. QED
      BY <1>1, <2>1
  <2>. HIDE DEF Sums
  <2>. QED
    BY <2>2
<1>3. Unsigned(bytes) = up[Len(bytes)]
  BY DEF Unsigned
<1>. HIDE DEF up
<1>4. up[0] = 0 /\ \A i \in 1 .. Len(bytes) : up[i] = 256 * up[i - 1] + bytes[i]
  BY <1>2
<1>5. up \in [0 .. Len(bytes) -> Nat]
  <2>. DEFINE Off == {i \in 0 .. Len(bytes) : up[i] \notin Nat}
  <2>1. Off = {}
    <3>. SUFFICES ASSUME Off # {} PROVE FALSE
      OBVIOUS
    <3>1. PICK m \in Off : \A y \in Off : m <= y
      <4>1. Off \in SUBSET Nat
        OBVIOUS
      <4>. QED
        BY <4>1, MinIsLeast
    <3>2. m \in 1 .. Len(bytes)
      BY <1>4
    <3>3. m - 1 \in 0 .. Len(bytes) /\ m - 1 \notin Off
      BY <3>1, <3>2
    <3>4. up[m] = 256 * up[m - 1] + bytes[m] /\ bytes[m] \in Nat
      <4>1. bytes[m] \in Octet
        BY <3>2
      <4>2. bytes[m] \in Nat
        BY <4>1, OctetIsNat
      <4>. QED
        BY <1>4, <3>2, <4>2
    <3>. QED
      BY <3>1, <3>3, <3>4
  <2>. QED
    BY <1>2, <2>1
<1>. QED
  BY <1>3, <1>4, <1>5

(* What a loop over octets adds up is a natural number.                    *)
LEMMA UnsignedIsNat ==
  ASSUME NEW bytes \in Seq(Octet)
  PROVE  Unsigned(bytes) \in Nat
<1>1. Len(bytes) \in 0 .. Len(bytes)
  OBVIOUS
<1>. QED
  BY <1>1, UnsignedRecursion

(* No octets are zero. *)
LEMMA UnsignedEmpty == Unsigned(<< >>) = 0
<1>1. ASSUME NEW bytes \in Seq(Octet), Len(bytes) = 0
      PROVE  Unsigned(bytes) = 0
  <2>1. PICK f \in [0 .. Len(bytes) -> Nat] : f[0] = 0 /\ Unsigned(bytes) = f[Len(bytes)]
    BY UnsignedRecursion
  <2>. QED
    BY <1>1, <2>1
<1>2. << >> \in Seq(Octet) /\ Len(<< >>) = 0
  BY EmptySeq
<1>. QED
  BY <1>1, <1>2

(* One octet more is a shift and an addition.                              *)
LEMMA UnsignedTake ==
  ASSUME NEW bytes \in Seq(Octet), NEW n \in 1 .. Len(bytes)
  PROVE  Unsigned(Take(bytes, n)) = 256 * Unsigned(Take(bytes, n - 1)) + bytes[n]
<1>. DEFINE s == Take(bytes, n)
            t == Take(bytes, n - 1)
<1>1. n - 1 \in 0 .. Len(bytes) /\ n \in 0 .. Len(bytes)
  OBVIOUS
<1>2. /\ s \in Seq(Octet) /\ Len(s) = n /\ \A i \in 1 .. n : s[i] = bytes[i]
      /\ t \in Seq(Octet) /\ Len(t) = n - 1 /\ \A i \in 1 .. n - 1 : t[i] = bytes[i]
  BY <1>1, TakeProperties
<1>. HIDE DEF s, t
<1>3. PICK f \in [0 .. Len(s) -> Nat] :
           /\ f[0] = 0
           /\ \A i \in 1 .. Len(s) : f[i] = 256 * f[i - 1] + s[i]
           /\ Unsigned(s) = f[Len(s)]
  BY <1>2, UnsignedRecursion
<1>4. PICK g \in [0 .. Len(t) -> Nat] :
           /\ g[0] = 0
           /\ \A i \in 1 .. Len(t) : g[i] = 256 * g[i - 1] + t[i]
           /\ Unsigned(t) = g[Len(t)]
  BY <1>2, UnsignedRecursion
<1>5. f[n - 1] = g[n - 1]
  <2>. DEFINE Bad == {i \in 0 .. n - 1 : f[i] # g[i]}
  <2>. SUFFICES ASSUME Bad # {} PROVE FALSE
    <3>1. n - 1 \in 0 .. n - 1
      OBVIOUS
    <3>. QED
      BY <3>1
  <2>1. PICK m \in Bad : \A y \in Bad : m <= y
    <3>1. Bad \in SUBSET Nat
      OBVIOUS
    <3>. QED
      BY <3>1, MinIsLeast
  <2>2. m \in 1 .. n - 1
    BY <1>3, <1>4
  <2>3. m - 1 \in 0 .. n - 1 /\ m - 1 \notin Bad
    BY <2>1, <2>2
  <2>4. f[m - 1] = g[m - 1]
    BY <2>3
  <2>5. m \in 1 .. Len(s) /\ m \in 1 .. Len(t) /\ s[m] = t[m]
    <3>1. m \in 1 .. n
      BY <2>2
    <3>2. s[m] = bytes[m] /\ t[m] = bytes[m]
      BY <1>2, <2>2, <3>1
    <3>. QED
      BY <1>2, <2>2, <3>1, <3>2
  <2>6. f[m] = 256 * f[m - 1] + s[m] /\ g[m] = 256 * g[m - 1] + t[m]
    BY <1>3, <1>4, <2>5
  <2>. QED
    BY <2>4, <2>5, <2>6
<1>6. n \in 1 .. Len(s)
  BY <1>2
<1>7. f[n] = 256 * f[n - 1] + s[n] /\ s[n] = bytes[n]
  BY <1>2, <1>3, <1>6
<1>8. Unsigned(s) = 256 * Unsigned(t) + bytes[n]
  BY <1>2, <1>3, <1>4, <1>5, <1>7
<1>. QED
  BY <1>8 DEF s, t

(* The octets after the first k add less than one unit of the k-th.        *)
LEMMA UnsignedLeading ==
  ASSUME NEW bytes \in Seq(Octet), Len(bytes) <= WordOctets, NEW k \in 0 .. Len(bytes)
  PROVE  \A n \in k .. Len(bytes) :
           /\ Unsigned(Take(bytes, k)) * Weight[n - k] <= Unsigned(Take(bytes, n))
           /\ Unsigned(Take(bytes, n)) <= (Unsigned(Take(bytes, k)) + 1) * Weight[n - k] - 1
<1>. DEFINE a == Unsigned(Take(bytes, k))
            U(n) == Unsigned(Take(bytes, n))
            Bad == {n \in k .. Len(bytes) : ~ /\ a * Weight[n - k] <= U(n)
                                              /\ U(n) <= (a + 1) * Weight[n - k] - 1}
<1>0. \A n \in 0 .. Len(bytes) : U(n) \in Nat
  BY TakeProperties, UnsignedIsNat
<1>. SUFFICES ASSUME Bad # {} PROVE FALSE
  OBVIOUS
<1>1. PICK m \in Bad : \A y \in Bad : m <= y
  <2>1. Bad \in SUBSET Nat
    OBVIOUS
  <2>. QED
    BY <2>1, MinIsLeast
<1>2. WordOctets \in Nat /\ Weight[0] = 1
  BY WordAssumption
<1>3. a \in Nat
  BY <1>0
<1>. DEFINE P(n) == /\ a * Weight[n - k] <= U(n)
                    /\ U(n) <= (a + 1) * Weight[n - k] - 1
<1>4. m \in k .. Len(bytes) /\ ~ P(m)
  OBVIOUS
<1>5. m # k
  <2>. SUFFICES P(k)
    BY <1>4
  <2>1. k - k = 0 /\ U(k) = a
    OBVIOUS
  <2>. HIDE DEF a, U
  <2>. QED
    BY <1>2, <1>3, <2>1
<1>6. m - 1 \in k .. Len(bytes) /\ m - 1 \notin Bad
  <2>. HIDE DEF Bad
  <2>. QED
    BY <1>1, <1>4, <1>5
<1>7. P(m - 1)
  BY <1>6
<1>8. U(m) = 256 * U(m - 1) + bytes[m] /\ bytes[m] \in Octet
  <2>1. m \in 1 .. Len(bytes)
    BY <1>4, <1>5
  <2>. QED
    BY <2>1, UnsignedTake
<1>9. /\ Weight[m - k] = 256 * Weight[m - 1 - k]
      /\ Weight[m - 1 - k] \in Nat
  <2>1. m - k \in 0 .. WordOctets /\ m - k > 0 /\ m - 1 - k \in 0 .. WordOctets
        /\ m - k - 1 = m - 1 - k
    BY <1>2, <1>4, <1>5
  <2>. QED
    BY <2>1, WeightIsNat
<1>10. U(m - 1) \in Nat
  BY <1>0, <1>6
<1>. DEFINE w == Weight[m - 1 - k]
            u == U(m - 1)
            b == bytes[m]
<1>11. a * w <= u /\ u <= (a + 1) * w - 1
  BY <1>7
<1>12. a \in Nat /\ w \in Nat /\ u \in Nat /\ b \in 0 .. 255
  BY <1>3, <1>8, <1>9, <1>10 DEF Octet
<1>13. U(m) = 256 * u + b /\ Weight[m - k] = 256 * w
  BY <1>8, <1>9
<1>. HIDE DEF a, w, u, b, U, Bad
<1>14. a * (256 * w) = 256 * (a * w) /\ (a + 1) * (256 * w) = 256 * ((a + 1) * w)
  BY <1>12
<1>15. a * w \in Int /\ (a + 1) * w \in Int
  BY <1>12
<1>16. 256 * (a * w) <= 256 * u + b /\ 256 * u + b <= 256 * ((a + 1) * w) - 1
  BY <1>11, <1>12, <1>15
<1>. QED
  BY <1>4, <1>13, <1>14, <1>16

(* So the first octet of a number bounds it from both sides, which is why  *)
(* its top bit can serve as the sign.                                      *)
LEMMA UnsignedByFirst ==
  ASSUME NEW bytes \in Seq(Octet), Len(bytes) \in 1 .. WordOctets
  PROVE  /\ bytes[1] * Weight[Len(bytes) - 1] <= Unsigned(bytes)
         /\ Unsigned(bytes) <= (bytes[1] + 1) * Weight[Len(bytes) - 1] - 1
<1>. DEFINE n == Len(bytes)
<1>1. n \in Nat /\ n \in 1 .. n /\ 1 \in 1 .. n /\ 1 \in 0 .. n /\ n <= WordOctets
  BY WordAssumption
<1>2. Take(bytes, n) = bytes /\ Take(bytes, 0) = << >>
  BY TakeAll
<1>3. Unsigned(Take(bytes, 1)) = 256 * Unsigned(Take(bytes, 1 - 1)) + bytes[1]
  BY <1>1, UnsignedTake
<1>4. bytes[1] \in Nat
  BY <1>1, ElementOfSeq, OctetIsNat
<1>. HIDE DEF n
<1>5. Unsigned(Take(bytes, 1)) = bytes[1]
  BY <1>2, <1>3, <1>4, UnsignedEmpty
<1>6. /\ Unsigned(Take(bytes, 1)) * Weight[n - 1] <= Unsigned(Take(bytes, n))
      /\ Unsigned(Take(bytes, n)) <= (Unsigned(Take(bytes, 1)) + 1) * Weight[n - 1] - 1
  BY <1>1, UnsignedLeading DEF n
<1>. QED
  BY <1>2, <1>5, <1>6 DEF n

-----------------------------------------------------------------------------
(* INTEGER contents: encoding and decoding are inverse to each other.      *)

(* What fits in n octets is an int64_t.                                    *)
LEMMA FitsIsWord ==
  ASSUME NEW n \in 1 .. WordOctets, NEW v \in Int, Fits(v, n)
  PROVE  v \in SWord
<1>1. /\ WordOctets - 1 \in 0 .. WordOctets
      /\ n - 1 \in 0 .. WordOctets - 1
  BY WordAssumption
<1>2. Weight[n - 1] <= Weight[WordOctets - 1]
  BY <1>1, WeightMonotone
<1>3. Weight[n - 1] \in Nat /\ Weight[WordOctets - 1] \in Nat
  BY <1>1, WeightIsNat, WordAssumption
<1>. QED
  BY <1>2, <1>3 DEF Fits, SWord

(* What decode_integer_value returns for n octets is in the range of n      *)
(* octets of two's complement: the shifts never leave the int64_t.         *)
LEMMA DecodedFits ==
  ASSUME NEW bytes \in Seq(Octet), Len(bytes) \in 1 .. WordOctets
  PROVE  /\ Fits(decode_integer_value(bytes), Len(bytes))
         /\ decode_integer_value(bytes) \in SWord
<1>. DEFINE n == Len(bytes)
            b == bytes[1]
            w == Weight[n - 1]
            u == Unsigned(bytes)
            d == decode_integer_value(bytes)
<1>1. n \in 1 .. WordOctets /\ b \in 0 .. 255
  BY ElementOfSeq DEF Octet
<1>2. u \in Nat
  BY UnsignedIsNat
<1>3. b * w <= u /\ u <= (b + 1) * w - 1
  BY UnsignedByFirst
<1>4. d = (IF b >= 128 THEN -Weight[n] ELSE 0) + u
  BY DEF decode_integer_value, Negative
<1>. HIDE DEF n, u, b, d
<1>5. w \in Nat /\ Weight[n] = 256 * w
  <2>1. n \in 0 .. WordOctets /\ n - 1 \in 0 .. WordOctets /\ n > 0
    BY <1>1, WordAssumption
  <2>. QED
    BY <2>1, WeightIsNat
<1>. HIDE DEF w
<1>6. d \in -(128 * w) .. 128 * w - 1
  <2>1. CASE b >= 128
    <3>1. 128 * w <= b * w /\ (b + 1) * w <= 256 * w
      BY <1>1, <1>5, <2>1, ProductMonotone
    <3>. QED
      BY <1>1, <1>2, <1>3, <1>4, <1>5, <2>1, <3>1
  <2>2. CASE ~ (b >= 128)
    <3>1. 0 * w <= b * w /\ (b + 1) * w <= 128 * w
      BY <1>1, <1>5, <2>2, ProductMonotone
    <3>. QED
      BY <1>1, <1>2, <1>3, <1>4, <1>5, <2>2, <3>1
  <2>. QED
    BY <2>1, <2>2
<1>7. Fits(d, n) /\ d \in Int
  BY <1>5, <1>6 DEF Fits, w
<1>. QED
  BY <1>1, <1>7, FitsIsWord DEF d, n

(* The octets of a word, most significant first, are its base-256 digits.  *)
LEMMA OctetStep ==
  ASSUME NEW v \in Int, NEW n \in 0 .. WordOctets, NEW i \in 1 .. n
  PROVE  /\ v \div Weight[n - i] \in Int /\ v \div Weight[n - (i - 1)] \in Int
         /\ v \div Weight[n - i] = 256 * (v \div Weight[n - (i - 1)]) + Octets(v, n)[i]
<1>1. Octets(v, n)[i] = (v \div Weight[n - i]) % 256
  BY DEF Octets
<1>2. n - i \in 0 .. WordOctets /\ n - (i - 1) \in 0 .. WordOctets
      /\ n - (i - 1) > 0 /\ n - (i - 1) - 1 = n - i
  BY WordAssumption
<1>. DEFINE w == Weight[n - i]
<1>3. w \in Nat \ {0} /\ Weight[n - (i - 1)] = 256 * w
  <2>1. Weight[n - i] \in Nat
    BY <1>2, WeightIsNat
  <2>2. Weight[n - i] >= 1
    BY <1>2, WeightPositive
  <2>3. Weight[n - (i - 1)] = 256 * Weight[n - (i - 1) - 1]
    BY <1>2, WeightIsNat
  <2>. QED
    BY <1>2, <2>1, <2>2, <2>3
<1>. HIDE DEF w
<1>4. (v \div w) \div 256 = v \div (256 * w)
  <2>1. ASSUME NEW c \in Nat \ {0}
        PROVE  (v \div w) \div c = v \div (c * w)
    BY <1>3, ShiftTwice
  <2>. QED
    BY <2>1, 256 \in Nat \ {0}
<1>. DEFINE q == v \div w
<1>5. q \in Int
  BY <1>3
<1>. HIDE DEF q
<1>6. q = 256 * (q \div 256) + (q % 256) /\ q \div 256 \in Int
  BY <1>5
<1>. QED
  BY <1>1, <1>3, <1>4, <1>5, <1>6 DEF q, w

(* The low n octets of v stand for v when nothing lies above them, and for *)
(* v plus the next weight when only sign bits do.                          *)
LEMMA UnsignedOfOctets ==
  ASSUME NEW v \in Int, NEW n \in 0 .. WordOctets, NEW c \in {-1, 0},
         v \div Weight[n] = c
  PROVE  Unsigned(Octets(v, n)) = v - c * Weight[n]
<1>. DEFINE s == Octets(v, n)
            U(i) == Unsigned(Take(s, i))
            Bad == {i \in 0 .. n : U(i) # (v \div Weight[n - i]) - c * Weight[i]}
<1>1. s \in Seq(Octet) /\ Len(s) = n
  BY OctetsAreOctets
<1>2. n \in Nat /\ WordOctets \in Nat /\ Weight[0] = 1
  BY WordAssumption
<1>3. U(0) = 0 /\ U(n) = Unsigned(s)
  BY <1>1, TakeAll, UnsignedEmpty
<1>4. Bad = {}
  <2>. SUFFICES ASSUME Bad # {} PROVE FALSE
    OBVIOUS
  <2>1. PICK m \in Bad : \A y \in Bad : m <= y
    <3>1. Bad \in SUBSET Nat
      OBVIOUS
    <3>. QED
      BY <3>1, MinIsLeast
  <2>2. m \in 0 .. n /\ U(m) # (v \div Weight[n - m]) - c * Weight[m]
    OBVIOUS
  <2>. HIDE DEF Bad, U
  <2>3. m # 0
    <3>1. U(0) = (v \div Weight[n - 0]) - c * Weight[0]
      <4>1. n - 0 = n
        BY <1>2
      <4>. QED
        BY <1>2, <1>3, <4>1
    <3>. QED
      BY <2>2, <3>1
  <2>4. m \in 1 .. n /\ m - 1 \in 0 .. n /\ m - 1 \notin Bad
    BY <1>2, <2>1, <2>2, <2>3
  <2>5. U(m - 1) = (v \div Weight[n - (m - 1)]) - c * Weight[m - 1]
    BY <2>4 DEF Bad
  <2>6. U(m) = 256 * U(m - 1) + s[m]
    BY <1>1, <2>4, UnsignedTake DEF U
  <2>7. /\ v \div Weight[n - m] \in Int /\ v \div Weight[n - (m - 1)] \in Int
        /\ v \div Weight[n - m] = 256 * (v \div Weight[n - (m - 1)]) + s[m]
    BY <2>4, OctetStep
  <2>8. Weight[m] = 256 * Weight[m - 1] /\ Weight[m - 1] \in Nat
    <3>1. m \in 0 .. WordOctets /\ m - 1 \in 0 .. WordOctets /\ m > 0
      BY <1>2, <2>4
    <3>. QED
      BY <3>1, WeightIsNat
  <2>9. s[m] \in Int
    BY <1>1, <2>4, ElementOfSeq, OctetIsNat
  <2>. HIDE DEF s
  <2>. QED
    BY <2>2, <2>5, <2>6, <2>7, <2>8, <2>9
<1>5. n \in 0 .. n /\ n - n = 0
  BY <1>2
<1>6. U(n) = (v \div Weight[n - n]) - c * Weight[n]
  BY <1>4, <1>5
<1>7. v \div 1 = v
  OBVIOUS
<1>. QED
  BY <1>2, <1>3, <1>5, <1>6, <1>7

(* Above the octets a value fits in there is nothing but its sign.         *)
LEMMA SignOctets ==
  ASSUME NEW n \in 1 .. WordOctets, NEW v \in Int, Fits(v, n)
  PROVE  v \div Weight[n] = IF v < 0 THEN -1 ELSE 0
<1>1. /\ n \in 0 .. WordOctets /\ n - 1 \in 0 .. WordOctets /\ n > 0
  BY WordAssumption
<1>2. Weight[n - 1] \in Nat /\ Weight[n - 1] >= 1 /\ Weight[n] = 256 * Weight[n - 1]
  BY <1>1, WeightIsNat, WeightPositive
<1>. DEFINE w == Weight[n - 1]
<1>3. -(128 * w) <= v /\ v <= 128 * w - 1
  BY DEF Fits
<1>. HIDE DEF w
<1>4. 256 * w \in Nat \ {0} /\ w \in Nat
  BY <1>2 DEF w
<1>5. CASE v < 0
  <2>1. v = (256 * w) * (-1) + (v + 256 * w) /\ v + 256 * w \in 0 .. 256 * w - 1
    BY <1>3, <1>4, <1>5
  <2>2. v \div (256 * w) = -1
    BY <1>4, <2>1, DivisionIsUnique
  <2>. QED
    BY <1>2, <1>5, <2>2 DEF w
<1>6. CASE ~ (v < 0)
  <2>1. v = (256 * w) * 0 + v /\ v \in 0 .. 256 * w - 1
    BY <1>3, <1>4, <1>6
  <2>2. v \div (256 * w) = 0
    BY <1>4, <2>1, DivisionIsUnique
  <2>. QED
    BY <1>2, <1>6, <2>2 DEF w
<1>. QED
  BY <1>5, <1>6

(* A value is read back from any number of octets it fits in.              *)
LEMMA OctetsReadBack ==
  ASSUME NEW n \in 1 .. WordOctets, NEW v \in Int, Fits(v, n)
  PROVE  decode_integer_value(Octets(v, n)) = v
<1>. DEFINE s == Octets(v, n)
            w == Weight[n - 1]
            u == Unsigned(s)
            b == s[1]
<1>1. /\ n \in 0 .. WordOctets /\ n - 1 \in 0 .. WordOctets /\ n > 0
  BY WordAssumption
<1>2. w \in Nat /\ w >= 1 /\ Weight[n] = 256 * w
  BY <1>1, WeightIsNat, WeightPositive
<1>3. s \in Seq(Octet) /\ Len(s) = n
  BY <1>1, OctetsAreOctets
<1>4. u = v + (IF v < 0 THEN Weight[n] ELSE 0)
  <2>1. CASE v < 0
    <3>1. v \div Weight[n] = -1
      BY <2>1, SignOctets
    <3>2. u = v - (-1) * Weight[n]
      BY <1>1, <3>1, UnsignedOfOctets
    <3>. QED
      BY <1>2, <2>1, <3>2
  <2>2. CASE ~ (v < 0)
    <3>1. v \div Weight[n] = 0
      BY <2>2, SignOctets
    <3>2. u = v - 0 * Weight[n]
      BY <1>1, <3>1, UnsignedOfOctets
    <3>. QED
      BY <1>2, <2>2, <3>2
  <2>. QED
    BY <2>1, <2>2
<1>5. b \in 0 .. 255
  <2>1. 1 \in 1 .. Len(s)
    BY <1>3
  <2>. QED
    BY <1>3, <2>1, ElementOfSeq DEF Octet
<1>6. b * w <= u /\ u <= (b + 1) * w - 1
  BY <1>3, UnsignedByFirst
<1>7. -(128 * w) <= v /\ v <= 128 * w - 1
  BY DEF Fits
<1>8. decode_integer_value(s) = (IF b >= 128 THEN -Weight[n] ELSE 0) + u
  BY <1>3 DEF decode_integer_value, Negative
<1>. HIDE DEF s, w, u, b
<1>9. CASE b >= 128
  <2>1. 128 * w <= b * w
    BY <1>2, <1>5, <1>9, ProductMonotone
  <2>. QED
    BY <1>2, <1>4, <1>5, <1>6, <1>7, <1>8, <1>9, <2>1 DEF s
<1>10. CASE ~ (b >= 128)
  <2>1. (b + 1) * w <= 128 * w
    BY <1>2, <1>5, <1>10, ProductMonotone
  <2>. QED
    BY <1>2, <1>4, <1>5, <1>6, <1>7, <1>8, <1>10, <2>1 DEF s
<1>. QED
  BY <1>9, <1>10

(* decode_integer_value undoes encode_integer_bytes, for every int64_t.    *)
THEOREM IntegerRoundTrip ==
  ASSUME NEW v \in SWord
  PROVE  decode_integer_value(encode_integer_bytes(v)) = v
<1>1. encoded_integer_size(v) \in 1 .. WordOctets /\ Fits(v, encoded_integer_size(v))
  BY EncodedSizeFits
<1>2. v \in Int
  BY WordAssumption, WeightIsNat DEF SWord
<1>. QED
  BY <1>1, <1>2, OctetsReadBack DEF encode_integer_bytes

(* Octet strings of one length that stand for one number are equal.        *)
LEMMA UnsignedInjective ==
  ASSUME NEW s \in Seq(Octet), NEW t \in Seq(Octet),
         Len(s) = Len(t), Len(s) <= WordOctets, Unsigned(s) = Unsigned(t)
  PROVE  s = t
<1>. DEFINE n == Len(s)
<1>1. n \in Nat /\ n \in 0 .. n /\ WordOctets \in Nat
  BY WordAssumption
<1>2. Unsigned(Take(s, n)) = Unsigned(s) /\ Unsigned(Take(t, n)) = Unsigned(t)
  BY TakeAll
<1>. HIDE DEF n
<1>3. ASSUME NEW i \in 0 .. n
      PROVE  Unsigned(Take(s, i)) = Unsigned(Take(t, i))
  <2>. DEFINE w == Weight[n - i]
              a == Unsigned(Take(s, i))
              b == Unsigned(Take(t, i))
              u == Unsigned(s)
  <2>1. n \in i .. n /\ n - i \in 0 .. WordOctets
    BY <1>1 DEF n
  <2>2. w \in Nat /\ w >= 1
    BY <2>1, WeightIsNat, WeightPositive
  <2>3. a \in Nat /\ b \in Nat /\ u \in Nat
    BY TakeProperties, UnsignedIsNat DEF n
  <2>4. a * w <= u /\ u <= (a + 1) * w - 1
    BY <1>2, <2>1, UnsignedLeading DEF n
  <2>5. b * w <= u /\ u <= (b + 1) * w - 1
    BY <1>2, <2>1, UnsignedLeading DEF n
  <2>. HIDE DEF w, a, b, u
  <2>6. ~ (a + 1 <= b)
    <3>. SUFFICES ASSUME a + 1 <= b PROVE FALSE
      OBVIOUS
    <3>1. (a + 1) * w <= b * w
      BY <2>2, <2>3, ProductMonotone
    <3>. QED
      BY <2>2, <2>3, <2>4, <2>5, <3>1
  <2>7. ~ (b + 1 <= a)
    <3>. SUFFICES ASSUME b + 1 <= a PROVE FALSE
      OBVIOUS
    <3>1. (b + 1) * w <= a * w
      BY <2>2, <2>3, ProductMonotone
    <3>. QED
      BY <2>2, <2>3, <2>4, <2>5, <3>1
  <2>8. a = b
    BY <2>3, <2>6, <2>7
  <2>. QED
    BY <2>8 DEF a, b
<1>4. ASSUME NEW i \in 1 .. n
      PROVE  s[i] = t[i]
  <2>1. i \in 0 .. n /\ i - 1 \in 0 .. n
    BY <1>1
  <2>2. Unsigned(Take(s, i - 1)) \in Nat
    <3>1. Take(s, i - 1) \in Seq(Octet)
      BY <2>1, TakeProperties DEF n
    <3>. QED
      BY <3>1, UnsignedIsNat
  <2>3. /\ Unsigned(Take(s, i)) = 256 * Unsigned(Take(s, i - 1)) + s[i]
        /\ Unsigned(Take(t, i)) = 256 * Unsigned(Take(t, i - 1)) + t[i]
    BY UnsignedTake DEF n
  <2>4. s[i] \in Nat /\ t[i] \in Nat
    BY ElementOfSeq, OctetIsNat DEF n
  <2>. QED
    BY <1>3, <2>1, <2>2, <2>3, <2>4
<1>. QED
  BY <1>4, SeqEqual DEF n

(* And the octets of a decoded INTEGER, at its own length, are the octets  *)
(* it was decoded from.                                                    *)
LEMMA OctetsOfDecoded ==
  ASSUME NEW bytes \in Seq(Octet), Len(bytes) \in 1 .. WordOctets
  PROVE  Octets(decode_integer_value(bytes), Len(bytes)) = bytes
<1>. DEFINE n == Len(bytes)
            d == decode_integer_value(bytes)
            s == Octets(d, n)
<1>1. Fits(d, n) /\ d \in Int
  BY DecodedFits, WordAssumption, WeightIsNat DEF SWord
<1>2. n \in 0 .. WordOctets
  OBVIOUS
<1>3. s \in Seq(Octet) /\ Len(s) = n
  BY <1>1, <1>2, OctetsAreOctets
<1>4. decode_integer_value(s) = d
  BY <1>1, OctetsReadBack
<1>5. bytes[1] \in 0 .. 255 /\ s[1] \in 0 .. 255
  BY <1>3, ElementOfSeq DEF Octet
<1>. DEFINE w == Weight[n - 1]
            u == Unsigned(bytes)
            x == Unsigned(s)
<1>6. Weight[n] \in Nat /\ Weight[n] >= 1 /\ u \in Nat /\ x \in Nat
  BY <1>2, <1>3, WeightIsNat, WeightPositive, UnsignedIsNat
<1>7. d = (IF bytes[1] >= 128 THEN -Weight[n] ELSE 0) + u
  BY DEF decode_integer_value, Negative
<1>8. d = (IF s[1] >= 128 THEN -Weight[n] ELSE 0) + x
  BY <1>3, <1>4 DEF decode_integer_value, Negative
<1>9. u <= Weight[n] - 1 /\ x <= Weight[n] - 1
  <2>1. ASSUME NEW c \in Seq(Octet), Len(c) = n
        PROVE  Unsigned(c) <= Weight[n] - 1
    <3>1. 0 \in 0 .. Len(c) /\ n \in 0 .. Len(c) /\ Len(c) <= WordOctets /\ n - 0 = n
      BY <1>2, <2>1
    <3>2. Unsigned(Take(c, n)) <= (Unsigned(Take(c, 0)) + 1) * Weight[n - 0] - 1
      BY <3>1, UnsignedLeading
    <3>3. Take(c, n) = c /\ Take(c, 0) = << >>
      BY <2>1, TakeAll
    <3>. HIDE DEF n
    <3>4. Unsigned(c) <= (0 + 1) * Weight[n] - 1
      BY <3>1, <3>2, <3>3, UnsignedEmpty
    <3>. QED
      BY <1>6, <3>4
  <2>. QED
    BY <1>3, <2>1
<1>. HIDE DEF n, d, s, u, x
<1>10. u = x
  BY <1>5, <1>6, <1>7, <1>8, <1>9
<1>. QED
  BY <1>2, <1>3, <1>10, UnsignedInjective DEF n, d, s, u, x

-----------------------------------------------------------------------------
(* Leading octets that say nothing.                                        *)

(* The first octet repeats the sign of the second.                         *)
Redundant(c) ==
  \/ c[1] = 0 /\ c[2] < 128
  \/ c[1] = 255 /\ c[2] >= 128

(* The value fits one octet less exactly when the first octet only repeats *)
(* the sign: who looks at two octets decides for all of them.              *)
LEMMA FitsLess ==
  ASSUME NEW c \in Seq(Octet), Len(c) \in 2 .. WordOctets
  PROVE  Fits(decode_integer_value(c), Len(c) - 1) <=> Redundant(c)
<1>. DEFINE n == Len(c)
            w == Weight[n - 2]
            u == Unsigned(c)
            v == decode_integer_value(c)
            a == c[1]
            b == c[2]
            p == 256 * a + b
<1>1. /\ n \in 1 .. WordOctets /\ n \in 2 .. n /\ n \in 0 .. WordOctets
      /\ n - 1 \in 0 .. WordOctets /\ n - 1 \in 1 .. WordOctets /\ n - 2 \in 0 .. WordOctets
      /\ 1 \in 1 .. n /\ 2 \in 1 .. n /\ 2 \in 0 .. n
  <2>1. n \in 2 .. WordOctets
    OBVIOUS
  <2>. HIDE DEF n
  <2>. QED
    BY <2>1, WordAssumption
<1>2. w \in Nat /\ w >= 1
  BY <1>1, WeightIsNat, WeightPositive
<1>3. Weight[n - 1] = 256 * w /\ Weight[n] = 65536 * w
  <2>1. Weight[n - 1] = 256 * Weight[(n - 1) - 1] /\ Weight[n] = 256 * Weight[n - 1]
    BY <1>1, WordAssumption
  <2>2. (n - 1) - 1 = n - 2
    OBVIOUS
  <2>. QED
    BY <1>2, <2>1, <2>2
<1>4. a \in 0 .. 255 /\ b \in 0 .. 255
  BY <1>1, ElementOfSeq DEF Octet
<1>5. Unsigned(Take(c, 2)) = p
  <2>1. Unsigned(Take(c, 2)) = 256 * Unsigned(Take(c, 2 - 1)) + c[2]
    BY <1>1, UnsignedTake
  <2>2. Unsigned(Take(c, 1)) = 256 * Unsigned(Take(c, 1 - 1)) + c[1]
    BY <1>1, UnsignedTake
  <2>3. Unsigned(Take(c, 0)) = 0
    BY TakeAll, UnsignedEmpty
  <2>4. Unsigned(Take(c, 2)) = 256 * Unsigned(Take(c, 1)) + b
    BY <2>1
  <2>5. Unsigned(Take(c, 1)) = 256 * Unsigned(Take(c, 0)) + a
    BY <2>2
  <2>. HIDE DEF a, b
  <2>. QED
    BY <1>4, <2>3, <2>4, <2>5
<1>6. p * w <= u /\ u <= (p + 1) * w - 1
  <2>1. /\ Unsigned(Take(c, 2)) * Weight[n - 2] <= Unsigned(Take(c, n))
        /\ Unsigned(Take(c, n)) <= (Unsigned(Take(c, 2)) + 1) * Weight[n - 2] - 1
    <3>1. Len(c) <= WordOctets /\ 2 \in 0 .. Len(c) /\ n \in 2 .. Len(c)
      BY <1>1
    <3>. QED
      BY <3>1, UnsignedLeading
  <2>2. Take(c, n) = c
    BY TakeAll
  <2>. QED
    BY <1>5, <2>1, <2>2
<1>7. u \in Nat /\ p \in Nat
  <2>1. u \in Nat
    BY UnsignedIsNat
  <2>. HIDE DEF a, b, u
  <2>. QED
    BY <1>4, <2>1
<1>8. v = IF a >= 128 THEN u - 65536 * w ELSE u
  BY <1>2, <1>3, <1>7 DEF decode_integer_value, Negative
<1>10. Fits(v, n - 1) <=> -(128 * w) <= v /\ v <= 128 * w - 1
  <2>1. Weight[(n - 1) - 1] = w
    OBVIOUS
  <2>. HIDE DEF w, v
  <2>. QED
    BY <2>1 DEF Fits
<1>11. \A x, y \in Nat : x <= y => x * w <= y * w
  BY <1>2, ProductMonotone
<1>12. Redundant(c) <=> p <= 127 \/ p >= 65408
  <2>1. ((a = 0 /\ b < 128) \/ (a = 255 /\ b >= 128)) <=> (p <= 127 \/ p >= 65408)
    <3>. HIDE DEF a, b
    <3>. QED
      BY <1>4
  <2>. QED
    BY <2>1 DEF Redundant
<1>13. (a >= 128 <=> p >= 32768) /\ p + 1 <= 65536
  <2>. HIDE DEF a, b
  <2>. QED
    BY <1>4
<1>. HIDE DEF n, w, u, v, p, a, b
<1>14. CASE p <= 127
  <2>1. (p + 1) * w <= 128 * w
    BY <1>7, <1>11, <1>14
  <2>. QED
    BY <1>2, <1>6, <1>7, <1>8, <1>10, <1>12, <1>13, <1>14, <2>1 DEF n, v
<1>15. CASE p >= 128 /\ p < 32768
  <2>1. 128 * w <= p * w
    BY <1>7, <1>11, <1>15
  <2>. QED
    BY <1>2, <1>6, <1>7, <1>8, <1>10, <1>12, <1>13, <1>15, <2>1 DEF n, v
<1>16. CASE p >= 32768 /\ p < 65408
  <2>1. (p + 1) * w <= 65408 * w
    BY <1>7, <1>11, <1>16
  <2>. QED
    BY <1>2, <1>6, <1>7, <1>8, <1>10, <1>12, <1>13, <1>16, <2>1 DEF n, v
<1>17. CASE p >= 65408
  <2>1. 65408 * w <= p * w
    BY <1>7, <1>11, <1>17
  <2>2. (p + 1) * w <= 65536 * w
    BY <1>7, <1>11, <1>13
  <2>. QED
    BY <1>2, <1>6, <1>7, <1>8, <1>10, <1>12, <1>13, <1>17, <2>1, <2>2 DEF n, v
<1>. QED
  BY <1>7, <1>14, <1>15, <1>16, <1>17

(* The encoder leaves no such octet.                                       *)
LEMMA EncodedNotRedundant ==
  ASSUME NEW v \in SWord, Len(encode_integer_bytes(v)) # 1
  PROVE  ~ Redundant(encode_integer_bytes(v))
<1>. DEFINE c == encode_integer_bytes(v)
            n == ShortestSize(v)
            S == {k \in 1 .. WordOctets : Fits(v, k)}
<1>1. encoded_integer_size(v) = n /\ n \in 1 .. WordOctets /\ Fits(v, n) /\ v \in Int
  BY EncodedSizeFits, EncodedSizeIsShortest, WordAssumption, WeightIsNat DEF SWord
<1>2. c \in Seq(Octet) /\ Len(c) = n /\ decode_integer_value(c) = v
  <2>1. n \in 0 .. WordOctets
    BY <1>1, WordAssumption
  <2>. QED
    BY <1>1, <2>1, IntegerOctets, OctetsAreOctets, IntegerRoundTrip
<1>3. n = Min(S)
  BY DEF ShortestSize
<1>. HIDE DEF n, c
<1>4. n \in 2 .. WordOctets /\ n - 1 \in 1 .. WordOctets /\ ~ (n <= n - 1)
  BY <1>1, <1>2, WordAssumption DEF c
<1>5. ~ Fits(v, n - 1)
  <2>. SUFFICES ASSUME Fits(v, n - 1) PROVE FALSE
    OBVIOUS
  <2>1. n - 1 \in S /\ S \in SUBSET Nat
    BY <1>4
  <2>. HIDE DEF S
  <2>2. n <= n - 1
    BY <1>3, <2>1, MinIsLeast
  <2>. QED
    BY <1>4, <2>2
<1>6. Fits(decode_integer_value(c), Len(c) - 1) <=> Redundant(c)
  BY <1>2, <1>4, FitsLess
<1>. QED
  BY <1>2, <1>5, <1>6 DEF c

-----------------------------------------------------------------------------
(* Tags, lengths and elements.                                             *)

(* A tag number needs at most five groups. *)
LEMMA ContCountBounds ==
  ASSUME NEW number \in 0 .. TagModulus - 1
  PROVE  cont_count(number) \in 1 .. 5
<1>. DEFINE S == {c \in 1 .. 5 : number \div Group[c] < 128}
<1>1. 5 \in S
  BY TagAssumption DEF Group
<1>2. Min(S) \in S
  BY <1>1, MinIsLeast
<1>. QED
  BY <1>2 DEF cont_count

(* encode_tag writes as many octets as encoded_tag_size says.              *)
LEMMA EncodeTagOctets ==
  ASSUME NEW t \in Tag
  PROVE  encode_tag(t) \in Seq(Octet) /\ Len(encode_tag(t)) = encoded_tag_size(t)
<1>. DEFINE lead == 64 * t.cls + (IF t.constructed THEN 32 ELSE 0)
            c    == cont_count(t.number)
            group(i) == (t.number \div Group[c - i + 1]) % 128
            long == [i \in 1 .. c |-> group(i) + (IF i < c THEN 128 ELSE 0)]
<1>1. t.number \in Nat /\ t.number \in 0 .. TagModulus - 1
  BY TagAssumption DEF Tag
<1>2. lead \in 0 .. 224
  BY DEF Tag
<1>3. CASE t.number <= 30
  <2>1. encode_tag(t) = <<lead + t.number>>
    BY <1>3 DEF encode_tag
  <2>2. lead + t.number \in Octet
    BY <1>1, <1>2, <1>3 DEF Octet
  <2>. QED
    BY <1>3, <2>1, <2>2 DEF encoded_tag_size
<1>4. CASE ~ (t.number <= 30)
  <2>1. encode_tag(t) = <<lead + 31>> \o long
    BY <1>4 DEF encode_tag
  <2>2. c \in 1 .. 5
    BY <1>1, ContCountBounds
  <2>3. \A i \in 1 .. c : group(i) + (IF i < c THEN 128 ELSE 0) \in Octet
    <3>. SUFFICES ASSUME NEW i \in 1 .. c
                  PROVE  group(i) + (IF i < c THEN 128 ELSE 0) \in Octet
      OBVIOUS
    <3>1. c - i + 1 \in 1 .. 5
      BY <2>2
    <3>2. Group[c - i + 1] \in Nat \ {0}
      BY <3>1 DEF Group
    <3>3. t.number \div Group[c - i + 1] \in Int
      BY <1>1, <3>2
    <3>4. group(i) \in 0 .. 127
      BY <3>3
    <3>. HIDE DEF group, c
    <3>. QED
      BY <2>2, <3>4 DEF Octet
  <2>4. long \in Seq(Octet) /\ Len(long) = c
    BY <2>2, <2>3
  <2>5. <<lead + 31>> \in Seq(Octet) /\ Len(<<lead + 31>>) = 1
    BY <1>2 DEF Octet
  <2>. QED
    BY <1>4, <2>1, <2>2, <2>4, <2>5 DEF encoded_tag_size
<1>. QED
  BY <1>3, <1>4

(* encode_length writes as many octets as encoded_length_size says.        *)
LEMMA EncodeLengthOctets ==
  ASSUME NEW length \in UWord
  PROVE  /\ encode_length(length) \in Seq(Octet)
         /\ Len(encode_length(length)) = encoded_length_size(length)
<1>. DEFINE k == length_octets(length)
            S == {n \in 1 .. WordOctets : length < Weight[n]}
<1>1. WordOctets \in Nat \ {0} /\ Weight[WordOctets] \in Nat /\ length \in Nat
  BY WordAssumption, WeightIsNat DEF UWord
<1>2. WordOctets \in S
  BY <1>1 DEF UWord
<1>3. Min(S) \in S
  BY <1>1, <1>2, MinIsLeast
<1>4. k \in 1 .. WordOctets
  BY <1>3 DEF length_octets
<1>. HIDE DEF k, S
<1>5. CASE length <= 127
  BY <1>1, <1>5 DEF encode_length, encoded_length_size, Octet
<1>6. CASE ~ (length <= 127)
  <2>1. encode_length(length) = <<128 + k>> \o Octets(length, k)
    BY <1>6 DEF encode_length, k
  <2>2. Octets(length, k) \in Seq(Octet) /\ Len(Octets(length, k)) = k
    <3>1. length \in Int /\ k \in 0 .. WordOctets
      BY <1>1, <1>4
    <3>. QED
      BY <3>1, OctetsAreOctets
  <2>3. 128 + k \in Octet
    BY <1>4, WordAssumption DEF Octet
  <2>. QED
    BY <1>1, <1>4, <1>6, <2>1, <2>2, <2>3 DEF encoded_length_size, k
<1>. QED
  BY <1>5, <1>6

(* An element is as long as encode_tlv computes before it writes anything. *)
LEMMA EncodeTlvOctets ==
  ASSUME NEW t \in Tag, NEW contents \in Seq(Octet), Len(contents) \in UWord
  PROVE  /\ encode_tlv(t, contents) \in Seq(Octet)
         /\ Len(encode_tlv(t, contents)) = encode_tlv_size(t, contents)
<1>1. encode_tag(t) \in Seq(Octet) /\ Len(encode_tag(t)) = encoded_tag_size(t)
  BY EncodeTagOctets
<1>2. /\ encode_length(Len(contents)) \in Seq(Octet)
      /\ Len(encode_length(Len(contents))) = encoded_length_size(Len(contents))
  BY EncodeLengthOctets
<1>. QED
  BY <1>1, <1>2 DEF encode_tlv, encode_tlv_size, encoded_header_size

(* A SEQUENCE header is as long as encode_sequence_header checks for.      *)
LEMMA HeaderOctets ==
  ASSUME NEW t \in Tag, NEW length \in UWord
  PROVE  /\ encode_tag(t) \o encode_length(length) \in Seq(Octet)
         /\ Len(encode_tag(t) \o encode_length(length)) = encoded_header_size(t, length)
<1>1. encode_tag(t) \in Seq(Octet) /\ Len(encode_tag(t)) = encoded_tag_size(t)
  BY EncodeTagOctets
<1>2. /\ encode_length(length) \in Seq(Octet)
      /\ Len(encode_length(length)) = encoded_length_size(length)
  BY EncodeLengthOctets
<1>. QED
  BY <1>1, <1>2 DEF encoded_header_size

(* The universal tags the encoders write are tags. *)
LEMMA UniversalTags ==
  ASSUME NEW number \in 0 .. 30
  PROVE  make_universal(number) \in Tag
BY TagAssumption DEF make_universal, Tag

(* So are the seven names for them.                                        *)
LEMMA ElementTags ==
  {BOOLEAN_TAG, INTEGER_TAG, BIT_STRING_TAG, OCTET_STRING_TAG, NULL_TAG,
   OID_TAG, ENUMERATED_TAG} \subseteq Tag
BY UniversalTags DEF BOOLEAN_TAG, INTEGER_TAG, BIT_STRING_TAG, OCTET_STRING_TAG,
   NULL_TAG, OID_TAG, ENUMERATED_TAG

-----------------------------------------------------------------------------
(* Identifier octets: what decode_tag makes of a view.                     *)

(* Groups is the loop of decode_tag over the octets, and every number on   *)
(* the way is a uint32_t.                                                  *)
LEMMA GroupsRecursion ==
  ASSUME NEW octets \in Seq(Octet)
  PROVE  \E upto \in [0 .. Len(octets) -> 0 .. TagModulus - 1] :
           /\ upto[0] = 0
           /\ \A i \in 1 .. Len(octets) :
                upto[i] = (128 * upto[i - 1] + (octets[i] % 128)) % TagModulus
           /\ Groups(octets) = upto[Len(octets)]
<1>. DEFINE Loop(f, n) ==
              f = [i \in 0 .. n |->
                     IF i = 0 THEN 0 ELSE (128 * f[i - 1] + (octets[i] % 128)) % TagModulus]
            Bad == {n \in 0 .. Len(octets) : ~ \E f : Loop(f, n)}
            up  == CHOOSE f : Loop(f, Len(octets))
<1>0. TagModulus \in Nat \ {0}
  BY TagAssumption
<1>1. Bad = {}
  <2>. SUFFICES ASSUME Bad # {} PROVE FALSE
    OBVIOUS
  <2>1. PICK m \in Bad : \A y \in Bad : m <= y
    <3>1. Bad \in SUBSET Nat
      OBVIOUS
    <3>. QED
      BY <3>1, MinIsLeast
  <2>2. CASE m = 0
    <3>1. Loop([i \in 0 .. 0 |-> 0], 0)
      OBVIOUS
    <3>. QED
      BY <2>1, <2>2, <3>1
  <2>3. CASE m # 0
    <3>1. m \in 1 .. Len(octets)
      BY <2>3
    <3>. HIDE DEF Bad
    <3>2. m - 1 \in 0 .. Len(octets) /\ m - 1 \notin Bad
      BY <2>1, <3>1
    <3>. USE DEF Bad
    <3>3. PICK g : Loop(g, m - 1)
      BY <3>2
    <3>. DEFINE last == (128 * g[m - 1] + (octets[m] % 128)) % TagModulus
                h    == [i \in 0 .. m |-> IF i < m THEN g[i] ELSE last]
    <3>4. Loop(h, m)
      <4>1. ASSUME NEW i \in 0 .. m
            PROVE  h[i] = IF i = 0 THEN 0
                          ELSE (128 * h[i - 1] + (octets[i] % 128)) % TagModulus
        <5>1. CASE i < m
          <6>1. i \in 0 .. m - 1 /\ (i # 0 => i - 1 \in 0 .. m /\ i - 1 < m)
            BY <3>1, <5>1
          <6>2. g[i] = IF i = 0 THEN 0 ELSE (128 * g[i - 1] + (octets[i] % 128)) % TagModulus
            BY <3>3, <6>1
          <6>. QED
            BY <5>1, <6>1, <6>2
        <5>2. CASE i = m
          <6>1. m - 1 \in 0 .. m /\ m - 1 < m /\ m # 0 /\ m \in 0 .. m
            BY <3>1
          <6>2. h[m] = last /\ h[m - 1] = g[m - 1]
            BY <6>1
          <6>. QED
            BY <5>2, <6>1, <6>2
        <5>. QED
          BY <3>1, <5>1, <5>2
      <4>. QED
        BY <4>1
    <3>. QED
      BY <2>1, <3>4
  <2>. QED
    BY <2>2, <2>3
<1>2. Loop(up, Len(octets))
  <2>1. Len(octets) \in 0 .. Len(octets)
    OBVIOUS
  <2>2. \E f : Loop(f, Len(octets))
    <3>. HIDE DEF Loop
    <3>. QED
      BY <1>1, <2>1
  <2>. HIDE DEF Loop
  <2>. QED
    BY <2>2
<1>3. Groups(octets) = up[Len(octets)]
  BY DEF Groups
<1>. HIDE DEF up
<1>4. /\ up[0] = 0
      /\ \A i \in 1 .. Len(octets) :
           up[i] = (128 * up[i - 1] + (octets[i] % 128)) % TagModulus
  BY <1>2
<1>5. \A i \in 0 .. Len(octets) : up[i] \in 0 .. TagModulus - 1
  <2>. DEFINE Off == {i \in 0 .. Len(octets) : up[i] \notin 0 .. TagModulus - 1}
  <2>. SUFFICES ASSUME Off # {} PROVE FALSE
    OBVIOUS
  <2>1. PICK m \in Off : \A y \in Off : m <= y
    <3>1. Off \in SUBSET Nat
      OBVIOUS
    <3>. QED
      BY <3>1, MinIsLeast
  <2>2. m \in 1 .. Len(octets)
    BY <1>0, <1>4
  <2>3. m - 1 \in 0 .. Len(octets) /\ m - 1 \notin Off
    BY <2>1, <2>2
  <2>4. octets[m] \in Nat
    BY <2>2, ElementOfSeq, OctetIsNat
  <2>5. up[m - 1] \in Nat
    BY <1>0, <2>3
  <2>6. up[m] = (128 * up[m - 1] + (octets[m] % 128)) % TagModulus
    BY <1>4, <2>2
  <2>7. 128 * up[m - 1] + (octets[m] % 128) \in Int
    BY <2>4, <2>5
  <2>8. up[m] \in 0 .. TagModulus - 1
    BY <1>0, <2>6, <2>7
  <2>. QED
    BY <2>1, <2>8
<1>6. up \in [0 .. Len(octets) -> 0 .. TagModulus - 1]
  BY <1>2, <1>5
<1>. QED
  BY <1>3, <1>4, <1>6

(* A decoded tag number is a uint32_t.                                     *)
LEMMA GroupsInRange ==
  ASSUME NEW octets \in Seq(Octet)
  PROVE  Groups(octets) \in 0 .. TagModulus - 1
<1>1. PICK f \in [0 .. Len(octets) -> 0 .. TagModulus - 1] : Groups(octets) = f[Len(octets)]
  BY GroupsRecursion
<1>2. Len(octets) \in 0 .. Len(octets)
  OBVIOUS
<1>. QED
  BY <1>1, <1>2

(* Before the first octet the loop of decode_tag holds 0.                  *)
LEMMA GroupsEmpty == Groups(<< >>) = 0
<1>1. ASSUME NEW octets \in Seq(Octet), Len(octets) = 0
      PROVE  Groups(octets) = 0
  <2>1. PICK f \in [0 .. Len(octets) -> 0 .. TagModulus - 1] :
             f[0] = 0 /\ Groups(octets) = f[Len(octets)]
    BY GroupsRecursion
  <2>. QED
    BY <1>1, <2>1
<1>2. << >> \in Seq(Octet) /\ Len(<< >>) = 0
  BY EmptySeq
<1>. QED
  BY <1>1, <1>2

(* One turn of the loop of decode_tag.                                     *)
LEMMA GroupsTake ==
  ASSUME NEW octets \in Seq(Octet), NEW n \in 1 .. Len(octets)
  PROVE  Groups(Take(octets, n)) =
           (128 * Groups(Take(octets, n - 1)) + (octets[n] % 128)) % TagModulus
<1>. DEFINE s == Take(octets, n)
            t == Take(octets, n - 1)
            Step(prefix, o) == (128 * prefix + (o % 128)) % TagModulus
<1>1. n - 1 \in 0 .. Len(octets) /\ n \in 0 .. Len(octets)
  OBVIOUS
<1>2. /\ s \in Seq(Octet) /\ Len(s) = n /\ \A i \in 1 .. n : s[i] = octets[i]
      /\ t \in Seq(Octet) /\ Len(t) = n - 1 /\ \A i \in 1 .. n - 1 : t[i] = octets[i]
  BY <1>1, TakeProperties
<1>. HIDE DEF s, t
<1>3. PICK f \in [0 .. Len(s) -> 0 .. TagModulus - 1] :
           /\ f[0] = 0
           /\ \A i \in 1 .. Len(s) : f[i] = Step(f[i - 1], s[i])
           /\ Groups(s) = f[Len(s)]
  BY <1>2, GroupsRecursion
<1>4. PICK g \in [0 .. Len(t) -> 0 .. TagModulus - 1] :
           /\ g[0] = 0
           /\ \A i \in 1 .. Len(t) : g[i] = Step(g[i - 1], t[i])
           /\ Groups(t) = g[Len(t)]
  BY <1>2, GroupsRecursion
<1>. HIDE DEF Step
<1>5. f[n - 1] = g[n - 1]
  <2>. DEFINE Bad == {i \in 0 .. n - 1 : f[i] # g[i]}
  <2>. SUFFICES ASSUME Bad # {} PROVE FALSE
    <3>1. n - 1 \in 0 .. n - 1
      OBVIOUS
    <3>. QED
      BY <3>1
  <2>1. PICK m \in Bad : \A y \in Bad : m <= y
    <3>1. Bad \in SUBSET Nat
      OBVIOUS
    <3>. QED
      BY <3>1, MinIsLeast
  <2>2. m \in 1 .. n - 1
    BY <1>3, <1>4
  <2>3. m - 1 \in 0 .. n - 1 /\ m - 1 \notin Bad
    BY <2>1, <2>2
  <2>4. f[m - 1] = g[m - 1]
    BY <2>3
  <2>5. m \in 1 .. Len(s) /\ m \in 1 .. Len(t) /\ s[m] = t[m]
    <3>1. m \in 1 .. n
      BY <2>2
    <3>2. s[m] = octets[m] /\ t[m] = octets[m]
      BY <1>2, <2>2, <3>1
    <3>. QED
      BY <1>2, <2>2, <3>1, <3>2
  <2>6. f[m] = Step(f[m - 1], s[m]) /\ g[m] = Step(g[m - 1], t[m])
    BY <1>3, <1>4, <2>5
  <2>. QED
    BY <2>4, <2>5, <2>6
<1>6. n \in 1 .. Len(s)
  BY <1>2
<1>7. f[n] = Step(f[n - 1], s[n]) /\ s[n] = octets[n]
  BY <1>2, <1>3, <1>6
<1>8. Groups(s) = Step(Groups(t), octets[n])
  BY <1>2, <1>3, <1>4, <1>5, <1>7
<1>. QED
  BY <1>8 DEF s, t, Step

(* The identifier octets of view end at the i-th, and what they say.       *)
TagEnds(view, i) ==
  \/ i = 1 /\ view[1] % 32 # 31
  \/ /\ i > 1 /\ view[1] % 32 = 31 /\ view[i] < 128
     /\ \A j \in 2 .. i - 1 : view[j] >= 128

TagRead(view, i) ==
  [cls         |-> view[1] \div 64,
   constructed |-> (view[1] \div 32) % 2 = 1,
   number      |-> IF i = 1 THEN view[1] % 32 ELSE Groups(SubSeq(view, 2, i))]

(* The decoded tag is one a tag_t can hold.                                *)
LEMMA TagReadIsTag ==
  ASSUME NEW view \in Seq(Octet), NEW i \in 1 .. Len(view)
  PROVE  TagRead(view, i) \in Tag
<1>. DEFINE first == view[1]
<1>1. first \in 0 .. 255
  <2>1. 1 \in 1 .. Len(view)
    OBVIOUS
  <2>. QED
    BY <2>1, ElementOfSeq DEF Octet
<1>. HIDE DEF first
<1>2. first \div 64 \in 0 .. 3 /\ first % 32 \in 0 .. 31
  BY <1>1
<1>3. Groups(SubSeq(view, 2, i)) \in 0 .. TagModulus - 1
  <2>1. 1 \in 0 .. Len(view) /\ i \in 1 .. Len(view) /\ 1 + 1 = 2
    OBVIOUS
  <2>2. SubSeq(view, 1 + 1, i) \in Seq(Octet)
    BY <2>1, CutProperties
  <2>. QED
    BY <2>1, <2>2, GroupsInRange
<1>4. first % 32 \in 0 .. TagModulus - 1
  <2>. DEFINE low == first % 32
  <2>1. low \in 0 .. 31
    BY <1>2
  <2>2. TagModulus \in Nat /\ TagModulus >= 32
    BY TagAssumption
  <2>. HIDE DEF low
  <2>3. low \in 0 .. TagModulus - 1
    BY <2>1, <2>2
  <2>. QED
    BY <2>3 DEF low
<1>. QED
  BY <1>2, <1>3, <1>4 DEF TagRead, Tag, first

(* decode_tag takes the identifier octets up to the one that ends them.    *)
LEMMA DecodeTagReads ==
  ASSUME NEW view \in Seq(Octet), NEW i \in 1 .. Len(view), TagEnds(view, i)
  PROVE  decode_tag(view) = [err |-> "ok", tag |-> TagRead(view, i), rest |-> Drop(view, i)]
<1>1. view # << >>
  OBVIOUS
<1>2. CASE i = 1 /\ view[1] % 32 # 31
  BY <1>1, <1>2 DEF decode_tag, TagRead
<1>3. CASE /\ i > 1 /\ view[1] % 32 = 31 /\ view[i] < 128
           /\ \A j \in 2 .. i - 1 : view[j] >= 128
  <2>. DEFINE ends == {j \in 2 .. Len(view) : view[j] < 128}
  <2>1. i \in ends
    BY <1>3
  <2>2. ends \in SUBSET Nat
    OBVIOUS
  <2>3. Min(ends) \in ends /\ \A y \in ends : Min(ends) <= y
    BY <2>1, <2>2, MinIsLeast
  <2>4. \A j \in ends : i <= j
    <3>. SUFFICES ASSUME NEW j \in ends, j < i PROVE FALSE
      BY <2>2
    <3>1. j \in 2 .. i - 1 /\ view[j] < 128
      OBVIOUS
    <3>2. view[j] >= 128 /\ view[j] \in Nat
      BY <1>3, <3>1, ElementOfSeq, OctetIsNat
    <3>. QED
      BY <3>1, <3>2
  <2>5. Min(ends) = i
    <3>1. Min(ends) <= i /\ i <= Min(ends) /\ Min(ends) \in Nat
      BY <2>1, <2>2, <2>3, <2>4
    <3>. QED
      BY <3>1
  <2>6. ends # {} /\ i # 1
    BY <1>3, <2>1
  <2>. QED
    BY <1>1, <1>3, <2>5, <2>6 DEF decode_tag, TagRead
<1>. QED
  BY <1>2, <1>3 DEF TagEnds

(* If nothing ends them, decode_tag fails and leaves the view alone.       *)
LEMMA DecodeTagCases ==
  ASSUME NEW view \in Seq(Octet)
  PROVE  \/ \E i \in 1 .. Len(view) : TagEnds(view, i)
         \/ \E e \in {"buffer_underflow", "invalid_tag"} :
              decode_tag(view) = [err |-> e, tag |-> NULL_TAG, rest |-> view]
<1>1. CASE view = << >>
  BY <1>1 DEF decode_tag
<1>2. CASE view # << >> /\ view[1] % 32 # 31
  <2>1. 1 \in 1 .. Len(view)
    BY <1>2
  <2>. QED
    BY <1>2, <2>1 DEF TagEnds
<1>3. CASE view # << >> /\ view[1] % 32 = 31
  <2>. DEFINE ends == {j \in 2 .. Len(view) : view[j] < 128}
  <2>1. CASE ends = {}
    BY <1>3, <2>1 DEF decode_tag
  <2>2. CASE ends # {}
    <3>1. ends \in SUBSET Nat
      OBVIOUS
    <3>2. PICK i \in ends : \A y \in ends : i <= y
      BY <2>2, <3>1, MinIsLeast
    <3>3. ASSUME NEW j \in 2 .. i - 1
          PROVE  view[j] >= 128
      <4>1. j \in 1 .. Len(view) /\ j \in 2 .. Len(view) /\ ~ (i <= j)
        BY <3>2
      <4>2. view[j] \in Nat
        BY <4>1, ElementOfSeq, OctetIsNat
      <4>3. j \notin ends
        BY <3>2, <4>1
      <4>. QED
        BY <4>1, <4>2, <4>3
    <3>4. i \in 1 .. Len(view) /\ i > 1 /\ view[i] < 128
      BY <3>2
    <3>. QED
      BY <1>3, <3>3, <3>4 DEF TagEnds
  <2>. QED
    BY <2>1, <2>2
<1>. QED
  BY <1>1, <1>2, <1>3

-----------------------------------------------------------------------------
(* Identifier octets, written and read.                                    *)

(* The seven-bit groups encode_tag writes after the leading octet.         *)
TagGroups(number) ==
  [i \in 1 .. cont_count(number) |->
     ((number \div Group[cont_count(number) - i + 1]) % 128)
       + (IF i < cont_count(number) THEN 128 ELSE 0)]

(* The weights of the groups are powers of 128.                            *)
LEMMA GroupWeights ==
  /\ \A k \in 1 .. 5 : Group[k] \in Nat \ {0}
  /\ \A k \in 1 .. 4 : Group[k + 1] = 128 * Group[k]
  /\ Group[1] = 1
BY DEF Group

(* Every group but the last has its top bit set, and holds seven bits of   *)
(* the number.                                                             *)
LEMMA TagGroupsAreOctets ==
  ASSUME NEW number \in 0 .. TagModulus - 1
  PROVE  /\ cont_count(number) \in 1 .. 5
         /\ number \div Group[cont_count(number)] < 128
         /\ TagGroups(number) \in Seq(Octet)
         /\ Len(TagGroups(number)) = cont_count(number)
         /\ \A i \in 1 .. cont_count(number) :
              /\ TagGroups(number)[i] % 128 =
                   (number \div Group[cont_count(number) - i + 1]) % 128
              /\ TagGroups(number)[i] < 128 <=> i = cont_count(number)
<1>. DEFINE S == {k \in 1 .. 5 : number \div Group[k] < 128}
            c == cont_count(number)
            q(i) == (number \div Group[c - i + 1]) % 128
<1>1. number \in Nat
  BY TagAssumption
<1>2. 5 \in S
  BY TagAssumption DEF Group
<1>3. Min(S) \in S
  BY <1>2, MinIsLeast
<1>4. c \in 1 .. 5 /\ number \div Group[c] < 128
  BY <1>3 DEF cont_count
<1>. HIDE DEF S, c
<1>5. ASSUME NEW i \in 1 .. c
      PROVE  q(i) \in 0 .. 127
  <2>1. c - i + 1 \in 1 .. 5
    BY <1>4
  <2>2. Group[c - i + 1] \in Nat \ {0}
    BY <2>1, GroupWeights
  <2>3. number \div Group[c - i + 1] \in Int
    BY <1>1, <2>2
  <2>. QED
    BY <2>3
<1>6. TagGroups(number) = [i \in 1 .. c |-> q(i) + (IF i < c THEN 128 ELSE 0)]
  BY DEF TagGroups, c
<1>. HIDE DEF q
<1>7. ASSUME NEW i \in 1 .. c
      PROVE  /\ q(i) + (IF i < c THEN 128 ELSE 0) \in Octet
             /\ (q(i) + (IF i < c THEN 128 ELSE 0)) % 128 = q(i)
             /\ q(i) + (IF i < c THEN 128 ELSE 0) < 128 <=> i = c
  <2>1. q(i) \in 0 .. 127
    BY <1>5
  <2>2. CASE i < c
    BY <1>4, <2>1, <2>2 DEF Octet
  <2>3. CASE ~ (i < c)
    BY <1>4, <2>1, <2>3 DEF Octet
  <2>. QED
    BY <2>2, <2>3
<1>8. c \in Nat
  BY <1>4
<1>9. TagGroups(number) \in Seq(Octet) /\ Len(TagGroups(number)) = c
  BY <1>6, <1>7, <1>8
<1>. QED
  BY <1>4, <1>6, <1>7, <1>9 DEF c, q

(* The groups of a tag number are put together to the number again.        *)
LEMMA GroupsOfTag ==
  ASSUME NEW number \in 0 .. TagModulus - 1
  PROVE  Groups(TagGroups(number)) = number
<1>. DEFINE c == cont_count(number)
            s == TagGroups(number)
            G(i) == Groups(Take(s, i))
            q(i) == number \div Group[c - i + 1]
            Bad == {i \in 1 .. c : G(i) # q(i)}
<1>1. /\ c \in 1 .. 5 /\ number \div Group[c] < 128
      /\ s \in Seq(Octet) /\ Len(s) = c
      /\ \A i \in 1 .. c : s[i] % 128 = q(i) % 128
  BY TagGroupsAreOctets
<1>2. TagModulus \in Nat \ {0} /\ number \in Nat /\ number < TagModulus
  BY TagAssumption
<1>. HIDE DEF c, s
<1>3. \A i \in 1 .. c : q(i) \in 0 .. number
  <2>. SUFFICES ASSUME NEW i \in 1 .. c PROVE q(i) \in 0 .. number
    OBVIOUS
  <2>. DEFINE w == Group[c - i + 1]
  <2>1. c - i + 1 \in 1 .. 5
    BY <1>1
  <2>2. w \in Nat \ {0}
    BY <2>1, GroupWeights
  <2>. HIDE DEF w
  <2>3. number \div w \in Nat /\ number = w * (number \div w) + (number % w) /\ number % w \in Nat
    BY <1>2, <2>2
  <2>4. 1 * (number \div w) <= w * (number \div w)
    BY <2>2, <2>3, ProductMonotone
  <2>5. number \div w \in 0 .. number
    BY <1>2, <2>2, <2>3, <2>4
  <2>. QED
    BY <2>5 DEF w
<1>4. \A i \in 0 .. c : G(i) \in 0 .. TagModulus - 1
  BY <1>1, TakeProperties, GroupsInRange
<1>5. \A i \in 1 .. c : G(i) = (128 * G(i - 1) + (s[i] % 128)) % TagModulus
  BY <1>1, GroupsTake
<1>6. G(0) = 0 /\ G(c) = Groups(s)
  BY <1>1, TakeAll, GroupsEmpty
<1>. HIDE DEF G
<1>7. Bad = {}
  <2>. SUFFICES ASSUME Bad # {} PROVE FALSE
    OBVIOUS
  <2>1. PICK m \in Bad : \A y \in Bad : m <= y
    <3>1. Bad \in SUBSET Nat
      OBVIOUS
    <3>. QED
      BY <3>1, MinIsLeast
  <2>2. m \in 1 .. c /\ G(m) # q(m)
    OBVIOUS
  <2>. HIDE DEF Bad
  <2>3. CASE m = 1
    <3>1. c - 1 + 1 = c
      BY <1>1
    <3>2. q(1) < 128 /\ q(1) \in 0 .. number
      BY <1>1, <1>3, <2>2, <2>3, <3>1
    <3>3. s[1] % 128 = q(1) % 128 /\ G(1) = (128 * G(1 - 1) + (s[1] % 128)) % TagModulus
      BY <1>1, <1>5, <2>2, <2>3
    <3>. HIDE DEF q
    <3>4. q(1) % 128 = q(1) /\ q(1) % TagModulus = q(1)
      BY <1>2, <3>2
    <3>5. 1 - 1 = 0
      OBVIOUS
    <3>6. G(1) = q(1)
      BY <1>2, <1>6, <3>2, <3>3, <3>4, <3>5
    <3>. QED
      BY <2>2, <2>3, <3>6
  <2>4. CASE m # 1
    <3>1. m - 1 \in 1 .. c /\ m - 1 \notin Bad
      BY <1>1, <2>1, <2>2, <2>4
    <3>2. G(m - 1) = q(m - 1)
      BY <3>1 DEF Bad
    <3>3. q(m) \div 128 = q(m - 1)
      <4>. DEFINE k == c - m + 1
      <4>1. k \in 1 .. 4 /\ c - (m - 1) + 1 = k + 1
        BY <1>1, <2>2, <3>1
      <4>2. Group[k] \in Nat \ {0} /\ Group[k + 1] = 128 * Group[k] /\ 128 \in Nat \ {0}
        BY <4>1, GroupWeights
      <4>. HIDE DEF k
      <4>3. (number \div Group[k]) \div 128 = number \div (128 * Group[k])
        BY <1>2, <4>2, ShiftTwice
      <4>. QED
        BY <4>1, <4>2, <4>3 DEF k
    <3>4. s[m] % 128 = q(m) % 128 /\ G(m) = (128 * G(m - 1) + (s[m] % 128)) % TagModulus
      BY <1>1, <1>5, <2>2
    <3>5. q(m) \in 0 .. number
      BY <1>3, <2>2
    <3>. HIDE DEF q
    <3>6. q(m) = 128 * (q(m) \div 128) + (q(m) % 128) /\ q(m) % TagModulus = q(m)
      BY <1>2, <3>5
    <3>7. G(m) = q(m)
      BY <3>2, <3>3, <3>4, <3>6
    <3>. QED
      BY <2>2, <3>7
  <2>. QED
    BY <2>3, <2>4
<1>8. c \in 1 .. c /\ c - c + 1 = 1
  BY <1>1
<1>9. G(c) = number \div 1
  BY <1>7, <1>8, GroupWeights
<1>. QED
  BY <1>2, <1>6, <1>9 DEF s

(* The identifier octets encode_tag writes end where encoded_tag_size says *)
(* and are read back as the tag, short form or long, whatever follows.     *)
LEMMA EncodedTagEnds ==
  ASSUME NEW t \in Tag, NEW rest \in Seq(Octet)
  PROVE  /\ encoded_tag_size(t) \in 1 .. Len(encode_tag(t) \o rest)
         /\ TagEnds(encode_tag(t) \o rest, encoded_tag_size(t))
         /\ TagRead(encode_tag(t) \o rest, encoded_tag_size(t)) = t
<1>. DEFINE number == t.number
            cls  == t.cls
            form == IF t.constructed THEN 32 ELSE 0
            tag  == encode_tag(t)
            view == tag \o rest
            size == encoded_tag_size(t)
            first == view[1]
<1>0. /\ t = [cls |-> cls, constructed |-> t.constructed, number |-> number]
      /\ t.constructed \in BOOLEAN
  BY DEF Tag
<1>1. cls \in 0 .. 3 /\ number \in 0 .. TagModulus - 1 /\ number \in Nat
  BY TagAssumption DEF Tag
<1>2. form \in {0, 32} /\ (form = 32 <=> t.constructed)
  BY <1>0
<1>3. tag \in Seq(Octet) /\ Len(tag) = size
  BY EncodeTagOctets
<1>5. ASSUME ~ (number <= 30)
      PROVE  tag = <<64 * cls + form + 31>> \o TagGroups(number)
  BY <1>5 DEF encode_tag, TagGroups
<1>6. ASSUME number <= 30
      PROVE  tag = <<64 * cls + form + number>>
  BY <1>6 DEF encode_tag
<1>7. size = IF number <= 30 THEN 1 ELSE 1 + cont_count(number)
  BY DEF encoded_tag_size
<1>. HIDE DEF number, cls, form, tag, size
<1>8. /\ view \in Seq(Octet) /\ Len(view) = Len(tag) + Len(rest)
      /\ \A i \in 1 .. Len(tag) : view[i] = tag[i]
  BY <1>3
<1>. HIDE DEF view, first
<1>9. ASSUME NEW low \in 0 .. 31, first = 64 * cls + form + low
      PROVE  /\ first % 32 = low /\ first \div 64 = cls
             /\ ((first \div 32) % 2 = 1) = t.constructed
  <2>1. first % 32 = low /\ first \div 64 = cls /\ ((first \div 32) % 2 = 1 <=> form = 32)
    <3>1. CASE form = 0
      BY <1>1, <1>9, <3>1
    <3>2. CASE form = 32
      BY <1>1, <1>9, <3>2
    <3>. QED
      BY <1>2, <3>1, <3>2
  <2>. QED
    BY <1>0, <1>2, <2>1
<1>10. CASE number <= 30
  <2>1. tag = <<64 * cls + form + number>> /\ size = 1 /\ 1 \in 1 .. Len(tag)
    BY <1>3, <1>6, <1>7, <1>10
  <2>2. first = 64 * cls + form + number
    BY <1>8, <2>1 DEF first
  <2>3. number \in 0 .. 31 /\ number # 31
    BY <1>1, <1>10
  <2>4. /\ first % 32 = number /\ first \div 64 = cls
        /\ ((first \div 32) % 2 = 1) = t.constructed
    BY <1>9, <2>2, <2>3
  <2>5. TagEnds(view, 1)
    BY <2>3, <2>4 DEF TagEnds, first
  <2>6. TagRead(view, 1) = [cls |-> first \div 64, constructed |-> (first \div 32) % 2 = 1,
                            number |-> first % 32]
    BY DEF TagRead, first
  <2>7. TagRead(view, 1) = t
    BY <1>0, <2>4, <2>6
  <2>8. 1 \in 1 .. Len(view)
    BY <1>3, <1>8, <2>1
  <2>. QED
    BY <2>1, <2>5, <2>7, <2>8 DEF view, tag, size
<1>11. CASE ~ (number <= 30)
  <2>. DEFINE c == cont_count(number)
              tail == TagGroups(number)
  <2>1. /\ c \in 1 .. 5
        /\ tail \in Seq(Octet) /\ Len(tail) = c
        /\ \A i \in 1 .. c : tail[i] < 128 <=> i = c
    BY <1>1, TagGroupsAreOctets
  <2>2. tag = <<64 * cls + form + 31>> \o tail /\ size = 1 + c
    BY <1>5, <1>7, <1>11
  <2>3. Groups(tail) = number
    BY <1>1, GroupsOfTag
  <2>4. 64 * cls + form + 31 \in Octet
    BY <1>1, <1>2 DEF Octet
  <2>. HIDE DEF c, tail
  <2>5. Len(tag) = 1 + c /\ c \in Nat
    BY <1>3, <2>1, <2>2
  <2>6. first = 64 * cls + form + 31
    <3>1. 1 \in 1 .. Len(tag)
      BY <2>5
    <3>2. tag[1] = 64 * cls + form + 31
      BY <2>1, <2>2, <2>4
    <3>. QED
      BY <1>8, <3>1, <3>2 DEF first
  <2>7. /\ first % 32 = 31 /\ first \div 64 = cls
        /\ ((first \div 32) % 2 = 1) = t.constructed
    BY <1>9, <2>6
  <2>8. ASSUME NEW i \in 1 .. c
        PROVE  view[1 + i] = tail[i]
    <3>1. 1 + i \in 1 .. Len(tag)
      BY <2>5
    <3>2. tag[1 + i] = tail[i]
      BY <2>1, <2>2, <2>4
    <3>. QED
      BY <1>8, <3>1, <3>2
  <2>9. TagEnds(view, 1 + c)
    <3>. DEFINE k == 1 + c
    <3>1. k \in Nat /\ k > 1 /\ k - 1 = c
      BY <2>1
    <3>2. view[k] < 128
      <4>1. c \in 1 .. c
        BY <2>1
      <4>. QED
        BY <2>1, <2>8, <4>1
    <3>. HIDE DEF k
    <3>3. ASSUME NEW j \in 2 .. k - 1
          PROVE  view[j] >= 128
      <4>. DEFINE i == j - 1
      <4>1. i \in 1 .. c /\ i # c /\ 1 + i = j
        BY <2>1, <3>1
      <4>. HIDE DEF i
      <4>2. view[j] = tail[i] /\ ~ (tail[i] < 128)
        BY <2>1, <2>8, <4>1
      <4>3. tail[i] \in Nat
        BY <2>1, <4>1, ElementOfSeq, OctetIsNat
      <4>. QED
        BY <4>2, <4>3
    <3>4. view[1] % 32 = 31
      BY <2>7 DEF first
    <3>5. TagEnds(view, k)
      BY <3>1, <3>2, <3>3, <3>4 DEF TagEnds
    <3>. QED
      BY <3>5 DEF k
  <2>10. 1 + c \in 1 .. Len(view)
    BY <1>3, <1>8, <2>5
  <2>11. Drop(view, 1) \in Seq(Octet) /\ SubSeq(view, 2, 1 + c) = tail
    <3>1. /\ Take(Drop(view, 1), c) = SubSeq(view, 1 + 1, 1 + c)
          /\ Drop(view, 1) \in Seq(Octet) /\ Len(Drop(view, 1)) = Len(view) - 1
          /\ \A i \in 1 .. Len(view) - 1 : Drop(view, 1)[i] = view[1 + i]
      <4>1. view \in Seq(Octet) /\ 1 \in 0 .. Len(view) /\ c \in 0 .. Len(view) - 1
        BY <1>8, <2>5, <2>10
      <4>. HIDE DEF c
      <4>2. Take(Drop(view, 1), c) = SubSeq(view, 1 + 1, 1 + c)
        BY <4>1, DropDrop
      <4>3. /\ Drop(view, 1) \in Seq(Octet) /\ Len(Drop(view, 1)) = Len(view) - 1
            /\ \A i \in 1 .. Len(view) - 1 : Drop(view, 1)[i] = view[1 + i]
        BY <4>1, TakeProperties
      <4>. QED
        BY <4>2, <4>3
    <3>2. c \in 0 .. Len(Drop(view, 1))
      BY <1>8, <2>5, <2>10, <3>1
    <3>3. /\ Take(Drop(view, 1), c) \in Seq(Octet) /\ Len(Take(Drop(view, 1), c)) = c
          /\ \A i \in 1 .. c : Take(Drop(view, 1), c)[i] = Drop(view, 1)[i]
      BY <3>1, <3>2, TakeProperties
    <3>4. ASSUME NEW i \in 1 .. c
          PROVE  Take(Drop(view, 1), c)[i] = tail[i]
      <4>1. i \in 1 .. Len(view) - 1
        BY <1>8, <2>5, <2>10
      <4>. QED
        BY <2>8, <3>1, <3>3, <4>1
    <3>5. Take(Drop(view, 1), c) = tail
      BY <2>1, <3>3, <3>4, SeqEqual
    <3>6. 1 + 1 = 2
      OBVIOUS
    <3>. QED
      BY <3>1, <3>5, <3>6
  <2>12. TagRead(view, 1 + c) = [cls |-> first \div 64, constructed |-> (first \div 32) % 2 = 1,
                                 number |-> Groups(SubSeq(view, 2, 1 + c))]
    <3>1. 1 + c # 1
      BY <2>1
    <3>. QED
      BY <3>1 DEF TagRead, first
  <2>13. TagRead(view, 1 + c) = t
    BY <1>0, <2>3, <2>7, <2>11, <2>12
  <2>. QED
    BY <2>2, <2>9, <2>10, <2>13 DEF view, tag, size
<1>. QED
  BY <1>10, <1>11

-----------------------------------------------------------------------------
(* Length octets.                                                          *)

(* The length octets of view end at the j-th, and what they say.           *)
LengthEnds(view, j) ==
  \/ j = 1 /\ view[1] <= INDEFINITE_LENGTH
  \/ /\ view[1] > INDEFINITE_LENGTH /\ view[1] % 128 # 127
     /\ j = 1 + (view[1] % 128) /\ view[1] % 128 <= WordOctets

LengthRead(view, j) == IF j = 1 THEN view[1] ELSE Unsigned(SubSeq(view, 2, j))

length_errors == {"buffer_underflow", "invalid_length"}

(* A decoded length is a size.                                             *)
LEMMA LengthReadIsNat ==
  ASSUME NEW view \in Seq(Octet), NEW j \in 1 .. Len(view)
  PROVE  LengthRead(view, j) \in Nat
<1>1. view[1] \in Nat
  <2>1. 1 \in 1 .. Len(view)
    OBVIOUS
  <2>. QED
    BY <2>1, ElementOfSeq, OctetIsNat
<1>2. Unsigned(SubSeq(view, 2, j)) \in Nat
  <2>1. 1 \in 0 .. Len(view) /\ j \in 1 .. Len(view) /\ 1 + 1 = 2
    OBVIOUS
  <2>2. SubSeq(view, 1 + 1, j) \in Seq(Octet)
    BY <2>1, CutProperties
  <2>. QED
    BY <2>1, <2>2, UnsignedIsNat
<1>. QED
  BY <1>1, <1>2 DEF LengthRead

(* decode_length takes the length octets the first of them announces.      *)
LEMMA DecodeLengthReads ==
  ASSUME NEW view \in Seq(Octet), NEW j \in 1 .. Len(view), LengthEnds(view, j)
  PROVE  decode_length(view) =
           [err |-> "ok", length |-> LengthRead(view, j), rest |-> Drop(view, j)]
<1>. DEFINE first == view[1]
            k == first % 128
<1>1. view # << >> /\ first \in 0 .. 255
  <2>1. 1 \in 1 .. Len(view)
    OBVIOUS
  <2>. QED
    BY <2>1, ElementOfSeq DEF Octet
<1>2. \/ j = 1 /\ first <= 128
      \/ first > 128 /\ k # 127 /\ j = 1 + k /\ k <= WordOctets
  BY DEF LengthEnds, INDEFINITE_LENGTH
<1>3. CASE first <= 128
  <2>1. j = 1 /\ ~ (first > 128)
    <3>. HIDE DEF first
    <3>. QED
      BY <1>1, <1>2, <1>3
  <2>. QED
    BY <1>1, <1>3, <2>1 DEF decode_length, LengthRead, INDEFINITE_LENGTH
<1>4. CASE ~ (first <= 128)
  <2>1. k # 127 /\ j = 1 + k /\ k <= WordOctets /\ k \in 1 .. 127 /\ first > 128
    <3>. HIDE DEF first
    <3>. QED
      BY <1>1, <1>2, <1>4
  <2>. HIDE DEF k
  <2>2. j # 1 /\ ~ (Len(view) < 1 + k) /\ ~ (k > WordOctets)
    BY <2>1, WordAssumption
  <2>. QED
    BY <1>1, <1>4, <2>1, <2>2 DEF decode_length, LengthRead, INDEFINITE_LENGTH, k
<1>. QED
  BY <1>3, <1>4

(* If it announces too many, decode_length fails and leaves the view alone.*)
LEMMA DecodeLengthCases ==
  ASSUME NEW view \in Seq(Octet)
  PROVE  \/ \E j \in 1 .. Len(view) : LengthEnds(view, j)
         \/ \E e \in length_errors :
              decode_length(view) = [err |-> e, length |-> 0, rest |-> view]
<1>. DEFINE first == view[1]
            k == first % 128
<1>1. CASE view = << >>
  BY <1>1 DEF decode_length, length_errors
<1>2. CASE view # << >>
  <2>1. 1 \in 1 .. Len(view)
    BY <1>2
  <2>2. first \in 0 .. 255
    BY <2>1, ElementOfSeq DEF Octet
  <2>3. CASE first <= 128
    BY <2>1, <2>3 DEF LengthEnds, INDEFINITE_LENGTH
  <2>4. CASE ~ (first <= 128)
    <3>1. k \in 1 .. 127 /\ first > 128
      <4>. HIDE DEF first
      <4>. QED
        BY <2>2, <2>4
    <3>. HIDE DEF k
    <3>2. CASE k # 127 /\ ~ (Len(view) < 1 + k) /\ ~ (k > WordOctets)
      <4>1. 1 + k \in 1 .. Len(view) /\ k <= WordOctets
        BY <3>1, <3>2, WordAssumption
      <4>2. LengthEnds(view, 1 + k)
        BY <3>1, <3>2, <4>1 DEF LengthEnds, INDEFINITE_LENGTH, k
      <4>. QED
        BY <4>1, <4>2
    <3>3. CASE ~ (k # 127 /\ ~ (Len(view) < 1 + k) /\ ~ (k > WordOctets))
      BY <1>2, <2>4, <3>1, <3>3 DEF decode_length, length_errors, INDEFINITE_LENGTH, k
    <3>. QED
      BY <3>2, <3>3
  <2>. QED
    BY <2>3, <2>4
<1>. QED
  BY <1>1, <1>2

(* The length octets encode_length writes end where encoded_length_size    *)
(* says and are read back as the length, short form or long.               *)
LEMMA EncodedLengthEnds ==
  ASSUME NEW n \in UWord, NEW rest \in Seq(Octet)
  PROVE  /\ encoded_length_size(n) \in 1 .. Len(encode_length(n) \o rest)
         /\ LengthEnds(encode_length(n) \o rest, encoded_length_size(n))
         /\ LengthRead(encode_length(n) \o rest, encoded_length_size(n)) = n
<1>. DEFINE octets == encode_length(n)
            view   == octets \o rest
            size   == encoded_length_size(n)
            k      == length_octets(n)
            S      == {i \in 1 .. WordOctets : n < Weight[i]}
            first  == view[1]
<1>1. WordOctets \in Nat \ {0} /\ WordOctets <= 8 /\ n \in Nat
      /\ Weight[WordOctets] \in Nat /\ WordOctets \in 0 .. WordOctets
  BY WordAssumption, WeightIsNat DEF UWord
<1>2. octets \in Seq(Octet) /\ Len(octets) = size
  BY EncodeLengthOctets
<1>3. octets = IF n <= 127 THEN <<n>> ELSE <<128 + k>> \o Octets(n, k)
  BY DEF encode_length
<1>4. size = IF n <= 127 THEN 1 ELSE 1 + k
  BY DEF encoded_length_size
<1>5. k \in 1 .. WordOctets /\ n < Weight[k]
  <2>1. WordOctets \in S
    BY <1>1 DEF UWord
  <2>2. S \in SUBSET Nat
    OBVIOUS
  <2>3. Min(S) \in S
    BY <2>1, <2>2, MinIsLeast
  <2>. QED
    BY <2>3 DEF length_octets
<1>. HIDE DEF octets, size, k, S
<1>6. /\ view \in Seq(Octet) /\ Len(view) = Len(octets) + Len(rest)
      /\ \A i \in 1 .. Len(octets) : view[i] = octets[i]
  BY <1>2
<1>. HIDE DEF view
<1>7. CASE n <= 127
  <2>1. octets = <<n>> /\ size = 1 /\ 1 \in 1 .. Len(octets)
    BY <1>2, <1>3, <1>4, <1>7
  <2>2. first = n /\ 1 \in 1 .. Len(view)
    BY <1>6, <2>1
  <2>. QED
    BY <1>1, <1>7, <2>1, <2>2 DEF LengthEnds, LengthRead, INDEFINITE_LENGTH, octets, size, view
<1>8. CASE ~ (n <= 127)
  <2>. DEFINE tail == Octets(n, k)
  <2>1. octets = <<128 + k>> \o tail /\ size = 1 + k
    BY <1>3, <1>4, <1>8
  <2>2. k \in 0 .. WordOctets /\ k \in 1 .. 8 /\ k \in Nat
    BY <1>1, <1>5
  <2>3. tail \in Seq(Octet) /\ Len(tail) = k
    BY <1>1, <2>2, OctetsAreOctets
  <2>4. Unsigned(tail) = n
    <3>1. Weight[k] \in Nat
      BY <2>2, WeightIsNat
    <3>2. n \div Weight[k] = 0
      <4>. DEFINE w == Weight[k]
      <4>1. w \in Nat \ {0} /\ n \in 0 .. w - 1
        BY <1>1, <1>5, <3>1
      <4>. HIDE DEF w
      <4>2. n = w * 0 + n
        BY <1>1, <4>1
      <4>3. (w * 0 + n) \div w = 0
        BY <4>1, DivisionIsUnique
      <4>. QED
        BY <4>2, <4>3 DEF w
    <3>3. Unsigned(tail) = n - 0 * Weight[k]
      BY <1>1, <2>2, <3>2, UnsignedOfOctets
    <3>. QED
      BY <1>1, <3>1, <3>3
  <2>. HIDE DEF tail
  <2>5. 128 + k \in Octet
    BY <2>2 DEF Octet
  <2>6. first = 128 + k /\ Len(octets) = 1 + k /\ 1 + k \in 1 .. Len(view)
    <3>1. Len(octets) = 1 + k
      BY <1>2, <2>1
    <3>2. octets[1] = 128 + k /\ 1 \in 1 .. Len(octets)
      BY <2>1, <2>2, <2>3, <2>5, <3>1
    <3>. QED
      BY <1>6, <2>2, <3>1, <3>2
  <2>7. first % 128 = k /\ k # 127 /\ first > INDEFINITE_LENGTH /\ k <= WordOctets
    BY <1>1, <2>2, <2>6 DEF INDEFINITE_LENGTH
  <2>8. LengthEnds(view, 1 + k)
    BY <2>7 DEF LengthEnds
  <2>9. SubSeq(view, 2, 1 + k) = tail
    <3>1. ASSUME NEW i \in 1 .. k
          PROVE  view[1 + i] = tail[i]
      <4>1. 1 + i \in 1 .. Len(octets)
        BY <2>2, <2>6
      <4>2. octets[1 + i] = tail[i]
        BY <2>1, <2>3, <2>5
      <4>. QED
        BY <1>6, <4>1, <4>2
    <3>2. 1 + k <= Len(view)
      BY <2>6
    <3>. QED
      BY <1>6, <2>3, <3>1, <3>2, CutAfterFirst
  <2>10. LengthRead(view, 1 + k) = n
    <3>1. 1 + k # 1
      BY <2>2
    <3>. QED
      BY <2>4, <2>9, <3>1 DEF LengthRead
  <2>. QED
    BY <2>1, <2>6, <2>8, <2>10 DEF octets, size, view
<1>. QED
  BY <1>7, <1>8

-----------------------------------------------------------------------------
(* Headers and elements.                                                   *)

header_errors == {"buffer_underflow", "invalid_tag", "invalid_length"}

(* The header of view ends after i identifier and j length octets. *)
HeaderEnds(view, i, j) ==
  /\ i \in 1 .. Len(view) /\ TagEnds(view, i)
  /\ j \in 1 .. Len(view) - i /\ LengthEnds(Drop(view, i), j)

(* A decoder that finds a header with a tag it accepts takes it.           *)
LEMMA HeaderReads ==
  ASSUME NEW view \in Seq(Octet), NEW A, NEW i, NEW j,
         HeaderEnds(view, i, j), TagRead(view, i) \in A
  PROVE  ReadHeader(view, A) =
           [err |-> "ok", tag |-> TagRead(view, i),
            length |-> LengthRead(Drop(view, i), j), rest |-> Drop(view, i + j)]
<1>. DEFINE t == decode_tag(view)
            d == Drop(view, i)
<1>1. i \in 1 .. Len(view) /\ TagEnds(view, i) /\ j \in 1 .. Len(view) - i /\ LengthEnds(d, j)
  BY DEF HeaderEnds
<1>2. i \in 0 .. Len(view) /\ j \in 0 .. Len(view) - i
  BY <1>1
<1>3. d \in Seq(Octet) /\ Len(d) = Len(view) - i /\ Drop(d, j) = Drop(view, i + j)
  BY <1>2, TakeProperties, DropDrop
<1>4. t = [err |-> "ok", tag |-> TagRead(view, i), rest |-> d]
  BY <1>1, DecodeTagReads
<1>. HIDE DEF d
<1>5. decode_length(d) = [err |-> "ok", length |-> LengthRead(d, j), rest |-> Drop(d, j)]
  BY <1>1, <1>3, DecodeLengthReads
<1>. HIDE DEF t
<1>6. AfterTag(t, view, A) = WithLength(t, decode_length(d))
  BY <1>4 DEF AfterTag
<1>7. ReadHeader(view, A) = AfterTag(t, view, A)
  BY DEF ReadHeader, t
<1>. QED
  BY <1>3, <1>4, <1>5, <1>6, <1>7 DEF WithLength, d

(* A decoder that finds none fails, with a suffix of its view left.        *)
LEMMA HeaderCases ==
  ASSUME NEW view \in Seq(Octet), NEW A
  PROVE  \/ \E i \in 1 .. Len(view), j \in 1 .. Len(view) :
              HeaderEnds(view, i, j) /\ TagRead(view, i) \in A
         \/ /\ ReadHeader(view, A).err \in header_errors
            /\ \E k \in 0 .. Len(view) : ReadHeader(view, A).rest = Drop(view, k)
<1>. DEFINE h == ReadHeader(view, A)
<1>1. 0 \in 0 .. Len(view) /\ Drop(view, 0) = view
  BY TakeAll
<1>2. h = AfterTag(decode_tag(view), view, A)
  BY DEF ReadHeader
<1>3. CASE \E i \in 1 .. Len(view) : TagEnds(view, i)
  <2>1. PICK i \in 1 .. Len(view) : TagEnds(view, i)
    BY <1>3
  <2>2. i \in 0 .. Len(view)
    OBVIOUS
  <2>. DEFINE t == decode_tag(view)
              d == Drop(view, i)
  <2>3. d \in Seq(Octet) /\ Len(d) = Len(view) - i
    BY <2>2, TakeProperties
  <2>4. t = [err |-> "ok", tag |-> TagRead(view, i), rest |-> d]
    BY <2>1, DecodeTagReads
  <2>. HIDE DEF t, d
  <2>5. CASE TagRead(view, i) \notin A
    <3>1. AfterTag(t, view, A) = [err |-> "invalid_tag", tag |-> t.tag, length |-> 0, rest |-> t.rest]
      BY <2>4, <2>5 DEF AfterTag
    <3>. QED
      BY <1>2, <2>2, <2>4, <3>1 DEF header_errors, t, d
  <2>6. CASE TagRead(view, i) \in A
    <3>1. AfterTag(t, view, A) = WithLength(t, decode_length(d))
      BY <2>4, <2>6 DEF AfterTag
    <3>2. CASE \E j \in 1 .. Len(d) : LengthEnds(d, j)
      <4>1. PICK j \in 1 .. Len(d) : LengthEnds(d, j)
        BY <3>2
      <4>2. j \in 1 .. Len(view) /\ j \in 1 .. Len(view) - i
        BY <2>3
      <4>3. HeaderEnds(view, i, j)
        BY <2>1, <4>1, <4>2 DEF HeaderEnds, d
      <4>. QED
        BY <2>6, <4>2, <4>3
    <3>3. CASE \E e \in length_errors : decode_length(d) = [err |-> e, length |-> 0, rest |-> d]
      <4>1. PICK e \in length_errors : decode_length(d) = [err |-> e, length |-> 0, rest |-> d]
        BY <3>3
      <4>2. AfterTag(t, view, A).err = e /\ AfterTag(t, view, A).rest = d
        BY <3>1, <4>1 DEF WithLength
      <4>. QED
        BY <1>2, <2>2, <4>2 DEF header_errors, length_errors, t, d
    <3>. QED
      BY <2>3, <3>2, <3>3, DecodeLengthCases
  <2>. QED
    BY <2>5, <2>6
<1>4. CASE \E e \in {"buffer_underflow", "invalid_tag"} :
              decode_tag(view) = [err |-> e, tag |-> NULL_TAG, rest |-> view]
  <2>. DEFINE t == decode_tag(view)
  <2>1. PICK e \in {"buffer_underflow", "invalid_tag"} :
              t = [err |-> e, tag |-> NULL_TAG, rest |-> view]
    BY <1>4
  <2>. HIDE DEF t
  <2>2. t.err = e /\ e # "ok"
    BY <2>1
  <2>3. AfterTag(t, view, A) = [err |-> t.err, tag |-> t.tag, length |-> 0, rest |-> view]
    BY <2>2 DEF AfterTag
  <2>. QED
    BY <1>1, <1>2, <2>1, <2>2, <2>3 DEF header_errors, t
<1>. QED
  BY <1>3, <1>4, DecodeTagCases

(* What contents_error lets through.                                       *)
LEMMA ContentsChecked ==
  ASSUME NEW op \in Elements, NEW n \in Nat, NEW rest \in Seq(Octet)
  PROVE  \/ /\ contents_error(op, n, rest) = "ok"
            /\ n <= Len(rest)
            /\ op \in {"integer", "enumerated"} => n \in 1 .. WordOctets
            /\ op = "boolean" => n = 1
            /\ op = "null" => n = 0
            /\ op = "bit_string" => n >= 1 /\ rest[1] <= 7
         \/ contents_error(op, n, rest) \in
              {"buffer_underflow", "invalid_length", "value_out_of_range"}
<1>1. Len(rest) \in Nat /\ WordOctets \in Nat
  BY WordAssumption
<1>2. CASE op \in {"integer", "enumerated"}
  BY <1>1, <1>2 DEF contents_error, too_wide
<1>3. CASE op = "boolean"
  BY <1>1, <1>3 DEF contents_error
<1>4. CASE op = "null"
  BY <1>1, <1>4 DEF contents_error
<1>5. CASE op = "bit_string"
  <2>1. Len(rest) >= 1 => rest[1] \in Nat
    BY <1>1, ElementOfSeq, OctetIsNat
  <2>2. CASE Len(rest) < n
    BY <1>1, <1>5, <2>2 DEF contents_error
  <2>3. CASE Len(rest) >= n
    BY <1>1, <1>5, <2>1, <2>3 DEF contents_error
  <2>. QED
    BY <1>1, <2>2, <2>3
<1>6. CASE op \in {"octet_string", "oid", "sequence_header", "tlv", "skip_tlv"}
  BY <1>1, <1>6 DEF contents_error
<1>. QED
  BY <1>2, <1>3, <1>4, <1>5, <1>6 DEF Elements

element_errors == header_errors \cup {"value_out_of_range"}

(* The element of view that op takes: header, checks, contents. *)
ElementEnds(op, view, i, j, n) ==
  /\ HeaderEnds(view, i, j) /\ TagRead(view, i) \in accept(op)
  /\ n = LengthRead(Drop(view, i), j)
  /\ contents_error(op, n, Drop(view, i + j)) = "ok"

(* Header and contents lie inside the view.                                *)
LEMMA ElementEndsInside ==
  ASSUME NEW op \in Elements, NEW view \in Seq(Octet), NEW i, NEW j, NEW n,
         ElementEnds(op, view, i, j, n)
  PROVE  /\ i \in 1 .. Len(view) /\ j \in 1 .. Len(view) - i
         /\ n \in 0 .. Len(view) - (i + j) /\ i + j \in 0 .. Len(view)
         /\ Drop(view, i + j) \in Seq(Octet)
         /\ Len(Drop(view, i + j)) = Len(view) - (i + j)
<1>1. /\ i \in 1 .. Len(view) /\ j \in 1 .. Len(view) - i
      /\ n = LengthRead(Drop(view, i), j)
      /\ contents_error(op, n, Drop(view, i + j)) = "ok"
  BY DEF ElementEnds, HeaderEnds
<1>2. i \in 0 .. Len(view) /\ i + j \in 0 .. Len(view)
  BY <1>1
<1>3. /\ Drop(view, i) \in Seq(Octet) /\ Len(Drop(view, i)) = Len(view) - i
      /\ Drop(view, i + j) \in Seq(Octet) /\ Len(Drop(view, i + j)) = Len(view) - (i + j)
  BY <1>2, TakeProperties
<1>4. n \in Nat
  <2>1. j \in 1 .. Len(Drop(view, i))
    BY <1>1, <1>3
  <2>. QED
    BY <1>1, <1>3, <2>1, LengthReadIsNat
<1>5. n <= Len(Drop(view, i + j))
  BY <1>1, <1>3, <1>4, ContentsChecked
<1>6. n \in 0 .. Len(view) - (i + j)
  BY <1>1, <1>3, <1>4, <1>5
<1>. QED
  BY <1>1, <1>2, <1>3, <1>6

(* A decoder that finds an element takes it, or only the header of a       *)
(* SEQUENCE, and nothing more.                                             *)
LEMMA ElementReads ==
  ASSUME NEW op \in Elements, NEW view \in Seq(Octet), NEW i, NEW j, NEW n,
         ElementEnds(op, view, i, j, n)
  PROVE  ReadElement(op, view) =
           [err |-> "ok", tag |-> TagRead(view, i), length |-> n,
            contents |-> SubSeq(view, i + j + 1, i + j + n),
            rest |-> Drop(view, IF op = "sequence_header" THEN i + j ELSE i + j + n)]
<1>. DEFINE h == ReadHeader(view, accept(op))
            d == Drop(view, i + j)
<1>1. HeaderEnds(view, i, j) /\ TagRead(view, i) \in accept(op)
      /\ n = LengthRead(Drop(view, i), j) /\ contents_error(op, n, d) = "ok"
  BY DEF ElementEnds
<1>2. h = [err |-> "ok", tag |-> TagRead(view, i), length |-> n, rest |-> d]
  BY <1>1, HeaderReads
<1>3. ReadElement(op, view) = AfterHeader(op, h)
  BY DEF ReadElement
<1>. HIDE DEF h, d
<1>4. AfterHeader(op, h) =
        [err |-> "ok", tag |-> TagRead(view, i), length |-> n, contents |-> Take(d, n),
         rest |-> IF op # "sequence_header" THEN Drop(d, n) ELSE d]
  BY <1>1, <1>2 DEF AfterHeader
<1>5. i + j \in 0 .. Len(view) /\ n \in 0 .. Len(view) - (i + j)
  BY ElementEndsInside
<1>6. Take(d, n) = SubSeq(view, i + j + 1, i + j + n) /\ Drop(d, n) = Drop(view, i + j + n)
  <2>. DEFINE m == i + j
  <2>1. m \in 0 .. Len(view) /\ n \in 0 .. Len(view) - m
    BY <1>5
  <2>. HIDE DEF m
  <2>2. /\ Drop(Drop(view, m), n) = Drop(view, m + n)
        /\ Take(Drop(view, m), n) = SubSeq(view, m + 1, m + n)
    BY <2>1, DropDrop
  <2>. QED
    BY <2>2 DEF m, d
<1>. QED
  BY <1>3, <1>4, <1>6 DEF d

(* A decoder that finds none fails, with a suffix of its view left.        *)
LEMMA ElementCases ==
  ASSUME NEW op \in Elements, NEW view \in Seq(Octet)
  PROVE  \/ \E i \in 1 .. Len(view), j \in 1 .. Len(view) :
              ElementEnds(op, view, i, j, LengthRead(Drop(view, i), j))
         \/ /\ ReadElement(op, view).err \in element_errors
            /\ \E k \in 0 .. Len(view) : ReadElement(op, view).rest = Drop(view, k)
<1>. DEFINE h == ReadHeader(view, accept(op))
            r == ReadElement(op, view)
            e == IF h.err # "ok" THEN h.err ELSE contents_error(op, h.length, h.rest)
<1>1. r = [err |-> e, tag |-> h.tag, length |-> h.length,
           contents |-> IF e = "ok" THEN Take(h.rest, h.length) ELSE << >>,
           rest |-> IF e = "ok" /\ op # "sequence_header" THEN Drop(h.rest, h.length) ELSE h.rest]
  BY DEF ReadElement, AfterHeader
<1>2. r.err = e /\ (e # "ok" => r.rest = h.rest)
  BY <1>1
<1>. HIDE DEF r
<1>3. CASE \E i \in 1 .. Len(view), j \in 1 .. Len(view) :
              HeaderEnds(view, i, j) /\ TagRead(view, i) \in accept(op)
  <2>1. PICK i \in 1 .. Len(view), j \in 1 .. Len(view) :
              HeaderEnds(view, i, j) /\ TagRead(view, i) \in accept(op)
    BY <1>3
  <2>. DEFINE n == LengthRead(Drop(view, i), j)
              d == Drop(view, i + j)
  <2>2. h = [err |-> "ok", tag |-> TagRead(view, i), length |-> n, rest |-> d]
    BY <2>1, HeaderReads
  <2>3. j \in 1 .. Len(view) - i /\ i \in 0 .. Len(view) /\ i + j \in 0 .. Len(view)
    BY <2>1 DEF HeaderEnds
  <2>4. d \in Seq(Octet) /\ Drop(view, i) \in Seq(Octet) /\ Len(Drop(view, i)) = Len(view) - i
    BY <2>3, TakeProperties
  <2>5. n \in Nat
    <3>1. j \in 1 .. Len(Drop(view, i))
      BY <2>3, <2>4
    <3>. QED
      BY <2>4, <3>1, LengthReadIsNat
  <2>. HIDE DEF h
  <2>6. e = contents_error(op, n, d) /\ h.rest = d
    BY <2>2
  <2>7. CASE contents_error(op, n, d) = "ok"
    BY <2>1, <2>7 DEF ElementEnds
  <2>8. CASE contents_error(op, n, d) \in {"buffer_underflow", "invalid_length", "value_out_of_range"}
    <3>1. e # "ok" /\ e \in element_errors
      BY <2>6, <2>8 DEF element_errors, header_errors
    <3>. QED
      BY <1>2, <2>3, <2>6, <3>1 DEF r
  <2>. QED
    BY <2>4, <2>5, <2>7, <2>8, ContentsChecked
<1>4. CASE /\ h.err \in header_errors
           /\ \E k \in 0 .. Len(view) : h.rest = Drop(view, k)
  <2>1. h.err # "ok" /\ e = h.err
    BY <1>4 DEF header_errors
  <2>. QED
    BY <1>2, <1>4, <2>1 DEF element_errors, r
<1>. QED
  BY <1>3, <1>4, HeaderCases

(* An encoded element stands at the front of the view with its header and  *)
(* contents where the sizes of its parts put them.                         *)
LEMMA EncodedElementEnds ==
  ASSUME NEW op \in Elements, NEW t \in Tag, t \in accept(op),
         NEW contents \in Seq(Octet), Len(contents) \in UWord, NEW rest \in Seq(Octet),
         contents_error(op, Len(contents), contents \o rest) = "ok"
  PROVE  LET view == encode_tlv(t, contents) \o rest
             i == encoded_tag_size(t)
             j == encoded_length_size(Len(contents))
         IN  /\ ElementEnds(op, view, i, j, Len(contents))
             /\ TagRead(view, i) = t
             /\ Drop(view, i + j) = contents \o rest
<1>. DEFINE n    == Len(contents)
            i    == encoded_tag_size(t)
            j    == encoded_length_size(n)
            tag  == encode_tag(t)
            len  == encode_length(n)
            last == contents \o rest
            tail == len \o last
            view == encode_tlv(t, contents) \o rest
<1>1. tag \in Seq(Octet) /\ Len(tag) = i
  BY EncodeTagOctets
<1>2. len \in Seq(Octet) /\ Len(len) = j
  BY EncodeLengthOctets
<1>3. last \in Seq(Octet) /\ tail \in Seq(Octet)
  BY <1>2
<1>4. view = tag \o tail
  <2>1. view = ((tag \o len) \o contents) \o rest
    BY DEF encode_tlv
  <2>. HIDE DEF tag, len, view
  <2>2. tag \in Seq(Octet) /\ len \in Seq(Octet) /\ tag \o len \in Seq(Octet)
    BY <1>1, <1>2
  <2>3. ((tag \o len) \o contents) \o rest = (tag \o len) \o (contents \o rest)
    <3>. DEFINE head == tag \o len
    <3>1. head \in Seq(Octet)
      BY <2>2
    <3>. HIDE DEF head
    <3>2. (head \o contents) \o rest = head \o (contents \o rest)
      BY <3>1, ConcatAssociative, SMTT(30)
    <3>. QED
      BY <3>2 DEF head
  <2>. HIDE DEF last
  <2>4. (tag \o len) \o last = tag \o (len \o last)
    <3>1. last \in Seq(Octet)
      BY <1>3
    <3>. QED
      BY <2>2, <3>1, ConcatAssociative, SMTT(30)
  <2>. QED
    BY <2>1, <2>3, <2>4 DEF last
<1>5. /\ i \in 1 .. Len(tag \o tail)
      /\ TagEnds(tag \o tail, i) /\ TagRead(tag \o tail, i) = t
  BY <1>3, EncodedTagEnds
<1>6. /\ j \in 1 .. Len(len \o last)
      /\ LengthEnds(len \o last, j) /\ LengthRead(len \o last, j) = n
  BY <1>3, EncodedLengthEnds
<1>. HIDE DEF view, tag, len, i, j
<1>7. Drop(view, i) = tail /\ view \in Seq(Octet) /\ Len(view) = i + Len(tail)
  <2>. HIDE DEF tail
  <2>1. Drop(tag \o tail, Len(tag)) = tail
    BY <1>1, <1>3, TakeDropConcat
  <2>2. view = tag \o tail
    BY <1>4
  <2>3. tail \in Seq(Octet)
    BY <1>3
  <2>4. view \in Seq(Octet) /\ Len(view) = Len(tag) + Len(tail)
    BY <1>1, <2>2, <2>3, ConcatProperties
  <2>. QED
    BY <1>1, <2>1, <2>2, <2>4
<1>8. Drop(tail, j) = last
  BY <1>2, <1>3, TakeDropConcat
<1>. HIDE DEF tail, last
<1>9. Drop(view, i + j) = last
  <2>1. i \in 0 .. Len(view) /\ j \in 0 .. Len(view) - i
    BY <1>4, <1>5, <1>6, <1>7 DEF tail
  <2>2. Drop(Drop(view, i), j) = Drop(view, i + j)
    BY <1>7, <2>1, DropDrop
  <2>. QED
    BY <1>7, <1>8, <2>2
<1>10. HeaderEnds(view, i, j)
  BY <1>4, <1>5, <1>6, <1>7 DEF HeaderEnds, tail
<1>11. ElementEnds(op, view, i, j, n)
  BY <1>4, <1>5, <1>6, <1>7, <1>9, <1>10 DEF ElementEnds, last, tail
<1>. QED
  BY <1>4, <1>5, <1>9, <1>11 DEF view, i, j, last

(* What encode_tlv writes is what every decoder takes off the view again,  *)
(* whatever follows it: the tag, the contents and not an octet more.       *)
THEOREM ElementRoundTrip ==
  ASSUME NEW op \in Elements, NEW t \in Tag, t \in accept(op),
         NEW contents \in Seq(Octet), Len(contents) \in UWord, NEW rest \in Seq(Octet),
         contents_error(op, Len(contents), contents \o rest) = "ok"
  PROVE  ReadElement(op, encode_tlv(t, contents) \o rest) =
           [err |-> "ok", tag |-> t, length |-> Len(contents), contents |-> contents,
            rest |-> IF op = "sequence_header" THEN contents \o rest ELSE rest]
<1>. DEFINE n    == Len(contents)
            i    == encoded_tag_size(t)
            j    == encoded_length_size(n)
            view == encode_tlv(t, contents) \o rest
            last == contents \o rest
<1>1. /\ ElementEnds(op, view, i, j, n)
      /\ TagRead(view, i) = t /\ Drop(view, i + j) = last
  BY EncodedElementEnds
<1>2. view \in Seq(Octet)
  BY EncodeTlvOctets
<1>3. Take(last, n) = contents /\ Drop(last, n) = rest
  BY TakeDropConcat
<1>. DEFINE m == i + j
<1>. HIDE DEF view, i, j, last
<1>4. m \in 0 .. Len(view) /\ n \in 0 .. Len(view) - m
  BY <1>1, <1>2, ElementEndsInside
<1>5. ReadElement(op, view) =
        [err |-> "ok", tag |-> t, length |-> n,
         contents |-> SubSeq(view, m + 1, m + n),
         rest |-> Drop(view, IF op = "sequence_header" THEN m ELSE m + n)]
  BY <1>1, <1>2, ElementReads
<1>6. Drop(view, m) = last
  BY <1>1
<1>. HIDE DEF m
<1>7. Drop(view, m + n) = rest /\ SubSeq(view, m + 1, m + n) = contents
  BY <1>2, <1>3, <1>4, <1>6, DropDrop
<1>. QED
  BY <1>5, <1>6, <1>7 DEF view, last

(* Octets that follow a header change nothing in how it is read.           *)
LEMMA HeaderWithMore ==
  ASSUME NEW view \in Seq(Octet), NEW more \in Seq(Octet),
         NEW i \in 1 .. Len(view), NEW j \in 1 .. Len(view), HeaderEnds(view, i, j)
  PROVE  /\ HeaderEnds(view \o more, i, j)
         /\ TagRead(view \o more, i) = TagRead(view, i)
         /\ LengthRead(Drop(view \o more, i), j) = LengthRead(Drop(view, i), j)
         /\ Drop(view \o more, i + j) = Drop(view, i + j) \o more
         /\ i + j \in 0 .. Len(view)
<1>. DEFINE all == view \o more
            d   == Drop(view, i)
<1>1. /\ all \in Seq(Octet) /\ Len(all) = Len(view) + Len(more)
      /\ Len(view) \in Nat /\ Len(more) \in Nat
      /\ \A x \in 1 .. Len(view) + Len(more) : all[x] = IF x <= Len(view) THEN view[x] ELSE more[x - Len(view)]
  BY ConcatProperties, LenProperties
<1>2. /\ i \in 1 .. Len(view) /\ TagEnds(view, i)
      /\ j \in 1 .. Len(view) - i /\ LengthEnds(d, j)
  BY DEF HeaderEnds
<1>3. i \in 0 .. Len(view) /\ i + j \in 0 .. Len(view)
  BY <1>1, <1>2
<1>4. d \in Seq(Octet) /\ Len(d) = Len(view) - i
  BY <1>3, TakeProperties
<1>5. Drop(all, i) = d \o more /\ Drop(all, i + j) = Drop(view, i + j) \o more
  BY <1>3, DropConcat
<1>6. \A x \in 1 .. Len(view) : all[x] = view[x]
  BY <1>1
<1>7. \A x \in 1 .. Len(d) : (d \o more)[x] = d[x]
  BY <1>4, ConcatProperties, LenProperties
<1>8. all[1] = view[1] /\ all[i] = view[i] /\ \A x \in 2 .. i - 1 : all[x] = view[x]
  BY <1>2, <1>6
<1>9. (d \o more)[1] = d[1]
  BY <1>2, <1>4, <1>7
<1>10. TagEnds(all, i)
  BY <1>2, <1>8 DEF TagEnds
<1>11. i # 1 => SubSeq(all, 2, i) = SubSeq(view, 2, i)
  BY <1>2, SubSeqOfConcat1
<1>12. TagRead(all, i) = TagRead(view, i)
  BY <1>8, <1>11 DEF TagRead
<1>13. LengthEnds(d \o more, j)
  BY <1>2, <1>9 DEF LengthEnds
<1>14. j # 1 => SubSeq(d \o more, 2, j) = SubSeq(d, 2, j)
  BY <1>2, <1>4, SubSeqOfConcat1
<1>15. LengthRead(d \o more, j) = LengthRead(d, j)
  BY <1>9, <1>14 DEF LengthRead
<1>16. i \in 1 .. Len(all) /\ j \in 1 .. Len(all) - i
  BY <1>1, <1>2
<1>17. HeaderEnds(all, i, j)
  BY <1>5, <1>10, <1>13, <1>16 DEF HeaderEnds
<1>. QED
  BY <1>3, <1>5, <1>12, <1>15, <1>17

(* A decoder that takes an element takes the same one when more octets     *)
(* follow, and leaves those: a message cut short is read like the whole.   *)
LEMMA ElementWithMore ==
  ASSUME NEW op \in Elements, NEW view \in Seq(Octet), NEW more \in Seq(Octet),
         ReadElement(op, view).err = "ok"
  PROVE  /\ ReadElement(op, view).rest \in Seq(Octet)
         /\ ReadElement(op, view \o more) =
              [err      |-> "ok",
               tag      |-> ReadElement(op, view).tag,
               length   |-> ReadElement(op, view).length,
               contents |-> ReadElement(op, view).contents,
               rest     |-> ReadElement(op, view).rest \o more]
<1>1. PICK i \in 1 .. Len(view), j \in 1 .. Len(view) :
        ElementEnds(op, view, i, j, LengthRead(Drop(view, i), j))
  BY ElementCases DEF element_errors, header_errors
<1>. DEFINE n    == LengthRead(Drop(view, i), j)
            all  == view \o more
            left == Drop(view, i + j)
<1>2. ElementEnds(op, view, i, j, n)
  BY <1>1
<1>3. HeaderEnds(view, i, j) /\ TagRead(view, i) \in accept(op) /\ contents_error(op, n, left) = "ok"
  BY <1>2 DEF ElementEnds
<1>4. /\ HeaderEnds(all, i, j) /\ TagRead(all, i) = TagRead(view, i)
      /\ LengthRead(Drop(all, i), j) = n /\ Drop(all, i + j) = left \o more
      /\ i + j \in 0 .. Len(view)
  <2>1. HeaderEnds(view, i, j)
    BY <1>3
  <2>. QED
    BY <2>1, HeaderWithMore
<1>. HIDE DEF n, all, left
<1>5. /\ i \in 1 .. Len(view) /\ j \in 1 .. Len(view) - i
      /\ n \in 0 .. Len(view) - (i + j)
      /\ left \in Seq(Octet) /\ Len(left) = Len(view) - (i + j)
  <2>1. /\ i \in 1 .. Len(view) /\ j \in 1 .. Len(view) - i
        /\ n \in 0 .. Len(view) - (i + j)
        /\ Drop(view, i + j) \in Seq(Octet)
        /\ Len(Drop(view, i + j)) = Len(view) - (i + j)
    BY <1>2, ElementEndsInside, SMTT(30)
  <2>. QED
    BY <2>1 DEF left
<1>6. /\ all \in Seq(Octet) /\ Len(all) = Len(view) + Len(more)
      /\ Len(view) \in Nat /\ Len(more) \in Nat
  BY ConcatProperties, LenProperties DEF all
<1>7. Len(left \o more) >= Len(left) /\ left \o more \in Seq(Octet)
      /\ (Len(left) >= 1 => (left \o more)[1] = left[1])
  BY <1>5, <1>6, ConcatProperties
<1>8. contents_error(op, n, left \o more) = "ok"
  <2>. DEFINE rest == left \o more
  <2>1. /\ n \in Nat /\ n <= Len(left) /\ n <= Len(rest) /\ Len(left) \in Nat /\ Len(rest) \in Nat
        /\ (n >= 1 => rest[1] = left[1] /\ rest # << >>)
        /\ rest \in Seq(Octet)
    <3>1. n \in Nat /\ n <= Len(left) /\ Len(left) \in Nat
      BY <1>5, <1>6
    <3>. HIDE DEF rest
    <3>2. /\ Len(rest) >= Len(left) /\ rest \in Seq(Octet)
          /\ (Len(left) >= 1 => rest[1] = left[1])
      BY <1>7 DEF rest
    <3>3. Len(rest) \in Nat
      BY <3>2, LenProperties
    <3>4. n <= Len(rest) /\ (n >= 1 => rest[1] = left[1] /\ Len(rest) # 0)
      BY <3>1, <3>2, <3>3
    <3>. QED
      BY <3>1, <3>2, <3>3, <3>4, EmptySeq
  <2>. HIDE DEF rest
  <2>7. contents_error(op, n, rest) = "ok"
    <3>2. CASE op \in {"integer", "enumerated"}
      BY <1>3, <2>1, <3>2 DEF contents_error
    <3>3. CASE op = "boolean"
      BY <1>3, <2>1, <3>3 DEF contents_error
    <3>4. CASE op = "null"
      BY <1>3, <2>1, <3>4 DEF contents_error
    <3>5. CASE op = "bit_string"
      BY <1>3, <2>1, <3>5 DEF contents_error
    <3>6. CASE op \in {"octet_string", "oid", "sequence_header", "tlv", "skip_tlv"}
      BY <1>3, <2>1, <3>6 DEF contents_error
    <3>. QED
      BY <3>2, <3>3, <3>4, <3>5, <3>6 DEF Elements
  <2>. QED
    BY <2>7 DEF rest
<1>9. ElementEnds(op, all, i, j, n)
  BY <1>3, <1>4, <1>8 DEF ElementEnds
<1>. DEFINE last == IF op = "sequence_header" THEN i + j ELSE i + j + n
<1>a. ASSUME NEW v \in Seq(Octet), ElementEnds(op, v, i, j, n)
      PROVE  ReadElement(op, v) =
               [err |-> "ok", tag |-> TagRead(v, i), length |-> n,
                contents |-> SubSeq(v, i + j + 1, i + j + n), rest |-> Drop(v, last)]
  BY <1>a, ElementReads
<1>10. ReadElement(op, view) =
            [err |-> "ok", tag |-> TagRead(view, i), length |-> n,
             contents |-> SubSeq(view, i + j + 1, i + j + n), rest |-> Drop(view, last)]
  BY <1>2, <1>a
<1>11. ReadElement(op, all) =
            [err |-> "ok", tag |-> TagRead(all, i), length |-> n,
             contents |-> SubSeq(all, i + j + 1, i + j + n), rest |-> Drop(all, last)]
  BY <1>6, <1>9, <1>a
<1>12. last \in 0 .. Len(view)
  BY <1>4, <1>5, <1>6
<1>. HIDE DEF last
<1>13. Drop(all, last) = Drop(view, last) \o more /\ Drop(view, last) \in Seq(Octet)
  BY <1>12, DropConcat, TakeProperties DEF all
<1>14. SubSeq(all, i + j + 1, i + j + n) = SubSeq(view, i + j + 1, i + j + n)
  <2>. DEFINE a == i + j + 1
              b == i + j + n
  <2>1. CASE n = 0
    <3>1. a \in Int /\ b \in Int /\ b < a
      BY <1>4, <1>5, <1>6, <2>1
    <3>. HIDE DEF a, b
    <3>2. SubSeq(all, a, b) = << >> /\ SubSeq(view, a, b) = << >>
      BY <3>1, SubSeqEmpty
    <3>. QED
      BY <3>2 DEF a, b
  <2>2. CASE n # 0
    <3>1. a \in 1 .. Len(view) /\ b \in 1 .. Len(view)
      BY <1>4, <1>5, <1>6, <2>2
    <3>. HIDE DEF a, b
    <3>2. SubSeq(view \o more, a, b) = SubSeq(view, a, b)
      BY <3>1, SubSeqOfConcat1
    <3>. QED
      BY <3>2 DEF a, b, all
  <2>. QED
    BY <2>1, <2>2
<1>15. ReadElement(op, all) =
         [err |-> "ok", tag |-> TagRead(view, i), length |-> n,
          contents |-> SubSeq(view, i + j + 1, i + j + n), rest |-> Drop(view, last) \o more]
  BY <1>4, <1>11, <1>13, <1>14
<1>. DEFINE r == ReadElement(op, view)
<1>16. /\ r.tag = TagRead(view, i) /\ r.length = n /\ r.rest = Drop(view, last)
       /\ r.contents = SubSeq(view, i + j + 1, i + j + n)
  <2>1. \A x, t, l, c, d : x = [err |-> "ok", tag |-> t, length |-> l, contents |-> c, rest |-> d]
                            => x.tag = t /\ x.length = l /\ x.contents = c /\ x.rest = d
    OBVIOUS
  <2>. HIDE DEF r
  <2>2. r = [err |-> "ok", tag |-> TagRead(view, i), length |-> n,
             contents |-> SubSeq(view, i + j + 1, i + j + n), rest |-> Drop(view, last)]
    BY <1>10 DEF r
  <2>. QED
    BY <2>1, <2>2
<1>. QED
  BY <1>13, <1>15, <1>16 DEF all

(* What encode_sequence_header writes is what decode_sequence_header reads,*)
(* provided the contents it announces are there.                           *)
LEMMA HeaderRoundTrip ==
  ASSUME NEW t \in ConstructedTag, NEW n \in UWord, NEW rest \in Seq(Octet), n <= Len(rest)
  PROVE  ReadElement("sequence_header", encode_tag(t) \o encode_length(n) \o rest) =
           [err |-> "ok", tag |-> t, length |-> n, contents |-> Take(rest, n), rest |-> rest]
<1>. DEFINE contents == Take(rest, n)
            last     == Drop(rest, n)
<1>1. n \in 0 .. Len(rest) /\ n \in Nat
  BY LenProperties, WeightIsNat DEF UWord
<1>2. /\ contents \in Seq(Octet) /\ Len(contents) = n /\ last \in Seq(Octet)
  BY <1>1, TakeProperties
<1>3. contents \o last = rest
  <2>1. SubSeq(rest, 1, n) \o SubSeq(rest, n + 1, Len(rest)) = SubSeq(rest, 1, Len(rest))
    <3>1. 1 \in 1 .. Len(rest) + 1 /\ n \in 1 - 1 .. Len(rest) /\ Len(rest) \in n .. Len(rest)
      BY <1>1, LenProperties
    <3>. QED
      BY <3>1, ConcatAdjacentSubSeq
  <2>. QED
    BY <2>1, SubSeqFull DEF Take, Drop
<1>4. t \in Tag /\ t \in accept("sequence_header") /\ "sequence_header" \in Elements
  BY DEF ConstructedTag, Tag, accept, Elements
<1>. HIDE DEF contents, last
<1>5. contents_error("sequence_header", Len(contents), contents \o last) = "ok"
  BY <1>1, <1>2, <1>3 DEF contents_error
<1>6. ReadElement("sequence_header", encode_tlv(t, contents) \o last) =
        [err |-> "ok", tag |-> t, length |-> n, contents |-> contents, rest |-> rest]
  BY <1>2, <1>3, <1>4, <1>5, ElementRoundTrip
<1>7. encode_tlv(t, contents) \o last = encode_tag(t) \o encode_length(n) \o rest
  <2>. DEFINE h == encode_tag(t) \o encode_length(n)
  <2>1. h \in Seq(Octet)
    BY <1>4, HeaderOctets
  <2>. HIDE DEF h
  <2>2. \A a, b, c \in Seq(Octet) : (a \o b) \o c = a \o (b \o c)
    BY ConcatAssociative
  <2>3. (h \o contents) \o last = h \o (contents \o last)
    BY <1>2, <2>1, <2>2
  <2>. QED
    BY <1>2, <1>3, <2>3 DEF h, encode_tlv
<1>. QED
  BY <1>6, <1>7 DEF contents
=============================================================================
