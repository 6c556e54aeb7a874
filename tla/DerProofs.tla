------------------------------ MODULE DerProofs ------------------------------
(***************************************************************************)
(* der_encoder::validate, for every word size and all octets: what it may  *)
(* never refuse, and what it may never accept.                             *)
(*                                                                         *)
(* A verdict is about the octets it was asked for, as long as they are the *)
(* ones at hand (IInv), so the properties are about validate alone; they   *)
(* rest on ElementRoundTrip, and on the redundant leading octet being the  *)
(* same thing as a shorter two's complement form (MinimalForm).            *)
(***************************************************************************)
EXTENDS Der, OctetTheorems

verdicts == {"ok", "constraint_violation"} \cup header_errors

IInv == TypeOK /\ verdict \in {"none", validate(encoded)}

-----------------------------------------------------------------------------
(* A value that fits n octets fits any larger number of them.              *)
LEMMA FitsMore ==
  ASSUME NEW n \in 1 .. WordOctets, NEW k \in 1 .. n, NEW v \in Int, Fits(v, k)
  PROVE  Fits(v, n)
<1>1. n - 1 \in 0 .. WordOctets /\ k - 1 \in 0 .. n - 1 /\ k - 1 \in 0 .. WordOctets
  BY WordAssumption
<1>. DEFINE a == Weight[k - 1]
            b == Weight[n - 1]
<1>2. a <= b
  BY <1>1, WeightMonotone
<1>3. a \in Nat /\ b \in Nat
  BY <1>1, WeightIsNat
<1>4. -(128 * a) <= v /\ v <= 128 * a - 1
  BY DEF Fits
<1>5. SUFFICES -(128 * b) <= v /\ v <= 128 * b - 1
  BY DEF Fits
<1>. HIDE DEF a, b
<1>. QED
  BY <1>2, <1>3, <1>4

(* Contents are the shortest form of their value when that value does not  *)
(* fit one octet less.                                                     *)
LEMMA ShortestUnlessLess ==
  ASSUME NEW c \in Seq(Octet), Len(c) \in 2 .. WordOctets
  PROVE  Shortest(c) <=> ~ Fits(decode_integer_value(c), Len(c) - 1)
<1>. DEFINE n == Len(c)
            v == decode_integer_value(c)
            S == {k \in 1 .. WordOctets : Fits(v, k)}
<1>1. n \in 1 .. WordOctets /\ n - 1 \in 1 .. WordOctets /\ n \in Nat
  <2>1. n \in 2 .. WordOctets
    OBVIOUS
  <2>. HIDE DEF n
  <2>. QED
    BY <2>1, WordAssumption
<1>2. Fits(v, n) /\ v \in Int
  BY <1>1, DecodedFits DEF SWord
<1>3. Min(S) \in S /\ \A y \in S : Min(S) <= y
  <2>1. S \in SUBSET Nat /\ n \in S
    BY <1>1, <1>2
  <2>. HIDE DEF S
  <2>. QED
    BY <2>1, MinIsLeast
<1>4. Shortest(c) <=> n = Min(S)
  BY <1>1 DEF Shortest, ShortestSize
<1>5. Min(S) \in 1 .. n /\ Fits(v, Min(S))
  BY <1>1, <1>2, <1>3, WordAssumption
<1>6. CASE Fits(v, n - 1)
  <2>1. n - 1 \in S
    BY <1>1, <1>6
  <2>2. Min(S) <= n - 1
    BY <1>3, <2>1
  <2>. HIDE DEF S, n
  <2>. QED
    BY <1>1, <1>4, <1>5, <1>6, <2>2 DEF n, v
<1>7. CASE ~ Fits(v, n - 1)
  <2>1. Min(S) # n => Min(S) \in 1 .. n - 1
    BY <1>1, <1>5
  <2>2. Min(S) = n
    BY <1>1, <1>2, <1>5, <1>7, <2>1, FitsMore
  <2>. QED
    BY <1>4, <1>7, <2>2
<1>. QED
  BY <1>6, <1>7

(* The contents is_integer_minimal accepts are the shortest form of their  *)
(* value (X.690 8.3.2), and all of them.                                   *)
THEOREM MinimalForm ==
  ASSUME NEW c \in Seq(Octet), Len(c) <= WordOctets
  PROVE  is_integer_minimal(c) <=> Shortest(c)
<1>1. CASE c = << >>
  BY <1>1 DEF is_integer_minimal, Shortest
<1>2. CASE Len(c) = 1
  <2>1. Fits(decode_integer_value(c), 1)
    <3>1. Len(c) \in 1 .. WordOctets
      BY <1>2, WordAssumption
    <3>. QED
      BY <1>2, <3>1, DecodedFits
  <2>. DEFINE S == {k \in 1 .. WordOctets : Fits(decode_integer_value(c), k)}
  <2>2. 1 \in S /\ S \in SUBSET Nat /\ S \subseteq 1 .. WordOctets
    BY <2>1, WordAssumption
  <2>3. Min(S) = 1
    <3>. HIDE DEF S
    <3>1. Min(S) \in S /\ Min(S) <= 1
      BY <2>2, MinIsLeast
    <3>. DEFINE m == Min(S)
    <3>2. m \in 1 .. WordOctets /\ m <= 1
      BY <2>2, <3>1
    <3>. HIDE DEF m
    <3>3. m = 1
      BY <3>2, WordAssumption
    <3>. QED
      BY <3>3 DEF m
  <2>4. Shortest(c)
    BY <1>2, <2>3, WordAssumption DEF Shortest, ShortestSize
  <2>5. c # << >>
    BY <1>2
  <2>. QED
    BY <1>2, <2>4, <2>5 DEF is_integer_minimal
<1>3. CASE Len(c) > 1
  <2>1. Len(c) \in 2 .. WordOctets /\ Len(c) # 1
    <3>. DEFINE n == Len(c)
    <3>1. n \in Nat /\ n <= WordOctets /\ n > 1
      BY <1>3
    <3>. HIDE DEF n
    <3>2. n \in 2 .. WordOctets /\ n # 1
      BY <3>1, WordAssumption
    <3>. QED
      BY <3>2 DEF n
  <2>2. is_integer_minimal(c) <=> ~ Redundant(c)
    <3>1. c # << >>
      BY <1>3
    <3>2. is_integer_minimal(c) <=> ~ \/ c[1] = 0 /\ c[2] < 128
                                      \/ c[1] = 255 /\ c[2] >= 128
      BY <1>3, <2>1, <3>1 DEF is_integer_minimal
    <3>. QED
      BY <3>2, Zenon DEF Redundant
  <2>. QED
    BY <2>1, <2>2, ShortestUnlessLess, FitsLess
<1>. QED
  BY <1>1, <1>2, <1>3

-----------------------------------------------------------------------------
(* The checks of validate.                                                 *)

(* Every check answers one of the codes of its comment.                    *)
LEMMA ChecksAnswer ==
  \A c : /\ validate_boolean_der(c) \in verdicts
         /\ validate_integer_der(c) \in verdicts
         /\ validate_bit_string_unused_bits(c) \in verdicts
BY DEF validate_boolean_der, validate_integer_der, validate_bit_string_unused_bits,
       Verdict, verdicts

(* Reading an element answers one of the codes of the header, or that the  *)
(* contents are not all there; what is read are octets under a tag.        *)
LEMMA ElementRead ==
  ASSUME NEW octets \in Seq(Octet)
  PROVE  LET r == ReadElement("tlv", octets)
         IN  /\ r.err \in {"ok"} \cup header_errors
             /\ r.err = "ok" => r.contents \in Seq(Octet) /\ r.tag \in Tag
             /\ r.err # "ok" => r.contents = << >>
<1>. DEFINE h == ReadHeader(octets, accept("tlv"))
            r == ReadElement("tlv", octets)
            e == IF h.err # "ok" THEN h.err ELSE contents_error("tlv", h.length, h.rest)
<1>1. "tlv" \in Elements /\ accept("tlv") = Tag
  BY DEF Elements, accept
<1>2. r.err = e /\ (e # "ok" => r.contents = << >>)
  BY DEF ReadElement, AfterHeader
<1>3. contents_error("tlv", h.length, h.rest) \in {"ok", "buffer_underflow"}
  BY DEF contents_error
<1>4. h.err \in {"ok"} \cup header_errors
  <2>1. CASE \E i \in 1 .. Len(octets), j \in 1 .. Len(octets) :
               HeaderEnds(octets, i, j) /\ TagRead(octets, i) \in Tag
    BY <1>1, <2>1, HeaderReads
  <2>. QED
    BY <1>1, <2>1, HeaderCases
<1>5. r.err \in {"ok"} \cup header_errors
  BY <1>2, <1>3, <1>4 DEF header_errors
<1>6. ASSUME r.err = "ok"
      PROVE  r.contents \in Seq(Octet) /\ r.tag \in Tag
  <2>1. PICK i \in 1 .. Len(octets), j \in 1 .. Len(octets) :
               ElementEnds("tlv", octets, i, j, LengthRead(Drop(octets, i), j))
    BY <1>1, <1>6, ElementCases DEF element_errors, header_errors
  <2>. DEFINE n == LengthRead(Drop(octets, i), j)
  <2>2. /\ r.tag = TagRead(octets, i)
        /\ r.contents = SubSeq(octets, i + j + 1, i + j + n)
    BY <1>1, <2>1, ElementReads
  <2>3. /\ i + j \in 0 .. Len(octets) /\ n \in 0 .. Len(octets) - (i + j)
    BY <1>1, <2>1, ElementEndsInside
  <2>. DEFINE k == i + j
              m == k + n
              l == Len(octets)
  <2>4. k \in 0 .. l /\ m \in k .. l
    <3>1. k \in 0 .. l /\ n \in 0 .. l - k /\ l \in Nat
      BY <2>3
    <3>. HIDE DEF k, l, n
    <3>. QED
      BY <3>1
  <2>5. SubSeq(octets, k + 1, m) \in Seq(Octet)
    <3>. HIDE DEF k, m
    <3>. QED
      BY <2>4, CutProperties
  <2>. QED
    BY <2>1, <2>2, <2>5, TagReadIsTag
<1>. QED
  BY <1>2, <1>5, <1>6

(* validate answers an error code for all octets.                          *)
LEMMA ValidateAnswers ==
  ASSUME NEW octets \in Seq(Octet)
  PROVE  validate(octets) \in verdicts
<1>. DEFINE r == ReadElement("tlv", octets)
            h == ReadHeader(octets, Tag)
<1>1. r.err \in {"ok"} \cup header_errors
  BY ElementRead
<1>2. h.err \in {"ok"} \cup header_errors
  <2>1. CASE \E i \in 1 .. Len(octets), j \in 1 .. Len(octets) :
               HeaderEnds(octets, i, j) /\ TagRead(octets, i) \in Tag
    BY <2>1, HeaderReads
  <2>. QED
    BY <2>1, HeaderCases
<1>3. validate_length_definite(octets) \in verdicts
  BY <1>2 DEF validate_length_definite, definite, verdicts, header_errors
<1>. HIDE DEF r
<1>4. judge(octets, r) \in verdicts
  BY <1>1, <1>3, ChecksAnswer, SMT DEF judge, verdicts
<1>. QED
  BY <1>4 DEF validate, r

(* What validate says of a whole element with one of the three universal   *)
(* tags whose contents it looks at.                                        *)
LEMMA ValidateReads ==
  ASSUME NEW octets \in Seq(Octet), ReadElement("tlv", octets).err = "ok"
  PROVE  LET r == ReadElement("tlv", octets)
         IN  /\ r.tag = BOOLEAN_TAG => validate(octets) = validate_boolean_der(r.contents)
             /\ r.tag \in {INTEGER_TAG, ENUMERATED_TAG} =>
                  validate(octets) = validate_integer_der(r.contents)
<1>. DEFINE r == ReadElement("tlv", octets)
<1>1. r.err = "ok"
  OBVIOUS
<1>. HIDE DEF r
<1>2. CASE r.tag = BOOLEAN_TAG
  <2>1. r.tag.cls = 0 /\ r.tag.number = 1
    BY <1>2 DEF BOOLEAN_TAG, make_universal
  <2>2. judge(octets, r) = validate_boolean_der(r.contents)
    BY <1>1, <2>1 DEF judge
  <2>3. r.tag \notin {INTEGER_TAG, ENUMERATED_TAG}
    BY <1>2 DEF BOOLEAN_TAG, INTEGER_TAG, ENUMERATED_TAG, make_universal
  <2>. QED
    BY <2>2, <2>3 DEF validate, r
<1>3. CASE r.tag \in {INTEGER_TAG, ENUMERATED_TAG}
  <2>1. r.tag.cls = 0 /\ r.tag.number \in {2, 10}
    BY <1>3 DEF INTEGER_TAG, ENUMERATED_TAG, make_universal
  <2>2. judge(octets, r) = validate_integer_der(r.contents)
    BY <1>1, <2>1 DEF judge
  <2>3. r.tag # BOOLEAN_TAG
    BY <1>3 DEF BOOLEAN_TAG, INTEGER_TAG, ENUMERATED_TAG, make_universal
  <2>. QED
    BY <2>2, <2>3 DEF validate, r
<1>. QED
  BY <1>2, <1>3 DEF r

(* An element der_encoder writes is read back whole.                       *)
LEMMA OwnElementRead ==
  ASSUME NEW t \in Tag, NEW c \in Seq(Octet), Len(c) \in UWord
  PROVE  /\ encode_tlv(t, c) \in Seq(Octet)
         /\ ReadElement("tlv", encode_tlv(t, c)).err = "ok"
         /\ ReadElement("tlv", encode_tlv(t, c)).tag = t
         /\ ReadElement("tlv", encode_tlv(t, c)).contents = c
<1>1. encode_tlv(t, c) \in Seq(Octet) /\ << >> \in Seq(Octet)
  BY EncodeTlvOctets
<1>2. encode_tlv(t, c) \o << >> = encode_tlv(t, c) /\ c \o << >> = c
  BY <1>1
<1>3. "tlv" \in Elements /\ t \in accept("tlv")
  BY DEF Elements, accept
<1>4. contents_error("tlv", Len(c), c \o << >>) = "ok"
  BY <1>2 DEF contents_error
<1>. DEFINE r == ReadElement("tlv", encode_tlv(t, c) \o << >>)
<1>5. r = [err |-> "ok", tag |-> t, length |-> Len(c), contents |-> c,
           rest |-> IF "tlv" = "sequence_header" THEN c \o << >> ELSE << >>]
  <2>. DEFINE op == "tlv"
              none == << >>
  <2>1. op \in Elements /\ t \in accept(op) /\ none \in Seq(Octet)
    BY <1>1, <1>3
  <2>2. contents_error(op, Len(c), c \o none) = "ok"
    BY <1>4
  <2>. HIDE DEF op, none
  <2>3. ReadElement(op, encode_tlv(t, c) \o none) =
          [err |-> "ok", tag |-> t, length |-> Len(c), contents |-> c,
           rest |-> IF op = "sequence_header" THEN c \o none ELSE none]
    BY <2>1, <2>2, ElementRoundTrip
  <2>. QED
    BY <2>3 DEF op, none
<1>. HIDE DEF r
<1>6. r.err = "ok" /\ r.tag = t /\ r.contents = c
  BY <1>5
<1>. QED
  BY <1>1, <1>2, <1>6 DEF r

(* The shortest form passes: the two octets validate_integer_der looks at  *)
(* are never the redundant ones.                                           *)
LEMMA ShortestPasses ==
  ASSUME NEW c \in Seq(Octet), Shortest(c)
  PROVE  validate_integer_der(c) = "ok"
<1>. DEFINE n == Len(c)
            S == {n} \cup {i - 1 : i \in {j \in 1 .. n : c[j] # 255}}
<1>1. n \in 1 .. WordOctets /\ n <= WordOctets /\ (n > 1 => n # 1) /\ (n = 1 \/ n > 1)
  <2>1. n \in 1 .. WordOctets
    BY DEF Shortest
  <2>. HIDE DEF n
  <2>. QED
    BY <2>1, WordAssumption
<1>2. c # << >>
  BY <1>1
<1>3. is_integer_minimal(c)
  BY <1>1, MinimalForm
<1>4. CASE n > 1
  <2>1. 1 \in 1 .. n /\ 2 \in 1 .. n
    BY <1>4
  <2>2. c[1] \in 0 .. 255 /\ c[2] \in 0 .. 255
    BY <2>1, ElementOfSeq DEF Octet
  <2>3. ~ Redundant(c)
    <3>1. n # 1
      BY <1>1, <1>4
    <3>2. is_integer_minimal(c) <=> ~ \/ c[1] = 0 /\ c[2] < 128
                                      \/ c[1] = 255 /\ c[2] >= 128
      BY <1>2, <1>4, <3>1 DEF is_integer_minimal
    <3>. QED
      BY <1>3, <3>2, Zenon DEF Redundant
  <2>4. c[1] = 0 => ~ c[2] < 128
    BY <2>3 DEF Redundant
  <2>5. c[1] = 255 => ~ count_sign_leading_octets(c, 255) >= 2
    <3>. SUFFICES ASSUME c[1] = 255 PROVE ~ Min(S) >= 2
      BY DEF count_sign_leading_octets
    <3>1. c[2] # 255
      BY <2>2, <2>3 DEF Redundant
    <3>2. S \in SUBSET Nat
      BY <1>1
    <3>3. 1 \in S
      <4>1. 2 \in {j \in 1 .. n : c[j] # 255}
        BY <2>1, <3>1
      <4>2. 2 - 1 \in {i - 1 : i \in {j \in 1 .. n : c[j] # 255}}
        BY <4>1
      <4>. QED
        BY <4>2
    <3>. HIDE DEF S
    <3>4. Min(S) \in S /\ Min(S) <= 1
      BY <3>2, <3>3, MinIsLeast
    <3>5. Min(S) \in Nat
      BY <3>2, <3>4
    <3>. DEFINE m == Min(S)
    <3>6. m \in Nat /\ m <= 1
      BY <3>4, <3>5
    <3>. HIDE DEF m
    <3>7. ~ m >= 2
      BY <3>6
    <3>. QED
      BY <3>7 DEF m
  <2>. QED
    BY <1>2, <2>4, <2>5 DEF validate_integer_der, Verdict
<1>5. CASE n = 1
  BY <1>2, <1>5 DEF validate_integer_der, Verdict
<1>. QED
  BY <1>1, <1>4, <1>5

(* A non-negative INTEGER that passes is in its shortest form.             *)
LEMMA PassedIsShortest ==
  ASSUME NEW c \in Seq(Octet), Len(c) \in 1 .. WordOctets,
         validate_integer_der(c) = "ok"
  PROVE  Shortest(c) \/ decode_integer_value(c) < 0
<1>. DEFINE n == Len(c)
<1>1. n \in Nat /\ n <= WordOctets /\ n >= 1 /\ (n > 1 => n # 1) /\ (n = 1 \/ n > 1)
  <2>1. n \in 1 .. WordOctets
    OBVIOUS
  <2>. HIDE DEF n
  <2>. QED
    BY <2>1, WordAssumption
<1>2. 1 \in 1 .. n
  BY <1>1
<1>3. c[1] \in 0 .. 255
  BY <1>2, ElementOfSeq DEF Octet
<1>4. CASE c[1] >= 128
  <2>. DEFINE u == Unsigned(c)
              a == c[1]
              w == Weight[n - 1]
              v == decode_integer_value(c)
  <2>1. u <= (a + 1) * w - 1
    BY UnsignedByFirst
  <2>2. n - 1 \in 0 .. WordOctets /\ n \in 1 .. WordOctets
    BY <1>1, WordAssumption
  <2>3. w \in Nat /\ Weight[n] = 256 * w /\ u \in Nat
    BY <2>2, WeightIsNat, UnsignedIsNat
  <2>4. (a + 1) * w <= 256 * w
    <3>1. a + 1 \in Nat /\ a + 1 <= 256
      <4>1. a \in 0 .. 255
        BY <1>3
      <4>. HIDE DEF a
      <4>. QED
        BY <4>1
    <3>. HIDE DEF a, w
    <3>. QED
      BY <2>3, <3>1, ProductMonotone
  <2>5. v = u - 256 * w
    <3>1. v = -Weight[n] + u
      BY <1>4 DEF decode_integer_value, Negative
    <3>. HIDE DEF v, u, w
    <3>. QED
      BY <2>3, <3>1
  <2>6. v < 0
    <3>1. a \in 0 .. 255
      BY <1>3
    <3>. HIDE DEF v, u, w, a
    <3>. QED
      BY <2>1, <2>3, <2>4, <2>5, <3>1
  <2>. QED
    BY <2>6
<1>5. CASE ~ c[1] >= 128
  <2>1. c # << >> /\ ~ (n > 1 /\ c[1] = 0 /\ c[2] < 128)
    BY DEF validate_integer_der, Verdict
  <2>2. is_integer_minimal(c)
    <3>1. CASE n = 1
      BY <2>1, <3>1 DEF is_integer_minimal
    <3>2. CASE n > 1
      <4>1. n # 1
        BY <1>1, <3>2
      <4>2. is_integer_minimal(c) <=> ~ \/ c[1] = 0 /\ c[2] < 128
                                        \/ c[1] = 255 /\ c[2] >= 128
        BY <2>1, <3>2, <4>1 DEF is_integer_minimal
      <4>3. c[1] # 255
        BY <1>5
      <4>. QED
        BY <2>1, <3>2, <4>2, <4>3, Zenon
    <3>. QED
      BY <1>1, <3>1, <3>2
  <2>. QED
    BY <1>1, <2>2, MinimalForm
<1>. QED
  BY <1>4, <1>5

-----------------------------------------------------------------------------
(* The inductive invariant holds at first, and every step keeps it.        *)
LEMMA InitIInv == Init => IInv
<1>1. << >> \in Seq(Octet)
  OBVIOUS
<1>. QED
  BY <1>1 DEF Init, IInv, TypeOK

(* New octets, whoever wrote them, take the verdict back.                  *)
LEMMA NewOctets ==
  ASSUME encoded' \in Seq(Octet), own' \in BOOLEAN, verdict' = "none"
  PROVE  IInv'
BY DEF IInv, TypeOK

(* Whoever takes the step, it judges or replaces the octets at hand.       *)
LEMMA StepIInv == IInv /\ [Next]_vars => IInv'
<1>. SUFFICES ASSUME IInv, [Next]_vars PROVE IInv'
  OBVIOUS
<1>1. CASE EncodeInteger
  <2>1. PICK v \in OwnInts, t \in {INTEGER_TAG, ENUMERATED_TAG} :
          encoded' = encode_tlv(t, encode_integer_bytes(v))
    BY <1>1 DEF EncodeInteger
  <2>2. v \in SWord /\ t \in Tag
    BY DerAssumption, ElementTags
  <2>3. encode_integer_bytes(v) \in Seq(Octet) /\ Len(encode_integer_bytes(v)) \in UWord
    BY <2>2, IntegerOctets
  <2>4. encoded' \in Seq(Octet)
    BY <2>1, <2>2, <2>3, EncodeTlvOctets
  <2>. QED
    BY <1>1, <2>4, NewOctets DEF EncodeInteger
<1>2. CASE EncodeElement
  <2>1. PICK e \in OwnElements : encoded' = encode_tlv(e.tag, e.contents)
    BY <1>2 DEF EncodeElement
  <2>2. e.tag \in Tag /\ e.contents \in Seq(Octet) /\ Len(e.contents) \in UWord
    BY DerAssumption
  <2>3. encoded' \in Seq(Octet)
    BY <2>1, <2>2, EncodeTlvOctets
  <2>. QED
    BY <1>2, <2>3, NewOctets DEF EncodeElement
<1>3. CASE Receive
  <2>1. encoded' \in Seq(Octet)
    BY <1>3, DerAssumption DEF Receive
  <2>. QED
    BY <1>3, <2>1, NewOctets DEF Receive
<1>4. CASE Validate
  <2>1. encoded \in Seq(Octet) /\ own \in BOOLEAN
    BY DEF IInv, TypeOK
  <2>2. encoded' = encoded /\ own' = own /\ verdict' = validate(encoded)
    BY <1>4 DEF Validate
  <2>3. verdict' \in verdicts
    BY <2>1, <2>2, ValidateAnswers
  <2>4. TypeOK'
    BY <2>1, <2>2, <2>3 DEF TypeOK, verdicts, header_errors
  <2>5. validate(encoded)' = validate(encoded)
    BY <2>2 DEF validate, judge, validate_length_definite
  <2>. QED
    BY <2>2, <2>4, <2>5 DEF IInv
<1>5. CASE UNCHANGED vars
  <2>1. validate(encoded)' = validate(encoded)
    BY <1>5 DEF vars, validate, judge, validate_length_definite
  <2>. QED
    BY <1>5, <2>1 DEF IInv, TypeOK, vars
<1>. QED
  BY <1>1, <1>2, <1>3, <1>4, <1>5 DEF Next

(* Every verdict is the one validate gives of the octets at hand.          *)
THEOREM DerInvariant == Spec => []IInv
<1>. QED
  BY InitIInv, StepIInv, PTL DEF Spec

(* Whatever is received or written, der_encoder judges octets, and answers *)
(* one of its error codes.                                                 *)
THEOREM DerTypeCorrect == Spec => []TypeOK
<1>1. IInv => TypeOK
  BY DEF IInv
<1>. QED
  BY <1>1, DerInvariant, PTL

(* validate never turns down a canonical BOOLEAN, INTEGER or ENUMERATED of *)
(* any number of octets up to a word.                                      *)
THEOREM DerAcceptsCanonical == Spec => []CanonicalAccepted
<1>1. IInv => CanonicalAccepted
  <2>. SUFFICES ASSUME IInv, verdict \notin {"none", "ok"}
                PROVE  ~ \/ \E b \in {0, 255} : encoded = encode_tlv(BOOLEAN_TAG, <<b>>)
                         \/ \E t \in {INTEGER_TAG, ENUMERATED_TAG} :
                              /\ encoded = encode_tlv(t, Judged.contents)
                              /\ Shortest(Judged.contents)
    BY DEF CanonicalAccepted
  <2>1. encoded \in Seq(Octet) /\ validate(encoded) # "ok"
    BY DEF IInv, TypeOK
  <2>2. ASSUME NEW b \in {0, 255}, encoded = encode_tlv(BOOLEAN_TAG, <<b>>)
        PROVE  FALSE
    <3>. DEFINE c == <<b>>
    <3>1. c \in Seq(Octet) /\ Len(c) \in UWord
      BY SmallLengths DEF Octet
    <3>2. ReadElement("tlv", encoded).err = "ok"
          /\ ReadElement("tlv", encoded).tag = BOOLEAN_TAG
          /\ ReadElement("tlv", encoded).contents = c
      <4>1. BOOLEAN_TAG \in Tag
        BY ElementTags
      <4>2. encoded = encode_tlv(BOOLEAN_TAG, c)
        BY <2>2
      <4>. HIDE DEF c
      <4>. QED
        BY <3>1, <4>1, <4>2, OwnElementRead
    <3>3. validate(encoded) = validate_boolean_der(c)
      BY <2>1, <3>2, ValidateReads
    <3>4. validate_boolean_der(c) = "ok"
      BY DEF validate_boolean_der, Verdict
    <3>. QED
      BY <2>1, <3>3, <3>4
  <2>3. ASSUME NEW t \in {INTEGER_TAG, ENUMERATED_TAG},
               encoded = encode_tlv(t, Judged.contents), Shortest(Judged.contents)
        PROVE  FALSE
    <3>. DEFINE c == Judged.contents
    <3>1. c \in Seq(Octet)
      <4>1. Judged.err # "ok" => c \in Seq(Octet)
        <5>1. Judged.err # "ok" => c = << >>
          BY <2>1, ElementRead DEF Judged
        <5>2. << >> \in Seq(Octet)
          OBVIOUS
        <5>. QED
          BY <5>1, <5>2
      <4>2. Judged.err = "ok" => c \in Seq(Octet)
        BY <2>1, ElementRead DEF Judged
      <4>. QED
        BY <4>1, <4>2
    <3>2. Len(c) \in UWord
      <4>. DEFINE n == Len(c)
      <4>1. n \in 1 .. WordOctets
        BY <2>3 DEF Shortest
      <4>. HIDE DEF n
      <4>2. n \in 0 .. 255
        BY <4>1, WordAssumption
      <4>. QED
        BY <4>2, SmallLengths DEF n
    <3>. HIDE DEF c
    <3>3. t \in Tag
      BY ElementTags
    <3>4. ReadElement("tlv", encoded).err = "ok"
          /\ ReadElement("tlv", encoded).tag = t
          /\ ReadElement("tlv", encoded).contents = c
      BY <2>3, <3>1, <3>2, <3>3, OwnElementRead DEF c
    <3>5. validate(encoded) = validate_integer_der(c)
      BY <2>1, <3>4, ValidateReads
    <3>6. validate_integer_der(c) = "ok"
      BY <2>3, <3>1, ShortestPasses DEF c
    <3>. QED
      BY <2>1, <3>5, <3>6
  <2>. QED
    BY <2>2, <2>3
<1>. QED
  BY <1>1, DerInvariant, PTL

(* What validate accepts has all its octets, no constructed string, a      *)
(* BOOLEAN of 0 or 255 and, in an INTEGER that is not negative, no octet   *)
(* that could be left out.                                                 *)
THEOREM DerAcceptsPlausible == Spec => []AcceptedIsPlausible
<1>1. IInv => AcceptedIsPlausible
  <2>. DEFINE r == ReadElement("tlv", encoded)
              c == r.contents
              t == r.tag
  <2>. SUFFICES ASSUME IInv, verdict = "ok"
                PROVE  /\ r.err = "ok"
                       /\ t \notin {[BIT_STRING_TAG EXCEPT !.constructed = TRUE],
                                    [OCTET_STRING_TAG EXCEPT !.constructed = TRUE]}
                       /\ t = BOOLEAN_TAG => c \in {<<0>>, <<255>>}
                       /\ t = INTEGER_TAG /\ Len(c) \in 1 .. WordOctets =>
                            Shortest(c) \/ decode_integer_value(c) < 0
    BY DEF AcceptedIsPlausible, Judged
  <2>1. encoded \in Seq(Octet) /\ validate(encoded) = "ok"
    BY DEF IInv, TypeOK
  <2>2. r.err = "ok"
    <3>. HIDE DEF r
    <3>1. judge(encoded, r) = "ok"
      BY <2>1 DEF validate, r
    <3>. QED
      BY <3>1 DEF judge
  <2>3. c \in Seq(Octet)
    BY <2>1, <2>2, ElementRead
  <2>4. t \notin {[BIT_STRING_TAG EXCEPT !.constructed = TRUE],
                  [OCTET_STRING_TAG EXCEPT !.constructed = TRUE]}
    <3>. HIDE DEF r
    <3>1. judge(encoded, r) = "ok"
      BY <2>1 DEF validate, r
    <3>2. ~ (r.tag.cls = 0 /\ r.tag.number \in {3, 4} /\ r.tag.constructed)
      BY <2>2, <3>1 DEF judge
    <3>. QED
      BY <3>2 DEF BIT_STRING_TAG, OCTET_STRING_TAG, make_universal
  <2>5. ASSUME t = BOOLEAN_TAG
        PROVE  c \in {<<0>>, <<255>>}
    <3>1. validate_boolean_der(c) = "ok"
      BY <2>1, <2>2, <2>5, ValidateReads
    <3>2. Len(c) = 1 /\ c[1] \in {0, 255}
      BY <3>1 DEF validate_boolean_der, Verdict
    <3>. HIDE DEF c
    <3>3. c = <<c[1]>>
      BY <2>3, <3>2
    <3>. QED
      BY <3>2, <3>3
  <2>6. ASSUME t = INTEGER_TAG, Len(c) \in 1 .. WordOctets
        PROVE  Shortest(c) \/ decode_integer_value(c) < 0
    <3>1. validate_integer_der(c) = "ok"
      BY <2>1, <2>2, <2>6, ValidateReads
    <3>. HIDE DEF c
    <3>. QED
      BY <2>3, <2>6, <3>1, PassedIsShortest
  <2>. HIDE DEF r, c, t
  <2>. QED
    BY <2>2, <2>4, <2>5, <2>6
<1>. QED
  BY <1>1, DerInvariant, PTL

(* is_integer_minimal, which the documentation calls the core canonical    *)
(* check, holds of exactly the shortest forms: it is validate_integer_der  *)
(* that does not ask it.                                                   *)
THEOREM DerMinimalIsShortest == Spec => []MinimalIsShortest
<1>1. IInv => MinimalIsShortest
  <2>. SUFFICES ASSUME IInv, Judged.err = "ok", Len(Judged.contents) <= WordOctets
                PROVE  is_integer_minimal(Judged.contents) <=> Shortest(Judged.contents)
    BY DEF MinimalIsShortest
  <2>1. encoded \in Seq(Octet)
    BY DEF IInv, TypeOK
  <2>2. Judged.contents \in Seq(Octet)
    BY <2>1, ElementRead DEF Judged
  <2>. QED
    BY <2>2, MinimalForm
<1>. QED
  BY <1>1, DerInvariant, PTL
=============================================================================
