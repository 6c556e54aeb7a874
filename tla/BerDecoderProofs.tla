-------------------------- MODULE BerDecoderProofs --------------------------
(***************************************************************************)
(* ber_decoder, for every word size, every batch size the code can detect  *)
(* and all messages: the batch stays in bounds, and a call that succeeds   *)
(* has read what is there.                                                 *)
(*                                                                         *)
(* IInv is inductive.  The promise of TlvReader rests on it in one place   *)
(* only: the answer a full batch gives to the call that filled it is the   *)
(* value of that call's octets, as every slot holds from one octet to a    *)
(* word of them.  The rest is what OctetTheorems says of one element.      *)
(***************************************************************************)
EXTENDS BerDecoder, OctetTheorems

IInv == TypeOK /\ BatchInBounds

Slot == [size : Nat, value_buf : Seq(Octet)]

GoodSlot(s) ==
  s \in Slot /\ s.size \in 1 .. WordOctets /\ Len(s.value_buf) = s.size

(* The part of TypeOK that is about the caller's side. *)
AnswerOK(a) ==
  /\ a.op \in Operations \cup {"none"} /\ a.err \in error_code
  /\ a.tag \in Tag /\ a.data \in Seq(Int)
  /\ a.op \in {"integer", "enumerated"} => a.data \in Seq(SWord)

-----------------------------------------------------------------------------
(* Every level found at run time fits the batch array, and none is empty.  *)
LEMMA BatchSizeBounds ==
  ASSUME level \in SimdLevel
  PROVE  batch_size \in 1 .. kMaxBatchSize
BY DEF SimdLevel, batch_size, batch_width, kMaxBatchSize

(* A batch of good slots decodes to the values of their octets.            *)
LEMMA GoodSlotsDecode ==
  ASSUME NEW slots \in Seq(Slot), NEW i \in DOMAIN slots, GoodSlot(slots[i])
  PROVE  batch_decode_integers(slots)[i] =
           [err |-> "ok", value |-> decode_integer_value(slots[i].value_buf)]
<1>. DEFINE n   == slots[i].size
            b   == slots[i].value_buf
            raw == Unsigned(b)
<1>1. n \in 1 .. WordOctets /\ Len(b) = n /\ b \in Seq(Octet)
  BY DEF GoodSlot, Slot
<1>2. WordOctets \in Nat
  BY WordAssumption
<1>3. n # 0 /\ ~ (n > WordOctets)
  BY <1>1, <1>2
<1>4. batch_decode_integers(slots)[i] =
        [err |-> "ok", value |-> IF Negative(b) THEN raw - Weight[n] ELSE raw]
  BY <1>1, <1>3 DEF batch_decode_integers
<1>5. (IF Negative(b) THEN raw - Weight[n] ELSE raw) = decode_integer_value(b)
  <2>1. Weight[n] \in Nat /\ raw \in Nat
    BY <1>1, <1>2, WeightIsNat, UnsignedIsNat
  <2>. HIDE DEF raw
  <2>2. decode_integer_value(b) = (IF Negative(b) THEN -Weight[n] ELSE 0) + raw
    BY <1>1 DEF decode_integer_value, raw
  <2>. QED
    BY <2>1, <2>2
<1>. QED
  BY <1>4, <1>5

(* The octets decode_tag takes identify the tag it answers.                *)
LEMMA IdentifierTaken ==
  ASSUME NEW v \in Seq(Octet), NEW i \in 1 .. Len(v), TagEnds(v, i)
  PROVE  IsIdentifier(Take(v, i), TagRead(v, i))
<1>. DEFINE octets == Take(v, i)
            t      == TagRead(v, i)
            first  == v[1]
            lead   == 64 * t.cls + (IF t.constructed THEN 32 ELSE 0)
<1>1. i \in 0 .. Len(v) /\ 1 \in 1 .. i
  OBVIOUS
<1>2. octets \in Seq(Octet) /\ Len(octets) = i /\ \A x \in 1 .. i : octets[x] = v[x]
  BY <1>1, TakeProperties
<1>3. first \in 0 .. 255 /\ octets[1] = first
  <2>1. 1 \in 1 .. Len(v)
    OBVIOUS
  <2>. QED
    BY <1>1, <1>2, <2>1, ElementOfSeq DEF Octet
<1>4. /\ t.cls = first \div 64 /\ t.constructed = ((first \div 32) % 2 = 1)
      /\ t.number = IF i = 1 THEN first % 32 ELSE Groups(SubSeq(v, 2, i))
  BY DEF TagRead
<1>. HIDE DEF octets, t, first
<1>5. first = lead + (first % 32)
  <2>1. CASE (first \div 32) % 2 = 1
    <3>1. lead = 64 * (first \div 64) + 32
      BY <1>4, <2>1
    <3>. HIDE DEF lead
    <3>. QED
      BY <1>3, <2>1, <3>1
  <2>2. CASE (first \div 32) % 2 # 1
    <3>1. lead = 64 * (first \div 64) + 0
      BY <1>4, <2>2
    <3>. HIDE DEF lead
    <3>. QED
      BY <1>3, <2>2, <3>1
  <2>. QED
    BY <2>1, <2>2
<1>6. CASE i = 1 /\ first % 32 # 31
  <2>1. octets = <<first>>
    BY <1>2, <1>3, <1>6
  <2>2. t.number = first % 32 /\ t.number < 31
    BY <1>3, <1>4, <1>6
  <2>. QED
    BY <1>5, <2>1, <2>2 DEF IsIdentifier, octets, t
<1>7. CASE /\ i > 1 /\ first % 32 = 31 /\ v[i] < 128
           /\ \A j \in 2 .. i - 1 : v[j] >= 128
  <2>1. Len(octets) > 1 /\ octets[1] = lead + 31
    BY <1>2, <1>3, <1>5, <1>7
  <2>2. ASSUME NEW x \in 2 .. Len(octets)
        PROVE  octets[x] < 128 <=> x = Len(octets)
    <3>1. x \in 1 .. i /\ x \in 1 .. Len(v)
      BY <1>2
    <3>2. octets[x] = v[x] /\ v[x] \in Nat
      BY <1>2, <3>1, ElementOfSeq, OctetIsNat
    <3>3. x = i \/ x \in 2 .. i - 1
      BY <1>2
    <3>. QED
      BY <1>2, <1>7, <3>2, <3>3
  <2>3. Drop(octets, 1) = SubSeq(v, 2, i)
    BY TailOfTake DEF octets
  <2>4. Groups(Drop(octets, 1)) = t.number
    <3>1. i # 1
      BY <1>7
    <3>. QED
      BY <1>4, <2>3, <3>1
  <2>. QED
    BY <2>1, <2>2, <2>4 DEF IsIdentifier, octets, t
<1>. QED
  BY <1>6, <1>7 DEF TagEnds, first

(* The octets decode_length takes stand for the length it answers.         *)
LEMMA LengthTaken ==
  ASSUME NEW d \in Seq(Octet), NEW j \in 1 .. Len(d), LengthEnds(d, j)
  PROVE  IsLength(Take(d, j), LengthRead(d, j))
<1>. DEFINE octets == Take(d, j)
            n      == LengthRead(d, j)
            first  == d[1]
            k      == first % 128
<1>1. j \in 0 .. Len(d) /\ 1 \in 1 .. j
  OBVIOUS
<1>2. octets \in Seq(Octet) /\ Len(octets) = j /\ \A x \in 1 .. j : octets[x] = d[x]
  BY <1>1, TakeProperties
<1>3. first \in 0 .. 255 /\ octets[1] = first
  <2>1. 1 \in 1 .. Len(d)
    OBVIOUS
  <2>. QED
    BY <1>1, <1>2, <2>1, ElementOfSeq DEF Octet
<1>4. \/ j = 1 /\ first <= 128
      \/ first > 128 /\ k # 127 /\ j = 1 + k /\ k <= WordOctets
  BY DEF LengthEnds, INDEFINITE_LENGTH
<1>. HIDE DEF octets, first
<1>5. CASE j = 1 /\ first <= 128
  <2>1. octets = <<first>> /\ n = first
    BY <1>2, <1>3, <1>5 DEF LengthRead, first
  <2>. QED
    BY <1>5, <2>1 DEF IsLength, INDEFINITE_LENGTH, octets
<1>6. CASE first > 128 /\ k # 127 /\ j = 1 + k /\ k <= WordOctets
  <2>1. k \in 1 .. 8 /\ first = 128 + k
    <3>1. first \in 129 .. 255
      BY <1>3, <1>6
    <3>2. k \in 1 .. 127 /\ first = 128 + k
      BY <3>1
    <3>. HIDE DEF k
    <3>3. WordOctets \in 1 .. 8
      BY WordAssumption
    <3>. QED
      BY <1>6, <3>2, <3>3
  <2>. HIDE DEF k
  <2>2. j \in 2 .. 127 /\ first = 127 + j /\ j # 1
    BY <1>6, <2>1
  <2>3. Drop(octets, 1) = SubSeq(d, 2, j)
    BY TailOfTake DEF octets
  <2>4. n = Unsigned(Drop(octets, 1))
    BY <2>2, <2>3 DEF LengthRead
  <2>. HIDE DEF n
  <2>5. Len(octets) = j /\ octets[1] = 127 + j
    BY <1>2, <1>3, <2>2
  <2>6. IsLength(octets, n)
    BY <2>2, <2>4, <2>5 DEF IsLength
  <2>. QED
    BY <2>6 DEF octets, n
<1>. QED
  BY <1>4, <1>5, <1>6

-----------------------------------------------------------------------------
(* Contents that pass the checks of an operation mean something to it.     *)
LEMMA ContentsMeaningful ==
  ASSUME NEW op \in Elements, NEW v \in Seq(Octet), NEW i, NEW j, NEW n,
         ElementEnds(op, v, i, j, n)
  PROVE  /\ SubSeq(v, i + j + 1, i + j + n) \in Seq(Octet)
         /\ Len(SubSeq(v, i + j + 1, i + j + n)) = n /\ n \in Nat
         /\ Meaningful(op, SubSeq(v, i + j + 1, i + j + n))
<1>. DEFINE m        == i + j
            last     == Drop(v, m)
            contents == SubSeq(v, m + 1, m + n)
<1>1. /\ m \in 0 .. Len(v) /\ n \in 0 .. Len(v) - m
      /\ last \in Seq(Octet) /\ Len(last) = Len(v) - m
  BY ElementEndsInside
<1>2. n \in Nat /\ contents_error(op, n, last) = "ok"
  BY <1>1 DEF ElementEnds
<1>3. /\ op \in {"integer", "enumerated"} => n \in 1 .. WordOctets
      /\ op = "boolean" => n = 1
      /\ op = "null" => n = 0
      /\ op = "bit_string" => n >= 1 /\ last[1] <= 7
  BY <1>1, <1>2, ContentsChecked
<1>. HIDE DEF m
<1>4. contents = Take(last, n)
  BY <1>1, DropDrop
<1>. HIDE DEF contents, last
<1>5. /\ contents \in Seq(Octet) /\ Len(contents) = n
      /\ \A x \in 1 .. n : contents[x] = last[x]
  <2>1. n \in 0 .. Len(last)
    BY <1>1
  <2>. QED
    BY <1>1, <1>4, <2>1, TakeProperties
<1>6. Meaningful(op, contents)
  <2>1. CASE op \in {"integer", "enumerated"}
    BY <1>3, <1>5, <2>1 DEF Meaningful
  <2>2. CASE op = "boolean"
    BY <1>3, <1>5, <2>2 DEF Meaningful
  <2>3. CASE op = "null"
    <3>1. contents = << >>
      BY <1>3, <1>5, <2>3
    <3>. QED
      BY <2>3, <3>1 DEF Meaningful
  <2>4. CASE op = "bit_string"
    <3>1. n >= 1 /\ last[1] <= 7 /\ 1 \in 1 .. n
      BY <1>2, <1>3, <2>4
    <3>2. contents # << >> /\ contents[1] <= 7
      BY <1>5, <3>1
    <3>. QED
      BY <2>4, <3>2 DEF Meaningful
  <2>5. CASE op \in {"octet_string", "oid", "sequence_header", "tlv", "skip_tlv"}
    BY <2>5 DEF Meaningful
  <2>. QED
    BY <2>1, <2>2, <2>3, <2>4, <2>5 DEF Elements
<1>. QED
  BY <1>2, <1>5, <1>6 DEF contents, m

(* What an operation answers for contents is a value of its type.          *)
LEMMA MeaningType ==
  ASSUME NEW op \in Elements, NEW contents \in Seq(Octet), Meaningful(op, contents)
  PROVE  /\ Meaning(op, contents) \in Seq(Int)
         /\ op \in {"integer", "enumerated"} => Meaning(op, contents) \in Seq(SWord)
<1>1. contents \in Seq(Int)
  <2>1. \A x \in 1 .. Len(contents) : contents[x] \in Int
    BY ElementOfSeq, OctetIsNat
  <2>2. Len(contents) \in Nat /\ contents = [x \in 1 .. Len(contents) |-> contents[x]]
    OBVIOUS
  <2>. QED
    BY <2>1, <2>2
<1>2. CASE op \in {"integer", "enumerated"}
  <2>. DEFINE d == decode_integer_value(contents)
  <2>1. Len(contents) \in 1 .. WordOctets
    BY <1>2 DEF Meaningful
  <2>2. d \in SWord
    BY <2>1, DecodedFits
  <2>3. d \in Int
    BY <2>2 DEF SWord
  <2>4. Meaning(op, contents) = <<d>>
    BY <1>2 DEF Meaning
  <2>. HIDE DEF d
  <2>. QED
    BY <2>2, <2>3, <2>4
<1>3. CASE op = "boolean"
  BY <1>3 DEF Meaning
<1>4. CASE op \in {"null", "skip_tlv"}
  BY <1>4 DEF Meaning
<1>5. CASE op \in {"octet_string", "oid", "bit_string", "tlv"}
  BY <1>1, <1>5 DEF Meaning
<1>6. CASE op = "sequence_header"
  <2>. DEFINE n == Len(contents)
  <2>1. Meaning(op, contents) = <<n>> /\ n \in Int
    BY <1>6 DEF Meaning
  <2>. HIDE DEF n
  <2>2. <<n>> \in Seq(Int)
    BY <2>1
  <2>. QED
    BY <1>6, <2>1, <2>2
<1>. QED
  BY <1>2, <1>3, <1>4, <1>5, <1>6 DEF Elements

(* The value every decoder but decode_integer gives for them.              *)
LEMMA ValueIsMeaning ==
  ASSUME NEW op \in Elements \ {"integer"}, NEW contents \in Seq(Octet),
         Meaningful(op, contents)
  PROVE  value_of(op, Len(contents), contents) = Meaning(op, contents)
<1>1. CASE op = "enumerated"
  BY <1>1 DEF value_of, Meaning
<1>2. CASE op = "boolean"
  <2>1. Len(contents) = 1
    BY <1>2 DEF Meaningful
  <2>2. contents = <<0>> <=> ~ (contents[1] # 0)
    BY <2>1
  <2>. QED
    BY <1>2, <2>2 DEF value_of, Meaning
<1>3. CASE op \in {"null", "skip_tlv"}
  BY <1>3 DEF value_of, Meaning
<1>4. CASE op \in {"octet_string", "oid", "tlv"}
  BY <1>4 DEF value_of, Meaning
<1>5. CASE op = "bit_string"
  <2>1. <<contents[1]>> \o Drop(contents, 1) = contents
    BY <1>5, FirstAndRest DEF Meaningful
  <2>. QED
    BY <1>5, <2>1 DEF value_of, Meaning
<1>6. CASE op = "sequence_header"
  BY <1>6 DEF value_of, Meaning
<1>. QED
  BY <1>1, <1>2, <1>3, <1>4, <1>5, <1>6 DEF Elements

-----------------------------------------------------------------------------
(* A call that takes an element off the view and answers its meaning.      *)
LEMMA TakenIsSuccess ==
  ASSUME NEW op \in Elements, view \in Seq(Octet), NEW i, NEW j, NEW n,
         ElementEnds(op, view, i, j, n),
         got' = Answer(op, "ok", TagRead(view, i),
                       Meaning(op, SubSeq(view, i + j + 1, i + j + n))),
         view' = Drop(view, IF op = "sequence_header" THEN i + j ELSE i + j + n)
  PROVE  Succeed(op) /\ view' \in Seq(Octet) /\ AnswerOK(got')
<1>. DEFINE m        == i + j
            k        == m + n
            contents == SubSeq(view, m + 1, k)
            t        == TagRead(view, i)
            d        == Drop(view, i)
<1>1. /\ i \in 1 .. Len(view) /\ j \in 1 .. Len(view) - i
      /\ n \in 0 .. Len(view) - m /\ m \in 0 .. Len(view)
  BY ElementEndsInside
<1>2. /\ TagEnds(view, i) /\ LengthEnds(d, j) /\ t \in accept(op)
      /\ n = LengthRead(d, j)
  BY DEF ElementEnds, HeaderEnds
<1>3. contents \in Seq(Octet) /\ Len(contents) = n /\ Meaningful(op, contents)
  BY ContentsMeaningful
<1>4. IsIdentifier(Take(view, i), t) /\ t \in Tag
  BY <1>1, <1>2, IdentifierTaken, TagReadIsTag
<1>5. i \in 0 .. Len(view) /\ j \in 0 .. Len(view) - i
  BY <1>1
<1>6. Take(d, j) = SubSeq(view, i + 1, m) /\ d \in Seq(Octet) /\ Len(d) = Len(view) - i
  BY <1>5, DropDrop, TakeProperties
<1>7. IsLength(SubSeq(view, i + 1, m), n)
  <2>1. j \in 1 .. Len(d)
    BY <1>1, <1>6
  <2>. HIDE DEF d, m
  <2>. QED
    BY <1>2, <1>6, <2>1, LengthTaken
<1>8. m \in i + 1 .. Len(view) /\ k \in m .. Len(view) /\ k - m = n
  BY <1>1
<1>9. /\ got' = Answer(op, "ok", t, Meaning(op, contents))
      /\ view' = Drop(view, IF op = "sequence_header" THEN m ELSE k)
  OBVIOUS
<1>. HIDE DEF contents, t, d, m, k
<1>10. got'.op = op /\ got'.err = "ok" /\ got'.tag = t /\ got'.data = Meaning(op, contents)
  BY <1>9 DEF Answer
<1>11. \E a \in 1 .. Len(view) :
         \E b \in a + 1 .. Len(view) : \E c \in b .. Len(view) :
           /\ IsIdentifier(Take(view, a), got'.tag)
           /\ IsLength(SubSeq(view, a + 1, b), c - b)
           /\ Meaningful(op, SubSeq(view, b + 1, c))
           /\ got' = Answer(op, "ok", got'.tag, Meaning(op, SubSeq(view, b + 1, c)))
           /\ view' = Drop(view, IF op = "sequence_header" THEN b ELSE c)
  <2>1. IsLength(SubSeq(view, i + 1, m), k - m)
    BY <1>7, <1>8
  <2>2. contents = SubSeq(view, m + 1, k)
    BY DEF contents
  <2>. QED
    BY <1>1, <1>3, <1>4, <1>8, <1>9, <1>10, <2>1, <2>2
<1>12. Succeed(op)
  BY <1>2, <1>10, <1>11 DEF Succeed
<1>13. view' \in Seq(Octet)
  <2>1. m \in 0 .. Len(view) /\ k \in 0 .. Len(view)
    BY <1>1, <1>8
  <2>. QED
    BY <1>9, <2>1, TakeProperties
<1>14. AnswerOK(got')
  <2>1. /\ Meaning(op, contents) \in Seq(Int)
        /\ op \in {"integer", "enumerated"} => Meaning(op, contents) \in Seq(SWord)
    BY <1>3, MeaningType
  <2>. QED
    BY <1>4, <1>10, <2>1 DEF AnswerOK, Operations, error_code
<1>. QED
  BY <1>12, <1>13, <1>14

(* A call that fails leaves a suffix of the view and answers the error.    *)
LEMMA RefusedIsFailure ==
  ASSUME NEW op \in Elements, view \in Seq(Octet), NEW err \in element_errors,
         Refuse(op, err), \E k \in 0 .. Len(view) : view' = Drop(view, k)
  PROVE  Fail(op) /\ view' \in Seq(Octet) /\ AnswerOK(got')
<1>1. /\ got' = Answer(op, err, NULL_TAG, << >>)
      /\ got'.op = op /\ got'.err = err /\ got'.tag = NULL_TAG /\ got'.data = << >>
  BY DEF Refuse, Answer
<1>2. err # "ok" /\ err \in error_code
  BY DEF element_errors, header_errors, error_code
<1>3. op # "peek_tag" /\ op # "sequence_end" /\ op \in Operations
  BY DEF Elements, Operations
<1>4. Fail(op)
  BY <1>1, <1>2, <1>3 DEF Fail
<1>5. view' \in Seq(Octet)
  BY TakeProperties
<1>6. AnswerOK(got')
  <2>1. NULL_TAG \in Tag
    BY ElementTags
  <2>2. << >> \in Seq(Int) /\ << >> \in Seq(SWord)
    OBVIOUS
  <2>. QED
    BY <1>1, <1>2, <1>3, <2>1, <2>2 DEF AnswerOK
<1>. QED
  BY <1>4, <1>5, <1>6

(* A call that leaves the batch alone and answers with values of the right *)
(* types keeps the invariant.                                              *)
LEMMA PendingKept ==
  ASSUME IInv, view' \in Seq(Octet), AnswerOK(got'), UNCHANGED <<level, pending>>
  PROVE  IInv'
<1>1. batch_size' = batch_size
  BY DEF batch_size
<1>. QED
  BY <1>1 DEF IInv, TypeOK, AnswerOK, BatchInBounds

(* Every decoder but decode_integer takes its element and answers its      *)
(* meaning, or fails.                                                      *)
LEMMA DecodeStep ==
  ASSUME IInv, NEW op \in Elements \ {"integer"}, Decode(op)
  PROVE  IInv' /\ (Succeed(op) \/ Fail(op))
<1>. DEFINE r == ReadElement(op, view)
<1>1. view \in Seq(Octet) /\ op \in Elements
  BY DEF IInv, TypeOK
<1>2. /\ view' = r.rest /\ UNCHANGED <<level, pending>>
      /\ r.err = "ok" => got' = Answer(op, "ok", r.tag, value_of(op, r.length, r.contents))
      /\ r.err # "ok" => Refuse(op, r.err)
  BY DEF Decode
<1>3. CASE \E i \in 1 .. Len(view), j \in 1 .. Len(view) :
              ElementEnds(op, view, i, j, LengthRead(Drop(view, i), j))
  <2>1. PICK i, j : ElementEnds(op, view, i, j, LengthRead(Drop(view, i), j))
    BY <1>3
  <2>. DEFINE n        == LengthRead(Drop(view, i), j)
              contents == SubSeq(view, i + j + 1, i + j + n)
  <2>2. r = [err |-> "ok", tag |-> TagRead(view, i), length |-> n, contents |-> contents,
             rest |-> Drop(view, IF op = "sequence_header" THEN i + j ELSE i + j + n)]
    BY <1>1, <2>1, ElementReads
  <2>3. contents \in Seq(Octet) /\ Len(contents) = n /\ Meaningful(op, contents)
    BY <1>1, <2>1, ContentsMeaningful
  <2>4. value_of(op, n, contents) = Meaning(op, contents)
    <3>. HIDE DEF n, contents
    <3>. QED
      BY <2>3, ValueIsMeaning
  <2>. HIDE DEF r
  <2>5. /\ got' = Answer(op, "ok", TagRead(view, i), Meaning(op, contents))
        /\ view' = Drop(view, IF op = "sequence_header" THEN i + j ELSE i + j + n)
    BY <1>2, <2>2, <2>4
  <2>. HIDE DEF n
  <2>6. Succeed(op) /\ view' \in Seq(Octet) /\ AnswerOK(got')
    BY <1>1, <2>1, <2>5, TakenIsSuccess DEF n
  <2>. QED
    BY <1>2, <2>6, PendingKept
<1>4. CASE /\ r.err \in element_errors
           /\ \E k \in 0 .. Len(view) : r.rest = Drop(view, k)
  <2>1. r.err # "ok"
    BY <1>4 DEF element_errors, header_errors
  <2>. HIDE DEF r
  <2>2. Fail(op) /\ view' \in Seq(Octet) /\ AnswerOK(got')
    BY <1>1, <1>2, <1>4, <2>1, RefusedIsFailure
  <2>. QED
    BY <1>2, <2>2, PendingKept
<1>. QED
  BY <1>1, <1>3, <1>4, ElementCases

(* Between two calls the batch is short of full and every slot is good.    *)
LEMMA PendingIsGood ==
  ASSUME IInv
  PROVE  /\ pending \in Seq(Slot) /\ Len(pending) < batch_size /\ batch_size \in 1 .. 4
         /\ \A i \in DOMAIN pending : GoodSlot(pending[i])
<1>1. pending \in Seq(Slot)
  BY DEF IInv, TypeOK, Slot
<1>2. /\ Len(pending) < batch_size
      /\ \A i \in DOMAIN pending : /\ pending[i].size \in 1 .. WordOctets
                                   /\ Len(pending[i].value_buf) = pending[i].size
  BY DEF IInv, BatchInBounds
<1>3. batch_size \in 1 .. 4
  BY BatchSizeBounds DEF IInv, TypeOK, kMaxBatchSize
<1>4. \A i \in DOMAIN pending : pending[i] \in Slot
  BY <1>1
<1>5. \A i \in DOMAIN pending : GoodSlot(pending[i])
  BY <1>2, <1>4 DEF GoodSlot
<1>. QED
  BY <1>1, <1>2, <1>3, <1>5

(* decode_integer: the octets join the batch or the batch is emptied, and  *)
(* the answer is the value of the octets either way.                       *)
LEMMA DecodeIntegerStep ==
  ASSUME IInv, decode_integer
  PROVE  IInv' /\ (Succeed("integer") \/ Fail("integer"))
<1>. DEFINE r       == ReadElement("integer", view)
            slots   == Append(pending, DecodeSlot(r.contents))
            full    == batch_full(slots)
            answer  == IF full THEN batch_decode_integers(slots)[batch_size]
                       ELSE [err |-> "ok", value |-> decode_integer_value(r.contents)]
<1>1. /\ view \in Seq(Octet) /\ "integer" \in Elements
      /\ pending \in Seq(Slot) /\ Len(pending) < batch_size /\ batch_size \in 1 .. 4
      /\ \A i \in DOMAIN pending : GoodSlot(pending[i])
  BY PendingIsGood DEF IInv, TypeOK, Elements
<1>2. /\ view' = r.rest /\ level' = level /\ batch_size' = batch_size
      /\ r.err # "ok" => Refuse("integer", r.err) /\ UNCHANGED pending
      /\ r.err = "ok" =>
           /\ pending' = IF full THEN << >> ELSE slots
           /\ IF answer.err = "ok"
                THEN got' = Answer("integer", "ok", r.tag, <<answer.value>>)
                ELSE Refuse("integer", answer.err)
  BY DEF decode_integer, batch_size
<1>3. CASE \E i \in 1 .. Len(view), j \in 1 .. Len(view) :
              ElementEnds("integer", view, i, j, LengthRead(Drop(view, i), j))
  <2>1. PICK i, j : ElementEnds("integer", view, i, j, LengthRead(Drop(view, i), j))
    BY <1>3
  <2>. DEFINE n        == LengthRead(Drop(view, i), j)
              contents == SubSeq(view, i + j + 1, i + j + n)
              value    == decode_integer_value(contents)
  <2>2. r = [err |-> "ok", tag |-> TagRead(view, i), length |-> n, contents |-> contents,
             rest |-> Drop(view, i + j + n)]
    BY <1>1, <2>1, ElementReads
  <2>3. contents \in Seq(Octet) /\ Len(contents) = n /\ n \in 1 .. WordOctets /\ n \in Nat
    <3>1. contents \in Seq(Octet) /\ Len(contents) = n /\ Meaningful("integer", contents) /\ n \in Nat
      BY <1>1, <2>1, ContentsMeaningful
    <3>. HIDE DEF contents, n
    <3>. QED
      BY <3>1 DEF Meaningful
  <2>. DEFINE slot == DecodeSlot(contents)
  <2>4. GoodSlot(slot) /\ slot \in Slot /\ slot.value_buf = contents
    <3>. HIDE DEF contents, n
    <3>. QED
      BY <2>3 DEF GoodSlot, Slot, DecodeSlot
  <2>5. r.contents = contents /\ r.err = "ok" /\ r.tag = TagRead(view, i)
        /\ r.rest = Drop(view, i + j + n)
    BY <2>2
  <2>6. slots = Append(pending, slot)
    BY <2>5
  <2>. HIDE DEF r, contents, slot
  <2>7. /\ slots \in Seq(Slot) /\ Len(slots) = Len(pending) + 1
        /\ \A x \in 1 .. Len(pending) : slots[x] = pending[x]
        /\ slots[Len(pending) + 1] = slot
    BY <1>1, <2>4, <2>6, AppendProperties
  <2>. HIDE DEF slots
  <2>8. \A x \in DOMAIN slots : GoodSlot(slots[x])
    BY <1>1, <2>4, <2>7
  <2>9. answer = [err |-> "ok", value |-> value]
    <3>1. CASE full
      <4>1. batch_size = Len(pending) + 1 /\ batch_size \in DOMAIN slots
        BY <1>1, <2>7, <3>1 DEF batch_full
      <4>2. batch_decode_integers(slots)[batch_size] =
              [err |-> "ok", value |-> decode_integer_value(slots[batch_size].value_buf)]
        BY <2>7, <2>8, <4>1, GoodSlotsDecode
      <4>. QED
        BY <2>4, <2>7, <3>1, <4>1, <4>2
    <3>2. CASE ~ full
      BY <2>5, <3>2
    <3>. QED
      BY <3>1, <3>2
  <2>. HIDE DEF answer, full
  <2>10. got' = Answer("integer", "ok", TagRead(view, i), <<value>>)
    BY <1>2, <2>5, <2>9
  <2>11. Meaning("integer", contents) = <<value>>
    BY DEF Meaning
  <2>12. view' = Drop(view, IF "integer" = "sequence_header" THEN i + j ELSE i + j + n)
    BY <1>2, <2>5
  <2>. HIDE DEF n, value
  <2>13. Succeed("integer") /\ view' \in Seq(Octet) /\ AnswerOK(got')
    BY <1>1, <2>1, <2>10, <2>11, <2>12, TakenIsSuccess DEF n, contents
  <2>14. /\ pending' \in Seq(Slot) /\ Len(pending') < batch_size'
         /\ \A x \in DOMAIN pending' : GoodSlot(pending'[x])
    <3>1. CASE full
      BY <1>1, <1>2, <2>5, <3>1
    <3>2. CASE ~ full
      BY <1>1, <1>2, <2>5, <2>7, <2>8, <3>2 DEF full, batch_full
    <3>. QED
      BY <3>1, <3>2
  <2>15. level' \in SimdLevel /\ batch_size' <= kMaxBatchSize
    BY <1>2 DEF IInv, TypeOK, BatchInBounds
  <2>. QED
    BY <2>13, <2>14, <2>15 DEF IInv, TypeOK, AnswerOK, BatchInBounds, GoodSlot, Slot
<1>4. CASE /\ r.err \in element_errors
           /\ \E k \in 0 .. Len(view) : r.rest = Drop(view, k)
  <2>1. r.err # "ok"
    BY <1>4 DEF element_errors, header_errors
  <2>. HIDE DEF r
  <2>2. Fail("integer") /\ view' \in Seq(Octet) /\ AnswerOK(got')
    BY <1>1, <1>2, <1>4, <2>1, RefusedIsFailure
  <2>. QED
    BY <1>2, <2>1, <2>2, PendingKept
<1>. QED
  BY <1>1, <1>3, <1>4, ElementCases

(* decode_sequence_end takes the end-of-contents octets or leaves the view *)
(* alone.                                                                  *)
LEMMA SequenceEndStep ==
  ASSUME IInv, decode_sequence_end
  PROVE  IInv' /\ (End \/ Fail("sequence_end"))
<1>. DEFINE err == CASE Len(view) < 2 -> "buffer_underflow"
                     [] Len(view) >= 2 ->
                          IF view[1] # 0 \/ view[2] # 0 THEN "invalid_tag" ELSE "ok"
<1>1. view \in Seq(Octet) /\ Len(view) \in Nat
  BY DEF IInv, TypeOK
<1>2. /\ view' = IF err = "ok" THEN Drop(view, 2) ELSE view
      /\ got' = Answer("sequence_end", err, NULL_TAG, << >>)
      /\ UNCHANGED <<level, pending>>
  BY DEF decode_sequence_end, Refuse
<1>3. \/ err = "ok" /\ Len(view) >= 2 /\ view[1] = 0 /\ view[2] = 0
      \/ err \in {"buffer_underflow", "invalid_tag"}
  BY <1>1
<1>. HIDE DEF err
<1>4. got'.op = "sequence_end" /\ got'.err = err /\ got'.tag = NULL_TAG /\ got'.data = << >>
  BY <1>2 DEF Answer
<1>5. AnswerOK(got')
  <2>1. NULL_TAG \in Tag /\ << >> \in Seq(Int)
    BY ElementTags
  <2>. QED
    BY <1>3, <1>4, <2>1 DEF AnswerOK, Operations, error_code
<1>6. CASE err = "ok" /\ Len(view) >= 2 /\ view[1] = 0 /\ view[2] = 0
  <2>1. 2 \in 0 .. Len(view)
    BY <1>1, <1>6
  <2>2. Take(view, 2) \in Seq(Octet) /\ Len(Take(view, 2)) = 2 /\ Drop(view, 2) \in Seq(Octet)
        /\ \A x \in 1 .. 2 : Take(view, 2)[x] = view[x]
    BY <1>1, <2>1, TakeProperties
  <2>3. Take(view, 2) = <<0, 0>>
    <3>1. Take(view, 2)[1] = 0 /\ Take(view, 2)[2] = 0
      BY <1>6, <2>2
    <3>. QED
      BY <2>2, <3>1
  <2>4. End /\ view' \in Seq(Octet)
    BY <1>2, <1>6, <2>2, <2>3 DEF End
  <2>. QED
    BY <1>2, <1>5, <2>4, PendingKept
<1>7. CASE err \in {"buffer_underflow", "invalid_tag"}
  <2>1. view' = view /\ err # "ok"
    BY <1>2, <1>7
  <2>2. \E k \in 0 .. Len(view) : view' = Drop(view, k)
    <3>1. 0 \in 0 .. Len(view) /\ Drop(view, 0) = view
      BY <1>1, TakeAll
    <3>. QED
      BY <2>1, <3>1
  <2>3. Fail("sequence_end")
    BY <1>2, <1>4, <2>1, <2>2 DEF Fail
  <2>. QED
    BY <1>1, <1>2, <1>5, <2>1, <2>3, PendingKept
<1>. QED
  BY <1>3, <1>6, <1>7

(* peek_tag answers the tag in front and moves nothing.                    *)
LEMMA PeekTagStep ==
  ASSUME IInv, peek_tag
  PROVE  IInv' /\ (Peek \/ Fail("peek_tag"))
<1>. DEFINE t == decode_tag(view)
<1>1. view \in Seq(Octet)
  BY DEF IInv, TypeOK
<1>2. /\ t.err = "ok" => got' = Answer("peek_tag", "ok", t.tag, << >>)
      /\ t.err # "ok" => got' = Answer("peek_tag", t.err, NULL_TAG, << >>)
      /\ view' = view /\ UNCHANGED <<level, pending>>
  BY DEF peek_tag, Refuse
<1>3. CASE \E i \in 1 .. Len(view) : TagEnds(view, i)
  <2>1. PICK i \in 1 .. Len(view) : TagEnds(view, i)
    BY <1>3
  <2>2. t = [err |-> "ok", tag |-> TagRead(view, i), rest |-> Drop(view, i)]
    BY <1>1, <2>1, DecodeTagReads
  <2>3. IsIdentifier(Take(view, i), TagRead(view, i)) /\ TagRead(view, i) \in Tag
    BY <1>1, <2>1, IdentifierTaken, TagReadIsTag
  <2>. HIDE DEF t
  <2>4. got' = Answer("peek_tag", "ok", TagRead(view, i), << >>)
    BY <1>2, <2>2
  <2>5. /\ got'.op = "peek_tag" /\ got'.err = "ok" /\ got'.data = << >>
        /\ got'.tag = TagRead(view, i)
    BY <2>4 DEF Answer
  <2>6. Peek
    BY <1>2, <2>3, <2>4, <2>5 DEF Peek
  <2>7. AnswerOK(got')
    <3>1. << >> \in Seq(Int)
      OBVIOUS
    <3>. QED
      BY <2>3, <2>5, <3>1 DEF AnswerOK, Operations, error_code
  <2>. QED
    BY <1>1, <1>2, <2>6, <2>7, PendingKept
<1>4. CASE \E e \in {"buffer_underflow", "invalid_tag"} :
              t = [err |-> e, tag |-> NULL_TAG, rest |-> view]
  <2>1. PICK e \in {"buffer_underflow", "invalid_tag"} :
              t = [err |-> e, tag |-> NULL_TAG, rest |-> view]
    BY <1>4
  <2>. HIDE DEF t
  <2>2. t.err = e /\ e # "ok"
    BY <2>1
  <2>3. got' = Answer("peek_tag", e, NULL_TAG, << >>)
    BY <1>2, <2>2
  <2>4. got'.op = "peek_tag" /\ got'.err = e /\ got'.tag = NULL_TAG /\ got'.data = << >>
    BY <2>3 DEF Answer
  <2>5. \E k \in 0 .. Len(view) : view' = Drop(view, k)
    <3>1. 0 \in 0 .. Len(view) /\ Drop(view, 0) = view
      BY <1>1, TakeAll
    <3>. QED
      BY <1>2, <3>1
  <2>6. Fail("peek_tag")
    BY <1>2, <2>2, <2>3, <2>4, <2>5 DEF Fail
  <2>7. AnswerOK(got')
    <3>1. << >> \in Seq(Int) /\ NULL_TAG \in Tag
      BY ElementTags
    <3>. QED
      BY <2>1, <2>4, <3>1 DEF AnswerOK, Operations, error_code
  <2>. QED
    BY <1>1, <1>2, <2>6, <2>7, PendingKept
<1>. QED
  BY <1>1, <1>3, <1>4, DecodeTagCases

(* flush_decode empties the batch, and no slot in it has an error.         *)
LEMMA FlushStep ==
  ASSUME IInv, flush_decode
  PROVE  IInv' /\ Flush
<1>. DEFINE results == batch_decode_integers(pending)
            errors  == [i \in DOMAIN results |-> results[i].err]
<1>1. pending \in Seq(Slot) /\ \A i \in DOMAIN pending : GoodSlot(pending[i])
  BY PendingIsGood
<1>2. DOMAIN results = DOMAIN pending
  BY DEF batch_decode_integers
<1>3. ASSUME NEW i \in DOMAIN pending
      PROVE  results[i].err = "ok"
  <2>1. results[i] = [err |-> "ok", value |-> decode_integer_value(pending[i].value_buf)]
    BY <1>1, GoodSlotsDecode
  <2>. QED
    BY <2>1
<1>. HIDE DEF results
<1>4. \A i \in DOMAIN errors : errors[i] = "ok"
  BY <1>2, <1>3
<1>. HIDE DEF errors
<1>5. first_error(errors) = "ok"
  BY <1>4 DEF first_error
<1>6. got' = NoAnswer /\ pending' = << >> /\ UNCHANGED <<view, level>>
  BY <1>5 DEF flush_decode, NoAnswer, Answer, results, errors
<1>7. AnswerOK(NoAnswer)
  BY ElementTags DEF AnswerOK, NoAnswer, Answer, error_code
<1>8. batch_size' = batch_size /\ batch_size \in 1 .. 4
  BY <1>6, BatchSizeBounds DEF batch_size, IInv, TypeOK, kMaxBatchSize
<1>. QED
  BY <1>6, <1>7, <1>8
     DEF IInv, TypeOK, AnswerOK, BatchInBounds, Flush, kMaxBatchSize

(* A new message finds the batch as the old one left it.                   *)
LEMMA NextMessageStep ==
  ASSUME IInv, next_message
  PROVE  IInv' /\ NewMessage
<1>1. view' \in Messages /\ got' = NoAnswer /\ UNCHANGED <<level, pending>> /\ NewMessage
  BY DEF next_message, NewMessage
<1>2. view' \in Seq(Octet)
  BY <1>1, ReaderAssumption
<1>3. AnswerOK(NoAnswer)
  BY ElementTags DEF AnswerOK, NoAnswer, Answer, error_code
<1>. QED
  BY <1>1, <1>2, <1>3, PendingKept

-----------------------------------------------------------------------------
(* A new decoder has an empty batch.                                       *)
LEMMA InitIInv == BerInit => IInv
<1>. SUFFICES ASSUME BerInit PROVE IInv
  OBVIOUS
<1>1. level \in SimdLevel /\ pending = << >> /\ view \in Seq(Octet) /\ got = NoAnswer
  BY ReaderAssumption DEF BerInit, ReaderInit
<1>2. AnswerOK(NoAnswer)
  BY ElementTags DEF AnswerOK, NoAnswer, Answer, error_code
<1>3. batch_size \in 1 .. 4
  BY <1>1, BatchSizeBounds DEF kMaxBatchSize
<1>. QED
  BY <1>1, <1>2, <1>3 DEF IInv, TypeOK, AnswerOK, BatchInBounds, kMaxBatchSize

(* Every step keeps the invariant and is a step of the unbatched reader.   *)
LEMMA StepIInv == IInv /\ [BerNext]_vars => IInv' /\ [ReaderNext]_reader_vars
<1>. SUFFICES ASSUME IInv, [BerNext]_vars
              PROVE  IInv' /\ [ReaderNext]_reader_vars
  OBVIOUS
<1>1. ASSUME NEW op \in Elements \ {"integer"}, Decode(op)
      PROVE  IInv' /\ [ReaderNext]_reader_vars
  <2>1. op \in Operations
    BY DEF Operations
  <2>. QED
    BY <1>1, <2>1, DecodeStep DEF ReaderNext
<1>2. CASE decode_integer
  <2>1. "integer" \in Elements /\ "integer" \in Operations
    BY DEF Elements, Operations
  <2>. QED
    BY <1>2, <2>1, DecodeIntegerStep DEF ReaderNext
<1>3. CASE decode_sequence_end
  <2>1. "sequence_end" \in Operations
    BY DEF Operations
  <2>. QED
    BY <1>3, <2>1, SequenceEndStep DEF ReaderNext
<1>4. CASE peek_tag
  <2>1. "peek_tag" \in Operations
    BY DEF Operations
  <2>. QED
    BY <1>4, <2>1, PeekTagStep DEF ReaderNext
<1>5. CASE flush_decode
  BY <1>5, FlushStep DEF ReaderNext
<1>6. CASE next_message
  BY <1>6, NextMessageStep DEF ReaderNext
<1>7. CASE UNCHANGED vars
  <2>1. UNCHANGED <<view, got, level, pending>>
    BY <1>7 DEF vars
  <2>2. UNCHANGED reader_vars /\ view' \in Seq(Octet) /\ AnswerOK(got')
    BY <2>1 DEF reader_vars, IInv, TypeOK, AnswerOK
  <2>. QED
    BY <2>1, <2>2, PendingKept
<1>8. \A op \in {"enumerated", "boolean", "null", "octet_string", "bit_string", "oid",
                 "sequence_header", "tlv", "skip_tlv"} : op \in Elements \ {"integer"}
  BY DEF Elements
<1>. QED
  BY <1>1, <1>2, <1>3, <1>4, <1>5, <1>6, <1>7, <1>8
     DEF BerNext, decode_enumerated, decode_boolean, decode_null, decode_octet_string,
         decode_bit_string, decode_oid, decode_sequence_header, read_tlv, skip_tlv

(* Every reachable state of ber_decoder satisfies the inductive invariant. *)
THEOREM DecoderInvariant == BerSpec => []IInv
<1>1. BerInit => IInv
  BY InitIInv
<1>2. IInv /\ [BerNext]_vars => IInv'
  BY StepIInv
<1>. QED
  BY <1>1, <1>2, PTL DEF BerSpec

(* The variables of ber_decoder keep their types: a decoded INTEGER or     *)
(* ENUMERATED is an int64_t whatever octets it was read from.              *)
THEOREM DecoderTypeCorrect == BerSpec => []TypeOK
<1>1. IInv => TypeOK
  BY DEF IInv
<1>. QED
  BY <1>1, DecoderInvariant, PTL

(* push is never called on a full batch and no memcpy leaves its           *)
(* value_buf: the preconditions decode_integer does not check always hold. *)
THEOREM DecoderBatchInBounds == BerSpec => []BatchInBounds
<1>1. IInv => BatchInBounds
  BY DEF IInv
<1>. QED
  BY <1>1, DecoderInvariant, PTL

(* ber_decoder implements the unbatched reader: a call that succeeds took  *)
(* a well-formed element and answered what its octets mean, for every SIMD *)
(* level and every sequence of calls, failed ones included.                *)
THEOREM DecoderReadsWhatIsThere == BerSpec => ReadsWhatIsThere
<1>1. BerInit => ReaderInit
  BY DEF BerInit
<1>2. IInv /\ [BerNext]_vars => [ReaderNext]_reader_vars
  BY StepIInv
<1>. QED
  BY <1>1, <1>2, DecoderInvariant, PTL DEF BerSpec, ReadsWhatIsThere, ReaderSpec
=============================================================================
