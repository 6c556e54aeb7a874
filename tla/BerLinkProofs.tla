--------------------------- MODULE BerLinkProofs ---------------------------
(***************************************************************************)
(* What one ber_encoder writes, one ber_decoder reads: InStep and          *)
(* RoundTrip of BerLink hold for every set of well-formed messages.        *)
(*                                                                         *)
(* The argument: the octets written so far are those of the calls sent,    *)
(* and the octets in the view, completed by some more if the message was   *)
(* cut, are those of the calls expected.  A read of a complete element     *)
(* answers what was encoded (ElementRoundTrip, IntegerRoundTrip); a read   *)
(* that succeeds on a beginning of a message answers what it would have    *)
(* answered on the whole (ElementWithMore).  The batches need no more than *)
(* their types: each call looks only at the slot it pushed itself.         *)
(***************************************************************************)
EXTENDS BerLink, OctetTheorems

-----------------------------------------------------------------------------
(* BerLink uses the operators of its two instances; their definitions are  *)
(* those of Word, Tlv and BerElement, which the library lemmas are about.  *)

(* The operators the encoder writes octets with are those of Word and Tlv. *)
LEMMA EncoderOctets ==
  /\ \A n : Enc!cont_count(n) = cont_count(n)
  /\ \A v, n : Enc!Octets(v, n) = Octets(v, n)
  /\ \A n : Enc!length_octets(n) = length_octets(n)
<1>1. Enc!Group = Group
  BY DEF Enc!Group, Group
<1>2. \A S : Enc!Min(S) = Min(S)
  BY DEF Enc!Min, Min
<1>. QED
  BY <1>1, <1>2 DEF Enc!cont_count, cont_count, Enc!Octets, Octets, Enc!length_octets, length_octets

(* So are those it writes identifier and length octets with,               *)
LEMMA EncoderHeaders ==
  /\ \A t : Enc!encode_tag(t) = encode_tag(t)
  /\ \A n : Enc!encode_length(n) = encode_length(n)
<1>1. ASSUME NEW t PROVE Enc!encode_tag(t) = encode_tag(t)
  <2>1. Enc!Group = Group
    BY DEF Enc!Group, Group
  <2>. QED
    BY <2>1, EncoderOctets DEF Enc!encode_tag, encode_tag
<1>2. ASSUME NEW n PROVE Enc!encode_length(n) = encode_length(n)
  BY EncoderOctets DEF Enc!encode_length, encode_length
<1>. QED
  BY <1>1, <1>2

(* those it writes whole elements with,                                    *)
LEMMA EncoderElements ==
  /\ \A t, c : Enc!encode_tlv(t, c) = encode_tlv(t, c)
  /\ Enc!encode_end_of_content = <<0, 0>>
BY EncoderHeaders DEF Enc!encode_tlv, encode_tlv, Enc!encode_end_of_content

(* and those it writes integers with.                                      *)
LEMMA EncoderIntegers ==
  /\ \A v : Enc!encoded_integer_size(v) = encoded_integer_size(v)
  /\ \A v : Enc!encode_integer_bytes(v) = encode_integer_bytes(v)
  /\ \A v, n : Enc!Fits(v, n) = Fits(v, n)
  /\ \A v : Enc!Shortest(v) = Octets(v, ShortestSize(v))
<1>1. \A S : Enc!Min(S) = Min(S)
  BY DEF Enc!Min, Min
<1>2. ASSUME NEW v, NEW m PROVE Enc!SignOnlyAbove(v, m) = SignOnlyAbove(v, m)
  BY DEF Enc!SignOnlyAbove, SignOnlyAbove
<1>3. ASSUME NEW v PROVE Enc!meaningful(v) = meaningful(v)
  BY <1>1, <1>2 DEF Enc!meaningful, meaningful
<1>4. ASSUME NEW v PROVE Enc!needs_extra(v) = needs_extra(v)
  BY <1>3 DEF Enc!needs_extra, needs_extra
<1>5. ASSUME NEW v PROVE Enc!encoded_integer_size(v) = encoded_integer_size(v)
  BY <1>3, <1>4 DEF Enc!encoded_integer_size, encoded_integer_size
<1>6. ASSUME NEW v, NEW n PROVE Enc!Fits(v, n) = Fits(v, n)
  BY DEF Enc!Fits, Fits
<1>7. ASSUME NEW v PROVE Enc!ShortestSize(v) = ShortestSize(v)
  BY <1>1, <1>6 DEF Enc!ShortestSize, ShortestSize
<1>. QED
  BY <1>5, <1>6, <1>7, EncoderOctets DEF Enc!encode_integer_bytes, encode_integer_bytes, Enc!Shortest

(* The operators the decoder reads identifier octets with are those of Tlv. *)
LEMMA DecoderTags ==
  /\ \A v, n : Dec!Take(v, n) = Take(v, n) /\ Dec!Drop(v, n) = Drop(v, n)
  /\ \A v : Dec!decode_tag(v) = decode_tag(v)
  /\ Dec!NULL_TAG = NULL_TAG
<1>1. \A S : Dec!Min(S) = Min(S)
  BY DEF Dec!Min, Min
<1>2. ASSUME NEW s PROVE Dec!Groups(s) = Groups(s)
  BY DEF Dec!Groups, Groups
<1>3. ASSUME NEW v, NEW n PROVE Dec!Take(v, n) = Take(v, n) /\ Dec!Drop(v, n) = Drop(v, n)
  BY DEF Dec!Take, Take, Dec!Drop, Drop
<1>4. Dec!NULL_TAG = NULL_TAG
  BY DEF Dec!NULL_TAG, NULL_TAG, Dec!make_universal, make_universal
<1>5. ASSUME NEW v PROVE Dec!decode_tag(v) = decode_tag(v)
  <2>1. CASE v = << >>
    BY <2>1, <1>1, <1>2, <1>3, <1>4, SMT DEF Dec!decode_tag, decode_tag
  <2>2. CASE v # << >> /\ v[1] % 32 # 31
    BY <2>2, <1>1, <1>2, <1>3, <1>4, SMT DEF Dec!decode_tag, decode_tag
  <2>3. CASE v # << >> /\ v[1] % 32 = 31
    BY <2>3, <1>1, <1>2, <1>3, <1>4, SMT DEF Dec!decode_tag, decode_tag
  <2>. QED
    BY <2>1, <2>2, <2>3
<1>. QED
  BY <1>3, <1>4, <1>5

(* So are those it reads length octets with,                               *)
LEMMA DecoderLengths ==
  /\ \A v : Dec!Unsigned(v) = Unsigned(v)
  /\ \A v : Dec!Negative(v) = Negative(v)
  /\ \A v : Dec!decode_length(v) = decode_length(v)
<1>1. \A v : Dec!Unsigned(v) = Unsigned(v)
  BY DEF Dec!Unsigned, Unsigned
<1>2. \A v : Dec!Negative(v) = Negative(v)
  BY DEF Dec!Negative, Negative
<1>3. Dec!INDEFINITE_LENGTH = INDEFINITE_LENGTH
  BY DEF Dec!INDEFINITE_LENGTH, INDEFINITE_LENGTH
<1>4. ASSUME NEW v PROVE Dec!decode_length(v) = decode_length(v)
  BY <1>1, <1>3, DecoderTags, SMT DEF Dec!decode_length, decode_length
<1>. QED
  BY <1>1, <1>2, <1>4

(* those it reads whole elements with,                                     *)
LEMMA DecoderElements ==
  /\ Dec!Tag = Tag /\ Dec!Elements = Elements
  /\ \A op \in Elements : Dec!accept(op) = accept(op)
  /\ \A op \in Elements : \A v : Dec!ReadElement(op, v) = ReadElement(op, v)
<1>1. Dec!Tag = Tag /\ Dec!Elements = Elements /\ Dec!ConstructedTag = ConstructedTag
  BY DEF Dec!Tag, Tag, Dec!Elements, Elements, Dec!ConstructedTag, ConstructedTag
<1>2. ASSUME NEW op \in Elements PROVE Dec!accept(op) = accept(op)
  <2>1. \A n : Dec!make_universal(n) = make_universal(n)
    BY DEF Dec!make_universal, make_universal
  <2>. QED
    BY <1>1, <2>1, SMT DEF Dec!accept, accept, Elements,
      Dec!INTEGER_TAG, INTEGER_TAG, Dec!ENUMERATED_TAG, ENUMERATED_TAG, Dec!BOOLEAN_TAG, BOOLEAN_TAG,
      Dec!NULL_TAG, NULL_TAG, Dec!OCTET_STRING_TAG, OCTET_STRING_TAG, Dec!BIT_STRING_TAG, BIT_STRING_TAG,
      Dec!OID_TAG, OID_TAG
<1>3. ASSUME NEW op \in Elements, NEW n, NEW rest
      PROVE  Dec!contents_error(op, n, rest) = contents_error(op, n, rest)
  <2>1. Dec!too_wide(n) = too_wide(n)
    BY DEF Dec!too_wide, too_wide
  <2>2. CASE op \in {"integer", "enumerated"}
    BY <2>1, <2>2, SMT DEF Dec!contents_error, contents_error
  <2>3. CASE op = "boolean"
    BY <2>1, <2>3, SMT DEF Dec!contents_error, contents_error
  <2>4. CASE op = "null"
    BY <2>1, <2>4, SMT DEF Dec!contents_error, contents_error
  <2>5. CASE op = "bit_string"
    BY <2>1, <2>5, SMT DEF Dec!contents_error, contents_error
  <2>6. CASE op \in {"octet_string", "oid", "sequence_header", "tlv", "skip_tlv"}
    BY <2>1, <2>6, SMT DEF Dec!contents_error, contents_error
  <2>. QED
    BY <2>2, <2>3, <2>4, <2>5, <2>6 DEF Elements
<1>4. ASSUME NEW t, NEW v, NEW A PROVE Dec!AfterTag(t, v, A) = AfterTag(t, v, A)
  BY DecoderLengths, SMT DEF Dec!AfterTag, AfterTag, Dec!WithLength, WithLength
<1>5. ASSUME NEW v, NEW A PROVE Dec!ReadHeader(v, A) = ReadHeader(v, A)
  BY <1>4, DecoderTags DEF Dec!ReadHeader, ReadHeader
<1>6. ASSUME NEW op \in Elements, NEW h PROVE Dec!AfterHeader(op, h) = AfterHeader(op, h)
  BY <1>3, DecoderTags, SMT DEF Dec!AfterHeader, AfterHeader
<1>7. ASSUME NEW op \in Elements, NEW v PROVE Dec!ReadElement(op, v) = ReadElement(op, v)
  BY <1>2, <1>5, <1>6 DEF Dec!ReadElement, ReadElement
<1>. QED
  BY <1>1, <1>2, <1>7

(* and the one it reads integers with.                                     *)
LEMMA DecoderValues == \A v : Dec!decode_integer_value(v) = decode_integer_value(v)
BY DecoderLengths DEF Dec!decode_integer_value, decode_integer_value

-----------------------------------------------------------------------------
(* The calls an application can make, and the contents of their elements.  *)
GoodCall == {call \in AnyCall : WellTyped(call)}

CallContents(call) ==
  IF call.op \in {"integer", "enumerated"} THEN encode_integer_bytes(call.data[1]) ELSE call.data

(* Every tag an operation accepts is one a tag_t can hold.                 *)
LEMMA AcceptedTags == \A op \in Elements : accept(op) \subseteq Tag
<1>1. ConstructedTag \subseteq Tag
  BY DEF ConstructedTag, Tag
<1>. SUFFICES ASSUME NEW op \in Elements PROVE accept(op) \subseteq Tag
  OBVIOUS
<1>2. CASE op \in {"integer", "enumerated", "boolean"}
  BY <1>2, ElementTags, SMT DEF accept
<1>3. CASE op \in {"null", "octet_string", "bit_string", "oid"}
  BY <1>3, ElementTags, SMT DEF accept
<1>4. CASE op \in {"sequence_header", "tlv", "skip_tlv"}
  BY <1>1, <1>4, SMT DEF accept
<1>. QED
  BY <1>2, <1>3, <1>4 DEF Elements

(* A call that is no SEQUENCE header and no end writes one whole element.  *)
LEMMA PieceIsElement ==
  ASSUME NEW call \in GoodCall, call.op \notin {"sequence_header", "sequence_end"}
  PROVE  /\ call.op \in Elements \ {"sequence_header", "skip_tlv"}
         /\ call.tag \in Tag /\ call.tag \in accept(call.op)
         /\ CallContents(call) \in Seq(Octet) /\ Len(CallContents(call)) \in UWord
         /\ Enc!Piece(call) = encode_tlv(call.tag, CallContents(call))
<1>1. /\ call.op \in Elements \ {"sequence_header", "skip_tlv"} /\ call.tag \in Tag
      /\ call.tag \in accept(call.op)
  BY AcceptedTags DEF GoodCall, AnyCall, WellTyped
<1>2. CASE call.op \in {"integer", "enumerated"}
  <2>1. call.data[1] \in SWord
    BY <1>2 DEF GoodCall, WellTyped
  <2>2. Enc!Piece(call) = encode_tlv(call.tag, encode_integer_bytes(call.data[1]))
    BY <1>2, <2>1, IntegerOctets, EncoderIntegers, EncoderElements, SMT DEF Enc!Piece
  <2>. QED
    BY <1>1, <1>2, <2>1, <2>2, IntegerOctets DEF CallContents
<1>3. CASE call.op \in {"boolean", "null", "octet_string", "bit_string", "oid", "tlv"}
  <2>1. Enc!Piece(call) = encode_tlv(call.tag, call.data)
    BY <1>3, EncoderElements, SMT DEF Enc!Piece
  <2>2. call.data \in Seq(Octet) /\ Len(call.data) \in UWord
    <3>1. CASE call.op = "boolean"
      <4>1. 0 \in Octet /\ 255 \in Octet /\ 1 \in UWord
        BY SmallLengths DEF Octet
      <4>2. \A o \in Octet : <<o>> \in Seq(Octet) /\ Len(<<o>>) = 1
        OBVIOUS
      <4>3. call.data = <<0>> \/ call.data = <<255>>
        BY <3>1 DEF GoodCall, WellTyped
      <4>. QED
        BY <4>1, <4>2, <4>3
    <3>2. CASE call.op = "null"
      <4>1. call.data = << >>
        BY <3>2 DEF GoodCall, WellTyped
      <4>2. 0 \in UWord
        BY SmallLengths
      <4>. QED
        BY <4>1, <4>2, EmptySeq
    <3>3. CASE call.op \in {"octet_string", "bit_string", "oid", "tlv"}
      BY <3>3 DEF GoodCall, WellTyped
    <3>. QED
      BY <1>3, <3>1, <3>2, <3>3
  <2>3. CallContents(call) = call.data
    BY <1>3 DEF CallContents
  <2>. QED
    BY <1>1, <2>1, <2>2, <2>3
<1>. QED
  BY <1>1, <1>2, <1>3 DEF Elements

(* A SEQUENCE header is written without the contents it announces.         *)
LEMMA PieceOfHeader ==
  ASSUME NEW call \in GoodCall, call.op = "sequence_header"
  PROVE  /\ call.tag \in ConstructedTag /\ call.tag \in Tag /\ call.data[1] \in UWord
         /\ call.data = <<call.data[1]>>
         /\ Enc!Piece(call) = encode_tag(call.tag) \o encode_length(call.data[1])
<1>1. call.tag \in accept("sequence_header") /\ call.tag \in Tag /\ call.data \in Seq(Int)
      /\ Len(call.data) = 1 /\ call.data[1] \in UWord
  BY DEF GoodCall, WellTyped, AnyCall
<1>2. accept("sequence_header") = ConstructedTag
  BY SMT DEF accept
<1>3. Enc!Piece(call) = encode_tag(call.tag) \o encode_length(call.data[1])
  BY EncoderHeaders, SMT DEF Enc!Piece
<1>. QED
  BY <1>1, <1>2, <1>3

(* The end of contents is two zero octets.                                 *)
LEMMA PieceOfEnd ==
  ASSUME NEW call \in GoodCall, call.op = "sequence_end"
  PROVE  Enc!Piece(call) = <<0, 0>> /\ call.data = << >>
BY EncoderElements, SMT DEF Enc!Piece, GoodCall, WellTyped

(* What a call writes are octets.                                          *)
LEMMA PieceOctets ==
  ASSUME NEW call \in GoodCall
  PROVE  Enc!Piece(call) \in Seq(Octet)
<1>1. CASE call.op = "sequence_header"
  BY <1>1, PieceOfHeader, HeaderOctets
<1>2. CASE call.op = "sequence_end"
  <2>1. 0 \in Octet
    BY DEF Octet
  <2>2. \A o \in Octet : <<o, o>> \in Seq(Octet)
    OBVIOUS
  <2>. QED
    BY <1>2, <2>1, <2>2, PieceOfEnd
<1>3. CASE call.op \notin {"sequence_header", "sequence_end"}
  BY <1>3, PieceIsElement, EncodeTlvOctets
<1>. QED
  BY <1>1, <1>2, <1>3

(* A decoder that reads, or passes over, what the call wrote finds its tag *)
(* and its contents, whatever follows.                                     *)
LEMMA CallReads ==
  ASSUME NEW call \in GoodCall, NEW op, op = call.op \/ op = "skip_tlv",
         call.op \notin {"sequence_header", "sequence_end"}, NEW rest \in Seq(Octet)
  PROVE  /\ op \in Elements
         /\ ReadElement(op, Enc!Piece(call) \o rest) =
              [err |-> "ok", tag |-> call.tag, length |-> Len(CallContents(call)),
               contents |-> CallContents(call), rest |-> rest]
<1>. DEFINE contents == CallContents(call)
            n        == Len(contents)
<1>1. /\ call.op \in Elements \ {"sequence_header", "skip_tlv"} /\ call.tag \in Tag
      /\ call.tag \in accept(call.op)
      /\ contents \in Seq(Octet) /\ n \in UWord
      /\ Enc!Piece(call) = encode_tlv(call.tag, contents)
  BY PieceIsElement
<1>2. op \in Elements \ {"sequence_header"} /\ call.tag \in accept(op)
  BY <1>1, SMT DEF Elements, accept
<1>3. n \in Nat /\ n <= Len(contents \o rest) /\ contents \o rest \in Seq(Octet)
      /\ Len(contents \o rest) \in Nat
      /\ (n >= 1 => (contents \o rest)[1] = contents[1] /\ contents \o rest # << >>)
  <2>. DEFINE all == contents \o rest
  <2>1. /\ all \in Seq(Octet) /\ Len(all) = n + Len(rest) /\ n \in Nat /\ Len(rest) \in Nat
        /\ \A x \in 1 .. n + Len(rest) : all[x] = IF x <= n THEN contents[x] ELSE rest[x - n]
    BY <1>1, ConcatProperties, LenProperties
  <2>. HIDE DEF all, n
  <2>2. n >= 1 => 1 \in 1 .. n + Len(rest)
    BY <2>1
  <2>3. n >= 1 => all[1] = contents[1] /\ all # << >>
    BY <2>1, <2>2, EmptySeq
  <2>. QED
    BY <2>1, <2>3 DEF all
<1>4. /\ call.op \in {"integer", "enumerated"} => n \in 1 .. WordOctets
      /\ call.op = "boolean" => n = 1
      /\ call.op = "null" => n = 0
      /\ call.op = "bit_string" => n >= 1 /\ contents[1] <= 7
  <2>1. CASE call.op \in {"integer", "enumerated"}
    <3>1. call.data[1] \in SWord /\ contents = encode_integer_bytes(call.data[1])
      BY <2>1 DEF GoodCall, WellTyped, CallContents
    <3>2. encoded_integer_size(call.data[1]) \in 1 .. WordOctets
      BY <3>1, EncodedSizeFits
    <3>3. n = encoded_integer_size(call.data[1])
      BY <3>1, <3>2, OctetsAreOctets DEF encode_integer_bytes, SWord
    <3>. QED
      BY <2>1, <3>2, <3>3
  <2>2. CASE call.op \notin {"integer", "enumerated"}
    <3>1. contents = call.data
      BY <2>2 DEF CallContents
    <3>2. call.op = "boolean" => n = 1
      BY <3>1 DEF GoodCall, WellTyped
    <3>3. call.op = "null" => n = 0
      BY <3>1 DEF GoodCall, WellTyped
    <3>4. call.op = "bit_string" => n >= 1 /\ contents[1] <= 7
      BY <1>1, <3>1, EmptySeq DEF GoodCall, WellTyped
    <3>. QED
      BY <2>2, <3>2, <3>3, <3>4
  <2>. QED
    BY <2>1, <2>2
<1>. HIDE DEF n, contents
<1>. DEFINE all == contents \o rest
<1>5. contents_error(op, n, all) = "ok"
  <2>1. /\ n \in Nat /\ n <= Len(all) /\ Len(all) \in Nat
        /\ (n >= 1 => all[1] = contents[1] /\ all # << >>)
    BY <1>3 DEF n
  <2>7. WordOctets \in Nat
    BY WordAssumption
  <2>. HIDE DEF all
  <2>2. CASE op \in {"integer", "enumerated"}
    <3>1. n \in 1 .. WordOctets
      BY <1>4, <2>2
    <3>2. n # 0 /\ ~ (Len(all) < n) /\ Len(all) >= n /\ ~ (n > WordOctets)
      BY <2>1, <2>7, <3>1
    <3>. QED
      BY <2>2, <3>2, SMT DEF contents_error, too_wide
  <2>3. CASE op = "boolean"
    BY <1>4, <2>1, <2>3, SMT DEF contents_error
  <2>4. CASE op = "null"
    BY <1>4, <2>1, <2>4, SMT DEF contents_error
  <2>5. CASE op = "bit_string"
    <3>1. n >= 1 /\ contents[1] <= 7
      BY <1>4, <2>5
    <3>2. contents[1] \in Nat
      <4>1. 1 \in 1 .. Len(contents)
        BY <2>1, <3>1 DEF n
      <4>. QED
        BY <1>1, <4>1, ElementOfSeq, OctetIsNat
    <3>3. ~ (Len(all) < n) /\ Len(all) >= n /\ ~ (n < 1) /\ ~ (all[1] > 7)
      BY <2>1, <3>1, <3>2
    <3>. QED
      BY <2>5, <3>3, SMT DEF contents_error
  <2>6. CASE op \in {"octet_string", "oid", "tlv", "skip_tlv"}
    BY <2>1, <2>6, SMT DEF contents_error
  <2>. QED
    BY <1>2, <2>2, <2>3, <2>4, <2>5, <2>6 DEF Elements
<1>6. ReadElement(op, encode_tlv(call.tag, contents) \o rest) =
           [err |-> "ok", tag |-> call.tag, length |-> n, contents |-> contents,
            rest |-> IF op = "sequence_header" THEN contents \o rest ELSE rest]
  BY <1>1, <1>2, <1>5, ElementRoundTrip DEF n, all
<1>. QED
  BY <1>1, <1>2, <1>6 DEF contents, n

-----------------------------------------------------------------------------
(* Wire exists: the octets of longer and longer beginnings of the calls.   *)
(* (Least counterexample: no induction theorem can be instantiated here.)  *)
LEMMA WireRecursion ==
  ASSUME NEW calls \in Seq(GoodCall)
  PROVE  \E upto \in [0 .. Len(calls) -> Seq(Octet)] :
           /\ upto[0] = << >>
           /\ \A i \in 1 .. Len(calls) : upto[i] = upto[i - 1] \o Enc!Piece(calls[i])
           /\ Wire(calls) = upto[Len(calls)]
<1>. DEFINE Joins(f, n) == f = [i \in 0 .. n |-> IF i = 0 THEN << >> ELSE f[i - 1] \o Enc!Piece(calls[i])]
            Bad == {n \in 0 .. Len(calls) : ~ \E f : Joins(f, n)}
            up  == CHOOSE f : Joins(f, Len(calls))
<1>0. Len(calls) \in Nat
  BY LenProperties
<1>1. Bad = {}
  <2>. SUFFICES ASSUME Bad # {} PROVE FALSE
    OBVIOUS
  <2>1. Bad \in SUBSET Nat
    <3>1. 0 .. Len(calls) \in SUBSET Nat
      BY <1>0
    <3>. QED
      BY <3>1
  <2>2. PICK m \in Bad : \A y \in Bad : m <= y
    BY <2>1, MinIsLeast
  <2>3. CASE m = 0
    <3>1. Joins([i \in 0 .. 0 |-> << >>], 0)
      OBVIOUS
    <3>. QED
      BY <2>2, <2>3, <3>1
  <2>4. CASE m # 0
    <3>0. m \in 1 .. Len(calls)
      BY <1>0, <2>4
    <3>. HIDE DEF Bad
    <3>1. m - 1 \in 0 .. Len(calls) /\ m - 1 \notin Bad
      BY <1>0, <2>2, <3>0
    <3>. USE DEF Bad
    <3>2. PICK g : Joins(g, m - 1)
      BY <3>1
    <3>. DEFINE h == [i \in 0 .. m |-> IF i < m THEN g[i] ELSE g[m - 1] \o Enc!Piece(calls[m])]
    <3>3. Joins(h, m)
      <4>1. m \in Nat \ {0}
        BY <1>0, <2>4
      <4>2. ASSUME NEW i \in 0 .. m
            PROVE  h[i] = IF i = 0 THEN << >> ELSE h[i - 1] \o Enc!Piece(calls[i])
        <5>1. CASE i < m
          <6>1. i \in 0 .. m - 1 /\ (i # 0 => i - 1 \in 0 .. m - 1 /\ i - 1 \in 0 .. m /\ i - 1 < m)
            BY <4>1, <5>1
          <6>2. g[i] = IF i = 0 THEN << >> ELSE g[i - 1] \o Enc!Piece(calls[i])
            BY <3>2, <6>1
          <6>. QED
            BY <5>1, <6>1, <6>2
        <5>2. CASE i = m
          <6>1. m - 1 \in 0 .. m /\ m - 1 < m /\ m # 0 /\ m \in 0 .. m /\ ~ (m < m)
            BY <4>1
          <6>2. h[m - 1] = g[m - 1] /\ h[m] = g[m - 1] \o Enc!Piece(calls[m])
            BY <6>1
          <6>. HIDE DEF h
          <6>. QED
            BY <5>2, <6>1, <6>2
        <5>. QED
          BY <4>1, <5>1, <5>2
      <4>. QED
        BY <4>2
    <3>. QED
      BY <2>2, <3>3
  <2>. QED
    BY <2>3, <2>4
<1>2. Joins(up, Len(calls))
  <2>1. Len(calls) \in 0 .. Len(calls)
    BY <1>0
  <2>. QED
    BY <1>1, <2>1
<1>3. Wire(calls) = up[Len(calls)]
  BY DEF Wire
<1>. HIDE DEF up
<1>4. up[0] = << >> /\ \A i \in 1 .. Len(calls) : up[i] = up[i - 1] \o Enc!Piece(calls[i])
  BY <1>0, <1>2
<1>5. up \in [0 .. Len(calls) -> Seq(Octet)]
  <2>. DEFINE Off == {i \in 0 .. Len(calls) : up[i] \notin Seq(Octet)}
  <2>1. Off = {}
    <3>. SUFFICES ASSUME Off # {} PROVE FALSE
      OBVIOUS
    <3>1. PICK m \in Off : \A y \in Off : m <= y
      <4>1. Off \in SUBSET Nat
        BY <1>0
      <4>. QED
        BY <4>1, MinIsLeast
    <3>0. up[m] \notin Seq(Octet) /\ m \in 0 .. Len(calls)
      OBVIOUS
    <3>2. m \in 1 .. Len(calls)
      <4>1. up[0] \in Seq(Octet)
        BY <1>4, EmptySeq
      <4>2. m # 0
        BY <3>0, <4>1
      <4>. QED
        BY <1>0, <3>0, <4>2
    <3>3. m - 1 \in 0 .. Len(calls) /\ m - 1 \notin Off
      BY <1>0, <3>1, <3>2
    <3>4. up[m] = up[m - 1] \o Enc!Piece(calls[m]) /\ Enc!Piece(calls[m]) \in Seq(Octet)
      BY <1>4, <3>2, ElementOfSeq, PieceOctets
    <3>5. up[m - 1] \in Seq(Octet)
      BY <3>3
    <3>. QED
      BY <3>0, <3>4, <3>5, ConcatProperties
  <2>. QED
    BY <1>2, <2>1
<1>. QED
  BY <1>3, <1>4, <1>5

(* The octets of a message are octets.                                     *)
LEMMA WireOctets ==
  ASSUME NEW calls \in Seq(GoodCall)
  PROVE  Wire(calls) \in Seq(Octet)
<1>1. Len(calls) \in 0 .. Len(calls)
  BY LenProperties
<1>2. PICK upto \in [0 .. Len(calls) -> Seq(Octet)] : Wire(calls) = upto[Len(calls)]
  BY WireRecursion
<1>. QED
  BY <1>1, <1>2

(* No calls, no octets.                                                    *)
LEMMA WireEmpty == Wire(<< >>) = << >>
<1>1. ASSUME NEW calls \in Seq(GoodCall), Len(calls) = 0
      PROVE  Wire(calls) = << >>
  BY <1>1, WireRecursion
<1>2. << >> \in Seq(GoodCall) /\ Len(<< >>) = 0
  BY EmptySeq
<1>. QED
  BY <1>1, <1>2

(* One call more appends what it writes: the writer's view of a message.   *)
LEMMA WireAppend ==
  ASSUME NEW calls \in Seq(GoodCall), NEW call \in GoodCall
  PROVE  Wire(Append(calls, call)) = Wire(calls) \o Enc!Piece(call)
<1>. DEFINE s == Append(calls, call)
            n == Len(calls)
<1>1. /\ s \in Seq(GoodCall) /\ Len(s) = n + 1 /\ s[n + 1] = call
      /\ \A i \in 1 .. n : s[i] = calls[i]
      /\ n \in Nat
  BY AppendProperties, LenProperties
<1>. HIDE DEF s
<1>2. PICK f \in [0 .. Len(s) -> Seq(Octet)] :
           /\ f[0] = << >>
           /\ \A i \in 1 .. Len(s) : f[i] = f[i - 1] \o Enc!Piece(s[i])
           /\ Wire(s) = f[Len(s)]
  BY <1>1, WireRecursion
<1>3. PICK g \in [0 .. n -> Seq(Octet)] :
           /\ g[0] = << >>
           /\ \A i \in 1 .. n : g[i] = g[i - 1] \o Enc!Piece(calls[i])
           /\ Wire(calls) = g[n]
  BY WireRecursion
<1>. HIDE DEF n
<1>4. f[n] = g[n]
  <2>. DEFINE Bad == {i \in 0 .. n : f[i] # g[i]}
  <2>. SUFFICES ASSUME Bad # {} PROVE FALSE
    <3>1. n \in 0 .. n
      BY <1>1
    <3>. QED
      BY <3>1
  <2>1. PICK m \in Bad : \A y \in Bad : m <= y
    <3>1. Bad \in SUBSET Nat
      BY <1>1
    <3>. QED
      BY <3>1, MinIsLeast
  <2>2. m \in 1 .. n
    BY <1>1, <1>2, <1>3
  <2>3. m - 1 \in 0 .. n /\ m - 1 \notin Bad
    BY <1>1, <2>1, <2>2
  <2>4. f[m - 1] = g[m - 1]
    BY <2>3
  <2>5. m \in 1 .. Len(s) /\ s[m] = calls[m]
    BY <1>1, <2>2
  <2>6. f[m] = f[m - 1] \o Enc!Piece(s[m]) /\ g[m] = g[m - 1] \o Enc!Piece(calls[m])
    BY <1>2, <1>3, <2>2, <2>5
  <2>. QED
    BY <2>4, <2>5, <2>6
<1>5. n + 1 \in 1 .. Len(s) /\ (n + 1) - 1 = n
  BY <1>1
<1>6. f[n + 1] = f[(n + 1) - 1] \o Enc!Piece(s[n + 1])
  BY <1>2, <1>5
<1>. QED
  BY <1>1, <1>2, <1>3, <1>4, <1>5, <1>6 DEF s

(* A message starts with what its first call writes: the reader's view.    *)
LEMMA WireHead ==
  ASSUME NEW calls \in Seq(GoodCall), calls # << >>
  PROVE  Wire(calls) = Enc!Piece(Head(calls)) \o Wire(Tail(calls))
<1>0. \A x, y, z \in Seq(Octet) : (x \o y) \o z = x \o (y \o z)
  BY ConcatAssociative
<1>. DEFINE Splits(s) == Wire(s) = Enc!Piece(Head(s)) \o Wire(Tail(s))
            Bad == {n \in Nat : \E s \in Seq(GoodCall) : s # << >> /\ Len(s) = n /\ ~ Splits(s)}
<1>1. Bad = {}
  <2>. SUFFICES ASSUME Bad # {} PROVE FALSE
    OBVIOUS
  <2>1. PICK n \in Bad : \A y \in Bad : n <= y
    <3>1. Bad \in SUBSET Nat
      OBVIOUS
    <3>. QED
      BY <3>1, MinIsLeast
  <2>2. PICK s \in Seq(GoodCall) : s # << >> /\ Len(s) = n /\ ~ Splits(s)
    OBVIOUS
  <2>3. PICK r \in Seq(GoodCall), e \in GoodCall : s = Append(r, e)
    BY <2>2, SequenceEmptyOrAppend
  <2>4. Wire(s) = Wire(r) \o Enc!Piece(e) /\ Enc!Piece(e) \in Seq(Octet)
    BY <2>3, WireAppend, PieceOctets
  <2>5. CASE r = << >>
    <3>1. Head(s) = e /\ Tail(s) = << >>
      BY <2>3, <2>5, HeadTailAppend
    <3>2. Wire(s) = << >> \o Enc!Piece(e)
      BY <2>4, <2>5, WireEmpty
    <3>3. << >> \o Enc!Piece(e) = Enc!Piece(e) \o << >>
      BY <2>4, ConcatEmptySeq
    <3>. QED
      BY <2>2, <3>1, <3>2, <3>3, WireEmpty
  <2>6. CASE r # << >>
    <3>1. Head(s) = Head(r) /\ Tail(s) = Append(Tail(r), e)
      BY <2>3, <2>6, HeadTailAppend
    <3>2. Tail(r) \in Seq(GoodCall) /\ Head(r) \in GoodCall
      BY <2>6, HeadTailProperties
    <3>3. Splits(r)
      <4>1. Len(r) \in Nat /\ n = Len(r) + 1
        BY <2>2, <2>3, AppendProperties, LenProperties
      <4>. HIDE DEF Splits
      <4>2. Len(r) \notin Bad
        <5>. HIDE DEF Bad
        <5>. QED
          BY <2>1, <4>1
      <4>. QED
        BY <2>6, <4>1, <4>2
    <3>4. Wire(Tail(s)) = Wire(Tail(r)) \o Enc!Piece(e)
      BY <3>1, <3>2, WireAppend
    <3>. DEFINE a == Enc!Piece(Head(r))
                b == Wire(Tail(r))
                c == Enc!Piece(e)
    <3>5. a \in Seq(Octet) /\ b \in Seq(Octet) /\ c \in Seq(Octet)
      BY <3>2, PieceOctets, WireOctets
    <3>6. Wire(s) = (a \o b) \o c /\ Enc!Piece(Head(s)) \o Wire(Tail(s)) = a \o (b \o c)
      BY <2>4, <3>1, <3>3, <3>4
    <3>. HIDE DEF a, b, c
    <3>7. (a \o b) \o c = a \o (b \o c)
      BY <1>0, <3>5
    <3>. QED
      BY <2>2, <3>6, <3>7
  <2>. QED
    BY <2>5, <2>6
<1>2. Len(calls) \in Nat
  BY LenProperties
<1>. QED
  BY <1>1, <1>2

-----------------------------------------------------------------------------
(* A well-formed message is made of calls of their types.                  *)
LEMMA WellFormedCalls ==
  ASSUME NEW calls, WellFormed(calls)
  PROVE  calls \in Seq(GoodCall)
<1>1. calls \in Seq(AnyCall) /\ \A i \in 1 .. Len(calls) : WellTyped(calls[i])
  BY LenProperties DEF WellFormed
<1>2. \A i \in 1 .. Len(calls) : calls[i] \in GoodCall
  BY <1>1, ElementOfSeq DEF GoodCall
<1>3. calls = [i \in 1 .. Len(calls) |-> calls[i]] /\ Len(calls) \in Nat
  BY <1>1, LenProperties
<1>. QED
  BY <1>2, <1>3

(* The empty message is one.                                               *)
LEMMA WellFormedEmpty == WellFormed(<< >>)
BY EmptySeq DEF WellFormed

(* What is left of a well-formed message is one, and holds the contents the *)
(* header in front of it announces.                                        *)
LEMMA WellFormedTail ==
  ASSUME NEW calls, WellFormed(calls), calls # << >>
  PROVE  /\ WellFormed(Tail(calls)) /\ Head(calls) \in GoodCall
         /\ Head(calls).op = "sequence_header" => Head(calls).data[1] <= Len(Wire(Tail(calls)))
<1>. DEFINE t == Tail(calls)
            n == Len(calls)
<1>1. calls \in Seq(GoodCall) /\ calls \in Seq(AnyCall)
  BY WellFormedCalls DEF WellFormed
<1>2. /\ n \in Nat \ {0} /\ DOMAIN calls = 1 .. n
      /\ t \in Seq(AnyCall) /\ Len(t) = n - 1
      /\ \A i \in 1 .. Len(t) : t[i] = calls[i + 1]
      /\ DOMAIN t = 1 .. Len(t)
      /\ Head(calls) \in GoodCall
  BY <1>1, HeadTailProperties, LenProperties, EmptySeq
<1>3. t = Drop(calls, 1)
  BY <1>1, TailIsSubSeq DEF Drop
<1>4. Head(calls) = calls[1]
  BY <1>1
<1>5. \A i \in 1 .. n :
        /\ WellTyped(calls[i])
        /\ calls[i].op = "sequence_header" => calls[i].data[1] <= Len(Wire(Drop(calls, i)))
  BY <1>2 DEF WellFormed
<1>. HIDE DEF t, n
<1>6. ASSUME NEW i \in DOMAIN t
      PROVE  /\ WellTyped(t[i])
             /\ t[i].op = "sequence_header" => t[i].data[1] <= Len(Wire(Drop(t, i)))
  <2>1. i \in 1 .. n - 1 /\ i + 1 \in 1 .. n /\ 1 \in 0 .. n /\ i \in 0 .. n - 1 /\ 1 + i = i + 1
    BY <1>2
  <2>2. Drop(Drop(calls, 1), i) = Drop(calls, 1 + i)
    BY <1>1, <2>1, DropDrop DEF n
  <2>3. t[i] = calls[i + 1]
    BY <1>2, <2>1
  <2>4. Drop(t, i) = Drop(calls, i + 1)
    BY <1>3, <2>1, <2>2
  <2>. QED
    BY <1>5, <2>1, <2>3, <2>4
<1>7. 1 \in 1 .. n
  BY <1>2
<1>8. WellFormed(t)
  BY <1>2, <1>6 DEF WellFormed
<1>. QED
  BY <1>2, <1>3, <1>4, <1>5, <1>7, <1>8 DEF t

-----------------------------------------------------------------------------
(* The encoder's side. *)
EncSlot == [size : Nat, value : SWord]

EncOK ==
  /\ out \in Seq(Octet)
  /\ enc_level \in Enc!SimdLevel
  /\ enc_pending \in Seq(EncSlot)

(* The tags the encoder writes are those of Tlv.                           *)
LEMMA EncoderTags ==
  /\ Enc!BOOLEAN_TAG = BOOLEAN_TAG /\ Enc!INTEGER_TAG = INTEGER_TAG
  /\ Enc!BIT_STRING_TAG = BIT_STRING_TAG /\ Enc!OCTET_STRING_TAG = OCTET_STRING_TAG
  /\ Enc!NULL_TAG = NULL_TAG /\ Enc!OID_TAG = OID_TAG /\ Enc!ENUMERATED_TAG = ENUMERATED_TAG
<1>1. \A n : Enc!make_universal(n) = make_universal(n)
  BY DEF Enc!make_universal, make_universal
<1>. QED
  BY <1>1 DEF Enc!BOOLEAN_TAG, BOOLEAN_TAG, Enc!INTEGER_TAG, INTEGER_TAG, Enc!BIT_STRING_TAG,
     BIT_STRING_TAG, Enc!OCTET_STRING_TAG, OCTET_STRING_TAG, Enc!NULL_TAG, NULL_TAG,
     Enc!OID_TAG, OID_TAG, Enc!ENUMERATED_TAG, ENUMERATED_TAG

(* Put appends all the octets it was given or reports an error.            *)
LEMMA PutWrites ==
  ASSUME EncOK, NEW call, NEW octets \in Seq(Octet), NEW size, Enc!Put(call, octets, size)
  PROVE  /\ out' \in Seq(Octet) /\ enc_level' = enc_level
         /\ ret'.err = "ok" => out' = out \o octets
<1>1. CASE Enc!Room(size)
  BY <1>1, ConcatProperties DEF EncOK, Enc!Put, Enc!Answer
<1>2. CASE ~ Enc!Room(size)
  BY <1>2 DEF EncOK, Enc!Put, Enc!Answer
<1>. QED
  BY <1>1, <1>2

(* PutElement appends the call's element or reports an error.              *)
LEMMA PutElementWrites ==
  ASSUME EncOK, NEW call \in GoodCall, call.op \notin {"sequence_header", "sequence_end"},
         NEW op, NEW t, NEW data, NEW contents,
         t = call.tag, contents = CallContents(call),
         Enc!PutElement(op, t, data, contents)
  PROVE  /\ out' \in Seq(Octet) /\ enc_level' = enc_level
         /\ ret'.err = "ok" => out' = out \o Enc!Piece(call)
<1>1. /\ CallContents(call) \in Seq(Octet) /\ Len(CallContents(call)) \in UWord /\ call.tag \in Tag
      /\ Enc!Piece(call) = encode_tlv(call.tag, CallContents(call))
  BY PieceIsElement
<1>2. Enc!encode_tlv(t, contents) = Enc!Piece(call) /\ Enc!Piece(call) \in Seq(Octet)
  BY <1>1, EncoderElements, PieceOctets
<1>. QED
  BY <1>2, PutWrites DEF Enc!PutElement

(* encode_integer appends the call's element or reports an error, whatever *)
(* the batch holds: the error it looks at is the one of its own slot.      *)
LEMMA EncodeIntegerWrites ==
  ASSUME EncOK, NEW call \in GoodCall, call.op = "integer", Enc!encode_integer(call.data[1])
  PROVE  EncOK' /\ (ret'.err = "ok" => out' = out \o Enc!Piece(call))
<1>. DEFINE v     == call.data[1]
            slots == Append(enc_pending, Enc!EncodeSlot(v))
            full  == Len(slots) = Enc!batch_size
            error == Enc!batch_encode_integers(slots)[Enc!batch_size]
<1>1. v \in SWord /\ call.tag = INTEGER_TAG
  <2>1. call.tag \in accept("integer") /\ v \in SWord
    BY DEF GoodCall, WellTyped
  <2>2. accept("integer") = {INTEGER_TAG}
    BY SMT DEF accept
  <2>. QED
    BY <2>1, <2>2
<1>2. CallContents(call) = Enc!encode_integer_bytes(v)
  BY EncoderIntegers DEF CallContents
<1>3. Enc!EncodeSlot(v) \in EncSlot
  <2>1. encoded_integer_size(v) \in Nat
    BY <1>1, EncodedSizeFits, WordAssumption
  <2>. QED
    BY <1>1, <2>1, EncoderIntegers DEF Enc!EncodeSlot, EncSlot
<1>. HIDE DEF v
<1>4. slots \in Seq(EncSlot)
  BY <1>3, AppendProperties DEF EncOK
<1>5. enc_pending' \in Seq(EncSlot)
  BY <1>4, EmptySeq DEF Enc!encode_integer, v
<1>6. CASE full /\ error # "ok"
  <2>1. ret' = [call |-> Enc!Call("integer", Enc!INTEGER_TAG, <<v>>), err |-> error]
        /\ out' = out /\ enc_level' = enc_level
    BY <1>6 DEF Enc!encode_integer, Enc!Answer, v
  <2>2. ret'.err = error
    BY <2>1
  <2>. QED
    BY <1>5, <1>6, <2>1, <2>2 DEF EncOK
<1>7. CASE ~ (full /\ error # "ok")
  <2>1. Enc!PutElement("integer", Enc!INTEGER_TAG, <<v>>, Enc!encode_integer_bytes(v))
    BY <1>7 DEF Enc!encode_integer, v
  <2>2. /\ out' \in Seq(Octet) /\ enc_level' = enc_level
        /\ ret'.err = "ok" => out' = out \o Enc!Piece(call)
    BY <1>1, <1>2, <2>1, EncoderTags, PutElementWrites
  <2>. QED
    BY <1>5, <2>2 DEF EncOK
<1>. QED
  BY <1>6, <1>7

(* Every call of the encoder appends its piece or reports an error.        *)
LEMMA EncodeWrites ==
  ASSUME EncOK, NEW call \in GoodCall, Encode(call)
  PROVE  EncOK' /\ (ret'.err = "ok" => out' = out \o Enc!Piece(call))
<1>0. ASSUME enc_pending' = enc_pending, out' \in Seq(Octet), enc_level' = enc_level
      PROVE  EncOK'
  BY <1>0 DEF EncOK
<1>t. call.op # "sequence_end" => call.tag \in accept(call.op)
  BY DEF GoodCall, WellTyped
<1>1. CASE call.op = "integer"
  BY <1>1, EncodeIntegerWrites, SMT DEF Encode
<1>2. CASE call.op = "enumerated"
  <2>1. Enc!encode_enumerated(call.data[1])
    BY <1>2, SMT DEF Encode
  <2>2. call.tag = Enc!ENUMERATED_TAG /\ CallContents(call) = Enc!encode_integer_bytes(call.data[1])
    BY <1>2, <1>t, EncoderTags, EncoderIntegers, SMT DEF accept, CallContents
  <2>. QED
    BY <1>0, <1>2, <2>1, <2>2, PutElementWrites DEF Enc!encode_enumerated
<1>3. CASE call.op = "boolean"
  <2>1. Enc!encode_boolean(call.data[1])
    BY <1>3, SMT DEF Encode
  <2>2. call.tag = Enc!BOOLEAN_TAG
    BY <1>3, <1>t, EncoderTags, SMT DEF accept
  <2>3. CallContents(call) = <<call.data[1]>>
    BY <1>3 DEF CallContents, GoodCall, WellTyped
  <2>. QED
    BY <1>0, <1>3, <2>1, <2>2, <2>3, PutElementWrites DEF Enc!encode_boolean
<1>4. CASE call.op = "null"
  <2>1. Enc!encode_null
    BY <1>4, SMT DEF Encode
  <2>2. call.tag = Enc!NULL_TAG
    BY <1>4, <1>t, EncoderTags, SMT DEF accept
  <2>3. CallContents(call) = << >>
    BY <1>4 DEF CallContents, GoodCall, WellTyped
  <2>. QED
    BY <1>0, <1>4, <2>1, <2>2, <2>3, PutElementWrites DEF Enc!encode_null
<1>5. CASE call.op = "octet_string"
  <2>1. Enc!encode_octet_string(call.data)
    BY <1>5, SMT DEF Encode
  <2>2. call.tag = Enc!OCTET_STRING_TAG /\ CallContents(call) = call.data
    BY <1>5, <1>t, EncoderTags, SMT DEF accept, CallContents
  <2>. QED
    BY <1>0, <1>5, <2>1, <2>2, PutElementWrites DEF Enc!encode_octet_string
<1>6. CASE call.op = "bit_string"
  <2>1. Enc!encode_bit_string(call.data[1], Drop(call.data, 1))
    BY <1>6, SMT DEF Encode
  <2>2. call.tag = Enc!BIT_STRING_TAG /\ CallContents(call) = call.data
    BY <1>6, <1>t, EncoderTags, SMT DEF accept, CallContents
  <2>3. call.data \in Seq(Octet) /\ call.data # << >>
    BY <1>6 DEF GoodCall, WellTyped
  <2>4. <<call.data[1]>> \o Drop(call.data, 1) = call.data
    BY <2>3, FirstAndRest
  <2>. QED
    BY <1>0, <1>6, <2>1, <2>2, <2>4, PutElementWrites DEF Enc!encode_bit_string
<1>7. CASE call.op = "oid"
  <2>1. Enc!encode_oid(call.data)
    BY <1>7, SMT DEF Encode
  <2>2. call.tag = Enc!OID_TAG /\ CallContents(call) = call.data
    BY <1>7, <1>t, EncoderTags, SMT DEF accept, CallContents
  <2>. QED
    BY <1>0, <1>7, <2>1, <2>2, PutElementWrites DEF Enc!encode_oid
<1>8. CASE call.op = "tlv"
  <2>1. Enc!write_tlv(call.tag, call.data)
    BY <1>8, SMT DEF Encode
  <2>2. CallContents(call) = call.data
    BY <1>8 DEF CallContents
  <2>. QED
    BY <1>0, <1>8, <2>1, <2>2, PutElementWrites DEF Enc!write_tlv
<1>9. CASE call.op = "sequence_header"
  <2>1. Enc!encode_sequence_header(call.tag, call.data[1])
    BY <1>9, SMT DEF Encode
  <2>2. Enc!encode_tag(call.tag) \o Enc!encode_length(call.data[1]) = Enc!Piece(call)
    BY <1>9, PieceOfHeader, EncoderHeaders
  <2>. QED
    BY <1>0, <2>1, <2>2, PieceOctets, PutWrites DEF Enc!encode_sequence_header
<1>10. CASE call.op = "sequence_end"
  <2>1. Enc!encode_sequence_end
    BY <1>10, SMT DEF Encode
  <2>2. Enc!encode_end_of_content = Enc!Piece(call)
    BY <1>10, PieceOfEnd, EncoderElements
  <2>. QED
    BY <1>0, <2>1, <2>2, PieceOctets, PutWrites DEF Enc!encode_sequence_end
<1>. QED
  BY <1>1, <1>2, <1>3, <1>4, <1>5, <1>6, <1>7, <1>8, <1>9, <1>10
     DEF GoodCall, AnyCall, Elements

-----------------------------------------------------------------------------
(* The decoder's side. *)
DecSlot == [size : Nat, value_buf : Seq(Octet)]

DecOK ==
  /\ view \in Seq(Octet)
  /\ dec_level \in Enc!SimdLevel
  /\ dec_pending \in Seq(DecSlot)

(* What the operation answers for the element it took.                     *)
Value(op, r) ==
  IF op = "integer" THEN <<decode_integer_value(r.contents)>>
  ELSE Dec!value_of(op, r.length, r.contents)

(* The operation moved the view and answered as its element says. *)
Reads(op) ==
  LET r == ReadElement(op, view)
  IN  /\ view' = r.rest
      /\ r.err = "ok" => got' = Dec!Answer(op, "ok", r.tag, Value(op, r))
      /\ r.err # "ok" => got'.err # "ok"

(* A decoder leaves octets, successful or not.                             *)
LEMMA ReadLeavesOctets ==
  ASSUME NEW op \in Elements, NEW v \in Seq(Octet)
  PROVE  ReadElement(op, v).rest \in Seq(Octet)
<1>1. CASE ReadElement(op, v).err = "ok"
  <2>1. << >> \in Seq(Octet)
    BY EmptySeq
  <2>. QED
    BY <1>1, <2>1, ElementWithMore
<1>2. CASE ReadElement(op, v).err # "ok"
  <2>1. CASE \E i \in 1 .. Len(v), j \in 1 .. Len(v) :
               ElementEnds(op, v, i, j, LengthRead(Drop(v, i), j))
    <3>1. PICK i \in 1 .. Len(v), j \in 1 .. Len(v) :
            ElementEnds(op, v, i, j, LengthRead(Drop(v, i), j))
      BY <2>1
    <3>2. ReadElement(op, v).err = "ok"
      BY <3>1, ElementReads
    <3>. QED
      BY <1>2, <3>2
  <2>2. CASE \E k \in 0 .. Len(v) : ReadElement(op, v).rest = Drop(v, k)
    BY <2>2, TakeProperties
  <2>. QED
    BY <2>1, <2>2, ElementCases
<1>. QED
  BY <1>1, <1>2

(* The contents of an INTEGER that is read fit a word.                     *)
LEMMA IntegerContents ==
  ASSUME NEW v \in Seq(Octet), ReadElement("integer", v).err = "ok"
  PROVE  /\ ReadElement("integer", v).contents \in Seq(Octet)
         /\ Len(ReadElement("integer", v).contents) \in 1 .. WordOctets
<1>0. "integer" \in Elements
  BY DEF Elements
<1>1. PICK i \in 1 .. Len(v), j \in 1 .. Len(v) :
        ElementEnds("integer", v, i, j, LengthRead(Drop(v, i), j))
  BY <1>0, ElementCases DEF element_errors, header_errors
<1>. DEFINE n == LengthRead(Drop(v, i), j)
            m == i + j
<1>2. /\ ElementEnds("integer", v, i, j, n)
      /\ n \in 0 .. Len(v) - m /\ m \in 0 .. Len(v)
      /\ Drop(v, m) \in Seq(Octet)
  BY <1>0, <1>1, ElementEndsInside
<1>3. contents_error("integer", n, Drop(v, m)) = "ok"
  BY <1>2 DEF ElementEnds
<1>4. ReadElement("integer", v).contents = SubSeq(v, m + 1, m + n)
  <2>1. ASSUME NEW op \in Elements, ElementEnds(op, v, i, j, n)
        PROVE  ReadElement(op, v).contents = SubSeq(v, i + j + 1, i + j + n)
    <3>. HIDE DEF n
    <3>1. ReadElement(op, v) =
            [err |-> "ok", tag |-> TagRead(v, i), length |-> n,
             contents |-> SubSeq(v, i + j + 1, i + j + n),
             rest |-> Drop(v, IF op = "sequence_header" THEN i + j ELSE i + j + n)]
      BY <2>1, ElementReads
    <3>. DEFINE r    == ReadElement(op, v)
                c    == SubSeq(v, i + j + 1, i + j + n)
                rest == Drop(v, IF op = "sequence_header" THEN i + j ELSE i + j + n)
    <3>2. r = [err |-> "ok", tag |-> TagRead(v, i), length |-> n, contents |-> c, rest |-> rest]
      BY <3>1
    <3>. HIDE DEF r, c, rest
    <3>3. r.contents = c
      BY <3>2
    <3>. QED
      BY <3>3 DEF r, c
  <2>. QED
    BY <1>0, <1>2, <2>1
<1>. HIDE DEF n, m
<1>5. n \in 1 .. WordOctets
  <2>1. n \in Nat
    BY <1>2
  <2>. QED
    BY <1>0, <1>2, <1>3, <2>1, ContentsChecked
<1>. DEFINE k == m + n
<1>6. k \in m .. Len(v) /\ k - m = n
  BY <1>2, LenProperties
<1>. HIDE DEF k
<1>7. SubSeq(v, m + 1, k) \in Seq(Octet) /\ Len(SubSeq(v, m + 1, k)) = k - m
  BY <1>2, <1>6, CutProperties
<1>. QED
  BY <1>4, <1>5, <1>6, <1>7 DEF k

(* The batch decodes the octets of a slot as decode_integer_value does.    *)
LEMMA LastSlotDecodes ==
  ASSUME NEW contents \in Seq(Octet), Len(contents) \in 1 .. WordOctets,
         NEW slots, NEW n \in DOMAIN slots, slots[n] = Dec!DecodeSlot(contents)
  PROVE  Dec!batch_decode_integers(slots)[n] =
           [err |-> "ok", value |-> decode_integer_value(contents)]
<1>1. slots[n].size = Len(contents) /\ slots[n].value_buf = contents
  BY DEF Dec!DecodeSlot
<1>2. Len(contents) # 0 /\ ~ (Len(contents) > WordOctets)
  BY WordAssumption
<1>3. Weight[Len(contents)] \in Nat /\ Unsigned(contents) \in Nat
  BY WeightIsNat, UnsignedIsNat
<1>4. CASE Negative(contents)
  <2>1. Unsigned(contents) - Weight[Len(contents)] = -Weight[Len(contents)] + Unsigned(contents)
    BY <1>3
  <2>2. decode_integer_value(contents) = Unsigned(contents) - Weight[Len(contents)]
    BY <1>4, <2>1 DEF decode_integer_value
  <2>. QED
    BY <1>1, <1>2, <1>4, <2>2, DecoderLengths, SMT DEF Dec!batch_decode_integers
<1>5. CASE ~ Negative(contents)
  <2>1. decode_integer_value(contents) = Unsigned(contents)
    BY <1>3, <1>5 DEF decode_integer_value
  <2>. QED
    BY <1>1, <1>2, <1>5, <2>1, DecoderLengths, SMT DEF Dec!batch_decode_integers
<1>. QED
  BY <1>4, <1>5

(* Every decoder but that of INTEGER reads as ReadElement says,            *)
LEMMA DecodeReads ==
  ASSUME DecOK, NEW op \in Elements \ {"integer"}, Dec!Decode(op)
  PROVE  DecOK' /\ Reads(op)
<1>. DEFINE r == ReadElement(op, view)
<1>1. Dec!ReadElement(op, view) = r
  BY DecoderElements
<1>2. /\ view' = r.rest /\ dec_level' = dec_level /\ dec_pending' = dec_pending
      /\ r.err = "ok" => got' = Dec!Answer(op, "ok", r.tag, Dec!value_of(op, r.length, r.contents))
      /\ r.err # "ok" => got' = Dec!Answer(op, r.err, Dec!NULL_TAG, << >>)
  BY <1>1 DEF Dec!Decode, Dec!Refuse
<1>3. r.rest \in Seq(Octet)
  BY ReadLeavesOctets DEF DecOK
<1>4. DecOK'
  BY <1>2, <1>3 DEF DecOK
<1>5. Value(op, r) = Dec!value_of(op, r.length, r.contents)
  BY DEF Value
<1>6. r.err # "ok" => got'.err # "ok"
  BY <1>2 DEF Dec!Answer
<1>. QED
  BY <1>2, <1>4, <1>5, <1>6 DEF Reads

(* and so does decode_integer, whatever the batch holds: a full batch      *)
(* answers with its last slot, which is the one just pushed.               *)
LEMMA DecodeIntegerReads ==
  ASSUME DecOK, Dec!decode_integer
  PROVE  DecOK' /\ Reads("integer")
<1>. DEFINE r       == ReadElement("integer", view)
            slots   == Append(dec_pending, Dec!DecodeSlot(r.contents))
            full    == Dec!batch_full(slots)
            results == Dec!batch_decode_integers(slots)
            answer  == IF full THEN results[Dec!batch_size]
                       ELSE [err |-> "ok", value |-> Dec!decode_integer_value(r.contents)]
<1>0. "integer" \in Elements
  BY DEF Elements
<1>1. Dec!ReadElement("integer", view) = r
  BY <1>0, DecoderElements
<1>2. /\ view' = r.rest /\ dec_level' = dec_level
      /\ \/ /\ r.err # "ok"
            /\ got' = Dec!Answer("integer", r.err, Dec!NULL_TAG, << >>) /\ dec_pending' = dec_pending
         \/ /\ r.err = "ok"
            /\ dec_pending' = IF full THEN << >> ELSE slots
            /\ IF answer.err = "ok"
                 THEN got' = Dec!Answer("integer", "ok", r.tag, <<answer.value>>)
                 ELSE got' = Dec!Answer("integer", answer.err, Dec!NULL_TAG, << >>)
  BY <1>1 DEF Dec!decode_integer, Dec!Refuse
<1>3. r.rest \in Seq(Octet)
  BY <1>0, ReadLeavesOctets DEF DecOK
<1>4. CASE r.err # "ok"
  <2>1. got'.err # "ok"
    BY <1>2, <1>4 DEF Dec!Answer
  <2>. QED
    BY <1>2, <1>3, <1>4, <2>1 DEF DecOK, Reads
<1>5. CASE r.err = "ok"
  <2>1. r.contents \in Seq(Octet) /\ Len(r.contents) \in 1 .. WordOctets
    BY <1>5, IntegerContents DEF DecOK
  <2>2. Dec!DecodeSlot(r.contents) \in DecSlot
    BY <2>1, WordAssumption DEF Dec!DecodeSlot, DecSlot
  <2>3. /\ slots \in Seq(DecSlot) /\ Len(slots) = Len(dec_pending) + 1 /\ Len(slots) \in DOMAIN slots
        /\ slots[Len(slots)] = Dec!DecodeSlot(r.contents)
    BY <2>2, AppendProperties, LenProperties DEF DecOK
  <2>4. dec_pending' \in Seq(DecSlot)
    BY <1>2, <1>5, <2>3, EmptySeq
  <2>5. answer = [err |-> "ok", value |-> decode_integer_value(r.contents)]
    <3>1. CASE full
      <4>1. Len(slots) = Dec!batch_size
        BY <3>1 DEF Dec!batch_full
      <4>2. results[Len(slots)] = [err |-> "ok", value |-> decode_integer_value(r.contents)]
        BY <2>1, <2>3, LastSlotDecodes
      <4>. QED
        BY <3>1, <4>1, <4>2
    <3>2. CASE ~ full
      BY <3>2, DecoderValues
    <3>. QED
      BY <3>1, <3>2
  <2>6. got' = Dec!Answer("integer", "ok", r.tag, <<decode_integer_value(r.contents)>>)
    BY <1>2, <1>5, <2>5
  <2>. QED
    BY <1>2, <1>3, <1>5, <2>4, <2>6 DEF DecOK, Reads, Value
<1>. QED
  BY <1>4, <1>5

-----------------------------------------------------------------------------
(* The contents a call wrote are answered as the value it was given.       *)
LEMMA ContentsAnswer ==
  ASSUME NEW call \in GoodCall, call.op \notin {"sequence_header", "sequence_end"},
         NEW r, r.contents = CallContents(call), r.length = Len(CallContents(call))
  PROVE  Value(call.op, r) = call.data
<1>0. call.op \in Elements \ {"sequence_header", "skip_tlv"}
  BY PieceIsElement
<1>1. CASE call.op \in {"integer", "enumerated"}
  <2>. DEFINE v == call.data[1]
  <2>1. call.data \in Seq(Int) /\ Len(call.data) = 1 /\ v \in SWord
    BY <1>1 DEF GoodCall, AnyCall, WellTyped
  <2>2. call.data = <<v>>
    BY <2>1
  <2>3. r.contents = encode_integer_bytes(v)
    BY <1>1 DEF CallContents
  <2>4. decode_integer_value(r.contents) = v
    BY <2>1, <2>3, IntegerRoundTrip
  <2>. HIDE DEF v
  <2>5. CASE call.op = "integer"
    BY <2>2, <2>4, <2>5 DEF Value
  <2>6. CASE call.op = "enumerated"
    BY <2>2, <2>4, <2>6, DecoderValues, SMT DEF Value, Dec!value_of
  <2>. QED
    BY <1>1, <2>5, <2>6
<1>2. CASE call.op \notin {"integer", "enumerated"}
  <2>0. r.contents = call.data /\ r.length = Len(call.data)
    BY <1>2 DEF CallContents
  <2>1. CASE call.op = "boolean"
    <3>1. call.data = <<0>> \/ call.data = <<255>>
      BY <2>1 DEF GoodCall, WellTyped
    <3>. QED
      BY <2>0, <2>1, <3>1, SMT DEF Value, Dec!value_of
  <2>2. CASE call.op = "null"
    <3>1. call.data = << >>
      BY <2>2 DEF GoodCall, WellTyped
    <3>. QED
      BY <2>0, <2>2, <3>1, SMT DEF Value, Dec!value_of
  <2>3. CASE call.op \in {"octet_string", "oid", "tlv"}
    BY <2>0, <2>3, SMT DEF Value, Dec!value_of
  <2>4. CASE call.op = "bit_string"
    <3>1. <<call.data[1]>> \o Drop(call.data, 1) = call.data
      BY <2>4, FirstAndRest DEF GoodCall, WellTyped
    <3>. QED
      BY <2>0, <2>4, <3>1, DecoderTags, SMT DEF Value, Dec!value_of
  <2>. QED
    BY <1>0, <1>2, <2>1, <2>2, <2>3, <2>4 DEF Elements
<1>. QED
  BY <1>1, <1>2

(* A read of the octets of a call, complete, answers what was sent.        *)
LEMMA WholeCallReads ==
  ASSUME NEW call \in GoodCall, call.op # "sequence_end", NEW rest \in Seq(Octet),
         call.op = "sequence_header" => call.data[1] <= Len(rest)
  PROVE  LET r == ReadElement(call.op, Enc!Piece(call) \o rest)
         IN  /\ call.op \in Elements
             /\ r.err = "ok" /\ r.tag = call.tag /\ r.rest = rest /\ Value(call.op, r) = call.data
<1>. DEFINE r == ReadElement(call.op, Enc!Piece(call) \o rest)
<1>1. CASE call.op = "sequence_header"
  <2>. DEFINE n == call.data[1]
  <2>1. /\ call.tag \in ConstructedTag /\ n \in UWord /\ call.data = <<n>>
        /\ Enc!Piece(call) = encode_tag(call.tag) \o encode_length(n)
    BY <1>1, PieceOfHeader
  <2>. HIDE DEF n
  <2>2. n <= Len(rest)
    BY <1>1 DEF n
  <2>3. r = [err |-> "ok", tag |-> call.tag, length |-> n, contents |-> Take(rest, n), rest |-> rest]
    BY <1>1, <2>1, <2>2, HeaderRoundTrip
  <2>. HIDE DEF r
  <2>4. r.err = "ok" /\ r.tag = call.tag /\ r.rest = rest /\ r.length = n
    BY <2>3
  <2>5. Value(call.op, r) = call.data
    BY <1>1, <2>1, <2>4, SMT DEF Value, Dec!value_of
  <2>. QED
    BY <1>1, <2>4, <2>5 DEF r, Elements
<1>2. CASE call.op # "sequence_header"
  <2>1. /\ call.op \in Elements
        /\ r = [err |-> "ok", tag |-> call.tag, length |-> Len(CallContents(call)),
                contents |-> CallContents(call), rest |-> rest]
    BY <1>2, CallReads
  <2>. HIDE DEF r
  <2>2. /\ r.err = "ok" /\ r.tag = call.tag /\ r.rest = rest
        /\ r.contents = CallContents(call) /\ r.length = Len(CallContents(call))
    BY <2>1
  <2>3. Value(call.op, r) = call.data
    BY <1>2, <2>2, ContentsAnswer
  <2>. QED
    BY <2>1, <2>2, <2>3 DEF r
<1>. QED
  BY <1>1, <1>2

(* The octets of the view and some more are those of the call and the rest.*)
Completes(v, more, call, rest) == v \o more = Enc!Piece(call) \o rest

(* A read of a part of them answers the same, or an error.                 *)
LEMMA CutCallReads ==
  ASSUME NEW call \in GoodCall, call.op # "sequence_end", NEW rest \in Seq(Octet),
         call.op = "sequence_header" => call.data[1] <= Len(rest),
         NEW v \in Seq(Octet), NEW more \in Seq(Octet), Completes(v, more, call, rest),
         ReadElement(call.op, v).err = "ok"
  PROVE  LET r == ReadElement(call.op, v)
         IN  /\ r.tag = call.tag /\ r.rest \in Seq(Octet) /\ r.rest \o more = rest
             /\ Value(call.op, r) = call.data
<1>. DEFINE r == ReadElement(call.op, v)
            a == ReadElement(call.op, Enc!Piece(call) \o rest)
<1>1. call.op \in Elements /\ a.tag = call.tag /\ a.rest = rest /\ Value(call.op, a) = call.data
  BY WholeCallReads
<1>2. /\ r.rest \in Seq(Octet)
      /\ ReadElement(call.op, v \o more) =
           [err |-> "ok", tag |-> r.tag, length |-> r.length, contents |-> r.contents,
            rest |-> r.rest \o more]
  BY <1>1, ElementWithMore
<1>3. a = [err |-> "ok", tag |-> r.tag, length |-> r.length, contents |-> r.contents,
           rest |-> r.rest \o more]
  BY <1>2 DEF Completes
<1>. HIDE DEF a, r
<1>4. a.tag = r.tag /\ a.length = r.length /\ a.contents = r.contents /\ a.rest = r.rest \o more
  BY <1>3
<1>5. Value(call.op, a) = Value(call.op, r)
  BY <1>4 DEF Value
<1>. QED
  BY <1>1, <1>2, <1>4, <1>5 DEF r

(* Passing over the octets of a call leaves what follows them.             *)
LEMMA CutCallSkips ==
  ASSUME NEW call \in GoodCall, call.op \notin {"sequence_header", "sequence_end"},
         NEW rest \in Seq(Octet), NEW v \in Seq(Octet), NEW more \in Seq(Octet),
         Completes(v, more, call, rest), ReadElement("skip_tlv", v).err = "ok"
  PROVE  LET r == ReadElement("skip_tlv", v)
         IN  r.rest \in Seq(Octet) /\ r.rest \o more = rest
<1>. DEFINE r == ReadElement("skip_tlv", v)
            a == ReadElement("skip_tlv", Enc!Piece(call) \o rest)
<1>1. /\ "skip_tlv" \in Elements
      /\ a = [err |-> "ok", tag |-> call.tag, length |-> Len(CallContents(call)),
              contents |-> CallContents(call), rest |-> rest]
  BY CallReads
<1>2. /\ r.rest \in Seq(Octet)
      /\ ReadElement("skip_tlv", v \o more) =
           [err |-> "ok", tag |-> r.tag, length |-> r.length, contents |-> r.contents,
            rest |-> r.rest \o more]
  BY <1>1, ElementWithMore
<1>3. a = [err |-> "ok", tag |-> r.tag, length |-> r.length, contents |-> r.contents,
           rest |-> r.rest \o more]
  BY <1>2 DEF Completes
<1>. HIDE DEF a, r
<1>4. a.rest = rest /\ a.rest = r.rest \o more
  BY <1>1, <1>3
<1>. QED
  BY <1>2, <1>4 DEF r

(* The end-of-contents octets are read as such, or not at all.             *)
LEMMA EndReads ==
  ASSUME DecOK, NEW call \in GoodCall, call.op = "sequence_end", NEW rest \in Seq(Octet),
         NEW more \in Seq(Octet), view \o more = Enc!Piece(call) \o rest,
         Dec!decode_sequence_end
  PROVE  /\ DecOK'
         /\ got'.err = "ok" => got'.data = call.data /\ view' \o more = rest
         /\ got'.err # "ok" => more # << >>
<1>. DEFINE piece == Enc!Piece(call)
            all   == piece \o rest
<1>1. piece = <<0, 0>> /\ call.data = << >> /\ piece \in Seq(Octet) /\ Len(piece) = 2
      /\ piece[1] = 0 /\ piece[2] = 0
  BY PieceOfEnd, PieceOctets
<1>2. view \in Seq(Octet) /\ Len(view) \in Nat
  BY LenProperties DEF DecOK
<1>. HIDE DEF piece
<1>3. /\ all \in Seq(Octet) /\ Len(all) = 2 + Len(rest) /\ all[1] = 0 /\ all[2] = 0 /\ Len(rest) \in Nat
      /\ Drop(all, 2) = rest
  <2>1. /\ all \in Seq(Octet) /\ Len(all) = Len(piece) + Len(rest) /\ Len(rest) \in Nat
        /\ \A i \in 1 .. Len(piece) + Len(rest) : all[i] = IF i <= Len(piece) THEN piece[i] ELSE rest[i - Len(piece)]
    BY <1>1, ConcatProperties, LenProperties
  <2>2. Drop(all, Len(piece)) = rest
    BY <1>1, TakeDropConcat
  <2>. HIDE DEF all
  <2>3. all[1] = piece[1] /\ all[2] = piece[2]
    BY <1>1, <2>1
  <2>. QED
    BY <1>1, <2>1, <2>2, <2>3
<1>4. view \o more = all
  BY DEF piece
<1>. HIDE DEF all
<1>. DEFINE good == Len(view) >= 2 /\ view[1] = 0 /\ view[2] = 0
<1>5. CASE good
  <2>1. /\ view' = Drop(view, 2) /\ got' = Dec!Answer("sequence_end", "ok", Dec!NULL_TAG, << >>)
        /\ dec_level' = dec_level /\ dec_pending' = dec_pending
    BY <1>2, <1>5, DecoderTags, SMT DEF Dec!decode_sequence_end, Dec!Refuse
  <2>2. 2 \in 0 .. Len(view)
    BY <1>2, <1>5
  <2>3. Drop(view, 2) \in Seq(Octet) /\ Drop(view \o more, 2) = Drop(view, 2) \o more
    BY <1>2, <2>2, TakeProperties, DropConcat
  <2>4. got'.err = "ok" /\ got'.data = << >>
    BY <2>1 DEF Dec!Answer
  <2>. QED
    BY <1>1, <1>3, <1>4, <2>1, <2>3, <2>4 DEF DecOK
<1>6. CASE ~ good
  <2>1. /\ view' = view /\ got'.err # "ok"
        /\ dec_level' = dec_level /\ dec_pending' = dec_pending
    <3>1. CASE Len(view) < 2
      BY <1>2, <3>1, SMT DEF Dec!decode_sequence_end, Dec!Refuse, Dec!Answer
    <3>2. CASE Len(view) >= 2
      BY <1>2, <1>6, <3>2, SMT DEF Dec!decode_sequence_end, Dec!Refuse, Dec!Answer
    <3>. QED
      BY <1>2, <3>1, <3>2
  <2>2. more # << >>
    <3>. SUFFICES ASSUME more = << >> PROVE FALSE
      OBVIOUS
    <3>1. view = all
      BY <1>2, <1>4, ConcatEmptySeq
    <3>. QED
      BY <1>3, <1>6, <3>1
  <2>. QED
    BY <2>1, <2>2 DEF DecOK
<1>. QED
  BY <1>5, <1>6

-----------------------------------------------------------------------------
(* A beginning of a sequence is what some more completes.                  *)
LEMMA PrefixSplits ==
  ASSUME NEW S, NEW s \in Seq(S), NEW t \in Seq(S)
  PROVE  IsPrefix(s, t) <=> \E more \in Seq(S) : s \o more = t
<1>1. Len(s) \in Nat /\ Len(t) \in Nat /\ SubSeq(s, 1, Len(s)) = s
  BY LenProperties, SubSeqFull
<1>2. ASSUME IsPrefix(s, t) PROVE \E more \in Seq(S) : s \o more = t
  <2>. DEFINE more == SubSeq(t, Len(s) + 1, Len(t))
  <2>1. Len(s) <= Len(t) /\ s = SubSeq(t, 1, Len(s))
    BY <1>1, <1>2 DEF IsPrefix
  <2>2. more \in Seq(S)
    <3>1. Len(s) \in 0 .. Len(t) /\ Len(t) \in Len(s) .. Len(t)
      BY <1>1, <2>1
    <3>. QED
      BY <3>1, CutProperties
  <2>3. SubSeq(t, 1, Len(s)) \o more = SubSeq(t, 1, Len(t))
    <3>1. 1 \in 1 .. Len(t) + 1 /\ Len(s) \in 1 - 1 .. Len(t) /\ Len(t) \in Len(s) .. Len(t)
      BY <1>1, <2>1
    <3>. QED
      BY <3>1, ConcatAdjacentSubSeq
  <2>4. SubSeq(t, 1, Len(t)) = t
    BY SubSeqFull
  <2>5. s \o more = t
    BY <2>1, <2>3, <2>4
  <2>. QED
    BY <2>2, <2>5
<1>3. ASSUME NEW more \in Seq(S), s \o more = t PROVE IsPrefix(s, t)
  <2>1. Len(t) = Len(s) + Len(more) /\ Len(more) \in Nat
    BY <1>3, ConcatProperties, LenProperties
  <2>2. SubSeq(t, 1, Len(s)) = s
    BY <1>3, TakeDropConcat DEF Take
  <2>. QED
    BY <1>1, <2>1, <2>2 DEF IsPrefix
<1>. QED
  BY <1>2, <1>3

(* The octets still to come after the ones in the view.                    *)
Missing(more) ==
  more \in Seq(Octet) /\ view \o more = Wire(expected) /\ (whole => more = << >>)

(* InStep says that some octets complete the view to what is expected.     *)
LEMMA InStepIsMissing ==
  ASSUME view \in Seq(Octet), WellFormed(expected), expected # << >>
  PROVE  InStep <=> \E more : Missing(more)
<1>1. Wire(expected) \in Seq(Octet)
  BY WellFormedCalls, WireOctets
<1>2. view \o << >> = view /\ << >> \in Seq(Octet)
  BY ConcatEmptySeq, EmptySeq
<1>3. CASE whole
  BY <1>2, <1>3 DEF InStep, Missing
<1>4. CASE ~ whole
  BY <1>1, <1>4, PrefixSplits DEF InStep, Missing
<1>. QED
  BY <1>3, <1>4

(* The calls made and the calls to make are one message, and what is in    *)
(* the buffer is the octets of those made, unless it was given up.         *)
WriterOK ==
  /\ sent \in Seq(AnyCall) /\ todo \in Seq(AnyCall)
  /\ WellFormed(sent \o todo)
  /\ todo # << >> \/ sent # << >> => out = Wire(sent)

(* The calls expected are a message, and the two properties. *)
ReaderOK == WellFormed(expected) /\ InStep /\ RoundTrip

LinkInv == EncOK /\ DecOK /\ WriterOK /\ ReaderOK

(* Both sides start with nothing written and nothing expected.             *)
LEMMA InitLinkInv == Init => LinkInv
<1>. SUFFICES ASSUME Init PROVE LinkInv
  OBVIOUS
<1>. USE DEF Init
<1>1. EncOK
  BY EmptySeq DEF EncOK
<1>2. DecOK
  BY EmptySeq DEF DecOK
<1>3. WriterOK
  <2>1. WellFormed(todo)
    BY LinkAssumption
  <2>2. todo \in Seq(AnyCall) /\ << >> \in Seq(AnyCall)
    BY <2>1, EmptySeq DEF WellFormed
  <2>3. sent \o todo = todo
    BY <2>2, ConcatEmptySeq
  <2>. QED
    BY <2>1, <2>2, <2>3, WireEmpty DEF WriterOK
<1>4. ReaderOK
  BY WellFormedEmpty DEF ReaderOK, InStep, RoundTrip
<1>. QED
  BY <1>1, <1>2, <1>3, <1>4 DEF LinkInv

(* Nothing on the reader's side moves.                                     *)
LEMMA ReaderKept ==
  ASSUME ReaderOK, DecOK, UNCHANGED decoder_vars, UNCHANGED <<expected, asked, whole>>
  PROVE  ReaderOK' /\ DecOK'
BY DEF ReaderOK, DecOK, decoder_vars, InStep, RoundTrip

(* Nothing on the writer's side moves.                                     *)
LEMMA WriterKept ==
  ASSUME WriterOK, EncOK, UNCHANGED encoder_vars, UNCHANGED <<todo, sent>>
  PROVE  WriterOK' /\ EncOK'
BY DEF WriterOK, EncOK, encoder_vars

(* A call written moves from what is to do to what is sent, with its octets. *)
LEMMA WriteNextStep ==
  ASSUME LinkInv, WriteNext
  PROVE  LinkInv'
<1>. USE DEF LinkInv
<1>. DEFINE call == Head(todo)
            rest == Tail(todo)
<1>1. todo # << >> /\ todo \in Seq(AnyCall) /\ sent \in Seq(AnyCall) /\ WellFormed(sent \o todo)
      /\ out = Wire(sent)
  BY DEF WriteNext, WriterOK
<1>2. call \in AnyCall /\ rest \in Seq(AnyCall)
  BY <1>1, HeadTailProperties
<1>3. Append(sent, call) \o rest = sent \o todo /\ Append(sent, call) \in Seq(AnyCall)
  <2>1. \A a, b, c \in Seq(AnyCall) : (a \o b) \o c = a \o (b \o c)
    BY ConcatAssociative
  <2>2. Append(sent, call) = sent \o <<call>>
    BY <1>1, <1>2, AppendIsConcat
  <2>3. <<call>> \o rest = todo
    <3>1. <<todo[1]>> \o Drop(todo, 1) = todo
      BY <1>1, FirstAndRest
    <3>2. rest = Drop(todo, 1) /\ call = todo[1]
      BY <1>1, TailIsSubSeq DEF Drop
    <3>. QED
      BY <3>1, <3>2
  <2>4. <<call>> \in Seq(AnyCall)
    BY <1>2
  <2>5. (sent \o <<call>>) \o rest = sent \o (<<call>> \o rest)
    BY <1>1, <1>2, <2>1, <2>4
  <2>. QED
    BY <1>1, <1>2, <2>2, <2>3, <2>5, AppendProperties
<1>4. sent \o todo \in Seq(GoodCall)
  BY <1>1, WellFormedCalls
<1>5. call \in GoodCall /\ sent \in Seq(GoodCall)
  <2>. DEFINE all == sent \o todo
  <2>1. /\ Len(all) = Len(sent) + Len(todo) /\ Len(sent) \in Nat /\ Len(todo) \in Nat \ {0}
        /\ \A i \in 1 .. Len(sent) + Len(todo) : all[i] = IF i <= Len(sent) THEN sent[i] ELSE todo[i - Len(sent)]
    BY <1>1, ConcatProperties, LenProperties, EmptySeq
  <2>. HIDE DEF all
  <2>2. \A i \in 1 .. Len(all) : all[i] \in GoodCall
    BY <1>4, ElementOfSeq DEF all
  <2>3. \A i \in 1 .. Len(sent) : sent[i] \in GoodCall
    BY <2>1, <2>2
  <2>4. sent = [i \in 1 .. Len(sent) |-> sent[i]]
    BY <1>1, LenProperties
  <2>5. sent \in Seq(GoodCall)
    BY <2>1, <2>3, <2>4
  <2>6. call = todo[1]
    BY <1>1
  <2>7. Len(sent) + 1 \in 1 .. Len(all) /\ ~ (Len(sent) + 1 <= Len(sent)) /\ (Len(sent) + 1) - Len(sent) = 1
    BY <2>1
  <2>8. all[Len(sent) + 1] = todo[1]
    BY <2>1, <2>7
  <2>. QED
    BY <2>2, <2>5, <2>6, <2>7, <2>8
<1>6. EncOK' /\ (ret'.err = "ok" => out' = out \o Enc!Piece(call))
  BY <1>5, EncodeWrites DEF WriteNext
<1>7. WriterOK'
  <2>1. CASE ret'.err = "ok"
    <3>1. todo' = rest /\ sent' = Append(sent, call)
      BY <2>1 DEF WriteNext
    <3>2. out' = Wire(sent')
      BY <1>1, <1>5, <1>6, <2>1, <3>1, WireAppend
    <3>. QED
      BY <1>1, <1>2, <1>3, <3>1, <3>2 DEF WriterOK
  <2>2. CASE ret'.err # "ok"
    <3>1. todo' = << >> /\ sent' = << >>
      BY <2>2 DEF WriteNext
    <3>2. << >> \in Seq(AnyCall) /\ << >> \o << >> = << >>
      BY EmptySeq, ConcatEmptySeq
    <3>. QED
      BY <3>1, <3>2, WellFormedEmpty DEF WriterOK
  <2>. QED
    BY <2>1, <2>2
<1>8. ReaderOK' /\ DecOK'
  BY ReaderKept DEF WriteNext
<1>. QED
  BY <1>6, <1>7, <1>8

(* The reader gets the octets of the calls sent, or a beginning of them.   *)
LEMMA DeliverStep ==
  ASSUME LinkInv, Deliver
  PROVE  LinkInv'
<1>. USE DEF LinkInv
<1>1. PICK k \in 0 .. Len(out) : view' = Take(out, k) /\ whole' = (k = Len(out))
  BY DEF Deliver
<1>2. /\ out \in Seq(Octet) /\ out = Wire(sent) /\ sent # << >> /\ WellFormed(sent)
  <2>1. sent \in Seq(AnyCall) /\ sent \o todo = sent
    BY ConcatEmptySeq DEF Deliver, WriterOK
  <2>. QED
    BY <2>1 DEF Deliver, WriterOK, EncOK
<1>3. /\ expected' = sent /\ asked' = NoCall /\ dec_level' = dec_level /\ dec_pending' = dec_pending
  BY DEF Deliver
<1>4. Take(out, k) \in Seq(Octet) /\ Drop(out, k) \in Seq(Octet)
  BY <1>2, TakeProperties
<1>5. WriterOK' /\ EncOK'
  BY WriterKept DEF Deliver
<1>6. DecOK'
  BY <1>1, <1>3, <1>4 DEF DecOK
<1>7. InStep'
  <2>1. CASE k = Len(out)
    <3>1. view' = out /\ whole'
      BY <1>1, <1>2, <2>1, TakeAll
    <3>. QED
      BY <1>2, <1>3, <3>1 DEF InStep
  <2>2. CASE k # Len(out)
    <3>1. Take(out, k) \o Drop(out, k) = out
      <4>1. SubSeq(out, 1, k) \o SubSeq(out, k + 1, Len(out)) = SubSeq(out, 1, Len(out))
        <5>1. 1 \in 1 .. Len(out) + 1 /\ k \in 1 - 1 .. Len(out) /\ Len(out) \in k .. Len(out)
          BY <1>2, LenProperties
        <5>. QED
          BY <1>2, <5>1, ConcatAdjacentSubSeq
      <4>. QED
        BY <1>2, <4>1, SubSeqFull DEF Take, Drop
    <3>2. IsPrefix(Take(out, k), out)
      BY <1>2, <1>4, <3>1, PrefixSplits
    <3>. QED
      BY <1>1, <1>2, <1>3, <2>2, <3>2 DEF InStep
  <2>. QED
    BY <2>1, <2>2
<1>8. ReaderOK'
  BY <1>2, <1>3, <1>7 DEF ReaderOK, RoundTrip
<1>. QED
  BY <1>5, <1>6, <1>8

(* Another message starts from an empty buffer and an empty view.          *)
LEMMA NextMessageStep ==
  ASSUME LinkInv, NextMessage
  PROVE  LinkInv'
<1>. USE DEF LinkInv
<1>1. /\ out' = << >> /\ enc_level' = enc_level /\ enc_pending' = enc_pending
      /\ todo' \in Scripts /\ sent' = << >> /\ expected' = << >> /\ asked' = NoCall
      /\ view' = << >> /\ dec_level' = dec_level /\ dec_pending' = dec_pending
  BY DEF NextMessage, Enc!next_buffer, Enc!NewBuffer
<1>2. EncOK' /\ DecOK'
  BY <1>1, EmptySeq DEF EncOK, DecOK
<1>3. WriterOK'
  <2>1. WellFormed(todo')
    BY <1>1, LinkAssumption
  <2>2. todo' \in Seq(AnyCall) /\ << >> \in Seq(AnyCall)
    BY <2>1, EmptySeq DEF WellFormed
  <2>3. sent' \o todo' = todo'
    BY <1>1, <2>2, ConcatEmptySeq
  <2>. QED
    BY <1>1, <2>1, <2>2, <2>3, WireEmpty DEF WriterOK
<1>4. ReaderOK'
  BY <1>1, WellFormedEmpty DEF ReaderOK, InStep, RoundTrip
<1>. QED
  BY <1>2, <1>3, <1>4

(* The call that is read next, and the octets of the calls after it.       *)
LEMMA NextExpected ==
  ASSUME WellFormed(expected), expected # << >>, view \in Seq(Octet), InStep
  PROVE  LET call == Head(expected)
             rest == Wire(Tail(expected))
         IN  /\ call \in GoodCall /\ WellFormed(Tail(expected)) /\ rest \in Seq(Octet)
             /\ call.op = "sequence_header" => call.data[1] <= Len(rest)
             /\ Enc!Piece(call) \in Seq(Octet)
             /\ \E more \in Seq(Octet) :
                  view \o more = Enc!Piece(call) \o rest /\ (whole => more = << >>)
<1>1. PICK more : Missing(more)
  BY InStepIsMissing
<1>2. Wire(expected) = Enc!Piece(Head(expected)) \o Wire(Tail(expected))
  BY WellFormedCalls, WireHead
<1>3. /\ WellFormed(Tail(expected)) /\ Head(expected) \in GoodCall
      /\ Head(expected).op = "sequence_header" => Head(expected).data[1] <= Len(Wire(Tail(expected)))
  BY WellFormedTail
<1>4. Wire(Tail(expected)) \in Seq(Octet)
  BY <1>3, WellFormedCalls, WireOctets
<1>. QED
  BY <1>1, <1>2, <1>3, <1>4, PieceOctets DEF Missing

(* A read that leaves the octets of the calls after it keeps in step.      *)
LEMMA StaysInStep ==
  ASSUME WellFormed(expected), expected # << >>, view' \in Seq(Octet), whole' = whole,
         expected' = IF got'.err = "ok" THEN Tail(expected) ELSE << >>,
         NEW more \in Seq(Octet), whole => more = << >>,
         got'.err = "ok" => view' \o more = Wire(Tail(expected))
  PROVE  WellFormed(expected') /\ InStep'
<1>1. WellFormed(Tail(expected)) /\ Tail(expected) = Tail(expected)
  BY WellFormedTail
<1>2. CASE got'.err = "ok"
  <2>1. expected' = Tail(expected) /\ view' \o more = Wire(expected')
    BY <1>2
  <2>2. Wire(expected') \in Seq(Octet)
    BY <1>1, <2>1, WellFormedCalls, WireOctets
  <2>3. CASE whole
    <3>1. view' \o << >> = view'
      BY ConcatEmptySeq
    <3>2. view' = Wire(expected')
      BY <2>1, <2>3, <3>1
    <3>. QED
      BY <1>1, <2>1, <2>3, <3>2 DEF InStep
  <2>4. CASE ~ whole
    <3>1. IsPrefix(view', Wire(expected'))
      BY <2>1, <2>2, PrefixSplits
    <3>. QED
      BY <1>1, <2>1, <2>4, <3>1 DEF InStep
  <2>. QED
    BY <2>3, <2>4
<1>3. CASE got'.err # "ok"
  BY <1>3, WellFormedEmpty DEF InStep
<1>. QED
  BY <1>2, <1>3

(* The operations of the reader are reads.                                 *)
LEMMA DecodeIsRead ==
  ASSUME DecOK, NEW op \in Elements \ {"skip_tlv"}, Decode(op)
  PROVE  DecOK' /\ Reads(op)
<1>1. CASE op = "integer"
  BY <1>1, DecodeIntegerReads, SMT DEF Decode
<1>2. CASE op # "integer"
  <2>1. Dec!Decode(op)
    <3>1. CASE op = "enumerated"
      BY <3>1, SMT DEF Decode, Dec!decode_enumerated
    <3>2. CASE op = "boolean"
      BY <3>2, SMT DEF Decode, Dec!decode_boolean
    <3>3. CASE op = "null"
      BY <3>3, SMT DEF Decode, Dec!decode_null
    <3>4. CASE op = "octet_string"
      BY <3>4, SMT DEF Decode, Dec!decode_octet_string
    <3>5. CASE op = "bit_string"
      BY <3>5, SMT DEF Decode, Dec!decode_bit_string
    <3>6. CASE op = "oid"
      BY <3>6, SMT DEF Decode, Dec!decode_oid
    <3>7. CASE op = "tlv"
      BY <3>7, SMT DEF Decode, Dec!read_tlv
    <3>8. CASE op = "sequence_header"
      BY <3>8, SMT DEF Decode, Dec!decode_sequence_header
    <3>. QED
      BY <1>2, <3>1, <3>2, <3>3, <3>4, <3>5, <3>6, <3>7, <3>8 DEF Elements
  <2>. QED
    BY <1>2, <2>1, DecodeReads
<1>. QED
  BY <1>1, <1>2

(* A read takes the octets of the call expected and answers its value, or  *)
(* fails, and then the message was cut.                                    *)
LEMMA ReadNextStep ==
  ASSUME LinkInv, ReadNext
  PROVE  LinkInv'
<1>. USE DEF LinkInv
<1>. DEFINE call == Head(expected)
            rest == Wire(Tail(expected))
<1>1. /\ expected # << >> /\ Decode(call.op) /\ asked' = call
      /\ expected' = IF got'.err = "ok" THEN Tail(expected) ELSE << >>
      /\ whole' = whole /\ UNCHANGED encoder_vars /\ UNCHANGED <<todo, sent>>
  BY DEF ReadNext
<1>2. view \in Seq(Octet)
  BY DEF DecOK
<1>3. /\ call \in GoodCall /\ rest \in Seq(Octet)
      /\ call.op = "sequence_header" => call.data[1] <= Len(rest)
  BY <1>1, <1>2, NextExpected DEF ReaderOK
<1>4. PICK more \in Seq(Octet) :
        view \o more = Enc!Piece(call) \o rest /\ (whole => more = << >>)
  BY <1>1, <1>2, NextExpected DEF ReaderOK
<1>5. WriterOK' /\ EncOK'
  BY <1>1, WriterKept
<1>6. /\ DecOK'
      /\ got'.err = "ok" => /\ view' \o more = rest /\ got'.data = call.data
                            /\ call.op # "sequence_end" => got'.tag = call.tag
      /\ got'.err # "ok" => ~ whole
  <2>1. CASE call.op = "sequence_end"
    <3>1. Dec!decode_sequence_end
      <4>1. Decode("sequence_end")
        BY <1>1, <2>1
      <4>. QED
        BY <4>1, SMT DEF Decode
    <3>. QED
      BY <1>3, <1>4, <2>1, <3>1, EndReads
  <2>2. CASE call.op # "sequence_end"
    <3>. DEFINE r == ReadElement(call.op, view)
    <3>1. call.op \in Elements \ {"skip_tlv"}
      BY <1>3, <2>2 DEF GoodCall, AnyCall
    <3>2. DecOK' /\ Reads(call.op)
      BY <1>1, <3>1, DecodeIsRead
    <3>3. CASE r.err = "ok"
      <4>1. /\ r.tag = call.tag /\ r.rest \o more = rest /\ Value(call.op, r) = call.data
        <5>. HIDE DEF call, rest
        <5>1. Completes(view, more, call, rest)
          BY <1>4 DEF Completes
        <5>. QED
          BY <1>2, <1>3, <5>1, <2>2, <3>3, CutCallReads
      <4>2. view' = r.rest /\ got' = Dec!Answer(call.op, "ok", r.tag, Value(call.op, r))
        BY <3>2, <3>3 DEF Reads
      <4>. HIDE DEF r
      <4>3. got'.err = "ok" /\ got'.tag = r.tag /\ got'.data = Value(call.op, r)
        BY <4>2 DEF Dec!Answer
      <4>. QED
        BY <3>2, <4>1, <4>2, <4>3
    <3>4. CASE r.err # "ok"
      <4>1. got'.err # "ok"
        BY <3>2, <3>4 DEF Reads
      <4>2. ~ whole
        <5>. SUFFICES ASSUME whole PROVE FALSE
          OBVIOUS
        <5>1. view = Enc!Piece(call) \o rest
          BY <1>2, <1>4, ConcatEmptySeq
        <5>. QED
          BY <1>3, <2>2, <3>4, <5>1, WholeCallReads
      <4>. QED
        BY <3>2, <4>1, <4>2
    <3>. QED
      BY <3>3, <3>4
  <2>. QED
    BY <2>1, <2>2
<1>7. WellFormed(expected') /\ InStep'
  <2>1. view' \in Seq(Octet)
    BY <1>6 DEF DecOK
  <2>. QED
    BY <1>1, <1>4, <1>6, <2>1, StaysInStep DEF ReaderOK
<1>8. RoundTrip'
  BY <1>1, <1>6 DEF RoundTrip
<1>. QED
  BY <1>5, <1>6, <1>7, <1>8 DEF ReaderOK

(* A skip takes the octets of the call expected.                           *)
LEMMA SkipNextStep ==
  ASSUME LinkInv, SkipNext
  PROVE  LinkInv'
<1>. USE DEF LinkInv
<1>. DEFINE call == Head(expected)
            rest == Wire(Tail(expected))
            r    == ReadElement("skip_tlv", view)
<1>1. /\ expected # << >> /\ call.op \notin {"sequence_header", "sequence_end"}
      /\ Dec!Decode("skip_tlv") /\ asked' = NoCall
      /\ expected' = IF got'.err = "ok" THEN Tail(expected) ELSE << >>
      /\ whole' = whole /\ UNCHANGED encoder_vars /\ UNCHANGED <<todo, sent>>
  BY DEF SkipNext, Dec!skip_tlv
<1>2. view \in Seq(Octet)
  BY DEF DecOK
<1>3. call \in GoodCall /\ rest \in Seq(Octet)
  BY <1>1, <1>2, NextExpected DEF ReaderOK
<1>4. PICK more \in Seq(Octet) :
        view \o more = Enc!Piece(call) \o rest /\ (whole => more = << >>)
  BY <1>1, <1>2, NextExpected DEF ReaderOK
<1>5. WriterOK' /\ EncOK'
  BY <1>1, WriterKept
<1>6. DecOK' /\ Reads("skip_tlv")
  <2>1. "skip_tlv" \in Elements \ {"integer"}
    BY DEF Elements
  <2>. QED
    BY <1>1, <2>1, DecodeReads
<1>7. got'.err = "ok" => view' \o more = rest
  <2>1. got'.err = "ok" => r.err = "ok" /\ view' = r.rest
    BY <1>6 DEF Reads
  <2>. HIDE DEF call, rest
  <2>2. Completes(view, more, call, rest) /\ call.op \notin {"sequence_header", "sequence_end"}
    BY <1>1, <1>4 DEF Completes
  <2>3. ASSUME ReadElement("skip_tlv", view).err = "ok"
        PROVE  ReadElement("skip_tlv", view).rest \o more = rest
    BY <1>2, <1>3, <2>2, <2>3, CutCallSkips
  <2>. QED
    BY <2>1, <2>3
<1>8. WellFormed(expected') /\ InStep'
  <2>1. view' \in Seq(Octet)
    BY <1>6 DEF DecOK
  <2>. QED
    BY <1>1, <1>4, <1>7, <2>1, StaysInStep DEF ReaderOK
<1>9. RoundTrip'
  BY <1>1 DEF RoundTrip
<1>. QED
  BY <1>5, <1>6, <1>8, <1>9 DEF ReaderOK

(* The flushes touch neither buffer nor view.                              *)
LEMMA FlushSteps ==
  ASSUME LinkInv, FlushEncoder \/ FlushDecoder
  PROVE  LinkInv'
<1>. USE DEF LinkInv
<1>1. CASE FlushEncoder
  <2>1. /\ out' = out /\ enc_level' = enc_level /\ enc_pending' = << >>
        /\ UNCHANGED decoder_vars /\ UNCHANGED app_vars
    BY <1>1 DEF FlushEncoder, Enc!flush_encode
  <2>2. EncOK'
    BY <2>1, EmptySeq DEF EncOK
  <2>3. WriterOK'
    BY <2>1 DEF WriterOK, app_vars
  <2>4. ReaderOK' /\ DecOK'
    BY <2>1, ReaderKept DEF app_vars
  <2>. QED
    BY <2>2, <2>3, <2>4
<1>2. CASE FlushDecoder
  <2>1. /\ view' = view /\ dec_level' = dec_level /\ dec_pending' = << >> /\ asked' = NoCall
        /\ UNCHANGED encoder_vars /\ UNCHANGED <<todo, sent, expected, whole>>
    BY <1>2 DEF FlushDecoder, Dec!flush_decode
  <2>2. DecOK'
    BY <2>1, EmptySeq DEF DecOK
  <2>3. WriterOK' /\ EncOK'
    BY <2>1, WriterKept
  <2>4. ReaderOK'
    BY <2>1 DEF ReaderOK, InStep, RoundTrip
  <2>. QED
    BY <2>2, <2>3, <2>4
<1>. QED
  BY <1>1, <1>2

(* No step breaks the invariant.                                           *)
LEMMA StepLinkInv == LinkInv /\ [Next]_vars => LinkInv'
<1>. SUFFICES ASSUME LinkInv, [Next]_vars PROVE LinkInv'
  OBVIOUS
<1>1. CASE UNCHANGED vars
  BY <1>1, ReaderKept, WriterKept DEF LinkInv, vars, app_vars
<1>. QED
  BY <1>1, WriteNextStep, DeliverStep, NextMessageStep, ReadNextStep, SkipNextStep, FlushSteps
     DEF Next

(* The inductive invariant: what is written is what was sent, and what is  *)
(* to read is what is expected.                                            *)
THEOREM LinkInvariant == Spec => []LinkInv
BY InitLinkInv, StepLinkInv, PTL DEF Spec

(* Reader and writer stay in step for every well-formed message, every word *)
(* size, buffer size and batch width, and every cut (InStep).              *)
THEOREM LinkInStep == Spec => []InStep
<1>1. LinkInv => InStep
  BY DEF LinkInv, ReaderOK
<1>. QED
  BY <1>1, LinkInvariant, PTL

(* A decoded value is the encoded one, or an error; on a message that is   *)
(* complete it is the value (RoundTrip).                                   *)
THEOREM LinkRoundTrip == Spec => []RoundTrip
<1>1. LinkInv => RoundTrip
  BY DEF LinkInv, ReaderOK
<1>. QED
  BY <1>1, LinkInvariant, PTL
=============================================================================
