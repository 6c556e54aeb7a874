-------------------------- MODULE BerEncoderProofs --------------------------
(***************************************************************************)
(* ber_encoder, for every word size, every batch size the code can detect, *)
(* and all values, strings, tags and buffers: the batch stays in bounds    *)
(* and is invisible to the caller.                                         *)
(*                                                                         *)
(* IInv is inductive.  Transparency rests on it in one place only: a full  *)
(* batch reports no error because every slot in it, and the one just       *)
(* pushed, holds a value that fits the size computed for it.               *)
(***************************************************************************)
EXTENDS BerEncoder, OctetTheorems

IInv == TypeOK /\ BatchInBounds

(* The part of TypeOK that is about the caller's side. *)
BufferOK ==
  /\ out \in Seq(Octet)
  /\ capacity \in Capacities /\ Len(out) <= capacity
  /\ ret \in [call : Calls \cup {NoCall.call}, err : error_code]
  /\ level \in SimdLevel

GoodSlot(s) ==
  s \in Slot /\ s.size \in 1 .. WordOctets /\ Fits(s.value, s.size)

-----------------------------------------------------------------------------
(* The slot encode_integer pushes carries its value.                       *)
LEMMA NewSlotIsGood ==
  ASSUME NEW v \in SWord
  PROVE  GoodSlot(EncodeSlot(v))
<1>1. encoded_integer_size(v) \in 1 .. WordOctets /\ Fits(v, encoded_integer_size(v))
  BY EncodedSizeFits
<1>2. 1 .. WordOctets \subseteq Nat
  BY WordAssumption
<1>. QED
  BY <1>1, <1>2 DEF GoodSlot, EncodeSlot, Slot

(* Batch encoding reports an error only for a slot that is not good.       *)
LEMMA GoodSlotsEncode ==
  ASSUME NEW slots \in Seq(Slot), \A i \in DOMAIN slots : GoodSlot(slots[i])
  PROVE  \A i \in DOMAIN slots : batch_encode_integers(slots)[i] = "ok"
<1>. SUFFICES ASSUME NEW i \in DOMAIN slots
              PROVE  encode_error(slots[i]) = "ok"
  BY DEF batch_encode_integers
<1>1. slots[i].size \in 1 .. WordOctets /\ Fits(slots[i].value, slots[i].size)
  BY DEF GoodSlot
<1>2. WordOctets \in Nat
  BY WordAssumption
<1>3. slots[i].size # 0 /\ ~ (slots[i].size > WordOctets)
  BY <1>1, <1>2
<1>. QED
  BY <1>1, <1>3 DEF encode_error

(* A string leaves room in a size_t for the unused-bits octet.             *)
LEMMA ShorterLength ==
  \A s \in Strings : s \in Seq(Octet) /\ Len(s) \in UWord
<1>. SUFFICES ASSUME NEW s \in Strings PROVE s \in Seq(Octet) /\ Len(s) \in UWord
  OBVIOUS
<1>1. s \in Seq(Octet) /\ Len(s) + 1 \in UWord
  BY WriterAssumption
<1>2. Weight[WordOctets] \in Nat
  BY WordAssumption, WeightIsNat
<1>. QED
  BY <1>1, <1>2 DEF UWord

(* Every level found at run time fits the batch array, and none is empty.  *)
LEMMA BatchSizeBounds ==
  ASSUME level \in SimdLevel
  PROVE  batch_size \in 1 .. kMaxBatchSize
BY DEF SimdLevel, batch_size, batch_width, kMaxBatchSize

-----------------------------------------------------------------------------
(* What Put does when the octets are those of the call and the size is     *)
(* their number: one step of the unbatched writer.                         *)
LEMMA PutIsWrite ==
  ASSUME BufferOK,
         NEW call \in Calls, NEW octets \in Seq(Octet),
         Piece(call) = octets,
         Put(call, octets, Len(octets))
  PROVE  Write(call) /\ BufferOK'
<1>1. capacity \in Nat /\ Len(out) \in Nat /\ Len(octets) \in Nat
  BY WriterAssumption DEF BufferOK
<1>2. CASE Room(Len(octets))
  <2>1. /\ out' = out \o octets
        /\ ret' = [call |-> call, err |-> "ok"]
        /\ capacity' = capacity /\ level' = level
    BY <1>2 DEF Put, Answer
  <2>2. out \o octets \in Seq(Octet) /\ Len(out \o octets) = Len(out) + Len(octets)
    BY DEF BufferOK
  <2>3. Write(call)
    BY <1>2, <2>1 DEF Write, Room
  <2>. QED
    BY <1>2, <2>1, <2>2, <2>3 DEF BufferOK, Room, error_code
<1>3. CASE ~ Room(Len(octets))
  <2>1. /\ out' = out
        /\ ret' = [call |-> call, err |-> "buffer_overflow"]
        /\ capacity' = capacity /\ level' = level
    BY <1>3 DEF Put, Answer
  <2>2. Write(call)
    BY <1>3, <2>1 DEF Write, Room
  <2>. QED
    BY <2>1, <2>2 DEF BufferOK, error_code
<1>. QED
  BY <1>2, <1>3

(* encode_tlv checks for the size it writes, so it writes all or nothing.  *)
LEMMA PutElementIsWrite ==
  ASSUME BufferOK,
         NEW op, NEW t \in Tag, NEW data,
         NEW contents \in Seq(Octet), Len(contents) \in UWord,
         Call(op, t, data) \in Calls,
         Piece(Call(op, t, data)) = encode_tlv(t, contents),
         PutElement(op, t, data, contents)
  PROVE  Write(Call(op, t, data)) /\ BufferOK'
<1>1. /\ encode_tlv(t, contents) \in Seq(Octet)
      /\ Len(encode_tlv(t, contents)) = encode_tlv_size(t, contents)
  BY EncodeTlvOctets
<1>2. Put(Call(op, t, data), encode_tlv(t, contents), Len(encode_tlv(t, contents)))
  BY <1>1 DEF PutElement
<1>. QED
  BY <1>1, <1>2, PutIsWrite

(* An INTEGER or an ENUMERATED is written in its shortest form.            *)
LEMMA IntegerIsWrite ==
  ASSUME BufferOK, NEW v \in Ints,
         NEW op, NEW t,
         \/ op = "integer" /\ t = INTEGER_TAG
         \/ op = "enumerated" /\ t = ENUMERATED_TAG,
         PutElement(op, t, <<v>>, encode_integer_bytes(v))
  PROVE  Call(op, t, <<v>>) \in Calls /\ Write(Call(op, t, <<v>>)) /\ BufferOK'
<1>1. v \in SWord
  BY WriterAssumption
<1>2. /\ encode_integer_bytes(v) \in Seq(Octet)
      /\ Len(encode_integer_bytes(v)) \in UWord
      /\ encode_integer_bytes(v) = Shortest(v)
  BY <1>1, IntegerOctets DEF Shortest
<1>3. Call(op, t, <<v>>) \in Calls
  BY DEF Calls
<1>4. Piece(Call(op, t, <<v>>)) = encode_tlv(t, encode_integer_bytes(v))
  BY <1>2 DEF Piece, Call
<1>5. t \in Tag
  BY ElementTags
<1>. QED
  BY <1>2, <1>3, <1>4, <1>5, PutElementIsWrite

-----------------------------------------------------------------------------
(* A new encoder has an empty batch.                                       *)
LEMMA InitIInv == BerInit => IInv
<1>. SUFFICES ASSUME BerInit PROVE IInv
  OBVIOUS
<1>1. level \in SimdLevel /\ pending = << >> /\ out = << >> /\ capacity \in Capacities
  BY DEF BerInit, WriterInit
<1>2. ret = NoCall /\ NoCall \in [call : {NoCall.call}, err : error_code]
  BY DEF BerInit, WriterInit, NoCall, error_code
<1>3. capacity \in Nat
  BY <1>1, WriterAssumption
<1>4. TypeOK
  BY <1>1, <1>2, <1>3 DEF TypeOK
<1>5. batch_size \in 1 .. kMaxBatchSize
  BY <1>1, BatchSizeBounds
<1>. QED
  BY <1>1, <1>4, <1>5 DEF IInv, BatchInBounds, kMaxBatchSize

(* encode_integer: the batch grows by a good slot or is emptied, and the   *)
(* call is a step of the unbatched writer.                                 *)
LEMMA EncodeIntegerStep ==
  ASSUME IInv, NEW v \in Ints, encode_integer(v)
  PROVE  IInv' /\ \E call \in Calls : Write(call)
<1>. DEFINE slots  == Append(pending, EncodeSlot(v))
            full   == Len(slots) = batch_size
            errors == batch_encode_integers(slots)
<1>1. /\ BufferOK /\ pending \in Seq(Slot)
      /\ Len(pending) < batch_size /\ batch_size \in 1 .. 4
      /\ \A i \in DOMAIN pending : GoodSlot(pending[i])
  BY BatchSizeBounds, ElementOfSeq DEF IInv, TypeOK, BufferOK, BatchInBounds, GoodSlot, kMaxBatchSize
<1>2. GoodSlot(EncodeSlot(v)) /\ EncodeSlot(v) \in Slot
  <2>1. v \in SWord
    BY WriterAssumption
  <2>. QED
    BY <2>1, NewSlotIsGood DEF GoodSlot
<1>3. /\ slots \in Seq(Slot) /\ Len(slots) = Len(pending) + 1
      /\ \A i \in DOMAIN slots : GoodSlot(slots[i])
  BY <1>1, <1>2, AppendProperties
<1>4. full => batch_size \in DOMAIN slots
  BY <1>1, <1>3
<1>5. full => errors[batch_size] = "ok"
  BY <1>3, <1>4, GoodSlotsEncode
<1>6. /\ pending' = IF full THEN << >> ELSE slots
      /\ PutElement("integer", INTEGER_TAG, <<v>>, encode_integer_bytes(v))
  BY <1>5 DEF encode_integer
<1>7. /\ Call("integer", INTEGER_TAG, <<v>>) \in Calls
      /\ Write(Call("integer", INTEGER_TAG, <<v>>)) /\ BufferOK'
  BY <1>1, <1>6, IntegerIsWrite
<1>8. level' = level /\ batch_size' = batch_size
  BY <1>6 DEF PutElement, Put, batch_size
<1>. HIDE DEF slots, full, errors
<1>9. /\ pending' \in Seq(Slot) /\ Len(pending') < batch_size'
      /\ \A i \in DOMAIN pending' : GoodSlot(pending'[i])
  <2>1. CASE full
    BY <1>1, <1>6, <1>8, <2>1
  <2>2. CASE ~ full
    BY <1>1, <1>3, <1>6, <1>8, <2>2 DEF full
  <2>. QED
    BY <2>1, <2>2
<1>. QED
  BY <1>1, <1>7, <1>8, <1>9 DEF IInv, TypeOK, BufferOK, BatchInBounds, GoodSlot, kMaxBatchSize

(* Every other call leaves the batch alone.                                *)
LEMMA PendingKept ==
  ASSUME IInv, BufferOK', UNCHANGED <<level, pending>>
  PROVE  IInv'
<1>1. batch_size' = batch_size
  BY DEF batch_size
<1>. QED
  BY <1>1 DEF IInv, TypeOK, BufferOK, BatchInBounds

(* encode_boolean is one call of the unbatched writer.                     *)
LEMMA EncodeBooleanStep ==
  ASSUME IInv, NEW b \in {0, 255}, encode_boolean(b)
  PROVE  IInv' /\ \E call \in Calls : Write(call)
<1>. DEFINE octets == <<b>>
            call   == Call("boolean", BOOLEAN_TAG, octets)
<1>1. octets \in Seq(Octet) /\ Len(octets) \in UWord /\ BOOLEAN_TAG \in Tag
  BY SmallLengths, ElementTags DEF Octet
<1>2. call \in Calls /\ Piece(call) = encode_tlv(BOOLEAN_TAG, octets)
  BY DEF Calls, Piece, Call
<1>3. BufferOK /\ PutElement("boolean", BOOLEAN_TAG, octets, octets)
  BY DEF IInv, TypeOK, BufferOK, encode_boolean
<1>4. UNCHANGED <<level, pending>>
  BY DEF encode_boolean, PutElement, Put
<1>. HIDE DEF octets
<1>5. Write(call) /\ BufferOK'
  BY <1>1, <1>2, <1>3, PutElementIsWrite
<1>. QED
  BY <1>2, <1>4, <1>5, PendingKept

(* encode_null is one call of the unbatched writer.                        *)
LEMMA EncodeNullStep ==
  ASSUME IInv, encode_null
  PROVE  IInv' /\ \E call \in Calls : Write(call)
<1>. DEFINE call == Call("null", NULL_TAG, << >>)
<1>1. << >> \in Seq(Octet) /\ Len(<< >>) \in UWord /\ NULL_TAG \in Tag
  BY SmallLengths, ElementTags
<1>2. call \in Calls /\ Piece(call) = encode_tlv(NULL_TAG, << >>)
  BY DEF Calls, Piece, Call
<1>3. BufferOK /\ PutElement("null", NULL_TAG, << >>, << >>)
  BY DEF IInv, TypeOK, BufferOK, encode_null
<1>4. Write(call) /\ BufferOK'
  BY <1>1, <1>2, <1>3, PutElementIsWrite
<1>. QED
  BY <1>2, <1>4, PendingKept DEF encode_null, PutElement, Put

(* encode_octet_string and encode_oid are calls of the unbatched writer.   *)
LEMMA EncodeStringStep ==
  ASSUME IInv, NEW s \in Strings, encode_octet_string(s) \/ encode_oid(s)
  PROVE  IInv' /\ \E call \in Calls : Write(call)
<1>1. s \in Seq(Octet) /\ Len(s) \in UWord
  BY ShorterLength
<1>2. OCTET_STRING_TAG \in Tag /\ OID_TAG \in Tag /\ BufferOK
  BY ElementTags DEF IInv, TypeOK, BufferOK
<1>3. CASE encode_octet_string(s)
  <2>. DEFINE call == Call("octet_string", OCTET_STRING_TAG, s)
  <2>1. call \in Calls /\ Piece(call) = encode_tlv(OCTET_STRING_TAG, s)
    BY DEF Calls, Piece, Call
  <2>2. Write(call) /\ BufferOK'
    BY <1>1, <1>2, <1>3, <2>1, PutElementIsWrite DEF encode_octet_string
  <2>. QED
    BY <1>3, <2>1, <2>2, PendingKept DEF encode_octet_string, PutElement, Put
<1>4. CASE encode_oid(s)
  <2>. DEFINE call == Call("oid", OID_TAG, s)
  <2>1. call \in Calls /\ Piece(call) = encode_tlv(OID_TAG, s)
    BY DEF Calls, Piece, Call
  <2>2. Write(call) /\ BufferOK'
    BY <1>1, <1>2, <1>4, <2>1, PutElementIsWrite DEF encode_oid
  <2>. QED
    BY <1>4, <2>1, <2>2, PendingKept DEF encode_oid, PutElement, Put
<1>. QED
  BY <1>3, <1>4

(* encode_bit_string puts the unused-bits octet before the data.           *)
LEMMA EncodeBitStringStep ==
  ASSUME IInv, NEW u \in UnusedBits, NEW s \in Strings, encode_bit_string(u, s)
  PROVE  IInv' /\ \E call \in Calls : Write(call)
<1>. DEFINE call == Call("bit_string", BIT_STRING_TAG, <<u>> \o s)
<1>1. <<u>> \o s \in Seq(Octet) /\ Len(<<u>> \o s) \in UWord
  <2>1. <<u>> \in Seq(Octet) /\ s \in Seq(Octet) /\ Len(s) + 1 \in UWord
    BY WriterAssumption
  <2>2. Len(<<u>> \o s) = Len(s) + 1
    BY <2>1
  <2>. QED
    BY <2>1, <2>2
<1>2. call \in Calls /\ Piece(call) = encode_tlv(BIT_STRING_TAG, <<u>> \o s)
  <2>1. call \in {Call("bit_string", BIT_STRING_TAG, <<w>> \o z) : w \in UnusedBits, z \in Strings}
    OBVIOUS
  <2>2. call \in Calls
    BY <2>1 DEF Calls
  <2>3. call.op = "bit_string" /\ call.tag = BIT_STRING_TAG /\ call.data = <<u>> \o s
    BY DEF Call
  <2>. HIDE DEF call
  <2>4. Piece(call) = encode_tlv(BIT_STRING_TAG, <<u>> \o s)
    BY <2>3 DEF Piece
  <2>. QED
    BY <2>2, <2>4
<1>3. /\ BIT_STRING_TAG \in Tag /\ BufferOK
      /\ PutElement("bit_string", BIT_STRING_TAG, <<u>> \o s, <<u>> \o s)
  BY ElementTags DEF IInv, TypeOK, BufferOK, encode_bit_string
<1>. HIDE DEF call
<1>4. Write(call) /\ BufferOK'
  BY <1>1, <1>2, <1>3, PutElementIsWrite DEF call
<1>. QED
  BY <1>2, <1>4, PendingKept DEF encode_bit_string, PutElement, Put

(* encode_enumerated writes past the batch.                                *)
LEMMA EncodeEnumeratedStep ==
  ASSUME IInv, NEW v \in Ints, encode_enumerated(v)
  PROVE  IInv' /\ \E call \in Calls : Write(call)
<1>1. BufferOK /\ PutElement("enumerated", ENUMERATED_TAG, <<v>>, encode_integer_bytes(v))
  BY DEF IInv, TypeOK, BufferOK, encode_enumerated
<1>2. /\ Call("enumerated", ENUMERATED_TAG, <<v>>) \in Calls
      /\ Write(Call("enumerated", ENUMERATED_TAG, <<v>>)) /\ BufferOK'
  BY <1>1, IntegerIsWrite
<1>. QED
  BY <1>2, PendingKept DEF encode_enumerated, PutElement, Put

(* encode_tlv, the member function, takes any tag.                         *)
LEMMA WriteTlvStep ==
  ASSUME IInv, NEW t \in Tags, NEW s \in Strings, write_tlv(t, s)
  PROVE  IInv' /\ \E call \in Calls : Write(call)
<1>. DEFINE call == Call("tlv", t, s)
<1>1. s \in Seq(Octet) /\ Len(s) \in UWord /\ t \in Tag
  BY ShorterLength, WriterAssumption
<1>2. call \in Calls /\ Piece(call) = encode_tlv(t, s)
  BY DEF Calls, Piece, Call
<1>3. BufferOK /\ PutElement("tlv", t, s, s)
  BY DEF IInv, TypeOK, BufferOK, write_tlv
<1>4. Write(call) /\ BufferOK'
  BY <1>1, <1>2, <1>3, PutElementIsWrite
<1>. QED
  BY <1>2, <1>4, PendingKept DEF write_tlv, PutElement, Put

(* encode_sequence_header checks the room for its own octets only.         *)
LEMMA EncodeSequenceHeaderStep ==
  ASSUME IInv, NEW t \in Tags, NEW n \in Lengths, encode_sequence_header(t, n)
  PROVE  IInv' /\ \E call \in Calls : Write(call)
<1>. DEFINE call   == Call("sequence_header", t, <<n>>)
            octets == encode_tag(t) \o encode_length(n)
<1>1. octets \in Seq(Octet) /\ Len(octets) = encoded_header_size(t, n)
  BY HeaderOctets, WriterAssumption
<1>2. call \in Calls /\ Piece(call) = octets
  BY DEF Calls, Piece, Call
<1>3. BufferOK /\ Put(call, octets, Len(octets))
  BY <1>1 DEF IInv, TypeOK, BufferOK, encode_sequence_header
<1>. HIDE DEF call, octets
<1>4. Write(call) /\ BufferOK'
  BY <1>1, <1>2, <1>3, PutIsWrite
<1>. QED
  BY <1>2, <1>4, PendingKept DEF encode_sequence_header, Put

(* encode_sequence_end writes the end-of-contents octets.                  *)
LEMMA EncodeSequenceEndStep ==
  ASSUME IInv, encode_sequence_end
  PROVE  IInv' /\ \E call \in Calls : Write(call)
<1>. DEFINE call == Call("sequence_end", make_universal(0), << >>)
<1>1. encode_end_of_content \in Seq(Octet) /\ Len(encode_end_of_content) = 2
  BY DEF encode_end_of_content, Octet
<1>2. call \in Calls /\ Piece(call) = encode_end_of_content
  BY DEF Calls, Piece, Call
<1>3. BufferOK /\ Put(call, encode_end_of_content, Len(encode_end_of_content))
  BY <1>1 DEF IInv, TypeOK, BufferOK, encode_sequence_end
<1>. HIDE DEF call
<1>4. Write(call) /\ BufferOK'
  BY <1>1, <1>2, <1>3, PutIsWrite
<1>. QED
  BY <1>2, <1>4, PendingKept DEF encode_sequence_end, Put

(* flush_encode finds no error and empties the batch.                      *)
LEMMA FlushStep ==
  ASSUME IInv, flush_encode
  PROVE  IInv' /\ Flush
<1>1. /\ pending \in Seq(Slot) /\ BufferOK
      /\ \A i \in DOMAIN pending : GoodSlot(pending[i])
  BY ElementOfSeq DEF IInv, TypeOK, BufferOK, BatchInBounds, GoodSlot
<1>2. \A i \in DOMAIN pending : batch_encode_integers(pending)[i] = "ok"
  BY <1>1, GoodSlotsEncode
<1>3. first_error(batch_encode_integers(pending)) = "ok"
  BY <1>2 DEF first_error, batch_encode_integers
<1>4. ret' = NoCall /\ pending' = << >> /\ UNCHANGED <<out, capacity, level>>
  BY <1>3 DEF flush_encode, NoCall
<1>5. batch_size' = batch_size /\ batch_size \in 1 .. 4
  BY <1>1, <1>4, BatchSizeBounds DEF batch_size, BufferOK, kMaxBatchSize
<1>6. BufferOK'
  BY <1>1, <1>4 DEF BufferOK, NoCall, error_code
<1>. QED
  BY <1>4, <1>5, <1>6 DEF IInv, TypeOK, BufferOK, BatchInBounds, Flush, kMaxBatchSize

(* A new buffer finds the batch as the old one left it.                    *)
LEMMA NextBufferStep ==
  ASSUME IInv, next_buffer
  PROVE  IInv' /\ NewBuffer
<1>1. /\ out' = << >> /\ capacity' \in Capacities /\ ret' = NoCall
      /\ UNCHANGED <<level, pending>>
  BY DEF next_buffer, NewBuffer
<1>2. capacity' \in Nat
  BY <1>1, WriterAssumption
<1>3. BufferOK'
  BY <1>1, <1>2 DEF IInv, TypeOK, BufferOK, NoCall, error_code
<1>. QED
  BY <1>1, <1>3, PendingKept DEF next_buffer

-----------------------------------------------------------------------------
(* Every step keeps the invariant and is a step of the unbatched writer.   *)
LEMMA StepIInv == IInv /\ [BerNext]_vars => IInv' /\ [WriterNext]_writer_vars
<1>. SUFFICES ASSUME IInv, [BerNext]_vars
              PROVE  IInv' /\ [WriterNext]_writer_vars
  OBVIOUS
<1>. USE DEF WriterNext
<1>1. ASSUME NEW v \in Ints, encode_integer(v)
      PROVE  IInv' /\ [WriterNext]_writer_vars
  BY <1>1, EncodeIntegerStep
<1>2. ASSUME NEW v \in Ints, encode_enumerated(v)
      PROVE  IInv' /\ [WriterNext]_writer_vars
  BY <1>2, EncodeEnumeratedStep
<1>3. ASSUME NEW b \in {0, 255}, encode_boolean(b)
      PROVE  IInv' /\ [WriterNext]_writer_vars
  BY <1>3, EncodeBooleanStep
<1>4. CASE encode_null
  BY <1>4, EncodeNullStep
<1>5. ASSUME NEW s \in Strings, encode_octet_string(s) \/ encode_oid(s)
      PROVE  IInv' /\ [WriterNext]_writer_vars
  BY <1>5, EncodeStringStep
<1>6. ASSUME NEW u \in UnusedBits, NEW s \in Strings, encode_bit_string(u, s)
      PROVE  IInv' /\ [WriterNext]_writer_vars
  BY <1>6, EncodeBitStringStep
<1>7. ASSUME NEW t \in Tags, NEW s \in Strings, write_tlv(t, s)
      PROVE  IInv' /\ [WriterNext]_writer_vars
  BY <1>7, WriteTlvStep
<1>8. ASSUME NEW t \in Tags, NEW n \in Lengths, encode_sequence_header(t, n)
      PROVE  IInv' /\ [WriterNext]_writer_vars
  BY <1>8, EncodeSequenceHeaderStep
<1>9. CASE encode_sequence_end
  BY <1>9, EncodeSequenceEndStep
<1>10. CASE flush_encode
  BY <1>10, FlushStep
<1>11. CASE next_buffer
  BY <1>11, NextBufferStep
<1>12. CASE UNCHANGED vars
  <2>1. UNCHANGED <<out, capacity, ret, level, pending>>
    BY <1>12 DEF vars
  <2>2. UNCHANGED writer_vars /\ BufferOK'
    BY <2>1 DEF writer_vars, IInv, TypeOK, BufferOK
  <2>. QED
    BY <2>1, <2>2, PendingKept
<1>. QED
  BY <1>1, <1>2, <1>3, <1>4, <1>5, <1>6, <1>7, <1>8, <1>9, <1>10, <1>11, <1>12
     DEF BerNext

(* Every reachable state of ber_encoder satisfies the inductive invariant. *)
THEOREM EncoderInvariant == BerSpec => []IInv
<1>1. BerInit => IInv
  BY InitIInv
<1>2. IInv /\ [BerNext]_vars => IInv'
  BY StepIInv
<1>. QED
  BY <1>1, <1>2, PTL DEF BerSpec

(* The variables of ber_encoder keep their types and the buffer is never   *)
(* overrun.                                                                *)
THEOREM EncoderTypeCorrect == BerSpec => []TypeOK
<1>1. IInv => TypeOK
  BY DEF IInv
<1>. QED
  BY <1>1, EncoderInvariant, PTL

(* push is never called on a full batch and no slot overflows its          *)
(* value_buf: the two preconditions that batch_buffer and encode_integer   *)
(* leave unchecked always hold.                                            *)
THEOREM EncoderBatchInBounds == BerSpec => []BatchInBounds
<1>1. IInv => BatchInBounds
  BY DEF IInv
<1>. QED
  BY <1>1, EncoderInvariant, PTL

(* ber_encoder implements the unbatched writer: batching is transparent    *)
(* for every SIMD level and every sequence of calls, failed ones included. *)
THEOREM EncoderTransparent == BerSpec => Transparent
<1>1. BerInit => WriterInit
  BY DEF BerInit
<1>2. IInv /\ [BerNext]_vars => [WriterNext]_writer_vars
  BY StepIInv
<1>. QED
  BY <1>1, <1>2, EncoderInvariant, PTL DEF BerSpec, Transparent, WriterSpec
=============================================================================
