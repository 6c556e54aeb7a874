----------------------------- MODULE BerEncoder -----------------------------
(***************************************************************************)
(* ber_encoder: one encoder object, the buffers its caller hands it and    *)
(* the pending_ batch that encode_integer fills behind the caller's back.  *)
(* The batch outlives a buffer: nothing empties it but a full batch and    *)
(* flush_encode.                                                           *)
(***************************************************************************)
EXTENDS ArchCodec, TlvWriter

VARIABLES
  level,    (* arch::available_simd_level(), found once in a process *)
  pending   (* pending_: the slots not yet drained *)

vars == <<out, capacity, ret, level, pending>>

batch_size == batch_width(level)

-----------------------------------------------------------------------------
(* Every encoder checks the room for all it will write, then writes.       *)
Room(size) == Len(out) + size <= capacity

Answer(call, err) == ret' = [call |-> call, err |-> err]

(* A mutant: the octets are written whatever the room. *)
Put_anyway(call, octets, size) ==
  out' = out \o octets /\ Answer(call, "ok") /\ UNCHANGED <<capacity, level>>

Put(call, octets, size) ==
  /\ IF Room(size)
       THEN out' = out \o octets /\ Answer(call, "ok")
       ELSE out' = out /\ Answer(call, "buffer_overflow")
  /\ UNCHANGED <<capacity, level>>

PutElement(op, t, data, contents) ==
  Put(Call(op, t, data), encode_tlv(t, contents), encode_tlv_size(t, contents))

(* A mutant: a value in a batch that is not full waits to be written. *)
encode_integer_deferred(v) ==
  LET slots == Append(pending, EncodeSlot(v))
  IN  /\ pending' = IF Len(slots) = batch_size THEN << >> ELSE slots
      /\ IF Len(slots) = batch_size
           THEN PutElement("integer", INTEGER_TAG, <<v>>, encode_integer_bytes(v))
           ELSE Answer(Call("integer", INTEGER_TAG, <<v>>), "ok")
                /\ UNCHANGED <<out, capacity, level>>

(* The slot joins the batch before anything is checked; a full batch is    *)
(* encoded into scratch memory, and only the error of its last slot, the   *)
(* value of this call, is looked at.                                       *)
encode_integer(v) ==
  LET slots  == Append(pending, EncodeSlot(v))
      full   == Len(slots) = batch_size
      errors == batch_encode_integers(slots)
  IN  /\ pending' = IF full THEN << >> ELSE slots
      /\ IF full /\ errors[batch_size] # "ok"
           THEN /\ Answer(Call("integer", INTEGER_TAG, <<v>>), errors[batch_size])
                /\ UNCHANGED <<out, capacity, level>>
           ELSE PutElement("integer", INTEGER_TAG, <<v>>, encode_integer_bytes(v))

encode_boolean(b) ==
  PutElement("boolean", BOOLEAN_TAG, <<b>>, <<b>>) /\ UNCHANGED pending

encode_null == PutElement("null", NULL_TAG, << >>, << >>) /\ UNCHANGED pending

encode_octet_string(data) ==
  PutElement("octet_string", OCTET_STRING_TAG, data, data) /\ UNCHANGED pending

(* A mutant: the unused-bits octet is left out. *)
encode_bit_string_bare(unused_bits, data) ==
  /\ PutElement("bit_string", BIT_STRING_TAG, <<unused_bits>> \o data, data)
  /\ UNCHANGED pending

encode_bit_string(unused_bits, data) ==
  /\ PutElement("bit_string", BIT_STRING_TAG, <<unused_bits>> \o data, <<unused_bits>> \o data)
  /\ UNCHANGED pending

encode_enumerated(v) ==
  /\ PutElement("enumerated", ENUMERATED_TAG, <<v>>, encode_integer_bytes(v))
  /\ UNCHANGED pending

encode_oid(encoded_oid) ==
  PutElement("oid", OID_TAG, encoded_oid, encoded_oid) /\ UNCHANGED pending

write_tlv(t, value) == PutElement("tlv", t, value, value) /\ UNCHANGED pending

encode_sequence_header(t, length) ==
  /\ Put(Call("sequence_header", t, <<length>>),
         encode_tag(t) \o encode_length(length), encoded_header_size(t, length))
  /\ UNCHANGED pending

encode_sequence_end ==
  /\ Put(Call("sequence_end", make_universal(0), << >>), encode_end_of_content, 2)
  /\ UNCHANGED pending

flush_encode ==
  /\ ret' = [NoCall EXCEPT !.err = first_error(batch_encode_integers(pending))]
  /\ pending' = << >>
  /\ UNCHANGED <<out, capacity, level>>

(* The caller's own step: it goes on with another buffer.                  *)
next_buffer == NewBuffer /\ UNCHANGED <<level, pending>>

-----------------------------------------------------------------------------
BerInit == WriterInit /\ level \in SimdLevel /\ pending = << >>

BerNext ==
  \/ \E v \in Ints : encode_integer(v)
  \/ \E v \in Ints : encode_enumerated(v)
  \/ \E b \in {0, 255} : encode_boolean(b)
  \/ encode_null
  \/ \E s \in Strings : encode_octet_string(s)
  \/ \E u \in UnusedBits, s \in Strings : encode_bit_string(u, s)
  \/ \E s \in Strings : encode_oid(s)
  \/ \E t \in Tags, s \in Strings : write_tlv(t, s)
  \/ \E t \in Tags, n \in Lengths : encode_sequence_header(t, n)
  \/ encode_sequence_end
  \/ flush_encode
  \/ next_buffer

BerSpec == BerInit /\ [][BerNext]_vars

-----------------------------------------------------------------------------
error_code == {"ok", "buffer_overflow", "invalid_length"}

Slot == [size : Nat, value : SWord]

(* Every variable holds a value of its type; the octets written are octets *)
(* and never more than the buffer has.                                     *)
TypeOK ==
  /\ out \in Seq(Octet)
  /\ capacity \in Capacities /\ Len(out) <= capacity
  /\ ret \in [call : Calls \cup {NoCall.call}, err : error_code]
  /\ level \in SimdLevel
  /\ pending \in Seq(Slot)

(* batch_buffer::push must not be called on a full buffer and does not     *)
(* check it, and value_buf of a slot has 8 octets although the scratch     *)
(* buffer it is copied from has 9.  Between two calls the batch is short   *)
(* of the drain threshold, the threshold is within the array, and every    *)
(* slot holds a value that its own size can carry.                         *)
BatchInBounds ==
  /\ Len(pending) < batch_size
  /\ batch_size <= kMaxBatchSize
  /\ \A i \in DOMAIN pending :
       pending[i].size \in 1 .. WordOctets /\ Fits(pending[i].value, pending[i].size)

(* The batch is transparent: whatever the batch held before, across buffer *)
(* changes and failed calls, each call of ber_encoder answers and writes   *)
(* exactly what the unbatched writer does (encoder.hpp: "Uses              *)
(* SIMD-accelerated batch encoding transparently").                        *)
Transparent == WriterSpec
=============================================================================
