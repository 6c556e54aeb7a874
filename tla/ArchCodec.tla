------------------------------ MODULE ArchCodec ------------------------------
(***************************************************************************)
(* arch_codec.hpp: the batch primitives behind the pending_ buffers of the *)
(* codecs, as functions from a sequence of slots to the sequence of their  *)
(* results.  The SIMD loads and stores they dispatch to compute the same   *)
(* words at every level, so only the error rules and the sign extension    *)
(* are kept.                                                               *)
(***************************************************************************)
EXTENDS Word

(* available_simd_level(), and the batch_size() every codec derives from   *)
(* it; the batch buffers have room for the widest.                         *)
SimdLevel == {"scalar", "neon", "sse42", "avx2"}

kMaxBatchSize == 4

batch_width(simd_level) ==
  CASE simd_level = "avx2" -> 4
    [] simd_level \in {"sse42", "neon"} -> 2
    [] simd_level = "scalar" -> 1

(* A slot of an encoder's batch, and of a decoder's batch. *)
EncodeSlot(v) == [size |-> encoded_integer_size(v), value |-> v]
DecodeSlot(bytes) == [size |-> Len(bytes), value_buf |-> bytes]

(* errors[i] of batch_encode_integers: the value must fit the size asked.  *)
encode_error(slot) ==
  CASE slot.size = 0 -> "invalid_length"
    [] slot.size > WordOctets -> "buffer_overflow"
    [] slot.size \in 1 .. WordOctets ->
         IF slot.size < WordOctets /\ ~ Fits(slot.value, slot.size)
           THEN "buffer_overflow" ELSE "ok"

batch_encode_integers(slots) == [i \in DOMAIN slots |-> encode_error(slots[i])]

(* A mutant: the raw words are returned without sign extension. *)
batch_decode_unsigned(slots) ==
  [i \in DOMAIN slots |-> [err |-> "ok", value |-> Unsigned(slots[i].value_buf)]]

(* out[i] and errors[i] of batch_decode_integers.  The raw word is sign    *)
(* extended when its top bit is set; a full word is reinterpreted.         *)
batch_decode_integers(slots) ==
  [i \in DOMAIN slots |->
     LET n   == slots[i].size
         raw == Unsigned(slots[i].value_buf)
     IN  CASE n = 0 -> [err |-> "invalid_length", value |-> 0]
           [] n > WordOctets -> [err |-> "buffer_overflow", value |-> 0]
           [] n \in 1 .. WordOctets ->
                [err |-> "ok",
                 value |-> IF Negative(slots[i].value_buf)
                             THEN raw - Weight[n] ELSE raw]]

(* The first error of a drained batch, as the flush functions return it. *)
first_error(errors) ==
  LET bad == {i \in DOMAIN errors : errors[i] # "ok"}
  IN  IF bad = {} THEN "ok" ELSE errors[Min(bad)]

=============================================================================
