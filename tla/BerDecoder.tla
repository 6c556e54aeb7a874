----------------------------- MODULE BerDecoder -----------------------------
(***************************************************************************)
(* ber_decoder (the build with heap strings): one decoder object, the      *)
(* views its caller hands it and the pending_ batch behind decode_integer. *)
(* Every decoder moves the view step by step: a call that fails leaves it  *)
(* after the last part it could read.                                      *)
(***************************************************************************)
EXTENDS ArchCodec, TlvReader

VARIABLES
  level,    (* arch::available_simd_level(), found once in a process *)
  pending   (* pending_: the contents of the INTEGERs not yet drained *)

vars == <<view, got, level, pending>>

batch_size == batch_width(level)

-----------------------------------------------------------------------------
(* The batch is drained when it reaches the width of the SIMD registers;   *)
(* a mutant: one push later.                                               *)
batch_full_late(slots) == Len(slots) > batch_size
batch_full(slots) == Len(slots) = batch_size

(* What a decoder other than decode_integer answers for good contents. *)
value_of(op, n, contents) ==
  CASE op = "enumerated" -> <<decode_integer_value(contents)>>
    [] op = "boolean" -> IF contents[1] # 0 THEN <<255>> ELSE <<0>>
    [] op \in {"null", "skip_tlv"} -> << >>
    [] op \in {"octet_string", "oid", "tlv"} -> contents
    [] op = "bit_string" -> <<contents[1]>> \o Drop(contents, 1)
    [] op = "sequence_header" -> <<n>>

Refuse(op, err) == got' = Answer(op, err, NULL_TAG, << >>)

Decode(op) ==
  LET r == ReadElement(op, view)
  IN  /\ view' = r.rest
      /\ IF r.err = "ok"
           THEN got' = Answer(op, "ok", r.tag, value_of(op, r.length, r.contents))
           ELSE Refuse(op, r.err)
      /\ UNCHANGED <<level, pending>>

(* The octets join the batch; the call that fills the batch takes its      *)
(* answer from the batch, the others decode their own octets.              *)
decode_integer ==
  LET r       == ReadElement("integer", view)
      slots   == Append(pending, DecodeSlot(r.contents))
      full    == batch_full(slots)
      results == batch_decode_integers(slots)
      answer  == IF full THEN results[batch_size]
                 ELSE [err |-> "ok", value |-> decode_integer_value(r.contents)]
  IN  /\ view' = r.rest
      /\ UNCHANGED level
      /\ \/ /\ r.err # "ok"
            /\ Refuse("integer", r.err) /\ UNCHANGED pending
         \/ /\ r.err = "ok"
            /\ pending' = IF full THEN << >> ELSE slots
            /\ IF answer.err = "ok"
                 THEN got' = Answer("integer", "ok", r.tag, <<answer.value>>)
                 ELSE Refuse("integer", answer.err)

decode_enumerated      == Decode("enumerated")
decode_boolean         == Decode("boolean")
decode_null            == Decode("null")
decode_octet_string    == Decode("octet_string")
decode_bit_string      == Decode("bit_string")
decode_oid             == Decode("oid")
decode_sequence_header == Decode("sequence_header")
read_tlv               == Decode("tlv")
skip_tlv               == Decode("skip_tlv")

decode_sequence_end ==
  LET err == CASE Len(view) < 2 -> "buffer_underflow"
               [] Len(view) >= 2 ->
                    IF view[1] # 0 \/ view[2] # 0 THEN "invalid_tag" ELSE "ok"
  IN  /\ view' = IF err = "ok" THEN Drop(view, 2) ELSE view
      /\ Refuse("sequence_end", err)
      /\ UNCHANGED <<level, pending>>

peek_tag ==
  LET t == decode_tag(view)
  IN  /\ IF t.err = "ok" THEN got' = Answer("peek_tag", "ok", t.tag, << >>)
                         ELSE Refuse("peek_tag", t.err)
      /\ UNCHANGED <<view, level, pending>>

flush_decode ==
  LET results == batch_decode_integers(pending)
  IN  /\ got' = [NoAnswer EXCEPT !.err =
                   first_error([i \in DOMAIN results |-> results[i].err])]
      /\ pending' = << >>
      /\ UNCHANGED <<view, level>>

(* The caller's own step: it goes on with another buffer.                  *)
next_message == NewMessage /\ UNCHANGED <<level, pending>>

-----------------------------------------------------------------------------
BerInit == ReaderInit /\ level \in SimdLevel /\ pending = << >>

BerNext ==
  \/ decode_integer \/ decode_enumerated \/ decode_boolean \/ decode_null
  \/ decode_octet_string \/ decode_bit_string \/ decode_oid
  \/ decode_sequence_header \/ decode_sequence_end
  \/ read_tlv \/ skip_tlv \/ peek_tag
  \/ flush_decode \/ next_message

BerSpec == BerInit /\ [][BerNext]_vars

-----------------------------------------------------------------------------
error_code == {"ok", "buffer_underflow", "invalid_tag", "invalid_length",
               "value_out_of_range", "buffer_overflow"}

(* Every variable holds a value of its type; a decoded INTEGER or          *)
(* ENUMERATED is an int64_t.                                               *)
TypeOK ==
  /\ view \in Seq(Octet)
  /\ got.op \in Operations \cup {"none"} /\ got.err \in error_code
  /\ got.tag \in Tag /\ got.data \in Seq(Int)
  /\ got.op \in {"integer", "enumerated"} => got.data \in Seq(SWord)
  /\ level \in SimdLevel
  /\ pending \in Seq([size : Nat, value_buf : Seq(Octet)])

(* A slot has room for 8 octets and the array for kMaxBatchSize slots, and *)
(* neither memcpy nor push checks: between two calls the batch is short of *)
(* the drain threshold and every slot holds what its value_buf can.        *)
BatchInBounds ==
  /\ Len(pending) < batch_size
  /\ batch_size <= kMaxBatchSize
  /\ \A i \in DOMAIN pending :
       /\ pending[i].size \in 1 .. WordOctets
       /\ Len(pending[i].value_buf) = pending[i].size

(* A call that succeeds took a well-formed element off the view and        *)
(* answered what its octets mean, whatever the batch held and however the  *)
(* calls before it failed (decoder.hpp: "The batching is transparent");    *)
(* flush_decode never fails; peek_tag moves nothing.                       *)
ReadsWhatIsThere == ReaderSpec
=============================================================================
