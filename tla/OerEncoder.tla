----------------------------- MODULE OerEncoder -----------------------------
(***************************************************************************)
(* oer_encoder: one encoder object, the buffers its caller hands it and    *)
(* the pending_ batch of constrained INTEGERs.  A constrained INTEGER is   *)
(* checked and batched before it is written; a counted value is written in *)
(* two steps, so that a failed call may leave its count behind.            *)
(***************************************************************************)
EXTENDS Oer

CONSTANTS
  Capacities,  (* sizes of the buffers a caller hands to the encoder *)
  Calls        (* the calls it makes *)

(* The calls the types of the code, and its templates, let a caller make. *)
WellTyped(call) ==
  LET op == call.op
      meta == call.meta
      data == call.data
  IN  /\ meta \in [bounded : BOOLEAN, min : Int, max : Int]
      /\ op = "integer" => Len(data) = 1 /\ data[1] \in SWord
      /\ op \in {"enumerated", "choice_index"} =>
           data[1] \in Int /\ meta.max \in Nat /\ index_byte_width(meta.max) <= WordOctets
      /\ op \in {"boolean", "octet_string", "oid", "bit_string"} => data \in Seq(Octet)
      /\ op = "bit_string" => data # << >>
      /\ op \in {"octet_string", "bit_string"} /\ meta.bounded =>
           meta.max \in Nat /\ index_byte_width(meta.max + 1) <= WordOctets
      /\ op = "sequence_start" => data \in Seq({0, 1})
      /\ op = "sequence_of_length" => data[1] \in UWord

ASSUME OerAssumption ==
  /\ Capacities \subseteq Nat
  /\ \A call \in Calls : call.op \in Operations /\ WellTyped(call)

VARIABLES
  out,       (* the octets written to the current buffer *)
  capacity,  (* the size of the current buffer *)
  ret,       (* the last call and its error code *)
  level,     (* arch::available_simd_level(), found once in a process *)
  pending    (* pending_: the slots not yet drained *)

encoder_vars == <<out, capacity, ret, level, pending>>

batch_size == batch_width(level)

Room(size) == Len(out) + size <= capacity

Answer(call, err) == ret' = [call |-> call, err |-> err]

-----------------------------------------------------------------------------
(* Everything but a constrained INTEGER. *)

(* A mutant: only the first part is checked, as if no contents followed.   *)
put_error_prefix(call) ==
  CASE refusal(call) # "ok" -> refusal(call)
    [] refusal(call) = "ok" -> IF Room(Len(prefix(call))) THEN "ok" ELSE "buffer_overflow"

put_error(call) ==
  CASE refusal(call) # "ok" -> refusal(call)
    [] refusal(call) = "ok" /\ counted(call) /\ Room(Len(prefix(call))) /\ count(call) > 65535 ->
         "value_out_of_range"
    [] OTHER -> IF Room(Len(Piece(call))) THEN "ok" ELSE "buffer_overflow"

Put(call) ==
  LET err == put_error(call)
      left_behind == IF err = "buffer_overflow" /\ counted(call) /\ Room(Len(prefix(call)))
                       THEN prefix(call) ELSE << >>
  IN  /\ out' = out \o (IF err = "ok" THEN Piece(call) ELSE left_behind)
      /\ Answer(call, err)
      /\ UNCHANGED <<capacity, level, pending>>

-----------------------------------------------------------------------------
(* A constrained INTEGER.  The batch checks every slot as a signed value   *)
(* of its width; the error of the last slot is this call's.                *)

(* A mutant: the batch is drained when its array is full. *)
batch_full_array(slots) == Len(slots) = kMaxBatchSize

batch_full(slots) == Len(slots) = batch_size

(* A mutant: the room is left unchecked. *)
encode_constrained_anywhere(call) ==
  LET slots == Append(pending, [size |-> integer_byte_width(call.meta), value |-> call.data[1]])
  IN  /\ pending' = IF batch_full(slots) THEN << >> ELSE slots
      /\ out' = out \o Piece(call) /\ Answer(call, "ok")
      /\ UNCHANGED <<capacity, level>>

encode_constrained_integer(call) ==
  LET slots  == Append(pending, [size |-> integer_byte_width(call.meta), value |-> call.data[1]])
      full   == batch_full(slots)
      errors == batch_encode_integers(slots)
      early  == CASE refusal(call) # "ok" -> refusal(call)
                  [] refusal(call) = "ok" ->
                       IF Room(integer_byte_width(call.meta)) THEN "ok" ELSE "buffer_overflow"
      err    == IF early = "ok" /\ full THEN errors[Len(slots)] ELSE early
  IN  /\ pending' = IF early # "ok" THEN pending ELSE IF full THEN << >> ELSE slots
      /\ out' = IF err = "ok" THEN out \o Piece(call) ELSE out
      /\ Answer(call, err)
      /\ UNCHANGED <<capacity, level>>

constrained(call) == call.op = "integer" /\ call.meta.bounded

Encode(call) == IF constrained(call) THEN encode_constrained_integer(call) ELSE Put(call)

flush_encode ==
  /\ ret' = [call |-> NoCall, err |-> first_error(batch_encode_integers(pending))]
  /\ pending' = << >>
  /\ UNCHANGED <<out, capacity, level>>

(* The caller's own step: it goes on with another buffer. *)
next_buffer ==
  /\ out' = << >> /\ capacity' \in Capacities /\ ret' = [call |-> NoCall, err |-> "ok"]
  /\ UNCHANGED <<level, pending>>

-----------------------------------------------------------------------------
OerInit ==
  /\ out = << >> /\ capacity \in Capacities /\ ret = [call |-> NoCall, err |-> "ok"]
  /\ level \in SimdLevel /\ pending = << >>

OerNext == flush_encode \/ next_buffer \/ \E call \in Calls : Encode(call)

OerSpec == OerInit /\ [][OerNext]_encoder_vars

-----------------------------------------------------------------------------
error_code == {"ok", "buffer_overflow", "invalid_length", "value_out_of_range",
               "constraint_violation"}

(* Octets are written, never more than the buffer has, and an answer is    *)
(* one of the error codes of the encoder.                                  *)
TypeOK ==
  /\ out \in Seq(Octet) /\ capacity \in Capacities /\ Len(out) <= capacity
  /\ ret.err \in error_code
  /\ level \in SimdLevel
  /\ pending \in Seq([size : Nat, value : SWord])

(* batch_buffer::push does not check for room and value_buf of a slot has  *)
(* 8 octets: between two calls the batch is short of its threshold, also   *)
(* after the calls that a batch made fail, and no slot is wider.           *)
BatchInBounds ==
  /\ Len(pending) < batch_size /\ batch_size <= kMaxBatchSize
  /\ \A i \in DOMAIN pending : pending[i].size \in 1 .. WordOctets

(* The values the signed check of a batch of unsigned INTEGERs turns down. *)
top_bit_set(call) ==
  constrained(call) /\ ~ Fits(call.data[1], integer_byte_width(call.meta))

WellFormed(call) == refusal(call) = "ok" /\ (counted(call) => count(call) <= 65535)

(* A call either writes its whole piece and says so, or says that it       *)
(* failed and leaves at most a count behind; it fails only for want of     *)
(* room, for a value its type does not have, or for an unsigned INTEGER    *)
(* with its top bit set.                                                   *)
WholePieceStep ==
  LET call == ret'.call
      fits == WellFormed(call) /\ Room(Len(Piece(call)))
  IN  call # NoCall =>
        IF ret'.err = "ok"
          THEN fits /\ out' = out \o Piece(call)
          ELSE /\ fits => top_bit_set(call)
               /\ out' = out \/ (counted(call) /\ out' = out \o prefix(call))

WholePieceOrError == [][WholePieceStep]_<<out, pending, ret>>

(* Stated by the class comment, encoder.hpp:22 ("Stateless per-call"), and *)
(* by oer_test.cpp, where 255 in 0..255 is encoded: whether a constrained  *)
(* INTEGER is encoded depends on its value and the room alone.  Refuted.   *)
StatelessPerCall ==
  constrained(ret.call) /\ ret.err # "ok" =>
    refusal(ret.call) # "ok" \/ ~ Room(Len(Piece(ret.call)))
=============================================================================
