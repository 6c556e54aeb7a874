----------------------------- MODULE TlvWriter -----------------------------
(***************************************************************************)
(* What a caller of ber_encoder relies on, with no batch in sight: a       *)
(* buffer to which each call appends one complete piece or nothing at all. *)
(* An INTEGER has the contents X.690 8.3 asks for, the shortest two's      *)
(* complement form.  Whether a call succeeds depends on the room left in   *)
(* the buffer and on nothing else.                                         *)
(***************************************************************************)
EXTENDS Tlv

CONSTANTS
  Capacities,  (* sizes of the buffers a caller hands to the encoder       *)
  Ints,        (* values given to encode_integer and encode_enumerated     *)
  Strings,     (* octet strings, pre-encoded OIDs, contents of encode_tlv  *)
  UnusedBits,  (* unused_bits of a BIT STRING                              *)
  Tags,        (* tags given to encode_tlv and encode_sequence_header      *)
  Lengths      (* content lengths given to encode_sequence_header          *)

ASSUME WriterAssumption ==
  /\ Capacities \subseteq Nat
  /\ Ints \subseteq SWord
  /\ Strings \subseteq Seq(Octet)
  /\ \A s \in Strings : Len(s) + 1 \in UWord
  /\ UnusedBits \subseteq Octet
  /\ Tags \subseteq Tag
  /\ Lengths \subseteq UWord

VARIABLES
  out,       (* the octets written to the current buffer *)
  capacity,  (* the size of the current buffer *)
  ret        (* the last call and its error code *)

writer_vars == <<out, capacity, ret>>

(* A call is an operation, the tag it writes and its argument as numbers.  *)
Call(op, t, data) == [op |-> op, tag |-> t, data |-> data]

Calls ==
       {Call("integer", INTEGER_TAG, <<v>>) : v \in Ints}
  \cup {Call("enumerated", ENUMERATED_TAG, <<v>>) : v \in Ints}
  \cup {Call("boolean", BOOLEAN_TAG, <<b>>) : b \in {0, 255}}
  \cup {Call("null", NULL_TAG, << >>), Call("sequence_end", make_universal(0), << >>)}
  \cup {Call("octet_string", OCTET_STRING_TAG, s) : s \in Strings}
  \cup {Call("bit_string", BIT_STRING_TAG, <<u>> \o s) : u \in UnusedBits, s \in Strings}
  \cup {Call("oid", OID_TAG, s) : s \in Strings}
  \cup {Call("tlv", t, s) : t \in Tags, s \in Strings}
  \cup {Call("sequence_header", t, <<n>>) : t \in Tags, n \in Lengths}

Shortest(v) == Octets(v, ShortestSize(v))

(* The octets a call stands for. *)
Piece(call) ==
  CASE call.op \in {"integer", "enumerated"} -> encode_tlv(call.tag, Shortest(call.data[1]))
    [] call.op = "sequence_header" -> encode_tag(call.tag) \o encode_length(call.data[1])
    [] call.op = "sequence_end" -> encode_end_of_content
    [] call.op \in {"boolean", "null", "octet_string", "bit_string", "oid", "tlv"} ->
         encode_tlv(call.tag, call.data)

NoCall == [call |-> Call("none", NULL_TAG, << >>), err |-> "ok"]

WriterInit == out = << >> /\ capacity \in Capacities /\ ret = NoCall

Write(call) ==
  LET room == Len(out) + Len(Piece(call)) <= capacity
  IN  /\ out' = IF room THEN out \o Piece(call) ELSE out
      /\ ret' = [call |-> call, err |-> IF room THEN "ok" ELSE "buffer_overflow"]
      /\ UNCHANGED capacity

Flush == ret' = NoCall /\ UNCHANGED <<out, capacity>>

NewBuffer == out' = << >> /\ capacity' \in Capacities /\ ret' = NoCall

WriterNext == Flush \/ NewBuffer \/ \E call \in Calls : Write(call)

WriterSpec == WriterInit /\ [][WriterNext]_writer_vars
=============================================================================
