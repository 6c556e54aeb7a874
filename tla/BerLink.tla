------------------------------ MODULE BerLink ------------------------------
(***************************************************************************)
(* An application that writes messages with one ber_encoder and reads them *)
(* back with one ber_decoder, as the examples and the generated code do:   *)
(* the two objects live on while messages come and go, a message may not   *)
(* fit the buffer or arrive cut short, and each side has its own CPU.      *)
(*                                                                         *)
(* The application is the module's own (its callers are outside src/libs); *)
(* every step it takes on a codec is an action of BerEncoder or BerDecoder.*)
(***************************************************************************)
EXTENDS BerElement, SequencesExt

CONSTANTS
  Capacities,  (* sizes of the buffers messages are written into *)
  Scripts      (* the messages: sequences of encoder calls *)

VARIABLES
  out, capacity, ret, enc_level, enc_pending,  (* the encoder's side *)
  view, got, dec_level, dec_pending,           (* the decoder's side *)
  todo,      (* calls of the current message still to be made *)
  sent,      (* calls of the current message that wrote something *)
  expected,  (* calls whose octets the reader has still to read *)
  asked,     (* the call whose octets the last read was about *)
  whole      (* the message being read arrived complete *)

encoder_vars == <<out, capacity, ret, enc_level, enc_pending>>
decoder_vars == <<view, got, dec_level, dec_pending>>
app_vars     == <<todo, sent, expected, asked, whole>>
vars         == <<encoder_vars, decoder_vars, app_vars>>

(* The actions used here take their arguments from Scripts, not from the   *)
(* sets the two modules enumerate in their own next-state relations.       *)
Enc == INSTANCE BerEncoder
         WITH level <- enc_level, pending <- enc_pending, Ints <- {}, Strings <- {},
              UnusedBits <- {}, Tags <- {}, Lengths <- {}
Dec == INSTANCE BerDecoder
         WITH level <- dec_level, pending <- dec_pending, Messages <- {}

NoCall == Enc!NoCall.call

Encode(call) ==
  CASE call.op = "integer"         -> Enc!encode_integer(call.data[1])
    [] call.op = "enumerated"      -> Enc!encode_enumerated(call.data[1])
    [] call.op = "boolean"         -> Enc!encode_boolean(call.data[1])
    [] call.op = "null"            -> Enc!encode_null
    [] call.op = "octet_string"    -> Enc!encode_octet_string(call.data)
    [] call.op = "bit_string"      -> Enc!encode_bit_string(call.data[1], Drop(call.data, 1))
    [] call.op = "oid"             -> Enc!encode_oid(call.data)
    [] call.op = "tlv"             -> Enc!write_tlv(call.tag, call.data)
    [] call.op = "sequence_header" -> Enc!encode_sequence_header(call.tag, call.data[1])
    [] call.op = "sequence_end"    -> Enc!encode_sequence_end

Decode(op) ==
  CASE op = "integer"         -> Dec!decode_integer
    [] op = "enumerated"      -> Dec!decode_enumerated
    [] op = "boolean"         -> Dec!decode_boolean
    [] op = "null"            -> Dec!decode_null
    [] op = "octet_string"    -> Dec!decode_octet_string
    [] op = "bit_string"      -> Dec!decode_bit_string
    [] op = "oid"             -> Dec!decode_oid
    [] op = "tlv"             -> Dec!read_tlv
    [] op = "sequence_header" -> Dec!decode_sequence_header
    [] op = "sequence_end"    -> Dec!decode_sequence_end

-----------------------------------------------------------------------------
(* The octets of a sequence of calls. *)
Wire(calls) ==
  LET upto[i \in 0 .. Len(calls)] ==
        IF i = 0 THEN << >> ELSE upto[i - 1] \o Enc!Piece(calls[i])
  IN  upto[Len(calls)]

(* The calls an application can mean: values of their types, as many unused *)
(* bits as an octet can have, a constructed tag for what has elements in   *)
(* it, and no header that announces more octets than follow it.            *)
AnyCall == [op : (Elements \ {"skip_tlv"}) \cup {"sequence_end"}, tag : Tag, data : Seq(Int)]

WellTyped(call) ==
  /\ call.op # "sequence_end" => call.tag \in accept(call.op)
  /\ call.op \in {"integer", "enumerated"} => Len(call.data) = 1 /\ call.data[1] \in SWord
  /\ call.op = "boolean" => call.data \in {<<0>>, <<255>>}
  /\ call.op \in {"null", "sequence_end"} => call.data = << >>
  /\ call.op \in {"octet_string", "bit_string", "oid", "tlv"} =>
       call.data \in Seq(Octet) /\ Len(call.data) \in UWord
  /\ call.op = "bit_string" => call.data # << >> /\ call.data[1] <= 7
  /\ call.op = "sequence_header" => Len(call.data) = 1 /\ call.data[1] \in UWord

WellFormed(calls) ==
  /\ calls \in Seq(AnyCall)
  /\ \A i \in DOMAIN calls :
       /\ WellTyped(calls[i])
       /\ calls[i].op = "sequence_header" => calls[i].data[1] <= Len(Wire(Drop(calls, i)))

ASSUME LinkAssumption == \A script \in Scripts : WellFormed(script)

-----------------------------------------------------------------------------
Init ==
  /\ out = << >> /\ capacity \in Capacities /\ ret = Enc!NoCall
  /\ view = << >> /\ got = Dec!NoAnswer
  /\ enc_level \in Enc!SimdLevel /\ dec_level \in Enc!SimdLevel
  /\ enc_pending = << >> /\ dec_pending = << >>
  /\ todo \in Scripts
  /\ sent = << >> /\ expected = << >> /\ asked = NoCall /\ whole = TRUE

(* The writer makes the next call; it drops the message when one fails. *)
WriteNext ==
  /\ todo # << >>
  /\ Encode(Head(todo))
  /\ IF ret'.err = "ok"
       THEN todo' = Tail(todo) /\ sent' = Append(sent, Head(todo))
       ELSE todo' = << >> /\ sent' = << >>
  /\ UNCHANGED <<decoder_vars, expected, asked, whole>>

(* The finished message, or the part of it that arrived, goes to the       *)
(* reader, which drops what it had.                                        *)
Deliver ==
  /\ todo = << >> /\ sent # << >>
  /\ \E k \in 0 .. Len(out) : view' = Take(out, k) /\ whole' = (k = Len(out))
  /\ expected' = sent /\ asked' = NoCall /\ got' = Dec!NoAnswer
  /\ UNCHANGED <<encoder_vars, dec_level, dec_pending, todo, sent>>

(* The application is one thread: it starts another message when it has    *)
(* done with this one, read to its end or not.                             *)
NextMessage ==
  /\ todo = << >>
  /\ Enc!next_buffer
  /\ todo' \in Scripts /\ sent' = << >> /\ expected' = << >> /\ asked' = NoCall
  /\ view' = << >> /\ got' = Dec!NoAnswer
  /\ UNCHANGED <<dec_level, dec_pending, whole>>

(* The reader asks for what the schema says comes next. *)
ReadNext ==
  /\ expected # << >>
  /\ Decode(Head(expected).op)
  /\ asked' = Head(expected)
  /\ expected' = IF got'.err = "ok" THEN Tail(expected) ELSE << >>
  /\ UNCHANGED <<encoder_vars, todo, sent, whole>>

(* It may pass over an element it does not know. *)
SkipNext ==
  /\ expected # << >> /\ Head(expected).op \notin {"sequence_header", "sequence_end"}
  /\ Dec!skip_tlv
  /\ asked' = NoCall
  /\ expected' = IF got'.err = "ok" THEN Tail(expected) ELSE << >>
  /\ UNCHANGED <<encoder_vars, todo, sent, whole>>

FlushEncoder == Enc!flush_encode /\ UNCHANGED <<decoder_vars, app_vars>>
FlushDecoder ==
  /\ Dec!flush_decode /\ asked' = NoCall
  /\ UNCHANGED <<encoder_vars, todo, sent, expected, whole>>

Next ==
  \/ WriteNext \/ Deliver \/ NextMessage \/ ReadNext \/ SkipNext
  \/ FlushEncoder \/ FlushDecoder

Spec == Init /\ [][Next]_vars

-----------------------------------------------------------------------------
(* Reader and writer stay in step: what is left of a message is exactly    *)
(* the octets of the elements still expected, or a beginning of them when  *)
(* the message was cut.  No call takes an octet too many or too few,       *)
(* whatever failed before in earlier messages.                             *)
InStep ==
  expected # << >> =>
    IF whole THEN view = Wire(expected) ELSE IsPrefix(view, Wire(expected))

(* A value that was encoded is the value that is decoded: a read answers   *)
(* what was sent or an error, never another value, and on a complete       *)
(* message it does not fail.                                               *)
RoundTrip ==
  asked # NoCall =>
    IF got.err = "ok"
      THEN got.data = asked.data /\ (asked.op # "sequence_end" => got.tag = asked.tag)
      ELSE ~ whole
=============================================================================
