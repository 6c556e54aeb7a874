------------------------------ MODULE OerLink ------------------------------
(***************************************************************************)
(* An application that writes messages with one oer_encoder and reads them *)
(* with an oer_decoder, each knowing the schema: OER has no tags, so one   *)
(* octet too many or too few shifts all that follows.  The decoder's own   *)
(* pending_ is never filled: a view is all the state a reader has.         *)
(***************************************************************************)
EXTENDS OerEncoder, SequencesExt

CONSTANT Scripts   (* the messages: sequences of encoder calls, all in Calls *)

(* The calls the code for a schema makes: an index is one of those of its  *)
(* type, an argument has its operation's form, and the limits of a type    *)
(* can be written in the octets they are given.  A constrained BIT STRING  *)
(* is short: the two sides differ about the length of a longer one.        *)
Meant(call) ==
  LET op == call.op
      meta == call.meta
      data == call.data
  IN  /\ op \in {"integer", "enumerated", "choice_index", "sequence_of_length"} =>
           data = <<data[1]>>
      /\ op \in {"enumerated", "choice_index"} => data[1] \in 0 .. meta.max
      /\ op \in {"enumerated", "choice_index"} \/ (op = "octet_string" /\ meta.bounded) =>
           meta.max < Weight[index_byte_width(meta.max)]
      /\ op = "boolean" => data \in {<<0>>, <<255>>}
      /\ op \in {"null", "sequence_end"} => data = << >>
      /\ op = "oid" => ~ meta.bounded
      /\ op = "bit_string" /\ meta.bounded /\ ~ fixed(meta) => Len(data) <= 127 /\ meta.max < 255

ASSUME LinkAssumption ==
  \A script \in Scripts :
    script \in Seq(Calls) /\ \A i \in DOMAIN script : Meant(script[i])

VARIABLES
  view,      (* the octets the reader has left *)
  got,       (* the error code and the data of the last read *)
  todo,      (* calls of the current message still to be made *)
  sent,      (* calls of the current message that were made *)
  expected,  (* calls whose octets the reader has still to read *)
  asked,     (* the call whose octets the last read was about *)
  whole      (* the message being read arrived complete *)

reader_vars == <<view, got, expected, asked, whole>>
vars == <<encoder_vars, reader_vars, todo, sent>>

NoAnswer == [err |-> "ok", data |-> << >>]

(* The decoder the schema picks for an element.  There is none for a       *)
(* preamble or an OBJECT IDENTIFIER: a reader takes the one as an OCTET    *)
(* STRING of fixed size, the other as one of any size.                     *)
Decode(call, octets) ==
  LET size == Len(contents(call))
  IN  CASE call.op = "integer" -> decode_integer(call.meta, octets)
        [] call.op \in {"enumerated", "choice_index"} -> decode_index(call.meta, octets)
        [] call.op = "boolean" -> decode_boolean(octets)
        [] call.op \in {"null", "sequence_end"} -> Got("ok", << >>, octets)
        [] call.op \in {"octet_string", "oid"} -> decode_octet_string(call.meta, octets)
        [] call.op = "bit_string" -> decode_bit_string(call.meta, octets)
        [] call.op = "sequence_start" -> decode_octet_string(Meta(TRUE, size, size), octets)
        [] call.op = "sequence_of_length" -> decode_sequence_of_length(octets)

(* What the reader should be told: a BIT STRING of fixed size comes back   *)
(* without its unused bits, a preamble as octets.                          *)
Meaning(call) ==
  CASE call.op = "bit_string" /\ fixed(call.meta) -> <<0>> \o Tail(call.data)
    [] call.op = "sequence_start" -> contents(call)
    [] OTHER -> call.data

-----------------------------------------------------------------------------
Init ==
  /\ OerInit
  /\ view = << >> /\ got = NoAnswer
  /\ todo \in Scripts
  /\ sent = << >> /\ expected = << >> /\ asked = NoCall /\ whole = TRUE

(* The writer makes the next call; it drops the message when one fails. *)
WriteNext ==
  /\ todo # << >>
  /\ Encode(Head(todo))
  /\ IF ret'.err = "ok"
       THEN todo' = Tail(todo) /\ sent' = Append(sent, Head(todo))
       ELSE todo' = << >> /\ sent' = << >>
  /\ UNCHANGED reader_vars

(* The finished message, or the part of it that arrived, goes to the       *)
(* reader, which drops what it had.                                        *)
Deliver ==
  /\ todo = << >> /\ sent # << >>
  /\ \E k \in 0 .. Len(out) : view' = Take(out, k) /\ whole' = (k = Len(out))
  /\ expected' = sent /\ asked' = NoCall /\ got' = NoAnswer
  /\ UNCHANGED <<encoder_vars, todo, sent>>

(* The application is one thread: it starts another message when it has    *)
(* done with this one, read to its end or not.                             *)
NextMessage ==
  /\ todo = << >>
  /\ next_buffer
  /\ todo' \in Scripts /\ sent' = << >> /\ expected' = << >> /\ asked' = NoCall
  /\ view' = << >> /\ got' = NoAnswer
  /\ UNCHANGED whole

ReadNext ==
  /\ expected # << >>
  /\ LET r == Decode(Head(expected), view)
     IN  /\ view' = r.rest
         /\ got' = [err |-> r.err, data |-> r.data]
         /\ expected' = IF r.err = "ok" THEN Tail(expected) ELSE << >>
  /\ asked' = Head(expected)
  /\ UNCHANGED <<encoder_vars, todo, sent, whole>>

FlushEncoder == flush_encode /\ UNCHANGED <<reader_vars, todo, sent>>

Next == WriteNext \/ Deliver \/ NextMessage \/ ReadNext \/ FlushEncoder

Spec == Init /\ [][Next]_vars

-----------------------------------------------------------------------------
(* The octets of a sequence of calls. *)
Wire(calls) ==
  LET upto[i \in 0 .. Len(calls)] ==
        IF i = 0 THEN << >> ELSE upto[i - 1] \o Piece(calls[i])
  IN  upto[Len(calls)]

(* Reader and writer stay in step: what is left of a message is exactly    *)
(* the octets of the elements still expected, or a beginning of them when  *)
(* the message was cut.                                                    *)
InStep ==
  expected # << >> =>
    IF whole THEN view = Wire(expected) ELSE IsPrefix(view, Wire(expected))

(* A read answers what was sent or an error, never another value, and on a *)
(* complete message it does not fail.                                      *)
RoundTrip ==
  asked # NoCall =>
    IF got.err = "ok" THEN got.data = Meaning(asked) ELSE ~ whole

(* An INTEGER the encoder wrote is canonical to the COER validator         *)
(* (coer_validator_test.cpp, CanonicalRoundTrip), in any message.          *)
OwnIntegersCanonical ==
  expected # << >> /\ whole /\ Head(expected).op = "integer" =>
    coer_validate_integer(Head(expected).meta, view) = "ok"
=============================================================================
