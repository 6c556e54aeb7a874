------------------------------ MODULE PerLink ------------------------------
(***************************************************************************)
(* An application that writes messages with one PER encoder object into    *)
(* one buffer, and reads them with one PER decoder object, aligned or not, *)
(* each knowing the schema.  Encoder and decoder never move the view they  *)
(* are given: each keeps its own bit_offset_, and the application sets it  *)
(* back for the next message.                                              *)
(*                                                                         *)
(* A message may arrive piece by piece: a read of what is not there yet    *)
(* gets buffer_underflow and leaves the offset somewhere in the element,   *)
(* so the reader sets it back to where the read began and tries again.     *)
(***************************************************************************)
EXTENDS Per, SequencesExt

CONSTANTS
  Levels,      (* SIMD levels of the machines considered *)
  MemoryBits,  (* bits of the buffer the application writes into *)
  Scripts      (* the messages: sequences of encoder calls *)

(* The widest range that is counted in bits, the longest length of the     *)
(* four-octet form, and the first one that the form has too few bits for.  *)
MaxRange == 65536
MaxLength == 1073741823
LengthLimit == 536870912

(* The calls that types and templates allow, with metas whose range does   *)
(* not overflow an int64_t, and lengths below the fragmented form.         *)
WellTyped(call) ==
  /\ call.op \in Operations
  /\ call.meta \in [bounded : BOOLEAN, min : Int, max : Int]
  /\ call.op = "integer" => call.data[1] \in SWord
  /\ call.op = "boolean" => call.data \in {<<0>>, <<1>>}
  /\ call.op \in {"octet_string", "oid", "bit_string"} => call.data \in Seq(Octet)
  /\ call.op = "bit_string" =>
       Len(call.data) >= 1 /\ bit_length(call.data) \in Nat /\ call.data[1] < 8
  /\ call.op \in {"enumerated", "choice_index"} =>
       call.meta.max \in 1 .. MaxRange /\ call.data[1] \in Int
  /\ call.op = "sequence_start" =>
       call.meta.max \in Nat /\ call.data \in [1 .. call.meta.max -> {0, 1}]
  /\ call.op = "sequence_of_length" => call.data[1] \in 0 .. MaxLength
  /\ call.meta.bounded => call.meta.max - call.meta.min < 128 * Weight[WordOctets - 1]

(* A size that the bits of its range, or the 29 bits that are left of a    *)
(* length, can hold.                                                       *)
Writable(meta, size) ==
  IF short(meta) THEN size < 2 ^ bits_needed_unsigned(range(meta) - 1)
                 ELSE size < LengthLimit

(* The calls whose value reaches the bits whole: an argument has the form  *)
(* of its operation, a negative INTEGER does not need the octet that is    *)
(* never added for its sign, and a size is writable, or not written.       *)
Meant(call) ==
  LET op == call.op
      data == call.data
  IN  /\ op \in {"integer", "enumerated", "choice_index", "sequence_of_length"} =>
           data = <<data[1]>>
      /\ op \in {"null", "sequence_end"} => data = << >>
      /\ op = "integer" /\ ~ call.meta.bounded /\ data[1] < 0 => ~ needs_extra(data[1])
      /\ op = "octet_string" => fixed(call.meta) \/ Writable(call.meta, Len(data))
      /\ op = "bit_string" => fixed(call.meta) \/ Writable(call.meta, bit_length(data))
      /\ op = "sequence_of_length" => Writable(call.meta, data[1])
      /\ op = "oid" => Len(data) < LengthLimit

OnlyMeant == \A script \in Scripts : \A i \in DOMAIN script : Meant(script[i])

(* Where each call of a script ends in the aligned variant, which never    *)
(* writes less than the other; a refused call writes nothing.              *)
Ends(script) ==
  LET upto[i \in 0 .. Len(script)] ==
        IF i = 0 THEN 0
        ELSE IF refusal(script[i]) = "ok"
          THEN upto[i - 1] + Len(Piece("aligned", upto[i - 1], Layout(script[i])))
          ELSE upto[i - 1]
  IN  upto

(* No encoder compares the octets it writes with the size of its buffer,   *)
(* so the application has to give it one that is large enough.             *)
RoomFor(script) == Ends(script)[Len(script)] <= MemoryBits

ASSUME LinkAssumption ==
  /\ Levels \subseteq SimdLevel
  /\ MemoryBits \in Nat /\ MemoryBits % 8 = 0
  /\ \A script \in Scripts :
       /\ script \in Seq({script[i] : i \in DOMAIN script})
       /\ RoomFor(script)
       /\ \A i \in DOMAIN script : WellTyped(script[i])

VARIABLES
  variant,   (* the encoding rules both sides use *)
  level,     (* arch::available_simd_level() *)
  memory,    (* the bits of the buffer *)
  cleared,   (* the buffer was zero when the message was begun *)
  at,        (* bit_offset_ of the encoder *)
  marks,     (* where each call of the message began, and the last ended *)
  todo,      (* calls of the message still to be made *)
  sent,      (* calls of the message that were made *)
  sealed,    (* the message is complete, and padded to full octets *)
  arrived,   (* octets of the message the reader has *)
  position,  (* bit_offset_ of the decoder *)
  saved,     (* what it was before the last read *)
  pending,   (* pending_ of the decoder: slots answered but not drained *)
  got,       (* the error code and the data of the last read *)
  asked,     (* the call the last read was about *)
  tried,     (* octets that had arrived at that read *)
  expected,  (* calls still to be read *)
  finished   (* the reader has read, and checked, the whole message *)

machine == <<variant, level>>
writer == <<memory, cleared, at, marks, todo, sent, sealed>>
reader == <<position, saved, pending, got, asked, tried, expected, finished>>
vars == <<machine, writer, arrived, reader>>

batch_size == batch_width(level)
view == View(memory, 8 * arrived)
whole == sealed /\ 8 * arrived = at

NoAnswer == [err |-> "ok", data |-> << >>]

StartMessage(zero, script) ==
  /\ cleared' = zero
  /\ at' = 0 /\ marks' = <<0>> /\ todo' = script /\ sent' = << >> /\ sealed' = FALSE
  /\ arrived' = 0
  /\ position' = 0 /\ saved' = 0
  /\ got' = NoAnswer /\ asked' = NoCall /\ tried' = 0
  /\ expected' = << >> /\ finished' = FALSE

Init ==
  /\ variant \in Variant /\ level \in Levels
  /\ memory = [i \in 1 .. MemoryBits |-> 0] /\ cleared = TRUE
  /\ at = 0 /\ marks = <<0>> /\ todo \in Scripts /\ sent = << >> /\ sealed = FALSE
  /\ arrived = 0
  /\ position = 0 /\ saved = 0 /\ pending = << >>
  /\ got = NoAnswer /\ asked = NoCall /\ tried = 0
  /\ expected = << >> /\ finished = FALSE

-----------------------------------------------------------------------------
(* The writer. *)

Encode(call) ==
  \E bits \in {Piece(variant, at, Layout(call))} :
    /\ memory' = Overwrite(memory, at, bits)
    /\ at' = at + Len(bits)
    /\ marks' = Append(marks, at + Len(bits))

WriteNext ==
  /\ todo # << >> /\ refusal(Head(todo)) = "ok"
  /\ Encode(Head(todo))
  /\ todo' = Tail(todo) /\ sent' = Append(sent, Head(todo))
  /\ UNCHANGED <<machine, cleared, sealed, arrived, reader>>

(* A refused call writes nothing; the writer drops the message. *)
WriteRefused ==
  /\ todo # << >> /\ refusal(Head(todo)) # "ok"
  /\ todo' = << >> /\ sent' = << >>
  /\ UNCHANGED <<machine, memory, cleared, at, marks, sealed, arrived, reader>>

(* uper_encoder::flush; an aligned encoder is at an octet already. *)
flush ==
  /\ todo = << >> /\ sent # << >> /\ ~ sealed
  /\ at' = align_to_octet(at)
  /\ sealed' = TRUE /\ expected' = sent
  /\ UNCHANGED <<machine, memory, cleared, marks, todo, sent, arrived, position, saved,
                 pending, got, asked, tried, finished>>

(* The reader has done with the message: the application is one thread.    *)
(* It begins the next one in the same buffer, which it may clear (and here *)
(* does after two messages, to bound what the buffer can hold); the        *)
(* objects stay, and with them the integers in pending_.                   *)
NextMessage ==
  /\ todo = << >> /\ (sent = << >> \/ finished)
  /\ \E zero \in BOOLEAN, script \in Scripts :
       /\ zero \/ cleared
       /\ StartMessage(zero, script)
       /\ memory' = IF zero THEN [i \in 1 .. MemoryBits |-> 0] ELSE memory
  /\ UNCHANGED <<machine, pending>>

-----------------------------------------------------------------------------
(* The reader. *)

(* One octet more, or all the rest. *)
Arrive ==
  /\ sealed /\ 8 * arrived < at
  /\ arrived' \in {arrived + 1, at \div 8}
  /\ UNCHANGED <<machine, writer, reader>>

(* Two mutants: the batch is drained a slot too late, or never. *)
batch_full_late(slots) == Len(slots) > batch_size
batch_full_never(slots) == FALSE

batch_full(slots) == Len(slots) = batch_size

(* An unconstrained INTEGER is put in the batch, and answered at once: by  *)
(* itself, or as the last slot of the batch that it fills.                 *)
decode_integer(r) ==
  LET slots == Append(pending, DecodeSlot(r.data))
      last == batch_decode_integers(slots)[Len(slots)]
  IN  CASE r.err # "ok" \/ r.data = << >> ->
             /\ got' = [err |-> r.err, data |-> IF r.err = "ok" THEN <<0>> ELSE << >>]
             /\ pending' = pending
        [] r.err = "ok" /\ r.data # << >> /\ batch_full(slots) ->
             /\ got' = [err |-> last.err, data |-> <<last.value>>]
             /\ pending' = << >>
        [] r.err = "ok" /\ r.data # << >> /\ ~ batch_full(slots) ->
             /\ got' = [err |-> "ok", data |-> <<decode_integer_value(r.data)>>]
             /\ pending' = slots

Decode(call) ==
  CASE call.op = "integer" /\ call.meta.bounded ->
         decode_constrained_whole_number(variant, call.meta, view, position)
    [] call.op = "boolean" -> decode_boolean(variant, view, position)
    [] call.op \in {"null", "sequence_end"} -> Got("ok", << >>, position)
    [] call.op = "octet_string" -> decode_octet_string(variant, call.meta, view, position)
    [] call.op = "bit_string" -> decode_bit_string(variant, call.meta, view, position)
    [] call.op = "enumerated" -> decode_enumerated(variant, call.meta, view, position)
    [] call.op = "sequence_start" -> decode_sequence_start(variant, call.meta, view, position)
    [] call.op = "choice_index" -> decode_choice_index(variant, call.meta, view, position)
    [] call.op = "sequence_of_length" ->
         decode_sequence_of_length(variant, call.meta, view, position)
    [] call.op = "oid" -> TakeCounted(variant, view, position)

Batched(call) == call.op = "integer" /\ ~ call.meta.bounded

ReadNext ==
  /\ expected # << >> /\ got.err = "ok"
  /\ asked' = Head(expected) /\ tried' = arrived /\ saved' = position
  /\ IF Batched(Head(expected))
       THEN \E r \in {decode_integer_octets(variant, view, position)} :
              decode_integer(r) /\ position' = r.at
       ELSE \E r \in {Decode(Head(expected))} :
              /\ got' = [err |-> r.err, data |-> r.data]
              /\ position' = r.at /\ pending' = pending
  /\ expected' = IF got'.err = "ok" THEN Tail(expected) ELSE expected
  /\ UNCHANGED <<machine, writer, arrived, finished>>

(* set_bit_offset: the failed read is forgotten. *)
Rewind ==
  /\ got.err # "ok" /\ ~ finished
  /\ position' = saved
  /\ got' = NoAnswer /\ asked' = NoCall
  /\ UNCHANGED <<machine, writer, arrived, saved, pending, tried, expected, finished>>

(* After the last element uper_decoder::flush looks at the padding.        *)
Finish ==
  /\ sealed /\ expected = << >> /\ whole /\ ~ finished
  /\ finished' = TRUE /\ asked' = NoCall
  /\ LET r == IF variant = "unaligned" THEN flush_padding(view, position)
                                       ELSE Got("ok", << >>, position)
     IN  got' = [err |-> r.err, data |-> << >>] /\ position' = r.at
  /\ UNCHANGED <<machine, writer, arrived, saved, pending, tried, expected>>

flush_decode ==
  /\ pending # << >> /\ got.err = "ok"
  /\ LET results == batch_decode_integers(pending)
     IN  got' = [err |-> first_error([i \in DOMAIN results |-> results[i].err]),
                 data |-> << >>]
  /\ asked' = NoCall /\ pending' = << >>
  /\ UNCHANGED <<machine, writer, arrived, position, saved, tried, expected, finished>>

Next ==
  \/ WriteNext \/ WriteRefused \/ flush \/ NextMessage
  \/ Arrive \/ ReadNext \/ Rewind \/ Finish \/ flush_decode

(* The application polls: the rest of a message arrives in the end, and    *)
(* the reader goes on while there is something to read.                    *)
Fairness == WF_vars(Arrive) /\ WF_vars(ReadNext) /\ WF_vars(Rewind) /\ WF_vars(Finish)

Spec == Init /\ [][Next]_vars /\ Fairness

-----------------------------------------------------------------------------
TypeOK ==
  /\ variant \in Variant /\ level \in Levels
  /\ memory \in [1 .. MemoryBits -> {0, 1}] /\ cleared \in BOOLEAN
  /\ at \in 0 .. MemoryBits /\ arrived \in 0 .. at \div 8 /\ tried \in 0 .. arrived
  /\ Len(marks) >= 1 + Len(sent)
  /\ position \in 0 .. MemoryBits /\ saved \in 0 .. MemoryBits
  /\ Len(pending) \in 0 .. kMaxBatchSize - 1
  /\ \A i \in DOMAIN pending : pending[i].size \in 1 .. WordOctets
  /\ got.err \in {"ok", "buffer_underflow", "parse_error", "value_out_of_range",
                  "invalid_length", "buffer_overflow"}
  /\ sealed \in BOOLEAN /\ finished \in BOOLEAN

(* The batch is drained by the call that fills it, so that a decode never  *)
(* finds it full (decoder.hpp, pending_.push of decode_integer).           *)
BatchInBounds == Len(pending) < batch_size

(* Reader and writer stay in step, also after reads that failed and were   *)
(* repeated: before each element the two bit offsets agree, and those of   *)
(* the aligned variant are full octets ("After each complete type encoding,*)
(* output is aligned to an octet boundary", encoder.hpp:19).               *)
InStep ==
  /\ sealed /\ got.err = "ok" /\ ~ finished =>
       position = marks[Len(sent) - Len(expected) + 1]
  /\ variant = "aligned" => \A i \in DOMAIN marks : marks[i] % 8 = 0

(* What the reader should be told: the preamble with its extension bit.    *)
Meaning(call) ==
  IF call.op = "sequence_start" /\ call.meta.bounded THEN <<0>> \o call.data ELSE call.data

(* A read answers what was written or asks for more octets, and asks only  *)
(* while some are missing (the round trips of per_decoder_test.cpp and     *)
(* uper_decoder_test.cpp).                                                 *)
RoundTrip ==
  asked # NoCall =>
    IF got.err = "ok" THEN got.data = Meaning(asked)
                      ELSE got.err = "buffer_underflow" /\ 8 * tried < at

(* The padding that uper_encoder::flush leaves is accepted by              *)
(* uper_decoder::flush when the buffer was zero at the start, and anything *)
(* that is refused is padding of a buffer that was not.                    *)
PaddingAccepted == finished /\ cleared => got.err = "ok"

(* A complete message is read to its end, in however many pieces it comes. *)
MessageRead == sealed ~> finished
=============================================================================
