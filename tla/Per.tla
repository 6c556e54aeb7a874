-------------------------------- MODULE Per --------------------------------
(***************************************************************************)
(* The bits of PER, X.691, as per_aligned_encoder and uper_encoder write   *)
(* and per_aligned_decoder and uper_decoder read them.                     *)
(*                                                                         *)
(* The two encoders write the same fields; only the aligned one moves to   *)
(* the next octet around them, so a field is written here as a layout of   *)
(* bits and alignments that the unaligned variant ignores.  A position is  *)
(* the bit_offset_ of the object that is encoding or decoding.             *)
(***************************************************************************)
EXTENDS ArchCodec

Variant == {"aligned", "unaligned"}

(* The PerMeta of a type: has_range_constraint or has_size_constraint with *)
(* its two bounds.  For an index, max is the number of alternatives; for a *)
(* SEQUENCE, bounded is has_extension and max the number of optionals.     *)
Meta(bounded, min, max) == [bounded |-> bounded, min |-> min, max |-> max]
Free == Meta(FALSE, 0, 0)

range(meta) == meta.max - meta.min + 1
fixed(meta) == meta.bounded /\ meta.min = meta.max
short(meta) == meta.bounded /\ range(meta) <= 65536

-----------------------------------------------------------------------------
(* bit_ops.hpp.  What is written is a sequence of bits: the low n bits of  *)
(* v, the bits of an octet string.  What is read is a view: the bits of a  *)
(* buffer and how many of them it shows.                                   *)
View(bits, size) == [bits |-> bits, size |-> size]

Bits(v, n) == [i \in 1 .. n |-> (v \div 2 ^ (n - i)) % 2]

(* read_bits: the n bits of a view from a position on, as a number.        *)
Number(view, at, n) ==
  LET upto[i \in 0 .. n] == IF i = 0 THEN 0 ELSE 2 * upto[i - 1] + view.bits[at + i]
  IN  upto[n]

OctetBits(bytes) ==
  [i \in 1 .. 8 * Len(bytes) |->
     (bytes[(i - 1) \div 8 + 1] \div 2 ^ (7 - ((i - 1) % 8))) % 2]

align_to_octet(position) == 8 * ((position + 7) \div 8)

align(variant, position) ==
  IF variant = "aligned" THEN align_to_octet(position) ELSE position

(* Bits needed for 0..n; no range of the code that is counted in bits has  *)
(* more than 65536 values.                                                 *)
bits_needed_unsigned(n) == Min({b \in 0 .. 16 : n < 2 ^ b})

-----------------------------------------------------------------------------
(* Encoding: a call is an operation, the meta of its type and its argument *)
(* as numbers; the unused_bits of a BIT STRING come first.                 *)

Operations == {"integer", "boolean", "null", "octet_string", "bit_string", "enumerated",
               "sequence_start", "sequence_end", "choice_index", "sequence_of_length", "oid"}

Call(op, meta, data) == [op |-> op, meta |-> meta, data |-> data]
NoCall == Call("none", Free, << >>)

Put(bits) == [align |-> FALSE, bits |-> bits]
Align == [align |-> TRUE, bits |-> << >>]

(* The third form keeps 29 of the 30 bits of the length its guard allows.  *)
determinant_octets(length) ==
  CASE length <= 127 -> <<length>>
    [] length > 127 /\ length <= 16383 -> <<128 + length \div 256, length % 256>>
    [] length > 16383 -> <<192 + ((length \div 16777216) % 32), (length \div 65536) % 256,
                           (length \div 256) % 256, length % 256>>

encode_length_determinant(length) == <<Align, Put(OctetBits(determinant_octets(length)))>>

counted_octets(octets) ==
  Append(encode_length_determinant(Len(octets)), Put(OctetBits(octets)))

(* A number in the bits that range(meta) takes. *)
field(meta, v) == <<Align, Put(Bits(v, bits_needed_unsigned(range(meta) - 1))), Align>>

(* A number below range(meta) as bits, or as counted octets. *)
encode_constrained_whole_number(value, meta) ==
  LET offset == value - meta.min
      octets == Min({n \in 1 .. WordOctets : offset < Weight[n]})
  IN  CASE range(meta) <= 1 -> << >>
        [] range(meta) > 1 /\ range(meta) <= 65536 -> field(meta, offset)
        [] range(meta) > 65536 -> counted_octets(Octets(offset, octets))

(* A mutant: no octet is added for the sign of a positive number. *)
integer_octets_unsigned(v) == meaningful(v)

(* An octet is added for the sign of a positive number, never for that of  *)
(* a negative one.                                                         *)
integer_octets(v) == meaningful(v) + (IF v >= 0 /\ needs_extra(v) THEN 1 ELSE 0)

bit_length(data) == 8 * (Len(data) - 1) - data[1]

(* A string, its octets and its size in the unit of its constraint: the    *)
(* size itself is written, not its distance from min_size.                 *)
encode_string(meta, size, head, octets) ==
  CASE fixed(meta) -> <<Align, Put(OctetBits(octets))>>
    [] short(meta) /\ ~ fixed(meta) ->
         Append(field(meta, size), Put(OctetBits(octets)))
    [] ~ short(meta) -> encode_length_determinant(size) \o <<Put(head), Put(OctetBits(octets))>>

encode_index(meta, index) == <<Put(Bits(index, bits_needed_unsigned(meta.max - 1))), Align>>

Layout(call) ==
  CASE call.op = "integer" ->
         IF call.meta.bounded
           THEN encode_constrained_whole_number(call.data[1], call.meta)
           ELSE counted_octets(Octets(call.data[1], integer_octets(call.data[1])))
    [] call.op = "boolean" -> <<Put(call.data), Align>>
    [] call.op \in {"null", "sequence_end"} -> << >>
    [] call.op = "octet_string" -> encode_string(call.meta, Len(call.data), << >>, call.data)
    [] call.op = "bit_string" ->
         encode_string(call.meta, bit_length(call.data), Bits(call.data[1], 8), Tail(call.data))
    [] call.op = "enumerated" ->
         IF call.meta.max <= 1 THEN << >> ELSE encode_index(call.meta, call.data[1])
    [] call.op = "sequence_start" ->
         <<Put((IF call.meta.bounded THEN <<0>> ELSE << >>) \o call.data), Align>>
    [] call.op = "choice_index" -> encode_index(call.meta, call.data[1])
    [] call.op = "sequence_of_length" ->
         IF short(call.meta)
           THEN field(call.meta, call.data[1])
           ELSE encode_length_determinant(call.data[1])
    [] call.op = "oid" -> counted_octets(call.data)

(* What a call refuses; a string of a size that may vary is not checked.   *)
refusal(call) ==
  LET v == call.data[1]
      size == IF call.op = "bit_string" THEN bit_length(call.data) ELSE Len(call.data)
  IN  CASE call.op \in {"integer", "sequence_of_length"} ->
             IF call.meta.bounded /\ v \notin call.meta.min .. call.meta.max
               THEN "value_out_of_range" ELSE "ok"
        [] call.op \in {"enumerated", "choice_index"} ->
             IF v \notin 0 .. call.meta.max - 1 THEN "value_out_of_range" ELSE "ok"
        [] call.op \in {"octet_string", "bit_string"} ->
             IF fixed(call.meta) /\ size # call.meta.min THEN "constraint_violation" ELSE "ok"
        [] OTHER -> "ok"

(* The bits of a layout from a position on; those that an alignment skips  *)
(* are left as they were in the buffer.                                    *)
Kept == 2

skipped(variant, position) == [i \in 1 .. align(variant, position) - position |-> Kept]

Piece(variant, start, parts) ==
  LET upto[i \in 0 .. Len(parts)] ==
        IF i = 0 THEN << >>
        ELSE IF parts[i].align
          THEN LET before == upto[i - 1]
               IN  before \o skipped(variant, start + Len(before))
          ELSE upto[i - 1] \o parts[i].bits
  IN  upto[Len(parts)]

Overwrite(memory, start, bits) ==
  [i \in DOMAIN memory |->
     IF i > start /\ i <= start + Len(bits) /\ bits[i - start] # Kept
       THEN bits[i - start] ELSE memory[i]]

-----------------------------------------------------------------------------
(* Decoding: [err, data, at] of each operation on the bits of a view from  *)
(* a position on.  A failed read does not restore the position.            *)

Got(err, data, at) == [err |-> err, data |-> data, at |-> at]

(* A mutant: the last bit of a view is never read. *)
underflow_short(view, at, n) == at + n >= view.size

underflow(view, at, n) == at + n > view.size

TakeNumber(view, at, n) ==
  IF underflow(view, at, n) THEN Got("buffer_underflow", << >>, at)
                            ELSE Got("ok", <<Number(view, at, n)>>, at + n)

TakeOctets(view, at, n) ==
  IF underflow(view, at, 8 * n)
    THEN Got("buffer_underflow", << >>, at)
    ELSE Got("ok", [i \in 1 .. n |-> Number(view, at + 8 * (i - 1), 8)], at + 8 * n)

(* A number read after others that are its high bits. *)
TakeLow(high, view, at, n) ==
  LET r == TakeNumber(view, at, n)
  IN  IF r.err = "ok" THEN Got("ok", <<high * 2 ^ n + r.data[1]>>, r.at) ELSE r

length_after(view, first) ==
  CASE first.err # "ok" -> first
    [] first.err = "ok" ->
         CASE first.data[1] < 128 -> first
           [] first.data[1] \in 128 .. 191 -> TakeLow(first.data[1] % 64, view, first.at, 8)
           [] first.data[1] \in 192 .. 223 -> TakeLow(first.data[1] % 32, view, first.at, 24)
           [] first.data[1] > 223 -> Got("parse_error", << >>, first.at)

decode_length_determinant(variant, view, at) ==
  length_after(view, TakeNumber(view, align(variant, at), 8))

(* The octets a number that was just read counts. *)
octets_after(view, count, at) ==
  IF count.err = "ok" THEN TakeOctets(view, at, count.data[1]) ELSE count

TakeCounted(variant, view, at) ==
  LET d == decode_length_determinant(variant, view, at)
  IN  octets_after(view, d, d.at)

offset_from(min, r) ==
  IF r.err = "ok" THEN Got("ok", <<min + Unsigned(r.data)>>, r.at) ELSE r

(* A number in bits, aligned again when it was read. *)
TakeField(variant, view, at, n) ==
  LET r == TakeNumber(view, at, n)
  IN  IF r.err = "ok" THEN Got("ok", r.data, align(variant, r.at)) ELSE r

(* The value is not checked against max. *)
decode_constrained_whole_number(variant, meta, view, at) ==
  LET n == bits_needed_unsigned(range(meta) - 1)
      r == TakeField(variant, view, align(variant, at), n)
  IN  CASE range(meta) <= 1 -> Got("ok", <<meta.min>>, at)
        [] range(meta) > 1 /\ range(meta) <= 65536 ->
             IF r.err = "ok" THEN Got("ok", <<meta.min + r.data[1]>>, r.at) ELSE r
        [] range(meta) > 65536 -> offset_from(meta.min, TakeCounted(variant, view, at))

(* The octets of an unconstrained INTEGER, before they go to the batch.    *)
integer_after(view, d) ==
  CASE d.err # "ok" -> d
    [] d.err = "ok" /\ underflow(view, d.at, 8 * d.data[1]) ->
         Got("buffer_underflow", << >>, d.at)
    [] d.err = "ok" /\ ~ underflow(view, d.at, 8 * d.data[1]) ->
         IF d.data[1] > WordOctets THEN Got("value_out_of_range", << >>, d.at)
                                   ELSE TakeOctets(view, d.at, d.data[1])

decode_integer_octets(variant, view, at) ==
  integer_after(view, decode_length_determinant(variant, view, at))

(* A mutant: the aligned variant goes on in the same octet. *)
decode_boolean_packed(variant, view, at) == TakeNumber(view, at, 1)

decode_boolean(variant, view, at) == TakeField(variant, view, at, 1)

decode_octet_string(variant, meta, view, at) ==
  LET h == TakeField(variant, view, align(variant, at), bits_needed_unsigned(range(meta) - 1))
  IN  CASE fixed(meta) -> TakeOctets(view, align(variant, at), meta.min)
        [] short(meta) /\ ~ fixed(meta) -> octets_after(view, h, h.at)
        [] ~ short(meta) -> TakeCounted(variant, view, at)

(* The octets of a BIT STRING of a number of bits, the unused ones first.  *)
bit_string_octets(view, size, at) ==
  LET octets == (size + 7) \div 8
      r == TakeOctets(view, at, octets)
  IN  IF r.err = "ok" THEN Got("ok", <<8 * octets - size>> \o r.data, r.at) ELSE r

(* Without a constraint the number of unused bits is read, not computed.   *)
free_bit_string(view, d, unused) ==
  LET r == bit_string_octets(view, d.data[1], unused.at)
  IN  CASE d.err # "ok" -> d
        [] d.err = "ok" /\ unused.err # "ok" -> unused
        [] d.err = "ok" /\ unused.err = "ok" ->
             IF r.err = "ok" THEN Got("ok", unused.data \o Tail(r.data), r.at) ELSE r

decode_bit_string(variant, meta, view, at) ==
  LET h == TakeField(variant, view, align(variant, at), bits_needed_unsigned(range(meta) - 1))
      d == decode_length_determinant(variant, view, at)
  IN  CASE fixed(meta) -> bit_string_octets(view, meta.min, align(variant, at))
        [] short(meta) /\ ~ fixed(meta) ->
             IF h.err = "ok" THEN bit_string_octets(view, h.data[1], h.at) ELSE h
        [] ~ short(meta) -> free_bit_string(view, d, TakeNumber(view, d.at, 8))

(* The position has moved when an index turns out to be too large.         *)
checked_index(count, r) ==
  IF r.err = "ok" /\ r.data[1] >= count THEN Got("value_out_of_range", << >>, r.at) ELSE r

decode_choice_index(variant, meta, view, at) ==
  checked_index(meta.max, TakeField(variant, view, at, bits_needed_unsigned(meta.max - 1)))

decode_enumerated(variant, meta, view, at) ==
  IF meta.max <= 1 THEN Got("ok", <<0>>, at) ELSE decode_choice_index(variant, meta, view, at)

(* Read bit by bit: all that is left is read before the view runs out.     *)
decode_sequence_start(variant, meta, view, at) ==
  LET n == meta.max + (IF meta.bounded THEN 1 ELSE 0)
  IN  IF underflow(view, at, n)
        THEN Got("buffer_underflow", << >>, view.size)
        ELSE Got("ok", [i \in 1 .. n |-> view.bits[at + i]], align(variant, at + n))

decode_sequence_of_length(variant, meta, view, at) ==
  LET h == TakeField(variant, view, align(variant, at), bits_needed_unsigned(range(meta) - 1))
  IN  IF ~ short(meta) THEN decode_length_determinant(variant, view, at)
      ELSE IF h.err = "ok" /\ h.data[1] \notin meta.min .. meta.max
        THEN Got("value_out_of_range", << >>, h.at)
        ELSE h

(* A mutant: the whole of the last octet is taken for padding. *)
ones_in_octet(view, at) == {i \in 8 * (at \div 8) + 1 .. view.size : view.bits[i] = 1}

ones_after(view, at) == {i \in at + 1 .. view.size : view.bits[i] = 1}

(* uper_decoder::flush: what is left must be zero; it stops in the octet   *)
(* of the first bit that is not.                                           *)
flush_padding(view, at) ==
  LET ones == ones_after(view, at)
      stop == at + 8 * ((Min(ones) - at - 1) \div 8 + 1)
  IN  CASE at >= view.size -> Got("ok", << >>, at)
        [] at < view.size /\ ones = {} -> Got("ok", << >>, view.size)
        [] at < view.size /\ ones # {} ->
             Got("parse_error", << >>, Min({stop, view.size}))

=============================================================================
