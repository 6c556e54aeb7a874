-------------------------------- MODULE Oer --------------------------------
(***************************************************************************)
(* The octets of OER, X.696, as oer_encoder writes and oer_decoder reads   *)
(* them: no tags; a count only where the constraint of the type leaves one *)
(* open.  The two sides are separate code in the source, and here.         *)
(***************************************************************************)
EXTENDS ArchCodec

(* The OerMeta of a type: has_range_constraint or has_size_constraint with *)
(* its two bounds.  For an index, max is root_count or alternative_count;  *)
(* for a SEQUENCE, bounded is has_extension.                               *)
Meta(bounded, min, max) == [bounded |-> bounded, min |-> min, max |-> max]
Free == Meta(FALSE, 0, 0)

fixed(meta) == meta.bounded /\ meta.min = meta.max

integer_byte_width(meta) ==
  Min({WordOctets} \cup
      {w \in {1, 2, 4, 8} : w <= WordOctets /\
         IF meta.min >= 0 THEN meta.max < Weight[w]
                          ELSE Fits(meta.min, w) /\ Fits(meta.max, w)})

index_byte_width(n) == CASE n <= 255 -> 1
                         [] n > 255 /\ n <= 65535 -> 2
                         [] n > 65535 -> 4

-----------------------------------------------------------------------------
(* The length determinant: one, two or three octets.                       *)

encode_length_determinant(length) ==
  CASE length <= 127 -> <<length>>
    [] length > 127 /\ length <= 16383 -> <<128 + length \div 256, length % 256>>
    [] length > 16383 -> <<192, (length \div 256) % 256, length % 256>>

decode_length_determinant(view) ==
  LET first == view[1]
      size  == CASE first < 128 -> 1 [] first \in 128 .. 191 -> 2 [] first > 191 -> 3
      number == CASE size = 1 -> first
                  [] size = 2 -> 256 * (first % 64) + view[2]
                  [] size = 3 -> 256 * view[2] + view[3]
  IN  IF view = << >> \/ Len(view) < size
        THEN [err |-> "buffer_underflow", length |-> 0, rest |-> view]
        ELSE [err |-> "ok", length |-> number, rest |-> Drop(view, size)]

-----------------------------------------------------------------------------
(* Encoding.  A call is an operation, the meta of its type and its         *)
(* argument as numbers; the unused_bits of a BIT STRING come first.        *)

Operations == {"integer", "enumerated", "choice_index", "boolean", "octet_string",
               "bit_string", "oid", "null", "sequence_start", "sequence_end",
               "sequence_of_length"}

Call(op, meta, data) == [op |-> op, meta |-> meta, data |-> data]
NoCall == Call("none", Free, << >>)

(* The extension bit, never set, and the presence bits, in full octets.    *)
preamble(has_extension, present) ==
  LET bits == (IF has_extension THEN <<0>> ELSE << >>) \o present
      octet(i) == LET bit(b) == IF 8 * i + b <= Len(bits) THEN bits[8 * i + b] ELSE 0
                  IN  128 * bit(1) + 64 * bit(2) + 32 * bit(3) + 16 * bit(4)
                      + 8 * bit(5) + 4 * bit(6) + 2 * bit(7) + bit(8)
  IN  [i \in 1 .. (Len(bits) + 7) \div 8 |-> octet(i - 1)]

contents(call) ==
  CASE call.op = "integer" ->
         IF call.meta.bounded THEN Octets(call.data[1], integer_byte_width(call.meta))
                              ELSE encode_integer_bytes(call.data[1])
    [] call.op \in {"enumerated", "choice_index"} ->
         Octets(call.data[1], index_byte_width(call.meta.max))
    [] call.op \in {"boolean", "octet_string", "oid"} -> call.data
    [] call.op = "bit_string" -> IF fixed(call.meta) THEN Tail(call.data) ELSE call.data
    [] call.op = "sequence_start" -> preamble(call.meta.bounded, call.data)
    [] call.op \in {"null", "sequence_end", "sequence_of_length"} -> << >>

(* A length determinant comes first, and is written before the room for    *)
(* what it counts is checked.                                              *)
counted(call) ==
  \/ call.op \in {"oid", "sequence_of_length"}
  \/ call.op \in {"integer", "octet_string", "bit_string"} /\ ~ call.meta.bounded

count(call) ==
  IF call.op = "sequence_of_length" THEN call.data[1] ELSE Len(contents(call))

(* A constrained string that is not of fixed size has its length in as     *)
(* many octets as the largest length needs.                                *)
length_width(call) ==
  IF call.op = "octet_string" THEN index_byte_width(call.meta.max)
                              ELSE Min({2, index_byte_width(call.meta.max + 1)})

prefix(call) ==
  CASE counted(call) -> encode_length_determinant(count(call))
    [] ~ counted(call) /\ call.op \in {"octet_string", "bit_string"} /\ ~ fixed(call.meta) ->
         Octets(count(call), length_width(call))
    [] OTHER -> << >>

Piece(call) == prefix(call) \o contents(call)

(* What a call refuses before it looks at the room.                        *)
refusal(call) ==
  LET size == IF call.op = "bit_string" THEN Len(call.data) - 1 ELSE Len(call.data)
      outside(n) == call.meta.bounded /\ n \notin call.meta.min .. call.meta.max
  IN  CASE call.op = "integer" ->
             IF outside(call.data[1]) THEN "value_out_of_range" ELSE "ok"
        [] call.op \in {"octet_string", "bit_string"} ->
             IF outside(size) THEN "constraint_violation" ELSE "ok"
        [] OTHER -> "ok"

-----------------------------------------------------------------------------
(* Decoding: [err, data, rest] of each operation on a view.                *)

Got(err, data, rest) == [err |-> err, data |-> data, rest |-> rest]

(* A mutant: the view is not moved past the octets. *)
TakeOctets_again(view, n) ==
  IF Len(view) < n THEN Got("buffer_underflow", << >>, view) ELSE Got("ok", Take(view, n), view)

TakeOctets(view, n) ==
  IF Len(view) < n THEN Got("buffer_underflow", << >>, view)
                   ELSE Got("ok", Take(view, n), Drop(view, n))

(* The octets a length determinant counts. *)
TakeCounted(view) ==
  LET d == decode_length_determinant(view)
  IN  IF d.err # "ok" THEN Got(d.err, << >>, d.rest) ELSE TakeOctets(d.rest, d.length)

(* unsigned_to_signed keeps the width, a cast to int64_t only the bits of  *)
(* a full word; a mutant: every value is signed.                           *)
as_int64_signed(meta, octets) == decode_integer_value(octets)

as_int64(meta, octets) ==
  IF meta.min >= 0 /\ Len(octets) < WordOctets THEN Unsigned(octets)
                                               ELSE decode_integer_value(octets)

(* An unsigned value is not checked against its range. *)
constrained_value(meta, r) ==
  IF r.err # "ok" THEN r
  ELSE IF meta.min < 0 /\ as_int64(meta, r.data) \notin meta.min .. meta.max
    THEN Got("value_out_of_range", << >>, r.rest)
    ELSE Got("ok", <<as_int64(meta, r.data)>>, r.rest)

unconstrained_value(d) ==
  CASE d.err # "ok" -> Got(d.err, << >>, d.rest)
    [] d.err = "ok" /\ d.length = 0 -> Got("invalid_length", << >>, d.rest)
    [] d.err = "ok" /\ d.length > WordOctets -> Got("value_out_of_range", << >>, d.rest)
    [] d.err = "ok" /\ d.length \in 1 .. WordOctets ->
         LET c == TakeOctets(d.rest, d.length)
         IN  IF c.err = "ok" THEN Got("ok", <<decode_integer_value(c.data)>>, c.rest) ELSE c

decode_integer(meta, view) ==
  IF meta.bounded THEN constrained_value(meta, TakeOctets(view, integer_byte_width(meta)))
                  ELSE unconstrained_value(decode_length_determinant(view))

decode_octet_string(meta, view) ==
  LET h == TakeOctets(view, index_byte_width(meta.max))
      n == Unsigned(h.data)
  IN  CASE fixed(meta) -> TakeOctets(view, meta.min)
        [] meta.bounded /\ ~ fixed(meta) ->
             IF h.err # "ok" THEN h
             ELSE IF n \notin meta.min .. meta.max
               THEN Got("constraint_violation", << >>, h.rest)
               ELSE TakeOctets(h.rest, n)
        [] ~ meta.bounded -> TakeCounted(view)

(* A BIT STRING that is not of fixed size is read with a determinant, also *)
(* when its size is constrained; one of fixed size has no unused bits.     *)
decode_bit_string(meta, view) ==
  LET d == decode_length_determinant(view)
      f == TakeOctets(view, meta.min)
  IN  IF fixed(meta)
        THEN IF f.err = "ok" THEN Got("ok", <<0>> \o f.data, f.rest) ELSE f
        ELSE IF d.err = "ok" /\ d.length < 1
               THEN Got("invalid_length", << >>, d.rest)
               ELSE TakeCounted(view)

decode_index(meta, view) ==
  LET r == TakeOctets(view, index_byte_width(meta.max))
  IN  IF r.err = "ok" THEN Got("ok", <<Unsigned(r.data)>>, r.rest) ELSE r

decode_boolean(view) ==
  LET r == TakeOctets(view, 1)
  IN  IF r.err = "ok" THEN Got("ok", <<IF r.data[1] # 0 THEN 255 ELSE 0>>, r.rest) ELSE r

decode_sequence_of_length(view) ==
  LET d == decode_length_determinant(view)
  IN  IF d.err = "ok" THEN Got("ok", <<d.length>>, d.rest) ELSE Got(d.err, << >>, view)

-----------------------------------------------------------------------------
(* coer_validator::validate_integer: it reads 10xxxxxx as a number of      *)
(* length octets, and it takes no notice of a constraint.                  *)

is_integer_bytes_minimal(data) ==
  Len(data) = 1 \/ ~ \/ data[1] = 0 /\ data[2] < 128
                     \/ data[1] = 255 /\ data[2] >= 128

coer_validate_integer(meta, encoded) ==
  LET first == encoded[1]
      start == IF first < 128 THEN 1 ELSE 1 + (first % 64)
      length == IF first < 128 THEN first ELSE Unsigned(SubSeq(encoded, 2, start))
  IN  CASE encoded = << >> -> "constraint_violation"
        [] encoded # << >> /\ meta.bounded -> "ok"
        [] encoded # << >> /\ ~ meta.bounded ->
             CASE first > 191 \/ (first > 127 /\ first % 64 \notin 1 .. 4) ->
                    "constraint_violation"
               [] first <= 191 /\ (first > 127 => first % 64 \in 1 .. 4) ->
                    IF Len(encoded) < start \/ Len(encoded) < start + length
                      THEN "buffer_underflow"
                    ELSE IF length = 0
                         \/ ~ is_integer_bytes_minimal(SubSeq(encoded, start + 1, start + length))
                      THEN "constraint_violation" ELSE "ok"

=============================================================================
