-------------------------------- MODULE Tlv --------------------------------
(***************************************************************************)
(* ber/tlv.hpp: identifier octets, length octets and whole elements.       *)
(*                                                                         *)
(* A decoder returns [err, ..., rest]: on an error rest is what it was     *)
(* given, as the code moves the view only after its last check.            *)
(***************************************************************************)
EXTENDS Word

CONSTANT TagModulus   (* 2^32: a tag number is a uint32_t *)

ASSUME TagAssumption ==
  /\ TagModulus \in Nat \ (0 .. 31)
  /\ TagModulus \div 128 <= 33554432   (* at most five groups of seven bits *)

Tag == [cls : 0 .. 3, constructed : BOOLEAN, number : 0 .. TagModulus - 1]
ConstructedTag == [cls : 0 .. 3, constructed : {TRUE}, number : 0 .. TagModulus - 1]

make_universal(number) == [cls |-> 0, constructed |-> FALSE, number |-> number]

BOOLEAN_TAG      == make_universal(1)
INTEGER_TAG      == make_universal(2)
BIT_STRING_TAG   == make_universal(3)
OCTET_STRING_TAG == make_universal(4)
NULL_TAG         == make_universal(5)
OID_TAG          == make_universal(6)
ENUMERATED_TAG   == make_universal(10)
SEQUENCE_TAG     == [make_universal(16) EXCEPT !.constructed = TRUE]

-----------------------------------------------------------------------------
(* Identifier octets, X.690 8.1.2.                                         *)

(* A long-form tag number is written in groups of seven bits: Group[c] is  *)
(* 128 to the power c - 1, cont_count the number of groups.                *)
Group == <<1, 128, 16384, 2097152, 268435456>>

cont_count(number) == Min({c \in 1 .. 5 : number \div Group[c] < 128})

encoded_tag_size(t) == IF t.number <= 30 THEN 1 ELSE 1 + cont_count(t.number)

(* A mutant: every tag number is squeezed into the one octet. *)
encode_tag_short(t) ==
  <<64 * t.cls + (IF t.constructed THEN 32 ELSE 0) + t.number>>

encode_tag(t) ==
  LET lead == 64 * t.cls + (IF t.constructed THEN 32 ELSE 0)
      c    == cont_count(t.number)
      group(i) == (t.number \div Group[c - i + 1]) % 128
  IN  IF t.number <= 30
        THEN <<lead + t.number>>
        ELSE <<lead + 31>> \o
             [i \in 1 .. c |-> group(i) + (IF i < c THEN 128 ELSE 0)]

(* number = (number << 7) | group, in 32 bits. *)
Groups(octets) ==
  LET upto[i \in 0 .. Len(octets)] ==
        IF i = 0 THEN 0 ELSE (128 * upto[i - 1] + (octets[i] % 128)) % TagModulus
  IN  upto[Len(octets)]

decode_tag(view) ==
  LET first == view[1]
      ends  == {i \in 2 .. Len(view) : view[i] < 128}
      used  == IF first % 32 # 31 THEN 1 ELSE Min(ends)
      err   == CASE view = <<>> -> "buffer_underflow"
                 [] view # <<>> /\ first % 32 # 31 -> "ok"
                 [] view # <<>> /\ first % 32 = 31 ->
                      IF ends # {} THEN "ok"
                      ELSE IF Len(view) = 1 THEN "invalid_tag" ELSE "buffer_underflow"
  IN  IF err # "ok"
        THEN [err |-> err, tag |-> NULL_TAG, rest |-> view]
        ELSE [err  |-> "ok",
              tag  |-> [cls         |-> first \div 64,
                        constructed |-> (first \div 32) % 2 = 1,
                        number      |-> IF used = 1 THEN first % 32
                                        ELSE Groups(SubSeq(view, 2, used))],
              rest |-> Drop(view, used)]

-----------------------------------------------------------------------------
(* Length octets, X.690 8.1.3.                                             *)

INDEFINITE_LENGTH == 128

length_octets(length) == Min({k \in 1 .. WordOctets : length < Weight[k]})

encoded_length_size(length) == IF length <= 127 THEN 1 ELSE 1 + length_octets(length)

encode_length(length) ==
  IF length <= 127
    THEN <<length>>
    ELSE <<128 + length_octets(length)>> \o Octets(length, length_octets(length))

(* Any first octet but 128 with its top bit set announces a long form; the *)
(* octet 128 itself yields the sentinel INDEFINITE_LENGTH, the same number *)
(* as a definite length of 128 octets.                                     *)
decode_length(view) ==
  LET first == view[1]
      k     == first % 128
      err   == CASE view = <<>> -> "buffer_underflow"
                 [] view # <<>> /\ first <= INDEFINITE_LENGTH -> "ok"
                 [] view # <<>> /\ first > INDEFINITE_LENGTH ->
                      IF k = 127 THEN "invalid_length"
                      ELSE IF Len(view) < 1 + k THEN "buffer_underflow"
                      ELSE IF k > WordOctets THEN "invalid_length" ELSE "ok"
  IN  CASE err # "ok" -> [err |-> err, length |-> 0, rest |-> view]
        [] err = "ok" /\ first <= INDEFINITE_LENGTH ->
             [err |-> "ok", length |-> first, rest |-> Drop(view, 1)]
        [] err = "ok" /\ first > INDEFINITE_LENGTH ->
             [err |-> "ok", length |-> Unsigned(SubSeq(view, 2, 1 + k)),
              rest |-> Drop(view, 1 + k)]

-----------------------------------------------------------------------------
(* Whole elements.                                                         *)

encode_end_of_content == <<0, 0>>

encoded_header_size(t, length) == encoded_tag_size(t) + encoded_length_size(length)

encode_tlv(t, contents) == encode_tag(t) \o encode_length(Len(contents)) \o contents

encode_tlv_size(t, contents) == encoded_header_size(t, Len(contents)) + Len(contents)

(* Tag and length as every decoder reads them: a tag outside accept is     *)
(* refused with the view already past the tag, and a bad length too.       *)
WithLength(t, l) == [err |-> l.err, tag |-> t.tag, length |-> l.length, rest |-> l.rest]

AfterTag(t, view, accept) ==
  CASE t.err # "ok" ->
         [err |-> t.err, tag |-> t.tag, length |-> 0, rest |-> view]
    [] t.err = "ok" /\ t.tag \notin accept ->
         [err |-> "invalid_tag", tag |-> t.tag, length |-> 0, rest |-> t.rest]
    [] t.err = "ok" /\ t.tag \in accept -> WithLength(t, decode_length(t.rest))

ReadHeader(view, accept) == AfterTag(decode_tag(view), view, accept)

(* decode_tlv_header skips the room check for the sentinel.                *)
decode_tlv_header(view) ==
  LET h == ReadHeader(view, Tag)
  IN  IF h.err = "ok" /\ h.length # INDEFINITE_LENGTH /\ Len(h.rest) < h.length
        THEN [h EXCEPT !.err = "buffer_underflow"]
        ELSE h

=============================================================================
