-------------------------------- MODULE Der --------------------------------
(***************************************************************************)
(* der_encoder: it writes with a ber_encoder and judges octets, its own or *)
(* a peer's, with validate.  The judgement is spread over five checks that *)
(* return early, so what a check looks at is as important as what it says. *)
(***************************************************************************)
EXTENDS BerElement

CONSTANTS
  OwnElements,  (* [tag, contents] the caller encodes; INTEGERs by value   *)
  OwnInts,      (* values it encodes as INTEGER or ENUMERATED              *)
  Received      (* octets that come from elsewhere                         *)

ASSUME DerAssumption ==
  /\ OwnElements \subseteq [tag : Tag, contents : Seq(Octet)]
  /\ \A e \in OwnElements : Len(e.contents) \in UWord
  /\ OwnInts \subseteq SWord
  /\ Received \subseteq Seq(Octet)

VARIABLES
  encoded,  (* the octets to be judged *)
  own,      (* they were written by this der_encoder *)
  verdict   (* what validate said of them, "none" before it is asked *)

vars == <<encoded, own, verdict>>

(* Leading octets equal to sign_byte. *)
count_sign_leading_octets(content, sign_byte) ==
  Min({Len(content)} \cup {i - 1 : i \in {j \in 1 .. Len(content) : content[j] # sign_byte}})

(* A mutant: a redundant leading 255 is not seen. *)
is_integer_minimal_positive(content) ==
  content # << >> /\ ~ (Len(content) > 1 /\ content[1] = 0 /\ content[2] < 128)

is_integer_minimal(content) ==
  CASE content = << >> -> FALSE
    [] Len(content) = 1 -> TRUE
    [] Len(content) > 1 -> ~ \/ content[1] = 0 /\ content[2] < 128
                             \/ content[1] = 255 /\ content[2] >= 128

Verdict(bad) == IF bad THEN "constraint_violation" ELSE "ok"

(* A mutant: any octet but 0 passes for true, as in BER. *)
validate_boolean_ber(content) == Verdict(Len(content) # 1)

validate_boolean_der(content) ==
  Verdict(Len(content) # 1 \/ content[1] \notin {0, 255})

(* A mutant: one octet too strict about the sign. *)
validate_integer_strict(content) ==
  Verdict(\/ content = << >>
          \/ Len(content) > 1 /\ content[1] \in {0, 255})

(* A redundant leading 255 is seen only when it is followed by another.    *)
validate_integer_der(content) ==
  Verdict(\/ content = << >>
          \/ /\ Len(content) > 1
             /\ \/ content[1] = 0 /\ content[2] < 128
                \/ content[1] = 255 /\ count_sign_leading_octets(content, 255) >= 2)

definite(h) ==
  CASE h.err # "ok" -> h.err
    [] h.err = "ok" -> IF h.length = INDEFINITE_LENGTH THEN "invalid_length" ELSE "ok"

validate_length_definite(tlv) == definite(ReadHeader(tlv, Tag))

(* The mask 0xFF << (8 - unused_bits), in 8 bits, covers the high bits.    *)
validate_bit_string_unused_bits(content) ==
  Verdict(\/ content = << >>
          \/ content[1] > 7
          \/ /\ Len(content) > 1 /\ content[1] > 0
             /\ content[Len(content)] >= 2 ^ (8 - content[1]))

(* Only elements that none of the three contents checks is about have      *)
(* their length looked at.                                                 *)
judge(octets, r) ==
  LET universal(numbers) == r.tag.cls = 0 /\ r.tag.number \in numbers
  IN  CASE r.err # "ok" -> r.err
        [] r.err = "ok" /\ universal({3, 4}) /\ r.tag.constructed -> "constraint_violation"
        [] r.err = "ok" /\ universal({1}) -> validate_boolean_der(r.contents)
        [] r.err = "ok" /\ universal({2, 10}) -> validate_integer_der(r.contents)
        [] r.err = "ok" /\ universal({3}) /\ ~ r.tag.constructed ->
             validate_bit_string_unused_bits(r.contents)
        [] OTHER -> validate_length_definite(octets)

validate(octets) == judge(octets, ReadElement("tlv", octets))

-----------------------------------------------------------------------------
Init == encoded = << >> /\ own = FALSE /\ verdict = "none"

(* encode_integer, encode_enumerated: the delegate's octets.               *)
EncodeInteger ==
  /\ \E v \in OwnInts, t \in {INTEGER_TAG, ENUMERATED_TAG} :
       encoded' = encode_tlv(t, encode_integer_bytes(v))
  /\ own' = TRUE /\ verdict' = "none"

EncodeElement ==
  /\ \E e \in OwnElements : encoded' = encode_tlv(e.tag, e.contents)
  /\ own' = TRUE /\ verdict' = "none"

Receive ==
  /\ encoded' \in Received
  /\ own' = FALSE /\ verdict' = "none"

Validate == verdict' = validate(encoded) /\ UNCHANGED <<encoded, own>>

Next == EncodeInteger \/ EncodeElement \/ Receive \/ Validate

Spec == Init /\ [][Next]_vars

-----------------------------------------------------------------------------
(* The element at the front of the octets, when it is complete.            *)
Judged == ReadElement("tlv", encoded)

(* The contents are the shortest two's complement form (X.690 8.3.2).      *)
Shortest(contents) ==
  Len(contents) \in 1 .. WordOctets
  /\ Len(contents) = ShortestSize(decode_integer_value(contents))

(* Only octets are ever judged, and the verdict is one of its error codes. *)
TypeOK ==
  /\ encoded \in Seq(Octet) /\ own \in BOOLEAN
  /\ verdict \in {"none", "ok", "constraint_violation", "invalid_length",
                  "invalid_tag", "buffer_underflow"}

(* validate never turns down a canonical BOOLEAN, INTEGER or ENUMERATED:   *)
(* a signature check that calls it loses no good message.                  *)
CanonicalAccepted ==
  verdict \notin {"none", "ok"} =>
    ~ \/ \E b \in {0, 255} : encoded = encode_tlv(BOOLEAN_TAG, <<b>>)
      \/ \E t \in {INTEGER_TAG, ENUMERATED_TAG} :
           encoded = encode_tlv(t, Judged.contents) /\ Shortest(Judged.contents)

(* What validate accepts at least has all its octets, no constructed       *)
(* string, a BOOLEAN of 0 or 255 and no redundant leading zero octet.      *)
AcceptedIsPlausible ==
  verdict = "ok" =>
    LET c == Judged.contents
        t == Judged.tag
    IN  /\ Judged.err = "ok"
        /\ t \notin {[BIT_STRING_TAG EXCEPT !.constructed = TRUE],
                     [OCTET_STRING_TAG EXCEPT !.constructed = TRUE]}
        /\ t = BOOLEAN_TAG => c \in {<<0>>, <<255>>}
        /\ t = INTEGER_TAG /\ Len(c) \in 1 .. WordOctets =>
             Shortest(c) \/ decode_integer_value(c) < 0

(* is_integer_minimal, "the core canonical check used by DER validators"   *)
(* (docs/api/ber.md:161), holds of exactly the shortest forms.             *)
MinimalIsShortest ==
  Judged.err = "ok" /\ Judged.tag = INTEGER_TAG /\ Len(Judged.contents) <= WordOctets =>
    (is_integer_minimal(Judged.contents) <=> Shortest(Judged.contents))

(* Stated by docs/api/ber.md:145 of validate_integer_der, and refuted: an  *)
(* INTEGER that validate accepts has the minimal number of octets.         *)
AcceptedIntegerIsMinimal ==
  verdict = "ok" /\ Judged.tag = INTEGER_TAG => is_integer_minimal(Judged.contents)

(* Stated by docs/api/ber.md:165 ("it enforces canonical encoding rules    *)
(* internally") and assumed by the round trips of der_encoder_test.cpp,    *)
(* and refuted: what a der_encoder wrote passes its own validate.          *)
OwnOutputAccepted == own => verdict \in {"none", "ok"}
=============================================================================
