-------------------------------- MODULE Word --------------------------------
(***************************************************************************)
(* Machine words as octets: the two's complement arithmetic that the       *)
(* binary codecs of asn1pp share.                                          *)
(*                                                                         *)
(* In the code an int64_t and a size_t have 8 octets.  Here the number of  *)
(* octets is the constant WordOctets, and Weight[n] is 256 to the power n, *)
(* given as a table so that no definition needs exponentiation.            *)
(***************************************************************************)
EXTENDS Integers, Sequences, FiniteSetsExt

CONSTANTS
  WordOctets,  (* octets of an int64_t and of a size_t: 8 in the code     *)
  Weight       (* Weight[n] = 256^n, for n in 0..WordOctets               *)

ASSUME WordAssumption ==
  /\ WordOctets \in 1 .. 8
  /\ Weight \in [0 .. WordOctets -> Nat]
  /\ Weight[0] = 1
  /\ \A n \in 1 .. WordOctets : Weight[n] = 256 * Weight[n - 1]

Octet == 0 .. 255

(* The values of a size_t and of an int64_t. *)
UWord == 0 .. Weight[WordOctets] - 1
SWord == -(128 * Weight[WordOctets - 1]) .. 128 * Weight[WordOctets - 1] - 1

(* v lies in the range that n octets of two's complement can hold. *)
Fits(v, n) == -(128 * Weight[n - 1]) <= v /\ v <= 128 * Weight[n - 1] - 1

(* The low n octets of v, most significant first.  \div rounds towards     *)
(* minus infinity, so this is two's complement for a negative v.           *)
Octets(v, n) == [i \in 1 .. n |-> (v \div Weight[n - i]) % 256]

(* The number a big-endian octet string stands for. *)
Unsigned(bytes) ==
  LET upto[i \in 0 .. Len(bytes)] ==
        IF i = 0 THEN 0 ELSE 256 * upto[i - 1] + bytes[i]
  IN  upto[Len(bytes)]

(* The most significant bit of a non-empty octet string: the sign.         *)
Negative(bytes) == bytes[1] >= 128

(* A buffer_view that is written is a sequence of octets to append; one    *)
(* that is read is the sequence of the octets left: its first n, the rest. *)
Take(view, n) == SubSeq(view, 1, n)
Drop(view, n) == SubSeq(view, n + 1, Len(view))

-----------------------------------------------------------------------------
(***************************************************************************)
(* Encoding: encode_integer_bytes drops the leading octets that only       *)
(* repeat the sign, and puts one back when the first octet left would be   *)
(* read with the wrong sign.                                               *)
(***************************************************************************)

(* Every octet of v above the low m ones is a sign octet. *)
SignOnlyAbove(v, m) == IF v < 0 THEN v >= -Weight[m] ELSE v < Weight[m]

(* Octets left when the loop over raw[start] stops; at least one is left.  *)
meaningful(v) == Min({m \in 1 .. WordOctets : SignOnlyAbove(v, m)})

(* A mutant: the sign octet is never put back. *)
needs_extra_never(v) == FALSE

(* The top bit of those octets is not the sign of v. *)
needs_extra(v) ==
  LET top == 128 * Weight[meaningful(v) - 1]
  IN  IF v < 0 THEN v < -top ELSE v >= top

encoded_integer_size(v) == meaningful(v) + (IF needs_extra(v) THEN 1 ELSE 0)

(* A mutant: every octet of the word is written. *)
encode_integer_word(v) == Octets(v, WordOctets)

encode_integer_bytes(v) == Octets(v, encoded_integer_size(v))

(* Decoding: start from 0 or -1 by the sign, then shift the octets in. *)
decode_integer_value(bytes) ==
  (IF Negative(bytes) THEN -Weight[Len(bytes)] ELSE 0) + Unsigned(bytes)

-----------------------------------------------------------------------------
(***************************************************************************)
(* The reference: X.690 8.3 asks for the smallest number of octets whose   *)
(* two's complement range holds the value.                                 *)
(***************************************************************************)
ShortestSize(v) == Min({n \in 1 .. WordOctets : Fits(v, n)})

=============================================================================
