----------------------------- MODULE BerElement -----------------------------
(***************************************************************************)
(* How ber_decoder takes one element off a view: which tags an operation   *)
(* accepts, and the checks it makes on the length, in their order.         *)
(***************************************************************************)
EXTENDS Tlv

Elements == {"integer", "enumerated", "boolean", "null", "octet_string",
             "bit_string", "oid", "sequence_header", "tlv", "skip_tlv"}

(* The tags an operation accepts. *)
accept(op) ==
  CASE op = "integer"         -> {INTEGER_TAG}
    [] op = "enumerated"      -> {ENUMERATED_TAG}
    [] op = "boolean"         -> {BOOLEAN_TAG}
    [] op = "null"            -> {NULL_TAG}
    [] op = "octet_string"    -> {OCTET_STRING_TAG}
    [] op = "bit_string"      -> {BIT_STRING_TAG}
    [] op = "oid"             -> {OID_TAG}
    [] op = "sequence_header" -> ConstructedTag
    [] op \in {"tlv", "skip_tlv"} -> Tag

(* An INTEGER with more contents octets than an int64_t is out of range. *)
too_wide(n) == n > WordOctets

(* The checks each decoder makes on a length n and on the octets after it. *)
contents_error(op, n, rest) ==
  CASE op \in {"integer", "enumerated"} ->
         (CASE n = 0 -> "invalid_length"
            [] n # 0 /\ Len(rest) < n -> "buffer_underflow"
            [] n # 0 /\ Len(rest) >= n -> IF too_wide(n) THEN "value_out_of_range" ELSE "ok")
    [] op = "boolean" ->
         (CASE n # 1 -> "invalid_length"
            [] n = 1 -> IF rest = << >> THEN "buffer_underflow" ELSE "ok")
    [] op = "null" -> IF n # 0 THEN "invalid_length" ELSE "ok"
    [] op = "bit_string" ->
         (CASE Len(rest) < n -> "buffer_underflow"
            [] Len(rest) >= n -> IF n < 1 \/ rest[1] > 7 THEN "invalid_length" ELSE "ok")
    [] op \in {"octet_string", "oid", "sequence_header", "tlv", "skip_tlv"} ->
         IF Len(rest) < n THEN "buffer_underflow" ELSE "ok"

(* Header, checks, contents.  After an error rest is what was left when    *)
(* the failing check was made; a SEQUENCE header leaves its contents.      *)
AfterHeader(op, h) ==
  LET err == IF h.err # "ok" THEN h.err ELSE contents_error(op, h.length, h.rest)
  IN  [err |-> err, tag |-> h.tag, length |-> h.length,
       contents |-> IF err = "ok" THEN Take(h.rest, h.length) ELSE << >>,
       rest |-> IF err = "ok" /\ op # "sequence_header" THEN Drop(h.rest, h.length)
                ELSE h.rest]

ReadElement(op, octets) == AfterHeader(op, ReadHeader(octets, accept(op)))

=============================================================================
