-------------------------------- MODULE MCDer --------------------------------
(* Der on contents of up to three octets drawn from the values at which a  *)
(* sign or a BOOLEAN changes its meaning, with words of three octets.      *)
EXTENDS Der

MCWeight == [n \in 0 .. 3 |-> 256 ^ n]

Boundary == {0, 1, 127, 128, 254, 255}
Contents == UNION {[1 .. n -> Boundary] : n \in 0 .. 3}

MCReceived ==
  {encode_tlv(t, c) :
     t \in {BOOLEAN_TAG, INTEGER_TAG, ENUMERATED_TAG,
            [OCTET_STRING_TAG EXCEPT !.constructed = TRUE]},
     c \in Contents}
  \cup {<<2, 128>>, <<2, 2, 1>>, <<2, 129, 1, 5>>, <<160, 1, 0>>, <<5, 0>>, << >>}

MCOwnInts == {0, 127, 128, 255, 256, -1, -128, -129, -8388608, 8388607}
MCOwnElements ==
  {[tag |-> BOOLEAN_TAG, contents |-> <<255>>],
   [tag |-> NULL_TAG, contents |-> << >>],
   [tag |-> [cls |-> 2, constructed |-> TRUE, number |-> 200], contents |-> <<5, 0>>],
   [tag |-> OCTET_STRING_TAG, contents |-> [i \in 1 .. 127 |-> 7]],
   [tag |-> BIT_STRING_TAG, contents |-> <<0, 240>>]}

(* A BIT STRING of four bits and an OCTET STRING of 128 octets.            *)
MCRefutedElements ==
  {[tag |-> BIT_STRING_TAG, contents |-> <<4, 240>>],
   [tag |-> OCTET_STRING_TAG, contents |-> [i \in 1 .. 128 |-> 7]]}
=============================================================================
