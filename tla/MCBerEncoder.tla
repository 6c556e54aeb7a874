---------------------------- MODULE MCBerEncoder ----------------------------
(* BerEncoder with words of two octets: values at every boundary of the    *)
(* one- and two-octet forms.                                               *)
EXTENDS BerEncoder

MCWeight == [n \in 0 .. 2 |-> 256 ^ n]
MCInts == {127, 128, -129}
MCStrings == {<<5>>}
MCTags == {[cls |-> 2, constructed |-> TRUE, number |-> 200]}
MCLengths == {256}
=============================================================================
