---------------------------- MODULE MCBerDecoder ----------------------------
(* BerDecoder on messages of a few elements, complete, cut short and with  *)
(* every form of tag and length octets.                                    *)
EXTENDS BerDecoder

MCWeight == [n \in 0 .. 2 |-> 256 ^ n]
MCMessages == {
  <<2, 1, 128,  2, 2, 255, 127,  2, 1, 128>>,            \* three INTEGERs
  <<48, 5, 1, 1, 7, 5, 0,  10, 1, 255>>,                 \* a SEQUENCE, an ENUMERATED
  <<3, 2, 4, 240,  4, 129, 1, 9,  6, 0>>,                \* strings, a long length
  <<2, 0,  2, 3, 1, 2, 3,  3, 0,  3, 1, 8>>,             \* contents no decoder takes
  <<191, 129, 72, 3, 2, 1, 128,  31, 133>>,              \* long tags, the second cut short
  <<48, 128, 2, 1, 128, 0, 0>>,                          \* an indefinite length
  <<4, 128>> \o [i \in 1 .. 128 |-> 0],                  \* one with 128 octets after it
  <<4, 255, 4, 131, 0, 0, 0, 4, 130, 1>>                 \* lengths no decoder takes
}
=============================================================================
