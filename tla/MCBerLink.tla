----------------------------- MODULE MCBerLink -----------------------------
(* Two objects with words of two octets; messages of up to four elements,  *)
(* one nested, one with long tags, one that no buffer here can hold.       *)
EXTENDS BerLink

MCWeight == [n \in 0 .. 2 |-> 256 ^ n]

Integer(v) == Enc!Call("integer", INTEGER_TAG, <<v>>)
Enum(v)  == Enc!Call("enumerated", ENUMERATED_TAG, <<v>>)
Bool(b)  == Enc!Call("boolean", BOOLEAN_TAG, <<b>>)
Text(s)  == Enc!Call("octet_string", OCTET_STRING_TAG, s)
Null     == Enc!Call("null", NULL_TAG, << >>)
Head2(t, n) == Enc!Call("sequence_header", t, <<n>>)
Context  == [cls |-> 2, constructed |-> TRUE, number |-> 200]
Private  == [cls |-> 3, constructed |-> FALSE, number |-> 31]

MCScripts == {
  <<Head2(SEQUENCE_TAG, 5), Integer(128), Bool(255)>>,
  <<Integer(-129), Head2(Context, 2), Null>>,
  <<Enum(-128), Text(<<0, 0>>), Enc!Call("sequence_end", make_universal(0), << >>)>>,
  <<Enc!Call("bit_string", BIT_STRING_TAG, <<4, 240>>),
    Enc!Call("oid", OID_TAG, <<42>>), Enc!Call("tlv", Private, <<7>>)>>,
  <<Bool(0), Integer(128), Text([i \in 1 .. 8 |-> 9])>>
}
=============================================================================
