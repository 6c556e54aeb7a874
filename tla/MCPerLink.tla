----------------------------- MODULE MCPerLink -----------------------------
(* PerLink with words of three octets and messages that put every operation *)
(* at octet boundaries and between them.                                    *)
EXTENDS PerLink

MCWeight == [n \in 0 .. 3 |-> 256 ^ n]

Integer(min, max, v) == Call("integer", Meta(TRUE, min, max), <<v>>)
FreeInteger(v) == Call("integer", Free, <<v>>)
Bool(b) == Call("boolean", Free, <<b>>)
Text(meta, s) == Call("octet_string", meta, s)
BitText(meta, s) == Call("bit_string", meta, s)
Start(ext, present) == Call("sequence_start", Meta(ext, 0, Len(present)), present)
Enum(n, i) == Call("enumerated", Meta(FALSE, 0, n), <<i>>)
Choice(n, i) == Call("choice_index", Meta(FALSE, 0, n), <<i>>)
Many(meta, n) == Call("sequence_of_length", meta, <<n>>)

MCScripts == {
  <<Start(TRUE, <<1, 0>>), Integer(-5, 10, 10), FreeInteger(128), Bool(1)>>,
  <<Bool(1), FreeInteger(-128), FreeInteger(0), FreeInteger(8388607)>>,
  <<Integer(1, 300, 257), Bool(0), Integer(0, 70000, 65536), Integer(7, 7, 7)>>,
  <<Choice(3, 2), Text(Meta(TRUE, 2, 2), <<255, 1>>), Enum(5, 4), Text(Free, <<129>>)>>,
  <<Enum(1, 0), Choice(1, 0), Text(Meta(TRUE, 0, 3), <<255>>), Text(Meta(TRUE, 0, 3), << >>)>>,
  <<Bool(1), BitText(Meta(TRUE, 10, 10), <<6, 255, 192>>),
    BitText(Meta(TRUE, 0, 9), <<3, 8>>), BitText(Free, <<4, 240>>)>>,
  <<Bool(1), Many(Meta(TRUE, 0, 6), 5), Many(Free, 300), Call("sequence_end", Free, << >>)>>,
  <<Many(Meta(TRUE, 0, 65535), 5000), Start(FALSE, << >>), Call("oid", Free, <<42, 3>>)>>,
  <<Many(Meta(TRUE, 0, 70000), 20000), Call("null", Free, << >>), Bool(1)>>,
  <<Bool(1), Integer(0, 3, 4)>>,
  <<Bool(1), Text(Meta(TRUE, 2, 2), <<1>>)>>,
  <<Enum(3, 3)>>
}

(* The messages of the run are meant; the negative one below is not.       *)
ASSUME MCMeant == \A script \in MCScripts : \A i \in DOMAIN script : Meant(script[i])

MCScriptsNegative == {<<FreeInteger(-128), FreeInteger(-129), Bool(1)>>}
=============================================================================
