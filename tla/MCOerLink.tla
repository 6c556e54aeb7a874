----------------------------- MODULE MCOerLink -----------------------------
(* OerLink with words of three octets, so that widths of one and two       *)
(* octets are shorter than the word, and messages with every operation.    *)
EXTENDS OerLink

MCWeight == [n \in 0 .. 3 |-> 256 ^ n]

Integer(min, max, v) == Call("integer", Meta(TRUE, min, max), <<v>>)
Text(meta, s) == Call("octet_string", meta, s)
Bits(meta, s) == Call("bit_string", meta, s)

MCScripts == {
  <<Call("sequence_start", Meta(TRUE, 0, 0), <<1, 0, 0, 0, 0, 0, 0, 1>>),
    Integer(-128, 127, -1), Text(Free, <<7, 9>>)>>,
  <<Integer(0, 255, 200), Call("integer", Free, <<128>>), Call("boolean", Free, <<255>>)>>,
  <<Call("choice_index", Meta(FALSE, 0, 300), <<258>>), Integer(-129, 300, 300),
    Text(Meta(TRUE, 2, 2), <<1, 2>>), Text(Meta(TRUE, 0, 300), <<3>>)>>,
  <<Call("sequence_of_length", Free, <<2>>), Call("enumerated", Meta(FALSE, 0, 3), <<2>>),
    Bits(Free, <<4, 240>>), Bits(Meta(TRUE, 1, 3), <<1, 2>>),
    Bits(Meta(TRUE, 1, 1), <<3, 8>>), Call("null", Free, << >>)>>,
  <<Call("oid", Free, <<42>>), Integer(0, 255, 200), Integer(0, 3, 4)>>,
  <<Text(Free, [i \in 1 .. 130 |-> 7]), Call("integer", Free, <<-129>>)>>,
  <<Integer(-128, 127, -1), Text(Meta(TRUE, 2, 2), <<1>>)>>,
  <<Call("sequence_of_length", Free, <<65536>>), Call("sequence_end", Free, << >>)>>,
  <<Call("sequence_of_length", Free, <<20000>>), Call("integer", Free, <<-8388608>>)>>
}

MCCalls == UNION {{script[i] : i \in DOMAIN script} : script \in MCScripts}
=============================================================================
