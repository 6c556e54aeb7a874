----------------------------- MODULE MCTextLink -----------------------------
(* TextLink with numbers of one octet, every kind of value alone and in     *)
(* containers, and containers in containers.                                *)
EXTENDS TextLink

MCWeight == [n \in 0 .. 1 |-> 256 ^ n]
MCWords == <<<<"red">>, <<"light", " ", "blue">>>>

Item(op, name, data) == [op |-> op, name |-> name, data |-> data]
Begins(op, name) == Item(op, name, << >>)
End == Item("close", "", << >>)

Data == [
  integer      |-> {<<-128>>, <<0>>, <<127>>},
  boolean      |-> {<<0>>, <<1>>},
  null         |-> {<< >>},
  octet_string |-> {<< >>, <<255>>, <<1, 2>>, <<0, 16, 131>>, <<251, 239, 190, 7>>},
  enumerated   |-> {<<1>>, <<2>>},
  oid          |-> {<<1>>}]

Values(name) == UNION {{Item(op, name, d) : d \in Data[op]} : op \in DOMAIN Data}
Bits(name) == {Item("bit_string", name, <<3, 8>>), Item("bit_string", name, <<0>>)}

Wrap(op, inside) == <<Begins(op, "s")>> \o inside \o <<End>>
Inner(op, name, inside) == <<Begins(op, name)>> \o inside \o <<End>>

One == Item("integer", "a", <<-12>>)
Two == Item("integer", "b", <<5>>)

(* Every value alone, as a field, as an element, and as the alternative of *)
(* a CHOICE, which is a message or a field.                                *)
Flat(values(_)) ==
  {<<v>> : v \in values("s")}
    \cup {Wrap("sequence", <<v, Two>>) : v \in values("a")}
    \cup {Wrap("sequence_of", <<v, v>>) : v \in values("a")}
    \cup {Wrap("choice", <<v>>) : v \in values("a")}
    \cup {Wrap("sequence", <<One>> \o Inner("choice", "b", <<v>>)) : v \in values("a")}

Nested ==
  {Wrap(op, << >>) : op \in {"sequence", "sequence_of"}}
    \cup {Wrap("sequence", Inner(op, "c", <<One>>) \o Inner("sequence_of", "b", <<One, One>>)) :
            op \in Objects}
    \cup {Wrap("sequence", Inner(op, "b", <<Item("integer", "a", <<3>>)>>) \o <<One>>) :
            op \in Containers}
    \cup {Wrap("choice", Inner(op, "a", <<One>>)) : op \in Containers}
    \cup {Wrap("sequence_of", Inner(op, "a", <<One>>) \o <<Two>>) : op \in Containers}
    \cup {Wrap("sequence_of", <<One>> \o Inner(op, "b", << >>)) : op \in {"sequence", "sequence_of"}}
    \cup {Wrap("sequence_of", Inner(op, "a", <<One>>) \o Inner(op, "a", <<One>>)) : op \in Containers}

MCScripts == [
  jer  |-> Flat(Values) \cup Flat(Bits) \cup Nested,
  xer  |-> Flat(Values) \cup Nested,
  exer |-> {Wrap("sequence", <<One, Two>>)}]
=============================================================================
