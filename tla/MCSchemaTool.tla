---------------------------- MODULE MCSchemaTool ----------------------------
(* SchemaTool on schemas of one assignment of each form and, behind it, one  *)
(* without brackets and three with parentheses, braces, and braces in        *)
(* braces.  They are given as written, and with one token missing, replaced  *)
(* or put in before the brackets that come last.                             *)
EXTENDS SchemaTool, SequencesExt

Read(name, kind, of, constrained) ==
  [name |-> name, kind |-> kind, shape |-> [kind |-> of, constrained |-> constrained]]
Type(of) == <<Read("Y", "type", of, FALSE)>>
Constrained(of) == <<Read("Y", "type", of, TRUE)>>
Item(text, reads) == [text |-> text, reads |-> reads]
Y(text) == <<"Y", "::=">> \o text

ClassText == <<"Cls", "::=", "CLASS", "{", "&", "id", "OBJECT", "IDENTIFIER", "UNIQUE", ",",
               "&", "Ty", "OPTIONAL", "}", "WITH", "SYNTAX", "{", "SIZE", "&", "id", "}">>
Class == Read("Cls", "class", "none", FALSE)

Simple == {
  Item(Y(<<"INTEGER", "{", "one", "(", "number", ")", "}">>), Type("INTEGER")),
  Item(Y(<<"INTEGER", "(", "MIN", "..", "number", ")">>), Constrained("INTEGER")),
  Item(Y(<<"OCTET", "STRING", "(", "SIZE", "(", "number", "..", "number", ")", ")">>),
       Constrained("OCTET")),
  Item(Y(<<"BIT", "STRING", "{", "one", "(", "number", ")", "}">>), Type("BIT")),
  Item(Y(<<"OBJECT", "IDENTIFIER">>), Type("OBJECT IDENTIFIER")),
  Item(Y(<<"REAL">>), Type("REAL")),
  Item(Y(<<"ANY">>), Type("ANY")),
  Item(Y(<<"ENUMERATED", "{", "one", "(", "number", ")", ",", "...", "}">>), Type("ENUMERATED")),
  Item(Y(<<"[", "APPLICATION", "number", "]", "IMPLICIT", "NULL">>), Type("tagged")),
  Item(Y(<<"X", "(", "FROM", "(", "string", "..", "string", ")", ")">>), Constrained("named")),
  Item(Y(<<"INTEGER", "(", "ALL", "EXCEPT", "(", "number", ")", ")">>), Constrained("INTEGER"))
}

Constructed == {
  Item(Y(<<"SEQUENCE", "{", "one", "INTEGER", "OPTIONAL", ",", "two", "SET", "OF", "X",
           "DEFAULT", "{", "}", "}">>), Type("SEQUENCE")),
  Item(Y(<<"SEQUENCE", "{", "one", "CHOICE", "{", "two", "BOOLEAN", "}", ",", "...", "}">>),
       Type("SEQUENCE")),
  Item(Y(<<"SET", "{", "one", "BOOLEAN", "DEFAULT", "TRUE", "}">>), Type("SET")),
  Item(Y(<<"SEQUENCE", "SIZE", "(", "number", ")", "OF", "X">>), Constrained("LIST OF")),
  Item(Y(<<"X", "{", "INTEGER", ",", "number", "}">>), Type("instantiation")),
  Item(<<"Y", "{", "X", ",", "INTEGER", ":", "two", "}", "::=", "SET", "OF", "X">>,
       <<Read("Y", "parameterized", "LIST OF", FALSE)>>),
  Item(<<"X", "::=", "NULL", "y", "X", "::=", "{", "number", "}">>,
       <<Read("X", "type", "NULL", FALSE), Read("y", "value", "named", FALSE)>>),
  Item(ClassText, <<Class>>)
}

Objects == {
  Item(ClassText \o <<"obj", "Cls", "::=", "{", "&", "id", "{", "number", "}", ",",
                      "&", "Ty", "INTEGER", "}">>, << >>),
  Item(ClassText \o <<"obj", "Cls", "::=", "{", "&", "id", "string", "}",
                      "Objs", "Cls", "::=", "{", "obj", ",", "...", "}">>,
       <<Class, Read("obj", "object", "none", FALSE), Read("Objs", "object_set", "none", FALSE)>>)
}

Header == <<"Schema", "DEFINITIONS", "::=", "BEGIN">>
FullHeader == <<"Schema", "{", "number", "}", "DEFINITIONS", "AUTOMATIC", "TAGS",
                "EXTENSIBILITY", "IMPLIED", "::=", "BEGIN", "EXPORTS", "Z", ";",
                "IMPORTS", "X", ",", "W", "FROM", "Other", ";">>
After == <<"Z", "::=", "BOOLEAN">>
Brackets == <<"W", "::=", "INTEGER", "(", "MIN", "..", "number", ")",
              "V", "::=", "SEQUENCE", "{", "one", "INTEGER", "}",
              "U", "::=", "SET", "{", "one", "CHOICE", "{", "two", "INTEGER", "}", "}">>
End == Brackets \o <<"END", "eof">>

Schema(header, i) ==
  [tokens |-> header \o i.text \o After \o End,
   reads  |-> i.reads \o <<Read("Z", "type", "BOOLEAN", FALSE),
                           Read("W", "type", "INTEGER", TRUE),
                           Read("V", "type", "SEQUENCE", FALSE),
                           Read("U", "type", "SET", FALSE)>>]

Body == Simple \cup Constructed \cup Objects
NoItem == Item(<< >>, << >>)

MCWritten ==
  {Schema(Header, i) : i \in {j \in Body : j.reads # << >>}} \cup {Schema(FullHeader, NoItem)}

Wrong == {"}", "{", ";", "::=", "(", "number", "name", "SELECTED", "junk",
           "END", ","}

(* One token from position i on is missing, is another, or is put in; or   *)
(* the file ends there.                                                    *)
Damaged(tokens, first) ==
  LET places == first .. Len(tokens) - Len(End)
  IN  {tokens}
      \cup {RemoveAt(tokens, i) : i \in places}
      \cup {Append(SubSeq(tokens, 1, i), "eof") : i \in places}
      \cup {ReplaceAt(tokens, p[1], p[2]) : p \in places \X Wrong}
      \cup {InsertAt(tokens, p[1], p[2]) : p \in places \X Wrong}

Tokens(i) == Schema(Header, i).tokens

MCSources ==
  UNION {Damaged(Tokens(i), Len(Header) + 1) : i \in Body}
  \cup Damaged(Schema(FullHeader, NoItem).tokens, 1)

MCSessions ==
  LET schemas == {Tokens(Item(Y(t), << >>)) :
                  t \in {<<"BOOLEAN">>, <<"junk">>, <<"INTEGER", "(">>}}
               \cup {Tokens(CHOOSE i \in Objects : i.reads # << >>)}
  IN  schemas \X schemas
=============================================================================
