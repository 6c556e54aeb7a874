------------------------------ MODULE TextLink ------------------------------
(***************************************************************************)
(* An application that writes messages as JSON with one jer_encoder, as    *)
(* XML with the functions of xer_encoder, or as E-XER with exer_encoder,   *)
(* and readers that get a text whole or cut short, know the schema, and    *)
(* read it with jer_decoder or xer_decoder.                                *)
(*                                                                         *)
(* A message is a tree.  The application walks it: it opens a container,   *)
(* writes what is in it and closes it.  It can give a message up between   *)
(* two calls and begin another with the same encoder object, which has no  *)
(* operation to start over.                                                *)
(***************************************************************************)
EXTENDS TextCodec

J == INSTANCE Jer
X == INSTANCE Xer

CONSTANTS
  Scripts,     (* for each format the messages: sequences of calls *)
  Words,       (* the texts of ENUMERATED and OBJECT IDENTIFIER values *)
  MaxGivenUp   (* bound: messages given up before they are complete *)

Formats == {"jer", "xer", "exer"}
Objects == {"sequence", "choice"}
Containers == Objects \cup {"sequence_of"}
Leaves == {"integer", "boolean", "null", "octet_string", "bit_string", "enumerated", "oid"}

(* xer_encoder drops the number of unused bits, so a BIT STRING whose      *)
(* length is not known to the reader is written as JSON only.              *)
WellTyped(format, call) ==
  /\ call.op \in Containers \cup Leaves \cup {"close"}
  /\ call.op = "integer" => call.data[1] \in SWord
  /\ call.op = "boolean" => call.data[1] \in {0, 1}
  /\ call.op \in {"octet_string", "bit_string"} => call.data \in Seq(Octet)
  /\ call.op \in {"enumerated", "oid"} => call.data[1] \in DOMAIN Words
  /\ call.op = "bit_string" => format = "jer" /\ call.data # << >> /\ call.data[1] < 8
  /\ format = "exer" => call.op \in {"sequence", "integer", "close"}

ASSUME TextLinkAssumption ==
  /\ MaxGivenUp \in Nat
  /\ DOMAIN Scripts = Formats
  /\ \A format \in Formats : \A script \in Scripts[format] : \A i \in DOMAIN script :
       WellTyped(format, script[i])

VARIABLES
  format,            (* how this application writes *)
  encoder,           (* the text, and need_comma_stack_ of the jer_encoder *)
  todo,              (* calls of the message still to be made *)
  frames,            (* the containers that are open, with what is in them *)
  meant,             (* the tree of a complete message, in a sequence of 0 or 1 *)
  left,              (* containers that messages given up have left open *)
  given_up,          (* messages given up *)
  arrived,           (* characters of the message the reader has *)
  got,               (* the error and the tree of the last read *)
  current_sequence,  (* current_sequence_ of xer_decoder *)
  sessions           (* field names of each sequence that was opened *)

writer == <<encoder, todo, frames, meant, left, given_up>>
reader == <<arrived, got, current_sequence, sessions>>
vars == <<format, writer, reader>>

Node(call) == [op |-> call.op, name |-> call.name, data |-> call.data, items |-> << >>]
NoTree == [op |-> "none", name |-> "", data |-> << >>, items |-> << >>]
NotRead == [err |-> TRUE, tree |-> NoTree]

in_object == frames # << >> /\ Last(frames).op \in Objects
complete == meant # << >>
whole == complete /\ arrived = Len(encoder.out)

-----------------------------------------------------------------------------
(* The encoder of each format, given one call. *)

jer_value(enc, call) ==
  CASE call.op = "integer"      -> J!encode_integer(enc, call.data[1])
    [] call.op = "boolean"      -> J!encode_boolean(enc, call.data[1] = 1)
    [] call.op = "null"         -> J!encode_null(enc)
    [] call.op = "octet_string" -> J!encode_octet_string(enc, call.data)
    [] call.op = "bit_string"   -> J!encode_bit_string(enc, Tail(call.data), call.data[1])
    [] call.op \in {"enumerated", "oid"} -> J!encode_word(enc, Words[call.data[1]])
    [] call.op \in Objects      -> J!open_object(enc)
    [] call.op = "sequence_of"  -> J!open_array(enc)

jer_keyed(enc, call) ==
  jer_value(IF in_object THEN J!add_key(enc, call.name) ELSE enc, call)

jer_close(enc, container) ==
  IF container.op \in Objects THEN J!close_object(enc) ELSE J!close_array(enc)

xer_value(call) ==
  CASE call.op = "integer"      -> X!encode_integer(call.name, call.data[1])
    [] call.op = "boolean"      -> X!encode_boolean(call.name, call.data[1] = 1)
    [] call.op = "null"         -> X!encode_null(call.name)
    [] call.op = "octet_string" -> X!encode_octet_string(call.name, call.data)
    [] call.op = "enumerated"   -> X!encode_enumerated(call.name, Words[call.data[1]])
    [] call.op = "oid"          -> X!element_with_text(call.name, Words[call.data[1]])
    [] call.op \in Containers   -> X!open_container(call.name)

exer_value(call) ==
  IF call.op = "sequence" THEN X!encode_sequence_start(call.name)
  ELSE X!encode_element_with_type(call.name, "INTEGER", to_string(call.data[1]))

appended(text) == [encoder EXCEPT !.out = @ \o text]

written(call) ==
  CASE format = "jer"  -> jer_keyed(encoder, call)
    [] format = "xer"  -> appended(xer_value(call))
    [] format = "exer" -> appended(exer_value(call))

closed(container) ==
  CASE format = "jer"  -> jer_close(encoder, container)
    [] format = "xer"  -> appended(X!close_container(container.name))
    [] format = "exer" -> appended(X!close_element("Sequence"))

-----------------------------------------------------------------------------
(* The reader's side: the tree that a text stands for, read with the       *)
(* schema of shape.                                                        *)

leaf_or_none(result, shape) ==
  IF result.err THEN NoTree ELSE [shape EXCEPT !.data = result.data]

jer_bits(json) ==
  With(J!get_field(json, <<"value">>), LAMBDA value :
  With(J!get_field(json, <<"unused">>), LAMBDA unused :
    IF value.err \/ unused.err THEN Refused
    ELSE With(J!decode_octet_string(value.val), LAMBDA octets :
         IF octets.err THEN Refused ELSE Answer(<<unused.val.number_val>> \o octets.data))))

RECURSIVE jer_tree(_, _)
jer_tree(json, shape) ==
  CASE shape.op = "integer"      -> leaf_or_none(J!decode_integer(json), shape)
    [] shape.op = "boolean"      -> leaf_or_none(J!decode_boolean(json), shape)
    [] shape.op = "null"         -> leaf_or_none(J!decode_null(json), shape)
    [] shape.op = "octet_string" -> leaf_or_none(J!decode_octet_string(json), shape)
    [] shape.op = "bit_string"   -> leaf_or_none(jer_bits(json), shape)
    [] shape.op \in {"enumerated", "oid"} -> leaf_or_none(J!decode_word(json, Words), shape)
    [] shape.op \in Objects ->
         IF json.type # "object" \/ Cardinality(DOMAIN json.object_val) # Len(shape.items)
         THEN NoTree
         ELSE [shape EXCEPT !.items =
                [i \in DOMAIN @ |->
                   With(J!get_field(json, <<@[i].name>>), LAMBDA f :
                     IF f.err THEN NoTree ELSE jer_tree(f.val, @[i]))]]
    [] shape.op = "sequence_of" ->
         IF json.type # "array" \/ Len(json.array_val) # Len(shape.items) THEN NoTree
         ELSE [shape EXCEPT !.items = [i \in DOMAIN @ |-> jer_tree(json.array_val[i], @[i])]]

(* A field of a SEQUENCE and the alternative of a CHOICE come as a text,   *)
(* which the application reads by the type.                                *)
text_data(content, shape) ==
  CASE shape.op = "integer"      -> Answer(<<strtoll(content)>>)
    [] shape.op = "boolean"      -> IF content = X!empty_element("true") THEN Answer(<<1>>)
                                    ELSE IF content = X!empty_element("false") THEN Answer(<<0>>)
                                    ELSE Refused
    [] shape.op = "null"         -> IF content = << >> THEN Answer(<< >>) ELSE Refused
    [] shape.op = "octet_string" -> Answer(xer_base64_decode(content))
    [] shape.op \in {"enumerated", "oid"} ->
         IF content \in Range(Words) THEN Answer(<<SelectInSeq(Words, LAMBDA w : w = content)>>)
         ELSE Refused
    [] shape.op \in Containers   -> Refused

xer_part(result, shape) ==
  IF result.err THEN NoTree ELSE leaf_or_none(text_data(result.data, shape), shape)

(* xer_decoder has nothing for a NULL that is all of a message, and nothing *)
(* for the elements of a SEQUENCE OF.                                      *)
xer_tree(elem, shape) ==
  CASE shape.op = "integer"      -> leaf_or_none(X!decode_integer(elem), shape)
    [] shape.op = "boolean"      -> leaf_or_none(X!decode_boolean(elem), shape)
    [] shape.op = "octet_string" -> leaf_or_none(X!decode_octet_string(elem), shape)
    [] shape.op \in {"enumerated", "oid"} -> leaf_or_none(X!decode_enumerated(elem, Words), shape)
    [] shape.op = "sequence" ->
         [shape EXCEPT !.items =
           [i \in DOMAIN @ |->
              xer_part(X!decode_sequence_field_content(elem, @[i].name), @[i])]]
    [] shape.op = "choice" ->
         IF X!decode_choice_alternative(elem) # Answer(<<shape.items[1].name>>) THEN NoTree
         ELSE [shape EXCEPT !.items = <<xer_part(X!decode_choice_child_content(elem), @[1])>>]
    [] shape.op \in {"null", "sequence_of"} -> NoTree

parsed(text) == IF format = "jer" THEN J!parse_value(text, 1) ELSE X!parse(text)

read(text, shape) ==
  With(parsed(text), LAMBDA r :
    IF r.err THEN NotRead
    ELSE With(IF format = "jer" THEN jer_tree(r.val, shape) ELSE xer_tree(r.val, shape),
              LAMBDA tree : [err |-> tree = NoTree, tree |-> tree]))

-----------------------------------------------------------------------------
Start(script, stack) ==
  /\ encoder' = J!Encoder(stack)
  /\ todo' = script
  /\ frames' = << >> /\ meant' = << >>
  /\ left' = Len(stack)
  /\ arrived' = 0 /\ got' = NotRead

Init ==
  /\ format \in Formats
  /\ encoder = J!Encoder(<< >>)
  /\ todo \in Scripts[format]
  /\ frames = << >> /\ meant = << >>
  /\ left = 0 /\ given_up = 0
  /\ arrived = 0 /\ got = NotRead
  /\ current_sequence = << >> /\ sessions = {}

(* The text so far is dropped; the encoder object stays as it is. *)
Begin ==
  /\ \/ whole /\ UNCHANGED given_up
     \/ ~complete /\ given_up < MaxGivenUp /\ given_up' = given_up + 1
  /\ \E script \in Scripts[format] : Start(script, encoder.need_comma_stack)
  /\ UNCHANGED <<format, current_sequence, sessions>>

(* The next call is done, and node is what it has added to the message.    *)
Add(node, open) ==
  IF open = << >> THEN frames' = << >> /\ meant' = <<node>>
  ELSE /\ frames' = Append(Front(open), [Last(open) EXCEPT !.items = Append(@, node)])
       /\ UNCHANGED meant

Encode ==
  /\ todo # << >> /\ Head(todo).op \in Leaves
  /\ encoder' = written(Head(todo))
  /\ Add(Node(Head(todo)), frames)
  /\ todo' = Tail(todo)
  /\ UNCHANGED <<format, left, given_up, reader>>

Open ==
  /\ todo # << >> /\ Head(todo).op \in Containers
  /\ encoder' = written(Head(todo))
  /\ frames' = Append(frames, Node(Head(todo)))
  /\ todo' = Tail(todo)
  /\ UNCHANGED <<format, meant, left, given_up, reader>>

Close ==
  /\ todo # << >> /\ Head(todo).op = "close"
  /\ encoder' = closed(Last(frames))
  /\ Add(Last(frames), Front(frames))
  /\ todo' = Tail(todo)
  /\ UNCHANGED <<format, left, given_up, reader>>

(* One more character of the text reaches the reader, who tries to read it. *)
Read ==
  /\ complete /\ arrived < Len(encoder.out)
  /\ arrived' = arrived + 1
  /\ got' = read(SubSeq(encoder.out, 1, arrived'), meant[1])
  /\ UNCHANGED <<format, writer, current_sequence, sessions>>

(* A reader that wants to ask for the fields of a SEQUENCE one by one. *)
OpenSequence ==
  /\ complete /\ format = "xer" /\ meant[1].op = "sequence"
  /\ \E r \in {X!open_sequence(current_sequence, meant[1].name,
                               SubSeq(encoder.out, 1, arrived))} :
       /\ current_sequence' = r.current_sequence
       /\ sessions' = IF r.err THEN sessions
                      ELSE sessions \cup {{meant[1].items[i].name : i \in DOMAIN meant[1].items}}
  /\ UNCHANGED <<format, writer, arrived, got>>

Next == Begin \/ Encode \/ Open \/ Close \/ Read \/ OpenSequence

Spec == Init /\ [][Next]_vars

-----------------------------------------------------------------------------
(* jer_encoder's stack has one entry for each container that is open: those *)
(* of this message above those that messages given up have left.            *)
TypeOK ==
  /\ format \in Formats
  /\ encoder.need_comma_stack \in Seq(BOOLEAN)
  /\ format = "jer" => Len(encoder.need_comma_stack) = left + Len(frames)
  /\ complete => todo = << >> /\ frames = << >>
  /\ given_up \in 0 .. MaxGivenUp
  /\ arrived \in 0 .. Len(encoder.out)
  /\ Len(current_sequence) <= 1

(* open_object and open_array write no comma, so a container in an array   *)
(* needs to be the first of its elements.                                  *)
RECURSIVE commas_written(_)
commas_written(tree) ==
  \A i \in DOMAIN tree.items :
    /\ commas_written(tree.items[i])
    /\ tree.op = "sequence_of" /\ tree.items[i].op \in Containers => i = 1

(* What of a message xer_decoder can answer: a value that is not NULL, the *)
(* values that are fields of a SEQUENCE, also beside containers, and the   *)
(* alternative of a CHOICE, without its value if that is no text.          *)
answerable(tree) ==
  LET value_or_none(item, Silent) == IF item.op \in Silent THEN NoTree ELSE item
      items(Silent) == [i \in DOMAIN tree.items |-> value_or_none(tree.items[i], Silent)]
  IN  CASE tree.op = "sequence" -> [tree EXCEPT !.items = items(Containers)]
        [] tree.op = "choice"   -> [tree EXCEPT !.items = items(Containers \cup {"boolean"})]
        [] tree.op \in {"null", "sequence_of"} -> NoTree
        [] tree.op \in Leaves \ {"null"}       -> tree

Meant == IF format = "jer" THEN meant[1] ELSE answerable(meant[1])

(* A complete text is read as the message that was written: in XML as much *)
(* of it as xer_decoder can answer; in JSON all of it, if it comes from an *)
(* encoder that no message was given up on and has no container behind     *)
(* another element of an array.                                            *)
ReadBack ==
  /\ whole /\ format = "xer" /\ Meant # NoTree => got = [err |-> FALSE, tree |-> Meant]
  /\ whole /\ format = "jer" /\ left = 0 /\ commas_written(meant[1])
       => got = [err |-> FALSE, tree |-> Meant]

(* No text is read as another message, whatever was given up before it, if *)
(* commas are missing in it, or wherever it is cut: the decoders refuse    *)
(* it.  The exception is a JSON number that is all of a message: cut, it   *)
(* is a shorter number.  E-XER is never read: the parser has no attributes.*)
NeverAnother ==
  complete /\ ~(format = "jer" /\ meant[1].op = "integer" /\ ~whole) =>
    got.err \/ (format # "exer" /\ got.tree = Meant)

(* field_is_present answers every reader whose open_sequence succeeded     *)
(* about the SEQUENCE that reader has opened, although current_sequence_   *)
(* is one for all of them.                                                 *)
OwnSequence ==
  \A fields \in sessions : \A name \in {"a", "b", "c"} :
    X!field_is_present(current_sequence, name) = (name \in fields)

spaced(text, i) == SubSeq(text, 1, i) \o <<" ">> \o SubSeq(text, i + 1, Len(text))

(* The CXER validator accepts what xer_encoder writes, and nothing that    *)
(* has a space more next to a tag.                                         *)
CanonicalText ==
  complete /\ format = "xer" =>
    /\ X!has_no_extra_whitespace(encoder.out)
    /\ \A i \in DOMAIN encoder.out :
         encoder.out[i] = ">" \/ char_at(encoder.out, i + 1) = "<"
           => ~X!has_no_extra_whitespace(spaced(encoder.out, i))
=============================================================================
