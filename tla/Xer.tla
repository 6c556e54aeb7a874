-------------------------------- MODULE Xer --------------------------------
(***************************************************************************)
(* The XER codec: the functions of xer_encoder, which append an element    *)
(* to a text and keep nothing, xml_parser, the functions of xer_decoder,   *)
(* and the CXER validator.  exer_encoder adds attributes, which xml_parser *)
(* does not know.                                                          *)
(*                                                                         *)
(* xer_decoder keeps one thing between calls: current_sequence_, a static  *)
(* member that every decoder of the program shares.                        *)
(***************************************************************************)
EXTENDS TextCodec

open_element(name) == <<"<", name, ">">>
close_element(name) == <<"<", "/", name, ">">>
empty_element(name) == <<"<", name, "/", ">">>
element_with_text(name, text) == open_element(name) \o text \o close_element(name)

encode_integer(name, value) == element_with_text(name, to_string(value))
encode_boolean(name, value) ==
  element_with_text(name, empty_element(IF value THEN "true" ELSE "false"))
encode_null(name) == empty_element(name)
encode_octet_string(name, data) == element_with_text(name, base64_encode(data))
encode_enumerated(name, word) == element_with_text(name, word)

(* open_sequence, open_choice and open_sequence_of are the same function,  *)
(* and so are the three that close.                                        *)
open_container(name) == open_element(name)
close_container(name) == close_element(name)

(* E-XER: the type as an attribute. *)
attribute(name, value) == <<" ", name, "=", "\"", value, "\"">>
encode_sequence_start(type_name) ==
  <<"<", "Sequence">> \o attribute("xmlns:asn1", "urn:asn1pp:asn1")
                      \o attribute("asn1:type", type_name) \o <<">">>
encode_element_with_type(name, type_name, value) ==
  <<"<", name>> \o attribute("asn1:type", type_name) \o <<">">> \o value \o close_element(name)

-----------------------------------------------------------------------------
(***************************************************************************)
(* The parser.                                                             *)
(***************************************************************************)

Space == {" "}
NotInName == {"<", ">", "/", "=", "\"", "&", ";", "+", "end"} \cup Space

xml_element(name) == [name |-> name, content |-> << >>, is_empty |-> FALSE, children |-> << >>]

parse_error == [err |-> TRUE, val |-> xml_element(<< >>), pos |-> 0]
Parsed(val, pos) == [err |-> FALSE, val |-> val, pos |-> pos]
AndThen(result, F(_)) == With(result, LAMBDA r : IF r.err THEN parse_error ELSE F(r))

parse_name(text, pos) ==
  With(past(text, pos, Space), LAMBDA start :
  With(Min({q \in start .. Len(text) + 1 : char_at(text, q) \in NotInName}), LAMBDA end :
    IF end = start THEN parse_error
    ELSE Parsed(xml_element(SubSeq(text, start, end - 1)), end)))

Entity == [c \in {"lt", "gt", "amp", "quot", "apos"} |->
             CASE c = "lt" -> "<" [] c = "gt" -> ">" [] c = "amp" -> "&"
               [] c = "quot" -> "\"" [] c = "apos" -> "'"]

(* &name; where no semicolon comes the text ends with it. *)
parse_entity(text, pos) ==
  IF char_at(text, pos + 1) \in DOMAIN Entity /\ char_at(text, pos + 2) = ";"
  THEN Parsed(xml_element(<<Entity[text[pos + 1]]>>), pos + 3)
  ELSE parse_error

add_text(elem, text) == [elem EXCEPT !.content = @ \o text]
add_child(elem, child) == [elem EXCEPT !.children = Append(@, child)]

RECURSIVE parse_element(_, _), parse_content(_, _, _)

(* The inside of elem up to its closing tag, which must have its name. *)
parse_content(text, pos, elem) ==
  With(char_at(text, pos), LAMBDA c :
    CASE c = "end" -> parse_error
      [] c = "<" /\ char_at(text, pos + 1) = "/" ->
           AndThen(parse_name(text, pos + 2), LAMBDA close :
           With(past(text, close.pos, Space), LAMBDA end :
             IF close.val.name # elem.name \/ char_at(text, end) # ">" THEN parse_error
             ELSE Parsed(elem, end + 1)))
      [] c = "<" /\ char_at(text, pos + 1) # "/" ->
           AndThen(parse_element(text, pos), LAMBDA child :
             parse_content(text, child.pos, add_child(elem, child.val)))
      [] c = "&" ->
           AndThen(parse_entity(text, pos), LAMBDA entity :
             parse_content(text, entity.pos, add_text(elem, entity.val.name)))
      [] OTHER -> parse_content(text, pos + 1, add_text(elem, <<c>>)))

parse_element(text, pos) ==
  With(past(text, pos, Space), LAMBDA start :
    IF char_at(text, start) # "<" THEN parse_error
    ELSE AndThen(parse_name(text, start + 1), LAMBDA name :
         With(past(text, name.pos, Space), LAMBDA p :
           CASE char_at(text, p) = ">" -> parse_content(text, p + 1, name.val)
             [] char_at(text, p) = "/" /\ char_at(text, p + 1) = ">" ->
                  Parsed([name.val EXCEPT !.is_empty = TRUE], p + 2)
             [] OTHER -> parse_error)))

parse(text) == parse_element(text, 1)

-----------------------------------------------------------------------------
(***************************************************************************)
(* The decoder.                                                            *)
(***************************************************************************)

decode_integer(elem) ==
  IF elem.content = << >> THEN Refused ELSE Answer(<<strtoll(elem.content)>>)

decode_boolean(elem) ==
  CASE elem.children = << >>                -> Refused
    [] elem.children # << >> /\ elem.children[1].name = <<"true">>  -> Answer(<<1>>)
    [] elem.children # << >> /\ elem.children[1].name = <<"false">> -> Answer(<<0>>)
    [] OTHER                                -> Refused

decode_octet_string(elem) == Answer(xer_base64_decode(elem.content))

decode_enumerated(elem, words) ==
  LET found == {i \in DOMAIN words : words[i] = elem.content}
  IN  IF found = {} THEN Refused ELSE Answer(<<Min(found)>>)

(* Mutant: the text of the field, also where it is an empty element. *)
decode_sequence_field_text(elem, name) ==
  LET named == {i \in DOMAIN elem.children : elem.children[i].name = <<name>>}
  IN  IF named = {} THEN Refused ELSE Answer(elem.children[Min(named)].content)

(* The text of the field.  Of a container that is a field there is none,   *)
(* only an element that has nothing but an empty one in it answers that.   *)
decode_sequence_field_content(elem, name) ==
  LET named == {i \in DOMAIN elem.children : elem.children[i].name = <<name>>}
      content(child) ==
        IF Len(child.children) = 1 /\ child.children[1].is_empty
        THEN <<"<">> \o child.children[1].name \o <<"/", ">">>
        ELSE child.content
  IN  IF named = {} THEN Refused ELSE Answer(content(elem.children[Min(named)]))

decode_choice_alternative(elem) ==
  IF elem.children = << >> THEN Refused ELSE Answer(elem.children[1].name)

decode_choice_child_content(elem) ==
  IF elem.children = << >> THEN Refused ELSE Answer(elem.children[1].content)

(* Mutant: the sequence that is open is replaced. *)
reopen_sequence(current_sequence, name, text) ==
  With(parse(text), LAMBDA r :
    IF r.err \/ r.val.name # <<name>>
    THEN [err |-> TRUE, current_sequence |-> current_sequence]
    ELSE [err |-> FALSE, current_sequence |-> <<r.val.children>>])

(* current_sequence_ is a sequence of no or one list of elements. *)
open_sequence(current_sequence, name, text) ==
  With(parse(text), LAMBDA r :
    IF r.err \/ r.val.name # <<name>> \/ current_sequence # << >>
    THEN [err |-> TRUE, current_sequence |-> current_sequence]
    ELSE [err |-> FALSE, current_sequence |-> <<r.val.children>>])

field_is_present(current_sequence, field_name) ==
  /\ current_sequence # << >>
  /\ \E i \in DOMAIN current_sequence[1] : current_sequence[1][i].name = <<field_name>>

-----------------------------------------------------------------------------
(* Mutant: only the white space behind a tag counts. *)
no_space_behind_tag(xml) ==
  \A i \in DOMAIN xml : xml[i] \in Space => i = 1 \/ xml[i - 1] # ">"

(* cxer_validator::validate looks for white space next to a tag, or more   *)
(* than one of it; the order of elements and of attributes is not checked. *)
has_no_extra_whitespace(xml) ==
  \A i \in DOMAIN xml :
    xml[i] \in Space => /\ i = 1 \/ xml[i - 1] # ">"
                        /\ char_at(xml, i + 1) \notin Space \cup {"<"}
=============================================================================
