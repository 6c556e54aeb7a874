-------------------------------- MODULE Jer --------------------------------
(***************************************************************************)
(* The JER codec: jer_encoder, whose calls append JSON to a std::string,   *)
(* the parser jer_json_parser, and jer_decoder, which asks the parser for  *)
(* a value and looks at its type.                                          *)
(*                                                                         *)
(* The encoder is told of objects, arrays, keys and values one by one, and *)
(* only need_comma_stack_ connects the calls: for each container that is   *)
(* open, whether the next key or value must be preceded by a comma.        *)
(* An encoder here is the record of that stack and of the text so far.     *)
(***************************************************************************)
EXTENDS TextCodec

Encoder(stack) == [out |-> << >>, need_comma_stack |-> stack]

write(encoder, text) == [encoder EXCEPT !.out = @ \o text]

set_comma(encoder, flag) ==
  IF encoder.need_comma_stack = << >> THEN encoder
  ELSE [encoder EXCEPT !.need_comma_stack = Append(Front(@), flag)]

comma_needed(encoder) ==
  encoder.need_comma_stack # << >> /\ Last(encoder.need_comma_stack)

(* Mutant: the comma is written, but the flag stays set. *)
pre_value_again(encoder) ==
  IF comma_needed(encoder) THEN write(encoder, <<",">>) ELSE encoder

pre_value(encoder) ==
  IF comma_needed(encoder) THEN set_comma(write(encoder, <<",">>), FALSE) ELSE encoder

post_value(encoder) == set_comma(encoder, TRUE)

open_container(encoder, bracket) ==
  [write(encoder, <<bracket>>) EXCEPT !.need_comma_stack = Append(@, FALSE)]

(* Mutant: the entry of the container stays on the stack. *)
close_without_pop(encoder, bracket) == set_comma(write(encoder, <<bracket>>), TRUE)

(* The assertion in the code: a container is open. *)
close_container(encoder, bracket) ==
  set_comma([write(encoder, <<bracket>>) EXCEPT !.need_comma_stack = Front(@)], TRUE)

open_object(encoder)  == open_container(encoder, "{")
close_object(encoder) == close_container(encoder, "}")
open_array(encoder)   == open_container(encoder, "[")
close_array(encoder)  == close_container(encoder, "]")

quoted(text) == <<"\"">> \o text \o <<"\"">>

add_key(encoder, key) == write(pre_value(encoder), quoted(<<key>>) \o <<":">>)

encode_value(encoder, text) == post_value(write(pre_value(encoder), text))

encode_integer(encoder, value) == encode_value(encoder, to_string(value))
encode_boolean(encoder, value) == encode_value(encoder, <<IF value THEN "true" ELSE "false">>)
encode_null(encoder) == encode_value(encoder, <<"null">>)
encode_octet_string(encoder, data) == encode_value(encoder, quoted(base64_encode(data)))
encode_word(encoder, word) == encode_value(encoder, quoted(word))

(* One value to the caller, an object with two fields to the text. *)
encode_bit_string(encoder, data, unused_bits) ==
  With(add_key(open_object(pre_value(encoder)), "value"), LAMBDA opened :
  With(post_value(write(opened, quoted(base64_encode(data)))), LAMBDA first :
  With(write(add_key(first, "unused"), to_string(unused_bits)), LAMBDA both :
    post_value(close_object(both)))))

-----------------------------------------------------------------------------
(***************************************************************************)
(* The parser.  A parse_ function is given the text and a position, and    *)
(* answers a json_value and the position behind it, or an error.           *)
(***************************************************************************)

Space == {" "}

json_value == [type |-> "nil", bool_val |-> FALSE, number_val |-> 0, string_val |-> << >>,
               object_val |-> << >>, array_val |-> << >>]

parse_error == [err |-> TRUE, val |-> json_value, pos |-> 0]
Parsed(val, pos) == [err |-> FALSE, val |-> val, pos |-> pos]

(* What follows a parse that answered; an error goes up as it is. *)
AndThen(result, F(_)) == With(result, LAMBDA r : IF r.err THEN parse_error ELSE F(r))

Escape == [c \in {"\"", "\\", "/", "n", "r", "t"} |->
             CASE c = "n" -> "newline" [] c = "r" -> "return" [] c = "t" -> "tab" [] OTHER -> c]

(* The characters up to the closing quote, added to the string out. *)
RECURSIVE parse_string_content(_, _, _)
parse_string_content(text, pos, out) ==
  With(char_at(text, pos), LAMBDA c :
    CASE c = "end"  -> parse_error
      [] c = "\""   -> Parsed([json_value EXCEPT !.type = "string_val", !.string_val = out], pos + 1)
      [] c = "\\"   -> IF char_at(text, pos + 1) \in DOMAIN Escape
                       THEN parse_string_content(text, pos + 2, Append(out, Escape[text[pos + 1]]))
                       ELSE parse_error
      [] OTHER      -> parse_string_content(text, pos + 1, Append(out, c)))

(* Mutant: the end of the text closes a string. *)
parse_unclosed_string(text, pos) ==
  With(parse_string_content(text, pos + 1, << >>), LAMBDA r :
    IF ~r.err THEN r
    ELSE Parsed([json_value EXCEPT !.type = "string_val",
                                   !.string_val = SubSeq(text, pos + 1, Len(text))], Len(text) + 1))

parse_string(text, pos) == parse_string_content(text, pos + 1, << >>)

parse_number(text, pos) ==
  With(IF text[pos] = "-" THEN pos + 1 ELSE pos, LAMBDA first :
  With(past(text, first, Digits), LAMBDA end :
  With(IF end = first THEN 0 ELSE signed_number(SubSeq(text, pos, end - 1), 1), LAMBDA value :
    IF end = first \/ value \notin SWord THEN parse_error
    ELSE Parsed([json_value EXCEPT !.type = "number", !.number_val = value], end))))

parse_bool_or_null(text, pos) ==
  CASE text[pos] \in {"true", "false"} ->
         Parsed([json_value EXCEPT !.type = "boolean", !.bool_val = (text[pos] = "true")], pos + 1)
    [] text[pos] = "null" -> Parsed(json_value, pos + 1)
    [] OTHER -> parse_error

(* A later field replaces an earlier one with the same key. *)
add_field(object, key, val) == [object EXCEPT !.object_val = (key :> val) @@ @]
add_element(array, val) == [array EXCEPT !.array_val = Append(@, val)]

(* Behind a field or an element: the end of the container, or the next.    *)
next_item(text, pos, close, container, More(_)) ==
  With(past(text, pos, Space), LAMBDA p :
    CASE char_at(text, p) = close -> Parsed(container, p + 1)
      [] char_at(text, p) = ","   -> More(p + 1)
      [] OTHER                    -> parse_error)

RECURSIVE parse_value(_, _), parse_fields(_, _, _), parse_elements(_, _, _)

parse_fields(text, pos, object) ==
  With(past(text, pos, Space), LAMBDA start :
    IF char_at(text, start) # "\"" THEN parse_error
    ELSE AndThen(parse_string(text, start), LAMBDA key :
         With(past(text, key.pos, Space), LAMBDA colon :
           IF char_at(text, colon) # ":" THEN parse_error
           ELSE AndThen(parse_value(text, colon + 1), LAMBDA field :
                With(add_field(object, key.val.string_val, field.val), LAMBDA longer :
                  next_item(text, field.pos, "}", longer,
                            LAMBDA p : parse_fields(text, p, longer)))))))

parse_elements(text, pos, array) ==
  AndThen(parse_value(text, pos), LAMBDA elem :
  With(add_element(array, elem.val), LAMBDA longer :
    next_item(text, elem.pos, "]", longer, LAMBDA p : parse_elements(text, p, longer))))

parse_object(text, pos) ==
  With(past(text, pos + 1, Space), LAMBDA p :
  With([json_value EXCEPT !.type = "object"], LAMBDA object :
    IF char_at(text, p) = "}" THEN Parsed(object, p + 1) ELSE parse_fields(text, p, object)))

parse_array(text, pos) ==
  With(past(text, pos + 1, Space), LAMBDA p :
  With([json_value EXCEPT !.type = "array"], LAMBDA array :
    IF char_at(text, p) = "]" THEN Parsed(array, p + 1) ELSE parse_elements(text, p, array)))

(* What is behind the value is not looked at. *)
parse_value(text, pos) ==
  With(past(text, pos, Space), LAMBDA p :
  With(char_at(text, p), LAMBDA c :
    CASE c = "{"                        -> parse_object(text, p)
      [] c = "["                        -> parse_array(text, p)
      [] c = "\""                       -> parse_string(text, p)
      [] c \in {"true", "false", "null"} -> parse_bool_or_null(text, p)
      [] c \in Digits \cup {"-"}        -> parse_number(text, p)
      [] OTHER                          -> parse_error))

-----------------------------------------------------------------------------
(***************************************************************************)
(* The decoder: a value of the type asked for, or an error.                *)
(***************************************************************************)

expect(json, type, F(_)) == IF json.type = type THEN F(json) ELSE Refused

decode_integer(json) == expect(json, "number", LAMBDA v : Answer(<<v.number_val>>))
decode_boolean(json) == expect(json, "boolean", LAMBDA v : Answer(<<IF v.bool_val THEN 1 ELSE 0>>))
decode_null(json) == expect(json, "nil", LAMBDA v : Answer(<< >>))
decode_octet_string(json) == expect(json, "string_val", LAMBDA v : jer_base64_decode(v.string_val))

(* decode_enumerated; the words of an OBJECT IDENTIFIER are compared by    *)
(* the application.                                                        *)
decode_word(json, words) ==
  expect(json, "string_val", LAMBDA v :
    LET found == {i \in DOMAIN words : words[i] = v.string_val}
    IN  IF found = {} THEN Refused ELSE Answer(<<Min(found)>>))

get_field(json, key) ==
  IF json.type = "object" /\ key \in DOMAIN json.object_val
  THEN Parsed(json.object_val[key], 0) ELSE parse_error
=============================================================================
