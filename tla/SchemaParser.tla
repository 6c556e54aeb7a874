---------------------------- MODULE SchemaParser ----------------------------
(***************************************************************************)
(* asn1pp::gen::parser: recursive descent over the tokens of an ASN.1      *)
(* module, with its error recovery.                                        *)
(*                                                                         *)
(* The call stack is kept in todo, the calls and consumes still to be made *)
(* with the next one first.  A function that returns an error sets failed  *)
(* and unwinds to the first caller that handles it.  Of the syntax tree    *)
(* there is what the generator dispatches on: the name and the kind of     *)
(* each assignment, and the alternative of type_ref::variant_type.         *)
(*                                                                         *)
(* A token is its text for keywords, punctuation and identifiers, its      *)
(* class for literals; "junk" is one the lexer reports and returns with    *)
(* token_type::error.                                                      *)
(***************************************************************************)
EXTENDS Integers, Sequences, FiniteSets, FiniteSetsExt

VARIABLES
  source,       (* the tokens of the module; the last one is eof *)
  at,           (* index of current_ *)
  todo,         (* what the functions on the call stack have still to do *)
  failed,       (* an error result is on its way up the stack *)
  shape,        (* the type_ref parsed last: its alternative, and whether *)
                (* a constrained_type is wrapped round it *)
  reported,     (* an error was added to the diagnostics *)
  classes,      (* known_classes_ *)
  assignments,  (* mod.assignments: name, kind and shape *)
  result        (* of parse_module, "none" while it runs *)

parserVars ==
  <<source, at, todo, failed, shape, reported, classes, assignments, result>>

-----------------------------------------------------------------------------
(* Tokens. *)

Punctuation == {"::=", "{", "}", "[", "]", "(", ")", ",", ";", ":", "|", "^", "&", "..", "..."}
Literal == {"number", "string", "bits"}
TypeKeyword == {"INTEGER", "BOOLEAN", "NULL", "REAL", "OCTET", "BIT", "SEQUENCE", "SET",
                "CHOICE", "ENUMERATED", "SELECTED"}
Keyword == TypeKeyword \cup
  {"OF", "OPTIONAL", "DEFAULT", "COMPONENTS", "IMPORTS", "EXPORTS", "FROM", "DEFINITIONS",
   "BEGIN", "END", "TAGGED", "IMPLICIT", "EXPLICIT", "AUTOMATIC", "APPLICATION", "UNIVERSAL",
   "PRIVATE", "MIN", "MAX", "SIZE", "CONSTRAINT", "WITH", "TRUE", "FALSE", "EXTENDABILITY",
   "PRESENT", "ABSENT", "ALL", "CLASS", "UNIQUE", "SYNTAX", "INSTANCE"}

Identifier(t) == t \notin Punctuation \cup Literal \cup Keyword \cup {"eof", "junk"}
NameToken(t) == Identifier(t) \/ t = "TAGGED"
TypeStart(t) == t \in TypeKeyword \cup {"["} \/ Identifier(t)

Following(i) == IF i < Len(source) THEN i + 1 ELSE i
current == source[at]
peeked == source[Following(at)]

(* The lexer reports a token the first time it is asked for it. *)
has_errors == reported \/ \E i \in 1 .. at : source[i] = "junk"

FirstOf(tokens, i) == Min({j \in i .. Len(source) : source[j] \in tokens \cup {"eof"}})
AfterNames(tokens, i) ==
  Min({j \in i .. Len(source) : ~ Identifier(source[j]) /\ source[j] \notin tokens})

(* A mutant: recovery stops at the token it looks for. *)
synchronize_before(i) == FirstOf({";", "}"}, i)

(* synchronize: past the next semicolon or closing brace. *)
synchronize(i) == Following(FirstOf({";", "}"}, i))

(* skip_balanced: past the token that closes the one at i. *)
skip_balanced(open, close, i) ==
  LET count(t, j) == Cardinality({k \in i .. j : source[k] = t})
      ends == {j \in i .. Len(source) : count(open, j) = count(close, j) \/ source[j] = "eof"}
  IN  Following(Min(ends))

-----------------------------------------------------------------------------
(* What is left to do: a function to call, or a token to consume.          *)

Do(function) == [do |-> function, of |-> ""]
With(function, name) == [do |-> function, of |-> name]
Consume(token) == [do |-> "consume", of |-> token]  (* an error if it is not there *)
Need(token) == [do |-> "need", of |-> token]        (* a failure if it is not there *)
Is(kind) == [do |-> "is", of |-> kind]              (* the type just parsed *)

Module == <<Do("module_name"), Do("module_oid"), Need("DEFINITIONS"), Do("tag_default"),
            Do("extensibility"), Need("::="), Do("begin"), Do("module_end")>>

(* Where an error result is looked at instead of returned. *)
Handler == {"module_body", "module_end", "SEQUENCE", "SET", "CHOICE", "type_name",
            "parameters", "ignore"}

NoShape == [kind |-> "none", constrained |-> FALSE]

Top(function) == todo # << >> /\ Head(todo).do = function
Called(function) == Top(function) /\ ~ failed

(* The function on top goes on at token p with the steps of what follows.  *)
Go(p, steps, error) ==
  /\ at' = p
  /\ todo' = steps \o Tail(todo)
  /\ reported' = (reported \/ error)
  /\ failed' = FALSE
  /\ UNCHANGED <<source, classes, assignments, result>>

Continue(p, steps) == Go(p, steps, FALSE) /\ UNCHANGED shape

(* The same, with an error reported on the way. *)
Complain(p, steps) == Go(p, steps, TRUE) /\ UNCHANGED shape

(* It returns an error result.  (A mutant unwinds one step only.) *)
unwind_one == Tail(todo)
unwind == SubSeq(todo, Min({i \in 2 .. Len(todo) : todo[i].do \in Handler}), Len(todo))

Fail(p, error) ==
  /\ at' = p
  /\ todo' = unwind
  /\ reported' = (reported \/ error)
  /\ failed' = TRUE
  /\ UNCHANGED <<source, shape, classes, assignments, result>>

consume ==
  /\ Called("consume")
  /\ IF current = Head(todo).of THEN Continue(Following(at), << >>) ELSE Complain(at, << >>)

(* A mutant returns the error without reporting it. *)
need_silently ==
  /\ Called("need")
  /\ IF current = Head(todo).of THEN Continue(Following(at), << >>) ELSE Fail(at, FALSE)

need ==
  /\ Called("need")
  /\ IF current = Head(todo).of THEN Continue(Following(at), << >>) ELSE Fail(at, TRUE)

(* "constrained" wraps the type, anything else replaces it. *)
is ==
  /\ Called("is")
  /\ Go(at, << >>, FALSE)
  /\ shape' = IF Head(todo).of = "constrained"
                THEN [shape EXCEPT !.constrained = TRUE]
                ELSE [kind |-> Head(todo).of, constrained |-> FALSE]

(* A caller that goes on as if the call had succeeded. *)
ignore == Top("ignore") /\ Continue(at, << >>)

-----------------------------------------------------------------------------
(* The module and its body. *)

Again == <<Head(todo)>>
after == Following(Following(at))   (* past current_ and the next token *)

module_name ==
  /\ Called("module_name")
  /\ IF Identifier(current) THEN Continue(Following(at), << >>) ELSE Fail(at, TRUE)

(* The token after the brace is taken for part of the OID, whatever it is. *)
module_oid ==
  /\ Called("module_oid")
  /\ Continue(IF current = "{" THEN Following(FirstOf({"}"}, after)) ELSE at, << >>)

parse_tag_default ==
  /\ Called("tag_default")
  /\ IF current \in {"EXPLICIT", "IMPLICIT", "AUTOMATIC"}
       THEN Continue(Following(at), <<Consume("TAGS")>>)
       ELSE Continue(at, << >>)

extensibility ==
  /\ Called("extensibility")
  /\ IF current \in {"EXTENSIBILITY", "EXTENDABILITY"}
       THEN Continue(Following(at), <<Consume("IMPLIED")>>)
       ELSE Continue(at, << >>)

begin ==
  /\ Called("begin")
  /\ IF current = "BEGIN" THEN Continue(Following(at), <<Do("module_body")>>)
                          ELSE Fail(at, TRUE)

(* An error in the list of symbols ends the whole module. *)
parse_imports ==
  LET first == Following(at)
      end   == AfterNames({"IMPORTS", ","}, first)
      from  == Following(end)
      close == <<With("recover", ";")>> \o Again
  IN  CASE source[end] = "FROM" /\ Identifier(source[from]) -> Continue(Following(from), close)
        [] source[end] = "FROM" /\ ~ Identifier(source[from]) -> Complain(from, close)
        [] source[end] \in {";", "eof"} -> Continue(end, close)
        [] source[end] \notin {"FROM", ";", "eof"} -> Fail(synchronize(end), TRUE)

parse_exports ==
  LET first == Following(at)
      end   == AfterNames({","}, first)
      close == <<With("recover", ";")>> \o Again
  IN  CASE source[first] = "ALL" -> Continue(Following(first), close)
        [] source[first] # "ALL" /\ source[end] \in {";", "eof"} -> Continue(end, close)
        [] source[first] # "ALL" /\ source[end] \notin {";", "eof"} -> Complain(end, close)

(* consume_or_recover, where the answer is not looked at. *)
recover ==
  /\ Called("recover")
  /\ IF current = Head(todo).of THEN Continue(Following(at), << >>)
                               ELSE Complain(synchronize(at), << >>)

parse_module_body ==
  /\ Top("module_body")
  /\ \/ failed /\ Continue(synchronize(at), Again)
     \/ ~ failed /\ current \in {"END", "eof"} /\ Continue(at, << >>)
     \/ ~ failed /\ current = "IMPORTS" /\ parse_imports
     \/ ~ failed /\ current = "EXPORTS" /\ parse_exports
     \/ /\ ~ failed /\ NameToken(current)
        /\ Continue(Following(at), <<With("assignment", current)>> \o Again)
     \/ /\ ~ failed /\ current \notin {"END", "eof", "IMPORTS", "EXPORTS"}
        /\ ~ NameToken(current)
        /\ Complain(synchronize(at), Again)

module_end ==
  /\ Top("module_end")
  /\ at' = IF ~ failed /\ current = "END" THEN Following(at) ELSE at
  /\ reported' = (reported \/ (~ failed /\ current # "END"))
  /\ result' = IF failed THEN "err" ELSE "ok"
  /\ todo' = << >> /\ failed' = FALSE
  /\ UNCHANGED <<source, shape, classes, assignments>>

-----------------------------------------------------------------------------
(* Assignments: parse_assignment and the functions it calls. *)

Assigned(name, kind) == [do |-> "assigned", of |-> [name |-> name, kind |-> kind]]

assigned ==
  /\ Called("assigned")
  /\ assignments' = Append(assignments,
       [name |-> Head(todo).of.name, kind |-> Head(todo).of.kind, shape |-> shape])
  /\ todo' = Tail(todo)
  /\ UNCHANGED <<source, at, failed, shape, reported, classes, result>>

(* After a name that no class follows. *)
plain_assignment(name) ==
  CASE current = "{" ->
         Continue(Following(at), <<Do("parameters"), Need("::="), Do("type"),
                                   Assigned(name, "parameterized")>>)
    [] current = "::=" -> Continue(Following(at), <<With("definition", name)>>)
    [] TypeStart(current) ->
         Continue(at, <<Do("type"), Need("::="), Do("value"), Assigned(name, "value")>>)
    [] current \notin {"{", "::="} /\ ~ TypeStart(current) -> Fail(at, TRUE)

parse_assignment ==
  /\ Called("assignment")
  /\ IF Identifier(current) /\ current \in classes
       THEN Continue(Following(at), <<Need("::="), With("object", Head(todo).of)>>)
       ELSE plain_assignment(Head(todo).of)

(* A name of a known class and ::= were read. *)
object ==
  LET name == Head(todo).of
  IN  /\ Called("object")
      /\ CASE current = "{" /\ peeked = "&" ->
                 Continue(Following(at), <<Do("object_fields"), Consume("}"),
                                           Assigned(name, "object")>>)
           [] current = "{" /\ peeked # "&" ->
                 Continue(Following(at), <<Do("object_set"), Consume("}"),
                                           Assigned(name, "object_set")>>)
           [] current # "{" -> plain_assignment(name)

definition ==
  LET name == Head(todo).of
  IN  /\ Called("definition")
      /\ CASE current = "CLASS" ->
                 Continue(Following(at), <<Need("{"), With("class_fields", name),
                                           Do("with_syntax"), Assigned(name, "class")>>)
           [] TypeStart(current) -> Continue(at, <<Do("type"), Assigned(name, "type")>>)
           [] current # "CLASS" /\ ~ TypeStart(current) -> Fail(at, TRUE)

-----------------------------------------------------------------------------
(* Types. *)

(* A type of two words. *)
two_words(second, kind) ==
  IF peeked = second THEN Continue(after, <<Is(kind), Do("constraints")>>)
                     ELSE Fail(Following(at), TRUE)

(* An error in the constraint of a named type is dropped. *)
named_type ==
  CASE current = "OBJECT" -> two_words("IDENTIFIER", "OBJECT IDENTIFIER")
    [] current = "RELATIVE" -> two_words("OID", "RELATIVE OID")
    [] current = "ANY" -> Continue(Following(at), <<Is("ANY"), Do("constraints")>>)
    [] current \notin {"OBJECT", "RELATIVE", "ANY"} ->
         CASE peeked = "{" ->
                Continue(after, <<Do("arguments"), Is("instantiation"), Do("constraints")>>)
           [] peeked = "(" ->
                Continue(after, <<Do("constraint"), Do("ignore"), Is("named"),
                                  Is("constrained")>>)
           [] peeked \notin {"{", "("} -> Continue(Following(at), <<Is("named")>>)

(* A constructed type whose braces are missing is taken for an empty one. *)
braced_type(list) ==
  IF peeked = "{" THEN Continue(after, <<Do(list), Is(list), Do("constraints")>>)
                  ELSE Continue(Following(at), <<Is(list), Do("constraints")>>)

list_of_type == Continue(after, <<Do("type"), Is("LIST OF")>>)

parse_builtin_type ==
  CASE current \in {"BOOLEAN", "NULL", "REAL"} ->
         Continue(Following(at), <<Is(current), Do("constraints")>>)
    [] current = "INTEGER" ->
         Continue(IF peeked = "{" THEN Following(FirstOf({"}"}, after)) ELSE Following(at),
                  <<Is("INTEGER"), Do("constraints")>>)
    [] current = "OCTET" ->
         Continue(Following(at), <<Consume("STRING"), Is("OCTET"), Do("constraints")>>)
    [] current = "BIT" ->
         Continue(Following(at), <<Consume("STRING"), Do("named_bits"), Is("BIT"),
                                   Do("constraints")>>)
    [] current = "SEQUENCE" ->
         (CASE peeked = "OF" -> list_of_type
            [] peeked = "SIZE" ->
                 Continue(after, <<Do("size"), Consume("OF"), Do("type"), Is("LIST OF"),
                                   Is("constrained")>>)
            [] peeked \notin {"OF", "SIZE"} -> braced_type("SEQUENCE"))
    [] current = "SET" -> IF peeked = "OF" THEN list_of_type ELSE braced_type("SET")
    [] current \in {"CHOICE", "ENUMERATED"} -> braced_type(current)
    [] current = "SELECTED" -> Fail(Following(at), TRUE)
    [] current \notin TypeKeyword -> Fail(at, TRUE)

parse_type ==
  /\ Called("type")
  /\ CASE current = "[" -> Continue(Following(at), <<Do("tagged"), Do("type"), Is("tagged")>>)
       [] Identifier(current) -> named_type
       [] current # "[" /\ ~ Identifier(current) -> parse_builtin_type

named_bits ==
  /\ Called("named_bits")
  /\ IF current = "{" THEN Continue(Following(at), <<Do("BIT")>>) ELSE Continue(at, << >>)

(* The list of a constructed type.  An element that fails is dropped and   *)
(* the next one looked for past the next brace or semicolon; in a SEQUENCE *)
(* only, a missing brace is found at the assignment that follows.          *)
Element(list) ==
  CASE list = "CHOICE" -> Do("alternative")
    [] list \in {"SEQUENCE", "SET"} -> Do("component")
    [] list \in {"ENUMERATED", "BIT"} -> Do("item")

is_assignment_boundary == NameToken(current) /\ peeked = "::="

parse_list ==
  \E list \in {"SEQUENCE", "SET", "CHOICE", "ENUMERATED", "BIT"} :
    /\ Top(list)
    /\ \/ failed /\ Continue(synchronize(at), Again)
       \/ ~ failed /\ current = "}" /\ Continue(Following(at), << >>)
       \/ ~ failed /\ current = "eof" /\ list = "SEQUENCE" /\ Continue(at, << >>)
       \/ ~ failed /\ current = "eof" /\ list # "SEQUENCE" /\ Complain(at, << >>)
       \/ /\ ~ failed /\ current = "..."
          /\ Continue(IF peeked = "," THEN after ELSE Following(at), Again)
       \/ ~ failed /\ current = "," /\ Continue(Following(at), Again)
       \/ /\ ~ failed /\ current \notin {"}", "eof", "...", ","}
          /\ IF list = "SEQUENCE" /\ is_assignment_boundary
               THEN Continue(at, << >>)
               ELSE Continue(at, <<Element(list)>> \o Again)

(* parse_component_type, and parse_choice_alternative without the qualifier. *)
component ==
  \E element \in {"component", "alternative"} :
    /\ Called(element)
    /\ IF Identifier(current)
         THEN Continue(Following(at), <<Do("type"), Do("type_name")>> \o
                (IF element = "component" THEN <<Do("qualifier")>> ELSE << >>))
         ELSE Fail(at, TRUE)

(* After a type that failed a name is taken for the type. *)
type_name ==
  /\ Top("type_name")
  /\ IF failed /\ ~ Identifier(current)
       THEN Fail(at, FALSE)
       ELSE Continue(IF failed THEN Following(at) ELSE at, << >>)

qualifier ==
  LET value == Following(at)
  IN  /\ Called("qualifier")
      /\ CASE current = "OPTIONAL" -> Continue(value, << >>)
           [] current = "DEFAULT" ->
                IF \/ source[value] \in Literal \cup {"TRUE", "FALSE", "NULL"}
                   \/ Identifier(source[value])
                  THEN Continue(Following(value), << >>)
                  ELSE IF source[value] = "{"
                         THEN Continue(skip_balanced("{", "}", value), << >>)
                         ELSE Complain(value, << >>)
           [] current \notin {"OPTIONAL", "DEFAULT"} -> Continue(at, << >>)

(* A mutant says nothing of what is not an item. *)
item_quietly ==
  /\ Called("item")
  /\ CASE ~ Identifier(current) -> Continue(synchronize(at), << >>)
       [] Identifier(current) /\ peeked = "(" ->
            Continue(IF source[after] = "number" THEN Following(after) ELSE after,
                     <<Consume(")")>>)
       [] Identifier(current) /\ peeked # "(" -> Continue(Following(at), << >>)

(* A name and its number, in ENUMERATED and in BIT STRING. *)
item ==
  /\ Called("item")
  /\ CASE ~ Identifier(current) -> Complain(synchronize(at), << >>)
       [] Identifier(current) /\ peeked = "(" ->
            Continue(IF source[after] = "number" THEN Following(after) ELSE after,
                     <<Consume(")")>>)
       [] Identifier(current) /\ peeked # "(" -> Continue(Following(at), << >>)

parse_tagged_type ==
  LET number == IF current \in {"UNIVERSAL", "APPLICATION", "PRIVATE"}
                  THEN Following(at) ELSE at
  IN  /\ Called("tagged")
      /\ IF source[number] = "number"
           THEN Continue(Following(number), <<Consume("]"), Do("tagging")>>)
           ELSE Complain(number, <<Consume("]"), Do("tagging")>>)

tagging ==
  /\ Called("tagging")
  /\ Continue(IF current \in {"IMPLICIT", "EXPLICIT"} THEN Following(at) ELSE at, << >>)

-----------------------------------------------------------------------------
(* Constraints.  The functions begin past the parenthesis. *)

finish_type_with_constraints ==
  /\ Called("constraints")
  /\ IF current = "("
       THEN Continue(Following(at), <<Do("constraint"), Is("constrained")>> \o Again)
       ELSE Continue(at, << >>)

parse_constraint ==
  /\ Called("constraint")
  /\ CASE current = "SIZE" -> Continue(Following(at), <<Do("size"), Consume(")")>>)
       [] current = "ALL" ->
            IF peeked = "EXCEPT" THEN Continue(after, <<Do("except"), Consume(")")>>)
                                 ELSE Fail(Following(at), TRUE)
       [] current = "..." -> Continue(Following(at), <<Consume(")")>>)
       [] current = "FROM" ->
            Continue(Following(at), <<Consume("("), Do("range"), Consume(")"), Consume(")")>>)
       [] current \notin {"SIZE", "ALL", "...", "FROM"} ->
            Continue(at, <<Do("range"), Consume(")")>>)

except ==
  /\ Called("except")
  /\ CASE current \in {")", "eof"} -> Continue(at, << >>)
       [] current = "(" -> Continue(skip_balanced("(", ")", at), Again)
       [] current = "{" -> Continue(skip_balanced("{", "}", at), Again)
       [] current \notin {")", "eof", "(", "{"} -> Continue(Following(at), Again)

(* A bound, and after .. the other one. *)
Bounds(lower, upper) ==
  CASE current \notin lower -> Fail(at, TRUE)
    [] current \in lower /\ peeked # ".." -> Continue(Following(at), << >>)
    [] current \in lower /\ peeked = ".." ->
         IF source[after] \in upper THEN Continue(Following(after), << >>) ELSE Fail(after, TRUE)

parse_value_range ==
  Called("range") /\ Bounds({"MIN", "number", "string"}, {"MAX", "number", "string"})

parse_size_constraint ==
  \/ Called("size") /\ Continue(at, <<Consume("("), Do("size_bounds"), Consume(")")>>)
  \/ Called("size_bounds") /\ Bounds({"number"}, {"number"})

parse_value ==
  /\ Called("value")
  /\ CASE current \in Literal \cup {"TRUE", "FALSE", "NULL"} \/ Identifier(current) ->
            Continue(Following(at), << >>)
       [] current = "{" -> Continue(FirstOf({"}"}, Following(at)), <<Consume("}")>>)
       [] current \notin Literal \cup {"TRUE", "FALSE", "NULL", "{"} /\ ~ Identifier(current) ->
            Fail(at, TRUE)

-----------------------------------------------------------------------------
(* Parameterized types: the formal parameters and the actual ones. *)

parameters ==
  /\ Top("parameters")
  /\ \/ failed /\ Fail(synchronize(at), FALSE)
     \/ ~ failed /\ current = "}" /\ Continue(Following(at), << >>)
     \/ ~ failed /\ current = "eof" /\ Fail(at, TRUE)
     \/ ~ failed /\ current = "," /\ Continue(Following(at), Again)
     \/ /\ ~ failed /\ current \notin {"}", "eof", ","}
        /\ Continue(at, <<Do("formal_parameter")>> \o Again)

formal_parameter ==
  /\ Called("formal_parameter")
  /\ CASE Identifier(current) /\ peeked # ":" -> Continue(Following(at), << >>)
       [] Identifier(current) /\ peeked = ":" ->
            IF TypeStart(source[after]) THEN Continue(Following(after), << >>)
                                        ELSE Fail(after, TRUE)
       [] TypeStart(current) /\ ~ Identifier(current) ->
            IF peeked = ":" /\ Identifier(source[after])
              THEN Continue(Following(after), << >>)
              ELSE Fail(IF peeked = ":" THEN after ELSE synchronize(Following(at)), TRUE)
       [] ~ TypeStart(current) -> Fail(at, TRUE)

parse_type_instantiation ==
  /\ Called("arguments")
  /\ CASE current = "}" -> Continue(Following(at), << >>)
       [] current \in {",", "number"} -> Continue(Following(at), Again)
       [] TypeStart(current) -> Continue(at, <<Do("type")>> \o Again)
       [] current \notin {"}", ",", "number"} /\ ~ TypeStart(current) -> Fail(at, TRUE)

-----------------------------------------------------------------------------
(* Information object classes, objects and object sets. *)

(* Past the field name: its type, of one word or two, and its flags. *)
field_end(name) ==
  LET words == {<<"OCTET", "STRING">>, <<"BIT", "STRING">>, <<"OBJECT", "IDENTIFIER">>}
      type  == Following(name)
      past_type == CASE ~ TypeStart(source[type]) -> type
                     [] <<source[type], source[Following(type)]>> \in words ->
                          Following(Following(type))
                     [] TypeStart(source[type])
                        /\ <<source[type], source[Following(type)]>> \notin words ->
                          Following(type)
      past_unique == IF source[past_type] = "UNIQUE" THEN Following(past_type) ELSE past_type
  IN  IF source[past_unique] = "OPTIONAL" THEN Following(past_unique) ELSE past_unique

(* The class is known from its closing brace on. *)
class_fields ==
  /\ Called("class_fields")
  /\ CASE current \in {"}", "eof"} ->
            /\ classes' = classes \cup {Head(todo).of}
            /\ at' = Following(at) /\ todo' = Tail(todo)
            /\ reported' = (reported \/ current = "eof")
            /\ UNCHANGED <<source, failed, shape, assignments, result>>
       [] current = "," -> Continue(Following(at), Again)
       [] current = "&" -> IF Identifier(peeked) THEN Continue(field_end(Following(at)), Again)
                                                 ELSE Fail(Following(at), TRUE)
       [] current \notin {"}", "eof", ",", "&"} -> Fail(synchronize(at), TRUE)

with_syntax ==
  /\ Called("with_syntax")
  /\ IF current = "WITH"
       THEN Continue(Following(at), <<Need("SYNTAX"), Need("{"), Do("syntax_items"),
                                      Consume("}")>>)
       ELSE Continue(at, << >>)

(* A word, a reference to a field, or both; anything else ends the list. *)
syntax_items ==
  LET word(t) == t \in {"string", "CLASS", "WITH", "SYNTAX", "INTEGER", "BOOLEAN", "OCTET",
                        "SIZE", "CONSTRAINT"} \/ Identifier(t)
      sign == IF word(current) THEN Following(at) ELSE at
      name == IF source[sign] = "&" THEN Following(sign) ELSE sign
      end  == IF name > sign /\ Identifier(source[name]) THEN Following(name) ELSE name
  IN  /\ Called("syntax_items")
      /\ IF word(current) \/ end > name
           THEN Continue(end, Again)
           ELSE Continue(name, << >>)

(* A value that cannot be read is left out, the next token taken for a field. *)
object_fields ==
  /\ Called("object_fields")
  /\ CASE current \in {"}", "eof"} -> Continue(at, << >>)
       [] current = "," -> Continue(Following(at), Again)
       [] current = "&" ->
            IF Identifier(peeked) THEN Continue(after, <<Do("value"), Do("ignore")>> \o Again)
                                  ELSE Complain(Following(at), << >>)
       [] current \notin {"}", "eof", ",", "&"} -> Complain(at, << >>)

object_set ==
  /\ Called("object_set")
  /\ CASE current \in {"}", "eof"} -> Continue(at, << >>)
       [] current \in {",", "..."} \/ Identifier(current) -> Continue(Following(at), Again)
       [] current \notin {"}", "eof", ",", "..."} /\ ~ Identifier(current) ->
            Complain(at, << >>)

-----------------------------------------------------------------------------
ParserInit(tokens) ==
  /\ source = tokens /\ at = 1
  /\ todo = Module /\ failed = FALSE
  /\ shape = NoShape /\ reported = FALSE
  /\ classes = {} /\ assignments = << >>
  /\ result = "none"

ModuleStep == \/ module_name \/ module_oid \/ parse_tag_default \/ extensibility \/ begin
              \/ parse_module_body \/ recover \/ module_end
AssignmentStep == parse_assignment \/ object \/ definition \/ assigned
TypeStep == \/ parse_type \/ named_bits \/ parse_list \/ component \/ type_name \/ qualifier
            \/ item \/ parse_tagged_type \/ tagging
ConstraintStep == \/ finish_type_with_constraints \/ parse_constraint \/ except
                  \/ parse_value_range \/ parse_size_constraint \/ parse_value
ParameterStep == parameters \/ formal_parameter \/ parse_type_instantiation
ObjectStep == class_fields \/ with_syntax \/ syntax_items \/ object_fields \/ object_set

ParserNext == \/ consume \/ need \/ is \/ ignore
              \/ ModuleStep \/ AssignmentStep \/ TypeStep \/ ConstraintStep
              \/ ParameterStep \/ ObjectStep

=============================================================================
