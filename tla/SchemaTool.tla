------------------------------ MODULE SchemaTool ------------------------------
(***************************************************************************)
(* The two programs round the parser: asn1pp-gen (main.cpp), which reads a *)
(* schema, parses it and writes a header, and schema_parser, the library   *)
(* front end, one instance of which parses several files one after the     *)
(* other with one diagnostic engine.                                       *)
(*                                                                         *)
(* A file may be missing and an output file may refuse to open; writing to *)
(* an open stream is taken to succeed, as the code does not look.          *)
(***************************************************************************)
EXTENDS SchemaParser

CONSTANTS
  Sources,   (* schemas given to asn1pp-gen, as tokens *)
  Sessions,  (* sequences of schemas given to one schema_parser *)
  Written    (* schemas as their author meant them: tokens, and what they say *)

(* The lexer ends every text with eof. *)
Text(tokens) ==
  /\ Len(tokens) \in Nat \ {0} /\ DOMAIN tokens = 1 .. Len(tokens)
  /\ tokens[Len(tokens)] = "eof"

ASSUME TextAssumption ==
  /\ \A tokens \in Sources : Text(tokens)
  /\ \A session \in Sessions :
       session \in Seq(Range(session)) /\ \A i \in DOMAIN session : Text(session[i])

VARIABLES
  front,    (* "main", "dry_run" or "schema_parser" *)
  files,    (* the schemas still to be parsed *)
  exit,     (* what the front end returns: "ok" (exit code 0), "err" (1) *)
  output,   (* the output file: "old" untouched, "empty" truncated, "code" *)
  emitted   (* the names of the types that have code in the output *)

toolVars == <<front, files, exit, output, emitted>>
vars == <<parserVars, toolVars>>

Init ==
  /\ \/ front = "main" /\ files \in {<<s>> : s \in Sources}
     \/ front = "dry_run" /\ files = << >>
     \/ front = "schema_parser" /\ files \in Sessions
  /\ source = <<"eof">> /\ at = 1
  /\ todo = << >> /\ failed = FALSE
  /\ shape = NoShape /\ reported = FALSE
  /\ classes = {} /\ assignments = << >>
  /\ result = "none"
  /\ exit = "none" /\ output = "old" /\ emitted = << >>

(* diag_.clear() and the constructor of a parser.  A mutant keeps the old  *)
(* diagnostics.                                                            *)
keep_diagnostics(scanned) == reported \/ scanned
clear_diagnostics(scanned) == scanned

Parse(tokens, scanned) ==
  /\ source' = tokens /\ at' = 1
  /\ todo' = Module /\ failed' = FALSE
  /\ shape' = NoShape /\ reported' = clear_diagnostics(scanned)
  /\ classes' = {} /\ assignments' = << >>
  /\ result' = "none" /\ exit' = "none"

-----------------------------------------------------------------------------
(* main. *)

(* A dry run parses the string it has not read. *)
read_file ==
  /\ front \in {"main", "dry_run"} /\ todo = << >> /\ result = "none" /\ exit = "none"
  /\ \/ front = "dry_run" /\ Parse(<<"eof">>, FALSE) /\ UNCHANGED files
     \/ front = "main" /\ Parse(Head(files), FALSE) /\ files' = Tail(files)
     \/ front = "main" /\ exit' = "err" /\ UNCHANGED <<parserVars, files>>
  /\ UNCHANGED <<front, output, emitted>>

(* A mutant looks at the result only. *)
parsed_somehow == result = "ok"
clean == ~ has_errors /\ result = "ok"

Parsed == front \in {"main", "dry_run"} /\ result # "none" /\ exit = "none"

Return(code) == exit' = code /\ UNCHANGED <<parserVars, front, files>>

report ==
  /\ Parsed /\ (~ clean \/ front = "dry_run")
  /\ Return(IF clean THEN "ok" ELSE "err")
  /\ UNCHANGED <<output, emitted>>

open_output ==
  /\ Parsed /\ clean /\ front = "main" /\ output = "old"
  /\ \/ output' = "empty" /\ UNCHANGED <<parserVars, front, files, exit, emitted>>
     \/ Return("err") /\ UNCHANGED <<output, emitted>>

(* The alternatives with an emitter; under a constraint, those that        *)
(* copy_supported_type_ref copies.                                         *)
dispatch(type) ==
  IF type.constrained
    THEN type.kind \in {"INTEGER", "BOOLEAN", "NULL", "REAL", "OCTET", "BIT", "ANY",
                        "OBJECT IDENTIFIER", "RELATIVE OID", "ENUMERATED"}
    ELSE type.kind \notin {"named", "instantiation"}

(* Values, classes, objects and object sets are passed over.  A mutant     *)
(* passes over the types without an emitter too.                           *)
supported_types ==
  SelectSeq(assignments, LAMBDA a : a.kind = "parameterized"
                                    \/ (a.kind = "type" /\ dispatch(a.shape)))
coded_types == SelectSeq(assignments, LAMBDA a : a.kind \in {"type", "parameterized"})

(* The header is written when every type has its code. *)
generate ==
  \E coded \in {coded_types} :
    LET done == /\ coded # << >>
                /\ \A i \in DOMAIN coded : coded[i].kind = "type" => dispatch(coded[i].shape)
    IN  /\ Parsed /\ clean /\ output = "empty"
        /\ Return(IF done THEN "ok" ELSE "err")
        /\ output' = IF done THEN "code" ELSE output
        /\ emitted' = IF done THEN [i \in DOMAIN coded |-> coded[i].name] ELSE emitted

-----------------------------------------------------------------------------
(* schema_parser. *)

(* source_has_imports reads the tokens up to the first IMPORTS or the      *)
(* first one that is wrong, and reports that one.                          *)
source_has_imports(tokens) ==
  \E i \in DOMAIN tokens : tokens[i] = "junk" /\ \A j \in 1 .. i : tokens[j] # "IMPORTS"

(* A file that does not open adds its error to the diagnostics of the file *)
(* before.                                                                 *)
parse_file ==
  /\ front = "schema_parser" /\ todo = << >> /\ files # << >>
  /\ exit = "none" => result = "none"
  /\ \/ Parse(Head(files), source_has_imports(Head(files)))
     \/ /\ source' = <<"eof">> /\ at' = 1
        /\ reported' = TRUE /\ result' = "err" /\ exit' = "err"
        /\ UNCHANGED <<todo, failed, shape, classes, assignments>>
  /\ files' = Tail(files)
  /\ UNCHANGED <<front, output, emitted>>

parse_string ==
  /\ front = "schema_parser" /\ result # "none" /\ exit = "none"
  /\ Return(IF clean THEN "ok" ELSE "err")
  /\ UNCHANGED <<output, emitted>>

parse_module == ParserNext /\ UNCHANGED toolVars

Next == read_file \/ report \/ open_output \/ generate \/ parse_file \/ parse_string
        \/ parse_module

(* One thread: it goes on while there is something left to do. *)
Spec == Init /\ [][Next]_vars /\ WF_vars(Next)

-----------------------------------------------------------------------------
Kinds == TypeKeyword \cup {"none", "OBJECT IDENTIFIER", "RELATIVE OID", "ANY", "LIST OF",
                           "tagged", "named", "instantiation"}
Shape == [kind : Kinds, constrained : BOOLEAN]

(* An error on its way up is about to be looked at, and a parser that      *)
(* returned has nothing left on its stack.                                 *)
TypeOK ==
  /\ at \in DOMAIN source /\ source[Len(source)] = "eof"
  /\ failed => Head(todo).do \in Handler
  /\ (result # "none" => todo = << >>) /\ (todo # << >> => exit = "none")
  /\ shape \in Shape /\ \A i \in DOMAIN assignments : assignments[i].shape \in Shape
  /\ result \in {"none", "ok", "err"} /\ exit \in {"none", "ok", "err"}
  /\ output \in {"old", "empty", "code"}

(* Whatever path an error took up the stack, a front end that fails on a   *)
(* schema has a diagnostic to show (integration_test.cpp:149).             *)
FailureIsReported == result = "err" \/ (front = "schema_parser" /\ exit = "err") => has_errors

(* "If the parser encounters syntax errors, no output file is produced and *)
(* the tool returns exit code 1" (code-generator.md:350): also those the   *)
(* parser recovers from, and those of the lexer.                           *)
OutputOnlyWhenClean == output # "old" \/ exit = "ok" => ~ has_errors

(* The places where an assignment of a built-in type starts, before the    *)
(* first END.  (NULL after ::= may be a value.)                            *)
TypeAssignment(i) ==
  /\ NameToken(source[i]) /\ source[i + 1] = "::="
  /\ source[i + 2] \in TypeKeyword \ {"NULL"}
  /\ \A j \in 1 .. i : source[j] # "END"

(* The parser does not look at what is between the braces of an INTEGER    *)
(* and those of a value, which it skips to the first closing brace,        *)
(* whatever that one closes.                                               *)
PassedOver(i) ==
  \E j \in 2 .. i :
    /\ source[j] = "{"
    /\ source[j - 1] \in {"INTEGER", "::="} \/ (j > 2 /\ source[j - 2] = "&")
    /\ \A k \in j .. i : source[k] # "}"

(* asn1pp-gen does not succeed and leave a type out: an assignment that    *)
(* error recovery passes over is reported, and one that comes behind a     *)
(* missing brace is reported or read.  There is one exception, the braces  *)
(* whose contents are not looked at (PassedOver): where their closing      *)
(* brace is missing the assignments up to the next one are silently lost   *)
(* (parser.cpp:618 and 1284).                                              *)
NothingLost ==
  front = "main" /\ exit = "ok" =>
    \A i \in 1 .. Len(source) - 2 :
      TypeAssignment(i) /\ ~ PassedOver(i) =>
        \E j \in DOMAIN emitted : emitted[j] = source[i]

(* A schema as its author wrote it is read without a diagnostic and to the *)
(* end, also by a schema_parser that has failed on the file before.        *)
WrittenIsRead ==
  \A w \in Written :
    source = w.tokens /\ result # "none" =>
      /\ result = "ok" /\ ~ has_errors /\ assignments = w.reads
      /\ front = "schema_parser" => exit # "err"

(* On any tokens the parser comes to an end: no loop of the error recovery *)
(* stays at the token it cannot use.                                       *)
Terminates == []<>(exit # "none")
=============================================================================
