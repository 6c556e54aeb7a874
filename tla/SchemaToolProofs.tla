-------------------------- MODULE SchemaToolProofs --------------------------
(***************************************************************************)
(* The schema parser and the two programs round it, for every schema: the  *)
(* parser stays within its tokens, an error keeps its diagnostic on every  *)
(* path up the stack, and no error reaches an output file.                 *)
(*                                                                         *)
(* ParserOK is about the parser alone.  Of its stack it says that the last *)
(* call is module_end, which looks at errors, so that an error has always  *)
(* somewhere to go; of an error on its way up, that it was reported.  Each *)
(* production then only has to name a place in the source to go on at.     *)
(***************************************************************************)
EXTENDS SchemaTool, TLAPS, WellFoundedInduction, SequenceTheorems

(* What is on the stack: a type comes with the alternative it is.          *)
FrameOK(f) == f.do = "is" => f.of \in Kinds \cup {"constrained"}

Steps(s) == s \in Seq(Range(s)) /\ \A i \in DOMAIN s : FrameOK(s[i])

Entries(s) == s \in Seq(Range(s)) /\ \A i \in DOMAIN s : s[i].shape \in Shape

Files(s) == s \in Seq(Range(s)) /\ \A i \in DOMAIN s : Text(s[i])

ParserOK ==
  /\ Text(source) /\ at \in DOMAIN source
  /\ Steps(todo) /\ (todo # << >> => todo[Len(todo)].do = "module_end")
  /\ failed \in BOOLEAN /\ (failed => todo # << >> /\ Head(todo).do \in Handler /\ reported)
  /\ reported \in BOOLEAN /\ shape \in Shape /\ Entries(assignments)
  /\ result \in {"none", "ok", "err"} /\ (result # "none" => todo = << >>)
  /\ result = "err" => reported

ToolOK ==
  /\ front \in {"main", "dry_run", "schema_parser"}
  /\ exit \in {"none", "ok", "err"} /\ output \in {"old", "empty", "code"}
  /\ Files(files)
  /\ front = "main" /\ todo = << >> /\ result = "none" /\ exit = "none" => files # << >>
  /\ todo # << >> => exit = "none"
  /\ output # "old" => front = "main" /\ result # "none" /\ ~ has_errors
  /\ exit = "ok" => ~ has_errors
  /\ front = "schema_parser" /\ exit = "err" => has_errors

IInv == ParserOK /\ ToolOK

-----------------------------------------------------------------------------
(* Places in the source.                                                   *)

(* Min finds the least element of any set of naturals that has one at all. *)
LEMMA MinIsLeast ==
  ASSUME NEW S \in SUBSET Nat, S # {}
  PROVE  Min(S) \in S /\ \A y \in S : Min(S) <= y
<1>1. PICK m \in S : \A y \in S : ~ (<<y, m>> \in OpToRel(<, Nat))
  BY NatLessThanWellFounded, WFMin
<1>2. \A y \in S : m <= y
  <2>. SUFFICES ASSUME NEW y \in S, y < m PROVE FALSE
    OBVIOUS
  <2>1. <<y, m>> \in OpToRel(<, Nat)
    BY DEF OpToRel
  <2>. QED
    BY <1>1, <2>1
<1>. QED
  BY <1>2 DEF Min

(* A text has a first and a last place.                                    *)
LEMMA TextPlaces ==
  ASSUME NEW s, Text(s)
  PROVE  Len(s) \in Nat /\ Len(s) >= 1 /\ DOMAIN s = 1 .. Len(s) /\ s[Len(s)] = "eof"
BY DEF Text

(* The lexer stays at eof.                                                 *)
LEMMA FollowingStays ==
  ASSUME Text(source), NEW i \in DOMAIN source
  PROVE  Following(i) \in DOMAIN source
<1>. DEFINE n == Len(source)
<1>1. n \in Nat /\ DOMAIN source = 1 .. n
  BY TextPlaces
<1>2. Following(i) = IF i < n THEN i + 1 ELSE i
  BY DEF Following
<1>. HIDE DEF n
<1>. QED
  BY <1>1, <1>2

(* A search that cannot miss eof ends within the source.                   *)
LEMMA SearchStays ==
  ASSUME Text(source), NEW i \in DOMAIN source,
         NEW S \in SUBSET (i .. Len(source)), Len(source) \in S
  PROVE  Min(S) \in DOMAIN source
<1>. DEFINE n == Len(source)
<1>1. n \in Nat /\ DOMAIN source = 1 .. n
  BY TextPlaces
<1>2. S \in SUBSET (i .. n) /\ n \in S
  OBVIOUS
<1>. HIDE DEF n
<1>3. S \in SUBSET Nat /\ S # {}
  BY <1>1, <1>2
<1>4. Min(S) \in S
  BY <1>3, MinIsLeast
<1>5. Min(S) \in i .. n /\ i \in 1 .. n
  BY <1>1, <1>2, <1>4
<1>6. Min(S) \in 1 .. n
  <2>. DEFINE m == Min(S)
  <2>. HIDE DEF m
  <2>. QED
    BY <1>1, <1>5 DEF m
<1>. QED
  BY <1>1, <1>6

(* The next of some tokens, or eof.                                        *)
LEMMA FirstOfStays ==
  ASSUME Text(source), NEW i \in DOMAIN source, NEW tokens
  PROVE  FirstOf(tokens, i) \in DOMAIN source
<1>. DEFINE S == {j \in i .. Len(source) : source[j] \in tokens \cup {"eof"}}
<1>1. Len(source) \in i .. Len(source) /\ source[Len(source)] = "eof"
  BY TextPlaces
<1>2. S \in SUBSET (i .. Len(source)) /\ Len(source) \in S
  BY <1>1
<1>3. Min(S) \in DOMAIN source
  <2>. HIDE DEF S
  <2>. QED
    BY <1>2, SearchStays
<1>. QED
  BY <1>3 DEF FirstOf

(* Past a list of names: eof is not one of them.                           *)
LEMMA AfterNamesStays ==
  ASSUME Text(source), NEW i \in DOMAIN source, NEW tokens, "eof" \notin tokens
  PROVE  AfterNames(tokens, i) \in DOMAIN source
<1>. DEFINE S == {j \in i .. Len(source) : ~ Identifier(source[j]) /\ source[j] \notin tokens}
<1>1. Len(source) \in i .. Len(source) /\ source[Len(source)] = "eof"
  BY TextPlaces
<1>2. ~ Identifier("eof")
  BY DEF Identifier
<1>3. S \in SUBSET (i .. Len(source)) /\ Len(source) \in S
  BY <1>1, <1>2
<1>4. Min(S) \in DOMAIN source
  <2>. HIDE DEF S
  <2>. QED
    BY <1>3, SearchStays
<1>. QED
  BY <1>4 DEF AfterNames

(* Recovery does not leave the source.                                     *)
LEMMA SynchronizeStays ==
  ASSUME Text(source), NEW i \in DOMAIN source
  PROVE  synchronize(i) \in DOMAIN source
BY FirstOfStays, FollowingStays DEF synchronize

(* Past a closing bracket, or at eof when it is not there.                 *)
LEMMA SkipStays ==
  ASSUME Text(source), NEW i \in DOMAIN source, NEW open, NEW close
  PROVE  skip_balanced(open, close, i) \in DOMAIN source
<1>. DEFINE count(t, j) == Cardinality({k \in i .. j : source[k] = t})
            S == {j \in i .. Len(source) :
                    count(open, j) = count(close, j) \/ source[j] = "eof"}
<1>1. Len(source) \in i .. Len(source) /\ source[Len(source)] = "eof"
  BY TextPlaces
<1>2. S \in SUBSET (i .. Len(source)) /\ Len(source) \in S
  BY <1>1
<1>3. Min(S) \in DOMAIN source
  <2>. HIDE DEF S
  <2>. QED
    BY <1>2, SearchStays
<1>. QED
  BY <1>3, FollowingStays DEF skip_balanced

(* A field of a class is as many as four tokens long.                      *)
LEMMA FieldStays ==
  ASSUME Text(source), NEW i \in DOMAIN source
  PROVE  field_end(i) \in DOMAIN source
<1>1. \A j \in DOMAIN source : Following(j) \in DOMAIN source
  BY FollowingStays
<1>. DEFINE words == {<<"OCTET", "STRING">>, <<"BIT", "STRING">>, <<"OBJECT", "IDENTIFIER">>}
            type  == Following(i)
            past_type ==
              CASE ~ TypeStart(source[type]) -> type
                [] <<source[type], source[Following(type)]>> \in words ->
                     Following(Following(type))
                [] TypeStart(source[type])
                   /\ <<source[type], source[Following(type)]>> \notin words ->
                     Following(type)
            past_unique == IF source[past_type] = "UNIQUE" THEN Following(past_type)
                                                           ELSE past_type
<1>2. type \in DOMAIN source
  BY <1>1
<1>3. Following(type) \in DOMAIN source /\ Following(Following(type)) \in DOMAIN source
  BY <1>1, <1>2
<1>4. past_type \in {type, Following(type), Following(Following(type))}
  <2>. DEFINE start == TypeStart(source[type])
              two   == <<source[type], source[Following(type)]>> \in words
  <2>1. past_type = CASE ~ start -> type
                      [] two -> Following(Following(type))
                      [] start /\ ~ two -> Following(type)
    OBVIOUS
  <2>. HIDE DEF start, two, type, past_type
  <2>. QED
    BY <2>1, SMT
<1>5. past_type \in DOMAIN source
  BY <1>2, <1>3, <1>4
<1>6. past_unique \in DOMAIN source
  <2>. HIDE DEF past_type
  <2>. QED
    BY <1>1, <1>5
<1>7. field_end(i) = IF source[past_unique] = "OPTIONAL" THEN Following(past_unique)
                                                        ELSE past_unique
  BY DEF field_end
<1>. HIDE DEF past_unique
<1>. QED
  BY <1>1, <1>6, <1>7

(* The places every production starts from.                                *)
LEMMA Places ==
  ASSUME ParserOK
  PROVE  /\ at \in DOMAIN source /\ Following(at) \in DOMAIN source /\ after \in DOMAIN source
         /\ \A i \in DOMAIN source :
              Following(i) \in DOMAIN source /\ synchronize(i) \in DOMAIN source
BY FollowingStays, SynchronizeStays, TextPlaces DEF ParserOK, after

-----------------------------------------------------------------------------
(* What a production does to the stack.                                    *)

(* A sequence is a sequence of what is in it.                              *)
LEMMA OwnRange ==
  ASSUME NEW S, NEW s \in Seq(S)
  PROVE  s \in Seq(Range(s)) /\ \A i \in 1 .. Len(s) : s[i] \in Range(s)
<1>. DEFINE n == Len(s)
            R == Range(s)
<1>1. n \in Nat /\ DOMAIN s = 1 .. n /\ s = [i \in 1 .. n |-> s[i]]
  OBVIOUS
<1>2. \A i \in 1 .. n : s[i] \in R
  BY <1>1 DEF Range
<1>. HIDE DEF n, R
<1>3. s \in [1 .. n -> R]
  BY <1>1, <1>2
<1>4. s \in Seq(R)
  BY <1>1, <1>3, SeqDef
<1>. QED
  BY <1>2, <1>4 DEF n, R

(* A sequence of calls that are in order, whatever set they are taken from. *)
LEMMA StepsFrom ==
  ASSUME NEW S, NEW s \in Seq(S), \A i \in 1 .. Len(s) : FrameOK(s[i])
  PROVE  Steps(s)
BY OwnRange DEF Steps

(* Lists of calls that are in order, out of what is put into them.         *)
LEMMA StepLists ==
  /\ Steps(<< >>)
  /\ \A a : FrameOK(a) => Steps(<<a>>)
  /\ \A a, b : FrameOK(a) /\ FrameOK(b) => Steps(<<a, b>>)
  /\ \A a, b, c : FrameOK(a) /\ FrameOK(b) /\ FrameOK(c) => Steps(<<a, b, c>>)
  /\ \A a, b, c, d : FrameOK(a) /\ FrameOK(b) /\ FrameOK(c) /\ FrameOK(d) =>
       Steps(<<a, b, c, d>>)
  /\ \A a, b, c, d, e :
       FrameOK(a) /\ FrameOK(b) /\ FrameOK(c) /\ FrameOK(d) /\ FrameOK(e) =>
         Steps(<<a, b, c, d, e>>)
<1>1. Steps(<< >>)
  <2>1. << >> \in Seq({}) /\ \A i \in 1 .. Len(<< >>) : FALSE
    OBVIOUS
  <2>. QED
    BY <2>1, StepsFrom
<1>2. ASSUME NEW a, FrameOK(a) PROVE Steps(<<a>>)
  <2>1. <<a>> \in Seq({a}) /\ \A i \in 1 .. Len(<<a>>) : <<a>>[i] = a
    OBVIOUS
  <2>. QED
    BY <1>2, <2>1, StepsFrom
<1>3. ASSUME NEW a, NEW b, FrameOK(a), FrameOK(b) PROVE Steps(<<a, b>>)
  <2>1. /\ <<a, b>> \in Seq({a, b})
        /\ \A i \in 1 .. Len(<<a, b>>) : <<a, b>>[i] \in {a, b}
    OBVIOUS
  <2>. QED
    BY <1>3, <2>1, StepsFrom
<1>4. ASSUME NEW a, NEW b, NEW c, FrameOK(a), FrameOK(b), FrameOK(c)
      PROVE  Steps(<<a, b, c>>)
  <2>1. /\ <<a, b, c>> \in Seq({a, b, c})
        /\ \A i \in 1 .. Len(<<a, b, c>>) : <<a, b, c>>[i] \in {a, b, c}
    OBVIOUS
  <2>. QED
    BY <1>4, <2>1, StepsFrom
<1>5. ASSUME NEW a, NEW b, NEW c, NEW d, FrameOK(a), FrameOK(b), FrameOK(c), FrameOK(d)
      PROVE  Steps(<<a, b, c, d>>)
  <2>1. /\ <<a, b, c, d>> \in Seq({a, b, c, d})
        /\ \A i \in 1 .. Len(<<a, b, c, d>>) : <<a, b, c, d>>[i] \in {a, b, c, d}
    OBVIOUS
  <2>. QED
    BY <1>5, <2>1, StepsFrom
<1>6. ASSUME NEW a, NEW b, NEW c, NEW d, NEW e,
             FrameOK(a), FrameOK(b), FrameOK(c), FrameOK(d), FrameOK(e)
      PROVE  Steps(<<a, b, c, d, e>>)
  <2>1. /\ <<a, b, c, d, e>> \in Seq({a, b, c, d, e})
        /\ \A i \in 1 .. Len(<<a, b, c, d, e>>) : <<a, b, c, d, e>>[i] \in {a, b, c, d, e}
    OBVIOUS
  <2>. QED
    BY <1>6, <2>1, StepsFrom
<1>. QED
  BY <1>1, <1>2, <1>3, <1>4, <1>5, <1>6

(* Calls put before others; the last of them stays the last.               *)
LEMMA StepsConcat ==
  ASSUME NEW s, NEW u, Steps(s), Steps(u)
  PROVE  /\ Steps(s \o u) /\ Len(u) \in Nat
         /\ u # << >> => s \o u # << >> /\ (s \o u)[Len(s \o u)] = u[Len(u)]
<1>. DEFINE m == Len(s)
            n == Len(u)
            S == Range(s) \cup Range(u)
            w == s \o u
<1>1. /\ s \in Seq(S) /\ u \in Seq(S)
      /\ \A i \in 1 .. m : FrameOK(s[i])
      /\ \A i \in 1 .. n : FrameOK(u[i])
  <2>1. s \in Seq(Range(s)) /\ u \in Seq(Range(u))
    BY DEF Steps
  <2>2. Seq(Range(s)) \subseteq Seq(S) /\ Seq(Range(u)) \subseteq Seq(S)
    <3>. DEFINE A == Range(s)
                B == Range(u)
    <3>. HIDE DEF A, B
    <3>1. Seq(A) \subseteq Seq(A \cup B) /\ Seq(B) \subseteq Seq(A \cup B)
      OBVIOUS
    <3>. QED
      BY <3>1 DEF A, B
  <2>3. DOMAIN s = 1 .. m /\ DOMAIN u = 1 .. n
    BY <2>1
  <2>. QED
    BY <2>1, <2>2, <2>3 DEF Steps
<1>. HIDE DEF S
<1>2. /\ w \in Seq(S) /\ Len(w) = m + n /\ m \in Nat /\ n \in Nat
      /\ \A i \in 1 .. m + n : w[i] = IF i <= m THEN s[i] ELSE u[i - m]
  BY <1>1
<1>3. \A i \in 1 .. Len(w) : FrameOK(w[i])
  <2>. SUFFICES ASSUME NEW i \in 1 .. m + n PROVE FrameOK(w[i])
    BY <1>2
  <2>. HIDE DEF m, n, w
  <2>1. CASE i <= m
    BY <1>1, <1>2, <2>1
  <2>2. CASE ~ i <= m
    <3>1. i - m \in 1 .. n
      BY <1>2, <2>2
    <3>. QED
      BY <1>1, <1>2, <2>2, <3>1
  <2>. QED
    BY <2>1, <2>2
<1>4. Steps(w)
  BY <1>2, <1>3, StepsFrom
<1>5. u # << >> => w # << >> /\ w[Len(w)] = u[n]
  <2>. SUFFICES ASSUME u # << >> PROVE w # << >> /\ w[Len(w)] = u[n]
    OBVIOUS
  <2>1. n # 0
    BY <1>1, EmptySeq
  <2>2. Len(w) = m + n /\ m + n # 0
    <3>. HIDE DEF m, n
    <3>. QED
      BY <1>2, <2>1
  <2>3. w # << >>
    BY <1>2, <2>2, EmptySeq
  <2>4. m + n \in 1 .. m + n /\ ~ (m + n <= m) /\ (m + n) - m = n
    <3>. HIDE DEF m, n
    <3>. QED
      BY <1>2, <2>1
  <2>. QED
    BY <1>2, <2>2, <2>3, <2>4
<1>. QED
  BY <1>2, <1>4, <1>5

(* A call that is not the last one on the stack.                           *)
LEMMA Inner ==
  ASSUME ParserOK, todo # << >>, Head(todo).do # "module_end"
  PROVE  /\ FrameOK(Head(todo)) /\ Steps(Tail(todo)) /\ Tail(todo) # << >>
         /\ Len(todo) \in Nat /\ Len(todo) >= 2
         /\ Tail(todo)[Len(Tail(todo))].do = "module_end"
         /\ result = "none"
<1>. DEFINE n == Len(todo)
            R == Range(todo)
<1>1. todo \in Seq(R) /\ todo[n].do = "module_end" /\ result = "none"
  BY DEF ParserOK, Steps
<1>. HIDE DEF R
<1>2. n \in Nat /\ n >= 1 /\ Head(todo) = todo[1] /\ 1 \in DOMAIN todo /\ DOMAIN todo = 1 .. n
  BY <1>1, EmptySeq
<1>3. n # 1
  BY <1>1, <1>2
<1>4. /\ Tail(todo) \in Seq(R) /\ Len(Tail(todo)) = n - 1
      /\ \A i \in 1 .. n - 1 : Tail(todo)[i] = todo[i + 1]
  BY <1>1
<1>5. \A i \in 1 .. n : FrameOK(todo[i])
  BY <1>2 DEF ParserOK, Steps
<1>. HIDE DEF n
<1>6. n >= 2 /\ n - 1 \in 1 .. n - 1 /\ (n - 1) + 1 = n
  BY <1>2, <1>3
<1>7. Tail(todo) # << >>
  BY <1>4, <1>6
<1>8. \A i \in 1 .. Len(Tail(todo)) : FrameOK(Tail(todo)[i])
  <2>1. \A i \in 1 .. n - 1 : i + 1 \in 1 .. n
    BY <1>2
  <2>. QED
    BY <1>4, <1>5, <2>1
<1>9. Steps(Tail(todo))
  BY <1>4, <1>8, StepsFrom
<1>. QED
  BY <1>1, <1>2, <1>4, <1>5, <1>6, <1>7, <1>9 DEF n

(* What a step of the parser keeps; and it returns when its stack is empty. *)
Kept == ParserOK' /\ (todo' = << >> => result' # "none")

(* A production that goes on keeps the parser in order.                    *)
LEMMA GoOn ==
  ASSUME ParserOK, todo # << >>, Head(todo).do # "module_end",
         NEW p \in DOMAIN source, NEW steps, Steps(steps), NEW error \in BOOLEAN,
         Go(p, steps, error), shape' \in Shape
  PROVE  Kept
<1>1. Steps(Tail(todo)) /\ Tail(todo) # << >> /\ result = "none"
      /\ Tail(todo)[Len(Tail(todo))].do = "module_end"
  BY Inner
<1>2. /\ Steps(steps \o Tail(todo))
      /\ (steps \o Tail(todo))[Len(steps \o Tail(todo))] = Tail(todo)[Len(Tail(todo))]
  BY <1>1, StepsConcat
<1>3. /\ source' = source /\ at' = p /\ todo' = steps \o Tail(todo) /\ failed' = FALSE
      /\ reported' = (reported \/ error) /\ assignments' = assignments /\ result' = result
  BY DEF Go
<1>4. Steps(todo)' /\ todo'[Len(todo')].do = "module_end"
  BY <1>1, <1>2, <1>3 DEF Steps
<1>5. Text(source)' /\ at' \in DOMAIN source' /\ Entries(assignments)'
  BY <1>3 DEF ParserOK, Text, Entries
<1>. QED
  BY <1>1, <1>2, <1>3, <1>4, <1>5, StepsConcat DEF ParserOK, Kept

(* An error finds a call that looks at it.                                 *)
LEMMA Unwound ==
  ASSUME ParserOK, todo # << >>, Head(todo).do # "module_end"
  PROVE  /\ Steps(unwind) /\ unwind # << >>
         /\ Head(unwind).do \in Handler
         /\ unwind[Len(unwind)].do = "module_end"
<1>. DEFINE n == Len(todo)
            S == {i \in 2 .. n : todo[i].do \in Handler}
            m == Min(S)
            R == Range(todo)
<1>1. /\ todo \in Seq(R) /\ n \in Nat /\ n >= 2 /\ todo[n].do = "module_end"
      /\ \A i \in 1 .. n : FrameOK(todo[i])
  <2>1. todo \in Seq(R) /\ \A i \in DOMAIN todo : FrameOK(todo[i])
    BY DEF ParserOK, Steps
  <2>2. DOMAIN todo = 1 .. n
    BY <2>1
  <2>. QED
    BY <2>1, <2>2, Inner DEF ParserOK
<1>2. n \in S
  BY <1>1 DEF Handler
<1>3. S \in SUBSET Nat /\ S # {} /\ S \in SUBSET (2 .. n)
  BY <1>1, <1>2
<1>4. m \in S
  <2>. HIDE DEF S
  <2>. QED
    BY <1>3, MinIsLeast
<1>5. m \in 2 .. n /\ todo[m].do \in Handler
  BY <1>4
<1>6. unwind = SubSeq(todo, m, n)
  BY DEF unwind
<1>. HIDE DEF m, n, S, R
<1>7. m \in 1 .. n + 1 /\ n \in m - 1 .. n /\ n \in Nat /\ m \in Nat /\ m <= n
  BY <1>1, <1>5
<1>8. /\ SubSeq(todo, m, n) \in Seq(R) /\ Len(SubSeq(todo, m, n)) = n - m + 1
      /\ \A i \in 1 .. n - m + 1 : SubSeq(todo, m, n)[i] = todo[m + i - 1]
  BY <1>1, <1>7 DEF n
<1>9. n - m + 1 >= 1 /\ m + 1 - 1 = m /\ m + (n - m + 1) - 1 = n /\ n - m + 1 \in Nat
  BY <1>1, <1>5
<1>10. /\ unwind \in Seq(R) /\ Len(unwind) = n - m + 1
       /\ unwind[1] = todo[m] /\ unwind[n - m + 1] = todo[n]
  BY <1>6, <1>8, <1>9
<1>11. unwind # << >> /\ Head(unwind) = unwind[1]
  BY <1>9, <1>10
<1>12. Steps(unwind)
  <2>1. \A i \in 1 .. n - m + 1 : m + i - 1 \in 1 .. n
    BY <1>5, <1>7
  <2>2. \A i \in 1 .. Len(unwind) : FrameOK(unwind[i])
    BY <1>1, <1>6, <1>8, <1>10, <2>1
  <2>. QED
    BY <1>10, <2>2, StepsFrom
<1>. QED
  BY <1>1, <1>5, <1>10, <1>11, <1>12

(* A production that fails keeps the parser in order, when the error is    *)
(* reported or was before.                                                 *)
LEMMA GiveUp ==
  ASSUME ParserOK, todo # << >>, Head(todo).do # "module_end",
         NEW p \in DOMAIN source, NEW error \in BOOLEAN, error \/ failed, Fail(p, error)
  PROVE  Kept
<1>1. /\ Steps(unwind) /\ unwind # << >> /\ Head(unwind).do \in Handler
      /\ unwind[Len(unwind)].do = "module_end"
  BY Unwound
<1>2. /\ source' = source /\ at' = p /\ todo' = unwind /\ failed' = TRUE
      /\ reported' = (reported \/ error) /\ shape' = shape
      /\ assignments' = assignments /\ result' = result
  BY DEF Fail
<1>3. reported' = TRUE /\ result = "none"
  <2>1. reported \/ error
    BY DEF ParserOK
  <2>. QED
    BY <1>2, <2>1 DEF ParserOK
<1>4. /\ Text(source)' /\ at' \in DOMAIN source' /\ Entries(assignments)'
      /\ Steps(todo)' /\ shape' \in Shape
  BY <1>1, <1>2 DEF ParserOK, Text, Entries, Steps
<1>. QED
  BY <1>1, <1>2, <1>3, <1>4 DEF ParserOK, Kept

(* The three ways a production ends.                                       *)
LEMMA Ends ==
  ASSUME ParserOK, todo # << >>, Head(todo).do # "module_end"
  PROVE  \A p \in DOMAIN source :
           /\ Fail(p, TRUE) => Kept
           /\ \A steps : Steps(steps) /\ (Continue(p, steps) \/ Complain(p, steps)) =>
                           Kept
<1>. SUFFICES ASSUME NEW p \in DOMAIN source
              PROVE  /\ Fail(p, TRUE) => Kept
                     /\ \A steps :
                          Steps(steps) /\ (Continue(p, steps) \/ Complain(p, steps)) =>
                            Kept
  OBVIOUS
<1>1. ASSUME Fail(p, TRUE) PROVE Kept
  BY <1>1, GiveUp
<1>2. ASSUME NEW steps, Steps(steps), Continue(p, steps) \/ Complain(p, steps)
      PROVE  Kept
  <2>1. shape' \in Shape
    BY <1>2 DEF Continue, Complain, ParserOK
  <2>2. PICK error \in BOOLEAN : Go(p, steps, error)
    BY <1>2 DEF Continue, Complain
  <2>. QED
    BY <1>2, <2>1, <2>2, GoOn
<1>. QED
  BY <1>1, <1>2

-----------------------------------------------------------------------------
(* What is put on the stack.                                               *)

(* A call is in order, and so is a type of an alternative of type_ref.     *)
LEMMA Frames ==
  /\ \A f : f # "is" => FrameOK(Do(f)) /\ \A name : FrameOK(With(f, name))
  /\ \A token : FrameOK(Consume(token)) /\ FrameOK(Need(token))
  /\ \A kind \in Kinds \cup {"constrained"} : FrameOK(Is(kind))
  /\ \A name, kind : FrameOK(Assigned(name, kind))
BY DEF FrameOK, Do, With, Consume, Need, Is, Assigned

(* What a production may do again is what it is.                           *)
LEMMA AgainIsSteps ==
  ASSUME ParserOK, todo # << >>
  PROVE  Steps(Again) /\ FrameOK(Head(todo))
<1>1. todo \in Seq(Range(todo)) /\ \A i \in DOMAIN todo : FrameOK(todo[i])
  BY DEF ParserOK, Steps
<1>2. 1 \in DOMAIN todo /\ Head(todo) = todo[1]
  BY <1>1, EmptySeq
<1>. QED
  BY <1>1, <1>2, StepLists DEF Again

(* A token read, needed, or an answer that is not looked at.               *)
LEMMA ConsumeStep ==
  ASSUME ParserOK, consume \/ need \/ ignore
  PROVE  Kept
<1>1. CASE consume
  BY <1>1, Places, Ends, StepLists DEF consume, Called, Top
<1>2. CASE need
  BY <1>2, Places, Ends, StepLists DEF need, Called, Top
<1>3. CASE ignore
  BY <1>3, Places, Ends, StepLists DEF ignore, Top
<1>. QED
  BY <1>1, <1>2, <1>3

(* The type just parsed is one of the alternatives of type_ref.            *)
LEMMA IsStep ==
  ASSUME ParserOK, is
  PROVE  Kept
<1>1. FALSE \in BOOLEAN /\ Steps(<< >>)
  BY StepLists
<1>2. todo # << >> /\ Head(todo).do = "is" /\ at \in DOMAIN source
  BY DEF is, Called, Top, ParserOK
<1>3. Head(todo).of \in Kinds \cup {"constrained"}
  BY <1>2, AgainIsSteps DEF FrameOK
<1>4. shape' \in Shape
  <2>1. shape \in Shape
    BY DEF ParserOK
  <2>2. CASE Head(todo).of = "constrained"
    BY <2>1, <2>2 DEF is, Shape
  <2>3. CASE Head(todo).of # "constrained"
    BY <1>3, <2>3 DEF is, Shape
  <2>. QED
    BY <2>2, <2>3
<1>. QED
  BY <1>1, <1>2, <1>4, GoOn DEF is

-----------------------------------------------------------------------------
(* The productions.                                                        *)

(* The module and its body. *)
LEMMA ModuleSteps ==
  ASSUME ParserOK, module_name \/ module_oid \/ parse_tag_default \/ extensibility
                   \/ begin \/ recover
  PROVE  Kept
<1>1. CASE module_name
  BY <1>1, Places, Ends, StepLists DEF module_name, Called, Top
<1>2. CASE module_oid
  BY <1>2, Places, Ends, StepLists, FirstOfStays DEF module_oid, Called, Top, ParserOK
<1>3. CASE parse_tag_default
  BY <1>3, Places, Ends, StepLists, Frames DEF parse_tag_default, Called, Top
<1>4. CASE extensibility
  BY <1>4, Places, Ends, StepLists, Frames DEF extensibility, Called, Top
<1>5. CASE begin
  BY <1>5, Places, Ends, StepLists, Frames DEF begin, Called, Top
<1>6. CASE recover
  BY <1>6, Places, Ends, StepLists DEF recover, Called, Top
<1>. QED
  BY <1>1, <1>2, <1>3, <1>4, <1>5, <1>6

(* The loop over the assignments: it looks at the errors of what it calls. *)
LEMMA BodyStep ==
  ASSUME ParserOK, parse_module_body
  PROVE  Kept
<1>. USE DEF Top
<1>1. todo # << >> /\ Head(todo).do = "module_body" /\ Head(todo).do # "module_end"
  BY DEF parse_module_body
<1>2. Steps(Again) /\ Steps(<< >>)
  BY <1>1, AgainIsSteps, StepLists
<1>3. \A name : Steps(<<With("assignment", name)>> \o Again)
                /\ Steps(<<With("recover", name)>> \o Again)
  BY <1>2, Frames, StepLists, StepsConcat
<1>4. ASSUME parse_imports PROVE Kept
  <2>. DEFINE first == Following(at)
              end   == AfterNames({"IMPORTS", ","}, first)
              from  == Following(end)
  <2>1. first \in DOMAIN source
    BY Places
  <2>2. end \in DOMAIN source
    BY <2>1, AfterNamesStays DEF ParserOK
  <2>3. from \in DOMAIN source /\ Following(from) \in DOMAIN source
        /\ synchronize(end) \in DOMAIN source
    BY <2>2, Places
  <2>4. \/ Continue(Following(from), <<With("recover", ";")>> \o Again)
        \/ Complain(from, <<With("recover", ";")>> \o Again)
        \/ Continue(end, <<With("recover", ";")>> \o Again)
        \/ Fail(synchronize(end), TRUE)
    BY <1>4, Zenon DEF parse_imports
  <2>. HIDE DEF first, end, from
  <2>. QED
    BY <1>1, <1>3, <2>2, <2>3, <2>4, Ends
<1>5. ASSUME parse_exports PROVE Kept
  <2>. DEFINE first == Following(at)
              end   == AfterNames({","}, first)
  <2>1. first \in DOMAIN source /\ Following(first) \in DOMAIN source
    BY Places
  <2>2. end \in DOMAIN source
    BY <2>1, AfterNamesStays DEF ParserOK
  <2>3. \/ Continue(Following(first), <<With("recover", ";")>> \o Again)
        \/ Continue(end, <<With("recover", ";")>> \o Again)
        \/ Complain(end, <<With("recover", ";")>> \o Again)
    BY <1>5, Zenon DEF parse_exports
  <2>. HIDE DEF first, end
  <2>. QED
    BY <1>1, <1>3, <2>1, <2>2, <2>3, Ends
<1>. QED
  BY <1>1, <1>2, <1>3, <1>4, <1>5, Places, Ends DEF parse_module_body

(* The last call: the parser returns, with an error only if it said so.    *)
LEMMA EndStep ==
  ASSUME ParserOK, module_end
  PROVE  Kept
<1>1. /\ source' = source /\ at' \in DOMAIN source /\ todo' = << >> /\ failed' = FALSE
      /\ shape' = shape /\ assignments' = assignments
      /\ result' = (IF failed THEN "err" ELSE "ok")
      /\ reported' = (reported \/ (~ failed /\ current # "END"))
  BY Places DEF module_end
<1>2. Steps(todo)' /\ Text(source)' /\ Entries(assignments)'
  BY <1>1, StepLists DEF ParserOK, Steps, Text, Entries
<1>. QED
  BY <1>1, <1>2 DEF ParserOK, Kept

(* A finished assignment is put down with the shape of its type.           *)
LEMMA AssignedStep ==
  ASSUME ParserOK, assigned
  PROVE  Kept
<1>. DEFINE e == [name |-> Head(todo).of.name, kind |-> Head(todo).of.kind, shape |-> shape]
            R == Range(assignments)
            S == R \cup {e}
            n == Len(assignments)
            a == Append(assignments, e)
<1>1. todo # << >> /\ Head(todo).do = "assigned" /\ ~ failed
  BY DEF assigned, Called, Top
<1>2. Steps(Tail(todo)) /\ Tail(todo) # << >> /\ Tail(todo)[Len(Tail(todo))].do = "module_end" /\ result = "none"
  BY <1>1, Inner
<1>3. /\ assignments \in Seq(S) /\ n \in Nat
      /\ \A i \in 1 .. n : assignments[i].shape \in Shape
  <2>1. assignments \in Seq(R)
    BY DEF ParserOK, Entries
  <2>2. Seq(R) \subseteq Seq(S)
    <3>. HIDE DEF R
    <3>. QED
      OBVIOUS
  <2>3. DOMAIN assignments = 1 .. n /\ n \in Nat
    BY <2>1
  <2>. QED
    BY <2>1, <2>2, <2>3 DEF ParserOK, Entries
<1>4. e \in S /\ e.shape \in Shape
  BY DEF ParserOK
<1>. HIDE DEF e, S, R
<1>5. /\ a \in Seq(S) /\ Len(a) = n + 1 /\ DOMAIN a = 1 .. n + 1
      /\ \A i \in 1 .. n + 1 : a[i] = IF i = n + 1 THEN e ELSE assignments[i]
  BY <1>3, <1>4
<1>6. \A i \in 1 .. n + 1 : a[i].shape \in Shape
  <2>. SUFFICES ASSUME NEW i \in 1 .. n + 1 PROVE a[i].shape \in Shape
    OBVIOUS
  <2>. HIDE DEF a, n
  <2>1. CASE i = n + 1
    BY <1>4, <1>5, <2>1
  <2>2. CASE i # n + 1
    <3>1. i \in 1 .. n
      BY <1>3, <2>2
    <3>. QED
      BY <1>3, <1>5, <2>2, <3>1
  <2>. QED
    BY <2>1, <2>2
<1>7. Entries(a)
  BY <1>5, <1>6, OwnRange DEF Entries
<1>8. /\ source' = source /\ at' = at /\ todo' = Tail(todo) /\ failed' = failed
      /\ shape' = shape /\ reported' = reported /\ result' = result /\ assignments' = a
  BY DEF assigned, a, e
<1>9. Steps(todo)' /\ Text(source)' /\ Entries(assignments)'
  BY <1>2, <1>7, <1>8 DEF ParserOK, Steps, Text, Entries
<1>. QED
  BY <1>1, <1>2, <1>8, <1>9 DEF ParserOK, Kept

(* An assignment: its name, and what the next token says it is.            *)
LEMMA AssignmentSteps ==
  ASSUME ParserOK, parse_assignment \/ object \/ definition
  PROVE  Kept
<1>. USE DEF Called, Top
<1>1. ASSUME NEW name, plain_assignment(name), todo # << >>, Head(todo).do # "module_end"
      PROVE  Kept
  <2>1. \/ Continue(Following(at), <<Do("parameters"), Need("::="), Do("type"),
                                     Assigned(name, "parameterized")>>)
        \/ Continue(Following(at), <<With("definition", name)>>)
        \/ Continue(at, <<Do("type"), Need("::="), Do("value"), Assigned(name, "value")>>)
        \/ Fail(at, TRUE)
    BY <1>1, Zenon DEF plain_assignment
  <2>. QED
    BY <1>1, <2>1, Places, Ends, Frames, StepLists
<1>2. CASE parse_assignment
  BY <1>1, <1>2, Places, Ends, Frames, StepLists DEF parse_assignment
<1>3. CASE object
  <2>. DEFINE name == Head(todo).of
  <2>1. \/ Continue(Following(at), <<Do("object_fields"), Consume("}"),
                                     Assigned(name, "object")>>)
        \/ Continue(Following(at), <<Do("object_set"), Consume("}"),
                                     Assigned(name, "object_set")>>)
        \/ plain_assignment(name)
    BY <1>3, Zenon DEF object
  <2>. QED
    BY <1>1, <1>3, <2>1, Places, Ends, Frames, StepLists DEF object
<1>4. CASE definition
  <2>. DEFINE name == Head(todo).of
  <2>1. \/ Continue(Following(at), <<Need("{"), With("class_fields", name),
                                     Do("with_syntax"), Assigned(name, "class")>>)
        \/ Continue(at, <<Do("type"), Assigned(name, "type")>>)
        \/ Fail(at, TRUE)
    BY <1>4, Zenon DEF definition
  <2>. QED
    BY <1>4, <2>1, Places, Ends, Frames, StepLists DEF definition
<1>. QED
  BY <1>2, <1>3, <1>4

(* The types: the alternatives of type_ref that are put on the stack.      *)
LEMMA KindFrames ==
  /\ FrameOK(Is("constrained")) /\ FrameOK(Is("ANY")) /\ FrameOK(Is("LIST OF"))
  /\ FrameOK(Is("named")) /\ FrameOK(Is("instantiation")) /\ FrameOK(Is("tagged"))
  /\ FrameOK(Is("OBJECT IDENTIFIER")) /\ FrameOK(Is("RELATIVE OID"))
  /\ \A kind \in TypeKeyword : FrameOK(Is(kind))
BY Frames DEF Kinds

(* A named type, with its arguments or its constraint. *)
LEMMA NamedTypeStep ==
  ASSUME ParserOK, todo # << >>, Head(todo).do = "type", named_type
  PROVE  Kept
<1>1. ASSUME NEW second, NEW kind, FrameOK(Is(kind)), two_words(second, kind)
      PROVE  Kept
  BY <1>1, Places, Ends, Frames, StepLists DEF two_words
<1>2. CASE current = "OBJECT"
  <2>1. two_words("IDENTIFIER", "OBJECT IDENTIFIER")
    BY <1>2, Zenon DEF named_type
  <2>. QED
    BY <1>1, <2>1, KindFrames
<1>3. CASE current = "RELATIVE"
  <2>1. two_words("OID", "RELATIVE OID")
    BY <1>3, Zenon DEF named_type
  <2>. QED
    BY <1>1, <2>1, KindFrames
<1>4. CASE current \notin {"OBJECT", "RELATIVE"}
  <2>1. \/ Continue(Following(at), <<Is("ANY"), Do("constraints")>>)
        \/ Continue(after, <<Do("arguments"), Is("instantiation"), Do("constraints")>>)
        \/ Continue(after, <<Do("constraint"), Do("ignore"), Is("named"), Is("constrained")>>)
        \/ Continue(Following(at), <<Is("named")>>)
    BY <1>4, Zenon DEF named_type
  <2>. QED
    BY <2>1, Places, Ends, Frames, KindFrames, StepLists
<1>. QED
  BY <1>2, <1>3, <1>4

(* A built-in type. *)
LEMMA BuiltinTypeStep ==
  ASSUME ParserOK, todo # << >>, Head(todo).do = "type", parse_builtin_type
  PROVE  Kept
<1>1. FirstOf({"}"}, after) \in DOMAIN source
  BY Places, FirstOfStays DEF ParserOK
<1>2. Following(FirstOf({"}"}, after)) \in DOMAIN source
  BY <1>1, Places
<1>3. ASSUME NEW list \in TypeKeyword, list # "is", braced_type(list) PROVE Kept
  BY <1>3, Places, Ends, Frames, KindFrames, StepLists DEF braced_type
<1>4. ASSUME list_of_type PROVE Kept
  BY <1>4, Places, Ends, Frames, KindFrames, StepLists DEF list_of_type
<1>5. \/ \E kind \in TypeKeyword : Continue(Following(at), <<Is(kind), Do("constraints")>>)
      \/ Continue(Following(FirstOf({"}"}, after)), <<Is("INTEGER"), Do("constraints")>>)
      \/ Continue(Following(at), <<Consume("STRING"), Is("OCTET"), Do("constraints")>>)
      \/ Continue(Following(at), <<Consume("STRING"), Do("named_bits"), Is("BIT"),
                                   Do("constraints")>>)
      \/ Continue(after, <<Do("size"), Consume("OF"), Do("type"), Is("LIST OF"),
                           Is("constrained")>>)
      \/ list_of_type
      \/ \E list \in TypeKeyword : list # "is" /\ braced_type(list)
      \/ Fail(Following(at), TRUE) \/ Fail(at, TRUE)
  <2>. DEFINE sequence ==
         CASE peeked = "OF" -> list_of_type
           [] peeked = "SIZE" ->
                Continue(after, <<Do("size"), Consume("OF"), Do("type"), Is("LIST OF"),
                                  Is("constrained")>>)
           [] peeked \notin {"OF", "SIZE"} -> braced_type("SEQUENCE")
  <2>1. \/ /\ current \in {"BOOLEAN", "NULL", "REAL"}
           /\ Continue(Following(at), <<Is(current), Do("constraints")>>)
        \/ Continue(IF peeked = "{" THEN Following(FirstOf({"}"}, after)) ELSE Following(at),
                    <<Is("INTEGER"), Do("constraints")>>)
        \/ Continue(Following(at), <<Consume("STRING"), Is("OCTET"), Do("constraints")>>)
        \/ Continue(Following(at), <<Consume("STRING"), Do("named_bits"), Is("BIT"),
                                     Do("constraints")>>)
        \/ sequence
        \/ IF peeked = "OF" THEN list_of_type ELSE braced_type("SET")
        \/ current \in {"CHOICE", "ENUMERATED"} /\ braced_type(current)
        \/ Fail(Following(at), TRUE) \/ Fail(at, TRUE)
    <3>. HIDE DEF sequence
    <3>. QED
      BY Zenon DEF parse_builtin_type, TypeKeyword, sequence
  <2>2. ASSUME sequence
        PROVE  \/ list_of_type \/ braced_type("SEQUENCE")
               \/ Continue(after, <<Do("size"), Consume("OF"), Do("type"), Is("LIST OF"),
                                    Is("constrained")>>)
    BY <2>2, Zenon
  <2>. HIDE DEF sequence
  <2>. QED
    BY <2>1, <2>2 DEF TypeKeyword
<1>. QED
  BY <1>1, <1>2, <1>3, <1>4, <1>5, Places, Ends, Frames, KindFrames, StepLists DEF TypeKeyword

(* A type, a list of named bits, a tag.                                    *)
LEMMA PlainTypeSteps ==
  ASSUME ParserOK, parse_type \/ named_bits \/ parse_tagged_type \/ tagging
  PROVE  Kept
<1>. USE DEF Called, Top
<1>1. CASE parse_type
  <2>1. \/ Continue(Following(at), <<Do("tagged"), Do("type"), Is("tagged")>>)
        \/ named_type \/ parse_builtin_type
    BY <1>1, Zenon DEF parse_type
  <2>. QED
    BY <1>1, <2>1, NamedTypeStep, BuiltinTypeStep, Places, Ends, Frames, KindFrames, StepLists
       DEF parse_type
<1>2. CASE named_bits
  BY <1>2, Places, Ends, Frames, StepLists DEF named_bits
<1>3. CASE parse_tagged_type
  BY <1>3, Places, Ends, Frames, StepLists DEF parse_tagged_type
<1>4. CASE tagging
  BY <1>4, Places, Ends, StepLists DEF tagging
<1>. QED
  BY <1>1, <1>2, <1>3, <1>4

(* A list of components, alternatives, items or bits: it looks at the      *)
(* errors of its elements and goes on past the next brace or semicolon.    *)
LEMMA ListStep ==
  ASSUME ParserOK, parse_list
  PROVE  Kept
<1>1. PICK list \in {"SEQUENCE", "SET", "CHOICE", "ENUMERATED", "BIT"} :
        /\ Top(list)
        /\ \/ failed /\ Continue(synchronize(at), Again)
           \/ ~ failed /\ current = "}" /\ Continue(Following(at), << >>)
           \/ ~ failed /\ current = "eof" /\ list = "SEQUENCE" /\ Continue(at, << >>)
           \/ ~ failed /\ current = "eof" /\ list # "SEQUENCE" /\ Complain(at, << >>)
           \/ /\ ~ failed /\ current = "..."
              /\ Continue(IF peeked = "," THEN after ELSE Following(at), Again)
           \/ ~ failed /\ current = "," /\ Continue(Following(at), Again)
           \/ /\ ~ failed /\ current \notin {"}", "eof", "...", ","}
              /\ IF list = "SEQUENCE" /\ is_assignment_boundary
                   THEN Continue(at, << >>)
                   ELSE Continue(at, <<Element(list)>> \o Again)
  BY DEF parse_list
<1>2. todo # << >> /\ Head(todo).do # "module_end"
  BY <1>1 DEF Top
<1>3. Steps(Again) /\ Steps(<< >>)
  BY <1>2, AgainIsSteps, StepLists
<1>4. Element(list) \in {Do("alternative"), Do("component"), Do("item")}
  BY <1>1, Zenon DEF Element
<1>5. Steps(<<Element(list)>> \o Again)
  BY <1>3, <1>4, Frames, StepLists, StepsConcat
<1>. QED
  BY <1>1, <1>2, <1>3, <1>5, Places, Ends

(* A component or an alternative: its name, its type, and what follows.    *)
LEMMA ComponentSteps ==
  ASSUME ParserOK, component \/ type_name \/ qualifier \/ item
  PROVE  Kept
<1>. USE DEF Called, Top
<1>1. CASE component
  <2>1. PICK element \in {"component", "alternative"} :
          /\ Called(element)
          /\ IF Identifier(current)
               THEN Continue(Following(at), <<Do("type"), Do("type_name")>> \o
                      (IF element = "component" THEN <<Do("qualifier")>> ELSE << >>))
               ELSE Fail(at, TRUE)
    BY <1>1 DEF component
  <2>2. Steps(<<Do("type"), Do("type_name")>> \o
                (IF element = "component" THEN <<Do("qualifier")>> ELSE << >>))
    BY Frames, StepLists, StepsConcat
  <2>. QED
    BY <2>1, <2>2, Places, Ends
<1>2. CASE type_name
  BY <1>2, Places, Ends, GiveUp, StepLists DEF type_name
<1>3. CASE qualifier
  <2>1. Following(Following(at)) \in DOMAIN source
        /\ skip_balanced("{", "}", Following(at)) \in DOMAIN source
    BY Places, SkipStays DEF ParserOK
  <2>2. \/ Continue(Following(at), << >>) \/ Continue(Following(Following(at)), << >>)
        \/ Continue(skip_balanced("{", "}", Following(at)), << >>)
        \/ Complain(Following(at), << >>) \/ Continue(at, << >>)
    BY <1>3, Zenon DEF qualifier
  <2>. QED
    BY <1>3, <2>1, <2>2, Places, Ends, StepLists DEF qualifier
<1>4. CASE item
  <2>1. \/ Complain(synchronize(at), << >>) \/ Continue(Following(at), << >>)
        \/ Continue(IF source[after] = "number" THEN Following(after) ELSE after,
                    <<Consume(")")>>)
    BY <1>4, Zenon DEF item
  <2>. QED
    BY <1>4, <2>1, Places, Ends, Frames, StepLists DEF item
<1>. QED
  BY <1>1, <1>2, <1>3, <1>4

(* Constraints and values.                                                 *)
LEMMA ConstraintSteps ==
  ASSUME ParserOK, ConstraintStep
  PROVE  Kept
<1>. USE DEF Called, Top
<1>1. CASE finish_type_with_constraints
  <2>1. Steps(<<Do("constraint"), Is("constrained")>> \o Again)
    BY <1>1, AgainIsSteps, Frames, KindFrames, StepLists, StepsConcat
       DEF finish_type_with_constraints
  <2>. QED
    BY <1>1, <2>1, Places, Ends, StepLists DEF finish_type_with_constraints
<1>2. CASE parse_constraint
  <2>1. \/ Continue(Following(at), <<Do("size"), Consume(")")>>)
        \/ Continue(after, <<Do("except"), Consume(")")>>) \/ Fail(Following(at), TRUE)
        \/ Continue(Following(at), <<Consume(")")>>)
        \/ Continue(Following(at), <<Consume("("), Do("range"), Consume(")"), Consume(")")>>)
        \/ Continue(at, <<Do("range"), Consume(")")>>)
    BY <1>2, Zenon DEF parse_constraint
  <2>. QED
    BY <1>2, <2>1, Places, Ends, Frames, StepLists DEF parse_constraint
<1>3. CASE except
  <2>1. skip_balanced("(", ")", at) \in DOMAIN source
        /\ skip_balanced("{", "}", at) \in DOMAIN source
    BY SkipStays DEF ParserOK
  <2>2. \/ Continue(at, << >>) \/ Continue(skip_balanced("(", ")", at), Again)
        \/ Continue(skip_balanced("{", "}", at), Again) \/ Continue(Following(at), Again)
    BY <1>3, Zenon DEF except
  <2>. QED
    BY <1>3, <2>1, <2>2, AgainIsSteps, Places, Ends, StepLists DEF except
<1>4. ASSUME NEW lower, NEW upper, Bounds(lower, upper),
             todo # << >>, Head(todo).do # "module_end"
      PROVE  Kept
  <2>1. \/ Fail(at, TRUE) \/ Continue(Following(at), << >>)
        \/ Continue(Following(after), << >>) \/ Fail(after, TRUE)
    BY <1>4, Zenon DEF Bounds
  <2>. QED
    BY <1>4, <2>1, Places, Ends, StepLists
<1>5. CASE parse_value_range
  BY <1>4, <1>5 DEF parse_value_range
<1>6. CASE parse_size_constraint
  BY <1>4, <1>6, Places, Ends, Frames, StepLists DEF parse_size_constraint
<1>7. CASE parse_value
  <2>1. FirstOf({"}"}, Following(at)) \in DOMAIN source
    BY Places, FirstOfStays DEF ParserOK
  <2>2. \/ Continue(Following(at), << >>) \/ Fail(at, TRUE)
        \/ Continue(FirstOf({"}"}, Following(at)), <<Consume("}")>>)
    BY <1>7, Zenon DEF parse_value
  <2>. QED
    BY <1>7, <2>1, <2>2, Places, Ends, Frames, StepLists DEF parse_value
<1>. QED
  BY <1>1, <1>2, <1>3, <1>5, <1>6, <1>7 DEF ConstraintStep

(* The parameters of a type, formal and actual.                            *)
LEMMA ParameterSteps ==
  ASSUME ParserOK, ParameterStep
  PROVE  Kept
<1>. USE DEF Called, Top
<1>1. CASE parameters
  <2>1. Steps(<<Do("formal_parameter")>> \o Again)
    BY <1>1, AgainIsSteps, Frames, StepLists, StepsConcat DEF parameters
  <2>2. todo # << >> /\ Head(todo).do # "module_end"
    BY <1>1 DEF parameters
  <2>3. ASSUME failed, Fail(synchronize(at), FALSE) PROVE Kept
    BY <2>2, <2>3, Places, GiveUp
  <2>. QED
    BY <1>1, <2>1, <2>2, <2>3, AgainIsSteps, Places, Ends, StepLists DEF parameters
<1>2. CASE formal_parameter
  <2>1. \/ Continue(Following(at), << >>) \/ Continue(Following(after), << >>)
        \/ Fail(after, TRUE) \/ Fail(synchronize(Following(at)), TRUE) \/ Fail(at, TRUE)
    BY <1>2, Zenon DEF formal_parameter
  <2>. QED
    BY <1>2, <2>1, Places, Ends, StepLists DEF formal_parameter
<1>3. CASE parse_type_instantiation
  <2>1. \/ Continue(Following(at), << >>) \/ Continue(Following(at), Again)
        \/ Continue(at, <<Do("type")>> \o Again) \/ Fail(at, TRUE)
    BY <1>3, Zenon DEF parse_type_instantiation
  <2>2. Steps(<<Do("type")>> \o Again)
    BY <1>3, AgainIsSteps, Frames, StepLists, StepsConcat DEF parse_type_instantiation
  <2>. QED
    BY <1>3, <2>1, <2>2, AgainIsSteps, Places, Ends, StepLists DEF parse_type_instantiation
<1>. QED
  BY <1>1, <1>2, <1>3 DEF ParameterStep

(* The fields of a class: at its closing brace the class is known.         *)
LEMMA ClassStep ==
  ASSUME ParserOK, class_fields
  PROVE  Kept
<1>. DEFINE Closed == /\ at' = Following(at) /\ todo' = Tail(todo)
                      /\ reported' = (reported \/ current = "eof")
                      /\ UNCHANGED <<source, failed, shape, assignments, result>>
<1>1. todo # << >> /\ Head(todo).do = "class_fields" /\ ~ failed
  BY DEF class_fields, Called, Top
<1>2. \/ Closed
      \/ Continue(Following(at), Again)
      \/ Continue(field_end(Following(at)), Again)
      \/ Fail(Following(at), TRUE) \/ Fail(synchronize(at), TRUE)
  BY Zenon DEF class_fields
<1>3. CASE Closed
  <2>1. /\ Steps(Tail(todo)) /\ Tail(todo) # << >> /\ result = "none"
        /\ Tail(todo)[Len(Tail(todo))].do = "module_end"
    BY <1>1, Inner
  <2>2. Steps(todo)' /\ Text(source)' /\ Entries(assignments)' /\ at' \in DOMAIN source'
    BY <1>3, <2>1, Places DEF ParserOK, Steps, Text, Entries
  <2>. QED
    BY <1>1, <1>3, <2>1, <2>2 DEF ParserOK, Kept
<1>4. field_end(Following(at)) \in DOMAIN source
  BY Places, FieldStays DEF ParserOK
<1>. QED
  BY <1>1, <1>2, <1>3, <1>4, AgainIsSteps, Places, Ends

(* Objects, object sets and the syntax of a class.                         *)
LEMMA ObjectSteps ==
  ASSUME ParserOK, ObjectStep
  PROVE  Kept
<1>. USE DEF Called, Top
<1>1. CASE with_syntax
  BY <1>1, Places, Ends, Frames, StepLists DEF with_syntax
<1>2. CASE syntax_items
  <2>. DEFINE word(t) == t \in {"string", "CLASS", "WITH", "SYNTAX", "INTEGER", "BOOLEAN",
                                "OCTET", "SIZE", "CONSTRAINT"} \/ Identifier(t)
              sign == IF word(current) THEN Following(at) ELSE at
              name == IF source[sign] = "&" THEN Following(sign) ELSE sign
              end  == IF name > sign /\ Identifier(source[name]) THEN Following(name) ELSE name
  <2>1. Continue(end, Again) \/ Continue(name, << >>)
    BY <1>2 DEF syntax_items
  <2>2. sign \in DOMAIN source
    BY Places
  <2>. HIDE DEF sign
  <2>3. name \in DOMAIN source
    BY <2>2, Places
  <2>. HIDE DEF name
  <2>4. end \in DOMAIN source
    BY <2>3, Places
  <2>. HIDE DEF end
  <2>5. todo # << >> /\ Head(todo).do # "module_end"
    BY <1>2 DEF syntax_items
  <2>. QED
    BY <2>1, <2>3, <2>4, <2>5, AgainIsSteps, Ends, StepLists
<1>3. CASE object_fields
  <2>1. \/ Continue(at, << >>) \/ Continue(Following(at), Again)
        \/ Continue(after, <<Do("value"), Do("ignore")>> \o Again)
        \/ Complain(Following(at), << >>) \/ Complain(at, << >>)
    BY <1>3, Zenon DEF object_fields
  <2>2. Steps(<<Do("value"), Do("ignore")>> \o Again)
    BY <1>3, AgainIsSteps, Frames, StepLists, StepsConcat DEF object_fields
  <2>. QED
    BY <1>3, <2>1, <2>2, AgainIsSteps, Places, Ends, StepLists DEF object_fields
<1>4. CASE object_set
  <2>1. Continue(at, << >>) \/ Continue(Following(at), Again) \/ Complain(at, << >>)
    BY <1>4, Zenon DEF object_set
  <2>. QED
    BY <1>4, <2>1, AgainIsSteps, Places, Ends, StepLists DEF object_set
<1>. QED
  BY <1>1, <1>2, <1>3, <1>4, ClassStep DEF ObjectStep

(* Every step of the parser.                                               *)
LEMMA ParserStep ==
  ASSUME ParserOK, ParserNext
  PROVE  Kept /\ todo # << >>
<1>1. Kept
  <2>1. CASE ModuleStep
    BY <2>1, ModuleSteps, BodyStep, EndStep DEF ModuleStep
  <2>2. CASE AssignmentStep
    BY <2>2, AssignmentSteps, AssignedStep DEF AssignmentStep
  <2>3. CASE TypeStep
    BY <2>3, PlainTypeSteps, ListStep, ComponentSteps DEF TypeStep
  <2>. QED
    BY <2>1, <2>2, <2>3, ConsumeStep, IsStep, ConstraintSteps, ParameterSteps, ObjectSteps
       DEF ParserNext
<1>2. todo # << >>
  <2>. USE DEF Called, Top
  <2>1. CASE consume \/ need \/ is \/ ignore
    BY <2>1 DEF consume, need, is, ignore
  <2>2. CASE ModuleStep
    BY <2>2 DEF ModuleStep, module_name, module_oid, parse_tag_default, extensibility, begin,
                parse_module_body, recover, module_end
  <2>3. CASE AssignmentStep
    BY <2>3 DEF AssignmentStep, parse_assignment, object, definition, assigned
  <2>4. CASE TypeStep
    BY <2>4 DEF TypeStep, parse_type, named_bits, parse_list, component, type_name, qualifier,
                item, parse_tagged_type, tagging
  <2>5. CASE ConstraintStep
    BY <2>5 DEF ConstraintStep, finish_type_with_constraints, parse_constraint, except,
                parse_value_range, parse_size_constraint, parse_value
  <2>6. CASE ParameterStep \/ ObjectStep
    BY <2>6 DEF ParameterStep, parameters, formal_parameter, parse_type_instantiation,
                ObjectStep, class_fields, with_syntax, syntax_items, object_fields, object_set
  <2>. QED
    BY <2>1, <2>2, <2>3, <2>4, <2>5, <2>6 DEF ParserNext
<1>. QED
  BY <1>1, <1>2

-----------------------------------------------------------------------------
(* The programs round the parser.                                          *)

(* The schema a front end takes next, and those that remain.               *)
LEMMA NextFile ==
  ASSUME Files(files), files # << >>
  PROVE  Text(Head(files)) /\ Files(Tail(files))
<1>. DEFINE n == Len(files)
            R == Range(files)
<1>1. files \in Seq(R) /\ n \in Nat /\ DOMAIN files = 1 .. n
  BY DEF Files
<1>2. n >= 1 /\ Head(files) = files[1] /\ Text(files[1])
  BY <1>1, EmptySeq DEF Files
<1>3. \A i \in 1 .. n : Text(files[i])
  BY <1>1 DEF Files
<1>. HIDE DEF R
<1>4. /\ Tail(files) \in Seq(R) /\ Len(Tail(files)) = n - 1
      /\ \A i \in 1 .. n - 1 : Tail(files)[i] = files[i + 1]
  BY <1>1, <1>2
<1>. HIDE DEF n
<1>5. \A i \in 1 .. Len(Tail(files)) : Text(Tail(files)[i])
  <2>1. \A i \in 1 .. n - 1 : i + 1 \in 1 .. n
    BY <1>1, <1>2
  <2>. QED
    BY <1>3, <1>4, <2>1
<1>6. Tail(files) \in Seq(Range(Tail(files)))
  BY <1>4, OwnRange
<1>. QED
  BY <1>2, <1>4, <1>5, <1>6 DEF Files

(* What a front end gives to the parser is a text, be it the empty one.    *)
LEMMA EmptyText ==
  Text(<<"eof">>)
<1>1. Len(<<"eof">>) = 1 /\ DOMAIN <<"eof">> = 1 .. 1 /\ <<"eof">>[1] = "eof"
  OBVIOUS
<1>. QED
  BY <1>1 DEF Text

(* The stack a parser begins with.                                         *)
LEMMA ModuleIsSteps ==
  Steps(Module) /\ Module # << >> /\ Module[Len(Module)].do = "module_end"
<1>. DEFINE front4 == <<Do("module_name"), Do("module_oid"), Need("DEFINITIONS"),
                        Do("tag_default")>>
            back4 == <<Do("extensibility"), Need("::="), Do("begin"), Do("module_end")>>
<1>1. Steps(front4) /\ Steps(back4)
  BY Frames, StepLists
<1>2. Module = front4 \o back4
  BY DEF Module
<1>3. back4 # << >> /\ Len(back4) = 4 /\ back4[4] = Do("module_end")
  OBVIOUS
<1>. HIDE DEF front4, back4
<1>4. /\ Steps(front4 \o back4) /\ front4 \o back4 # << >>
      /\ (front4 \o back4)[Len(front4 \o back4)] = back4[Len(back4)]
  BY <1>1, <1>3, StepsConcat
<1>5. Do("module_end").do = "module_end"
  BY DEF Do
<1>. QED
  BY <1>2, <1>3, <1>4, <1>5

(* A parser begins in order.                                               *)
LEMMA ParseStarts ==
  ASSUME NEW tokens, Text(tokens), NEW scanned \in BOOLEAN, Parse(tokens, scanned)
  PROVE  ParserOK' /\ todo' # << >>
<1>1. /\ source' = tokens /\ at' = 1 /\ todo' = Module /\ failed' = FALSE
      /\ shape' = NoShape /\ reported' = scanned /\ assignments' = << >>
      /\ result' = "none"
  BY DEF Parse, clear_diagnostics
<1>2. Text(source)' /\ 1 \in DOMAIN tokens
  BY <1>1, TextPlaces DEF Text
<1>3. Steps(todo)' /\ todo' # << >> /\ todo'[Len(todo')].do = "module_end"
  BY <1>1, ModuleIsSteps DEF Steps
<1>4. Entries(assignments)'
  <2>1. << >> \in Seq(Range(<< >>)) /\ \A i \in DOMAIN << >> : FALSE
    <3>1. << >> \in Seq({}) /\ DOMAIN << >> = {}
      OBVIOUS
    <3>. QED
      BY <3>1, OwnRange
  <2>. QED
    BY <1>1, <2>1 DEF Entries
<1>5. shape' \in Shape
  BY <1>1 DEF NoShape, Shape, Kinds
<1>. QED
  BY <1>1, <1>2, <1>3, <1>4, <1>5 DEF ParserOK

(* What the parser's own variables say stays when they do.                 *)
LEMMA ParserStays ==
  ASSUME ParserOK, UNCHANGED parserVars
  PROVE  ParserOK' /\ (has_errors' <=> has_errors)
BY DEF ParserOK, parserVars, Text, Steps, Entries, has_errors

(* The programs begin in order.                                            *)
LEMMA InitIInv ==
  ASSUME Init
  PROVE  IInv
<1>1. Text(source) /\ at \in DOMAIN source
  BY EmptyText, TextPlaces DEF Init
<1>2. Files(<< >>) /\ Entries(<< >>)
  <2>1. << >> \in Seq({}) /\ DOMAIN << >> = {}
    OBVIOUS
  <2>. QED
    BY <2>1, OwnRange DEF Files, Entries
<1>3. \A s \in Sources : Files(<<s>>) /\ <<s>> # << >>
  <2>. SUFFICES ASSUME NEW s \in Sources PROVE Files(<<s>>) /\ <<s>> # << >>
    OBVIOUS
  <2>1. <<s>> \in Seq({s}) /\ DOMAIN <<s>> = {1} /\ <<s>>[1] = s /\ <<s>> # << >>
    OBVIOUS
  <2>. QED
    BY <2>1, OwnRange, TextAssumption DEF Files
<1>4. \A session \in Sessions : Files(session)
  BY TextAssumption DEF Files
<1>5. ParserOK
  BY <1>1, <1>2, StepLists DEF Init, ParserOK, NoShape, Shape, Kinds
<1>6. ToolOK
  BY <1>2, <1>3, <1>4 DEF Init, ToolOK
<1>. QED
  BY <1>5, <1>6 DEF IInv

(* main: a file read, or the error that it cannot be.                      *)
LEMMA ReadStep ==
  ASSUME IInv, read_file
  PROVE  IInv'
<1>1. /\ front \in {"main", "dry_run"} /\ todo = << >> /\ result = "none" /\ exit = "none"
      /\ output = "old" /\ output' = output /\ front' = front /\ ParserOK
  BY DEF read_file, IInv, ToolOK
<1>2. ASSUME NEW tokens, Text(tokens), Parse(tokens, FALSE), Files(files)'
      PROVE  IInv'
  BY <1>1, <1>2, ParseStarts DEF Parse, IInv, ToolOK
<1>3. CASE front = "dry_run" /\ Parse(<<"eof">>, FALSE) /\ UNCHANGED files
  BY <1>2, <1>3, EmptyText DEF IInv, ToolOK, Files
<1>4. CASE front = "main" /\ Parse(Head(files), FALSE) /\ files' = Tail(files)
  <2>1. Files(files) /\ files # << >>
    BY <1>1, <1>4 DEF IInv, ToolOK
  <2>2. Text(Head(files)) /\ Files(files)'
    BY <1>4, <2>1, NextFile DEF Files
  <2>. QED
    BY <1>2, <1>4, <2>2
<1>5. CASE front = "main" /\ exit' = "err" /\ UNCHANGED <<parserVars, files>>
  <2>1. todo' = todo /\ files' = files
    BY <1>5 DEF parserVars
  <2>. QED
    BY <1>1, <1>5, <2>1, ParserStays DEF IInv, ToolOK, Files
<1>. QED
  BY <1>3, <1>4, <1>5 DEF read_file

(* main and parse_string: what they return, and what they write.           *)
LEMMA ReturnSteps ==
  ASSUME IInv, report \/ open_output \/ generate \/ parse_string
  PROVE  IInv'
<1>1. ParserOK /\ UNCHANGED parserVars /\ front' = front /\ files' = files
      /\ result # "none" /\ exit = "none"
  BY DEF report, open_output, generate, parse_string, Return, Parsed, IInv
<1>2. /\ ParserOK' /\ (has_errors' <=> has_errors)
      /\ todo = << >> /\ todo' = todo /\ result' = result
  BY <1>1, ParserStays DEF parserVars, ParserOK
<1>3. clean => ~ has_errors
  BY DEF clean
<1>4. ~ clean => has_errors
  BY <1>1 DEF clean, has_errors, ParserOK
<1>5. Files(files)'
  BY <1>1 DEF IInv, ToolOK, Files
<1>6. /\ exit' \in {"none", "ok", "err"} /\ output' \in {"old", "empty", "code"}
      /\ exit' = "ok" => clean
      /\ front = "schema_parser" /\ exit' = "err" => ~ clean
      /\ output' # "old" => output # "old" \/ (front = "main" /\ clean)
  BY <1>1 DEF report, open_output, generate, parse_string, Return, Parsed, IInv, ToolOK
<1>. QED
  BY <1>1, <1>2, <1>3, <1>4, <1>5, <1>6 DEF IInv, ToolOK

(* schema_parser: the next file, or the error that it does not open.       *)
LEMMA FileStep ==
  ASSUME IInv, parse_file
  PROVE  IInv'
<1>1. /\ front = "schema_parser" /\ todo = << >> /\ files # << >> /\ output = "old"
      /\ files' = Tail(files) /\ front' = front /\ output' = output /\ ParserOK
  BY DEF parse_file, IInv, ToolOK
<1>2. Text(Head(files)) /\ Files(files)'
  BY <1>1, NextFile DEF IInv, ToolOK, Files
<1>3. CASE Parse(Head(files), source_has_imports(Head(files)))
  <2>1. source_has_imports(Head(files)) \in BOOLEAN
    BY DEF source_has_imports
  <2>2. ParserOK' /\ todo' # << >>
    BY <1>2, <1>3, <2>1, ParseStarts
  <2>. QED
    BY <1>1, <1>2, <1>3, <2>2 DEF Parse, IInv, ToolOK
<1>4. CASE /\ source' = <<"eof">> /\ at' = 1
           /\ reported' = TRUE /\ result' = "err" /\ exit' = "err"
           /\ UNCHANGED <<todo, failed, shape, classes, assignments>>
  <2>1. Text(source)' /\ at' \in DOMAIN source'
    BY <1>4, EmptyText, TextPlaces DEF Text
  <2>2. Steps(todo)' /\ Entries(assignments)' /\ todo' = << >>
    BY <1>1, <1>4 DEF ParserOK, Steps, Entries
  <2>3. ParserOK'
    BY <1>1, <1>4, <2>1, <2>2 DEF ParserOK
  <2>4. has_errors'
    BY <1>4 DEF has_errors
  <2>. QED
    BY <1>1, <1>2, <1>4, <2>2, <2>3, <2>4 DEF IInv, ToolOK
<1>. QED
  BY <1>3, <1>4 DEF parse_file

(* Every step keeps the parser and the programs in order.                  *)
LEMMA StepIInv ==
  ASSUME IInv, [Next]_vars
  PROVE  IInv'
<1>1. CASE parse_module
  <2>1. Kept /\ todo # << >>
    BY <1>1, ParserStep DEF parse_module, IInv
  <2>2. result = "none" /\ exit = "none" /\ output = "old"
    BY <2>1 DEF IInv, ParserOK, ToolOK
  <2>3. UNCHANGED <<front, files, exit, output>>
    BY <1>1 DEF parse_module, toolVars
  <2>. QED
    BY <2>1, <2>2, <2>3 DEF Kept, IInv, ToolOK, Files
<1>2. CASE UNCHANGED vars
  <2>1. UNCHANGED parserVars /\ UNCHANGED <<front, files, exit, output>>
    BY <1>2 DEF vars, toolVars
  <2>2. todo' = todo /\ result' = result
    BY <2>1 DEF parserVars
  <2>. QED
    BY <2>1, <2>2, ParserStays DEF IInv, ToolOK, Files
<1>. QED
  BY <1>1, <1>2, ReadStep, ReturnSteps, FileStep DEF Next

-----------------------------------------------------------------------------
(* The parser and the programs are in order in every state they reach.     *)
THEOREM SchemaInvariant == Spec => []IInv
<1>1. Init => IInv
  BY InitIInv
<1>2. IInv /\ [Next]_vars => IInv'
  BY StepIInv
<1>. QED
  BY <1>1, <1>2, PTL DEF Spec

(* Every place the parser reads is in the source, an error on its way up   *)
(* the stack is about to be looked at, and a parser that returned has      *)
(* nothing left to do, for every list of schemas (parser.cpp, main.cpp).   *)
THEOREM SchemaTypeCorrect == Spec => []TypeOK
<1>1. IInv => TypeOK
  BY DEF IInv, ParserOK, ToolOK, Entries, Text, TypeOK
<1>. QED
  BY <1>1, SchemaInvariant, PTL

(* Whatever path an error took up the stack, a front end that fails on a   *)
(* schema has a diagnostic to show.                                        *)
THEOREM SchemaFailureIsReported == Spec => []FailureIsReported
<1>1. IInv => FailureIsReported
  BY DEF IInv, ParserOK, ToolOK, FailureIsReported, has_errors
<1>. QED
  BY <1>1, SchemaInvariant, PTL

(* No output file is opened, and no front end succeeds, on a schema that   *)
(* has an error, also one the parser recovered from or the lexer found.    *)
THEOREM SchemaOutputOnlyWhenClean == Spec => []OutputOnlyWhenClean
<1>1. IInv => OutputOnlyWhenClean
  BY DEF IInv, ToolOK, OutputOnlyWhenClean
<1>. QED
  BY <1>1, SchemaInvariant, PTL

=============================================================================
