----------------------------- MODULE TextCodec -----------------------------
(***************************************************************************)
(* What the JER and the XER codec share: text, numbers in it, and base64.  *)
(*                                                                         *)
(* A text (std::string) is a sequence of characters.  A character is a     *)
(* string; a word whose letters no code looks at one by one, such as a     *)
(* name or the literal true, is one character as well.                     *)
(***************************************************************************)
EXTENDS Word, SequencesExt

(* F(v), with v evaluated once: the local variable of a function. *)
With(v, F(_)) == CHOOSE y \in {F(x) : x \in {v}} : TRUE

Refused == [err |-> TRUE, data |-> << >>]
Answer(data) == [err |-> FALSE, data |-> data]

(* The character at position p, which can be behind the last one. *)
char_at(text, p) == IF p <= Len(text) THEN text[p] ELSE "end"

(* The first position from p on that does not hold one of chars. *)
past(text, p, chars) ==
  Min({q \in p .. Len(text) + 1 : char_at(text, q) \notin chars})

-----------------------------------------------------------------------------
(***************************************************************************)
(* Decimal numbers: std::to_string, std::from_chars and strtoll.           *)
(***************************************************************************)

Digit == <<"0", "1", "2", "3", "4", "5", "6", "7", "8", "9">>
Digits == Range(Digit)
DigitValue == [d \in Digits |-> CHOOSE i \in 0 .. 9 : Digit[i + 1] = d]

to_string(value) ==
  LET decimal[n \in Nat] ==
        (IF n < 10 THEN << >> ELSE decimal[n \div 10]) \o <<Digit[(n % 10) + 1]>>
  IN  IF value < 0 THEN <<"-">> \o decimal[-value] ELSE decimal[value]

(* The number that the digits of text from p to q stand for. *)
number(text, p, q) ==
  LET upto[i \in p - 1 .. q] == IF i < p THEN 0 ELSE 10 * upto[i - 1] + DigitValue[text[i]]
  IN  upto[q]

(* The number whose digits, after a sign if there is one, begin at p. *)
signed_number(text, p) ==
  LET sign  == IF char_at(text, p) = "-" THEN 1 ELSE 0
      value == number(text, p + sign, past(text, p + sign, Digits) - 1)
  IN  IF sign = 1 THEN -value ELSE value

(* strtoll skips white space, reads 0 where there is no number, and stays  *)
(* in the range of its result.                                             *)
strtoll(text) ==
  LET value == signed_number(text, past(text, 1, {" "}))
      top   == 128 * Weight[WordOctets - 1]
  IN  IF value >= top THEN top - 1 ELSE IF value < -top THEN -top ELSE value

-----------------------------------------------------------------------------
(***************************************************************************)
(* base64, written in groups of four characters for three octets.  The     *)
(* two decoders differ on what is not base64: the one of JER refuses it,   *)
(* the one of XER passes over it.                                          *)
(***************************************************************************)

alphabet == <<
  "A", "B", "C", "D", "E", "F", "G", "H", "I", "J", "K", "L", "M", "N", "O", "P",
  "Q", "R", "S", "T", "U", "V", "W", "X", "Y", "Z", "a", "b", "c", "d", "e", "f",
  "g", "h", "i", "j", "k", "l", "m", "n", "o", "p", "q", "r", "s", "t", "u", "v",
  "w", "x", "y", "z", "0", "1", "2", "3", "4", "5", "6", "7", "8", "9", "+", "/">>

AlphabetValue == [c \in Range(alphabet) |-> CHOOSE i \in 0 .. 63 : alphabet[i + 1] = c]
sextet(c) == IF c \in Range(alphabet) THEN AlphabetValue[c] ELSE -1

base64_encode(data) ==
  LET octet(i)  == IF i <= Len(data) THEN data[i] ELSE 0
      value(g, j) ==
        CASE j = 0 -> octet(3 * g + 1) \div 4
          [] j = 1 -> (octet(3 * g + 1) % 4) * 16 + octet(3 * g + 2) \div 16
          [] j = 2 -> (octet(3 * g + 2) % 16) * 4 + octet(3 * g + 3) \div 64
          [] j = 3 -> octet(3 * g + 3) % 64
      padding   == (3 - (Len(data) % 3)) % 3
      size      == 4 * ((Len(data) + 2) \div 3)
  IN  [k \in 1 .. size |->
        IF k > size - padding THEN "=" ELSE alphabet[value((k - 1) \div 4, (k - 1) % 4) + 1]]

RECURSIVE jer_base64_from(_, _)
jer_base64_from(encoded, i) ==
  LET c(j) == IF i + j <= Len(encoded) THEN encoded[i + j] ELSE "="
      v(j) == sextet(c(j))
      pair == v(0) >= 0 /\ v(1) >= 0
      first  == v(0) * 4 + v(1) \div 16
      second == (v(1) % 16) * 16 + v(2) \div 4
      third  == (v(2) % 4) * 64 + v(3)
  IN  CASE c(0) = "="                -> Answer(<< >>)
        [] c(0) # "=" /\ ~pair       -> Refused
        [] pair /\ v(2) < 0 /\ v(3) >= 0 -> Refused
        [] pair /\ v(2) < 0 /\ v(3) < 0  -> Answer(<<first>>)
        [] pair /\ v(2) >= 0 /\ v(3) < 0 -> Answer(<<first, second>>)
        [] OTHER -> With(jer_base64_from(encoded, i + 4), LAMBDA rest :
                      IF rest.err THEN Refused
                      ELSE Answer(<<first, second, third>> \o rest.data))

jer_base64_decode(encoded) == jer_base64_from(encoded, 1)

xer_base64_decode(encoded) ==
  LET until == Min({q \in 1 .. Len(encoded) + 1 : char_at(encoded, q) \in {"=", "end"}})
      s     == SelectSeq(SubSeq(encoded, 1, until - 1), LAMBDA c : sextet(c) >= 0)
      octet(g, j) ==
        CASE j = 0 -> sextet(s[4 * g + 1]) * 4 + sextet(s[4 * g + 2]) \div 16
          [] j = 1 -> (sextet(s[4 * g + 2]) % 16) * 16 + sextet(s[4 * g + 3]) \div 4
          [] j = 2 -> (sextet(s[4 * g + 3]) % 4) * 64 + sextet(s[4 * g + 4])
  IN  [k \in 1 .. (6 * Len(s)) \div 8 |-> octet((k - 1) \div 3, (k - 1) % 3)]
=============================================================================
