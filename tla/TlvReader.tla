----------------------------- MODULE TlvReader -----------------------------
(***************************************************************************)
(* What a caller of ber_decoder relies on, with no batch in sight: a call  *)
(* that succeeds has taken one element off the front of the view, in one   *)
(* of the forms X.690 8.1 allows (see IsLength for the one exception), and *)
(* its answer is determined by the octets it took.  A call that fails      *)
(* answers an error and may leave the view anywhere further on.            *)
(***************************************************************************)
EXTENDS BerElement

CONSTANT Messages   (* the octets a caller hands to the decoder *)

ASSUME ReaderAssumption == Messages \subseteq Seq(Octet)

VARIABLES
  view,   (* the octets left in the caller's buffer_view *)
  got     (* the last call, its error code and what it answered *)

reader_vars == <<view, got>>

Operations == Elements \cup {"sequence_end", "peek_tag"}

Answer(op, err, t, data) == [op |-> op, err |-> err, tag |-> t, data |-> data]
NoAnswer == Answer("none", "ok", NULL_TAG, << >>)

-----------------------------------------------------------------------------
(* Octets that identify the tag t, and that stand for the length n.  X.690 *)
(* has the octet 128 for the indefinite form; no decoder looks for the     *)
(* sentinel, so one octet 128 stands for a length of 128 like any other.   *)
IsIdentifier(octets, t) ==
  LET lead == 64 * t.cls + (IF t.constructed THEN 32 ELSE 0)
      tail == Drop(octets, 1)
      last == octets[Len(octets)]
  IN  \/ t.number < 31 /\ octets = <<lead + t.number>>
      \/ /\ Len(octets) > 1 /\ octets[1] = lead + 31
         /\ \A i \in 2 .. Len(octets) : octets[i] < 128 <=> i = Len(octets)
         /\ Groups(tail) = t.number

IsLength(octets, n) ==
  \/ n <= INDEFINITE_LENGTH /\ octets = <<n>>
  \/ Len(octets) \in 2 .. 127 /\ octets[1] = 127 + Len(octets) /\ Unsigned(Drop(octets, 1)) = n

(* What the contents octets of an element say to the operation reading it. *)
Meaningful(op, contents) ==
  CASE op \in {"integer", "enumerated"} -> Len(contents) \in 1 .. WordOctets
    [] op = "boolean" -> Len(contents) = 1
    [] op = "null" -> contents = << >>
    [] op = "bit_string" -> contents # << >> /\ contents[1] <= 7
    [] op \in {"octet_string", "oid", "sequence_header", "tlv", "skip_tlv"} -> TRUE

Meaning(op, contents) ==
  CASE op \in {"integer", "enumerated"} -> <<decode_integer_value(contents)>>
    [] op = "boolean" -> IF contents = <<0>> THEN <<0>> ELSE <<255>>
    [] op \in {"null", "skip_tlv"} -> << >>
    [] op \in {"octet_string", "oid", "bit_string", "tlv"} -> contents
    [] op = "sequence_header" -> <<Len(contents)>>

ReaderInit == view \in Messages /\ got = NoAnswer

(* The view is cut after i identifier octets, after j - i length octets    *)
(* and after the contents; only the header of a SEQUENCE is taken.         *)
Succeed(op) ==
  /\ got'.op = op /\ got'.err = "ok" /\ got'.tag \in accept(op)
  /\ \E i \in 1 .. Len(view) :
     \E j \in i + 1 .. Len(view) : \E k \in j .. Len(view) :
       LET t        == got'.tag
           contents == SubSeq(view, j + 1, k)
       IN  /\ IsIdentifier(Take(view, i), t)
           /\ IsLength(SubSeq(view, i + 1, j), k - j)
           /\ Meaningful(op, contents)
           /\ got' = Answer(op, "ok", t, Meaning(op, contents))
           /\ view' = Drop(view, IF op = "sequence_header" THEN j ELSE k)

Fail(op) ==
  /\ got' = Answer(op, got'.err, NULL_TAG, << >>) /\ got'.err # "ok"
  /\ \E k \in 0 .. Len(view) : view' = Drop(view, k)
  /\ op \in {"peek_tag", "sequence_end"} => UNCHANGED view

End ==
  /\ Len(view) >= 2 /\ Take(view, 2) = <<0, 0>> /\ view' = Drop(view, 2)
  /\ got' = Answer("sequence_end", "ok", NULL_TAG, << >>)

Peek ==
  /\ \E i \in 1 .. Len(view) : IsIdentifier(Take(view, i), got'.tag)
  /\ got' = Answer("peek_tag", "ok", got'.tag, << >>)
  /\ UNCHANGED view

Flush == got' = NoAnswer /\ UNCHANGED view

NewMessage == view' \in Messages /\ got' = NoAnswer

ReaderNext ==
  \/ \E op \in Elements : Succeed(op)
  \/ \E op \in Operations : Fail(op)
  \/ End \/ Peek \/ Flush \/ NewMessage

ReaderSpec == ReaderInit /\ [][ReaderNext]_reader_vars
=============================================================================
