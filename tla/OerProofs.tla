------------------------------ MODULE OerProofs ------------------------------
(***************************************************************************)
(* oer_encoder, for every word size, every batch size the code can detect  *)
(* and all well-typed calls and buffers: octets are written within the     *)
(* buffer, the batch stays in bounds, and a call writes its whole piece or *)
(* reports that it failed.  IInv is inductive, and the batch bound is what *)
(* makes the last slot of a full batch the one of the call that filled it. *)
(*                                                                         *)
(* Then the application with a reader, for all messages of meant calls:    *)
(* what is left of a message is the octets of the calls still expected.    *)
(* LinkInv says so with the octets that were cut off put back behind the   *)
(* view, and rests on two facts about every decoder: it takes exactly the  *)
(* octets of its own element (PieceReads), and one that succeeded answers  *)
(* the same with more octets behind (DecodeMore).                          *)
(***************************************************************************)
EXTENDS OerLink, OctetTheorems

IInv == TypeOK /\ BatchInBounds

Slot == [size : Nat, value : SWord]

-----------------------------------------------------------------------------
(* integer_byte_width is between one octet and a whole word.               *)
LEMMA WidthBounds ==
  ASSUME NEW meta
  PROVE  integer_byte_width(meta) \in 1 .. WordOctets
<1>. DEFINE S == {WordOctets} \cup
                 {w \in {1, 2, 4, 8} : w <= WordOctets /\
                    IF meta.min >= 0 THEN meta.max < Weight[w]
                                     ELSE Fits(meta.min, w) /\ Fits(meta.max, w)}
<1>1. WordOctets \in 1 .. 8
  BY WordAssumption
<1>2. S \in SUBSET (1 .. WordOctets) /\ S # {}
  BY <1>1
<1>3. integer_byte_width(meta) = Min(S)
  BY DEF integer_byte_width
<1>. HIDE DEF S
<1>4. S \in SUBSET Nat
  BY <1>1, <1>2
<1>5. Min(S) \in S
  BY <1>2, <1>4, MinIsLeast
<1>. QED
  BY <1>2, <1>3, <1>5

(* A larger index needs no fewer octets, and every index needs at least 1. *)
LEMMA IndexWidthGrows ==
  ASSUME NEW m \in Int, NEW n \in Int, m <= n
  PROVE  /\ index_byte_width(m) \in {1, 2, 4} /\ index_byte_width(n) \in {1, 2, 4}
         /\ index_byte_width(m) <= index_byte_width(n)
<1>1. \A k \in Int : /\ k <= 255 => index_byte_width(k) = 1
                     /\ k > 255 /\ k <= 65535 => index_byte_width(k) = 2
                     /\ k > 65535 => index_byte_width(k) = 4
  <2>. TAKE k \in Int
  <2>1. CASE k <= 255
    BY <2>1 DEF index_byte_width
  <2>2. CASE k > 255 /\ k <= 65535
    BY <2>2 DEF index_byte_width
  <2>3. CASE k > 65535
    BY <2>3 DEF index_byte_width
  <2>. QED
    BY <2>1, <2>2, <2>3
<1>. QED
  BY <1>1

(* A length determinant is octets, also where the count is cut to 16 bits. *)
LEMMA DeterminantOctets ==
  ASSUME NEW n \in Nat
  PROVE  encode_length_determinant(n) \in Seq(Octet)
<1>1. n % 256 \in Octet /\ (n \div 256) % 256 \in Octet
  <2>1. n \div 256 \in Nat
    OBVIOUS
  <2>. QED
    BY <2>1 DEF Octet
<1>2. CASE n <= 127
  <2>1. encode_length_determinant(n) = <<n>>
    BY <1>2 DEF encode_length_determinant
  <2>2. n \in Octet
    BY <1>2 DEF Octet
  <2>. QED
    BY <2>1, <2>2
<1>3. CASE n > 127 /\ n <= 16383
  <2>1. 128 + n \div 256 \in Octet
    BY <1>3 DEF Octet
  <2>2. encode_length_determinant(n) = <<128 + n \div 256, n % 256>>
    BY <1>3 DEF encode_length_determinant
  <2>. QED
    BY <1>1, <2>1, <2>2
<1>4. CASE n > 16383
  <2>1. encode_length_determinant(n) = <<192, (n \div 256) % 256, n % 256>>
    BY <1>4 DEF encode_length_determinant
  <2>2. 192 \in Octet
    BY DEF Octet
  <2>. QED
    BY <1>1, <2>1, <2>2
<1>. QED
  BY <1>2, <1>3, <1>4

(* Eight bits make an octet. *)
LEMMA EightBits ==
  ASSUME NEW b \in [1 .. 8 -> 0 .. 1]
  PROVE  128 * b[1] + 64 * b[2] + 32 * b[3] + 16 * b[4]
         + 8 * b[5] + 4 * b[6] + 2 * b[7] + b[8] \in Octet
BY DEF Octet

(* The preamble of a SEQUENCE is whole octets of its bits.                 *)
LEMMA PreambleOctets ==
  ASSUME NEW ext \in BOOLEAN, NEW present \in Seq({0, 1})
  PROVE  preamble(ext, present) \in Seq(Octet)
<1>. DEFINE bits == (IF ext THEN <<0>> ELSE << >>) \o present
            bit(i, b) == IF 8 * i + b <= Len(bits) THEN bits[8 * i + b] ELSE 0
            octet(i) == 128 * bit(i, 1) + 64 * bit(i, 2) + 32 * bit(i, 3) + 16 * bit(i, 4)
                        + 8 * bit(i, 5) + 4 * bit(i, 6) + 2 * bit(i, 7) + bit(i, 8)
<1>1. bits \in Seq({0, 1})
  <2>1. (IF ext THEN <<0>> ELSE << >>) \in Seq({0, 1})
    <3>1. CASE ext
      BY <3>1
    <3>2. CASE ~ ext
      BY <3>2
    <3>. QED
      BY <3>1, <3>2
  <2>. QED
    BY <2>1
<1>2. preamble(ext, present) = [i \in 1 .. (Len(bits) + 7) \div 8 |-> octet(i - 1)]
  BY DEF preamble
<1>. HIDE DEF bits
<1>3. \A i \in Nat, b \in 1 .. 8 : bit(i, b) \in 0 .. 1
  BY <1>1
<1>. HIDE DEF bit
<1>4. \A i \in Nat : octet(i) \in Octet
  <2>. SUFFICES ASSUME NEW i \in Nat PROVE octet(i) \in Octet
    OBVIOUS
  <2>. DEFINE B == [k \in 1 .. 8 |-> bit(i, k)]
  <2>1. B \in [1 .. 8 -> 0 .. 1]
    BY <1>3
  <2>2. octet(i) = 128 * B[1] + 64 * B[2] + 32 * B[3] + 16 * B[4]
                   + 8 * B[5] + 4 * B[6] + 2 * B[7] + B[8]
    OBVIOUS
  <2>. HIDE DEF B, octet
  <2>. QED
    BY <2>1, <2>2, EightBits
<1>. HIDE DEF octet
<1>5. (Len(bits) + 7) \div 8 \in Nat
  BY <1>1
<1>6. \A i \in 1 .. (Len(bits) + 7) \div 8 : octet(i - 1) \in Octet
  BY <1>4, <1>5
<1>. QED
  BY <1>2, <1>5, <1>6

(* A number is written in as many octets as the width of its index.        *)
LEMMA IndexOctets ==
  ASSUME NEW v \in Int, NEW w \in {1, 2, 4}, w <= WordOctets
  PROVE  Octets(v, w) \in Seq(Octet) /\ Len(Octets(v, w)) = w
<1>1. w \in 0 .. WordOctets
  BY WordAssumption
<1>. QED
  BY <1>1, OctetsAreOctets

(* The contents of every well-typed call are octets.                       *)
LEMMA ContentsOctets ==
  ASSUME NEW call \in Calls
  PROVE  contents(call) \in Seq(Octet)
<1>1. call.op \in Operations /\ WellTyped(call)
  BY OerAssumption
<1>2. CASE call.op = "integer"
  <2>1. call.data[1] \in SWord /\ call.data[1] \in Int
    BY <1>1, <1>2, WordAssumption, WeightIsNat DEF WellTyped, SWord
  <2>2. integer_byte_width(call.meta) \in 0 .. WordOctets
    <3>1. integer_byte_width(call.meta) \in 1 .. WordOctets /\ WordOctets \in 1 .. 8
      BY WidthBounds, WordAssumption
    <3>. QED
      BY <3>1
  <2>3. Octets(call.data[1], integer_byte_width(call.meta)) \in Seq(Octet)
    BY <2>1, <2>2, OctetsAreOctets
  <2>4. encode_integer_bytes(call.data[1]) \in Seq(Octet)
    BY <2>1, IntegerOctets
  <2>5. contents(call) = IF call.meta.bounded
                           THEN Octets(call.data[1], integer_byte_width(call.meta))
                           ELSE encode_integer_bytes(call.data[1])
    BY <1>2 DEF contents
  <2>. QED
    BY <2>3, <2>4, <2>5
<1>3. CASE call.op \in {"enumerated", "choice_index"}
  <2>1. /\ call.data[1] \in Int /\ call.meta.max \in Int
        /\ index_byte_width(call.meta.max) <= WordOctets
    BY <1>1, <1>3 DEF WellTyped
  <2>2. index_byte_width(call.meta.max) \in {1, 2, 4}
    BY <2>1, IndexWidthGrows
  <2>3. contents(call) = Octets(call.data[1], index_byte_width(call.meta.max))
    BY <1>3 DEF contents
  <2>. QED
    BY <2>1, <2>2, <2>3, IndexOctets
<1>4. CASE call.op \in {"boolean", "octet_string", "oid"}
  <2>1. contents(call) = call.data
    BY <1>4 DEF contents
  <2>. QED
    BY <1>1, <1>4, <2>1 DEF WellTyped
<1>5. CASE call.op = "bit_string"
  <2>1. call.data \in Seq(Octet) /\ call.data # << >>
    BY <1>1, <1>5 DEF WellTyped
  <2>2. contents(call) = IF fixed(call.meta) THEN Tail(call.data) ELSE call.data
    BY <1>5 DEF contents
  <2>. QED
    BY <2>1, <2>2
<1>6. CASE call.op = "sequence_start"
  <2>1. call.meta.bounded \in BOOLEAN /\ call.data \in Seq({0, 1})
    BY <1>1, <1>6 DEF WellTyped
  <2>2. contents(call) = preamble(call.meta.bounded, call.data)
    BY <1>6 DEF contents
  <2>. QED
    BY <2>1, <2>2, PreambleOctets
<1>7. CASE call.op \in {"null", "sequence_end", "sequence_of_length"}
  <2>1. contents(call) = << >>
    BY <1>7 DEF contents
  <2>. QED
    BY <2>1
<1>. QED
  BY <1>1, <1>2, <1>3, <1>4, <1>5, <1>6, <1>7 DEF Operations

(* What a length determinant counts is a natural number. *)
LEMMA CountIsNat ==
  ASSUME NEW call \in Calls
  PROVE  count(call) \in Nat
<1>1. WellTyped(call) /\ contents(call) \in Seq(Octet)
  BY OerAssumption, ContentsOctets
<1>2. call.op = "sequence_of_length" => call.data[1] \in Nat
  BY <1>1 DEF WellTyped, UWord
<1>. QED
  BY <1>1, <1>2 DEF count

(* What precedes the contents, be it a length determinant or the length of *)
(* a constrained string, is octets; a constrained INTEGER has none of it.  *)
LEMMA PrefixOctets ==
  ASSUME NEW call \in Calls
  PROVE  prefix(call) \in Seq(Octet) /\ (constrained(call) => prefix(call) = << >>)
<1>1. call.op \in Operations /\ WellTyped(call) /\ contents(call) \in Seq(Octet)
  BY OerAssumption, ContentsOctets
<1>2. count(call) \in Nat
  BY CountIsNat
<1>3. CASE counted(call)
  <2>1. prefix(call) = encode_length_determinant(count(call))
    BY <1>3 DEF prefix
  <2>2. ~ constrained(call)
    BY <1>3 DEF counted, constrained
  <2>. QED
    BY <1>2, <2>1, <2>2, DeterminantOctets
<1>4. CASE ~ counted(call) /\ call.op \in {"octet_string", "bit_string"} /\ ~ fixed(call.meta)
  <2>1. prefix(call) = Octets(count(call), length_width(call))
    BY <1>4 DEF prefix
  <2>2. /\ call.meta.max \in Nat
        /\ index_byte_width(call.meta.max + 1) <= WordOctets
    BY <1>1, <1>4 DEF counted, WellTyped
  <2>. DEFINE m == index_byte_width(call.meta.max)
              n == index_byte_width(call.meta.max + 1)
  <2>3. m \in {1, 2, 4} /\ n \in {1, 2, 4} /\ m <= n /\ n <= WordOctets
    BY <2>2, IndexWidthGrows
  <2>. HIDE DEF m, n
  <2>4. length_width(call) \in {1, 2, 4} /\ length_width(call) <= WordOctets
    <3>1. Min({2, n}) \in {2, n} /\ Min({2, n}) <= n
      BY <2>3, MinIsLeast
    <3>2. length_width(call) = IF call.op = "octet_string" THEN m ELSE Min({2, n})
      BY DEF length_width, m, n
    <3>. DEFINE l == Min({2, n})
    <3>. HIDE DEF l
    <3>3. l \in {2, n} /\ l <= n
      BY <3>1 DEF l
    <3>4. length_width(call) = IF call.op = "octet_string" THEN m ELSE l
      BY <3>2 DEF l
    <3>. QED
      BY <2>3, <3>3, <3>4, WordAssumption
  <2>5. ~ constrained(call)
    BY <1>4 DEF constrained
  <2>. QED
    BY <1>2, <2>1, <2>4, <2>5, IndexOctets
<1>5. CASE ~ counted(call) /\ ~ (call.op \in {"octet_string", "bit_string"} /\ ~ fixed(call.meta))
  <2>1. prefix(call) = << >>
    BY <1>5 DEF prefix
  <2>. QED
    BY <2>1
<1>. QED
  BY <1>3, <1>4, <1>5

(* A constrained INTEGER is written in exactly the octets the room was     *)
(* checked for.                                                            *)
LEMMA ConstrainedPiece ==
  ASSUME NEW call \in Calls, constrained(call)
  PROVE  /\ Piece(call) \in Seq(Octet)
         /\ Len(Piece(call)) = integer_byte_width(call.meta)
<1>1. call.op = "integer" /\ call.meta.bounded /\ WellTyped(call)
  BY OerAssumption DEF constrained
<1>2. call.data[1] \in Int
  BY <1>1, WordAssumption, WeightIsNat DEF WellTyped, SWord
<1>3. integer_byte_width(call.meta) \in 0 .. WordOctets
  <2>1. integer_byte_width(call.meta) \in 1 .. WordOctets /\ WordOctets \in 1 .. 8
    BY WidthBounds, WordAssumption
  <2>. QED
    BY <2>1
<1>4. contents(call) = Octets(call.data[1], integer_byte_width(call.meta))
  BY <1>1 DEF contents
<1>5. Piece(call) = << >> \o contents(call) /\ contents(call) \in Seq(Octet)
  BY PrefixOctets, ContentsOctets DEF Piece
<1>. QED
  BY <1>2, <1>3, <1>4, <1>5, OctetsAreOctets

(* The checks that come before the room answer one of the error codes.     *)
LEMMA RefusalCode == ASSUME NEW call PROVE refusal(call) \in error_code
BY DEF refusal, error_code

-----------------------------------------------------------------------------
(* The batch is empty before the first call.                               *)
LEMMA InitIInv == OerInit => IInv
<1>. SUFFICES ASSUME OerInit PROVE IInv
  OBVIOUS
<1>1. /\ out = << >> /\ capacity \in Capacities /\ ret.err = "ok"
      /\ level \in SimdLevel /\ pending = << >>
  BY DEF OerInit
<1>2. capacity \in Nat
  BY <1>1, OerAssumption
<1>3. batch_size \in 1 .. kMaxBatchSize
  BY <1>1 DEF SimdLevel, batch_size, batch_width, kMaxBatchSize
<1>. QED
  BY <1>1, <1>2, <1>3 DEF IInv, TypeOK, BatchInBounds, error_code, kMaxBatchSize

(* A step that leaves the batch alone keeps its bounds.                    *)
LEMMA PendingKept ==
  ASSUME IInv, UNCHANGED <<level, pending>>,
         (out \in Seq(Octet) /\ capacity \in Capacities /\ Len(out) <= capacity)',
         ret'.err \in error_code
  PROVE  IInv'
<1>1. batch_size' = batch_size
  BY DEF batch_size
<1>. QED
  BY <1>1 DEF IInv, TypeOK, BatchInBounds

(* A call that is not batched succeeds exactly when it is well formed and  *)
(* its whole piece has room, although the room is checked in two parts.    *)
LEMMA PutError ==
  ASSUME IInv, NEW call \in Calls
  PROVE  /\ put_error(call) \in error_code
         /\ put_error(call) = "ok" <=> WellFormed(call) /\ Room(Len(Piece(call)))
<1>1. /\ prefix(call) \in Seq(Octet) /\ contents(call) \in Seq(Octet)
      /\ Piece(call) = prefix(call) \o contents(call)
  BY PrefixOctets, ContentsOctets DEF Piece
<1>2. /\ Len(prefix(call)) \in Nat /\ Len(Piece(call)) \in Nat
      /\ Len(prefix(call)) <= Len(Piece(call))
  BY <1>1
<1>3. out \in Seq(Octet) /\ capacity \in Nat
  BY OerAssumption DEF IInv, TypeOK
<1>4. Room(Len(Piece(call))) => Room(Len(prefix(call)))
  BY <1>2, <1>3 DEF Room
<1>5. refusal(call) \in error_code
  BY RefusalCode
<1>6. CASE refusal(call) # "ok"
  <2>1. put_error(call) = refusal(call)
    BY <1>6 DEF put_error
  <2>. QED
    BY <1>5, <1>6, <2>1 DEF WellFormed
<1>7. CASE refusal(call) = "ok" /\ counted(call) /\ Room(Len(prefix(call))) /\ count(call) > 65535
  <2>1. put_error(call) = "value_out_of_range"
    BY <1>7 DEF put_error
  <2>2. ~ (count(call) <= 65535)
    <3>1. count(call) \in Int
      BY CountIsNat
    <3>. QED
      BY <1>7, <3>1
  <2>. QED
    BY <1>7, <2>1, <2>2 DEF WellFormed, error_code
<1>8. CASE /\ refusal(call) = "ok"
           /\ ~ (counted(call) /\ Room(Len(prefix(call))) /\ count(call) > 65535)
  <2>1. put_error(call) = IF Room(Len(Piece(call))) THEN "ok" ELSE "buffer_overflow"
    BY <1>8 DEF put_error
  <2>2. Room(Len(Piece(call))) => WellFormed(call)
    <3>1. count(call) \in Int
      BY CountIsNat
    <3>. QED
      BY <1>4, <1>8, <3>1 DEF WellFormed
  <2>. QED
    BY <2>1, <2>2 DEF error_code
<1>. QED
  BY <1>6, <1>7, <1>8

(* A call that is not batched writes all of its piece or at most its count.*)
LEMMA PutStep ==
  ASSUME IInv, NEW call \in Calls, Put(call)
  PROVE  IInv' /\ WholePieceStep
<1>. DEFINE err == put_error(call)
            left == IF err = "buffer_overflow" /\ counted(call) /\ Room(Len(prefix(call)))
                      THEN prefix(call) ELSE << >>
<1>1. /\ err \in error_code
      /\ err = "ok" <=> WellFormed(call) /\ Room(Len(Piece(call)))
  BY PutError
<1>2. /\ prefix(call) \in Seq(Octet) /\ contents(call) \in Seq(Octet)
      /\ Piece(call) = prefix(call) \o contents(call)
  BY PrefixOctets, ContentsOctets DEF Piece
<1>3. Piece(call) \in Seq(Octet)
  BY <1>2
<1>4. /\ out \in Seq(Octet) /\ capacity \in Nat /\ capacity \in Capacities
      /\ Len(out) <= capacity
  BY OerAssumption DEF IInv, TypeOK
<1>5. /\ out' = out \o (IF err = "ok" THEN Piece(call) ELSE left)
      /\ ret' = [call |-> call, err |-> err]
      /\ capacity' = capacity /\ UNCHANGED <<level, pending>>
  BY DEF Put, Answer
<1>6. left \in Seq(Octet) /\ Room(Len(left))
  <2>1. Room(Len(<< >>)) /\ << >> \in Seq(Octet)
    BY <1>4 DEF Room
  <2>. QED
    BY <1>2, <2>1
<1>7. left = << >> \/ (counted(call) /\ left = prefix(call))
  OBVIOUS
<1>. HIDE DEF err, left
<1>8. CASE err = "ok"
  <2>1. out' = out \o Piece(call) /\ Room(Len(Piece(call)))
    BY <1>1, <1>5, <1>8
  <2>2. out' \in Seq(Octet) /\ Len(out') <= capacity
    BY <1>3, <1>4, <2>1 DEF Room
  <2>3. IInv'
    BY <1>1, <1>4, <1>5, <2>2, PendingKept
  <2>4. ret'.call = call /\ ret'.err = "ok"
    BY <1>5, <1>8
  <2>. QED
    BY <1>1, <1>8, <2>1, <2>3, <2>4 DEF WholePieceStep
<1>9. CASE err # "ok"
  <2>1. out' = out \o left
    BY <1>5, <1>9
  <2>2. out' \in Seq(Octet) /\ Len(out') <= capacity
    BY <1>4, <1>6, <2>1 DEF Room
  <2>3. IInv'
    BY <1>1, <1>4, <1>5, <2>2, PendingKept
  <2>4. out' = out \/ (counted(call) /\ out' = out \o prefix(call))
    <3>1. out \o << >> = out
      BY <1>4, ConcatEmptySeq
    <3>. QED
      BY <1>7, <2>1, <3>1
  <2>5. ret'.call = call /\ ret'.err # "ok"
    BY <1>5, <1>9
  <2>. QED
    BY <1>1, <1>9, <2>3, <2>4, <2>5 DEF WholePieceStep
<1>. QED
  BY <1>8, <1>9

(* A slot in bounds fails in a batch only if its value is not one of its   *)
(* width as a signed number.                                               *)
LEMMA SlotError ==
  ASSUME NEW s \in Slot, s.size \in 1 .. WordOctets
  PROVE  /\ encode_error(s) \in error_code
         /\ encode_error(s) # "ok" => ~ Fits(s.value, s.size)
<1>1. WordOctets \in Nat /\ s.size # 0 /\ ~ (s.size > WordOctets)
  BY WordAssumption
<1>. QED
  BY <1>1 DEF encode_error, error_code

(* A constrained INTEGER: refused, batched or the last of a full batch.    *)
LEMMA ConstrainedStep ==
  ASSUME IInv, NEW call \in Calls, constrained(call), encode_constrained_integer(call)
  PROVE  IInv' /\ WholePieceStep
<1>. DEFINE width  == integer_byte_width(call.meta)
            slot   == [size |-> width, value |-> call.data[1]]
            slots  == Append(pending, slot)
            full   == Len(slots) = batch_size
            errors == batch_encode_integers(slots)
            early  == CASE refusal(call) # "ok" -> refusal(call)
                        [] refusal(call) = "ok" -> IF Room(width) THEN "ok" ELSE "buffer_overflow"
            err    == IF early = "ok" /\ full THEN errors[Len(slots)] ELSE early
<1>1. /\ out \in Seq(Octet) /\ capacity \in Capacities /\ capacity \in Nat
      /\ Len(out) <= capacity /\ level \in SimdLevel
      /\ pending \in Seq(Slot)
  BY OerAssumption DEF IInv, TypeOK, Slot
<1>2. /\ Len(pending) < batch_size /\ batch_size <= kMaxBatchSize
      /\ batch_size \in 1 .. 4
      /\ \A i \in DOMAIN pending : pending[i].size \in 1 .. WordOctets
  BY <1>1 DEF IInv, BatchInBounds, SimdLevel, batch_size, batch_width
<1>3. width \in 1 .. WordOctets /\ WordOctets \in Nat
  BY WidthBounds, WordAssumption
<1>4. call.data[1] \in SWord /\ ~ counted(call)
  BY OerAssumption DEF WellTyped, constrained, counted
<1>5. slot \in Slot /\ slot.size = width /\ slot.value = call.data[1]
  BY <1>3, <1>4 DEF Slot
<1>6. /\ pending' = IF early # "ok" THEN pending ELSE IF full THEN << >> ELSE slots
      /\ out' = IF err = "ok" THEN out \o Piece(call) ELSE out
      /\ ret' = [call |-> call, err |-> err]
      /\ capacity' = capacity /\ level' = level
  BY DEF encode_constrained_integer, batch_full, Answer
<1>7. Piece(call) \in Seq(Octet) /\ Len(Piece(call)) = width
  BY ConstrainedPiece
<1>8. WellFormed(call) <=> refusal(call) = "ok"
  BY <1>4 DEF WellFormed
<1>9. early \in error_code /\ (early = "ok" <=> WellFormed(call) /\ Room(Len(Piece(call))))
  BY <1>7, <1>8, RefusalCode DEF error_code
<1>10. /\ slots \in Seq(Slot) /\ Len(slots) = Len(pending) + 1 /\ slots[Len(slots)] = slot
       /\ \A i \in DOMAIN slots : slots[i].size \in 1 .. WordOctets
  <2>. HIDE DEF slot, width
  <2>. QED
    BY <1>1, <1>2, <1>3, <1>5, AppendProperties
<1>11. errors[Len(slots)] = encode_error(slot)
  <2>. HIDE DEF slot
  <2>. QED
    BY <1>1, <1>10 DEF batch_encode_integers
<1>12. /\ encode_error(slot) \in error_code
       /\ encode_error(slot) # "ok" => top_bit_set(call)
  BY <1>3, <1>5, SlotError DEF top_bit_set
<1>. HIDE DEF slot, slots, errors, early, width
<1>13. err \in error_code
  BY <1>9, <1>11, <1>12
<1>14. pending' \in Seq(Slot) /\ BatchInBounds'
  <2>1. batch_size' = batch_size
    BY <1>6 DEF batch_size
  <2>2. pending' \in {pending, << >>, slots} /\ Len(pending') < batch_size
    BY <1>1, <1>2, <1>6, <1>10
  <2>3. pending' \in Seq(Slot)
    <3>1. << >> \in Seq(Slot)
      OBVIOUS
    <3>. QED
      BY <1>1, <1>10, <2>2, <3>1, Zenon
  <2>4. \A i \in DOMAIN pending' : pending'[i].size \in 1 .. WordOctets
    BY <1>2, <1>10, <2>2
  <2>5. Len(pending') < batch_size' /\ batch_size' <= kMaxBatchSize'
    BY <1>2, <2>1, <2>2 DEF kMaxBatchSize
  <2>. QED
    BY <2>3, <2>4, <2>5 DEF BatchInBounds
<1>. HIDE DEF full
<1>15. err = "ok" => early = "ok"
  OBVIOUS
<1>16. err # "ok" /\ early = "ok" => top_bit_set(call)
  BY <1>11, <1>12
<1>. HIDE DEF err
<1>17. out' \in Seq(Octet) /\ Len(out') <= capacity
  BY <1>1, <1>6, <1>7, <1>9, <1>15 DEF Room
<1>18. IInv'
  BY <1>1, <1>6, <1>13, <1>14, <1>17 DEF IInv, TypeOK, Slot
<1>19. WholePieceStep
  <2>1. ret'.call = call /\ ret'.err = err
    BY <1>6
  <2>. QED
    BY <1>6, <1>9, <1>15, <1>16, <2>1 DEF WholePieceStep
<1>. QED
  BY <1>18, <1>19

(* flush_encode answers the first error of the batch, if there is one.     *)
LEMMA FlushStep ==
  ASSUME IInv, flush_encode
  PROVE  IInv' /\ WholePieceStep
<1>. DEFINE errors == batch_encode_integers(pending)
            bad    == {i \in DOMAIN errors : errors[i] # "ok"}
<1>1. /\ pending \in Seq(Slot) /\ level \in SimdLevel
      /\ \A i \in DOMAIN pending : pending[i].size \in 1 .. WordOctets
  BY DEF IInv, TypeOK, BatchInBounds, Slot
<1>2. /\ ret' = [call |-> NoCall, err |-> first_error(errors)]
      /\ pending' = << >> /\ UNCHANGED <<out, capacity, level>>
  BY DEF flush_encode
<1>3. DOMAIN errors = DOMAIN pending /\ DOMAIN pending \in SUBSET Nat
  BY <1>1 DEF batch_encode_integers
<1>4. \A i \in DOMAIN pending : errors[i] \in error_code
  BY <1>1, SlotError DEF batch_encode_integers
<1>5. bad # {} => Min(bad) \in bad
  BY <1>3, MinIsLeast
<1>6. first_error(errors) = IF bad = {} THEN "ok" ELSE errors[Min(bad)]
  BY DEF first_error
<1>7. first_error(errors) \in error_code
  <2>. DEFINE m == Min(bad)
  <2>. HIDE DEF errors, m
  <2>. QED
    BY <1>3, <1>4, <1>5, <1>6 DEF error_code, m
<1>8. batch_size' = batch_size /\ batch_size \in 1 .. 4
  BY <1>1, <1>2 DEF batch_size, SimdLevel, batch_width
<1>. HIDE DEF errors
<1>9. IInv'
  BY <1>2, <1>7, <1>8 DEF IInv, TypeOK, BatchInBounds, kMaxBatchSize
<1>10. WholePieceStep
  <2>1. ret'.call = NoCall
    BY <1>2
  <2>. QED
    BY <2>1 DEF WholePieceStep
<1>. QED
  BY <1>9, <1>10

(* A new buffer finds the batch as the old one left it.                    *)
LEMMA NextBufferStep ==
  ASSUME IInv, next_buffer
  PROVE  IInv' /\ WholePieceStep
<1>1. /\ out' = << >> /\ capacity' \in Capacities
      /\ ret' = [call |-> NoCall, err |-> "ok"] /\ UNCHANGED <<level, pending>>
  BY DEF next_buffer
<1>2. capacity' \in Nat
  BY <1>1, OerAssumption
<1>3. IInv'
  BY <1>1, <1>2, PendingKept DEF error_code
<1>4. WholePieceStep
  <2>1. ret'.call = NoCall
    BY <1>1
  <2>. QED
    BY <2>1 DEF WholePieceStep
<1>. QED
  BY <1>3, <1>4

-----------------------------------------------------------------------------
(* Every step keeps the invariant and writes a whole piece or fails.       *)
LEMMA StepIInv ==
  IInv /\ [OerNext]_encoder_vars => IInv' /\ [WholePieceStep]_<<out, pending, ret>>
<1>. SUFFICES ASSUME IInv, [OerNext]_encoder_vars
              PROVE  IInv' /\ [WholePieceStep]_<<out, pending, ret>>
  OBVIOUS
<1>1. ASSUME NEW call \in Calls, Encode(call)
      PROVE  IInv' /\ WholePieceStep
  BY <1>1, ConstrainedStep, PutStep DEF Encode
<1>2. CASE flush_encode
  BY <1>2, FlushStep
<1>3. CASE next_buffer
  BY <1>3, NextBufferStep
<1>4. CASE UNCHANGED encoder_vars
  <2>1. UNCHANGED <<out, capacity, ret, level, pending>>
    BY <1>4 DEF encoder_vars
  <2>2. IInv'
    BY <2>1, PendingKept DEF IInv, TypeOK
  <2>. QED
    BY <2>1, <2>2
<1>. QED
  BY <1>1, <1>2, <1>3, <1>4 DEF OerNext

(* Every reachable state of oer_encoder satisfies the inductive invariant. *)
THEOREM OerInvariant == OerSpec => []IInv
<1>. QED
  BY InitIInv, StepIInv, PTL DEF OerSpec

(* The encoder writes octets, answers with its error codes and never       *)
(* overruns the buffer, though it checks the room of a counted value in    *)
(* two parts.                                                              *)
THEOREM OerTypeCorrect == OerSpec => []TypeOK
<1>1. IInv => TypeOK
  BY DEF IInv
<1>. QED
  BY <1>1, OerInvariant, PTL

(* push is never called on a full batch, also when batches fail, and no    *)
(* slot is wider than its value_buf: integer_byte_width bounds every       *)
(* instance of the template.                                               *)
THEOREM OerBatchInBounds == OerSpec => []BatchInBounds
<1>1. IInv => BatchInBounds
  BY DEF IInv
<1>. QED
  BY <1>1, OerInvariant, PTL

(* A call writes its whole piece or reports that it failed and leaves at   *)
(* most its count behind; a call whose value is in range and has room      *)
(* fails only as an unsigned INTEGER with its top bit set.                 *)
THEOREM OerWholePieces == OerSpec => WholePieceOrError
<1>. QED
  BY StepIInv, OerInvariant, PTL DEF OerSpec, WholePieceOrError

-----------------------------------------------------------------------------
(* Reading.  r is an answer of a read of some octets, q that of the same   *)
(* read with w behind them: it goes the same way, and w is left behind.    *)
SameWithMore(r, q, w) ==
  r.err = "ok" => q = Got("ok", r.data, r.rest \o w) /\ r.rest \in Seq(Octet)

(* What Got puts in an answer can be taken out of it.                      *)
LEMMA GotFields ==
  ASSUME NEW err, NEW data, NEW rest
  PROVE  LET g == Got(err, data, rest)
         IN  g.err = err /\ g.data = data /\ g.rest = rest
BY DEF Got

(* The octets in front are taken whole.                                    *)
LEMMA TakeOctetsReads ==
  ASSUME NEW s \in Seq(Octet), NEW rest \in Seq(Octet)
  PROVE  TakeOctets(s \o rest, Len(s)) = Got("ok", s, rest)
<1>1. ~ (Len(s \o rest) < Len(s))
  <2>1. Len(s \o rest) = Len(s) + Len(rest) /\ Len(s) \in Nat /\ Len(rest) \in Nat
    BY ConcatProperties, LenProperties
  <2>. QED
    BY <2>1
<1>2. Take(s \o rest, Len(s)) = s /\ Drop(s \o rest, Len(s)) = rest
  BY TakeDropConcat
<1>. QED
  BY <1>1, <1>2 DEF TakeOctets

(* What was taken of a part is what is taken of the whole.                 *)
LEMMA TakeOctetsMore ==
  ASSUME NEW v \in Seq(Octet), NEW w \in Seq(Octet), NEW n \in Nat
  PROVE  /\ SameWithMore(TakeOctets(v, n), TakeOctets(v \o w, n), w)
         /\ TakeOctets(v, n).err = "ok" =>
              TakeOctets(v, n).data \in Seq(Octet) /\ Len(TakeOctets(v, n).data) = n
<1>1. Len(v) \in Nat /\ Len(w) \in Nat /\ Len(v \o w) = Len(v) + Len(w)
  BY ConcatProperties, LenProperties
<1>2. CASE Len(v) < n
  BY <1>2, GotFields DEF TakeOctets, SameWithMore
<1>3. CASE ~ (Len(v) < n)
  <2>1. n \in 0 .. Len(v) /\ ~ (Len(v \o w) < n)
    BY <1>1, <1>3
  <2>2. /\ Take(v, n) \in Seq(Octet) /\ Len(Take(v, n)) = n /\ Drop(v, n) \in Seq(Octet)
        /\ Drop(v \o w, n) = Drop(v, n) \o w /\ Take(v \o w, n) = Take(v, n)
    BY <2>1, TakeProperties, DropConcat
  <2>3. TakeOctets(v, n) = Got("ok", Take(v, n), Drop(v, n))
    BY <1>3 DEF TakeOctets
  <2>4. TakeOctets(v \o w, n) = Got("ok", Take(v, n), Drop(v, n) \o w)
    BY <2>1, <2>2 DEF TakeOctets
  <2>5. /\ TakeOctets(v, n).err = "ok" /\ TakeOctets(v, n).data = Take(v, n)
        /\ TakeOctets(v, n).rest = Drop(v, n)
    BY <2>3, GotFields
  <2>. QED
    BY <2>2, <2>4, <2>5 DEF SameWithMore
<1>. QED
  BY <1>2, <1>3

(* A length determinant: its octets by the first of them, and its number.  *)
DeterminantSize(first) == IF first < 128 THEN 1 ELSE IF first < 192 THEN 2 ELSE 3

DeterminantNumber(v) ==
  IF v[1] < 128 THEN v[1]
  ELSE IF v[1] < 192 THEN 256 * (v[1] % 64) + v[2]
  ELSE 256 * v[2] + v[3]

(* A determinant is read when all of it is there, and only then.           *)
LEMMA DeterminantRead ==
  ASSUME NEW v \in Seq(Octet)
  PROVE  /\ v = << >> \/ Len(v) < DeterminantSize(v[1]) =>
              decode_length_determinant(v).err # "ok"
         /\ v # << >> /\ DeterminantSize(v[1]) <= Len(v) =>
              decode_length_determinant(v) =
                [err |-> "ok", length |-> DeterminantNumber(v),
                 rest |-> Drop(v, DeterminantSize(v[1]))]
<1>1. Len(v) \in Nat /\ (v = << >> <=> Len(v) = 0)
  BY LenProperties, EmptySeq
<1>2. CASE v = << >>
  <2>1. decode_length_determinant(v) = [err |-> "buffer_underflow", length |-> 0, rest |-> v]
    BY <1>2 DEF decode_length_determinant
  <2>2. decode_length_determinant(v).err = "buffer_underflow"
    BY <2>1
  <2>. QED
    BY <1>2, <2>2
<1>3. CASE v # << >>
  <2>. DEFINE f == v[1]
              k == CASE f < 128 -> 1 [] f \in 128 .. 191 -> 2 [] f > 191 -> 3
              n == CASE k = 1 -> f
                     [] k = 2 -> 256 * (f % 64) + v[2]
                     [] k = 3 -> 256 * v[2] + v[3]
  <2>1. f \in 0 .. 255
    <3>1. 1 \in 1 .. Len(v)
      BY <1>1, <1>3
    <3>. QED
      BY <3>1, ElementOfSeq DEF Octet
  <2>2. decode_length_determinant(v) =
          IF v = << >> \/ Len(v) < k
            THEN [err |-> "buffer_underflow", length |-> 0, rest |-> v]
            ELSE [err |-> "ok", length |-> n, rest |-> Drop(v, k)]
    BY DEF decode_length_determinant
  <2>. HIDE DEF f
  <2>3. k = DeterminantSize(f)
    <3>1. CASE f < 128
      <4>1. f \notin 128 .. 191 /\ ~ (f > 191)
        BY <2>1, <3>1
      <4>2. k = 1 /\ DeterminantSize(f) = 1
        BY <2>1, <3>1, <4>1 DEF DeterminantSize
      <4>. QED
        BY <4>2
    <3>2. CASE f >= 128 /\ f < 192
      <4>1. f \in 128 .. 191 /\ ~ (f < 128) /\ ~ (f > 191)
        BY <2>1, <3>2
      <4>2. k = 2 /\ DeterminantSize(f) = 2
        BY <2>1, <3>2, <4>1 DEF DeterminantSize
      <4>. QED
        BY <4>2
    <3>3. CASE f >= 192
      <4>1. f \notin 128 .. 191 /\ ~ (f < 128) /\ f > 191 /\ ~ (f < 192)
        BY <2>1, <3>3
      <4>2. k = 3 /\ DeterminantSize(f) = 3
        BY <2>1, <4>1 DEF DeterminantSize
      <4>. QED
        BY <4>2
    <3>4. f < 128 \/ (f >= 128 /\ f < 192) \/ f >= 192
      BY <2>1
    <3>. QED
      BY <3>1, <3>2, <3>3, <3>4, Zenon
  <2>. HIDE DEF k
  <2>4. n = DeterminantNumber(v)
    <3>1. n = IF f < 128 THEN f ELSE IF f < 192 THEN 256 * (f % 64) + v[2] ELSE 256 * v[2] + v[3]
      BY <2>1, <2>3 DEF DeterminantSize
    <3>. QED
      BY <3>1 DEF DeterminantNumber, f
  <2>. HIDE DEF n
  <2>5. k \in Nat /\ k = DeterminantSize(v[1])
    <3>1. k = DeterminantSize(v[1])
      BY <2>3 DEF f
    <3>. QED
      BY <2>3, <3>1 DEF DeterminantSize
  <2>6. CASE Len(v) < k
    <3>1. decode_length_determinant(v).err = "buffer_underflow" /\ ~ (k <= Len(v))
      BY <1>1, <2>2, <2>5, <2>6
    <3>. QED
      BY <2>5, <3>1
  <2>7. CASE ~ (Len(v) < k)
    BY <1>3, <2>2, <2>4, <2>5, <2>7
  <2>. QED
    BY <2>6, <2>7
<1>. QED
  BY <1>2, <1>3

(* A determinant has the octets its first one says, and their number is    *)
(* the count, when that is below 65536.                                    *)
LEMMA DeterminantWritten ==
  ASSUME NEW n \in Nat, n <= 65535
  PROVE  LET s == encode_length_determinant(n)
         IN  /\ s \in Seq(Octet) /\ Len(s) \in 1 .. 3
             /\ Len(s) = DeterminantSize(s[1]) /\ DeterminantNumber(s) = n
<1>1. encode_length_determinant(n) \in Seq(Octet)
  BY DeterminantOctets
<1>. DEFINE h == n \div 256
            l == n % 256
<1>0. h \in 0 .. 255 /\ n = 256 * h + l /\ l \in 0 .. 255
  OBVIOUS
<1>2. CASE n <= 127
  <2>1. encode_length_determinant(n) = <<n>>
    BY <1>2 DEF encode_length_determinant
  <2>. QED
    BY <1>1, <1>2, <2>1 DEF DeterminantSize, DeterminantNumber
<1>3. CASE n > 127 /\ n <= 16383
  <2>1. encode_length_determinant(n) = <<128 + h, l>>
    BY <1>3 DEF encode_length_determinant
  <2>2. h <= 63
    BY <1>3
  <2>. HIDE DEF h, l
  <2>3. (128 + h) % 64 = h
    BY <1>0, <2>2
  <2>. DEFINE f == 128 + h
              s == encode_length_determinant(n)
  <2>4. f \in Nat /\ ~ (f < 128) /\ f < 192
    BY <1>0, <2>2
  <2>5. s[1] = f /\ s[2] = l /\ Len(s) = 2
    BY <2>1
  <2>6. f % 64 = h
    BY <2>3
  <2>. HIDE DEF f, s
  <2>7. DeterminantSize(s[1]) = 2 /\ DeterminantNumber(s) = 256 * h + l
    BY <2>4, <2>5, <2>6 DEF DeterminantSize, DeterminantNumber
  <2>. QED
    BY <1>0, <1>1, <2>5, <2>7 DEF s, h, l
<1>4. CASE n > 16383
  <2>1. encode_length_determinant(n) = <<192, h % 256, l>>
    BY <1>4 DEF encode_length_determinant
  <2>2. h % 256 = h
    <3>. HIDE DEF h, l
    <3>. QED
      BY <1>0
  <2>. DEFINE s == encode_length_determinant(n)
  <2>. HIDE DEF h, l
  <2>5. s[1] = 192 /\ s[2] = h /\ s[3] = l /\ Len(s) = 3
    BY <2>1, <2>2
  <2>. HIDE DEF s
  <2>6. DeterminantSize(s[1]) = 3 /\ DeterminantNumber(s) = 256 * h + l
    BY <2>5 DEF DeterminantSize, DeterminantNumber
  <2>. QED
    BY <1>0, <1>1, <2>5, <2>6 DEF s, h, l
<1>. QED
  BY <1>2, <1>3, <1>4

(* With more behind it, a sequence starts with the same elements.          *)
LEMMA FrontOfConcat ==
  ASSUME NEW S, NEW s \in Seq(S), NEW t \in Seq(S)
  PROVE  /\ s \o t \in Seq(S) /\ Len(s) \in Nat /\ Len(s) <= Len(s \o t)
         /\ \A i \in 1 .. Len(s) : (s \o t)[i] = s[i]
<1>1. Len(s) \in Nat /\ Len(t) \in Nat
  BY LenProperties
<1>2. \A i \in 1 .. Len(s) : i \in 1 .. Len(s) + Len(t) /\ i <= Len(s)
  BY <1>1
<1>3. /\ s \o t \in Seq(S) /\ Len(s \o t) = Len(s) + Len(t)
      /\ \A i \in 1 .. Len(s) + Len(t) : (s \o t)[i] = IF i <= Len(s) THEN s[i] ELSE t[i - Len(s)]
  BY ConcatProperties
<1>4. \A i \in 1 .. Len(s) : (s \o t)[i] = s[i]
  BY <1>2, <1>3, Zenon
<1>. QED
  BY <1>1, <1>3, <1>4

(* The octets of a determinant that are there are all that is looked at.   *)
LEMMA DeterminantFront ==
  ASSUME NEW v \in Seq(Octet), NEW w \in Seq(Octet), v # << >>, DeterminantSize(v[1]) <= Len(v)
  PROVE  /\ decode_length_determinant(v \o w) =
              [err |-> "ok", length |-> DeterminantNumber(v),
               rest |-> Drop(v, DeterminantSize(v[1])) \o w]
         /\ DeterminantNumber(v) \in Nat /\ Drop(v, DeterminantSize(v[1])) \in Seq(Octet)
<1>. DEFINE k   == DeterminantSize(v[1])
            all == v \o w
            m   == Len(v)
<1>1. m \in Nat /\ (v = << >> <=> m = 0)
  BY LenProperties, EmptySeq
<1>2. k \in 1 .. 3 /\ k <= m
  BY DEF DeterminantSize
<1>3. /\ all \in Seq(Octet) /\ m <= Len(all) /\ Len(all) \in Nat
      /\ \A i \in 1 .. m : all[i] = v[i] /\ v[i] \in Nat
  <2>1. all \in Seq(Octet) /\ m <= Len(all) /\ \A i \in 1 .. m : all[i] = v[i]
    BY FrontOfConcat
  <2>2. \A i \in 1 .. m : v[i] \in Nat
    BY ElementOfSeq, OctetIsNat
  <2>3. Len(all) \in Nat
    BY <2>1, LenProperties
  <2>. QED
    BY <2>1, <2>2, <2>3
<1>4. Drop(v, k) \in Seq(Octet) /\ Drop(all, k) = Drop(v, k) \o w
  <2>1. k \in 0 .. Len(v)
    BY <1>1, <1>2
  <2>. HIDE DEF k
  <2>. QED
    BY <2>1, TakeProperties, DropConcat
<1>. DEFINE a == v[1]
            b == v[2]
            c == v[3]
<1>. HIDE DEF all, m
<1>5. a \in Nat /\ all[1] = a /\ all # << >> /\ k <= Len(all)
  <2>1. 1 \in 1 .. m /\ k <= Len(all) /\ Len(all) # 0
    <3>. HIDE DEF k
    <3>. QED
      BY <1>1, <1>2, <1>3
  <2>. QED
    BY <1>3, <2>1, EmptySeq
<1>6. /\ k >= 2 => b \in Nat /\ all[2] = b
      /\ k >= 3 => c \in Nat /\ all[3] = c
  <2>1. (k >= 2 => 2 \in 1 .. m) /\ (k >= 3 => 3 \in 1 .. m)
    <3>. HIDE DEF k
    <3>. QED
      BY <1>1, <1>2
  <2>. QED
    BY <1>3, <2>1
<1>7. /\ k = IF a < 128 THEN 1 ELSE IF a < 192 THEN 2 ELSE 3
      /\ DeterminantNumber(v) = IF a < 128 THEN a ELSE IF a < 192 THEN 256 * (a % 64) + b
                                ELSE 256 * b + c
      /\ DeterminantNumber(all) =
           IF all[1] < 128 THEN all[1] ELSE IF all[1] < 192 THEN 256 * (all[1] % 64) + all[2]
           ELSE 256 * all[2] + all[3]
  BY DEF DeterminantSize, DeterminantNumber
<1>8. all[1] = v[1]
  BY <1>5
<1>. HIDE DEF a, b, c, k
<1>9. DeterminantNumber(all) = DeterminantNumber(v) /\ DeterminantNumber(v) \in Nat
  <2>1. CASE a < 128
    BY <1>5, <1>6, <1>7, <2>1
  <2>2. CASE ~ (a < 128) /\ a < 192
    <3>1. k = 2 /\ a % 64 \in Nat
      BY <1>5, <1>7, <2>2
    <3>. QED
      BY <1>5, <1>6, <1>7, <2>2, <3>1
  <2>3. CASE ~ (a < 128) /\ ~ (a < 192)
    <3>1. k = 3
      BY <1>5, <1>7, <2>3
    <3>. QED
      BY <1>5, <1>6, <1>7, <2>3, <3>1
  <2>. QED
    BY <2>1, <2>2, <2>3
<1>10. DeterminantSize(all[1]) = k
  BY <1>8 DEF k
<1>11. decode_length_determinant(all) = [err |-> "ok", length |-> DeterminantNumber(all), rest |-> Drop(all, k)]
  BY <1>3, <1>5, <1>10, DeterminantRead
<1>. QED
  BY <1>4, <1>9, <1>11 DEF all, k

(* A count below 65536 is read as it was written.                          *)
LEMMA DeterminantReadBack ==
  ASSUME NEW n \in Nat, n <= 65535, NEW rest \in Seq(Octet)
  PROVE  decode_length_determinant(encode_length_determinant(n) \o rest) =
           [err |-> "ok", length |-> n, rest |-> rest]
<1>. DEFINE s == encode_length_determinant(n)
<1>1. /\ s \in Seq(Octet) /\ Len(s) \in 1 .. 3
      /\ Len(s) = DeterminantSize(s[1]) /\ DeterminantNumber(s) = n
  BY DeterminantWritten
<1>. HIDE DEF s
<1>2. s # << >> /\ DeterminantSize(s[1]) <= Len(s)
  BY <1>1
<1>3. Drop(s, Len(s)) \o rest = rest
  <2>1. Drop(s, Len(s)) = << >>
    <3>1. Len(s) \in 0 .. Len(s)
      BY <1>1
    <3>2. Drop(s, Len(s)) \in Seq(Octet) /\ Len(Drop(s, Len(s))) = 0
      BY <1>1, <3>1, TakeProperties
    <3>. QED
      BY <3>2, EmptySeq
  <2>. QED
    BY <2>1, ConcatEmptySeq
<1>4. DeterminantNumber(s) = n /\ DeterminantSize(s[1]) = Len(s)
  BY <1>1
<1>5. decode_length_determinant(s \o rest) =
        [err |-> "ok", length |-> DeterminantNumber(s), rest |-> Drop(s, DeterminantSize(s[1])) \o rest]
  BY <1>1, <1>2, DeterminantFront
<1>6. decode_length_determinant(s \o rest) = [err |-> "ok", length |-> n, rest |-> rest]
  BY <1>3, <1>4, <1>5
<1>. QED
  BY <1>6 DEF s

(* A determinant that is there is the same with more behind it.            *)
LEMMA DeterminantMore ==
  ASSUME NEW v \in Seq(Octet), NEW w \in Seq(Octet), decode_length_determinant(v).err = "ok"
  PROVE  LET d == decode_length_determinant(v)
         IN  /\ d.length \in Nat /\ d.rest \in Seq(Octet)
             /\ decode_length_determinant(v \o w) =
                  [err |-> "ok", length |-> d.length, rest |-> d.rest \o w]
<1>. DEFINE k == DeterminantSize(v[1])
            n == DeterminantNumber(v)
<1>1. v # << >> /\ ~ (Len(v) < k)
  BY DeterminantRead
<1>2. k <= Len(v)
  <2>1. k \in Nat /\ Len(v) \in Nat
    BY LenProperties DEF DeterminantSize
  <2>. HIDE DEF k
  <2>. QED
    BY <1>1, <2>1
<1>3. decode_length_determinant(v) = [err |-> "ok", length |-> n, rest |-> Drop(v, k)]
  BY <1>1, <1>2, DeterminantRead
<1>4. /\ decode_length_determinant(v \o w) = [err |-> "ok", length |-> n, rest |-> Drop(v, k) \o w]
      /\ n \in Nat /\ Drop(v, k) \in Seq(Octet)
  BY <1>1, <1>2, DeterminantFront
<1>. HIDE DEF k, n
<1>. QED
  BY <1>3, <1>4

(* The answer with more behind it, part by part.                           *)
LEMMA MoreFields ==
  ASSUME NEW r, NEW q, NEW w, SameWithMore(r, q, w), r.err = "ok"
  PROVE  q.err = "ok" /\ q.data = r.data /\ q.rest = r.rest \o w /\ r.rest \in Seq(Octet)
<1>. DEFINE data == r.data
            rest == r.rest \o w
<1>1. q = Got("ok", data, rest) /\ r.rest \in Seq(Octet)
  BY DEF SameWithMore
<1>. HIDE DEF data, rest
<1>2. q.err = "ok" /\ q.data = data /\ q.rest = rest
  BY <1>1, GotFields
<1>. QED
  BY <1>1, <1>2 DEF data, rest

(* The octets a determinant counts are the same with more behind them.     *)
LEMMA CountedMore ==
  ASSUME NEW v \in Seq(Octet), NEW w \in Seq(Octet)
  PROVE  SameWithMore(TakeCounted(v), TakeCounted(v \o w), w)
<1>. DEFINE d == decode_length_determinant(v)
            e == decode_length_determinant(v \o w)
<1>1. CASE d.err # "ok"
  <2>1. TakeCounted(v).err # "ok"
    BY <1>1, GotFields DEF TakeCounted
  <2>. QED
    BY <2>1 DEF SameWithMore
<1>2. CASE d.err = "ok"
  <2>1. /\ d.length \in Nat /\ d.rest \in Seq(Octet)
        /\ e = [err |-> "ok", length |-> d.length, rest |-> d.rest \o w]
    BY <1>2, DeterminantMore
  <2>2. e.err = "ok" /\ e.length = d.length /\ e.rest = d.rest \o w
    BY <2>1
  <2>3. TakeCounted(v) = TakeOctets(d.rest, d.length) /\ TakeCounted(v \o w) = TakeOctets(e.rest, e.length)
    BY <1>2, <2>2 DEF TakeCounted
  <2>. HIDE DEF d, e
  <2>. QED
    BY <2>1, <2>2, <2>3, TakeOctetsMore
<1>. QED
  BY <1>1, <1>2

(* What is made of the octets of a constrained INTEGER does not depend on  *)
(* what is left.                                                           *)
LEMMA ConstrainedValueMore ==
  ASSUME NEW meta, NEW r, NEW q, NEW w, SameWithMore(r, q, w)
  PROVE  SameWithMore(constrained_value(meta, r), constrained_value(meta, q), w)
<1>. DEFINE n   == as_int64(meta, r.data)
            bad == meta.min < 0 /\ n \notin meta.min .. meta.max
<1>1. CASE r.err # "ok"
  <2>1. constrained_value(meta, r).err # "ok"
    BY <1>1 DEF constrained_value
  <2>. QED
    BY <2>1 DEF SameWithMore
<1>2. CASE r.err = "ok" /\ bad
  <2>1. constrained_value(meta, r).err # "ok"
    BY <1>2, GotFields DEF constrained_value
  <2>. QED
    BY <2>1 DEF SameWithMore
<1>3. CASE r.err = "ok" /\ ~ bad
  <2>1. q = Got("ok", r.data, r.rest \o w) /\ r.rest \in Seq(Octet)
    BY <1>3 DEF SameWithMore
  <2>2. q.err = "ok" /\ q.data = r.data /\ q.rest = r.rest \o w
    BY <1>3, MoreFields
  <2>3. constrained_value(meta, r) = Got("ok", <<n>>, r.rest)
    BY <1>3 DEF constrained_value
  <2>4. constrained_value(meta, q) = Got("ok", <<n>>, r.rest \o w)
    BY <1>3, <2>2 DEF constrained_value
  <2>. HIDE DEF n
  <2>. QED
    BY <2>1, <2>3, <2>4, GotFields DEF SameWithMore
<1>. QED
  BY <1>1, <1>2, <1>3

(* An INTEGER of any size is the same with more behind it.                 *)
LEMMA UnconstrainedMore ==
  ASSUME NEW v \in Seq(Octet), NEW w \in Seq(Octet)
  PROVE  SameWithMore(unconstrained_value(decode_length_determinant(v)),
                      unconstrained_value(decode_length_determinant(v \o w)), w)
<1>. DEFINE d == decode_length_determinant(v)
            e == decode_length_determinant(v \o w)
            r == unconstrained_value(d)
<1>. SUFFICES ASSUME r.err = "ok"
              PROVE  SameWithMore(r, unconstrained_value(e), w)
  BY DEF SameWithMore
<1>0. WordOctets \in Nat
  BY WordAssumption
<1>1. d.err = "ok"
  <2>1. d.err # "ok" => r = Got(d.err, << >>, d.rest)
    <3>. HIDE DEF d
    <3>. QED
      BY DEF unconstrained_value
  <2>. QED
    BY <2>1, GotFields
<1>2. /\ d.length \in Nat /\ d.rest \in Seq(Octet)
      /\ e = [err |-> "ok", length |-> d.length, rest |-> d.rest \o w]
  BY <1>1, DeterminantMore
<1>3. e.err = "ok" /\ e.length = d.length /\ e.rest = d.rest \o w
  BY <1>2
<1>. HIDE DEF d, e
<1>4. d.length # 0
  <2>1. d.length = 0 => r = Got("invalid_length", << >>, d.rest)
    BY <1>0, <1>1 DEF unconstrained_value
  <2>. QED
    BY <2>1, GotFields
<1>5. ~ (d.length > WordOctets)
  <2>1. d.length > WordOctets => r = Got("value_out_of_range", << >>, d.rest)
    BY <1>0, <1>1, <1>2, <1>4 DEF unconstrained_value
  <2>. QED
    BY <2>1, GotFields
<1>6. d.length \in 1 .. WordOctets
  BY <1>0, <1>2, <1>4, <1>5
<1>. DEFINE c == TakeOctets(d.rest, d.length)
            f == TakeOctets(d.rest \o w, d.length)
<1>7. r = IF c.err = "ok" THEN Got("ok", <<decode_integer_value(c.data)>>, c.rest) ELSE c
  BY <1>1, <1>4, <1>5, <1>6 DEF unconstrained_value
<1>8. unconstrained_value(e) =
        IF f.err = "ok" THEN Got("ok", <<decode_integer_value(f.data)>>, f.rest) ELSE f
  BY <1>3, <1>4, <1>5, <1>6 DEF unconstrained_value
<1>9. SameWithMore(c, f, w)
  BY <1>2, TakeOctetsMore
<1>. HIDE DEF c, f, r
<1>10. c.err = "ok"
  BY <1>7 DEF r
<1>11. f = Got("ok", c.data, c.rest \o w) /\ c.rest \in Seq(Octet)
  BY <1>9, <1>10 DEF SameWithMore
<1>12. f.err = "ok" /\ f.data = c.data /\ f.rest = c.rest \o w
  BY <1>9, <1>10, MoreFields
<1>. DEFINE n == decode_integer_value(c.data)
<1>13. r = Got("ok", <<n>>, c.rest) /\ unconstrained_value(e) = Got("ok", <<n>>, c.rest \o w)
  BY <1>7, <1>8, <1>10, <1>12
<1>. HIDE DEF n
<1>. QED
  BY <1>11, <1>13, GotFields DEF SameWithMore

(* An OCTET STRING is the same with more behind it.                        *)
LEMMA OctetStringMore ==
  ASSUME NEW meta, meta.max \in Nat \/ ~ meta.bounded, NEW v \in Seq(Octet), NEW w \in Seq(Octet)
  PROVE  SameWithMore(decode_octet_string(meta, v), decode_octet_string(meta, v \o w), w)
<1>1. CASE fixed(meta)
  <2>1. meta.min \in Nat
    BY <1>1 DEF fixed
  <2>2. \A x : decode_octet_string(meta, x) = TakeOctets(x, meta.min)
    BY <1>1 DEF decode_octet_string, fixed
  <2>. QED
    BY <2>1, <2>2, TakeOctetsMore
<1>2. CASE ~ meta.bounded
  <2>1. \A x : decode_octet_string(meta, x) = TakeCounted(x)
    BY <1>2 DEF decode_octet_string, fixed
  <2>. QED
    BY <2>1, CountedMore
<1>3. CASE meta.bounded /\ ~ fixed(meta)
  <2>. DEFINE k    == index_byte_width(meta.max)
              h    == TakeOctets(v, k)
              g    == TakeOctets(v \o w, k)
              n    == Unsigned(h.data)
              r    == decode_octet_string(meta, v)
  <2>1. k \in Nat
    <3>1. k \in {1, 2, 4}
      BY <1>3, IndexWidthGrows
    <3>. QED
      BY <3>1
  <2>2. /\ r = IF h.err # "ok" THEN h
               ELSE IF n \notin meta.min .. meta.max THEN Got("constraint_violation", << >>, h.rest)
               ELSE TakeOctets(h.rest, n)
        /\ decode_octet_string(meta, v \o w) =
             IF g.err # "ok" THEN g
             ELSE IF Unsigned(g.data) \notin meta.min .. meta.max
               THEN Got("constraint_violation", << >>, g.rest)
             ELSE TakeOctets(g.rest, Unsigned(g.data))
    BY <1>3 DEF decode_octet_string
  <2>3. SameWithMore(h, g, w) /\ (h.err = "ok" => h.data \in Seq(Octet))
    BY <2>1, TakeOctetsMore
  <2>. HIDE DEF r, h, g, k
  <2>. SUFFICES ASSUME r.err = "ok" PROVE SameWithMore(r, decode_octet_string(meta, v \o w), w)
    BY DEF SameWithMore, r
  <2>4. h.err = "ok" /\ ~ (n \notin meta.min .. meta.max) /\ r = TakeOctets(h.rest, n)
    BY <2>2, GotFields
  <2>5. g = Got("ok", h.data, h.rest \o w) /\ h.rest \in Seq(Octet)
    BY <2>3, <2>4 DEF SameWithMore
  <2>6. g.err = "ok" /\ g.data = h.data /\ g.rest = h.rest \o w
    BY <2>3, <2>4, MoreFields
  <2>7. decode_octet_string(meta, v \o w) = TakeOctets(h.rest \o w, n)
    BY <2>2, <2>4, <2>6
  <2>8. n \in Nat
    BY <2>3, <2>4, UnsignedIsNat
  <2>. HIDE DEF n
  <2>. QED
    BY <2>4, <2>5, <2>7, <2>8, TakeOctetsMore
<1>. QED
  BY <1>1, <1>2, <1>3 DEF fixed

(* So is a BIT STRING.                                                     *)
LEMMA BitStringMore ==
  ASSUME NEW meta, meta.max \in Nat \/ ~ meta.bounded, NEW v \in Seq(Octet), NEW w \in Seq(Octet)
  PROVE  SameWithMore(decode_bit_string(meta, v), decode_bit_string(meta, v \o w), w)
<1>1. CASE fixed(meta)
  <2>. DEFINE f == TakeOctets(v, meta.min)
              g == TakeOctets(v \o w, meta.min)
  <2>1. meta.min \in Nat
    BY <1>1 DEF fixed
  <2>2. /\ decode_bit_string(meta, v) =
             IF f.err = "ok" THEN Got("ok", <<0>> \o f.data, f.rest) ELSE f
        /\ decode_bit_string(meta, v \o w) =
             IF g.err = "ok" THEN Got("ok", <<0>> \o g.data, g.rest) ELSE g
    BY <1>1 DEF decode_bit_string
  <2>3. SameWithMore(f, g, w)
    BY <2>1, TakeOctetsMore
  <2>. HIDE DEF f, g
  <2>4. CASE f.err # "ok"
    BY <2>2, <2>4 DEF SameWithMore
  <2>5. CASE f.err = "ok"
    <3>1. g = Got("ok", f.data, f.rest \o w) /\ f.rest \in Seq(Octet)
      BY <2>3, <2>5 DEF SameWithMore
    <3>2. g.err = "ok" /\ g.data = f.data /\ g.rest = f.rest \o w
      BY <2>3, <2>5, MoreFields
    <3>. DEFINE data == <<0>> \o f.data
    <3>3. /\ decode_bit_string(meta, v) = Got("ok", data, f.rest)
          /\ decode_bit_string(meta, v \o w) = Got("ok", data, f.rest \o w)
      BY <2>2, <2>5, <3>2
    <3>. HIDE DEF data
    <3>. QED
      BY <3>1, <3>3, GotFields DEF SameWithMore
  <2>. QED
    BY <2>4, <2>5
<1>2. CASE ~ fixed(meta)
  <2>. DEFINE d == decode_length_determinant(v)
              e == decode_length_determinant(v \o w)
              r == decode_bit_string(meta, v)
              q == decode_bit_string(meta, v \o w)
  <2>1. /\ r = IF d.err = "ok" /\ d.length < 1 THEN Got("invalid_length", << >>, d.rest)
               ELSE TakeCounted(v)
        /\ q = IF e.err = "ok" /\ e.length < 1 THEN Got("invalid_length", << >>, e.rest)
               ELSE TakeCounted(v \o w)
    BY <1>2 DEF decode_bit_string
  <2>2. d.err = "ok" => e.length = d.length
    <3>1. d.err = "ok" => e = [err |-> "ok", length |-> d.length, rest |-> d.rest \o w]
      BY DeterminantMore
    <3>. QED
      BY <3>1
  <2>3. TakeCounted(v).err = "ok" => d.err = "ok"
    BY GotFields DEF TakeCounted
  <2>4. SameWithMore(TakeCounted(v), TakeCounted(v \o w), w)
    BY CountedMore
  <2>. HIDE DEF d, e, r, q
  <2>5. CASE r.err = "ok"
    <3>1. r = TakeCounted(v) /\ ~ (d.err = "ok" /\ d.length < 1)
      BY <2>1, <2>5, GotFields
    <3>2. d.err = "ok" /\ ~ (e.length < 1)
      BY <2>2, <2>3, <2>5, <3>1
    <3>3. q = TakeCounted(v \o w)
      BY <2>1, <3>2
    <3>. QED
      BY <2>4, <3>1, <3>3 DEF r, q
  <2>6. CASE r.err # "ok"
    BY <2>6 DEF SameWithMore, r
  <2>. QED
    BY <2>5, <2>6
<1>. QED
  BY <1>1, <1>2

(* A decoder, asked for the element a call stands for, answers the same    *)
(* with more octets behind those it needs.                                 *)
LEMMA DecodeMore ==
  ASSUME NEW call \in Calls, Meant(call), NEW v \in Seq(Octet), NEW w \in Seq(Octet)
  PROVE  SameWithMore(Decode(call, v), Decode(call, v \o w), w)
<1>0. call.op \in Operations /\ WellTyped(call) /\ contents(call) \in Seq(Octet)
  BY OerAssumption, ContentsOctets
<1>1. CASE call.op = "integer"
  <2>. DEFINE k == integer_byte_width(call.meta)
  <2>1. \A x : Decode(call, x) =
           IF call.meta.bounded THEN constrained_value(call.meta, TakeOctets(x, k))
           ELSE unconstrained_value(decode_length_determinant(x))
    BY <1>1, SMT DEF Decode, decode_integer
  <2>2. k \in Nat
    BY WidthBounds, WordAssumption
  <2>. HIDE DEF k
  <2>3. SameWithMore(TakeOctets(v, k), TakeOctets(v \o w, k), w)
    BY <2>2, TakeOctetsMore
  <2>4. CASE call.meta.bounded
    BY <2>1, <2>3, <2>4, ConstrainedValueMore
  <2>5. CASE ~ call.meta.bounded
    BY <2>1, <2>5, UnconstrainedMore
  <2>. QED
    BY <2>4, <2>5
<1>2. CASE call.op \in {"enumerated", "choice_index"}
  <2>. DEFINE k == index_byte_width(call.meta.max)
              r == TakeOctets(v, k)
              q == TakeOctets(v \o w, k)
  <2>1. \A x : Decode(call, x) = decode_index(call.meta, x)
    <3>1. CASE call.op = "enumerated"
      BY <3>1, SMT DEF Decode
    <3>2. CASE call.op = "choice_index"
      BY <3>2, SMT DEF Decode
    <3>. QED
      BY <1>2, <3>1, <3>2
  <2>2. /\ Decode(call, v) = IF r.err = "ok" THEN Got("ok", <<Unsigned(r.data)>>, r.rest) ELSE r
        /\ Decode(call, v \o w) = IF q.err = "ok" THEN Got("ok", <<Unsigned(q.data)>>, q.rest) ELSE q
    BY <2>1 DEF decode_index
  <2>3. k \in Nat
    <3>1. call.meta.max \in Int
      BY <1>0, <1>2 DEF WellTyped
    <3>2. k \in {1, 2, 4}
      BY <3>1, IndexWidthGrows
    <3>. QED
      BY <3>2
  <2>. HIDE DEF k
  <2>4. SameWithMore(r, q, w)
    BY <2>3, TakeOctetsMore
  <2>. HIDE DEF r, q
  <2>5. CASE r.err # "ok"
    BY <2>2, <2>5 DEF SameWithMore
  <2>6. CASE r.err = "ok"
    <3>1. q.err = "ok" /\ q.data = r.data /\ q.rest = r.rest \o w /\ r.rest \in Seq(Octet)
      BY <2>4, <2>6, MoreFields
    <3>. DEFINE data == <<Unsigned(r.data)>>
    <3>2. Decode(call, v) = Got("ok", data, r.rest) /\ Decode(call, v \o w) = Got("ok", data, r.rest \o w)
      BY <2>2, <2>6, <3>1
    <3>. HIDE DEF data
    <3>. QED
      BY <3>1, <3>2, GotFields DEF SameWithMore
  <2>. QED
    BY <2>5, <2>6
<1>3. CASE call.op = "boolean"
  <2>. DEFINE r == TakeOctets(v, 1)
              q == TakeOctets(v \o w, 1)
  <2>1. \A x : Decode(call, x) = decode_boolean(x)
    BY <1>3, SMT DEF Decode
  <2>2. /\ Decode(call, v) =
             IF r.err = "ok" THEN Got("ok", <<IF r.data[1] # 0 THEN 255 ELSE 0>>, r.rest) ELSE r
        /\ Decode(call, v \o w) =
             IF q.err = "ok" THEN Got("ok", <<IF q.data[1] # 0 THEN 255 ELSE 0>>, q.rest) ELSE q
    BY <2>1 DEF decode_boolean
  <2>3. SameWithMore(r, q, w)
    BY TakeOctetsMore
  <2>. HIDE DEF r, q
  <2>4. CASE r.err # "ok"
    BY <2>2, <2>4 DEF SameWithMore
  <2>5. CASE r.err = "ok"
    <3>1. q.err = "ok" /\ q.data = r.data /\ q.rest = r.rest \o w /\ r.rest \in Seq(Octet)
      BY <2>3, <2>5, MoreFields
    <3>. DEFINE data == <<IF r.data[1] # 0 THEN 255 ELSE 0>>
    <3>2. Decode(call, v) = Got("ok", data, r.rest) /\ Decode(call, v \o w) = Got("ok", data, r.rest \o w)
      BY <2>2, <2>5, <3>1
    <3>. HIDE DEF data
    <3>. QED
      BY <3>1, <3>2, GotFields DEF SameWithMore
  <2>. QED
    BY <2>4, <2>5
<1>4. CASE call.op \in {"null", "sequence_end"}
  <2>. DEFINE data == << >>
  <2>1. \A x : Decode(call, x) = Got("ok", data, x)
    <3>1. CASE call.op = "null"
      BY <3>1, SMT DEF Decode
    <3>2. CASE call.op = "sequence_end"
      BY <3>2, SMT DEF Decode
    <3>. QED
      BY <1>4, <3>1, <3>2
  <2>. HIDE DEF data
  <2>2. Decode(call, v) = Got("ok", data, v) /\ Decode(call, v \o w) = Got("ok", data, v \o w)
    BY <2>1
  <2>. QED
    BY <2>2, GotFields DEF SameWithMore
<1>5. CASE call.op \in {"octet_string", "oid"}
  <2>1. \A x : Decode(call, x) = decode_octet_string(call.meta, x)
    <3>1. CASE call.op = "octet_string"
      BY <3>1, SMT DEF Decode
    <3>2. CASE call.op = "oid"
      BY <3>2, SMT DEF Decode
    <3>. QED
      BY <1>5, <3>1, <3>2
  <2>2. call.meta.max \in Nat \/ ~ call.meta.bounded
    BY <1>0, <1>5 DEF WellTyped, Meant
  <2>. QED
    BY <2>1, <2>2, OctetStringMore
<1>6. CASE call.op = "bit_string"
  <2>1. \A x : Decode(call, x) = decode_bit_string(call.meta, x)
    BY <1>6, SMT DEF Decode
  <2>2. call.meta.max \in Nat \/ ~ call.meta.bounded
    BY <1>0, <1>6 DEF WellTyped
  <2>. QED
    BY <2>1, <2>2, BitStringMore
<1>7. CASE call.op = "sequence_start"
  <2>. DEFINE m == Meta(TRUE, Len(contents(call)), Len(contents(call)))
  <2>1. \A x : Decode(call, x) = decode_octet_string(m, x)
    BY <1>7, SMT DEF Decode
  <2>2. m.max \in Nat
    BY <1>0, LenProperties DEF Meta
  <2>. HIDE DEF m
  <2>. QED
    BY <2>1, <2>2, OctetStringMore
<1>8. CASE call.op = "sequence_of_length"
  <2>. DEFINE d == decode_length_determinant(v)
              e == decode_length_determinant(v \o w)
  <2>1. \A x : Decode(call, x) = decode_sequence_of_length(x)
    BY <1>8, SMT DEF Decode
  <2>2. /\ Decode(call, v) = IF d.err = "ok" THEN Got("ok", <<d.length>>, d.rest) ELSE Got(d.err, << >>, v)
        /\ Decode(call, v \o w) =
             IF e.err = "ok" THEN Got("ok", <<e.length>>, e.rest) ELSE Got(e.err, << >>, v \o w)
    BY <2>1 DEF decode_sequence_of_length
  <2>3. CASE d.err # "ok"
    <3>. HIDE DEF d, e
    <3>. QED
      BY <2>2, <2>3, GotFields DEF SameWithMore
  <2>4. CASE d.err = "ok"
    <3>1. d.rest \in Seq(Octet) /\ e = [err |-> "ok", length |-> d.length, rest |-> d.rest \o w]
      BY <2>4, DeterminantMore
    <3>2. e.err = "ok" /\ e.length = d.length /\ e.rest = d.rest \o w
      BY <3>1
    <3>. HIDE DEF d, e
    <3>. DEFINE data == <<d.length>>
    <3>3. Decode(call, v) = Got("ok", data, d.rest) /\ Decode(call, v \o w) = Got("ok", data, d.rest \o w)
      BY <2>2, <2>4, <3>2
    <3>. HIDE DEF data
    <3>. QED
      BY <3>1, <3>3, GotFields DEF SameWithMore
  <2>. QED
    BY <2>3, <2>4
<1>. QED
  BY <1>0, <1>1, <1>2, <1>3, <1>4, <1>5, <1>6, <1>7, <1>8 DEF Operations

-----------------------------------------------------------------------------
(* Reading what was written.                                               *)

(* The octets a determinant counts are taken whole.                        *)
LEMMA CountedReads ==
  ASSUME NEW s \in Seq(Octet), Len(s) <= 65535, NEW rest \in Seq(Octet)
  PROVE  TakeCounted(encode_length_determinant(Len(s)) \o (s \o rest)) = Got("ok", s, rest)
<1>. DEFINE v == encode_length_determinant(Len(s)) \o (s \o rest)
            d == decode_length_determinant(v)
            n == Len(s)
            t == s \o rest
<1>1. n \in Nat /\ n <= 65535 /\ t \in Seq(Octet)
  BY LenProperties, ConcatProperties
<1>. HIDE DEF n, t
<1>2. decode_length_determinant(encode_length_determinant(n) \o t) =
        [err |-> "ok", length |-> n, rest |-> t]
  BY <1>1, DeterminantReadBack
<1>3. d = decode_length_determinant(encode_length_determinant(n) \o t)
  BY DEF n, t
<1>5. d.err = "ok" /\ d.length = n /\ d.rest = t
  BY <1>2, <1>3
<1>6. d.err = "ok" /\ d.length = Len(s) /\ d.rest = s \o rest
  BY <1>5 DEF n, t
<1>. HIDE DEF d
<1>4. TakeCounted(v) = TakeOctets(d.rest, d.length)
  BY <1>6 DEF TakeCounted, d
<1>. QED
  BY <1>4, <1>6, TakeOctetsReads

(* A number that fits its octets without a sign is read back from them.    *)
LEMMA NumberReadBack ==
  ASSUME NEW k \in 1 .. WordOctets, NEW n \in Nat, n < Weight[k]
  PROVE  Unsigned(Octets(n, k)) = n
<1>1. k \in 0 .. WordOctets /\ n \in Int
  BY WordAssumption
<1>2. Weight[k] \in Nat \ {0}
  BY <1>1, WeightIsNat
<1>. DEFINE w == Weight[k]
<1>3. n \div w = 0
  <2>. HIDE DEF w
  <2>1. n \div w = 0
    BY <1>2, SMT DEF w
  <2>. QED
    BY <2>1
<1>4. Unsigned(Octets(n, k)) = n - 0 * Weight[k]
  BY <1>1, <1>3, UnsignedOfOctets
<1>. QED
  BY <1>2, <1>4

(* The width of a constrained INTEGER is a whole word, or holds its range. *)
LEMMA WidthHolds ==
  ASSUME NEW meta
  PROVE  LET k == integer_byte_width(meta)
         IN  k = WordOctets \/ IF meta.min >= 0 THEN meta.max < Weight[k]
                                                ELSE Fits(meta.min, k) /\ Fits(meta.max, k)
<1>. DEFINE Holds(k) == IF meta.min >= 0 THEN meta.max < Weight[k]
                                         ELSE Fits(meta.min, k) /\ Fits(meta.max, k)
            S == {WordOctets} \cup {k \in {1, 2, 4, 8} : k <= WordOctets /\ Holds(k)}
<1>1. WordOctets \in 1 .. 8
  BY WordAssumption
<1>2. S \in SUBSET Nat /\ S # {}
  BY <1>1
<1>3. integer_byte_width(meta) = Min(S)
  BY DEF integer_byte_width
<1>4. Min(S) \in S
  <2>. HIDE DEF S
  <2>. QED
    BY <1>2, MinIsLeast
<1>5. \A k \in S : k = WordOctets \/ Holds(k)
  OBVIOUS
<1>. HIDE DEF S, Holds
<1>6. integer_byte_width(meta) = WordOctets \/ Holds(integer_byte_width(meta))
  BY <1>3, <1>4, <1>5
<1>. QED
  BY <1>6 DEF Holds

(* A constrained INTEGER in range is read back from its octets.            *)
LEMMA ConstrainedReadBack ==
  ASSUME NEW meta \in [bounded : BOOLEAN, min : Int, max : Int], NEW v \in SWord,
         v \in meta.min .. meta.max
  PROVE  as_int64(meta, Octets(v, integer_byte_width(meta))) = v
<1>. DEFINE k == integer_byte_width(meta)
            s == Octets(v, k)
            min == meta.min
            max == meta.max
<1>1. k \in 1 .. WordOctets /\ WordOctets \in 1 .. 8
  BY WidthBounds, WordAssumption
<1>2. k = WordOctets \/ IF min >= 0 THEN max < Weight[k] ELSE Fits(min, k) /\ Fits(max, k)
  BY WidthHolds
<1>3. /\ v \in Int /\ min \in Int /\ max \in Int /\ min <= v /\ v <= max
  BY WordAssumption, WeightIsNat DEF SWord
<1>. HIDE DEF k, min, max
<1>4. k \in Nat /\ k \in 0 .. WordOctets /\ k - 1 \in 0 .. WordOctets
  BY <1>1
<1>5. Weight[k] \in Nat /\ Weight[k - 1] \in Nat
  BY <1>4, WeightIsNat
<1>6. Len(s) = k
  BY <1>3, <1>4, OctetsAreOctets
<1>7. CASE min >= 0 /\ k < WordOctets
  <2>1. max < Weight[k]
    BY <1>1, <1>2, <1>7
  <2>2. v \in Nat /\ v < Weight[k]
    BY <1>3, <1>5, <1>7, <2>1
  <2>3. Unsigned(s) = v
    BY <1>1, <2>2, NumberReadBack
  <2>. QED
    BY <1>6, <1>7, <2>3 DEF as_int64, k, min
<1>8. CASE ~ (min >= 0 /\ k < WordOctets)
  <2>1. Fits(v, k)
    <3>1. CASE k = WordOctets
      <4>1. v \in -(128 * Weight[k - 1]) .. 128 * Weight[k - 1] - 1
        BY <3>1 DEF SWord
      <4>. DEFINE a == Weight[k - 1]
      <4>. HIDE DEF a
      <4>2. -(128 * a) <= v /\ v <= 128 * a - 1
        BY <4>1 DEF a
      <4>. QED
        BY <4>2 DEF Fits, a
    <3>2. CASE k # WordOctets
      <4>1. Fits(min, k) /\ Fits(max, k)
        BY <1>1, <1>2, <1>3, <1>8, <3>2
      <4>. DEFINE a == Weight[k - 1]
      <4>2. -(128 * a) <= min /\ max <= 128 * a - 1 /\ a \in Nat
        BY <1>5, <4>1 DEF Fits
      <4>. HIDE DEF a
      <4>3. -(128 * a) <= v /\ v <= 128 * a - 1
        BY <1>3, <4>2
      <4>. QED
        BY <4>3 DEF Fits, a
    <3>. QED
      BY <3>1, <3>2
  <2>2. decode_integer_value(s) = v
    BY <1>1, <1>3, <2>1, OctetsReadBack
  <2>3. as_int64(meta, s) = IF min >= 0 /\ Len(s) < WordOctets THEN Unsigned(s) ELSE decode_integer_value(s)
    BY DEF as_int64, min
  <2>. QED
    BY <1>6, <1>8, <2>2, <2>3 DEF k
<1>. QED
  BY <1>7, <1>8

(* The calls whose octets are read: they were written, and are meant.      *)
GoodCall == {call \in Calls : WellFormed(call) /\ Meant(call)}

(* A piece is what precedes the contents, then the contents.               *)
LEMMA PieceSplits ==
  ASSUME NEW call \in Calls, NEW rest \in Seq(Octet)
  PROVE  /\ Piece(call) \in Seq(Octet) /\ contents(call) \in Seq(Octet)
         /\ Piece(call) \o rest = prefix(call) \o (contents(call) \o rest)
         /\ contents(call) \o rest \in Seq(Octet)
         /\ prefix(call) = << >> => Piece(call) \o rest = contents(call) \o rest
<1>. DEFINE p == prefix(call)
            c == contents(call)
<1>1. p \in Seq(Octet) /\ c \in Seq(Octet)
  BY PrefixOctets, ContentsOctets
<1>2. Piece(call) = p \o c
  BY DEF Piece
<1>. HIDE DEF p, c
<1>3. p \o c \in Seq(Octet) /\ c \o rest \in Seq(Octet) /\ (p \o c) \o rest = p \o (c \o rest)
  BY <1>1, ConcatProperties, ConcatAssociative
<1>4. p = << >> => p \o (c \o rest) = c \o rest
  BY <1>3, ConcatEmptySeq
<1>. QED
  BY <1>1, <1>2, <1>3, <1>4 DEF p, c

(* A constrained INTEGER is read back,                                     *)
LEMMA ConstrainedPieceReads ==
  ASSUME NEW call \in GoodCall, call.op = "integer", call.meta.bounded, NEW rest \in Seq(Octet)
  PROVE  decode_integer(call.meta, Piece(call) \o rest) = Got("ok", call.data, rest)
<1>. DEFINE meta == call.meta
            v    == call.data[1]
            k    == integer_byte_width(meta)
            c    == contents(call)
<1>1. /\ call \in Calls /\ constrained(call) /\ WellTyped(call)
      /\ call.data = <<v>>
  BY OerAssumption DEF GoodCall, constrained, Meant
<1>2. meta \in [bounded : BOOLEAN, min : Int, max : Int] /\ v \in SWord
  BY <1>1 DEF WellTyped
<1>3. v \in meta.min .. meta.max
  <2>1. refusal(call) = "ok"
    BY DEF GoodCall, WellFormed
  <2>2. refusal(call) = IF v \notin meta.min .. meta.max THEN "value_out_of_range" ELSE "ok"
    BY SMT DEF refusal
  <2>. QED
    BY <2>1, <2>2
<1>4. c = Octets(v, k) /\ c \in Seq(Octet) /\ Len(c) = k
  <2>1. c = Octets(v, k)
    BY DEF contents
  <2>2. v \in Int /\ k \in 0 .. WordOctets
    <3>1. k \in 1 .. WordOctets
      BY WidthBounds
    <3>. HIDE DEF k
    <3>. QED
      BY <1>2, <3>1, WordAssumption, WeightIsNat DEF SWord
  <2>. QED
    BY <2>1, <2>2, OctetsAreOctets
<1>5. Piece(call) \o rest = c \o rest
  <2>1. prefix(call) = << >>
    BY <1>1, PrefixOctets
  <2>. QED
    BY <1>1, <2>1, PieceSplits
<1>6. TakeOctets(c \o rest, k) = Got("ok", c, rest)
  BY <1>4, TakeOctetsReads
<1>7. as_int64(meta, c) = v
  BY <1>2, <1>3, <1>4, ConstrainedReadBack
<1>. HIDE DEF c, v, k
<1>. DEFINE r == Got("ok", c, rest)
<1>8. r.err = "ok" /\ r.data = c /\ r.rest = rest
  BY GotFields
<1>9. constrained_value(meta, r) = Got("ok", <<v>>, rest)
  <2>. HIDE DEF r, meta
  <2>. QED
    BY <1>3, <1>7, <1>8 DEF constrained_value
<1>10. decode_integer(meta, c \o rest) = constrained_value(meta, TakeOctets(c \o rest, k))
  BY DEF decode_integer, k
<1>11. decode_integer(meta, c \o rest) = Got("ok", <<v>>, rest)
  BY <1>6, <1>9, <1>10
<1>. QED
  BY <1>1, <1>5, <1>11

(* so is one of any size,                                                  *)
LEMMA UnconstrainedPieceReads ==
  ASSUME NEW call \in GoodCall, call.op = "integer", ~ call.meta.bounded, NEW rest \in Seq(Octet)
  PROVE  decode_integer(call.meta, Piece(call) \o rest) = Got("ok", call.data, rest)
<1>. DEFINE v == call.data[1]
            c == contents(call)
            n == Len(c)
            x == Piece(call) \o rest
            d == decode_length_determinant(x)
            t == c \o rest
<1>1. call \in Calls /\ v \in SWord /\ call.data = <<v>>
  BY OerAssumption DEF GoodCall, Meant, WellTyped
<1>2. c = encode_integer_bytes(v)
  BY DEF contents
<1>3. n \in 1 .. WordOctets /\ WordOctets \in 1 .. 8 /\ decode_integer_value(c) = v
  <2>1. encoded_integer_size(v) \in 1 .. WordOctets /\ v \in Int
    <3>. HIDE DEF v
    <3>1. encoded_integer_size(v) \in 1 .. WordOctets
      BY <1>1, EncodedSizeFits
    <3>2. v \in Int
      BY <1>1 DEF SWord
    <3>. QED
      BY <3>1, <3>2
  <2>2. encoded_integer_size(v) \in 0 .. WordOctets
    BY <2>1, WordAssumption
  <2>3. n = encoded_integer_size(v)
    BY <1>2, <2>1, <2>2, OctetsAreOctets DEF encode_integer_bytes
  <2>. QED
    BY <1>1, <1>2, <2>1, <2>3, IntegerRoundTrip, WordAssumption
<1>4. counted(call) /\ count(call) = n
  <2>1. counted(call)
    BY DEF counted
  <2>2. count(call) = n
    BY SMT DEF count
  <2>. QED
    BY <2>1, <2>2
<1>5. prefix(call) = encode_length_determinant(n)
  BY <1>4 DEF prefix
<1>6. x = encode_length_determinant(n) \o t /\ t \in Seq(Octet) /\ c \in Seq(Octet)
  BY <1>1, <1>5, PieceSplits
<1>7. TakeOctets(t, n) = Got("ok", c, rest)
  BY <1>6, TakeOctetsReads
<1>. HIDE DEF c, v, n, x, t
<1>8. d = [err |-> "ok", length |-> n, rest |-> t]
  <2>1. n \in Nat /\ n <= 65535
    BY <1>3
  <2>. QED
    BY <1>6, <2>1, DeterminantReadBack
<1>9. d.err = "ok" /\ d.length = n /\ d.rest = t
  BY <1>8
<1>. DEFINE r == Got("ok", c, rest)
<1>10. r.err = "ok" /\ r.data = c /\ r.rest = rest
  BY GotFields
<1>11. unconstrained_value(d) = IF r.err = "ok" THEN Got("ok", <<decode_integer_value(r.data)>>, r.rest) ELSE r
  <2>1. d.length # 0 /\ ~ (d.length > WordOctets) /\ d.length \in 1 .. WordOctets
    BY <1>3, <1>9
  <2>2. TakeOctets(d.rest, d.length) = r
    BY <1>7, <1>9
  <2>. HIDE DEF d, r
  <2>. QED
    BY <1>9, <2>1, <2>2 DEF unconstrained_value
<1>12. unconstrained_value(d) = Got("ok", <<v>>, rest)
  <2>. HIDE DEF d, r
  <2>. QED
    BY <1>3, <1>10, <1>11
<1>13. decode_integer(call.meta, x) = unconstrained_value(d)
  BY DEF decode_integer
<1>. QED
  BY <1>1, <1>12, <1>13 DEF x

(* an index,                                                               *)
LEMMA IndexPieceReads ==
  ASSUME NEW call \in GoodCall, call.op \in {"enumerated", "choice_index"}, NEW rest \in Seq(Octet)
  PROVE  decode_index(call.meta, Piece(call) \o rest) = Got("ok", call.data, rest)
<1>. DEFINE max == call.meta.max
            v   == call.data[1]
            k   == index_byte_width(max)
            c   == contents(call)
<1>1. /\ call \in Calls /\ call.data = <<v>> /\ v \in 0 .. max /\ max < Weight[k]
      /\ max \in Nat /\ k <= WordOctets
  <2>1. Meant(call) /\ WellTyped(call) /\ call \in Calls
    BY OerAssumption DEF GoodCall
  <2>2. call.data = <<v>> /\ v \in 0 .. max /\ max < Weight[k]
    BY <2>1 DEF Meant
  <2>3. max \in Nat /\ k <= WordOctets
    BY <2>1 DEF WellTyped
  <2>. QED
    BY <2>1, <2>2, <2>3
<1>2. k \in 1 .. WordOctets /\ k \in 0 .. WordOctets
  <2>1. k \in {1, 2, 4}
    BY <1>1, IndexWidthGrows
  <2>. HIDE DEF k
  <2>. QED
    BY <1>1, <2>1, WordAssumption
<1>3. c = Octets(v, k)
  <2>1. CASE call.op = "enumerated"
    BY <2>1, SMT DEF contents
  <2>2. CASE call.op = "choice_index"
    BY <2>2, SMT DEF contents
  <2>. QED
    BY <2>1, <2>2
<1>4. prefix(call) = << >>
  <2>1. ~ counted(call) /\ call.op \notin {"octet_string", "bit_string"}
    BY DEF counted
  <2>. QED
    BY <2>1, Zenon DEF prefix
<1>5. Piece(call) \o rest = c \o rest /\ c \in Seq(Octet)
  BY <1>1, <1>4, PieceSplits
<1>. HIDE DEF c, v, k, max
<1>6. v \in Nat /\ v < Weight[k]
  <2>1. Weight[k] \in Nat
    BY <1>2, WeightIsNat
  <2>. QED
    BY <1>1, <2>1
<1>7. Unsigned(c) = v /\ Len(c) = k
  BY <1>2, <1>3, <1>6, NumberReadBack, OctetsAreOctets
<1>. DEFINE r == Got("ok", c, rest)
<1>8. TakeOctets(c \o rest, k) = r
  BY <1>5, <1>7, TakeOctetsReads
<1>9. r.err = "ok" /\ r.data = c /\ r.rest = rest
  BY GotFields
<1>. HIDE DEF r
<1>10. decode_index(call.meta, c \o rest) = Got("ok", <<v>>, rest)
  <2>1. decode_index(call.meta, c \o rest) =
          IF TakeOctets(c \o rest, k).err = "ok"
            THEN Got("ok", <<Unsigned(TakeOctets(c \o rest, k).data)>>, TakeOctets(c \o rest, k).rest)
            ELSE TakeOctets(c \o rest, k)
    BY DEF decode_index, k, max
  <2>. QED
    BY <1>7, <1>8, <1>9, <2>1
<1>. QED
  BY <1>1, <1>5, <1>10

(* and a BOOLEAN.                                                          *)
LEMMA BooleanPieceReads ==
  ASSUME NEW call \in GoodCall, call.op = "boolean", NEW rest \in Seq(Octet)
  PROVE  decode_boolean(Piece(call) \o rest) = Got("ok", call.data, rest)
<1>. DEFINE c == call.data
<1>1. call \in Calls /\ (c = <<0>> \/ c = <<255>>)
  BY DEF GoodCall, Meant
<1>2. contents(call) = c
  BY DEF contents
<1>3. prefix(call) = << >>
  <2>1. ~ counted(call) /\ call.op \notin {"octet_string", "bit_string"}
    BY DEF counted
  <2>. QED
    BY <2>1, Zenon DEF prefix
<1>4. Piece(call) \o rest = c \o rest /\ c \in Seq(Octet)
  BY <1>1, <1>2, <1>3, PieceSplits
<1>5. Len(c) = 1 /\ c = <<IF c[1] # 0 THEN 255 ELSE 0>>
  <2>. HIDE DEF c
  <2>1. CASE c = <<0>>
    <3>1. c[1] = 0 /\ Len(c) = 1
      BY <2>1
    <3>. QED
      BY <2>1, <3>1
  <2>2. CASE c = <<255>>
    <3>1. c[1] = 255 /\ c[1] # 0 /\ Len(c) = 1
      BY <2>2
    <3>. QED
      BY <2>2, <3>1
  <2>. QED
    BY <1>1, <2>1, <2>2
<1>. HIDE DEF c
<1>. DEFINE r == Got("ok", c, rest)
<1>6. TakeOctets(c \o rest, 1) = r
  BY <1>4, <1>5, TakeOctetsReads
<1>7. r.err = "ok" /\ r.data = c /\ r.rest = rest
  BY GotFields
<1>. HIDE DEF r
<1>8. decode_boolean(c \o rest) = Got("ok", <<IF c[1] # 0 THEN 255 ELSE 0>>, rest)
  BY <1>6, <1>7 DEF decode_boolean
<1>. QED
  BY <1>4, <1>5, <1>8 DEF c

(* A string of the size its type has needs no length.                      *)
LEMMA FixedStringReads ==
  ASSUME NEW call \in GoodCall, call.op \in {"octet_string", "bit_string"}, fixed(call.meta),
         NEW rest \in Seq(Octet)
  PROVE  TakeOctets(Piece(call) \o rest, call.meta.min) = Got("ok", contents(call), rest)
<1>. DEFINE c == contents(call)
            n == Len(call.data)
            min == call.meta.min
<1>1. /\ call \in Calls /\ call.meta.bounded /\ call.meta.max = min
      /\ call.data \in Seq(Octet) /\ (call.op = "bit_string" => call.data # << >>)
      /\ call.meta.max \in Nat
  BY OerAssumption DEF GoodCall, fixed, WellTyped
<1>2. prefix(call) = << >>
  <2>1. ~ counted(call)
    BY <1>1 DEF counted
  <2>. QED
    BY <2>1, Zenon DEF prefix
<1>3. Piece(call) \o rest = c \o rest /\ c \in Seq(Octet)
  BY <1>1, <1>2, PieceSplits
<1>4. Len(c) = min
  <2>1. refusal(call) = "ok"
    BY DEF GoodCall, WellFormed
  <2>2. CASE call.op = "octet_string"
    <3>1. refusal(call) = IF n \notin min .. call.meta.max THEN "constraint_violation" ELSE "ok"
      BY <1>1, <2>2, SMT DEF refusal
    <3>2. n \in min .. min
      BY <1>1, <2>1, <3>1
    <3>3. c = call.data
      BY <2>2, SMT DEF contents
    <3>. QED
      BY <1>1, <3>2, <3>3
  <2>3. CASE call.op = "bit_string"
    <3>1. refusal(call) = IF n - 1 \notin min .. call.meta.max THEN "constraint_violation" ELSE "ok"
      BY <1>1, <2>3, SMT DEF refusal
    <3>2. n - 1 \in min .. min
      BY <1>1, <2>1, <3>1
    <3>3. c = Tail(call.data)
      BY <2>3, SMT DEF contents
    <3>4. Len(c) = n - 1
      BY <1>1, <2>3, <3>3, HeadTailProperties
    <3>. QED
      BY <1>1, <3>2, <3>4
  <2>. QED
    BY <2>2, <2>3
<1>. HIDE DEF c, min
<1>. QED
  BY <1>3, <1>4, TakeOctetsReads DEF c, min

(* What a length determinant counts is read back whole.                    *)
LEMMA CountedPieceReads ==
  ASSUME NEW call \in GoodCall, call.op # "sequence_of_length",
         prefix(call) = encode_length_determinant(Len(contents(call))),
         Len(contents(call)) <= 65535, NEW rest \in Seq(Octet)
  PROVE  /\ TakeCounted(Piece(call) \o rest) = Got("ok", contents(call), rest)
         /\ decode_length_determinant(Piece(call) \o rest).length = Len(contents(call))
<1>. DEFINE c == contents(call)
            n == Len(c)
            t == c \o rest
<1>1. c \in Seq(Octet) /\ Piece(call) \o rest = encode_length_determinant(n) \o t /\ t \in Seq(Octet)
  <2>1. call \in Calls /\ prefix(call) = encode_length_determinant(n)
    BY DEF GoodCall
  <2>2. c \in Seq(Octet) /\ t \in Seq(Octet) /\ Piece(call) \o rest = prefix(call) \o t
    <3>1. /\ contents(call) \in Seq(Octet) /\ contents(call) \o rest \in Seq(Octet)
          /\ Piece(call) \o rest = prefix(call) \o (contents(call) \o rest)
      BY <2>1, PieceSplits, SMTT(30)
    <3>. QED
      BY <3>1
  <2>. QED
    BY <2>1, <2>2
<1>2. n \in Nat /\ n <= 65535
  BY <1>1, LenProperties
<1>3. TakeCounted(Piece(call) \o rest) = Got("ok", c, rest)
  BY <1>1, <1>2, CountedReads
<1>. HIDE DEF n, t
<1>4. decode_length_determinant(Piece(call) \o rest) = [err |-> "ok", length |-> n, rest |-> t]
  BY <1>1, <1>2, DeterminantReadBack
<1>5. decode_length_determinant(Piece(call) \o rest).length = n
  BY <1>4
<1>. QED
  BY <1>3, <1>5 DEF n

(* A count that is written is below 65536.                                 *)
LEMMA CountedPrefix ==
  ASSUME NEW call \in GoodCall, counted(call), call.op # "sequence_of_length"
  PROVE  /\ prefix(call) = encode_length_determinant(Len(contents(call)))
         /\ Len(contents(call)) <= 65535
<1>1. count(call) = Len(contents(call)) /\ count(call) <= 65535
  BY DEF count, GoodCall, WellFormed
<1>2. prefix(call) = encode_length_determinant(count(call))
  BY DEF prefix
<1>. QED
  BY <1>1, <1>2

(* An OCTET STRING, or an OBJECT IDENTIFIER, is read back,                 *)
LEMMA OctetsPieceReads ==
  ASSUME NEW call \in GoodCall, call.op \in {"octet_string", "oid"}, NEW rest \in Seq(Octet)
  PROVE  decode_octet_string(call.meta, Piece(call) \o rest) = Got("ok", call.data, rest)
<1>. DEFINE meta == call.meta
            x    == Piece(call) \o rest
            c    == call.data
            n    == Len(c)
<1>0. /\ call \in Calls /\ WellTyped(call) /\ Meant(call) /\ refusal(call) = "ok"
  BY OerAssumption DEF GoodCall, WellFormed
<1>1. contents(call) = c
  <2>1. CASE call.op = "octet_string"
    BY <2>1, SMT DEF contents
  <2>2. CASE call.op = "oid"
    BY <2>2, SMT DEF contents
  <2>. QED
    BY <2>1, <2>2
<1>2. call.op = "oid" => ~ meta.bounded
  BY <1>0 DEF Meant
<1>3. CASE fixed(meta)
  <2>1. call.op = "octet_string"
    BY <1>2, <1>3 DEF fixed
  <2>2. TakeOctets(x, meta.min) = Got("ok", c, rest)
    BY <1>1, <1>3, <2>1, FixedStringReads
  <2>3. decode_octet_string(meta, x) = TakeOctets(x, meta.min)
    BY <1>3 DEF decode_octet_string, fixed
  <2>. QED
    BY <2>2, <2>3
<1>4. CASE ~ meta.bounded
  <2>1. counted(call)
    BY <1>4 DEF counted
  <2>2. TakeCounted(x) = Got("ok", c, rest)
    BY <1>1, <2>1, CountedPrefix, CountedPieceReads
  <2>3. decode_octet_string(meta, x) = TakeCounted(x)
    BY <1>4 DEF decode_octet_string, fixed
  <2>. QED
    BY <2>2, <2>3
<1>5. CASE meta.bounded /\ ~ fixed(meta)
  <2>. DEFINE max == meta.max
              k   == index_byte_width(max)
              p   == prefix(call)
              t   == c \o rest
  <2>1. call.op = "octet_string" /\ ~ counted(call)
    BY <1>2, <1>5 DEF counted
  <2>2. /\ max \in Nat /\ k \in {1, 2, 4} /\ k <= WordOctets /\ max < Weight[k]
    <3>1. max \in Nat /\ index_byte_width(max + 1) <= WordOctets /\ max < Weight[k]
      BY <1>0, <1>5, <2>1 DEF WellTyped, Meant
    <3>2. k \in {1, 2, 4} /\ k <= index_byte_width(max + 1) /\ index_byte_width(max + 1) \in {1, 2, 4}
      BY <3>1, IndexWidthGrows
    <3>. DEFINE l == index_byte_width(max + 1)
    <3>. HIDE DEF k, l
    <3>3. k <= WordOctets
      <4>1. k \in {1, 2, 4} /\ l \in {1, 2, 4} /\ k <= l /\ l <= WordOctets
        BY <3>1, <3>2 DEF l
      <4>. QED
        BY <4>1, WordAssumption
    <3>. QED
      BY <3>1, <3>2, <3>3
  <2>3. n \in meta.min .. max /\ n \in Nat
    <3>1. refusal(call) = IF n \notin meta.min .. max THEN "constraint_violation" ELSE "ok"
      BY <1>5, <2>1, SMT DEF refusal
    <3>2. n \in Nat
      BY <1>0, <2>1, LenProperties DEF WellTyped
    <3>. QED
      BY <1>0, <3>1, <3>2
  <2>4. p = Octets(n, k)
    <3>1. p = Octets(count(call), length_width(call))
      BY <1>5, <2>1, Zenon DEF prefix
    <3>2. count(call) = n /\ length_width(call) = k
      BY <1>1, <2>1 DEF count, length_width
    <3>. QED
      BY <3>1, <3>2
  <2>5. k \in 1 .. WordOctets /\ k \in 0 .. WordOctets
    <3>. HIDE DEF k
    <3>. QED
      BY <2>2, WordAssumption
  <2>6. n < Weight[k]
    <3>1. meta.min \in Int /\ Weight[k] \in Nat
      BY <1>0, <2>5, WeightIsNat DEF WellTyped
    <3>2. n <= max /\ max < Weight[k]
      BY <2>2, <2>3, <3>1
    <3>. HIDE DEF n, k, max
    <3>. QED
      BY <2>2, <2>3, <3>1, <3>2
  <2>7. p \in Seq(Octet) /\ Len(p) = k /\ Unsigned(p) = n
    <3>. HIDE DEF n, k
    <3>. QED
      BY <2>3, <2>4, <2>5, <2>6, NumberReadBack, OctetsAreOctets
  <2>8. x = p \o t /\ t \in Seq(Octet) /\ c \in Seq(Octet)
    BY <1>0, <1>1, PieceSplits
  <2>9. TakeOctets(x, k) = Got("ok", p, t) /\ TakeOctets(t, n) = Got("ok", c, rest)
    <3>1. TakeOctets(x, k) = Got("ok", p, t)
      <4>. HIDE DEF p, t, k, x
      <4>. QED
        BY <2>7, <2>8, TakeOctetsReads
    <3>. QED
      BY <2>8, <3>1, TakeOctetsReads
  <2>. DEFINE h == Got("ok", p, t)
  <2>10. h.err = "ok" /\ h.data = p /\ h.rest = t
    <3>. HIDE DEF p, t
    <3>. QED
      BY GotFields
  <2>11. decode_octet_string(meta, x) =
           IF h.err # "ok" THEN h
           ELSE IF Unsigned(h.data) \notin meta.min .. max
             THEN Got("constraint_violation", << >>, h.rest)
           ELSE TakeOctets(h.rest, Unsigned(h.data))
    <3>. HIDE DEF p, t, x, h
    <3>1. TakeOctets(x, index_byte_width(meta.max)) = h
      BY <2>9 DEF h
    <3>. QED
      BY <1>5, <3>1 DEF decode_octet_string
  <2>. HIDE DEF h, p, t, x, n
  <2>. QED
    BY <2>3, <2>7, <2>9, <2>10, <2>11 DEF x
<1>. QED
  BY <1>3, <1>4, <1>5 DEF fixed

(* a BIT STRING too, without its unused bits when its size is fixed,       *)
LEMMA BitStringPieceReads ==
  ASSUME NEW call \in GoodCall, call.op = "bit_string", NEW rest \in Seq(Octet)
  PROVE  decode_bit_string(call.meta, Piece(call) \o rest) = Got("ok", Meaning(call), rest)
<1>. DEFINE meta == call.meta
            x    == Piece(call) \o rest
            c    == contents(call)
            n    == Len(c)
<1>0. /\ call \in Calls /\ WellTyped(call) /\ Meant(call)
      /\ call.data \in Seq(Octet) /\ call.data # << >>
  BY OerAssumption DEF GoodCall, WellTyped
<1>1. CASE fixed(meta)
  <2>. DEFINE f == TakeOctets(x, meta.min)
  <2>1. f = Got("ok", c, rest)
    BY <1>1, FixedStringReads
  <2>2. c = Tail(call.data)
    BY <1>1, SMT DEF contents
  <2>3. decode_bit_string(meta, x) = IF f.err = "ok" THEN Got("ok", <<0>> \o f.data, f.rest) ELSE f
    BY <1>1 DEF decode_bit_string
  <2>4. Meaning(call) = <<0>> \o c
    BY <1>1, <2>2 DEF Meaning
  <2>. HIDE DEF f, c, x
  <2>5. f.err = "ok" /\ f.data = c /\ f.rest = rest
    BY <2>1, GotFields
  <2>. QED
    BY <2>3, <2>4, <2>5 DEF x
<1>2. CASE ~ fixed(meta)
  <2>1. c = call.data /\ Meaning(call) = call.data
    BY <1>2, SMT DEF contents, Meaning
  <2>2. n \in Nat /\ n >= 1
    <3>1. n \in Nat /\ n # 0
      BY <1>0, <2>1, LenProperties, EmptySeq
    <3>. HIDE DEF n
    <3>. QED
      BY <3>1
  <2>3. prefix(call) = encode_length_determinant(n) /\ n <= 65535
    <3>1. CASE counted(call)
      BY <3>1, CountedPrefix
    <3>2. CASE ~ counted(call)
      <4>. DEFINE w == index_byte_width(meta.max + 1)
      <4>1. meta.bounded
        BY <3>2 DEF counted
      <4>2. n <= 127 /\ meta.max < 255 /\ meta.max \in Nat
        BY <1>0, <1>2, <2>1, <4>1 DEF Meant, WellTyped
      <4>3. w = 1
        BY <4>2 DEF index_byte_width
      <4>4. length_width(call) = 1
        <5>1. Min({2, 1}) = 1
          <6>1. Min({2, 1}) \in {2, 1} /\ Min({2, 1}) <= 1
            <7>1. {2, 1} \in SUBSET Nat /\ {2, 1} # {} /\ 1 \in {2, 1}
              OBVIOUS
            <7>. QED
              BY <7>1, MinIsLeast
          <6>. DEFINE m == Min({2, 1})
          <6>. HIDE DEF m
          <6>2. m \in {2, 1} /\ m <= 1
            BY <6>1 DEF m
          <6>3. m = 1
            BY <6>2
          <6>. QED
            BY <6>3 DEF m
        <5>2. length_width(call) = Min({2, w})
          BY DEF length_width
        <5>. QED
          BY <4>3, <5>1, <5>2
      <4>5. prefix(call) = Octets(n, 1)
        <5>1. prefix(call) = Octets(count(call), length_width(call))
          BY <1>2, <3>2, Zenon DEF prefix
        <5>2. count(call) = n
          BY DEF count
        <5>. QED
          BY <4>4, <5>1, <5>2
      <4>6. encode_length_determinant(n) = <<n>>
        <5>. HIDE DEF n
        <5>. QED
          BY <2>2, <4>2 DEF encode_length_determinant
      <4>7. Octets(n, 1) = <<n>>
        <5>1. Weight[1 - 1] = 1
          BY WordAssumption
        <5>2. Octets(n, 1) = [i \in 1 .. 1 |-> (n \div Weight[1 - i]) % 256]
          BY DEF Octets
        <5>. HIDE DEF n
        <5>3. (n \div 1) % 256 = n
          BY <2>2, <4>2
        <5>4. [i \in 1 .. 1 |-> (n \div Weight[1 - i]) % 256] = [i \in 1 .. 1 |-> n]
          BY <5>1, <5>3
        <5>. QED
          BY <5>2, <5>4
      <4>8. n <= 65535
        BY <2>2, <4>2
      <4>. QED
        BY <4>5, <4>6, <4>7, <4>8
    <3>. QED
      BY <3>1, <3>2
  <2>4. TakeCounted(x) = Got("ok", c, rest) /\ decode_length_determinant(x).length = n
    BY <2>3, CountedPieceReads
  <2>5. ~ (decode_length_determinant(x).length < 1)
    <3>. HIDE DEF n, x
    <3>. QED
      BY <2>2, <2>4
  <2>6. decode_bit_string(meta, x) = TakeCounted(x)
    <3>. HIDE DEF x
    <3>. QED
      BY <1>2, <2>5 DEF decode_bit_string
  <2>. QED
    BY <2>1, <2>4, <2>6
<1>. QED
  BY <1>1, <1>2

(* and the number of elements of a SEQUENCE OF.                            *)
LEMMA LengthPieceReads ==
  ASSUME NEW call \in GoodCall, call.op = "sequence_of_length", NEW rest \in Seq(Octet)
  PROVE  decode_sequence_of_length(Piece(call) \o rest) = Got("ok", call.data, rest)
<1>. DEFINE n == call.data[1]
            x == Piece(call) \o rest
            d == decode_length_determinant(x)
<1>1. call \in Calls /\ call.data = <<n>> /\ n \in Nat /\ n <= 65535 /\ counted(call) /\ count(call) = n
  <2>1. call \in Calls /\ Meant(call) /\ WellTyped(call) /\ WellFormed(call)
    BY OerAssumption DEF GoodCall
  <2>2. counted(call) /\ count(call) = n
    BY DEF counted, count
  <2>3. call.data = <<n>> /\ n \in Nat
    BY <2>1 DEF Meant, WellTyped, UWord
  <2>4. n <= 65535
    BY <2>1, <2>2 DEF WellFormed
  <2>. QED
    BY <2>1, <2>2, <2>3, <2>4
<1>2. x = encode_length_determinant(n) \o rest
  <2>1. contents(call) = << >>
    BY SMT DEF contents
  <2>2. prefix(call) = encode_length_determinant(n)
    BY <1>1 DEF prefix
  <2>3. contents(call) \o rest = rest
    BY <2>1, ConcatEmptySeq
  <2>4. x = prefix(call) \o (contents(call) \o rest)
    <3>1. call \in Calls
      BY DEF GoodCall
    <3>2. Piece(call) \o rest = prefix(call) \o (contents(call) \o rest)
      BY <3>1, PieceSplits
    <3>. QED
      BY <3>2
  <2>. QED
    BY <2>2, <2>3, <2>4
<1>. HIDE DEF n, x
<1>3. d = [err |-> "ok", length |-> n, rest |-> rest]
  BY <1>1, <1>2, DeterminantReadBack
<1>4. d.err = "ok" /\ d.length = n /\ d.rest = rest
  BY <1>3
<1>. HIDE DEF d
<1>5. decode_sequence_of_length(x) = Got("ok", <<n>>, rest)
  BY <1>4 DEF decode_sequence_of_length, d
<1>. QED
  BY <1>1, <1>5 DEF x

(* The octets a call wrote, complete, are read as what it means.           *)
LEMMA PieceReads ==
  ASSUME NEW call \in GoodCall, NEW rest \in Seq(Octet)
  PROVE  Decode(call, Piece(call) \o rest) = Got("ok", Meaning(call), rest)
<1>. DEFINE x == Piece(call) \o rest
<1>0. call \in Calls /\ call.op \in Operations /\ Meant(call)
  BY OerAssumption DEF GoodCall
<1>1. call.op \notin {"bit_string", "sequence_start"} => Meaning(call) = call.data
  BY DEF Meaning
<1>. HIDE DEF x
<1>2. CASE call.op = "integer"
  <2>1. Decode(call, x) = decode_integer(call.meta, x)
    BY <1>2, SMT DEF Decode
  <2>. QED
    BY <1>1, <1>2, <2>1, ConstrainedPieceReads, UnconstrainedPieceReads DEF x
<1>3. CASE call.op \in {"enumerated", "choice_index"}
  <2>1. Decode(call, x) = decode_index(call.meta, x)
    <3>1. CASE call.op = "enumerated"
      BY <3>1, SMT DEF Decode
    <3>2. CASE call.op = "choice_index"
      BY <3>2, SMT DEF Decode
    <3>. QED
      BY <1>3, <3>1, <3>2
  <2>2. Meaning(call) = call.data
    BY <1>1, <1>3
  <2>. QED
    BY <1>3, <2>1, <2>2, IndexPieceReads DEF x
<1>4. CASE call.op = "boolean"
  <2>1. Decode(call, x) = decode_boolean(x)
    BY <1>4, SMT DEF Decode
  <2>. QED
    BY <1>1, <1>4, <2>1, BooleanPieceReads DEF x
<1>5. CASE call.op \in {"null", "sequence_end"}
  <2>1. Decode(call, x) = Got("ok", << >>, x)
    <3>1. CASE call.op = "null"
      BY <3>1, SMT DEF Decode
    <3>2. CASE call.op = "sequence_end"
      BY <3>2, SMT DEF Decode
    <3>. QED
      BY <1>5, <3>1, <3>2
  <2>2. call.data = << >> /\ Meaning(call) = call.data
    BY <1>0, <1>1, <1>5 DEF Meant
  <2>3. prefix(call) = << >> /\ contents(call) = << >>
    <3>1. ~ counted(call) /\ call.op \notin {"octet_string", "bit_string"}
      BY <1>5 DEF counted
    <3>2. prefix(call) = << >>
      BY <3>1, Zenon DEF prefix
    <3>3. contents(call) = << >>
      <4>1. CASE call.op = "null"
        BY <4>1, SMT DEF contents
      <4>2. CASE call.op = "sequence_end"
        BY <4>2, SMT DEF contents
      <4>. QED
        BY <1>5, <4>1, <4>2
    <3>. QED
      BY <3>2, <3>3
  <2>4. x = rest
    <3>1. x = contents(call) \o rest
      BY <1>0, <2>3, PieceSplits DEF x
    <3>. QED
      BY <2>3, <3>1, ConcatEmptySeq
  <2>. QED
    BY <2>1, <2>2, <2>4 DEF x
<1>6. CASE call.op \in {"octet_string", "oid"}
  <2>1. Decode(call, x) = decode_octet_string(call.meta, x)
    <3>1. CASE call.op = "octet_string"
      BY <3>1, SMT DEF Decode
    <3>2. CASE call.op = "oid"
      BY <3>2, SMT DEF Decode
    <3>. QED
      BY <1>6, <3>1, <3>2
  <2>2. Meaning(call) = call.data
    BY <1>1, <1>6
  <2>. QED
    BY <1>6, <2>1, <2>2, OctetsPieceReads DEF x
<1>7. CASE call.op = "bit_string"
  <2>1. Decode(call, x) = decode_bit_string(call.meta, x)
    BY <1>7, SMT DEF Decode
  <2>. QED
    BY <1>7, <2>1, BitStringPieceReads DEF x
<1>8. CASE call.op = "sequence_start"
  <2>. DEFINE c == contents(call)
              n == Len(c)
              m == Meta(TRUE, n, n)
  <2>1. Decode(call, x) = decode_octet_string(m, x)
    BY <1>8, SMT DEF Decode
  <2>2. fixed(m) /\ m.min = n
    BY DEF fixed, Meta
  <2>3. Meaning(call) = c
    BY <1>8 DEF Meaning
  <2>4. prefix(call) = << >>
    <3>1. ~ counted(call) /\ call.op \notin {"octet_string", "bit_string"}
      BY <1>8 DEF counted
    <3>. QED
      BY <3>1, Zenon DEF prefix
  <2>5. x = c \o rest /\ c \in Seq(Octet)
    BY <1>0, <2>4, PieceSplits DEF x
  <2>6. TakeOctets(x, n) = Got("ok", c, rest)
    BY <2>5, TakeOctetsReads
  <2>. HIDE DEF m, n, c
  <2>7. decode_octet_string(m, x) = TakeOctets(x, m.min)
    BY <2>2 DEF decode_octet_string, fixed
  <2>. QED
    BY <2>1, <2>2, <2>3, <2>6, <2>7 DEF x
<1>9. CASE call.op = "sequence_of_length"
  <2>1. Decode(call, x) = decode_sequence_of_length(x)
    BY <1>9, SMT DEF Decode
  <2>. QED
    BY <1>1, <1>9, <2>1, LengthPieceReads DEF x
<1>. QED
  BY <1>0, <1>2, <1>3, <1>4, <1>5, <1>6, <1>7, <1>8, <1>9 DEF Operations

-----------------------------------------------------------------------------
(* Messages.                                                               *)

(* A piece is octets.                                                      *)
LEMMA PieceOctets ==
  ASSUME NEW call \in Calls
  PROVE  Piece(call) \in Seq(Octet)
<1>1. << >> \in Seq(Octet)
  BY EmptySeq
<1>. QED
  BY <1>1, PieceSplits

(* Wire exists: the octets of longer and longer beginnings of the calls.   *)
LEMMA WireRecursion ==
  ASSUME NEW calls \in Seq(Calls)
  PROVE  \E upto \in [0 .. Len(calls) -> Seq(Octet)] :
           /\ upto[0] = << >>
           /\ \A i \in 1 .. Len(calls) : upto[i] = upto[i - 1] \o Piece(calls[i])
           /\ Wire(calls) = upto[Len(calls)]
<1>. DEFINE Joins(f, n) == f = [i \in 0 .. n |-> IF i = 0 THEN << >> ELSE f[i - 1] \o Piece(calls[i])]
            Bad == {n \in 0 .. Len(calls) : ~ \E f : Joins(f, n)}
            up  == CHOOSE f : Joins(f, Len(calls))
<1>0. Len(calls) \in Nat
  BY LenProperties
<1>1. Bad = {}
  <2>. SUFFICES ASSUME Bad # {} PROVE FALSE
    OBVIOUS
  <2>1. Bad \in SUBSET Nat
    <3>1. 0 .. Len(calls) \in SUBSET Nat
      BY <1>0
    <3>. QED
      BY <3>1
  <2>2. PICK m \in Bad : \A y \in Bad : m <= y
    BY <2>1, MinIsLeast
  <2>3. CASE m = 0
    <3>1. Joins([i \in 0 .. 0 |-> << >>], 0)
      OBVIOUS
    <3>. QED
      BY <2>2, <2>3, <3>1
  <2>4. CASE m # 0
    <3>0. m \in 1 .. Len(calls)
      BY <1>0, <2>4
    <3>. HIDE DEF Bad
    <3>1. m - 1 \in 0 .. Len(calls) /\ m - 1 \notin Bad
      BY <1>0, <2>2, <3>0
    <3>. USE DEF Bad
    <3>2. PICK g : Joins(g, m - 1)
      BY <3>1
    <3>. DEFINE h == [i \in 0 .. m |-> IF i < m THEN g[i] ELSE g[m - 1] \o Piece(calls[m])]
    <3>3. Joins(h, m)
      <4>1. m \in Nat \ {0}
        BY <1>0, <2>4
      <4>2. ASSUME NEW i \in 0 .. m
            PROVE  h[i] = IF i = 0 THEN << >> ELSE h[i - 1] \o Piece(calls[i])
        <5>1. CASE i < m
          <6>1. i \in 0 .. m - 1 /\ (i # 0 => i - 1 \in 0 .. m - 1 /\ i - 1 \in 0 .. m /\ i - 1 < m)
            BY <4>1, <5>1
          <6>2. g[i] = IF i = 0 THEN << >> ELSE g[i - 1] \o Piece(calls[i])
            BY <3>2, <6>1
          <6>. QED
            BY <5>1, <6>1, <6>2
        <5>2. CASE i = m
          <6>1. m - 1 \in 0 .. m /\ m - 1 < m /\ m # 0 /\ m \in 0 .. m /\ ~ (m < m)
            BY <4>1
          <6>2. h[m - 1] = g[m - 1] /\ h[m] = g[m - 1] \o Piece(calls[m])
            BY <6>1
          <6>. HIDE DEF h
          <6>. QED
            BY <5>2, <6>1, <6>2
        <5>. QED
          BY <4>1, <5>1, <5>2
      <4>. QED
        BY <4>2
    <3>. QED
      BY <2>2, <3>3
  <2>. QED
    BY <2>3, <2>4
<1>2. Joins(up, Len(calls))
  <2>1. Len(calls) \in 0 .. Len(calls)
    BY <1>0
  <2>. QED
    BY <1>1, <2>1
<1>3. Wire(calls) = up[Len(calls)]
  BY DEF Wire
<1>. HIDE DEF up
<1>4. up[0] = << >> /\ \A i \in 1 .. Len(calls) : up[i] = up[i - 1] \o Piece(calls[i])
  BY <1>0, <1>2
<1>5. up \in [0 .. Len(calls) -> Seq(Octet)]
  <2>. DEFINE Off == {i \in 0 .. Len(calls) : up[i] \notin Seq(Octet)}
  <2>1. Off = {}
    <3>. SUFFICES ASSUME Off # {} PROVE FALSE
      OBVIOUS
    <3>1. PICK m \in Off : \A y \in Off : m <= y
      <4>1. Off \in SUBSET Nat
        BY <1>0
      <4>. QED
        BY <4>1, MinIsLeast
    <3>0. up[m] \notin Seq(Octet) /\ m \in 0 .. Len(calls)
      OBVIOUS
    <3>2. m \in 1 .. Len(calls)
      <4>1. up[0] \in Seq(Octet)
        BY <1>4, EmptySeq
      <4>2. m # 0
        BY <3>0, <4>1
      <4>. QED
        BY <1>0, <3>0, <4>2
    <3>3. m - 1 \in 0 .. Len(calls) /\ m - 1 \notin Off
      BY <1>0, <3>1, <3>2
    <3>4. up[m] = up[m - 1] \o Piece(calls[m]) /\ Piece(calls[m]) \in Seq(Octet)
      BY <1>4, <3>2, ElementOfSeq, PieceOctets
    <3>5. up[m - 1] \in Seq(Octet)
      BY <3>3
    <3>. QED
      BY <3>0, <3>4, <3>5, ConcatProperties
  <2>. QED
    BY <1>2, <2>1
<1>. QED
  BY <1>3, <1>4, <1>5

(* The octets of a message are octets.                                     *)
LEMMA WireOctets ==
  ASSUME NEW calls \in Seq(Calls)
  PROVE  Wire(calls) \in Seq(Octet)
<1>1. Len(calls) \in 0 .. Len(calls)
  BY LenProperties
<1>2. PICK upto \in [0 .. Len(calls) -> Seq(Octet)] : Wire(calls) = upto[Len(calls)]
  BY WireRecursion
<1>. QED
  BY <1>1, <1>2

(* No calls, no octets.                                                    *)
LEMMA WireEmpty == Wire(<< >>) = << >>
<1>1. ASSUME NEW calls \in Seq(Calls), Len(calls) = 0
      PROVE  Wire(calls) = << >>
  BY <1>1, WireRecursion
<1>2. << >> \in Seq(Calls) /\ Len(<< >>) = 0
  BY EmptySeq
<1>. QED
  BY <1>1, <1>2

(* One call more appends what it writes: the writer's view of a message.   *)
LEMMA WireAppend ==
  ASSUME NEW calls \in Seq(Calls), NEW call \in Calls
  PROVE  Wire(Append(calls, call)) = Wire(calls) \o Piece(call)
<1>. DEFINE s == Append(calls, call)
            n == Len(calls)
<1>1. /\ s \in Seq(Calls) /\ Len(s) = n + 1 /\ s[n + 1] = call
      /\ \A i \in 1 .. n : s[i] = calls[i]
      /\ n \in Nat
  BY AppendProperties, LenProperties
<1>. HIDE DEF s
<1>2. PICK f \in [0 .. Len(s) -> Seq(Octet)] :
           /\ f[0] = << >>
           /\ \A i \in 1 .. Len(s) : f[i] = f[i - 1] \o Piece(s[i])
           /\ Wire(s) = f[Len(s)]
  BY <1>1, WireRecursion
<1>3. PICK g \in [0 .. n -> Seq(Octet)] :
           /\ g[0] = << >>
           /\ \A i \in 1 .. n : g[i] = g[i - 1] \o Piece(calls[i])
           /\ Wire(calls) = g[n]
  BY WireRecursion
<1>. HIDE DEF n
<1>4. f[n] = g[n]
  <2>. DEFINE Bad == {i \in 0 .. n : f[i] # g[i]}
  <2>. SUFFICES ASSUME Bad # {} PROVE FALSE
    <3>1. n \in 0 .. n
      BY <1>1
    <3>. QED
      BY <3>1
  <2>1. PICK m \in Bad : \A y \in Bad : m <= y
    <3>1. Bad \in SUBSET Nat
      BY <1>1
    <3>. QED
      BY <3>1, MinIsLeast
  <2>2. m \in 1 .. n
    BY <1>1, <1>2, <1>3
  <2>3. m - 1 \in 0 .. n /\ m - 1 \notin Bad
    BY <1>1, <2>1, <2>2
  <2>4. f[m - 1] = g[m - 1]
    BY <2>3
  <2>5. m \in 1 .. Len(s) /\ s[m] = calls[m]
    BY <1>1, <2>2
  <2>6. f[m] = f[m - 1] \o Piece(s[m]) /\ g[m] = g[m - 1] \o Piece(calls[m])
    BY <1>2, <1>3, <2>2, <2>5
  <2>. QED
    BY <2>4, <2>5, <2>6
<1>5. n + 1 \in 1 .. Len(s) /\ (n + 1) - 1 = n
  BY <1>1
<1>6. f[n + 1] = f[(n + 1) - 1] \o Piece(s[n + 1])
  BY <1>2, <1>5
<1>. QED
  BY <1>1, <1>2, <1>3, <1>4, <1>5, <1>6 DEF s

(* A message starts with what its first call writes: the reader's view.    *)
LEMMA WireHead ==
  ASSUME NEW calls \in Seq(Calls), calls # << >>
  PROVE  Wire(calls) = Piece(Head(calls)) \o Wire(Tail(calls))
<1>0. \A x, y, z \in Seq(Octet) : (x \o y) \o z = x \o (y \o z)
  BY ConcatAssociative
<1>. DEFINE Splits(s) == Wire(s) = Piece(Head(s)) \o Wire(Tail(s))
            Bad == {n \in Nat : \E s \in Seq(Calls) : s # << >> /\ Len(s) = n /\ ~ Splits(s)}
<1>1. Bad = {}
  <2>. SUFFICES ASSUME Bad # {} PROVE FALSE
    OBVIOUS
  <2>1. PICK n \in Bad : \A y \in Bad : n <= y
    <3>1. Bad \in SUBSET Nat
      OBVIOUS
    <3>. QED
      BY <3>1, MinIsLeast
  <2>2. PICK s \in Seq(Calls) : s # << >> /\ Len(s) = n /\ ~ Splits(s)
    OBVIOUS
  <2>3. PICK r \in Seq(Calls), e \in Calls : s = Append(r, e)
    BY <2>2, SequenceEmptyOrAppend
  <2>4. Wire(s) = Wire(r) \o Piece(e) /\ Piece(e) \in Seq(Octet)
    BY <2>3, WireAppend, PieceOctets
  <2>5. CASE r = << >>
    <3>1. Head(s) = e /\ Tail(s) = << >>
      BY <2>3, <2>5, HeadTailAppend
    <3>2. Wire(s) = << >> \o Piece(e)
      BY <2>4, <2>5, WireEmpty
    <3>3. << >> \o Piece(e) = Piece(e) \o << >>
      BY <2>4, ConcatEmptySeq
    <3>. QED
      BY <2>2, <3>1, <3>2, <3>3, WireEmpty
  <2>6. CASE r # << >>
    <3>1. Head(s) = Head(r) /\ Tail(s) = Append(Tail(r), e)
      BY <2>3, <2>6, HeadTailAppend
    <3>2. Tail(r) \in Seq(Calls) /\ Head(r) \in Calls
      BY <2>6, HeadTailProperties
    <3>3. Splits(r)
      <4>1. Len(r) \in Nat /\ n = Len(r) + 1
        BY <2>2, <2>3, AppendProperties, LenProperties
      <4>. HIDE DEF Splits
      <4>2. Len(r) \notin Bad
        <5>. HIDE DEF Bad
        <5>. QED
          BY <2>1, <4>1
      <4>. QED
        BY <2>6, <4>1, <4>2
    <3>4. Wire(Tail(s)) = Wire(Tail(r)) \o Piece(e)
      BY <3>1, <3>2, WireAppend
    <3>. DEFINE a == Piece(Head(r))
                b == Wire(Tail(r))
                c == Piece(e)
    <3>5. a \in Seq(Octet) /\ b \in Seq(Octet) /\ c \in Seq(Octet)
      BY <3>2, PieceOctets, WireOctets
    <3>6. Wire(s) = (a \o b) \o c /\ Piece(Head(s)) \o Wire(Tail(s)) = a \o (b \o c)
      BY <2>4, <3>1, <3>3, <3>4
    <3>. HIDE DEF a, b, c
    <3>7. (a \o b) \o c = a \o (b \o c)
      BY <1>0, <3>5
    <3>. QED
      BY <2>2, <3>6, <3>7
  <2>. QED
    BY <2>5, <2>6
<1>2. Len(calls) \in Nat
  BY LenProperties
<1>. QED
  BY <1>1, <1>2

-----------------------------------------------------------------------------
(* Writer and reader.                                                     *)

(* The octets still to come after the ones in the view.                    *)
Missing(more) ==
  /\ view \in Seq(Octet) /\ more \in Seq(Octet)
  /\ view \o more = Wire(expected)
  /\ whole => more = << >>

(* The calls to make are meant; those made are all in the buffer, unless   *)
(* the message was given up.                                               *)
WriterOK ==
  /\ todo \in Seq({call \in Calls : Meant(call)})
  /\ sent \in Seq(GoodCall)
  /\ todo # << >> \/ sent # << >> => out = Wire(sent)

(* What the reader has and what is missing are the calls it expects.       *)
ReaderOK ==
  /\ expected \in Seq(GoodCall)
  /\ expected # << >> => \E more : Missing(more)

LinkInv == IInv /\ WriterOK /\ ReaderOK /\ RoundTrip

(* A sequence of some calls is one of any calls.                           *)
LEMMA GoodCalls ==
  ASSUME NEW calls \in Seq(GoodCall)
  PROVE  calls \in Seq(Calls)
<1>1. GoodCall \subseteq Calls
  BY DEF GoodCall
<1>2. calls \in [1 .. Len(calls) -> GoodCall] /\ Len(calls) \in Nat
  BY LenProperties
<1>3. calls \in [1 .. Len(calls) -> Calls]
  BY <1>1, <1>2
<1>. QED
  BY <1>2, <1>3

(* The messages are of meant calls.                                        *)
LEMMA ScriptCalls ==
  ASSUME NEW script \in Scripts
  PROVE  script \in Seq({call \in Calls : Meant(call)})
<1>1. script \in Seq(Calls) /\ \A i \in DOMAIN script : Meant(script[i])
  BY LinkAssumption
<1>2. script \in [1 .. Len(script) -> Calls] /\ Len(script) \in Nat /\ DOMAIN script = 1 .. Len(script)
  BY <1>1, LenProperties
<1>3. \A i \in 1 .. Len(script) : script[i] \in {call \in Calls : Meant(call)}
  BY <1>1, <1>2
<1>4. script = [i \in 1 .. Len(script) |-> script[i]]
  BY <1>2
<1>5. script \in [1 .. Len(script) -> {call \in Calls : Meant(call)}]
  BY <1>3, <1>4
<1>. QED
  BY <1>2, <1>5

(* Nothing is written and nothing expected at first.                       *)
LEMMA InitLinkInv == Init => LinkInv
<1>. SUFFICES ASSUME Init PROVE LinkInv
  OBVIOUS
<1>1. OerInit /\ out = << >> /\ todo \in Scripts /\ sent = << >> /\ expected = << >> /\ asked = NoCall
  BY DEF Init, OerInit
<1>2. IInv
  BY <1>1, InitIInv
<1>3. WriterOK
  BY <1>1, ScriptCalls, WireEmpty, EmptySeq DEF WriterOK
<1>4. ReaderOK /\ RoundTrip
  BY <1>1, EmptySeq DEF ReaderOK, RoundTrip
<1>. QED
  BY <1>2, <1>3, <1>4 DEF LinkInv

(* A step of the application keeps the invariant of the encoder.           *)
LEMMA LinkStepIInv ==
  ASSUME LinkInv, [Next]_vars
  PROVE  IInv' /\ [WholePieceStep]_<<out, pending, ret>>
<1>1. WriteNext => \E call \in Calls : Encode(call)
  <2>. SUFFICES ASSUME WriteNext PROVE \E call \in Calls : Encode(call)
    OBVIOUS
  <2>1. todo # << >> /\ Encode(Head(todo))
    BY DEF WriteNext
  <2>2. Head(todo) \in {call \in Calls : Meant(call)}
    BY <2>1, HeadTailProperties DEF LinkInv, WriterOK
  <2>. QED
    BY <2>1, <2>2
<1>2. [OerNext]_encoder_vars
  BY <1>1 DEF Next, OerNext, vars, Deliver, NextMessage, ReadNext, FlushEncoder
<1>. QED
  BY <1>2, StepIInv DEF LinkInv

(* Nothing on the reader's side moves.                                     *)
LEMMA ReaderKept ==
  ASSUME LinkInv, UNCHANGED reader_vars
  PROVE  ReaderOK' /\ RoundTrip'
<1>1. UNCHANGED <<view, got, expected, asked, whole>>
  BY DEF reader_vars
<1>2. \A more : Missing(more)' <=> Missing(more)
  BY <1>1 DEF Missing
<1>. QED
  BY <1>1, <1>2 DEF LinkInv, ReaderOK, RoundTrip

(* A call succeeds with all of its octets, and only a well-formed one.     *)
LEMMA EncodeWrites ==
  ASSUME IInv, NEW call \in Calls, Encode(call)
  PROVE  ret'.err = "ok" => WellFormed(call) /\ out' = out \o Piece(call)
<1>1. WholePieceStep
  BY ConstrainedStep, PutStep DEF Encode
<1>2. ret'.call = call
  <2>1. \E err : ret' = [call |-> call, err |-> err]
    BY DEF Encode, Put, encode_constrained_integer, Answer
  <2>. QED
    BY <2>1
<1>3. call # NoCall
  <2>1. call.op \in Operations /\ NoCall.op = "none"
    BY OerAssumption DEF NoCall, Call
  <2>2. "none" \notin Operations
    BY DEF Operations
  <2>. QED
    BY <2>1, <2>2
<1>. QED
  BY <1>1, <1>2, <1>3 DEF WholePieceStep

(* A call written joins those sent, with its octets.                       *)
LEMMA WriteNextStep ==
  ASSUME LinkInv, WriteNext
  PROVE  WriterOK'
<1>. DEFINE call == Head(todo)
<1>1. /\ todo # << >> /\ Encode(call)
      /\ IF ret'.err = "ok" THEN todo' = Tail(todo) /\ sent' = Append(sent, call)
                            ELSE todo' = << >> /\ sent' = << >>
  BY DEF WriteNext
<1>2. /\ call \in Calls /\ Meant(call)
      /\ Tail(todo) \in Seq({c \in Calls : Meant(c)})
  <2>1. call \in {c \in Calls : Meant(c)} /\ Tail(todo) \in Seq({c \in Calls : Meant(c)})
    BY <1>1, HeadTailProperties DEF LinkInv, WriterOK
  <2>. QED
    BY <2>1
<1>. HIDE DEF call
<1>3. CASE ret'.err = "ok"
  <2>1. WellFormed(call) /\ out' = out \o Piece(call)
    BY <1>1, <1>2, <1>3, EncodeWrites DEF LinkInv
  <2>2. call \in GoodCall /\ sent \in Seq(GoodCall)
    BY <1>2, <2>1 DEF GoodCall, LinkInv, WriterOK
  <2>3. sent' \in Seq(GoodCall)
    BY <1>1, <1>3, <2>2, AppendProperties
  <2>4. Wire(sent') = Wire(sent) \o Piece(call)
    BY <1>1, <1>2, <1>3, <2>2, GoodCalls, WireAppend
  <2>5. out = Wire(sent)
    BY <1>1 DEF LinkInv, WriterOK
  <2>. QED
    BY <1>1, <1>2, <1>3, <2>1, <2>3, <2>4, <2>5 DEF WriterOK
<1>4. CASE ret'.err # "ok"
  BY <1>1, <1>4, EmptySeq DEF WriterOK
<1>. QED
  BY <1>3, <1>4

(* The reader gets the octets of the calls sent, or the first of them.     *)
LEMMA DeliverStep ==
  ASSUME LinkInv, Deliver
  PROVE  ReaderOK' /\ RoundTrip'
<1>1. /\ sent # << >> /\ expected' = sent /\ asked' = NoCall
      /\ \E k \in 0 .. Len(out) : view' = Take(out, k) /\ whole' = (k = Len(out))
  BY DEF Deliver
<1>2. out = Wire(sent) /\ sent \in Seq(GoodCall) /\ out \in Seq(Octet)
  BY <1>1 DEF LinkInv, WriterOK, IInv, TypeOK
<1>3. PICK k \in 0 .. Len(out) : view' = Take(out, k) /\ whole' = (k = Len(out))
  BY <1>1
<1>. DEFINE more == Drop(out, k)
<1>4. Take(out, k) \in Seq(Octet) /\ more \in Seq(Octet) /\ Len(more) = Len(out) - k
  BY <1>2, TakeProperties
<1>5. Take(out, k) \o more = out
  <2>1. 1 \in 1 .. Len(out) + 1 /\ k \in 1 - 1 .. Len(out) /\ Len(out) \in k .. Len(out)
    BY <1>2, LenProperties
  <2>2. SubSeq(out, 1, k) \o SubSeq(out, k + 1, Len(out)) = SubSeq(out, 1, Len(out))
    BY <1>2, <2>1, ConcatAdjacentSubSeq
  <2>3. SubSeq(out, 1, Len(out)) = out
    BY <1>2, SubSeqFull
  <2>. QED
    BY <2>2, <2>3 DEF Take, Drop
<1>6. whole' => more = << >>
  <2>1. Len(out) \in Nat
    BY <1>2, LenProperties
  <2>2. k = Len(out) => Len(more) = 0
    BY <1>4, <2>1
  <2>. QED
    BY <1>3, <1>4, <2>2, EmptySeq
<1>. HIDE DEF more
<1>7. \E m : /\ view' \in Seq(Octet) /\ m \in Seq(Octet)
             /\ view' \o m = Wire(sent) /\ (whole' => m = << >>)
  BY <1>2, <1>3, <1>4, <1>5, <1>6
<1>8. ReaderOK'
  <2>1. PICK m : /\ view' \in Seq(Octet) /\ m \in Seq(Octet)
                 /\ view' \o m = Wire(sent) /\ (whole' => m = << >>)
    BY <1>7
  <2>2. Missing(m)'
    BY <1>1, <2>1 DEF Missing
  <2>. QED
    BY <1>1, <1>2, <2>2 DEF ReaderOK
<1>. QED
  BY <1>1, <1>8 DEF RoundTrip

(* A read answers the value sent and leaves the octets of the others, or   *)
(* it fails on a message that was cut.                                     *)
LEMMA ReadNextStep ==
  ASSUME LinkInv, ReadNext
  PROVE  ReaderOK' /\ RoundTrip'
<1>. DEFINE call == Head(expected)
            rest == Wire(Tail(expected))
            r    == Decode(call, view)
<1>1. /\ expected # << >> /\ view' = r.rest /\ got' = [err |-> r.err, data |-> r.data]
      /\ expected' = IF r.err = "ok" THEN Tail(expected) ELSE << >>
      /\ asked' = call /\ whole' = whole
  BY DEF ReadNext
<1>2. expected \in Seq(GoodCall) /\ RoundTrip
  BY DEF LinkInv, ReaderOK
<1>3. PICK more : Missing(more)
  BY <1>1 DEF LinkInv, ReaderOK
<1>4. /\ call \in GoodCall /\ call \in Calls /\ Meant(call) /\ Tail(expected) \in Seq(GoodCall)
      /\ rest \in Seq(Octet)
  <2>1. call \in GoodCall /\ Tail(expected) \in Seq(GoodCall)
    BY <1>1, <1>2, HeadTailProperties
  <2>2. rest \in Seq(Octet)
    BY <2>1, GoodCalls, WireOctets
  <2>. QED
    BY <2>1, <2>2 DEF GoodCall
<1>5. /\ view \in Seq(Octet) /\ more \in Seq(Octet) /\ (whole => more = << >>)
      /\ view \o more = Piece(call) \o rest
  <2>1. Wire(expected) = Piece(call) \o rest
    BY <1>1, <1>2, GoodCalls, WireHead
  <2>. QED
    BY <1>3, <2>1 DEF Missing
<1>. HIDE DEF call, rest
<1>6. Decode(call, view \o more) = Got("ok", Meaning(call), rest)
  BY <1>4, <1>5, PieceReads
<1>7. SameWithMore(r, Decode(call, view \o more), more)
  BY <1>4, <1>5, DecodeMore
<1>8. got'.err = r.err /\ got'.data = r.data
  BY <1>1
<1>. HIDE DEF r
<1>9. CASE r.err = "ok"
  <2>1. r.data = Meaning(call) /\ r.rest \o more = rest /\ r.rest \in Seq(Octet)
    <3>. DEFINE q == Decode(call, view \o more)
                a == Meaning(call)
    <3>1. q = Got("ok", a, rest) /\ SameWithMore(r, q, more)
      BY <1>6, <1>7
    <3>. HIDE DEF q, a
    <3>2. q.data = a /\ q.rest = rest
      BY <3>1, GotFields
    <3>3. q.data = r.data /\ q.rest = r.rest \o more /\ r.rest \in Seq(Octet)
      BY <1>9, <3>1, MoreFields
    <3>. QED
      BY <3>2, <3>3 DEF a
  <2>2. expected' = Tail(expected)
    BY <1>1, <1>9
  <2>3. Missing(more)'
    BY <1>1, <1>5, <2>1, <2>2 DEF Missing, rest
  <2>4. ReaderOK'
    BY <1>4, <2>2, <2>3 DEF ReaderOK
  <2>5. RoundTrip'
    BY <1>1, <1>8, <1>9, <2>1 DEF RoundTrip
  <2>. QED
    BY <2>4, <2>5
<1>10. CASE r.err # "ok"
  <2>1. ~ whole
    <3>. SUFFICES ASSUME whole PROVE FALSE
      OBVIOUS
    <3>1. view \o more = view
      BY <1>5, ConcatEmptySeq
    <3>2. r = Got("ok", Meaning(call), rest)
      BY <1>6, <3>1 DEF r
    <3>. DEFINE a == Meaning(call)
    <3>. HIDE DEF a
    <3>3. r = Got("ok", a, rest)
      BY <3>2 DEF a
    <3>4. r.err = "ok"
      BY <3>3, GotFields
    <3>. QED
      BY <1>10, <3>4
  <2>2. expected' = << >> /\ << >> \in Seq(GoodCall)
    BY <1>1, <1>10, EmptySeq
  <2>3. ReaderOK'
    BY <2>2 DEF ReaderOK
  <2>4. RoundTrip'
    BY <1>1, <1>8, <1>10, <2>1 DEF RoundTrip
  <2>. QED
    BY <2>3, <2>4
<1>. QED
  BY <1>9, <1>10

(* Every step keeps writer and reader in step.                             *)
LEMMA StepLinkInv == LinkInv /\ [Next]_vars => LinkInv'
<1>. SUFFICES ASSUME LinkInv, [Next]_vars PROVE LinkInv'
  OBVIOUS
<1>1. IInv'
  BY LinkStepIInv
<1>2. ASSUME UNCHANGED <<out, todo, sent>> PROVE WriterOK'
  BY <1>2 DEF LinkInv, WriterOK
<1>3. CASE WriteNext
  BY <1>1, <1>3, WriteNextStep, ReaderKept DEF WriteNext, LinkInv
<1>4. CASE Deliver
  <2>1. UNCHANGED <<out, todo, sent>>
    BY <1>4 DEF Deliver, encoder_vars
  <2>. QED
    BY <1>1, <1>2, <1>4, <2>1, DeliverStep DEF LinkInv
<1>5. CASE NextMessage
  <2>1. /\ out' = << >> /\ todo' \in Scripts /\ sent' = << >>
        /\ expected' = << >> /\ asked' = NoCall
    BY <1>5 DEF NextMessage, next_buffer
  <2>2. WriterOK'
    BY <2>1, ScriptCalls, WireEmpty, EmptySeq DEF WriterOK
  <2>3. ReaderOK' /\ RoundTrip'
    BY <2>1, EmptySeq DEF ReaderOK, RoundTrip
  <2>. QED
    BY <1>1, <2>2, <2>3 DEF LinkInv
<1>6. CASE ReadNext
  <2>1. UNCHANGED <<out, todo, sent>>
    BY <1>6 DEF ReadNext, encoder_vars
  <2>. QED
    BY <1>1, <1>2, <1>6, <2>1, ReadNextStep DEF LinkInv
<1>7. CASE FlushEncoder
  <2>1. UNCHANGED <<out, todo, sent>> /\ UNCHANGED reader_vars
    BY <1>7 DEF FlushEncoder, flush_encode
  <2>. QED
    BY <1>1, <1>2, <2>1, ReaderKept DEF LinkInv
<1>8. CASE UNCHANGED vars
  <2>1. UNCHANGED <<out, todo, sent>> /\ UNCHANGED reader_vars
    BY <1>8 DEF vars, encoder_vars
  <2>. QED
    BY <1>1, <1>2, <2>1, ReaderKept DEF LinkInv
<1>. QED
  BY <1>3, <1>4, <1>5, <1>6, <1>7, <1>8 DEF Next

(* What some octets complete is a beginning of the whole.                  *)
LEMMA MissingIsInStep ==
  ASSUME NEW more, Missing(more)
  PROVE  IF whole THEN view = Wire(expected) ELSE IsPrefix(view, Wire(expected))
<1>. DEFINE t == Wire(expected)
<1>1. view \in Seq(Octet) /\ more \in Seq(Octet) /\ view \o more = t /\ (whole => more = << >>)
  BY DEF Missing
<1>2. Len(view) \in Nat /\ Len(more) \in Nat /\ Len(t) = Len(view) + Len(more)
  BY <1>1, LenProperties, ConcatProperties
<1>3. SubSeq(t, 1, Len(view)) = view
  BY <1>1, TakeDropConcat DEF Take
<1>4. IsPrefix(view, t)
  BY <1>1, <1>2, <1>3, SubSeqFull DEF IsPrefix
<1>5. whole => view = t
  BY <1>1, ConcatEmptySeq
<1>. QED
  BY <1>4, <1>5

(* An INTEGER at the head of a complete message passes the validator.      *)
LEMMA OwnIntegerPasses ==
  ASSUME NEW call \in GoodCall, call.op = "integer", NEW rest \in Seq(Octet)
  PROVE  coer_validate_integer(call.meta, Piece(call) \o rest) = "ok"
<1>. DEFINE x == Piece(call) \o rest
            v == call.data[1]
            c == contents(call)
            n == Len(c)
            t == c \o rest
<1>1. call \in Calls /\ v \in SWord /\ c \in Seq(Octet) /\ n \in Nat /\ t \in Seq(Octet)
  BY OerAssumption, PieceSplits, LenProperties DEF GoodCall, WellTyped
<1>2. CASE call.meta.bounded
  <2>1. x # << >>
    <3>1. constrained(call)
      BY <1>2 DEF constrained
    <3>2. Len(Piece(call)) = integer_byte_width(call.meta) /\ Piece(call) \in Seq(Octet)
      BY <1>1, <3>1, ConstrainedPiece
    <3>3. integer_byte_width(call.meta) \in 1 .. WordOctets
      BY WidthBounds
    <3>4. Len(x) = Len(Piece(call)) + Len(rest) /\ Len(rest) \in Nat
      BY <3>2, ConcatProperties, LenProperties
    <3>5. Len(x) # 0
      <4>. DEFINE k == integer_byte_width(call.meta)
      <4>. HIDE DEF k
      <4>1. Len(x) = k + Len(rest) /\ k \in 1 .. WordOctets
        BY <3>2, <3>3, <3>4 DEF k
      <4>. QED
        BY <3>4, <4>1, WordAssumption
    <3>. QED
      BY <3>5, EmptySeq
  <2>. HIDE DEF x
  <2>2. coer_validate_integer(call.meta, x) = "ok"
    BY <1>2, <2>1 DEF coer_validate_integer
  <2>. QED
    BY <2>2 DEF x
<1>3. CASE ~ call.meta.bounded
  <2>1. c = encode_integer_bytes(v) /\ prefix(call) = encode_length_determinant(n)
    <3>1. c = encode_integer_bytes(v)
      BY <1>3 DEF contents
    <3>2. counted(call)
      BY <1>3 DEF counted
    <3>. QED
      BY <3>1, <3>2, CountedPrefix
  <2>2. n \in 1 .. 8
    <3>1. encoded_integer_size(v) \in 1 .. WordOctets /\ v \in Int
      <4>. HIDE DEF v
      <4>1. encoded_integer_size(v) \in 1 .. WordOctets
        BY <1>1, EncodedSizeFits
      <4>2. v \in Int
        BY <1>1 DEF SWord
      <4>. QED
        BY <4>1, <4>2
    <3>2. encoded_integer_size(v) \in 0 .. WordOctets
      BY <3>1, WordAssumption
    <3>3. n = encoded_integer_size(v)
      BY <2>1, <3>1, <3>2, OctetsAreOctets DEF encode_integer_bytes
    <3>4. n \in 1 .. WordOctets
      BY <3>1, <3>3
    <3>. HIDE DEF n
    <3>. QED
      BY <3>4, WordAssumption
  <2>3. encode_length_determinant(n) = <<n>>
    <3>. HIDE DEF n
    <3>. QED
      BY <2>2 DEF encode_length_determinant
  <2>4. x = <<n>> \o t
    <3>1. x = prefix(call) \o t
      BY <1>1, PieceSplits
    <3>. QED
      BY <2>1, <2>3, <3>1
  <2>5. n # 1 => ~ Redundant(c)
    BY <1>1, <2>1, EncodedNotRedundant
  <2>6. SubSeq(x, 2, 1 + n) = c
    <3>. DEFINE s == <<n>> \o t
    <3>1. /\ s \in Seq(Octet) /\ Len(s) = 1 + Len(t) /\ Len(t) = n + Len(rest) /\ Len(rest) \in Nat
          /\ \A i \in 1 .. Len(t) : s[1 + i] = t[i]
      <4>1. n \in Octet
        <5>. HIDE DEF n
        <5>. QED
          BY <2>2 DEF Octet
      <4>2. Len(t) = n + Len(rest) /\ Len(rest) \in Nat
        BY <1>1, LenProperties, ConcatProperties
      <4>. HIDE DEF n, t
      <4>. QED
        BY <1>1, <4>1, <4>2
    <3>2. \A i \in 1 .. n : t[i] = c[i]
      BY <1>1, FrontOfConcat
    <3>. HIDE DEF s, t
    <3>3. 1 + Len(c) <= Len(s) /\ \A i \in 1 .. Len(c) : s[1 + i] = c[i]
      BY <1>1, <3>1, <3>2
    <3>4. SubSeq(s, 2, 1 + Len(c)) = c
      BY <1>1, <3>1, <3>3, CutAfterFirst
    <3>. QED
      BY <2>4, <3>4 DEF s
  <2>7. x # << >> /\ x[1] = n /\ Len(x) >= 1 + n /\ Len(x) \in Nat
    <3>1. Len(t) = n + Len(rest) /\ Len(rest) \in Nat
      BY <1>1, LenProperties, ConcatProperties
    <3>. HIDE DEF n, t, x
    <3>2. Len(x) = 1 + Len(t) /\ x[1] = n
      BY <1>1, <2>4
    <3>. QED
      BY <1>1, <3>1, <3>2, EmptySeq
  <2>8. is_integer_bytes_minimal(c)
    <3>1. n = 1 \/ ~ Redundant(c)
      BY <2>5
    <3>. HIDE DEF c
    <3>. QED
      BY <3>1, Zenon DEF is_integer_bytes_minimal, Redundant, n
  <2>. HIDE DEF x, n, c, t
  <2>9. SubSeq(x, 1 + 1, 1 + n) = c
    BY <2>6
  <2>. DEFINE first  == x[1]
              start  == IF first < 128 THEN 1 ELSE 1 + (first % 64)
              length == IF first < 128 THEN first ELSE Unsigned(SubSeq(x, 2, start))
  <2>10. /\ first < 128 /\ ~ (first > 127) /\ ~ (first > 191) /\ first <= 191
         /\ start = 1 /\ length = n /\ n # 0
    BY <2>2, <2>7
  <2>11. ~ (Len(x) < start) /\ ~ (Len(x) < start + length)
    BY <2>2, <2>7, <2>10
  <2>12. is_integer_bytes_minimal(SubSeq(x, start + 1, start + length))
    BY <2>8, <2>9, <2>10
  <2>13. coer_validate_integer(call.meta, x) =
           CASE x = << >> -> "constraint_violation"
             [] x # << >> /\ call.meta.bounded -> "ok"
             [] x # << >> /\ ~ call.meta.bounded ->
                  CASE first > 191 \/ (first > 127 /\ first % 64 \notin 1 .. 4) -> "constraint_violation"
                    [] first <= 191 /\ (first > 127 => first % 64 \in 1 .. 4) ->
                         IF Len(x) < start \/ Len(x) < start + length THEN "buffer_underflow"
                         ELSE IF length = 0
                              \/ ~ is_integer_bytes_minimal(SubSeq(x, start + 1, start + length))
                           THEN "constraint_violation" ELSE "ok"
    BY DEF coer_validate_integer
  <2>. HIDE DEF first, start, length
  <2>14. coer_validate_integer(call.meta, x) = "ok"
    BY <1>3, <2>7, <2>10, <2>11, <2>12, <2>13
  <2>. QED
    BY <2>14 DEF x
<1>. QED
  BY <1>2, <1>3

(* Every reachable state of OerLink satisfies the invariant.               *)
THEOREM OerLinkInvariant == Spec => []LinkInv
<1>. QED
  BY InitLinkInv, StepLinkInv, PTL DEF Spec

(* Between reads of a message the view holds exactly the octets of the     *)
(* elements still expected, or a beginning of them if the message was cut: *)
(* no decoder takes an octet too many or too few.                          *)
THEOREM OerStaysInStep == Spec => []InStep
<1>1. LinkInv => InStep
  BY MissingIsInStep DEF LinkInv, ReaderOK, InStep
<1>. QED
  BY <1>1, OerLinkInvariant, PTL

(* What oer_encoder wrote, oer_decoder reads as the value it was given: a  *)
(* complete message without an error, a cut one with the right values or   *)
(* an error.                                                               *)
THEOREM OerRoundTrip == Spec => []RoundTrip
<1>1. LinkInv => RoundTrip
  BY DEF LinkInv
<1>. QED
  BY <1>1, OerLinkInvariant, PTL

(* coer_validate_integer accepts every INTEGER of oer_encoder's, in any    *)
(* message: its contents never have a redundant first octet.               *)
THEOREM OerOwnIntegersCanonical == Spec => []OwnIntegersCanonical
<1>1. LinkInv => OwnIntegersCanonical
  <2>. SUFFICES ASSUME LinkInv, expected # << >>, whole, Head(expected).op = "integer"
                PROVE  coer_validate_integer(Head(expected).meta, view) = "ok"
    BY DEF OwnIntegersCanonical
  <2>1. expected \in Seq(GoodCall) /\ view = Wire(expected)
    BY MissingIsInStep DEF LinkInv, ReaderOK
  <2>2. Head(expected) \in GoodCall /\ Tail(expected) \in Seq(GoodCall)
    BY <2>1, HeadTailProperties
  <2>3. Wire(Tail(expected)) \in Seq(Octet) /\ view = Piece(Head(expected)) \o Wire(Tail(expected))
    BY <2>1, <2>2, GoodCalls, WireOctets, WireHead
  <2>. QED
    BY <2>2, <2>3, OwnIntegerPasses
<1>. QED
  BY <1>1, OerLinkInvariant, PTL
=============================================================================
