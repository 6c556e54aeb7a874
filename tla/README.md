# asn1pp in TLA+

asn1pp is an ASN.1 toolkit in C++: a library of codecs (BER, DER, OER, COER,
PER aligned and unaligned, JER, XER and variants) under `src/libs`, and a code
generator that turns an ASN.1 schema into C++ types with the metadata those
codecs are instantiated with, under `src/src/gen`.  This directory holds TLA+
models of the codecs, binary and text, and of the generator from the parser to
the output file, the TLC configurations that check them, and proofs, checked by
TLAPS, of what matters most about BER, OER and PER on both sides, DER and the
schema front ends.

The models are translations of the code, not of the standards.  Where the code
and its own documentation disagree the model follows the code, and a run shows
the disagreement.

## 1. The system

### Components

| Component | State it keeps | Operations | Modelled by |
|---|---|---|---|
| BER encoder (`codec/ber/encoder.hpp`, `ber_encoder.cpp`) | `pending_`, a batch of up to 4 INTEGERs; the caller's `buffer_view` | one `encode_*` per type, `encode_tlv`, sequence header and end, `flush_encode` | `BerEncoder`; promise: `TlvWriter` |
| BER decoder (`codec/ber/decoder.hpp`, `ber_decoder.cpp`) | `pending_`, the contents of up to 4 INTEGERs; the caller's view | one `decode_*` per type, `decode_tlv`, `skip_tlv`, `peek_tag`, sequence header and end, `flush_decode` | `BerDecoder`; promise: `TlvReader` |
| TLV primitives (`codec/ber/tlv.hpp`) | none | identifier and length octets, whole elements | `Tlv`, `BerElement` |
| DER (`codec/ber/der_encoder.*`) | a `ber_encoder` it delegates to | the encoders; `validate` and the checks it is made of | `Der` |
| Batch codec (`codec/arch_codec.hpp`, `codec/batch_buffer.hpp`, `arch/detect.hpp`) | a static SIMD level per process | `batch_encode_integers`, `batch_decode_integers`, `push`, `drain` | `ArchCodec`, and the `pending` of each codec |
| Two's complement integers (inside every binary codec) | none | minimal form, sign extension | `Word` |
| OER codec (`codec/oer/encoder.hpp`, `decoder.hpp`) | the encoder's `pending_` of constrained INTEGERs | one encoder and decoder per type, `flush_encode` | `Oer` (octets), `OerEncoder` (state) |
| COER validator (`codec/oer/coer_validator.hpp`) | none | `validate_integer` and others | `coer_validate_integer` in `Oer`; the rest is left |
| PER, UPER (`codec/per`) | the bit offset of each object; the decoder's batch | one encoder and decoder per type, `flush`, `flush_decode` | `Per` (bits), `PerLink` (both objects and the application) |
| JER (`codec/jer`) | `need_comma_stack_` of the encoder | `encode_*`, open, close, `add_key`; the parser; `decode_*`, `get_field` | `Jer` |
| XER, CXER, E-XER (`codec/xer`) | a process-wide `current_sequence_` | the encoders, the parser, `decode_*`, `open_sequence`, `field_is_present`; `validate` | `Xer` |
| Schema parser (`src/src/gen`: lexer, parser, diagnostics, `schema_parser`) | the token it is at, the calls it is in, the classes it has seen, diagnostics | every production with its recovery; `parse_file`, `parse_string` | `SchemaParser`, `SchemaTool` |
| Generator (`main.cpp`, `generator.cpp`) | the output file | parse, report, open, dispatch, write | `SchemaTool` |
| Application (`examples/`, generated code) | one encoder, one decoder, its buffers | encodes a message, sends it, decodes it | `BerLink`, `OerLink`, `PerLink`, `TextLink` |
| Tagged codecs (`codec/ber/tagged_codec.hpp`) | a scratch buffer | implicit and explicit tagging | left out: nothing calls them |
| Emitters (`src/src/gen/emitter_*.cpp`) | none | C++ text | left out: properties would be about wording |
| SIMD kernels (`arch/*.hpp`) | none | loads, stores, copies | left out: same octets at every level; only the width and the error rules are visible, and those are in `ArchCodec` |

### How they interact

A codec object belongs to one thread.  The caller hands it a `buffer_view` by
reference and the codec moves the view; there are no callbacks, locks or
messages inside the library.  What makes the library hard is not concurrency
but **state that outlives a call**.  To feed SIMD registers, `encode_integer`
and `decode_integer` push each value to a `pending_` batch in the codec object
and treat the call that fills the batch differently from the others.  The batch

* survives a failed call, a change of buffer and the end of a message;
* is drained at a width found at run time: 1, 2 or 4, by the CPU;
* sits in an array of four whose `push` does not check for room;
* must be invisible: `encoder.hpp` and `decoder.hpp` promise that batching is
  transparent to the caller.

The other hard behaviours are partial failure (a decoder has moved the view
when its last check fails; an OER encoder has written a count when the room for
the contents turns out missing), boundaries of representation (sign octets,
128 as a length and as a sentinel, two- and four-octet widths), and a peer that
sends octets cut short or malformed.

Two more kinds of state outlive a call outside the batches.  The JSON encoder
has a stack that says where a comma is due, and no way to start over; the XER
decoder has one open sequence for the whole process, and no way to close it.
The schema parser carries an error up through productions that return it, look
at it, recover from it, or drop it, while diagnostics and the classes it has
seen stay.  `PROJECT.json` lists each hazard at its line with the properties
that watch it.

### What makes each component correct

* Encoders: a call writes one whole element or nothing; whether it succeeds
  depends on its value and the room alone; an integer has its shortest form.
* Decoders: a call that succeeds has taken a well-formed element and answers
  what its octets say; one that fails does not read past the view and does not
  disturb later calls.
* Batches: never more slots than the array, never a slot wider than its buffer.
* Pairs: reader and writer stay in step and a value decoded is the value
  encoded, whatever failed before.
* DER, COER, CXER: canonical forms are accepted, others refused.
* Text: what is read is the message that was written, or refused.
* Parser and generator: they end on every input, a failure has a diagnostic, a
  success leaves no type of the schema out (with an exception in the code, see
  section 4), and no syntax error reaches a file.

## 2. The modules

    Word -- ArchCodec ------------+-------------+-- Oer -- OerEncoder -- OerLink -- MCOerLink
      |                           |             |                            |
      +-- Tlv -- TlvWriter -- BerEncoder ---+   |                        OerProofs
           |         |            |         |   |
           |         |     BerEncoderProofs +-- BerLink -- MCBerLink
           |         +-- MCBerEncoder       |      |
           |                                |   BerLinkProofs
           +-- BerElement -- TlvReader -- BerDecoder -- MCBerDecoder
                    |                         |
                    |                   BerDecoderProofs
                    +-- Der -- MCDer
                         |
                     DerProofs

    ArchCodec -- Per -- PerLink -- MCPerLink
                           |
                       PerProofs

    Word -- TextCodec -- Jer --+-- TextLink -- MCTextLink
                  |            |
                  +---- Xer ---+
    SchemaParser -- SchemaTool -- MCSchemaTool
                        |
                  SchemaToolProofs

    OctetTheorems (of Word, Tlv and BerElement): the facts about integers and
    octets that every other proof module but SchemaToolProofs rests on

**Word** is `int64_t` and `size_t` with the number of octets as a constant
(`WordOctets`, 8 in the code) and the powers of 256 as a table, so that TLC can
use small words and the provers any.  `encode_integer_bytes` keeps the code's
two steps, strip the sign octets and put one back when the top bit lies;
`decode_integer_value` sign extends.  `ShortestSize` is the reference from
X.690 8.3.

**ArchCodec** is a batch as a function from slots to results: the error rules
(size 0, size over a word, value that does not fit) and the sign extension.

**Tlv, BerElement** read and write identifier, length and contents octets.
A decoder's result carries `rest`, what is left of the view, so that how far
the view moved before an error is part of the model.  Tag numbers wrap at
`TagModulus` (2^32 in the code) as the unchecked shift of `decode_tag` does.

**TlvWriter** and **TlvReader** are the abstract specifications: what a caller
relies on, with no batch.  The writer appends a whole piece when there is room
for it and otherwise nothing, and has no other state than the buffer; its
INTEGER is the standard's shortest form and not the code's algorithm.  The
reader states, without the decoder's algorithm, that the octets taken *are* an
identifier, a length and contents with the answered meaning; a failing call may
leave the view at any later point, since the code does.

**BerEncoder, BerDecoder** are the classes.  Their variables are the class
members (`pending`), the process-wide `level`, and the caller's view (`out` and
`capacity`, or `view`); each public member function is one action, with every
check in the order of the code, plus the caller's own `next_buffer` or
`next_message`.

**BerLink** composes the two by INSTANCE: an application writes messages from a
set of scripts with one encoder, delivers all or a beginning of the octets, and
reads what the schema says comes next with one decoder, perhaps skipping an
element.  Both objects live on over messages; each has its own SIMD level.

**Der** is a machine whose steps produce octets (an element of its own, an
INTEGER, or octets received) and ask `validate` about them.

**Oer** has the octets of OER: the metadata of a type (`Meta`), the preamble,
determinants and widths, and every decoder.  The encoder's and the decoder's
determinants and widths are written separately, as they are in the source.
**OerEncoder** is the class with its batch; **OerLink** the application again.

**Per** has the bits of PER, aligned and unaligned.  The encoders write a layout
of bit fields and alignments, which the unaligned variant ignores; the decoders
are written separately, with every underflow check where the code has it and
the offset a failed read leaves behind.  **PerLink** is an application with one
encoder, one decoder and one buffer that is used again: the message arrives in
pieces, the reader polls, and sets the bit offset back when a read fails.  The
decoder answers an unconstrained INTEGER at once and also keeps it in its
batch; `flush_decode` only empties the batch and no result waits for it, whatever
`docs/api/per.md:146` says (section 4).

**TextCodec, Jer, Xer**: a text is a sequence of characters, with a word nobody
looks into as one character.  The parsers are recursive as in the code, each
answering a value and a position or an error.  The JSON encoder is a record of
its text and its stack.  **TextLink** walks a tree with the calls of one
encoder, may give the message up between two calls, and hands the text to
readers one character at a time.  The JSON reader has the parsed tree and takes
any message from it.  The XML reader has the functions of `xer_decoder` and no
tree: it reads a value that is all of a message, the fields of a SEQUENCE
(`decode_sequence_field_content`) and the alternative of a CHOICE
(`decode_choice_alternative`, `decode_choice_child_content`).  There is no
function for the elements of a SEQUENCE OF, for what is in a container that is a
field or an alternative, for a BOOLEAN alternative (its content is empty) and
for a NULL that is all of a message.  `answerable` is the part of a message that
is left; a reader of the rest is told that it cannot be read.

**SchemaParser** is the parser as a machine over tokens: `todo` is the stack of
calls that have not returned, `failed` says that an error is on its way up, and
each production is a step that puts what it calls on the stack.  `Handler`
lists the calls that look at an error result instead of passing it on.  The
lexer's characters are left out: a token is a member of a small set, `junk` one
the lexer refuses.  **SchemaTool** puts two programs round it: `asn1pp-gen`, and
a `schema_parser` object that is used for one file after another.

Numbers stand for data: a BOOLEAN is 0 or 255, the unused bits of a BIT STRING
are the first number of its argument.

Some definitions are followed by no use but have a name ending in `_late`,
`_anyway`, `_bare` and the like, and a comment "A mutant": each is a plausible
bug in the definition after it, used to confirm that a property notices it.

## 3. What the runs check

| Run | Configuration | Bounds | Properties |
|---|---|---|---|
| `ber_encoder` | `MCBerEncoder` | words of 2 octets; buffers of 3 and 5; values 127, 128, -129 | `TypeOK`, `BatchInBounds`, `Transparent` |
| `ber_decoder` | `MCBerDecoder` | eight messages: complete, cut, with long and indefinite forms, with 128 octets of contents | `TypeOK`, `BatchInBounds`, `ReadsWhatIsThere` |
| `ber_link` | `MCBerLink` | five scripts of three elements; buffers of 6 and 12 | `InStep`, `RoundTrip` |
| `der` | `MCDer` | words of 3 octets; all contents of up to 3 octets over six boundary octets | `TypeOK`, `CanonicalAccepted`, `AcceptedIsPlausible`, `MinimalIsShortest` |
| `der_integer` | `MCDerInteger` | as `der` | `AcceptedIntegerIsMinimal`, refuted |
| `der_own_output` | `MCDerOwnOutput` | two elements | `OwnOutputAccepted`, refuted |
| `oer` | `MCOerLink` | words of 3 octets; nine scripts; buffers of 3, 12 and 136 | `TypeOK`, `BatchInBounds`, `InStep`, `RoundTrip`, `OwnIntegersCanonical`, `WholePieceOrError` |
| `oer_unsigned` | `MCOerUnsigned` | as `oer`, one buffer size | `StatelessPerCall`, refuted |
| `per` | `MCPerLink` | words of 3 octets; twelve scripts; a buffer of 88 bits | `TypeOK`, `BatchInBounds`, `InStep`, `RoundTrip`, `PaddingAccepted`, `MessageRead` |
| `per_negative` | `MCPerNegative` | as `per`, one script | `RoundTrip`, refuted |
| `text` | `MCTextLink` | numbers of one octet; 187 messages over three formats, one given up | `TypeOK`, `ReadBack`, `NeverAnother`, `OwnSequence`, `CanonicalText` |
| `schema` | `MCSchemaTool` | an assignment of each form and four behind it; one token damaged | `TypeOK`, `FailureIsReported`, `OutputOnlyWhenClean`, `NothingLost`, `WrittenIsRead`, `Terminates` |

* `Transparent` and `ReadsWhatIsThere` are refinements: every behaviour of the
  class with its batch is one of the batchless specification, for every SIMD
  level and any interleaving of calls, failures, flushes and new buffers.
* `BatchInBounds` is what `push` and the 8-octet `value_buf` leave unchecked.
* `InStep` relates the octets a reader has left to the elements it still
  expects; a codec that takes an octet too many or few breaks it at once, one
  that fails to notice the end of a message breaks `RoundTrip`.
* `RoundTrip`: a read answers what was written or, on a cut message only, an
  error.
* `WholePieceOrError`: an OER call writes its whole piece, or fails and leaves
  at most a length determinant; a call in range and with room fails in one case
  only, an unsigned INTEGER with its top bit set (finding 3).
* `CanonicalAccepted` and `AcceptedIsPlausible` bound `validate` from both
  sides; the exact statement is refuted (findings 1 and 2).

* `PaddingAccepted`: `uper_encoder::flush` skips bits without writing them, and
  `uper_decoder::flush` wants them zero; only a buffer that was zero is safe.
* `MessageRead` (liveness): a reader that polls reads every message to its end,
  in whatever pieces it comes.
* `ReadBack` and `NeverAnother`: a complete text is read as the message that was
  written, and no text, cut anywhere, begun on the stack of a message that was
  given up, or missing commas, is read as another.  Three limits of the code are
  part of the statements: an array that holds a container behind another
  element has no comma there and is refused by the parser; a JSON number that is
  all of a message is a shorter number when cut; and of an XML text the reader
  gets what `xer_decoder` can answer (`answerable`), which for a SEQUENCE is every
  field that is a value, also beside containers with fields of the same name.
* `OwnSequence`: `field_is_present` answers each reader about the sequence it
  has opened, since a second `open_sequence` is refused for good.
* `CanonicalText`: the CXER validator accepts what the XER encoder writes and
  nothing with a space more next to a tag.
* `OutputOnlyWhenClean`, `FailureIsReported`, `WrittenIsRead`: the promises of
  `docs/code-generator.md` about a schema with errors, and that a schema without
  one is read as its author wrote it.
* `NothingLost`: of the assignments of built-in types behind an error, also behind
  a missing brace, none is left out of a header without a diagnostic, with one
  exception that the code makes and `PassedOver` names (the skipped braces of
  section 4).  The assignments behind the damage end in parentheses, in braces
  and in nested braces, so that every loop that waits for one of these, or
  counts them, finds one that belongs to somebody else.
* `Terminates` (liveness): no loop of the recovery stays at a token.

**Why the bounds are enough.**  With words of two octets every boundary of the
minimal form occurs (one octet, the sign octet put back, a full word); OER needs
three, so that widths of one and two octets are both shorter than the word.
Batches reach their threshold at all four SIMD levels within four calls, and
every buffer size makes some call fail at every fill of the batch.  Buffers and
messages are just long enough for an element to be cut at any octet: `Deliver`
takes every prefix of the octets written.  State spaces are finite without a
state constraint, since a buffer bounds what is written and a script what is
asked for.  TLC's integers have 32 bits, hence `TagModulus` = 2^21 and words of
at most three octets.  In the messages of `oer` a constrained BIT STRING stays
below 128 octets and its bound below 255: the encoder writes its length in a
fixed width and the decoder reads a determinant, and beyond that they part (in
the hazard list).

PER has its boundaries at bits: the scripts put every operation at an octet
boundary and between two, with integers of one to three octets and sizes on
both sides of a fixed and a variable width.  In `text` every kind of value is
alone, in an object, in an array, in a CHOICE and in a CHOICE that is a field, base64 has groups with no, one
and two pads, and containers are nested two deep in every combination; one
message given up leaves a stack of each shape for the next.  In `schema` the
damage is one token that is missing, replaced, put in, or the last: one error is
enough to bring the parser out of every production into each recovery loop, and
the assignments behind it show what is lost.

**Deadlock** is checked in every run of a codec: it can always be called.
`schema` has it off, since a program ends.

**Fairness.**  BER, OER and the text codecs have none: the library runs when it
is called, and nothing in it waits.  `PerLink` has weak fairness of the arrival
of octets and of each step of the reader: an application that polls until its
message is read.  `SchemaTool` has weak fairness of its one thread, which runs
as long as it has something to do.

**The models against the compiled code.**  The parser, the generator's result
and the text codecs have many small cases, so their models were also compared
with the program: the repository's parser and generator, compiled, agree with
`SchemaParser` and `SchemaTool` in result, diagnostics, assignments and shapes on
7 871 damaged schemas with the plain assignment behind the damage and on 30 907
with more kinds of tokens, and in exit code and the types in the header on the
7 941 sources of the run.
`jer_json_parser`, `xml_parser`, the decoders on top of them and the CXER
validator agree with `Jer` and `Xer` on 12 000 texts, damaged ones among them;
they differ only where the abstraction shows, in base64 or an escape next to a
word that the model takes for one character, and in numbers wider than its word.

## 4. Findings

1. `validate_integer_der` accepts the non-minimal INTEGER `FF 80`
   (`der_encoder.cpp:137`), which `docs/api/ber.md:145` and the comment at
   `der_encoder.cpp:27` exclude.  Run `der_integer`.
2. `validate` refuses what the same `der_encoder` wrote: a BIT STRING with
   unused bits (mask on the wrong side, `der_encoder.cpp:192`) and an element of
   128 octets (taken for the indefinite sentinel, line 158).  Run
   `der_own_output`.
3. An unsigned OER INTEGER with its top bit set, 200 in 0..255, is refused with
   `buffer_overflow` whenever its call fills the batch (`oer/encoder.hpp:324`),
   which depends on the calls before it and on the CPU; the class comment says
   "Stateless per-call" and a test encodes 255.  Run `oer_unsigned`.
4. PER counts the octets of a negative unconstrained INTEGER from its complement
   and adds none for the sign: -129 is written as `7F` and read as 127
   (`per/encoder.hpp:287`; the unaligned encoder does the same).  Run
   `per_negative`.

Disagreements met on the way that no run states:

* No PER encoder compares what it writes with the size of its buffer; the
  scripts of `per` fit (`RoomFor`).  A constrained size is written without
  subtracting its minimum, so a size may not fit its bits, and the length of a
  SEQUENCE OF of a fixed size, written in no bits, reads as 0 and is refused.
* `per/encoder.hpp:238` calls the four-octet length "30 bits" and takes lengths up to
  2^30 - 1; the mask `0x1F` leaves 29, and a longer one is written as another.
* `docs/code-generator.md:40` says `--dry-run` parses the input; `main` parses
  an empty string and always fails.  Line 358 has exit code 2 for generation
  errors; `main` returns 1.
* The parser accepts a closing brace too few where a SEQUENCE ends at the next
  assignment, ignores all behind the first `END`, takes a name such as `Set` for
  a keyword, and does not read an object with a type setting.
* The named numbers of an INTEGER (`parser.cpp:618`) and a value in braces
  (`parser.cpp:1284`) are skipped unread to the first closing brace, with no
  look at what is skipped.  Where their own brace is missing, the assignments up
  to the next closing brace are lost: of

      X ::= BOOLEAN
      Y ::= INTEGER { one(1)
      Z ::= BOOLEAN
      W ::= SEQUENCE { x INTEGER }

  the header has X and Y, without a diagnostic and with exit code 0, against
  `docs/code-generator.md:350`, "If the parser encounters syntax errors, no output
  file is produced and the tool returns exit code 1".  The compiled generator
  does so too.  `NothingLost` has the exception `PassedOver` for these braces;
  without its part for INTEGER, or the one for values, TLC finds the property
  violated in `schema`.
* Constrained constructed types (`SEQUENCE SIZE (..) OF`) end in `invalid_tag`
  though `generator.hpp:97` speaks of unwrapping them.
* `.sisyphus/notepads/asn1pp-full/learnings.md:198` calls 128, the number
  `decode_length` answers for an indefinite length, "unambiguous", as it "is not
  a valid content length".  128 is a length, and no operation of `ber_decoder`
  that takes contents looks at the sentinel: the octet 80 is read as a length of
  128 and that many octets are taken.  `TlvReader` allows it (`IsLength`), so
  that `ReadsWhatIsThere` holds; the only ones who look are `decode_tlv_header`
  and `der_encoder::validate`, which mistakes a real length of 128 (finding 2).
* `xer::base64_encode` is declared and used by the encoder and defined nowhere;
  the model takes it to be the one of JER.  XER drops the number of unused bits
  of a BIT STRING.  `decode_choice_child_content` answers empty content for a
  BOOLEAN alternative, and `decode_sequence_field_content` for a container that is
  a field, both with success.  E-XER texts are refused by the library's own parser.
* `cxer_validator.hpp:10-14` says that the validator enforces the order of elements
  and of attributes and the canonical form of a BOOLEAN.  `validate` looks at white
  space and at nothing else; `elements_in_order` and
  `has_canonical_boolean_encoding` return true and are not called.
  `CanonicalText` is therefore about white space only.
* `docs/api/oer.md:259-268`, and the comments of `examples/oer/main.cpp` (lines 8 and
  97), have 42 in 0..255 encoded as `01 2A`.  The code writes the one octet `2A`,
  which the example's own test wants, and so does the model.
* `docs/api/per.md:84` and `:129` (again at 215) decode 42 in 0..255 from `1A` and from `54`.  The
  eight bits of 42 in that range are `2A` in both variants; from those octets the
  decoders answer 26 and 84.
* `docs/api/per.md:146-160` calls `flush_decode` required and says that integers not
  flushed "will not produce their results".  `decode_integer` answers in the call
  itself, and a constrained INTEGER does not use the batch; `RoundTrip` of `per`
  holds with and without `flush_decode`.
* `uper_encoder.hpp:86` says that `flush` pads "with zero bits".  It moves the offset
  and writes nothing (line 149), so the padding is what the buffer held, and
  `uper_decoder::flush` refuses other bits than zeros.  `PaddingAccepted` is about
  cleared buffers, where the two agree; it does not hold of a used one.

## 5. What is proved

Eight modules hold proofs.  Each theorem is for every value of the constants
that satisfies the assumptions named in the modules, and TLC evaluates those
assumptions in the run of the module:

| Assumption | What it asks | Why the code gives it |
|---|---|---|
| `WordAssumption` | a word of 1 to 8 octets and the table of its weights | `int64_t`, `size_t` |
| `TagAssumption` | a tag modulus of at most five groups of seven bits | `uint32_t` |
| `WriterAssumption`, `OerAssumption`, `DerAssumption` | arguments of the types in the C++ signatures, sizes that are a `size_t` | the compiler |
| `ReaderAssumption` | messages are octets, any octets | `buffer_view` |
| `LinkAssumption` of `BerLink` | calls with arguments of their types, a constructed tag for a sequence, at most 7 unused bits, no header that announces more than follows | what the generated code and the examples call; `encode_sequence_header` takes the length on trust |
| `LinkAssumption` of `OerLink` (`Meant`) | the index is one of its type's, a BOOLEAN is 0 or 255, a NULL and a sequence end carry nothing, an OBJECT IDENTIFIER has no bounds, a type's limit can be written in the octets its index gets, a constrained BIT STRING stays under 128 octets and its limit under 255 | what a caller with a schema passes; the last is a fault of the code (hazard at `oer/decoder.hpp:318`): the two sides differ on a longer one |
| `LinkAssumption` of `PerLink` | arguments of the types of the templates, ranges narrower than 2^63, at most 65536 alternatives, lengths below 2^30, and a buffer of whole octets with room for the aligned form of every script (`RoomFor`) | the emitters of metadata; that nobody checks the room is a hazard (`per/encoder.hpp:156`) |
| `OnlyMeant`, a hypothesis of the three theorems on what a PER reader answers and not of the others | an INTEGER without a range that is negative does not need an octet for its sign; a size fits the bits of its range, or 29 bits; arguments of one value have one | each is a place where the code loses the value: finding 4, the hazard at `per/encoder.hpp:331`, and the `0x1F` of the four-octet length. TLC evaluates it for the scripts of `per` (`MCMeant`); `per_negative` has one that is not meant |
| `TextAssumption` | a text has tokens, the last one is eof | `lexer::next_token` |

### The theorems

* **OctetTheorems**, on integers.  `EncodedSizeFits`: the size chosen for an
  INTEGER is at least 1 and at most a word, and holds the value with its sign, so the ninth
  octet of the scratch buffer is never used.  `EncodedSizeIsShortest`: it is the
  shortest two's complement form.  `IntegerRoundTrip`: sign extension of the
  octets written is the value.  They rest on the weights being positive and
  monotone and on the sum of a value's octets being the value.
  `EncodedNotRedundant` says the same as the octet test does: of two octets or
  more, the first is never a repeated sign.  DER and COER both rest on it.
* **OctetTheorems**, on elements.  Identifier and length octets are octets and exactly as many
  as the size functions say; so `encode_tlv`, which checks its room once with
  the size functions, writes all or nothing.  What any decoder takes off a view
  is a well-formed element and never more than is there.  `ElementRoundTrip`:
  `decode_tag` and `decode_length`, which shift octet by octet, undo
  `encode_tag` and `encode_length`, for tags of any number of groups and
  lengths of any number of octets, whatever follows.  `ElementWithMore`: a read
  that succeeds on a beginning of the octets answers the same on all of them.
* **BerEncoderProofs.**  With `IInv == TypeOK /\ BatchInBounds`:
  `EncoderTypeCorrect` (no write past the buffer), `EncoderBatchInBounds` and
  `EncoderTransparent`, the refinement of `TlvWriter`.  `BatchInBounds` is the
  strengthening that transparency needs.  A full batch could answer an error;
  it does not, because each slot in it holds a value that fits the size
  computed for it, and that has to be remembered over calls.  Every step is
  then a step of the writer, or a stutter.
* **BerDecoderProofs.**  The same shape: `DecoderTypeCorrect`,
  `DecoderBatchInBounds`, and `DecoderReadsWhatIsThere`, the refinement of
  `TlvReader`.  The invariant is needed in one place, the call that fills the
  batch: its answer comes out of the drained batch, and is the value of that
  call's own octets because every slot holds from one octet to a word of them.
* **BerLinkProofs.**  `LinkInStep` and `LinkRoundTrip`, for every script, buffer
  size, cut, and SIMD level on either side.  The invariant `LinkInv` says of the
  writer that what is in the buffer is `Wire(sent)`, the octets of the calls
  that succeeded; of the reader, that the view, completed by some octets if the
  message was cut, is `Wire(expected)`.  A read then takes the first element
  of that by `ElementRoundTrip`, or by `ElementWithMore` what a cut leaves of
  it.  The batches of the two objects need no more than their types: no call
  looks at a slot it did not push.
* **DerProofs.**  `DerInvariant`: a verdict is the one `validate` gives of the
  octets at hand.  `DerAcceptsCanonical` and `DerAcceptsPlausible` bound
  `validate` from both sides for all octets.  `MinimalForm` is what both rest
  on: a two's complement number fits one octet less exactly when its first
  octet repeats the sign of the second, so the octet test of X.690 and the
  arithmetic one are the same.  `DerMinimalIsShortest` says it of the machine;
  with finding 1 it places the fault, in `validate_integer_der` not asking the
  test.
* **OerProofs.**  `OerTypeCorrect`, `OerBatchInBounds` and the action
  property `OerWholePieces`.  Here slots need not fit their size (finding 3), so
  the last slot of a full batch may answer an error; the proof shows that this
  happens only for a value whose top bit is set, that the room checked in two
  parts is the room of the whole piece, and that a constrained INTEGER writes
  exactly the octets it was checked for.

  `OerStaysInStep` and `OerRoundTrip` are about `OerLink`, for all messages of
  calls that are `Meant`.  OER has no tags, so nothing but the octet counts
  keeps a reader in step.  Two lemmas speak of every decoder at once:
  `PieceReads` (of the octets of a call, whatever follows, it takes exactly
  those and answers the value) and `DecodeMore` (a read that succeeds answers
  the same with more octets behind).  The first rests on
  the length determinant in its one- and two-octet forms, a count or an index
  in its own octets, and the sign extension of an INTEGER in the octets its
  range gives it.  `LinkInv` is the one of `BerLinkProofs`: out is
  `Wire(sent)`, and the view with some octets behind it is `Wire(expected)`; a
  read of a cut message that fails is then allowed, one that answers something
  else is not.  `OerOwnIntegersCanonical` follows from the same invariant: an
  INTEGER at the head of the view is its own octets and what follows, and
  `EncodedNotRedundant` is what the COER validator asks of them.
* **PerProofs.**  Five theorems about `PerLink`, for every word size, buffer,
  SIMD level and set of scripts, and for both variants.

  `PerTypeCorrect` and `PerBatchInBounds` need nothing of the scripts but room.
  The inductive invariant is `PerInv == WriterOK /\ ReaderOK`.  `WriterOK` says
  that the calls made so far lie in the memory between their marks (`Lies`: the
  parts of a layout, bit for bit, with the alignments of the variant), that
  they and those still to be made are a script, and that no mark is above where
  the aligned variant would be (`EndsAre`).  The last part is the reason that
  room for the aligned form is enough for both: alignment is monotone, so what
  starts no later ends no later (`PastMonotone`).  `ReaderOK` bounds the
  positions and says of the batch that each slot has a size from one octet to a
  word, so that draining it cannot fail.  It holds on any bits, also out of
  step: each decoder checks before it reads.

  `PerStaysInStep`, `PerRoundTrip` and `PerPaddingAccepted` have `OnlyMeant` as
  their hypothesis; without it `RoundTrip` is false (finding 4).  The lemma they
  rest on is `ReadsCall`: where the layout of a meant call lies in the memory, the
  decoder of its operation, at the bit where it starts and with any number of
  octets there, answers the call's meaning and stops at the bit where it ends, or
  answers `buffer_underflow` and octets are missing.  It has one lemma
  for each form (bits of a range, counted octets, fixed and variable sizes,
  preamble, index), and each of these compares two texts of the code that were
  written separately.  `ReadsBatched` adds the batch: in the call that fills it
  the answer is the last slot drained.  The invariant `Sync` places the reader:
  before a message is complete it waits at bit 0; afterwards what it expects is
  the tail of what was sent (`Remaining`), and the bit it goes on at, after a
  failure the one it saved, is the mark of its next call (`Placed`).  The
  padding is accepted because `WriterOK` remembers that a cleared buffer is
  still zero behind the last mark.
* **SchemaToolProofs.**  `SchemaTypeCorrect`, `SchemaFailureIsReported` and
  `SchemaOutputOnlyWhenClean`, for every schema and every list of them given to
  one `schema_parser`.  The inductive invariant has two parts.  `ParserOK`: the
  parser is at a token of its source; the last call of its stack is
  `module_end`, which looks at errors, so an error finds a caller; an error on
  its way up was reported when it began (`parameters`, which passes on an error
  it was given, and `type_name`, which may drop one, rest on this).  `ToolOK`:
  the output file is touched only after the parser returned without an error,
  and nothing is parsed after that.  A lemma each for going on, complaining and
  failing (`GoOn`, `GiveUp`, `Ends`) reduces every production to the place it
  goes on at and the calls it makes; each place is in the source since eof is
  never passed (`Places` and the lemmas before it).

### How

Two techniques carry the arithmetic.  What a recursive function computes
(`Unsigned`, `Groups`, `Wire`, the weights, the bits of a number, the ends of a
script) is shown by the least
counterexample: the library's induction theorems take an operator as a
parameter, which the provers cannot instantiate, but the set of counterexamples
is a set of numbers and has a least element (`MinIsLeast`).  And the operators
of an instance (`Enc!`, `Dec!`) are shown once to be those of `Word`, `Tlv` and
`BerElement`, so that the lemmas about those are about them.

**Only model-checked:**

* The text codecs: their parsers are recursive operators, which the provers do
  not take.
* `NothingLost` and `WrittenIsRead`: both are about what a parse of one
  particular schema does from its first token to its last; `WrittenIsRead` is a
  comparison with a given answer and has no invariant shorter than the run.
* Liveness (`MessageRead`, `Terminates`), which is out of the provers' reach.
* `StatelessPerCall`, `OwnOutputAccepted`, `AcceptedIntegerIsMinimal` and
  `RoundTrip` of `per_negative` are false (findings 1 to 4).

## 6. What is not modelled, and why

* The text of a message, formatting and logging.
* The `ASN1PP_EMBEDDED` build, whose BER decoders copy strings into arrays of
  `ASN1PP_MAX_PDU` octets and refuse longer ones.
* `validate_primitive_string`, which nothing calls; the OER decoder's
  `flush_decode`, which never has anything to flush.
* Data races: sharing one codec between threads is outside the library's
  contract and nothing in it is synchronised.
* PER: fragmented lengths above 2^30, and ranges whose width overflows an
  `int64_t`.
* `decode_sequence_field_xml` of XER, which answers the text of a field's only child
  without its name; names and texts that would need escaping, which no encoder
  does.
* The lexer's characters, the values in a schema, source positions; command line
  arguments, standard output as the target, and a disk that fills up while the
  header is written (the code does not look).
* `validate_octet_string` and `validate_length_determinant` of COER.
* Tagged codecs: templates nothing calls.
* SIMD kernels and emitters, see the table above.

## 7. Plan

The components of the inventory are modelled up to the list above, and BER, DER,
OER, PER and the schema front ends are proved: every invariant the runs of the
binary codecs check is a theorem.  What could come next:

1. The text codecs with parsers written as recursive functions, so that
   `ReadBack` of a single value (a number, a base64 group) can be stated as a
   theorem.
2. `NothingLost`, with an invariant that says which assignments the calls on the
   stack have still to deliver.
