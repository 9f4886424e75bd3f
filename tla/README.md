# A verification project for `mncs-ingest`

TLA+ modules, TLC runs and TLAPS proofs about the Rust host (`src/src`) and the
MNCS policies it executes (`src/language/mncs`). Paths are those of the
repository, with `src/` as its root.

## 1. The system

`mncs-ingest` turns external input into canonical records. The host (Rust)
carries bytes and keeps what must survive between calls; every decision is a
pure MNCS function that the host calls through `LanguageRuntime`
(`src/src/language.rs`). Nothing is persisted, and only the embedded session
(`src/src/embed.rs`) is shared between threads, behind a mutex: the hard part is
*incrementality*. A stream arrives in chunks of any size, the language sees at
most 256 bytes of it at a time, and the state that bridges two calls (carry
bytes, scanner lanes, cursor) must make the cutting invisible.

| Component | State it keeps | Operations | What makes it right |
| --- | --- | --- | --- |
| CSV record stream: `src/src/csv.rs`, `flow/lines.mncs`, `flow/fields.mncs` | carry (at most 256 bytes), line number, stream position | `feed(chunk)`, `finish()`; inside, `next_line` per view and again per drained line, `field_at` per field | records, numbers and byte ranges are those of the stream whatever the chunks; nothing lost, nothing withheld; errors have a cause and name the right line; every call returns |
| Frame stream: `src/src/frames.rs`, `flow/frames.mncs` | carry (at most 136 bytes), stream position | `feed(chunk)`, `finish()`; inside, `decode_frame` | the frames decoded are a prefix of the frames sent, all of them at a clean end; a cut frame is truncated and never malformed, a damaged byte outside the lengths never yields a frame that was not sent |
| Manifest scanner: `src/src/manifest.rs`, `flow/nest.mncs` | the lanes of `NestState`, base offset | `scan(view, eof)` driven by `ingest_manifest` | the verdict is that of a grammar on the whole document, wherever views end; positions exact; nesting bounded |
| Manifest extraction: `src/src/manifest.rs`, `flow/manifest.mncs` | none (pure over a complete document of at most 512 bytes) | `pair_count`, `pair_at(index)`, `extract_all` | the pairs are those that were written, spans included; the pass that counts and the passes that locate agree |
| Transfer text: `ingest/parse.mncs`, `ingest/vocab.mncs`, `src/src/adapters/text.rs` | none | `parse_transfer` | every word one role, every role a word; a refusal names the first fault |
| Structured and native adapters: `src/src/adapters/structured.rs`, `native.rs` | none | `ingest` | same observation, same canonical fragment |
| Semantic IR, canonical form, equality: `src/src/ir.rs`, `canonical.rs`, `ingest/frame.mncs` | none | `assemble`, `semantic_key`, `mncs_equal` | the two equalities agree; unknowns are explicit |
| Handoff and consumer: `src/src/consumer.rs`, `ingest/handoff.mncs` | received fragments | `accept`, `encode`, `validate` | a receipt's hash is equal exactly for equal meanings, a foreign schema is refused, a handoff reads back |
| Language bridge: `src/src/language.rs`, `ingest.mncs` | the compiled program | one marshalling function per entry point | padding and storage never show in an answer, bounds are exact |
| Embedded session: `src/src/embed.rs` | a session behind a mutex, poisoned by a panic | `next_line`, `field_at`, `classify_event` | each thread gets the interpreter's answer to its own call, and gets it |

How they interact: a caller owns a reader and calls `feed` any number of times
and `finish` once; the reader windows the chunk with `slice::chunks(256)` and
calls the language once per view and once per line or frame left in the carry;
`csv.rs` calls `field_at` for each field of a line. `ingest_manifest` runs the
scanner over the whole document and only then the extractor. The adapters call
the classifiers and validators and hand facts to `assemble`; a consumer takes
one fragment and returns one receipt.

Hard behaviours: a unit (line, frame, literal, escape) cut at any byte; a tail
that does not fit the carry; end of input inside a unit; an error that leaves a
half-updated reader; bounds that differ by one before and after a CR or an
escape is removed; flags of the scanner that outlive what they describe; two passes over one
document that must see the same pairs; threads that meet at a mutex whose holder
may be stopped or panic.

## 2. The modules

| Module | Models | How it corresponds to the code |
| --- | --- | --- |
| `Views` | windowing and cursor arithmetic | `ViewOf`/`AfterView` are one step of `chunk.chunks(VIEW_BYTES)`; `Kept` and `Consumed` the `keep`, `covered`, `consumed` of both splitters; `UnitStart` the two `saturating_sub` |
| `Lines` | `lines.mncs` | `NextLine(carry, view, eof)` returns the `LineOut` record; `EmitLine`, `EmitTail`, `Hold`, `FailLine` are its four ends |
| `Fields` | `fields.mncs` and `parse_fields` | `FieldAt` computes the result of the fold from the escape parity of the line; `ParseFields` is the host's loop |
| `CsvReader` | `csv.rs` | one action per call into the language: `Feed`, `NextView`, `DrainCarry`, `FeedReturns`, `Finish`, `FlushTail` |
| `Frames` | `frames.mncs`, `encode_frame` | `DecodeFrame(carry, view, eof)` over byte values; header tests in the code's order |
| `FrameReader` | `frames.rs` | as `CsvReader`; the wire to be fed is chosen initially |
| `Nest` | `nest.mncs` | one operator per transition function; bytes are the classes the code tells apart |
| `ManifestScanner` | `ManifestScanner::scan` and the loop of `ingest_manifest` | a scan call is its fold: `BeginView`, `ScanByte` (or `SkipByte` after a fault), `EndView`; `EndOfInput` is the closing call |
| `Manifest` | `manifest.mncs` | one operator per fold step: `CountStep`, `LocateStep` with `SkipStep`, `BeginValue`, `EndValue`, `StringStep`; `PairAt` interprets the span `LocatePair` finds |
| `ManifestIngest` | `ingest_manifest`, `extract_all` | the scan of `ManifestScanner` over a document's bytes (`ScanView`, `CloseInput`, `RefuseStructure`), then `CountPairs`, one `ReadPair` per index, `AllRead` |
| `Vocab` | `vocab.mncs` | one operator per classifier, over words of pieces |
| `Parse` | `parse.mncs` | `EffectiveLength`, `SplitWords`, `AssignRoles`, `FinishAssign` are the stages of `ParseTransfer`; a fold that takes the first fitting word is the least position of a set |
| `Canonical` | `ir.rs`, `canonical.rs`, `frame.mncs`, statuses of `handoff.mncs` | `Assemble` builds the fragment, `SemanticKey` its key, `MncsEqual` the second equality |
| `Adapters` | `text.rs`, `structured.rs`, `native.rs` | `IngestText`, `IngestStructured`, `IngestNative`: checks in the order of the code, then `Assemble`; a word the adapter does not bound is stopped by the language's parameter (`Crosses`) |
| `Ingest` | a host with three adapters and an `EchoConsumer` | one action per adapter: `Text`, `Structured`, `Native`; `Accept` refuses other schemas or keeps the fragment and answers with `Receipt`; `received` is the consumer's |
| `Ordering` | `sort_codes`, `is_sorted_codes` of `frame.mncs` | `SortStep` is one insertion over lanes |
| `Handoff` | `handoff.mncs` | `Encode` copies tag, numbers and identities into place; `ValidateHandoff` is its `validate` |
| `Bridge` | `language.rs`, the facade `ingest.mncs` | `Arguments` stages, `WellTyped` is the facade's parameter types, `Facade` its bodies, `ReadAnswer` cuts what comes back, `Reply` makes anything not returned an error |
| `Session` | `embed.rs` | `Call` stages a thread's arguments, `Acquire`, `Enter`, `Leave` are `lock`, `session.call` and its end, `Panic` a panic inside; `Interpret` is the other way, without the session |
| `Calls` | a host of several threads (external) | writes a record, then threads ask about it and about words, codes and handoffs |
| `RecordStream` | the abstract specification of both readers | bytes arrive, units tile them up to a terminator, a stream closes at its end |
| `Accounting` | the byte accounting both readers promise | |
| `NestGrammar` | the grammar the scanner is held against, as the comments of `nest.mncs` and `manifest.rs` have it | generates documents by length (recursive operators, TLC only); `Departures` names where the scanner departs from it, so that both languages can be had |
| `CsvProperties`, `FrameProperties`, `ManifestLanes`, `ManifestProperties`, `FieldsCheck`, `ManifestPairs`, `IngestProperties` | the properties | `FieldsCheck` and `ManifestPairs` also hold the writers of what is read back |
| `MC*` | alphabets, wires, sentences, documents and native values for TLC | no definition of the model is replaced |
| `SharedProofs` | lemmas shared by the proofs | recursion, folds and flattened sequences; views, carries and cursors |
| `FieldProofs`, `CsvProofs`, `CsvLineProofs`, `FrameProofs`, `ManifestProofs`, `CallsProofs`, `IngestProofs` | the proofs | |

Definitions introduced by "Mistake:" are not part of the model. Each is a
plausible bug of the definition after it, and the project checks that swapping
it in breaks the property it is listed with.

Abstractions. Bytes of CSV and manifest streams are classes: two bytes of one
class take the same branch everywhere in the code. Frames use byte values,
since lengths and checksums are computed from them. The language's fixed arrays
with a length are sequences, except in `Bridge`, which is about them. A failing
evaluator is left out, other than one that stops on arguments that do not fit
(`Bridge`, `Adapters`) or panics (`Session`): it is deterministic and total on
what fits. Bytes of manifests are finer in `Manifest`, where literals are
spelled out, than in `Nest`; `Class` maps one to the other. Text is a sequence of pieces, each a run of letters or digits or one
mark, with its spelling in lower case and what its letters look like; lengths
count pieces. A structured document is a decoded JSON object, so that invalid
JSON, which is refused before anything else, is left out; spans in the provenance
are left out too; a digest is the text it was computed from, which takes SHA-256
to be injective. The host stores the carry and the cursor before it looks at the
status, and so do the actions (`Absorb`), on error paths too.

## 3. What the runs check

| Run | Question | Bounds, and why they are enough |
| --- | --- | --- |
| `csv_stream` | are records, ends and errors those of the whole stream, every byte accounted for, nothing withheld, the one-chunk verdict exact, does every call return, is `RecordStream` implemented? | all streams of up to 6 bytes of LF, CR, control, comma, plain, in all chunkings; lines of 2 bytes, carry and view of 3, values of 1 and two fields, so lines, fields and records overflow, views split lines and CRLF, and one view can complete three lines: 192,785 states. Backslashes are left to `calls`, which reads written records back |
| `frames_small` | are the frames decoded those sent, in every chunking, and, whatever happened to the wire, is each of them encoded at its byte range? | up to 3 frames with payloads of 0 to 2 bytes, or fewer with any one byte damaged or the end cut off; carry 10, chunks up to 11. A payload of two bytes that begins with the checksum of an empty frame is among them: with its length damaged to 0 it does yield a frame nobody sent, which is why `DecodedAreSent` speaks of bytes outside the lengths (`SumCatches`): 55,948 states |
| `calls` | do escaped values come back, are bounds exact, is each answer that of its own question, whoever else asks, and does everyone who waits get one? | records of up to four bytes and separators over comma, backslash, plain, control; value 2, two fields; two threads of two calls, one panic of the session; every function of `Bridge` with arguments in bounds, at them and one beyond; all sequences of up to 4 codes of two values, which is enough for a sort that only compares and swaps (the 0-1 principle); 27,081 states |
| `nest_documents` | is the verdict the grammar's, inside strings and out, but for the four departures `nest_rules` shows, are positions exact, can truncated documents be completed? | all documents of up to 6 bytes over 13 classes (structure, quote, backslash, an escapable letter, control, space, digit) in all splits, nesting 2, so that the bound is met and exceeded: 3.4 million states |
| `manifest_pairs` | are the pairs those that were written, where they were written, and do the two passes of extraction agree? | documents of one member from 6 keys, 34 values and 4 spacings, of two from 54 members, of three from 3, with keys, strings and digits of at most 2, two pairs, 32 bytes, so each bound is met and exceeded; and every word of up to 8 bytes the scanner accepts over structure, quote and digit; views of 1 and 4 bytes: 562,131 states |
| `convergence` | is a sentence accepted if it is in form, but for the three departures `ingest_promises` shows, does a refusal name the first fault, and are fragments equal exactly when their sources said the same? | spellings of 2 pieces, 8 words, 17 pieces; the eight sentences in form with five endings, and all those one replaced, inserted, removed or swapped word away from them, of 11 words each chosen for its class; documents and native values with each field missing, of the wrong type, empty, overlong, and quantities -1, 0, 3, 999, 1000; names that differ in a backslash and a line break, words the language's parameter stops, a foreign schema; two accepted fragments, as equality relates two |

Runs that find the code at odds with what the repository says of it:

| Run | What it shows |
| --- | --- |
| `frames_wide` | a view wider than the carry: bytes the carry cannot keep are never staged again, frames vanish and `finish` still succeeds |
| `csv_seam` | a longest line ended by CRLF is refused when CR and LF fall into two chunks |
| `csv_window` | a control byte in a later line refuses the valid line before it |
| `manifest_spaces` | `{"a": 1 }` is refused: the value's span runs to the brace, its white space included, and `1 ` is no number |
| `nest_rules` | `[{[1 1,[]` breaks four comments of `nest.mncs`. The root is an array, where only `{` may open a document (`:143`; `open_container` takes either by design, and nested arrays are staged again on the strength of it, see `NestedRestages`). A container without a key stands where a key is due: only behind a comma is it refused. `1 1` is one literal: white space is skipped before the literal's flag is looked at. And the last bracket is refused, though an empty container closes fresh: the comma's flag outlives the bracket after it |
| `ingest_promises` | one host breaks four promises. "Alexander gave apples Finn", in neither form of the grammar and without its full stop, is accepted; two native inputs with different unknown objects share one signal id; "From Finn received apples from Alexander." is reported as a missing field and not as a stray marker |

Each of the last two runs has one property, that of four statements at least one
holds (`SomeCommentHolds`, `SomePromiseHolds`), so that its one trace breaks them
all; each statement is a definition of its own and has its own entry in the findings.

The departures of the scanner and of the parser are written out where the
property beside them needs them. `VerdictIsTheGrammars` demands the grammar of
the comments of every document in which none of the four is met, which a lexer
independent of the scanner decides (`Departs` of `ManifestProperties`), and of
the others the language with the departures added. `FirstFaultIsNamed` demands
the forms, the full stop and the statuses of `docs/GRAMMAR.md` (`FaultAsWritten`)
of every sentence but those `Departs` of `IngestProperties` describes: no full
stop, every role filled and the words in neither form, a passive verb and two
"from". Of those it demands the shape rules alone (one word per role, one role
per word, the giver's side decided by verb and "from": `FaultAsParsed`).

Seen while modelling, without a run of their own: a CSV caller that feeds on after
a field error can leave whole lines in the carry, so that `consumed` falls short of
the view and the rest of it is dropped. In extraction: an array as root, which the scanner
accepts, ends as an empty manifest or as malformed; a raw tab in a string and `1 2` pass the scanner and not the extractor; more
than 64 pairs, which fit 512 bytes, are a `Language` error; escapes in keys are
copied as they stand. The facade types a scanner's view `up_to 256`, so
`ingest_manifest` with a larger width and a larger document ends in a `Language`
error; widths of the model stay below. `bytes256`, `bytes136` and `bytes512`
assert, so public calls with too long a carry or document panic, where
`src/src/error.rs:3` says "Ingest never panics on input data"; the readers never
pass one (`TypeOK`). `handoff.mncs:11` writes the tag as `IH1\0`, the code and
its test put the byte 1 in third place.

Deadlock is not checked in any run: callers may stop at any time, and a finished
or failed reader is at its end, and the host of `Ingest` stops at its first
refusal or when the consumer holds `MaxReceived` fragments (a bound of the model:
adapters keep no state, so what follows a refusal is a fresh start). That calls return is a property (`CallsReturn`).

Fairness. In the readers `WF_vars(HostStep)`: a call that has begun is a
sequential loop of the host and keeps executing; callers owe nothing, so `Feed`
and `Finish` have none. `EveryStepShortens` says why such a loop ends: each step
leaves fewer chunks or bytes to do. In `Calls` `WF(ThreadStep(t))` for each
thread, which the operating system's scheduler gives: a thread that can take the
mutex, or is inside the session, goes on. That the mutex itself is fair is not
assumed; weak fairness is enough since each thread makes `MaxCalls` calls and so
cannot take it away from the others for ever. Nothing makes a host call nor the
session panic, and calls of the interpreter, which meet nobody, are outside
fairness and `EveryCallEnds`.

Threads. `embed.rs` says that sessions have "single-threaded host discipline, so
the session sits behind a mutex"; `tests/embed_parity.rs` keeps one
`EmbedRuntime` in a static that its tests, run by several threads, share. A
thread holds the mutex from `lock` to the end of `call`, on error paths too; what
it stages before (where `bytes256` may panic) and reads after is its own. To keep
the run small a thread asks the interpreter about words, lines and codes only when
no other thread asks anything: such a call reads and writes nothing shared.

## 4. What is proved

TLAPS checks these for every value of the constants.

| Theorem | States | Argument |
| --- | --- | --- |
| `ManifestProofs!ScannerTypeOK` | `Spec => []TypeOK` | by transition functions: each returns lanes of their types, and a stack no deeper than `MaxNest` |
| `ManifestProofs!ScannerLanesAgree` | `Spec => []LanesAgree` | `TypeOK /\ LanesAgree` is inductive: `LanesAgree` ties flags, expectation and stack together closely enough that each transition keeps it |
| `ManifestProofs!ScannerPositionIsExact` | `Spec => []PositionIsExact` | `Scanned`: the state is that of one fold over the bytes seen, and `base` and count add up to their number; folding a view goes on where the last one ended |
| `ManifestProofs!ScannerTruncatedCouldFinish` | `Spec => []TruncatedCouldFinish` | no sound state with an open root is a dead end: the bytes that end the string, the pair and then each open container bring the stack down one by one (by the length of the stack) |
| `ManifestProofs!IngestSpansAreDisjoint` | `IngestSpec => []SpansAreDisjoint` | `InOrder` of one pass, `SideBySide` of the passes for an index and the next, see below |
| `ManifestProofs!IngestCountMeetsLocate` | `IngestSpec => []CountMeetsLocate` | `Meets` of the scanner, the count and a locating pass, see below |
| `ManifestProofs!IngestNestedRestages` | `IngestSpec => []NestedRestages` | `Restages`, from `Meets` and `Alike`, see below |
| `FrameProofs!FrameReaderTypeOK` | `Spec => []TypeOK` | needs no relation between view and carry; what is held is always less than one longest frame |
| `FrameProofs!FrameReaderNoByteLost` | `ViewsFit` implies `Spec => []NoByteLost` | `Accounts`, see below |
| `FrameProofs!FrameReaderTruncatedOnlyAtEnd` | `Spec => TruncatedOnlyAtEnd` | `DecodeFrame` answers truncated only when asked at the end of input |
| `FrameProofs!FrameReaderTilesTheStream` | `ViewsFit` implies `Spec => TilesTheStream` | refinement of `RecordStream`, step by step, from `Accounts` |
| `FrameProofs!FrameReaderDecodesWhatWasSent` | `ViewsFit` and `SendersKeepBounds` imply `Spec => []DecodedAreSent`, on undamaged wires and on those with one byte damaged outside the lengths | `Content` and `Caught`, see below |
| `FrameProofs!FrameReaderWithholdsNothing`, `FrameReaderEndedMeansAllDelivered`, `FrameReaderSoundWireIsNotMalformed` | the invariants of those names, under the same assumptions | as above |
| `FrameProofs!FrameReaderFramesAreOnTheWire` | `ViewsFit` implies `Spec => []FramesAreOnTheWire` | `OnWire`: whatever passes the header, length and checksum tests is an encoding, byte by byte |
| `CsvProofs!CsvReaderNoByteLost` | `Assumptions` imply `Spec => []NoByteLost` | `Accounts`, see below |
| `CsvProofs!CsvReaderTypeOK` | `Spec => []TypeOK` | inductive, as it stands: a line handed out is within the bound, whatever the carry holds, and `ParseFields` answers nothing but ok, malformed and overlong (`FieldProofs!ParseTyped`) |
| `CsvProofs!CsvReaderEveryStepShortens` | `Spec => EveryStepShortens` | inductive: the carry is a sequence of bytes that fits its array, whatever an earlier error left in it; an answer that produces a line from the carry alone holds less than it was given |
| `CsvLineProofs!CsvReaderRecordsAreTheLines`, `CsvReaderWithholdsNothing`, `CsvReaderEndedMeansAllDelivered` | the invariants of those names, under `Assumptions` | `LinesInv`, see below |
| `CsvLineProofs!CsvReaderRefusalHasCause`, `CsvReaderErrorNamesTheLine` | the same | `LinesInv` says of a failed reader which bytes of which line failed it |
| `CsvLineProofs!CsvReaderOneShotVerdict` | `Assumptions` imply `Spec => []OneShotVerdict` | `FedOnce` beside `LinesInv`, see below |
| `CsvLineProofs!CsvReaderTilesTheStream` | `Assumptions` imply `Spec => TilesTheStream` | refinement of `RecordStream`, step by step, from `LinesInv` |
| `CallsProofs!RecordsRoundTrip`, `RecordBoundsAreExact`, `RecordUnreadableIsRefused` | `CallsSpec => []RoundTrip` and so on | operator lemmas about any record of bytes, see below |
| `CallsProofs!SessionRepliesAreTheInterpreters` | `CallsSpec => []SessionParity` | `SessionInv`: who holds or is inside is alone the owner, the session's frame is the call of the thread inside, a poisoned mutex had a panic |
| `CallsProofs!CallsAnswersAreRight` | `CallsSpec => []AnswersAreRight` | `AsksInv` beside `SessionInv`, and operator lemmas about each function, see below |
| `IngestProofs!IngestTypeOK`, `IngestEqualitiesAgree` | `Spec => []TypeOK`, `Spec => []EqualitiesAgree` | `IInv`, see below |
| `IngestProofs!IngestFirstFault` | `Spec => []FirstFaultIsNamed` | operator lemmas about the parse of any single-spaced sentence, see below |
| `IngestProofs!IngestEqualMeansSame` | `Spec => []EqualMeansSaidTheSame` | `IInv /\ Witnessed`, see below |

`NoByteLost` says that frames (records and their terminators), carry and the
bytes still to be windowed tile the stream, and that the carry begins where the
last frame, or the last record's terminator, ended.
It is not inductive: from a carry that still holds a whole unit, the
next view can leave more behind the unit than the carry keeps. The invariant
`Accounts` adds that between calls and between views the carry holds *no* whole
unit (no newline; no complete frame), which `DrainCarry` establishes, and for the
CSV reader that records and bytes have their types. Then the
unit that `NextView` completes ends inside the view, the bytes behind it are
fewer than the view's, and they fit the carry: `Consumed` is the length of the
view and the tail is the carry. `SharedProofs` has that arithmetic, once
for both.

The CSV reader's lines. The reference of `CsvProperties` cuts the whole stream at
its newlines; the reader sees a carry and a view. `LinesInv` adds to `Accounts`
(`LinesCut`) that as many newlines as records lie before the carry and that each
record is the line of its number in the stream, and what is claimed of a failed
reader. Since the carry begins just
behind a newline, a call's window is the rest of the stream from there, and its
first newline ends the line the reference counts next; later bytes never move a
line that has ended.

The verdict on one chunk needs to know where its views ended. `FedOnce` says that a
view begins at a multiple of `ViewBytes` while any of the chunk is left, that whole
lines in the carry began behind the last view's start, and that no record so far
is of a line whose CR, too much by one byte, ended a view. A window that is refused
then ends at such a multiple or with the stream, which is what tells a line the
format forbids from the one exception `OneShotAccepts` states
(`FaultIsNotAccepted`); a record that is accepted ends inside its view
(`LineIsNotAtViewEnd`).

The field splitter. `Calls` writes a record byte by byte, and the three properties hold
of any record, so the invariant is only that it is one (`CallsRecordTyped`). `FieldProofs`
unrolls the code by positions: which bytes are escaped (`EscapedRuns`), what one field
keeps (`ValueRuns`) and where it stops (`FieldAnswer`), and one turn of the host's loop
after another (`ParseLoops`). The encoder's line spells each field with a backslash before
each comma and backslash; reading it from the place where a field begins is escaped exactly
where the encoder escaped, so the field stops at the comma the encoder set between fields
and no sooner. `ParseTyped` is what the CSV reader's `TypeOK` needs of it.

Answers. `AnswersAreRight` says what each function is to answer from its meaning, not from the
way it is computed or carried. `AsksInv` says of each thread that what it asks has the types the
wrappers take, that a call on its way was staged and accepted, and that an answer it holds is right;
with `SessionInv` the answer of the session is to the thread's own question, so all steps come down
to one lemma about values, `RepliesAreRight`, with one lemma per function below it.
Words and lines cross as padded buffers with a length (`PaddedBack`, `LineOutBack`). A field is
asked for by a position, so positions of different fields must differ (`PlacesApart`)
before the field splitter's round trip says that this field is answered. Sorting is a run of
insertions, an insertion a run of moves of neighbours: no move changes how many live lanes hold a
value (`MovedKeeps`), and between two moves all live lanes are in order but for the one place the
inserted value has still to pass (`OrderedBut`, `MovedOrders`). A handoff is copied part
after part into one buffer: parts lie apart (`PartsStand`), so each is still there at the end
(`FourStand`), and the bytes of a number, which are what remains of it divided by ever smaller
places, add up to it again (`NumberBack`).

The frame reader's frames. `Content` says that on an undamaged wire the frames
returned are the sender's first ones, so that by `Accounts` the carry begins where
the next one does, and that a reader fails only inside a frame. The bytes at that place are the encoding of the next frame as far as they go, and
`DecodeFrame` on a prefix of an encoding asks for more, and on all of it returns
the frame: the lemmas about the two byte sums (`WrappedSum`, `Total`) and about
where frames begin on a wire are the round trip of `EncodeFrame` and
`DecodeFrame`.

A damaged byte. `Caught` says of a wire with one byte changed outside the lengths
that the frames returned are the first ones sent, and that the frame with the
changed byte is never among them. Since no length changed, frames begin where the
sender put them (`HeadsBut`). A changed byte of the header is no magic, version or
kind, or is another kind; it and a changed byte of the payload move the sum by
less than 65536, and a changed byte of the checksum moves what the sum is compared
with (`OneChangedByteShows`, `DamagedSum`), so `DecodeFrame` refuses that frame
(`DamagedAnswer`). With a changed length the argument ends at its first step: the
checksum is then read at another place, where the payload may hold it.

Extraction. `pair_count` and each `pair_at` are folds of their own over the
document, with state the scanner does not share, and nothing in the code ties
them together. Each fold is a function on positions (`CountRuns`, `LocateRuns`,
`ScanRuns`) and the proofs run several side by side. Spans: within one pass a key
lies before its value (`InOrder`); the pass for index k and the one for k+1 are in the same
state until the first begins its value, then skip the same bytes, and the second
notes its key only behind the comma (`SideBySide`), the step at which the first is
done. Count and location: `Meets` lists the seven places a scan that
meets no fault can be in relative to the root (before it, before a key, within one,
before the colon, before a value, within one, behind the root) and says of each what the
count and the locating pass know there: their depths are the stack's, their strings
the scanner's, and the count is the number of pairs passed, plus one behind
a colon. It needs the scanner: `{"a":1:2}` has a count of two and one pair to locate, and
the scanner refuses it. A pass that is still looking at the end of an accepted document has passed every pair that was
counted. Nested values: `Alike` says that the scanner within the document and a
scanner that began at the value's opener are in the same state but for the
root's object at the bottom of the stack (`Above`), so neither can meet a fault or a close the other does
not; when the stack is back at the root the second is complete (`Closed`) and only blanks
can follow up to the delimiter, which ends the span. The nesting bound needs care: the value alone is one level
shallower. `Read` then says that the bytes scanned by `ManifestIngest`, in views of any
width, are those of the document, so that `complete` is a statement about the
fold of the whole of it.

What the consumer holds. `IInv` says of every entry that its facts are sound
(names and object within `MaxSpelling`, a known code, no quantity or one from 0 to
999) and that its fragment is the one that `Assemble` makes of them. `TypeOK` says too
little for `EqualitiesAgree`: it counts the atoms of a fragment and does not tie
them to the facts. Each adapter's checks give sound facts:
for text that is a statement about the whole parse (`ParsesAreSound`): words are
slices of the text, each role is filled from a word of the class it needs, and the
class bounds the word. Structured and native inputs are bounded check by check.
`EqualitiesAgree` then is about sound facts only. From equal keys to equal facts
(`KeysApart`): the key is taken apart from the front, line by line; the kinds of the
atoms have the same place in both, a label ends at the first space, as `Escape`
leaves none in it, and labels of one escape are one label (`LabelsApart`, by the
least place at which they differ). A missing quantity and a quantity of 0 differ in
the piece behind the label. Back, equal facts have equal keys by congruence
(`EqualFactsOneKey`): an object MNCS knows has the label of its code, not its spelling.

Sentences. The code walks a text position by position and keeps roles of its own;
`FaultAsParsed` looks at the words of the sentence and counts places. `FirstFaultIsNamed` is
about one call of the parser, so the invariant is that of the last input and the work is
in operators. First the words: `Laid` says where each word of a
sentence ends in its text, and `StartsUpTo` that the n-th position at which a word
starts, as `WordSpans` finds it, is where the n-th word of the sentence was laid; the final
full stop and the spaces behind the last word are cut off and nothing
else is. So the parser's words are the sentence's, none split and none joined. Then the
roles: each word has one class, roles of different classes are apart, and the giver and
the taker are apart since they stand on different sides of the verb or of "from"; so that
every word fills a role exactly when the number of words is the number of roles filled,
which is the test of the code (`CoveredIsCounted`). Last the order: the code's nested
returns and the list `Faults` name the same status, case by case, as of faults 1 to 9 the
first that applies decides. Where nothing departs, the list as written and the list as
parsed are one (`NoDeparture`): a sentence that is one is in form and has its full stop, and
"from" is not doubled, so that it is missing or there.

Meaning. `EqualMeansSaidTheSame` speaks of inputs, `EqualitiesAgree` of what is held. Between
them stands `Meaning`, what sound facts say: source, target, quantity and the thing, which for a
code MNCS knows is the code and else the spelling. An accepted document and an accepted native
value have the facts of their fields (`DocumentSays`, `NativeSays`); an accepted sentence
has those of the words in its roles (`TextSays`, by `SentenceIsRead`: the words named
by the shape rules are those the parser assigned, and each role has only one). `Witnessed` is
the strengthening: every entry means what its input said, and its receipt hashes
the fragment that is held. `OneMeaning` then is about facts only: equal keys, equal
hashes and equal meanings are one thing, with `KeysApart` as the hard half.

Recursion. Induction theorems with an operator as parameter cannot be used, so
`SharedProofs` proves, for functions, what the rest needs: a set of naturals that is
not empty has a least member (`LeastNumber`), from which a property of all
positions of a sequence follows if it passes from each to the next
(`AtEveryPosition`), a function defined by recursion on positions exists
(`SetRecursion`, `PositionRecursion`), and a fold of the library takes one step per position
(`FoldRuns`).

Assumptions. The theorems about the CSV reader that name `Assumptions` take
`ViewBytes <= CarryCap + 1` (256 and
256 in the code) and callers that stop at an error (`Reuse = FALSE`).
`ViewsFit` is `AtMost(ViewBytes, MaxChunk) <= CarryCap + 1`:
with a view of 256 and a carry of 136 this holds only for callers that feed at
most 137 bytes at a time, and `frames_wide` shows what happens to others.
`SendersKeepBounds` says that what was sent has kinds 0 to 2, those the format
has, and payloads of at most `MaxPayload` bytes, which `encode_frame` asserts
(`src/src/frames.rs:155`).
`CsvReaderEveryStepShortens` and `SessionRepliesAreTheInterpreters` assume only
the types of the constants: the first holds with `Reuse` as well as without, the
second for every set of threads, every number of calls and of panics. What the
session computes of its frame is the library's and is taken as `Execute`.
`SessionParity` is not inductive, as it says nothing of threads that are inside.

`CallsAnswersAreRight` assumes that arguments have the types of the wrappers
(`AskedAssumption`: numbers of a handoff below `Radix` to the power `WordBytes`, which is what a
`u64` is, codes to sort not negative, a quantity given once or not at all) and the types of the constants
(`HandoffAssumption`, `OrderingAssumption`); arguments beyond the language's bounds are
included, and are what gets an error. Of functions whose definition *is* their
meaning (classification of words, object codes) the theorem says that the bridge
answers what the definition does.

The theorems about records assume that fields are written with bytes of the model
(`FieldsCheckAssumption`) and that a record may have a field at all (`MaxFields` is 8).
`CsvReaderTypeOK` assumes no more than the types of the constants, `Reuse` included.

The theorems about extraction assume the types of the constants
(`IngestAssumption` of `ManifestIngest`: documents of `DocumentByte`, of any content) and
`NestAssumption`, that something may be nested at all (`MaxNest` is 4).

The theorems about `Ingest` assume the types of the constants (`InputsAssumption`:
words are sequences of pieces, integers are any, a native quantity is given once or not at
all) and two facts about strings, which the prover cannot compute and TLC
evaluates: that the literals the code writes are strings (`WrittenAssumption`) and
that numbers from 0 to 999 are printed apart from each other and from the
`-` of a missing quantity (`DecimalAssumption`, `u64`'s `Display`). `MaxSpelling` is
taken to be at least one piece, as the shortest word is one. Sentences are given by their words
and what stands behind the last, and `SpacingAssumption` says that such a
description is unambiguous: words have pieces and no spaces, behind the last stand
spaces and one full stop at most, or two full stops. Sentences are thereby
single-spaced, as the grammar's are; of words, their number and their length nothing is
assumed. TLC evaluates the assumption in `convergence` and the runs beside it.

Only model-checked: liveness, which is out of the prover's reach;
`VerdictIsTheGrammars`, as `NestGrammar` is recursive over data; and of extraction
`PairsAreTheMembers`, an induction over whole written documents, nested values and
decimal numbers included.

## 5. Not modelled

* Setup: `LanguageRuntime::new`, the module resolver, `EmbedRuntime::new` and
  its lowering run once, before any state the modules keep, and compile a fixed
  source; `backend_matrix` and `debug_pipeline` compare or print for developers.
* The evaluator and the session's code: libraries. `Execute` stands for both,
  stopping exactly on arguments that do not fit the facade's types; budgets of
  steps are never reached within the bounds.
* Conversions of lanes of a wrong type (`field_u64` and its kin): an evaluator
  that keeps its types never shows one; `Reply` keeps the one error they share.
* Text inside errors; source spans and the interpreter's name in the provenance.
* Vendored library code, `envelope.rs` (no module of the crate includes it),
  `flow/identity.mncs` (nothing calls it), `examples/gen.rs` (writes sample files).
* A scanner used on after a malformed verdict: `ingest_manifest`, its only
  driver, stops there.

## 6. Plan

1. Done: the two stream readers, the scanner, their properties and first proofs.
2. Done: transfer sentences, the three adapters, the canonical form, its two
   equalities, receipts, composed in `Ingest`.
3. Done: ordering, handoffs, the bridge and the embedded session, composed with
   the field splitter in `Calls`; progress of the CSV reader and parity of the
   session proved.
4. Done: manifest extraction composed with the scanner in `ManifestIngest`.
5. Done: the records of the CSV reader and the frames of an undamaged wire, the
   refinement of `RecordStream` by both readers, exact positions of the scanner.
6. Done: the types and equalities of `Ingest`; the field splitter against its encoder, the
   types of the CSV reader.
7. Done: extraction proved against the scanner.
8. Done: the sentence parser proved against the shape rules, and equality against
   what inputs said.
9. Done: the answers of the language proved right, call by call, across the bridge.
10. Proofs left: progress of the frame reader; `PairsAreTheMembers`.
