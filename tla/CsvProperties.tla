--------------------------- MODULE CsvProperties ---------------------------
(***************************************************************************)
(* What src/csv.rs and docs/STREAMING.md promise of the CSV reader.  The   *)
(* reference reads the whole stream at once, by newline positions; it      *)
(* knows nothing of chunks, views or carries.                              *)
(***************************************************************************)
EXTENDS CsvReader, Accounting

(* The reference. *)

\* Byte count before line k of a stream.
LineBegin(s, k) ==
    IF k = 1 THEN 0
    ELSE CHOOSE i \in Newlines(s) :
             Cardinality({j \in Newlines(s) : j <= i}) = k - 1

LineStop(s, k) ==
    IF k <= Cardinality(Newlines(s)) THEN LineBegin(s, k + 1) - 1 ELSE Len(s)

RawLine(s, k) == SubSeq(s, LineBegin(s, k) + 1, LineStop(s, k))

TerminatedLines(s) == Cardinality(Newlines(s))

\* A tail without a newline is a line of its own when the stream ends.
HasTail(s) == s # << >> /\ s[Len(s)] # "nl"

LinesOfEnded(s) == TerminatedLines(s) + (IF HasTail(s) THEN 1 ELSE 0)

ReferenceRecord(s, k) ==
    LET line == StripCR(RawLine(s, k))
    IN  [fields     |-> ParseFields(line).fields,
         line_no    |-> k,
         byte_start |-> LineBegin(s, k),
         byte_end   |-> LineBegin(s, k) + Len(line)]

\* Neither a control byte nor a CR before the last byte.
Plain(line) ==
    \A i \in 1..Len(line) :
        line[i] # "ctl" /\ (i < Len(line) => line[i] # "cr")

\* Line k is sound whatever way it is cut into chunks: with its CR it stays
\* within the bound, so no carry that ends in that CR is too long.
SoundLine(s, k) ==
    /\ Plain(RawLine(s, k))
    /\ Len(RawLine(s, k)) <= LineMax
    /\ ParseFields(StripCR(RawLine(s, k))).status = "ok"

\* Line k is what the format allows at most: the CR is not counted.
AllowedLine(s, k) ==
    /\ Plain(RawLine(s, k))
    /\ Len(StripCR(RawLine(s, k))) <= LineMax
    /\ ParseFields(StripCR(RawLine(s, k))).status = "ok"

-----------------------------------------------------------------------------
(* Type correctness. *)

FieldLists == {ParseFields(line).fields : line \in BoundedSeq(Byte, LineMax)}

Records == [fields : FieldLists, line_no : Nat,
            byte_start : Nat, byte_end : Nat]

TypeOK ==
    /\ pc \in Control
    /\ fed \in Seq(Byte) /\ todo \in Seq(Byte)
    /\ feeds \in {"none", "one", "many"}
    /\ carry \in Seq(Byte) /\ Len(carry) <= CarryCap
    /\ line_no \in Nat /\ stream_pos \in Nat
    /\ records \in Seq(Records) /\ delivered \in Seq(Records)
    /\ error \in [kind : {"none", "malformed", "overlong"}, line : Nat]

-----------------------------------------------------------------------------
(* Safety. *)

\* The bytes after b, up to e, are one terminator: LF, or CR and LF.
Terminates(stream, b, e) ==
    /\ e - b \in 1..2
    /\ stream[e] = "nl"
    /\ e = b + 2 => stream[b + 1] = "cr"

\* What separates the records from the bytes held, which begin at byte b: the
\* terminator of the last record, or nothing before the first record and
\* after the tail of the stream.
CutUpTo(units, b) ==
    \/ CutEnd(units) = b /\ (units = << >> \/ pc \in {"flush", "finished"})
    \/ units # << >> /\ Terminates(fed, CutEnd(units), b)

\* The stream ends with the carry and the rest of the running chunk.
BytesAccounted ==
    pc # "failed" => Accounted(fed, carry, stream_pos, todo)

\* Only the terminator of the last record lies between it and the carry.
CarryFollowsRecords ==
    pc # "failed" => CutUpTo(delivered \o records, stream_pos - Len(carry))

\* docs/STREAMING.md: no byte is ever dropped or double-counted.  The bytes
\* of the stream are, in order, those of the records and their terminators,
\* the carry, and the rest of the running chunk, and stream_pos is the
\* boundary before that rest.
NoByteLost == BytesAccounted /\ CarryFollowsRecords

\* Chunking does not change semantics: whatever the views were, the records
\* produced are those of the first lines of the stream, with their fields,
\* numbers and byte ranges.
RecordsAreTheLines ==
    LET produced == delivered \o records
    IN  /\ pc # "failed" => line_no = Len(produced)
        /\ \A k \in 1..Len(produced) : produced[k] = ReferenceRecord(fed, k)

\* feed returns "the records completed by this chunk": none is withheld, so
\* between calls the carry is one unfinished line that can still be sound.
NothingWithheld ==
    pc = "idle" =>
        /\ Len(delivered) = TerminatedLines(fed)
        /\ Newlines(carry) = {}
        /\ Len(carry) <= LineMax

\* A stream that ended well ended with all its lines delivered, and each of
\* them is one the format allows: nothing malformed slips through.
EndedMeansAllDelivered ==
    pc = "finished" =>
        /\ Len(delivered) = LinesOfEnded(fed)
        /\ \A k \in 1..LinesOfEnded(fed) : AllowedLine(fed, k)
        /\ HasTail(fed) => fed[Len(fed)] # "cr"

\* An error has a cause among the bytes the language was given: some line
\* that has begun is not sound, or the stream ended on a dangling CR.
RefusalHasCause ==
    pc = "failed" =>
        LET seen == SubSeq(fed, 1, stream_pos)
        IN  \/ \E k \in 1..LinesOfEnded(seen) : ~SoundLine(seen, k)
            \/ HasTail(seen) /\ seen[Len(seen)] = "cr"

\* The line an error names is at fault and the lines before it are not,
\* unless a control byte further on spoiled the window.
ErrorNamesTheLine ==
    pc = "failed" /\ ~HasControl(fed) =>
        /\ \A k \in 1..(error.line - 1) : AllowedLine(fed, k)
        /\ error.line \in 1..LinesOfEnded(fed)
        /\ \/ ~SoundLine(fed, error.line)
           \/ error.line = LinesOfEnded(fed) /\ fed[Len(fed)] = "cr"

\* The verdict on a whole stream fed as one chunk and finished.  Its views
\* end at the multiples of ViewBytes, and a line of LineMax bytes whose CR is
\* the last byte of a view is too long before its newline is seen.
OneShotAccepts(s) ==
    /\ \A k \in 1..LinesOfEnded(s) : AllowedLine(s, k)
    /\ HasTail(s) => s[Len(s)] # "cr"
    /\ \A k \in 1..TerminatedLines(s) :
           Len(RawLine(s, k)) > LineMax => LineStop(s, k) % ViewBytes # 0

\* What one call of feed and one of finish make of a stream is exactly that,
\* whatever lies where in its views: refused or ended, never the other.
OneShotVerdict ==
    feeds # "many" =>
        /\ pc = "failed" => ~OneShotAccepts(fed)
        /\ pc = "finished" => OneShotAccepts(fed)

-----------------------------------------------------------------------------
(* Said of the reader in the repository, and not true of it. *)

\* tests/stream_csv.rs: "chunk size {chunk} must agree with one-shot".  A
\* stream accepted in one chunk is not refused in several.
ChunkingAgreesWithOneShot == pc = "failed" => ~OneShotAccepts(fed)

\* lines.mncs, scan_newline: "a control byte can never belong to a valid
\* line, so failing here is sound": the line refused is one that is not valid.
RefusedLineIsAtFault ==
    pc = "failed" /\ HasControl(fed) =>
        /\ error.line \in 1..LinesOfEnded(fed)
        /\ ~SoundLine(fed, error.line)

-----------------------------------------------------------------------------
(* The abstract specification. *)

UnitsOf(rs) ==
    [k \in 1..Len(rs) |->
        [begin |-> rs[k].byte_start, end |-> rs[k].byte_end]]

Stream == INSTANCE RecordStream WITH
    MinGap  <- 1,
    MaxGap  <- 2,
    arrived <- Len(fed),
    units   <- UnitsOf(delivered \o records),
    phase   <- IF pc = "finished" THEN "closed"
               ELSE IF pc = "failed" THEN "refused" ELSE "open"

\* The reader implements RecordStream: its records tile the stream, but for
\* one terminator, LF or CRLF, after each.
TilesTheStream == Stream!Spec

-----------------------------------------------------------------------------
(* Progress. *)

\* What drain_carry or finish have still to do at most, and the return itself.
StepsLeft ==
    CASE pc = "view" -> 1
      [] pc \in {"drain", "flush"} -> 2 + Len(carry)
      [] OTHER -> 0

\* The chunk gets shorter, or it stays and fewer steps are left.
Shortens ==
    \/ Len(todo') < Len(todo)
    \/ Len(todo') = Len(todo) /\ StepsLeft' < StepsLeft

Running == pc \in {"view", "drain", "flush"}

\* feed, drain_carry and finish loop until the language has nothing more to
\* give.  No answer lets them spin: a line makes the carry shorter, all else
\* ends the loop, also for callers that go on after an error, who may have
\* left whole lines in the carry.
EveryStepShortens == [][Running => Shortens]_vars

\* Every call returns: each step of drain_carry and of finish shortens the
\* carry, each view the chunk.
CallsReturn == Running ~> ~Running
=============================================================================
