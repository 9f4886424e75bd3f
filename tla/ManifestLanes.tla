---------------------------- MODULE ManifestLanes ----------------------------
(***************************************************************************)
(* The state the manifest scanner carries between calls: what its lanes    *)
(* may hold, how they depend on one another, and what scanning in views    *)
(* has to do with scanning a document at once.                             *)
(***************************************************************************)
EXTENDS ManifestScanner, SequencesExt

-----------------------------------------------------------------------------
(* Type correctness. *)

States == [stack : Seq({"object", "array"}), expect : NeedValue..Complete,
           in_string : BOOLEAN, esc : BOOLEAN, max_depth : 0..MaxNest,
           in_literal : BOOLEAN, after_comma : BOOLEAN]

SoundLanes(st) == st \in States /\ Len(st.stack) <= MaxNest

TypeOK ==
    /\ pc \in {"idle", "scan", "done"}
    /\ SoundLanes(state)
    /\ base \in Nat /\ count \in Nat /\ at \in Nat /\ bad \in BOOLEAN
    /\ verdict \in {"none", "ok", "complete", "truncated", "malformed"}
    /\ position \in Nat
    /\ doc \in Seq(Byte)

-----------------------------------------------------------------------------
(* Scanning at once. *)

\* The fold of scan_chunk keeps its state from the first fault on.
FoldByte(step, b) == IF step.bad THEN step ELSE StepByte(step.state, b)

\* Bytes scanned in one fold.
Scan(st, s) == FoldLeft(FoldByte, Ok(st), s)

\* The whole document in one fold, from the seed.
OneShot(s) == Scan(SeedState, s)

-----------------------------------------------------------------------------
(* Safety. *)

Agree(st) ==
    /\ st.stack = << >> => st.expect \in {NeedValue, Complete}
    /\ st.expect = Complete => st.stack = << >>
    /\ st.expect = NeedColon => Innermost(st) = "object"
    /\ st.in_string => st.expect \in {NeedValue, Fresh}
    /\ st.esc => st.in_string
    /\ st.in_literal => st.expect = NeedComma /\ ~st.in_string
    /\ Len(st.stack) <= st.max_depth

\* The lanes of the state never disagree: the root is complete exactly when
\* every container has closed, a colon is awaited only in an object, a string
\* is open only where a string may stand, an escape only in a string, and a
\* literal only where a comma or a closer may follow.
LanesAgree == Agree(state)

\* "position" is exact and absolute: a malformed verdict points at the first
\* byte at which a scan of the document from its start would fail, another
\* at the number of bytes scanned.
PositionIsExact ==
    /\ verdict = "malformed" =>
           /\ position = Len(doc) - 1
           /\ ~OneShot(SubSeq(doc, 1, position)).bad
           /\ OneShot(doc).bad
    /\ verdict \in {"complete", "truncated"} => position = Len(doc)

\* Bytes that close what is open: the string, the pair, the containers.
StringEnd(st) ==
    IF st.in_string THEN (IF st.esc THEN <<"n">> ELSE << >>) \o <<"quote">>
                    ELSE << >>

PairEnd(st) ==
    LET key == st.expect = Fresh /\ Innermost(st) = "object"
    IN  IF st.expect = NeedColon \/ (key /\ st.in_string) THEN <<":", "1">>
        ELSE IF key /\ st.after_comma THEN <<"quote", "quote", ":", "1">>
        ELSE IF st.expect \in {NeedValue, Fresh} /\ ~key /\ ~st.in_string
        THEN <<"1">>
        ELSE << >>

Closer(kind) == IF kind = "object" THEN "}" ELSE "]"

Closers(st) == [k \in 1..Len(st.stack) |->
                    Closer(st.stack[Len(st.stack) + 1 - k])]

ClosingBytes(st) == StringEnd(st) \o (PairEnd(st) \o Closers(st))

\* Truncated means that more bytes could have finished the document, as
\* nest.mncs says of a literal: no scan is left without a way to complete,
\* save before the root opens.
TruncatedCouldFinish ==
    verdict = "truncated" /\ state.stack # << >> =>
        LET finished == Scan(state, ClosingBytes(state))
        IN  ~finished.bad /\ finished.state.expect = Complete
=============================================================================
