-------------------------- MODULE ManifestScanner --------------------------
(***************************************************************************)
(* The incremental manifest scanner: ManifestScanner::scan of               *)
(* src/manifest.rs around scan_chunk of language/mncs/flow/nest.mncs, as    *)
(* ingest_manifest drives it: views of any length, then one empty view at   *)
(* end of input; a malformed view ends the run.                             *)
(*                                                                         *)
(* A scan call is unrolled into the iterations of its fold: BeginView,      *)
(* ScanByte for each byte, EndView.  The bytes of a view are chosen as they *)
(* are read.  Once a byte is at fault the fold keeps its state whatever     *)
(* bytes follow it in the view: SkipByte.                                   *)
(***************************************************************************)
EXTENDS Nest

CONSTANTS
    Alphabet,   \* the byte classes documents are made of
    MaxDoc      \* bound: bytes of a document

ASSUME ScannerAssumption == Alphabet \subseteq Byte /\ MaxDoc \in Nat

VARIABLES
    pc,        \* "idle", "scan" within a call, "done" after the last
    state,     \* the scanner's lanes; ManifestScanner.state between calls
    base,      \* stream offset of the current view; ManifestScanner.base
    count,     \* bytes of the current view folded so far
    bad, at,   \* the fold's fault flag and the index of the first fault
    verdict,   \* status of the last call
    position,  \* position of the last verdict
    doc        \* history: the bytes scanned, up to the first at fault

fold == <<count, bad, at>>
vars == <<pc, state, base, fold, verdict, position, doc>>

Init ==
    /\ pc = "idle"
    /\ state = SeedState
    /\ base = 0
    /\ count = 0 /\ bad = FALSE /\ at = 0
    /\ verdict = "none" /\ position = 0
    /\ doc = << >>

BeginView ==
    /\ pc = "idle"
    /\ pc' = "scan"
    /\ count' = 0 /\ bad' = FALSE /\ at' = 0
    /\ UNCHANGED <<state, base, verdict, position, doc>>

ScanByte(b) ==
    /\ pc = "scan" /\ ~bad
    /\ Len(doc) < MaxDoc
    /\ \E moved \in {StepByte(state, b)} :
           /\ state' = moved.state
           /\ bad' = moved.bad
           /\ at' = IF moved.bad THEN count ELSE at
    /\ count' = count + 1
    /\ doc' = Append(doc, b)
    /\ UNCHANGED <<pc, base, verdict, position>>

SkipByte ==
    /\ pc = "scan" /\ bad
    /\ base + count < MaxDoc
    /\ count' = count + 1
    /\ UNCHANGED <<pc, state, base, bad, at, verdict, position, doc>>

\* Mistake: a malformed view is blamed past its end.
EndViewPastEnd ==
    /\ pc = "scan"
    /\ verdict' = IF bad THEN "malformed" ELSE "ok"
    /\ position' = base + count
    /\ base' = base + count
    /\ pc' = IF bad THEN "done" ELSE "idle"
    /\ UNCHANGED <<state, fold, doc>>

\* finish_scan without eof, and what the host stores of it.
EndView ==
    /\ pc = "scan"
    /\ verdict' = IF bad THEN "malformed" ELSE "ok"
    /\ position' = IF bad THEN base + at ELSE base + count
    /\ base' = base + count
    /\ pc' = IF bad THEN "done" ELSE "idle"
    /\ UNCHANGED <<state, fold, doc>>

\* The closing call: an empty view with eof.
EndOfInput ==
    /\ pc = "idle"
    /\ verdict' = IF state.expect = Complete /\ state.stack = << >>
                  THEN "complete" ELSE "truncated"
    /\ position' = base
    /\ pc' = "done"
    /\ UNCHANGED <<state, base, fold, doc>>

Next ==
    \/ BeginView
    \/ \E b \in Alphabet : ScanByte(b)
    \/ SkipByte
    \/ EndView
    \/ EndOfInput

Spec == Init /\ [][Next]_vars
=============================================================================
