--------------------------- MODULE ManifestIngest ---------------------------
(***************************************************************************)
(* ingest_manifest of src/manifest.rs: a whole document is scanned in views *)
(* of one width, and when the scanner calls it complete its pairs are read, *)
(* one call into the language for their number and one for each.  The scan  *)
(* is that of ManifestScanner, whose bytes are now those of a document.     *)
(***************************************************************************)
EXTENDS ManifestScanner, Manifest

CONSTANTS
    Manifests,     \* what is ingested: records whose field text is the bytes
    Widths,        \* the widths callers ask for
    MaxDocBytes,   \* longest document pairs are read from, 512 in the code
    MaxPairs       \* most pairs, 64 in the code

ASSUME IngestAssumption ==
    /\ \A d \in Manifests : d.text \in Seq(DocumentByte) /\ Len(d.text) <= MaxDoc
    /\ Widths \subseteq Nat
    /\ MaxDocBytes \in Nat /\ MaxPairs \in Nat

VARIABLES
    document,   \* the document, and what its writer knows of it
    width,      \* the width asked for
    expected,   \* pairs to read, once counted
    pairs,      \* pairs read so far; an error drops them
    outcome     \* "running", "ok", or the error ingest_manifest returns

given == <<document, width>>
ingestVars == <<vars, given, expected, pairs, outcome>>

text == document.text

\* width.max(1)
ViewWidth == IF width = 0 THEN 1 ELSE width

ViewEnds == count = ViewWidth \/ base + count = Len(text)

IngestInit ==
    /\ Init
    /\ document \in Manifests
    /\ width \in Widths
    /\ expected = 0 /\ pairs = << >>
    /\ outcome = "running"

\* The next view of doc.chunks(width), byte by byte.
ScanView ==
    /\ \/ base < Len(text) /\ BeginView
       \/ ~ViewEnds /\ (ScanByte(Class(text[base + count + 1])) \/ SkipByte)
       \/ ViewEnds /\ EndView
    /\ UNCHANGED <<given, expected, pairs, outcome>>

CloseInput ==
    /\ base = Len(text)
    /\ EndOfInput
    /\ UNCHANGED <<given, expected, pairs, outcome>>

Stop(code) ==
    /\ outcome' = code
    /\ pairs' = IF code = "ok" THEN pairs ELSE << >>
    /\ UNCHANGED <<vars, given, expected>>

\* A view or the closing call was not answered with "complete" at the end.
RefuseStructure ==
    /\ outcome = "running" /\ pc = "done" /\ verdict # "complete"
    /\ Stop("malformed")

\* extract_all begins; its own bounds come first.
CountPairs ==
    /\ outcome = "running" /\ pc = "done" /\ verdict = "complete"
    /\ \E n \in {PairCount(text)} :
           \/ Len(text) > MaxDocBytes /\ Stop("overlong")
           \/ Len(text) <= MaxDocBytes /\ n \notin 0..MaxPairs /\ Stop("language")
           \/ /\ Len(text) <= MaxDocBytes /\ n \in 0..MaxPairs
              /\ outcome' = "extracting" /\ expected' = n
              /\ UNCHANGED <<vars, given, pairs>>

\* pair_at for the next index; the first refusal ends the collection.
ReadPair ==
    /\ outcome = "extracting" /\ Len(pairs) < expected
    /\ \E pair \in {PairAt(text, Len(pairs))} :
           \/ /\ pair.status = "ok"
              /\ pairs' = Append(pairs, pair)
              /\ UNCHANGED <<vars, given, expected, outcome>>
           \/ /\ pair.status # "ok"
              /\ Stop(IF pair.status = "end" THEN "language" ELSE pair.status)

AllRead ==
    /\ outcome = "extracting" /\ Len(pairs) = expected
    /\ Stop("ok")

IngestNext ==
    ScanView \/ CloseInput \/ RefuseStructure \/ CountPairs \/ ReadPair \/ AllRead

IngestSpec == IngestInit /\ [][IngestNext]_ingestVars
=============================================================================
