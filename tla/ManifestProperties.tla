------------------------- MODULE ManifestProperties -------------------------
(***************************************************************************)
(* What manifest.rs, nest.mncs and docs/STREAMING.md promise of the        *)
(* manifest scanner, against a grammar that generates whole documents.     *)
(***************************************************************************)
EXTENDS ManifestLanes

AllDepartures == {"array_root", "keyless_member", "late_container", "split_literal"}

AsWritten == INSTANCE NestGrammar WITH Letters <- Alphabet, Departures <- {}
AsScanned == INSTANCE NestGrammar WITH Letters <- Alphabet,
                                       Departures <- AllDepartures

WordsAsWritten == UNION {AsWritten!Documents(n) : n \in 0..MaxDoc}
WordsAsScanned == UNION {AsScanned!Documents(n) : n \in 0..MaxDoc}

PrefixesOf(words) == UNION {{SubSeq(w, 1, k) : k \in 0..Len(w)} : w \in words}

PrefixesAsWritten == PrefixesOf(WordsAsWritten)
PrefixesAsScanned == PrefixesOf(WordsAsScanned)

-----------------------------------------------------------------------------
(* A document by its bytes alone, whatever the scanner makes of them. *)

Quoting(s) ==
    FoldLeft(LAMBDA mode, b :
                 IF mode = "escape" THEN "string"
                 ELSE IF mode = "string"
                 THEN (IF b = "quote" THEN "plain"
                       ELSE IF b = "back" THEN "escape" ELSE "string")
                 ELSE IF b = "quote" THEN "string" ELSE "plain",
             "plain", s)

\* Byte k stands outside strings.
Outside(s, k) == Quoting(SubSeq(s, 1, k - 1)) = "plain" /\ s[k] # "quote"

IsBlank(s, k) == IsSpace(s[k]) /\ Outside(s, k)

\* White space with a literal character on both its sides.
SplitsLiteral(s, k) ==
    \E i \in 1..(k - 1), j \in (k + 1)..Len(s) :
        /\ \A l \in (i + 1)..(j - 1) : IsBlank(s, l)
        /\ \A l \in {i, j} : IsLiteralChar(s[l]) /\ Outside(s, l)

\* The document without its white space outside strings.
Squeeze(s) ==
    FoldLeftDomain(LAMBDA kept, k : IF IsBlank(s, k) THEN kept
                                    ELSE Append(kept, s[k]), << >>, s)

Opens(b) == b \in {"{", "["}
Closes(b) == b \in {"}", "]"}

RootIsArray(s) == Squeeze(s) # << >> /\ Squeeze(s)[1] = "["

LiteralIsSplit(s) == \E k \in 1..Len(s) : IsBlank(s, k) /\ SplitsLiteral(s, k)

\* An object's first member is a container.
KeyIsMissing(s) ==
    LET t == Squeeze(s)
    IN  \E k \in 1..(Len(t) - 1) :
            t[k] = "{" /\ Outside(t, k) /\ Opens(t[k + 1])

\* A container after a comma is empty or begun by a container.
ContainerIsLate(s) ==
    LET t == Squeeze(s)
    IN  \E k \in 1..(Len(t) - 2) :
            /\ t[k] = "," /\ Outside(t, k) /\ Opens(t[k + 1])
            /\ Opens(t[k + 2]) \/ Closes(t[k + 2])

Departs(s) ==
    RootIsArray(s) \/ LiteralIsSplit(s) \/ KeyIsMissing(s) \/ ContainerIsLate(s)

-----------------------------------------------------------------------------
(* Safety. *)

\* The verdict, wherever views end, is the one the grammar gives of the whole
\* document: complete for its words and no others, malformed only when no
\* word of the bounded size begins so.  The grammar is that of the comments,
\* but for documents that show one of the four departures; those are judged as
\* they are known to be scanned, and what the comments say of them is below
\* (SomeCommentHolds).
VerdictIsTheGrammars ==
    verdict \in {"complete", "truncated", "malformed"} =>
        LET words == IF Departs(doc) THEN WordsAsScanned ELSE WordsAsWritten
            begun == IF Departs(doc) THEN PrefixesAsScanned
                                     ELSE PrefixesAsWritten
        IN  CASE verdict = "complete"  -> Squeeze(doc) \in words
              [] verdict = "truncated" -> Squeeze(doc) \notin words
              [] verdict = "malformed" -> Squeeze(doc) \notin begun

-----------------------------------------------------------------------------
(* Said of the scanner in the repository, and not true of it. *)

\* The bytes scanned without a fault.
Passed == IF bad THEN Front(doc) ELSE doc

\* nest.mncs, close_string: "only `{` may open the document".
OnlyObjectsAreRoots == ~RootIsArray(Passed)

\* nest.mncs, expect states: a fresh object "wants a key or `}`".
MembersHaveKeys == ~KeyIsMissing(Passed)

\* nest.mncs, step_token: "anything else ends it and reprocesses the byte as a
\* fresh token", white space too.
BlanksEndLiterals == ~LiteralIsSplit(Passed)

\* nest.mncs, close_container: "`{}` and `[]` close fresh".  No closer right
\* after its opener is at fault.
FreshContainersClose ==
    verdict = "malformed" =>
        \A opener \in {"{", "["} :
            ~IsSuffix(<<opener, IF opener = "{" THEN "}" ELSE "]">>, doc)

\* Of these four comments of nest.mncs, each of which is about every document, at
\* least one is true of every document: none breaks them all.
SomeCommentHolds ==
    \/ OnlyObjectsAreRoots
    \/ MembersHaveKeys
    \/ BlanksEndLiterals
    \/ FreshContainersClose
=============================================================================
