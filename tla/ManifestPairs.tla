---------------------------- MODULE ManifestPairs ----------------------------
(***************************************************************************)
(* What manifest.rs, manifest.mncs and docs/STREAMING.md promise of        *)
(* extraction, against a writer of manifests: a document is written from a *)
(* list of members, so what its pairs are, and where, is known without     *)
(* reading it.  Other documents are not written: nothing is known of them.  *)
(***************************************************************************)
EXTENDS ManifestIngest, ManifestLanes

(* The writer. *)

EscapeByte(b) ==
    CASE b \in {"quote", "back"} -> <<"back", b>>
      [] b = "nl"                -> <<"back", "n">>
      [] b = "tab"               -> <<"back", "t">>
      [] OTHER                   -> <<b>>

Quoted(bytes) == <<"quote">> \o bytes \o <<"quote">>

Magnitude(n) == IF n < 0 THEN 0 - n ELSE n

Decimal(n) ==
    LET a      == Magnitude(n)
        places == IF a < 10 THEN 1 ELSE IF a < 100 THEN 2 ELSE 3
    IN  (IF n < 0 THEN <<"-">> ELSE << >>) \o
        [i \in 1..places |->
            CHOOSE d \in DOMAIN Digit : Digit[d] = (a \div 10^(places - i)) % 10]

\* A value is a string, a number or a boolean by what it says, or the bytes
\* of a nested container or of something that is no value.
ValueText(value) ==
    CASE value.kind = "string" ->
             LET said == value.says.string
             IN  Quoted(FlattenSeq([i \in 1..Len(said) |-> EscapeByte(said[i])]))
      [] value.kind = "int"  -> Decimal(value.says.int)
      [] value.kind = "bool" -> IF value.says.bool THEN <<"t", "r", "u", "e">>
                                                   ELSE <<"f", "a", "l", "s", "e">>
      [] OTHER               -> value.bytes

\* gap stands before each token, after behind the value.
MemberText(m) ==
    m.gap \o Quoted(m.key) \o m.gap \o <<":">> \o m.gap \o ValueText(m.value)
          \o m.after

Written(members) ==
    [text |-> <<"{">> \o FlattenSeq([k \in 1..Len(members) |->
                  (IF k = 1 THEN << >> ELSE <<",">>) \o MemberText(members[k])])
              \o <<"}">>,
     written |-> TRUE, members |-> members]

NotWritten(bytes) == [text |-> bytes, written |-> FALSE, members |-> << >>]

-----------------------------------------------------------------------------
(* What is to be read from what was written. *)

\* Bytes before member k, its comma included.
MemberBegin(members, k) ==
    k + Len(FlattenSeq([j \in 1..(k - 1) |-> MemberText(members[j])]))

ExpectedPair(members, k) ==
    LET m      == members[k]
        gap    == Len(m.gap)
        kbegin == MemberBegin(members, k) + gap + 1
        kend   == kbegin + Len(m.key)
        vbegin == kend + 1 + gap + 1 + gap
        vspan  == <<vbegin, vbegin + Len(ValueText(m.value)) + Len(m.after)>>
    IN  [status |-> "ok", key |-> m.key, key_span |-> <<kbegin, kend>>,
         value |-> IF m.value.kind = "nested" THEN [nested |-> vspan]
                                              ELSE m.value.says,
         value_span |-> vspan]

Scalar(m) == m.value.kind \in {"int", "bool"}

\* What becomes of a member: white space behind a number or a boolean is
\* taken for a part of it (see SubsetIsRead).
MemberStatus(m) ==
    CASE Len(m.key) > MaxKey -> "overlong"
      [] Len(m.key) <= MaxKey /\ m.value.kind = "string" ->
             IF Len(m.value.says.string) > MaxString THEN "overlong" ELSE "ok"
      [] Len(m.key) <= MaxKey /\ Scalar(m) ->
             IF \/ m.after # << >>
                \/ /\ m.value.kind = "int"
                   /\ Magnitude(m.value.says.int) >= 10^MaxDigits
             THEN "malformed" ELSE "ok"
      [] Len(m.key) <= MaxKey /\ m.value.kind = "nested" -> "ok"
      [] OTHER -> m.value.status

\* The scanner's faults come before all else, the bounds on the document and
\* on the number of pairs before the pairs, the first pair at fault before
\* the others.
ExpectedOutcome(d) ==
    LET faults == {k \in 1..Len(d.members) : MemberStatus(d.members[k]) # "ok"}
        first  == CHOOSE k \in faults : \A j \in faults : k <= j
    IN  IF \E k \in 1..Len(d.members) : d.members[k].value.kind = "invalid"
        THEN "malformed"
        ELSE IF Len(d.text) > MaxDocBytes THEN "overlong"
        ELSE IF Len(d.members) > MaxPairs THEN "language"
        ELSE IF faults = {} THEN "ok"
        ELSE MemberStatus(d.members[first])

-----------------------------------------------------------------------------
(* Safety. *)

Ended == outcome \notin {"running", "extracting"}

\* What comes out of a document is what was written into it: its members in
\* order, keys as they stand, strings without their escapes, numbers by their
\* value, each with its spans; or the refusal its first fault calls for.
\* Commas, colons, quotes and brackets inside strings and nested values do not
\* count, and the width of the views makes no difference.
PairsAreTheMembers ==
    Ended /\ document.written =>
        /\ outcome = ExpectedOutcome(document)
        /\ outcome = "ok" =>
               pairs = [k \in 1..Len(document.members) |->
                            ExpectedPair(document.members, k)]

\* Two passes with state of their own must agree on what a pair is: the one
\* that counts and the one that locates.  No index below the count is past
\* the last pair, whatever the scanner accepts, manifests or not.
CountMeetsLocate ==
    outcome = "language" => PairCount(text) > MaxPairs

\* Each pair is located from the start of the document anew, yet the pairs
\* lie one behind the other, each key before its value, none into the next,
\* the last one within the root's closer.
SpansAreDisjoint ==
    \A k \in 1..Len(pairs) :
        /\ pairs[k].key_span[1] <= pairs[k].key_span[2]
        /\ pairs[k].key_span[2] + 2 <= pairs[k].value_span[1]
        /\ pairs[k].value_span[1] < pairs[k].value_span[2]
        /\ pairs[k].value_span[2] < IF k < Len(pairs)
                                    THEN pairs[k + 1].key_span[1] - 1
                                    ELSE Len(text)

\* What the scanner sees of a document.
Classes(s) == [i \in 1..Len(s) |-> Class(s[i])]

\* manifest.rs: a nested value is a span that is "re-stageable": handed in as
\* a document of its own, the scanner calls it complete.
NestedRestages ==
    \A k \in 1..Len(pairs) :
        "nested" \in DOMAIN pairs[k].value =>
            LET scanned == OneShot(Classes(Span(text, pairs[k].value.nested)))
            IN  ~scanned.bad /\ scanned.state.expect = Complete

-----------------------------------------------------------------------------
(* Said of extraction in the repository, and not true of it. *)

\* manifest.rs: "top-level objects with string keys and string / integer /
\* boolean / nested values".  Such an object within the bounds is read.
SubsetIsRead ==
    /\ Ended /\ document.written
    /\ Len(text) <= MaxDocBytes /\ Len(document.members) <= MaxPairs
    /\ \A k \in 1..Len(document.members) :
           MemberStatus([document.members[k] EXCEPT !.after = << >>]) = "ok"
    => outcome = "ok"
=============================================================================
