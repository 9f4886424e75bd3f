------------------------------ MODULE Manifest ------------------------------
(***************************************************************************)
(* Typed pairs of a complete manifest, language/mncs/flow/manifest.mncs:    *)
(* how many there are (PairCount), where the pair of an index lies          *)
(* (LocatePair) and what it says (PairAt).  Each is one pass over the whole *)
(* document, which the language is handed again with every call.            *)
(*                                                                         *)
(* The bytes are finer than those of Nest, since literals are spelled out  *)
(* here: three digits, the letters of "true" and "false", "k" for any other *)
(* letter, and the tab apart from the space.  Class maps them to Nest's.    *)
(* Positions count bytes from 0, as the code; a span is [start, end).      *)
(***************************************************************************)
EXTENDS Nest, SequencesExt

CONSTANTS
    MaxKey,      \* longest key, 32 in the code
    MaxString,   \* longest string value, 64 in the code
    MaxDigits    \* most digits of an integer, 5 in the code

ASSUME ManifestAssumption ==
    MaxKey \in Nat /\ MaxString \in Nat /\ MaxDigits \in Nat

Digit == [d \in {"0", "1", "9"} |-> CASE d = "0" -> 0 [] d = "1" -> 1
                                      [] d = "9" -> 9]

Letter == {"t", "r", "u", "e", "f", "a", "l", "s", "n", "k"}

DocumentByte ==
    {"{", "}", "[", "]", ":", ",", "quote", "back", "-", "sp", "tab", "nl",
     "ctl", "other"} \cup DOMAIN Digit \cup Letter

\* What the scanner sees of a byte.
Class(b) ==
    CASE b \in DOMAIN Digit \cup {"-", "f"}    -> "1"
      [] b \in Letter \ {"t", "n", "f"}        -> "x"
      [] b = "tab"                             -> "sp"
      [] OTHER                                 -> b

IsBlank(b) == b \in {"sp", "tab", "nl"}
IsOpener(b) == b \in {"{", "["}
IsCloser(b) == b \in {"}", "]"}

\* A byte inside a string: a quote ends it unless a backslash is before it.
WithinString(st, b) ==
    [st EXCEPT !.instr = st.esc \/ b # "quote", !.esc = b = "back" /\ ~st.esc]

OpenedString(st) == [st EXCEPT !.instr = TRUE, !.esc = FALSE]

-----------------------------------------------------------------------------
(* The number of pairs: colons at depth 1 outside strings. *)

\* Mistake: strings are not told from structure.
CountStepAnywhere(st, b) ==
    [st EXCEPT !.depth = IF IsOpener(b) THEN @ + 1
                         ELSE IF IsCloser(b) THEN @ - 1 ELSE @,
               !.count = IF b = ":" /\ st.depth = 1 THEN @ + 1 ELSE @]

CountStep(st, b) ==
    IF st.instr THEN WithinString(st, b)
    ELSE IF b = "quote" THEN OpenedString(st)
    ELSE [st EXCEPT !.depth = IF IsOpener(b) THEN @ + 1
                              ELSE IF IsCloser(b) THEN @ - 1 ELSE @,
                    !.count = IF b = ":" /\ st.depth = 1 THEN @ + 1 ELSE @]

PairCount(text) ==
    FoldLeft(CountStep,
             [depth |-> 0, instr |-> FALSE, esc |-> FALSE, count |-> 0],
             text).count

-----------------------------------------------------------------------------
(* The place of a pair.  phase names what is sought; open whether the root  *)
(* object is (the code's depth, which is 0 or 1: a container below it is    *)
(* skipped as a value, nest counting its levels).                           *)

LocateSeed ==
    [phase |-> "key", open |-> FALSE, pair |-> 0, key |-> <<0, 0>>,
     fkey |-> <<0, 0>>, value |-> <<0, 0>>, want |-> FALSE, skipping |-> FALSE,
     nest |-> 0, instr |-> FALSE, esc |-> FALSE,
     done |-> FALSE, oversize |-> FALSE, bad |-> FALSE]

Misplaced(st) == [st EXCEPT !.bad = TRUE]

\* Mistake: the start of the first value stays.
BeginValueStale(st, b, i, index) ==
    LET want == st.pair = index
    IN  [st EXCEPT !.want     = want,
                   !.fkey     = IF want THEN st.key ELSE @,
                   !.value    = IF @[1] = 0 THEN <<i, @[2]>> ELSE @,
                   !.skipping = TRUE,
                   !.nest     = IF IsOpener(b) THEN 1 ELSE 0,
                   !.instr    = b = "quote",
                   !.esc      = FALSE,
                   !.phase    = "comma",
                   !.oversize = @ \/ (want /\ st.key[2] - st.key[1] > MaxKey)]

\* A value begins at i: the key before it and its start are noted if the pair
\* is the one wanted, and the bytes up to its end are skipped.
BeginValue(st, b, i, index) ==
    LET want == st.pair = index
    IN  [st EXCEPT !.want     = want,
                   !.fkey     = IF want THEN st.key ELSE @,
                   !.value    = IF want THEN <<i, @[2]>> ELSE @,
                   !.skipping = TRUE,
                   !.nest     = IF IsOpener(b) THEN 1 ELSE 0,
                   !.instr    = b = "quote",
                   !.esc      = FALSE,
                   !.phase    = "comma",
                   !.oversize = @ \/ (want /\ st.key[2] - st.key[1] > MaxKey)]

\* A delimiter outside strings and nested containers ends the value.  It is
\* used up: a comma leads to the next key, the root's closer is not looked at
\* again.
EndValue(st, b, i) ==
    LET separates == b = "," /\ ~st.want
    IN  [st EXCEPT !.skipping = FALSE,
                   !.value    = IF st.want THEN <<@[1], i>> ELSE @,
                   !.done     = st.want,
                   !.phase    = IF separates THEN "key" ELSE @,
                   !.pair     = IF separates THEN @ + 1 ELSE @]

\* Mistake: the closer of a nested container ends the value before itself.
SkipStepShort(st, b, i) ==
    IF st.instr THEN WithinString(st, b)
    ELSE CASE b = "quote"                -> OpenedString(st)
           [] IsOpener(b)                -> [st EXCEPT !.nest = @ + 1]
           [] IsCloser(b) /\ st.nest > 1 -> [st EXCEPT !.nest = @ - 1]
           [] \/ IsCloser(b) /\ st.nest <= 1
              \/ b = "," /\ st.nest = 0  -> EndValue(st, b, i)
           [] OTHER                      -> st

SkipStep(st, b, i) ==
    IF st.instr THEN WithinString(st, b)
    ELSE CASE b = "quote"                             -> OpenedString(st)
           [] IsOpener(b)                             -> [st EXCEPT !.nest = @ + 1]
           [] IsCloser(b) /\ st.nest > 0              -> [st EXCEPT !.nest = @ - 1]
           [] (IsCloser(b) \/ b = ",") /\ st.nest = 0 -> EndValue(st, b, i)
           [] OTHER                                   -> st

InKey(st, b, i) ==
    IF b = "quote" /\ ~st.esc
    THEN [st EXCEPT !.key = <<@[1], i>>, !.phase = "colon", !.instr = FALSE]
    ELSE WithinString(st, b)

CloseRoot(st, b) ==
    IF b = "}" /\ st.open /\ st.phase \in {"key", "comma"}
    THEN [st EXCEPT !.open = FALSE]
    ELSE Misplaced(st)

LocateToken(st, b, i, index) ==
    CASE st.phase = "value" /\ ~IsCloser(b) /\ b \notin {":", ","} ->
             BeginValue(st, b, i, index)
      [] b = "quote" /\ st.phase = "key" /\ st.open ->
             [OpenedString(st) EXCEPT !.phase = "in_key", !.key = <<i + 1, @[2]>>]
      [] b = "{" /\ st.phase = "key" /\ ~st.open -> [st EXCEPT !.open = TRUE]
      [] IsCloser(b)                             -> CloseRoot(st, b)
      [] b = ":" /\ st.phase = "colon"           -> [st EXCEPT !.phase = "value"]
      [] b = "," /\ st.phase = "comma" ->
             [st EXCEPT !.phase = "key", !.pair = @ + 1]
      [] OTHER                                   -> Misplaced(st)

LocateStep(st, b, i, index) ==
    IF st.done \/ st.bad \/ st.oversize THEN st
    ELSE IF st.skipping THEN SkipStep(st, b, i)
    ELSE IF st.instr THEN InKey(st, b, i)
    ELSE IF IsBlank(b) THEN st
    ELSE LocateToken(st, b, i, index)

LocatePair(text, index) ==
    LET st == FoldLeftDomain(
                  LAMBDA s, i : LocateStep(s, text[i], i - 1, index),
                  LocateSeed, text)
    IN  [status |-> CASE st.bad                  -> "malformed"
                      [] ~st.bad /\ st.oversize  -> "overlong"
                      [] OTHER -> IF st.done THEN "ok" ELSE "end",
         key |-> st.fkey, value |-> st.value]

-----------------------------------------------------------------------------
(* The value of a pair. *)

Span(text, span) == SubSeq(text, span[1] + 1, span[2])

Refusal(code) == [status |-> code]

\* The value under the name of its kind, the key's bytes as they stand.
Pair(text, loc, value) ==
    [status |-> "ok", key |-> Span(text, loc.key), key_span |-> loc.key,
     value |-> value, value_span |-> loc.value]

Unescaped == [b \in {"quote", "back", "n", "t"} |->
                  CASE b = "n" -> "nl" [] b = "t" -> "tab" [] OTHER -> b]

AppendByte(st, b) ==
    [st EXCEPT !.buf     = IF Len(@) < MaxString THEN Append(@, b) ELSE @,
               !.toolong = @ \/ Len(st.buf) >= MaxString,
               !.esc     = FALSE]

StringStep(st, b) ==
    CASE st.closed \/ st.bad -> st
      [] ~st.closed /\ ~st.bad /\ st.esc ->
             IF b \in DOMAIN Unescaped THEN AppendByte(st, Unescaped[b])
                                       ELSE [st EXCEPT !.bad = TRUE]
      [] OTHER ->
             IF b = "back" THEN [st EXCEPT !.esc = TRUE]
             ELSE IF b = "quote" THEN [st EXCEPT !.closed = TRUE]
             ELSE IF b \in {"ctl", "nl", "tab"} THEN [st EXCEPT !.bad = TRUE]
             ELSE AppendByte(st, b)

\* Mistake: the fold stops at the bound, and the quote goes unseen.
ReadStringStops(text, loc) ==
    LET st == FoldLeft(LAMBDA s, b : IF s.toolong THEN s ELSE StringStep(s, b),
                       [buf |-> << >>, esc |-> FALSE, bad |-> FALSE,
                        toolong |-> FALSE, closed |-> FALSE],
                       Tail(Span(text, loc.value)))
    IN  IF st.bad \/ ~st.closed THEN Refusal("malformed")
        ELSE IF st.toolong THEN Refusal("overlong")
        ELSE Pair(text, loc, [string |-> st.buf])

\* The bytes after the opening quote up to the closing one; what follows it in
\* the span is not looked at.
ReadString(text, loc) ==
    LET st == FoldLeft(StringStep,
                       [buf |-> << >>, esc |-> FALSE, bad |-> FALSE,
                        toolong |-> FALSE, closed |-> FALSE],
                       Tail(Span(text, loc.value)))
    IN  IF st.bad \/ ~st.closed THEN Refusal("malformed")
        ELSE IF st.toolong THEN Refusal("overlong")
        ELSE Pair(text, loc, [string |-> st.buf])

\* The whole span spells the word.
ReadLiteral(text, loc, word, value) ==
    IF Span(text, loc.value) = word THEN Pair(text, loc, [bool |-> value])
                                    ELSE Refusal("malformed")

\* A minus and digits over the whole span; so few digits that the range holds
\* by their number.
ReadInt(text, loc) ==
    LET bytes   == Span(text, loc.value)
        neg     == bytes[1] = "-"
        digits  == IF neg THEN Tail(bytes) ELSE bytes
        natural == FoldLeft(LAMBDA n, d : 10 * n + Digit[d], 0, digits)
    IN  IF \/ \E i \in 1..Len(digits) : digits[i] \notin DOMAIN Digit
           \/ Len(digits) \notin 1..MaxDigits
        THEN Refusal("malformed")
        ELSE Pair(text, loc, [int |-> IF neg THEN 0 - natural ELSE natural])

PairAt(text, index) ==
    LET loc   == LocatePair(text, index)
        first == text[loc.value[1] + 1]
    IN  IF loc.status # "ok" THEN Refusal(loc.status)
        ELSE CASE first = "quote" -> ReadString(text, loc)
               [] IsOpener(first) -> Pair(text, loc, [nested |-> loc.value])
               [] first = "t" -> ReadLiteral(text, loc, <<"t", "r", "u", "e">>, TRUE)
               [] first = "f" ->
                      ReadLiteral(text, loc, <<"f", "a", "l", "s", "e">>, FALSE)
               [] first \in DOMAIN Digit \cup {"-"} -> ReadInt(text, loc)
               [] OTHER -> Refusal("malformed")
=============================================================================
