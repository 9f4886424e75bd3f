------------------------------- MODULE Bridge -------------------------------
(***************************************************************************)
(* The bridge between host and language, src/language.rs and the facade     *)
(* language/mncs/ingest.mncs.  Arguments cross as positional values:        *)
(* bytes in a buffer padded to a fixed width, or in a window of at most a   *)
(* width, with their number beside them.  Answers come back in fixed        *)
(* storage and are cut to their length.  A call is stopped when a value     *)
(* does not fit the type of its parameter.                                 *)
(*                                                                         *)
(* A host call is a function name and a record of host arguments.  The      *)
(* calls of streams and manifests that nothing here asks for are those of   *)
(* FrameReader, ManifestScanner and ManifestIngest.                         *)
(***************************************************************************)
EXTENDS Fields, Parse, Canonical, Ordering, Handoff

CONSTANT ViewWindow   \* bytes of a view parameter, 256 in the code

Zero == "ctl"   \* padding is the byte 0, a control byte to whom reads it

-----------------------------------------------------------------------------
(* Staging: bytes256, u64_window and the arguments of each wrapper. *)

\* What is longer than its buffer keeps its length.
Padded(s, width, filler) ==
    IF Len(s) < width THEN s \o [i \in 1..(width - Len(s)) |-> filler] ELSE s

Bytes256(bytes) == Padded(bytes, CarryCap, Zero)
U64Window(codes) == Padded(codes, Lanes, 0)

Present(quantity) == quantity # << >>
UnwrapOrZero(quantity) == IF quantity = << >> THEN 0 ELSE quantity[1]

CodeLanes(facts) ==
    <<facts.event, facts.object_code,
      Present(facts.quantity), UnwrapOrZero(facts.quantity)>>

Arguments(function, a) ==
    CASE function = "next_line" ->
            <<Bytes256(a.carry), Len(a.carry), a.view, Len(a.view), a.eof>>
      [] function = "field_at" -> <<Bytes256(a.line), Len(a.line), a.start>>
      [] function \in {"classify_event", "classify_object", "parse_transfer"} ->
            <<a.word, Len(a.word)>>
      [] function = "object_status" -> <<a.code>>
      [] function = "object_spelling_matches" -> <<a.word, Len(a.word), a.code>>
      [] function = "canonical_status" -> <<a.code, Present(a.quantity)>>
      [] function = "validate" ->
            <<a.event, a.source_present, a.target_present,
              Present(a.quantity), UnwrapOrZero(a.quantity)>>
      [] function = "spell_equal" -> <<a.left, Len(a.left), a.right, Len(a.right)>>
      [] function = "codes_equal" -> CodeLanes(a.left) \o CodeLanes(a.right)
      [] function \in {"sort_codes", "is_sorted"} ->
            <<U64Window(a.codes), Len(a.codes)>>
      [] function = "encode_handoff" -> a.numbers \o a.identities

\* The assertions of bytes256.
StagingFits(function, a) ==
    CASE function = "next_line" -> Len(a.carry) <= CarryCap
      [] function = "field_at" -> Len(a.line) <= CarryCap
      [] OTHER -> TRUE

\* What a wrapper refuses before it calls.
Acceptable(function, a) ==
    function = "encode_handoff" =>
        \A n \in 1..4 : Len(a.identities[n]) = IdentityBytes

-----------------------------------------------------------------------------
(* The other side: parameter types, the facade's body, answers in storage. *)

UpTo(window, width) == Len(window) <= width
Exactly(window, width) == Len(window) = width

\* Does every value fit the type of its parameter?
WellTyped(function, v) ==
    CASE function = "next_line" ->
            Exactly(v[1], CarryCap) /\ UpTo(v[3], ViewWindow)
      [] function = "field_at" -> Exactly(v[1], CarryCap)
      [] function \in {"classify_event", "classify_object", "parse_transfer",
                       "object_spelling_matches"} -> UpTo(v[1], MaxText)
      [] function = "spell_equal" -> UpTo(v[1], MaxText) /\ UpTo(v[3], MaxText)
      [] function \in {"sort_codes", "is_sorted"} -> Exactly(v[1], Lanes)
      [] function = "encode_handoff" ->
            \A n \in 5..8 : Exactly(v[n], IdentityBytes)
      [] OTHER -> TRUE

\* Mistake: the whole window is read, padding included.
LiveBytesWindow(window, length) == window

\* What of a window counts.
LiveBytes(window, length) ==
    SubSeq(window, 1, IF length <= Len(window) THEN length ELSE Len(window))

StoredLine(out) ==
    [status |-> out.status,
     line |-> Bytes256(out.line), line_len |-> Len(out.line),
     carry |-> Bytes256(out.carry), carry_len |-> Len(out.carry),
     consumed |-> out.consumed]

StoredField(out) ==
    [status |-> out.status,
     value |-> Padded(out.value, FieldMax + 1, Zero),
     value_len |-> Len(out.value),
     next_start |-> out.next_start, has_more |-> out.has_more]

\* A flag and a number beside it, which counts when the flag says so.
QuantityOf(present, value) == IF present THEN <<value>> ELSE << >>

FactLanes(event, code, present, value) ==
    [event |-> event, object_code |-> code,
     quantity |-> QuantityOf(present, value)]

Facade(function, v) ==
    CASE function = "next_line" ->
            StoredLine(NextLine(LiveBytes(v[1], v[2]), LiveBytes(v[3], v[4]), v[5]))
      [] function = "field_at" -> StoredField(FieldAt(LiveBytes(v[1], v[2]), v[3]))
      [] function = "classify_event" -> ClassifyEvent(LiveBytes(v[1], v[2]))
      [] function = "classify_object" -> ClassifyObject(LiveBytes(v[1], v[2]))
      [] function = "parse_transfer" -> ParseTransfer(LiveBytes(v[1], v[2]))
      [] function = "object_status" -> ObjectStatus(v[1])
      [] function = "object_spelling_matches" ->
            ObjectSpellingMatches(LiveBytes(v[1], v[2]), v[3])
      [] function = "canonical_status" ->
            CanonicalStatus(v[1], QuantityOf(v[2], 0))
      [] function = "validate" ->
            ValidateStructured(v[1], v[2], v[3], QuantityOf(v[4], v[5]))
      [] function = "spell_equal" ->
            SpellEqual(LiveBytes(v[1], v[2]), LiveBytes(v[3], v[4]))
      [] function = "codes_equal" ->
            CodesEqual(FactLanes(v[1], v[2], v[3], v[4]),
                       FactLanes(v[5], v[6], v[7], v[8]))
      [] function = "sort_codes" -> SortCodes(v[1], v[2])
      [] function = "is_sorted" -> IsSortedCodes(v[1], v[2])
      [] function = "encode_handoff" ->
            Encode(SubSeq(v, 1, 4), SubSeq(v, 5, 8))

Stopped == [status |-> "stopped"]

\* A value returned has the type of its function's result.
Execute(function, v) ==
    IF WellTyped(function, v)
    THEN [status |-> "returned", type |-> function, value |-> Facade(function, v)]
    ELSE Stopped

-----------------------------------------------------------------------------
(* Reading answers. *)

TakeBytes(window, length) == SubSeq(window, 1, length)

ReadLineOut(out) ==
    LineOut(out.status, TakeBytes(out.line, out.line_len),
            TakeBytes(out.carry, out.carry_len), out.consumed)

ReadFieldOut(out) ==
    [status |-> out.status, value |-> TakeBytes(out.value, out.value_len),
     next_start |-> out.next_start, has_more |-> out.has_more]

ReadAnswer(function, a, value) ==
    CASE function = "next_line" -> ReadLineOut(value)
      [] function = "field_at" -> ReadFieldOut(value)
      [] function = "sort_codes" -> TakeBytes(value, Len(a.codes))
      [] OTHER -> value

LanguageError == [status |-> "language"]

\* call, call_record and call_i64: only what returned is read, and only as the
\* type that was expected.
Reply(function, a, output) ==
    IF output.status = "returned" /\ output.type = function
    THEN [status |-> "ok", value |-> ReadAnswer(function, a, output.value)]
    ELSE LanguageError
=============================================================================
