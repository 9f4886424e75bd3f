------------------------------- MODULE Calls --------------------------------
(***************************************************************************)
(* A host in which records are written and threads then ask the language    *)
(* about them and about words, codes and handoffs, by either way across the  *)
(* bridge.  This is the bench of tests/embed_parity.rs and                  *)
(* tests/mncs_authority.rs, run by several threads.                         *)
(***************************************************************************)
EXTENDS FieldsCheck, Session

CONSTANTS
    Functions,    \* functions asked whatever the record is
    Inputs(_),    \* the arguments each of them is asked about
    MaxAsked      \* bound: size of the records threads ask about

ASSUME CallsAssumption == MaxAsked \in Nat

Quantities == {q \in Seq(Int) : Len(q) <= 1}
CodedFacts == [event : Int, object_code : Int, quantity : Quantities]
FourOf(S) == {s \in Seq(S) : Len(s) = 4}

\* What the wrappers of src/language.rs take, by their types.
HostArguments(function) ==
    CASE function = "next_line" ->
            [carry : Seq(Byte), view : Seq(Byte), eof : BOOLEAN]
      [] function \in {"classify_event", "classify_object", "parse_transfer"} ->
            [word : Seq(Piece)]
      [] function = "object_spelling_matches" -> [word : Seq(Piece), code : Int]
      [] function \in {"object_status", "canonical_status"} ->
            [code : Int, quantity : Quantities]
      [] function = "validate" ->
            [event : Int, source_present : BOOLEAN, target_present : BOOLEAN,
             quantity : Quantities]
      [] function = "spell_equal" -> [left : Seq(Piece), right : Seq(Piece)]
      [] function = "codes_equal" -> [left : CodedFacts, right : CodedFacts]
      [] function \in {"sort_codes", "is_sorted"} -> [codes : Seq(Nat)]
      [] function = "encode_handoff" ->
            [numbers : FourOf(0..(Place[WordBytes] - 1)),
             identities : FourOf(Seq(0..(Radix - 1)))]

\* Fields are asked for where records are written, FieldCalls.
ASSUME AskedAssumption ==
    /\ Functions \subseteq
           {"next_line", "classify_event", "classify_object", "parse_transfer",
            "object_spelling_matches", "object_status", "canonical_status",
            "validate", "spell_equal", "codes_equal", "sort_codes", "is_sorted",
            "encode_handoff"}
    /\ \A function \in Functions : Inputs(function) \subseteq HostArguments(function)

Routes == {"interpreter", "session"}

callsVars == <<record, sessionVars>>

-----------------------------------------------------------------------------
(* Fields of the written record, as calls ask for them. *)

FieldStart(fields, k) ==
    IF k = 1 THEN 0 ELSE Len(EncodeRecord(SubSeq(fields, 1, k - 1))) + 1

FieldCalls ==
    {[line |-> Line, start |-> FieldStart(record, k)] : k \in 1..Len(record)}

-----------------------------------------------------------------------------
CallsInit == Init /\ SessionInit

WriteRecord ==
    /\ \A t \in Threads : made[t] = 0
    /\ Next
    /\ UNCHANGED sessionVars

NobodyAlone ==
    \A u \in Threads :
        asked[u].route = "interpreter" => asked[u].function = "field_at"

AskField(t) ==
    /\ Size(record) <= MaxAsked /\ NobodyAlone
    /\ \E route \in Routes : \E a \in FieldCalls : Call(t, route, "field_at", a)
    /\ UNCHANGED record

AskWord(t) ==
    /\ Size(record) = 0 /\ NobodyAlone
    /\ \E function \in Functions \cap Embedded :
           \E a \in Inputs(function) : Call(t, "session", function, a)
    /\ UNCHANGED record

\* Calls of the interpreter meet nobody; a thread makes them alone.
AskInterpreter(t) ==
    /\ Size(record) = 0
    /\ \A u \in Threads : made[u] = 0
    /\ \E function \in Functions : \E a \in Inputs(function) :
           Call(t, "interpreter", function, a)
    /\ UNCHANGED record

ThreadInterprets(t) == Interpret(t) /\ UNCHANGED record

ThreadStep(t) == SessionStep(t) /\ UNCHANGED record

ThreadPanics(t) == Panic(t) /\ UNCHANGED record

CallsNext ==
    \/ WriteRecord
    \/ \E t \in Threads :
           \/ AskField(t) \/ AskWord(t) \/ AskInterpreter(t)
           \/ ThreadInterprets(t) \/ ThreadStep(t) \/ ThreadPanics(t)

\* Threads are scheduled; nothing makes a host call or a session panic.
CallsSpec ==
    /\ CallsInit /\ [][CallsNext]_callsVars
    /\ \A t \in Threads : WF_callsVars(ThreadStep(t))

-----------------------------------------------------------------------------
(* What an answer must be, from what it means. *)

IsPermutation(s, r) ==
    /\ Len(s) = Len(r)
    /\ \A x \in ToSet(s) \cup ToSet(r) :
           Cardinality({i \in 1..Len(s) : s[i] = x})
               = Cardinality({i \in 1..Len(r) : r[i] = x})

IsNonDecreasing(s) == \A i, j \in 1..Len(s) : i < j => s[i] <= s[j]

\* The number whose bytes are s, most significant first.
NumberOf(s) == FoldLeft(LAMBDA acc, b : acc * Radix + b, 0, s)

IsHandoffOf(bytes, a) ==
    /\ ValidateHandoff(bytes) = 0
    /\ \A n \in 1..4 :
           /\ NumberOf(SubSeq(bytes, NumberAt(n - 1) + 1, NumberAt(n)))
                  = a.numbers[n]
           /\ SubSeq(bytes, IdentityAt(n - 1) + 1, IdentityAt(n))
                  = a.identities[n]

\* The field that was written there, when it and those behind it, which
\* nothing of the answer shows, are free of faults.
IsFieldAt(fields, answer, a) ==
    LET k == CHOOSE n \in 1..Len(fields) : FieldStart(fields, n) = a.start
    IN  AllPrintable(fields) /\ Len(fields[k]) <= FieldMax =>
            IF fields = << << >> >> THEN answer.status = "end"
            ELSE answer = [status |-> "field", value |-> fields[k],
                           next_start |-> IF k < Len(fields)
                                          THEN FieldStart(fields, k + 1)
                                          ELSE Len(a.line),
                           has_more |-> k < Len(fields)]

IsAnswer(fields, function, a, answer) ==
    CASE function = "next_line" -> answer = NextLine(a.carry, a.view, a.eof)
      [] function = "field_at" -> IsFieldAt(fields, answer, a)
      [] function = "classify_event" -> answer = ClassifyEvent(a.word)
      [] function = "classify_object" -> answer = ClassifyObject(a.word)
      [] function = "parse_transfer" -> answer = ParseTransfer(a.word)
      [] function = "object_status" -> answer = ObjectStatus(a.code)
      [] function = "object_spelling_matches" ->
            answer = ObjectSpellingMatches(a.word, a.code)
      [] function = "canonical_status" ->
            answer = CanonicalStatus(a.code, a.quantity)
      [] function = "validate" ->
            (answer = "ok") <=> /\ a.event = EventTransfer
                                /\ a.source_present /\ a.target_present
                                /\ ToSet(a.quantity) \subseteq 0..999
      [] function = "spell_equal" ->
            answer = (a.left = a.right /\ Len(a.left) <= MaxSpelling)
      [] function = "codes_equal" -> answer = CodesEqual(a.left, a.right)
      [] function = "sort_codes" ->
            IsPermutation(answer, a.codes) /\ IsNonDecreasing(answer)
      [] function = "is_sorted" -> answer = IsNonDecreasing(a.codes)
      [] function = "encode_handoff" -> IsHandoffOf(answer, a)

\* The bounds of the language, as its callers know them.
InBounds(function, a) ==
    CASE function = "next_line" -> Len(a.view) <= ViewWindow
      [] function \in {"classify_event", "classify_object", "parse_transfer",
                       "object_spelling_matches"} -> Len(a.word) <= MaxText
      [] function = "spell_equal" ->
            Len(a.left) <= MaxText /\ Len(a.right) <= MaxText
      [] function \in {"sort_codes", "is_sorted"} -> Len(a.codes) <= Lanes
      [] function = "encode_handoff" ->
            \A n \in 1..4 : Len(a.identities[n]) = IdentityBytes
      [] OTHER -> TRUE

-----------------------------------------------------------------------------
(* Safety and liveness. *)

\* Every answer is right for its own question, whoever else asks meanwhile:
\* padding and the order of lanes never show, bounds are exact, and only a
\* panic of the session itself makes an error of a question within bounds.
AnswersAreRight ==
    \A t \in Threads :
        pc[t] = "answered" =>
            IF reply[t].status = "ok"
            THEN /\ InBounds(asked[t].function, asked[t].args)
                 /\ IsAnswer(record, asked[t].function, asked[t].args,
                             reply[t].value)
            ELSE \/ ~InBounds(asked[t].function, asked[t].args)
                 \/ panics > 0 /\ asked[t].route = "session"

\* tests/embed_parity.rs: the session replies what the interpreter replies,
\* or, once a call panicked in it, that it is gone.  A thread that fails to
\* stage its own arguments spoils nothing for the others.
SessionParity ==
    \A t \in Threads :
        pc[t] = "answered" /\ asked[t].route = "session" =>
            \/ reply[t] = ReplyTo(t, Execute(asked[t].function, Values(t)))
            \/ panics > 0 /\ reply[t] = LanguageError

\* Whoever waits for the mutex or is inside gets a reply or goes down with the
\* session, also behind calls that were stopped or panicked.
EveryCallEnds == \A t \in Threads : Waiting(t) ~> ~Waiting(t)
=============================================================================
