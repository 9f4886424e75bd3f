------------------------------- MODULE Parse -------------------------------
(***************************************************************************)
(* The parser of transfer sentences: language/mncs/ingest/parse.mncs.      *)
(* Words and positions are counted from 1; 0 is "no such word", -1 in the   *)
(* code.                                                                   *)
(***************************************************************************)
EXTENDS Vocab

CONSTANTS
    MaxWords,   \* words of a sentence: 8 in the code
    MaxText     \* MAX_TEXT_BYTES: 64 in the code

NoWord == 0

FirstOf(S) == IF S = {} THEN NoWord ELSE Min(S)

-----------------------------------------------------------------------------
(* Words of the text. *)

\* How much of the first n pieces is left without the spaces at their end.
WithoutSpaces(text, n) == Max({0} \cup {k \in 1..n : text[k] # Space})

\* Spaces at the end, one full stop, and spaces before it, go.
EffectiveLength(text) ==
    LET n == WithoutSpaces(text, Len(text))
    IN  IF n > 0 /\ text[n] = Stop THEN WithoutSpaces(text, n - 1) ELSE n

WordStarts(text, n) ==
    {i \in 1..n : text[i] # Space /\ (i = 1 \/ text[i - 1] = Space)}

WordEnd(text, n, i) == Min({k \in i..n : k = n \/ text[k + 1] = Space})

\* The spans of the words, in order.
SplitWords(text, n) ==
    LET starts == WordStarts(text, n)
        nth(j) == CHOOSE i \in starts : Cardinality(starts \cap 1..i) = j
    IN  [j \in 1..Cardinality(starts) |->
            [start |-> nth(j), length |-> WordEnd(text, n, nth(j)) - nth(j) + 1]]

Slice(text, span) == SubSeq(text, span.start, span.start + span.length - 1)

-----------------------------------------------------------------------------
(* Roles of the words. *)

VerbClasses == {"verb_active", "verb_passive"}
ObjectClasses == {"object", "candidate"}

Of(classes, wanted) == {j \in 1..Len(classes) : classes[j] \in wanted}

\* The source stands before an active verb, and after a passive verb and its
\* "from"; an entity anywhere else can only be the target.
SourceSide(classes, verb, from) ==
    IF classes[verb] = "verb_passive"
    THEN {j \in 1..Len(classes) : j > verb /\ j > from}
    ELSE 1..(verb - 1)

\* Every role takes the first word that can fill it.
AssignRoles(classes) ==
    LET verb == FirstOf(Of(classes, VerbClasses))
        from == FirstOf(Of(classes, {"from"}))
        side == SourceSide(classes, verb, from)
        after == (verb + 1)..Len(classes)
        entities == Of(classes, {"entity"})
    IN  [verb |-> verb, from |-> from,
         source |-> FirstOf(entities \cap side),
         target |-> FirstOf(entities \ side),
         object |-> FirstOf(Of(classes, ObjectClasses) \cap after),
         quantity |-> FirstOf(Of(classes, {"number"}) \cap after)]

\* Every word is consumed by a role; "from" is one in a passive sentence.
CoverageOk(classes, roles) ==
    \A j \in 1..Len(classes) :
        \/ j \in {roles.verb, roles.source, roles.target, roles.object,
                  roles.quantity}
        \/ classes[roles.verb] = "verb_passive" /\ j = roles.from

CountsOk(classes, roles) ==
    /\ Cardinality(Of(classes, {"entity"})) = 2
    /\ Cardinality(Of(classes, ObjectClasses)) <= 1
    /\ Cardinality({j \in Of(classes, {"number"}) : j > roles.verb}) <= 1

ParticipantMissing(classes, roles) ==
    \/ /\ classes[roles.verb] = "verb_passive"
       /\ Cardinality(Of(classes, {"from"})) # 1
    \/ NoWord \in {roles.source, roles.target, roles.object}

\* A word after the verb that begins with a digit and is no number.
NumericBad(words, classes, roles) ==
    \E j \in (roles.verb + 1)..Len(words) :
        FirstIsDigit(words[j]) /\ classes[j] # "number"

\* Mistake: the shape is judged before the quantity.
FinishAssignShapeFirst(words, classes, roles) ==
    IF ParticipantMissing(classes, roles) THEN "missing_field"
    ELSE IF ~CountsOk(classes, roles) \/ ~CoverageOk(classes, roles)
    THEN "bad_shape"
    ELSE IF NumericBad(words, classes, roles) THEN "malformed_quantity"
    ELSE "ok"

\* The first fault, in the order of the statuses, is the one reported.
FinishAssign(words, classes, roles) ==
    IF ParticipantMissing(classes, roles) THEN "missing_field"
    ELSE IF NumericBad(words, classes, roles) THEN "malformed_quantity"
    ELSE IF ~CountsOk(classes, roles) \/ ~CoverageOk(classes, roles)
    THEN "bad_shape"
    ELSE "ok"

-----------------------------------------------------------------------------
FailParse(status) == [status |-> status]

\* What the roles say, with the spans of their words.
TransferParse(spans, words, roles) ==
    [status |-> "ok",
     source |-> spans[roles.source],
     target |-> spans[roles.target],
     object |-> spans[roles.object],
     object_code |-> ClassifyObject(words[roles.object]),
     quantity |-> IF roles.quantity = NoWord THEN << >>
                  ELSE <<ClassifyWordNumber(words[roles.quantity]).value>>]

ParseTransfer(text) ==
    LET n == EffectiveLength(text)
        spans == SplitWords(text, n)
        words == [j \in 1..Len(spans) |-> Slice(text, spans[j])]
        classes == [j \in 1..Len(words) |-> ClassifyWord(words[j])]
        verbs == Cardinality(Of(classes, VerbClasses))
        roles == AssignRoles(classes)
        status == FinishAssign(words, classes, roles)
    IN  IF n = 0 THEN FailParse("empty")
        ELSE IF Len(spans) > MaxWords THEN FailParse("bad_shape")
        ELSE IF verbs = 0 THEN FailParse("unsupported_verb")
        ELSE IF verbs > 1 THEN FailParse("bad_shape")
        ELSE IF status = "ok" THEN TransferParse(spans, words, roles)
        ELSE FailParse(status)
=============================================================================
