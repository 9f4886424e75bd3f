-------------------------- MODULE IngestProperties --------------------------
(***************************************************************************)
(* What docs/GRAMMAR.md, src/ir.rs and the convergence tests promise of     *)
(* ingest: a sentence is read by the rules of the grammar or refused, and   *)
(* fragments are equal exactly when their sources said the same.            *)
(***************************************************************************)
EXTENDS Ingest

-----------------------------------------------------------------------------
(* The shape rules of docs/GRAMMAR.md, over the words of a sentence. *)

\* Words have pieces and no spaces.  Behind the last stand spaces and one full
\* stop among them, if any, which may not stand in the word itself; or two full
\* stops.
WellSpaced(s) ==
    LET stops == {i \in 1..Len(s.end) : s.end[i] = Stop}
        final == s.words[Len(s.words)]
    IN  /\ \A j \in 1..Len(s.words) :
               /\ s.words[j] # << >>
               /\ \A i \in 1..Len(s.words[j]) : s.words[j][i] # Space
        /\ \/ /\ \A i \in 1..Len(s.end) : s.end[i] \in {Space, Stop}
              /\ \A i, k \in stops : i = k
              /\ s.words # << >> /\ final[Len(final)] = Stop => stops # {}
           \/ s.words # << >> /\ s.end = <<Stop, Stop>>

\* Texts are single-spaced sentences: of those the grammar speaks.
ASSUME SpacingAssumption == \A s \in Sentences : WellSpaced(s)

\* A second full stop stays with the last word.
WordsOf(s) ==
    IF s.words # << >> /\ s.end = <<Stop, Stop>>
    THEN [s.words EXCEPT ![Len(s.words)] = @ \o <<Stop>>] ELSE s.words

Places(words, wanted) ==
    {j \in 1..Len(words) : ClassifyWord(words[j]) \in wanted}

\* The places of a sentence's words, by what they are; objects, numbers and
\* what looks like a number count behind the verb only.
Shape(s) ==
    LET words == WordsOf(s)
        verbs == Places(words, {"verb_active", "verb_passive"})
        behind == {j \in 1..Len(words) : \A v \in verbs : j > v}
        numbers == behind \cap Places(words, {"number"})
    IN  [length |-> Len(words),
         verbs |-> verbs,
         passive |-> Places(words, {"verb_passive"}) # {},
         behind |-> behind,
         froms |-> Places(words, {"from"}),
         entities |-> Places(words, {"entity"}),
         objects |-> behind \cap Places(words, {"object", "candidate"}),
         numbers |-> numbers,
         spoilt |-> {j \in behind \ numbers : FirstIsDigit(words[j])}]

\* Who gives stands before an active verb, or behind "from" and the verb.
Givers(shape) ==
    IF shape.passive
    THEN {j \in shape.entities \cap shape.behind : \A f \in shape.froms : j > f}
    ELSE shape.entities \ shape.behind

Takers(shape) == shape.entities \ Givers(shape)

IsOne(S) == Cardinality(S) = 1

\* Every word has a role of its own and every role but the quantity a word.
IsSentence(shape) ==
    /\ \A S \in {shape.verbs, Givers(shape), Takers(shape), shape.objects} :
           IsOne(S)
    /\ Cardinality(shape.numbers) <= 1
    /\ shape.passive => IsOne(shape.froms)
    /\ shape.length = 4 + Cardinality(shape.numbers)
                         + (IF shape.passive THEN 1 ELSE 0)

\* The two forms of docs/GRAMMAR.md, by what their words are.
Forms ==
    {<<"entity", "verb_active", "entity">> \o number \o <<"object">> :
        number \in {<< >>, <<"number">>}}
    \cup
    {<<"entity", "verb_passive">> \o number \o <<"object", "from", "entity">> :
        number \in {<< >>, <<"number">>}}

InForm(s) ==
    LET slot(class) == IF class = "candidate" THEN "object" ELSE class
    IN  [j \in 1..Len(WordsOf(s)) |-> slot(ClassifyWord(WordsOf(s)[j]))]
            \in Forms

Stopped(s) == \E i \in 1..Len(s.end) : s.end[i] = Stop

DoubledFrom(shape) == shape.passive /\ Cardinality(shape.froms) > 1

\* The faults a refusal can name, in the order of precedence of parse.mncs,
\* given whether "from" is missing and whether the words make no sentence.
Faults(s, shape, unled, outside) ==
    <<[status |-> "overlong", holds |-> Len(TextOf(s)) > MaxText],
      [status |-> "empty", holds |-> shape.length = 0],
      [status |-> "bad_shape", holds |-> shape.length > MaxWords],
      [status |-> "unsupported_verb", holds |-> shape.verbs = {}],
      [status |-> "bad_shape", holds |-> ~IsOne(shape.verbs)],
      [status |-> "missing_field",
       holds |-> {} \in {Givers(shape), Takers(shape), shape.objects} \/ unled],
      [status |-> "malformed_quantity", holds |-> shape.spoilt # {}],
      [status |-> "bad_shape", holds |-> outside],
      [status |-> "ok", holds |-> TRUE]>>

FirstOfFaults(faults) ==
    faults[Min({i \in 1..Len(faults) : faults[i].holds})].status

\* docs/GRAMMAR.md: a sentence has one of the forms and ends with a full stop;
\* a second "from" is a stray marker.
FaultAsWritten(s) ==
    LET shape == Shape(s)
    IN  FirstOfFaults(Faults(s, shape, shape.passive /\ shape.froms = {},
                             ~IsSentence(shape) \/ ~InForm(s) \/ ~Stopped(s)))

\* What is left of that in parse.mncs: roles filled in any order, full stop or
\* not, and a second "from" reported as none.
FaultAsParsed(s) ==
    LET shape == Shape(s)
    IN  FirstOfFaults(Faults(s, shape, shape.passive /\ ~IsOne(shape.froms),
                             ~IsSentence(shape)))

\* The sentences on which the parser and the grammar may disagree.
Departs(s) ==
    \/ ~Stopped(s)
    \/ IsSentence(Shape(s)) /\ ~InForm(s)
    \/ DoubledFrom(Shape(s))

-----------------------------------------------------------------------------
(* What an accepted input said: who gave what to whom, and how many. *)

Only(S) == CHOOSE j \in S : TRUE

Singular == [apple |-> "apple", apples |-> "apple",
             orange |-> "orange", oranges |-> "orange"]

\* Known objects are one whatever their number and case, others are their
\* spelling.
Thing(word) ==
    IF Len(word) = 1 /\ word[1].fold \in DOMAIN Singular
    THEN [known |-> TRUE, as |-> <<Lower(Singular[word[1].fold])>>]
    ELSE [known |-> FALSE, as |-> word]

Observation(giver, taker, thing, quantity) ==
    [giver |-> giver, taker |-> taker, thing |-> thing, quantity |-> quantity]

SaidText(s) ==
    LET shape == Shape(s)
        word(places) == WordsOf(s)[Only(places)]
    IN  Observation(word(Givers(shape)), word(Takers(shape)),
                    Thing(word(shape.objects)),
                    IF shape.numbers = {} THEN << >>
                    ELSE <<ClassifyWordNumber(word(shape.numbers)).value>>)

SaidDocument(doc) ==
    Observation(doc["from"].text, doc["to"].text, Thing(doc["object"].text),
                IF "quantity" \in DOMAIN doc THEN <<doc["quantity"].number>>
                ELSE << >>)

SaidNative(t) ==
    Observation(t.source, t.target,
                CASE t.object_code = 1 -> Thing(<<Lower("apple")>>)
                  [] t.object_code = 2 -> Thing(<<Lower("orange")>>)
                  [] OTHER -> [known |-> FALSE, as |-> t.object_spelling[1]],
                t.quantity)

Said(entry) ==
    CASE entry.adapter = "text" -> SaidText(entry.input)
      [] entry.adapter = "structured" -> SaidDocument(entry.input)
      [] entry.adapter = "native" -> SaidNative(entry.input)

Pairs == {<<received[i], received[j]>> : i, j \in 1..Len(received)}

-----------------------------------------------------------------------------
(* Safety. *)

\* What the consumer holds: words within the bound, quantities from 0 to 999,
\* an event and known codes, and as many relations as atoms but the event's.
TypeOK ==
    /\ Len(received) \in 0..MaxReceived
    /\ \A i \in 1..Len(received) :
           LET facts == received[i].facts
               f == received[i].fragment
           IN  /\ f.schema = FragmentSchemaVersion
               /\ facts.event = EventTransfer
               /\ facts.object_code \in {Apple, Orange, UnknownObject}
               /\ Len(facts.source) \in 1..MaxSpelling
               /\ Len(facts.target) \in 1..MaxSpelling
               /\ Len(facts.object_spelling) \in 1..MaxSpelling
               /\ facts.quantity \in {<< >>} \cup {<<q>> : q \in 0..999}
               /\ Len(f.atoms) = 4 + Len(facts.quantity)
               /\ Len(f.relations) = Len(f.atoms) - 1

\* docs/GRAMMAR.md, forms, shape rules and statuses: a sentence is accepted
\* exactly when it has one of the two forms, every word in the place of its role,
\* and ends with its full stop, and a refusal names the first of its faults.
\* Where the parser departs from that (SomePromiseHolds, below), exactly when every word fills one role and every
\* role is filled.
FirstFaultIsNamed ==
    last.adapter = "text" =>
        last.status = IF Departs(last.input) THEN FaultAsParsed(last.input)
                      ELSE FaultAsWritten(last.input)

\* src/ir.rs, equality rule, and tests/consumer.rs, "receipts distinguish
\* semantics not provenance": fragments of any two adapters are equal, and
\* their receipts bear one semantic hash, exactly when their sources said the
\* same.  Nothing merges a missing quantity and a zero, or names that differ in
\* a backslash and a line break.
EqualMeansSaidTheSame ==
    \A p \in Pairs :
        LET same == Said(p[1]) = Said(p[2])
        IN  /\ SemanticallyEqual(p[1].fragment, p[2].fragment) <=> same
            /\ p[1].receipt.semantic_hash = p[2].receipt.semantic_hash <=> same

\* tests/convergence.rs: "MNCS equality must agree with the host key".
EqualitiesAgree ==
    \A p \in Pairs :
        MncsEqual(p[1].facts, p[2].facts)
            <=> SemanticallyEqual(p[1].fragment, p[2].fragment)

-----------------------------------------------------------------------------
(* Said of ingest in the repository, and not true of it. *)

\* tests/provenance.rs: "the signal id replays to the exact input".  Inputs of
\* one adapter that said different things have different signal ids.
SignalIdNamesTheInput ==
    \A p \in Pairs :
        /\ p[1].adapter = p[2].adapter
        /\ p[1].receipt.signal_id = p[2].receipt.signal_id
        => Said(p[1]) = Said(p[2])

AcceptedTexts ==
    {received[i].input :
        i \in {j \in 1..Len(received) : received[j].adapter = "text"}}

\* docs/GRAMMAR.md: "The sentence ends with a single `.`", and parse.mncs: "The
\* period is required sentence punctuation".
FullStopsEndSentences == \A s \in AcceptedTexts : Stopped(s)

\* docs/GRAMMAR.md: "This is the complete text contract", of two forms, and
\* "Anything outside it is a controlled error, never a guess".
WordsStandInForm == \A s \in AcceptedTexts : InForm(s)

\* docs/GRAMMAR.md, statuses: 2 is for a participant that is missing, "source,
\* target, object, or passive `from`", and 4 for stray markers.
MissingIsMissing ==
    last.adapter = "text" /\ last.status = "missing_field" =>
        LET shape == Shape(last.input)
        IN  \/ {} \in {Givers(shape), Takers(shape), shape.objects}
            \/ shape.passive /\ shape.froms = {}

\* Of these four promises of docs/GRAMMAR.md and tests/provenance.rs, each of which
\* is about every host, at least one is kept with every host: none sees them all
\* broken.
SomePromiseHolds ==
    \/ SignalIdNamesTheInput
    \/ FullStopsEndSentences
    \/ WordsStandInForm
    \/ MissingIsMissing
=============================================================================
