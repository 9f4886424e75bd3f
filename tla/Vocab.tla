------------------------------- MODULE Vocab -------------------------------
(***************************************************************************)
(* The closed vocabulary of transfer sentences:                             *)
(* language/mncs/ingest/vocab.mncs.                                         *)
(*                                                                         *)
(* Text is a sequence of pieces.  A piece is a run of letters or digits, or *)
(* one mark; it has its spelling in lower case, what its letters look like, *)
(* and its digits when it begins with some.  Lengths count pieces where the *)
(* code counts bytes; no two pieces of an instance join to a keyword.       *)
(***************************************************************************)
EXTENDS Integers, SequencesExt

CONSTANT MaxSpelling   \* MAX_SPELLING_BYTES: the longest word, 16 in the code

Piece == [fold : STRING, shape : STRING, digits : Seq(0..9)]

Lower(fold) == [fold |-> fold, shape |-> "lower", digits |-> << >>]
Capital(fold) == [fold |-> fold, shape |-> "capital", digits |-> << >>]
High(fold) == [fold |-> fold, shape |-> "high", digits |-> << >>]
Numeral(fold, digits) == [fold |-> fold, shape |-> "digits", digits |-> digits]
Mixed(fold, digits) == [fold |-> fold, shape |-> "mixed", digits |-> digits]
Mark(fold) == [fold |-> fold, shape |-> "mark", digits |-> << >>]

Space == Mark(" ")
Stop == Mark(".")
Newline == Mark("nl")
Backslash == Mark("bs")

EventTransfer == 1
Apple == 1
Orange == 2
UnknownObject == 0

-----------------------------------------------------------------------------
\* span_eq against a table: ASCII case does not count.
IsOneOf(word, table) == Len(word) = 1 /\ word[1].fold \in table

IsGiveVerb(word) == IsOneOf(word, {"gave", "give", "gives"})
IsReceiveVerb(word) == IsOneOf(word, {"received", "receive", "receives"})
IsFrom(word) == IsOneOf(word, {"from"})

ClassifyEvent(word) ==
    IF IsOneOf(word, {"transfer"}) \/ IsGiveVerb(word) THEN EventTransfer ELSE 0

\* Singular and plural are one object.
ClassifyObject(word) ==
    IF IsOneOf(word, {"apple", "apples"}) THEN Apple
    ELSE IF IsOneOf(word, {"orange", "oranges"}) THEN Orange
    ELSE UnknownObject

ObjectSpellingMatches(word, code) ==
    IF code = UnknownObject THEN Len(word) \in 1..MaxSpelling
    ELSE ClassifyObject(word) = code

-----------------------------------------------------------------------------
NumberWords == <<"zero", "one", "two", "three", "four", "five", "six",
                 "seven", "eight", "nine", "ten">>

NotANumber == [ok |-> FALSE, value |-> 0]

\* One to three decimal digits; a longer run is no number.
ClassifyDigits(word) ==
    IF Len(word) = 1 /\ word[1].shape = "digits" /\ Len(word[1].digits) <= 3
    THEN [ok |-> TRUE,
          value |-> FoldLeft(LAMBDA acc, d : acc * 10 + d, 0, word[1].digits)]
    ELSE NotANumber

ClassifyWordNumber(word) ==
    IF IsOneOf(word, {NumberWords[n] : n \in 1..Len(NumberWords)})
    THEN [ok |-> TRUE,
          value |-> CHOOSE n \in 0..10 : NumberWords[n + 1] = word[1].fold]
    ELSE ClassifyDigits(word)

IsEntityWord(word) ==
    /\ Len(word) \in 1..MaxSpelling
    /\ word[1].shape \in {"capital", "high"}
    /\ \A i \in 2..Len(word) : word[i].shape \in {"capital", "lower", "high"}

IsCandidateWord(word) ==
    /\ Len(word) \in 1..MaxSpelling
    /\ \A i \in 1..Len(word) : word[i].shape = "lower"

FirstIsDigit(word) == word[1].digits # << >>

\* Keywords come before entities: "Gave" is a verb and "Ten" a number.
ClassifyWord(word) ==
    IF IsGiveVerb(word) THEN "verb_active"
    ELSE IF IsReceiveVerb(word) THEN "verb_passive"
    ELSE IF IsFrom(word) THEN "from"
    ELSE IF ClassifyWordNumber(word).ok THEN "number"
    ELSE IF ClassifyObject(word) # UnknownObject THEN "object"
    ELSE IF IsEntityWord(word) THEN "entity"
    ELSE IF IsCandidateWord(word) THEN "candidate"
    ELSE "other"
=============================================================================
