------------------------------ MODULE MCCalls -------------------------------
(***************************************************************************)
(* A small instance of the calls for TLC: arguments in and just out of the  *)
(* bounds of every function.                                               *)
(***************************************************************************)
EXTENDS Calls

CONSTANTS t1, t2

MCThreads == {t1, t2}

FieldBytes == {"comma", "esc", "a", "ctl"}

Bytes(n) == [i \in 1..n |-> "a"]

LineInputs ==
    {[carry |-> carry, view |-> view, eof |-> eof] :
        carry \in {<<"a", "b">>, Bytes(CarryCap)},
        view \in {<<"nl", "b">>}, eof \in {FALSE}}
    \cup {[carry |-> Bytes(n), view |-> Bytes(m), eof |-> FALSE] :
            <<n, m>> \in {<<CarryCap + 1, 0>>, <<0, ViewWindow + 1>>}}
    \cup {[carry |-> << >>, view |-> <<"b">>, eof |-> TRUE]}

Apples == <<Lower("apples")>>
Gave == <<Lower("gave")>>
Words == {<< >>, Apples, Gave, [i \in 1..(MaxText + 1) |-> Lower("a")]}

WordInputs == {[word |-> w] : w \in Words}

WordAndCodeInputs == {[word |-> w, code |-> c] : w \in Words, c \in 0..3}

ObjectInputs ==
    {[code |-> c, quantity |-> q] : c \in 0..3, q \in {<< >>, <<0>>}}

TransferInputs ==
    {[event |-> event, source_present |-> s, target_present |-> t,
      quantity |-> q] :
        event \in 1..2, s, t \in BOOLEAN,
        q \in {<< >>, <<-1>>, <<0>>, <<999>>, <<1000>>}}

Sentence == <<Capital("finn"), Space, Gave[1], Space, Capital("zo"), Space,
              Apples[1]>>

CodeSequences == UNION {[1..n -> 1..2] : n \in 0..Lanes}

CodeInputs ==
    {[codes |-> codes] : codes \in CodeSequences \cup {[i \in 1..(Lanes + 1) |-> 1]}}

WordPairs ==
    {[left |-> left, right |-> right] :
        left, right \in {Apples, Apples \o Gave, Apples \o Gave \o Gave}}

FactsOf(quantity) == [event |-> 1, object_code |-> 1, quantity |-> quantity]

FactPairs ==
    {[left |-> FactsOf(p), right |-> FactsOf(q)] :
        p, q \in {<< >>, <<0>>, <<3>>}}

Identity(n, length) == [i \in 1..length |-> (n + i) % Radix]

HandoffInputs ==
    {[numbers |-> numbers,
      identities |-> [n \in 1..4 |->
          Identity(n, IF n = odd THEN IdentityBytes + 1 ELSE IdentityBytes)]] :
        numbers \in {<<1, 2, 2, 0>>, <<0, Radix, Radix + 1, Radix * Radix - 1>>},
        odd \in {0, 4}}

MCInputs(function) ==
    CASE function = "next_line" -> LineInputs
      [] function \in {"classify_event", "classify_object"} -> WordInputs
      [] function = "parse_transfer" -> {[word |-> Sentence]}
      [] function \in {"object_status", "canonical_status"} -> ObjectInputs
      [] function = "object_spelling_matches" -> WordAndCodeInputs
      [] function = "validate" -> TransferInputs
      [] function = "spell_equal" -> WordPairs
      [] function = "codes_equal" -> FactPairs
      [] function \in {"sort_codes", "is_sorted"} -> CodeInputs
      [] function = "encode_handoff" -> HandoffInputs

MCFunctions == {"next_line", "classify_event", "classify_object",
                "parse_transfer", "object_status", "object_spelling_matches",
                "canonical_status", "validate", "spell_equal", "codes_equal", "sort_codes",
                "is_sorted", "encode_handoff"}
=============================================================================
