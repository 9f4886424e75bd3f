-------------------------- MODULE MCManifestIngest --------------------------
(* Small instances of manifest ingestion for TLC. *)
EXTENDS ManifestPairs

Quote(said) == [kind |-> "string", says |-> [string |-> said]]
Number(n) == [kind |-> "int", says |-> [int |-> n]]
Flag(b) == [kind |-> "bool", says |-> [bool |-> b]]
Nested(bytes) == [kind |-> "nested", bytes |-> bytes]

\* Accepted by the scanner, refused by the extractor; refused by the scanner.
Misspelt(bytes, status) ==
    [kind |-> "misspelt", bytes |-> bytes, status |-> status]
Invalid(bytes) == [kind |-> "invalid", bytes |-> bytes, status |-> "malformed"]

Scalars == {Number(0), Number(-9), Number(10), Number(99), Number(-99), Number(100), Number(-100),
            Flag(TRUE), Flag(FALSE)}

StringValues ==
    {Quote(<< >>), Quote(<<"k">>), Quote(<<"quote", "back">>), Quote(<<"nl", "tab">>),
     Quote(<<"}", ",">>), Quote(<<":", "{">>), Quote(<<"k", "k", "quote">>)}

Containers ==
    {Nested(<<"{", "}">>), Nested(<<"[", "]">>),
     Nested(<<"[", "1", ",", "quote", "]", "quote", "]">>),
     Nested(<<"{", "quote", "back", "quote", "quote", ":", "1", "}">>),
     Nested(<<"[", "[", "t", "]", "sp", "]">>)}

Faulty ==
    {Misspelt(<<"t", "r", "u">>, "malformed"),
     Misspelt(<<"t", "r", "u", "e", "k">>, "malformed"),
     Misspelt(<<"f", "a", "l", "s", "0">>, "malformed"),
     Misspelt(<<"-">>, "malformed"), Misspelt(<<"1", "-">>, "malformed"),
     Misspelt(<<"1", "sp", "0">>, "malformed"),
     Misspelt(Quoted(<<"tab">>), "malformed"),
     Misspelt(Quoted(<<"k", "k", "k", "tab">>), "malformed"),
     Invalid(<<"n">>), Invalid(Quoted(<<"back", "u">>)),
     Invalid(Quoted(<<"ctl">>)), Invalid(<<"{", "quote", "}">>),
     Invalid(<<"[", "[", "[", "]", "]", "]">>)}

Keys == {<< >>, <<"k", "t">>, <<"back", "quote">>, <<":", ",">>, <<"}", "{">>,
         <<"k", "k", "k">>}

Gaps == {[gap |-> g, after |-> a] : g \in {<< >>, <<"sp">>},
                                    a \in {<< >>, <<"nl">>}}

Members(keys, values, gaps) ==
    {[key |-> k, value |-> v, gap |-> g.gap, after |-> g.after] :
        k \in keys, v \in values, g \in gaps}

AllMembers == Members(Keys, Scalars \cup StringValues \cup Containers \cup Faulty,
                      Gaps)

SomeMembers ==
    Members({<< >>, <<"back", "quote">>, <<"k", "k", "k">>},
            {Number(-9), Number(100), Flag(TRUE), Quote(<<"}", ",">>),
             Quote(<<"quote", "back">>), Quote(<<"k", "k", "quote">>),
             Nested(<<"[", "[", "t", "]", "sp", "]">>),
             Nested(<<"{", "quote", "back", "quote", "quote", ":", "1", "}">>),
             Misspelt(<<"1", "sp", "0">>, "malformed")},
            {[gap |-> << >>, after |-> << >>], [gap |-> <<"tab">>, after |-> <<"nl">>]})

FewMembers ==
    Members({<<":", ",">>}, {Number(0), Quote(<<"k">>), Nested(<<"[", "]">>)},
            {[gap |-> << >>, after |-> << >>]})

DocumentClasses == Byte

AsScanned == INSTANCE NestGrammar WITH
    Letters <- {"{", "}", "[", "]", ":", ",", "quote", "1"},
    Departures <- {"array_root", "keyless_member", "late_container"}

\* Whatever the scanner accepts, arrays as roots and members without a key
\* among it.
AcceptedWords ==
    {NotWritten(w) :
        w \in UNION {AsScanned!Documents(n) : n \in 0..8}}

MCDocuments ==
    {Written(ms) :
        ms \in {<< >>} \cup {<<m>> : m \in AllMembers}
               \cup (SomeMembers \X SomeMembers)
               \cup (FewMembers \X FewMembers \X FewMembers)}
    \cup AcceptedWords

SpacedDocuments ==
    {Written(<<m>>) : m \in Members({<< >>, <<"k", "t">>}, Scalars, Gaps)}
=============================================================================
