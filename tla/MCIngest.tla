------------------------------ MODULE MCIngest ------------------------------
(***************************************************************************)
(* A small instance of ingest for TLC: sentences of the grammar and those    *)
(* one edit away from one, documents and native values in and just out of    *)
(* their bounds.                                                            *)
(***************************************************************************)
EXTENDS IngestProperties
LOCAL INSTANCE SequencesExt

Alexander == <<Capital("alexander")>>
Finn == <<Capital("finn")>>
Gave == <<Lower("gave")>>
Received == <<Lower("received")>>
From == <<Lower("from")>>
Three == <<Numeral("3", <<3>>)>>
Thousand == <<Numeral("1000", <<1, 0, 0, 0>>)>>
Apples == <<Lower("apples")>>
Parsnip == <<Lower("parsnip")>>
TooLong == <<Capital("mac"), High("o"), Lower("nell")>>
Endless == [j \in 1..(MaxText + 1) |-> Lower("apple")]

Active(a, b, quantity, object) == <<a, Gave, b>> \o quantity \o <<object>>
Inverted(a, b, quantity, object) ==
    <<b, Received>> \o quantity \o <<object, From, a>>

WellFormed ==
    {Active(Alexander, Finn, q, o) :
        q \in {<< >>, <<Three>>}, o \in {Apples, Parsnip}}
    \cup
    {Inverted(Alexander, Finn, q, o) :
        q \in {<< >>, <<Three>>}, o \in {Apples, Parsnip}}

Edits == {Alexander, <<Capital("gave")>>, Received, From, Three, Thousand,
          Apples, Parsnip, TooLong, <<Capital("ten")>>, <<Mixed("3x", <<3>>)>>}

Edited(ws) ==
    {[ws EXCEPT ![j] = w] : j \in 1..Len(ws), w \in Edits}
    \cup {InsertAt(ws, j, w) : j \in 1..(Len(ws) + 1), w \in Edits}
    \cup {RemoveAt(ws, j) : j \in 1..Len(ws)}
    \cup {[ws EXCEPT ![j] = ws[k], ![k] = ws[j]] : j, k \in 1..Len(ws)}

Ends == {<< >>, <<Stop>>, <<Stop, Space>>, <<Space, Stop>>, <<Stop, Stop>>}

Sentence(words, end) == [words |-> words, end |-> end]

MCSentences ==
    {Sentence(ws, end) : ws \in WellFormed, end \in Ends}
    \cup {Sentence(ws, <<Stop>>) : ws \in UNION {Edited(ws) : ws \in WellFormed}}
    \cup {Sentence(Active(Finn, Alexander, <<n>>, Apples), <<Stop>>) :
            n \in {<<Lower("zero")>>, <<Lower("three")>>,
                   <<Numeral("007", <<0, 0, 7>>)>>}}
    \cup {Sentence(<< >>, end) : end \in {<< >>, <<Stop>>, <<Space, Stop>>}}
    \cup {Sentence([j \in 1..n |-> Apples], <<Stop>>) : n \in {7, 8, 9}}

-----------------------------------------------------------------------------
LineBreak == <<Newline>>
BackslashN == <<Backslash, Lower("n")>>

StringValue(text) == [type |-> "string", text |-> text, number |-> 0]
IntValue(n) == [type |-> "int", text |-> << >>, number |-> n]
OtherValue == [type |-> "other", text |-> << >>, number |-> 0]

Document(event, from, to, object) ==
    [event |-> StringValue(event), from |-> StringValue(from),
     to |-> StringValue(to), object |-> StringValue(object)]

With(doc, field, value) ==
    [f \in DOMAIN doc \cup {field} |-> IF f = field THEN value ELSE doc[f]]

Without(doc, field) == [f \in DOMAIN doc \ {field} |-> doc[f]]

SoundDocuments ==
    {Document(Gave, from, Finn, object) :
        from \in {Alexander, LineBreak, BackslashN},
        object \in {<<Capital("apples")>>, Parsnip, LineBreak, BackslashN}}

Base == Document(<<Lower("transfer")>>, Alexander, Finn, Apples)

MCDocuments ==
    SoundDocuments
    \cup {With(Base, "quantity", IntValue(n)) : n \in {-1, 0, 3, 999, 1000}}
    \cup {With(Base, "quantity", OtherValue), With(Base, "extra", OtherValue),
          With(Base, "event", StringValue(Received)),
          With(Base, "event", StringValue(Endless))}
    \cup {Without(Base, field) : field \in DOMAIN Base}
    \cup {With(Base, field, value) :
            field \in DOMAIN Base,
            value \in {OtherValue, StringValue(<< >>), StringValue(TooLong)}}

NativeTransfer(event, source, code, spelling, quantity) ==
    [event_code |-> event, source |-> source, target |-> Finn,
     object_code |-> code, object_spelling |-> spelling,
     quantity |-> quantity]

MCNatives ==
    {NativeTransfer(1, Alexander, code, spelling, quantity) :
        code \in 0..3,
        spelling \in {<< >>, <<Apples>>, <<Parsnip>>, <<LineBreak>>,
                      <<BackslashN>>, << << >> >>, <<TooLong>>, <<Endless>>},
        quantity \in {<< >>, <<0>>, <<3>>, <<1000>>}}
    \cup {NativeTransfer(2, Alexander, 1, << >>, << >>)}
    \cup {NativeTransfer(1, source, 1, << >>, << >>) :
            source \in {<< >>, TooLong, LineBreak, BackslashN}}

\* A few of each, for four of them to meet.
FewSentences ==
    {Sentence(ws, end) :
        ws \in {Active(Alexander, Finn, << >>, Apples),
                <<Alexander, Gave, Apples, Finn>>,
                <<From>> \o Inverted(Alexander, Finn, << >>, Apples)},
        end \in {<< >>, <<Stop>>}}

FewNatives ==
    {NativeTransfer(1, Alexander, code, spelling, << >>) :
        code \in 0..1, spelling \in {<<Apples>>, <<Parsnip>>, <<LineBreak>>}}

MCSchemas == {FragmentSchemaVersion, "fragment-v99"}
=============================================================================
