------------------------------- MODULE Ingest -------------------------------
(***************************************************************************)
(* Observations on their way to a consumer: a host hands inputs to the      *)
(* three adapters and what they make of them to the EchoConsumer of         *)
(* src/consumer.rs.  Adapters keep no state; the consumer keeps what it     *)
(* accepted, so fragments of several adapters meet there, and answers with  *)
(* a receipt.  Digests are modelled by the text they are taken of.          *)
(***************************************************************************)
EXTENDS Adapters

CONSTANTS
    Sentences,    \* texts: words and what follows the last of them
    Documents,    \* decoded JSON objects
    Natives,      \* native values
    Schemas,      \* schemas a host may write into a fragment it hands on
    MaxReceived   \* bound: fragments accepted

ASSUME IngestAssumption == MaxReceived \in Nat /\ MaxSpelling \in Nat \ {0}

\* Words are made of pieces; integers of documents and native values are any.
ASSUME InputsAssumption ==
    /\ Sentences \subseteq [words : Seq(Seq(Piece)), end : Seq(Piece)]
    /\ \A d \in Documents : \A field \in DOMAIN d :
           d[field] \in [type : STRING, text : Seq(Piece), number : Int]
    /\ \A v \in Natives :
           /\ v.event_code \in Int /\ v.object_code \in Int
           /\ v.source \in Seq(Piece) /\ v.target \in Seq(Piece)
           /\ v.object_spelling \in Seq(Seq(Piece))
           /\ v.quantity \in Seq(Int) /\ Len(v.quantity) <= 1

\* What the code writes of its own.
Written ==
    {"atom", "Event", "Entity", "Object", "Unknown", "Quantity", "transfer",
     "apple", "orange", "rel", "source", "target", "object", "quantity",
     "unknown", "lower", "mark", " ", "nl", "bs", "n", "s", "-", ":"}

ASSUME WrittenAssumption == Written \subseteq STRING

Amounts == 0..999

\* Numbers are printed apart from each other and from what stands for none.
ASSUME DecimalAssumption ==
    /\ \A m \in Amounts : ToString(m) \in STRING \ {"-"}
    /\ \A m, n \in Amounts : ToString(m) = ToString(n) => m = n

VARIABLES
    received,   \* what the consumer accepted, with its input and its facts
    last        \* history: the last input and its verdict

vars == <<received, last>>

\* The words of a sentence one space apart, and its end.
TextOf(sentence) ==
    FlattenSeq([j \in 1..Len(sentence.words) |->
                   (IF j = 1 THEN << >> ELSE <<Space>>) \o sentence.words[j]])
    \o sentence.end

Init ==
    /\ received = << >>
    /\ last = [adapter |-> "none", input |-> << >>, status |-> "ok"]

Receipt(f) ==
    [signal_id |-> f.provenance.signal_id,
     semantic_hash |-> CanonicalBytes(f),
     atom_count |-> Len(f.atoms),
     relation_count |-> Len(f.relations),
     unknown_count |-> Len(f.unknowns)]

\* EchoConsumer::accept.
Accept(adapter, input, facts, f) ==
    IF f.schema # FragmentSchemaVersion
    THEN /\ last' = [adapter |-> adapter, input |-> input,
                     status |-> "schema_mismatch"]
         /\ UNCHANGED received
    ELSE /\ last' = [adapter |-> adapter, input |-> input, status |-> "ok"]
         /\ received' = Append(received,
                               [adapter |-> adapter, input |-> input,
                                facts |-> facts, fragment |-> f,
                                receipt |-> Receipt(f)])

\* Ingest, and hand on what comes of it, if anything.  The host modelled stops
\* at its first refusal.
Hand(adapter, input, ingested) ==
    /\ last.status = "ok"
    /\ Len(received) < MaxReceived
    /\ IF ingested.status = "ok"
       THEN Accept(adapter, input, ingested.facts, ingested.fragment)
       ELSE /\ last' = [adapter |-> adapter, input |-> input,
                        status |-> ingested.status]
            /\ UNCHANGED received

Text(sentence) == Hand("text", sentence, IngestText(TextOf(sentence)))
Structured(doc) == Hand("structured", doc, IngestStructured(doc))

\* A host may write another schema into a fragment before it hands it on.
Native(value, schema) ==
    LET ingested == IngestNative(value)
    IN  Hand("native", value,
             IF ingested.status = "ok"
             THEN [ingested EXCEPT !.fragment.schema = schema] ELSE ingested)

Next ==
    \/ \E s \in Sentences : Text(s)
    \/ \E d \in Documents : Structured(d)
    \/ \E v \in Natives, schema \in Schemas : Native(v, schema)

Spec == Init /\ [][Next]_vars
=============================================================================
