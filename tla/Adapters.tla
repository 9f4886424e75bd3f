------------------------------ MODULE Adapters ------------------------------
(***************************************************************************)
(* The three adapters, src/adapters/text.rs, structured.rs and native.rs:   *)
(* each turns its own kind of input into facts by verdicts of the language, *)
(* and the facts into a fragment, or refuses.                               *)
(***************************************************************************)
EXTENDS Parse, Canonical

Refuse(error) == [status |-> error]

Facts(event, source, target, code, spelling, quantity) ==
    [event |-> event, source |-> source, target |-> target,
     object_code |-> code, object_spelling |-> spelling, quantity |-> quantity]

\* A word the adapter did not bound is stopped by the language's parameter.
Crosses(word) == Len(word) <= MaxText

-----------------------------------------------------------------------------
(* Text. *)

IngestText(text) ==
    LET parse == ParseTransfer(text)
        word(span) == Slice(text, span)
    IN  IF Len(text) > MaxText THEN Refuse("overlong")
        ELSE IF parse.status # "ok" THEN Refuse(parse.status)
        ELSE Assemble("text", text,
                      Facts(EventTransfer, word(parse.source),
                            word(parse.target), parse.object_code,
                            word(parse.object), parse.quantity),
                      CanonicalStatus(parse.object_code, parse.quantity)
                          = "unknown")

-----------------------------------------------------------------------------
(* Structured documents: a decoded JSON object is a function from the names  *)
(* of its fields to values, "string" with its text, "int" with its number,   *)
(* or "other".                                                               *)

Allowed == {"event", "from", "to", "object", "quantity"}

\* The fault of a string field, "ok" if it has none.
FieldStatus(doc, field) ==
    IF field \notin DOMAIN doc THEN "missing_field"
    ELSE IF doc[field].type # "string" THEN "malformed"
    ELSE IF field = "event" THEN "ok"
    ELSE IF doc[field].text = << >> THEN "malformed"
    ELSE IF Len(doc[field].text) > MaxSpelling THEN "overlong"
    ELSE "ok"

Event(doc) == ClassifyEvent(doc["event"].text)

Quantity(doc) ==
    IF "quantity" \in DOMAIN doc THEN <<doc["quantity"].number>> ELSE << >>

\* The first fault, in the order in which the fields are read.
DocumentStatus(doc) ==
    IF ~(DOMAIN doc \subseteq Allowed) THEN "unexpected_field"
    ELSE IF FieldStatus(doc, "event") # "ok" THEN FieldStatus(doc, "event")
    ELSE IF ~Crosses(doc["event"].text) THEN "language"
    ELSE IF Event(doc) = 0 THEN "unsupported"
    ELSE IF FieldStatus(doc, "from") # "ok" THEN FieldStatus(doc, "from")
    ELSE IF FieldStatus(doc, "to") # "ok" THEN FieldStatus(doc, "to")
    ELSE IF FieldStatus(doc, "object") # "ok" THEN FieldStatus(doc, "object")
    ELSE IF "quantity" \in DOMAIN doc /\ doc["quantity"].type # "int"
    THEN "malformed"
    ELSE ValidateStructured(Event(doc), TRUE, TRUE, Quantity(doc))

IngestStructured(doc) ==
    LET code == ClassifyObject(doc["object"].text)
    IN  IF DocumentStatus(doc) # "ok" THEN Refuse(DocumentStatus(doc))
        ELSE Assemble("structured", doc,
                      Facts(Event(doc), doc["from"].text, doc["to"].text,
                            code, doc["object"].text, Quantity(doc)),
                      CanonicalStatus(code, Quantity(doc)) = "unknown")

-----------------------------------------------------------------------------
(* Native values.  object_spelling is << >> or <<spelling>>. *)

SpellingStatus(spelling) ==
    IF spelling = << >> THEN "malformed"
    ELSE IF Len(spelling) > MaxSpelling THEN "overlong" ELSE "ok"

\* A code never overrides a spelling, and an unknown object needs one.
ObjectFieldStatus(t) ==
    CASE t.object_code \in {Apple, Orange} /\ t.object_spelling = << >> -> "ok"
      [] t.object_code \in {Apple, Orange} /\ t.object_spelling # << >> ->
            IF ~Crosses(t.object_spelling[1]) THEN "language"
            ELSE IF ObjectSpellingMatches(t.object_spelling[1], t.object_code)
            THEN "ok" ELSE "conflicting_fields"
      [] t.object_code = UnknownObject ->
            IF t.object_spelling = << >> THEN "missing_field"
            ELSE SpellingStatus(t.object_spelling[1])
      [] OTHER -> "unsupported"

NativeStatus(t) ==
    IF << >> \in {t.source, t.target} THEN "malformed"
    ELSE IF Len(t.source) > MaxSpelling \/ Len(t.target) > MaxSpelling
    THEN "overlong"
    ELSE IF ObjectFieldStatus(t) # "ok" THEN ObjectFieldStatus(t)
    ELSE ValidateStructured(t.event_code, TRUE, TRUE, t.quantity)

NativeSpelling(t) ==
    IF t.object_spelling # << >> THEN t.object_spelling[1]
    ELSE ObjectLabel([object_code |-> t.object_code, object_spelling |-> << >>])

\* The text the signal id is the digest of.
NativeSignal(t) ==
    LET colon == <<Mark(":")>>
    IN  <<Lower("native")>> \o colon \o <<Decimal(t.event_code)>> \o colon
        \o t.source \o colon \o t.target \o colon \o <<Decimal(t.object_code)>>
        \o colon \o [i \in 1..Len(t.quantity) |-> Decimal(t.quantity[i])]

IngestNative(t) ==
    IF NativeStatus(t) # "ok" THEN Refuse(NativeStatus(t))
    ELSE Assemble("native", NativeSignal(t),
                  Facts(t.event_code, t.source, t.target, t.object_code,
                        NativeSpelling(t), t.quantity),
                  CanonicalStatus(t.object_code, t.quantity) = "unknown")
=============================================================================
