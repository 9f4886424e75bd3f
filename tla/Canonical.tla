----------------------------- MODULE Canonical -----------------------------
(***************************************************************************)
(* Canonical fragments and their equality: src/canonical.rs, src/ir.rs,     *)
(* language/mncs/ingest/frame.mncs and the statuses of handoff.mncs.        *)
(*                                                                         *)
(* A quantity is << >> or <<n>>.  Facts are the inputs of equality in MNCS; *)
(* a fragment is what consumers see.  Source spans and the interpreter's    *)
(* name, which no verdict reads, are left out of the provenance.            *)
(***************************************************************************)
EXTENDS Vocab

FragmentSchemaVersion == "fragment-v1"

Decimal(n) == Mark(ToString(n))

-----------------------------------------------------------------------------
(* Verdicts of the language. *)

\* Mistake: only the lower bound is asked.
ValidateNatural(event, src_present, tgt_present, quantity) ==
    IF event # EventTransfer THEN "unsupported"
    ELSE IF ~src_present \/ ~tgt_present THEN "missing_field"
    ELSE IF quantity # << >> /\ quantity[1] < 0 THEN "malformed"
    ELSE "ok"

\* Quantities run from 0 to 999.
ValidateStructured(event, src_present, tgt_present, quantity) ==
    IF event # EventTransfer THEN "unsupported"
    ELSE IF ~src_present \/ ~tgt_present THEN "missing_field"
    ELSE IF quantity # << >> /\ quantity[1] \notin 0..999 THEN "malformed"
    ELSE "ok"

ObjectStatus(code) ==
    IF code \in {Apple, Orange} THEN "complete"
    ELSE IF code = UnknownObject THEN "unknown" ELSE "unsupported"

CanonicalStatus(code, quantity) ==
    IF ObjectStatus(code) # "complete" THEN ObjectStatus(code)
    ELSE IF quantity # << >> THEN "complete" ELSE "partial"

-----------------------------------------------------------------------------
(* The fragment. *)

\* What known codes are called; other objects keep the spelling they came with.
ObjectLabel(facts) ==
    CASE facts.object_code = Apple -> <<Lower("apple")>>
      [] facts.object_code = Orange -> <<Lower("orange")>>
      [] OTHER -> facts.object_spelling

Atom(kind, label, value) == [kind |-> kind, label |-> label, value |-> value]

QuantityAtoms(quantity) ==
    [i \in 1..Len(quantity) |->
        Atom("Quantity", <<Decimal(quantity[i])>>, quantity)]

Roles == <<"source", "target", "object", "quantity">>

\* Atoms stand in a fixed order and relations tie atom 0, the event, to each
\* of the others.
Assemble(adapter, raw, facts, object_was_unknown) ==
    LET atoms == <<Atom("Event", <<Lower("transfer")>>, << >>),
                   Atom("Entity", facts.source, << >>),
                   Atom("Entity", facts.target, << >>),
                   Atom(IF object_was_unknown THEN "Unknown" ELSE "Object",
                        ObjectLabel(facts), << >>)>>
                 \o QuantityAtoms(facts.quantity)
    IN  [status |-> "ok",
         facts |-> facts,
         fragment |->
            [schema |-> FragmentSchemaVersion,
             atoms |-> atoms,
             relations |-> [i \in 1..(Len(atoms) - 1) |->
                                [role |-> Roles[i], event |-> 0, target |-> i]],
             unknowns |-> IF object_was_unknown
                          THEN <<facts.object_spelling>> ELSE << >>,
             provenance |->
                [adapter |-> adapter,
                 signal_id |-> raw,
                 confidence |-> IF object_was_unknown THEN "Uncertain"
                                ELSE IF adapter = "text" THEN "Parsed"
                                ELSE "Direct"]]]

-----------------------------------------------------------------------------
(* The semantic key: one line of text for each atom, relation and unknown. *)

\* Mistake: a backslash is written as it is.
EscapePieceNoBackslash(p) ==
    CASE p = Newline -> <<Backslash, Lower("n")>>
      [] p = Space -> <<Backslash, Lower("s")>>
      [] OTHER -> <<p>>

EscapePiece(p) ==
    CASE p = Backslash -> <<Backslash, Backslash>>
      [] p = Newline -> <<Backslash, Lower("n")>>
      [] p = Space -> <<Backslash, Lower("s")>>
      [] OTHER -> <<p>>

Escape(label) == FlattenSeq([i \in 1..Len(label) |-> EscapePiece(label[i])])

AtomLine(atom) ==
    <<Newline, Lower("atom"), Space, Lower(atom.kind), Space>>
    \o Escape(atom.label)
    \o <<Space, IF atom.value = << >> THEN Mark("-") ELSE Decimal(atom.value[1])>>

RelationLine(rel) ==
    <<Newline, Lower("rel"), Space, Lower(rel.role), Space,
      Decimal(rel.event), Space, Decimal(rel.target)>>

UnknownLine(unknown) ==
    <<Newline, Lower("unknown"), Space, Lower("object"), Mark(":"),
      Lower("unknown"), Mark(":")>> \o Escape(unknown)

SemanticKey(f) ==
    FlattenSeq([i \in 1..Len(f.atoms) |-> AtomLine(f.atoms[i])])
    \o FlattenSeq([i \in 1..Len(f.relations) |-> RelationLine(f.relations[i])])
    \o FlattenSeq([i \in 1..Len(f.unknowns) |-> UnknownLine(f.unknowns[i])])

\* What a receipt's hash is the digest of.
CanonicalBytes(f) == <<Mark(f.schema)>> \o SemanticKey(f)

SemanticallyEqual(f, g) ==
    f.schema = g.schema /\ SemanticKey(f) = SemanticKey(g)

-----------------------------------------------------------------------------
(* Equality in MNCS. *)

\* Mistake: quantities are compared without their presence.
CodesEqualByValue(a, b) ==
    LET value(quantity) == IF quantity = << >> THEN 0 ELSE quantity[1]
    IN  /\ a.event = b.event
        /\ a.object_code = b.object_code
        /\ value(a.quantity) = value(b.quantity)

\* A missing quantity is not an explicit zero.
CodesEqual(a, b) ==
    /\ a.event = b.event
    /\ a.object_code = b.object_code
    /\ a.quantity = b.quantity

\* Byte-exact, within the bound.
SpellEqual(a, b) == Len(a) <= MaxSpelling /\ a = b

MncsEqual(a, b) ==
    /\ CodesEqual(a, b)
    /\ SpellEqual(a.source, b.source)
    /\ SpellEqual(a.target, b.target)
    /\ a.object_code = UnknownObject =>
           SpellEqual(a.object_spelling, b.object_spelling)
=============================================================================
