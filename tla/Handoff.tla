------------------------------ MODULE Handoff -------------------------------
(***************************************************************************)
(* The fixed transport representation of a handoff to a store:              *)
(* language/mncs/ingest/handoff.mncs.  A tag, four numbers in as many bytes  *)
(* as a u64 has, most significant first, and four identities.               *)
(***************************************************************************)
EXTENDS Integers, SequencesExt

CONSTANTS
    Radix,          \* values of a byte, 256 in the code
    WordBytes,      \* bytes of a u64, 8 in the code
    IdentityBytes   \* bytes of an identity, 32 in the code

ASSUME HandoffAssumption ==
    Radix \in Nat \ {0} /\ WordBytes \in Nat /\ IdentityBytes \in Nat

Tag == <<73, 72, 1, 0>>

\* Where a number and an identity stand, counted from 0.
NumberAt(n) == Len(Tag) + n * WordBytes
IdentityAt(n) == NumberAt(4) + n * IdentityBytes

HandoffBytes == IdentityAt(4)

\* What a byte of a number counts, by the bytes behind it.
Place ==
    LET place[n \in 0..WordBytes] == IF n = 0 THEN 1 ELSE place[n - 1] * Radix
    IN  place

\* One byte after another is divided off, and the rest goes on.
U64Bytes(value) ==
    LET rest[i \in 0..WordBytes] ==
            IF i = 0 THEN value ELSE rest[i - 1] % Place[WordBytes - i]
    IN  [i \in 1..WordBytes |-> rest[i - 1] \div Place[WordBytes - i]]

\* copy8 and copy32
CopyAt(out, offset, value) ==
    [i \in 1..Len(out) |->
        IF i - offset \in 1..Len(value) THEN value[i - offset] ELSE out[i]]

\* numbers: semantic type, source kind, completeness, lossiness; identities:
\* source, semantic, producer, transformation.
Encode(numbers, identities) ==
    LET tagged == CopyAt([i \in 1..HandoffBytes |-> 0], 0, Tag)
        counted == FoldLeftDomain(
            LAMBDA out, n : CopyAt(out, NumberAt(n - 1), U64Bytes(numbers[n])),
            tagged, numbers)
    IN  FoldLeftDomain(
            LAMBDA out, n : CopyAt(out, IdentityAt(n - 1), identities[n]),
            counted, identities)

\* validate of handoff.mncs: 0, or the fault of what claims to be a handoff.
ValidateHandoff(view) ==
    IF Len(view) # HandoffBytes THEN 1
    ELSE IF SubSeq(view, 1, 2) # SubSeq(Tag, 1, 2) THEN 2
    ELSE IF view[3] # Tag[3] THEN 3
    ELSE IF view[4] # Tag[4] THEN 4
    ELSE 0
=============================================================================
