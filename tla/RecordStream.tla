---------------------------- MODULE RecordStream ----------------------------
(***************************************************************************)
(* What both stream readers promise, without carries, views or windows:    *)
(* bytes arrive, and a reader cuts the stream into units, each with the    *)
(* byte range it came from.  The units are in stream order and leave out   *)
(* nothing but a terminator between two of them, and a stream closes only  *)
(* when the units reach its end.                                           *)
(***************************************************************************)
EXTENDS Integers, Sequences, SequencesExt

CONSTANTS
    MinGap, MaxGap   \* length of what separates two units, a terminator

VARIABLES
    arrived,   \* bytes of the stream so far
    units,     \* byte ranges cut so far, [begin, end] records
    phase      \* "open", "closed" or "refused"

vars == <<arrived, units, phase>>

Unit(b, e) == [begin |-> b, end |-> e]

Reaches(us, pos) ==
    IF us = << >> THEN pos = 0 ELSE pos - Last(us).end \in 0..MaxGap

Follows(us, pos) ==
    IF us = << >> THEN pos = 0 ELSE pos - Last(us).end \in MinGap..MaxGap

-----------------------------------------------------------------------------
Init == arrived = 0 /\ units = << >> /\ phase = "open"

Arrive ==
    /\ phase = "open"
    /\ arrived' \in Nat /\ arrived <= arrived'
    /\ UNCHANGED <<units, phase>>

Cut ==
    /\ phase = "open"
    /\ \E b \in 0..arrived : \E e \in b..arrived :
           /\ Follows(units, b)
           /\ units' = Append(units, Unit(b, e))
    /\ UNCHANGED <<arrived, phase>>

\* An error may take back units the running call has not returned.
Refuse ==
    /\ phase = "open"
    /\ phase' = "refused"
    /\ IsPrefix(units', units)
    /\ UNCHANGED arrived

Close ==
    /\ phase = "open"
    /\ phase' = "closed"
    /\ Reaches(units, arrived)
    /\ UNCHANGED <<arrived, units>>

Next == Arrive \/ Cut \/ Refuse \/ Close

Spec == Init /\ [][Next]_vars
=============================================================================
