----------------------------- MODULE Accounting -----------------------------
(***************************************************************************)
(* Where the bytes of a stream are while a reader works through it.        *)
(***************************************************************************)
EXTENDS Views

\* The stream ends with the carry and the rest of the running chunk, and pos
\* is the boundary between the two: no byte is missing, none is there twice.
Accounted(stream, carry, pos, todo) ==
    /\ pos \in Nat
    /\ Len(carry) <= pos
    /\ pos + Len(todo) = Len(stream)
    /\ carry = SubSeq(stream, pos - Len(carry) + 1, pos)
    /\ todo = SubSeq(stream, pos + 1, Len(stream))

\* Where the units cut so far end, a unit being a record with its byte range.
CutEnd(units) == IF units = << >> THEN 0 ELSE units[Len(units)].byte_end

\* held is what a window ends with.
Ends(held, window) ==
    /\ Len(held) <= Len(window)
    /\ held = SubSeq(window, Len(window) - Len(held) + 1, Len(window))
=============================================================================
