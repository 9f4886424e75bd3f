------------------------------- MODULE Views -------------------------------
(***************************************************************************)
(* What the two stream readers of the host share: the windowing of a chunk *)
(* by slice::chunks, and the arithmetic of the view cursor.                *)
(***************************************************************************)
EXTENDS Integers, Sequences

AtMost(a, b) == IF a <= b THEN a ELSE b

SaturatingSub(m, n) == IF n <= m THEN m - n ELSE 0

\* The next view of what is left of a chunk, and what is left after it.
ViewOf(chunk, size) == SubSeq(chunk, 1, AtMost(Len(chunk), size))
AfterView(chunk, size) ==
    SubSeq(chunk, AtMost(Len(chunk), size) + 1, Len(chunk))

\* Bytes of the tail after position at that fit the carry.
Kept(staged, at, cap) == AtMost(Len(staged) - at, cap)

\* View bytes covered once the kept tail is staged again: everything up to
\* its end except the carried bytes, clamped to the view.
Consumed(carry, view, at, cap) ==
    AtMost(at + Kept(carry \o view, at, cap) - Len(carry), Len(view))

\* A produced unit starts where the carry before the call started.
UnitStart(pos, consumed, held) ==
    SaturatingSub(SaturatingSub(pos + consumed, consumed), held)
=============================================================================
