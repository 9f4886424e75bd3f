------------------------------ MODULE Ordering ------------------------------
(***************************************************************************)
(* The order of codes: the sort and the witness of its result in            *)
(* language/mncs/ingest/frame.mncs.  Both work on a window of Lanes codes   *)
(* of which the first count are live; lane k of the code is window[k + 1].  *)
(***************************************************************************)
EXTENDS Integers, SequencesExt

CONSTANT Lanes   \* lanes of a window, 8 in the code

ASSUME OrderingAssumption == Lanes \in Nat

LiveLanes(count) == IF count <= Lanes THEN count ELSE Lanes

IsSortedCodes(window, count) ==
    \A k \in 1..(LiveLanes(count) - 1) : window[k] <= window[k + 1]

SwapLanes(window, k) ==
    [window EXCEPT ![k] = window[k + 1], ![k + 1] = window[k]]

\* One insertion: what is in lane "at" moves left past greater codes.
SortStep(window, count, at) ==
    FoldLeftDomain(LAMBDA row, j :
        LET k == at - (j - 1)
        IN  IF k \in 1..(LiveLanes(count) - 1) /\ row[k + 1] < row[k]
            THEN SwapLanes(row, k) ELSE row,
        window, window)

SortCodes(window, count) ==
    FoldLeftDomain(LAMBDA row, lane : SortStep(row, count, lane - 1),
                   window, window)
=============================================================================
