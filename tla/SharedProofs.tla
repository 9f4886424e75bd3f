---------------------------- MODULE SharedProofs ----------------------------
(***************************************************************************)
(* Lemmas the proofs share: what stands in for induction, functions and    *)
(* folds over positions, concatenation, and views and the accounting of    *)
(* bytes for streams over any set of bytes.                                *)
(***************************************************************************)
EXTENDS Accounting, SequencesExt, SequenceTheorems, WellFoundedInduction, TLAPS

-----------------------------------------------------------------------------
(* Every set of naturals that is not empty has a least element, and what    *)
(* holds at a position whenever it held at the one before holds at all.     *)

LEMMA LeastNumber ==
    ASSUME NEW T \in SUBSET Nat, T # {}
    PROVE  \E i \in T : \A j \in T : i <= j
<1>1. PICK i \in T : \A j \in T : <<j, i>> \notin OpToRel(<, Nat)
  BY NatLessThanWellFounded, WFMin
<1>2. \A j \in T : ~(j < i)
  BY <1>1, Zenon DEF OpToRel
<1> QED BY <1>2

\* The least of a set of numbers.
LEMMA MinOfNumbers ==
    ASSUME NEW T \in SUBSET Nat, T # {}
    PROVE  Min(T) \in T /\ \A i \in T : Min(T) <= i
<1>1. \E i \in T : \A j \in T : i <= j
  BY LeastNumber
<1> QED BY <1>1 DEF Min

\* The greatest position of a set of positions.
LEMMA MaxOfPositions ==
    ASSUME NEW n \in Nat, NEW T \in SUBSET (1..n), T # {}
    PROVE  /\ Max(T) \in T
           /\ \A i \in T : i <= Max(T)
<1> DEFINE Above == {k \in Nat : \A i \in T : i <= k}
<1>1. n \in Above
  OBVIOUS
<1>2. PICK m \in Above : \A k \in Above : m <= k
  <2> HIDE DEF Above
  <2>1. Above \in SUBSET Nat
    BY DEF Above
  <2> QED BY <1>1, <2>1, LeastNumber
<1>3. m \in Nat /\ \A i \in T : i \in Nat /\ i <= m
  OBVIOUS
<1>4. m \in T
  <2> SUFFICES ASSUME m \notin T PROVE FALSE
    OBVIOUS
  <2>1. \A i \in T : i <= m - 1
    BY <1>3
  <2>2. m - 1 \in Nat
    <3>1. PICK i \in T : TRUE
      OBVIOUS
    <3>2. i \in 1..n /\ i <= m
      BY <1>3
    <3> QED BY <1>3, <3>2
  <2>3. m - 1 \in Above
    BY <2>1, <2>2
  <2>4. m <= m - 1
    BY <1>2, <2>3
  <2> QED BY <1>3, <2>4
<1>5. \E x \in T : \A y \in T : x >= y
  BY <1>3, <1>4
<1> HIDE DEF Above
<1> QED BY <1>5 DEF Max

\* The positions up to one.
LEMMA PositionsUpTo ==
    /\ 1..0 = {}
    /\ \A i \in Nat \ {0} :
           /\ 1..i # {} /\ Max(1..i) = i
           /\ (1..i) \ {i} = 1..(i - 1)
<1>1. ASSUME NEW i \in Nat \ {0}
      PROVE  Max(1..i) = i
  <2>1. /\ 1..i \in SUBSET (1..i) /\ 1..i # {} /\ i \in 1..i
    OBVIOUS
  <2>2. Max(1..i) \in 1..i /\ i <= Max(1..i)
    BY <2>1, MaxOfPositions
  <2> QED BY <2>2
<1>2. ASSUME NEW i \in Nat \ {0}
      PROVE  1..i # {} /\ (1..i) \ {i} = 1..(i - 1)
  <2>1. i \in 1..i
    OBVIOUS
  <2>2. \A j : j \in (1..i) \ {i} <=> j \in 1..(i - 1)
    OBVIOUS
  <2> QED BY <2>1, <2>2
<1>3. 1..0 = {}
  OBVIOUS
<1> QED BY <1>1, <1>2, <1>3

\* A fold of n positions: its value for every set of them.
FoldOf(iter, n, V, base, step) ==
    /\ iter \in [SUBSET (1..n) -> V]
    /\ \A T \in SUBSET (1..n) :
           iter[T] = IF T = {} THEN base
                     ELSE step[Max(T)][iter[T \ {Max(T)}]]

\* A function defined by recursion on sets of positions exists.
LEMMA SetRecursion ==
    ASSUME NEW n \in Nat, NEW V, NEW base \in V, NEW step,
           \A i \in 1..n : \A v \in V : step[i][v] \in V
    PROVE  \E iter : FoldOf(iter, n, V, base, step)
<1> DEFINE Recurs(iter, k) == FoldOf(iter, k, V, base, step)
           Missing == {k \in 0..n : ~\E iter : Recurs(iter, k)}
<1> USE DEF FoldOf
<1>1. Missing = {}
  <2> SUFFICES ASSUME Missing # {} PROVE FALSE
    OBVIOUS
  <2>1. PICK k \in Missing : \A j \in Missing : k <= j
    <3> HIDE DEF Recurs
    <3>1. Missing \in SUBSET Nat
      OBVIOUS
    <3> HIDE DEF Missing
    <3> QED BY <3>1, LeastNumber
  <2>2. k \in 0..n /\ ~\E iter : Recurs(iter, k)
    <3> HIDE DEF Recurs
    <3> QED OBVIOUS
  <2>3. CASE k = 0
    <3> DEFINE iter == [T \in SUBSET (1..0) |-> base]
    <3>1. \A T \in SUBSET (1..0) : T = {}
      OBVIOUS
    <3>2. iter \in [SUBSET (1..0) -> V]
      OBVIOUS
    <3>3. \A T \in SUBSET (1..0) : iter[T] = base
      OBVIOUS
    <3> HIDE DEF iter
    <3>4. Recurs(iter, 0)
      BY <3>1, <3>2, <3>3
    <3> QED BY <2>2, <2>3, <3>4
  <2>4. CASE k # 0
    <3>1. k - 1 \in 0..n /\ k \in Nat /\ ~(k <= k - 1) /\ k <= n
      BY <2>2, <2>4
    <3>2. \E iter : Recurs(iter, k - 1)
      <4> HIDE DEF Recurs
      <4> QED BY <2>1, <3>1
    <3>3. PICK g : Recurs(g, k - 1)
      BY <3>2
    <3> DEFINE h == [T \in SUBSET (1..k) |->
                        IF T = {} THEN base
                        ELSE step[Max(T)][g[T \ {Max(T)}]]]
    <3>4. ASSUME NEW T \in SUBSET (1..k), T # {}
          PROVE  /\ T \ {Max(T)} \in SUBSET (1..(k - 1))
                 /\ T \ {Max(T)} \in SUBSET (1..k)
                 /\ Max(T) \in 1..n
      <4>1. Max(T) \in T /\ \A i \in T : i <= Max(T)
        BY <3>1, <3>4, MaxOfPositions
      <4> DEFINE m == Max(T)
      <4> HIDE DEF m
      <4>2. m \in T /\ \A i \in T : i <= m
        BY <4>1 DEF m
      <4>3. ASSUME NEW i \in T \ {m} PROVE i \in 1..(k - 1)
        <5>1. i \in 1..k /\ m \in 1..k /\ i <= m /\ i # m
          BY <4>2
        <5>2. i \in Nat /\ m \in Nat /\ 1 <= i /\ m <= k
          BY <3>1, <5>1
        <5> QED BY <3>1, <5>1, <5>2
      <4>4. m \in 1..n
        <5>1. m \in 1..k
          BY <4>2
        <5> QED BY <3>1, <5>1
      <4>5. T \ {m} \in SUBSET (1..(k - 1)) /\ T \ {m} \in SUBSET (1..k)
        BY <4>3
      <4> QED BY <4>4, <4>5 DEF m
    <3>5. ASSUME NEW T \in SUBSET (1..(k - 1)) PROVE h[T] = g[T] /\ T \in SUBSET (1..k)
      <4>1. T \in SUBSET (1..k)
        BY <3>1
      <4> QED BY <3>3, <4>1
    <3>6. ASSUME NEW T \in SUBSET (1..k) PROVE h[T] \in V
      BY <3>3, <3>4
    <3>7. ASSUME NEW T \in SUBSET (1..k)
          PROVE  h[T] = IF T = {} THEN base
                        ELSE step[Max(T)][h[T \ {Max(T)}]]
      BY <3>4, <3>5
    <3>8. h \in [SUBSET (1..k) -> V]
      BY <3>6
    <3> HIDE DEF h
    <3>9. Recurs(h, k)
      BY <3>7, <3>8
    <3> QED BY <2>2, <3>9
  <2> QED BY <2>3, <2>4
<1>2. n \in 0..n
  OBVIOUS
<1>3. \E iter : Recurs(iter, n)
  <2> HIDE DEF Recurs
  <2> QED BY <1>1, <1>2
<1> QED BY <1>3 DEF FoldOf

\* What holds at a position whenever it held at the one before holds at all.
LEMMA AtEveryPosition ==
    ASSUME NEW n \in Nat, NEW T \in SUBSET (0..n), 0 \in T,
           \A i \in 1..n : i - 1 \in T => i \in T
    PROVE  T = 0..n
<1> DEFINE Missing == (0..n) \ T
<1> SUFFICES ASSUME Missing # {} PROVE FALSE
  OBVIOUS
<1>1. PICK i \in Missing : \A j \in Missing : i <= j
  <2>1. Missing \in SUBSET Nat
    OBVIOUS
  <2> HIDE DEF Missing
  <2> QED BY <2>1, LeastNumber
<1>2. i \in 1..n /\ i - 1 \in 0..n /\ ~(i <= i - 1)
  OBVIOUS
<1>3. i - 1 \in T
  BY <1>1, <1>2
<1> QED BY <1>1, <1>2, <1>3

\* A function that steps as a fold does wherever it is in V.
FoldsIn(f, n, V, base, step) ==
    /\ f[{}] = base
    /\ \A T \in (SUBSET (1..n)) \ {{}} :
           f[T \ {Max(T)}] \in V => f[T] = step[Max(T)][f[T \ {Max(T)}]]

\* A fold of the positions in order: base, then one step at each position.
LEMMA FoldRuns ==
    ASSUME NEW n \in Nat, NEW V, NEW base \in V, NEW step, NEW f,
           \A i \in 1..n : \A v \in V : step[i][v] \in V,
           FoldsIn(f, n, V, base, step)
    PROVE  \E run \in [0..n -> V] :
               /\ run[0] = base /\ f[1..n] = run[n]
               /\ \A i \in 1..n : run[i] = step[i][run[i - 1]]
<1>1. ASSUME NEW i \in 1..n, f[1..(i - 1)] \in V
      PROVE  f[1..i] = step[i][f[1..(i - 1)]]
  <2> DEFINE T == 1..i
             m == Max(T)
             U == T \ {m}
  <2>1. T \in SUBSET (1..n) /\ T # {} /\ m = i /\ U = 1..(i - 1)
    <3>1. i \in Nat \ {0} /\ T \in SUBSET (1..n)
      OBVIOUS
    <3>2. 1..i # {} /\ Max(1..i) = i /\ (1..i) \ {i} = 1..(i - 1)
      BY <3>1, PositionsUpTo
    <3> QED BY <3>1, <3>2
  <2>2. f[U] \in V => f[T] = step[m][f[U]]
    <3> HIDE DEF U, m
    <3>1. U = T \ {Max(T)} /\ m = Max(T)
      BY DEF U, m
    <3> HIDE DEF T
    <3> QED BY <2>1, <3>1 DEF FoldsIn
  <2> HIDE DEF T, m, U
  <2> QED BY <1>1, <2>1, <2>2 DEF T
<1> DEFINE Good == {i \in 0..n : f[1..i] \in V}
<1>2. Good = 0..n
  <2>1. 0 \in Good
    BY PositionsUpTo DEF FoldsIn
  <2>2. ASSUME NEW i \in 1..n, i - 1 \in Good PROVE i \in Good
    BY <1>1, <2>2
  <2>3. Good \in SUBSET (0..n)
    OBVIOUS
  <2> HIDE DEF Good
  <2> QED BY <2>1, <2>2, <2>3, AtEveryPosition
<1>3. ASSUME NEW i \in 0..n PROVE f[1..i] \in V
  BY <1>2
<1> HIDE DEF Good
<1> DEFINE run == [i \in 0..n |-> f[1..i]]
<1>4. run \in [0..n -> V]
  BY <1>3
<1>5. ASSUME NEW i \in 1..n PROVE run[i] = step[i][run[i - 1]]
  <2>1. i \in 0..n /\ i - 1 \in 0..n
    OBVIOUS
  <2> QED BY <1>1, <1>3, <2>1
<1>6. run[0] = base /\ f[1..n] = run[n]
  BY PositionsUpTo DEF FoldsIn
<1> HIDE DEF run
<1> QED BY <1>4, <1>5, <1>6

LEMMA FoldOfFolds ==
    ASSUME NEW n, NEW V, NEW base, NEW step, NEW f, FoldOf(f, n, V, base, step)
    PROVE  FoldsIn(f, n, V, base, step)
BY DEF FoldOf, FoldsIn

\* The values of a fold, position by position.
RunOf(run, n, V, base, step) ==
    /\ run \in [0..n -> V] /\ run[0] = base
    /\ \A i \in 1..n : run[i] = step[i][run[i - 1]]

\* A function defined by recursion on positions exists.
LEMMA PositionRecursion ==
    ASSUME NEW n \in Nat, NEW V, NEW base \in V, NEW step,
           \A i \in 1..n : \A v \in V : step[i][v] \in V
    PROVE  \E run : RunOf(run, n, V, base, step)
<1>1. PICK f : FoldOf(f, n, V, base, step)
  BY SetRecursion
<1> QED BY <1>1, FoldOfFolds, FoldRuns DEF RunOf

-----------------------------------------------------------------------------
(* A sequence of sequences in one. *)

LEMMA FlattenRuns ==
    ASSUME NEW S, NEW seqs \in Seq(Seq(S))
    PROVE  \E run \in [0..Len(seqs) -> Seq(S)] :
               /\ run[0] = << >> /\ FlattenSeq(seqs) = run[Len(seqs)]
               /\ \A i \in 1..Len(seqs) : run[i] = run[i - 1] \o seqs[i]
<1>1. PICK n \in Nat : n = Len(seqs) /\ \A i \in 1..n : seqs[i] \in Seq(S)
  OBVIOUS
<1>2. << >> \in Seq(S) /\ \A s \in Seq(S) : << >> \o s = s
  BY ConcatEmptySeq
<1> DEFINE Recurs(f) == f = [i \in 1..n |-> IF i = 1 THEN seqs[i]
                                            ELSE f[i - 1] \o seqs[i]]
           step == [i \in 1..n |-> [v \in Seq(S) |-> v \o seqs[i]]]
<1>3. \A i \in 1..n : \A v \in Seq(S) :
          step[i][v] = v \o seqs[i] /\ step[i][v] \in Seq(S)
  BY <1>1, ConcatProperties
<1> HIDE DEF step
<1>4. PICK run \in [0..n -> Seq(S)] :
          /\ run[0] = << >>
          /\ \A i \in 1..n : run[i] = step[i][run[i - 1]]
  <2> DEFINE V == Seq(S)
             base == << >>
  <2>1. n \in Nat /\ base \in V /\ \A i \in 1..n : \A v \in V : step[i][v] \in V
    BY <1>2, <1>3
  <2> HIDE DEF V, base
  <2>2. \E run : RunOf(run, n, V, base, step)
    BY ONLY <2>1, PositionRecursion
  <2> QED BY <2>2 DEF RunOf, V, base
<1>5. ASSUME NEW i \in 1..n PROVE run[i] = run[i - 1] \o seqs[i] /\ run[i - 1] \in Seq(S)
  <2>1. i - 1 \in 0..n
    OBVIOUS
  <2>2. run[i - 1] \in Seq(S)
    BY <2>1
  <2> QED BY <1>3, <1>4, <2>2
<1>6. CASE n = 0
  <2>1. seqs = << >>
    BY <1>1, <1>6, EmptySeq
  <2>2. FlattenSeq(seqs) = << >>
    BY <1>1, <1>6, <2>1 DEF FlattenSeq
  <2> QED BY <1>1, <1>4, <1>5, <1>6, <2>2
<1>7. CASE n # 0
  <2>1. \E f : Recurs(f)
    <3> DEFINE f == [i \in 1..n |-> run[i]]
    <3>1. ASSUME NEW i \in 1..n
          PROVE  run[i] = IF i = 1 THEN seqs[i] ELSE f[i - 1] \o seqs[i]
      <4>1. CASE i = 1
        <5>1. run[1] = run[0] \o seqs[1] /\ seqs[1] \in Seq(S)
          <6>1. 1 \in 1..n /\ 1 - 1 = 0
            BY <4>1
          <6> QED BY <1>1, <1>5, <6>1
        <5> QED BY <1>2, <1>4, <4>1, <5>1
      <4>2. CASE i # 1
        <5>1. i - 1 \in 1..n
          BY <4>2
        <5> QED BY <1>5, <4>2, <5>1
      <4> QED BY <4>1, <4>2
    <3>2. Recurs(f)
      BY <3>1
    <3> QED BY <3>2
  <2>2. FlattenSeq(seqs) = (CHOOSE f : Recurs(f))[n]
    BY <1>1, <1>7 DEF FlattenSeq
  <2>3. PICK f : Recurs(f) /\ FlattenSeq(seqs) = f[n]
    <3> HIDE DEF Recurs
    <3> QED BY <2>1, <2>2
  <2> DEFINE Same == {i \in 0..n : i = 0 \/ f[i] = run[i]}
  <2>4. 0 \in Same
    OBVIOUS
  <2>5. ASSUME NEW i \in 1..n, i - 1 \in Same PROVE i \in Same
    <3>1. f[i] = IF i = 1 THEN seqs[i] ELSE f[i - 1] \o seqs[i]
      BY <2>3
    <3>2. CASE i = 1
      <4>1. run[1] = run[0] \o seqs[1] /\ seqs[1] \in Seq(S)
        <5>1. 1 \in 1..n /\ 1 - 1 = 0
          BY <3>2
        <5> QED BY <1>1, <1>5, <5>1
      <4> QED BY <1>2, <1>4, <3>1, <3>2, <4>1
    <3>3. CASE i # 1
      <4>1. f[i - 1] = run[i - 1]
        BY <2>5, <3>3
      <4>2. f[i] = f[i - 1] \o seqs[i] /\ run[i] = run[i - 1] \o seqs[i]
        BY <1>5, <3>1, <3>3
      <4>3. f[i] = run[i]
        BY <4>1, <4>2
      <4> QED BY <4>3
    <3> QED BY <3>2, <3>3
  <2>6. Same \in SUBSET (0..n)
    OBVIOUS
  <2> HIDE DEF Same
  <2>7. n \in Same
    <3>1. Same = 0..n
      BY <2>4, <2>5, <2>6, AtEveryPosition
    <3> QED BY <3>1
  <2>8. f[n] = run[n]
    BY <1>7, <2>7 DEF Same
  <2> QED BY <1>1, <1>4, <1>5, <2>3, <2>8
<1> QED BY <1>6, <1>7

\* Where each of the sequences stands in the one they make up.
PlacesOf(at, seqs, flat) ==
    /\ at \in [0..Len(seqs) -> Nat]
    /\ at[0] = 0 /\ at[Len(seqs)] = Len(flat)
    /\ \A i \in 1..Len(seqs) :
           /\ at[i] = at[i - 1] + Len(seqs[i])
           /\ \A j \in 1..Len(seqs[i]) : flat[at[i - 1] + j] = seqs[i][j]

LEMMA FlattenPlaces ==
    ASSUME NEW S, NEW seqs \in Seq(Seq(S))
    PROVE  \E at : PlacesOf(at, seqs, FlattenSeq(seqs))
<1>1. PICK n \in Nat : n = Len(seqs) /\ \A i \in 1..n : seqs[i] \in Seq(S)
  OBVIOUS
<1>2. PICK run \in [0..n -> Seq(S)] :
          /\ run[0] = << >> /\ FlattenSeq(seqs) = run[n]
          /\ \A i \in 1..n : run[i] = run[i - 1] \o seqs[i]
  BY <1>1, FlattenRuns
<1> DEFINE at == [i \in 0..n |-> Len(run[i])]
<1>3. at \in [0..n -> Nat] /\ at[0] = 0 /\ at[n] = Len(run[n])
      /\ \A i \in 0..n : run[i] \in Seq(S) /\ Len(run[i]) = at[i] /\ at[i] \in Nat
  BY <1>2, EmptySeq
<1> HIDE DEF at
<1>4. ASSUME NEW i \in 1..n
      PROVE  /\ i - 1 \in 0..n /\ i \in 0..n
             /\ at[i - 1] \in Nat /\ Len(seqs[i]) \in Nat
             /\ at[i] = at[i - 1] + Len(seqs[i])
             /\ \A j \in 1..at[i] :
                    run[i][j] = IF j <= at[i - 1] THEN run[i - 1][j]
                                ELSE seqs[i][j - at[i - 1]]
  <2>1. i - 1 \in 0..n /\ i \in 0..n
    OBVIOUS
  <2>2. /\ run[i - 1] \in Seq(S) /\ seqs[i] \in Seq(S)
        /\ Len(run[i - 1]) = at[i - 1] /\ Len(run[i]) = at[i]
        /\ run[i] = run[i - 1] \o seqs[i]
    BY <1>1, <1>2, <1>3, <2>1
  <2>3. PICK u \in Seq(S), v \in Seq(S) : u = run[i - 1] /\ v = seqs[i]
    BY <2>2
  <2>4. /\ Len(u \o v) = Len(u) + Len(v)
        /\ \A j \in 1..Len(u) + Len(v) :
               (u \o v)[j] = IF j <= Len(u) THEN u[j] ELSE v[j - Len(u)]
    BY ConcatProperties
  <2>5. PICK w : w = u \o v
    OBVIOUS
  <2>6. /\ Len(w) = Len(u) + Len(v)
        /\ \A j \in 1..Len(u) + Len(v) :
               w[j] = IF j <= Len(u) THEN u[j] ELSE v[j - Len(u)]
    BY <2>4, <2>5
  <2>7. Len(u) = at[i - 1] /\ Len(v) \in Nat /\ at[i - 1] \in Nat
        /\ Len(w) = at[i] /\ w = run[i]
    <3>1. w = run[i]
      BY <2>2, <2>3, <2>5
    <3>2. Len(run[i - 1]) = at[i - 1] /\ at[i - 1] \in Nat /\ Len(run[i]) = at[i]
      BY <1>3, <2>1
    <3>3. Len(v) \in Nat
      BY <2>3, LenProperties
    <3> QED BY <2>3, <3>1, <3>2, <3>3
  <2>8. \A j \in 1..at[i] :
            w[j] = IF j <= at[i - 1] THEN u[j] ELSE v[j - at[i - 1]]
    BY <2>6, <2>7
  <2> QED BY <2>1, <2>3, <2>6, <2>7, <2>8
<1> DEFINE Placed(i, k) ==
               \A j \in 1..Len(seqs[k]) :
                   /\ at[k - 1] + j \in 1..at[i]
                   /\ run[i][at[k - 1] + j] = seqs[k][j]
           Good == {i \in 0..n : \A k \in 1..i : Placed(i, k)}
<1>5. Good = 0..n
  <2>1. 0 \in Good
    OBVIOUS
  <2>2. ASSUME NEW i \in 1..n, i - 1 \in Good PROVE i \in Good
    <3> SUFFICES ASSUME NEW k \in 1..i, NEW j \in 1..Len(seqs[k])
                 PROVE  /\ at[k - 1] + j \in 1..at[i]
                        /\ run[i][at[k - 1] + j] = seqs[k][j]
      BY <1>4
    <3>1. k \in 1..n
      OBVIOUS
    <3>2. /\ at[k - 1] \in Nat /\ at[i - 1] \in Nat /\ at[i] \in Nat
          /\ Len(seqs[i]) \in Nat /\ Len(seqs[k]) \in Nat
          /\ at[i] = at[i - 1] + Len(seqs[i])
      BY <1>4, <3>1
    <3>3. CASE k = i
      <4>1. PICK a \in Nat, l \in Nat : a = at[i - 1] /\ l = Len(seqs[i])
        BY <3>2
      <4>2. at[i] = a + l /\ j \in 1..l
        BY <3>2, <3>3, <4>1
      <4>3. a + j \in 1..(a + l) /\ ~(a + j <= a) /\ (a + j) - a = j
        <5>1. PICK p \in 1..l : p = j
          BY <4>2
        <5>2. a + p \in 1..(a + l) /\ ~(a + p <= a) /\ (a + p) - a = p
          OBVIOUS
        <5> QED BY <5>1, <5>2
      <4>4. run[i][a + j] = seqs[i][(a + j) - a]
        BY <1>4, <4>1, <4>2, <4>3
      <4> QED BY <3>3, <4>1, <4>2, <4>3, <4>4
    <3>4. CASE k # i
      <4>1. k \in 1..(i - 1)
        BY <3>4
      <4>2. /\ at[k - 1] + j \in 1..at[i - 1]
            /\ run[i - 1][at[k - 1] + j] = seqs[k][j]
        BY <2>2, <4>1
      <4>3. at[k - 1] + j \in 1..at[i] /\ at[k - 1] + j <= at[i - 1]
        <5>1. PICK p : p = at[k - 1] + j
          OBVIOUS
        <5>2. p \in 1..at[i - 1]
          BY <4>2, <5>1
        <5>3. p \in 1..at[i] /\ p <= at[i - 1]
          BY ONLY <3>2, <5>2
        <5> QED BY <5>1, <5>3
      <4> QED BY <1>4, <4>2, <4>3
    <3> HIDE DEF Good
    <3> QED BY <3>3, <3>4
  <2>3. Good \in SUBSET (0..n)
    OBVIOUS
  <2> HIDE DEF Good
  <2> QED BY <2>1, <2>2, <2>3, AtEveryPosition
<1>6. \A k \in 1..n : Placed(n, k)
  <2>1. n \in Good
    <3> HIDE DEF Good
    <3> QED BY <1>5
  <2> QED BY <2>1
<1>7. \A i \in 1..n : \A j \in 1..Len(seqs[i]) :
          FlattenSeq(seqs)[at[i - 1] + j] = seqs[i][j]
  BY <1>2, <1>6
<1>8. PlacesOf(at, seqs, FlattenSeq(seqs))
  <2>1. at[Len(seqs)] = Len(FlattenSeq(seqs)) /\ at \in [0..Len(seqs) -> Nat]
    BY <1>1, <1>2, <1>3
  <2>2. at[0] = 0
    BY <1>3
  <2>3. \A i \in 1..Len(seqs) :
           /\ at[i] = at[i - 1] + Len(seqs[i])
           /\ \A j \in 1..Len(seqs[i]) :
                  FlattenSeq(seqs)[at[i - 1] + j] = seqs[i][j]
    BY <1>1, <1>4, <1>7
  <2> QED BY <2>1, <2>2, <2>3 DEF PlacesOf
<1> QED BY <1>8

\* What goes before two sequences that are one is one if it is as long.
LEMMA ConcatCancels ==
    ASSUME NEW S, NEW a \in Seq(S), NEW b \in Seq(S), NEW x \in Seq(S),
           NEW y \in Seq(S), Len(a) = Len(b), a \o x = b \o y
    PROVE  a = b /\ x = y
<1> DEFINE left == a \o x
           right == b \o y
<1>1. PICK n \in Nat, m \in Nat, k \in Nat :
          n = Len(a) /\ n = Len(b) /\ m = Len(x) /\ k = Len(y)
  OBVIOUS
<1>2. /\ Len(left) = Len(a) + Len(x)
      /\ \A i \in 1..Len(a) + Len(x) :
             left[i] = IF i <= Len(a) THEN a[i] ELSE x[i - Len(a)]
  BY ConcatProperties
<1>3. /\ Len(right) = Len(b) + Len(y)
      /\ \A i \in 1..Len(b) + Len(y) :
             right[i] = IF i <= Len(b) THEN b[i] ELSE y[i - Len(b)]
  BY ConcatProperties
<1>4. left = right
  OBVIOUS
<1> HIDE DEF left, right
<1>5. m = k
  BY <1>1, <1>2, <1>3, <1>4
<1>6. ASSUME NEW i \in 1..n PROVE a[i] = b[i]
  <2>1. i \in 1..n + m /\ i \in 1..n + k /\ i <= n
    OBVIOUS
  <2> QED BY <1>1, <1>2, <1>3, <1>4, <2>1
<1>7. ASSUME NEW i \in 1..m PROVE x[i] = y[i]
  <2>1. i + n \in 1..n + m /\ i + n \in 1..n + k /\ ~(i + n <= n)
        /\ (i + n) - n = i
    BY <1>5
  <2> QED BY <1>1, <1>2, <1>3, <1>4, <2>1
<1>8. a = b
  BY <1>1, <1>6, SeqEqual
<1>9. x = y
  BY <1>1, <1>5, <1>7, SeqEqual
<1> QED BY <1>8, <1>9

LEMMA ConcatBegins ==
    ASSUME NEW S, NEW a \in Seq(S), NEW x \in Seq(S), NEW i \in 1..Len(a)
    PROVE  (a \o x)[i] = a[i]
<1>1. Len(a) \in Nat /\ Len(x) \in Nat
  OBVIOUS
<1>2. i \in 1..Len(a) + Len(x) /\ i <= Len(a)
  BY <1>1
<1> QED BY <1>2, ConcatProperties

\* Tuples, cut in two.
LEMMA PairOfTwo ==
    ASSUME NEW S, NEW a \in S, NEW b \in S
    PROVE  <<a>> \o <<b>> = <<a, b>>
<1> DEFINE two == <<a, b>>
           both == <<a>> \o <<b>>
<1>1. /\ both \in Seq(S) /\ Len(both) = 2 /\ both[1] = a /\ both[2] = b
      /\ two \in Seq(S) /\ Len(two) = 2 /\ two[1] = a /\ two[2] = b
      /\ \A i \in 1..2 : i = 1 \/ i = 2
  OBVIOUS
<1> HIDE DEF two, both
<1>2. \A i \in 1..2 : both[i] = two[i]
  BY <1>1
<1>3. both = two
  BY <1>1, <1>2, SeqEqual
<1> QED BY <1>3 DEF two, both

LEMMA FourOfPairs ==
    ASSUME NEW S, NEW a \in S, NEW b \in S, NEW c \in S, NEW d \in S
    PROVE  <<a, b>> \o <<c, d>> = <<a, b, c, d>>
<1> DEFINE four == <<a, b, c, d>>
           all == <<a, b>> \o <<c, d>>
<1>1. /\ all \in Seq(S) /\ Len(all) = 4
      /\ all[1] = a /\ all[2] = b /\ all[3] = c /\ all[4] = d
      /\ four \in Seq(S) /\ Len(four) = 4
      /\ four[1] = a /\ four[2] = b /\ four[3] = c /\ four[4] = d
      /\ \A i \in 1..4 : i = 1 \/ i = 2 \/ i = 3 \/ i = 4
  OBVIOUS
<1> HIDE DEF four, all
<1>2. \A i \in 1..4 : all[i] = four[i]
  BY <1>1
<1>3. all = four
  BY <1>1, <1>2, SeqEqual
<1> QED BY <1>3 DEF four, all

\* Concatenation, out of the provers' sight.
Joined(a, b) == a \o b

LEMMA JoinedTyped ==
    ASSUME NEW S
    PROVE  \A a \in Seq(S) : \A b \in Seq(S) : Joined(a, b) \in Seq(S)
BY ConcatProperties DEF Joined

LEMMA JoinedRegroups ==
    ASSUME NEW S
    PROVE  \A a \in Seq(S) : \A b \in Seq(S) : \A c \in Seq(S) :
               Joined(Joined(a, b), c) = Joined(a, Joined(b, c))
<1> SUFFICES ASSUME NEW a \in Seq(S), NEW b \in Seq(S), NEW c \in Seq(S)
             PROVE  Joined(Joined(a, b), c) = Joined(a, Joined(b, c))
  OBVIOUS
<1> QED BY ConcatAssociative DEF Joined

LEMMA JoinedBegins ==
    ASSUME NEW S, NEW a \in Seq(S), NEW x \in Seq(S), NEW i \in 1..Len(a)
    PROVE  Joined(a, x)[i] = a[i]
BY ConcatBegins, Zenon DEF Joined

LEMMA JoinedCancels ==
    ASSUME NEW S, NEW a \in Seq(S), NEW b \in Seq(S), NEW x \in Seq(S),
           NEW y \in Seq(S), Len(a) = Len(b), Joined(a, x) = Joined(b, y)
    PROVE  a = b /\ x = y
<1>1. a \o x = b \o y
  BY Zenon DEF Joined
<1> QED BY <1>1, ConcatCancels

FourRegroup(a, b, c, d, r) ==
    (((a \o b) \o c) \o d) \o r = a \o (b \o (c \o (d \o r)))

LEMMA FourThenRest ==
    ASSUME NEW S
    PROVE  \A a \in Seq(S), b \in Seq(S), c \in Seq(S), d \in Seq(S), r \in Seq(S) :
               FourRegroup(a, b, c, d, r)
<1> SUFFICES ASSUME NEW a \in Seq(S), NEW b \in Seq(S), NEW c \in Seq(S),
                    NEW d \in Seq(S), NEW r \in Seq(S)
             PROVE  FourRegroup(a, b, c, d, r)
  OBVIOUS
<1>1. \A u \in Seq(S) : \A v \in Seq(S) : Joined(u, v) \in Seq(S)
  BY JoinedTyped
<1>2. \A u \in Seq(S) : \A v \in Seq(S) : \A w \in Seq(S) :
               Joined(Joined(u, v), w) = Joined(u, Joined(v, w))
  BY JoinedRegroups
<1>3. /\ Joined(a, b) \in Seq(S) /\ Joined(Joined(a, b), c) \in Seq(S)
      /\ Joined(d, r) \in Seq(S) /\ Joined(c, Joined(d, r)) \in Seq(S)
  BY <1>1
<1>4. Joined(Joined(Joined(Joined(a, b), c), d), r)
          = Joined(Joined(Joined(a, b), c), Joined(d, r))
  BY <1>2, <1>3
<1>5. Joined(Joined(Joined(a, b), c), Joined(d, r))
          = Joined(Joined(a, b), Joined(c, Joined(d, r)))
  BY <1>2, <1>3
<1>6. Joined(Joined(a, b), Joined(c, Joined(d, r)))
          = Joined(a, Joined(b, Joined(c, Joined(d, r))))
  BY <1>2, <1>3
<1> QED BY <1>4, <1>5, <1>6, Zenon DEF Joined, FourRegroup

\* Four elements and those of a sequence.
FourBefore(w, a, b, c, d, s) ==
    /\ w = <<a, b, c, d>> \o s
    /\ Len(w) = 4 + Len(s)
    /\ w[1] = a /\ w[2] = b /\ w[3] = c /\ w[4] = d
    /\ \A i \in 1..Len(s) : w[4 + i] = s[i]

LEMMA FourAnd ==
    ASSUME NEW S, NEW a \in S, NEW b \in S, NEW c \in S, NEW d \in S,
           NEW s \in Seq(S)
    PROVE  \E w \in Seq(S) : FourBefore(w, a, b, c, d, s)
<1>1. <<a, b, c, d>> \in Seq(S) /\ Len(<<a, b, c, d>>) = 4
  OBVIOUS
<1>2. PICK f \in Seq(S) :
          /\ f = <<a, b, c, d>> /\ Len(f) = 4
          /\ f[1] = a /\ f[2] = b /\ f[3] = c /\ f[4] = d
  BY <1>1
<1>3. PICK n \in Nat : n = Len(s)
  OBVIOUS
<1>4. /\ f \o s \in Seq(S) /\ Len(f \o s) = Len(f) + Len(s)
      /\ \A i \in 1..Len(f) + Len(s) :
             (f \o s)[i] = IF i <= Len(f) THEN f[i] ELSE s[i - Len(f)]
  BY ConcatProperties
<1>5. PICK w \in Seq(S) :
          /\ w = f \o s /\ Len(w) = 4 + n
          /\ \A i \in 1..4 + n : w[i] = IF i <= 4 THEN f[i] ELSE s[i - 4]
  BY <1>2, <1>3, <1>4
<1>6. w[1] = a /\ w[2] = b /\ w[3] = c /\ w[4] = d
  <2>1. 1 \in 1..4 + n /\ 2 \in 1..4 + n /\ 3 \in 1..4 + n /\ 4 \in 1..4 + n
    OBVIOUS
  <2> QED BY <1>2, <1>5, <2>1
<1>7. ASSUME NEW i \in 1..Len(s) PROVE w[4 + i] = s[i]
  <2>1. 4 + i \in 1..4 + n /\ ~(4 + i <= 4) /\ (4 + i) - 4 = i
    BY <1>3
  <2> QED BY <1>5, <2>1
<1>8. w = <<a, b, c, d>> \o s
  BY <1>2, <1>5, Zenon
<1> QED BY <1>3, <1>5, <1>6, <1>7, <1>8 DEF FourBefore

LEMMA FlattenTyped ==
    ASSUME NEW S
    PROVE  \A seqs \in Seq(Seq(S)) : FlattenSeq(seqs) \in Seq(S)
<1> SUFFICES ASSUME NEW seqs \in Seq(Seq(S)) PROVE FlattenSeq(seqs) \in Seq(S)
  OBVIOUS
<1>1. PICK run \in [0..Len(seqs) -> Seq(S)] : FlattenSeq(seqs) = run[Len(seqs)]
  BY FlattenRuns
<1> QED BY <1>1

LEMMA FlattenFirst ==
    ASSUME NEW S, NEW seqs \in Seq(Seq(S)), Len(seqs) # 0
    PROVE  \E r \in Seq(S) : FlattenSeq(seqs) = seqs[1] \o r
<1>1. PICK n \in Nat \ {0} : n = Len(seqs) /\ \A i \in 1..n : seqs[i] \in Seq(S)
  OBVIOUS
<1>2. PICK run \in [0..n -> Seq(S)] :
          /\ run[0] = << >> /\ FlattenSeq(seqs) = run[n]
          /\ \A i \in 1..n : run[i] = run[i - 1] \o seqs[i]
  BY <1>1, FlattenRuns
<1>3. 1 \in 1..n /\ seqs[1] \in Seq(S)
  BY <1>1
<1> DEFINE Begins(i) == \E r \in Seq(S) : run[i] = seqs[1] \o r
           Good == {i \in 0..n : i = 0 \/ Begins(i)}
<1>4. 0 \in Good
  OBVIOUS
<1>5. ASSUME NEW i \in 1..n, i - 1 \in Good PROVE i \in Good
  <2>1. run[i] = run[i - 1] \o seqs[i] /\ seqs[i] \in Seq(S)
    BY <1>1, <1>2
  <2>2. CASE i = 1
    <3>1. run[i] = seqs[1]
      <4>1. i - 1 = 0
        BY <2>2
      <4>2. run[i] = << >> \o seqs[1]
        BY <1>2, <2>1, <2>2, <4>1, Zenon
      <4> QED BY <1>3, <4>2, ConcatEmptySeq, Zenon
    <3>2. seqs[1] \o << >> = seqs[1] /\ << >> \in Seq(S)
      BY <1>3, ConcatEmptySeq, EmptySeq
    <3>3. Begins(i)
      BY <3>1, <3>2, Zenon
    <3> HIDE DEF Begins
    <3> QED BY <3>3
  <2>3. CASE i # 1
    <3>1. i - 1 # 0
      BY <2>3
    <3>2. Begins(i - 1)
      <4> HIDE DEF Begins
      <4> QED BY <1>5, <3>1
    <3>3. PICK r \in Seq(S) : run[i - 1] = seqs[1] \o r
      BY <3>2, Zenon
    <3>4. PICK a \in Seq(S), b \in Seq(S) : a = seqs[1] /\ b = seqs[i]
      BY <1>3, <2>1
    <3>5. r \o b \in Seq(S) /\ (a \o r) \o b = a \o (r \o b)
      <4>1. /\ Joined(r, b) \in Seq(S)
            /\ Joined(Joined(a, r), b) = Joined(a, Joined(r, b))
        BY JoinedTyped, JoinedRegroups
      <4> QED BY <4>1, Zenon DEF Joined
    <3>6. Begins(i)
      BY <2>1, <3>3, <3>4, <3>5, Zenon
    <3> HIDE DEF Begins
    <3> QED BY <3>6
  <2> QED BY <2>2, <2>3
<1>6. Good \in SUBSET (0..n)
  OBVIOUS
<1>7. n \in 0..n
  OBVIOUS
<1>8. n \in Good
  <2> HIDE DEF Good
  <2> QED BY <1>4, <1>5, <1>6, <1>7, AtEveryPosition
<1> QED BY <1>2, <1>8

\* Four sequences, and what follows them.
AfterFour(seqs, z) == IF Len(seqs) = 5 THEN Joined(seqs[5], z) ELSE z

LEMMA FlattenBegins ==
    ASSUME NEW S, NEW seqs \in Seq(Seq(S)), Len(seqs) \in 4..5, NEW z \in Seq(S)
    PROVE  /\ AfterFour(seqs, z) \in Seq(S)
           /\ Joined(FlattenSeq(seqs), z) =
                  Joined(seqs[1], Joined(seqs[2], Joined(seqs[3],
                      Joined(seqs[4], AfterFour(seqs, z)))))
<1>1. PICK n \in 4..5 : n = Len(seqs) /\ \A i \in 1..n : seqs[i] \in Seq(S)
  OBVIOUS
<1>2. PICK run \in [0..n -> Seq(S)] :
          /\ run[0] = << >> /\ FlattenSeq(seqs) = run[n]
          /\ \A i \in 1..n : run[i] = run[i - 1] \o seqs[i]
  BY <1>1, FlattenRuns
<1>3. PICK a \in Seq(S), b \in Seq(S), c \in Seq(S), d \in Seq(S) :
          a = seqs[1] /\ b = seqs[2] /\ c = seqs[3] /\ d = seqs[4]
  BY <1>1
<1>4. run[4] = ((a \o b) \o c) \o d
  <2>1. /\ 1 \in 1..n /\ 2 \in 1..n /\ 3 \in 1..n /\ 4 \in 1..n
        /\ 1 - 1 = 0 /\ 2 - 1 = 1 /\ 3 - 1 = 2 /\ 4 - 1 = 3
    OBVIOUS
  <2>2. run[1] = << >> \o a
    BY <1>2, <1>3, <2>1, Zenon
  <2>3. run[1] = a
    BY <2>2, ConcatEmptySeq, Zenon
  <2>4. run[2] = a \o b
    BY <1>2, <1>3, <2>1, <2>3, Zenon
  <2>5. run[3] = (a \o b) \o c
    BY <1>2, <1>3, <2>1, <2>4, Zenon
  <2> QED BY <1>2, <1>3, <2>1, <2>5, Zenon
<1>5. ASSUME NEW r \in Seq(S)
      PROVE  (((a \o b) \o c) \o d) \o r = a \o (b \o (c \o (d \o r)))
  <2>1. FourRegroup(a, b, c, d, r)
    BY FourThenRest
  <2> QED BY <2>1, Zenon DEF FourRegroup
<1>6. CASE n = 4
  <2>1. FlattenSeq(seqs) \o z = (((a \o b) \o c) \o d) \o z
    BY <1>2, <1>4, <1>6, Zenon
  <2>2. Len(seqs) # 5
    BY <1>1, <1>6
  <2> QED BY <1>3, <1>5, <2>1, <2>2, Zenon DEF AfterFour, Joined
<1>7. CASE n = 5
  <2>1. PICK e \in Seq(S) : e = seqs[5] /\ run[5] = run[4] \o e
    <3>1. 5 \in 1..n /\ 5 - 1 = 4
      BY <1>7
    <3> QED BY <1>1, <1>2, <3>1
  <2>2. run[4] \in Seq(S)
    BY <1>2, <1>7
  <2>3. PICK f \in Seq(S) : f = run[4]
    BY <2>2
  <2>4. e \o z \in Seq(S) /\ (f \o e) \o z = f \o (e \o z)
    <3>1. /\ Joined(e, z) \in Seq(S)
          /\ Joined(Joined(f, e), z) = Joined(f, Joined(e, z))
      BY JoinedTyped, JoinedRegroups
    <3> QED BY <3>1, Zenon DEF Joined
  <2>5. FlattenSeq(seqs) \o z = (((a \o b) \o c) \o d) \o (e \o z)
    BY <1>2, <1>4, <1>7, <2>1, <2>3, <2>4, Zenon
  <2>6. Len(seqs) = 5
    BY <1>1, <1>7
  <2> QED BY <1>3, <1>5, <2>1, <2>4, <2>5, <2>6, Zenon DEF AfterFour, Joined
<1>8. n = 4 \/ n = 5
  OBVIOUS
<1> QED BY <1>6, <1>7, <1>8, Zenon

-----------------------------------------------------------------------------
(* Views and accounting. *)

\* A piece of a sequence, and what it takes to be one.
LEMMA PieceProperties ==
    ASSUME NEW S, NEW s \in Seq(S), NEW m \in 1..Len(s) + 1,
           NEW n \in (m - 1)..Len(s)
    PROVE  /\ SubSeq(s, m, n) \in Seq(S)
           /\ Len(SubSeq(s, m, n)) = n - m + 1
           /\ \A i \in 1..(n - m + 1) : SubSeq(s, m, n)[i] = s[m + i - 1]
<1>1. Len(s) \in Nat /\ m \in Int /\ n \in Int /\ \A i \in m..n : s[i] \in S
  OBVIOUS
<1> QED BY <1>1, SubSeqProperties

LEMMA PieceIsUnique ==
    ASSUME NEW S, NEW s \in Seq(S), NEW m \in 1..Len(s) + 1,
           NEW n \in (m - 1)..Len(s), NEW part \in Seq(S),
           Len(part) = n - m + 1,
           \A i \in 1..Len(part) : part[i] = s[m + i - 1]
    PROVE  part = SubSeq(s, m, n)
<1> DEFINE piece == SubSeq(s, m, n)
<1>1. /\ piece \in Seq(S) /\ Len(piece) = n - m + 1
      /\ \A i \in 1..(n - m + 1) : piece[i] = s[m + i - 1]
  BY PieceProperties
<1> HIDE DEF piece
<1>2. Len(part) = Len(piece) /\ \A i \in 1..Len(part) : part[i] = piece[i]
  BY <1>1
<1>3. part = piece
  BY <1>1, <1>2, SeqEqual
<1> QED BY <1>3 DEF piece

\* A view and what follows it are sequences that share out the chunk.
LEMMA ViewSplits ==
    ASSUME NEW S, NEW chunk \in Seq(S), NEW size \in Nat
    PROVE  \E n \in 0..Len(chunk) :
               /\ n <= size /\ (Len(chunk) > 0 /\ size > 0 => n > 0)
               /\ ViewOf(chunk, size) = SubSeq(chunk, 1, n)
               /\ AfterView(chunk, size) = SubSeq(chunk, n + 1, Len(chunk))
<1> DEFINE n == AtMost(Len(chunk), size)
<1>1. n \in 0..Len(chunk) /\ n <= size /\ (Len(chunk) > 0 /\ size > 0 => n > 0)
  BY DEF AtMost
<1> QED BY <1>1 DEF ViewOf, AfterView

\* A tail that fits the carry is kept whole.
LEMMA TailIsKept ==
    ASSUME NEW S, NEW window \in Seq(S), NEW at \in 0..Len(window),
           NEW cap \in Nat, Len(window) - at <= cap
    PROVE  LET held == SubSeq(window, at + 1, at + Kept(window, at, cap))
           IN  held \in Seq(S) /\ Len(held) = Len(window) - at
               /\ Ends(held, window)
<1> DEFINE held == SubSeq(window, at + 1, Len(window))
<1>1. at + Kept(window, at, cap) = Len(window)
  BY DEF Kept, AtMost
<1>2. held \in Seq(S) /\ Len(held) = Len(window) - at
  BY PieceProperties
<1>3. Ends(held, window)
  <2>1. held = SubSeq(window, at + 1, Len(window))
    OBVIOUS
  <2> HIDE DEF held
  <2>2. Len(window) - Len(held) + 1 = at + 1 /\ Len(held) <= Len(window)
    BY <1>2
  <2> QED BY <2>1, <2>2 DEF Ends
<1> QED BY <1>1, <1>2, <1>3

\* The whole window ends itself, and so does the empty sequence.
LEMMA WholeAndNoneEnd ==
    ASSUME NEW S, NEW window \in Seq(S)
    PROVE  Ends(window, window) /\ Ends(<< >>, window)
<1>1. Ends(window, window)
  BY SubSeqFull DEF Ends
<1>2. Ends(<< >>, window)
  BY SubSeqEmpty DEF Ends
<1> QED BY <1>1, <1>2

\* Accounted, said of each byte.
LEMMA AccountedBytes ==
    ASSUME NEW S, NEW stream \in Seq(S), NEW carry \in Seq(S),
           NEW pos \in Nat, NEW todo \in Seq(S)
    PROVE  Accounted(stream, carry, pos, todo) <=>
               /\ Len(carry) <= pos /\ pos + Len(todo) = Len(stream)
               /\ \A i \in 1..Len(carry) : carry[i] = stream[pos - Len(carry) + i]
               /\ \A i \in 1..Len(todo) : todo[i] = stream[pos + i]
<1> DEFINE held == SubSeq(stream, pos - Len(carry) + 1, pos)
           rest == SubSeq(stream, pos + 1, Len(stream))
<1> Len(carry) \in Nat /\ Len(todo) \in Nat /\ Len(stream) \in Nat
  OBVIOUS
<1>1. CASE ~(Len(carry) <= pos /\ pos + Len(todo) = Len(stream))
  BY <1>1 DEF Accounted
<1>2. CASE Len(carry) <= pos /\ pos + Len(todo) = Len(stream)
  <2>1. /\ pos - Len(carry) + 1 \in 1..Len(stream) + 1
        /\ pos \in (pos - Len(carry))..Len(stream)
        /\ pos + 1 \in 1..Len(stream) + 1 /\ pos <= Len(stream)
        /\ pos - (pos - Len(carry) + 1) + 1 = Len(carry)
        /\ Len(stream) \in (pos + 1 - 1)..Len(stream)
        /\ Len(stream) - (pos + 1) + 1 = Len(todo)
    BY <1>2
  <2>2. carry = held <=>
            \A i \in 1..Len(carry) : carry[i] = stream[pos - Len(carry) + i]
    <3>1. \A i \in 1..Len(carry) : held[i] = stream[pos - Len(carry) + i]
      <4>1. \A i \in 1..Len(carry) :
                held[i] = stream[(pos - Len(carry) + 1) + i - 1]
        BY <2>1, PieceProperties
      <4> HIDE DEF held
      <4> QED BY <4>1
    <3>2. ASSUME \A i \in 1..Len(carry) : carry[i] = stream[pos - Len(carry) + i]
          PROVE  carry = held
      <4>1. \A i \in 1..Len(carry) :
                carry[i] = stream[(pos - Len(carry) + 1) + i - 1]
        BY <3>2
      <4> QED BY <2>1, <4>1, PieceIsUnique
    <3> HIDE DEF held
    <3> QED BY <3>1, <3>2
  <2>3. todo = rest <=> \A i \in 1..Len(todo) : todo[i] = stream[pos + i]
    <3>1. \A i \in 1..Len(todo) : rest[i] = stream[pos + i]
      <4> DEFINE m == pos + 1
      <4>1. /\ m \in 1..Len(stream) + 1 /\ Len(stream) \in (m - 1)..Len(stream)
            /\ Len(stream) - m + 1 = Len(todo)
            /\ \A i \in 1..Len(todo) : m + i - 1 = pos + i
        BY <2>1
      <4> HIDE DEF m
      <4>2. \A i \in 1..(Len(stream) - m + 1) :
                SubSeq(stream, m, Len(stream))[i] = stream[m + i - 1]
        BY <4>1, PieceProperties
      <4>3. \A i \in 1..Len(todo) :
                SubSeq(stream, m, Len(stream))[i] = stream[pos + i]
        BY <4>1, <4>2
      <4> QED BY <4>3 DEF m
    <3>2. ASSUME \A i \in 1..Len(todo) : todo[i] = stream[pos + i]
          PROVE  todo = rest
      <4> \A i \in 1..Len(todo) : (pos + 1) + i - 1 = pos + i
        OBVIOUS
      <4>1. \A i \in 1..Len(todo) : todo[i] = stream[(pos + 1) + i - 1]
        BY <3>2
      <4> QED BY <2>1, <4>1, PieceIsUnique
    <3> HIDE DEF rest
    <3> QED BY <3>1, <3>2
  <2> QED BY <1>2, <2>2, <2>3 DEF Accounted
<1> QED BY <1>1, <1>2

\* What is appended to the second of two sequences is appended to both.
LEMMA AppendToBoth ==
    ASSUME NEW S, NEW us \in Seq(S), NEW vs \in Seq(S), NEW unit \in S
    PROVE  us \o Append(vs, unit) = Append(us \o vs, unit)
<1> DEFINE more == Append(vs, unit)
           both == us \o vs
           left == us \o more
           right == Append(both, unit)
<1>1. /\ more \in Seq(S) /\ Len(more) = Len(vs) + 1
      /\ \A i \in 1..Len(vs) : more[i] = vs[i]
      /\ more[Len(vs) + 1] = unit
  BY AppendProperties
<1>2. /\ both \in Seq(S) /\ Len(both) = Len(us) + Len(vs)
      /\ \A i \in 1..Len(us) + Len(vs) :
             both[i] = IF i <= Len(us) THEN us[i] ELSE vs[i - Len(us)]
  BY ConcatProperties
<1> HIDE DEF more, both
<1>3. /\ left \in Seq(S) /\ Len(left) = Len(us) + Len(more)
      /\ \A i \in 1..Len(us) + Len(more) :
             left[i] = IF i <= Len(us) THEN us[i] ELSE more[i - Len(us)]
  BY <1>1, ConcatProperties
<1>4. /\ right \in Seq(S) /\ Len(right) = Len(both) + 1
      /\ \A i \in 1..Len(both) : right[i] = both[i]
      /\ right[Len(both) + 1] = unit
  BY <1>2, AppendProperties
<1> HIDE DEF left, right
<1>5. PICK d \in Nat, r \in Nat : d = Len(us) /\ r = Len(vs)
  OBVIOUS
<1>6. Len(left) = d + (r + 1) /\ Len(right) = (d + r) + 1
  BY <1>1, <1>2, <1>3, <1>4, <1>5
<1>7. ASSUME NEW i \in 1..Len(left) PROVE left[i] = right[i]
  <2>1. i \in 1..d + (r + 1)
    BY <1>6
  <2>2. CASE i <= d
    <3>1. i \in 1..d + r /\ left[i] = us[i]
      BY <1>1, <1>3, <1>5, <2>1, <2>2
    <3>2. right[i] = both[i] /\ both[i] = us[i]
      BY <1>2, <1>4, <1>5, <2>2, <3>1
    <3> QED BY <3>1, <3>2
  <2>3. CASE ~(i <= d) /\ i <= d + r
    <3>1. i - d \in 1..r /\ i \in 1..d + r
      BY <2>1, <2>3
    <3>2. left[i] = more[i - d] /\ more[i - d] = vs[i - d]
      BY <1>1, <1>3, <1>5, <2>1, <2>3, <3>1
    <3>3. right[i] = both[i] /\ both[i] = vs[i - d]
      BY <1>2, <1>4, <1>5, <2>3, <3>1
    <3> QED BY <3>2, <3>3
  <2>4. CASE ~(i <= d + r)
    <3>1. i = (d + r) + 1 /\ i - d = r + 1 /\ ~(i <= d)
      BY <2>1, <2>4
    <3>2. left[i] = unit
      BY <1>1, <1>3, <1>5, <2>1, <3>1
    <3>3. right[i] = unit
      BY <1>2, <1>4, <1>5, <3>1
    <3> QED BY <3>2, <3>3
  <2> QED BY <2>1, <2>2, <2>3, <2>4
<1>8. Len(left) = Len(right)
  BY <1>6
<1>9. left = right
  BY <1>3, <1>4, <1>7, <1>8, SeqEqual
<1> QED BY <1>9 DEF left, right, more, both

\* The last unit cut is the one just pushed.
LEMMA LastCut ==
    ASSUME NEW S, NEW us \in Seq(S), NEW vs \in Seq(S), NEW unit \in S
    PROVE  /\ CutEnd(us \o Append(vs, unit)) = unit.byte_end
           /\ us \o Append(vs, unit) # << >>
<1> DEFINE more == Append(vs, unit)
           all == us \o more
           n == Len(us) + Len(vs) + 1
<1>1. /\ more \in Seq(S) /\ Len(more) = Len(vs) + 1
      /\ more[Len(vs) + 1] = unit /\ Len(us) \in Nat /\ Len(vs) \in Nat
  BY AppendProperties
<1> HIDE DEF more
<1>2. /\ all \in Seq(S) /\ Len(all) = n
      /\ \A i \in 1..n : all[i] = IF i <= Len(us) THEN us[i]
                                                 ELSE more[i - Len(us)]
  <2>1. Len(us) + Len(more) = n
    BY <1>1
  <2> QED BY <1>1, <2>1, ConcatProperties
<1> HIDE DEF all
<1>3. n \in 1..n /\ ~(n <= Len(us)) /\ n - Len(us) = Len(vs) + 1
  BY <1>1
<1>4. all[Len(all)] = unit /\ all # << >>
  BY <1>1, <1>2, <1>3
<1>5. CutEnd(all) = unit.byte_end
  BY <1>4 DEF CutEnd
<1> QED BY <1>4, <1>5 DEF all, more

\* A unit starts where the carry did, when the carry was in the stream.
LEMMA UnitStartsAtCarry ==
    ASSUME NEW pos \in Nat, NEW consumed \in Nat, NEW held \in Nat, held <= pos
    PROVE  UnitStart(pos, consumed, held) = pos - held
BY DEF UnitStart, SaturatingSub

\* A chunk handed over is the unread rest of the longer stream.
LEMMA FeedAccounts ==
    ASSUME NEW S, NEW stream \in Seq(S), NEW carry \in Seq(S), NEW pos \in Nat,
           NEW chunk \in Seq(S), Accounted(stream, carry, pos, << >>)
    PROVE  Accounted(stream \o chunk, carry, pos, chunk)
<1> DEFINE whole == stream \o chunk
<1> Len(carry) \in Nat /\ Len(chunk) \in Nat /\ Len(stream) \in Nat
  OBVIOUS
<1>1. /\ whole \in Seq(S) /\ Len(whole) = Len(stream) + Len(chunk)
      /\ \A i \in 1..Len(stream) + Len(chunk) :
             whole[i] = IF i <= Len(stream) THEN stream[i]
                                            ELSE chunk[i - Len(stream)]
  BY ConcatProperties
<1>2. /\ Len(carry) <= pos /\ pos = Len(stream)
      /\ \A i \in 1..Len(carry) : carry[i] = stream[pos - Len(carry) + i]
  <2> DEFINE m == pos - Len(carry) + 1
  <2>1. /\ Len(carry) <= pos /\ pos = Len(stream)
        /\ carry = SubSeq(stream, m, pos)
    BY DEF Accounted
  <2>2. /\ m \in 1..Len(stream) + 1 /\ pos \in (m - 1)..Len(stream)
        /\ pos - m + 1 = Len(carry)
        /\ \A i \in 1..Len(carry) : m + i - 1 = pos - Len(carry) + i
    BY <2>1
  <2> HIDE DEF m
  <2>3. \A i \in 1..(pos - m + 1) : SubSeq(stream, m, pos)[i] = stream[m + i - 1]
    BY <2>2, PieceProperties
  <2>4. \A i \in 1..Len(carry) : carry[i] = stream[m + i - 1]
    BY <2>1, <2>2, <2>3
  <2> QED BY <2>1, <2>2, <2>4
<1> HIDE DEF whole
<1>3. ASSUME NEW i \in 1..Len(carry)
      PROVE  carry[i] = whole[pos - Len(carry) + i]
  <2>1. /\ pos - Len(carry) + i \in 1..Len(stream) + Len(chunk)
        /\ pos - Len(carry) + i <= Len(stream)
    BY <1>2
  <2> QED BY <1>1, <1>2, <2>1
<1>4. ASSUME NEW i \in 1..Len(chunk) PROVE chunk[i] = whole[pos + i]
  <2>1. /\ pos + i \in 1..Len(stream) + Len(chunk) /\ ~(pos + i <= Len(stream))
        /\ pos + i - Len(stream) = i
    BY <1>2
  <2> QED BY <1>1, <2>1
<1>5. Accounted(whole, carry, pos, chunk)
  <2>1. Len(carry) <= pos /\ pos + Len(chunk) = Len(whole)
    BY <1>1, <1>2
  <2>2. whole \in Seq(S)
    BY <1>1
  <2> QED BY <1>3, <1>4, <2>1, <2>2, AccountedBytes
<1> QED BY <1>5 DEF whole

\* The window of the next view is in the stream, from where the carry begins.
LEMMA WindowBytes ==
    ASSUME NEW S, NEW stream \in Seq(S), NEW carry \in Seq(S), NEW pos \in Nat,
           NEW todo \in Seq(S), NEW n \in 0..Len(todo),
           Accounted(stream, carry, pos, todo)
    PROVE  LET window == carry \o SubSeq(todo, 1, n)
           IN  /\ window \in Seq(S) /\ Len(window) = Len(carry) + n
               /\ \A i \in 1..Len(carry) + n :
                      window[i] = stream[pos - Len(carry) + i]
<1> DEFINE view == SubSeq(todo, 1, n)
           window == carry \o view
<1> /\ Len(carry) \in Nat /\ Len(todo) \in Nat /\ Len(stream) \in Nat
    /\ n \in Nat
  OBVIOUS
<1>1. /\ Len(carry) <= pos /\ pos + Len(todo) = Len(stream)
      /\ \A i \in 1..Len(carry) : carry[i] = stream[pos - Len(carry) + i]
      /\ \A i \in 1..Len(todo) : todo[i] = stream[pos + i]
  BY AccountedBytes
<1>2. /\ view \in Seq(S) /\ Len(view) = n
      /\ \A i \in 1..n : view[i] = todo[i]
  <2>1. \A i \in 1..(n - 1 + 1) : view[i] = todo[1 + i - 1]
    BY PieceProperties
  <2>2. view \in Seq(S) /\ Len(view) = n - 1 + 1
    BY PieceProperties
  <2> HIDE DEF view
  <2> QED BY <2>1, <2>2
<1>3. /\ window \in Seq(S) /\ Len(window) = Len(carry) + n
      /\ \A i \in 1..Len(carry) + n :
             window[i] = IF i <= Len(carry) THEN carry[i] ELSE view[i - Len(carry)]
  <2> HIDE DEF view
  <2> QED BY <1>2, ConcatProperties
<1>4. ASSUME NEW i \in 1..Len(carry) + n
      PROVE  window[i] = stream[pos - Len(carry) + i]
  <2> HIDE DEF view, window
  <2>1. CASE i <= Len(carry)
    <3>1. i \in 1..Len(carry) /\ window[i] = carry[i]
      BY <1>3, <2>1
    <3> QED BY <1>1, <3>1
  <2>2. CASE ~(i <= Len(carry))
    <3>1. i - Len(carry) \in 1..n /\ i - Len(carry) \in 1..Len(todo)
      BY <2>2
    <3>2. window[i] = todo[i - Len(carry)]
      BY <1>2, <1>3, <2>2, <3>1
    <3>3. pos + (i - Len(carry)) = pos - Len(carry) + i
      OBVIOUS
    <3> QED BY <1>1, <3>1, <3>2, <3>3
  <2> QED BY <2>1, <2>2
<1> HIDE DEF view, window
<1> QED BY <1>3, <1>4 DEF view, window

\* A view moves on when what is held ends the window it was staged in.
LEMMA ViewAccounts ==
    ASSUME NEW S, NEW stream \in Seq(S), NEW carry \in Seq(S), NEW pos \in Nat,
           NEW todo \in Seq(S), NEW n \in 0..Len(todo), NEW held \in Seq(S),
           Accounted(stream, carry, pos, todo),
           Ends(held, carry \o SubSeq(todo, 1, n))
    PROVE  Accounted(stream, held, pos + n, SubSeq(todo, n + 1, Len(todo)))
<1> DEFINE view == SubSeq(todo, 1, n)
           rest == SubSeq(todo, n + 1, Len(todo))
           window == carry \o view
<1> /\ Len(carry) \in Nat /\ Len(todo) \in Nat /\ Len(stream) \in Nat
    /\ Len(held) \in Nat /\ n \in Nat
  OBVIOUS
<1>1. /\ Len(carry) <= pos /\ pos + Len(todo) = Len(stream)
      /\ \A i \in 1..Len(carry) : carry[i] = stream[pos - Len(carry) + i]
      /\ \A i \in 1..Len(todo) : todo[i] = stream[pos + i]
  BY AccountedBytes
<1>3. /\ rest \in Seq(S) /\ Len(rest) = Len(todo) - n
      /\ \A i \in 1..Len(todo) - n : rest[i] = todo[n + i]
  <2>1. n + 1 \in 1..Len(todo) + 1 /\ Len(todo) \in (n + 1 - 1)..Len(todo)
    OBVIOUS
  <2>2. \A i \in 1..(Len(todo) - (n + 1) + 1) : rest[i] = todo[(n + 1) + i - 1]
    BY <2>1, PieceProperties
  <2>3. rest \in Seq(S) /\ Len(rest) = Len(todo) - (n + 1) + 1
    BY <2>1, PieceProperties
  <2> HIDE DEF rest
  <2> QED BY <2>2, <2>3
<1> HIDE DEF rest
<1>4. window \in Seq(S) /\ Len(window) = Len(carry) + n
  BY WindowBytes
<1>5. ASSUME NEW i \in 1..Len(carry) + n
      PROVE  window[i] = stream[pos - Len(carry) + i]
  BY WindowBytes
<1>6. /\ Len(held) <= Len(window)
      /\ \A i \in 1..Len(held) : held[i] = window[Len(window) - Len(held) + i]
  <2> DEFINE m == Len(window) - Len(held) + 1
  <2>1. Len(held) <= Len(window) /\ held = SubSeq(window, m, Len(window))
    BY DEF Ends
  <2> HIDE DEF window
  <2>2. /\ m \in 1..Len(window) + 1 /\ Len(window) \in (m - 1)..Len(window)
        /\ Len(window) - m + 1 = Len(held)
    BY <1>4, <2>1
  <2>3. \A i \in 1..Len(held) : m + i - 1 = Len(window) - Len(held) + i
    BY <1>4
  <2> HIDE DEF m
  <2>4. \A i \in 1..(Len(window) - m + 1) :
            SubSeq(window, m, Len(window))[i] = window[m + i - 1]
    BY <1>4, <2>2, PieceProperties
  <2>5. \A i \in 1..Len(held) : held[i] = window[m + i - 1]
    BY <2>1, <2>2, <2>4
  <2> QED BY <2>1, <2>3, <2>5
<1> HIDE DEF window, view
<1>7. ASSUME NEW i \in 1..Len(held)
      PROVE  held[i] = stream[(pos + n) - Len(held) + i]
  <2>1. /\ Len(window) - Len(held) + i \in 1..Len(carry) + n
        /\ (pos - Len(carry)) + (Len(window) - Len(held) + i)
              = (pos + n) - Len(held) + i
    BY <1>4, <1>6
  <2> QED BY <1>5, <1>6, <2>1
<1>8. ASSUME NEW i \in 1..Len(rest) PROVE rest[i] = stream[(pos + n) + i]
  <2>1. n + i \in 1..Len(todo) /\ pos + (n + i) = (pos + n) + i
    BY <1>3
  <2> QED BY <1>1, <1>3, <2>1
<1>9. Len(held) <= pos + n /\ (pos + n) + Len(rest) = Len(stream)
  <2>1. Len(held) <= Len(carry) + n
    BY <1>4, <1>6
  <2>2. Len(rest) = Len(todo) - n
    BY <1>3
  <2>3. Len(carry) <= pos /\ pos + Len(todo) = Len(stream)
    BY <1>1
  <2>4. Len(held) <= pos + n
    BY <2>1, <2>3
  <2>5. (pos + n) + Len(rest) = Len(stream)
    BY <2>2, <2>3, SMTT(20)
  <2> QED BY <2>4, <2>5
<1>10. Accounted(stream, held, pos + n, rest)
  <2>1. pos + n \in Nat /\ rest \in Seq(S)
    BY <1>3
  <2> QED BY <1>7, <1>8, <1>9, <2>1, AccountedBytes
<1> QED BY <1>10 DEF rest

\* So does a drain of the carry, which stages no view.
LEMMA DrainAccounts ==
    ASSUME NEW S, NEW stream \in Seq(S), NEW carry \in Seq(S), NEW pos \in Nat,
           NEW todo \in Seq(S), NEW held \in Seq(S),
           Accounted(stream, carry, pos, todo), Ends(held, carry)
    PROVE  Accounted(stream, held, pos, todo)
<1> DEFINE none == SubSeq(todo, 1, 0)
           all == SubSeq(todo, 0 + 1, Len(todo))
<1>1. none = << >> /\ all = todo
  BY SubSeqEmpty, SubSeqFull
<1>2. carry \o << >> = carry
  BY ConcatEmptySeq
<1>3. Ends(held, carry \o none)
  BY <1>1, <1>2
<1>4. Accounted(stream, held, pos + 0, all)
  <2>1. 0 \in 0..Len(todo)
    OBVIOUS
  <2> QED BY <1>3, <2>1, ViewAccounts
<1>5. pos + 0 = pos
  OBVIOUS
<1> HIDE DEF none, all
<1> QED BY <1>1, <1>4, <1>5
=============================================================================
