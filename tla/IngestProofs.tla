---------------------------- MODULE IngestProofs ----------------------------
(***************************************************************************)
(* What the consumer holds is well formed, whatever the inputs; the two    *)
(* equalities of observations, the host's by semantic key and that of MNCS *)
(* by fields, agree on it, and with what the inputs said; and a sentence   *)
(* is accepted, or refused for the first of its faults, as the grammar of  *)
(* docs/GRAMMAR.md has it.                                                 *)
(***************************************************************************)
EXTENDS IngestProperties, SharedProofs, FiniteSetTheorems

-----------------------------------------------------------------------------
(* Escaped labels. *)

\* What the code writes of its own is a piece.
LEMMA WrittenPiece ==
    ASSUME NEW w \in Written
    PROVE  Lower(w) \in Piece /\ Mark(w) \in Piece
<1>1. w \in STRING /\ "lower" \in STRING /\ "mark" \in STRING
  BY WrittenAssumption DEF Written
<1>2. << >> \in Seq(0..9)
  BY EmptySeq
<1> QED BY <1>1, <1>2 DEF Piece, Lower, Mark

Visible == Piece \ {Space}

\* Neither a mark nor what an escape writes for it is a space.
LEMMA EscapedPiece ==
    ASSUME NEW p \in Piece
    PROVE  /\ EscapePiece(p) \in Seq(Visible)
           /\ Len(EscapePiece(p)) \in 1..2
           /\ EscapePiece(p)[1] = Backslash <=> Len(EscapePiece(p)) = 2
<1>1. /\ Backslash \in Visible /\ Lower("n") \in Visible /\ Lower("s") \in Visible
      /\ Newline # Backslash /\ Space # Backslash /\ Newline # Space
  <2>1. /\ Mark("bs") \in Piece /\ Lower("n") \in Piece /\ Lower("s") \in Piece
    <3>1. "bs" \in Written /\ "n" \in Written /\ "s" \in Written
      BY DEF Written
    <3> QED BY <3>1, WrittenPiece
  <2>2. Backslash \in Piece
    BY <2>1 DEF Backslash
  <2>3. /\ Backslash # Space /\ Lower("n") # Space /\ Lower("s") # Space
        /\ Newline # Backslash /\ Newline # Space
    BY DEF Backslash, Newline, Space, Lower, Mark
  <2> QED BY <2>1, <2>2, <2>3 DEF Visible
<1>2. CASE p = Backslash
  <2>1. EscapePiece(p) = <<Backslash, Backslash>>
    BY <1>1, <1>2 DEF EscapePiece
  <2> QED BY <1>1, <2>1
<1>3. CASE p = Newline
  <2>1. EscapePiece(p) = <<Backslash, Lower("n")>>
    BY <1>1, <1>3 DEF EscapePiece
  <2> QED BY <1>1, <2>1
<1>4. CASE p = Space
  <2>1. EscapePiece(p) = <<Backslash, Lower("s")>>
    BY <1>1, <1>4 DEF EscapePiece
  <2> QED BY <1>1, <2>1
<1>5. CASE p \notin {Backslash, Newline, Space}
  <2>1. EscapePiece(p) = <<p>>
    BY <1>5 DEF EscapePiece
  <2>2. p \in Visible
    BY <1>5 DEF Visible
  <2> QED BY <1>5, <2>1, <2>2
<1> QED BY <1>2, <1>3, <1>4, <1>5

\* What is written for a piece names it.
LEMMA EscapedPieceIsItsOwn ==
    ASSUME NEW p \in Piece, NEW q \in Piece,
           \A j \in 1..Len(EscapePiece(p)) :
               j <= Len(EscapePiece(q)) => EscapePiece(p)[j] = EscapePiece(q)[j]
    PROVE  p = q
<1>1. /\ Lower("n") # Lower("s") /\ Backslash # Lower("n")
      /\ Backslash # Lower("s")
      /\ Newline # Backslash /\ Space # Backslash /\ Newline # Space
  BY DEF Backslash, Newline, Space, Lower, Mark
<1>2. /\ Len(EscapePiece(p)) \in 1..2 /\ Len(EscapePiece(q)) \in 1..2
      /\ EscapePiece(p)[1] = Backslash <=> Len(EscapePiece(p)) = 2
      /\ EscapePiece(q)[1] = Backslash <=> Len(EscapePiece(q)) = 2
  BY EscapedPiece
<1>3. EscapePiece(p)[1] = EscapePiece(q)[1]
  BY <1>2
<1>4. Len(EscapePiece(p)) = Len(EscapePiece(q))
  BY <1>2, <1>3
<1>5. Len(EscapePiece(p)) = 2 => EscapePiece(p)[2] = EscapePiece(q)[2]
  BY <1>4
<1> DEFINE Code(r) == /\ r = Backslash => EscapePiece(r) = <<Backslash, Backslash>>
                      /\ r = Newline => EscapePiece(r) = <<Backslash, Lower("n")>>
                      /\ r = Space => EscapePiece(r) = <<Backslash, Lower("s")>>
                      /\ r \notin {Backslash, Newline, Space} => EscapePiece(r) = <<r>>
<1>6. Code(p) /\ Code(q)
  BY <1>1 DEF EscapePiece
<1>7. CASE Len(EscapePiece(p)) = 1
  <2>1. p \notin {Backslash, Newline, Space} /\ q \notin {Backslash, Newline, Space}
    BY <1>4, <1>6, <1>7
  <2> QED BY <1>3, <1>6, <2>1
<1>8. CASE Len(EscapePiece(p)) = 2
  <2>1. p \in {Backslash, Newline, Space} /\ q \in {Backslash, Newline, Space}
    BY <1>4, <1>6, <1>8
  <2> QED BY <1>1, <1>5, <1>6, <1>8, <2>1
<1> QED BY <1>2, <1>7, <1>8

\* The pieces of a label, and where they stand once escaped.
EscapedAt(at, label) ==
    /\ at \in [0..Len(label) -> Nat]
    /\ at[0] = 0 /\ at[Len(label)] = Len(Escape(label))
    /\ \A i \in 1..Len(label) :
           /\ at[i] = at[i - 1] + Len(EscapePiece(label[i]))
           /\ \A j \in 1..Len(EscapePiece(label[i])) :
                  Escape(label)[at[i - 1] + j] = EscapePiece(label[i])[j]

\* An escaped label holds no space, and is as long as its pieces' escapes.
LEMMA EscapedLabel ==
    ASSUME NEW label \in Seq(Piece)
    PROVE  /\ Escape(label) \in Seq(Visible)
           /\ \E at : EscapedAt(at, label)
<1> DEFINE seqs == [i \in 1..Len(label) |-> EscapePiece(label[i])]
<1>1. PICK n \in Nat : n = Len(label) /\ \A i \in 1..n : label[i] \in Piece
  OBVIOUS
<1>2. seqs \in Seq(Seq(Visible)) /\ Len(seqs) = n
  <2>1. \A i \in 1..n : EscapePiece(label[i]) \in Seq(Visible)
    BY <1>1, EscapedPiece
  <2>2. seqs \in [1..n -> Seq(Visible)]
    BY <1>1, <2>1
  <2> QED BY <1>1, <2>2, IsASeq
<1>3. \A i \in 1..n : seqs[i] = EscapePiece(label[i])
  BY <1>1
<1>4. Escape(label) = FlattenSeq(seqs)
  BY DEF Escape
<1> HIDE DEF seqs
<1>5. PICK run \in [0..Len(seqs) -> Seq(Visible)] :
          FlattenSeq(seqs) = run[Len(seqs)]
  BY <1>2, FlattenRuns
<1>6. FlattenSeq(seqs) \in Seq(Visible)
  BY <1>2, <1>5
<1>7. PICK at : PlacesOf(at, seqs, FlattenSeq(seqs))
  BY <1>2, FlattenPlaces
<1>8. EscapedAt(at, label)
  BY <1>1, <1>2, <1>3, <1>4, <1>7 DEF PlacesOf, EscapedAt
<1> QED BY <1>4, <1>6, <1>8

LEMMA PlacesGrow ==
    ASSUME NEW n \in Nat, NEW at \in [0..n -> Nat],
           \A i \in 1..n : at[i - 1] <= at[i]
    PROVE  \A i \in 0..n : at[i] <= at[n]
<1> DEFINE Good == {i \in 0..n : \A k \in 0..i : at[k] <= at[i]}
<1>1. 0 \in Good
  OBVIOUS
<1>2. ASSUME NEW i \in 1..n, i - 1 \in Good PROVE i \in Good
  <2> SUFFICES ASSUME NEW k \in 0..i PROVE at[k] <= at[i]
    OBVIOUS
  <2>1. i - 1 \in 0..n /\ i \in 0..n /\ k \in 0..n
    OBVIOUS
  <2>2. at[i - 1] \in Nat /\ at[i] \in Nat /\ at[k] \in Nat /\ at[i - 1] <= at[i]
    BY <2>1
  <2>3. CASE k = i
    BY <2>2, <2>3
  <2>4. CASE k # i
    <3>1. k \in 0..(i - 1)
      BY <2>4
    <3>2. at[k] <= at[i - 1]
      BY <1>2, <3>1
    <3> HIDE DEF Good
    <3> QED BY <2>2, <3>2
  <2> QED BY <2>3, <2>4
<1>3. Good \in SUBSET (0..n)
  OBVIOUS
<1>4. n \in 0..n
  OBVIOUS
<1>5. n \in Good
  <2> HIDE DEF Good
  <2> QED BY <1>1, <1>2, <1>3, <1>4, AtEveryPosition
<1> QED BY <1>5

\* Where a label's pieces stand does not depend on what follows them.
LEMMA LabelsBeginAlike ==
    ASSUME NEW s \in Seq(Piece), NEW t \in Seq(Piece), Escape(s) = Escape(t),
           NEW at, NEW bt, EscapedAt(at, s), EscapedAt(bt, t),
           NEW m \in Nat, m <= Len(s), m <= Len(t)
    PROVE  at[m] = bt[m] /\ \A k \in 1..m : s[k] = t[k]
<1> DEFINE Good == {i \in 0..m : at[i] = bt[i] /\ \A k \in 1..i : s[k] = t[k]}
<1>1. 0 \in Good
  BY DEF EscapedAt
<1>2. ASSUME NEW i \in 1..m, i - 1 \in Good PROVE i \in Good
  <2>1. i \in 1..Len(s) /\ i \in 1..Len(t) /\ i - 1 \in 0..m
    OBVIOUS
  <2>2. at[i - 1] = bt[i - 1] /\ \A k \in 1..(i - 1) : s[k] = t[k]
    BY <1>2
  <2> HIDE DEF Good
  <2>3. s[i] \in Piece /\ t[i] \in Piece
    BY <2>1
  <2>4. ASSUME NEW j \in 1..Len(EscapePiece(s[i])), j <= Len(EscapePiece(t[i]))
        PROVE  EscapePiece(s[i])[j] = EscapePiece(t[i])[j]
    <3>1. Len(EscapePiece(s[i])) \in Nat /\ Len(EscapePiece(t[i])) \in Nat
      BY <2>3, EscapedPiece
    <3>2. j \in 1..Len(EscapePiece(t[i]))
      BY <2>4, <3>1
    <3>3. Escape(s)[at[i - 1] + j] = EscapePiece(s[i])[j]
      BY <2>1 DEF EscapedAt
    <3>4. Escape(t)[bt[i - 1] + j] = EscapePiece(t[i])[j]
      BY <2>1, <3>2 DEF EscapedAt
    <3> QED BY <2>2, <3>3, <3>4
  <2>5. s[i] = t[i]
    BY <2>3, <2>4, EscapedPieceIsItsOwn
  <2>6. at[i] = bt[i]
    <3>1. at[i] = at[i - 1] + Len(EscapePiece(s[i]))
      BY <2>1 DEF EscapedAt
    <3>2. bt[i] = bt[i - 1] + Len(EscapePiece(t[i]))
      BY <2>1 DEF EscapedAt
    <3> QED BY <2>2, <2>5, <3>1, <3>2
  <2>7. \A k \in 1..i : k = i \/ k \in 1..(i - 1)
    OBVIOUS
  <2> QED BY <2>2, <2>5, <2>6, <2>7 DEF Good
<1>3. Good \in SUBSET (0..m)
  OBVIOUS
<1>4. m \in 0..m
  OBVIOUS
<1>5. m \in Good
  <2> HIDE DEF Good
  <2> QED BY <1>1, <1>2, <1>3, <1>4, AtEveryPosition
<1> QED BY <1>5

LEMMA ShorterLabel ==
    ASSUME NEW s \in Seq(Piece), NEW t \in Seq(Piece), Escape(s) = Escape(t)
    PROVE  ~(Len(s) < Len(t))
<1> SUFFICES ASSUME Len(s) < Len(t) PROVE FALSE
  OBVIOUS
<1>1. PICK n \in Nat, m \in Nat : n = Len(s) /\ m = Len(t) /\ n < m
  OBVIOUS
<1>2. PICK at : EscapedAt(at, s)
  BY EscapedLabel
<1>3. PICK bt : EscapedAt(bt, t)
  BY EscapedLabel
<1>4. at[n] = bt[n]
  BY <1>1, <1>2, <1>3, LabelsBeginAlike
<1>5. bt[m] = at[n]
  BY <1>1, <1>2, <1>3 DEF EscapedAt
<1>6. ASSUME NEW i \in 1..m
      PROVE  bt[i - 1] \in Nat /\ bt[i] \in Nat /\ bt[i - 1] < bt[i]
  <2>1. t[i] \in Piece /\ i - 1 \in 0..m /\ i \in 0..m
    BY <1>1
  <2>2. Len(EscapePiece(t[i])) \in 1..2
    BY <2>1, EscapedPiece
  <2>3. bt[i] = bt[i - 1] + Len(EscapePiece(t[i])) /\ bt[i - 1] \in Nat
    BY <1>1, <1>3, <2>1 DEF EscapedAt
  <2>4. PICK l \in 1..2, b \in Nat : l = Len(EscapePiece(t[i])) /\ b = bt[i - 1]
    BY <2>2, <2>3
  <2>5. bt[i] = b + l
    BY <2>3, <2>4
  <2>6. b + l \in Nat /\ b < b + l
    OBVIOUS
  <2> QED BY <2>4, <2>5, <2>6
<1>7. bt[n + 1] <= bt[m]
  <2>1. bt \in [0..m -> Nat] /\ n + 1 \in 0..m
    BY <1>1, <1>3 DEF EscapedAt
  <2>2. \A i \in 1..m : bt[i - 1] <= bt[i]
    BY <1>6
  <2> QED BY <2>1, <2>2, PlacesGrow
<1>8. n + 1 \in 1..m /\ (n + 1) - 1 = n /\ m \in 1..m
  BY <1>1
<1>9. bt[n] \in Nat /\ bt[n + 1] \in Nat /\ bt[m] \in Nat /\ bt[n] < bt[n + 1]
  BY <1>6, <1>8
<1> QED BY <1>4, <1>5, <1>7, <1>9

\* Labels are written apart.
LEMMA LabelsApart ==
    ASSUME NEW s \in Seq(Piece), NEW t \in Seq(Piece), Escape(s) = Escape(t)
    PROVE  s = t
<1>1. Len(s) = Len(t) /\ Len(s) \in Nat
  BY ShorterLabel
<1>2. PICK n \in Nat : n = Len(s) /\ n <= Len(s) /\ n <= Len(t)
  BY <1>1
<1>3. PICK at : EscapedAt(at, s)
  BY EscapedLabel
<1>4. PICK bt : EscapedAt(bt, t)
  BY EscapedLabel
<1>5. \A k \in 1..n : s[k] = t[k]
  BY <1>2, <1>3, <1>4, LabelsBeginAlike
<1> QED BY <1>1, <1>2, <1>5, SeqEqual

LabelThen(label, x) == Escape(label) \o (<<Space>> \o x)

\* A label ends at the first space.
LEMMA LabelPeels ==
    ASSUME NEW s \in Seq(Piece), NEW t \in Seq(Piece),
           NEW x \in Seq(Piece), NEW y \in Seq(Piece),
           LabelThen(s, x) = LabelThen(t, y)
    PROVE  s = t /\ x = y
<1>1. Space \in Piece
  <2>1. " " \in Written
    BY DEF Written
  <2> QED BY <2>1, WrittenPiece DEF Space
<1> DEFINE Spaced(z) == <<Space>> \o z
<1>2. ASSUME NEW z \in Seq(Piece)
      PROVE  Spaced(z) \in Seq(Piece) /\ Len(Spaced(z)) \in Nat \ {0}
             /\ Spaced(z)[1] = Space
  <2>1. <<Space>> \in Seq(Piece) /\ Len(<<Space>>) = 1 /\ <<Space>>[1] = Space
    BY <1>1
  <2>2. PICK u \in Seq(Piece) : u = <<Space>>
    BY <2>1
  <2>3. /\ u \o z \in Seq(Piece) /\ Len(u \o z) = Len(u) + Len(z)
        /\ \A i \in 1..Len(u) + Len(z) :
               (u \o z)[i] = IF i <= Len(u) THEN u[i] ELSE z[i - Len(u)]
    BY ConcatProperties
  <2>4. PICK w : w = u \o z
    OBVIOUS
  <2>5. w \in Seq(Piece) /\ Len(w) = 1 + Len(z) /\ w[1] = Space
    <3>1. Len(u) = 1 /\ u[1] = Space /\ Len(z) \in Nat
      BY <2>1, <2>2
    <3>2. 1 \in 1..Len(u) + Len(z) /\ 1 <= Len(u)
      BY <3>1
    <3> QED BY <2>3, <2>4, <3>1, <3>2
  <2>6. Spaced(z) = w
    BY <2>2, <2>4
  <2> HIDE DEF Spaced
  <2> QED BY <2>5, <2>6
<1>3. \A l \in Seq(Piece) : Escape(l) \in Seq(Visible) /\ Escape(l) \in Seq(Piece)
  <2> SUFFICES ASSUME NEW l \in Seq(Piece)
               PROVE  Escape(l) \in Seq(Visible) /\ Escape(l) \in Seq(Piece)
    OBVIOUS
  <2>1. Escape(l) \in Seq(Visible)
    BY EscapedLabel
  <2>2. Visible \subseteq Piece
    BY DEF Visible
  <2> QED BY <2>1, <2>2, SeqMonotonic
<1>4. Escape(s) \o Spaced(x) = Escape(t) \o Spaced(y)
  BY Zenon DEF LabelThen
<1> HIDE DEF Spaced
<1>5. ASSUME NEW e \in Seq(Visible), NEW f \in Seq(Visible),
             NEW u \in Seq(Piece), NEW v \in Seq(Piece),
             Len(u) \in Nat \ {0}, u[1] = Space, e \in Seq(Piece), f \in Seq(Piece),
             e \o u = f \o v
      PROVE  ~(Len(e) < Len(f))
  <2> SUFFICES ASSUME Len(e) < Len(f) PROVE FALSE
    OBVIOUS
  <2>1. PICK a \in Nat, b \in Nat, c \in Nat, d \in Nat :
            a = Len(e) /\ b = Len(f) /\ c = Len(u) /\ d = Len(v)
    OBVIOUS
  <2>2. \A i \in 1..Len(e) + Len(u) :
            (e \o u)[i] = IF i <= Len(e) THEN e[i] ELSE u[i - Len(e)]
    BY <1>5, ConcatProperties
  <2>3. \A i \in 1..Len(f) + Len(v) :
            (f \o v)[i] = IF i <= Len(f) THEN f[i] ELSE v[i - Len(f)]
    BY <1>5, ConcatProperties
  <2>4. /\ a + 1 \in 1..a + c /\ ~(a + 1 <= a) /\ (a + 1) - a = 1
        /\ a + 1 \in 1..b + d /\ a + 1 <= b /\ a + 1 \in 1..b
    BY <1>5, <2>1
  <2>5. (e \o u)[a + 1] = Space
    BY <1>5, <2>1, <2>2, <2>4
  <2>6. (f \o v)[a + 1] = f[a + 1]
    BY <2>1, <2>3, <2>4
  <2>7. f[a + 1] \in Visible
    BY <2>1, <2>4
  <2> QED BY <1>5, <2>5, <2>6, <2>7 DEF Visible
<1>6. Len(Escape(s)) = Len(Escape(t))
  <2>1. /\ Escape(s) \in Seq(Visible) /\ Escape(t) \in Seq(Visible)
        /\ Escape(s) \in Seq(Piece) /\ Escape(t) \in Seq(Piece)
    BY <1>3
  <2>2. /\ Spaced(x) \in Seq(Piece) /\ Spaced(y) \in Seq(Piece)
        /\ Len(Spaced(x)) \in Nat \ {0} /\ Spaced(x)[1] = Space
        /\ Len(Spaced(y)) \in Nat \ {0} /\ Spaced(y)[1] = Space
    BY <1>2
  <2>3. ~(Len(Escape(s)) < Len(Escape(t)))
    BY <1>4, <1>5, <2>1, <2>2
  <2>4. ~(Len(Escape(t)) < Len(Escape(s)))
    BY <1>4, <1>5, <2>1, <2>2
  <2>5. Len(Escape(s)) \in Nat /\ Len(Escape(t)) \in Nat
    BY <2>1
  <2> QED BY <2>3, <2>4, <2>5
<1>7. Escape(s) = Escape(t) /\ Spaced(x) = Spaced(y)
  <2>1. /\ Escape(s) \in Seq(Piece) /\ Escape(t) \in Seq(Piece)
        /\ Spaced(x) \in Seq(Piece) /\ Spaced(y) \in Seq(Piece)
    BY <1>2, <1>3
  <2> QED BY <1>4, <1>6, <2>1, ConcatCancels
<1>8. s = t
  BY <1>7, LabelsApart
<1>9. x = y
  <2>1. <<Space>> \in Seq(Piece) /\ Len(<<Space>>) = Len(<<Space>>)
    BY <1>1
  <2>2. <<Space>> \o x = <<Space>> \o y
    BY <1>7 DEF Spaced
  <2> QED BY <2>1, <2>2, ConcatCancels
<1> QED BY <1>8, <1>9

-----------------------------------------------------------------------------
(* The lines of a key. *)

ValuePiece(value) ==
    IF value = << >> THEN Mark("-") ELSE Decimal(value[1])

AtomHead(kind) ==
    <<Newline, Lower("atom"), Space, Lower(kind), Space>>

ValueThen(value, x) == <<ValuePiece(value)>> \o x

\* The line of an atom begins with the word and the kind of its atom.
LEMMA AtomLineBegins ==
    ASSUME NEW kind \in Written, NEW label \in Seq(Piece), NEW value,
           ValuePiece(value) \in Piece, NEW x \in Seq(Piece)
    PROVE  /\ AtomLine(Atom(kind, label, value)) \in Seq(Piece)
           /\ ValueThen(value, x) \in Seq(Piece)
           /\ AtomHead(kind) \in Seq(Piece) /\ Len(AtomHead(kind)) = 5
           /\ LabelThen(label, ValueThen(value, x)) \in Seq(Piece)
           /\ Joined(AtomLine(Atom(kind, label, value)), x)
                  = Joined(AtomHead(kind), LabelThen(label, ValueThen(value, x)))
<1>1. Newline \in Piece /\ Space \in Piece /\ Lower("atom") \in Piece
      /\ Lower(kind) \in Piece
  <2>1. "nl" \in Written /\ " " \in Written /\ "atom" \in Written
    BY DEF Written
  <2> QED BY <2>1, WrittenPiece DEF Newline, Space
<1>2. PICK h \in Seq(Piece) : h = AtomHead(kind)
  <2>1. AtomHead(kind) \in Seq(Piece)
    BY <1>1 DEF AtomHead
  <2> QED BY <2>1
<1>3. PICK e \in Seq(Piece) : e = Escape(label)
  <2>1. Escape(label) \in Seq(Visible) /\ Visible \subseteq Piece
    BY EscapedLabel DEF Visible
  <2> QED BY <2>1, SeqMonotonic
<1>4. PICK s \in Seq(Piece), v \in Seq(Piece) :
          s = <<Space>> /\ v = <<ValuePiece(value)>>
  <2>1. <<Space>> \in Seq(Piece) /\ <<ValuePiece(value)>> \in Seq(Piece)
    BY <1>1
  <2> QED BY <2>1
<1>5. Joined(s, v) = <<Space, ValuePiece(value)>>
  <2>1. Space \in Piece /\ ValuePiece(value) \in Piece
    BY <1>1
  <2>2. <<Space>> \o <<ValuePiece(value)>> = <<Space, ValuePiece(value)>>
    BY <2>1, PairOfTwo, Zenon
  <2> QED BY <1>4, <2>2, Zenon DEF Joined
<1>6. AtomLine(Atom(kind, label, value)) = Joined(Joined(h, e), Joined(s, v))
  <2>1. AtomLine(Atom(kind, label, value)) = (h \o e) \o Joined(s, v)
    BY <1>2, <1>3, <1>5, Zenon DEF AtomLine, Atom, AtomHead, ValuePiece
  <2> QED BY <2>1, Zenon DEF Joined
<1>7. /\ Joined(h, e) \in Seq(Piece) /\ Joined(s, v) \in Seq(Piece)
      /\ Joined(v, x) \in Seq(Piece) /\ Joined(s, Joined(v, x)) \in Seq(Piece)
      /\ Joined(e, Joined(s, Joined(v, x))) \in Seq(Piece)
      /\ Joined(Joined(h, e), Joined(s, v)) \in Seq(Piece)
  BY JoinedTyped
<1>8. Joined(Joined(Joined(h, e), Joined(s, v)), x)
          = Joined(Joined(h, e), Joined(Joined(s, v), x))
  BY <1>7, JoinedRegroups
<1>9. Joined(Joined(s, v), x) = Joined(s, Joined(v, x))
  BY JoinedRegroups
<1>10. Joined(Joined(h, e), Joined(s, Joined(v, x)))
           = Joined(h, Joined(e, Joined(s, Joined(v, x))))
  BY <1>7, JoinedRegroups
<1>12. Joined(AtomLine(Atom(kind, label, value)), x)
           = Joined(h, Joined(e, Joined(s, Joined(v, x))))
  BY <1>6, <1>8, <1>9, <1>10, Zenon
<1>11. Len(AtomHead(kind)) = 5
  BY DEF AtomHead
<1>13. /\ AtomLine(Atom(kind, label, value)) \in Seq(Piece)
       /\ Joined(v, x) \in Seq(Piece) /\ h \in Seq(Piece) /\ Len(h) = 5
       /\ Joined(e, Joined(s, Joined(v, x))) \in Seq(Piece)
  BY <1>2, <1>6, <1>7, <1>11
<1>14. /\ ValueThen(value, x) = Joined(v, x)
       /\ LabelThen(label, ValueThen(value, x)) = Joined(e, Joined(s, Joined(v, x)))
  BY <1>3, <1>4, Zenon DEF Joined, ValueThen, LabelThen
<1>15. Joined(AtomLine(Atom(kind, label, value)), x)
           = Joined(AtomHead(kind), LabelThen(label, ValueThen(value, x)))
  BY <1>2, <1>12, <1>14, Zenon
<1> QED BY <1>2, <1>4, <1>13, <1>14, <1>15, Zenon

\* The value ends the line of an atom.
LEMMA ValuePeels ==
    ASSUME NEW v, NEW w, ValuePiece(v) \in Piece, ValuePiece(w) \in Piece,
           NEW x \in Seq(Piece), NEW y \in Seq(Piece),
           ValueThen(v, x) = ValueThen(w, y)
    PROVE  ValuePiece(v) = ValuePiece(w) /\ x = y
<1>1. PICK p \in Piece, q \in Piece : p = ValuePiece(v) /\ q = ValuePiece(w)
  OBVIOUS
<1>2. PICK a \in Seq(Piece), b \in Seq(Piece) : a = <<p>> /\ b = <<q>>
  <2>1. <<p>> \in Seq(Piece) /\ <<q>> \in Seq(Piece)
    OBVIOUS
  <2> QED BY <2>1
<1>3. a \o x = b \o y
  BY <1>1, <1>2, Zenon DEF ValueThen
<1>4. Len(a) = Len(b) /\ (a = b => p = q)
  BY <1>2
<1>5. a = b /\ x = y
  BY <1>3, <1>4, ConcatCancels
<1> QED BY <1>1, <1>4, <1>5

\* A line of an atom tells its kind, its label and its value.
LEMMA AtomLinePeels ==
    ASSUME NEW k \in Written, NEW l \in Written,
           NEW s \in Seq(Piece), NEW t \in Seq(Piece), NEW v, NEW w,
           ValuePiece(v) \in Piece, ValuePiece(w) \in Piece,
           NEW x \in Seq(Piece), NEW y \in Seq(Piece),
           Joined(AtomLine(Atom(k, s, v)), x) = Joined(AtomLine(Atom(l, t, w)), y)
    PROVE  k = l /\ s = t /\ ValuePiece(v) = ValuePiece(w) /\ x = y
<1>1. /\ ValueThen(v, x) \in Seq(Piece)
      /\ AtomHead(k) \in Seq(Piece) /\ Len(AtomHead(k)) = 5
      /\ LabelThen(s, ValueThen(v, x)) \in Seq(Piece)
      /\ Joined(AtomLine(Atom(k, s, v)), x)
             = Joined(AtomHead(k), LabelThen(s, ValueThen(v, x)))
  BY AtomLineBegins
<1>2. /\ ValueThen(w, y) \in Seq(Piece)
      /\ AtomHead(l) \in Seq(Piece) /\ Len(AtomHead(l)) = 5
      /\ LabelThen(t, ValueThen(w, y)) \in Seq(Piece)
      /\ Joined(AtomLine(Atom(l, t, w)), y)
             = Joined(AtomHead(l), LabelThen(t, ValueThen(w, y)))
  BY AtomLineBegins
<1>3. /\ AtomHead(k) = AtomHead(l)
      /\ LabelThen(s, ValueThen(v, x)) = LabelThen(t, ValueThen(w, y))
  <2>1. PICK a \in Seq(Piece), b \in Seq(Piece),
             c \in Seq(Piece), d \in Seq(Piece) :
            /\ a = AtomHead(k) /\ b = AtomHead(l)
            /\ c = LabelThen(s, ValueThen(v, x)) /\ d = LabelThen(t, ValueThen(w, y))
    BY <1>1, <1>2
  <2>2. Len(a) = Len(b) /\ Joined(a, c) = Joined(b, d)
    BY <1>1, <1>2, <2>1
  <2>3. a = b /\ c = d
    BY <2>2, JoinedCancels
  <2> QED BY <2>1, <2>3
<1>4. k = l
  <2>1. AtomHead(k)[4] = Lower(k) /\ AtomHead(l)[4] = Lower(l)
    BY DEF AtomHead
  <2> QED BY <1>3, <2>1 DEF Lower
<1>5. s = t /\ ValueThen(v, x) = ValueThen(w, y)
  BY <1>1, <1>2, <1>3, LabelPeels
<1> QED BY <1>1, <1>2, <1>4, <1>5, ValuePeels

\* Numbers are written in pieces, one apart from another and from the piece that
\* stands for none.
LEMMA DecimalPiece ==
    ASSUME NEW m \in Amounts
    PROVE  Decimal(m) \in Piece /\ Decimal(m) # Mark("-")
<1>1. ToString(m) \in STRING \ {"-"}
  BY DecimalAssumption
<1>2. << >> \in Seq(0..9) /\ "mark" \in STRING
  BY EmptySeq, WrittenAssumption DEF Written
<1> QED BY <1>1, <1>2 DEF Decimal, Mark, Piece

\* Quantities that are written alike are one.
LEMMA DecimalsApart ==
    ASSUME NEW m \in Amounts, NEW n \in Amounts, Decimal(m) = Decimal(n)
    PROVE  m = n
<1>1. ToString(m) = ToString(n)
  BY DEF Decimal, Mark
<1> QED BY <1>1, DecimalAssumption

\* A line of a relation is none of an atom.
LEMMA RelationLineTyped ==
    ASSUME NEW role \in Written, NEW m \in Amounts, NEW n \in Amounts
    PROVE  LET line == RelationLine([role |-> role, event |-> m, target |-> n])
           IN  line \in Seq(Piece) /\ Len(line) = 8 /\ line[2] = Lower("rel")
<1>1. /\ Newline \in Piece /\ Space \in Piece /\ Lower("rel") \in Piece
      /\ Lower(role) \in Piece
  <2>1. "nl" \in Written /\ " " \in Written /\ "rel" \in Written
    BY DEF Written
  <2> QED BY <2>1, WrittenPiece DEF Newline, Space
<1>2. Decimal(m) \in Piece /\ Decimal(n) \in Piece
  BY DecimalPiece
<1>3. RelationLine([role |-> role, event |-> m, target |-> n])
          = <<Newline, Lower("rel"), Space, Lower(role), Space,
              Decimal(m), Space, Decimal(n)>>
  BY DEF RelationLine
<1>4. PICK a \in Piece, b \in Piece, c \in Piece, d \in Piece, p \in Piece, q \in Piece :
          /\ a = Newline /\ b = Lower("rel") /\ c = Space /\ d = Lower(role)
          /\ p = Decimal(m) /\ q = Decimal(n)
  BY <1>1, <1>2
<1>5. /\ <<a, b, c, d, c, p, c, q>> \in Seq(Piece)
      /\ Len(<<a, b, c, d, c, p, c, q>>) = 8
      /\ <<a, b, c, d, c, p, c, q>>[2] = b
  OBVIOUS
<1> QED BY <1>3, <1>4, <1>5, Zenon

-----------------------------------------------------------------------------
(* Facts, and the fragments built of them. *)

Bounded(word) == word \in Seq(Piece) /\ Len(word) \in 1..MaxSpelling

SoundFacts(facts) ==
    /\ facts.event = EventTransfer
    /\ facts.object_code \in {Apple, Orange, UnknownObject}
    /\ Bounded(facts.source) /\ Bounded(facts.target)
    /\ Bounded(facts.object_spelling)
    /\ facts.quantity \in {<< >>} \cup {<<q>> : q \in Amounts}

\* What every adapter makes of facts, but for its provenance.
Built(facts) ==
    Assemble("text", << >>, facts, facts.object_code = UnknownObject).fragment

ObjectKind(facts) == IF facts.object_code = UnknownObject THEN "Unknown" ELSE "Object"

LEMMA QuantityCases ==
    ASSUME NEW quantity \in {<< >>} \cup {<<q>> : q \in Amounts}
    PROVE  \/ /\ quantity = << >> /\ Len(quantity) = 0
              /\ ValuePiece(quantity) = Mark("-")
           \/ \E q \in Amounts : /\ quantity = <<q>> /\ Len(quantity) = 1
                                 /\ quantity[1] = q /\ quantity # << >>
                                 /\ ValuePiece(quantity) = Decimal(q)
<1>1. CASE quantity = << >>
  BY <1>1 DEF ValuePiece
<1>2. CASE quantity # << >>
  <2>1. PICK q \in Amounts : quantity = <<q>>
    BY <1>2
  <2>2. Len(quantity) = 1 /\ quantity[1] = q
    BY <2>1
  <2>3. ValuePiece(quantity) = Decimal(q)
    BY <1>2, <2>2, Zenon DEF ValuePiece
  <2> QED BY <1>2, <2>1, <2>2, <2>3
<1> QED BY <1>1, <1>2

\* The atoms of the fragment of sound facts (src/canonical.rs, assemble).
LEMMA BuiltAtoms ==
    ASSUME NEW facts, SoundFacts(facts)
    PROVE  LET atoms == Built(facts).atoms
           IN  /\ Len(atoms) = 4 + Len(facts.quantity)
               /\ atoms[1] = Atom("Event", <<Lower("transfer")>>, << >>)
               /\ atoms[2] = Atom("Entity", facts.source, << >>)
               /\ atoms[3] = Atom("Entity", facts.target, << >>)
               /\ atoms[4] = Atom(ObjectKind(facts), ObjectLabel(facts), << >>)
               /\ Len(facts.quantity) = 1 =>
                      atoms[5] = Atom("Quantity", <<Decimal(facts.quantity[1])>>,
                                      facts.quantity)
<1> DEFINE atoms == Built(facts).atoms
           a == Atom("Event", <<Lower("transfer")>>, << >>)
           b == Atom("Entity", facts.source, << >>)
           c == Atom("Entity", facts.target, << >>)
           d == Atom(ObjectKind(facts), ObjectLabel(facts), << >>)
           e == Atom("Quantity", <<Decimal(facts.quantity[1])>>, facts.quantity)
           S == {a, b, c, d, e}
           s == QuantityAtoms(facts.quantity)
<1>1. atoms = <<a, b, c, d>> \o s
  BY Zenon DEF Built, Assemble, ObjectKind
<1>2. PICK n \in 0..1 : n = Len(facts.quantity)
  BY QuantityCases DEF SoundFacts
<1>3. s = [i \in 1..n |->
             Atom("Quantity", <<Decimal(facts.quantity[i])>>, facts.quantity)]
  BY <1>2 DEF QuantityAtoms
<1>4. s \in Seq(S) /\ Len(s) = n /\ (n = 1 => s[1] = e)
  <2>1. \A i \in 1..n : i = 1
    OBVIOUS
  <2>2. s = [i \in 1..n |-> e]
    BY <1>3, <2>1
  <2>3. e \in S
    OBVIOUS
  <2> HIDE DEF s, e, S
  <2>4. s \in [1..n -> S]
    BY <2>2, <2>3
  <2>5. s \in Seq(S) /\ Len(s) = n
    BY <2>4, IsASeq
  <2> QED BY <2>2, <2>5
<1>5. a \in S /\ b \in S /\ c \in S /\ d \in S
  OBVIOUS
<1> HIDE DEF atoms, a, b, c, d, e, S, s
<1>6. PICK w \in Seq(S) : FourBefore(w, a, b, c, d, s)
  BY <1>4, <1>5, FourAnd
<1>7. /\ atoms = w /\ Len(w) = 4 + Len(s)
      /\ w[1] = a /\ w[2] = b /\ w[3] = c /\ w[4] = d
      /\ \A i \in 1..Len(s) : w[4 + i] = s[i]
  BY <1>1, <1>6, Zenon DEF FourBefore
<1>8. n = 1 => w[5] = e
  <2> SUFFICES ASSUME n = 1 PROVE w[5] = e
    OBVIOUS
  <2>1. 1 \in 1..Len(s) /\ 4 + 1 = 5
    BY <1>4
  <2>2. w[4 + 1] = s[1]
    BY <1>7, <2>1
  <2> QED BY <1>4, <2>1, <2>2
<1> QED BY <1>2, <1>4, <1>7, <1>8 DEF atoms, a, b, c, d, e

LEMMA ObjectLabels ==
    ASSUME NEW facts, SoundFacts(facts)
    PROVE  /\ ObjectKind(facts) \in Written
           /\ ObjectLabel(facts) \in Seq(Piece)
           /\ facts.object_code = Apple => ObjectLabel(facts) = <<Lower("apple")>>
           /\ facts.object_code = Orange => ObjectLabel(facts) = <<Lower("orange")>>
           /\ facts.object_code = UnknownObject =>
                  ObjectLabel(facts) = facts.object_spelling
<1>1. Lower("apple") \in Piece /\ Lower("orange") \in Piece
  <2>1. "apple" \in Written /\ "orange" \in Written
    BY DEF Written
  <2> QED BY <2>1, WrittenPiece
<1>2. <<Lower("apple")>> \in Seq(Piece) /\ <<Lower("orange")>> \in Seq(Piece)
  BY <1>1
<1>3. Apple # Orange /\ Apple # UnknownObject /\ Orange # UnknownObject
  BY DEF Apple, Orange, UnknownObject
<1>4. /\ facts.object_code = Apple => ObjectLabel(facts) = <<Lower("apple")>>
      /\ facts.object_code = Orange => ObjectLabel(facts) = <<Lower("orange")>>
      /\ facts.object_code = UnknownObject =>
             ObjectLabel(facts) = facts.object_spelling
  BY <1>3 DEF ObjectLabel
<1>5. ObjectKind(facts) \in Written
  BY DEF ObjectKind, Written
<1> QED BY <1>2, <1>4, <1>5 DEF SoundFacts, Bounded

\* Objects are told apart by their kind and their label.
LEMMA ObjectsApart ==
    ASSUME NEW a, NEW b, SoundFacts(a), SoundFacts(b),
           ObjectKind(a) = ObjectKind(b), ObjectLabel(a) = ObjectLabel(b)
    PROVE  /\ a.object_code = b.object_code
           /\ a.object_code = UnknownObject => a.object_spelling = b.object_spelling
<1>1. a.object_code = UnknownObject <=> b.object_code = UnknownObject
  BY DEF ObjectKind
<1>2. CASE a.object_code = UnknownObject
  BY <1>1, <1>2, ObjectLabels
<1>3. CASE a.object_code # UnknownObject
  <2>1. <<Lower("apple")>> # <<Lower("orange")>>
    BY DEF Lower
  <2>2. a.object_code \in {Apple, Orange} /\ b.object_code \in {Apple, Orange}
    BY <1>1, <1>3 DEF SoundFacts
  <2> QED BY <1>3, <2>1, <2>2, ObjectLabels
<1> QED BY <1>2, <1>3

RelationLines(f) ==
    [i \in 1..Len(f.relations) |-> RelationLine(f.relations[i])]

UnknownLines(f) == [i \in 1..Len(f.unknowns) |-> UnknownLine(f.unknowns[i])]

KeyTail(f) == FlattenSeq(RelationLines(f)) \o FlattenSeq(UnknownLines(f))

\* Its relations: one from the event to each of the other atoms.
LEMMA BuiltRelations ==
    ASSUME NEW facts, SoundFacts(facts)
    PROVE  /\ RelationLines(Built(facts)) \in Seq(Seq(Piece))
           /\ Len(RelationLines(Built(facts))) # 0
           /\ Len(RelationLines(Built(facts))[1]) = 8
           /\ RelationLines(Built(facts))[1][2] = Lower("rel")
<1>1. PICK n \in 3..4 : Len(Built(facts).atoms) - 1 = n
  <2>1. PICK k \in 0..1 : k = Len(facts.quantity)
    BY QuantityCases DEF SoundFacts
  <2>2. Len(Built(facts).atoms) = 4 + k
    BY <2>1, BuiltAtoms
  <2>3. 4 + k - 1 \in 3..4
    OBVIOUS
  <2> QED BY <2>2, <2>3
<1> DEFINE rel(i) == [role |-> Roles[i], event |-> 0, target |-> i]
           rels == [i \in 1..n |-> rel(i)]
<1>2. Built(facts).relations = rels
  <2>1. Built(facts).relations
            = [i \in 1..(Len(Built(facts).atoms) - 1) |-> rel(i)]
    BY Zenon DEF Built, Assemble
  <2> QED BY <1>1, <2>1
<1>3. ASSUME NEW i \in 1..n
      PROVE  /\ RelationLine(rel(i)) \in Seq(Piece)
             /\ Len(RelationLine(rel(i))) = 8
             /\ RelationLine(rel(i))[2] = Lower("rel")
  <2>1. Roles[i] \in Written
    <3>1. i = 1 \/ i = 2 \/ i = 3 \/ i = 4
      OBVIOUS
    <3>2. /\ Roles[1] = "source" /\ Roles[2] = "target"
          /\ Roles[3] = "object" /\ Roles[4] = "quantity"
      BY DEF Roles
    <3> QED BY <3>1, <3>2 DEF Written
  <2>2. 0 \in Amounts /\ i \in Amounts
    BY DEF Amounts
  <2> QED BY <2>1, <2>2, RelationLineTyped
<1> HIDE DEF rel
<1>4. Len(rels) = n
  OBVIOUS
<1>5. RelationLines(Built(facts)) = [i \in 1..n |-> RelationLine(rel(i))]
  BY <1>2, <1>4 DEF RelationLines
<1>6. [i \in 1..n |-> RelationLine(rel(i))] \in [1..n -> Seq(Piece)]
  BY <1>3
<1>7. /\ RelationLines(Built(facts)) \in Seq(Seq(Piece))
      /\ Len(RelationLines(Built(facts))) = n
  BY <1>5, <1>6, IsASeq
<1>8. 1 \in 1..n
  OBVIOUS
<1> QED BY <1>3, <1>5, <1>7, <1>8

LEMMA BuiltRelationCount ==
    ASSUME NEW facts, SoundFacts(facts)
    PROVE  Len(Built(facts).relations) = Len(Built(facts).atoms) - 1
<1>1. PICK n \in 3..4 : Len(Built(facts).atoms) - 1 = n
  <2>1. PICK k \in 0..1 : k = Len(facts.quantity)
    BY QuantityCases DEF SoundFacts
  <2>2. Len(Built(facts).atoms) = 4 + k
    BY <2>1, BuiltAtoms
  <2>3. 4 + k - 1 \in 3..4
    OBVIOUS
  <2> QED BY <2>2, <2>3
<1> DEFINE rel(i) == [role |-> Roles[i], event |-> 0, target |-> i]
<1>2. Built(facts).relations
          = [i \in 1..(Len(Built(facts).atoms) - 1) |-> rel(i)]
  BY Zenon DEF Built, Assemble
<1> HIDE DEF rel
<1>3. Len([i \in 1..n |-> rel(i)]) = n
  OBVIOUS
<1> QED BY <1>1, <1>2, <1>3

\* Its unknowns: the spelling of an unknown object, or nothing.
LEMMA BuiltUnknowns ==
    ASSUME NEW facts, SoundFacts(facts)
    PROVE  UnknownLines(Built(facts)) \in Seq(Seq(Piece))
<1> DEFINE word == facts.object_spelling
<1>1. Built(facts).unknowns
          = IF facts.object_code = UnknownObject THEN <<word>> ELSE << >>
  BY Zenon DEF Built, Assemble
<1>2. UnknownLine(word) \in Seq(Piece)
  <2>1. /\ "nl" \in Written /\ "unknown" \in Written /\ " " \in Written
        /\ "object" \in Written /\ ":" \in Written
    BY DEF Written
  <2>2. /\ Newline \in Piece /\ Lower("unknown") \in Piece /\ Space \in Piece
        /\ Lower("object") \in Piece /\ Mark(":") \in Piece
    BY <2>1, WrittenPiece DEF Newline, Space
  <2>3. <<Newline, Lower("unknown"), Space, Lower("object"), Mark(":"),
          Lower("unknown"), Mark(":")>> \in Seq(Piece)
    BY <2>2
  <2>4. Escape(word) \in Seq(Piece)
    <3>1. word \in Seq(Piece)
      BY DEF SoundFacts, Bounded
    <3>2. Escape(word) \in Seq(Visible) /\ Visible \subseteq Piece
      BY <3>1, EscapedLabel DEF Visible
    <3> QED BY <3>2, SeqMonotonic
  <2> QED BY <2>3, <2>4, ConcatProperties DEF UnknownLine
<1> HIDE DEF word
<1>3. CASE facts.object_code = UnknownObject
  <2>1. Built(facts).unknowns = <<word>>
    BY <1>1, <1>3
  <2>2. UnknownLines(Built(facts)) = [i \in 1..1 |-> UnknownLine(word)]
    BY <2>1 DEF UnknownLines
  <2>3. [i \in 1..1 |-> UnknownLine(word)] \in [1..1 -> Seq(Piece)]
    BY <1>2
  <2> QED BY <2>2, <2>3, IsASeq
<1>4. CASE facts.object_code # UnknownObject
  <2>1. Built(facts).unknowns = << >>
    BY <1>1, <1>4
  <2>2. UnknownLines(Built(facts)) = [i \in 1..0 |-> UnknownLine(<<>>[i])]
    BY <2>1 DEF UnknownLines
  <2>3. [i \in 1..0 |-> UnknownLine(<<>>[i])] \in [1..0 -> Seq(Piece)]
    OBVIOUS
  <2> QED BY <2>2, <2>3, IsASeq
<1> QED BY <1>3, <1>4

\* The second piece of a line is still there when lines follow it.
LEMMA SecondOfJoined ==
    ASSUME NEW h \in Seq(Piece), NEW t \in Seq(Piece), Len(h) = 8
    PROVE  Joined(h, t)[2] = h[2]
<1>1. PICK i \in 1..Len(h) : i = 2
  OBVIOUS
<1>2. Joined(h, t)[i] = h[i]
  BY JoinedBegins, Zenon
<1> QED BY <1>1, <1>2

\* What follows the atoms begins with the line of a relation.
LEMMA TailOfKey ==
    ASSUME NEW facts, SoundFacts(facts)
    PROVE  /\ KeyTail(Built(facts)) \in Seq(Piece)
           /\ KeyTail(Built(facts))[2] = Lower("rel")
<1> DEFINE rels == RelationLines(Built(facts))
           unks == UnknownLines(Built(facts))
<1>1. /\ rels \in Seq(Seq(Piece)) /\ Len(rels) # 0
      /\ Len(rels[1]) = 8 /\ rels[1][2] = Lower("rel")
  BY BuiltRelations
<1>2. unks \in Seq(Seq(Piece))
  BY BuiltUnknowns
<1>3. KeyTail(Built(facts)) = FlattenSeq(rels) \o FlattenSeq(unks)
  BY Zenon DEF KeyTail
<1> HIDE DEF rels, unks
<1>4. PICK r \in Seq(Piece) : FlattenSeq(rels) = rels[1] \o r
  BY <1>1, FlattenFirst
<1>5. PICK u \in Seq(Piece) : u = FlattenSeq(unks)
  <2>1. PICK run \in [0..Len(unks) -> Seq(Piece)] :
            FlattenSeq(unks) = run[Len(unks)]
    BY <1>2, FlattenRuns
  <2> QED BY <1>2, <2>1
<1>6. PICK h \in Seq(Piece) : h = rels[1]
  BY <1>1
<1>7. KeyTail(Built(facts)) = Joined(Joined(h, r), u)
  BY <1>3, <1>4, <1>5, <1>6, Zenon DEF Joined
<1>8. /\ Joined(r, u) \in Seq(Piece)
      /\ Joined(Joined(h, r), u) = Joined(h, Joined(r, u))
      /\ Joined(h, Joined(r, u)) \in Seq(Piece)
  BY JoinedTyped, JoinedRegroups
<1>9. PICK t \in Seq(Piece) : t = Joined(r, u)
  BY <1>8
<1>10. Joined(h, t)[2] = h[2]
  <2>1. Len(h) = 8
    BY <1>1, <1>6
  <2> QED BY <2>1, SecondOfJoined, Zenon
<1> QED BY <1>1, <1>6, <1>7, <1>8, <1>9, <1>10

\* The key of a fragment, line by line.
QuantityLine(facts) ==
    AtomLine(Atom("Quantity", <<Decimal(facts.quantity[1])>>, facts.quantity))

KeyRest(facts) ==
    IF facts.quantity = << >> THEN KeyTail(Built(facts))
    ELSE Joined(QuantityLine(facts), KeyTail(Built(facts)))

Entity(word) == AtomLine(Atom("Entity", word, << >>))

ObjectLine(facts) == AtomLine(Atom(ObjectKind(facts), ObjectLabel(facts), << >>))

EventLine == AtomLine(Atom("Event", <<Lower("transfer")>>, << >>))

LEMMA NoValue == ValuePiece(<< >>) \in Piece
<1>1. "-" \in Written
  BY DEF Written
<1> QED BY <1>1, WrittenPiece DEF ValuePiece

LEMMA AtomLineTyped ==
    ASSUME NEW kind \in Written, NEW label \in Seq(Piece), NEW value,
           ValuePiece(value) \in Piece
    PROVE  AtomLine(Atom(kind, label, value)) \in Seq(Piece)
<1>1. << >> \in Seq(Piece)
  BY EmptySeq
<1> QED BY <1>1, AtomLineBegins

LEMMA LinesTyped ==
    ASSUME NEW facts, SoundFacts(facts)
    PROVE  /\ EventLine \in Seq(Piece)
           /\ Entity(facts.source) \in Seq(Piece)
           /\ Entity(facts.target) \in Seq(Piece)
           /\ ObjectLine(facts) \in Seq(Piece)
           /\ facts.quantity # << >> =>
                  /\ QuantityLine(facts) \in Seq(Piece)
                  /\ <<Decimal(facts.quantity[1])>> \in Seq(Piece)
                  /\ facts.quantity[1] \in Amounts
                  /\ facts.quantity = <<facts.quantity[1]>>
                  /\ ValuePiece(facts.quantity) \in Piece
<1>1. "Event" \in Written /\ "Entity" \in Written /\ "Quantity" \in Written
  BY DEF Written
<1>2. EventLine \in Seq(Piece)
  <2>1. <<Lower("transfer")>> \in Seq(Piece)
    <3>1. "transfer" \in Written
      BY DEF Written
    <3>2. Lower("transfer") \in Piece
      BY <3>1, WrittenPiece
    <3> QED BY <3>2
  <2> QED BY <1>1, <2>1, NoValue, AtomLineTyped DEF EventLine
<1>3. Entity(facts.source) \in Seq(Piece) /\ Entity(facts.target) \in Seq(Piece)
  BY <1>1, NoValue, AtomLineTyped DEF Entity, SoundFacts, Bounded
<1>4. ObjectLine(facts) \in Seq(Piece)
  BY NoValue, ObjectLabels, AtomLineTyped DEF ObjectLine
<1>5. ASSUME facts.quantity # << >>
      PROVE  /\ QuantityLine(facts) \in Seq(Piece)
             /\ <<Decimal(facts.quantity[1])>> \in Seq(Piece)
             /\ facts.quantity[1] \in Amounts
             /\ facts.quantity = <<facts.quantity[1]>>
             /\ ValuePiece(facts.quantity) \in Piece
  <2>1. PICK q \in Amounts : /\ facts.quantity = <<q>> /\ facts.quantity[1] = q
                             /\ ValuePiece(facts.quantity) = Decimal(q)
    BY <1>5, QuantityCases DEF SoundFacts
  <2>2. Decimal(q) \in Piece
    BY DecimalPiece
  <2>3. <<Decimal(q)>> \in Seq(Piece)
    BY <2>2
  <2>4. QuantityLine(facts) \in Seq(Piece)
    BY <1>1, <2>1, <2>2, <2>3, AtomLineTyped DEF QuantityLine
  <2> QED BY <2>1, <2>2, <2>3, <2>4
<1> QED BY <1>2, <1>3, <1>4, <1>5

\* Its semantic key, line by line.
LEMMA KeyOfBuilt ==
    ASSUME NEW facts, SoundFacts(facts)
    PROVE  /\ KeyRest(facts) \in Seq(Piece)
           /\ SemanticKey(Built(facts)) =
                  Joined(EventLine, Joined(Entity(facts.source),
                      Joined(Entity(facts.target),
                          Joined(ObjectLine(facts), KeyRest(facts)))))
<1> DEFINE f == Built(facts)
           lines == [i \in 1..Len(f.atoms) |-> AtomLine(f.atoms[i])]
<1>1. PICK n \in 4..5 : /\ n = Len(f.atoms)
                        /\ n = 5 <=> facts.quantity # << >>
                        /\ n = 5 => Len(facts.quantity) = 1
  <2>1. PICK k \in 0..1 : k = Len(facts.quantity) /\ (k = 1 <=> facts.quantity # << >>)
    BY QuantityCases DEF SoundFacts
  <2>2. Len(f.atoms) = 4 + k
    BY <2>1, BuiltAtoms
  <2>3. 4 + k \in 4..5 /\ (4 + k = 5 <=> k = 1)
    OBVIOUS
  <2> HIDE DEF f
  <2> QED BY <2>1, <2>2, <2>3
<1>2. /\ lines[1] = EventLine /\ lines[2] = Entity(facts.source)
      /\ lines[3] = Entity(facts.target) /\ lines[4] = ObjectLine(facts)
      /\ n = 5 => lines[5] = QuantityLine(facts)
  <2>1. 1 \in 1..n /\ 2 \in 1..n /\ 3 \in 1..n /\ 4 \in 1..n /\ (n = 5 => 5 \in 1..n)
    OBVIOUS
  <2>2. \A i \in 1..n : lines[i] = AtomLine(f.atoms[i])
    BY <1>1
  <2> HIDE DEF lines
  <2>3. /\ f.atoms[1] = Atom("Event", <<Lower("transfer")>>, << >>)
        /\ f.atoms[2] = Atom("Entity", facts.source, << >>)
        /\ f.atoms[3] = Atom("Entity", facts.target, << >>)
        /\ f.atoms[4] = Atom(ObjectKind(facts), ObjectLabel(facts), << >>)
        /\ n = 5 => f.atoms[5] = Atom("Quantity", <<Decimal(facts.quantity[1])>>,
                                      facts.quantity)
    BY <1>1, BuiltAtoms
  <2> HIDE DEF f
  <2> QED BY <2>1, <2>2, <2>3, Zenon DEF EventLine, Entity, ObjectLine, QuantityLine
<1>3. lines \in Seq(Seq(Piece)) /\ Len(lines) = n
  <2>1. ASSUME NEW i \in 1..n PROVE lines[i] \in Seq(Piece)
    <3>1. i = 1 \/ i = 2 \/ i = 3 \/ i = 4 \/ (i = 5 /\ n = 5)
      OBVIOUS
    <3> HIDE DEF lines
    <3> QED BY <1>1, <1>2, <3>1, LinesTyped
  <2>2. lines = [i \in 1..n |-> lines[i]]
    BY <1>1
  <2> HIDE DEF lines
  <2>3. lines \in [1..n -> Seq(Piece)]
    BY <2>1, <2>2
  <2> QED BY <2>3, IsASeq
<1>4. KeyTail(f) \in Seq(Piece)
  BY TailOfKey
<1>5. SemanticKey(f) = Joined(FlattenSeq(lines), KeyTail(f))
  <2>1. SemanticKey(f)
            = (FlattenSeq(lines) \o FlattenSeq(RelationLines(f)))
                  \o FlattenSeq(UnknownLines(f))
    BY Zenon DEF SemanticKey, RelationLines, UnknownLines
  <2>2. /\ RelationLines(f) \in Seq(Seq(Piece)) /\ UnknownLines(f) \in Seq(Seq(Piece))
    BY BuiltRelations, BuiltUnknowns
  <2> HIDE DEF lines, f
  <2>3. PICK a \in Seq(Piece), b \in Seq(Piece), c \in Seq(Piece) :
            /\ a = FlattenSeq(lines)
            /\ b = FlattenSeq(RelationLines(f)) /\ c = FlattenSeq(UnknownLines(f))
    BY <1>3, <2>2, FlattenTyped
  <2>4. Joined(Joined(a, b), c) = Joined(a, Joined(b, c))
    BY JoinedRegroups
  <2> QED BY <2>1, <2>3, <2>4, Zenon DEF Joined, KeyTail
<1>6. AfterFour(lines, KeyTail(f)) = KeyRest(facts)
  <2> HIDE DEF lines
  <2>1. CASE n = 5
    BY <1>1, <1>2, <1>3, <2>1, Zenon DEF AfterFour, KeyRest
  <2>2. CASE n # 5
    BY <1>1, <1>3, <2>2, Zenon DEF AfterFour, KeyRest
  <2> QED BY <2>1, <2>2
<1> HIDE DEF f, lines
<1>7. PICK t \in Seq(Piece) : t = KeyTail(f)
  BY <1>4
<1>8. /\ AfterFour(lines, t) \in Seq(Piece)
      /\ Joined(FlattenSeq(lines), t) =
             Joined(lines[1], Joined(lines[2], Joined(lines[3],
                 Joined(lines[4], AfterFour(lines, t)))))
  BY <1>3, FlattenBegins
<1> QED BY <1>2, <1>5, <1>6, <1>7, <1>8 DEF f

LEMMA EntityPeels ==
    ASSUME NEW s \in Seq(Piece), NEW t \in Seq(Piece),
           NEW x \in Seq(Piece), NEW y \in Seq(Piece),
           Joined(Entity(s), x) = Joined(Entity(t), y)
    PROVE  s = t /\ x = y
<1>1. "Entity" \in Written
  BY DEF Written
<1> QED BY <1>1, NoValue, AtomLinePeels DEF Entity

\* Quantities, and their absence, are told apart.
LEMMA QuantitiesApart ==
    ASSUME NEW a, NEW b, SoundFacts(a), SoundFacts(b), KeyRest(a) = KeyRest(b)
    PROVE  a.quantity = b.quantity
<1>0. Lower("atom") # Lower("rel")
  BY DEF Lower
<1>1. ASSUME NEW c, SoundFacts(c)
      PROVE  /\ c.quantity = << >> => KeyRest(c)[2] = Lower("rel")
             /\ c.quantity # << >> => KeyRest(c)[2] = Lower("atom")
  <2>1. KeyTail(Built(c)) \in Seq(Piece) /\ KeyTail(Built(c))[2] = Lower("rel")
    BY <1>1, TailOfKey
  <2>2. CASE c.quantity = << >>
    BY <2>1, <2>2 DEF KeyRest
  <2>3. CASE c.quantity # << >>
    <3>1. PICK t \in Seq(Piece) : t = KeyTail(Built(c))
      BY <2>1
    <3>2. /\ <<Decimal(c.quantity[1])>> \in Seq(Piece)
          /\ ValuePiece(c.quantity) \in Piece /\ "Quantity" \in Written
      BY <1>1, <2>3, LinesTyped DEF Written
    <3>3. PICK h \in Seq(Piece), r \in Seq(Piece) :
              /\ h = AtomHead("Quantity") /\ Len(h) = 5
              /\ Joined(QuantityLine(c), t) = Joined(h, r)
      <4>1. PICK l \in Seq(Piece) : l = <<Decimal(c.quantity[1])>>
        BY <3>2
      <4>2. QuantityLine(c) = AtomLine(Atom("Quantity", l, c.quantity))
        BY <4>1, Zenon DEF QuantityLine
      <4>3. /\ AtomHead("Quantity") \in Seq(Piece) /\ Len(AtomHead("Quantity")) = 5
            /\ LabelThen(l, ValueThen(c.quantity, t)) \in Seq(Piece)
            /\ Joined(AtomLine(Atom("Quantity", l, c.quantity)), t)
                   = Joined(AtomHead("Quantity"), LabelThen(l, ValueThen(c.quantity, t)))
        BY <3>2, AtomLineBegins
      <4> QED BY <4>2, <4>3
    <3>4. h[2] = Lower("atom") /\ 2 \in 1..Len(h)
      BY <3>3 DEF AtomHead
    <3>5. Joined(h, r)[2] = h[2]
      BY <3>4, JoinedBegins
    <3> QED BY <2>3, <3>1, <3>3, <3>4, <3>5 DEF KeyRest
  <2> QED BY <2>2, <2>3
<1>2. a.quantity = << >> <=> b.quantity = << >>
  BY <1>0, <1>1
<1>3. CASE a.quantity = << >>
  BY <1>2, <1>3
<1>4. CASE a.quantity # << >>
  <2>1. "Quantity" \in Written
    BY DEF Written
  <2>2. PICK x \in Seq(Piece), y \in Seq(Piece) :
            x = KeyTail(Built(a)) /\ y = KeyTail(Built(b))
    BY TailOfKey
  <2>3. Joined(QuantityLine(a), x) = Joined(QuantityLine(b), y)
    BY <1>2, <1>4, <2>2 DEF KeyRest
  <2>4. /\ <<Decimal(a.quantity[1])>> \in Seq(Piece)
        /\ a.quantity[1] \in Amounts /\ a.quantity = <<a.quantity[1]>>
        /\ ValuePiece(a.quantity) \in Piece
    BY <1>4, LinesTyped
  <2>5. /\ <<Decimal(b.quantity[1])>> \in Seq(Piece)
        /\ b.quantity[1] \in Amounts /\ b.quantity = <<b.quantity[1]>>
        /\ ValuePiece(b.quantity) \in Piece
    BY <1>2, <1>4, LinesTyped
  <2>6. ValuePiece(a.quantity) = ValuePiece(b.quantity)
    <3>1. PICK l \in Seq(Piece), m \in Seq(Piece) :
              l = <<Decimal(a.quantity[1])>> /\ m = <<Decimal(b.quantity[1])>>
      BY <2>4, <2>5
    <3>2. Joined(AtomLine(Atom("Quantity", l, a.quantity)), x)
              = Joined(AtomLine(Atom("Quantity", m, b.quantity)), y)
      BY <2>3, <3>1, Zenon DEF QuantityLine
    <3>3. ValuePiece(a.quantity) \in Piece /\ ValuePiece(b.quantity) \in Piece
      BY <2>4, <2>5
    <3> QED BY <2>1, <3>2, <3>3, AtomLinePeels
  <2>7. Decimal(a.quantity[1]) = Decimal(b.quantity[1])
    BY <1>2, <1>4, <2>6 DEF ValuePiece
  <2>8. a.quantity[1] = b.quantity[1]
    BY <2>4, <2>5, <2>7, DecimalsApart
  <2> QED BY <2>4, <2>5, <2>8
<1> QED BY <1>3, <1>4

\* Keys tell sound facts apart just as MNCS does: by their names, their object
\* and their quantity.
LEMMA KeysApart ==
    ASSUME NEW a, NEW b, SoundFacts(a), SoundFacts(b),
           SemanticKey(Built(a)) = SemanticKey(Built(b))
    PROVE  MncsEqual(a, b)
<1>1. /\ EventLine \in Seq(Piece)
      /\ a.source \in Seq(Piece) /\ a.target \in Seq(Piece)
      /\ b.source \in Seq(Piece) /\ b.target \in Seq(Piece)
  BY LinesTyped DEF SoundFacts, Bounded
<1>2. /\ ObjectLabel(a) \in Seq(Piece) /\ ObjectKind(a) \in Written
      /\ ObjectLabel(b) \in Seq(Piece) /\ ObjectKind(b) \in Written
  BY ObjectLabels
<1>3. PICK r \in Seq(Piece), x \in Seq(Piece), y \in Seq(Piece), z \in Seq(Piece) :
          /\ r = KeyRest(a) /\ x = Joined(ObjectLine(a), r)
          /\ y = Joined(Entity(a.target), x) /\ z = Joined(Entity(a.source), y)
          /\ SemanticKey(Built(a)) = Joined(EventLine, z)
  BY KeyOfBuilt, LinesTyped, JoinedTyped
<1>4. PICK s \in Seq(Piece), u \in Seq(Piece), v \in Seq(Piece), w \in Seq(Piece) :
          /\ s = KeyRest(b) /\ u = Joined(ObjectLine(b), s)
          /\ v = Joined(Entity(b.target), u) /\ w = Joined(Entity(b.source), v)
          /\ SemanticKey(Built(b)) = Joined(EventLine, w)
  BY KeyOfBuilt, LinesTyped, JoinedTyped
<1>5. z = w
  <2>1. Joined(EventLine, z) = Joined(EventLine, w)
    BY <1>3, <1>4
  <2> QED BY <1>1, <2>1, JoinedCancels
<1>6. a.source = b.source /\ y = v
  <2>1. Joined(Entity(a.source), y) = Joined(Entity(b.source), v)
    BY <1>3, <1>4, <1>5
  <2> QED BY <1>1, <2>1, EntityPeels
<1>7. a.target = b.target /\ x = u
  <2>1. Joined(Entity(a.target), x) = Joined(Entity(b.target), u)
    BY <1>3, <1>4, <1>6
  <2> QED BY <1>1, <2>1, EntityPeels
<1>8. ObjectKind(a) = ObjectKind(b) /\ ObjectLabel(a) = ObjectLabel(b) /\ r = s
  <2>1. Joined(ObjectLine(a), r) = Joined(ObjectLine(b), s)
    BY <1>3, <1>4, <1>7
  <2> QED BY <1>2, <2>1, NoValue, AtomLinePeels DEF ObjectLine
<1>9. a.quantity = b.quantity
  BY <1>3, <1>4, <1>8, QuantitiesApart
<1>10. /\ a.object_code = b.object_code
       /\ a.object_code = UnknownObject => a.object_spelling = b.object_spelling
  BY <1>8, ObjectsApart
<1>11. /\ a.event = b.event
       /\ Len(a.source) <= MaxSpelling /\ Len(a.target) <= MaxSpelling
       /\ Len(a.object_spelling) <= MaxSpelling
  BY DEF SoundFacts, Bounded
<1> QED BY <1>6, <1>7, <1>9, <1>10, <1>11 DEF MncsEqual, CodesEqual, SpellEqual

\* Facts equal in what MNCS compares have fragments of one key.
LEMMA EqualFactsOneKey ==
    ASSUME NEW a, NEW b, SoundFacts(a), SoundFacts(b), MncsEqual(a, b)
    PROVE  SemanticKey(Built(a)) = SemanticKey(Built(b))
<1>1. /\ a.source = b.source /\ a.target = b.target
      /\ a.object_code = b.object_code /\ a.quantity = b.quantity
      /\ a.object_code = UnknownObject => a.object_spelling = b.object_spelling
  BY DEF MncsEqual, CodesEqual, SpellEqual
<1>2. ObjectKind(a) = ObjectKind(b)
  BY <1>1 DEF ObjectKind
<1>3. ObjectLabel(a) = ObjectLabel(b)
  <2>1. a.object_code \in {Apple, Orange, UnknownObject}
    BY DEF SoundFacts
  <2> QED BY <1>1, <2>1, ObjectLabels
<1>4. Built(a).atoms = Built(b).atoms
  BY <1>1, <1>2, <1>3, Zenon DEF Built, Assemble, ObjectKind
<1>5. Built(a).relations = Built(b).relations
  <2>1. ASSUME NEW c
        PROVE  Built(c).relations
                   = [i \in 1..(Len(Built(c).atoms) - 1) |->
                         [role |-> Roles[i], event |-> 0, target |-> i]]
    BY Zenon DEF Built, Assemble
  <2> QED BY <1>4, <2>1, Zenon
<1>6. Built(a).unknowns = Built(b).unknowns
  <2>1. ASSUME NEW c
        PROVE  Built(c).unknowns = IF c.object_code = UnknownObject
                                   THEN <<c.object_spelling>> ELSE << >>
    BY Zenon DEF Built, Assemble
  <2> QED BY <1>1, <2>1
<1> QED BY <1>4, <1>5, <1>6, Zenon DEF SemanticKey

-----------------------------------------------------------------------------
(* Words of a text. *)

\* A set of positions has a first, a second, and so on to its last.
LEMMA NthPosition ==
    ASSUME NEW n \in Nat, NEW S \in SUBSET (1..n), NEW j \in 1..Cardinality(S)
    PROVE  \E i \in S : Cardinality(S \cap 1..i) = j
<1> DEFINE Upto(i) == S \cap 1..i
           T == {i \in 0..n : Cardinality(Upto(i)) >= j}
<1>1. ASSUME NEW i \in 0..n
      PROVE  IsFiniteSet(Upto(i)) /\ Cardinality(Upto(i)) \in Nat
  <2>1. IsFiniteSet(1..i)
    BY FS_Interval
  <2>2. Upto(i) \in SUBSET (1..i)
    OBVIOUS
  <2> HIDE DEF Upto
  <2>3. IsFiniteSet(Upto(i))
    BY <2>1, <2>2, FS_Subset
  <2> QED BY <2>3, FS_CardinalityType
<1>2. Upto(n) = S /\ n \in 0..n
  <2>1. Upto(n) = S
    BY Zenon
  <2>2. n \in 0..n
    OBVIOUS
  <2> HIDE DEF Upto
  <2> QED BY <2>1, <2>2
<1>3. PICK i \in T : \A k \in T : i <= k
  <2>1. T \in SUBSET Nat
    OBVIOUS
  <2>2. n \in T
    <3>1. Cardinality(S) \in Nat
      BY <1>1, <1>2
    <3> HIDE DEF Upto
    <3> QED BY <1>2, <3>1
  <2> HIDE DEF T
  <2> QED BY <2>1, <2>2, LeastNumber
<1>4. i \in 0..n /\ Cardinality(Upto(i)) >= j
  BY <1>3
<1> HIDE DEF Upto
<1>5. i # 0
  <2> SUFFICES ASSUME i = 0 PROVE FALSE
    OBVIOUS
  <2>1. Upto(0) = {}
    BY DEF Upto
  <2>2. Cardinality(Upto(i)) = 0
    BY <2>1, FS_EmptySet
  <2> QED BY <1>4, <2>2
<1>6. i - 1 \in 0..n /\ i \in 1..n /\ ~(i <= i - 1)
  BY <1>4, <1>5
<1>7. ~(Cardinality(Upto(i - 1)) >= j)
  BY <1>3, <1>6
<1> HIDE DEF T
<1>8. i \in S /\ Upto(i) = Upto(i - 1) \cup {i}
  <2>1. i \notin S => Upto(i) = Upto(i - 1)
    BY <1>6 DEF Upto
  <2>2. i \in S => Upto(i) = Upto(i - 1) \cup {i}
    BY <1>6 DEF Upto
  <2> QED BY <1>4, <1>7, <2>1, <2>2
<1>9. i \notin Upto(i - 1)
  BY <1>6 DEF Upto
<1>10. Cardinality(Upto(i)) = Cardinality(Upto(i - 1)) + 1
  BY <1>1, <1>6, <1>8, <1>9, FS_AddElement
<1>11. Cardinality(Upto(i)) = j
  <2>1. PICK c \in Nat : c = Cardinality(Upto(i - 1))
    BY <1>1, <1>6
  <2>2. ~(c >= j) /\ c + 1 >= j
    BY <1>4, <1>7, <1>10, <2>1
  <2>3. c + 1 = j
    BY <2>2
  <2> QED BY <1>10, <2>1, <2>3
<1> QED BY <1>8, <1>11 DEF Upto

LEMMA MaxFromNone ==
    ASSUME NEW n \in Nat, NEW S \in SUBSET (1..n)
    PROVE  Max({0} \cup S) \in 0..n
<1> DEFINE T == {0} \cup S
<1>1. \E x \in T : \A y \in T : x >= y
  <2>1. CASE S = {}
    BY <2>1
  <2>2. CASE S # {}
    <3>1. Max(S) \in S /\ \A i \in S : i <= Max(S)
      BY <2>2, MaxOfPositions
    <3>2. PICK x \in 1..n : x = Max(S)
      BY <3>1
    <3>3. x \in T /\ x >= 0 /\ \A i \in S : x >= i
      BY <3>1, <3>2
    <3> QED BY <3>3
  <2> QED BY <2>1, <2>2
<1>2. Max(T) \in T
  <2> HIDE DEF T
  <2> QED BY <1>1 DEF Max
<1>3. T \in SUBSET (0..n)
  OBVIOUS
<1> HIDE DEF T
<1>4. Max(T) \in 0..n
  BY <1>2, <1>3
<1> QED BY <1>4 DEF T

LEMMA EffectiveLengthTyped ==
    ASSUME NEW text \in Seq(Piece)
    PROVE  EffectiveLength(text) \in 0..Len(text)
<1>1. PICK n \in Nat : n = Len(text)
  OBVIOUS
<1>2. ASSUME NEW m \in 0..n PROVE WithoutSpaces(text, m) \in 0..m
  <2>1. {k \in 1..m : text[k] # Space} \in SUBSET (1..m) /\ m \in Nat
    OBVIOUS
  <2> QED BY <2>1, MaxFromNone DEF WithoutSpaces
<1>3. PICK k \in 0..n : k = WithoutSpaces(text, n)
  BY <1>2
<1>4. CASE k > 0
  <2>1. k - 1 \in 0..n
    BY <1>4
  <2>2. WithoutSpaces(text, k - 1) \in 0..(k - 1)
    BY <1>2, <2>1
  <2>3. WithoutSpaces(text, k - 1) \in 0..n
    BY <2>2
  <2> QED BY <1>1, <1>3, <2>3 DEF EffectiveLength
<1>5. CASE ~(k > 0)
  BY <1>1, <1>3, <1>5 DEF EffectiveLength
<1> QED BY <1>4, <1>5

\* Every word is a piece of the text.
LEMMA WordsAreSlices ==
    ASSUME NEW text \in Seq(Piece), NEW n \in 0..Len(text)
    PROVE  LET spans == SplitWords(text, n)
           IN  /\ Len(spans) \in Nat
               /\ \A j \in 1..Len(spans) : Slice(text, spans[j]) \in Seq(Piece)
<1> DEFINE starts == WordStarts(text, n)
           nth(j) == CHOOSE i \in starts : Cardinality(starts \cap 1..i) = j
           spans == SplitWords(text, n)
<1>1. n \in Nat /\ starts \in SUBSET (1..n)
  BY DEF WordStarts
<1>2. Cardinality(starts) \in Nat
  <2>1. IsFiniteSet(1..n)
    BY <1>1, FS_Interval
  <2> HIDE DEF starts
  <2>2. IsFiniteSet(starts)
    BY <1>1, <2>1, FS_Subset
  <2> QED BY <2>2, FS_CardinalityType
<1>3. spans = [j \in 1..Cardinality(starts) |->
                  [start |-> nth(j),
                   length |-> WordEnd(text, n, nth(j)) - nth(j) + 1]]
  BY Zenon DEF SplitWords
<1>4. ASSUME NEW j \in 1..Cardinality(starts)
      PROVE  nth(j) \in 1..n /\ WordEnd(text, n, nth(j)) \in nth(j)..n
  <2>1. nth(j) \in starts
    <3> HIDE DEF starts
    <3>1. \E i \in starts : Cardinality(starts \cap 1..i) = j
      BY <1>1, NthPosition
    <3> QED BY <3>1
  <2>2. PICK i \in 1..n : i = nth(j)
    BY <1>1, <2>1
  <2> HIDE DEF nth
  <2> DEFINE T == {k \in i..n : k = n \/ text[k + 1] = Space}
  <2>3. T \in SUBSET Nat /\ n \in T /\ T \in SUBSET (i..n)
    BY <1>1
  <2>4. WordEnd(text, n, i) = Min(T)
    BY DEF WordEnd
  <2> HIDE DEF T
  <2>5. Min(T) \in T
    BY <2>3, MinOfNumbers
  <2> QED BY <2>2, <2>3, <2>4, <2>5
<1> HIDE DEF nth, spans, starts
<1>5. Len(spans) = Cardinality(starts)
  BY <1>2, <1>3
<1>6. ASSUME NEW j \in 1..Len(spans) PROVE Slice(text, spans[j]) \in Seq(Piece)
  <2>1. j \in 1..Cardinality(starts)
    BY <1>5
  <2>2. PICK a \in 1..n, e \in 1..n :
            a = nth(j) /\ e = WordEnd(text, n, nth(j)) /\ a <= e
    BY <1>1, <1>4, <2>1
  <2>3. spans[j].start = a /\ spans[j].length = e - a + 1
    BY <1>3, <2>1, <2>2
  <2>4. Slice(text, spans[j]) = SubSeq(text, a, e)
    <3>1. a + (e - a + 1) - 1 = e
      BY <1>1
    <3> QED BY <2>3, <3>1 DEF Slice
  <2>5. a \in 1..Len(text) + 1 /\ e \in (a - 1)..Len(text)
    <3>1. PICK m \in Nat : m = Len(text) /\ n \in 0..m
      OBVIOUS
    <3>2. a \in 1..m + 1 /\ e \in (a - 1)..m
      BY <1>1, <2>2, <3>1
    <3> QED BY <3>1, <3>2
  <2>6. SubSeq(text, a, e) \in Seq(Piece)
    BY <2>5, PieceProperties
  <2> QED BY <2>4, <2>6
<1> QED BY <1>2, <1>5, <1>6 DEF spans

\* The number digits spell, three of them at most.
LEMMA DigitsRun ==
    ASSUME NEW s \in Seq(0..9), Len(s) <= 3
    PROVE  FoldLeft(LAMBDA acc, d : acc * 10 + d, 0, s) \in Amounts
<1> DEFINE total == FoldLeft(LAMBDA acc, d : acc * 10 + d, 0, s)
           Recurs(f, n) ==
               f = [T \in SUBSET (1..n) |->
                       IF T = {} THEN 0
                       ELSE f[T \ {Max(T)}] * 10 + s[Max(T)]]
           step == [i \in 1..Len(s) |-> [v \in Nat |-> v * 10 + s[i]]]
<1>1. Len(s) \in Nat /\ DOMAIN s = 1..Len(s) /\ \A i \in 1..Len(s) : s[i] \in 0..9
  OBVIOUS
<1>2. \A i \in 1..Len(s) : \A v \in Nat :
          step[i][v] = v * 10 + s[i] /\ step[i][v] \in Nat
  BY <1>1
<1>3. total = (CHOOSE f : Recurs(f, Len(s)))[1..Len(s)]
  BY <1>1 DEF FoldLeft, MapThenFoldSet
<1> HIDE DEF step, total
<1>4. PICK n \in Nat : n = Len(s)
  BY <1>1
<1>5. PICK f : FoldOf(f, n, Nat, 0, step)
  <2> DEFINE V == Nat
             base == 0
  <2>1. base \in V /\ \A i \in 1..n : \A v \in V : step[i][v] \in V
    BY <1>2, <1>4
  <2> HIDE DEF V, base
  <2>2. \E f : FoldOf(f, n, V, base, step)
    BY <2>1, SetRecursion
  <2> QED BY <2>2 DEF V, base
<1>6. \E h : Recurs(h, n)
  <2>1. ASSUME NEW T \in SUBSET (1..n), T # {}
        PROVE  step[Max(T)][f[T \ {Max(T)}]] = f[T \ {Max(T)}] * 10 + s[Max(T)]
    <3>1. Max(T) \in 1..n /\ f[T \ {Max(T)}] \in Nat
      BY <1>5, <2>1, MaxOfPositions DEF FoldOf
    <3> QED BY <1>2, <1>4, <3>1
  <2>2. Recurs(f, n)
    BY <1>5, <2>1 DEF FoldOf
  <2> QED BY <2>2
<1>7. PICK g : Recurs(g, n) /\ total = g[1..n]
  <2> HIDE DEF Recurs
  <2> QED BY <1>3, <1>4, <1>6
<1>8. FoldsIn(g, n, Nat, 0, step)
  <2>1. ASSUME NEW T \in (SUBSET (1..n)) \ {{}}, g[T \ {Max(T)}] \in Nat
        PROVE  g[T] = step[Max(T)][g[T \ {Max(T)}]]
    <3>1. Max(T) \in 1..n
      BY MaxOfPositions
    <3>2. g[T] = g[T \ {Max(T)}] * 10 + s[Max(T)]
      BY <1>7
    <3> QED BY <1>2, <1>4, <2>1, <3>1, <3>2
  <2>2. g[{}] = 0
    BY <1>7
  <2> QED BY <2>1, <2>2 DEF FoldsIn
<1> HIDE DEF Recurs
<1>9. PICK run \in [0..n -> Nat] :
          /\ run[0] = 0 /\ g[1..n] = run[n]
          /\ \A i \in 1..n : run[i] = step[i][run[i - 1]]
  <2> DEFINE V == Nat
             base == 0
  <2>1. base \in V /\ \A i \in 1..n : \A v \in V : step[i][v] \in V
    BY <1>2, <1>4
  <2>2. FoldsIn(g, n, V, base, step)
    BY <1>8
  <2> HIDE DEF V, base
  <2>3. \E run \in [0..n -> V] :
            /\ run[0] = base /\ g[1..n] = run[n]
            /\ \A i \in 1..n : run[i] = step[i][run[i - 1]]
    BY <2>1, <2>2, FoldRuns
  <2> QED BY <2>3 DEF V, base
<1>10. ASSUME NEW i \in 1..n
       PROVE  run[i - 1] \in Nat /\ run[i] = run[i - 1] * 10 + s[i] /\ s[i] \in 0..9
  <2>1. i - 1 \in 0..n
    OBVIOUS
  <2>2. run[i - 1] \in Nat
    BY <2>1
  <2> QED BY <1>1, <1>2, <1>4, <1>9, <2>2
<1>11. n >= 1 => run[1] \in 0..9
  <2> SUFFICES ASSUME n >= 1 PROVE run[1] \in 0..9
    OBVIOUS
  <2>1. PICK d \in 0..9 : d = s[1] /\ run[1] = run[0] * 10 + d
    <3>1. 1 \in 1..n /\ 1 - 1 = 0
      OBVIOUS
    <3> QED BY <1>10, <3>1
  <2> QED BY <1>9, <2>1
<1>12. n >= 2 => run[2] \in 0..99
  <2> SUFFICES ASSUME n >= 2 PROVE run[2] \in 0..99
    OBVIOUS
  <2>1. PICK d \in 0..9 : d = s[2] /\ run[2] = run[1] * 10 + d
    <3>1. 2 \in 1..n /\ 2 - 1 = 1
      OBVIOUS
    <3> QED BY <1>10, <3>1
  <2>2. PICK r \in 0..9 : r = run[1]
    BY <1>11
  <2>3. run[2] = r * 10 + d
    BY <2>1, <2>2
  <2>4. r * 10 + d \in 0..99
    OBVIOUS
  <2> QED BY <2>3, <2>4
<1>13. n >= 3 => run[3] \in 0..999
  <2> SUFFICES ASSUME n >= 3 PROVE run[3] \in 0..999
    OBVIOUS
  <2>1. PICK d \in 0..9 : d = s[3] /\ run[3] = run[2] * 10 + d
    <3>1. 3 \in 1..n /\ 3 - 1 = 2
      OBVIOUS
    <3> QED BY <1>10, <3>1
  <2>2. PICK r \in 0..99 : r = run[2]
    BY <1>12
  <2>3. run[3] = r * 10 + d
    BY <2>1, <2>2
  <2>4. r * 10 + d \in 0..999
    OBVIOUS
  <2> QED BY <2>3, <2>4
<1>14. n = 0 \/ n = 1 \/ n = 2 \/ n = 3
  BY <1>4
<1>15. 0 \in Amounts /\ 0..9 \subseteq Amounts /\ 0..99 \subseteq Amounts
  BY DEF Amounts
<1>16. run[n] \in Amounts
  <2>1. CASE n = 0
    BY <1>9, <1>15, <2>1
  <2>2. CASE n = 1
    <3>1. n >= 1
      BY <2>2
    <3>2. run[1] \in Amounts
      BY <1>11, <1>15, <3>1
    <3> QED BY <2>2, <3>2
  <2>3. CASE n = 2
    <3>1. n >= 2
      BY <2>3
    <3>2. run[2] \in Amounts
      BY <1>12, <1>15, <3>1
    <3> QED BY <2>3, <3>2
  <2>4. CASE n = 3
    <3>1. n >= 3
      BY <2>4
    <3>2. run[3] \in 0..999
      BY <1>13, <3>1
    <3>3. run[3] \in Amounts
      BY <3>2 DEF Amounts
    <3> QED BY <2>4, <3>3
  <2> QED BY <1>14, <2>1, <2>2, <2>3, <2>4
<1> QED BY <1>7, <1>9, <1>16 DEF total

\* A word read as a number is one from 0 to 999.
LEMMA WordNumbers ==
    ASSUME NEW word \in Seq(Piece), ClassifyWordNumber(word).ok
    PROVE  ClassifyWordNumber(word).value \in Amounts
<1>1. CASE IsOneOf(word, {NumberWords[n] : n \in 1..Len(NumberWords)})
  <2>1. Len(NumberWords) = 11
    BY DEF NumberWords
  <2>2. PICK n \in 1..11 : NumberWords[n] = word[1].fold
    BY <1>1, <2>1 DEF IsOneOf
  <2>3. n - 1 \in 0..10 /\ NumberWords[(n - 1) + 1] = word[1].fold
    BY <2>2
  <2>4. (CHOOSE m \in 0..10 : NumberWords[m + 1] = word[1].fold) \in 0..10
    BY <2>3
  <2>5. ClassifyWordNumber(word).value
            = CHOOSE m \in 0..10 : NumberWords[m + 1] = word[1].fold
    BY <1>1, Zenon DEF ClassifyWordNumber
  <2>6. 0..10 \subseteq Amounts
    BY DEF Amounts
  <2> QED BY <2>4, <2>5, <2>6
<1>2. CASE ~IsOneOf(word, {NumberWords[n] : n \in 1..Len(NumberWords)})
  <2>1. ClassifyWordNumber(word) = ClassifyDigits(word)
    BY <1>2, Zenon DEF ClassifyWordNumber
  <2> DEFINE Spells == /\ Len(word) = 1 /\ word[1].shape = "digits"
                       /\ Len(word[1].digits) <= 3
  <2>2. Spells
    <3> SUFFICES ASSUME ~Spells PROVE FALSE
      OBVIOUS
    <3>1. ClassifyDigits(word) = NotANumber
      BY Zenon DEF ClassifyDigits
    <3>2. ~NotANumber.ok
      BY DEF NotANumber
    <3> QED BY <2>1, <3>1, <3>2
  <2>3. word[1].digits \in Seq(0..9)
    <3>1. Len(word) = 1
      BY <2>2
    <3> HIDE DEF Spells
    <3>2. word[1] \in Piece
      BY <3>1
    <3> QED BY <3>2 DEF Piece
  <2>4. ClassifyDigits(word).value
            = FoldLeft(LAMBDA acc, d : acc * 10 + d, 0, word[1].digits)
    <3> DEFINE total == FoldLeft(LAMBDA acc, d : acc * 10 + d, 0, word[1].digits)
    <3>1. ClassifyDigits(word) = [ok |-> TRUE, value |-> total]
      BY <2>2, Zenon DEF ClassifyDigits
    <3> HIDE DEF total
    <3>2. ClassifyDigits(word).value = total
      BY <3>1
    <3> QED BY <3>2 DEF total
  <2> QED BY <2>1, <2>2, <2>3, <2>4, DigitsRun
<1> QED BY <1>1, <1>2

\* The class of a word says what the word is.
LEMMA ClassMeans ==
    ASSUME NEW word
    PROVE  /\ ClassifyWord(word) = "entity" => Len(word) \in 1..MaxSpelling
           /\ ClassifyWord(word) \in ObjectClasses => Len(word) \in 1..MaxSpelling
           /\ ClassifyWord(word) = "number" => ClassifyWordNumber(word).ok
<1>1. ClassifyWord(word) = "entity" => IsEntityWord(word)
  BY DEF ClassifyWord
<1>2. ClassifyWord(word) = "candidate" => IsCandidateWord(word)
  BY DEF ClassifyWord
<1>3. ClassifyWord(word) = "object" => ClassifyObject(word) # UnknownObject
  BY DEF ClassifyWord
<1>4. ClassifyWord(word) = "number" => ClassifyWordNumber(word).ok
  BY DEF ClassifyWord
<1>5. ClassifyObject(word) # UnknownObject => Len(word) = 1
  BY DEF ClassifyObject, IsOneOf
<1>6. 1 \in 1..MaxSpelling
  BY IngestAssumption
<1>7. ClassifyWord(word) \in ObjectClasses =>
          ClassifyWord(word) = "object" \/ ClassifyWord(word) = "candidate"
  BY DEF ObjectClasses
<1>8. IsEntityWord(word) => Len(word) \in 1..MaxSpelling
  BY DEF IsEntityWord
<1>9. IsCandidateWord(word) => Len(word) \in 1..MaxSpelling
  BY DEF IsCandidateWord
<1> QED BY <1>1, <1>2, <1>3, <1>4, <1>5, <1>6, <1>7, <1>8, <1>9

LEMMA FirstIsThere ==
    ASSUME NEW S \in SUBSET Nat, FirstOf(S) # NoWord
    PROVE  FirstOf(S) \in S
<1>1. S # {}
  BY DEF FirstOf
<1> QED BY <1>1, MinOfNumbers DEF FirstOf

\* Every role that is filled is filled by a word of its class.
LEMMA RolesAreFilled ==
    ASSUME NEW n \in Nat, NEW classes, Len(classes) = n
    PROVE  LET roles == AssignRoles(classes)
           IN  /\ roles.source # NoWord =>
                      roles.source \in 1..n /\ classes[roles.source] = "entity"
               /\ roles.target # NoWord =>
                      roles.target \in 1..n /\ classes[roles.target] = "entity"
               /\ roles.object # NoWord =>
                      roles.object \in 1..n /\ classes[roles.object] \in ObjectClasses
               /\ roles.quantity # NoWord =>
                      roles.quantity \in 1..n /\ classes[roles.quantity] = "number"
<1> DEFINE roles == AssignRoles(classes)
           verb == FirstOf(Of(classes, VerbClasses))
           from == FirstOf(Of(classes, {"from"}))
           side == SourceSide(classes, verb, from)
           after == (verb + 1)..Len(classes)
           entities == Of(classes, {"entity"})
           things == Of(classes, ObjectClasses)
           numbers == Of(classes, {"number"})
<1>1. /\ roles.source = FirstOf(entities \cap side)
      /\ roles.target = FirstOf(entities \ side)
      /\ roles.object = FirstOf(things \cap after)
      /\ roles.quantity = FirstOf(numbers \cap after)
  BY DEF AssignRoles
<1>2. ASSUME NEW wanted, NEW j \in Of(classes, wanted)
      PROVE  j \in Nat /\ j \in 1..n /\ classes[j] \in wanted
  BY <1>2 DEF Of
<1> HIDE DEF roles, verb, from, side, after
<1>3. ASSUME NEW wanted, NEW S \in SUBSET Of(classes, wanted), FirstOf(S) # NoWord
      PROVE  FirstOf(S) \in 1..n /\ classes[FirstOf(S)] \in wanted
  <2>1. S \in SUBSET Nat
    BY <1>2, <1>3
  <2>2. FirstOf(S) \in S
    BY <1>3, <2>1, FirstIsThere
  <2> QED BY <1>2, <1>3, <2>2
<1>4. roles.source # NoWord =>
          roles.source \in 1..n /\ classes[roles.source] \in {"entity"}
  <2>1. entities \cap side \in SUBSET entities
    OBVIOUS
  <2> QED BY <1>1, <1>3, <2>1
<1>5. roles.target # NoWord =>
          roles.target \in 1..n /\ classes[roles.target] \in {"entity"}
  <2>1. entities \ side \in SUBSET entities
    OBVIOUS
  <2> QED BY <1>1, <1>3, <2>1
<1>6. roles.object # NoWord =>
          roles.object \in 1..n /\ classes[roles.object] \in ObjectClasses
  <2>1. things \cap after \in SUBSET things
    OBVIOUS
  <2> QED BY <1>1, <1>3, <2>1
<1>7. roles.quantity # NoWord =>
          roles.quantity \in 1..n /\ classes[roles.quantity] \in {"number"}
  <2>1. numbers \cap after \in SUBSET numbers
    OBVIOUS
  <2> QED BY <1>1, <1>3, <2>1
<1> QED BY <1>4, <1>5, <1>6, <1>7 DEF roles

\* A text that parses gives facts within all bounds.
LEMMA ParsesAreSound ==
    ASSUME NEW text \in Seq(Piece), ParseTransfer(text).status = "ok"
    PROVE  LET parse == ParseTransfer(text)
           IN  /\ Bounded(Slice(text, parse.source))
               /\ Bounded(Slice(text, parse.target))
               /\ Bounded(Slice(text, parse.object))
               /\ parse.object_code \in {Apple, Orange, UnknownObject}
               /\ parse.quantity \in {<< >>} \cup {<<q>> : q \in Amounts}
<1> DEFINE n == EffectiveLength(text)
           spans == SplitWords(text, n)
           words == [j \in 1..Len(spans) |-> Slice(text, spans[j])]
           classes == [j \in 1..Len(words) |-> ClassifyWord(words[j])]
           verbs == Cardinality(Of(classes, VerbClasses))
           roles == AssignRoles(classes)
           status == FinishAssign(words, classes, roles)
<1>1. /\ status = "ok"
      /\ ParseTransfer(text) = TransferParse(spans, words, roles)
  <2>1. ParseTransfer(text) =
            IF n = 0 THEN FailParse("empty")
            ELSE IF Len(spans) > MaxWords THEN FailParse("bad_shape")
            ELSE IF verbs = 0 THEN FailParse("unsupported_verb")
            ELSE IF verbs > 1 THEN FailParse("bad_shape")
            ELSE IF status = "ok" THEN TransferParse(spans, words, roles)
            ELSE FailParse(status)
    BY Zenon DEF ParseTransfer
  <2> HIDE DEF n, spans, words, classes, verbs, roles, status
  <2>2. \A fault : FailParse(fault).status = fault
    BY DEF FailParse
  <2> QED BY <2>1, <2>2
<1>2. n \in 0..Len(text)
  BY EffectiveLengthTyped
<1> HIDE DEF n
<1>3. Len(spans) \in Nat /\ \A j \in 1..Len(spans) : Slice(text, spans[j]) \in Seq(Piece)
  BY <1>2, WordsAreSlices
<1> HIDE DEF spans
<1>4. PICK m \in Nat : m = Len(spans)
  BY <1>3
<1>5. /\ Len(words) = m /\ \A j \in 1..m : words[j] = Slice(text, spans[j])
      /\ \A j \in 1..m : words[j] \in Seq(Piece)
  BY <1>3, <1>4
<1> HIDE DEF words
<1>6. Len(classes) = m /\ \A j \in 1..m : classes[j] = ClassifyWord(words[j])
  BY <1>5
<1> HIDE DEF classes
<1>7. ~ParticipantMissing(classes, roles)
  <2> HIDE DEF roles
  <2> QED BY <1>1 DEF FinishAssign
<1>8. roles.source # NoWord /\ roles.target # NoWord /\ roles.object # NoWord
  <2> HIDE DEF roles
  <2> QED BY <1>7 DEF ParticipantMissing
<1>9. /\ roles.source # NoWord =>
             roles.source \in 1..m /\ classes[roles.source] = "entity"
      /\ roles.target # NoWord =>
             roles.target \in 1..m /\ classes[roles.target] = "entity"
      /\ roles.object # NoWord =>
             roles.object \in 1..m /\ classes[roles.object] \in ObjectClasses
      /\ roles.quantity # NoWord =>
             roles.quantity \in 1..m /\ classes[roles.quantity] = "number"
  BY <1>4, <1>6, RolesAreFilled
<1> HIDE DEF roles, status
<1>10. /\ ParseTransfer(text).source = spans[roles.source]
       /\ ParseTransfer(text).target = spans[roles.target]
       /\ ParseTransfer(text).object = spans[roles.object]
       /\ ParseTransfer(text).object_code = ClassifyObject(words[roles.object])
       /\ ParseTransfer(text).quantity =
              IF roles.quantity = NoWord THEN << >>
              ELSE <<ClassifyWordNumber(words[roles.quantity]).value>>
  BY <1>1 DEF TransferParse
<1>11. Bounded(Slice(text, ParseTransfer(text).source))
  <2>1. words[roles.source] = Slice(text, ParseTransfer(text).source)
    BY <1>5, <1>8, <1>9, <1>10
  <2> QED BY <1>5, <1>6, <1>8, <1>9, <2>1, ClassMeans DEF Bounded
<1>12. Bounded(Slice(text, ParseTransfer(text).target))
  <2>1. words[roles.target] = Slice(text, ParseTransfer(text).target)
    BY <1>5, <1>8, <1>9, <1>10
  <2> QED BY <1>5, <1>6, <1>8, <1>9, <2>1, ClassMeans DEF Bounded
<1>13. Bounded(Slice(text, ParseTransfer(text).object))
  <2>1. words[roles.object] = Slice(text, ParseTransfer(text).object)
    BY <1>5, <1>8, <1>9, <1>10
  <2> QED BY <1>5, <1>6, <1>8, <1>9, <2>1, ClassMeans DEF Bounded
<1>14. ParseTransfer(text).object_code \in {Apple, Orange, UnknownObject}
  BY <1>10 DEF ClassifyObject
<1>15. ParseTransfer(text).quantity \in {<< >>} \cup {<<q>> : q \in Amounts}
  <2>1. CASE roles.quantity = NoWord
    BY <1>10, <2>1
  <2>2. CASE roles.quantity # NoWord
    <3>1. /\ words[roles.quantity] \in Seq(Piece)
          /\ ClassifyWordNumber(words[roles.quantity]).ok
      BY <1>5, <1>6, <1>9, <2>2, ClassMeans
    <3>2. ClassifyWordNumber(words[roles.quantity]).value \in Amounts
      BY <3>1, WordNumbers
    <3> QED BY <1>10, <2>2, <3>2
  <2> QED BY <2>1, <2>2
<1> QED BY <1>11, <1>12, <1>13, <1>14, <1>15

-----------------------------------------------------------------------------
(* What the adapters hand on. *)

\* A fragment of facts, whatever its provenance.
FragmentOf(f, facts) ==
    /\ f.schema = FragmentSchemaVersion
    /\ f.atoms = Built(facts).atoms
    /\ f.relations = Built(facts).relations
    /\ f.unknowns = Built(facts).unknowns

LEMMA AssembledOf ==
    ASSUME NEW adapter, NEW raw, NEW facts
    PROVE  LET ingested == Assemble(adapter, raw, facts,
                                    facts.object_code = UnknownObject)
           IN  ingested.facts = facts /\ FragmentOf(ingested.fragment, facts)
BY DEF Assemble, Built, FragmentOf

LEMMA UnknownIsUnknown ==
    ASSUME NEW code \in {Apple, Orange, UnknownObject}, NEW quantity
    PROVE  CanonicalStatus(code, quantity) = "unknown" <=> code = UnknownObject
BY DEF CanonicalStatus, ObjectStatus, Apple, Orange, UnknownObject

LEMMA FactsFields ==
    ASSUME NEW event, NEW source, NEW target, NEW code, NEW spelling, NEW quantity
    PROVE  LET facts == Facts(event, source, target, code, spelling, quantity)
           IN  /\ facts.event = event /\ facts.source = source
               /\ facts.target = target /\ facts.object_code = code
               /\ facts.object_spelling = spelling /\ facts.quantity = quantity
BY DEF Facts

\* What is ingested, is ingested soundly.
SoundlyIngested(ingested) ==
    ingested.status = "ok" =>
        /\ SoundFacts(ingested.facts)
        /\ FragmentOf(ingested.fragment, ingested.facts)

LEMMA RefusedSoundly ==
    ASSUME NEW error, error # "ok"
    PROVE  SoundlyIngested(Refuse(error))
BY DEF SoundlyIngested, Refuse

LEMMA AssembledSoundly ==
    ASSUME NEW adapter, NEW raw, NEW facts, NEW unknown, SoundFacts(facts),
           unknown = (CanonicalStatus(facts.object_code, facts.quantity) = "unknown")
    PROVE  SoundlyIngested(Assemble(adapter, raw, facts, unknown))
<1>1. facts.object_code \in {Apple, Orange, UnknownObject}
  BY DEF SoundFacts
<1>2. unknown = (facts.object_code = UnknownObject)
  BY <1>1, UnknownIsUnknown
<1> QED BY <1>2, AssembledOf DEF SoundlyIngested

\* What the text adapter lets through is a fragment of sound facts.
LEMMA TextIsSound ==
    ASSUME NEW text \in Seq(Piece)
    PROVE  SoundlyIngested(IngestText(text))
<1> DEFINE parse == ParseTransfer(text)
           word(span) == Slice(text, span)
           facts == Facts(EventTransfer, word(parse.source), word(parse.target),
                          parse.object_code, word(parse.object), parse.quantity)
           unknown == CanonicalStatus(parse.object_code, parse.quantity) = "unknown"
<1>1. IngestText(text) =
          IF Len(text) > MaxText THEN Refuse("overlong")
          ELSE IF parse.status # "ok" THEN Refuse(parse.status)
          ELSE Assemble("text", text, facts, unknown)
  BY Zenon DEF IngestText
<1>2. CASE Len(text) > MaxText
  BY <1>1, <1>2, RefusedSoundly
<1>3. CASE ~(Len(text) > MaxText) /\ parse.status # "ok"
  <2> HIDE DEF parse, facts, unknown
  <2>1. IngestText(text) = Refuse(parse.status)
    BY <1>1, <1>3
  <2> QED BY <1>3, <2>1, RefusedSoundly
<1>4. CASE ~(Len(text) > MaxText) /\ parse.status = "ok"
  <2>1. /\ facts.event = EventTransfer /\ facts.source = word(parse.source)
        /\ facts.target = word(parse.target)
        /\ facts.object_code = parse.object_code
        /\ facts.object_spelling = word(parse.object)
        /\ facts.quantity = parse.quantity
    <3> HIDE DEF parse, word
    <3> QED BY FactsFields
  <2> HIDE DEF facts
  <2>2. SoundFacts(facts)
    BY <1>4, <2>1, ParsesAreSound DEF SoundFacts
  <2>3. unknown = (CanonicalStatus(facts.object_code, facts.quantity) = "unknown")
    BY <2>1
  <2>4. IngestText(text) = Assemble("text", text, facts, unknown)
    <3> HIDE DEF parse, unknown
    <3> QED BY <1>1, <1>4
  <2> HIDE DEF parse, unknown
  <2>5. SoundlyIngested(Assemble("text", text, facts, unknown))
    BY <2>2, <2>3, AssembledSoundly, Zenon
  <2> QED BY <2>4, <2>5, Zenon
<1> QED BY <1>2, <1>3, <1>4

LEMMA ValidQuantity ==
    ASSUME NEW event, NEW quantity \in Seq(Int), Len(quantity) <= 1,
           ValidateStructured(event, TRUE, TRUE, quantity) = "ok"
    PROVE  event = EventTransfer /\ quantity \in {<< >>} \cup {<<q>> : q \in Amounts}
<1>1. event = EventTransfer /\ (quantity # << >> => quantity[1] \in 0..999)
  BY DEF ValidateStructured
<1>2. CASE quantity = << >>
  BY <1>1, <1>2
<1>3. CASE quantity # << >>
  <2>1. Len(quantity) = 1
    <3>1. PICK n \in Nat : n = Len(quantity) /\ n <= 1
      OBVIOUS
    <3>2. n # 0
      BY <1>3, <3>1, EmptySeq
    <3> QED BY <3>1, <3>2
  <2>2. quantity = <<quantity[1]>>
    BY <2>1
  <2>3. quantity[1] \in Amounts
    BY <1>1, <1>3 DEF Amounts
  <2> QED BY <1>1, <2>2, <2>3
<1> QED BY <1>2, <1>3

LEMMA FieldIsBounded ==
    ASSUME NEW doc \in Documents, NEW field, field # "event",
           FieldStatus(doc, field) = "ok"
    PROVE  Bounded(doc[field].text)
<1>1. field \in DOMAIN doc
  BY DEF FieldStatus
<1>2. doc[field].text \in Seq(Piece)
  BY <1>1, InputsAssumption
<1>3. doc[field].text # << >> /\ ~(Len(doc[field].text) > MaxSpelling)
  BY <1>1 DEF FieldStatus
<1>4. Len(doc[field].text) \in Nat \ {0}
  BY <1>2, <1>3
<1>5. MaxSpelling \in Nat
  BY IngestAssumption
<1> QED BY <1>2, <1>3, <1>4, <1>5 DEF Bounded

\* And what the structured adapter lets through,
LEMMA DocumentIsSound ==
    ASSUME NEW doc \in Documents
    PROVE  SoundlyIngested(IngestStructured(doc))
<1> DEFINE code == ClassifyObject(doc["object"].text)
           facts == Facts(Event(doc), doc["from"].text, doc["to"].text,
                          code, doc["object"].text, Quantity(doc))
           unknown == CanonicalStatus(code, Quantity(doc)) = "unknown"
<1>1. IngestStructured(doc) =
          IF DocumentStatus(doc) # "ok" THEN Refuse(DocumentStatus(doc))
          ELSE Assemble("structured", doc, facts, unknown)
  BY Zenon DEF IngestStructured
<1>2. CASE DocumentStatus(doc) # "ok"
  <2> HIDE DEF facts, unknown
  <2>1. IngestStructured(doc) = Refuse(DocumentStatus(doc))
    BY <1>1, <1>2
  <2> QED BY <1>2, <2>1, RefusedSoundly
<1>3. CASE DocumentStatus(doc) = "ok"
  <2>1. /\ FieldStatus(doc, "from") = "ok" /\ FieldStatus(doc, "to") = "ok"
        /\ FieldStatus(doc, "object") = "ok"
        /\ ValidateStructured(Event(doc), TRUE, TRUE, Quantity(doc)) = "ok"
    BY <1>3, Zenon DEF DocumentStatus
  <2>2. /\ Bounded(doc["from"].text) /\ Bounded(doc["to"].text)
        /\ Bounded(doc["object"].text)
    BY <2>1, FieldIsBounded
  <2>3. Quantity(doc) \in Seq(Int) /\ Len(Quantity(doc)) <= 1
    <3>1. CASE "quantity" \in DOMAIN doc
      <4>1. PICK q \in Int : q = doc["quantity"].number
        BY <3>1, InputsAssumption
      <4>2. Quantity(doc) = <<q>>
        BY <3>1, <4>1 DEF Quantity
      <4> QED BY <4>2
    <3>2. CASE "quantity" \notin DOMAIN doc
      BY <3>2 DEF Quantity
    <3> QED BY <3>1, <3>2
  <2>4. /\ Event(doc) = EventTransfer
        /\ Quantity(doc) \in {<< >>} \cup {<<q>> : q \in Amounts}
    BY <2>1, <2>3, ValidQuantity
  <2>5. code \in {Apple, Orange, UnknownObject}
    BY DEF ClassifyObject
  <2>6. /\ facts.event = Event(doc) /\ facts.source = doc["from"].text
        /\ facts.target = doc["to"].text /\ facts.object_code = code
        /\ facts.object_spelling = doc["object"].text
        /\ facts.quantity = Quantity(doc)
    <3> HIDE DEF code
    <3> QED BY FactsFields
  <2> HIDE DEF code, facts
  <2>7. SoundFacts(facts)
    BY <2>2, <2>4, <2>5, <2>6 DEF SoundFacts
  <2>8. unknown = (CanonicalStatus(facts.object_code, facts.quantity) = "unknown")
    BY <2>6
  <2> HIDE DEF unknown
  <2>9. IngestStructured(doc) = Assemble("structured", doc, facts, unknown)
    BY <1>1, <1>3
  <2> QED BY <2>7, <2>8, <2>9, AssembledSoundly
<1> QED BY <1>2, <1>3

LEMMA NativeSpellingBounded ==
    ASSUME NEW value \in Natives, ObjectFieldStatus(value) = "ok"
    PROVE  /\ value.object_code \in {Apple, Orange, UnknownObject}
           /\ Bounded(NativeSpelling(value))
<1> DEFINE code == value.object_code
           spelling == value.object_spelling
<1>1. spelling \in Seq(Seq(Piece)) /\ (spelling # << >> => spelling[1] \in Seq(Piece))
  BY InputsAssumption
<1>2. 1 \in 1..MaxSpelling /\ MaxSpelling \in Nat
  BY IngestAssumption
<1>3. Apple # UnknownObject /\ Orange # UnknownObject /\ Apple # Orange
  BY DEF Apple, Orange, UnknownObject
<1>4. ASSUME NEW word \in Seq(Piece), Len(word) = 1 PROVE Bounded(word)
  BY <1>2, <1>4 DEF Bounded
<1>5. CASE code \in {Apple, Orange} /\ spelling = << >>
  <2>1. NativeSpelling(value) =
            ObjectLabel([object_code |-> code, object_spelling |-> << >>])
    BY <1>5, Zenon DEF NativeSpelling
  <2>2. ObjectLabel([object_code |-> code, object_spelling |-> << >>])
            \in {<<Lower("apple")>>, <<Lower("orange")>>}
    BY <1>3, <1>5 DEF ObjectLabel
  <2>3. Lower("apple") \in Piece /\ Lower("orange") \in Piece
    <3>1. "apple" \in Written /\ "orange" \in Written
      BY DEF Written
    <3> QED BY <3>1, WrittenPiece
  <2>4. Bounded(<<Lower("apple")>>) /\ Bounded(<<Lower("orange")>>)
    <3>1. ASSUME NEW p \in Piece PROVE <<p>> \in Seq(Piece) /\ Len(<<p>>) = 1
      OBVIOUS
    <3> QED BY <1>4, <2>3, <3>1
  <2> QED BY <1>5, <2>1, <2>2, <2>4
<1>6. CASE code \in {Apple, Orange} /\ spelling # << >>
  <2>1. ObjectSpellingMatches(spelling[1], code)
    BY <1>3, <1>6 DEF ObjectFieldStatus
  <2>2. ClassifyObject(spelling[1]) # UnknownObject
    BY <1>3, <1>6, <2>1 DEF ObjectSpellingMatches
  <2>3. Len(spelling[1]) = 1
    BY <2>2 DEF ClassifyObject, IsOneOf
  <2>4. NativeSpelling(value) = spelling[1]
    BY <1>6, Zenon DEF NativeSpelling
  <2> QED BY <1>1, <1>4, <1>6, <2>3, <2>4
<1>7. CASE code = UnknownObject
  <2>1. spelling # << >> /\ SpellingStatus(spelling[1]) = "ok"
    BY <1>3, <1>7 DEF ObjectFieldStatus
  <2>2. spelling[1] # << >> /\ ~(Len(spelling[1]) > MaxSpelling)
    BY <2>1 DEF SpellingStatus
  <2>3. NativeSpelling(value) = spelling[1]
    BY <2>1, Zenon DEF NativeSpelling
  <2>4. Len(spelling[1]) \in Nat \ {0}
    BY <1>1, <2>1, <2>2, EmptySeq
  <2> QED BY <1>1, <1>2, <1>7, <2>1, <2>2, <2>3, <2>4 DEF Bounded
<1>8. code \in {Apple, Orange, UnknownObject}
  BY DEF ObjectFieldStatus
<1> QED BY <1>5, <1>6, <1>7, <1>8

\* and what the native adapter lets through.
LEMMA NativeIsSound ==
    ASSUME NEW value \in Natives
    PROVE  SoundlyIngested(IngestNative(value))
<1> DEFINE spelling == NativeSpelling(value)
           facts == Facts(value.event_code, value.source, value.target,
                          value.object_code, spelling, value.quantity)
           unknown == CanonicalStatus(value.object_code, value.quantity) = "unknown"
           raw == NativeSignal(value)
<1>1. IngestNative(value) =
          IF NativeStatus(value) # "ok" THEN Refuse(NativeStatus(value))
          ELSE Assemble("native", raw, facts, unknown)
  BY Zenon DEF IngestNative
<1>2. CASE NativeStatus(value) # "ok"
  <2> HIDE DEF facts, unknown, raw
  <2>1. IngestNative(value) = Refuse(NativeStatus(value))
    BY <1>1, <1>2
  <2> QED BY <1>2, <2>1, RefusedSoundly
<1>3. CASE NativeStatus(value) = "ok"
  <2>1. /\ << >> \notin {value.source, value.target}
        /\ ~(Len(value.source) > MaxSpelling) /\ ~(Len(value.target) > MaxSpelling)
        /\ ObjectFieldStatus(value) = "ok"
        /\ ValidateStructured(value.event_code, TRUE, TRUE, value.quantity) = "ok"
    BY <1>3 DEF NativeStatus
  <2>2. /\ value.source \in Seq(Piece) /\ value.target \in Seq(Piece)
        /\ value.quantity \in Seq(Int) /\ Len(value.quantity) <= 1
    BY InputsAssumption
  <2>3. MaxSpelling \in Nat
    BY IngestAssumption
  <2>4. Bounded(value.source) /\ Bounded(value.target)
    <3>1. ASSUME NEW word \in Seq(Piece), word # << >>, ~(Len(word) > MaxSpelling)
          PROVE  Bounded(word)
      <4>1. Len(word) \in Nat \ {0}
        BY <3>1, EmptySeq
      <4> QED BY <2>3, <3>1, <4>1 DEF Bounded
    <3> QED BY <2>1, <2>2, <3>1
  <2>5. /\ value.object_code \in {Apple, Orange, UnknownObject} /\ Bounded(spelling)
    BY <2>1, NativeSpellingBounded
  <2>6. /\ value.event_code = EventTransfer
        /\ value.quantity \in {<< >>} \cup {<<q>> : q \in Amounts}
    BY <2>1, <2>2, ValidQuantity
  <2> HIDE DEF spelling
  <2>7. /\ facts.event = value.event_code /\ facts.source = value.source
        /\ facts.target = value.target /\ facts.object_code = value.object_code
        /\ facts.object_spelling = spelling /\ facts.quantity = value.quantity
    BY FactsFields
  <2> HIDE DEF facts, raw
  <2>8. SoundFacts(facts)
    BY <2>4, <2>5, <2>6, <2>7 DEF SoundFacts
  <2>9. unknown = (CanonicalStatus(facts.object_code, facts.quantity) = "unknown")
    BY <2>7
  <2> HIDE DEF unknown
  <2>10. SoundlyIngested(Assemble("native", raw, facts, unknown))
    BY <2>8, <2>9, AssembledSoundly, Zenon
  <2>11. IngestNative(value) = Assemble("native", raw, facts, unknown)
    BY <1>1, <1>3
  <2> QED BY <2>10, <2>11, Zenon
<1> QED BY <1>2, <1>3

\* A host that writes another schema changes nothing else.
LEMMA SchemaRewritten ==
    ASSUME NEW value, NEW schema, IngestNative(value).status = "ok"
    PROVE  LET ingested == IngestNative(value)
               handed == [ingested EXCEPT !.fragment.schema = schema]
           IN  /\ handed.facts = ingested.facts
               /\ handed.fragment.schema = schema
               /\ handed.fragment.atoms = ingested.fragment.atoms
               /\ handed.fragment.relations = ingested.fragment.relations
               /\ handed.fragment.unknowns = ingested.fragment.unknowns
<1> DEFINE facts == Facts(value.event_code, value.source, value.target,
                          value.object_code, NativeSpelling(value), value.quantity)
           unknown == CanonicalStatus(value.object_code, value.quantity) = "unknown"
           raw == NativeSignal(value)
<1>1. IngestNative(value) = Assemble("native", raw, facts, unknown)
  <2>1. IngestNative(value) =
            IF NativeStatus(value) # "ok" THEN Refuse(NativeStatus(value))
            ELSE Assemble("native", raw, facts, unknown)
    BY Zenon DEF IngestNative
  <2> HIDE DEF facts, unknown, raw
  <2>2. NativeStatus(value) = "ok"
    <3> SUFFICES ASSUME NativeStatus(value) # "ok" PROVE FALSE
      OBVIOUS
    <3>1. IngestNative(value) = Refuse(NativeStatus(value))
      BY <2>1
    <3> QED BY <3>1 DEF Refuse
  <2> QED BY <2>1, <2>2
<1> HIDE DEF facts, unknown, raw
<1>2. PICK fragment :
          /\ IngestNative(value) = [status |-> "ok", facts |-> facts, fragment |-> fragment]
          /\ fragment = [schema |-> fragment.schema, atoms |-> fragment.atoms,
                         relations |-> fragment.relations,
                         unknowns |-> fragment.unknowns,
                         provenance |-> fragment.provenance]
  <2> DEFINE g == Assemble("native", raw, facts, unknown).fragment
  <2>1. Assemble("native", raw, facts, unknown)
            = [status |-> "ok", facts |-> facts, fragment |-> g]
    BY DEF Assemble
  <2>2. g = [schema |-> g.schema, atoms |-> g.atoms, relations |-> g.relations,
             unknowns |-> g.unknowns, provenance |-> g.provenance]
    BY DEF Assemble
  <2> HIDE DEF g
  <2> QED BY <1>1, <2>1, <2>2
<1> QED BY <1>2

LEMMA TextTyped ==
    ASSUME NEW sentence \in Sentences
    PROVE  TextOf(sentence) \in Seq(Piece)
<1> DEFINE words == sentence.words
           spaced == [j \in 1..Len(words) |->
                         (IF j = 1 THEN << >> ELSE <<Space>>) \o words[j]]
<1>1. words \in Seq(Seq(Piece)) /\ sentence.end \in Seq(Piece)
  BY InputsAssumption
<1>2. <<Space>> \in Seq(Piece) /\ << >> \in Seq(Piece)
  <2>1. " " \in Written
    BY DEF Written
  <2>2. Space \in Piece
    BY <2>1, WrittenPiece DEF Space
  <2> QED BY <2>2
<1>3. TextOf(sentence) = FlattenSeq(spaced) \o sentence.end
  BY Zenon DEF TextOf
<1> HIDE DEF words
<1>4. PICK n \in Nat : n = Len(words) /\ \A j \in 1..n : words[j] \in Seq(Piece)
  BY <1>1
<1>5. ASSUME NEW j \in 1..n
      PROVE  (IF j = 1 THEN << >> ELSE <<Space>>) \o words[j] \in Seq(Piece)
  <2>1. PICK a \in Seq(Piece), b \in Seq(Piece) :
            a = (IF j = 1 THEN << >> ELSE <<Space>>) /\ b = words[j]
    BY <1>2, <1>4
  <2>2. Joined(a, b) \in Seq(Piece)
    BY JoinedTyped
  <2> QED BY <2>1, <2>2, Zenon DEF Joined
<1>6. spaced \in [1..n -> Seq(Piece)]
  BY <1>4, <1>5
<1> HIDE DEF spaced
<1>7. spaced \in Seq(Seq(Piece))
  BY <1>6, IsASeq
<1>8. PICK a \in Seq(Piece), b \in Seq(Piece) :
          a = FlattenSeq(spaced) /\ b = sentence.end
  BY <1>1, <1>7, FlattenTyped
<1>9. Joined(a, b) \in Seq(Piece)
  BY JoinedTyped
<1> QED BY <1>3, <1>8, <1>9, Zenon DEF Joined

-----------------------------------------------------------------------------
(* The consumer. *)

Held(entry) == SoundFacts(entry.facts) /\ FragmentOf(entry.fragment, entry.facts)

Entries == {received[i] : i \in 1..Len(received)}

\* Everything held is a fragment of sound facts.
IInv ==
    /\ received \in Seq(Entries)
    /\ Len(received) <= MaxReceived
    /\ \A i \in 1..Len(received) : Held(received[i])

LEMMA IngestInit ==
    Init => IInv
<1> SUFFICES ASSUME Init PROVE IInv
  OBVIOUS
<1>1. received = << >> /\ MaxReceived \in Nat
  BY IngestAssumption DEF Init
<1>2. << >> \in Seq(Entries) /\ Len(<< >>) = 0
  BY EmptySeq
<1> QED BY <1>1, <1>2 DEF IInv

\* Whoever hands it on, the consumer keeps only fragments of sound facts.
LEMMA HandKeeps ==
    ASSUME IInv, NEW adapter, NEW input, NEW ingested, SoundlyIngested(ingested),
           Hand(adapter, input, ingested)
    PROVE  IInv'
<1>1. CASE UNCHANGED received
  BY <1>1 DEF IInv, Entries
<1>2. CASE ~UNCHANGED received
  <2> DEFINE entry == [adapter |-> adapter, input |-> input,
                       facts |-> ingested.facts, fragment |-> ingested.fragment,
                       receipt |-> Receipt(ingested.fragment)]
  <2>1. /\ ingested.status = "ok" /\ received' = Append(received, entry)
        /\ Len(received) < MaxReceived
    BY <1>2 DEF Hand, Accept
  <2>2. Held(entry)
    BY <2>1 DEF SoundlyIngested, Held
  <2> HIDE DEF entry
  <2> DEFINE S == Entries \cup {entry}
  <2>3. received \in Seq(S) /\ entry \in S
    <3>1. Entries \subseteq S
      OBVIOUS
    <3> QED BY <3>1, SeqMonotonic DEF IInv
  <2> HIDE DEF S
  <2>4. PICK n \in Nat : n = Len(received) /\ n < MaxReceived
    BY <2>1, <2>3
  <2>5. /\ received' \in Seq(S) /\ Len(received') = n + 1
        /\ \A i \in 1..n : received'[i] = received[i]
        /\ received'[n + 1] = entry
    BY <2>1, <2>3, <2>4, AppendProperties
  <2>6. \A i \in 1..Len(received') : Held(received'[i])
    <3> SUFFICES ASSUME NEW i \in 1..(n + 1) PROVE Held(received'[i])
      BY <2>5
    <3>1. i \in 1..n \/ i = n + 1
      BY <2>4
    <3> QED BY <2>2, <2>4, <2>5, <3>1 DEF IInv
  <2>7. received' \in Seq(Entries')
    <3>1. PICK s \in Seq(S), m \in Nat : s = received' /\ m = Len(s)
      BY <2>5
    <3>2. s = [i \in 1..m |-> s[i]]
      BY <3>1
    <3>3. Entries' = {s[i] : i \in 1..m}
      BY <3>1 DEF Entries
    <3>4. s \in [1..m -> Entries']
      BY <3>2, <3>3
    <3> QED BY <3>1, <3>4, IsASeq
  <2>8. Len(received') <= MaxReceived
    BY <2>4, <2>5, IngestAssumption
  <2> QED BY <2>6, <2>7, <2>8 DEF IInv
<1> QED BY <1>1, <1>2

\* Each adapter's action keeps the invariant.
LEMMA IngestNext ==
    ASSUME IInv, [Next]_vars
    PROVE  IInv'
<1>1. CASE UNCHANGED vars
  BY <1>1 DEF vars, IInv, Entries
<1>2. ASSUME NEW s \in Sentences, Text(s) PROVE IInv'
  <2>1. SoundlyIngested(IngestText(TextOf(s)))
    BY TextTyped, TextIsSound
  <2> QED BY <1>2, <2>1, HandKeeps DEF Text
<1>3. ASSUME NEW d \in Documents, Structured(d) PROVE IInv'
  <2>1. SoundlyIngested(IngestStructured(d))
    BY DocumentIsSound
  <2> QED BY <1>3, <2>1, HandKeeps DEF Structured
<1>4. ASSUME NEW v \in Natives, NEW schema \in Schemas, Native(v, schema) PROVE IInv'
  <2> DEFINE ingested == IngestNative(v)
             handed == IF ingested.status = "ok"
                       THEN [ingested EXCEPT !.fragment.schema = schema] ELSE ingested
  <2>1. SoundlyIngested(ingested)
    BY NativeIsSound
  <2>2. Hand("native", v, handed)
    BY <1>4 DEF Native
  <2> HIDE DEF ingested
  <2>3. CASE ingested.status # "ok"
    <3>1. handed = ingested
      BY <2>3
    <3> QED BY <2>1, <2>2, <3>1, HandKeeps
  <2>4. CASE ingested.status = "ok" /\ handed.fragment.schema = FragmentSchemaVersion
    <3>1. /\ handed.facts = ingested.facts
          /\ handed.fragment.atoms = ingested.fragment.atoms
          /\ handed.fragment.relations = ingested.fragment.relations
          /\ handed.fragment.unknowns = ingested.fragment.unknowns
      <4>1. handed = [ingested EXCEPT !.fragment.schema = schema]
        BY <2>4
      <4> HIDE DEF handed
      <4>2. IngestNative(v).status = "ok"
        BY <2>4 DEF ingested
      <4> QED BY <4>1, <4>2, SchemaRewritten DEF ingested
    <3>2. SoundlyIngested(handed)
      <4> HIDE DEF handed
      <4> QED BY <2>1, <2>4, <3>1 DEF SoundlyIngested, FragmentOf
    <3> HIDE DEF handed
    <3> QED BY <2>2, <3>2, HandKeeps
  <2>5. CASE ingested.status = "ok" /\ handed.fragment.schema # FragmentSchemaVersion
    <3> HIDE DEF handed
    <3>1. UNCHANGED received
      BY <2>2, <2>5 DEF Hand, Accept
    <3> QED BY <3>1 DEF IInv, Entries
  <2> QED BY <2>3, <2>4, <2>5
<1> QED BY <1>1, <1>2, <1>3, <1>4 DEF Next

\* The consumer (src/consumer.rs, EchoConsumer::accept) only ever holds fragments
\* that an adapter assembled of facts within all bounds, whatever a host hands it.
THEOREM IngestInvariant ==
    Spec => []IInv
<1>1. IInv /\ [Next]_vars => IInv'
  BY IngestNext
<1> QED BY IngestInit, <1>1, PTL DEF Spec

\* What the consumer holds (src/consumer.rs, EchoConsumer::accept) is well formed
\* whichever adapter made it: words within the bound, quantities from 0 to 999, an
\* event and a known code, as many relations as atoms but the event's.
THEOREM IngestTypeOK ==
    Spec => []TypeOK
<1>1. IInv => TypeOK
  <2> SUFFICES ASSUME IInv PROVE TypeOK
    OBVIOUS
  <2>1. Len(received) \in 0..MaxReceived
    BY IngestAssumption DEF IInv
  <2>2. ASSUME NEW i \in 1..Len(received)
        PROVE  LET facts == received[i].facts
                   f == received[i].fragment
               IN  /\ f.schema = FragmentSchemaVersion
                   /\ facts.event = EventTransfer
                   /\ facts.object_code \in {Apple, Orange, UnknownObject}
                   /\ Len(facts.source) \in 1..MaxSpelling
                   /\ Len(facts.target) \in 1..MaxSpelling
                   /\ Len(facts.object_spelling) \in 1..MaxSpelling
                   /\ facts.quantity \in {<< >>} \cup {<<q>> : q \in 0..999}
                   /\ Len(f.atoms) = 4 + Len(facts.quantity)
                   /\ Len(f.relations) = Len(f.atoms) - 1
    <3> DEFINE facts == received[i].facts
               f == received[i].fragment
    <3>1. SoundFacts(facts) /\ FragmentOf(f, facts)
      BY DEF IInv, Held
    <3> HIDE DEF facts, f
    <3>2. Len(f.atoms) = 4 + Len(facts.quantity)
      BY <3>1, BuiltAtoms DEF FragmentOf
    <3>3. Len(f.relations) = Len(f.atoms) - 1
      BY <3>1, BuiltRelationCount DEF FragmentOf
    <3>4. facts.quantity \in {<< >>} \cup {<<q>> : q \in 0..999}
      BY <3>1 DEF SoundFacts, Amounts
    <3>5. /\ Len(facts.source) \in 1..MaxSpelling
          /\ Len(facts.target) \in 1..MaxSpelling
          /\ Len(facts.object_spelling) \in 1..MaxSpelling
      BY <3>1 DEF SoundFacts, Bounded
    <3>6. /\ f.schema = FragmentSchemaVersion /\ facts.event = EventTransfer
          /\ facts.object_code \in {Apple, Orange, UnknownObject}
      BY <3>1 DEF SoundFacts, FragmentOf
    <3> QED BY <3>2, <3>3, <3>4, <3>5, <3>6 DEF facts, f
  <2> QED BY <2>1, <2>2 DEF TypeOK
<1> QED BY IngestInvariant, <1>1, PTL

\* tests/convergence.rs: the two equalities, that of MNCS by codes and spellings
\* (language/mncs/ingest/frame.mncs) and the host's by semantic key (src/ir.rs),
\* agree on everything the consumer may come to hold, whatever it was made of.
THEOREM IngestEqualitiesAgree ==
    Spec => []EqualitiesAgree
<1>1. IInv => EqualitiesAgree
  <2> SUFFICES ASSUME IInv, NEW i \in 1..Len(received), NEW j \in 1..Len(received)
               PROVE  MncsEqual(received[i].facts, received[j].facts)
                          <=> SemanticallyEqual(received[i].fragment,
                                                received[j].fragment)
    BY DEF EqualitiesAgree, Pairs
  <2> DEFINE a == received[i].facts
             b == received[j].facts
             f == received[i].fragment
             g == received[j].fragment
  <2>1. SoundFacts(a) /\ SoundFacts(b) /\ FragmentOf(f, a) /\ FragmentOf(g, b)
    BY DEF IInv, Held
  <2> HIDE DEF a, b, f, g
  <2>2. ASSUME NEW h, NEW facts, FragmentOf(h, facts)
        PROVE  SemanticKey(h) = SemanticKey(Built(facts))
    BY <2>2, Zenon DEF SemanticKey, FragmentOf
  <2>3. SemanticallyEqual(f, g) <=> SemanticKey(Built(a)) = SemanticKey(Built(b))
    <3>1. f.schema = g.schema
      BY <2>1 DEF FragmentOf
    <3>2. SemanticKey(f) = SemanticKey(Built(a)) /\ SemanticKey(g) = SemanticKey(Built(b))
      BY <2>1, <2>2
    <3> QED BY <3>1, <3>2 DEF SemanticallyEqual
  <2>4. MncsEqual(a, b) => SemanticKey(Built(a)) = SemanticKey(Built(b))
    BY <2>1, EqualFactsOneKey
  <2>5. SemanticKey(Built(a)) = SemanticKey(Built(b)) => MncsEqual(a, b)
    BY <2>1, KeysApart
  <2>6. MncsEqual(a, b) <=> SemanticallyEqual(f, g)
    BY <2>3, <2>4, <2>5, Zenon
  <2> QED BY <2>6 DEF a, b, f, g
<1> QED BY IngestInvariant, <1>1, PTL

-----------------------------------------------------------------------------
(* Where the words of a sentence stand in its text. *)

\* Where a text has so many pieces left without the spaces behind them.
LEMMA SpacesGo ==
    ASSUME NEW text, NEW n \in Nat, NEW k \in 0..n,
           k # 0 => text[k] # Space,
           \A i \in (k + 1)..n : text[i] = Space
    PROVE  WithoutSpaces(text, n) = k
<1> DEFINE T == {0} \cup {i \in 1..n : text[i] # Space}
<1>1. k \in T /\ \A i \in T : i <= k
  OBVIOUS
<1>2. WithoutSpaces(text, n) = Max(T)
  BY DEF WithoutSpaces
<1>3. T \in SUBSET Int /\ k \in Int
  OBVIOUS
<1> HIDE DEF T
<1>4. Max(T) \in T /\ \A i \in T : Max(T) >= i
  <2>1. \E m \in T : \A i \in T : m >= i
    BY <1>1, <1>3
  <2> QED BY <2>1, Zenon DEF Max
<1>5. PICK m \in Int : m = Max(T)
  BY <1>3, <1>4
<1>6. m >= k /\ m <= k
  BY <1>1, <1>4, <1>5
<1>7. m = k
  BY <1>3, <1>6
<1> QED BY <1>2, <1>5, <1>7

\* Where each word of a sentence ends in its text: words stand one space apart.
Laid(text, words, at) ==
    /\ at \in [0..Len(words) -> Nat]
    /\ at[0] = 0 /\ at[Len(words)] <= Len(text)
    /\ \A j \in 1..Len(words) :
           /\ at[j] = at[j - 1] + (IF j = 1 THEN 0 ELSE 1) + Len(words[j])
           /\ j # 1 => text[at[j - 1] + 1] = Space
           /\ \A i \in 1..Len(words[j]) :
                  text[at[j] - Len(words[j]) + i] = words[j][i]

\* Words of pieces, none of which is a space.
Wordy(words) ==
    /\ words \in Seq(Seq(Piece))
    /\ \A j \in 1..Len(words) :
           /\ words[j] # << >>
           /\ \A i \in 1..Len(words[j]) : words[j][i] # Space

\* Where a word begins, from the place its last piece is laid at.
Begins(words, at, j) == at[j] - Len(words[j]) + 1

\* A word behind another's end and a gap begins right after the gap.
LEMMA GapAndWord ==
    ASSUME NEW a \in Nat, NEW b \in Nat, NEW w \in Nat, NEW gap \in Nat, w # 0,
           b = a + gap + w
    PROVE  b - w + 1 = a + (gap + 1) /\ b - w + 1 \in 1..b
OBVIOUS

\* Where a word of so many pieces lies in a text.
LEMMA SpanOfWord ==
    ASSUME NEW t \in Nat, NEW b \in Nat, NEW c \in 1..b, NEW w \in Nat,
           c = b - w + 1, b <= t
    PROVE  c \in 1..t + 1 /\ b \in (c - 1)..t /\ w = b - c + 1
OBVIOUS

\* A word begins behind the last and its space, and is all that stands between.
LEMMA WordStands ==
    ASSUME NEW text, NEW words, NEW at, Wordy(words), Laid(text, words, at),
           NEW j \in 1..Len(words)
    PROVE  /\ at[j - 1] \in Nat /\ at[j] \in Nat /\ Begins(words, at, j) \in 1..at[j]
           /\ Begins(words, at, j) = at[j - 1] + (IF j = 1 THEN 1 ELSE 2)
           /\ \A i \in Begins(words, at, j)..at[j] : text[i] # Space
           /\ \A i \in 1..Len(words[j]) :
                  text[Begins(words, at, j) + i - 1] = words[j][i]
           /\ j # 1 => text[at[j - 1] + 1] = Space
<1>1. PICK m \in Nat : m = Len(words) /\ j \in 1..m
  BY DEF Wordy
<1>2. words[j] \in Seq(Piece) /\ words[j] # << >>
  BY DEF Wordy
<1>3. PICK w \in Nat : w = Len(words[j]) /\ w # 0
  BY <1>2
<1>4. j - 1 \in 0..m /\ j \in 0..m
  BY <1>1
<1>5. at[j - 1] \in Nat /\ at[j] \in Nat
  BY <1>1, <1>4 DEF Laid
<1>6. PICK a \in Nat, b \in Nat : a = at[j - 1] /\ b = at[j]
  BY <1>5
<1>7. /\ b = a + (IF j = 1 THEN 0 ELSE 1) + w
      /\ \A i \in 1..w : text[b - w + i] = words[j][i]
      /\ j # 1 => text[a + 1] = Space
      /\ j = 1 => a = 0
  <2>1. /\ at[j] = at[j - 1] + (IF j = 1 THEN 0 ELSE 1) + Len(words[j])
        /\ j # 1 => text[at[j - 1] + 1] = Space
        /\ \A i \in 1..Len(words[j]) : text[at[j] - Len(words[j]) + i] = words[j][i]
        /\ at[0] = 0
    BY Zenon DEF Laid
  <2>2. j = 1 => a = 0
    BY <1>6, <2>1
  <2> QED BY <1>3, <1>6, <2>1, <2>2
<1>8. Begins(words, at, j) = b - w + 1 /\ b - w + 1 = a + (IF j = 1 THEN 1 ELSE 2)
      /\ b - w + 1 \in 1..b
  <2>1. Begins(words, at, j) = b - w + 1
    BY <1>3, <1>6 DEF Begins
  <2>2. b = a + (IF j = 1 THEN 0 ELSE 1) + w
    BY <1>7
  <2>3. b - w + 1 = a + (IF j = 1 THEN 1 ELSE 2) /\ b - w + 1 \in 1..b
    <3>1. PICK gap \in 0..1 : gap = IF j = 1 THEN 0 ELSE 1
      OBVIOUS
    <3>2. b = a + gap + w /\ gap \in Nat
      BY <2>2, <3>1
    <3>3. b - w + 1 = a + (gap + 1) /\ b - w + 1 \in 1..b
      BY <1>3, <3>2, GapAndWord
    <3>4. gap + 1 = IF j = 1 THEN 1 ELSE 2
      BY <3>1
    <3> QED BY <3>3, <3>4
  <2> QED BY <2>1, <2>3
<1>9. \A i \in 1..w : text[b - w + 1 + i - 1] = words[j][i]
  <2> SUFFICES ASSUME NEW i \in 1..w PROVE text[b - w + 1 + i - 1] = words[j][i]
    OBVIOUS
  <2>1. b - w + 1 + i - 1 = b - w + i
    OBVIOUS
  <2> QED BY <1>7, <2>1
<1>10. \A i \in (b - w + 1)..b : text[i] # Space
  <2> SUFFICES ASSUME NEW i \in (b - w + 1)..b PROVE text[i] # Space
    OBVIOUS
  <2>1. PICK k \in 1..w : k = i - (b - w)
    OBVIOUS
  <2>2. b - w + k = i
    BY <2>1
  <2>3. text[i] = words[j][k]
    BY <1>7, <2>2
  <2> QED BY <1>3, <2>3 DEF Wordy
<1> QED BY <1>3, <1>5, <1>6, <1>7, <1>8, <1>9, <1>10

\* The words of a text begin where they are laid, and nowhere else.
LEMMA StartsAreBegins ==
    ASSUME NEW text, NEW words, NEW at, Wordy(words), Laid(text, words, at),
           NEW n, n = at[Len(words)]
    PROVE  /\ n \in Nat /\ WordStarts(text, n) \in SUBSET (1..n)
           /\ \A j \in 1..Len(words) :
                  /\ Begins(words, at, j) \in WordStarts(text, n)
                  /\ \A i \in WordStarts(text, n) :
                         at[j - 1] < i /\ i <= at[j] => i = Begins(words, at, j)
<1>1. PICK m \in Nat : m = Len(words) /\ m \in 0..m
  BY DEF Wordy
<1>2. /\ n \in Nat /\ \A j \in 0..m : at[j] \in Nat
  BY <1>1 DEF Laid
<1>3. \A j \in 1..m : at[j - 1] <= at[j]
  <2> SUFFICES ASSUME NEW j \in 1..m PROVE at[j - 1] <= at[j]
    OBVIOUS
  <2>1. PICK a \in Nat, b \in Nat, c \in Nat :
            /\ c \in 1..b /\ a = at[j - 1] /\ b = at[j] /\ c = Begins(words, at, j)
            /\ c = a + (IF j = 1 THEN 1 ELSE 2)
    <3>1. j \in 1..Len(words)
      BY <1>1
    <3>2. /\ at[j - 1] \in Nat /\ at[j] \in Nat /\ Begins(words, at, j) \in 1..at[j]
          /\ Begins(words, at, j) = at[j - 1] + (IF j = 1 THEN 1 ELSE 2)
      BY <3>1, WordStands
    <3> QED BY <3>2
  <2> QED BY <2>1
<1>4. \A j \in 0..m : at[j] <= n
  <2> DEFINE T == {k \in 0..m : at[m - k] <= n}
  <2>1. 0 \in T
    BY <1>1, <1>2
  <2>2. ASSUME NEW k \in 1..m, k - 1 \in T PROVE k \in T
    <3>1. m - k + 1 \in 1..m /\ m - (k - 1) = m - k + 1 /\ m - k + 1 - 1 = m - k
          /\ m - k \in 0..m
      OBVIOUS
    <3>2. at[m - k] <= at[m - k + 1]
      BY <1>3, <3>1
    <3>3. at[m - k] \in Nat /\ at[m - k + 1] \in Nat /\ at[m - k + 1] <= n
      BY <1>2, <2>2, <3>1
    <3>4. at[m - k] <= n
      BY <1>2, <3>2, <3>3
    <3> QED BY <3>4
  <2>3. T \in SUBSET (0..m)
    OBVIOUS
  <2> HIDE DEF T
  <2>4. T = 0..m
    BY <2>1, <2>2, <2>3, AtEveryPosition
  <2> SUFFICES ASSUME NEW j \in 0..m PROVE at[j] <= n
    OBVIOUS
  <2>5. m - j \in T /\ m - (m - j) = j
    BY <2>4
  <2> QED BY <2>5 DEF T
<1>5. WordStarts(text, n) \in SUBSET (1..n)
  BY DEF WordStarts
<1>6. ASSUME NEW j \in 1..m
      PROVE  /\ Begins(words, at, j) \in WordStarts(text, n)
             /\ \A i \in WordStarts(text, n) :
                    at[j - 1] < i /\ i <= at[j] => i = Begins(words, at, j)
  <2>1. PICK a \in Nat, b \in Nat, c \in Nat :
            /\ c \in 1..b /\ a = at[j - 1] /\ b = at[j] /\ c = Begins(words, at, j)
            /\ c = a + (IF j = 1 THEN 1 ELSE 2)
            /\ \A i \in c..b : text[i] # Space
            /\ j # 1 => text[a + 1] = Space
            /\ j = 1 => a = 0
    <3>1. j \in 1..Len(words)
      BY <1>1
    <3>2. j = 1 => at[j - 1] = 0
      BY DEF Laid
    <3>3. /\ at[j - 1] \in Nat /\ at[j] \in Nat /\ Begins(words, at, j) \in 1..at[j]
          /\ Begins(words, at, j) = at[j - 1] + (IF j = 1 THEN 1 ELSE 2)
          /\ \A i \in Begins(words, at, j)..at[j] : text[i] # Space
          /\ j # 1 => text[at[j - 1] + 1] = Space
      BY <3>1, WordStands
    <3> DEFINE c == Begins(words, at, j)
    <3>4. /\ c \in Nat /\ c = at[j - 1] + (IF j = 1 THEN 1 ELSE 2)
          /\ c \in 1..at[j] /\ \A i \in c..at[j] : text[i] # Space
      BY <3>3
    <3> HIDE DEF c
    <3>5. c = Begins(words, at, j)
      BY DEF c
    <3> QED BY <3>2, <3>3, <3>4, <3>5
  <2>2. b <= n /\ c \in 1..n
    BY <1>1, <1>2, <1>4, <2>1
  <2>3. c \in WordStarts(text, n)
    <3>1. text[c] # Space
      BY <2>1
    <3>2. c = 1 \/ text[c - 1] = Space
      <4>1. CASE j = 1
        BY <2>1, <4>1
      <4>2. CASE j # 1
        <5>1. c - 1 = a + 1
          BY <2>1, <4>2
        <5> QED BY <2>1, <4>2, <5>1
      <4> QED BY <4>1, <4>2
    <3> QED BY <2>2, <3>1, <3>2 DEF WordStarts
  <2>4. ASSUME NEW i \in WordStarts(text, n), a < i, i <= b
        PROVE  i = c
    <3>1. i \in 1..n /\ text[i] # Space /\ (i = 1 \/ text[i - 1] = Space)
      BY DEF WordStarts
    <3>2. ~(i > c)
      <4> SUFFICES ASSUME i > c PROVE FALSE
        OBVIOUS
      <4>1. i - 1 \in c..b /\ i # 1
        BY <2>1, <2>4, <3>1
      <4> QED BY <2>1, <3>1, <4>1
    <3>3. ~(i < c)
      <4> SUFFICES ASSUME i < c PROVE FALSE
        OBVIOUS
      <4>1. CASE j = 1
        BY <2>1, <2>4, <3>1, <4>1
      <4>2. CASE j # 1
        <5>1. i = a + 1
          BY <2>1, <2>4, <3>1, <4>2
        <5> QED BY <2>1, <3>1, <4>2, <5>1
      <4> QED BY <4>1, <4>2
    <3> QED BY <2>1, <3>1, <3>2, <3>3
  <2> QED BY <2>1, <2>3, <2>4
<1> QED BY <1>1, <1>2, <1>5, <1>6

\* So many words begin up to the end of each.
LEMMA StartsUpTo ==
    ASSUME NEW text, NEW words, NEW at, Wordy(words), Laid(text, words, at),
           NEW n, n = at[Len(words)]
    PROVE  /\ IsFiniteSet(WordStarts(text, n))
           /\ Cardinality(WordStarts(text, n)) = Len(words)
           /\ \A j \in 1..Len(words) :
                  Cardinality(WordStarts(text, n) \cap 1..Begins(words, at, j)) = j
<1> DEFINE S == WordStarts(text, n)
<1>1. PICK m \in Nat : m = Len(words) /\ m \in 0..m
  BY DEF Wordy
<1>2. /\ n \in Nat /\ S \in SUBSET (1..n)
      /\ \A j \in 1..m :
             /\ Begins(words, at, j) \in S
             /\ \A i \in S : at[j - 1] < i /\ i <= at[j] => i = Begins(words, at, j)
  BY <1>1, StartsAreBegins
<1>3. IsFiniteSet(S)
  <2> HIDE DEF S
  <2>1. IsFiniteSet(1..n)
    BY <1>2, FS_Interval
  <2> QED BY <1>2, <2>1, FS_Subset
<1>4. ASSUME NEW j \in 1..m
      PROVE  S \cap 1..at[j] = (S \cap 1..at[j - 1]) \cup {Begins(words, at, j)}
             /\ S \cap 1..Begins(words, at, j) = S \cap 1..at[j]
             /\ Begins(words, at, j) \notin S \cap 1..at[j - 1]
  <2>1. PICK a \in Nat, b \in Nat, c \in Nat :
            /\ c \in 1..b /\ a = at[j - 1] /\ b = at[j] /\ c = Begins(words, at, j) /\ a < c
    <3>1. PICK a \in Nat, b \in Nat, c \in Nat :
              /\ c \in 1..b /\ a = at[j - 1] /\ b = at[j] /\ c = Begins(words, at, j)
              /\ c = a + (IF j = 1 THEN 1 ELSE 2)
      <4>1. j \in 1..Len(words)
        BY <1>1
      <4>2. /\ at[j - 1] \in Nat /\ at[j] \in Nat
            /\ Begins(words, at, j) \in 1..at[j]
            /\ Begins(words, at, j) = at[j - 1] + (IF j = 1 THEN 1 ELSE 2)
        BY <4>1, WordStands
      <4> QED BY <4>2
    <3>2. a < c
      BY <3>1
    <3> QED BY <3>1, <3>2
  <2>2. c \in S /\ \A i \in S : a < i /\ i <= b => i = c
    BY <1>2, <2>1
  <2> HIDE DEF S
  <2>3. S \cap 1..b = (S \cap 1..a) \cup {c}
    <3>1. ASSUME NEW i \in S \cap 1..b PROVE i \in (S \cap 1..a) \cup {c}
      BY <2>1, <2>2
    <3>2. ASSUME NEW i \in (S \cap 1..a) \cup {c} PROVE i \in S \cap 1..b
      BY <2>1, <2>2
    <3> QED BY <3>1, <3>2
  <2>4. S \cap 1..c = S \cap 1..b
    <3>1. ASSUME NEW i \in S \cap 1..b PROVE i \in S \cap 1..c
      BY <2>1, <2>2
    <3>2. ASSUME NEW i \in S \cap 1..c PROVE i \in S \cap 1..b
      BY <2>1, <2>2
    <3> QED BY <3>1, <3>2
  <2>5. c \notin S \cap 1..a
    BY <2>1
  <2> QED BY <2>1, <2>3, <2>4, <2>5
<1> HIDE DEF S
<1>5. \A j \in 0..m : Cardinality(S \cap 1..at[j]) = j
  <2> DEFINE T == {j \in 0..m : Cardinality(S \cap 1..at[j]) = j}
  <2>1. 0 \in T
    <3>1. at[0] = 0
      BY DEF Laid
    <3>2. S \cap 1..at[0] = {}
      BY <3>1
    <3> QED BY <1>1, <3>2, FS_EmptySet
  <2>2. ASSUME NEW j \in 1..m, j - 1 \in T PROVE j \in T
    <3>1. Cardinality(S \cap 1..at[j - 1]) = j - 1
      BY <2>2
    <3>2. IsFiniteSet(S \cap 1..at[j - 1])
      BY <1>3, FS_Intersection
    <3> DEFINE Before == S \cap 1..at[j - 1]
    <3>3. /\ IsFiniteSet(Before) /\ Cardinality(Before) = j - 1
          /\ Begins(words, at, j) \notin Before
          /\ S \cap 1..at[j] = Before \cup {Begins(words, at, j)}
      BY <1>4, <3>1, <3>2
    <3> HIDE DEF Before
    <3>4. Cardinality(Before \cup {Begins(words, at, j)}) = Cardinality(Before) + 1
      <4>1. Cardinality(Before \cup {Begins(words, at, j)})
                = IF Begins(words, at, j) \in Before THEN Cardinality(Before)
                  ELSE Cardinality(Before) + 1
        BY <3>3, FS_AddElement
      <4> QED BY <3>3, <4>1
    <3>5. Cardinality(S \cap 1..at[j]) = j
      <4>1. Cardinality(S \cap 1..at[j]) = j - 1 + 1
        BY <3>3, <3>4, Zenon
      <4> QED BY <4>1
    <3> QED BY <3>5
  <2>3. T \in SUBSET (0..m)
    OBVIOUS
  <2> HIDE DEF T
  <2>4. T = 0..m
    BY <2>1, <2>2, <2>3, AtEveryPosition
  <2> QED BY <2>4 DEF T
<1>6. Cardinality(S) = m
  <2>1. S \cap 1..at[m] = S
    BY <1>1, <1>2
  <2> QED BY <1>1, <1>5, <2>1
<1>7. \A j \in 1..m : Cardinality(S \cap 1..Begins(words, at, j)) = j
  BY <1>4, <1>5
<1> QED BY <1>1, <1>3, <1>6, <1>7 DEF S

\* A word ends where it is laid: a space follows, or nothing.
LEMMA EndsWhereLaid ==
    ASSUME NEW text, NEW words, NEW at, Wordy(words), Laid(text, words, at),
           NEW n, n = at[Len(words)], NEW j \in 1..Len(words)
    PROVE  WordEnd(text, n, Begins(words, at, j)) = at[j]
<1>1. PICK m \in Nat : m = Len(words) /\ j \in 1..m /\ m \in 1..m
  <2>1. PICK m \in Nat : m = Len(words) /\ j \in 1..m
    BY DEF Wordy
  <2>2. m \in 1..m
    BY <2>1
  <2> QED BY <2>1, <2>2
<1>2. n \in Nat /\ WordStarts(text, n) \in SUBSET (1..n)
      /\ \A k \in 1..m : Begins(words, at, k) \in WordStarts(text, n)
  BY <1>1, StartsAreBegins
<1>3. PICK b \in Nat, c \in Nat :
          /\ b = at[j] /\ c = Begins(words, at, j) /\ c \in 1..b
          /\ \A i \in c..b : text[i] # Space
  <2>1. /\ at[j] \in Nat /\ Begins(words, at, j) \in 1..at[j]
        /\ \A i \in Begins(words, at, j)..at[j] : text[i] # Space
    BY WordStands
  <2> DEFINE c == Begins(words, at, j)
             b == at[j]
  <2>2. b \in Nat /\ c \in Nat /\ c \in 1..b /\ \A i \in c..b : text[i] # Space
    BY <2>1
  <2>3. c = Begins(words, at, j) /\ b = at[j]
    OBVIOUS
  <2> HIDE DEF b, c
  <2> QED BY <2>2, <2>3
<1>4. b <= n /\ (j = m => b = n) /\ (j # m => text[b + 1] = Space)
  <2>1. CASE j = m
    BY <1>1, <1>2, <1>3, <2>1
  <2>2. CASE j # m
    <3>1. j + 1 \in 1..m /\ j + 1 # 1 /\ j + 1 - 1 = j
      BY <1>1, <2>2
    <3> DEFINE k == j + 1
    <3>2. k \in 1..Len(words) /\ k # 1 /\ at[k - 1] = b
      BY <1>1, <1>3, <3>1
    <3> HIDE DEF k
    <3>3. /\ at[k - 1] \in Nat
          /\ Begins(words, at, k) = at[k - 1] + (IF k = 1 THEN 1 ELSE 2)
          /\ k # 1 => text[at[k - 1] + 1] = Space
      <4>1. k \in 1..Len(words)
        BY <3>2
      <4>2. at[k - 1] \in Nat
        BY <4>1, WordStands
      <4>3. Begins(words, at, k) = at[k - 1] + (IF k = 1 THEN 1 ELSE 2)
        BY <4>1, WordStands
      <4>4. k # 1 => text[at[k - 1] + 1] = Space
        BY <4>1, Zenon DEF Laid
      <4> QED BY <4>2, <4>3, <4>4
    <3>4. Begins(words, at, k) = b + 2 /\ text[b + 1] = Space
      BY <3>2, <3>3
    <3>5. Begins(words, at, k) \in 1..n
      BY <1>1, <1>2, <3>2
    <3>6. b <= n
      BY <1>2, <3>4, <3>5
    <3> QED BY <2>2, <3>4, <3>6
  <2> QED BY <2>1, <2>2
<1> DEFINE T == {k \in c..n : k = n \/ text[k + 1] = Space}
<1>5. WordEnd(text, n, c) = Min(T)
  BY DEF WordEnd
<1>6. b \in T /\ T \in SUBSET Nat
  BY <1>2, <1>3, <1>4
<1>7. \A k \in T : b <= k
  <2> SUFFICES ASSUME NEW k \in T, ~(b <= k) PROVE FALSE
    OBVIOUS
  <2>1. k \in c..n /\ (k = n \/ text[k + 1] = Space)
    OBVIOUS
  <2>2. k + 1 \in c..b /\ k # n
    BY <1>2, <1>3, <1>4, <2>1
  <2> QED BY <1>3, <2>1, <2>2
<1> HIDE DEF T
<1>8. Min(T) \in T /\ \A k \in T : Min(T) <= k
  BY <1>6, MinOfNumbers
<1>9. Min(T) = b
  <2>1. PICK k \in Nat : k = Min(T)
    BY <1>6, <1>8
  <2>2. k <= b /\ b <= k
    BY <1>6, <1>7, <1>8, <2>1
  <2>3. k = b
    BY <2>2
  <2> QED BY <2>1, <2>3
<1> QED BY <1>3, <1>5, <1>9

\* The words a text is split into are the words laid in it.
LEMMA SplitsIntoWords ==
    ASSUME NEW text \in Seq(Piece), NEW words, NEW at, Wordy(words),
           Laid(text, words, at), NEW n, n = at[Len(words)]
    PROVE  /\ Len(SplitWords(text, n)) = Len(words)
           /\ \A j \in 1..Len(words) : Slice(text, SplitWords(text, n)[j]) = words[j]
<1> DEFINE starts == WordStarts(text, n)
           nth(j) == CHOOSE i \in starts : Cardinality(starts \cap 1..i) = j
           spans == SplitWords(text, n)
<1>1. PICK m \in Nat : m = Len(words) /\ m \in 0..m
  BY DEF Wordy
<1>2. /\ n \in Nat /\ starts \in SUBSET (1..n)
      /\ \A j \in 1..m : Begins(words, at, j) \in starts
  BY <1>1, StartsAreBegins
<1>3. /\ IsFiniteSet(starts) /\ Cardinality(starts) = m
      /\ \A j \in 1..m : Cardinality(starts \cap 1..Begins(words, at, j)) = j
  BY <1>1, StartsUpTo
<1>4. spans = [j \in 1..Cardinality(starts) |->
                  [start |-> nth(j),
                   length |-> WordEnd(text, n, nth(j)) - nth(j) + 1]]
  BY Zenon DEF SplitWords
<1> HIDE DEF starts
<1>5. ASSUME NEW i \in starts, NEW k \in starts, i < k
      PROVE  Cardinality(starts \cap 1..i) # Cardinality(starts \cap 1..k)
  <2> DEFINE A == starts \cap 1..i
             B == starts \cap 1..k
  <2>1. i \in 1..n /\ k \in 1..n
    BY <1>2
  <2>2. A \in SUBSET B /\ k \in B /\ k \notin A
    BY <1>5, <2>1
  <2>3. IsFiniteSet(B)
    BY <1>3, FS_Intersection
  <2> HIDE DEF A, B
  <2>4. Cardinality(B) = Cardinality(A) => B = A
    BY <2>2, <2>3, FS_Subset
  <2>5. Cardinality(A) # Cardinality(B)
    BY <2>2, <2>4
  <2> QED BY <2>5 DEF A, B
<1>6. ASSUME NEW j \in 1..m PROVE nth(j) = Begins(words, at, j)
  <2>1. Begins(words, at, j) \in starts
        /\ Cardinality(starts \cap 1..Begins(words, at, j)) = j
    BY <1>2, <1>3
  <2>2. nth(j) \in starts /\ Cardinality(starts \cap 1..nth(j)) = j
    BY <2>1
  <2> HIDE DEF nth
  <2>3. PICK i \in starts, k \in starts : i = nth(j) /\ k = Begins(words, at, j)
    BY <2>1, <2>2
  <2>4. Cardinality(starts \cap 1..i) = Cardinality(starts \cap 1..k)
    BY <2>1, <2>2, <2>3
  <2>5. ~(i < k) /\ ~(k < i)
    BY <1>5, <2>4
  <2>6. i \in 1..n /\ k \in 1..n
    BY <1>2
  <2>7. i = k
    BY <2>5, <2>6
  <2> QED BY <2>3, <2>7
<1> HIDE DEF nth, spans
<1>7. Len(spans) = m
  BY <1>3, <1>4
<1>8. ASSUME NEW j \in 1..m PROVE Slice(text, spans[j]) = words[j]
  <2>1. j \in 1..Len(words) /\ words[j] \in Seq(Piece) /\ words[j] # << >>
    BY <1>1 DEF Wordy
  <2>2. /\ at[j] \in Nat /\ Begins(words, at, j) \in 1..at[j]
        /\ \A i \in 1..Len(words[j]) :
               text[Begins(words, at, j) + i - 1] = words[j][i]
    BY <2>1, WordStands
  <2>3. PICK b \in Nat, c \in Nat, w \in Nat :
            /\ b = at[j] /\ c = Begins(words, at, j) /\ w = Len(words[j])
            /\ c \in 1..b
    <3> DEFINE c == Begins(words, at, j)
               b == at[j]
               w == Len(words[j])
    <3>1. b \in Nat /\ c \in Nat /\ c \in 1..b /\ w \in Nat
      BY <2>1, <2>2
    <3>2. c = Begins(words, at, j) /\ b = at[j] /\ w = Len(words[j])
      OBVIOUS
    <3> HIDE DEF b, c, w
    <3> QED BY <3>1, <3>2
  <2>4. c = b - w + 1 /\ \A i \in 1..w : text[c + i - 1] = words[j][i]
    BY <2>2, <2>3 DEF Begins
  <2>5. WordEnd(text, n, c) = b
    BY <2>1, <2>3, EndsWhereLaid
  <2>6. spans[j].start = c /\ spans[j].length = b - c + 1
    BY <1>3, <1>4, <1>6, <2>3, <2>5
  <2>7. Slice(text, spans[j]) = SubSeq(text, c, b)
    <3>1. c + (b - c + 1) - 1 = b
      OBVIOUS
    <3> QED BY <2>6, <3>1 DEF Slice
  <2>8. b <= Len(text)
    <3>1. WordEnd(text, n, c) = Min({k \in c..n : k = n \/ text[k + 1] = Space})
      BY DEF WordEnd
    <3>2. c \in 1..n
      BY <1>2, <2>3
    <3> DEFINE T == {k \in c..n : k = n \/ text[k + 1] = Space}
    <3>3. T \in SUBSET Nat /\ n \in T /\ \A k \in T : k <= n
      BY <1>2, <3>2
    <3> HIDE DEF T
    <3>4. Min(T) \in T
      BY <3>3, MinOfNumbers
    <3>5. b <= n
      BY <2>5, <3>1, <3>3, <3>4 DEF T
    <3>6. n <= Len(text)
      BY DEF Laid
    <3>7. PICK t \in Nat : t = Len(text)
      OBVIOUS
    <3> QED BY <1>2, <3>5, <3>6, <3>7
  <2>9. PICK t \in Nat : t = Len(text)
    OBVIOUS
  <2>10. c \in 1..t + 1 /\ b \in (c - 1)..t /\ w = b - c + 1
    <3>1. c = b - w + 1
      BY <2>4
    <3>2. b <= t
      BY <2>8, <2>9
    <3>3. c \in 1..b
      BY <2>3
    <3> QED BY <3>1, <3>2, <3>3, SpanOfWord
  <2>11. \A i \in 1..Len(words[j]) : words[j][i] = text[c + i - 1]
    BY <2>3, <2>4
  <2>12. Len(words[j]) = b - c + 1
    BY <2>3, <2>10
  <2>13. words[j] = SubSeq(text, c, b)
    BY <2>1, <2>9, <2>10, <2>11, <2>12, PieceIsUnique
  <2> QED BY <2>7, <2>13
<1> QED BY <1>1, <1>7, <1>8 DEF spans

\* The text of a sentence, and how it ends.
Ended(text, words, end, at) ==
    /\ Laid(text, words, at) /\ Len(text) = at[Len(words)] + Len(end)
    /\ \A i \in 1..Len(end) : text[at[Len(words)] + i] = end[i]

\* A word behind its space, which the first has none of.
LEMMA SpacedWord ==
    ASSUME NEW word \in Seq(Piece), NEW gap \in Seq(Piece), NEW g \in 0..1,
           Len(gap) = g, g = 1 => gap[1] = Space
    PROVE  /\ gap \o word \in Seq(Piece) /\ Len(gap \o word) = g + Len(word)
           /\ g = 1 => (gap \o word)[1] = Space
           /\ \A i \in 1..Len(word) : (gap \o word)[g + i] = word[i]
<1>1. PICK w \in Nat : w = Len(word)
  OBVIOUS
<1>2. gap \o word \in Seq(Piece) /\ Len(gap \o word) = g + w
  BY <1>1
<1>3. g = 1 => (gap \o word)[1] = Space
  <2> SUFFICES ASSUME g = 1 PROVE (gap \o word)[1] = Space
    OBVIOUS
  <2>1. 1 \in 1..Len(gap)
    OBVIOUS
  <2> QED BY <2>1, ConcatBegins
<1>4. ASSUME NEW i \in 1..w PROVE (gap \o word)[g + i] = word[i]
  <2>1. g + i \in 1..g + w /\ ~(g + i <= g) /\ g + i - g = i
    OBVIOUS
  <2> QED BY <1>1, <2>1
<1> QED BY <1>1, <1>2, <1>3, <1>4

\* The words of a sentence are laid in its text, and its end behind them.
LEMMA SentenceIsLaid ==
    ASSUME NEW s \in Sentences
    PROVE  Wordy(s.words) /\ \E at : Ended(TextOf(s), s.words, s.end, at)
<1> DEFINE words == s.words
           end == s.end
           spaced == [j \in 1..Len(words) |->
                         (IF j = 1 THEN << >> ELSE <<Space>>) \o words[j]]
<1>1. words \in Seq(Seq(Piece)) /\ end \in Seq(Piece)
  BY InputsAssumption
<1>2. Wordy(words)
  <2>1. \A j \in 1..Len(words) :
            words[j] # << >> /\ \A i \in 1..Len(words[j]) : words[j][i] # Space
    <3>1. WellSpaced(s)
      BY SpacingAssumption
    <3> QED BY <3>1, Zenon DEF WellSpaced
  <2> HIDE DEF words
  <2> QED BY <1>1, <2>1 DEF Wordy
<1>3. Space \in Piece
  <2>1. " " \in Written
    BY DEF Written
  <2> QED BY <2>1, WrittenPiece DEF Space
<1>4. TextOf(s) = FlattenSeq(spaced) \o end
  BY Zenon DEF TextOf
<1> HIDE DEF words, end
<1>5. PICK m \in Nat : m = Len(words) /\ \A j \in 1..m : words[j] \in Seq(Piece)
  BY <1>1
<1> DEFINE g(j) == IF j = 1 THEN 0 ELSE 1
           gap(j) == IF j = 1 THEN << >> ELSE <<Space>>
<1>6. ASSUME NEW j \in 1..m
      PROVE  /\ spaced[j] \in Seq(Piece) /\ Len(spaced[j]) = g(j) + Len(words[j])
             /\ j # 1 => spaced[j][1] = Space
             /\ \A i \in 1..Len(words[j]) : spaced[j][g(j) + i] = words[j][i]
  <2>1. spaced[j] = gap(j) \o words[j]
    BY <1>5
  <2>2. /\ gap(j) \in Seq(Piece) /\ g(j) \in 0..1 /\ Len(gap(j)) = g(j)
        /\ g(j) = 1 => gap(j)[1] = Space
    BY <1>3
  <2>3. j # 1 => g(j) = 1
    OBVIOUS
  <2> HIDE DEF gap, g, spaced
  <2>4. /\ gap(j) \o words[j] \in Seq(Piece)
        /\ Len(gap(j) \o words[j]) = g(j) + Len(words[j])
        /\ g(j) = 1 => (gap(j) \o words[j])[1] = Space
        /\ \A i \in 1..Len(words[j]) : (gap(j) \o words[j])[g(j) + i] = words[j][i]
    BY <1>5, <2>2, SpacedWord
  <2> QED BY <2>1, <2>3, <2>4
<1>7. spaced \in Seq(Seq(Piece)) /\ Len(spaced) = m
  <2>1. spaced \in [1..m -> Seq(Piece)]
    <3>1. spaced = [j \in 1..m |-> spaced[j]]
      BY <1>5
    <3> HIDE DEF spaced
    <3> QED BY <1>6, <3>1
  <2>2. Len(spaced) = m
    BY <1>5
  <2> HIDE DEF spaced
  <2> QED BY <2>1, <2>2, IsASeq
<1> HIDE DEF spaced
<1>8. PICK at : PlacesOf(at, spaced, FlattenSeq(spaced))
  BY <1>7, FlattenPlaces
<1>9. PICK flat \in Seq(Piece) : flat = FlattenSeq(spaced)
  BY <1>7, FlattenTyped
<1>10. PICK L \in Nat, e \in Nat : L = Len(flat) /\ e = Len(end)
  BY <1>1
<1>11. /\ at \in [0..m -> Nat] /\ at[0] = 0 /\ at[m] = L
       /\ \A j \in 1..m :
              /\ at[j] = at[j - 1] + Len(spaced[j])
              /\ \A i \in 1..Len(spaced[j]) : flat[at[j - 1] + i] = spaced[j][i]
  BY <1>7, <1>8, <1>9, <1>10 DEF PlacesOf
<1>12. PICK text \in Seq(Piece) :
           /\ text = TextOf(s) /\ Len(text) = L + e
           /\ \A i \in 1..L : text[i] = flat[i]
           /\ \A i \in 1..e : text[L + i] = end[i]
  <2>1. flat \o end \in Seq(Piece) /\ Len(flat \o end) = L + e
    BY <1>1, <1>10
  <2>2. \A i \in 1..L : (flat \o end)[i] = flat[i]
    BY <1>1, <1>10
  <2>3. ASSUME NEW i \in 1..e PROVE (flat \o end)[L + i] = end[i]
    <3>1. L + i \in 1..L + e /\ ~(L + i <= L) /\ L + i - L = i
      OBVIOUS
    <3> QED BY <1>1, <1>10, <3>1
  <2> QED BY <1>4, <1>9, <2>1, <2>2, <2>3
<1>13. \A j \in 0..m : at[j] <= L
  <2> DEFINE T == {k \in 0..m : at[m - k] <= L}
  <2>1. 0 \in T
    BY <1>11
  <2>2. ASSUME NEW k \in 1..m, k - 1 \in T PROVE k \in T
    <3>1. m - k + 1 \in 1..m /\ m - (k - 1) = m - k + 1 /\ m - k + 1 - 1 = m - k
          /\ m - k \in 0..m /\ m - k + 1 \in 0..m
      OBVIOUS
    <3>2. at[m - k + 1] = at[m - k] + Len(spaced[m - k + 1])
      BY <1>11, <3>1
    <3>3. Len(spaced[m - k + 1]) \in Nat
      BY <1>6, <3>1
    <3>4. at[m - k] \in Nat /\ at[m - k + 1] \in Nat /\ at[m - k + 1] <= L
      BY <1>11, <2>2, <3>1
    <3>5. at[m - k] <= L
      BY <3>2, <3>3, <3>4
    <3> QED BY <3>5
  <2>3. T \in SUBSET (0..m)
    OBVIOUS
  <2> HIDE DEF T
  <2>4. T = 0..m
    BY <2>1, <2>2, <2>3, AtEveryPosition
  <2> SUFFICES ASSUME NEW j \in 0..m PROVE at[j] <= L
    OBVIOUS
  <2>5. m - j \in T /\ m - (m - j) = j
    BY <2>4
  <2> QED BY <2>5 DEF T
<1>14. ASSUME NEW j \in 1..m
       PROVE  /\ at[j] = at[j - 1] + g(j) + Len(words[j])
              /\ j # 1 => text[at[j - 1] + 1] = Space
              /\ \A i \in 1..Len(words[j]) :
                     text[at[j] - Len(words[j]) + i] = words[j][i]
  <2>1. PICK a \in Nat, b \in Nat, w \in Nat, h \in 0..1 :
            /\ a = at[j - 1] /\ b = at[j] /\ w = Len(words[j]) /\ h = g(j)
            /\ b <= L
    <3>1. j - 1 \in 0..m /\ j \in 0..m
      OBVIOUS
    <3>2. at[j - 1] \in Nat /\ at[j] \in Nat /\ at[j] <= L
      BY <1>11, <1>13, <3>1
    <3>3. Len(words[j]) \in Nat /\ g(j) \in 0..1
      BY <1>5
    <3> QED BY <3>2, <3>3
  <2>2. Len(spaced[j]) = h + w /\ (j # 1 => h = 1)
    BY <1>6, <2>1
  <2>3. b = a + (h + w)
    BY <1>11, <2>1, <2>2
  <2>4. \A i \in 1..(h + w) : flat[a + i] = spaced[j][i]
    BY <1>11, <2>1, <2>2
  <2>5. \A i \in 1..(h + w) : text[a + i] = spaced[j][i]
    <3> SUFFICES ASSUME NEW i \in 1..(h + w) PROVE text[a + i] = spaced[j][i]
      OBVIOUS
    <3>1. a + i \in 1..b
      BY <2>3
    <3>2. a + i \in 1..L
      <4>1. b <= L
        BY <2>1
      <4> QED BY <3>1, <4>1
    <3> QED BY <1>12, <2>4, <3>2
  <2>6. j # 1 => text[a + 1] = Space
    <3> SUFFICES ASSUME j # 1 PROVE text[a + 1] = Space
      OBVIOUS
    <3>1. 1 \in 1..(h + w)
      BY <2>2
    <3> QED BY <1>6, <2>5, <3>1
  <2>7. ASSUME NEW i \in 1..w PROVE text[b - w + i] = words[j][i]
    <3>1. h + i \in 1..(h + w) /\ (a + (h + w)) - w + i = a + (h + i)
      OBVIOUS
    <3>2. spaced[j][h + i] = words[j][i]
      BY <1>6, <2>1
    <3> QED BY <2>3, <2>5, <3>1, <3>2
  <2>8. at[j] = at[j - 1] + g(j) + Len(words[j])
    <3>1. b = a + h + w
      BY <2>3
    <3> QED BY <2>1, <3>1
  <2> QED BY <2>1, <2>6, <2>7, <2>8
<1>15. Laid(text, words, at)
  <2>1. at[m] <= Len(text)
    BY <1>11, <1>12
  <2> QED BY <1>5, <1>11, <1>14, <2>1, Zenon DEF Laid
<1>16. Ended(text, words, end, at)
  BY <1>5, <1>10, <1>11, <1>12, <1>15 DEF Ended
<1> QED BY <1>2, <1>12, <1>16 DEF words, end

\* One full stop goes, with the spaces before and behind it.
LEMMA StopGoes ==
    ASSUME NEW text, NEW n \in Nat, n = Len(text), NEW k \in 1..n, text[k] = Stop,
           \A i \in (k + 1)..n : text[i] = Space,
           NEW l \in 0..(k - 1), l # 0 => text[l] # Space,
           \A i \in (l + 1)..(k - 1) : text[i] = Space
    PROVE  EffectiveLength(text) = l
<1>1. Stop # Space
  BY DEF Stop, Space, Mark
<1>2. WithoutSpaces(text, n) = k
  <2>1. k \in 0..n /\ (k # 0 => text[k] # Space)
    BY <1>1
  <2> QED BY <2>1, SpacesGo
<1>3. WithoutSpaces(text, k - 1) = l
  <2>1. k - 1 \in Nat
    OBVIOUS
  <2> QED BY <2>1, SpacesGo
<1>4. k > 0
  OBVIOUS
<1> QED BY <1>2, <1>3, <1>4 DEF EffectiveLength

\* Where no full stop is left at the end only the spaces go.
LEMMA NoStopGoes ==
    ASSUME NEW text, NEW n \in Nat, n = Len(text), NEW l \in 0..n,
           l # 0 => text[l] # Space /\ text[l] # Stop,
           \A i \in (l + 1)..n : text[i] = Space
    PROVE  EffectiveLength(text) = l
<1>1. WithoutSpaces(text, n) = l
  BY SpacesGo
<1> QED BY <1>1 DEF EffectiveLength

\* The last word ends in a piece of its own.
LEMMA LastPiece ==
    ASSUME NEW text, NEW words, NEW at, Wordy(words), Laid(text, words, at)
    PROVE  LET l == at[Len(words)]
               final == words[Len(words)]
           IN  /\ l \in Nat /\ (words = << >> => l = 0)
               /\ l # 0 => text[l] # Space /\ text[l] = final[Len(final)]
               /\ words # << >> => l # 0
<1>1. PICK m \in Nat : m = Len(words) /\ (words = << >> <=> m = 0)
  <2>1. words \in Seq(Seq(Piece))
    BY DEF Wordy
  <2> QED BY <2>1
<1>2. CASE m = 0
  <2>1. at[0] = 0
    BY DEF Laid
  <2> QED BY <1>1, <1>2, <2>1
<1>3. CASE m # 0
  <2>1. m \in 1..Len(words) /\ words[m] \in Seq(Piece) /\ words[m] # << >>
    BY <1>1, <1>3 DEF Wordy
  <2>2. PICK w \in Nat : w = Len(words[m]) /\ w # 0
    BY <2>1
  <2>3. /\ at[m] \in Nat /\ Begins(words, at, m) \in 1..at[m]
        /\ \A i \in Begins(words, at, m)..at[m] : text[i] # Space
        /\ \A i \in 1..Len(words[m]) :
               text[Begins(words, at, m) + i - 1] = words[m][i]
    BY <2>1, WordStands
  <2>4. PICK l \in Nat : l = at[m]
    BY <2>3
  <2>5. Begins(words, at, m) = l - w + 1
    BY <2>2, <2>4 DEF Begins
  <2>6. l - w + 1 \in 1..l /\ w \in 1..w /\ l - w + 1 + w - 1 = l
    BY <2>2, <2>3, <2>4, <2>5
  <2>7. l \in (l - w + 1)..l /\ l # 0
    BY <2>2, <2>6
  <2>8. text[l] # Space
    BY <2>3, <2>4, <2>5, <2>7
  <2>9. text[l] = words[m][w]
    BY <2>2, <2>3, <2>5, <2>6
  <2> QED BY <1>1, <1>3, <2>2, <2>4, <2>7, <2>8, <2>9
<1> QED BY <1>2, <1>3

\* The end of a sentence goes, but for a second full stop.
LEMMA EndGoes ==
    ASSUME NEW s \in Sentences, NEW at, Wordy(s.words),
           Ended(TextOf(s), s.words, s.end, at),
           ~(s.words # << >> /\ s.end = <<Stop, Stop>>)
    PROVE  EffectiveLength(TextOf(s)) = at[Len(s.words)]
<1> DEFINE words == s.words
           end == s.end
           text == TextOf(s)
           final == words[Len(words)]
           stops == {i \in 1..Len(end) : end[i] = Stop}
<1>1. /\ \A i \in 1..Len(end) : end[i] \in {Space, Stop}
      /\ \A i, k \in stops : i = k
      /\ words # << >> /\ final[Len(final)] = Stop => stops # {}
  <2>1. WellSpaced(s)
    BY SpacingAssumption
  <2> QED BY <2>1, Zenon DEF WellSpaced
<1>2. PICK l \in Nat :
          /\ l = at[Len(words)] /\ (words = << >> => l = 0)
          /\ l # 0 => text[l] # Space /\ text[l] = final[Len(final)]
  <2>1. Laid(text, words, at)
    BY DEF Ended
  <2> HIDE DEF text, words, final
  <2> QED BY <2>1, LastPiece DEF words, final
<1>3. end \in Seq(Piece)
  BY InputsAssumption
<1>4. PICK e \in Nat :
          /\ e = Len(end) /\ Len(text) = l + e
          /\ \A i \in 1..e : text[l + i] = end[i]
  <2>1. Len(text) = at[Len(words)] + Len(end)
        /\ \A i \in 1..Len(end) : text[at[Len(words)] + i] = end[i]
    BY DEF Ended
  <2> HIDE DEF text, end, words
  <2> QED BY <1>2, <1>3, <2>1
<1> HIDE DEF text, end, words, final
<1>5. CASE stops = {}
  <2>1. l # 0 => text[l] # Space /\ text[l] # Stop
    BY <1>1, <1>2, <1>5
  <2>2. ASSUME NEW i \in (l + 1)..(l + e) PROVE text[i] = Space
    <3>1. i - l \in 1..e /\ l + (i - l) = i
      OBVIOUS
    <3>2. end[i - l] = Space
      BY <1>1, <1>4, <1>5, <3>1
    <3> QED BY <1>4, <3>1, <3>2
  <2>3. l + e \in Nat /\ l \in 0..(l + e)
    OBVIOUS
  <2>4. EffectiveLength(text) = l
    BY <1>4, <2>1, <2>2, <2>3, NoStopGoes
  <2> QED BY <1>2, <2>4 DEF text, words
<1>6. CASE stops # {}
  <2>1. PICK p \in 1..e : end[p] = Stop
    BY <1>4, <1>6
  <2>2. ASSUME NEW i \in 1..e, i # p PROVE text[l + i] = Space
    BY <1>1, <1>4, <2>1, <2>2
  <2>3. text[l + p] = Stop
    BY <1>4, <2>1
  <2> DEFINE k == l + p
             n == l + e
  <2>4. n \in Nat /\ k \in 1..n /\ l \in 0..(k - 1)
    OBVIOUS
  <2>5. ASSUME NEW i \in (l + 1)..n, i # k PROVE text[i] = Space
    <3>1. i - l \in 1..e /\ i - l # p /\ l + (i - l) = i
      BY <2>5
    <3> QED BY <2>2, <3>1
  <2>6. \A i \in (k + 1)..n : text[i] = Space
    <3> SUFFICES ASSUME NEW i \in (k + 1)..n PROVE text[i] = Space
      OBVIOUS
    <3>1. i \in (l + 1)..n /\ i # k
      OBVIOUS
    <3> QED BY <2>5, <3>1
  <2>7. \A i \in (l + 1)..(k - 1) : text[i] = Space
    <3> SUFFICES ASSUME NEW i \in (l + 1)..(k - 1) PROVE text[i] = Space
      OBVIOUS
    <3>1. i \in (l + 1)..n /\ i # k
      OBVIOUS
    <3> QED BY <2>5, <3>1
  <2>8. text[k] = Stop /\ n = Len(text)
    BY <1>4, <2>3
  <2> HIDE DEF k, n
  <2>9. EffectiveLength(text) = l
    BY <1>2, <2>4, <2>6, <2>7, <2>8, StopGoes
  <2> QED BY <1>2, <2>9 DEF text, words
<1> QED BY <1>5, <1>6

\* What is left of a text are the words of its sentence, as the grammar has them.
LEMMA WordsAreLaid ==
    ASSUME NEW s \in Sentences
    PROVE  /\ Wordy(WordsOf(s))
           /\ \E at : /\ Laid(TextOf(s), WordsOf(s), at)
                      /\ EffectiveLength(TextOf(s)) = at[Len(WordsOf(s))]
<1> DEFINE words == s.words
           text == TextOf(s)
<1>1. Wordy(words)
  BY SentenceIsLaid
<1>2. PICK at : Ended(text, words, s.end, at)
  BY SentenceIsLaid
<1>3. CASE ~(words # << >> /\ s.end = <<Stop, Stop>>)
  <2>1. WordsOf(s) = words
    BY <1>3, Zenon DEF WordsOf
  <2>2. EffectiveLength(text) = at[Len(words)]
    BY <1>1, <1>2, <1>3, EndGoes
  <2>3. Laid(text, words, at)
    BY <1>2 DEF Ended
  <2> QED BY <1>1, <2>1, <2>2, <2>3
<1>4. CASE words # << >> /\ s.end = <<Stop, Stop>>
  <2>1. WordsOf(s) = [words EXCEPT ![Len(words)] = @ \o <<Stop>>]
    BY <1>4, Zenon DEF WordsOf
  <2> HIDE DEF words, text
  <2>2. PICK m \in Nat : m = Len(words) /\ m # 0 /\ m \in 1..m
    <3>1. words \in Seq(Seq(Piece))
      BY <1>1 DEF Wordy
    <3>2. PICK m \in Nat : m = Len(words) /\ m # 0
      BY <1>4, <3>1
    <3>3. m \in 1..m
      BY <3>2
    <3> QED BY <3>2, <3>3
  <2>3. Laid(text, words, at)
    BY <1>2 DEF Ended
  <2>4. PICK l \in Nat : l = at[m] /\ l # 0
    BY <1>1, <1>4, <2>2, <2>3, LastPiece
  <2>5. /\ Len(text) = l + 2 /\ text[l + 1] = Stop /\ text[l + 2] = Stop
    <3>1. Len(s.end) = 2 /\ s.end[1] = Stop /\ s.end[2] = Stop
      BY <1>4
    <3>2. 1 \in 1..Len(s.end) /\ 2 \in 1..Len(s.end)
      BY <3>1
    <3> QED BY <1>2, <2>2, <2>4, <3>1, <3>2 DEF Ended
  <2>6. PICK final \in Seq(Piece), w \in Nat :
            /\ final = words[m] /\ w = Len(final) /\ w # 0
            /\ \A i \in 1..w : final[i] # Space
    <3>1. words[m] \in Seq(Piece) /\ words[m] # << >>
          /\ \A i \in 1..Len(words[m]) : words[m][i] # Space
      BY <1>1, <2>2 DEF Wordy
    <3>2. Len(words[m]) \in Nat /\ Len(words[m]) # 0
      BY <3>1
    <3> QED BY <3>1, <3>2
  <2>7. Stop \in Piece /\ Stop # Space
    <3>1. Stop # Space
      BY DEF Stop, Space, Mark
    <3>2. s.end \in Seq(Piece)
      BY InputsAssumption
    <3>3. 1 \in 1..Len(s.end) /\ s.end[1] = Stop
      BY <1>4
    <3>4. s.end[1] \in Piece
      BY <3>2, <3>3
    <3> QED BY <3>1, <3>3, <3>4
  <2>8. PICK stopped \in Seq(Piece) :
            /\ stopped = final \o <<Stop>> /\ Len(stopped) = w + 1
            /\ \A i \in 1..w : stopped[i] = final[i]
            /\ stopped[w + 1] = Stop
    <3>1. <<Stop>> \in Seq(Piece) /\ Len(<<Stop>>) = 1 /\ <<Stop>>[1] = Stop
      BY <2>7
    <3>2. /\ final \o <<Stop>> \in Seq(Piece) /\ Len(final \o <<Stop>>) = w + 1
          /\ \A i \in 1..w : (final \o <<Stop>>)[i] = final[i]
      BY <2>6, <3>1
    <3>3. (final \o <<Stop>>)[w + 1] = Stop
      BY <2>6, <2>7
    <3> QED BY <3>2, <3>3
  <2>9. PICK kept : /\ kept = WordsOf(s) /\ Len(kept) = m /\ kept \in Seq(Seq(Piece))
                    /\ kept[m] = stopped
                    /\ \A j \in 1..m : j # m => kept[j] = words[j]
    <3>1. words \in Seq(Seq(Piece))
      BY <1>1 DEF Wordy
    <3>2. WordsOf(s) = [words EXCEPT ![m] = stopped]
      BY <2>1, <2>2, <2>6, <2>8
    <3> DEFINE kept == [words EXCEPT ![m] = stopped]
    <3>3. /\ kept \in Seq(Seq(Piece)) /\ Len(kept) = m /\ kept[m] = stopped
          /\ \A j \in 1..m : j # m => kept[j] = words[j]
      BY <2>2, <3>1
    <3> HIDE DEF kept
    <3> QED BY <3>2, <3>3 DEF kept
  <2> DEFINE ends == [at EXCEPT ![m] = l + 1]
  <2>10. at \in [0..m -> Nat] /\ at[0] = 0
    BY <2>2, <2>3 DEF Laid
  <2>11. /\ ends \in [0..m -> Nat] /\ ends[0] = 0 /\ ends[m] = l + 1
         /\ \A j \in 0..m : j # m => ends[j] = at[j]
    BY <2>2, <2>4, <2>10
  <2> HIDE DEF ends
  <2>12. Wordy(kept)
    <3> SUFFICES ASSUME NEW j \in 1..m
                 PROVE  kept[j] # << >> /\ \A i \in 1..Len(kept[j]) : kept[j][i] # Space
      BY <2>9 DEF Wordy
    <3>1. CASE j # m
      BY <1>1, <2>2, <2>9, <3>1 DEF Wordy
    <3>2. CASE j = m
      <4>1. stopped # << >>
        BY <2>8
      <4>2. \A i \in 1..(w + 1) : stopped[i] # Space
        <5> SUFFICES ASSUME NEW i \in 1..(w + 1) PROVE stopped[i] # Space
          OBVIOUS
        <5>1. i \in 1..w \/ i = w + 1
          OBVIOUS
        <5> QED BY <2>6, <2>7, <2>8, <5>1
      <4> QED BY <2>8, <2>9, <3>2, <4>1, <4>2
    <3> QED BY <3>1, <3>2
  <2>13. ASSUME NEW j \in 1..m
         PROVE  /\ ends[j] = ends[j - 1] + (IF j = 1 THEN 0 ELSE 1) + Len(kept[j])
                /\ j # 1 => text[ends[j - 1] + 1] = Space
                /\ \A i \in 1..Len(kept[j]) :
                       text[ends[j] - Len(kept[j]) + i] = kept[j][i]
    <3>1. j \in 1..Len(words) /\ j - 1 \in 0..m /\ j - 1 # m /\ j \in 0..m
      BY <2>2
    <3>2. /\ at[j] = at[j - 1] + (IF j = 1 THEN 0 ELSE 1) + Len(words[j])
          /\ j # 1 => text[at[j - 1] + 1] = Space
          /\ \A i \in 1..Len(words[j]) :
                 text[at[j] - Len(words[j]) + i] = words[j][i]
      BY <2>3, <3>1, Zenon DEF Laid
    <3>3. ends[j - 1] = at[j - 1]
      BY <2>11, <3>1
    <3>4. CASE j # m
      <4>1. ends[j] = at[j] /\ kept[j] = words[j]
        BY <2>9, <2>11, <3>1, <3>4
      <4> QED BY <3>2, <3>3, <4>1
    <3>5. CASE j = m
      <4>1. PICK a \in Nat, g \in Nat :
                a = at[j - 1] /\ g = IF j = 1 THEN 0 ELSE 1
        BY <2>10, <3>1
      <4>2. l = a + g + w
        BY <2>4, <2>6, <3>2, <3>5, <4>1
      <4>3. ends[j] = l + 1 /\ Len(kept[j]) = w + 1 /\ kept[j] = stopped
        BY <2>8, <2>9, <2>11, <3>5
      <4>4. l + 1 = a + g + (w + 1)
        BY <4>2
      <4>5. ends[j] = ends[j - 1] + (IF j = 1 THEN 0 ELSE 1) + Len(kept[j])
        BY <3>3, <4>1, <4>3, <4>4
      <4>6. ASSUME NEW i \in 1..(w + 1) PROVE text[(l + 1) - (w + 1) + i] = stopped[i]
        <5>1. CASE i \in 1..w
          <6>1. text[l - w + i] = final[i]
            BY <2>4, <2>6, <3>2, <3>5, <5>1
          <6>2. (l + 1) - (w + 1) + i = l - w + i
            OBVIOUS
          <6> QED BY <2>8, <5>1, <6>1, <6>2
        <5>2. CASE i = w + 1
          <6>1. (l + 1) - (w + 1) + i = l + 1
            BY <5>2
          <6> QED BY <2>5, <2>8, <5>2, <6>1
        <5>3. i \in 1..w \/ i = w + 1
          OBVIOUS
        <5> QED BY <5>1, <5>2, <5>3
      <4>7. j # 1 => text[ends[j - 1] + 1] = Space
        BY <3>2, <3>3
      <4> QED BY <4>3, <4>5, <4>6, <4>7
    <3> QED BY <3>4, <3>5
  <2>14. Laid(text, kept, ends)
    <3>1. ends[m] <= Len(text)
      BY <2>5, <2>11
    <3> QED BY <2>9, <2>11, <2>13, <3>1, Zenon DEF Laid
  <2>15. EffectiveLength(text) = l + 1
    <3>1. l + 2 \in Nat /\ l + 2 \in 1..(l + 2) /\ l + 1 \in 0..(l + 2 - 1)
      OBVIOUS
    <3>2. \A i \in (l + 2 + 1)..(l + 2) : text[i] = Space
      OBVIOUS
    <3>3. \A i \in (l + 1 + 1)..(l + 2 - 1) : text[i] = Space
      OBVIOUS
    <3> QED BY <2>5, <2>7, <3>1, <3>2, <3>3, StopGoes
  <2> QED BY <2>9, <2>11, <2>12, <2>14, <2>15 DEF text
<1> QED BY <1>3, <1>4

-----------------------------------------------------------------------------
(* Roles and the shape of a sentence. *)

\* Places of a sentence are finitely many, and no more than its words.
LEMMA PlacesAreFinite ==
    ASSUME NEW n \in Nat
    PROVE  \A S \in SUBSET (1..n) : IsFiniteSet(S) /\ Cardinality(S) \in 0..n
<1> SUFFICES ASSUME NEW S \in SUBSET (1..n)
             PROVE  IsFiniteSet(S) /\ Cardinality(S) \in 0..n
  OBVIOUS
<1>1. IsFiniteSet(1..n) /\ Cardinality(1..n) = n
  BY FS_Interval
<1>2. IsFiniteSet(S) /\ Cardinality(S) <= Cardinality(1..n)
  BY <1>1, FS_Subset
<1>3. Cardinality(S) \in Nat
  BY <1>2, FS_CardinalityType
<1> QED BY <1>1, <1>2, <1>3

\* A set of one is the set of any of its members.
LEMMA OneIsAlone ==
    ASSUME NEW S, IsFiniteSet(S), NEW x \in S
    PROVE  Cardinality(S) >= 1 /\ (Cardinality(S) <= 1 <=> S = {x})
           /\ (Cardinality(S) = 1 <=> S = {x})
<1>1. Cardinality(S) \in Nat /\ Cardinality(S) # 0
  BY FS_CardinalityType, FS_EmptySet
<1>2. Cardinality(S) = 1 <=> S = {x}
  BY FS_Singleton
<1>3. PICK c \in Nat : c = Cardinality(S)
  BY <1>1
<1>4. c # 0 /\ (c = 1 <=> S = {x})
  BY <1>1, <1>2, <1>3
<1>5. c >= 1 /\ (c <= 1 <=> c = 1)
  BY <1>4
<1> QED BY <1>3, <1>4, <1>5

\* The first of a set of places is one of them, unless there is none.
LEMMA FirstOfPlaces ==
    ASSUME NEW n \in Nat, NEW S \in SUBSET (1..n)
    PROVE  /\ S = {} <=> FirstOf(S) = NoWord
           /\ S # {} => FirstOf(S) \in S /\ FirstOf(S) \in 1..n
           /\ FirstOf(S) \in 0..n
           /\ \A i \in S : FirstOf(S) <= i
<1>1. CASE S = {}
  BY <1>1 DEF FirstOf, NoWord
<1>2. CASE S # {}
  <2>1. S \in SUBSET Nat
    OBVIOUS
  <2>2. FirstOf(S) = Min(S)
    BY <1>2 DEF FirstOf
  <2>3. FirstOf(S) \in S /\ \A i \in S : FirstOf(S) <= i
    BY <1>2, <2>1, <2>2, MinOfNumbers
  <2>4. PICK f \in 1..n : f = FirstOf(S)
    BY <2>3
  <2> QED BY <1>2, <2>3, <2>4 DEF NoWord
<1> QED BY <1>1, <1>2

\* What goes to a set of places a step at a time, and counts.
LEMMA CountOneMore ==
    ASSUME NEW S, IsFiniteSet(S), NEW x, x \notin S, NEW c \in Nat, Cardinality(S) = c
    PROVE  IsFiniteSet(S \cup {x}) /\ Cardinality(S \cup {x}) = c + 1
BY FS_AddElement

\* Four places, and sets of others, none of them the same.
Apart(v, src, tgt, obj, Q, P) ==
    /\ IsFiniteSet(Q) /\ IsFiniteSet(P)
    /\ Q \cap P = {} /\ {v, src, tgt, obj} \cap (Q \cup P) = {}
    /\ v \notin {src, tgt, obj} /\ src \notin {tgt, obj} /\ tgt # obj

\* The places the roles of a sentence stand at, with the links among them.
Filled(v, src, tgt, obj, Q, P) == {v, src, tgt, obj} \cup Q \cup P

\* Places apart fill four words, and one for each quantity and each link.
LEMMA CountRoles ==
    ASSUME NEW v, NEW src, NEW tgt, NEW obj, NEW Q, NEW P,
           Apart(v, src, tgt, obj, Q, P)
    PROVE  /\ IsFiniteSet(Filled(v, src, tgt, obj, Q, P))
           /\ Cardinality(Filled(v, src, tgt, obj, Q, P))
                  = 4 + Cardinality(Q) + Cardinality(P)
<1>1. PICK q \in Nat, p \in Nat : q = Cardinality(Q) /\ p = Cardinality(P)
  BY FS_CardinalityType DEF Apart
<1> DEFINE S0 == Q \cup P
           S1 == S0 \cup {v}
           S2 == S1 \cup {src}
           S3 == S2 \cup {tgt}
           S4 == S3 \cup {obj}
<1>2. IsFiniteSet(S0) /\ Cardinality(S0) = q + p
  <2>1. IsFiniteSet(Q \cup P)
        /\ Cardinality(Q \cup P) = Cardinality(Q) + Cardinality(P) - Cardinality(Q \cap P)
    BY FS_Union DEF Apart
  <2>2. Cardinality(Q \cap P) = 0
    BY FS_EmptySet DEF Apart
  <2> QED BY <1>1, <2>1, <2>2
<1>3. v \notin S0 /\ src \notin S1 /\ tgt \notin S2 /\ obj \notin S3
  BY DEF Apart
<1>4. Filled(v, src, tgt, obj, Q, P) = S4
  BY DEF Filled
<1>5. IsFiniteSet(S1) /\ Cardinality(S1) = q + p + 1
  <2> HIDE DEF S0
  <2>1. IsFiniteSet(S0) /\ v \notin S0 /\ q + p \in Nat /\ Cardinality(S0) = q + p
    BY <1>2, <1>3
  <2> QED BY <2>1, CountOneMore
<1>6. IsFiniteSet(S2) /\ Cardinality(S2) = q + p + 1 + 1
  <2> HIDE DEF S1
  <2>1. PICK c \in Nat : c = q + p + 1
    OBVIOUS
  <2>2. IsFiniteSet(S1) /\ src \notin S1 /\ Cardinality(S1) = c
    BY <1>3, <1>5, <2>1
  <2> QED BY <2>1, <2>2, CountOneMore
<1>7. IsFiniteSet(S3) /\ Cardinality(S3) = q + p + 1 + 1 + 1
  <2> HIDE DEF S2
  <2>1. PICK c \in Nat : c = q + p + 1 + 1
    OBVIOUS
  <2>2. IsFiniteSet(S2) /\ tgt \notin S2 /\ Cardinality(S2) = c
    BY <1>3, <1>6, <2>1
  <2> QED BY <2>1, <2>2, CountOneMore
<1>8. IsFiniteSet(S4) /\ Cardinality(S4) = q + p + 1 + 1 + 1 + 1
  <2> HIDE DEF S3
  <2>1. PICK c \in Nat : c = q + p + 1 + 1 + 1
    OBVIOUS
  <2>2. IsFiniteSet(S3) /\ obj \notin S3 /\ Cardinality(S3) = c
    BY <1>3, <1>7, <2>1
  <2> QED BY <2>1, <2>2, CountOneMore
<1> HIDE DEF S4
<1>9. q + p + 1 + 1 + 1 + 1 = 4 + q + p
  OBVIOUS
<1> QED BY <1>1, <1>4, <1>8, <1>9

\* No place has two roles, and every role is taken that has to be.
RolesApart(n, v, G, T, O, B, Q, P) ==
    /\ n \in Nat /\ v \in 1..n
    /\ G \in SUBSET (1..n) /\ T \in SUBSET (1..n) /\ O \in SUBSET (1..n)
    /\ B \in SUBSET O /\ Q \in SUBSET (1..n) /\ P \in SUBSET (1..n)
    /\ v \notin G \cup T \cup O \cup Q \cup P
    /\ G \cap T = {} /\ O \cap (G \cup T) = {}
    /\ Q \cap (G \cup T \cup O) = {} /\ P \cap (G \cup T \cup O \cup Q) = {}
    /\ G # {} /\ T # {} /\ B # {} /\ Cardinality(P) <= 1

\* The places taken when each role is the first of its candidates.
Taken(v, G, T, B, Q, P) == {v, FirstOf(G), FirstOf(T), FirstOf(B), FirstOf(Q)} \cup P

\* Every word is taken, and no candidate is left over.
CoveredBy(n, v, G, T, O, B, Q, P) ==
    /\ Cardinality(G \cup T) = 2 /\ Cardinality(O) <= 1 /\ Cardinality(Q) <= 1
    /\ 1..n \subseteq Taken(v, G, T, B, Q, P)

\* One candidate for each role, one quantity at most, and a word for each.
CountedBy(n, G, T, B, Q, P) ==
    /\ Cardinality(G) = 1 /\ Cardinality(T) = 1 /\ Cardinality(B) = 1
    /\ Cardinality(Q) <= 1 /\ n = 4 + Cardinality(Q) + Cardinality(P)

\* Every place taken and one at most for each role, or as many places as roles.
LEMMA CoveredIsCounted ==
    ASSUME NEW n, NEW v, NEW G, NEW T, NEW O, NEW B, NEW Q, NEW P,
           RolesApart(n, v, G, T, O, B, Q, P)
    PROVE  CoveredBy(n, v, G, T, O, B, Q, P) <=> CountedBy(n, G, T, B, Q, P)
<1> USE DEF RolesApart
<1> DEFINE taken == {v, FirstOf(G), FirstOf(T), FirstOf(B), FirstOf(Q)} \cup P
           filled == {v, FirstOf(G), FirstOf(T), FirstOf(B)} \cup Q \cup P
           Covered == /\ Cardinality(G \cup T) = 2 /\ Cardinality(O) <= 1
                      /\ Cardinality(Q) <= 1 /\ 1..n \subseteq taken
           Counted == /\ Cardinality(G) = 1 /\ Cardinality(T) = 1 /\ Cardinality(B) = 1
                      /\ Cardinality(Q) <= 1
                      /\ n = 4 + Cardinality(Q) + Cardinality(P)
<1>1. \A S \in SUBSET (1..n) : IsFiniteSet(S) /\ Cardinality(S) \in Nat
  <2> SUFFICES ASSUME NEW S \in SUBSET (1..n)
               PROVE  IsFiniteSet(S) /\ Cardinality(S) \in Nat
    OBVIOUS
  <2>1. IsFiniteSet(S) /\ Cardinality(S) \in 0..n
    BY PlacesAreFinite
  <2> QED BY <2>1
<1>2. B \in SUBSET (1..n) /\ G \cup T \in SUBSET (1..n)
  OBVIOUS
<1>3. PICK src \in G, tgt \in T, obj \in B :
          src = FirstOf(G) /\ tgt = FirstOf(T) /\ obj = FirstOf(B)
  BY <1>2, FirstOfPlaces
<1>4. IsFiniteSet(filled) /\ Cardinality(filled) = 4 + Cardinality(Q) + Cardinality(P)
  <2>1. IsFiniteSet(Q) /\ IsFiniteSet(P)
    BY <1>1
  <2>2. Apart(v, src, tgt, obj, Q, P)
    BY <2>1 DEF Apart
  <2>3. filled = Filled(v, src, tgt, obj, Q, P)
    BY <1>3 DEF Filled
  <2> HIDE DEF filled, taken
  <2> QED BY <2>2, <2>3, CountRoles
<1>5. filled \in SUBSET (1..n)
  BY <1>3
<1>6. Cardinality(Q) <= 1 => (1..n \subseteq taken <=> filled = 1..n)
  <2> SUFFICES ASSUME Cardinality(Q) <= 1 PROVE 1..n \subseteq taken <=> filled = 1..n
    OBVIOUS
  <2>1. CASE Q = {}
    <3>1. FirstOf(Q) = 0
      BY <2>1 DEF FirstOf, NoWord
    <3>2. taken = filled \cup {0}
      BY <2>1, <3>1
    <3> HIDE DEF taken, filled
    <3>3. 0 \notin 1..n
      OBVIOUS
    <3> QED BY <1>5, <3>2, <3>3
  <2>2. CASE Q # {}
    <3>1. FirstOf(Q) \in Q
      BY <2>2, FirstOfPlaces
    <3>2. Q = {FirstOf(Q)}
      BY <1>1, <3>1, OneIsAlone
    <3>3. taken = filled
      BY <3>2
    <3> HIDE DEF taken, filled
    <3> QED BY <1>5, <3>3
  <2> QED BY <2>1, <2>2
<1>7. filled = 1..n <=> n = 4 + Cardinality(Q) + Cardinality(P)
  <2> HIDE DEF filled
  <2>1. IsFiniteSet(1..n) /\ Cardinality(1..n) = n
    BY FS_Interval
  <2>2. Cardinality(1..n) = Cardinality(filled) => 1..n = filled
    BY <1>5, <2>1, FS_Subset
  <2> QED BY <1>4, <2>1, <2>2
<1>8. Cardinality(G \cup T) = Cardinality(G) + Cardinality(T)
  <2>1. Cardinality(G \cup T) = Cardinality(G) + Cardinality(T) - Cardinality(G \cap T)
    BY <1>1, FS_Union
  <2>2. Cardinality(G \cap T) = 0
    BY FS_EmptySet
  <2> QED BY <1>1, <2>1, <2>2
<1>9. /\ Cardinality(G) >= 1 /\ Cardinality(T) >= 1 /\ Cardinality(B) >= 1
      /\ Cardinality(B) <= Cardinality(O)
  <2>1. IsFiniteSet(G) /\ IsFiniteSet(T) /\ IsFiniteSet(B) /\ IsFiniteSet(O)
    BY <1>1, <1>2
  <2>2. Cardinality(B) <= Cardinality(O)
    BY <2>1, FS_Subset
  <2> QED BY <1>3, <2>1, <2>2, OneIsAlone
<1>10. PICK g \in Nat, t \in Nat, b \in Nat, o \in Nat :
           /\ g = Cardinality(G) /\ t = Cardinality(T) /\ b = Cardinality(B)
           /\ o = Cardinality(O)
  BY <1>1, <1>2
<1>11. g >= 1 /\ t >= 1 /\ b >= 1 /\ b <= o /\ Cardinality(G \cup T) = g + t
  BY <1>8, <1>9, <1>10
<1>12. g + t = 2 <=> g = 1 /\ t = 1
  BY <1>11
<1>13. o <= 1 => b = 1
  BY <1>11
<1>14. ASSUME filled = 1..n, b = 1 PROVE o <= 1
  <2>1. B = {obj}
    BY <1>1, <1>2, <1>10, <1>14, OneIsAlone
  <2>2. \A i \in O : i = obj
    BY <1>3, <1>14
  <2>3. O = {obj}
    BY <2>2
  <2>4. Cardinality(O) = 1
    BY <2>3, FS_Singleton
  <2> QED BY <1>10, <2>4
<1>15. Covered => Counted
  <2> SUFFICES ASSUME Covered PROVE Counted
    OBVIOUS
  <2> HIDE DEF taken, filled
  <2> QED BY <1>6, <1>7, <1>10, <1>11, <1>12, <1>13
<1>16. Counted => Covered
  <2> SUFFICES ASSUME Counted PROVE Covered
    OBVIOUS
  <2> HIDE DEF taken, filled
  <2>1. filled = 1..n
    BY <1>7
  <2>2. b = 1 /\ g = 1 /\ t = 1
    BY <1>10
  <2>3. o <= 1
    BY <1>14, <2>1, <2>2
  <2> QED BY <1>6, <1>10, <1>11, <2>1, <2>2, <2>3
<1> HIDE DEF Covered, Counted, taken
<1>17. CoveredBy(n, v, G, T, O, B, Q, P) <=> Covered
  BY DEF CoveredBy, Covered, Taken, taken
<1>18. CountedBy(n, G, T, B, Q, P) <=> Counted
  BY DEF CountedBy, Counted
<1> QED BY <1>15, <1>16, <1>17, <1>18

\* What the places of a sentence's words are, word by word.
ShapeOf(shape, words) ==
    /\ shape.length = Len(words)
    /\ shape.verbs = Places(words, {"verb_active", "verb_passive"})
    /\ shape.passive <=> Places(words, {"verb_passive"}) # {}
    /\ shape.behind = {j \in 1..Len(words) : \A v \in shape.verbs : j > v}
    /\ shape.froms = Places(words, {"from"})
    /\ shape.entities = Places(words, {"entity"})
    /\ shape.objects = shape.behind \cap Places(words, {"object", "candidate"})
    /\ shape.numbers = shape.behind \cap Places(words, {"number"})
    /\ shape.spoilt = {j \in shape.behind \ shape.numbers : FirstIsDigit(words[j])}

\* A shape is read off the kinds of a sentence's words.
LEMMA ShapesAreOf ==
    ASSUME NEW s
    PROVE  ShapeOf(Shape(s), WordsOf(s))
<1> DEFINE words == WordsOf(s)
           verbs == Places(words, {"verb_active", "verb_passive"})
           behind == {j \in 1..Len(words) : \A v \in verbs : j > v}
           numbers == behind \cap Places(words, {"number"})
           passive == Places(words, {"verb_passive"}) # {}
           froms == Places(words, {"from"})
           entities == Places(words, {"entity"})
           objects == behind \cap Places(words, {"object", "candidate"})
           spoilt == {j \in behind \ numbers : FirstIsDigit(words[j])}
           shape == Shape(s)
<1>1. shape = [length |-> Len(words), verbs |-> verbs, passive |-> passive,
               behind |-> behind, froms |-> froms, entities |-> entities,
               objects |-> objects, numbers |-> numbers, spoilt |-> spoilt]
  BY Zenon DEF Shape
<1> HIDE DEF shape, verbs, passive, behind, froms, entities, objects, numbers, spoilt
<1>2. /\ shape.length = Len(words) /\ shape.verbs = verbs /\ (shape.passive <=> passive)
      /\ shape.behind = behind /\ shape.froms = froms /\ shape.entities = entities
      /\ shape.objects = objects /\ shape.numbers = numbers /\ shape.spoilt = spoilt
  BY <1>1
<1>3. /\ verbs = Places(words, {"verb_active", "verb_passive"})
      /\ behind = {j \in 1..Len(words) : \A v \in verbs : j > v}
      /\ froms = Places(words, {"from"}) /\ entities = Places(words, {"entity"})
      /\ passive <=> Places(words, {"verb_passive"}) # {}
  BY DEF verbs, behind, froms, entities, passive
<1>4. /\ objects = behind \cap Places(words, {"object", "candidate"})
      /\ numbers = behind \cap Places(words, {"number"})
      /\ spoilt = {j \in behind \ numbers : FirstIsDigit(words[j])}
  BY DEF objects, numbers, spoilt
<1> HIDE DEF words
<1>5. ShapeOf(shape, words)
  BY <1>2, <1>3, <1>4, Zenon DEF ShapeOf
<1> QED BY <1>5 DEF shape, words

\* The classes of a sentence's words, and the one verb among them.
Classed(classes, words, v) ==
    /\ Len(classes) = Len(words)
    /\ \A j \in 1..Len(words) : classes[j] = ClassifyWord(words[j])
    /\ Of(classes, VerbClasses) = {v}

\* Classes are places of words.
LEMMA ClassesArePlaces ==
    ASSUME NEW words, NEW classes, Len(classes) = Len(words),
           \A j \in 1..Len(words) : classes[j] = ClassifyWord(words[j])
    PROVE  \A wanted : Of(classes, wanted) = Places(words, wanted)
BY DEF Of, Places

\* A sentence with one verb: what its words are, and what stands behind it.
Told(shape, classes, words, v) ==
    /\ v \in 1..Len(words) /\ shape.verbs = {v}
    /\ shape.behind = {j \in 1..Len(words) : j > v}
    /\ shape.behind = (v + 1)..Len(words)
    /\ shape.passive <=> classes[v] = "verb_passive"
    /\ shape.froms = Of(classes, {"from"})
    /\ shape.entities = Of(classes, {"entity"})
    /\ shape.objects = Of(classes, ObjectClasses) \cap ((v + 1)..Len(words))
    /\ shape.numbers = Of(classes, {"number"}) \cap ((v + 1)..Len(words))
    /\ AssignRoles(classes).verb = v

\* The parser's classes tell it of a sentence with one verb what its shape says.
LEMMA OneVerb ==
    ASSUME NEW words \in Seq(Seq(Piece)), NEW classes, NEW v, NEW shape,
           Classed(classes, words, v), ShapeOf(shape, words)
    PROVE  Told(shape, classes, words, v)
<1>1. /\ \A wanted : Of(classes, wanted) = Places(words, wanted)
      /\ Len(classes) = Len(words) /\ Of(classes, VerbClasses) = {v}
  BY ClassesArePlaces DEF Classed
<1>2. PICK n \in Nat : n = Len(words)
  OBVIOUS
<1>3. v \in 1..n /\ classes[v] \in VerbClasses
  <2>1. v \in Of(classes, VerbClasses)
    BY <1>1
  <2> QED BY <1>1, <1>2, <2>1 DEF Of
<1>4. shape.verbs = {v}
  BY <1>1 DEF ShapeOf, VerbClasses
<1>5. shape.behind = {j \in 1..n : j > v}
  BY <1>2, <1>4 DEF ShapeOf
<1>6. shape.behind = (v + 1)..n
  BY <1>2, <1>3, <1>5
<1>7. shape.passive <=> classes[v] = "verb_passive"
  <2>1. shape.passive <=> Of(classes, {"verb_passive"}) # {}
    BY <1>1 DEF ShapeOf
  <2>2. Of(classes, {"verb_passive"}) = {j \in {v} : classes[j] = "verb_passive"}
    <3>1. \A j \in 1..n : classes[j] = "verb_passive" => j \in Of(classes, VerbClasses)
      BY <1>1, <1>2 DEF Of, VerbClasses
    <3> QED BY <1>1, <1>2, <1>3, <3>1 DEF Of
  <2> QED BY <2>1, <2>2
<1>8. /\ shape.froms = Of(classes, {"from"}) /\ shape.entities = Of(classes, {"entity"})
      /\ shape.objects = Of(classes, ObjectClasses) \cap ((v + 1)..n)
      /\ shape.numbers = Of(classes, {"number"}) \cap ((v + 1)..n)
  <2>1. shape.froms = Of(classes, {"from"}) /\ shape.entities = Of(classes, {"entity"})
    BY <1>1 DEF ShapeOf
  <2>2. shape.objects = shape.behind \cap Of(classes, ObjectClasses)
    BY <1>1 DEF ShapeOf, ObjectClasses
  <2>3. shape.numbers = shape.behind \cap Of(classes, {"number"})
    BY <1>1 DEF ShapeOf
  <2> QED BY <1>6, <2>1, <2>2, <2>3
<1>9. AssignRoles(classes).verb = v
  <2>1. AssignRoles(classes).verb = FirstOf(Of(classes, VerbClasses))
    BY DEF AssignRoles
  <2>2. {v} \in SUBSET (1..n) /\ {v} # {}
    BY <1>3
  <2>3. FirstOf({v}) \in {v}
    BY <2>2, FirstOfPlaces
  <2> QED BY <1>1, <2>1, <2>3
<1> QED BY <1>2, <1>3, <1>4, <1>5, <1>6, <1>7, <1>8, <1>9, Zenon DEF Told

\* The roles of a sentence with one verb are the first of its givers, its takers,
\* and what is given.
FirstOfEach(roles, shape, v) ==
    /\ roles.verb = v /\ roles.from = FirstOf(shape.froms)
    /\ roles.object = FirstOf(shape.objects)
    /\ roles.quantity = FirstOf(shape.numbers)
    /\ (shape.passive => IsOne(shape.froms)) =>
           /\ roles.source = FirstOf(Givers(shape))
           /\ roles.target = FirstOf(Takers(shape))

\* The parser's roles are the first of each kind of candidate.
LEMMA RolesOfShape ==
    ASSUME NEW words \in Seq(Seq(Piece)), NEW classes, NEW v, NEW shape,
           Classed(classes, words, v), ShapeOf(shape, words)
    PROVE  FirstOfEach(AssignRoles(classes), shape, v)
<1> DEFINE roles == AssignRoles(classes)
           verb == FirstOf(Of(classes, VerbClasses))
           from == FirstOf(Of(classes, {"from"}))
           side == SourceSide(classes, verb, from)
           after == (verb + 1)..Len(classes)
           entities == Of(classes, {"entity"})
<1>1. /\ roles.verb = verb /\ roles.from = from
      /\ roles.source = FirstOf(entities \cap side)
      /\ roles.target = FirstOf(entities \ side)
      /\ roles.object = FirstOf(Of(classes, ObjectClasses) \cap after)
      /\ roles.quantity = FirstOf(Of(classes, {"number"}) \cap after)
  BY DEF AssignRoles
<1>2. PICK n \in Nat : n = Len(words) /\ Len(classes) = n
  BY DEF Classed
<1>3. /\ v \in 1..n /\ shape.behind = {j \in 1..n : j > v}
      /\ shape.passive <=> classes[v] = "verb_passive"
      /\ shape.froms = Of(classes, {"from"}) /\ shape.entities = entities
      /\ shape.objects = Of(classes, ObjectClasses) \cap ((v + 1)..n)
      /\ shape.numbers = Of(classes, {"number"}) \cap ((v + 1)..n)
      /\ roles.verb = v
  <2> HIDE DEF roles
  <2>4. Told(shape, classes, words, v)
    BY OneVerb
  <2>1. /\ v \in 1..Len(words) /\ shape.behind = {j \in 1..Len(words) : j > v}
        /\ shape.passive <=> classes[v] = "verb_passive"
        /\ shape.froms = Of(classes, {"from"}) /\ shape.entities = Of(classes, {"entity"})
    BY <2>4, Zenon DEF Told
  <2>2. /\ shape.objects = Of(classes, ObjectClasses) \cap ((v + 1)..Len(words))
        /\ shape.numbers = Of(classes, {"number"}) \cap ((v + 1)..Len(words))
    BY <2>4, Zenon DEF Told
  <2>3. roles.verb = v
    BY <2>4, Zenon DEF roles, Told
  <2> QED BY <1>2, <2>1, <2>2, <2>3
<1>4. verb = v
  BY <1>1, <1>3
<1>5. Of(classes, {"from"}) \in SUBSET (1..n) /\ entities \in SUBSET (1..n)
      /\ v \notin entities
  <2>1. \A wanted : Of(classes, wanted) \in SUBSET (1..n)
    BY <1>2 DEF Of
  <2>2. v \in Of(classes, VerbClasses)
    BY DEF Classed
  <2>3. v \notin entities
    BY <2>2 DEF Of, VerbClasses
  <2> QED BY <2>1, <2>3
<1> HIDE DEF roles, verb, entities
<1>6. ASSUME shape.passive => IsOne(shape.froms)
      PROVE  entities \cap side = Givers(shape) /\ entities \ side = Takers(shape)
  <2>1. CASE shape.passive
    <3>1. classes[verb] = "verb_passive"
      BY <1>3, <1>4, <2>1
    <3>2. side = {j \in 1..n : j > v /\ j > from}
      BY <1>2, <1>4, <3>1 DEF SourceSide
    <3>3. PICK f : shape.froms = {f}
      <4>1. IsFiniteSet(shape.froms)
        BY <1>3, <1>5, PlacesAreFinite
      <4>2. Cardinality(shape.froms) = 1
        BY <1>6, <2>1 DEF IsOne
      <4> QED BY <4>1, <4>2, FS_Singleton
    <3>4. from = f /\ f \in 1..n
      <4>1. {f} \in SUBSET (1..n) /\ {f} # {}
        BY <1>3, <1>5, <3>3
      <4>2. FirstOf({f}) \in {f}
        BY <4>1, FirstOfPlaces
      <4> QED BY <1>3, <3>3, <4>1, <4>2
    <3>5. Givers(shape) = {j \in entities \cap shape.behind : \A g \in {f} : j > g}
      BY <1>3, <2>1, <3>3 DEF Givers
    <3> HIDE DEF side, from
    <3>6. entities \cap side = Givers(shape)
      BY <1>3, <1>5, <3>2, <3>4, <3>5
    <3>7. entities \ side = Takers(shape)
      BY <1>3, <3>6 DEF Takers
    <3> QED BY <3>6, <3>7
  <2>2. CASE ~shape.passive
    <3>1. classes[verb] # "verb_passive"
      BY <1>3, <1>4, <2>2
    <3>2. side = 1..(v - 1)
      BY <1>4, <3>1 DEF SourceSide
    <3>3. Givers(shape) = entities \ shape.behind
      BY <1>3, <2>2 DEF Givers
    <3> HIDE DEF side, from
    <3>4. entities \cap side = Givers(shape)
      <4>1. ASSUME NEW j \in entities PROVE j \in side <=> j \notin shape.behind
        <5>1. j \in 1..n /\ j # v
          BY <1>5
        <5> QED BY <1>3, <3>2, <5>1
      <4> QED BY <3>3, <4>1
    <3>5. entities \ side = Takers(shape)
      BY <1>3, <3>4 DEF Takers
    <3> QED BY <3>4, <3>5
  <2> QED BY <2>1, <2>2
<1> HIDE DEF side, from
<1>7. roles.from = FirstOf(shape.froms)
  BY <1>1, <1>3 DEF from
<1>8. /\ roles.object = FirstOf(shape.objects)
      /\ roles.quantity = FirstOf(shape.numbers)
  BY <1>1, <1>2, <1>3, <1>4
<1>9. (shape.passive => IsOne(shape.froms)) =>
          /\ roles.source = FirstOf(Givers(shape))
          /\ roles.target = FirstOf(Takers(shape))
  BY <1>1, <1>6
<1> QED BY <1>3, <1>7, <1>8, <1>9, Zenon DEF roles, FirstOfEach

\* No place has two roles.
KeptApart(shape, things, n, v) ==
    /\ v \in 1..n
    /\ Givers(shape) \in SUBSET (1..n) /\ Takers(shape) \in SUBSET (1..n)
    /\ things \in SUBSET (1..n) /\ shape.objects \in SUBSET things
    /\ shape.numbers \in SUBSET (1..n) /\ shape.froms \in SUBSET (1..n)
    /\ v \notin Givers(shape) \cup Takers(shape) \cup things
                    \cup shape.numbers \cup shape.froms
    /\ Givers(shape) \cap Takers(shape) = {}
    /\ things \cap (Givers(shape) \cup Takers(shape)) = {}
    /\ shape.numbers \cap (Givers(shape) \cup Takers(shape) \cup things) = {}
    /\ shape.froms \cap (Givers(shape) \cup Takers(shape) \cup things
                             \cup shape.numbers) = {}

\* The candidates of a sentence with one verb stand at places apart.
LEMMA ShapePlaces ==
    ASSUME NEW words \in Seq(Seq(Piece)), NEW classes, NEW v, NEW shape,
           Classed(classes, words, v), ShapeOf(shape, words)
    PROVE  /\ KeptApart(shape, Of(classes, ObjectClasses), Len(words), v)
           /\ Givers(shape) \cup Takers(shape) = Of(classes, {"entity"})
<1> DEFINE n == Len(words)
           things == Of(classes, ObjectClasses)
           entities == Of(classes, {"entity"})
<1>1. n \in Nat /\ Len(classes) = n
  BY DEF Classed
<1>2. /\ v \in 1..n /\ shape.froms = Of(classes, {"from"}) /\ shape.entities = entities
      /\ shape.objects \in SUBSET things
      /\ shape.numbers \in SUBSET Of(classes, {"number"})
  <2> HIDE DEF n
  <2>4. Told(shape, classes, words, v)
    BY OneVerb
  <2>1. /\ v \in 1..n /\ shape.froms = Of(classes, {"from"}) /\ shape.entities = entities
    BY <2>4, Zenon DEF n, Told
  <2>2. /\ shape.objects = Of(classes, ObjectClasses) \cap ((v + 1)..Len(words))
        /\ shape.numbers = Of(classes, {"number"}) \cap ((v + 1)..Len(words))
    BY <2>4, Zenon DEF Told
  <2> QED BY <2>1, <2>2
<1>3. Givers(shape) \in SUBSET entities /\ Takers(shape) = entities \ Givers(shape)
  BY <1>2 DEF Givers, Takers
<1>4. /\ \A wanted : Of(classes, wanted) \in SUBSET (1..n)
      /\ v \in Of(classes, VerbClasses)
  BY <1>1 DEF Of, Classed
<1>5. \A j \in 1..n :
          /\ j \in entities <=> classes[j] = "entity"
          /\ j \in things <=> classes[j] \in {"object", "candidate"}
          /\ j \in Of(classes, {"number"}) <=> classes[j] = "number"
          /\ j \in Of(classes, {"from"}) <=> classes[j] = "from"
          /\ j \in Of(classes, VerbClasses) <=> classes[j] \in {"verb_active", "verb_passive"}
  BY <1>1 DEF Of, ObjectClasses, VerbClasses
<1> HIDE DEF n, things, entities
<1>6. /\ v \notin entities \cup things \cup Of(classes, {"number"}) \cup Of(classes, {"from"})
      /\ things \cap entities = {} /\ Of(classes, {"number"}) \cap (entities \cup things) = {}
      /\ Of(classes, {"from"}) \cap (entities \cup things \cup Of(classes, {"number"})) = {}
  <2>1. /\ entities \in SUBSET (1..n) /\ things \in SUBSET (1..n)
        /\ Of(classes, {"number"}) \in SUBSET (1..n)
        /\ Of(classes, {"from"}) \in SUBSET (1..n)
    BY <1>4 DEF entities, things
  <2>2. v \notin entities \cup things \cup Of(classes, {"number"}) \cup Of(classes, {"from"})
    BY <1>2, <1>4, <1>5
  <2>3. things \cap entities = {}
    BY <1>5, <2>1
  <2>4. Of(classes, {"number"}) \cap (entities \cup things) = {}
    BY <1>5, <2>1
  <2>5. Of(classes, {"from"}) \cap (entities \cup things \cup Of(classes, {"number"})) = {}
    BY <1>5, <2>1
  <2> QED BY <2>2, <2>3, <2>4, <2>5
<1>7. /\ Givers(shape) \in SUBSET (1..n) /\ Takers(shape) \in SUBSET (1..n)
      /\ things \in SUBSET (1..n)
      /\ shape.numbers \in SUBSET (1..n) /\ shape.froms \in SUBSET (1..n)
  <2>1. /\ entities \in SUBSET (1..n) /\ things \in SUBSET (1..n)
        /\ Of(classes, {"number"}) \in SUBSET (1..n)
        /\ Of(classes, {"from"}) \in SUBSET (1..n)
    BY <1>4 DEF entities, things
  <2> QED BY <1>2, <1>3, <2>1
<1>8. /\ Givers(shape) \cap Takers(shape) = {}
      /\ Givers(shape) \cup Takers(shape) = entities
  BY <1>3
<1>9. /\ v \notin entities \cup things \cup shape.numbers \cup shape.froms
      /\ things \cap entities = {} /\ shape.numbers \cap (entities \cup things) = {}
      /\ shape.froms \cap (entities \cup things \cup shape.numbers) = {}
  BY <1>2, <1>6
<1>10. KeptApart(shape, things, n, v)
  BY <1>2, <1>7, <1>8, <1>9 DEF KeptApart
<1> QED BY <1>8, <1>10 DEF n, things, entities

\* What the grammar asks of a sentence with one verb is what the parser asks.
Asked(shape, classes, words, roles) ==
    /\ ParticipantMissing(classes, roles)
       <=> \/ {} \in {Givers(shape), Takers(shape), shape.objects}
           \/ shape.passive /\ ~IsOne(shape.froms)
    /\ NumericBad(words, classes, roles) <=> shape.spoilt # {}
    /\ ~ParticipantMissing(classes, roles) =>
           (CountsOk(classes, roles) /\ CoverageOk(classes, roles) <=> IsSentence(shape))

\* The parser asks of a sentence what its shape says.
LEMMA SentenceIsAsked ==
    ASSUME NEW words \in Seq(Seq(Piece)), NEW classes, NEW v, NEW shape,
           Classed(classes, words, v), ShapeOf(shape, words)
    PROVE  Asked(shape, classes, words, AssignRoles(classes))
<1> DEFINE roles == AssignRoles(classes)
           things == Of(classes, ObjectClasses)
<1>1. PICK n \in Nat : n = Len(words) /\ Len(classes) = n
  BY DEF Classed
<1>2. Told(shape, classes, words, v)
  BY OneVerb
<1>3. FirstOfEach(roles, shape, v)
  BY RolesOfShape
<1>4. KeptApart(shape, things, n, v) /\ Givers(shape) \cup Takers(shape) = Of(classes, {"entity"})
  <2>1. KeptApart(shape, things, Len(words), v)
        /\ Givers(shape) \cup Takers(shape) = Of(classes, {"entity"})
    BY ShapePlaces, Zenon
  <2> QED BY <1>1, <2>1, Zenon
<1> HIDE DEF roles, things
<1>5. /\ roles.verb = v
      /\ classes[v] = "verb_passive" <=> shape.passive
  BY <1>2, <1>3, Zenon DEF Told, FirstOfEach
<1>6. ParticipantMissing(classes, roles)
      <=> \/ {} \in {Givers(shape), Takers(shape), shape.objects}
          \/ shape.passive /\ ~IsOne(shape.froms)
  <2>1. /\ classes[roles.verb] = "verb_passive" <=> shape.passive
        /\ Cardinality(Of(classes, {"from"})) # 1 <=> ~IsOne(shape.froms)
    <3>1. shape.froms = Of(classes, {"from"})
      BY <1>2, Zenon DEF Told
    <3> QED BY <1>5, <3>1 DEF IsOne
  <2>2. ParticipantMissing(classes, roles)
        <=> \/ shape.passive /\ ~IsOne(shape.froms)
            \/ NoWord \in {roles.source, roles.target, roles.object}
    BY <2>1 DEF ParticipantMissing
  <2>3. CASE shape.passive /\ ~IsOne(shape.froms)
    BY <2>2, <2>3
  <2>4. CASE ~(shape.passive /\ ~IsOne(shape.froms))
    <3>1. /\ roles.source = FirstOf(Givers(shape)) /\ roles.target = FirstOf(Takers(shape))
          /\ roles.object = FirstOf(shape.objects)
      BY <1>3, <2>4 DEF FirstOfEach
    <3>2. /\ Givers(shape) \in SUBSET (1..n) /\ Takers(shape) \in SUBSET (1..n)
          /\ shape.objects \in SUBSET (1..n)
      BY <1>4 DEF KeptApart
    <3>3. /\ Givers(shape) = {} <=> roles.source = NoWord
          /\ Takers(shape) = {} <=> roles.target = NoWord
          /\ shape.objects = {} <=> roles.object = NoWord
      BY <3>1, <3>2, FirstOfPlaces
    <3> QED BY <2>2, <2>4, <3>3
  <2> QED BY <2>3, <2>4
<1>7. NumericBad(words, classes, roles) <=> shape.spoilt # {}
  <2>1. /\ shape.behind = (v + 1)..n
        /\ shape.numbers = Of(classes, {"number"}) \cap ((v + 1)..n)
        /\ v \in 1..n
    BY <1>1, <1>2, Zenon DEF Told
  <2>2. shape.spoilt = {j \in shape.behind \ shape.numbers : FirstIsDigit(words[j])}
    BY Zenon DEF ShapeOf
  <2>3. \A j \in (v + 1)..n : j \in shape.numbers <=> classes[j] = "number"
    BY <1>1, <2>1 DEF Of
  <2>4. NumericBad(words, classes, roles)
        <=> \E j \in (v + 1)..n : FirstIsDigit(words[j]) /\ classes[j] # "number"
    BY <1>1, <1>5, Zenon DEF NumericBad
  <2> QED BY <2>1, <2>2, <2>3, <2>4
<1>8. ASSUME ~ParticipantMissing(classes, roles)
      PROVE  CountsOk(classes, roles) /\ CoverageOk(classes, roles) <=> IsSentence(shape)
  <2> DEFINE G == Givers(shape)
             T == Takers(shape)
             B == shape.objects
             Q == shape.numbers
             P == IF shape.passive THEN shape.froms ELSE {}
             taken == {v, FirstOf(G), FirstOf(T), FirstOf(B), FirstOf(Q)} \cup P
  <2>1. G # {} /\ T # {} /\ B # {} /\ (shape.passive => IsOne(shape.froms))
    BY <1>6, <1>8
  <2>2. /\ v \in 1..n /\ G \in SUBSET (1..n) /\ T \in SUBSET (1..n)
        /\ things \in SUBSET (1..n) /\ B \in SUBSET things /\ Q \in SUBSET (1..n)
        /\ shape.froms \in SUBSET (1..n)
        /\ v \notin G \cup T \cup things \cup Q \cup shape.froms
        /\ G \cap T = {} /\ things \cap (G \cup T) = {} /\ Q \cap (G \cup T \cup things) = {}
        /\ shape.froms \cap (G \cup T \cup things \cup Q) = {}
    BY <1>4, Zenon DEF KeptApart
  <2>3. /\ P \in SUBSET (1..n) /\ v \notin G \cup T \cup things \cup Q \cup P
        /\ P \cap (G \cup T \cup things \cup Q) = {}
    BY <2>2
  <2>4. Cardinality(P) = (IF shape.passive THEN 1 ELSE 0)
    BY <2>1, FS_EmptySet DEF IsOne
  <2>5. /\ roles.source = FirstOf(G) /\ roles.target = FirstOf(T)
        /\ roles.object = FirstOf(B) /\ roles.quantity = FirstOf(Q)
        /\ roles.from = FirstOf(shape.froms)
    BY <1>3, <2>1 DEF FirstOfEach
  <2>6. shape.passive => shape.froms = {roles.from}
    <3> SUFFICES ASSUME shape.passive PROVE shape.froms = {roles.from}
      OBVIOUS
    <3>1. IsFiniteSet(shape.froms) /\ Cardinality(shape.froms) = 1
      BY <2>1, <2>2, PlacesAreFinite DEF IsOne
    <3>2. shape.froms # {}
      BY <3>1, FS_EmptySet
    <3>3. roles.from \in shape.froms
      BY <2>2, <2>5, <3>2, FirstOfPlaces
    <3> QED BY <3>1, <3>3, OneIsAlone
  <2>7. CoverageOk(classes, roles) <=> 1..n \subseteq taken
    <3>1. ASSUME NEW j \in 1..n
          PROVE  (\/ j \in {roles.verb, roles.source, roles.target, roles.object,
                            roles.quantity}
                  \/ classes[roles.verb] = "verb_passive" /\ j = roles.from)
                 <=> j \in taken
      BY <1>5, <2>5, <2>6
    <3>2. CoverageOk(classes, roles)
          <=> \A j \in 1..n :
                  \/ j \in {roles.verb, roles.source, roles.target, roles.object,
                            roles.quantity}
                  \/ classes[roles.verb] = "verb_passive" /\ j = roles.from
      BY <1>1, Zenon DEF CoverageOk
    <3> HIDE DEF taken
    <3> QED BY <3>1, <3>2
  <2>8. CountsOk(classes, roles)
        <=> /\ Cardinality(G \cup T) = 2 /\ Cardinality(things) <= 1
            /\ Cardinality(Q) <= 1
    <3>1. Q = Of(classes, {"number"}) \cap ((v + 1)..n) /\ v \in 1..n
      BY <1>1, <1>2, Zenon DEF Told
    <3>2. {j \in Of(classes, {"number"}) : j > roles.verb} = Q
      BY <1>1, <1>5, <3>1 DEF Of
    <3>3. Of(classes, {"entity"}) = G \cup T
      BY <1>4
    <3> HIDE DEF G, T, Q
    <3> QED BY <3>2, <3>3, Zenon DEF CountsOk, things
  <2>9. IsSentence(shape)
        <=> /\ Cardinality(G) = 1 /\ Cardinality(T) = 1 /\ Cardinality(B) = 1
            /\ Cardinality(Q) <= 1 /\ n = 4 + Cardinality(Q) + Cardinality(P)
    <3>1. shape.verbs = {v} /\ shape.length = n
      BY <1>1, <1>2, Zenon DEF Told, ShapeOf
    <3>2. IsOne(shape.verbs)
      BY <3>1, FS_Singleton DEF IsOne
    <3> HIDE DEF G, T, B, Q, P
    <3>3. IsSentence(shape)
          <=> /\ IsOne(shape.verbs) /\ IsOne(G) /\ IsOne(T) /\ IsOne(B)
              /\ Cardinality(Q) <= 1 /\ (shape.passive => IsOne(shape.froms))
              /\ shape.length = 4 + Cardinality(Q) + (IF shape.passive THEN 1 ELSE 0)
      BY DEF IsSentence, G, T, B, Q
    <3> QED BY <2>1, <2>4, <3>1, <3>2, <3>3 DEF IsOne
  <2>10. Cardinality(P) <= 1
    BY <2>4
  <2> HIDE DEF G, T, B, Q, P
  <2>11. RolesApart(n, v, G, T, things, B, Q, P)
    BY <2>1, <2>2, <2>3, <2>10, Zenon DEF RolesApart
  <2>12. CoveredBy(n, v, G, T, things, B, Q, P) <=> CountedBy(n, G, T, B, Q, P)
    BY <2>11, CoveredIsCounted
  <2>13. CoverageOk(classes, roles) <=> 1..n \subseteq Taken(v, G, T, B, Q, P)
    BY <2>7 DEF Taken, taken
  <2> HIDE DEF taken
  <2> QED BY <2>8, <2>9, <2>12, <2>13, Zenon DEF CoveredBy, CountedBy
<1> QED BY <1>6, <1>7, <1>8 DEF Asked, roles

-----------------------------------------------------------------------------
(* The first fault. *)

\* What each fault of a sentence is, in the order of their precedence.
FaultsAre(faults, s, shape, unled, outside) ==
    /\ Len(faults) = 9
    /\ faults[1].status = "overlong" /\ faults[2].status = "empty"
    /\ faults[3].status = "bad_shape" /\ faults[4].status = "unsupported_verb"
    /\ faults[5].status = "bad_shape" /\ faults[6].status = "missing_field"
    /\ faults[7].status = "malformed_quantity" /\ faults[8].status = "bad_shape"
    /\ faults[9].status = "ok" /\ faults[9].holds
    /\ faults[1].holds <=> Len(TextOf(s)) > MaxText
    /\ faults[2].holds <=> shape.length = 0
    /\ faults[3].holds <=> shape.length > MaxWords
    /\ faults[4].holds <=> shape.verbs = {}
    /\ faults[5].holds <=> ~IsOne(shape.verbs)
    /\ faults[6].holds
       <=> {} \in {Givers(shape), Takers(shape), shape.objects} \/ unled
    /\ faults[7].holds <=> shape.spoilt # {}
    /\ faults[8].holds <=> outside

\* The nine faults in the order the grammar lists them.
LEMMA FaultsInOrder ==
    ASSUME NEW s, NEW shape, NEW unled, NEW outside
    PROVE  FaultsAre(Faults(s, shape, unled, outside), s, shape, unled, outside)
<1> DEFINE h1 == Len(TextOf(s)) > MaxText
           h2 == shape.length = 0
           h3 == shape.length > MaxWords
           h4 == shape.verbs = {}
           h5 == ~IsOne(shape.verbs)
           h6 == {} \in {Givers(shape), Takers(shape), shape.objects} \/ unled
           h7 == shape.spoilt # {}
           h8 == outside
           faults == Faults(s, shape, unled, outside)
<1>1. faults = <<[status |-> "overlong", holds |-> h1], [status |-> "empty", holds |-> h2],
                 [status |-> "bad_shape", holds |-> h3],
                 [status |-> "unsupported_verb", holds |-> h4],
                 [status |-> "bad_shape", holds |-> h5],
                 [status |-> "missing_field", holds |-> h6],
                 [status |-> "malformed_quantity", holds |-> h7],
                 [status |-> "bad_shape", holds |-> h8],
                 [status |-> "ok", holds |-> TRUE]>>
  BY Zenon DEF Faults
<1> HIDE DEF h1, h2, h3, h4, h5, h6, h7, h8, faults
<1>2. /\ Len(faults) = 9
      /\ faults[1].status = "overlong" /\ faults[2].status = "empty"
      /\ faults[3].status = "bad_shape" /\ faults[4].status = "unsupported_verb"
      /\ faults[5].status = "bad_shape" /\ faults[6].status = "missing_field"
      /\ faults[7].status = "malformed_quantity" /\ faults[8].status = "bad_shape"
      /\ faults[9].status = "ok"
  BY <1>1
<1>3. /\ faults[1].holds <=> h1
      /\ faults[2].holds <=> h2
      /\ faults[3].holds <=> h3
      /\ faults[4].holds <=> h4
      /\ faults[5].holds <=> h5
  BY <1>1
<1>4. /\ faults[6].holds <=> h6
      /\ faults[7].holds <=> h7
      /\ faults[8].holds <=> h8
      /\ faults[9].holds
  BY <1>1
<1>5. FaultsAre(faults, s, shape, unled, outside)
  BY <1>2, <1>3, <1>4, Zenon DEF FaultsAre, h1, h2, h3, h4, h5, h6, h7, h8
<1> QED BY <1>5 DEF faults

\* The faults the parser may find in a sentence.
UnledAsParsed(shape) == shape.passive /\ ~IsOne(shape.froms)

FaultsAsParsed(s) ==
    Faults(s, Shape(s), UnledAsParsed(Shape(s)), ~IsSentence(Shape(s)))

LEMMA ParsedInOrder ==
    ASSUME NEW s
    PROVE  /\ FaultsAre(FaultsAsParsed(s), s, Shape(s), UnledAsParsed(Shape(s)),
                        ~IsSentence(Shape(s)))
           /\ FaultAsParsed(s) = FirstOfFaults(FaultsAsParsed(s))
<1>1. FaultsAre(FaultsAsParsed(s), s, Shape(s), UnledAsParsed(Shape(s)),
                ~IsSentence(Shape(s)))
  BY FaultsInOrder, Zenon DEF FaultsAsParsed
<1>2. FaultAsParsed(s) = FirstOfFaults(FaultsAsParsed(s))
  BY Zenon DEF FaultAsParsed, FaultsAsParsed, UnledAsParsed
<1> QED BY <1>1, <1>2

\* A fault is the first if it holds and none before it does.
LEMMA FaultComesFirst ==
    ASSUME NEW s, NEW k \in 1..9, FaultsAsParsed(s)[k].holds,
           \A i \in 1..(k - 1) : ~FaultsAsParsed(s)[i].holds
    PROVE  FaultAsParsed(s) = FaultsAsParsed(s)[k].status
<1> DEFINE faults == FaultsAsParsed(s)
           T == {i \in 1..Len(faults) : faults[i].holds}
<1>1. Len(faults) = 9
  BY ParsedInOrder DEF FaultsAre
<1>2. FaultAsParsed(s) = faults[Min(T)].status
  BY ParsedInOrder, Zenon DEF FirstOfFaults
<1> HIDE DEF faults
<1>3. k \in T /\ T \in SUBSET Nat
  BY <1>1 DEF faults
<1>4. ASSUME NEW i \in T PROVE k <= i
  <2>1. i \in 1..9 /\ faults[i].holds
    BY <1>1
  <2>2. ~(i \in 1..(k - 1))
    BY <2>1 DEF faults
  <2> QED BY <2>1, <2>2
<1> HIDE DEF T
<1>5. Min(T) \in T /\ \A i \in T : Min(T) <= i
  BY <1>3, MinOfNumbers
<1>6. PICK l \in Nat : l = Min(T)
  BY <1>3, <1>5
<1>7. l <= k /\ k <= l
  BY <1>3, <1>4, <1>5, <1>6
<1>8. l = k
  BY <1>7
<1> QED BY <1>2, <1>6, <1>8 DEF faults

\* A text is refused as it parses, unless it is too long.
LEMMA TextStatus ==
    ASSUME NEW text
    PROVE  IngestText(text).status
               = IF Len(text) > MaxText THEN "overlong" ELSE ParseTransfer(text).status
<1> DEFINE parse == ParseTransfer(text)
           word(span) == Slice(text, span)
           facts == Facts(EventTransfer, word(parse.source), word(parse.target),
                          parse.object_code, word(parse.object), parse.quantity)
           unknown == CanonicalStatus(parse.object_code, parse.quantity) = "unknown"
<1>1. IngestText(text) =
          IF Len(text) > MaxText THEN Refuse("overlong")
          ELSE IF parse.status # "ok" THEN Refuse(parse.status)
          ELSE Assemble("text", text, facts, unknown)
  BY Zenon DEF IngestText
<1>2. \A error : Refuse(error).status = error
  BY DEF Refuse
<1>3. \A a, r, f, u : Assemble(a, r, f, u).status = "ok"
  BY DEF Assemble
<1> HIDE DEF parse, facts, unknown
<1>4. IngestText(text).status = IF Len(text) > MaxText THEN "overlong" ELSE parse.status
  <2>1. CASE Len(text) > MaxText
    BY <1>1, <1>2, <2>1
  <2>2. CASE ~(Len(text) > MaxText) /\ parse.status # "ok"
    BY <1>1, <1>2, <2>2
  <2>3. CASE ~(Len(text) > MaxText) /\ parse.status = "ok"
    <3>1. IngestText(text) = Assemble("text", text, facts, unknown)
      BY <1>1, <2>3
    <3> QED BY <1>3, <2>3, <3>1
  <2> QED BY <2>1, <2>2, <2>3
<1> QED BY <1>4 DEF parse

\* How the words of a sentence, and the roles they take, decide how it parses.
Decided(status, words, classes) ==
    LET verbs == Of(classes, VerbClasses)
        roles == AssignRoles(classes)
    IN  status = IF words = << >> THEN "empty"
                 ELSE IF Len(words) > MaxWords THEN "bad_shape"
                 ELSE IF Cardinality(verbs) = 0 THEN "unsupported_verb"
                 ELSE IF Cardinality(verbs) > 1 THEN "bad_shape"
                 ELSE FinishAssign(words, classes, roles)

\* The roles decide the status of a sentence with one verb.
LEMMA SentenceParses ==
    ASSUME NEW s \in Sentences
    PROVE  Decided(ParseTransfer(TextOf(s)).status, WordsOf(s),
                   [j \in 1..Len(WordsOf(s)) |-> ClassifyWord(WordsOf(s)[j])])
<1> DEFINE text == TextOf(s)
           said == WordsOf(s)
           n == EffectiveLength(text)
           spans == SplitWords(text, n)
           words == [j \in 1..Len(spans) |-> Slice(text, spans[j])]
           classes == [j \in 1..Len(words) |-> ClassifyWord(words[j])]
           verbs == Cardinality(Of(classes, VerbClasses))
           roles == AssignRoles(classes)
           status == FinishAssign(words, classes, roles)
<1>1. ParseTransfer(text) =
          IF n = 0 THEN FailParse("empty")
          ELSE IF Len(spans) > MaxWords THEN FailParse("bad_shape")
          ELSE IF verbs = 0 THEN FailParse("unsupported_verb")
          ELSE IF verbs > 1 THEN FailParse("bad_shape")
          ELSE IF status = "ok" THEN TransferParse(spans, words, roles)
          ELSE FailParse(status)
  BY Zenon DEF ParseTransfer
<1>2. text \in Seq(Piece) /\ Wordy(said)
  BY TextTyped, WordsAreLaid
<1>3. PICK at : Laid(text, said, at) /\ n = at[Len(said)]
  BY WordsAreLaid
<1> HIDE DEF text, said, n
<1>4. PICK m \in Nat : m = Len(said) /\ said \in Seq(Seq(Piece))
  BY <1>2 DEF Wordy
<1>5. Len(spans) = m /\ \A j \in 1..m : Slice(text, spans[j]) = said[j]
  BY <1>2, <1>3, <1>4, SplitsIntoWords
<1> HIDE DEF spans
<1>6. words = said
  <2>1. words = [j \in 1..m |-> said[j]]
    BY <1>5
  <2>2. said = [j \in 1..m |-> said[j]]
    BY <1>4
  <2> HIDE DEF words
  <2> QED BY <2>1, <2>2
<1>7. n = 0 <=> said = << >>
  BY <1>2, <1>3, LastPiece
<1>8. /\ \A fault : FailParse(fault).status = fault
      /\ \A p, w, r : TransferParse(p, w, r).status = "ok"
  BY DEF FailParse, TransferParse
<1>9. classes = [j \in 1..Len(said) |-> ClassifyWord(said[j])]
  BY <1>6
<1> HIDE DEF words, classes, verbs, roles, status
<1>10. ParseTransfer(text).status = IF said = << >> THEN "empty"
                 ELSE IF Len(said) > MaxWords THEN "bad_shape"
                 ELSE IF verbs = 0 THEN "unsupported_verb"
                 ELSE IF verbs > 1 THEN "bad_shape"
                 ELSE status
  BY <1>1, <1>4, <1>5, <1>7, <1>8
<1>11. Decided(ParseTransfer(text).status, said, classes)
  BY <1>6, <1>10 DEF Decided, verbs, roles, status
<1> QED BY <1>9, <1>11 DEF text, said

\* The status of a text is the first fault the parser may find in its sentence.
LEMMA TextNamesFirstFault ==
    ASSUME NEW s \in Sentences
    PROVE  IngestText(TextOf(s)).status = FaultAsParsed(s)
<1> DEFINE text == TextOf(s)
           words == WordsOf(s)
           shape == Shape(s)
           faults == FaultsAsParsed(s)
           classes == [j \in 1..Len(words) |-> ClassifyWord(words[j])]
           verbs == Of(classes, VerbClasses)
           roles == AssignRoles(classes)
           parsed == ParseTransfer(text).status
           status == IngestText(text).status
<1>1. status = IF Len(text) > MaxText THEN "overlong" ELSE parsed
  BY TextStatus
<1>2. Decided(parsed, words, classes)
  BY SentenceParses
<1>3. FaultsAre(faults, s, shape, UnledAsParsed(shape), ~IsSentence(shape))
  BY ParsedInOrder
<1>4. ShapeOf(shape, words)
  BY ShapesAreOf
<1>5. words \in Seq(Seq(Piece))
  BY WordsAreLaid DEF Wordy
<1> HIDE DEF words
<1>6. PICK m \in Nat : m = Len(words) /\ (words = << >> <=> m = 0)
  BY <1>5
<1>7. Len(classes) = Len(words) /\ \A j \in 1..Len(words) : classes[j] = ClassifyWord(words[j])
  BY <1>5
<1> HIDE DEF classes
<1>8. verbs = shape.verbs /\ verbs \in SUBSET (1..m)
  <2>1. verbs = Places(words, VerbClasses)
    BY <1>7, ClassesArePlaces
  <2>2. shape.verbs = verbs
    BY <1>4, <2>1 DEF ShapeOf, VerbClasses
  <2>3. verbs \in SUBSET (1..m)
    BY <1>6, <1>7 DEF Of
  <2> QED BY <2>2, <2>3
<1>9. IsFiniteSet(verbs) /\ Cardinality(verbs) \in Nat /\ (Cardinality(verbs) = 0 <=> verbs = {})
  BY <1>8, PlacesAreFinite, FS_EmptySet, FS_CardinalityType
<1>10. parsed = IF words = << >> THEN "empty"
                ELSE IF Len(words) > MaxWords THEN "bad_shape"
                ELSE IF Cardinality(verbs) = 0 THEN "unsupported_verb"
                ELSE IF Cardinality(verbs) > 1 THEN "bad_shape"
                ELSE FinishAssign(words, classes, roles)
  BY <1>2, Zenon DEF Decided
<1> DEFINE fault(i) == faults[i].holds
<1>11. /\ fault(1) <=> Len(text) > MaxText
       /\ fault(2) <=> words = << >>
       /\ fault(3) <=> Len(words) > MaxWords
       /\ fault(4) <=> verbs = {}
       /\ fault(5) <=> Cardinality(verbs) # 1
  <2>1. shape.length = Len(words)
    BY <1>4 DEF ShapeOf
  <2> HIDE DEF faults, text, shape, verbs
  <2> QED BY <1>3, <1>6, <1>8, <2>1 DEF FaultsAre, IsOne, text
<1>12. \A k \in 1..9 : fault(k) /\ (\A i \in 1..(k - 1) : ~fault(i))
                           => FaultAsParsed(s) = faults[k].status
  BY FaultComesFirst
<1>13. /\ faults[1].status = "overlong" /\ faults[2].status = "empty"
       /\ faults[3].status = "bad_shape" /\ faults[4].status = "unsupported_verb"
       /\ faults[5].status = "bad_shape" /\ faults[6].status = "missing_field"
       /\ faults[7].status = "malformed_quantity" /\ faults[8].status = "bad_shape"
       /\ faults[9].status = "ok" /\ fault(9)
  BY <1>3 DEF FaultsAre
<1> HIDE DEF text, shape, faults, verbs, parsed, status, fault
<1>14. CASE fault(1)
  <2>1. FaultAsParsed(s) = faults[1].status
    BY <1>12, <1>14
  <2> QED BY <1>1, <1>11, <1>13, <1>14, <2>1 DEF status, text
<1>15. CASE ~fault(1) /\ fault(2)
  <2>1. FaultAsParsed(s) = faults[2].status
    <3>1. \A i \in 1..(2 - 1) : ~fault(i)
      BY <1>15
    <3> QED BY <1>12, <1>15, <3>1
  <2> QED BY <1>1, <1>10, <1>11, <1>13, <1>15, <2>1 DEF status, text
<1>16. CASE ~fault(1) /\ ~fault(2) /\ fault(3)
  <2>1. FaultAsParsed(s) = faults[3].status
    <3>1. \A i \in 1..(3 - 1) : ~fault(i)
      <4>1. \A i \in 1..(3 - 1) : i = 1 \/ i = 2
        OBVIOUS
      <4> QED BY <1>16, <4>1
    <3> QED BY <1>12, <1>16, <3>1
  <2> QED BY <1>1, <1>10, <1>11, <1>13, <1>16, <2>1 DEF status, text
<1>17. CASE ~fault(1) /\ ~fault(2) /\ ~fault(3) /\ fault(4)
  <2>1. FaultAsParsed(s) = faults[4].status
    <3>1. \A i \in 1..(4 - 1) : ~fault(i)
      <4>1. \A i \in 1..(4 - 1) : i = 1 \/ i = 2 \/ i = 3
        OBVIOUS
      <4> QED BY <1>17, <4>1
    <3> QED BY <1>12, <1>17, <3>1
  <2>2. parsed = "unsupported_verb"
    BY <1>9, <1>10, <1>11, <1>17
  <2> QED BY <1>1, <1>11, <1>13, <1>17, <2>1, <2>2 DEF status, text
<1>18. CASE ~fault(1) /\ ~fault(2) /\ ~fault(3) /\ ~fault(4) /\ fault(5)
  <2>1. FaultAsParsed(s) = faults[5].status
    <3>1. \A i \in 1..(5 - 1) : ~fault(i)
      <4>1. \A i \in 1..(5 - 1) : i = 1 \/ i = 2 \/ i = 3 \/ i = 4
        OBVIOUS
      <4> QED BY <1>18, <4>1
    <3> QED BY <1>12, <1>18, <3>1
  <2>2. PICK c \in Nat : c = Cardinality(verbs)
    BY <1>9
  <2>3. c # 0 /\ c > 1
    BY <1>9, <1>11, <1>18, <2>2
  <2>4. parsed = "bad_shape"
    BY <1>10, <1>11, <1>18, <2>2, <2>3
  <2> QED BY <1>1, <1>11, <1>13, <1>18, <2>1, <2>4 DEF status, text
<1>19. CASE ~fault(1) /\ ~fault(2) /\ ~fault(3) /\ ~fault(4) /\ ~fault(5)
  <2>1. PICK v : verbs = {v}
    BY <1>9, <1>11, <1>19, FS_Singleton
  <2>2. Classed(classes, words, v)
    BY <1>7, <2>1 DEF Classed, verbs
  <2>3. Asked(shape, classes, words, roles)
    BY <1>4, <1>5, <2>2, SentenceIsAsked
  <2>4. parsed = FinishAssign(words, classes, roles)
    <3>1. Cardinality(verbs) = 1
      BY <1>11, <1>19
    <3> HIDE DEF roles
    <3> QED BY <1>10, <1>11, <1>19, <3>1
  <2>5. status = parsed
    BY <1>1, <1>11, <1>19 DEF status, text
  <2> DEFINE missing == ParticipantMissing(classes, roles)
             bad == NumericBad(words, classes, roles)
             fits == CountsOk(classes, roles) /\ CoverageOk(classes, roles)
  <2>6. /\ fault(6) <=> missing
        /\ fault(7) <=> bad
        /\ ~missing => (fault(8) <=> ~fits)
    <3> HIDE DEF missing, bad, fits
    <3>1. /\ fault(6) <=> \/ {} \in {Givers(shape), Takers(shape), shape.objects}
                          \/ shape.passive /\ ~IsOne(shape.froms)
          /\ fault(7) <=> shape.spoilt # {}
          /\ fault(8) <=> ~IsSentence(shape)
      BY <1>3, Zenon DEF FaultsAre, UnledAsParsed, fault
    <3>2. /\ missing <=> \/ {} \in {Givers(shape), Takers(shape), shape.objects}
                         \/ shape.passive /\ ~IsOne(shape.froms)
          /\ bad <=> shape.spoilt # {}
          /\ ~missing => (fits <=> IsSentence(shape))
      BY <2>3, Zenon DEF Asked, missing, bad, fits
    <3> QED BY <3>1, <3>2, Zenon
  <2>7. FinishAssign(words, classes, roles) =
            IF missing THEN "missing_field"
            ELSE IF bad THEN "malformed_quantity"
            ELSE IF ~fits THEN "bad_shape" ELSE "ok"
    BY Zenon DEF FinishAssign
  <2> HIDE DEF missing, bad, fits, roles
  <2>8. \A i \in 1..5 : ~fault(i)
    <3>1. \A i \in 1..5 : i = 1 \/ i = 2 \/ i = 3 \/ i = 4 \/ i = 5
      OBVIOUS
    <3> QED BY <1>19, <3>1
  <2>9. CASE fault(6)
    <3>1. \A i \in 1..(6 - 1) : ~fault(i)
      BY <2>8
    <3>2. FaultAsParsed(s) = faults[6].status
      BY <1>12, <2>9, <3>1
    <3> QED BY <1>13, <2>4, <2>5, <2>6, <2>7, <2>9, <3>2 DEF status, text
  <2>10. CASE ~fault(6) /\ fault(7)
    <3>1. \A i \in 1..(7 - 1) : ~fault(i)
      <4>1. \A i \in 1..(7 - 1) : i \in 1..5 \/ i = 6
        OBVIOUS
      <4> QED BY <2>8, <2>10, <4>1
    <3>2. FaultAsParsed(s) = faults[7].status
      BY <1>12, <2>10, <3>1
    <3> QED BY <1>13, <2>4, <2>5, <2>6, <2>7, <2>10, <3>2 DEF status, text
  <2>11. CASE ~fault(6) /\ ~fault(7) /\ fault(8)
    <3>1. \A i \in 1..(8 - 1) : ~fault(i)
      <4>1. \A i \in 1..(8 - 1) : i \in 1..5 \/ i = 6 \/ i = 7
        OBVIOUS
      <4> QED BY <2>8, <2>11, <4>1
    <3>2. FaultAsParsed(s) = faults[8].status
      BY <1>12, <2>11, <3>1
    <3> QED BY <1>13, <2>4, <2>5, <2>6, <2>7, <2>11, <3>2 DEF status, text
  <2>12. CASE ~fault(6) /\ ~fault(7) /\ ~fault(8)
    <3>1. \A i \in 1..(9 - 1) : ~fault(i)
      <4>1. \A i \in 1..(9 - 1) : i \in 1..5 \/ i = 6 \/ i = 7 \/ i = 8
        OBVIOUS
      <4> QED BY <2>8, <2>12, <4>1
    <3>2. FaultAsParsed(s) = faults[9].status
      BY <1>12, <1>13, <3>1
    <3> QED BY <1>13, <2>4, <2>5, <2>6, <2>7, <2>12, <3>2 DEF status, text
  <2> QED BY <2>9, <2>10, <2>11, <2>12
<1> QED BY <1>14, <1>15, <1>16, <1>17, <1>18, <1>19

\* Where the parser and the grammar may not disagree they name one fault.
LEMMA NoDeparture ==
    ASSUME NEW s \in Sentences, ~Departs(s)
    PROVE  FaultAsWritten(s) = FaultAsParsed(s)
<1> DEFINE shape == Shape(s)
           written == shape.passive /\ shape.froms = {}
           outside == ~IsSentence(shape) \/ ~InForm(s) \/ ~Stopped(s)
<1>1. (outside <=> ~IsSentence(shape)) /\ ~DoubledFrom(shape)
  BY Zenon DEF Departs
<1>2. PICK m \in Nat : m = Len(WordsOf(s))
  BY WordsAreLaid DEF Wordy
<1>3. shape.froms \in SUBSET (1..m)
  <2>1. shape.froms = Places(WordsOf(s), {"from"})
    BY ShapesAreOf DEF ShapeOf
  <2> HIDE DEF shape
  <2> QED BY <1>2, <2>1 DEF Places
<1> HIDE DEF shape
<1>4. PICK c \in Nat : c = Cardinality(shape.froms) /\ (c = 0 <=> shape.froms = {})
  BY <1>2, <1>3, PlacesAreFinite, FS_EmptySet, FS_CardinalityType
<1>5. shape.passive => c <= 1
  BY <1>1, <1>4 DEF DoubledFrom
<1>6. written <=> UnledAsParsed(shape)
  BY <1>4, <1>5 DEF UnledAsParsed, IsOne
<1>7. FaultAsWritten(s) = FirstOfFaults(Faults(s, shape, written, outside))
  BY Zenon DEF FaultAsWritten, shape
<1>8. FaultAsParsed(s)
          = FirstOfFaults(Faults(s, shape, UnledAsParsed(shape), ~IsSentence(shape)))
  BY ParsedInOrder, Zenon DEF FaultsAsParsed, shape
<1>9. written = UnledAsParsed(shape) /\ outside = ~IsSentence(shape)
  <2>1. written \in BOOLEAN /\ outside \in BOOLEAN
    OBVIOUS
  <2>2. UnledAsParsed(shape) \in BOOLEAN /\ (~IsSentence(shape)) \in BOOLEAN
    BY DEF UnledAsParsed
  <2> HIDE DEF written, outside
  <2> QED BY <1>1, <1>6, <2>1, <2>2, Zenon
<1> HIDE DEF written, outside
<1> QED BY <1>7, <1>8, <1>9, Zenon

\* docs/GRAMMAR.md, forms, shape rules and statuses, of
\* language/mncs/ingest/parse.mncs: a sentence, however long and whatever its
\* words, is accepted exactly when it has one of the two forms and ends with a
\* full stop, and refused for the first of its faults; where the parser departs
\* from that, exactly when every word fills one role and every role is filled.
THEOREM IngestFirstFault ==
    Spec => []FirstFaultIsNamed
<1>1. Init => FirstFaultIsNamed
  BY DEF Init, FirstFaultIsNamed
<1>2. ASSUME FirstFaultIsNamed, [Next]_vars PROVE FirstFaultIsNamed'
  <2>1. ASSUME NEW adapter, NEW input, NEW ingested, Hand(adapter, input, ingested)
        PROVE  /\ last'.adapter = adapter /\ last'.input = input
               /\ (ingested.status = "ok" =>
                       ingested.fragment.schema = FragmentSchemaVersion)
                  => last'.status = ingested.status
    BY <2>1 DEF Hand, Accept
  <2>2. CASE UNCHANGED vars
    BY <1>2, <2>2 DEF vars, FirstFaultIsNamed
  <2>3. ASSUME NEW s \in Sentences, Text(s) PROVE FirstFaultIsNamed'
    <3>1. SoundlyIngested(IngestText(TextOf(s)))
      BY TextTyped, TextIsSound
    <3>2. Hand("text", s, IngestText(TextOf(s)))
      BY <2>3 DEF Text
    <3>3. last'.input = s /\ last'.status = IngestText(TextOf(s)).status
      BY <2>1, <3>1, <3>2 DEF SoundlyIngested, FragmentOf
    <3>4. /\ last'.status = FaultAsParsed(last'.input)
          /\ ~Departs(last'.input) => last'.status = FaultAsWritten(last'.input)
      BY <3>3, TextNamesFirstFault, NoDeparture
    <3> QED BY <3>4 DEF FirstFaultIsNamed
  <2>4. ASSUME NEW d \in Documents, Structured(d) PROVE FirstFaultIsNamed'
    <3>1. last'.adapter = "structured"
      BY <2>1, <2>4 DEF Structured
    <3> QED BY <3>1 DEF FirstFaultIsNamed
  <2>5. ASSUME NEW v \in Natives, NEW schema \in Schemas, Native(v, schema)
        PROVE  FirstFaultIsNamed'
    <3>1. last'.adapter = "native"
      BY <2>1, <2>5 DEF Native
    <3> QED BY <3>1 DEF FirstFaultIsNamed
  <2> QED BY <1>2, <2>2, <2>3, <2>4, <2>5 DEF Next
<1> QED BY <1>1, <1>2, PTL DEF Spec

-----------------------------------------------------------------------------
(* What facts say. *)

\* The object of facts: known codes are one object each, others are their spelling.
ThingOf(facts) ==
    CASE facts.object_code = Apple -> [known |-> TRUE, as |-> <<Lower("apple")>>]
      [] facts.object_code = Orange -> [known |-> TRUE, as |-> <<Lower("orange")>>]
      [] OTHER -> [known |-> FALSE, as |-> facts.object_spelling]

\* Who gave what to whom, and how many, by the facts.
Meaning(facts) ==
    Observation(facts.source, facts.target, ThingOf(facts), facts.quantity)

\* A word and its code are one object.
LEMMA ThingByCode ==
    ASSUME NEW word, NEW facts, facts.object_code = ClassifyObject(word),
           facts.object_spelling = word
    PROVE  ThingOf(facts) = Thing(word)
<1>1. Apple # Orange /\ Apple # UnknownObject /\ Orange # UnknownObject
  BY DEF Apple, Orange, UnknownObject
<1>2. DOMAIN Singular = {"apple", "apples", "orange", "oranges"}
  BY DEF Singular
<1>3. /\ Singular["apple"] = "apple" /\ Singular["apples"] = "apple"
      /\ Singular["orange"] = "orange" /\ Singular["oranges"] = "orange"
  BY DEF Singular
<1>4. CASE IsOneOf(word, {"apple", "apples"})
  <2>1. ThingOf(facts) = [known |-> TRUE, as |-> <<Lower("apple")>>]
    BY <1>1, <1>4, Zenon DEF ClassifyObject, ThingOf
  <2>2. Len(word) = 1 /\ word[1].fold \in {"apple", "apples"}
    BY <1>4 DEF IsOneOf
  <2>3. Singular[word[1].fold] = "apple" /\ word[1].fold \in DOMAIN Singular
    BY <1>2, <1>3, <2>2
  <2>4. Thing(word) = [known |-> TRUE, as |-> <<Lower("apple")>>]
    BY <2>2, <2>3, Zenon DEF Thing
  <2> QED BY <2>1, <2>4
<1>5. CASE ~IsOneOf(word, {"apple", "apples"}) /\ IsOneOf(word, {"orange", "oranges"})
  <2>1. facts.object_code = Orange
    BY <1>5, Zenon DEF ClassifyObject
  <2>2. ThingOf(facts) = [known |-> TRUE, as |-> <<Lower("orange")>>]
    BY <1>1, <2>1 DEF ThingOf
  <2>3. Len(word) = 1 /\ word[1].fold \in {"orange", "oranges"}
    BY <1>5 DEF IsOneOf
  <2>4. Singular[word[1].fold] = "orange" /\ word[1].fold \in DOMAIN Singular
    BY <1>2, <1>3, <2>3
  <2>5. Thing(word) = [known |-> TRUE, as |-> <<Lower("orange")>>]
    BY <2>3, <2>4, Zenon DEF Thing
  <2> QED BY <2>2, <2>5
<1>6. CASE ~IsOneOf(word, {"apple", "apples"}) /\ ~IsOneOf(word, {"orange", "oranges"})
  <2>1. facts.object_code = UnknownObject
    BY <1>6, Zenon DEF ClassifyObject
  <2>2. ThingOf(facts) = [known |-> FALSE, as |-> word]
    BY <1>1, <2>1 DEF ThingOf
  <2>3. ~(Len(word) = 1 /\ word[1].fold \in DOMAIN Singular)
    BY <1>2, <1>6 DEF IsOneOf
  <2>4. Thing(word) = [known |-> FALSE, as |-> word]
    BY <2>3, Zenon DEF Thing
  <2> QED BY <2>2, <2>4
<1> QED BY <1>4, <1>5, <1>6

\* Objects are the same when their codes are and, of unknown ones, their spellings.
LEMMA ThingsApart ==
    ASSUME NEW a, NEW b, SoundFacts(a), SoundFacts(b)
    PROVE  ThingOf(a) = ThingOf(b)
           <=> /\ a.object_code = b.object_code
               /\ a.object_code = UnknownObject => a.object_spelling = b.object_spelling
<1>1. Apple # Orange /\ Apple # UnknownObject /\ Orange # UnknownObject
  BY DEF Apple, Orange, UnknownObject
<1>2. /\ a.object_code \in {Apple, Orange, UnknownObject}
      /\ b.object_code \in {Apple, Orange, UnknownObject}
  BY DEF SoundFacts
<1>3. <<Lower("apple")>> # <<Lower("orange")>>
  BY DEF Lower
<1>4. ASSUME NEW c, c \in {a, b}
      PROVE  /\ c.object_code = Apple => ThingOf(c).known /\ ThingOf(c).as = <<Lower("apple")>>
             /\ c.object_code = Orange => ThingOf(c).known /\ ThingOf(c).as = <<Lower("orange")>>
             /\ c.object_code = UnknownObject =>
                    ~ThingOf(c).known /\ ThingOf(c).as = c.object_spelling
  BY <1>1 DEF ThingOf
<1>5. ThingOf(a) = ThingOf(b)
      => /\ a.object_code = b.object_code
         /\ a.object_code = UnknownObject => a.object_spelling = b.object_spelling
  BY <1>1, <1>2, <1>3, <1>4
<1>6. /\ a.object_code = b.object_code
      /\ a.object_code = UnknownObject => a.object_spelling = b.object_spelling
      => ThingOf(a) = ThingOf(b)
  BY <1>1, <1>2 DEF ThingOf
<1> QED BY <1>5, <1>6

\* MNCS calls equal what means the same.
LEMMA EqualInMeaning ==
    ASSUME NEW a, NEW b, SoundFacts(a), SoundFacts(b)
    PROVE  MncsEqual(a, b) <=> Meaning(a) = Meaning(b)
<1>1. /\ Meaning(a) = Meaning(b)
         <=> /\ a.source = b.source /\ a.target = b.target
             /\ ThingOf(a) = ThingOf(b) /\ a.quantity = b.quantity
  BY DEF Meaning, Observation
<1>2. ThingOf(a) = ThingOf(b)
      <=> /\ a.object_code = b.object_code
          /\ a.object_code = UnknownObject => a.object_spelling = b.object_spelling
  BY ThingsApart
<1>3. /\ a.event = b.event
      /\ Len(a.source) <= MaxSpelling /\ Len(a.target) <= MaxSpelling
      /\ Len(a.object_spelling) <= MaxSpelling
  BY DEF SoundFacts, Bounded
<1> QED BY <1>1, <1>2, <1>3 DEF MncsEqual, CodesEqual, SpellEqual

\* A document that is accepted says what its fields do.
LEMMA DocumentSays ==
    ASSUME NEW doc \in Documents, IngestStructured(doc).status = "ok"
    PROVE  SaidDocument(doc) = Meaning(IngestStructured(doc).facts)
<1> DEFINE code == ClassifyObject(doc["object"].text)
           facts == Facts(Event(doc), doc["from"].text, doc["to"].text,
                          code, doc["object"].text, Quantity(doc))
           unknown == CanonicalStatus(code, Quantity(doc)) = "unknown"
<1>1. IngestStructured(doc) =
          IF DocumentStatus(doc) # "ok" THEN Refuse(DocumentStatus(doc))
          ELSE Assemble("structured", doc, facts, unknown)
  BY Zenon DEF IngestStructured
<1>2. /\ facts.source = doc["from"].text /\ facts.target = doc["to"].text
      /\ facts.object_code = code /\ facts.object_spelling = doc["object"].text
      /\ facts.quantity = Quantity(doc)
  <2> HIDE DEF code
  <2> QED BY FactsFields
<1>3. ThingOf(facts) = Thing(doc["object"].text)
  <2> HIDE DEF facts
  <2> QED BY <1>2, ThingByCode
<1> HIDE DEF facts, unknown
<1>4. IngestStructured(doc).facts = facts
  <2>1. DocumentStatus(doc) = "ok"
    BY <1>1 DEF Refuse
  <2>2. Assemble("structured", doc, facts, unknown).facts = facts
    BY DEF Assemble
  <2> QED BY <1>1, <2>1, <2>2
<1>5. SaidDocument(doc) = Meaning(facts)
  <2>1. SaidDocument(doc) = Observation(doc["from"].text, doc["to"].text,
                                        Thing(doc["object"].text), Quantity(doc))
    BY Zenon DEF SaidDocument, Quantity
  <2> QED BY <1>2, <1>3, <2>1, Zenon DEF Meaning
<1> QED BY <1>4, <1>5

\* A native value that is accepted says what its codes do.
LEMMA NativeSays ==
    ASSUME NEW value \in Natives, IngestNative(value).status = "ok"
    PROVE  SaidNative(value) = Meaning(IngestNative(value).facts)
<1> DEFINE spelling == NativeSpelling(value)
           facts == Facts(value.event_code, value.source, value.target,
                          value.object_code, spelling, value.quantity)
           unknown == CanonicalStatus(value.object_code, value.quantity) = "unknown"
           raw == NativeSignal(value)
           said == CASE value.object_code = 1 -> Thing(<<Lower("apple")>>)
                     [] value.object_code = 2 -> Thing(<<Lower("orange")>>)
                     [] OTHER -> [known |-> FALSE, as |-> value.object_spelling[1]]
<1>1. IngestNative(value) =
          IF NativeStatus(value) # "ok" THEN Refuse(NativeStatus(value))
          ELSE Assemble("native", raw, facts, unknown)
  BY Zenon DEF IngestNative
<1>2. /\ facts.source = value.source /\ facts.target = value.target
      /\ facts.object_code = value.object_code /\ facts.object_spelling = spelling
      /\ facts.quantity = value.quantity
  <2> HIDE DEF spelling
  <2> QED BY FactsFields
<1> HIDE DEF facts, unknown, raw
<1>3. NativeStatus(value) = "ok"
  BY <1>1 DEF Refuse
<1>4. IngestNative(value).facts = facts
  <2>1. Assemble("native", raw, facts, unknown).facts = facts
    BY DEF Assemble
  <2> QED BY <1>1, <1>3, <2>1
<1>5. ObjectFieldStatus(value) = "ok"
  BY <1>3, Zenon DEF NativeStatus
<1>6. value.object_code \in {Apple, Orange, UnknownObject}
  BY <1>5, NativeSpellingBounded
<1>7. said = ThingOf(facts)
  <2>1. ASSUME NEW fold, fold \in {"apple", "orange"}
        PROVE  Thing(<<Lower(fold)>>) = [known |-> TRUE, as |-> <<Lower(fold)>>]
    <3>1. Len(<<Lower(fold)>>) = 1 /\ <<Lower(fold)>>[1].fold = fold
      BY DEF Lower
    <3>2. fold \in DOMAIN Singular /\ Singular[fold] = fold
      BY <2>1 DEF Singular
    <3> QED BY <3>1, <3>2, Zenon DEF Thing
  <2>2. CASE value.object_code = Apple
    BY <1>2, <2>1, <2>2 DEF ThingOf, Apple, Orange
  <2>3. CASE value.object_code = Orange
    BY <1>2, <2>1, <2>3 DEF ThingOf, Apple, Orange
  <2>4. CASE value.object_code = UnknownObject
    <3>1. value.object_spelling # << >>
      BY <1>5, <2>4 DEF ObjectFieldStatus, Apple, Orange, UnknownObject
    <3>2. spelling = value.object_spelling[1]
      BY <3>1, Zenon DEF NativeSpelling
    <3> QED BY <1>2, <2>4, <3>2 DEF ThingOf, Apple, Orange, UnknownObject
  <2> QED BY <1>6, <2>2, <2>3, <2>4
<1>8. SaidNative(value) = Meaning(facts)
  <2>1. SaidNative(value) = Observation(value.source, value.target, said, value.quantity)
    BY Zenon DEF SaidNative
  <2> QED BY <1>2, <1>7, <2>1, Zenon DEF Meaning
<1> QED BY <1>4, <1>8

\* The one place of a set is the first of it.
LEMMA OnlyIsFirst ==
    ASSUME NEW n \in Nat, NEW S \in SUBSET (1..n), Cardinality(S) = 1
    PROVE  Only(S) = FirstOf(S) /\ FirstOf(S) \in S /\ S # {} /\ FirstOf(S) # NoWord
<1>1. PICK x : S = {x}
  BY PlacesAreFinite, FS_Singleton
<1>2. S # {} /\ x \in 1..n
  BY <1>1
<1>3. FirstOf(S) \in S
  BY <1>2, FirstOfPlaces
<1>4. Only(S) \in S
  BY <1>2 DEF Only
<1> QED BY <1>1, <1>2, <1>3, <1>4 DEF NoWord

\* What a word that is not there, or the number that is, counts.
CountOf(words, j) ==
    IF j = NoWord THEN << >> ELSE <<ClassifyWordNumber(words[j]).value>>

\* The roles of an accepted sentence are the words its shape has for them.
SpokenBy(shape, words, roles) ==
    /\ Only(Givers(shape)) = roles.source /\ Only(Takers(shape)) = roles.target
    /\ Only(shape.objects) = roles.object
    /\ CountOf(words, roles.quantity)
           = IF shape.numbers = {} THEN << >>
             ELSE <<ClassifyWordNumber(words[Only(shape.numbers)]).value>>
    /\ {roles.source, roles.target, roles.object} \subseteq 1..Len(words)

\* The parser's roles are the words the shape has for them.
LEMMA RolesAreSpoken ==
    ASSUME NEW words \in Seq(Seq(Piece)), NEW classes, NEW v, NEW shape,
           Classed(classes, words, v), ShapeOf(shape, words),
           FinishAssign(words, classes, AssignRoles(classes)) = "ok"
    PROVE  SpokenBy(shape, words, AssignRoles(classes))
<1> DEFINE roles == AssignRoles(classes)
           things == Of(classes, ObjectClasses)
<1>1. PICK n \in Nat : n = Len(words)
  OBVIOUS
<1>2. FirstOfEach(roles, shape, v)
  BY RolesOfShape
<1>3. KeptApart(shape, things, n, v)
  BY <1>1, ShapePlaces, Zenon
<1>4. Asked(shape, classes, words, roles)
  BY SentenceIsAsked
<1> HIDE DEF roles, things
<1>5. /\ ~ParticipantMissing(classes, roles)
      /\ CountsOk(classes, roles) /\ CoverageOk(classes, roles)
  <2>1. FinishAssign(words, classes, roles) = "ok"
    BY DEF roles
  <2> QED BY <2>1 DEF FinishAssign
<1>6. IsSentence(shape)
  BY <1>4, <1>5, Zenon DEF Asked
<1>7. /\ Cardinality(Givers(shape)) = 1 /\ Cardinality(Takers(shape)) = 1
      /\ Cardinality(shape.objects) = 1 /\ Cardinality(shape.numbers) <= 1
      /\ shape.passive => IsOne(shape.froms)
  BY <1>6 DEF IsSentence, IsOne
<1>8. /\ roles.object = FirstOf(shape.objects)
      /\ roles.quantity = FirstOf(shape.numbers)
      /\ roles.source = FirstOf(Givers(shape))
      /\ roles.target = FirstOf(Takers(shape))
  BY <1>2, <1>7, Zenon DEF FirstOfEach
<1>9. /\ Givers(shape) \in SUBSET (1..n) /\ Takers(shape) \in SUBSET (1..n)
      /\ shape.objects \in SUBSET (1..n) /\ shape.numbers \in SUBSET (1..n)
  BY <1>3 DEF KeptApart
<1>10. /\ Only(Givers(shape)) = roles.source /\ Only(Takers(shape)) = roles.target
       /\ Only(shape.objects) = roles.object
       /\ {roles.source, roles.target, roles.object} \subseteq 1..n
  BY <1>7, <1>8, <1>9, OnlyIsFirst
<1>11. CountOf(words, roles.quantity)
           = IF shape.numbers = {} THEN << >>
             ELSE <<ClassifyWordNumber(words[Only(shape.numbers)]).value>>
  <2>1. CASE shape.numbers = {}
    <3>1. roles.quantity = NoWord
      BY <1>8, <2>1 DEF FirstOf
    <3> QED BY <2>1, <3>1 DEF CountOf
  <2>2. CASE shape.numbers # {}
    <3>1. PICK c \in Nat : c = Cardinality(shape.numbers) /\ c # 0 /\ c <= 1
      <4>1. IsFiniteSet(shape.numbers) /\ Cardinality(shape.numbers) \in 0..n
        BY <1>9, PlacesAreFinite
      <4>2. Cardinality(shape.numbers) # 0
        BY <2>2, <4>1, FS_EmptySet
      <4> QED BY <1>7, <4>1, <4>2
    <3>2. Cardinality(shape.numbers) = 1
      BY <3>1
    <3>3. Only(shape.numbers) = roles.quantity /\ roles.quantity # NoWord
      BY <1>8, <1>9, <3>2, OnlyIsFirst
    <3> QED BY <2>2, <3>3, Zenon DEF CountOf
  <2> QED BY <2>1, <2>2
<1>12. SpokenBy(shape, words, roles)
  BY <1>1, <1>10, <1>11, Zenon DEF SpokenBy
<1> QED BY <1>12 DEF roles

\* A sentence that parses is read as its shape says: who gives stands in the
\* place of the source, and so on.
ReadAs(parse, s) ==
    LET text == TextOf(s)
        shape == Shape(s)
        words == WordsOf(s)
    IN  /\ Slice(text, parse.source) = words[Only(Givers(shape))]
        /\ Slice(text, parse.target) = words[Only(Takers(shape))]
        /\ Slice(text, parse.object) = words[Only(shape.objects)]
        /\ parse.object_code = ClassifyObject(words[Only(shape.objects)])
        /\ parse.quantity =
               IF shape.numbers = {} THEN << >>
               ELSE <<ClassifyWordNumber(words[Only(shape.numbers)]).value>>

\* So the parser reads a sentence as its shape says.
LEMMA SentenceIsRead ==
    ASSUME NEW s \in Sentences, ParseTransfer(TextOf(s)).status = "ok"
    PROVE  ReadAs(ParseTransfer(TextOf(s)), s)
<1> DEFINE text == TextOf(s)
           said == WordsOf(s)
           shape == Shape(s)
           n == EffectiveLength(text)
           spans == SplitWords(text, n)
           words == [j \in 1..Len(spans) |-> Slice(text, spans[j])]
           classes == [j \in 1..Len(words) |-> ClassifyWord(words[j])]
           verbs == Cardinality(Of(classes, VerbClasses))
           roles == AssignRoles(classes)
           status == FinishAssign(words, classes, roles)
<1>1. ParseTransfer(text) =
          IF n = 0 THEN FailParse("empty")
          ELSE IF Len(spans) > MaxWords THEN FailParse("bad_shape")
          ELSE IF verbs = 0 THEN FailParse("unsupported_verb")
          ELSE IF verbs > 1 THEN FailParse("bad_shape")
          ELSE IF status = "ok" THEN TransferParse(spans, words, roles)
          ELSE FailParse(status)
  BY Zenon DEF ParseTransfer
<1>2. text \in Seq(Piece) /\ Wordy(said) /\ ParseTransfer(text).status = "ok"
  BY TextTyped, WordsAreLaid
<1>3. PICK at : Laid(text, said, at) /\ n = at[Len(said)]
  BY WordsAreLaid
<1>4. ShapeOf(shape, said)
  BY ShapesAreOf
<1> HIDE DEF text, said, shape, n
<1>5. PICK m \in Nat : m = Len(said) /\ said \in Seq(Seq(Piece))
  BY <1>2 DEF Wordy
<1>6. Len(spans) = m /\ \A j \in 1..m : Slice(text, spans[j]) = said[j]
  BY <1>2, <1>3, <1>5, SplitsIntoWords
<1> HIDE DEF spans
<1>7. words = said
  <2>1. words = [j \in 1..m |-> said[j]]
    BY <1>6
  <2>2. said = [j \in 1..m |-> said[j]]
    BY <1>5
  <2> HIDE DEF words
  <2> QED BY <2>1, <2>2
<1> HIDE DEF words
<1>8. Len(classes) = m /\ \A j \in 1..m : classes[j] = ClassifyWord(said[j])
  BY <1>5, <1>7
<1>9. Of(classes, VerbClasses) \in SUBSET (1..m)
  BY <1>8 DEF Of
<1> HIDE DEF classes
<1>10. IsFiniteSet(Of(classes, VerbClasses)) /\ verbs \in Nat
  <2>1. Cardinality(Of(classes, VerbClasses)) \in 0..m
    BY <1>9, PlacesAreFinite
  <2> QED BY <1>9, <2>1, PlacesAreFinite
<1>11. \A fault : FailParse(fault).status = fault
  BY DEF FailParse
<1> HIDE DEF verbs, roles, status
<1>12. /\ status = "ok" /\ verbs # 0 /\ ~(verbs > 1)
       /\ ParseTransfer(text) = TransferParse(spans, words, roles)
  BY <1>1, <1>2, <1>11
<1>13. PICK v : Of(classes, VerbClasses) = {v}
  <2>1. verbs = 1
    BY <1>10, <1>12
  <2> QED BY <1>10, <2>1, FS_Singleton DEF verbs
<1>14. Classed(classes, said, v)
  BY <1>5, <1>8, <1>13 DEF Classed
<1>15. SpokenBy(shape, said, roles)
  <2>1. FinishAssign(said, classes, AssignRoles(classes)) = "ok"
    BY <1>7, <1>12 DEF status, roles
  <2> QED BY <1>4, <1>5, <1>14, <2>1, RolesAreSpoken DEF roles
<1>16. /\ ParseTransfer(text).source = spans[roles.source]
       /\ ParseTransfer(text).target = spans[roles.target]
       /\ ParseTransfer(text).object = spans[roles.object]
       /\ ParseTransfer(text).object_code = ClassifyObject(said[roles.object])
       /\ ParseTransfer(text).quantity = CountOf(said, roles.quantity)
  <2>1. ASSUME NEW p, NEW w, NEW r
        PROVE  /\ TransferParse(p, w, r).source = p[r.source]
               /\ TransferParse(p, w, r).target = p[r.target]
               /\ TransferParse(p, w, r).object = p[r.object]
               /\ TransferParse(p, w, r).object_code = ClassifyObject(w[r.object])
               /\ TransferParse(p, w, r).quantity = CountOf(w, r.quantity)
    <3> DEFINE count == IF r.quantity = NoWord THEN << >>
                        ELSE <<ClassifyWordNumber(w[r.quantity]).value>>
    <3>1. TransferParse(p, w, r) =
              [status |-> "ok", source |-> p[r.source], target |-> p[r.target],
               object |-> p[r.object], object_code |-> ClassifyObject(w[r.object]),
               quantity |-> count]
      BY Zenon DEF TransferParse
    <3>2. count = CountOf(w, r.quantity)
      BY Zenon DEF CountOf
    <3> HIDE DEF count
    <3> QED BY <3>1, <3>2
  <2> QED BY <1>7, <1>12, <2>1
<1>17. /\ Only(Givers(shape)) = roles.source /\ Only(Takers(shape)) = roles.target
       /\ Only(shape.objects) = roles.object
       /\ CountOf(said, roles.quantity)
              = IF shape.numbers = {} THEN << >>
                ELSE <<ClassifyWordNumber(said[Only(shape.numbers)]).value>>
  BY <1>15, Zenon DEF SpokenBy
<1>18. roles.source \in 1..m /\ roles.target \in 1..m /\ roles.object \in 1..m
  BY <1>5, <1>15 DEF SpokenBy
<1> DEFINE parse == ParseTransfer(text)
<1> HIDE DEF parse
<1>19. /\ Slice(text, parse.source) = said[Only(Givers(shape))]
       /\ Slice(text, parse.target) = said[Only(Takers(shape))]
       /\ Slice(text, parse.object) = said[Only(shape.objects)]
       /\ parse.object_code = ClassifyObject(said[Only(shape.objects)])
  BY <1>6, <1>16, <1>17, <1>18 DEF parse
<1>20. parse.quantity =
           IF shape.numbers = {} THEN << >>
           ELSE <<ClassifyWordNumber(said[Only(shape.numbers)]).value>>
  BY <1>16, <1>17, Zenon DEF parse
<1> QED BY <1>19, <1>20, Zenon DEF ReadAs, parse, text, said, shape

\* A sentence that is accepted says what its roles do.
LEMMA TextSays ==
    ASSUME NEW s \in Sentences, IngestText(TextOf(s)).status = "ok"
    PROVE  SaidText(s) = Meaning(IngestText(TextOf(s)).facts)
<1> DEFINE text == TextOf(s)
           parse == ParseTransfer(text)
           word(span) == Slice(text, span)
           facts == Facts(EventTransfer, word(parse.source), word(parse.target),
                          parse.object_code, word(parse.object), parse.quantity)
           unknown == CanonicalStatus(parse.object_code, parse.quantity) = "unknown"
           shape == Shape(s)
           giver == WordsOf(s)[Only(Givers(shape))]
           taker == WordsOf(s)[Only(Takers(shape))]
           thing == WordsOf(s)[Only(shape.objects)]
           quantity == IF shape.numbers = {} THEN << >>
                       ELSE <<ClassifyWordNumber(WordsOf(s)[Only(shape.numbers)]).value>>
<1>1. IngestText(text) =
          IF Len(text) > MaxText THEN Refuse("overlong")
          ELSE IF parse.status # "ok" THEN Refuse(parse.status)
          ELSE Assemble("text", text, facts, unknown)
  BY Zenon DEF IngestText
<1>2. /\ facts.source = word(parse.source) /\ facts.target = word(parse.target)
      /\ facts.object_code = parse.object_code
      /\ facts.object_spelling = word(parse.object) /\ facts.quantity = parse.quantity
  <2> HIDE DEF parse, word
  <2> QED BY FactsFields
<1>3. SaidText(s) = Observation(giver, taker, Thing(thing), quantity)
  BY Zenon DEF SaidText
<1>4. ParseTransfer(text).status = "ok" => ReadAs(parse, s)
  BY SentenceIsRead
<1> HIDE DEF parse, facts, unknown, shape
<1>5. parse.status = "ok" /\ IngestText(text).facts = facts
  <2>1. \A error : Refuse(error).status = error
    BY DEF Refuse
  <2>2. IngestText(text).status = "ok"
    OBVIOUS
  <2>3. Assemble("text", text, facts, unknown).facts = facts
    BY DEF Assemble
  <2> HIDE DEF text
  <2> QED BY <1>1, <2>1, <2>2, <2>3
<1>6. ReadAs(parse, s)
  BY <1>4, <1>5 DEF parse
<1>7. /\ word(parse.source) = giver /\ word(parse.target) = taker
      /\ word(parse.object) = thing /\ parse.object_code = ClassifyObject(thing)
      /\ parse.quantity = quantity
  BY <1>6, Zenon DEF ReadAs, shape
<1> HIDE DEF giver, taker, thing, quantity
<1>8. ThingOf(facts) = Thing(thing)
  BY <1>2, <1>7, ThingByCode
<1>9. SaidText(s) = Meaning(facts)
  BY <1>2, <1>3, <1>7, <1>8 DEF Meaning
<1> QED BY <1>5, <1>9

\* One key, or one hash, is one meaning.
LEMMA OneMeaning ==
    ASSUME NEW a, NEW b, SoundFacts(a), SoundFacts(b),
           NEW f, NEW g, FragmentOf(f, a), FragmentOf(g, b)
    PROVE  /\ SemanticallyEqual(f, g) <=> Meaning(a) = Meaning(b)
           /\ CanonicalBytes(f) = CanonicalBytes(g) <=> Meaning(a) = Meaning(b)
<1>1. ASSUME NEW h, NEW facts, SoundFacts(facts), FragmentOf(h, facts)
      PROVE  SemanticKey(h) = SemanticKey(Built(facts)) /\ SemanticKey(h) \in Seq(Piece)
  <2>1. SemanticKey(h) = SemanticKey(Built(facts))
    BY <1>1, Zenon DEF SemanticKey, FragmentOf
  <2>2. PICK r \in Seq(Piece), x \in Seq(Piece), y \in Seq(Piece), z \in Seq(Piece) :
            /\ r = KeyRest(facts) /\ x = Joined(ObjectLine(facts), r)
            /\ y = Joined(Entity(facts.target), x) /\ z = Joined(Entity(facts.source), y)
            /\ SemanticKey(Built(facts)) = Joined(EventLine, z)
    BY <1>1, KeyOfBuilt, LinesTyped, JoinedTyped
  <2>3. Joined(EventLine, z) \in Seq(Piece)
    BY <1>1, <2>2, LinesTyped, JoinedTyped
  <2> QED BY <2>1, <2>2, <2>3
<1>2. /\ SemanticKey(f) = SemanticKey(Built(a)) /\ SemanticKey(f) \in Seq(Piece)
      /\ SemanticKey(g) = SemanticKey(Built(b)) /\ SemanticKey(g) \in Seq(Piece)
  BY <1>1
<1>3. SemanticKey(f) = SemanticKey(g) <=> Meaning(a) = Meaning(b)
  BY <1>2, EqualFactsOneKey, KeysApart, EqualInMeaning
<1>4. f.schema = FragmentSchemaVersion /\ g.schema = FragmentSchemaVersion
  BY DEF FragmentOf
<1>5. SemanticallyEqual(f, g) <=> SemanticKey(f) = SemanticKey(g)
  BY <1>4 DEF SemanticallyEqual
<1>6. CanonicalBytes(f) = CanonicalBytes(g) <=> SemanticKey(f) = SemanticKey(g)
  <2> DEFINE head == <<Mark(FragmentSchemaVersion)>>
             S == Piece \cup {Mark(FragmentSchemaVersion)}
  <2>1. /\ CanonicalBytes(f) = head \o SemanticKey(f)
        /\ CanonicalBytes(g) = head \o SemanticKey(g)
    BY <1>4, Zenon DEF CanonicalBytes
  <2>2. head \in Seq(S) /\ SemanticKey(f) \in Seq(S) /\ SemanticKey(g) \in Seq(S)
    <3>1. Piece \subseteq S /\ Mark(FragmentSchemaVersion) \in S
      OBVIOUS
    <3> HIDE DEF S
    <3> QED BY <1>2, <3>1, SeqMonotonic
  <2> HIDE DEF head, S
  <2>3. head \o SemanticKey(f) = head \o SemanticKey(g)
        => SemanticKey(f) = SemanticKey(g)
    <3> SUFFICES ASSUME Joined(head, SemanticKey(f)) = Joined(head, SemanticKey(g))
                 PROVE  SemanticKey(f) = SemanticKey(g)
      BY Zenon DEF Joined
    <3> QED BY <2>2, JoinedCancels
  <2> QED BY <2>1, <2>3
<1> QED BY <1>3, <1>5, <1>6

\* What is held says what its input said, and its receipt bears the hash of it.
Faithful(entry) ==
    /\ Said(entry) = Meaning(entry.facts)
    /\ entry.receipt.semantic_hash = CanonicalBytes(entry.fragment)

\* All that is held says what its input said.
Witnessed == \A i \in 1..Len(received) : Faithful(received[i])

\* What is handed on, if anything, says what the input did.
SaysOf(adapter, input, ingested) ==
    ingested.status = "ok" =>
        Said([adapter |-> adapter, input |-> input]) = Meaning(ingested.facts)

\* What an entry said is what its input said.
LEMMA SaidByInput ==
    ASSUME NEW entry, NEW other, entry.adapter = other.adapter,
           entry.input = other.input
    PROVE  Said(entry) = Said(other)
BY Zenon DEF Said

\* Whoever hands it on, what the consumer keeps says what its input did.
LEMMA HandIsFaithful ==
    ASSUME IInv, Witnessed, NEW adapter, NEW input, NEW ingested,
           SaysOf(adapter, input, ingested), Hand(adapter, input, ingested)
    PROVE  Witnessed'
<1>1. CASE UNCHANGED received
  BY <1>1 DEF Witnessed
<1>2. CASE ~UNCHANGED received
  <2> DEFINE f == ingested.fragment
             receipt == Receipt(f)
             entry == [adapter |-> adapter, input |-> input,
                       facts |-> ingested.facts, fragment |-> f,
                       receipt |-> receipt]
  <2>1. ingested.status = "ok" /\ received' = Append(received, entry)
    BY <1>2 DEF Hand, Accept
  <2>2. receipt.semantic_hash = CanonicalBytes(f)
    BY DEF Receipt
  <2> HIDE DEF receipt
  <2>3. /\ entry.adapter = adapter /\ entry.input = input
        /\ entry.facts = ingested.facts /\ entry.fragment = f
        /\ entry.receipt = receipt
    OBVIOUS
  <2> HIDE DEF entry, f
  <2>4. Said(entry) = Meaning(entry.facts)
    <3> DEFINE other == [adapter |-> adapter, input |-> input]
    <3>1. other.adapter = adapter /\ other.input = input
      OBVIOUS
    <3>2. Said(other) = Meaning(ingested.facts)
      BY <2>1 DEF SaysOf
    <3> HIDE DEF other
    <3>3. Said(entry) = Said(other)
      BY <2>3, <3>1, SaidByInput
    <3> QED BY <2>3, <3>2, <3>3
  <2>5. Faithful(entry)
    BY <2>2, <2>3, <2>4 DEF Faithful
  <2>6. PICK n \in Nat : n = Len(received)
    BY DEF IInv
  <2>7. /\ Len(received') = n + 1 /\ received'[n + 1] = entry
        /\ \A i \in 1..n : received'[i] = received[i]
    <3> DEFINE S == Entries \cup {entry}
    <3>1. Entries \subseteq S /\ entry \in S
      OBVIOUS
    <3> HIDE DEF S
    <3>2. received \in Seq(S)
      BY <3>1, SeqMonotonic DEF IInv
    <3> QED BY <2>1, <2>6, <3>1, <3>2, AppendProperties
  <2> SUFFICES ASSUME NEW i \in 1..(n + 1) PROVE Faithful(received'[i])
    BY <2>7 DEF Witnessed, Faithful
  <2>8. i \in 1..n \/ i = n + 1
    BY <2>6
  <2> QED BY <2>5, <2>6, <2>7, <2>8 DEF Witnessed
<1> QED BY <1>1, <1>2

\* A refusal says nothing.
LEMMA SaysNothing ==
    ASSUME NEW adapter, NEW input, NEW ingested, ingested.status # "ok"
    PROVE  SaysOf(adapter, input, ingested)
BY DEF SaysOf

\* Each adapter's action keeps what is held faithful to its input.
LEMMA FaithfulNext ==
    ASSUME IInv, Witnessed, [Next]_vars
    PROVE  Witnessed'
<1>1. CASE UNCHANGED vars
  BY <1>1 DEF vars, Witnessed
<1>2. ASSUME NEW s \in Sentences, Text(s) PROVE Witnessed'
  <2>1. SaysOf("text", s, IngestText(TextOf(s)))
    <3>1. Said([adapter |-> "text", input |-> s]) = SaidText(s)
      BY DEF Said
    <3> QED BY <3>1, TextSays DEF SaysOf
  <2> QED BY <1>2, <2>1, HandIsFaithful DEF Text
<1>3. ASSUME NEW d \in Documents, Structured(d) PROVE Witnessed'
  <2>1. SaysOf("structured", d, IngestStructured(d))
    <3>1. Said([adapter |-> "structured", input |-> d]) = SaidDocument(d)
      BY DEF Said
    <3> QED BY <3>1, DocumentSays DEF SaysOf
  <2> QED BY <1>3, <2>1, HandIsFaithful DEF Structured
<1>4. ASSUME NEW v \in Natives, NEW schema \in Schemas, Native(v, schema) PROVE Witnessed'
  <2> DEFINE ingested == IngestNative(v)
             handed == IF ingested.status = "ok"
                       THEN [ingested EXCEPT !.fragment.schema = schema] ELSE ingested
  <2>1. Hand("native", v, handed)
    BY <1>4 DEF Native
  <2>2. ingested.status = "ok" => SaidNative(v) = Meaning(ingested.facts)
    BY NativeSays
  <2>3. Said([adapter |-> "native", input |-> v]) = SaidNative(v)
    BY DEF Said
  <2>4. ingested.status = "ok" =>
            [ingested EXCEPT !.fragment.schema = schema].facts = ingested.facts
    BY SchemaRewritten
  <2> HIDE DEF ingested
  <2>5. SaysOf("native", v, handed)
    <3>1. CASE ingested.status = "ok"
      <4>1. handed.facts = ingested.facts
        BY <2>4, <3>1
      <4> HIDE DEF handed
      <4> QED BY <2>2, <2>3, <3>1, <4>1 DEF SaysOf
    <3>2. CASE ingested.status # "ok"
      BY <3>2, SaysNothing
    <3> QED BY <3>1, <3>2
  <2> HIDE DEF handed
  <2> QED BY <2>1, <2>5, HandIsFaithful
<1> QED BY <1>1, <1>2, <1>3, <1>4 DEF Next

\* src/ir.rs, equality rule, and tests/consumer.rs, "receipts distinguish semantics
\* not provenance": whichever adapters made them, two fragments the consumer holds
\* are equal, and their receipts (src/consumer.rs, EchoConsumer::accept) bear one
\* hash, exactly when their inputs said the same: who gave what to whom, and how
\* many.
THEOREM IngestEqualMeansSame ==
    Spec => []EqualMeansSaidTheSame
<1>1. Init => Witnessed
  BY DEF Init, Witnessed
<1>2. IInv /\ Witnessed /\ [Next]_vars => Witnessed'
  BY FaithfulNext
<1>3. IInv /\ Witnessed => EqualMeansSaidTheSame
  <2> SUFFICES ASSUME IInv, Witnessed,
                      NEW i \in 1..Len(received), NEW j \in 1..Len(received)
               PROVE  LET same == Said(received[i]) = Said(received[j])
                      IN  /\ SemanticallyEqual(received[i].fragment,
                                               received[j].fragment) <=> same
                          /\ received[i].receipt.semantic_hash
                                 = received[j].receipt.semantic_hash <=> same
    BY DEF EqualMeansSaidTheSame, Pairs
  <2> DEFINE a == received[i].facts
             b == received[j].facts
             f == received[i].fragment
             g == received[j].fragment
  <2>1. SoundFacts(a) /\ SoundFacts(b) /\ FragmentOf(f, a) /\ FragmentOf(g, b)
    BY DEF IInv, Held
  <2>2. /\ Said(received[i]) = Meaning(a) /\ Said(received[j]) = Meaning(b)
        /\ received[i].receipt.semantic_hash = CanonicalBytes(f)
        /\ received[j].receipt.semantic_hash = CanonicalBytes(g)
    BY DEF Witnessed, Faithful
  <2> HIDE DEF a, b, f, g
  <2>3. /\ SemanticallyEqual(f, g) <=> Meaning(a) = Meaning(b)
        /\ CanonicalBytes(f) = CanonicalBytes(g) <=> Meaning(a) = Meaning(b)
    BY <2>1, OneMeaning
  <2>4. /\ SemanticallyEqual(f, g) <=> Said(received[i]) = Said(received[j])
        /\ received[i].receipt.semantic_hash = received[j].receipt.semantic_hash
           <=> Said(received[i]) = Said(received[j])
    BY <2>2, <2>3
  <2> QED BY <2>4 DEF f, g
<1> QED BY IngestInvariant, <1>1, <1>2, <1>3, PTL DEF Spec

=============================================================================
