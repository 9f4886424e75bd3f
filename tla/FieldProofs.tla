---------------------------- MODULE FieldProofs -----------------------------
(***************************************************************************)
(* What the field splitter does with any line: escapes, one field, and the *)
(* host's loop, unrolled by positions.                                     *)
(***************************************************************************)
EXTENDS Fields, SharedProofs

-----------------------------------------------------------------------------
(* Escapes. *)

\* A byte is escaped by a backslash that is not.
LEMMA EscapedRuns ==
    ASSUME NEW S, NEW s \in Seq(S)
    PROVE  /\ \A i \in 1..(Len(s) + 1) : Escaped(s)[i] \in BOOLEAN
           /\ ~Escaped(s)[1]
           /\ \A i \in 1..Len(s) :
                  Escaped(s)[i + 1] <=> s[i] = "esc" /\ ~Escaped(s)[i]
<1> DEFINE Recurs(f) == f = [i \in 1..(Len(s) + 1) |->
                                i > 1 /\ s[i - 1] = "esc" /\ ~f[i - 1]]
           V == BOOLEAN
           base == FALSE
           step == [i \in 1..Len(s) |-> [v \in V |-> s[i] = "esc" /\ ~v]]
<1>1. Len(s) \in Nat
  OBVIOUS
<1>2. PICK run : RunOf(run, Len(s), V, base, step)
  <2>1. base \in V /\ \A i \in 1..Len(s) : \A v \in V : step[i][v] \in V
    OBVIOUS
  <2> HIDE DEF V, base, step
  <2> QED BY <1>1, <2>1, PositionRecursion
<1>3. \E f : Recurs(f)
  <2> DEFINE f == [i \in 1..(Len(s) + 1) |-> run[i - 1]]
  <2>1. ASSUME NEW i \in 1..(Len(s) + 1)
        PROVE  run[i - 1] = (i > 1 /\ s[i - 1] = "esc" /\ ~f[i - 1])
    <3>1. CASE i = 1
      <4>1. i - 1 = 0 /\ ~(i > 1)
        BY <3>1
      <4> QED BY <1>2, <4>1 DEF RunOf
    <3>2. CASE i # 1
      <4>1. /\ i - 1 \in 1..Len(s) /\ i > 1 /\ i - 1 \in 1..(Len(s) + 1)
            /\ (i - 1) - 1 \in 0..Len(s)
        BY <1>1, <3>2
      <4>2. f[i - 1] = run[(i - 1) - 1] /\ run[(i - 1) - 1] \in BOOLEAN
        BY <1>2, <4>1 DEF RunOf
      <4>3. run[i - 1] = step[i - 1][run[(i - 1) - 1]]
        BY <1>2, <4>1 DEF RunOf
      <4> QED BY <4>1, <4>2, <4>3, Zenon
    <3> QED BY <3>1, <3>2
  <2>2. Recurs(f)
    BY <2>1, Zenon
  <2> QED BY <2>2
<1>4. Recurs(Escaped(s))
  <2>1. Escaped(s) = CHOOSE f : Recurs(f)
    BY Zenon DEF Escaped
  <2> HIDE DEF Recurs
  <2> QED BY <1>3, <2>1, Zenon
<1>5. ASSUME NEW i \in 1..(Len(s) + 1)
      PROVE  Escaped(s)[i] = (i > 1 /\ s[i - 1] = "esc" /\ ~Escaped(s)[i - 1])
  BY <1>4, Zenon
<1>6. \A i \in 1..(Len(s) + 1) : Escaped(s)[i] \in BOOLEAN
  BY <1>5, Zenon
<1>7. ~Escaped(s)[1]
  <2>1. 1 \in 1..(Len(s) + 1) /\ ~(1 > 1)
    BY <1>1
  <2> QED BY <1>5, <2>1, Zenon
<1>8. ASSUME NEW i \in 1..Len(s)
      PROVE  Escaped(s)[i + 1] <=> s[i] = "esc" /\ ~Escaped(s)[i]
  <2>1. PICK m \in 1..(Len(s) + 1) : m = i + 1 /\ m > 1 /\ m - 1 = i
    BY <1>1
  <2>2. Escaped(s)[m] = (m > 1 /\ s[m - 1] = "esc" /\ ~Escaped(s)[m - 1])
    BY <1>5
  <2> QED BY <2>1, <2>2, Zenon
<1> QED BY <1>6, <1>7, <1>8

-----------------------------------------------------------------------------
(* The value of a field. *)

\* The bytes of a field, up to stop, but for the backslashes that escape.
ValueOf(rest, stop) ==
    LET opens == {i \in 1..stop : rest[i] = "esc" /\ ~Escaped(rest)[i]}
    IN  FoldLeftDomain(
            LAMBDA got, i : IF i \in opens THEN got ELSE Append(got, rest[i]),
            << >>, SubSeq(rest, 1, stop))

Opens(rest, i) == rest[i] = "esc" /\ ~Escaped(rest)[i]

\* The value as it grows byte by byte.
ValueRun(run, rest, stop) ==
    /\ run \in [0..stop -> Seq(Byte)]
    /\ run[0] = << >>
    /\ \A i \in 1..stop :
           run[i] = IF Opens(rest, i) THEN run[i - 1]
                    ELSE Append(run[i - 1], rest[i])

LEMMA ValueRuns ==
    ASSUME NEW rest \in Seq(Byte), NEW stop \in 0..Len(rest)
    PROVE  \E run : ValueRun(run, rest, stop) /\ ValueOf(rest, stop) = run[stop]
<1> DEFINE opens == {i \in 1..stop : rest[i] = "esc" /\ ~Escaped(rest)[i]}
           places == [i \in DOMAIN SubSeq(rest, 1, stop) |-> i]
           Recurs(f, n) ==
               f = [T \in SUBSET (1..n) |->
                       IF T = {} THEN << >>
                       ELSE IF places[Max(T)] \in opens THEN f[T \ {Max(T)}]
                            ELSE Append(f[T \ {Max(T)}], rest[places[Max(T)]])]
           V == Seq(Byte)
           base == << >>
           step == [i \in 1..stop |-> [v \in V |->
                       IF i \in opens THEN v ELSE Append(v, rest[i])]]
<1>1. Len(rest) \in Nat /\ stop \in Nat /\ \A i \in 1..stop : rest[i] \in Byte
  OBVIOUS
<1>2. DOMAIN SubSeq(rest, 1, stop) = 1..stop
  <2>1. /\ 1 \in 1..Len(rest) + 1 /\ stop \in (1 - 1)..Len(rest) /\ stop - 1 + 1 = stop
    BY <1>1
  <2>2. SubSeq(rest, 1, stop) \in Seq(Byte) /\ Len(SubSeq(rest, 1, stop)) = stop
    BY <2>1, PieceProperties
  <2> QED BY <2>2
<1>3. DOMAIN places = 1..stop /\ \A i \in 1..stop : places[i] = i
  BY <1>2
<1>4. ValueOf(rest, stop) = (CHOOSE f : Recurs(f, stop))[1..stop]
  <2>1. ValueOf(rest, stop) = FoldLeft(
            LAMBDA got, i : IF i \in opens THEN got ELSE Append(got, rest[i]),
            << >>, places)
    BY DEF ValueOf, FoldLeftDomain
  <2> HIDE DEF places, opens
  <2> QED BY <1>3, <2>1 DEF FoldLeft, MapThenFoldSet
<1>5. base \in V /\ \A i \in 1..stop : \A v \in V :
          /\ step[i][v] = IF i \in opens THEN v ELSE Append(v, rest[i])
          /\ step[i][v] \in V
  <2> HIDE DEF opens
  <2>1. ASSUME NEW i \in 1..stop, NEW v \in V PROVE Append(v, rest[i]) \in V
    BY <1>1, AppendProperties
  <2> QED BY <2>1, EmptySeq
<1> HIDE DEF places, opens, step
<1>6. PICK f : FoldOf(f, stop, V, base, step)
  <2> HIDE DEF V, base
  <2> QED BY <1>1, <1>5, SetRecursion
<1>7. \E h : Recurs(h, stop)
  <2>1. ASSUME NEW T \in SUBSET (1..stop), T # {}
        PROVE  step[Max(T)][f[T \ {Max(T)}]]
                 = IF places[Max(T)] \in opens THEN f[T \ {Max(T)}]
                   ELSE Append(f[T \ {Max(T)}], rest[places[Max(T)]])
    <3>1. Max(T) \in 1..stop /\ f[T \ {Max(T)}] \in V
      BY <1>1, <1>6, <2>1, MaxOfPositions DEF FoldOf
    <3> HIDE DEF V
    <3> QED BY <1>3, <1>5, <3>1
  <2>2. Recurs(f, stop)
    BY <1>6, <2>1 DEF FoldOf
  <2> QED BY <2>2
<1>8. PICK g : Recurs(g, stop) /\ ValueOf(rest, stop) = g[1..stop]
  <2> HIDE DEF Recurs
  <2> QED BY <1>4, <1>7
<1>9. FoldsIn(g, stop, V, base, step)
  <2>1. ASSUME NEW T \in (SUBSET (1..stop)) \ {{}}, g[T \ {Max(T)}] \in V
        PROVE  g[T] = step[Max(T)][g[T \ {Max(T)}]]
    <3>1. Max(T) \in 1..stop
      BY <1>1, MaxOfPositions
    <3>2. g[T] = IF places[Max(T)] \in opens THEN g[T \ {Max(T)}]
                 ELSE Append(g[T \ {Max(T)}], rest[places[Max(T)]])
      BY <1>8
    <3> HIDE DEF V
    <3> QED BY <1>3, <1>5, <2>1, <3>1, <3>2
  <2>2. g[{}] = base
    BY <1>8
  <2> HIDE DEF V, base
  <2> QED BY <2>1, <2>2 DEF FoldsIn
<1> HIDE DEF Recurs, V, base
<1>10. PICK run \in [0..stop -> V] :
           /\ run[0] = base /\ g[1..stop] = run[stop]
           /\ \A i \in 1..stop : run[i] = step[i][run[i - 1]]
  BY <1>1, <1>5, <1>9, FoldRuns
<1>11. ASSUME NEW i \in 1..stop
       PROVE  run[i] = IF Opens(rest, i) THEN run[i - 1]
                       ELSE Append(run[i - 1], rest[i])
  <2>1. i - 1 \in 0..stop
    BY <1>1
  <2>2. run[i - 1] \in V
    BY <2>1
  <2>3. run[i] = IF i \in opens THEN run[i - 1] ELSE Append(run[i - 1], rest[i])
    BY <1>5, <1>10, <2>2
  <2>4. i \in opens <=> Opens(rest, i)
    BY Zenon DEF opens, Opens
  <2> QED BY <2>3, <2>4
<1> QED BY <1>8, <1>10, <1>11 DEF ValueRun, V, base

-----------------------------------------------------------------------------
(* One field. *)

Separates(rest, i) == rest[i] = "comma" /\ ~Escaped(rest)[i]

\* The field ends behind stop, before the first comma that separates.
EndsAt(rest, stop) ==
    /\ stop \in 0..Len(rest)
    /\ \A i \in 1..stop : ~Separates(rest, i)
    /\ stop < Len(rest) => Separates(rest, stop + 1)

FieldOf(rest, stop, line, start) ==
    [status |-> "field", value |-> ValueOf(rest, stop),
     next_start |-> IF stop = Len(rest) THEN Len(line) ELSE start + stop + 1,
     has_more |-> stop # Len(rest)]

Unreadable(rest, stop) ==
    \/ stop = Len(rest) /\ Dangling(rest)
    \/ \E i \in 1..stop : IsBadByte(rest[i])

RestOf(line, start) == SubSeq(line, start + 1, Len(line))

LEMMA FieldAnswer ==
    ASSUME NEW line, NEW start, RestOf(line, start) \in Seq(Byte),
           NEW stop, EndsAt(RestOf(line, start), stop),
           ~(start = 0 /\ line = << >>)
    PROVE  LET rest == RestOf(line, start)
           IN  /\ Unreadable(rest, stop) =>
                      FieldAt(line, start) = FailField("malformed")
               /\ ~Unreadable(rest, stop) /\ TooLong(ValueOf(rest, stop)) =>
                      FieldAt(line, start) = FailField("overlong")
               /\ ~Unreadable(rest, stop) /\ ~TooLong(ValueOf(rest, stop)) =>
                      FieldAt(line, start) = FieldOf(rest, stop, line, start)
<1> DEFINE rest == SubSeq(line, start + 1, Len(line))
           commas == {i \in 1..Len(rest) : rest[i] = "comma" /\ ~Escaped(rest)[i]}
           end == IF commas = {} THEN Len(rest) ELSE Min(commas) - 1
<1>1. FieldAt(line, start) =
        IF \/ commas = {} /\ Dangling(rest)
           \/ \E i \in 1..end : IsBadByte(rest[i])
        THEN FailField("malformed")
        ELSE IF TooLong(ValueOf(rest, end)) THEN FailField("overlong")
        ELSE [status |-> "field", value |-> ValueOf(rest, end),
              next_start |-> IF commas = {} THEN Len(line) ELSE start + end + 1,
              has_more |-> commas # {}]
  BY Zenon DEF FieldAt, ValueOf
<1>2. rest = RestOf(line, start)
  BY Zenon DEF RestOf
<1> HIDE DEF rest
<1>3. rest \in Seq(Byte) /\ EndsAt(rest, stop)
      /\ Len(rest) \in Nat /\ stop \in Nat /\ stop <= Len(rest)
  BY <1>2 DEF EndsAt
<1>4. \A i \in 1..Len(rest) : i \in commas <=> Separates(rest, i)
  BY Zenon DEF Separates
<1>5. commas \in SUBSET (1..Len(rest)) /\ commas \in SUBSET Nat
  OBVIOUS
<1> HIDE DEF commas
<1>6. (commas = {} <=> stop = Len(rest)) /\ end = stop
  <2>1. CASE stop = Len(rest)
    <3>1. commas = {}
      BY <1>3, <1>4, <1>5, <2>1 DEF EndsAt
    <3> QED BY <2>1, <3>1
  <2>2. CASE stop # Len(rest)
    <3>1. stop + 1 \in 1..Len(rest) /\ stop + 1 \in commas
      BY <1>3, <1>4, <2>2 DEF EndsAt
    <3>2. Min(commas) \in commas /\ Min(commas) <= stop + 1
      BY <1>5, <3>1, MinOfNumbers
    <3>3. PICK m \in 1..Len(rest) : m = Min(commas) /\ m \in commas /\ m <= stop + 1
      BY <1>5, <3>2
    <3>4. m \notin 1..stop
      BY <1>3, <1>4, <3>3 DEF EndsAt
    <3>5. m = stop + 1 /\ m - 1 = stop
      BY <1>3, <3>3, <3>4
    <3> QED BY <2>2, <3>1, <3>3, <3>5
  <2> QED BY <2>1, <2>2
<1> HIDE DEF end
<1>7. (commas # {}) = (stop # Len(rest))
  BY <1>6, Zenon
<1>8. Unreadable(rest, stop) <=> \/ commas = {} /\ Dangling(rest)
                                 \/ \E i \in 1..end : IsBadByte(rest[i])
  BY <1>6, Zenon DEF Unreadable
<1>9. FieldOf(rest, stop, line, start)
        = [status |-> "field", value |-> ValueOf(rest, end),
           next_start |-> IF commas = {} THEN Len(line) ELSE start + end + 1,
           has_more |-> commas # {}]
  BY <1>6, <1>7, Zenon DEF FieldOf
<1> QED BY <1>1, <1>2, <1>6, <1>8, <1>9, Zenon

LEMMA FieldsEnd ==
    ASSUME NEW rest \in Seq(Byte)
    PROVE  \E stop : EndsAt(rest, stop)
<1> DEFINE commas == {i \in 1..Len(rest) : Separates(rest, i)}
<1>1. CASE commas = {}
  <2>1. EndsAt(rest, Len(rest))
    BY <1>1 DEF EndsAt
  <2> QED BY <2>1
<1>2. CASE commas # {}
  <2>1. commas \in SUBSET Nat
    OBVIOUS
  <2>2. Min(commas) \in commas /\ \A i \in commas : Min(commas) <= i
    <3> HIDE DEF commas
    <3> QED BY <1>2, <2>1, MinOfNumbers
  <2>3. PICK m \in 1..Len(rest) :
            Separates(rest, m) /\ \A i \in 1..Len(rest) : Separates(rest, i) => m <= i
    BY <2>2
  <2>4. m - 1 \in 0..Len(rest) /\ (m - 1) + 1 = m
        /\ \A i \in 1..(m - 1) : i \in 1..Len(rest) /\ ~(m <= i)
    OBVIOUS
  <2>5. EndsAt(rest, m - 1)
    BY <2>3, <2>4 DEF EndsAt
  <2> QED BY <2>5
<1> QED BY <1>1, <1>2

FieldStatus == {"end", "malformed", "overlong", "field"}

LEMMA RestTyped ==
    ASSUME NEW line \in Seq(Byte), NEW start \in 0..Len(line)
    PROVE  /\ RestOf(line, start) \in Seq(Byte)
           /\ Len(RestOf(line, start)) = Len(line) - start
           /\ \A i \in 1..(Len(line) - start) :
                  RestOf(line, start)[i] = line[start + i]
           /\ Len(line) \in Nat
<1> DEFINE m == start + 1
           n == Len(line)
<1>1. /\ m \in 1..Len(line) + 1 /\ n \in (m - 1)..Len(line)
      /\ n - m + 1 = Len(line) - start /\ Len(line) \in Nat
      /\ \A i \in 1..(Len(line) - start) : m + i - 1 = start + i
  OBVIOUS
<1>2. RestOf(line, start) = SubSeq(line, m, n)
  BY DEF RestOf
<1> HIDE DEF m, n
<1>3. /\ SubSeq(line, m, n) \in Seq(Byte) /\ Len(SubSeq(line, m, n)) = n - m + 1
      /\ \A i \in 1..(n - m + 1) : SubSeq(line, m, n)[i] = line[m + i - 1]
  BY <1>1, PieceProperties
<1> QED BY <1>1, <1>2, <1>3

LEMMA FieldTyped ==
    ASSUME NEW line \in Seq(Byte), NEW start \in 0..Len(line)
    PROVE  /\ FieldAt(line, start).status \in FieldStatus
           /\ FieldAt(line, start).status = "field" =>
                  FieldAt(line, start).next_start \in 0..Len(line)
           /\ FieldAt(line, start).status = "end" => line = << >>
<1> DEFINE rest == RestOf(line, start)
           next(stop) == IF stop = Len(rest) THEN Len(line) ELSE start + stop + 1
<1>1. rest \in Seq(Byte) /\ Len(rest) = Len(line) - start /\ Len(line) \in Nat
  BY RestTyped
<1> HIDE DEF rest
<1>2. PICK stop : EndsAt(rest, stop)
  BY <1>1, FieldsEnd
<1>3. CASE start = 0 /\ line = << >>
  <2>1. FieldAt(line, start) = FailField("end")
    BY <1>3, Zenon DEF FieldAt
  <2> QED BY <1>3, <2>1 DEF FailField, FieldStatus
<1>4. CASE ~(start = 0 /\ line = << >>)
  <2>1. \/ FieldAt(line, start) = FailField("malformed")
        \/ FieldAt(line, start) = FailField("overlong")
        \/ FieldAt(line, start) = FieldOf(rest, stop, line, start)
    BY <1>1, <1>2, <1>4, FieldAnswer DEF rest
  <2>2. FieldAt(line, start) = FieldOf(rest, stop, line, start)
            => /\ FieldAt(line, start).status = "field"
               /\ FieldAt(line, start).next_start = next(stop)
    BY DEF FieldOf
  <2>3. next(stop) \in 0..Len(line)
    <3>1. PICK size \in Nat, b \in Nat, e \in Nat :
              size = Len(line) /\ b = start /\ e = stop /\ e <= size - b /\ b <= size
              /\ Len(rest) = size - b
      BY <1>1, <1>2 DEF EndsAt
    <3> QED BY <3>1
  <2>4. \A code : FailField(code).status = code
    BY DEF FailField
  <2> HIDE DEF next
  <2> QED BY <2>1, <2>2, <2>3, <2>4 DEF FieldStatus
<1> QED BY <1>3, <1>4

-----------------------------------------------------------------------------
(* The loop over the fields. *)

\* What the loop makes of one field, given what it makes of those behind it.
Turn(field, got, rest) ==
    CASE field.status = "end" -> Parsed(<< >>)
      [] field.status \in {"malformed", "overlong"} -> Refused(field.status)
      [] field.status = "field" /\ got = MaxFields -> Refused("malformed")
      [] field.status = "field" /\ got < MaxFields /\ ~field.has_more ->
             Parsed(<<field.value>>)
      [] OTHER ->
             IF rest.status = "ok" THEN Parsed(<<field.value>> \o rest.fields)
             ELSE rest

\* What parsing a line may come to.
ValuesOf(line) == {FieldAt(line, start).value : start \in 0..Len(line)}
ResultsOf(line) ==
    {Parsed(fields) : fields \in Seq(ValuesOf(line))}
        \cup {Refused("malformed"), Refused("overlong")}

LEMMA TurnTyped ==
    ASSUME NEW line \in Seq(Byte), NEW start \in 0..Len(line), NEW got,
           NEW rest, got < MaxFields => rest \in ResultsOf(line),
           got \in 0..MaxFields
    PROVE  Turn(FieldAt(line, start), got, rest) \in ResultsOf(line)
<1> DEFINE field == FieldAt(line, start)
           V == ValuesOf(line)
<1>1. field.status \in FieldStatus /\ field.value \in V
  BY FieldTyped DEF ValuesOf
<1>2. got = MaxFields \/ got < MaxFields
  BY FieldsAssumption
<1>3. \A fs \in Seq(V) : Parsed(fs) \in ResultsOf(line)
  BY DEF ResultsOf
<1>4. Refused("malformed") \in ResultsOf(line) /\ Refused("overlong") \in ResultsOf(line)
  BY DEF ResultsOf
<1> HIDE DEF field, V
<1>5. << >> \in Seq(V) /\ <<field.value>> \in Seq(V)
  BY <1>1, EmptySeq
<1>6. ASSUME rest \in ResultsOf(line), rest.status = "ok"
      PROVE  Parsed(<<field.value>> \o rest.fields) \in ResultsOf(line)
  <2>1. rest.fields \in Seq(V)
    BY <1>6 DEF ResultsOf, Parsed, Refused, V
  <2>2. <<field.value>> \o rest.fields \in Seq(V)
    BY <1>5, <2>1, ConcatProperties
  <2> QED BY <1>3, <2>2
<1>7. CASE field.status = "end"
  <2>1. Turn(field, got, rest) = Parsed(<< >>)
    BY <1>7 DEF Turn
  <2> QED BY <1>3, <1>5, <2>1 DEF field
<1>8. CASE field.status \in {"malformed", "overlong"}
  <2>1. Turn(field, got, rest) = Refused(field.status)
    BY <1>8 DEF Turn
  <2> QED BY <1>4, <1>8, <2>1 DEF field
<1>9. CASE field.status = "field" /\ got = MaxFields
  <2>1. Turn(field, got, rest) = Refused("malformed")
    BY <1>9, FieldsAssumption DEF Turn
  <2> QED BY <1>4, <2>1 DEF field
<1>10. CASE field.status = "field" /\ got < MaxFields
  <2>1. got # MaxFields
    BY <1>10, FieldsAssumption
  <2>2. Turn(field, got, rest) \in
            {Parsed(<<field.value>>), Parsed(<<field.value>> \o rest.fields), rest}
        /\ (Turn(field, got, rest) = Parsed(<<field.value>> \o rest.fields)
               => rest.status = "ok" \/ Turn(field, got, rest) \in {Parsed(<<field.value>>), rest})
    BY <1>10, <2>1 DEF Turn
  <2>3. rest \in ResultsOf(line)
    BY <1>10
  <2>4. Parsed(<<field.value>>) \in ResultsOf(line)
    BY <1>3, <1>5
  <2> QED BY <1>6, <2>2, <2>3, <2>4 DEF field
<1> QED BY <1>1, <1>2, <1>7, <1>8, <1>9, <1>10 DEF FieldStatus

\* A field behind the last that fits is not asked what follows it.
LEMMA LastTurn ==
    ASSUME NEW line \in Seq(Byte), NEW start \in 0..Len(line), NEW rest, NEW other
    PROVE  Turn(FieldAt(line, start), MaxFields, rest)
             = Turn(FieldAt(line, start), MaxFields, other)
<1> DEFINE field == FieldAt(line, start)
<1>1. field.status \in FieldStatus
  BY FieldTyped
<1> HIDE DEF field
<1>2. CASE field.status # "field"
  <2>1. Turn(field, MaxFields, rest) = Turn(field, MaxFields, other)
    BY <1>1, <1>2, Zenon DEF Turn, FieldStatus
  <2> QED BY <2>1 DEF field
<1>3. CASE field.status = "field"
  <2>1. PICK got \in Nat : got = MaxFields /\ ~(got < MaxFields)
    BY FieldsAssumption
  <2>2. \A r : Turn(field, got, r) = Refused("malformed")
    BY <1>3, <2>1, Zenon DEF Turn
  <2> QED BY <2>1, <2>2 DEF field
<1> QED BY <1>2, <1>3

Loops(loop, line) ==
    \A got \in 0..MaxFields : \A start \in 0..Len(line) :
        loop[got][start] = Turn(FieldAt(line, start), got,
                                loop[got + 1][FieldAt(line, start).next_start])

LEMMA ParseLoops ==
    ASSUME NEW line \in Seq(Byte)
    PROVE  \E loop : Loops(loop, line) /\ ParseFields(line) = loop[0][0]
<1> DEFINE Layer(got, after) ==
               [start \in 0..Len(line) |->
                   Turn(FieldAt(line, start), got,
                        after[FieldAt(line, start).next_start])]
           Recurs(f) ==
               f = [got \in 0..MaxFields |-> [start \in 0..Len(line) |->
                       Turn(FieldAt(line, start), got,
                            f[got + 1][FieldAt(line, start).next_start])]]
           V == [0..Len(line) -> ResultsOf(line)]
           base == Layer(MaxFields, << >>)
           step == [i \in 1..MaxFields |-> [v \in V |-> Layer(MaxFields - i, v)]]
<1>1. ParseFields(line) = (CHOOSE f : Recurs(f))[0][0]
  BY Zenon DEF ParseFields, Turn
<1>2. ASSUME NEW got \in 0..MaxFields, NEW v, got < MaxFields => v \in V
      PROVE  Layer(got, v) \in V
  <2>1. ASSUME NEW start \in 0..Len(line)
        PROVE  Turn(FieldAt(line, start), got, v[FieldAt(line, start).next_start])
                   \in ResultsOf(line)
    <3>1. CASE FieldAt(line, start).status = "field"
      <4>1. FieldAt(line, start).next_start \in 0..Len(line)
        BY <3>1, FieldTyped
      <4>2. got < MaxFields => v[FieldAt(line, start).next_start] \in ResultsOf(line)
        BY <1>2, <4>1
      <4> QED BY <4>2, TurnTyped
    <3>2. CASE FieldAt(line, start).status # "field"
      <4>1. Turn(FieldAt(line, start), got, v[FieldAt(line, start).next_start])
              = Turn(FieldAt(line, start), got, Refused("malformed"))
        <5>1. FieldAt(line, start).status \in FieldStatus
          BY FieldTyped
        <5> QED BY <3>2, <5>1, Zenon DEF Turn, FieldStatus
      <4>2. Refused("malformed") \in ResultsOf(line)
        BY DEF ResultsOf
      <4> QED BY <4>1, <4>2, TurnTyped
    <3> QED BY <3>1, <3>2
  <2> QED BY <2>1
<1>3. MaxFields \in Nat
  BY FieldsAssumption
<1>4. base \in V
  <2>1. MaxFields \in 0..MaxFields /\ ~(MaxFields < MaxFields)
    BY <1>3
  <2> HIDE DEF V, Layer
  <2> QED BY <1>2, <2>1
<1>5. ASSUME NEW i \in 1..MaxFields, NEW v \in V
      PROVE  step[i][v] = Layer(MaxFields - i, v) /\ step[i][v] \in V
  <2>1. MaxFields - i \in 0..MaxFields
    BY <1>3
  <2>2. step[i][v] = Layer(MaxFields - i, v)
    <3> HIDE DEF V, Layer
    <3> QED OBVIOUS
  <2> HIDE DEF V, Layer, step
  <2> QED BY <1>2, <2>1, <2>2
<1>6. PICK run : RunOf(run, MaxFields, V, base, step)
  <2> HIDE DEF V, base, step
  <2> QED BY <1>3, <1>4, <1>5, PositionRecursion
<1>7. \E f : Recurs(f)
  <2> DEFINE f == [got \in 0..MaxFields |-> run[MaxFields - got]]
  <2>1. ASSUME NEW got \in 0..MaxFields
        PROVE  run[MaxFields - got] = Layer(got, f[got + 1])
    <3>1. CASE got = MaxFields
      <4>1. run[MaxFields - got] = base
        <5>1. MaxFields - got = 0
          BY <1>3, <3>1
        <5> QED BY <1>6, <5>1 DEF RunOf
      <4>2. base = Layer(MaxFields, f[got + 1])
        BY LastTurn
      <4> QED BY <3>1, <4>1, <4>2
    <3>2. CASE got # MaxFields
      <4>1. PICK i \in 1..MaxFields :
                /\ i = MaxFields - got /\ MaxFields - i = got /\ i - 1 \in 0..MaxFields
                /\ got + 1 \in 0..MaxFields /\ MaxFields - (got + 1) = i - 1
        BY <1>3, <3>2
      <4>2. f[got + 1] = run[i - 1] /\ run[i - 1] \in V
        <5> HIDE DEF V
        <5> QED BY <1>6, <4>1 DEF RunOf
      <4>3. run[i] = step[i][run[i - 1]]
        BY <1>6 DEF RunOf
      <4> HIDE DEF step, V, Layer, f
      <4> QED BY <1>5, <4>1, <4>2, <4>3
    <3> QED BY <3>1, <3>2
  <2>2. Recurs(f)
    BY <2>1, Zenon
  <2> QED BY <2>2
<1>8. PICK f : Recurs(f) /\ ParseFields(line) = f[0][0]
  <2> HIDE DEF Recurs
  <2> QED BY <1>1, <1>7
<1>9. Loops(f, line)
  <2> SUFFICES ASSUME NEW got \in 0..MaxFields, NEW start \in 0..Len(line)
               PROVE  f[got][start] =
                          Turn(FieldAt(line, start), got,
                               f[got + 1][FieldAt(line, start).next_start])
    BY Zenon DEF Loops
  <2>1. f[got] = Layer(got, f[got + 1])
    BY <1>8, Zenon
  <2> QED BY <2>1, Zenon
<1> QED BY <1>8, <1>9

\* The loop stays within its results from every start.
LEMMA LoopTyped ==
    ASSUME NEW line \in Seq(Byte), NEW loop, Loops(loop, line),
           NEW got \in 0..MaxFields, NEW start \in 0..Len(line)
    PROVE  loop[got][start] \in ResultsOf(line)
<1> DEFINE Good == {i \in 0..MaxFields :
                       \A b \in 0..Len(line) : loop[MaxFields - i][b] \in ResultsOf(line)}
<1>1. MaxFields \in Nat
  BY FieldsAssumption
<1>2. ASSUME NEW g \in 0..MaxFields, NEW b \in 0..Len(line),
             g < MaxFields => \A e \in 0..Len(line) : loop[g + 1][e] \in ResultsOf(line)
      PROVE  loop[g][b] \in ResultsOf(line)
  <2>1. loop[g][b] = Turn(FieldAt(line, b), g,
                          loop[g + 1][FieldAt(line, b).next_start])
    BY DEF Loops
  <2>2. CASE FieldAt(line, b).status = "field"
    <3>1. FieldAt(line, b).next_start \in 0..Len(line)
      BY <2>2, FieldTyped
    <3> QED BY <1>2, <2>1, <3>1, TurnTyped
  <2>3. CASE FieldAt(line, b).status # "field"
    <3>1. Turn(FieldAt(line, b), g, loop[g + 1][FieldAt(line, b).next_start])
            = Turn(FieldAt(line, b), g, Refused("malformed"))
      <4>1. FieldAt(line, b).status \in FieldStatus
        BY FieldTyped
      <4> QED BY <2>3, <4>1, Zenon DEF Turn, FieldStatus
    <3>2. Refused("malformed") \in ResultsOf(line)
      BY DEF ResultsOf
    <3> QED BY <2>1, <3>1, <3>2, TurnTyped
  <2> QED BY <2>2, <2>3
<1>3. 0 \in Good
  <2>1. MaxFields - 0 = MaxFields /\ ~(MaxFields < MaxFields) /\ MaxFields \in 0..MaxFields
        /\ 0 \in 0..MaxFields
    BY <1>1
  <2> QED BY <1>2, <2>1
<1>4. ASSUME NEW i \in 1..MaxFields, i - 1 \in Good PROVE i \in Good
  <2>1. PICK g \in 0..MaxFields : /\ g = MaxFields - i /\ g + 1 = MaxFields - (i - 1)
                                  /\ i \in 0..MaxFields
    BY <1>1
  <2>2. \A e \in 0..Len(line) : loop[g + 1][e] \in ResultsOf(line)
    BY <1>4, <2>1
  <2> QED BY <1>2, <2>1, <2>2
<1>5. Good \in SUBSET (0..MaxFields)
  OBVIOUS
<1>6. Good = 0..MaxFields
  <2> HIDE DEF Good
  <2> QED BY <1>1, <1>3, <1>4, <1>5, AtEveryPosition
<1>7. MaxFields - got \in Good /\ MaxFields - (MaxFields - got) = got
  BY <1>1, <1>6
<1> QED BY <1>7

LEMMA ParseTyped ==
    ASSUME NEW line \in Seq(Byte)
    PROVE  ParseFields(line).status \in {"ok", "malformed", "overlong"}
<1>1. PICK loop : Loops(loop, line) /\ ParseFields(line) = loop[0][0]
  BY ParseLoops
<1>2. 0 \in 0..MaxFields /\ 0 \in 0..Len(line)
  BY FieldsAssumption
<1>3. ParseFields(line) \in ResultsOf(line)
  BY <1>1, <1>2, LoopTyped
<1> QED BY <1>3 DEF ResultsOf, Parsed, Refused
=============================================================================
