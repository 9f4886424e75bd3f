--------------------------- MODULE ManifestProofs ---------------------------
(***************************************************************************)
(* The manifest scanner and the extraction of pairs, for every value of    *)
(* the constants.  No byte sequence, however it is cut into views, takes    *)
(* the scanner's lanes out of agreement; positions are those of one scan of *)
(* the whole document; no state within an open root is a dead end.  Of a    *)
(* document the scanner accepts, the pass that counts the pairs and the     *)
(* pass that locates one agree; the spans of the pairs are disjoint; and    *)
(* the span of a nested value is accepted as a document of its own.         *)
(***************************************************************************)
EXTENDS ManifestPairs, SharedProofs

Sound(st) == SoundLanes(st) /\ Agree(st)

\* The state a scan starts from is sound.
LEMMA SeedIsSound == Sound(SeedState)
BY NestAssumption DEF Sound, SoundLanes, States, Agree, SeedState, Innermost,
   NeedValue, Fresh, NeedColon, NeedComma, Complete

\* A byte inside a string keeps the lanes sound.
LEMMA StringStepIsSound ==
    ASSUME NEW st, NEW b \in Byte, Sound(st), st.in_string
    PROVE  Sound(StepString(st, b).state)
<1> st \in States /\ Len(st.stack) <= MaxNest
  BY DEF Sound, SoundLanes
<1>1. ASSUME NEW esc \in BOOLEAN
      PROVE  Sound([st EXCEPT !.esc = esc])
  <2> DEFINE next == [st EXCEPT !.esc = esc]
  <2>1. next \in States /\ next.stack = st.stack
    BY DEF States
  <2>2. /\ next.expect = st.expect /\ next.in_string = st.in_string
        /\ next.in_literal = st.in_literal /\ next.max_depth = st.max_depth
    BY DEF States
  <2> HIDE DEF next
  <2>3. Agree(next)
    BY <2>1, <2>2 DEF Sound, Agree, Innermost
  <2> QED BY <2>1, <2>3 DEF Sound, SoundLanes, next
<1>2. ASSUME ~st.esc
      PROVE  Sound(CloseString(st).state)
  <2>1. CASE st.expect = Fresh /\ Innermost(st) # "array"
    <3> DEFINE next == [st EXCEPT !.in_string = FALSE, !.expect = NeedColon]
    <3>1. Innermost(st) = "object"
      BY <2>1 DEF Sound, Agree, Innermost, States, Fresh, NeedValue, Complete
    <3>2. next \in States
      <4> NeedColon \in NeedValue..Complete
        BY DEF NeedColon, NeedValue, Complete
      <4> QED BY DEF States
    <3>3. /\ next.stack = st.stack /\ next.expect = NeedColon
          /\ ~next.in_string /\ next.esc = st.esc
          /\ next.in_literal = st.in_literal /\ next.max_depth = st.max_depth
      BY DEF States
    <3> HIDE DEF next
    <3>4. Innermost(next) = "object" /\ st.stack # << >>
      BY <3>1, <3>3 DEF Innermost
    <3>5. ~st.in_literal
      BY DEF Sound, Agree
    <3>6. Agree(next)
      BY <1>2, <3>3, <3>4, <3>5 DEF Sound, Agree, NeedColon, NeedValue,
         NeedComma, Complete, Fresh
    <3> QED BY <2>1, <3>2, <3>3, <3>6 DEF Sound, SoundLanes, CloseString, Ok, next
  <2>2. CASE /\ ~(st.expect = Fresh /\ Innermost(st) # "array")
             /\ st.expect = NeedValue /\ st.stack = << >>
    BY <2>2 DEF CloseString, Bad
  <2>3. CASE /\ ~(st.expect = Fresh /\ Innermost(st) # "array")
             /\ ~(st.expect = NeedValue /\ st.stack = << >>)
    <3> DEFINE next == [st EXCEPT !.in_string = FALSE, !.expect = NeedComma]
    <3>1. st.stack # << >>
      BY <2>3 DEF Sound, Agree, Fresh, NeedValue, Complete
    <3>2. next \in States
      <4> NeedComma \in NeedValue..Complete
        BY DEF NeedComma, NeedValue, Complete
      <4> QED BY DEF States
    <3>3. /\ next.stack = st.stack /\ next.expect = NeedComma
          /\ ~next.in_string /\ next.esc = st.esc
          /\ next.in_literal = st.in_literal /\ next.max_depth = st.max_depth
      BY DEF States
    <3> HIDE DEF next
    <3>4. Agree(next)
      BY <1>2, <3>1, <3>3 DEF Sound, Agree, NeedColon, NeedValue, NeedComma,
         Complete, Fresh
    <3> QED BY <2>3, <3>2, <3>3, <3>4 DEF Sound, SoundLanes, CloseString, Ok, next
  <2> QED BY <2>1, <2>2, <2>3
<1> QED BY <1>1, <1>2 DEF StepString, Ok, Bad

\* Opening a container keeps the lanes sound: the stack stays within MaxNest.
LEMMA OpenContainerIsSound ==
    ASSUME NEW st, NEW kind \in {"object", "array"}, Sound(st),
           ~st.in_string, ~st.in_literal
    PROVE  Sound(OpenContainer(st, kind).state)
<1> DEFINE opened == OpenContainer(st, kind).state
<1>1. CASE \/ st.expect \notin {NeedValue, Fresh}
           \/ st.expect = Fresh /\ st.after_comma
           \/ Len(st.stack) >= MaxNest
  BY <1>1 DEF OpenContainer, Bad
<1>2. CASE /\ st.expect \in {NeedValue, Fresh}
           /\ ~(st.expect = Fresh /\ st.after_comma)
           /\ ~(Len(st.stack) >= MaxNest)
  <2>1. st \in States /\ Len(st.stack) \in Nat /\ Len(st.stack) < MaxNest
        /\ st.stack \in Seq({"object", "array"}) /\ ~st.esc
        /\ Len(st.stack) <= st.max_depth
    BY <1>2, NestAssumption DEF Sound, SoundLanes, States, Agree
  <2>2. opened = [st EXCEPT !.stack = Append(@, kind), !.expect = Fresh,
                       !.max_depth = IF @ < Len(st.stack) + 1
                                     THEN Len(st.stack) + 1 ELSE @]
    BY <1>2 DEF OpenContainer, Ok
  <2>3. /\ Append(st.stack, kind) \in Seq({"object", "array"})
        /\ Len(Append(st.stack, kind)) = Len(st.stack) + 1
        /\ Append(st.stack, kind) # << >>
    BY <2>1
  <2> DEFINE deepest == IF st.max_depth < Len(st.stack) + 1
                        THEN Len(st.stack) + 1 ELSE st.max_depth
  <2>4. deepest \in 0..MaxNest /\ Len(st.stack) + 1 <= deepest
    BY <2>1, NestAssumption DEF States
  <2>5. opened = [st EXCEPT !.stack = Append(st.stack, kind),
                            !.expect = Fresh, !.max_depth = deepest]
    BY <2>2
  <2> HIDE DEF deepest, opened
  <2>6. opened \in States /\ Len(opened.stack) <= MaxNest
    <3>1. Fresh \in NeedValue..Complete
      BY DEF Fresh, NeedValue, Complete
    <3>2. opened \in States
      BY <2>1, <2>3, <2>4, <2>5, <3>1 DEF States
    <3> QED
      BY <2>1, <2>3, <2>5, <3>2, NestAssumption DEF States
  <2>7. /\ opened.stack # << >> /\ Len(opened.stack) <= opened.max_depth
        /\ opened.expect = Fresh /\ opened.in_string = st.in_string
        /\ opened.esc = st.esc /\ opened.in_literal = st.in_literal
    BY <2>1, <2>3, <2>4, <2>5 DEF States
  <2>8. Agree(opened)
    BY <1>2, <2>1, <2>7 DEF Agree, Fresh, NeedValue, NeedColon,
       NeedComma, Complete
  <2> QED BY <2>6, <2>8 DEF Sound, SoundLanes, opened
<1> QED BY <1>1, <1>2

\* Closing one keeps them sound: the root is complete when the stack empties.
LEMMA CloseContainerIsSound ==
    ASSUME NEW st, NEW kind \in {"object", "array"}, Sound(st),
           ~st.in_string, ~st.in_literal
    PROVE  Sound(CloseContainer(st, kind).state)
<1> DEFINE closed == CloseContainer(st, kind).state
<1>1. CASE \/ Innermost(st) # kind
           \/ st.expect \in {NeedValue, NeedColon, Complete}
           \/ st.expect = Fresh /\ st.after_comma
  BY <1>1 DEF CloseContainer, Bad
<1>2. CASE /\ Innermost(st) = kind
           /\ st.expect \notin {NeedValue, NeedColon, Complete}
           /\ ~(st.expect = Fresh /\ st.after_comma)
  <2>1. st \in States /\ st.stack \in Seq({"object", "array"})
        /\ Len(st.stack) \in Nat /\ Len(st.stack) >= 1
        /\ Len(st.stack) <= MaxNest /\ ~st.esc
        /\ Len(st.stack) <= st.max_depth
    BY <1>2 DEF Sound, SoundLanes, States, Agree, Innermost
  <2>2. closed = [st EXCEPT !.stack = SubSeq(@, 1, Len(@) - 1),
                       !.expect = IF Len(st.stack) = 1 THEN Complete
                                                       ELSE NeedComma,
                       !.after_comma = FALSE]
    BY <1>2 DEF CloseContainer, Ok
  <2>3. /\ SubSeq(st.stack, 1, Len(st.stack) - 1) \in Seq({"object", "array"})
        /\ Len(SubSeq(st.stack, 1, Len(st.stack) - 1)) = Len(st.stack) - 1
    BY <2>1, SubSeqProperties
  <2> DEFINE stack == SubSeq(st.stack, 1, Len(st.stack) - 1)
             expect == IF Len(st.stack) = 1 THEN Complete ELSE NeedComma
  <2>4. closed = [st EXCEPT !.stack = stack, !.expect = expect,
                            !.after_comma = FALSE]
    BY <2>2
  <2>5. stack \in Seq({"object", "array"}) /\ Len(stack) = Len(st.stack) - 1
    BY <2>3
  <2>6. expect \in NeedValue..Complete
    BY DEF NeedValue, NeedComma, Complete
  <2> HIDE DEF stack, expect, closed
  <2>7. closed \in States /\ Len(closed.stack) <= MaxNest
    <3>1. closed \in States
      BY <2>1, <2>4, <2>5, <2>6 DEF States
    <3>2. closed.stack = stack
      BY <2>1, <2>4 DEF States
    <3> QED BY <2>1, <2>5, <3>1, <3>2, NestAssumption
  <2>8. /\ closed.stack = stack /\ closed.expect = expect
        /\ closed.max_depth = st.max_depth /\ closed.in_string = st.in_string
        /\ closed.esc = st.esc /\ closed.in_literal = st.in_literal
    BY <2>1, <2>4 DEF States
  <2>9. Len(closed.stack) <= closed.max_depth
    BY <2>1, <2>5, <2>8 DEF States
  <2>10. (closed.stack = << >>) <=> (Len(st.stack) = 1)
    <3>1. (stack = << >>) <=> (Len(stack) = 0)
      BY <2>5, EmptySeq
    <3> QED BY <2>1, <2>5, <2>8, <3>1
  <2>11. Agree(closed)
    BY <1>2, <2>1, <2>8, <2>9, <2>10 DEF Agree, Fresh, NeedValue, NeedColon,
       NeedComma, Complete, expect
  <2> QED BY <2>7, <2>11 DEF Sound, SoundLanes, closed
<1> QED BY <1>1, <1>2

\* A byte that opens or closes nothing but a string or a literal.
LEMMA OtherTokenIsSound ==
    ASSUME NEW st, Sound(st), ~st.in_string, ~st.in_literal
    PROVE  /\ Sound(OpenString(st).state) /\ Sound(Colon(st).state)
           /\ Sound(Comma(st).state) /\ Sound(OpenLiteral(st).state)
<1> st \in States /\ Len(st.stack) <= MaxNest /\ ~st.esc
  BY DEF Sound, SoundLanes, Agree
<1>1. Sound(OpenString(st).state)
  <2> DEFINE next == [st EXCEPT !.in_string = TRUE, !.esc = FALSE,
                                !.after_comma = FALSE]
  <2>1. CASE st.expect \in {NeedValue, Fresh}
    <3>1. /\ next \in States /\ next.stack = st.stack
          /\ next.expect = st.expect /\ next.in_string /\ ~next.esc
          /\ next.in_literal = st.in_literal /\ next.max_depth = st.max_depth
      BY DEF States
    <3> HIDE DEF next
    <3>2. Agree(next)
      BY <2>1, <3>1 DEF Sound, Agree, NeedColon, NeedValue, Fresh, Complete
    <3> QED BY <2>1, <3>1, <3>2 DEF Sound, SoundLanes, OpenString, Ok, next
  <2>2. CASE st.expect \notin {NeedValue, Fresh}
    BY <2>2 DEF OpenString, Bad
  <2> QED BY <2>1, <2>2
\* The moves that write expect and one flag: what is left to show is that the
\* new expectation suits the stack.
<1>2. ASSUME NEW expect \in {NeedValue, Fresh, NeedComma}, NEW next,
             st.stack # << >>, next \in States, next.stack = st.stack,
             next.expect = expect, ~next.in_string, ~next.esc,
             next.in_literal => expect = NeedComma,
             next.max_depth = st.max_depth
      PROVE  Sound(next)
  BY <1>2 DEF Sound, SoundLanes, Agree, NeedValue, Fresh, NeedComma, NeedColon,
     Complete
<1>3. NeedValue \in NeedValue..Complete /\ Fresh \in NeedValue..Complete
      /\ NeedComma \in NeedValue..Complete
  BY DEF NeedValue, Fresh, NeedComma, Complete
<1>4. Sound(Colon(st).state)
  <2> DEFINE next == [st EXCEPT !.expect = NeedValue, !.after_comma = FALSE]
  <2>1. CASE st.expect = NeedColon
    <3>1. /\ next \in States /\ next.stack = st.stack
          /\ next.expect = NeedValue /\ ~next.in_string /\ ~next.esc
          /\ ~next.in_literal /\ next.max_depth = st.max_depth
      BY <1>3 DEF States
    <3>2. st.stack # << >>
      BY <2>1 DEF Sound, Agree, NeedColon, NeedValue, Complete
    <3> HIDE DEF next
    <3>3. Sound(next)
      BY <1>2, <3>1, <3>2
    <3> QED BY <2>1, <3>3 DEF Colon, Ok, next
  <2>2. CASE st.expect # NeedColon
    BY <2>2 DEF Colon, Bad
  <2> QED BY <2>1, <2>2
<1>5. Sound(Comma(st).state)
  <2> DEFINE expect == IF Innermost(st) = "object" THEN Fresh ELSE NeedValue
             next == [st EXCEPT !.after_comma = TRUE, !.expect = expect]
  <2>1. CASE st.expect = NeedComma
    <3>1. st.stack # << >>
      BY <2>1 DEF Sound, Agree, NeedComma, NeedValue, Complete
    <3>2. expect \in {NeedValue, Fresh}
      OBVIOUS
    <3> HIDE DEF expect
    <3>3. /\ next \in States /\ next.stack = st.stack
          /\ next.expect = expect /\ ~next.in_string /\ ~next.esc
          /\ ~next.in_literal /\ next.max_depth = st.max_depth
      BY <1>3, <3>2 DEF States
    <3> HIDE DEF next
    <3>4. Sound(next)
      BY <1>2, <3>1, <3>2, <3>3
    <3> QED BY <2>1, <3>1, <3>4 DEF Comma, Ok, next, expect
  <2>2. CASE st.expect # NeedComma
    BY <2>2 DEF Comma, Bad
  <2> QED BY <2>1, <2>2
<1>6. Sound(OpenLiteral(st).state)
  <2> DEFINE next == [st EXCEPT !.expect = NeedComma, !.in_literal = TRUE,
                                !.after_comma = FALSE]
             starts == \/ st.expect = NeedValue /\ st.stack # << >>
                       \/ st.expect = Fresh /\ Innermost(st) = "array"
  <2>1. CASE starts
    <3>1. /\ next \in States /\ next.stack = st.stack
          /\ next.expect = NeedComma /\ ~next.in_string /\ ~next.esc
          /\ next.in_literal /\ next.max_depth = st.max_depth
      BY <1>3 DEF States
    <3>2. st.stack # << >>
      BY <2>1 DEF Sound, Agree, Fresh, NeedValue, Complete
    <3> HIDE DEF next
    <3>3. Sound(next)
      BY <1>2, <3>1, <3>2
    <3> QED BY <2>1, <3>3 DEF OpenLiteral, Ok, next
  <2>2. CASE ~starts
    BY <2>2 DEF OpenLiteral, Bad
  <2> QED BY <2>1, <2>2
<1> QED BY <1>1, <1>4, <1>5, <1>6

\* One byte keeps the lanes sound, whether it is at fault or not.
LEMMA StepIsSound ==
    ASSUME NEW st, NEW b \in Byte, Sound(st)
    PROVE  Sound(StepByte(st, b).state)
<1>1. CASE st.in_string
  BY <1>1, StringStepIsSound DEF StepByte
<1>2. CASE ~st.in_string /\ (IsSpace(b) \/ (st.in_literal /\ IsLiteralChar(b)))
  BY <1>2 DEF StepByte, StepToken, Ok
<1>3. CASE ~st.in_string /\ ~IsSpace(b) /\ ~(st.in_literal /\ IsLiteralChar(b))
  <2> DEFINE clear == [st EXCEPT !.in_literal = FALSE]
  <2>1. Sound(clear) /\ ~clear.in_string /\ ~clear.in_literal
    BY <1>3 DEF Sound, SoundLanes, States, Agree, Innermost
  <2>2. StepByte(st, b) = OpenToken(clear, b)
    BY <1>3 DEF StepByte, StepToken
  <2> HIDE DEF clear
  <2>3. Sound(OpenToken(clear, b).state)
    BY <2>1, OpenContainerIsSound, CloseContainerIsSound, OtherTokenIsSound
    DEF OpenToken, Bad, Byte, StartsLiteral
  <2> QED BY <2>2, <2>3
<1> QED BY <1>1, <1>2, <1>3

-----------------------------------------------------------------------------
(* Scanning a sequence of bytes at once. *)

\* What a fold of sound bytes may be in.
Steps == {step \in [state : States, bad : BOOLEAN] : Sound(step.state)}

LEMMA StepIsAStep ==
    ASSUME NEW st, NEW b \in Byte, Sound(st)
    PROVE  StepByte(st, b) \in Steps
<1>1. Sound(StepByte(st, b).state)
  BY StepIsSound
<1> DEFINE Answers(step) == step = Ok(step.state) \/ step = Bad(step.state)
<1>2. \A x : Answers(Ok(x)) /\ Answers(Bad(x))
  BY DEF Ok, Bad
<1> HIDE DEF Answers
<1>3. \A x : /\ Answers(OpenString(x)) /\ Answers(Colon(x)) /\ Answers(Comma(x))
             /\ Answers(OpenLiteral(x)) /\ Answers(CloseString(x))
  BY <1>2 DEF OpenString, Colon, Comma, OpenLiteral, CloseString
<1>4. \A x, kind : Answers(OpenContainer(x, kind)) /\ Answers(CloseContainer(x, kind))
  BY <1>2 DEF OpenContainer, CloseContainer
<1>5. \A x : Answers(OpenToken(x, b))
  BY <1>2, <1>3, <1>4 DEF OpenToken
<1>6. Answers(StepByte(st, b))
  BY <1>2, <1>3, <1>5 DEF StepByte, StepString, StepToken
<1> DEFINE next == StepByte(st, b).state
           fault == StepByte(st, b).bad
<1>7. StepByte(st, b) = [state |-> next, bad |-> fault] /\ fault \in BOOLEAN
  <2>1. PICK y \in BOOLEAN : StepByte(st, b) = [state |-> next, bad |-> y]
    BY <1>6 DEF Answers, Ok, Bad
  <2> HIDE DEF next
  <2>2. fault = y
    BY <2>1
  <2> QED BY <2>1, <2>2
<1>8. next \in States /\ Sound(next)
  BY <1>1 DEF Sound, SoundLanes
<1> QED BY <1>7, <1>8 DEF Steps

LEMMA FoldStaysSound ==
    ASSUME NEW step \in Steps, NEW b \in Byte
    PROVE  FoldByte(step, b) \in Steps
BY StepIsAStep DEF FoldByte, Steps

\* The fold of a scan, position by position.
ScansAs(run, st, s) ==
    /\ run \in [0..Len(s) -> Steps]
    /\ run[0] = Ok(st) /\ Scan(st, s) = run[Len(s)]
    /\ \A i \in 1..Len(s) : run[i] = FoldByte(run[i - 1], s[i])

LEMMA ScanRuns ==
    ASSUME NEW st, Sound(st), NEW s \in Seq(Byte)
    PROVE  \E run : ScansAs(run, st, s)
<1> DEFINE V == Steps
           first == Ok(st)
           Recurs(f, n) ==
               f = [T \in SUBSET (1..n) |->
                       IF T = {} THEN first
                       ELSE FoldByte(f[T \ {Max(T)}], s[Max(T)])]
           step == [i \in 1..Len(s) |-> [v \in V |-> FoldByte(v, s[i])]]
<1>1. Len(s) \in Nat /\ DOMAIN s = 1..Len(s) /\ \A i \in 1..Len(s) : s[i] \in Byte
  OBVIOUS
<1>2. \A i \in 1..Len(s) : \A v \in V :
          step[i][v] = FoldByte(v, s[i]) /\ step[i][v] \in V
  BY <1>1, FoldStaysSound
<1>3. first \in V
  BY DEF Steps, Sound, SoundLanes, Ok
<1>4. Scan(st, s) = (CHOOSE f : Recurs(f, Len(s)))[1..Len(s)]
  BY <1>1 DEF Scan, FoldLeft, MapThenFoldSet
<1> HIDE DEF step, V, first
<1>5. PICK n \in Nat : n = Len(s)
  BY <1>1
<1>6. PICK f : FoldOf(f, n, V, first, step)
  BY <1>2, <1>3, <1>5, SetRecursion
<1>7. \E h : Recurs(h, n)
  <2>1. ASSUME NEW T \in SUBSET (1..n), T # {}
        PROVE  step[Max(T)][f[T \ {Max(T)}]] = FoldByte(f[T \ {Max(T)}], s[Max(T)])
    <3>1. Max(T) \in 1..n /\ f[T \ {Max(T)}] \in V
      BY <1>6, <2>1, MaxOfPositions DEF FoldOf
    <3> QED BY <1>2, <1>5, <3>1
  <2>2. Recurs(f, n)
    BY <1>6, <2>1 DEF FoldOf
  <2> QED BY <2>2
<1>8. PICK g : Recurs(g, n) /\ Scan(st, s) = g[1..n]
  <2> HIDE DEF Recurs
  <2> QED BY <1>4, <1>5, <1>7
<1>9. FoldsIn(g, n, V, first, step)
  <2>1. ASSUME NEW T \in (SUBSET (1..n)) \ {{}}, g[T \ {Max(T)}] \in V
        PROVE  g[T] = step[Max(T)][g[T \ {Max(T)}]]
    <3>1. Max(T) \in 1..n
      BY MaxOfPositions
    <3>2. g[T] = FoldByte(g[T \ {Max(T)}], s[Max(T)])
      BY <1>8
    <3> QED BY <1>2, <1>5, <2>1, <3>1, <3>2
  <2>2. g[{}] = first
    BY <1>8
  <2> QED BY <2>1, <2>2 DEF FoldsIn
<1> HIDE DEF Recurs
<1>10. PICK run \in [0..n -> V] :
          /\ run[0] = first /\ g[1..n] = run[n]
          /\ \A i \in 1..n : run[i] = step[i][run[i - 1]]
  BY <1>2, <1>3, <1>5, <1>9, FoldRuns
<1>11. ASSUME NEW i \in 1..n PROVE run[i] = FoldByte(run[i - 1], s[i])
  <2>1. i - 1 \in 0..n
    OBVIOUS
  <2>2. run[i - 1] \in V
    BY <2>1
  <2> QED BY <1>2, <1>5, <1>10, <2>2
<1>12. ScansAs(run, st, s)
  BY <1>5, <1>8, <1>10, <1>11 DEF ScansAs, V, first
<1> QED BY <1>12

LEMMA ScanOfNone == ASSUME NEW st, Sound(st) PROVE Scan(st, << >>) = Ok(st)
<1>1. PICK run : ScansAs(run, st, << >>)
  <2> << >> \in Seq(Byte)
    BY EmptySeq
  <2> QED BY ScanRuns
<1> QED BY <1>1 DEF ScansAs

LEMMA ScanIsAStep ==
    ASSUME NEW st, Sound(st), NEW s \in Seq(Byte)
    PROVE  Scan(st, s) \in Steps
<1>1. PICK run : ScansAs(run, st, s)
  BY ScanRuns
<1>2. Len(s) \in 0..Len(s)
  OBVIOUS
<1> QED BY <1>1, <1>2 DEF ScansAs

\* A byte behind those scanned.
LEMMA ScanOfOneMore ==
    ASSUME NEW st, Sound(st), NEW s \in Seq(Byte), NEW b \in Byte
    PROVE  Scan(st, Append(s, b)) = FoldByte(Scan(st, s), b)
<1> DEFINE t == Append(s, b)
<1>1. PICK n \in Nat : n = Len(s)
  OBVIOUS
<1>2. /\ t \in Seq(Byte) /\ Len(t) = n + 1 /\ t[n + 1] = b
      /\ \A i \in 1..n : t[i] = s[i]
  BY <1>1
<1> HIDE DEF t
<1>3. PICK less : ScansAs(less, st, s)
  BY ScanRuns
<1>4. PICK more : ScansAs(more, st, t)
  BY <1>2, ScanRuns
<1>5. /\ less[0] = Ok(st) /\ Scan(st, s) = less[n]
      /\ \A i \in 1..n : less[i] = FoldByte(less[i - 1], s[i])
  BY <1>1, <1>3 DEF ScansAs
<1>6. /\ more[0] = Ok(st) /\ Scan(st, t) = more[n + 1]
      /\ \A i \in 1..(n + 1) : more[i] = FoldByte(more[i - 1], t[i])
  BY <1>2, <1>4 DEF ScansAs
<1> DEFINE Same == {i \in 0..n : more[i] = less[i]}
<1>7. n \in Same
  <2>1. 0 \in Same
    BY <1>5, <1>6
  <2>2. ASSUME NEW i \in 1..n, i - 1 \in Same PROVE i \in Same
    <3>1. more[i] = FoldByte(more[i - 1], t[i]) /\ t[i] = s[i]
      BY <1>2, <1>6
    <3>2. less[i] = FoldByte(less[i - 1], s[i]) /\ more[i - 1] = less[i - 1]
      BY <1>5, <2>2
    <3> QED BY <3>1, <3>2
  <2>3. Same \in SUBSET (0..n)
    OBVIOUS
  <2> HIDE DEF Same
  <2>4. Same = 0..n
    BY <2>1, <2>2, <2>3, AtEveryPosition
  <2> QED BY <2>4
<1>8. more[n] = less[n]
  BY <1>7
<1>9. n + 1 \in 1..(n + 1) /\ (n + 1) - 1 = n
  OBVIOUS
<1>10. more[n + 1] = FoldByte(more[n], b)
  <2>1. more[n + 1] = FoldByte(more[(n + 1) - 1], t[n + 1])
    BY <1>6, <1>9
  <2> QED BY <1>2, <1>9, <2>1
<1> QED BY <1>5, <1>6, <1>8, <1>10 DEF t

-----------------------------------------------------------------------------

Inv == TypeOK /\ LanesAgree

LEMMA InitInv == Init => Inv
<1> SUFFICES ASSUME Init PROVE Inv
  OBVIOUS
<1>1. Sound(state)
  BY SeedIsSound DEF Init
<1>2. doc \in Seq(Byte)
  BY DEF Init
<1> QED BY <1>1, <1>2 DEF Init, Inv, TypeOK, LanesAgree, Sound

\* A step of the scanner over whatever bytes.
AnyNext ==
    \/ BeginView
    \/ \E b \in Byte : ScanByte(b)
    \/ SkipByte
    \/ EndView
    \/ EndOfInput

LEMMA NextIsAny == Next => AnyNext
BY ScannerAssumption DEF Next, AnyNext

LEMMA AnyNextInv == Inv /\ [AnyNext]_vars => Inv'
<1> SUFFICES ASSUME Inv, [AnyNext]_vars PROVE Inv'
  OBVIOUS
<1> USE DEF Inv, TypeOK, LanesAgree
<1>1. CASE BeginView
  BY <1>1 DEF BeginView
<1>2. ASSUME NEW b \in Byte, ScanByte(b) PROVE Inv'
  <2>1. b \in Byte
    OBVIOUS
  <2>2. Sound(StepByte(state, b).state)
    BY <2>1, StepIsSound DEF Sound
  <2>3. StepByte(state, b).bad \in BOOLEAN
    BY DEF StepByte, StepString, CloseString, StepToken, OpenToken, OpenString,
       OpenContainer, CloseContainer, Colon, Comma, OpenLiteral, Ok, Bad
  <2>4. doc' \in Seq(Byte)
    BY <1>2, <2>1 DEF ScanByte
  <2> QED
    BY <1>2, <2>2, <2>3, <2>4 DEF ScanByte, Sound
<1>3. CASE SkipByte
  BY <1>3 DEF SkipByte
<1>4. CASE EndView
  BY <1>4 DEF EndView, fold
<1>5. CASE EndOfInput
  BY <1>5 DEF EndOfInput, fold
<1>6. CASE UNCHANGED vars
  BY <1>6 DEF vars, fold
<1> QED
  BY <1>1, <1>2, <1>3, <1>4, <1>5, <1>6 DEF AnyNext

LEMMA NextInv == Inv /\ [Next]_vars => Inv'
BY NextIsAny, AnyNextInv

\* The scanner's lanes keep their types, and the stack its four entries.
THEOREM ScannerTypeOK == Spec => []TypeOK
<1>1. Inv => TypeOK
  BY DEF Inv
<1> QED
  BY <1>1, InitInv, NextInv, PTL DEF Spec

\* The scanner's lanes never disagree.
THEOREM ScannerLanesAgree == Spec => []LanesAgree
<1>1. Inv => LanesAgree
  BY DEF Inv
<1> QED
  BY <1>1, InitInv, NextInv, PTL DEF Spec

-----------------------------------------------------------------------------
(* Positions: what a scan in views knows of the document. *)

\* The scan of the whole document fails at its last byte, not before.
FaultAt(p) ==
    /\ p = Len(doc) - 1
    /\ ~OneShot(SubSeq(doc, 1, p)).bad
    /\ OneShot(doc).bad

\* Wherever views end, the state is that of one fold over the document, and
\* base and the counts are positions in it.
Scanned ==
    /\ pc = "idle" => OneShot(doc) = Ok(state) /\ base = Len(doc)
    /\ pc = "scan" /\ ~bad => OneShot(doc) = Ok(state) /\ base + count = Len(doc)
    /\ pc = "scan" /\ bad => FaultAt(base + at)
    /\ pc # "done" => verdict \in {"none", "ok"}
    /\ PositionIsExact

LEMMA InitScanned == Init => Scanned
<1> SUFFICES ASSUME Init PROVE Scanned
  OBVIOUS
<1>1. OneShot(<< >>) = Ok(SeedState)
  BY SeedIsSound, ScanOfNone DEF OneShot
<1>2. Len(<< >>) = 0
  OBVIOUS
<1> QED BY <1>1, <1>2 DEF Init, Scanned, PositionIsExact

LEMMA AnyNextScanned == Inv /\ Scanned /\ [AnyNext]_vars => Scanned'
<1> SUFFICES ASSUME Inv, Scanned, [AnyNext]_vars PROVE Scanned'
  OBVIOUS
<1>1. /\ base \in Nat /\ count \in Nat /\ at \in Nat /\ bad \in BOOLEAN
      /\ doc \in Seq(Byte) /\ Sound(state)
      /\ pc \in {"idle", "scan", "done"}
  BY DEF Inv, TypeOK, LanesAgree, Sound
<1>2. CASE BeginView
  BY <1>1, <1>2 DEF BeginView, Scanned, PositionIsExact
<1>3. ASSUME NEW b \in Byte, ScanByte(b) PROVE Scanned'
  <2> DEFINE moved == StepByte(state, b)
  <2>1. /\ pc = "scan" /\ ~bad /\ pc' = pc /\ base' = base /\ verdict' = verdict
        /\ state' = moved.state /\ bad' = moved.bad
        /\ at' = (IF moved.bad THEN count ELSE at)
        /\ count' = count + 1 /\ doc' = Append(doc, b)
    BY <1>3 DEF ScanByte
  <2>2. OneShot(doc) = Ok(state) /\ base + count = Len(doc)
        /\ verdict \in {"none", "ok"}
    BY <2>1 DEF Scanned
  <2>3. b \in Byte
    OBVIOUS
  <2>4. OneShot(doc') = moved
    <3>1. OneShot(doc') = FoldByte(OneShot(doc), b)
      BY <1>1, <2>1, <2>3, SeedIsSound, ScanOfOneMore DEF OneShot
    <3> QED BY <2>2, <3>1 DEF FoldByte, Ok
  <2>5. moved = [state |-> moved.state, bad |-> moved.bad] /\ moved.bad \in BOOLEAN
    BY <1>1, <2>3, StepIsAStep DEF Steps
  <2>6. Len(doc') = Len(doc) + 1 /\ Len(doc) \in Nat
    BY <1>1, <2>1, <2>3
  <2>7. SubSeq(doc', 1, Len(doc)) = doc
    BY <1>1, <2>1, <2>3
  <2> HIDE DEF moved
  <2>8. PositionIsExact'
    BY <2>1, <2>2 DEF PositionIsExact
  <2>9. CASE moved.bad
    <3>1. base' + at' = Len(doc)
      BY <2>1, <2>2, <2>9
    <3>2. ~OneShot(SubSeq(doc', 1, Len(doc))).bad
      <4>1. OneShot(SubSeq(doc', 1, Len(doc))) = Ok(state)
        BY <2>2, <2>7
      <4>2. Ok(state).bad = FALSE
        BY DEF Ok
      <4> QED BY <4>1, <4>2
    <3>3. FaultAt(base + at)'
      BY <2>4, <2>6, <2>9, <3>1, <3>2 DEF FaultAt
    <3> QED BY <2>1, <2>2, <2>8, <2>9, <3>3 DEF Scanned
  <2>10. CASE ~moved.bad
    <3>1. OneShot(doc') = Ok(state')
      BY <2>1, <2>4, <2>5, <2>10 DEF Ok
    <3>2. base' + count' = Len(doc')
      BY <1>1, <2>1, <2>2, <2>6
    <3> QED BY <2>1, <2>2, <2>8, <2>10, <3>1, <3>2 DEF Scanned
  <2> QED BY <2>9, <2>10
<1>4. CASE SkipByte
  BY <1>1, <1>4 DEF SkipByte, Scanned, FaultAt, PositionIsExact
<1>5. CASE EndView
  <2>1. CASE bad
    <3>1. FaultAt(base + at) /\ doc' = doc /\ verdict' = "malformed"
          /\ position' = base + at /\ pc' = "done"
      BY <1>5, <2>1 DEF EndView, Scanned
    <3>2. PositionIsExact'
      BY <3>1 DEF FaultAt, PositionIsExact
    <3> QED BY <3>1, <3>2 DEF Scanned
  <2>2. CASE ~bad
    BY <1>5, <2>2 DEF EndView, Scanned, PositionIsExact
  <2> QED BY <2>1, <2>2
<1>6. CASE EndOfInput
  BY <1>6 DEF EndOfInput, Scanned, PositionIsExact
<1>7. CASE UNCHANGED vars
  BY <1>7 DEF vars, fold, Scanned, FaultAt, PositionIsExact
<1> QED
  BY <1>2, <1>3, <1>4, <1>5, <1>6, <1>7 DEF AnyNext

LEMMA NextScanned == Inv /\ Scanned /\ [Next]_vars => Scanned'
BY NextIsAny, AnyNextScanned

\* A malformed verdict is at the first byte at which a scan of the whole
\* document would fail, wherever views end; other verdicts count its bytes.
THEOREM ScannerPositionIsExact == Spec => []PositionIsExact
<1>1. Scanned => PositionIsExact
  BY DEF Scanned
<1> QED
  BY <1>1, InitInv, NextInv, InitScanned, NextScanned, PTL DEF Spec

-----------------------------------------------------------------------------
(* A scan can always be finished once its root is open. *)

Finishes(st, s) == ~Scan(st, s).bad /\ Scan(st, s).state.expect = Complete

\* Scanning a byte, and then the rest from where it led.
LEMMA ScanOfTheRest ==
    ASSUME NEW st, Sound(st), NEW b \in Byte, NEW s \in Seq(Byte),
           ~StepByte(st, b).bad
    PROVE  Scan(st, <<b>> \o s) = Scan(StepByte(st, b).state, s)
<1> DEFINE t == <<b>> \o s
           next == StepByte(st, b).state
<1>1. PICK n \in Nat : n = Len(s)
  OBVIOUS
<1>2. /\ t \in Seq(Byte) /\ Len(t) = n + 1 /\ t[1] = b
      /\ \A i \in 1..n : t[i + 1] = s[i]
  <2>1. /\ t \in Seq(Byte) /\ Len(t) = 1 + n
        /\ \A i \in 1..(1 + n) : t[i] = IF i <= 1 THEN b ELSE s[i - 1]
    BY <1>1
  <2> HIDE DEF t
  <2>2. \A i \in 1..n : i + 1 \in 1..(1 + n) /\ ~(i + 1 <= 1) /\ (i + 1) - 1 = i
    OBVIOUS
  <2>3. 1 \in 1..(1 + n) /\ 1 + n = n + 1
    OBVIOUS
  <2> QED BY <2>1, <2>2, <2>3
<1> HIDE DEF t
<1>3. Sound(next) /\ StepByte(st, b) = Ok(next)
  <2>1. StepByte(st, b) \in Steps
    BY StepIsAStep
  <2> QED BY <2>1 DEF Steps, Ok
<1> HIDE DEF next
<1>4. PICK less : ScansAs(less, next, s)
  BY <1>3, ScanRuns
<1>5. PICK more : ScansAs(more, st, t)
  BY <1>2, ScanRuns
<1>6. /\ less[0] = Ok(next) /\ Scan(next, s) = less[n]
      /\ \A i \in 1..n : less[i] = FoldByte(less[i - 1], s[i])
  BY <1>1, <1>4 DEF ScansAs
<1>7. /\ more[0] = Ok(st) /\ Scan(st, t) = more[n + 1]
      /\ \A i \in 1..(n + 1) : more[i] = FoldByte(more[i - 1], t[i])
  BY <1>2, <1>5 DEF ScansAs
<1> DEFINE Same == {i \in 0..n : more[i + 1] = less[i]}
<1>8. n \in Same
  <2>1. 0 \in Same
    <3>1. 1 \in 1..(n + 1) /\ 1 - 1 = 0 /\ 0 + 1 = 1
      OBVIOUS
    <3>2. more[1] = FoldByte(Ok(st), b)
      BY <1>2, <1>7, <3>1
    <3>3. FoldByte(Ok(st), b) = Ok(next)
      BY <1>3 DEF FoldByte, Ok
    <3> QED BY <1>6, <3>1, <3>2, <3>3
  <2>2. ASSUME NEW i \in 1..n, i - 1 \in Same PROVE i \in Same
    <3>1. i + 1 \in 1..(n + 1) /\ (i + 1) - 1 = i /\ (i - 1) + 1 = i /\ i \in 0..n
      OBVIOUS
    <3>2. more[i + 1] = FoldByte(more[i], t[i + 1]) /\ t[i + 1] = s[i]
      BY <1>2, <1>7, <3>1
    <3>3. less[i] = FoldByte(less[i - 1], s[i]) /\ more[i] = less[i - 1]
      BY <1>6, <2>2, <3>1
    <3> QED BY <3>1, <3>2, <3>3
  <2>3. Same \in SUBSET (0..n)
    OBVIOUS
  <2> HIDE DEF Same
  <2>4. Same = 0..n
    BY <2>1, <2>2, <2>3, AtEveryPosition
  <2> QED BY <2>4
<1>9. more[n + 1] = less[n]
  BY <1>8
<1> QED BY <1>6, <1>7, <1>9 DEF t, next

LEMMA FinishesAfter ==
    ASSUME NEW st, Sound(st), NEW b \in Byte, NEW s \in Seq(Byte),
           ~StepByte(st, b).bad, Finishes(StepByte(st, b).state, s)
    PROVE  Finishes(st, <<b>> \o s)
BY ScanOfTheRest DEF Finishes

\* All that is open are containers, and the innermost may close.
Closable(st) ==
    /\ st.stack # << >> /\ ~st.in_string
    /\ \/ st.expect = NeedComma
       \/ st.expect = Fresh /\ Innermost(st) = "object" /\ ~st.after_comma

\* A closer takes the innermost container off.
LEMMA CloserCloses ==
    ASSUME NEW st, Sound(st), Closable(st),
           NEW n \in Nat, n = Len(st.stack)
    PROVE  LET next == StepByte(st, Closer(st.stack[n])).state
           IN  /\ ~StepByte(st, Closer(st.stack[n])).bad
               /\ Len(next.stack) = n - 1
               /\ \A j \in 1..(n - 1) : next.stack[j] = st.stack[j]
               /\ ~next.in_string
               /\ next.expect = IF n = 1 THEN Complete ELSE NeedComma
<1> DEFINE kind == st.stack[n]
           b == Closer(kind)
           clear == [st EXCEPT !.in_literal = FALSE]
<1>1. /\ st \in States /\ st.stack \in Seq({"object", "array"})
      /\ n \in 1..n /\ Innermost(st) = kind /\ kind \in {"object", "array"}
  <2>1. st \in States /\ st.stack \in Seq({"object", "array"})
    BY DEF Sound, SoundLanes, States
  <2>2. n \in 1..n
    BY <2>1 DEF Closable
  <2> QED BY <2>1, <2>2 DEF Closable, Innermost
<1>2. /\ clear \in States /\ clear.stack = st.stack
      /\ clear.expect = st.expect /\ clear.in_string = st.in_string
      /\ clear.after_comma = st.after_comma
  BY <1>1 DEF States
<1>3. (b = "}" /\ kind = "object") \/ (b = "]" /\ kind = "array")
  BY <1>1 DEF Closer
<1> HIDE DEF kind, b, clear
<1>4. StepByte(st, b) = OpenToken(clear, b)
  <2>1. ~st.in_string /\ ~IsSpace(b) /\ ~IsLiteralChar(b)
    BY <1>3 DEF Closable, IsSpace, IsLiteralChar
  <2> QED BY <2>1 DEF StepByte, StepToken, clear
<1>5. OpenToken(clear, b) = CloseContainer(clear, kind)
  <2>1. CASE b = "}" /\ kind = "object"
    BY <2>1 DEF OpenToken, StartsLiteral
  <2>2. CASE b = "]" /\ kind = "array"
    BY <2>2 DEF OpenToken, StartsLiteral
  <2> QED BY <1>3, <2>1, <2>2
<1>6. Innermost(clear) = kind
  BY <1>1, <1>2 DEF Innermost
<1> DEFINE popped == SubSeq(clear.stack, 1, Len(clear.stack) - 1)
           expect == IF Len(clear.stack) = 1 THEN Complete ELSE NeedComma
           next == [clear EXCEPT !.stack = popped, !.expect = expect,
                                 !.after_comma = FALSE]
<1>7. CloseContainer(clear, kind) = Ok(next)
  <2>1. /\ Innermost(clear) = kind
        /\ clear.expect \notin {NeedValue, NeedColon, Complete}
        /\ ~(clear.expect = Fresh /\ clear.after_comma)
    BY <1>2, <1>6 DEF Closable, NeedValue, NeedColon, NeedComma, Complete, Fresh
  <2> QED BY <2>1 DEF CloseContainer
<1>8. /\ next.stack = popped /\ next.expect = expect
      /\ next.in_string = clear.in_string
  BY <1>2 DEF States
<1>9. Len(popped) = n - 1 /\ \A j \in 1..(n - 1) : popped[j] = st.stack[j]
  <2>1. n - 1 \in 0..n /\ Len(clear.stack) = n
    BY <1>1, <1>2
  <2> DEFINE stack == st.stack
             less == n - 1
  <2>2. popped = SubSeq(stack, 1, less)
    BY <1>2, <2>1
  <2>3. stack \in Seq({"object", "array"}) /\ less \in Nat /\ less <= Len(stack)
    BY <1>1, <2>1
  <2> HIDE DEF popped, stack, less
  <2>4. Len(popped) = less /\ \A j \in 1..less : popped[j] = stack[j]
    BY <2>2, <2>3
  <2> QED BY <2>4 DEF stack, less
<1>10. expect = (IF n = 1 THEN Complete ELSE NeedComma) /\ ~clear.in_string
  BY <1>2 DEF Closable
<1> HIDE DEF popped, expect, next
<1>11. ~StepByte(st, b).bad /\ StepByte(st, b).state = next
  BY <1>4, <1>5, <1>7 DEF Ok
<1> QED BY <1>8, <1>9, <1>10, <1>11 DEF b, kind

\* Closers close all containers, and with the last the document.
LEMMA ClosersFinish ==
    ASSUME NEW st, Sound(st), Closable(st)
    PROVE  Closers(st) \in Seq(Byte) /\ Finishes(st, Closers(st))
<1> DEFINE s == Closers(st)
<1>1. st.stack \in Seq({"object", "array"}) /\ st.stack # << >>
  BY DEF Sound, SoundLanes, States, Closable
<1>2. PICK n \in Nat : n = Len(st.stack) /\ n # 0
  BY <1>1
<1>3. \A j \in 1..n : st.stack[j] \in {"object", "array"}
  BY <1>1, <1>2
<1>4. /\ s \in Seq(Byte) /\ Len(s) = n
      /\ \A i \in 1..n : s[i] = Closer(st.stack[n + 1 - i])
  <2>1. s = [i \in 1..n |-> Closer(st.stack[n + 1 - i])]
    BY <1>2 DEF Closers
  <2>2. ASSUME NEW i \in 1..n PROVE Closer(st.stack[n + 1 - i]) \in Byte
    <3>1. n + 1 - i \in 1..n
      OBVIOUS
    <3> QED BY <1>3, <3>1 DEF Closer, Byte
  <2> HIDE DEF s
  <2> QED BY <2>1, <2>2
<1> HIDE DEF s
<1>5. PICK run : ScansAs(run, st, s)
  BY <1>4, ScanRuns
<1>6. /\ run \in [0..n -> Steps]
      /\ run[0] = Ok(st) /\ Scan(st, s) = run[n]
      /\ \A i \in 1..n : run[i] = FoldByte(run[i - 1], s[i])
  BY <1>4, <1>5 DEF ScansAs
\* After i closers.
<1> DEFINE Open(i) ==
               /\ ~run[i].bad /\ Len(run[i].state.stack) = n - i
               /\ \A j \in 1..(n - i) : run[i].state.stack[j] = st.stack[j]
               /\ i < n => Closable(run[i].state)
               /\ i = n => run[i].state.expect = Complete
           Good == {i \in 0..n : Open(i)}
<1>7. 0 \in Good
  <2>1. n - 0 = n /\ 0 \in 0..n /\ ~(0 = n)
    BY <1>2
  <2>2. ~Ok(st).bad /\ Ok(st).state = st
    BY DEF Ok
  <2>3. Open(0)
    BY <1>2, <1>6, <2>1, <2>2
  <2> QED BY <2>1, <2>3
<1>8. ASSUME NEW i \in 1..n, i - 1 \in Good PROVE i \in Good
  <2> DEFINE old == run[i - 1].state
  <2>1. i - 1 \in 0..n /\ i \in 0..n /\ i - 1 < n /\ n - (i - 1) = n + 1 - i
        /\ n + 1 - i \in 1..(n + 1 - i) /\ n + 1 - i \in Nat
        /\ (n + 1 - i) - 1 = n - i
    OBVIOUS
  <2>2. PICK m \in Nat : m = n + 1 - i /\ m \in 1..m
    BY <2>1
  <2>3. /\ ~run[i - 1].bad /\ Len(old.stack) = m
        /\ \A j \in 1..m : old.stack[j] = st.stack[j]
        /\ Closable(old)
    BY <1>8, <2>1, <2>2
  <2>4. Sound(old)
    BY <1>6, <2>1 DEF Steps
  <2>5. run[i] = StepByte(old, Closer(old.stack[m]))
    BY <1>4, <1>6, <2>2, <2>3 DEF FoldByte
  <2> HIDE DEF old
  <2>6. LET next == StepByte(old, Closer(old.stack[m])).state
        IN  /\ ~StepByte(old, Closer(old.stack[m])).bad
            /\ Len(next.stack) = m - 1
            /\ \A j \in 1..(m - 1) : next.stack[j] = old.stack[j]
            /\ ~next.in_string
            /\ next.expect = IF m = 1 THEN Complete ELSE NeedComma
    BY <2>2, <2>3, <2>4, CloserCloses
  <2>7. /\ ~run[i].bad /\ Len(run[i].state.stack) = m - 1
        /\ \A j \in 1..(m - 1) : run[i].state.stack[j] = old.stack[j]
        /\ ~run[i].state.in_string
        /\ run[i].state.expect = IF m = 1 THEN Complete ELSE NeedComma
    BY <2>5, <2>6
  <2>8. m - 1 = n - i /\ (m = 1 <=> i = n)
    BY <2>2
  <2>9. \A j \in 1..(n - i) : run[i].state.stack[j] = st.stack[j]
    <3>1. \A j \in 1..(n - i) : j \in 1..m /\ j \in 1..(m - 1)
      BY <2>2
    <3> QED BY <2>3, <2>7, <3>1
  <2>10. i < n => Closable(run[i].state)
    <3> SUFFICES ASSUME i < n PROVE Closable(run[i].state)
      OBVIOUS
    <3>1. m # 1
      BY <2>8
    <3>2. run[i].state.stack # << >>
      <4>1. Len(run[i].state.stack) # 0
        BY <2>2, <2>7, <3>1
      <4> QED BY <4>1
    <3> QED BY <2>7, <3>1, <3>2 DEF Closable
  <2> QED BY <2>1, <2>7, <2>8, <2>9, <2>10
<1>9. Good \in SUBSET (0..n)
  OBVIOUS
<1> HIDE DEF Good
<1>10. n \in Good
  <2>1. Good = 0..n
    BY <1>7, <1>8, <1>9, AtEveryPosition
  <2> QED BY <2>1
<1>11. ~run[n].bad /\ run[n].state.expect = Complete
  BY <1>10 DEF Good
<1> QED BY <1>4, <1>6, <1>11 DEF Finishes, s

\* A step that leaves the stack alone leaves the closers alone.
LEMMA SameClosers ==
    ASSUME NEW st, NEW next, next.stack = st.stack
    PROVE  Closers(next) = Closers(st) /\ Innermost(next) = Innermost(st)
BY DEF Closers, Innermost

\* Sequences of bytes, one byte taken off the front.
LEMMA FirstOff ==
    ASSUME NEW s \in Seq(Byte)
    PROVE  /\ << >> \o s = s
           /\ \A a, b \in Byte : <<a, b>> \o s = <<a>> \o (<<b>> \o s)
           /\ \A a, b, c, d \in Byte :
                  <<a, b, c, d>> \o s = <<a>> \o (<<b>> \o (<<c, d>> \o s))
           /\ \A a, b \in Byte : /\ <<a>> \o s \in Seq(Byte)
                                 /\ <<a, b>> \o s \in Seq(Byte)
           /\ \A a, b, c, d \in Byte : <<a, b, c, d>> \o s \in Seq(Byte)
<1>1. << >> \o s = s
  BY ConcatEmptySeq
<1>2. ASSUME NEW a \in Byte, NEW b \in Byte
      PROVE  /\ <<a>> \in Seq(Byte) /\ <<b>> \in Seq(Byte) /\ <<a, b>> \in Seq(Byte)
             /\ <<a>> \o <<b>> = <<a, b>>
  <2>1. <<a>> \o <<b>> = <<a, b>>
    BY PairOfTwo
  <2>2. <<a>> \in Seq(Byte) /\ <<b>> \in Seq(Byte) /\ <<a, b>> \in Seq(Byte)
    OBVIOUS
  <2> QED BY <2>1, <2>2
<1>3. ASSUME NEW a \in Byte, NEW b \in Byte
      PROVE  <<a, b>> \o s = <<a>> \o (<<b>> \o s)
  <2>1. (<<a>> \o <<b>>) \o s = <<a>> \o (<<b>> \o s)
    BY <1>2, ConcatAssociative
  <2> QED BY <1>2, <2>1
<1>4. ASSUME NEW t \in Seq(Byte) PROVE t \o s \in Seq(Byte)
  BY ConcatProperties
<1>5. ASSUME NEW a \in Byte, NEW b \in Byte, NEW c \in Byte, NEW d \in Byte
      PROVE  /\ <<a, b, c, d>> \in Seq(Byte)
             /\ <<a, b, c, d>> \o s = <<a>> \o (<<b>> \o (<<c, d>> \o s))
  <2> DEFINE ab == <<a, b>>
             cd == <<c, d>>
  <2>1. /\ <<a, b, c, d>> \in Seq(Byte) /\ ab \o cd = <<a, b, c, d>>
        /\ ab \in Seq(Byte) /\ cd \in Seq(Byte)
    <3>1. ab \o cd = <<a, b, c, d>>
      BY FourOfPairs
    <3>2. /\ <<a, b, c, d>> \in Seq(Byte)
          /\ ab \in Seq(Byte) /\ cd \in Seq(Byte)
      OBVIOUS
    <3> QED BY <3>1, <3>2
  <2>2. (ab \o cd) \o s = ab \o (cd \o s)
    BY <2>1, ConcatAssociative
  <2>3. cd \o s \in Seq(Byte)
    BY <1>4, <2>1
  <2>4. ab \o (cd \o s) = <<a>> \o (<<b>> \o (cd \o s))
    <3> DEFINE rest == cd \o s
    <3>1. (<<a>> \o <<b>>) \o rest = <<a>> \o (<<b>> \o rest)
      BY <1>2, <2>3, ConcatAssociative
    <3> QED BY <1>2, <3>1
  <2> QED BY <2>1, <2>2, <2>4
<1> QED BY <1>1, <1>2, <1>3, <1>4, <1>5

LEMMA ClosersTyped ==
    ASSUME NEW st, Sound(st)
    PROVE  /\ Closers(st) \in Seq(Byte)
           /\ st \in States
           /\ st.stack # << >> => Innermost(st) \in {"object", "array"}
<1>1. st \in States /\ st.stack \in Seq({"object", "array"})
  BY DEF Sound, SoundLanes, States
<1>2. PICK n \in Nat : n = Len(st.stack)
  BY <1>1
<1>3. \A j \in 1..n : st.stack[j] \in {"object", "array"}
  BY <1>1, <1>2
<1>4. Closers(st) = [i \in 1..n |-> Closer(st.stack[n + 1 - i])]
  BY <1>2 DEF Closers
<1>5. ASSUME NEW i \in 1..n PROVE Closer(st.stack[n + 1 - i]) \in Byte
  <2>1. n + 1 - i \in 1..n
    OBVIOUS
  <2> QED BY <1>3, <2>1 DEF Closer, Byte
<1>6. st.stack # << >> => Innermost(st) \in {"object", "array"}
  <2> SUFFICES ASSUME st.stack # << >> PROVE st.stack[n] \in {"object", "array"}
    BY <1>2 DEF Innermost
  <2>1. n # 0
    BY <1>1, <1>2
  <2>2. n \in 1..n
    BY <2>1
  <2> QED BY <1>3, <2>2
<1>7. Closers(st) \in Seq(Byte)
  BY <1>4, <1>5
<1> QED BY <1>1, <1>6, <1>7

\* One member more, and then the closers.
AwaitsValue(st) ==
    /\ st.stack # << >> /\ ~st.in_string
    /\ st.expect = NeedValue \/ (st.expect = Fresh /\ Innermost(st) = "array")

LEMMA ValueFinishes ==
    ASSUME NEW st, Sound(st), AwaitsValue(st)
    PROVE  Finishes(st, <<"1">> \o Closers(st))
<1> DEFINE clear == [st EXCEPT !.in_literal = FALSE]
           next == [clear EXCEPT !.expect = NeedComma, !.in_literal = TRUE,
                                 !.after_comma = FALSE]
<1>1. st \in States /\ Closers(st) \in Seq(Byte) /\ "1" \in Byte
  BY ClosersTyped DEF Byte
<1>2. /\ clear.stack = st.stack /\ clear.expect = st.expect
      /\ next.stack = st.stack /\ next.expect = NeedComma
      /\ next.in_string = st.in_string
  BY <1>1 DEF States
<1>3. StepByte(st, "1") = OpenLiteral(clear)
  <2>1. ~st.in_literal /\ ~st.in_string
    BY DEF Sound, Agree, AwaitsValue, NeedValue, Fresh, NeedComma
  <2>2. ~IsSpace("1") /\ StartsLiteral("1")
    BY DEF IsSpace, StartsLiteral
  <2>3. OpenToken(clear, "1") = OpenLiteral(clear)
    BY <2>2 DEF OpenToken
  <2> QED BY <2>1, <2>2, <2>3 DEF StepByte, StepToken
<1>4. Innermost(clear) = Innermost(st)
  BY <1>2, SameClosers
<1> HIDE DEF clear
<1>5. OpenLiteral(clear) = Ok(next)
  BY <1>2, <1>4 DEF OpenLiteral, AwaitsValue
<1> HIDE DEF next
<1>6. ~StepByte(st, "1").bad /\ StepByte(st, "1").state = next
  BY <1>3, <1>5 DEF Ok
<1>7. Sound(next) /\ Closable(next)
  BY <1>1, <1>2, <1>6, StepIsSound DEF AwaitsValue, Closable
<1>8. Finishes(next, Closers(next)) /\ Closers(next) = Closers(st)
  BY <1>2, <1>7, ClosersFinish, SameClosers
<1> QED BY <1>1, <1>6, <1>8, FinishesAfter

LEMMA ColonFinishes ==
    ASSUME NEW st, Sound(st), st.expect = NeedColon
    PROVE  Finishes(st, <<":", "1">> \o Closers(st))
<1> DEFINE clear == [st EXCEPT !.in_literal = FALSE]
           next == [clear EXCEPT !.expect = NeedValue, !.after_comma = FALSE]
<1>1. /\ st \in States /\ Closers(st) \in Seq(Byte)
      /\ "1" \in Byte /\ ":" \in Byte
  BY ClosersTyped DEF Byte
<1>2. /\ clear.expect = st.expect
      /\ next.stack = st.stack /\ next.expect = NeedValue
      /\ next.in_string = st.in_string
  BY <1>1 DEF States, NeedValue, Complete
<1>3. ~st.in_literal /\ ~st.in_string /\ st.stack # << >>
  BY DEF Sound, Agree, NeedColon, NeedValue, Fresh, NeedComma, Complete
<1>4. StepByte(st, ":") = Colon(clear)
  <2>1. ~IsSpace(":")
    BY DEF IsSpace
  <2>2. OpenToken(clear, ":") = Colon(clear)
    BY DEF OpenToken, StartsLiteral
  <2> QED BY <1>3, <2>1, <2>2 DEF StepByte, StepToken
<1> HIDE DEF clear
<1>5. Colon(clear) = Ok(next)
  BY <1>2 DEF Colon
<1> HIDE DEF next
<1>6. ~StepByte(st, ":").bad /\ StepByte(st, ":").state = next
  BY <1>4, <1>5 DEF Ok
<1>7. Sound(next) /\ AwaitsValue(next)
  BY <1>1, <1>2, <1>3, <1>6, StepIsSound DEF AwaitsValue
<1>8. Finishes(next, <<"1">> \o Closers(st))
  <2>1. Closers(next) = Closers(st)
    BY <1>2, SameClosers
  <2> QED BY <1>7, <2>1, ValueFinishes
<1>9. <<"1">> \o Closers(st) \in Seq(Byte)
      /\ <<":", "1">> \o Closers(st) = <<":">> \o (<<"1">> \o Closers(st))
  BY <1>1, FirstOff
<1> QED BY <1>1, <1>6, <1>8, <1>9, FinishesAfter

AtKey(st) == st.expect = Fresh /\ Innermost(st) = "object"

LEMMA KeyFinishes ==
    ASSUME NEW st, Sound(st), st.in_string, ~st.esc, AtKey(st)
    PROVE  Finishes(st, <<"quote">> \o (<<":", "1">> \o Closers(st)))
<1> DEFINE next == [st EXCEPT !.in_string = FALSE, !.expect = NeedColon]
<1>1. /\ st \in States /\ Closers(st) \in Seq(Byte)
      /\ "1" \in Byte /\ ":" \in Byte /\ "quote" \in Byte
  BY ClosersTyped DEF Byte
<1>2. next.stack = st.stack /\ next.expect = NeedColon
  BY <1>1 DEF States
<1>3. StepByte(st, "quote") = Ok(next)
  BY DEF StepByte, StepString, CloseString, AtKey
<1> HIDE DEF next
<1>4. ~StepByte(st, "quote").bad /\ StepByte(st, "quote").state = next
  BY <1>3 DEF Ok
<1>5. Sound(next)
  BY <1>1, <1>4, StepIsSound
<1>6. Finishes(next, <<":", "1">> \o Closers(st))
  <2>1. Closers(next) = Closers(st)
    BY <1>2, SameClosers
  <2> QED BY <1>2, <1>5, <2>1, ColonFinishes
<1>7. <<":", "1">> \o Closers(st) \in Seq(Byte)
  BY <1>1, FirstOff
<1> QED BY <1>1, <1>4, <1>6, <1>7, FinishesAfter

LEMMA StringFinishes ==
    ASSUME NEW st, Sound(st), st.stack # << >>, st.in_string, ~st.esc, ~AtKey(st)
    PROVE  Finishes(st, <<"quote">> \o Closers(st))
<1> DEFINE next == [st EXCEPT !.in_string = FALSE, !.expect = NeedComma]
<1>1. /\ st \in States /\ Closers(st) \in Seq(Byte) /\ "quote" \in Byte
      /\ Innermost(st) \in {"object", "array"}
  BY ClosersTyped DEF Byte
<1>2. /\ next.stack = st.stack /\ next.expect = NeedComma /\ ~next.in_string
  BY <1>1 DEF States
<1>3. StepByte(st, "quote") = Ok(next)
  BY <1>1 DEF StepByte, StepString, CloseString, AtKey
<1> HIDE DEF next
<1>4. ~StepByte(st, "quote").bad /\ StepByte(st, "quote").state = next
  BY <1>3 DEF Ok
<1>5. Sound(next) /\ Closable(next)
  BY <1>1, <1>2, <1>4, StepIsSound DEF Closable
<1>6. Finishes(next, Closers(next)) /\ Closers(next) = Closers(st)
  BY <1>2, <1>5, ClosersFinish, SameClosers
<1> QED BY <1>1, <1>4, <1>6, FinishesAfter

\* After a comma an object needs a member before it may close.
LEMMA MemberFinishes ==
    ASSUME NEW st, Sound(st), ~st.in_string, AtKey(st)
    PROVE  Finishes(st, <<"quote", "quote", ":", "1">> \o Closers(st))
<1> DEFINE clear == [st EXCEPT !.in_literal = FALSE]
           next == [clear EXCEPT !.in_string = TRUE, !.esc = FALSE,
                                 !.after_comma = FALSE]
           pair == <<":", "1">> \o Closers(st)
<1>1. /\ st \in States /\ Closers(st) \in Seq(Byte)
      /\ "1" \in Byte /\ ":" \in Byte /\ "quote" \in Byte
  BY ClosersTyped DEF Byte
<1>2. /\ clear.expect = st.expect
      /\ next.stack = st.stack /\ next.expect = st.expect
      /\ next.in_string /\ ~next.esc
  BY <1>1 DEF States
<1>3. StepByte(st, "quote") = OpenString(clear)
  <2>1. ~st.in_literal
    BY DEF Sound, Agree, AtKey, Fresh, NeedComma
  <2>2. ~IsSpace("quote")
    BY DEF IsSpace
  <2>3. OpenToken(clear, "quote") = OpenString(clear)
    BY DEF OpenToken, StartsLiteral
  <2> QED BY <2>1, <2>2, <2>3 DEF StepByte, StepToken
<1> HIDE DEF clear
<1>4. OpenString(clear) = Ok(next)
  BY <1>2 DEF OpenString, AtKey
<1> HIDE DEF next
<1>5. ~StepByte(st, "quote").bad /\ StepByte(st, "quote").state = next
  BY <1>3, <1>4 DEF Ok
<1>6. Sound(next)
  BY <1>1, <1>5, StepIsSound
<1>7. Closers(next) = Closers(st) /\ AtKey(next)
  BY <1>2, SameClosers DEF AtKey
<1>8. Finishes(next, <<"quote">> \o pair)
  BY <1>2, <1>6, <1>7, KeyFinishes
<1>9. /\ pair \in Seq(Byte)
      /\ <<"quote", "quote", ":", "1">> \o Closers(st)
             = <<"quote">> \o (<<"quote">> \o pair)
  BY <1>1, FirstOff
<1> HIDE DEF pair
<1>10. <<"quote">> \o pair \in Seq(Byte)
  BY <1>1, <1>9, FirstOff
<1> QED BY <1>1, <1>5, <1>8, <1>9, <1>10, FinishesAfter

\* Whatever is open within the root can be closed.
LEMMA OpenRootFinishes ==
    ASSUME NEW st, Sound(st), st.stack # << >>
    PROVE  Finishes(st, ClosingBytes(st))
<1> DEFINE rest == PairEnd(st) \o Closers(st)
<1>1. /\ st \in States /\ Closers(st) \in Seq(Byte)
      /\ Innermost(st) \in {"object", "array"}
      /\ {"quote", ":", "1", "n"} \subseteq Byte
  BY ClosersTyped DEF Byte
<1>2. << >> \o Closers(st) = Closers(st)
  BY <1>1, FirstOff
<1>3. CASE ~st.in_string
  <2>1. rest \in Seq(Byte) /\ Finishes(st, rest)
    <3>1. CASE st.expect = NeedColon
      <4>1. PairEnd(st) = <<":", "1">>
        BY <3>1 DEF PairEnd
      <4> QED BY <1>1, <3>1, <4>1, ColonFinishes, FirstOff
    <3>2. CASE AtKey(st) /\ st.after_comma
      <4>1. PairEnd(st) = <<"quote", "quote", ":", "1">>
        BY <1>3, <3>2 DEF PairEnd, AtKey, Fresh, NeedColon
      <4> QED BY <1>1, <1>3, <3>2, <4>1, MemberFinishes, FirstOff
    <3>3. CASE AwaitsValue(st)
      <4>1. PairEnd(st) = <<"1">>
        BY <1>3, <3>3 DEF PairEnd, AwaitsValue, Fresh, NeedColon, NeedValue
      <4> QED BY <1>1, <3>3, <4>1, ValueFinishes, FirstOff
    <3>4. CASE Closable(st)
      <4>1. PairEnd(st) = << >>
        BY <1>3, <3>4 DEF PairEnd, Closable, Fresh, NeedColon, NeedComma, NeedValue
      <4> QED BY <1>1, <1>2, <3>4, <4>1, ClosersFinish
    <3>5. st.expect \in {NeedValue, Fresh, NeedColon, NeedComma}
      <4>1. st.expect \in NeedValue..Complete /\ st.expect # Complete
        BY <1>1 DEF Sound, Agree, States
      <4> QED BY <4>1 DEF NeedValue, Fresh, NeedColon, NeedComma, Complete
    <3> QED BY <1>1, <1>3, <3>1, <3>2, <3>3, <3>4, <3>5
            DEF AtKey, AwaitsValue, Closable
  <2>2. ClosingBytes(st) = << >> \o rest
    BY <1>3 DEF ClosingBytes, StringEnd
  <2> HIDE DEF rest
  <2> QED BY <2>1, <2>2, FirstOff
\* A string is open, its last byte no backslash.
<1>4. ASSUME NEW x, Sound(x), x.stack = st.stack, x.expect = st.expect,
             x.in_string, ~x.esc, st.in_string
      PROVE  rest \in Seq(Byte) /\ Finishes(x, <<"quote">> \o rest)
  <2>1. Closers(x) = Closers(st) /\ Innermost(x) = Innermost(st)
    BY <1>4, SameClosers
  <2>2. CASE AtKey(st)
    <3>1. PairEnd(st) = <<":", "1">>
      BY <1>4, <2>2 DEF PairEnd, AtKey
    <3>2. AtKey(x)
      BY <1>4, <2>1, <2>2 DEF AtKey
    <3> QED BY <1>1, <1>4, <2>1, <3>1, <3>2, KeyFinishes, FirstOff
  <2>3. CASE ~AtKey(st)
    <3>1. PairEnd(st) = << >>
      <4>1. st.expect # NeedColon
        BY <1>4 DEF Sound, Agree, NeedColon, NeedValue, Fresh
      <4> QED BY <1>4, <2>3, <4>1 DEF PairEnd, AtKey
    <3>2. ~AtKey(x)
      BY <1>4, <2>1, <2>3 DEF AtKey
    <3> QED BY <1>1, <1>2, <1>4, <2>1, <3>1, <3>2, StringFinishes
  <2> QED BY <2>2, <2>3
<1>5. CASE st.in_string /\ ~st.esc
  <2>1. rest \in Seq(Byte) /\ Finishes(st, <<"quote">> \o rest)
    BY <1>4, <1>5
  <2>2. ClosingBytes(st) = (<< >> \o <<"quote">>) \o rest
    BY <1>5 DEF ClosingBytes, StringEnd
  <2>3. << >> \o <<"quote">> = <<"quote">>
    OBVIOUS
  <2> QED BY <2>1, <2>2, <2>3
<1>6. CASE st.in_string /\ st.esc
  <2> DEFINE next == [st EXCEPT !.esc = FALSE]
  <2>1. /\ next.stack = st.stack /\ next.expect = st.expect
        /\ next.in_string = st.in_string /\ ~next.esc
    BY <1>1 DEF States
  <2>2. StepByte(st, "n") = Ok(next)
    BY <1>6 DEF StepByte, StepString
  <2> HIDE DEF next
  <2>3. ~StepByte(st, "n").bad /\ StepByte(st, "n").state = next
    BY <2>2 DEF Ok
  <2>4. Sound(next)
    BY <1>1, <2>3, StepIsSound
  <2>5. rest \in Seq(Byte) /\ Finishes(next, <<"quote">> \o rest)
    BY <1>4, <1>6, <2>1, <2>4
  <2>6. ClosingBytes(st) = (<<"n">> \o <<"quote">>) \o rest
    BY <1>6 DEF ClosingBytes, StringEnd
  <2> HIDE DEF rest
  <2>7. (<<"n">> \o <<"quote">>) \o rest = <<"n">> \o (<<"quote">> \o rest)
    <3>1. "n" \in Byte /\ "quote" \in Byte
      BY <1>1
    <3>2. <<"n">> \o <<"quote">> = <<"n", "quote">>
      BY <3>1, PairOfTwo
    <3> QED BY <2>5, <3>1, <3>2, FirstOff
  <2>8. <<"quote">> \o rest \in Seq(Byte)
    BY <1>1, <2>5, FirstOff
  <2> QED BY <1>1, <2>3, <2>5, <2>6, <2>7, <2>8, FinishesAfter
<1> QED BY <1>3, <1>5, <1>6

\* Whatever was scanned, more bytes complete a document that is not at fault,
\* once its root is open: no state of the scanner is a dead end.
THEOREM ScannerTruncatedCouldFinish == Spec => []TruncatedCouldFinish
<1>1. Inv => TruncatedCouldFinish
  BY OpenRootFinishes DEF Inv, TypeOK, LanesAgree, Sound, TruncatedCouldFinish,
     Finishes
<1> QED BY <1>1, InitInv, NextInv, PTL DEF Spec

-----------------------------------------------------------------------------
(* Where a pair lies: the pass that locates it, position by position.       *)

Phases == {"key", "in_key", "colon", "value", "comma"}

LocateStates ==
    [phase : Phases, open : BOOLEAN,
     pair : Nat, key : Nat \X Nat, fkey : Nat \X Nat, value : Nat \X Nat,
     want : BOOLEAN, skipping : BOOLEAN, nest : Nat, instr : BOOLEAN,
     esc : BOOLEAN, done : BOOLEAN, oversize : BOOLEAN, bad : BOOLEAN]

LEMMA LocateSeedTyped == LocateSeed \in LocateStates
BY DEF LocateSeed, LocateStates, Phases

\* A value begins.
BeginMove(st, b, i, index, next) ==
    /\ next.phase = "comma" /\ next.skipping /\ ~next.esc
    /\ next.instr = (b = "quote") /\ next.want = (st.pair = index)
    /\ next.nest = IF IsOpener(b) THEN 1 ELSE 0
    /\ next.open = st.open /\ next.pair = st.pair /\ next.key = st.key
    /\ next.done = st.done /\ next.bad = st.bad
    /\ st.pair = index => next.fkey = st.key /\ next.value[1] = i
    /\ st.pair # index => /\ next.fkey = st.fkey /\ next.value = st.value
                          /\ next.oversize = st.oversize

LEMMA BeginValueFields ==
    ASSUME NEW st \in LocateStates, NEW b, NEW i \in Nat, NEW index \in Nat
    PROVE  /\ BeginValue(st, b, i, index) \in LocateStates
           /\ BeginMove(st, b, i, index, BeginValue(st, b, i, index))
<1> DEFINE next == BeginValue(st, b, i, index)
           want == st.pair = index
           fkey == IF want THEN st.key ELSE st.fkey
           value == IF want THEN <<i, st.value[2]>> ELSE st.value
           nest == IF IsOpener(b) THEN 1 ELSE 0
           instr == b = "quote"
           oversize == st.oversize \/ (want /\ st.key[2] - st.key[1] > MaxKey)
<1>1. /\ want \in BOOLEAN /\ fkey \in Nat \X Nat /\ value \in Nat \X Nat
      /\ nest \in Nat /\ instr \in BOOLEAN /\ oversize \in BOOLEAN
  <2>1. st.key \in Nat \X Nat /\ st.fkey \in Nat \X Nat /\ st.value \in Nat \X Nat
    BY DEF LocateStates, Phases
  <2> QED BY <2>1
<1>2. next =
          [st EXCEPT !.want = want, !.fkey = fkey, !.value = value,
                     !.skipping = TRUE, !.nest = nest, !.instr = instr,
                     !.esc = FALSE, !.phase = "comma", !.oversize = oversize]
  BY Zenon DEF BeginValue
<1>3. /\ want => fkey = st.key /\ value[1] = i
      /\ ~want => fkey = st.fkey /\ value = st.value /\ (oversize <=> st.oversize)
  OBVIOUS
<1> HIDE DEF want, fkey, value, nest, instr, oversize, next
<1>4. /\ next \in LocateStates
      /\ next.phase = "comma" /\ next.skipping = TRUE /\ next.esc = FALSE
      /\ next.instr = instr /\ next.want = want /\ next.nest = nest
      /\ next.open = st.open /\ next.pair = st.pair /\ next.key = st.key
      /\ next.done = st.done /\ next.bad = st.bad /\ next.oversize = oversize
      /\ next.fkey = fkey /\ next.value = value
  <2>1. next \in LocateStates
    <3> DEFINE first == [st EXCEPT !.want = want, !.fkey = fkey, !.value = value,
                                   !.skipping = TRUE]
    <3>1. next = [first EXCEPT !.nest = nest, !.instr = instr, !.esc = FALSE,
                               !.phase = "comma", !.oversize = oversize]
      BY <1>2, Zenon
    <3>2. first \in LocateStates
      BY <1>1 DEF LocateStates, Phases
    <3>3. "comma" \in Phases /\ nest \in Nat /\ instr \in BOOLEAN
          /\ oversize \in BOOLEAN
      BY <1>1 DEF Phases
    <3> HIDE DEF first
    <3> QED BY <3>1, <3>2, <3>3 DEF LocateStates
  <2>2. /\ next.phase = "comma" /\ next.skipping = TRUE /\ next.esc = FALSE
        /\ next.instr = instr /\ next.want = want /\ next.nest = nest
        /\ next.oversize = oversize /\ next.fkey = fkey /\ next.value = value
    BY <1>2 DEF LocateStates, Phases
  <2>3. /\ next.open = st.open /\ next.pair = st.pair /\ next.key = st.key
        /\ next.done = st.done /\ next.bad = st.bad
    BY <1>2 DEF LocateStates, Phases
  <2> QED BY <2>1, <2>2, <2>3
<1>5. next.instr = (b = "quote") /\ next.want = (st.pair = index)
      /\ next.nest = IF IsOpener(b) THEN 1 ELSE 0
  BY <1>4, Zenon DEF instr, want, nest
<1>6. st.oversize \in BOOLEAN
  BY DEF LocateStates, Phases
<1>7. next \in LocateStates /\ BeginMove(st, b, i, index, next)
  BY <1>1, <1>3, <1>4, <1>5, <1>6 DEF want, BeginMove
<1> QED BY <1>7 DEF next

\* A value ends.
EndMove(st, b, i, next) ==
    /\ ~next.skipping /\ next.done = st.want
    /\ next.open = st.open /\ next.key = st.key /\ next.fkey = st.fkey
    /\ next.want = st.want /\ next.nest = st.nest /\ next.instr = st.instr
    /\ next.esc = st.esc /\ next.bad = st.bad /\ next.oversize = st.oversize
    /\ st.want => next.value[1] = st.value[1] /\ next.value[2] = i
    /\ ~st.want => next.value = st.value
    /\ b = "," /\ ~st.want => next.phase = "key" /\ next.pair = st.pair + 1
    /\ ~(b = "," /\ ~st.want) => next.phase = st.phase /\ next.pair = st.pair

LEMMA EndValueFields ==
    ASSUME NEW st \in LocateStates, NEW b, NEW i \in Nat
    PROVE  /\ EndValue(st, b, i) \in LocateStates
           /\ EndMove(st, b, i, EndValue(st, b, i))
<1> DEFINE next == EndValue(st, b, i)
           separates == b = "," /\ ~st.want
           value == IF st.want THEN <<st.value[1], i>> ELSE st.value
           phase == IF separates THEN "key" ELSE st.phase
           pair == IF separates THEN st.pair + 1 ELSE st.pair
<1>1. /\ value \in Nat \X Nat /\ pair \in Nat
      /\ phase \in Phases
      /\ st.want \in BOOLEAN
  <2>1. st.value \in Nat \X Nat /\ st.pair \in Nat /\ st.want \in BOOLEAN
        /\ st.phase \in Phases
    BY DEF LocateStates, Phases
  <2>2. pair \in Nat
    <3>1. st.pair \in Nat /\ st.pair + 1 \in Nat
      BY <2>1
    <3> HIDE DEF separates
    <3> QED BY <3>1, Zenon
  <2>3. "key" \in Phases
    BY DEF Phases
  <2> HIDE DEF pair, separates
  <2>4. phase \in Phases
    BY <2>1, <2>3
  <2>5. value \in Nat \X Nat
    BY <2>1
  <2> HIDE DEF value, phase
  <2> QED BY <2>1, <2>2, <2>4, <2>5
<1>2. next =
          [st EXCEPT !.skipping = FALSE, !.value = value, !.done = st.want,
                     !.phase = phase, !.pair = pair]
  BY Zenon DEF EndValue
<1>3. /\ st.want => value[1] = st.value[1] /\ value[2] = i
      /\ ~st.want => value = st.value
      /\ separates => phase = "key" /\ pair = st.pair + 1
      /\ ~separates => phase = st.phase /\ pair = st.pair
  OBVIOUS
<1> HIDE DEF separates, value, phase, pair, next
<1>4. /\ next \in LocateStates
      /\ next.skipping = FALSE /\ next.done = st.want
      /\ next.open = st.open /\ next.key = st.key /\ next.fkey = st.fkey
      /\ next.want = st.want /\ next.nest = st.nest /\ next.instr = st.instr
      /\ next.esc = st.esc /\ next.bad = st.bad
      /\ next.oversize = st.oversize /\ next.value = value
      /\ next.phase = phase /\ next.pair = pair
  BY <1>1, <1>2 DEF LocateStates, Phases
<1>5. next \in LocateStates /\ EndMove(st, b, i, next)
  BY <1>3, <1>4 DEF separates, EndMove
<1> QED BY <1>5 DEF next

\* All but the fields a step names stay as they are.
Others(next, st, changed) ==
    /\ "phase" \notin changed => next.phase = st.phase
    /\ "open" \notin changed => next.open = st.open
    /\ "pair" \notin changed => next.pair = st.pair
    /\ "key" \notin changed => next.key = st.key
    /\ "nest" \notin changed => next.nest = st.nest
    /\ "instr" \notin changed => next.instr = st.instr
    /\ "esc" \notin changed => next.esc = st.esc
    /\ "bad" \notin changed => next.bad = st.bad
    /\ next.fkey = st.fkey /\ next.value = st.value /\ next.want = st.want
    /\ next.skipping = st.skipping /\ next.done = st.done
    /\ next.oversize = st.oversize

LEMMA WithinStringFields ==
    ASSUME NEW st \in LocateStates, NEW b, NEW next, next = WithinString(st, b)
    PROVE  /\ next \in LocateStates /\ Others(next, st, {"instr", "esc"})
           /\ next.instr <=> (st.esc \/ b # "quote")
           /\ next.esc <=> (b = "back" /\ ~st.esc)
<1> DEFINE instr == st.esc \/ b # "quote"
           esc == b = "back" /\ ~st.esc
<1>1. instr \in BOOLEAN /\ esc \in BOOLEAN
  OBVIOUS
<1>2. next = [st EXCEPT !.instr = instr, !.esc = esc]
  BY Zenon DEF WithinString
<1> HIDE DEF instr, esc
<1>3. /\ next \in LocateStates /\ Others(next, st, {"instr", "esc"})
      /\ next.instr = instr /\ next.esc = esc
  BY <1>1, <1>2 DEF LocateStates, Phases, Others
<1> QED BY <1>3 DEF instr, esc

LEMMA PlainFields ==
    ASSUME NEW st \in LocateStates, NEW next
    PROVE  /\ next = OpenedString(st) =>
                  /\ next \in LocateStates /\ Others(next, st, {"instr", "esc"})
                  /\ next.instr /\ ~next.esc
           /\ next = Misplaced(st) =>
                  /\ next \in LocateStates /\ next.bad
           /\ next = [st EXCEPT !.nest = @ + 1] =>
                  /\ next \in LocateStates /\ Others(next, st, {"nest"})
                  /\ next.nest = st.nest + 1
           /\ st.nest > 0 /\ next = [st EXCEPT !.nest = @ - 1] =>
                  /\ next \in LocateStates /\ Others(next, st, {"nest"})
                  /\ next.nest = st.nest - 1
           /\ next = [st EXCEPT !.open = TRUE] =>
                  /\ next \in LocateStates /\ Others(next, st, {"open"})
                  /\ next.open
           /\ next = [st EXCEPT !.open = FALSE] =>
                  /\ next \in LocateStates /\ Others(next, st, {"open"})
                  /\ ~next.open
           /\ next = [st EXCEPT !.phase = "value"] =>
                  /\ next \in LocateStates /\ Others(next, st, {"phase"})
                  /\ next.phase = "value"
           /\ next = [st EXCEPT !.phase = "key", !.pair = @ + 1] =>
                  /\ next \in LocateStates /\ Others(next, st, {"phase", "pair"})
                  /\ next.phase = "key" /\ next.pair = st.pair + 1
<1>1. next = OpenedString(st) =>
          /\ next \in LocateStates /\ Others(next, st, {"instr", "esc"})
          /\ next.instr /\ ~next.esc
  BY DEF LocateStates, Phases, Others, OpenedString
<1>2. next = Misplaced(st) => next \in LocateStates /\ next.bad
  BY DEF LocateStates, Phases, Misplaced
<1>3. next = [st EXCEPT !.nest = @ + 1] =>
          /\ next \in LocateStates /\ Others(next, st, {"nest"})
          /\ next.nest = st.nest + 1
  BY DEF LocateStates, Phases, Others
<1>4. st.nest > 0 /\ next = [st EXCEPT !.nest = @ - 1] =>
          /\ next \in LocateStates /\ Others(next, st, {"nest"})
          /\ next.nest = st.nest - 1
  <2> SUFFICES ASSUME st.nest > 0, next = [st EXCEPT !.nest = st.nest - 1]
               PROVE  /\ next \in LocateStates /\ Others(next, st, {"nest"})
                      /\ next.nest = st.nest - 1
    OBVIOUS
  <2>1. PICK m \in Nat : m = st.nest - 1
    BY DEF LocateStates, Phases
  <2>2. next = [st EXCEPT !.nest = m]
    BY <2>1
  <2> QED BY <2>1, <2>2 DEF LocateStates, Phases, Others
<1>5. next = [st EXCEPT !.open = TRUE] =>
          next \in LocateStates /\ Others(next, st, {"open"}) /\ next.open
  BY DEF LocateStates, Phases, Others
<1>6. next = [st EXCEPT !.open = FALSE] =>
          next \in LocateStates /\ Others(next, st, {"open"}) /\ ~next.open
  BY DEF LocateStates, Phases, Others
<1>7. next = [st EXCEPT !.phase = "value"] =>
          /\ next \in LocateStates /\ Others(next, st, {"phase"})
          /\ next.phase = "value"
  BY DEF LocateStates, Phases, Others
<1>8. next = [st EXCEPT !.phase = "key", !.pair = @ + 1] =>
          /\ next \in LocateStates /\ Others(next, st, {"phase", "pair"})
          /\ next.phase = "key" /\ next.pair = st.pair + 1
  <2>1. PICK m \in Nat : m = st.pair + 1
    BY DEF LocateStates
  <2>2. st.pair + 1 = m
    BY <2>1
  <2> SUFFICES ASSUME next = [st EXCEPT !.phase = "key", !.pair = m]
               PROVE  /\ next \in LocateStates
                      /\ Others(next, st, {"phase", "pair"})
                      /\ next.phase = "key" /\ next.pair = m
    BY <2>2
  <2> QED BY DEF LocateStates, Phases, Others
<1> QED BY <1>1, <1>2, <1>3, <1>4, <1>5, <1>6, <1>7, <1>8

Halted(st) == st.done \/ st.bad \/ st.oversize

\* A byte of a value.
SkipMove(st, b, i, next) ==
    \/ /\ st.instr /\ Others(next, st, {"instr", "esc"})
       /\ next.instr <=> (st.esc \/ b # "quote")
       /\ next.esc <=> (b = "back" /\ ~st.esc)
    \/ /\ ~st.instr /\ b = "quote" /\ Others(next, st, {"instr", "esc"})
       /\ next.instr /\ ~next.esc
    \/ /\ ~st.instr /\ IsOpener(b) /\ Others(next, st, {"nest"})
       /\ next.nest = st.nest + 1
    \/ /\ ~st.instr /\ IsCloser(b) /\ st.nest > 0 /\ Others(next, st, {"nest"})
       /\ next.nest = st.nest - 1
    \/ /\ ~st.instr /\ (IsCloser(b) \/ b = ",") /\ st.nest = 0
       /\ EndMove(st, b, i, next)
    \/ /\ ~st.instr /\ b # "quote" /\ ~IsOpener(b) /\ ~IsCloser(b)
       /\ b = "," => st.nest # 0
       /\ next = st

LEMMA SkipMoves ==
    ASSUME NEW st \in LocateStates, NEW b, NEW i \in Nat, NEW index \in Nat,
           ~Halted(st), st.skipping, NEW next, next = LocateStep(st, b, i, index)
    PROVE  next \in LocateStates /\ SkipMove(st, b, i, next)
<1>1. next = SkipStep(st, b, i)
  BY DEF LocateStep, Halted
<1>9. (st.nest > 0 => st.nest # 0) /\ (st.nest = 0 => ~(st.nest > 0))
      /\ (st.nest > 0 \/ st.nest = 0)
  <2>1. PICK m \in Nat : m = st.nest
    BY DEF LocateStates
  <2>2. (m > 0 => m # 0) /\ (m = 0 => ~(m > 0)) /\ (m > 0 \/ m = 0)
    OBVIOUS
  <2> QED BY <2>1, <2>2
<1>2. CASE st.instr
  <2>1. next = WithinString(st, b)
    BY <1>1, <1>2 DEF SkipStep
  <2> QED BY <1>2, <2>1, WithinStringFields DEF SkipMove
<1>3. CASE ~st.instr /\ b = "quote"
  <2>1. next = OpenedString(st)
    BY <1>1, <1>3 DEF SkipStep, IsOpener, IsCloser
  <2> QED BY <1>3, <2>1, PlainFields DEF SkipMove
<1>4. CASE ~st.instr /\ IsOpener(b)
  <2>1. next = [st EXCEPT !.nest = @ + 1]
    <3>1. b # "quote" /\ ~IsCloser(b) /\ b # ","
      BY <1>4 DEF IsOpener, IsCloser
    <3> QED BY <1>1, <1>4, <3>1, Zenon DEF SkipStep
  <2> QED BY <1>4, <2>1, PlainFields DEF SkipMove
<1>5. CASE ~st.instr /\ IsCloser(b) /\ st.nest > 0
  <2>1. next = [st EXCEPT !.nest = @ - 1]
    <3>1. b # "quote" /\ ~IsOpener(b)
      BY <1>5 DEF IsOpener, IsCloser
    <3> QED BY <1>1, <1>5, <1>9, <3>1, Zenon DEF SkipStep
  <2> QED BY <1>5, <2>1, PlainFields DEF SkipMove
<1>6. CASE ~st.instr /\ (IsCloser(b) \/ b = ",") /\ st.nest = 0
  <2>1. next = EndValue(st, b, i)
    <3>1. b # "quote" /\ ~IsOpener(b)
      BY <1>6 DEF IsOpener, IsCloser
    <3> QED BY <1>1, <1>6, <1>9, <3>1, Zenon DEF SkipStep
  <2>2. next \in LocateStates /\ EndMove(st, b, i, next)
    BY <2>1, EndValueFields
  <2> QED BY <1>6, <2>1, <2>2 DEF SkipMove
<1>7. CASE /\ ~st.instr /\ b # "quote" /\ ~IsOpener(b) /\ ~IsCloser(b)
           /\ b = "," => st.nest # 0
  <2>1. next = st
    BY <1>1, <1>7, Zenon DEF SkipStep
  <2> QED BY <1>7, <2>1 DEF SkipMove
<1> QED BY <1>2, <1>3, <1>4, <1>5, <1>6, <1>7, <1>9

\* A byte between values.
KeyMove(st, b, i, next) ==
    \/ /\ b = "quote" /\ ~st.esc /\ Others(next, st, {"phase", "instr", "key"})
       /\ next.phase = "colon" /\ ~next.instr
       /\ next.key[1] = st.key[1] /\ next.key[2] = i
    \/ /\ b # "quote" \/ st.esc
       /\ Others(next, st, {"instr", "esc"}) /\ next.instr
       /\ next.esc <=> (b = "back" /\ ~st.esc)

LEMMA KeyMoves ==
    ASSUME NEW st \in LocateStates, NEW b, NEW i \in Nat, NEW index \in Nat,
           ~Halted(st), ~st.skipping, st.instr,
           NEW next, next = LocateStep(st, b, i, index)
    PROVE  next \in LocateStates /\ KeyMove(st, b, i, next)
<1>1. next = InKey(st, b, i)
  BY DEF LocateStep, Halted
<1>2. CASE b = "quote" /\ ~st.esc
  <2>1. next = [st EXCEPT !.key = <<@[1], i>>, !.phase = "colon", !.instr = FALSE]
    BY <1>1, <1>2, Zenon DEF InKey
  <2> DEFINE key == <<st.key[1], i>>
  <2>2. key \in Nat \X Nat /\ key[1] = st.key[1] /\ key[2] = i
    <3>1. st.key[1] \in Nat
      BY DEF LocateStates
    <3> QED BY <3>1
  <2>3. next = [st EXCEPT !.key = key, !.phase = "colon", !.instr = FALSE]
    BY <2>1, Zenon
  <2> HIDE DEF key
  <2>4. /\ next \in LocateStates /\ Others(next, st, {"phase", "instr", "key"})
        /\ next.phase = "colon" /\ ~next.instr /\ next.key = key
    BY <2>2, <2>3 DEF LocateStates, Phases, Others
  <2> QED BY <1>2, <2>2, <2>4 DEF KeyMove
<1>3. CASE ~(b = "quote" /\ ~st.esc)
  <2>1. next = WithinString(st, b) /\ st.esc \in BOOLEAN
    BY <1>1, <1>3 DEF InKey, LocateStates
  <2> QED BY <1>3, <2>1, WithinStringFields DEF KeyMove
<1> QED BY <1>2, <1>3

TokenMove(st, b, i, index, next) ==
    \/ IsBlank(b) /\ next = st
    \/ next.bad
    \/ /\ st.phase = "value" /\ ~IsCloser(b) /\ b \notin {":", ","}
       /\ ~IsBlank(b) /\ BeginMove(st, b, i, index, next)
    \/ /\ b = "quote" /\ st.phase = "key" /\ st.open
       /\ Others(next, st, {"phase", "key", "instr", "esc"})
       /\ next.phase = "in_key" /\ next.instr /\ ~next.esc
       /\ next.key[1] = i + 1
    \/ /\ b = "{" /\ st.phase = "key" /\ ~st.open
       /\ Others(next, st, {"open"}) /\ next.open
    \/ /\ b = "}" /\ st.open /\ st.phase \in {"key", "comma"}
       /\ Others(next, st, {"open"}) /\ ~next.open
    \/ /\ b = ":" /\ st.phase = "colon"
       /\ Others(next, st, {"phase"}) /\ next.phase = "value"
    \/ /\ b = "," /\ st.phase = "comma" /\ Others(next, st, {"phase", "pair"})
       /\ next.phase = "key" /\ next.pair = st.pair + 1

LEMMA TokenMoves ==
    ASSUME NEW st \in LocateStates, NEW b, NEW i \in Nat, NEW index \in Nat,
           ~Halted(st), ~st.skipping, ~st.instr,
           NEW next, next = LocateStep(st, b, i, index)
    PROVE  next \in LocateStates /\ TokenMove(st, b, i, index, next)
<1>1. CASE IsBlank(b)
  <2>1. next = st
    BY <1>1 DEF LocateStep, Halted
  <2> QED BY <1>1, <2>1 DEF TokenMove
<1> SUFFICES ASSUME ~IsBlank(b)
             PROVE  next \in LocateStates /\ TokenMove(st, b, i, index, next)
  BY <1>1
<1>2. next = LocateToken(st, b, i, index)
  BY DEF LocateStep, Halted
<1>3. CASE st.phase = "value" /\ ~IsCloser(b) /\ b \notin {":", ","}
  <2>1. next = BeginValue(st, b, i, index)
    <3>1. ~(st.phase = "key") /\ ~(st.phase = "colon") /\ ~(st.phase = "comma")
      BY <1>3
    <3> QED BY <1>2, <1>3, <3>1, Zenon DEF LocateToken
  <2>2. next \in LocateStates /\ BeginMove(st, b, i, index, next)
    BY <2>1, BeginValueFields
  <2> QED BY <1>3, <2>1, <2>2 DEF TokenMove
<1>4. CASE b = "quote" /\ st.phase = "key" /\ st.open
  <2>1. next = [OpenedString(st) EXCEPT !.phase = "in_key", !.key = <<i + 1, @[2]>>]
    <3>1. ~IsCloser(b) /\ b # "{" /\ b # ":" /\ b # "," /\ ~(st.phase = "value")
      BY <1>4 DEF IsCloser
    <3> QED BY <1>2, <1>4, <3>1, Zenon DEF LocateToken
  <2> DEFINE opened == OpenedString(st)
             key == <<i + 1, opened.key[2]>>
  <2>2. opened \in LocateStates /\ Others(opened, st, {"instr", "esc"})
        /\ opened.instr /\ ~opened.esc
    BY PlainFields
  <2> HIDE DEF opened
  <2>3. key \in Nat \X Nat /\ key[1] = i + 1
    <3>1. opened.key[2] \in Nat
      BY <2>2 DEF LocateStates
    <3> QED BY <3>1
  <2>4. next = [opened EXCEPT !.phase = "in_key", !.key = key]
    BY <2>1, Zenon DEF opened
  <2> HIDE DEF key
  <2>5. /\ next \in LocateStates /\ Others(next, opened, {"phase", "key"})
        /\ next.phase = "in_key" /\ next.key = key
    BY <2>2, <2>3, <2>4 DEF LocateStates, Phases, Others
  <2>6. Others(next, st, {"phase", "key", "instr", "esc"}) /\ next.instr /\ ~next.esc
    BY <2>2, <2>5 DEF Others
  <2> QED BY <1>4, <2>3, <2>5, <2>6 DEF TokenMove
<1>5. CASE b = "{" /\ st.phase = "key" /\ ~st.open
  <2>1. next = [st EXCEPT !.open = TRUE]
    <3>1. ~IsCloser(b) /\ b # "quote" /\ b # ":" /\ b # "," /\ ~(st.phase = "value")
      BY <1>5 DEF IsCloser
    <3> QED BY <1>2, <1>5, <3>1, Zenon DEF LocateToken
  <2> QED BY <1>5, <2>1, PlainFields DEF TokenMove
<1>6. CASE IsCloser(b)
  <2>1. next = CloseRoot(st, b)
    <3>1. b # "quote" /\ b # ":" /\ b # "," /\ b # "{"
      BY <1>6 DEF IsCloser
    <3> QED BY <1>2, <1>6, <3>1, Zenon DEF LocateToken
  <2>2. CASE b = "}" /\ st.open /\ st.phase \in {"key", "comma"}
    <3>1. next = [st EXCEPT !.open = FALSE]
      BY <2>1, <2>2 DEF CloseRoot
    <3> QED BY <2>2, <3>1, PlainFields DEF TokenMove
  <2>3. CASE ~(b = "}" /\ st.open /\ st.phase \in {"key", "comma"})
    <3>1. next = Misplaced(st)
      BY <2>1, <2>3 DEF CloseRoot
    <3> QED BY <3>1, PlainFields DEF TokenMove
  <2> QED BY <2>2, <2>3
<1>7. CASE b = ":" /\ st.phase = "colon"
  <2>1. next = [st EXCEPT !.phase = "value"]
    <3>1. ~IsCloser(b) /\ b # "quote" /\ b # "{" /\ b # "," /\ ~(st.phase = "value")
      BY <1>7 DEF IsCloser
    <3> QED BY <1>2, <1>7, <3>1, Zenon DEF LocateToken
  <2> QED BY <1>7, <2>1, PlainFields DEF TokenMove
<1>8. CASE b = "," /\ st.phase = "comma"
  <2>1. next = [st EXCEPT !.phase = "key", !.pair = @ + 1]
    <3>1. ~IsCloser(b) /\ b # "quote" /\ b # "{" /\ b # ":" /\ ~(st.phase = "value")
      BY <1>8 DEF IsCloser
    <3> QED BY <1>2, <1>8, <3>1, Zenon DEF LocateToken
  <2> QED BY <1>8, <2>1, PlainFields DEF TokenMove
<1>9. CASE /\ ~(st.phase = "value" /\ ~IsCloser(b) /\ b \notin {":", ","})
           /\ ~(b = "quote" /\ st.phase = "key" /\ st.open)
           /\ ~(b = "{" /\ st.phase = "key" /\ ~st.open)
           /\ ~IsCloser(b) /\ ~(b = ":" /\ st.phase = "colon")
           /\ ~(b = "," /\ st.phase = "comma")
  <2>1. next = Misplaced(st)
    BY <1>2, <1>9, Zenon DEF LocateToken
  <2> QED BY <2>1, PlainFields DEF TokenMove
<1> QED BY <1>3, <1>4, <1>5, <1>6, <1>7, <1>8, <1>9

LEMMA LocateStepTyped ==
    ASSUME NEW st \in LocateStates, NEW b, NEW i \in Nat, NEW index \in Nat
    PROVE  LocateStep(st, b, i, index) \in LocateStates
<1> DEFINE next == LocateStep(st, b, i, index)
<1> HIDE DEF next
<1>1. next = LocateStep(st, b, i, index)
  BY DEF next
<1>2. CASE Halted(st)
  BY <1>1, <1>2 DEF LocateStep, Halted
<1>3. CASE ~Halted(st)
  <2>1. CASE st.skipping
    BY <1>1, <1>3, <2>1, SkipMoves
  <2>2. CASE ~st.skipping /\ st.instr
    BY <1>1, <1>3, <2>2, KeyMoves
  <2>3. CASE ~st.skipping /\ ~st.instr
    BY <1>1, <1>3, <2>3, TokenMoves
  <2> QED BY <1>1, <2>1, <2>2, <2>3
<1> QED BY <1>1, <1>2, <1>3

\* The pass for one index, position by position.
LocatesAs(run, s, index) ==
    /\ run \in [0..Len(s) -> LocateStates] /\ run[0] = LocateSeed
    /\ \A i \in 1..Len(s) : run[i] = LocateStep(run[i - 1], s[i], i - 1, index)

\* What LocatePair makes of the pass's last state.
LocatedBy(st) ==
    [status |-> CASE st.bad                  -> "malformed"
                  [] ~st.bad /\ st.oversize  -> "overlong"
                  [] OTHER -> IF st.done THEN "ok" ELSE "end",
     key |-> st.fkey, value |-> st.value]

LEMMA LocateRuns ==
    ASSUME NEW S, NEW s \in Seq(S), NEW index \in Nat
    PROVE  \E run : /\ LocatesAs(run, s, index)
                    /\ LocatePair(s, index) = LocatedBy(run[Len(s)])
<1>1. PICK n \in Nat : n = Len(s) /\ DOMAIN s = 1..n
  OBVIOUS
<1> DEFINE V == LocateStates
           first == LocateSeed
           places == [i \in DOMAIN s |-> i]
           Recurs(f) ==
               f = [T \in SUBSET (1..n) |->
                       IF T = {} THEN first
                       ELSE LocateStep(f[T \ {Max(T)}], s[places[Max(T)]],
                                       places[Max(T)] - 1, index)]
           step == [i \in 1..n |-> [v \in V |-> LocateStep(v, s[i], i - 1, index)]]
           last == FoldLeftDomain(
                       LAMBDA st, i : LocateStep(st, s[i], i - 1, index),
                       LocateSeed, s)
<1>2. \A i \in 1..n : \A v \in V :
          /\ step[i][v] = LocateStep(v, s[i], i - 1, index)
          /\ step[i][v] \in V
  <2>1. ASSUME NEW i \in 1..n, NEW v \in V
        PROVE  LocateStep(v, s[i], i - 1, index) \in V
    <3>1. i - 1 \in Nat
      OBVIOUS
    <3> QED BY <3>1, LocateStepTyped
  <2> QED BY <2>1
<1>3. first \in V
  BY LocateSeedTyped
<1>4. DOMAIN places = 1..n /\ \A i \in 1..n : places[i] = i
  BY <1>1
<1>5. LocatePair(s, index) = LocatedBy(last)
  BY DEF LocatePair, LocatedBy
<1>6. last = (CHOOSE f : Recurs(f))[1..n]
  <2>1. last = FoldLeft(LAMBDA st, i : LocateStep(st, s[i], i - 1, index),
                        LocateSeed, places)
    BY DEF FoldLeftDomain
  <2> HIDE DEF places, last
  <2> QED BY <1>4, <2>1 DEF FoldLeft, MapThenFoldSet
<1> HIDE DEF step, V, first, places, last
<1>7. PICK f : FoldOf(f, n, V, first, step)
  BY <1>2, <1>3, SetRecursion
<1>8. \E h : Recurs(h)
  <2>1. ASSUME NEW T \in SUBSET (1..n), T # {}
        PROVE  step[Max(T)][f[T \ {Max(T)}]]
                 = LocateStep(f[T \ {Max(T)}], s[places[Max(T)]],
                              places[Max(T)] - 1, index)
    <3>1. Max(T) \in 1..n /\ f[T \ {Max(T)}] \in V
      BY <1>7, <2>1, MaxOfPositions DEF FoldOf
    <3> QED BY <1>2, <1>4, <3>1
  <2>2. Recurs(f)
    BY <1>7, <2>1 DEF FoldOf
  <2> QED BY <2>2
<1>9. PICK g : Recurs(g) /\ last = g[1..n]
  <2> HIDE DEF Recurs
  <2> QED BY <1>6, <1>8
<1>10. FoldsIn(g, n, V, first, step)
  <2>1. ASSUME NEW T \in (SUBSET (1..n)) \ {{}}, g[T \ {Max(T)}] \in V
        PROVE  g[T] = step[Max(T)][g[T \ {Max(T)}]]
    <3>1. Max(T) \in 1..n
      BY MaxOfPositions
    <3>2. g[T] = LocateStep(g[T \ {Max(T)}], s[places[Max(T)]],
                            places[Max(T)] - 1, index)
      BY <1>9
    <3> QED BY <1>2, <1>4, <2>1, <3>1, <3>2
  <2>2. g[{}] = first
    BY <1>9
  <2> QED BY <2>1, <2>2 DEF FoldsIn
<1> HIDE DEF Recurs
<1>11. PICK run \in [0..n -> V] :
          /\ run[0] = first /\ g[1..n] = run[n]
          /\ \A i \in 1..n : run[i] = step[i][run[i - 1]]
  BY <1>2, <1>3, <1>10, FoldRuns
<1>12. ASSUME NEW i \in 1..n
       PROVE  run[i] = LocateStep(run[i - 1], s[i], i - 1, index)
  <2>1. i - 1 \in 0..n
    OBVIOUS
  <2>2. run[i - 1] \in V
    BY <2>1
  <2> QED BY <1>2, <1>11, <2>2
<1>13. LocatesAs(run, s, index)
  BY <1>1, <1>11, <1>12 DEF LocatesAs, V, first
<1> QED BY <1>1, <1>5, <1>9, <1>11, <1>13

\* Where a pass has got to after i bytes: a key lies before what follows it,
\* and the value after it.
InOrder(st, i) ==
    /\ st.instr /\ ~st.skipping => st.phase = "in_key"
    /\ st.skipping => st.phase = "comma"
    /\ st.phase = "in_key" => st.key[1] <= i
    /\ st.phase = "colon" => st.key[1] <= st.key[2] /\ st.key[2] < i
    /\ st.phase = "value" => st.key[1] <= st.key[2] /\ st.key[2] + 2 <= i
    /\ st.want => st.skipping \/ st.done
    /\ st.want /\ st.skipping =>
           /\ st.fkey[1] <= st.fkey[2] /\ st.fkey[2] + 2 <= st.value[1]
           /\ st.value[1] < i
    /\ st.done =>
           /\ st.fkey[1] <= st.fkey[2] /\ st.fkey[2] + 2 <= st.value[1]
           /\ st.value[1] < st.value[2] /\ st.value[2] < i

Numbers(st) ==
    /\ st.pair \in Nat /\ st.nest \in Nat
    /\ st.key[1] \in Nat /\ st.key[2] \in Nat
    /\ st.fkey[1] \in Nat /\ st.fkey[2] \in Nat
    /\ st.value[1] \in Nat /\ st.value[2] \in Nat
    /\ st.want \in BOOLEAN /\ st.skipping \in BOOLEAN /\ st.instr \in BOOLEAN
    /\ st.done \in BOOLEAN /\ st.esc \in BOOLEAN

LEMMA NumbersTyped == \A st \in LocateStates : Numbers(st)
BY DEF LocateStates, Numbers

LEMMA StepKeepsOrder ==
    ASSUME NEW st \in LocateStates, NEW b, NEW i \in Nat, NEW index \in Nat,
           InOrder(st, i),
           NEW next, next = LocateStep(st, b, i, index), ~next.bad
    PROVE  InOrder(next, i + 1)
<1>1. next \in LocateStates /\ Numbers(st) /\ Numbers(next)
  BY LocateStepTyped, NumbersTyped
<1>2. CASE Halted(st)
  <2>1. next = st
    BY <1>2 DEF LocateStep, Halted
  <2> QED BY <1>1, <2>1 DEF InOrder, Numbers
<1>3. CASE ~Halted(st) /\ st.skipping
  <2>1. SkipMove(st, b, i, next)
    BY <1>3, SkipMoves
  <2>2. CASE ~st.instr /\ EndMove(st, b, i, next)
    <3>1. /\ ~next.skipping /\ next.done = st.want
          /\ next.key = st.key /\ next.fkey = st.fkey
          /\ next.want = st.want /\ next.instr = st.instr
          /\ st.want => next.value[1] = st.value[1] /\ next.value[2] = i
          /\ next.phase = "key" \/ next.phase = st.phase
      BY <2>2 DEF EndMove
    <3>2. st.phase = "comma" /\ (st.want =>
              /\ st.fkey[1] <= st.fkey[2] /\ st.fkey[2] + 2 <= st.value[1]
              /\ st.value[1] < i)
      BY <1>3 DEF InOrder
    <3>3. next.phase \in {"key", "comma"} /\ ~next.instr /\ ~next.skipping
          /\ (next.want => next.done)
      BY <2>2, <3>1, <3>2
    <3>4. next.done => /\ next.fkey[1] <= next.fkey[2]
                       /\ next.fkey[2] + 2 <= next.value[1]
                       /\ next.value[1] < next.value[2] /\ next.value[2] < i + 1
      BY <1>1, <3>1, <3>2 DEF Numbers
    <3> QED BY <3>3, <3>4 DEF InOrder
  <2>3. CASE ~(~st.instr /\ EndMove(st, b, i, next))
    <3>1. Others(next, st, {"instr", "esc"}) \/ Others(next, st, {"nest"})
          \/ next = st
      BY <2>1, <2>3 DEF SkipMove
    <3>2. /\ next.phase = st.phase /\ next.key = st.key /\ next.fkey = st.fkey
          /\ next.value = st.value /\ next.want = st.want
          /\ next.skipping = st.skipping /\ next.done = st.done
      BY <3>1 DEF Others
    <3> QED BY <1>1, <1>3, <3>2 DEF InOrder, Numbers
  <2> QED BY <2>2, <2>3
<1>4. CASE ~Halted(st) /\ ~st.skipping /\ st.instr
  <2>1. KeyMove(st, b, i, next)
    BY <1>4, KeyMoves
  <2>2. st.phase = "in_key" /\ st.key[1] <= i /\ ~st.want /\ ~st.done
    BY <1>4 DEF InOrder, Halted
  <2>3. CASE b = "quote" /\ ~st.esc
    <3>1. /\ next.phase = "colon" /\ ~next.instr /\ ~next.skipping
          /\ next.key[1] = st.key[1] /\ next.key[2] = i
          /\ ~next.want /\ ~next.done
      BY <1>4, <2>1, <2>2, <2>3 DEF KeyMove, Others
    <3> QED BY <1>1, <2>2, <3>1 DEF InOrder, Numbers
  <2>4. CASE ~(b = "quote" /\ ~st.esc)
    <3>1. /\ next.phase = st.phase /\ next.key = st.key /\ ~next.skipping
          /\ ~next.want /\ ~next.done
      BY <1>4, <2>1, <2>2, <2>4 DEF KeyMove, Others
    <3> QED BY <1>1, <2>2, <3>1 DEF InOrder, Numbers
  <2> QED BY <2>3, <2>4
<1>5. CASE ~Halted(st) /\ ~st.skipping /\ ~st.instr
  <2>1. TokenMove(st, b, i, index, next)
    BY <1>5, TokenMoves
  <2>2. ~st.want /\ ~st.done
    BY <1>5 DEF InOrder, Halted
  <2>3. CASE next = st
    BY <1>1, <1>5, <2>2, <2>3 DEF InOrder, Numbers
  <2>4. CASE st.phase = "value" /\ BeginMove(st, b, i, index, next)
    <3>1. /\ next.phase = "comma" /\ next.skipping
          /\ next.want = (st.pair = index) /\ next.done = st.done
          /\ st.pair = index => next.fkey = st.key /\ next.value[1] = i
      BY <2>4 DEF BeginMove
    <3>2. st.key[1] <= st.key[2] /\ st.key[2] + 2 <= i
      BY <2>4 DEF InOrder
    <3>3. next.want => /\ next.fkey[1] <= next.fkey[2]
                       /\ next.fkey[2] + 2 <= next.value[1]
                       /\ next.value[1] < i + 1
      <4> SUFFICES ASSUME st.pair = index
                   PROVE  /\ next.fkey[1] <= next.fkey[2]
                          /\ next.fkey[2] + 2 <= next.value[1]
                          /\ next.value[1] < i + 1
        BY <3>1
      <4>1. next.fkey = st.key /\ next.value[1] = i
        BY <3>1
      <4> QED BY <1>1, <3>2, <4>1 DEF Numbers
    <3> QED BY <2>2, <3>1, <3>3 DEF InOrder
  <2>5. CASE /\ Others(next, st, {"phase", "key", "instr", "esc"})
             /\ next.phase = "in_key" /\ next.key[1] = i + 1
    <3>1. ~next.want /\ ~next.done /\ ~next.skipping /\ next.key[1] <= i + 1
      BY <1>1, <1>5, <2>2, <2>5 DEF Others, Numbers
    <3> QED BY <2>5, <3>1 DEF InOrder
  <2>6. CASE Others(next, st, {"open"})
    <3>1. /\ next.phase = st.phase /\ next.key = st.key /\ ~next.skipping
          /\ ~next.want /\ ~next.done /\ ~next.instr
      BY <1>5, <2>2, <2>6 DEF Others
    <3>2. /\ st.phase = "in_key" => st.key[1] <= i
          /\ st.phase = "colon" => st.key[1] <= st.key[2] /\ st.key[2] < i
          /\ st.phase = "value" => st.key[1] <= st.key[2] /\ st.key[2] + 2 <= i
      BY DEF InOrder
    <3> QED BY <1>1, <3>1, <3>2 DEF InOrder, Numbers
  <2>7. CASE /\ st.phase = "colon" /\ Others(next, st, {"phase"})
             /\ next.phase = "value"
    <3>1. /\ next.key = st.key /\ ~next.skipping /\ ~next.want /\ ~next.done
          /\ ~next.instr
      BY <1>5, <2>2, <2>7 DEF Others
    <3>2. st.key[1] <= st.key[2] /\ st.key[2] < i
      BY <2>7 DEF InOrder
    <3>3. next.key[1] <= next.key[2] /\ next.key[2] + 2 <= i + 1
      BY <1>1, <3>1, <3>2 DEF Numbers
    <3> QED BY <2>7, <3>1, <3>3 DEF InOrder
  <2>8. CASE Others(next, st, {"phase", "pair"}) /\ next.phase = "key"
    <3>1. ~next.skipping /\ ~next.want /\ ~next.done /\ ~next.instr
      BY <1>5, <2>2, <2>8 DEF Others
    <3> QED BY <2>8, <3>1 DEF InOrder
  <2> QED BY <2>1, <2>3, <2>4, <2>5, <2>6, <2>7, <2>8 DEF TokenMove
<1> QED BY <1>2, <1>3, <1>4, <1>5

LEMMA RunInOrder ==
    ASSUME NEW S, NEW s \in Seq(S), NEW index \in Nat,
           NEW run, LocatesAs(run, s, index)
    PROVE  \A i \in 0..Len(s) : run[i].bad \/ InOrder(run[i], i)
<1>1. PICK n \in Nat : n = Len(s)
  OBVIOUS
<1>2. /\ run \in [0..n -> LocateStates] /\ run[0] = LocateSeed
      /\ \A i \in 1..n : run[i] = LocateStep(run[i - 1], s[i], i - 1, index)
  BY <1>1 DEF LocatesAs
<1> DEFINE Good == {i \in 0..n : run[i].bad \/ InOrder(run[i], i)}
<1>3. 0 \in Good
  BY <1>2 DEF InOrder, LocateSeed
<1>4. ASSUME NEW i \in 1..n, i - 1 \in Good PROVE i \in Good
  <2>1. i - 1 \in 0..n /\ i - 1 \in Nat /\ (i - 1) + 1 = i /\ i \in 0..n
    OBVIOUS
  <2>2. run[i - 1] \in LocateStates
    BY <1>2, <2>1
  <2>3. run[i] = LocateStep(run[i - 1], s[i], i - 1, index)
    BY <1>2
  <2>4. CASE run[i - 1].bad
    <3>1. run[i] = run[i - 1]
      BY <2>3, <2>4 DEF LocateStep
    <3> QED BY <2>1, <2>4, <3>1
  <2>5. CASE InOrder(run[i - 1], i - 1)
    <3>1. run[i].bad \/ InOrder(run[i], (i - 1) + 1)
      BY <2>1, <2>2, <2>3, <2>5, StepKeepsOrder
    <3> QED BY <2>1, <3>1
  <2> QED BY <1>4, <2>4, <2>5
<1>5. Good \in SUBSET (0..n)
  OBVIOUS
<1> HIDE DEF Good
<1>6. Good = 0..n
  BY <1>3, <1>4, <1>5, AtEveryPosition
<1> QED BY <1>1, <1>6 DEF Good

-----------------------------------------------------------------------------
(* The passes for an index and for the next one, side by side: the same      *)
(* until the first finds its value, then both skip it, and what the second  *)
(* finds lies behind it.                                                    *)

Before(a, b, k) ==
    /\ a = b /\ ~a.want /\ ~a.done /\ a.pair <= k
    /\ a.phase = "comma" => a.pair < k
    /\ a.skipping => a.phase = "comma"

During(a, b) ==
    /\ a.want /\ ~a.done /\ ~b.want /\ ~b.done
    /\ a.skipping /\ b.skipping /\ a.phase = "comma" /\ b.phase = "comma"
    /\ a.nest = b.nest /\ a.instr = b.instr /\ a.esc = b.esc
    /\ ~b.bad /\ ~b.oversize

Behind(b, e) ==
    /\ b.phase \in {"in_key", "colon", "value"} => b.key[1] > e + 1
    /\ b.want => b.fkey[1] > e + 1
    /\ b.instr /\ ~b.skipping => b.phase = "in_key"
    /\ b.done => b.want

SideBySide(a, b, k, i) ==
    \/ a.bad \/ a.oversize \/ b.bad \/ b.oversize
    \/ Before(a, b, k)
    \/ During(a, b)
    \/ a.done /\ a.value[2] < i /\ Behind(b, a.value[2])

LEMMA HaltedStays ==
    ASSUME NEW st, NEW b, NEW i, NEW index, Halted(st)
    PROVE  LocateStep(st, b, i, index) = st
BY DEF LocateStep, Halted

LEMMA BehindStays ==
    ASSUME NEW st \in LocateStates, NEW b, NEW i \in Nat, NEW index \in Nat,
           NEW e \in Nat, e < i, Behind(st, e),
           NEW next, next = LocateStep(st, b, i, index), ~next.bad
    PROVE  Behind(next, e)
<1>1. next \in LocateStates /\ Numbers(st) /\ Numbers(next)
  BY LocateStepTyped, NumbersTyped
<1>2. CASE Halted(st)
  <2>1. next = st
    BY <1>2, HaltedStays
  <2> QED BY <2>1
<1>3. CASE ~Halted(st) /\ st.skipping
  <2>1. SkipMove(st, b, i, next)
    BY <1>3, SkipMoves
  <2>2. CASE ~st.instr /\ EndMove(st, b, i, next)
    <3>1. /\ next.key = st.key /\ next.fkey = st.fkey /\ ~next.instr
          /\ next.want = st.want /\ next.done = st.want
          /\ next.phase = "key" \/ next.phase = st.phase
      BY <2>2 DEF EndMove
    <3> QED BY <1>1, <3>1 DEF Behind, Numbers
  <2>3. CASE ~(~st.instr /\ EndMove(st, b, i, next))
    <3>1. Others(next, st, {"instr", "esc"}) \/ Others(next, st, {"nest"})
          \/ next = st
      BY <2>1, <2>3 DEF SkipMove
    <3>2. /\ next.phase = st.phase /\ next.key = st.key /\ next.fkey = st.fkey
          /\ next.want = st.want
          /\ next.skipping = st.skipping /\ next.done = st.done
      BY <3>1 DEF Others
    <3> QED BY <1>1, <1>3, <3>2 DEF Behind, Numbers
  <2> QED BY <2>2, <2>3
<1>4. CASE ~Halted(st) /\ ~st.skipping /\ st.instr
  <2>1. KeyMove(st, b, i, next)
    BY <1>4, KeyMoves
  <2>2. st.phase = "in_key" /\ st.key[1] > e + 1
    BY <1>4 DEF Behind
  <2>3. next.key[1] = st.key[1] /\ next.fkey = st.fkey /\ next.want = st.want
        /\ next.done = st.done /\ next.skipping = st.skipping
        /\ (next.instr => next.phase = "in_key")
    BY <1>1, <2>1, <2>2 DEF KeyMove, Others, Numbers
  <2> QED BY <1>1, <2>2, <2>3 DEF Behind, Numbers
<1>5. CASE ~Halted(st) /\ ~st.skipping /\ ~st.instr
  <2>1. TokenMove(st, b, i, index, next)
    BY <1>5, TokenMoves
  <2>2. CASE next = st
    BY <2>2
  <2>3. CASE st.phase = "value" /\ BeginMove(st, b, i, index, next)
    <3>1. /\ next.phase = "comma" /\ next.skipping
          /\ next.want = (st.pair = index) /\ next.done = st.done
          /\ st.pair = index => next.fkey = st.key
      BY <2>3 DEF BeginMove
    <3>2. st.key[1] > e + 1 /\ ~st.done
      BY <1>5, <2>3 DEF Behind, Halted
    <3> QED BY <3>1, <3>2 DEF Behind
  <2>4. CASE /\ Others(next, st, {"phase", "key", "instr", "esc"})
             /\ next.phase = "in_key" /\ next.key[1] = i + 1
    <3>1. next.key[1] > e + 1
      BY <2>4
    <3>2. next.fkey = st.fkey /\ next.want = st.want /\ next.done = st.done
      BY <2>4 DEF Others
    <3> QED BY <2>4, <3>1, <3>2 DEF Behind
  <2>5. CASE Others(next, st, {"open"})
    BY <1>1, <2>5 DEF Behind, Others, Numbers
  <2>6. CASE /\ st.phase = "colon" /\ Others(next, st, {"phase"})
             /\ next.phase = "value"
    BY <1>1, <1>5, <2>6 DEF Behind, Others, Numbers
  <2>7. CASE Others(next, st, {"phase", "pair"}) /\ next.phase = "key"
    BY <1>1, <1>5, <2>7 DEF Behind, Others, Numbers
  <2> QED BY <2>1, <2>2, <2>3, <2>4, <2>5, <2>6, <2>7 DEF TokenMove
<1> QED BY <1>2, <1>3, <1>4, <1>5

\* Which index is sought makes no difference until a value begins.
LEMMA TokenIgnoresIndex ==
    ASSUME NEW st, NEW b, NEW i, NEW j, NEW k,
           ~(st.phase = "value" /\ ~IsCloser(b) /\ b \notin {":", ","})
    PROVE  LocateToken(st, b, i, j) = LocateToken(st, b, i, k)
<1> DEFINE Begins == st.phase = "value" /\ ~IsCloser(b) /\ b \notin {":", ","}
           key == b = "quote" /\ st.phase = "key" /\ st.open
           root == b = "{" /\ st.phase = "key" /\ ~st.open
           closer == IsCloser(b)
           colon == b = ":" /\ st.phase = "colon"
           comma == b = "," /\ st.phase = "comma"
           opened == [OpenedString(st) EXCEPT !.phase = "in_key",
                                              !.key = <<i + 1, @[2]>>]
           rooted == [st EXCEPT !.open = TRUE]
           closed == CloseRoot(st, b)
           valued == [st EXCEPT !.phase = "value"]
           next == [st EXCEPT !.phase = "key", !.pair = @ + 1]
           missed == Misplaced(st)
<1>1. \A m : LocateToken(st, b, i, m) =
          CASE Begins -> BeginValue(st, b, i, m) [] key -> opened [] root -> rooted
            [] closer -> closed [] colon -> valued [] comma -> next
            [] OTHER -> missed
  BY DEF LocateToken
<1>2. /\ ~Begins
      /\ key => ~root /\ ~closer /\ ~colon /\ ~comma
      /\ root => ~closer /\ ~colon /\ ~comma
      /\ closer => ~colon /\ ~comma
      /\ colon => ~comma
  BY DEF IsCloser
<1> HIDE DEF Begins, key, root, closer, colon, comma, opened, rooted, closed,
         valued, next, missed
<1>3. CASE key
  BY <1>1, <1>2, <1>3, Zenon
<1>4. CASE root
  BY <1>1, <1>2, <1>4, Zenon
<1>5. CASE closer
  BY <1>1, <1>2, <1>5, Zenon
<1>6. CASE colon
  BY <1>1, <1>2, <1>6, Zenon
<1>7. CASE comma
  BY <1>1, <1>2, <1>7, Zenon
<1>8. CASE ~key /\ ~root /\ ~closer /\ ~colon /\ ~comma
  BY <1>1, <1>2, <1>8, Zenon
<1> QED BY <1>3, <1>4, <1>5, <1>6, <1>7, <1>8

LEMMA StepsSideBySide ==
    ASSUME NEW a \in LocateStates, NEW b \in LocateStates, NEW byte,
           NEW i \in Nat, NEW k \in Nat, SideBySide(a, b, k, i),
           NEW p, p = LocateStep(a, byte, i, k),
           NEW q, q = LocateStep(b, byte, i, k + 1)
    PROVE  SideBySide(p, q, k, i + 1)
<1>1. /\ k + 1 \in Nat /\ p \in LocateStates /\ q \in LocateStates
      /\ Numbers(a) /\ Numbers(b) /\ Numbers(p) /\ Numbers(q)
  BY LocateStepTyped, NumbersTyped
<1> SUFFICES ASSUME ~(p.bad \/ p.oversize \/ q.bad \/ q.oversize)
             PROVE  SideBySide(p, q, k, i + 1)
  BY DEF SideBySide
<1>2. ~(a.bad \/ a.oversize \/ b.bad \/ b.oversize)
  BY HaltedStays DEF Halted
<1>3. CASE a.done /\ a.value[2] < i /\ Behind(b, a.value[2])
  <2>1. p = a
    BY <1>3, HaltedStays DEF Halted
  <2>2. Behind(q, a.value[2]) /\ a.value[2] < i + 1
    BY <1>1, <1>3, BehindStays DEF Numbers
  <2> QED BY <1>3, <2>1, <2>2 DEF SideBySide
<1>4. CASE During(a, b)
  <2>1. ~Halted(a) /\ ~Halted(b) /\ a.skipping /\ b.skipping
    BY <1>2, <1>4 DEF During, Halted
  <2>2. SkipMove(a, byte, i, p) /\ SkipMove(b, byte, i, q)
    BY <1>1, <2>1, SkipMoves
  <2>3. CASE /\ ~a.instr /\ EndMove(a, byte, i, p)
             /\ EndMove(b, byte, i, q)
    <3>1. p.done /\ p.value[2] = i
      BY <1>4, <2>3 DEF EndMove, During
    <3>2. q.phase \in {"key", "comma"} /\ ~q.want /\ ~q.instr /\ ~q.done
      BY <1>4, <2>3 DEF EndMove, During
    <3>3. Behind(q, i)
      BY <3>2 DEF Behind
    <3> QED BY <3>1, <3>3 DEF SideBySide
  <2>4. CASE /\ \/ Others(p, a, {"instr", "esc"}) /\ Others(q, b, {"instr", "esc"})
                \/ Others(p, a, {"nest"}) /\ Others(q, b, {"nest"})
                \/ p = a /\ q = b
             /\ p.instr = q.instr /\ p.esc = q.esc /\ p.nest = q.nest
    <3>1. During(p, q)
      BY <1>1, <1>2, <1>4, <2>4 DEF During, Others
    <3> QED BY <3>1 DEF SideBySide
  <2>5. a.nest = b.nest /\ a.instr = b.instr /\ a.esc = b.esc
    BY <1>4 DEF During
  <2>6. CASE a.instr
    <3>1. /\ Others(p, a, {"instr", "esc"}) /\ Others(q, b, {"instr", "esc"})
          /\ p.instr = q.instr /\ p.esc = q.esc
      BY <1>1, <2>2, <2>5, <2>6 DEF SkipMove, Numbers
    <3>2. p.nest = q.nest
      BY <2>5, <3>1 DEF Others
    <3> QED BY <2>4, <3>1, <3>2
  <2>7. CASE ~a.instr /\ byte = "quote"
    <3>1. /\ Others(p, a, {"instr", "esc"}) /\ Others(q, b, {"instr", "esc"})
          /\ p.instr = q.instr /\ p.esc = q.esc
      BY <1>1, <2>2, <2>5, <2>7 DEF SkipMove, Numbers, IsOpener, IsCloser
    <3>2. p.nest = q.nest
      BY <2>5, <3>1 DEF Others
    <3> QED BY <2>4, <3>1, <3>2
  <2>8. CASE ~a.instr /\ IsOpener(byte)
    <3>1. Others(p, a, {"nest"}) /\ Others(q, b, {"nest"}) /\ p.nest = q.nest
      BY <1>1, <2>2, <2>5, <2>8 DEF SkipMove, IsOpener, IsCloser
    <3>2. p.instr = q.instr /\ p.esc = q.esc
      BY <2>5, <3>1 DEF Others
    <3> QED BY <2>4, <3>1, <3>2
  <2>9. CASE ~a.instr /\ IsCloser(byte) /\ a.nest # 0
    <3>1. Others(p, a, {"nest"}) /\ Others(q, b, {"nest"}) /\ p.nest = q.nest
      BY <1>1, <2>2, <2>5, <2>9 DEF SkipMove, IsOpener, IsCloser
    <3>2. p.instr = q.instr /\ p.esc = q.esc
      BY <2>5, <3>1 DEF Others
    <3> QED BY <2>4, <3>1, <3>2
  <2>10. CASE ~a.instr /\ (IsCloser(byte) \/ byte = ",") /\ a.nest = 0
    <3>1. ~(a.nest > 0) /\ ~(b.nest > 0)
      <4>1. a.nest = 0 /\ b.nest = 0
        BY <2>5, <2>10, Zenon
      <4>2. ~(0 > 0)
        OBVIOUS
      <4> QED BY <4>1, <4>2, Zenon
    <3>2. EndMove(a, byte, i, p) /\ EndMove(b, byte, i, q)
      BY <2>2, <2>5, <2>10, <3>1 DEF SkipMove, IsOpener, IsCloser
    <3> QED BY <2>3, <2>10, <3>2
  <2>11. CASE /\ ~a.instr /\ byte # "quote" /\ ~IsOpener(byte)
              /\ ~IsCloser(byte) /\ (byte = "," => a.nest # 0)
    <3>1. p = a /\ q = b
      BY <2>2, <2>5, <2>11 DEF SkipMove
    <3> QED BY <2>4, <2>5, <3>1
  <2> QED BY <2>6, <2>7, <2>8, <2>9, <2>10, <2>11
<1>5. CASE Before(a, b, k)
  <2>1. a = b /\ ~Halted(a) /\ ~a.want /\ ~a.done
    BY <1>2, <1>5 DEF Before, Halted
  <2>2. CASE a.skipping
    <3>1. SkipMove(a, byte, i, p) /\ p = q
      <4>1. p = SkipStep(a, byte, i) /\ q = SkipStep(a, byte, i)
        BY <2>1, <2>2 DEF LocateStep, Halted
      <4> QED BY <2>1, <2>2, <4>1, SkipMoves
    <3>2. CASE EndMove(a, byte, i, p)
      <4>1. /\ ~p.want /\ ~p.done /\ ~p.skipping
            /\ \/ p.phase = "key" /\ p.pair = a.pair + 1
               \/ p.phase = a.phase /\ p.pair = a.pair
        BY <2>1, <3>2 DEF EndMove
      <4>2. a.pair < k /\ a.phase = "comma"
        BY <1>5, <2>2 DEF Before
      <4>3. p.pair <= k /\ (p.phase = "comma" => p.pair < k)
        BY <1>1, <4>1, <4>2 DEF Numbers
      <4>4. Before(p, q, k)
        BY <3>1, <4>1, <4>3 DEF Before
      <4> QED BY <4>4 DEF SideBySide
    <3>3. CASE ~EndMove(a, byte, i, p)
      <4>1. Others(p, a, {"instr", "esc"}) \/ Others(p, a, {"nest"}) \/ p = a
        BY <3>1, <3>3 DEF SkipMove
      <4>2. Before(p, q, k)
        BY <1>5, <3>1, <4>1 DEF Before, Others
      <4> QED BY <4>2 DEF SideBySide
    <3> QED BY <3>2, <3>3
  <2>3. CASE ~a.skipping /\ a.instr
    <3>1. KeyMove(a, byte, i, p) /\ p = q
      <4>1. p = InKey(a, byte, i) /\ q = InKey(a, byte, i)
        BY <2>1, <2>3 DEF LocateStep, Halted
      <4> QED BY <2>1, <2>3, <4>1, KeyMoves
    <3>2. /\ p.phase = "colon" \/ p.phase = a.phase
          /\ p.pair = a.pair /\ ~p.want /\ ~p.done /\ ~p.skipping
      BY <2>1, <2>3, <3>1 DEF KeyMove, Others
    <3>3. Before(p, q, k)
      BY <1>5, <3>1, <3>2 DEF Before
    <3> QED BY <3>3 DEF SideBySide
  <2>4. CASE ~a.skipping /\ ~a.instr
    <3>1. TokenMove(a, byte, i, k, p) /\ TokenMove(b, byte, i, k + 1, q)
      BY <1>1, <2>1, <2>4, TokenMoves
    <3>2. CASE /\ ~IsBlank(byte) /\ a.phase = "value" /\ ~IsCloser(byte)
               /\ byte \notin {":", ","}
      <4>1. p = BeginValue(a, byte, i, k) /\ q = BeginValue(a, byte, i, k + 1)
        <5>1. /\ p = LocateToken(a, byte, i, k)
              /\ q = LocateToken(a, byte, i, k + 1)
          BY <2>1, <2>4, <3>2 DEF LocateStep, Halted
        <5>2. ~(a.phase = "key") /\ ~(a.phase = "colon") /\ ~(a.phase = "comma")
          BY <3>2
        <5> QED BY <3>2, <5>1, <5>2, Zenon DEF LocateToken
      <4>2. BeginMove(a, byte, i, k, p) /\ BeginMove(a, byte, i, k + 1, q)
        BY <1>1, <4>1, BeginValueFields
      <4>3. CASE a.pair = k
        <5>1. a.pair # k + 1
          BY <4>3
        <5>2. /\ p.want /\ ~q.want /\ ~p.done /\ ~q.done /\ p.skipping /\ q.skipping
              /\ p.phase = "comma" /\ q.phase = "comma" /\ p.nest = q.nest
              /\ p.instr = q.instr /\ ~p.esc /\ ~q.esc
          BY <2>1, <4>2, <4>3, <5>1 DEF BeginMove
        <5>3. During(p, q)
          BY <1>1, <1>2, <5>2 DEF During, Numbers
        <5> QED BY <5>3 DEF SideBySide
      <4>4. CASE a.pair # k
        <5>1. a.pair < k /\ a.pair # k + 1
          BY <1>1, <1>5, <4>4 DEF Before, Numbers
        <5>2. p = q
          <6>1. (a.pair = k) = FALSE /\ (a.pair = k + 1) = FALSE
            BY <4>4, <5>1
          <6> QED BY <4>1, <6>1 DEF BeginValue
        <5>3. ~p.want /\ ~p.done /\ p.pair = a.pair /\ p.phase = "comma"
          BY <2>1, <4>2, <4>4 DEF BeginMove
        <5>4. Before(p, q, k)
          BY <1>1, <5>1, <5>2, <5>3 DEF Before, Numbers
        <5> QED BY <5>4 DEF SideBySide
      <4> QED BY <4>3, <4>4
    <3>3. CASE ~(/\ ~IsBlank(byte) /\ a.phase = "value" /\ ~IsCloser(byte)
                 /\ byte \notin {":", ","})
      <4>1. p = q
        <5>1. CASE IsBlank(byte)
          BY <2>1, <2>4, <5>1 DEF LocateStep, Halted
        <5>2. CASE ~IsBlank(byte)
          <6>1. /\ p = LocateToken(a, byte, i, k)
                /\ q = LocateToken(a, byte, i, k + 1)
            BY <2>1, <2>4, <5>2 DEF LocateStep, Halted
          <6>2. ~(a.phase = "value" /\ ~IsCloser(byte) /\ byte \notin {":", ","})
            BY <3>3, <5>2
          <6> QED BY <6>1, <6>2, TokenIgnoresIndex
        <5> QED BY <5>1, <5>2
      <4>2. /\ p.phase = "comma" => a.phase = "comma"
            /\ p.pair = a.pair \/ (a.phase = "comma" /\ p.pair = a.pair + 1
                                   /\ p.phase = "key")
            /\ ~p.want /\ ~p.done /\ ~p.skipping
        BY <2>1, <2>4, <3>1, <3>3 DEF TokenMove, Others
      <4>3. Before(p, q, k)
        BY <1>1, <1>5, <4>1, <4>2 DEF Before, Numbers
      <4> QED BY <4>3 DEF SideBySide
    <3> QED BY <3>2, <3>3
  <2> QED BY <2>2, <2>3, <2>4
<1> QED BY <1>2, <1>3, <1>4, <1>5 DEF SideBySide

\* A pair that is found has been read to the end of its value.
LEMMA LocatedIsDone ==
    ASSUME NEW st, LocatedBy(st).status = "ok"
    PROVE  /\ ~st.bad /\ ~st.oversize /\ st.done
           /\ LocatedBy(st).key = st.fkey /\ LocatedBy(st).value = st.value
BY DEF LocatedBy

LEMMA PairInOrder ==
    ASSUME NEW S, NEW s \in Seq(S), NEW k \in Nat,
           NEW loc, loc = LocatePair(s, k), loc.status = "ok"
    PROVE  /\ loc.key \in Nat \X Nat /\ loc.value \in Nat \X Nat
           /\ loc.key[1] <= loc.key[2] /\ loc.key[2] + 2 <= loc.value[1]
           /\ loc.value[1] < loc.value[2] /\ loc.value[2] < Len(s)
<1>1. PICK run : LocatesAs(run, s, k) /\ loc = LocatedBy(run[Len(s)])
  BY LocateRuns
<1>2. PICK n \in Nat : n = Len(s) /\ n \in 0..Len(s)
  OBVIOUS
<1> DEFINE last == run[n]
<1>3. last \in LocateStates /\ (last.bad \/ InOrder(last, n))
  BY <1>1, <1>2, RunInOrder DEF LocatesAs
<1> HIDE DEF last
<1>4. loc = LocatedBy(last)
  BY <1>1, <1>2 DEF last
<1>5. ~last.bad /\ last.done /\ loc.key = last.fkey /\ loc.value = last.value
  BY <1>4, LocatedIsDone
<1>6. InOrder(last, n) /\ last.fkey \in Nat \X Nat /\ last.value \in Nat \X Nat
  BY <1>3, <1>5 DEF LocateStates
<1> QED BY <1>2, <1>5, <1>6 DEF InOrder

LEMMA NextPairBehind ==
    ASSUME NEW S, NEW s \in Seq(S), NEW k \in Nat,
           NEW loc, loc = LocatePair(s, k), loc.status = "ok",
           NEW nextloc, nextloc = LocatePair(s, k + 1), nextloc.status = "ok"
    PROVE  loc.value[2] + 1 < nextloc.key[1]
<1>1. PICK a : LocatesAs(a, s, k) /\ loc = LocatedBy(a[Len(s)])
  BY LocateRuns
<1>2. k + 1 \in Nat
  OBVIOUS
<1>3. PICK b : LocatesAs(b, s, k + 1) /\ nextloc = LocatedBy(b[Len(s)])
  BY <1>2, LocateRuns
<1>4. PICK n \in Nat : n = Len(s)
  OBVIOUS
<1>5. /\ a \in [0..n -> LocateStates] /\ a[0] = LocateSeed
      /\ \A i \in 1..n : a[i] = LocateStep(a[i - 1], s[i], i - 1, k)
  BY <1>1, <1>4 DEF LocatesAs
<1>6. /\ b \in [0..n -> LocateStates] /\ b[0] = LocateSeed
      /\ \A i \in 1..n : b[i] = LocateStep(b[i - 1], s[i], i - 1, k + 1)
  BY <1>3, <1>4 DEF LocatesAs
<1> DEFINE Good == {i \in 0..n : SideBySide(a[i], b[i], k, i)}
<1>7. 0 \in Good
  <2>1. /\ LocateSeed.pair = 0 /\ ~LocateSeed.want /\ ~LocateSeed.done
        /\ LocateSeed.phase # "comma" /\ ~LocateSeed.skipping
    BY DEF LocateSeed
  <2>2. Before(LocateSeed, LocateSeed, k)
    BY <2>1 DEF Before
  <2>3. SideBySide(a[0], b[0], k, 0)
    BY <1>5, <1>6, <2>2 DEF SideBySide
  <2> QED BY <2>3
<1>8. ASSUME NEW i \in 1..n, i - 1 \in Good PROVE i \in Good
  <2>1. i - 1 \in 0..n /\ i - 1 \in Nat /\ (i - 1) + 1 = i /\ i \in 0..n
    OBVIOUS
  <2>2. a[i - 1] \in LocateStates /\ b[i - 1] \in LocateStates
    BY <1>5, <1>6, <2>1
  <2>3. /\ a[i] = LocateStep(a[i - 1], s[i], i - 1, k)
        /\ b[i] = LocateStep(b[i - 1], s[i], i - 1, k + 1)
    BY <1>5, <1>6
  <2>4. SideBySide(a[i - 1], b[i - 1], k, i - 1)
    BY <1>8
  <2>5. SideBySide(a[i], b[i], k, (i - 1) + 1)
    BY <2>1, <2>2, <2>3, <2>4, StepsSideBySide
  <2> QED BY <2>1, <2>5
<1>9. Good \in SUBSET (0..n)
  OBVIOUS
<1> HIDE DEF Good
<1>10. SideBySide(a[n], b[n], k, n)
  <2>1. Good = 0..n
    BY <1>7, <1>8, <1>9, AtEveryPosition
  <2> QED BY <2>1 DEF Good
<1> DEFINE p == a[n]
           q == b[n]
<1>11. /\ ~p.bad /\ ~p.oversize /\ p.done /\ loc.value = p.value
       /\ ~q.bad /\ ~q.oversize /\ q.done /\ nextloc.key = q.fkey
  BY <1>1, <1>3, <1>4, LocatedIsDone
<1>12. p \in LocateStates /\ q \in LocateStates
  BY <1>5, <1>6
<1> HIDE DEF p, q
<1>13. SideBySide(p, q, k, n)
  BY <1>10 DEF p, q
<1>14. Behind(q, p.value[2])
  BY <1>11, <1>13 DEF SideBySide, Before, During
<1>15. q.fkey[1] > p.value[2] + 1
  BY <1>11, <1>14 DEF Behind
<1>16. Numbers(p) /\ Numbers(q)
  BY <1>12, NumbersTyped
<1> QED BY <1>11, <1>15, <1>16 DEF Numbers

\* A pair that is read says where it was located.
LEMMA PairAtLocated ==
    ASSUME NEW s, NEW k, NEW pair, pair = PairAt(s, k), pair.status = "ok"
    PROVE  /\ LocatePair(s, k).status = "ok"
           /\ pair.key_span = LocatePair(s, k).key
           /\ pair.value_span = LocatePair(s, k).value
           /\ "nested" \in DOMAIN pair.value =>
                  pair.value.nested = LocatePair(s, k).value
<1> DEFINE loc == LocatePair(s, k)
           first == s[loc.value[1] + 1]
           Says(x) == x.status = "ok" =>
               /\ x.key_span = loc.key /\ x.value_span = loc.value
               /\ "nested" \in DOMAIN x.value => x.value.nested = loc.value
<1> HIDE DEF loc
<1>1. \A code : code # "ok" => Refusal(code).status # "ok"
  BY DEF Refusal
<1>2. \A text1, value :
          ("nested" \in DOMAIN value => value.nested = loc.value)
              => Says(Pair(text1, loc, value))
  BY DEF Pair
<1>3. Says(Refusal("malformed")) /\ Says(Refusal("overlong"))
  BY DEF Refusal
<1>4. \A x : /\ "nested" \notin DOMAIN [string |-> x]
             /\ "nested" \notin DOMAIN [int |-> x]
             /\ "nested" \notin DOMAIN [bool |-> x]
  OBVIOUS
<1>5. \A x : /\ Says(Pair(s, loc, [string |-> x]))
             /\ Says(Pair(s, loc, [int |-> x]))
             /\ Says(Pair(s, loc, [bool |-> x]))
  BY <1>2, <1>4, Zenon
<1>6. Says(Pair(s, loc, [nested |-> loc.value]))
  <2>1. [nested |-> loc.value].nested = loc.value
    OBVIOUS
  <2> QED BY <1>2, <2>1, Zenon
<1> HIDE DEF Says
<1>7. Says(ReadString(s, loc))
  BY <1>3, <1>5, Zenon DEF ReadString
<1>8. \A word, value : Says(ReadLiteral(s, loc, word, value))
  BY <1>3, <1>5, Zenon DEF ReadLiteral
<1>9. Says(ReadInt(s, loc))
  BY <1>3, <1>5, Zenon DEF ReadInt
<1>10. loc.status = "ok"
  <2> SUFFICES ASSUME loc.status # "ok" PROVE FALSE
    OBVIOUS
  <2>1. PairAt(s, k) = Refusal(loc.status)
    BY DEF PairAt, loc
  <2> QED BY <1>1, <2>1
<1>11. Says(pair)
  <2>1. pair = CASE first = "quote" -> ReadString(s, loc)
               [] IsOpener(first) -> Pair(s, loc, [nested |-> loc.value])
               [] first = "t" -> ReadLiteral(s, loc, <<"t", "r", "u", "e">>, TRUE)
               [] first = "f" ->
                      ReadLiteral(s, loc, <<"f", "a", "l", "s", "e">>, FALSE)
               [] first \in DOMAIN Digit \cup {"-"} -> ReadInt(s, loc)
               [] OTHER -> Refusal("malformed")
    BY <1>10, Zenon DEF PairAt, loc
  <2> DEFINE c1 == first = "quote"
             c2 == IsOpener(first)
             c3 == first = "t"
             c4 == first = "f"
             c5 == first \in DOMAIN Digit \cup {"-"}
             v1 == ReadString(s, loc)
             v2 == Pair(s, loc, [nested |-> loc.value])
             v3 == ReadLiteral(s, loc, <<"t", "r", "u", "e">>, TRUE)
             v4 == ReadLiteral(s, loc, <<"f", "a", "l", "s", "e">>, FALSE)
             v5 == ReadInt(s, loc)
  <2>2. Says(v1) /\ Says(v2) /\ Says(v3) /\ Says(v4) /\ Says(v5)
    BY <1>6, <1>7, <1>8, <1>9
  <2>3. pair = CASE c1 -> v1 [] c2 -> v2 [] c3 -> v3 [] c4 -> v4 [] c5 -> v5
                 [] OTHER -> Refusal("malformed")
    BY <2>1
  <2> HIDE DEF c1, c2, c3, c4, c5, v1, v2, v3, v4, v5
  <2> QED BY <1>3, <2>2, <2>3, Zenon
<1> QED BY <1>10, <1>11 DEF Says, loc

-----------------------------------------------------------------------------
(* Reading the pairs of a document. *)

\* Pairs read are those of the first indices, all of them found.
PairsRead ==
    /\ document \in Manifests
    /\ pairs \in Seq({PairAt(text, k) : k \in Nat})
    /\ \A k \in 1..Len(pairs) :
           pairs[k] = PairAt(text, k - 1) /\ pairs[k].status = "ok"

LEMMA InitPairsRead == IngestInit => PairsRead
BY DEF IngestInit, PairsRead

LEMMA NextPairsRead == PairsRead /\ [IngestNext]_ingestVars => PairsRead'
<1> SUFFICES ASSUME PairsRead, [IngestNext]_ingestVars PROVE PairsRead'
  OBVIOUS
<1>1. CASE document' = document /\ pairs' = pairs
  BY <1>1 DEF PairsRead, text
<1>2. CASE document' = document /\ pairs' = << >>
  BY <1>2 DEF PairsRead, text
<1>3. CASE ReadPair
  <2>1. document' = document
    BY <1>3 DEF ReadPair, Stop, given
  <2> DEFINE pair == PairAt(text, Len(pairs))
  <2>2. CASE pair.status = "ok"
    <3>1. pairs' = Append(pairs, pair)
      BY <1>3, <2>2 DEF ReadPair
    <3>2. PICK n \in Nat : n = Len(pairs)
      BY DEF PairsRead
    <3> DEFINE P == {PairAt(text, k) : k \in Nat}
    <3>3. pair = PairAt(text, n) /\ pair \in P
      BY <3>2
    <3>4. pairs \in Seq(P) /\ text' = text
      BY <2>1 DEF PairsRead, text
    <3> HIDE DEF P, pair
    <3>5. /\ pairs' \in Seq(P) /\ Len(pairs') = n + 1 /\ pairs'[n + 1] = pair
          /\ \A k \in 1..n : pairs'[k] = pairs[k]
      BY <3>1, <3>2, <3>3, <3>4, AppendProperties
    <3>6. ASSUME NEW k \in 1..(n + 1)
          PROVE  pairs'[k] = PairAt(text, k - 1) /\ pairs'[k].status = "ok"
      <4>1. CASE k = n + 1
        <5>1. k - 1 = n
          BY <4>1
        <5> QED BY <2>2, <3>3, <3>5, <4>1, <5>1
      <4>2. CASE k # n + 1
        <5>1. k \in 1..n
          BY <4>2
        <5> QED BY <3>2, <3>5, <5>1 DEF PairsRead
      <4> QED BY <4>1, <4>2
    <3> QED BY <2>1, <3>4, <3>5, <3>6 DEF PairsRead, P
  <2>3. CASE pair.status # "ok"
    <3>1. pairs' \in {pairs, << >>}
      BY <1>3, <2>3 DEF ReadPair, Stop
    <3> QED BY <1>1, <1>2, <2>1, <3>1
  <2> QED BY <2>2, <2>3
<1>4. CASE ScanView \/ CloseInput \/ RefuseStructure \/ CountPairs \/ AllRead
           \/ UNCHANGED ingestVars
  <2>1. document' = document /\ pairs' \in {pairs, << >>}
    BY <1>4 DEF ScanView, CloseInput, RefuseStructure, CountPairs, AllRead, Stop,
       given, ingestVars
  <2> QED BY <1>1, <1>2, <2>1
<1> QED BY <1>3, <1>4 DEF IngestNext

\* The spans of one document never overlap, though each pair is located from
\* its start anew: a key before its value, a value before the next key, all
\* within the root.
THEOREM IngestSpansAreDisjoint == IngestSpec => []SpansAreDisjoint
<1>1. PairsRead => SpansAreDisjoint
  <2> SUFFICES ASSUME PairsRead, NEW k \in 1..Len(pairs)
               PROVE
        /\ pairs[k].key_span[1] <= pairs[k].key_span[2]
        /\ pairs[k].key_span[2] + 2 <= pairs[k].value_span[1]
        /\ pairs[k].value_span[1] < pairs[k].value_span[2]
        /\ pairs[k].value_span[2] < IF k < Len(pairs)
                                    THEN pairs[k + 1].key_span[1] - 1
                                    ELSE Len(text)
    BY DEF SpansAreDisjoint
  <2>1. PICK n \in Nat : n = Len(pairs)
    BY DEF PairsRead
  <2>2. text \in Seq(DocumentByte)
    BY IngestAssumption DEF PairsRead, text
  <2> DEFINE loc == LocatePair(text, k - 1)
             next == LocatePair(text, k)
  <2>3. /\ loc.status = "ok" /\ pairs[k].key_span = loc.key
        /\ pairs[k].value_span = loc.value
    BY PairAtLocated DEF PairsRead
  <2>4. k - 1 \in Nat /\ k \in Nat /\ (k - 1) + 1 = k
    BY <2>1
  <2>5. /\ loc.key \in Nat \X Nat /\ loc.value \in Nat \X Nat
        /\ loc.key[1] <= loc.key[2] /\ loc.key[2] + 2 <= loc.value[1]
        /\ loc.value[1] < loc.value[2] /\ loc.value[2] < Len(text)
    BY <2>2, <2>3, <2>4, PairInOrder
  <2>6. CASE k < Len(pairs)
    <3>1. k + 1 \in 1..Len(pairs) /\ (k + 1) - 1 = k
      BY <2>1, <2>6
    <3>2. next.status = "ok" /\ pairs[k + 1].key_span = next.key
      <4>1. pairs[k + 1] = PairAt(text, (k + 1) - 1) /\ pairs[k + 1].status = "ok"
        BY <3>1 DEF PairsRead
      <4> QED BY <3>1, <4>1, PairAtLocated
    <3>3. next.key \in Nat \X Nat
      BY <2>2, <2>4, <3>2, PairInOrder
    <3>4. loc.value[2] + 1 < next.key[1]
      <4>1. LocatePair(text, (k - 1) + 1) = next
        BY <2>4
      <4> QED BY <2>2, <2>3, <2>4, <3>2, <4>1, NextPairBehind
    <3> HIDE DEF loc, next
    <3>5. loc.value[2] < next.key[1] - 1
      BY <2>5, <3>3, <3>4
    <3> QED BY <2>3, <2>5, <2>6, <3>2, <3>5
  <2>7. CASE ~(k < Len(pairs))
    <3> HIDE DEF loc
    <3> QED BY <2>3, <2>5, <2>7
  <2> QED BY <2>6, <2>7
<1> QED BY <1>1, InitPairsRead, NextPairsRead, PTL DEF IngestSpec

-----------------------------------------------------------------------------
(* What a byte that is not at fault does to the scanner.                    *)

KindOf(c) == IF c \in {"{", "}"} THEN "object" ELSE "array"

\* What each move leaves alone.
Keeps(st, next, changed) ==
    /\ "stack" \notin changed => next.stack = st.stack
    /\ "expect" \notin changed => next.expect = st.expect
    /\ "in_string" \notin changed => next.in_string = st.in_string
    /\ "esc" \notin changed => next.esc = st.esc
    /\ "after_comma" \notin changed => next.after_comma = st.after_comma

StringMove(st, c, next) ==
    /\ Keeps(st, next, {"expect", "in_string", "esc"})
    /\ next.in_literal = st.in_literal
    /\ \/ /\ c # "quote" \/ st.esc
          /\ next.in_string /\ next.expect = st.expect
          /\ next.esc <=> (c = "back" /\ ~st.esc)
       \/ /\ c = "quote" /\ ~st.esc /\ ~next.in_string /\ ~next.esc
          /\ \/ /\ st.expect = Fresh /\ Innermost(st) # "array"
                /\ next.expect = NeedColon
             \/ /\ ~(st.expect = Fresh /\ Innermost(st) # "array")
                /\ ~(st.expect = NeedValue /\ st.stack = << >>)
                /\ next.expect = NeedComma

PlainMove(st, c, next) ==
    \/ /\ IsSpace(c) \/ (st.in_literal /\ IsLiteralChar(c))
       /\ next = st
    \/ /\ c = "quote" /\ st.expect \in {NeedValue, Fresh}
       /\ Keeps(st, next, {"in_string", "esc", "after_comma"})
       /\ next.in_string /\ ~next.esc /\ ~next.after_comma
    \/ /\ c \in {"{", "["} /\ st.expect \in {NeedValue, Fresh}
       /\ Keeps(st, next, {"stack", "expect"})
       /\ next.stack = Append(st.stack, KindOf(c)) /\ next.expect = Fresh
    \/ /\ c \in {"}", "]"} /\ st.expect \in {Fresh, NeedComma}
       /\ Innermost(st) = KindOf(c)
       /\ Keeps(st, next, {"stack", "expect", "after_comma"})
       /\ next.stack = SubSeq(st.stack, 1, Len(st.stack) - 1)
       /\ next.expect = IF Len(st.stack) = 1 THEN Complete ELSE NeedComma
       /\ ~next.after_comma
    \/ /\ c = ":" /\ st.expect = NeedColon
       /\ Keeps(st, next, {"expect", "after_comma"})
       /\ next.expect = NeedValue /\ ~next.after_comma
    \/ /\ c = "," /\ st.expect = NeedComma
       /\ Keeps(st, next, {"expect", "after_comma"})
       /\ next.expect = IF Innermost(st) = "object" THEN Fresh ELSE NeedValue
       /\ next.after_comma
    \/ /\ StartsLiteral(c)
       /\ \/ st.expect = NeedValue /\ st.stack # << >>
          \/ st.expect = Fresh /\ Innermost(st) = "array"
       /\ Keeps(st, next, {"expect", "after_comma"})
       /\ next.expect = NeedComma /\ ~next.after_comma

LEMMA StringMoves ==
    ASSUME NEW st, NEW c \in Byte, Sound(st), st.in_string,
           ~StepByte(st, c).bad
    PROVE  StringMove(st, c, StepByte(st, c).state)
<1> st \in States /\ st.esc \in BOOLEAN
  BY DEF Sound, SoundLanes, States
<1>1. StepByte(st, c) = StepString(st, c)
  BY DEF StepByte
<1> DEFINE next == StepByte(st, c).state
<1>2. CASE st.esc
  <2>1. StepByte(st, c) = Ok([st EXCEPT !.esc = FALSE])
    BY <1>1, <1>2 DEF StepString, Bad
  <2>2. next = [st EXCEPT !.esc = FALSE]
    BY <2>1 DEF Ok
  <2> HIDE DEF next
  <2>3. Keeps(st, next, {"expect", "in_string", "esc"})
        /\ next.in_literal = st.in_literal /\ next.in_string
        /\ next.expect = st.expect /\ ~next.esc
    BY <2>2 DEF States, Keeps
  <2>4. StringMove(st, c, next)
    BY <1>2, <2>3 DEF StringMove
  <2> QED BY <2>4 DEF next
<1>3. CASE ~st.esc /\ c = "back"
  <2>1. StepByte(st, c) = Ok([st EXCEPT !.esc = TRUE])
    BY <1>1, <1>3 DEF StepString
  <2>2. next = [st EXCEPT !.esc = TRUE]
    BY <2>1 DEF Ok
  <2> HIDE DEF next
  <2>3. Keeps(st, next, {"expect", "in_string", "esc"})
        /\ next.in_literal = st.in_literal /\ next.in_string
        /\ next.expect = st.expect /\ next.esc
    BY <2>2 DEF States, Keeps
  <2>4. StringMove(st, c, next)
    BY <1>3, <2>3 DEF StringMove
  <2> QED BY <2>4 DEF next
<1>4. CASE ~st.esc /\ c = "quote"
  <2>1. StepByte(st, c) = CloseString(st)
    BY <1>1, <1>4 DEF StepString
  <2>2. CASE st.expect = Fresh /\ Innermost(st) # "array"
    <3>1. next = [st EXCEPT !.in_string = FALSE, !.expect = NeedColon]
      BY <2>1, <2>2 DEF CloseString, Ok
    <3> HIDE DEF next
    <3>2. Keeps(st, next, {"expect", "in_string", "esc"})
          /\ next.in_literal = st.in_literal /\ ~next.in_string
          /\ next.expect = NeedColon /\ ~next.esc
      BY <1>4, <3>1 DEF States, Keeps
    <3>3. StringMove(st, c, next)
      BY <1>4, <2>2, <3>2 DEF StringMove
    <3> QED BY <3>3 DEF next
  <2>3. CASE ~(st.expect = Fresh /\ Innermost(st) # "array")
    <3>1. ~(st.expect = NeedValue /\ st.stack = << >>)
      BY <2>1, <2>3 DEF CloseString, Bad
    <3>2. next = [st EXCEPT !.in_string = FALSE, !.expect = NeedComma]
      BY <2>1, <2>3, <3>1 DEF CloseString, Ok
    <3> HIDE DEF next
    <3>3. Keeps(st, next, {"expect", "in_string", "esc"})
          /\ next.in_literal = st.in_literal /\ ~next.in_string
          /\ next.expect = NeedComma /\ ~next.esc
      BY <1>4, <3>2 DEF States, Keeps
    <3>4. StringMove(st, c, next)
      BY <1>4, <2>3, <3>1, <3>3 DEF StringMove
    <3> QED BY <3>4 DEF next
  <2> QED BY <2>2, <2>3
<1>5. CASE ~st.esc /\ c # "back" /\ c # "quote"
  <2>1. StepByte(st, c) = Ok(st)
    BY <1>1, <1>5 DEF StepString, Bad
  <2>2. next = st
    BY <2>1 DEF Ok
  <2> QED BY <1>5, <2>2 DEF StringMove, Keeps
<1> QED BY <1>2, <1>3, <1>4, <1>5

LEMMA PlainMoves ==
    ASSUME NEW st, NEW c \in Byte, Sound(st), ~st.in_string,
           ~StepByte(st, c).bad
    PROVE  PlainMove(st, c, StepByte(st, c).state)
<1> st \in States /\ st.after_comma \in BOOLEAN /\ Len(st.stack) \in Nat
  BY DEF Sound, SoundLanes, States
<1> DEFINE next == StepByte(st, c).state
           clear == [st EXCEPT !.in_literal = FALSE]
<1>1. CASE IsSpace(c) \/ (st.in_literal /\ IsLiteralChar(c))
  <2>1. StepByte(st, c) = Ok(st)
    BY <1>1 DEF StepByte, StepToken
  <2>2. next = st
    BY <2>1 DEF Ok
  <2> QED BY <1>1, <2>2 DEF PlainMove
<1> SUFFICES ASSUME ~IsSpace(c), ~(st.in_literal /\ IsLiteralChar(c))
             PROVE  PlainMove(st, c, next)
  BY <1>1
<1>2. StepByte(st, c) = OpenToken(clear, c)
  BY DEF StepByte, StepToken
<1>3. /\ clear \in States /\ Keeps(st, clear, {})
      /\ Innermost(clear) = Innermost(st) /\ Len(clear.stack) = Len(st.stack)
  BY DEF States, Keeps, Innermost
<1> HIDE DEF clear
<1>4. CASE c = "quote"
  <2>1. StepByte(st, c) = OpenString(clear)
    BY <1>2, <1>4 DEF OpenToken, StartsLiteral
  <2>2. clear.expect \in {NeedValue, Fresh}
    BY <2>1 DEF OpenString, Bad
  <2>3. next = [clear EXCEPT !.in_string = TRUE, !.esc = FALSE,
                             !.after_comma = FALSE]
    BY <2>1, <2>2 DEF OpenString, Ok
  <2> HIDE DEF next
  <2>4. Keeps(clear, next, {"in_string", "esc", "after_comma"})
        /\ next.in_string /\ ~next.esc /\ ~next.after_comma
    BY <1>3, <2>3 DEF States, Keeps
  <2> QED BY <1>3, <1>4, <2>2, <2>4 DEF PlainMove, Keeps
<1>5. CASE c \in {"{", "["}
  <2>1. StepByte(st, c) = OpenContainer(clear, KindOf(c))
    BY <1>2, <1>5 DEF OpenToken, StartsLiteral, KindOf
  <2>2. /\ clear.expect \in {NeedValue, Fresh}
        /\ ~(clear.expect = Fresh /\ clear.after_comma)
        /\ ~(Len(clear.stack) >= MaxNest)
    BY <2>1 DEF OpenContainer, Bad
  <2> DEFINE deepest == IF clear.max_depth < Len(clear.stack) + 1
                        THEN Len(clear.stack) + 1 ELSE clear.max_depth
  <2>3. next = [clear EXCEPT !.stack = Append(@, KindOf(c)), !.expect = Fresh,
                             !.max_depth = deepest]
    BY <2>1, <2>2 DEF OpenContainer, Ok
  <2> HIDE DEF next, deepest
  <2>4. Keeps(clear, next, {"stack", "expect"})
        /\ next.stack = Append(clear.stack, KindOf(c)) /\ next.expect = Fresh
    BY <1>3, <2>3 DEF States, Keeps
  <2> QED BY <1>3, <1>5, <2>2, <2>4 DEF PlainMove, Keeps
<1>6. CASE c \in {"}", "]"}
  <2>1. StepByte(st, c) = CloseContainer(clear, KindOf(c))
    BY <1>2, <1>6 DEF OpenToken, StartsLiteral, KindOf
  <2>2. /\ Innermost(clear) = KindOf(c)
        /\ clear.expect \notin {NeedValue, NeedColon, Complete}
    BY <2>1 DEF CloseContainer, Bad
  <2>3. clear.expect \in {Fresh, NeedComma}
    BY <1>3, <2>2 DEF States, NeedValue, Fresh, NeedColon, NeedComma, Complete
  <2> DEFINE expect == IF Len(clear.stack) = 1 THEN Complete ELSE NeedComma
             stack == SubSeq(clear.stack, 1, Len(clear.stack) - 1)
  <2>4. next = [clear EXCEPT !.stack = stack, !.expect = expect,
                             !.after_comma = FALSE]
    <3>1. ~(clear.expect = Fresh /\ clear.after_comma)
      BY <2>1 DEF CloseContainer, Bad
    <3> QED BY <2>1, <2>2, <3>1 DEF CloseContainer, Ok
  <2>5. stack = SubSeq(st.stack, 1, Len(st.stack) - 1)
        /\ expect = IF Len(st.stack) = 1 THEN Complete ELSE NeedComma
    BY <1>3 DEF Keeps
  <2> HIDE DEF next, expect, stack
  <2>6. Keeps(clear, next, {"stack", "expect", "after_comma"})
        /\ next.stack = stack /\ next.expect = expect /\ ~next.after_comma
    BY <1>3, <2>4 DEF States, Keeps
  <2> DEFINE front == SubSeq(st.stack, 1, Len(st.stack) - 1)
             then == IF Len(st.stack) = 1 THEN Complete ELSE NeedComma
  <2>7. next.stack = front /\ next.expect = then
    BY <2>5, <2>6
  <2>8. Keeps(st, next, {"stack", "expect", "after_comma"})
    BY <1>3, <2>6 DEF Keeps
  <2>9. st.expect \in {Fresh, NeedComma} /\ Innermost(st) = KindOf(c)
    BY <1>3, <2>2, <2>3 DEF Keeps
  <2> QED BY <1>6, <2>6, <2>7, <2>8, <2>9 DEF PlainMove
<1>7. CASE c = ":"
  <2>1. StepByte(st, c) = Colon(clear)
    BY <1>2, <1>7 DEF OpenToken, StartsLiteral
  <2>2. clear.expect = NeedColon
    BY <2>1 DEF Colon, Bad
  <2>3. next = [clear EXCEPT !.expect = NeedValue, !.after_comma = FALSE]
    BY <2>1, <2>2 DEF Colon, Ok
  <2> HIDE DEF next
  <2>4. Keeps(clear, next, {"expect", "after_comma"})
        /\ next.expect = NeedValue /\ ~next.after_comma
    BY <1>3, <2>3 DEF States, Keeps
  <2> QED BY <1>3, <1>7, <2>2, <2>4 DEF PlainMove, Keeps
<1>8. CASE c = ","
  <2>1. StepByte(st, c) = Comma(clear)
    BY <1>2, <1>8 DEF OpenToken, StartsLiteral
  <2>2. clear.expect = NeedComma
    BY <2>1 DEF Comma, Bad
  <2>3. st.stack # << >>
    BY <1>3, <2>2 DEF Sound, Agree, Keeps, NeedComma, NeedValue, Complete
  <2> DEFINE expect == IF Innermost(clear) = "object" THEN Fresh ELSE NeedValue
  <2>4. next = [clear EXCEPT !.after_comma = TRUE, !.expect = expect]
    BY <1>3, <2>1, <2>2, <2>3 DEF Comma, Ok, Keeps
  <2>5. expect = IF Innermost(st) = "object" THEN Fresh ELSE NeedValue
    BY <1>3
  <2> HIDE DEF next, expect
  <2>6. Keeps(clear, next, {"expect", "after_comma"})
        /\ next.expect = expect /\ next.after_comma
    BY <1>3, <2>4 DEF States, Keeps
  <2> QED BY <1>3, <1>8, <2>2, <2>5, <2>6 DEF PlainMove, Keeps
<1>9. CASE StartsLiteral(c)
  <2>1. StepByte(st, c) = OpenLiteral(clear)
    BY <1>2, <1>9 DEF OpenToken, StartsLiteral
  <2>2. \/ clear.expect = NeedValue /\ clear.stack # << >>
        \/ clear.expect = Fresh /\ Innermost(clear) = "array"
    BY <2>1 DEF OpenLiteral, Bad
  <2>3. next = [clear EXCEPT !.expect = NeedComma, !.in_literal = TRUE,
                             !.after_comma = FALSE]
    BY <2>1, <2>2 DEF OpenLiteral, Ok
  <2> HIDE DEF next
  <2>4. Keeps(clear, next, {"expect", "after_comma"})
        /\ next.expect = NeedComma /\ ~next.after_comma
    BY <1>3, <2>3 DEF States, Keeps
  <2> QED BY <1>3, <1>9, <2>2, <2>4 DEF PlainMove, Keeps
<1>10. CASE /\ c \notin {"quote", "{", "[", "}", "]", ":", ","}
            /\ ~StartsLiteral(c)
  <2>1. StepByte(st, c) = Bad(clear)
    BY <1>2, <1>10 DEF OpenToken
  <2> QED BY <2>1 DEF Bad
<1> QED BY <1>4, <1>5, <1>6, <1>7, <1>8, <1>9, <1>10

\* What the scanner sees of a document's byte.
LEMMA ClassTold ==
    ASSUME NEW b \in DocumentByte
    PROVE  /\ Class(b) \in Byte
           /\ \A c \in {"{", "}", "[", "]", ":", ",", "quote", "back"} :
                  Class(b) = c <=> b = c
           /\ IsSpace(Class(b)) <=> IsBlank(b)
<1>1. DOMAIN Digit = {"0", "1", "9"}
  BY DEF Digit
<1>2. CASE b \in DOMAIN Digit \cup {"-", "f"}
  <2>1. Class(b) = "1"
    <3>1. b \notin Letter \ {"t", "n", "f"} /\ b # "tab"
      BY <1>1, <1>2 DEF Letter
    <3> QED BY <1>2, <3>1, Zenon DEF Class
  <2> QED BY <1>1, <1>2, <2>1 DEF Byte, IsSpace, IsBlank
<1>3. CASE b \in Letter \ {"t", "n", "f"}
  <2>1. Class(b) = "x"
    <3>1. b \notin DOMAIN Digit \cup {"-", "f"} /\ b # "tab"
      BY <1>1, <1>3 DEF Letter
    <3> QED BY <1>3, <3>1, Zenon DEF Class
  <2> QED BY <1>3, <2>1 DEF Byte, IsSpace, IsBlank, Letter
<1>4. CASE b = "tab"
  <2>1. Class(b) = "sp"
    <3>1. b \notin DOMAIN Digit \cup {"-", "f"} /\ b \notin Letter \ {"t", "n", "f"}
      BY <1>1, <1>4 DEF Letter
    <3> QED BY <1>4, <3>1, Zenon DEF Class
  <2> QED BY <1>4, <2>1 DEF Byte, IsSpace, IsBlank
<1>5. CASE /\ b \notin DOMAIN Digit \cup {"-", "f"}
           /\ b \notin Letter \ {"t", "n", "f"} /\ b # "tab"
  <2>1. Class(b) = b
    BY <1>5, Zenon DEF Class
  <2>2. b \in Byte
    BY <1>5 DEF DocumentByte, Byte, Letter
  <2> QED BY <1>5, <2>1, <2>2 DEF IsSpace, IsBlank
<1> QED BY <1>2, <1>3, <1>4, <1>5

-----------------------------------------------------------------------------
(* The pass that counts pairs, position by position.                        *)

CountStates == [depth : Int, instr : BOOLEAN, esc : BOOLEAN, count : Nat]

CountSeed == [depth |-> 0, instr |-> FALSE, esc |-> FALSE, count |-> 0]

\* A byte counted.
CountMove(st, b, next) ==
    \/ /\ st.instr /\ next.depth = st.depth /\ next.count = st.count
       /\ next.instr <=> (st.esc \/ b # "quote")
       /\ next.esc <=> (b = "back" /\ ~st.esc)
    \/ /\ ~st.instr /\ b = "quote"
       /\ next.depth = st.depth /\ next.count = st.count
       /\ next.instr /\ ~next.esc
    \/ /\ ~st.instr /\ b # "quote" /\ ~next.instr /\ next.esc = st.esc
       /\ next.depth = IF IsOpener(b) THEN st.depth + 1
                       ELSE IF IsCloser(b) THEN st.depth - 1 ELSE st.depth
       /\ next.count = IF b = ":" /\ st.depth = 1 THEN st.count + 1 ELSE st.count

LEMMA CountMoves ==
    ASSUME NEW st \in CountStates, NEW b
    PROVE  /\ CountStep(st, b) \in CountStates
           /\ CountMove(st, b, CountStep(st, b))
<1> DEFINE next == CountStep(st, b)
<1>1. CASE st.instr
  <2> DEFINE instr == st.esc \/ b # "quote"
             esc == b = "back" /\ ~st.esc
  <2>1. next = [st EXCEPT !.instr = instr, !.esc = esc]
    BY <1>1, Zenon DEF CountStep, WithinString
  <2>2. instr \in BOOLEAN /\ esc \in BOOLEAN
    OBVIOUS
  <2> HIDE DEF instr, esc, next
  <2>3. /\ next \in CountStates /\ next.depth = st.depth
        /\ next.count = st.count /\ next.instr = instr /\ next.esc = esc
    BY <2>1, <2>2 DEF CountStates
  <2>4. next \in CountStates /\ CountMove(st, b, next)
    BY <1>1, <2>3 DEF CountMove, instr, esc
  <2> QED BY <2>4 DEF next
<1>2. CASE ~st.instr /\ b = "quote"
  <2>1. next = [st EXCEPT !.instr = TRUE, !.esc = FALSE]
    BY <1>2 DEF CountStep, OpenedString
  <2> HIDE DEF next
  <2>2. next \in CountStates /\ CountMove(st, b, next)
    BY <1>2, <2>1 DEF CountStates, CountMove
  <2> QED BY <2>2 DEF next
<1>3. CASE ~st.instr /\ b # "quote"
  <2> DEFINE depth == IF IsOpener(b) THEN st.depth + 1
                      ELSE IF IsCloser(b) THEN st.depth - 1 ELSE st.depth
             more == IF b = ":" /\ st.depth = 1 THEN st.count + 1 ELSE st.count
  <2>1. next = [st EXCEPT !.depth = depth, !.count = more]
    BY <1>3, Zenon DEF CountStep
  <2>2. depth \in Int /\ more \in Nat
    <3>1. st.depth \in Int /\ st.count \in Nat
      BY DEF CountStates
    <3> QED BY <3>1
  <2> HIDE DEF depth, more, next
  <2>3. /\ next \in CountStates /\ next.depth = depth /\ next.count = more
        /\ next.instr = st.instr /\ next.esc = st.esc
    BY <2>1, <2>2 DEF CountStates
  <2>4. next \in CountStates /\ CountMove(st, b, next)
    BY <1>3, <2>3, Zenon DEF CountMove, depth, more
  <2> QED BY <2>4 DEF next
<1> QED BY <1>1, <1>2, <1>3

CountsAs(run, s) ==
    /\ run \in [0..Len(s) -> CountStates] /\ run[0] = CountSeed
    /\ \A i \in 1..Len(s) : run[i] = CountStep(run[i - 1], s[i])

LEMMA CountRuns ==
    ASSUME NEW S, NEW s \in Seq(S)
    PROVE  \E run : CountsAs(run, s) /\ PairCount(s) = run[Len(s)].count
<1> DEFINE V == CountStates
           first == CountSeed
           Recurs(f, n) ==
               f = [T \in SUBSET (1..n) |->
                       IF T = {} THEN first
                       ELSE CountStep(f[T \ {Max(T)}], s[Max(T)])]
           step == [i \in 1..Len(s) |-> [v \in V |-> CountStep(v, s[i])]]
           last == FoldLeft(CountStep, CountSeed, s)
<1>1. Len(s) \in Nat /\ DOMAIN s = 1..Len(s)
  OBVIOUS
<1>2. \A i \in 1..Len(s) : \A v \in V :
          step[i][v] = CountStep(v, s[i]) /\ step[i][v] \in V
  BY CountMoves
<1>3. first \in V
  BY DEF CountSeed, CountStates
<1>4. last = (CHOOSE f : Recurs(f, Len(s)))[1..Len(s)] /\ PairCount(s) = last.count
  BY <1>1 DEF PairCount, CountSeed, FoldLeft, MapThenFoldSet
<1> HIDE DEF step, V, first, last
<1>5. PICK n \in Nat : n = Len(s)
  BY <1>1
<1>6. PICK f : FoldOf(f, n, V, first, step)
  BY <1>2, <1>3, <1>5, SetRecursion
<1>7. \E h : Recurs(h, n)
  <2>1. ASSUME NEW T \in SUBSET (1..n), T # {}
        PROVE  step[Max(T)][f[T \ {Max(T)}]] = CountStep(f[T \ {Max(T)}], s[Max(T)])
    <3>1. Max(T) \in 1..n /\ f[T \ {Max(T)}] \in V
      BY <1>6, <2>1, MaxOfPositions DEF FoldOf
    <3> QED BY <1>2, <1>5, <3>1
  <2>2. Recurs(f, n)
    BY <1>6, <2>1 DEF FoldOf
  <2> QED BY <2>2
<1>8. PICK g : Recurs(g, n) /\ last = g[1..n]
  <2> HIDE DEF Recurs
  <2> QED BY <1>4, <1>5, <1>7
<1>9. FoldsIn(g, n, V, first, step)
  <2>1. ASSUME NEW T \in (SUBSET (1..n)) \ {{}}, g[T \ {Max(T)}] \in V
        PROVE  g[T] = step[Max(T)][g[T \ {Max(T)}]]
    <3>1. Max(T) \in 1..n
      BY MaxOfPositions
    <3>2. g[T] = CountStep(g[T \ {Max(T)}], s[Max(T)])
      BY <1>8
    <3> QED BY <1>2, <1>5, <2>1, <3>1, <3>2
  <2>2. g[{}] = first
    BY <1>8
  <2> QED BY <2>1, <2>2 DEF FoldsIn
<1> HIDE DEF Recurs
<1>10. PICK run \in [0..n -> V] :
          /\ run[0] = first /\ g[1..n] = run[n]
          /\ \A i \in 1..n : run[i] = step[i][run[i - 1]]
  BY <1>2, <1>3, <1>5, <1>9, FoldRuns
<1>11. ASSUME NEW i \in 1..n PROVE run[i] = CountStep(run[i - 1], s[i])
  <2>1. i - 1 \in 0..n
    OBVIOUS
  <2>2. run[i - 1] \in V
    BY <2>1
  <2> QED BY <1>2, <1>5, <1>10, <2>2
<1>12. CountsAs(run, s)
  BY <1>5, <1>10, <1>11 DEF CountsAs, V, first
<1> QED BY <1>4, <1>5, <1>8, <1>10, <1>12

-----------------------------------------------------------------------------
(* The scanner, the pass that counts and the pass that locates the pair of   *)
(* index k, side by side over a document the scanner accepts.                *)

\* The scanner and the count know the same containers and strings.
Tracks(st, ct) ==
    /\ ct.depth = Len(st.stack) /\ (ct.instr <=> st.in_string)
    /\ st.in_string => (ct.esc <=> st.esc)

Idle(lt) == ~lt.instr /\ ~lt.skipping

\* Before the root, or behind one without pairs.
AtRoot(st, ct, lt) ==
    /\ st.stack = << >> /\ ~st.in_string
    /\ Idle(lt) /\ lt.phase = "key" /\ ~lt.open /\ ct.count = lt.pair

InRoot(st, expect) ==
    st.stack = <<"object">> /\ ~st.in_string /\ st.expect = expect

BeforeKey(st, ct, lt) ==
    /\ InRoot(st, Fresh)
    /\ Idle(lt) /\ lt.phase = "key" /\ lt.open /\ ct.count = lt.pair

WithinKey(st, ct, lt) ==
    /\ st.stack = <<"object">> /\ st.in_string /\ st.expect = Fresh
    /\ lt.instr /\ ~lt.skipping /\ lt.phase = "in_key" /\ lt.open /\ (lt.esc <=> st.esc)
    /\ ct.count = lt.pair

BeforeColon(st, ct, lt) ==
    /\ InRoot(st, NeedColon)
    /\ Idle(lt) /\ lt.phase = "colon" /\ lt.open /\ ct.count = lt.pair

BeforeValue(st, ct, lt) ==
    /\ InRoot(st, NeedValue) /\ ~st.after_comma
    /\ Idle(lt) /\ lt.phase = "value" /\ lt.open /\ ct.count = lt.pair + 1

WithinValue(st, ct, lt, k) ==
    /\ lt.skipping /\ lt.phase = "comma" /\ lt.open
    /\ st.stack # << >> /\ st.stack[1] = "object"
    /\ lt.nest = Len(st.stack) - 1 /\ (lt.instr <=> st.in_string)
    /\ st.in_string => (lt.esc <=> st.esc)
    /\ Len(st.stack) = 1 => st.expect = IF st.in_string THEN NeedValue ELSE NeedComma
    /\ lt.want <=> lt.pair = k
    /\ ct.count = lt.pair + 1

BehindRoot(st, ct, lt, k) ==
    /\ st.stack = << >> /\ ~st.in_string /\ st.expect = Complete
    /\ Idle(lt) /\ lt.phase = "comma" /\ lt.pair < k
    /\ ct.count = lt.pair + 1

Meets(st, ct, lt, k) ==
    \/ Halted(lt)
    \/ /\ Tracks(st, ct) /\ lt.pair <= k
       /\ \/ AtRoot(st, ct, lt)
          \/ BeforeKey(st, ct, lt)
          \/ WithinKey(st, ct, lt)
          \/ BeforeColon(st, ct, lt)
          \/ BeforeValue(st, ct, lt)
          \/ WithinValue(st, ct, lt, k)
          \/ BehindRoot(st, ct, lt, k)

LEMMA StackShape ==
    ASSUME NEW st, Sound(st)
    PROVE  /\ st \in States /\ st.stack \in Seq({"object", "array"})
           /\ Len(st.stack) \in Nat
           /\ st.stack = << >> => Len(st.stack) = 0 /\ Innermost(st) = "none"
                                  /\ st.expect \in {NeedValue, Complete}
           /\ st.stack # << >> => Len(st.stack) > 0
           /\ st.stack = <<"object">> => /\ Len(st.stack) = 1
                                         /\ st.stack[1] = "object"
                                         /\ Innermost(st) = "object"
           /\ Len(st.stack) = 1 /\ st.stack[1] = "object" =>
                  st.stack = <<"object">>
<1> DEFINE stack == st.stack
<1>1. st \in States /\ stack \in Seq({"object", "array"}) /\ Agree(st)
  BY DEF Sound, SoundLanes, States
<1>2. /\ stack = << >> => st.expect \in {NeedValue, Complete}
      /\ Innermost(st) = IF stack = << >> THEN "none" ELSE stack[Len(stack)]
  BY <1>1, Zenon DEF Agree, Innermost
<1> HIDE DEF stack
<1>3. Len(stack) \in Nat /\ (stack = << >> => Len(stack) = 0)
  BY <1>1
<1>4. stack # << >> => Len(stack) > 0
  BY <1>1
<1>5. stack = <<"object">> => Len(stack) = 1 /\ stack[1] = "object"
  BY <1>1
<1>6. Len(stack) = 1 /\ stack[1] = "object" => stack = <<"object">>
  <2> SUFFICES ASSUME Len(stack) = 1, stack[1] = "object"
               PROVE  stack = <<"object">>
    OBVIOUS
  <2>1. stack = [i \in 1..1 |-> stack[i]]
    BY <1>1
  <2> QED BY <2>1
<1>7. stack = <<"object">> => stack # << >>
  BY <1>3, <1>5
<1>8. stack = <<"object">> => Innermost(st) = "object"
  BY <1>2, <1>5, <1>7
<1> QED BY <1>1, <1>2, <1>3, <1>4, <1>5, <1>6, <1>8 DEF stack

\* The stack after a container opens or closes.
LEMMA StackMoves ==
    ASSUME NEW stack \in Seq({"object", "array"}), NEW n \in Nat, n = Len(stack)
    PROVE  /\ \A kind \in {"object", "array"} :
                  /\ Append(stack, kind) \in Seq({"object", "array"})
                  /\ Len(Append(stack, kind)) = n + 1
                  /\ Append(stack, kind) # << >>
                  /\ n > 0 => Append(stack, kind)[1] = stack[1]
                  /\ n = 0 => Append(stack, kind) = <<kind>>
           /\ n > 0 =>
                  /\ SubSeq(stack, 1, n - 1) \in Seq({"object", "array"})
                  /\ Len(SubSeq(stack, 1, n - 1)) = n - 1
                  /\ n > 1 => SubSeq(stack, 1, n - 1)[1] = stack[1]
                  /\ n > 1 => SubSeq(stack, 1, n - 1) # << >>
                  /\ n = 1 => SubSeq(stack, 1, n - 1) = << >>
<1>1. ASSUME NEW kind \in {"object", "array"}
      PROVE  /\ Append(stack, kind) \in Seq({"object", "array"})
             /\ Len(Append(stack, kind)) = n + 1
             /\ Append(stack, kind) # << >>
             /\ n > 0 => Append(stack, kind)[1] = stack[1]
             /\ n = 0 => Append(stack, kind) = <<kind>>
  <2> DEFINE longer == Append(stack, kind)
  <2>1. /\ longer \in Seq({"object", "array"}) /\ Len(longer) = n + 1
        /\ longer[n + 1] = kind /\ \A i \in 1..n : longer[i] = stack[i]
    BY AppendProperties
  <2> HIDE DEF longer
  <2>2. longer # << >>
    BY <2>1
  <2>3. n > 0 => longer[1] = stack[1]
    BY <2>1
  <2>4. n = 0 => longer = <<kind>>
    BY <2>1
  <2> QED BY <2>1, <2>2, <2>3, <2>4 DEF longer
<1>2. ASSUME n > 0
      PROVE  /\ SubSeq(stack, 1, n - 1) \in Seq({"object", "array"})
             /\ Len(SubSeq(stack, 1, n - 1)) = n - 1
             /\ n > 1 => SubSeq(stack, 1, n - 1)[1] = stack[1]
             /\ n > 1 => SubSeq(stack, 1, n - 1) # << >>
             /\ n = 1 => SubSeq(stack, 1, n - 1) = << >>
  <2> DEFINE front == SubSeq(stack, 1, n - 1)
  <2>1. /\ front \in Seq({"object", "array"}) /\ Len(front) = n - 1
        /\ \A i \in 1..(n - 1) : front[i] = stack[i]
    BY <1>2
  <2> HIDE DEF front
  <2>2. n > 1 => front[1] = stack[1] /\ front # << >>
    BY <2>1
  <2>3. n = 1 => front = << >>
    BY <2>1
  <2> QED BY <2>1, <2>2, <2>3 DEF front
<1> QED BY <1>1, <1>2

-----------------------------------------------------------------------------

\* What is known of a byte b that the scanner sees as c.
Told(b, c) ==
    /\ \A t \in {"{", "}", "[", "]", ":", ",", "quote", "back"} : c = t <=> b = t
    /\ IsSpace(c) <=> IsBlank(b)

\* What is awaited is one thing.
LEMMA AwaitsOne ==
    ASSUME NEW st
    PROVE  /\ st.expect = NeedValue => st.expect \notin {Fresh, NeedColon, NeedComma, Complete}
           /\ st.expect = Fresh => st.expect \notin {NeedValue, NeedColon, NeedComma, Complete}
           /\ st.expect = NeedColon => st.expect \notin {NeedValue, Fresh, NeedComma, Complete}
           /\ st.expect = NeedComma => st.expect \notin {NeedValue, Fresh, NeedColon, Complete}
           /\ st.expect = Complete => st.expect \notin {NeedValue, Fresh, NeedColon, NeedComma}
BY DEF NeedValue, Fresh, NeedColon, NeedComma, Complete

\* The bytes outside strings, told apart.
LEMMA PlainBytes ==
    ASSUME NEW st, NEW S, NEW c, PlainMove(st, c, S), ~st.in_literal
    PROVE  /\ ~IsSpace(c) =>
                  c \in {"quote", "{", "[", "}", "]", ":", ","} \/ StartsLiteral(c)
           /\ IsSpace(c) => S = st
           /\ c = "quote" => st.expect \in {NeedValue, Fresh}
           /\ c \in {"{", "["} => st.expect \in {NeedValue, Fresh}
           /\ c \in {"}", "]"} => /\ st.expect \in {Fresh, NeedComma}
                                  /\ Innermost(st) = KindOf(c)
           /\ c = ":" => st.expect = NeedColon
           /\ c = "," => st.expect = NeedComma
           /\ StartsLiteral(c) =>
                  \/ st.expect = NeedValue /\ st.stack # << >>
                  \/ st.expect = Fresh /\ Innermost(st) = "array"
BY DEF PlainMove, IsSpace, StartsLiteral

\* A count goes on outside a string.
LEMMA CountPlain ==
    ASSUME NEW ct \in CountStates, NEW b, NEW C, CountMove(ct, b, C), ~ct.instr
    PROVE  /\ b = "quote" => /\ C.depth = ct.depth /\ C.count = ct.count
                             /\ C.instr /\ ~C.esc
           /\ b # "quote" => ~C.instr
           /\ IsOpener(b) => C.depth = ct.depth + 1 /\ C.count = ct.count
           /\ IsCloser(b) => C.depth = ct.depth - 1 /\ C.count = ct.count
           /\ b = ":" => C.depth = ct.depth /\ C.count =
                  IF ct.depth = 1 THEN ct.count + 1 ELSE ct.count
           /\ b # "quote" /\ ~IsOpener(b) /\ ~IsCloser(b) /\ b # ":" =>
                  C.depth = ct.depth /\ C.count = ct.count
BY DEF CountMove, IsOpener, IsCloser

LEMMA FromAtRoot ==
    ASSUME NEW st, Sound(st), NEW S, Sound(S), NEW b, NEW c, Told(b, c),
           NEW ct \in CountStates, NEW C \in CountStates,
           NEW lt \in LocateStates, NEW L \in LocateStates,
           NEW i \in Nat, NEW k \in Nat,
           PlainMove(st, c, S), CountMove(ct, b, C), TokenMove(lt, b, i, k, L),
           Tracks(st, ct), lt.pair <= k, AtRoot(st, ct, lt)
    PROVE  Meets(S, C, L, k)
<1>1. /\ st.stack = << >> /\ ~st.in_string /\ Innermost(st) = "none"
      /\ st.expect \in {NeedValue, Complete} /\ Len(st.stack) = 0
      /\ ~st.in_literal
  BY StackShape DEF AtRoot, Sound, Agree, NeedComma, NeedValue, Complete
<1>2. /\ ~lt.instr /\ ~lt.skipping /\ lt.phase = "key" /\ ~lt.open
      /\ ct.count = lt.pair /\ ct.depth = 0 /\ ~ct.instr
  BY <1>1 DEF AtRoot, Tracks, Idle
<1> SUFFICES ASSUME ~L.bad PROVE Meets(S, C, L, k)
  BY DEF Meets, Halted
<1>3. CASE IsSpace(c)
  <2>1. IsBlank(b)
    BY <1>3 DEF Told
  <2>2. L = lt /\ b # "quote" /\ ~IsOpener(b) /\ ~IsCloser(b) /\ b # ":"
    BY <1>2, <2>1 DEF TokenMove, IsBlank, IsOpener, IsCloser
  <2>3. S = st
    BY <1>1, <1>3 DEF PlainMove, IsSpace, StartsLiteral
  <2>4. C.depth = 0 /\ ~C.instr /\ C.count = ct.count
    BY <1>2, <2>2, CountPlain
  <2> QED BY <1>1, <1>2, <2>2, <2>3, <2>4 DEF Meets, Tracks, AtRoot, Idle
<1>4. CASE c = "quote"
  <2>1. b = "quote"
    BY <1>4 DEF Told
  <2> QED BY <1>2, <2>1 DEF TokenMove, IsBlank
<1>5. CASE c = "["
  <2>1. b = "["
    BY <1>5 DEF Told
  <2> QED BY <1>2, <2>1 DEF TokenMove, IsBlank
<1>6. CASE c = "{"
  <2>1. b = "{" /\ IsOpener(b)
    BY <1>6 DEF Told, IsOpener
  <2>2. L.open /\ Others(L, lt, {"open"})
    BY <1>2, <2>1 DEF TokenMove, IsBlank
  <2>3. C.depth = 1 /\ ~C.instr /\ C.count = ct.count
    <3>1. C.depth = ct.depth + 1 /\ ~C.instr /\ C.count = ct.count
      <4>1. ~ct.instr /\ b # "quote"
        BY <1>2, <2>1
      <4>2. ~C.instr
        BY <4>1, CountPlain
      <4>3. IsOpener(b) => C.depth = ct.depth + 1 /\ C.count = ct.count
        BY <4>1, CountPlain
      <4> QED BY <2>1, <4>2, <4>3
    <3> QED BY <1>2, <3>1
  <2>4. /\ S.stack = Append(st.stack, "object") /\ S.expect = Fresh
        /\ ~S.in_string
    BY <1>1, <1>6 DEF PlainMove, IsSpace, StartsLiteral, KindOf, Keeps
  <2>5. S.stack = <<"object">> /\ Len(S.stack) = 1
    BY <1>1, <2>4
  <2>6. BeforeKey(S, C, L)
    BY <1>2, <2>2, <2>3, <2>4, <2>5 DEF BeforeKey, InRoot, Idle, Others
  <2> QED BY <1>2, <2>2, <2>3, <2>4, <2>5, <2>6 DEF Meets, Tracks, Others
<1>7. CASE ~IsSpace(c) /\ c \notin {"quote", "[", "{"}
  <2>1. c # "]" /\ c # "}"
    BY <1>1, PlainBytes, AwaitsOne
  <2> QED BY <1>1, <1>7, <2>1, PlainBytes, AwaitsOne
<1> QED BY <1>3, <1>4, <1>5, <1>6, <1>7

LEMMA FromBeforeKey ==
    ASSUME NEW st, Sound(st), NEW S, Sound(S), NEW b, NEW c, Told(b, c),
           NEW ct \in CountStates, NEW C \in CountStates,
           NEW lt \in LocateStates, NEW L \in LocateStates,
           NEW i \in Nat, NEW k \in Nat,
           PlainMove(st, c, S), CountMove(ct, b, C), TokenMove(lt, b, i, k, L),
           Tracks(st, ct), lt.pair <= k, BeforeKey(st, ct, lt)
    PROVE  Meets(S, C, L, k)
<1>1. /\ st.stack = <<"object">> /\ ~st.in_string /\ Innermost(st) = "object"
      /\ st.expect = Fresh /\ Len(st.stack) = 1 /\ ~st.in_literal
  <2>1. /\ st.stack = <<"object">> /\ ~st.in_string /\ st.expect = Fresh
    BY DEF BeforeKey, InRoot
  <2>2. ~st.in_literal
    BY <2>1, AwaitsOne DEF Sound, Agree
  <2> QED BY <2>1, <2>2, StackShape
<1>2. /\ ~lt.instr /\ ~lt.skipping /\ lt.phase = "key" /\ lt.open
      /\ ct.count = lt.pair /\ ct.depth = 1 /\ ~ct.instr
  BY <1>1 DEF BeforeKey, Tracks, Idle
<1> SUFFICES ASSUME ~L.bad PROVE Meets(S, C, L, k)
  BY DEF Meets, Halted
<1>3. CASE IsSpace(c)
  <2>1. IsBlank(b)
    BY <1>3 DEF Told
  <2>2. L = lt /\ b # "quote" /\ ~IsOpener(b) /\ ~IsCloser(b) /\ b # ":"
    BY <1>2, <2>1 DEF TokenMove, IsBlank, IsOpener, IsCloser
  <2>3. S = st
    BY <1>1, <1>3 DEF PlainMove, IsSpace, StartsLiteral
  <2>4. C.depth = 1 /\ ~C.instr /\ C.count = ct.count
    BY <1>2, <2>2, CountPlain
  <2> QED BY <1>1, <1>2, <2>2, <2>3, <2>4 DEF Meets, Tracks, BeforeKey, Idle, InRoot
<1>4. CASE c = "quote"
  <2>1. b = "quote"
    BY <1>4 DEF Told
  <2>2. /\ Others(L, lt, {"phase", "key", "instr", "esc"})
        /\ L.phase = "in_key" /\ L.instr /\ ~L.esc
    BY <1>2, <2>1 DEF TokenMove, IsBlank
  <2>3. /\ S.stack = st.stack /\ S.expect = Fresh /\ S.in_string /\ ~S.esc
    BY <1>1, <1>4 DEF PlainMove, IsSpace, StartsLiteral, Keeps
  <2>4. C.depth = 1 /\ C.instr /\ ~C.esc /\ C.count = ct.count
    BY <1>2, <2>1, CountPlain
  <2>6. WithinKey(S, C, L)
    BY <1>1, <1>2, <2>2, <2>3, <2>4 DEF WithinKey, Others
  <2>7. Tracks(S, C) /\ L.pair <= k
    BY <1>1, <1>2, <2>2, <2>3, <2>4 DEF Tracks, Others
  <2> QED BY <2>6, <2>7 DEF Meets
<1>5. CASE c \in {"{", "["}
  <2>1. b \in {"{", "["}
    BY <1>5 DEF Told
  <2> QED BY <1>2, <2>1 DEF TokenMove, IsBlank, IsCloser
<1>6. CASE c = "}"
  <2>1. b = "}" /\ IsCloser(b)
    BY <1>6 DEF Told, IsCloser
  <2>2. ~L.open /\ Others(L, lt, {"open"})
    BY <1>2, <2>1 DEF TokenMove, IsBlank, IsCloser
  <2>3. C.depth = 0 /\ ~C.instr /\ C.count = ct.count
    <3>1. C.depth = ct.depth - 1 /\ ~C.instr /\ C.count = ct.count
      <4>1. ~ct.instr /\ b # "quote"
        BY <1>2, <2>1
      <4>2. ~C.instr
        BY <4>1, CountPlain
      <4>3. IsCloser(b) => C.depth = ct.depth - 1 /\ C.count = ct.count
        BY <4>1, CountPlain
      <4> QED BY <2>1, <4>2, <4>3
    <3> QED BY <1>2, <3>1
  <2>4. /\ S.stack = SubSeq(st.stack, 1, Len(st.stack) - 1) /\ ~S.in_string
    BY <1>1, <1>6 DEF PlainMove, IsSpace, StartsLiteral, Keeps
  <2>5. S.stack = << >> /\ Len(S.stack) = 0
    BY <1>1, <2>4, StackShape, StackMoves
  <2>6. AtRoot(S, C, L)
    BY <1>2, <2>2, <2>3, <2>4, <2>5 DEF AtRoot, Idle, Others
  <2> QED BY <1>2, <2>2, <2>3, <2>4, <2>5, <2>6 DEF Meets, Tracks, Others
<1>7. CASE ~IsSpace(c) /\ c \notin {"quote", "[", "{", "}"}
  <2>1. c # "]"
    BY <1>1, PlainBytes DEF KindOf
  <2> QED BY <1>1, <1>7, <2>1, PlainBytes, AwaitsOne
<1> QED BY <1>3, <1>4, <1>5, <1>6, <1>7

LEMMA FromBeforeColon ==
    ASSUME NEW st, Sound(st), NEW S, Sound(S), NEW b, NEW c, Told(b, c),
           NEW ct \in CountStates, NEW C \in CountStates,
           NEW lt \in LocateStates, NEW L \in LocateStates,
           NEW i \in Nat, NEW k \in Nat,
           PlainMove(st, c, S), CountMove(ct, b, C), TokenMove(lt, b, i, k, L),
           Tracks(st, ct), lt.pair <= k, BeforeColon(st, ct, lt)
    PROVE  Meets(S, C, L, k)
<1>1. /\ st.stack = <<"object">> /\ ~st.in_string /\ Innermost(st) = "object"
      /\ st.expect = NeedColon /\ Len(st.stack) = 1 /\ ~st.in_literal
  <2>1. /\ st.stack = <<"object">> /\ ~st.in_string /\ st.expect = NeedColon
    BY DEF BeforeColon, InRoot
  <2>2. ~st.in_literal
    BY <2>1, AwaitsOne DEF Sound, Agree
  <2> QED BY <2>1, <2>2, StackShape
<1>2. /\ ~lt.instr /\ ~lt.skipping /\ lt.phase = "colon" /\ lt.open
      /\ ct.count = lt.pair /\ ct.depth = 1 /\ ~ct.instr
  BY <1>1 DEF BeforeColon, Tracks, Idle
<1> SUFFICES ASSUME ~L.bad PROVE Meets(S, C, L, k)
  BY DEF Meets, Halted
<1>3. CASE IsSpace(c)
  <2>1. IsBlank(b)
    BY <1>3 DEF Told
  <2>2. L = lt /\ b # "quote" /\ ~IsOpener(b) /\ ~IsCloser(b) /\ b # ":"
    BY <1>2, <2>1 DEF TokenMove, IsBlank, IsOpener, IsCloser
  <2>3. S = st
    BY <1>1, <1>3, PlainBytes
  <2>4. C.depth = 1 /\ ~C.instr /\ C.count = ct.count
    BY <1>2, <2>2, CountPlain
  <2> QED BY <1>1, <1>2, <2>2, <2>3, <2>4
        DEF Meets, Tracks, BeforeColon, Idle, InRoot
<1>4. CASE c = ":"
  <2>1. b = ":"
    BY <1>4 DEF Told
  <2>2. Others(L, lt, {"phase"}) /\ L.phase = "value"
    BY <1>2, <2>1 DEF TokenMove, IsBlank, IsCloser
  <2>3. C.depth = 1 /\ ~C.instr /\ C.count = ct.count + 1
    <3>1. ~C.instr
      BY <1>2, <2>1, CountPlain
    <3>2. C.depth = ct.depth /\ C.count = ct.count + 1
      BY <1>2, <2>1 DEF CountMove, IsOpener, IsCloser
    <3> QED BY <1>2, <3>1, <3>2
  <2>4. /\ S.stack = st.stack /\ S.expect = NeedValue /\ ~S.in_string
        /\ ~S.after_comma
    BY <1>1, <1>4 DEF PlainMove, IsSpace, StartsLiteral, Keeps
  <2>5. C.count = L.pair + 1 /\ L.pair = lt.pair
    BY <1>2, <2>2, <2>3 DEF Others
  <2>6. BeforeValue(S, C, L)
    BY <1>1, <1>2, <2>2, <2>4, <2>5 DEF BeforeValue, InRoot, Idle, Others
  <2>7. Tracks(S, C)
    BY <1>1, <2>3, <2>4 DEF Tracks
  <2> QED BY <2>5, <2>6, <2>7 DEF Meets
<1>5. CASE ~IsSpace(c) /\ c # ":"
  BY <1>1, <1>5, PlainBytes, AwaitsOne
<1> QED BY <1>3, <1>4, <1>5

LEMMA FromBeforeValue ==
    ASSUME NEW st, Sound(st), NEW S, Sound(S), NEW b, NEW c, Told(b, c),
           NEW ct \in CountStates, NEW C \in CountStates,
           NEW lt \in LocateStates, NEW L \in LocateStates,
           NEW i \in Nat, NEW k \in Nat,
           PlainMove(st, c, S), CountMove(ct, b, C), TokenMove(lt, b, i, k, L),
           Tracks(st, ct), lt.pair <= k, BeforeValue(st, ct, lt)
    PROVE  Meets(S, C, L, k)
<1>1. /\ st.stack = <<"object">> /\ ~st.in_string /\ Innermost(st) = "object"
      /\ st.expect = NeedValue /\ Len(st.stack) = 1 /\ ~st.in_literal
      /\ st.stack[1] = "object"
  <2>1. /\ st.stack = <<"object">> /\ ~st.in_string /\ st.expect = NeedValue
    BY DEF BeforeValue, InRoot
  <2>2. ~st.in_literal
    BY <2>1, AwaitsOne DEF Sound, Agree
  <2> QED BY <2>1, <2>2, StackShape
<1>2. /\ ~lt.instr /\ ~lt.skipping /\ lt.phase = "value" /\ lt.open
      /\ ct.count = lt.pair + 1 /\ ct.depth = 1 /\ ~ct.instr
  BY <1>1 DEF BeforeValue, Tracks, Idle
<1> SUFFICES ASSUME ~L.bad PROVE Meets(S, C, L, k)
  BY DEF Meets, Halted
<1>3. CASE IsSpace(c)
  <2>1. IsBlank(b)
    BY <1>3 DEF Told
  <2>2. L = lt /\ b # "quote" /\ ~IsOpener(b) /\ ~IsCloser(b) /\ b # ":"
    BY <1>2, <2>1 DEF TokenMove, IsBlank, IsOpener, IsCloser
  <2>3. S = st
    BY <1>1, <1>3, PlainBytes
  <2>4. C.depth = 1 /\ ~C.instr /\ C.count = ct.count
    BY <1>2, <2>2, CountPlain
  <2> QED BY <1>1, <1>2, <2>2, <2>3, <2>4
        DEF Meets, Tracks, BeforeValue, Idle, InRoot
<1>4. CASE ~IsSpace(c)
  <2>1. /\ c \in {"quote", "{", "["} \/ StartsLiteral(c)
        /\ ~IsBlank(b)
    <3>1. c \notin {"}", "]", ":", ","}
      BY <1>1, PlainBytes, AwaitsOne
    <3> QED BY <1>1, <1>4, <3>1, PlainBytes DEF Told
  <2>2. ~IsCloser(b) /\ b \notin {":", ","}
    BY <2>1 DEF Told, IsCloser, StartsLiteral
  <2>3. BeginMove(lt, b, i, k, L)
    <3>1. lt.phase \notin {"key", "colon", "comma"}
      BY <1>2
    <3> QED BY <1>2, <2>1, <2>2, <3>1 DEF TokenMove
  <2>4. /\ L.phase = "comma" /\ L.skipping /\ ~L.esc /\ (L.instr <=> b = "quote")
        /\ (L.want <=> lt.pair = k) /\ L.pair = lt.pair /\ L.open = lt.open
        /\ L.nest = IF IsOpener(b) THEN 1 ELSE 0
    BY <2>3 DEF BeginMove
  <2>5. CASE c = "quote"
    <3>1. b = "quote" /\ ~IsOpener(b)
      BY <2>5 DEF Told, IsOpener
    <3>2. /\ S.stack = st.stack /\ S.expect = NeedValue /\ S.in_string /\ ~S.esc
      BY <1>1, <2>5 DEF PlainMove, IsSpace, StartsLiteral, Keeps
    <3>3. C.depth = 1 /\ C.instr /\ ~C.esc /\ C.count = ct.count
      BY <1>2, <3>1, CountPlain
    <3>4. L.nest = 0 /\ L.instr
      BY <2>4, <3>1
    <3>5. L.nest = Len(S.stack) - 1 /\ S.stack # << >>
      BY <1>1, <3>2, <3>4
    <3>6. WithinValue(S, C, L, k)
      BY <1>1, <1>2, <2>4, <3>2, <3>3, <3>4, <3>5 DEF WithinValue
    <3>7. Tracks(S, C)
      BY <1>1, <3>2, <3>3 DEF Tracks
    <3> QED BY <2>4, <3>6, <3>7 DEF Meets
  <2>6. CASE c \in {"{", "["}
    <3>1. IsOpener(b) /\ b # "quote"
      BY <2>6 DEF Told, IsOpener
    <3>2. /\ S.stack = Append(st.stack, KindOf(c)) /\ ~S.in_string
      BY <1>1, <2>6 DEF PlainMove, IsSpace, StartsLiteral, Keeps
    <3>3. KindOf(c) \in {"object", "array"}
      BY DEF KindOf
    <3>4. /\ Len(S.stack) = 2 /\ S.stack # << >> /\ S.stack[1] = "object"
      <4>1. st.stack \in Seq({"object", "array"}) /\ 1 = Len(st.stack)
        BY <1>1, StackShape
      <4>2. PICK kind \in {"object", "array"} : kind = KindOf(c)
        BY <3>3
      <4>3. PICK n \in Nat : n = 1 /\ n = Len(st.stack)
        BY <4>1
      <4>4. /\ Len(Append(st.stack, kind)) = n + 1
            /\ Append(st.stack, kind) # << >>
            /\ n > 0 => Append(st.stack, kind)[1] = st.stack[1]
        BY <4>1, <4>3, StackMoves
      <4>5. n > 0 /\ n + 1 = 2
        BY <4>3
      <4> QED BY <1>1, <3>2, <4>2, <4>4, <4>5
    <3>5. C.depth = 2 /\ ~C.instr /\ C.count = ct.count
      <4>1. C.depth = ct.depth + 1 /\ C.count = ct.count
        BY <1>2, <3>1, CountPlain
      <4> QED BY <1>2, <3>1, <4>1, CountPlain
    <3>6. L.nest = 1 /\ ~L.instr
      BY <2>4, <3>1
    <3>7. L.nest = Len(S.stack) - 1 /\ Len(S.stack) # 1
      BY <3>4, <3>6
    <3>8. WithinValue(S, C, L, k)
      BY <1>1, <1>2, <2>4, <3>2, <3>4, <3>5, <3>6, <3>7 DEF WithinValue
    <3>9. Tracks(S, C)
      BY <3>2, <3>4, <3>5 DEF Tracks
    <3> QED BY <2>4, <3>8, <3>9 DEF Meets
  <2>7. CASE StartsLiteral(c)
    <3>1. b # "quote" /\ ~IsOpener(b) /\ b # ":" /\ ~IsCloser(b)
      BY <2>2, <2>7 DEF Told, IsOpener, StartsLiteral
    <3>2. /\ S.stack = st.stack /\ S.expect = NeedComma /\ ~S.in_string
      BY <1>1, <2>7 DEF PlainMove, IsSpace, StartsLiteral, Keeps
    <3>3. C.depth = 1 /\ ~C.instr /\ C.count = ct.count
      BY <1>2, <3>1, CountPlain
    <3>4. L.nest = 0 /\ ~L.instr
      BY <2>4, <3>1
    <3>5. L.nest = Len(S.stack) - 1 /\ S.stack # << >>
      BY <1>1, <3>2, <3>4
    <3>6. WithinValue(S, C, L, k)
      BY <1>1, <1>2, <2>4, <3>2, <3>3, <3>4, <3>5 DEF WithinValue
    <3>7. Tracks(S, C)
      BY <1>1, <3>2, <3>3 DEF Tracks
    <3> QED BY <2>4, <3>6, <3>7 DEF Meets
  <2> QED BY <2>1, <2>5, <2>6, <2>7
<1> QED BY <1>3, <1>4

LEMMA FromBehindRoot ==
    ASSUME NEW st, Sound(st), NEW S, Sound(S), NEW b, NEW c, Told(b, c),
           NEW ct \in CountStates, NEW C \in CountStates,
           NEW lt \in LocateStates, NEW L \in LocateStates,
           NEW i \in Nat, NEW k \in Nat,
           PlainMove(st, c, S), CountMove(ct, b, C), TokenMove(lt, b, i, k, L),
           Tracks(st, ct), lt.pair <= k, 
           BehindRoot(st, ct, lt, k)
    PROVE  Meets(S, C, L, k)
<1>1. /\ st.stack = << >> /\ ~st.in_string /\ Innermost(st) = "none"
      /\ st.expect = Complete /\ Len(st.stack) = 0 /\ ~st.in_literal
  <2>1. st.stack = << >> /\ ~st.in_string /\ st.expect = Complete
    BY DEF BehindRoot
  <2>2. ~st.in_literal
    BY <2>1, AwaitsOne DEF Sound, Agree
  <2> QED BY <2>1, <2>2, StackShape
<1>2. /\ ~lt.instr /\ ~lt.skipping /\ lt.phase = "comma" /\ ~ct.instr
      /\ ct.depth = 0
  BY <1>1 DEF BehindRoot, Tracks, Idle
<1>3. CASE IsSpace(c)
  <2>1. IsBlank(b)
    BY <1>3 DEF Told
  <2>2. b # "quote" /\ ~IsOpener(b) /\ ~IsCloser(b) /\ b # ":" /\ b # ","
    BY <2>1 DEF IsBlank, IsOpener, IsCloser
  <2>3. L = lt \/ L.bad
    BY <1>2, <2>1, <2>2 DEF TokenMove, IsCloser
  <2>4. S = st
    BY <1>1, <1>3, PlainBytes
  <2>5. C.depth = ct.depth /\ C.count = ct.count /\ ~C.instr
    <3>1. ~C.instr
      BY <1>2, <2>2, CountPlain
    <3>2. ~ct.instr
      BY <1>2
    <3>3. CountMove(ct, b, C)
      OBVIOUS
    <3> QED BY <2>2, <3>1, <3>2, <3>3, CountPlain
  <2> QED BY <1>1, <1>2, <2>3, <2>4, <2>5
        DEF Meets, Tracks, BehindRoot, Idle, Halted
<1>4. CASE ~IsSpace(c)
  <2>1. c \notin {"quote", "{", "[", "}", "]", ":", ","}
    BY <1>1, PlainBytes, AwaitsOne
  <2> QED BY <1>1, <1>4, <2>1, PlainBytes, AwaitsOne
<1> QED BY <1>3, <1>4

\* A byte of a key.
LEMMA FromWithinKey ==
    ASSUME NEW st, Sound(st), NEW S, Sound(S), NEW b, NEW c, Told(b, c),
           NEW ct \in CountStates, NEW C \in CountStates,
           NEW lt \in LocateStates, NEW L \in LocateStates,
           NEW i \in Nat, NEW k \in Nat,
           StringMove(st, c, S), CountMove(ct, b, C), KeyMove(lt, b, i, L),
           Tracks(st, ct), lt.pair <= k, WithinKey(st, ct, lt)
    PROVE  Meets(S, C, L, k)
<1>1. /\ st.stack = <<"object">> /\ st.in_string /\ Innermost(st) = "object"
      /\ st.expect = Fresh /\ Len(st.stack) = 1
  <2>1. st.stack = <<"object">> /\ st.in_string /\ st.expect = Fresh
    BY DEF WithinKey
  <2> QED BY <2>1, StackShape
<1>2. /\ lt.instr /\ ~lt.skipping /\ lt.phase = "in_key" /\ lt.open /\ (lt.esc <=> st.esc)
      /\ ct.count = lt.pair /\ ct.depth = 1 /\ ct.instr /\ (ct.esc <=> st.esc)
  BY <1>1 DEF WithinKey, Tracks
<1>3. (c = "quote" <=> b = "quote") /\ (c = "back" <=> b = "back")
  BY DEF Told
<1>4. /\ C.depth = 1 /\ C.count = ct.count
      /\ C.instr <=> (st.esc \/ b # "quote")
      /\ C.esc <=> (b = "back" /\ ~st.esc)
  BY <1>2 DEF CountMove
<1>5. CASE b = "quote" /\ ~st.esc
  <2>1. /\ L.phase = "colon" /\ ~L.instr /\ Others(L, lt, {"phase", "instr", "key"})
    BY <1>2, <1>5 DEF KeyMove
  <2>2. /\ S.stack = st.stack /\ ~S.in_string /\ S.expect = NeedColon
    BY <1>1, <1>3, <1>5 DEF StringMove, Keeps
  <2>3. BeforeColon(S, C, L)
    BY <1>1, <1>2, <1>4, <2>1, <2>2 DEF BeforeColon, InRoot, Idle, Others
  <2>4. Tracks(S, C) /\ L.pair <= k
    BY <1>1, <1>4, <1>5, <2>1, <2>2 DEF Tracks, Others
  <2> QED BY <2>3, <2>4 DEF Meets
<1>6. CASE b # "quote" \/ st.esc
  <2>1. /\ L.instr /\ Others(L, lt, {"instr", "esc"})
        /\ L.esc <=> (b = "back" /\ ~st.esc)
    BY <1>2, <1>6 DEF KeyMove
  <2>2. /\ S.stack = st.stack /\ S.in_string /\ S.expect = st.expect
        /\ S.esc <=> (b = "back" /\ ~st.esc)
    BY <1>1, <1>3, <1>6 DEF StringMove, Keeps
  <2>3. WithinKey(S, C, L)
    BY <1>1, <1>2, <1>4, <2>1, <2>2 DEF WithinKey, Others
  <2>4. Tracks(S, C) /\ L.pair <= k
    BY <1>1, <1>4, <1>6, <2>1, <2>2 DEF Tracks, Others
  <2> QED BY <2>3, <2>4 DEF Meets
<1> QED BY <1>5, <1>6

\* A byte of a string within a value.
LEMMA FromStringWithin ==
    ASSUME NEW st, Sound(st), NEW S, Sound(S), NEW b, NEW c, Told(b, c),
           NEW ct \in CountStates, NEW C \in CountStates,
           NEW lt \in LocateStates, NEW L \in LocateStates,
           NEW i \in Nat, NEW k \in Nat, st.in_string,
           StringMove(st, c, S), CountMove(ct, b, C), SkipMove(lt, b, i, L),
           Tracks(st, ct), lt.pair <= k, WithinValue(st, ct, lt, k)
    PROVE  Meets(S, C, L, k)
<1>1. /\ st.stack # << >> /\ st.stack[1] = "object"
      /\ Len(st.stack) = 1 => st.expect = NeedValue
  BY DEF WithinValue
<1>2. /\ lt.instr /\ (lt.esc <=> st.esc) /\ ct.instr /\ (ct.esc <=> st.esc)
      /\ ct.depth = Len(st.stack) /\ lt.nest = Len(st.stack) - 1
      /\ ct.count = lt.pair + 1 /\ (lt.want <=> lt.pair = k)
      /\ lt.skipping /\ lt.phase = "comma" /\ lt.open
  BY DEF WithinValue, Tracks
<1>3. (c = "quote" <=> b = "quote") /\ (c = "back" <=> b = "back")
  BY DEF Told
<1>4. /\ C.depth = ct.depth /\ C.count = ct.count
      /\ C.instr <=> (st.esc \/ b # "quote")
      /\ C.esc <=> (b = "back" /\ ~st.esc)
  BY <1>2 DEF CountMove
<1>5. /\ Others(L, lt, {"instr", "esc"})
      /\ L.instr <=> (st.esc \/ b # "quote")
      /\ L.esc <=> (b = "back" /\ ~st.esc)
  BY <1>2 DEF SkipMove
<1>6. /\ S.stack = st.stack
      /\ S.in_string <=> (st.esc \/ b # "quote")
      /\ S.in_string => (S.esc <=> (b = "back" /\ ~st.esc))
      /\ S.in_string => S.expect = st.expect
      /\ ~S.in_string /\ st.expect = NeedValue => S.expect = NeedComma
  <2>1. S.stack = st.stack
    BY DEF StringMove, Keeps
  <2>2. CASE st.esc \/ b # "quote"
    BY <1>3, <2>1, <2>2 DEF StringMove
  <2>3. CASE ~(st.esc \/ b # "quote")
    <3>1. st.expect = NeedValue => st.expect # Fresh
      BY AwaitsOne
    <3> QED BY <1>3, <2>1, <2>3, <3>1 DEF StringMove
  <2> QED BY <2>2, <2>3
<1>7. Len(S.stack) = 1 => S.expect = IF S.in_string THEN NeedValue ELSE NeedComma
  BY <1>1, <1>6
<1>8. WithinValue(S, C, L, k)
  <2>1. /\ L.skipping /\ L.phase = "comma" /\ L.open /\ L.nest = lt.nest
        /\ L.pair = lt.pair /\ L.want = lt.want
    BY <1>2, <1>5 DEF Others
  <2>2. C.count = L.pair + 1
    BY <1>2, <1>4, <2>1
  <2>3. L.nest = Len(S.stack) - 1
    BY <1>2, <1>6, <2>1
  <2> QED BY <1>1, <1>2, <1>5, <1>6, <1>7, <2>1, <2>2, <2>3 DEF WithinValue
<1>9. Tracks(S, C) /\ L.pair <= k
  BY <1>2, <1>4, <1>5, <1>6 DEF Tracks, Others
<1> QED BY <1>8, <1>9 DEF Meets

\* A byte of a value outside strings that stays below the root.
LEMMA StaysWithin ==
    ASSUME NEW st, NEW S, NEW C, NEW lt, NEW L, NEW ct, NEW k,
           WithinValue(st, ct, lt, k), L.pair <= k,
           L.skipping = lt.skipping, L.phase = lt.phase, L.open = lt.open,
           L.pair = lt.pair, L.want = lt.want, C.count = ct.count,
           S.stack # << >>, S.stack[1] = "object", L.nest = Len(S.stack) - 1,
           C.depth = Len(S.stack),
           L.instr <=> S.in_string, C.instr <=> S.in_string,
           S.in_string => (L.esc <=> S.esc) /\ (C.esc <=> S.esc),
           Len(S.stack) = 1 => S.expect = NeedComma /\ ~S.in_string
    PROVE  Meets(S, C, L, k)
<1>1. Tracks(S, C)
  BY DEF Tracks
<1>2. WithinValue(S, C, L, k)
  BY DEF WithinValue
<1> QED BY <1>1, <1>2 DEF Meets

LEMMA FromPlainWithin ==
    ASSUME NEW st, Sound(st), NEW S, Sound(S), NEW b, NEW c, Told(b, c),
           NEW ct \in CountStates, NEW C \in CountStates,
           NEW lt \in LocateStates, NEW L \in LocateStates,
           NEW i \in Nat, NEW k \in Nat, ~st.in_string,
           PlainMove(st, c, S), CountMove(ct, b, C), SkipMove(lt, b, i, L),
           Tracks(st, ct), lt.pair <= k, WithinValue(st, ct, lt, k)
    PROVE  Meets(S, C, L, k)
<1>1. PICK n \in Nat : n = Len(st.stack) /\ n > 0
  BY StackShape DEF WithinValue
<1>2. /\ st.stack # << >> /\ st.stack[1] = "object"
      /\ n = 1 => st.expect = NeedComma
  BY <1>1 DEF WithinValue
<1>3. /\ ~lt.instr /\ ~ct.instr /\ ct.depth = n /\ lt.nest = n - 1
      /\ ct.count = lt.pair + 1 /\ (lt.want <=> lt.pair = k)
      /\ lt.skipping /\ lt.phase = "comma" /\ lt.open
  BY <1>1 DEF WithinValue, Tracks
<1>4. st.stack \in Seq({"object", "array"}) /\ lt.pair \in Nat
  BY StackShape DEF LocateStates
<1> n > 1 \/ n = 1
  <2>1. PICK m \in Nat : m = n /\ m > 0
    BY <1>1
  <2> QED BY <2>1
<1>5. CASE c \notin {"quote", "{", "[", "}", "]", ":", ","}
  <2>1. b \notin {"quote", "{", "[", "}", "]", ":", ","}
    BY <1>5 DEF Told
  <2>2. L = lt
    BY <1>3, <2>1 DEF SkipMove, IsOpener, IsCloser
  <2>3. C.depth = ct.depth /\ C.count = ct.count /\ ~C.instr
    <3>1. ~C.instr
      BY <1>3, <2>1, CountPlain
    <3> QED BY <1>3, <2>1, <3>1 DEF CountMove, IsOpener, IsCloser
  <2>4. /\ S.stack = st.stack /\ ~S.in_string
        /\ n = 1 => S.expect = NeedComma
    <3>1. CASE S = st
      BY <1>2, <3>1
    <3>2. CASE S # st
      BY <1>2, <1>5, <3>2 DEF PlainMove, Keeps
    <3> QED BY <3>1, <3>2
  <2> QED BY <1>1, <1>2, <1>3, <2>2, <2>3, <2>4, StaysWithin
<1>6. CASE c = "quote"
  <2>1. b = "quote"
    BY <1>6 DEF Told
  <2>2. Others(L, lt, {"instr", "esc"}) /\ L.instr /\ ~L.esc
    BY <1>3, <2>1 DEF SkipMove, IsOpener, IsCloser
  <2>3. C.depth = ct.depth /\ C.count = ct.count /\ C.instr /\ ~C.esc
    BY <1>3, <2>1, CountPlain
  <2>4. /\ S.stack = st.stack /\ S.in_string /\ ~S.esc
        /\ st.expect \in {NeedValue, Fresh}
    BY <1>6 DEF PlainMove, IsSpace, IsLiteralChar, StartsLiteral, Keeps
  <2>5. n # 1
    BY <1>2, <2>4, AwaitsOne
  <2> QED BY <1>1, <1>2, <1>3, <2>2, <2>3, <2>4, <2>5, StaysWithin DEF Others
<1>7. CASE c \in {"{", "["}
  <2>1. IsOpener(b) /\ b # "quote" /\ ~IsCloser(b) /\ b # ","
    BY <1>7 DEF Told, IsOpener, IsCloser
  <2>2. Others(L, lt, {"nest"}) /\ L.nest = lt.nest + 1
    BY <1>3, <2>1 DEF SkipMove
  <2>3. C.depth = ct.depth + 1 /\ C.count = ct.count /\ ~C.instr
    <3>1. ~C.instr
      BY <1>3, <2>1, CountPlain
    <3>2. IsOpener(b) => C.depth = ct.depth + 1 /\ C.count = ct.count
      BY <1>3, CountPlain
    <3> QED BY <2>1, <3>1, <3>2
  <2>4. PICK kind \in {"object", "array"} : kind = KindOf(c)
    BY DEF KindOf
  <2>5. /\ S.stack = Append(st.stack, kind) /\ ~S.in_string
        /\ st.expect \in {NeedValue, Fresh}
    BY <1>7, <2>4 DEF PlainMove, IsSpace, IsLiteralChar, StartsLiteral, Keeps
  <2>6. n # 1
    BY <1>2, <2>5, AwaitsOne
  <2>7. Len(S.stack) = n + 1 /\ S.stack # << >> /\ S.stack[1] = "object"
    BY <1>1, <1>2, <1>4, <2>5, StackMoves
  <2>8. /\ L.nest = Len(S.stack) - 1 /\ C.depth = Len(S.stack)
        /\ Len(S.stack) # 1
    BY <1>1, <1>3, <2>2, <2>3, <2>7
  <2> QED BY <1>3, <2>2, <2>3, <2>5, <2>7, <2>8, StaysWithin DEF Others
<1>8. CASE c \in {"}", "]"}
  <2>1. IsCloser(b) /\ b # "quote" /\ ~IsOpener(b) /\ b # ","
    BY <1>8 DEF Told, IsOpener, IsCloser
  <2>2. C.depth = ct.depth - 1 /\ C.count = ct.count /\ ~C.instr
    <3>1. ~C.instr
      BY <1>3, <2>1, CountPlain
    <3>2. IsCloser(b) => C.depth = ct.depth - 1 /\ C.count = ct.count
      BY <1>3, CountPlain
    <3> QED BY <2>1, <3>1, <3>2
  <2>3. /\ S.stack = SubSeq(st.stack, 1, n - 1) /\ ~S.in_string
        /\ S.expect = IF n = 1 THEN Complete ELSE NeedComma
    BY <1>1, <1>8 DEF PlainMove, IsSpace, IsLiteralChar, StartsLiteral, Keeps
  <2>4. /\ Len(S.stack) = n - 1
        /\ n > 1 => S.stack # << >> /\ S.stack[1] = "object"
        /\ n = 1 => S.stack = << >>
    <3> DEFINE front == SubSeq(st.stack, 1, n - 1)
    <3>1. /\ Len(front) = n - 1
          /\ n > 1 => front # << >> /\ front[1] = st.stack[1]
          /\ n = 1 => front = << >>
      BY <1>1, <1>4, StackMoves
    <3> HIDE DEF front
    <3>2. S.stack = front
      BY <2>3 DEF front
    <3> QED BY <1>2, <3>1, <3>2
  <2>5. CASE n > 1
    <3>1. lt.nest > 0 /\ lt.nest # 0 /\ n # 1
      BY <1>3, <2>5
    <3>2. Others(L, lt, {"nest"}) /\ L.nest = lt.nest - 1
      BY <1>3, <2>1, <3>1 DEF SkipMove
    <3>3. L.nest = Len(S.stack) - 1 /\ C.depth = Len(S.stack)
      BY <1>1, <1>3, <2>2, <2>4, <3>2
    <3> QED BY <1>3, <2>2, <2>3, <2>4, <2>5, <3>1, <3>2, <3>3, StaysWithin DEF Others
  <2>6. CASE n = 1
    <3>1. lt.nest = 0 /\ ~(lt.nest > 0)
      BY <1>3, <2>6
    <3>2. EndMove(lt, b, i, L)
      BY <1>3, <2>1, <3>1 DEF SkipMove
    <3>3. CASE lt.want
      BY <3>2, <3>3 DEF EndMove, Meets, Halted
    <3>4. CASE ~lt.want
      <4>1. lt.pair < k
        BY <1>3, <1>4, <3>4
      <4>2. /\ ~L.skipping /\ ~L.instr /\ L.phase = "comma" /\ L.pair = lt.pair
        BY <1>3, <2>1, <3>2, <3>4 DEF EndMove
      <4>3. S.stack = << >> /\ ~S.in_string /\ S.expect = Complete /\ Len(S.stack) = 0
        BY <2>3, <2>4, <2>6
      <4>4. C.depth = 0
        BY <1>3, <2>2, <2>6
      <4>5. BehindRoot(S, C, L, k)
        BY <1>3, <2>2, <4>1, <4>2, <4>3 DEF BehindRoot, Idle
      <4> QED BY <2>2, <4>2, <4>3, <4>4, <4>5 DEF Meets, Tracks
    <3> QED BY <3>3, <3>4
  <2> QED BY <2>5, <2>6
<1>9. CASE c = ":"
  <2>1. b = ":" /\ b # "quote" /\ ~IsOpener(b) /\ ~IsCloser(b)
    BY <1>9 DEF Told, IsOpener, IsCloser
  <2>2. L = lt
    BY <1>3, <2>1 DEF SkipMove
  <2>3. /\ S.stack = st.stack /\ ~S.in_string /\ st.expect = NeedColon
    BY <1>9 DEF PlainMove, IsSpace, IsLiteralChar, StartsLiteral, Keeps
  <2>4. n # 1
    BY <1>2, <2>3, AwaitsOne
  <2>5. C.depth = ct.depth /\ C.count = ct.count /\ ~C.instr
    <3>1. ct.depth # 1
      BY <1>3, <2>4
    <3> QED BY <1>3, <2>1, <3>1 DEF CountMove
  <2> QED BY <1>1, <1>2, <1>3, <2>2, <2>3, <2>4, <2>5, StaysWithin
<1>10. CASE c = ","
  <2>1. b = "," /\ b # "quote" /\ ~IsOpener(b) /\ ~IsCloser(b) /\ b # ":"
    BY <1>10 DEF Told, IsOpener, IsCloser
  <2>2. /\ S.stack = st.stack /\ ~S.in_string
        /\ S.expect = IF Innermost(st) = "object" THEN Fresh ELSE NeedValue
    BY <1>10 DEF PlainMove, IsSpace, IsLiteralChar, StartsLiteral, Keeps
  <2>3. C.depth = ct.depth /\ C.count = ct.count /\ ~C.instr
    BY <1>3, <2>1 DEF CountMove
  <2>4. CASE n > 1
    <3>1. lt.nest # 0 /\ n # 1
      BY <1>3, <2>4
    <3>2. L = lt
      BY <1>3, <2>1, <3>1 DEF SkipMove
    <3> QED BY <1>1, <1>2, <1>3, <2>2, <2>3, <3>1, <3>2, StaysWithin
  <2>5. CASE n = 1
    <3>1. lt.nest = 0
      BY <1>3, <2>5
    <3>2. EndMove(lt, b, i, L)
      BY <1>3, <2>1, <3>1 DEF SkipMove
    <3>3. CASE lt.want
      BY <3>2, <3>3 DEF EndMove, Meets, Halted
    <3>4. CASE ~lt.want
      <4>1. lt.pair + 1 <= k
        BY <1>3, <1>4, <3>4
      <4>2. /\ ~L.skipping /\ ~L.instr /\ L.phase = "key" /\ L.open
            /\ L.pair = lt.pair + 1
        BY <1>3, <2>1, <3>2, <3>4 DEF EndMove
      <4>3. st.stack = <<"object">> /\ Innermost(st) = "object"
        BY <1>1, <1>2, <2>5, StackShape
      <4>4. BeforeKey(S, C, L)
        BY <1>3, <2>2, <2>3, <4>2, <4>3 DEF BeforeKey, InRoot, Idle
      <4>5. Tracks(S, C)
        BY <1>1, <1>3, <2>2, <2>3 DEF Tracks
      <4> QED BY <4>1, <4>2, <4>4, <4>5 DEF Meets
    <3> QED BY <3>3, <3>4
  <2> QED BY <2>4, <2>5
<1> QED BY <1>5, <1>6, <1>7, <1>8, <1>9, <1>10

\* A byte that is not at fault keeps the three in step.
LEMMA StepsMeet ==
    ASSUME NEW st, Sound(st), NEW b \in DocumentByte,
           NEW ct \in CountStates, NEW lt \in LocateStates,
           NEW i \in Nat, NEW k \in Nat,
           ~StepByte(st, Class(b)).bad, Meets(st, ct, lt, k)
    PROVE  Meets(StepByte(st, Class(b)).state, CountStep(ct, b),
                 LocateStep(lt, b, i, k), k)
<1> DEFINE c == Class(b)
           S == StepByte(st, c).state
           C == CountStep(ct, b)
           L == LocateStep(lt, b, i, k)
<1>1. c \in Byte /\ Told(b, c)
  BY ClassTold DEF Told
<1> HIDE DEF c
<1>2. Sound(S) /\ ~StepByte(st, c).bad
  BY <1>1, StepIsSound DEF c
<1>3. C \in CountStates /\ CountMove(ct, b, C)
  BY CountMoves
<1>4. L \in LocateStates
  BY LocateStepTyped
<1>5. st.in_string => StringMove(st, c, S)
  BY <1>1, <1>2, StringMoves
<1>6. ~st.in_string => PlainMove(st, c, S)
  BY <1>1, <1>2, PlainMoves
<1>7. ~Halted(lt) /\ lt.skipping => SkipMove(lt, b, i, L)
  BY SkipMoves
<1>8. ~Halted(lt) /\ ~lt.skipping /\ lt.instr => KeyMove(lt, b, i, L)
  BY KeyMoves
<1>9. ~Halted(lt) /\ ~lt.skipping /\ ~lt.instr => TokenMove(lt, b, i, k, L)
  BY TokenMoves
<1>10. Halted(lt) => Meets(S, C, L, k)
  BY HaltedStays DEF Meets
<1> HIDE DEF S, C, L
<1> SUFFICES ASSUME ~Halted(lt) PROVE Meets(S, C, L, k)
  BY <1>10 DEF S, C, L, c
<1>11. Tracks(st, ct) /\ lt.pair <= k
  BY DEF Meets
<1>12. CASE AtRoot(st, ct, lt)
  <2>1. PlainMove(st, c, S) /\ TokenMove(lt, b, i, k, L)
    BY <1>6, <1>9, <1>12 DEF AtRoot, Idle
  <2> QED BY <1>1, <1>2, <1>3, <1>4, <1>11, <1>12, <2>1, FromAtRoot
<1>13. CASE BeforeKey(st, ct, lt)
  <2>1. PlainMove(st, c, S) /\ TokenMove(lt, b, i, k, L)
    BY <1>6, <1>9, <1>13 DEF BeforeKey, InRoot, Idle
  <2> QED BY <1>1, <1>2, <1>3, <1>4, <1>11, <1>13, <2>1, FromBeforeKey
<1>14. CASE WithinKey(st, ct, lt)
  <2>1. StringMove(st, c, S) /\ KeyMove(lt, b, i, L)
    BY <1>5, <1>8, <1>14 DEF WithinKey
  <2> QED BY <1>1, <1>2, <1>3, <1>4, <1>11, <1>14, <2>1, FromWithinKey
<1>15. CASE BeforeColon(st, ct, lt)
  <2>1. PlainMove(st, c, S) /\ TokenMove(lt, b, i, k, L)
    BY <1>6, <1>9, <1>15 DEF BeforeColon, InRoot, Idle
  <2> QED BY <1>1, <1>2, <1>3, <1>4, <1>11, <1>15, <2>1, FromBeforeColon
<1>16. CASE BeforeValue(st, ct, lt)
  <2>1. PlainMove(st, c, S) /\ TokenMove(lt, b, i, k, L)
    BY <1>6, <1>9, <1>16 DEF BeforeValue, InRoot, Idle
  <2> QED BY <1>1, <1>2, <1>3, <1>4, <1>11, <1>16, <2>1, FromBeforeValue
<1>17. CASE WithinValue(st, ct, lt, k)
  <2>1. SkipMove(lt, b, i, L)
    BY <1>7, <1>17 DEF WithinValue
  <2>2. CASE st.in_string
    BY <1>1, <1>2, <1>3, <1>4, <1>5, <1>11, <1>17, <2>1, <2>2, FromStringWithin
  <2>3. CASE ~st.in_string
    BY <1>1, <1>2, <1>3, <1>4, <1>6, <1>11, <1>17, <2>1, <2>3, FromPlainWithin
  <2> QED BY <2>2, <2>3
<1>18. CASE BehindRoot(st, ct, lt, k)
  <2>1. PlainMove(st, c, S) /\ TokenMove(lt, b, i, k, L)
    BY <1>6, <1>9, <1>18 DEF BehindRoot, Idle
  <2> QED BY <1>1, <1>2, <1>3, <1>4, <1>11, <1>18, <2>1, FromBehindRoot
<1> QED BY <1>12, <1>13, <1>14, <1>15, <1>16, <1>17, <1>18 DEF Meets

-----------------------------------------------------------------------------

LEMMA ClassesTyped ==
    ASSUME NEW s \in Seq(DocumentByte)
    PROVE  /\ Classes(s) \in Seq(Byte) /\ Len(Classes(s)) = Len(s)
           /\ \A i \in 1..Len(s) : Classes(s)[i] = Class(s[i])
<1>1. PICK n \in Nat : n = Len(s)
  OBVIOUS
<1>2. ASSUME NEW i \in 1..n PROVE s[i] \in DocumentByte /\ Class(s[i]) \in Byte
  <2>1. s[i] \in DocumentByte
    BY <1>1
  <2> QED BY <2>1, ClassTold
<1>3. Classes(s) = [i \in 1..n |-> Class(s[i])]
  BY <1>1 DEF Classes
<1> QED BY <1>1, <1>2, <1>3

\* A scan that ends without a fault has met none on its way.
LEMMA NoFaultBefore ==
    ASSUME NEW st, Sound(st), NEW s \in Seq(Byte), NEW run, ScansAs(run, st, s),
           ~run[Len(s)].bad
    PROVE  \A i \in 1..Len(s) :
               /\ ~run[i - 1].bad /\ ~run[i].bad /\ Sound(run[i - 1].state)
               /\ run[i] = StepByte(run[i - 1].state, s[i])
<1>1. PICK n \in Nat : n = Len(s)
  OBVIOUS
<1>2. /\ run \in [0..n -> Steps]
      /\ \A i \in 1..n : run[i] = FoldByte(run[i - 1], s[i])
  BY <1>1 DEF ScansAs
<1> DEFINE Good == {j \in 0..n : ~run[n - j].bad}
<1>3. 0 \in Good
  <2>1. 0 \in 0..n /\ n - 0 = n
    OBVIOUS
  <2> QED BY <1>1, <2>1
<1>4. ASSUME NEW j \in 1..n, j - 1 \in Good PROVE j \in Good
  <2>1. PICK i \in 1..n : i = n - (j - 1) /\ i - 1 = n - j
    OBVIOUS
  <2>2. ~run[i].bad /\ run[i] = FoldByte(run[i - 1], s[i])
    BY <1>2, <1>4, <2>1
  <2>3. ~run[i - 1].bad
    BY <2>2 DEF FoldByte
  <2>4. j \in 0..n
    OBVIOUS
  <2> QED BY <2>1, <2>3, <2>4
<1>5. Good \in SUBSET (0..n)
  OBVIOUS
<1> HIDE DEF Good
<1>6. Good = 0..n
  BY <1>3, <1>4, <1>5, AtEveryPosition
<1>7. \A i \in 0..n : ~run[i].bad
  <2> SUFFICES ASSUME NEW i \in 0..n PROVE ~run[i].bad
    OBVIOUS
  <2>1. n - i \in 0..n /\ n - (n - i) = i
    OBVIOUS
  <2>2. n - i \in Good
    BY <1>6, <2>1
  <2>3. ~run[n - (n - i)].bad
    BY <2>2 DEF Good
  <2> QED BY <2>1, <2>3
<1> SUFFICES ASSUME NEW i \in 1..n
             PROVE  /\ ~run[i - 1].bad /\ ~run[i].bad /\ Sound(run[i - 1].state)
                    /\ run[i] = StepByte(run[i - 1].state, s[i])
  BY <1>1
<1>8. i - 1 \in 0..n /\ i \in 0..n
  OBVIOUS
<1>9. ~run[i - 1].bad /\ ~run[i].bad
  BY <1>7, <1>8
<1>10. run[i - 1] \in Steps
  BY <1>2, <1>8
<1>11. Sound(run[i - 1].state)
  BY <1>10 DEF Steps
<1>12. run[i] = FoldByte(run[i - 1], s[i])
  BY <1>2
<1> QED BY <1>9, <1>11, <1>12 DEF FoldByte

\* What the scanner calls complete.
IsComplete(step) ==
    ~step.bad /\ step.state.expect = Complete /\ step.state.stack = << >>

\* The scan of a document and the passes over it, position by position.
Together(run, counts, places, s, k) ==
    /\ ScansAs(run, SeedState, Classes(s)) /\ CountsAs(counts, s)
    /\ LocatesAs(places, s, k)

LEMMA RunsMeet ==
    ASSUME NEW s \in Seq(DocumentByte), NEW k \in Nat, NEW run, NEW counts,
           NEW places, Together(run, counts, places, s, k),
           ~OneShot(Classes(s)).bad
    PROVE  /\ OneShot(Classes(s)) = run[Len(s)]
           /\ \A i \in 1..Len(s) :
                  /\ Sound(run[i - 1].state) /\ ~run[i].bad
                  /\ run[i] = StepByte(run[i - 1].state, Class(s[i]))
           /\ \A i \in 0..Len(s) : Meets(run[i].state, counts[i], places[i], k)
<1>1. PICK n \in Nat : n = Len(s) /\ n \in 0..n
  OBVIOUS
<1> DEFINE cs == Classes(s)
<1>2. /\ cs \in Seq(Byte) /\ Len(cs) = n
      /\ \A i \in 1..n : cs[i] = Class(s[i]) /\ s[i] \in DocumentByte
  BY <1>1, ClassesTyped
<1>3. ScansAs(run, SeedState, cs) /\ CountsAs(counts, s) /\ LocatesAs(places, s, k)
      /\ ~OneShot(cs).bad
  BY DEF Together
<1> HIDE DEF cs
<1>4. /\ run[0] = Ok(SeedState) /\ OneShot(cs) = run[n]
  BY <1>2, <1>3 DEF ScansAs, OneShot
<1>5. \A i \in 1..n : /\ ~run[i - 1].bad /\ ~run[i].bad /\ Sound(run[i - 1].state)
                      /\ run[i] = StepByte(run[i - 1].state, cs[i])
  BY <1>2, <1>3, <1>4, SeedIsSound, NoFaultBefore
<1>6. /\ counts \in [0..n -> CountStates] /\ counts[0] = CountSeed
      /\ \A i \in 1..n : counts[i] = CountStep(counts[i - 1], s[i])
  BY <1>1, <1>3 DEF CountsAs
<1>7. /\ places \in [0..n -> LocateStates] /\ places[0] = LocateSeed
      /\ \A i \in 1..n : places[i] = LocateStep(places[i - 1], s[i], i - 1, k)
  BY <1>1, <1>3 DEF LocatesAs
<1> DEFINE Good == {i \in 0..n : Meets(run[i].state, counts[i], places[i], k)}
<1>8. 0 \in Good
  <2>1. run[0].state = SeedState
    BY <1>4 DEF Ok
  <2>2. AtRoot(SeedState, CountSeed, LocateSeed)
    BY DEF AtRoot, SeedState, CountSeed, LocateSeed, Idle
  <2>3. Tracks(SeedState, CountSeed) /\ LocateSeed.pair <= k
    BY DEF Tracks, SeedState, CountSeed, LocateSeed
  <2>4. Meets(run[0].state, counts[0], places[0], k)
    BY <1>6, <1>7, <2>1, <2>2, <2>3 DEF Meets
  <2> QED BY <2>4
<1>9. ASSUME NEW i \in 1..n, i - 1 \in Good PROVE i \in Good
  <2>1. i - 1 \in 0..n /\ i - 1 \in Nat /\ i \in 0..n
    OBVIOUS
  <2> DEFINE st == run[i - 1].state
             ct == counts[i - 1]
             lt == places[i - 1]
  <2>2. ct \in CountStates /\ lt \in LocateStates
    BY <1>6, <1>7, <2>1
  <2>3. Sound(st) /\ Meets(st, ct, lt, k)
    BY <1>5, <1>9
  <2>4. run[i] = StepByte(st, Class(s[i])) /\ ~StepByte(st, Class(s[i])).bad
    BY <1>2, <1>5
  <2>5. counts[i] = CountStep(ct, s[i]) /\ places[i] = LocateStep(lt, s[i], i - 1, k)
    BY <1>6, <1>7
  <2>6. s[i] \in DocumentByte
    BY <1>2
  <2> HIDE DEF st, ct, lt
  <2>7. Meets(StepByte(st, Class(s[i])).state, CountStep(ct, s[i]),
              LocateStep(lt, s[i], i - 1, k), k)
    BY <2>1, <2>2, <2>3, <2>4, <2>6, StepsMeet
  <2> QED BY <2>1, <2>4, <2>5, <2>7
<1>10. Good \in SUBSET (0..n)
  OBVIOUS
<1> HIDE DEF Good
<1>11. Good = 0..n
  BY <1>8, <1>9, <1>10, AtEveryPosition
<1> QED BY <1>1, <1>2, <1>4, <1>5, <1>11 DEF Good, cs

LEMMA RunsTogether ==
    ASSUME NEW s \in Seq(DocumentByte), NEW k \in Nat
    PROVE  \E run, counts, places :
               /\ Together(run, counts, places, s, k)
               /\ PairCount(s) = counts[Len(s)].count
               /\ LocatePair(s, k) = LocatedBy(places[Len(s)])
<1>1. PICK run : ScansAs(run, SeedState, Classes(s))
  BY ClassesTyped, SeedIsSound, ScanRuns
<1>2. PICK counts : CountsAs(counts, s) /\ PairCount(s) = counts[Len(s)].count
  BY CountRuns
<1>3. PICK places : /\ LocatesAs(places, s, k)
                    /\ LocatePair(s, k) = LocatedBy(places[Len(s)])
  BY LocateRuns
<1> QED BY <1>1, <1>2, <1>3 DEF Together

\* In a document the scanner accepts, no index below the count is past the
\* last pair.
LEMMA CountedIsLocated ==
    ASSUME NEW s \in Seq(DocumentByte), NEW k \in Nat,
           IsComplete(OneShot(Classes(s))), k < PairCount(s)
    PROVE  LocatePair(s, k).status # "end"
<1>1. PICK n \in Nat : n = Len(s) /\ n \in 0..n
  OBVIOUS
<1>2. PICK run, counts, places :
          /\ Together(run, counts, places, s, k)
          /\ PairCount(s) = counts[n].count
          /\ LocatePair(s, k) = LocatedBy(places[n])
  BY <1>1, RunsTogether
<1>3. /\ OneShot(Classes(s)) = run[n]
      /\ Meets(run[n].state, counts[n], places[n], k)
  BY <1>1, <1>2, RunsMeet DEF IsComplete
<1>4. counts[n] \in CountStates /\ places[n] \in LocateStates
  BY <1>1, <1>2 DEF Together, CountsAs, LocatesAs
<1>5. run[n].state.expect = Complete /\ run[n].state.stack = << >>
  BY <1>3 DEF IsComplete
<1> DEFINE S == run[n].state
           C == counts[n]
           L == places[n]
<1>6. C.count \in Nat /\ L.pair \in Nat /\ k < C.count
  <2>1. C.count \in Nat /\ L.pair \in Nat
    BY <1>4 DEF CountStates, LocateStates
  <2> QED BY <1>2, <2>1
<1>7. S.stack # <<"object">>
  BY <1>5
<1> HIDE DEF S, C, L
<1>8. Meets(S, C, L, k)
  BY <1>3 DEF S, C, L
<1>9. Halted(L)
  <2> SUFFICES ASSUME ~Halted(L) PROVE FALSE
    OBVIOUS
  <2>1. AtRoot(S, C, L) \/ BehindRoot(S, C, L, k)
    BY <1>5, <1>7, <1>8 DEF Meets, S, BeforeKey, WithinKey, BeforeColon,
       BeforeValue, WithinValue, InRoot
  <2>2. L.pair <= k
    BY <1>8 DEF Meets
  <2>3. CASE AtRoot(S, C, L)
    <3>1. C.count = L.pair
      BY <2>3 DEF AtRoot
    <3> QED BY <1>6, <2>2, <3>1
  <2>4. CASE BehindRoot(S, C, L, k)
    <3>1. C.count = L.pair + 1 /\ L.pair < k
      BY <2>4 DEF BehindRoot
    <3> QED BY <1>6, <3>1
  <2> QED BY <2>1, <2>3, <2>4
<1>10. LocatePair(s, k) = LocatedBy(L)
  BY <1>2 DEF L
<1>11. LocatedBy(L).status # "end"
  BY <1>9, Zenon DEF LocatedBy, Halted
<1> QED BY <1>10, <1>11

-----------------------------------------------------------------------------
(* The scan of a whole document, and what its end says of the document.     *)

\* What has been scanned is the beginning of the document; what is called
\* complete has been scanned to its end.
Read ==
    /\ Inv /\ Scanned /\ document \in Manifests
    /\ Len(doc) <= Len(text)
    /\ \A i \in 1..Len(doc) : doc[i] = Class(text[i])
    /\ verdict = "complete" =>
           pc = "done" /\ Len(doc) = Len(text) /\ IsComplete(OneShot(doc))

LEMMA TextTyped ==
    ASSUME document \in Manifests
    PROVE  text \in Seq(DocumentByte) /\ Len(text) \in Nat
BY IngestAssumption DEF text

LEMMA IngestIsScan ==
    ASSUME Read, [IngestNext]_ingestVars
    PROVE  [AnyNext]_vars /\ document' = document
<1>1. CASE ScanView
  <2>1. document' = document
    BY <1>1 DEF ScanView, given
  <2>2. CASE BeginView \/ SkipByte \/ EndView
    BY <2>1, <2>2 DEF AnyNext
  <2>3. CASE ~ViewEnds /\ ScanByte(Class(text[base + count + 1]))
    <3> DEFINE n == Len(text)
    <3>1. text \in Seq(DocumentByte) /\ n \in Nat
      BY TextTyped DEF Read
    <3>2. /\ base + count = Len(doc) /\ Len(doc) \in Nat /\ Len(doc) <= n
          /\ base + count # n
      BY <2>3 DEF Read, Scanned, ScanByte, Inv, TypeOK, ViewEnds
    <3> HIDE DEF n
    <3>3. base + count + 1 \in 1..n
      BY <3>1, <3>2
    <3>4. text[base + count + 1] \in DocumentByte
      BY <3>1, <3>3 DEF n
    <3>5. Class(text[base + count + 1]) \in Byte
      BY <3>4, ClassTold
    <3> QED BY <2>1, <2>3, <3>5 DEF AnyNext
  <2> QED BY <1>1, <2>2, <2>3 DEF ScanView
<1>2. CASE CloseInput
  BY <1>2 DEF CloseInput, given, AnyNext
<1>3. CASE RefuseStructure \/ CountPairs \/ ReadPair \/ AllRead
           \/ UNCHANGED ingestVars
  BY <1>3 DEF RefuseStructure, CountPairs, ReadPair, AllRead, Stop, ingestVars,
     given
<1> QED BY <1>1, <1>2, <1>3 DEF IngestNext

LEMMA InitRead == IngestInit => Read
<1> SUFFICES ASSUME IngestInit PROVE Read
  OBVIOUS
<1>1. Init /\ document \in Manifests
  BY DEF IngestInit
<1>2. Inv /\ Scanned
  BY <1>1, InitInv, InitScanned
<1>3. doc = << >> /\ verdict = "none" /\ Len(<< >>) = 0
  BY <1>1 DEF Init
<1>4. Len(text) \in Nat
  BY <1>1, TextTyped
<1> QED BY <1>1, <1>2, <1>3, <1>4 DEF Read

LEMMA NextRead == Read /\ [IngestNext]_ingestVars => Read'
<1> SUFFICES ASSUME Read, [IngestNext]_ingestVars PROVE Read'
  OBVIOUS
<1>1. [AnyNext]_vars /\ document' = document /\ text' = text
  BY IngestIsScan DEF text
<1>2. Inv' /\ Scanned'
  BY <1>1, AnyNextInv, AnyNextScanned DEF Read
<1>3. doc \in Seq(Byte) /\ Len(doc) \in Nat /\ Len(text) \in Nat
  BY TextTyped DEF Read, Inv, TypeOK
<1>4. CASE doc' = doc /\ verdict' # "complete"
  BY <1>1, <1>2, <1>4 DEF Read
<1>5. CASE doc' = doc /\ verdict' = verdict /\ pc' = pc
  BY <1>1, <1>2, <1>5 DEF Read
<1>6. CASE CloseInput
  <2>1. base = Len(text) /\ EndOfInput
    BY <1>6 DEF CloseInput
  <2>2. /\ doc' = doc /\ pc' = "done"
        /\ verdict' = "complete" => state.expect = Complete /\ state.stack = << >>
    BY <2>1 DEF EndOfInput
  <2>3. OneShot(doc) = Ok(state) /\ base = Len(doc)
    BY <2>1 DEF EndOfInput, Read, Scanned
  <2>4. verdict' = "complete" => IsComplete(OneShot(doc))
    BY <2>2, <2>3 DEF IsComplete, Ok
  <2> QED BY <1>1, <1>2, <2>1, <2>2, <2>3, <2>4 DEF Read
<1>7. CASE ScanView
  <2>1. CASE BeginView \/ SkipByte
    BY <1>4, <2>1 DEF BeginView, SkipByte, Read
  <2>2. CASE EndView
    BY <1>4, <2>2 DEF EndView
  <2>3. CASE ~ViewEnds /\ ScanByte(Class(text[base + count + 1]))
    <3>1. PICK n \in Nat : n = Len(doc)
      BY <1>3
    <3>2. base + count = n /\ base + count # Len(text) /\ n <= Len(text)
      BY <2>3, <3>1 DEF Read, Scanned, ScanByte, ViewEnds
    <3> DEFINE b == Class(text[n + 1])
    <3>3. /\ doc' = Append(doc, b) /\ verdict' = verdict /\ pc' = pc
          /\ pc = "scan"
      BY <2>3, <3>2 DEF ScanByte
    <3>4. b \in Byte
      <4>1. text \in Seq(DocumentByte) /\ n + 1 \in 1..Len(text)
        BY <1>3, <3>1, <3>2, TextTyped DEF Read
      <4>2. text[n + 1] \in DocumentByte
        BY <4>1
      <4> QED BY <4>2, ClassTold
    <3> HIDE DEF b
    <3>5. /\ Len(doc') = n + 1 /\ doc'[n + 1] = b
          /\ \A i \in 1..n : doc'[i] = doc[i]
      BY <1>3, <3>1, <3>3, <3>4, AppendProperties
    <3>6. \A i \in 1..(n + 1) : doc'[i] = Class(text[i])
      <4> SUFFICES ASSUME NEW i \in 1..(n + 1) PROVE doc'[i] = Class(text[i])
        OBVIOUS
      <4>1. CASE i = n + 1
        BY <3>5, <4>1 DEF b
      <4>2. CASE i # n + 1
        <5>1. i \in 1..n
          BY <4>2
        <5> QED BY <3>1, <3>5, <5>1 DEF Read
      <4> QED BY <4>1, <4>2
    <3>7. n + 1 <= Len(text)
      BY <1>3, <3>1, <3>2
    <3>8. verdict' # "complete"
      BY <3>3 DEF Read
    <3> QED BY <1>1, <1>2, <3>5, <3>6, <3>7, <3>8 DEF Read
  <2> QED BY <1>7, <2>1, <2>2, <2>3 DEF ScanView
<1>8. CASE RefuseStructure \/ CountPairs \/ ReadPair \/ AllRead
           \/ UNCHANGED ingestVars
  BY <1>5, <1>8 DEF RefuseStructure, CountPairs, ReadPair, AllRead, Stop,
     ingestVars, vars
<1> QED BY <1>6, <1>7, <1>8 DEF IngestNext

\* A document called complete is one the scanner accepts at once.
LEMMA CompleteIsAccepted ==
    ASSUME Read, verdict = "complete"
    PROVE  IsComplete(OneShot(Classes(text)))
<1>1. text \in Seq(DocumentByte)
  BY TextTyped DEF Read
<1>2. /\ doc \in Seq(Byte) /\ Len(doc) = Len(text) /\ IsComplete(OneShot(doc))
      /\ \A i \in 1..Len(doc) : doc[i] = Class(text[i])
  BY DEF Read, Inv, TypeOK
<1> DEFINE cs == Classes(text)
<1>3. /\ cs \in Seq(Byte) /\ Len(cs) = Len(text)
      /\ \A i \in 1..Len(text) : cs[i] = Class(text[i])
  BY <1>1, ClassesTyped
<1> HIDE DEF cs
<1>4. doc = cs
  BY <1>2, <1>3
<1> QED BY <1>2, <1>4 DEF cs

-----------------------------------------------------------------------------
(* The count of the pairs, and the pairs. *)

\* Pairs are read of complete documents only, as many as were counted.
Counted ==
    /\ outcome # "running" => pc = "done"
    /\ outcome = "extracting" \/ pairs # << >> => verdict = "complete"
    /\ outcome = "extracting" => expected = PairCount(text)
    /\ CountMeetsLocate

LEMMA PairCountTyped == ASSUME NEW S, NEW s \in Seq(S) PROVE PairCount(s) \in Nat
<1>1. PICK run : CountsAs(run, s) /\ PairCount(s) = run[Len(s)].count
  BY CountRuns
<1>2. PICK n \in Nat : n = Len(s) /\ n \in 0..n
  OBVIOUS
<1>3. run[n] \in CountStates
  BY <1>1, <1>2 DEF CountsAs
<1> QED BY <1>1, <1>2, <1>3 DEF CountStates

\* A pair that is not read is refused for what it is, unless there is none.
LEMMA PairStatus ==
    ASSUME NEW s, NEW k, LocatePair(s, k).status # "end"
    PROVE  PairAt(s, k).status \in {"ok", "malformed", "overlong"}
<1> DEFINE loc == LocatePair(s, k)
           first == s[loc.value[1] + 1]
           Told3(x) == x.status \in {"ok", "malformed", "overlong"}
<1>1. loc.status \in {"ok", "malformed", "overlong"}
  <2>1. PICK st : loc = LocatedBy(st)
    BY DEF LocatePair, LocatedBy
  <2> HIDE DEF loc
  <2>2. LocatedBy(st).status \in {"ok", "malformed", "overlong", "end"}
    BY Zenon DEF LocatedBy
  <2> QED BY <2>1, <2>2 DEF loc
<1> HIDE DEF loc
<1>2. \A v : Told3(Pair(s, loc, v))
  BY DEF Pair
<1>3. Told3(Refusal("malformed")) /\ Told3(Refusal("overlong"))
  BY DEF Refusal
<1> HIDE DEF Told3
<1>4. Told3(ReadString(s, loc))
  BY <1>2, <1>3, Zenon DEF ReadString
<1>5. \A word, v : Told3(ReadLiteral(s, loc, word, v))
  BY <1>2, <1>3, Zenon DEF ReadLiteral
<1>6. Told3(ReadInt(s, loc))
  BY <1>2, <1>3, Zenon DEF ReadInt
<1>7. CASE loc.status # "ok"
  <2>1. PairAt(s, k) = Refusal(loc.status)
    BY <1>7 DEF PairAt, loc
  <2>2. Refusal(loc.status).status = loc.status
    BY DEF Refusal
  <2> QED BY <1>1, <2>1, <2>2
<1>8. CASE loc.status = "ok"
  <2> DEFINE c1 == first = "quote"
             c2 == IsOpener(first)
             c3 == first = "t"
             c4 == first = "f"
             c5 == first \in DOMAIN Digit \cup {"-"}
             v1 == ReadString(s, loc)
             v2 == Pair(s, loc, [nested |-> loc.value])
             v3 == ReadLiteral(s, loc, <<"t", "r", "u", "e">>, TRUE)
             v4 == ReadLiteral(s, loc, <<"f", "a", "l", "s", "e">>, FALSE)
             v5 == ReadInt(s, loc)
  <2>1. PairAt(s, k) = CASE c1 -> v1 [] c2 -> v2 [] c3 -> v3 [] c4 -> v4
                         [] c5 -> v5 [] OTHER -> Refusal("malformed")
    BY <1>8, Zenon DEF PairAt, loc
  <2>2. Told3(v1) /\ Told3(v2) /\ Told3(v3) /\ Told3(v4) /\ Told3(v5)
    BY <1>2, <1>4, <1>5, <1>6
  <2> HIDE DEF c1, c2, c3, c4, c5, v1, v2, v3, v4, v5
  <2>3. Told3(PairAt(s, k))
    BY <1>3, <2>1, <2>2, Zenon
  <2> QED BY <2>3 DEF Told3
<1> QED BY <1>7, <1>8

LEMMA InitCounted == IngestInit => Counted
BY DEF IngestInit, Counted, CountMeetsLocate

LEMMA NextCounted ==
    Read /\ PairsRead /\ Counted /\ [IngestNext]_ingestVars => Counted'
<1> SUFFICES ASSUME Read, PairsRead, Counted, [IngestNext]_ingestVars
             PROVE  Counted'
  OBVIOUS
<1>1. text' = text
  BY IngestIsScan DEF text
<1>2. text \in Seq(DocumentByte) /\ PairCount(text) \in Nat
  BY TextTyped, PairCountTyped DEF Read
<1>3. MaxPairs \in Nat
  BY IngestAssumption
<1>4. ASSUME NEW code, Stop(code), pc = "done",
             code # "extracting", code = "language" => PairCount(text) > MaxPairs
      PROVE  Counted'
  <2>1. /\ outcome' = code /\ pc' = pc /\ verdict' = verdict
        /\ pairs' = pairs \/ pairs' = << >>
    BY <1>4 DEF Stop, vars
  <2> QED BY <1>1, <1>4, <2>1 DEF Counted, CountMeetsLocate
<1>5. CASE ScanView \/ CloseInput
  <2>1. outcome' = outcome /\ pairs' = pairs /\ pc # "done" /\ expected' = expected
    BY <1>5 DEF ScanView, CloseInput, BeginView, ScanByte, SkipByte, EndView,
       EndOfInput
  <2>2. outcome = "running"
    BY <2>1 DEF Counted
  <2>3. pairs = << >>
    <3>1. verdict # "complete"
      BY <2>1 DEF Read
    <3> QED BY <3>1 DEF Counted
  <2> QED BY <2>1, <2>2, <2>3 DEF Counted, CountMeetsLocate
<1>6. CASE RefuseStructure
  BY <1>4, <1>6 DEF RefuseStructure
<1>7. CASE CountPairs
  <2>1. pc = "done" /\ verdict = "complete"
    BY <1>7 DEF CountPairs
  <2>2. CASE Stop("overlong")
    BY <1>4, <2>1, <2>2
  <2>3. CASE PairCount(text) \notin 0..MaxPairs /\ Stop("language")
    <3>1. PairCount(text) > MaxPairs
      BY <1>2, <1>3, <2>3
    <3> QED BY <1>4, <2>1, <2>3, <3>1
  <2>4. CASE /\ outcome' = "extracting" /\ expected' = PairCount(text)
             /\ UNCHANGED <<vars, given, pairs>>
    <3>1. pc' = pc /\ verdict' = verdict
      BY <2>4 DEF vars
    <3> QED BY <1>1, <2>1, <2>4, <3>1 DEF Counted, CountMeetsLocate
  <2> QED BY <1>7, <2>2, <2>3, <2>4 DEF CountPairs
<1>8. CASE ReadPair
  <2>1. outcome = "extracting" /\ Len(pairs) < expected
    BY <1>8 DEF ReadPair
  <2>2. pc = "done" /\ verdict = "complete" /\ expected = PairCount(text)
    BY <2>1 DEF Counted
  <2> DEFINE pair == PairAt(text, Len(pairs))
  <2>3. Len(pairs) \in Nat
    BY DEF PairsRead
  <2>4. pair.status \in {"ok", "malformed", "overlong"}
    <3>1. LocatePair(text, Len(pairs)).status # "end"
      BY <1>2, <2>1, <2>2, <2>3, CompleteIsAccepted, CountedIsLocated
    <3> QED BY <3>1, PairStatus
  <2>5. \/ /\ pair.status = "ok"
           /\ pairs' = Append(pairs, pair)
           /\ UNCHANGED <<vars, given, expected, outcome>>
        \/ /\ pair.status # "ok"
           /\ Stop(IF pair.status = "end" THEN "language" ELSE pair.status)
    BY <1>8 DEF ReadPair
  <2> HIDE DEF pair
  <2>6. CASE pair.status = "ok"
    <3>1. /\ pc' = pc /\ verdict' = verdict /\ outcome' = outcome
          /\ expected' = expected
      BY <2>5, <2>6 DEF vars
    <3> QED BY <1>1, <2>1, <2>2, <3>1 DEF Counted, CountMeetsLocate
  <2>7. CASE pair.status # "ok"
    <3>1. Stop(pair.status) /\ pair.status \in {"malformed", "overlong"}
      BY <2>4, <2>5, <2>7
    <3> QED BY <1>4, <2>2, <3>1
  <2> QED BY <2>6, <2>7
<1>9. CASE AllRead
  BY <1>4, <1>9 DEF AllRead, Counted
<1>10. CASE UNCHANGED ingestVars
  BY <1>1, <1>10 DEF ingestVars, vars, Counted, CountMeetsLocate
<1> QED BY <1>5, <1>6, <1>7, <1>8, <1>9, <1>10 DEF IngestNext

\* The pass that counts and the pass that locates, each with state of its own,
\* agree on what a pair is: no index below the count is past the last pair,
\* whatever the scanner accepts.
THEOREM IngestCountMeetsLocate == IngestSpec => []CountMeetsLocate
<1>1. Counted => CountMeetsLocate
  BY DEF Counted
<1> QED
  BY <1>1, InitRead, NextRead, InitPairsRead, NextPairsRead, InitCounted,
     NextCounted, PTL DEF IngestSpec

-----------------------------------------------------------------------------
(* A value that is a container, scanned within the document and as a         *)
(* document of its own.                                                     *)

\* The one stack is the other one upon the root's object.
Above(stack, inner) ==
    /\ inner \in Seq({"object", "array"})
    /\ Len(stack) = Len(inner) + 1 /\ stack[1] = "object"
    /\ \A j \in 1..Len(inner) : stack[j + 1] = inner[j]

\* Nothing but the depth tells the states within the container apart.
Alike(st, in) ==
    /\ in.stack # << >> /\ Above(st.stack, in.stack)
    /\ st.expect = in.expect /\ st.in_string = in.in_string /\ st.esc = in.esc
    /\ st.in_literal = in.in_literal /\ st.after_comma = in.after_comma

\* The container has closed.
Closed(st, in) ==
    /\ in.stack = << >> /\ in.expect = Complete
    /\ Len(st.stack) = 1 /\ ~st.in_string /\ ~st.in_literal
    /\ st.expect = NeedComma

LEMMA AboveMoves ==
    ASSUME NEW stack \in Seq({"object", "array"}), NEW inner, Above(stack, inner),
           NEW n \in Nat, n = Len(inner)
    PROVE  /\ n > 0 => stack[Len(stack)] = inner[n] /\ inner # << >>
           /\ \A kind \in {"object", "array"} :
                  Above(Append(stack, kind), Append(inner, kind))
           /\ n > 0 => Above(SubSeq(stack, 1, n), SubSeq(inner, 1, n - 1))
<1>1. /\ inner \in Seq({"object", "array"}) /\ Len(stack) = n + 1
      /\ stack[1] = "object" /\ \A j \in 1..n : stack[j + 1] = inner[j]
  BY DEF Above
<1>2. n > 0 => stack[Len(stack)] = inner[n] /\ inner # << >>
  <2> SUFFICES ASSUME n > 0 PROVE stack[Len(stack)] = inner[n] /\ inner # << >>
    OBVIOUS
  <2>1. n \in 1..n
    OBVIOUS
  <2>2. stack[n + 1] = inner[n]
    BY <1>1, <2>1
  <2> QED BY <1>1, <2>2
<1>3. ASSUME NEW kind \in {"object", "array"}
      PROVE  Above(Append(stack, kind), Append(inner, kind))
  <2> DEFINE long == Append(stack, kind)
             more == Append(inner, kind)
  <2>1. /\ Len(long) = n + 2 /\ long[n + 2] = kind
        /\ \A j \in 1..(n + 1) : long[j] = stack[j]
    BY <1>1, AppendProperties
  <2>2. /\ more \in Seq({"object", "array"}) /\ Len(more) = n + 1
        /\ more[n + 1] = kind /\ \A j \in 1..n : more[j] = inner[j]
    BY <1>1, AppendProperties
  <2> HIDE DEF long, more
  <2>3. ASSUME NEW j \in 1..(n + 1) PROVE long[j + 1] = more[j]
    <3>1. CASE j = n + 1
      BY <2>1, <2>2, <3>1
    <3>2. CASE j # n + 1
      <4>1. j \in 1..n /\ j + 1 \in 1..(n + 1)
        BY <3>2
      <4> QED BY <1>1, <2>1, <2>2, <4>1
    <3> QED BY <3>1, <3>2
  <2>4. long[1] = "object"
    BY <1>1, <2>1
  <2>5. Above(long, more)
    BY <2>1, <2>2, <2>3, <2>4 DEF Above
  <2> QED BY <2>5 DEF long, more
<1>4. n > 0 => Above(SubSeq(stack, 1, n), SubSeq(inner, 1, n - 1))
  <2> SUFFICES ASSUME n > 0
               PROVE  Above(SubSeq(stack, 1, n), SubSeq(inner, 1, n - 1))
    OBVIOUS
  <2> DEFINE front == SubSeq(stack, 1, n)
             less == SubSeq(inner, 1, n - 1)
  <2>1. Len(front) = n /\ \A j \in 1..n : front[j] = stack[j]
    BY <1>1
  <2>2. /\ less \in Seq({"object", "array"}) /\ Len(less) = n - 1
        /\ \A j \in 1..(n - 1) : less[j] = inner[j]
    BY <1>1
  <2> HIDE DEF front, less
  <2>3. ASSUME NEW j \in 1..(n - 1) PROVE front[j + 1] = less[j]
    <3>1. j \in 1..n /\ j + 1 \in 1..n
      OBVIOUS
    <3> QED BY <1>1, <2>1, <2>2, <3>1
  <2>4. front[1] = "object"
    BY <1>1, <2>1
  <2>5. Above(front, less)
    BY <2>1, <2>2, <2>3, <2>4 DEF Above
  <2> QED BY <2>5 DEF front, less
<1> QED BY <1>2, <1>3, <1>4

\* Whether a literal is open after a byte outside strings.
LEMMA LiteralMoves ==
    ASSUME NEW st, NEW c \in Byte, Sound(st), ~st.in_string,
           ~StepByte(st, c).bad,
           ~(IsSpace(c) \/ (st.in_literal /\ IsLiteralChar(c)))
    PROVE  StepByte(st, c).state.in_literal <=> StartsLiteral(c)
<1> DEFINE clear == [st EXCEPT !.in_literal = FALSE]
<1>1. StepByte(st, c) = OpenToken(clear, c)
  BY DEF StepByte, StepToken
<1>2. clear \in States /\ clear.in_literal = FALSE
  BY DEF Sound, SoundLanes, States
<1> HIDE DEF clear
<1> DEFINE Shut(step) == step.state.in_literal = FALSE
<1>3. \A x : Shut(Bad(x)) <=> x.in_literal = FALSE
  BY DEF Bad
<1>4. Shut(OpenString(clear)) /\ Shut(Colon(clear)) /\ Shut(Comma(clear))
  BY <1>2 DEF States, OpenString, Colon, Comma, Ok, Bad
<1>5. \A kind \in {"object", "array"} :
          Shut(OpenContainer(clear, kind)) /\ Shut(CloseContainer(clear, kind))
  <2> SUFFICES ASSUME NEW kind \in {"object", "array"}
               PROVE  Shut(OpenContainer(clear, kind))
                      /\ Shut(CloseContainer(clear, kind))
    OBVIOUS
  <2>1. Shut(OpenContainer(clear, kind))
    BY <1>2 DEF States, OpenContainer, Ok, Bad
  <2>2. Shut(CloseContainer(clear, kind))
    BY <1>2 DEF States, CloseContainer, Ok, Bad
  <2> QED BY <2>1, <2>2
<1>6. CASE StartsLiteral(c)
  <2>1. StepByte(st, c) = OpenLiteral(clear)
    BY <1>1, <1>6 DEF OpenToken, StartsLiteral
  <2>2. OpenLiteral(clear).bad \/ OpenLiteral(clear).state.in_literal
    BY <1>2 DEF States, OpenLiteral, Ok, Bad
  <2> QED BY <1>6, <2>1, <2>2
<1>7. CASE ~StartsLiteral(c)
  <2> HIDE DEF Shut
  <2>1. Shut(OpenToken(clear, c))
    BY <1>2, <1>3, <1>4, <1>5, <1>7 DEF OpenToken
  <2> QED BY <1>1, <1>7, <2>1 DEF Shut
<1> QED BY <1>6, <1>7

LEMMA AlikeInnermost ==
    ASSUME NEW st, NEW in, Sound(st), Alike(st, in)
    PROVE  /\ Innermost(st) = Innermost(in) /\ st.stack # << >>
           /\ Len(in.stack) \in Nat /\ Len(in.stack) > 0
           /\ Len(st.stack) = Len(in.stack) + 1
           /\ st.stack \in Seq({"object", "array"})
           /\ in.stack \in Seq({"object", "array"})
<1>1. st.stack \in Seq({"object", "array"}) /\ in.stack \in Seq({"object", "array"})
      /\ Len(st.stack) = Len(in.stack) + 1
  BY StackShape DEF Alike, Above
<1>2. PICK n \in Nat : n = Len(in.stack)
  BY <1>1
<1>3. n > 0
  <2>1. in.stack # << >>
    BY DEF Alike
  <2> QED BY <1>1, <1>2, <2>1
<1>4. st.stack # << >>
  BY <1>1, <1>2, <1>3
<1>5. st.stack[Len(st.stack)] = in.stack[n]
  BY <1>1, <1>2, <1>3, AboveMoves DEF Alike
<1> QED BY <1>1, <1>2, <1>3, <1>4, <1>5 DEF Innermost, Alike

\* A byte that is not at fault below the root is none in the container.
LEMMA AlikeInString ==
    ASSUME NEW st, NEW in, Sound(st), Alike(st, in), st.in_string, NEW c \in Byte,
           ~StepByte(st, c).bad
    PROVE  ~StepByte(in, c).bad
<1>1. StepByte(st, c) = StepString(st, c) /\ StepByte(in, c) = StepString(in, c)
  BY DEF StepByte, Alike
<1>2. st.esc = in.esc /\ in.stack # << >>
  BY DEF Alike
<1>3. ~CloseString(in).bad
  BY <1>2 DEF CloseString, Ok
<1>4. \A x : Bad(x).bad /\ ~Ok(x).bad
  BY DEF Ok, Bad
<1>5. ~StepString(st, c).bad
  BY <1>1
<1>6. CASE st.esc
  <2>1. c \in {"quote", "back", "n", "t"}
    BY <1>4, <1>5, <1>6 DEF StepString
  <2> QED BY <1>1, <1>2, <1>4, <1>6, <2>1 DEF StepString
<1>7. CASE ~st.esc
  <2>1. c = "back" \/ c = "quote" \/ ~IsControl(c)
    BY <1>4, <1>5, <1>7 DEF StepString
  <2> QED BY <1>1, <1>2, <1>3, <1>4, <1>7, <2>1 DEF StepString
<1> QED BY <1>6, <1>7

LEMMA AlikeOutside ==
    ASSUME NEW st, NEW in, Sound(st), Sound(in), Alike(st, in), ~st.in_string,
           NEW c \in Byte, ~StepByte(st, c).bad
    PROVE  ~StepByte(in, c).bad
<1>1. /\ st.expect = in.expect /\ st.in_string = in.in_string
      /\ st.in_literal = in.in_literal /\ st.after_comma = in.after_comma
      /\ in.stack # << >> /\ st.stack # << >>
      /\ Innermost(st) = Innermost(in)
      /\ Len(in.stack) \in Nat /\ Len(st.stack) = Len(in.stack) + 1
  BY AlikeInnermost DEF Alike
<1>2. \A x : Bad(x).bad = TRUE /\ Ok(x).bad = FALSE
  BY DEF Ok, Bad
<1>3. CASE IsSpace(c) \/ (st.in_literal /\ IsLiteralChar(c))
  BY <1>1, <1>2, <1>3 DEF StepByte, StepToken
<1>4. CASE ~(IsSpace(c) \/ (st.in_literal /\ IsLiteralChar(c)))
  <2> DEFINE cs == [st EXCEPT !.in_literal = FALSE]
             ci == [in EXCEPT !.in_literal = FALSE]
  <2>1. StepByte(st, c) = OpenToken(cs, c) /\ StepByte(in, c) = OpenToken(ci, c)
    BY <1>1, <1>4 DEF StepByte, StepToken
  <2>2. /\ cs.expect = st.expect /\ cs.stack = st.stack
        /\ cs.after_comma = st.after_comma
        /\ ci.expect = in.expect /\ ci.stack = in.stack
        /\ ci.after_comma = in.after_comma
    BY DEF Sound, SoundLanes, States
  <2>3. /\ Innermost(cs) = Innermost(st) /\ Innermost(ci) = Innermost(in)
    BY <2>2 DEF Innermost
  <2> HIDE DEF cs, ci
  <2>4. /\ ci.expect = cs.expect /\ ci.after_comma = cs.after_comma
        /\ Innermost(ci) = Innermost(cs) /\ ci.stack # << >> /\ cs.stack # << >>
        /\ Len(ci.stack) \in Nat /\ Len(cs.stack) = Len(ci.stack) + 1
    BY <1>1, <2>2, <2>3
  <2>5. ~OpenToken(cs, c).bad
    BY <2>1
  <2>6. ~OpenString(cs).bad => ~OpenString(ci).bad
    BY <1>2, <2>4 DEF OpenString
  <2>7. ASSUME NEW kind \in {"object", "array"}
        PROVE  /\ ~OpenContainer(cs, kind).bad => ~OpenContainer(ci, kind).bad
               /\ ~CloseContainer(cs, kind).bad => ~CloseContainer(ci, kind).bad
    <3>1. ~OpenContainer(cs, kind).bad => ~OpenContainer(ci, kind).bad
      <4> SUFFICES ASSUME ~OpenContainer(cs, kind).bad
                   PROVE  ~OpenContainer(ci, kind).bad
        OBVIOUS
      <4>1. /\ cs.expect \in {NeedValue, Fresh}
            /\ ~(cs.expect = Fresh /\ cs.after_comma)
            /\ ~(Len(cs.stack) >= MaxNest)
        BY <1>2 DEF OpenContainer
      <4>2. ~(Len(ci.stack) >= MaxNest)
        BY <2>4, <4>1, NestAssumption
      <4> QED BY <1>2, <2>4, <4>1, <4>2 DEF OpenContainer
    <3>2. ~CloseContainer(cs, kind).bad => ~CloseContainer(ci, kind).bad
      <4> SUFFICES ASSUME ~CloseContainer(cs, kind).bad
                   PROVE  ~CloseContainer(ci, kind).bad
        OBVIOUS
      <4>1. ~(\/ Innermost(cs) # kind
              \/ cs.expect \in {NeedValue, NeedColon, Complete}
              \/ cs.expect = Fresh /\ cs.after_comma)
        BY <1>2 DEF CloseContainer
      <4> QED BY <1>2, <2>4, <4>1 DEF CloseContainer
    <3> QED BY <3>1, <3>2
  <2>8. ~Colon(cs).bad => ~Colon(ci).bad
    BY <1>2, <2>4 DEF Colon
  <2>9. ~Comma(cs).bad => ~Comma(ci).bad
    BY <1>2, <2>4 DEF Comma
  <2>10. ~OpenLiteral(cs).bad => ~OpenLiteral(ci).bad
    BY <1>2, <2>4 DEF OpenLiteral
  <2>11. ~OpenToken(ci, c).bad
    BY <1>2, <2>5, <2>6, <2>7, <2>8, <2>9, <2>10 DEF OpenToken, StartsLiteral
  <2> QED BY <2>1, <2>11
<1> QED BY <1>3, <1>4

\* Within the container the states go on alike, until it closes.
LEMMA AlikeSteps ==
    ASSUME NEW st, NEW in, Sound(st), Sound(in), Alike(st, in),
           NEW c \in Byte, ~StepByte(st, c).bad,
           NEW S, S = StepByte(st, c).state, NEW I, I = StepByte(in, c).state
    PROVE  /\ ~StepByte(in, c).bad
           /\ Alike(S, I) \/ Closed(S, I)
<1>1. ~StepByte(in, c).bad
  BY AlikeInString, AlikeOutside
<1>2. /\ st.expect = in.expect /\ st.in_string = in.in_string /\ st.esc = in.esc
      /\ st.in_literal = in.in_literal /\ st.after_comma = in.after_comma
      /\ in.stack # << >> /\ st.stack # << >> /\ Above(st.stack, in.stack)
      /\ Innermost(st) = Innermost(in)
  BY AlikeInnermost DEF Alike
<1>3. PICK n \in Nat : n = Len(in.stack) /\ n > 0 /\ Len(st.stack) = n + 1
  BY AlikeInnermost
<1>4. st.stack \in Seq({"object", "array"}) /\ in.stack \in Seq({"object", "array"})
  BY AlikeInnermost
<1>5. Sound(S) /\ Sound(I)
  BY StepIsSound
<1>6. /\ S.in_string \in BOOLEAN /\ S.esc \in BOOLEAN /\ S.in_literal \in BOOLEAN
      /\ S.after_comma \in BOOLEAN
  BY <1>5 DEF Sound, SoundLanes, States
<1>7. /\ I.in_string \in BOOLEAN /\ I.esc \in BOOLEAN /\ I.in_literal \in BOOLEAN
      /\ I.after_comma \in BOOLEAN
  BY <1>5 DEF Sound, SoundLanes, States
<1>8. CASE st.in_string
  <2>1. StringMove(st, c, S) /\ StringMove(in, c, I)
    BY <1>1, <1>2, <1>8, StringMoves
  <2>2. /\ S.stack = st.stack /\ I.stack = in.stack
        /\ S.in_literal = I.in_literal /\ S.after_comma = I.after_comma
    BY <1>2, <2>1 DEF StringMove, Keeps
  <2>3. (S.in_string <=> I.in_string) /\ (S.esc <=> I.esc)
    BY <1>2, <2>1 DEF StringMove
  <2>4. S.expect = I.expect
    BY <1>2, <2>1 DEF StringMove
  <2> QED BY <1>1, <1>2, <1>6, <1>7, <2>2, <2>3, <2>4 DEF Alike
<1>9. CASE ~st.in_string
  <2>1. PlainMove(st, c, S) /\ PlainMove(in, c, I)
    BY <1>1, <1>2, <1>9, PlainMoves
  <2>2. CASE IsSpace(c) \/ (st.in_literal /\ IsLiteralChar(c))
    <3>1. S = st /\ I = in
      BY <1>2, <1>9, <2>2 DEF StepByte, StepToken, Ok
    <3> QED BY <1>1, <3>1
  <2>3. CASE ~(IsSpace(c) \/ (st.in_literal /\ IsLiteralChar(c)))
    <3>1. S.in_literal = I.in_literal
      <4>1. S.in_literal <=> StartsLiteral(c)
        BY <1>9, <2>3, LiteralMoves
      <4>2. I.in_literal <=> StartsLiteral(c)
        BY <1>1, <1>2, <1>9, <2>3, LiteralMoves
      <4> QED BY <1>6, <1>7, <4>1, <4>2
    <3>2. CASE c \notin {"{", "[", "}", "]"}
      <4>1. /\ S.stack = st.stack /\ I.stack = in.stack /\ S.expect = I.expect
        BY <1>2, <2>1, <2>3, <3>2 DEF PlainMove, Keeps, StartsLiteral
      <4>2. /\ S.in_string <=> I.in_string
            /\ S.esc <=> I.esc
            /\ S.after_comma <=> I.after_comma
        BY <1>2, <2>1, <2>3, <3>2 DEF PlainMove, Keeps, StartsLiteral
      <4> QED BY <1>1, <1>2, <1>6, <1>7, <3>1, <4>1, <4>2 DEF Alike
    <3>3. CASE c \in {"{", "["}
      <4>1. PICK kind \in {"object", "array"} : kind = KindOf(c)
        BY DEF KindOf
      <4>2. /\ S.stack = Append(st.stack, kind) /\ I.stack = Append(in.stack, kind)
            /\ S.expect = Fresh /\ I.expect = Fresh
            /\ S.in_string = st.in_string /\ I.in_string = in.in_string
            /\ S.esc = st.esc /\ I.esc = in.esc
            /\ S.after_comma = st.after_comma /\ I.after_comma = in.after_comma
        BY <1>2, <2>1, <2>3, <3>3, <4>1 DEF PlainMove, Keeps, StartsLiteral
      <4>3. Above(S.stack, I.stack) /\ I.stack # << >>
        BY <1>2, <1>3, <1>4, <4>2, AboveMoves, StackMoves
      <4> QED BY <1>1, <1>2, <3>1, <4>2, <4>3 DEF Alike
    <3>4. CASE c \in {"}", "]"}
      <4>1. /\ S.stack = SubSeq(st.stack, 1, (n + 1) - 1) /\ ~S.after_comma
            /\ S.expect = IF n + 1 = 1 THEN Complete ELSE NeedComma
            /\ S.in_string = st.in_string /\ S.esc = st.esc
        BY <1>3, <2>1, <2>3, <3>4 DEF PlainMove, Keeps, StartsLiteral
      <4>2. /\ I.stack = SubSeq(in.stack, 1, n - 1) /\ ~I.after_comma
            /\ I.expect = IF n = 1 THEN Complete ELSE NeedComma
            /\ I.in_string = in.in_string /\ I.esc = in.esc
        BY <1>2, <1>3, <2>1, <2>3, <3>4 DEF PlainMove, Keeps, StartsLiteral
      <4>3. (n + 1) - 1 = n /\ n + 1 # 1
        BY <1>3
      <4>4. Above(S.stack, I.stack)
        BY <1>2, <1>3, <1>4, <4>1, <4>2, <4>3, AboveMoves
      <4>5. CASE n = 1
        <5>1. I.stack = << >> /\ Len(S.stack) = 1
          <6>1. I.stack = << >>
            BY <1>3, <1>4, <4>2, <4>5, StackMoves
          <6>2. Len(S.stack) = Len(I.stack) + 1
            BY <4>4 DEF Above
          <6> QED BY <6>1, <6>2
        <5>2. ~S.in_literal
          BY <1>9, <2>3, <3>4, LiteralMoves DEF StartsLiteral
        <5> QED BY <1>1, <1>9, <4>1, <4>2, <4>3, <4>5, <5>1, <5>2 DEF Closed
      <4>6. CASE n # 1
        <5>1. I.stack # << >>
          <6> DEFINE front == SubSeq(in.stack, 1, n - 1)
          <6>1. n > 1
            <7> PICK m \in Nat : m = n /\ m > 0
              BY <1>3
            <7>1. m # 1 => m > 1
              OBVIOUS
            <7> QED BY <4>6, <7>1
          <6>2. front # << >>
            BY <1>3, <1>4, <6>1, StackMoves
          <6> QED BY <4>2, <6>2
        <5> QED BY <1>1, <1>2, <1>6, <1>7, <3>1, <4>1, <4>2, <4>3, <4>4, <4>6,
                   <5>1 DEF Alike
      <4> QED BY <4>5, <4>6
    <3> QED BY <3>2, <3>3, <3>4
  <2> QED BY <2>2, <2>3
<1> QED BY <1>8, <1>9

LEMMA SeedFields ==
    /\ Sound(SeedState) /\ SeedState.stack = << >> /\ Len(SeedState.stack) = 0
    /\ SeedState.expect = NeedValue /\ SeedState.in_string = FALSE
    /\ SeedState.after_comma = FALSE /\ SeedState.esc = FALSE
    /\ SeedState.in_literal = FALSE
    /\ [SeedState EXCEPT !.in_literal = FALSE] = SeedState
    /\ ~(Len(SeedState.stack) >= MaxNest)
<1>1. ~(0 >= MaxNest)
  BY NestAssumption
<1>2. SeedState.stack = << >> /\ Len(<< >>) = 0
  BY DEF SeedState
<1>3. /\ SeedState.expect = NeedValue /\ SeedState.in_string = FALSE
      /\ SeedState.after_comma = FALSE /\ SeedState.esc = FALSE
      /\ SeedState.in_literal = FALSE
  BY DEF SeedState
<1>4. [SeedState EXCEPT !.in_literal = FALSE] = SeedState
  <2>1. SeedState \in States
    BY SeedIsSound DEF Sound, SoundLanes
  <2> QED BY <1>3, <2>1 DEF States
<1> QED BY <1>1, <1>2, <1>3, <1>4, SeedIsSound

\* A document begins with the opener of its root.
LEMMA SeedOpens ==
    ASSUME NEW c \in {"{", "["}
    PROVE  c \in Byte /\ ~StepByte(SeedState, c).bad
<1>1. c \in Byte
  BY DEF Byte
<1>2. ~IsSpace(c) /\ ~IsLiteralChar(c)
  BY DEF IsSpace, IsLiteralChar
<1>3. StepByte(SeedState, c) = OpenToken(SeedState, c)
  BY <1>2, SeedFields DEF StepByte, StepToken
<1>4. OpenToken(SeedState, c) = OpenContainer(SeedState, KindOf(c))
  <2>1. CASE c = "{"
    BY <2>1 DEF OpenToken, KindOf, StartsLiteral
  <2>2. CASE c = "["
    BY <2>2 DEF OpenToken, KindOf, StartsLiteral
  <2> QED BY <2>1, <2>2
<1>5. /\ SeedState.expect \in {NeedValue, Fresh}
      /\ ~(SeedState.expect = Fresh /\ SeedState.after_comma)
      /\ ~(Len(SeedState.stack) >= MaxNest)
  BY SeedFields
<1>6. OpenContainer(SeedState, KindOf(c)).bad = FALSE
  BY <1>5 DEF OpenContainer, Ok
<1> QED BY <1>1, <1>3, <1>4, <1>6

LEMMA RootAbove == \A stack : stack = <<"object">> => Above(stack, << >>)
<1> DEFINE empty == << >>
           root == <<"object">>
<1>1. empty \in Seq({"object", "array"}) /\ Len(empty) = 0
  OBVIOUS
<1>2. Len(root) = 1 /\ root[1] = "object"
  OBVIOUS
<1> HIDE DEF empty, root
<1>3. Above(root, empty)
  BY <1>1, <1>2 DEF Above
<1> QED BY <1>3 DEF root, empty

\* The container opens as a value of the root and as a document.
LEMMA OpensAlike ==
    ASSUME NEW st, Sound(st), InRoot(st, NeedValue), ~st.after_comma,
           NEW c \in {"{", "["}, ~StepByte(st, c).bad,
           NEW S, S = StepByte(st, c).state,
           NEW I, I = StepByte(SeedState, c).state
    PROVE  Alike(S, I)
<1>1. c \in Byte /\ ~StepByte(SeedState, c).bad
  BY SeedOpens
<1>2. ~IsSpace(c) /\ ~IsLiteralChar(c) /\ ~StartsLiteral(c)
  BY DEF IsSpace, IsLiteralChar, StartsLiteral
<1>3. ~st.in_string
  BY DEF InRoot
<1>4. PlainMove(st, c, S) /\ PlainMove(SeedState, c, I)
  BY <1>1, <1>3, SeedFields, PlainMoves
<1>5. PICK kind \in {"object", "array"} : kind = KindOf(c)
  BY DEF KindOf
<1>6. /\ S.stack = Append(st.stack, kind) /\ S.expect = Fresh
      /\ S.in_string = st.in_string /\ S.esc = st.esc
      /\ S.after_comma = st.after_comma
  BY <1>2, <1>4, <1>5 DEF PlainMove, Keeps
<1>7. /\ I.stack = Append(SeedState.stack, kind) /\ I.expect = Fresh
      /\ I.in_string = SeedState.in_string /\ I.esc = SeedState.esc
      /\ I.after_comma = SeedState.after_comma
  BY <1>2, <1>4, <1>5 DEF PlainMove, Keeps
<1>8. Sound(S) /\ Sound(I)
  BY <1>1, SeedFields, StepIsSound
<1>9. S.in_literal = I.in_literal
  <2>1. S.in_literal <=> StartsLiteral(c)
    BY <1>1, <1>2, <1>3, LiteralMoves
  <2>2. I.in_literal <=> StartsLiteral(c)
    BY <1>1, <1>2, SeedFields, LiteralMoves
  <2>3. S.in_literal \in BOOLEAN /\ I.in_literal \in BOOLEAN
    BY <1>8 DEF Sound, SoundLanes, States
  <2> QED BY <2>1, <2>2, <2>3
<1>10. /\ st.in_string = FALSE /\ st.esc = FALSE /\ st.after_comma = FALSE
  <2>1. st.in_string \in BOOLEAN /\ st.esc \in BOOLEAN /\ st.after_comma \in BOOLEAN
    BY DEF Sound, SoundLanes, States
  <2>2. st.esc => st.in_string
    BY DEF Sound, Agree
  <2> QED BY <1>3, <2>1, <2>2
<1>11. Above(S.stack, I.stack) /\ I.stack # << >>
  <2> DEFINE stack == st.stack
             empty == SeedState.stack
  <2>1. Above(stack, empty)
    BY RootAbove, SeedFields DEF InRoot
  <2>2. stack \in Seq({"object", "array"}) /\ Len(empty) = 0
        /\ empty \in Seq({"object", "array"})
    BY StackShape, SeedFields DEF Above
  <2> HIDE DEF stack, empty
  <2>3. Above(Append(stack, kind), Append(empty, kind))
    BY <2>1, <2>2, AboveMoves
  <2>4. Append(empty, kind) # << >>
    BY <2>2, StackMoves
  <2> QED BY <1>6, <1>7, <2>3, <2>4 DEF stack, empty
<1> QED BY <1>6, <1>7, <1>9, <1>10, <1>11, SeedFields DEF Alike

-----------------------------------------------------------------------------
(* The bytes of a value so far, as a document.                              *)

Inner(s, v, i) == Classes(SubSeq(s, v + 1, i))

LEMMA InnerGrows ==
    ASSUME NEW s \in Seq(DocumentByte), NEW i \in 1..Len(s), NEW v \in 0..(i - 1)
    PROVE  /\ Inner(s, v, i - 1) \in Seq(Byte)
           /\ Inner(s, v, i) = Append(Inner(s, v, i - 1), Class(s[i]))
           /\ Inner(s, i - 1, i - 1) = << >>
<1>1. PICK n \in Nat : n = Len(s)
  OBVIOUS
<1>2. i \in 1..n /\ i \in Nat /\ v \in Nat /\ v <= i - 1 /\ i <= n
  BY <1>1
<1> DEFINE some == SubSeq(s, v + 1, i - 1)
           more == SubSeq(s, v + 1, i)
<1>3. /\ some \in Seq(DocumentByte) /\ Len(some) = i - 1 - v
      /\ \A j \in 1..(i - 1 - v) : some[j] = s[v + j]
  BY <1>1, <1>2
<1>4. /\ more \in Seq(DocumentByte) /\ Len(more) = i - v
      /\ \A j \in 1..(i - v) : more[j] = s[v + j]
  BY <1>1, <1>2
<1>5. SubSeq(s, (i - 1) + 1, i - 1) = << >>
  BY <1>1, <1>2
<1> HIDE DEF some, more
<1> DEFINE cs == Classes(some)
           cm == Classes(more)
<1>6. /\ cs \in Seq(Byte) /\ Len(cs) = i - 1 - v
      /\ \A j \in 1..(i - 1 - v) : cs[j] = Class(some[j])
  BY <1>3, ClassesTyped
<1>7. /\ cm \in Seq(Byte) /\ Len(cm) = i - v
      /\ \A j \in 1..(i - v) : cm[j] = Class(more[j])
  BY <1>4, ClassesTyped
<1>8. Inner(s, v, i - 1) = cs /\ Inner(s, v, i) = cm
  BY DEF Inner, some, more
<1> HIDE DEF cs, cm
<1>9. PICK m \in Nat : m = i - 1 - v /\ m + 1 = i - v /\ v + (m + 1) = i
  BY <1>2
<1> DEFINE b == Class(s[i])
           longer == Append(cs, b)
<1>10. b \in Byte
  <2>1. s[i] \in DocumentByte
    OBVIOUS
  <2> QED BY <2>1, ClassTold
<1> HIDE DEF b
<1>11. /\ longer \in Seq(Byte) /\ Len(longer) = m + 1 /\ longer[m + 1] = b
       /\ \A j \in 1..m : longer[j] = cs[j]
  BY <1>6, <1>9, <1>10, AppendProperties
<1> HIDE DEF longer
<1>12. ASSUME NEW j \in 1..(m + 1) PROVE cm[j] = longer[j]
  <2>1. cm[j] = Class(s[v + j])
    BY <1>4, <1>7, <1>9
  <2>2. CASE j = m + 1
    BY <1>9, <1>11, <2>1, <2>2 DEF b
  <2>3. CASE j # m + 1
    <3>1. j \in 1..m
      BY <2>3
    <3>2. cs[j] = Class(s[v + j])
      BY <1>3, <1>6, <1>9, <3>1
    <3> QED BY <1>11, <2>1, <3>1, <3>2
  <2> QED BY <2>2, <2>3
<1>13. cm = longer
  <2>1. cm \in Seq(Byte) /\ Len(cm) = m + 1
    BY <1>7, <1>9
  <2> QED BY <1>11, <1>12, <2>1, SeqEqual
<1>14. Inner(s, i - 1, i - 1) = << >>
  <2>1. Len(<< >>) = 0
    OBVIOUS
  <2> QED BY <1>5, <2>1 DEF Inner, Classes
<1> QED BY <1>6, <1>8, <1>13, <1>14 DEF longer, b

\* A value that begins with an opener, scanned so far as a document.
Nested(s, st, v, i) ==
    IsOpener(s[v + 1]) =>
        LET scanned == OneShot(Inner(s, v, i))
        IN  ~scanned.bad /\ (Alike(st, scanned.state) \/ Closed(st, scanned.state))

LEMMA OneShotGrows ==
    ASSUME NEW s \in Seq(DocumentByte), NEW i \in 1..Len(s), NEW v \in 0..(i - 1),
           ~OneShot(Inner(s, v, i - 1)).bad
    PROVE  /\ Sound(OneShot(Inner(s, v, i - 1)).state)
           /\ OneShot(Inner(s, v, i))
                = StepByte(OneShot(Inner(s, v, i - 1)).state, Class(s[i]))
<1> DEFINE some == Inner(s, v, i - 1)
           b == Class(s[i])
<1>1. some \in Seq(Byte) /\ Inner(s, v, i) = Append(some, b)
  BY InnerGrows
<1>2. b \in Byte
  <2>1. s[i] \in DocumentByte
    OBVIOUS
  <2> QED BY <2>1, ClassTold
<1> HIDE DEF some, b
<1>3. OneShot(some) \in Steps
  BY <1>1, SeedIsSound, ScanIsAStep DEF OneShot
<1>4. OneShot(Append(some, b)) = FoldByte(OneShot(some), b)
  BY <1>1, <1>2, SeedIsSound, ScanOfOneMore DEF OneShot
<1>5. ~OneShot(some).bad
  BY DEF some
<1>6. Sound(OneShot(some).state)
  BY <1>3 DEF Steps
<1>7. FoldByte(OneShot(some), b) = StepByte(OneShot(some).state, b)
  BY <1>5 DEF FoldByte
<1> QED BY <1>1, <1>4, <1>6, <1>7 DEF some, b

\* What the pass that locates has skipped, and what it has found.
Restages(s, st, lt, i) ==
    /\ ~Halted(lt) /\ lt.skipping /\ lt.want =>
           lt.value[1] < i /\ Nested(s, st, lt.value[1], i)
    /\ lt.done /\ ~lt.bad =>
           (IsOpener(s[lt.value[1] + 1]) =>
                IsComplete(OneShot(Inner(s, lt.value[1], lt.value[2]))))

LEMMA BytesTold ==
    ASSUME NEW s \in Seq(DocumentByte), NEW i \in 1..Len(s)
    PROVE  Class(s[i]) \in Byte /\ Told(s[i], Class(s[i]))
<1>1. s[i] \in DocumentByte
  OBVIOUS
<1> QED BY <1>1, ClassTold DEF Told

\* The container goes on, up to its closer and the blanks behind it.
LEMMA NestedGoesOn ==
    ASSUME NEW s \in Seq(DocumentByte), NEW i \in 1..Len(s), NEW v \in 0..(i - 1),
           NEW st, Sound(st), ~StepByte(st, Class(s[i])).bad,
           NEW S, S = StepByte(st, Class(s[i])).state,
           Nested(s, st, v, i - 1),
           Len(st.stack) = 1 => st.in_string \/ s[i] \notin {"}", "]", ","}
    PROVE  Nested(s, S, v, i)
<1> SUFFICES ASSUME IsOpener(s[v + 1])
             PROVE  /\ ~OneShot(Inner(s, v, i)).bad
                    /\ \/ Alike(S, OneShot(Inner(s, v, i)).state)
                       \/ Closed(S, OneShot(Inner(s, v, i)).state)
  BY DEF Nested
<1> DEFINE c == Class(s[i])
           in == OneShot(Inner(s, v, i - 1)).state
           I == StepByte(in, c).state
<1>1. /\ ~OneShot(Inner(s, v, i - 1)).bad
      /\ Alike(st, in) \/ Closed(st, in)
  BY DEF Nested
<1>2. Sound(in) /\ OneShot(Inner(s, v, i)) = StepByte(in, c)
  BY <1>1, OneShotGrows
<1>3. c \in Byte /\ Told(s[i], c)
  BY BytesTold
<1>4. ~StepByte(st, c).bad /\ S = StepByte(st, c).state
  OBVIOUS
<1> HIDE DEF c, in
<1>5. CASE Alike(st, in)
  <2>1. ~StepByte(in, c).bad /\ (Alike(S, I) \/ Closed(S, I))
    BY <1>2, <1>3, <1>4, <1>5, AlikeSteps
  <2> QED BY <1>2, <2>1
<1>6. CASE Closed(st, in)
  <2>1. /\ Len(st.stack) = 1 /\ ~st.in_string /\ ~st.in_literal
        /\ st.expect = NeedComma
    BY <1>6 DEF Closed
  <2>2. PlainMove(st, c, S)
    BY <1>3, <1>4, <2>1, PlainMoves
  <2>3. IsSpace(c)
    <3> SUFFICES ASSUME ~IsSpace(c) PROVE FALSE
      OBVIOUS
    <3>1. c \in {"quote", "{", "[", "}", "]", ":", ","} \/ StartsLiteral(c)
      BY <2>1, <2>2, PlainBytes
    <3>2. c \notin {"quote", "{", "[", ":"} /\ ~StartsLiteral(c)
      <4>1. st.expect \notin {NeedValue, Fresh, NeedColon}
        BY <2>1, AwaitsOne
      <4> QED BY <2>1, <2>2, <4>1, PlainBytes
    <3>3. s[i] \notin {"}", "]", ","}
      BY <2>1
    <3>4. c \notin {"}", "]", ","}
      BY <1>3, <3>3 DEF Told
    <3> QED BY <3>1, <3>2, <3>4
  <2>4. S = st
    BY <2>1, <2>2, <2>3, PlainBytes
  <2>5. in.in_string = FALSE
    <3>1. in.in_string \in BOOLEAN /\ (in.in_string => in.expect \in {NeedValue, Fresh})
      BY <1>2 DEF Sound, SoundLanes, States, Agree
    <3>2. in.expect = Complete
      BY <1>6 DEF Closed
    <3> QED BY <3>1, <3>2, AwaitsOne
  <2>6. StepByte(in, c) = Ok(in)
    BY <2>3, <2>5 DEF StepByte, StepToken
  <2>7. ~Ok(in).bad /\ Ok(in).state = in
    BY DEF Ok
  <2> QED BY <1>2, <1>6, <2>4, <2>6, <2>7
<1> QED BY <1>1, <1>5, <1>6

LEMMA StepsRestage ==
    ASSUME NEW s \in Seq(DocumentByte), NEW i \in 1..Len(s), NEW k \in Nat,
           NEW st, Sound(st), ~StepByte(st, Class(s[i])).bad,
           NEW S, S = StepByte(st, Class(s[i])).state,
           NEW ct, NEW lt \in LocateStates, Meets(st, ct, lt, k),
           Restages(s, st, lt, i - 1),
           NEW L, L = LocateStep(lt, s[i], i - 1, k)
    PROVE  Restages(s, S, L, i)
<1> DEFINE b == s[i]
           v == lt.value[1]
<1>1. i - 1 \in Nat /\ Numbers(lt)
  BY NumbersTyped
<1>2. CASE Halted(lt)
  <2>1. L = lt
    BY <1>2, HaltedStays
  <2> QED BY <1>2, <2>1 DEF Restages
<1>3. CASE ~Halted(lt) /\ lt.skipping
  <2>1. SkipMove(lt, b, i - 1, L)
    BY <1>1, <1>3, SkipMoves
  <2>2. WithinValue(st, ct, lt, k)
    BY <1>3 DEF Meets, AtRoot, BeforeKey, WithinKey, BeforeColon, BeforeValue,
       BehindRoot, Idle
  <2>3. /\ lt.nest = Len(st.stack) - 1 /\ (lt.instr <=> st.in_string)
        /\ Len(st.stack) \in Nat
    BY <2>2, StackShape DEF WithinValue
  <2>4. lt.nest = 0 <=> Len(st.stack) = 1
    BY <2>3
  <2>5. lt.want => v < i - 1 /\ Nested(s, st, v, i - 1)
    BY <1>3 DEF Restages
  <2>6. CASE EndMove(lt, b, i - 1, L) /\ ~lt.instr /\ lt.nest = 0
    <3>1. ~L.skipping /\ L.done = lt.want
          /\ (lt.want => L.value[1] = v /\ L.value[2] = i - 1)
      BY <2>6 DEF EndMove
    <3>2. ASSUME lt.want, IsOpener(s[v + 1])
          PROVE  IsComplete(OneShot(Inner(s, v, i - 1)))
      <4> DEFINE scanned == OneShot(Inner(s, v, i - 1))
      <4>1. ~scanned.bad /\ (Alike(st, scanned.state) \/ Closed(st, scanned.state))
        BY <2>5, <3>2 DEF Nested
      <4> HIDE DEF scanned
      <4>2. ~Alike(st, scanned.state)
        <5> SUFFICES ASSUME Alike(st, scanned.state) PROVE FALSE
          OBVIOUS
        <5>1. PICK n \in Nat : /\ n = Len(scanned.state.stack) /\ n > 0
                               /\ Len(st.stack) = n + 1
          BY AlikeInnermost
        <5> QED BY <2>4, <2>6, <5>1
      <4>3. scanned.state.stack = << >> /\ scanned.state.expect = Complete
        BY <4>1, <4>2 DEF Closed
      <4>4. IsComplete(scanned)
        BY <4>1, <4>3 DEF IsComplete
      <4> QED BY <4>4 DEF scanned
    <3> QED BY <3>1, <3>2 DEF Restages
  <2>7. CASE ~(EndMove(lt, b, i - 1, L) /\ ~lt.instr /\ lt.nest = 0)
    <3>1. /\ L.want = lt.want /\ L.value = lt.value /\ L.done = lt.done
          /\ lt.nest = 0 => lt.instr \/ b \notin {"}", "]", ","}
      <4>1. \/ L = lt
            \/ Others(L, lt, {"instr", "esc"}) \/ Others(L, lt, {"nest"})
        BY <2>1, <2>7 DEF SkipMove
      <4>2. L.want = lt.want /\ L.value = lt.value /\ L.done = lt.done
        BY <4>1 DEF Others
      <4>3. lt.nest = 0 => lt.instr \/ b \notin {"}", "]", ","}
        <5> SUFFICES ASSUME lt.nest = 0, ~lt.instr PROVE b \notin {"}", "]", ","}
          OBVIOUS
        <5>1. ~(lt.nest > 0)
          OBVIOUS
        <5> HIDE DEF b
        <5>2. b = "quote" \/ IsOpener(b) \/ (~IsCloser(b) /\ b # ",")
          BY <2>1, <2>7, <5>1 DEF SkipMove
        <5> QED BY <5>2 DEF IsOpener, IsCloser
      <4> QED BY <4>2, <4>3
    <3>2. ~lt.done
      BY <1>3 DEF Halted
    <3>3. ASSUME lt.want PROVE v < i /\ Nested(s, S, v, i)
      <4>1. v \in 0..(i - 1) /\ v < i
        BY <1>1, <2>5, <3>3 DEF Numbers
      <4>2. Len(st.stack) = 1 => st.in_string \/ b \notin {"}", "]", ","}
        BY <2>3, <2>4, <3>1
      <4>3. Nested(s, st, v, i - 1)
        BY <2>5, <3>3
      <4> HIDE DEF v
      <4>4. Nested(s, S, v, i)
        BY <4>1, <4>2, <4>3, NestedGoesOn
      <4> QED BY <4>1, <4>4
    <3> QED BY <3>1, <3>2, <3>3 DEF Restages
  <2> QED BY <2>6, <2>7
<1>4. CASE ~Halted(lt) /\ ~lt.skipping /\ lt.instr
  <2>1. KeyMove(lt, b, i - 1, L)
    BY <1>1, <1>4, KeyMoves
  <2>2. ~L.skipping /\ ~L.done
    <3>1. ~lt.done
      BY <1>4 DEF Halted
    <3> QED BY <1>4, <2>1, <3>1 DEF KeyMove, Others
  <2> QED BY <2>2 DEF Restages
<1>5. CASE ~Halted(lt) /\ ~lt.skipping /\ ~lt.instr
  <2>1. TokenMove(lt, b, i - 1, k, L)
    BY <1>1, <1>5, TokenMoves
  <2>2. ~lt.done
    BY <1>5 DEF Halted
  <2>3. CASE lt.phase = "value" /\ BeginMove(lt, b, i - 1, k, L)
    <3>1. ~L.done
      BY <2>2, <2>3 DEF BeginMove
    <3>2. L.want => L.value[1] = i - 1
      BY <2>3 DEF BeginMove
    <3>3. Nested(s, S, i - 1, i)
      <4>1. (i - 1) + 1 = i /\ i - 1 \in 0..(i - 1)
        OBVIOUS
      <4> SUFFICES ASSUME IsOpener(b)
                   PROVE  /\ ~OneShot(Inner(s, i - 1, i)).bad
                          /\ Alike(S, OneShot(Inner(s, i - 1, i)).state)
        BY <4>1 DEF Nested
      <4>2. InRoot(st, NeedValue) /\ ~st.after_comma
        BY <1>5, <2>3 DEF Meets, AtRoot, BeforeKey, WithinKey, BeforeColon,
           BeforeValue, WithinValue, BehindRoot
      <4>3. Inner(s, i - 1, i - 1) = << >>
        BY <4>1, InnerGrows
      <4>4. OneShot(Inner(s, i - 1, i - 1)) = Ok(SeedState)
        BY <4>3, SeedIsSound, ScanOfNone DEF OneShot
      <4>5. ~Ok(SeedState).bad /\ Ok(SeedState).state = SeedState
        BY DEF Ok
      <4>6. OneShot(Inner(s, i - 1, i)) = StepByte(SeedState, Class(b))
        BY <4>1, <4>4, <4>5, OneShotGrows
      <4>7. Class(b) \in {"{", "["}
        <5>1. Told(b, Class(b))
          BY BytesTold
        <5> HIDE DEF b
        <5>2. b = "{" \/ b = "["
          BY DEF IsOpener
        <5>3. Class(b) = "{" \/ Class(b) = "["
          BY <5>1, <5>2 DEF Told
        <5> QED BY <5>3
      <4> DEFINE c == Class(b)
                 I == StepByte(SeedState, c).state
      <4>8. ~StepByte(st, c).bad /\ S = StepByte(st, c).state
        OBVIOUS
      <4> HIDE DEF c
      <4>9. c \in {"{", "["} /\ OneShot(Inner(s, i - 1, i)) = StepByte(SeedState, c)
        BY <4>6, <4>7 DEF c
      <4>10. ~StepByte(SeedState, c).bad /\ Alike(S, I)
        BY <4>2, <4>8, <4>9, SeedOpens, OpensAlike
      <4> QED BY <4>9, <4>10
    <3>4. i - 1 < i
      OBVIOUS
    <3> QED BY <3>1, <3>2, <3>3, <3>4 DEF Restages
  <2>4. CASE ~(lt.phase = "value" /\ BeginMove(lt, b, i - 1, k, L))
    <3>1. L.bad \/ (~L.skipping /\ ~L.done)
      BY <1>5, <2>1, <2>2, <2>4 DEF TokenMove, Others
    <3> QED BY <3>1 DEF Restages, Halted
  <2> QED BY <2>3, <2>4
<1> QED BY <1>2, <1>3, <1>4, <1>5

\* A pair whose value is a container has been scanned as a document.
LEMMA LocatedRestages ==
    ASSUME NEW s \in Seq(DocumentByte), NEW k \in Nat,
           IsComplete(OneShot(Classes(s))), NEW loc, loc = LocatePair(s, k),
           loc.status = "ok", IsOpener(s[loc.value[1] + 1])
    PROVE  IsComplete(OneShot(Inner(s, loc.value[1], loc.value[2])))
<1>1. PICK n \in Nat : n = Len(s) /\ n \in 0..n
  OBVIOUS
<1>2. PICK run, counts, places :
          Together(run, counts, places, s, k) /\ loc = LocatedBy(places[n])
  BY <1>1, RunsTogether
<1>3. ~OneShot(Classes(s)).bad
  BY DEF IsComplete
<1>4. /\ \A i \in 1..n :
             /\ Sound(run[i - 1].state) /\ ~run[i].bad
             /\ run[i] = StepByte(run[i - 1].state, Class(s[i]))
      /\ \A i \in 0..n : Meets(run[i].state, counts[i], places[i], k)
  BY <1>1, <1>2, <1>3, RunsMeet
<1>5. /\ places \in [0..n -> LocateStates] /\ places[0] = LocateSeed
      /\ \A i \in 1..n : places[i] = LocateStep(places[i - 1], s[i], i - 1, k)
  BY <1>1, <1>2 DEF Together, LocatesAs
<1> DEFINE Good == {i \in 0..n : Restages(s, run[i].state, places[i], i)}
<1>6. 0 \in Good
  <2>1. ~LocateSeed.skipping /\ ~LocateSeed.done
    BY DEF LocateSeed
  <2>2. Restages(s, run[0].state, places[0], 0)
    BY <1>5, <2>1 DEF Restages
  <2> QED BY <2>2
<1>7. ASSUME NEW i \in 1..n, i - 1 \in Good PROVE i \in Good
  <2>1. i - 1 \in 0..n /\ i \in 0..n /\ i \in 1..Len(s)
    BY <1>1
  <2> DEFINE st == run[i - 1].state
             S == run[i].state
             ct == counts[i - 1]
             lt == places[i - 1]
             L == places[i]
  <2>2. lt \in LocateStates /\ Sound(st) /\ Meets(st, ct, lt, k)
    BY <1>4, <1>5, <2>1
  <2>3. S = StepByte(st, Class(s[i])).state /\ ~StepByte(st, Class(s[i])).bad
    BY <1>4
  <2>4. L = LocateStep(lt, s[i], i - 1, k)
    BY <1>5
  <2>5. Restages(s, st, lt, i - 1)
    BY <1>7
  <2> HIDE DEF st, S, ct, lt, L
  <2>6. Restages(s, S, L, i)
    BY <2>1, <2>2, <2>3, <2>4, <2>5, StepsRestage
  <2> QED BY <2>1, <2>6 DEF S, L
<1>8. Good \in SUBSET (0..n)
  OBVIOUS
<1> HIDE DEF Good
<1>9. Restages(s, run[n].state, places[n], n)
  <2>1. Good = 0..n
    BY <1>6, <1>7, <1>8, AtEveryPosition
  <2> QED BY <1>1, <2>1 DEF Good
<1> DEFINE L == places[n]
<1>10. ~L.bad /\ L.done /\ loc.value = L.value
  BY <1>2, LocatedIsDone
<1>11. Restages(s, run[n].state, L, n)
  BY <1>9
<1> HIDE DEF L
<1> QED BY <1>10, <1>11 DEF Restages

\* A value is nested if it begins with an opener.
LEMMA NestedOpens ==
    ASSUME NEW s, NEW k, NEW pair, pair = PairAt(s, k), pair.status = "ok",
           "nested" \in DOMAIN pair.value
    PROVE  IsOpener(s[LocatePair(s, k).value[1] + 1])
<1> DEFINE loc == LocatePair(s, k)
           first == s[loc.value[1] + 1]
           Plain(x) == x.status = "ok" => "nested" \notin DOMAIN x.value
<1>1. loc.status = "ok"
  BY PairAtLocated
<1> HIDE DEF loc
<1>2. \A x : /\ "nested" \notin DOMAIN [string |-> x]
             /\ "nested" \notin DOMAIN [int |-> x]
             /\ "nested" \notin DOMAIN [bool |-> x]
  OBVIOUS
<1>3. \A text1, value : Pair(text1, loc, value).value = value
  BY DEF Pair
<1>4. \A x : /\ Plain(Pair(s, loc, [string |-> x]))
             /\ Plain(Pair(s, loc, [int |-> x]))
             /\ Plain(Pair(s, loc, [bool |-> x]))
  <2>1. \A value : "nested" \notin DOMAIN value => Plain(Pair(s, loc, value))
    BY <1>3
  <2> HIDE DEF Plain
  <2> QED BY <1>2, <2>1
<1>5. Plain(Refusal("malformed")) /\ Plain(Refusal("overlong"))
  BY DEF Refusal
<1> HIDE DEF Plain
<1>6. Plain(ReadString(s, loc))
  BY <1>4, <1>5, Zenon DEF ReadString
<1>7. \A word, value : Plain(ReadLiteral(s, loc, word, value))
  BY <1>4, <1>5, Zenon DEF ReadLiteral
<1>8. Plain(ReadInt(s, loc))
  BY <1>4, <1>5, Zenon DEF ReadInt
<1> SUFFICES ASSUME ~IsOpener(first) PROVE FALSE
  BY DEF loc
<1> DEFINE c1 == first = "quote"
           c2 == IsOpener(first)
           c3 == first = "t"
           c4 == first = "f"
           c5 == first \in DOMAIN Digit \cup {"-"}
           v1 == ReadString(s, loc)
           v2 == Pair(s, loc, [nested |-> loc.value])
           v3 == ReadLiteral(s, loc, <<"t", "r", "u", "e">>, TRUE)
           v4 == ReadLiteral(s, loc, <<"f", "a", "l", "s", "e">>, FALSE)
           v5 == ReadInt(s, loc)
<1>9. pair = CASE c1 -> v1 [] c2 -> v2 [] c3 -> v3 [] c4 -> v4 [] c5 -> v5
               [] OTHER -> Refusal("malformed")
  BY <1>1, Zenon DEF PairAt, loc
<1>10. Plain(v1) /\ Plain(v3) /\ Plain(v4) /\ Plain(v5) /\ ~c2
  BY <1>6, <1>7, <1>8
<1> HIDE DEF c1, c2, c3, c4, c5, v1, v2, v3, v4, v5
<1>11. Plain(pair)
  BY <1>5, <1>9, <1>10, Zenon
<1> QED BY <1>11 DEF Plain

\* A nested value is a document of its own: whatever the scanner accepts, the
\* bytes of the span that is handed out for a container are again accepted.
THEOREM IngestNestedRestages == IngestSpec => []NestedRestages
<1>1. Read /\ PairsRead /\ Counted => NestedRestages
  <2> SUFFICES ASSUME Read, PairsRead, Counted, NEW k \in 1..Len(pairs),
                      "nested" \in DOMAIN pairs[k].value
               PROVE  LET scanned ==
                              OneShot(Classes(Span(text, pairs[k].value.nested)))
                      IN  ~scanned.bad /\ scanned.state.expect = Complete
    BY DEF NestedRestages
  <2> DEFINE pair == pairs[k]
             loc == LocatePair(text, k - 1)
  <2>1. pairs # << >> /\ k - 1 \in Nat
    <3>1. pairs \in Seq({PairAt(text, j) : j \in Nat})
      BY DEF PairsRead
    <3> QED BY <3>1
  <2>2. text \in Seq(DocumentByte) /\ IsComplete(OneShot(Classes(text)))
    BY <2>1, TextTyped, CompleteIsAccepted DEF Read, Counted
  <2>3. pair = PairAt(text, k - 1) /\ pair.status = "ok"
    BY DEF PairsRead
  <2> HIDE DEF pair
  <2>4. "nested" \in DOMAIN pair.value
    BY DEF pair
  <2>5. loc.status = "ok" /\ pair.value.nested = loc.value
    BY <2>3, <2>4, PairAtLocated
  <2>6. IsOpener(text[loc.value[1] + 1])
    BY <2>3, <2>4, NestedOpens
  <2> HIDE DEF loc
  <2>7. IsComplete(OneShot(Inner(text, loc.value[1], loc.value[2])))
    BY <2>1, <2>2, <2>5, <2>6, LocatedRestages DEF loc
  <2>8. Classes(Span(text, pair.value.nested))
            = Inner(text, loc.value[1], loc.value[2])
    BY <2>5 DEF Span, Inner
  <2> QED BY <2>7, <2>8 DEF IsComplete, pair
<1> QED
  BY <1>1, InitRead, NextRead, InitPairsRead, NextPairsRead, InitCounted,
     NextCounted, PTL DEF IngestSpec
=============================================================================
