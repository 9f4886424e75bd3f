--------------------------- MODULE CsvLineProofs ---------------------------
(***************************************************************************)
(* The records of the CSV reader are the lines of its stream, for every     *)
(* stream and every chunking, under the assumptions of CsvProofs: a view is *)
(* no longer than the carry and one byte more, and callers stop at the      *)
(* first error.  From this follow what feed returns, what finish means,     *)
(* what an error says, and that the reader implements RecordStream.         *)
(***************************************************************************)
EXTENDS CsvProofs, FiniteSetTheorems

\* How many newlines the first p bytes of a stream have.
NewlinesUpTo(s, p) == {j \in Newlines(s) : j <= p}
CountUpTo(s, p) == Cardinality(NewlinesUpTo(s, p))

\* Byte b ends a line or nothing, and n lines have ended by then.
IsStart(s, b, n) ==
    /\ b \in 0..Len(s)
    /\ b = 0 \/ s[b] = "nl"
    /\ CountUpTo(s, b) = n

NoNewline(s, b, e) == \A i \in (b + 1)..e : s[i] # "nl"

\* The bytes after b, up to e, are a line: a newline follows, or nothing.
LineFrom(s, b, e) ==
    /\ e \in b..Len(s)
    /\ NoNewline(s, b, e)
    /\ \/ e < Len(s) /\ s[e + 1] = "nl"
       \/ e = Len(s) /\ b < e

\* They are line k of the stream.
LineSpan(s, k, b, e) == IsStart(s, b, k - 1) /\ LineFrom(s, b, e)

Raw(s, b, e) == SubSeq(s, b + 1, e)

\* What the reader lets pass as a line.
AllowedRaw(raw) ==
    /\ Plain(raw)
    /\ Len(StripCR(raw)) <= LineMax
    /\ ParseFields(StripCR(raw)).status = "ok"

RecordOf(raw, k, b) ==
    CsvRecord(ParseFields(StripCR(raw)).fields, k, b, StripCR(raw))

\* Record r is that of line k, which ends before the stream does, unless no
\* more bytes will come.
IsLine(s, r, k, last) ==
    \E e \in 0..Len(s) :
        /\ LineSpan(s, k, r.byte_start, e)
        /\ AllowedRaw(Raw(s, r.byte_start, e))
        /\ r = RecordOf(Raw(s, r.byte_start, e), k, r.byte_start)
        /\ last \/ e < Len(s)

Produced == delivered \o records
HeldFrom == stream_pos - Len(carry)
Closing == pc \in {"flush", "finished"}

\* All lines before the carry are cut, or the tail is, too.
AtLineStart == IsStart(fed, HeldFrom, Len(Produced))
AtTailEnd ==
    /\ Closing /\ HeldFrom = Len(fed)
    /\ HasTail(fed) /\ fed[Len(fed)] # "cr"
    /\ Len(Produced) = TerminatedLines(fed) + 1

\* The invariant: what is produced are the first lines, what is held begins
\* the next one, and between calls it is no longer than a line may be.
LinesCut ==
    /\ pc # "failed" => line_no = Len(Produced) /\ (AtLineStart \/ AtTailEnd)
    /\ \A k \in 1..Len(Produced) :
           IsLine(fed, Produced[k], k, pc \in {"flush", "finished", "failed"})
    /\ pc \in {"idle", "view"} => Len(carry) <= LineMax
    /\ pc = "finished" => carry = << >> /\ records = << >>
    /\ pc = "idle" => records = << >>

-----------------------------------------------------------------------------
(* Counting newlines. *)

LEMMA NewlinesAreFinite ==
    ASSUME NEW s \in Seq(Byte)
    PROVE  /\ IsFiniteSet(Newlines(s)) /\ TerminatedLines(s) \in Nat
           /\ \A p \in Int : /\ IsFiniteSet(NewlinesUpTo(s, p))
                             /\ CountUpTo(s, p) \in Nat
                             /\ CountUpTo(s, p) <= TerminatedLines(s)
<1>1. Newlines(s) \in SUBSET (1..Len(s)) /\ IsFiniteSet(1..Len(s))
  <2>1. 1 \in Int /\ Len(s) \in Int
    OBVIOUS
  <2> QED BY <2>1, FS_Interval DEF Newlines
<1>2. IsFiniteSet(Newlines(s))
  BY <1>1, FS_Subset
<1>3. TerminatedLines(s) \in Nat
  BY <1>2, FS_CardinalityType DEF TerminatedLines
<1>4. ASSUME NEW p \in Int
      PROVE  /\ IsFiniteSet(NewlinesUpTo(s, p))
             /\ CountUpTo(s, p) \in Nat /\ CountUpTo(s, p) <= TerminatedLines(s)
  <2>1. NewlinesUpTo(s, p) \in SUBSET Newlines(s)
    BY DEF NewlinesUpTo
  <2> QED BY <1>2, <2>1, FS_Subset, FS_CardinalityType
          DEF CountUpTo, TerminatedLines
<1> QED BY <1>2, <1>3, <1>4

\* Bytes that are no newlines do not count.
LEMMA CountSkips ==
    ASSUME NEW s \in Seq(Byte), NEW b \in Nat, NEW e \in Nat, b <= e,
           NoNewline(s, b, e)
    PROVE  /\ NewlinesUpTo(s, e) = NewlinesUpTo(s, b)
           /\ CountUpTo(s, e) = CountUpTo(s, b)
<1>1. ASSUME NEW j \in Newlines(s), j <= e PROVE j <= b
  <2>1. j \in Nat /\ s[j] = "nl"
    BY DEF Newlines
  <2> QED BY <1>1, <2>1 DEF NoNewline
<1>2. \A j \in Newlines(s) : j \in Nat
  BY DEF Newlines
<1>3. NewlinesUpTo(s, e) = NewlinesUpTo(s, b)
  BY <1>1, <1>2 DEF NewlinesUpTo
<1> QED BY <1>3 DEF CountUpTo

\* A newline counts for one.
LEMMA CountNext ==
    ASSUME NEW s \in Seq(Byte), NEW e \in Nat, e < Len(s), s[e + 1] = "nl"
    PROVE  CountUpTo(s, e + 1) = CountUpTo(s, e) + 1
<1>1. e + 1 \in Newlines(s) /\ e + 1 \notin NewlinesUpTo(s, e)
  BY DEF Newlines, NewlinesUpTo
<1>2. NewlinesUpTo(s, e + 1) = NewlinesUpTo(s, e) \cup {e + 1}
  <2>1. \A j \in Newlines(s) : j \in Nat
    BY DEF Newlines
  <2>2. \A j \in Newlines(s) : j <= e + 1 <=> j <= e \/ j = e + 1
    BY <2>1
  <2> QED BY <1>1, <2>2 DEF NewlinesUpTo
<1>3. IsFiniteSet(NewlinesUpTo(s, e))
  BY NewlinesAreFinite
<1> QED BY <1>1, <1>2, <1>3, FS_AddElement DEF CountUpTo

\* No two newlines have the same number.
LEMMA CountGrows ==
    ASSUME NEW s \in Seq(Byte), NEW i \in Nat, NEW j \in Newlines(s), i < j
    PROVE  CountUpTo(s, i) < CountUpTo(s, j)
<1>1. j \in Nat
  BY DEF Newlines
<1>2. NewlinesUpTo(s, i) \in SUBSET NewlinesUpTo(s, j)
  <2>1. \A k \in Newlines(s) : k \in Nat
    BY DEF Newlines
  <2>2. \A k \in Newlines(s) : k <= i => k <= j
    BY <1>1, <2>1
  <2> QED BY <2>2 DEF NewlinesUpTo
<1>3. j \in NewlinesUpTo(s, j) /\ j \notin NewlinesUpTo(s, i)
  BY <1>1 DEF NewlinesUpTo
<1>4. /\ IsFiniteSet(NewlinesUpTo(s, j))
      /\ CountUpTo(s, i) \in Nat /\ CountUpTo(s, j) \in Nat
  <2>1. i \in Int /\ j \in Int
    BY <1>1
  <2> QED BY <2>1, NewlinesAreFinite
<1>5. CountUpTo(s, i) <= CountUpTo(s, j) /\ CountUpTo(s, i) # CountUpTo(s, j)
  BY <1>2, <1>3, <1>4, FS_Subset DEF CountUpTo
<1> QED BY <1>4, <1>5

\* A count that is not zero is reached at one newline.
LEMMA CountIsUnique ==
    ASSUME NEW s \in Seq(Byte), NEW i \in Newlines(s), NEW j \in Newlines(s),
           CountUpTo(s, i) = CountUpTo(s, j)
    PROVE  i = j
<1>1. i \in Nat /\ j \in Nat
  BY DEF Newlines
<1>2. CountUpTo(s, i) \in Nat /\ CountUpTo(s, j) \in Nat
  BY <1>1, NewlinesAreFinite
<1>3. ~(i < j) /\ ~(j < i)
  BY <1>1, <1>2, CountGrows
<1> QED BY <1>1, <1>3

\* The start of a line is where the reference begins it.
LEMMA StartIsLineBegin ==
    ASSUME NEW s \in Seq(Byte), NEW b, NEW n \in Nat, IsStart(s, b, n)
    PROVE  LineBegin(s, n + 1) = b
<1>1. b \in 0..Len(s) /\ (b = 0 \/ s[b] = "nl") /\ CountUpTo(s, b) = n
  BY DEF IsStart
<1>2. b \in Nat
  BY <1>1
<1>3. CASE b = 0
  <2>1. NewlinesUpTo(s, b) = {}
    <3>1. \A j \in Newlines(s) : ~(j <= b)
      BY <1>3 DEF Newlines
    <3> QED BY <3>1 DEF NewlinesUpTo
  <2>2. n = 0
    BY <1>1, <2>1, FS_EmptySet DEF CountUpTo
  <2> QED BY <1>3, <2>2 DEF LineBegin
<1>4. CASE b # 0
  <2>1. b \in Newlines(s)
    BY <1>1, <1>4 DEF Newlines
  <2>2. CountUpTo(s, 0) < CountUpTo(s, b) /\ CountUpTo(s, 0) \in Nat
    BY <1>2, <1>4, <2>1, CountGrows, NewlinesAreFinite
  <2>3. n + 1 # 1 /\ (n + 1) - 1 = n
    BY <1>1, <2>2
  <2>4. LineBegin(s, n + 1) = CHOOSE i \in Newlines(s) : CountUpTo(s, i) = n
    BY <2>3 DEF LineBegin, CountUpTo, NewlinesUpTo
  <2>5. \A i \in Newlines(s) : CountUpTo(s, i) = n => i = b
    BY <1>1, <2>1, CountIsUnique
  <2> QED BY <1>1, <2>1, <2>4, <2>5
<1> QED BY <1>3, <1>4
\* After a line that is terminated the next one starts.
LEMMA NextStart ==
    ASSUME NEW s \in Seq(Byte), NEW k \in Nat, NEW b, NEW e,
           LineSpan(s, k, b, e), e < Len(s)
    PROVE  IsStart(s, e + 1, k) /\ e + 1 \in Newlines(s)
<1>1. /\ b \in 0..Len(s) /\ CountUpTo(s, b) = k - 1
      /\ e \in b..Len(s) /\ NoNewline(s, b, e)
      /\ s[e + 1] = "nl"
  BY DEF LineSpan, LineFrom, IsStart
<1>2. b \in Nat /\ e \in Nat /\ b <= e
  BY <1>1
<1>3. CountUpTo(s, e + 1) = k
  <2>1. CountUpTo(s, e) = k - 1
    BY <1>1, <1>2, CountSkips
  <2> QED BY <1>1, <1>2, <2>1, CountNext
<1>4. e + 1 \in 0..Len(s) /\ e + 1 \in 1..Len(s)
  BY <1>2
<1> QED BY <1>1, <1>3, <1>4 DEF IsStart, Newlines

\* A line is that of the reference, and one of the lines there are.
LEMMA SpanIsTheLine ==
    ASSUME NEW s \in Seq(Byte), NEW k \in Nat \ {0}, NEW b, NEW e,
           LineSpan(s, k, b, e)
    PROVE  /\ LineBegin(s, k) = b /\ LineStop(s, k) = e
           /\ RawLine(s, k) = SubSeq(s, b + 1, e)
           /\ k \in 1..LinesOfEnded(s)
           /\ e < Len(s) => k <= TerminatedLines(s)
           /\ e = Len(s) => /\ HasTail(s) /\ k = LinesOfEnded(s)
                            /\ TerminatedLines(s) = k - 1
<1>1. /\ IsStart(s, b, k - 1) /\ b \in 0..Len(s) /\ CountUpTo(s, b) = k - 1
      /\ e \in b..Len(s) /\ NoNewline(s, b, e)
      /\ \/ e < Len(s)
         \/ e = Len(s) /\ b < e
  BY DEF LineSpan, LineFrom, IsStart
<1>2. /\ b \in Nat /\ e \in Nat /\ b <= e /\ Len(s) \in Nat
      /\ k - 1 \in Nat /\ (k - 1) + 1 = k
      /\ TerminatedLines(s) \in Nat
  BY <1>1, NewlinesAreFinite
<1>3. LineBegin(s, k) = b
  BY <1>1, <1>2, StartIsLineBegin
<1>4. CASE e < Len(s)
  <2>1. IsStart(s, e + 1, k) /\ CountUpTo(s, e + 1) = k
    BY <1>4, NextStart DEF IsStart
  <2>2. k <= TerminatedLines(s)
    <3>1. e + 1 \in Int
      BY <1>2
    <3> QED BY <2>1, <3>1, NewlinesAreFinite
  <2>3. LineBegin(s, k + 1) = e + 1
    BY <2>1, StartIsLineBegin
  <2>4. LineStop(s, k) = e
    <3>1. (e + 1) - 1 = e
      BY <1>2
    <3> QED BY <2>2, <2>3, <3>1 DEF LineStop, TerminatedLines
  <2>5. k \in 1..LinesOfEnded(s)
    BY <1>2, <2>2 DEF LinesOfEnded
  <2> QED BY <1>2, <1>3, <1>4, <2>2, <2>4, <2>5 DEF RawLine
<1>5. CASE e = Len(s) /\ b < e
  <2>1. TerminatedLines(s) = k - 1
    <3>1. NewlinesUpTo(s, Len(s)) = Newlines(s)
      BY <1>2 DEF NewlinesUpTo, Newlines
    <3>2. CountUpTo(s, e) = CountUpTo(s, b)
      BY <1>1, <1>2, CountSkips
    <3> QED BY <1>1, <1>5, <3>1, <3>2 DEF CountUpTo, TerminatedLines
  <2>2. HasTail(s)
    <3>1. e \in (b + 1)..e /\ Len(s) # 0
      BY <1>2, <1>5
    <3>2. s[e] # "nl"
      BY <1>1, <3>1 DEF NoNewline
    <3>3. s # << >>
      BY <3>1, EmptySeq
    <3> QED BY <1>5, <3>2, <3>3 DEF HasTail
  <2>3. k = LinesOfEnded(s) /\ k \in 1..LinesOfEnded(s)
    BY <1>2, <2>1, <2>2 DEF LinesOfEnded
  <2>4. LineStop(s, k) = e
    <3>1. ~(k <= TerminatedLines(s))
      BY <1>2, <2>1
    <3> QED BY <1>5, <3>1 DEF LineStop, TerminatedLines
  <2> QED BY <1>2, <1>3, <1>5, <2>1, <2>2, <2>3, <2>4 DEF RawLine
<1> QED BY <1>1, <1>4, <1>5

\* What starts before the end of the stream is a line.
LEMMA LineIsThere ==
    ASSUME NEW s \in Seq(Byte), NEW b, NEW n \in Nat, IsStart(s, b, n),
           b < Len(s)
    PROVE  \E e \in b..Len(s) : LineSpan(s, n + 1, b, e)
<1>1. b \in Nat /\ Len(s) \in Nat /\ (n + 1) - 1 = n
  BY DEF IsStart
<1> DEFINE T == {e \in b..Len(s) : e < Len(s) /\ s[e + 1] = "nl"}
<1>2. CASE T = {}
  <2>1. NoNewline(s, b, Len(s))
    <3> SUFFICES ASSUME NEW i \in (b + 1)..Len(s) PROVE s[i] # "nl"
      BY DEF NoNewline
    <3>1. i - 1 \in b..Len(s) /\ i - 1 < Len(s) /\ (i - 1) + 1 = i
      BY <1>1
    <3> QED BY <1>2, <3>1
  <2>2. Len(s) \in b..Len(s)
    BY <1>1
  <2>3. LineSpan(s, n + 1, b, Len(s))
    BY <1>1, <2>1, <2>2 DEF LineSpan, LineFrom
  <2> QED BY <2>2, <2>3
<1>3. CASE T # {}
  <2>1. T \in SUBSET Nat
    BY <1>1
  <2> HIDE DEF T
  <2>2. PICK e \in T : \A j \in T : e <= j
    BY <1>3, <2>1, LeastNumber
  <2>3. e \in b..Len(s) /\ e < Len(s) /\ s[e + 1] = "nl"
    BY <2>2 DEF T
  <2>4. NoNewline(s, b, e)
    <3> SUFFICES ASSUME NEW i \in (b + 1)..e, s[i] = "nl" PROVE FALSE
      BY DEF NoNewline
    <3>1. /\ i - 1 \in b..Len(s) /\ i - 1 < Len(s) /\ (i - 1) + 1 = i
          /\ ~(e <= i - 1)
      BY <1>1, <2>3
    <3>2. i - 1 \in T
      BY <3>1 DEF T
    <3> QED BY <2>2, <3>1, <3>2
  <2>5. LineSpan(s, n + 1, b, e)
    BY <1>1, <2>3, <2>4 DEF LineSpan, LineFrom
  <2> QED BY <2>3, <2>5
<1> QED BY <1>2, <1>3

\* Streams that begin alike have the same lines there.
LEMMA StartStays ==
    ASSUME NEW s \in Seq(Byte), NEW t \in Seq(Byte), NEW size \in Nat,
           size <= Len(s), size <= Len(t), \A i \in 1..size : s[i] = t[i],
           NEW b, NEW n, IsStart(s, b, n), b <= size
    PROVE  IsStart(t, b, n)
<1>1. b \in Nat /\ Len(s) \in Nat /\ Len(t) \in Nat
  BY DEF IsStart
<1>2. NewlinesUpTo(t, b) = NewlinesUpTo(s, b)
  <2>1. ASSUME NEW j \in Nat, 1 <= j, j <= b
        PROVE  j \in Newlines(s) <=> j \in Newlines(t)
    <3>1. j \in 1..Len(s) /\ j \in 1..Len(t) /\ j \in 1..size
      BY <1>1, <2>1
    <3> QED BY <3>1 DEF Newlines
  <2>2. \A j \in Newlines(s) \cup Newlines(t) : j \in Nat /\ 1 <= j
    BY DEF Newlines
  <2> QED BY <2>1, <2>2 DEF NewlinesUpTo
<1>3. b = 0 \/ t[b] = "nl"
  <2>1. CASE b # 0
    <3>1. b \in 1..size
      BY <1>1, <2>1
    <3> QED BY <2>1, <3>1 DEF IsStart
  <2> QED BY <2>1
<1>4. b \in 0..Len(t) /\ CountUpTo(t, b) = n
  BY <1>1, <1>2 DEF IsStart, CountUpTo
<1> QED BY <1>3, <1>4 DEF IsStart

LEMMA SpanStays ==
    ASSUME NEW s \in Seq(Byte), NEW t \in Seq(Byte), NEW size \in Nat,
           size <= Len(s), size <= Len(t), \A i \in 1..size : s[i] = t[i],
           NEW k, NEW b, NEW e, LineSpan(s, k, b, e), e < size
    PROVE  LineSpan(t, k, b, e) /\ e < Len(t)
           /\ Raw(t, b, e) = Raw(s, b, e)
<1>1. /\ b \in 0..Len(s) /\ e \in b..Len(s) /\ IsStart(s, b, k - 1)
      /\ NoNewline(s, b, e) /\ s[e + 1] = "nl"
  BY DEF LineSpan, LineFrom, IsStart
<1>2. /\ b \in Nat /\ e \in Nat /\ b <= e /\ b <= size
      /\ Len(s) \in Nat /\ Len(t) \in Nat /\ e < Len(t) /\ e \in b..Len(t)
  BY <1>1
<1>3. IsStart(t, b, k - 1)
  BY <1>1, <1>2, StartStays
<1>4. NoNewline(t, b, e)
  <2> SUFFICES ASSUME NEW i \in (b + 1)..e PROVE t[i] # "nl"
    BY DEF NoNewline
  <2>1. i \in 1..size
    BY <1>2
  <2> QED BY <1>1, <2>1 DEF NoNewline
<1>5. t[e + 1] = "nl"
  <2>1. e + 1 \in 1..size
    BY <1>2
  <2> QED BY <1>1, <2>1
<1>6. SubSeq(t, b + 1, e) = SubSeq(s, b + 1, e)
  <2> DEFINE part == SubSeq(t, b + 1, e)
             m == b + 1
  <2>1. /\ m \in 1..Len(s) + 1 /\ m \in 1..Len(t) + 1
        /\ e \in (m - 1)..Len(s) /\ e \in (m - 1)..Len(t)
        /\ \A i \in 1..(e - m + 1) : m + i - 1 \in 1..size
    BY <1>2
  <2> HIDE DEF m
  <2>2. /\ part \in Seq(Byte) /\ Len(part) = e - m + 1
        /\ \A i \in 1..(e - m + 1) : part[i] = t[m + i - 1]
    BY <2>1, PieceProperties DEF m
  <2> HIDE DEF part
  <2>3. \A i \in 1..Len(part) : part[i] = s[m + i - 1]
    BY <2>1, <2>2
  <2>4. part = SubSeq(s, m, e)
    BY <2>1, <2>2, <2>3, PieceIsUnique
  <2> QED BY <2>4 DEF m, part
<1> QED BY <1>2, <1>3, <1>4, <1>5, <1>6, Zenon DEF LineSpan, LineFrom, Raw
\* So have their records.
LEMMA LineStays ==
    ASSUME NEW s \in Seq(Byte), NEW t \in Seq(Byte), Len(s) <= Len(t),
           \A i \in 1..Len(s) : s[i] = t[i],
           NEW r, NEW k, IsLine(s, r, k, FALSE)
    PROVE  IsLine(t, r, k, FALSE)
<1>1. PICK e \in 0..Len(s) :
          /\ LineSpan(s, k, r.byte_start, e)
          /\ AllowedRaw(Raw(s, r.byte_start, e))
          /\ r = RecordOf(Raw(s, r.byte_start, e), k, r.byte_start)
          /\ e < Len(s)
  BY DEF IsLine
<1> DEFINE b == r.byte_start
<1>2. LineSpan(s, k, b, e)
  BY <1>1
<1> HIDE DEF b
<1>3. /\ LineSpan(t, k, b, e) /\ e < Len(t)
      /\ Raw(t, b, e) = Raw(s, b, e)
  <2>1. Len(s) \in Nat /\ Len(s) <= Len(s)
    OBVIOUS
  <2>2. e < Len(s)
    BY <1>1
  <2> QED BY <1>2, <2>1, <2>2, SpanStays
<1>4. /\ AllowedRaw(Raw(t, b, e))
      /\ r = RecordOf(Raw(t, b, e), k, b)
  <2> DEFINE here == Raw(s, b, e)
             there == Raw(t, b, e)
  <2>1. AllowedRaw(here) /\ r = RecordOf(here, k, b) /\ there = here
    BY <1>1, <1>3 DEF b
  <2> HIDE DEF here, there
  <2>2. AllowedRaw(there) /\ r = RecordOf(there, k, b)
    BY <2>1
  <2> QED BY <2>2 DEF there
<1>5. e \in 0..Len(t)
  BY <1>1, <1>3
<1> QED BY <1>3, <1>4, <1>5, Zenon DEF IsLine, b

-----------------------------------------------------------------------------
(* What the language answers. *)

\* The line an answer takes off a window, e bytes of it.
Taken(window, e, eof) ==
    /\ LineFrom(window, 0, e)
    /\ e < Len(window) \/ eof

\* What is wrong with a window that is refused.
Faulty(window, eof) ==
    \/ HasControl(window)
    \/ \E e \in 0..Len(window) :
           Taken(window, e, eof) /\ ~AllowedRaw(SubSeq(window, 1, e))
    \/ NoNewline(window, 0, Len(window)) /\ Len(window) > LineMax
    \/ eof /\ NoNewline(window, 0, Len(window)) /\ EndsWithCR(window)

\* The answer is a line, and holds what follows its newline.
LineAnswer(window, out, e, eof) ==
    /\ Taken(window, e, eof)
    /\ Plain(SubSeq(window, 1, e))
    /\ out.line = StripCR(SubSeq(window, 1, e))
    /\ Len(out.line) <= LineMax
    /\ e < Len(window) => Len(out.carry) = Len(window) - (e + 1)
    /\ e = Len(window) => out.carry = << >> /\ window[e] # "cr"

AnswerMeans(window, out, eof) ==
    \/ out.status = "line" /\ \E e \in 0..Len(window) : LineAnswer(window, out, e, eof)
    \/ out.status = "need_more" /\ ~eof /\ out.carry = window /\ Len(window) <= LineMax
    \/ out.status = "complete" /\ eof /\ out.carry = << >> /\ window = << >>
    \/ out.status \in Refusals /\ Faulty(window, eof)

LEMMA PlainIsClean ==
    ASSUME NEW line \in Seq(Byte)
    PROVE  IsClean(line) <=> Plain(line)
BY DEF IsClean, Plain

\* The bytes before the first newline are a line.
LEMMA FirstNewlineEndsLine ==
    ASSUME NEW s \in Seq(Byte), Newlines(s) # {}
    PROVE  LET e == FirstNewline(s) - 1
           IN  e \in 0..Len(s) /\ e < Len(s) /\ LineFrom(s, 0, e)
<1>1. Newlines(s) \in SUBSET Nat
  BY DEF Newlines
<1>2. \E i \in Newlines(s) : \A j \in Newlines(s) : i <= j
  BY <1>1, LeastNumber
<1> DEFINE at == FirstNewline(s)
<1>3. at \in Newlines(s) /\ \A j \in Newlines(s) : at <= j
  BY <1>2 DEF FirstNewline
<1> HIDE DEF at
<1>4. /\ at \in 1..Len(s) /\ s[at] = "nl" /\ (at - 1) + 1 = at
      /\ at - 1 \in 0..Len(s) /\ at - 1 < Len(s)
  BY <1>3 DEF Newlines
<1>5. NoNewline(s, 0, at - 1)
  <2> SUFFICES ASSUME NEW i \in (0 + 1)..(at - 1), s[i] = "nl" PROVE FALSE
    BY DEF NoNewline
  <2>1. i \in 1..Len(s) /\ ~(at <= i)
    BY <1>4
  <2> QED BY <1>3, <2>1 DEF Newlines
<1>6. LineFrom(s, 0, at - 1)
  BY <1>4, <1>5 DEF LineFrom
<1> QED BY <1>4, <1>6 DEF at

LEMMA WithoutNewlines ==
    ASSUME NEW s \in Seq(Byte), Newlines(s) = {}
    PROVE  /\ NoNewline(s, 0, Len(s))
           /\ s # << >> => LineFrom(s, 0, Len(s))
<1>1. NoNewline(s, 0, Len(s))
  BY DEF NoNewline, Newlines
<1>2. s # << >> => Len(s) > 0 /\ Len(s) \in 0..Len(s)
  BY EmptySeq
<1> QED BY <1>1, <1>2 DEF LineFrom

LEMMA AnswersMean ==
    ASSUME NEW carry_ \in Seq(Byte), NEW view \in Seq(Byte), NEW eof \in BOOLEAN,
           Len(carry_) <= CarryCap, Fits(carry_, view)
    PROVE  AnswerMeans(carry_ \o view, NextLine(carry_, view, eof), eof)
<1> DEFINE staged == carry_ \o view
           out == NextLine(carry_, view, eof)
<1> SUFFICES AnswerMeans(staged, out, eof)
  OBVIOUS
<1>1. /\ staged \in Seq(Byte) /\ Len(staged) \in Nat
      /\ LineMax \in Nat
  BY WindowTyped, LinesAssumption
<1>2. ASSUME NEW code \in Refusals, out = FailLine(code, view),
             Faulty(staged, eof)
      PROVE  AnswerMeans(staged, out, eof)
  <2>1. out.status \in Refusals
    BY <1>2 DEF FailLine, LineOut
  <2> QED BY <1>2, <2>1 DEF AnswerMeans
<1>3. CASE HasControl(staged)
  <2>1. out = FailLine("malformed", view)
    BY <1>3 DEF NextLine
  <2>2. Faulty(staged, eof)
    BY <1>3 DEF Faulty
  <2> QED BY <1>2, <2>1, <2>2 DEF Refusals
<1>4. CASE ~HasControl(staged) /\ Newlines(staged) # {}
  <2> DEFINE at == FirstNewline(staged)
             raw == SubSeq(staged, 1, at - 1)
             held == SubSeq(staged, at + 1, at + Kept(staged, at, CarryCap))
  <2>1. out = EmitLine(carry_, view)
    BY <1>4 DEF NextLine
  <2>2. at - 1 \in 0..Len(staged) /\ Taken(staged, at - 1, eof) /\ at - 1 < Len(staged)
    BY <1>1, <1>4, FirstNewlineEndsLine DEF Taken
  <2>3. raw \in Seq(Byte)
    <3>1. 1 \in 1..Len(staged) + 1 /\ at - 1 \in (1 - 1)..Len(staged)
      BY <1>1, <2>2
    <3> HIDE DEF at
    <3> QED BY <1>1, <3>1, PieceProperties
  <2>4. CASE ~IsClean(raw)
    <3>1. out = FailLine("malformed", view)
      BY <2>1, <2>4 DEF EmitLine
    <3>2. ~Plain(raw)
      BY <2>3, <2>4, PlainIsClean
    <3>3. Faulty(staged, eof)
      <4> HIDE DEF at
      <4> QED BY <2>2, <3>2 DEF Faulty, AllowedRaw
    <3> QED BY <1>2, <3>1, <3>3 DEF Refusals
  <2>5. CASE IsClean(raw) /\ Len(StripCR(raw)) > LineMax
    <3>1. out = FailLine("overlong", view)
      BY <2>1, <2>5 DEF EmitLine
    <3>2. Len(StripCR(raw)) \in Nat
      <4>1. StripCR(raw) \in Seq(Byte)
        <5>1. at \in 1..Len(staged) /\ staged[at] = "nl"
          BY <1>1, <1>4, FirstNewlineIsThere DEF Newlines
        <5> HIDE DEF at, staged
        <5> QED BY <1>1, <5>1, EmitCuts
      <4> HIDE DEF raw
      <4> QED BY <4>1
    <3>3. ~(Len(StripCR(raw)) <= LineMax)
      <4> HIDE DEF raw
      <4> QED BY <1>1, <2>5, <3>2
    <3>4. Faulty(staged, eof)
      <4> HIDE DEF at
      <4> QED BY <2>2, <3>3 DEF Faulty, AllowedRaw
    <3> QED BY <1>2, <3>1, <3>4 DEF Refusals
  <2>6. CASE IsClean(raw) /\ ~(Len(StripCR(raw)) > LineMax)
    <3>1. out = LineOut("line", StripCR(raw), held,
                        Consumed(carry_, view, at, CarryCap))
      BY <2>1, <2>6 DEF EmitLine
    <3>2. /\ held \in Seq(Byte) /\ Len(staged) - Len(held) = at
          /\ at \in 1..Len(staged) /\ staged[at] = "nl"
      BY <1>4, EmitAccounts
    <3> HIDE DEF held, at, staged
    <3>3. StripCR(raw) \in Seq(Byte)
      BY <1>1, <3>2, EmitCuts
    <3>4. Plain(raw)
      BY <2>3, <2>6, PlainIsClean
    <3> DEFINE line == StripCR(raw)
    <3>5. line \in Seq(Byte) /\ ~(Len(line) > LineMax)
      BY <2>6, <3>3
    <3>6. out.status = "line" /\ out.carry = held /\ out.line = line
      BY <3>1 DEF LineOut
    <3> HIDE DEF out, line
    <3>7. Len(out.line) <= LineMax
      BY <1>1, <3>5, <3>6
    <3>8. Len(out.carry) = Len(staged) - ((at - 1) + 1) /\ at - 1 # Len(staged)
      <4>1. PICK size \in Nat, part \in Nat : size = Len(staged) /\ part = Len(held)
        BY <1>1, <3>2
      <4> QED BY <3>2, <3>6, <4>1
    <3>9. LineAnswer(staged, out, at - 1, eof)
      BY <2>2, <3>4, <3>6, <3>7, <3>8 DEF LineAnswer, line
    <3> QED BY <2>2, <3>6, <3>9 DEF AnswerMeans
  <2> QED BY <2>4, <2>5, <2>6
<1>5. CASE ~HasControl(staged) /\ Newlines(staged) = {} /\ eof
  <2> HIDE DEF staged
  <2>1. out = EmitTail(carry_, view)
    BY <1>5 DEF NextLine, staged
  <2>2. NoNewline(staged, 0, Len(staged))
    BY <1>1, <1>5, WithoutNewlines
  <2>3. CASE staged = << >>
    <3>1. out = LineOut("complete", << >>, << >>, Len(view))
      BY <2>1, <2>3 DEF EmitTail, staged
    <3>2. out.status = "complete" /\ out.carry = << >>
      BY <3>1 DEF LineOut
    <3> HIDE DEF out
    <3> QED BY <1>5, <2>3, <3>2 DEF AnswerMeans
  <2>4. CASE staged # << >> /\ Len(staged) > LineMax
    <3>1. out = FailLine("overlong", view)
      BY <2>1, <2>4 DEF EmitTail, staged
    <3>2. Faulty(staged, eof)
      BY <2>2, <2>4 DEF Faulty
    <3> QED BY <1>2, <3>1, <3>2 DEF Refusals
  <2>5. CASE staged # << >> /\ ~(Len(staged) > LineMax) /\ EndsWithCR(staged)
    <3>1. out = FailLine("malformed", view)
      BY <2>1, <2>5 DEF EmitTail, staged
    <3>2. Faulty(staged, eof)
      BY <1>5, <2>2, <2>5 DEF Faulty
    <3> QED BY <1>2, <3>1, <3>2 DEF Refusals
  <2>6. CASE staged # << >> /\ ~(Len(staged) > LineMax) /\ ~EndsWithCR(staged)
    <3>1. /\ Len(staged) \in 0..Len(staged) /\ Taken(staged, Len(staged), eof)
          /\ SubSeq(staged, 1, Len(staged)) = staged
      BY <1>1, <1>5, <2>6, WithoutNewlines, SubSeqFull DEF Taken
    <3>2. CASE ~IsClean(staged)
      <4>1. out = FailLine("malformed", view)
        BY <2>1, <2>6, <3>2 DEF EmitTail, staged
      <4>2. ~Plain(staged)
        BY <1>1, <3>2, PlainIsClean
      <4>3. Faulty(staged, eof)
        BY <3>1, <4>2 DEF Faulty, AllowedRaw
      <4> QED BY <1>2, <4>1, <4>3 DEF Refusals
    <3>3. CASE IsClean(staged)
      <4>1. out = LineOut("line", staged, << >>, Len(view))
        BY <2>1, <2>6, <3>3 DEF EmitTail, staged
      <4>2. out.status = "line" /\ out.line = staged /\ out.carry = << >>
        BY <4>1 DEF LineOut
      <4>3. Plain(staged) /\ StripCR(staged) = staged /\ staged[Len(staged)] # "cr"
        BY <1>1, <2>6, <3>3, PlainIsClean DEF StripCR, EndsWithCR
      <4>4. Len(staged) <= LineMax
        BY <1>1, <2>6
      <4> HIDE DEF out
      <4>5. ~(Len(staged) < Len(staged))
        BY <1>1
      <4>6. LineAnswer(staged, out, Len(staged), eof)
        BY <3>1, <4>2, <4>3, <4>4, <4>5, Zenon DEF LineAnswer
      <4> QED BY <3>1, <4>2, <4>6 DEF AnswerMeans
    <3> QED BY <3>2, <3>3
  <2> QED BY <2>3, <2>4, <2>5, <2>6
<1>6. CASE ~HasControl(staged) /\ Newlines(staged) = {} /\ ~eof
  <2> HIDE DEF staged
  <2>1. out = Hold(carry_, view)
    BY <1>6 DEF NextLine, staged
  <2>2. CASE Len(staged) > LineMax
    <3>1. out = FailLine("overlong", view)
      BY <2>1, <2>2 DEF Hold, staged
    <3>2. Faulty(staged, eof)
      BY <1>1, <1>6, <2>2, WithoutNewlines DEF Faulty
    <3> QED BY <1>2, <3>1, <3>2 DEF Refusals
  <2>3. CASE ~(Len(staged) > LineMax)
    <3>1. out = LineOut("need_more", << >>, staged, Len(view))
      BY <2>1, <2>3 DEF Hold, staged
    <3>2. out.status = "need_more" /\ out.carry = staged /\ Len(staged) <= LineMax
      BY <1>1, <2>3, <3>1 DEF LineOut
    <3> HIDE DEF out
    <3> QED BY <1>6, <3>2 DEF AnswerMeans
  <2> QED BY <2>2, <2>3
<1> QED BY <1>3, <1>4, <1>5, <1>6
-----------------------------------------------------------------------------
(* Windows in their stream. *)

\* The window has the bytes of the stream after the first start of them.
Within(s, w, start) ==
    /\ start + Len(w) <= Len(s)
    /\ \A i \in 1..Len(w) : w[i] = s[start + i]

LEMMA PieceMoves ==
    ASSUME NEW s \in Seq(Byte), NEW w \in Seq(Byte), NEW start \in Nat,
           Within(s, w, start), NEW e \in 0..Len(w)
    PROVE  SubSeq(s, start + 1, start + e) = SubSeq(w, 1, e)
<1> DEFINE part == SubSeq(w, 1, e)
           m == start + 1
           n == start + e
<1>1. /\ Len(w) \in Nat /\ Len(s) \in Nat /\ start + Len(w) <= Len(s) /\ e \in Nat
      /\ \A i \in 1..Len(w) : w[i] = s[start + i]
  BY DEF Within
<1>2. /\ part \in Seq(Byte) /\ Len(part) = e
      /\ \A i \in 1..e : part[i] = w[i]
  <2>1. 1 \in 1..Len(w) + 1 /\ e \in (1 - 1)..Len(w) /\ e - 1 + 1 = e
    BY <1>1
  <2>2. /\ part \in Seq(Byte) /\ Len(part) = e - 1 + 1
        /\ \A i \in 1..(e - 1 + 1) : part[i] = w[1 + i - 1]
    BY <2>1, PieceProperties
  <2> HIDE DEF part
  <2> QED BY <1>1, <2>2
<1> HIDE DEF part
<1>3. /\ m \in 1..Len(s) + 1 /\ n \in (m - 1)..Len(s) /\ Len(part) = n - m + 1
      /\ \A i \in 1..e : i \in 1..Len(w) /\ start + i = m + i - 1
  BY <1>1, <1>2
<1> HIDE DEF m, n
<1>4. \A i \in 1..Len(part) : part[i] = s[m + i - 1]
  BY <1>1, <1>2, <1>3
<1>5. part = SubSeq(s, m, n)
  BY <1>2, <1>3, <1>4, PieceIsUnique
<1> QED BY <1>5 DEF part, m, n

LEMMA LineMoves ==
    ASSUME NEW s \in Seq(Byte), NEW w \in Seq(Byte), NEW start \in Nat,
           Within(s, w, start), NEW e, LineFrom(w, 0, e),
           e < Len(w) \/ start + Len(w) = Len(s)
    PROVE  /\ LineFrom(s, start, start + e)
           /\ SubSeq(s, start + 1, start + e) = SubSeq(w, 1, e)
<1>1. /\ Len(w) \in Nat /\ Len(s) \in Nat /\ start + Len(w) <= Len(s)
      /\ \A i \in 1..Len(w) : w[i] = s[start + i]
      /\ e \in 0..Len(w) /\ NoNewline(w, 0, e)
      /\ \/ e < Len(w) /\ w[e + 1] = "nl"
         \/ e = Len(w) /\ 0 < e
  BY DEF Within, LineFrom
<1>2. e \in Nat /\ start + e \in start..Len(s) /\ start <= Len(s)
  BY <1>1
<1>3. NoNewline(s, start, start + e)
  <2> SUFFICES ASSUME NEW i \in (start + 1)..(start + e) PROVE s[i] # "nl"
    BY DEF NoNewline
  <2>1. /\ i - start \in 1..Len(w) /\ i - start \in (0 + 1)..e
        /\ start + (i - start) = i
    BY <1>1, <1>2
  <2>2. w[i - start] # "nl"
    BY <1>1, <2>1 DEF NoNewline
  <2> QED BY <1>1, <2>1, <2>2
<1>4. \/ start + e < Len(s) /\ s[(start + e) + 1] = "nl"
      \/ start + e = Len(s) /\ start < start + e
  <2>1. CASE e < Len(w) /\ w[e + 1] = "nl"
    <3>1. /\ e + 1 \in 1..Len(w) /\ start + (e + 1) = (start + e) + 1
          /\ start + e < Len(s)
      BY <1>1, <1>2, <2>1
    <3> QED BY <1>1, <2>1, <3>1
  <2>2. CASE e = Len(w) /\ 0 < e
    BY <1>1, <1>2, <2>2
  <2> QED BY <1>1, <2>1, <2>2
<1>5. LineFrom(s, start, start + e)
  BY <1>2, <1>3, <1>4 DEF LineFrom
<1> QED BY <1>1, <1>5, PieceMoves

LEMMA StripShortens ==
    ASSUME NEW line \in Seq(Byte)
    PROVE  StripCR(line) \in Seq(Byte) /\ Len(StripCR(line)) <= Len(line)
<1>1. CASE EndsWithCR(line)
  <2>1. Len(line) \in Nat /\ Len(line) # 0
    BY <1>1, EmptySeq DEF EndsWithCR
  <2>2. /\ 1 \in 1..Len(line) + 1 /\ Len(line) - 1 \in (1 - 1)..Len(line)
        /\ (Len(line) - 1) - 1 + 1 <= Len(line)
    BY <2>1
  <2>3. /\ SubSeq(line, 1, Len(line) - 1) \in Seq(Byte)
        /\ Len(SubSeq(line, 1, Len(line) - 1)) = (Len(line) - 1) - 1 + 1
    BY <2>2, PieceProperties
  <2>4. StripCR(line) = SubSeq(line, 1, Len(line) - 1)
    BY <1>1 DEF StripCR
  <2> DEFINE short == SubSeq(line, 1, Len(line) - 1)
  <2> HIDE DEF short
  <2>5. short \in Seq(Byte) /\ Len(short) <= Len(line)
    BY <2>2, <2>3 DEF short
  <2> QED BY <2>4, <2>5 DEF short
<1>2. CASE ~EndsWithCR(line)
  <2>1. StripCR(line) = line
    BY <1>2 DEF StripCR
  <2> QED BY <2>1
<1> QED BY <1>1, <1>2

\* A line the reader does not let pass is not sound.
LEMMA NotAllowedNotSound ==
    ASSUME NEW s \in Seq(Byte), NEW k, NEW raw \in Seq(Byte),
           RawLine(s, k) = raw, ~AllowedRaw(raw)
    PROVE  ~SoundLine(s, k)
<1>1. /\ Len(StripCR(raw)) \in Nat /\ Len(raw) \in Nat /\ LineMax \in Nat
      /\ Len(StripCR(raw)) <= Len(raw)
  BY StripShortens, LinesAssumption
<1> DEFINE short == Len(StripCR(raw))
<1> HIDE DEF short
<1>2. Len(raw) <= LineMax => short <= LineMax
  BY <1>1 DEF short
<1> QED BY <1>2 DEF SoundLine, AllowedRaw, short

\* What is wrong with a window, but for its control bytes, is wrong with the
\* line that starts where it does.
LEMMA FaultIsInTheLine ==
    ASSUME NEW s \in Seq(Byte), NEW w \in Seq(Byte), NEW start \in Nat,
           Within(s, w, start), NEW n \in Nat, IsStart(s, start, n),
           NEW eof \in BOOLEAN, eof => start + Len(w) = Len(s),
           Faulty(w, eof), ~HasControl(w)
    PROVE  /\ n + 1 \in 1..LinesOfEnded(s)
           /\ \/ ~SoundLine(s, n + 1)
              \/ n + 1 = LinesOfEnded(s) /\ HasTail(s) /\ s[Len(s)] = "cr"
<1>1. /\ Len(w) \in Nat /\ Len(s) \in Nat /\ start + Len(w) <= Len(s)
      /\ \A i \in 1..Len(w) : w[i] = s[start + i]
      /\ n + 1 \in Nat \ {0} /\ (n + 1) - 1 = n /\ LineMax \in Nat
  BY LinesAssumption DEF Within
<1>2. ASSUME NEW e \in 0..Len(w), Taken(w, e, eof)
      PROVE  /\ LineSpan(s, n + 1, start, start + e)
             /\ n + 1 \in 1..LinesOfEnded(s)
             /\ RawLine(s, n + 1) = SubSeq(w, 1, e)
  <2>1. /\ LineFrom(s, start, start + e)
        /\ SubSeq(s, start + 1, start + e) = SubSeq(w, 1, e)
    BY <1>1, <1>2, LineMoves DEF Taken
  <2>2. LineSpan(s, n + 1, start, start + e)
    BY <1>1, <2>1 DEF LineSpan
  <2> QED BY <1>1, <2>1, <2>2, SpanIsTheLine
<1>3. ASSUME NEW e \in 0..Len(w), Taken(w, e, eof), ~AllowedRaw(SubSeq(w, 1, e))
      PROVE  n + 1 \in 1..LinesOfEnded(s) /\ ~SoundLine(s, n + 1)
  <2>1. SubSeq(w, 1, e) \in Seq(Byte)
    <3>1. 1 \in 1..Len(w) + 1 /\ e \in (1 - 1)..Len(w)
      BY <1>1
    <3> QED BY <3>1, PieceProperties
  <2> QED BY <1>2, <1>3, <2>1, NotAllowedNotSound
<1>4. CASE NoNewline(w, 0, Len(w)) /\ Len(w) > LineMax
  <2>1. start < Len(s)
    BY <1>1, <1>4
  <2>2. PICK e \in start..Len(s) : LineSpan(s, n + 1, start, e)
    BY <2>1, LineIsThere
  <2>3. n + 1 \in 1..LinesOfEnded(s) /\ RawLine(s, n + 1) = SubSeq(s, start + 1, e)
    BY <1>1, <2>2, SpanIsTheLine
  <2>4. ~(e < start + Len(w))
    <3> SUFFICES ASSUME e < start + Len(w) PROVE FALSE
      OBVIOUS
    <3>1. e \in Nat /\ e < Len(s) /\ s[e + 1] = "nl"
      BY <1>1, <2>2 DEF LineSpan, LineFrom
    <3>2. /\ (e + 1) - start \in 1..Len(w) /\ start + ((e + 1) - start) = e + 1
          /\ (e + 1) - start \in (0 + 1)..Len(w)
      BY <1>1, <3>1
    <3> QED BY <1>1, <1>4, <3>1, <3>2 DEF NoNewline
  <2>5. Len(SubSeq(s, start + 1, e)) > LineMax
    <3> DEFINE m == start + 1
    <3>1. /\ m \in 1..Len(s) + 1 /\ e \in (m - 1)..Len(s)
          /\ e - m + 1 > LineMax
      BY <1>1, <1>4, <2>1, <2>4
    <3> HIDE DEF m
    <3>2. Len(SubSeq(s, m, e)) = e - m + 1
      BY <3>1, PieceProperties
    <3> QED BY <3>1, <3>2 DEF m
  <2>6. ~(Len(RawLine(s, n + 1)) <= LineMax)
    <3> DEFINE raw == SubSeq(s, start + 1, e)
    <3>1. Len(raw) \in Nat
      <4>1. start + 1 \in 1..Len(s) + 1 /\ e \in ((start + 1) - 1)..Len(s)
        BY <1>1, <2>1
      <4> QED BY <4>1, PieceProperties
    <3>2. Len(raw) > LineMax
      BY <2>5
    <3> HIDE DEF raw
    <3>3. ~(Len(raw) <= LineMax)
      BY <1>1, <3>1, <3>2
    <3> QED BY <2>3, <3>3 DEF raw
  <2> QED BY <2>3, <2>6 DEF SoundLine
<1>5. CASE eof /\ NoNewline(w, 0, Len(w)) /\ EndsWithCR(w)
  <2>1. w # << >> /\ w[Len(w)] = "cr" /\ Len(w) \in 1..Len(w)
    BY <1>1, <1>5, EmptySeq DEF EndsWithCR
  <2>2. Len(w) \in 0..Len(w) /\ Taken(w, Len(w), eof)
    BY <1>1, <1>5, <2>1 DEF Taken, LineFrom
  <2>3. LineSpan(s, n + 1, start, Len(s))
    BY <1>2, <1>5, <2>2
  <2>4. n + 1 = LinesOfEnded(s) /\ HasTail(s) /\ n + 1 \in 1..LinesOfEnded(s)
    BY <1>1, <2>3, SpanIsTheLine
  <2>5. s[Len(s)] = "cr"
    BY <1>1, <1>5, <2>1
  <2> QED BY <2>4, <2>5
<1> QED BY <1>3, <1>4, <1>5 DEF Faulty

\* A control byte is in some line, which is not sound.
LEMMA ControlSpoilsALine ==
    ASSUME NEW s \in Seq(Byte), NEW p \in 1..Len(s), s[p] = "ctl"
    PROVE  \E k \in 1..LinesOfEnded(s) :
               ~Plain(RawLine(s, k)) /\ ~SoundLine(s, k)
<1>1. p \in Nat /\ 1 <= p /\ Len(s) \in Nat /\ p <= Len(s)
  OBVIOUS
<1> DEFINE T == {d \in 0..(p - 1) : (p - 1) - d = 0 \/ s[(p - 1) - d] = "nl"}
<1>2. T \in SUBSET Nat /\ T # {}
  <2>1. p - 1 \in 0..(p - 1) /\ (p - 1) - (p - 1) = 0
    BY <1>1
  <2>2. p - 1 \in T
    BY <2>1
  <2>3. \A d \in T : d \in Nat
    BY <1>1
  <2> HIDE DEF T
  <2> QED BY <2>2, <2>3
<1>3. PICK d \in T : \A j \in T : d <= j
  <2> HIDE DEF T
  <2> QED BY <1>2, LeastNumber
<1> DEFINE b == (p - 1) - d
<1>4. /\ d \in 0..(p - 1) /\ b \in 0..Len(s) /\ b < p
      /\ b = 0 \/ s[b] = "nl"
  BY <1>1, <1>3
<1>5. NoNewline(s, b, p)
  <2> SUFFICES ASSUME NEW i \in (b + 1)..p, s[i] = "nl" PROVE FALSE
    BY DEF NoNewline
  <2>1. i # p
    <3>1. "ctl" # "nl"
      OBVIOUS
    <3> QED BY <2>1, <3>1
  <2>2. /\ (p - 1) - i \in 0..(p - 1) /\ (p - 1) - ((p - 1) - i) = i
        /\ ~(d <= (p - 1) - i)
    BY <1>1, <1>4, <2>1
  <2>3. (p - 1) - i \in T
    BY <2>2
  <2> HIDE DEF T
  <2> QED BY <1>3, <2>2, <2>3
<1> HIDE DEF b, T
<1> DEFINE n == CountUpTo(s, b)
<1>6. n \in Nat /\ IsStart(s, b, n) /\ b \in Nat
  <2>1. b \in Int /\ b \in Nat
    BY <1>4
  <2> QED BY <1>4, <2>1, NewlinesAreFinite DEF IsStart
<1> HIDE DEF n
<1>7. PICK e \in b..Len(s) : LineSpan(s, n + 1, b, e)
  <2>1. b < Len(s)
    BY <1>1, <1>4, <1>6
  <2> QED BY <1>6, <2>1, LineIsThere
<1>8. ~(e < p)
  <2> SUFFICES ASSUME e < p PROVE FALSE
    OBVIOUS
  <2>1. e \in Nat /\ s[e + 1] = "nl"
    BY <1>1, <1>6, <1>7 DEF LineSpan, LineFrom
  <2>2. e + 1 \in (b + 1)..p
    BY <1>1, <1>6, <1>7, <2>1
  <2> QED BY <1>5, <2>1, <2>2 DEF NoNewline
<1>9. n + 1 \in 1..LinesOfEnded(s) /\ RawLine(s, n + 1) = SubSeq(s, b + 1, e)
  <2>1. n + 1 \in Nat \ {0}
    BY <1>6
  <2> QED BY <1>7, <2>1, SpanIsTheLine
<1>10. ~Plain(SubSeq(s, b + 1, e))
  <2> DEFINE raw == SubSeq(s, b + 1, e)
             m == b + 1
             i == p - b
  <2>1. m \in 1..Len(s) + 1 /\ e \in (m - 1)..Len(s) /\ i \in 1..(e - m + 1)
        /\ m + i - 1 = p
    BY <1>1, <1>4, <1>6, <1>7, <1>8
  <2> HIDE DEF m, i
  <2>2. Len(raw) = e - m + 1 /\ raw[i] = s[m + i - 1]
    BY <2>1, PieceProperties DEF m
  <2> HIDE DEF raw
  <2>3. i \in 1..Len(raw) /\ raw[i] = "ctl"
    BY <2>1, <2>2
  <2>4. ~Plain(raw)
    BY <2>3 DEF Plain
  <2> QED BY <2>4 DEF raw
<1> QED BY <1>9, <1>10 DEF SoundLine
-----------------------------------------------------------------------------
(* What the host does with an answer. *)

\* One call into the language over n bytes of the chunk: its line becomes a
\* record, or it adds nothing, or the call of feed or finish fails.
Call(n, eof, out) ==
    /\ n \in 0..Len(todo) /\ Fits(carry, SubSeq(todo, 1, n))
    /\ out = NextLine(carry, SubSeq(todo, 1, n), eof)
    /\ pc \in {"view", "drain", "flush"} /\ (eof <=> pc = "flush")
    /\ Absorb(out) /\ fed' = fed
    /\ \/ /\ out.status = "line" /\ ParseFields(out.line).status = "ok"
          /\ Pushed(out) /\ pc' \in {"drain", "flush"} /\ (eof => pc' = "flush")
       \/ /\ out.status = "need_more" /\ ~eof
          /\ KeptAsCut /\ line_no' = line_no /\ pc' \in {"view", "drain"}
       \/ /\ out.status = "complete" /\ eof
          /\ KeptAsCut /\ line_no' = line_no
          /\ pc' = "finished" /\ records' = << >>
       \/ /\ CallFails(out) /\ error'.line = line_no + 1
          /\ out.status = "line" => ParseFields(out.line).status # "ok"
          /\ ~(out.status = IF eof THEN "complete" ELSE "need_more")

\* The window of a call lies in the stream from where the carry begins.
LEMMA CallWindow ==
    ASSUME Accounts, pc # "failed", NEW n \in 0..Len(todo)
    PROVE  LET window == carry \o SubSeq(todo, 1, n)
           IN  /\ window \in Seq(Byte) /\ Within(fed, window, HeldFrom)
               /\ HeldFrom \in Nat /\ HeldFrom + Len(window) = stream_pos + n
               /\ todo = << >> => HeldFrom + Len(window) = Len(fed)
<1> DEFINE window == carry \o SubSeq(todo, 1, n)
<1>1. /\ fed \in Seq(Byte) /\ carry \in Seq(Byte) /\ todo \in Seq(Byte)
      /\ stream_pos \in Nat /\ Accounted(fed, carry, stream_pos, todo)
  BY DEF Accounts, BytesTyped, BytesAccounted
<1>2. /\ window \in Seq(Byte) /\ Len(window) = Len(carry) + n
      /\ \A i \in 1..Len(carry) + n : window[i] = fed[HeldFrom + i]
  BY <1>1, WindowBytes DEF HeldFrom
<1>3. Len(carry) <= stream_pos /\ stream_pos + Len(todo) = Len(fed)
  BY <1>1 DEF Accounted
<1> HIDE DEF window
<1>4. PICK held \in Nat, rest \in Nat, size \in Nat :
          held = Len(carry) /\ rest = Len(todo) /\ size = Len(fed)
  BY <1>1
<1>5. /\ HeldFrom = stream_pos - held /\ HeldFrom \in Nat
      /\ Len(window) = held + n /\ n \in 0..rest
  BY <1>1, <1>2, <1>3, <1>4 DEF HeldFrom
<1>6. HeldFrom + Len(window) = stream_pos + n
  BY <1>1, <1>5
<1>7. HeldFrom + Len(window) <= Len(fed)
  BY <1>1, <1>3, <1>4, <1>5, <1>6
<1>8. todo = << >> => HeldFrom + Len(window) = Len(fed)
  <2>1. todo = << >> => rest = 0
    BY <1>4
  <2> QED BY <1>1, <1>3, <1>4, <1>5, <1>6, <2>1
<1>9. Within(fed, window, HeldFrom)
  BY <1>2, <1>7 DEF Within
<1> QED BY <1>2, <1>5, <1>6, <1>8, <1>9 DEF window

\* What a view stages fits, for a chunk that is being worked through.
LEMMA ViewIsACall ==
    ASSUME Assumptions, Accounts, NextView
    PROVE  /\ AtMost(Len(todo), ViewBytes) \in Nat
           /\ Call(AtMost(Len(todo), ViewBytes), FALSE, NextLine(carry, View, FALSE))
<1> DEFINE out == NextLine(carry, View, FALSE)
<1>1. /\ pc = "view" /\ Absorb(out) /\ fed' = fed /\ delivered' = delivered
      /\ \/ /\ out.status = "line" /\ ParseFields(out.line).status = "ok"
            /\ pc' = "drain" /\ Pushed(out)
         \/ /\ out.status = "need_more" /\ pc' = "drain"
            /\ UNCHANGED <<line_no, records>>
         \/ /\ CallFails(out) /\ error'.line = line_no + 1
            /\ out.status = "line" => ParseFields(out.line).status # "ok"
            /\ out.status # "need_more"
  <2> HIDE DEF out
  <2>1. /\ pc = "view" /\ Absorb(out) /\ fed' = fed /\ delivered' = delivered
        /\ \/ out.status = "line" /\ PushRecord(out, "drain", Unread)
           \/ /\ out.status = "need_more" /\ pc' = "drain"
              /\ UNCHANGED <<line_no, records>>
           \/ out.status \notin {"line", "need_more"} /\ Fail(out.status)
    BY DEF NextView, out
  <2> QED BY <2>1 DEF PushRecord, Pushed, Fail, CallFails
<1>2. /\ Newlines(carry) = {} /\ RecordsTyped /\ BytesTyped
      /\ ViewBytes \in Nat /\ CarryCap \in Nat /\ ViewBytes <= CarryCap + 1
  BY <1>1, ReaderAssumption, LinesAssumption DEF Accounts, Assumptions
<1>3. PICK n \in 0..Len(todo) :
          /\ n <= ViewBytes /\ View = SubSeq(todo, 1, n) /\ Len(View) = n
          /\ n = AtMost(Len(todo), ViewBytes)
  <2>1. todo \in Seq(Byte) /\ Len(todo) \in Nat
    BY <1>2 DEF BytesTyped
  <2>2. PICK n \in Int : n = AtMost(Len(todo), ViewBytes)
    BY <1>2, <2>1 DEF AtMost
  <2>3. n \in 0..Len(todo) /\ n <= ViewBytes
    BY <1>2, <2>1, <2>2 DEF AtMost
  <2>4. View = SubSeq(todo, 1, n)
    BY <2>2 DEF View, ViewOf
  <2>5. Len(View) = n
    <3>1. 1 \in 1..Len(todo) + 1 /\ n \in (1 - 1)..Len(todo) /\ n - 1 + 1 = n
      BY <2>1, <2>3
    <3> QED BY <2>1, <2>4, <3>1, PieceProperties
  <2> QED BY <2>2, <2>3, <2>4, <2>5
<1>4. Fits(carry, View) /\ n \in Nat
  <2>1. Len(View) <= CarryCap + 1
    BY <1>2, <1>3
  <2>2. Len(todo) \in Nat
    BY <1>2 DEF BytesTyped
  <2> QED BY <1>2, <1>3, <2>1, <2>2 DEF Fits
<1>5. out = NextLine(carry, SubSeq(todo, 1, n), FALSE)
      /\ Fits(carry, SubSeq(todo, 1, n))
  BY <1>3, <1>4
<1> HIDE DEF out
<1>6. out.status = "need_more" /\ UNCHANGED <<line_no, records>> => KeptAsCut
  BY <1>1, <1>2 DEF KeptAsCut, RecordsTyped
<1>7. Call(n, FALSE, out)
  BY <1>1, <1>5, <1>6 DEF Call
<1> QED BY <1>3, <1>4, <1>7 DEF out

\* Without a view none of the chunk is staged.
LEMMA NoView ==
    ASSUME BytesTyped
    PROVE  /\ SubSeq(todo, 1, 0) = << >> /\ 0 \in 0..Len(todo)
           /\ Fits(carry, SubSeq(todo, 1, 0))
<1>1. todo \in Seq(Byte)
  BY DEF BytesTyped
<1>2. SubSeq(todo, 1, 0) = << >>
  BY <1>1, SubSeqEmpty
<1>3. 0 \in 0..Len(todo)
  BY <1>1
<1> QED BY <1>2, <1>3 DEF Fits

LEMMA DrainIsACall ==
    ASSUME Accounts, DrainCarry, carry # << >>
    PROVE  Call(0, FALSE, NextLine(carry, << >>, FALSE))
<1> DEFINE out == NextLine(carry, << >>, FALSE)
<1>1. /\ pc = "drain" /\ Absorb(out) /\ fed' = fed /\ delivered' = delivered
      /\ \/ /\ out.status = "line" /\ ParseFields(out.line).status = "ok"
            /\ pc' = "drain" /\ Pushed(out)
         \/ /\ out.status = "need_more" /\ pc' = "view"
            /\ UNCHANGED <<line_no, records>>
         \/ /\ CallFails(out) /\ error'.line = line_no + 1
            /\ out.status = "line" => ParseFields(out.line).status # "ok"
            /\ out.status # "need_more"
  <2> HIDE DEF out
  <2>1. /\ pc = "drain" /\ Absorb(out) /\ fed' = fed /\ delivered' = delivered
        /\ \/ out.status = "line" /\ PushRecord(out, "drain", todo)
           \/ /\ out.status = "need_more" /\ pc' = "view"
              /\ UNCHANGED <<line_no, records>>
           \/ out.status \notin {"line", "need_more"} /\ Fail(out.status)
    BY DEF DrainCarry, out
  <2> QED BY <2>1 DEF PushRecord, Pushed, Fail, CallFails
<1>2. RecordsTyped /\ BytesTyped
  BY DEF Accounts
<1>3. out = NextLine(carry, SubSeq(todo, 1, 0), FALSE)
  BY <1>2, NoView
<1> HIDE DEF out
<1>4. out.status = "need_more" /\ UNCHANGED <<line_no, records>> => KeptAsCut
  BY <1>1, <1>2 DEF KeptAsCut, RecordsTyped
<1>5. Call(0, FALSE, out)
  BY <1>1, <1>2, <1>3, <1>4, NoView DEF Call
<1> QED BY <1>5 DEF out

LEMMA FlushIsACall ==
    ASSUME Accounts, FlushTail
    PROVE  Call(0, TRUE, NextLine(carry, << >>, TRUE)) /\ todo = << >>
<1> DEFINE out == NextLine(carry, << >>, TRUE)
<1>1. /\ pc = "flush" /\ Absorb(out) /\ fed' = fed
      /\ \/ /\ out.status = "line" /\ ParseFields(out.line).status = "ok"
            /\ pc' = "flush" /\ Pushed(out)
         \/ /\ out.status = "complete" /\ Return("finished")
            /\ line_no' = line_no
         \/ /\ CallFails(out) /\ error'.line = line_no + 1
            /\ out.status = "line" => ParseFields(out.line).status # "ok"
            /\ out.status # "complete"
  <2> HIDE DEF out
  <2>1. /\ pc = "flush" /\ Absorb(out) /\ fed' = fed
        /\ \/ /\ out.status = "line" /\ PushRecord(out, "flush", todo)
              /\ delivered' = delivered
           \/ /\ out.status = "complete" /\ Return("finished")
              /\ line_no' = line_no
           \/ /\ out.status \notin {"line", "complete"} /\ Fail(out.status)
              /\ delivered' = delivered
    BY DEF FlushTail, out
  <2> QED BY <2>1 DEF PushRecord, Pushed, Fail, CallFails
<1>2. RecordsTyped /\ BytesTyped /\ todo = << >>
  BY <1>1 DEF Accounts
<1>3. out = NextLine(carry, SubSeq(todo, 1, 0), TRUE)
  BY <1>2, NoView
<1> HIDE DEF out
<1>4. /\ Return("finished") /\ line_no' = line_no
      => KeptAsCut /\ pc' = "finished" /\ records' = << >>
  BY <1>2, ReturnKeepsCuts DEF Return
<1>5. Call(0, TRUE, out)
  BY <1>1, <1>2, <1>3, <1>4, NoView DEF Call
<1> QED BY <1>2, <1>5 DEF out
-----------------------------------------------------------------------------
(* The records are the lines. *)

\* A record of a line is the record of the reference, and the line one the
\* format allows.
LEMMA RecordIsReference ==
    ASSUME NEW s \in Seq(Byte), NEW r, NEW k \in Nat \ {0}, NEW last,
           IsLine(s, r, k, last)
    PROVE  r = ReferenceRecord(s, k) /\ AllowedLine(s, k)
<1>1. PICK e \in 0..Len(s) :
          /\ LineSpan(s, k, r.byte_start, e)
          /\ AllowedRaw(Raw(s, r.byte_start, e))
          /\ r = RecordOf(Raw(s, r.byte_start, e), k, r.byte_start)
  BY DEF IsLine
<1> DEFINE raw == Raw(s, r.byte_start, e)
           b == r.byte_start
<1>2. LineBegin(s, k) = b /\ RawLine(s, k) = raw
  BY <1>1, SpanIsTheLine DEF Raw
<1>3. r = RecordOf(raw, k, b) /\ AllowedRaw(raw)
  BY <1>1
<1> HIDE DEF raw, b
<1>4. r = ReferenceRecord(s, k)
  BY <1>2, <1>3 DEF RecordOf, CsvRecord, ReferenceRecord
<1>5. AllowedLine(s, k)
  BY <1>2, <1>3 DEF AllowedRaw, AllowedLine
<1> QED BY <1>4, <1>5

LEMMA ProducedTyped ==
    ASSUME RecordsTyped
    PROVE  Produced \in Seq(CutRecords) /\ Len(Produced) \in Nat
<1>1. Produced \in Seq(CutRecords)
  BY ConcatProperties DEF RecordsTyped, Produced
<1> QED BY <1>1

\* Nothing is in front of an empty window.
LEMMA FaultNeedsBytes ==
    ASSUME NEW w \in Seq(Byte), NEW eof \in BOOLEAN
    PROVE  /\ \A e : Taken(w, e, eof) => Len(w) > 0
           /\ Faulty(w, eof) => Len(w) > 0
<1>1. Len(w) \in Nat /\ LineMax \in Nat
  BY LinesAssumption
<1>2. \A e : Taken(w, e, eof) => Len(w) > 0
  BY <1>1 DEF Taken, LineFrom
<1>3. HasControl(w) => Len(w) > 0
  BY <1>1 DEF HasControl
<1>4. Len(w) > LineMax => Len(w) > 0
  BY <1>1
<1>5. EndsWithCR(w) => Len(w) > 0
  BY <1>1, EmptySeq DEF EndsWithCR
<1> QED BY <1>2, <1>3, <1>4, <1>5 DEF Faulty

\* A record that is pushed comes after those produced.
LEMMA PushedIsLast ==
    ASSUME RecordsTyped, NEW new \in CutRecords,
           records' = Append(records, new), delivered' = delivered
    PROVE  /\ Len(Produced') = Len(Produced) + 1
           /\ Produced'[Len(Produced) + 1] = new
           /\ \A k \in 1..Len(Produced) : Produced'[k] = Produced[k]
<1>1. /\ records \in Seq(CutRecords) /\ delivered \in Seq(CutRecords)
      /\ Produced \in Seq(CutRecords)
  BY ProducedTyped DEF RecordsTyped
<1>2. Produced' = Append(Produced, new)
  <2>1. delivered \o Append(records, new) = Append(delivered \o records, new)
    BY <1>1, AppendToBoth
  <2> QED BY <2>1 DEF Produced
<1> QED BY <1>1, <1>2, AppendProperties

\* A line a record is pushed for is the next one, and what is held then
\* begins the one after.
LEMMA LineIsCut ==
    ASSUME Accounts, LinesCut, NEW n \in Nat, NEW eof \in BOOLEAN, NEW out,
           Call(n, eof, out), out.status = "line",
           ParseFields(out.line).status = "ok", Pushed(out),
           pc' \in {"drain", "flush"}, eof => pc' = "flush", out.consumed = n,
           NEW e \in 0..Len(carry \o SubSeq(todo, 1, n)),
           LineAnswer(carry \o SubSeq(todo, 1, n), out, e, eof)
    PROVE  LinesCut'
<1> DEFINE window == carry \o SubSeq(todo, 1, n)
           raw == SubSeq(window, 1, e)
           count == Len(Produced)
<1>1. /\ n \in 0..Len(todo) /\ pc \in {"view", "drain", "flush"} /\ fed' = fed
      /\ Absorb(out) /\ (eof <=> pc = "flush")
  BY DEF Call
<1>2. /\ window \in Seq(Byte) /\ Within(fed, window, HeldFrom)
      /\ HeldFrom \in Nat /\ HeldFrom + Len(window) = stream_pos + n
      /\ eof => HeldFrom + Len(window) = Len(fed)
  <2>1. eof => todo = << >>
    BY <1>1 DEF Accounts
  <2>2. pc # "failed"
    BY <1>1
  <2> HIDE DEF window
  <2> QED BY <1>1, <2>1, <2>2, CallWindow DEF window
<1>3. LineAnswer(window, out, e, eof) /\ e \in 0..Len(window)
  OBVIOUS
<1> HIDE DEF window
<1>4. /\ fed \in Seq(Byte) /\ carry \in Seq(Byte) /\ stream_pos \in Nat
      /\ BytesTyped /\ RecordsTyped
      /\ line_no = count /\ count \in Nat /\ Len(window) \in Nat /\ Len(fed) \in Nat
      /\ HeldFrom + Len(window) <= Len(fed)
  BY <1>1, <1>2, ProducedTyped DEF Accounts, BytesTyped, LinesCut, Within
<1>5. /\ Taken(window, e, eof) /\ LineFrom(window, 0, e) /\ e \in Nat
      /\ e < Len(window) \/ HeldFrom + Len(window) = Len(fed)
  BY <1>2, <1>3, <1>4 DEF LineAnswer, Taken
<1>6. AtLineStart /\ IsStart(fed, HeldFrom, count)
  <2>1. Len(window) > 0
    BY <1>2, <1>5, FaultNeedsBytes
  <2>2. HeldFrom # Len(fed)
    BY <1>2, <1>4, <2>1
  <2>3. AtLineStart \/ AtTailEnd
    BY <1>1 DEF LinesCut
  <2> QED BY <2>2, <2>3 DEF AtTailEnd, AtLineStart
<1>7. /\ LineFrom(fed, HeldFrom, HeldFrom + e)
      /\ SubSeq(fed, HeldFrom + 1, HeldFrom + e) = raw
  <2>1. PICK start \in Nat : start = HeldFrom
    BY <1>2
  <2>2. /\ Within(fed, window, start) /\ LineFrom(window, 0, e)
        /\ e < Len(window) \/ start + Len(window) = Len(fed)
    BY <1>2, <1>5, <2>1
  <2>3. fed \in Seq(Byte) /\ window \in Seq(Byte)
    BY <1>2, <1>4
  <2>4. /\ LineFrom(fed, start, start + e)
        /\ SubSeq(fed, start + 1, start + e) = SubSeq(window, 1, e)
    <3>1. LineFrom(fed, start, start + e)
      BY <2>2, <2>3, LineMoves
    <3>2. SubSeq(fed, start + 1, start + e) = SubSeq(window, 1, e)
      BY <2>2, <2>3, PieceMoves, <1>3, Zenon
    <3> QED BY <2>3, <3>1, <3>2
  <2> QED BY <2>1, <2>4
<1>8. LineSpan(fed, count + 1, HeldFrom, HeldFrom + e)
  <2>1. (count + 1) - 1 = count
    BY <1>4
  <2> QED BY <1>6, <1>7, <2>1 DEF LineSpan
<1>9. /\ AllowedRaw(raw) /\ out.line = StripCR(raw) /\ raw \in Seq(Byte)
      /\ StripCR(raw) \in Seq(Byte)
  <2>1. raw \in Seq(Byte)
    <3>1. 1 \in 1..Len(window) + 1 /\ e \in (1 - 1)..Len(window)
      BY <1>3, <1>4
    <3> QED BY <1>2, <3>1, PieceProperties
  <2> HIDE DEF raw
  <2>2. StripCR(raw) \in Seq(Byte)
    BY <2>1, StripShortens
  <2> QED BY <1>3, <2>1, <2>2 DEF LineAnswer, AllowedRaw, raw
<1> DEFINE new == RecordOf(raw, count + 1, HeldFrom)
<1>10. /\ records' = Append(records, new) /\ delivered' = delivered
       /\ line_no' = count + 1 /\ new.byte_start = HeldFrom
       /\ new \in CutRecords
  <2> HIDE DEF raw, count
  <2>1. UnitStart(stream_pos, out.consumed, Len(carry)) = HeldFrom
    <3>1. Len(carry) \in Nat /\ Len(carry) <= stream_pos
      BY <1>1, <1>4 DEF Accounts, BytesAccounted, Accounted
    <3> QED BY <1>4, <3>1, UnitStartsAtCarry DEF HeldFrom
  <2>2. /\ records' = Append(records, CsvRecord(ParseFields(out.line).fields,
                                 count + 1, HeldFrom, out.line))
        /\ delivered' = delivered /\ line_no' = count + 1
    BY <1>4, <2>1 DEF Pushed
  <2>3. new = CsvRecord(ParseFields(out.line).fields, count + 1, HeldFrom, out.line)
    BY <1>9 DEF RecordOf
  <2>4. /\ ParseFields(StripCR(raw)).fields
               \in {ParseFields(line).fields : line \in Seq(Byte)}
        /\ HeldFrom + Len(StripCR(raw)) \in Nat
    BY <1>2, <1>9
  <2>5. new.byte_start = HeldFrom /\ new \in CutRecords
    BY <1>2, <1>4, <2>4 DEF RecordOf, CsvRecord, CutRecords
  <2> HIDE DEF new
  <2> QED BY <2>2, <2>3, <2>5
<1> HIDE DEF new
<1>11. /\ Len(Produced') = count + 1 /\ Produced'[count + 1] = new
       /\ \A k \in 1..count : Produced'[k] = Produced[k]
  BY <1>4, <1>10, PushedIsLast
<1> HIDE DEF count
<1>12. ASSUME NEW k \in 1..Len(Produced')
       PROVE  IsLine(fed, Produced'[k], k, pc' \in {"flush", "finished", "failed"})
  <2>1. CASE k \in 1..count
    <3>1. /\ IsLine(fed, Produced[k], k, pc \in {"flush", "finished", "failed"})
          /\ Produced'[k] = Produced[k]
      BY <1>11, <2>1 DEF LinesCut, count
    <3>2. pc \in {"flush", "finished", "failed"} => pc' \in {"flush", "finished", "failed"}
      BY <1>1
    <3> QED BY <3>1, <3>2 DEF IsLine
  <2>2. CASE k = count + 1
    <3>1. /\ HeldFrom + e \in 0..Len(fed)
          /\ eof \/ HeldFrom + e < Len(fed)
      BY <1>2, <1>3, <1>4, <1>5 DEF Taken
    <3>2. new = RecordOf(SubSeq(fed, HeldFrom + 1, HeldFrom + e), k, HeldFrom)
          /\ AllowedRaw(SubSeq(fed, HeldFrom + 1, HeldFrom + e))
      BY <1>7, <1>9, <2>2 DEF new
    <3> HIDE DEF raw
    <3>3. IsLine(fed, new, k, pc' \in {"flush", "finished", "failed"})
      BY <1>8, <1>10, <2>2, <3>1, <3>2 DEF IsLine, Raw
    <3> QED BY <1>11, <2>2, <3>3
  <2> QED BY <1>4, <1>11, <2>1, <2>2
<1>13. AtLineStart' \/ AtTailEnd'
  <2>1. carry' = out.carry /\ stream_pos' = stream_pos + n
    BY <1>1 DEF Absorb
  <2>2. count + 1 \in Nat \ {0} /\ (count + 1) - 1 = count
    BY <1>4
  <2>3. CASE e < Len(window)
    <3>1. Len(out.carry) = Len(window) - (e + 1)
      BY <1>3, <2>3 DEF LineAnswer
    <3>2. HeldFrom' = (HeldFrom + e) + 1
      <4>1. HeldFrom' = (HeldFrom + Len(window)) - Len(out.carry)
        BY <1>2, <2>1 DEF HeldFrom
      <4>2. PICK from \in Nat, size \in Nat : from = HeldFrom /\ size = Len(window)
        BY <1>2, <1>4
      <4>3. HeldFrom' = (from + size) - (size - (e + 1))
        BY <3>1, <4>1, <4>2
      <4> QED BY <1>5, <4>2, <4>3
    <3>3. HeldFrom + e < Len(fed)
      BY <1>2, <1>4, <1>5, <2>3
    <3>4. IsStart(fed, (HeldFrom + e) + 1, count + 1)
      BY <1>4, <1>8, <2>2, <3>3, NextStart
    <3> QED BY <1>1, <1>11, <3>2, <3>4 DEF AtLineStart
  <2>4. CASE e = Len(window)
    <3>1. eof /\ out.carry = << >> /\ window[e] # "cr" /\ HeldFrom + e = Len(fed)
      BY <1>2, <1>3, <1>4, <1>5, <2>4 DEF LineAnswer, Taken
    <3>2. HeldFrom' = Len(fed)
      <4>1. Len(carry') = 0
        BY <2>1, <3>1
      <4> QED BY <1>2, <1>4, <2>1, <2>4, <3>1, <4>1 DEF HeldFrom
    <3>3. HasTail(fed) /\ TerminatedLines(fed) = count
      <4>1. LineSpan(fed, count + 1, HeldFrom, Len(fed))
        BY <1>8, <3>1
      <4> QED BY <1>4, <2>2, <4>1, SpanIsTheLine
    <3>4. fed[Len(fed)] # "cr"
      <4>1. e \in 1..Len(window)
        BY <1>2, <1>4, <1>5, <2>4, FaultNeedsBytes
      <4> QED BY <1>2, <3>1, <4>1 DEF Within
    <3>5. Closing'
      BY <3>1 DEF Closing
    <3> QED BY <1>1, <1>11, <3>2, <3>3, <3>4, <3>5 DEF AtTailEnd
  <2> QED BY <1>3, <1>4, <2>3, <2>4
<1>14. pc' \notin {"idle", "view", "finished", "failed"} /\ line_no' = Len(Produced')
  BY <1>10, <1>11
<1> QED BY <1>1, <1>12, <1>13, <1>14 DEF LinesCut
\* An answer that adds nothing leaves what is held where it was.
LEMMA NothingIsCut ==
    ASSUME Accounts, LinesCut, pc \in {"view", "drain", "flush"},
           NEW n \in 0..Len(todo), NEW out, Absorb(out), out.consumed = n,
           fed' = fed, KeptAsCut, line_no' = line_no,
           Len(out.carry) = Len(carry \o SubSeq(todo, 1, n)),
           pc' \in {"view", "drain", "finished"},
           pc = "flush" <=> pc' = "finished",
           pc' = "view" => Len(out.carry) <= LineMax,
           pc' = "finished" => out.carry = << >> /\ records' = << >>
    PROVE  LinesCut'
<1> DEFINE window == carry \o SubSeq(todo, 1, n)
<1>1. /\ carry' = out.carry /\ stream_pos' = stream_pos + n
      /\ Produced' = Produced
  BY DEF Absorb, KeptAsCut, Produced
<1>2. /\ window \in Seq(Byte) /\ HeldFrom \in Nat
      /\ HeldFrom + Len(window) = stream_pos + n
  <2> HIDE DEF window
  <2> QED BY CallWindow DEF window
<1>3. HeldFrom' = HeldFrom
  <2>1. HeldFrom' = (stream_pos + n) - Len(window)
    BY <1>1 DEF HeldFrom
  <2> HIDE DEF window
  <2>2. PICK size \in Nat : size = Len(window)
    BY <1>2
  <2> QED BY <1>2, <2>1, <2>2
<1>4. line_no' = Len(Produced') /\ (AtLineStart' \/ AtTailEnd')
  <2>1. line_no = Len(Produced) /\ (AtLineStart \/ AtTailEnd)
    BY DEF LinesCut
  <2>2. AtLineStart => AtLineStart'
    BY <1>1, <1>3 DEF AtLineStart
  <2>3. AtTailEnd => AtTailEnd'
    BY <1>1, <1>3 DEF AtTailEnd, Closing
  <2> QED BY <1>1, <2>1, <2>2, <2>3
<1>5. ASSUME NEW k \in 1..Len(Produced')
      PROVE  IsLine(fed', Produced'[k], k, (pc \in {"flush", "finished", "failed"})')
  <2>1. IsLine(fed, Produced[k], k, pc \in {"flush", "finished", "failed"})
    BY <1>1, <1>5 DEF LinesCut
  <2> QED BY <1>1, <2>1 DEF IsLine
<1>6. pc' \in {"idle", "view"} => Len(carry') <= LineMax
  BY <1>1
<1> QED BY <1>1, <1>4, <1>5, <1>6 DEF LinesCut

\* A call that fails leaves records of lines.
LEMMA FailureKeepsLines ==
    ASSUME RecordsTyped, LinesCut, NEW out, CallFails(out)
    PROVE  LinesCut'
<1>1. /\ delivered \in Seq(CutRecords) /\ records \in Seq(CutRecords)
      /\ pc' = "failed" /\ fed' = fed /\ records' = << >>
      /\ delivered' = delivered
  BY DEF RecordsTyped, CallFails
<1>2. Produced' = delivered
  BY <1>1, ConcatEmptySeq DEF Produced
<1>3. \A k \in 1..Len(delivered) : k \in 1..Len(Produced) /\ Produced[k] = delivered[k]
  <2>1. /\ Len(Produced) = Len(delivered) + Len(records)
        /\ \A k \in 1..Len(delivered) + Len(records) :
               Produced[k] = IF k <= Len(delivered) THEN delivered[k]
                             ELSE records[k - Len(delivered)]
    BY <1>1, ConcatProperties DEF Produced
  <2>2. \A k \in 1..Len(delivered) : k \in 1..Len(delivered) + Len(records) /\ k <= Len(delivered)
    BY <1>1
  <2> QED BY <2>1, <2>2
<1>4. ASSUME NEW k \in 1..Len(Produced')
      PROVE  IsLine(fed', Produced'[k], k, (pc \in {"flush", "finished", "failed"})')
  <2>1. /\ IsLine(fed, Produced[k], k, pc \in {"flush", "finished", "failed"})
        /\ Produced'[k] = Produced[k]
    BY <1>2, <1>3, <1>4 DEF LinesCut
  <2> QED BY <1>1, <2>1 DEF IsLine
<1> QED BY <1>1, <1>4 DEF LinesCut

\* A call keeps the invariant, whatever the answer is.
LEMMA CallKeepsLines ==
    ASSUME Accounts, LinesCut, NEW n \in Nat, NEW eof \in BOOLEAN, NEW out,
           Call(n, eof, out)
    PROVE  LinesCut' /\ out.consumed = n
                     /\ AnswerMeans(carry \o SubSeq(todo, 1, n), out, eof)
<1> DEFINE view == SubSeq(todo, 1, n)
           window == carry \o view
<1>1. /\ carry \in Seq(Byte) /\ todo \in Seq(Byte) /\ Len(carry) <= CarryCap
      /\ RecordsTyped /\ n \in 0..Len(todo)
      /\ pc \in {"view", "drain", "flush"} /\ (eof <=> pc = "flush")
      /\ Absorb(out) /\ fed' = fed /\ Fits(carry, view)
      /\ out = NextLine(carry, view, eof)
  BY DEF Call, Accounts, BytesTyped
<1>2. view \in Seq(Byte) /\ Len(view) = n
  <2>1. 1 \in 1..Len(todo) + 1 /\ n \in (1 - 1)..Len(todo) /\ n - 1 + 1 = n
    BY <1>1
  <2> QED BY <1>1, <2>1, PieceProperties
<1> HIDE DEF view
<1>3. AnswerMeans(window, out, eof) /\ out.consumed = n
  BY <1>1, <1>2, AnswersMean, AnswerAccounts
<1>4. CASE /\ out.status = "line" /\ ParseFields(out.line).status = "ok"
           /\ Pushed(out) /\ pc' \in {"drain", "flush"} /\ (eof => pc' = "flush")
  <2>1. PICK e \in 0..Len(window) : LineAnswer(window, out, e, eof)
    BY <1>3, <1>4 DEF AnswerMeans, Refusals
  <2> QED BY <1>3, <1>4, <2>1, LineIsCut DEF view
<1>5. CASE /\ out.status = "need_more" /\ ~eof
           /\ KeptAsCut /\ line_no' = line_no /\ pc' \in {"view", "drain"}
  <2>1. out.carry = window /\ Len(window) <= LineMax
    BY <1>3, <1>5 DEF AnswerMeans, Refusals
  <2> HIDE DEF window
  <2>2. Len(out.carry) = Len(window) /\ Len(out.carry) <= LineMax
    BY <2>1
  <2> QED BY <1>1, <1>3, <1>5, <2>2, NothingIsCut DEF view, window
<1>6. CASE /\ out.status = "complete" /\ eof
           /\ KeptAsCut /\ line_no' = line_no
           /\ pc' = "finished" /\ records' = << >>
  <2>1. out.carry = << >> /\ window = << >>
    BY <1>3, <1>6 DEF AnswerMeans, Refusals
  <2> HIDE DEF window
  <2>2. Len(out.carry) = Len(window)
    BY <2>1
  <2> QED BY <1>1, <1>3, <1>6, <2>1, <2>2, NothingIsCut DEF view, window
<1>7. CASE CallFails(out)
  BY <1>1, <1>3, <1>7, FailureKeepsLines DEF view
<1> QED BY <1>4, <1>5, <1>6, <1>7 DEF Call

-----------------------------------------------------------------------------
(* What an error says. *)

\* A call fails on a window that is at fault, which begins the next line.
LEMMA FailureIsAFault ==
    ASSUME Accounts, LinesCut, NEW n \in Nat, NEW eof \in BOOLEAN, NEW out,
           Call(n, eof, out), pc' = "failed"
    PROVE  LET window == carry \o SubSeq(todo, 1, n)
           IN  /\ window \in Seq(Byte) /\ Within(fed, window, HeldFrom)
               /\ HeldFrom \in Nat /\ HeldFrom + Len(window) = stream_pos + n
               /\ eof => HeldFrom + Len(window) = Len(fed)
               /\ Faulty(window, eof)
               /\ IsStart(fed, HeldFrom, Len(Produced))
<1> DEFINE window == carry \o SubSeq(todo, 1, n)
<1>1. /\ n \in 0..Len(todo) /\ pc \in {"view", "drain", "flush"}
      /\ (eof <=> pc = "flush") /\ pc # "failed" /\ (eof => todo = << >>)
      /\ out.status = "line" => ParseFields(out.line).status # "ok"
      /\ ~(out.status = IF eof THEN "complete" ELSE "need_more")
  BY DEF Call, Accounts
<1>2. AnswerMeans(window, out, eof)
  BY CallKeepsLines
<1>3. /\ window \in Seq(Byte) /\ Within(fed, window, HeldFrom)
      /\ HeldFrom \in Nat /\ HeldFrom + Len(window) = stream_pos + n
      /\ eof => HeldFrom + Len(window) = Len(fed)
  <2> HIDE DEF window
  <2> QED BY <1>1, CallWindow DEF window
<1> HIDE DEF window
<1>4. Faulty(window, eof)
  <2>1. CASE out.status = "line"
    <3>1. PICK e \in 0..Len(window) : LineAnswer(window, out, e, eof)
      BY <1>2, <2>1 DEF AnswerMeans, Refusals
    <3>2. Taken(window, e, eof) /\ ~AllowedRaw(SubSeq(window, 1, e))
      BY <1>1, <2>1, <3>1 DEF LineAnswer, AllowedRaw
    <3> QED BY <3>2 DEF Faulty
  <2>2. CASE out.status # "line"
    BY <1>1, <1>2, <2>2 DEF AnswerMeans
  <2> QED BY <2>1, <2>2
<1>5. IsStart(fed, HeldFrom, Len(Produced))
  <2>1. Len(window) > 0 /\ Len(window) \in Nat /\ Len(fed) \in Nat
    BY <1>3, <1>4, FaultNeedsBytes DEF Accounts, BytesTyped
  <2>2. HeldFrom # Len(fed)
    BY <1>3, <2>1 DEF Within
  <2>3. AtLineStart \/ AtTailEnd
    BY <1>1 DEF LinesCut
  <2> QED BY <2>2, <2>3 DEF AtTailEnd, AtLineStart
<1> QED BY <1>3, <1>4, <1>5 DEF window

LEMMA CallFault ==
    ASSUME Accounts, LinesCut, NEW n \in Nat, NEW eof \in BOOLEAN, NEW out,
           Call(n, eof, out)
    PROVE  RefusalHasCause' /\ ErrorNamesTheLine'
<1> DEFINE window == carry \o SubSeq(todo, 1, n)
           count == Len(Produced)
           seen == SubSeq(fed, 1, HeldFrom + Len(window))
<1>1. /\ n \in 0..Len(todo) /\ fed' = fed
      /\ pc \in {"view", "drain", "flush"} /\ (eof <=> pc = "flush")
      /\ pc # "failed" /\ eof => todo = << >>
      /\ stream_pos' = stream_pos + out.consumed
  BY DEF Call, Accounts, Absorb
<1>2. out.consumed = n /\ AnswerMeans(window, out, eof)
  BY CallKeepsLines
<1>3. CASE pc' # "failed"
  BY <1>3 DEF RefusalHasCause, ErrorNamesTheLine
<1>4. CASE pc' = "failed"
  <2>1. /\ error'.line = line_no + 1
        /\ out.status = "line" => ParseFields(out.line).status # "ok"
        /\ ~(out.status = IF eof THEN "complete" ELSE "need_more")
    BY <1>4 DEF Call
  <2>2. /\ window \in Seq(Byte) /\ Within(fed, window, HeldFrom)
        /\ HeldFrom \in Nat /\ HeldFrom + Len(window) = stream_pos + n
        /\ eof => HeldFrom + Len(window) = Len(fed)
        /\ Faulty(window, eof) /\ IsStart(fed, HeldFrom, count)
    <3> HIDE DEF window
    <3> QED BY <1>4, FailureIsAFault DEF window
  <2>3. Faulty(window, eof)
    BY <2>2
  <2> HIDE DEF window
  <2>4. /\ fed \in Seq(Byte) /\ Len(fed) \in Nat /\ Len(window) \in Nat
        /\ line_no = count /\ count \in Nat
        /\ HeldFrom + Len(window) <= Len(fed)
    BY <1>1, <2>2, ProducedTyped DEF Accounts, BytesTyped, LinesCut, Within
  <2>5. IsStart(fed, HeldFrom, count)
    BY <2>2
  <2> DEFINE size == HeldFrom + Len(window)
  <2>6. /\ seen \in Seq(Byte) /\ Len(seen) = size
        /\ \A i \in 1..size : fed[i] = seen[i]
        /\ size \in Nat /\ size <= Len(fed) /\ HeldFrom <= size
    <3>1. size \in Nat /\ size <= Len(fed) /\ HeldFrom <= size
      BY <2>2, <2>4
    <3> HIDE DEF size
    <3>2. 1 \in 1..Len(fed) + 1 /\ size \in (1 - 1)..Len(fed)
          /\ size - 1 + 1 = size /\ \A i \in 1..size : 1 + i - 1 = i
      BY <2>4, <3>1
    <3> DEFINE part == SubSeq(fed, 1, size)
    <3>3. /\ part \in Seq(Byte) /\ Len(part) = size - 1 + 1
          /\ \A i \in 1..(size - 1 + 1) : part[i] = fed[1 + i - 1]
      BY <2>4, <3>2, PieceProperties
    <3> HIDE DEF part
    <3>4. /\ part \in Seq(Byte) /\ Len(part) = size
          /\ \A i \in 1..size : fed[i] = part[i]
      BY <3>2, <3>3
    <3> QED BY <3>1, <3>4 DEF part, size
  <2>7. (SubSeq(fed, 1, stream_pos))' = seen
    BY <1>1, <1>2, <2>2
  <2> HIDE DEF seen
  <2>8. Within(seen, window, HeldFrom) /\ IsStart(seen, HeldFrom, count)
    <3>1. \A i \in 1..Len(window) :
              HeldFrom + i \in 1..size /\ window[i] = fed[HeldFrom + i]
      BY <2>2, <2>4 DEF Within
    <3>2. Within(seen, window, HeldFrom)
      BY <2>6, <3>1 DEF Within
    <3> HIDE DEF size
    <3>3. size <= Len(seen)
      BY <2>6
    <3>4. IsStart(seen, HeldFrom, count)
      BY <2>4, <2>5, <2>6, <3>3, StartStays
    <3> QED BY <3>2, <3>4
  <2>9. CASE HasControl(window)
    <3>1. PICK i \in 1..Len(window) : window[i] = "ctl"
      BY <2>9 DEF HasControl
    <3>2. /\ HeldFrom + i \in 1..Len(seen) /\ seen[HeldFrom + i] = "ctl"
          /\ HeldFrom + i \in 1..Len(fed) /\ fed[HeldFrom + i] = "ctl"
      <4>1. HeldFrom + i \in 1..Len(seen) /\ HeldFrom + i \in 1..Len(fed)
        BY <2>2, <2>4, <2>6
      <4> QED BY <2>2, <2>8, <3>1, <4>1 DEF Within
    <3>3. \E k \in 1..LinesOfEnded(seen) : ~SoundLine(seen, k)
      BY <2>6, <3>2, ControlSpoilsALine
    <3>4. RefusalHasCause'
      BY <2>7, <3>3 DEF RefusalHasCause
    <3>5. HasControl(fed)'
      BY <1>1, <3>2 DEF HasControl
    <3> QED BY <3>4, <3>5 DEF ErrorNamesTheLine
  <2>10. CASE ~HasControl(window)
    <3>1. /\ count + 1 \in 1..LinesOfEnded(seen)
          /\ \/ ~SoundLine(seen, count + 1)
             \/ /\ count + 1 = LinesOfEnded(seen)
                /\ HasTail(seen) /\ seen[Len(seen)] = "cr"
      <4>1. eof => HeldFrom + Len(window) = Len(seen)
        BY <2>6
      <4> QED BY <2>2, <2>3, <2>4, <2>6, <2>8, <2>10, <4>1, FaultIsInTheLine
    <3>2. RefusalHasCause'
      BY <2>7, <3>1 DEF RefusalHasCause
    <3>3. /\ count + 1 \in 1..LinesOfEnded(fed)
          /\ \/ ~SoundLine(fed, count + 1)
             \/ /\ count + 1 = LinesOfEnded(fed)
                /\ HasTail(fed) /\ fed[Len(fed)] = "cr"
      BY <2>2, <2>3, <2>4, <2>5, <2>10, FaultIsInTheLine
    <3>4. ASSUME NEW k \in 1..((count + 1) - 1)
          PROVE  AllowedLine(fed, k)
      <4>1. k \in 1..Len(Produced) /\ k \in Nat \ {0}
        BY <2>4
      <4>2. IsLine(fed, Produced[k], k, pc \in {"flush", "finished", "failed"})
        BY <4>1 DEF LinesCut
      <4> QED BY <2>4, <4>1, <4>2, RecordIsReference
    <3>5. error'.line = count + 1
      BY <2>1, <2>4
    <3> HIDE DEF count
    <3>6. ErrorNamesTheLine'
      BY <1>1, <3>3, <3>4, <3>5 DEF ErrorNamesTheLine
    <3> QED BY <3>2, <3>6
  <2> QED BY <2>9, <2>10
<1> QED BY <1>3, <1>4
-----------------------------------------------------------------------------
(* The steps of the reader. *)

LinesInv ==
    Accounts /\ LinesCut /\ RefusalHasCause /\ ErrorNamesTheLine

LEMMA InitLines == Init => LinesInv
<1> SUFFICES ASSUME Init PROVE LinesInv
  OBVIOUS
<1>1. /\ fed = << >> /\ carry = << >> /\ stream_pos = 0 /\ line_no = 0
      /\ records = << >> /\ delivered = << >> /\ pc = "idle"
      /\ Accounts /\ LineMax \in Nat
  BY InitAccounts, LinesAssumption DEF Init
<1>2. Produced = << >> /\ Len(Produced) = 0 /\ Len(carry) = 0 /\ Len(fed) = 0
      /\ HeldFrom = 0
  <2>1. Produced = << >>
    BY <1>1, ConcatEmptySeq, EmptySeq DEF Produced
  <2>2. Len(Produced) = 0 /\ Len(carry) = 0 /\ Len(fed) = 0
    BY <1>1, <2>1
  <2>3. HeldFrom = 0
    <3>1. stream_pos = 0 /\ Len(carry) = 0
      BY <1>1, <2>2
    <3> QED BY <3>1 DEF HeldFrom
  <2> QED BY <2>1, <2>2, <2>3
<1>3. AtLineStart
  <2>1. NewlinesUpTo(fed, 0) = {}
    BY <1>2 DEF NewlinesUpTo, Newlines
  <2>2. CountUpTo(fed, 0) = 0
    BY <2>1, FS_EmptySet DEF CountUpTo
  <2> QED BY <1>2, <2>2 DEF AtLineStart, IsStart
<1>4. LinesCut
  BY <1>1, <1>2, <1>3 DEF LinesCut
<1> QED BY <1>1, <1>4 DEF LinesInv, RefusalHasCause, ErrorNamesTheLine

\* A chunk adds bytes after the lines that are cut.
LEMMA FeedKeepsLines ==
    ASSUME Assumptions, Accounts, LinesCut, NEW chunk \in Chunks, Feed(chunk)
    PROVE  LinesCut'
<1> DEFINE longer == fed \o chunk
<1>1. /\ pc = "idle" /\ pc' = "view" /\ fed' = longer
      /\ carry' = carry /\ stream_pos' = stream_pos
      /\ line_no' = line_no /\ records' = records /\ delivered' = delivered
      /\ Produced' = Produced /\ HeldFrom' = HeldFrom
      /\ fed \in Seq(Byte)
  BY DEF Feed, Ready, reader, Assumptions, Accounts, BytesTyped, Produced, HeldFrom
<1>2. chunk \in Seq(Byte)
  <2>1. PICK n \in 0..AtMost(MaxChunk, MaxInput - Len(fed)) :
            chunk \in [1..n -> Alphabet]
    BY DEF Chunks
  <2>2. chunk \in [1..n -> Byte]
    <3>1. \A i \in 1..n : chunk[i] \in Byte
      BY <2>1, ReaderAssumption
    <3> QED BY <2>1, <3>1
  <2>3. n \in Nat
    BY <2>1
  <2> QED BY <2>2, <2>3
<1> DEFINE size == Len(fed)
<1>3. /\ longer \in Seq(Byte) /\ size \in Nat /\ size <= Len(longer)
      /\ \A i \in 1..size : fed[i] = longer[i]
  <2>1. /\ longer \in Seq(Byte) /\ Len(longer) = Len(fed) + Len(chunk)
        /\ \A i \in 1..Len(fed) + Len(chunk) :
               longer[i] = IF i <= Len(fed) THEN fed[i] ELSE chunk[i - Len(fed)]
    BY <1>1, <1>2, ConcatProperties
  <2> HIDE DEF longer
  <2>2. /\ Len(fed) \in Nat /\ Len(chunk) \in Nat
        /\ \A i \in 1..Len(fed) : i \in 1..Len(fed) + Len(chunk) /\ i <= Len(fed)
    BY <1>1, <1>2
  <2> QED BY <2>1, <2>2
<1>4. size <= Len(fed)
  BY <1>3
<1> HIDE DEF longer, size
<1>5. AtLineStart'
  <2>1. IsStart(fed, HeldFrom, Len(Produced))
    BY <1>1 DEF LinesCut, AtLineStart, AtTailEnd, Closing
  <2>2. HeldFrom <= size
    BY <2>1 DEF IsStart, size
  <2>3. IsStart(longer, HeldFrom, Len(Produced))
    BY <1>1, <1>3, <1>4, <2>1, <2>2, StartStays
  <2> QED BY <1>1, <2>3 DEF AtLineStart
<1>6. ASSUME NEW k \in 1..Len(Produced')
      PROVE  IsLine(fed', Produced'[k], k, (pc \in {"flush", "finished", "failed"})')
  <2>1. IsLine(fed, Produced[k], k, FALSE)
    <3>1. IsLine(fed, Produced[k], k, pc \in {"flush", "finished", "failed"})
      BY <1>1, <1>6 DEF LinesCut
    <3> QED BY <1>1, <3>1 DEF IsLine
  <2>2. IsLine(longer, Produced[k], k, FALSE)
    BY <1>1, <1>3, <1>4, <2>1, LineStays DEF size
  <2> QED BY <1>1, <2>2 DEF IsLine
<1>7. line_no' = Len(Produced') /\ Len(carry') <= LineMax
  BY <1>1 DEF LinesCut
<1> QED BY <1>1, <1>5, <1>6, <1>7 DEF LinesCut

\* Nothing starts a call once one has failed.
LEMMA FailedIsTheEnd ==
    ASSUME Assumptions, pc = "failed", [Next]_vars
    PROVE  UNCHANGED vars
BY DEF Assumptions, Next, HostStep, Feed, Finish, Ready, NextView, DrainCarry,
       FeedReturns, FlushTail

\* The steps that ask nothing of the language.
LEMMA OtherStepsKeepLines ==
    ASSUME Assumptions, Accounts, LinesCut,
           FeedReturns \/ Finish \/ (DrainCarry /\ carry = << >>) \/ UNCHANGED vars
    PROVE  LinesCut' /\ (pc' = "failed" => UNCHANGED vars)
<1>1. ASSUME UNCHANGED <<fed, carry, stream_pos, line_no>>,
             Produced' = Produced, pc \notin {"flush", "finished", "failed"},
             pc' \notin {"failed", "finished"},
             pc' \in {"idle", "view"} => Len(carry) <= LineMax,
             pc' = "idle" => records' = << >>
      PROVE  LinesCut'
  <2>1. HeldFrom' = HeldFrom
    BY <1>1 DEF HeldFrom
  <2>2. line_no = Len(Produced) /\ AtLineStart
    BY <1>1 DEF LinesCut, AtTailEnd, Closing
  <2>3. line_no' = Len(Produced') /\ AtLineStart'
    BY <1>1, <2>1, <2>2 DEF AtLineStart
  <2>4. ASSUME NEW k \in 1..Len(Produced')
        PROVE  IsLine(fed', Produced'[k], k, (pc \in {"flush", "finished", "failed"})')
    <3>1. IsLine(fed, Produced[k], k, pc \in {"flush", "finished", "failed"})
      BY <1>1, <2>4 DEF LinesCut
    <3> QED BY <1>1, <3>1 DEF IsLine
  <2> QED BY <1>1, <2>3, <2>4 DEF LinesCut
<1>2. CASE FeedReturns
  <2>1. KeptAsCut
    BY <1>2, ReturnKeepsCuts DEF FeedReturns, reader, Accounts
  <2>2. Produced' = Produced
    BY <2>1 DEF KeptAsCut, Produced
  <2>3. /\ pc = "view" /\ pc' = "idle" /\ records' = << >>
        /\ UNCHANGED <<fed, carry, stream_pos, line_no>>
    BY <1>2 DEF FeedReturns, Return, reader
  <2>4. Len(carry) <= LineMax
    BY <2>3 DEF LinesCut
  <2> QED BY <1>1, <2>2, <2>3, <2>4
<1>3. CASE Finish
  <2>1. /\ pc = "idle" /\ pc' = "flush"
        /\ UNCHANGED <<fed, carry, stream_pos, line_no>> /\ Produced' = Produced
    BY <1>3 DEF Finish, Ready, Assumptions, reader, Produced
  <2> QED BY <1>1, <2>1
<1>4. CASE DrainCarry /\ carry = << >>
  <2>1. /\ pc = "drain" /\ pc' = "view"
        /\ UNCHANGED <<fed, carry, stream_pos, line_no>> /\ Produced' = Produced
    BY <1>4 DEF DrainCarry, reader, Produced
  <2>2. Len(carry) <= LineMax
    <3>1. Len(carry) = 0 /\ LineMax \in Nat
      BY <1>4, LinesAssumption
    <3> QED BY <3>1
  <2> QED BY <1>1, <2>1, <2>2
<1>5. CASE UNCHANGED vars
  BY <1>5 DEF vars, reader, LinesCut, AtLineStart, AtTailEnd, Closing, HeldFrom,
              Produced
<1> QED BY <1>2, <1>3, <1>4, <1>5

LEMMA NextLines == Assumptions /\ LinesInv /\ [Next]_vars => LinesInv'
<1> SUFFICES ASSUME Assumptions, LinesInv, [Next]_vars PROVE LinesInv'
  OBVIOUS
<1>1. Accounts /\ LinesCut /\ RefusalHasCause /\ ErrorNamesTheLine /\ Accounts'
  BY NextAccounts DEF LinesInv
<1>2. ASSUME NEW n \in Nat, NEW eof \in BOOLEAN, NEW out, Call(n, eof, out)
      PROVE  LinesInv'
  BY <1>1, <1>2, CallKeepsLines, CallFault DEF LinesInv
<1>3. ASSUME LinesCut', pc' = "failed" => UNCHANGED vars
      PROVE  LinesInv'
  <2>1. RefusalHasCause' /\ ErrorNamesTheLine'
    <3>1. CASE pc' = "failed"
      BY <1>1, <1>3, <3>1 DEF vars, reader, RefusalHasCause, ErrorNamesTheLine
    <3>2. CASE pc' # "failed"
      BY <3>2 DEF RefusalHasCause, ErrorNamesTheLine
    <3> QED BY <3>1, <3>2
  <2> QED BY <1>1, <1>3, <2>1 DEF LinesInv
<1>4. ASSUME NEW chunk \in Chunks, Feed(chunk) PROVE LinesInv'
  <2>1. pc' # "failed"
    BY <1>4 DEF Feed
  <2> QED BY <1>1, <1>3, <1>4, <2>1, FeedKeepsLines
<1>5. CASE NextView
  BY <1>1, <1>2, <1>5, ViewIsACall
<1>6. CASE DrainCarry /\ carry # << >>
  BY <1>1, <1>2, <1>6, DrainIsACall
<1>7. CASE FlushTail
  BY <1>1, <1>2, <1>7, FlushIsACall
<1>8. CASE FeedReturns \/ Finish \/ (DrainCarry /\ carry = << >>) \/ UNCHANGED vars
  BY <1>1, <1>3, <1>8, OtherStepsKeepLines
<1> QED BY <1>4, <1>5, <1>6, <1>7, <1>8 DEF Next, HostStep

-----------------------------------------------------------------------------
(* What the invariant says. *)

LEMMA LinesMeanRecords ==
    ASSUME LinesInv
    PROVE  RecordsAreTheLines
<1>1. fed \in Seq(Byte) /\ Len(Produced) \in Nat
  BY ProducedTyped DEF LinesInv, Accounts, BytesTyped
<1>2. pc # "failed" => line_no = Len(Produced)
  BY DEF LinesInv, LinesCut
<1>3. ASSUME NEW k \in 1..Len(Produced)
      PROVE  Produced[k] = ReferenceRecord(fed, k)
  <2>1. IsLine(fed, Produced[k], k, pc \in {"flush", "finished", "failed"})
    BY DEF LinesInv, LinesCut
  <2>2. k \in Nat \ {0}
    BY <1>1
  <2> QED BY <1>1, <2>1, <2>2, RecordIsReference
<1> QED BY <1>2, <1>3 DEF RecordsAreTheLines, Produced

\* When the rest of the stream has no newline all lines are counted.
LEMMA AllAreCounted ==
    ASSUME NEW s \in Seq(Byte), NEW b, NEW n, IsStart(s, b, n),
           NoNewline(s, b, Len(s))
    PROVE  TerminatedLines(s) = n
<1>1. b \in Nat /\ Len(s) \in Nat /\ b <= Len(s) /\ CountUpTo(s, b) = n
  BY DEF IsStart
<1>2. CountUpTo(s, Len(s)) = n
  BY <1>1, CountSkips
<1>3. NewlinesUpTo(s, Len(s)) = Newlines(s)
  BY <1>1 DEF NewlinesUpTo, Newlines
<1> QED BY <1>2, <1>3 DEF CountUpTo, TerminatedLines

LEMMA LinesMeanDelivered ==
    ASSUME LinesInv
    PROVE  NothingWithheld
<1> SUFFICES ASSUME pc = "idle"
             PROVE  /\ Len(delivered) = TerminatedLines(fed)
                    /\ Newlines(carry) = {} /\ Len(carry) <= LineMax
  BY DEF NothingWithheld
<1>1. /\ Newlines(carry) = {} /\ todo = << >> /\ fed \in Seq(Byte)
      /\ carry \in Seq(Byte) /\ todo \in Seq(Byte) /\ stream_pos \in Nat
      /\ delivered \in Seq(CutRecords)
      /\ Accounted(fed, carry, stream_pos, todo)
  BY DEF LinesInv, Accounts, BytesTyped, RecordsTyped, BytesAccounted
<1>2. Len(carry) <= LineMax /\ records = << >> /\ AtLineStart
  BY DEF LinesInv, LinesCut, AtTailEnd, Closing
<1>3. Produced = delivered
  BY <1>1, <1>2, ConcatEmptySeq DEF Produced
<1>4. PICK held \in Nat : held = Len(carry)
  BY <1>1
<1>5. /\ held <= stream_pos /\ stream_pos = Len(fed)
      /\ \A i \in 1..held : carry[i] = fed[stream_pos - held + i]
  <2>1. stream_pos + Len(todo) = Len(fed) /\ Len(todo) = 0
    BY <1>1 DEF Accounted
  <2>2. /\ Len(carry) <= stream_pos
        /\ \A i \in 1..Len(carry) : carry[i] = fed[stream_pos - Len(carry) + i]
    <3>1. /\ fed \in Seq(Byte) /\ carry \in Seq(Byte) /\ stream_pos \in Nat
          /\ todo \in Seq(Byte) /\ Accounted(fed, carry, stream_pos, todo)
      BY <1>1
    <3> QED BY ONLY <3>1, AccountedBytes
  <2> QED BY <1>1, <1>4, <2>1, <2>2
<1>6. NoNewline(fed, HeldFrom, Len(fed))
  <2> SUFFICES ASSUME NEW i \in (HeldFrom + 1)..Len(fed), fed[i] = "nl" PROVE FALSE
    BY DEF NoNewline
  <2>1. HeldFrom = stream_pos - held /\ HeldFrom \in Nat
    BY <1>1, <1>4, <1>5 DEF HeldFrom
  <2>2. /\ i - HeldFrom \in 1..held
        /\ stream_pos - held + (i - HeldFrom) = i
    BY <1>1, <1>5, <2>1
  <2>3. carry[i - HeldFrom] = "nl"
    BY <1>5, <2>2
  <2> QED BY <1>1, <1>4, <2>2, <2>3 DEF Newlines
<1>7. TerminatedLines(fed) = Len(Produced)
  BY <1>1, <1>2, <1>6, AllAreCounted DEF AtLineStart
<1> QED BY <1>1, <1>2, <1>3, <1>7

LEMMA LinesMeanEnded ==
    ASSUME LinesInv
    PROVE  EndedMeansAllDelivered
<1> SUFFICES ASSUME pc = "finished"
             PROVE  /\ Len(delivered) = LinesOfEnded(fed)
                    /\ \A k \in 1..LinesOfEnded(fed) : AllowedLine(fed, k)
                    /\ HasTail(fed) => fed[Len(fed)] # "cr"
  BY DEF EndedMeansAllDelivered
<1>1. /\ todo = << >> /\ fed \in Seq(Byte) /\ stream_pos \in Nat
      /\ Len(fed) \in Nat /\ delivered \in Seq(CutRecords)
      /\ Accounted(fed, carry, stream_pos, todo)
  BY DEF LinesInv, Accounts, BytesTyped, RecordsTyped, BytesAccounted
<1>2. carry = << >> /\ records = << >> /\ (AtLineStart \/ AtTailEnd)
  BY DEF LinesInv, LinesCut
<1>3. Produced = delivered /\ Len(Produced) \in Nat
  BY <1>1, <1>2, ConcatEmptySeq DEF Produced
<1>4. HeldFrom = Len(fed)
  <2>1. stream_pos + Len(todo) = Len(fed) /\ Len(todo) = 0 /\ Len(carry) = 0
    BY <1>1, <1>2 DEF Accounted
  <2> QED BY <1>1, <2>1 DEF HeldFrom
<1>5. /\ Len(Produced) = LinesOfEnded(fed)
      /\ HasTail(fed) => fed[Len(fed)] # "cr"
  <2>1. CASE AtLineStart
    <3>1. IsStart(fed, Len(fed), Len(Produced))
      BY <1>4, <2>1 DEF AtLineStart
    <3>2. NoNewline(fed, Len(fed), Len(fed))
      BY <1>1 DEF NoNewline
    <3>3. TerminatedLines(fed) = Len(Produced)
      BY <1>1, <3>1, <3>2, AllAreCounted
    <3>4. ~HasTail(fed)
      BY <1>1, <3>1, EmptySeq DEF IsStart, HasTail
    <3>5. LinesOfEnded(fed) = Len(Produced)
      BY <1>3, <3>3, <3>4 DEF LinesOfEnded
    <3> QED BY <3>4, <3>5
  <2>2. CASE AtTailEnd
    <3>1. TerminatedLines(fed) \in Nat
      BY <1>1, NewlinesAreFinite
    <3> QED BY <2>2, <3>1 DEF AtTailEnd, LinesOfEnded
  <2> QED BY <1>2, <2>1, <2>2
<1>6. ASSUME NEW k \in 1..LinesOfEnded(fed)
      PROVE  AllowedLine(fed, k)
  <2>1. k \in 1..Len(Produced) /\ k \in Nat \ {0}
    BY <1>3, <1>5
  <2>2. IsLine(fed, Produced[k], k, pc \in {"flush", "finished", "failed"})
    BY <2>1 DEF LinesInv, LinesCut
  <2> QED BY <1>1, <2>1, <2>2, RecordIsReference
<1> QED BY <1>3, <1>5, <1>6

\* However a stream is cut into chunks, the records are those of its first
\* lines, with their fields, numbers and byte ranges.
THEOREM CsvReaderRecordsAreTheLines ==
    ASSUME Assumptions
    PROVE  Spec => []RecordsAreTheLines
<1>1. LinesInv => RecordsAreTheLines
  BY LinesMeanRecords
<1> QED BY <1>1, InitLines, NextLines, PTL DEF Spec

\* feed returns every record its chunk completes, and holds no more than a
\* line may have.
THEOREM CsvReaderWithholdsNothing ==
    ASSUME Assumptions
    PROVE  Spec => []NothingWithheld
<1>1. LinesInv => NothingWithheld
  BY LinesMeanDelivered
<1> QED BY <1>1, InitLines, NextLines, PTL DEF Spec

\* finish returns without an error only when every line was delivered and is
\* one the format allows.
THEOREM CsvReaderEndedMeansAllDelivered ==
    ASSUME Assumptions
    PROVE  Spec => []EndedMeansAllDelivered
<1>1. LinesInv => EndedMeansAllDelivered
  BY LinesMeanEnded
<1> QED BY <1>1, InitLines, NextLines, PTL DEF Spec

\* No stream is refused without a fault among the bytes read.
THEOREM CsvReaderRefusalHasCause ==
    ASSUME Assumptions
    PROVE  Spec => []RefusalHasCause
<1>1. LinesInv => RefusalHasCause
  BY DEF LinesInv
<1> QED BY <1>1, InitLines, NextLines, PTL DEF Spec

\* Without control bytes the line an error names is the first at fault.
THEOREM CsvReaderErrorNamesTheLine ==
    ASSUME Assumptions
    PROVE  Spec => []ErrorNamesTheLine
<1>1. LinesInv => ErrorNamesTheLine
  BY DEF LinesInv
<1> QED BY <1>1, InitLines, NextLines, PTL DEF Spec
-----------------------------------------------------------------------------
(* One call of feed and one of finish.  Views end at the multiples of        *)
(* ViewBytes then, and what the language refuses there is what the format    *)
(* forbids, but for a line whose CR ends a view.                             *)

AtViewEnd(p) == p % ViewBytes = 0

LEMMA QuotientIsThere ==
    ASSUME NEW v \in Nat \ {0}, NEW x \in Nat, x % v = 0
    PROVE  \E q \in Nat : x = v * q
<1>1. x \div v \in Nat
  OBVIOUS
<1>2. x = v * (x \div v)
  OBVIOUS
<1> QED BY <1>1, <1>2

LEMMA MultipleDivides ==
    ASSUME NEW v \in Nat \ {0}, NEW q \in Nat
    PROVE  (v * q) % v = 0
OBVIOUS

LEMMA NextMultiple ==
    ASSUME NEW v \in Nat \ {0}, NEW q \in Nat, NEW r \in Nat, v * q < v * r
    PROVE  v * q + v <= v * r
<1>1. q < r
  OBVIOUS
<1>2. v * (q + 1) <= v * r
  <2>1. q + 1 <= r
    BY <1>1
  <2> QED BY <2>1
<1>3. v * (q + 1) = v * q + v
  OBVIOUS
<1> QED BY <1>2, <1>3

LEMMA MultiplesApart ==
    ASSUME NEW v \in Nat \ {0}, NEW p \in Nat, p % v = 0
    PROVE  /\ (p + v) % v = 0
           /\ \A y \in Nat : p < y /\ y < p + v => y % v # 0
<1>1. PICK q \in Nat : p = v * q
  BY QuotientIsThere
<1>2. (p + v) % v = 0
  <2>1. p + v = v * (q + 1) /\ q + 1 \in Nat
    BY <1>1
  <2>2. (v * (q + 1)) % v = 0
    BY <2>1, MultipleDivides
  <2> QED BY <2>1, <2>2
<1>3. ASSUME NEW y \in Nat, p < y, y < p + v, y % v = 0
      PROVE  FALSE
  <2>1. PICK r \in Nat : y = v * r
    BY <1>3, QuotientIsThere
  <2>2. v * q + v <= v * r
    BY <1>1, <1>3, <2>1, NextMultiple
  <2>3. p + v <= y
    BY <1>1, <2>1, <2>2
  <2> QED BY <1>3, <2>3
<1> QED BY <1>2, <1>3

LEMMA ViewEndsApart ==
    ASSUME NEW p \in Nat, AtViewEnd(p)
    PROVE  /\ AtViewEnd(p + ViewBytes)
           /\ \A q \in Nat : p < q /\ q < p + ViewBytes => ~AtViewEnd(q)
BY ReaderAssumption, MultiplesApart DEF AtViewEnd

LEMMA StripIsOneByte ==
    ASSUME NEW line \in Seq(Byte), Len(StripCR(line)) # Len(line)
    PROVE  /\ Len(StripCR(line)) = Len(line) - 1
           /\ Len(line) \in 1..Len(line) /\ line[Len(line)] = "cr"
<1>1. EndsWithCR(line)
  BY DEF StripCR
<1>2. Len(line) \in Nat /\ Len(line) # 0 /\ line[Len(line)] = "cr"
  BY <1>1, EmptySeq DEF EndsWithCR
<1>3. Len(SubSeq(line, 1, Len(line) - 1)) = Len(line) - 1
  <2> DEFINE n == Len(line) - 1
  <2>1. 1 \in 1..Len(line) + 1 /\ n \in (1 - 1)..Len(line) /\ n - 1 + 1 = n
    BY <1>2
  <2> HIDE DEF n
  <2>2. Len(SubSeq(line, 1, n)) = n
    BY <2>1, PieceProperties
  <2> QED BY <2>2 DEF n
<1>4. StripCR(line) = SubSeq(line, 1, Len(line) - 1)
  BY <1>1 DEF StripCR
<1> QED BY <1>2, <1>3, <1>4

\* What is wrong with a window, of which the stream goes on only behind a view's
\* end, is wrong with the stream.
LEMMA FaultIsNotAccepted ==
    ASSUME NEW s \in Seq(Byte), NEW w \in Seq(Byte), NEW start \in Nat,
           Within(s, w, start), NEW n \in Nat, IsStart(s, start, n),
           NEW eof \in BOOLEAN, eof => start + Len(w) = Len(s),
           Faulty(w, eof),
           start + Len(w) < Len(s) => AtViewEnd(start + Len(w))
    PROVE  ~OneShotAccepts(s)
<1>1. /\ Len(w) \in Nat /\ Len(s) \in Nat /\ start + Len(w) <= Len(s)
      /\ \A i \in 1..Len(w) : w[i] = s[start + i]
      /\ n + 1 \in Nat \ {0} /\ (n + 1) - 1 = n /\ LineMax \in Nat
  BY LinesAssumption DEF Within
<1>2. ASSUME NEW k \in 1..LinesOfEnded(s), ~AllowedLine(s, k)
      PROVE  ~OneShotAccepts(s)
  BY <1>2 DEF OneShotAccepts
<1>3. ASSUME HasTail(s), s[Len(s)] = "cr"
      PROVE  ~OneShotAccepts(s)
  BY <1>3 DEF OneShotAccepts
<1>4. CASE HasControl(w)
  <2>1. PICK i \in 1..Len(w) : w[i] = "ctl"
    BY <1>4 DEF HasControl
  <2>2. start + i \in 1..Len(s) /\ s[start + i] = "ctl"
    BY <1>1, <2>1
  <2>3. PICK k \in 1..LinesOfEnded(s) : ~Plain(RawLine(s, k))
    BY <2>2, ControlSpoilsALine
  <2> QED BY <1>2, <2>3 DEF AllowedLine
<1>5. ASSUME NEW e \in 0..Len(w), Taken(w, e, eof), ~AllowedRaw(SubSeq(w, 1, e))
      PROVE  ~OneShotAccepts(s)
  <2>1. /\ LineFrom(s, start, start + e)
        /\ SubSeq(s, start + 1, start + e) = SubSeq(w, 1, e)
    BY <1>1, <1>5, LineMoves DEF Taken
  <2>2. LineSpan(s, n + 1, start, start + e)
    BY <1>1, <2>1 DEF LineSpan
  <2>3. n + 1 \in 1..LinesOfEnded(s) /\ RawLine(s, n + 1) = SubSeq(w, 1, e)
    BY <1>1, <2>1, <2>2, SpanIsTheLine
  <2>4. ~AllowedLine(s, n + 1)
    <3> DEFINE raw == SubSeq(w, 1, e)
    <3>1. RawLine(s, n + 1) = raw /\ ~AllowedRaw(raw)
      BY <1>5, <2>3
    <3> HIDE DEF raw
    <3> QED BY <3>1 DEF AllowedLine, AllowedRaw
  <2> QED BY <1>2, <2>3, <2>4
<1>6. CASE NoNewline(w, 0, Len(w)) /\ Len(w) > LineMax
  <2>1. start < Len(s)
    BY <1>1, <1>6
  <2>2. PICK e \in start..Len(s) : LineSpan(s, n + 1, start, e)
    BY <2>1, LineIsThere
  <2> DEFINE raw == SubSeq(s, start + 1, e)
             m == start + 1
  <2>3. /\ n + 1 \in 1..LinesOfEnded(s) /\ RawLine(s, n + 1) = raw
        /\ LineStop(s, n + 1) = e
        /\ e < Len(s) => n + 1 <= TerminatedLines(s)
        /\ e = Len(s) => HasTail(s)
    BY <1>1, <2>2, SpanIsTheLine
  <2>4. ~(e < start + Len(w))
    <3> SUFFICES ASSUME e < start + Len(w) PROVE FALSE
      OBVIOUS
    <3>1. e \in Nat /\ e < Len(s) /\ s[e + 1] = "nl"
      BY <1>1, <2>2 DEF LineSpan, LineFrom
    <3>2. /\ (e + 1) - start \in 1..Len(w) /\ start + ((e + 1) - start) = e + 1
          /\ (e + 1) - start \in (0 + 1)..Len(w)
      BY <1>1, <3>1
    <3> QED BY <1>1, <1>6, <3>1, <3>2 DEF NoNewline
  <2>5. e \in Nat /\ start + Len(w) <= e /\ e <= Len(s)
    BY <1>1, <2>2, <2>4
  <2>6. raw \in Seq(Byte) /\ Len(raw) = e - start
        /\ \A i \in 1..(e - start) : raw[i] = s[start + i]
    <3>1. /\ m \in 1..Len(s) + 1 /\ e \in (m - 1)..Len(s) /\ e - m + 1 = e - start
          /\ \A i \in 1..(e - start) : m + i - 1 = start + i
      BY <1>1, <2>1, <2>5
    <3> DEFINE part == SubSeq(s, m, e)
    <3>2. /\ part \in Seq(Byte) /\ Len(part) = e - m + 1
          /\ \A i \in 1..(e - m + 1) : part[i] = s[m + i - 1]
      BY <3>1, PieceProperties
    <3> HIDE DEF part, m
    <3>3. /\ part \in Seq(Byte) /\ Len(part) = e - start
          /\ \A i \in 1..(e - start) : part[i] = s[start + i]
      BY <3>1, <3>2
    <3> QED BY <3>3 DEF part, m
  <2> HIDE DEF raw, m
  <2>7. CASE Len(StripCR(raw)) > LineMax
    <3>1. ~(Len(StripCR(raw)) <= LineMax)
      <4>1. Len(StripCR(raw)) \in Nat
        BY <2>6, StripShortens
      <4> QED BY <1>1, <2>7, <4>1
    <3> QED BY <1>2, <2>3, <3>1 DEF AllowedLine
  <2>8. CASE ~(Len(StripCR(raw)) > LineMax)
    <3>1. Len(raw) > LineMax
      BY <1>1, <1>6, <2>5, <2>6
    <3>2. /\ Len(StripCR(raw)) = Len(raw) - 1
          /\ Len(raw) \in 1..Len(raw) /\ raw[Len(raw)] = "cr"
      <4>1. Len(StripCR(raw)) # Len(raw)
        BY <2>8, <3>1
      <4> QED BY <2>6, <4>1, StripIsOneByte
    <3>3. e = start + Len(w)
      <4>1. ~(Len(raw) - 1 > LineMax)
        BY <2>8, <3>2
      <4> QED BY <1>1, <1>6, <2>5, <2>6, <4>1
    <3>4. s[e] = "cr"
      BY <1>1, <2>5, <2>6, <3>2, <3>3
    <3>5. CASE e = Len(s)
      BY <1>3, <2>3, <3>4, <3>5
    <3>6. CASE e # Len(s)
      <4>1. e < Len(s) /\ n + 1 <= TerminatedLines(s) /\ AtViewEnd(e)
        BY <1>1, <2>3, <2>5, <3>3, <3>6
      <4>2. n + 1 \in 1..TerminatedLines(s)
        <5>1. TerminatedLines(s) \in Nat
          BY NewlinesAreFinite
        <5> QED BY <1>1, <4>1, <5>1
      <4> QED BY <2>3, <3>1, <4>1, <4>2 DEF OneShotAccepts, AtViewEnd
    <3> QED BY <3>5, <3>6
  <2> QED BY <2>7, <2>8
<1>7. CASE eof /\ NoNewline(w, 0, Len(w)) /\ EndsWithCR(w)
  <2>1. w # << >> /\ w[Len(w)] = "cr" /\ Len(w) \in 1..Len(w)
    BY <1>1, <1>7, EmptySeq DEF EndsWithCR
  <2>2. s[Len(s)] = "cr" /\ Len(s) # 0
    BY <1>1, <1>7, <2>1
  <2>3. HasTail(s)
    <3>1. s # << >>
      BY <2>2, EmptySeq
    <3> QED BY <2>2, <3>1 DEF HasTail
  <2> QED BY <1>3, <2>2, <2>3
<1> QED BY <1>4, <1>5, <1>6, <1>7 DEF Faulty

\* What one chunk, worked through in views, leaves behind.
Cadence == todo # << >> => AtViewEnd(stream_pos)

\* Whole lines that are held began in the last view.
Behind ==
    Newlines(carry) # {} =>
        \E p \in Nat :
            AtViewEnd(p) /\ p < HeldFrom /\ stream_pos <= p + ViewBytes

\* No view ended on the CR of a line too long by it.
NoneAtViewEnd ==
    \A k \in 1..Len(Produced) :
        k <= TerminatedLines(fed) /\ Len(RawLine(fed, k)) > LineMax
            => ~AtViewEnd(LineStop(fed, k))

\* The invariant for one call of feed.
FedOnce ==
    feeds # "many" =>
        /\ feeds = "none" => fed = << >>
        /\ pc # "failed" => Cadence /\ Behind /\ NoneAtViewEnd
        /\ pc = "failed" => ~OneShotAccepts(fed)

\* How much of the chunk a call takes, and what it leaves.
Extent(n) ==
    \/ /\ pc = "view" /\ todo # << >> /\ n = AtMost(Len(todo), ViewBytes)
       /\ pc' # "failed" => todo' = SubSeq(todo, n + 1, Len(todo))
    \/ /\ pc \in {"drain", "flush"} /\ n = 0
       /\ pc' # "failed" => todo' = todo

\* The stream goes on behind what a call takes only at the end of a view.
LEMMA TakenToViewEnd ==
    ASSUME Accounts, Cadence, pc # "failed", NEW n \in 0..Len(todo), Extent(n)
    PROVE  /\ stream_pos + n < Len(fed) => AtViewEnd(stream_pos + n)
           /\ pc' # "failed" /\ todo' # << >> => stream_pos + n < Len(fed)
<1>1. /\ fed \in Seq(Byte) /\ todo \in Seq(Byte) /\ stream_pos \in Nat
      /\ stream_pos + Len(todo) = Len(fed) /\ ViewBytes \in Nat
  BY ReaderAssumption DEF Accounts, BytesTyped, BytesAccounted, Accounted
<1>2. PICK rest \in Nat, size \in Nat : rest = Len(todo) /\ size = Len(fed)
  BY <1>1
<1>3. stream_pos + n < Len(fed) => n < rest
  BY <1>1, <1>2
<1>4. todo = << >> => rest = 0
  BY <1>2
<1>5. CASE pc = "view" /\ todo # << >> /\ n = AtMost(Len(todo), ViewBytes)
  <2>1. n < rest => n = ViewBytes
    BY <1>1, <1>2, <1>5 DEF AtMost
  <2>2. AtViewEnd(stream_pos + ViewBytes)
    BY <1>1, <1>5, ViewEndsApart DEF Cadence
  <2>3. pc' # "failed" /\ todo' # << >> => n < rest
    <3> SUFFICES ASSUME pc' # "failed", todo' # << >>, ~(n < rest) PROVE FALSE
      OBVIOUS
    <3>1. n = rest
      BY <1>2
    <3>2. todo' = SubSeq(todo, rest + 1, rest)
      BY <1>2, <1>5, <3>1 DEF Extent
    <3>3. SubSeq(todo, rest + 1, rest) = << >>
      BY <1>1, <1>2, SubSeqEmpty
    <3> QED BY <3>2, <3>3
  <2> QED BY <1>1, <1>2, <1>3, <2>1, <2>2, <2>3
<1>6. CASE pc \in {"drain", "flush"} /\ n = 0
  <2>1. n < rest => todo # << >>
    BY <1>4, <1>6
  <2>2. pc' # "failed" /\ todo' # << >> => todo # << >>
    BY <1>6 DEF Extent
  <2>3. todo # << >> => rest # 0
    BY <1>1, <1>2, EmptySeq
  <2> QED BY <1>1, <1>2, <1>3, <1>6, <2>1, <2>2, <2>3 DEF Cadence
<1> QED BY <1>5, <1>6 DEF Extent

\* A line that is cut ends behind the end of a view, or at one if the carry was
\* the whole line.
LEMMA LineEndsInView ==
    ASSUME Accounts, LinesCut, Cadence, Behind, pc # "failed",
           NEW n \in 0..Len(todo), Extent(n),
           NEW e \in Nat, e < Len(carry \o SubSeq(todo, 1, n)),
           (carry \o SubSeq(todo, 1, n))[e + 1] = "nl"
    PROVE  \E p \in Nat :
               /\ AtViewEnd(p) /\ stream_pos + n <= p + ViewBytes
               /\ p <= HeldFrom + e
               /\ p = HeldFrom + e => e <= LineMax
<1> DEFINE window == carry \o SubSeq(todo, 1, n)
<1>1. /\ carry \in Seq(Byte) /\ todo \in Seq(Byte) /\ stream_pos \in Nat
      /\ ViewBytes \in Nat /\ LineMax \in Nat
      /\ Len(carry) \in Nat /\ Len(todo) \in Nat /\ n \in Nat
      /\ HeldFrom = stream_pos - Len(carry)
  BY ReaderAssumption, LinesAssumption DEF Accounts, BytesTyped, HeldFrom
<1>2. /\ window \in Seq(Byte) /\ HeldFrom \in Nat
      /\ HeldFrom + Len(window) = stream_pos + n
  BY CallWindow
<1>3. PICK held \in Nat : held = Len(carry) /\ stream_pos = HeldFrom + held
  BY <1>1, <1>2
<1>4. e + 1 <= held => e + 1 \in Newlines(carry)
  <2> SUFFICES ASSUME e + 1 <= held PROVE e + 1 \in Newlines(carry)
    OBVIOUS
  <2>1. e + 1 \in 1..Len(carry)
    BY <1>3
  <2>2. carry[e + 1] = window[e + 1]
    <3>1. SubSeq(todo, 1, n) \in Seq(Byte)
      <4>1. 1 \in 1..Len(todo) + 1 /\ n \in (1 - 1)..Len(todo)
        BY <1>1
      <4> QED BY <1>1, <4>1, PieceProperties
    <3> QED BY <1>1, <2>1, <3>1, ConcatBegins
  <2> QED BY <2>1, <2>2 DEF Newlines
<1> HIDE DEF window
<1>5. CASE pc = "view" /\ todo # << >> /\ n = AtMost(Len(todo), ViewBytes)
  <2>1. AtViewEnd(stream_pos) /\ Newlines(carry) = {} /\ held <= LineMax
    BY <1>3, <1>5 DEF Cadence, Accounts, LinesCut
  <2>2. n <= ViewBytes
    BY <1>1, <1>5 DEF AtMost
  <2>3. ~(e + 1 <= held)
    BY <1>4, <2>1
  <2>4. stream_pos <= HeldFrom + e /\ (stream_pos = HeldFrom + e => e = held)
    BY <1>2, <1>3, <2>3
  <2>5. /\ AtViewEnd(stream_pos) /\ stream_pos + n <= stream_pos + ViewBytes
        /\ stream_pos <= HeldFrom + e
        /\ stream_pos = HeldFrom + e => e <= LineMax
    BY <1>1, <2>1, <2>2, <2>4
  <2> QED BY <1>1, <2>5
<1>6. CASE pc \in {"drain", "flush"} /\ n = 0
  <2>1. e + 1 <= held
    BY <1>2, <1>3, <1>6 DEF window
  <2>2. PICK p \in Nat :
            AtViewEnd(p) /\ p < HeldFrom /\ stream_pos <= p + ViewBytes
    BY <1>4, <2>1 DEF Behind
  <2>3. /\ stream_pos + n <= p + ViewBytes /\ p <= HeldFrom + e
        /\ p # HeldFrom + e
    BY <1>1, <1>2, <1>6, <2>2
  <2> QED BY <2>2, <2>3
<1> QED BY <1>5, <1>6 DEF Extent

\* A line that is not cut off at a view's end, though too long with its CR.
LEMMA LineIsNotAtViewEnd ==
    ASSUME Accounts, LinesCut, Cadence, Behind,
           NEW n \in Nat, NEW eof \in BOOLEAN, NEW out,
           Call(n, eof, out), Extent(n), out.consumed = n,
           NEW e \in 0..Len(carry \o SubSeq(todo, 1, n)),
           LineAnswer(carry \o SubSeq(todo, 1, n), out, e, eof),
           \/ e < Len(carry \o SubSeq(todo, 1, n))
           \/ Len(Produced) + 1 <= TerminatedLines(fed)
    PROVE  /\ Len(RawLine(fed, Len(Produced) + 1)) > LineMax
                  => ~AtViewEnd(LineStop(fed, Len(Produced) + 1))
           /\ \E p \in Nat : /\ AtViewEnd(p) /\ p < HeldFrom'
                             /\ stream_pos' <= p + ViewBytes
<1> DEFINE window == carry \o SubSeq(todo, 1, n)
           count == Len(Produced)
<1>1. /\ n \in 0..Len(todo) /\ pc \in {"view", "drain", "flush"} /\ fed' = fed
      /\ Absorb(out) /\ (eof <=> pc = "flush") /\ pc # "failed"
  BY DEF Call
<1>2. /\ window \in Seq(Byte) /\ Within(fed, window, HeldFrom)
      /\ HeldFrom \in Nat /\ HeldFrom + Len(window) = stream_pos + n
      /\ eof => HeldFrom + Len(window) = Len(fed)
  <2>1. eof => todo = << >>
    BY <1>1 DEF Accounts
  <2> HIDE DEF window
  <2> QED BY <1>1, <2>1, CallWindow DEF window
<1>3. LineAnswer(window, out, e, eof) /\ e \in 0..Len(window)
  OBVIOUS
<1>4. /\ fed \in Seq(Byte) /\ Len(fed) \in Nat /\ count \in Nat /\ LineMax \in Nat
      /\ stream_pos \in Nat /\ ViewBytes \in Nat
  BY ProducedTyped, LinesAssumption, ReaderAssumption DEF Accounts, BytesTyped
<1> HIDE DEF window
<1>5. /\ Taken(window, e, eof) /\ LineFrom(window, 0, e) /\ Len(window) > 0
      /\ e < Len(window) \/ (eof /\ e = Len(window))
      /\ e \in Nat /\ Len(window) \in Nat
  <2>1. Len(window) \in Nat /\ e \in Nat /\ e <= Len(window)
    BY <1>2, <1>3
  <2>2. Taken(window, e, eof)
    BY <1>3 DEF LineAnswer
  <2>3. Len(window) > 0
    BY <1>2, <2>2, FaultNeedsBytes
  <2>4. LineFrom(window, 0, e) /\ (e < Len(window) \/ eof)
    BY <2>2 DEF Taken
  <2> QED BY <2>1, <2>2, <2>3, <2>4
<1>6. IsStart(fed, HeldFrom, count)
  <2>1. HeldFrom # Len(fed)
    <3>1. HeldFrom + Len(window) <= Len(fed)
      BY <1>2 DEF Within
    <3> QED BY <1>2, <1>4, <1>5, <3>1
  <2>2. AtLineStart \/ AtTailEnd
    BY <1>1 DEF LinesCut
  <2> QED BY <2>1, <2>2 DEF AtTailEnd, AtLineStart
<1>7. LineSpan(fed, count + 1, HeldFrom, HeldFrom + e)
  <2>1. (count + 1) - 1 = count
    BY <1>4
  <2>2. LineFrom(fed, HeldFrom, HeldFrom + e)
    BY <1>2, <1>4, <1>5, LineMoves
  <2> QED BY <1>6, <2>1, <2>2 DEF LineSpan
<1>8. /\ LineStop(fed, count + 1) = HeldFrom + e
      /\ RawLine(fed, count + 1) = SubSeq(fed, HeldFrom + 1, HeldFrom + e)
      /\ HeldFrom + e = Len(fed) => TerminatedLines(fed) = (count + 1) - 1
  <2>1. count + 1 \in Nat \ {0}
    BY <1>4
  <2> QED BY <1>4, <1>7, <2>1, SpanIsTheLine
<1>9. e < Len(window)
  <2> SUFFICES ASSUME e = Len(window), eof, count + 1 <= TerminatedLines(fed)
               PROVE  FALSE
    BY <1>5 DEF window
  <2>1. TerminatedLines(fed) = (count + 1) - 1
    BY <1>2, <1>8
  <2> QED BY <1>4, <2>1
<1>10. PICK p \in Nat :
           /\ AtViewEnd(p) /\ stream_pos + n <= p + ViewBytes
           /\ p <= HeldFrom + e
           /\ p = HeldFrom + e => e <= LineMax
  <2>1. window[e + 1] = "nl"
    BY <1>5, <1>9 DEF LineFrom
  <2> QED BY <1>1, <1>5, <1>9, <2>1, LineEndsInView DEF window
<1>11. Len(RawLine(fed, count + 1)) = e
  <2> DEFINE m == HeldFrom + 1
             f == HeldFrom + e
  <2>1. m \in 1..Len(fed) + 1 /\ f \in (m - 1)..Len(fed) /\ f - m + 1 = e
    <3>1. HeldFrom + Len(window) <= Len(fed)
      BY <1>2 DEF Within
    <3>2. PICK b \in Nat, size \in Nat, last \in Nat :
              b = HeldFrom /\ size = Len(window) /\ last = Len(fed)
      BY <1>2, <1>4, <1>5
    <3>3. b + size <= last /\ e <= size
      BY <1>5, <3>1, <3>2
    <3>4. /\ b + 1 \in 1..last + 1 /\ b + e \in ((b + 1) - 1)..last
          /\ (b + e) - (b + 1) + 1 = e
      BY <1>5, <3>3
    <3> QED BY <3>2, <3>4
  <2> HIDE DEF m, f
  <2>2. Len(SubSeq(fed, m, f)) = e
    BY <1>4, <2>1, PieceProperties
  <2> QED BY <1>8, <2>2 DEF m, f
<1>12. e > LineMax => ~AtViewEnd(HeldFrom + e)
  <2> SUFFICES ASSUME e > LineMax PROVE ~AtViewEnd(HeldFrom + e)
    OBVIOUS
  <2>1. /\ HeldFrom + e \in Nat /\ p < HeldFrom + e
        /\ HeldFrom + e < p + ViewBytes
    BY <1>2, <1>4, <1>5, <1>9, <1>10
  <2> QED BY <1>10, <2>1, ViewEndsApart
<1>13. p < HeldFrom' /\ stream_pos' <= p + ViewBytes
  <2>1. carry' = out.carry /\ stream_pos' = stream_pos + n
    BY <1>1 DEF Absorb
  <2>2. Len(out.carry) = Len(window) - (e + 1)
    BY <1>3, <1>9 DEF LineAnswer
  <2>3. HeldFrom' = (HeldFrom + Len(window)) - Len(out.carry)
    BY <1>2, <2>1 DEF HeldFrom
  <2>4. PICK from \in Nat, size \in Nat : from = HeldFrom /\ size = Len(window)
    BY <1>2, <1>5
  <2>5. HeldFrom' = (from + size) - (size - (e + 1))
    BY <2>2, <2>3, <2>4
  <2>6. HeldFrom' = (from + e) + 1
    BY <1>5, <2>4, <2>5
  <2> QED BY <1>4, <1>5, <1>10, <2>1, <2>4, <2>6
<1> QED BY <1>8, <1>10, <1>11, <1>12, <1>13

\* More is asked for only while no line has ended.
LEMMA MoreMeansNoLine ==
    ASSUME NEW carry_, NEW view, NEW eof,
           NextLine(carry_, view, eof).status = "need_more"
    PROVE  Newlines(carry_ \o view) = {}
<1> SUFFICES ASSUME Newlines(carry_ \o view) # {} PROVE FALSE
  OBVIOUS
<1>1. NextLine(carry_, view, eof) \in {FailLine("malformed", view), EmitLine(carry_, view)}
  BY DEF NextLine
<1>2. FailLine("malformed", view).status # "need_more"
  BY DEF FailLine, LineOut
<1>3. EmitLine(carry_, view).status # "need_more"
  BY DEF EmitLine, FailLine, LineOut
<1> QED BY <1>1, <1>2, <1>3

\* The stream that came as one chunk is refused for what the format forbids.
LEMMA RefusedOnce ==
    ASSUME Accounts, LinesCut, Cadence, NEW n \in Nat, NEW eof \in BOOLEAN,
           NEW out, Call(n, eof, out), Extent(n), pc' = "failed"
    PROVE  ~OneShotAccepts(fed)
<1> DEFINE window == carry \o SubSeq(todo, 1, n)
<1>1. /\ window \in Seq(Byte) /\ Within(fed, window, HeldFrom)
      /\ HeldFrom \in Nat /\ HeldFrom + Len(window) = stream_pos + n
      /\ eof => HeldFrom + Len(window) = Len(fed)
      /\ Faulty(window, eof) /\ IsStart(fed, HeldFrom, Len(Produced))
  <2> HIDE DEF window
  <2> QED BY FailureIsAFault DEF window
<1>2. fed \in Seq(Byte) /\ Len(Produced) \in Nat
  BY ProducedTyped DEF Accounts, BytesTyped
<1>3. n \in 0..Len(todo) /\ pc # "failed"
  BY DEF Call
<1>4. stream_pos + n < Len(fed) => AtViewEnd(stream_pos + n)
  BY <1>3, TakenToViewEnd
<1> HIDE DEF window
<1>5. HeldFrom + Len(window) < Len(fed) => AtViewEnd(HeldFrom + Len(window))
  BY <1>1, <1>4
<1> QED BY <1>1, <1>2, <1>5, FaultIsNotAccepted

LEMMA CallKeepsFedOnce ==
    ASSUME Accounts, LinesCut, FedOnce, NEW n \in Nat, NEW eof \in BOOLEAN,
           NEW out, Call(n, eof, out), Extent(n), feeds' = feeds
    PROVE  FedOnce'
<1> SUFFICES ASSUME feeds # "many"
             PROVE  /\ feeds = "none" => fed' = << >>
                    /\ pc' # "failed" => Cadence' /\ Behind' /\ NoneAtViewEnd'
                    /\ pc' = "failed" => ~OneShotAccepts(fed)'
  BY DEF FedOnce
<1> DEFINE window == carry \o SubSeq(todo, 1, n)
           count == Len(Produced)
<1>1. /\ n \in 0..Len(todo) /\ fed' = fed /\ Absorb(out) /\ pc # "failed"
      /\ out = NextLine(carry, SubSeq(todo, 1, n), eof)
  BY DEF Call
<1>2. /\ feeds = "none" => fed = << >>
      /\ Cadence /\ Behind /\ NoneAtViewEnd
  BY <1>1 DEF FedOnce
<1>3. LinesCut' /\ out.consumed = n /\ AnswerMeans(window, out, eof)
  BY CallKeepsLines
<1>4. carry' = out.carry /\ stream_pos' = stream_pos + n
  BY <1>1, <1>3 DEF Absorb
<1>5. ~OneShotAccepts(fed)' <=> ~OneShotAccepts(fed)
  BY <1>1
<1>6. count \in Nat /\ TerminatedLines(fed) \in Nat
  BY ProducedTyped, NewlinesAreFinite DEF Accounts, BytesTyped
<1>7. CASE pc' = "failed"
  BY <1>1, <1>2, <1>5, <1>7, RefusedOnce
<1>8. CASE pc' # "failed"
  <2>1. Cadence'
    <3>1. todo' # << >> => AtViewEnd(stream_pos + n)
      BY <1>1, <1>2, <1>8, TakenToViewEnd
    <3> QED BY <1>4, <3>1 DEF Cadence, AtViewEnd
  <2>2. CASE out.status = "line" /\ Pushed(out)
    <3>1. PICK e \in 0..Len(window) : LineAnswer(window, out, e, eof)
      BY <1>3, <2>2 DEF AnswerMeans, Refusals
    <3>2. Len(Produced') = count + 1
      <4>1. line_no = count
        BY <1>1 DEF LinesCut
      <4>2. line_no' = Len(Produced')
        BY <1>3, <1>8 DEF LinesCut
      <4>3. line_no' = line_no + 1
        BY <2>2 DEF Pushed
      <4> QED BY <4>1, <4>2, <4>3
    <3>3. \/ e < Len(window)
          \/ count + 1 <= TerminatedLines(fed)
          => /\ Len(RawLine(fed, count + 1)) > LineMax
                    => ~AtViewEnd(LineStop(fed, count + 1))
             /\ \E p \in Nat : /\ AtViewEnd(p) /\ p < HeldFrom'
                               /\ stream_pos' <= p + ViewBytes
      BY <1>2, <1>3, <3>1, LineIsNotAtViewEnd
    <3>4. Behind'
      <4> SUFFICES ASSUME Newlines(carry') # {}
                   PROVE  e < Len(window)
        BY <3>3 DEF Behind, AtViewEnd
      <4>1. e = Len(window) => out.carry = << >>
        BY <3>1 DEF LineAnswer
      <4>2. e # Len(window)
        BY <1>4, <4>1, NoneIsNewlineFree
      <4>3. Len(window) \in Nat
        BY <1>1, CallWindow
      <4> HIDE DEF window
      <4> QED BY <3>1, <4>2, <4>3
    <3>5. NoneAtViewEnd'
      <4> SUFFICES ASSUME NEW k \in 1..count + 1, k <= TerminatedLines(fed),
                          Len(RawLine(fed, k)) > LineMax
                   PROVE  ~AtViewEnd(LineStop(fed, k))
        BY <1>1, <3>2 DEF NoneAtViewEnd, AtViewEnd
      <4>1. CASE k \in 1..count
        BY <1>2, <4>1 DEF NoneAtViewEnd
      <4>2. CASE k = count + 1
        <5> HIDE DEF count, window
        <5> QED BY <3>3, <4>2
      <4> QED BY <1>6, <4>1, <4>2
    <3> QED BY <2>1, <3>4, <3>5, <1>1, <1>2, <1>8
  <2>3. CASE out.status # "line" /\ KeptAsCut
    <3>1. NoneAtViewEnd'
      <4>1. Produced' = Produced
        BY <2>3 DEF KeptAsCut, Produced
      <4> QED BY <1>1, <1>2, <4>1 DEF NoneAtViewEnd, AtViewEnd
    <3>2. Newlines(carry') = {}
      <4>1. out.status \notin Refusals
        BY <1>8, <2>3 DEF Call, CallFails, Refusals
      <4>2. CASE out.status = "need_more"
        <5>1. out.carry = window
          BY <1>3, <4>2 DEF AnswerMeans, Refusals
        <5>2. Newlines(window) = {}
          BY <1>1, <4>2, MoreMeansNoLine
        <5> HIDE DEF window
        <5> QED BY <1>4, <5>1, <5>2
      <4>3. CASE out.status = "complete"
        <5>1. out.carry = << >>
          BY <1>3, <4>3 DEF AnswerMeans, Refusals
        <5> QED BY <1>4, <5>1, NoneIsNewlineFree
      <4> HIDE DEF window
      <4> QED BY <1>3, <2>3, <4>1, <4>2, <4>3 DEF AnswerMeans
    <3> QED BY <2>1, <3>1, <3>2, <1>1, <1>2, <1>8 DEF Behind
  <2> QED BY <1>8, <2>2, <2>3 DEF Call, CallFails
<1> QED BY <1>7, <1>8

LEMMA InitFedOnce == Init => FedOnce
<1> SUFFICES ASSUME Init PROVE FedOnce
  OBVIOUS
<1>1. /\ fed = << >> /\ todo = << >> /\ carry = << >> /\ pc = "idle"
      /\ delivered = << >> /\ records = << >>
  BY DEF Init
<1>2. Len(Produced) = 0
  <2>1. Produced = << >>
    BY <1>1, ConcatEmptySeq, EmptySeq DEF Produced
  <2> QED BY <2>1
<1>3. Cadence /\ Behind /\ NoneAtViewEnd
  BY <1>1, <1>2, NoneIsNewlineFree DEF Cadence, Behind, NoneAtViewEnd
<1> QED BY <1>1, <1>3 DEF FedOnce

\* The first chunk begins at the start of the stream.
LEMMA FeedKeepsFedOnce ==
    ASSUME Assumptions, Accounts, LinesCut, FedOnce, NEW chunk, Feed(chunk)
    PROVE  FedOnce'
<1>1. /\ pc = "idle" /\ pc' = "view" /\ carry' = carry /\ stream_pos' = stream_pos
      /\ Produced' = Produced /\ HeldFrom' = HeldFrom
      /\ feeds' = IF feeds = "none" THEN "one" ELSE "many"
  BY DEF Feed, Ready, reader, Assumptions, Produced, HeldFrom
<1>2. CASE feeds = "none"
  <2>1. fed = << >> /\ Len(fed) = 0
    BY <1>2 DEF FedOnce
  <2>2. Cadence'
    <3>1. stream_pos \in Nat /\ todo \in Seq(Byte) /\ stream_pos + Len(todo) = Len(fed)
      BY <1>1 DEF Accounts, BytesTyped, BytesAccounted, Accounted
    <3>2. stream_pos = 0
      BY <2>1, <3>1
    <3>3. AtViewEnd(0)
      BY ReaderAssumption DEF AtViewEnd
    <3> QED BY <1>1, <3>2, <3>3 DEF Cadence, AtViewEnd
  <2>3. Behind'
    <3>1. Newlines(carry') = {}
      BY <1>1 DEF Accounts
    <3> QED BY <3>1 DEF Behind
  <2>4. NoneAtViewEnd'
    <3> SUFFICES ASSUME NEW k \in 1..Len(Produced) PROVE FALSE
      BY <1>1 DEF NoneAtViewEnd
    <3>1. IsLine(fed, Produced[k], k, FALSE)
      <4>1. IsLine(fed, Produced[k], k, pc \in {"flush", "finished", "failed"})
        BY DEF LinesCut
      <4> QED BY <1>1, <4>1 DEF IsLine
    <3>2. PICK e \in 0..Len(fed) : e < Len(fed)
      BY <3>1 DEF IsLine
    <3> QED BY <2>1, <3>2
  <2> QED BY <1>1, <1>2, <2>2, <2>3, <2>4 DEF FedOnce
<1>3. CASE feeds # "none"
  BY <1>1, <1>3 DEF FedOnce
<1> QED BY <1>2, <1>3

LEMMA OtherStepsKeepFedOnce ==
    ASSUME Assumptions, Accounts, FedOnce,
           FeedReturns \/ Finish \/ (DrainCarry /\ carry = << >>) \/ UNCHANGED vars
    PROVE  FedOnce'
<1>1. /\ fed' = fed /\ feeds' = feeds /\ todo' = todo /\ carry' = carry
      /\ stream_pos' = stream_pos /\ Produced' = Produced
      /\ pc' = "failed" <=> pc = "failed"
  <2>1. CASE FeedReturns
    <3>1. KeptAsCut
      BY <2>1, ReturnKeepsCuts DEF FeedReturns, reader, Accounts
    <3> QED BY <2>1, <3>1 DEF FeedReturns, Return, reader, KeptAsCut, Produced
  <2>2. CASE Finish
    BY <2>2 DEF Finish, Ready, Assumptions, reader, Produced
  <2>3. CASE DrainCarry /\ carry = << >>
    BY <2>3 DEF DrainCarry, reader, Produced
  <2>4. CASE UNCHANGED vars
    BY <2>4 DEF vars, reader, Produced
  <2> QED BY <2>1, <2>2, <2>3, <2>4
<1>2. HeldFrom' = HeldFrom
  BY <1>1 DEF HeldFrom
<1>3. /\ Cadence => Cadence'
      /\ Behind => Behind'
      /\ NoneAtViewEnd => NoneAtViewEnd'
  BY <1>1, <1>2 DEF Cadence, Behind, NoneAtViewEnd, AtViewEnd
<1>4. ~OneShotAccepts(fed) => ~OneShotAccepts(fed)'
  BY <1>1
<1> QED BY <1>1, <1>3, <1>4 DEF FedOnce

\* The calls of feed and of finish take what their Extent says.
LEMMA StepsHaveExtent ==
    /\ NextView => Extent(AtMost(Len(todo), ViewBytes)) /\ feeds' = feeds
    /\ DrainCarry => Extent(0) /\ feeds' = feeds
    /\ FlushTail => Extent(0) /\ feeds' = feeds
<1>1. ASSUME NEW out, NEW next, NEW rest, PushRecord(out, next, rest)
      PROVE  pc' # "failed" => todo' = rest
  BY <1>1 DEF PushRecord, Fail
<1>2. ASSUME NextView
      PROVE  Extent(AtMost(Len(todo), ViewBytes)) /\ feeds' = feeds
  <2>1. PICK out : \/ PushRecord(out, "drain", Unread)
                   \/ todo' = Unread
                   \/ Fail(out.status)
    BY <1>2 DEF NextView
  <2>2. pc' # "failed" => todo' = Unread
    BY <1>1, <2>1 DEF Fail
  <2>3. pc = "view" /\ todo # << >> /\ feeds' = feeds
    BY <1>2 DEF NextView
  <2> QED BY <2>2, <2>3 DEF Extent, Unread, AfterView
<1>3. ASSUME DrainCarry
      PROVE  Extent(0) /\ feeds' = feeds
  <2>1. PICK out : \/ PushRecord(out, "drain", todo)
                   \/ todo' = todo
                   \/ Fail(out.status)
    BY <1>3 DEF DrainCarry
  <2>2. pc' # "failed" => todo' = todo
    BY <1>1, <2>1 DEF Fail
  <2> QED BY <1>3, <2>2 DEF Extent, DrainCarry
<1>4. ASSUME FlushTail
      PROVE  Extent(0) /\ feeds' = feeds
  <2>1. PICK out : \/ PushRecord(out, "flush", todo)
                   \/ todo' = todo
                   \/ Fail(out.status)
    BY <1>4 DEF FlushTail
  <2>2. pc' # "failed" => todo' = todo
    BY <1>1, <2>1 DEF Fail
  <2> QED BY <1>4, <2>2 DEF Extent, FlushTail
<1> QED BY <1>2, <1>3, <1>4

LEMMA NextFedOnce ==
    Assumptions /\ LinesInv /\ FedOnce /\ [Next]_vars => FedOnce'
<1> SUFFICES ASSUME Assumptions, LinesInv, FedOnce, [Next]_vars PROVE FedOnce'
  OBVIOUS
<1>1. Accounts /\ LinesCut
  BY DEF LinesInv
<1>2. ASSUME NEW n \in Nat, NEW eof \in BOOLEAN, NEW out, Call(n, eof, out),
             Extent(n), feeds' = feeds
      PROVE  FedOnce'
  BY <1>1, <1>2, CallKeepsFedOnce
<1>3. ASSUME NEW chunk, Feed(chunk) PROVE FedOnce'
  BY <1>1, <1>3, FeedKeepsFedOnce
<1>4. CASE NextView
  BY <1>1, <1>2, <1>4, ViewIsACall, StepsHaveExtent
<1>5. CASE DrainCarry /\ carry # << >>
  BY <1>1, <1>2, <1>5, DrainIsACall, StepsHaveExtent
<1>6. CASE FlushTail
  BY <1>1, <1>2, <1>6, FlushIsACall, StepsHaveExtent
<1>7. CASE FeedReturns \/ Finish \/ (DrainCarry /\ carry = << >>) \/ UNCHANGED vars
  BY <1>1, <1>7, OtherStepsKeepFedOnce
<1> QED BY <1>3, <1>4, <1>5, <1>6, <1>7 DEF Next, HostStep

LEMMA FedOnceMeansVerdict ==
    ASSUME LinesInv, FedOnce
    PROVE  OneShotVerdict
<1> SUFFICES ASSUME feeds # "many"
             PROVE  /\ pc = "failed" => ~OneShotAccepts(fed)
                    /\ pc = "finished" => OneShotAccepts(fed)
  BY DEF OneShotVerdict
<1>1. pc = "failed" => ~OneShotAccepts(fed)
  BY DEF FedOnce
<1>2. ASSUME pc = "finished" PROVE OneShotAccepts(fed)
  <2>1. /\ Len(delivered) = LinesOfEnded(fed)
        /\ \A k \in 1..LinesOfEnded(fed) : AllowedLine(fed, k)
        /\ HasTail(fed) => fed[Len(fed)] # "cr"
    BY <1>2, LinesMeanEnded DEF EndedMeansAllDelivered
  <2>2. fed \in Seq(Byte) /\ delivered \in Seq(CutRecords) /\ records = << >>
    BY <1>2 DEF LinesInv, LinesCut, Accounts, BytesTyped, RecordsTyped
  <2>3. TerminatedLines(fed) \in Nat /\ Len(Produced) = LinesOfEnded(fed)
    <3>1. Produced = delivered
      BY <2>2, ConcatEmptySeq DEF Produced
    <3> QED BY <2>1, <2>2, <3>1, NewlinesAreFinite
  <2>4. TerminatedLines(fed) <= Len(Produced) /\ Len(Produced) \in Nat
    BY <2>3 DEF LinesOfEnded
  <2>5. NoneAtViewEnd
    BY <1>2 DEF FedOnce
  <2>6. ASSUME NEW k \in 1..TerminatedLines(fed), Len(RawLine(fed, k)) > LineMax
        PROVE  LineStop(fed, k) % ViewBytes # 0
    <3>1. k \in 1..Len(Produced) /\ k <= TerminatedLines(fed)
      BY <2>3, <2>4
    <3> QED BY <2>5, <2>6, <3>1 DEF NoneAtViewEnd, AtViewEnd
  <2> QED BY <2>1, <2>6 DEF OneShotAccepts
<1> QED BY <1>1, <1>2

\* One call of feed and one of finish accept exactly the streams whose lines
\* the format allows, but for a line too long by the CR that ends a view.
THEOREM CsvReaderOneShotVerdict ==
    ASSUME Assumptions
    PROVE  Spec => []OneShotVerdict
<1>1. LinesInv /\ FedOnce => OneShotVerdict
  BY FedOnceMeansVerdict
<1> QED BY <1>1, InitLines, NextLines, InitFedOnce, NextFedOnce, PTL DEF Spec

-----------------------------------------------------------------------------
(* The reader implements RecordStream. *)

Ranges == [begin : Nat, end : Nat]

LEMMA UnitsTyped ==
    ASSUME NEW rs \in Seq(CutRecords)
    PROVE  /\ UnitsOf(rs) \in Seq(Ranges) /\ Len(UnitsOf(rs)) = Len(rs)
           /\ \A k \in 1..Len(rs) :
                  UnitsOf(rs)[k] = [begin |-> rs[k].byte_start, end |-> rs[k].byte_end]
           /\ UnitsOf(rs) = << >> <=> rs = << >>
<1>1. Len(rs) \in Nat /\ \A k \in 1..Len(rs) : rs[k] \in CutRecords
  OBVIOUS
<1>2. \A k \in 1..Len(rs) :
          [begin |-> rs[k].byte_start, end |-> rs[k].byte_end] \in Ranges
  BY <1>1 DEF CutRecords, Ranges
<1>3. UnitsOf(rs) \in [1..Len(rs) -> Ranges]
  BY <1>2 DEF UnitsOf
<1>4. UnitsOf(rs) \in Seq(Ranges) /\ Len(UnitsOf(rs)) = Len(rs)
  BY <1>1, <1>3
<1>5. UnitsOf(rs) = << >> <=> rs = << >>
  BY <1>1, <1>4, EmptySeq
<1> QED BY <1>4, <1>5 DEF UnitsOf

LEMMA LastUnit ==
    ASSUME NEW rs \in Seq(CutRecords), rs # << >>
    PROVE  /\ UnitsOf(rs) # << >>
           /\ Stream!Last(UnitsOf(rs)).end = rs[Len(rs)].byte_end
<1> DEFINE units == UnitsOf(rs)
<1>1. Len(rs) \in 1..Len(rs)
  BY EmptySeq
<1>2. units # << >> /\ Len(units) = Len(rs)
      /\ units[Len(rs)] = [begin |-> rs[Len(rs)].byte_start,
                           end |-> rs[Len(rs)].byte_end]
  BY <1>1, UnitsTyped
<1> HIDE DEF units
<1>3. Stream!Last(units) = units[Len(units)]
  BY DEF Stream!Last
<1>4. Stream!Last(units).end = rs[Len(rs)].byte_end
  BY <1>2, <1>3
<1> QED BY <1>2, <1>4 DEF units

\* A line ends after its record, by one CR at most.
LEMMA RecordInLine ==
    ASSUME NEW s \in Seq(Byte), NEW k \in Nat \ {0}, NEW r, NEW e \in 0..Len(s),
           LineSpan(s, k, r.byte_start, e),
           r = RecordOf(Raw(s, r.byte_start, e), k, r.byte_start)
    PROVE  /\ r.byte_start \in 0..e /\ r.byte_end \in r.byte_start..e
           /\ e - r.byte_end \in 0..1
<1> DEFINE b == r.byte_start
           raw == Raw(s, b, e)
<1>1. b \in Nat /\ e \in Nat /\ b <= e /\ Len(s) \in Nat /\ e <= Len(s)
  BY DEF LineSpan, LineFrom, IsStart
<1>2. r.byte_end = b + Len(StripCR(raw))
  <2> HIDE DEF raw, b
  <2>1. r = RecordOf(raw, k, b)
    BY DEF raw, b
  <2> QED BY <2>1 DEF RecordOf, CsvRecord
<1> HIDE DEF b
<1>3. raw \in Seq(Byte) /\ Len(raw) = e - b
  <2> DEFINE m == b + 1
  <2>1. m \in 1..Len(s) + 1 /\ e \in (m - 1)..Len(s) /\ e - m + 1 = e - b
    BY <1>1
  <2> HIDE DEF m
  <2>2. SubSeq(s, m, e) \in Seq(Byte) /\ Len(SubSeq(s, m, e)) = e - b
    BY <2>1, PieceProperties
  <2> QED BY <2>2 DEF m, Raw
<1> HIDE DEF raw
<1>4. /\ Len(StripCR(raw)) \in Nat
      /\ Len(raw) - Len(StripCR(raw)) \in 0..1
  <2>1. CASE EndsWithCR(raw)
    <3>1. Len(raw) # 0
      BY <1>3, <2>1, EmptySeq DEF EndsWithCR
    <3>2. /\ 1 \in 1..Len(raw) + 1 /\ Len(raw) - 1 \in (1 - 1)..Len(raw)
          /\ (Len(raw) - 1) - 1 + 1 = Len(raw) - 1
      BY <1>3, <3>1
    <3>3. Len(SubSeq(raw, 1, Len(raw) - 1)) = Len(raw) - 1
      BY <1>3, <3>2, PieceProperties
    <3>4. Len(StripCR(raw)) = Len(raw) - 1
      BY <2>1, <3>3 DEF StripCR
    <3> QED BY <1>3, <3>1, <3>4
  <2>2. CASE ~EndsWithCR(raw)
    <3>1. StripCR(raw) = raw
      BY <2>2 DEF StripCR
    <3> QED BY <1>3, <3>1
  <2> QED BY <2>1, <2>2
<1>5. PICK size \in Nat : size = Len(StripCR(raw))
  BY <1>4
<1>6. r.byte_end = b + size /\ (e - b) - size \in 0..1
  BY <1>2, <1>3, <1>4, <1>5
<1> QED BY <1>1, <1>6 DEF b

\* The last record ends at most a terminator before what is held.
LEMMA GapIsATerminator ==
    ASSUME LinesInv, pc # "failed"
    PROVE  /\ Produced = << >> => AtLineStart /\ HeldFrom = 0
           /\ Produced # << >> =>
                  /\ AtLineStart => HeldFrom - Produced[Len(Produced)].byte_end \in 1..2
                  /\ AtTailEnd => HeldFrom - Produced[Len(Produced)].byte_end \in 0..2
<1>1. /\ fed \in Seq(Byte) /\ Produced \in Seq(CutRecords) /\ Len(Produced) \in Nat
      /\ AtLineStart \/ AtTailEnd
      /\ TerminatedLines(fed) \in Nat /\ Len(fed) \in Nat
  BY ProducedTyped, NewlinesAreFinite
     DEF LinesInv, Accounts, BytesTyped, LinesCut
<1>2. CASE Produced = << >>
  <2>1. Len(Produced) = 0
    BY <1>2
  <2>2. AtLineStart
    BY <1>1, <2>1 DEF AtTailEnd
  <2>3. LineBegin(fed, 0 + 1) = HeldFrom
    BY <1>1, <2>1, <2>2, StartIsLineBegin DEF AtLineStart
  <2>4. HeldFrom = 0
    BY <2>3 DEF LineBegin
  <2> QED BY <1>2, <2>2, <2>4
<1>3. CASE Produced # << >>
  <2> DEFINE k == Len(Produced)
             r == Produced[k]
  <2>1. k \in Nat \ {0} /\ k \in 1..Len(Produced)
    BY <1>1, <1>3, EmptySeq
  <2>2. PICK e \in 0..Len(fed) :
            /\ LineSpan(fed, k, r.byte_start, e)
            /\ r = RecordOf(Raw(fed, r.byte_start, e), k, r.byte_start)
    <3>1. IsLine(fed, Produced[k], k, pc \in {"flush", "finished", "failed"})
      BY <2>1 DEF LinesInv, LinesCut
    <3> QED BY <3>1 DEF IsLine
  <2> HIDE DEF k, r
  <2>3. /\ r.byte_start \in 0..e /\ r.byte_end \in r.byte_start..e
        /\ e - r.byte_end \in 0..1
    BY <1>1, <2>1, <2>2, RecordInLine
  <2>4. /\ e < Len(fed) => k <= TerminatedLines(fed)
        /\ e = Len(fed) => TerminatedLines(fed) = k - 1
    BY <1>1, <2>1, <2>2, SpanIsTheLine
  <2>5. CASE AtLineStart
    <3>1. /\ HeldFrom \in 0..Len(fed) /\ IsStart(fed, HeldFrom, k)
          /\ CountUpTo(fed, HeldFrom) = k
      BY <2>5 DEF AtLineStart, IsStart, k
    <3>2. k <= TerminatedLines(fed)
      <4>1. HeldFrom \in Int
        BY <3>1
      <4> QED BY <1>1, <3>1, <4>1, NewlinesAreFinite
    <3>3. e < Len(fed)
      BY <1>1, <2>1, <2>4, <3>2
    <3>4. IsStart(fed, e + 1, k)
      BY <1>1, <2>1, <2>2, <3>3, NextStart
    <3>5. HeldFrom = e + 1
      <4>1. LineBegin(fed, k + 1) = HeldFrom /\ LineBegin(fed, k + 1) = e + 1
        BY <1>1, <2>1, <3>1, <3>4, StartIsLineBegin
      <4> QED BY <4>1
    <3> QED BY <1>1, <1>3, <2>2, <2>3, <2>5, <3>5, <3>3, <3>2, <2>1
            DEF AtTailEnd, r, k
  <2>6. CASE AtTailEnd
    <3>1. HeldFrom = Len(fed) /\ k = TerminatedLines(fed) + 1
      BY <2>6 DEF AtTailEnd, k
    <3>2. e = Len(fed)
      BY <1>1, <2>1, <2>4, <3>1
    <3>3. HeldFrom - r.byte_end \in 0..2
      BY <1>1, <2>3, <3>1, <3>2
    <3>4. ~AtLineStart
      <4> SUFFICES ASSUME AtLineStart PROVE FALSE
        OBVIOUS
      <4>1. HeldFrom \in Int /\ CountUpTo(fed, HeldFrom) = k
        BY <1>1, <3>1 DEF AtLineStart, IsStart, k
      <4>2. CountUpTo(fed, HeldFrom) <= TerminatedLines(fed)
        BY <1>1, <4>1, NewlinesAreFinite
      <4> QED BY <1>1, <3>1, <4>1, <4>2
    <3> QED BY <1>3, <3>3, <3>4 DEF r, k
  <2> QED BY <1>1, <2>5, <2>6
<1> QED BY <1>2, <1>3

\* The end of the stream is reached once nothing is held.
LEMMA EndIsReached ==
    ASSUME LinesInv, pc # "failed", HeldFrom = Len(fed)
    PROVE  Stream!Reaches(UnitsOf(Produced), Len(fed))
<1>1. Produced \in Seq(CutRecords) /\ Len(Produced) \in Nat
  BY ProducedTyped DEF LinesInv, Accounts
<1>2. CASE Produced = << >>
  <2>1. UnitsOf(Produced) = << >> /\ Len(fed) = 0
    BY <1>1, <1>2, UnitsTyped, GapIsATerminator
  <2> QED BY <2>1 DEF Stream!Reaches
<1>3. CASE Produced # << >>
  <2>1. Len(fed) - Produced[Len(Produced)].byte_end \in 0..2
    <3>1. AtLineStart \/ AtTailEnd
      BY DEF LinesInv, LinesCut
    <3>2. HeldFrom - Produced[Len(Produced)].byte_end \in 1..2
             \/ HeldFrom - Produced[Len(Produced)].byte_end \in 0..2
      BY <1>3, <3>1, GapIsATerminator
    <3> QED BY <3>2
  <2>2. /\ UnitsOf(Produced) # << >>
        /\ Stream!Last(UnitsOf(Produced)).end = Produced[Len(Produced)].byte_end
    BY <1>1, <1>3, LastUnit
  <2> QED BY <2>1, <2>2 DEF Stream!Reaches
<1> QED BY <1>2, <1>3

\* A record that is pushed is a unit cut off the stream.
LEMMA PushIsACut ==
    ASSUME LinesInv, LinesCut', fed' = fed, pc \in {"view", "drain", "flush"},
           pc' \in {"drain", "flush"}, NEW new \in CutRecords,
           records' = Append(records, new), delivered' = delivered
    PROVE  Stream!Cut
<1> DEFINE count == Len(Produced)
           units == UnitsOf(Produced)
<1>1. /\ fed \in Seq(Byte) /\ Len(fed) \in Nat /\ RecordsTyped
      /\ Produced \in Seq(CutRecords) /\ count \in Nat
      /\ TerminatedLines(fed) \in Nat
  BY ProducedTyped, NewlinesAreFinite DEF LinesInv, Accounts, BytesTyped
<1>2. /\ Len(Produced') = count + 1 /\ Produced'[count + 1] = new
      /\ \A k \in 1..count : Produced'[k] = Produced[k]
  BY <1>1, PushedIsLast
<1>3. PICK e \in 0..Len(fed) :
          /\ LineSpan(fed, count + 1, new.byte_start, e)
          /\ new = RecordOf(Raw(fed, new.byte_start, e), count + 1, new.byte_start)
  <2>1. count + 1 \in 1..Len(Produced')
    BY <1>1, <1>2
  <2>2. IsLine(fed', Produced'[count + 1], count + 1,
               (pc \in {"flush", "finished", "failed"})')
    BY <2>1 DEF LinesCut
  <2> QED BY <1>2, <2>2 DEF IsLine
<1>4. count + 1 \in Nat \ {0} /\ (count + 1) - 1 = count
  BY <1>1
<1> HIDE DEF count
<1>5. /\ new.byte_start \in 0..Len(fed) /\ new.byte_end \in new.byte_start..Len(fed)
  <2>1. /\ new.byte_start \in 0..e /\ new.byte_end \in new.byte_start..e
    BY <1>1, <1>3, <1>4, RecordInLine
  <2>2. e \in Nat /\ e <= Len(fed)
    BY <1>1
  <2> QED BY <1>1, <2>1, <2>2
<1>6. AtLineStart /\ HeldFrom = new.byte_start
  <2>1. /\ LineBegin(fed, count + 1) = new.byte_start
        /\ count + 1 \in 1..LinesOfEnded(fed)
    BY <1>1, <1>3, <1>4, SpanIsTheLine
  <2>2. count + 1 <= TerminatedLines(fed) + 1
    BY <1>1, <1>4, <2>1 DEF LinesOfEnded
  <2>3. AtLineStart
    <3>1. AtLineStart \/ AtTailEnd
      BY DEF LinesInv, LinesCut
    <3> QED BY <1>1, <2>2, <3>1 DEF AtTailEnd, count
  <2>4. LineBegin(fed, count + 1) = HeldFrom
    BY <1>1, <2>3, StartIsLineBegin DEF AtLineStart, count
  <2> QED BY <2>1, <2>3, <2>4
<1>7. Stream!Follows(units, HeldFrom)
  <2>1. CASE Produced = << >>
    <3>1. units = << >> /\ HeldFrom = 0
      BY <1>1, <2>1, UnitsTyped, GapIsATerminator
    <3> QED BY <3>1 DEF Stream!Follows
  <2>2. CASE Produced # << >>
    <3>1. HeldFrom - Produced[Len(Produced)].byte_end \in 1..2
      BY <1>6, <2>2, GapIsATerminator
    <3>2. units # << >> /\ Stream!Last(units).end = Produced[Len(Produced)].byte_end
      BY <1>1, <2>2, LastUnit
    <3> QED BY <3>1, <3>2 DEF Stream!Follows
  <2> QED BY <2>1, <2>2
<1>8. UnitsOf(delivered' \o records')
        = Append(units, Stream!Unit(new.byte_start, new.byte_end))
  <2> DEFINE left == UnitsOf(Produced')
             right == Append(units, Stream!Unit(new.byte_start, new.byte_end))
  <2>1. Produced' \in Seq(CutRecords)
    <3>1. records' \in Seq(CutRecords) /\ delivered' \in Seq(CutRecords)
      BY <1>1, AppendProperties DEF RecordsTyped
    <3> QED BY <3>1, ConcatProperties DEF Produced
  <2>2. /\ left \in Seq(Ranges) /\ Len(left) = count + 1
        /\ \A k \in 1..count + 1 :
               left[k] = [begin |-> Produced'[k].byte_start,
                          end |-> Produced'[k].byte_end]
    BY <1>2, <2>1, UnitsTyped
  <2>3. /\ units \in Seq(Ranges) /\ Len(units) = count
        /\ \A k \in 1..count : units[k] = [begin |-> Produced[k].byte_start,
                                           end |-> Produced[k].byte_end]
    BY <1>1, UnitsTyped DEF count
  <2> HIDE DEF left, units
  <2>4. Stream!Unit(new.byte_start, new.byte_end) \in Ranges
    BY <1>1, <1>5 DEF Stream!Unit, Ranges
  <2>5. /\ right \in Seq(Ranges) /\ Len(right) = count + 1
        /\ \A k \in 1..count : right[k] = units[k]
        /\ right[count + 1] = Stream!Unit(new.byte_start, new.byte_end)
    BY <2>3, <2>4, AppendProperties
  <2> HIDE DEF right
  <2>6. ASSUME NEW k \in 1..Len(left) PROVE left[k] = right[k]
    <3>1. k \in 1..count + 1
      BY <2>2
    <3>2. CASE k \in 1..count
      BY <1>2, <2>2, <2>3, <2>5, <3>1, <3>2
    <3>3. CASE k = count + 1
      BY <1>2, <2>2, <2>5, <3>1, <3>3 DEF Stream!Unit
    <3> QED BY <1>1, <3>1, <3>2, <3>3 DEF count
  <2>7. Len(left) = Len(right)
    BY <2>2, <2>5
  <2>8. left = right
    BY <2>2, <2>5, <2>6, <2>7, SeqEqual
  <2> QED BY <2>8 DEF left, right, Produced
<1> HIDE DEF units
<1>9. /\ (IF pc = "finished" THEN "closed" ELSE IF pc = "failed" THEN "refused" ELSE "open") = "open"
      /\ (IF pc' = "finished" THEN "closed" ELSE IF pc' = "failed" THEN "refused" ELSE "open") = "open"
  OBVIOUS
<1> QED BY <1>5, <1>6, <1>7, <1>8, <1>9 DEF Stream!Cut, units, Produced

\* An error takes back the units the running call cut.
LEMMA FailureIsARefusal ==
    ASSUME RecordsTyped, pc \notin {"finished", "failed"}, pc' = "failed",
           fed' = fed, records' = << >>, delivered' = delivered
    PROVE  Stream!Refuse
<1> DEFINE all == UnitsOf(Produced)
           kept == UnitsOf(delivered)
<1>1. /\ delivered \in Seq(CutRecords) /\ records \in Seq(CutRecords)
      /\ Produced \in Seq(CutRecords)
  BY ProducedTyped DEF RecordsTyped
<1>2. delivered' \o records' = delivered
  BY <1>1, ConcatEmptySeq
<1>3. /\ Len(Produced) = Len(delivered) + Len(records)
      /\ \A k \in 1..Len(delivered) :
             k \in 1..Len(Produced) /\ Produced[k] = delivered[k]
  <2>1. /\ Len(Produced) = Len(delivered) + Len(records)
        /\ \A k \in 1..Len(delivered) + Len(records) :
               Produced[k] = IF k <= Len(delivered) THEN delivered[k]
                             ELSE records[k - Len(delivered)]
    BY <1>1, ConcatProperties DEF Produced
  <2>2. \A k \in 1..Len(delivered) :
            k \in 1..Len(delivered) + Len(records) /\ k <= Len(delivered)
    BY <1>1
  <2> QED BY <2>1, <2>2
<1>4. /\ all \in Seq(Ranges) /\ Len(all) = Len(Produced)
      /\ \A k \in 1..Len(Produced) : all[k] = [begin |-> Produced[k].byte_start,
                                               end |-> Produced[k].byte_end]
  BY <1>1, UnitsTyped
<1>5. /\ kept \in Seq(Ranges) /\ Len(kept) = Len(delivered)
      /\ \A k \in 1..Len(delivered) : kept[k] = [begin |-> delivered[k].byte_start,
                                                 end |-> delivered[k].byte_end]
  BY <1>1, UnitsTyped
<1> HIDE DEF all, kept
<1>6. Stream!IsPrefix(kept, all)
  <2> DEFINE n == Len(kept)
  <2>1. n \in Nat /\ n <= Len(all) /\ n = n - 1 + 1
    <3>1. Len(delivered) \in Nat /\ Len(records) \in Nat
      BY <1>1
    <3> QED BY <1>3, <1>4, <1>5, <3>1
  <2>2. \A i \in 1..n : kept[i] = all[1 + i - 1]
    <3> SUFFICES ASSUME NEW i \in 1..n PROVE kept[i] = all[1 + i - 1]
      OBVIOUS
    <3>1. 1 + i - 1 = i /\ i \in 1..Len(delivered)
      BY <1>5, <2>1
    <3>2. kept[i] = all[i]
      BY <1>3, <1>4, <1>5, <3>1
    <3> QED BY <3>1, <3>2
  <2>3. 1 \in 1..Len(all) + 1 /\ n \in (1 - 1)..Len(all) /\ Len(kept) = n - 1 + 1
    BY <1>4, <2>1
  <2>4. kept = SubSeq(all, 1, n)
    BY <1>4, <1>5, <2>2, <2>3, PieceIsUnique
  <2>5. kept = SubSeq(kept, 1, Len(kept))
    BY <1>5, SubSeqFull
  <2> HIDE DEF n
  <2>6. SubSeq(kept, 1, Len(kept)) = SubSeq(all, 1, Len(kept))
    BY <2>4, <2>5, Zenon DEF n
  <2> QED BY <2>1, <2>6, Zenon DEF Stream!IsPrefix, n
<1>7. UnitsOf(delivered' \o records') = kept /\ UnitsOf(delivered \o records) = all
  BY <1>2 DEF kept, all, Produced
<1> QED BY <1>6, <1>7 DEF Stream!Refuse

\* The abstract state as a step leaves it, when no unit is cut.
LEMMA SameUnits ==
    ASSUME Produced' = Produced
    PROVE  UnitsOf(delivered' \o records') = UnitsOf(delivered \o records)
BY DEF Produced, UnitsOf

LEMMA CallTiles ==
    ASSUME LinesInv, LinesInv', NEW n \in Nat, NEW eof \in BOOLEAN, NEW out,
           Call(n, eof, out)
    PROVE  [Stream!Next]_(Stream!vars)
<1>1. /\ pc \in {"view", "drain", "flush"} /\ fed' = fed /\ LinesCut'
      /\ RecordsTyped /\ RecordsTyped' /\ BytesTyped /\ Accounts /\ LinesCut
      /\ (eof <=> pc = "flush") /\ (eof => todo = << >>)
  BY DEF LinesInv, Accounts, Call
<1>2. /\ n \in 0..Len(todo) /\ out.consumed = n
      /\ AnswerMeans(carry \o SubSeq(todo, 1, n), out, eof)
  BY <1>1, CallKeepsLines DEF Call
<1>3. CASE /\ out.status = "line" /\ Pushed(out) /\ pc' \in {"drain", "flush"}
  <2>1. PICK new : records' = Append(records, new) /\ delivered' = delivered
    BY <1>3 DEF Pushed
  <2>2. new \in CutRecords
    <3>1. records \in Seq(CutRecords) /\ Append(records, new) \in Seq(CutRecords)
      BY <1>1, <2>1 DEF RecordsTyped
    <3>2. /\ Len(Append(records, new)) = Len(records) + 1
          /\ Append(records, new)[Len(records) + 1] = new
      BY <3>1
    <3>3. Len(records) + 1 \in 1..Len(Append(records, new))
      BY <3>1, <3>2
    <3> DEFINE more == Append(records, new)
    <3> HIDE DEF more
    <3>4. more[Len(records) + 1] \in CutRecords
      BY <3>1, <3>3 DEF more
    <3> QED BY <3>2, <3>4 DEF more
  <2> QED BY <1>1, <1>3, <2>1, <2>2, PushIsACut DEF Stream!Next
<1>4. CASE KeptAsCut /\ pc' \in {"view", "drain"}
  <2>1. UnitsOf(delivered' \o records') = UnitsOf(delivered \o records)
    BY <1>4, SameUnits DEF KeptAsCut, Produced
  <2> QED BY <1>1, <1>4, <2>1 DEF Stream!vars
<1>5. CASE out.status = "complete" /\ eof /\ KeptAsCut /\ pc' = "finished"
  <2>1. UnitsOf(delivered' \o records') = UnitsOf(delivered \o records)
    BY <1>5, SameUnits DEF KeptAsCut, Produced
  <2>2. HeldFrom = Len(fed)
    <3>1. todo = << >> /\ carry \o SubSeq(todo, 1, n) = << >>
      BY <1>1, <1>2, <1>5 DEF AnswerMeans, Refusals
    <3> DEFINE window == carry \o SubSeq(todo, 1, n)
    <3>2. HeldFrom \in Nat /\ HeldFrom + Len(window) = Len(fed)
      <4> HIDE DEF window
      <4>1. pc # "failed"
        BY <1>1
      <4> QED BY <1>1, <1>2, <3>1, <4>1, CallWindow DEF window
    <3> HIDE DEF window
    <3>3. Len(window) = 0
      BY <3>1 DEF window
    <3> QED BY <3>2, <3>3
  <2>3. Stream!Reaches(UnitsOf(delivered \o records), Len(fed))
    BY <1>1, <2>2, EndIsReached DEF Produced
  <2>4. Stream!Close
    BY <1>1, <1>5, <2>1, <2>3 DEF Stream!Close
  <2> QED BY <2>4 DEF Stream!Next
<1>6. CASE CallFails(out)
  <2>1. /\ pc' = "failed" /\ records' = << >> /\ delivered' = delivered
        /\ pc \notin {"finished", "failed"}
    BY <1>1, <1>6 DEF CallFails
  <2> QED BY <1>1, <2>1, FailureIsARefusal DEF Stream!Next
<1> QED BY <1>3, <1>4, <1>5, <1>6 DEF Call

\* A step of the reader is one of RecordStream, or none.
LEMMA NextTiles ==
    ASSUME Assumptions, LinesInv, LinesInv', [Next]_vars
    PROVE  [Stream!Next]_(Stream!vars)
<1>1. ASSUME NEW n \in Nat, NEW eof \in BOOLEAN, NEW out, Call(n, eof, out)
      PROVE  [Stream!Next]_(Stream!vars)
  BY <1>1, CallTiles
<1>2. Accounts /\ LinesCut /\ fed \in Seq(Byte) /\ fed' \in Seq(Byte) /\ RecordsTyped
  BY DEF LinesInv, Accounts, BytesTyped
<1>3. ASSUME NEW chunk \in Chunks, Feed(chunk)
      PROVE  [Stream!Next]_(Stream!vars)
  <2>1. /\ pc = "idle" /\ pc' = "view" /\ fed' = fed \o chunk
        /\ records' = records /\ delivered' = delivered
    BY <1>3 DEF Feed, Ready, Assumptions
  <2>2. chunk \in Seq(Byte)
    <3>1. PICK n \in 0..AtMost(MaxChunk, MaxInput - Len(fed)) :
              chunk \in [1..n -> Alphabet]
      BY DEF Chunks
    <3>2. \A i \in 1..n : chunk[i] \in Byte
      BY <3>1, ReaderAssumption
    <3>3. chunk \in [1..n -> Byte] /\ n \in Nat
      BY <3>1, <3>2
    <3> QED BY <3>3
  <2>3. Len(fed') \in Nat /\ Len(fed) <= Len(fed')
    <3>1. Len(fed \o chunk) = Len(fed) + Len(chunk)
      BY <1>2, <2>2, ConcatProperties
    <3>2. Len(fed) \in Nat /\ Len(chunk) \in Nat
      BY <1>2, <2>2
    <3> QED BY <2>1, <3>1, <3>2
  <2>4. UnitsOf(delivered' \o records') = UnitsOf(delivered \o records)
    BY <2>1, SameUnits DEF Produced
  <2>5. Stream!Arrive
    BY <2>1, <2>3, <2>4 DEF Stream!Arrive
  <2> QED BY <2>5 DEF Stream!Next
<1>4. ASSUME Produced' = Produced, fed' = fed, pc \notin {"finished", "failed"},
             pc' \notin {"finished", "failed"}
      PROVE  [Stream!Next]_(Stream!vars)
  <2>1. UnitsOf(delivered' \o records') = UnitsOf(delivered \o records)
    BY <1>4, SameUnits
  <2> QED BY <1>4, <2>1 DEF Stream!vars
<1>5. CASE NextView
  BY <1>1, <1>2, <1>5, ViewIsACall
<1>6. CASE DrainCarry /\ carry # << >>
  BY <1>1, <1>2, <1>6, DrainIsACall
<1>7. CASE FlushTail
  BY <1>1, <1>2, <1>7, FlushIsACall
<1>8. CASE FeedReturns
  <2>1. KeptAsCut
    BY <1>2, <1>8, ReturnKeepsCuts DEF FeedReturns, reader
  <2> QED BY <1>4, <1>8, <2>1 DEF FeedReturns, Return, KeptAsCut, Produced
<1>9. CASE Finish
  BY <1>4, <1>9 DEF Finish, Ready, Assumptions, Produced
<1>10. CASE DrainCarry /\ carry = << >>
  BY <1>4, <1>10 DEF DrainCarry, Produced
<1>11. CASE UNCHANGED vars
  <2>1. UnitsOf(delivered' \o records') = UnitsOf(delivered \o records)
    BY <1>11, SameUnits DEF vars, Produced
  <2> QED BY <1>11, <2>1 DEF vars, Stream!vars
<1> QED BY <1>3, <1>5, <1>6, <1>7, <1>8, <1>9, <1>10, <1>11 DEF Next, HostStep

\* The reader implements RecordStream: its records tile the stream in order,
\* but for one terminator after each, and it closes only at the end.
THEOREM CsvReaderTilesTheStream ==
    ASSUME Assumptions
    PROVE  Spec => TilesTheStream
<1>1. Init => Stream!Init
  <2> SUFFICES ASSUME Init PROVE Stream!Init
    OBVIOUS
  <2>1. /\ fed = << >> /\ delivered = << >> /\ records = << >> /\ pc = "idle"
    BY DEF Init
  <2>2. << >> \o << >> = << >> /\ << >> \in Seq(CutRecords)
    BY ConcatEmptySeq, EmptySeq
  <2>3. UnitsOf(delivered \o records) = << >> /\ Len(fed) = 0
    BY <2>1, <2>2, UnitsTyped
  <2> QED BY <2>1, <2>3 DEF Stream!Init
<1>2. LinesInv /\ LinesInv' /\ [Next]_vars => [Stream!Next]_(Stream!vars)
  BY NextTiles
<1> QED BY <1>1, <1>2, InitLines, NextLines, PTL
        DEF Spec, TilesTheStream, Stream!Spec
=============================================================================
