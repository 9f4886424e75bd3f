------------------------------ MODULE CsvProofs ------------------------------
(***************************************************************************)
(* NoByteLost of the CSV reader for every stream and every chunking, when  *)
(* a view is no longer than the carry and one byte more (in the code both  *)
(* are 256) and callers stop at the first error; and EveryStepShortens and *)
(* TypeOK, which need neither.                                             *)
(***************************************************************************)
EXTENDS CsvProperties, FieldProofs

Refusals == {"malformed", "overlong"}

\* A call the host makes: the carry is one unfinished line, or no view is
\* staged behind it.
Fits(held, view) ==
    \/ Newlines(held) = {} /\ Len(view) <= CarryCap + 1
    \/ view = << >>

\* What an answer cuts off the window: a line and its terminator, the tail of
\* the stream, or nothing.
Cuts(window, out, eof) ==
    /\ out.status = "line" =>
           /\ out.line \in Seq(Byte)
           /\ \/ Terminates(window, Len(out.line), Len(window) - Len(out.carry))
              \/ eof /\ out.carry = << >> /\ Len(out.line) = Len(window)
    /\ out.status \notin Refusals \cup {"line"} => Len(out.carry) = Len(window)

-----------------------------------------------------------------------------
(* The language. *)

LEMMA WindowTyped ==
    ASSUME NEW carry_ \in Seq(Byte), NEW view \in Seq(Byte)
    PROVE  /\ carry_ \o view \in Seq(Byte)
           /\ Len(carry_ \o view) = Len(carry_) + Len(view)
           /\ \A i \in 1..Len(carry_) : (carry_ \o view)[i] = carry_[i]
<1>1. \A i \in 1..Len(carry_) : i \in 1..Len(carry_) + Len(view)
  OBVIOUS
<1> QED BY <1>1, ConcatProperties

\* The first newline of a window that has one.
LEMMA FirstNewlineIsThere ==
    ASSUME NEW s \in Seq(Byte), Newlines(s) # {}
    PROVE  FirstNewline(s) \in Newlines(s)
<1>1. Newlines(s) \subseteq Nat
  BY DEF Newlines
<1>2. PICK i \in Newlines(s) :
          \A j \in Newlines(s) : <<j, i>> \notin OpToRel(<, Nat)
  BY <1>1, NatLessThanWellFounded, WFMin
<1>3. \A j \in Newlines(s) : ~(j < i)
  BY <1>1, <1>2, Zenon DEF OpToRel
<1>4. \A j \in Newlines(s) : i <= j
  BY <1>1, <1>3
<1> QED BY <1>2, <1>4 DEF FirstNewline

\* The line cut off is the window up to its newline, and to a CR before it.
LEMMA EmitCuts ==
    ASSUME NEW staged \in Seq(Byte), NEW at \in 1..Len(staged),
           staged[at] = "nl"
    PROVE  LET line == StripCR(SubSeq(staged, 1, at - 1))
           IN  line \in Seq(Byte) /\ Terminates(staged, Len(line), at)
<1> DEFINE raw == SubSeq(staged, 1, at - 1)
           line == StripCR(raw)
<1> SUFFICES line \in Seq(Byte) /\ Terminates(staged, Len(line), at)
  OBVIOUS
<1>1. Len(staged) \in Nat /\ at \in Nat
  OBVIOUS
<1>2. /\ raw \in Seq(Byte) /\ Len(raw) = at - 1
      /\ \A i \in 1..at - 1 : raw[i] = staged[i]
  <2>1. 1 \in 1..Len(staged) + 1 /\ at - 1 \in (1 - 1)..Len(staged)
    BY <1>1
  <2>2. /\ raw \in Seq(Byte) /\ Len(raw) = (at - 1) - 1 + 1
        /\ \A i \in 1..((at - 1) - 1 + 1) : raw[i] = staged[1 + i - 1]
    BY <2>1, PieceProperties
  <2> HIDE DEF raw
  <2> QED BY <1>1, <2>2
<1> HIDE DEF raw
<1>3. CASE EndsWithCR(raw)
  <2>1. Len(raw) >= 1 /\ raw[Len(raw)] = "cr"
    BY <1>2, <1>3 DEF EndsWithCR
  <2>2. line = SubSeq(raw, 1, Len(raw) - 1)
    BY <1>3 DEF StripCR
  <2> HIDE DEF line
  <2>3. line \in Seq(Byte) /\ Len(line) = at - 2
    <3>1. /\ 1 \in 1..Len(raw) + 1 /\ Len(raw) - 1 \in (1 - 1)..Len(raw)
          /\ (Len(raw) - 1) - 1 + 1 = at - 2
      BY <1>1, <1>2, <2>1
    <3> QED BY <1>2, <2>2, <3>1, PieceProperties
  <2>4. staged[at - 1] = "cr"
    <3>1. at - 1 \in 1..at - 1
      BY <1>1, <1>2, <2>1
    <3> QED BY <1>2, <2>1, <3>1
  <2>5. at - 2 + 1 = at - 1 /\ at - (at - 2) \in 1..2
    BY <1>1
  <2>6. Terminates(staged, Len(line), at)
    <3>1. Terminates(staged, at - 2, at)
      BY <2>4, <2>5 DEF Terminates
    <3> QED BY <2>3, <3>1
  <2> QED BY <2>3, <2>6
<1>4. CASE ~EndsWithCR(raw)
  <2>1. line = raw
    BY <1>4 DEF StripCR
  <2>2. at - (at - 1) \in 1..2 /\ at # at - 1 + 2
    BY <1>1
  <2>3. Terminates(staged, Len(line), at)
    <3>1. Terminates(staged, at - 1, at)
      BY <2>2 DEF Terminates
    <3>2. Len(line) = at - 1
      BY <1>2, <2>1
    <3> QED BY <3>1, <3>2
  <2>4. line \in Seq(Byte)
    BY <1>2, <2>1
  <2> QED BY <2>3, <2>4
<1> QED BY <1>3, <1>4

\* A line is cut off a window that fits: the view is covered whole, and what
\* is held is the end of the window.
LEMMA EmitAccounts ==
    ASSUME NEW carry_ \in Seq(Byte), NEW view \in Seq(Byte),
           Len(carry_) <= CarryCap, Fits(carry_, view),
           Newlines(carry_ \o view) # {}
    PROVE  LET staged == carry_ \o view
               at == FirstNewline(staged)
               held == SubSeq(staged, at + 1, at + Kept(staged, at, CarryCap))
           IN  /\ held \in Seq(Byte) /\ Len(held) <= CarryCap
               /\ Ends(held, staged)
               /\ Len(staged) - Len(held) = at
               /\ at \in 1..Len(staged) /\ staged[at] = "nl"
               /\ Consumed(carry_, view, at, CarryCap) = Len(view)
<1> DEFINE staged == carry_ \o view
           at == FirstNewline(staged)
           held == SubSeq(staged, at + 1, at + Kept(staged, at, CarryCap))
<1>1. /\ staged \in Seq(Byte) /\ Len(staged) = Len(carry_) + Len(view)
      /\ \A i \in 1..Len(carry_) : staged[i] = carry_[i]
      /\ Len(carry_) \in Nat /\ Len(view) \in Nat /\ CarryCap \in Nat
  BY WindowTyped, LinesAssumption
<1> HIDE DEF staged
<1>2. at \in Newlines(staged)
  BY <1>1, FirstNewlineIsThere DEF staged
<1> HIDE DEF at
<1>3. at \in 1..Len(staged) /\ staged[at] = "nl"
  BY <1>2 DEF Newlines
<1>4. Len(staged) - at <= CarryCap
  <2>1. CASE Newlines(carry_) = {} /\ Len(view) <= CarryCap + 1
    <3>1. ~(at <= Len(carry_))
      <4>1. SUFFICES ASSUME at <= Len(carry_) PROVE FALSE
        OBVIOUS
      <4>2. at \in 1..Len(carry_) /\ carry_[at] = "nl"
        BY <1>1, <1>3, <4>1
      <4> QED BY <2>1, <4>2 DEF Newlines
    <3> QED BY <1>1, <1>3, <2>1, <3>1
  <2>2. CASE view = << >>
    <3>1. Len(view) = 0
      BY <2>2
    <3> QED BY <1>1, <1>3, <3>1
  <2> QED BY <2>1, <2>2 DEF Fits
<1>5. /\ held \in Seq(Byte) /\ Len(held) = Len(staged) - at
      /\ Ends(held, staged)
  <2>1. at \in 0..Len(staged)
    BY <1>1, <1>3
  <2> QED BY <1>1, <1>4, <2>1, TailIsKept
<1>6. Consumed(carry_, view, at, CarryCap) = Len(view)
  <2>1. Kept(staged, at, CarryCap) = Len(staged) - at
    BY <1>1, <1>3, <1>4 DEF Kept, AtMost
  <2>2. at + (Len(staged) - at) - Len(carry_) = Len(view)
    BY <1>1, <1>3
  <2>3. Consumed(carry_, view, at, CarryCap)
          = AtMost(at + Kept(staged, at, CarryCap) - Len(carry_), Len(view))
    BY DEF Consumed, staged
  <2>4. AtMost(Len(view), Len(view)) = Len(view)
    BY DEF AtMost
  <2> QED BY <2>1, <2>2, <2>3, <2>4
<1>7. Len(held) <= CarryCap
  BY <1>4, <1>5
<1> HIDE DEF held
<1>9. Len(staged) - Len(held) = at
  <2>1. PICK whole \in Nat, part \in Nat : whole = Len(staged) /\ part = Len(held)
    BY <1>1, <1>5
  <2>2. at \in Nat /\ part = whole - at
    BY <1>3, <1>5, <2>1
  <2>3. whole - part = at
    BY <2>2
  <2> QED BY <2>1, <2>3
<1>8. /\ held \in Seq(Byte) /\ Len(held) <= CarryCap
      /\ Ends(held, staged) /\ Len(staged) - Len(held) = at
      /\ at \in 1..Len(staged) /\ staged[at] = "nl"
      /\ Consumed(carry_, view, at, CarryCap) = Len(view)
  BY <1>3, <1>5, <1>6, <1>7, <1>9
<1> QED BY <1>8 DEF held, at, staged

\* Every answer covers its view; unless it refuses, what it holds is the end
\* of the window; and asked for more, it holds no newline.
LEMMA AnswerAccounts ==
    ASSUME NEW carry_ \in Seq(Byte), NEW view \in Seq(Byte), NEW eof \in BOOLEAN,
           Len(carry_) <= CarryCap, Fits(carry_, view)
    PROVE  LET out == NextLine(carry_, view, eof)
           IN  /\ out.carry \in Seq(Byte) /\ Len(out.carry) <= CarryCap
               /\ out.consumed = Len(view)
               /\ out.status \notin Refusals =>
                      Ends(out.carry, carry_ \o view)
               /\ out.status = "need_more" => Newlines(out.carry) = {}
               /\ Cuts(carry_ \o view, out, eof)
<1> DEFINE staged == carry_ \o view
           out == NextLine(carry_, view, eof)
           Goal == /\ out.carry \in Seq(Byte) /\ Len(out.carry) <= CarryCap
                   /\ out.consumed = Len(view)
                   /\ out.status \notin Refusals => Ends(out.carry, staged)
                   /\ out.status = "need_more" => Newlines(out.carry) = {}
                   /\ Cuts(staged, out, eof)
<1> SUFFICES Goal
  OBVIOUS
<1>1. /\ staged \in Seq(Byte) /\ Len(staged) \in Nat
      /\ LineMax \in Nat /\ CarryCap \in Nat /\ LineMax <= CarryCap
  BY WindowTyped, LinesAssumption
<1>2. Ends(staged, staged) /\ Ends(<< >>, staged)
  BY <1>1, WholeAndNoneEnd
<1>3. << >> \in Seq(Byte) /\ Len(<< >>) = 0
  BY EmptySeq
<1>4. ASSUME NEW code \in Refusals, out = FailLine(code, view) PROVE Goal
  <2>1. /\ out.status \in Refusals /\ out.carry = << >>
        /\ out.consumed = Len(view)
    BY <1>4 DEF FailLine, LineOut
  <2>2. out.status # "need_more"
    BY <2>1 DEF Refusals
  <2> HIDE DEF out
  <2>3. Cuts(staged, out, eof)
    BY <2>1 DEF Cuts, Refusals
  <2> QED BY <1>1, <1>3, <2>1, <2>2, <2>3
<1>5. ASSUME NEW code \in {"line", "complete"}, NEW line,
             out = LineOut(code, line, << >>, Len(view)),
             code = "line" => eof /\ line = staged,
             code = "complete" => staged = << >>
      PROVE  Goal
  <2>1. /\ out.status \in {"line", "complete"} /\ out.carry = << >>
        /\ out.consumed = Len(view)
    BY <1>5 DEF LineOut
  <2>2. out.status # "need_more"
    BY <2>1
  <2>3. Cuts(staged, out, eof)
    <3>1. out.status = code /\ out.line = line
      BY <1>5 DEF LineOut
    <3> HIDE DEF out
    <3>2. CASE code = "line"
      BY <1>1, <1>5, <2>1, <3>1, <3>2 DEF Cuts, Refusals
    <3>3. CASE code = "complete"
      BY <1>5, <2>1, <3>1, <3>3 DEF Cuts
    <3> QED BY <3>2, <3>3
  <2> HIDE DEF out, staged
  <2> QED BY <1>1, <1>2, <1>3, <2>1, <2>2, <2>3
<1>6. CASE HasControl(staged)
  <2>1. out = FailLine("malformed", view)
    BY <1>6 DEF NextLine
  <2> QED BY <1>4, <2>1 DEF Refusals
<1>7. CASE ~HasControl(staged) /\ Newlines(staged) # {}
  <2> DEFINE at == FirstNewline(staged)
             raw == SubSeq(staged, 1, at - 1)
             held == SubSeq(staged, at + 1, at + Kept(staged, at, CarryCap))
  <2>1. out = EmitLine(carry_, view)
    BY <1>7 DEF NextLine
  <2>2. CASE ~IsClean(raw)
    <3>1. out = FailLine("malformed", view)
      BY <2>1, <2>2 DEF EmitLine
    <3> QED BY <1>4, <3>1 DEF Refusals
  <2>3. CASE IsClean(raw) /\ Len(StripCR(raw)) > LineMax
    <3>1. out = FailLine("overlong", view)
      BY <2>1, <2>3 DEF EmitLine
    <3> QED BY <1>4, <3>1 DEF Refusals
  <2>4. CASE IsClean(raw) /\ ~(Len(StripCR(raw)) > LineMax)
    <3>1. out = LineOut("line", StripCR(raw), held,
                        Consumed(carry_, view, at, CarryCap))
      BY <2>1, <2>4 DEF EmitLine
    <3>2. /\ held \in Seq(Byte) /\ Len(held) <= CarryCap
          /\ Ends(held, staged) /\ Len(staged) - Len(held) = at
          /\ at \in 1..Len(staged) /\ staged[at] = "nl"
          /\ Consumed(carry_, view, at, CarryCap) = Len(view)
      BY <1>7, EmitAccounts
    <3> HIDE DEF held, at, staged
    <3>5. StripCR(raw) \in Seq(Byte) /\ Terminates(staged, Len(StripCR(raw)), at)
      BY <1>1, <3>2, EmitCuts
    <3> HIDE DEF raw
    <3>3. /\ out.status = "line" /\ out.carry = held /\ out.line = StripCR(raw)
          /\ out.consumed = Consumed(carry_, view, at, CarryCap)
      BY <3>1 DEF LineOut
    <3>4. out.status # "need_more"
      BY <3>3
    <3> HIDE DEF out
    <3>6. Cuts(staged, out, eof)
      BY <3>2, <3>3, <3>5 DEF Cuts
    <3> QED BY <3>2, <3>3, <3>4, <3>6
  <2> QED BY <2>2, <2>3, <2>4
<1>8. CASE ~HasControl(staged) /\ Newlines(staged) = {} /\ eof
  <2>1. out = EmitTail(carry_, view)
    BY <1>8 DEF NextLine
  <2>2. \/ out = LineOut("complete", << >>, << >>, Len(view)) /\ staged = << >>
        \/ out = LineOut("line", staged, << >>, Len(view))
        \/ out = FailLine("overlong", view)
        \/ out = FailLine("malformed", view)
    BY <2>1 DEF EmitTail
  <2> HIDE DEF out, Goal
  <2>3. out = LineOut("complete", << >>, << >>, Len(view)) /\ staged = << >>
            => Goal
    BY <1>5
  <2>4. out = LineOut("line", staged, << >>, Len(view)) => Goal
    BY <1>5, <1>8
  <2> QED BY <1>4, <2>2, <2>3, <2>4 DEF Refusals
<1>9. CASE ~HasControl(staged) /\ Newlines(staged) = {} /\ ~eof
  <2>1. out = Hold(carry_, view)
    BY <1>9 DEF NextLine
  <2>2. CASE Len(staged) > LineMax
    <3>1. out = FailLine("overlong", view)
      BY <2>1, <2>2 DEF Hold
    <3> QED BY <1>4, <3>1 DEF Refusals
  <2>3. CASE ~(Len(staged) > LineMax)
    <3>1. out = LineOut("need_more", << >>, staged, Len(view))
      BY <2>1, <2>3 DEF Hold
    <3>2. /\ out.carry = staged /\ out.consumed = Len(view)
          /\ out.status = "need_more"
      BY <3>1 DEF LineOut
    <3>3. Len(staged) <= CarryCap
      BY <1>1, <2>3
    <3> HIDE DEF out, staged
    <3>4. Cuts(staged, out, eof)
      BY <3>2 DEF Cuts
    <3> QED BY <1>1, <1>2, <1>9, <3>2, <3>3, <3>4
  <2> QED BY <2>2, <2>3
<1> QED BY <1>6, <1>7, <1>8, <1>9

-----------------------------------------------------------------------------
(* The host. *)

\* Callers stop at the first error, and views fit the carry.
Assumptions == Reuse = FALSE /\ ViewBytes <= CarryCap + 1

\* The types the accounting rests on; records and their fields are not its
\* concern.
BytesTyped ==
    /\ fed \in Seq(Byte) /\ todo \in Seq(Byte)
    /\ carry \in Seq(Byte) /\ Len(carry) <= CarryCap
    /\ stream_pos \in Nat

CutRecords == [fields : {ParseFields(line).fields : line \in Seq(Byte)},
               line_no : Nat, byte_start : Nat, byte_end : Nat]

RecordsTyped ==
    /\ line_no \in Nat
    /\ records \in Seq(CutRecords) /\ delivered \in Seq(CutRecords)

\* The invariant: between calls and views the carry is one unfinished line.
Accounts ==
    /\ BytesTyped
    /\ RecordsTyped
    /\ BytesAccounted
    /\ CarryFollowsRecords
    /\ pc \in {"idle", "view"} => Newlines(carry) = {}
    /\ pc \notin {"view", "drain"} => todo = << >>

LEMMA NoneIsNewlineFree == Newlines(<< >>) = {}
BY DEF Newlines

LEMMA InitAccounts == Init => Accounts
<1> SUFFICES ASSUME Init PROVE Accounts
  OBVIOUS
<1>1. /\ fed = << >> /\ stream_pos = 0 /\ carry = << >> /\ todo = << >>
      /\ pc = "idle" /\ CarryCap \in Nat
  BY LinesAssumption DEF Init
<1>2. Accounted(<< >>, << >>, 0, << >>)
  <2>1. SubSeq(<< >>, 1, 0) = << >> /\ Len(<< >>) = 0
    BY EmptySeq, SubSeqEmpty
  <2> QED BY <2>1 DEF Accounted
<1>3. << >> \in Seq(Byte) /\ Len(<< >>) = 0
  BY EmptySeq
<1>4. BytesTyped
  BY <1>1, <1>3 DEF BytesTyped
<1>5. BytesAccounted
  BY <1>1, <1>2 DEF BytesAccounted
<1>6. RecordsTyped
  BY EmptySeq DEF Init, RecordsTyped
<1>7. CarryFollowsRecords
  <2>1. delivered \o records = << >>
    BY ConcatEmptySeq, EmptySeq DEF Init
  <2>2. CutEnd(delivered \o records) = 0
    BY <2>1 DEF CutEnd
  <2>3. stream_pos - Len(carry) = 0
    <3>1. Len(carry) = 0 /\ stream_pos = 0
      BY <1>1
    <3> QED BY <3>1
  <2> QED BY <2>1, <2>2, <2>3 DEF CarryFollowsRecords, CutUpTo
<1> QED BY <1>1, <1>4, <1>5, <1>6, <1>7, NoneIsNewlineFree DEF Accounts

-----------------------------------------------------------------------------
(* The host: one answer. *)

\* The answer becomes a record.
Pushed(out) ==
    /\ line_no' = line_no + 1
    /\ records' = Append(records,
           CsvRecord(ParseFields(out.line).fields, line_no + 1,
                     UnitStart(stream_pos, out.consumed, Len(carry)), out.line))
    /\ delivered' = delivered

\* Or it adds nothing to what is cut.
KeptAsCut ==
    /\ RecordsTyped'
    /\ (delivered \o records)' = delivered \o records

RecordsMove(out) ==
    \/ out.status = "line" /\ Pushed(out)
    \/ out.status # "line" /\ KeptAsCut

\* The call goes on or ends well; at the end of input it is finish that does.
GoesOn(out, eof) ==
    /\ out.status \notin Refusals
    /\ Absorb(out) /\ RecordsMove(out) /\ fed' = fed
    /\ eof \/ pc \in {"flush", "finished"} => pc' \in {"flush", "finished"}

\* Or it fails, and leaves nothing to be read.
CallFails(out) ==
    /\ Absorb(out) /\ fed' = fed
    /\ pc' = "failed" /\ todo' = << >> /\ records' = << >>
    /\ UNCHANGED <<delivered, line_no>>

\* A record is pushed and the call goes on, or the call fails.
LEMMA PushOrFail ==
    ASSUME NEW out, NEW next, NEW rest, PushRecord(out, next, rest),
           delivered' = delivered
    PROVE  \/ pc' = next /\ todo' = rest /\ Pushed(out)
           \/ /\ pc' = "failed" /\ todo' = << >> /\ records' = << >>
              /\ line_no' = line_no
BY DEF PushRecord, Fail, Pushed

\* A failure is not accounted for.
LEMMA FailureKeepsAccounts ==
    ASSUME Accounts, NEW out, CallFails(out), out.carry \in Seq(Byte),
           Len(out.carry) <= CarryCap, out.consumed \in Nat
    PROVE  Accounts'
<1>1. BytesTyped'
  BY EmptySeq DEF Accounts, BytesTyped, CallFails, Absorb
<1>2. RecordsTyped'
  BY EmptySeq DEF Accounts, RecordsTyped, CallFails
<1> QED BY <1>1, <1>2 DEF Accounts, BytesAccounted, CarryFollowsRecords, CallFails

\* The record pushed for a line ends that far from where the carry began.
LEMMA PushedEnds ==
    ASSUME NEW out, BytesTyped, RecordsTyped, Len(carry) <= stream_pos,
           Pushed(out), out.consumed \in Nat, out.line \in Seq(Byte)
    PROVE  /\ RecordsTyped' /\ (delivered \o records)' # << >>
           /\ CutEnd(delivered \o records)'
                = (stream_pos - Len(carry)) + Len(out.line)
<1> DEFINE start == UnitStart(stream_pos, out.consumed, Len(carry))
           new == CsvRecord(ParseFields(out.line).fields, line_no + 1, start,
                            out.line)
<1>1. /\ stream_pos \in Nat /\ Len(carry) \in Nat /\ Len(out.line) \in Nat
      /\ line_no \in Nat
      /\ records \in Seq(CutRecords) /\ delivered \in Seq(CutRecords)
  BY DEF BytesTyped, RecordsTyped
<1>2. start = stream_pos - Len(carry) /\ start \in Nat
  BY <1>1, UnitStartsAtCarry
<1>3. /\ line_no' = line_no + 1 /\ records' = Append(records, new)
      /\ delivered' = delivered
  BY DEF Pushed
<1> HIDE DEF start
<1>4. new \in CutRecords /\ new.byte_end = start + Len(out.line)
  BY <1>1, <1>2 DEF CsvRecord, CutRecords
<1> HIDE DEF new
<1>5. Append(records, new) \in Seq(CutRecords)
  BY <1>1, <1>4, AppendProperties
<1>6. RecordsTyped'
  BY <1>1, <1>3, <1>5 DEF RecordsTyped
<1>7. /\ CutEnd(delivered \o Append(records, new)) = new.byte_end
      /\ delivered \o Append(records, new) # << >>
  BY <1>1, <1>4, LastCut
<1>8. (delivered \o records)' = delivered \o Append(records, new)
  BY <1>3
<1>9. CutEnd(delivered \o records)' = CutEnd(delivered \o Append(records, new))
  BY <1>8 DEF CutEnd
<1> QED BY <1>2, <1>4, <1>6, <1>7, <1>8, <1>9

\* A terminator of a window in the stream is one of the stream.
LEMMA TerminatorMoves ==
    ASSUME NEW stream, NEW window, NEW start \in Nat, NEW size \in Nat,
           \A i \in 1..size : window[i] = stream[start + i],
           NEW b \in Nat, NEW e \in 1..size, Terminates(window, b, e)
    PROVE  Terminates(stream, start + b, start + e)
<1>1. e - b \in 1..2 /\ window[e] = "nl" /\ (e = b + 2 => window[b + 1] = "cr")
  BY DEF Terminates
<1>2. stream[start + e] = "nl" /\ (start + e) - (start + b) \in 1..2
  BY <1>1
<1>3. ASSUME start + e = (start + b) + 2 PROVE stream[(start + b) + 1] = "cr"
  <2>1. b + 1 \in 1..size /\ e = b + 2 /\ start + (b + 1) = (start + b) + 1
    BY <1>1, <1>3
  <2> QED BY <1>1, <2>1
<1> QED BY <1>2, <1>3 DEF Terminates

\* More stream does not move a terminator.
LEMMA TerminatorStays ==
    ASSUME NEW s \in Seq(Byte), NEW chunk \in Seq(Byte),
           NEW b \in Nat, NEW e \in Nat, e <= Len(s), Terminates(s, b, e)
    PROVE  Terminates(s \o chunk, b, e)
<1>1. PICK size \in Nat : size = Len(s)
  OBVIOUS
<1>2. \A i \in 1..size : s[i] = (s \o chunk)[0 + i]
  <2> TAKE i \in 1..size
  <2>1. i \in 1..Len(s) + Len(chunk) /\ i <= Len(s) /\ 0 + i = i
    BY <1>1
  <2> QED BY <2>1, ConcatProperties
<1>3. e \in 1..size
  <2>1. e - b \in 1..2
    BY DEF Terminates
  <2> QED BY <1>1, <2>1
<1>4. Terminates(s \o chunk, 0 + b, 0 + e)
  BY <1>2, <1>3, TerminatorMoves
<1>5. 0 + b = b /\ 0 + e = e
  OBVIOUS
<1> QED BY <1>4, <1>5

LEMMA CutEndTyped ==
    ASSUME RecordsTyped
    PROVE  CutEnd(delivered \o records) \in Nat
<1> DEFINE all == delivered \o records
<1>1. all \in Seq(CutRecords)
  BY ConcatProperties DEF RecordsTyped
<1> HIDE DEF all
<1>2. ASSUME all # << >> PROVE all[Len(all)].byte_end \in Nat
  <2>1. Len(all) \in 1..Len(all)
    BY <1>1, <1>2
  <2>2. all[Len(all)] \in CutRecords
    BY <1>1, <2>1
  <2> QED BY <2>2 DEF CutRecords
<1>3. CutEnd(all) \in Nat
  BY <1>2 DEF CutEnd
<1> QED BY <1>3 DEF all

\* A call that goes on cuts the window where its record says.
LEMMA CarryFollows ==
    ASSUME Accounts, pc # "failed", NEW n \in 0..Len(todo), NEW eof \in BOOLEAN,
           NEW out, GoesOn(out, eof), pc' # "failed", out.consumed = n,
           out.carry \in Seq(Byte),
           Cuts(carry \o SubSeq(todo, 1, n), out, eof)
    PROVE  RecordsTyped' /\ CarryFollowsRecords'
<1> DEFINE window == carry \o SubSeq(todo, 1, n)
           start == stream_pos - Len(carry)
           at == Len(window) - Len(out.carry)
<1>1. /\ BytesTyped /\ RecordsTyped /\ fed \in Seq(Byte) /\ carry \in Seq(Byte)
      /\ todo \in Seq(Byte) /\ stream_pos \in Nat
      /\ Accounted(fed, carry, stream_pos, todo)
      /\ CutUpTo(delivered \o records, start)
  BY DEF Accounts, BytesTyped, BytesAccounted, CarryFollowsRecords
<1>2. Len(carry) \in Nat /\ n \in Nat /\ Len(carry) <= stream_pos
      /\ Len(out.carry) \in Nat /\ start \in Nat
  BY <1>1 DEF Accounted
<1>3. /\ window \in Seq(Byte) /\ Len(window) = Len(carry) + n
      /\ \A i \in 1..Len(carry) + n : window[i] = fed[start + i]
  BY <1>1, WindowBytes
<1>4. PICK before \in Nat : before = start
  BY <1>2
<1> HIDE DEF window, start
<1>5. ASSUME NEW cut \in Nat, at = cut
      PROVE  stream_pos' - Len(carry') = before + cut
  <2>1. PICK held \in Nat, after \in Nat :
            held = Len(carry) /\ after = Len(out.carry)
    BY <1>2
  <2>2. stream_pos' = stream_pos + n /\ Len(carry') = after
    BY <2>1 DEF GoesOn, Absorb
  <2>3. cut = held + n - after /\ before = stream_pos - held
    BY <1>3, <1>4, <1>5, <2>1 DEF start
  <2>4. stream_pos \in Nat /\ n \in Nat
    BY <1>1, <1>2
  <2>5. (stream_pos + n) - after = before + cut
    BY <2>3, <2>4
  <2> QED BY <2>2, <2>5
<1>6. CASE out.status # "line" /\ KeptAsCut
  <2>1. Len(out.carry) = Len(window)
    BY <1>6 DEF GoesOn, Cuts, window
  <2>2. at = 0
    BY <1>2, <1>3, <2>1
  <2>3. stream_pos' - Len(carry') = before
    <3>1. before + 0 = before
      OBVIOUS
    <3> HIDE DEF at
    <3>2. stream_pos' - Len(carry') = before + 0
      BY <1>5, <2>2
    <3> QED BY <3>1, <3>2
  <2>4. CutEnd(delivered \o records)' = CutEnd(delivered \o records)
    BY <1>6 DEF KeptAsCut, CutEnd
  <2>5. fed' = fed /\ (pc \in {"flush", "finished"} => pc' \in {"flush", "finished"})
    BY DEF GoesOn
  <2>6. CutUpTo(delivered \o records, before)'
    BY <1>1, <1>4, <1>6, <2>4, <2>5 DEF KeptAsCut, CutUpTo, Terminates
  <2> QED BY <1>6, <2>3, <2>6 DEF KeptAsCut, CarryFollowsRecords
<1>7. CASE out.status = "line" /\ Pushed(out)
  <2>1. /\ out.line \in Seq(Byte)
        /\ \/ Terminates(window, Len(out.line), at)
           \/ eof /\ out.carry = << >> /\ Len(out.line) = Len(window)
    BY <1>7 DEF Cuts, window
  <2>2. PICK length \in Nat, size \in Nat :
            length = Len(out.line) /\ size = Len(window)
    BY <1>3, <2>1
  <2>3. /\ RecordsTyped' /\ (delivered \o records)' # << >>
        /\ CutEnd(delivered \o records)' = before + length
    BY <1>1, <1>2, <1>4, <1>7, <2>1, <2>2, PushedEnds DEF start
  <2>4. fed' = fed
    BY DEF GoesOn
  <2>5. CASE Terminates(window, length, at)
    <3>1. PICK cut \in Nat : cut = at
      <4>1. at - length \in 1..2
        BY <2>5 DEF Terminates
      <4> HIDE DEF at
      <4>2. at \in Int
        BY <1>2, <1>3, <2>2 DEF at
      <4> QED BY <4>1, <4>2
    <3>2. cut \in 1..size
      <4>1. PICK after \in Nat : after = Len(out.carry)
        BY <1>2
      <4>2. cut = size - after
        BY <2>2, <3>1, <4>1
      <4>3. cut - length \in 1..2
        BY <2>5, <3>1 DEF Terminates
      <4> QED BY <4>2, <4>3
    <3>3. \A i \in 1..size : window[i] = fed[before + i]
      BY <1>3, <1>4, <2>2
    <3>4. Terminates(fed, before + length, before + cut)
      BY <2>5, <3>1, <3>2, <3>3, TerminatorMoves
    <3>5. CutUpTo(delivered \o records, before + cut)'
      BY <2>3, <2>4, <3>4 DEF CutUpTo, Terminates
    <3> QED BY <1>5, <2>3, <3>1, <3>5 DEF CarryFollowsRecords
  <2>6. CASE eof /\ out.carry = << >> /\ length = size
    <3>1. at = size
      BY <1>3, <2>2, <2>6
    <3>2. CutUpTo(delivered \o records, before + size)'
      BY <2>3, <2>6 DEF CutUpTo, GoesOn
    <3> QED BY <1>5, <2>2, <2>3, <3>1, <3>2 DEF CarryFollowsRecords
  <2> QED BY <2>1, <2>2, <2>5, <2>6
<1> QED BY <1>6, <1>7 DEF GoesOn, RecordsMove

\* What a call returns was cut before.
LEMMA ReturnKeepsCuts ==
    ASSUME RecordsTyped, line_no' = line_no, NEW next, Return(next)
    PROVE  KeptAsCut
<1>1. /\ records \in Seq(CutRecords) /\ delivered \in Seq(CutRecords)
      /\ line_no \in Nat
  BY DEF RecordsTyped
<1>2. delivered \o records \in Seq(CutRecords)
  BY <1>1, ConcatProperties
<1>3. (delivered \o records) \o << >> = delivered \o records
  BY <1>2, ConcatEmptySeq
<1>4. << >> \in Seq(CutRecords)
  BY EmptySeq
<1> QED BY <1>1, <1>2, <1>3, <1>4 DEF Return, KeptAsCut, RecordsTyped

-----------------------------------------------------------------------------
(* The host: its steps. *)

\* A view of the running chunk.
LEMMA ViewTyped ==
    ASSUME BytesTyped
    PROVE  /\ View \in Seq(Byte) /\ Unread \in Seq(Byte)
           /\ \E n \in 0..Len(todo) :
                  /\ n <= ViewBytes
                  /\ View = SubSeq(todo, 1, n) /\ Len(View) = n
                  /\ Unread = SubSeq(todo, n + 1, Len(todo))
<1>1. todo \in Seq(Byte) /\ ViewBytes \in Nat
  BY ReaderAssumption DEF BytesTyped
<1>2. PICK n \in 0..Len(todo) :
             /\ n <= ViewBytes
             /\ View = SubSeq(todo, 1, n)
             /\ Unread = SubSeq(todo, n + 1, Len(todo))
  BY <1>1, ViewSplits DEF View, Unread
<1>3. View \in Seq(Byte) /\ Len(View) = n
  <2>1. 1 \in 1..Len(todo) + 1 /\ n \in (1 - 1)..Len(todo) /\ n - 1 + 1 = n
    BY <1>1
  <2> QED BY <1>1, <1>2, <2>1, PieceProperties
<1>4. Unread \in Seq(Byte)
  <2>1. n + 1 \in 1..Len(todo) + 1 /\ Len(todo) \in (n + 1 - 1)..Len(todo)
    BY <1>1
  <2> QED BY <1>1, <1>2, <2>1, PieceProperties
<1> QED BY <1>1, <1>2, <1>3, <1>4

\* A chunk lengthens the stream at its end.
LEMMA FeedKeepsAccounts ==
    ASSUME Assumptions, Accounts, NEW chunk \in Chunks, Feed(chunk)
    PROVE  Accounts'
<1>1. chunk \in Seq(Byte)
  <2>1. PICK n \in 0..AtMost(MaxChunk, MaxInput - Len(fed)) :
            chunk \in [1..n -> Alphabet]
    BY DEF Chunks
  <2>2. chunk \in [1..n -> Byte]
    <3>1. \A i \in 1..n : chunk[i] \in Byte
      BY <2>1, ReaderAssumption
    <3> QED BY <2>1, <3>1
  <2>3. n \in Nat
    BY <2>1
  <2> QED BY <2>2, <2>3
<1>2. /\ pc = "idle" /\ pc' = "view" /\ todo = << >> /\ todo' = chunk
      /\ fed' = fed \o chunk /\ carry' = carry /\ stream_pos' = stream_pos
      /\ UNCHANGED <<line_no, records, delivered>>
      /\ Newlines(carry) = {}
      /\ Accounted(fed, carry, stream_pos, << >>)
  BY DEF Feed, Ready, reader, Assumptions, Accounts, BytesAccounted
<1>3. /\ fed \in Seq(Byte) /\ carry \in Seq(Byte) /\ stream_pos \in Nat
      /\ Len(carry) <= CarryCap
  BY DEF Accounts, BytesTyped
<1>4. BytesAccounted'
  <2>1. Accounted(fed \o chunk, carry, stream_pos, chunk)
    BY <1>1, <1>2, <1>3, FeedAccounts
  <2> QED BY <1>2, <2>1 DEF BytesAccounted
<1>5. BytesTyped'
  <2>1. fed \o chunk \in Seq(Byte)
    BY <1>1, <1>3, ConcatProperties
  <2> QED BY <1>1, <1>2, <1>3, <2>1 DEF BytesTyped
<1>6. Newlines(carry') = {}
  BY <1>2
<1>7. RecordsTyped'
  BY <1>2 DEF Accounts, RecordsTyped
<1>8. CarryFollowsRecords'
  <2> DEFINE cut == CutEnd(delivered \o records)
             begin == stream_pos - Len(carry)
  <2>1. /\ CutUpTo(delivered \o records, begin)
        /\ begin \in Nat /\ begin <= Len(fed)
    <3>1. PICK held \in Nat, size \in Nat : held = Len(carry) /\ size = Len(fed)
      BY <1>3
    <3>2. held <= stream_pos /\ stream_pos = size
      BY <1>2, <3>1 DEF Accounted
    <3>3. CutUpTo(delivered \o records, begin)
      BY <1>2 DEF Accounts, CarryFollowsRecords
    <3> QED BY <1>3, <3>1, <3>2, <3>3
  <2> HIDE DEF begin
  <2>2. begin' = begin
    BY <1>2 DEF begin
  <2>3. CASE cut = begin /\ delivered \o records = << >>
    BY <1>2, <2>2, <2>3 DEF CarryFollowsRecords, CutUpTo, begin
  <2>4. CASE delivered \o records # << >> /\ Terminates(fed, cut, begin)
    <3>1. Terminates(fed \o chunk, cut, begin)
      <4>1. cut \in Nat
        BY CutEndTyped DEF Accounts
      <4> QED BY <1>1, <1>3, <2>1, <2>4, <4>1, TerminatorStays
    <3> QED BY <1>2, <2>2, <2>4, <3>1 DEF CarryFollowsRecords, CutUpTo, begin
  <2> QED BY <1>2, <2>1, <2>3, <2>4 DEF CutUpTo
<1> QED BY <1>2, <1>4, <1>5, <1>6, <1>7, <1>8 DEF Accounts

\* A view moves bytes from the chunk to the records and the carry.
LEMMA NextViewKeepsAccounts ==
    ASSUME Assumptions, Accounts, NextView
    PROVE  Accounts'
<1> DEFINE out == NextLine(carry, View, FALSE)
<1>1. /\ pc = "view" /\ Absorb(out) /\ fed' = fed /\ delivered' = delivered
      /\ \/ /\ \/ out.status = "line" /\ Pushed(out)
               \/ /\ out.status = "need_more"
                  /\ UNCHANGED <<line_no, records>>
            /\ pc' = "drain" /\ todo' = Unread
         \/ CallFails(out)
  <2>1. out.status = "line" /\ PushRecord(out, "drain", Unread)
          /\ delivered' = delivered =>
            \/ pc' = "drain" /\ todo' = Unread /\ Pushed(out)
            \/ /\ pc' = "failed" /\ todo' = << >> /\ records' = << >>
               /\ line_no' = line_no
    BY PushOrFail
  <2>2. /\ pc = "view" /\ fed' = fed /\ delivered' = delivered /\ Absorb(out)
        /\ \/ out.status = "line" /\ PushRecord(out, "drain", Unread)
           \/ /\ out.status = "need_more" /\ pc' = "drain" /\ todo' = Unread
              /\ UNCHANGED <<line_no, records>>
           \/ /\ pc' = "failed" /\ todo' = << >> /\ records' = << >>
              /\ line_no' = line_no
    BY DEF NextView, Fail
  <2> HIDE DEF out
  <2> QED BY <2>1, <2>2 DEF CallFails
<1>2. /\ Newlines(carry) = {} /\ Accounted(fed, carry, stream_pos, todo)
      /\ fed \in Seq(Byte) /\ todo \in Seq(Byte) /\ carry \in Seq(Byte)
      /\ Len(carry) <= CarryCap /\ stream_pos \in Nat
      /\ ViewBytes \in Nat /\ CarryCap \in Nat /\ ViewBytes <= CarryCap + 1
  BY <1>1, ReaderAssumption, LinesAssumption
     DEF Accounts, BytesAccounted, BytesTyped, Assumptions
<1>3. PICK n \in 0..Len(todo) :
          /\ n <= ViewBytes
          /\ View = SubSeq(todo, 1, n) /\ Len(View) = n
          /\ Unread = SubSeq(todo, n + 1, Len(todo))
  BY ViewTyped DEF Accounts
<1>4. View \in Seq(Byte) /\ Unread \in Seq(Byte)
  BY ViewTyped DEF Accounts
<1>5. Fits(carry, View)
  <2>1. Len(View) <= CarryCap + 1
    BY <1>2, <1>3
  <2> QED BY <1>2, <2>1 DEF Fits
<1>6. /\ out.carry \in Seq(Byte) /\ Len(out.carry) <= CarryCap
      /\ out.consumed = n
      /\ out.status \notin Refusals => Ends(out.carry, carry \o View)
      /\ Cuts(carry \o View, out, FALSE)
  BY <1>2, <1>3, <1>4, <1>5, AnswerAccounts
<1> HIDE DEF out
<1>7. CASE /\ \/ out.status = "line" /\ Pushed(out)
              \/ /\ out.status = "need_more"
                 /\ UNCHANGED <<line_no, records>>
           /\ pc' = "drain" /\ todo' = Unread
  <2>1. out.status \notin Refusals
    BY <1>7 DEF Refusals
  <2>2. /\ carry' = out.carry /\ stream_pos' = stream_pos + n
        /\ stream_pos' \in Nat
    <3>1. n \in Nat
      BY <1>2
    <3> QED BY <1>1, <1>2, <1>6, <3>1 DEF Absorb
  <2>3. BytesAccounted'
    <3>1. Ends(out.carry, carry \o SubSeq(todo, 1, n))
      BY <1>3, <1>6, <2>1
    <3>2. Accounted(fed, out.carry, stream_pos + n,
                    SubSeq(todo, n + 1, Len(todo)))
      BY <1>2, <1>6, <3>1, ViewAccounts
    <3> QED BY <1>1, <1>3, <1>7, <2>2, <3>2 DEF BytesAccounted
  <2>4. BytesTyped'
    BY <1>1, <1>2, <1>4, <1>6, <1>7, <2>2 DEF BytesTyped
  <2>5. RecordsMove(out)
    BY <1>1, <1>7 DEF RecordsMove, KeptAsCut, Accounts, RecordsTyped
  <2>6. GoesOn(out, FALSE)
    BY <1>1, <2>1, <2>5 DEF GoesOn
  <2>7. RecordsTyped' /\ CarryFollowsRecords'
    <3>1. pc # "failed" /\ pc' # "failed"
      BY <1>1, <1>7
    <3>2. Cuts(carry \o SubSeq(todo, 1, n), out, FALSE)
      BY <1>3, <1>6
    <3> QED BY <1>6, <2>6, <3>1, <3>2, CarryFollows
  <2> QED BY <1>7, <2>3, <2>4, <2>7 DEF Accounts
<1>8. CASE CallFails(out)
  <2>1. out.consumed \in Nat
    BY <1>2, <1>6
  <2> QED BY <1>6, <1>8, <2>1, FailureKeepsAccounts
<1> QED BY <1>1, <1>7, <1>8

\* A call without a view covers no byte, and holds an end of the carry.
LEMMA CarryAnswer ==
    ASSUME BytesTyped, NEW eof \in BOOLEAN
    PROVE  LET out == NextLine(carry, << >>, eof)
           IN  /\ out.carry \in Seq(Byte) /\ Len(out.carry) <= CarryCap
               /\ out.consumed = 0
               /\ out.status \notin Refusals => Ends(out.carry, carry)
               /\ out.status = "need_more" => Newlines(out.carry) = {}
               /\ Cuts(carry \o << >>, out, eof)
<1> DEFINE out == NextLine(carry, << >>, eof)
<1>1. << >> \in Seq(Byte) /\ Len(<< >>) = 0 /\ Fits(carry, << >>)
  BY EmptySeq DEF Fits
<1>2. carry \in Seq(Byte) /\ Len(carry) <= CarryCap
  BY DEF BytesTyped
<1>3. /\ out.carry \in Seq(Byte) /\ Len(out.carry) <= CarryCap
      /\ out.consumed = Len(<< >>)
      /\ out.status \notin Refusals => Ends(out.carry, carry \o << >>)
      /\ out.status = "need_more" => Newlines(out.carry) = {}
      /\ Cuts(carry \o << >>, out, eof)
  BY <1>1, <1>2, AnswerAccounts
<1>4. carry \o << >> = carry
  BY <1>2, ConcatEmptySeq
<1> HIDE DEF out
<1>5. out.consumed = 0 /\ (out.status \notin Refusals => Ends(out.carry, carry))
  BY <1>1, <1>3, <1>4
<1> QED BY <1>3, <1>5 DEF out

\* A step that stores such an answer and leaves the chunk alone.
LEMMA CarryKeepsAccounts ==
    ASSUME Accounts, pc # "failed", NEW eof \in BOOLEAN,
           NEW out, out = NextLine(carry, << >>, eof),
           GoesOn(out, eof), pc' # "failed", todo' = todo
    PROVE  /\ BytesTyped' /\ BytesAccounted'
           /\ RecordsTyped' /\ CarryFollowsRecords'
<1>1. /\ carry \in Seq(Byte) /\ todo \in Seq(Byte) /\ stream_pos \in Nat
      /\ fed \in Seq(Byte)
      /\ Accounted(fed, carry, stream_pos, todo)
  BY DEF Accounts, BytesTyped, BytesAccounted
<1>2. /\ out.carry \in Seq(Byte) /\ Len(out.carry) <= CarryCap
      /\ out.consumed = 0 /\ Ends(out.carry, carry)
      /\ Cuts(carry \o << >>, out, eof)
  BY CarryAnswer DEF Accounts, GoesOn
<1>3. /\ carry' = out.carry /\ stream_pos' = stream_pos /\ fed' = fed
  BY <1>1, <1>2 DEF GoesOn, Absorb
<1>4. BytesTyped'
  BY <1>1, <1>2, <1>3 DEF BytesTyped
<1>5. BytesAccounted'
  <2>1. Accounted(fed, out.carry, stream_pos, todo)
    BY <1>1, <1>2, DrainAccounts
  <2> QED BY <1>3, <2>1 DEF BytesAccounted
<1>6. RecordsTyped' /\ CarryFollowsRecords'
  <2>1. 0 \in 0..Len(todo) /\ SubSeq(todo, 1, 0) = << >>
    BY <1>1, SubSeqEmpty
  <2>2. Cuts(carry \o SubSeq(todo, 1, 0), out, eof)
    BY <1>2, <2>1
  <2> QED BY <1>2, <2>1, <2>2, CarryFollows
<1> QED BY <1>4, <1>5, <1>6

LEMMA DrainCarryKeepsAccounts ==
    ASSUME Accounts, DrainCarry
    PROVE  Accounts'
<1>1. CASE carry = << >>
  <2>1. /\ pc = "drain" /\ pc' = "view" /\ carry' = << >>
        /\ UNCHANGED <<fed, todo, reader, records, delivered>>
    BY <1>1 DEF DrainCarry, reader
  <2>2. /\ BytesAccounted' /\ BytesTyped' /\ RecordsTyped'
        /\ CarryFollowsRecords'
    BY <2>1 DEF BytesAccounted, BytesTyped, RecordsTyped, CarryFollowsRecords,
                CutUpTo, reader, Accounts
  <2>3. Newlines(carry') = {}
    BY <2>1, NoneIsNewlineFree
  <2> QED BY <2>1, <2>2, <2>3 DEF Accounts
<1>2. CASE carry # << >>
  <2> DEFINE out == NextLine(carry, << >>, FALSE)
  <2>1. /\ pc = "drain" /\ Absorb(out) /\ fed' = fed /\ delivered' = delivered
        /\ \/ /\ \/ out.status = "line" /\ Pushed(out) /\ pc' = "drain"
                 \/ /\ out.status = "need_more" /\ pc' = "view"
                    /\ UNCHANGED <<line_no, records>>
              /\ todo' = todo
           \/ CallFails(out)
    <3>1. out.status = "line" /\ PushRecord(out, "drain", todo)
            /\ delivered' = delivered =>
              \/ pc' = "drain" /\ todo' = todo /\ Pushed(out)
              \/ /\ pc' = "failed" /\ todo' = << >> /\ records' = << >>
                 /\ line_no' = line_no
      BY PushOrFail
    <3>2. /\ pc = "drain" /\ fed' = fed /\ delivered' = delivered /\ Absorb(out)
          /\ \/ out.status = "line" /\ PushRecord(out, "drain", todo)
             \/ /\ out.status = "need_more" /\ pc' = "view" /\ todo' = todo
                /\ UNCHANGED <<line_no, records>>
             \/ /\ pc' = "failed" /\ todo' = << >> /\ records' = << >>
                /\ line_no' = line_no
      BY <1>2 DEF DrainCarry, Fail
    <3> HIDE DEF out
    <3> QED BY <3>1, <3>2 DEF CallFails
  <2>2. /\ out.carry \in Seq(Byte) /\ Len(out.carry) <= CarryCap
        /\ out.consumed = 0
        /\ out.status = "need_more" => Newlines(out.carry) = {}
    BY CarryAnswer DEF Accounts
  <2>3. CASE /\ \/ out.status = "line" /\ Pushed(out) /\ pc' = "drain"
                \/ /\ out.status = "need_more" /\ pc' = "view"
                   /\ UNCHANGED <<line_no, records>>
             /\ todo' = todo
    <3>1. RecordsMove(out)
      BY <2>1, <2>3 DEF RecordsMove, KeptAsCut, Accounts, RecordsTyped
    <3>2. GoesOn(out, FALSE)
      BY <2>1, <2>3, <3>1 DEF GoesOn, Refusals
    <3>3. /\ BytesTyped' /\ BytesAccounted'
          /\ RecordsTyped' /\ CarryFollowsRecords'
      <4>1. pc # "failed" /\ pc' # "failed" /\ todo' = todo
        BY <2>1, <2>3
      <4> QED BY <3>2, <4>1, CarryKeepsAccounts
    <3> HIDE DEF out
    <3>4. pc' = "view" => Newlines(carry') = {}
      BY <2>1, <2>2, <2>3 DEF Absorb
    <3> QED BY <2>3, <3>3, <3>4 DEF Accounts
  <2> HIDE DEF out
  <2>4. CASE CallFails(out)
    BY <2>2, <2>4, FailureKeepsAccounts
  <2> QED BY <2>1, <2>3, <2>4
<1> QED BY <1>1, <1>2

LEMMA FlushTailKeepsAccounts ==
    ASSUME Accounts, FlushTail
    PROVE  Accounts'
<1> DEFINE out == NextLine(carry, << >>, TRUE)
<1>1. /\ pc = "flush" /\ Absorb(out) /\ fed' = fed
      /\ \/ /\ \/ out.status = "line" /\ Pushed(out) /\ pc' = "flush"
               \/ /\ out.status = "complete" /\ Return("finished")
                  /\ line_no' = line_no
            /\ todo' = todo
         \/ CallFails(out)
  <2>1. out.status = "line" /\ PushRecord(out, "flush", todo)
          /\ delivered' = delivered =>
            \/ pc' = "flush" /\ todo' = todo /\ Pushed(out)
            \/ /\ pc' = "failed" /\ todo' = << >> /\ records' = << >>
               /\ line_no' = line_no
    BY PushOrFail
  <2>2. /\ pc = "flush" /\ fed' = fed /\ Absorb(out)
        /\ \/ /\ out.status = "line" /\ PushRecord(out, "flush", todo)
              /\ delivered' = delivered
           \/ /\ out.status = "complete" /\ Return("finished")
              /\ todo' = todo /\ line_no' = line_no
           \/ /\ pc' = "failed" /\ todo' = << >> /\ records' = << >>
              /\ line_no' = line_no /\ delivered' = delivered
    BY DEF FlushTail, Fail
  <2> HIDE DEF out
  <2> QED BY <2>1, <2>2 DEF CallFails
<1>2. /\ out.carry \in Seq(Byte) /\ Len(out.carry) <= CarryCap
      /\ out.consumed = 0
  BY CarryAnswer DEF Accounts
<1>3. CASE /\ \/ out.status = "line" /\ Pushed(out) /\ pc' = "flush"
              \/ /\ out.status = "complete" /\ Return("finished")
                 /\ line_no' = line_no
           /\ todo' = todo
  <2>1. pc' \in {"flush", "finished"}
    BY <1>3 DEF Return
  <2>2. RecordsMove(out)
    BY <1>3, ReturnKeepsCuts DEF RecordsMove, Accounts
  <2>3. GoesOn(out, TRUE)
    BY <1>1, <1>3, <2>1, <2>2 DEF GoesOn, Refusals
  <2>4. /\ BytesTyped' /\ BytesAccounted'
        /\ RecordsTyped' /\ CarryFollowsRecords'
    <3>1. pc # "failed" /\ pc' # "failed" /\ todo' = todo
      BY <1>1, <1>3, <2>1
    <3> QED BY <2>3, <3>1, CarryKeepsAccounts
  <2>5. todo' = << >>
    BY <1>1, <1>3 DEF Accounts
  <2> QED BY <2>1, <2>4, <2>5 DEF Accounts
<1> HIDE DEF out
<1>4. CASE CallFails(out)
  BY <1>2, <1>4, FailureKeepsAccounts
<1> QED BY <1>1, <1>3, <1>4

LEMMA NextAccounts == Assumptions /\ Accounts /\ [Next]_vars => Accounts'
<1> SUFFICES ASSUME Assumptions, Accounts, [Next]_vars PROVE Accounts'
  OBVIOUS
<1> USE DEF Accounts, BytesTyped, BytesAccounted, CarryFollowsRecords, CutUpTo
<1>1. CASE FeedReturns
  <2>1. KeptAsCut
    BY <1>1, ReturnKeepsCuts DEF FeedReturns, reader
  <2> QED BY <1>1, <2>1 DEF FeedReturns, Return, reader, KeptAsCut
<1>2. CASE Finish
  BY <1>2 DEF Finish, Ready, reader, Assumptions, RecordsTyped
<1>3. CASE UNCHANGED vars
  BY <1>3 DEF vars, reader, RecordsTyped
<1> QED
  BY <1>1, <1>2, <1>3, FeedKeepsAccounts, NextViewKeepsAccounts,
     DrainCarryKeepsAccounts, FlushTailKeepsAccounts DEF Next, HostStep

\* Every byte fed is in a record or its terminator, in the carry or in the
\* rest of the chunk, for every stream and every chunking, until the first
\* error.
THEOREM CsvReaderNoByteLost ==
    ASSUME Assumptions
    PROVE  Spec => []NoByteLost
<1>1. Accounts => NoByteLost
  BY DEF Accounts, NoByteLost
<1> QED BY <1>1, InitAccounts, NextAccounts, PTL DEF Spec

-----------------------------------------------------------------------------

(***************************************************************************)
(* No loop of the reader spins: EveryStepShortens for every stream, every  *)
(* chunking, every size of view and carry, and for callers that go on      *)
(* after an error as well as for those that stop.  Nothing is known of the *)
(* carry then but that it is a sequence of bytes that fits its array: it   *)
(* may hold whole lines, and a view may leave more behind than fits.       *)
(***************************************************************************)

(* One answer of the language. *)

\* Whatever the window, what is held fits the carry and what is covered is a
\* count.
LEMMA EmitTyped ==
    ASSUME NEW carry_ \in Seq(Byte), NEW view \in Seq(Byte),
           Len(carry_) <= CarryCap, Newlines(carry_ \o view) # {}
    PROVE  LET staged == carry_ \o view
               at == FirstNewline(staged)
               held == SubSeq(staged, at + 1, at + Kept(staged, at, CarryCap))
           IN  /\ held \in Seq(Byte) /\ Len(held) <= CarryCap
               /\ Consumed(carry_, view, at, CarryCap) \in Nat
<1> DEFINE staged == carry_ \o view
           at == FirstNewline(staged)
           kept == Kept(staged, at, CarryCap)
           held == SubSeq(staged, at + 1, at + kept)
<1>1. /\ staged \in Seq(Byte) /\ Len(staged) \in Nat
      /\ Len(carry_) \in Nat /\ Len(view) \in Nat /\ CarryCap \in Nat
  BY WindowTyped, LinesAssumption
<1>2. Consumed(carry_, view, at, CarryCap)
        = AtMost(at + kept - Len(carry_), Len(view))
  BY DEF Consumed
<1> HIDE DEF staged
<1>3. at \in 1..Len(staged)
  BY <1>1, FirstNewlineIsThere DEF staged, Newlines
<1> HIDE DEF at
<1>4. /\ kept \in 0..(Len(staged) - at) /\ kept <= CarryCap
      /\ kept = Len(staged) - at \/ kept = CarryCap
  BY <1>1, <1>3 DEF Kept, AtMost
<1> HIDE DEF kept
<1>5. held \in Seq(Byte) /\ Len(held) = kept
  <2>1. /\ at + 1 \in 1..Len(staged) + 1
        /\ at + kept \in ((at + 1) - 1)..Len(staged)
        /\ (at + kept) - (at + 1) + 1 = kept
    BY <1>1, <1>3, <1>4
  <2> QED BY <1>1, <2>1, PieceProperties
<1>6. AtMost(at + kept - Len(carry_), Len(view)) \in Nat
  <2>1. Len(staged) = Len(carry_) + Len(view)
    BY WindowTyped DEF staged
  <2>2. at + kept - Len(carry_) \in Nat
    BY <1>1, <1>3, <1>4, <2>1
  <2> QED BY <1>1, <2>2 DEF AtMost
<1> HIDE DEF held
<1>7. held \in Seq(Byte) /\ Len(held) <= CarryCap
  BY <1>4, <1>5
<1> QED BY <1>2, <1>6, <1>7 DEF held, kept, at, staged

LEMMA AnswerTyped ==
    ASSUME NEW carry_ \in Seq(Byte), NEW view \in Seq(Byte), NEW eof \in BOOLEAN,
           Len(carry_) <= CarryCap
    PROVE  LET out == NextLine(carry_, view, eof)
           IN  /\ out.carry \in Seq(Byte) /\ Len(out.carry) <= CarryCap
               /\ out.consumed \in Nat
<1> DEFINE staged == carry_ \o view
           out == NextLine(carry_, view, eof)
           Goal == /\ out.carry \in Seq(Byte) /\ Len(out.carry) <= CarryCap
                   /\ out.consumed \in Nat
<1> SUFFICES Goal
  OBVIOUS
<1>1. /\ staged \in Seq(Byte) /\ Len(view) \in Nat
      /\ LineMax \in Nat /\ CarryCap \in Nat /\ LineMax <= CarryCap
      /\ << >> \in Seq(Byte) /\ Len(<< >>) = 0
  BY WindowTyped, LinesAssumption, EmptySeq
<1>2. ASSUME NEW code, NEW line, out = LineOut(code, line, << >>, Len(view))
      PROVE  Goal
  <2>1. out.carry = << >> /\ out.consumed = Len(view)
    BY <1>2 DEF LineOut
  <2> HIDE DEF out
  <2> QED BY <1>1, <2>1
<1>3. CASE HasControl(staged)
  BY <1>2, <1>3 DEF NextLine, FailLine
<1>4. CASE ~HasControl(staged) /\ Newlines(staged) # {}
  <2> DEFINE at == FirstNewline(staged)
             raw == SubSeq(staged, 1, at - 1)
             held == SubSeq(staged, at + 1, at + Kept(staged, at, CarryCap))
             covered == Consumed(carry_, view, at, CarryCap)
  <2>1. \/ out = FailLine("malformed", view)
        \/ out = FailLine("overlong", view)
        \/ out = LineOut("line", StripCR(raw), held, covered)
    BY <1>4 DEF NextLine, EmitLine
  <2>2. held \in Seq(Byte) /\ Len(held) <= CarryCap /\ covered \in Nat
    BY <1>4, EmitTyped
  <2>3. ASSUME out = LineOut("line", StripCR(raw), held, covered) PROVE Goal
    <3> HIDE DEF held, covered, raw
    <3>1. out.carry = held /\ out.consumed = covered
      BY <2>3 DEF LineOut
    <3> QED BY <2>2, <3>1
  <2> QED BY <1>2, <2>1, <2>3 DEF FailLine
<1>5. CASE ~HasControl(staged) /\ Newlines(staged) = {} /\ eof
  <2>1. out = EmitTail(carry_, view)
    BY <1>5 DEF NextLine
  <2>2. \/ out = LineOut("complete", << >>, << >>, Len(view))
        \/ out = LineOut("line", staged, << >>, Len(view))
        \/ out = FailLine("overlong", view)
        \/ out = FailLine("malformed", view)
    BY <2>1 DEF EmitTail
  <2> QED BY <1>2, <2>2 DEF FailLine
<1>6. CASE ~HasControl(staged) /\ Newlines(staged) = {} /\ ~eof
  <2>1. out = Hold(carry_, view)
    BY <1>6 DEF NextLine
  <2>2. CASE Len(staged) > LineMax
    BY <1>2, <2>1, <2>2 DEF Hold, FailLine
  <2>3. CASE ~(Len(staged) > LineMax)
    <3>1. out.carry = staged /\ out.consumed = Len(view)
      BY <2>1, <2>3 DEF Hold, LineOut
    <3>2. Len(staged) <= CarryCap
      BY <1>1, <2>3
    <3> HIDE DEF out, staged
    <3> QED BY <1>1, <3>1, <3>2
  <2> QED BY <2>2, <2>3
<1> QED BY <1>3, <1>4, <1>5, <1>6

\* A line cut off the carry alone leaves less of it.
LEMMA LineShortensCarry ==
    ASSUME BytesTyped, NEW eof \in BOOLEAN,
           NextLine(carry, << >>, eof).status = "line"
    PROVE  Len(NextLine(carry, << >>, eof).carry) < Len(carry)
<1> DEFINE out == NextLine(carry, << >>, eof)
<1> SUFFICES Len(out.carry) < Len(carry)
  OBVIOUS
<1>1. /\ out.carry \in Seq(Byte) /\ out.line \in Seq(Byte)
      /\ \/ Terminates(carry, Len(out.line), Len(carry) - Len(out.carry))
         \/ out.carry = << >>
  <2>1. carry \o << >> = carry
    BY ConcatEmptySeq DEF BytesTyped
  <2>2. out.carry \in Seq(Byte) /\ Cuts(carry \o << >>, out, eof)
    BY CarryAnswer
  <2> HIDE DEF out
  <2>3. out.status = "line"
    BY DEF out
  <2> QED BY <2>1, <2>2, <2>3 DEF Cuts
<1>2. carry # << >>
  <2> SUFFICES ASSUME carry = << >> PROVE FALSE
    OBVIOUS
  <2>1. << >> \o << >> = << >> /\ Len(<< >>) = 0
    BY EmptySeq, ConcatEmptySeq
  <2>2. ~HasControl(<< >>) /\ Newlines(<< >>) = {}
    BY <2>1, NoneIsNewlineFree DEF HasControl
  <2>3. \/ out = EmitTail(<< >>, << >>)
        \/ out = Hold(<< >>, << >>)
    BY <2>1, <2>2 DEF NextLine
  <2>4. EmitTail(<< >>, << >>).status = "complete"
    BY <2>1 DEF EmitTail, LineOut
  <2>5. Hold(<< >>, << >>).status \in {"overlong", "need_more"}
    BY DEF Hold, FailLine, LineOut
  <2> QED BY <2>3, <2>4, <2>5
<1>3. Len(carry) \in Nat /\ Len(carry) > 0
  BY <1>2, EmptySeq DEF BytesTyped
<1> HIDE DEF out
<1>4. CASE out.carry = << >>
  BY <1>3, <1>4
<1>5. CASE Terminates(carry, Len(out.line), Len(carry) - Len(out.carry))
  <2>1. PICK held \in Nat, length \in Nat :
            held = Len(out.carry) /\ length = Len(out.line)
    BY <1>1
  <2>2. (Len(carry) - held) - length \in 1..2
    BY <1>5, <2>1 DEF Terminates
  <2> QED BY <1>3, <2>1, <2>2
<1> QED BY <1>1, <1>4, <1>5 DEF out

-----------------------------------------------------------------------------
(* The bytes keep their types, whatever callers do. *)

LEMMA AbsorbTyped ==
    ASSUME BytesTyped, NEW view \in Seq(Byte), NEW eof \in BOOLEAN,
           NEW out, out = NextLine(carry, view, eof), Absorb(out)
    PROVE  carry' \in Seq(Byte) /\ Len(carry') <= CarryCap /\ stream_pos' \in Nat
<1>1. /\ out.carry \in Seq(Byte) /\ Len(out.carry) <= CarryCap
      /\ out.consumed \in Nat
  BY AnswerTyped DEF BytesTyped
<1> QED BY <1>1 DEF Absorb, BytesTyped

LEMMA ChunkTyped ==
    ASSUME NEW chunk \in Chunks
    PROVE  chunk \in Seq(Byte)
<1>1. PICK n \in 0..AtMost(MaxChunk, MaxInput - Len(fed)) :
          chunk \in [1..n -> Alphabet]
  BY DEF Chunks
<1>2. chunk \in [1..n -> Byte]
  <2>1. \A i \in 1..n : chunk[i] \in Byte
    BY <1>1, ReaderAssumption
  <2> QED BY <1>1, <2>1
<1>3. n \in Nat
  BY <1>1
<1> QED BY <1>2, <1>3

\* Where a step that takes an answer leaves the chunk.
LEMMA TodoMoves ==
    ASSUME NEW out, NEW next, NEW rest,
           \/ PushRecord(out, next, rest)
           \/ todo' = rest
           \/ Fail(out.status)
    PROVE  todo' = rest \/ todo' = << >>
BY DEF PushRecord, Fail

LEMMA NextTyped ==
    ASSUME BytesTyped, [Next]_vars
    PROVE  BytesTyped'
<1>1. /\ fed \in Seq(Byte) /\ todo \in Seq(Byte) /\ << >> \in Seq(Byte)
      /\ carry \in Seq(Byte) /\ Len(carry) <= CarryCap /\ stream_pos \in Nat
  BY EmptySeq DEF BytesTyped
<1>2. ASSUME NEW chunk \in Chunks, Feed(chunk) PROVE BytesTyped'
  <2>1. chunk \in Seq(Byte) /\ fed \o chunk \in Seq(Byte)
    BY <1>1, ChunkTyped, ConcatProperties
  <2> QED BY <1>1, <1>2, <2>1 DEF Feed, reader, BytesTyped
<1>3. CASE NextView
  <2> DEFINE out == NextLine(carry, View, FALSE)
  <2>1. View \in Seq(Byte) /\ Unread \in Seq(Byte)
    BY ViewTyped
  <2>2. /\ Absorb(out) /\ fed' = fed
        /\ \/ PushRecord(out, "drain", Unread)
           \/ todo' = Unread
           \/ Fail(out.status)
    BY <1>3 DEF NextView
  <2>3. carry' \in Seq(Byte) /\ Len(carry') <= CarryCap /\ stream_pos' \in Nat
    BY <2>1, <2>2, AbsorbTyped
  <2> HIDE DEF out
  <2>4. todo' \in Seq(Byte)
    BY <1>1, <2>1, <2>2, TodoMoves
  <2> QED BY <1>1, <2>2, <2>3, <2>4 DEF BytesTyped
<1>4. CASE DrainCarry
  <2>1. CASE carry = << >>
    BY <1>1, <1>4, <2>1 DEF DrainCarry, reader, BytesTyped
  <2>2. CASE carry # << >>
    <3> DEFINE out == NextLine(carry, << >>, FALSE)
    <3>1. /\ Absorb(out) /\ fed' = fed
          /\ \/ PushRecord(out, "drain", todo)
             \/ todo' = todo
             \/ Fail(out.status)
      BY <1>4, <2>2 DEF DrainCarry
    <3>2. carry' \in Seq(Byte) /\ Len(carry') <= CarryCap /\ stream_pos' \in Nat
      BY <1>1, <3>1, AbsorbTyped
    <3> HIDE DEF out
    <3>3. todo' \in Seq(Byte)
      BY <1>1, <3>1, TodoMoves
    <3> QED BY <1>1, <3>1, <3>2, <3>3 DEF BytesTyped
  <2> QED BY <2>1, <2>2
<1>5. CASE FlushTail
  <2> DEFINE out == NextLine(carry, << >>, TRUE)
  <2>1. /\ Absorb(out) /\ fed' = fed
        /\ \/ PushRecord(out, "flush", todo)
           \/ todo' = todo
           \/ Fail(out.status)
    BY <1>5 DEF FlushTail
  <2>2. carry' \in Seq(Byte) /\ Len(carry') <= CarryCap /\ stream_pos' \in Nat
    BY <1>1, <2>1, AbsorbTyped
  <2> HIDE DEF out
  <2>3. todo' \in Seq(Byte)
    BY <1>1, <2>1, TodoMoves
  <2> QED BY <1>1, <2>1, <2>2, <2>3 DEF BytesTyped
<1>6. CASE FeedReturns \/ Finish \/ UNCHANGED vars
  BY <1>1, <1>6 DEF FeedReturns, Finish, vars, reader, BytesTyped
<1> QED BY <1>2, <1>3, <1>4, <1>5, <1>6 DEF Next, HostStep

-----------------------------------------------------------------------------
(* Each step of a running call shortens what is left of it. *)

LEMMA NextViewShortens ==
    ASSUME BytesTyped, NextView
    PROVE  Shortens
<1> DEFINE out == NextLine(carry, View, FALSE)
<1>1. /\ todo \in Seq(Byte) /\ todo # << >>
      /\ \/ PushRecord(out, "drain", Unread)
         \/ todo' = Unread
         \/ Fail(out.status)
  BY DEF NextView, BytesTyped
<1> HIDE DEF out
<1>2. Len(todo) \in Nat /\ Len(todo) > 0
  BY <1>1, EmptySeq
<1>3. Len(Unread) < Len(todo)
  <2>1. PICK n \in 0..Len(todo) : /\ n > 0
                                  /\ Unread = SubSeq(todo, n + 1, Len(todo))
    <3>1. ViewBytes \in Nat /\ ViewBytes > 0
      BY ReaderAssumption
    <3>2. \E n \in 0..Len(todo) :
              /\ n <= ViewBytes /\ (Len(todo) > 0 /\ ViewBytes > 0 => n > 0)
              /\ AfterView(todo, ViewBytes) = SubSeq(todo, n + 1, Len(todo))
      BY <1>1, <3>1, ViewSplits
    <3> QED BY <1>2, <3>1, <3>2 DEF Unread
  <2>2. /\ n + 1 \in 1..Len(todo) + 1
        /\ Len(todo) \in ((n + 1) - 1)..Len(todo)
        /\ Len(todo) - (n + 1) + 1 < Len(todo)
    BY <1>2, <2>1
  <2>3. Len(Unread) = Len(todo) - (n + 1) + 1
    BY <1>1, <2>1, <2>2, PieceProperties
  <2>4. n \in Nat
    BY <2>1
  <2> QED BY <1>2, <2>1, <2>3, <2>4
<1>4. todo' = Unread \/ todo' = << >>
  BY <1>1, TodoMoves
<1>5. Len(<< >>) < Len(todo)
  BY <1>2
<1> QED BY <1>3, <1>4, <1>5 DEF Shortens

\* An answer to the carry alone: a line, or the loop ends.
LEMMA AnswerShortens ==
    ASSUME BytesTyped, NEW eof \in BOOLEAN, pc \in {"drain", "flush"},
           NEW out, out = NextLine(carry, << >>, eof), Absorb(out),
           \/ out.status = "line" /\ PushRecord(out, pc, todo)
           \/ pc' \in {"view", "finished"} /\ todo' = todo
           \/ Fail(out.status)
    PROVE  Shortens
<1>1. /\ todo \in Seq(Byte) /\ Len(todo) \in Nat /\ Len(carry) \in Nat
      /\ StepsLeft = 2 + Len(carry)
  BY DEF BytesTyped, StepsLeft
<1>2. CASE out.status = "line" /\ pc' = pc /\ todo' = todo
  <2>1. Len(out.carry) < Len(carry) /\ out.carry \in Seq(Byte)
    BY <1>2, LineShortensCarry, CarryAnswer
  <2>2. StepsLeft' = 2 + Len(out.carry)
    BY <1>2 DEF StepsLeft, Absorb
  <2>3. Len(out.carry) \in Nat
    BY <2>1
  <2> QED BY <1>1, <1>2, <2>1, <2>2, <2>3 DEF Shortens
<1>3. CASE pc' \in {"view", "finished"} /\ todo' = todo
  <2>1. StepsLeft' \in {0, 1}
    BY <1>3 DEF StepsLeft
  <2> QED BY <1>1, <1>3, <2>1 DEF Shortens
<1>4. CASE pc' = "failed" /\ todo' = << >>
  <2>1. StepsLeft' = 0
    BY <1>4 DEF StepsLeft
  <2>2. Len(todo') = 0
    BY <1>4
  <2> QED BY <1>1, <2>1, <2>2 DEF Shortens
<1>5. \/ out.status = "line" /\ pc' = pc /\ todo' = todo
      \/ pc' \in {"view", "finished"} /\ todo' = todo
      \/ pc' = "failed" /\ todo' = << >>
  BY DEF PushRecord, Fail
<1> QED BY <1>2, <1>3, <1>4, <1>5

LEMMA RunningStepShortens ==
    ASSUME BytesTyped, Next, Running
    PROVE  Shortens \/ UNCHANGED vars
<1>1. CASE NextView
  BY <1>1, NextViewShortens
<1>2. CASE DrainCarry
  <2>1. CASE carry = << >>
    <3>1. pc = "drain" /\ pc' = "view" /\ todo' = todo
      BY <1>2, <2>1 DEF DrainCarry
    <3>2. StepsLeft = 2 + Len(carry) /\ Len(carry) = 0 /\ StepsLeft' = 1
      BY <2>1, <3>1 DEF StepsLeft
    <3> QED BY <3>1, <3>2 DEF Shortens
  <2>2. CASE carry # << >>
    <3> DEFINE out == NextLine(carry, << >>, FALSE)
    <3>1. /\ Absorb(out) /\ pc = "drain"
          /\ \/ out.status = "line" /\ PushRecord(out, pc, todo)
             \/ pc' = "view" /\ todo' = todo
             \/ Fail(out.status)
      BY <1>2, <2>2 DEF DrainCarry
    <3> QED BY <3>1, AnswerShortens
  <2> QED BY <2>1, <2>2
<1>3. CASE FlushTail
  <2> DEFINE out == NextLine(carry, << >>, TRUE)
  <2>1. /\ Absorb(out) /\ pc = "flush"
        /\ \/ out.status = "line" /\ PushRecord(out, pc, todo)
           \/ pc' = "finished" /\ todo' = todo
           \/ Fail(out.status)
    BY <1>3 DEF FlushTail, Return
  <2> QED BY <2>1, AnswerShortens
<1>4. CASE FeedReturns
  <2>1. pc = "view" /\ pc' = "idle" /\ todo' = todo
    BY <1>4 DEF FeedReturns, Return
  <2>2. StepsLeft = 1 /\ StepsLeft' = 0
    BY <2>1 DEF StepsLeft
  <2> QED BY <2>1, <2>2 DEF Shortens
<1>5. CASE Finish \/ \E chunk \in Chunks : Feed(chunk)
  <2>1. Ready
    BY <1>5 DEF Finish, Feed
  <2> QED BY <2>1 DEF Ready, Running
<1> QED BY <1>1, <1>2, <1>3, <1>4, <1>5 DEF Next, HostStep

\* feed, drain_carry and finish never spin: every step of a running call
\* leaves less to do, for every stream and every caller.
THEOREM CsvReaderEveryStepShortens == Spec => EveryStepShortens
<1>1. Init => BytesTyped
  BY EmptySeq, LinesAssumption DEF Init, BytesTyped
<1>2. BytesTyped /\ [Next]_vars => BytesTyped'
  BY NextTyped
<1>3. BytesTyped /\ [Next]_vars => [Running => Shortens]_vars
  BY RunningStepShortens
<1> QED BY <1>1, <1>2, <1>3, PTL DEF Spec, EveryStepShortens

-----------------------------------------------------------------------------
(* The types of all variables, whatever callers do. *)

\* A line the language hands out is within the bound.
LEMMA LineIsBounded ==
    ASSUME NEW line \in Seq(Byte), Len(line) <= LineMax
    PROVE  line \in BoundedSeq(Byte, LineMax)
<1>1. LineMax \in Nat /\ Len(line) \in 0..LineMax
  BY LinesAssumption
<1>2. line \in [1..Len(line) -> Byte]
  OBVIOUS
<1> QED BY <1>1, <1>2 DEF BoundedSeq, SeqOf

\* What the host can be told of a window.
LEMMA AnswerIsOneOf ==
    ASSUME NEW carry_ \in Seq(Byte), NEW view \in Seq(Byte), NEW eof \in BOOLEAN
    PROVE  LET out == NextLine(carry_, view, eof)
           IN  /\ \/ out.status \in {"line", "malformed", "overlong"}
                  \/ out.status = (IF eof THEN "complete" ELSE "need_more")
               /\ out.status = "line" => out.line \in BoundedSeq(Byte, LineMax)
<1> DEFINE staged == carry_ \o view
           out == NextLine(carry_, view, eof)
           Goal == /\ \/ out.status \in {"line", "malformed", "overlong"}
                      \/ out.status = (IF eof THEN "complete" ELSE "need_more")
                   /\ out.status = "line" => out.line \in BoundedSeq(Byte, LineMax)
<1> SUFFICES Goal
  OBVIOUS
<1>1. staged \in Seq(Byte) /\ LineMax \in Nat
  BY WindowTyped, LinesAssumption
<1>2. ASSUME NEW code \in {"malformed", "overlong"}, out = FailLine(code, view)
      PROVE  Goal
  <2>1. out.status = code
    BY <1>2 DEF FailLine, LineOut
  <2> HIDE DEF out
  <2> QED BY <2>1
<1>3. ASSUME NEW line \in Seq(Byte), NEW held, NEW covered, Len(line) <= LineMax,
             out = LineOut("line", line, held, covered)
      PROVE  Goal
  <2>1. out.status = "line" /\ out.line = line
    BY <1>3 DEF LineOut
  <2> HIDE DEF out
  <2> QED BY <1>3, <2>1, LineIsBounded
<1>4. ASSUME NEW code, NEW held, NEW covered, out = LineOut(code, << >>, held, covered),
             code = IF eof THEN "complete" ELSE "need_more"
      PROVE  Goal
  <2>1. out.status = code /\ code # "line"
    BY <1>4 DEF LineOut
  <2> HIDE DEF out
  <2> QED BY <1>4, <2>1
<1>5. CASE HasControl(staged)
  BY <1>2, <1>5 DEF NextLine
<1>6. CASE ~HasControl(staged) /\ Newlines(staged) # {}
  <2> DEFINE at == FirstNewline(staged)
             line == StripCR(SubSeq(staged, 1, at - 1))
  <2>1. at \in 1..Len(staged) /\ staged[at] = "nl"
    BY <1>1, <1>6, FirstNewlineIsThere DEF Newlines
  <2> HIDE DEF at
  <2>2. line \in Seq(Byte)
    BY <1>1, <2>1, EmitCuts
  <2>3. out = EmitLine(carry_, view)
    BY <1>6 DEF NextLine
  <2>4. PICK held, covered :
            \/ out = FailLine("malformed", view)
            \/ out = FailLine("overlong", view)
            \/ ~(Len(line) > LineMax) /\ out = LineOut("line", line, held, covered)
    BY <2>3 DEF EmitLine, at
  <2>5. ~(Len(line) > LineMax) => Len(line) <= LineMax
    <3> HIDE DEF line
    <3> QED BY <1>1, <2>2
  <2> HIDE DEF line, out, Goal
  <2> QED BY <1>2, <1>3, <2>2, <2>4, <2>5
<1>7. CASE ~HasControl(staged) /\ Newlines(staged) = {} /\ eof
  <2>1. out = EmitTail(carry_, view)
    BY <1>7 DEF NextLine
  <2>2. \/ out = LineOut("complete", << >>, << >>, Len(view))
        \/ ~(Len(staged) > LineMax) /\ out = LineOut("line", staged, << >>, Len(view))
        \/ out = FailLine("overlong", view)
        \/ out = FailLine("malformed", view)
    BY <2>1 DEF EmitTail
  <2>3. ~(Len(staged) > LineMax) => Len(staged) <= LineMax
    <3> HIDE DEF staged
    <3> QED BY <1>1
  <2>4. eof
    BY <1>7
  <2> HIDE DEF staged, out, Goal
  <2> QED BY <1>1, <1>2, <1>3, <1>4, <2>2, <2>3, <2>4
<1>8. CASE ~HasControl(staged) /\ Newlines(staged) = {} /\ ~eof
  <2>1. out = Hold(carry_, view)
    BY <1>8 DEF NextLine
  <2>2. \/ out = FailLine("overlong", view)
        \/ out = LineOut("need_more", << >>, staged, Len(view))
    BY <2>1 DEF Hold
  <2>3. ~eof
    BY <1>8
  <2> HIDE DEF staged, out, Goal
  <2> QED BY <1>2, <1>4, <2>2, <2>3
<1> QED BY <1>5, <1>6, <1>7, <1>8

-----------------------------------------------------------------------------
(* The records keep their types, whatever callers do. *)

\* The rest of TypeOK: what BytesTyped does not say.
HostTyped ==
    /\ pc \in Control
    /\ feeds \in {"none", "one", "many"}
    /\ line_no \in Nat
    /\ records \in Seq(Records) /\ delivered \in Seq(Records)
    /\ error \in [kind : {"none", "malformed", "overlong"}, line : Nat]

LEMMA TypeOKSplits == TypeOK <=> BytesTyped /\ HostTyped
BY DEF TypeOK, BytesTyped, HostTyped

\* A call that fails.
LEMMA FailTyped ==
    ASSUME HostTyped, NEW kind \in {"malformed", "overlong"}, Fail(kind),
           delivered' = delivered, feeds' = feeds
    PROVE  HostTyped'
<1>1. line_no + 1 \in Nat /\ << >> \in Seq(Records)
  BY EmptySeq DEF HostTyped
<1> QED BY <1>1 DEF HostTyped, Fail, Control

LEMMA UnitStartTyped ==
    ASSUME NEW pos \in Nat, NEW consumed \in Nat, NEW held \in Nat
    PROVE  UnitStart(pos, consumed, held) \in Nat
BY DEF UnitStart, SaturatingSub

\* A call that takes a line: a record more, or a refusal of its fields.
LEMMA PushTyped ==
    ASSUME BytesTyped, HostTyped, NEW out, NEW next \in Control, NEW rest,
           out.line \in BoundedSeq(Byte, LineMax), out.consumed \in Nat,
           PushRecord(out, next, rest), delivered' = delivered, feeds' = feeds
    PROVE  HostTyped'
<1> DEFINE parsed == ParseFields(out.line)
           start == UnitStart(stream_pos, out.consumed, Len(carry))
           record == CsvRecord(parsed.fields, line_no + 1, start, out.line)
<1>1. out.line \in Seq(Byte)
  <2>1. PICK n \in 0..LineMax : out.line \in [1..n -> Byte]
    BY DEF BoundedSeq, SeqOf
  <2>2. n \in Nat
    BY LinesAssumption
  <2> QED BY <2>1, <2>2
<1>2. parsed.status \in {"ok", "malformed", "overlong"}
  BY <1>1, ParseTyped
<1>3. parsed.fields \in FieldLists
  BY DEF FieldLists
<1>4. start \in Nat /\ Len(out.line) \in Nat /\ line_no + 1 \in Nat
  <2>1. /\ stream_pos \in Nat /\ Len(carry) \in Nat /\ line_no \in Nat
        /\ Len(out.line) \in Nat
    BY <1>1, LenProperties DEF BytesTyped, HostTyped
  <2>2. start \in Nat
    BY <2>1, UnitStartTyped
  <2> QED BY <2>1, <2>2
<1> HIDE DEF start
<1>5. record \in Records
  <2> HIDE DEF parsed
  <2> QED BY <1>3, <1>4 DEF CsvRecord, Records
<1>6. CASE parsed.status = "ok"
  <2>1. /\ line_no' = line_no + 1 /\ records' = Append(records, record)
        /\ pc' = next /\ UNCHANGED error
    BY <1>6, Zenon DEF PushRecord, start
  <2> HIDE DEF record, parsed
  <2>2. Append(records, record) \in Seq(Records)
    BY <1>5, AppendProperties DEF HostTyped
  <2> QED BY <1>4, <2>1, <2>2 DEF HostTyped
<1>7. CASE parsed.status # "ok"
  <2>1. Fail(parsed.status)
    BY <1>7, Zenon DEF PushRecord
  <2> HIDE DEF parsed
  <2> QED BY <1>2, <1>7, <2>1, FailTyped
<1> QED BY <1>6, <1>7

LEMMA HostKeepsTypes ==
    ASSUME BytesTyped, HostTyped, [Next]_vars
    PROVE  HostTyped'
<1>1. /\ carry \in Seq(Byte) /\ Len(carry) <= CarryCap /\ << >> \in Seq(Byte)
      /\ delivered \o records \in Seq(Records) /\ << >> \in Seq(Records)
  BY EmptySeq, ConcatProperties DEF BytesTyped, HostTyped
<1>2. CASE Finish \/ \E chunk \in Chunks : Feed(chunk)
  <2>1. NoError \in [kind : {"none", "malformed", "overlong"}, line : Nat]
    BY DEF NoError
  <2> QED BY <1>2, <2>1 DEF Finish, Feed, reader, HostTyped, Control
<1>3. CASE NextView
  <2> DEFINE out == NextLine(carry, View, FALSE)
  <2>1. View \in Seq(Byte)
    BY ViewTyped DEF BytesTyped
  <2>2. /\ out.status \in {"line", "malformed", "overlong", "need_more"}
        /\ out.status = "line" => out.line \in BoundedSeq(Byte, LineMax)
    BY <1>1, <2>1, AnswerIsOneOf
  <2>3. out.consumed \in Nat
    BY <1>1, <2>1, AnswerTyped
  <2>4. /\ delivered' = delivered /\ feeds' = feeds
        /\ \/ out.status = "line" /\ PushRecord(out, "drain", Unread)
           \/ pc' = "drain" /\ UNCHANGED <<line_no, records, error>>
           \/ out.status \notin {"line", "need_more"} /\ Fail(out.status)
    BY <1>3 DEF NextView
  <2> HIDE DEF out
  <2> QED BY <2>2, <2>3, <2>4, PushTyped, FailTyped DEF HostTyped, Control
<1>4. CASE DrainCarry
  <2>1. CASE carry = << >>
    BY <1>4, <2>1 DEF DrainCarry, reader, HostTyped, Control
  <2>2. CASE carry # << >>
    <3> DEFINE out == NextLine(carry, << >>, FALSE)
    <3>1. /\ out.status \in {"line", "malformed", "overlong", "need_more"}
          /\ out.status = "line" => out.line \in BoundedSeq(Byte, LineMax)
      BY <1>1, AnswerIsOneOf
    <3>2. out.consumed \in Nat
      BY <1>1, AnswerTyped
    <3>3. /\ delivered' = delivered /\ feeds' = feeds
          /\ \/ out.status = "line" /\ PushRecord(out, "drain", todo)
             \/ pc' = "view" /\ UNCHANGED <<line_no, records, error>>
             \/ out.status \notin {"line", "need_more"} /\ Fail(out.status)
      BY <1>4, <2>2 DEF DrainCarry
    <3> HIDE DEF out
    <3> QED BY <3>1, <3>2, <3>3, PushTyped, FailTyped DEF HostTyped, Control
  <2> QED BY <2>1, <2>2
<1>5. CASE FeedReturns
  BY <1>1, <1>5 DEF FeedReturns, Return, reader, HostTyped, Control
<1>6. CASE FlushTail
  <2> DEFINE out == NextLine(carry, << >>, TRUE)
  <2>1. /\ out.status \in {"line", "malformed", "overlong", "complete"}
        /\ out.status = "line" => out.line \in BoundedSeq(Byte, LineMax)
    BY <1>1, AnswerIsOneOf
  <2>2. out.consumed \in Nat
    BY <1>1, AnswerTyped
  <2>3. /\ feeds' = feeds
        /\ \/ /\ out.status = "line" /\ PushRecord(out, "flush", todo)
              /\ delivered' = delivered
           \/ Return("finished") /\ UNCHANGED <<line_no, error>>
           \/ /\ out.status \notin {"line", "complete"} /\ Fail(out.status)
              /\ delivered' = delivered
    BY <1>6 DEF FlushTail
  <2> HIDE DEF out
  <2>4. CASE Return("finished") /\ UNCHANGED <<line_no, error>>
    BY <1>1, <2>3, <2>4 DEF Return, HostTyped, Control
  <2> QED BY <2>1, <2>2, <2>3, <2>4, PushTyped, FailTyped DEF Control
<1>7. CASE UNCHANGED vars
  BY <1>7 DEF vars, reader, HostTyped
<1> QED BY <1>2, <1>3, <1>4, <1>5, <1>6, <1>7 DEF Next, HostStep

\* For every stream, every chunking and every caller, those that go on after
\* an error included: the carry fits its array, every record's fields are
\* those of a line within the bound, and no error but the two is reported.
THEOREM CsvReaderTypeOK == Spec => []TypeOK
<1>1. Init => TypeOK
  BY EmptySeq, LinesAssumption DEF Init, TypeOK, Control, NoError
<1>2. TypeOK /\ [Next]_vars => TypeOK'
  <2>1. TypeOK /\ [Next]_vars => BytesTyped' /\ HostTyped'
    BY TypeOKSplits, NextTyped, HostKeepsTypes
  <2> QED BY <2>1 DEF TypeOK, BytesTyped, HostTyped
<1> QED BY <1>1, <1>2, PTL DEF Spec
==============================================================================
