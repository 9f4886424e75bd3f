----------------------------- MODULE FrameProofs -----------------------------
(***************************************************************************)
(* TypeOK of the frame reader for every wire and every chunking, and       *)
(* NoByteLost when no view is longer than the carry and one byte more.     *)
(* Then what the reader makes of the wire a sender really wrote: the       *)
(* frames of the sender, each at its own byte range, none withheld, and no *)
(* refusal but truncation.                                                 *)
(***************************************************************************)
EXTENDS FrameProperties, SharedProofs, FiniteSetTheorems

USE DEF HeaderLen

Refusals == {"malformed", "bad_checksum", "truncated", "version", "tag"}

\* What the host may rely on in any answer of the language.
Typed(out, view, eof) ==
    /\ out.status \in {"frame", IF eof THEN "complete" ELSE "need_more"}
                       \cup Refusals
    /\ out.carry \in Seq(Byte) /\ Len(out.carry) <= CarryCap
    /\ out.consumed \in 0..Len(view)
    /\ out.status = "frame" =>
           out.kind \in 0..2 /\ out.payload \in Payloads /\ out.frame_len \in Nat

\* Too short to be a whole frame, and not to be refused yet.
Short(held) ==
    \/ Len(held) < HeaderLen
    \/ Len(held) < HeaderLen + U16At(held, 4) + 2

\* Bytes a frame takes off the window.
CutLen(out) == IF out.status = "frame" THEN out.frame_len ELSE 0

-----------------------------------------------------------------------------
(* The language. *)

LEMMA ByteRange == \A b \in Byte : b \in Nat /\ b <= 255
BY DEF Byte

LEMMA WindowTyped ==
    ASSUME NEW carry_ \in Seq(Byte), NEW view \in Seq(Byte)
    PROVE  /\ carry_ \o view \in Seq(Byte)
           /\ Len(carry_ \o view) = Len(carry_) + Len(view)
           /\ \A i \in 1..Len(carry_) : (carry_ \o view)[i] = carry_[i]
<1>1. \A i \in 1..Len(carry_) : i \in 1..Len(carry_) + Len(view)
  OBVIOUS
<1> QED BY <1>1, ConcatProperties

\* A two-byte number of a window is a natural number.
LEMMA U16Natural ==
    ASSUME NEW s \in Seq(Byte), Len(s) >= HeaderLen
    PROVE  U16At(s, 4) \in Nat
<1>1. s[4 + 1] \in Nat /\ s[4 + 2] \in Nat
  <2>1. 4 + 1 \in 1..Len(s) /\ 4 + 2 \in 1..Len(s)
    OBVIOUS
  <2>2. s[4 + 1] \in Byte /\ s[4 + 2] \in Byte
    BY <2>1
  <2> QED BY <2>2, ByteRange
<1> QED BY <1>1 DEF U16At

LEMMA FailTyped ==
    ASSUME NEW code \in Refusals, NEW view \in Seq(Byte), NEW eof \in BOOLEAN
    PROVE  Typed(FailFrame(code, view), view, eof)
<1>1. Len(view) \in Nat /\ CarryCap \in Nat /\ << >> \in Seq(Byte)
  BY FramesAssumption
<1> QED BY <1>1 DEF Typed, FailFrame, FrameOut, Refusals

LEMMA IncompleteTyped ==
    ASSUME NEW carry_ \in Seq(Byte), NEW view \in Seq(Byte), NEW eof \in BOOLEAN,
           Len(carry_ \o view) <= CarryCap
    PROVE  Typed(Incomplete(carry_, view, eof), view, eof)
<1>1. carry_ \o view \in Seq(Byte) /\ Len(view) \in Nat
  BY WindowTyped
<1>2. CASE eof
  <2>1. Typed(FailFrame("truncated", view), view, eof)
    BY FailTyped DEF Refusals
  <2> QED BY <1>2, <2>1 DEF Incomplete
<1>3. CASE ~eof
  BY <1>1, <1>3 DEF Incomplete, Typed, FrameOut
<1> QED BY <1>2, <1>3

\* What is held of an unfinished frame that is not refused.
LEMMA IncompleteHolds ==
    ASSUME NEW carry_, NEW view, NEW eof \in BOOLEAN,
           Incomplete(carry_, view, eof).status \notin Refusals
    PROVE  /\ Incomplete(carry_, view, eof).carry = carry_ \o view
           /\ Incomplete(carry_, view, eof).consumed = Len(view)
           /\ Incomplete(carry_, view, eof).status = "need_more"
<1>1. CASE eof
  BY <1>1 DEF Incomplete, FailFrame, FrameOut, Refusals
<1>2. CASE ~eof
  BY <1>2 DEF Incomplete, FrameOut
<1> QED BY <1>1, <1>2

\* A frame cut off a window that holds it.
LEMMA EmitTyped ==
    ASSUME NEW carry_ \in Seq(Byte), NEW view \in Seq(Byte), NEW eof \in BOOLEAN,
           Len(carry_) <= CarryCap,
           NEW length \in 8..Len(carry_ \o view), length <= MaxPayload + 8,
           (carry_ \o view)[4] <= 2
    PROVE  Typed(EmitFrame(carry_, view, length), view, eof)
<1> DEFINE staged == carry_ \o view
           kept == Kept(staged, length, CarryCap)
           held == SubSeq(staged, length + 1, length + kept)
           payload == SubSeq(staged, HeaderLen + 1, length - 2)
           covered == Consumed(carry_, view, length, CarryCap)
<1>1. /\ staged \in Seq(Byte) /\ Len(staged) = Len(carry_) + Len(view)
      /\ Len(carry_) \in Nat /\ Len(view) \in Nat
      /\ CarryCap \in Nat /\ MaxPayload \in Nat
  BY WindowTyped, FramesAssumption
<1> HIDE DEF staged
<1>2. length \in 8..Len(staged)
  BY DEF staged
<1>3. kept \in 0..(Len(staged) - length) /\ kept <= CarryCap
      /\ (kept = Len(staged) - length \/ kept = CarryCap)
  BY <1>1, <1>2 DEF Kept, AtMost
<1>4. covered \in 0..Len(view)
  <2>1. covered = AtMost(length + kept - Len(carry_), Len(view))
    BY DEF Consumed, staged
  <2>2. length + kept - Len(carry_) \in Int /\ length + kept - Len(carry_) >= 0
    BY <1>1, <1>2, <1>3
  <2> HIDE DEF covered, kept
  <2> QED BY <1>1, <2>1, <2>2 DEF AtMost
<1> HIDE DEF kept
<1>5. held \in Seq(Byte) /\ Len(held) = kept
  <2>1. /\ length + 1 \in 1..Len(staged) + 1
        /\ length + kept \in (length + 1 - 1)..Len(staged)
        /\ (length + kept) - (length + 1) + 1 = kept
    BY <1>1, <1>2, <1>3
  <2> QED BY <1>1, <2>1, PieceProperties
<1>6. payload \in Payloads
  <2>1. /\ HeaderLen + 1 \in 1..Len(staged) + 1
        /\ length - 2 \in (HeaderLen + 1 - 1)..Len(staged)
        /\ (length - 2) - (HeaderLen + 1) + 1 <= MaxPayload
    BY <1>1, <1>2
  <2> QED BY <1>1, <2>1, PieceProperties DEF Payloads
<1>7. staged[4] \in 0..2
  <2>1. staged[4] <= 2
    BY DEF staged
  <2>2. 4 \in 1..Len(staged)
    BY <1>1, <1>2
  <2>3. staged[4] \in Byte
    BY <1>1, <2>2
  <2>4. staged[4] \in Nat
    BY <2>3, ByteRange
  <2> QED BY <2>1, <2>4
<1>8. EmitFrame(carry_, view, length)
        = FrameOut("frame", staged[4], payload, length, held, covered)
  BY DEF EmitFrame, staged, kept
<1> HIDE DEF held, payload, covered
<1> QED BY <1>2, <1>3, <1>4, <1>5, <1>6, <1>7, <1>8 DEF Typed, FrameOut

\* Every answer is typed.
LEMMA AnswerTyped ==
    ASSUME NEW carry_ \in Seq(Byte), NEW view \in Seq(Byte), NEW eof \in BOOLEAN,
           Len(carry_) <= CarryCap
    PROVE  Typed(DecodeFrame(carry_, view, eof), view, eof)
<1> DEFINE staged == carry_ \o view
           out == DecodeFrame(carry_, view, eof)
           length == HeaderLen + U16At(staged, 4) + 2
<1>1. /\ staged \in Seq(Byte) /\ Len(staged) = Len(carry_) + Len(view)
      /\ Len(staged) \in Nat /\ MaxPayload + 8 <= CarryCap
      /\ MaxPayload \in Nat /\ CarryCap \in Nat
  BY WindowTyped, FramesAssumption
<1>2. CASE staged = << >>
  <2>1. out = FrameOut(IF eof THEN "complete" ELSE "need_more", 0, << >>, 0,
                       << >>, 0)
    BY <1>2 DEF DecodeFrame
  <2> QED BY <1>1, <2>1 DEF Typed, FrameOut
<1>3. CASE staged # << >> /\ Len(staged) < HeaderLen
  <2>1. out = Incomplete(carry_, view, eof)
    BY <1>3 DEF DecodeFrame
  <2>2. Len(staged) <= CarryCap
    BY <1>1, <1>3
  <2> QED BY <2>1, <2>2, IncompleteTyped
<1>4. CASE /\ staged # << >> /\ ~(Len(staged) < HeaderLen)
           /\ HeaderStatus(staged) # "sound"
  <2>1. HeaderStatus(staged) \in Refusals
    BY <1>4 DEF HeaderStatus, Refusals
  <2>2. out = FailFrame(HeaderStatus(staged), view)
    BY <1>4 DEF DecodeFrame
  <2> QED BY <2>1, <2>2, FailTyped
<1>5. CASE /\ staged # << >> /\ ~(Len(staged) < HeaderLen)
           /\ HeaderStatus(staged) = "sound"
  <2>1. out = DecodeBody(carry_, view, eof, length)
    BY <1>5 DEF DecodeFrame
  <2> HIDE DEF staged
  <2>2. U16At(staged, 4) \in Nat
    BY <1>1, <1>5, U16Natural
  <2>3. ~(U16At(staged, 4) > MaxPayload) /\ ~(staged[4] > 2)
    BY <1>5 DEF HeaderStatus
  <2>4. staged[4] <= 2
    <3>1. 4 \in 1..Len(staged)
      BY <1>1, <1>5
    <3>2. staged[4] \in Byte
      BY <1>1, <3>1
    <3> QED BY <2>3, <3>2, ByteRange
  <2>5. length \in Nat /\ length >= 8 /\ length <= MaxPayload + 8
    BY <1>1, <2>2, <2>3
  <2> USE DEF staged
  <2> HIDE DEF length
  <2>6. CASE Len(staged) < length
    <3>1. out = Incomplete(carry_, view, eof)
      BY <2>1, <2>6 DEF DecodeBody
    <3>2. Len(staged) <= CarryCap
      BY <1>1, <2>5, <2>6
    <3> QED BY <3>1, <3>2, IncompleteTyped
  <2>7. CASE ~(Len(staged) < length) /\
             U16At(staged, length - 2) # Checksum(staged, length - 2)
    <3>1. out = FailFrame("bad_checksum", view)
      BY <2>1, <2>7 DEF DecodeBody
    <3> QED BY <3>1, FailTyped DEF Refusals
  <2>8. CASE ~(Len(staged) < length) /\
             U16At(staged, length - 2) = Checksum(staged, length - 2)
    <3>1. out = EmitFrame(carry_, view, length)
      BY <2>1, <2>8 DEF DecodeBody
    <3>2. length \in 8..Len(staged)
      BY <1>1, <2>5, <2>8
    <3> QED BY <2>4, <2>5, <3>1, <3>2, EmitTyped
  <2> QED BY <2>6, <2>7, <2>8
<1> QED BY <1>2, <1>3, <1>4, <1>5

\* A window shorter than the carry's frame: no frame ends inside the carry.
LEMMA FrameEndsPastCarry ==
    ASSUME NEW carry_ \in Seq(Byte), NEW view \in Seq(Byte), Short(carry_),
           Len(carry_ \o view) >= HeaderLen
    PROVE  Len(carry_) < HeaderLen + U16At(carry_ \o view, 4) + 2
<1> DEFINE staged == carry_ \o view
<1>1. /\ staged \in Seq(Byte) /\ Len(staged) >= HeaderLen
      /\ \A i \in 1..Len(carry_) : staged[i] = carry_[i]
  BY WindowTyped
<1> HIDE DEF staged
<1>2. U16At(staged, 4) \in Nat
  BY <1>1, U16Natural
<1>3. CASE Len(carry_) < HeaderLen
  BY <1>2, <1>3 DEF staged
<1>4. CASE ~(Len(carry_) < HeaderLen)
  <2>1. Len(carry_) < HeaderLen + U16At(carry_, 4) + 2
    BY <1>4 DEF Short
  <2>2. 4 + 1 \in 1..Len(carry_) /\ 4 + 2 \in 1..Len(carry_)
    BY <1>4
  <2>3. staged[4 + 1] = carry_[4 + 1] /\ staged[4 + 2] = carry_[4 + 2]
    BY <1>1, <2>2
  <2>4. U16At(staged, 4) = U16At(carry_, 4)
    BY <2>3 DEF U16At
  <2> QED BY <2>1, <2>4 DEF staged
<1> QED BY <1>3, <1>4

\* A view that fits the carry and one byte more is covered whole, and what is
\* held is the end of the window.
LEMMA AnswerAccounts ==
    ASSUME NEW carry_ \in Seq(Byte), NEW view \in Seq(Byte), NEW eof \in BOOLEAN,
           Len(carry_) <= CarryCap,
           \/ Short(carry_) /\ Len(view) <= CarryCap + 1
           \/ view = << >>,
           DecodeFrame(carry_, view, eof).status \notin Refusals
    PROVE  LET out == DecodeFrame(carry_, view, eof)
           IN  /\ out.consumed = Len(view)
               /\ Ends(out.carry, carry_ \o view)
               /\ out.status = "need_more" => Short(out.carry)
               /\ Len(out.carry) + CutLen(out) = Len(carry_) + Len(view)
<1> DEFINE staged == carry_ \o view
           out == DecodeFrame(carry_, view, eof)
           length == HeaderLen + U16At(staged, 4) + 2
           Goal == /\ out.consumed = Len(view)
                   /\ Ends(out.carry, staged)
                   /\ out.status = "need_more" => Short(out.carry)
                   /\ Len(out.carry) + CutLen(out) = Len(carry_) + Len(view)
<1> SUFFICES Goal
  OBVIOUS
<1>1. /\ staged \in Seq(Byte) /\ Len(staged) = Len(carry_) + Len(view)
      /\ Len(carry_) \in Nat /\ Len(view) \in Nat
      /\ MaxPayload + 8 <= CarryCap /\ MaxPayload \in Nat /\ CarryCap \in Nat
  BY WindowTyped, FramesAssumption
<1>2. Ends(staged, staged) /\ Ends(<< >>, staged)
  BY <1>1, WholeAndNoneEnd
<1>3. out = Incomplete(carry_, view, eof) /\ Short(staged) => Goal
  <2> HAVE out = Incomplete(carry_, view, eof) /\ Short(staged)
  <2>1. /\ out.carry = staged /\ out.consumed = Len(view)
        /\ out.status = "need_more"
    BY IncompleteHolds
  <2>2. Len(out.carry) + CutLen(out) = Len(carry_) + Len(view)
    BY <1>1, <2>1 DEF CutLen
  <2> QED BY <1>2, <2>1, <2>2
<1>4. CASE staged = << >>
  <2>1. out = FrameOut(IF eof THEN "complete" ELSE "need_more", 0, << >>, 0,
                       << >>, 0)
    BY <1>4 DEF DecodeFrame
  <2>2. out.carry = << >> /\ out.consumed = 0
    BY <2>1 DEF FrameOut
  <2>3. Len(view) = 0
    BY <1>1, <1>4, ConcatEqualIffEmpty
  <2>4. Short(<< >>)
    BY DEF Short
  <2>5. Len(out.carry) + CutLen(out) = Len(carry_) + Len(view)
    <3>1. Len(<< >>) = 0 /\ Len(carry_) + Len(view) = 0
      BY <1>1, <1>4
    <3>2. CutLen(out) = 0
      BY <2>1 DEF FrameOut, CutLen
    <3> HIDE DEF out, staged
    <3> QED BY <2>2, <3>1, <3>2
  <2> QED BY <1>2, <2>2, <2>3, <2>4, <2>5
<1>5. CASE staged # << >> /\ Len(staged) < HeaderLen
  <2>1. out = Incomplete(carry_, view, eof)
    BY <1>5 DEF DecodeFrame
  <2>2. Short(staged)
    BY <1>5 DEF Short
  <2> QED BY <1>3, <2>1, <2>2
<1>6. CASE /\ staged # << >> /\ ~(Len(staged) < HeaderLen)
           /\ HeaderStatus(staged) # "sound"
  <2>1. HeaderStatus(staged) \in Refusals
    BY <1>6 DEF HeaderStatus, Refusals
  <2>2. out = FailFrame(HeaderStatus(staged), view)
    BY <1>6 DEF DecodeFrame
  <2> QED BY <2>1, <2>2 DEF FailFrame, FrameOut
<1>7. CASE /\ staged # << >> /\ ~(Len(staged) < HeaderLen)
           /\ HeaderStatus(staged) = "sound"
  <2>1. out = DecodeBody(carry_, view, eof, length)
    BY <1>7 DEF DecodeFrame
  <2>2. Short(carry_) => Len(carry_) < length
    BY <1>7, <1>1, FrameEndsPastCarry
  <2> HIDE DEF staged, out, Goal
  <2>3. U16At(staged, 4) \in Nat /\ ~(U16At(staged, 4) > MaxPayload)
    BY <1>1, <1>7, U16Natural DEF HeaderStatus
  <2>4. length \in Nat /\ length >= 8 /\ length <= MaxPayload + 8
    BY <1>1, <2>3
  <2>5. CASE Len(staged) < length
    <3>1. out = Incomplete(carry_, view, eof)
      BY <2>1, <2>5 DEF DecodeBody, staged
    <3>2. Short(staged)
      BY <2>5 DEF Short
    <3> QED BY <1>3, <3>1, <3>2
  <2> HIDE DEF length
  <2>6. CASE ~(Len(staged) < length) /\
             U16At(staged, length - 2) # Checksum(staged, length - 2)
    <3>1. out = FailFrame("bad_checksum", view)
      BY <2>1, <2>6 DEF DecodeBody, staged
    <3> QED BY <3>1 DEF FailFrame, FrameOut, Refusals, out
  <2>7. CASE ~(Len(staged) < length) /\
             U16At(staged, length - 2) = Checksum(staged, length - 2)
    <3>1. out = EmitFrame(carry_, view, length)
      BY <2>1, <2>7 DEF DecodeBody, staged
    <3>2. length \in 0..Len(staged)
      BY <1>1, <2>4, <2>7
    <3>3. Len(staged) - length <= CarryCap
      <4>1. CASE Short(carry_) /\ Len(view) <= CarryCap + 1
        BY <1>1, <2>2, <2>4, <4>1
      <4>2. CASE view = << >>
        <5>1. Len(view) = 0
          BY <4>2
        <5> QED BY <1>1, <2>4, <5>1
      <4> QED BY <4>1, <4>2
    <3> DEFINE held == SubSeq(staged, length + 1,
                              length + Kept(staged, length, CarryCap))
    <3>4. Ends(held, staged) /\ Len(held) = Len(staged) - length
      BY <1>1, <3>2, <3>3, TailIsKept
    <3>5. Consumed(carry_, view, length, CarryCap) = Len(view)
      <4>1. Kept(staged, length, CarryCap) = Len(staged) - length
        BY <1>1, <3>2, <3>3 DEF Kept, AtMost
      <4>2. length + (Len(staged) - length) - Len(carry_) = Len(view)
        BY <1>1, <3>2
      <4>3. Consumed(carry_, view, length, CarryCap)
              = AtMost(length + Kept(staged, length, CarryCap) - Len(carry_),
                       Len(view))
        BY DEF Consumed, staged
      <4>4. AtMost(Len(view), Len(view)) = Len(view)
        BY DEF AtMost
      <4> QED BY <4>1, <4>2, <4>3, <4>4
    <3>6. out.carry = held /\ out.status = "frame" /\ out.frame_len = length
          /\ out.consumed = Consumed(carry_, view, length, CarryCap)
      BY <3>1 DEF EmitFrame, FrameOut, staged
    <3> HIDE DEF held
    <3>7. out.status # "need_more"
      BY <3>6
    <3>8. Len(out.carry) + CutLen(out) = Len(carry_) + Len(view)
      BY <1>1, <3>2, <3>4, <3>6 DEF CutLen
    <3> QED BY <3>4, <3>5, <3>6, <3>7, <3>8 DEF Goal
  <2> QED BY <2>5, <2>6, <2>7
<1> QED BY <1>4, <1>5, <1>6, <1>7

-----------------------------------------------------------------------------
(* The host: types. *)

\* A view of the running chunk.
LEMMA ViewTyped ==
    ASSUME TypeOK
    PROVE  /\ View \in Seq(Byte) /\ Unread \in Seq(Byte)
           /\ \E n \in 0..Len(todo) :
                  /\ n <= ViewBytes /\ n <= Len(todo)
                  /\ View = SubSeq(todo, 1, n) /\ Len(View) = n
                  /\ Unread = SubSeq(todo, n + 1, Len(todo))
<1>1. todo \in Seq(Byte) /\ ViewBytes \in Nat
  BY ReaderAssumption DEF TypeOK
<1>2. PICK n \in 0..Len(todo) :
             /\ n <= ViewBytes
             /\ View = SubSeq(todo, 1, n)
             /\ Unread = SubSeq(todo, n + 1, Len(todo))
  BY <1>1, ViewSplits DEF View, Unread
<1>3. View \in Seq(Byte) /\ Len(View) = n
  <2>1. 1 \in 1..Len(todo) + 1 /\ n \in (1 - 1)..Len(todo) /\ n - 1 + 1 = n
    BY <1>1
  <2> QED BY <1>1, <1>2, <2>1, PieceProperties
<1>4. Unread \in Seq(Byte)
  <2>1. n + 1 \in 1..Len(todo) + 1 /\ Len(todo) \in (n + 1 - 1)..Len(todo)
    BY <1>1
  <2> QED BY <1>1, <1>2, <2>1, PieceProperties
<1> QED BY <1>1, <1>2, <1>3, <1>4

\* What the host stores of an answer keeps its type.
LEMMA AbsorbTyped ==
    ASSUME TypeOK, NEW view \in Seq(Byte), NEW eof \in BOOLEAN,
           NEW out, Typed(out, view, eof), Absorb(out)
    PROVE  /\ carry' \in Seq(Byte) /\ Len(carry') <= CarryCap
           /\ stream_pos' \in Nat
<1>1. out.consumed \in Nat /\ stream_pos \in Nat
  BY DEF Typed, TypeOK
<1> QED BY <1>1 DEF Typed, Absorb

\* So does a frame pushed, whatever the arithmetic of its range saturates at.
LEMMA PushTyped ==
    ASSUME TypeOK, NEW view \in Seq(Byte), NEW eof \in BOOLEAN,
           NEW out, Typed(out, view, eof),
           out.status = "frame", PushFrame(out)
    PROVE  frames' \in Seq(DecodedFrames)
<1> DEFINE start == UnitStart(stream_pos, out.consumed, Len(carry))
           new == Frame(out.kind, out.payload, start, out.frame_len)
<1>1. /\ out.consumed \in Nat /\ stream_pos \in Nat /\ Len(carry) \in Nat
      /\ out.kind \in 0..2 /\ out.payload \in Payloads /\ out.frame_len \in Nat
  BY DEF Typed, TypeOK
<1>2. start \in Nat
  BY <1>1 DEF UnitStart, SaturatingSub
<1> HIDE DEF start
<1>3. new \in DecodedFrames
  BY <1>1, <1>2 DEF Frame, DecodedFrames
<1>4. frames \in Seq(DecodedFrames) /\ frames' = Append(frames, new)
  BY DEF TypeOK, PushFrame, start
<1> HIDE DEF new
<1> QED BY <1>3, <1>4, AppendProperties

LEMMA InitTypeOK == Init => TypeOK
<1> SUFFICES ASSUME Init PROVE TypeOK
  OBVIOUS
<1>1. wire \in Seq(Byte)
  BY ReaderAssumption DEF Init
<1>2. /\ todo \in Seq(Byte) /\ carry \in Seq(Byte) /\ Len(carry) <= CarryCap
      /\ frames \in Seq(DecodedFrames) /\ delivered \in Seq(DecodedFrames)
  BY FramesAssumption DEF Init
<1> QED BY <1>1, <1>2 DEF Init, TypeOK, Control

LEMMA NextTypeOK == TypeOK /\ [Next]_vars => TypeOK'
<1> SUFFICES ASSUME TypeOK, [Next]_vars PROVE TypeOK'
  OBVIOUS
<1> USE DEF Control, sender
<1>1. ASSUME NEW n \in ChunkSizes, Feed(n) PROVE TypeOK'
  <2>1. fed \in Nat /\ Len(wire) \in Nat /\ fed <= Len(wire)
        /\ wire \in Seq(Byte) /\ MaxChunk \in Nat
    BY ReaderAssumption DEF TypeOK
  <2>2. n \in Nat /\ fed + n <= Len(wire)
    BY <2>1 DEF ChunkSizes, AtMost
  <2>3. SubSeq(wire, fed + 1, fed + n) \in Seq(Byte)
    <3>1. /\ fed + 1 \in 1..Len(wire) + 1
          /\ fed + n \in (fed + 1 - 1)..Len(wire)
      BY <2>1, <2>2
    <3> QED BY <2>1, <3>1, PieceProperties
  <2> QED BY <1>1, <2>1, <2>2, <2>3 DEF Feed, TypeOK
<1>2. CASE NextView
  <2> DEFINE out == DecodeFrame(carry, View, FALSE)
  <2>1. View \in Seq(Byte) /\ Unread \in Seq(Byte)
    BY ViewTyped
  <2>2. Typed(out, View, FALSE)
    BY <2>1, AnswerTyped DEF TypeOK
  <2>3. /\ Absorb(out) /\ UNCHANGED <<sent, wire, fed, delivered>>
        /\ \/ /\ out.status = "frame" /\ PushFrame(out)
              /\ pc' = "drain" /\ todo' = Unread /\ error' = error
           \/ /\ pc' = "drain" /\ todo' = Unread
              /\ frames' = frames /\ error' = error
           \/ /\ out.status \notin {"frame", "need_more"}
              /\ pc' = "failed" /\ todo' = << >>
              /\ frames' = << >> /\ error' = out.status
    BY <1>2 DEF NextView, Fail
  <2> HIDE DEF out
  <2>4. /\ carry' \in Seq(Byte) /\ Len(carry') <= CarryCap
        /\ stream_pos' \in Nat
    BY <2>1, <2>2, <2>3, AbsorbTyped
  <2>5. frames' \in Seq(DecodedFrames)
    <3>1. CASE out.status = "frame" /\ PushFrame(out)
      BY <2>1, <2>2, <3>1, PushTyped
    <3>2. CASE frames' = frames
      BY <3>2 DEF TypeOK
    <3>3. CASE frames' = << >>
      BY <3>3, EmptySeq
    <3> QED BY <2>3, <3>1, <3>2, <3>3
  <2>6. pc' \in Control /\ todo' \in Seq(Byte)
    <3>1. pc' \in Control
      BY <2>3
    <3>2. todo' = Unread \/ todo' = << >>
      BY <2>3
    <3>3. << >> \in Seq(Byte)
      BY EmptySeq
    <3> QED BY <2>1, <3>1, <3>2, <3>3
  <2>7. error' \in {"none"} \cup Refusals
    BY <2>2, <2>3 DEF Typed, TypeOK, Refusals
  <2> QED BY <2>3, <2>4, <2>5, <2>6, <2>7 DEF TypeOK, Refusals
<1>3. CASE DrainCarry
  <2>1. CASE carry = << >>
    BY <1>3, <2>1 DEF DrainCarry, TypeOK
  <2>2. CASE carry # << >>
    <3> DEFINE out == DecodeFrame(carry, << >>, FALSE)
    <3>1. << >> \in Seq(Byte)
      OBVIOUS
    <3>2. Typed(out, << >>, FALSE)
      BY <3>1, AnswerTyped DEF TypeOK
    <3>3. /\ Absorb(out) /\ UNCHANGED <<sent, wire, fed, delivered>>
          /\ \/ /\ out.status = "frame" /\ PushFrame(out)
                /\ pc' = pc /\ todo' = todo /\ error' = error
             \/ /\ pc' = "view" /\ todo' = todo
                /\ frames' = frames /\ error' = error
             \/ /\ out.status \notin {"frame", "need_more"}
                /\ pc' = "failed" /\ todo' = << >>
                /\ frames' = << >> /\ error' = out.status
      BY <1>3, <2>2 DEF DrainCarry, Fail
    <3> HIDE DEF out
    <3>4. /\ carry' \in Seq(Byte) /\ Len(carry') <= CarryCap
          /\ stream_pos' \in Nat
      BY <3>1, <3>2, <3>3, AbsorbTyped
    <3>5. frames' \in Seq(DecodedFrames)
      <4>1. CASE out.status = "frame" /\ PushFrame(out)
        BY <3>1, <3>2, <4>1, PushTyped
      <4>2. CASE frames' = frames
        BY <4>2 DEF TypeOK
      <4>3. CASE frames' = << >>
        BY <4>3, EmptySeq
      <4> QED BY <3>3, <4>1, <4>2, <4>3
    <3>6. pc' \in Control /\ todo' \in Seq(Byte)
      BY <3>1, <3>3 DEF TypeOK
    <3>7. error' \in {"none"} \cup Refusals
      BY <3>2, <3>3 DEF Typed, TypeOK, Refusals
    <3> QED BY <3>3, <3>4, <3>5, <3>6, <3>7 DEF TypeOK, Refusals
  <2> QED BY <2>1, <2>2
<1>4. ASSUME NEW next, Return(next)
      PROVE  /\ frames' \in Seq(DecodedFrames)
             /\ delivered' \in Seq(DecodedFrames)
  BY <1>4, ConcatProperties DEF Return, TypeOK
<1>5. CASE FeedReturns
  BY <1>4, <1>5 DEF FeedReturns, Return, TypeOK
<1>6. CASE Finish
  BY <1>6 DEF Finish, TypeOK
<1>7. CASE FlushTail
  <2> DEFINE out == DecodeFrame(carry, << >>, TRUE)
  <2>1. << >> \in Seq(Byte)
    OBVIOUS
  <2>2. Typed(out, << >>, TRUE)
    BY <2>1, AnswerTyped DEF TypeOK
  <2>3. /\ Absorb(out) /\ UNCHANGED <<sent, wire, fed>>
        /\ \/ /\ out.status = "frame" /\ PushFrame(out)
              /\ pc' = pc /\ todo' = todo /\ error' = error
              /\ delivered' = delivered
           \/ /\ Return("finished") /\ todo' = todo /\ error' = error
           \/ /\ out.status \notin {"frame", "complete"}
              /\ pc' = "failed" /\ todo' = << >>
              /\ frames' = << >> /\ error' = out.status
              /\ delivered' = delivered
    BY <1>7 DEF FlushTail, Fail
  <2> HIDE DEF out
  <2>4. /\ carry' \in Seq(Byte) /\ Len(carry') <= CarryCap
        /\ stream_pos' \in Nat
    BY <2>1, <2>2, <2>3, AbsorbTyped
  <2>5. frames' \in Seq(DecodedFrames) /\ delivered' \in Seq(DecodedFrames)
    <3>1. CASE out.status = "frame" /\ PushFrame(out) /\ delivered' = delivered
      BY <2>1, <2>2, <3>1, PushTyped DEF TypeOK
    <3>2. CASE Return("finished")
      BY <1>4, <3>2
    <3>3. CASE frames' = << >> /\ delivered' = delivered
      BY <3>3 DEF TypeOK
    <3> QED BY <2>3, <3>1, <3>2, <3>3
  <2>6. pc' \in Control /\ todo' \in Seq(Byte)
    BY <2>1, <2>3 DEF Return, TypeOK
  <2>7. error' \in {"none"} \cup Refusals
    BY <2>2, <2>3 DEF Typed, TypeOK, Refusals
  <2> QED BY <2>3, <2>4, <2>5, <2>6, <2>7 DEF TypeOK, Refusals
<1>8. CASE UNCHANGED vars
  BY <1>8 DEF vars, TypeOK
<1> QED
  BY <1>1, <1>2, <1>3, <1>5, <1>6, <1>7, <1>8 DEF Next, HostStep

\* Every variable keeps its type: no payload outgrows its bound, no carry its
\* array, and no cursor becomes negative.
THEOREM FrameReaderTypeOK == Spec => []TypeOK
  BY InitTypeOK, NextTypeOK, PTL DEF Spec

-----------------------------------------------------------------------------
(* The host: where the bytes are. *)

\* No view is longer than the carry and one byte more.
ViewsFit == AtMost(ViewBytes, MaxChunk) <= CarryCap + 1

\* The invariant: between calls and views the carry holds no whole frame.
Accounts ==
    /\ BytesAccounted
    /\ CarryFollowsFrames
    /\ pc \in {"idle", "view"} => Short(carry)
    /\ pc \notin {"view", "drain"} => todo = << >>
    /\ Len(todo) <= MaxChunk

\* An answer that covers its view, and cuts what it does not hold.
Covers(out, view) ==
    /\ out.consumed = Len(view)
    /\ Len(out.carry) + CutLen(out) = Len(carry) + Len(view)

\* What the host does with its frames.
FramesMove(out) ==
    \/ out.status = "frame" /\ PushFrame(out) /\ delivered' = delivered
    \/ out.status # "frame" /\ (delivered \o frames)' = delivered \o frames

\* The carry moves on by the frame just pushed, and by nothing otherwise.
LEMMA CarryFollows ==
    ASSUME TypeOK, BytesAccounted, CarryFollowsFrames, pc # "failed",
           NEW view \in Seq(Byte), NEW eof \in BOOLEAN,
           NEW out, Typed(out, view, eof), Covers(out, view),
           Absorb(out), FramesMove(out)
    PROVE  CarryFollowsFrames'
<1>1. /\ Len(carry) \in Nat /\ Len(view) \in Nat /\ stream_pos \in Nat
      /\ Len(out.carry) \in Nat /\ Len(carry) <= stream_pos
      /\ out.consumed = Len(view)
      /\ CutEnd(delivered \o frames) = stream_pos - Len(carry)
      /\ stream_pos' = stream_pos + Len(view) /\ Len(carry') = Len(out.carry)
  BY DEF TypeOK, Typed, BytesAccounted, Accounted, CarryFollowsFrames, Covers,
         Absorb
<1>2. CASE out.status # "frame" /\ (delivered \o frames)' = delivered \o frames
  <2>1. Len(out.carry) = Len(carry) + Len(view)
    BY <1>1, <1>2 DEF CutLen, Covers
  <2>2. stream_pos' - Len(carry') = stream_pos - Len(carry)
    BY <1>1, <2>1
  <2>3. CutEnd(delivered \o frames)' = CutEnd(delivered \o frames)
    BY <1>2 DEF CutEnd
  <2> QED BY <1>1, <2>2, <2>3 DEF CarryFollowsFrames
<1>3. CASE out.status = "frame" /\ PushFrame(out) /\ delivered' = delivered
  <2> DEFINE start == UnitStart(stream_pos, out.consumed, Len(carry))
             new == Frame(out.kind, out.payload, start, out.frame_len)
  <2>1. start = stream_pos - Len(carry)
    BY <1>1, UnitStartsAtCarry
  <2>2. frames' = Append(frames, new) /\ new.byte_end = start + out.frame_len
    BY <1>3 DEF PushFrame, Frame
  <2>3. /\ out.kind \in 0..2 /\ out.payload \in Payloads
        /\ out.frame_len \in Nat
    BY <1>3 DEF Typed
  <2> HIDE DEF start
  <2>4. new \in DecodedFrames
    BY <1>1, <2>1, <2>3 DEF Frame, DecodedFrames
  <2> HIDE DEF new
  <2>5. CutEnd(delivered \o frames)' = start + out.frame_len
    <3>1. frames \in Seq(DecodedFrames) /\ delivered \in Seq(DecodedFrames)
      BY DEF TypeOK
    <3>2. CutEnd(delivered \o Append(frames, new)) = new.byte_end
      BY <2>4, <3>1, LastCut
    <3>3. CutEnd(delivered \o frames)' = CutEnd(delivered \o Append(frames, new))
      BY <1>3, <2>2 DEF CutEnd
    <3> QED BY <2>2, <3>2, <3>3
  <2>6. Len(out.carry) + out.frame_len = Len(carry) + Len(view)
    BY <1>3 DEF CutLen, Covers
  <2>7. stream_pos' - Len(carry') = start + out.frame_len
    <3>1. PICK before \in Nat, after \in Nat, added \in Nat :
              /\ before = Len(carry) /\ after = Len(out.carry)
              /\ added = Len(view)
      BY <1>1
    <3>2. after + out.frame_len = before + added
      BY <2>6, <3>1
    <3>3. stream_pos \in Nat /\ out.frame_len \in Nat
      BY <1>1, <2>3
    <3>4. (stream_pos + added) - after = (stream_pos - before) + out.frame_len
      BY <3>2, <3>3
    <3> QED BY <1>1, <2>1, <3>1, <3>4
  <2> QED BY <2>5, <2>7 DEF CarryFollowsFrames
<1> QED BY <1>2, <1>3 DEF FramesMove

\* What a call returns was cut before.
LEMMA ReturnKeepsCuts ==
    ASSUME TypeOK, NEW next, Return(next)
    PROVE  (delivered \o frames)' = delivered \o frames
<1>1. frames \in Seq(DecodedFrames) /\ delivered \in Seq(DecodedFrames)
  BY DEF TypeOK
<1>2. delivered \o frames \in Seq(DecodedFrames)
  BY <1>1, ConcatProperties
<1>3. (delivered \o frames) \o << >> = delivered \o frames
  BY <1>2, ConcatEmptySeq
<1> QED BY <1>3 DEF Return

LEMMA InitAccounts == Init => Accounts
<1> SUFFICES ASSUME Init PROVE Accounts
  OBVIOUS
<1>1. wire \in Seq(Byte) /\ fed = 0 /\ stream_pos = 0
      /\ carry = << >> /\ todo = << >> /\ MaxChunk \in Nat /\ pc = "idle"
  BY ReaderAssumption DEF Init
<1>2. Accounted(<< >>, << >>, 0, << >>)
  <2>1. SubSeq(<< >>, 1, 0) = << >> /\ Len(<< >>) = 0
    BY EmptySeq, SubSeqEmpty
  <2> QED BY <2>1 DEF Accounted
<1>3. SubSeq(wire, 1, fed) = << >>
  BY <1>1, SubSeqEmpty
<1>4. Accounted(SubSeq(wire, 1, fed), carry, stream_pos, todo)
  BY <1>1, <1>2, <1>3
<1>5. Len(<< >>) = 0
  OBVIOUS
<1>6. CarryFollowsFrames
  <2>1. delivered \o frames = << >>
    BY ConcatEmptySeq, EmptySeq DEF Init
  <2>2. CutEnd(delivered \o frames) = 0
    BY <2>1 DEF CutEnd
  <2>3. stream_pos - Len(carry) = 0
    <3>1. Len(carry) = 0 /\ stream_pos = 0
      BY <1>1
    <3> QED BY <3>1
  <2> QED BY <2>2, <2>3 DEF CarryFollowsFrames
<1> QED BY <1>1, <1>4, <1>5, <1>6 DEF Accounts, BytesAccounted, Short

\* A chunk lengthens the stream at its end.
LEMMA FeedKeepsAccounts ==
    ASSUME TypeOK, Accounts, NEW n \in ChunkSizes, Feed(n)
    PROVE  Accounts'
<1> DEFINE stream == SubSeq(wire, 1, fed)
           chunk == SubSeq(wire, fed + 1, fed + n)
<1>1. /\ wire \in Seq(Byte) /\ fed \in 0..Len(wire) /\ Len(wire) \in Nat
      /\ n \in Nat /\ fed + n <= Len(wire) /\ n <= MaxChunk
      /\ MaxChunk \in Nat /\ stream_pos \in Nat /\ carry \in Seq(Byte)
  BY ReaderAssumption DEF TypeOK, ChunkSizes, AtMost
<1>2. /\ pc = "idle" /\ pc' = "view" /\ todo = << >> /\ todo' = chunk
      /\ fed' = fed + n /\ wire' = wire /\ carry' = carry
      /\ stream_pos' = stream_pos /\ Short(carry)
      /\ Accounted(stream, carry, stream_pos, << >>)
  BY DEF Feed, Accounts, BytesAccounted, sender
<1>3. stream \in Seq(Byte)
  <2>1. 1 \in 1..Len(wire) + 1 /\ fed \in (1 - 1)..Len(wire)
    BY <1>1
  <2> QED BY <1>1, <2>1, PieceProperties
<1>4. chunk \in Seq(Byte) /\ Len(chunk) = n
  <2>1. /\ fed + 1 \in 1..Len(wire) + 1
        /\ fed + n \in (fed + 1 - 1)..Len(wire)
        /\ (fed + n) - (fed + 1) + 1 = n
    BY <1>1
  <2> QED BY <1>1, <2>1, PieceProperties
<1>5. stream \o chunk = SubSeq(wire, 1, fed + n)
  <2>1. /\ 1 \in 1..Len(wire) + 1 /\ fed \in (1 - 1)..Len(wire)
        /\ fed + n \in fed..Len(wire)
    BY <1>1
  <2> QED BY <1>1, <2>1, ConcatAdjacentSubSeq
<1> HIDE DEF stream, chunk
<1>6. Accounted(stream \o chunk, carry, stream_pos, chunk)
  BY <1>1, <1>2, <1>3, <1>4, FeedAccounts
<1>7. Accounted(SubSeq(wire, 1, fed + n), carry, stream_pos, chunk)
  BY <1>5, <1>6
<1>8. BytesAccounted'
  BY <1>2, <1>7 DEF BytesAccounted
<1>9. Short(carry')
  BY <1>2
<1>10. CarryFollowsFrames'
  BY <1>2 DEF Feed, Accounts, CarryFollowsFrames
<1> QED BY <1>1, <1>2, <1>4, <1>8, <1>9, <1>10 DEF Accounts

\* A view moves bytes from the chunk to the frames and the carry.
LEMMA NextViewKeepsAccounts ==
    ASSUME TypeOK, Accounts, ViewsFit, NextView
    PROVE  Accounts'
<1> DEFINE out == DecodeFrame(carry, View, FALSE)
           stream == SubSeq(wire, 1, fed)
<1>1. /\ pc = "view" /\ wire' = wire /\ fed' = fed
      /\ carry' = out.carry /\ stream_pos' = stream_pos + out.consumed
      /\ \/ /\ \/ out.status = "frame" /\ PushFrame(out)
               \/ out.status = "need_more" /\ frames' = frames
            /\ pc' = "drain" /\ todo' = Unread /\ delivered' = delivered
         \/ pc' = "failed" /\ todo' = << >>
  BY DEF NextView, Fail, Absorb, sender
<1>2. /\ Short(carry) /\ Accounted(stream, carry, stream_pos, todo)
      /\ Len(todo) <= MaxChunk
  BY <1>1 DEF Accounts, BytesAccounted
<1>3. /\ carry \in Seq(Byte) /\ Len(carry) <= CarryCap /\ todo \in Seq(Byte)
      /\ stream_pos \in Nat /\ wire \in Seq(Byte) /\ fed \in 0..Len(wire)
      /\ MaxChunk \in Nat /\ ViewBytes \in Nat /\ CarryCap \in Nat
      /\ Len(todo) \in Nat
  BY ReaderAssumption, FramesAssumption DEF TypeOK
<1>4. stream \in Seq(Byte)
  <2>1. 1 \in 1..Len(wire) + 1 /\ fed \in (1 - 1)..Len(wire)
    BY <1>3
  <2> QED BY <1>3, <2>1, PieceProperties
<1>5. PICK n \in 0..Len(todo) :
          /\ n <= ViewBytes /\ n <= Len(todo)
          /\ View = SubSeq(todo, 1, n) /\ Len(View) = n
          /\ Unread = SubSeq(todo, n + 1, Len(todo))
  BY ViewTyped
<1>6. View \in Seq(Byte) /\ Unread \in Seq(Byte)
  BY ViewTyped
<1>7. Len(View) <= CarryCap + 1
  <2>1. n <= AtMost(ViewBytes, MaxChunk)
    BY <1>2, <1>3, <1>5 DEF AtMost
  <2>2. AtMost(ViewBytes, MaxChunk) \in Nat
    BY <1>3 DEF AtMost
  <2> QED BY <1>3, <1>5, <2>1, <2>2 DEF ViewsFit
<1>8. out.carry \in Seq(Byte)
  BY <1>3, <1>6, AnswerTyped DEF Typed
<1>9. CASE /\ \/ out.status = "frame" /\ PushFrame(out)
              \/ out.status = "need_more" /\ frames' = frames
           /\ pc' = "drain" /\ todo' = Unread /\ delivered' = delivered
  <2>1. out.status \notin Refusals
    BY <1>9 DEF Refusals
  <2>2. /\ out.consumed = Len(View) /\ Ends(out.carry, carry \o View)
        /\ Len(out.carry) + CutLen(out) = Len(carry) + Len(View)
    BY <1>2, <1>3, <1>6, <1>7, <2>1, AnswerAccounts
  <2>8. Typed(out, View, FALSE)
    BY <1>3, <1>6, AnswerTyped
  <2> HIDE DEF out, stream
  <2>3. Accounted(stream, out.carry, stream_pos + n,
                  SubSeq(todo, n + 1, Len(todo)))
    <3>1. Ends(out.carry, carry \o SubSeq(todo, 1, n))
      BY <1>5, <2>2
    <3> QED BY <1>2, <1>3, <1>4, <1>8, <3>1, ViewAccounts
  <2>4. Accounted(stream, carry', stream_pos', todo')
    BY <1>1, <1>5, <1>9, <2>2, <2>3
  <2>5. BytesAccounted'
    BY <1>1, <2>4 DEF BytesAccounted, stream
  <2>6. Len(todo') <= MaxChunk
    <3>1. n + 1 \in 1..Len(todo) + 1 /\ Len(todo) \in (n + 1 - 1)..Len(todo)
          /\ Len(todo) - (n + 1) + 1 <= Len(todo)
      BY <1>3
    <3>2. Len(SubSeq(todo, n + 1, Len(todo))) = Len(todo) - (n + 1) + 1
      BY <1>3, <3>1, PieceProperties
    <3>3. Len(todo') = Len(todo) - (n + 1) + 1
      BY <1>5, <1>9, <3>2
    <3> QED BY <1>2, <1>3, <3>1, <3>3
  <2>7. CarryFollowsFrames'
    <3>1. BytesAccounted /\ CarryFollowsFrames /\ pc # "failed"
      BY <1>1 DEF Accounts
    <3>2. FramesMove(out) /\ Covers(out, View) /\ Absorb(out)
      BY <1>1, <1>9, <2>2 DEF FramesMove, Covers, Absorb
    <3> QED BY <1>6, <2>8, <3>1, <3>2, CarryFollows
  <2> QED BY <1>9, <2>5, <2>6, <2>7 DEF Accounts
<1>10. CASE pc' = "failed" /\ todo' = << >>
  BY <1>3, <1>10 DEF Accounts, BytesAccounted, CarryFollowsFrames
<1> QED BY <1>1, <1>9, <1>10

\* A call without a view covers no byte, and holds an end of the carry.
LEMMA CarryAnswer ==
    ASSUME TypeOK, NEW eof \in BOOLEAN,
           DecodeFrame(carry, << >>, eof).status \notin Refusals
    PROVE  LET out == DecodeFrame(carry, << >>, eof)
           IN  /\ out.carry \in Seq(Byte) /\ out.consumed = 0
               /\ Ends(out.carry, carry)
               /\ out.status = "need_more" => Short(out.carry)
               /\ Len(out.carry) + CutLen(out) = Len(carry) + Len(<< >>)
<1> DEFINE out == DecodeFrame(carry, << >>, eof)
<1>1. << >> \in Seq(Byte) /\ Len(<< >>) = 0
  BY EmptySeq
<1>2. carry \in Seq(Byte) /\ Len(carry) <= CarryCap
  BY DEF TypeOK
<1>3. /\ out.consumed = Len(<< >>) /\ Ends(out.carry, carry \o << >>)
      /\ out.status = "need_more" => Short(out.carry)
      /\ Len(out.carry) + CutLen(out) = Len(carry) + Len(<< >>)
  BY <1>1, <1>2, AnswerAccounts
<1>4. out.carry \in Seq(Byte)
  BY <1>1, <1>2, AnswerTyped DEF Typed
<1>5. carry \o << >> = carry
  BY <1>2, ConcatEmptySeq
<1> HIDE DEF out
<1>6. out.consumed = 0 /\ Ends(out.carry, carry)
  BY <1>1, <1>3, <1>5
<1> QED BY <1>3, <1>4, <1>6 DEF out

\* A step that stores such an answer and leaves the chunk alone.
LEMMA CarryKeepsAccounts ==
    ASSUME TypeOK, Accounts, pc # "failed", NEW eof \in BOOLEAN,
           NEW out, out = DecodeFrame(carry, << >>, eof),
           out.status \notin Refusals,
           Absorb(out), FramesMove(out), UNCHANGED <<wire, fed, todo>>
    PROVE  BytesAccounted' /\ CarryFollowsFrames'
<1> DEFINE stream == SubSeq(wire, 1, fed)
<1>1. /\ carry \in Seq(Byte) /\ todo \in Seq(Byte) /\ stream_pos \in Nat
      /\ wire \in Seq(Byte) /\ fed \in 0..Len(wire) /\ Len(carry) <= CarryCap
  BY DEF TypeOK
<1>2. stream \in Seq(Byte)
  <2>1. 1 \in 1..Len(wire) + 1 /\ fed \in (1 - 1)..Len(wire)
    BY <1>1
  <2> QED BY <1>1, <2>1, PieceProperties
<1>3. Accounted(stream, carry, stream_pos, todo)
  BY DEF Accounts, BytesAccounted
<1> HIDE DEF stream
<1>4. /\ out.carry \in Seq(Byte) /\ out.consumed = 0
      /\ Ends(out.carry, carry)
      /\ Len(out.carry) + CutLen(out) = Len(carry) + Len(<< >>)
  BY CarryAnswer
<1>5. Accounted(stream, out.carry, stream_pos, todo)
  BY <1>1, <1>2, <1>3, <1>4, DrainAccounts
<1>6. stream_pos' = stream_pos /\ carry' = out.carry
  BY <1>1, <1>4 DEF Absorb
<1>7. BytesAccounted'
  BY <1>5, <1>6 DEF BytesAccounted, stream
<1>8. CarryFollowsFrames'
  <2>1. << >> \in Seq(Byte) /\ Len(<< >>) = 0
    BY EmptySeq
  <2>2. Typed(out, << >>, eof)
    BY <1>1, <2>1, AnswerTyped
  <2>3. BytesAccounted /\ CarryFollowsFrames
    BY DEF Accounts
  <2>4. Covers(out, << >>)
    BY <1>4, <2>1 DEF Covers
  <2> QED BY <2>1, <2>2, <2>3, <2>4, CarryFollows
<1> QED BY <1>7, <1>8

LEMMA DrainCarryKeepsAccounts ==
    ASSUME TypeOK, Accounts, DrainCarry
    PROVE  Accounts'
<1>1. CASE carry = << >>
  <2>1. /\ pc = "drain" /\ pc' = "view" /\ carry' = << >>
        /\ UNCHANGED <<wire, fed, todo, carry, stream_pos, frames, delivered>>
    BY <1>1 DEF DrainCarry, sender
  <2>2. BytesAccounted' /\ CarryFollowsFrames'
    BY <2>1 DEF BytesAccounted, CarryFollowsFrames, Accounts
  <2>3. Short(<< >>)
    BY DEF Short
  <2>4. Short(carry')
    BY <2>1, <2>3
  <2> QED BY <2>1, <2>2, <2>4 DEF Accounts
<1>2. CASE carry # << >>
  <2> DEFINE out == DecodeFrame(carry, << >>, FALSE)
  <2>1. /\ pc = "drain" /\ wire' = wire /\ fed' = fed
        /\ carry' = out.carry /\ Absorb(out)
        /\ delivered' = delivered
        /\ \/ out.status = "frame" /\ PushFrame(out) /\ pc' = pc /\ todo' = todo
           \/ /\ out.status = "need_more" /\ frames' = frames
              /\ pc' = "view" /\ todo' = todo
           \/ pc' = "failed" /\ todo' = << >>
    BY <1>2, Zenon DEF DrainCarry, Fail, Absorb, sender
  <2>2. CASE pc' = "failed" /\ todo' = << >>
    <3>1. MaxChunk \in Nat
      BY ReaderAssumption
    <3> QED BY <2>2, <3>1 DEF Accounts, BytesAccounted, CarryFollowsFrames
  <2>3. CASE /\ \/ out.status = "frame" /\ PushFrame(out) /\ pc' = "drain"
                \/ /\ out.status = "need_more" /\ frames' = frames
                   /\ pc' = "view"
             /\ todo' = todo
    <3>1. out.status \notin Refusals
      BY <2>3 DEF Refusals
    <3>2. out.status = "need_more" => Short(out.carry)
      BY <3>1, CarryAnswer
    <3>3. BytesAccounted' /\ CarryFollowsFrames'
      <4>1. FramesMove(out)
        BY <2>1, <2>3 DEF FramesMove
      <4> QED BY <2>1, <2>3, <3>1, <4>1, CarryKeepsAccounts
    <3> HIDE DEF out
    <3>4. pc' = "view" => Short(carry')
      BY <2>1, <2>3, <3>2
    <3> QED BY <2>3, <3>3, <3>4 DEF Accounts
  <2> HIDE DEF out
  <2> QED BY <2>1, <2>2, <2>3
<1> QED BY <1>1, <1>2

LEMMA FlushTailKeepsAccounts ==
    ASSUME TypeOK, Accounts, FlushTail
    PROVE  Accounts'
<1> DEFINE out == DecodeFrame(carry, << >>, TRUE)
<1>1. /\ pc = "flush" /\ wire' = wire /\ fed' = fed /\ todo = << >>
      /\ Absorb(out)
      /\ \/ /\ out.status = "frame" /\ PushFrame(out)
            /\ pc' = "flush" /\ todo' = todo /\ delivered' = delivered
         \/ /\ out.status = "complete" /\ Return("finished")
            /\ pc' = "finished" /\ todo' = todo
         \/ pc' = "failed" /\ todo' = << >>
  BY DEF FlushTail, Fail, Absorb, Return, sender, Accounts
<1>2. CASE pc' = "failed" /\ todo' = << >>
  <2>1. MaxChunk \in Nat
    BY ReaderAssumption
  <2> QED BY <1>2, <2>1 DEF Accounts, BytesAccounted, CarryFollowsFrames
<1>3. CASE /\ \/ /\ out.status = "frame" /\ PushFrame(out)
                 /\ delivered' = delivered
              \/ out.status = "complete" /\ Return("finished")
           /\ pc' \in {"flush", "finished"} /\ todo' = todo
  <2>1. out.status \notin Refusals
    BY <1>3 DEF Refusals
  <2>2. FramesMove(out)
    BY <1>3, ReturnKeepsCuts DEF FramesMove
  <2>3. BytesAccounted' /\ CarryFollowsFrames'
    BY <1>1, <1>3, <2>1, <2>2, CarryKeepsAccounts
  <2> QED BY <1>1, <1>3, <2>3 DEF Accounts
<1> HIDE DEF out
<1> QED BY <1>1, <1>2, <1>3

LEMMA NextAccounts == ViewsFit /\ TypeOK /\ Accounts /\ [Next]_vars => Accounts'
<1> SUFFICES ASSUME ViewsFit, TypeOK, Accounts, [Next]_vars PROVE Accounts'
  OBVIOUS
<1> USE DEF Accounts, BytesAccounted, CarryFollowsFrames, sender
<1>1. CASE FeedReturns
  <2>1. (delivered \o frames)' = delivered \o frames
    BY <1>1, ReturnKeepsCuts DEF FeedReturns
  <2> QED BY <1>1, <2>1 DEF FeedReturns, Return
<1>2. CASE Finish
  BY <1>2 DEF Finish
<1>3. CASE UNCHANGED vars
  BY <1>3 DEF vars
<1> QED
  BY <1>1, <1>2, <1>3, FeedKeepsAccounts, NextViewKeepsAccounts,
     DrainCarryKeepsAccounts, FlushTailKeepsAccounts DEF Next, HostStep

\* Every byte fed is in a decoded frame, in the carry or in the rest of the
\* chunk, for every wire and every chunking, when the views fit.
THEOREM FrameReaderNoByteLost ==
    ASSUME ViewsFit
    PROVE  Spec => []NoByteLost
<1>1. Init => TypeOK /\ Accounts
  BY InitTypeOK, InitAccounts
<1>2. TypeOK /\ Accounts /\ [Next]_vars => (TypeOK /\ Accounts)'
  BY NextTypeOK, NextAccounts
<1>3. TypeOK /\ Accounts => NoByteLost
  BY DEF Accounts, NoByteLost
<1> QED BY <1>1, <1>2, <1>3, PTL DEF Spec
-----------------------------------------------------------------------------
(* One call into the language, from whichever step of the host. *)

Decoded == delivered \o frames
HeldFrom == stream_pos - Len(carry)

\* n bytes of the chunk are staged.  A frame is pushed, nothing is added, the
\* stream ends, or the call of feed or finish fails.
Call(n, eof, out) ==
    /\ n \in 0..Len(todo) /\ out = DecodeFrame(carry, SubSeq(todo, 1, n), eof)
    /\ pc \in {"view", "drain", "flush"} /\ (eof <=> pc = "flush")
    /\ Absorb(out) /\ UNCHANGED <<sent, wire, fed>>
    /\ \/ /\ out.status = "frame" /\ PushFrame(out)
          /\ pc' \in {"drain", "flush"} /\ UNCHANGED <<delivered, error>>
       \/ /\ out.status = "need_more" /\ pc' \in {"view", "drain"}
          /\ UNCHANGED <<frames, delivered, error>>
       \/ /\ out.status = "complete" /\ eof
          /\ Decoded' = Decoded /\ frames' = << >>
          /\ pc' = "finished" /\ error' = error
       \/ /\ out.status \in Refusals /\ pc' = "failed" /\ error' = out.status
          /\ frames' = << >> /\ todo' = << >> /\ delivered' = delivered

LEMMA ViewIsACall ==
    ASSUME TypeOK, NextView
    PROVE  \E n \in 0..Len(todo) :
               /\ n <= ViewBytes /\ View = SubSeq(todo, 1, n)
               /\ Call(n, FALSE, DecodeFrame(carry, View, FALSE))
<1> DEFINE out == DecodeFrame(carry, View, FALSE)
<1>1. PICK n \in 0..Len(todo) :
          n <= ViewBytes /\ View = SubSeq(todo, 1, n) /\ Len(View) = n
  BY ViewTyped
<1>2. Typed(out, View, FALSE)
  <2>1. carry \in Seq(Byte) /\ Len(carry) <= CarryCap
    BY DEF TypeOK
  <2> QED BY <2>1, ViewTyped, AnswerTyped
<1>3. out = DecodeFrame(carry, SubSeq(todo, 1, n), FALSE)
  BY <1>1
<1>4. /\ pc = "view" /\ Absorb(out) /\ UNCHANGED <<sent, wire, fed, delivered>>
      /\ \/ /\ out.status = "frame" /\ PushFrame(out)
            /\ pc' = "drain" /\ error' = error
         \/ /\ out.status = "need_more" /\ pc' = "drain"
            /\ UNCHANGED <<frames, error>>
         \/ /\ out.status \notin {"frame", "need_more"} /\ Fail(out.status)
  <2> HIDE DEF out
  <2> QED BY DEF NextView, sender, out
<1> HIDE DEF out
<1>5. out.status \in {"frame", "need_more"} \cup Refusals
  BY <1>2 DEF Typed
<1>6. Call(n, FALSE, out)
  BY <1>3, <1>4, <1>5 DEF Call, Fail
<1> QED BY <1>1, <1>6 DEF out

\* Without a view none of the chunk is staged.
LEMMA NoView ==
    ASSUME TypeOK, NEW eof \in BOOLEAN
    PROVE  /\ SubSeq(todo, 1, 0) = << >> /\ 0 \in 0..Len(todo)
           /\ Typed(DecodeFrame(carry, << >>, eof), << >>, eof)
<1>1. todo \in Seq(Byte) /\ carry \in Seq(Byte) /\ Len(carry) <= CarryCap
  BY DEF TypeOK
<1>2. SubSeq(todo, 1, 0) = << >>
  BY <1>1, SubSeqEmpty
<1>3. 0 \in 0..Len(todo)
  BY <1>1
<1>4. << >> \in Seq(Byte)
  OBVIOUS
<1> QED BY <1>1, <1>2, <1>3, <1>4, AnswerTyped

LEMMA DrainIsACall ==
    ASSUME TypeOK, DrainCarry, carry # << >>
    PROVE  Call(0, FALSE, DecodeFrame(carry, << >>, FALSE))
<1> DEFINE out == DecodeFrame(carry, << >>, FALSE)
<1>1. /\ out.status \in {"frame", "need_more"} \cup Refusals
      /\ out = DecodeFrame(carry, SubSeq(todo, 1, 0), FALSE)
      /\ 0 \in 0..Len(todo)
  BY NoView DEF Typed
<1>2. /\ pc = "drain" /\ Absorb(out) /\ UNCHANGED <<sent, wire, fed, delivered>>
      /\ \/ /\ out.status = "frame" /\ PushFrame(out)
            /\ pc' = "drain" /\ error' = error
         \/ /\ out.status = "need_more" /\ pc' = "view"
            /\ UNCHANGED <<frames, error>>
         \/ /\ out.status \notin {"frame", "need_more"} /\ Fail(out.status)
  <2> HIDE DEF out
  <2> QED BY DEF DrainCarry, sender, out
<1> HIDE DEF out
<1>3. Call(0, FALSE, out)
  BY <1>1, <1>2 DEF Call, Fail
<1> QED BY <1>3 DEF out

LEMMA FlushIsACall ==
    ASSUME TypeOK, FlushTail
    PROVE  Call(0, TRUE, DecodeFrame(carry, << >>, TRUE))
<1> DEFINE out == DecodeFrame(carry, << >>, TRUE)
<1>1. /\ out.status \in {"frame", "complete"} \cup Refusals
      /\ out = DecodeFrame(carry, SubSeq(todo, 1, 0), TRUE)
      /\ 0 \in 0..Len(todo)
  BY NoView DEF Typed
<1>2. /\ pc = "flush" /\ Absorb(out) /\ UNCHANGED <<sent, wire, fed>>
      /\ \/ /\ out.status = "frame" /\ PushFrame(out)
            /\ UNCHANGED <<pc, delivered, error>>
         \/ /\ out.status = "complete" /\ Return("finished")
            /\ error' = error
         \/ /\ out.status \notin {"frame", "complete"} /\ Fail(out.status)
            /\ delivered' = delivered
  <2> HIDE DEF out
  <2> QED BY DEF FlushTail, sender, out
<1> HIDE DEF out
<1>3. Return("finished") => Decoded' = Decoded /\ frames' = << >> /\ pc' = "finished"
  BY ReturnKeepsCuts DEF Return, Decoded
<1>4. Call(0, TRUE, out)
  BY <1>1, <1>2, <1>3 DEF Call, Fail
<1> QED BY <1>4 DEF out

-----------------------------------------------------------------------------
(* Truncation. *)

\* Before the end of input no answer is "truncated".
LEMMA MidstreamIsNotTruncated ==
    ASSUME NEW carry_, NEW view
    PROVE  DecodeFrame(carry_, view, FALSE).status # "truncated"
<1> DEFINE staged == carry_ \o view
           out == DecodeFrame(carry_, view, FALSE)
           length == HeaderLen + U16At(staged, 4) + 2
<1>1. Incomplete(carry_, view, FALSE).status # "truncated"
  BY DEF Incomplete, FrameOut
<1>2. /\ HeaderStatus(staged) # "truncated"
      /\ FailFrame(HeaderStatus(staged), view).status # "truncated"
  BY DEF HeaderStatus, FailFrame, FrameOut
<1>3. DecodeBody(carry_, view, FALSE, length).status # "truncated"
  <2>1. FailFrame("bad_checksum", view).status # "truncated"
    BY DEF FailFrame, FrameOut
  <2>2. EmitFrame(carry_, view, length).status # "truncated"
    BY DEF EmitFrame, FrameOut
  <2> HIDE DEF length
  <2> QED BY <1>1, <2>1, <2>2, Zenon DEF DecodeBody
<1>4. FrameOut("need_more", 0, << >>, 0, << >>, 0).status # "truncated"
  BY DEF FrameOut
<1> HIDE DEF staged, length
<1>5. \/ out = FrameOut("need_more", 0, << >>, 0, << >>, 0)
      \/ out = Incomplete(carry_, view, FALSE)
      \/ out = FailFrame(HeaderStatus(staged), view)
      \/ out = DecodeBody(carry_, view, FALSE, length)
  BY DEF DecodeFrame, staged, length
<1> HIDE DEF out
<1>6. out.status # "truncated"
  BY <1>1, <1>2, <1>3, <1>4, <1>5
<1> QED BY <1>6 DEF out

\* An error is there exactly when a call has failed.
ErrorMeansFailed == error # "none" <=> pc = "failed"

LEMMA NextErrorMeansFailed ==
    ASSUME TypeOK, ErrorMeansFailed, [Next]_vars
    PROVE  /\ ErrorMeansFailed'
           /\ [error' = "truncated" => pc = "flush"]_vars
<1>1. ASSUME NEW n, NEW eof \in BOOLEAN, NEW out, Call(n, eof, out)
      PROVE  ErrorMeansFailed' /\ (error' = "truncated" => pc = "flush")
  <2>1. error = "none"
    BY <1>1 DEF ErrorMeansFailed, Call
  <2>2. out.status = "truncated" => eof
    <3>1. out = DecodeFrame(carry, SubSeq(todo, 1, n), eof)
      BY <1>1 DEF Call
    <3> QED BY <3>1, MidstreamIsNotTruncated
  <2> QED BY <1>1, <2>1, <2>2 DEF ErrorMeansFailed, Call, Refusals
<1>2. CASE NextView
  BY <1>1, <1>2, ViewIsACall
<1>3. CASE DrainCarry
  <2>1. CASE carry = << >>
    BY <1>3, <2>1 DEF DrainCarry, ErrorMeansFailed
  <2>2. CASE carry # << >>
    BY <1>1, <1>3, <2>2, DrainIsACall
  <2> QED BY <2>1, <2>2
<1>4. CASE FlushTail
  BY <1>1, <1>4, FlushIsACall
<1>5. CASE FeedReturns
  BY <1>5 DEF FeedReturns, Return, ErrorMeansFailed
<1>6. CASE Finish
  BY <1>6 DEF Finish, ErrorMeansFailed
<1>7. ASSUME NEW n \in ChunkSizes, Feed(n)
      PROVE  ErrorMeansFailed' /\ (error' = "truncated" => pc = "flush")
  BY <1>7 DEF Feed, ErrorMeansFailed
<1>8. CASE UNCHANGED vars
  BY <1>8 DEF vars, ErrorMeansFailed
<1> QED BY <1>2, <1>3, <1>4, <1>5, <1>6, <1>7, <1>8 DEF Next, HostStep

\* A stream is called truncated by finish alone: mid-stream few bytes are
\* always waited on, whatever the wire, the chunks and the width of views.
THEOREM FrameReaderTruncatedOnlyAtEnd == Spec => TruncatedOnlyAtEnd
<1>1. Init => TypeOK /\ ErrorMeansFailed
  <2>1. Init => ErrorMeansFailed
    BY DEF Init, ErrorMeansFailed
  <2> QED BY <2>1, InitTypeOK
<1>2. TypeOK /\ ErrorMeansFailed /\ [Next]_vars
        => (TypeOK /\ ErrorMeansFailed)' /\ [error' = "truncated" => pc = "flush"]_vars
  BY NextTypeOK, NextErrorMeansFailed
<1> QED BY <1>1, <1>2, PTL DEF Spec, TruncatedOnlyAtEnd
-----------------------------------------------------------------------------
(* The reader implements RecordStream. *)

Ranges == [begin : Nat, end : Nat]

LEMMA UnitsTyped ==
    ASSUME NEW fs \in Seq(DecodedFrames)
    PROVE  /\ UnitsOf(fs) \in Seq(Ranges) /\ Len(UnitsOf(fs)) = Len(fs)
           /\ \A k \in 1..Len(fs) :
                  UnitsOf(fs)[k] = [begin |-> fs[k].byte_start, end |-> fs[k].byte_end]
           /\ UnitsOf(fs) = << >> <=> fs = << >>
<1>1. Len(fs) \in Nat /\ \A k \in 1..Len(fs) : fs[k] \in DecodedFrames
  OBVIOUS
<1>2. \A k \in 1..Len(fs) :
          [begin |-> fs[k].byte_start, end |-> fs[k].byte_end] \in Ranges
  BY <1>1 DEF DecodedFrames, Ranges
<1>3. UnitsOf(fs) \in [1..Len(fs) -> Ranges]
  BY <1>2 DEF UnitsOf
<1>4. UnitsOf(fs) \in Seq(Ranges) /\ Len(UnitsOf(fs)) = Len(fs)
  BY <1>1, <1>3
<1>5. UnitsOf(fs) = << >> <=> fs = << >>
  BY <1>1, <1>4, EmptySeq
<1> QED BY <1>4, <1>5 DEF UnitsOf

\* The units cut so far end where the frames do.
LEMMA UnitsReach ==
    ASSUME NEW fs \in Seq(DecodedFrames)
    PROVE  /\ Stream!Reaches(UnitsOf(fs), CutEnd(fs))
           /\ Stream!Follows(UnitsOf(fs), CutEnd(fs))
<1>1. CASE fs = << >>
  BY <1>1, UnitsTyped DEF Stream!Reaches, Stream!Follows, CutEnd
<1>2. CASE fs # << >>
  <2>1. Len(fs) \in 1..Len(fs)
    BY <1>2, EmptySeq
  <2> DEFINE units == UnitsOf(fs)
  <2>2. /\ units # << >> /\ Len(units) = Len(fs)
        /\ units[Len(fs)].end = fs[Len(fs)].byte_end
    <3>1. /\ units # << >> /\ Len(units) = Len(fs)
          /\ \A k \in 1..Len(fs) :
                 units[k] = [begin |-> fs[k].byte_start, end |-> fs[k].byte_end]
      BY <1>2, UnitsTyped
    <3> HIDE DEF units
    <3>2. units[Len(fs)] = [begin |-> fs[Len(fs)].byte_start,
                            end |-> fs[Len(fs)].byte_end]
      BY <2>1, <3>1
    <3> QED BY <3>1, <3>2
  <2> HIDE DEF units
  <2>3. fs[Len(fs)] \in DecodedFrames
    BY <2>1
  <2>4. fs[Len(fs)].byte_end \in Nat
    BY <2>3 DEF DecodedFrames
  <2>5. Stream!Last(units).end = CutEnd(fs) /\ CutEnd(fs) \in Nat
    BY <1>2, <2>2, <2>4 DEF Stream!Last, CutEnd
  <2>6. CutEnd(fs) - Stream!Last(units).end = 0
    BY <2>5
  <2>7. Stream!Reaches(units, CutEnd(fs)) /\ Stream!Follows(units, CutEnd(fs))
    BY <2>2, <2>6 DEF Stream!Reaches, Stream!Follows
  <2> QED BY <2>7 DEF units
<1> QED BY <1>1, <1>2

\* What the host holds and has cut, as numbers.
HeldBytes ==
    /\ fed \in Nat /\ Len(carry) \in Nat /\ Len(todo) \in Nat
    /\ HeldFrom \in Nat /\ HeldFrom + Len(carry) + Len(todo) = fed
    /\ CutEnd(Decoded) = HeldFrom
    /\ Decoded \in Seq(DecodedFrames) /\ Len(Decoded) \in Nat

LEMMA HeldNumbers == TypeOK /\ Accounts /\ pc # "failed" => HeldBytes
<1> SUFFICES ASSUME TypeOK, Accounts, pc # "failed" PROVE HeldBytes
  OBVIOUS
<1>1. /\ fed \in 0..Len(wire) /\ wire \in Seq(Byte) /\ carry \in Seq(Byte)
      /\ todo \in Seq(Byte) /\ stream_pos \in Nat
      /\ frames \in Seq(DecodedFrames) /\ delivered \in Seq(DecodedFrames)
  BY DEF TypeOK
<1>2. Decoded \in Seq(DecodedFrames)
  BY <1>1, ConcatProperties DEF Decoded
<1>3. Len(SubSeq(wire, 1, fed)) = fed
  <2>1. 1 \in 1..Len(wire) + 1 /\ fed \in (1 - 1)..Len(wire) /\ fed - 1 + 1 = fed
    BY <1>1
  <2> QED BY <1>1, <2>1, PieceProperties
<1>4. /\ Len(carry) <= stream_pos /\ stream_pos + Len(todo) = fed
      /\ CutEnd(Decoded) = stream_pos - Len(carry)
  BY <1>3 DEF Accounts, BytesAccounted, CarryFollowsFrames, Accounted, Decoded
<1>5. fed \in Nat /\ Len(carry) \in Nat /\ Len(todo) \in Nat /\ Len(Decoded) \in Nat
  BY <1>1, <1>2
<1>6. HeldFrom \in Nat /\ HeldFrom + Len(carry) = stream_pos
  <2>1. PICK held \in Nat : held = Len(carry)
    BY <1>5
  <2> QED BY <1>1, <1>4, <2>1 DEF HeldFrom
<1> QED BY <1>2, <1>4, <1>5, <1>6 DEF HeldBytes, HeldFrom

\* So after a step, too.
LEMMA NextHeldNumbers == (TypeOK /\ Accounts /\ pc # "failed")' => HeldBytes'
BY HeldNumbers, PTL

\* A frame that is pushed begins where the carry did, and one more is cut.
LEMMA PushedFrame ==
    ASSUME TypeOK, TypeOK', Accounts, pc # "failed", NEW out,
           out.consumed \in Nat, PushFrame(out), delivered' = delivered
    PROVE  LET new == Frame(out.kind, out.payload, HeldFrom, out.frame_len)
           IN  /\ new \in DecodedFrames
               /\ Decoded' = Append(Decoded, new)
               /\ CutEnd(Decoded)' = new.byte_end
<1> DEFINE new == Frame(out.kind, out.payload, HeldFrom, out.frame_len)
<1>1. /\ frames \in Seq(DecodedFrames) /\ delivered \in Seq(DecodedFrames)
      /\ frames' \in Seq(DecodedFrames) /\ stream_pos \in Nat
      /\ Len(carry) \in Nat /\ Len(carry) <= stream_pos
  BY DEF TypeOK, Accounts, BytesAccounted, Accounted
<1>2. UnitStart(stream_pos, out.consumed, Len(carry)) = HeldFrom
  BY <1>1, UnitStartsAtCarry DEF HeldFrom
<1> HIDE DEF new
<1>3. frames' = Append(frames, new)
  BY <1>2 DEF PushFrame, new
<1>4. new \in DecodedFrames
  <2> DEFINE more == Append(frames, new)
  <2>1. Len(more) = Len(frames) + 1 /\ more[Len(frames) + 1] = new
    BY <1>1
  <2>2. more \in Seq(DecodedFrames) /\ Len(frames) + 1 \in 1..Len(more)
    BY <1>1, <1>3, <2>1
  <2> HIDE DEF more
  <2>3. more[Len(frames) + 1] \in DecodedFrames
    BY <2>2
  <2> QED BY <2>1, <2>3
<1>5. Decoded' = Append(Decoded, new)
  BY <1>1, <1>3, <1>4, AppendToBoth DEF Decoded
<1>6. CutEnd(Decoded)' = new.byte_end
  <2>1. CutEnd(delivered \o Append(frames, new)) = new.byte_end
    BY <1>1, <1>4, LastCut
  <2>2. Decoded' = delivered \o Append(frames, new)
    BY <1>3 DEF Decoded
  <2>3. CutEnd(Decoded') = new.byte_end
    BY <2>1, <2>2
  <2> QED BY <2>3 DEF CutEnd
<1> QED BY <1>4, <1>5, <1>6 DEF new
\* A frame that is pushed is a unit cut off the stream.
LEMMA PushIsACut ==
    ASSUME TypeOK, TypeOK', Accounts, Accounts', pc \notin {"finished", "failed"},
           pc' \notin {"finished", "failed"}, fed' = fed, NEW out,
           out.consumed \in Nat, out.frame_len \in Nat,
           PushFrame(out), delivered' = delivered
    PROVE  Stream!Cut
<1> DEFINE new == Frame(out.kind, out.payload, HeldFrom, out.frame_len)
           units == UnitsOf(Decoded)
<1>1. /\ new \in DecodedFrames /\ Decoded' = Append(Decoded, new)
      /\ CutEnd(Decoded)' = new.byte_end /\ new.byte_start = HeldFrom
      /\ new.byte_end = HeldFrom + out.frame_len
  BY PushedFrame DEF Frame
<1>2. /\ HeldFrom \in Nat /\ CutEnd(Decoded) = HeldFrom /\ fed \in Nat
      /\ Decoded \in Seq(DecodedFrames) /\ Len(Decoded) \in Nat
      /\ HeldFrom + Len(carry) + Len(todo) = fed
      /\ Len(carry) \in Nat /\ Len(todo) \in Nat
  BY HeldNumbers DEF HeldBytes
<1> HIDE DEF new
<1>3. new.byte_end \in HeldFrom..fed /\ HeldFrom \in 0..fed
  <2>1. /\ HeldFrom' \in Nat /\ HeldFrom' + Len(carry)' + Len(todo)' = fed'
        /\ Len(carry)' \in Nat /\ Len(todo)' \in Nat
        /\ CutEnd(Decoded)' = HeldFrom'
    BY NextHeldNumbers DEF HeldBytes
  <2>2. HeldFrom' = new.byte_end
    BY <1>1, <2>1
  <2>3. new.byte_end <= fed
    BY <1>2, <2>1, <2>2
  <2> QED BY <1>1, <1>2, <2>3
<1>4. UnitsOf(Decoded') = Append(units, Stream!Unit(HeldFrom, new.byte_end))
  <2> DEFINE left == UnitsOf(Decoded')
             right == Append(units, Stream!Unit(HeldFrom, new.byte_end))
             count == Len(Decoded)
  <2>1. /\ Decoded' \in Seq(DecodedFrames) /\ Len(Decoded') = count + 1
        /\ Decoded'[count + 1] = new
        /\ \A k \in 1..count : Decoded'[k] = Decoded[k]
    BY <1>1, <1>2, AppendProperties
  <2>2. /\ left \in Seq(Ranges) /\ Len(left) = Len(Decoded')
        /\ \A k \in 1..Len(Decoded') :
               left[k] = [begin |-> Decoded'[k].byte_start,
                          end |-> Decoded'[k].byte_end]
    BY <2>1, UnitsTyped
  <2>3. /\ units \in Seq(Ranges) /\ Len(units) = count
        /\ \A k \in 1..count : units[k] = [begin |-> Decoded[k].byte_start,
                                           end |-> Decoded[k].byte_end]
    BY <1>2, UnitsTyped
  <2> HIDE DEF left, units
  <2>4. Stream!Unit(HeldFrom, new.byte_end) \in Ranges
    BY <1>2, <1>3 DEF Stream!Unit, Ranges
  <2>5. /\ right \in Seq(Ranges) /\ Len(right) = count + 1
        /\ \A k \in 1..count : right[k] = units[k]
        /\ right[count + 1] = Stream!Unit(HeldFrom, new.byte_end)
    BY <2>3, <2>4, AppendProperties
  <2>6. count \in Nat
    BY <1>2
  <2> HIDE DEF right, count
  <2>7. ASSUME NEW k \in 1..Len(left) PROVE left[k] = right[k]
    <3>1. k \in 1..count + 1 /\ k \in 1..Len(Decoded')
      BY <2>1, <2>2
    <3>2. CASE k \in 1..count
      BY <2>1, <2>2, <2>3, <2>5, <3>1, <3>2
    <3>3. CASE k = count + 1
      <4>1. left[k] = [begin |-> new.byte_start, end |-> new.byte_end]
        BY <2>1, <2>2, <3>1, <3>3
      <4> QED BY <1>1, <2>5, <3>3, <4>1 DEF Stream!Unit
    <3> QED BY <2>6, <3>1, <3>2, <3>3
  <2>8. Len(left) = Len(right)
    BY <2>1, <2>2, <2>5
  <2>9. left = right
    BY <2>2, <2>5, <2>7, <2>8, SeqEqual
  <2> QED BY <2>9 DEF left, right
<1>5. Stream!Follows(units, HeldFrom)
  BY <1>2, UnitsReach
<1>6. /\ UnitsOf(delivered' \o frames')
             = Append(UnitsOf(delivered \o frames), Stream!Unit(HeldFrom, new.byte_end))
      /\ Stream!Follows(UnitsOf(delivered \o frames), HeldFrom)
  BY <1>4, <1>5 DEF Decoded
<1> HIDE DEF units
<1> QED BY <1>3, <1>6 DEF Stream!Cut

\* An error takes back the units the running call cut.
LEMMA FailureIsARefusal ==
    ASSUME TypeOK, pc \notin {"finished", "failed"}, pc' = "failed",
           fed' = fed, frames' = << >>, delivered' = delivered
    PROVE  Stream!Refuse
<1> DEFINE all == UnitsOf(Decoded)
           kept == UnitsOf(delivered)
<1>1. delivered \in Seq(DecodedFrames) /\ frames \in Seq(DecodedFrames)
  BY DEF TypeOK
<1>2. delivered' \o frames' = delivered
  BY <1>1, ConcatEmptySeq
<1>3. /\ Decoded \in Seq(DecodedFrames)
      /\ Len(Decoded) = Len(delivered) + Len(frames)
      /\ \A k \in 1..Len(delivered) + Len(frames) :
             Decoded[k] = IF k <= Len(delivered) THEN delivered[k]
                          ELSE frames[k - Len(delivered)]
  BY <1>1, ConcatProperties DEF Decoded
<1>4. PICK n \in Nat, m \in Nat : n = Len(delivered) /\ m = Len(frames)
  BY <1>1
<1>5. /\ all \in Seq(Ranges) /\ Len(all) = n + m
      /\ \A k \in 1..n + m : all[k] = [begin |-> Decoded[k].byte_start,
                                       end |-> Decoded[k].byte_end]
  BY <1>3, <1>4, UnitsTyped
<1>6. /\ kept \in Seq(Ranges) /\ Len(kept) = n
      /\ \A k \in 1..n : kept[k] = [begin |-> delivered[k].byte_start,
                                    end |-> delivered[k].byte_end]
  BY <1>1, <1>4, UnitsTyped
<1> HIDE DEF all, kept
<1>7. \A k \in 1..n : kept[k] = all[1 + k - 1]
  <2> SUFFICES ASSUME NEW k \in 1..n PROVE kept[k] = all[1 + k - 1]
    OBVIOUS
  <2>1. 1 + k - 1 = k /\ k \in 1..n + m /\ k <= n
    BY <1>4
  <2>2. Decoded[k] = delivered[k]
    BY <1>3, <1>4, <2>1
  <2> QED BY <1>5, <1>6, <2>1, <2>2
<1>8. kept = SubSeq(all, 1, n)
  <2>1. 1 \in 1..Len(all) + 1 /\ n \in (1 - 1)..Len(all) /\ Len(kept) = n - 1 + 1
    BY <1>4, <1>5, <1>6
  <2> QED BY <1>5, <1>6, <1>7, <2>1, PieceIsUnique
<1>9. Stream!IsPrefix(kept, all)
  <2>1. kept = SubSeq(kept, 1, Len(kept))
    BY <1>6, SubSeqFull
  <2>2. SubSeq(kept, 1, Len(kept)) = SubSeq(all, 1, Len(kept))
    BY <1>6, <1>8, <2>1, Zenon
  <2>3. Len(kept) <= Len(all)
    BY <1>4, <1>5, <1>6
  <2> QED BY <2>2, <2>3, Zenon DEF Stream!IsPrefix
<1>10. UnitsOf(delivered' \o frames') = kept /\ UnitsOf(delivered \o frames) = all
  BY <1>2 DEF kept, all, Decoded
<1> QED BY <1>9, <1>10 DEF Stream!Refuse

LEMMA SameUnits ==
    ASSUME Decoded' = Decoded
    PROVE  UnitsOf(delivered' \o frames') = UnitsOf(delivered \o frames)
BY DEF Decoded, UnitsOf

LEMMA CallTiles ==
    ASSUME TypeOK, TypeOK', Accounts, Accounts', NEW n, NEW eof \in BOOLEAN,
           NEW out, Call(n, eof, out), out.consumed \in Nat,
           out.status = "frame" => out.frame_len \in Nat,
           out.status = "complete" => carry = << >>
    PROVE  [Stream!Next]_(Stream!vars)
<1>1. /\ pc \in {"view", "drain", "flush"} /\ fed' = fed
      /\ (eof <=> pc = "flush") /\ (eof => todo = << >>)
  BY DEF Call, Accounts
<1>2. CASE out.status = "frame" /\ PushFrame(out) /\ pc' \in {"drain", "flush"}
           /\ delivered' = delivered
  BY <1>1, <1>2, PushIsACut DEF Stream!Next
<1>3. CASE UNCHANGED <<frames, delivered>> /\ pc' \in {"view", "drain"}
  <2>1. UnitsOf(delivered' \o frames') = UnitsOf(delivered \o frames)
    BY <1>3, SameUnits DEF Decoded
  <2> QED BY <1>1, <1>3, <2>1 DEF Stream!vars
<1>4. CASE out.status = "complete" /\ eof /\ Decoded' = Decoded /\ pc' = "finished"
  <2>1. UnitsOf(delivered' \o frames') = UnitsOf(delivered \o frames)
    BY <1>4, SameUnits
  <2>2. Len(<< >>) = 0
    BY EmptySeq
  <2>3. CutEnd(Decoded) = fed /\ Decoded \in Seq(DecodedFrames)
    <3>1. HeldFrom \in Nat /\ HeldFrom + Len(carry) + Len(todo) = fed
      BY <1>1, HeldNumbers DEF HeldBytes
    <3>2. HeldFrom = fed
      BY <1>1, <1>4, <2>2, <3>1
    <3> QED BY <1>1, <3>2, HeldNumbers DEF HeldBytes
  <2>4. Stream!Reaches(UnitsOf(delivered \o frames), fed)
    BY <2>3, UnitsReach DEF Decoded
  <2>5. Stream!Close
    BY <1>1, <1>4, <2>1, <2>4 DEF Stream!Close
  <2> QED BY <2>5 DEF Stream!Next
<1>5. CASE pc' = "failed" /\ frames' = << >> /\ delivered' = delivered
  BY <1>1, <1>5, FailureIsARefusal DEF Stream!Next
<1> QED BY <1>2, <1>3, <1>4, <1>5 DEF Call
\* Only an empty window is complete.
LEMMA CompleteIsEmpty ==
    ASSUME NEW carry_ \in Seq(Byte), NEW eof \in BOOLEAN,
           DecodeFrame(carry_, << >>, eof).status = "complete"
    PROVE  carry_ = << >>
<1> DEFINE staged == carry_ \o << >>
           out == DecodeFrame(carry_, << >>, eof)
           length == HeaderLen + U16At(staged, 4) + 2
<1>1. Incomplete(carry_, << >>, eof).status # "complete"
  BY DEF Incomplete, FailFrame, FrameOut
<1>2. FailFrame(HeaderStatus(staged), << >>).status # "complete"
  BY DEF HeaderStatus, FailFrame, FrameOut
<1>3. DecodeBody(carry_, << >>, eof, length).status # "complete"
  <2>1. FailFrame("bad_checksum", << >>).status # "complete"
    BY DEF FailFrame, FrameOut
  <2>2. EmitFrame(carry_, << >>, length).status # "complete"
    BY DEF EmitFrame, FrameOut
  <2> HIDE DEF length
  <2> QED BY <1>1, <2>1, <2>2, Zenon DEF DecodeBody
<1>4. staged = carry_
  BY ConcatEmptySeq
<1> HIDE DEF staged, length
<1>5. \/ staged = << >>
      \/ out = Incomplete(carry_, << >>, eof)
      \/ out = FailFrame(HeaderStatus(staged), << >>)
      \/ out = DecodeBody(carry_, << >>, eof, length)
  BY DEF DecodeFrame, staged, length
<1> HIDE DEF out
<1>6. out.status = "complete"
  BY DEF out
<1> QED BY <1>1, <1>2, <1>3, <1>4, <1>5, <1>6

\* Every step is one call into the language, or leaves the frames, the stream
\* and what is refused as they are.
LEMMA StepIsACall ==
    ASSUME TypeOK, Accounts, [Next]_vars,
           ~\E n \in ChunkSizes : Feed(n)
    PROVE  \/ \E out : \E n \in 0..Len(todo), eof \in BOOLEAN :
                  /\ Call(n, eof, out) /\ Typed(out, SubSeq(todo, 1, n), eof)
                  /\ \/ n <= ViewBytes /\ pc = "view"
                     \/ n = 0
                  /\ out.status = "complete" => carry = << >>
           \/ /\ UNCHANGED <<sent, wire, fed, carry, stream_pos, error>>
              /\ Decoded' = Decoded
              /\ \/ pc' = pc /\ delivered' = delivered /\ frames' = frames
                 \/ pc = "idle" /\ pc' = "flush" /\ delivered' = delivered
                 \/ pc = "drain" /\ pc' = "view" /\ carry = << >>
                    /\ delivered' = delivered
                 \/ pc = "view" /\ pc' = "idle" /\ todo = << >>
                    /\ frames' = << >>
<1>1. CASE NextView
  <2>1. PICK n \in 0..Len(todo) :
            /\ n <= ViewBytes /\ View = SubSeq(todo, 1, n)
            /\ Call(n, FALSE, DecodeFrame(carry, View, FALSE))
    BY <1>1, ViewIsACall
  <2> DEFINE out == DecodeFrame(carry, View, FALSE)
  <2>2. Typed(out, SubSeq(todo, 1, n), FALSE)
    <3>1. View \in Seq(Byte) /\ carry \in Seq(Byte) /\ Len(carry) <= CarryCap
      BY ViewTyped DEF TypeOK
    <3>2. Typed(out, View, FALSE)
      BY <3>1, AnswerTyped
    <3> QED BY <2>1, <3>2
  <2> HIDE DEF out
  <2>3. out.status # "complete"
    BY <2>2 DEF Typed, Refusals
  <2>4. Call(n, FALSE, out) /\ n <= ViewBytes /\ pc = "view"
    BY <1>1, <2>1 DEF NextView, out
  <2> QED BY <2>2, <2>3, <2>4
<1>2. CASE DrainCarry /\ carry # << >>
  <2> DEFINE out == DecodeFrame(carry, << >>, FALSE)
  <2>1. Call(0, FALSE, out)
    BY <1>2, DrainIsACall
  <2>2. Typed(out, SubSeq(todo, 1, 0), FALSE) /\ 0 \in 0..Len(todo)
    BY NoView
  <2> HIDE DEF out
  <2>3. out.status # "complete"
    BY <2>2 DEF Typed, Refusals
  <2> QED BY <2>1, <2>2, <2>3
<1>3. CASE FlushTail
  <2> DEFINE out == DecodeFrame(carry, << >>, TRUE)
  <2>1. Call(0, TRUE, out)
    BY <1>3, FlushIsACall
  <2>2. Typed(out, SubSeq(todo, 1, 0), TRUE) /\ 0 \in 0..Len(todo)
    BY NoView
  <2>3. out.status = "complete" => carry = << >>
    BY CompleteIsEmpty DEF TypeOK
  <2> HIDE DEF out
  <2> QED BY <2>1, <2>2, <2>3
<1>4. CASE DrainCarry /\ carry = << >>
  BY <1>4 DEF DrainCarry, sender, Decoded
<1>5. CASE FeedReturns
  <2>1. Decoded' = Decoded
    BY <1>5, ReturnKeepsCuts DEF FeedReturns, Decoded
  <2> QED BY <1>5, <2>1 DEF FeedReturns, Return, sender
<1>6. CASE Finish
  BY <1>6 DEF Finish, sender, Decoded
<1>7. CASE UNCHANGED vars
  BY <1>7 DEF vars, sender, Decoded
<1> QED BY <1>1, <1>2, <1>3, <1>4, <1>5, <1>6, <1>7 DEF Next, HostStep

\* A step of the reader is one of RecordStream, or none.
LEMMA NextTiles ==
    ASSUME TypeOK, TypeOK', Accounts, Accounts', [Next]_vars
    PROVE  [Stream!Next]_(Stream!vars)
<1>1. CASE \E n \in ChunkSizes : Feed(n)
  <2>1. PICK n \in ChunkSizes : Feed(n)
    BY <1>1
  <2>2. /\ pc = "idle" /\ pc' = "view" /\ fed' = fed + n
        /\ frames' = frames /\ delivered' = delivered
    BY <2>1 DEF Feed
  <2>3. fed \in Nat /\ fed' \in Nat /\ n \in Nat
    <3>1. fed \in 0..Len(wire) /\ Len(wire) \in Nat /\ MaxChunk \in Nat
      BY ReaderAssumption DEF TypeOK
    <3>2. n \in Nat
      BY <3>1 DEF ChunkSizes, AtMost
    <3> QED BY <2>2, <3>1, <3>2
  <2>4. UnitsOf(delivered' \o frames') = UnitsOf(delivered \o frames)
    BY <2>2, SameUnits DEF Decoded
  <2>5. Stream!Arrive
    BY <2>2, <2>3, <2>4 DEF Stream!Arrive
  <2> QED BY <2>5 DEF Stream!Next
<1>2. CASE \E out : \E n \in 0..Len(todo), eof \in BOOLEAN :
               /\ Call(n, eof, out) /\ Typed(out, SubSeq(todo, 1, n), eof)
               /\ out.status = "complete" => carry = << >>
  <2>1. PICK out : \E n \in 0..Len(todo), eof \in BOOLEAN :
            /\ Call(n, eof, out) /\ Typed(out, SubSeq(todo, 1, n), eof)
            /\ out.status = "complete" => carry = << >>
    BY <1>2
  <2> PICK n \in 0..Len(todo), eof \in BOOLEAN :
            /\ Call(n, eof, out) /\ Typed(out, SubSeq(todo, 1, n), eof)
            /\ out.status = "complete" => carry = << >>
    BY <2>1
  <2>2. /\ out.consumed \in 0..Len(SubSeq(todo, 1, n))
        /\ out.status = "frame" => out.frame_len \in Nat
    BY DEF Typed
  <2>3. out.consumed \in Nat
    BY <2>2
  <2> QED BY <2>2, <2>3, CallTiles
<1>3. CASE /\ fed' = fed /\ Decoded' = Decoded
           /\ \/ pc' = pc
              \/ pc = "idle" /\ pc' = "flush"
              \/ pc = "drain" /\ pc' = "view"
              \/ pc = "view" /\ pc' = "idle"
  <2>1. UnitsOf(delivered' \o frames') = UnitsOf(delivered \o frames)
    BY <1>3, SameUnits
  <2> QED BY <1>3, <2>1 DEF Stream!vars
<1> QED BY <1>1, <1>2, <1>3, StepIsACall

\* The reader implements RecordStream: the frames tile the stream without a
\* gap, in order, and it closes only at the end, whatever the wire carries.
THEOREM FrameReaderTilesTheStream ==
    ASSUME ViewsFit
    PROVE  Spec => TilesTheStream
<1>1. Init => Stream!Init
  <2> SUFFICES ASSUME Init PROVE Stream!Init
    OBVIOUS
  <2>1. fed = 0 /\ delivered = << >> /\ frames = << >> /\ pc = "idle"
    BY DEF Init
  <2>2. << >> \o << >> = << >> /\ << >> \in Seq(DecodedFrames)
    BY ConcatEmptySeq, EmptySeq
  <2>3. UnitsOf(delivered \o frames) = << >>
    BY <2>1, <2>2, UnitsTyped
  <2> QED BY <2>1, <2>3 DEF Stream!Init
<1>2. Init => TypeOK /\ Accounts
  BY InitTypeOK, InitAccounts
<1>3. TypeOK /\ Accounts /\ [Next]_vars => (TypeOK /\ Accounts)'
  BY NextTypeOK, NextAccounts
<1>4. TypeOK /\ TypeOK' /\ Accounts /\ Accounts' /\ [Next]_vars
        => [Stream!Next]_(Stream!vars)
  BY NextTiles
<1> QED BY <1>1, <1>2, <1>3, <1>4, PTL DEF Spec, TilesTheStream, Stream!Spec


-----------------------------------------------------------------------------
(* The two byte sums, and the lengths of frames, position by position. *)

AddWrapped(sum, b) == (sum + b) % 65536

LEMMA WrappedSumRuns ==
    ASSUME NEW s \in Seq(Nat)
    PROVE  \E run \in [0..Len(s) -> Nat] :
               /\ run[0] = 0 /\ WrappedSum(s) = run[Len(s)]
               /\ \A i \in 1..Len(s) : run[i] = AddWrapped(run[i - 1], s[i])
<1> DEFINE Recurs(f, n) ==
               f = [T \in SUBSET (1..n) |->
                       IF T = {} THEN 0
                       ELSE AddWrapped(f[T \ {Max(T)}], s[Max(T)])]
           step == [i \in 1..Len(s) |-> [v \in Nat |-> AddWrapped(v, s[i])]]
<1>1. Len(s) \in Nat /\ DOMAIN s = 1..Len(s) /\ \A i \in 1..Len(s) : s[i] \in Nat
  OBVIOUS
<1>2. \A i \in 1..Len(s) : \A v \in Nat :
          step[i][v] = AddWrapped(v, s[i]) /\ step[i][v] \in Nat
  BY <1>1 DEF AddWrapped
<1>3. WrappedSum(s) = (CHOOSE f : Recurs(f, Len(s)))[1..Len(s)]
  BY <1>1 DEF WrappedSum, FoldLeft, MapThenFoldSet, AddWrapped
<1> HIDE DEF step
<1>4. PICK n \in Nat : n = Len(s)
  BY <1>1
<1>5. PICK f : FoldOf(f, n, Nat, 0, step)
  <2> DEFINE V == Nat
             base == 0
  <2>1. base \in V /\ \A i \in 1..n : \A v \in V : step[i][v] \in V
    BY <1>2, <1>4
  <2> HIDE DEF V, base
  <2>2. \E f : FoldOf(f, n, V, base, step)
    BY <2>1, SetRecursion
  <2> QED BY <2>2 DEF V, base
<1>6. \E h : Recurs(h, n)
  <2>1. ASSUME NEW T \in SUBSET (1..n), T # {}
        PROVE  step[Max(T)][f[T \ {Max(T)}]] = AddWrapped(f[T \ {Max(T)}], s[Max(T)])
    <3>1. Max(T) \in 1..n /\ f[T \ {Max(T)}] \in Nat
      BY <1>5, <2>1, MaxOfPositions DEF FoldOf
    <3> QED BY <1>2, <1>4, <3>1
  <2>2. Recurs(f, n)
    BY <1>5, <2>1 DEF FoldOf
  <2> QED BY <2>2
<1>7. PICK g : Recurs(g, n) /\ WrappedSum(s) = g[1..n]
  <2> HIDE DEF Recurs
  <2> QED BY <1>3, <1>4, <1>6
<1>8. FoldsIn(g, n, Nat, 0, step)
  <2>1. ASSUME NEW T \in (SUBSET (1..n)) \ {{}}, g[T \ {Max(T)}] \in Nat
        PROVE  g[T] = step[Max(T)][g[T \ {Max(T)}]]
    <3>1. Max(T) \in 1..n
      BY MaxOfPositions
    <3>2. g[T] = AddWrapped(g[T \ {Max(T)}], s[Max(T)])
      BY <1>7
    <3> QED BY <1>2, <1>4, <2>1, <3>1, <3>2
  <2>2. g[{}] = 0
    BY <1>7
  <2> QED BY <2>1, <2>2 DEF FoldsIn
<1> HIDE DEF Recurs
<1>9. PICK run \in [0..n -> Nat] :
          /\ run[0] = 0 /\ g[1..n] = run[n]
          /\ \A i \in 1..n : run[i] = step[i][run[i - 1]]
  <2> DEFINE V == Nat
             base == 0
  <2>1. base \in V /\ \A i \in 1..n : \A v \in V : step[i][v] \in V
    BY <1>2, <1>4
  <2>2. FoldsIn(g, n, V, base, step)
    BY <1>8
  <2> HIDE DEF V, base
  <2>3. \E run \in [0..n -> V] :
            /\ run[0] = base /\ g[1..n] = run[n]
            /\ \A i \in 1..n : run[i] = step[i][run[i - 1]]
    BY <2>1, <2>2, FoldRuns
  <2> QED BY <2>3 DEF V, base
<1>10. ASSUME NEW i \in 1..n PROVE run[i] = AddWrapped(run[i - 1], s[i])
  <2>1. i - 1 \in 0..n
    OBVIOUS
  <2>2. run[i - 1] \in Nat
    BY <2>1
  <2> QED BY <1>2, <1>4, <1>9, <2>2
<1> QED BY <1>4, <1>7, <1>9, <1>10

LEMMA TotalRuns ==
    ASSUME NEW s \in Seq(Nat)
    PROVE  \E run \in [0..Len(s) -> Nat] :
               /\ run[0] = 0 /\ Total(s) = run[Len(s)]
               /\ \A i \in 1..Len(s) : run[i] = run[i - 1] + s[i]
<1> DEFINE Recurs(f, n) ==
               f = [T \in SUBSET (1..n) |->
                       IF T = {} THEN 0
                       ELSE f[T \ {Max(T)}] + s[Max(T)]]
           step == [i \in 1..Len(s) |-> [v \in Nat |-> v + s[i]]]
<1>1. Len(s) \in Nat /\ DOMAIN s = 1..Len(s) /\ \A i \in 1..Len(s) : s[i] \in Nat
  OBVIOUS
<1>2. \A i \in 1..Len(s) : \A v \in Nat :
          step[i][v] = v + s[i] /\ step[i][v] \in Nat
  BY <1>1
<1>3. Total(s) = (CHOOSE f : Recurs(f, Len(s)))[1..Len(s)]
  BY <1>1 DEF Total, FoldLeft, MapThenFoldSet
<1> HIDE DEF step
<1>4. PICK n \in Nat : n = Len(s)
  BY <1>1
<1>5. PICK f : FoldOf(f, n, Nat, 0, step)
  <2> DEFINE V == Nat
             base == 0
  <2>1. base \in V /\ \A i \in 1..n : \A v \in V : step[i][v] \in V
    BY <1>2, <1>4
  <2> HIDE DEF V, base
  <2>2. \E f : FoldOf(f, n, V, base, step)
    BY <2>1, SetRecursion
  <2> QED BY <2>2 DEF V, base
<1>6. \E h : Recurs(h, n)
  <2>1. ASSUME NEW T \in SUBSET (1..n), T # {}
        PROVE  step[Max(T)][f[T \ {Max(T)}]] = f[T \ {Max(T)}] + s[Max(T)]
    <3>1. Max(T) \in 1..n /\ f[T \ {Max(T)}] \in Nat
      BY <1>5, <2>1, MaxOfPositions DEF FoldOf
    <3> QED BY <1>2, <1>4, <3>1
  <2>2. Recurs(f, n)
    BY <1>5, <2>1 DEF FoldOf
  <2> QED BY <2>2
<1>7. PICK g : Recurs(g, n) /\ Total(s) = g[1..n]
  <2> HIDE DEF Recurs
  <2> QED BY <1>3, <1>4, <1>6
<1>8. FoldsIn(g, n, Nat, 0, step)
  <2>1. ASSUME NEW T \in (SUBSET (1..n)) \ {{}}, g[T \ {Max(T)}] \in Nat
        PROVE  g[T] = step[Max(T)][g[T \ {Max(T)}]]
    <3>1. Max(T) \in 1..n
      BY MaxOfPositions
    <3>2. g[T] = g[T \ {Max(T)}] + s[Max(T)]
      BY <1>7
    <3> QED BY <1>2, <1>4, <2>1, <3>1, <3>2
  <2>2. g[{}] = 0
    BY <1>7
  <2> QED BY <2>1, <2>2 DEF FoldsIn
<1> HIDE DEF Recurs
<1>9. PICK run \in [0..n -> Nat] :
          /\ run[0] = 0 /\ g[1..n] = run[n]
          /\ \A i \in 1..n : run[i] = step[i][run[i - 1]]
  <2> DEFINE V == Nat
             base == 0
  <2>1. base \in V /\ \A i \in 1..n : \A v \in V : step[i][v] \in V
    BY <1>2, <1>4
  <2>2. FoldsIn(g, n, V, base, step)
    BY <1>8
  <2> HIDE DEF V, base
  <2>3. \E run \in [0..n -> V] :
            /\ run[0] = base /\ g[1..n] = run[n]
            /\ \A i \in 1..n : run[i] = step[i][run[i - 1]]
    BY <2>1, <2>2, FoldRuns
  <2> QED BY <2>3 DEF V, base
<1>10. ASSUME NEW i \in 1..n PROVE run[i] = run[i - 1] + s[i]
  <2>1. i - 1 \in 0..n
    OBVIOUS
  <2>2. run[i - 1] \in Nat
    BY <2>1
  <2> QED BY <1>2, <1>4, <1>9, <2>2
<1> QED BY <1>4, <1>7, <1>9, <1>10

\* Summing first and taking the remainder once, as the encoder does, or at
\* every byte, as the decoder does, is the same.
LEMMA SumsAgree ==
    ASSUME NEW s \in Seq(Nat)
    PROVE  Total(s) \in Nat /\ WrappedSum(s) = Total(s) % 65536
<1>1. PICK n \in Nat : n = Len(s) /\ \A i \in 1..n : s[i] \in Nat
  OBVIOUS
<1>2. PICK wrapped \in [0..n -> Nat] :
          /\ wrapped[0] = 0 /\ WrappedSum(s) = wrapped[n]
          /\ \A i \in 1..n : wrapped[i] = AddWrapped(wrapped[i - 1], s[i])
  BY <1>1, WrappedSumRuns
<1>3. PICK total \in [0..n -> Nat] :
          /\ total[0] = 0 /\ Total(s) = total[n]
          /\ \A i \in 1..n : total[i] = total[i - 1] + s[i]
  BY <1>1, TotalRuns
<1> DEFINE rest(t) == t % 65536
           Same == {i \in 0..n : wrapped[i] = rest(total[i])}
<1>4. \A t, b \in Nat : AddWrapped(rest(t), b) = rest(t + b)
  BY DEF AddWrapped
<1>5. 0 \in Same
  BY <1>2, <1>3
<1> HIDE DEF rest
<1>6. ASSUME NEW i \in 1..n, i - 1 \in Same PROVE i \in Same
  <2>1. total[i - 1] \in Nat /\ s[i] \in Nat
    BY <1>1, <1>6
  <2>2. wrapped[i - 1] = rest(total[i - 1])
    BY <1>6
  <2>3. wrapped[i] = AddWrapped(wrapped[i - 1], s[i])
    BY <1>2
  <2>4. wrapped[i] = rest(total[i - 1] + s[i])
    BY <1>4, <2>1, <2>2, <2>3
  <2>5. total[i] = total[i - 1] + s[i] /\ i \in 0..n
    BY <1>3
  <2> QED BY <2>4, <2>5
<1>7. Same \in SUBSET (0..n)
  OBVIOUS
<1> HIDE DEF Same
<1>8. n \in Same
  <2>1. Same = 0..n
    BY <1>5, <1>6, <1>7, AtEveryPosition
  <2> QED BY <2>1
<1>9. wrapped[n] = rest(total[n])
  BY <1>8 DEF Same
<1> QED BY <1>2, <1>3, <1>9 DEF rest

LEMMA TotalOfOneMore ==
    ASSUME NEW s \in Seq(Nat), NEW t \in Seq(Nat), Len(t) = Len(s) + 1,
           \A i \in 1..Len(s) : t[i] = s[i]
    PROVE  Total(t) = Total(s) + t[Len(t)]
<1>1. PICK n \in Nat : n = Len(s) /\ n + 1 = Len(t)
  OBVIOUS
<1>2. PICK less \in [0..n -> Nat] :
          /\ less[0] = 0 /\ Total(s) = less[n]
          /\ \A i \in 1..n : less[i] = less[i - 1] + s[i]
  BY <1>1, TotalRuns
<1>3. PICK more \in [0..(n + 1) -> Nat] :
          /\ more[0] = 0 /\ Total(t) = more[n + 1]
          /\ \A i \in 1..(n + 1) : more[i] = more[i - 1] + t[i]
  <2> PICK m \in Nat : m = Len(t) /\ m = n + 1
    BY <1>1
  <2>1. \E more \in [0..m -> Nat] :
            /\ more[0] = 0 /\ Total(t) = more[m]
            /\ \A i \in 1..m : more[i] = more[i - 1] + t[i]
    BY TotalRuns
  <2> QED BY <2>1
<1> DEFINE Same == {i \in 0..n : more[i] = less[i]}
<1>4. 0 \in Same
  BY <1>2, <1>3
<1>5. ASSUME NEW i \in 1..n, i - 1 \in Same PROVE i \in Same
  <2>1. more[i] = more[i - 1] + t[i] /\ t[i] = s[i]
    BY <1>1, <1>3
  <2>2. less[i] = less[i - 1] + s[i]
    BY <1>2
  <2> QED BY <1>5, <2>1, <2>2
<1>6. Same \in SUBSET (0..n)
  OBVIOUS
<1> HIDE DEF Same
<1>7. n \in Same
  <2>1. Same = 0..n
    BY <1>4, <1>5, <1>6, AtEveryPosition
  <2> QED BY <2>1
<1>8. more[n] = less[n]
  BY <1>7 DEF Same
<1>9. more[n + 1] = more[n] + t[n + 1]
  <2>1. n + 1 \in 1..(n + 1) /\ (n + 1) - 1 = n
    OBVIOUS
  <2> QED BY <1>3, <2>1
<1> QED BY <1>1, <1>2, <1>3, <1>8, <1>9

-----------------------------------------------------------------------------
(* Where the frames of a sender are in the wire. *)

\* What the encoder accepts.
Sendable == [kind : 0..2, payload : Payloads]

LEMMA FrameLenTyped ==
    ASSUME NEW f \in Sendable
    PROVE  /\ f.payload \in Seq(Byte) /\ Len(f.payload) \in Nat
           /\ Len(f.payload) <= MaxPayload
           /\ FrameLen(f) = Len(f.payload) + 8 /\ FrameLen(f) \in Nat
           /\ f.kind \in 0..2
<1>1. f.payload \in Seq(Byte) /\ Len(f.payload) <= MaxPayload /\ f.kind \in 0..2
  BY DEF Sendable, Payloads
<1> QED BY <1>1 DEF FrameLen, HeaderLen

LEMMA FrameBegins ==
    ASSUME NEW fs \in Seq(Sendable)
    PROVE  /\ FrameBegin(fs, 1) = 0
           /\ \A k \in 1..(Len(fs) + 1) : FrameBegin(fs, k) \in Nat
           /\ \A k \in 1..Len(fs) :
                  FrameBegin(fs, k + 1) = FrameBegin(fs, k) + FrameLen(fs[k])
<1> DEFINE lens(k) == [i \in 1..(k - 1) |-> FrameLen(fs[i])]
<1>1. PICK n \in Nat : n = Len(fs) /\ \A i \in 1..n : fs[i] \in Sendable
  OBVIOUS
<1>2. \A i \in 1..n : FrameLen(fs[i]) \in Nat
  BY <1>1, FrameLenTyped
<1>3. ASSUME NEW k \in 1..(n + 1)
      PROVE  lens(k) \in Seq(Nat) /\ Len(lens(k)) = k - 1
  <2>1. k - 1 \in Nat /\ \A i \in 1..(k - 1) : FrameLen(fs[i]) \in Nat
    BY <1>2
  <2>2. lens(k) \in [1..(k - 1) -> Nat]
    BY <2>1
  <2> QED BY <2>1, <2>2
<1>4. ASSUME NEW k \in 1..(n + 1)
      PROVE  FrameBegin(fs, k) = Total(lens(k)) /\ Total(lens(k)) \in Nat
  <2>1. Total(lens(k)) \in Nat
    <3>1. lens(k) \in Seq(Nat)
      BY <1>3
    <3> HIDE DEF lens
    <3> QED BY <3>1, SumsAgree
  <2> QED BY <2>1 DEF FrameBegin
<1>5. FrameBegin(fs, 1) = 0
  <2>1. 1 \in 1..(n + 1) /\ 1 - 1 = 0
    OBVIOUS
  <2>2. lens(1) \in Seq(Nat) /\ Len(lens(1)) = 0
    BY <1>3, <2>1
  <2>3. Total(lens(1)) = 0
    <3> HIDE DEF lens
    <3> QED BY <2>2, TotalRuns
  <2> QED BY <1>4, <2>1, <2>3
<1>6. ASSUME NEW k \in 1..n
      PROVE  FrameBegin(fs, k + 1) = FrameBegin(fs, k) + FrameLen(fs[k])
  <2> DEFINE s == lens(k)
             t == lens(k + 1)
  <2>1. /\ k \in 1..(n + 1) /\ k + 1 \in 1..(n + 1) /\ (k + 1) - 1 = k
        /\ k \in 1..k /\ \A i \in 1..(k - 1) : i \in 1..k
    OBVIOUS
  <2>2. /\ s \in Seq(Nat) /\ Len(s) = k - 1 /\ t \in Seq(Nat) /\ Len(t) = k
    BY <1>3, <2>1
  <2>3. t[k] = FrameLen(fs[k]) /\ \A i \in 1..(k - 1) : t[i] = s[i]
    BY <2>1
  <2>4. FrameBegin(fs, k) = Total(s) /\ FrameBegin(fs, k + 1) = Total(t)
    BY <1>4, <2>1
  <2> HIDE DEF s, t
  <2>5. Len(t) = Len(s) + 1
    BY <2>2
  <2>6. Total(t) = Total(s) + t[Len(t)]
    BY <2>2, <2>3, <2>5, TotalOfOneMore
  <2> QED BY <2>2, <2>3, <2>4, <2>6
<1> HIDE DEF lens
<1> QED BY <1>1, <1>4, <1>5, <1>6

\* Later frames begin later.
LEMMA FramesAscend ==
    ASSUME NEW fs \in Seq(Sendable), NEW k \in 1..(Len(fs) + 1),
           NEW j \in 1..Len(fs), j < k
    PROVE  FrameBegin(fs, j + 1) <= FrameBegin(fs, k)
<1>1. PICK n \in Nat : n = Len(fs) /\ \A i \in 1..n : fs[i] \in Sendable
  OBVIOUS
<1>2. PICK d \in Nat : k = j + 1 + d
  <2>1. k - j - 1 \in Nat /\ k = j + 1 + (k - j - 1)
    OBVIOUS
  <2> QED BY <2>1
<1> DEFINE Later == {i \in 0..d : FrameBegin(fs, j + 1) <= FrameBegin(fs, j + 1 + i)}
<1>3. 0 \in Later
  <2>1. j + 1 \in 1..(n + 1) /\ j + 1 + 0 = j + 1
    BY <1>1
  <2>2. FrameBegin(fs, j + 1) \in Nat
    BY <1>1, <2>1, FrameBegins
  <2> QED BY <2>1, <2>2
<1>4. ASSUME NEW i \in 1..d, i - 1 \in Later PROVE i \in Later
  <2>1. /\ j + i \in 1..n /\ j + 1 + i = (j + i) + 1 /\ j + 1 + (i - 1) = j + i
        /\ j + 1 \in 1..(n + 1) /\ j + i \in 1..(n + 1)
    BY <1>1, <1>2
  <2>2. /\ FrameBegin(fs, j + 1 + i) = FrameBegin(fs, j + i) + FrameLen(fs[j + i])
        /\ FrameBegin(fs, j + i) \in Nat /\ FrameBegin(fs, j + 1) \in Nat
    BY <1>1, <2>1, FrameBegins
  <2>3. FrameLen(fs[j + i]) \in Nat
    BY <1>1, <2>1, FrameLenTyped
  <2>4. FrameBegin(fs, j + 1) <= FrameBegin(fs, j + i)
    BY <1>4, <2>1
  <2> QED BY <2>2, <2>3, <2>4
<1>5. Later \in SUBSET (0..d)
  OBVIOUS
<1> HIDE DEF Later
<1>6. d \in Later
  <2>1. Later = 0..d
    BY <1>3, <1>4, <1>5, AtEveryPosition
  <2> QED BY <2>1
<1> QED BY <1>2, <1>6 DEF Later

-----------------------------------------------------------------------------
(* What the encoder writes. *)

Encoded(f) == EncodeFrame(1, f.kind, f.payload)

LEMMA TwoBytes ==
    ASSUME NEW n \in Nat
    PROVE  /\ n % 256 \in 0..255 /\ n \div 256 \in Nat
           /\ (n % 256) + 256 * (n \div 256) = n
OBVIOUS

LEMMA EncodedBytes ==
    ASSUME NEW f \in Sendable
    PROVE  LET e == Encoded(f)
               n == Len(f.payload)
           IN  /\ e \in Seq(Nat) /\ Len(e) = FrameLen(f)
               /\ e[1] = MagicLo /\ e[2] = MagicHi /\ e[3] = 1 /\ e[4] = f.kind
               /\ U16At(e, 4) = n
               /\ \A i \in 1..n : e[6 + i] = f.payload[i]
               /\ U16At(e, n + 6) = WrappedSum(SubSeq(e, 1, n + 6))
               /\ e[5] \in 0..255 /\ e[n + 7] \in 0..255
<1> DEFINE lo(x) == x % 256
           hi(x) == x \div 256
<1>1. \A x \in Nat : /\ lo(x) \in 0..255 /\ lo(x) \in Nat /\ hi(x) \in Nat
                      /\ lo(x) + 256 * hi(x) = x
  BY TwoBytes
<1>2. PICK n \in Nat : n = Len(f.payload) /\ FrameLen(f) = n + 8
  BY FrameLenTyped
<1> DEFINE header == <<MagicLo, MagicHi, 1, f.kind, lo(n), hi(n)>>
           front == header \o f.payload
           sum == Total(front) % 65536
           foot == <<lo(sum), hi(sum)>>
           e == front \o foot
<1>3. Encoded(f) = e
  BY <1>2 DEF Encoded, EncodeFrame
<1> HIDE DEF lo, hi
<1>4. f.kind \in Nat /\ f.payload \in Seq(Nat) /\ Len(f.payload) = n
  <2>1. f.payload \in Seq(Byte) /\ f.kind \in 0..2
    BY FrameLenTyped
  <2>2. \A i \in 1..n : f.payload[i] \in Nat
    BY <1>2, <2>1, ByteRange
  <2> QED BY <1>2, <2>1, <2>2
<1>5. header \in Seq(Nat) /\ Len(header) = 6
  BY <1>1, <1>4 DEF MagicLo, MagicHi
<1>6. /\ header[1] = MagicLo /\ header[2] = MagicHi /\ header[3] = 1
      /\ header[4] = f.kind /\ header[5] = lo(n) /\ header[6] = hi(n)
  OBVIOUS
<1> HIDE DEF header
<1>7. /\ front \in Seq(Nat) /\ Len(front) = n + 6
      /\ \A i \in 1..6 : front[i] = header[i]
      /\ \A i \in 1..n : front[6 + i] = f.payload[i]
  <2>1. /\ front \in Seq(Nat) /\ Len(front) = 6 + n
        /\ \A i \in 1..(6 + n) :
               front[i] = IF i <= 6 THEN header[i] ELSE f.payload[i - 6]
    <3>1. /\ front \in Seq(Nat) /\ Len(front) = Len(header) + Len(f.payload)
          /\ \A i \in 1..Len(header) + Len(f.payload) :
                 front[i] = IF i <= Len(header) THEN header[i]
                            ELSE f.payload[i - Len(header)]
      BY <1>4, <1>5, ConcatProperties
    <3> HIDE DEF front
    <3> QED BY <1>4, <1>5, <3>1
  <2> HIDE DEF front
  <2>2. ASSUME NEW i \in 1..n PROVE front[6 + i] = f.payload[i]
    <3>1. 6 + i \in 1..(6 + n) /\ ~(6 + i <= 6) /\ (6 + i) - 6 = i
      OBVIOUS
    <3> QED BY <2>1, <3>1
  <2> QED BY <2>1, <2>2
<1> HIDE DEF front
<1>8. sum \in Nat /\ WrappedSum(front) = sum
  <2>1. Total(front) \in Nat /\ WrappedSum(front) = Total(front) % 65536
    BY <1>7, SumsAgree
  <2>2. \A t \in Nat : t % 65536 \in Nat
    OBVIOUS
  <2> QED BY <2>1, <2>2
<1> HIDE DEF sum
<1>9. /\ foot \in Seq(Nat) /\ Len(foot) = 2 /\ foot[1] = lo(sum) /\ foot[2] = hi(sum)
  BY <1>1, <1>8
<1> HIDE DEF foot
<1>10. /\ e \in Seq(Nat) /\ Len(e) = n + 8
       /\ \A i \in 1..(n + 6) : e[i] = front[i]
       /\ e[n + 7] = foot[1] /\ e[n + 8] = foot[2]
  <2>1. /\ e \in Seq(Nat) /\ Len(e) = (n + 6) + 2
        /\ \A i \in 1..((n + 6) + 2) :
               e[i] = IF i <= n + 6 THEN front[i] ELSE foot[i - (n + 6)]
    <3>1. /\ e \in Seq(Nat) /\ Len(e) = Len(front) + Len(foot)
          /\ \A i \in 1..Len(front) + Len(foot) :
                 e[i] = IF i <= Len(front) THEN front[i]
                        ELSE foot[i - Len(front)]
      BY <1>7, <1>9, ConcatProperties
    <3> HIDE DEF e
    <3> QED BY <1>7, <1>9, <3>1
  <2> HIDE DEF e
  <2>2. e[n + 7] = foot[1]
    <3>1. n + 7 \in 1..((n + 6) + 2) /\ ~(n + 7 <= n + 6) /\ (n + 7) - (n + 6) = 1
      OBVIOUS
    <3> QED BY <2>1, <3>1
  <2>3. e[n + 8] = foot[2]
    <3>1. n + 8 \in 1..((n + 6) + 2) /\ ~(n + 8 <= n + 6) /\ (n + 8) - (n + 6) = 2
      OBVIOUS
    <3> QED BY <2>1, <3>1
  <2> QED BY <2>1, <2>2, <2>3
<1> HIDE DEF e
<1>11. /\ e[1] = MagicLo /\ e[2] = MagicHi /\ e[3] = 1 /\ e[4] = f.kind
       /\ e[5] = lo(n) /\ e[6] = hi(n)
  <2>1. \A i \in 1..6 : i \in 1..(n + 6) /\ e[i] = header[i]
    BY <1>7, <1>10
  <2> QED BY <1>6, <2>1
<1>12. U16At(e, 4) = n
  <2>1. U16At(e, 4) = e[4 + 1] + 256 * e[4 + 2]
    BY DEF U16At
  <2>2. 4 + 1 = 5 /\ 4 + 2 = 6
    OBVIOUS
  <2>3. U16At(e, 4) = e[5] + 256 * e[6]
    BY <2>1, <2>2
  <2> QED BY <1>1, <1>11, <2>3
<1>13. \A i \in 1..n : e[6 + i] = f.payload[i]
  <2>1. \A i \in 1..n : 6 + i \in 1..(n + 6)
    OBVIOUS
  <2> QED BY <1>7, <1>10, <2>1
<1>14. U16At(e, n + 6) = sum
  <2>1. U16At(e, n + 6) = e[(n + 6) + 1] + 256 * e[(n + 6) + 2]
    BY DEF U16At
  <2>2. (n + 6) + 1 = n + 7 /\ (n + 6) + 2 = n + 8
    OBVIOUS
  <2> QED BY <1>1, <1>8, <1>9, <1>10, <2>1, <2>2
<1>15. front = SubSeq(e, 1, n + 6)
  <2>1. 1 \in 1..(Len(e) + 1) /\ n + 6 \in (1 - 1)..Len(e) /\ Len(front) = n + 6 - 1 + 1
    BY <1>7, <1>10
  <2>2. \A i \in 1..Len(front) : front[i] = e[1 + i - 1]
    BY <1>7, <1>10
  <2> QED BY <1>7, <1>10, <2>1, <2>2, PieceIsUnique
<1>16. U16At(e, n + 6) = WrappedSum(SubSeq(e, 1, n + 6))
  BY <1>8, <1>14, <1>15
<1>17. e[5] \in 0..255 /\ e[n + 7] \in 0..255
  BY <1>1, <1>8, <1>9, <1>10, <1>11
<1> QED BY <1>2, <1>3, <1>10, <1>11, <1>12, <1>13, <1>16, <1>17

-----------------------------------------------------------------------------
(* The wire of an undamaged transmission. *)

\* Byte i of frame k is where the frames before it end.
Carries(w, fs, k) ==
    \A i \in 1..FrameLen(fs[k]) : w[FrameBegin(fs, k) + i] = Encoded(fs[k])[i]

LEMMA WireBytes ==
    ASSUME NEW fs \in Seq(Sendable)
    PROVE  /\ WireOf(fs) \in Seq(Nat)
           /\ Len(WireOf(fs)) = FrameBegin(fs, Len(fs) + 1)
           /\ \A k \in 1..Len(fs) : Carries(WireOf(fs), fs, k)
<1> DEFINE seqs == [k \in 1..Len(fs) |-> EncodeFrame(1, fs[k].kind, fs[k].payload)]
<1>1. PICK n \in Nat : n = Len(fs) /\ \A k \in 1..n : fs[k] \in Sendable
  OBVIOUS
<1>2. ASSUME NEW k \in 1..n
      PROVE  /\ seqs[k] = Encoded(fs[k]) /\ seqs[k] \in Seq(Nat)
             /\ Len(seqs[k]) = FrameLen(fs[k])
  <2>1. seqs[k] = Encoded(fs[k])
    BY <1>1 DEF Encoded
  <2> HIDE DEF seqs
  <2>2. Encoded(fs[k]) \in Seq(Nat) /\ Len(Encoded(fs[k])) = FrameLen(fs[k])
    BY <1>1, EncodedBytes
  <2> QED BY <2>1, <2>2
<1>3. seqs \in Seq(Seq(Nat)) /\ Len(seqs) = n
  <2>1. seqs \in [1..n -> Seq(Nat)]
    BY <1>1, <1>2
  <2> QED BY <1>1, <2>1
<1>4. WireOf(fs) = FlattenSeq(seqs)
  BY DEF WireOf
<1> HIDE DEF seqs
<1>5. PICK run \in [0..n -> Seq(Nat)] :
          /\ run[0] = << >> /\ FlattenSeq(seqs) = run[n]
          /\ \A i \in 1..n : run[i] = run[i - 1] \o seqs[i]
  <2>1. \E run \in [0..Len(seqs) -> Seq(Nat)] :
            /\ run[0] = << >> /\ FlattenSeq(seqs) = run[Len(seqs)]
            /\ \A i \in 1..Len(seqs) : run[i] = run[i - 1] \o seqs[i]
    BY <1>3, FlattenRuns
  <2> QED BY <1>3, <2>1
<1>6. /\ FrameBegin(fs, 1) = 0
      /\ \A k \in 1..(n + 1) : FrameBegin(fs, k) \in Nat
      /\ \A k \in 1..n : FrameBegin(fs, k + 1) = FrameBegin(fs, k) + FrameLen(fs[k])
  BY <1>1, FrameBegins
<1> DEFINE Good == {i \in 0..n : /\ Len(run[i]) = FrameBegin(fs, i + 1)
                                 /\ \A k \in 1..i : Carries(run[i], fs, k)}
<1>7. 0 \in Good
  <2>1. Len(run[0]) = 0 /\ 0 + 1 = 1 /\ 1..0 = {}
    BY <1>5, PositionsUpTo, EmptySeq
  <2> QED BY <1>6, <2>1
<1>8. ASSUME NEW i \in 1..n, i - 1 \in Good PROVE i \in Good
  <2> DEFINE w == run[i - 1]
             v == run[i]
  <2>1. PICK b \in Nat : b = FrameBegin(fs, i)
    <3>1. i \in 1..(n + 1)
      OBVIOUS
    <3> QED BY <1>6, <3>1
  <2>2. w \in Seq(Nat) /\ Len(w) = b /\ \A k \in 1..(i - 1) : Carries(w, fs, k)
    <3>1. i - 1 \in 0..n /\ (i - 1) + 1 = i
      OBVIOUS
    <3> QED BY <1>8, <2>1, <3>1
  <2>3. v = w \o seqs[i] /\ seqs[i] = Encoded(fs[i])
    BY <1>2, <1>5
  <2>4. PICK l \in Nat : l = FrameLen(fs[i]) /\ l = Len(seqs[i])
    BY <1>1, <1>2, FrameLenTyped
  <2> HIDE DEF w, v
  <2>5. /\ Len(v) = b + l
        /\ \A j \in 1..(b + l) : v[j] = IF j <= b THEN w[j] ELSE seqs[i][j - b]
    <3>1. /\ Len(v) = Len(w) + Len(seqs[i])
          /\ \A j \in 1..Len(w) + Len(seqs[i]) :
                 v[j] = IF j <= Len(w) THEN w[j] ELSE seqs[i][j - Len(w)]
      BY <1>2, <2>2, <2>3, ConcatProperties
    <3> QED BY <2>2, <2>4, <3>1
  <2>6. Len(v) = FrameBegin(fs, i + 1)
    BY <1>6, <2>1, <2>4, <2>5
  <2>7. Carries(v, fs, i)
    <3>1. ASSUME NEW j \in 1..l PROVE v[b + j] = Encoded(fs[i])[j]
      <4>1. b + j \in 1..(b + l) /\ ~(b + j <= b) /\ (b + j) - b = j
        OBVIOUS
      <4> QED BY <2>3, <2>5, <4>1
    <3> QED BY <2>1, <2>4, <3>1 DEF Carries
  <2>8. ASSUME NEW k \in 1..(i - 1) PROVE Carries(v, fs, k)
    <3>1. Carries(w, fs, k) /\ k \in 1..n /\ k < i /\ i \in 1..(n + 1)
      BY <2>2
    <3>2. PICK a \in Nat, m \in Nat : a = FrameBegin(fs, k) /\ m = FrameLen(fs[k])
      <4>1. k \in 1..(n + 1)
        BY <3>1
      <4> QED BY <1>1, <1>6, <3>1, <4>1, FrameLenTyped
    <3>3. a + m <= b
      <4>1. FrameBegin(fs, k + 1) <= FrameBegin(fs, i)
        BY <1>1, <3>1, FramesAscend
      <4> QED BY <1>6, <2>1, <3>1, <3>2, <4>1
    <3>4. ASSUME NEW j \in 1..m PROVE v[a + j] = Encoded(fs[k])[j]
      <4>1. a + j \in 1..(b + l) /\ a + j <= b
        BY <3>3
      <4>2. w[a + j] = Encoded(fs[k])[j]
        BY <3>1, <3>2 DEF Carries
      <4> QED BY <2>5, <4>1, <4>2
    <3> QED BY <3>2, <3>4 DEF Carries
  <2>9. \A k \in 1..i : Carries(v, fs, k)
    <3>1. \A k \in 1..i : k = i \/ k \in 1..(i - 1)
      OBVIOUS
    <3> QED BY <2>7, <2>8, <3>1
  <2> QED BY <2>6, <2>9 DEF v
<1>9. Good \in SUBSET (0..n)
  OBVIOUS
<1> HIDE DEF Good
<1>10. n \in Good
  <2>1. Good = 0..n
    BY <1>7, <1>8, <1>9, AtEveryPosition
  <2> QED BY <2>1
<1>11. n \in 0..n /\ run[n] \in Seq(Nat)
  OBVIOUS
<1> QED BY <1>1, <1>4, <1>5, <1>10, <1>11 DEF Good

-----------------------------------------------------------------------------
(* The decoder on the bytes of an encoded frame. *)

\* A window that begins as the frame does, as far as either goes.
Heads(s, f) == \A i \in 1..Len(s) : i <= FrameLen(f) => s[i] = Encoded(f)[i]

LEMMA SoundHeader ==
    ASSUME NEW s \in Seq(Byte), NEW f \in Sendable, Heads(s, f),
           Len(s) >= HeaderLen
    PROVE  /\ s[4] = f.kind /\ U16At(s, 4) = Len(f.payload)
           /\ HeaderStatus(s) = "sound"
<1> DEFINE e == Encoded(f)
<1>1. PICK n \in Nat : /\ n = Len(f.payload) /\ n <= MaxPayload
                       /\ FrameLen(f) = n + 8 /\ f.kind \in 0..2
  BY FrameLenTyped
<1>2. /\ e[1] = MagicLo /\ e[2] = MagicHi /\ e[3] = 1 /\ e[4] = f.kind
      /\ U16At(e, 4) = n
  BY <1>1, EncodedBytes
<1> HIDE DEF e
<1>3. \A i \in 1..6 : s[i] = e[i]
  <2>1. Len(s) \in Nat /\ Len(s) >= 6
    BY DEF HeaderLen
  <2>2. \A i \in 1..6 : i \in 1..Len(s) /\ i <= FrameLen(f)
    BY <1>1, <2>1
  <2> QED BY <2>2 DEF Heads, e
<1>4. /\ s[1] = MagicLo /\ s[2] = MagicHi /\ s[3] = 1 /\ s[4] = f.kind
      /\ s[4 + 1] = e[4 + 1] /\ s[4 + 2] = e[4 + 2]
  BY <1>2, <1>3
<1>5. U16At(s, 4) = n
  BY <1>2, <1>4 DEF U16At
<1>6. ~(s[4] > 2) /\ ~(U16At(s, 4) > MaxPayload)
  BY <1>1, <1>4, <1>5, FramesAssumption
<1>7. HeaderStatus(s) = "sound"
  BY <1>4, <1>6 DEF HeaderStatus
<1> QED BY <1>1, <1>4, <1>5, <1>7

LEMMA SoundBody ==
    ASSUME NEW s \in Seq(Byte), NEW f \in Sendable, Heads(s, f),
           Len(s) >= FrameLen(f)
    PROVE  /\ SubSeq(s, HeaderLen + 1, FrameLen(f) - 2) = f.payload
           /\ U16At(s, FrameLen(f) - 2) = Checksum(s, FrameLen(f) - 2)
<1> DEFINE e == Encoded(f)
<1>1. PICK n \in Nat : /\ n = Len(f.payload) /\ FrameLen(f) = n + 8
                       /\ f.payload \in Seq(Byte)
  BY FrameLenTyped
<1>2. /\ e \in Seq(Nat) /\ Len(e) = n + 8
      /\ \A i \in 1..n : e[6 + i] = f.payload[i]
      /\ U16At(e, n + 6) = WrappedSum(SubSeq(e, 1, n + 6))
  BY <1>1, EncodedBytes
<1> HIDE DEF e
<1>3. PICK m \in Nat : m = Len(s) /\ n + 8 <= m
  BY <1>1
<1>4. \A i \in 1..(n + 8) : s[i] = e[i]
  <2>1. \A i \in 1..(n + 8) : i \in 1..Len(s) /\ i <= FrameLen(f)
    BY <1>1, <1>3
  <2> QED BY <2>1 DEF Heads, e
<1>5. f.payload = SubSeq(s, 7, n + 6)
  <2>1. 7 \in 1..(Len(s) + 1) /\ n + 6 \in (7 - 1)..Len(s) /\ n = n + 6 - 7 + 1
    BY <1>3
  <2>2. ASSUME NEW i \in 1..n PROVE f.payload[i] = s[7 + i - 1]
    <3>1. 6 + i \in 1..(n + 8) /\ 7 + i - 1 = 6 + i
      OBVIOUS
    <3> QED BY <1>2, <1>4, <3>1
  <2> QED BY <1>1, <2>1, <2>2, PieceIsUnique
<1>6. SubSeq(e, 1, n + 6) = SubSeq(s, 1, n + 6)
  <2> DEFINE piece == SubSeq(s, 1, n + 6)
  <2>1. 1 \in 1..(Len(s) + 1) /\ n + 6 \in (1 - 1)..Len(s)
    BY <1>3
  <2>2. /\ piece \in Seq(Byte) /\ Len(piece) = n + 6 - 1 + 1
        /\ \A i \in 1..(n + 6 - 1 + 1) : piece[i] = s[1 + i - 1]
    BY <2>1, PieceProperties
  <2> HIDE DEF piece
  <2>3. Len(piece) = n + 6 /\ \A i \in 1..(n + 6) : piece[i] = s[i]
    BY <2>2
  <2>4. piece \in Seq(Nat)
    <3>1. \A i \in 1..Len(piece) : piece[i] \in Nat
      BY <2>2, ByteRange
    <3> QED BY <2>2, <3>1
  <2>5. 1 \in 1..(Len(e) + 1) /\ n + 6 \in (1 - 1)..Len(e)
        /\ Len(piece) = n + 6 - 1 + 1
    BY <1>2, <2>3
  <2>6. \A i \in 1..Len(piece) : piece[i] = e[1 + i - 1]
    <3>1. \A i \in 1..(n + 6) : i \in 1..(n + 8) /\ 1 + i - 1 = i
      OBVIOUS
    <3> QED BY <1>4, <2>3, <3>1
  <2>7. piece = SubSeq(e, 1, n + 6)
    BY <1>2, <2>4, <2>5, <2>6, PieceIsUnique
  <2> QED BY <2>7 DEF piece
<1>7. U16At(s, n + 6) = U16At(e, n + 6)
  <2>1. (n + 6) + 1 \in 1..(n + 8) /\ (n + 6) + 2 \in 1..(n + 8)
    OBVIOUS
  <2>2. s[(n + 6) + 1] = e[(n + 6) + 1] /\ s[(n + 6) + 2] = e[(n + 6) + 2]
    BY <1>4, <2>1
  <2> QED BY <2>2 DEF U16At
<1>8. U16At(s, n + 6) = Checksum(s, n + 6)
  BY <1>2, <1>6, <1>7 DEF Checksum
<1>9. FrameLen(f) - 2 = n + 6 /\ HeaderLen + 1 = 7
  BY <1>1 DEF HeaderLen
<1> QED BY <1>5, <1>8, <1>9

\* So a window of a sound wire is decoded, or waited on.
LEMMA SoundAnswer ==
    ASSUME NEW carry_ \in Seq(Byte), NEW view \in Seq(Byte), NEW eof \in BOOLEAN,
           NEW f \in Sendable, Heads(carry_ \o view, f), carry_ \o view # << >>
    PROVE  LET out == DecodeFrame(carry_, view, eof)
           IN  /\ Len(carry_ \o view) < FrameLen(f)
                    => out = Incomplete(carry_, view, eof)
               /\ Len(carry_ \o view) >= FrameLen(f)
                    => /\ out.status = "frame" /\ out.frame_len = FrameLen(f)
                       /\ out.kind = f.kind /\ out.payload = f.payload
<1> DEFINE staged == carry_ \o view
           out == DecodeFrame(carry_, view, eof)
           length == HeaderLen + U16At(staged, 4) + 2
<1>1. staged \in Seq(Byte) /\ Len(staged) \in Nat /\ staged # << >> /\ Heads(staged, f)
  BY WindowTyped
<1>2. PICK n \in Nat : n = Len(f.payload) /\ FrameLen(f) = n + 8
  BY FrameLenTyped
<1>3. CASE Len(staged) < HeaderLen
  <2>1. out = Incomplete(carry_, view, eof)
    BY <1>3 DEF DecodeFrame
  <2>2. Len(staged) < FrameLen(f)
    BY <1>1, <1>2, <1>3 DEF HeaderLen
  <2> QED BY <1>2, <2>1, <2>2
<1>4. CASE ~(Len(staged) < HeaderLen)
  <2> HIDE DEF staged, length
  <2>1. HeaderStatus(staged) = "sound" /\ staged[4] = f.kind /\ length = FrameLen(f)
    <3>1. /\ HeaderStatus(staged) = "sound" /\ staged[4] = f.kind
          /\ U16At(staged, 4) = n
      <4>1. Len(staged) >= HeaderLen
        BY <1>1, <1>4 DEF HeaderLen
      <4> QED BY <1>1, <1>2, <4>1, SoundHeader
    <3>2. length = HeaderLen + n + 2
      BY <3>1 DEF length
    <3>3. HeaderLen + n + 2 = n + 8
      BY DEF HeaderLen
    <3> QED BY <1>2, <3>1, <3>2, <3>3
  <2>2. out = DecodeBody(carry_, view, eof, length)
    BY <1>1, <1>4, <2>1 DEF DecodeFrame, staged, length
  <2> HIDE DEF out
  <2>3. CASE Len(staged) < length
    <3>1. out = Incomplete(carry_, view, eof)
      BY <2>2, <2>3 DEF DecodeBody, staged
    <3> QED BY <1>1, <1>2, <2>1, <2>3, <3>1 DEF staged, out
  <2>4. CASE ~(Len(staged) < length)
    <3>1. /\ SubSeq(staged, HeaderLen + 1, length - 2) = f.payload
          /\ U16At(staged, length - 2) = Checksum(staged, length - 2)
      <4>1. Len(staged) >= FrameLen(f)
        BY <1>1, <1>2, <2>1, <2>4
      <4> QED BY <1>1, <2>1, <4>1, SoundBody
    <3>2. out = EmitFrame(carry_, view, length)
      BY <2>2, <2>4, <3>1 DEF DecodeBody, staged
    <3>3. /\ out.status = "frame" /\ out.frame_len = length
          /\ out.kind = staged[4]
          /\ out.payload = SubSeq(staged, HeaderLen + 1, length - 2)
      BY <3>2 DEF EmitFrame, FrameOut, staged
    <3> QED BY <2>1, <2>4, <3>1, <3>3 DEF staged, out
  <2> QED BY <2>3, <2>4
<1> QED BY <1>3, <1>4

-----------------------------------------------------------------------------
(* Counting frames. *)

LEMMA WithinFrames ==
    ASSUME NEW fs \in Seq(Sendable), NEW m \in 0..Len(fs), NEW x \in Nat,
           FrameBegin(fs, m + 1) <= x,
           m < Len(fs) => x < FrameBegin(fs, m + 2)
    PROVE  FramesWithin(fs, x) = m
<1> DEFINE whole == {k \in 1..Len(fs) : FrameBegin(fs, k + 1) <= x}
<1>1. PICK n \in Nat : n = Len(fs) /\ m \in 0..n
  OBVIOUS
<1>2. \A k \in 1..(n + 1) : FrameBegin(fs, k) \in Nat
  BY <1>1, FrameBegins
<1>3. ASSUME NEW k \in 1..m PROVE FrameBegin(fs, k + 1) <= x /\ k \in 1..n
  <2>1. /\ k \in 1..n /\ m + 1 \in 1..(n + 1) /\ k < m + 1
        /\ k + 1 \in 1..(n + 1)
    BY <1>1
  <2>2. FrameBegin(fs, k + 1) <= FrameBegin(fs, m + 1)
    BY <1>1, <2>1, FramesAscend
  <2>3. /\ FrameBegin(fs, k + 1) \in Nat /\ FrameBegin(fs, m + 1) \in Nat
    BY <1>2, <2>1
  <2> QED BY <2>1, <2>2, <2>3
<1>4. ASSUME NEW k \in 1..n, k \notin 1..m PROVE ~(FrameBegin(fs, k + 1) <= x)
  <2>1. /\ m < n /\ m + 1 \in 1..n /\ k + 1 \in 1..(n + 1) /\ m + 1 < k + 1
        /\ (m + 1) + 1 = m + 2 /\ m + 2 \in 1..(n + 1)
    BY <1>1, <1>4
  <2>2. FrameBegin(fs, (m + 1) + 1) <= FrameBegin(fs, k + 1)
    BY <1>1, <2>1, FramesAscend
  <2>3. /\ FrameBegin(fs, k + 1) \in Nat /\ FrameBegin(fs, m + 2) \in Nat
        /\ x < FrameBegin(fs, m + 2)
    BY <1>1, <1>2, <2>1
  <2> QED BY <2>1, <2>2, <2>3
<1>5. whole = 1..m
  BY <1>1, <1>3, <1>4
<1>6. Cardinality(1..m) = m
  <2>1. Cardinality(1..m) = IF 1 > m THEN 0 ELSE m - 1 + 1
    BY <1>1, FS_Interval
  <2> QED BY <1>1, <2>1
<1> QED BY <1>5, <1>6 DEF FramesWithin

\* Frame k as the reader ought to deliver it.
SentAs(fs, k) ==
    [kind       |-> fs[k].kind,
     payload    |-> fs[k].payload,
     byte_start |-> FrameBegin(fs, k),
     byte_end   |-> FrameBegin(fs, k + 1)]

AreSent(fs, ds) ==
    /\ Len(ds) <= Len(fs)
    /\ \A k \in 1..Len(ds) : ds[k] = SentAs(fs, k)

\* The frames decoded are the first frames of the sender.
FirstSent == AreSent(sent, Decoded)

LEMMA DecodedAre == FirstSent <=> AreSent(sent, Decoded)
BY DEF FirstSent

LEMMA NextDecodedAre == FirstSent' <=> AreSent(sent', Decoded')
<1>1. FirstSent' <=> AreSent(sent, Decoded)'
  BY DecodedAre, PTL
<1> QED BY <1>1 DEF AreSent, SentAs, FrameBegin

LEMMA OneMoreIsSent ==
    ASSUME NEW S, NEW fs, NEW ds \in Seq(S), NEW new \in S, Len(fs) \in Nat,
           AreSent(fs, ds), Len(ds) < Len(fs), new = SentAs(fs, Len(ds) + 1)
    PROVE  AreSent(fs, Append(ds, new))
<1> DEFINE more == Append(ds, new)
<1>1. /\ Len(more) = Len(ds) + 1 /\ more[Len(ds) + 1] = new
      /\ \A k \in 1..Len(ds) : more[k] = ds[k]
  BY AppendProperties
<1> HIDE DEF more
<1>2. PICK n \in Nat : n = Len(ds)
  OBVIOUS
<1>3. ASSUME NEW k \in 1..(n + 1) PROVE more[k] = SentAs(fs, k)
  <2>1. k \in 1..n \/ k = n + 1
    OBVIOUS
  <2> QED BY <1>1, <1>2, <2>1 DEF AreSent
<1>4. n + 1 <= Len(fs)
  BY <1>2
<1> QED BY <1>1, <1>2, <1>3, <1>4 DEF AreSent, more

LEMMA FirstAreSent ==
    ASSUME NEW S, NEW fs, Len(fs) \in Nat, NEW ds \in Seq(S), NEW es \in Seq(S),
           AreSent(fs, ds \o es)
    PROVE  AreSent(fs, ds)
<1> DEFINE all == ds \o es
<1>1. PICK n \in Nat, m \in Nat : n = Len(ds) /\ m = Len(es)
  OBVIOUS
<1>2. /\ Len(all) = Len(ds) + Len(es)
      /\ \A k \in 1..Len(ds) + Len(es) :
             all[k] = IF k <= Len(ds) THEN ds[k] ELSE es[k - Len(ds)]
  BY ConcatProperties
<1>3. Len(all) <= Len(fs) /\ \A k \in 1..Len(all) : all[k] = SentAs(fs, k)
  BY DEF AreSent
<1> HIDE DEF all
<1>4. ASSUME NEW k \in 1..n PROVE ds[k] = SentAs(fs, k)
  <2>1. k \in 1..(n + m) /\ k <= n
    OBVIOUS
  <2> QED BY <1>1, <1>2, <1>3, <2>1
<1>5. n <= Len(fs)
  BY <1>1, <1>2, <1>3
<1> QED BY <1>1, <1>4, <1>5 DEF AreSent

-----------------------------------------------------------------------------
(* What the reader holds is the beginning of the next frame sent. *)

\* A window is in the wire, from where the carry begins.
LEMMA WindowInWire ==
    ASSUME TypeOK, Accounts, pc # "failed", NEW n \in 0..Len(todo)
    PROVE  LET window == carry \o SubSeq(todo, 1, n)
           IN  /\ window \in Seq(Byte) /\ Len(window) = Len(carry) + n
               /\ \A i \in 1..Len(window) : window[i] = wire[HeldFrom + i]
               /\ HeldFrom \in Nat /\ HeldFrom + Len(window) <= fed
               /\ fed \in 0..Len(wire)
<1> DEFINE window == carry \o SubSeq(todo, 1, n)
           stream == SubSeq(wire, 1, fed)
<1>1. /\ fed \in Nat /\ HeldFrom \in Nat /\ Len(carry) \in Nat /\ Len(todo) \in Nat
      /\ HeldFrom + Len(carry) + Len(todo) = fed
  BY HeldNumbers DEF HeldBytes
<1>2. PICK c \in Nat : c = Len(carry)
  BY <1>1
<1>5. /\ wire \in Seq(Byte) /\ fed \in 0..Len(wire) /\ carry \in Seq(Byte)
      /\ todo \in Seq(Byte) /\ stream_pos \in Nat
      /\ Accounted(stream, carry, stream_pos, todo)
  BY DEF TypeOK, Accounts, BytesAccounted
<1>6. /\ stream \in Seq(Byte) /\ Len(stream) = fed
      /\ \A i \in 1..fed : stream[i] = wire[i]
  <2>1. 1 \in 1..Len(wire) + 1 /\ fed \in (1 - 1)..Len(wire) /\ fed - 1 + 1 = fed
    BY <1>5
  <2>2. /\ stream \in Seq(Byte) /\ Len(stream) = fed - 1 + 1
        /\ \A i \in 1..(fed - 1 + 1) : stream[i] = wire[1 + i - 1]
    BY <1>5, <2>1, PieceProperties
  <2> HIDE DEF stream
  <2> QED BY <1>1, <2>1, <2>2
<1> HIDE DEF stream
<1>7. /\ window \in Seq(Byte) /\ Len(window) = c + n
      /\ \A i \in 1..(c + n) : window[i] = stream[stream_pos - c + i]
  <2>1. /\ window \in Seq(Byte) /\ Len(window) = Len(carry) + n
        /\ \A i \in 1..Len(carry) + n :
               window[i] = stream[stream_pos - Len(carry) + i]
    <3>1. stream \in Seq(Byte)
      BY <1>6
    <3> QED BY <1>5, <3>1, WindowBytes
  <2> HIDE DEF window
  <2> QED BY <1>2, <2>1
<1> HIDE DEF window
<1>8. n \in Nat /\ HeldFrom + (c + n) <= fed
  BY <1>1, <1>2
<1>9. ASSUME NEW i \in 1..Len(window) PROVE window[i] = wire[HeldFrom + i]
  <2>1. i \in 1..(c + n) /\ HeldFrom + i \in 1..fed
    BY <1>1, <1>7, <1>8
  <2>2. HeldFrom + i = stream_pos - c + i
    BY <1>2 DEF HeldFrom
  <2> QED BY <1>6, <1>7, <2>1, <2>2
<1> QED BY <1>1, <1>2, <1>5, <1>7, <1>8, <1>9 DEF window

\* The carry begins where the next frame to decode begins.
LEMMA HeldAtFrame ==
    ASSUME TypeOK, Accounts, pc # "failed", sent \in Seq(Sendable), FirstSent
    PROVE  /\ Len(Decoded) \in 0..Len(sent)
           /\ HeldFrom = FrameBegin(sent, Len(Decoded) + 1)
<1>1. /\ fed \in Nat /\ HeldFrom \in Nat /\ Len(carry) \in Nat /\ Len(todo) \in Nat
      /\ HeldFrom + Len(carry) + Len(todo) = fed
      /\ CutEnd(Decoded) = HeldFrom /\ Decoded \in Seq(DecodedFrames)
      /\ Len(Decoded) \in Nat
  BY HeldNumbers DEF HeldBytes
<1>2. PICK m \in Nat : m = Len(Decoded)
  BY <1>1
<1>3. m \in 0..Len(sent) /\ \A k \in 1..m : Decoded[k] = SentAs(sent, k)
  <2>1. Len(sent) \in Nat
    OBVIOUS
  <2> QED BY <1>2, <2>1, DecodedAre DEF AreSent
<1>4. HeldFrom = FrameBegin(sent, m + 1)
  <2>1. CASE m = 0
    <3>1. Decoded = << >>
      BY <1>1, <1>2, <2>1, EmptySeq
    <3>2. CutEnd(Decoded) = 0 /\ FrameBegin(sent, 1) = 0
      BY <3>1, FrameBegins DEF CutEnd
    <3> QED BY <1>1, <2>1, <3>2
  <2>2. CASE m # 0
    <3>1. Decoded # << >> /\ m \in 1..m
      BY <1>2, <2>2, EmptySeq
    <3>2. CutEnd(Decoded) = Decoded[m].byte_end
      BY <1>2, <3>1 DEF CutEnd
    <3>3. Decoded[m].byte_end = FrameBegin(sent, m + 1)
      <4>1. Decoded[m] = SentAs(sent, m)
        BY <1>3, <3>1
      <4> QED BY <4>1 DEF SentAs
    <3> QED BY <1>1, <3>2, <3>3
  <2> QED BY <2>1, <2>2
<1> QED BY <1>2, <1>3, <1>4

LEMMA WindowIsSent ==
    ASSUME TypeOK, Accounts, pc # "failed", sent \in Seq(Sendable), Undamaged,
           FirstSent, NEW n \in 0..Len(todo)
    PROVE  LET m == Len(Decoded)
               window == carry \o SubSeq(todo, 1, n)
           IN  /\ m \in 0..Len(sent)
               /\ HeldFrom = FrameBegin(sent, m + 1)
               /\ window \in Seq(Byte) /\ Len(window) = Len(carry) + n
               /\ m < Len(sent) => Heads(window, sent[m + 1])
               /\ m = Len(sent) => window = << >>
<1> DEFINE window == carry \o SubSeq(todo, 1, n)
<1>1. /\ fed \in Nat /\ HeldFrom \in Nat /\ Len(carry) \in Nat /\ Len(todo) \in Nat
      /\ HeldFrom + Len(carry) + Len(todo) = fed
  BY HeldNumbers DEF HeldBytes
<1>2. PICK m \in Nat, c \in Nat : m = Len(Decoded) /\ c = Len(carry)
  BY <1>1, HeldAtFrame
<1>3. m \in 0..Len(sent)
  BY <1>2, HeldAtFrame
<1>4. HeldFrom = FrameBegin(sent, m + 1)
  BY <1>2, HeldAtFrame
<1>5. /\ window \in Seq(Byte) /\ Len(window) = c + n /\ n \in Nat
      /\ \A i \in 1..Len(window) : window[i] = wire[HeldFrom + i]
      /\ HeldFrom + (c + n) <= fed /\ fed \in 0..Len(wire)
  <2>1. n \in Nat
    BY <1>1
  <2> QED BY <1>2, <2>1, WindowInWire
<1> HIDE DEF window
<1>10. /\ wire = WireOf(sent) /\ Len(wire) = FrameBegin(sent, Len(sent) + 1)
       /\ \A k \in 1..Len(sent) : Carries(wire, sent, k)
  BY WireBytes DEF Undamaged
<1>11. ASSUME m < Len(sent) PROVE Heads(window, sent[m + 1])
  <2>1. m + 1 \in 1..Len(sent)
    BY <1>11
  <2>2. sent[m + 1] \in Sendable
    BY <2>1
  <2>3. PICK l \in Nat : l = FrameLen(sent[m + 1])
    BY <2>2, FrameLenTyped
  <2>4. \A i \in 1..l : wire[HeldFrom + i] = Encoded(sent[m + 1])[i]
    BY <1>4, <1>10, <2>1, <2>3 DEF Carries
  <2>5. \A i \in 1..Len(window) : i <= l => i \in 1..l
    BY <1>2, <1>5
  <2> QED BY <1>5, <2>3, <2>4, <2>5 DEF Heads
<1>12. ASSUME m = Len(sent) PROVE window = << >>
  <2>1. HeldFrom = Len(wire)
    BY <1>4, <1>10, <1>12
  <2>2. c + n = 0
    BY <1>1, <1>2, <1>5, <2>1
  <2> QED BY <1>5, <2>2, EmptySeq
<1> QED BY <1>2, <1>3, <1>4, <1>5, <1>11, <1>12 DEF window

LEMMA ShortOfAFrame ==
    ASSUME NEW held \in Seq(Byte), NEW f \in Sendable, Heads(held, f), Short(held)
    PROVE  Len(held) < FrameLen(f)
<1>1. PICK n \in Nat : n = Len(f.payload) /\ FrameLen(f) = n + 8
  BY FrameLenTyped
<1>2. CASE Len(held) < HeaderLen
  BY <1>1, <1>2 DEF HeaderLen
<1>3. CASE ~(Len(held) < HeaderLen)
  <2>1. Len(held) >= HeaderLen
    BY <1>3 DEF HeaderLen
  <2>2. U16At(held, 4) = n
    BY <1>1, <2>1, SoundHeader
  <2>3. Len(held) < HeaderLen + n + 2
    BY <1>3, <2>2 DEF Short
  <2> QED BY <1>1, <2>3 DEF HeaderLen
<1> QED BY <1>2, <1>3

-----------------------------------------------------------------------------
(* The invariant. *)

\* Senders keep to what the encoder and the format accept.
SendersKeepBounds == \A t \in Transmissions : t.sent \in Seq(Sendable)

\* A truncated stream ended inside a frame.
EndsInside ==
    /\ error = "truncated"
    /\ fed # FrameBegin(sent, FramesWithin(sent, fed) + 1)

Content ==
    /\ sent \in Seq(Sendable)
    /\ Undamaged =>
           /\ FirstSent
           /\ pc \in {"idle", "finished"} => frames = << >>
           /\ pc = "finished" => carry = << >>
           /\ pc = "failed" => EndsInside

\* Where the stream ends, when what is held of it is too short for a frame.
LEMMA FedWithinFrames ==
    ASSUME TypeOK, Accounts, pc # "failed", sent \in Seq(Sendable), Undamaged,
           FirstSent, todo = << >>,
           Len(Decoded) < Len(sent) =>
               Len(carry) < FrameLen(sent[Len(Decoded) + 1])
    PROVE  /\ FramesWithin(sent, fed) = Len(Decoded)
           /\ FrameBegin(sent, Len(Decoded) + 1) + Len(carry) = fed
           /\ FrameBegin(sent, Len(Decoded) + 1) \in Nat
<1>1. /\ fed \in Nat /\ HeldFrom \in Nat /\ Len(carry) \in Nat
      /\ HeldFrom + Len(carry) + Len(todo) = fed
  BY HeldNumbers DEF HeldBytes
<1>2. Len(todo) = 0 /\ 0 \in 0..Len(todo)
  BY EmptySeq
<1>3. Len(Decoded) \in 0..Len(sent) /\ HeldFrom = FrameBegin(sent, Len(Decoded) + 1)
  BY <1>2, WindowIsSent
<1>4. PICK m \in 0..Len(sent) : m = Len(Decoded)
  BY <1>3
<1>5. FrameBegin(sent, m + 1) \in Nat /\ FrameBegin(sent, m + 1) + Len(carry) = fed
  BY <1>1, <1>2, <1>3, <1>4
<1>6. ASSUME m < Len(sent) PROVE fed < FrameBegin(sent, m + 2)
  <2>1. m + 1 \in 1..Len(sent) /\ (m + 1) + 1 = m + 2
    BY <1>6
  <2>2. FrameBegin(sent, m + 2) = FrameBegin(sent, m + 1) + FrameLen(sent[m + 1])
    BY <2>1, FrameBegins
  <2>3. sent[m + 1] \in Sendable
    BY <2>1
  <2>4. FrameLen(sent[m + 1]) \in Nat /\ Len(carry) < FrameLen(sent[m + 1])
    BY <1>4, <1>6, <2>3, FrameLenTyped
  <2> QED BY <1>1, <1>5, <2>2, <2>4
<1>7. FramesWithin(sent, fed) = m
  <2>1. FrameBegin(sent, m + 1) <= fed
    BY <1>1, <1>5
  <2> QED BY <1>1, <1>6, <2>1, WithinFrames
<1> QED BY <1>4, <1>5, <1>7

LEMMA InitFirstSent == SendersKeepBounds /\ Init => FirstSent
<1> SUFFICES ASSUME SendersKeepBounds, Init PROVE FirstSent
  OBVIOUS
<1>1. sent \in Seq(Sendable)
  BY DEF SendersKeepBounds, Init
<1>2. frames = << >> /\ delivered = << >>
  BY DEF Init
<1>3. FirstSent
  <2>1. << >> \o << >> = << >> /\ Len(<< >>) = 0
    BY ConcatEmptySeq, EmptySeq
  <2>2. Len(Decoded) = 0
    BY <1>2, <2>1 DEF Decoded
  <2>3. Len(sent) \in Nat /\ 1..0 = {}
    BY <1>1
  <2> QED BY <2>2, <2>3, DecodedAre DEF AreSent
<1> QED BY <1>3

LEMMA InitContent == SendersKeepBounds /\ Init => Content
BY InitFirstSent DEF SendersKeepBounds, Init, Content

\* A call keeps the frames in the sender's order, and fails only for want of
\* the rest of a frame.
LEMMA CallKeepsContent ==
    ASSUME TypeOK, TypeOK', Accounts, Content, NEW n \in 0..Len(todo),
           NEW eof \in BOOLEAN, NEW out, Call(n, eof, out),
           Typed(out, SubSeq(todo, 1, n), eof)
    PROVE  Content'
<1> SUFFICES ASSUME Undamaged'
             PROVE  /\ FirstSent'
                    /\ pc' \in {"idle", "finished"} => frames' = << >>
                    /\ pc' = "finished" => carry' = << >>
                    /\ pc' = "failed" => EndsInside'
  BY DEF Content, Call
<1> DEFINE view == SubSeq(todo, 1, n)
           window == carry \o view
<1>1. /\ pc \in {"view", "drain", "flush"} /\ (eof <=> pc = "flush")
      /\ out = DecodeFrame(carry, view, eof) /\ Absorb(out)
      /\ sent' = sent /\ wire' = wire /\ fed' = fed
  BY DEF Call
<1>2. sent \in Seq(Sendable) /\ Undamaged /\ FirstSent
  BY <1>1 DEF Content, Undamaged
<1>3. PICK m \in 0..Len(sent) :
          /\ m = Len(Decoded) /\ HeldFrom = FrameBegin(sent, m + 1)
          /\ window \in Seq(Byte) /\ Len(window) = Len(carry) + n
          /\ m < Len(sent) => Heads(window, sent[m + 1])
          /\ m = Len(sent) => window = << >>
  BY <1>1, <1>2, WindowIsSent
<1>4. carry \in Seq(Byte) /\ view \in Seq(Byte) /\ Len(sent) \in Nat
      /\ frames \in Seq(DecodedFrames) /\ delivered \in Seq(DecodedFrames)
      /\ Decoded \in Seq(DecodedFrames)
  <2>1. /\ carry \in Seq(Byte) /\ todo \in Seq(Byte)
        /\ frames \in Seq(DecodedFrames) /\ delivered \in Seq(DecodedFrames)
    BY DEF TypeOK
  <2>2. view \in Seq(Byte)
    <3>1. 1 \in 1..Len(todo) + 1 /\ n \in (1 - 1)..Len(todo)
      BY <2>1
    <3> QED BY <2>1, <3>1, PieceProperties
  <2> QED BY <1>2, <2>1, <2>2, ConcatProperties DEF Decoded
<1>5. CASE window = << >>
  <2>1. out = FrameOut(IF eof THEN "complete" ELSE "need_more", 0, << >>, 0,
                       << >>, 0)
    BY <1>1, <1>5 DEF DecodeFrame
  <2>2. out.status \notin {"frame"} \cup Refusals /\ out.carry = << >>
    BY <2>1 DEF FrameOut, Refusals
  <2>3. Decoded' = Decoded /\ pc' # "failed" /\ carry' = << >>
        /\ (pc' \in {"idle", "finished"} => frames' = << >>)
    BY <2>2 DEF Call, Absorb, Decoded
  <2>4. FirstSent'
    BY <1>1, <1>2, <2>3, DecodedAre, NextDecodedAre
  <2> QED BY <2>3, <2>4
<1>6. CASE window # << >>
  <2> DEFINE f == sent[m + 1]
  <2>1. m < Len(sent) /\ m + 1 \in 1..Len(sent) /\ Heads(window, f)
    BY <1>3, <1>4, <1>6
  <2>2. f \in Sendable
    BY <1>2, <2>1
  <2>3. PICK l \in Nat : l = FrameLen(f)
    BY <2>2, FrameLenTyped
  <2> HIDE DEF f
  <2>4. /\ Len(window) < l => out = Incomplete(carry, view, eof)
        /\ Len(window) >= l => /\ out.status = "frame" /\ out.frame_len = l
                               /\ out.kind = f.kind /\ out.payload = f.payload
    BY <1>1, <1>4, <1>6, <2>1, <2>2, <2>3, SoundAnswer
  <2>5. Len(window) \in Nat
    BY <1>3
  <2> HIDE DEF window, view
  <2>6. CASE Len(window) >= l
    <3> DEFINE new == Frame(out.kind, out.payload, HeldFrom, out.frame_len)
    <3>1. /\ out.status = "frame" /\ out.frame_len = l
          /\ out.kind = f.kind /\ out.payload = f.payload
      BY <2>4, <2>6
    <3>2. PushFrame(out) /\ delivered' = delivered /\ pc' \in {"drain", "flush"}
      BY <3>1 DEF Call, Refusals
    <3>3. out.consumed \in Nat
      <4>1. out.consumed \in 0..Len(view)
        BY DEF Typed, view
      <4> QED BY <4>1
    <3>4. new \in DecodedFrames /\ Decoded' = Append(Decoded, new)
      BY <1>1, <3>2, <3>3, PushedFrame
    <3>5. new = SentAs(sent, m + 1)
      <4>1. HeldFrom + l = FrameBegin(sent, (m + 1) + 1)
        BY <1>2, <1>3, <2>1, <2>3, FrameBegins DEF f
      <4> QED BY <1>3, <3>1, <4>1 DEF SentAs, Frame, f
    <3> HIDE DEF new
    <3>6. AreSent(sent, Append(Decoded, new))
      BY <1>2, <1>3, <1>4, <2>1, <3>4, <3>5, DecodedAre, OneMoreIsSent
    <3>7. FirstSent'
      BY <1>1, <3>4, <3>6, NextDecodedAre
    <3> QED BY <3>2, <3>7
  <2>7. CASE ~(Len(window) >= l)
    <3>1. out = Incomplete(carry, view, eof) /\ Len(window) < l
      BY <2>4, <2>5, <2>7
    <3>2. CASE ~eof
      <4>1. out.status = "need_more"
        BY <3>1, <3>2 DEF Incomplete, FrameOut
      <4>2. Decoded' = Decoded /\ pc' \in {"view", "drain"}
        BY <4>1 DEF Call, Decoded, Refusals
      <4>3. FirstSent'
        BY <1>1, <1>2, <4>2, DecodedAre, NextDecodedAre
      <4> QED BY <4>2, <4>3
    <3>3. CASE eof
      <4>1. out.status = "truncated"
        BY <3>1, <3>3 DEF Incomplete, FailFrame, FrameOut
      <4>2. /\ pc' = "failed" /\ error' = "truncated"
            /\ frames' = << >> /\ delivered' = delivered
        BY <4>1 DEF Call, Refusals
      <4>3. FirstSent'
        <5>1. Decoded' = delivered
          BY <1>4, <4>2, ConcatEmptySeq DEF Decoded
        <5>2. AreSent(sent, delivered)
          BY <1>2, <1>4, DecodedAre, FirstAreSent DEF Decoded
        <5> QED BY <1>1, <5>1, <5>2, NextDecodedAre
      <4>4. todo = << >> /\ n = 0
        <5>1. todo = << >>
          BY <1>1, <3>3 DEF Accounts
        <5> QED BY <5>1, EmptySeq
      <4>5. PICK c \in Nat : c = Len(carry) /\ c = Len(window) /\ c < l /\ c # 0
        <5>1. Len(carry) \in Nat /\ Len(window) = Len(carry) + 0
          BY <1>3, <1>4, <4>4
        <5>2. Len(window) # 0
          BY <1>3, <1>6, EmptySeq DEF window
        <5> QED BY <3>1, <5>1, <5>2
      <4>6. /\ FramesWithin(sent, fed) = m /\ FrameBegin(sent, m + 1) + c = fed
            /\ FrameBegin(sent, m + 1) \in Nat
        BY <1>1, <1>2, <1>3, <2>3, <4>4, <4>5, FedWithinFrames DEF f
      <4>7. fed # FrameBegin(sent, FramesWithin(sent, fed) + 1)
        BY <4>5, <4>6
      <4>8. EndsInside'
        BY <1>1, <4>2, <4>7 DEF EndsInside
      <4> QED BY <4>2, <4>3, <4>8
    <3> QED BY <3>2, <3>3
  <2> QED BY <2>6, <2>7
<1> QED BY <1>5, <1>6

LEMMA NextContent ==
    TypeOK /\ TypeOK' /\ Accounts /\ Content /\ [Next]_vars => Content'
<1> SUFFICES ASSUME TypeOK, TypeOK', Accounts, Content, [Next]_vars PROVE Content'
  OBVIOUS
<1>1. CASE \E n \in ChunkSizes : Feed(n)
  <2>1. /\ pc' = "view" /\ sent' = sent /\ wire' = wire /\ Decoded' = Decoded
    BY <1>1 DEF Feed, sender, Decoded
  <2>2. Undamaged' => Undamaged
    BY <2>1 DEF Undamaged
  <2>3. FirstSent => FirstSent'
    BY <2>1, DecodedAre, NextDecodedAre
  <2> QED BY <2>1, <2>2, <2>3 DEF Content
<1>2. CASE \E out : \E n \in 0..Len(todo), eof \in BOOLEAN :
               Call(n, eof, out) /\ Typed(out, SubSeq(todo, 1, n), eof)
  BY <1>2, CallKeepsContent
<1>3. CASE /\ UNCHANGED <<sent, wire, fed, carry, stream_pos, error>>
           /\ Decoded' = Decoded
           /\ \/ pc' = pc /\ delivered' = delivered /\ frames' = frames
              \/ pc = "idle" /\ pc' = "flush" /\ delivered' = delivered
              \/ pc = "drain" /\ pc' = "view" /\ carry = << >>
                 /\ delivered' = delivered
              \/ pc = "view" /\ pc' = "idle" /\ todo = << >>
                 /\ frames' = << >>
  <2>1. sent' = sent /\ wire' = wire /\ fed' = fed /\ carry' = carry
        /\ Decoded' = Decoded /\ error' = error
    BY <1>3
  <2>2. Undamaged' => Undamaged
    BY <2>1 DEF Undamaged
  <2>3. FirstSent => FirstSent'
    BY <2>1, DecodedAre, NextDecodedAre
  <2>4. EndsInside => EndsInside'
    BY <2>1 DEF EndsInside
  <2> QED BY <1>3, <2>1, <2>2, <2>3, <2>4 DEF Content
<1> QED BY <1>1, <1>2, <1>3, StepIsACall

LEMMA ContentIsInvariant ==
    ASSUME ViewsFit, SendersKeepBounds
    PROVE  Spec => [](TypeOK /\ Accounts /\ Content)
<1>1. Init => TypeOK /\ Accounts /\ Content
  BY InitTypeOK, InitAccounts, InitContent
<1>2. TypeOK /\ Accounts /\ Content /\ [Next]_vars
        => (TypeOK /\ Accounts /\ Content)'
  BY NextTypeOK, NextAccounts, NextContent
<1> QED BY <1>1, <1>2, PTL DEF Spec

-----------------------------------------------------------------------------
(* A frame of which one byte was damaged. *)

\* The sum over all bytes but one, and that one.
LEMMA TotalWithOneChanged ==
    ASSUME NEW s \in Seq(Nat), NEW t \in Seq(Nat), Len(s) = Len(t),
           NEW j \in 1..Len(s), \A i \in 1..Len(s) : i # j => s[i] = t[i]
    PROVE  Total(s) + t[j] = Total(t) + s[j]
<1>1. PICK n \in Nat : n = Len(s) /\ n = Len(t) /\ j \in 1..n
  OBVIOUS
<1>2. /\ \A i \in 1..n : s[i] \in Nat /\ t[i] \in Nat
      /\ \A i \in 1..n : i # j => s[i] = t[i]
  BY <1>1
<1>3. PICK p \in [0..n -> Nat] :
          /\ p[0] = 0 /\ Total(s) = p[n]
          /\ \A i \in 1..n : p[i] = p[i - 1] + s[i]
  <2>1. \E run \in [0..Len(s) -> Nat] :
            /\ run[0] = 0 /\ Total(s) = run[Len(s)]
            /\ \A i \in 1..Len(s) : run[i] = run[i - 1] + s[i]
    BY TotalRuns
  <2> QED BY <1>1, <2>1
<1>4. PICK q \in [0..n -> Nat] :
          /\ q[0] = 0 /\ Total(t) = q[n]
          /\ \A i \in 1..n : q[i] = q[i - 1] + t[i]
  <2>1. \E run \in [0..Len(t) -> Nat] :
            /\ run[0] = 0 /\ Total(t) = run[Len(t)]
            /\ \A i \in 1..Len(t) : run[i] = run[i - 1] + t[i]
    BY TotalRuns
  <2> QED BY <1>1, <2>1
<1>5. PICK x \in Nat, y \in Nat : x = s[j] /\ y = t[j]
  BY <1>1, <1>2
<1> DEFINE Apart == {i \in 0..n : IF i < j THEN p[i] = q[i]
                                  ELSE p[i] + y = q[i] + x}
<1>6. 0 \in Apart
  BY <1>1, <1>3, <1>4
<1>7. ASSUME NEW i \in 1..n, i - 1 \in Apart PROVE i \in Apart
  <2>1. /\ p[i] = p[i - 1] + s[i] /\ q[i] = q[i - 1] + t[i]
        /\ p[i - 1] \in Nat /\ q[i - 1] \in Nat /\ s[i] \in Nat /\ t[i] \in Nat
    <3>1. i - 1 \in 0..n
      OBVIOUS
    <3> QED BY <1>2, <1>3, <1>4, <3>1
  <2>2. IF i - 1 < j THEN p[i - 1] = q[i - 1] ELSE p[i - 1] + y = q[i - 1] + x
    BY <1>7
  <2>6. PICK p0 \in Nat, q0 \in Nat, u \in Nat, v \in Nat :
          p0 = p[i - 1] /\ q0 = q[i - 1] /\ u = s[i] /\ v = t[i]
    BY <2>1
  <2>3. PICK p1 \in Nat, q1 \in Nat :
            p1 = p[i] /\ q1 = q[i] /\ i \in 0..n
    <3>1. i \in 0..n /\ p[i] \in Nat /\ q[i] \in Nat
      OBVIOUS
    <3> QED BY <3>1
  <2>7. p1 = p0 + u /\ q1 = q0 + v
    BY <2>1, <2>3, <2>6
  <2>4. CASE i = j
    <3>1. i - 1 < j /\ ~(i < j) /\ u = x /\ v = y
      BY <1>1, <1>5, <2>4, <2>6
    <3>2. p0 = q0
      BY <2>2, <2>6, <3>1
    <3>3. p1 + y = q1 + x
      BY <2>7, <3>1, <3>2
    <3> QED BY <2>3, <3>1, <3>3
  <2>5. CASE i # j
    <3>1. u = v
      BY <1>2, <2>5, <2>6
    <3>2. (i - 1 < j) <=> (i < j)
      BY <1>1, <2>5
    <3>3. CASE i < j
      BY <2>2, <2>3, <2>6, <2>7, <3>1, <3>2, <3>3
    <3>4. CASE ~(i < j)
      <4>1. p0 + y = q0 + x
        BY <2>2, <2>6, <3>2, <3>4
      <4>2. p1 + y = q1 + x
        BY <2>7, <3>1, <4>1
      <4> QED BY <2>3, <3>4, <4>2
    <3> QED BY <3>3, <3>4
  <2> QED BY <2>4, <2>5
<1>8. Apart \in SUBSET (0..n)
  OBVIOUS
<1> HIDE DEF Apart
<1>9. n \in Apart
  <2>1. Apart = 0..n
    BY <1>6, <1>7, <1>8, AtEveryPosition
  <2> QED BY <2>1
<1>10. p[n] + y = q[n] + x
  BY <1>1, <1>9 DEF Apart
<1> QED BY <1>3, <1>4, <1>5, <1>10

\* What a sum keeps.
Rest(n) == n % 65536

\* Numbers apart by less than a byte differ in what is left of 65536.
LEMMA ByteApart ==
    ASSUME NEW a \in Nat, NEW b \in Nat, NEW x \in Nat, NEW y \in Nat,
           a + y = b + x, x # y, x <= 255, y <= 255
    PROVE  Rest(a) # Rest(b)
<1>1. PICK p \in Int, r \in Int : a = 65536 * p + r /\ r = a % 65536
  <2>1. a \div 65536 \in Int /\ a % 65536 \in Int
        /\ a = 65536 * (a \div 65536) + (a % 65536)
    OBVIOUS
  <2> QED BY <2>1
<1>2. PICK q \in Int, u \in Int : b = 65536 * q + u /\ u = b % 65536
  <2>1. b \div 65536 \in Int /\ b % 65536 \in Int
        /\ b = 65536 * (b \div 65536) + (b % 65536)
    OBVIOUS
  <2> QED BY <2>1
<1>3. ASSUME r = u PROVE FALSE
  <2>1. 65536 * p + r + y = 65536 * q + r + x
    <3>1. a = 65536 * p + r /\ b = 65536 * q + r
      BY <1>1, <1>2, <1>3
    <3> QED BY <3>1
  <2>2. p = q
    BY <2>1
  <2> QED BY <2>1, <2>2
<1> QED BY <1>1, <1>2, <1>3 DEF Rest

\* A sum shows that one of its bytes was changed.
LEMMA OneChangedByteShows ==
    ASSUME NEW s \in Seq(Nat), NEW t \in Seq(Nat), Len(s) = Len(t),
           NEW j \in 1..Len(s), s[j] \in 0..255, t[j] \in 0..255, s[j] # t[j],
           \A i \in 1..Len(s) : i # j => s[i] = t[i]
    PROVE  WrappedSum(s) # WrappedSum(t)
<1>1. Total(s) + t[j] = Total(t) + s[j]
  BY TotalWithOneChanged
<1>2. /\ Total(s) \in Nat /\ WrappedSum(s) = Total(s) % 65536
      /\ Total(t) \in Nat /\ WrappedSum(t) = Total(t) % 65536
  BY SumsAgree
<1>3. PICK a \in Nat, b \in Nat : a = Total(s) /\ b = Total(t)
  BY <1>2
<1>4. PICK x \in Nat, y \in Nat : x = s[j] /\ y = t[j]
  OBVIOUS
<1>5. a + y = b + x /\ x # y /\ x <= 255 /\ y <= 255
  <2>1. s[j] <= 255 /\ t[j] <= 255
    <3>1. \A v \in 0..255 : v <= 255
      OBVIOUS
    <3> QED BY <3>1
  <2>2. a + y = b + x
    BY <1>1, <1>3, <1>4
  <2> QED BY <1>4, <2>1, <2>2
<1>6. Rest(a) # Rest(b)
  BY <1>5, ByteApart
<1> QED BY <1>2, <1>3, <1>6 DEF Rest

\* A window that begins as the frame does, but for byte j.
HeadsBut(s, f, j) ==
    \A i \in 1..Len(s) :
        i <= FrameLen(f) => (s[i] = Encoded(f)[i] <=> i # j)

\* The encoder's bytes that may be damaged are bytes.
LEMMA EncodedTyped ==
    ASSUME NEW f \in Sendable, NEW j \in 1..(Len(f.payload) + 6), j \notin {5, 6}
    PROVE  Encoded(f)[j] \in 0..255
<1> DEFINE e == Encoded(f)
<1>1. PICK n \in Nat : n = Len(f.payload) /\ f.payload \in Seq(Byte) /\ f.kind \in 0..2
  BY FrameLenTyped
<1>2. /\ e[1] = MagicLo /\ e[2] = MagicHi /\ e[3] = 1 /\ e[4] = f.kind
      /\ \A i \in 1..n : e[6 + i] = f.payload[i]
  BY <1>1, EncodedBytes
<1> HIDE DEF e
<1>3. CASE j \in 1..4
  <2>1. j = 1 \/ j = 2 \/ j = 3 \/ j = 4
    BY <1>3
  <2>2. MagicLo \in 0..255 /\ MagicHi \in 0..255 /\ 1 \in 0..255 /\ f.kind \in 0..255
    BY <1>1 DEF MagicLo, MagicHi
  <2> QED BY <1>2, <2>1, <2>2 DEF e
<1>4. CASE j \notin 1..4
  <2>1. j - 6 \in 1..n /\ j = 6 + (j - 6)
    BY <1>1, <1>4
  <2>2. f.payload[j - 6] \in Byte
    BY <1>1, <2>1
  <2>3. e[j] \in Byte
    BY <1>2, <2>1, <2>2
  <2> QED BY <2>3 DEF Byte, e
<1> QED BY <1>3, <1>4 DEF e

\* The checksum of a frame does not fit the frame with one byte changed.
LEMMA DamagedSum ==
    ASSUME NEW s \in Seq(Byte), NEW f \in Sendable, NEW j \in 1..FrameLen(f),
           j \notin {5, 6}, HeadsBut(s, f, j), Len(s) >= FrameLen(f)
    PROVE  U16At(s, FrameLen(f) - 2) # Checksum(s, FrameLen(f) - 2)
<1> DEFINE e == Encoded(f)
<1>1. PICK n \in Nat : n = Len(f.payload) /\ FrameLen(f) = n + 8
  BY FrameLenTyped
<1>2. /\ e \in Seq(Nat) /\ Len(e) = n + 8
      /\ U16At(e, n + 6) = WrappedSum(SubSeq(e, 1, n + 6))
  BY <1>1, EncodedBytes
<1>3. j \in 1..(n + 6) => e[j] \in 0..255
  BY <1>1, EncodedTyped
<1> HIDE DEF e
<1>11. \A i \in 1..(n + 8) : e[i] \in Nat
  BY <1>2
<1>4. PICK m \in Nat : m = Len(s) /\ n + 8 <= m
  BY <1>1
<1>5. \A i \in 1..(n + 8) : i \in 1..Len(s) /\ s[i] \in Byte /\ s[i] \in Nat
                            /\ (s[i] = e[i] <=> i # j)
  <2>1. \A i \in 1..(n + 8) : i \in 1..Len(s) /\ i <= FrameLen(f)
    BY <1>1, <1>4
  <2> QED BY <2>1, ByteRange DEF HeadsBut, e
<1> DEFINE front == SubSeq(s, 1, n + 6)
           whole == SubSeq(e, 1, n + 6)
<1>6. /\ front \in Seq(Nat) /\ Len(front) = n + 6
      /\ \A i \in 1..(n + 6) : front[i] = s[i]
  <2>1. 1 \in 1..(Len(s) + 1) /\ n + 6 \in (1 - 1)..Len(s)
    BY <1>4
  <2>2. /\ front \in Seq(Byte) /\ Len(front) = n + 6 - 1 + 1
        /\ \A i \in 1..(n + 6 - 1 + 1) : front[i] = s[1 + i - 1]
    BY <2>1, PieceProperties
  <2> HIDE DEF front
  <2>3. Len(front) = n + 6 /\ \A i \in 1..(n + 6) : front[i] = s[i]
    BY <2>2
  <2>4. \A i \in 1..Len(front) : front[i] \in Nat
    BY <2>2, ByteRange
  <2> QED BY <2>2, <2>3, <2>4
<1>7. /\ whole \in Seq(Nat) /\ Len(whole) = n + 6
      /\ \A i \in 1..(n + 6) : whole[i] = e[i]
  <2>1. 1 \in 1..(Len(e) + 1) /\ n + 6 \in (1 - 1)..Len(e)
    BY <1>2
  <2>2. /\ whole \in Seq(Nat) /\ Len(whole) = n + 6 - 1 + 1
        /\ \A i \in 1..(n + 6 - 1 + 1) : whole[i] = e[1 + i - 1]
    BY <1>2, <2>1, PieceProperties
  <2> HIDE DEF whole
  <2> QED BY <2>2
<1> HIDE DEF front, whole
<1>8. /\ U16At(s, n + 6) = s[n + 7] + 256 * s[n + 8]
      /\ U16At(e, n + 6) = e[n + 7] + 256 * e[n + 8]
      /\ n + 7 \in 1..(n + 8) /\ n + 8 \in 1..(n + 8)
  <2>1. (n + 6) + 1 = n + 7 /\ (n + 6) + 2 = n + 8
    OBVIOUS
  <2> QED BY <2>1 DEF U16At
<1>9. CASE j \in 1..(n + 6)
  <2>1. U16At(s, n + 6) = U16At(e, n + 6)
    <3>1. s[n + 7] = e[n + 7] /\ s[n + 8] = e[n + 8]
      BY <1>5, <1>8, <1>9
    <3> QED BY <1>8, <3>1
  <2>2. WrappedSum(front) # WrappedSum(whole)
    <3>1. /\ j \in 1..Len(front) /\ front[j] \in 0..255 /\ whole[j] \in 0..255
          /\ front[j] # whole[j]
      <4>1. s[j] \in 0..255 /\ s[j] # e[j]
        BY <1>5, <1>9 DEF Byte
      <4> QED BY <1>3, <1>6, <1>7, <1>9, <4>1
    <3>2. \A i \in 1..Len(front) : i # j => front[i] = whole[i]
      BY <1>5, <1>6, <1>7
    <3> QED BY <1>6, <1>7, <3>1, <3>2, OneChangedByteShows
  <2>3. U16At(s, n + 6) # Checksum(s, n + 6)
    BY <1>2, <2>1, <2>2 DEF Checksum, front, whole
  <2> QED BY <1>1, <2>3
<1>10. CASE j \notin 1..(n + 6)
  <2>1. front = whole
    BY <1>5, <1>6, <1>7, <1>10
  <2>2. U16At(s, n + 6) # U16At(e, n + 6)
    <3>1. PICK a \in Nat, b \in Nat, c \in Nat, d \in Nat :
              a = s[n + 7] /\ b = s[n + 8] /\ c = e[n + 7] /\ d = e[n + 8]
      BY <1>5, <1>8, <1>11
    <3>2. (a = c /\ b # d) \/ (a # c /\ b = d)
      <4>1. j = n + 7 \/ j = n + 8
        BY <1>1, <1>10
      <4> QED BY <1>5, <1>8, <3>1, <4>1
    <3>3. a + 256 * b # c + 256 * d
      BY <3>2
    <3> QED BY <1>8, <3>1, <3>3
  <2>3. U16At(s, n + 6) # Checksum(s, n + 6)
    BY <1>2, <2>1, <2>2 DEF Checksum, front, whole
  <2> QED BY <1>1, <2>3
<1> QED BY <1>9, <1>10

\* Such a frame is waited for or refused.
LEMMA DamagedAnswer ==
    ASSUME NEW carry_ \in Seq(Byte), NEW view \in Seq(Byte), NEW eof \in BOOLEAN,
           NEW f \in Sendable, NEW j \in 1..FrameLen(f), j \notin {5, 6},
           j <= Len(carry_ \o view), HeadsBut(carry_ \o view, f, j)
    PROVE  DecodeFrame(carry_, view, eof).status # "frame"
<1> DEFINE staged == carry_ \o view
           out == DecodeFrame(carry_, view, eof)
           length == HeaderLen + U16At(staged, 4) + 2
           e == Encoded(f)
<1>1. /\ staged \in Seq(Byte) /\ Len(staged) \in Nat /\ staged # << >>
      /\ HeadsBut(staged, f, j)
  <2>1. staged \in Seq(Byte) /\ Len(staged) \in Nat
    BY WindowTyped
  <2>2. Len(staged) # 0
    BY <2>1
  <2> QED BY <2>1, <2>2, EmptySeq
<1>2. PICK n \in Nat : n = Len(f.payload) /\ FrameLen(f) = n + 8
  BY FrameLenTyped
<1>3. Incomplete(carry_, view, eof).status # "frame"
  BY DEF Incomplete, FailFrame, FrameOut
<1>4. /\ e[1] = MagicLo /\ e[2] = MagicHi /\ e[3] = 1
      /\ U16At(e, 4) = n
  BY <1>2, EncodedBytes
<1> HIDE DEF e
<1>5. CASE Len(staged) < HeaderLen
  <2>1. out = Incomplete(carry_, view, eof)
    BY <1>1, <1>5 DEF DecodeFrame
  <2> QED BY <1>3, <2>1
<1>6. CASE ~(Len(staged) < HeaderLen)
  <2> HIDE DEF staged, length
  <2>1. \A i \in 1..6 : (staged[i] = e[i] <=> i # j)
    <3>1. \A i \in 1..6 : i \in 1..Len(staged) /\ i <= FrameLen(f)
      BY <1>1, <1>2, <1>6 DEF HeaderLen
    <3> QED BY <1>1, <3>1 DEF HeadsBut, e
  <2>2. U16At(staged, 4) = n
    <3>1. staged[4 + 1] = e[4 + 1] /\ staged[4 + 2] = e[4 + 2]
      BY <2>1
    <3> QED BY <1>4, <3>1 DEF U16At
  <2>3. length = FrameLen(f)
    BY <1>2, <2>2 DEF length, HeaderLen
  <2>4. CASE HeaderStatus(staged) # "sound"
    <3>1. out = FailFrame(HeaderStatus(staged), view)
      BY <1>1, <1>6, <2>4 DEF DecodeFrame, staged
    <3>2. HeaderStatus(staged) # "frame"
      BY DEF HeaderStatus
    <3> QED BY <3>1, <3>2 DEF FailFrame, FrameOut
  <2>5. CASE HeaderStatus(staged) = "sound"
    <3>1. out = DecodeBody(carry_, view, eof, length)
      BY <1>1, <1>6, <2>5 DEF DecodeFrame, staged, length
    <3> HIDE DEF out
    <3>2. CASE Len(staged) < length
      <4>1. out = Incomplete(carry_, view, eof)
        BY <3>1, <3>2 DEF DecodeBody, staged
      <4> QED BY <1>3, <4>1 DEF out
    <3>3. CASE ~(Len(staged) < length)
      <4>1. Len(staged) >= FrameLen(f)
        BY <1>1, <1>2, <2>3, <3>3
      <4>2. U16At(staged, length - 2) # Checksum(staged, length - 2)
        BY <1>1, <2>3, <4>1, DamagedSum
      <4>3. out = FailFrame("bad_checksum", view)
        BY <3>1, <3>3, <4>2 DEF DecodeBody, staged
      <4> QED BY <4>3 DEF FailFrame, FrameOut, out
    <3> QED BY <3>2, <3>3
  <2> QED BY <2>4, <2>5
<1> QED BY <1>5, <1>6

-----------------------------------------------------------------------------
(* What the reader holds on a wire whose damage the sum catches. *)

LEMMA CaughtWire ==
    ASSUME sent \in Seq(Sendable), wire \in Seq(Byte), SumCatches
    PROVE  /\ Len(wire) = FrameBegin(sent, Len(sent) + 1)
           /\ \E d \in Nat :
                  /\ d \notin LengthBytes(sent)
                  /\ \A i \in 1..Len(wire) : (wire[i] = WireOf(sent)[i] <=> i # d)
<1>1. PICK w \in Seq(Nat) : w = WireOf(sent) /\ Len(w) = FrameBegin(sent, Len(sent) + 1)
  BY WireBytes
<1>2. 0 \notin LengthBytes(sent)
  <2>1. ASSUME NEW k \in 1..Len(sent), NEW i \in {5, 6}
        PROVE  0 # FrameBegin(sent, k) + i
    <3>1. k \in 1..(Len(sent) + 1)
      OBVIOUS
    <3>2. FrameBegin(sent, k) \in Nat
      BY <3>1, FrameBegins
    <3> QED BY <3>2
  <2> QED BY <2>1 DEF LengthBytes
<1>3. CASE wire = w
  <2>1. \A i \in 1..Len(wire) : (wire[i] = w[i] <=> i # 0)
    BY <1>3
  <2> QED BY <1>1, <1>2, <1>3, <2>1
<1>4. CASE wire # w
  <2>1. PICK d \in 1..Len(w) : d \notin LengthBytes(sent) /\ wire = [w EXCEPT ![d] = wire[d]]
    BY <1>1, <1>4 DEF SumCatches, Undamaged
  <2>2. Len(wire) = Len(w) /\ DOMAIN w = 1..Len(w) /\ d \in Nat
    BY <1>1, <2>1
  <2>3. \A i \in 1..Len(w) : i # d => wire[i] = w[i]
    BY <2>1, <2>2
  <2>4. wire[d] # w[d]
    <3> SUFFICES ASSUME wire[d] = w[d] PROVE FALSE
      OBVIOUS
    <3>1. \A i \in 1..Len(w) : wire[i] = w[i]
      BY <2>3
    <3>2. DOMAIN wire = DOMAIN w
      BY <2>1
    <3>3. wire = w
      BY <2>1, <2>2, <3>1
    <3> QED BY <1>4, <3>3
  <2> QED BY <1>1, <2>1, <2>2, <2>3, <2>4
<1> QED BY <1>3, <1>4

LEMMA CaughtWindow ==
    ASSUME TypeOK, Accounts, pc # "failed", sent \in Seq(Sendable), SumCatches,
           FirstSent, NEW n \in 0..Len(todo)
    PROVE  LET m == Len(Decoded)
               window == carry \o SubSeq(todo, 1, n)
           IN  /\ m \in 0..Len(sent)
               /\ HeldFrom = FrameBegin(sent, m + 1)
               /\ m < Len(sent) =>
                      \/ Heads(window, sent[m + 1])
                      \/ \E j \in 1..FrameLen(sent[m + 1]) :
                             /\ j \notin {5, 6} /\ j <= Len(window)
                             /\ HeadsBut(window, sent[m + 1], j)
               /\ m = Len(sent) => window = << >>
<1> DEFINE window == carry \o SubSeq(todo, 1, n)
<1>1. PICK m \in 0..Len(sent) : m = Len(Decoded) /\ HeldFrom = FrameBegin(sent, m + 1)
  BY HeldAtFrame
<1>2. /\ window \in Seq(Byte) /\ Len(window) = Len(carry) + n
      /\ \A i \in 1..Len(window) : window[i] = wire[HeldFrom + i]
      /\ HeldFrom \in Nat /\ HeldFrom + Len(window) <= fed /\ fed \in 0..Len(wire)
      /\ wire \in Seq(Byte)
  BY WindowInWire DEF TypeOK
<1> HIDE DEF window
<1>3. PICK b \in Nat, c \in Nat, size \in Nat :
          /\ b = HeldFrom /\ c = Len(window) /\ size = Len(wire) /\ b + c <= size
  <2>1. Len(window) \in Nat /\ Len(wire) \in Nat
    BY <1>2
  <2>2. HeldFrom + Len(window) <= Len(wire)
    BY <1>2, <2>1
  <2> QED BY <1>2, <2>1, <2>2
<1>4. Len(wire) = FrameBegin(sent, Len(sent) + 1)
  BY <1>2, CaughtWire
<1>5. PICK d \in Nat :
          /\ d \notin LengthBytes(sent)
          /\ \A i \in 1..size : (wire[i] = WireOf(sent)[i] <=> i # d)
  BY <1>2, <1>3, CaughtWire
<1>6. ASSUME m < Len(sent)
      PROVE  \/ Heads(window, sent[m + 1])
             \/ \E j \in 1..FrameLen(sent[m + 1]) :
                    /\ j \notin {5, 6} /\ j <= Len(window)
                    /\ HeadsBut(window, sent[m + 1], j)
  <2>1. m + 1 \in 1..Len(sent) /\ sent[m + 1] \in Sendable
    BY <1>6
  <2>2. PICK l \in Nat : l = FrameLen(sent[m + 1])
    BY <2>1, FrameLenTyped
  <2>3. \A i \in 1..l : WireOf(sent)[b + i] = Encoded(sent[m + 1])[i]
    BY <1>1, <1>3, <2>1, <2>2, WireBytes DEF Carries
  <2>4. ASSUME NEW i \in 1..c, i <= l
        PROVE  window[i] = Encoded(sent[m + 1])[i] <=> b + i # d
    <3>1. b + i \in 1..size /\ i \in 1..l
      BY <1>3, <2>4
    <3>2. window[i] = wire[b + i]
      BY <1>2, <1>3
    <3> QED BY <1>5, <2>3, <3>1, <3>2
  <2>5. CASE \E j \in 1..l : j <= c /\ b + j = d
    <3>1. PICK j \in 1..l : j <= c /\ b + j = d
      BY <2>5
    <3>2. j \notin {5, 6}
      <4>1. \A i \in {5, 6} : b + i \in LengthBytes(sent)
        BY <1>1, <1>3, <2>1 DEF LengthBytes
      <4> QED BY <1>5, <3>1, <4>1
    <3>3. \A i \in 1..c : b + i # d <=> i # j
      BY <3>1
    <3>4. HeadsBut(window, sent[m + 1], j)
      BY <1>3, <2>2, <2>4, <3>3 DEF HeadsBut
    <3> QED BY <1>3, <2>2, <3>1, <3>2, <3>4
  <2>6. CASE ~\E j \in 1..l : j <= c /\ b + j = d
    <3>1. ASSUME NEW i \in 1..c, i <= l PROVE b + i # d
      <4>1. i \in 1..l /\ i <= c
        BY <2>2, <3>1
      <4> QED BY <2>6, <4>1
    <3>2. Heads(window, sent[m + 1])
      BY <1>3, <2>2, <2>4, <3>1 DEF Heads
    <3> QED BY <3>2
  <2> QED BY <2>5, <2>6
<1>7. ASSUME m = Len(sent) PROVE window = << >>
  <2>1. b = size /\ c = 0
    BY <1>1, <1>3, <1>4, <1>7
  <2> QED BY <1>2, <1>3, <2>1, EmptySeq
<1> QED BY <1>1, <1>6, <1>7 DEF window

-----------------------------------------------------------------------------
(* The invariant for damage that the sum catches. *)

Caught == sent \in Seq(Sendable) /\ (SumCatches => FirstSent)

LEMMA InitCaught == SendersKeepBounds /\ Init => Caught
BY InitFirstSent DEF Caught, SendersKeepBounds, Init

\* A call delivers the next frame sent or none.
LEMMA CallKeepsCaught ==
    ASSUME TypeOK, TypeOK', Accounts, Caught, NEW n \in 0..Len(todo),
           NEW eof \in BOOLEAN, NEW out, Call(n, eof, out),
           Typed(out, SubSeq(todo, 1, n), eof)
    PROVE  Caught'
<1> SUFFICES ASSUME SumCatches' PROVE FirstSent'
  BY DEF Caught, Call
<1> DEFINE view == SubSeq(todo, 1, n)
           window == carry \o view
<1>1. /\ pc \in {"view", "drain", "flush"} /\ pc # "failed"
      /\ out = DecodeFrame(carry, view, eof) /\ Absorb(out)
      /\ sent' = sent /\ wire' = wire
  BY DEF Call
<1>2. sent \in Seq(Sendable) /\ SumCatches /\ FirstSent
  BY <1>1 DEF Caught, SumCatches, Undamaged
<1>3. PICK m \in 0..Len(sent) :
          /\ m = Len(Decoded) /\ HeldFrom = FrameBegin(sent, m + 1)
          /\ m < Len(sent) =>
                 \/ Heads(window, sent[m + 1])
                 \/ \E j \in 1..FrameLen(sent[m + 1]) :
                        /\ j \notin {5, 6} /\ j <= Len(window)
                        /\ HeadsBut(window, sent[m + 1], j)
          /\ m = Len(sent) => window = << >>
  BY <1>1, <1>2, CaughtWindow
<1>4. carry \in Seq(Byte) /\ view \in Seq(Byte) /\ Len(sent) \in Nat
      /\ frames \in Seq(DecodedFrames) /\ delivered \in Seq(DecodedFrames)
      /\ Decoded \in Seq(DecodedFrames)
  <2>1. /\ carry \in Seq(Byte) /\ todo \in Seq(Byte)
        /\ frames \in Seq(DecodedFrames) /\ delivered \in Seq(DecodedFrames)
    BY DEF TypeOK
  <2>2. view \in Seq(Byte)
    <3>1. 1 \in 1..Len(todo) + 1 /\ n \in (1 - 1)..Len(todo)
      BY <2>1
    <3> QED BY <2>1, <3>1, PieceProperties
  <2> QED BY <1>2, <2>1, <2>2, ConcatProperties DEF Decoded
<1>5. CASE out.status # "frame"
  <2>1. Decoded' = Decoded \/ Decoded' = delivered
    <3>1. \/ delivered' = delivered /\ frames' = frames
          \/ Decoded' = Decoded
          \/ delivered' = delivered /\ frames' = << >>
      BY <1>5 DEF Call
    <3>2. delivered \o << >> = delivered
      BY <1>4, ConcatEmptySeq
    <3> QED BY <3>1, <3>2 DEF Decoded
  <2>2. AreSent(sent, Decoded) /\ AreSent(sent, delivered)
    BY <1>2, <1>4, DecodedAre, FirstAreSent DEF Decoded
  <2> QED BY <1>1, <2>1, <2>2, NextDecodedAre
<1>6. CASE out.status = "frame"
  <2> DEFINE f == sent[m + 1]
  <2>1. window # << >>
    <3> SUFFICES ASSUME window = << >> PROVE FALSE
      OBVIOUS
    <3>1. out.status # "frame"
      BY <1>1 DEF DecodeFrame, FrameOut
    <3> QED BY <1>6, <3>1
  <2>2. m < Len(sent) /\ m + 1 \in 1..Len(sent) /\ f \in Sendable
    <3>1. m # Len(sent)
      BY <1>3, <2>1
    <3>2. Len(sent) \in Nat
      BY <1>4
    <3>3. m < Len(sent) /\ m + 1 \in 1..Len(sent)
      BY <3>1, <3>2
    <3> QED BY <1>2, <3>3
  <2>3. Heads(window, f)
    <3> SUFFICES ASSUME NEW j \in 1..FrameLen(f), j \notin {5, 6},
                        j <= Len(window), HeadsBut(window, f, j)
                 PROVE  FALSE
      BY <1>3, <2>2
    <3> HIDE DEF f, view
    <3>1. DecodeFrame(carry, view, eof).status # "frame"
      BY <1>4, <2>2, DamagedAnswer
    <3> QED BY <1>1, <1>6, <3>1
  <2>4. PICK l \in Nat : l = FrameLen(f)
    BY <2>2, FrameLenTyped
  <2> HIDE DEF f
  <2>5. out.frame_len = l /\ out.kind = f.kind /\ out.payload = f.payload
    <3> HIDE DEF view
    <3>1. /\ Len(window) < l => out = Incomplete(carry, view, eof)
          /\ Len(window) >= l => /\ out.frame_len = l
                                 /\ out.kind = f.kind /\ out.payload = f.payload
      BY <1>1, <1>4, <2>1, <2>2, <2>3, <2>4, SoundAnswer
    <3>2. Incomplete(carry, view, eof).status # "frame"
      BY DEF Incomplete, FailFrame, FrameOut
    <3>3. Len(window) \in Nat
      BY <1>4, WindowTyped
    <3>4. ~(Len(window) < l)
      BY <1>6, <3>1, <3>2
    <3>5. Len(window) >= l
      BY <3>3, <3>4
    <3> QED BY <3>1, <3>5
  <2> DEFINE new == Frame(out.kind, out.payload, HeldFrom, out.frame_len)
  <2>6. PushFrame(out) /\ delivered' = delivered
    BY <1>6 DEF Call, Refusals
  <2>7. out.consumed \in Nat
    <3>1. out.consumed \in 0..Len(view)
      BY DEF Typed
    <3> QED BY <3>1
  <2>8. new \in DecodedFrames /\ Decoded' = Append(Decoded, new)
    BY <1>1, <2>6, <2>7, PushedFrame
  <2>9. new = SentAs(sent, m + 1)
    <3>1. HeldFrom + l = FrameBegin(sent, (m + 1) + 1)
      BY <1>2, <1>3, <2>2, <2>4, FrameBegins DEF f
    <3> QED BY <1>3, <2>5, <3>1 DEF SentAs, Frame, f
  <2> HIDE DEF new
  <2>10. AreSent(sent, Append(Decoded, new))
    BY <1>2, <1>3, <1>4, <2>2, <2>8, <2>9, DecodedAre, OneMoreIsSent
  <2> QED BY <1>1, <2>8, <2>10, NextDecodedAre
<1> QED BY <1>5, <1>6

LEMMA NextCaught ==
    TypeOK /\ TypeOK' /\ Accounts /\ Caught /\ [Next]_vars => Caught'
<1> SUFFICES ASSUME TypeOK, TypeOK', Accounts, Caught, [Next]_vars PROVE Caught'
  OBVIOUS
<1>1. CASE sent' = sent /\ wire' = wire /\ Decoded' = Decoded
  <2>1. SumCatches' => SumCatches
    BY <1>1 DEF SumCatches, Undamaged
  <2>2. FirstSent => FirstSent'
    BY <1>1, DecodedAre, NextDecodedAre
  <2> QED BY <1>1, <2>1, <2>2 DEF Caught
<1>2. CASE \E out : \E n \in 0..Len(todo), eof \in BOOLEAN :
               Call(n, eof, out) /\ Typed(out, SubSeq(todo, 1, n), eof)
  BY <1>2, CallKeepsCaught
<1>3. CASE \E n \in ChunkSizes : Feed(n)
  <2>1. sent' = sent /\ wire' = wire /\ Decoded' = Decoded
    BY <1>3 DEF Feed, sender, Decoded
  <2> QED BY <1>1, <2>1
<1> QED BY <1>1, <1>2, <1>3, StepIsACall

\* Whatever one byte outside the lengths was damaged, the frames decoded are
\* the first frames sent, each with its kind, its payload and its own byte
\* range, for every chunking: the checksum of src/frames.rs lets none through
\* altered.
THEOREM FrameReaderDecodesWhatWasSent ==
    ASSUME ViewsFit, SendersKeepBounds
    PROVE  Spec => []DecodedAreSent
<1>1. Init => TypeOK /\ Accounts /\ Caught
  BY InitTypeOK, InitAccounts, InitCaught
<1>2. TypeOK /\ Accounts /\ Caught /\ [Next]_vars => (TypeOK /\ Accounts /\ Caught)'
  BY NextTypeOK, NextAccounts, NextCaught
<1>3. Caught => DecodedAreSent
  BY DEF Caught, DecodedAreSent, FirstSent, AreSent, SentAs, Decoded
<1> QED BY <1>1, <1>2, <1>3, PTL DEF Spec

-----------------------------------------------------------------------------
(* Between calls, and at the end. *)

\* Between calls what is held is too short for the next frame.
LEMMA HeldIsShort ==
    ASSUME TypeOK, Accounts, Content, Undamaged, todo = << >>,
           pc # "failed", Short(carry) \/ carry = << >>
    PROVE  /\ FramesWithin(sent, fed) = Len(Decoded)
           /\ carry = << >> => fed = FrameBegin(sent, Len(Decoded) + 1)
<1>1. sent \in Seq(Sendable) /\ FirstSent /\ carry \in Seq(Byte)
  BY DEF Content, TypeOK
<1>2. /\ Len(Decoded) \in 0..Len(sent)
      /\ Len(Decoded) < Len(sent) => Heads(carry, sent[Len(Decoded) + 1])
  <2>1. 0 \in 0..Len(todo) /\ carry \o SubSeq(todo, 1, 0) = carry
    <3>1. SubSeq(todo, 1, 0) = << >> /\ 0 \in 0..Len(todo)
      BY NoView
    <3> QED BY <1>1, <3>1, ConcatEmptySeq
  <2>2. LET m == Len(Decoded)
            window == carry \o SubSeq(todo, 1, 0)
        IN  /\ m \in 0..Len(sent)
            /\ m < Len(sent) => Heads(window, sent[m + 1])
    BY <1>1, <2>1, WindowIsSent
  <2> QED BY <2>1, <2>2
<1>3. ASSUME Len(Decoded) < Len(sent)
      PROVE  Len(carry) < FrameLen(sent[Len(Decoded) + 1])
  <2>1. Len(Decoded) + 1 \in 1..Len(sent)
    BY <1>2, <1>3
  <2>2. sent[Len(Decoded) + 1] \in Sendable
    BY <1>1, <2>1
  <2>3. CASE Short(carry)
    BY <1>1, <1>2, <1>3, <2>2, <2>3, ShortOfAFrame
  <2>4. CASE carry = << >>
    <3>1. /\ Len(carry) = 0 /\ FrameLen(sent[Len(Decoded) + 1]) \in Nat
          /\ FrameLen(sent[Len(Decoded) + 1])
               = Len(sent[Len(Decoded) + 1].payload) + 8
          /\ Len(sent[Len(Decoded) + 1].payload) \in Nat
      BY <2>2, <2>4, EmptySeq, FrameLenTyped
    <3> QED BY <3>1
  <2> QED BY <2>3, <2>4
<1>4. /\ FramesWithin(sent, fed) = Len(Decoded)
      /\ FrameBegin(sent, Len(Decoded) + 1) + Len(carry) = fed
      /\ FrameBegin(sent, Len(Decoded) + 1) \in Nat
  BY <1>1, <1>3, FedWithinFrames
<1>5. carry = << >> => Len(carry) = 0
  BY EmptySeq
<1> QED BY <1>4, <1>5

\* Between calls nothing is in the running call, so what is decoded is what
\* callers have.
LEMMA RestIsDelivered ==
    ASSUME TypeOK, Content, Undamaged, pc \in {"idle", "finished"}
    PROVE  Decoded = delivered
<1>1. delivered \in Seq(DecodedFrames) /\ frames = << >>
  BY DEF TypeOK, Content
<1> QED BY <1>1, ConcatEmptySeq DEF Decoded

\* Every frame that was fed whole has been returned when feed returns.
THEOREM FrameReaderWithholdsNothing ==
    ASSUME ViewsFit, SendersKeepBounds
    PROVE  Spec => []NothingWithheld
<1>1. TypeOK /\ Accounts /\ Content => NothingWithheld
  <2> SUFFICES ASSUME TypeOK, Accounts, Content, Undamaged, pc = "idle"
               PROVE  Len(delivered) = FramesWithin(sent, fed)
    BY DEF NothingWithheld
  <2>1. Short(carry) /\ todo = << >>
    BY DEF Accounts
  <2> QED BY <2>1, HeldIsShort, RestIsDelivered
<1> QED BY <1>1, ContentIsInvariant, PTL

\* A stream that finished cleanly had all its frames delivered and ended where
\* the last one did.
THEOREM FrameReaderEndedMeansAllDelivered ==
    ASSUME ViewsFit, SendersKeepBounds
    PROVE  Spec => []EndedMeansAllDelivered
<1>1. TypeOK /\ Accounts /\ Content => EndedMeansAllDelivered
  <2> SUFFICES ASSUME TypeOK, Accounts, Content, Undamaged, pc = "finished"
               PROVE  /\ Len(delivered) = FramesWithin(sent, fed)
                      /\ fed = FrameBegin(sent, Len(delivered) + 1)
    BY DEF EndedMeansAllDelivered
  <2>1. carry = << >> /\ todo = << >>
    BY DEF Accounts, Content
  <2> QED BY <2>1, HeldIsShort, RestIsDelivered
<1> QED BY <1>1, ContentIsInvariant, PTL

\* The wire a sender wrote is refused only as truncated, and only when it was
\* cut inside a frame.
THEOREM FrameReaderSoundWireIsNotMalformed ==
    ASSUME ViewsFit, SendersKeepBounds
    PROVE  Spec => []SoundWireIsNotMalformed
<1>1. TypeOK /\ Accounts /\ Content => SoundWireIsNotMalformed
  BY DEF Content, EndsInside, SoundWireIsNotMalformed
<1> QED BY <1>1, ContentIsInvariant, PTL

-----------------------------------------------------------------------------
(* Whatever the wire: a frame is what an encoder writes. *)

\* A window whose header is sound and whose sum is right begins with the
\* encoding of its kind and its payload.
LEMMA DecodedIsEncoded ==
    ASSUME NEW s \in Seq(Byte), Len(s) >= HeaderLen, HeaderStatus(s) = "sound",
           NEW n \in Nat, n = U16At(s, 4), Len(s) >= n + 8,
           U16At(s, n + 6) = Checksum(s, n + 6)
    PROVE  SubSeq(s, 1, n + 8) = EncodeFrame(1, s[4], SubSeq(s, 7, n + 6))
<1> DEFINE p == SubSeq(s, 7, n + 6)
           f == [kind |-> s[4], payload |-> p]
           e == Encoded(f)
<1>1. PICK m \in Nat : m = Len(s) /\ n + 8 <= m
  OBVIOUS
<1>2. \A i \in 1..m : s[i] \in 0..255 /\ s[i] \in Nat
  <2>1. \A i \in 1..m : s[i] \in Byte
    BY <1>1
  <2>2. \A b \in Byte : b \in 0..255 /\ b \in Nat
    BY DEF Byte
  <2> QED BY <2>1, <2>2
<1>3. /\ s[1] = MagicLo /\ s[2] = MagicHi /\ s[3] = 1
      /\ ~(s[4] > 2) /\ ~(n > MaxPayload)
  BY DEF HeaderStatus
<1>4. p \in Seq(Byte) /\ Len(p) = n /\ \A i \in 1..n : p[i] = s[6 + i]
  <2>1. 7 \in 1..(Len(s) + 1) /\ n + 6 \in (7 - 1)..Len(s) /\ n + 6 - 7 + 1 = n
    BY <1>1
  <2>2. /\ p \in Seq(Byte) /\ Len(p) = n + 6 - 7 + 1
        /\ \A i \in 1..(n + 6 - 7 + 1) : p[i] = s[7 + i - 1]
    BY <2>1, PieceProperties
  <2> HIDE DEF p
  <2>3. \A i \in 1..n : 7 + i - 1 = 6 + i
    OBVIOUS
  <2> QED BY <2>1, <2>2, <2>3
<1> HIDE DEF p
<1>5. f \in Sendable /\ f.kind = s[4] /\ f.payload = p
  <2>1. s[4] \in 0..2
    <3>1. 4 \in 1..m
      BY <1>1
    <3> QED BY <1>2, <1>3, <3>1
  <2>2. p \in Payloads
    BY <1>3, <1>4, FramesAssumption DEF Payloads
  <2> QED BY <2>1, <2>2 DEF Sendable
<1>6. /\ e = EncodeFrame(1, s[4], p) /\ FrameLen(f) = n + 8
  <2>1. FrameLen(f) = Len(f.payload) + 8
    BY <1>5, FrameLenTyped
  <2> QED BY <1>4, <1>5, <2>1 DEF Encoded
<1> HIDE DEF f
<1>7. /\ e \in Seq(Nat) /\ Len(e) = n + 8
      /\ e[1] = MagicLo /\ e[2] = MagicHi /\ e[3] = 1 /\ e[4] = s[4]
      /\ U16At(e, 4) = n /\ \A i \in 1..n : e[6 + i] = p[i]
      /\ U16At(e, n + 6) = WrappedSum(SubSeq(e, 1, n + 6))
      /\ e[5] \in 0..255 /\ e[n + 7] \in 0..255
  BY <1>4, <1>5, <1>6, EncodedBytes
<1> HIDE DEF e
<1>8. \A i \in 1..(n + 8) : e[i] \in Nat /\ i \in 1..m
  <2>1. e \in Seq(Nat) /\ Len(e) = n + 8
    BY <1>7
  <2>2. \A i \in 1..(n + 8) : e[i] \in Nat
    BY <2>1
  <2>3. \A i \in 1..(n + 8) : i \in 1..m
    BY <1>1
  <2> QED BY <2>2, <2>3
<1>9. s[5] = e[5] /\ s[6] = e[6]
  <2>1. s[4 + 1] + 256 * s[4 + 2] = n /\ e[4 + 1] + 256 * e[4 + 2] = n
    BY <1>7 DEF U16At
  <2>2. 4 + 1 = 5 /\ 4 + 2 = 6 /\ 5 \in 1..(n + 8) /\ 6 \in 1..(n + 8)
    OBVIOUS
  <2>3. s[5] + 256 * s[6] = e[5] + 256 * e[6]
    BY <2>1, <2>2
  <2>4. s[5] \in 0..255 /\ e[5] \in 0..255 /\ s[6] \in Nat /\ e[6] \in Nat
    BY <1>2, <1>7, <1>8, <2>2
  <2>5. PICK a \in 0..255, b \in Nat, c \in 0..255, d \in Nat :
            a = s[5] /\ b = s[6] /\ c = e[5] /\ d = e[6]
    BY <2>4
  <2>6. a + 256 * b = c + 256 * d
    BY <2>3, <2>5
  <2>7. a = c /\ b = d
    BY <2>6
  <2> QED BY <2>5, <2>7
<1>10. ASSUME NEW i \in 1..(n + 6) PROVE s[i] = e[i]
  <2>1. CASE i <= 6
    <3>1. i = 1 \/ i = 2 \/ i = 3 \/ i = 4 \/ i = 5 \/ i = 6
      BY <2>1
    <3> QED BY <1>3, <1>7, <1>9, <3>1
  <2>2. CASE ~(i <= 6)
    <3>1. i - 6 \in 1..n /\ 6 + (i - 6) = i
      BY <2>2
    <3> QED BY <1>4, <1>7, <3>1
  <2> QED BY <2>1, <2>2
<1>11. s \in Seq(Nat)
  BY <1>1, <1>2
<1>12. ASSUME NEW k \in Nat, k <= n + 8, \A i \in 1..k : s[i] = e[i]
       PROVE  SubSeq(e, 1, k) = SubSeq(s, 1, k)
  <2> DEFINE piece == SubSeq(s, 1, k)
  <2>1. 1 \in 1..(Len(s) + 1) /\ k \in (1 - 1)..Len(s) /\ k - 1 + 1 = k
        /\ 1 \in 1..(Len(e) + 1) /\ k \in (1 - 1)..Len(e)
    <3>1. Len(e) = n + 8
      BY <1>7
    <3> QED BY <1>1, <1>12, <3>1
  <2>2. /\ piece \in Seq(Nat) /\ Len(piece) = k - 1 + 1
        /\ \A i \in 1..(k - 1 + 1) : piece[i] = s[1 + i - 1]
    BY <1>11, <2>1, PieceProperties
  <2> HIDE DEF piece
  <2>3. \A i \in 1..Len(piece) : piece[i] = e[1 + i - 1]
    <3>1. Len(piece) = k /\ \A i \in 1..k : piece[i] = s[1 + i - 1]
      BY <2>1, <2>2
    <3>2. \A i \in 1..k : 1 + i - 1 = i
      OBVIOUS
    <3>3. \A i \in 1..k : s[i] = e[i]
      BY <1>12
    <3> QED BY <3>1, <3>2, <3>3
  <2>4. piece = SubSeq(e, 1, k)
    BY <1>7, <2>1, <2>2, <2>3, PieceIsUnique
  <2> QED BY <2>4 DEF piece
<1>13. s[n + 7] = e[n + 7] /\ s[n + 8] = e[n + 8]
  <2>1. SubSeq(e, 1, n + 6) = SubSeq(s, 1, n + 6)
    <3>1. n + 6 \in Nat /\ n + 6 <= n + 8
      OBVIOUS
    <3> QED BY <1>10, <1>12, <3>1
  <2>2. U16At(s, n + 6) = U16At(e, n + 6)
    BY <1>7, <2>1 DEF Checksum
  <2>3. s[(n + 6) + 1] + 256 * s[(n + 6) + 2] = e[(n + 6) + 1] + 256 * e[(n + 6) + 2]
    BY <2>2 DEF U16At
  <2>4. /\ (n + 6) + 1 = n + 7 /\ (n + 6) + 2 = n + 8
        /\ n + 7 \in 1..(n + 8) /\ n + 8 \in 1..(n + 8)
    OBVIOUS
  <2>5. s[n + 7] + 256 * s[n + 8] = e[n + 7] + 256 * e[n + 8]
    BY <2>3, <2>4
  <2>6. s[n + 7] \in 0..255 /\ e[n + 7] \in 0..255
        /\ s[n + 8] \in Nat /\ e[n + 8] \in Nat
    BY <1>2, <1>7, <1>8, <2>4
  <2>7. PICK a \in 0..255, b \in Nat, c \in 0..255, d \in Nat :
            a = s[n + 7] /\ b = s[n + 8] /\ c = e[n + 7] /\ d = e[n + 8]
    BY <2>6
  <2>8. a + 256 * b = c + 256 * d
    BY <2>5, <2>7
  <2>9. a = c /\ b = d
    BY <2>8
  <2> QED BY <2>7, <2>9
<1>14. \A i \in 1..(n + 8) : s[i] = e[i]
  <2>1. \A i \in 1..(n + 8) : i \in 1..(n + 6) \/ i = n + 7 \/ i = n + 8
    OBVIOUS
  <2> QED BY <1>10, <1>13, <2>1
<1>15. SubSeq(e, 1, n + 8) = SubSeq(s, 1, n + 8)
  <2>1. n + 8 \in Nat /\ n + 8 <= n + 8
    OBVIOUS
  <2> QED BY <1>12, <1>14, <2>1
<1>16. SubSeq(e, 1, n + 8) = e
  BY <1>7, SubSeqFull
<1> QED BY <1>6, <1>15, <1>16 DEF p

\* So is every frame the language returns.
LEMMA AnswerIsEncoded ==
    ASSUME NEW carry_ \in Seq(Byte), NEW view \in Seq(Byte), NEW eof \in BOOLEAN,
           DecodeFrame(carry_, view, eof).status = "frame"
    PROVE  LET out == DecodeFrame(carry_, view, eof)
           IN  /\ out.frame_len \in Nat /\ out.frame_len <= Len(carry_ \o view)
               /\ SubSeq(carry_ \o view, 1, out.frame_len)
                      = EncodeFrame(1, out.kind, out.payload)
<1> DEFINE staged == carry_ \o view
           out == DecodeFrame(carry_, view, eof)
           length == HeaderLen + U16At(staged, 4) + 2
<1>1. staged \in Seq(Byte) /\ Len(staged) \in Nat
  BY WindowTyped
<1>2. /\ FailFrame("bad_checksum", view).status # "frame"
      /\ FailFrame("truncated", view).status # "frame"
      /\ FailFrame(HeaderStatus(staged), view).status # "frame"
      /\ Incomplete(carry_, view, eof).status # "frame"
  BY DEF FailFrame, FrameOut, Incomplete, HeaderStatus
<1>3. FrameOut(IF eof THEN "complete" ELSE "need_more", 0, << >>, 0,
               << >>, 0).status # "frame"
  BY DEF FrameOut
<1> HIDE DEF staged, length
<1>4. /\ out = DecodeBody(carry_, view, eof, length)
      /\ ~(Len(staged) < HeaderLen) /\ HeaderStatus(staged) = "sound"
  BY <1>2, <1>3 DEF DecodeFrame, staged, length
<1> HIDE DEF out
<1>5. out.status = "frame"
  BY DEF out
<1>6. /\ ~(Len(staged) < length)
      /\ U16At(staged, length - 2) = Checksum(staged, length - 2)
      /\ out = EmitFrame(carry_, view, length)
  BY <1>2, <1>4, <1>5 DEF DecodeBody, staged
<1>7. PICK n \in Nat : n = U16At(staged, 4)
  BY <1>1, <1>4, U16Natural DEF HeaderLen
<1>8. length = n + 8 /\ length - 2 = n + 6 /\ HeaderLen + 1 = 7
  BY <1>7 DEF length, HeaderLen
<1>9. /\ Len(staged) >= HeaderLen /\ Len(staged) >= n + 8
  BY <1>1, <1>4, <1>6, <1>8 DEF HeaderLen
<1>10. SubSeq(staged, 1, n + 8) = EncodeFrame(1, staged[4], SubSeq(staged, 7, n + 6))
  BY <1>1, <1>4, <1>6, <1>7, <1>8, <1>9, DecodedIsEncoded
<1>11. /\ out.frame_len = n + 8 /\ out.kind = staged[4]
       /\ out.payload = SubSeq(staged, 7, n + 6)
  BY <1>6, <1>8 DEF EmitFrame, FrameOut, staged
<1> QED BY <1>1, <1>9, <1>10, <1>11 DEF staged, out

EncodedOn(w, d) ==
    SubSeq(w, d.byte_start + 1, d.byte_end) = EncodeFrame(1, d.kind, d.payload)

OnWire == \A k \in 1..Len(Decoded) : EncodedOn(wire, Decoded[k])

LEMMA OneMoreOnWire ==
    ASSUME NEW S, NEW w, NEW ds \in Seq(S), NEW new \in S, EncodedOn(w, new),
           \A k \in 1..Len(ds) : EncodedOn(w, ds[k])
    PROVE  LET more == Append(ds, new)
           IN  \A k \in 1..Len(more) : EncodedOn(w, more[k])
<1> DEFINE more == Append(ds, new)
<1>1. /\ Len(more) = Len(ds) + 1 /\ more[Len(ds) + 1] = new
      /\ \A k \in 1..Len(ds) : more[k] = ds[k]
  BY AppendProperties
<1> HIDE DEF more
<1>2. \A k \in 1..Len(more) : k = Len(ds) + 1 \/ k \in 1..Len(ds)
  BY <1>1
<1> QED BY <1>1, <1>2 DEF more

LEMMA FirstOnWire ==
    ASSUME NEW S, NEW w, NEW ds \in Seq(S), NEW es \in Seq(S),
           \A k \in 1..Len(ds \o es) : EncodedOn(w, (ds \o es)[k])
    PROVE  \A k \in 1..Len(ds) : EncodedOn(w, ds[k])
<1> DEFINE all == ds \o es
<1>1. PICK n \in Nat, m \in Nat : n = Len(ds) /\ m = Len(es)
  OBVIOUS
<1>2. /\ Len(all) = Len(ds) + Len(es)
      /\ \A k \in 1..Len(ds) + Len(es) :
             all[k] = IF k <= Len(ds) THEN ds[k] ELSE es[k - Len(ds)]
  BY ConcatProperties
<1> HIDE DEF all
<1>3. \A k \in 1..Len(all) : EncodedOn(w, all[k])
  BY DEF all
<1>4. ASSUME NEW k \in 1..n PROVE EncodedOn(w, ds[k])
  <2>1. k \in 1..(n + m) /\ k <= n
    OBVIOUS
  <2>2. all[k] = ds[k] /\ k \in 1..Len(all)
    BY <1>1, <1>2, <2>1
  <2> QED BY <1>3, <2>2
<1> QED BY <1>1, <1>4

LEMMA CallKeepsOnWire ==
    ASSUME TypeOK, TypeOK', Accounts, OnWire, NEW n \in 0..Len(todo),
           NEW eof \in BOOLEAN, NEW out, Call(n, eof, out),
           Typed(out, SubSeq(todo, 1, n), eof)
    PROVE  OnWire'
<1> DEFINE view == SubSeq(todo, 1, n)
           window == carry \o view
<1>1. /\ pc # "failed" /\ out = DecodeFrame(carry, view, eof) /\ wire' = wire
  BY DEF Call
<1>2. /\ carry \in Seq(Byte) /\ todo \in Seq(Byte) /\ wire \in Seq(Byte)
      /\ frames \in Seq(DecodedFrames) /\ delivered \in Seq(DecodedFrames)
      /\ Decoded \in Seq(DecodedFrames)
  BY ConcatProperties DEF TypeOK, Decoded
<1>3. view \in Seq(Byte)
  <2>1. 1 \in 1..Len(todo) + 1 /\ n \in (1 - 1)..Len(todo)
    BY <1>2
  <2> QED BY <1>2, <2>1, PieceProperties
<1>4. CASE out.status = "frame"
  <2> DEFINE new == Frame(out.kind, out.payload, HeldFrom, out.frame_len)
             l == out.frame_len
             piece == SubSeq(window, 1, l)
  <2>1. PushFrame(out) /\ delivered' = delivered
    BY <1>4 DEF Call, Refusals
  <2>2. out.consumed \in Nat
    <3>1. out.consumed \in 0..Len(view)
      BY DEF Typed
    <3> QED BY <3>1
  <2>3. new \in DecodedFrames /\ Decoded' = Append(Decoded, new)
    BY <1>1, <2>1, <2>2, PushedFrame
  <2>4. /\ l \in Nat /\ l <= Len(window)
        /\ piece = EncodeFrame(1, out.kind, out.payload)
    BY <1>1, <1>2, <1>3, <1>4, AnswerIsEncoded
  <2>5. /\ window \in Seq(Byte)
        /\ \A i \in 1..Len(window) : window[i] = wire[HeldFrom + i]
        /\ HeldFrom \in Nat /\ HeldFrom + Len(window) <= fed
        /\ fed \in 0..Len(wire) /\ Len(window) \in Nat /\ Len(wire) \in Nat
    BY <1>1, <1>2, WindowInWire
  <2> HIDE DEF window, view, l
  <2> PICK h \in Nat : h = HeldFrom
    BY <2>5
  <2>6. piece \in Seq(Byte) /\ Len(piece) = l
        /\ \A i \in 1..l : piece[i] = window[i]
    <3>1. 1 \in 1..Len(window) + 1 /\ l \in (1 - 1)..Len(window) /\ l - 1 + 1 = l
      BY <2>4, <2>5
    <3>2. /\ piece \in Seq(Byte) /\ Len(piece) = l - 1 + 1
          /\ \A i \in 1..(l - 1 + 1) : piece[i] = window[1 + i - 1]
      BY <2>5, <3>1, PieceProperties
    <3> HIDE DEF piece
    <3>3. \A i \in 1..l : 1 + i - 1 = i
      BY <2>4
    <3> QED BY <3>1, <3>2, <3>3
  <2> HIDE DEF piece
  <2>7. piece = SubSeq(wire, h + 1, h + l)
    <3>1. /\ h + 1 \in 1..Len(wire) + 1
          /\ h + l \in (h + 1 - 1)..Len(wire)
          /\ Len(piece) = (h + l) - (h + 1) + 1
      BY <2>4, <2>5, <2>6
    <3>2. \A i \in 1..Len(piece) : piece[i] = wire[(h + 1) + i - 1]
      <4>1. \A i \in 1..l : (h + 1) + i - 1 = h + i /\ i \in 1..Len(window)
        BY <2>4, <2>5
      <4>2. \A i \in 1..l : window[i] = wire[h + i]
        BY <2>5, <4>1
      <4> QED BY <2>6, <4>1, <4>2
    <3>3. wire \in Seq(Byte) /\ piece \in Seq(Byte)
      BY <1>2, <2>6
    <3> DEFINE from == h + 1
               upto == h + l
    <3>4. /\ from \in 1..Len(wire) + 1 /\ upto \in (from - 1)..Len(wire)
          /\ Len(piece) = upto - from + 1
          /\ \A i \in 1..Len(piece) : piece[i] = wire[from + i - 1]
      BY <3>1, <3>2
    <3> HIDE DEF from, upto
    <3>5. piece = SubSeq(wire, from, upto)
      BY <3>3, <3>4, PieceIsUnique
    <3> QED BY <3>5 DEF from, upto
  <2>8. EncodedOn(wire, new)
    <3>1. /\ new.byte_start = h /\ new.byte_end = h + l
          /\ new.kind = out.kind /\ new.payload = out.payload
      BY DEF Frame, l
    <3> HIDE DEF new
    <3> QED BY <2>4, <2>7, <3>1 DEF EncodedOn
  <2> HIDE DEF new
  <2>9. \A k \in 1..Len(Append(Decoded, new)) :
            EncodedOn(wire, Append(Decoded, new)[k])
    BY <1>2, <2>3, <2>8, OneMoreOnWire DEF OnWire
  <2> QED BY <1>1, <2>3, <2>9 DEF OnWire
<1>5. CASE out.status # "frame"
  <2>1. \/ Decoded' = Decoded
        \/ frames' = << >> /\ delivered' = delivered
    BY <1>5 DEF Call, Decoded
  <2>2. CASE Decoded' = Decoded
    BY <1>1, <2>2 DEF OnWire
  <2>3. CASE frames' = << >> /\ delivered' = delivered
    <3>1. Decoded' = delivered
      BY <1>2, <2>3, ConcatEmptySeq DEF Decoded
    <3>2. \A k \in 1..Len(delivered) : EncodedOn(wire, delivered[k])
      BY <1>2, FirstOnWire DEF OnWire, Decoded
    <3> QED BY <1>1, <3>1, <3>2 DEF OnWire
  <2> QED BY <2>1, <2>2, <2>3
<1> QED BY <1>4, <1>5

\* The decoder invents nothing: whatever the wire, the byte range of every frame
\* returned holds exactly what the encoder writes for its kind and payload.
THEOREM FrameReaderFramesAreOnTheWire ==
    ASSUME ViewsFit
    PROVE  Spec => []FramesAreOnTheWire
<1>1. Init => TypeOK /\ Accounts /\ OnWire
  <2>1. Init => OnWire
    <3> SUFFICES ASSUME Init PROVE OnWire
      OBVIOUS
    <3>1. << >> \o << >> = << >> /\ Len(<< >>) = 0
      BY ConcatEmptySeq, EmptySeq
    <3>2. Len(Decoded) = 0
      BY <3>1 DEF Init, Decoded
    <3> QED BY <3>2 DEF OnWire
  <2> QED BY <2>1, InitTypeOK, InitAccounts
<1>2. TypeOK /\ TypeOK' /\ Accounts /\ OnWire /\ [Next]_vars => OnWire'
  <2> SUFFICES ASSUME TypeOK, TypeOK', Accounts, OnWire, [Next]_vars PROVE OnWire'
    OBVIOUS
  <2>1. CASE \E n \in ChunkSizes : Feed(n)
    <3>1. wire' = wire /\ Decoded' = Decoded
      BY <2>1 DEF Feed, sender, Decoded
    <3> QED BY <3>1 DEF OnWire
  <2>2. CASE \E out : \E n \in 0..Len(todo), eof \in BOOLEAN :
                 Call(n, eof, out) /\ Typed(out, SubSeq(todo, 1, n), eof)
    BY <2>2, CallKeepsOnWire
  <2>3. CASE wire' = wire /\ Decoded' = Decoded
    BY <2>3 DEF OnWire
  <2> QED BY <2>1, <2>2, <2>3, StepIsACall
<1>3. TypeOK /\ Accounts /\ [Next]_vars => (TypeOK /\ Accounts)'
  BY NextTypeOK, NextAccounts
<1>4. OnWire => FramesAreOnTheWire
  BY DEF OnWire, EncodedOn, FramesAreOnTheWire, Decoded
<1> QED BY <1>1, <1>2, <1>3, <1>4, PTL DEF Spec
=============================================================================
