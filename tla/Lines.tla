------------------------------- MODULE Lines -------------------------------
(***************************************************************************)
(* The incremental line splitter, language/mncs/flow/lines.mncs.           *)
(*                                                                         *)
(* One call stages the bytes held over from the previous call (the carry)  *)
(* in front of the bytes of one view, and either cuts the first line off,  *)
(* asks for more, completes, or refuses.  It is a pure function: the host  *)
(* (CsvReader) keeps the carry between calls.                              *)
(*                                                                         *)
(* Bytes are abstracted to the classes the code tells apart: "nl" (10),    *)
(* "cr" (13), "ctl" (any other value below 32 except tab), the two         *)
(* delimiters the field splitter knows, and two distinguishable others.    *)
(***************************************************************************)
EXTENDS Views

CONSTANTS
    LineMax,   \* longest line, 255 in the code
    CarryCap   \* bytes the carry array holds, 256 in the code

ASSUME LinesAssumption ==
    /\ LineMax \in Nat
    /\ CarryCap \in Nat
    /\ LineMax <= CarryCap

Byte == {"nl", "cr", "ctl", "comma", "esc", "a", "b"}

-----------------------------------------------------------------------------

Newlines(s) == {i \in 1..Len(s) : s[i] = "nl"}

\* Position of the first newline of a staged window that has one.
FirstNewline(s) == CHOOSE i \in Newlines(s) : \A j \in Newlines(s) : i <= j

HasControl(s) == \E i \in 1..Len(s) : s[i] = "ctl"

\* No control byte, and a CR at most as the last byte.
IsClean(s) ==
    \A i \in 1..Len(s) : s[i] # "ctl" /\ (s[i] = "cr" => i = Len(s))

EndsWithCR(s) == s # << >> /\ s[Len(s)] = "cr"

StripCR(s) == IF EndsWithCR(s) THEN SubSeq(s, 1, Len(s) - 1) ELSE s

-----------------------------------------------------------------------------

LineOut(status, line, held, consumed) ==
    [status |-> status, line |-> line, carry |-> held, consumed |-> consumed]

\* A refusal forgets the whole window, the carried bytes included.
FailLine(code, view) == LineOut(code, << >>, << >>, Len(view))

\* Mistake: the bound is taken before the CR is stripped.
EmitLineRawBound(carry, view) ==
    LET staged == carry \o view
        at     == FirstNewline(staged)
        raw    == SubSeq(staged, 1, at - 1)
    IN  IF ~IsClean(raw) THEN FailLine("malformed", view)
        ELSE IF Len(raw) > LineMax THEN FailLine("overlong", view)
        ELSE LineOut("line", StripCR(raw),
                     SubSeq(staged, at + 1, at + Kept(staged, at, CarryCap)),
                     Consumed(carry, view, at, CarryCap))

\* Mistake: a line of LineMax bytes is too long.
EmitLineShortBound(carry, view) ==
    LET staged == carry \o view
        at     == FirstNewline(staged)
        raw    == SubSeq(staged, 1, at - 1)
    IN  IF ~IsClean(raw) THEN FailLine("malformed", view)
        ELSE IF Len(StripCR(raw)) >= LineMax THEN FailLine("overlong", view)
        ELSE LineOut("line", StripCR(raw),
                     SubSeq(staged, at + 1, at + Kept(staged, at, CarryCap)),
                     Consumed(carry, view, at, CarryCap))

\* Mistake: the line that is handed out stays in the carry.
EmitLineUncut(carry, view) ==
    LET staged == carry \o view
        at     == FirstNewline(staged)
        raw    == SubSeq(staged, 1, at - 1)
    IN  IF ~IsClean(raw) THEN FailLine("malformed", view)
        ELSE IF Len(StripCR(raw)) > LineMax THEN FailLine("overlong", view)
        ELSE LineOut("line", StripCR(raw), ViewOf(staged, CarryCap),
                     Consumed(carry, view, at, CarryCap))

\* The window has a newline: cut the first line off, keep the rest.
EmitLine(carry, view) ==
    LET staged == carry \o view
        at     == FirstNewline(staged)
        raw    == SubSeq(staged, 1, at - 1)
    IN  IF ~IsClean(raw) THEN FailLine("malformed", view)
        ELSE IF Len(StripCR(raw)) > LineMax THEN FailLine("overlong", view)
        ELSE LineOut("line", StripCR(raw),
                     SubSeq(staged, at + 1, at + Kept(staged, at, CarryCap)),
                     Consumed(carry, view, at, CarryCap))

\* Mistake: a dangling CR at end of input is stripped as if LF followed.
EmitTailStripsCR(carry, view) ==
    LET staged == carry \o view
    IN  IF staged = << >> THEN LineOut("complete", << >>, << >>, Len(view))
        ELSE IF Len(staged) > LineMax THEN FailLine("overlong", view)
        ELSE IF ~IsClean(staged) THEN FailLine("malformed", view)
        ELSE LineOut("line", StripCR(staged), << >>, Len(view))

\* End of input without a newline: the tail is the last line.
EmitTail(carry, view) ==
    LET staged == carry \o view
    IN  IF staged = << >> THEN LineOut("complete", << >>, << >>, Len(view))
        ELSE IF Len(staged) > LineMax THEN FailLine("overlong", view)
        ELSE IF EndsWithCR(staged) \/ ~IsClean(staged)
             THEN FailLine("malformed", view)
        ELSE LineOut("line", staged, << >>, Len(view))

\* Mistake: an unterminated line may grow without bound.
HoldUnbounded(carry, view) ==
    LineOut("need_more", << >>, carry \o view, Len(view))

\* Mistake: the new carry is the view alone.
HoldViewOnly(carry, view) ==
    IF Len(carry \o view) > LineMax THEN FailLine("overlong", view)
    ELSE LineOut("need_more", << >>, view, Len(view))

\* No newline and more to come: hold the whole window.
Hold(carry, view) ==
    IF Len(carry \o view) > LineMax THEN FailLine("overlong", view)
    ELSE LineOut("need_more", << >>, carry \o view, Len(view))

\* Mistake: only the new bytes are searched for a newline.
NextLineSearchesView(carry, view, eof) ==
    LET staged == carry \o view
    IN  IF HasControl(staged) THEN FailLine("malformed", view)
        ELSE IF Newlines(view) # {} THEN EmitLine(carry, view)
        ELSE IF eof THEN EmitTail(carry, view)
        ELSE Hold(carry, view)

NextLine(carry, view, eof) ==
    LET staged == carry \o view
    IN  IF HasControl(staged) THEN FailLine("malformed", view)
        ELSE IF Newlines(staged) # {} THEN EmitLine(carry, view)
        ELSE IF eof THEN EmitTail(carry, view)
        ELSE Hold(carry, view)
=============================================================================
