-------------------------------- MODULE Nest --------------------------------
(***************************************************************************)
(* The structural scanner of language/mncs/flow/nest.mncs: one byte through *)
(* the state machine that checks containers, strings, escapes and the order *)
(* of tokens.  Each operator returns the next state and whether the byte is *)
(* at fault, as the code's Step record does.                               *)
(*                                                                         *)
(* Bytes are the classes the scanner tells apart:                          *)
(*   "{" "}" "[" "]" ":" ","    themselves                                 *)
(*   "quote" "back"             the quote and the backslash                *)
(*   "1"   starts a literal (digits, "-", "f")                             *)
(*   "t"   starts a literal and may follow a backslash                     *)
(*   "n"   may follow a backslash, goes on a literal, does not start one   *)
(*   "x"   any other letter, ".", "+", "_": goes on a literal only         *)
(*   "sp"  space or tab, "nl" LF or CR, "ctl" other controls, "other" rest *)
(*                                                                         *)
(* The code keeps depth and four stack lanes of which only the first depth *)
(* are read: stack is the sequence of those.  seen_value is never read and *)
(* is left out.                                                            *)
(***************************************************************************)
EXTENDS Integers, Sequences

CONSTANT MaxNest   \* deepest nesting, 4 in the code

ASSUME NestAssumption == MaxNest \in Nat \ {0}

Byte == {"{", "}", "[", "]", ":", ",", "quote", "back", "1", "t", "n", "x",
         "sp", "nl", "ctl", "other"}

IsSpace(b) == b \in {"sp", "nl"}
IsControl(b) == b \in {"nl", "ctl"}
IsLiteralChar(b) == b \in {"1", "t", "n", "x"}
StartsLiteral(b) == b \in {"1", "t"}

\* What the scanner waits for.
NeedValue == 0
Fresh     == 1
NeedColon == 2
NeedComma == 3
Complete  == 4

SeedState == [stack |-> << >>, expect |-> NeedValue, in_string |-> FALSE,
              esc |-> FALSE, max_depth |-> 0, in_literal |-> FALSE,
              after_comma |-> FALSE]

Ok(st)  == [state |-> st, bad |-> FALSE]
Bad(st) == [state |-> st, bad |-> TRUE]

Innermost(st) == IF st.stack = << >> THEN "none" ELSE st.stack[Len(st.stack)]

-----------------------------------------------------------------------------
(* Inside a string. *)

\* A closing quote ends a key or a value; a fresh object waits for a key, a
\* fresh array for a value.
CloseString(st) ==
    IF st.expect = Fresh /\ Innermost(st) # "array"
    THEN Ok([st EXCEPT !.in_string = FALSE, !.expect = NeedColon])
    ELSE IF st.expect = NeedValue /\ st.stack = << >> THEN Bad(st)
    ELSE Ok([st EXCEPT !.in_string = FALSE, !.expect = NeedComma])

StepString(st, b) ==
    IF st.esc
    THEN IF b \in {"quote", "back", "n", "t"} THEN Ok([st EXCEPT !.esc = FALSE])
                                              ELSE Bad(st)
    ELSE IF b = "back" THEN Ok([st EXCEPT !.esc = TRUE])
    ELSE IF b = "quote" THEN CloseString(st)
    ELSE IF IsControl(b) THEN Bad(st)
    ELSE Ok(st)

-----------------------------------------------------------------------------
(* Between strings. *)

OpenString(st) ==
    IF st.expect \in {NeedValue, Fresh}
    THEN Ok([st EXCEPT !.in_string = TRUE, !.esc = FALSE,
                       !.after_comma = FALSE])
    ELSE Bad(st)

\* Mistake: containers nest without bound.
OpenContainerUnbounded(st, kind) ==
    IF \/ st.expect \notin {NeedValue, Fresh}
       \/ st.expect = Fresh /\ st.after_comma
    THEN Bad(st)
    ELSE Ok([st EXCEPT !.stack = Append(@, kind), !.expect = Fresh,
                       !.max_depth = IF @ < Len(st.stack) + 1
                                     THEN Len(st.stack) + 1 ELSE @])

OpenContainer(st, kind) ==
    IF \/ st.expect \notin {NeedValue, Fresh}
       \/ st.expect = Fresh /\ st.after_comma
       \/ Len(st.stack) >= MaxNest
    THEN Bad(st)
    ELSE Ok([st EXCEPT !.stack = Append(@, kind), !.expect = Fresh,
                       !.max_depth = IF @ < Len(st.stack) + 1
                                     THEN Len(st.stack) + 1 ELSE @])

\* Mistake: a trailing comma is not seen.
CloseContainerAfterComma(st, kind) ==
    IF \/ Innermost(st) # kind
       \/ st.expect \in {NeedValue, NeedColon, Complete}
    THEN Bad(st)
    ELSE Ok([st EXCEPT !.stack = SubSeq(@, 1, Len(@) - 1),
                       !.expect = IF Len(st.stack) = 1 THEN Complete
                                                       ELSE NeedComma,
                       !.after_comma = FALSE])

\* Mistake: any closer completes the document.
CloseContainerCompletes(st, kind) ==
    IF \/ Innermost(st) # kind
       \/ st.expect \in {NeedValue, NeedColon, Complete}
       \/ st.expect = Fresh /\ st.after_comma
    THEN Bad(st)
    ELSE Ok([st EXCEPT !.stack = SubSeq(@, 1, Len(@) - 1),
                       !.expect = Complete, !.after_comma = FALSE])

CloseContainer(st, kind) ==
    IF \/ Innermost(st) # kind
       \/ st.expect \in {NeedValue, NeedColon, Complete}
       \/ st.expect = Fresh /\ st.after_comma
    THEN Bad(st)
    ELSE Ok([st EXCEPT !.stack = SubSeq(@, 1, Len(@) - 1),
                       !.expect = IF Len(st.stack) = 1 THEN Complete
                                                       ELSE NeedComma,
                       !.after_comma = FALSE])

Colon(st) ==
    IF st.expect = NeedColon
    THEN Ok([st EXCEPT !.expect = NeedValue, !.after_comma = FALSE])
    ELSE Bad(st)

\* After a comma an object wants a key, an array a value.
Comma(st) ==
    IF st.expect # NeedComma THEN Bad(st)
    ELSE IF st.stack = << >> THEN Ok([st EXCEPT !.after_comma = TRUE])
    ELSE Ok([st EXCEPT !.after_comma = TRUE,
                       !.expect = IF Innermost(st) = "object" THEN Fresh
                                                              ELSE NeedValue])

OpenLiteral(st) ==
    IF \/ st.expect = NeedValue /\ st.stack # << >>
       \/ st.expect = Fresh /\ Innermost(st) = "array"
    THEN Ok([st EXCEPT !.expect = NeedComma, !.in_literal = TRUE,
                       !.after_comma = FALSE])
    ELSE Bad(st)

OpenToken(st, b) ==
    CASE b = "quote"       -> OpenString(st)
      [] b = "{"           -> OpenContainer(st, "object")
      [] b = "["           -> OpenContainer(st, "array")
      [] b = "}"           -> CloseContainer(st, "object")
      [] b = "]"           -> CloseContainer(st, "array")
      [] b = ":"           -> Colon(st)
      [] b = ","           -> Comma(st)
      [] StartsLiteral(b)  -> OpenLiteral(st)
      [] OTHER             -> Bad(st)

\* Mistake: the byte that ends a literal leaves it open.
StepTokenKeepsLiteral(st, b) ==
    IF st.in_literal /\ IsLiteralChar(b) THEN Ok(st) ELSE OpenToken(st, b)

\* A literal goes on over literal characters; another byte ends it and is
\* read as a token of its own.
StepToken(st, b) ==
    IF st.in_literal /\ IsLiteralChar(b) THEN Ok(st)
    ELSE OpenToken([st EXCEPT !.in_literal = FALSE], b)

StepByte(st, b) ==
    IF st.in_string THEN StepString(st, b)
    ELSE IF IsSpace(b) THEN Ok(st)
    ELSE StepToken(st, b)
=============================================================================
