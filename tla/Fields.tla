------------------------------- MODULE Fields -------------------------------
(***************************************************************************)
(* Splitting one line into unescaped fields: the language's one-field step *)
(* field_at (language/mncs/flow/fields.mncs) and the host's loop over it,  *)
(* parse_fields (src/csv.rs).  Positions count bytes from 0, as the code.  *)
(***************************************************************************)
EXTENDS Lines, SequencesExt

CONSTANTS
    FieldMax,   \* longest unescaped value, 63 in the code
    MaxFields   \* most fields of one record, 8 in the code

ASSUME FieldsAssumption == FieldMax \in Nat /\ MaxFields \in Nat \ {0}

\* Bytes a field rejects, escaped or not.
IsBadByte(b) == b \in {"ctl", "nl", "cr"}

\* Mistake: a backslash escapes the next byte even when itself escaped.
EscapedByAny(s) ==
    [i \in 1..(Len(s) + 1) |-> i > 1 /\ s[i - 1] = "esc"]

\* Which bytes of a field follow an open escape: esc of the code's fold, on
\* entry to each byte and, last, when the line is used up.
Escaped(s) ==
    LET esc[i \in 1..(Len(s) + 1)] ==
            i > 1 /\ s[i - 1] = "esc" /\ ~esc[i - 1]
    IN  esc

\* Mistake: one byte more than the bound is taken.
TooLongByTwo(value) == Len(value) > FieldMax + 1

TooLong(value) == Len(value) > FieldMax

\* Mistake: an escape with nothing to escape is dropped.
DanglingAllowed(s) == FALSE

\* The line ends on an open escape.
Dangling(s) == Escaped(s)[Len(s) + 1]

-----------------------------------------------------------------------------

FailField(code) ==
    [status |-> code, value |-> << >>, next_start |-> 0, has_more |-> FALSE]

\* One field: the bytes from start to the first comma that is not escaped,
\* less the backslashes that open an escape.
FieldAt(line, start) ==
    LET rest    == SubSeq(line, start + 1, Len(line))
        escaped == Escaped(rest)
        commas  == {i \in 1..Len(rest) : rest[i] = "comma" /\ ~escaped[i]}
        stop    == IF commas = {} THEN Len(rest) ELSE Min(commas) - 1
        opens   == {i \in 1..stop : rest[i] = "esc" /\ ~escaped[i]}
        value   == FoldLeftDomain(
                       LAMBDA got, i : IF i \in opens THEN got
                                                     ELSE Append(got, rest[i]),
                       << >>, SubSeq(rest, 1, stop))
    IN  IF start = 0 /\ line = << >> THEN FailField("end")
        ELSE IF \/ commas = {} /\ Dangling(rest)
                \/ \E i \in 1..stop : IsBadByte(rest[i])
             THEN FailField("malformed")
        ELSE IF TooLong(value) THEN FailField("overlong")
        ELSE [status |-> "field", value |-> value,
              next_start |-> IF commas = {} THEN Len(line)
                                            ELSE start + stop + 1,
              has_more |-> commas # {}]

-----------------------------------------------------------------------------

Parsed(fields) == [status |-> "ok", fields |-> fields]
Refused(code)  == [status |-> code, fields |-> << >>]

\* The host's loop.  got is the number of fields already pushed; the bound
\* is tested after the push, so field MaxFields + 1 is read and then refused.
ParseFields(line) ==
    LET Loop[got \in 0..MaxFields] ==
            [start \in 0..Len(line) |->
                LET field == FieldAt(line, start)
                IN  CASE field.status = "end" -> Parsed(<< >>)
                      [] field.status \in {"malformed", "overlong"} ->
                             Refused(field.status)
                      [] field.status = "field" /\ got = MaxFields ->
                             Refused("malformed")
                      [] field.status = "field" /\ got < MaxFields
                                                /\ ~field.has_more ->
                             Parsed(<<field.value>>)
                      [] OTHER ->
                             LET rest == Loop[got + 1][field.next_start]
                             IN  IF rest.status = "ok"
                                 THEN Parsed(<<field.value>> \o rest.fields)
                                 ELSE rest]
    IN  Loop[0][0]
=============================================================================
