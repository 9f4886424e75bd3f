---------------------------- MODULE FieldsCheck ----------------------------
(***************************************************************************)
(* The field splitter against an encoder, as the seeded round trip of      *)
(* tests/stream_csv.rs does: a record is written a byte or a field at a    *)
(* time, each comma and backslash escaped, and read back at every step.    *)
(***************************************************************************)
EXTENDS Fields

CONSTANTS
    Alphabet,   \* the bytes fields are written with
    MaxWritten  \* bound: bytes and separators written

ASSUME FieldsCheckAssumption == Alphabet \subseteq Byte /\ MaxWritten \in Nat

VARIABLE record   \* the fields written so far

EncodeByte(b) == IF b \in {"comma", "esc"} THEN <<"esc", b>> ELSE <<b>>

EncodeField(field) ==
    FlattenSeq([i \in 1..Len(field) |-> EncodeByte(field[i])])

EncodeRecord(fields) ==
    FoldLeftDomain(LAMBDA line, k :
                       line \o (IF k = 1 THEN << >> ELSE <<"comma">>)
                            \o EncodeField(fields[k]),
                   << >>, fields)

Size(fields) == Len(FlattenSeq(fields)) + Len(fields) - 1

-----------------------------------------------------------------------------
Init == record = << << >> >>

WriteByte(b) ==
    record' = [record EXCEPT ![Len(record)] = Append(@, b)]

NextField == record' = Append(record, << >>)

Next ==
    /\ Size(record) < MaxWritten
    /\ (\E b \in Alphabet : WriteByte(b)) \/ NextField

Spec == Init /\ [][Next]_record

-----------------------------------------------------------------------------
Line == EncodeRecord(record)

AllPrintable(fields) ==
    \A k \in 1..Len(fields) : \A i \in 1..Len(fields[k]) :
        fields[k][i] \notin {"ctl", "nl", "cr"}

Printable == AllPrintable(record)

Within == /\ Len(record) <= MaxFields
          /\ \A k \in 1..Len(record) : Len(record[k]) <= FieldMax

\* Every record within the bounds reads back as written, whatever commas and
\* backslashes it holds; the one exception is the record of one empty field,
\* an empty line, which reads back as no field at all.
RoundTrip ==
    Printable /\ Within =>
        ParseFields(Line) =
            Parsed(IF record = << << >> >> THEN << >> ELSE record)

\* The bounds are exact: one byte or one field beyond them is refused, a
\* field that is too long as "overlong" when nothing before it is at fault.
BoundsAreExact ==
    Printable /\ ~Within =>
        /\ ParseFields(Line).status # "ok"
        /\ Len(record) <= MaxFields => ParseFields(Line).status = "overlong"

\* A control byte or a terminator is refused wherever it sits, escaped or
\* not, and a lone backslash at the end of a line is malformed, not a short
\* field.
UnreadableIsRefused ==
    /\ ~Printable => ParseFields(Line).status # "ok"
    /\ Printable /\ Within /\ Len(Last(record)) < FieldMax =>
           ParseFields(Append(Line, "esc")).status = "malformed"
=============================================================================
