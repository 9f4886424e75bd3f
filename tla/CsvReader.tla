----------------------------- MODULE CsvReader -----------------------------
(***************************************************************************)
(* The incremental delimited-record reader of src/csv.rs, one action per   *)
(* call it makes into the language:                                        *)
(*                                                                         *)
(*   Feed        a caller hands over one chunk                             *)
(*   NextView    one iteration of the loop over the chunk's views          *)
(*   DrainCarry  one iteration of drain_carry, with an empty view          *)
(*   FeedReturns the chunk is used up, feed returns its records            *)
(*   Finish      a caller announces the end of input                       *)
(*   FlushTail   one iteration of the loop of finish                       *)
(*                                                                         *)
(* carry, line_no and stream_pos are the fields of the struct.  records is *)
(* the local vector of the running call: an error drops it.  fed, feeds    *)
(* and delivered are history: every byte handed over, whether in one chunk  *)
(* or in several, every record returned.                                   *)
(*                                                                         *)
(* "\E out \in {e}" binds the one value of e, as a let in the code does.    *)
(***************************************************************************)
EXTENDS Fields

CONSTANTS
    ViewBytes,   \* size of a view, 256 in the code
    Alphabet,    \* the byte classes callers send
    MaxChunk,    \* bound: bytes of one chunk
    MaxInput,    \* bound: bytes of the whole stream
    Reuse        \* may a caller go on after an error or after finish?

ASSUME ReaderAssumption ==
    /\ ViewBytes \in Nat \ {0}
    /\ Alphabet \subseteq Byte
    /\ MaxChunk \in Nat
    /\ MaxInput \in Nat
    /\ Reuse \in BOOLEAN

VARIABLES
    pc,          \* where the host is: see Control
    fed,         \* history: the bytes of every chunk so far
    feeds,       \* history: "none", "one" or "many" chunks so far
    todo,        \* bytes of the current chunk not yet windowed
    carry,       \* bytes held between language calls
    line_no,     \* records produced so far
    stream_pos,  \* stream bytes the language reported consumed
    records,     \* records of the running call
    delivered,   \* history: records returned to callers
    error        \* the error the last call returned

reader == <<carry, line_no, stream_pos>>
vars == <<pc, fed, feeds, todo, reader, records, delivered, error>>

Control == {"idle", "view", "drain", "flush", "finished", "failed"}

NoError == [kind |-> "none", line |-> 0]

-----------------------------------------------------------------------------
(* What the host does with one answer of the language. *)

\* carry and stream_pos follow every answer, whatever its status.
Absorb(out) ==
    /\ carry' = out.carry
    /\ stream_pos' = stream_pos + out.consumed

\* Mistake: the range takes the terminator in.
CsvRecordWithNewline(fields, number, start, line) ==
    [fields |-> fields, line_no |-> number,
     byte_start |-> start, byte_end |-> start + Len(line) + 1]

CsvRecord(fields, number, start, line) ==
    [fields |-> fields, line_no |-> number,
     byte_start |-> start, byte_end |-> start + Len(line)]

\* Mistake: the error names the last good line.
FailAtLastLine(kind) ==
    /\ pc' = "failed"
    /\ error' = [kind |-> kind, line |-> line_no]
    /\ records' = << >>
    /\ todo' = << >>
    /\ UNCHANGED line_no

\* The call returns an error: its local records and the unread rest of the
\* chunk are gone, what Absorb stored stays.
Fail(kind) ==
    /\ pc' = "failed"
    /\ error' = [kind |-> kind, line |-> line_no + 1]
    /\ records' = << >>
    /\ todo' = << >>
    /\ UNCHANGED line_no

\* parse_line: the fields first, line_no moves only when they are sound.
\* rest is what is left of the chunk when the call goes on.
PushRecord(out, next, rest) ==
    \E parsed \in {ParseFields(out.line)} :
        IF parsed.status = "ok"
        THEN /\ line_no' = line_no + 1
             /\ records' = Append(records,
                   CsvRecord(parsed.fields, line_no + 1,
                       UnitStart(stream_pos, out.consumed, Len(carry)),
                       out.line))
             /\ pc' = next
             /\ todo' = rest
             /\ UNCHANGED error
        ELSE Fail(parsed.status)

-----------------------------------------------------------------------------
Init ==
    /\ pc = "idle"
    /\ fed = << >> /\ feeds = "none" /\ todo = << >>
    /\ carry = << >> /\ line_no = 0 /\ stream_pos = 0
    /\ records = << >> /\ delivered = << >>
    /\ error = NoError

Ready == pc = "idle" \/ (Reuse /\ pc \in {"finished", "failed"})

Feed(chunk) ==
    /\ Ready
    /\ pc' = "view"
    /\ fed' = fed \o chunk
    /\ feeds' = IF feeds = "none" THEN "one" ELSE "many"
    /\ todo' = chunk
    /\ error' = NoError
    /\ UNCHANGED <<reader, records, delivered>>

View == ViewOf(todo, ViewBytes)
Unread == AfterView(todo, ViewBytes)

NextView ==
    /\ pc = "view" /\ todo # << >>
    /\ \E out \in {NextLine(carry, View, FALSE)} :
           /\ Absorb(out)
           /\ \/ /\ out.status = "line"
                 /\ PushRecord(out, "drain", Unread)
              \/ /\ out.status = "need_more"
                 /\ pc' = "drain"
                 /\ todo' = Unread
                 /\ UNCHANGED <<line_no, records, error>>
              \/ /\ out.status \notin {"line", "need_more"}
                 /\ Fail(out.status)
    /\ UNCHANGED <<fed, feeds, delivered>>

DrainCarry ==
    /\ pc = "drain"
    /\ \/ /\ carry = << >>
          /\ pc' = "view"
          /\ UNCHANGED <<todo, reader, records, error>>
       \/ /\ carry # << >>
          /\ \E out \in {NextLine(carry, << >>, FALSE)} :
                 /\ Absorb(out)
                 /\ \/ /\ out.status = "line"
                       /\ PushRecord(out, "drain", todo)
                    \/ /\ out.status = "need_more"
                       /\ pc' = "view"
                       /\ UNCHANGED <<todo, line_no, records, error>>
                    \/ /\ out.status \notin {"line", "need_more"}
                       /\ Fail(out.status)
    /\ UNCHANGED <<fed, feeds, delivered>>

\* Mistake: the records returned stay in the local vector.
ReturnTwice(next) ==
    /\ delivered' = delivered \o records
    /\ records' = records
    /\ pc' = next

Return(next) ==
    /\ delivered' = delivered \o records
    /\ records' = << >>
    /\ pc' = next

\* Mistake: feed waits for the carry to be empty.
FeedReturnsWhenEmpty ==
    /\ pc = "view" /\ todo = << >> /\ carry = << >>
    /\ Return("idle")
    /\ UNCHANGED <<fed, feeds, todo, reader, error>>

FeedReturns ==
    /\ pc = "view" /\ todo = << >>
    /\ Return("idle")
    /\ UNCHANGED <<fed, feeds, todo, reader, error>>

Finish ==
    /\ Ready
    /\ pc' = "flush"
    /\ error' = NoError
    /\ UNCHANGED <<fed, feeds, todo, reader, records, delivered>>

FlushTail ==
    /\ pc = "flush"
    /\ \E out \in {NextLine(carry, << >>, TRUE)} :
           /\ Absorb(out)
           /\ \/ /\ out.status = "line"
                 /\ PushRecord(out, "flush", todo)
                 /\ UNCHANGED delivered
              \/ /\ out.status = "complete"
                 /\ Return("finished")
                 /\ UNCHANGED <<todo, line_no, error>>
              \/ /\ out.status \notin {"line", "complete"}
                 /\ Fail(out.status)
                 /\ UNCHANGED delivered
    /\ UNCHANGED <<fed, feeds>>

\* The steps of a call that is running, as against the calls callers make.
HostStep == NextView \/ DrainCarry \/ FeedReturns \/ FlushTail

\* The chunks the bounds still allow, the empty one included.
Chunks ==
    UNION {[1..n -> Alphabet] :
              n \in 0..AtMost(MaxChunk, MaxInput - Len(fed))}

Next ==
    \/ \E chunk \in Chunks : Feed(chunk)
    \/ Finish
    \/ HostStep

\* A call that has begun keeps executing; callers owe nothing.
Spec == Init /\ [][Next]_vars /\ WF_vars(HostStep)
=============================================================================
