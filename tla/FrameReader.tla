---------------------------- MODULE FrameReader ----------------------------
(***************************************************************************)
(* The incremental frame reader of src/frames.rs.  It has the shape of     *)
(* CsvReader: Feed hands over a chunk, NextView, DrainCarry and FlushTail  *)
(* are one language call each, FeedReturns and Finish bound the calls.     *)
(*                                                                         *)
(* A sender has encoded some frames into a wire; chunks are its bytes in   *)
(* order, cut anywhere, and a caller may finish before the wire is used up *)
(* (a truncated stream).  sent and wire never change.                      *)
(***************************************************************************)
EXTENDS Frames

CONSTANTS
    ViewBytes,       \* size of a view, 256 in the code
    Transmissions,   \* what senders send: [sent, wire] records
    MaxChunk         \* bound: bytes of one chunk

ASSUME ReaderAssumption ==
    /\ ViewBytes \in Nat \ {0}
    /\ MaxChunk \in Nat
    /\ \A t \in Transmissions : t.wire \in Seq(Byte)

VARIABLES
    sent,        \* the frames of the sender, [kind, payload] records
    wire,        \* the bytes it put on the wire
    pc,          \* where the host is: see Control
    fed,         \* bytes of the wire handed over so far
    todo,        \* bytes of the current chunk not yet windowed
    carry,       \* bytes held between language calls
    stream_pos,  \* stream bytes the language reported consumed
    frames,      \* frames of the running call
    delivered,   \* history: frames returned to callers
    error        \* the error the last call returned

sender == <<sent, wire>>
vars == <<sender, pc, fed, todo, carry, stream_pos, frames, delivered, error>>

Control == {"idle", "view", "drain", "flush", "finished", "failed"}

-----------------------------------------------------------------------------
(* What the host does with one answer of the language. *)

Absorb(out) ==
    /\ carry' = out.carry
    /\ stream_pos' = stream_pos + out.consumed

Fail(kind) ==
    /\ pc' = "failed"
    /\ error' = kind
    /\ frames' = << >>
    /\ todo' = << >>

\* Mistake: the range leaves the checksum out.
FrameNoChecksum(kind, payload, start, length) ==
    [kind |-> kind, payload |-> payload,
     byte_start |-> start, byte_end |-> start + length - 2]

Frame(kind, payload, start, length) ==
    [kind |-> kind, payload |-> payload,
     byte_start |-> start, byte_end |-> start + length]

PushFrame(out) ==
    frames' = Append(frames,
        Frame(out.kind, out.payload,
              UnitStart(stream_pos, out.consumed, Len(carry)), out.frame_len))

-----------------------------------------------------------------------------
Init ==
    /\ \E t \in Transmissions : sent = t.sent /\ wire = t.wire
    /\ pc = "idle"
    /\ fed = 0 /\ todo = << >>
    /\ carry = << >> /\ stream_pos = 0
    /\ frames = << >> /\ delivered = << >>
    /\ error = "none"

Feed(n) ==
    /\ pc = "idle"
    /\ pc' = "view"
    /\ fed' = fed + n
    /\ todo' = SubSeq(wire, fed + 1, fed + n)
    /\ UNCHANGED <<sender, carry, stream_pos, frames, delivered, error>>

View == ViewOf(todo, ViewBytes)
Unread == AfterView(todo, ViewBytes)

NextView ==
    /\ pc = "view" /\ todo # << >>
    /\ \E out \in {DecodeFrame(carry, View, FALSE)} :
           /\ Absorb(out)
           /\ \/ /\ out.status = "frame"
                 /\ PushFrame(out)
                 /\ pc' = "drain"
                 /\ todo' = Unread
                 /\ UNCHANGED error
              \/ /\ out.status = "need_more"
                 /\ pc' = "drain"
                 /\ todo' = Unread
                 /\ UNCHANGED <<frames, error>>
              \/ /\ out.status \notin {"frame", "need_more"}
                 /\ Fail(out.status)
    /\ UNCHANGED <<sender, fed, delivered>>

DrainCarry ==
    /\ pc = "drain"
    /\ \/ /\ carry = << >>
          /\ pc' = "view"
          /\ UNCHANGED <<todo, carry, stream_pos, frames, error>>
       \/ /\ carry # << >>
          /\ \E out \in {DecodeFrame(carry, << >>, FALSE)} :
                 /\ Absorb(out)
                 /\ \/ /\ out.status = "frame"
                       /\ PushFrame(out)
                       /\ UNCHANGED <<pc, todo, error>>
                    \/ /\ out.status = "need_more"
                       /\ pc' = "view"
                       /\ UNCHANGED <<todo, frames, error>>
                    \/ /\ out.status \notin {"frame", "need_more"}
                       /\ Fail(out.status)
    /\ UNCHANGED <<sender, fed, delivered>>

Return(next) ==
    /\ delivered' = delivered \o frames
    /\ frames' = << >>
    /\ pc' = next

\* Mistake: feed waits for the carry to be empty.
FeedReturnsWhenEmpty ==
    /\ pc = "view" /\ todo = << >> /\ carry = << >>
    /\ Return("idle")
    /\ UNCHANGED <<sender, fed, todo, carry, stream_pos, error>>

FeedReturns ==
    /\ pc = "view" /\ todo = << >>
    /\ Return("idle")
    /\ UNCHANGED <<sender, fed, todo, carry, stream_pos, error>>

Finish ==
    /\ pc = "idle"
    /\ pc' = "flush"
    /\ UNCHANGED <<sender, fed, todo, carry, stream_pos, frames, delivered,
                   error>>

FlushTail ==
    /\ pc = "flush"
    /\ \E out \in {DecodeFrame(carry, << >>, TRUE)} :
           /\ Absorb(out)
           /\ \/ /\ out.status = "frame"
                 /\ PushFrame(out)
                 /\ UNCHANGED <<pc, todo, delivered, error>>
              \/ /\ out.status = "complete"
                 /\ Return("finished")
                 /\ UNCHANGED <<todo, error>>
              \/ /\ out.status \notin {"frame", "complete"}
                 /\ Fail(out.status)
                 /\ UNCHANGED delivered
    /\ UNCHANGED <<sender, fed>>

HostStep == NextView \/ DrainCarry \/ FeedReturns \/ FlushTail

\* The chunk sizes the bounds and the wire still allow, zero included.
ChunkSizes == 0..AtMost(MaxChunk, Len(wire) - fed)

Next ==
    \/ \E n \in ChunkSizes : Feed(n)
    \/ Finish
    \/ HostStep

\* A call that has begun keeps executing; callers owe nothing.
Spec == Init /\ [][Next]_vars /\ WF_vars(HostStep)
=============================================================================
