-------------------------- MODULE FrameProperties --------------------------
(***************************************************************************)
(* What src/frames.rs, frames.mncs and docs/STREAMING.md promise of the    *)
(* frame reader, against what the sender put on the wire.                  *)
(***************************************************************************)
EXTENDS FrameReader, Accounting

FrameLen(f) == HeaderLen + Len(f.payload) + 2

\* Wire bytes before frame k, and the number of frames wholly in n bytes.
FrameBegin(fs, k) == Total([i \in 1..(k - 1) |-> FrameLen(fs[i])])
FramesWithin(fs, n) ==
    Cardinality({k \in 1..Len(fs) : FrameBegin(fs, k + 1) <= n})

WireOf(fs) ==
    FlattenSeq([k \in 1..Len(fs) |-> EncodeFrame(1, fs[k].kind, fs[k].payload)])

\* The wire carries what was sent, as the encoder wrote it.
Undamaged == wire = WireOf(sent)

\* The wire bytes that hold the length of a frame.
LengthBytes(fs) == {FrameBegin(fs, k) + i : k \in 1..Len(fs), i \in {5, 6}}

\* Damage a checksum must catch: at most one byte differs from what the encoder
\* wrote, and it is not part of a length.  (A length that is damaged moves the
\* place where the checksum is looked for, and the bytes there may agree.)
SumCatches ==
    \/ Undamaged
    \/ \E i \in 1..Len(WireOf(sent)) :
           /\ i \notin LengthBytes(sent)
           /\ wire = [WireOf(sent) EXCEPT ![i] = wire[i]]

-----------------------------------------------------------------------------
(* Type correctness. *)

Payloads == {p \in Seq(Byte) : Len(p) <= MaxPayload}

DecodedFrames == [kind : 0..2, payload : Payloads,
                  byte_start : Nat, byte_end : Nat]

TypeOK ==
    /\ wire \in Seq(Byte)
    /\ pc \in Control
    /\ fed \in 0..Len(wire) /\ todo \in Seq(Byte)
    /\ carry \in Seq(Byte) /\ Len(carry) <= CarryCap
    /\ stream_pos \in Nat
    /\ frames \in Seq(DecodedFrames) /\ delivered \in Seq(DecodedFrames)
    /\ error \in {"none", "malformed", "bad_checksum", "truncated",
                  "version", "tag"}

-----------------------------------------------------------------------------
(* Safety. *)

\* The bytes fed end with the carry and the rest of the running chunk.
BytesAccounted ==
    pc # "failed" => Accounted(SubSeq(wire, 1, fed), carry, stream_pos, todo)

\* The carry begins where the last frame ended.
CarryFollowsFrames ==
    pc # "failed" => CutEnd(delivered \o frames) = stream_pos - Len(carry)

\* docs/STREAMING.md: no byte is ever dropped or double-counted.  The bytes
\* fed are, in order, those of the frames, the carry, and the rest of the
\* running chunk, and stream_pos is the boundary before that rest.
NoByteLost == BytesAccounted /\ CarryFollowsFrames

\* Whatever the chunks, and whichever byte outside the lengths was damaged, the
\* frames decoded are the first frames sent, each at its own byte range: the
\* checksum lets no altered frame through.
DecodedAreSent ==
    LET decoded == delivered \o frames
    IN  SumCatches =>
        /\ Len(decoded) <= Len(sent)
        /\ \A k \in 1..Len(decoded) :
               decoded[k] = [kind       |-> sent[k].kind,
                             payload    |-> sent[k].payload,
                             byte_start |-> FrameBegin(sent, k),
                             byte_end   |-> FrameBegin(sent, k + 1)]

\* The decoder invents nothing: whatever was damaged, the byte range of a frame
\* holds, byte for byte, the encoding of the kind and the payload delivered.
FramesAreOnTheWire ==
    LET decoded == delivered \o frames
    IN  \A k \in 1..Len(decoded) :
            SubSeq(wire, decoded[k].byte_start + 1, decoded[k].byte_end)
                = EncodeFrame(1, decoded[k].kind, decoded[k].payload)

\* feed returns the "frames completed by this chunk": none is withheld.
NothingWithheld ==
    Undamaged /\ pc = "idle" => Len(delivered) = FramesWithin(sent, fed)

\* finish "completes cleanly or reports truncation": cleanly means that all
\* frames fed were delivered and no byte of another one had been fed.
EndedMeansAllDelivered ==
    Undamaged /\ pc = "finished" =>
        /\ Len(delivered) = FramesWithin(sent, fed)
        /\ fed = FrameBegin(sent, Len(delivered) + 1)

\* Incomplete and malformed are never confused: a sound wire is refused only
\* as truncated, only at its end, and only inside a frame.
SoundWireIsNotMalformed ==
    Undamaged /\ pc = "failed" =>
        /\ error = "truncated"
        /\ fed # FrameBegin(sent, FramesWithin(sent, fed) + 1)

\* Mid-stream, few bytes are a reason to wait and never to refuse.
TruncatedOnlyAtEnd == [][error' = "truncated" => pc = "flush"]_vars

-----------------------------------------------------------------------------
(* The abstract specification. *)

UnitsOf(fs) ==
    [k \in 1..Len(fs) |->
        [begin |-> fs[k].byte_start, end |-> fs[k].byte_end]]

Stream == INSTANCE RecordStream WITH
    MinGap  <- 0,
    MaxGap  <- 0,
    arrived <- fed,
    units   <- UnitsOf(delivered \o frames),
    phase   <- IF pc = "finished" THEN "closed"
               ELSE IF pc = "failed" THEN "refused" ELSE "open"

\* The reader implements RecordStream: its frames tile the stream without a
\* gap, whatever bytes the wire carries.
TilesTheStream == Stream!Spec

-----------------------------------------------------------------------------
(* Progress. *)

\* Every call returns: each step of drain_carry and of finish shortens the
\* carry, each view the chunk.
CallsReturn ==
    pc \in {"view", "drain", "flush"} ~> pc \in {"idle", "finished", "failed"}
=============================================================================
