------------------------------- MODULE Frames -------------------------------
(***************************************************************************)
(* The incremental length-prefixed frame decoder,                          *)
(* language/mncs/flow/frames.mncs, and the host's encoder of src/frames.rs.*)
(* Bytes are numbers, so that lengths and checksums are the code's.        *)
(***************************************************************************)
EXTENDS Views, SequencesExt

CONSTANTS
    MaxPayload,   \* longest payload, 128 in the code
    CarryCap      \* bytes the carry array holds, 136 in the code

\* Six header bytes, a payload and two checksum bytes fit the carry.
ASSUME FramesAssumption ==
    /\ MaxPayload \in Nat
    /\ CarryCap \in Nat
    /\ MaxPayload + 8 <= CarryCap

Byte == 0..255

MagicLo == 67
MagicHi == 77
HeaderLen == 6

\* Little-endian u16 at byte offset (from 0) of a window.
U16At(s, offset) == s[offset + 1] + 256 * s[offset + 2]

\* Mistake: the sum is kept in one byte.
ChecksumByte(s, cover) ==
    FoldLeft(LAMBDA sum, b : (sum + b) % 256, 0, SubSeq(s, 1, cover))

WrappedSum(s) == FoldLeft(LAMBDA sum, b : (sum + b) % 65536, 0, s)

\* Wrapping byte sum over the first cover bytes.
Checksum(s, cover) == WrappedSum(SubSeq(s, 1, cover))

-----------------------------------------------------------------------------

FrameOut(status, kind, payload, length, held, consumed) ==
    [status |-> status, kind |-> kind, payload |-> payload,
     frame_len |-> length, carry |-> held, consumed |-> consumed]

\* A refusal forgets the whole window, the carried bytes included.
FailFrame(code, view) == FrameOut(code, 0, << >>, 0, << >>, Len(view))

\* Mistake: the new carry is the view alone.
IncompleteViewOnly(carry, view, eof) ==
    IF eof THEN FailFrame("truncated", view)
           ELSE FrameOut("need_more", 0, << >>, 0, view, Len(view))

\* Mistake: an unfinished frame at end of input is dropped in silence.
IncompleteDropped(carry, view, eof) ==
    IF eof THEN FrameOut("complete", 0, << >>, 0, << >>, Len(view))
           ELSE FrameOut("need_more", 0, << >>, 0, carry \o view, Len(view))

\* Mistake: an empty view is taken for the end of input.
IncompleteEmptyIsEnd(carry, view, eof) ==
    IF eof \/ view = << >> THEN FailFrame("truncated", view)
    ELSE FrameOut("need_more", 0, << >>, 0, carry \o view, Len(view))

\* Too few bytes: hold them, or call them truncated at end of input.
Incomplete(carry, view, eof) ==
    IF eof THEN FailFrame("truncated", view)
           ELSE FrameOut("need_more", 0, << >>, 0, carry \o view, Len(view))

\* Mistake: any length is believed.
HeaderStatusAnyLength(s) ==
    IF s[1] # MagicLo \/ s[2] # MagicHi THEN "malformed"
    ELSE IF s[3] # 1 THEN "version"
    ELSE IF s[4] > 2 THEN "tag"
    ELSE "sound"

HeaderStatus(s) ==
    IF s[1] # MagicLo \/ s[2] # MagicHi THEN "malformed"
    ELSE IF s[3] # 1 THEN "version"
    ELSE IF s[4] > 2 THEN "tag"
    ELSE IF U16At(s, 4) > MaxPayload THEN "malformed"
    ELSE "sound"

\* The frame of length bytes at the head of the window, its tail held.
EmitFrame(carry, view, length) ==
    LET staged == carry \o view
    IN  FrameOut("frame", staged[4], SubSeq(staged, HeaderLen + 1, length - 2),
                 length,
                 SubSeq(staged, length + 1,
                        length + Kept(staged, length, CarryCap)),
                 Consumed(carry, view, length, CarryCap))

\* Mistake: the checksum is not compared.
DecodeBodyUnchecked(carry, view, eof, length) ==
    IF Len(carry \o view) < length THEN Incomplete(carry, view, eof)
    ELSE EmitFrame(carry, view, length)

\* Mistake: a frame waits for a byte of the next one.
DecodeBodyLate(carry, view, eof, length) ==
    LET staged == carry \o view
    IN  IF Len(staged) <= length THEN Incomplete(carry, view, eof)
        ELSE IF U16At(staged, length - 2) # Checksum(staged, length - 2)
             THEN FailFrame("bad_checksum", view)
        ELSE EmitFrame(carry, view, length)

\* The header is sound and announces a frame of length bytes.
DecodeBody(carry, view, eof, length) ==
    LET staged == carry \o view
    IN  IF Len(staged) < length THEN Incomplete(carry, view, eof)
        ELSE IF U16At(staged, length - 2) # Checksum(staged, length - 2)
             THEN FailFrame("bad_checksum", view)
        ELSE EmitFrame(carry, view, length)

DecodeFrame(carry, view, eof) ==
    LET staged == carry \o view
    IN  IF staged = << >>
        THEN FrameOut(IF eof THEN "complete" ELSE "need_more", 0, << >>, 0,
                      << >>, 0)
        ELSE IF Len(staged) < HeaderLen THEN Incomplete(carry, view, eof)
        ELSE IF HeaderStatus(staged) # "sound"
             THEN FailFrame(HeaderStatus(staged), view)
        ELSE DecodeBody(carry, view, eof, HeaderLen + U16At(staged, 4) + 2)

-----------------------------------------------------------------------------

Total(s) == FoldLeft(LAMBDA acc, b : acc + b, 0, s)

\* The wire form of one frame; the host's encoder sums before it takes the
\* remainder, the decoder at every byte.
EncodeFrame(version, kind, payload) ==
    LET n     == Len(payload)
        front == <<MagicLo, MagicHi, version, kind, n % 256, n \div 256>>
                     \o payload
        sum   == Total(front) % 65536
    IN  front \o <<sum % 256, sum \div 256>>
=============================================================================
