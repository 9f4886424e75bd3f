--------------------------- MODULE MCFrameReader ---------------------------
(* Small instances of the frame reader for TLC. *)
EXTENDS FrameProperties

Heartbeat == [kind |-> 2, payload |-> << >>]
Sensor    == [kind |-> 0, payload |-> <<255>>]
\* A payload that looks like the start of a frame.
Mimic     == [kind |-> 1, payload |-> <<MagicLo, MagicHi>>]
\* A payload that is the checksum of the frame without it: with its length
\* damaged to 0, the wire carries a sound frame nobody sent.
Sealed    == [kind |-> 0, payload |-> <<145, 0>>]

Sound(fs) == [sent |-> fs, wire |-> WireOf(fs)]

\* Each byte moved by one or two, or by a bit that carries into the other byte.
Damaged(fs) ==
    LET w == WireOf(fs)
    IN  {[sent |-> fs, wire |-> [w EXCEPT ![i] = (w[i] + d) % 256]] :
            i \in 1..Len(w), d \in {1, 128, 254, 255}}

SoundWires == {Sound(fs) : fs \in BoundedSeq({Heartbeat, Sensor, Mimic}, 3)}

DamagedWires ==
    UNION {Damaged(fs) : fs \in {<<Heartbeat, Sensor>>, <<Mimic, Heartbeat>>,
                                 <<Sensor, Sensor>>, <<Sealed>>}}

AllWires == SoundWires \cup DamagedWires

FourHeartbeats == {Sound([k \in 1..4 |-> Heartbeat])}
=============================================================================
