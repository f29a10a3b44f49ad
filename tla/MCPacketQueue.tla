----------------------------- MODULE MCPacketQueue -----------------------------
(* Small instances of PacketQueue: the first packets of a sender's stream. *)
EXTENDS PacketQueue

\* The sender's packets at positions First to Last.
PacketsFrom(First, Last) ==
    {p \in [cycle : 0 .. 2, seq : 0 .. SeqMod - 1] :
        Position(p) \in First .. Last}

\* Two wraps of the sequence number.
AcrossTwoWraps == PacketsFrom(0, 2 * SeqMod)

\* One wrap.
AcrossOneWrap == PacketsFrom(0, SeqMod)

================================================================================
