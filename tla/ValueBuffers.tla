------------------------------ MODULE ValueBuffers ------------------------------
(***************************************************************************)
(* What buffers that are copied on write promise: each buffer object has a *)
(* value of its own, a sequence of bytes, which only an operation on that  *)
(* object changes, whatever it shares with others behind the scenes.       *)
(*                                                                         *)
(* The packet of a persistent HeartbeatPacket is the exception: SetTime    *)
(* writes into it in place, and so into the copies that were taken of it   *)
(* and not changed since, which are tied to it.                            *)
(***************************************************************************)
EXTENDS Naturals, Sequences, SequencesExt

CONSTANTS
    Buffers,        \* the buffer objects
    Packet,         \* the one that a HeartbeatPacket keeps
    Bytes,
    MaxSize         \* the largest buffer considered

VARIABLES value, tied
vars == <<value, tied>>

Values == BoundedSeq(Bytes, MaxSize)

Init ==
    /\ value[Packet] \in Values
    /\ value = [b \in Buffers |-> IF b = Packet THEN value[Packet] ELSE <<>>]
    /\ tied = {Packet}

\* An operation may or may not cut the tie of the buffer it works on.
MayUntie(b) == tied' = tied \/ tied' = tied \ {b}

SetData(b) == \E v \in Values : value' = [value EXCEPT ![b] = v] /\ MayUntie(b)

AppendData(b) ==
    \E v \in Values : value' = [value EXCEPT ![b] = @ \o v] /\ MayUntie(b)

\* A longer buffer keeps its bytes; the new ones may be anything.
SetSize(b) ==
    \E v \in Values :
        /\ IsPrefix(value[b], v) \/ IsPrefix(v, value[b])
        /\ value' = [value EXCEPT ![b] = v]
        /\ MayUntie(b)

Write(b) ==
    \E i \in DOMAIN value[b], x \in Bytes :
        value' = [value EXCEPT ![b][i] = x] /\ MayUntie(b)

\* to becomes a part of from, or all of it.
Slice(to, from) ==
    \E i, j \in 0 .. Len(value[from]) :
        /\ value' = [value EXCEPT ![to] = SubSeq(value[from], i + 1, j)]
        /\ tied' = IF from \in tied THEN tied \cup {to} ELSE tied \ {to}

Move(to, from) ==
    /\ value' = [value EXCEPT ![to] = value[from], ![from] = <<>>]
    /\ \/ tied' = IF from \in tied THEN (tied \ {from}) \cup {to} ELSE tied \ {to, from}
       \/ to = from /\ UNCHANGED tied

Swap(a, b) ==
    LET other == [c \in Buffers |-> IF c = a THEN b ELSE IF c = b THEN a ELSE c]
    IN  /\ value' = [c \in Buffers |-> value[other[c]]]
        /\ tied' = {c \in Buffers : other[c] \in tied}

\* HeartbeatPacket::SetTime: the tied buffers keep their lengths.
SetTime ==
    /\ \A b \in Buffers : IF b \in tied THEN Len(value'[b]) = Len(value[b])
                                         ELSE value'[b] = value[b]
    /\ UNCHANGED tied

Next ==
    \/ \E b \in Buffers \ {Packet} : SetData(b) \/ AppendData(b) \/ SetSize(b) \/ Write(b)
    \/ \E to \in Buffers \ {Packet}, from \in Buffers : Slice(to, from)
    \/ \E a, b \in Buffers \ {Packet} : Move(a, b) \/ Swap(a, b)
    \/ SetTime

Spec == Init /\ [][Next]_vars

================================================================================
