------------------------------- MODULE RtpStream -------------------------------
(***************************************************************************)
(* The sequence numbers of one received stream: RtpStream::                *)
(* ReceiveStreamPacket and UpdateSequence (core/src/rtc/rtp_stream.cpp),   *)
(* and what RtpStreamReceiver makes of them in its receiver reports        *)
(* (core/src/rtc/rtp_stream_receiver.cpp).                                 *)
(*                                                                         *)
(* A packet is its position, the number of the packet in the sender's      *)
(* stream; the code sees the position modulo SeqMod.  Timestamps, which    *)
(* UpdateSequence does not look at, are left out.  GetRtcpReceiverReport   *)
(* is public; RtcTransport::SendRtcpPacket, its one caller, is not called  *)
(* at present (rtc_transport.cpp:47 and 502 are commented out).            *)
(*                                                                         *)
(* A definition X_Y is X with a plausible bug Y, which no specification    *)
(* uses; it is there to show that the properties notice the bug.           *)
(***************************************************************************)
EXTENDS Integers, Sequences, FiniteSets, FiniteSetsExt

CONSTANTS
    SeqMod,         \* kRtpSeqMod
    MaxDropout,     \* kMaxDropout
    MaxMisorder,    \* kMaxMisorder
    Positions,      \* the packets that may arrive
    MaxSkew,        \* how far from the newest packet one may arrive
    MaxPackets      \* bound: the packets that arrive

ASSUME SeqModAssumption ==
    /\ {SeqMod, MaxDropout, MaxMisorder, MaxSkew, MaxPackets} \subseteq Nat \ {0}
    /\ 1 < MaxDropout /\ MaxDropout + MaxMisorder < SeqMod
    /\ MaxMisorder <= MaxDropout
    \* with more the 16 bits could not tell the newer packet from the older
    /\ MaxSkew <= SeqMod - MaxDropout
ASSUME PositionsAssumption == Positions \subseteq Nat

VARIABLES
    started,                \* started_
    max_seq,                \* max_seq_
    cycles,                 \* cycles_
    base_seq,               \* base_seq_
    bad_seq,                \* bad_seq_
    received,               \* the packet count of media_transmission_counter_
    expected_prior,         \* expected_prior_
    received_prior,         \* received_prior_
    packets_lost,           \* packets_lost_
    reported_packet_lost,   \* reported_packet_lost_
    fraction_lost,          \* fraction_lost_
    accepted,               \* history: the positions of the accepted packets
    arrived,                \* history: the positions in order of arrival
    resynced                \* history: the stream was re-synced

stream == <<started, max_seq, cycles, base_seq, bad_seq>>
report == <<expected_prior, received_prior, packets_lost, reported_packet_lost, fraction_lost>>
history == <<accepted, arrived, resynced>>
vars == <<stream, received, report, history>>

NoSeq == SeqMod + 1     \* "So seq == badSeq is false."

Init ==
    /\ started = FALSE
    /\ max_seq = 0 /\ cycles = 0 /\ base_seq = 0 /\ bad_seq = 0
    /\ received = 0
    /\ expected_prior = 0 /\ received_prior = 0
    /\ packets_lost = 0 /\ reported_packet_lost = 0 /\ fraction_lost = 0
    /\ accepted = {} /\ arrived = <<>> /\ resynced = FALSE

First == arrived[1]
Newest == Max(accepted)

--------------------------------------------------------------------------------
(* ReceivePacket                                                           *)

Seq16(p) == p % SeqMod
udelta(seq) == (seq - max_seq) % SeqMod
IsInOrder_Inclusive(seq) == udelta(seq) <= MaxDropout

IsInOrder(seq) == udelta(seq) < MaxDropout
IsMisorder(seq) == udelta(seq) > SeqMod - MaxMisorder

CyclesAfter_Misses(from, seq) == cycles

\* "Sequence number wrapped: count another 64K cycle."
CyclesAfter(from, seq) == IF seq < from THEN cycles + SeqMod ELSE cycles

InitSequence(seq) ==
    /\ base_seq' = seq
    /\ max_seq' = seq
    /\ bad_seq' = NoSeq

\* The first packet: max_seq_ becomes seq - 1, and UpdateSequence then finds
\* seq in order.
Start(seq) ==
    /\ ~started
    /\ started' = TRUE
    /\ InitSequence(seq)
    /\ cycles' = CyclesAfter((seq - 1) % SeqMod, seq)
    /\ UNCHANGED resynced

Advance(seq) ==
    /\ started
    /\ IsInOrder(seq)
    /\ cycles' = CyclesAfter(max_seq, seq)
    /\ max_seq' = seq
    /\ UNCHANGED <<started, base_seq, bad_seq, resynced>>

Misorder(seq) ==
    /\ started
    /\ IsMisorder(seq)
    /\ UNCHANGED <<stream, resynced>>

IsBad(seq) == started /\ ~IsInOrder(seq) /\ ~IsMisorder(seq)

Resync(seq) ==
    /\ IsBad(seq)
    /\ seq = bad_seq
    /\ InitSequence(seq)
    /\ resynced' = TRUE
    /\ UNCHANGED <<started, cycles>>

Discard_Unmasked(seq) ==
    /\ IsBad(seq)
    /\ seq # bad_seq
    /\ bad_seq' = seq + 1
    /\ UNCHANGED <<started, max_seq, cycles, base_seq, resynced>>

Discard(seq) ==
    /\ IsBad(seq)
    /\ seq # bad_seq
    /\ bad_seq' = (seq + 1) % SeqMod
    /\ UNCHANGED <<started, max_seq, cycles, base_seq, resynced>>

Accept(p) ==
    /\ \/ Start(Seq16(p)) \/ Advance(Seq16(p))
       \/ Misorder(Seq16(p)) \/ Resync(Seq16(p))
    /\ received' = received + 1
    /\ accepted' = accepted \cup {p}

\* The network hands over a packet, duplicated, reordered or after a jump.
InReach(p) == accepted # {} => p - Newest \in -MaxSkew .. MaxSkew

ReceivePacket(p) ==
    /\ Len(arrived) < MaxPackets
    /\ InReach(p)
    /\ arrived' = Append(arrived, p)
    /\ \/ Accept(p)
       \/ Discard(Seq16(p)) /\ UNCHANGED <<received, accepted>>
    /\ UNCHANGED report

--------------------------------------------------------------------------------
(* GetRtcpReceiverReport                                                   *)

GetExpectedPackets == (cycles + max_seq) - base_seq + 1

\* std::round(double(lost << 8) / expected), stored in a uint8_t
Fraction(lost, expected) ==
    IF expected = 0 \/ lost <= 0 THEN 0
    ELSE ((512 * lost + expected) \div (2 * expected)) % 256

Report_AddsTheTotal ==
    LET expected == GetExpectedPackets
        lost == Max({expected - received, 0})
    IN  /\ packets_lost' = lost
        /\ fraction_lost' = Fraction((expected - expected_prior) - (received - received_prior),
                                     expected - expected_prior)
        /\ expected_prior' = expected
        /\ received_prior' = received
        /\ reported_packet_lost' = reported_packet_lost + lost
        /\ UNCHANGED <<stream, received, history>>

Report ==
    LET expected == GetExpectedPackets
        lost == Max({expected - received, 0})
    IN  /\ packets_lost' = lost
        /\ fraction_lost' = Fraction((expected - expected_prior) - (received - received_prior),
                                     expected - expected_prior)
        /\ expected_prior' = expected
        /\ received_prior' = received
        /\ reported_packet_lost' = reported_packet_lost + (lost - packets_lost)
        /\ UNCHANGED <<stream, received, history>>

Next == (\E p \in Positions : ReceivePacket(p)) \/ Report

Spec == Init /\ [][Next]_vars

--------------------------------------------------------------------------------
(* Properties                                                              *)

\* The members keep their types; bad_seq_ may also hold the number that no
\* packet has.
TypeOK ==
    /\ started \in BOOLEAN /\ resynced \in BOOLEAN
    /\ max_seq \in 0 .. SeqMod - 1 /\ base_seq \in 0 .. SeqMod - 1
    /\ bad_seq \in 0 .. SeqMod - 1 \cup {NoSeq}
    /\ cycles \in Nat
    /\ {received, received_prior, packets_lost, reported_packet_lost} \subseteq Nat
    /\ expected_prior \in Int
    /\ fraction_lost \in 0 .. 255
    /\ accepted \subseteq Positions /\ arrived \in Seq(Positions)

\* While the stream runs on, its extended sequence number counts the packets of
\* the sender from the first one to the newest one accepted, in whatever order
\* they arrive and across every wrap of the 16 bits; except that it counts a
\* wrap too many for a stream that begins with number 0.
ExtendedRight ==
    started /\ ~resynced =>
        GetExpectedPackets =
            Newest - First + 1 + (IF Seq16(First) = 0 THEN SeqMod ELSE 0)

\* Two packets that arrive one after the other and in sequence are never both
\* discarded, whatever the stream saw before: a sender that restarts anywhere
\* is followed again with its second packet.
TwoSequentialAccepted ==
    [][ \A p \in Positions :
            arrived # <<>> /\ Seq16(arrived[Len(arrived)] + 1) = Seq16(p) /\ ReceivePacket(p)
                => Accept(p) ]_vars

\* A report never claims more lost packets than are missing between the first
\* and the newest packet, duplicates and late packets included, and misses none
\* if there are neither: the total, which is kept by differences, adds up.
LostIsMissing ==
    LET seen == accepted \cap First .. Newest
        missing == Newest - First + 1 - Cardinality(seen)
        reported == expected_prior = GetExpectedPackets /\ received_prior = received
    IN  started /\ ~resynced /\ Seq16(First) # 0 /\ reported =>
            /\ reported_packet_lost <= missing
            /\ Cardinality(seen) = received => reported_packet_lost = missing

================================================================================
