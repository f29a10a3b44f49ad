---------------------------- MODULE RtpStreamSender ----------------------------
(***************************************************************************)
(* RtpStreamSender (core/src/rtc/rtp_stream_sender.cpp): the packets it    *)
(* sends go into the RtpRetransmissionBuffer, and a NACK from the other    *)
(* side is answered from there, but no packet again within a round-trip    *)
(* time.                                                                   *)
(*                                                                         *)
(* What RtpStream makes of a packet is modelled in RtpStream; here it may  *)
(* accept or discard any.  RTP statistics are left out.  ReceiveNack is    *)
(* public, and nothing calls it at present: RtcTransport ignores the       *)
(* packets FeedbackRtpPacket::Parse returns.                               *)
(*                                                                         *)
(* A definition X_Y is X with a plausible bug Y, which no specification    *)
(* uses; it is there to show that the properties notice the bug.           *)
(***************************************************************************)
EXTENDS RetransmissionBuffer, Functions

CONSTANTS
    Bits,           \* 16 in the code: the numbers a bitmask covers
    DefaultRtt,     \* kDefaultRtt, in milliseconds
    PerMs,          \* the parts of a millisecond that rtt_, a float, tells apart
    RttMod,         \* 2^16 in the code: the milliseconds a uint16_t holds
    Rtts,           \* the round-trip times a receiver report may show, in parts
    Nacks           \* the NACK packets that may arrive, sequences of NackItem

NackItem == [packet_id : 0 .. SeqMod - 1, bitmask : SUBSET (1 .. Bits)]

ASSUME SenderAssumption ==
    /\ Bits \in Nat /\ DefaultRtt \in Nat /\ Rtts \subseteq Nat /\ Bits + 1 < SeqMod
    /\ PerMs \in Nat \ {0} /\ RttMod \in Nat \ {0}
    /\ \A n \in Nacks : n \in Seq(NackItem)

VARIABLES
    rtt,        \* rtt_
    resent,     \* resent_at_ms of the items: how many ms ago, for those resent of late
    answered    \* history: the last retransmission of each item while it is stored

sender_vars == <<buffer, rtt, resent, answered>>

Times == {(r \div PerMs) % RttMod : r \in Rtts} \cup {DefaultRtt}
Longest == CHOOSE t \in Times : \A u \in Times : u <= t
Never == [q \in {} |-> 0]

SenderInit == Init /\ rtt = 0 /\ resent = Never /\ answered = Never

--------------------------------------------------------------------------------
(* ReceivePacket: a packet to be sent                                      *)

\* StorePacket; an item that leaves the buffer takes its times with it.
StorePacket(p) ==
    /\ Insert(p)
    /\ resent' = Restrict(resent, DOMAIN resent \cap Stored(buffer'))
    /\ answered' = Restrict(answered, DOMAIN answered \cap Stored(buffer'))

ReceivePacket(p) == StorePacket(p) /\ UNCHANGED rtt

\* RtpStream discards the packet, or it is larger than kMtuSize.
StoresNothing == UNCHANGED sender_vars

--------------------------------------------------------------------------------
(* ReceiveNack                                                             *)

\* The local rtt, a uint16_t: rtt_ without its fraction, and of whole milliseconds
\* that do not fit the low 16 bits.
RttOr100 == IF rtt > 0 THEN (rtt \div PerMs) % RttMod ELSE DefaultRtt

\* "Stored packet is valid for retransmission", at times
MayResend_Always(item, times) == item # Blank

MayResend(item, times) ==
    item # Blank /\ (item \in DOMAIN times => times[item] > RttOr100)

\* The state of the loop in FillRetransmissionContainer
Loop(item, times) ==
    [current_seq |-> item.packet_id, requested |-> TRUE, bitmask |-> item.bitmask,
     container |-> <<>>, times |-> times]

Resend(l) ==
    LET item == Get(buffer, l.current_seq)
    IN  IF l.requested /\ MayResend(item, l.times)
        THEN [l EXCEPT !.container = Append(@, item),
                       !.times = [q \in DOMAIN l.times \cup {item} |->
                                     IF q = item THEN 0 ELSE l.times[q]]]
        ELSE l

\* requested = bitmask & 1, bitmask >>= 1, ++current_seq
Shifted_OnRequest(l) ==
    [l EXCEPT !.requested = 1 \in l.bitmask,
              !.bitmask = {b - 1 : b \in l.bitmask \ {1}},
              !.current_seq = IF l.requested THEN Plus(@, 1, SeqMod) ELSE @]

Shifted(l) ==
    [l EXCEPT !.requested = 1 \in l.bitmask,
              !.bitmask = {b - 1 : b \in l.bitmask \ {1}},
              !.current_seq = Plus(@, 1, SeqMod)]

\* The first number, and then one for each bit; the code leaves the loop when no
\* bit is left.
FillRetransmissionContainer(item, times) ==
    LET pass[i \in 0 .. Bits] ==
            Resend(IF i = 0 THEN Loop(item, times) ELSE Shifted(pass[i - 1]))
    IN  pass[Bits]

\* What ReceiveNack has retransmitted after the items of the packet, one by one
AfterItems(nack_packet) ==
    LET after[i \in 0 .. Len(nack_packet)] ==
            IF i = 0
            THEN [batch |-> <<>>, times |-> resent]
            ELSE LET l == FillRetransmissionContainer(nack_packet[i], after[i - 1].times)
                 IN  [batch |-> after[i - 1].batch \o l.container, times |-> l.times]
    IN  after[Len(nack_packet)]

ReceiveNack(nack_packet) ==
    LET after == AfterItems(nack_packet)
    IN  /\ resent' = after.times
        /\ answered' = [q \in DOMAIN answered \cup Range(after.batch) |->
                           IF q \in Range(after.batch) THEN 0 ELSE answered[q]]
        /\ UNCHANGED <<buffer, rtt>>

--------------------------------------------------------------------------------

\* ReceiveRtcpReceiverReport, as far as the round-trip time goes
ReceiveRtcpReceiverReport(r) == rtt' = r /\ UNCHANGED <<buffer, resent, answered>>

\* A tick of GetTimeMs.  Times longer than any round trip are not told apart.
Aged(times) ==
    [q \in {i \in DOMAIN times : times[i] < Longest} |-> times[q] + 1]

Tick ==
    /\ resent' = Aged(resent)
    /\ answered' = Aged(answered)
    /\ UNCHANGED <<buffer, rtt>>

SenderNext ==
    \/ \E p \in Item : ReceivePacket(p)
    \/ StoresNothing
    \/ \E n \in Nacks : ReceiveNack(n)
    \/ \E r \in Rtts : ReceiveRtcpReceiverReport(r)
    \/ Tick

SenderSpec == SenderInit /\ [][SenderNext]_sender_vars

--------------------------------------------------------------------------------
(* Properties                                                              *)

\* The sequence numbers that an item of a NACK names (RFC 4585, 6.2.1)
Requested(item) ==
    {item.packet_id} \cup {Plus(item.packet_id, b, SeqMod) : b \in item.bitmask}

\* The answer to a NACK of one item is every requested packet that is stored
\* and was not retransmitted within what the code takes for the last round-trip
\* time, each once, in the order of the sequence numbers.
AnswersTheNack ==
    \A n \in Nacks :
        LET batch == AfterItems(n).batch
        IN  Len(n) = 1 =>
                /\ Range(batch) = {p \in Stored(buffer) :
                                      /\ p.seq \in Requested(n[1])
                                      /\ p \in DOMAIN answered => answered[p] > RttOr100}
                /\ \A i, j \in DOMAIN batch :
                      i < j => Minus(batch[i].seq, n[1].packet_id, SeqMod)
                               < Minus(batch[j].seq, n[1].packet_id, SeqMod)

\* However many NACKs, and items in a NACK, ask for it, a packet is not
\* retransmitted twice within a round-trip time of less than 2^16 ms while it is
\* stored; nor within kDefaultRtt before a round-trip time is known.
NotTwiceInRtt ==
    \A n \in Nacks :
        LET batch == AfterItems(n).batch
        IN  /\ \A i, j \in DOMAIN batch : batch[i] = batch[j] => i = j
            /\ \A p \in Range(batch) \cap DOMAIN answered :
                    IF rtt = 0 THEN answered[p] > DefaultRtt
                    ELSE rtt < RttMod * PerMs => answered[p] * PerMs > rtt

================================================================================
