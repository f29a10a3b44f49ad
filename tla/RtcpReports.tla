------------------------------ MODULE RtcpReports ------------------------------
(***************************************************************************)
(* The exchange of RTCP reports between two RtcTransports over UDP.  The   *)
(* streams that send make sender reports; the streams that receive answer  *)
(* with receiver reports, from which the sender computes the round-trip    *)
(* time.  Datagrams may be lost, duplicated and reordered: a lost one is   *)
(* never under way, and one that arrives may arrive again.                 *)
(*                                                                         *)
(* The clock counts milliseconds from MinTime to MaxTime.  RTP timestamps, *)
(* the jitter and the fraction lost travel like the rest and are left out, *)
(* and so is the address that a report leaves in the stream: it is the     *)
(* only peer's.  Nothing calls SendRtcpPacket at present (its call in      *)
(* OnTimer is commented out).                                              *)
(*                                                                         *)
(* A definition X_Y is X with a plausible bug Y, which no specification    *)
(* uses; it is there to show that the properties notice the bug.           *)
(***************************************************************************)
EXTENDS RtcpPacket

CONSTANTS
    Host,           \* the two transports
    Sends,          \* the ssrcs of rtp_send_streams_, for each host
    Receives,       \* the ssrcs of rtp_receive_streams_, for each host
    NtpMod,         \* 2^32: the values of a compact NTP time
    NtpUnits, NtpMs, \* 65536 units of it are 1000 milliseconds
    LostMod,        \* 2^32: the values of packets_lost_, a uint32_t
    Losses,         \* for each receiving stream, the total lost it may report: a negative
                    \* one is another implementation's, which counts duplicates
    Compounds,      \* for each host, what callers put in one CompoundPacket and around it
    MinTime, MaxTime,
    MaxInFlight     \* bound: datagrams under way

ASSUME ReportAssumption ==
    /\ NtpMod \in Nat \ {0} /\ NtpUnits \in Nat /\ NtpMs \in Nat \ {0}
    /\ LostMod \in Nat \ {0} /\ LostHalf < LostMod
    /\ MinTime \in Nat \ {0} /\ MaxTime \in Nat /\ MinTime <= MaxTime
    /\ \A h \in Host : \E g \in Host : g # h
    /\ \A h \in Host : Sends[h] \subseteq Nat /\ Receives[h] \in (SUBSET Nat) \ {{}}
    /\ \A h \in Host : \A s \in Receives[h] : Losses[s] \subseteq Int

\* What other implementations put around the reports
OtherPackets ==
    [type : STRING \ {"SR", "RR"}, count : Nat, blocks : Seq(Nat), whole : BOOLEAN]

ASSUME CompoundsAssumption ==
    \A h \in Host : \A c \in Compounds[h] :
        /\ c.plan \in Seq({"SR", "RR"}) /\ c.before \in Seq(OtherPackets) /\ c.after \in Seq(OtherPackets)
        /\ Sends[h] = {} => \A i \in DOMAIN c.plan : c.plan[i] = "RR"

VARIABLES
    now,        \* GetTimeMs
    alive,      \* the hosts that have not crashed
    senders,    \* for each ssrc: rtt_ in units, packets_lost_, and history
    receivers,  \* for each ssrc: last_sr_received_ and last_sr_timestamp_
    network     \* the datagrams under way

vars == <<now, alive, senders, receivers, network>>

Peer(h) == CHOOSE g \in Host : g # h
Least(S) == CHOOSE s \in S : \A t \in S : s <= t

Units(ms) == (ms * NtpUnits) \div NtpMs

\* A millisecond is a unit at least, and nothing is under way for the 18 hours in
\* which the compact time comes round.
ASSUME TimeAssumption == NtpMs <= NtpUnits /\ Units(MaxTime) - Units(MinTime) < NtpMod

\* TimeMs2Ntp and the middle 32 bits of the result
Compact(ms) == Units(ms) % NtpMod

\* sent is history: when the sender report was sent.
NotHeard == [last_sr_received |-> 0, last_sr_timestamp |-> 0, sent |-> 0]

Init ==
    /\ now = MinTime
    /\ alive = Host
    /\ senders = [s \in UNION {Sends[h] : h \in Host} |->
                     [rtt |-> 0, packets_lost |-> 0,
                      lost |-> 0, took |-> 0, unknown |-> TRUE]]
    /\ receivers = [s \in UNION {Receives[h] : h \in Host} |-> NotHeard]
    /\ network = {}

--------------------------------------------------------------------------------
(* Sending                                                                 *)

\* What was set in the report and what its getters return; sent is history.
SenderReport(ssrc, ntp) == [ssrc |-> ssrc, ntp |-> ntp, sent |-> now]

GetRtcpSenderReport(s) == SenderReport(s, Compact(now))

\* lost, made, sr_sent and sr_received are history.
ReceiverReport(ssrc, lost, last_sr, dlsr) ==
    [ssrc |-> ssrc, total_lost |-> SetTotalLost(lost), last_sr |-> last_sr, dlsr |-> dlsr,
     lost |-> lost, made |-> now,
     sr_sent |-> receivers[ssrc].sent, sr_received |-> receivers[ssrc].last_sr_received]

GetRtcpReceiverReport(s, lost) ==
    LET r == receivers[s]
    IN  IF r.last_sr_received # 0
        THEN ReceiverReport(s, lost, r.last_sr_timestamp, Compact(now - r.last_sr_received))
        ELSE ReceiverReport(s, lost, 0, 0)

Datagram(h, packets, compound) ==
    [to |-> Peer(h), packets |-> packets, size |-> GetSize(compound), added |-> compound.added]

Single(h, type, report) ==
    LET compound == AddReport(Empty, type, report)
    IN  Datagram(h, Serialize(compound), compound)

\* Any of the datagrams may get lost.
Post(datagrams) ==
    /\ \E through \in SUBSET datagrams :
          /\ Cardinality(network \cup through) <= MaxInFlight
          /\ network' = network \cup through
    /\ UNCHANGED <<now, alive, senders, receivers>>

\* A datagram of its own for each stream
SendRtcpPacket(h, lost) ==
    /\ h \in alive
    /\ Post({Single(h, "RR", GetRtcpReceiverReport(s, lost[s])) : s \in Receives[h]}
            \cup {Single(h, "SR", GetRtcpSenderReport(s)) : s \in Sends[h]})

\* The reports of several streams in one packet, as the class CompoundPacket is
\* for; another implementation puts other packets around them, and the end may
\* be cut off.
Planned(h, type) ==
    IF type = "SR" THEN GetRtcpSenderReport(Least(Sends[h]))
    ELSE GetRtcpReceiverReport(Least(Receives[h]), 0)

CompoundOf(h, plan) ==
    LET c[i \in 0 .. Len(plan)] ==
            IF i = 0 THEN Empty ELSE AddReport(c[i - 1], plan[i], Planned(h, plan[i]))
    IN  c[Len(plan)]

CutOff(packets) == [packets EXCEPT ![Len(packets)].whole = FALSE]

SendCompoundPacket(h, c) ==
    /\ h \in alive
    /\ LET compound == CompoundOf(h, c.plan)
           packets == c.before \o Serialize(compound) \o c.after
       IN  Post({Datagram(h, IF c.whole THEN packets ELSE CutOff(packets), compound)})

--------------------------------------------------------------------------------
(* Receiving                                                               *)

\* The find of GetStreamReceiverBySsrc falls back to the first stream.
GetStreamReceiverBySsrc(h, ssrc) ==
    IF ssrc \in Receives[h] THEN ssrc ELSE Least(Receives[h])

ReceiveRtcpSenderReport(h, report) ==
    receivers' = [receivers EXCEPT ![GetStreamReceiverBySsrc(h, report.ssrc)] =
                     [last_sr_received |-> now, last_sr_timestamp |-> report.ntp,
                      sent |-> report.sent]]

\* In units of 1/65536 s; the code turns it into milliseconds.
Rtt_Always(report) == (Compact(now) - (report.dlsr + report.last_sr)) % NtpMod

Rtt(report) ==
    LET sum == (report.dlsr + report.last_sr) % NtpMod
    IN  IF report.last_sr # 0 /\ report.dlsr # 0 /\ Compact(now) > sum
        THEN Compact(now) - sum
        ELSE 0

\* lost, took and unknown are history: the total lost, how long the sender report
\* and the answer were on the way, and whether that cannot be told, because there
\* was no sender report, it was answered in the same millisecond, or the compact
\* time is zero or wraps.
ReceiveRtcpReceiverReport(report) ==
    [rtt |-> Rtt(report),
     packets_lost |-> GetTotalLost(report.total_lost) % LostMod,
     lost |-> report.lost,
     took |-> (report.sr_received - report.sr_sent) + (now - report.made),
     unknown |-> \/ report.sr_received \in {0, report.made}
                 \/ Compact(report.sr_sent) = 0
                 \/ (Units(report.sr_sent) + Units(report.made - report.sr_received))
                      \div NtpMod # Units(now) \div NtpMod]

\* The reports one by one; the last one for a stream stays.
ReceiveReports(h, reports) ==
    LET Of(s) == {i \in DOMAIN reports : reports[i].ssrc = s}
        last(s) == CHOOSE i \in Of(s) : \A j \in Of(s) : j <= i
    IN  senders' = [s \in DOMAIN senders |->
                       IF s \in Sends[h] /\ Of(s) # {}
                       THEN ReceiveRtcpReceiverReport(reports[last(s)])
                       ELSE senders[s]]

\* ReceiveRtcpPacket; it dereferences the packet, and a null one is the end.
ReceiveRtcpPacket(d) ==
    LET packet == Parse(d.packets)
    IN  \/ /\ packet.type = "SR"
           /\ ReceiveRtcpSenderReport(d.to, packet.reports[1])
           /\ UNCHANGED <<alive, senders>>
        \/ /\ packet.type = "RR"
           /\ ReceiveReports(d.to, packet.reports)
           /\ UNCHANGED <<alive, receivers>>
        \/ /\ packet.type = "RTPFB"
           /\ UNCHANGED <<alive, senders, receivers>>
        \/ /\ packet = Null
           /\ alive' = alive \ {d.to}
           /\ UNCHANGED <<senders, receivers>>

Deliver(d) ==
    /\ d.to \in alive
    /\ ReceiveRtcpPacket(d)
    /\ network' \in {network, network \ {d}}
    /\ UNCHANGED now

Tick ==
    /\ now < MaxTime
    /\ now' = now + 1
    /\ UNCHANGED <<alive, senders, receivers, network>>

Next ==
    \/ \E h \in Host :
          \E lost \in {l \in [Receives[h] -> UNION {Losses[s] : s \in Receives[h]}] :
                          \A s \in Receives[h] : l[s] \in Losses[s]} :
             SendRtcpPacket(h, lost)
    \/ \E h \in Host : \E c \in Compounds[h] : SendCompoundPacket(h, c)
    \/ \E d \in network : Deliver(d)
    \/ Tick

Spec == Init /\ [][Next]_vars

--------------------------------------------------------------------------------
(* Properties                                                              *)

\* The round-trip time is what the two datagrams took, to the rounding of three
\* conversions, or zero if that cannot be known or is zero, whatever was lost,
\* repeated or late and whichever stream took the sender report.
RttRight ==
    \A s \in DOMAIN senders :
        LET sender == senders[s]
        IN  IF sender.unknown
            THEN sender.rtt = 0
            ELSE sender.rtt \in Units(sender.took) .. Units(sender.took) + 2

\* The total lost in the limits of 24 bits
InLimits(lost) ==
    IF lost > LostHalf - 1 THEN LostHalf - 1
    ELSE IF lost < -LostHalf THEN -LostHalf ELSE lost

\* The total lost that a stream reports is the one its sender gets, but for
\* the limits of 24 bits, and a negative one but for the 2^32 that the unsigned
\* packets_lost_ adds.
LostArrives ==
    \A s \in DOMAIN senders :
        LET lost == InLimits(senders[s].lost)
        IN  senders[s].packets_lost = IF lost >= 0 THEN lost ELSE lost + LostMod

\* Types that RtcpPacket::Parse makes an object of, and packets it does not give up at
Parsed == {"SR", "RR", "RTPFB"}
IsGood(p) == IsRtcp(p) /\ p.whole /\ (p.type = "RTPFB" => p.count = 1)

\* The datagrams after which there is a packet to dereference: they begin with a
\* packet of such a type, and none of their packets is one that Parse gives up at.
Readable(packets) ==
    /\ packets # <<>> /\ packets[1].type \in Parsed
    /\ \A i \in DOMAIN packets : IsGood(packets[i])

\* No datagram is larger than kMaxSize.  One that is readable, whatever is around
\* the reports, is parsed to the last packet of a parsed type: a NACK, the first of
\* the sender reports the compound accepted, or as many of its receiver reports as
\* the five bits of the count tell.  One that is not is parsed to nothing.
ReportsArrive ==
    \A d \in network :
        LET packet == Parse(d.packets)
            parsed == {i \in DOMAIN d.packets : d.packets[i].type \in Parsed}
        IN  /\ d.size <= MaxSize
            /\ packet = Null <=> ~Readable(d.packets)
            /\ Readable(d.packets) =>
                   \E i \in parsed : /\ \A j \in parsed : j <= i
                                     /\ packet.type = d.packets[i].type
            /\ packet.type = "SR" => packet.reports = FirstOf(1, d.added.SR)
            /\ packet.type = "RR" =>
                   packet.reports = FirstOf(Len(d.added.RR) % CountMod, d.added.RR)

================================================================================
