------------------------------- MODULE RtcpPacket -------------------------------
(***************************************************************************)
(* RTCP packets (core/src/rtc/rtcp): reports in a CompoundPacket, what it  *)
(* serialises to, and what RtcpPacket::Parse makes of a datagram.          *)
(*                                                                         *)
(* A datagram is a sequence of packets [type, count, blocks, whole]: the   *)
(* count of the common header, the blocks after it, and whether the        *)
(* datagram holds as many bytes as its length says and that length has     *)
(* room for the packet's own head (the ssrc of a receiver report, the two  *)
(* of a feedback packet): Parse returns nothing in both cases.  A block is *)
(* a report or an item of a NACK.  The order of the bytes is left out.     *)
(***************************************************************************)
EXTENDS Integers, Sequences, FiniteSets

CONSTANTS
    CountMod,   \* 2^5: the values of the common header's count
    MaxSize,    \* CompoundPacket::kMaxSize
    LostHalf    \* 2^23: totalLost has 24 bits, the highest one the sign

ASSUME PacketAssumption ==
    /\ CountMod \in Nat \ {0} /\ MaxSize \in Nat
    /\ LostHalf \in Nat \ {0}

CommonHeader == 4
SsrcSize == 4
ReportSize == 24    \* of SenderReport::Header and of ReceiverReport::Header

--------------------------------------------------------------------------------
(* SetTotalLost and GetTotalLost: the sign and the amount                  *)

Clamp(total_lost) ==
    IF total_lost >= 0
    THEN IF total_lost > LostHalf - 1 THEN LostHalf - 1 ELSE total_lost
    ELSE IF -total_lost > LostHalf THEN LostHalf ELSE -total_lost

\* clamp | 0x0800000
WithSign(clamp) == IF clamp < LostHalf THEN clamp + LostHalf ELSE clamp

SetTotalLost_Unclamped(total_lost) ==
    IF total_lost >= 0 THEN total_lost % LostHalf ELSE WithSign((-total_lost) % LostHalf)

SetTotalLost(total_lost) ==
    IF total_lost >= 0 THEN Clamp(total_lost) ELSE WithSign(Clamp(total_lost))

GetTotalLost(value) ==
    IF value < LostHalf THEN value
    ELSE IF value = LostHalf THEN -value ELSE -(value - LostHalf)

--------------------------------------------------------------------------------
(* CompoundPacket                                                          *)

Empty == [SR |-> <<>>, RR |-> <<>>, added |-> [SR |-> <<>>, RR |-> <<>>]]

\* GetSize of a SenderReportPacket or ReceiverReportPacket in the compound; one
\* without reports is left out.
SizeOf(head, reports) ==
    IF reports = <<>> THEN 0 ELSE head + ReportSize * Len(reports)

GetSize(c) == SizeOf(CommonHeader, c.SR) + SizeOf(CommonHeader + SsrcSize, c.RR)

\* AddSenderReport and AddReceiverReport.  added is history: the reports for
\* which they returned true.
AddReport_Keeps(c, type, report) ==
    LET with == [c EXCEPT ![type] = Append(@, report)]
    IN  IF GetSize(with) <= MaxSize
        THEN [with EXCEPT !.added[type] = Append(@, report)]
        ELSE with

AddReport(c, type, report) ==
    LET with == [c EXCEPT ![type] = Append(@, report)]
    IN  IF GetSize(with) <= MaxSize
        THEN [with EXCEPT !.added[type] = Append(@, report)]
        ELSE c      \* RemoveReport

\* RtcpPacket::Serialize keeps five bits of GetCount.
Packet(type, count, blocks) ==
    [type |-> type, count |-> count % CountMod, blocks |-> blocks, whole |-> TRUE]

SenderReports(reports) ==
    IF reports = <<>> THEN <<>> ELSE <<Packet("SR", Len(reports), reports)>>

ReceiverReports(reports) ==
    IF reports = <<>> THEN <<>> ELSE <<Packet("RR", Len(reports), reports)>>

Serialize(c) == SenderReports(c.SR) \o ReceiverReports(c.RR)

--------------------------------------------------------------------------------
(* RtcpPacket::Parse                                                       *)

Null == [type |-> "none", reports |-> <<>>]

FirstOf(n, blocks) == SubSeq(blocks, 1, IF n < Len(blocks) THEN n ELSE Len(blocks))

\* The count is not read; receiver blocks after the sender's are not either.
SenderReportPacket(p) == [type |-> "SR", reports |-> FirstOf(1, p.blocks)]

ReceiverReportPacket(p) == [type |-> "RR", reports |-> FirstOf(p.count, p.blocks)]

NackItems(p) == [type |-> "RTPFB", reports |-> p.blocks]

\* Here the count is the message type, and of those only NACK (1) is parsed.
FeedbackRtpPacket(p) == IF p.count = 1 THEN NackItems(p) ELSE Null

\* Version 2 and a type from 192 to 223; the types the code has no name for are
\* not told apart.
IsRtcp(p) == p.type \in {"SR", "RR", "SDES", "BYE", "APP", "RTPFB", "PSFB", "XR", "NAT"}

\* The packet after one more of the datagram: other types leave current alone.
ParseNext(p, current) ==
    IF ~IsRtcp(p) \/ ~p.whole THEN Null
    ELSE CASE p.type = "SR" -> SenderReportPacket(p)
           [] p.type = "RR" -> ReceiverReportPacket(p)
           [] p.type = "RTPFB" -> FeedbackRtpPacket(p)
           [] OTHER -> current

\* Only the last packet that is parsed is returned, and nothing when there is
\* none after any packet of the datagram.
Parse(packets) ==
    LET current[i \in 0 .. Len(packets)] ==
            IF i = 0 \/ (i > 1 /\ current[i - 1] = Null)
            THEN Null
            ELSE ParseNext(packets[i], current[i - 1])
    IN  current[Len(packets)]
================================================================================
