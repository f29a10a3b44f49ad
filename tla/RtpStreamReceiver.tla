--------------------------- MODULE RtpStreamReceiver ---------------------------
(***************************************************************************)
(* RtpStreamReceiver::ReceivePacket (core/src/rtc/rtp_stream_receiver.cpp):*)
(* a packet goes through RtpStream and, if that accepts it, through the    *)
(* NackGenerator; then it is counted and given to the listener.  The two   *)
(* keep their own idea of the newest packet; this module relates them, and *)
(* checks the properties of RtpStream with NACK handling in between.       *)
(***************************************************************************)
EXTENDS RtpStream

CONSTANTS MaxPacketAge, MaxNackPackets, MaxNackRetries, SendNackDelay   \* of NackGenerator

VARIABLES
    nack_started, last_seq, nack_list, key_frame_list, result, batch,
    missing, asked_for, was_newest, given_up

ASSUME NackAssumption ==
    /\ {MaxPacketAge, MaxNackPackets, MaxNackRetries} \subseteq Nat \ {0} /\ SendNackDelay \in Nat
    \* kMaxPacketAge and kMaxDropout together stay within half the range
    /\ MaxPacketAge + MaxDropout <= SeqMod \div 2

\* The stream bounds what the NackGenerator sees: MaxDropout - 1 ahead and
\* MaxMisorder - 1 behind.
Nack == INSTANCE NackGenerator WITH
    started <- nack_started,
    AskAgain <- 0,
    MaxAhead <- MaxDropout - 1,
    MaxBehind <- MaxMisorder - 1

nack_vars == <<nack_started, last_seq, nack_list, key_frame_list, result, batch,
               missing, asked_for, was_newest, given_up>>
receiver_vars == <<vars, nack_vars>>

ReceiverInit == Init /\ Nack!Init

\* RtpStreamReceiver::ReceivePacket; UpdateSequence returned false, or the packet
\* is counted.
ReceiveInReceiver(p) ==
    /\ ReceivePacket(p)
    /\ \/ received' = received /\ UNCHANGED nack_vars
       \/ received' # received /\ Nack!ReceivePacket(Seq16(p))

\* GetRtcpReceiverReport
ReportOfReceiver == Report /\ UNCHANGED nack_vars

Tick == Nack!Tick /\ UNCHANGED vars

ReceiverNext == (\E p \in Positions : ReceiveInReceiver(p)) \/ ReportOfReceiver \/ Tick

ReceiverSpec == ReceiverInit /\ [][ReceiverNext]_receiver_vars

--------------------------------------------------------------------------------
(* Properties: those of RtpStream, whatever NACK handling and reports come *)
(* in between, and                                                         *)

\* While the stream runs on, the stream and the NackGenerator, which compare
\* sequence numbers in two different ways, agree on the newest packet, and the
\* stream gives the NackGenerator only packets near enough for its comparisons:
\* the keys of its ordered containers are ordered when a packet is inserted.
FeedsNearPackets ==
    [][ \A p \in Positions :
            ReceiveInReceiver(p) /\ started /\ ~resynced' /\ received' # received =>
                last_seq = max_seq /\ Nack!Accepted(Seq16(p)) ]_receiver_vars

================================================================================
