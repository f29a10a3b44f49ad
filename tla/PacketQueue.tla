------------------------------ MODULE PacketQueue ------------------------------
(***************************************************************************)
(* ThreadRtpPacketQueue and CallBackQueueThread                            *)
(* (core/include/rtc/callback_queue_thread.h, callback_queue_thread.cpp).  *)
(*                                                                         *)
(* Two threads and a caller.  The network loop thread runs                 *)
(* ReceiveRtpPacket (Push) for every RTP packet and OnTimer every 40 ms.   *)
(* The consumer thread runs TryCallData: Pop, then one                     *)
(* HasContinuousPacketCall per popped packet.  The thread that owns the    *)
(* queue runs the destructor.                                              *)
(*                                                                         *)
(* A packet is the pair of the sender's wrap count and its 16-bit sequence *)
(* number.  The queue only sees the sequence number and rebuilds the wrap  *)
(* count in cycle_; the pair stands for the payload, so that a packet      *)
(* filed under a wrong number can be told.                                 *)
(*                                                                         *)
(* A definition X_Y is X with a plausible bug Y, which no specification    *)
(* uses; it is there to show that the properties notice the bug.           *)
(***************************************************************************)
EXTENDS Naturals, Sequences

CONSTANTS
    SeqMod,     \* 2^16 in the code: the number of sequence numbers
    Packets,    \* the packets the sender may send
    MaxSkew,    \* how far behind or ahead of the newest a packet may arrive
    Copies,     \* how often the network may hand over the same packet
    LateWrap    \* may a packet arrive after one of the next wrap?

Half == (SeqMod - 1) \div 2                 \* 65535 / 2

ASSUME SeqModAssumption == SeqMod \in Nat \ {0}
ASSUME PacketsAssumption == Packets \subseteq [cycle : Nat, seq : 0 .. SeqMod - 1]
ASSUME MaxSkewAssumption == MaxSkew \in Nat /\ MaxSkew <= Half
ASSUME CopiesAssumption == Copies \in Nat
ASSUME LateWrapAssumption == LateWrap \in BOOLEAN

NoPacket == [cycle |-> 0, seq |-> SeqMod]

\* The packet's position in the sender's stream.
Position(p) == p.cycle * SeqMod + p.seq

VARIABLES
    packet_map,     \* packet_map_: large_seq -> packet
    is_start,       \* is_start_
    cycle,          \* cycle_ (unbounded here: 2^16 wraps do not happen)
    max_seq,        \* max_seq_
    waite_pop_seq,  \* waite_pop_seq_
    cpc,            \* where the consumer thread is
    buffers,        \* its local vector of popped packets
    called,         \* the packets HasContinuousPacketCall was given
    timer_on,       \* check_frame_timer_ is running
    running,        \* running_
    life,           \* the destructor: "running", "closing", "joined"
    handed,         \* the network: how often each packet was handed over
    newest          \* the network: the newest packet handed over

queue == <<packet_map, is_start, cycle, max_seq, waite_pop_seq>>
owner == <<timer_on, running, life>>
network == <<handed, newest>>
vars == <<packet_map, is_start, cycle, max_seq, waite_pop_seq, cpc, buffers,
          called, timer_on, running, life, handed, newest>>

Init ==
    /\ packet_map = [k \in {} |-> NoPacket]
    /\ is_start = TRUE
    /\ cycle = 0
    /\ max_seq = 0
    /\ waite_pop_seq = 0
    /\ cpc = "loop"
    /\ buffers = <<>>
    /\ called = <<>>
    /\ timer_on = TRUE
    /\ running = TRUE
    /\ life = "running"
    /\ handed = [p \in Packets |-> 0]
    /\ newest = NoPacket

--------------------------------------------------------------------------------
(* The network.  It starts with a packet of the sender's first wrap and    *)
(* keeps every packet within MaxSkew of the newest one.                    *)

InReach(p) ==
    IF newest = NoPacket THEN p.cycle = 0
    ELSE \/ /\ p.cycle = newest.cycle
            /\ p.seq <= newest.seq + MaxSkew /\ newest.seq <= p.seq + MaxSkew
         \/ /\ p.cycle = newest.cycle + 1
            /\ SeqMod + p.seq <= newest.seq + MaxSkew
         \/ /\ LateWrap /\ newest.cycle = p.cycle + 1
            /\ SeqMod + newest.seq <= p.seq + MaxSkew

Newer(p) ==
    \/ newest = NoPacket
    \/ p.cycle > newest.cycle
    \/ p.cycle = newest.cycle /\ p.seq > newest.seq

HandOver(p) ==
    /\ handed[p] < Copies
    /\ InReach(p)
    /\ handed' = [handed EXCEPT ![p] = @ + 1]
    /\ newest' = IF Newer(p) THEN p ELSE newest

--------------------------------------------------------------------------------
(* The loop thread.                                                        *)

HasRouting_OffByOne(small, big) == big < small /\ small - big >= Half

HasRouting(small, big) == big <= small /\ small - big > Half

IsLargeSeq(small, big) ==
    \/ big > small /\ big - small <= Half
    \/ HasRouting(small, big)

HeadIsDue_Anywhere(m) == waite_pop_seq \in DOMAIN m

\* FindContinuousPacket: the first packet of map m is the one waited for.
HeadIsDue(m) ==
    /\ waite_pop_seq \in DOMAIN m
    /\ \A k \in DOMAIN m : waite_pop_seq <= k

\* is_disorder_.notify_one(): nobody but the consumer ever waits on it.
NotifyDisorder(m) ==
    cpc' = IF cpc = "wait_disorder" /\ HeadIsDue(m) THEN "woken" ELSE cpc

\* The first packet is compared with itself.
Against(seq) == IF is_start THEN seq ELSE max_seq

NextCycle_Never(seq) == cycle

NextCycle(seq) == IF HasRouting(Against(seq), seq) THEN cycle + 1 ELSE cycle

LargeSeq(seq) == NextCycle(seq) * SeqMod + seq

\* std::map::emplace: the first packet filed under a number stays.
Emplace(m, k, p) ==
    [i \in DOMAIN m \cup {k} |-> IF i \in DOMAIN m THEN m[i] ELSE p]

\* ReceiveRtpPacket, on the loop thread.  It needs mutex_, which the consumer
\* holds while it pops.  After the join the queue no longer exists.
Push(p) ==
    /\ life # "joined"
    /\ cpc # "pop"
    /\ HandOver(p)
    /\ is_start' = FALSE
    /\ max_seq' = IF IsLargeSeq(Against(p.seq), p.seq) THEN p.seq
                  ELSE Against(p.seq)
    /\ cycle' = NextCycle(p.seq)
    /\ packet_map' = Emplace(packet_map, LargeSeq(p.seq), p)
    /\ NotifyDisorder(packet_map')
    /\ UNCHANGED <<waite_pop_seq, buffers, called, owner>>

OnTimer_NotifiesNobody == timer_on /\ HeadIsDue(packet_map) /\ UNCHANGED vars

\* OnTimer reads packet_map_ without mutex_.  While the consumer pops, the
\* read races with its erase, but then nobody waits for the notification; the
\* notification counts only while the consumer is in is_disorder_.wait.
OnTimer ==
    /\ timer_on
    /\ cpc = "wait_disorder"
    /\ HeadIsDue(packet_map)
    /\ NotifyDisorder(packet_map)
    /\ UNCHANGED <<queue, buffers, called, owner, network>>

--------------------------------------------------------------------------------
(* The consumer thread: TryCallData and Pop.                               *)

Move(from, to) ==
    /\ cpc = from
    /\ cpc' = to
    /\ UNCHANGED <<buffers, called, queue, owner, network>>

TestRunning_Always == Move("loop", "wait_empty")

\* while (running_)
TestRunning == Move("loop", IF running THEN "wait_empty" ELSE "exit")

\* is_empty_.wait returns once the map has a packet; under the same lock the
\* consumer goes to sleep on is_disorder_, for the first packet too.
WaitEmpty == DOMAIN packet_map # {} /\ Move("wait_empty", "wait_disorder")

\* is_disorder_.wait has no predicate: it may also return by itself.
SpuriousWakeup == Move("wait_disorder", "woken")

\* The consumer gets mutex_ back and keeps it to the end of Pop.
Relock == Move("woken", "pop")

PopOne_SkipsGaps ==
    /\ cpc = "pop"
    /\ \E k \in DOMAIN packet_map :
          /\ \A i \in DOMAIN packet_map : k <= i
          /\ buffers' = Append(buffers, packet_map[k])
          /\ packet_map' = [i \in DOMAIN packet_map \ {k} |-> packet_map[i]]
          /\ waite_pop_seq' = k + 1
    /\ UNCHANGED <<is_start, cycle, max_seq, cpc, called, owner, network>>

PopOne ==
    /\ cpc = "pop"
    /\ HeadIsDue(packet_map)
    /\ buffers' = Append(buffers, packet_map[waite_pop_seq])
    /\ packet_map' = [k \in DOMAIN packet_map \ {waite_pop_seq} |-> packet_map[k]]
    /\ waite_pop_seq' = waite_pop_seq + 1
    /\ UNCHANGED <<is_start, cycle, max_seq, cpc, called, owner, network>>

PopReturns == ~HeadIsDue(packet_map) /\ Move("pop", "call")

Call_LastFirst ==
    /\ cpc = "call"
    /\ buffers # <<>>
    /\ called' = Append(called, buffers[Len(buffers)])
    /\ buffers' = SubSeq(buffers, 1, Len(buffers) - 1)
    /\ UNCHANGED <<cpc, queue, owner, network>>

\* HasContinuousPacketCall(*buffer)
Call ==
    /\ cpc = "call"
    /\ buffers # <<>>
    /\ called' = Append(called, Head(buffers))
    /\ buffers' = Tail(buffers)
    /\ UNCHANGED <<cpc, queue, owner, network>>

CallsDone == buffers = <<>> /\ Move("call", "loop")

Consumer == \/ TestRunning \/ WaitEmpty \/ Relock \/ PopOne
            \/ PopReturns \/ Call \/ CallsDone

--------------------------------------------------------------------------------
(* The destructor.  It does not notify the consumer.                       *)

\* StopInvoke, CloseInvoke
CloseTimer ==
    /\ life = "running"
    /\ life' = "closing"
    /\ timer_on' = FALSE
    /\ UNCHANGED <<queue, cpc, buffers, called, running, network>>

\* running_ = false
StopRunning ==
    /\ life = "closing"
    /\ running
    /\ running' = FALSE
    /\ UNCHANGED <<queue, cpc, buffers, called, timer_on, life, network>>

\* thread_->join()
Join ==
    /\ life = "closing"
    /\ ~running
    /\ cpc = "exit"
    /\ life' = "joined"
    /\ UNCHANGED <<queue, cpc, buffers, called, timer_on, running, network>>

Next ==
    \/ \E p \in Packets : Push(p)
    \/ OnTimer
    \/ Consumer
    \/ SpuriousWakeup
    \/ CloseTimer \/ StopRunning \/ Join

\* The timer and the threads run; the network and the owner may do nothing.
Spec ==
    /\ Init /\ [][Next]_vars
    /\ WF_vars(OnTimer)
    /\ WF_vars(Consumer)
    /\ WF_vars(StopRunning \/ Join)

--------------------------------------------------------------------------------
(* Properties                                                              *)

\* Every variable has the type its member, or the thread that owns it, gives it.
TypeOK ==
    /\ DOMAIN packet_map \subseteq Nat
    /\ \A k \in DOMAIN packet_map : packet_map[k] \in Packets
    /\ is_start \in BOOLEAN
    /\ cycle \in Nat
    /\ max_seq \in 0 .. SeqMod - 1
    /\ waite_pop_seq \in Nat
    /\ cpc \in {"loop", "wait_empty", "wait_disorder", "woken", "pop", "call", "exit"}
    /\ buffers \in Seq(Packets)
    /\ called \in Seq(Packets)
    /\ timer_on \in BOOLEAN
    /\ running \in BOOLEAN
    /\ life \in {"running", "closing", "joined"}
    /\ handed \in [Packets -> Nat]
    /\ newest \in Packets \cup {NoPacket}

\* HasContinuousPacketCall gets the sender's packets in the sender's order,
\* from the first one on, each once, whatever the wrap counting in Push and
\* the hand-over between the threads do.
InOrder == \A i \in 1 .. Len(called) : Position(called[i]) = i - 1

Arrived == {p \in Packets : handed[p] > 0}

\* No packet handed to ReceiveRtpPacket gets lost between the map, the popped
\* vector and the callback: it is in one of the three at every moment.
NothingLost ==
    Arrived = {packet_map[k] : k \in DOMAIN packet_map}
                \cup {buffers[i] : i \in 1 .. Len(buffers)}
                \cup {called[i] : i \in 1 .. Len(called)}

\* Push files a packet under the number of the one it really is, so that a
\* large sequence number never stands for two packets.
FiledRight == \A k \in DOMAIN packet_map : Position(packet_map[k]) = k

\* A packet that was already popped is filed again, below the number Pop waits
\* for.
Stale == \E k \in DOMAIN packet_map : k < waite_pop_seq

\* Once a duplicate of a packet that was already popped is in packet_map_, it
\* stays first in the map and nothing is popped any more: Pop and
\* FindContinuousPacket compare only the first entry, and nothing removes it.
StaleHeadBlocks == [][Stale => Stale' /\ waite_pop_seq' = waite_pop_seq]_vars

\* A packet whose predecessors have all arrived is handed to the callback,
\* although Pop waits on is_disorder_ without a predicate and may miss the
\* notification of Push: the timer repeats it.  (Or the queue is closed.)
ContiguousIsCalled ==
    \A p \in Packets :
        (\A q \in Packets : Position(q) <= Position(p) => q \in Arrived)
            ~> (p \in {called[i] : i \in 1 .. Len(called)} \/ life # "running")

\* When running_ is cleared while the consumer is anywhere but asleep in one of
\* its waits, it hands over what it popped, leaves its loop and is joined.
AwakeConsumerIsJoined ==
    (~running /\ cpc \in {"loop", "woken", "pop", "call", "exit"}) ~> (life = "joined")

\* A packet that arrives after one of the next wrap is filed one wrap too high
\* (Push adds the current cycle_), and from then on the queue never gets past the
\* packet's real position: nothing else is ever filed there.  Only a duplicate
\* can be: a second copy of the packet, or of one with its sequence number.
LateWrapStalls ==
    \A k \in DOMAIN packet_map :
        LET p == packet_map[k]
        IN  /\ Position(p) # k
            /\ \A q \in Packets : q.seq = p.seq => handed[q] <= 1
            => waite_pop_seq <= Position(p)

\* A late copy is filed under the number of the packet one wrap after it, and is
\* called in its place; emplace then drops the packet itself.  That takes a copy:
\* whatever the order, a packet is called out of its place only if one with its
\* sequence number was handed over twice.
OnlyCopiesAreMisplaced ==
    \A i \in 1 .. Len(called) :
        Position(called[i]) = i - 1
            \/ \E q \in Packets : q.seq = called[i].seq /\ handed[q] > 1

\* The queue keeps the promise of InOrderDelivery.
Delivery == INSTANCE InOrderDelivery WITH
    Positions <- {Position(p) : p \in Packets},
    received <- {Position(p) : p \in Arrived},
    delivered <- [i \in 1 .. Len(called) |-> Position(called[i])],
    open <- life = "running"

DeliversInOrder == Delivery!Spec
================================================================================
