--------------------------- MODULE PacketQueueProofs ---------------------------
(***************************************************************************)
(* Proofs about PacketQueue, for every value of its constants.             *)
(*                                                                         *)
(*   IInv   when no packet arrives after one of the next wrap: the packets *)
(*          reach the callback in order, from the first one on, each once, *)
(*          and none is lost                                               *)
(*   LInv   when one may: where the packets are filed, and how often       *)
(***************************************************************************)
EXTENDS PacketQueue, WellFoundedInduction, TLAPS

\* Push's wrap counting agrees with the newest packet the network handed over.
Counted ==
    IF newest = NoPacket
    THEN is_start /\ cycle = 0
    ELSE ~is_start /\ cycle = newest.cycle /\ max_seq = newest.seq

\* What was popped continues what was called, and Pop waits for what follows.
Contiguous ==
    /\ InOrder
    /\ \A i \in 1 .. Len(buffers) : Position(buffers[i]) = Len(called) + i - 1
    /\ waite_pop_seq = Len(called) + Len(buffers)

\* The inductive invariant.
IInv == TypeOK /\ Counted /\ FiledRight /\ Contiguous

--------------------------------------------------------------------------------

\* NoPacket, the value of newest before the first packet, is no packet.
LEMMA NoPacketIsNone == NoPacket \notin Packets
BY PacketsAssumption, SeqModAssumption DEF NoPacket

\* A packet's fields are the naturals the queue calculates with.
LEMMA PacketFields ==
    ASSUME NEW p \in Packets
    PROVE  p.cycle \in Nat /\ p.seq \in 0 .. SeqMod - 1 /\ Position(p) \in Nat
BY PacketsAssumption, SeqModAssumption DEF Position

\* Half of the 16-bit range is enough to tell every skew the network allows.
LEMMA HalfBound == Half \in Nat /\ 2 * Half <= SeqMod - 1 /\ SeqMod <= 2 * Half + 2
BY SeqModAssumption DEF Half

\* IsLargeSeq and the wrap counter of Push (callback_queue_thread.h:23-39,
\* 72-78): whatever order the network allows, the newest packet is counted into
\* the wrap it was sent in and becomes the one to compare with; any other is
\* counted into the wrap of the newest, which is one too high if it is late.
LEMMA Counts ==
    ASSUME TypeOK, Counted, NEW p \in Packets, InReach(p)
    PROVE  /\ NextCycle(p.seq) = p.cycle \/ (LateWrap /\ NextCycle(p.seq) = p.cycle + 1)
           /\ Newer(p) => /\ NextCycle(p.seq) = p.cycle
                          /\ IsLargeSeq(Against(p.seq), p.seq) \/ Against(p.seq) = p.seq
           /\ ~Newer(p) => /\ ~IsLargeSeq(Against(p.seq), p.seq)
                           /\ NextCycle(p.seq) = cycle /\ ~is_start
<1> USE HalfBound, SeqModAssumption, MaxSkewAssumption
<1>0. p.cycle \in Nat /\ p.seq \in 0 .. SeqMod - 1
  BY PacketFields
<1>1. CASE newest = NoPacket
  <2>1. Against(p.seq) = p.seq /\ cycle = 0 /\ Newer(p)
    BY <1>1 DEF Counted, Against, Newer
  <2>2. p.cycle = 0
    BY <1>1 DEF InReach
  <2>3. ~HasRouting(p.seq, p.seq)
    BY <1>0 DEF HasRouting
  <2>4. QED
    BY <2>1, <2>2, <2>3 DEF NextCycle
<1>2. CASE newest # NoPacket
  <2>1. newest \in Packets /\ Against(p.seq) = newest.seq
        /\ cycle = newest.cycle /\ ~is_start
    BY <1>2 DEF TypeOK, Counted, Against
  <2>2. newest.cycle \in Nat /\ newest.seq \in 0 .. SeqMod - 1
    BY <2>1, PacketFields
  <2>3. CASE p.cycle = newest.cycle
    BY <1>0, <1>2, <2>1, <2>2, <2>3
       DEF InReach, Newer, NextCycle, HasRouting, IsLargeSeq
  <2>4. CASE p.cycle = newest.cycle + 1
    <3>1. SeqMod + p.seq <= newest.seq + MaxSkew
      BY <1>0, <1>2, <2>1, <2>2, <2>4 DEF InReach
    <3>2. QED
      BY <1>0, <1>2, <2>1, <2>2, <2>4, <3>1 DEF Newer, NextCycle, HasRouting, IsLargeSeq
  <2>5. CASE p.cycle # newest.cycle /\ p.cycle # newest.cycle + 1
    <3>1. LateWrap /\ newest.cycle = p.cycle + 1 /\ SeqMod + newest.seq <= p.seq + MaxSkew
      BY <1>0, <1>2, <2>1, <2>2, <2>5 DEF InReach
    <3>2. ~Newer(p)
      BY <1>0, <1>2, <2>2, <3>1 DEF Newer
    <3>3. ~IsLargeSeq(newest.seq, p.seq) /\ ~HasRouting(newest.seq, p.seq)
      BY <1>0, <2>2, <3>1 DEF HasRouting, IsLargeSeq
    <3>4. QED
      BY <2>1, <3>1, <3>2, <3>3 DEF NextCycle
  <2>6. QED
    BY <2>3, <2>4, <2>5
<1>3. QED
  BY <1>1, <1>2

\* Init establishes the invariant: nothing arrived, nothing popped.
LEMMA InitIInv == Init => IInv
<1> SUFFICES ASSUME Init PROVE IInv
  OBVIOUS
<1> USE DEF Init
<1>1. TypeOK
  BY SeqModAssumption DEF TypeOK
<1>2. Counted
  BY DEF Counted
<1>3. FiledRight
  BY DEF FiledRight
<1>4. Contiguous
  BY DEF Contiguous, InOrder
<1>5. QED
  BY <1>1, <1>2, <1>3, <1>4 DEF IInv

\* Push counts its packet, whether it is late or not.
LEMMA PushCounts ==
    ASSUME TypeOK, Counted, NEW p \in Packets, Push(p)
    PROVE  TypeOK' /\ Counted'
<1>1. p.cycle \in Nat /\ p.seq \in 0 .. SeqMod - 1 /\ NextCycle(p.seq) \in Nat
      /\ LargeSeq(p.seq) \in Nat
  <2>1. p.cycle \in Nat /\ p.seq \in 0 .. SeqMod - 1
    BY PacketFields
  <2>2. NextCycle(p.seq) \in Nat
    BY <2>1, Counts DEF Push, HandOver
  <2>3. QED
    BY <2>1, <2>2, SeqModAssumption DEF LargeSeq
<1>2. TypeOK'
  <2>1. DOMAIN packet_map' = DOMAIN packet_map \cup {LargeSeq(p.seq)}
    BY DEF Push, Emplace
  <2>2. \A k \in DOMAIN packet_map' : packet_map'[k] \in Packets
    BY DEF Push, Emplace, TypeOK
  <2>3. Against(p.seq) \in 0 .. SeqMod - 1
    BY <1>1 DEF Against, TypeOK
  <2>4. max_seq' \in 0 .. SeqMod - 1
    BY <1>1, <2>3 DEF Push
  <2>5. cycle' \in Nat
    BY <1>1 DEF Push
  <2>6. handed' \in [Packets -> Nat] /\ newest' \in Packets \cup {NoPacket}
    BY DEF Push, HandOver, TypeOK
  <2>7. cpc' \in {"loop", "wait_empty", "wait_disorder", "woken", "pop", "call", "exit"}
    BY DEF Push, NotifyDisorder, TypeOK
  <2>8. QED
    BY <1>1, <2>1, <2>2, <2>4, <2>5, <2>6, <2>7 DEF Push, TypeOK, owner
<1>3. Counted'
  <2>1. newest' # NoPacket
    BY NoPacketIsNone DEF Push, HandOver, Newer
  <2>2. ~is_start' /\ cycle' = NextCycle(p.seq)
    BY DEF Push
  <2>3. CASE Newer(p)
    <3>1. newest' = p
      BY <2>3 DEF Push, HandOver
    <3>2. max_seq' = p.seq /\ NextCycle(p.seq) = p.cycle
      BY <2>3, Counts DEF Push, HandOver
    <3>3. QED
      BY <2>1, <2>2, <3>1, <3>2 DEF Counted
  <2>4. CASE ~Newer(p)
    <3>1. newest' = newest /\ newest # NoPacket
      BY <2>4 DEF Push, HandOver, Newer
    <3>2. ~IsLargeSeq(Against(p.seq), p.seq) /\ NextCycle(p.seq) = cycle /\ ~is_start
      BY <2>4, Counts DEF Push, HandOver
    <3>3. max_seq' = max_seq
      BY <3>2 DEF Push, Against
    <3>4. QED
      BY <2>1, <2>2, <3>1, <3>2, <3>3 DEF Counted
  <2>5. QED
    BY <2>3, <2>4
<1>4. QED
  BY <1>2, <1>3

\* The steps that push nothing keep the types and the count.
LEMMA TypesStay ==
    ASSUME TypeOK, Counted, [Next]_vars
    PROVE  TypeOK' /\ Counted'
<1>1. CASE \E p \in Packets : Push(p)
  BY <1>1, PushCounts
<1>2. CASE PopOne
  <2>1. waite_pop_seq \in DOMAIN packet_map /\ packet_map[waite_pop_seq] \in Packets
    BY <1>2 DEF PopOne, HeadIsDue, TypeOK
  <2>2. TypeOK'
    BY <1>2, <2>1 DEF PopOne, TypeOK, owner, network
  <2>3. QED
    BY <1>2, <2>2 DEF Counted, PopOne, network
<1>3. CASE Call
  <2>1. Head(buffers) \in Packets /\ Tail(buffers) \in Seq(Packets)
    BY <1>3 DEF Call, TypeOK
  <2>2. TypeOK'
    BY <1>3, <2>1 DEF Call, TypeOK, queue, owner, network
  <2>3. QED
    BY <1>3, <2>2 DEF Counted, Call, queue, network
<1>4. CASE \/ OnTimer \/ TestRunning \/ WaitEmpty \/ Relock \/ PopReturns
           \/ CallsDone \/ SpuriousWakeup \/ CloseTimer \/ StopRunning \/ Join
           \/ UNCHANGED vars
  <2>1. UNCHANGED <<queue, buffers, called, network>>
    BY <1>4 DEF OnTimer, TestRunning, WaitEmpty, Relock, PopReturns, CallsDone,
         SpuriousWakeup, CloseTimer, StopRunning, Join, Move, vars, queue, network
  <2>2. TypeOK'
    <3>1. /\ cpc' \in {"loop", "wait_empty", "wait_disorder", "woken", "pop", "call", "exit"}
          /\ timer_on' \in BOOLEAN /\ running' \in BOOLEAN /\ life' \in {"running", "closing", "joined"}
      BY <1>4 DEF TypeOK, owner, NotifyDisorder,
           OnTimer, TestRunning, WaitEmpty, Relock, PopReturns, CallsDone,
           SpuriousWakeup, CloseTimer, StopRunning, Join, Move, vars
    <3> QED
      BY <2>1, <3>1 DEF TypeOK, queue, network
  <2>3. QED
    BY <2>1, <2>2 DEF Counted, queue, network
<1>5. QED
  BY <1>1, <1>2, <1>3, <1>4 DEF Next, Consumer

\* Push (callback_queue_thread.h:65-85) keeps the invariant.
LEMMA PushIInv ==
    ASSUME LateWrap = FALSE, IInv, NEW p \in Packets, Push(p)
    PROVE  IInv'
<1> USE DEF IInv
<1>1. NextCycle(p.seq) = p.cycle
  BY Counts DEF Push, HandOver
<1>2. LargeSeq(p.seq) = Position(p)
  BY <1>1 DEF LargeSeq, Position
<1>3. TypeOK' /\ Counted'
  BY PushCounts
<1>4. FiledRight'
  BY <1>2 DEF FiledRight, Push, Emplace, Position
<1>5. Contiguous'
  BY DEF Contiguous, InOrder, Position, Push
<1>6. QED
  BY <1>3, <1>4, <1>5

\* The loop of Pop (callback_queue_thread.h:101-109) moves the packet waited
\* for, which is the one that continues what was popped.
LEMMA PopOneIInv ==
    ASSUME IInv, PopOne
    PROVE  IInv'
<1> USE DEF IInv
<1>1. waite_pop_seq \in DOMAIN packet_map /\ waite_pop_seq \in Nat
  BY DEF PopOne, HeadIsDue, TypeOK
<1>2. packet_map[waite_pop_seq] \in Packets
      /\ Position(packet_map[waite_pop_seq]) = waite_pop_seq
  BY <1>1 DEF TypeOK, FiledRight
<1>3. buffers \in Seq(Packets) /\ called \in Seq(Packets)
  BY DEF TypeOK
<1>4. TypeOK' /\ Counted'
  BY TypesStay DEF Next, Consumer
<1>6. FiledRight'
  BY DEF FiledRight, PopOne, Position
<1>7. Contiguous'
  <2>1. InOrder'
    BY DEF Contiguous, InOrder, PopOne, Position
  <2>2. Len(buffers') = Len(buffers) + 1 /\ waite_pop_seq' = Len(called) + Len(buffers')
    BY <1>2, <1>3 DEF Contiguous, PopOne
  <2>3. ASSUME NEW i \in 1 .. Len(buffers')
        PROVE  Position(buffers'[i]) = Len(called) + i - 1
    BY <1>2, <1>3, <2>2 DEF Contiguous, PopOne
  <2>4. QED
    BY <2>1, <2>2, <2>3 DEF Contiguous, PopOne, Position
<1>8. QED
  BY <1>4, <1>6, <1>7

\* HasContinuousPacketCall (callback_queue_thread.cpp:49-56) gets the first
\* packet of the popped vector, the one that continues what it was given.
LEMMA CallIInv ==
    ASSUME IInv, Call
    PROVE  IInv'
<1> USE DEF IInv
<1>1. buffers \in Seq(Packets) /\ called \in Seq(Packets) /\ buffers # <<>>
  BY DEF TypeOK, Call
<1>2. Head(buffers) = buffers[1] /\ Head(buffers) \in Packets /\ Len(buffers) \in Nat \ {0}
  BY <1>1
<1>3. TypeOK' /\ Counted'
  BY TypesStay DEF Next, Consumer
<1>4. FiledRight'
  BY DEF FiledRight, Call, queue, Position
<1>5. Contiguous'
  <2>1. /\ called' = Append(called, buffers[1]) /\ buffers' = Tail(buffers)
        /\ Len(called') = Len(called) + 1 /\ Len(buffers') = Len(buffers) - 1
    BY <1>1, <1>2 DEF Call
  <2>2. Position(buffers[1]) = Len(called)
    <3>1. 1 \in 1 .. Len(buffers) /\ Len(called) \in Nat
      BY <1>1, <1>2
    <3>2. Position(buffers[1]) = Len(called) + 1 - 1
      BY <3>1 DEF Contiguous
    <3> QED
      BY <3>1, <3>2
  <2>3. ASSUME NEW i \in 1 .. Len(called')
        PROVE  Position(called'[i]) = i - 1
    BY <1>1, <2>1, <2>2 DEF Contiguous, InOrder
  <2>4. ASSUME NEW i \in 1 .. Len(buffers')
        PROVE  Position(buffers'[i]) = Len(called') + i - 1
    <3>1. buffers'[i] = buffers[i + 1] /\ i + 1 \in 1 .. Len(buffers)
      BY <1>1, <1>2, <2>1
    <3>2. QED
      BY <1>1, <2>1, <3>1 DEF Contiguous
  <2>5. waite_pop_seq' = Len(called') + Len(buffers')
    BY <1>1, <1>2, <2>1 DEF Contiguous, Call, queue
  <2>6. QED
    BY <2>3, <2>4, <2>5 DEF Contiguous, InOrder, Position
<1>6. QED
  BY <1>3, <1>4, <1>5

\* A step of the consumer that moves no packet, of the timer or of the
\* destructor disturbs none of the conjuncts but the type of its own variables.
LEMMA OtherIInv ==
    ASSUME IInv,
           \/ OnTimer \/ TestRunning \/ WaitEmpty \/ Relock \/ PopReturns
           \/ CallsDone \/ SpuriousWakeup \/ CloseTimer \/ StopRunning \/ Join
           \/ UNCHANGED vars
    PROVE  IInv'
<1>1. UNCHANGED <<queue, buffers, called, network>>
  BY DEF OnTimer, TestRunning, WaitEmpty, Relock, PopReturns, CallsDone,
         SpuriousWakeup, CloseTimer, StopRunning, Join, Move, vars, queue, network
<1>2. TypeOK' /\ Counted'
  BY TypesStay DEF IInv, Next, Consumer
<1>3. FiledRight' /\ Contiguous'
  BY <1>1 DEF IInv, FiledRight, Contiguous, InOrder, Position, queue, network
<1>4. QED
  BY <1>2, <1>3 DEF IInv

\* Every step keeps the invariant.
LEMMA NextIInv ==
    ASSUME LateWrap = FALSE, IInv, [Next]_vars
    PROVE  IInv'
<1>1. CASE \E p \in Packets : Push(p)
  BY <1>1, PushIInv
<1>2. CASE PopOne
  BY <1>2, PopOneIInv
<1>3. CASE Call
  BY <1>3, CallIInv
<1>4. QED
  BY <1>1, <1>2, <1>3, OtherIInv DEF Next, Consumer

\* Every reachable state satisfies the invariant, on a network that may lose,
\* duplicate and reorder packets within a wrap.
THEOREM Invariance ==
    ASSUME LateWrap = FALSE
    PROVE  Spec => []IInv
<1>1. Init => IInv
  BY InitIInv
<1>2. IInv /\ [Next]_vars => IInv'
  BY NextIInv
<1>3. QED
  BY <1>1, <1>2, PTL DEF Spec

\* The variables keep their types, and the wrap count stays that of the newest
\* packet, on any network.
LEMMA CountInvariance == Spec => [](TypeOK /\ Counted)
<1>1. Init => TypeOK /\ Counted
  BY InitIInv DEF IInv
<1>2. TypeOK /\ Counted /\ [Next]_vars => (TypeOK /\ Counted)'
  BY TypesStay
<1>3. QED
  BY <1>1, <1>2, PTL DEF Spec

\* The variables keep their types.
THEOREM TypeCorrect == Spec => []TypeOK
BY CountInvariance, PTL

\* HasContinuousPacketCall gets the packets in the sender's order, from the
\* first one on, each once.
THEOREM CalledInOrder ==
    ASSUME LateWrap = FALSE
    PROVE  Spec => []InOrder
<1>1. IInv => InOrder
  BY DEF IInv, Contiguous
<1>2. QED
  BY <1>1, Invariance, PTL

\* Push files every packet under its own number.
THEOREM NumberedRight ==
    ASSUME LateWrap = FALSE
    PROVE  Spec => []FiledRight
<1>1. IInv => FiledRight
  BY DEF IInv
<1>2. QED
  BY <1>1, Invariance, PTL

--------------------------------------------------------------------------------
(* No packet is lost inside the queue.                                     *)

\* Packets of different wraps are at different positions.
LEMMA WrapsApart ==
    ASSUME NEW c \in Nat, NEW d \in Nat, c < d,
           NEW s \in 0 .. SeqMod - 1, NEW t \in 0 .. SeqMod - 1
    PROVE  c * SeqMod + s < d * SeqMod + t
<1> DEFINE e == d - c - 1
<1>1. e \in Nat /\ d = c + 1 + e
  OBVIOUS
<1>2. d * SeqMod = c * SeqMod + SeqMod + e * SeqMod
  BY <1>1, SeqModAssumption
<1>3. e * SeqMod \in Nat /\ c * SeqMod \in Nat
  BY <1>1, SeqModAssumption
<1>4. QED
  BY <1>2, <1>3, SeqModAssumption

\* A packet is its position.
LEMMA PositionInjective ==
    ASSUME NEW p \in Packets, NEW q \in Packets, Position(p) = Position(q)
    PROVE  p = q
<1>1. /\ p.cycle \in Nat /\ p.seq \in 0 .. SeqMod - 1
      /\ q.cycle \in Nat /\ q.seq \in 0 .. SeqMod - 1
  BY PacketFields
<1>2. p.cycle * SeqMod \in Nat /\ q.cycle * SeqMod \in Nat
  BY <1>1, SeqModAssumption
<1>3. ~(p.cycle < q.cycle) /\ ~(q.cycle < p.cycle)
  BY <1>1, <1>2, WrapsApart, SeqModAssumption DEF Position
<1>4. p.cycle = q.cycle /\ p.seq = q.seq
  BY <1>1, <1>2, <1>3, SeqModAssumption DEF Position
<1>5. QED
  BY <1>4, PacketsAssumption

\* The packets of the map, of the popped vector and of the callback.
Filed == {packet_map[k] : k \in DOMAIN packet_map}
Popped == {buffers[i] : i \in 1 .. Len(buffers)}
Called == {called[i] : i \in 1 .. Len(called)}

\* emplace drops a packet only when its number is taken, and then by itself.
LEMMA PushLosesNothing ==
    ASSUME LateWrap = FALSE, IInv, NothingLost, NEW p \in Packets, Push(p)
    PROVE  NothingLost'
<1>1. LargeSeq(p.seq) = Position(p)
  BY Counts DEF IInv, LargeSeq, Position, Push, HandOver
<1>2. Arrived' = Arrived \cup {p}
  BY DEF IInv, TypeOK, Arrived, Push, HandOver
<1>3. DOMAIN packet_map' = DOMAIN packet_map \cup {Position(p)}
      /\ \A k \in DOMAIN packet_map : packet_map'[k] = packet_map[k]
  BY <1>1 DEF Push, Emplace
<1>4. packet_map'[Position(p)] = p
  <2>1. CASE Position(p) \in DOMAIN packet_map
    <3>1. packet_map[Position(p)] \in Packets
          /\ Position(packet_map[Position(p)]) = Position(p)
      BY <2>1 DEF IInv, TypeOK, FiledRight
    <3>2. QED
      BY <2>1, <3>1, <1>3, PositionInjective
  <2>2. CASE Position(p) \notin DOMAIN packet_map
    BY <1>1, <2>2 DEF Push, Emplace
  <2>3. QED
    BY <2>1, <2>2
<1>5. Filed' = Filed \cup {p}
  BY <1>3, <1>4 DEF Filed
<1>6. Popped' = Popped /\ Called' = Called
  BY DEF Popped, Called, Push
<1>7. QED
  BY <1>2, <1>5, <1>6 DEF NothingLost, Filed, Popped, Called

\* Popping moves a packet from the map to the vector.
LEMMA PopOneLosesNothing ==
    ASSUME IInv, NothingLost, PopOne
    PROVE  NothingLost'
<1> DEFINE w == waite_pop_seq
<1>1. w \in DOMAIN packet_map /\ buffers \in Seq(Packets) /\ packet_map[w] \in Packets
  BY DEF PopOne, HeadIsDue, IInv, TypeOK
<1>2. Filed' \cup {packet_map[w]} = Filed
  BY <1>1 DEF Filed, PopOne
<1>3. Popped' = Popped \cup {packet_map[w]}
  <2>1. buffers' = Append(buffers, packet_map[w]) /\ Len(buffers') = Len(buffers) + 1
    BY <1>1 DEF PopOne
  <2>2. \A i \in 1 .. Len(buffers) : buffers'[i] = buffers[i]
    BY <1>1, <2>1
  <2>3. buffers'[Len(buffers) + 1] = packet_map[w]
    BY <1>1, <2>1
  <2>4. 1 .. Len(buffers') = (1 .. Len(buffers)) \cup {Len(buffers) + 1}
    BY <1>1, <2>1
  <2>5. QED
    BY <2>2, <2>3, <2>4 DEF Popped
<1>4. Called' = Called /\ Arrived' = Arrived
  BY DEF Called, Arrived, PopOne, network
<1>5. QED
  BY <1>2, <1>3, <1>4 DEF NothingLost, Filed, Popped, Called

\* Calling moves a packet from the vector to the listener.
LEMMA CallLosesNothing ==
    ASSUME IInv, NothingLost, Call
    PROVE  NothingLost'
<1> DEFINE b == buffers[1]
<1>1. buffers \in Seq(Packets) /\ called \in Seq(Packets) /\ buffers # <<>>
  BY DEF IInv, TypeOK, Call
<1>2. /\ called' = Append(called, b) /\ buffers' = Tail(buffers)
      /\ Len(buffers) \in Nat \ {0} /\ Len(called) \in Nat /\ b \in Packets
  BY <1>1 DEF Call
<1>3. Called' = Called \cup {b}
  <2>1. \A i \in 1 .. Len(called) : called'[i] = called[i]
    BY <1>1, <1>2
  <2>2. called'[Len(called) + 1] = b
    BY <1>1, <1>2
  <2>3. 1 .. Len(called') = (1 .. Len(called)) \cup {Len(called) + 1}
    BY <1>1, <1>2
  <2>4. QED
    BY <2>1, <2>2, <2>3 DEF Called
<1>4. Popped = Popped' \cup {b}
  <2>1. Len(buffers') = Len(buffers) - 1
    BY <1>1, <1>2
  <2>2. \A i \in 1 .. Len(buffers') : buffers'[i] = buffers[i + 1] /\ i + 1 \in 1 .. Len(buffers)
    BY <1>1, <1>2, <2>1
  <2>3. \A j \in 1 .. Len(buffers) : j = 1 \/ (j - 1 \in 1 .. Len(buffers') /\ buffers'[j - 1] = buffers[j])
    BY <1>1, <1>2, <2>1, <2>2
  <2>4. QED
    BY <1>2, <2>2, <2>3 DEF Popped
<1>5. Filed' = Filed /\ Arrived' = Arrived
  BY DEF Filed, Arrived, Call, queue, network
<1>6. QED
  BY <1>3, <1>4, <1>5 DEF NothingLost, Filed, Popped, Called

\* No packet given to ReceiveRtpPacket is lost between the map, the popped
\* vector and the callback.
THEOREM KeepsEverything ==
    ASSUME LateWrap = FALSE
    PROVE  Spec => []NothingLost
<1>1. Init => NothingLost
  BY DEF Init, NothingLost, Arrived
<1>2. IInv /\ NothingLost /\ [Next]_vars => NothingLost'
  <2> SUFFICES ASSUME IInv, NothingLost, [Next]_vars
               PROVE  NothingLost'
    OBVIOUS
  <2>1. CASE \E p \in Packets : Push(p)
    BY <2>1, PushLosesNothing
  <2>2. CASE PopOne
    BY <2>2, PopOneLosesNothing
  <2>3. CASE Call
    BY <2>3, CallLosesNothing
  <2>4. CASE UNCHANGED <<packet_map, buffers, called, handed>>
    BY <2>4 DEF NothingLost, Arrived
  <2>5. QED
    BY <2>1, <2>2, <2>3, <2>4
       DEF Next, Consumer, OnTimer, TestRunning, WaitEmpty, Relock, PopReturns,
           CallsDone, SpuriousWakeup, CloseTimer, StopRunning, Join, Move, vars,
           queue, network
<1>3. QED
  BY <1>1, <1>2, Invariance, PTL DEF Spec

--------------------------------------------------------------------------------
(* PacketQueue implements the safety part of InOrderDelivery.              *)

\* What the listener saw, as positions.
Delivered == [i \in 1 .. Len(called) |-> Position(called[i])]

\* Handing over p adds its position to the positions received.
LEMMA ReceiveStep ==
    ASSUME IInv, NEW p \in Packets, Push(p)
    PROVE  Delivery!Receive(Position(p))
<1>1. called' = called /\ life' = life
  BY DEF Push, owner
<1>2. Arrived' = Arrived \cup {p}
  BY DEF IInv, TypeOK, Arrived, Push, HandOver
<1>3. {Position(q) : q \in Arrived'} = {Position(q) : q \in Arrived} \cup {Position(p)}
  BY <1>2
<1>4. QED
  BY <1>1, <1>3 DEF Delivery!Receive, Position

\* A call delivers the position that follows those delivered.
LEMMA DeliverStep ==
    ASSUME IInv, Call, \A i \in 1 .. Len(buffers) : buffers[i] \in Arrived
    PROVE  Delivery!Deliver
<1>1. buffers \in Seq(Packets) /\ called \in Seq(Packets) /\ buffers # <<>>
  BY DEF IInv, TypeOK, Call
<1>2. Head(buffers) = buffers[1] /\ Len(buffers) \in Nat \ {0} /\ Len(called) \in Nat
  BY <1>1
<1>3. Position(buffers[1]) = Len(called) /\ buffers[1] \in Arrived
  BY <1>2 DEF IInv, Contiguous
<1>4. called' = Append(called, buffers[1]) /\ life' = life /\ Arrived' = Arrived
  BY <1>2 DEF Call, owner, network, Arrived
<1>5. Len(Delivered) = Len(called)
  BY <1>2 DEF Delivered
<1>6. Delivered' = Append(Delivered, Len(called))
  BY <1>1, <1>2, <1>3, <1>4 DEF Delivered, Position
<1>7. QED
  BY <1>3, <1>4, <1>5, <1>6 DEF Delivery!Deliver, Delivered, Position

\* The destructor's first step closes the promise; no other step can be seen.
LEMMA OtherStep ==
    ASSUME \/ OnTimer \/ TestRunning \/ WaitEmpty \/ Relock \/ PopOne \/ PopReturns
           \/ CallsDone \/ SpuriousWakeup \/ CloseTimer \/ StopRunning \/ Join
           \/ UNCHANGED vars
    PROVE  Delivery!Close \/ UNCHANGED Delivery!vars
<1>1. called' = called /\ handed' = handed
  BY DEF OnTimer, TestRunning, WaitEmpty, Relock, PopOne, PopReturns, CallsDone,
         SpuriousWakeup, CloseTimer, StopRunning, Join, Move, vars, network
<1>2. Arrived' = Arrived
  BY <1>1 DEF Arrived
<1>3. (life = "running")' = FALSE \/ life' = life
  BY DEF OnTimer, TestRunning, WaitEmpty, Relock, PopOne, PopReturns, CallsDone,
         SpuriousWakeup, CloseTimer, StopRunning, Join, Move, vars, owner
<1>4. QED
  BY <1>1, <1>2, <1>3 DEF Delivery!Close, Delivery!vars, Position

\* PacketQueue implements InOrderDelivery, fairness aside: the code's threads,
\* its wait without a predicate and its rebuilt sequence numbers show the
\* listener nothing that the simple queue of InOrderDelivery does not.
THEOREM ImplementsInOrderDelivery ==
    ASSUME LateWrap = FALSE
    PROVE  Spec => Delivery!Safe
<1>1. Init => Delivery!Init
  BY DEF Init, Delivery!Init, Arrived
<1>2. IInv /\ NothingLost /\ [Next]_vars => [Delivery!Next]_(Delivery!vars)
  <2> SUFFICES ASSUME IInv, NothingLost, [Next]_vars
               PROVE  Delivery!Next \/ UNCHANGED Delivery!vars
    OBVIOUS
  <2>1. CASE \E p \in Packets : Push(p)
    BY <2>1, ReceiveStep DEF Delivery!Next
  <2>2. CASE Call
    BY <2>2, DeliverStep DEF Delivery!Next, NothingLost
  <2>3. CASE ~((\E p \in Packets : Push(p)) \/ Call)
    BY <2>3, OtherStep DEF Delivery!Next, Next, Consumer
  <2>4. QED
    BY <2>1, <2>2, <2>3
<1>3. QED
  BY <1>1, <1>2, Invariance, KeepsEverything, PTL DEF Spec, Delivery!Safe

--------------------------------------------------------------------------------
(* Packets that are late: after a pop of a number, after one of the next wrap *)

\* Once a stale packet heads the map, no step pops or removes anything.
THEOREM StaleHeadStays == Spec => StaleHeadBlocks
<1>1. TypeOK /\ [Next]_vars => [Stale => Stale' /\ waite_pop_seq' = waite_pop_seq]_vars
  <2> SUFFICES ASSUME TypeOK, Next, Stale
               PROVE  Stale' /\ waite_pop_seq' = waite_pop_seq
    OBVIOUS
  <2>1. PICK k \in DOMAIN packet_map : k < waite_pop_seq
    BY DEF Stale
  <2>2. ~HeadIsDue(packet_map)
    BY <2>1 DEF HeadIsDue, TypeOK
  <2>3. waite_pop_seq' = waite_pop_seq /\ DOMAIN packet_map \subseteq DOMAIN packet_map'
    <3>1. CASE \E p \in Packets : Push(p)
      BY <3>1 DEF Push, Emplace
    <3>2. CASE PopOne
      BY <2>2, <3>2 DEF PopOne
    <3>3. CASE UNCHANGED queue
      BY <3>3 DEF queue
    <3>4. QED
      BY <3>1, <3>2, <3>3
         DEF Next, Consumer, OnTimer, TestRunning, WaitEmpty, Relock, PopReturns, Call,
             CallsDone, SpuriousWakeup, CloseTimer, StopRunning, Join, Move
  <2>4. QED
    BY <2>1, <2>3 DEF Stale
<1>2. QED
  BY <1>1, TypeCorrect, PTL DEF Spec, StaleHeadBlocks

\* The packet popped under number n
Line(n) == IF n < Len(called) THEN called[n + 1] ELSE buffers[n - Len(called) + 1]

\* x was filed under number n, and is still there or was popped from there.
Holds(x, n) ==
    \/ n \in 0 .. waite_pop_seq - 1 /\ Line(n) = x
    \/ n \in DOMAIN packet_map /\ packet_map[n] = x

\* Every packet popped or filed has been handed over, and is under its own number
\* or one wrap above it; one handed over once is under one number.
LInv ==
    /\ waite_pop_seq = Len(called) + Len(buffers)
    /\ \A n \in Nat : \A x :
          Holds(x, n) => /\ x \in Packets /\ handed[x] > 0
                         /\ n = Position(x) \/ n = Position(x) + SeqMod
    /\ \A m, n \in Nat : \A x : Holds(x, m) /\ Holds(x, n) /\ handed[x] = 1 => m = n

\* If every packet is still held by the numbers that held it, only p may be new,
\* under its number or one wrap above, and only p is handed over, LInv stays.
LEMMA LInvPush ==
    ASSUME TypeOK, Counted, LInv, NEW p \in Packets, Push(p)
    PROVE  LInv'
<1>1. UNCHANGED <<called, buffers, waite_pop_seq>> /\ handed' = [handed EXCEPT ![p] = @ + 1]
  BY DEF Push, HandOver
<1>2. \A n : Line(n)' = Line(n)
  BY <1>1 DEF Line
<1>3. LargeSeq(p.seq) = Position(p) \/ LargeSeq(p.seq) = Position(p) + SeqMod
  <2>1. NextCycle(p.seq) = p.cycle \/ NextCycle(p.seq) = p.cycle + 1
    BY Counts DEF Push, HandOver
  <2>2. p.cycle \in Nat /\ p.seq \in 0 .. SeqMod - 1
    BY PacketFields
  <2>3. (p.cycle + 1) * SeqMod + p.seq = p.cycle * SeqMod + p.seq + SeqMod
    BY <2>2, SeqModAssumption
  <2>4. QED
    BY <2>1, <2>3 DEF LargeSeq, Position
<1>4. \A n, x : Holds(x, n)' => Holds(x, n) \/ (x = p /\ n = LargeSeq(p.seq))
  <2>1. packet_map' = Emplace(packet_map, LargeSeq(p.seq), p)
    BY DEF Push
  <2> DEFINE q == LargeSeq(p.seq)
  <2>2. packet_map' = [i \in DOMAIN packet_map \cup {q} |->
                          IF i \in DOMAIN packet_map THEN packet_map[i] ELSE p]
    BY <2>1 DEF Emplace
  <2> HIDE DEF q
  <2>3. QED
    BY <1>1, <1>2, <2>2 DEF Holds, q
<1>5. handed \in [Packets -> Nat]
  BY DEF TypeOK
<1>6. ASSUME NEW n \in Nat, NEW x, Holds(x, n)'
      PROVE  x \in Packets /\ handed'[x] > 0 /\ (n = Position(x) \/ n = Position(x) + SeqMod)
  BY <1>1, <1>3, <1>4, <1>5, <1>6 DEF LInv
<1>7. ASSUME NEW m \in Nat, NEW n \in Nat, NEW x, Holds(x, m)', Holds(x, n)', handed'[x] = 1
      PROVE  m = n
  <2>1. CASE x = p
    <3>1. handed[p] = 0
      BY <1>1, <1>5, <1>7, <2>1
    <3>2. ~Holds(p, m) /\ ~Holds(p, n)
      BY <1>5, <3>1 DEF LInv
    <3>3. QED
      BY <1>4, <1>7, <2>1, <3>2
  <2>2. CASE x # p
    <3>1. Holds(x, m) /\ Holds(x, n)
      BY <1>4, <1>7, <2>2
    <3>2. x \in Packets
      BY <3>1 DEF LInv
    <3>3. handed[x] = 1
      BY <1>1, <1>5, <1>7, <2>2, <3>2
    <3>4. QED
      BY <3>1, <3>3 DEF LInv
  <2>3. QED
    BY <2>1, <2>2
<1>8. waite_pop_seq' = Len(called') + Len(buffers')
  BY <1>1 DEF LInv
<1>9. /\ \A n \in Nat : \A x :
             Holds(x, n)' => /\ x \in Packets /\ handed'[x] > 0
                             /\ n = Position(x) \/ n = Position(x) + SeqMod
      /\ \A m, n \in Nat : \A x : Holds(x, m)' /\ Holds(x, n)' /\ handed'[x] = 1 => m = n
  BY <1>6, <1>7
<1>10. QED
  BY <1>8, <1>9 DEF LInv, Position

\* A step that hands over nothing and files nothing keeps LInv.
LEMMA LInvOther ==
    ASSUME LInv, waite_pop_seq' = Len(called') + Len(buffers'), handed' = handed,
           \A n \in Nat : \A x : Holds(x, n)' => Holds(x, n)
    PROVE  LInv'
<1>1. /\ \A n \in Nat : \A x :
             Holds(x, n)' => /\ x \in Packets /\ handed'[x] > 0
                             /\ n = Position(x) \/ n = Position(x) + SeqMod
      /\ \A m, n \in Nat : \A x : Holds(x, m)' /\ Holds(x, n)' /\ handed'[x] = 1 => m = n
  BY DEF LInv
<1>2. QED
  BY <1>1 DEF LInv, Position

LEMMA LInvNext ==
    ASSUME TypeOK, Counted, LInv, [Next]_vars
    PROVE  LInv'
<1>1. buffers \in Seq(Packets) /\ called \in Seq(Packets) /\ DOMAIN packet_map \subseteq Nat
      /\ Len(buffers) \in Nat /\ Len(called) \in Nat /\ waite_pop_seq = Len(called) + Len(buffers)
  BY DEF TypeOK, LInv
<1>2. CASE \E p \in Packets : Push(p)
  BY <1>2, LInvPush
<1>3. CASE PopOne
  <2> SUFFICES ASSUME NEW w \in Nat, w = waite_pop_seq, NEW p, p = packet_map[w]
               PROVE  LInv'
    BY DEF TypeOK
  <2>1. w \in DOMAIN packet_map /\ p \in Packets
    BY <1>3 DEF PopOne, HeadIsDue, TypeOK
  <2>2. buffers' = Append(buffers, p) /\ called' = called /\ waite_pop_seq' = w + 1 /\ handed' = handed
        /\ packet_map' = [k \in DOMAIN packet_map \ {w} |-> packet_map[k]]
    BY <1>3 DEF PopOne, network
  <2>3. Len(buffers') = Len(buffers) + 1 /\ buffers'[Len(buffers) + 1] = p
        /\ \A i \in 1 .. Len(buffers) : buffers'[i] = buffers[i]
    BY <1>1, <2>1, <2>2
  <2>4. ASSUME NEW n \in 0 .. w - 1 PROVE Line(n)' = Line(n)
    BY <1>1, <2>2, <2>3 DEF Line
  <2>5. Line(w)' = p
    BY <1>1, <2>2, <2>3 DEF Line
  <2>6. ASSUME NEW n \in Nat, NEW x, Holds(x, n)' PROVE Holds(x, n)
    <3>1. CASE n \in 0 .. waite_pop_seq' - 1 /\ Line(n)' = x
      <4>1. n \in 0 .. w - 1 \/ n = w
        BY <1>1, <2>2, <3>1
      <4>2. QED
        BY <2>1, <2>4, <2>5, <3>1, <4>1 DEF Holds
    <3>2. CASE n \in DOMAIN packet_map' /\ packet_map'[n] = x
      BY <2>2, <3>2 DEF Holds
    <3>3. QED
      BY <2>6, <3>1, <3>2 DEF Holds
  <2>7. QED
    BY <1>1, <2>2, <2>3, <2>6, LInvOther
<1>4. CASE Call
  <2>1. called' = Append(called, buffers[1]) /\ buffers' = Tail(buffers) /\ buffers # <<>>
        /\ packet_map' = packet_map /\ waite_pop_seq' = waite_pop_seq /\ handed' = handed
    BY <1>4 DEF Call, queue, network
  <2>2. /\ Len(called') = Len(called) + 1 /\ called'[Len(called) + 1] = buffers[1]
        /\ \A i \in 1 .. Len(called) : called'[i] = called[i]
        /\ Len(buffers') = Len(buffers) - 1
        /\ \A i \in 1 .. Len(buffers) - 1 : buffers'[i] = buffers[i + 1]
    BY <1>1, <2>1
  <2>3. ASSUME NEW n \in 0 .. waite_pop_seq - 1 PROVE Line(n)' = Line(n)
    <3>1. CASE n < Len(called)
      BY <1>1, <2>2, <3>1 DEF Line
    <3>2. CASE n = Len(called)
      BY <1>1, <2>2, <3>2 DEF Line
    <3>3. CASE n > Len(called)
      <4>1. Line(n)' = buffers'[n - (Len(called) + 1) + 1]
        BY <1>1, <2>2, <3>3 DEF Line
      <4>2. n - (Len(called) + 1) + 1 \in 1 .. Len(buffers) - 1
        BY <1>1, <3>3
      <4>3. QED
        BY <1>1, <2>2, <3>3, <4>1, <4>2 DEF Line
    <3>4. QED
      BY <1>1, <3>1, <3>2, <3>3
  <2>4. \A n \in Nat : \A x : Holds(x, n)' => Holds(x, n)
    BY <2>1, <2>3 DEF Holds
  <2>5. QED
    BY <1>1, <2>1, <2>2, <2>4, LInvOther
<1>5. CASE UNCHANGED <<queue, buffers, called, network>>
  <2>1. \A n \in Nat : \A x : Holds(x, n)' => Holds(x, n)
    BY <1>5 DEF Holds, Line, queue
  <2>2. QED
    BY <1>1, <1>5, <2>1, LInvOther DEF queue, network
<1>6. QED
  BY <1>2, <1>3, <1>4, <1>5
     DEF Next, Consumer, OnTimer, TestRunning, WaitEmpty, Relock, PopReturns,
         CallsDone, SpuriousWakeup, CloseTimer, StopRunning, Join, Move, vars, queue, network

LEMMA LInvariance == Spec => [](TypeOK /\ Counted /\ LInv)
<1>1. Init => LInv
  <2> SUFFICES ASSUME Init PROVE LInv
    OBVIOUS
  <2>1. waite_pop_seq = 0 /\ DOMAIN packet_map = {} /\ called = <<>> /\ buffers = <<>>
    BY DEF Init
  <2>2. \A n, x : ~Holds(x, n)
    BY <2>1 DEF Holds
  <2>3. QED
    BY <2>1, <2>2 DEF LInv
<1>2. TypeOK /\ Counted /\ LInv /\ [Next]_vars => LInv'
  BY LInvNext
<1>3. QED
  BY <1>1, <1>2, CountInvariance, PTL DEF Spec

\* A set of numbers that holds 0, and n + 1 with every n, holds them all.
LEMMA Induction ==
    ASSUME NEW S, 0 \in S, \A n \in Nat : n \in S => n + 1 \in S
    PROVE  Nat \subseteq S
<1> SUFFICES ASSUME Nat \ S # {} PROVE FALSE
  OBVIOUS
<1> DEFINE T == Nat \ S
<1>1. T \subseteq Nat /\ T # {}
  OBVIOUS
<1> HIDE DEF T
<1>2. PICK m \in T : \A x \in T : ~(<<x, m>> \in OpToRel(<, Nat))
  BY <1>1, NatLessThanWellFounded, WFMin
<1>3. m \in Nat \ {0} /\ m \notin S
  BY DEF T
<1>4. m - 1 \notin S
  BY <1>3
<1>5. m - 1 \in T /\ m - 1 < m
  BY <1>3, <1>4 DEF T
<1>6. <<m - 1, m>> \in OpToRel(<, Nat)
  BY <1>3, <1>5 DEF OpToRel
<1>7. QED
  BY <1>2, <1>5, <1>6

\* If no packet numbered s was handed over twice, those that were popped in the
\* place of one, wrap after wrap, are where they belong.
LEMMA LineIsRight ==
    ASSUME TypeOK, LInv, NEW s \in 0 .. SeqMod - 1,
           \A q \in Packets : q.seq = s => handed[q] <= 1
    PROVE  \A c \in Nat : c * SeqMod + s < waite_pop_seq
                              => Position(Line(c * SeqMod + s)) = c * SeqMod + s
<1> DEFINE at(c) == c * SeqMod + s
           S == {c \in Nat : at(c) < waite_pop_seq => Position(Line(at(c))) = at(c)}
<1>1. waite_pop_seq \in Nat /\ handed \in [Packets -> Nat]
  BY DEF TypeOK
<1>2. ASSUME NEW n \in Nat, n < waite_pop_seq
      PROVE  /\ Holds(Line(n), n) /\ Line(n) \in Packets /\ handed[Line(n)] > 0
             /\ n = Position(Line(n)) \/ n = Position(Line(n)) + SeqMod
  <2>1. Holds(Line(n), n)
    BY <1>1, <1>2 DEF Holds
  <2>2. QED
    BY <2>1 DEF LInv
<1>3. 0 \in S
  <2>1. at(0) = s /\ s \in Nat /\ s < SeqMod
    BY SeqModAssumption
  <2>2. ASSUME s < waite_pop_seq PROVE Position(Line(s)) = s
    <3>1. Line(s) \in Packets /\ (s = Position(Line(s)) \/ s = Position(Line(s)) + SeqMod)
      BY <1>2, <2>1, <2>2
    <3>2. Position(Line(s)) \in Nat
      BY <3>1, PacketFields
    <3>3. QED
      BY <2>1, <3>1, <3>2, SeqModAssumption
  <2>3. QED
    BY <2>1, <2>2
<1>4. ASSUME NEW c \in Nat, c \in S PROVE c + 1 \in S
  <2> SUFFICES ASSUME at(c + 1) < waite_pop_seq PROVE Position(Line(at(c + 1))) = at(c + 1)
    OBVIOUS
  <2> SUFFICES ASSUME NEW m, m = at(c), NEW n, n = at(c + 1)
               PROVE  Position(Line(n)) = n
    OBVIOUS
  <2>1. c * SeqMod \in Nat /\ (c + 1) * SeqMod = c * SeqMod + SeqMod
    BY SeqModAssumption
  <2>2. m \in Nat /\ n \in Nat /\ n = m + SeqMod /\ m < n /\ n < waite_pop_seq /\ m < waite_pop_seq
    BY <1>1, <2>1, SeqModAssumption
  <2>3. /\ Holds(Line(n), n) /\ Line(n) \in Packets /\ handed[Line(n)] > 0
        /\ n = Position(Line(n)) \/ n = Position(Line(n)) + SeqMod
    BY <1>2, <2>2
  <2>4. Holds(Line(m), m) /\ Line(m) \in Packets /\ Position(Line(m)) = m
    BY <1>2, <1>4, <2>2
  <2> HIDE DEF at, S
  <2>5. ASSUME n = Position(Line(n)) + SeqMod PROVE FALSE
    <3>1. Position(Line(n)) = m
      <4>1. Position(Line(n)) \in Nat
        BY <2>3, PacketFields
      <4>2. QED
        BY <2>2, <2>5, <4>1, SeqModAssumption
    <3>2. Line(n) = Line(m)
      BY <2>3, <2>4, <3>1, PositionInjective
    <3>3. Line(n).seq = s
      <4>1. Line(n).cycle \in Nat /\ Line(n).seq \in 0 .. SeqMod - 1
        BY <2>3, PacketFields
      <4>2. Line(n).cycle * SeqMod + Line(n).seq = c * SeqMod + s
        BY <3>1 DEF Position, at
      <4>3. ~(Line(n).cycle < c) /\ ~(c < Line(n).cycle)
        BY <4>1, <4>2, WrapsApart, SeqModAssumption
      <4>4. Line(n).cycle = c
        BY <4>1, <4>3
      <4>5. c * SeqMod + Line(n).seq = c * SeqMod + s
        BY <4>2, <4>4
      <4>6. QED
        BY <2>1, <4>1, <4>5
    <3>4. handed[Line(n)] = 1
      BY <1>1, <2>3, <3>3
    <3>5. m = n
      BY <2>2, <2>3, <2>4, <3>2, <3>4 DEF LInv
    <3>6. QED
      BY <2>2, <3>5
  <2>6. QED
    BY <2>3, <2>5
<1>5. Nat \subseteq S
  <2> HIDE DEF S
  <2>1. QED
    BY <1>3, <1>4, Induction
<1>6. QED
  BY <1>5

\* A packet that is filed one wrap too high holds up the queue at its own number,
\* unless a packet with its sequence number was handed over twice.
THEOREM LateWrapHoldsUp == Spec => []LateWrapStalls
<1>1. ASSUME TypeOK, LInv PROVE LateWrapStalls
  <2> SUFFICES ASSUME NEW k \in DOMAIN packet_map, NEW p, p = packet_map[k], Position(p) # k,
                      \A q \in Packets : q.seq = p.seq => handed[q] <= 1
               PROVE  waite_pop_seq <= Position(p)
    BY DEF LateWrapStalls
  <2>1. p \in Packets /\ k \in Nat /\ waite_pop_seq \in Nat /\ handed \in [Packets -> Nat]
    BY <1>1 DEF TypeOK
  <2>2. Holds(p, k)
    BY DEF Holds
  <2>3. handed[p] = 1
    BY <1>1, <2>1, <2>2 DEF LInv
  <2>4. p.cycle \in Nat /\ p.seq \in 0 .. SeqMod - 1 /\ Position(p) \in Nat
    BY <2>1, PacketFields
  <2> SUFFICES ASSUME NEW n \in Nat, n = Position(p), n < waite_pop_seq PROVE FALSE
    BY <2>1, <2>4
  <2>5. Position(Line(n)) = n
    <3>1. n = p.cycle * SeqMod + p.seq
      BY DEF Position
    <3>2. QED
      BY <1>1, <2>4, <3>1, LineIsRight
  <2>6. Holds(Line(n), n) /\ Line(n) \in Packets
    <3>1. Holds(Line(n), n)
      BY <2>1 DEF Holds
    <3>2. QED
      BY <1>1, <3>1 DEF LInv
  <2>7. Line(n) = p
    BY <2>1, <2>5, <2>6, PositionInjective
  <2>8. n = k
    BY <1>1, <2>1, <2>2, <2>3, <2>6, <2>7 DEF LInv
  <2>9. QED
    BY <2>8
<1>2. QED
  BY <1>1, LInvariance, PTL

\* A packet is called in the place of another only if one with its sequence number
\* was handed over twice.
THEOREM CopiesAreMisplaced == Spec => []OnlyCopiesAreMisplaced
<1>1. ASSUME TypeOK, LInv PROVE OnlyCopiesAreMisplaced
  <2> SUFFICES ASSUME NEW i \in 1 .. Len(called), NEW p, p = called[i], NEW n, n = i - 1,
                      \A q \in Packets : q.seq = p.seq => ~(handed[q] > 1)
               PROVE  Position(p) = n
    BY DEF OnlyCopiesAreMisplaced
  <2>1. /\ p \in Packets /\ called \in Seq(Packets) /\ handed \in [Packets -> Nat]
        /\ Len(called) \in Nat /\ Len(buffers) \in Nat
    BY <1>1 DEF TypeOK
  <2>2. /\ n \in Nat /\ n + 1 = i /\ n < Len(called) /\ n < waite_pop_seq
        /\ waite_pop_seq \in Nat
    BY <1>1, <2>1 DEF LInv
  <2>3. Line(n) = p
    BY <2>2 DEF Line
  <2>4. Holds(p, n)
    BY <2>2, <2>3 DEF Holds
  <2>5. n = Position(p) \/ n = Position(p) + SeqMod
    BY <1>1, <2>2, <2>4 DEF LInv
  <2>6. p.cycle \in Nat /\ p.seq \in 0 .. SeqMod - 1
    BY <2>1, PacketFields
  <2>7. \A q \in Packets : q.seq = p.seq => handed[q] <= 1
    BY <2>1
  <2>8. \E c \in Nat : n = c * SeqMod + p.seq
    <3>1. (p.cycle + 1) * SeqMod + p.seq = p.cycle * SeqMod + p.seq + SeqMod
      BY <2>6, SeqModAssumption
    <3>2. n = p.cycle * SeqMod + p.seq \/ n = (p.cycle + 1) * SeqMod + p.seq
      BY <2>5, <3>1 DEF Position
    <3>3. QED
      BY <2>6, <3>2
  <2>9. Position(Line(n)) = n
    BY <1>1, <2>2, <2>6, <2>7, <2>8, LineIsRight
  <2>10. QED
    BY <2>3, <2>9
<1>2. QED
  BY <1>1, LInvariance, PTL

================================================================================
