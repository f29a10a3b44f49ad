--------------------------- MODULE RtcTransportProofs ---------------------------
(***************************************************************************)
(* Proofs about RtcTransport, for any threads, ssrcs and number of calls   *)
(* and packets: no stream is used that is not built or no longer whole, no *)
(* timer outlives its NackGenerator, and no stream leaks.                  *)
(***************************************************************************)
EXTENDS RtcTransport, SequenceTheorems, TLAPS

Waiting == {"await_init", "await_close"}

\* What the network thread was posted, in whatever order
Pending == {tasks[t] : t \in 1 .. Len(tasks)}

\* thread_mutex_ is held from the lookup of a call to its return.
Owner == \A a \in Apps : pc[a] \in {"locked"} \cup Waiting => mutex = a

\* The network thread holds a stream only while it delivers.
Held == held # None <=> loop = "deliver"

\* A stream is registered under its own ssrc, hence under one.
Mapped == \A s \in Receivers : ssrc_of[rtp_receive_streams[s]] = s

\* A stream is half-built only while an application waits to register it.
Built ==
    \A i \in Streams : stream[i] = "building" =>
        /\ \E a \in Apps :
            /\ pc[a] = "await_init" /\ call[a].ssrc = ssrc_of[i]
            /\ ssrc_of[i] \notin Receivers
            /\ timer[i] = "open" \/ [op |-> "Init", of |-> i, by |-> a] \in Pending
        /\ \A j \in Streams : stream[j] = "building" => j = i

\* A stream is half-destroyed only while its last owner waits.
Destroyed ==
    \A i \in Streams : stream[i] = "dying" =>
        \/ loop = "await_itself"
        \/ \E a \in Apps :
            /\ pc[a] = "await_close" /\ call[a].ssrc = ssrc_of[i]
            /\ timer[i] = "closed" \/ [op |-> "Close", of |-> i, by |-> a] \in Pending

\* A task is on a stream that its poster, who waits, builds or destroys.
Posted ==
    \A t \in Pending :
        \/ /\ t.by = Loop /\ loop = "await_itself" /\ stream[t.of] = "dying"
        \/ /\ t.by \in Apps /\ pc[t.by] = "await_init"
           /\ t.op = "Init" /\ stream[t.of] = "building"
        \/ /\ t.by \in Apps /\ pc[t.by] = "await_close"
           /\ t.op = "Close" /\ stream[t.of] = "dying"

\* An application that waits while the network thread is past the first lock is
\* not answered: the network thread runs no task before it is through.
Unanswered ==
    \A a \in Apps :
        pc[a] \in Waiting /\ loop \in {"find_receiver", "deliver", "await_itself"} =>
            \E t \in Pending : t.by = a

Gone == \A i \in Streams : stream[i] = "dead" => timer[i] = "closed"

IInv ==
    /\ TypeOK /\ Owner /\ Held /\ Mapped /\ Built /\ Destroyed /\ Posted /\ Unanswered
    /\ Gone /\ ReachableIsReady /\ LiveIsReferenced

--------------------------------------------------------------------------------
\* What posting and running a task does to Pending.
LEMMA PostTask ==
    ASSUME tasks \in Seq(Task), NEW t \in Task, tasks' = Append(tasks, t)
    PROVE  tasks' \in Seq(Task) /\ Pending' = Pending \cup {t}
<1>1. /\ tasks' \in Seq(Task)
      /\ Len(tasks') = Len(tasks) + 1
      /\ \A i \in 1 .. Len(tasks) : tasks'[i] = tasks[i]
      /\ tasks'[Len(tasks) + 1] = t
      /\ Len(tasks) \in Nat
  BY AppendProperties, LenProperties
<1>2. 1 .. Len(tasks) + 1 = (1 .. Len(tasks)) \cup {Len(tasks) + 1}
  BY <1>1
<1> QED
  BY <1>1, <1>2 DEF Pending

LEMMA TakeTask ==
    ASSUME tasks \in Seq(Task), tasks # <<>>, tasks' = Tail(tasks)
    PROVE  /\ tasks' \in Seq(Task)
           /\ Head(tasks) \in Task /\ Head(tasks) \in Pending
           /\ Pending' \subseteq Pending
           /\ Pending \subseteq Pending' \cup {Head(tasks)}
<1>1. /\ tasks' \in Seq(Task) /\ Head(tasks) \in Task
      /\ Len(tasks) \in Nat /\ Len(tasks) >= 1 /\ Len(tasks') = Len(tasks) - 1
      /\ Head(tasks) = tasks[1]
      /\ \A i \in 1 .. Len(tasks') : tasks'[i] = tasks[i + 1]
  BY HeadTailProperties, EmptySeq, LenProperties
<1>2. Head(tasks) \in Pending
  BY <1>1 DEF Pending
<1>3. Pending' \subseteq Pending
  <2>1. ASSUME NEW i \in 1 .. Len(tasks') PROVE tasks'[i] \in Pending
    <3>1. i + 1 \in 1 .. Len(tasks)
      BY <1>1
    <3> QED
      BY <1>1, <3>1 DEF Pending
  <2> QED
    BY <2>1 DEF Pending
<1>4. Pending \subseteq Pending' \cup {Head(tasks)}
  <2>1. ASSUME NEW i \in 1 .. Len(tasks), i # 1 PROVE tasks[i] \in Pending'
    <3>1. i - 1 \in 1 .. Len(tasks') /\ (i - 1) + 1 = i
      BY <1>1, <2>1
    <3>2. tasks'[i - 1] = tasks[i]
      BY <1>1, <3>1
    <3> QED
      BY <3>1, <3>2 DEF Pending
  <2> QED
    BY <1>1, <2>1 DEF Pending
<1> QED
  BY <1>1, <1>2, <1>3, <1>4

\* An answered application finds no task left, and the network thread neither
\* holding a stream nor destroying one.
LEMMA AnsweredIsAlone ==
    ASSUME IInv, NEW a \in Apps, pc[a] \in Waiting, Answered(a)
    PROVE  /\ Pending = {}
           /\ loop \notin {"find_receiver", "deliver", "await_itself"}
           /\ held = None
<1>1. \A t \in Pending : t.by # a
  BY DEF Answered, Pending
<1>2. loop \notin {"find_receiver", "deliver", "await_itself"}
  BY <1>1 DEF IInv, Unanswered
<1>3. ASSUME NEW t \in Pending PROVE FALSE
  <2>1. t.by \in Apps /\ pc[t.by] \in Waiting
    BY <1>2, <1>3 DEF IInv, Posted, Waiting
  <2>2. mutex = t.by /\ mutex = a
    BY <2>1 DEF IInv, Owner
  <2> QED
    BY <1>1, <2>2
<1> QED
  BY <1>2, <1>3 DEF IInv, Held

--------------------------------------------------------------------------------
LEMMA InitEstablishes == Init => IInv
<1> SUFFICES ASSUME Init PROVE IInv
  OBVIOUS
<1> USE DEF Init
<1>1. Pending = {} /\ tasks \in Seq(Task)
  BY DEF Pending
<1>2. Receivers = {} /\ Registered = {}
  BY DEF Receivers, Registered
<1>3. TypeOK
  BY <1>1, <1>2 DEF TypeOK, NoCall
<1>4. /\ Owner /\ Held /\ Mapped /\ Built /\ Destroyed /\ Posted /\ Unanswered
      /\ Gone /\ ReachableIsReady /\ LiveIsReferenced
  BY <1>1, <1>2 DEF Owner, Held, Mapped, Built, Destroyed, Posted, Unanswered, Waiting,
     Gone, ReachableIsReady, LiveIsReferenced
<1> QED
  BY <1>3, <1>4 DEF IInv

\* What a return from under the mutex keeps: it is the only thread there.
LEMMA ReturnKeepsOwner ==
    ASSUME IInv, NEW a \in Apps, pc[a] \in {"locked"} \cup Waiting, Return(a)
    PROVE  /\ Owner'
           /\ pc' \in [Apps -> {"idle", "lock", "locked", "await_init", "await_close"}]
           /\ call' \in [Apps -> [op : Ops \cup {NoCall.op}, ssrc : Ssrcs \cup {None}]]
           /\ \A b \in Apps : pc'[b] # "idle" => call'[b].ssrc \in Ssrcs
           /\ mutex' \in Apps \cup {None}
           /\ \A b \in Apps : pc[b] \in {"locked"} \cup Waiting => b = a
           /\ \A b \in Apps : pc'[b] \notin {"locked"} \cup Waiting
<1> USE DEF IInv, TypeOK, Owner, Return, Waiting
<1>1. \A b \in Apps : pc[b] \in {"locked"} \cup Waiting => b = a
  OBVIOUS
<1>2. \A b \in Apps : pc'[b] \notin {"locked"} \cup Waiting
  BY <1>1
<1>3. NoCall \in [op : Ops \cup {NoCall.op}, ssrc : Ssrcs \cup {None}]
  BY DEF NoCall
<1> QED
  BY <1>1, <1>2, <1>3

\* A call that looks into the maps, or changes the sending streams, and returns
LEMMA PlainCall ==
    ASSUME IInv, NEW a \in Apps, pc[a] = "locked", Return(a),
           rtp_send_streams' \subseteq Ssrcs,
           UNCHANGED <<rtp_receive_streams, streams, tasks, network>>
    PROVE  IInv'
<1> USE DEF IInv, streams, network
<1>1. TypeOK' /\ Owner'
  BY ReturnKeepsOwner DEF TypeOK, Receivers, Registered
<1>2. Pending' = Pending /\ Receivers' = Receivers /\ Registered' = Registered
  BY DEF Pending, Receivers, Registered
<1>3. \A b \in Apps : pc[b] \notin Waiting
  BY DEF Owner, Waiting
<1>4. \A i \in Streams : stream[i] # "building"
  BY <1>3 DEF Built, Waiting
<1>5. Built' /\ Destroyed'
  BY <1>3, <1>4 DEF Built, Destroyed, Waiting
<1>6. Posted' /\ Unanswered'
  BY <1>2, <1>3, ReturnKeepsOwner DEF Posted, Unanswered, Waiting
<1>7. Held' /\ Mapped' /\ Gone' /\ ReachableIsReady' /\ LiveIsReferenced'
  BY <1>2 DEF Held, Mapped, Gone, ReachableIsReady, LiveIsReferenced
<1> QED
  BY <1>1, <1>5, <1>6, <1>7

\* Before the mutex: only pc and call of an application that waits for nobody
LEMMA BeforeTheMutex ==
    ASSUME IInv, NEW a \in Apps,
           Lock(a) \/ \E op \in Ops, s \in Ssrcs : Call(a, op, s)
    PROVE  IInv'
<1> USE DEF IInv
<1>1. /\ pc[a] \in {"idle", "lock"} /\ pc'[a] \in {"lock", "locked"}
      /\ \A b \in Apps \ {a} : pc'[b] = pc[b] /\ call'[b] = call[b]
      /\ pc' \in [Apps -> {"idle", "lock", "locked", "await_init", "await_close"}]
      /\ mutex' = mutex \/ (mutex = None /\ mutex' = a)
      /\ pc'[a] = "locked" => mutex' = a
      /\ UNCHANGED <<maps, streams, tasks, network>>
  BY DEF Lock, Call, TypeOK
<1>2. /\ call' \in [Apps -> [op : Ops \cup {NoCall.op}, ssrc : Ssrcs \cup {None}]]
      /\ call'[a].ssrc \in Ssrcs
  <2>1. CASE Lock(a)
    BY <2>1 DEF Lock, TypeOK
  <2>2. ASSUME NEW op \in Ops, NEW s \in Ssrcs, Call(a, op, s)
        PROVE  /\ call' \in [Apps -> [op : Ops \cup {NoCall.op}, ssrc : Ssrcs \cup {None}]]
               /\ call'[a].ssrc \in Ssrcs
    BY <2>2 DEF Call, TypeOK
  <2> QED
    BY <2>1, <2>2
<1>3. Pending' = Pending /\ Receivers' = Receivers /\ Registered' = Registered
  BY <1>1 DEF Pending, Receivers, Registered, maps
<1>4. TypeOK'
  BY <1>1, <1>2 DEF TypeOK, Receivers, Registered, maps, streams, network
<1>5. Owner'
  BY <1>1, ThreadsAssumption DEF Owner, Waiting
<1>6. \A b \in Apps : pc[b] \in Waiting => b # a /\ pc'[b] = pc[b] /\ call'[b] = call[b]
  BY <1>1 DEF Waiting
<1>9. Built'
  <2> SUFFICES ASSUME NEW i \in Streams, stream[i] = "building"
               PROVE  /\ \E b \in Apps :
                          /\ pc'[b] = "await_init" /\ call'[b].ssrc = ssrc_of[i]
                          /\ ssrc_of[i] \notin Receivers
                          /\ timer[i] = "open" \/ [op |-> "Init", of |-> i, by |-> b] \in Pending
                      /\ \A j \in Streams : stream[j] = "building" => j = i
    BY <1>1, <1>3 DEF Built, streams
  <2> QED
    BY <1>6 DEF Built, Waiting
<1>10. Destroyed'
  BY <1>1, <1>3, <1>6 DEF Destroyed, Waiting, streams, network
<1>7. Posted' /\ Unanswered'
  BY <1>1, <1>3 DEF Posted, Unanswered, Waiting, streams, network
<1>8. Held' /\ Mapped' /\ Gone' /\ ReachableIsReady' /\ LiveIsReferenced'
  BY <1>1, <1>3 DEF Held, Mapped, Gone, ReachableIsReady, LiveIsReferenced, maps, streams, network
<1> QED
  BY <1>4, <1>5, <1>7, <1>8, <1>9, <1>10

\* CreateReceiver: the new stream is the only one under construction.
LEMMA CreateReceiverPreserves ==
    ASSUME IInv, NEW a \in Apps, CreateReceiver(a)
    PROVE  IInv'
<1> USE DEF IInv
<1> DEFINE s == call[a].ssrc
<1>1. PICK i \in Streams :
        /\ stream[i] = "free"
        /\ stream' = [stream EXCEPT ![i] = "building"]
        /\ ssrc_of' = [ssrc_of EXCEPT ![i] = s]
        /\ tasks' = Append(tasks, [op |-> "Init", of |-> i, by |-> a])
  BY DEF CreateReceiver, Post
<1>2. /\ pc[a] = "locked" /\ s \notin Receivers /\ s \in Ssrcs
      /\ pc' = [pc EXCEPT ![a] = "await_init"]
      /\ UNCHANGED <<maps, timer, mutex, call, calls, network>>
  BY DEF CreateReceiver, In, TypeOK
<1>3. [op |-> "Init", of |-> i, by |-> a] \in Task
  BY DEF Task
<1>4. tasks' \in Seq(Task) /\ Pending' = Pending \cup {[op |-> "Init", of |-> i, by |-> a]}
  BY <1>1, <1>3, PostTask DEF TypeOK
<1>5. Receivers' = Receivers /\ Registered' = Registered
  BY <1>2 DEF Receivers, Registered, maps
<1>6. \A b \in Apps : pc[b] \notin Waiting
  BY <1>2 DEF Owner, Waiting
<1>7. \A j \in Streams : stream[j] # "building"
  BY <1>6 DEF Built, Waiting
<1>8. TypeOK'
  BY <1>1, <1>2, <1>4, <1>5 DEF TypeOK, maps, network
<1>9. Owner'
  BY <1>2 DEF Owner, Waiting, TypeOK
<1>10. Built'
  <2>1. /\ pc'[a] = "await_init" /\ call'[a].ssrc = ssrc_of'[i] /\ ssrc_of'[i] \notin Receivers'
        /\ [op |-> "Init", of |-> i, by |-> a] \in Pending'
    BY <1>1, <1>2, <1>4, <1>5 DEF TypeOK
  <2>2. \A j \in Streams : stream'[j] = "building" => j = i
    BY <1>1, <1>7 DEF TypeOK
  <2> QED
    BY <2>1, <2>2 DEF Built
<1>11. Destroyed'
  BY <1>1, <1>2, <1>4, <1>6 DEF Destroyed, Waiting, TypeOK, network
<1>12. Posted'
  <2>1. stream'[i] = "building" /\ pc'[a] = "await_init"
    BY <1>1, <1>2 DEF TypeOK
  <2>2. \A t \in Pending : t.by = Loop /\ loop = "await_itself" /\ stream'[t.of] = "dying"
    BY <1>1, <1>6 DEF Posted, Waiting, TypeOK
  <2> QED
    BY <1>2, <1>4, <2>1, <2>2 DEF Posted, network
<1>13. Unanswered'
  <2>1. \A b \in Apps \ {a} : pc'[b] \notin Waiting
    BY <1>2, <1>6 DEF TypeOK
  <2>2. [op |-> "Init", of |-> i, by |-> a] \in Pending' /\ [op |-> "Init", of |-> i, by |-> a].by = a
    BY <1>4
  <2> QED
    BY <2>1, <2>2 DEF Unanswered
<1>14. Mapped'
  BY <1>1, <1>2, <1>5 DEF Mapped, Registered, ReachableIsReady, TypeOK, maps
<1>15. Held' /\ Gone' /\ ReachableIsReady' /\ LiveIsReferenced'
  BY <1>1, <1>2, <1>5 DEF Held, Gone, ReachableIsReady, LiveIsReferenced, TypeOK, network
<1> QED
  BY <1>8, <1>9, <1>10, <1>11, <1>12, <1>13, <1>14, <1>15

\* Created: the stream is registered with its timer open, and no task is left.
LEMMA CreatedPreserves ==
    ASSUME IInv, NEW a \in Apps, Created(a)
    PROVE  IInv'
<1> USE DEF IInv
<1> DEFINE s == call[a].ssrc
<1>1. PICK i \in Streams :
        /\ stream[i] = "building" /\ ssrc_of[i] = s
        /\ stream' = [stream EXCEPT ![i] = "live"]
        /\ rtp_receive_streams' =
            [x \in Receivers \cup {s} |-> IF x = s THEN i ELSE rtp_receive_streams[x]]
  BY DEF Created
<1>2. /\ pc[a] = "await_init" /\ Answered(a) /\ Return(a)
      /\ UNCHANGED <<rtp_send_streams, ssrc_of, timer, tasks, network>>
  BY DEF Created
<1>3. /\ Pending = {} /\ Pending' = {} /\ held = None
      /\ loop \notin {"find_receiver", "deliver", "await_itself"}
  BY <1>2, AnsweredIsAlone DEF Waiting, Pending
<1>4. s \in Ssrcs /\ s \notin Receivers /\ timer[i] = "open"
  BY <1>1, <1>2, <1>3 DEF Built, TypeOK
<1>5. /\ Receivers' = Receivers \cup {s}
      /\ rtp_receive_streams'[s] = i
      /\ \A x \in Receivers : rtp_receive_streams'[x] = rtp_receive_streams[x]
      /\ Registered' = Registered \cup {i}
  BY <1>1, <1>4 DEF Receivers, Registered
<1>6. TypeOK' /\ Owner'
  BY <1>1, <1>2, <1>4, <1>5, ReturnKeepsOwner DEF TypeOK, Waiting, network
<1>7. Built'
  BY <1>1 DEF Built, TypeOK
<1>8. Destroyed'
  <2>1. \A b \in Apps : pc[b] # "await_close"
    BY <1>2, ReturnKeepsOwner DEF Waiting
  <2> QED
    BY <1>1, <1>3, <2>1 DEF Destroyed, TypeOK
<1>9. Posted' /\ Unanswered'
  BY <1>2, <1>3, ReturnKeepsOwner DEF Posted, Unanswered, Waiting, network
<1>10. Mapped'
  BY <1>1, <1>2, <1>5 DEF Mapped
<1>11. Held' /\ Gone' /\ ReachableIsReady' /\ LiveIsReferenced'
  BY <1>1, <1>2, <1>3, <1>4, <1>5 DEF Held, Gone, ReachableIsReady, LiveIsReferenced, TypeOK, network
<1> QED
  BY <1>6, <1>7, <1>8, <1>9, <1>10, <1>11

\* What Unregister does to the map: the ssrc goes, and with it only its stream.
LEMMA UnregisterOne ==
    ASSUME IInv, NEW a \in Apps, call[a].ssrc \in Receivers, Unregister(a), UNCHANGED ssrc_of
    PROVE  /\ Receivers' = Receivers \ {call[a].ssrc}
           /\ \A x \in Receivers' : rtp_receive_streams'[x] = rtp_receive_streams[x]
           /\ Registered' = Registered \ {rtp_receive_streams[call[a].ssrc]}
           /\ rtp_receive_streams[call[a].ssrc] \in Registered
           /\ Mapped'
<1>1. /\ Receivers' = Receivers \ {call[a].ssrc}
      /\ \A x \in Receivers' : rtp_receive_streams'[x] = rtp_receive_streams[x]
  BY DEF Unregister, Restrict, Receivers
<1>2. \A x \in Receivers : rtp_receive_streams[x] = rtp_receive_streams[call[a].ssrc] => x = call[a].ssrc
  BY DEF IInv, Mapped
<1> QED
  BY <1>1, <1>2 DEF Registered, IInv, Mapped

\* DeleteHeld: the network thread still refers to the stream.
LEMMA DeleteHeldPreserves ==
    ASSUME IInv, NEW a \in Apps, DeleteHeld(a)
    PROVE  IInv'
<1> USE DEF IInv
<1>1. /\ pc[a] = "locked" /\ call[a].ssrc \in Receivers
      /\ held = rtp_receive_streams[call[a].ssrc]
      /\ Unregister(a) /\ Return(a)
      /\ UNCHANGED <<rtp_send_streams, streams, tasks, network>>
  BY DEF DeleteHeld, InReceiversOnly, Deletes, In
<1>2. /\ Receivers' \subseteq Receivers /\ Registered' = Registered \ {held} /\ held \in Registered
      /\ Mapped'
  BY <1>1, UnregisterOne DEF streams
<1>3. TypeOK' /\ Owner'
  BY <1>1, <1>2, ReturnKeepsOwner DEF TypeOK, streams, network
<1>4. \A b \in Apps : pc[b] \notin Waiting
  BY <1>1 DEF Owner, Waiting
<1>5. Built' /\ Destroyed'
  BY <1>1, <1>4 DEF Built, Destroyed, Waiting, streams, network
<1>6. Posted' /\ Unanswered'
  <2>1. Pending' = Pending
    BY <1>1 DEF Pending
  <2> QED
    BY <1>1, <1>4, <2>1, ReturnKeepsOwner DEF Posted, Unanswered, Waiting, streams, network
<1>7. Held' /\ Gone' /\ ReachableIsReady' /\ LiveIsReferenced'
  BY <1>1, <1>2 DEF Held, Gone, ReachableIsReady, LiveIsReferenced, streams, network
<1> QED
  BY <1>2, <1>3, <1>5, <1>6, <1>7

\* DeleteLast: the stream is out of the map before its timer is asked to close.
LEMMA DeleteLastPreserves ==
    ASSUME IInv, NEW a \in Apps, DeleteLast(a)
    PROVE  IInv'
<1> USE DEF IInv
<1> DEFINE s == call[a].ssrc
           i == rtp_receive_streams[s]
           close == [op |-> "Close", of |-> i, by |-> a]
<1>1. /\ pc[a] = "locked" /\ s \in Receivers /\ held # i
      /\ Unregister(a)
      /\ stream' = [stream EXCEPT ![i] = "dying"]
      /\ tasks' = Append(tasks, close)
      /\ pc' = [pc EXCEPT ![a] = "await_close"]
      /\ UNCHANGED <<rtp_send_streams, ssrc_of, timer, mutex, call, calls, network>>
  BY DEF DeleteLast, InReceiversOnly, Deletes, In, Post
<1>2. /\ Receivers' \subseteq Receivers /\ Registered' = Registered \ {i} /\ i \in Registered
      /\ Mapped'
  BY <1>1, UnregisterOne
<1>3. i \in Streams /\ stream[i] = "live" /\ ssrc_of[i] = s
  BY <1>1, <1>2 DEF TypeOK, ReachableIsReady, Mapped
<1>4. close \in Task
  BY <1>3 DEF Task
<1>5. tasks' \in Seq(Task) /\ Pending' = Pending \cup {close}
  BY <1>1, <1>4, PostTask DEF TypeOK
<1>6. \A b \in Apps : pc[b] \notin Waiting
  BY <1>1 DEF Owner, Waiting
<1>7. TypeOK'
  BY <1>1, <1>2, <1>3, <1>5 DEF TypeOK, network
<1>8. Owner'
  BY <1>1 DEF Owner, Waiting, TypeOK
<1>9. Built'
  <2>1. \A j \in Streams : stream'[j] # "building"
    BY <1>1, <1>6 DEF Built, Waiting, TypeOK
  <2> QED
    BY <2>1 DEF Built
<1>10. Destroyed'
  <2>1. pc'[a] = "await_close" /\ close \in Pending'
    BY <1>1, <1>5 DEF TypeOK
  <2>2. \A j \in Streams \ {i} : stream'[j] = "dying" => loop = "await_itself"
    BY <1>1, <1>6 DEF Destroyed, Waiting, TypeOK
  <2> QED
    BY <1>1, <1>3, <2>1, <2>2 DEF Destroyed, network
<1>11. Posted'
  <2>1. stream'[i] = "dying" /\ pc'[a] = "await_close"
    BY <1>1, <1>3 DEF TypeOK
  <2>2. \A t \in Pending : t.by = Loop /\ loop = "await_itself" /\ stream'[t.of] = "dying"
    BY <1>1, <1>3, <1>6 DEF Posted, Waiting, TypeOK
  <2> QED
    BY <1>1, <1>5, <2>1, <2>2 DEF Posted, network
<1>12. Unanswered'
  <2>1. \A b \in Apps \ {a} : pc'[b] \notin Waiting
    BY <1>1, <1>6 DEF TypeOK
  <2>2. close \in Pending' /\ close.by = a
    BY <1>5
  <2> QED
    BY <2>1, <2>2 DEF Unanswered
<1>13. Held' /\ Gone' /\ ReachableIsReady' /\ LiveIsReferenced'
  BY <1>1, <1>2, <1>3 DEF Held, Gone, ReachableIsReady, LiveIsReferenced, TypeOK, network
<1> QED
  BY <1>2, <1>7, <1>8, <1>9, <1>10, <1>11, <1>12, <1>13

\* Deleted: every stream that was being destroyed has its timer closed.
LEMMA DeletedPreserves ==
    ASSUME IInv, NEW a \in Apps, Deleted(a)
    PROVE  IInv'
<1> USE DEF IInv
<1>1. /\ pc[a] = "await_close" /\ Answered(a) /\ Return(a)
      /\ stream' = [i \in Streams |->
            IF stream[i] = "dying" /\ ssrc_of[i] = call[a].ssrc THEN "dead" ELSE stream[i]]
      /\ UNCHANGED <<maps, ssrc_of, timer, tasks, network>>
  BY DEF Deleted
<1>2. /\ Pending = {} /\ Pending' = {} /\ held = None
      /\ loop \notin {"find_receiver", "deliver", "await_itself"}
  BY <1>1, AnsweredIsAlone DEF Waiting, Pending
<1>3. \A b \in Apps : pc[b] \in {"locked"} \cup Waiting => b = a
  BY <1>1, ReturnKeepsOwner DEF Waiting
<1>4. \A i \in Streams : stream[i] = "dying" => ssrc_of[i] = call[a].ssrc /\ timer[i] = "closed"
  BY <1>2, <1>3 DEF Destroyed, Waiting
<1>5. \A i \in Streams : stream[i] # "building"
  BY <1>1, <1>3 DEF Built, Waiting
<1>6. Receivers' = Receivers /\ Registered' = Registered
  BY <1>1 DEF Receivers, Registered, maps
<1>7. TypeOK' /\ Owner'
  <2>1. stream' \in [Streams -> {"free", "building", "live", "dying", "dead"}]
    BY <1>1 DEF TypeOK
  <2> QED
    BY <1>1, <1>6, <2>1, ReturnKeepsOwner DEF TypeOK, Waiting, maps, network
<1>8. Built' /\ Destroyed'
  BY <1>1, <1>4, <1>5 DEF Built, Destroyed
<1>9. Posted' /\ Unanswered'
  BY <1>1, <1>2, ReturnKeepsOwner DEF Posted, Unanswered, Waiting, network
<1>10. Held' /\ Mapped' /\ Gone' /\ ReachableIsReady' /\ LiveIsReferenced'
  BY <1>1, <1>2, <1>4, <1>6 DEF Held, Mapped, Gone, ReachableIsReady, LiveIsReferenced, TypeOK, maps, network
<1> QED
  BY <1>7, <1>8, <1>9, <1>10

\* RunTask changes the timer of a stream that nobody can reach.
LEMMA RunTaskPreserves ==
    ASSUME IInv, RunTask
    PROVE  IInv'
<1> USE DEF IInv
<1> DEFINE t == Head(tasks)
<1>1. /\ loop = "idle" /\ tasks # <<>> /\ tasks' = Tail(tasks)
      /\ timer' = [timer EXCEPT ![t.of] = IF t.op = "Init" THEN "open" ELSE "closed"]
      /\ UNCHANGED <<maps, stream, ssrc_of, mutex, apps, network>>
  BY DEF RunTask
<1>2. /\ tasks' \in Seq(Task) /\ t \in Task /\ t \in Pending
      /\ Pending' \subseteq Pending /\ Pending \subseteq Pending' \cup {t}
  BY <1>1, TakeTask DEF TypeOK
<1>3. /\ t.of \in Streams
      /\ \/ t.op = "Init" /\ stream[t.of] = "building"
         \/ t.op = "Close" /\ stream[t.of] = "dying"
  <2>1. \A u \in Pending :
            \/ u.op = "Init" /\ stream[u.of] = "building"
            \/ u.op = "Close" /\ stream[u.of] = "dying"
    BY <1>1 DEF Posted
  <2>2. t.of \in Streams
    BY <1>2 DEF Task
  <2> QED
    BY <1>2, <2>1, <2>2
<1>4. Receivers' = Receivers /\ Registered' = Registered
  BY <1>1 DEF Receivers, Registered, maps
<1>5. TypeOK' /\ Owner'
  BY <1>1, <1>2, <1>3, <1>4 DEF TypeOK, Owner, maps, apps, network
<1>6. Built'
  <2> SUFFICES ASSUME NEW i \in Streams, stream[i] = "building"
               PROVE  /\ \E b \in Apps :
                          /\ pc[b] = "await_init" /\ call[b].ssrc = ssrc_of[i]
                          /\ ssrc_of[i] \notin Receivers
                          /\ timer'[i] = "open" \/ [op |-> "Init", of |-> i, by |-> b] \in Pending'
                      /\ \A j \in Streams : stream[j] = "building" => j = i
    BY <1>1, <1>4 DEF Built, apps
  <2>1. PICK b \in Apps :
            /\ pc[b] = "await_init" /\ call[b].ssrc = ssrc_of[i] /\ ssrc_of[i] \notin Receivers
            /\ timer[i] = "open" \/ [op |-> "Init", of |-> i, by |-> b] \in Pending
    BY DEF Built
  <2>2. timer'[i] = "open" \/ [op |-> "Init", of |-> i, by |-> b] \in Pending'
    <3>1. CASE timer[i] = "open"
      BY <1>1, <1>3, <3>1 DEF TypeOK
    <3>2. CASE t = [op |-> "Init", of |-> i, by |-> b]
      BY <1>1, <3>2 DEF TypeOK
    <3> QED
      BY <1>2, <2>1, <3>1, <3>2
  <2> QED
    BY <2>1, <2>2 DEF Built
<1>7. Destroyed'
  <2> SUFFICES ASSUME NEW i \in Streams, stream[i] = "dying"
               PROVE  \E b \in Apps :
                          /\ pc[b] = "await_close" /\ call[b].ssrc = ssrc_of[i]
                          /\ timer'[i] = "closed" \/ [op |-> "Close", of |-> i, by |-> b] \in Pending'
    BY <1>1 DEF Destroyed, apps
  <2>1. PICK b \in Apps :
            /\ pc[b] = "await_close" /\ call[b].ssrc = ssrc_of[i]
            /\ timer[i] = "closed" \/ [op |-> "Close", of |-> i, by |-> b] \in Pending
    BY <1>1 DEF Destroyed
  <2>2. timer'[i] = "closed" \/ [op |-> "Close", of |-> i, by |-> b] \in Pending'
    <3>1. CASE timer[i] = "closed"
      BY <1>1, <1>3, <3>1 DEF TypeOK
    <3>2. CASE t = [op |-> "Close", of |-> i, by |-> b]
      BY <1>1, <3>2 DEF TypeOK
    <3> QED
      BY <1>2, <2>1, <3>1, <3>2
  <2> QED
    BY <2>1, <2>2
<1>8. Posted' /\ Unanswered'
  BY <1>1, <1>2 DEF Posted, Unanswered, apps, network
<1>9. Held' /\ Mapped' /\ LiveIsReferenced'
  BY <1>1, <1>4 DEF Held, Mapped, LiveIsReferenced, maps, network
<1>10. Gone' /\ ReachableIsReady'
  BY <1>1, <1>3, <1>4 DEF Gone, ReachableIsReady, TypeOK, network
<1> QED
  BY <1>5, <1>6, <1>7, <1>8, <1>9, <1>10

\* The lookups: the network thread needs the mutex, so nobody waits for it.
LEMMA LookupPreserves ==
    ASSUME IInv,
           (\E s \in Ssrcs : Dispatch(s)) \/ FindSender \/ FindReceiver \/ FindReceiverInEmptyMap
    PROVE  IInv'
<1> USE DEF IInv
<1>1. UNCHANGED <<maps, streams, mutex, tasks, apps>>
  BY DEF Dispatch, FindSender, FindReceiver, FindReceiverInEmptyMap
<1>2. Receivers' = Receivers /\ Registered' = Registered /\ Pending' = Pending
  BY <1>1 DEF Receivers, Registered, Pending, maps
<1>3. /\ loop \notin {"deliver", "await_itself"} /\ held = None
      /\ loop' \in {"find_sender", "find_receiver", "deliver", "crashed"}
      /\ packet' \in Ssrcs \cup {None}
      /\ loop' = "find_sender" \/ mutex = None
      /\ IF loop' = "deliver" THEN held' \in Registered ELSE held' = None
  BY DEF Dispatch, FindSender, FindReceiver, FindReceiverInEmptyMap, TypeOK, Held
<1>4. TypeOK' /\ Owner'
  BY <1>1, <1>2, <1>3 DEF TypeOK, Owner, streams, maps, apps
<1>5. Held'
  BY <1>3, ThreadsAssumption DEF Held, TypeOK
<1>6. mutex = None => \A b \in Apps : pc[b] \notin Waiting
  BY ThreadsAssumption DEF Owner, Waiting
<1>7. Mapped' /\ Built' /\ Gone'
  BY <1>1, <1>2, ZenonT(60) DEF Mapped, Built, Gone, maps, streams, apps
<1>8. Destroyed' /\ Posted'
  BY <1>1, <1>2, <1>3 DEF Destroyed, Posted, streams, apps
<1>9. Unanswered'
  BY <1>1, <1>2, <1>3, <1>6 DEF Unanswered, Waiting, apps
<1>10. ReachableIsReady' /\ LiveIsReferenced'
  <2>1. \A i \in Streams : i # held
    BY <1>3, ThreadsAssumption
  <2>2. {held'} \ {None} \subseteq Registered
    BY <1>3
  <2> QED
    BY <1>1, <1>2, <2>1, <2>2 DEF ReachableIsReady, LiveIsReferenced, streams
<1> QED
  BY <1>4, <1>5, <1>7, <1>8, <1>9, <1>10

\* Deliver: the map still has the stream when the network thread lets go of it.
LEMMA DeliverPreserves ==
    ASSUME IInv, Deliver
    PROVE  IInv'
<1> USE DEF IInv
<1>1. /\ loop = "deliver" /\ held \in Registered
      /\ loop' = "idle" /\ held' = None /\ packet' = None
      /\ UNCHANGED <<maps, streams, mutex, tasks, apps, packets>>
  BY DEF Deliver
<1>2. Receivers' = Receivers /\ Registered' = Registered /\ Pending' = Pending
  BY <1>1 DEF Receivers, Registered, Pending, maps
<1>3. TypeOK' /\ Owner' /\ Held'
  BY <1>1, <1>2 DEF TypeOK, Owner, Held, streams, maps, apps
<1>4. Mapped' /\ Built' /\ Gone'
  BY <1>1, <1>2, ZenonT(60) DEF Mapped, Built, Gone, maps, streams, apps
<1>5. Destroyed' /\ Posted' /\ Unanswered'
  BY <1>1, <1>2 DEF Destroyed, Posted, Unanswered, streams, apps
<1>6. ReachableIsReady' /\ LiveIsReferenced'
  BY <1>1, <1>2 DEF ReachableIsReady, LiveIsReferenced, streams
<1> QED
  BY <1>3, <1>4, <1>5, <1>6

\* DeliverToDeleted: the last reference goes on the network thread.
LEMMA DeliverToDeletedPreserves ==
    ASSUME IInv, DeliverToDeleted
    PROVE  IInv'
<1> USE DEF IInv
<1> DEFINE close == [op |-> "Close", of |-> held, by |-> Loop]
<1>1. /\ loop = "deliver" /\ held \notin Registered
      /\ stream' = [stream EXCEPT ![held] = "dying"]
      /\ tasks' = Append(tasks, close)
      /\ loop' = "await_itself" /\ held' = None /\ packet' = None
      /\ UNCHANGED <<maps, ssrc_of, timer, mutex, apps, packets>>
  BY DEF DeliverToDeleted, Post
<1>2. held \in Streams /\ stream[held] = "live"
  BY <1>1 DEF Held, TypeOK, ReachableIsReady
<1>3. close \in Task
  BY <1>2 DEF Task
<1>4. tasks' \in Seq(Task) /\ Pending' = Pending \cup {close}
  BY <1>1, <1>3, PostTask DEF TypeOK
<1>5. Receivers' = Receivers /\ Registered' = Registered
  BY <1>1 DEF Receivers, Registered, maps
<1>6. TypeOK' /\ Owner' /\ Held'
  BY <1>1, <1>2, <1>4, <1>5 DEF TypeOK, Owner, Held, maps, apps
<1>7. Mapped' /\ Gone'
  BY <1>1, <1>2, <1>5 DEF Mapped, Gone, TypeOK, maps
<1>8. Built'
  <2>1. \A i \in Streams : stream'[i] = "building" <=> stream[i] = "building"
    BY <1>1, <1>2 DEF TypeOK
  <2> QED
    BY <1>1, <1>4, <1>5, <2>1 DEF Built, apps
<1>9. Destroyed'
  BY <1>1 DEF Destroyed
<1>10. Posted'
  <2>1. stream'[held] = "dying"
    BY <1>1, <1>2 DEF TypeOK
  <2>2. \A t \in Pending : stream[t.of] # "live" /\ stream'[t.of] = stream[t.of]
    BY <1>1, <1>2 DEF Posted, TypeOK
  <2> QED
    BY <1>1, <1>4, <2>1, <2>2 DEF Posted, apps
<1>11. Unanswered'
  BY <1>1, <1>4 DEF Unanswered, apps
<1>12. ReachableIsReady' /\ LiveIsReferenced'
  BY <1>1, <1>2, <1>5 DEF ReachableIsReady, LiveIsReferenced, TypeOK
<1> QED
  BY <1>6, <1>7, <1>8, <1>9, <1>10, <1>11, <1>12

--------------------------------------------------------------------------------
LEMMA StepPreserves == IInv /\ [Next]_vars => IInv'
<1> SUFFICES ASSUME IInv, [Next]_vars PROVE IInv'
  OBVIOUS
<1>1. ASSUME NEW a \in Apps, App(a) PROVE IInv'
  <2>1. CASE Lock(a)
    BY <2>1, BeforeTheMutex
  <2>2. CASE CreateFails(a) \/ CreateSender(a) \/ DeleteFromSenders(a) \/ DeleteFails(a) \/ Send(a)
    <3>1. /\ pc[a] = "locked" /\ Return(a)
          /\ UNCHANGED <<rtp_receive_streams, streams, tasks, network>>
      BY <2>2 DEF CreateFails, CreateSender, DeleteFromSenders, DeleteFails, Send, In, Deletes, maps
    <3>2. rtp_send_streams' \subseteq Ssrcs
      BY <2>2, <3>1 DEF CreateFails, CreateSender, DeleteFromSenders, DeleteFails, Send, maps, IInv, TypeOK
    <3> QED
      BY <3>1, <3>2, PlainCall
  <2>3. CASE CreateReceiver(a)
    BY <2>3, CreateReceiverPreserves
  <2>4. CASE Created(a)
    BY <2>4, CreatedPreserves
  <2>5. CASE DeleteHeld(a)
    BY <2>5, DeleteHeldPreserves
  <2>6. CASE DeleteLast(a)
    BY <2>6, DeleteLastPreserves
  <2>7. CASE Deleted(a)
    BY <2>7, DeletedPreserves
  <2> QED
    BY <1>1, <2>1, <2>2, <2>3, <2>4, <2>5, <2>6, <2>7 DEF App
<1>2. ASSUME NEW a \in Apps, \E op \in Ops, s \in Ssrcs : Call(a, op, s) PROVE IInv'
  BY <1>2, BeforeTheMutex
<1>3. CASE (\E s \in Ssrcs : Dispatch(s)) \/ Network
  BY <1>3, RunTaskPreserves, LookupPreserves, DeliverPreserves, DeliverToDeletedPreserves DEF Network
<1>4. CASE UNCHANGED vars
  <2>1. /\ UNCHANGED <<rtp_send_streams, rtp_receive_streams, stream, ssrc_of, timer, mutex, tasks>>
        /\ UNCHANGED <<pc, call, loop, packet, held>>
    BY <1>4 DEF vars, maps, streams, apps, network
  <2>2. Receivers' = Receivers /\ Registered' = Registered /\ Pending' = Pending
    BY <2>1 DEF Receivers, Registered, Pending
  <2>3. TypeOK' /\ Owner' /\ Held' /\ Mapped' /\ Gone'
    BY <2>1, <2>2 DEF IInv, TypeOK, Owner, Held, Mapped, Gone
  <2>4. Built'
    BY <2>1, <2>2 DEF IInv, Built
  <2>6. Destroyed'
    BY <2>1, <2>2 DEF IInv, Destroyed
  <2>7. Posted' /\ Unanswered'
    BY <2>1, <2>2 DEF IInv, Posted, Unanswered
  <2>5. ReachableIsReady' /\ LiveIsReferenced'
    BY <2>1, <2>2 DEF IInv, ReachableIsReady, LiveIsReferenced
  <2> QED
    BY <2>3, <2>4, <2>5, <2>6, <2>7 DEF IInv
<1> QED
  BY <1>1, <1>2, <1>3, <1>4 DEF Next

\* The inductive invariant: who holds the mutex, and what it waits for.
THEOREM Invariance == Spec => []IInv
<1> QED
  BY InitEstablishes, StepPreserves, PTL DEF Spec

\* A stream that the map or the network thread refers to is built, not being
\* destroyed, and its timer is open (CreateRtpStream, DeleteRtpStream, Dispatch).
THEOREM OnlyReadyStreamsAreUsed == Spec => []ReachableIsReady
<1>1. IInv => ReachableIsReady
  BY DEF IInv
<1> QED
  BY Invariance, <1>1, PTL

\* Every task of the network thread finds its TimerHandle, and every NackGenerator
\* that is gone has closed its timer (InitInvoke, CloseInvoke).
THEOREM NoTimerWithoutOwner == Spec => []TimersHaveAnOwner
<1>1. ASSUME IInv PROVE TimersHaveAnOwner
  <2>1. \A t \in Pending : stream[t.of] \in {"building", "dying"}
    BY <1>1 DEF IInv, Posted
  <2> QED
    BY <1>1, <2>1 DEF TimersHaveAnOwner, Pending, IInv, Gone
<1> QED
  BY Invariance, <1>1, PTL

\* A stream that is built and not yet deleted is in the map or in use.
THEOREM NothingLeaks == Spec => []LiveIsReferenced
<1>1. IInv => LiveIsReferenced
  BY DEF IInv
<1> QED
  BY Invariance, <1>1, PTL
=================================================================================
