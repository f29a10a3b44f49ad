----------------------------- MODULE RtcTransport ------------------------------
(***************************************************************************)
(* RtcTransport (core/src/rtc/rtc_transport.cpp): the streams by ssrc,     *)
(* which application threads create and delete and to which the network    *)
(* thread dispatches packets.  thread_mutex_ guards the two maps.  A       *)
(* receiving stream has a NackGenerator with a timer that only the network *)
(* thread may open and close: the thread that creates or destroys the      *)
(* stream posts a task to it and waits for the answer.                     *)
(*                                                                         *)
(* The network thread is a TaskQueue here; NetworkThread shows that it is  *)
(* one.  Addresses are valid or not; packets are their ssrc.  What a       *)
(* stream does with a packet is in RtpStreamReceiver and                   *)
(* RetransmissionBuffer.                                                   *)
(*                                                                         *)
(* A definition X_Y is X with a plausible bug Y, which no specification    *)
(* uses; it is there to show that the properties notice the bug.           *)
(***************************************************************************)
EXTENDS Naturals, Sequences, FiniteSets, Functions

CONSTANTS
    Apps,           \* the threads of the application
    Loop,           \* the network thread
    Ssrcs,          \* the ssrcs in use
    None,
    MaxCalls,       \* bound: the calls of all applications
    MaxPackets      \* bound: the packets that are dispatched

ASSUME BoundsAssumption == MaxCalls \in Nat /\ MaxPackets \in Nat

Ops == {"CreateSender", "CreateReceiver", "DeleteSender", "DeleteReceiver", "Send"}
Streams == 1 .. MaxCalls        \* a receiving stream is numbered by its creation

ASSUME ThreadsAssumption == Loop \notin Apps /\ None \notin Apps \cup {Loop} \cup Streams

VARIABLES
    rtp_send_streams,       \* the ssrcs of rtp_send_streams_
    rtp_receive_streams,    \* rtp_receive_streams_: the stream of each ssrc
    stream,                 \* per stream: "free", "building", "live", "dying", "dead"
    ssrc_of,                \* per stream: its ssrc
    timer,                  \* per stream: its timer "none", "open" or "closed"
    mutex,                  \* the holder of thread_mutex_
    tasks,                  \* what the network thread was posted, oldest first
    pc,                     \* per application: where it is
    call,                   \* per application: the call it makes
    calls,                  \* the calls made so far
    loop,                   \* where the network thread is
    packet,                 \* the ssrc of the packet it dispatches
    held,                   \* the stream its shared_ptr holds
    packets                 \* the packets dispatched so far

maps == <<rtp_send_streams, rtp_receive_streams>>
streams == <<stream, ssrc_of, timer>>
apps == <<pc, call, calls>>
network == <<loop, packet, held, packets>>
vars == <<maps, streams, mutex, tasks, apps, network>>

Task == [op : {"Init", "Close"}, of : Streams, by : Apps \cup {Loop}]
NoCall == [op |-> "none", ssrc |-> None]

Init ==
    /\ rtp_send_streams = {}
    /\ rtp_receive_streams = [s \in {} |-> None]
    /\ stream = [i \in Streams |-> "free"]
    /\ ssrc_of = [i \in Streams |-> None]
    /\ timer = [i \in Streams |-> "none"]
    /\ mutex = None
    /\ tasks = <<>>
    /\ pc = [a \in Apps |-> "idle"]
    /\ call = [a \in Apps |-> NoCall]
    /\ calls = 0
    /\ loop = "idle" /\ packet = None /\ held = None /\ packets = 0

crashed == loop = "crashed"
Receivers == DOMAIN rtp_receive_streams
Registered == {rtp_receive_streams[s] : s \in Receivers}

--------------------------------------------------------------------------------
(* The applications                                                        *)

\* The application calls a function of RtcFactory, which calls RtcTransport.
Call(a, op, s) ==
    /\ pc[a] = "idle"
    /\ calls < MaxCalls
    /\ calls' = calls + 1
    /\ call' = [call EXCEPT ![a] = [op |-> op, ssrc |-> s]]
    /\ pc' = [pc EXCEPT ![a] = "lock"]
    /\ UNCHANGED <<maps, streams, mutex, tasks, network>>

Lock_Forgotten(a) ==
    /\ pc[a] = "lock"
    /\ mutex' = a
    /\ pc' = [pc EXCEPT ![a] = "locked"]
    /\ UNCHANGED <<maps, streams, tasks, call, calls, network>>

Lock(a) ==
    /\ pc[a] = "lock"
    /\ mutex = None
    /\ mutex' = a
    /\ pc' = [pc EXCEPT ![a] = "locked"]
    /\ UNCHANGED <<maps, streams, tasks, call, calls, network>>

Return_StillLocked(a) ==
    /\ UNCHANGED mutex
    /\ pc' = [pc EXCEPT ![a] = "idle"]
    /\ call' = [call EXCEPT ![a] = NoCall]
    /\ UNCHANGED calls

\* The call returns and unlocks; RtcFactory returns true whatever was done.
Return(a) ==
    /\ mutex' = None
    /\ pc' = [pc EXCEPT ![a] = "idle"]
    /\ call' = [call EXCEPT ![a] = NoCall]
    /\ UNCHANGED calls

In(a, op) == pc[a] = "locked" /\ call[a].op = op

\* uv_ip4_addr fails, or the stream exists already.
CreateFails(a) ==
    /\ In(a, "CreateSender") \/ In(a, "CreateReceiver")
    /\ Return(a)
    /\ UNCHANGED <<maps, streams, tasks, network>>

CreateSender(a) ==
    LET s == call[a].ssrc
    IN  /\ In(a, "CreateSender")
        /\ s \notin rtp_send_streams
        /\ rtp_send_streams' = rtp_send_streams \cup {s}
        /\ Return(a)
        /\ UNCHANGED <<rtp_receive_streams, streams, tasks, network>>

Post(op, i, by) == tasks' = Append(tasks, [op |-> op, of |-> i, by |-> by])

\* The constructor of the NackGenerator posts the Init of its timer and waits
\* for it, under the mutex.
CreateReceiver(a) ==
    LET s == call[a].ssrc
    IN  /\ In(a, "CreateReceiver")
        /\ s \notin Receivers
        /\ \E i \in Streams :
            /\ stream[i] = "free" /\ \A j \in 1 .. i - 1 : stream[j] # "free"
            /\ stream' = [stream EXCEPT ![i] = "building"]
            /\ ssrc_of' = [ssrc_of EXCEPT ![i] = s]
            /\ Post("Init", i, a)
        /\ pc' = [pc EXCEPT ![a] = "await_init"]
        /\ UNCHANGED <<maps, timer, mutex, call, calls, network>>

\* No task of the application is left, so its future is ready.
Answered(a) == \A t \in 1 .. Len(tasks) : tasks[t].by # a

Created_BeforeInit(a) ==
    /\ pc[a] = "await_init"
    /\ \E i \in Streams :
        /\ stream[i] = "building" /\ ssrc_of[i] = call[a].ssrc
        /\ stream' = [stream EXCEPT ![i] = "live"]
        /\ rtp_receive_streams' =
            [s \in Receivers \cup {call[a].ssrc} |->
                IF s = call[a].ssrc THEN i ELSE rtp_receive_streams[s]]
    /\ Return(a)
    /\ UNCHANGED <<rtp_send_streams, ssrc_of, timer, tasks, network>>

\* The answer has come: the stream is built and registered.
Created(a) ==
    /\ pc[a] = "await_init"
    /\ Answered(a)
    /\ \E i \in Streams :
        /\ stream[i] = "building" /\ ssrc_of[i] = call[a].ssrc
        /\ stream' = [stream EXCEPT ![i] = "live"]
        /\ rtp_receive_streams' =
            [s \in Receivers \cup {call[a].ssrc} |->
                IF s = call[a].ssrc THEN i ELSE rtp_receive_streams[s]]
    /\ Return(a)
    /\ UNCHANGED <<rtp_send_streams, ssrc_of, timer, tasks, network>>

Deletes(a) == In(a, "DeleteSender") \/ In(a, "DeleteReceiver")

\* DeleteRtpStream looks among the sending streams first, for either call.
DeleteFromSenders(a) ==
    /\ Deletes(a)
    /\ call[a].ssrc \in rtp_send_streams
    /\ rtp_send_streams' = rtp_send_streams \ {call[a].ssrc}
    /\ Return(a)
    /\ UNCHANGED <<rtp_receive_streams, streams, tasks, network>>

InReceiversOnly(a) ==
    Deletes(a) /\ call[a].ssrc \in Receivers \ rtp_send_streams

Unregister(a) ==
    rtp_receive_streams' = Restrict(rtp_receive_streams, Receivers \ {call[a].ssrc})

\* The network thread still holds the stream: the map's reference goes.
DeleteHeld(a) ==
    /\ InReceiversOnly(a)
    /\ held = rtp_receive_streams[call[a].ssrc]
    /\ Unregister(a)
    /\ Return(a)
    /\ UNCHANGED <<rtp_send_streams, streams, tasks, network>>

\* The last reference goes: ~NackGenerator posts the Close of its timer and
\* waits for it, under the mutex.
DeleteLast(a) ==
    LET i == rtp_receive_streams[call[a].ssrc]
    IN  /\ InReceiversOnly(a)
        /\ held # i
        /\ Unregister(a)
        /\ stream' = [stream EXCEPT ![i] = "dying"]
        /\ Post("Close", i, a)
        /\ pc' = [pc EXCEPT ![a] = "await_close"]
        /\ UNCHANGED <<rtp_send_streams, ssrc_of, timer, mutex, call, calls, network>>

Deleted_WithoutAnswer(a) ==
    /\ pc[a] = "await_close"
    /\ stream' = [i \in Streams |->
            IF stream[i] = "dying" /\ ssrc_of[i] = call[a].ssrc THEN "dead" ELSE stream[i]]
    /\ Return(a)
    /\ UNCHANGED <<maps, ssrc_of, timer, tasks, network>>

Deleted(a) ==
    /\ pc[a] = "await_close"
    /\ Answered(a)
    /\ stream' = [i \in Streams |->
            IF stream[i] = "dying" /\ ssrc_of[i] = call[a].ssrc THEN "dead" ELSE stream[i]]
    /\ Return(a)
    /\ UNCHANGED <<maps, ssrc_of, timer, tasks, network>>

DeleteFails(a) ==
    /\ Deletes(a)
    /\ call[a].ssrc \notin rtp_send_streams \cup Receivers
    /\ Return(a)
    /\ UNCHANGED <<maps, streams, tasks, network>>

\* OnSendPacket takes the mutex to find the sending stream.
Send(a) ==
    /\ In(a, "Send")
    /\ Return(a)
    /\ UNCHANGED <<maps, streams, tasks, network>>

App(a) ==
    \/ Lock(a)
    \/ CreateFails(a) \/ CreateSender(a) \/ CreateReceiver(a) \/ Created(a)
    \/ DeleteFromSenders(a) \/ DeleteHeld(a) \/ DeleteLast(a) \/ Deleted(a) \/ DeleteFails(a)
    \/ Send(a)

--------------------------------------------------------------------------------
(* The network thread                                                      *)

\* TimerHandle::Init or Close, and the promise is set.
RunTask ==
    /\ loop = "idle"
    /\ tasks # <<>>
    /\ timer' = [timer EXCEPT ![Head(tasks).of] = IF Head(tasks).op = "Init" THEN "open" ELSE "closed"]
    /\ tasks' = Tail(tasks)
    /\ UNCHANGED <<maps, stream, ssrc_of, mutex, apps, network>>

\* The websocket delivers an RTP packet to Dispatch.  A Dispatch that returns
\* early (a packet that cannot be parsed, or a websocket whose IsClosed says
\* so) changes nothing and is no step.
Dispatch(s) ==
    /\ loop = "idle"
    /\ packets < MaxPackets
    /\ packets' = packets + 1
    /\ packet' = s
    /\ loop' = "find_sender"
    /\ UNCHANGED <<maps, streams, mutex, tasks, apps, held>>

\* GetStreamSenderBySsrc locks, looks and unlocks.  A sending stream that is
\* found treats the packet as one to send.
FindSender ==
    /\ loop = "find_sender"
    /\ mutex = None
    /\ loop' = "find_receiver"
    /\ UNCHANGED <<maps, streams, mutex, tasks, apps, packet, held, packets>>

\* GetStreamReceiverBySsrc: any stream if none has the ssrc.
FindReceiver ==
    /\ loop = "find_receiver"
    /\ mutex = None
    /\ \E i \in Registered :
        /\ packet \in Receivers => i = rtp_receive_streams[packet]
        /\ held' = i
    /\ loop' = "deliver"
    /\ UNCHANGED <<maps, streams, mutex, tasks, apps, packet, packets>>

\* begin()->second of an empty map: undefined, taken for the end of the program
FindReceiverInEmptyMap ==
    /\ loop = "find_receiver"
    /\ mutex = None
    /\ Registered = {}
    /\ loop' = "crashed"
    /\ UNCHANGED <<maps, streams, mutex, tasks, apps, packet, held, packets>>

\* ReceivePacket, and the shared_ptr goes out of scope.
Deliver ==
    /\ loop = "deliver"
    /\ held \in Registered
    /\ loop' = "idle"
    /\ held' = None /\ packet' = None
    /\ UNCHANGED <<maps, streams, mutex, tasks, apps, packets>>

\* ReceivePacket, and the shared_ptr was the last one: ~NackGenerator posts the
\* Close to the thread it runs on and waits for it.
DeliverToDeleted ==
    /\ loop = "deliver"
    /\ held \notin Registered
    /\ stream' = [stream EXCEPT ![held] = "dying"]
    /\ Post("Close", held, Loop)
    /\ loop' = "await_itself"
    /\ held' = None /\ packet' = None
    /\ UNCHANGED <<maps, ssrc_of, timer, mutex, apps, packets>>

Network ==
    RunTask \/ FindSender \/ FindReceiver \/ FindReceiverInEmptyMap \/ Deliver \/ DeliverToDeleted

Next ==
    /\ ~crashed
    /\ \/ \E a \in Apps : (\E op \in Ops, s \in Ssrcs : Call(a, op, s)) \/ App(a)
       \/ \E s \in Ssrcs : Dispatch(s)
       \/ Network

\* The threads run; nobody has to call or to send anything.
Spec ==
    /\ Init /\ [][Next]_vars
    /\ WF_vars(Network /\ ~crashed)
    /\ \A a \in Apps : WF_vars(App(a) /\ ~crashed)

--------------------------------------------------------------------------------
(* Properties                                                              *)

\* Every variable has its type.
TypeOK ==
    /\ rtp_send_streams \subseteq Ssrcs
    /\ Receivers \subseteq Ssrcs /\ Registered \subseteq Streams
    /\ stream \in [Streams -> {"free", "building", "live", "dying", "dead"}]
    /\ ssrc_of \in [Streams -> Ssrcs \cup {None}]
    /\ timer \in [Streams -> {"none", "open", "closed"}]
    /\ mutex \in Apps \cup {None}
    /\ tasks \in Seq(Task)
    /\ pc \in [Apps -> {"idle", "lock", "locked", "await_init", "await_close"}]
    /\ call \in [Apps -> [op : Ops \cup {NoCall.op}, ssrc : Ssrcs \cup {None}]]
    /\ \A a \in Apps : pc[a] # "idle" => call[a].ssrc \in Ssrcs
    /\ held \in Streams \cup {None} /\ packet \in Ssrcs \cup {None}
    /\ loop \in {"idle", "find_sender", "find_receiver", "deliver", "await_itself", "crashed"}

\* A stream that packets can reach, through the map or the reference the network
\* thread holds, is built and its timer is open: neither a half-built nor a
\* half-destroyed one is ever used, whoever creates and deletes meanwhile.
ReachableIsReady ==
    \A i \in Registered \cup ({held} \ {None}) : stream[i] = "live" /\ timer[i] = "open"

\* A task runs on a timer whose NackGenerator still exists (the lambda captures
\* this), and no NackGenerator is gone while its timer is open and may call it.
TimersHaveAnOwner ==
    /\ \A t \in 1 .. Len(tasks) : stream[tasks[t].of] \in {"building", "dying"}
    /\ \A i \in Streams : stream[i] = "dead" => timer[i] = "closed"

\* Nothing leaks: a live stream is registered or held.
LiveIsReferenced ==
    \A i \in Streams : stream[i] = "live" => i \in Registered \/ held = i

\* The network thread waits for the mutex whose holder waits for it, or for
\* itself.
Hung ==
    \/ /\ loop \in {"find_sender", "find_receiver"}
       /\ \E a \in Apps : mutex = a /\ pc[a] \in {"await_init", "await_close"}
    \/ loop = "await_itself"

\* Nothing else than those two ways to hang keeps a call from returning.
CallsReturnOrHang ==
    \A a \in Apps : pc[a] # "idle" ~> pc[a] = "idle" \/ Hung \/ crashed

\* "创建接收流 ... @return 返回删除是否成功", creates a receiving stream and returns
\* whether that (deletion, sic) succeeded (rtc_interface.h:61-63): the call returns.
CallsReturn ==
    \A a \in Apps : call[a].op = "CreateReceiver" ~> call[a].op # "CreateReceiver" \/ crashed

================================================================================
