---------------------------- MODULE WebsocketClient ----------------------------
(***************************************************************************)
(* CoreIO::WebsocketClient (core/include/io/websocket_client.h) on top of  *)
(* WebSocketClient, HttpClient and TcpClient (deps/cpp_websocket): how the *)
(* connection is made and lost, what ConnectInvoke's future is told, and   *)
(* how the fragments of the server's messages reach the dispatchers.       *)
(*                                                                         *)
(* Everything runs on the network thread, one handler at a time.  TCP, TLS *)
(* and the server are external.  A fragment is a binary frame; its length  *)
(* matters only in that 4096 bytes mean "more to come", and the server may *)
(* make any fragment longer or shorter.  Text messages come between the    *)
(* binary ones, change nothing here and are left out, and so are the time  *)
(* of the last pong, behind which PongTimeout may come at any time, and    *)
(* is_connect_ of TcpClient, which only keeps a closed connection from     *)
(* being read.                                                             *)
(*                                                                         *)
(* A definition X_Y is X with a plausible bug Y, which no specification    *)
(* uses; it is there to show that the properties notice the bug.           *)
(***************************************************************************)
EXTENDS Naturals, Sequences, SequencesExt

CONSTANTS
    MaxMessages,        \* bound: the messages of the server
    MaxParts            \* bound: the fragments of a message

ASSUME BoundsAssumption == MaxMessages \in Nat /\ MaxParts \in Nat \ {0}

VARIABLES
    called,             \* ConnectInvoke has run
    timer_on,           \* the timer of ConnectInvoke runs
    promise,            \* connect_promise_: "unset", "true" or "false"
    connect_future_ready, \* connect_future_ready_
    is_connected,       \* is_connected_ of CoreIO::WebsocketClient
    closed,             \* closed_ of CoreIO::WebsocketClient
    aborted,            \* set_value threw and nobody caught it
    tcp,                \* "idle", "connecting", "reading", "silent" or "stopped"
    response,           \* the HTTP response: "none", "good" or "bad"
    http_ready,         \* http_ready_
    ws_connected,       \* is_connected_ of WebSocketClient
    sent,               \* the fragments the server sent
    broken,             \* history: a fragment was thrown away
    recv_buffer_vec,    \* recv_buffer_vec_
    mem_buf,            \* mem_buf_
    dispatched          \* what the dispatchers were given

future == <<promise, connect_future_ready>>
outer == <<timer_on, future, is_connected, aborted>>
inner == <<response, http_ready, ws_connected>>
frames == <<sent, broken, recv_buffer_vec, mem_buf, dispatched>>
vars == <<called, closed, tcp, outer, inner, frames>>

Fragment ==
    [msg : 1 .. MaxMessages, part : 1 .. MaxParts, last : BOOLEAN, long : BOOLEAN]

\* After Init, which CreateWebsocketClient waits for
Init ==
    /\ called = FALSE /\ closed = FALSE
    /\ timer_on = FALSE
    /\ promise = "unset" /\ connect_future_ready = FALSE
    /\ is_connected = FALSE /\ aborted = FALSE
    /\ tcp = "idle"
    /\ response = "none" /\ http_ready = FALSE /\ ws_connected = FALSE
    /\ sent = <<>> /\ broken = FALSE
    /\ recv_buffer_vec = <<>> /\ mem_buf = <<>> /\ dispatched = <<>>

--------------------------------------------------------------------------------
(* The calls of the application                                            *)

\* AsyncConnect may fail without any callback: an unknown host, or an error of
\* uv_tcp_connect, which is only printed.
ConnectInvoke ==
    /\ ~called
    /\ called' = TRUE
    /\ timer_on' = TRUE
    /\ IF closed THEN UNCHANGED tcp ELSE tcp' \in {"connecting", "silent"}
    /\ UNCHANGED <<closed, future, is_connected, aborted, inner, frames>>

\* DestroyWebsocketClient
Close ==
    /\ ~closed
    /\ closed' = TRUE
    /\ is_connected' = FALSE
    /\ UNCHANGED <<called, timer_on, future, aborted, tcp, inner, frames>>

--------------------------------------------------------------------------------
(* The handlers of CoreIO::WebsocketClient                                 *)

OnTimer ==
    /\ timer_on
    /\ timer_on' = FALSE
    /\ promise' = IF is_connected THEN promise ELSE "false"
    /\ UNCHANGED <<called, closed, tcp, connect_future_ready, is_connected, aborted,
                   inner, frames>>

TellFailure_Never == UNCHANGED <<future, aborted>>

\* set_value(false), unless OnConnection or OnClose came before
TellFailure ==
    \/ connect_future_ready /\ UNCHANGED <<future, aborted>>
    \/ /\ ~connect_future_ready /\ promise = "unset"
       /\ promise' = "false" /\ connect_future_ready' = TRUE
       /\ UNCHANGED aborted
    \/ /\ ~connect_future_ready /\ promise # "unset"
       /\ aborted' = TRUE
       /\ UNCHANGED future

OnClose ==
    /\ is_connected' = FALSE
    /\ timer_on' = FALSE
    /\ TellFailure

\* OnConnection, and HandleHttpRespone goes on
Connected_FutureNotReady ==
    /\ promise = "unset"
    /\ is_connected' = TRUE /\ timer_on' = FALSE
    /\ promise' = "true" /\ UNCHANGED connect_future_ready
    /\ http_ready' = TRUE /\ ws_connected' = TRUE
    /\ UNCHANGED aborted

Connected ==
    /\ promise = "unset"
    /\ is_connected' = TRUE /\ timer_on' = FALSE
    /\ promise' = "true" /\ connect_future_ready' = TRUE
    /\ http_ready' = TRUE /\ ws_connected' = TRUE
    /\ UNCHANGED aborted

ConnectedLate_StaysOpen ==
    /\ promise # "unset"
    /\ connect_future_ready' = TRUE
    /\ is_connected' = TRUE /\ timer_on' = FALSE
    /\ http_ready' = TRUE /\ ws_connected' = TRUE
    /\ UNCHANGED <<promise, aborted>>

\* OnConnection throws, after the timer answered; HandleHttpRespone catches that
\* and calls OnClose.
ConnectedLate ==
    /\ promise # "unset"
    /\ connect_future_ready' = TRUE
    /\ is_connected' = FALSE /\ timer_on' = FALSE
    /\ ws_connected' = FALSE
    /\ UNCHANGED <<promise, aborted, http_ready>>

--------------------------------------------------------------------------------
(* The fragments                                                           *)

\* The next fragment of the server
NextFragments ==
    LET new == sent = <<>> \/ Last(sent).last
        msg == IF sent = <<>> THEN 1 ELSE IF new THEN Last(sent).msg + 1 ELSE Last(sent).msg
        part == IF new THEN 1 ELSE Last(sent).part + 1
    IN  {f \in Fragment :
            /\ f.msg = msg /\ f.part = part
            /\ f.last \/ part < MaxParts}

OnReadData_NotCleared(buffers, f) ==
    LET mem == Append(buffers.mem, f)
    IN  IF f.long THEN [buffers EXCEPT !.mem = mem]
        ELSE [mem |-> mem, out |-> Append(buffers.out, mem)]

\* A fragment of 4096 bytes or more waits for the next one; a shorter one is taken
\* for the end.
OnReadData(buffers, f) ==
    LET mem == Append(buffers.mem, f)
    IN  IF f.long THEN [buffers EXCEPT !.mem = mem]
        ELSE [mem |-> <<>>, out |-> Append(buffers.out, mem)]

\* HandleFrame: the last fragment of a message hands over all of them.
HandleFrame(f) ==
    LET all == Append(recv_buffer_vec, f)
        buffers == FoldLeft(OnReadData, [mem |-> mem_buf, out |-> dispatched], all)
    IN  /\ sent' = Append(sent, f)
        /\ IF f.last
           THEN /\ recv_buffer_vec' = <<>>
                /\ mem_buf' = buffers.mem /\ dispatched' = buffers.out
           ELSE /\ recv_buffer_vec' = all
                /\ UNCHANGED <<mem_buf, dispatched>>
        /\ UNCHANGED broken

--------------------------------------------------------------------------------
(* What happens on the connection                                          *)

\* The TCP or TLS connection fails, or the request is sent; if sending it fails,
\* nothing is ever read.
TcpConnected ==
    /\ tcp = "connecting"
    /\ tcp' \in {"reading", "silent"}
    /\ UNCHANGED <<called, closed, outer, inner, frames>>

TcpFails ==
    /\ tcp = "connecting"
    /\ tcp' = "stopped"
    /\ ws_connected' = FALSE
    /\ OnClose
    /\ UNCHANGED <<called, closed, response, http_ready, frames>>

\* HandleHttpRespone, for the response, or again for one that was not accepted
HandleHttpRespone ==
    \/ /\ response' = "good"
       /\ Connected \/ ConnectedLate
    \/ /\ response' = "bad"
       /\ ws_connected' = FALSE
       /\ OnClose
       /\ UNCHANGED http_ready

\* The header of the response has come.  If it took several reads, HttpClient
\* compares the length of the last one with an offset in all of them, and what
\* came behind the header is discarded.
ReadResponse ==
    /\ tcp = "reading"
    /\ ~http_ready
    /\ response # "none" => response' = response
    /\ HandleHttpRespone
    /\ \/ UNCHANGED <<sent, broken>>
       \/ /\ response = "none" /\ http_ready'
          /\ \E f \in NextFragments : sent' = Append(sent, f)
          /\ broken' = TRUE
    /\ UNCHANGED <<called, closed, tcp, recv_buffer_vec, mem_buf, dispatched>>

ReadFragment ==
    /\ tcp = "reading"
    /\ http_ready
    /\ \E f \in NextFragments : HandleFrame(f)
    /\ UNCHANGED <<called, closed, tcp, outer, inner>>

\* A ping or a pong, and the client asks for a pong every two seconds.  Its payload
\* joins the fragments of an unfinished message in recv_buffer_vec_, a ping is
\* answered for every one of them, and the buffers are cleared.
ReadPingOrPong ==
    /\ tcp = "reading"
    /\ http_ready
    /\ recv_buffer_vec # <<>>
    /\ recv_buffer_vec' = <<>>
    /\ broken' = TRUE
    /\ UNCHANGED <<called, closed, tcp, outer, inner, sent, mem_buf, dispatched>>

ReadClose_LeavesReading ==
    /\ tcp = "reading"
    /\ http_ready
    /\ recv_buffer_vec' = <<>>
    /\ broken' = (broken \/ recv_buffer_vec # <<>>)
    /\ OnClose
    /\ UNCHANGED <<called, closed, tcp, inner, sent, mem_buf, dispatched>>

\* HandleWsClose, for every buffer of recv_buffer_vec_; close_ ends it after the
\* first one.
ReadClose ==
    /\ tcp = "reading"
    /\ http_ready
    /\ tcp' = "stopped"
    /\ recv_buffer_vec' = <<>>
    /\ broken' = (broken \/ recv_buffer_vec # <<>>)
    /\ ws_connected' = FALSE
    /\ OnClose
    /\ UNCHANGED <<called, closed, response, http_ready, sent, mem_buf, dispatched>>

ReadError ==
    /\ tcp = "reading"
    /\ tcp' = "stopped"
    /\ ws_connected' = FALSE
    /\ OnClose
    /\ UNCHANGED <<called, closed, response, http_ready, frames>>

\* WebSocketClient::OnTimer: no pong for kWebSocketPongTimeout
PongTimeout ==
    /\ ws_connected
    /\ tcp' = "stopped"
    /\ ws_connected' = FALSE
    /\ OnClose
    /\ UNCHANGED <<called, closed, response, http_ready, frames>>

Next ==
    /\ ~aborted
    /\ \/ ConnectInvoke \/ Close
       \/ OnTimer
       \/ TcpConnected \/ TcpFails
       \/ ReadResponse \/ ReadFragment \/ ReadPingOrPong \/ ReadClose \/ ReadError
       \/ PongTimeout

\* The loop runs its timers; the network and the server may do nothing.
Spec == Init /\ [][Next]_vars /\ WF_vars(OnTimer /\ ~aborted)

--------------------------------------------------------------------------------
(* Properties                                                              *)

\* Once the application was told that connecting failed, no late answer of the
\* server makes the client send or dispatch anything: the application has given
\* it up.
FailedStaysFailed ==
    promise = "false" => ~is_connected /\ ~http_ready /\ dispatched = <<>>

\* set_value throws where nobody catches it, which ends the program, only if
\* the timer has told a failure and the connection fails afterwards; a
\* connection that was made, and lost in any way, never does.
AbortsOnlyWhenLate ==
    aborted => promise = "false" /\ ~connect_future_ready /\ ~http_ready

\* The three layers agree on the connection, so that SendText sends exactly
\* while there is one, unless the application closed the client.
LayersAgree ==
    /\ is_connected => ws_connected
    /\ ws_connected => http_ready /\ tcp = "reading"
    /\ ws_connected => is_connected \/ closed

\* What the dispatchers are given in one call: fragments up to the first short one
IsCut(unit) ==
    /\ unit # <<>> /\ ~Last(unit).long
    /\ \A i \in 1 .. Len(unit) - 1 : unit[i].long

IsMessage(unit) ==
    /\ unit[1].part = 1
    /\ \A i \in 1 .. Len(unit) : unit[i].last <=> i = Len(unit)

\* The last fragment of each message is short, and no other.
LengthsTell(fragments) ==
    \A i \in 1 .. Len(fragments) : fragments[i].last <=> ~fragments[i].long

\* Unless a ping, a pong or a close comes between the fragments of a message, or the
\* first frame in the last of several reads of the response, the dispatchers get what
\* the server sent, each fragment once and in order, cut behind every fragment of
\* less than 4096 bytes; nothing waits but long fragments and an unfinished message.
\* These are the server's messages, each one whole, if its lengths tell.
DeliversMessages ==
    ~broken =>
        /\ FlattenSeq(dispatched) \o mem_buf \o recv_buffer_vec = sent
        /\ \A u \in 1 .. Len(dispatched) : IsCut(dispatched[u])
        /\ \A i \in 1 .. Len(mem_buf) : mem_buf[i].long
        /\ \A i \in 1 .. Len(recv_buffer_vec) : ~recv_buffer_vec[i].last
        /\ LengthsTell(sent) => \A u \in 1 .. Len(dispatched) : IsMessage(dispatched[u])
================================================================================
