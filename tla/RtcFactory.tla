------------------------------- MODULE RtcFactory -------------------------------
(***************************************************************************)
(* RtcFactory (api/rtc_factory.cpp) and its WebsocketClient: the           *)
(* constructor, on the application's thread, waits for the connection and  *)
(* then adds the RtcTransport to the client's dispatchers, while the       *)
(* network thread goes on reading.                                         *)
(*                                                                         *)
(* RtcTransport is modelled elsewhere; here only what its Dispatch is      *)
(* given.  The socket is the one whose packets pass IsClosed (see          *)
(* RtcTransport).  RtcFactory never calls DestroyWebsocketClient; Close    *)
(* stands for another owner of the NetIOFactory.  The destructor is left   *)
(* out.                                                                    *)
(*                                                                         *)
(* A definition X_Y is X with a plausible bug Y, which no specification    *)
(* uses; it is there to show that the properties notice the bug.           *)
(***************************************************************************)
EXTENDS WebsocketClient

CONSTANT MaxTexts       \* bound: the texts the application sends

VARIABLES
    constructor,        \* "new", "waiting" for the future, "connected", "made" or
                        \* "failed": returned without a transport
    has_dispatcher,     \* rtc_transport_ is one of dispatchers_
    texts,              \* the tasks SendTextInvoke has posted, not run yet
    asked,              \* history: for the first text sent, the messages begun before
    heard               \* what RtcTransport::Dispatch was given

app_vars == <<constructor, has_dispatcher, texts, asked, heard>>
factory_vars == <<vars, app_vars>>

NotAsked == MaxMessages

FactoryInit ==
    /\ Init
    /\ constructor = "new" /\ has_dispatcher = FALSE
    /\ texts = 0 /\ asked = NotAsked /\ heard = <<>>

--------------------------------------------------------------------------------
(* The application's thread                                                *)

\* NetIOFactory::Init, CreateWebsocketClient and the post of ConnectInvoke
Construct ==
    /\ constructor = "new"
    /\ constructor' = "waiting"
    /\ UNCHANGED <<vars, has_dispatcher, texts, asked, heard>>

\* The get of the future.  Without a connection there is no transport and no
\* thread for packets, and the stream functions return false.
FutureReturns ==
    /\ constructor = "waiting"
    /\ promise # "unset"
    /\ constructor' = IF promise = "true" THEN "connected" ELSE "failed"
    /\ UNCHANGED <<vars, has_dispatcher, texts, asked, heard>>

AddDispatcher_Skipped ==
    /\ constructor = "connected"
    /\ constructor' = "made"
    /\ UNCHANGED <<vars, has_dispatcher, texts, asked, heard>>

\* The CallBackQueueThread, the RtcTransport and AddDispatcher, under
\* dispatchers_mutex_
AddDispatcher ==
    /\ constructor = "connected"
    /\ constructor' = "made"
    /\ has_dispatcher' = TRUE
    /\ UNCHANGED <<vars, texts, asked, heard>>

\* OnSendText(std::string), which a failed factory does as well
OnSendText ==
    /\ constructor \in {"made", "failed"}
    /\ texts < MaxTexts
    /\ texts' = texts + 1
    /\ UNCHANGED <<vars, constructor, has_dispatcher, asked, heard>>

--------------------------------------------------------------------------------
(* The network thread                                                      *)

MessagesBegun == IF sent = <<>> THEN 0 ELSE Last(sent).msg

SendText ==
    /\ texts > 0
    /\ texts' = texts - 1
    /\ asked' = IF is_connected /\ asked = NotAsked THEN MessagesBegun ELSE asked
    /\ UNCHANGED <<vars, constructor, has_dispatcher, heard>>

\* OnReadData gives the buffer to the dispatchers there are.
Dispatch ==
    heard' = IF has_dispatcher
             THEN heard \o SubSeq(dispatched', Len(dispatched) + 1, Len(dispatched'))
             ELSE heard

Handler ==
    \/ constructor # "new" /\ ConnectInvoke
    \/ Close \/ OnTimer \/ TcpConnected \/ TcpFails
    \/ ReadResponse \/ ReadFragment \/ ReadPingOrPong \/ ReadClose \/ ReadError
    \/ PongTimeout

HandlerRuns ==
    /\ Handler
    /\ Dispatch
    /\ UNCHANGED <<constructor, has_dispatcher, texts, asked>>

FactoryNext ==
    /\ ~aborted
    /\ \/ Construct \/ FutureReturns \/ AddDispatcher \/ OnSendText
       \/ SendText \/ HandlerRuns

\* The loop runs its tasks and timers, and the application's thread runs; the
\* network and the server may do nothing.
FactorySpec ==
    /\ FactoryInit /\ [][FactoryNext]_factory_vars
    /\ WF_factory_vars(FactoryNext /\ (FutureReturns \/ AddDispatcher))
    /\ WF_factory_vars(FactoryNext /\ constructor # "new" /\ ConnectInvoke)
    /\ WF_factory_vars(FactoryNext /\ OnTimer)

--------------------------------------------------------------------------------
(* Properties                                                              *)

\* The constructor, which has no timeout of its own, returns, whatever the
\* network does and however AsyncConnect fails, or the program ends.
ConstructorReturns ==
    constructor = "waiting" ~> constructor \in {"made", "failed"} \/ aborted

\* The transport gets the messages in order and without a gap.  The ones that
\* come before AddDispatcher are lost to it, but no message that the server
\* begins after it got the application's first text is one of these.
AnswersAreHeard ==
    /\ IsSuffix(heard, dispatched)
    /\ \A u \in 1 .. Len(dispatched) - Len(heard) :
          \A i \in 1 .. Len(dispatched[u]) : dispatched[u][i].msg <= asked

================================================================================
