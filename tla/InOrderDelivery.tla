---------------------------- MODULE InOrderDelivery ----------------------------
(***************************************************************************)
(* What the callback queue promises to RtcFactory: frames are handed to    *)
(* HasContinuousPacketCall in the order of their positions in the stream,  *)
(* starting at position 0, each once, none before it was received; and     *)
(* while the queue is open every frame whose predecessors were all         *)
(* received is handed over.                                                *)
(*                                                                         *)
(* A frame is its position in the sender's stream.                         *)
(***************************************************************************)
EXTENDS Naturals, Sequences

CONSTANT Positions              \* the positions the sender uses

VARIABLES received,             \* positions the queue was given
          delivered,            \* what the listener saw, in order
          open                  \* the destructor has not begun

vars == <<received, delivered, open>>

Init == received = {} /\ delivered = <<>> /\ open = TRUE

Receive(n) ==
    /\ received' = received \cup {n}
    /\ UNCHANGED <<delivered, open>>

\* The next position is the number of frames delivered so far.
Deliver ==
    /\ Len(delivered) \in received
    /\ delivered' = Append(delivered, Len(delivered))
    /\ UNCHANGED <<received, open>>

Close ==
    /\ open' = FALSE
    /\ UNCHANGED <<received, delivered>>

Next == (\E n \in Positions : Receive(n)) \/ Deliver \/ Close

Safe == Init /\ [][Next]_vars

Spec == Safe /\ WF_vars(open /\ Deliver)
================================================================================
