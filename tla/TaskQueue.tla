------------------------------- MODULE TaskQueue -------------------------------
(***************************************************************************)
(* What NetworkThread promises to whoever posts a task: the tasks are      *)
(* executed by one thread, each once, in the order in which they were      *)
(* posted, and every posted task is executed in the end.                   *)
(***************************************************************************)
EXTENDS Sequences

CONSTANT Tasks

VARIABLES pending,              \* the tasks posted and not yet executed
          executed              \* the tasks executed so far

vars == <<pending, executed>>

Init == pending = <<>> /\ executed = <<>>

Post(t) ==
    /\ pending' = Append(pending, t)
    /\ UNCHANGED executed

Execute ==
    /\ pending # <<>>
    /\ executed' = Append(executed, Head(pending))
    /\ pending' = Tail(pending)

Next == (\E t \in Tasks : Post(t)) \/ Execute

Safe == Init /\ [][Next]_vars

Spec == Safe /\ WF_vars(Execute)
================================================================================
