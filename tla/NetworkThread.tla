----------------------------- MODULE NetworkThread -----------------------------
(***************************************************************************)
(* NetworkThread (core/include/io/network_thread.h, network_thread.cpp):   *)
(* a thread that runs a libuv loop and executes the tasks other threads    *)
(* post.  A task is pushed under task_lists_mutex_, then the loop is       *)
(* signalled with uv_async_send; the loop swaps the whole list and runs    *)
(* the tasks one by one.  The destructor posts a last task that closes the *)
(* async handle, waits for it and joins the thread.                        *)
(*                                                                         *)
(* The threads hold a shared_ptr to the NetworkThread while they use it;   *)
(* the destructor runs on the owner once they have all dropped it.         *)
(*                                                                         *)
(* A definition X_Y is X with a plausible bug Y, which no specification    *)
(* uses; it is there to show that the properties notice the bug.           *)
(***************************************************************************)
EXTENDS Naturals, Sequences

CONSTANTS
    Callers,    \* the threads that post tasks
    Owner,      \* the thread that runs the destructor
    MaxPosts    \* bound: the tasks each caller posts

ASSUME OwnerAssumption == Owner \notin Callers
ASSUME MaxPostsAssumption == MaxPosts \in Nat \ {0}

Threads == Callers \cup {Owner}
Task == [by : Threads, nth : 1 .. MaxPosts]

VARIABLES
    task_lists, \* task_lists_
    tasks,      \* the list OnAsyncTask has swapped out
    async,      \* a uv_async_send is pending on async_task_
    loop,       \* the loop thread: "poll", "woken", "run", "closing", "exit"
    closing,    \* uv_close was called on async_task_
    at,         \* per thread: "idle", "pushed", "waiting", "gone"
    posted,     \* per thread: how many tasks it has posted
    executed    \* the tasks executed, in order

thread_vars == <<task_lists, tasks, async, loop, closing, at, posted, executed>>

ThreadInit ==
    /\ task_lists = <<>>
    /\ tasks = <<>>
    /\ async = FALSE
    /\ loop = "poll"
    /\ closing = FALSE
    /\ at = [c \in Threads |-> "idle"]
    /\ posted = [c \in Threads |-> 0]
    /\ executed = <<>>

Latest(c) == [by |-> c, nth |-> posted[c]]
Done(t) == \E i \in 1 .. Len(executed) : executed[i] = t

--------------------------------------------------------------------------------
(* The threads                                                             *)

\* The push_back of Post.
Push(c) ==
    /\ at[c] = "idle"
    /\ posted' = [posted EXCEPT ![c] = @ + 1]
    /\ task_lists' = Append(task_lists, Latest(c)')
    /\ at' = [at EXCEPT ![c] = "pushed"]
    /\ UNCHANGED <<tasks, async, loop, closing, executed>>

\* The uv_async_send of Post; then the caller waits for the future, or not
\* (SendTextInvoke, SendDataInvoke drop it).
Send(c, next) ==
    /\ at[c] = "pushed"
    /\ async' = TRUE
    /\ at' = [at EXCEPT ![c] = next]
    /\ UNCHANGED <<task_lists, tasks, loop, closing, posted, executed>>

\* future.get() returns.
Get(c) ==
    /\ at[c] = "waiting"
    /\ Done(Latest(c))
    /\ at' = [at EXCEPT ![c] = "idle"]
    /\ UNCHANGED <<task_lists, tasks, async, loop, closing, posted, executed>>

\* A caller drops its shared_ptr.
Leave(c) ==
    /\ c \in Callers
    /\ at[c] = "idle"
    /\ at' = [at EXCEPT ![c] = "gone"]
    /\ UNCHANGED <<task_lists, tasks, async, loop, closing, posted, executed>>

Caller(c) ==
    \/ posted[c] < MaxPosts /\ Push(c)
    \/ \E next \in {"waiting", "idle"} : Send(c, next)
    \/ Get(c)
    \/ Leave(c)

Destructor_NotTheLast ==
    \/ posted[Owner] = 0 /\ Push(Owner)
    \/ Send(Owner, "waiting")
    \/ Get(Owner)

\* ~NetworkThread: Post of the task that closes async_task_, get, join.
Destructor ==
    \/ (\A c \in Callers : at[c] = "gone") /\ posted[Owner] = 0 /\ Push(Owner)
    \/ Send(Owner, "waiting")
    \/ Get(Owner)

Join ==
    /\ at[Owner] = "idle"
    /\ posted[Owner] = 1
    /\ loop = "exit"
    /\ at' = [at EXCEPT ![Owner] = "gone"]
    /\ UNCHANGED <<task_lists, tasks, async, loop, closing, posted, executed>>

--------------------------------------------------------------------------------
(* The loop thread                                                         *)

\* libuv clears the signal, then calls OnAsync.
Wake ==
    /\ loop = "poll"
    /\ async
    /\ async' = FALSE
    /\ loop' = "woken"
    /\ UNCHANGED <<task_lists, tasks, closing, at, posted, executed>>

\* tasks.swap(task_lists_)
Swap ==
    /\ loop = "woken"
    /\ tasks' = task_lists
    /\ task_lists' = <<>>
    /\ loop' = "run"
    /\ UNCHANGED <<async, closing, at, posted, executed>>

Execute_OneOnly ==
    /\ loop = "run"
    /\ tasks # <<>>
    /\ executed' = Append(executed, Head(tasks))
    /\ tasks' = <<>>
    /\ closing' = (closing \/ Head(tasks).by = Owner)
    /\ UNCHANGED <<task_lists, async, loop, at, posted>>

\* task->Execute(); the owner's task is uv_close.
Execute ==
    /\ loop = "run"
    /\ tasks # <<>>
    /\ executed' = Append(executed, Head(tasks))
    /\ tasks' = Tail(tasks)
    /\ closing' = (closing \/ Head(tasks).by = Owner)
    /\ UNCHANGED <<task_lists, async, loop, at, posted>>

Return_ForgetsSignals ==
    /\ loop = "run"
    /\ tasks = <<>>
    /\ async' = FALSE
    /\ loop' = IF closing THEN "closing" ELSE "poll"
    /\ UNCHANGED <<task_lists, tasks, closing, at, posted, executed>>

\* OnAsyncTask returns to the loop, which next runs the close callbacks.
Return ==
    /\ loop = "run"
    /\ tasks = <<>>
    /\ loop' = IF closing THEN "closing" ELSE "poll"
    /\ UNCHANGED <<task_lists, tasks, async, closing, at, posted, executed>>

\* OnAsyncClose: uv_stop, and uv_run returns.
OnAsyncClose ==
    /\ loop = "closing"
    /\ loop' = "exit"
    /\ UNCHANGED <<task_lists, tasks, async, closing, at, posted, executed>>

Loop == Wake \/ Swap \/ Execute \/ Return \/ OnAsyncClose

ThreadNext == (\E c \in Callers : Caller(c)) \/ Destructor \/ Join \/ Loop

\* The threads run: one that has pushed a task signals it, one that waits gets
\* its answer.  No caller needs to post anything or to leave.
ThreadSpec ==
    /\ ThreadInit /\ [][ThreadNext]_thread_vars
    /\ WF_thread_vars(Loop)
    /\ WF_thread_vars(Destructor \/ Join)
    /\ \A c \in Callers :
          WF_thread_vars((\E next \in {"waiting", "idle"} : Send(c, next)) \/ Get(c))

--------------------------------------------------------------------------------
(* Properties                                                              *)

\* Every variable has the type its member gives it, and the owner posts at most
\* the one task of the destructor.
ThreadTypeOK ==
    /\ task_lists \in Seq(Task) /\ tasks \in Seq(Task) /\ executed \in Seq(Task)
    /\ async \in BOOLEAN /\ closing \in BOOLEAN
    /\ loop \in {"poll", "woken", "run", "closing", "exit"}
    /\ at \in [Threads -> {"idle", "pushed", "waiting", "gone"}]
    /\ posted \in [Threads -> 0 .. MaxPosts] /\ posted[Owner] <= 1

\* The loop never goes to sleep on a task whose poster has already signalled
\* it, although signals merge and the list is swapped after the signal was
\* taken.
SignalNotLost ==
    loop = "poll" /\ task_lists # <<>> =>
        async \/ \E c \in Threads : at[c] = "pushed"

\* The loop stops only after it has executed everything: a task posted without
\* waiting for it (SendTextInvoke) is not dropped by the destructor.
ExitLeavesNothing == loop = "exit" => task_lists = <<>> /\ tasks = <<>>

\* A thread that waits for its task gets an answer, and the destructor's join
\* returns once it has begun.
WaitersAreAnswered ==
    /\ \A c \in Callers : at[c] = "waiting" ~> at[c] # "waiting"
    /\ posted[Owner] = 1 ~> at[Owner] = "gone"

\* NetworkThread keeps the promise of TaskQueue.
Queue == INSTANCE TaskQueue WITH
    Tasks <- Task,
    pending <- tasks \o task_lists

ExecutesInOrder == Queue!Spec
================================================================================
