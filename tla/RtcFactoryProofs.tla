----------------------------- MODULE RtcFactoryProofs -----------------------------
(***************************************************************************)
(* Proofs about WebsocketClient, alone and in RtcFactory, and about the    *)
(* NetworkThread it runs on: what the three layers and the future say of   *)
(* the connection, what becomes of the fragments the server sends, for any *)
(* number of messages and fragments, and, for any callers and any number   *)
(* of posts, that no signal to the loop is lost, that it stops with        *)
(* nothing left to execute and that tasks are executed in the order in     *)
(* which they are posted (the safety part of TaskQueue).                   *)
(*                                                                         *)
(* OnReadData is folded over recv_buffer_vec_ and the messages are         *)
(* compared with FlattenSeq.  Both are recursive functions; what they      *)
(* compute is shown by induction over the numbers (Induction), with the    *)
(* function for n + 1 made from the one for n.                             *)
(***************************************************************************)
EXTENDS RtcFactory, NetworkThread, SequenceTheorems, WellFoundedInduction, TLAPS

\* The timer runs only before there is an answer.
TimerBeforeAnswer ==
    /\ timer_on => ~http_ready
    /\ ~called => tcp = "idle" /\ ~http_ready /\ ~timer_on

\* connect_future_ready_ is behind the promise only after OnTimer.
ReadyAfterAnswer ==
    /\ promise = "true" => connect_future_ready
    /\ http_ready => connect_future_ready
    /\ promise \in {"unset", "true", "false"}

\* Frames are read only after the response.
ReadAfterResponse == ~http_ready => dispatched = <<>>

IInv ==
    /\ TimerBeforeAnswer /\ ReadyAfterAnswer /\ ReadAfterResponse
    /\ FailedStaysFailed /\ AbortsOnlyWhenLate /\ LayersAgree

USE DEF TimerBeforeAnswer, ReadyAfterAnswer, ReadAfterResponse,
        FailedStaysFailed, AbortsOnlyWhenLate, LayersAgree, IInv

--------------------------------------------------------------------------------

LEMMA InitEstablishes == Init => IInv
BY DEF Init

\* The calls of the application and the timer
LEMMA CallsPreserve ==
    IInv /\ ~aborted /\ (ConnectInvoke \/ Close \/ OnTimer \/ TcpConnected) => IInv'
<1> SUFFICES ASSUME IInv, ~aborted,
                    ConnectInvoke \/ Close \/ OnTimer \/ TcpConnected
             PROVE  IInv'
  OBVIOUS
<1> USE DEF outer, inner, future, frames
<1>1. CASE ConnectInvoke
  BY <1>1 DEF ConnectInvoke
<1>2. CASE Close
  BY <1>2 DEF Close
<1>3. CASE OnTimer
  BY <1>3 DEF OnTimer
<1>4. CASE TcpConnected
  BY <1>4 DEF TcpConnected
<1> QED
  BY <1>1, <1>2, <1>3, <1>4

\* Every way to lose the connection: the three layers forget it in one step.
LEMMA LossPreserves ==
    IInv /\ ~aborted /\ (TcpFails \/ ReadClose \/ ReadError \/ PongTimeout) => IInv'
<1> SUFFICES ASSUME IInv, ~aborted,
                    TcpFails \/ ReadClose \/ ReadError \/ PongTimeout
             PROVE  IInv'
  OBVIOUS
<1> USE DEF outer, inner, future, frames, OnClose, TellFailure
<1>1. CASE TcpFails
  BY <1>1 DEF TcpFails
<1>2. CASE ReadClose
  BY <1>2 DEF ReadClose
<1>3. CASE ReadError
  BY <1>3 DEF ReadError
<1>4. CASE PongTimeout
  BY <1>4 DEF PongTimeout
<1> QED
  BY <1>1, <1>2, <1>3, <1>4

\* The response of the server, in time, late or refusing
LEMMA ResponsePreserves == IInv /\ ~aborted /\ ReadResponse => IInv'
<1> SUFFICES ASSUME IInv, ~aborted, ReadResponse
             PROVE  IInv'
  OBVIOUS
<1>1. /\ ~http_ready /\ tcp = "reading"
      /\ UNCHANGED <<called, closed, tcp, dispatched>>
      /\ HandleHttpRespone
  BY DEF ReadResponse
<1>2. CASE Connected
  BY <1>1, <1>2 DEF Connected
<1>3. CASE ConnectedLate
  BY <1>1, <1>3 DEF ConnectedLate
<1>4. CASE ws_connected' = FALSE /\ OnClose /\ UNCHANGED http_ready
  BY <1>1, <1>4 DEF OnClose, TellFailure, future
<1> QED
  BY <1>1, <1>2, <1>3, <1>4 DEF HandleHttpRespone

\* Fragments, pings and pongs leave the connection alone.
LEMMA ReadingPreserves == IInv /\ ~aborted /\ (ReadFragment \/ ReadPingOrPong) => IInv'
BY DEF ReadFragment, ReadPingOrPong, outer, inner, future

LEMMA StepPreserves == IInv /\ [Next]_vars => IInv'
<1>1. IInv /\ UNCHANGED vars => IInv'
  BY DEF vars, outer, inner, future, frames
<1> QED
  BY <1>1, CallsPreserve, LossPreserves, ResponsePreserves, ReadingPreserves DEF Next

--------------------------------------------------------------------------------
(* In RtcFactory                                                           *)

\* What the application's thread does leaves the client alone.
LEMMA FactoryStepsAreSteps == [FactoryNext]_factory_vars => [Next]_vars
BY DEF FactoryNext, Construct, FutureReturns, AddDispatcher, OnSendText, SendText,
       HandlerRuns, Handler, Next, factory_vars

LEMMA Invariance == FactorySpec => []IInv
<1>1. FactoryInit => IInv
  BY InitEstablishes DEF FactoryInit
<1>2. IInv /\ [FactoryNext]_factory_vars => IInv'
  BY FactoryStepsAreSteps, StepPreserves
<1> QED
  BY <1>1, <1>2, PTL DEF FactorySpec

\* A factory whose constructor was told that connecting failed has a client
\* that never becomes connected and never dispatches a message
\* (HandleHttpRespone, OnConnection).
THEOREM FailureIsFinal == FactorySpec => []FailedStaysFailed
<1>1. IInv => FailedStaysFailed
  OBVIOUS
<1> QED
  BY Invariance, <1>1, PTL

\* connect_promise_ is set twice, and the program ends, only when the timer
\* answered first and the connection was never made (OnTimer, OnClose).
THEOREM OnlyLateAborts == FactorySpec => []AbortsOnlyWhenLate
<1>1. IInv => AbortsOnlyWhenLate
  OBVIOUS
<1> QED
  BY Invariance, <1>1, PTL

\* The flags of CoreIO::WebsocketClient, WebSocketClient and TcpClient never
\* disagree about the connection between two handlers (OnClose and its callers).
THEOREM AgreeOnConnection == FactorySpec => []LayersAgree
<1>1. IInv => LayersAgree
  OBVIOUS
<1> QED
  BY Invariance, <1>1, PTL

--------------------------------------------------------------------------------
(* Induction over the numbers, and two recursive functions                 *)

\* Induction over the numbers, for a set of them
LEMMA Induction ==
    ASSUME NEW S, 0 \in S, \A n \in Nat : n \in S => n + 1 \in S
    PROVE  Nat \subseteq S
<1> SUFFICES ASSUME Nat \ S # {} PROVE FALSE
  OBVIOUS
<1> DEFINE T == Nat \ S
<1>1. T \subseteq Nat /\ T # {}
  OBVIOUS
<1> HIDE DEF T
<1>2. PICK m \in T : \A x \in T : ~(<<x, m>> \in OpToRel(<, Nat))
  BY <1>1, NatLessThanWellFounded, WFMin
<1>3. m \in Nat \ {0} /\ m \notin S
  BY DEF T
<1>4. m - 1 \notin S
  BY <1>3
<1>5. m - 1 \in T /\ m - 1 < m
  BY <1>3, <1>4 DEF T
<1>6. <<m - 1, m>> \in OpToRel(<, Nat)
  BY <1>3, <1>5 DEF OpToRel
<1> QED
  BY <1>2, <1>5, <1>6

\* The greatest of a set of numbers up to n that has n
LEMMA MaxIs ==
    ASSUME NEW n \in Nat, NEW t \in SUBSET (1 .. n), n \in t
    PROVE  Max(t) = n
<1>1. \A y \in t : n >= y /\ y \in Int
  OBVIOUS
<1>2. Max(t) \in t /\ \A y \in t : Max(t) >= y
  BY <1>1 DEF Max
<1>3. n >= Max(t) /\ Max(t) >= n /\ Max(t) \in Int
  BY <1>1, <1>2
<1> HIDE DEF Max
<1> QED
  BY <1>3

\* The function that MapThenFoldSet defines, for OnReadData over the indices of s
IsFold(g, base, s, n) ==
    g = [t \in SUBSET (1 .. n) |->
            IF t = {} THEN base ELSE OnReadData(g[t \ {Max(t)}], s[Max(t)])]

\* There is one for every length.
LEMMA FoldExists ==
    ASSUME NEW base, NEW s
    PROVE  \A n \in Nat : \E g : IsFold(g, base, s, n)
<1> DEFINE S == {n \in Nat : \E g : IsFold(g, base, s, n)}
<1>1. 0 \in S
  <2> DEFINE g == [t \in SUBSET (1 .. 0) |-> base]
  <2>1. IsFold(g, base, s, 0)
    BY DEF IsFold
  <2> QED
    BY <2>1
<1>2. ASSUME NEW n \in Nat, n \in S PROVE n + 1 \in S
  <2>1. PICK f : IsFold(f, base, s, n)
    BY <1>2
  <2> DEFINE g == [t \in SUBSET (1 .. n + 1) |->
                      IF n + 1 \in t THEN OnReadData(f[t \ {n + 1}], s[n + 1]) ELSE f[t]]
             h(t) == IF t = {} THEN base ELSE OnReadData(g[t \ {Max(t)}], s[Max(t)])
  <2>2. ASSUME NEW t \in SUBSET (1 .. n + 1) PROVE g[t] = h(t)
    <3>1. CASE n + 1 \in t
      <4>1. Max(t) = n + 1
        BY <3>1, MaxIs
      <4>2. t \ {n + 1} \in SUBSET (1 .. n) /\ t \ {n + 1} \in SUBSET (1 .. n + 1)
        OBVIOUS
      <4>3. g[t \ {n + 1}] = f[t \ {n + 1}]
        BY <4>2
      <4>4. g[t] = OnReadData(f[t \ {n + 1}], s[n + 1])
        BY <3>1
      <4> QED
        BY <3>1, <4>1, <4>3, <4>4
    <3>2. CASE n + 1 \notin t
      <4>1. t \in SUBSET (1 .. n) /\ n + 1 \notin t \ {Max(t)}
        BY <3>2
      <4>2. g[t] = f[t] /\ g[t \ {Max(t)}] = f[t \ {Max(t)}]
        BY <3>2, <4>1
      <4>3. f[t] = IF t = {} THEN base ELSE OnReadData(f[t \ {Max(t)}], s[Max(t)])
        BY <2>1, <4>1 DEF IsFold
      <4> QED
        BY <4>2, <4>3
    <3> QED
      BY <3>1, <3>2
  <2>3. IsFold(g, base, s, n + 1)
    <3>1. g = [t \in SUBSET (1 .. n + 1) |-> h(t)]
      BY <2>2
    <3> QED
      BY <3>1 DEF IsFold
  <2> HIDE DEF g
  <2> QED
    BY <2>3
<1> HIDE DEF S
<1>3. Nat \subseteq S
  BY <1>1, <1>2, Induction
<1> QED
  BY <1>3 DEF S

\* FoldLeft is its value for all the indices.
LEMMA FoldIs ==
    ASSUME NEW base, NEW s, NEW n \in Nat, DOMAIN s = 1 .. n
    PROVE  \E g : IsFold(g, base, s, n) /\ FoldLeft(OnReadData, base, s) = g[1 .. n]
<1> DEFINE g == CHOOSE f : IsFold(f, base, s, n)
<1>1. IsFold(g, base, s, n)
  BY FoldExists
<1>2. FoldLeft(OnReadData, base, s) = g[1 .. n]
  BY DEF FoldLeft, MapThenFoldSet, IsFold
<1> QED
  BY <1>1, <1>2

\* The indices in order
LEMMA UpTo ==
    ASSUME NEW k \in Nat
    PROVE  Max(1 .. k + 1) = k + 1 /\ (1 .. k + 1) \ {k + 1} = 1 .. k /\ 1 .. k + 1 # {}
<1>1. k + 1 \in Nat /\ 1 .. k + 1 \in SUBSET (1 .. k + 1) /\ k + 1 \in 1 .. k + 1
  OBVIOUS
<1>2. Max(1 .. k + 1) = k + 1
  BY <1>1, MaxIs
<1>3. (1 .. k + 1) \ {k + 1} = 1 .. k
  OBVIOUS
<1> QED
  BY <1>1, <1>2, <1>3

\* One more buffer collected
LEMMA Collected ==
    ASSUME NEW T, NEW m \in Seq(T), NEW s \in Seq(T), NEW k \in Nat, k + 1 <= Len(s)
    PROVE  Append(m \o SubSeq(s, 1, k), s[k + 1]) = m \o SubSeq(s, 1, k + 1)
<1>1. k + 1 \in 1 .. Len(s) /\ 1 \in 1 .. Len(s) /\ (k + 1) - 1 = k /\ k + 1 \in 1 .. Len(s)
  OBVIOUS
<1> DEFINE t == SubSeq(s, 1, k)
<1>2. t \in Seq(T) /\ s[k + 1] \in T /\ m \o t \in Seq(T) /\ <<s[k + 1]>> \in Seq(T)
  BY <1>1
<1>3. SubSeq(s, 1, k + 1) = t \o <<s[k + 1]>>
  BY <1>1, SubSeqRecursiveSecond
<1> HIDE DEF t
<1>4. Append(m \o t, s[k + 1]) = (m \o t) \o <<s[k + 1]>>
  BY <1>2, AppendIsConcat
<1>5. (m \o t) \o <<s[k + 1]>> = m \o (t \o <<s[k + 1]>>)
  <2> DEFINE e == <<s[k + 1]>>
  <2>1. t \in Seq(T) /\ e \in Seq(T)
    BY <1>2
  <2> HIDE DEF e
  <2>2. (m \o t) \o e = m \o (t \o e)
    BY <2>1, SMTT(20)
  <2> QED
    BY <2>2 DEF e
<1>6. Append(m \o t, s[k + 1]) = m \o SubSeq(s, 1, k + 1)
  BY <1>3, <1>4, <1>5
<1> QED
  BY <1>6 DEF t

\* The fold, one buffer at a time
LEMMA FoldStep ==
    ASSUME NEW g, NEW base, NEW s, NEW n \in Nat, IsFold(g, base, s, n)
    PROVE  /\ g[1 .. 0] = base
           /\ \A k \in 0 .. n - 1 : g[1 .. k + 1] = OnReadData(g[1 .. k], s[k + 1])
<1> DEFINE h(r) == IF r = {} THEN base ELSE OnReadData(g[r \ {Max(r)}], s[Max(r)])
<1>1. g = [r \in SUBSET (1 .. n) |-> h(r)]
  BY DEF IsFold
<1>2. ASSUME NEW t \in SUBSET (1 .. n) PROVE g[t] = h(t)
  <2> HIDE DEF h
  <2> QED
    BY <1>1
<1>3. g[1 .. 0] = base
  <2>1. {} \in SUBSET (1 .. n) /\ 1 .. 0 = {}
    OBVIOUS
  <2>2. g[{}] = h({})
    BY <1>2, <2>1
  <2> QED
    BY <2>1, <2>2
<1>4. ASSUME NEW k \in 0 .. n - 1 PROVE g[1 .. k + 1] = OnReadData(g[1 .. k], s[k + 1])
  <2> DEFINE t == 1 .. k + 1
  <2>1. k \in Nat /\ t \in SUBSET (1 .. n)
    OBVIOUS
  <2>2. g[t] = h(t)
    BY <1>2, <2>1
  <2>3. t # {} /\ Max(t) = k + 1 /\ t \ {k + 1} = 1 .. k
    BY <2>1, UpTo
  <2> QED
    BY <2>2, <2>3
<1> QED
  BY <1>3, <1>4

\* OnReadData for long fragments only collects them.
LEMMA ReadsLong ==
    ASSUME NEW m \in Seq(Fragment), NEW out, NEW s \in Seq(Fragment), NEW f \in Fragment,
           \A i \in 1 .. Len(s) : s[i].long
    PROVE  FoldLeft(OnReadData, [mem |-> m, out |-> out], Append(s, f))
               = OnReadData([mem |-> m \o s, out |-> out], f)
<1> DEFINE n == Len(s)
           all == Append(s, f)
           base == [mem |-> m, out |-> out]
<1>1. n \in Nat /\ DOMAIN all = 1 .. n + 1 /\ all[n + 1] = f /\ all \in Seq(Fragment)
      /\ \A i \in 1 .. n : all[i] = s[i]
  OBVIOUS
<1>2. PICK g : IsFold(g, base, all, n + 1) /\ FoldLeft(OnReadData, base, all) = g[1 .. n + 1]
  <2> HIDE DEF n, base, all
  <2> QED
    BY <1>1, FoldIs
<1> DEFINE Up(k) == [mem |-> m \o SubSeq(s, 1, k), out |-> out]
           S == {k \in Nat : k <= n => g[1 .. k] = Up(k)}
<1>3. g[1 .. 0] = base /\ \A k \in 0 .. n : g[1 .. k + 1] = OnReadData(g[1 .. k], all[k + 1])
  <2> HIDE DEF n, base, all
  <2>1. n + 1 \in Nat /\ (n + 1) - 1 = n
    BY <1>1
  <2> QED
    BY <1>2, <2>1, FoldStep
<1>4. 0 \in S
  <2>1. SubSeq(s, 1, 0) = <<>> /\ m \o <<>> = m
    OBVIOUS
  <2> QED
    BY <1>3, <2>1
<1>5. ASSUME NEW k \in Nat, k \in S PROVE k + 1 \in S
  <2> SUFFICES ASSUME k + 1 <= n PROVE g[1 .. k + 1] = Up(k + 1)
    OBVIOUS
  <2>1. k \in 0 .. n /\ k + 1 \in 1 .. n /\ all[k + 1] = s[k + 1] /\ g[1 .. k] = Up(k)
    BY <1>1, <1>5
  <2>2. g[1 .. k + 1] = OnReadData(Up(k), s[k + 1]) /\ s[k + 1].long
    BY <1>3, <2>1
  <2>3. g[1 .. k + 1] = [mem |-> Append(m \o SubSeq(s, 1, k), s[k + 1]), out |-> out]
    BY <2>2 DEF OnReadData
  <2>4. Append(m \o SubSeq(s, 1, k), s[k + 1]) = m \o SubSeq(s, 1, k + 1)
    BY <2>1, Collected
  <2> QED
    BY <2>3, <2>4
<1>6. n \in S
  <2> HIDE DEF S
  <2> QED
    BY <1>1, <1>4, <1>5, Induction
<1>7. g[1 .. n] = [mem |-> m \o s, out |-> out]
  <2>1. SubSeq(s, 1, n) = s
    BY SubSeqFull
  <2>2. g[1 .. n] = Up(n)
    BY <1>1, <1>6
  <2> QED
    BY <2>1, <2>2
<1>8. g[1 .. n + 1] = OnReadData(g[1 .. n], all[n + 1])
  BY <1>1, <1>3
<1> HIDE DEF n, all
<1>9. FoldLeft(OnReadData, base, all) = OnReadData([mem |-> m \o s, out |-> out], f)
  BY <1>1, <1>2, <1>7, <1>8
<1> QED
  BY <1>9 DEF all

--------------------------------------------------------------------------------

\* The function that FlattenSeq defines
IsFlatten(g, seqs, n) ==
    g = [i \in 1 .. n |-> IF i = 1 THEN seqs[i] ELSE g[i - 1] \o seqs[i]]

\* Its recursion, from left to right
LEMMA FlattenStep ==
    ASSUME NEW g, NEW seqs, NEW n, IsFlatten(g, seqs, n), NEW i \in 1 .. n
    PROVE  g[i] = IF i = 1 THEN seqs[i] ELSE g[i - 1] \o seqs[i]
<1> DEFINE h(j) == IF j = 1 THEN seqs[j] ELSE g[j - 1] \o seqs[j]
<1>1. g = [j \in 1 .. n |-> h(j)]
  BY DEF IsFlatten
<1> HIDE DEF h
<1>2. g[i] = h(i)
  BY <1>1
<1> QED
  BY <1>2 DEF h

\* There is one for every length.
LEMMA FlattenExists ==
    ASSUME NEW seqs
    PROVE  \A n \in Nat : \E g : IsFlatten(g, seqs, n)
<1> DEFINE S == {n \in Nat : \E g : IsFlatten(g, seqs, n)}
<1>1. 0 \in S
  <2> DEFINE g == [i \in 1 .. 0 |-> 0]
  <2>1. IsFlatten(g, seqs, 0)
    BY DEF IsFlatten
  <2> QED
    BY <2>1
<1>2. ASSUME NEW n \in Nat, n \in S PROVE n + 1 \in S
  <2>1. PICK f : IsFlatten(f, seqs, n)
    BY <1>2
  <2> DEFINE g == [i \in 1 .. n + 1 |->
                      IF i <= n THEN f[i] ELSE IF i = 1 THEN seqs[i] ELSE f[i - 1] \o seqs[i]]
             h(i) == IF i = 1 THEN seqs[i] ELSE g[i - 1] \o seqs[i]
  <2>2. ASSUME NEW i \in 1 .. n + 1 PROVE g[i] = h(i)
    <3>1. i # 1 => i - 1 \in 1 .. n /\ i - 1 \in 1 .. n + 1 /\ g[i - 1] = f[i - 1]
      OBVIOUS
    <3>2. i <= n => f[i] = IF i = 1 THEN seqs[i] ELSE f[i - 1] \o seqs[i]
      BY <2>1, FlattenStep
    <3> QED
      BY <3>1, <3>2
  <2>3. IsFlatten(g, seqs, n + 1)
    <3>1. g = [i \in 1 .. n + 1 |-> h(i)]
      BY <2>2
    <3> QED
      BY <3>1 DEF IsFlatten
  <2> HIDE DEF g
  <2> QED
    BY <2>3
<1> HIDE DEF S
<1>3. Nat \subseteq S
  BY <1>1, <1>2, Induction
<1> QED
  BY <1>3 DEF S

\* FlattenSeq is its last value.
LEMMA FlattenIs ==
    ASSUME NEW seqs, NEW n \in Nat \ {0}, Len(seqs) = n
    PROVE  \E g : IsFlatten(g, seqs, n) /\ FlattenSeq(seqs) = g[n]
<1> DEFINE g == CHOOSE f : IsFlatten(f, seqs, n)
<1>1. IsFlatten(g, seqs, n)
  BY FlattenExists
<1>2. FlattenSeq(seqs) = g[n]
  BY DEF FlattenSeq, IsFlatten
<1> QED
  BY <1>1, <1>2

\* Two sequences of sequences that agree up to n
LEMMA FlattenLast ==
    ASSUME NEW g, NEW seqs, NEW m \in Nat, m > 1, IsFlatten(g, seqs, m)
    PROVE  g[m] = g[m - 1] \o seqs[m]
<1>1. m \in 1 .. m /\ m # 1
  OBVIOUS
<1> DEFINE h(j) == IF j = 1 THEN seqs[j] ELSE g[j - 1] \o seqs[j]
<1>2. g = [j \in 1 .. m |-> h(j)]
  BY DEF IsFlatten
<1>3. g[m] = h(m)
  <2> HIDE DEF h
  <2> QED
    BY <1>1, <1>2
<1> QED
  BY <1>1, <1>3

LEMMA FlattenAgrees ==
    ASSUME NEW s, NEW t, NEW n \in Nat, NEW m \in Nat, NEW g, NEW h,
           IsFlatten(g, s, n), IsFlatten(h, t, m), n <= m, \A i \in 1 .. n : s[i] = t[i]
    PROVE  \A i \in 1 .. n : g[i] = h[i]
<1> DEFINE S == {i \in Nat : i + 1 <= n => g[i + 1] = h[i + 1]}
<1>1. \A i \in 1 .. n : /\ g[i] = IF i = 1 THEN s[i] ELSE g[i - 1] \o s[i]
                        /\ h[i] = IF i = 1 THEN t[i] ELSE h[i - 1] \o t[i]
  <2> TAKE i \in 1 .. n
  <2>1. i \in 1 .. n /\ i \in 1 .. m
    OBVIOUS
  <2> QED
    BY <2>1, FlattenStep
<1>2. 0 \in S
  BY <1>1
<1>3. ASSUME NEW i \in Nat, i \in S PROVE i + 1 \in S
  <2> SUFFICES ASSUME i + 2 <= n PROVE g[i + 2] = h[i + 2]
    OBVIOUS
  <2>1. g[i + 1] = h[i + 1] /\ i + 2 \in 1 .. n /\ i + 2 # 1 /\ (i + 2) - 1 = i + 1
    BY <1>3
  <2> QED
    BY <1>1, <2>1
<1>4. Nat \subseteq S
  <2> HIDE DEF S
  <2> QED
    BY <1>2, <1>3, Induction
<1>5. ASSUME NEW i \in 1 .. n PROVE g[i] = h[i]
  <2>1. i - 1 \in S /\ (i - 1) + 1 = i
    BY <1>4
  <2> QED
    BY <2>1
<1> QED
  BY <1>5

\* FlattenSeq one sequence at a time
LEMMA FlattenAppend ==
    ASSUME NEW T, NEW d \in Seq(Seq(T)), NEW u \in Seq(T)
    PROVE  FlattenSeq(Append(d, u)) = FlattenSeq(d) \o u
<1> DEFINE e == Append(d, u)
           n == Len(d)
           m == Len(e)
<1>1. n \in Nat /\ m = n + 1 /\ e[m] = u /\ (\A i \in 1 .. n : d[i] = e[i]) /\ m \in Nat \ {0}
  OBVIOUS
<1>2. PICK h : IsFlatten(h, e, m) /\ FlattenSeq(e) = h[m]
  BY <1>1, FlattenIs
<1>3. CASE n = 0
  <2>1. h[1] = u
    <3> HIDE DEF e, n
    <3> QED
      BY <1>1, <1>2, <1>3 DEF IsFlatten
  <2>2. d = <<>> /\ FlattenSeq(d) = d /\ <<>> \o u = u
    BY <1>3 DEF FlattenSeq
  <2> QED
    BY <1>1, <1>2, <1>3, <2>1, <2>2
<1>4. CASE n # 0
  <2>1. PICK g : IsFlatten(g, d, n) /\ FlattenSeq(d) = g[n]
    BY <1>1, <1>4, FlattenIs
  <2> HIDE DEF e, n, m
  <2>2. g[n] = h[n]
    <3>1. \A i \in 1 .. n : g[i] = h[i]
      <4>1. IsFlatten(g, d, n) /\ IsFlatten(h, e, m) /\ n \in Nat /\ m \in Nat /\ n <= m
        BY <1>1, <1>2, <2>1
      <4> QED
        BY <1>1, <4>1, FlattenAgrees
    <3> QED
      BY <1>1, <1>4, <3>1
  <2>3. h[m] = h[n] \o e[m]
    <3>1. m \in Nat /\ m > 1 /\ m - 1 = n
      BY <1>1, <1>4
    <3>2. h[m] = h[m - 1] \o e[m]
      BY <1>2, <3>1, FlattenLast
    <3> QED
      BY <3>1, <3>2
  <2>4. FlattenSeq(e) = FlattenSeq(d) \o u
    BY <1>1, <1>2, <2>1, <2>2, <2>3
  <2> QED
    BY <2>4 DEF e
<1> QED
  BY <1>1, <1>3, <1>4

\* FlattenSeq of sequences of T is a sequence of T.
LEMMA FlattenType ==
    ASSUME NEW T, NEW d \in Seq(Seq(T))
    PROVE  FlattenSeq(d) \in Seq(T)
<1>1. CASE d = <<>>
  BY <1>1 DEF FlattenSeq
<1>2. CASE d # <<>>
  <2> DEFINE n == Len(d)
  <2>1. n \in Nat \ {0} /\ \A i \in 1 .. n : d[i] \in Seq(T)
    BY <1>2
  <2>2. PICK g : IsFlatten(g, d, n) /\ FlattenSeq(d) = g[n]
    BY <2>1, FlattenIs
  <2> DEFINE S == {i \in Nat : i + 1 <= n => g[i + 1] \in Seq(T)}
  <2>3. \A i \in 1 .. n : g[i] = IF i = 1 THEN d[i] ELSE g[i - 1] \o d[i]
    BY <2>2, FlattenStep
  <2>4. 0 \in S
    BY <2>1, <2>3
  <2>5. ASSUME NEW i \in Nat, i \in S PROVE i + 1 \in S
    <3> SUFFICES ASSUME i + 2 <= n PROVE g[i + 2] \in Seq(T)
      OBVIOUS
    <3>1. g[i + 1] \in Seq(T) /\ i + 2 \in 1 .. n /\ i + 2 # 1 /\ (i + 2) - 1 = i + 1
      BY <2>5
    <3> HIDE DEF n
    <3>2. g[i + 2] = g[i + 1] \o d[i + 2] /\ d[i + 2] \in Seq(T)
      BY <2>1, <2>3, <3>1
    <3> QED
      BY <3>1, <3>2
  <2>6. Nat \subseteq S
    <3> HIDE DEF S
    <3> QED
      BY <2>4, <2>5, Induction
  <2> HIDE DEF n
  <2>7. n - 1 \in Nat /\ (n - 1) + 1 <= n /\ (n - 1) + 1 = n
    BY <2>1
  <2>8. n - 1 \in S
    BY <2>6, <2>7
  <2>9. g[(n - 1) + 1] \in Seq(T)
    BY <2>7, <2>8
  <2> QED
    BY <2>2, <2>7, <2>9
<1> QED
  BY <1>1, <1>2

--------------------------------------------------------------------------------
(* The fragments                                                           *)

\* What the buffers are, whatever was thrown away
Typed ==
    /\ sent \in Seq(Fragment) /\ recv_buffer_vec \in Seq(Fragment) /\ mem_buf \in Seq(Fragment)
    /\ dispatched \in Seq(Seq(Fragment))
    /\ \A i \in 1 .. Len(recv_buffer_vec) : ~recv_buffer_vec[i].last
    /\ \A i \in 1 .. Len(mem_buf) : mem_buf[i].long
    /\ \A u \in 1 .. Len(dispatched) : IsCut(dispatched[u])

\* No fragment is lost between dispatched, mem_buf_ and recv_buffer_vec_.
Joined == FlattenSeq(dispatched) \o mem_buf \o recv_buffer_vec = sent

\* If the lengths tell, only a message that is not finished waits.
Whole ==
    LengthsTell(sent) =>
        /\ \A u \in 1 .. Len(dispatched) : IsMessage(dispatched[u])
        /\ mem_buf = <<>>
        /\ \A i \in 1 .. Len(recv_buffer_vec) : recv_buffer_vec[i].long
        /\ recv_buffer_vec # <<>> => recv_buffer_vec[1].part = 1
        /\ recv_buffer_vec = <<>> => sent = <<>> \/ Last(sent).last

\* As long as no fragment was thrown away
Delivery == Typed /\ (~broken => Joined /\ Whole)

\* All of messages up to n
UpToMsg(s, n) == \A i \in 1 .. Len(s) : s[i].msg <= n

\* All fragments are of messages the server has begun.
Begun ==
    /\ UpToMsg(mem_buf, MessagesBegun) /\ UpToMsg(recv_buffer_vec, MessagesBegun)
    /\ \A u \in 1 .. Len(dispatched) : UpToMsg(dispatched[u], MessagesBegun)

\* What Dispatch has passed on
Heard ==
    /\ heard \in Seq(Seq(Fragment)) /\ Len(heard) <= Len(dispatched)
    /\ \A u \in 1 .. Len(heard) : heard[u] = dispatched[Len(dispatched) - Len(heard) + u]
    /\ \A u \in 1 .. Len(dispatched) - Len(heard) : UpToMsg(dispatched[u], asked)
    /\ asked \in 0 .. MaxMessages
    /\ ~has_dispatcher => heard = <<>> /\ asked = NotAsked

\* Who may have posted a text
Made ==
    /\ constructor = "made" => has_dispatcher
    /\ constructor = "failed" => promise = "false"
    /\ texts \in Nat /\ (texts > 0 => constructor \in {"made", "failed"})

MessagesInv == Delivery /\ Begun /\ Heard /\ Made

--------------------------------------------------------------------------------
\* An element behind two sequences
LEMMA AppendConcat ==
    ASSUME NEW S, NEW s \in Seq(S), NEW t \in Seq(S), NEW e \in S
    PROVE  s \o Append(t, e) = Append(s \o t, e)
OBVIOUS

\* mem_buf_ and the units in b, the units in o being old ones
Buffered(b, o) ==
    /\ b \in [mem : Seq(Fragment), out : Seq(Seq(Fragment))]
    /\ \A i \in 1 .. Len(b.mem) : b.mem[i].long
    /\ \A u \in 1 .. Len(b.out) : IsCut(b.out[u])
    /\ Len(o) <= Len(b.out) /\ \A u \in 1 .. Len(o) : b.out[u] = o[u]

BufferedUpTo(b, n) ==
    UpToMsg(b.mem, n) /\ \A u \in 1 .. Len(b.out) : UpToMsg(b.out[u], n)

\* OnReadData adds a fragment behind the others and cuts behind a short one.
LEMMA OneRead ==
    ASSUME NEW o \in Seq(Seq(Fragment)), NEW b, Buffered(b, o), NEW f \in Fragment,
           NEW c, c = OnReadData(b, f)
    PROVE  /\ Buffered(c, o)
           /\ FlattenSeq(c.out) \o c.mem = Append(FlattenSeq(b.out) \o b.mem, f)
           /\ \A n : BufferedUpTo(b, n) /\ f.msg <= n => BufferedUpTo(c, n)
<1> DEFINE u == Append(b.mem, f)
           d == FlattenSeq(b.out)
<1>1. /\ b.mem \in Seq(Fragment) /\ b.out \in Seq(Seq(Fragment)) /\ f.long \in BOOLEAN
      /\ b \in [mem : Seq(Fragment), out : Seq(Seq(Fragment))]
      /\ \A i \in 1 .. Len(b.mem) : b.mem[i].long
  BY DEF Buffered, Fragment
<1>2. /\ u \in Seq(Fragment) /\ u # <<>> /\ Len(b.mem) \in Nat /\ Len(u) = Len(b.mem) + 1
      /\ u[Len(u)] = f /\ \A i \in 1 .. Len(b.mem) : u[i] = b.mem[i]
      /\ \A i \in 1 .. Len(u) : i = Len(u) \/ i \in 1 .. Len(b.mem)
  <2> DEFINE T == Fragment
             m == b.mem
  <2>1. m \in Seq(T) /\ f \in T /\ u = Append(m, f)
    BY <1>1
  <2> HIDE DEF T, m, u
  <2>2. /\ u \in Seq(T) /\ Len(m) \in Nat /\ Len(u) = Len(m) + 1 /\ u[Len(u)] = f
        /\ \A i \in 1 .. Len(m) : u[i] = m[i]
    BY <2>1
  <2>3. u # <<>> /\ \A i \in 1 .. Len(u) : i = Len(u) \/ i \in 1 .. Len(m)
    BY <2>2
  <2> QED
    BY <2>2, <2>3 DEF m, T
<1>3. \A n : UpToMsg(b.mem, n) /\ f.msg <= n => UpToMsg(u, n)
  <2> HIDE DEF u
  <2> QED
    BY <1>2 DEF UpToMsg
<1>4. d \in Seq(Fragment)
  BY <1>1, FlattenType
<1>5. d \o u = Append(d \o b.mem, f)
  <2> DEFINE T == Fragment
             m == b.mem
  <2>1. d \in Seq(T) /\ m \in Seq(T) /\ f \in T
    BY <1>1, <1>4
  <2> HIDE DEF T, m, d
  <2>2. d \o Append(m, f) = Append(d \o m, f)
    BY <2>1, AppendConcat
  <2> QED
    BY <2>2 DEF m
<1>6. CASE f.long
  <2>0. c = [b EXCEPT !.mem = u]
    BY <1>6 DEF OnReadData
  <2> HIDE DEF u, d
  <2>1. c.mem = u /\ c.out = b.out /\ c \in [mem : Seq(Fragment), out : Seq(Seq(Fragment))]
    BY <1>1, <1>2, <2>0
  <2>2. \A i \in 1 .. Len(u) : u[i].long
    BY <1>1, <1>2, <1>6
  <2>3. Buffered(c, o)
    <3>1. /\ \A i \in 1 .. Len(b.out) : IsCut(b.out[i])
          /\ Len(o) <= Len(b.out) /\ \A i \in 1 .. Len(o) : b.out[i] = o[i]
      BY DEF Buffered
    <3> QED
      BY <2>1, <2>2, <3>1 DEF Buffered
  <2>4. \A n : BufferedUpTo(b, n) /\ f.msg <= n => BufferedUpTo(c, n)
    BY <1>3, <2>1 DEF BufferedUpTo
  <2> QED
    BY <1>5, <2>1, <2>3, <2>4 DEF d
<1>7. CASE ~f.long
  <2>1. c.mem = <<>> /\ c.out = Append(b.out, u) /\ c = [mem |-> c.mem, out |-> c.out]
    BY <1>7 DEF OnReadData, u
  <2> HIDE DEF u, d
  <2>2. IsCut(u)
    <3>1. 1 .. Len(u) - 1 = 1 .. Len(b.mem)
      BY <1>2
    <3> QED
      BY <1>1, <1>2, <1>7, <3>1 DEF IsCut, Last
  <2>3. /\ c.out \in Seq(Seq(Fragment)) /\ Len(c.out) = Len(b.out) + 1 /\ c.out[Len(c.out)] = u
        /\ Len(b.out) \in Nat /\ \A i \in 1 .. Len(b.out) : c.out[i] = b.out[i]
    BY <1>1, <1>2, <2>1
  <2>4. \A i \in 1 .. Len(c.out) : i = Len(c.out) \/ i \in 1 .. Len(b.out)
    BY <2>3
  <2>5. <<>> \in Seq(Fragment) /\ \A i \in 1 .. Len(<<>>) : FALSE
    OBVIOUS
  <2>6. Buffered(c, o)
    <3>1. Len(o) \in Nat /\ Len(o) <= Len(c.out) /\ \A i \in 1 .. Len(o) : i \in 1 .. Len(b.out)
      BY <2>3 DEF Buffered
    <3>2. \A i \in 1 .. Len(o) : c.out[i] = o[i]
      BY <2>3, <3>1 DEF Buffered
    <3>3. \A i \in 1 .. Len(c.out) : IsCut(c.out[i])
      BY <2>2, <2>3, <2>4 DEF Buffered
    <3>4. c \in [mem : Seq(Fragment), out : Seq(Seq(Fragment))]
      BY <2>1, <2>3, <2>5
    <3> QED
      BY <2>1, <2>5, <3>1, <3>2, <3>3, <3>4 DEF Buffered
  <2>7. \A n : BufferedUpTo(b, n) /\ f.msg <= n => BufferedUpTo(c, n)
    <3> TAKE n
    <3> HAVE BufferedUpTo(b, n) /\ f.msg <= n
    <3>1. UpToMsg(u, n) /\ UpToMsg(<<>>, n)
      BY <1>3, <2>5 DEF BufferedUpTo, UpToMsg
    <3>2. \A i \in 1 .. Len(c.out) : UpToMsg(c.out[i], n)
      BY <2>3, <2>4, <3>1 DEF BufferedUpTo
    <3> QED
      BY <2>1, <3>1, <3>2 DEF BufferedUpTo
  <2>8. FlattenSeq(c.out) \o c.mem = d \o u
    <3>1. FlattenSeq(c.out) = d \o u
      BY <1>1, <1>2, <2>1, FlattenAppend DEF d
    <3>2. d \o u \in Seq(Fragment)
      BY <1>2, <1>4
    <3>3. (d \o u) \o <<>> = d \o u
      BY <3>2, ConcatEmptySeq
    <3> QED
      BY <2>1, <3>1, <3>3
  <2> QED
    BY <1>5, <2>6, <2>7, <2>8 DEF d
<1> QED
  BY <1>1, <1>6, <1>7

\* All the buffers, one by one
LEMMA AllRead ==
    ASSUME NEW o \in Seq(Seq(Fragment)), NEW base, Buffered(base, o), NEW s \in Seq(Fragment),
           NEW c, c = FoldLeft(OnReadData, base, s)
    PROVE  /\ Buffered(c, o)
           /\ FlattenSeq(c.out) \o c.mem = (FlattenSeq(base.out) \o base.mem) \o s
           /\ \A n : BufferedUpTo(base, n) /\ UpToMsg(s, n) => BufferedUpTo(c, n)
<1> DEFINE n == Len(s)
           p == FlattenSeq(base.out) \o base.mem
<1>1. n \in Nat /\ DOMAIN s = 1 .. n
  OBVIOUS
<1>2. PICK g : IsFold(g, base, s, n) /\ c = g[1 .. n]
  <2> HIDE DEF n
  <2> QED
    BY <1>1, FoldIs
<1> DEFINE h(k) == g[1 .. k]
<1>3. h(0) = base /\ h(n) = c /\ \A k \in 0 .. n - 1 : h(k + 1) = OnReadData(h(k), s[k + 1])
  <2> HIDE DEF n
  <2>1. n \in Nat /\ IsFold(g, base, s, n)
    BY <1>1, <1>2
  <2>2. g[1 .. 0] = base
    BY <2>1, FoldStep
  <2>3. \A k \in 0 .. n - 1 : g[1 .. k + 1] = OnReadData(g[1 .. k], s[k + 1])
    BY <2>1, FoldStep
  <2> QED
    BY <1>2, <2>2, <2>3
<1> HIDE DEF h
<1>4. p \in Seq(Fragment)
  <2>1. base.out \in Seq(Seq(Fragment)) /\ base.mem \in Seq(Fragment)
    BY DEF Buffered
  <2>2. FlattenSeq(base.out) \in Seq(Fragment)
    BY <2>1, FlattenType
  <2> QED
    BY <2>1, <2>2
<1> DEFINE Good(k) == /\ Buffered(h(k), o)
                      /\ FlattenSeq(h(k).out) \o h(k).mem = p \o SubSeq(s, 1, k)
                      /\ \A m : BufferedUpTo(base, m) /\ UpToMsg(s, m) => BufferedUpTo(h(k), m)
           S == {k \in Nat : k <= n => Good(k)}
<1>5. 0 \in S
  <2> HIDE DEF p
  <2>1. SubSeq(s, 1, 0) = <<>> /\ p \o <<>> = p
    BY <1>4, SubSeqEmpty, ConcatEmptySeq
  <2> QED
    BY <1>3, <2>1 DEF p
<1>6. ASSUME NEW k \in Nat, k \in S PROVE k + 1 \in S
  <2> SUFFICES ASSUME k + 1 <= n PROVE Good(k + 1)
    <3> HIDE DEF Good, n
    <3>1. (k + 1 <= n => Good(k + 1)) => k + 1 \in S
      OBVIOUS
    <3> QED
      BY <3>1
  <2>1. k \in 0 .. n - 1 /\ k + 1 \in 1 .. n /\ s[k + 1] \in Fragment /\ k <= n
    BY <1>1
  <2>2. Good(k)
    BY <1>6, <2>1
  <2> DEFINE b == h(k)
             e == h(k + 1)
             f == s[k + 1]
  <2>3. e = OnReadData(b, f) /\ Buffered(b, o) /\ f \in Fragment
    BY <1>3, <2>1, <2>2
  <2>4. FlattenSeq(b.out) \o b.mem = p \o SubSeq(s, 1, k)
    BY <2>2
  <2>5. \A m : BufferedUpTo(base, m) /\ UpToMsg(s, m) => BufferedUpTo(b, m) /\ f.msg <= m
    BY <2>1, <2>2 DEF UpToMsg
  <2>6. Append(p \o SubSeq(s, 1, k), f) = p \o SubSeq(s, 1, k + 1)
    <3> HIDE DEF p
    <3> QED
      BY <1>4, <2>1, Collected
  <2> HIDE DEF b, e, f, p
  <2>7. /\ Buffered(e, o)
        /\ FlattenSeq(e.out) \o e.mem = Append(FlattenSeq(b.out) \o b.mem, f)
        /\ \A m : BufferedUpTo(b, m) /\ f.msg <= m => BufferedUpTo(e, m)
    BY <2>3, OneRead
  <2> QED
    BY <2>4, <2>5, <2>6, <2>7 DEF e
<1>7. n \in S
  <2> HIDE DEF S
  <2> QED
    BY <1>1, <1>5, <1>6, Induction
<1>8. SubSeq(s, 1, n) = s
  BY SubSeqFull
<1>9. Good(n)
  <2> HIDE DEF Good, n
  <2>1. n <= n
    BY <1>1
  <2> QED
    BY <1>7, <2>1
<1> HIDE DEF n, p
<1> QED
  BY <1>3, <1>8, <1>9 DEF p

--------------------------------------------------------------------------------
\* One fragment read: it is stored, or the message is handed over.
Stored(f) ==
    /\ ~f.last
    /\ recv_buffer_vec' = Append(recv_buffer_vec, f)
    /\ UNCHANGED <<mem_buf, dispatched>>

Now == [mem |-> mem_buf, out |-> dispatched]

HandedOver(f) ==
    /\ f.last
    /\ recv_buffer_vec' = <<>>
    /\ Buffered(Now', dispatched)
    /\ FlattenSeq(dispatched') \o mem_buf'
           = (FlattenSeq(dispatched) \o mem_buf) \o Append(recv_buffer_vec, f)
    /\ \A n : BufferedUpTo(Now, n) /\ UpToMsg(Append(recv_buffer_vec, f), n) => BufferedUpTo(Now', n)
    /\ (\A i \in 1 .. Len(recv_buffer_vec) : recv_buffer_vec[i].long) =>
           Now' = OnReadData([mem |-> mem_buf \o recv_buffer_vec, out |-> dispatched], f)

\* What HandleFrame does
LEMMA HandleFrameEffect ==
    ASSUME Typed, NEW f \in NextFragments, HandleFrame(f)
    PROVE  /\ f \in Fragment
           /\ sent' = Append(sent, f) /\ UNCHANGED broken
           /\ Stored(f) \/ HandedOver(f)
<1> DEFINE all == Append(recv_buffer_vec, f)
           c == FoldLeft(OnReadData, Now, all)
<1>1. f \in Fragment /\ f.last \in BOOLEAN
  BY DEF NextFragments, Fragment
<1>2. /\ sent' = Append(sent, f) /\ UNCHANGED broken
      /\ f.last => recv_buffer_vec' = <<>> /\ mem_buf' = c.mem /\ dispatched' = c.out
      /\ ~f.last => recv_buffer_vec' = all /\ UNCHANGED <<mem_buf, dispatched>>
  BY DEF HandleFrame, Now
<1>3. CASE ~f.last
  BY <1>1, <1>2, <1>3 DEF Stored
<1>4. CASE f.last
  <2>1. recv_buffer_vec \in Seq(Fragment) /\ all \in Seq(Fragment)
        /\ mem_buf \in Seq(Fragment) /\ dispatched \in Seq(Seq(Fragment))
    BY <1>1 DEF Typed
  <2>2. Buffered(Now, dispatched) /\ Now.mem = mem_buf /\ Now.out = dispatched
    BY <2>1 DEF Typed, Buffered, Now
  <2> HIDE DEF all
  <2>3. /\ Buffered(c, dispatched)
        /\ FlattenSeq(c.out) \o c.mem = (FlattenSeq(dispatched) \o mem_buf) \o all
        /\ \A n : BufferedUpTo(Now, n) /\ UpToMsg(all, n) => BufferedUpTo(c, n)
    BY <2>1, <2>2, AllRead
  <2>4. ASSUME \A i \in 1 .. Len(recv_buffer_vec) : recv_buffer_vec[i].long
        PROVE  c = OnReadData([mem |-> mem_buf \o recv_buffer_vec, out |-> dispatched], f)
    BY <1>1, <2>1, <2>4, ReadsLong DEF Now, all
  <2>5. c = [mem |-> c.mem, out |-> c.out]
    <3> HIDE DEF c
    <3> QED
      BY <2>3 DEF Buffered
  <2>6. Now' = c
    BY <1>2, <1>4, <2>5 DEF Now
  <2> HIDE DEF c
  <2> QED
    BY <1>1, <1>2, <1>4, <2>3, <2>4, <2>6 DEF HandedOver, all
<1> QED
  BY <1>1, <1>3, <1>4

\* The ends of a sequence with one more element
LEMMA AppendLast ==
    ASSUME NEW T, NEW s \in Seq(T), NEW e \in T
    PROVE  /\ Append(s, e) # <<>> /\ Append(s, e)[Len(Append(s, e))] = e
           /\ Append(s, e)[1] = IF s = <<>> THEN e ELSE s[1]
OBVIOUS

\* UpToMsg is monotonic.
LEMMA BelowMore ==
    ASSUME NEW s \in Seq(Fragment), NEW m \in Int, NEW n \in Int, m <= n, UpToMsg(s, m)
    PROVE  UpToMsg(s, n)
<1>1. \A i \in 1 .. Len(s) : s[i] \in Fragment
  OBVIOUS
<1>2. \A i \in 1 .. Len(s) : s[i].msg \in Nat
  BY <1>1 DEF Fragment
<1> QED
  BY <1>2 DEF UpToMsg

\* The server begins its messages in order.
LEMMA BegunGrows ==
    ASSUME sent \in Seq(Fragment), NEW f \in NextFragments, sent' = Append(sent, f)
    PROVE  /\ MessagesBegun \in Nat /\ MessagesBegun' \in Nat /\ MessagesBegun <= MessagesBegun'
           /\ MessagesBegun' = f.msg
<1>0. f \in Fragment
  BY DEF NextFragments
<1>1. sent' # <<>> /\ Last(sent') = f /\ MessagesBegun' = f.msg
  <2>1. sent' # <<>> /\ sent'[Len(sent')] = f
    BY <1>0, AppendLast, Zenon
  <2> QED
    BY <2>1 DEF MessagesBegun, Last
<1>2. sent # <<>> => Last(sent).msg \in Nat
  <2>1. sent # <<>> => sent[Len(sent)] \in Fragment
    OBVIOUS
  <2> QED
    BY <2>1 DEF Last, Fragment
<1>3. f.msg \in Nat
  BY <1>0 DEF Fragment
<1>4. f.msg = IF sent = <<>> THEN 1 ELSE IF Last(sent).last THEN Last(sent).msg + 1
              ELSE Last(sent).msg
  BY DEF NextFragments
<1> QED
  BY <1>1, <1>2, <1>3, <1>4 DEF MessagesBegun

\* What the buffers are stays so.
LEMMA ReadTyped ==
    ASSUME Typed, NEW f \in Fragment, Stored(f) \/ HandedOver(f), sent' = Append(sent, f)
    PROVE  Typed'
<1>1. sent' \in Seq(Fragment)
  BY DEF Typed
<1>2. CASE Stored(f)
  <2> DEFINE r == Append(recv_buffer_vec, f)
  <2>1. /\ r \in Seq(Fragment) /\ r[Len(r)] = f
        /\ \A i \in 1 .. Len(r) : i = Len(r) \/ (i \in 1 .. Len(recv_buffer_vec) /\ r[i] = recv_buffer_vec[i])
    BY DEF Typed
  <2>2. ~f.last /\ recv_buffer_vec' = r /\ mem_buf' = mem_buf /\ dispatched' = dispatched
    BY <1>2 DEF Stored
  <2> HIDE DEF r
  <2>3. \A i \in 1 .. Len(r) : ~r[i].last
    BY <2>1, <2>2 DEF Typed
  <2> QED
    BY <1>1, <2>1, <2>2, <2>3 DEF Typed, IsCut
<1>3. CASE HandedOver(f)
  <2>1. recv_buffer_vec' = <<>> /\ Buffered(Now', dispatched)
    BY <1>3 DEF HandedOver
  <2>2. /\ mem_buf' \in Seq(Fragment) /\ dispatched' \in Seq(Seq(Fragment))
        /\ \A i \in 1 .. Len(mem_buf') : mem_buf'[i].long
        /\ \A u \in 1 .. Len(dispatched') : IsCut(dispatched'[u])
    BY <2>1 DEF Buffered, Now
  <2>3. <<>> \in Seq(Fragment) /\ \A i \in 1 .. Len(<<>>) : FALSE
    OBVIOUS
  <2> QED
    BY <1>1, <2>1, <2>2, <2>3 DEF Typed, IsCut
<1> QED
  BY <1>2, <1>3

\* No buffer has a message the server has not begun.
LEMMA ReadBegun ==
    ASSUME Typed, Begun, NEW f \in NextFragments, f \in Fragment,
           Stored(f) \/ HandedOver(f), sent' = Append(sent, f)
    PROVE  Begun'
<1> DEFINE n == MessagesBegun'
           r == Append(recv_buffer_vec, f)
<1>1. /\ MessagesBegun \in Nat /\ n \in Nat /\ MessagesBegun <= n /\ n = f.msg
  BY BegunGrows DEF Typed
<1> HIDE DEF n
<1>2. ASSUME NEW s \in Seq(Fragment), UpToMsg(s, MessagesBegun) PROVE UpToMsg(s, n)
  BY <1>1, <1>2, BelowMore
<1>3. UpToMsg(mem_buf, n) /\ UpToMsg(recv_buffer_vec, n)
      /\ \A v \in 1 .. Len(dispatched) : UpToMsg(dispatched[v], n)
  BY <1>2 DEF Begun, Typed
<1>4. UpToMsg(<<>>, n) /\ UpToMsg(r, n)
  <2> DEFINE T == Fragment
  <2>1. r = Append(recv_buffer_vec, f) /\ recv_buffer_vec \in Seq(T) /\ f \in T
    BY DEF Typed
  <2> HIDE DEF r, T
  <2>2. /\ r[Len(r)] = f /\ \A i \in 1 .. Len(recv_buffer_vec) : r[i] = recv_buffer_vec[i]
        /\ \A i \in 1 .. Len(r) : i = Len(r) \/ i \in 1 .. Len(recv_buffer_vec)
    BY <2>1
  <2>3. \A i \in 1 .. Len(<<>>) : FALSE
    OBVIOUS
  <2> QED
    BY <1>1, <1>3, <2>2, <2>3 DEF UpToMsg
<1> HIDE DEF r
<1>5. CASE Stored(f)
  <2>1. recv_buffer_vec' = r /\ mem_buf' = mem_buf /\ dispatched' = dispatched
    BY <1>5 DEF Stored, r
  <2>2. /\ UpToMsg(mem_buf', n) /\ UpToMsg(recv_buffer_vec', n)
        /\ \A v \in 1 .. Len(dispatched') : UpToMsg(dispatched'[v], n)
    BY <1>3, <1>4, <2>1
  <2> QED
    BY <2>2 DEF Begun, UpToMsg, n
<1>6. CASE HandedOver(f)
  <2>1. BufferedUpTo(Now, n)
    BY <1>3 DEF BufferedUpTo, Now
  <2>2. recv_buffer_vec' = <<>> /\ BufferedUpTo(Now', n)
    BY <1>4, <1>6, <2>1 DEF HandedOver, r
  <2>3. UpToMsg(mem_buf', n) /\ \A v \in 1 .. Len(dispatched') : UpToMsg(dispatched'[v], n)
    BY <2>2 DEF BufferedUpTo, Now
  <2> QED
    BY <1>4, <2>2, <2>3 DEF Begun, UpToMsg, n
<1> QED
  BY <1>5, <1>6

\* Nothing is lost, doubled or moved by a read.
LEMMA ReadJoined ==
    ASSUME Typed, Joined, NEW f \in Fragment, Stored(f) \/ HandedOver(f), sent' = Append(sent, f)
    PROVE  Joined'
<1> DEFINE d == FlattenSeq(dispatched)
           T == Fragment
           p == d \o mem_buf
           r == recv_buffer_vec
<1>1. /\ mem_buf \in Seq(T) /\ r \in Seq(T) /\ f \in T /\ dispatched \in Seq(Seq(T))
  BY DEF Typed
<1>2. d \in Seq(T)
  BY <1>1, FlattenType
<1>3. p \in Seq(T) /\ sent = p \o r
  BY <1>1, <1>2 DEF Joined
<1> HIDE DEF T, p, r
<1>4. p \o Append(r, f) = sent' /\ sent' \in Seq(T)
  <2>1. p \o Append(r, f) = Append(p \o r, f)
    BY <1>1, <1>3, AppendConcat
  <2> QED
    BY <1>1, <1>3, <2>1
<1>5. CASE Stored(f)
  <2>1. recv_buffer_vec' = Append(r, f) /\ mem_buf' = mem_buf /\ dispatched' = dispatched
    BY <1>5 DEF Stored, r
  <2>2. FlattenSeq(dispatched') \o mem_buf' \o recv_buffer_vec' = p \o Append(r, f)
    BY <2>1 DEF p
  <2> QED
    BY <1>4, <2>2 DEF Joined
<1>6. CASE HandedOver(f)
  <2>1. recv_buffer_vec' = <<>> /\ FlattenSeq(dispatched') \o mem_buf' = p \o Append(r, f)
    BY <1>6 DEF HandedOver, p, r
  <2>2. (p \o Append(r, f)) \o <<>> = p \o Append(r, f)
    BY <1>4, ConcatEmptySeq
  <2> QED
    BY <1>4, <2>1, <2>2 DEF Joined
<1> QED
  BY <1>5, <1>6

\* If the lengths tell, a message is dispatched when its last fragment is read.
LEMMA ReadWhole ==
    ASSUME Typed, Whole, NEW f \in NextFragments, f \in Fragment,
           Stored(f) \/ HandedOver(f), sent' = Append(sent, f)
    PROVE  Whole'
<1> SUFFICES ASSUME LengthsTell(sent')
             PROVE  /\ \A u \in 1 .. Len(dispatched') : IsMessage(dispatched'[u])
                    /\ mem_buf' = <<>>
                    /\ \A i \in 1 .. Len(recv_buffer_vec') : recv_buffer_vec'[i].long
                    /\ recv_buffer_vec' # <<>> => recv_buffer_vec'[1].part = 1
                    /\ recv_buffer_vec' = <<>> => sent' = <<>> \/ Last(sent').last
  BY DEF Whole, IsMessage, LengthsTell
<1> DEFINE r == Append(recv_buffer_vec, f)
<1>1. /\ sent \in Seq(Fragment) /\ recv_buffer_vec \in Seq(Fragment) /\ f.last \in BOOLEAN /\ f.long \in BOOLEAN
      /\ dispatched \in Seq(Seq(Fragment)) /\ sent' = Append(sent, f)
  BY DEF Typed, Fragment
<1>2. /\ Len(sent) \in Nat /\ Len(sent') = Len(sent) + 1 /\ sent'[Len(sent')] = f /\ sent' # <<>>
      /\ \A i \in 1 .. Len(sent) : sent'[i] = sent[i]
  BY <1>1
<1>3. LengthsTell(sent) /\ (f.last <=> ~f.long)
  <2>1. /\ \A i \in 1 .. Len(sent) : i \in 1 .. Len(sent')
        /\ Len(sent') \in 1 .. Len(sent')
    BY <1>2
  <2> QED
    BY <1>2, <2>1 DEF LengthsTell
<1>4. /\ \A u \in 1 .. Len(dispatched) : IsMessage(dispatched[u])
      /\ mem_buf = <<>>
      /\ \A i \in 1 .. Len(recv_buffer_vec) : recv_buffer_vec[i].long
      /\ recv_buffer_vec # <<>> => recv_buffer_vec[1].part = 1
      /\ recv_buffer_vec = <<>> => sent = <<>> \/ Last(sent).last
  BY <1>3 DEF Whole
<1>5. /\ r \in Seq(Fragment) /\ r # <<>> /\ r[1] = IF recv_buffer_vec = <<>> THEN f ELSE recv_buffer_vec[1]
      /\ Len(r) = Len(recv_buffer_vec) + 1 /\ r[Len(r)] = f /\ Len(recv_buffer_vec) \in Nat
      /\ \A i \in 1 .. Len(recv_buffer_vec) : r[i] = recv_buffer_vec[i]
  BY <1>1
<1> HIDE DEF r
<1>6. \A i \in 1 .. Len(r) : i = Len(r) \/ i \in 1 .. Len(recv_buffer_vec)
  BY <1>5
<1>7. r[1].part = 1
  BY <1>4, <1>5 DEF NextFragments
<1>8. CASE Stored(f)
  <2>1. ~f.last /\ recv_buffer_vec' = r /\ mem_buf' = mem_buf /\ dispatched' = dispatched
    BY <1>8 DEF Stored, r
  <2>2. \A i \in 1 .. Len(r) : r[i].long
    BY <1>3, <1>4, <1>5, <1>6, <2>1
  <2> QED
    BY <1>4, <1>5, <1>7, <2>1, <2>2
<1>9. CASE HandedOver(f)
  <2>1. /\ f.last /\ recv_buffer_vec' = <<>>
        /\ Now' = OnReadData([mem |-> mem_buf \o recv_buffer_vec, out |-> dispatched], f)
    BY <1>4, <1>9 DEF HandedOver
  <2>2. mem_buf \o recv_buffer_vec = recv_buffer_vec
    BY <1>1, <1>4, ConcatEmptySeq
  <2>3. Now' = [mem |-> <<>>, out |-> Append(dispatched, r)]
    BY <1>3, <2>1, <2>2 DEF OnReadData, r
  <2>4. mem_buf' = <<>> /\ dispatched' = Append(dispatched, r)
    BY <2>3 DEF Now
  <2>5. IsMessage(r)
    <3>1. \A i \in 1 .. Len(recv_buffer_vec) : ~recv_buffer_vec[i].last /\ i # Len(r)
      BY <1>5 DEF Typed
    <3>2. ASSUME NEW i \in 1 .. Len(r) PROVE r[i].last <=> i = Len(r)
      <4>1. CASE i = Len(r)
        BY <1>5, <2>1, <4>1
      <4>2. CASE i \in 1 .. Len(recv_buffer_vec)
        BY <1>5, <3>1, <4>2
      <4> QED
        BY <1>6, <4>1, <4>2
    <3> QED
      BY <1>7, <3>2 DEF IsMessage
  <2>6. \A u \in 1 .. Len(dispatched') : IsMessage(dispatched'[u])
    <3>1. \A u \in 1 .. Len(dispatched') :
              dispatched'[u] = r \/ (u \in 1 .. Len(dispatched) /\ dispatched'[u] = dispatched[u])
      <4> DEFINE T == Seq(Fragment)
                 d == dispatched
                 e == dispatched'
      <4>1. d \in Seq(T) /\ r \in T /\ e = Append(d, r)
        BY <1>5, <2>4 DEF Typed
      <4> HIDE DEF T, d, e
      <4>2. /\ e[Len(e)] = r /\ \A i \in 1 .. Len(d) : e[i] = d[i]
            /\ \A i \in 1 .. Len(e) : i = Len(e) \/ i \in 1 .. Len(d)
        BY <4>1
      <4>3. \A i \in 1 .. Len(e) : e[i] = r \/ (i \in 1 .. Len(d) /\ e[i] = d[i])
        BY <4>2
      <4> QED
        BY <4>3 DEF d, e
    <3> QED
      BY <1>4, <2>5, <3>1
  <2>7. Last(sent').last
    BY <1>2, <2>1 DEF Last
  <2>8. \A i \in 1 .. Len(<<>>) : FALSE
    OBVIOUS
  <2> QED
    BY <2>1, <2>4, <2>6, <2>7, <2>8
<1> QED
  BY <1>8, <1>9

\* What the fragments may do in a step
LEMMA FramesOf ==
    ASSUME [Next]_vars
    PROVE  \/ UNCHANGED frames
           \/ \E f \in NextFragments : HandleFrame(f)
           \/ /\ \E f \in NextFragments : sent' = Append(sent, f)
              /\ broken' = TRUE /\ UNCHANGED <<recv_buffer_vec, mem_buf, dispatched>>
           \/ /\ recv_buffer_vec' = <<>> /\ broken' = (broken \/ recv_buffer_vec # <<>>)
              /\ UNCHANGED <<sent, mem_buf, dispatched>>
<1>1. CASE ReadFragment
  BY <1>1 DEF ReadFragment
<1>2. CASE ReadPingOrPong
  BY <1>2 DEF ReadPingOrPong
<1>3. CASE ReadClose
  BY <1>3 DEF ReadClose
<1>4. CASE ReadResponse
  BY <1>4 DEF ReadResponse, frames
<1>5. CASE UNCHANGED vars
  BY <1>5 DEF vars
<1>6. CASE ConnectInvoke \/ Close \/ OnTimer \/ TcpConnected \/ TcpFails \/ ReadError \/ PongTimeout
  BY <1>6 DEF ConnectInvoke, Close, OnTimer, TcpConnected, TcpFails, ReadError, PongTimeout
<1> QED
  BY <1>1, <1>2, <1>3, <1>4, <1>5, <1>6 DEF Next

\* No fragment yet
LEMMA BegunInit == Init => Delivery /\ Begun
<1> SUFFICES ASSUME Init PROVE Delivery /\ Begun
  OBVIOUS
<1>1. /\ sent = <<>> /\ recv_buffer_vec = <<>> /\ mem_buf = <<>> /\ dispatched = <<>>
      /\ <<>> \in Seq(Fragment) /\ <<>> \in Seq(Seq(Fragment)) /\ Len(<<>>) = 0
      /\ 1 .. 0 = {} /\ FlattenSeq(<<>>) = <<>> /\ <<>> \o <<>> \o <<>> = <<>>
  BY DEF Init, FlattenSeq
<1> QED
  BY <1>1 DEF Delivery, Typed, Joined, Whole, Begun, UpToMsg

\* Every handler keeps the fragments in order.
LEMMA DeliveryStep == Delivery /\ Begun /\ [Next]_vars => Delivery' /\ Begun'
<1> SUFFICES ASSUME Delivery, Begun, [Next]_vars PROVE Delivery' /\ Begun'
  OBVIOUS
<1>1. CASE UNCHANGED frames
  <2>1. UNCHANGED <<sent, broken, recv_buffer_vec, mem_buf, dispatched>>
    BY <1>1 DEF frames
  <2>2. Typed'
    BY <2>1 DEF Delivery, Typed, IsCut
  <2>3. Joined => Joined'
    BY <2>1 DEF Joined
  <2>4. Whole => Whole'
    BY <2>1 DEF Whole, IsMessage, LengthsTell
  <2>5. Begun'
    BY <2>1 DEF Begun, UpToMsg, MessagesBegun
  <2> QED
    BY <2>1, <2>2, <2>3, <2>4, <2>5 DEF Delivery
<1>2. ASSUME NEW f \in NextFragments, HandleFrame(f) PROVE Delivery' /\ Begun'
  <2>1. /\ f \in Fragment
        /\ sent' = Append(sent, f) /\ UNCHANGED broken
        /\ Stored(f) \/ HandedOver(f)
    BY <1>2, HandleFrameEffect DEF Delivery
  <2>2. Typed' /\ Begun'
    BY <2>1, ReadTyped, ReadBegun DEF Delivery
  <2>3. (Joined => Joined') /\ (Whole => Whole')
    BY <2>1, ReadJoined, ReadWhole DEF Delivery
  <2> QED
    BY <2>1, <2>2, <2>3 DEF Delivery
<1>3. ASSUME NEW f \in NextFragments, sent' = Append(sent, f), broken' = TRUE,
             UNCHANGED <<recv_buffer_vec, mem_buf, dispatched>>
      PROVE  Delivery' /\ Begun'
  <2>1. Typed'
    <3>1. f \in Fragment
      BY DEF NextFragments
    <3>2. sent' \in Seq(Fragment)
      BY <1>3, <3>1 DEF Delivery, Typed
    <3> QED
      BY <1>3, <3>2 DEF Delivery, Typed, IsCut
  <2>2. MessagesBegun \in Nat /\ MessagesBegun' \in Nat /\ MessagesBegun <= MessagesBegun'
    BY <1>3, BegunGrows DEF Delivery, Typed
  <2>3. Begun'
    <3>1. /\ UpToMsg(mem_buf, MessagesBegun') /\ UpToMsg(recv_buffer_vec, MessagesBegun')
          /\ \A u \in 1 .. Len(dispatched) : UpToMsg(dispatched[u], MessagesBegun')
      BY <2>2, BelowMore DEF Delivery, Typed, Begun
    <3> QED
      BY <1>3, <3>1 DEF Begun
  <2> QED
    BY <1>3, <2>1, <2>3 DEF Delivery
<1>4. ASSUME recv_buffer_vec' = <<>>, broken' = (broken \/ recv_buffer_vec # <<>>),
             UNCHANGED <<sent, mem_buf, dispatched>>
      PROVE  Delivery' /\ Begun'
  <2>1. Typed' /\ Begun'
    <3>1. <<>> \in Seq(Fragment) /\ \A i \in 1 .. Len(<<>>) : FALSE
      OBVIOUS
    <3> QED
      BY <1>4, <3>1 DEF Delivery, Typed, IsCut, Begun, UpToMsg, MessagesBegun
  <2>2. ~broken' => ~broken /\ recv_buffer_vec' = recv_buffer_vec
    BY <1>4
  <2>3. ~broken' => Joined' /\ Whole'
    BY <1>4, <2>2 DEF Delivery, Joined, Whole, IsMessage, LengthsTell
  <2> QED
    BY <2>1, <2>3 DEF Delivery
<1> QED
  BY <1>1, <1>2, <1>3, <1>4, FramesOf

\* A handler gives the dispatchers further units.
LEMMA DispatchedOf ==
    ASSUME Delivery, [Next]_vars
    PROVE  /\ dispatched' \in Seq(Seq(Fragment)) /\ Len(dispatched) <= Len(dispatched')
           /\ \A u \in 1 .. Len(dispatched) : dispatched'[u] = dispatched[u]
<1>1. dispatched \in Seq(Seq(Fragment)) /\ Len(dispatched) \in Nat
  BY DEF Delivery, Typed
<1>2. CASE dispatched' = dispatched
  BY <1>1, <1>2
<1>3. ASSUME NEW f \in NextFragments, HandleFrame(f)
      PROVE  dispatched' = dispatched \/ Buffered(Now', dispatched)
  BY <1>3, HandleFrameEffect DEF Delivery, Stored, HandedOver
<1>4. dispatched' = dispatched \/ Buffered(Now', dispatched)
  BY <1>3, FramesOf DEF frames
<1>5. CASE Buffered(Now', dispatched)
  BY <1>5 DEF Buffered, Now
<1> QED
  BY <1>2, <1>4, <1>5

--------------------------------------------------------------------------------

\* IsSuffix, element by element
LEMMA SuffixIs ==
    ASSUME NEW T, NEW s \in Seq(T), NEW t \in Seq(T), Len(s) <= Len(t),
           \A i \in 1 .. Len(s) : s[i] = t[Len(t) - Len(s) + i]
    PROVE  IsSuffix(s, t)
<1> DEFINE r == Reverse(s)
           q == Reverse(t)
<1>1. /\ r \in Seq(T) /\ Len(r) = Len(s) /\ q \in Seq(T) /\ Len(q) = Len(t)
      /\ \A i \in 1 .. Len(s) : r[i] = s[(Len(s) - i) + 1]
      /\ \A i \in 1 .. Len(t) : q[i] = t[(Len(t) - i) + 1]
  BY DEF Reverse
<1>2. ASSUME NEW i \in 1 .. Len(s) PROVE r[i] = q[i]
  <2>1. (Len(s) - i) + 1 \in 1 .. Len(s) /\ i \in 1 .. Len(t)
        /\ Len(t) - Len(s) + ((Len(s) - i) + 1) = (Len(t) - i) + 1
    OBVIOUS
  <2> QED
    BY <1>1, <2>1
<1> HIDE DEF r, q
<1>3. SubSeq(r, 1, Len(r)) = SubSeq(q, 1, Len(r))
  BY <1>1, <1>2
<1> QED
  BY <1>1, <1>3 DEF IsSuffix, IsPrefix, r, q

\* A text is only sent through a client that has its dispatcher, or that was told
\* a failure.
LEMMA MadeStep ==
    ASSUME IInv, Made, [FactoryNext]_factory_vars
    PROVE  Made'
<1>1. CASE UNCHANGED factory_vars
  BY <1>1 DEF factory_vars, app_vars, Made, vars, outer, future
<1>2. CASE Construct
  BY <1>2 DEF Construct, Made, vars, outer, future
<1>3. CASE FutureReturns
  BY <1>3 DEF FutureReturns, Made, vars, outer, future, IInv, ReadyAfterAnswer
<1>4. CASE AddDispatcher
  BY <1>4 DEF AddDispatcher, Made, vars, outer, future
<1>5. CASE OnSendText
  BY <1>5 DEF OnSendText, Made, vars, outer, future
<1>6. CASE SendText
  BY <1>6 DEF SendText, Made, vars, outer, future
<1>7. CASE HandlerRuns
  <2>1. promise = "false" => promise' = "false"
    BY <1>7 DEF HandlerRuns, Handler, ConnectInvoke, Close, OnTimer, TcpConnected, TcpFails,
                ReadResponse, HandleHttpRespone, Connected, ConnectedLate, ReadFragment,
                ReadPingOrPong, ReadClose, ReadError, PongTimeout, OnClose, TellFailure, outer, future
  <2> QED
    BY <1>7, <2>1 DEF HandlerRuns, Made
<1> QED
  BY <1>1, <1>2, <1>3, <1>4, <1>5, <1>6, <1>7 DEF FactoryNext

\* The transport hears the units that are dispatched after it was added; the ones
\* before are of messages begun before the first text went out.
LEMMA HeardStep ==
    ASSUME IInv, Delivery, Begun, Heard, Made, [FactoryNext]_factory_vars
    PROVE  Heard'
<1>1. CASE UNCHANGED <<dispatched, heard, asked, has_dispatcher>>
  BY <1>1 DEF Heard, UpToMsg, NotAsked
<1>2. CASE AddDispatcher
  BY <1>2 DEF AddDispatcher, Heard, UpToMsg, NotAsked, vars, frames
<1>3. CASE SendText
  <2>1. UNCHANGED <<dispatched, heard, has_dispatcher>>
    BY <1>3 DEF SendText, vars, frames
  <2>2. CASE asked' = asked
    BY <2>1, <2>2 DEF Heard, UpToMsg, NotAsked
  <2>3. CASE is_connected /\ asked' = MessagesBegun
    <3>1. has_dispatcher
      BY <1>3, <2>3 DEF SendText, Made, IInv, FailedStaysFailed
    <3>2. MessagesBegun \in 0 .. MaxMessages
      <4>1. sent # <<>> => sent[Len(sent)] \in Fragment
        BY DEF Delivery, Typed
      <4> QED
        BY <4>1, BoundsAssumption DEF MessagesBegun, Last, Fragment
    <3>3. \A u \in 1 .. Len(dispatched) - Len(heard) : UpToMsg(dispatched[u], MessagesBegun)
      <4>1. Len(dispatched) - Len(heard) <= Len(dispatched) /\ Len(dispatched) \in Nat
            /\ Len(heard) \in Nat
        BY DEF Heard, Delivery, Typed
      <4> QED
        BY <4>1 DEF Begun
    <3> QED
      BY <2>1, <2>3, <3>1, <3>2, <3>3 DEF Heard, UpToMsg
  <2> QED
    BY <1>3, <2>2, <2>3 DEF SendText
<1>4. CASE HandlerRuns
  <2>1. Dispatch /\ UNCHANGED <<asked, has_dispatcher>>
    BY <1>4 DEF HandlerRuns
  <2>2. /\ dispatched' \in Seq(Seq(Fragment)) /\ Len(dispatched) <= Len(dispatched')
        /\ \A u \in 1 .. Len(dispatched) : dispatched'[u] = dispatched[u]
    BY FactoryStepsAreSteps, DispatchedOf
  <2>3. /\ dispatched \in Seq(Seq(Fragment)) /\ heard \in Seq(Seq(Fragment))
        /\ Len(dispatched) \in Nat /\ Len(heard) \in Nat /\ Len(heard) <= Len(dispatched)
        /\ Len(dispatched') \in Nat
    BY <2>2 DEF Delivery, Typed, Heard
  <2> DEFINE m == Len(dispatched)
             n == Len(dispatched')
             h == Len(heard)
             new == SubSeq(dispatched', m + 1, n)
  <2>4. CASE has_dispatcher
    <3>1. new \in Seq(Seq(Fragment)) /\ Len(new) = n - m /\ \A i \in 1 .. n - m : new[i] = dispatched'[m + i]
      <4>1. \A i \in m + 1 .. n : dispatched'[i] \in Seq(Fragment)
        BY <2>2, <2>3
      <4>2. /\ SubSeq(dispatched', m + 1, n) \in Seq(Seq(Fragment))
            /\ Len(SubSeq(dispatched', m + 1, n)) = IF m + 1 <= n THEN n - (m + 1) + 1 ELSE 0
            /\ \A i \in 1 .. n - (m + 1) + 1 :
                   SubSeq(dispatched', m + 1, n)[i] = dispatched'[(m + 1) + i - 1]
        <5>1. m + 1 \in Int /\ n \in Int
          BY <2>3
        <5> HIDE DEF m, n
        <5> QED
          BY <4>1, <5>1, SubSeqProperties
      <4>3. n - (m + 1) + 1 = n - m /\ \A i \in 1 .. n - m : (m + 1) + i - 1 = m + i
        BY <2>3
      <4> HIDE DEF m, n
      <4> QED
        BY <2>2, <2>3, <4>2, <4>3 DEF m, n
    <3>2. heard' = heard \o new
      BY <2>1, <2>4 DEF Dispatch
    <3> HIDE DEF new
    <3>3. /\ heard' \in Seq(Seq(Fragment)) /\ Len(heard') = h + (n - m)
          /\ \A i \in 1 .. h + (n - m) : heard'[i] = IF i <= h THEN heard[i] ELSE new[i - h]
      <4>1. /\ heard \o new \in Seq(Seq(Fragment)) /\ Len(heard \o new) = Len(heard) + Len(new)
            /\ \A i \in 1 .. Len(heard) + Len(new) :
                   (heard \o new)[i] = IF i <= Len(heard) THEN heard[i] ELSE new[i - Len(heard)]
        <5> DEFINE T == Seq(Fragment)
                   s == heard
        <5>1. s \in Seq(T) /\ new \in Seq(T)
          BY <2>3, <3>1
        <5> HIDE DEF T, s
        <5>2. /\ s \o new \in Seq(T) /\ Len(s \o new) = Len(s) + Len(new)
              /\ \A i \in 1 .. Len(s) + Len(new) :
                     (s \o new)[i] = IF i <= Len(s) THEN s[i] ELSE new[i - Len(s)]
          BY <5>1, ConcatProperties
        <5> QED
          BY <5>2 DEF T, s
      <4> HIDE DEF m, n
      <4> QED
        BY <3>1, <3>2, <4>1
    <3>4. n - Len(heard') = m - h /\ Len(heard') <= n
      BY <2>2, <2>3, <3>3
    <3>5. ASSUME NEW i \in 1 .. Len(heard') PROVE heard'[i] = dispatched'[n - Len(heard') + i]
      <4>1. CASE i <= h
        <5>1. i \in 1 .. h /\ (m - h) + i \in 1 .. m
          BY <2>3, <3>3, <4>1
        <5>2. heard[i] = dispatched[m - h + i]
          BY <5>1 DEF Heard
        <5> QED
          BY <2>2, <3>3, <3>4, <4>1, <5>1, <5>2
      <4>2. CASE ~(i <= h)
        <5>1. i - h \in 1 .. n - m /\ (m - h) + i = m + (i - h)
          BY <2>3, <3>3, <4>2
        <5>2. heard'[i] = new[i - h]
          BY <3>3, <4>2
        <5>3. new[i - h] = dispatched'[m + (i - h)]
          BY <3>1, <5>1
        <5> QED
          BY <3>4, <5>1, <5>2, <5>3
      <4> QED
        BY <4>1, <4>2
    <3>6. \A i \in 1 .. n - Len(heard') : UpToMsg(dispatched'[i], asked')
      <4> TAKE i \in 1 .. n - Len(heard')
      <4>1. i \in 1 .. m - h /\ i \in 1 .. m
        BY <2>3, <3>4
      <4> QED
        BY <2>1, <2>2, <4>1 DEF Heard
    <3> QED
      BY <2>1, <2>4, <3>3, <3>4, <3>5, <3>6 DEF Heard, UpToMsg
  <2>5. CASE ~has_dispatcher
    <3>1. heard' = <<>> /\ asked' = MaxMessages
      BY <2>1, <2>5 DEF Dispatch, Heard, NotAsked
    <3>2. \A i \in 1 .. n : UpToMsg(dispatched'[i], MaxMessages)
      <4> TAKE i \in 1 .. n
      <4> DEFINE s == dispatched'[i]
      <4>1. \A j \in 1 .. Len(s) : s[j] \in Fragment
        BY <2>2
      <4> QED
        BY <4>1 DEF UpToMsg, Fragment
    <3>3. Len(<<>>) = 0 /\ <<>> \in Seq(Seq(Fragment)) /\ n - 0 = n
      BY <2>3
    <3> QED
      BY <2>1, <2>3, <2>5, <3>1, <3>2, <3>3, BoundsAssumption DEF Heard, UpToMsg, NotAsked
  <2> QED
    BY <2>4, <2>5
<1>5. CASE Construct \/ FutureReturns \/ OnSendText
  BY <1>1, <1>5 DEF Construct, FutureReturns, OnSendText, vars, frames
<1>6. CASE UNCHANGED factory_vars
  BY <1>1, <1>6 DEF factory_vars, app_vars, vars, frames
<1> QED
  BY <1>2, <1>3, <1>4, <1>5, <1>6 DEF FactoryNext

\* Before the first handler
LEMMA MessagesInitially == FactoryInit => MessagesInv
<1> SUFFICES ASSUME FactoryInit PROVE MessagesInv
  OBVIOUS
<1>1. Delivery /\ Begun /\ dispatched = <<>>
  BY BegunInit DEF FactoryInit, Init
<1>2. <<>> \in Seq(Seq(Fragment)) /\ Len(<<>>) = 0 /\ 0 - 0 = 0 /\ 1 .. 0 = {}
      /\ MaxMessages \in 0 .. MaxMessages
  BY BoundsAssumption
<1>3. Heard
  BY <1>1, <1>2 DEF FactoryInit, Heard, NotAsked
<1>4. Made
  BY DEF FactoryInit, Made
<1> QED
  BY <1>1, <1>3, <1>4 DEF MessagesInv

\* The invariant of the messages, on top of that of the connection
LEMMA MessagesInvariance == FactorySpec => []MessagesInv
<1>1. MessagesInv /\ IInv /\ [FactoryNext]_factory_vars => MessagesInv'
  BY FactoryStepsAreSteps, DeliveryStep, MadeStep, HeardStep DEF MessagesInv
<1> QED
  BY MessagesInitially, Invariance, <1>1, PTL DEF FactorySpec

\* As long as none is thrown away, the dispatchers get every fragment of the server
\* once and in order, cut behind each one of less than 4096 bytes, and whole messages
\* if only their last fragments are that short (HandleFrame, OnReadData).
THEOREM MessagesAreDelivered == FactorySpec => []DeliversMessages
<1>1. MessagesInv => DeliversMessages
  BY DEF MessagesInv, Delivery, Typed, Joined, Whole, DeliversMessages
<1> QED
  BY MessagesInvariance, <1>1, PTL

\* A message begun after the server got the first text of the application reaches
\* RtcTransport, whenever the constructor adds it (AddDispatcher, OnReadData).
THEOREM AnswersHeard == FactorySpec => []AnswersAreHeard
<1>1. MessagesInv => AnswersAreHeard
  <2> SUFFICES ASSUME MessagesInv PROVE AnswersAreHeard
    OBVIOUS
  <2>1. IsSuffix(heard, dispatched)
    BY SuffixIs DEF MessagesInv, Heard, Delivery, Typed
  <2> QED
    BY <2>1 DEF MessagesInv, Heard, UpToMsg, AnswersAreHeard
<1> QED
  BY MessagesInvariance, <1>1, PTL

--------------------------------------------------------------------------------
(* NetworkThread                                                           *)

\* No thread is about to signal when the loop neither will look at the list
\* nor was signalled.  SignalNotLost, with the loop also at work on a list.
Signalled ==
    loop \in {"poll", "run"} /\ task_lists # <<>> =>
        async \/ \E c \in Threads : at[c] = "pushed"

\* The owner posts when every caller is gone, so nothing is behind its task.
OwnerIsLast ==
    /\ posted[Owner] \in {0, 1}
    /\ posted[Owner] # 0 => \A c \in Callers : at[c] = "gone"
    /\ \A i \in 1 .. Len(task_lists) : task_lists[i].by = Owner => posted[Owner] # 0
    /\ \A i \in 1 .. Len(tasks) : tasks[i].by = Owner => posted[Owner] # 0 /\ task_lists = <<>>
    /\ closing => posted[Owner] # 0 /\ task_lists = <<>>

\* The list at hand is empty except while the loop executes it.
LoopState ==
    /\ loop # "run" => tasks = <<>>
    /\ closing => loop \in {"run", "closing", "exit"}
    /\ loop \in {"closing", "exit"} => closing

ThreadInv == ThreadTypeOK /\ Signalled /\ OwnerIsLast /\ LoopState

--------------------------------------------------------------------------------
\* The loop over the list, as the abstract queue sees it
LEMMA HeadTailConcat ==
    ASSUME NEW S, NEW s \in Seq(S), NEW t \in Seq(S), s # <<>>
    PROVE  /\ s \o t # <<>>
           /\ Head(s \o t) = Head(s)
           /\ Tail(s \o t) = Tail(s) \o t
           /\ Tail(s) \in Seq(S)
           /\ Head(s) \in S
<1>1. s \o t # <<>> /\ Head(s \o t) = Head(s) /\ Head(s) \in S /\ Tail(s) \in Seq(S)
  BY SMT
<1>2. Tail(s \o t) = Tail(s) \o t
  BY <1>1, SMTT(30)
<1> QED
  BY <1>1, <1>2

--------------------------------------------------------------------------------
\* The first state satisfies the invariant.
LEMMA ThreadInitInvariant == ThreadInit => ThreadInv
<1> SUFFICES ASSUME ThreadInit PROVE ThreadInv
  OBVIOUS
<1> USE DEF ThreadInit
<1>1. ThreadTypeOK
  <2>1. <<>> \in Seq(Task)
    OBVIOUS
  <2>2. 0 \in 0 .. MaxPosts /\ Owner \in Threads
    BY MaxPostsAssumption DEF Threads
  <2>3. /\ posted \in [Threads -> 0 .. MaxPosts] /\ posted[Owner] <= 1
        /\ at \in [Threads -> {"idle", "pushed", "waiting", "gone"}]
    BY <2>2
  <2> QED
    BY <2>1, <2>3 DEF ThreadTypeOK
<1>2. Signalled /\ OwnerIsLast /\ LoopState
  BY DEF Signalled, OwnerIsLast, LoopState, Threads
<1> QED
  BY <1>1, <1>2 DEF ThreadInv

\* Every step keeps the types.
LEMMA ThreadTypeStep ==
    ASSUME ThreadTypeOK, [ThreadNext]_thread_vars
    PROVE  ThreadTypeOK'
<1> USE DEF ThreadTypeOK
<1>1. ASSUME NEW c \in Threads, Push(c), posted[c] < MaxPosts,
             c = Owner => posted[c] = 0
      PROVE  ThreadTypeOK'
  <2>1. posted' \in [Threads -> 0 .. MaxPosts] /\ posted'[Owner] <= 1
    BY <1>1, MaxPostsAssumption DEF Push, Threads
  <2>2. Latest(c)' \in Task
    BY <1>1, <2>1, MaxPostsAssumption DEF Push, Latest, Task
  <2>3. task_lists' \in Seq(Task)
    BY <1>1, <2>2 DEF Push
  <2> QED
    BY <1>1, <2>1, <2>3 DEF Push
<1>2. ASSUME NEW c \in Threads, NEW next \in {"waiting", "idle"},
             Send(c, next) \/ Get(c) \/ Leave(c)
      PROVE  ThreadTypeOK'
  <2>1. at' \in [Threads -> {"idle", "pushed", "waiting", "gone"}]
    BY <1>2 DEF Send, Get, Leave
  <2>2. async' \in BOOLEAN
    BY <1>2 DEF Send, Get, Leave
  <2> QED
    BY <1>2, <2>1, <2>2 DEF Send, Get, Leave
<1>3. ASSUME NEW c \in Callers, Caller(c)
      PROVE  ThreadTypeOK'
  BY <1>1, <1>2, <1>3, OwnerAssumption DEF Caller, Threads
<1>4. CASE Destructor
  <2>1. CASE posted[Owner] = 0 /\ Push(Owner)
    BY <1>1, <2>1, MaxPostsAssumption DEF Threads
  <2> QED
    BY <1>2, <1>4, <2>1 DEF Destructor, Threads
<1>5. CASE Join
  BY <1>5 DEF Join, Threads
<1>6. CASE Wake
  BY <1>6 DEF Wake
<1>7. CASE Swap
  BY <1>7 DEF Swap
<1>8. CASE Return
  <2>1. loop' \in {"closing", "poll"}
    BY <1>8 DEF Return
  <2> QED
    BY <1>8, <2>1 DEF Return
<1>9. CASE OnAsyncClose
  BY <1>9 DEF OnAsyncClose
<1>10. CASE Execute
  <2>1. Head(tasks) \in Task /\ Tail(tasks) \in Seq(Task)
    BY <1>10, HeadTailConcat DEF Execute
  <2>2. executed' \in Seq(Task)
    BY <1>10, <2>1, AppendProperties DEF Execute
  <2>3. closing' \in BOOLEAN
    BY <1>10 DEF Execute
  <2> QED
    BY <1>10, <2>1, <2>2, <2>3 DEF Execute
<1>11. CASE UNCHANGED thread_vars
  BY <1>11 DEF thread_vars
<1> QED
  BY <1>3, <1>4, <1>5, <1>6, <1>7, <1>8, <1>9, <1>10, <1>11 DEF ThreadNext, Loop

\* Every step keeps the signal: a thread that has pushed will signal, and the
\* loop takes the signal before it takes the list.
LEMMA SignalStep ==
    ASSUME ThreadTypeOK, Signalled, [ThreadNext]_thread_vars
    PROVE  Signalled'
<1> USE DEF ThreadTypeOK, Signalled
<1>1. ASSUME NEW c \in Threads, Push(c) PROVE Signalled'
  <2>1. at'[c] = "pushed"
    BY <1>1 DEF Push
  <2> QED
    BY <2>1
<1>2. ASSUME NEW c \in Threads, NEW next \in {"waiting", "idle"}, Send(c, next)
      PROVE  Signalled'
  BY <1>2 DEF Send
<1>3. ASSUME NEW c \in Threads, Get(c) \/ Leave(c) PROVE Signalled'
  BY <1>3 DEF Get, Leave
<1>4. CASE Join
  BY <1>4 DEF Join
<1>5. CASE Loop
  BY <1>5 DEF Loop, Wake, Swap, Execute, Return, OnAsyncClose
<1>6. CASE UNCHANGED thread_vars
  BY <1>6 DEF thread_vars
<1>7. ASSUME NEW c \in Callers, Caller(c) PROVE Signalled'
  BY <1>1, <1>2, <1>3, <1>7 DEF Caller, Threads
<1>8. CASE Destructor
  BY <1>1, <1>2, <1>3, <1>8 DEF Destructor, Threads
<1> QED
  BY <1>4, <1>5, <1>6, <1>7, <1>8 DEF ThreadNext

\* What the loop has at hand follows from where it is; the owner's task closes.
LEMMA LoopStep ==
    ASSUME ThreadTypeOK, LoopState, [ThreadNext]_thread_vars
    PROVE  LoopState'
<1> USE DEF ThreadTypeOK, LoopState
<1>1. CASE Loop
  BY <1>1 DEF Loop, Wake, Swap, Execute, Return, OnAsyncClose
<1>2. CASE UNCHANGED <<loop, tasks, closing>>
  BY <1>2
<1> QED
  BY <1>1, <1>2 DEF ThreadNext, Caller, Destructor, Join, Push, Send, Get, Leave, thread_vars

\* Nobody pushes behind the owner's task: the owner posts once, when every
\* caller is gone.
LEMMA OwnerStep ==
    ASSUME ThreadTypeOK, OwnerIsLast, LoopState, [ThreadNext]_thread_vars
    PROVE  OwnerIsLast'
<1> USE DEF ThreadTypeOK, OwnerIsLast
<1>1. ASSUME NEW c \in Callers, Push(c) PROVE OwnerIsLast'
  <2>1. posted[Owner] = 0 /\ posted'[Owner] = 0
    BY <1>1, OwnerAssumption DEF Push, Threads
  <2>2. ~closing' /\ tasks' = tasks
    BY <1>1, <2>1 DEF Push
  <2>3. Latest(c)'.by = c /\ c # Owner
    BY OwnerAssumption DEF Latest
  <2>4. \A i \in 1 .. Len(task_lists') : task_lists'[i].by # Owner
    BY <1>1, <2>1, <2>3 DEF Push
  <2> QED
    BY <2>1, <2>2, <2>4
<1>2. ASSUME Push(Owner), posted[Owner] = 0, \A c \in Callers : at[c] = "gone"
      PROVE  OwnerIsLast'
  <2>1. posted'[Owner] = 1
    BY <1>2 DEF Push, Threads
  <2>2. \A c \in Callers : at'[c] = "gone"
    BY <1>2, OwnerAssumption DEF Push, Threads
  <2>3. ~closing' /\ \A i \in 1 .. Len(tasks') : tasks'[i].by # Owner
    BY <1>2 DEF Push
  <2> QED
    BY <2>1, <2>2, <2>3
<1>3. ASSUME NEW c \in Threads, NEW next \in {"waiting", "idle"},
             Send(c, next) \/ Get(c) \/ Leave(c)
      PROVE  OwnerIsLast'
  <2>1. UNCHANGED <<task_lists, tasks, closing, posted>>
    BY <1>3 DEF Send, Get, Leave
  <2>2. ASSUME NEW d \in Callers, at[d] = "gone" PROVE at'[d] = "gone"
    BY <1>3, <2>2 DEF Send, Get, Leave, Threads
  <2> QED
    BY <2>1, <2>2
<1>4. CASE Join
  BY <1>4, OwnerAssumption DEF Join, Threads
<1>5. CASE Swap
  <2>1. ~closing /\ tasks' = task_lists /\ task_lists' = <<>>
    BY <1>5 DEF Swap, LoopState
  <2> QED
    BY <1>5, <2>1 DEF Swap
<1>6. CASE Execute
  <2>1. Head(tasks) = tasks[1] /\ 1 \in 1 .. Len(tasks)
    BY <1>6 DEF Execute
  <2>2. closing' => posted[Owner] # 0 /\ task_lists = <<>>
    BY <1>6, <2>1 DEF Execute
  <2>3. \A i \in 1 .. Len(tasks') : i + 1 \in 1 .. Len(tasks) /\ tasks'[i] = tasks[i + 1]
    BY <1>6, HeadTailProperties DEF Execute
  <2>4. \A i \in 1 .. Len(tasks') : tasks'[i].by = Owner => posted[Owner] # 0 /\ task_lists = <<>>
    BY <2>3
  <2> QED
    BY <1>6, <2>2, <2>4 DEF Execute
<1>7. CASE Wake \/ Return \/ OnAsyncClose
  BY <1>7 DEF Wake, Return, OnAsyncClose
<1>8. CASE UNCHANGED thread_vars
  BY <1>8 DEF thread_vars
<1>9. ASSUME NEW c \in Callers, Caller(c) PROVE OwnerIsLast'
  BY <1>1, <1>3, <1>9 DEF Caller, Threads
<1>10. CASE Destructor
  BY <1>2, <1>3, <1>10 DEF Destructor, Threads
<1> QED
  BY <1>4, <1>5, <1>6, <1>7, <1>8, <1>9, <1>10 DEF ThreadNext, Loop

\* The invariant holds in every state.
THEOREM ThreadInvariance == ThreadSpec => []ThreadInv
<1>1. ThreadInv /\ [ThreadNext]_thread_vars => ThreadInv'
  BY ThreadTypeStep, SignalStep, LoopStep, OwnerStep DEF ThreadInv
<1> QED
  BY ThreadInitInvariant, <1>1, PTL DEF ThreadSpec

\* Every variable of NetworkThread keeps its type.
THEOREM ThreadTypeCorrect == ThreadSpec => []ThreadTypeOK
<1>1. ThreadInv => ThreadTypeOK
  BY DEF ThreadInv
<1> QED
  BY ThreadInvariance, <1>1, PTL

\* No wakeup is lost between the push_back and the uv_async_send of Post
\* (network_thread.h:48-61) and the swap of OnAsyncTask.
THEOREM NoLostWakeup == ThreadSpec => []SignalNotLost
<1>1. ThreadInv => SignalNotLost
  BY DEF ThreadInv, Signalled, SignalNotLost
<1> QED
  BY ThreadInvariance, <1>1, PTL

\* When the destructor has stopped the loop nothing is left to execute, the
\* tasks nobody waits for included (network_thread.cpp:101-115).
THEOREM StopsWhenEmpty == ThreadSpec => []ExitLeavesNothing
<1>1. ThreadInv => ExitLeavesNothing
  BY DEF ThreadInv, OwnerIsLast, LoopState, ExitLeavesNothing
<1> QED
  BY ThreadInvariance, <1>1, PTL

--------------------------------------------------------------------------------
(* The refinement                                                          *)

\* A step of NetworkThread is a post, an execution or nothing to TaskQueue.
LEMMA StepRefines ==
    ASSUME ThreadTypeOK, LoopState, [ThreadNext]_thread_vars
    PROVE  [Queue!Next]_(Queue!vars)
<1> USE DEF ThreadTypeOK, Queue!Next, Queue!vars
<1>1. ASSUME NEW c \in Threads, Push(c), posted[c] < MaxPosts PROVE Queue!Next
  <2>1. Latest(c)' \in Task
    BY <1>1, MaxPostsAssumption DEF Push, Latest, Task
  <2>2. tasks \o Append(task_lists, Latest(c)') = Append(tasks \o task_lists, Latest(c)')
    BY <2>1, AppendConcat
  <2>3. Queue!Post(Latest(c)')
    BY <1>1, <2>2 DEF Push, Queue!Post
  <2> QED
    BY <2>1, <2>3
<1>2. CASE Execute
  <2>1. /\ tasks \o task_lists # <<>>
        /\ Head(tasks \o task_lists) = Head(tasks)
        /\ Tail(tasks \o task_lists) = Tail(tasks) \o task_lists
    BY <1>2, HeadTailConcat DEF Execute
  <2>2. Queue!Execute
    BY <1>2, <2>1 DEF Execute, Queue!Execute
  <2> QED
    BY <2>2
<1>3. CASE Swap
  <2>1. tasks = <<>>
    BY <1>3 DEF Swap, LoopState
  <2>2. tasks' \o task_lists' = tasks \o task_lists
    BY <1>3, <2>1, ConcatEmptySeq DEF Swap
  <2> QED
    BY <1>3, <2>2 DEF Swap
<1>4. CASE UNCHANGED <<tasks, task_lists, executed>>
  BY <1>4
<1>5. CASE Destructor
  <2>1. Push(Owner) /\ posted[Owner] = 0 => posted[Owner] < MaxPosts
    BY MaxPostsAssumption
  <2> QED
    BY <1>1, <1>4, <1>5, <2>1 DEF Destructor, Threads, Send, Get
<1>6. ASSUME NEW c \in Callers, Caller(c) PROVE [Queue!Next]_(Queue!vars)
  BY <1>1, <1>4, <1>6 DEF Caller, Threads, Send, Get, Leave
<1> QED
  BY <1>2, <1>3, <1>4, <1>5, <1>6
     DEF ThreadNext, Loop, Join, Wake, Return, OnAsyncClose, thread_vars

\* NetworkThread executes what it is given once and in the order of the posts:
\* it implements the safety part of TaskQueue (of ExecutesInOrder).
THEOREM ImplementsTaskQueue == ThreadSpec => Queue!Safe
<1>1. ThreadInit => Queue!Init
  BY DEF ThreadInit, Queue!Init
<1>2. ThreadInv /\ [ThreadNext]_thread_vars => [Queue!Next]_(Queue!vars)
  BY StepRefines DEF ThreadInv
<1> QED
  BY ThreadInvariance, <1>1, <1>2, PTL DEF ThreadSpec, Queue!Safe
==================================================================================
