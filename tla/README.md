# A verification project for the Bifrost SDK

This directory holds TLA+ specifications of the Bifrost SDK's own code
(`src/api`, `src/core`, and the websocket client in `src/deps/cpp_websocket`),
the TLC configurations that check them, and TLAPS proofs of the safety properties
that the runs check.  Paths below are relative to `src/`.

* To check a run: `tlc -config X.cfg M.tla` (the table of runs gives the pairs).
* To check the proofs: `tlapm M.tla` for each of the modules `*Proofs.tla`.

## 1. Inventory

The SDK receives synthesised speech: it connects to a server with a websocket,
takes RTP packets out of the binary messages, puts them in order and hands them
to the application.  It can also send RTP packets by UDP, answer NACKs and
exchange RTCP reports.

| component | state it keeps | operations | meets the rest by |
|---|---|---|---|
| `NetworkThread` (`core/*/io/network_thread.*`) | list of posted tasks, libuv loop | `Post`, `Task`, `OnAsyncTask`, destructor | tasks from every thread; runs all I/O and all timers |
| `TimerHandle` (`core/*/utils/timer_handler*`) | a `uv_timer_t`, closed or not | `InitInvoke`, `StartInvoke`, `StopInvoke`, `CloseInvoke` ... | the `Invoke` forms post a task and wait for it |
| `CallBackQueueThread`, `ThreadRtpPacketQueue` (`core/*/rtc/callback_queue_thread.*`) | ordered map of packets, wrap count, next number to pop; a consumer thread, a timer | `Push`, `Pop`, `OnTimer`, destructor | pushed by the network thread; calls the listener on its own thread |
| `RtcTransport` (`core/*/rtc/rtc_transport.*`) | maps ssrc → stream, `thread_mutex_` | `CreateRtpStream`, `DeleteRtpStream`, `OnSendPacket`, `SendRtcpPacket`, `Dispatch` | called by application threads and by the network thread |
| `RtpStream` (`core/*/rtc/rtp_stream.*`) | highest number, cycles, candidate for a re-sync | `ReceiveStreamPacket` | base of sender and receiver |
| `RtpStreamReceiver` | totals for the receiver report, times of the sender's report, a `NackGenerator` | `ReceivePacket`, `GetRtcpReceiverReport`, `ReceiveRtcpSenderReport` | network thread |
| `NackGenerator` | ordered list of missing numbers, ordered set of key frames | `ReceivePacket`, (timer, never started) | called by the receiver; tells it what to ask for |
| `RtpStreamSender` | a retransmission buffer, round-trip time, two counters | `ReceivePacket`, `ReceiveNack`, `GetRtcpSenderReport`, `ReceiveRtcpReceiverReport` | application threads and network thread |
| `RtpRetransmissionBuffer` | deque of sent packets, blank slots for gaps | `Insert`, `Get`, `Clear` | the sender |
| `SeqManager` | (comparators of numbers that wrap) | `IsSeqLowerThan`, `IsSeqHigherThan` | everywhere |
| RTCP packets (`core/*/rtc/rtcp`) | a packet that is being built or read | `CompoundPacket::AddReceiverReport` ..., `RtcpPacket::Parse`, `Serialize` | the transport |
| `RateCalculator`, `RtpDataCounter` | ring of window items | `Update`, `GetRate` | the streams |
| `CopyOnWriteBuffer`, `Buffer`, `scoped_refptr` (`core/*/utils`) | bytes, their memory, who shares it | construction, `SetData`, `AppendData`, `SetSize`, `Slice`, copies and moves | `HeartbeatPacket` and `UdpSocket::SendInvoke` only, which takes one to the network thread; RTP packets have memory of their own |
| `CoreIO::WebsocketClient` (`core/include/io/websocket_client.h`) | promise of the connection, flags, message buffer | `ConnectInvoke`, `Close`, `SendTextInvoke`, handlers | on top of `cpp_websocket`; dispatches to `RtcTransport` |
| `cpp_websocket` (`deps/cpp_websocket`) | response, fragments, three flags | TCP, HTTP and websocket layers | libuv callbacks on the network thread |
| `RtcFactory` (`api/`) | owns all of the above | the public interface | the application |
| `DecodedSmoothPCMQueue` (`api/rtc_factory.*`) | decoded frames, count of frames to smooth | `Push`, `Pop`, `SetAllFrameNeedSmooth` | an example program |
| `NetIOFactory`, `UdpSocket` | thin layers over libuv | | |

### What is hard here, and what must hold

* **Three kinds of threads**: application threads, the network thread, the
  consumer thread of each queue.  They meet in `NetworkThread::Post` (a push and a
  signal that may merge with others), in `thread_mutex_` of the transport, and in
  the two condition variables of the packet queue, one of which waits without a
  predicate.  No task, wakeup or packet may be lost, and waiting must end.
* **Waiting for the network thread**: the `Invoke` functions post a task and block.
  Done under a mutex the network thread takes, or on the network thread itself,
  that never ends.
* **16-bit numbers** that wrap, seen out of order, late, twice or never: the queue,
  the stream, the NACK list and the retransmission buffer each compare them in
  their own way and must agree with the numbers that were really sent.
* **Ordered containers whose order is cyclic** (`SeqLowerThan`): an order only
  among keys within half of the range.
* **Objects destroyed while they are used**: streams and their timers.
* **Memory shared between threads**: a buffer that is tested for being shared in one
  step and copied in the next, while others share, change and drop it.
* **A connection that is late, refused, lost or closed** while `ConnectInvoke`'s
  promise, three layers of flags and half a message are pending, and while the
  constructor of `RtcFactory` waits for all this.
* **Requests and reports that are lost, repeated or late**: the same NACK twice
  within a round-trip time, an RTCP report that answers an older one, a compact
  time that wraps, a packet that is too small for all reports.

`PROJECT.json` lists each hazard at its line.

## 2. Modules

| module | what it models | composed with |
|---|---|---|
| `InOrderDelivery` | abstract: frames delivered in order, each once, and promptly | |
| `PacketQueue` | `CallBackQueueThread` + `ThreadRtpPacketQueue`: loop thread, consumer, owner | implements `InOrderDelivery` (`DeliversInOrder`) |
| `TaskQueue` | abstract: tasks executed once, in the order of the posts, and in the end | |
| `NetworkThread` | `NetworkThread`: callers, owner, libuv loop | implements `TaskQueue` (`ExecutesInOrder`) |
| `SeqArith` | the comparators of `SeqManager`, unsigned sums and differences | used by the next three |
| `RetransmissionBuffer` | `RtpRetransmissionBuffer::Insert`, `Get` and what they call | |
| `RtpStreamSender` | `ReceivePacket`, `ReceiveNack`, `FillRetransmissionContainer` | extends `RetransmissionBuffer` |
| `NackGenerator` | `NackGenerator::ReceivePacket` and what it calls | |
| `RtpStream` | `RtpStream::UpdateSequence`, `GetRtcpReceiverReport` | |
| `RtpStreamReceiver` | `RtpStreamReceiver::ReceivePacket` | extends `RtpStream`, instantiates `NackGenerator` |
| `RtcTransport` | the maps, the mutex and the lifetimes of streams and timers | uses the network thread as the `TaskQueue` that `NetworkThread` implements |
| `RtcpPacket` | building, cutting and parsing compound packets | |
| `RtcpReports` | reports exchanged by two transports over a lossy network | extends `RtcpPacket` |
| `WebsocketClient` | `CoreIO::WebsocketClient` on top of `cpp_websocket` | |
| `RtcFactory` | the constructor, `OnSendText` and the dispatcher | extends `WebsocketClient` |
| `RateCalculator` | the ring of `RateCalculator` | |
| `ValueBuffers` | abstract: byte strings, each object its own | |
| `CopyOnWriteBuffer` | `CopyOnWriteBuffer`, `Buffer`, reference counts, `HeartbeatPacket` | implements `ValueBuffers` (`EachItsOwn`) |
| `MCPacketQueue`, `MCRtpStreamSender`, `MCRtcpReports`, `MCCopyOnWriteBuffer` | instances for TLC: packets, NACKs, hosts, symmetry | |
| `PacketQueueProofs`, `RtpStreamProofs`, `NackGeneratorProofs`, `RetransmissionBufferProofs`, `RtcTransportProofs`, `RtcFactoryProofs`, `CopyOnWriteBufferProofs`, `RtcpReportsProofs` | proofs | `RtpStreamProofs` is about `RtpStreamReceiver` and `RateCalculator`, `RetransmissionBufferProofs` about `RtpStreamSender` too, `RtcFactoryProofs` about `WebsocketClient`, `RtcFactory` and `NetworkThread` |

Variables have the names of the members they stand for (without the final `_`);
actions have the names of the functions, or of the step of a function that is
atomic.  The ghost ("history") variables are marked in each module.  A definition
`X_Y` is `X` with a plausible bug `Y`; no specification uses it, it shows that
some property notices such a bug.

### How the state and the actions correspond to the code

**PacketQueue.**  A packet is the pair (wrap, number) of the sender; the queue
reads only the number, so a packet filed under a wrong large number can be told
from the right one.  `Push` is one action because it runs under `mutex_`.  `Pop`
is not one: the consumer tests `running_`, waits in `is_empty_`, waits in
`is_disorder_` (which may return by itself), gets the mutex back, pops packet by
packet (`PopOne`), unlocks, and calls the listener once per packet.  `OnTimer`
reads the map without the mutex; its effect, a notification, exists only while
the consumer sleeps.  The destructor is `CloseTimer`, `StopRunning`, `Join`.
The network may reorder by up to `MaxSkew`, lose anything, and hand over a packet
up to `Copies` times; with `LateWrap` a packet may come after one of the next wrap.

**NetworkThread.**  `Push` and `Send` are the two statements of `Post`; `Send`
then waits or does not (tasks whose future is dropped).  The loop: `Wake` clears
the merged signal, `Swap` takes the list under the mutex, `Execute` runs one task,
`Return` goes back to the poll, `OnAsyncClose` ends the loop after the destructor's
task closed the handle.  The destructor runs when every caller has dropped its
`shared_ptr`.

**RtcTransport.**  Application threads call, take `thread_mutex_` (`Lock`), act,
and return.  Creating or deleting a receiver is two steps with the mutex held:
the constructor or destructor of its `NackGenerator` posts `Init` or `Close` of a
timer and waits for the answer.  The network thread runs such tasks when idle; for
a packet it takes the mutex twice (sender, receiver), holds a `shared_ptr` and
delivers.  If it holds the last reference the stream is destroyed on it
(`DeliverToDeleted`) and it waits for itself.

**RtpStream, NackGenerator, RtpStreamReceiver.**  Handlers run one at a time on
the network thread; each outcome of a handler is one action (`Start`, `Advance`,
`Misorder`, `Resync`, `Discard`; `First`, `Same`, `Older`, `Newer`).  The ordered
containers are sets and functions, `lower_bound` is `Below`/`Above`; this is right
only while the comparator orders the keys, which `KeysAreOrdered` and
`FeedsNearPackets` check.

**RetransmissionBuffer, RtpStreamSender.**  The deque is a sequence of items and
blank slots, and `Insert` has one disjunct per step of the function's own numbering.
What `RtpStream` makes of a packet is modelled elsewhere: the sender stores any packet or
none.  A NACK is one action; inside it the loop over the bitmask is a recursive function
with the loop's own variables as its state.  The times of retransmission are ages, which
a tick of a millisecond increases; an age longer than every round-trip time is forgotten.
`rtt_` is a float: a number of parts of a millisecond here, of which the cast to `uint16_t`
keeps the whole milliseconds, modulo `RttMod`.

**RtcpPacket, RtcpReports.**  A packet is its type, the count in its header and its
report blocks, with its length where `kMaxSize` is concerned.  A compound is built report
by report (`Add` ..., and taken out again when it is too long), sent as a datagram that may
arrive any number of times or never, parsed to the last of its packets, and handled.  Two
hosts, their streams and a clock; each conversion between milliseconds, NTP and compact NTP rounds as
the code's does.  The total lost is cut to 24 bits with its sign, and becomes unsigned in the
sender's `packets_lost_` (`LostMod`, 2^32).  A datagram that parses to nothing ends the process.

**WebsocketClient, RtcFactory.**  One action per handler; a frame matters by its message,
its position in it, whether it is the last, and whether it has 4096 bytes or more; any fragment
may have them or not, though only the length tells the client where a message ends.  A ping
or a pong (`ReadPingOrPong`) clears the fragments before it.
An exception that nobody catches ends the program (`aborted`).  `RtcFactory` puts the
application's thread beside the handlers: its constructor posts `ConnectInvoke`, waits for
the future and then adds the dispatcher, and `OnSendText` posts tasks.

**CopyOnWriteBuffer.**  Objects refer to `Buffer`s by address; the reference counts are
counted as the code counts them, one reference at a time, and not computed from who refers
to what.  `UnshareAndEnsureCapacity` is two steps, the test and the copy; what
is changed in the meantime by other threads is changed by their own actions.

**RateCalculator.**  The rate is represented by the total it is computed from.

## 3. Runs

| run | module, cfg | checks |
|---|---|---|
| `packet_queue` | `MCPacketQueue`, `PacketQueue.cfg` | `NothingLost`, `FiledRight`, `ContiguousIsCalled`, `AwakeConsumerIsJoined`, `DeliversInOrder` |
| `packet_queue_faults` | `MCPacketQueue`, `PacketQueueFaults.cfg` | `LateWrapStalls`, `StaleHeadBlocks` |
| `network_thread` | `NetworkThread` | `SignalNotLost`, `ExitLeavesNothing`, `WaitersAreAnswered`, `ExecutesInOrder` |
| `rtp_stream_sender` | `MCRtpStreamSender`, `RtpStreamSender.cfg` | `Retrievable`, `WithinAge`, `DropsForCause`, `AnswersTheNack`, `NotTwiceInRtt` |
| `rtp_stream_receiver` | `RtpStreamReceiver` | `ExtendedRight`, `LostIsMissing`, `TwoSequentialAccepted`, `FeedsNearPackets` |
| `nack_generator` | `NackGenerator` | `KeysAreOrdered`, `ListIsWhatIsMissing`, `AskedInTime`, `RetransmittedWasAsked` |
| `rtc_transport` | `RtcTransport` | `ReachableIsReady`, `TimersHaveAnOwner`, `LiveIsReferenced`, `CallsReturnOrHang` |
| `rtc_transport_return` | `RtcTransport`, `RtcTransportReturn.cfg` | `CallsReturn`: **violated**, see section 6 |
| `rtcp_reports` | `MCRtcpReports`, `RtcpReports.cfg` | `RttRight`, `LostArrives`, `ReportsArrive` |
| `rtc_factory` | `RtcFactory` | `FailedStaysFailed`, `AbortsOnlyWhenLate`, `LayersAgree`, `DeliversMessages`, `AnswersAreHeard`, `ConstructorReturns` |
| `rate_calculator` | `RateCalculator` | `RateIsOfWindow` |
| `copy_on_write_buffer` | `MCCopyOnWriteBuffer`, `CopyOnWriteBuffer.cfg` | `CountsReferences`, `EachItsOwn` |

Every property is stated in words where it is defined.  `TypeOK` of a module with
proofs is proved, where an inductive invariant needs it, instead of checked.

### Bounds, and why they are enough

* `packet_queue`: `SeqMod = 6`, so that two wraps fit into 13 packets; `MaxSkew = 2`
  is the largest the 16-bit comparison can tell for that range (`Half`), so every
  reordering that the comparison must decide occurs, at and across both wraps.
* `packet_queue_faults`: `SeqMod = 5`, one wrap, every packet up to twice, packets
  of the old wrap after the new one.  With both faults the stream may also be played
  out of order: a late copy is filed under the number of the packet one wrap after it
  and is called in its place.  That is why `DeliversInOrder` belongs to the first run,
  and why `LateWrapStalls` excludes sequence numbers handed over twice;
  `OnlyCopiesAreMisplaced` (proved, in no run) says that nothing less does it.
* `network_thread`: two callers with two tasks each and the owner are enough for a
  signal that merges, a list that is swapped between a push and its signal, and a
  task nobody waits for in front of the owner's.
* `rtp_stream_sender`: sequence numbers wrap at 7 and timestamps at 5; the deque holds up
  to 4 slots where `max_items_` is 3, so that every branch, with blanks at all places,
  occurs.  The first packet has number 5 (only differences of numbers matter), two before
  the wrap.  NACKs name the last two numbers and the first one, with one bit and with two, so
  that the bits run up to the wrap and across it, and each of them twice in one packet.  The
  round-trip time is unknown, half a millisecond, one and a half, or two where the `uint16_t`
  holds one: the cast gives 0 for the second and the last, and a fraction is lost in the third.
  A tick separates "within" from "after" each.
* `rtp_stream_receiver`: the windows and the age shrunk in proportion, a range of 32,
  five arrivals: packets on both sides of each edge of the windows around the wrap, and
  a restart ahead and behind.
* `nack_generator`: a list of 3, gaps of up to 4 missing numbers, age 5: a gap may fill the
  list, so that it makes room by one key frame or several, or be too long for it, so that it
  is cleared (what happens then is computed from the history, not from the list).  The range
  of 21 is passed many times (the state is finite, there is no bound on the packets).
* `rtc_transport`: two applications, two ssrcs, three calls, two packets: a creation,
  a deletion and a packet that race, with a third call that finds what they left.
* `rtcp_reports`: two datagrams under way (each may arrive again), a compact time that wraps
  at 7 within a clock of four values, so that a delay may not be known, losses beyond
  both ends of their field, of which the negative one also turns up unsigned (`LostMod`),
  five reports where the packet has room for four and the count for three.  The code has
  that order too: the header counts to 31, `kMaxSize` has room for 53.
* `rtc_factory`: three messages of up to two fragments, each long or short, and two texts: one
  message before the dispatcher is there, one around, one after.
* `rate_calculator`: a ring of three items of 2 ms, 14 ms: it turns more than twice.
* `copy_on_write_buffer`: two objects on two threads and the heartbeat's, views of up to
  two bytes of two kinds: sharing by all three, and a slice at either end.  Objects and
  bytes are symmetric.

### Fairness

* `PacketQueue`: weak fairness of the timer, of the consumer thread and of the
  destructor once it has begun.  libuv repeats the timer while the loop runs, the
  threads are scheduled by the operating system.  Nothing is assumed of the network,
  of spurious wakeups, or of the owner: it need not close the queue.
* `NetworkThread`: weak fairness of the loop thread, and of what a thread has begun
  (a `Post` is finished, an answered `get` returns), and of the destructor, which the last
  `shared_ptr` starts; nobody has to post or to drop its own.
* `RtcTransport`: weak fairness of the network thread and of each application thread
  in a call; a mutex that is released and taken again and again could starve a thread,
  but the calls are finitely many.  Nobody has to call or to send.
* `RtcFactory`: weak fairness of the constructor's own steps, of the task it posted
  (`TaskQueue` executes every task) and of the connection timer; the network and the
  server may do nothing.

`WebsocketClient` alone has the fairness of its timer; the other specifications state no
fairness and have no liveness property.
`CHECK_DEADLOCK FALSE` is given where the system may stop: the queue was joined, the
thread was destroyed, nobody calls any more, or a bound was reached.

## 4. Proofs

The theorems hold for all constants that satisfy the modules' `ASSUME`s, each of which
TLC evaluates in the runs.  Every invariant and every action property of the runs that pass
is stated by a theorem, and so is the safety part of the three refinements.  Nearly all have the same argument: an inductive invariant, with one lemma per
action or per conjunct; a theorem about a step follows from the invariant before it.

Most of what the invariants speak of is a sequence, a set or a number.  Where the model
computes by recursion (a loop over a bitmask, a fold, `FlattenSeq`), the proof first
shows that the recursive function exists and what it is at
`n + 1`: functions of growing domain are made one from the other.  The induction is not
one of the library's theorems, which take an operator as a parameter; it is the lemma
that a set of numbers with 0 and with `n + 1` for each `n` has all numbers
(`Induction`, `NumberInduction`), from the least element that `WellFoundedInduction` gives.
A sum over a set needs induction over sets: a set of subsets that has a subset whenever it
has all smaller ones has all subsets of a finite set (`SetInduction`).

**PacketQueueProofs** has two parts.  The first assumes `LateWrap = FALSE`: no packet
arrives after one of the next wrap.  Duplicates, losses and every reordering the
comparison can tell (`MaxSkew <= Half`) are allowed.  The property `InOrder` says nothing
of the wrap count, so it is not inductive; inductive is

    IInv == TypeOK /\ Counted /\ FiledRight /\ Contiguous

where `Counted` ties `cycle_` and `max_seq_` to the newest packet that was really
handed over, `FiledRight` says that each packet is filed under its own position,
and `Contiguous` that the popped packets continue the called ones and `Pop` waits
for what follows.  The heart is the lemma `Counts`: within the skew, Push counts
each packet into its own wrap.  From it follow `NumberedRight` (`FiledRight`),
`CalledInOrder` (`InOrder`), `KeepsEverything` (`NothingLost`: positions are injective,
so `emplace` only ever drops a packet in favour of itself) and
`ImplementsInOrderDelivery` (every step is a step of `InOrderDelivery` or invisible to it).

The second part holds on any network, late packets and copies included: `TypeCorrect`,
`StaleHeadStays` (`StaleHeadBlocks`), and, from the invariant `LInv`, which says under which
numbers a packet may have been filed and that one handed over once is under one number,
`LateWrapHoldsUp` (`LateWrapStalls`) and `CopiesAreMisplaced`.  The proof found the
condition in both: a copy that is filed one wrap too high frees what the late packet
blocks.

**RtpStreamProofs** is about `ReceiverSpec`, the stream together with its
`NackGenerator`.  It assumes that the two windows fit into the range beside each other,
that `MaxMisorder <= MaxDropout` (1500 and 3000 in the code), and that no packet is more
than `SeqMod - MaxDropout` behind the newest: beyond that 16 bits cannot tell a late
packet from a new one.

    IInv == TypeOK /\ Begun /\ HasNewest /\ Follows /\ Extended /\ Reported

`HasNewest` and `Extended` tie `max_seq_`, `cycles_` and `base_seq_` to the packets
really accepted, `Follows` says what `bad_seq_` must be after any packet, `Reported` what
the two counters of the last report make of the total.  The arithmetic is in `Remainder`,
`Division` and `Shift`, on `%` for any modulus.  From it follow `ExtendedSequenceNumber`
(`ExtendedRight`), `SequentialPackets` (`TwoSequentialAccepted`, a property of two steps)
and `LostOfReports` (`LostIsMissing`).  `StreamFeedsNearPackets` (`FeedsNearPackets`)
needs one more invariant, `NackFollows`: until a re-sync, `last_seq_` is `max_seq_`; and
the lemma `SidesAgree`, that the comparison by differences in `RtpStream` and the one by
`SeqLowerThan` in `NackGenerator` put a near packet on the same side.

The same module is about **RateCalculator**, for any number and size of the items, any
packets and any times.

    RateInv == Counted /\ RingInv /\ Answered

`RateIsOfWindow` speaks of the last answer alone.  `RingInv` says what the ring is: it can be
read, from the oldest slot on, as items that begin at the times `t[0], .., t[n]`, each with
what came from its beginning to that of the next (`Holds`); they begin an item's length apart
or more (`Spaced`), and what came after an item's time began a new one (`Filled`).  What the
ring no longer has is older than the window, but for the length of one item (`Forgets`).  From
the distance follows that items in the window leave a slot free for one more (`SlotIsFree`), so
a new item never overwrites one that counts.  `RemovalRight` (the loop of `RemoveOldData`) and
`AddRight` keep all of it, and `TotalIsOfWindow` makes it the bounds of the answer, with the
lemmas on sums over sets (`SumRemove`, `SumUnion`, `SumAtMost`).  Hence `RateIsRight`
(`RateIsOfWindow`).

**NackGeneratorProofs** assumes that the age, the gap and the lateness together stay
within half of the range and that a gap is no longer than the age (the code's constants
are far within: 10000, 3000 and 1500 of 65536).

    IInv == Types /\ Near /\ AskedOnce /\ ListIsWhatIsMissing

With `Behind`, the distance from the newest packet, the cyclic comparison becomes one of
naturals (`LowerIsBehind`, `OldestIsOldest`); `Near` keeps all keys within
`MaxPacketAge` of it.  `ListIsWhatIsMissing` compares the list with the history of what
arrived (`missing`, and `given_up`: what the bound and the key frames demand it to drop); that
the key frames in the set are the packets that came as the newest is `WasNewest`.
From it follow `ContainersAreOrdered` (`KeysAreOrdered`),
`NackListIsWhatIsMissing`, `AsksInTime` (`AskedInTime`) and `CallsRetransmitted`
(`RetransmittedWasAsked`).

**RetransmissionBufferProofs** has three invariants.

* `Places`: both ends hold an item, and the item in slot `i` has the number `i - 1` after
  the oldest.  Each lemma treats one way the deque changes (`From`, `PushBack`,
  `PushFront`, a filled slot).  `MaxSlots` may be up to half of the range.  From it follow
  `BufferIsRetrievable` and `SenderIsRetrievable` (`Retrievable`), and `SenderDropsForCause`
  (`DropsForCause`).
* `AgeInv`, which is `Places` and `Young`: seen from the newest timestamp, the items are in
  the order of their age and none is too old.  `WithinAge` compares neighbours and both
  ends, which is not inductive.  It needs `AgeAssumption`: the maximum age and the largest
  step ahead are together at most half of the range of timestamps (in the code, no timestamp
  is more than 2^31 less the retransmission age ahead of the one before it); otherwise an
  old item would look newer than the new one.
* `SameTimes`: the `resent_at_ms_` of the stored items are the times of their last
  retransmissions.  A round-trip time that fits `RttMod` milliseconds passes exactly when
  its whole milliseconds do, because the times of retransmission are whole.  What the loop
  over the bitmask computes is `Collects`, over the items of a NACK `Answer`, both by
  induction on the passes.  From it follow `NackIsAnswered` (`AnswersTheNack`) and `NackOncePerRtt` (`NotTwiceInRtt`).

**RtcTransportProofs** holds for any threads, ssrcs, calls and packets.

    IInv == TypeOK /\ Owner /\ Held /\ Mapped /\ Built /\ Destroyed /\ Posted
            /\ Unanswered /\ Gone /\ ReachableIsReady /\ LiveIsReferenced

A half-built stream has an application that waits with the mutex, or its posted task
(`Built`, `Owner`), a half-destroyed one has its last owner (`Destroyed`), a task is posted
by somebody who waits for it (`Posted`), and the network thread answers nobody while it
delivers (`Unanswered`).  From it follow `OnlyReadyStreamsAreUsed` (`ReachableIsReady`),
`NoTimerWithoutOwner` (`TimersHaveAnOwner`) and `NothingLeaks` (`LiveIsReferenced`).

**RtcFactoryProofs** proves `FailedStaysFailed`, `AbortsOnlyWhenLate` and `LayersAgree`
of the client with the application beside it, from the order of timer, answer and
frames (`TimerBeforeAnswer`, `ReadyAfterAnswer`, `ReadAfterResponse`).  What becomes of the
fragments is

    MessagesInv == Delivery /\ Begun /\ Heard /\ Made

`Delivery`: what was dispatched, `mem_buf_` and the buffered fragments are together what
was sent (`Joined`), as long as none was thrown away; each unit dispatched ends with its first
short fragment (`Typed`), so that units are messages if the lengths tell (`Whole`).  One read
may dispatch any number of units: `AllRead` is the induction over its buffers.  `Heard`:
what the transport heard is the end of what was dispatched, and what was dispatched before
it was there begins before the first text (`asked`).  From it follow
`MessagesAreDelivered` (`DeliversMessages`) and `AnswersHeard` (`AnswersAreHeard`).

The same module is about **NetworkThread**, with no assumption beyond the constants' own.
`SignalNotLost` speaks of the sleeping loop only; inductive is

    ThreadInv == ThreadTypeOK /\ Signalled /\ OwnerIsLast /\ LoopState

`Signalled` extends it to the loop at work (it has already taken the signal, the list
it swapped may be the older one), `OwnerIsLast` says that nothing is posted behind
the destructor's task, `LoopState` when a swapped list may be at hand.  From it follow
`ThreadTypeCorrect`, `NoLostWakeup` (`SignalNotLost`), `StopsWhenEmpty`
(`ExitLeavesNothing`) and `ImplementsTaskQueue` (the safety part of `ExecutesInOrder`).

**CopyOnWriteBufferProofs** proves `CountsReferences` for any finite set of objects:
an object that refers to something else moves exactly one reference (`UsersAfter`,
`ReferPreserves`), `Move` and `Swap` are two such steps, and `operator new` finds an
address because there is one more than there are objects (`FreshIsFree`, the pigeonhole
principle).  `BuffersHaveValues` is the refinement: `EachItsOwn`, all of it, for any bytes and
sizes.  It rests on `Inv == Views /\ PendingFits` besides the counts: what a view shows lies
within its `Buffer`, and an operation between its test and its copy still fits the view.
A `Buffer` with one reference may then be changed in place, a new one is nobody's, and
every step changes what one object shows and no other.

**RtcpReportsProofs** holds for any hosts, streams, losses and compounds.

    IInv == Clock /\ ReceiversKnow /\ NetworkCarries /\ RttRight /\ LostArrives

`ReceiversKnow` says of every receiving stream which sender report it can know,
`NetworkCarries` of every datagram, in whatever order they arrive, which reports its packets
hold: the parser finds the reports that were added (`ParsedReports`, `ArrivesWhole`; the
loops are recursive functions).  `ReportsAreFound` says of any datagram, also one cut off or
with other packets around the reports, when it is parsed to nothing (`Readable`) and to which
packet otherwise.  What a sender computes from an answer is then arithmetic of
the times in two reports.  From it follow `RoundTripTime` (`RttRight`), `TotalLost`
(`LostArrives`) and `ReportsAreFound` (`ReportsArrive`).  It takes `TimeAssumption`: the clock
advances by less than one turn of the compact time (2^16 s, 18 hours in the code).  That is
an assumption on how old an answer can be: without it `RttRight` is false, for the turns
that an answer takes are not seen.  `CompoundsAssumption` is about the form of the compounds.

**Only model-checked**

* The liveness properties: `ContiguousIsCalled`, `AwakeConsumerIsJoined`,
  `WaitersAreAnswered`, `CallsReturnOrHang`, `ConstructorReturns`, and the fairness halves of
  `DeliversInOrder` and `ExecutesInOrder`.  Fairness and `ENABLED` are out of the
  prover's reach.
* `CallsReturn`, which is false.

## 5. Abstractions, and what is not modelled

* Payloads, addresses, formats, logging: not modelled; a packet is its number (and
  timestamp where it matters), an address is valid or not.
* `PacketQueue`: `wait_pop_frames_` (never read), `ResetFrameSequence` and
  `ResetPopSeq` (never called), the construction (the timer starts before
  `thread_queue_` is allocated, 40 ms before its first tick); a torn read of the map by
  `OnTimer` is outside the model.
* `RtpStream`: the payload type and RTP timestamps; the jitter of `RtpStreamReceiver`.
  `OnNackGeneratorNackRequired` does nothing in the code, so what the generator asks
  for goes nowhere.
* `NackGenerator`: `recovered_list_` (always empty), the timer (never started), `Reset`
  (never called).  The insertion of one number and the pruning behind it are one step on
  sets; what a `std::map` does while its keys are not ordered cannot be shown.
* `RetransmissionBuffer`: a sequence number that is exactly half of the range away
  cannot arrive (`MaxSlots` bounds the deque), and no timestamp is further than `MaxTsJump`
  ahead.  `RtpStreamSender`: its counters, and the rounding of the float `rtt_`; a float that
  does not fit a `uint16_t` is undefined in C++, and the model takes the low 16 bits of the
  whole milliseconds, as the usual compilers give.
* `RtcTransport`: the JSON of text messages, the numbering of sent packets
  (`test_seq_`), which several threads increment without a lock.
* `RtcpReports`: each host handles its datagrams one by one; RTP timestamps, jitter and
  the fraction lost; how a datagram comes to be cut.  A packet shorter than its own head
  (`receiver_report_packet.cpp:54`-`60`, `feedback_packet.cpp:176`-`182`) is parsed to nothing
  like one that is cut, and is not told from it.
* `WebsocketClient`: TLS, masking, the bytes of frames, text messages, the time of a pong.
* `RtcFactory`: the destructor.  What matters there is which freed member is still used,
  and a model has no outcome for that.
* `CopyOnWriteBuffer`: memory beyond a `Buffer`'s size has any contents; `operator[]` of
  a constant buffer, comparison, and the templates over other byte types.
* Not modelled at all: `DecodedSmoothPCMQueue` (one thread, used by the example `main.cpp`
  only, and about the arithmetic of samples), `UdpSocket` (one call into libuv per function;
  nothing creates one), the byte layout of RTP packets, `ArrayView`, the helpers in
  `utils.h` but for the compact NTP time, `SeqManager`'s offset bookkeeping (unused),
  `TimerHandle::Reset` and `Restart` (unused), and vendored code (libuv is modelled where
  it is used).

## 6. Where the code differs from what it says

Violated by a run (`findings`): **`CreateRtpStream` may never return** (`CallsReturn`).
It waits for the network thread under `thread_mutex_` (`core/src/rtc/rtc_transport.cpp:86`),
while the network thread may wait for `thread_mutex_` to find the stream of a packet.
`DeleteRtpStream` (`:134`) does the same.  `CallsReturnOrHang` shows that this and the next
one are the only ways a call does not return.

Met while modelling; the models do what the code does:

* A receiver that is deleted while a packet is delivered to it is destroyed on the
  network thread, which then waits for itself (`core/src/rtc/nack_generator.cpp:41`).
* `Pop` plays nothing if the packet with number 0 is lost or the stream starts
  elsewhere; the comment in `core/include/rtc/callback_queue_thread.h:97` says that the
  first packet need not wait for its order.  One lost packet blocks everything behind it:
  there is no timeout.  A late copy of a played packet (`StaleHeadBlocks`) and a packet
  that is late across the wrap (`LateWrapStalls`) block it as well.
* The queue's destructor does not notify: a consumer asleep in either wait is joined only
  if a wakeup comes by itself (`AwakeConsumerIsJoined` states when the join does return).
* `RemoveOldest(num_items)` tests with `if` where a loop is needed
  (`core/src/rtc/rtp_retransmission_buffer.cpp:428`): it drops one item and the blanks
  behind it, so the deque may exceed `max_items_`, against the comments at `:168` and in
  `rtp_stream_sender.cpp:15`.
* Timestamps in between are compared without their wrap (`:305`, `:330`), against the
  comment at `:60`: a valid packet may be discarded.
* Nothing calls `RtpStreamSender::ReceiveNack`: the transport ignores the feedback packets
  that are parsed.
* The first packet of a stream counts a wrap if its number is 0
  (`core/src/rtc/rtp_stream.cpp:38`): `ExtendedRight` states by how much it is off, and
  `LostIsMissing` excludes the case.
* `bad_seq_` is kept when good packets follow (`rtp_stream.cpp:88`, `:112`): two packets
  out of range need not be sequential on arrival to re-sync the stream.  A re-sync does
  not reset the `NackGenerator` (`:98`).
* `fraction_lost` is rounded to 256 and stored in a byte when nearly all is lost
  (`rtp_stream_receiver.cpp:127`).
* A NACK is never repeated: the start of the timer is commented out
  (`core/src/rtc/nack_generator.cpp:145`-`147`) below the comment that has it run lest "NACKs
  would never been sent more than once for each seq" (`:143`-`144`), and `kMaxNackRetries` is
  10.  `AskedInTime` says so: exactly once.  If the NACK or what it asks for is lost, so is
  the packet.
* A packet may be retransmitted again within a long round-trip time: the cast to `uint16_t`
  (`core/src/rtc/rtp_stream_sender.cpp:128`) wraps at 65536 ms, against the comment at `:162`.
  `NotTwiceInRtt` holds for shorter ones; that their fraction is cut off does not matter, for
  the time since a retransmission is a whole number of milliseconds.
* A negative total lost becomes about four billion: `packets_lost_`, which the comment calls the
  total (`core/include/rtc/rtp_stream.h:111`), is a `uint32_t` and is assigned an `int32_t`
  (`core/src/rtc/rtp_stream_sender.cpp:241`); `LostArrives` says by how much it is off.  The
  code's own receiver reports no negative total, another implementation that counts
  duplicates does.
* A packet with an unknown ssrc goes to the first stream, and an empty map is
  dereferenced (`rtc_transport.cpp:318`-`321`); a sender and a receiver may have the same
  ssrc (`:75`, `:96`), and then either delete function deletes the sender (`:126`).
* RTCP: nothing calls `SendRtcpPacket` (its call in `OnTimer` is commented out); of a
  compound packet only the last part is handled, so a sender report before a receiver
  report is lost; a datagram that parses to nothing is dereferenced
  (`rtc_transport.cpp:329`; `ReportsArrive` says which ones are); of several sender
  reports in one packet only the first is parsed; the count in the header overflows at 32
  reports, before `kMaxSize` ends at 53 (`ReportsArrive` says how many are left).  A sender report that was overtaken replaces the newer
  one, and one for an unknown ssrc goes to the first stream; `RttRight` shows that the
  round-trip time is right nevertheless, for answers that are less than 18 hours old.
* `CopyOnWriteBuffer`: `AppendData` of nothing to a null buffer, and `Clear` of an empty
  slice at the end, make a `Buffer` of capacity 0, against `IsConsistent`
  (`core/include/utils/copy_on_write_buffer.h:262`); `Slice` checks nothing (`:249`); an
  object moved to itself is empty afterwards (`:137`).  `HeartbeatPacket::SetTime` writes
  through a `const_cast` into memory that other objects may share
  (`core/src/rtc/rtcp/heart_beat_packet.cpp:69`).
* The stream functions of the API return true whatever happened
  (`api/rtc_factory.cpp:68`, promised otherwise in `api/rtc_interface.h:47`).
* A message that comes after the connection was made and before the constructor of
  `RtcFactory` has added its dispatcher (`api/rtc_factory.cpp:56`) is lost to it;
  `AnswersAreHeard` shows that no answer to the application is.
* `ConnectInvoke`: after the timer answered, a late refusal sets the promise again and
  the program ends (`AbortsOnlyWhenLate`).  `SocketInterface::closed_`
  (`core/include/io/socket_interface.h:40`) is shadowed and never initialised.
* A ping or a pong between the fragments of a message
  (`deps/cpp_websocket/net/http/websocket/ws_session_base.cpp:98`; the client asks for a pong
  every two seconds), and a response header that comes in several reads
  (`deps/cpp_websocket/net/http/http_client.cpp:118`), lose fragments.  A last fragment of 4096
  bytes or more is joined with the next message, and a shorter one that is not the last is
  dispatched as if the message ended there (`core/include/io/websocket_client.h:187`).
* `DecodedSmoothPCMQueue` never decrements `smooth_frame_count_`, puts merged frames
  behind newer ones, and indexes the second segment beyond its end when it is the shorter.
