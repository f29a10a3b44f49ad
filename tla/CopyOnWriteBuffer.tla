--------------------------- MODULE CopyOnWriteBuffer ---------------------------
(***************************************************************************)
(* CopyOnWriteBuffer (core/include/utils/copy_on_write_buffer.h,           *)
(* core/src/utils/copy_on_write_buffer.cc) on top of Buffer (buffer.h) and *)
(* of the reference counts of scoped_refptr: the packets that the network  *)
(* thread, the queue and the consumer's thread hand to each other.         *)
(*                                                                         *)
(* Each buffer object belongs to one thread at a time, but the Buffers     *)
(* behind them are shared.  UnshareAndEnsureCapacity therefore takes two   *)
(* steps: the test of the reference count, and the copy with the release   *)
(* of the old Buffer.  A Buffer that needs no copy is changed in the first *)
(* step.  A persistent HeartbeatPacket (core/src/rtc/rtcp/                 *)
(* heart_beat_packet.cpp) keeps one buffer object and writes into it       *)
(* through the pointer data() returns, without unsharing it.               *)
(*                                                                         *)
(* Memory beyond a Buffer's size_ has no contents here: bytes that are not *)
(* initialised, or left over, are any bytes.                               *)
(*                                                                         *)
(* A definition X_Y is X with a plausible bug Y, which no specification    *)
(* uses; it is there to show that the properties notice the bug.           *)
(***************************************************************************)
EXTENDS Naturals, FiniteSets, Sequences, SequencesExt, FiniteSetsExt

CONSTANTS
    Buffers,        \* the objects of class CopyOnWriteBuffer
    Packet,         \* packet_ of the HeartbeatPacket, one of them
    Bytes,
    MaxSize         \* bound: the bytes in a buffer

ASSUME PacketAssumption == Packet \in Buffers /\ Bytes # {} /\ MaxSize \in Nat \ {0}
ASSUME BuffersAssumption == IsFiniteSet(Buffers)

Others == Buffers \ {Packet}
Ids == 1 .. Cardinality(Buffers) + 1    \* room for one that is being built
Null == 0
Contents == BoundedSeq(Bytes, MaxSize)

\* An operation on one's own Buffer: bytes are put at position at of the view,
\* with room for at least so many.
Idle == [at |-> 0, bytes |-> <<>>, room |-> 0]

VARIABLES
    buffer,         \* buffer_
    offset, size,   \* offset_, size_
    heap,           \* the Buffers: bytes and capacity_, by their addresses
    ref_count,      \* ref_count_ of each
    pending         \* the operation that has found its Buffer shared or too small

view == <<buffer, offset, size>>
vars == <<view, heap, ref_count, pending>>

Init ==
    \E b \in Bytes :
        /\ buffer = [o \in Buffers |-> IF o = Packet THEN 1 ELSE Null]
        /\ offset = [o \in Buffers |-> 0]
        /\ size = [o \in Buffers |-> IF o = Packet THEN 1 ELSE 0]
        /\ heap = [i \in Ids |-> IF i = 1 THEN [bytes |-> <<b>>, capacity |-> 1]
                                          ELSE [bytes |-> <<>>, capacity |-> 0]]
        /\ ref_count = [i \in Ids |-> IF i = 1 THEN 1 ELSE 0]
        /\ pending = [o \in Buffers |-> Idle]

--------------------------------------------------------------------------------
(* Reference counts                                                        *)

\* The address operator new returns
Fresh == Min({i \in Ids : ref_count[i] = 0})

HasOneRef(o) == ref_count[buffer[o]] = 1
IsNull(o) == buffer[o] = Null

\* ref_count_ when o drops what it refers to and takes a reference to id
Retarget(o, id) ==
    [i \in Ids |-> ref_count[i] + (IF i = id THEN 1 ELSE 0) - (IF i = buffer[o] THEN 1 ELSE 0)]

NoBuffer == [bytes |-> <<>>, capacity |-> 0]

\* o becomes a view of n bytes of the Buffer id, in the memory mem; a Buffer that
\* nobody refers to any more is deleted.
Refer_Forgets(o, id, from, n, mem) ==
    /\ buffer' = [buffer EXCEPT ![o] = id]
    /\ offset' = [offset EXCEPT ![o] = from]
    /\ size' = [size EXCEPT ![o] = n]
    /\ ref_count' = IF id = Null THEN Retarget(o, id) ELSE [ref_count EXCEPT ![id] = 1]
    /\ heap' = [i \in Ids |-> IF ref_count'[i] = 0 THEN NoBuffer ELSE mem[i]]

Refer(o, id, from, n, mem) ==
    /\ buffer' = [buffer EXCEPT ![o] = id]
    /\ offset' = [offset EXCEPT ![o] = from]
    /\ size' = [size EXCEPT ![o] = n]
    /\ ref_count' = Retarget(o, id)
    /\ heap' = [i \in Ids |-> IF ref_count'[i] = 0 THEN NoBuffer ELSE mem[i]]

--------------------------------------------------------------------------------
(* Buffer                                                                  *)

\* BufferT(size, capacity)
NewBuffer(bytes, capacity) == [bytes |-> bytes, capacity |-> Max({Len(bytes), capacity})]

\* EnsureCapacityWithHeadroom(n, true)
Grown(capacity, n) ==
    IF n <= capacity THEN capacity ELSE Max({n, capacity + capacity \div 2})

\* AppendData and SetSize leave these bytes.
WithBytes(buf, bytes) == [bytes |-> bytes, capacity |-> Grown(buf.capacity, Len(bytes))]

\* BufferT::SetData, an AppendData to nothing
Replaced(buf, data) == WithBytes([buf EXCEPT !.bytes = <<>>], data)

\* BufferT::Clear
Cleared(buf) == [buf EXCEPT !.bytes = <<>>]

--------------------------------------------------------------------------------
(* CopyOnWriteBuffer                                                       *)

capacity(o) == IF IsNull(o) THEN 0 ELSE heap[buffer[o]].capacity - offset[o]
View(o) == SubSeq(heap[buffer[o]].bytes, offset[o] + 1, offset[o] + size[o])
Value(o) == IF IsNull(o) THEN <<>> ELSE View(o)

ready(o) == pending[o] = Idle

MakeNew(o, bytes, cap) ==
    Refer(o, Fresh, 0, Len(bytes), [heap EXCEPT ![Fresh] = NewBuffer(bytes, cap)])

\* The constructors with data, or with bytes that are not initialised
Construct(o, data, cap) ==
    /\ ready(o) /\ IsNull(o)
    /\ data # <<>> \/ cap > 0
    /\ MakeNew(o, data, cap)
    /\ UNCHANGED pending

\* SetData(data, size)
SetDataOfNull(o, data) ==
    /\ IsNull(o)
    /\ IF data # <<>> THEN MakeNew(o, data, 0) ELSE UNCHANGED <<view, heap, ref_count>>

SetDataOfShared(o, data) ==
    /\ ~IsNull(o) /\ ~HasOneRef(o)
    /\ MakeNew(o, data, capacity(o))

SetDataOfSole(o, data) ==
    /\ ~IsNull(o) /\ HasOneRef(o)
    /\ Refer(o, buffer[o], 0, Len(data), [heap EXCEPT ![buffer[o]] = Replaced(@, data)])

SetData(o, data) ==
    /\ ready(o)
    /\ SetDataOfNull(o, data) \/ SetDataOfShared(o, data) \/ SetDataOfSole(o, data)
    /\ UNCHANGED pending

Clear(o) ==
    /\ ready(o) /\ ~IsNull(o)
    /\ IF HasOneRef(o)
       THEN Refer(o, buffer[o], 0, 0, [heap EXCEPT ![buffer[o]] = Cleared(@)])
       ELSE MakeNew(o, <<>>, capacity(o))
    /\ UNCHANGED pending

\* The view after the operation e
Spliced(v, e) == SubSeq(v, 1, e.at) \o e.bytes \o SubSeq(v, e.at + Len(e.bytes) + 1, Len(v))

\* An operation that adds to the view drops what was right of it.
RightOf(o, e) ==
    LET bytes == heap[buffer[o]].bytes
    IN  IF e.at = size[o] THEN <<>> ELSE SubSeq(bytes, offset[o] + size[o] + 1, Len(bytes))

InPlace(o, e) ==
    /\ heap' = [heap EXCEPT ![buffer[o]].bytes =
                    SubSeq(@, 1, offset[o]) \o Spliced(View(o), e) \o RightOf(o, e)]
    /\ size' = [size EXCEPT ![o] = Len(Spliced(View(o), e))]
    /\ UNCHANGED <<buffer, offset, ref_count>>

\* UnshareAndEnsureCapacity: the test ...
Unshare_WritesInPlace(o, e) ==
    /\ ready(o) /\ ~IsNull(o)
    /\ IF ((e.room = 0 /\ e.bytes # <<>>) \/ HasOneRef(o)) /\ e.room <= capacity(o)
       THEN InPlace(o, e) /\ UNCHANGED pending
       ELSE pending' = [pending EXCEPT ![o] = e] /\ UNCHANGED <<view, heap, ref_count>>

Unshare(o, e) ==
    /\ ready(o) /\ ~IsNull(o)
    /\ IF HasOneRef(o) /\ e.room <= capacity(o)
       THEN InPlace(o, e) /\ UNCHANGED pending
       ELSE pending' = [pending EXCEPT ![o] = e] /\ UNCHANGED <<view, heap, ref_count>>

\* ... and the copy, with the rest of the operation.
Copy(o) ==
    /\ ~ready(o)
    /\ MakeNew(o, Spliced(View(o), pending[o]), Max({capacity(o), pending[o].room}))
    /\ pending' = [pending EXCEPT ![o] = Idle]

\* MutableData, and a byte written through it
Write(o, i, b) == i \in 1 .. size[o] /\ Unshare(o, [at |-> i - 1, bytes |-> <<b>>, room |-> 0])

Extend(o, data) == Unshare(o, [at |-> size[o], bytes |-> data, room |-> size[o] + Len(data)])

AppendData(o, data) ==
    \/ Extend(o, data)
    \/ ready(o) /\ IsNull(o) /\ MakeNew(o, data, 0) /\ UNCHANGED pending

Shrink(o, n) ==
    /\ ready(o) /\ n <= size[o]
    /\ size' = [size EXCEPT ![o] = n]
    /\ UNCHANGED <<buffer, offset, heap, ref_count, pending>>

\* The bytes that SetSize adds are not initialised.
SetSize(o, n) ==
    \/ Shrink(o, n)
    \/ \E added \in [1 .. n - size[o] -> Bytes] : n > size[o] /\ AppendData(o, added)

EnsureCapacity(o, n) ==
    \/ n > capacity(o) /\ Unshare(o, [Idle EXCEPT !.room = n])
    \/ ready(o) /\ IsNull(o) /\ n > 0 /\ MakeNew(o, <<>>, n) /\ UNCHANGED pending

\* Slice checks nothing; its callers stay within the buffer.
Slice(to, from, i, n) ==
    /\ ready(to) /\ ready(from)
    /\ i + n <= size[from]
    /\ Refer(to, buffer[from], offset[from] + i, n, heap)
    /\ UNCHANGED pending

\* The copy constructor, the assignment, SetData of another buffer
Assign(to, from) == Slice(to, from, 0, size[from])

\* HeartbeatPacket::GetPacket
GetPacket(to) == Assign(to, Packet)

\* The move assignment, which does not test for itself
Move(to, from) ==
    /\ ready(to) /\ ready(from)
    /\ buffer' = [buffer EXCEPT ![from] = Null, ![to] = buffer[from]]
    /\ offset' = [offset EXCEPT ![to] = offset[from], ![from] = 0]
    /\ size' = [size EXCEPT ![to] = size[from], ![from] = 0]
    /\ ref_count' = IF to = from THEN ref_count ELSE Retarget(to, Null)
    /\ heap' = [i \in Ids |-> IF ref_count'[i] = 0 THEN NoBuffer ELSE heap[i]]
    /\ UNCHANGED pending

Swap(a, b) ==
    /\ ready(a) /\ ready(b)
    /\ buffer' = [buffer EXCEPT ![a] = buffer[b], ![b] = buffer[a]]
    /\ offset' = [offset EXCEPT ![a] = offset[b], ![b] = offset[a]]
    /\ size' = [size EXCEPT ![a] = size[b], ![b] = size[a]]
    /\ UNCHANGED <<heap, ref_count, pending>>

\* The destructor; the name may stand for a new object then.
Destroy(o) == ready(o) /\ Refer(o, Null, 0, 0, heap) /\ UNCHANGED pending

\* HeartbeatPacket::SetTime
SetTime(b) ==
    /\ heap' = [heap EXCEPT ![buffer[Packet]].bytes[1] = b]
    /\ UNCHANGED <<view, ref_count, pending>>

Change(o) ==
    \/ \E data \in Contents, cap \in 0 .. MaxSize : Construct(o, data, cap)
    \/ \E data \in Contents : SetData(o, data)
    \/ \E data \in Contents : size[o] + Len(data) <= MaxSize /\ AppendData(o, data)
    \/ \E n \in 0 .. MaxSize : SetSize(o, n)
    \/ \E n \in 0 .. MaxSize : EnsureCapacity(o, n)
    \/ \E i \in 1 .. MaxSize, b \in Bytes : Write(o, i, b)
    \/ Clear(o)
    \/ Copy(o)

Next ==
    \/ \E o \in Others : Change(o) \/ Destroy(o)
    \/ \E to, from \in Others, i, n \in 0 .. MaxSize : Slice(to, from, i, n)
    \/ \E to, from \in Others : Assign(to, from)
    \/ \E to \in Others : GetPacket(to)
    \/ \E a, b \in Others : Move(a, b) \/ Swap(a, b)
    \/ \E b \in Bytes : SetTime(b)

Spec == Init /\ [][Next]_vars

--------------------------------------------------------------------------------
(* Properties                                                              *)

\* The reference count of a Buffer is the number of objects that refer to it, so
\* that it is freed exactly when the last one lets go of it, whatever threads
\* share, copy, move and drop.
CountsReferences ==
    \A i \in Ids : ref_count[i] = Cardinality({o \in Buffers : buffer[o] = i})

\* Every buffer object has a value of its own: what other threads do with theirs
\* while one shares, tests and copies does not change it; except that the time of
\* a heartbeat packet is also written into the copies handed out before.
Abstract ==
    INSTANCE ValueBuffers WITH
        value <- [o \in Buffers |-> Value(o)],
        tied <- {o \in Buffers : buffer[o] = buffer[Packet]}
EachItsOwn == Abstract!Spec

================================================================================
