------------------------- MODULE RetransmissionBuffer -------------------------
(***************************************************************************)
(* RtpRetransmissionBuffer (core/src/rtc/rtp_retransmission_buffer.cpp):   *)
(* the packets an RtpStreamSender keeps for retransmission, in a deque     *)
(* addressed by sequence number.  A slot holds an item or nothing          *)
(* (nullptr).  The packet itself is its sequence number and timestamp.     *)
(*                                                                         *)
(* Insert is one action per outcome; the loops that drop slots from the    *)
(* front are written as the first slot they keep.                          *)
(*                                                                         *)
(* A definition X_Y is X with a plausible bug Y, which no specification    *)
(* uses; it is there to show that the properties notice the bug.           *)
(***************************************************************************)
EXTENDS Sequences, SeqArith

CONSTANTS
    SeqMod,     \* 2^16 in the code: values of a sequence number
    TsMod,      \* 2^32 in the code: values of a timestamp
    MaxItems,   \* max_items_
    MaxAge,     \* the largest age in timestamp units that is not too old:
                \* max_retransmission_delay_ms_ at clock_rate_
    FirstSeq,   \* the number of the first packet; all that matters of the
                \* numbers is their differences
    MaxTsJump,  \* how far a packet's timestamp is ahead of the newest
    MaxSlots    \* bound: no packet arrives that would make the deque longer

Item == [seq : 0 .. SeqMod - 1, ts : 0 .. TsMod - 1]
Blank == [seq |-> SeqMod, ts |-> TsMod]                 \* nullptr

ASSUME ModAssumption == SeqMod \in Nat \ {0} /\ TsMod \in Nat \ {0}
ASSUME MaxItemsAssumption == MaxItems \in Nat \ {0}
ASSUME MaxAgeAssumption == MaxAge \in Nat /\ MaxTsJump \in Nat
ASSUME AgeAssumption == MaxAge + MaxTsJump <= HalfRange(TsMod)
ASSUME MaxSlotsAssumption == MaxSlots \in Nat /\ MaxSlots <= HalfRange(SeqMod) + 1

VARIABLE buffer     \* buffer_

Init == buffer = <<>>

--------------------------------------------------------------------------------
(* The deque                                                               *)

Oldest(b) == b[1]                                       \* GetOldest
Newest(b) == b[Len(b)]                                  \* GetNewest

\* b without what is before slot k
From(b, k) == [i \in 1 .. Len(b) - k + 1 |-> b[i + k - 1]]

PushBack_OneShort(b, n, p) ==
    [i \in 1 .. Len(b) + (IF n = 0 THEN 0 ELSE n - 1) + 1 |->
        IF i <= Len(b) THEN b[i] ELSE IF i <= Len(b) + n - 1 THEN Blank ELSE p]

\* push_back of n blank slots and then p
PushBack(b, n, p) ==
    [i \in 1 .. Len(b) + n + 1 |->
        IF i <= Len(b) THEN b[i] ELSE IF i <= Len(b) + n THEN Blank ELSE p]

\* push_front of n blank slots and then p
PushFront(b, n, p) ==
    [i \in 1 .. Len(b) + n + 1 |->
        IF i = 1 THEN p ELSE IF i <= n + 1 THEN Blank ELSE b[i - n - 1]]

IsTooOldTimestamp(ts, newest_ts) ==
    /\ ~IsSeqHigherThan(ts, newest_ts, TsMod)
    /\ Minus(newest_ts, ts, TsMod) > MaxAge

ClearsUpTo_Never(b, newest_ts, k) == k = 1

\* ClearTooOldByTimestamp leaves the slots from k on.
ClearsUpTo(b, newest_ts, k) ==
    /\ k \in 1 .. Len(b) + 1
    /\ \A j \in 1 .. k - 1 : b[j] = Blank \/ IsTooOldTimestamp(b[j].ts, newest_ts)
    /\ k <= Len(b) => b[k] # Blank /\ ~IsTooOldTimestamp(b[k].ts, newest_ts)

\* RemoveOldest() leaves the slots from k on.
RemovesUpTo(b, k) ==
    /\ k \in 2 .. Len(b) + 1
    /\ \A j \in 2 .. k - 1 : b[j] = Blank
    /\ k <= Len(b) => b[k] # Blank

\* Get: the slot of seq, Blank for nullptr.
Index(b, seq) == Minus(seq, Oldest(b).seq, SeqMod) + 1

Get(b, seq) ==
    IF b = <<>> \/ IsSeqLowerThan(seq, Oldest(b).seq, SeqMod) \/ Index(b, seq) > Len(b)
    THEN Blank
    ELSE b[Index(b, seq)]

\* i and j hold consecutive items of b.
Adjacent(b, i, j) ==
    /\ i < j
    /\ b[i] # Blank /\ b[j] # Blank
    /\ \A m \in i + 1 .. j - 1 : b[m] = Blank

\* The timestamp fits between the items next to blank slot i; the code compares
\* it with < and >, not with the comparators of SeqManager.
Fits(b, i, ts) ==
    /\ \A j \in 1 .. i - 1 :
          b[j] # Blank /\ (\A m \in j + 1 .. i - 1 : b[m] = Blank) => ts >= b[j].ts
    /\ \A j \in i + 1 .. Len(b) :
          b[j] # Blank /\ (\A m \in i + 1 .. j - 1 : b[m] = Blank) => ts <= b[j].ts

--------------------------------------------------------------------------------
(* Insert                                                                  *)

\* The first packet, and every packet when what was stored has been dropped.
StoreAlone(p) == buffer' = <<p>>

\* A lower sequence number with a higher timestamp than the newest: the sender
\* started anew.
StartsAnew(p) ==
    /\ IsSeqLowerThan(p.seq, Newest(buffer).seq, SeqMod)
    /\ IsSeqHigherThan(p.ts, Newest(buffer).ts, TsMod)

LaterOf(ts1, ts2) == IF IsSeqHigherThan(ts1, ts2, TsMod) THEN ts1 ELSE ts2

\* Step 4: a packet after the newest.  RemoveOldest(n) drops one item and the
\* blank slots behind it, whatever n is.
InsertInOrder(b, p) ==
    LET blanks == Minus(p.seq, Newest(b).seq, SeqMod) - 1
        excess == Len(b) + blanks + 1 - MaxItems
    IN  /\ IsSeqHigherThan(p.seq, Newest(b).seq, SeqMod)
        /\ \/ /\ IsSeqLowerThan(p.ts, Newest(b).ts, TsMod)
              /\ buffer' = b
           \/ /\ ~IsSeqLowerThan(p.ts, Newest(b).ts, TsMod)
              /\ \/ excess <= 0 /\ buffer' = PushBack(b, blanks, p)
                 \/ excess > Len(b) - 1 /\ excess > 0 /\ StoreAlone(p)
                 \/ /\ excess \in 1 .. Len(b) - 1
                    /\ \E k \in 2 .. Len(b) + 1 :
                          RemovesUpTo(b, k) /\ buffer' = PushBack(From(b, k), blanks, p)

\* Step 5: a packet before the oldest.
InsertOlder(b, p) ==
    LET blanks == Minus(Oldest(b).seq, p.seq, SeqMod) - 1
        discard == \/ IsTooOldTimestamp(p.ts, Newest(b).ts)
                   \/ IsSeqHigherThan(p.ts, Oldest(b).ts, TsMod)
                   \/ Len(b) + blanks + 1 > MaxItems
    IN  /\ ~IsSeqHigherThan(p.seq, Newest(b).seq, SeqMod)
        /\ IsSeqLowerThan(p.seq, Oldest(b).seq, SeqMod)
        /\ buffer' = IF discard THEN b ELSE PushFront(b, blanks, p)

InsertBetween_Replaces(b, p) ==
    LET idx == Index(b, p.seq)
    IN  /\ ~IsSeqHigherThan(p.seq, Newest(b).seq, SeqMod)
        /\ ~IsSeqLowerThan(p.seq, Oldest(b).seq, SeqMod)
        /\ buffer' = IF Fits(b, idx, p.ts) THEN [b EXCEPT ![idx] = p] ELSE b

\* Step 6: a packet in between.
InsertBetween(b, p) ==
    LET idx == Index(b, p.seq)
    IN  /\ ~IsSeqHigherThan(p.seq, Newest(b).seq, SeqMod)
        /\ ~IsSeqLowerThan(p.seq, Oldest(b).seq, SeqMod)
        /\ buffer' = IF Get(b, p.seq) = Blank /\ Fits(b, idx, p.ts)
                     THEN [b EXCEPT ![idx] = p] ELSE b

\* Step 3, then 4, 5 or 6.
InsertAmong(p) ==
    \E k \in 1 .. Len(buffer) + 1 :
        /\ ClearsUpTo(buffer, LaterOf(p.ts, Newest(buffer).ts), k)
        /\ \/ k > Len(buffer) /\ StoreAlone(p)
           \/ /\ k <= Len(buffer)
              /\ \/ InsertInOrder(From(buffer, k), p)
                 \/ InsertOlder(From(buffer, k), p)
                 \/ InsertBetween(From(buffer, k), p)

\* The packets a stream offers: the timestamp is not far ahead of the newest.
Offered(p) ==
    IF buffer = <<>> THEN p.seq = FirstSeq
    ELSE \/ ~IsSeqHigherThan(p.ts, Newest(buffer).ts, TsMod)
         \/ Minus(p.ts, Newest(buffer).ts, TsMod) <= MaxTsJump

Insert(p) ==
    /\ Offered(p)
    /\ \/ buffer = <<>> /\ StoreAlone(p)
       \/ buffer # <<>> /\ StartsAnew(p) /\ StoreAlone(p)
       \/ buffer # <<>> /\ ~StartsAnew(p) /\ InsertAmong(p)
    /\ Len(buffer') <= MaxSlots

Next == \E p \in Item : Insert(p)

Spec == Init /\ [][Next]_buffer

--------------------------------------------------------------------------------
(* Properties                                                              *)

\* The deque holds items and blank slots.
TypeOK == buffer \in Seq(Item \cup {Blank})

\* Both ends of the deque hold an item (Insert, Get and RemoveOldest dereference
\* GetOldest() and GetNewest() whenever it is not empty), and every stored packet
\* is the one Get finds under its sequence number, across the wrap, the blank
\* slots of lost packets and the trimming at both ends.
Retrievable ==
    /\ buffer # <<>> => Oldest(buffer) # Blank /\ Newest(buffer) # Blank
    /\ \A i \in DOMAIN buffer : buffer[i] # Blank => Get(buffer, buffer[i].seq) = buffer[i]

\* The comment at rtp_retransmission_buffer.cpp:58-63: the elements are not only
\* ordered by increasing sequence number, their timestamps are too; and the one
\* at rtp_retransmission_buffer.h:19-23: they cover a range of at most the
\* maximum retransmission delay.
WithinAge ==
    /\ \A i, j \in DOMAIN buffer :
          Adjacent(buffer, i, j) => ~IsSeqLowerThan(buffer[j].ts, buffer[i].ts, TsMod)
    /\ \A i \in DOMAIN buffer :
          buffer[i] # Blank => Minus(Newest(buffer).ts, buffer[i].ts, TsMod) <= MaxAge

\* Insert drops a stored packet only if it is too old for the newest timestamp
\* known, if the sender started anew, or if the range up to the new packet
\* would be longer than max_items_.
Cause(p, item) ==
    \/ StartsAnew(p)
    \/ IsTooOldTimestamp(item.ts, LaterOf(p.ts, Newest(buffer).ts))
    \/ Minus(p.seq, item.seq, SeqMod) + 1 > MaxItems

Stored(b) == {b[i] : i \in DOMAIN b} \ {Blank}

DropsForCause ==
    [][ LET dropped == Stored(buffer) \ Stored(buffer')
        IN  dropped # {} =>
                \E p \in Item : (\A item \in dropped : Cause(p, item)) /\ Insert(p)
      ]_buffer

================================================================================
