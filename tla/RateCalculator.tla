---------------------------- MODULE RateCalculator -----------------------------
(***************************************************************************)
(* RateCalculator (core/src/rtc/data_calculator.cpp): the amount of data   *)
(* in a window of time that moves on, kept in a ring of items that each    *)
(* collect the data of ItemSize milliseconds.                              *)
(*                                                                         *)
(* The rate is the total times a constant, rounded, and is represented by  *)
(* the total.  Times are those of GetTimeMs, which never goes back and is  *)
(* not less than the window (the code subtracts without a sign).           *)
(*                                                                         *)
(* A definition X_Y is X with a plausible bug Y, which no specification    *)
(* uses; it is there to show that the properties notice the bug.           *)
(***************************************************************************)
EXTENDS Integers, FiniteSets, FiniteSetsExt

CONSTANTS
    WindowItems,        \* window_items_
    ItemSize,           \* item_size_ms_
    Sizes,              \* the sizes of packets
    MaxTime             \* bound: the milliseconds that pass

\* As in both windows of the code, 1000 and 2500 with 100 items.
WindowSize == WindowItems * ItemSize    \* window_size_ms_

ASSUME WindowAssumption == {WindowItems, ItemSize} \subseteq Nat \ {0}
ASSUME SizesAssumption == Sizes \subseteq Nat /\ MaxTime \in Nat

VARIABLES
    now,                \* GetTimeMs
    ring,               \* buffer_, the two indexes with their times, total_count_
    last_time,          \* last_time_
    last_rate,          \* last_rate_
    size_at             \* history: what was counted in each millisecond

rate_vars == <<now, ring, last_time, last_rate, size_at>>

Slots == 0 .. WindowItems - 1
Times == WindowSize .. WindowSize + MaxTime
\* The sum of f over a set
SumOver(f, S) == MapThenSumSet(LAMBDA s : f[s], S)

NoItem == [count |-> 0, time |-> 0]

\* Reset, apart from last_time_ and last_rate_
EmptyRing ==
    [buffer |-> [i \in Slots |-> NoItem], newest |-> -1, newest_start |-> 0,
     oldest |-> -1, oldest_start |-> 0, total |-> 0]

RateInit ==
    /\ now = WindowSize
    /\ ring = EmptyRing
    /\ last_time = 0 /\ last_rate = 0
    /\ size_at = [t \in Times |-> 0]

--------------------------------------------------------------------------------

\* The n-th slot from the oldest one on
Slot(n) == (ring.oldest + n) % WindowItems

TooOld(time) == time <= now - WindowSize

\* The loop of RemoveOldData takes the first n items, up to one that is not
\* too old.
RemoveFirst(n) ==
    LET gone == {Slot(i) : i \in 0 .. n - 1}
    IN  [ring EXCEPT
            !.total = @ - SumOver([s \in Slots |-> ring.buffer[s].count], gone),
            !.buffer = [s \in Slots |-> IF s \in gone THEN NoItem ELSE @[s]],
            !.oldest = Slot(n),
            !.oldest_start = ring.buffer[Slot(n)].time]

RemoveOldData ==
    IF ring.newest < 0 \/ ring.oldest < 0 \/ ~TooOld(ring.oldest_start) THEN ring
    ELSE IF TooOld(ring.newest_start) THEN EmptyRing
    ELSE RemoveFirst(CHOOSE n \in 1 .. WindowItems :
                        /\ ~TooOld(ring.buffer[Slot(n)].time)
                        /\ \A i \in 0 .. n - 1 : TooOld(ring.buffer[Slot(i)].time))

\* A new item if the newest one is over, or more for the newest one
Add(r, size) ==
    LET next == (r.newest + 1) % WindowItems
    IN  IF r.newest < 0 \/ now - r.newest_start >= ItemSize
        THEN [r EXCEPT
                !.newest = next, !.newest_start = now,
                !.buffer[next] = [count |-> size, time |-> now],
                !.oldest = IF @ < 0 THEN next ELSE @,
                !.oldest_start = IF r.oldest < 0 THEN now ELSE @,
                !.total = @ + size]
        ELSE [r EXCEPT !.buffer[r.newest].count = @ + size, !.total = @ + size]

Update_KeepsTheRate(size) ==
    /\ ring' = Add(RemoveOldData, size)
    /\ size_at' = [size_at EXCEPT ![now] = @ + size]
    /\ UNCHANGED <<now, last_time, last_rate>>

\* An Update with a time before the oldest item does not occur.
Update(size) ==
    /\ ring' = Add(RemoveOldData, size)
    /\ last_time' = 0 /\ last_rate' = 0
    /\ size_at' = [size_at EXCEPT ![now] = @ + size]
    /\ UNCHANGED now

\* Asked again at the same time, it answers what it answered.
GetRate ==
    /\ now # last_time
    /\ ring' = RemoveOldData
    /\ last_time' = now
    /\ last_rate' = ring'.total
    /\ UNCHANGED <<now, size_at>>

RateTick ==
    /\ now + 1 \in Times
    /\ now' = now + 1
    /\ UNCHANGED <<ring, last_time, last_rate, size_at>>

\* bound: one update of each size in a millisecond
RateNext ==
    \/ \E size \in Sizes : size_at[now] < size /\ Update(size)
    \/ GetRate
    \/ RateTick

RateSpec == RateInit /\ [][RateNext]_rate_vars

--------------------------------------------------------------------------------
(* Properties                                                              *)

SizeSince(t) == SumOver(size_at, {u \in Times : u >= t})

\* What GetRate answers, or answers again, is what was counted in the window:
\* nothing that is older, and everything that is younger by an item at least,
\* however the ring turned.
RateIsOfWindow ==
    last_time = now =>
        /\ last_rate <= SizeSince(now - WindowSize + 1)
        /\ last_rate >= SizeSince(now - WindowSize + ItemSize)

================================================================================
