----------------------- MODULE RetransmissionBufferProofs -----------------------
(***************************************************************************)
(* Proofs about RtpRetransmissionBuffer and RtpStreamSender, for any       *)
(* number of sequence numbers and timestamps, any limits of items and age, *)
(* any packets and any NACKs.                                              *)
(*                                                                         *)
(*   Places     a slot's place in the deque is its distance from the       *)
(*              oldest, and both ends hold an item: Get finds what is      *)
(*              stored                                                     *)
(*   AgeInv     seen from the newest timestamp, the items are ordered by   *)
(*              age and none is too old                                    *)
(*   SameTimes  the times of the items are the last retransmissions        *)
(*                                                                         *)
(* The loops of FillRetransmissionContainer and ReceiveNack are recursive  *)
(* functions; what they compute is proved by induction on the number of    *)
(* passes, Collects and Answer being the invariants of the loops.          *)
(***************************************************************************)
EXTENDS RtpStreamSender, WellFoundedInduction, TLAPS

Slot == Item \cup {Blank}
Half == HalfRange(SeqMod)

LEMMA Constants ==
    /\ SeqMod \in Nat \ {0} /\ MaxSlots \in Nat
    /\ Half \in Nat /\ 2 * Half <= SeqMod - 1 /\ MaxSlots <= Half + 1
BY ModAssumption, MaxSlotsAssumption DEF Half, HalfRange

LEMMA MinusType ==
    ASSUME NEW M \in Nat \ {0}, NEW x \in 0 .. M - 1, NEW y \in 0 .. M - 1
    PROVE  Minus(x, y, M) \in 0 .. M - 1
BY DEF Minus

LEMMA ItemType ==
    ASSUME NEW p \in Item
    PROVE  p # Blank /\ p.seq \in 0 .. SeqMod - 1
<1>1. p.seq \in 0 .. SeqMod - 1
  BY DEF Item
<1>2. Blank.seq = SeqMod
  BY DEF Blank
<1> QED
  BY <1>1, <1>2, Constants

LEMMA IsSequence ==
    ASSUME NEW S, NEW n \in Nat, NEW f \in [1 .. n -> S]
    PROVE  f \in Seq(S) /\ Len(f) = n /\ DOMAIN f = 1 .. n
OBVIOUS

LEMMA Distance ==
    ASSUME NEW s \in 0 .. SeqMod - 1, NEW q \in 0 .. SeqMod - 1, NEW k \in Nat, NEW j \in Nat,
           k + j < SeqMod, Minus(q, Plus(s, k, SeqMod), SeqMod) = j
    PROVE  q = Plus(s, k + j, SeqMod)
BY Constants DEF Plus, Minus

LEMMA Further ==
    ASSUME NEW s \in 0 .. SeqMod - 1, NEW k \in Nat, NEW j \in Nat, k + j < SeqMod
    PROVE  Plus(Plus(s, k, SeqMod), j, SeqMod) = Plus(s, k + j, SeqMod)
BY Constants DEF Plus

\* No number up to half the range further is lower.
LEMMA NotLower ==
    ASSUME NEW s \in 0 .. SeqMod - 1, NEW k \in 0 .. Half
    PROVE  ~IsSeqLowerThan(Plus(s, k, SeqMod), s, SeqMod)
<1>1. /\ SeqMod \in Nat /\ Half \in Nat /\ HalfRange(SeqMod) = Half
      /\ 2 * Half <= SeqMod - 1
  BY Constants DEF Half
<1>2. CASE s + k < SeqMod
  BY <1>1, <1>2 DEF IsSeqLowerThan, Plus
<1>3. CASE s + k >= SeqMod
  BY <1>1, <1>3 DEF IsSeqLowerThan, Plus
<1> QED
  BY <1>1, <1>2, <1>3

\* The distance of two numbers counted from the same one
LEMMA Apart ==
    ASSUME NEW s \in 0 .. SeqMod - 1, NEW k \in 0 .. SeqMod - 1, NEW h \in 0 .. k
    PROVE  Minus(Plus(s, k, SeqMod), Plus(s, h, SeqMod), SeqMod) = k - h
<1>1. SeqMod \in Nat
  BY Constants
<1>2. CASE s + h >= SeqMod \/ s + k < SeqMod
  BY <1>1, <1>2 DEF Minus, Plus
<1>3. CASE s + h < SeqMod /\ s + k >= SeqMod
  BY <1>1, <1>3 DEF Minus, Plus
<1> QED
  BY <1>1, <1>2, <1>3

LEMMA Behind ==
    ASSUME NEW n \in Nat, NEW i \in Int, i - n - 1 >= 1
    PROVE  n + 1 \in Nat /\ i - n - 1 - 1 \in Nat /\ (n + 1) + (i - n - 1 - 1) = i - 1
OBVIOUS

--------------------------------------------------------------------------------
(* A deque addressed by sequence number                                    *)

InPlaces(b) == \A i \in 1 .. Len(b) : b[i] # Blank => b[i].seq = Plus(b[1].seq, i - 1, SeqMod)

Addressed(b) ==
    /\ b \in Seq(Slot) /\ Len(b) \in 1 .. MaxSlots
    /\ b[1] # Blank /\ b[Len(b)] # Blank
    /\ InPlaces(b)

LEMMA SlotType ==
    ASSUME NEW b, Addressed(b), NEW i \in 1 .. Len(b), b[i] # Blank
    PROVE  b[i] \in Item /\ b[i].seq \in 0 .. SeqMod - 1 /\ b[i].seq = Plus(b[1].seq, i - 1, SeqMod)
<1>1. b[i] \in Slot
  BY DEF Addressed
<1> QED
  BY <1>1, ItemType DEF Slot, Addressed, InPlaces

\* Get finds what is in place.
LEMMA AddressedIsFound ==
    ASSUME NEW b, Addressed(b), NEW i \in 1 .. Len(b), b[i] # Blank
    PROVE  Get(b, b[i].seq) = b[i]
<1>1. /\ Len(b) \in 1 .. MaxSlots /\ b # <<>>
      /\ b[1] # Blank
  BY DEF Addressed
<1>2. b[1].seq \in 0 .. SeqMod - 1 /\ b[i].seq = Plus(b[1].seq, i - 1, SeqMod)
  BY <1>1, SlotType
<1>3. Index(b, b[i].seq) = i
  BY <1>1, <1>2, Constants DEF Index, Oldest, Minus, Plus
<1>4. ~IsSeqLowerThan(b[i].seq, Oldest(b).seq, SeqMod)
  <2> DEFINE k == i - 1
  <2>1. k \in 0 .. Half
    BY <1>1, Constants
  <2>2. b[i].seq = Plus(b[1].seq, k, SeqMod) /\ Oldest(b) = b[1]
    BY <1>2 DEF Oldest
  <2> HIDE DEF k
  <2> QED
    BY <1>2, <2>1, <2>2, NotLower
<1> QED
  BY <1>1, <1>3, <1>4 DEF Get

LEMMA AloneIsAddressed ==
    ASSUME NEW p \in Item, 1 <= MaxSlots
    PROVE  Addressed(<<p>>)
<1>1. <<p>> \in Seq(Slot) /\ Len(<<p>>) = 1 /\ <<p>>[1] = p
  BY DEF Slot
<1>2. p # Blank /\ p.seq = Plus(p.seq, 0, SeqMod)
  BY ItemType, Constants DEF Plus
<1> QED
  BY <1>1, <1>2, Constants DEF Addressed, InPlaces

\* ClearTooOldByTimestamp and RemoveOldest stop at an item.
LEMMA FromIsAddressed ==
    ASSUME NEW b, Addressed(b), NEW k \in 1 .. Len(b), b[k] # Blank
    PROVE  /\ Addressed(From(b, k))
           /\ Len(From(b, k)) = Len(b) - k + 1
           /\ Newest(From(b, k)) = Newest(b)
           /\ \A i \in 1 .. Len(b) - k + 1 : From(b, k)[i] = b[i + k - 1]
<1> DEFINE n == Len(b) - k + 1
           c == From(b, k)
<1>1. /\ Len(b) \in 1 .. MaxSlots /\ b \in [1 .. Len(b) -> Slot]
      /\ n \in 1 .. Len(b)
  BY Constants DEF Addressed
<1>2. c \in [1 .. n -> Slot] /\ \A i \in 1 .. n : c[i] = b[i + k - 1]
  BY <1>1 DEF From
<1>3. c \in Seq(Slot) /\ Len(c) = n
  BY <1>1, <1>2, IsSequence
<1>4. c[1] = b[k] /\ c[n] = b[Len(b)]
  BY <1>1, <1>2
<1>5. ASSUME NEW i \in 1 .. n, c[i] # Blank PROVE c[i].seq = Plus(c[1].seq, i - 1, SeqMod)
  <2>1. c[i] = b[i + k - 1] /\ i + k - 1 \in 1 .. Len(b) /\ b[1] # Blank /\ 1 \in 1 .. Len(b)
    BY <1>1, <1>2 DEF Addressed
  <2>2. /\ b[1].seq \in 0 .. SeqMod - 1
        /\ b[k].seq = Plus(b[1].seq, k - 1, SeqMod)
        /\ c[i].seq = Plus(b[1].seq, i + k - 1 - 1, SeqMod)
    <3> HIDE DEF c
    <3> QED
      BY <1>5, <2>1, SlotType
  <2> QED
    BY <1>1, <1>4, <2>1, <2>2, Constants, SMTT(20) DEF Plus
<1> QED
  BY <1>1, <1>2, <1>3, <1>4, <1>5, Constants DEF Addressed, InPlaces, Newest

\* Step 4 of Insert
LEMMA PushBackIsAddressed ==
    ASSUME NEW b, Addressed(b), NEW p \in Item, NEW n \in Nat,
           n = Minus(p.seq, Newest(b).seq, SeqMod) - 1,
           Len(PushBack(b, n, p)) <= MaxSlots
    PROVE  Addressed(PushBack(b, n, p))
<1> DEFINE c == PushBack(b, n, p)
           m == Len(b) + n + 1
<1>1. /\ Len(b) \in 1 .. MaxSlots /\ b \in [1 .. Len(b) -> Slot] /\ m \in Nat
      /\ b[1] # Blank /\ b[Len(b)] # Blank
  BY Constants DEF Addressed
<1>2. /\ c \in [1 .. m -> Slot]
      /\ \A i \in 1 .. m : c[i] = IF i <= Len(b) THEN b[i] ELSE IF i <= Len(b) + n THEN Blank ELSE p
  BY <1>1 DEF PushBack, Slot
<1>3. c \in Seq(Slot) /\ Len(c) = m
  BY <1>1, <1>2, IsSequence
<1>4. m <= MaxSlots
  BY <1>3
<1> HIDE DEF c
<1>5. c[1] = b[1] /\ c[m] = p /\ p # Blank /\ p.seq \in 0 .. SeqMod - 1
  BY <1>1, <1>2, ItemType
<1>6. b[1].seq \in 0 .. SeqMod - 1 /\ Newest(b).seq = Plus(b[1].seq, Len(b) - 1, SeqMod)
  BY <1>1, SlotType DEF Newest
<1>7. p.seq = Plus(b[1].seq, m - 1, SeqMod)
  <2>1. Newest(b).seq \in 0 .. SeqMod - 1
    BY <1>1, SlotType DEF Newest
  <2>2. Minus(p.seq, Newest(b).seq, SeqMod) = n + 1
    BY <1>5, <2>1, Constants DEF Minus
  <2>3. /\ Len(b) - 1 \in Nat /\ n + 1 \in Nat
        /\ (Len(b) - 1) + (n + 1) = m - 1 /\ m - 1 < SeqMod
    <3>1. Len(b) \in Nat \ {0} /\ m - 1 < SeqMod
      <4> HIDE DEF m
      <4> QED
        BY <1>1, <1>4, Constants
    <3> QED
      BY <3>1
  <2> HIDE DEF m
  <2>4. p.seq = Plus(b[1].seq, (Len(b) - 1) + (n + 1), SeqMod)
    <3>1. (Len(b) - 1) + (n + 1) < SeqMod
      BY <2>3
    <3>2. Minus(p.seq, Plus(b[1].seq, Len(b) - 1, SeqMod), SeqMod) = n + 1
      BY <1>6, <2>2
    <3> DEFINE k == Len(b) - 1
               j == n + 1
               s == b[1].seq
               q == p.seq
    <3>3. /\ s \in 0 .. SeqMod - 1 /\ q \in 0 .. SeqMod - 1 /\ k \in Nat /\ j \in Nat
          /\ k + j < SeqMod /\ Minus(q, Plus(s, k, SeqMod), SeqMod) = j
      BY <1>5, <1>6, <2>3, <3>1, <3>2
    <3> HIDE DEF k, j, s, q
    <3>4. q = Plus(s, k + j, SeqMod)
      BY <3>3, Distance
    <3> QED
      BY <3>4 DEF k, j, s, q
  <2> QED
    BY <2>3, <2>4
<1>8. ASSUME NEW i \in 1 .. m, c[i] # Blank PROVE c[i].seq = Plus(c[1].seq, i - 1, SeqMod)
  <2>1. CASE i <= Len(b)
    <3>1. c[i] = b[i] /\ i \in 1 .. Len(b)
      BY <1>1, <1>2, <2>1
    <3> HIDE DEF m
    <3> QED
      BY <1>5, <1>8, <3>1, SlotType
  <2>2. CASE i > Len(b)
    <3>1. c[i] = p /\ i = m
      BY <1>1, <1>2, <1>8, <2>2
    <3> QED
      BY <1>5, <1>7, <3>1
  <2> QED
    BY <1>1, <2>1, <2>2
<1>9. m \in 1 .. MaxSlots
  BY <1>1, <1>4, Constants
<1> HIDE DEF m
<1>10. InPlaces(c)
  BY <1>3, <1>8 DEF InPlaces
<1> QED
  BY <1>1, <1>3, <1>5, <1>9, <1>10 DEF Addressed, c

\* Step 5 of Insert
LEMMA PushFrontIsAddressed ==
    ASSUME NEW b, Addressed(b), NEW p \in Item, NEW n \in Nat,
           n = Minus(Oldest(b).seq, p.seq, SeqMod) - 1,
           Len(PushFront(b, n, p)) <= MaxSlots
    PROVE  Addressed(PushFront(b, n, p))
<1> DEFINE c == PushFront(b, n, p)
           m == Len(b) + n + 1
<1>1. /\ Len(b) \in 1 .. MaxSlots /\ b \in [1 .. Len(b) -> Slot] /\ m \in Nat
      /\ b[1] # Blank /\ b[Len(b)] # Blank
  BY Constants DEF Addressed
<1>2. /\ c \in [1 .. m -> Slot]
      /\ \A i \in 1 .. m : c[i] = IF i = 1 THEN p ELSE IF i <= n + 1 THEN Blank ELSE b[i - n - 1]
  BY <1>1 DEF PushFront, Slot
<1>3. c \in Seq(Slot) /\ Len(c) = m
  BY <1>1, <1>2, IsSequence
<1>4. m <= MaxSlots
  BY <1>3
<1> HIDE DEF c
<1>5. c[1] = p /\ c[m] = b[Len(b)] /\ p # Blank /\ p.seq \in 0 .. SeqMod - 1
  <2>1. m \in 1 .. m /\ 1 \in 1 .. m /\ m # 1 /\ ~(m <= n + 1) /\ m - n - 1 = Len(b)
    BY <1>1
  <2> HIDE DEF m
  <2> QED
    BY <1>2, <2>1, ItemType
<1>6. b[1].seq \in 0 .. SeqMod - 1 /\ b[1].seq = Plus(p.seq, n + 1, SeqMod)
  <2>1. b[1].seq \in 0 .. SeqMod - 1
    BY <1>1, SlotType
  <2> QED
    <3>1. Minus(b[1].seq, p.seq, SeqMod) = n + 1
      <4>1. n = Minus(b[1].seq, p.seq, SeqMod) - 1
        BY DEF Oldest
      <4>2. Minus(b[1].seq, p.seq, SeqMod) \in Int
        <5>1. Minus(b[1].seq, p.seq, SeqMod) \in 0 .. SeqMod - 1
          BY <1>5, <2>1, Constants, MinusType
        <5> QED
          BY <5>1
      <4> QED
        BY <4>1, <4>2
    <3>2. p.seq = Plus(p.seq, 0, SeqMod)
      BY <1>5, Constants DEF Plus
    <3>3. n + 1 \in Nat /\ 0 + (n + 1) = n + 1 /\ n + 1 < SeqMod
      BY <1>1, <1>4, Constants
    <3>4. b[1].seq = Plus(p.seq, 0 + (n + 1), SeqMod)
      BY <1>5, <2>1, <3>1, <3>2, <3>3, Distance
    <3> QED
      BY <2>1, <3>3, <3>4
<1>7. ASSUME NEW i \in 1 .. m, c[i] # Blank PROVE c[i].seq = Plus(p.seq, i - 1, SeqMod)
  <2>1. CASE i = 1
    BY <1>2, <1>5, <2>1, Constants DEF Plus
  <2>2. CASE i # 1
    <3>1. c[i] = b[i - n - 1] /\ i - n - 1 \in 1 .. Len(b)
      BY <1>1, <1>2, <1>7, <2>2
    <3>2. c[i].seq = Plus(b[1].seq, i - n - 1 - 1, SeqMod)
      <4> HIDE DEF m
      <4> QED
        BY <1>7, <3>1, SlotType
    <3>3. /\ n + 1 \in Nat /\ i - n - 1 - 1 \in Nat
          /\ (n + 1) + (i - n - 1 - 1) = i - 1
      <4>1. i \in Int /\ i - n - 1 >= 1
        BY <1>1, <3>1
      <4> HIDE DEF m
      <4> QED
        BY <4>1, Behind
    <3>4. i - 1 < SeqMod
      BY <1>4, Constants
    <3> DEFINE k == i - n - 1 - 1
    <3>5. k \in Nat /\ (n + 1) + k = i - 1 /\ c[i].seq = Plus(b[1].seq, k, SeqMod)
      BY <3>2, <3>3
    <3> HIDE DEF k
    <3>6. Plus(Plus(p.seq, n + 1, SeqMod), k, SeqMod) = Plus(p.seq, (n + 1) + k, SeqMod)
      <4>1. p.seq \in 0 .. SeqMod - 1 /\ n + 1 \in Nat /\ k \in Nat /\ (n + 1) + k < SeqMod
        BY <1>5, <3>3, <3>4, <3>5
      <4> QED
        BY <4>1, Further, ZenonT(30)
    <3> QED
      BY <1>6, <3>5, <3>6
  <2> QED
    BY <2>1, <2>2
<1>8. m \in 1 .. MaxSlots
  BY <1>1, <1>4, Constants
<1> HIDE DEF m
<1>9. InPlaces(c)
  BY <1>3, <1>5, <1>7 DEF InPlaces
<1> QED
  BY <1>1, <1>3, <1>5, <1>8, <1>9 DEF Addressed, c

\* Step 6 of Insert
LEMMA FilledIsAddressed ==
    ASSUME NEW b, Addressed(b), NEW p \in Item
    PROVE  Addressed([b EXCEPT ![Index(b, p.seq)] = p])
<1> DEFINE x == Index(b, p.seq)
           c == [b EXCEPT ![x] = p]
<1>1. /\ Len(b) \in 1 .. MaxSlots /\ b \in [1 .. Len(b) -> Slot]
      /\ b[1] # Blank /\ b[Len(b)] # Blank /\ 1 \in 1 .. Len(b)
  BY Constants DEF Addressed
<1>2. p # Blank /\ p.seq \in 0 .. SeqMod - 1 /\ p \in Slot
  BY ItemType DEF Slot
<1>3. b[1].seq \in 0 .. SeqMod - 1
  BY <1>1, SlotType
<1>4. x \in 1 .. SeqMod /\ p.seq = Plus(b[1].seq, x - 1, SeqMod)
  BY <1>2, <1>3, Constants DEF Index, Oldest, Minus, Plus
<1> HIDE DEF x
<1>5. c \in [1 .. Len(b) -> Slot] /\ \A i \in 1 .. Len(b) : c[i] = IF i = x THEN p ELSE b[i]
  BY <1>1, <1>2
<1>6. c \in Seq(Slot) /\ Len(c) = Len(b)
  BY <1>1, <1>5, IsSequence
<1>7. c[1] # Blank /\ c[Len(b)] # Blank /\ c[1].seq = b[1].seq
  <2>1. x = 1 => p.seq = b[1].seq
    BY <1>3, <1>4, Constants DEF Plus
  <2> QED
    BY <1>1, <1>2, <1>5, <2>1
<1>8. ASSUME NEW i \in 1 .. Len(b), c[i] # Blank PROVE c[i].seq = Plus(b[1].seq, i - 1, SeqMod)
  <2>1. CASE i = x
    BY <1>4, <1>5, <2>1
  <2>2. CASE i # x
    <3>1. c[i] = b[i]
      BY <1>5, <2>2
    <3> HIDE DEF c
    <3> QED
      BY <1>8, <3>1, SlotType
  <2> QED
    BY <2>1, <2>2
<1> HIDE DEF c
<1> QED
  BY <1>1, <1>6, <1>7, <1>8 DEF Addressed, InPlaces, c, x

--------------------------------------------------------------------------------
(* Insert                                                                  *)

Places == buffer = <<>> \/ Addressed(buffer)

\* What Insert leaves in the deque, if it fits
Fit(b) == Len(b) <= MaxSlots => Addressed(b)

LEMMA InOrderPreserves ==
    ASSUME NEW b, Addressed(b), NEW p \in Item, InsertInOrder(b, p)
    PROVE  Fit(buffer')
<1> DEFINE blanks == Minus(p.seq, Newest(b).seq, SeqMod) - 1
           excess == Len(b) + blanks + 1 - MaxItems
<1>1. /\ Len(b) \in 1 .. MaxSlots /\ b[1] # Blank /\ b[Len(b)] # Blank
      /\ p.seq \in 0 .. SeqMod - 1
  BY ItemType DEF Addressed
<1>2. Newest(b).seq \in 0 .. SeqMod - 1
  BY <1>1, Constants, SlotType DEF Newest
<1>3. blanks \in Nat
  <2>1. IsSeqHigherThan(p.seq, Newest(b).seq, SeqMod)
    BY DEF InsertInOrder
  <2> QED
    BY <1>1, <1>2, <2>1, Constants DEF IsSeqHigherThan, Minus
<1>4. \/ buffer' = b
      \/ buffer' = PushBack(b, blanks, p)
      \/ StoreAlone(p)
      \/ /\ excess \in 1 .. Len(b) - 1
         /\ \E k \in 2 .. Len(b) + 1 : RemovesUpTo(b, k) /\ buffer' = PushBack(From(b, k), blanks, p)
  BY DEF InsertInOrder
<1>5. ASSUME NEW c, Addressed(c), Newest(c) = Newest(b), buffer' = PushBack(c, blanks, p)
      PROVE  Fit(buffer')
  <2>1. blanks = Minus(p.seq, Newest(c).seq, SeqMod) - 1
    BY <1>5
  <2> HIDE DEF blanks
  <2> QED
    BY <1>3, <1>5, <2>1, PushBackIsAddressed DEF Fit
<1>6. ASSUME NEW k \in 2 .. Len(b) + 1, RemovesUpTo(b, k), excess \in 1 .. Len(b) - 1
      PROVE  k \in 1 .. Len(b) /\ b[k] # Blank
  <2>1. Len(b) \in 2 .. Len(b)
    BY <1>1, <1>6
  <2>2. k # Len(b) + 1
    BY <1>1, <1>6, <2>1 DEF RemovesUpTo
  <2> QED
    BY <1>1, <1>6, <2>2 DEF RemovesUpTo
<1>7. StoreAlone(p) => Fit(buffer')
  BY AloneIsAddressed, Constants DEF StoreAlone, Fit
<1> HIDE DEF blanks, excess
<1>8. ASSUME NEW k \in 2 .. Len(b) + 1, RemovesUpTo(b, k), excess \in 1 .. Len(b) - 1,
             buffer' = PushBack(From(b, k), blanks, p)
      PROVE  Fit(buffer')
  <2>1. Addressed(From(b, k)) /\ Newest(From(b, k)) = Newest(b)
    BY <1>6, <1>8, FromIsAddressed
  <2> QED
    BY <1>5, <1>8, <2>1
<1> QED
  BY <1>4, <1>5, <1>7, <1>8 DEF Fit

LEMMA OlderPreserves ==
    ASSUME NEW b, Addressed(b), NEW p \in Item, InsertOlder(b, p)
    PROVE  Fit(buffer')
<1> DEFINE blanks == Minus(Oldest(b).seq, p.seq, SeqMod) - 1
<1>1. p.seq \in 0 .. SeqMod - 1 /\ b[1] # Blank /\ 1 \in 1 .. Len(b)
  BY ItemType, Constants DEF Addressed
<1>2. Oldest(b).seq \in 0 .. SeqMod - 1
  BY <1>1, SlotType DEF Oldest
<1>3. blanks \in Nat
  <2>1. IsSeqLowerThan(p.seq, Oldest(b).seq, SeqMod)
    BY DEF InsertOlder
  <2> QED
    BY <1>1, <1>2, <2>1, Constants DEF IsSeqLowerThan, Minus
<1>4. buffer' = b \/ buffer' = PushFront(b, blanks, p)
  BY DEF InsertOlder
<1>5. blanks = Minus(Oldest(b).seq, p.seq, SeqMod) - 1
  OBVIOUS
<1> HIDE DEF blanks
<1> QED
  BY <1>3, <1>4, <1>5, PushFrontIsAddressed DEF Fit

LEMMA BetweenPreserves ==
    ASSUME NEW b, Addressed(b), NEW p \in Item, InsertBetween(b, p)
    PROVE  Fit(buffer')
<1>1. buffer' = b \/ buffer' = [b EXCEPT ![Index(b, p.seq)] = p]
  BY DEF InsertBetween
<1> QED
  BY <1>1, FilledIsAddressed DEF Fit

LEMMA InsertPreserves ==
    ASSUME Places, NEW p \in Item, Insert(p)
    PROVE  Addressed(buffer')
<1>1. Len(buffer') <= MaxSlots
  BY DEF Insert
<1>2. StoreAlone(p) => Fit(buffer')
  BY AloneIsAddressed, Constants DEF StoreAlone, Fit
<1>3. ASSUME buffer # <<>>, InsertAmong(p) PROVE Fit(buffer')
  <2>1. Addressed(buffer) /\ Len(buffer) \in Nat
    BY <1>3 DEF Places, Addressed
  <2>2. PICK k \in 1 .. Len(buffer) + 1 :
            /\ k <= Len(buffer) => buffer[k] # Blank
            /\ \/ StoreAlone(p)
               \/ /\ k <= Len(buffer)
                  /\ \/ InsertInOrder(From(buffer, k), p)
                     \/ InsertOlder(From(buffer, k), p)
                     \/ InsertBetween(From(buffer, k), p)
    BY <1>3 DEF InsertAmong, ClearsUpTo
  <2>3. k <= Len(buffer) => Addressed(From(buffer, k))
    BY <2>1, <2>2, FromIsAddressed
  <2> QED
    BY <1>2, <2>2, <2>3, InOrderPreserves, OlderPreserves, BetweenPreserves
<1>4. Fit(buffer')
  BY <1>2, <1>3 DEF Insert
<1> QED
  BY <1>1, <1>4 DEF Fit

--------------------------------------------------------------------------------

LEMMA PlacesAreRetrievable == Places => Retrievable
<1>1. CASE buffer = <<>>
  BY <1>1 DEF Retrievable
<1>2. CASE Addressed(buffer)
  <2>1. Oldest(buffer) # Blank /\ Newest(buffer) # Blank /\ DOMAIN buffer = 1 .. Len(buffer)
    BY <1>2 DEF Addressed, Oldest, Newest
  <2> QED
    BY <1>2, <2>1, AddressedIsFound DEF Retrievable
<1> QED
  BY <1>1, <1>2 DEF Places

LEMMA PlacesStay == Places /\ UNCHANGED buffer => Places'
BY DEF Places, Addressed, InPlaces

\* RtpStreamSender stores some of its packets, and answers NACKs from the deque.
LEMMA SenderKeepsPlaces == SenderSpec => []Places
<1>1. SenderInit => Places
  BY DEF SenderInit, Init, Places
<1>2. Places /\ [SenderNext]_sender_vars => Places'
  BY InsertPreserves, PlacesStay
    DEF SenderNext, Places, ReceivePacket, StorePacket, StoresNothing, ReceiveNack,
        ReceiveRtcpReceiverReport, Tick, sender_vars
<1> QED
  BY <1>1, <1>2, PTL DEF SenderSpec

\* The deque stays addressable by sequence number: its ends hold packets, and Get
\* finds every stored packet under its number, whatever packets Insert is given.
THEOREM BufferIsRetrievable == Spec => []Retrievable
<1>1. Init => Places
  BY DEF Init, Places
<1>2. Places /\ [Next]_buffer => Places'
  BY InsertPreserves, PlacesStay DEF Next, Places
<1> QED
  BY <1>1, <1>2, PlacesAreRetrievable, PTL DEF Spec

\* So it does inside RtpStreamSender.
THEOREM SenderIsRetrievable == SenderSpec => []Retrievable
BY SenderKeepsPlaces, PlacesAreRetrievable, PTL

\* The deque holds packets and blank slots, and nothing else.
THEOREM BufferIsTyped == SenderSpec => []TypeOK
<1>1. Places => TypeOK
  <2>1. CASE buffer = <<>>
    BY <2>1 DEF TypeOK
  <2>2. CASE Addressed(buffer)
    BY <2>2 DEF Addressed, TypeOK, Slot
  <2> QED
    BY <2>1, <2>2 DEF Places
<1> QED
  BY <1>1, SenderKeepsPlaces, PTL

--------------------------------------------------------------------------------
(* Order by age                                                            *)

TsHalf == HalfRange(TsMod)
Ts == 0 .. TsMod - 1

\* A set of numbers that holds 0, and n + 1 with every n, holds them all.
LEMMA Induction ==
    ASSUME NEW S, 0 \in S, \A n \in Nat : n \in S => n + 1 \in S
    PROVE  Nat \subseteq S
<1> SUFFICES ASSUME Nat \ S # {} PROVE FALSE
  OBVIOUS
<1> DEFINE T == Nat \ S
<1>1. T \subseteq Nat /\ T # {}
  OBVIOUS
<1> HIDE DEF T
<1>2. PICK m \in T : \A x \in T : ~(<<x, m>> \in OpToRel(<, Nat))
  BY <1>1, NatLessThanWellFounded, WFMin
<1>3. m \in Nat \ {0} /\ m \notin S
  BY DEF T
<1>4. m - 1 \notin S
  BY <1>3
<1>5. m - 1 \in T /\ m - 1 < m
  BY <1>3, <1>4 DEF T
<1>6. <<m - 1, m>> \in OpToRel(<, Nat)
  BY <1>3, <1>5 DEF OpToRel
<1> QED
  BY <1>2, <1>5, <1>6

\* Half of the timestamps are more than the ages told apart.
LEMMA Ages ==
    /\ TsMod \in Nat \ {0} /\ TsHalf \in Nat /\ MaxAge \in Nat /\ MaxTsJump \in Nat
    /\ 2 * TsHalf <= TsMod - 1 /\ TsMod <= 2 * TsHalf + 2 /\ MaxAge + MaxTsJump <= TsHalf
BY ModAssumption, MaxAgeAssumption, AgeAssumption DEF TsHalf, HalfRange

\* What a slot that is not blank holds
LEMMA TsType ==
    ASSUME NEW s \in Slot, s # Blank
    PROVE  s \in Item /\ s.ts \in Ts /\ s.seq \in 0 .. SeqMod - 1
BY DEF Slot, Item, Ts

\* Timestamps seen from a later one
LEMMA Closer ==
    ASSUME NEW l \in Ts, NEW a \in Ts, NEW c \in Ts,
           Minus(l, c, TsMod) <= Minus(l, a, TsMod), Minus(l, a, TsMod) <= TsHalf
    PROVE  ~IsSeqLowerThan(c, a, TsMod)
<1> USE DEF Ts, Minus, IsSeqLowerThan
<1>1. HalfRange(TsMod) = TsHalf
  BY DEF TsHalf
<1> QED
  BY Ages, <1>1

\* Seen from a timestamp that is ahead of l
LEMMA Ahead ==
    ASSUME NEW l \in Ts, NEW p \in Ts, NEW a \in Ts, Minus(p, l, TsMod) <= MaxTsJump,
           Minus(l, a, TsMod) <= MaxAge
    PROVE  /\ Minus(p, a, TsMod) = Minus(p, l, TsMod) + Minus(l, a, TsMod)
           /\ Minus(p, a, TsMod) <= TsHalf
           /\ ~IsSeqHigherThan(a, p, TsMod)
<1>1. HalfRange(TsMod) = TsHalf
  BY DEF TsHalf
<1>2. Minus(p, a, TsMod) = Minus(p, l, TsMod) + Minus(l, a, TsMod)
  BY Ages DEF Ts, Minus
<1>3. Minus(p, a, TsMod) <= TsHalf
  BY <1>2, Ages DEF Minus, Ts
<1>4. ~IsSeqHigherThan(a, p, TsMod)
  BY <1>1, <1>3, Ages DEF Minus, Ts, IsSeqHigherThan
<1> QED
  BY <1>2, <1>3, <1>4

\* Seen from l, a packet that is not after a is not closer than a.
LEMMA NotAfter ==
    ASSUME NEW l \in Ts, NEW p \in Ts, NEW a \in Ts, ~IsSeqHigherThan(p, a, TsMod),
           Minus(l, a, TsMod) <= MaxAge, Minus(l, p, TsMod) <= MaxAge
    PROVE  Minus(l, a, TsMod) <= Minus(l, p, TsMod)
<1>1. HalfRange(TsMod) = TsHalf
  BY DEF TsHalf
<1> QED
  BY <1>1, Ages DEF Minus, Ts, IsSeqHigherThan

\* The code's raw comparison
LEMMA RawBetween ==
    ASSUME NEW l \in Ts, NEW p \in Ts, NEW a \in Ts, NEW c \in Ts, a <= p, p <= c,
           Minus(l, c, TsMod) <= Minus(l, a, TsMod)
    PROVE  /\ Minus(l, c, TsMod) <= Minus(l, p, TsMod)
           /\ Minus(l, p, TsMod) <= Minus(l, a, TsMod)
BY Ages DEF Minus, Ts

\* The comparators of SeqManager say which of two timestamps is ahead.
LEMMA TsOrder ==
    ASSUME NEW p \in Ts, NEW l \in Ts
    PROVE  /\ ~IsSeqLowerThan(p, l, TsMod) => p = l \/ IsSeqHigherThan(p, l, TsMod)
           /\ IsSeqLowerThan(p, l, TsMod) => ~IsSeqHigherThan(p, l, TsMod)
           /\ Minus(p, p, TsMod) = 0 /\ Minus(p, l, TsMod) \in Nat
<1>1. HalfRange(TsMod) = TsHalf
  BY DEF TsHalf
<1> QED
  BY <1>1, Ages DEF IsSeqLowerThan, IsSeqHigherThan, Ts, Minus

--------------------------------------------------------------------------------

\* The items of b are in the order of their age, seen from l, and not too old.
Young(b, l) ==
    \A i \in 1 .. Len(b) : b[i] # Blank =>
        /\ Minus(l, b[i].ts, TsMod) <= MaxAge
        /\ \A j \in i .. Len(b) :
              b[j] # Blank => Minus(l, b[j].ts, TsMod) <= Minus(l, b[i].ts, TsMod)

\* The inductive invariant behind WithinAge
AgeInv == Places /\ (buffer # <<>> => Young(buffer, Newest(buffer).ts))

\* Neighbours are in the order of all the items, and the ages are seen from the newest.
LEMMA AgeInvIsWithinAge == AgeInv => WithinAge
<1> SUFFICES ASSUME AgeInv PROVE WithinAge
  OBVIOUS
<1>1. CASE buffer = <<>>
  BY <1>1 DEF WithinAge
<1>2. CASE buffer # <<>>
  <2> DEFINE l == Newest(buffer).ts
  <2>1. /\ Addressed(buffer) /\ Young(buffer, l) /\ DOMAIN buffer = 1 .. Len(buffer)
        /\ Len(buffer) \in Nat \ {0} /\ \A i \in 1 .. Len(buffer) : buffer[i] \in Slot
    BY <1>2, Constants DEF AgeInv, Places, Addressed
  <2>2. l \in Ts
    BY <2>1, TsType DEF Newest, Addressed
  <2> HIDE DEF l
  <2>3. ASSUME NEW i \in DOMAIN buffer, NEW j \in DOMAIN buffer, Adjacent(buffer, i, j)
        PROVE  ~IsSeqLowerThan(buffer[j].ts, buffer[i].ts, TsMod)
    <3>1. buffer[i] # Blank /\ buffer[j] # Blank /\ j \in i .. Len(buffer) /\ i \in 1 .. Len(buffer)
      BY <2>1, <2>3 DEF Adjacent
    <3>2. buffer[i].ts \in Ts /\ buffer[j].ts \in Ts
      BY <2>1, <3>1, TsType
    <3>3. Minus(l, buffer[j].ts, TsMod) <= Minus(l, buffer[i].ts, TsMod)
          /\ Minus(l, buffer[i].ts, TsMod) <= MaxAge
      BY <2>1, <3>1 DEF Young
    <3>4. Minus(l, buffer[i].ts, TsMod) <= TsHalf
      BY <2>2, <3>2, <3>3, Ages DEF Minus, Ts
    <3> QED
      BY <2>2, <3>2, <3>3, <3>4, Closer
  <2> QED
    BY <2>1, <2>3 DEF WithinAge, Young, l
<1> QED
  BY <1>1, <1>2

\* The slots from k on
LEMMA FromIsYoung ==
    ASSUME NEW b, Addressed(b), NEW l, Young(b, l), NEW k \in 1 .. Len(b), b[k] # Blank
    PROVE  Young(From(b, k), l)
<1>1. /\ Len(From(b, k)) = Len(b) - k + 1 /\ Len(b) \in Nat
      /\ \A i \in 1 .. Len(b) - k + 1 : From(b, k)[i] = b[i + k - 1]
  BY FromIsAddressed, Constants DEF Addressed
<1> DEFINE c == From(b, k)
           n == Len(b) - k + 1
<1>2. ASSUME NEW i \in 1 .. n, c[i] # Blank
      PROVE  /\ Minus(l, c[i].ts, TsMod) <= MaxAge
             /\ \A j \in i .. n : c[j] # Blank => Minus(l, c[j].ts, TsMod) <= Minus(l, c[i].ts, TsMod)
  <2>1. c[i] = b[i + k - 1] /\ i + k - 1 \in 1 .. Len(b)
    BY <1>1
  <2>2. \A j \in i .. n : c[j] = b[j + k - 1] /\ j + k - 1 \in (i + k - 1) .. Len(b)
    BY <1>1
  <2> HIDE DEF c
  <2> QED
    BY <1>2, <2>1, <2>2 DEF Young
<1>3. Len(c) = n
  BY <1>1
<1> HIDE DEF c, n
<1>4. Young(c, l)
  BY <1>2, <1>3 DEF Young
<1> QED
  BY <1>4 DEF c

\* ClearTooOldByTimestamp
LEMMA Cleared ==
    ASSUME NEW b, Addressed(b), Young(b, Newest(b).ts), NEW p \in Item,
           \/ ~IsSeqHigherThan(p.ts, Newest(b).ts, TsMod)
           \/ Minus(p.ts, Newest(b).ts, TsMod) <= MaxTsJump,
           NEW k \in 1 .. Len(b), ClearsUpTo(b, LaterOf(p.ts, Newest(b).ts), k)
    PROVE  Young(From(b, k), LaterOf(p.ts, Newest(b).ts))
<1> DEFINE n == Newest(b).ts
           l == LaterOf(p.ts, n)
<1>1. p.ts \in Ts /\ n \in Ts /\ (\A i \in 1 .. Len(b) : b[i] # Blank => b[i].ts \in Ts)
      /\ Len(b) \in Nat
  <2>1. \A i \in 1 .. Len(b) : b[i] # Blank => b[i].ts \in Ts
    BY TsType DEF Addressed
  <2>2. Len(b) \in 1 .. Len(b) /\ b[Len(b)] # Blank
    BY Constants DEF Addressed
  <2> QED
    BY <2>1, <2>2, Constants DEF Newest, Item, Ts, Addressed
<1>2. b[k] # Blank /\ ~IsTooOldTimestamp(b[k].ts, l)
  BY DEF ClearsUpTo
<1>3. Addressed(From(b, k))
  BY <1>2, FromIsAddressed
<1> HIDE DEF n
<1>4. CASE ~IsSeqHigherThan(p.ts, n, TsMod)
  <2>1. l = n
    BY <1>4 DEF LaterOf
  <2>2. Young(b, n)
    BY DEF n
  <2> QED
    BY <1>2, <2>1, <2>2, FromIsYoung DEF n
<1>5. CASE IsSeqHigherThan(p.ts, n, TsMod)
  <2>1. l = p.ts /\ Minus(p.ts, n, TsMod) <= MaxTsJump
    BY <1>5 DEF LaterOf, n
  <2>2. Young(From(b, k), n)
    BY <1>2, FromIsYoung DEF n
  <2> HIDE DEF l
  <2> DEFINE c == From(b, k)
             a(i) == Minus(n, c[i].ts, TsMod)
             d == Minus(p.ts, n, TsMod)
  <2>3. \A i \in 1 .. Len(c) : c[i] = b[i + k - 1] /\ i + k - 1 \in 1 .. Len(b)
    BY <1>1, <1>2, FromIsAddressed
  <2>4. c[1] = b[k] /\ 1 \in 1 .. Len(c) /\ Len(c) \in Nat
    BY <1>1, <1>2, FromIsAddressed
  <2> HIDE DEF c
  <2>5. \A i \in 1 .. Len(c) : c[i] # Blank =>
            /\ c[i].ts \in Ts /\ a(i) <= MaxAge
            /\ \A j \in i .. Len(c) : c[j] # Blank => a(j) <= a(i)
    BY <1>1, <2>2, <2>3 DEF Young, c
  <2>6. d \in Int /\ \A i \in 1 .. Len(c) : c[i] # Blank =>
            /\ a(i) \in Int /\ Minus(l, c[i].ts, TsMod) = d + a(i)
            /\ ~IsSeqHigherThan(c[i].ts, l, TsMod)
    <3>1. d \in Int /\ \A i \in 1 .. Len(c) : c[i] # Blank => a(i) \in Int
      <4>1. ASSUME NEW x \in Ts, NEW y \in Ts PROVE Minus(x, y, TsMod) \in Int
        BY Ages, MinusType DEF Ts
      <4> QED
        BY <1>1, <2>5, <4>1
    <3>2. \A i \in 1 .. Len(c) : c[i] # Blank => Minus(p.ts, c[i].ts, TsMod) = d + a(i)
                                                /\ ~IsSeqHigherThan(c[i].ts, p.ts, TsMod)
      BY <1>1, <2>1, <2>5, Ahead
    <3> QED
      BY <2>1, <3>1, <3>2
  <2>7. d + a(1) <= MaxAge
    BY <1>2, <2>4, <2>6, Ages DEF IsTooOldTimestamp
  <2> HIDE DEF a, d
  <2>8. ASSUME NEW i \in 1 .. Len(c), c[i] # Blank
        PROVE  /\ Minus(l, c[i].ts, TsMod) <= MaxAge
               /\ \A j \in i .. Len(c) :
                     c[j] # Blank => Minus(l, c[j].ts, TsMod) <= Minus(l, c[i].ts, TsMod)
    <3>1. a(i) <= a(1) /\ a(1) \in Int /\ a(i) \in Int
      BY <1>2, <2>4, <2>5, <2>6, <2>8
    <3>2. d + a(i) <= MaxAge
      BY <2>6, <2>7, <3>1, Ages
    <3>3. ASSUME NEW j \in i .. Len(c), c[j] # Blank
          PROVE  Minus(l, c[j].ts, TsMod) <= Minus(l, c[i].ts, TsMod)
      <4>1. j \in 1 .. Len(c)
        BY <2>4
      <4>2. a(j) <= a(i) /\ a(j) \in Int /\ Minus(l, c[j].ts, TsMod) = d + a(j)
        BY <2>5, <2>6, <2>8, <3>3, <4>1
      <4> QED
        BY <2>6, <2>8, <3>1, <4>2
    <3> QED
      BY <2>6, <2>8, <3>2, <3>3
  <2>9. Young(c, l)
    BY <2>8 DEF Young
  <2> QED
    BY <2>9 DEF c, l, n
<1> QED
  BY <1>4, <1>5

\* Step 4: a packet that is the new newest
LEMMA PushBackIsYoung ==
    ASSUME NEW b, Addressed(b), NEW p \in Item, NEW n \in Nat, Young(b, p.ts)
    PROVE  Young(PushBack(b, n, p), p.ts)
<1> DEFINE c == PushBack(b, n, p)
           m == Len(b) + n + 1
<1>1. Len(b) \in Nat /\ m \in Nat /\ b \in [1 .. Len(b) -> Slot]
  BY Constants DEF Addressed
<1>2. /\ c \in [1 .. m -> Slot]
      /\ \A i \in 1 .. m : c[i] = IF i <= Len(b) THEN b[i] ELSE IF i <= Len(b) + n THEN Blank ELSE p
  BY <1>1 DEF PushBack, Slot
<1>3. Len(c) = m
  BY <1>1, <1>2, IsSequence
<1> HIDE DEF c
<1>4. Minus(p.ts, p.ts, TsMod) = 0 /\ p.ts \in Ts
  <2>1. p.ts \in Ts
    BY DEF Item, Ts
  <2> QED
    BY <2>1, TsOrder
<1>5. \A i \in 1 .. m : c[i] # Blank => (i \in 1 .. Len(b) /\ c[i] = b[i]) \/ (i = m /\ c[i] = p)
  BY <1>1, <1>2
<1>6. \A i \in 1 .. Len(b) : b[i] # Blank => Minus(p.ts, b[i].ts, TsMod) \in Nat
  <2>1. \A i \in 1 .. Len(b) : b[i] # Blank => b[i].ts \in Ts
    BY <1>1, TsType
  <2> QED
    BY <1>4, <2>1, TsOrder
<1>7. ASSUME NEW i \in 1 .. m, c[i] # Blank
      PROVE  /\ Minus(p.ts, c[i].ts, TsMod) <= MaxAge
             /\ \A j \in i .. m : c[j] # Blank => Minus(p.ts, c[j].ts, TsMod) <= Minus(p.ts, c[i].ts, TsMod)
  <2>1. CASE i = m /\ c[i] = p
    <3>1. \A j \in i .. m : j = i
      BY <1>1, <2>1
    <3> QED
      BY <1>4, <2>1, <3>1, Ages
  <2>2. CASE i \in 1 .. Len(b) /\ c[i] = b[i]
    <3>1. /\ Minus(p.ts, b[i].ts, TsMod) <= MaxAge /\ Minus(p.ts, b[i].ts, TsMod) \in Nat
          /\ \A j \in i .. Len(b) : b[j] # Blank => Minus(p.ts, b[j].ts, TsMod) <= Minus(p.ts, b[i].ts, TsMod)
      BY <1>6, <1>7, <2>2 DEF Young
    <3>2. ASSUME NEW j \in i .. m, c[j] # Blank
          PROVE  Minus(p.ts, c[j].ts, TsMod) <= Minus(p.ts, c[i].ts, TsMod)
      <4>1. j \in 1 .. m
        BY <1>1, <1>7, <3>2
      <4>2. CASE c[j] = p
        BY <1>4, <2>2, <3>1, <4>2
      <4>3. CASE j \in 1 .. Len(b) /\ c[j] = b[j]
        <5>1. j \in i .. Len(b)
          BY <1>1, <3>2, <4>3
        <5> QED
          BY <2>2, <3>1, <3>2, <4>3, <5>1
      <4> QED
        BY <1>5, <3>2, <4>1, <4>2, <4>3
    <3> QED
      BY <2>2, <3>1, <3>2
  <2> QED
    BY <1>5, <1>7, <2>1, <2>2
<1> HIDE DEF m
<1>8. Young(c, p.ts)
  BY <1>3, <1>7 DEF Young
<1> QED
  BY <1>8 DEF c

\* Step 5: a packet before the oldest
LEMMA PushFrontIsYoung ==
    ASSUME NEW b, Addressed(b), NEW p \in Item, NEW n \in Nat, NEW l, Young(b, l),
           Minus(l, p.ts, TsMod) <= MaxAge,
           Minus(l, b[1].ts, TsMod) <= Minus(l, p.ts, TsMod),
           l \in Ts
    PROVE  Young(PushFront(b, n, p), l)
<1> DEFINE c == PushFront(b, n, p)
           m == Len(b) + n + 1
<1>1. Len(b) \in Nat \ {0} /\ m \in Nat /\ b \in [1 .. Len(b) -> Slot] /\ b[1] # Blank
  BY Constants DEF Addressed
<1>2. /\ c \in [1 .. m -> Slot]
      /\ \A i \in 1 .. m : c[i] = IF i = 1 THEN p ELSE IF i <= n + 1 THEN Blank ELSE b[i - n - 1]
  BY <1>1 DEF PushFront, Slot
<1>3. Len(c) = m
  BY <1>1, <1>2, IsSequence
<1> HIDE DEF c
<1>4. p.ts \in Ts
  BY DEF Item, Ts
<1>5. \A i \in 1 .. m : c[i] # Blank =>
          (i = 1 /\ c[i] = p) \/ (i - n - 1 \in 1 .. Len(b) /\ c[i] = b[i - n - 1])
  BY <1>1, <1>2
<1>6. (\A i \in 1 .. Len(b) : b[i] # Blank => Minus(l, b[i].ts, TsMod) \in Nat)
      /\ Minus(l, p.ts, TsMod) \in Nat
  <2>1. \A i \in 1 .. Len(b) : b[i] # Blank => b[i].ts \in Ts
    BY <1>1, TsType
  <2> QED
    BY <1>4, <2>1, TsOrder
<1>7. \A j \in 1 .. Len(b) : b[j] # Blank => Minus(l, b[j].ts, TsMod) <= Minus(l, p.ts, TsMod)
  <2> TAKE j \in 1 .. Len(b)
  <2> HAVE b[j] # Blank
  <2>1. Minus(l, b[j].ts, TsMod) <= Minus(l, b[1].ts, TsMod)
    BY <1>1 DEF Young
  <2> QED
    BY <1>1, <1>6, <2>1
<1>8. ASSUME NEW i \in 1 .. m, c[i] # Blank
      PROVE  /\ Minus(l, c[i].ts, TsMod) <= MaxAge
             /\ \A j \in i .. m : c[j] # Blank => Minus(l, c[j].ts, TsMod) <= Minus(l, c[i].ts, TsMod)
  <2>1. CASE i = 1 /\ c[i] = p
    <3>1. ASSUME NEW j \in i .. m, c[j] # Blank
          PROVE  Minus(l, c[j].ts, TsMod) <= Minus(l, c[i].ts, TsMod)
      <4>1. j \in 1 .. m
        BY <1>1, <1>8, <3>1
      <4>2. c[j] = p \/ (j - n - 1 \in 1 .. Len(b) /\ c[j] = b[j - n - 1])
        BY <1>5, <3>1, <4>1
      <4> QED
        BY <1>6, <1>7, <2>1, <3>1, <4>2
    <3> QED
      BY <2>1, <3>1
  <2>2. CASE i - n - 1 \in 1 .. Len(b) /\ c[i] = b[i - n - 1]
    <3> DEFINE h == i - n - 1
    <3>1. h \in 1 .. Len(b) /\ c[i] = b[h]
      BY <2>2
    <3>2. /\ Minus(l, b[h].ts, TsMod) <= MaxAge
          /\ \A j \in h .. Len(b) : b[j] # Blank => Minus(l, b[j].ts, TsMod) <= Minus(l, b[h].ts, TsMod)
      <4> HIDE DEF h
      <4> QED
        BY <1>8, <3>1 DEF Young
    <3>3. ASSUME NEW j \in i .. m, c[j] # Blank
          PROVE  Minus(l, c[j].ts, TsMod) <= Minus(l, c[i].ts, TsMod)
      <4>1. j \in 1 .. m /\ j # 1
        BY <1>1, <1>8, <2>2, <3>3
      <4>2. j - n - 1 \in 1 .. Len(b) /\ c[j] = b[j - n - 1]
        BY <1>5, <3>3, <4>1
      <4>3. j - n - 1 \in h .. Len(b)
        BY <1>1, <1>8, <3>3, <4>2
      <4> HIDE DEF h
      <4> QED
        BY <3>1, <3>2, <3>3, <4>2, <4>3
    <3> HIDE DEF h
    <3> QED
      BY <3>1, <3>2, <3>3
  <2> QED
    BY <1>5, <1>8, <2>1, <2>2
<1> HIDE DEF m
<1>9. Young(c, l)
  BY <1>3, <1>8 DEF Young
<1> QED
  BY <1>9 DEF c

\* The items next to a blank slot
LEMMA NearestBefore ==
    ASSUME NEW b, b[1] # Blank, NEW x \in Nat, x > 1
    PROVE  \E j \in 1 .. x - 1 : b[j] # Blank /\ \A m \in j + 1 .. x - 1 : b[m] = Blank
<1> DEFINE S == {n \in Nat : \E j \in 1 .. n + 1 : b[j] # Blank /\ \A m \in j + 1 .. n + 1 : b[m] = Blank}
<1>1. 0 \in S
  <2>1. 1 \in 1 .. 0 + 1 /\ \A m \in 1 + 1 .. 0 + 1 : FALSE
    OBVIOUS
  <2> QED
    BY <2>1
<1>2. ASSUME NEW n \in Nat, n \in S PROVE n + 1 \in S
  <2>1. PICK j \in 1 .. n + 1 : b[j] # Blank /\ \A m \in j + 1 .. n + 1 : b[m] = Blank
    BY <1>2
  <2>2. CASE b[n + 2] # Blank
    <3>1. n + 2 \in 1 .. (n + 1) + 1 /\ \A m \in (n + 2) + 1 .. (n + 1) + 1 : FALSE
      OBVIOUS
    <3> QED
      BY <2>2, <3>1
  <2>3. CASE b[n + 2] = Blank
    <3>1. j \in 1 .. (n + 1) + 1 /\ \A m \in j + 1 .. (n + 1) + 1 : m \in j + 1 .. n + 1 \/ m = n + 2
      OBVIOUS
    <3> QED
      BY <2>1, <2>3, <3>1
  <2> QED
    BY <2>2, <2>3
<1> HIDE DEF S
<1>3. Nat \subseteq S
  BY <1>1, <1>2, Induction
<1>4. x - 2 \in S /\ (x - 2) + 1 = x - 1
  BY <1>3
<1> QED
  BY <1>4 DEF S

\* The nearest item behind a blank slot
LEMMA NearestAfter ==
    ASSUME NEW b, NEW k \in Nat, b[k] # Blank, NEW x \in Nat, x < k
    PROVE  \E j \in x + 1 .. k : b[j] # Blank /\ \A m \in x + 1 .. j - 1 : b[m] = Blank
<1> DEFINE S == {n \in Nat : \E j \in k - n .. k : b[j] # Blank /\ \A m \in k - n .. j - 1 : b[m] = Blank}
<1>1. 0 \in S
  <2>1. k \in k - 0 .. k /\ \A m \in k - 0 .. k - 1 : FALSE
    OBVIOUS
  <2> QED
    BY <2>1
<1>2. ASSUME NEW n \in Nat, n \in S PROVE n + 1 \in S
  <2>1. PICK j \in k - n .. k : b[j] # Blank /\ \A m \in k - n .. j - 1 : b[m] = Blank
    BY <1>2
  <2>2. CASE b[k - (n + 1)] # Blank
    <3>1. k - (n + 1) \in k - (n + 1) .. k /\ \A m \in k - (n + 1) .. (k - (n + 1)) - 1 : FALSE
      OBVIOUS
    <3> QED
      BY <2>2, <3>1
  <2>3. CASE b[k - (n + 1)] = Blank
    <3>1. j \in k - (n + 1) .. k /\ \A m \in k - (n + 1) .. j - 1 : m \in k - n .. j - 1 \/ m = k - (n + 1)
      OBVIOUS
    <3> QED
      BY <2>1, <2>3, <3>1
  <2> QED
    BY <2>2, <2>3
<1> HIDE DEF S
<1>3. Nat \subseteq S
  BY <1>1, <1>2, Induction
<1>4. (k - x) - 1 \in S /\ k - ((k - x) - 1) = x + 1
  BY <1>3
<1> QED
  BY <1>4 DEF S

\* Step 6: a packet in between
LEMMA FilledIsYoung ==
    ASSUME NEW b, Addressed(b), NEW p \in Item, NEW l \in Ts, Young(b, l),
           NEW x \in Nat, x > 1, x < Len(b), Fits(b, x, p.ts)
    PROVE  Young([b EXCEPT ![x] = p], l)
<1> DEFINE c == [b EXCEPT ![x] = p]
<1>1. /\ Len(b) \in Nat /\ b \in [1 .. Len(b) -> Slot] /\ b[1] # Blank /\ b[Len(b)] # Blank
      /\ x \in 1 .. Len(b) /\ p \in Slot /\ p.ts \in Ts
  BY Constants DEF Addressed, Slot, Item, Ts
<1>2. c \in [1 .. Len(b) -> Slot] /\ \A i \in 1 .. Len(b) : c[i] = IF i = x THEN p ELSE b[i]
  BY <1>1
<1>3. Len(c) = Len(b)
  BY <1>1, <1>2, IsSequence
<1> HIDE DEF c
<1>4. PICK j \in 1 .. x - 1 : b[j] # Blank /\ \A m \in j + 1 .. x - 1 : b[m] = Blank
  BY <1>1, NearestBefore
<1>5. PICK k \in x + 1 .. Len(b) : b[k] # Blank /\ \A m \in x + 1 .. k - 1 : b[m] = Blank
  BY <1>1, NearestAfter
<1>6. b[j].ts <= p.ts /\ p.ts <= b[k].ts
  BY <1>1, <1>4, <1>5 DEF Fits, Ts
<1>7. \A i \in 1 .. Len(b) : b[i] # Blank => b[i].ts \in Ts /\ Minus(l, b[i].ts, TsMod) \in Nat
  <2>1. \A i \in 1 .. Len(b) : b[i] # Blank => b[i].ts \in Ts
    BY <1>1, TsType
  <2> QED
    BY <2>1, TsOrder
<1> DEFINE a(i) == Minus(l, b[i].ts, TsMod)
           ap == Minus(l, p.ts, TsMod)
<1>8. /\ j \in 1 .. Len(b) /\ k \in 1 .. Len(b) /\ k \in j .. Len(b)
      /\ \A i \in 1 .. x - 1 : b[i] # Blank => j \in i .. Len(b)
      /\ \A i \in x + 1 .. Len(b) : b[i] # Blank => i \in k .. Len(b)
  BY <1>1, <1>4, <1>5
<1>9. a(k) <= ap /\ ap <= a(j) /\ ap \in Nat
  <2>1. a(k) <= a(j)
    BY <1>4, <1>5, <1>8 DEF Young
  <2>2. ap \in Nat
    BY <1>1, TsOrder
  <2> QED
    BY <1>1, <1>4, <1>5, <1>6, <1>7, <1>8, <2>1, <2>2, RawBetween
<1>10. /\ \A i \in 1 .. x - 1 : b[i] # Blank => ap <= a(i)
       /\ \A i \in x + 1 .. Len(b) : b[i] # Blank => a(i) <= ap
       /\ ap <= MaxAge
  <2>1. /\ \A i \in 1 .. Len(b) : b[i] # Blank =>
                a(i) \in Nat /\ a(i) <= MaxAge /\ \A h \in i .. Len(b) : b[h] # Blank => a(h) <= a(i)
    BY <1>7 DEF Young
  <2> HIDE DEF a, ap
  <2>2. ASSUME NEW i \in 1 .. x - 1, b[i] # Blank PROVE ap <= a(i)
    <3>1. i \in 1 .. Len(b) /\ j \in i .. Len(b)
      BY <1>1, <1>8, <2>2
    <3>2. a(j) <= a(i) /\ a(i) \in Nat /\ a(j) \in Nat
      BY <1>4, <1>8, <2>1, <2>2, <3>1
    <3> QED
      BY <1>9, <3>2
  <2>3. ASSUME NEW i \in x + 1 .. Len(b), b[i] # Blank PROVE a(i) <= ap
    <3>1. i \in 1 .. Len(b) /\ i \in k .. Len(b)
      BY <1>1, <1>8, <2>3
    <3>2. a(i) <= a(k) /\ a(i) \in Nat /\ a(k) \in Nat
      BY <1>5, <1>8, <2>1, <2>3, <3>1
    <3> QED
      BY <1>9, <3>2
  <2>4. a(j) \in Nat /\ a(j) <= MaxAge
    BY <1>4, <1>8, <2>1
  <2>5. ap <= MaxAge
    BY <1>9, <2>4, Ages
  <2> QED
    BY <2>2, <2>3, <2>5
<1>11. ASSUME NEW i \in 1 .. Len(b), c[i] # Blank
       PROVE  /\ Minus(l, c[i].ts, TsMod) <= MaxAge
              /\ \A h \in i .. Len(b) : c[h] # Blank => Minus(l, c[h].ts, TsMod) <= Minus(l, c[i].ts, TsMod)
  <2>1. CASE i = x
    <3>1. c[i] = p
      BY <1>2, <2>1
    <3>2. \A h \in i .. Len(b) : h = x \/ h \in x + 1 .. Len(b)
      BY <1>1, <2>1
    <3>3. \A h \in x + 1 .. Len(b) : c[h] = b[h]
      BY <1>1, <1>2
    <3> QED
      BY <1>9, <1>10, <2>1, <3>1, <3>2, <3>3
  <2>2. CASE i # x
    <3>1. c[i] = b[i] /\ a(i) \in Nat
      BY <1>2, <1>7, <1>11, <2>2
    <3>2. a(i) <= MaxAge /\ \A h \in i .. Len(b) : b[h] # Blank => a(h) <= a(i)
      BY <1>11, <3>1 DEF Young
    <3>3. ASSUME NEW h \in i .. Len(b), c[h] # Blank PROVE Minus(l, c[h].ts, TsMod) <= a(i)
      <4>1. CASE h = x
        <5>1. i \in 1 .. x - 1 /\ c[h] = p
          BY <1>1, <1>2, <2>2, <4>1
        <5> QED
          BY <1>10, <1>11, <3>1, <5>1
      <4>2. CASE h # x
        <5>1. c[h] = b[h]
          BY <1>1, <1>2, <4>2
        <5> QED
          BY <3>2, <3>3, <5>1
      <4> QED
        BY <4>1, <4>2
    <3> QED
      BY <3>1, <3>2, <3>3
  <2> QED
    BY <2>1, <2>2
<1>12. Young(c, l)
  BY <1>3, <1>11 DEF Young
<1> QED
  BY <1>12 DEF c

\* A packet that is neither before the oldest nor after the newest, by number
LEMMA NoneIsLower ==
    ASSUME NEW b, Addressed(b), NEW i \in 1 .. Len(b), b[i] # Blank
    PROVE  Index(b, b[i].seq) = i /\ ~IsSeqLowerThan(b[i].seq, Oldest(b).seq, SeqMod)
<1>1. /\ Len(b) \in 1 .. MaxSlots /\ b # <<>>
      /\ b[1] # Blank
  BY DEF Addressed
<1>2. b[1].seq \in 0 .. SeqMod - 1 /\ b[i].seq = Plus(b[1].seq, i - 1, SeqMod)
  BY <1>1, SlotType
<1>3. Index(b, b[i].seq) = i
  BY <1>1, <1>2, Constants DEF Index, Oldest, Minus, Plus
<1>4. ~IsSeqLowerThan(b[i].seq, Oldest(b).seq, SeqMod)
  <2> DEFINE k == i - 1
  <2>1. k \in 0 .. Half
    BY <1>1, Constants
  <2>2. b[i].seq = Plus(b[1].seq, k, SeqMod) /\ Oldest(b) = b[1]
    BY <1>2 DEF Oldest
  <2> HIDE DEF k
  <2> QED
    BY <1>2, <2>1, <2>2, NotLower
<1> QED
  BY <1>3, <1>4

\* The comparators of SeqManager on sequence numbers
LEMMA SeqOrder ==
    ASSUME NEW p \in 0 .. SeqMod - 1, NEW q \in 0 .. SeqMod - 1, ~IsSeqHigherThan(p, q, SeqMod)
    PROVE  p = q \/ IsSeqLowerThan(p, q, SeqMod)
<1>1. HalfRange(SeqMod) = Half
  BY DEF Half
<1> QED
  BY <1>1, Constants DEF IsSeqLowerThan, IsSeqHigherThan

\* What a step of Insert works on: the slots that are left, and the latest timestamp
Kept(b, p, l) ==
    /\ Addressed(b) /\ Young(b, l) /\ Young(b, Newest(b).ts) /\ l \in Ts
    /\ l = LaterOf(p.ts, Newest(b).ts) /\ Newest(b).ts \in Ts
    /\ ~(IsSeqLowerThan(p.seq, Newest(b).seq, SeqMod) /\ IsSeqHigherThan(p.ts, Newest(b).ts, TsMod))

\* What Insert leaves in the deque, if it fits
YoungFit(b) == Len(b) <= MaxSlots => b # <<>> /\ Young(b, Newest(b).ts)

\* A packet stored alone
LEMMA AloneIsYoung ==
    ASSUME NEW p \in Item
    PROVE  Young(<<p>>, p.ts) /\ Newest(<<p>>) = p /\ <<p>> # <<>>
<1>1. p.ts \in Ts
  BY DEF Item, Ts
<1>2. Minus(p.ts, p.ts, TsMod) = 0
  BY <1>1, TsOrder
<1>3. Len(<<p>>) = 1 /\ <<p>>[1] = p /\ \A i \in 1 .. 1 : i = 1 /\ \A j \in i .. 1 : j = 1
  OBVIOUS
<1> QED
  BY <1>2, <1>3, Ages DEF Young, Newest

\* Step 4 of Insert
LEMMA InOrderKeepsYoung ==
    ASSUME NEW b, NEW p \in Item, NEW l, Kept(b, p, l), InsertInOrder(b, p)
    PROVE  YoungFit(buffer')
<1> DEFINE blanks == Minus(p.seq, Newest(b).seq, SeqMod) - 1
           excess == Len(b) + blanks + 1 - MaxItems
<1>1. /\ Len(b) \in 1 .. MaxSlots /\ b[1] # Blank /\ b[Len(b)] # Blank
      /\ p.seq \in 0 .. SeqMod - 1 /\ p.ts \in Ts /\ Addressed(b) /\ Young(b, l) /\ b # <<>>
  BY ItemType DEF Kept, Addressed, Item, Ts
<1>2. Newest(b).seq \in 0 .. SeqMod - 1
  BY <1>1, Constants, SlotType DEF Newest
<1>3. blanks \in Nat
  <2>1. IsSeqHigherThan(p.seq, Newest(b).seq, SeqMod)
    BY DEF InsertInOrder
  <2> QED
    BY <1>1, <1>2, <2>1, Constants DEF IsSeqHigherThan, Minus
<1>4. CASE IsSeqLowerThan(p.ts, Newest(b).ts, TsMod)
  <2>1. l = Newest(b).ts
    BY <1>1, <1>4, TsOrder DEF Kept, LaterOf
  <2>2. buffer' = b
    BY <1>4 DEF InsertInOrder
  <2> QED
    BY <1>1, <2>1, <2>2 DEF YoungFit
<1>5. CASE ~IsSeqLowerThan(p.ts, Newest(b).ts, TsMod)
  <2>1. l = p.ts
    BY <1>1, <1>5, TsOrder DEF Kept, LaterOf
  <2>2. ASSUME NEW c, Addressed(c), Young(c, l), buffer' = PushBack(c, blanks, p)
        PROVE  YoungFit(buffer')
    <3> HIDE DEF blanks
    <3>1. Young(buffer', p.ts)
      BY <1>3, <2>1, <2>2, PushBackIsYoung
    <3>2. Len(c) \in Nat \ {0} /\ c \in [1 .. Len(c) -> Slot]
      BY <2>2, Constants DEF Addressed
    <3> DEFINE m == Len(c) + blanks + 1
    <3>3. buffer' \in [1 .. m -> Slot] /\ m \in Nat /\ m \in 1 .. m /\ buffer'[m] = p
      BY <1>3, <2>2, <3>2 DEF PushBack, Slot
    <3>4. Len(buffer') = m /\ buffer' # <<>>
      BY <3>3
    <3> QED
      BY <3>1, <3>3, <3>4 DEF YoungFit, Newest
  <2>3. StoreAlone(p) => YoungFit(buffer')
    BY AloneIsYoung DEF StoreAlone, YoungFit
  <2>4. \/ buffer' = PushBack(b, blanks, p)
        \/ StoreAlone(p)
        \/ /\ excess \in 1 .. Len(b) - 1
           /\ \E k \in 2 .. Len(b) + 1 : RemovesUpTo(b, k) /\ buffer' = PushBack(From(b, k), blanks, p)
    BY <1>5 DEF InsertInOrder
  <2> HIDE DEF blanks, excess
  <2>5. ASSUME NEW k \in 2 .. Len(b) + 1, RemovesUpTo(b, k), excess \in 1 .. Len(b) - 1,
               buffer' = PushBack(From(b, k), blanks, p)
        PROVE  YoungFit(buffer')
    <3>1. k # Len(b) + 1
      <4>1. Len(b) \in 2 .. Len(b)
        BY <1>1, <2>5
      <4> QED
        BY <1>1, <2>5, <4>1 DEF RemovesUpTo
    <3>2. k \in 1 .. Len(b) /\ b[k] # Blank
      BY <1>1, <2>5, <3>1 DEF RemovesUpTo
    <3>3. Addressed(From(b, k)) /\ Young(From(b, k), l)
      BY <1>1, <3>2, FromIsAddressed, FromIsYoung
    <3> QED
      BY <2>2, <2>5, <3>3
  <2> QED
    BY <1>1, <2>2, <2>3, <2>4, <2>5
<1> QED
  BY <1>4, <1>5

\* Step 5 of Insert
LEMMA OlderKeepsYoung ==
    ASSUME NEW b, NEW p \in Item, NEW l, Kept(b, p, l), InsertOlder(b, p)
    PROVE  YoungFit(buffer')
<1> DEFINE blanks == Minus(Oldest(b).seq, p.seq, SeqMod) - 1
<1>1. /\ Len(b) \in 1 .. MaxSlots /\ b[1] # Blank /\ b[Len(b)] # Blank /\ 1 \in 1 .. Len(b)
      /\ p.seq \in 0 .. SeqMod - 1 /\ p.ts \in Ts /\ Addressed(b) /\ Young(b, l) /\ b # <<>>
      /\ Len(b) \in 1 .. Len(b) /\ l \in Ts
  BY ItemType, Constants DEF Kept, Addressed, Item, Ts
<1>2. Newest(b).seq \in 0 .. SeqMod - 1 /\ Oldest(b).seq \in 0 .. SeqMod - 1
      /\ Oldest(b).ts \in Ts
  <2>1. b[1] \in Slot
    BY <1>1 DEF Addressed
  <2> QED
    BY <1>1, <2>1, SlotType, TsType DEF Newest, Oldest
<1>3. l = Newest(b).ts
  <2>1. p.seq # Newest(b).seq
    BY <1>1, NoneIsLower DEF InsertOlder, Newest
  <2>2. IsSeqLowerThan(p.seq, Newest(b).seq, SeqMod)
    BY <1>1, <1>2, <2>1, SeqOrder DEF InsertOlder
  <2> QED
    BY <2>2 DEF Kept, LaterOf
<1>4. ASSUME ~IsTooOldTimestamp(p.ts, Newest(b).ts), ~IsSeqHigherThan(p.ts, Oldest(b).ts, TsMod)
      PROVE  /\ Minus(l, p.ts, TsMod) <= MaxAge
             /\ Minus(l, b[1].ts, TsMod) <= Minus(l, p.ts, TsMod)
  <2>1. ~IsSeqHigherThan(p.ts, Newest(b).ts, TsMod)
    <3>1. p.seq # Newest(b).seq
      BY <1>1, NoneIsLower DEF InsertOlder, Newest
    <3>2. IsSeqLowerThan(p.seq, Newest(b).seq, SeqMod)
      BY <1>1, <1>2, <3>1, SeqOrder DEF InsertOlder
    <3> QED
      BY <3>2 DEF Kept
  <2>2. Minus(l, p.ts, TsMod) <= MaxAge
    <3>1. ~(Minus(l, p.ts, TsMod) > MaxAge)
      BY <1>3, <1>4, <2>1 DEF IsTooOldTimestamp
    <3>2. Minus(l, p.ts, TsMod) \in Nat
      BY <1>1, TsOrder
    <3> QED
      BY <3>1, <3>2, Ages
  <2>3. Minus(l, b[1].ts, TsMod) <= MaxAge
    BY <1>1 DEF Young
  <2> QED
    BY <1>1, <1>2, <1>4, <2>2, <2>3, NotAfter DEF Oldest
<1>5. blanks \in Nat
  <2>1. IsSeqLowerThan(p.seq, Oldest(b).seq, SeqMod)
    BY DEF InsertOlder
  <2> QED
    BY <1>1, <1>2, <2>1, Constants DEF IsSeqLowerThan, Minus
<1>6. \/ buffer' = b
      \/ /\ buffer' = PushFront(b, blanks, p)
         /\ ~IsTooOldTimestamp(p.ts, Newest(b).ts) /\ ~IsSeqHigherThan(p.ts, Oldest(b).ts, TsMod)
  BY DEF InsertOlder
<1> HIDE DEF blanks
<1>7. CASE buffer' = b
  BY <1>1, <1>3, <1>7 DEF YoungFit
<1>8. CASE /\ buffer' = PushFront(b, blanks, p)
           /\ ~IsTooOldTimestamp(p.ts, Newest(b).ts) /\ ~IsSeqHigherThan(p.ts, Oldest(b).ts, TsMod)
  <2>1. Young(buffer', l)
    BY <1>1, <1>4, <1>5, <1>8, PushFrontIsYoung
  <2> DEFINE m == Len(b) + blanks + 1
  <2>2. b \in [1 .. Len(b) -> Slot] /\ Len(b) \in Nat /\ Len(b) >= 1
    BY <1>1, Constants DEF Addressed
  <2>3. /\ buffer' \in [1 .. m -> Slot] /\ m \in Nat /\ m \in 1 .. m
        /\ buffer'[m] = IF m = 1 THEN p ELSE IF m <= blanks + 1 THEN Blank ELSE b[m - blanks - 1]
    BY <1>5, <1>8, <2>2 DEF PushFront, Slot
  <2>4. m # 1 /\ ~(m <= blanks + 1) /\ m - blanks - 1 = Len(b)
    BY <1>5, <2>2
  <2>5. buffer'[m] = b[Len(b)]
    <3> HIDE DEF m
    <3> QED
      BY <2>3, <2>4
  <2>6. Len(buffer') = m /\ buffer' # <<>>
    BY <2>3
  <2> QED
    BY <1>3, <2>1, <2>5, <2>6 DEF YoungFit, Newest
<1> QED
  BY <1>6, <1>7, <1>8

\* Step 6 of Insert
LEMMA BetweenKeepsYoung ==
    ASSUME NEW b, NEW p \in Item, NEW l, Kept(b, p, l), InsertBetween(b, p)
    PROVE  YoungFit(buffer')
<1> DEFINE x == Index(b, p.seq)
<1>1. /\ Len(b) \in 1 .. MaxSlots /\ b[1] # Blank /\ b[Len(b)] # Blank /\ 1 \in 1 .. Len(b)
      /\ p.seq \in 0 .. SeqMod - 1 /\ p.ts \in Ts /\ Addressed(b) /\ Young(b, l) /\ b # <<>>
      /\ Len(b) \in 1 .. Len(b) /\ l \in Ts /\ b \in [1 .. Len(b) -> Slot]
  BY ItemType, Constants DEF Kept, Addressed, Item, Ts
<1>2. Newest(b).seq \in 0 .. SeqMod - 1 /\ Oldest(b).seq \in 0 .. SeqMod - 1
  BY <1>1, SlotType DEF Newest, Oldest
<1>3. x \in Nat /\ x >= 1
  BY <1>1, <1>2, Constants DEF Index, Minus
<1>4. CASE buffer' = b
  BY <1>1, <1>4 DEF YoungFit, Kept
<1>5. CASE buffer' # b
  <2>1. buffer' = [b EXCEPT ![x] = p] /\ Get(b, p.seq) = Blank /\ Fits(b, x, p.ts)
        /\ ~IsSeqHigherThan(p.seq, Newest(b).seq, SeqMod)
        /\ ~IsSeqLowerThan(p.seq, Oldest(b).seq, SeqMod)
    BY <1>5 DEF InsertBetween
  <2>2. x \in 1 .. Len(b)
    <3> HIDE DEF x
    <3> QED
      BY <1>1, <1>3, <1>5, <2>1
  <2>3. b[x] = Blank
    BY <1>1, <2>1, <2>2 DEF Get
  <2>4. x > 1 /\ x < Len(b)
    <3> HIDE DEF x
    <3> QED
      BY <1>1, <1>3, <2>2, <2>3
  <2>5. l = Newest(b).ts
    <3>1. Index(b, Newest(b).seq) = Len(b)
      BY <1>1, NoneIsLower DEF Newest
    <3>2. p.seq # Newest(b).seq
      BY <2>4, <3>1
    <3>3. IsSeqLowerThan(p.seq, Newest(b).seq, SeqMod)
      BY <1>1, <1>2, <2>1, <3>2, SeqOrder
    <3> QED
      BY <3>3 DEF Kept, LaterOf
  <2> HIDE DEF x
  <2>6. Young(buffer', l)
    BY <1>1, <1>3, <2>1, <2>4, FilledIsYoung
  <2>7. /\ buffer' \in [1 .. Len(b) -> Slot] /\ buffer'[Len(b)] = b[Len(b)]
    <3>1. p \in Slot
      BY DEF Slot
    <3>2. x # Len(b)
      BY <2>4, <1>3
    <3>4. buffer' = [b EXCEPT ![x] = p]
      BY <2>1
    <3>5. Len(b) \in 1 .. Len(b)
      BY <1>1
    <3>3. b \in [1 .. Len(b) -> Slot]
      BY <1>1
    <3> QED
      BY <3>1, <3>2, <3>3, <3>4, <3>5
  <2>8. Len(buffer') = Len(b) /\ buffer' # <<>>
    BY <1>1, <2>7, Constants
  <2> QED
    BY <2>5, <2>6, <2>7, <2>8 DEF YoungFit, Newest
<1> QED
  BY <1>4, <1>5

\* All of Insert: the slots ClearTooOldByTimestamp leaves are seen from the latest
\* timestamp, and the packet is stored among them.
LEMMA InsertKeepsYoung ==
    ASSUME AgeInv, NEW p \in Item, Insert(p)
    PROVE  AgeInv'
<1>1. Addressed(buffer')
  BY InsertPreserves DEF AgeInv
<1>2. StoreAlone(p) => YoungFit(buffer')
  BY AloneIsYoung DEF StoreAlone, YoungFit
<1>3. ASSUME buffer # <<>>, ~StartsAnew(p), InsertAmong(p) PROVE YoungFit(buffer')
  <2> DEFINE n == Newest(buffer).ts
             l == LaterOf(p.ts, n)
  <2>1. Addressed(buffer) /\ Young(buffer, n) /\ Len(buffer) \in Nat \ {0}
    BY <1>3, Constants DEF AgeInv, Places, Addressed
  <2>2. PICK k \in 1 .. Len(buffer) + 1 :
            /\ ClearsUpTo(buffer, l, k)
            /\ \/ StoreAlone(p)
               \/ /\ k <= Len(buffer)
                  /\ \/ InsertInOrder(From(buffer, k), p)
                     \/ InsertOlder(From(buffer, k), p)
                     \/ InsertBetween(From(buffer, k), p)
    BY <1>3 DEF InsertAmong
  <2>3. p.ts \in Ts /\ n \in Ts
    <3>1. Len(buffer) \in 1 .. Len(buffer) /\ buffer[Len(buffer)] # Blank
          /\ buffer[Len(buffer)] \in Slot
      BY <2>1 DEF Addressed
    <3> QED
      BY <3>1, TsType DEF Newest, Item, Ts
  <2>4. l \in Ts
    BY <2>3 DEF LaterOf
  <2>5. ASSUME k \in 1 .. Len(buffer) PROVE Kept(From(buffer, k), p, l)
    <3>1. buffer[k] # Blank
      BY <2>1, <2>2, <2>5 DEF ClearsUpTo
    <3>2. Addressed(From(buffer, k)) /\ Newest(From(buffer, k)) = Newest(buffer)
          /\ Young(From(buffer, k), n)
      BY <2>1, <2>5, <3>1, FromIsAddressed, FromIsYoung
    <3>3. \/ ~IsSeqHigherThan(p.ts, n, TsMod)
          \/ Minus(p.ts, n, TsMod) <= MaxTsJump
      BY <1>3 DEF Insert, Offered
    <3>4. Young(From(buffer, k), l)
      BY <2>1, <2>2, <2>5, <3>3, Cleared
    <3> QED
      BY <1>3, <2>3, <2>4, <3>2, <3>4 DEF Kept, StartsAnew
  <2> HIDE DEF l
  <2>6. k <= Len(buffer) => k \in 1 .. Len(buffer)
    BY <2>1
  <2> QED
    BY <1>2, <2>2, <2>5, <2>6, InOrderKeepsYoung, OlderKeepsYoung, BetweenKeepsYoung
<1>4. YoungFit(buffer')
  BY <1>2, <1>3 DEF Insert
<1>5. Len(buffer') <= MaxSlots
  BY DEF Insert
<1>6. Young(buffer', Newest(buffer').ts)
  BY <1>4, <1>5 DEF YoungFit
<1> QED
  BY <1>1, <1>6 DEF AgeInv, Places, Young, Addressed, InPlaces, Newest

\* What leaves the deque alone leaves its order alone.
LEMMA AgeInvStays == AgeInv /\ UNCHANGED buffer => AgeInv'
BY DEF AgeInv, Young, Newest, Places, Addressed, InPlaces

\* However the packets come, out of order, late, repeated or across the wrap of
\* the timestamps, the deque of RtpRetransmissionBuffer is ordered by timestamp
\* as it is by number, and covers no more than the maximum delay.
THEOREM BufferIsWithinAge == Spec => []WithinAge
<1>1. Init => AgeInv
  BY DEF Init, AgeInv, Places
<1>2. AgeInv /\ [Next]_buffer => AgeInv'
  BY InsertKeepsYoung, AgeInvStays DEF Next
<1> QED
  BY <1>1, <1>2, AgeInvIsWithinAge, PTL DEF Spec

\* RtpStreamSender changes the deque by Insert alone.
LEMMA SenderKeepsAge == SenderSpec => []AgeInv
<1>1. SenderInit => AgeInv
  BY DEF SenderInit, Init, AgeInv, Places
<1>2. AgeInv /\ [SenderNext]_sender_vars => AgeInv'
  BY InsertKeepsYoung, AgeInvStays
    DEF SenderNext, ReceivePacket, StorePacket, StoresNothing, ReceiveNack,
        ReceiveRtcpReceiverReport, Tick, sender_vars
<1> QED
  BY <1>1, <1>2, PTL DEF SenderSpec

\* So it does inside RtpStreamSender.
THEOREM SenderIsWithinAge == SenderSpec => []WithinAge
BY SenderKeepsAge, AgeInvIsWithinAge, PTL

--------------------------------------------------------------------------------
(* What Insert drops                                                       *)

\* Every item of b is still stored.
KeepsAll(b) ==
    \A i \in 1 .. Len(b) : b[i] # Blank => \E j \in 1 .. Len(buffer') : buffer'[j] = b[i]

\* The numbers from the item to the packet are more than max_items_.
TooLong(p, item) == Minus(p.seq, item.seq, SeqMod) + 1 > MaxItems

\* The range from a stored item to a packet after the newest
LEMMA RangeTo ==
    ASSUME NEW b, Addressed(b), NEW p \in Item, IsSeqHigherThan(p.seq, Newest(b).seq, SeqMod),
           NEW i \in 1 .. Len(b), b[i] # Blank
    PROVE  /\ Minus(p.seq, Newest(b).seq, SeqMod) \in Nat \ {0}
           /\ Minus(p.seq, b[i].seq, SeqMod) = Minus(p.seq, Newest(b).seq, SeqMod) + Len(b) - i
<1>1. /\ Len(b) \in 1 .. MaxSlots /\ b[1] # Blank /\ b[Len(b)] # Blank /\ 1 \in 1 .. Len(b)
      /\ Len(b) \in 1 .. Len(b)
  BY Constants DEF Addressed
<1> DEFINE o == b[1].seq
           n == Newest(b).seq
           s == b[i].seq
           k == Len(b) - 1
           h == i - 1
<1>2. /\ o \in 0 .. SeqMod - 1 /\ n = Plus(o, k, SeqMod) /\ s = Plus(o, h, SeqMod)
      /\ n \in 0 .. SeqMod - 1 /\ s \in 0 .. SeqMod - 1 /\ p.seq \in 0 .. SeqMod - 1
      /\ k \in 0 .. Half /\ h \in 0 .. k
  <2>1. o \in 0 .. SeqMod - 1 /\ n = Plus(o, k, SeqMod) /\ s = Plus(o, h, SeqMod)
        /\ n \in 0 .. SeqMod - 1 /\ s \in 0 .. SeqMod - 1
    BY <1>1, SlotType DEF Newest
  <2>2. k \in 0 .. Half /\ h \in 0 .. k
    BY <1>1, Constants
  <2> QED
    BY <2>1, <2>2, ItemType
<1>3. IsSeqHigherThan(p.seq, n, SeqMod) /\ HalfRange(SeqMod) = Half
  BY DEF Half
<1>4. k - h = Len(b) - i /\ Len(b) \in Int /\ i \in Int
  BY <1>1, Constants
<1> HIDE DEF o, n, s, k, h
<1>5. Minus(n, s, SeqMod) = k - h
  <2>1. k \in 0 .. SeqMod - 1
    BY <1>2, Constants
  <2> QED
    BY <1>2, <2>1, Apart
<1> DEFINE q == p.seq
<1>6. q \in 0 .. SeqMod - 1 /\ IsSeqHigherThan(q, n, SeqMod)
  BY <1>2, <1>3
<1> HIDE DEF q
<1>7. Minus(q, n, SeqMod) \in Nat \ {0} /\ Minus(q, n, SeqMod) <= SeqMod - 1 - Half
  <2>1. /\ SeqMod \in Nat /\ Half \in Nat /\ HalfRange(SeqMod) = Half /\ 2 * Half <= SeqMod - 1
        /\ n \in 0 .. SeqMod - 1
    BY <1>2, <1>3, Constants
  <2>2. CASE q > n /\ q - n <= Half
    BY <1>6, <2>1, <2>2 DEF Minus
  <2>3. CASE n > q /\ n - q > Half
    BY <1>6, <2>1, <2>3 DEF Minus
  <2> QED
    BY <1>6, <2>1, <2>2, <2>3 DEF IsSeqHigherThan
<1>8. Minus(n, s, SeqMod) + Minus(q, n, SeqMod) <= SeqMod - 1
  BY <1>2, <1>5, <1>7, Constants
<1>9. Minus(q, s, SeqMod) = Minus(q, n, SeqMod) + Minus(n, s, SeqMod)
  <2>1. SeqMod \in Nat /\ n \in 0 .. SeqMod - 1 /\ s \in 0 .. SeqMod - 1
    BY <1>2, Constants
  <2> QED
    BY <1>6, <1>8, <2>1 DEF Minus
<1> QED
  BY <1>4, <1>5, <1>7, <1>9 DEF q, n, s

\* Step 4 drops only items that are too many.
LEMMA InOrderDrops ==
    ASSUME NEW b, Addressed(b), NEW p \in Item, InsertInOrder(b, p)
    PROVE  \A i \in 1 .. Len(b) : b[i] # Blank =>
              \/ \E j \in 1 .. Len(buffer') : buffer'[j] = b[i]
              \/ TooLong(p, b[i])
<1> DEFINE blanks == Minus(p.seq, Newest(b).seq, SeqMod) - 1
           excess == Len(b) + blanks + 1 - MaxItems
<1>1. /\ Len(b) \in Nat \ {0} /\ b \in [1 .. Len(b) -> Slot] /\ b[1] # Blank /\ b[Len(b)] # Blank
      /\ 1 \in 1 .. Len(b) /\ Len(b) \in 1 .. Len(b) /\ MaxItems \in Nat
  BY Constants, MaxItemsAssumption DEF Addressed
<1>2. /\ blanks \in Nat
      /\ \A i \in 1 .. Len(b) : b[i] # Blank => Minus(p.seq, b[i].seq, SeqMod) = blanks + 1 + Len(b) - i
  <2>1. IsSeqHigherThan(p.seq, Newest(b).seq, SeqMod)
    BY DEF InsertInOrder
  <2>2. \A i \in 1 .. Len(b) : b[i] # Blank =>
            /\ Minus(p.seq, Newest(b).seq, SeqMod) \in Nat \ {0}
            /\ Minus(p.seq, b[i].seq, SeqMod) = Minus(p.seq, Newest(b).seq, SeqMod) + Len(b) - i
    BY <2>1, RangeTo
  <2> QED
    BY <1>1, <2>2
<1>3. \/ buffer' = b
      \/ buffer' = PushBack(b, blanks, p)
      \/ excess > Len(b) - 1 /\ StoreAlone(p)
      \/ /\ excess \in 1 .. Len(b) - 1
         /\ \E k \in 2 .. Len(b) + 1 : RemovesUpTo(b, k) /\ buffer' = PushBack(From(b, k), blanks, p)
  BY DEF InsertInOrder
<1> HIDE DEF blanks
<1>4. ASSUME NEW c, NEW d \in 1 .. Len(b), Len(c) = Len(b) - d + 1,
             \A i \in 1 .. Len(c) : c[i] = b[i + d - 1], buffer' = PushBack(c, blanks, p)
      PROVE  \A i \in d .. Len(b) : \E j \in 1 .. Len(buffer') : buffer'[j] = b[i]
  <2> DEFINE m == Len(c) + blanks + 1
  <2>1. Len(c) \in Nat /\ m \in Nat /\ Len(c) < m
    BY <1>1, <1>2, <1>4
  <2>2. \A i \in 1 .. m : buffer'[i] = IF i <= Len(c) THEN c[i] ELSE IF i <= Len(c) + blanks THEN Blank ELSE p
    BY <1>4 DEF PushBack
  <2>3. Len(buffer') = m
    <3>1. DOMAIN buffer' = 1 .. m
      BY <1>4 DEF PushBack
    <3>2. \A i \in 1 .. Len(c) : c[i] \in Slot
      <4>1. \A i \in 1 .. Len(c) : i + d - 1 \in 1 .. Len(b)
        BY <1>1, <1>4
      <4> QED
        BY <1>1, <1>4, <4>1
    <3>3. buffer' \in [1 .. m -> Slot]
      BY <1>4, <2>1, <3>2 DEF PushBack, Slot
    <3> QED
      BY <2>1, <3>3, IsSequence
  <2> HIDE DEF m
  <2> TAKE i \in d .. Len(b)
  <2>4. i - d + 1 \in 1 .. Len(c) /\ (i - d + 1) + d - 1 = i /\ i - d + 1 \in 1 .. m
    BY <1>1, <1>4, <2>1
  <2>5. buffer'[i - d + 1] = b[i]
    BY <1>4, <2>1, <2>2, <2>4
  <2> QED
    BY <2>3, <2>4, <2>5
<1>5. CASE buffer' = b
  BY <1>5
<1>6. CASE buffer' = PushBack(b, blanks, p)
  <2>1. Len(b) = Len(b) - 1 + 1 /\ \A i \in 1 .. Len(b) : b[i] = b[i + 1 - 1]
    BY <1>1
  <2> QED
    BY <1>1, <1>4, <1>6, <2>1
<1>7. CASE excess > Len(b) - 1 /\ StoreAlone(p)
  <2>1. \A i \in 1 .. Len(b) : b[i] # Blank => TooLong(p, b[i])
    BY <1>1, <1>2, <1>7 DEF TooLong
  <2> QED
    BY <2>1
<1>8. ASSUME excess \in 1 .. Len(b) - 1, NEW k \in 2 .. Len(b) + 1, RemovesUpTo(b, k),
             buffer' = PushBack(From(b, k), blanks, p)
      PROVE  \A i \in 1 .. Len(b) : b[i] # Blank =>
                \/ \E j \in 1 .. Len(buffer') : buffer'[j] = b[i]
                \/ TooLong(p, b[i])
  <2>1. k \in 1 .. Len(b) /\ b[k] # Blank
    <3>1. Len(b) \in 2 .. Len(b)
      BY <1>1, <1>8
    <3>2. k # Len(b) + 1
      BY <1>1, <1>8, <3>1 DEF RemovesUpTo
    <3> QED
      BY <1>1, <1>8, <3>2 DEF RemovesUpTo
  <2>2. Len(From(b, k)) = Len(b) - k + 1 /\ \A i \in 1 .. Len(b) - k + 1 : From(b, k)[i] = b[i + k - 1]
    BY <2>1, FromIsAddressed
  <2>3. \A i \in k .. Len(b) : \E j \in 1 .. Len(buffer') : buffer'[j] = b[i]
    BY <1>4, <1>8, <2>1, <2>2
  <2>4. TooLong(p, b[1])
    BY <1>1, <1>2, <1>8 DEF TooLong
  <2>5. \A i \in 2 .. k - 1 : b[i] = Blank
    BY <1>8 DEF RemovesUpTo
  <2>6. \A i \in 1 .. Len(b) : i = 1 \/ i \in 2 .. k - 1 \/ i \in k .. Len(b)
    BY <1>1, <1>8
  <2> QED
    BY <2>3, <2>4, <2>5, <2>6
<1> QED
  BY <1>3, <1>5, <1>6, <1>7, <1>8

\* Step 5 drops nothing.
LEMMA OlderDrops ==
    ASSUME NEW b, Addressed(b), NEW p \in Item, InsertOlder(b, p)
    PROVE  KeepsAll(b)
<1> DEFINE n == Minus(Oldest(b).seq, p.seq, SeqMod) - 1
           m == Len(b) + n + 1
<1>1. /\ Len(b) \in Nat \ {0} /\ b \in [1 .. Len(b) -> Slot] /\ b[1] # Blank /\ 1 \in 1 .. Len(b)
  BY Constants DEF Addressed
<1>2. n \in Nat
  <2>1. p.seq \in 0 .. SeqMod - 1 /\ Oldest(b).seq \in 0 .. SeqMod - 1
    BY <1>1, ItemType, SlotType DEF Oldest
  <2>2. IsSeqLowerThan(p.seq, Oldest(b).seq, SeqMod)
    BY DEF InsertOlder
  <2> QED
    BY <2>1, <2>2, Constants DEF IsSeqLowerThan, Minus
<1>3. buffer' = b \/ buffer' = PushFront(b, n, p)
  BY DEF InsertOlder
<1> HIDE DEF n
<1>4. CASE buffer' = PushFront(b, n, p)
  <2>1. /\ buffer' \in [1 .. m -> Slot] /\ m \in Nat
        /\ \A i \in 1 .. m : buffer'[i] = IF i = 1 THEN p ELSE IF i <= n + 1 THEN Blank ELSE b[i - n - 1]
    BY <1>1, <1>2, <1>4 DEF PushFront, Slot
  <2>2. Len(buffer') = m
    BY <2>1, IsSequence
  <2>3. ASSUME NEW i \in 1 .. Len(b) PROVE \E j \in 1 .. Len(buffer') : buffer'[j] = b[i]
    <3>1. i + n + 1 \in 1 .. m /\ i + n + 1 # 1 /\ ~(i + n + 1 <= n + 1) /\ (i + n + 1) - n - 1 = i
      BY <1>1, <1>2
    <3> HIDE DEF m
    <3>2. buffer'[i + n + 1] = b[i]
      BY <2>1, <3>1
    <3> QED
      BY <2>2, <3>1, <3>2
  <2> QED
    BY <2>3 DEF KeepsAll
<1> QED
  BY <1>3, <1>4 DEF KeepsAll

\* Step 6 drops nothing: it fills a blank slot.
LEMMA BetweenDrops ==
    ASSUME NEW b, Addressed(b), NEW p \in Item, InsertBetween(b, p)
    PROVE  KeepsAll(b)
<1> DEFINE x == Index(b, p.seq)
<1>1. /\ Len(b) \in Nat \ {0} /\ b \in [1 .. Len(b) -> Slot] /\ b[1] # Blank /\ b # <<>> /\ 1 \in 1 .. Len(b)
  BY Constants DEF Addressed
<1>2. CASE buffer' = b
  BY <1>2 DEF KeepsAll
<1>3. CASE buffer' # b
  <2>1. buffer' = [b EXCEPT ![x] = p] /\ Get(b, p.seq) = Blank
        /\ ~IsSeqLowerThan(p.seq, Oldest(b).seq, SeqMod)
    BY <1>3 DEF InsertBetween
  <2>2. x \in Nat /\ x >= 1
    <3>1. b[1].seq \in 0 .. SeqMod - 1 /\ p.seq \in 0 .. SeqMod - 1
      BY <1>1, ItemType, SlotType
    <3> QED
      BY <3>1, Constants DEF Index, Minus, Oldest
  <2>3. x \in 1 .. Len(b)
    <3> HIDE DEF x
    <3> QED
      BY <1>1, <1>3, <2>1, <2>2
  <2>4. b[x] = Blank
    BY <1>1, <2>1, <2>3 DEF Get
  <2> HIDE DEF x
  <2>5. \A i \in 1 .. Len(b) : i # x => buffer'[i] = b[i]
    BY <1>1, <2>1
  <2>6. Len(buffer') = Len(b)
    <3>1. p \in Slot
      BY DEF Slot
    <3>2. [b EXCEPT ![x] = p] \in [1 .. Len(b) -> Slot]
      BY <1>1, <3>1
    <3> QED
      BY <1>1, <2>1, <3>2, IsSequence
  <2> QED
    BY <2>4, <2>5, <2>6 DEF KeepsAll
<1> QED
  BY <1>2, <1>3

\* What Insert drops, and why
LEMMA InsertDropsForCause ==
    ASSUME Places, NEW p \in Item, Insert(p)
    PROVE  \A item \in Stored(buffer) \ Stored(buffer') : Cause(p, item)
<1> SUFFICES ASSUME NEW item \in Stored(buffer) \ Stored(buffer'), ~StartsAnew(p)
             PROVE  Cause(p, item)
  BY DEF Cause
<1>0. PICK i \in 1 .. Len(buffer) : buffer[i] = item
  BY DEF Stored, Places, Addressed
<1>1. buffer[i] # Blank /\ \A j \in 1 .. Len(buffer') : buffer'[j] # buffer[i]
  BY <1>0 DEF Stored
<1>2. buffer # <<>>
  OBVIOUS
<1>3. Addressed(buffer) /\ Len(buffer) \in Nat
  BY <1>2, Constants DEF Places, Addressed
<1> DEFINE l == LaterOf(p.ts, Newest(buffer).ts)
<1>4. PICK k \in 1 .. Len(buffer) + 1 :
          /\ ClearsUpTo(buffer, l, k)
          /\ \/ k > Len(buffer) /\ StoreAlone(p)
             \/ /\ k <= Len(buffer)
                /\ \/ InsertInOrder(From(buffer, k), p)
                   \/ InsertOlder(From(buffer, k), p)
                   \/ InsertBetween(From(buffer, k), p)
  BY <1>2 DEF Insert, InsertAmong
<1>5. CASE i < k
  <2>1. i \in 1 .. k - 1
    BY <1>5
  <2>2. IsTooOldTimestamp(buffer[i].ts, l)
    BY <1>1, <1>4, <2>1 DEF ClearsUpTo
  <2> QED
    BY <1>0, <2>2 DEF Cause
<1>6. CASE i >= k
  <2>1. k \in 1 .. Len(buffer)
    BY <1>3, <1>6
  <2>2. buffer[k] # Blank
    BY <1>4, <2>1 DEF ClearsUpTo
  <2> DEFINE c == From(buffer, k)
             h == i - k + 1
  <2>3. /\ Addressed(c) /\ Len(c) = Len(buffer) - k + 1
        /\ \A j \in 1 .. Len(buffer) - k + 1 : c[j] = buffer[j + k - 1]
    BY <1>3, <2>1, <2>2, FromIsAddressed
  <2>4. h \in 1 .. Len(c) /\ h + k - 1 = i /\ h \in 1 .. Len(buffer) - k + 1
    BY <1>3, <1>6, <2>3
  <2>5. InsertInOrder(c, p) \/ InsertOlder(c, p) \/ InsertBetween(c, p)
    BY <1>3, <1>4, <2>1
  <2> HIDE DEF c, h
  <2>6. c[h] = buffer[i] /\ ~\E j \in 1 .. Len(buffer') : buffer'[j] = c[h]
    BY <1>1, <2>3, <2>4
  <2>7. TooLong(p, c[h])
    BY <1>1, <2>3, <2>4, <2>5, <2>6, InOrderDrops, OlderDrops, BetweenDrops DEF KeepsAll
  <2> QED
    BY <1>0, <2>6, <2>7 DEF Cause, TooLong
<1> QED
  BY <1>3, <1>4, <1>5, <1>6

\* RtpStreamSender loses a stored packet only to Insert, and there only for its
\* age, for a stream that started anew, or for want of room.
THEOREM SenderDropsForCause == SenderSpec => DropsForCause
<1> DEFINE dropped == Stored(buffer) \ Stored(buffer')
           A == dropped # {} =>
                    \E p \in Item : (\A item \in dropped : Cause(p, item)) /\ Insert(p)
<1>1. Places /\ [SenderNext]_sender_vars => [A]_buffer
  <2> SUFFICES ASSUME Places, [SenderNext]_sender_vars, buffer' # buffer PROVE A
    OBVIOUS
  <2>1. PICK p \in Item : Insert(p)
    BY DEF SenderNext, ReceivePacket, StorePacket, StoresNothing, ReceiveNack,
           ReceiveRtcpReceiverReport, Tick, sender_vars
  <2>2. \A item \in dropped : Cause(p, item)
    BY <2>1, InsertDropsForCause
  <2> QED
    BY <2>1, <2>2
<1> QED
  BY <1>1, SenderKeepsPlaces, PTL DEF SenderSpec, DropsForCause

--------------------------------------------------------------------------------
(* FillRetransmissionContainer: one item of a NACK                        *)

\* What is known of the constants of RtpStreamSender
LEMMA NackConstants ==
    /\ Bits \in Nat /\ DefaultRtt \in Nat /\ Rtts \subseteq Nat /\ Bits + 1 < SeqMod
    /\ PerMs \in Nat \ {0} /\ RttMod \in Nat \ {0}
    /\ SeqMod \in Nat \ {0}
    /\ \A n \in Nacks : n \in Seq(NackItem)
BY SenderAssumption, Constants

\* Offsets from the first number of a NACK item
LEMMA Offsets ==
    ASSUME NEW d \in 0 .. SeqMod - 1, NEW i \in 0 .. SeqMod - 1, NEW q \in 0 .. SeqMod - 1
    PROVE  /\ Plus(d, i, SeqMod) \in 0 .. SeqMod - 1
           /\ Minus(q, d, SeqMod) \in 0 .. SeqMod - 1
           /\ Minus(q, d, SeqMod) = i <=> q = Plus(d, i, SeqMod)
BY Constants DEF Plus, Minus

\* Get finds exactly the stored packet with that number.
LEMMA GetIs ==
    ASSUME Places, NEW s \in 0 .. SeqMod - 1
    PROVE  Get(buffer, s) = Blank \/ (Get(buffer, s) \in Stored(buffer) /\ Get(buffer, s).seq = s)
<1> SUFFICES ASSUME Get(buffer, s) # Blank
             PROVE  Get(buffer, s) \in Stored(buffer) /\ Get(buffer, s).seq = s
  OBVIOUS
<1> DEFINE i == Index(buffer, s)
           o == buffer[1].seq
<1>1. buffer # <<>> /\ ~(i > Len(buffer)) /\ Get(buffer, s) = buffer[i]
  BY DEF Get
<1>2. Addressed(buffer) /\ Len(buffer) \in Nat \ {0} /\ buffer[1] # Blank /\ 1 \in 1 .. Len(buffer)
      /\ DOMAIN buffer = 1 .. Len(buffer)
  BY <1>1, Constants DEF Places, Addressed
<1>3. o \in 0 .. SeqMod - 1
  BY <1>2, SlotType
<1>4. i = Minus(s, o, SeqMod) + 1
  BY DEF Index, Oldest
<1> HIDE DEF i, o
<1>5. i \in 1 .. SeqMod /\ s = Plus(o, i - 1, SeqMod)
  BY <1>3, <1>4, Constants DEF Minus, Plus
<1>6. i \in 1 .. Len(buffer) /\ buffer[i] # Blank
  BY <1>1, <1>2, <1>5, Constants
<1>7. buffer[i].seq = Plus(o, i - 1, SeqMod)
  BY <1>2, <1>6, SlotType DEF o
<1> QED
  BY <1>1, <1>2, <1>5, <1>6, <1>7 DEF Stored

\* Get finds a stored packet under its number.
LEMMA StoredIs ==
    ASSUME Places, NEW p \in Stored(buffer)
    PROVE  p \in Item /\ p # Blank /\ p.seq \in 0 .. SeqMod - 1 /\ Get(buffer, p.seq) = p
<1>1. PICK i \in DOMAIN buffer : p = buffer[i] /\ p # Blank
  BY DEF Stored
<1>2. Addressed(buffer) /\ i \in 1 .. Len(buffer)
  <2>1. buffer # <<>>
    BY <1>1
  <2> QED
    BY <2>1 DEF Places, Addressed
<1> QED
  BY <1>1, <1>2, SlotType, AddressedIsFound

\* times after q is retransmitted
Stamped(times, q) == [p \in DOMAIN times \cup q |-> IF p \in q THEN 0 ELSE times[p]]

\* How far behind the first number of the item the packet is
Offset(item, p) == Minus(p.seq, item.packet_id, SeqMod)

\* The stored packets among the first i numbers that the item names and that may be
\* resent
Wanted(item, times, i) ==
    {p \in Stored(buffer) : /\ Offset(item, p) < i
                            /\ Offset(item, p) \in {0} \cup item.bitmask
                            /\ MayResend(p, times)}

\* The packets of c are in the order of their numbers from the first one on.
Ascending(item, c) ==
    \A i, j \in 1 .. Len(c) : i < j => Offset(item, c[i]) < Offset(item, c[j])

\* The loop at the number i behind the first one, with the packets c to resend
At(item, times, i, c) ==
    [current_seq |-> Plus(item.packet_id, i, SeqMod),
     requested |-> i \in {0} \cup item.bitmask,
     bitmask |-> {b \in 1 .. Bits : b + i \in item.bitmask},
     container |-> c,
     times |-> Stamped(times, Range(c))]

\* c is the wanted packets among the first i numbers, in order.
Collects(item, times, i, c) ==
    c \in Seq(Item) /\ Range(c) = Wanted(item, times, i) /\ Ascending(item, c)

\* What a NACK item is made of
LEMMA ItemOfNack ==
    ASSUME NEW item \in NackItem
    PROVE  item.packet_id \in 0 .. SeqMod - 1 /\ item.bitmask \subseteq 1 .. Bits
BY DEF NackItem

\* What EXCEPT and the times need to know
IsFunction(f) == f = [x \in DOMAIN f |-> f[x]]

\* The loop starts with the first number and nothing collected.
LEMMA LoopStarts ==
    ASSUME NEW item \in NackItem, NEW times, IsFunction(times)
    PROVE  Loop(item, times) = At(item, times, 0, <<>>) /\ Collects(item, times, 0, <<>>)
<1>1. item.packet_id \in 0 .. SeqMod - 1 /\ item.bitmask \subseteq 1 .. Bits
  BY ItemOfNack
<1>2. Plus(item.packet_id, 0, SeqMod) = item.packet_id
  BY <1>1, Constants DEF Plus
<1>3. {b \in 1 .. Bits : b + 0 \in item.bitmask} = item.bitmask
  BY <1>1, NackConstants
<1>4. Range(<<>>) = {}
  BY DEF Range
<1>5. Stamped(times, Range(<<>>)) = times
  BY <1>4 DEF Stamped, IsFunction
<1>6. Wanted(item, times, 0) = {}
  <2>1. \A p \in Stored(buffer) : Offset(item, p) \in {0} \cup item.bitmask => ~(Offset(item, p) < 0)
    BY <1>1, NackConstants
  <2> QED
    BY <2>1 DEF Wanted
<1>7. Collects(item, times, 0, <<>>)
  <2>1. <<>> \in Seq(Item) /\ \A i \in 1 .. Len(<<>>) : FALSE
    OBVIOUS
  <2> QED
    BY <1>4, <1>6, <2>1 DEF Collects, Ascending
<1>8. Loop(item, times) = At(item, times, 0, <<>>)
  BY <1>2, <1>3, <1>5 DEF Loop, At
<1> QED
  BY <1>7, <1>8

\* One shift of the bitmask, field by field
LEMMA ShiftedRecord ==
    ASSUME NEW s, NEW r, NEW m, NEW c, NEW t
    PROVE  Shifted([current_seq |-> s, requested |-> r, bitmask |-> m, container |-> c, times |-> t])
               = [current_seq |-> Plus(s, 1, SeqMod), requested |-> 1 \in m,
                  bitmask |-> {b - 1 : b \in m \ {1}}, container |-> c, times |-> t]
<1> DEFINE l == [current_seq |-> s, requested |-> r, bitmask |-> m, container |-> c, times |-> t]
           n == {b - 1 : b \in m \ {1}}
<1>1. l.bitmask = m /\ l.current_seq = s
  OBVIOUS
<1> HIDE DEF l
<1>2. Shifted(l) = [l EXCEPT !.requested = 1 \in m, !.bitmask = {b - 1 : b \in m \ {1}},
                             !.current_seq = Plus(@, 1, SeqMod)]
  BY <1>1 DEF Shifted
<1>3. Shifted(l) = [l EXCEPT !.requested = 1 \in m, !.bitmask = n,
                             !.current_seq = Plus(s, 1, SeqMod)]
  BY <1>1, <1>2
<1> HIDE DEF n
<1>4. Shifted(l) = [current_seq |-> Plus(s, 1, SeqMod), requested |-> 1 \in m, bitmask |-> n,
                    container |-> c, times |-> t]
  BY <1>3 DEF l
<1> QED
  BY <1>4 DEF l, n

\* A shift moves the loop to the next number.
LEMMA ShiftedIs ==
    ASSUME NEW item \in NackItem, NEW times, NEW i \in 0 .. Bits - 1, NEW c
    PROVE  Shifted(At(item, times, i, c)) = At(item, times, i + 1, c)
<1> DEFINE d == item.packet_id
           m == item.bitmask
           t == Stamped(times, Range(c))
           bm == {b \in 1 .. Bits : b + i \in m}
<1>1. d \in 0 .. SeqMod - 1 /\ m \subseteq 1 .. Bits /\ Bits \in Nat /\ i + 1 < SeqMod
      /\ i \in Nat
  BY ItemOfNack, NackConstants
<1>2. Plus(Plus(d, i, SeqMod), 1, SeqMod) = Plus(d, i + 1, SeqMod)
  BY <1>1, Further
<1>3. (1 \in bm) = (i + 1 \in {0} \cup m)
  BY <1>1
<1>4. {b - 1 : b \in bm \ {1}} = {b \in 1 .. Bits : b + (i + 1) \in m}
  <2>1. ASSUME NEW b \in bm \ {1} PROVE b - 1 \in 1 .. Bits /\ (b - 1) + (i + 1) \in m
    <3>1. b \in 1 .. Bits /\ b + i \in m /\ b # 1 /\ (b - 1) + (i + 1) = b + i
      BY <1>1
    <3> QED
      BY <1>1, <3>1
  <2>2. ASSUME NEW b \in 1 .. Bits, b + (i + 1) \in m PROVE b + 1 \in bm \ {1} /\ b = (b + 1) - 1
    <3>1. b + (i + 1) \in 1 .. Bits /\ (b + 1) + i = b + (i + 1)
      BY <1>1, <2>2
    <3> QED
      BY <1>1, <2>2, <3>1
  <2> QED
    BY <2>1, <2>2
<1>5. At(item, times, i, c) =
          [current_seq |-> Plus(d, i, SeqMod), requested |-> i \in {0} \cup m,
           bitmask |-> bm, container |-> c, times |-> t]
  BY DEF At
<1>6. At(item, times, i + 1, c) =
          [current_seq |-> Plus(d, i + 1, SeqMod), requested |-> i + 1 \in {0} \cup m,
           bitmask |-> {b \in 1 .. Bits : b + (i + 1) \in m}, container |-> c, times |-> t]
  BY DEF At
<1> HIDE DEF d, m, t, bm
<1>7. Shifted(At(item, times, i, c)) =
          [current_seq |-> Plus(Plus(d, i, SeqMod), 1, SeqMod), requested |-> 1 \in bm,
           bitmask |-> {b - 1 : b \in bm \ {1}}, container |-> c, times |-> t]
  BY <1>5, ShiftedRecord
<1> QED
  BY <1>2, <1>3, <1>4, <1>6, <1>7, Zenon

\* A packet more is retransmitted.
LEMMA StampedOnce ==
    ASSUME NEW times, NEW s, NEW q
    PROVE  [p \in DOMAIN Stamped(times, s) \cup {q} |-> IF p = q THEN 0 ELSE Stamped(times, s)[p]]
               = Stamped(times, s \cup {q})
BY DEF Stamped

\* The range of a sequence with one element more
LEMMA RangeAppend ==
    ASSUME NEW T, NEW c \in Seq(T), NEW q \in T
    PROVE  Range(Append(c, q)) = Range(c) \cup {q}
<1> DEFINE a == Append(c, q)
<1>1. DOMAIN c = 1 .. Len(c) /\ DOMAIN a = 1 .. Len(c) + 1 /\ Len(c) \in Nat
      /\ a[Len(c) + 1] = q /\ \A i \in 1 .. Len(c) : a[i] = c[i]
  OBVIOUS
<1>2. \A i \in 1 .. Len(c) + 1 : i \in 1 .. Len(c) \/ i = Len(c) + 1
  BY <1>1
<1> HIDE DEF a
<1>3. Range(a) = Range(c) \cup {q}
  BY <1>1, <1>2 DEF Range
<1> QED
  BY <1>3 DEF a

\* One number of the item
LEMMA ResendIs ==
    ASSUME Places, NEW item \in NackItem, NEW times, NEW i \in 0 .. Bits, NEW c,
           Collects(item, times, i, c)
    PROVE  \E e : Resend(At(item, times, i, c)) = At(item, times, i, e)
                  /\ Collects(item, times, i + 1, e)
<1> DEFINE d == item.packet_id
           m == item.bitmask
           s == Plus(d, i, SeqMod)
           q == Get(buffer, s)
           l == At(item, times, i, c)
           t == Stamped(times, Range(c))
<1>1. d \in 0 .. SeqMod - 1 /\ m \subseteq 1 .. Bits /\ Bits \in Nat /\ i \in 0 .. SeqMod - 1
      /\ i \in Nat
  BY ItemOfNack, NackConstants
<1>2. s \in 0 .. SeqMod - 1
  BY <1>1, Offsets
<1>3. \A p \in Stored(buffer) : Offset(item, p) \in Nat /\ (Offset(item, p) = i <=> p = q)
  <2> TAKE p \in Stored(buffer)
  <2>1. p.seq \in 0 .. SeqMod - 1 /\ Get(buffer, p.seq) = p /\ p # Blank
    BY StoredIs
  <2>2. Minus(p.seq, d, SeqMod) \in 0 .. SeqMod - 1
        /\ (Minus(p.seq, d, SeqMod) = i <=> p.seq = s)
    BY <1>1, <2>1, Offsets
  <2>3. p = q => p.seq = s
    BY <1>2, <2>1, GetIs
  <2> QED
    BY <2>1, <2>2, <2>3 DEF Offset
<1>4. q = Blank \/ q \in Stored(buffer)
  BY <1>2, GetIs
<1>5. q \notin Range(c)
  <2>1. \A p \in Range(c) : p \in Stored(buffer) /\ Offset(item, p) < i
    BY DEF Collects, Wanted
  <2> QED
    BY <1>1, <1>3, <2>1
<1>6. MayResend(q, t) <=> MayResend(q, times)
  <2> HIDE DEF q
  <2> QED
    BY <1>5 DEF MayResend, Stamped
<1>7. l = [current_seq |-> s, requested |-> i \in {0} \cup m,
           bitmask |-> {b \in 1 .. Bits : b + i \in m}, container |-> c, times |-> t]
  BY DEF At
<1> HIDE DEF d, m, s, q, l, t
<1>8. CASE i \in {0} \cup m /\ MayResend(q, t)
  <2> DEFINE e == Append(c, q)
  <2>1. q \in Stored(buffer) /\ q # Blank /\ q \in Item /\ MayResend(q, times)
    BY <1>4, <1>6, <1>8, StoredIs DEF MayResend
  <2>2. Range(e) = Range(c) \cup {q} /\ e \in Seq(Item)
    BY <2>1, RangeAppend DEF Collects
  <2>3. Resend(l) = [l EXCEPT !.container = Append(@, q),
                              !.times = [p \in DOMAIN t \cup {q} |-> IF p = q THEN 0 ELSE t[p]]]
    BY <1>7, <1>8 DEF Resend, q
  <2>4. [p \in DOMAIN t \cup {q} |-> IF p = q THEN 0 ELSE t[p]] = Stamped(times, Range(e))
    <3>1. [p \in DOMAIN t \cup {q} |-> IF p = q THEN 0 ELSE t[p]] = Stamped(times, Range(c) \cup {q})
      BY StampedOnce DEF t
    <3> QED
      BY <2>2, <3>1
  <2>5. Resend(l) = [current_seq |-> s, requested |-> i \in {0} \cup m,
                     bitmask |-> {b \in 1 .. Bits : b + i \in m}, container |-> e,
                     times |-> Stamped(times, Range(e))]
    BY <1>7, <2>3, <2>4
  <2>6. Resend(l) = At(item, times, i, e)
    <3> HIDE DEF e
    <3> QED
      BY <2>5 DEF At, d, m, s
  <2>7. Range(e) = Wanted(item, times, i + 1)
    <3> HIDE DEF e
    <3>1. Offset(item, q) = i
      BY <1>3, <2>1
    <3>2. \A p \in Stored(buffer) : Offset(item, p) < i + 1 <=> Offset(item, p) < i \/ p = q
      BY <1>1, <1>3
    <3> QED
      BY <1>8, <2>1, <2>2, <3>1, <3>2 DEF Collects, Wanted, m
  <2>8. Ascending(item, e)
    <3>1. Offset(item, q) = i /\ \A k \in 1 .. Len(c) : Offset(item, c[k]) < i
      <4>1. \A k \in 1 .. Len(c) : c[k] \in Range(c)
        BY DEF Range, Collects
      <4> QED
        BY <1>3, <2>1, <4>1 DEF Collects, Wanted
    <3>2. Len(e) = Len(c) + 1 /\ Len(c) \in Nat /\ e[Len(c) + 1] = q
          /\ \A k \in 1 .. Len(c) : e[k] = c[k]
      BY <2>1 DEF Collects
    <3> HIDE DEF e
    <3>3. ASSUME NEW j \in 1 .. Len(e), NEW k \in 1 .. Len(e), j < k
          PROVE  Offset(item, e[j]) < Offset(item, e[k])
      <4>1. j \in 1 .. Len(c) /\ (k \in 1 .. Len(c) \/ k = Len(c) + 1)
        BY <3>2, <3>3
      <4>2. CASE k = Len(c) + 1
        BY <3>1, <3>2, <4>1, <4>2
      <4>3. CASE k \in 1 .. Len(c)
        BY <3>2, <3>3, <4>1, <4>3 DEF Collects, Ascending
      <4> QED
        BY <4>1, <4>2, <4>3
    <3> QED
      BY <3>3 DEF Ascending
  <2>9. Collects(item, times, i + 1, e)
    BY <2>2, <2>7, <2>8 DEF Collects
  <2> QED
    BY <2>6, <2>9 DEF l
<1>9. CASE ~(i \in {0} \cup m /\ MayResend(q, t))
  <2>1. Resend(l) = l
    BY <1>7, <1>9 DEF Resend, q
  <2>2. Wanted(item, times, i + 1) = Wanted(item, times, i)
    <3>1. \A p \in Stored(buffer) : Offset(item, p) < i + 1 <=> Offset(item, p) < i \/ p = q
      BY <1>1, <1>3
    <3>2. ASSUME NEW p \in Stored(buffer), p = q, Offset(item, p) \in {0} \cup m, MayResend(p, times)
          PROVE  FALSE
      BY <1>3, <1>6, <1>9, <3>2
    <3> QED
      BY <3>1, <3>2 DEF Wanted, m
  <2> QED
    BY <2>1, <2>2 DEF Collects, l
<1> QED
  BY <1>8, <1>9

\* The function of the loop
IsPass(g, item, times, n) ==
    g = [i \in 0 .. n |-> Resend(IF i = 0 THEN Loop(item, times) ELSE Shifted(g[i - 1]))]

\* One of its values
LEMMA PassStep ==
    ASSUME NEW g, NEW item, NEW times, NEW n, IsPass(g, item, times, n), NEW i \in 0 .. n
    PROVE  g[i] = Resend(IF i = 0 THEN Loop(item, times) ELSE Shifted(g[i - 1]))
<1> DEFINE h(j) == Resend(IF j = 0 THEN Loop(item, times) ELSE Shifted(g[j - 1]))
<1>1. g = [j \in 0 .. n |-> h(j)]
  BY DEF IsPass
<1> HIDE DEF h
<1>2. g[i] = h(i)
  BY <1>1
<1> QED
  BY <1>2 DEF h

\* There is such a function.
LEMMA PassExists ==
    ASSUME NEW item, NEW times
    PROVE  \A n \in Nat : \E g : IsPass(g, item, times, n)
<1> DEFINE S == {n \in Nat : \E g : IsPass(g, item, times, n)}
<1>1. 0 \in S
  <2> DEFINE g == [i \in 0 .. 0 |-> Resend(Loop(item, times))]
             h(i) == Resend(IF i = 0 THEN Loop(item, times) ELSE Shifted(g[i - 1]))
  <2>1. ASSUME NEW i \in 0 .. 0 PROVE g[i] = h(i)
    OBVIOUS
  <2>2. g = [i \in 0 .. 0 |-> h(i)]
    BY <2>1
  <2>3. IsPass(g, item, times, 0)
    BY <2>2 DEF IsPass
  <2> HIDE DEF g
  <2> QED
    BY <2>3
<1>2. ASSUME NEW n \in Nat, n \in S PROVE n + 1 \in S
  <2>1. PICK f : IsPass(f, item, times, n)
    BY <1>2
  <2> DEFINE g == [i \in 0 .. n + 1 |->
                      IF i <= n THEN f[i] ELSE Resend(IF i = 0 THEN Loop(item, times) ELSE Shifted(f[i - 1]))]
             h(i) == Resend(IF i = 0 THEN Loop(item, times) ELSE Shifted(g[i - 1]))
  <2>2. ASSUME NEW i \in 0 .. n + 1 PROVE g[i] = h(i)
    <3>1. i # 0 => i - 1 \in 0 .. n /\ i - 1 \in 0 .. n + 1 /\ g[i - 1] = f[i - 1]
      OBVIOUS
    <3>2. i <= n => f[i] = Resend(IF i = 0 THEN Loop(item, times) ELSE Shifted(f[i - 1]))
      BY <2>1, PassStep
    <3> QED
      BY <3>1, <3>2
  <2>3. IsPass(g, item, times, n + 1)
    <3>1. g = [i \in 0 .. n + 1 |-> h(i)]
      BY <2>2
    <3> QED
      BY <3>1 DEF IsPass
  <2> HIDE DEF g
  <2> QED
    BY <2>3
<1> HIDE DEF S
<1>3. Nat \subseteq S
  BY <1>1, <1>2, Induction
<1> QED
  BY <1>3 DEF S

\* FillRetransmissionContainer is the last of its values.
LEMMA FillIs ==
    ASSUME NEW item, NEW times
    PROVE  \E g : IsPass(g, item, times, Bits) /\ FillRetransmissionContainer(item, times) = g[Bits]
<1> DEFINE g == CHOOSE f : IsPass(f, item, times, Bits)
<1>1. IsPass(g, item, times, Bits)
  BY PassExists, NackConstants
<1>2. FillRetransmissionContainer(item, times) = g[Bits]
  BY DEF FillRetransmissionContainer, IsPass
<1> QED
  BY <1>1, <1>2

\* What FillRetransmissionContainer collects
LEMMA Fills ==
    ASSUME Places, NEW item \in NackItem, NEW times, IsFunction(times)
    PROVE  \E c : /\ Collects(item, times, Bits + 1, c)
                  /\ FillRetransmissionContainer(item, times).container = c
                  /\ FillRetransmissionContainer(item, times).times = Stamped(times, Range(c))
<1>1. PICK g : IsPass(g, item, times, Bits) /\ FillRetransmissionContainer(item, times) = g[Bits]
  BY FillIs
<1> DEFINE S == {i \in Nat : i <= Bits =>
                    \E c : g[i] = At(item, times, i, c) /\ Collects(item, times, i + 1, c)}
<1>2. 0 \in S
  <2>1. g[0] = Resend(Loop(item, times))
    BY <1>1, PassStep, NackConstants
  <2>2. Loop(item, times) = At(item, times, 0, <<>>) /\ Collects(item, times, 0, <<>>)
    BY LoopStarts
  <2> QED
    BY <2>1, <2>2, ResendIs, NackConstants
<1>3. ASSUME NEW i \in Nat, i \in S PROVE i + 1 \in S
  <2> SUFFICES ASSUME i + 1 <= Bits
               PROVE  \E c : g[i + 1] = At(item, times, i + 1, c) /\ Collects(item, times, (i + 1) + 1, c)
    OBVIOUS
  <2>1. i \in 0 .. Bits - 1 /\ i + 1 \in 0 .. Bits /\ i + 1 # 0 /\ (i + 1) - 1 = i
    BY NackConstants
  <2>2. PICK c : g[i] = At(item, times, i, c) /\ Collects(item, times, i + 1, c)
    BY <1>3, <2>1, NackConstants
  <2>3. g[i + 1] = Resend(Shifted(g[i]))
    <3>1. g[i + 1] = Resend(IF i + 1 = 0 THEN Loop(item, times) ELSE Shifted(g[(i + 1) - 1]))
      BY <1>1, <2>1, PassStep
    <3> QED
      BY <2>1, <3>1
  <2>4. Shifted(g[i]) = At(item, times, i + 1, c)
    BY <2>1, <2>2, ShiftedIs
  <2> DEFINE k == i + 1
  <2>5. k \in 0 .. Bits /\ Collects(item, times, k, c) /\ g[k] = Resend(At(item, times, k, c))
    BY <2>1, <2>2, <2>3, <2>4
  <2> HIDE DEF k
  <2>6. \E e : g[k] = At(item, times, k, e) /\ Collects(item, times, k + 1, e)
    BY <2>5, ResendIs
  <2> QED
    BY <2>6 DEF k
<1>4. Bits \in S
  <2> HIDE DEF S
  <2> QED
    BY <1>2, <1>3, Induction, NackConstants
<1>5. PICK c : g[Bits] = At(item, times, Bits, c) /\ Collects(item, times, Bits + 1, c)
  BY <1>4, NackConstants
<1>6. g[Bits].container = c /\ g[Bits].times = Stamped(times, Range(c))
  BY <1>5 DEF At
<1> QED
  BY <1>1, <1>5, <1>6

--------------------------------------------------------------------------------
(* A NACK of any items                                                     *)

\* What item i of the packet adds to s
AfterItem(n, i, s) ==
    LET l == FillRetransmissionContainer(n[i], s.times)
    IN  [batch |-> s.batch \o l.container, times |-> l.times]

\* The function of the items of a packet, as far as item m
IsUpTo(g, n, m) ==
    g = [i \in 0 .. m |->
            IF i = 0 THEN [batch |-> <<>>, times |-> resent] ELSE AfterItem(n, i, g[i - 1])]

\* One of its values
LEMMA UpToStep ==
    ASSUME NEW g, NEW n, NEW m, IsUpTo(g, n, m), NEW i \in 0 .. m
    PROVE  g[i] = IF i = 0 THEN [batch |-> <<>>, times |-> resent] ELSE AfterItem(n, i, g[i - 1])
<1> DEFINE h(j) == IF j = 0 THEN [batch |-> <<>>, times |-> resent] ELSE AfterItem(n, j, g[j - 1])
<1>1. g = [j \in 0 .. m |-> h(j)]
  BY DEF IsUpTo
<1> HIDE DEF h
<1>2. g[i] = h(i)
  BY <1>1
<1> QED
  BY <1>2 DEF h

\* There is such a function.
LEMMA UpToExists ==
    ASSUME NEW n
    PROVE  \A m \in Nat : \E g : IsUpTo(g, n, m)
<1> DEFINE S == {m \in Nat : \E g : IsUpTo(g, n, m)}
           first == [batch |-> <<>>, times |-> resent]
<1>1. 0 \in S
  <2> DEFINE g == [i \in 0 .. 0 |-> first]
             h(i) == IF i = 0 THEN first ELSE AfterItem(n, i, g[i - 1])
  <2>1. ASSUME NEW i \in 0 .. 0 PROVE g[i] = h(i)
    OBVIOUS
  <2>2. g = [i \in 0 .. 0 |-> h(i)]
    BY <2>1
  <2>3. IsUpTo(g, n, 0)
    BY <2>2 DEF IsUpTo
  <2> HIDE DEF g
  <2> QED
    BY <2>3
<1>2. ASSUME NEW m \in Nat, m \in S PROVE m + 1 \in S
  <2>1. PICK f : IsUpTo(f, n, m)
    BY <1>2
  <2> DEFINE g == [i \in 0 .. m + 1 |->
                      IF i <= m THEN f[i] ELSE IF i = 0 THEN first ELSE AfterItem(n, i, f[i - 1])]
             h(i) == IF i = 0 THEN first ELSE AfterItem(n, i, g[i - 1])
  <2>2. ASSUME NEW i \in 0 .. m + 1 PROVE g[i] = h(i)
    <3>1. i # 0 => i - 1 \in 0 .. m /\ i - 1 \in 0 .. m + 1 /\ g[i - 1] = f[i - 1]
      OBVIOUS
    <3>2. i <= m => f[i] = IF i = 0 THEN first ELSE AfterItem(n, i, f[i - 1])
      <4> SUFFICES ASSUME i <= m
                   PROVE  f[i] = IF i = 0 THEN first ELSE AfterItem(n, i, f[i - 1])
        OBVIOUS
      <4>1. i \in 0 .. m
        BY <2>2
      <4> HIDE DEF g, h
      <4>2. IsUpTo(f, n, m)
        BY <2>1
      <4> QED
        BY <4>1, <4>2, UpToStep
    <3> QED
      BY <3>1, <3>2
  <2>3. IsUpTo(g, n, m + 1)
    <3>1. g = [i \in 0 .. m + 1 |-> h(i)]
      BY <2>2
    <3> QED
      BY <3>1 DEF IsUpTo
  <2> HIDE DEF g
  <2> QED
    BY <2>3
<1> HIDE DEF S
<1>3. Nat \subseteq S
  BY <1>1, <1>2, Induction
<1> QED
  BY <1>3 DEF S

\* AfterItems is the last of its values.
LEMMA AfterIs ==
    ASSUME NEW n, Len(n) \in Nat
    PROVE  \E g : IsUpTo(g, n, Len(n)) /\ AfterItems(n) = g[Len(n)]
<1> DEFINE g == CHOOSE f : IsUpTo(f, n, Len(n))
<1>1. IsUpTo(g, n, Len(n))
  BY UpToExists
<1>2. AfterItems(n) = g[Len(n)]
  BY DEF AfterItems, IsUpTo, AfterItem
<1> QED
  BY <1>1, <1>2

\* No packet twice, each of them one that may be resent, and their times are new
Answer(s) ==
    /\ s.batch \in Seq(Item)
    /\ \A i, j \in 1 .. Len(s.batch) : s.batch[i] = s.batch[j] => i = j
    /\ \A p \in Range(s.batch) : p \in Stored(buffer) /\ MayResend(p, resent)
    /\ s.times = Stamped(resent, Range(s.batch))

\* Milliseconds and the whole ones of a round-trip time
LEMMA WholeMs ==
    ASSUME NEW r \in Nat, NEW k \in Nat \ {0}, NEW t \in Nat
    PROVE  /\ t > r \div k => t * k > r
           /\ r < t * k => r \div k < t
<1>1. t > r \div k => t * k > r
  OBVIOUS
<1>2. r < t * k => r \div k < t
  OBVIOUS
<1> QED
  BY <1>1, <1>2

LEMMA Remainder ==
    ASSUME NEW d \in Nat, NEW m \in Nat \ {0}
    PROVE  d % m \in Nat /\ (d < m => d % m = d)
<1>1. d % m \in Nat
  OBVIOUS
<1>2. d < m => d % m = d
  OBVIOUS
<1> QED
  BY <1>1, <1>2

\* What the code takes for the round-trip time
LEMMA RttIs ==
    ASSUME rtt \in Nat
    PROVE  /\ RttOr100 \in Nat
           /\ rtt = 0 => RttOr100 = DefaultRtt
           /\ rtt > 0 /\ rtt < RttMod * PerMs => RttOr100 = rtt \div PerMs
<1>1. rtt \div PerMs \in Nat
  BY NackConstants
<1>2. /\ (rtt \div PerMs) % RttMod \in Nat
      /\ rtt \div PerMs < RttMod => (rtt \div PerMs) % RttMod = rtt \div PerMs
  BY <1>1, Remainder, NackConstants
<1>3. rtt < RttMod * PerMs => rtt \div PerMs < RttMod
  BY WholeMs, NackConstants
<1> QED
  BY <1>2, <1>3, NackConstants DEF RttOr100

\* The items of a NACK one after the other: none resends what an earlier one did.
LEMMA Answers ==
    ASSUME Places, rtt \in Nat, IsFunction(resent), NEW n \in Seq(NackItem)
    PROVE  Answer(AfterItems(n))
<1>1. Len(n) \in Nat /\ RttOr100 \in Nat /\ \A i \in 1 .. Len(n) : n[i] \in NackItem
  BY RttIs
<1>2. PICK g : IsUpTo(g, n, Len(n)) /\ AfterItems(n) = g[Len(n)]
  BY <1>1, AfterIs
<1> DEFINE S == {i \in Nat : i <= Len(n) => Answer(g[i])}
<1>3. 0 \in S
  <2>1. g[0] = [batch |-> <<>>, times |-> resent]
    BY <1>1, <1>2, UpToStep
  <2>2. Range(<<>>) = {} /\ <<>> \in Seq(Item) /\ \A i \in 1 .. Len(<<>>) : FALSE
    BY DEF Range
  <2>3. Stamped(resent, {}) = resent
    BY DEF Stamped, IsFunction
  <2>4. Answer([batch |-> <<>>, times |-> resent])
    <3> DEFINE s == [batch |-> <<>>, times |-> resent]
    <3>1. s.batch = <<>> /\ s.times = resent
      OBVIOUS
    <3> HIDE DEF s
    <3>2. s.batch \in Seq(Item) /\ \A i \in 1 .. Len(s.batch) : FALSE
      BY <2>2, <3>1
    <3>3. Range(s.batch) = {}
      BY <2>2, <3>1
    <3>4. s.times = Stamped(resent, Range(s.batch))
      BY <2>3, <3>1, <3>3
    <3>5. Answer(s)
      BY <3>2, <3>3, <3>4 DEF Answer
    <3> QED
      BY <3>5 DEF s
  <2> QED
    BY <2>1, <2>4
<1>4. ASSUME NEW i \in Nat, i \in S PROVE i + 1 \in S
  <2> SUFFICES ASSUME i + 1 <= Len(n) PROVE Answer(g[i + 1])
    OBVIOUS
  <2> DEFINE s == g[i]
             b == s.batch
             f == FillRetransmissionContainer(n[i + 1], s.times)
  <2>1. Answer(s)
    BY <1>1, <1>4
  <2>2. g[i + 1] = [batch |-> b \o f.container, times |-> f.times]
    <3>1. i + 1 \in 0 .. Len(n) /\ i + 1 # 0 /\ (i + 1) - 1 = i
      BY <1>1
    <3>2. g[i + 1] = IF i + 1 = 0 THEN [batch |-> <<>>, times |-> resent] ELSE AfterItem(n, i + 1, g[(i + 1) - 1])
      BY <1>2, <3>1, UpToStep
    <3> QED
      BY <3>1, <3>2 DEF AfterItem
  <2>3. IsFunction(s.times)
    BY <2>1 DEF Answer, Stamped, IsFunction
  <2>4. n[i + 1] \in NackItem
    BY <1>1
  <2> HIDE DEF s
  <2>5. PICK c : /\ Collects(n[i + 1], s.times, Bits + 1, c)
                 /\ f.container = c /\ f.times = Stamped(s.times, Range(c))
    BY <2>3, <2>4, Fills
  <2> HIDE DEF f, b
  <2>6. \A p \in Range(c) : p \in Stored(buffer) /\ MayResend(p, s.times)
    BY <2>5 DEF Collects, Wanted
  <2>7. \A p \in Range(c) : p \notin Range(b) /\ MayResend(p, resent)
    <3>1. s.times = Stamped(resent, Range(b))
      BY <2>1 DEF Answer, b
    <3> TAKE p \in Range(c)
    <3>2. p \in Range(b) => FALSE
      <4> SUFFICES ASSUME p \in Range(b) PROVE FALSE
        OBVIOUS
      <4>1. p \in DOMAIN s.times /\ s.times[p] = 0
        BY <3>1 DEF Stamped
      <4>2. 0 > RttOr100
        BY <2>6, <4>1 DEF MayResend
      <4> HIDE DEF AfterItem
      <4> QED
        BY <1>1, <4>2
    <3>3. p \in DOMAIN resent => p \in DOMAIN s.times /\ s.times[p] = resent[p]
      BY <3>1, <3>2 DEF Stamped
    <3>4. MayResend(p, resent)
      BY <2>6, <3>3 DEF MayResend
    <3> QED
      BY <3>2, <3>4
  <2>8. c \in Seq(Item) /\ \A j, k \in 1 .. Len(c) : c[j] = c[k] => j = k
    <3>1. c \in Seq(Item) /\ Ascending(n[i + 1], c)
      BY <2>5 DEF Collects
    <3>2. \A j \in 1 .. Len(c) : Offset(n[i + 1], c[j]) \in Int
      <4> TAKE j \in 1 .. Len(c)
      <4>1. c[j] \in Item
        BY <3>1
      <4>2. c[j].seq \in 0 .. SeqMod - 1
        BY <4>1, ItemType
      <4>3. n[i + 1].packet_id \in 0 .. SeqMod - 1
        BY <2>4, ItemOfNack
      <4> QED
        BY <4>2, <4>3, NackConstants DEF Offset, Minus
    <3> QED
      BY <3>1, <3>2 DEF Ascending
  <2> DEFINE e == b \o c
  <2>9. b \in Seq(Item) /\ (\A j, k \in 1 .. Len(b) : b[j] = b[k] => j = k)
        /\ \A p \in Range(b) : p \in Stored(buffer) /\ MayResend(p, resent)
    BY <2>1 DEF Answer, b
  <2>10. /\ e \in Seq(Item) /\ Len(e) = Len(b) + Len(c) /\ Len(b) \in Nat /\ Len(c) \in Nat
         /\ \A j \in 1 .. Len(b) + Len(c) : e[j] = IF j <= Len(b) THEN b[j] ELSE c[j - Len(b)]
    BY <2>8, <2>9
  <2>11. (\A j \in 1 .. Len(b) : b[j] \in Range(b)) /\ \A j \in 1 .. Len(c) : c[j] \in Range(c)
    BY <2>8, <2>9 DEF Range
  <2> HIDE DEF e
  <2>12. Range(e) = Range(b) \cup Range(c)
    <3>1. DOMAIN e = 1 .. Len(b) + Len(c) /\ DOMAIN b = 1 .. Len(b) /\ DOMAIN c = 1 .. Len(c)
      BY <2>8, <2>9, <2>10
    <3>2. \A j \in 1 .. Len(b) : j \in DOMAIN e /\ e[j] = b[j]
      BY <2>10, <3>1
    <3>3. ASSUME NEW j \in 1 .. Len(c) PROVE Len(b) + j \in DOMAIN e /\ e[Len(b) + j] = c[j]
      <4>1. Len(b) + j \in 1 .. Len(b) + Len(c) /\ ~(Len(b) + j <= Len(b)) /\ (Len(b) + j) - Len(b) = j
        BY <2>10
      <4> QED
        BY <2>10, <3>1, <4>1
    <3>4. \A j \in DOMAIN e : e[j] \in Range(b) \/ e[j] \in Range(c)
      BY <2>10, <2>11, <3>1
    <3>5. ASSUME NEW p \in Range(b) PROVE p \in Range(e)
      <4>1. PICK j \in 1 .. Len(b) : p = b[j]
        BY <3>1 DEF Range
      <4> QED
        BY <3>2, <4>1 DEF Range
    <3>6. ASSUME NEW p \in Range(c) PROVE p \in Range(e)
      <4>1. PICK j \in 1 .. Len(c) : p = c[j]
        BY <3>1 DEF Range
      <4> QED
        BY <3>3, <4>1 DEF Range
    <3>7. ASSUME NEW p \in Range(e) PROVE p \in Range(b) \/ p \in Range(c)
      BY <3>4 DEF Range
    <3> QED
      BY <3>5, <3>6, <3>7
  <2>13. ASSUME NEW j \in 1 .. Len(e), NEW k \in 1 .. Len(e), e[j] = e[k] PROVE j = k
    <3>1. \A h \in 1 .. Len(e) : (h \in 1 .. Len(b) /\ e[h] = b[h])
                                 \/ (h - Len(b) \in 1 .. Len(c) /\ e[h] = c[h - Len(b)])
      BY <2>10
    <3>2. CASE j \in 1 .. Len(b) /\ e[j] = b[j]
      BY <2>7, <2>9, <2>11, <2>13, <3>1, <3>2
    <3>3. CASE j - Len(b) \in 1 .. Len(c) /\ e[j] = c[j - Len(b)]
      <4>1. CASE k \in 1 .. Len(b) /\ e[k] = b[k]
        BY <2>7, <2>11, <2>13, <3>3, <4>1
      <4>2. CASE k - Len(b) \in 1 .. Len(c) /\ e[k] = c[k - Len(b)]
        <5>1. j - Len(b) = k - Len(b)
          BY <2>8, <2>13, <3>3, <4>2
        <5> QED
          BY <2>10, <5>1
      <4> QED
        BY <3>1, <4>1, <4>2
    <3> QED
      BY <3>1, <3>2, <3>3
  <2>14. Stamped(s.times, Range(c)) = Stamped(resent, Range(e))
    <3>1. s.times = Stamped(resent, Range(b))
      BY <2>1 DEF Answer, b
    <3> QED
      BY <2>12, <3>1 DEF Stamped
  <2>15. g[i + 1] = [batch |-> e, times |-> Stamped(resent, Range(e))]
    BY <2>2, <2>5, <2>14 DEF e
  <2>16. \A p \in Range(e) : p \in Stored(buffer) /\ MayResend(p, resent)
    BY <2>6, <2>7, <2>9, <2>12
  <2> QED
    BY <2>10, <2>13, <2>15, <2>16 DEF Answer
<1>5. Len(n) \in S
  <2> HIDE DEF S
  <2> QED
    BY <1>1, <1>3, <1>4, Induction
<1> QED
  BY <1>1, <1>2, <1>5

--------------------------------------------------------------------------------
(* The times of the items                                                  *)

\* The times of the items are the history's, and the round-trip time is a number
SameTimes ==
    /\ rtt \in Nat
    /\ resent = answered
    /\ IsFunction(resent)
    /\ \A q \in DOMAIN answered : answered[q] \in Nat

\* Every step leaves them so.
LEMMA TimesAreKept ==
    ASSUME Places, SameTimes, SenderNext
    PROVE  SameTimes'
<1>1. ASSUME NEW p \in Item, ReceivePacket(p) PROVE SameTimes'
  BY <1>1 DEF ReceivePacket, StorePacket, SameTimes, IsFunction, Restrict
<1>2. CASE StoresNothing
  BY <1>2 DEF StoresNothing, sender_vars, SameTimes, IsFunction
<1>3. ASSUME NEW n \in Nacks, ReceiveNack(n) PROVE SameTimes'
  <2> DEFINE s == AfterItems(n)
  <2>1. Answer(s)
    BY NackConstants, Answers DEF SameTimes
  <2>2. resent' = s.times /\ UNCHANGED rtt
        /\ answered' = [q \in DOMAIN answered \cup Range(s.batch) |->
                           IF q \in Range(s.batch) THEN 0 ELSE answered[q]]
    BY <1>3 DEF ReceiveNack
  <2> HIDE DEF s
  <2>3. resent' = Stamped(resent, Range(s.batch)) /\ answered' = Stamped(answered, Range(s.batch))
    BY <2>1, <2>2 DEF Answer, Stamped
  <2> QED
    BY <2>2, <2>3 DEF SameTimes, Stamped, IsFunction
<1>4. ASSUME NEW r \in Rtts, ReceiveRtcpReceiverReport(r) PROVE SameTimes'
  BY <1>4, NackConstants DEF ReceiveRtcpReceiverReport, SameTimes, IsFunction
<1>5. CASE Tick
  BY <1>5 DEF Tick, Aged, SameTimes, IsFunction
<1> QED
  BY <1>1, <1>2, <1>3, <1>4, <1>5 DEF SenderNext

\* The code's resent_at_ms is the last retransmission of each stored item.
LEMMA TimesAreTheHistory == SenderSpec => []SameTimes
<1>1. SenderInit => SameTimes
  BY DEF SenderInit, SameTimes, IsFunction, Never
<1>2. Places /\ SameTimes /\ [SenderNext]_sender_vars => SameTimes'
  <2> SUFFICES ASSUME Places, SameTimes, [SenderNext]_sender_vars PROVE SameTimes'
    OBVIOUS
  <2>1. CASE SenderNext
    BY <2>1, TimesAreKept
  <2>2. CASE UNCHANGED sender_vars
    BY <2>2 DEF SameTimes, sender_vars, IsFunction
  <2> QED
    BY <2>1, <2>2
<1> QED
  BY <1>1, <1>2, SenderKeepsPlaces, PTL DEF SenderSpec

\* Whatever NACKs come and however often they name it, ReceiveNack does not hand a
\* packet out twice within a round-trip time that fits the uint16_t.
THEOREM NackOncePerRtt == SenderSpec => []NotTwiceInRtt
<1>1. ASSUME Places, SameTimes PROVE NotTwiceInRtt
  <2> SUFFICES ASSUME NEW n \in Nacks
               PROVE  /\ \A i, j \in DOMAIN AfterItems(n).batch :
                            AfterItems(n).batch[i] = AfterItems(n).batch[j] => i = j
                      /\ \A p \in Range(AfterItems(n).batch) \cap DOMAIN answered :
                            IF rtt = 0 THEN answered[p] > DefaultRtt
                            ELSE rtt < RttMod * PerMs => answered[p] * PerMs > rtt
    BY DEF NotTwiceInRtt
  <2> DEFINE s == AfterItems(n)
  <2>1. Answer(s)
    BY <1>1, NackConstants, Answers DEF SameTimes
  <2> HIDE DEF s
  <2>2. DOMAIN s.batch = 1 .. Len(s.batch)
    BY <2>1 DEF Answer
  <2>3. \A i, j \in DOMAIN s.batch : s.batch[i] = s.batch[j] => i = j
    BY <2>1, <2>2 DEF Answer
  <2>4. ASSUME NEW p \in Range(s.batch) \cap DOMAIN answered
        PROVE  IF rtt = 0 THEN answered[p] > DefaultRtt
               ELSE rtt < RttMod * PerMs => answered[p] * PerMs > rtt
    <3>1. answered[p] > RttOr100 /\ answered[p] \in Nat /\ rtt \in Nat
      BY <1>1, <2>1 DEF Answer, MayResend, SameTimes
    <3>2. answered[p] > rtt \div PerMs => answered[p] * PerMs > rtt
      BY <3>1, WholeMs, NackConstants
    <3> QED
      BY <3>1, <3>2, RttIs
  <2> QED
    BY <2>3, <2>4 DEF s
<1> QED
  BY <1>1, SenderKeepsPlaces, TimesAreTheHistory, PTL

\* The numbers an item requests are the first one and those of its bits
LEMMA RequestedIs ==
    ASSUME NEW item \in NackItem, NEW p \in Item
    PROVE  /\ p.seq \in Requested(item) <=> Offset(item, p) \in {0} \cup item.bitmask
           /\ Offset(item, p) \in 0 .. SeqMod - 1
<1> DEFINE d == item.packet_id
           q == p.seq
<1>1. d \in 0 .. SeqMod - 1 /\ q \in 0 .. SeqMod - 1 /\ item.bitmask \subseteq 1 .. Bits
  BY ItemOfNack, ItemType
<1>2. \A i \in {0} \cup item.bitmask : i \in 0 .. SeqMod - 1
  BY <1>1, NackConstants
<1>3. Plus(d, 0, SeqMod) = d
  BY <1>1, Constants DEF Plus
<1>4. Requested(item) = {d} \cup {Plus(d, b, SeqMod) : b \in item.bitmask}
      /\ Offset(item, p) = Minus(q, d, SeqMod)
  BY DEF Requested, Offset
<1> HIDE DEF d, q
<1>5. Minus(q, d, SeqMod) \in 0 .. SeqMod - 1
      /\ \A i \in {0} \cup item.bitmask : Minus(q, d, SeqMod) = i <=> q = Plus(d, i, SeqMod)
  BY <1>1, <1>2, Offsets, NackConstants
<1>6. q \in Requested(item) <=> Minus(q, d, SeqMod) \in {0} \cup item.bitmask
  BY <1>3, <1>4, <1>5
<1> QED
  BY <1>4, <1>5, <1>6 DEF q

\* ReceiveNack answers a NACK of one item with every requested packet that is
\* stored and not just resent, each once, in the order of their numbers.
THEOREM NackIsAnswered == SenderSpec => []AnswersTheNack
<1>1. ASSUME Places, SameTimes PROVE AnswersTheNack
  <2> SUFFICES ASSUME NEW n \in Nacks, Len(n) = 1
               PROVE  /\ Range(AfterItems(n).batch) =
                            {p \in Stored(buffer) :
                                /\ p.seq \in Requested(n[1])
                                /\ p \in DOMAIN answered => answered[p] > RttOr100}
                      /\ \A i, j \in DOMAIN AfterItems(n).batch :
                            i < j => Minus(AfterItems(n).batch[i].seq, n[1].packet_id, SeqMod)
                                     < Minus(AfterItems(n).batch[j].seq, n[1].packet_id, SeqMod)
    BY DEF AnswersTheNack
  <2> DEFINE item == n[1]
             f == FillRetransmissionContainer(item, resent)
             batch == AfterItems(n).batch
  <2>1. item \in NackItem
    BY NackConstants
  <2>2. PICK g : IsUpTo(g, n, 1) /\ AfterItems(n) = g[1]
    BY AfterIs
  <2>3. AfterItems(n) = [batch |-> <<>> \o f.container, times |-> f.times]
    <3>1. g[0] = [batch |-> <<>>, times |-> resent]
      BY <2>2, UpToStep
    <3>2. g[1] = IF 1 = 0 THEN [batch |-> <<>>, times |-> resent] ELSE AfterItem(n, 1, g[1 - 1])
      <4>1. 1 \in 0 .. 1 /\ IsUpTo(g, n, 1)
        BY <2>2
      <4> HIDE DEF item, f, batch
      <4> QED
        BY <4>1, UpToStep
    <3>3. g[1] = AfterItem(n, 1, g[0])
      BY <3>2
    <3>4. g[0].batch = <<>> /\ g[0].times = resent
      BY <3>1
    <3> QED
      BY <2>2, <3>3, <3>4 DEF AfterItem
  <2> HIDE DEF item
  <2>4. PICK c : Collects(item, resent, Bits + 1, c) /\ f.container = c
    <3> HIDE DEF f
    <3>1. IsFunction(resent)
      BY <1>1 DEF SameTimes
    <3> QED
      BY <1>1, <2>1, <3>1, Fills DEF f
  <2>5. batch = c
    BY <2>3, <2>4 DEF Collects
  <2>6. c \in Seq(Item) /\ Range(c) = Wanted(item, resent, Bits + 1) /\ Ascending(item, c)
    BY <2>4 DEF Collects
  <2> HIDE DEF f, batch
  <2>7. ASSUME NEW p \in Stored(buffer)
        PROVE  /\ Offset(item, p) < Bits + 1 /\ Offset(item, p) \in {0} \cup item.bitmask
                     /\ MayResend(p, resent)
               <=> /\ p.seq \in Requested(item)
                   /\ p \in DOMAIN answered => answered[p] > RttOr100
    <3>1. p \in Item /\ p # Blank
      BY <1>1, StoredIs
    <3>2. MayResend(p, resent) <=> (p \in DOMAIN answered => answered[p] > RttOr100)
      BY <1>1, <3>1 DEF MayResend, SameTimes
    <3>3. p.seq \in Requested(item) <=> Offset(item, p) \in {0} \cup item.bitmask
      BY <2>1, <3>1, RequestedIs
    <3>4. Offset(item, p) \in {0} \cup item.bitmask => Offset(item, p) < Bits + 1
      BY <2>1, ItemOfNack, NackConstants
    <3> QED
      BY <3>2, <3>3, <3>4
  <2>8. Range(batch) = {p \in Stored(buffer) : /\ p.seq \in Requested(item)
                                               /\ p \in DOMAIN answered => answered[p] > RttOr100}
    BY <2>5, <2>6, <2>7 DEF Wanted
  <2>9. ASSUME NEW i \in DOMAIN batch, NEW j \in DOMAIN batch, i < j
        PROVE  Minus(batch[i].seq, item.packet_id, SeqMod) < Minus(batch[j].seq, item.packet_id, SeqMod)
    <3>1. i \in 1 .. Len(c) /\ j \in 1 .. Len(c)
      BY <2>5, <2>6, <2>9
    <3> QED
      BY <2>5, <2>6, <2>9, <3>1 DEF Ascending, Offset
  <2> QED
    BY <2>8, <2>9 DEF batch, item
<1> QED
  BY <1>1, SenderKeepsPlaces, TimesAreTheHistory, PTL

================================================================================
