--------------------------- MODULE NackGeneratorProofs ---------------------------
(***************************************************************************)
(* Proofs about NackGenerator, for any range of sequence numbers and any   *)
(* windows that fit into half of it: its list is what is missing, its      *)
(* ordered containers are ordered, every missing number is asked for once, *)
(* and a packet is called retransmitted if it was asked for.               *)
(***************************************************************************)
EXTENDS NackGenerator, FiniteSetTheorems, FunctionTheorems, WellFoundedInduction, TLAPS

--------------------------------------------------------------------------------
(* Sequence numbers: how far b is behind a                                 *)

Behind(a, b) == Minus(a, b, SeqMod)
Half == HalfRange(SeqMod)

LEMMA Constants ==
    /\ SeqMod \in Nat \ {0} /\ MaxPacketAge \in Nat \ {0} /\ MaxNackPackets \in Nat \ {0}
    /\ MaxNackRetries \in Nat /\ MaxNackRetries > 1
    /\ SendNackDelay \in Nat /\ AskAgain \in Nat /\ MaxAhead \in Nat /\ MaxBehind \in Nat
    /\ Half \in Nat /\ 2 * Half <= SeqMod - 1 /\ SeqMod - 1 <= 2 * Half + 1
    /\ MaxPacketAge < Half /\ MaxBehind < Half /\ MaxPacketAge + MaxAhead <= Half
    /\ MaxAhead <= MaxPacketAge
BY SeqAssumption DEF Half, HalfRange

LEMMA BehindType ==
    ASSUME NEW a \in Seqs, NEW b \in Seqs
    PROVE  /\ Behind(a, b) \in 0 .. SeqMod - 1
           /\ Behind(a, b) = 0 <=> a = b
BY Constants DEF Seqs, Behind, Minus

LEMMA LowerIsBehind ==
    ASSUME NEW a \in Seqs, NEW b \in Seqs
    PROVE  /\ Behind(b, a) \in 1 .. Half => Lower(a, b) /\ Higher(b, a)
           /\ Behind(a, b) \in 0 .. Half => ~Lower(a, b)
<1>1. Lower(a, b) <=> \/ b > a /\ b - a <= Half
                      \/ a > b /\ a - b > Half
  BY DEF Lower, IsSeqLowerThan, Half
<1>2. Higher(b, a) <=> \/ b > a /\ b - a <= Half
                       \/ a > b /\ a - b > Half
  BY DEF Higher, IsSeqHigherThan, Half
<1>3. Behind(a, b) = (IF a >= b THEN a - b ELSE a - b + SeqMod)
      /\ Behind(b, a) = (IF b >= a THEN b - a ELSE b - a + SeqMod)
  BY DEF Behind, Minus
<1>4. Behind(b, a) \in 1 .. Half => Lower(a, b) /\ Higher(b, a)
  BY <1>1, <1>2, <1>3, Constants DEF Seqs
<1>5. Behind(a, b) \in 0 .. Half => ~Lower(a, b)
  BY <1>1, <1>3, Constants DEF Seqs
<1> QED
  BY <1>4, <1>5

\* The newest number moves on from last to seq.
LEMMA MovesOn ==
    ASSUME NEW last \in Seqs, NEW seq \in Seqs, NEW q \in Seqs,
           Behind(seq, last) \in 1 .. MaxAhead, Behind(last, q) \in 0 .. MaxPacketAge
    PROVE  Behind(seq, q) = Behind(seq, last) + Behind(last, q) /\ Behind(seq, q) \in 1 .. Half
BY Constants DEF Seqs, Behind, Minus

\* lower_bound(seq - kMaxPacketAge) finds the first number that is near enough.
LEMMA OldestIsOldest ==
    ASSUME NEW seq \in Seqs, NEW q \in Seqs, Behind(seq, q) \in 0 .. Half
    PROVE  Lower(q, Oldest(seq)) <=> Behind(seq, q) > MaxPacketAge
<1> DEFINE o == Oldest(seq)
<1>1. o \in Seqs /\ o = IF seq >= MaxPacketAge THEN seq - MaxPacketAge ELSE seq - MaxPacketAge + SeqMod
  BY Constants DEF Oldest, Minus, Seqs
<1>2. Behind(seq, q) > MaxPacketAge => Behind(o, q) \in 1 .. Half
  BY <1>1, Constants DEF Behind, Minus, Seqs
<1>3. Behind(seq, q) <= MaxPacketAge => Behind(q, o) \in 0 .. Half
  BY <1>1, Constants DEF Behind, Minus, Seqs
<1> HIDE DEF o
<1>4. Behind(seq, q) \in Int
  BY BehindType, Constants
<1> QED
  BY <1>1, <1>2, <1>3, <1>4, LowerIsBehind, Constants DEF o

\* Of two numbers up to half the range behind seq, the lower one is further behind.
LEMMA LowerIsFurther ==
    ASSUME NEW seq \in Seqs, NEW a \in Seqs, NEW b \in Seqs,
           Behind(seq, a) \in 0 .. Half, Behind(seq, b) \in 0 .. Half
    PROVE  Lower(a, b) <=> Behind(seq, a) > Behind(seq, b)
<1>1. Behind(seq, a) > Behind(seq, b) => Behind(b, a) \in 1 .. Half
  BY Constants DEF Behind, Minus, Seqs
<1>2. Behind(seq, a) <= Behind(seq, b) => Behind(a, b) \in 0 .. Half
  BY Constants DEF Behind, Minus, Seqs
<1>3. Behind(seq, a) \in Int /\ Behind(seq, b) \in Int
  BY Constants
<1> QED
  BY <1>1, <1>2, <1>3, LowerIsBehind

\* The numbers passed over are near, and none was near before.
LEMMA PassedOver ==
    ASSUME NEW seq \in Seqs, last_seq \in Seqs, Behind(seq, last_seq) \in 1 .. MaxAhead,
           NEW q \in Between(seq)
    PROVE  /\ q \in Seqs /\ Behind(seq, q) \in 1 .. MaxPacketAge
           /\ Behind(seq, q) < Behind(seq, last_seq)
           /\ Behind(last_seq, q) > MaxPacketAge
<1> DEFINE d == Behind(seq, last_seq)
<1>1. PICK n \in 1 .. d - 1 : q = Add(last_seq, n)
  BY DEF Between, Behind
<1>2. q = IF last_seq + n < SeqMod THEN last_seq + n ELSE last_seq + n - SeqMod
  BY <1>1 DEF Add, Plus
<1>3. n \in 1 .. MaxAhead /\ n < d /\ d \in 1 .. MaxAhead
  BY <1>1, Constants
<1>4. q \in Seqs /\ Behind(last_seq, q) = SeqMod - n
  BY <1>2, <1>3, Constants DEF Seqs, Behind, Minus
<1>5. Behind(seq, q) = d - n
  BY <1>2, <1>3, Constants DEF Seqs, Behind, Minus
<1> QED
  <2>1. d - n \in 1 .. MaxPacketAge /\ d - n < d /\ SeqMod - n > MaxPacketAge
    <3> HIDE DEF d
    <3> QED
      BY <1>3, Constants
  <2> QED
    BY <1>4, <1>5, <2>1

--------------------------------------------------------------------------------
(* The operations on the list                                              *)

Infos == [created : 0 .. SendNackDelay, sent : 0 .. Never, retries : {0, 1}]

LEMMA SubsetOfSeqs ==
    ASSUME NEW S \in SUBSET Seqs
    PROVE  IsFiniteSet(S) /\ Cardinality(S) \in Nat
<1>1. 0 \in Int /\ SeqMod - 1 \in Int
  BY Constants
<1>2. IsFiniteSet(Seqs)
  BY <1>1, FS_Interval DEF Seqs
<1> QED
  BY <1>2, FS_Subset, FS_CardinalityType

\* A key frame older than the others there are
LEMMA FirstExists ==
    ASSUME NEW seq \in Seqs, NEW keys \in SUBSET Seqs, keys # {},
           \A k \in keys : Behind(seq, k) \in 0 .. Half
    PROVE  FirstOf(keys) \in keys /\ \A l \in keys : ~Lower(l, FirstOf(keys))
<1> DEFINE T == {Half - Behind(seq, k) : k \in keys}
<1>1. T \subseteq Nat /\ T # {}
  BY Constants
<1>2. PICK t \in T : \A u \in T : ~(<<u, t>> \in OpToRel(<, Nat))
  <2> HIDE DEF T
  <2> QED
    BY <1>1, NatLessThanWellFounded, WFMin
<1>3. PICK k \in keys : t = Half - Behind(seq, k)
  BY <1>2
<1>4. ASSUME NEW l \in keys PROVE ~Lower(l, k)
  <2>1. Half - Behind(seq, l) \in T /\ Half - Behind(seq, l) \in Nat /\ t \in Nat
    BY <1>1, <1>2
  <2>2. ~(Half - Behind(seq, l) < t)
    BY <1>2, <2>1 DEF OpToRel
  <2>3. Behind(seq, l) <= Behind(seq, k) /\ k \in Seqs /\ l \in Seqs
    BY <1>3, <2>2, Constants
  <2>4. Behind(l, k) = Behind(seq, k) - Behind(seq, l) /\ Behind(l, k) \in 0 .. Half
    BY <2>3, Constants DEF Behind, Minus, Seqs
  <2> QED
    BY <2>3, <2>4, LowerIsBehind
<1> QED
  BY <1>3, <1>4 DEF FirstOf

LEMMA NewInfo == New \in Infos /\ New.sent = Never /\ New.retries = 0
BY Constants DEF New, Infos, Never

\* What AddPacketsToNackList makes of the list
AddsItems(dom, list, new, keys) ==
    LET added == AddPacketsToNackList(list, keys, new)
    IN  /\ added.keys \subseteq keys
        /\ DOMAIN added.list \subseteq dom \cup new
        /\ added.list \in [DOMAIN added.list -> Infos]
        /\ \A q \in DOMAIN added.list : added.list[q] = IF q \in dom THEN list[q] ELSE New
        /\ Cardinality(DOMAIN added.list) <= MaxNackPackets

LEMMA Added ==
    ASSUME NEW seq \in Seqs, NEW dom \in SUBSET Seqs, NEW list \in [dom -> Infos],
           NEW new \in SUBSET Seqs, dom \cap new = {}, NEW keys \in SUBSET Seqs,
           \A k \in keys : Behind(seq, k) \in 0 .. Half
    PROVE  AddsItems(dom, list, new, keys)
<1> DEFINE added == AddPacketsToNackList(list, keys, new)
<1> SUFFICES /\ added.keys \subseteq keys
             /\ DOMAIN added.list \subseteq dom \cup new
             /\ added.list \in [DOMAIN added.list -> Infos]
             /\ \A q \in DOMAIN added.list : added.list[q] = IF q \in dom THEN list[q] ELSE New
             /\ Cardinality(DOMAIN added.list) <= MaxNackPackets
  BY DEF AddsItems
<1>1. ASSUME NEW part \in SUBSET dom, NEW kept, kept = [q \in part |-> list[q]], Fits(kept, new)
      PROVE  /\ DOMAIN AddPackets(kept, new) = part \cup new
             /\ AddPackets(kept, new) \in [part \cup new -> Infos]
             /\ \A q \in part \cup new :
                    AddPackets(kept, new)[q] = IF q \in dom THEN list[q] ELSE New
             /\ Cardinality(part \cup new) <= MaxNackPackets
  <2>1. /\ Cardinality(part) \in Nat /\ Cardinality(new) \in Nat
        /\ Cardinality(part \cap new) \in Nat /\ IsFiniteSet(part) /\ IsFiniteSet(new)
    <3>1. part \in SUBSET Seqs /\ part \cap new \in SUBSET Seqs
      OBVIOUS
    <3> QED
      BY <3>1, SubsetOfSeqs
  <2>2. Cardinality(part \cup new) =
            Cardinality(part) + Cardinality(new) - Cardinality(part \cap new)
    BY <2>1, FS_Union
  <2>3. Cardinality(part) + Cardinality(new) <= MaxNackPackets
    BY <1>1 DEF Fits
  <2>4. DOMAIN kept = part /\ \A q \in new : q \notin dom
    BY <1>1
  <2>5. AddPackets(kept, new) = [q \in part \cup new |-> IF q \in dom THEN list[q] ELSE New]
    BY <1>1, <2>4 DEF AddPackets
  <2>6. \A q \in part \cup new : (IF q \in dom THEN list[q] ELSE New) \in Infos
    BY NewInfo
  <2> QED
    BY <2>1, <2>2, <2>3, <2>5, <2>6, Constants
<1> DEFINE room == MakesRoom(list, keys, new)
           k == FirstOf(room)
<1>2. CASE Fits(list, new)
  <2>1. added = [list |-> AddPackets(list, new), keys |-> keys]
    BY <1>2 DEF AddPacketsToNackList
  <2>2. list = [q \in dom |-> list[q]]
    OBVIOUS
  <2> HIDE DEF added
  <2>3. added.keys = keys /\ added.list = AddPackets(list, new)
    BY <2>1
  <2> QED
    <3> DEFINE l == AddPackets(list, new)
    <3>1. /\ DOMAIN l = dom \cup new /\ l \in [dom \cup new -> Infos]
          /\ \A q \in dom \cup new : l[q] = IF q \in dom THEN list[q] ELSE New
          /\ Cardinality(dom \cup new) <= MaxNackPackets
      BY <1>1, <1>2, <2>2
    <3> HIDE DEF l
    <3>2. added.keys = keys /\ added.list = l
      BY <2>3 DEF l
    <3> QED
      BY <3>1, <3>2
<1>3. CASE ~Fits(list, new) /\ room # {}
  <2>1. k \in keys /\ Fits(Above(list, k), new)
    <3>1. room \subseteq keys /\ room \in SUBSET Seqs
      BY DEF MakesRoom
    <3>2. k \in room
      <4> HIDE DEF room
      <4> QED
        BY <1>3, <3>1, FirstExists
    <3> QED
      BY <3>2 DEF MakesRoom
  <2>2. added = [list |-> AddPackets(Above(list, k), new),
                 keys |-> keys \ Below(keys, k)]
    BY <1>3 DEF AddPacketsToNackList
  <2> HIDE DEF k, added
  <2>3. Above(list, k) = [q \in dom \ Below(dom, k) |-> list[q]]
    BY DEF Above, Restrict
  <2> DEFINE part == dom \ Below(dom, k)
  <2>4. part \subseteq dom
    OBVIOUS
  <2>5. /\ added.keys \subseteq keys
        /\ added.list = AddPackets(Above(list, k), new)
    BY <2>2
  <2> HIDE DEF part
  <2> QED
    <3> DEFINE l == AddPackets(Above(list, k), new)
    <3>1. /\ DOMAIN l = part \cup new /\ l \in [part \cup new -> Infos]
          /\ \A q \in part \cup new : l[q] = IF q \in dom THEN list[q] ELSE New
          /\ Cardinality(part \cup new) <= MaxNackPackets
      BY <1>1, <2>1, <2>3, <2>4 DEF part
    <3> HIDE DEF l
    <3>2. added.keys \subseteq keys /\ added.list = l
      BY <2>5 DEF l
    <3> QED
      BY <2>4, <3>1, <3>2
<1>4. CASE ~Fits(list, new) /\ room = {}
  <2>1. added = [list |-> Nothing, keys |-> {}]
    BY <1>4 DEF AddPacketsToNackList
  <2> QED
    BY <2>1, FS_EmptySet, Constants DEF Nothing
<1> QED
  BY <1>2, <1>3, <1>4

\* The list has what may not be given up, and an item older than a key frame that
\* was removed is gone.
KeepsItems(seq, dom, list, new, came, keys) ==
    LET added == AddPacketsToNackList(list, keys, new)
        D == DOMAIN added.list
    IN  /\ D = (dom \cup new) \ MayGiveUp(dom, new, came, seq)
        /\ MayGiveUp(dom, new, came, seq) \subseteq dom \cup new
        /\ \A a \in keys \ added.keys : \A q \in D \ new : Behind(seq, q) <= Behind(seq, a)
        /\ seq \notin added.keys /\ seq \in keys => D = {}

LEMMA GivesUpFew ==
    ASSUME NEW seq \in Seqs, NEW dom \in SUBSET Seqs, NEW list \in [dom -> Infos],
           NEW new \in SUBSET Seqs, dom \cap new = {}, NEW came \in SUBSET Seqs,
           NEW keys \in SUBSET came,
           \A q \in dom \cup came : Behind(seq, q) \in 0 .. Half,
           \A a \in came \ keys : \A q \in dom : Behind(seq, q) <= Behind(seq, a)
    PROVE  KeepsItems(seq, dom, list, new, came, keys)
<1> DEFINE added == AddPacketsToNackList(list, keys, new)
           D == DOMAIN added.list
           room == MakesRoom(list, keys, new)
           k == FirstOf(room)
           stays == Stays(dom, new, came, seq)
           fits(S) == Cardinality(S) + Cardinality(new) <= MaxNackPackets
<1> SUFFICES /\ D = (dom \cup new) \ MayGiveUp(dom, new, came, seq)
             /\ MayGiveUp(dom, new, came, seq) \subseteq dom \cup new
             /\ \A a \in keys \ added.keys : \A q \in D \ new : Behind(seq, q) <= Behind(seq, a)
             /\ seq \notin added.keys /\ seq \in keys => D = {}
  BY DEF KeepsItems
<1>1. \A a, b \in dom \cup came : Lower(a, b) <=> Behind(seq, a) > Behind(seq, b)
  BY LowerIsFurther
<1>2. \A a, b \in dom \cup came : Behind(seq, a) \in Int
  BY Constants
<1>3. ASSUME NEW a \in came
      PROVE  /\ dom \ Below(dom, a) = Since(dom, seq, a)
             /\ Since(dom, seq, a) \subseteq dom
             /\ DOMAIN Above(list, a) = Since(dom, seq, a)
             /\ Fits(Above(list, a), new) <=> fits(Since(dom, seq, a))
  <2>1. dom \ Below(dom, a) = Since(dom, seq, a)
    BY <1>1, <1>2 DEF Below, Since, Behind
  <2>2. DOMAIN Above(list, a) = dom \ Below(dom, a)
    BY DEF Above, Restrict, Below
  <2> QED
    BY <2>1, <2>2 DEF Fits, Since
<1>4. \A a \in came \ keys : Since(dom, seq, a) = dom
  BY DEF Since, Behind
<1>5. Fits(list, new) <=> fits(dom)
  BY DEF Fits
<1>6. stays = {S \in {dom} \cup {Since(dom, seq, a) : a \in came} : fits(S)}
  BY DEF Stays
<1>7. room = {a \in keys : fits(Since(dom, seq, a))}
  BY <1>3 DEF MakesRoom
<1>8. MayGiveUp(dom, new, came, seq) = IF stays = {} THEN dom \cup new ELSE dom \ UNION stays
  BY DEF MayGiveUp
<1>9. \A a \in keys : Behind(seq, a) \in 0 .. Half /\ a \in came /\ a \in Seqs
  OBVIOUS
<1> HIDE DEF stays, room, fits
<1>10. CASE Fits(list, new)
  <2>1. added = [list |-> AddPackets(list, new), keys |-> keys]
    BY <1>10 DEF AddPacketsToNackList
  <2>2. D = dom \cup new /\ added.keys = keys
    BY <2>1 DEF AddPackets
  <2>3. dom \in stays /\ \A S \in stays : S \subseteq dom
    BY <1>3, <1>5, <1>6, <1>10
  <2>4. stays # {} /\ UNION stays = dom
    BY <2>3
  <2>5. MayGiveUp(dom, new, came, seq) = {}
    BY <1>8, <2>4
  <2> QED
    BY <2>2, <2>5
<1>11. CASE ~Fits(list, new) /\ room # {}
  <2>1. k \in room /\ \A l \in room : ~Lower(l, k)
    <3>1. room \in SUBSET Seqs /\ \A a \in room : Behind(seq, a) \in 0 .. Half
      BY <1>7, <1>9
    <3> QED
      BY <1>11, <3>1, FirstExists
  <2>3. k \in keys /\ k \in came /\ fits(Since(dom, seq, k))
    BY <1>7, <1>9, <2>1
  <2>4. added = [list |-> AddPackets(Above(list, k), new), keys |-> keys \ Below(keys, k)]
    BY <1>11 DEF AddPacketsToNackList, room
  <2> HIDE DEF k
  <2>5. D = Since(dom, seq, k) \cup new /\ added.keys = keys \ Below(keys, k)
    BY <1>3, <2>3, <2>4 DEF AddPackets
  <2>6. ASSUME NEW S \in stays PROVE S \subseteq Since(dom, seq, k)
    <3>1. ~fits(dom)
      BY <1>5, <1>11
    <3>2. PICK a \in came : S = Since(dom, seq, a) /\ fits(S)
      BY <1>6, <3>1
    <3>3. a \in room
      BY <1>4, <1>7, <3>1, <3>2
    <3>4. Behind(seq, a) <= Behind(seq, k)
      BY <1>1, <1>2, <2>1, <2>3, <3>2, <3>3
    <3> QED
      BY <1>2, <2>3, <3>2, <3>4 DEF Since, Behind
  <2>7. Since(dom, seq, k) \in stays
    BY <1>6, <2>3
  <2>8. stays # {} /\ UNION stays = Since(dom, seq, k)
    BY <2>6, <2>7
  <2>9. MayGiveUp(dom, new, came, seq) = dom \ Since(dom, seq, k)
    BY <1>8, <2>8
  <2>10. ASSUME NEW a \in keys \ added.keys, NEW q \in D \ new
         PROVE  Behind(seq, q) <= Behind(seq, a)
    <3>1. Lower(a, k) /\ a \in came
      BY <1>9, <2>5 DEF Below
    <3>2. q \in dom /\ Behind(seq, q) <= Behind(seq, k)
      BY <2>5 DEF Since, Behind
    <3>3. Behind(seq, a) > Behind(seq, k)
      BY <1>1, <2>3, <3>1
    <3> QED
      BY <1>2, <2>3, <3>1, <3>2, <3>3
  <2>11. seq \in keys => seq \in added.keys
    <3> SUFFICES ASSUME seq \in keys, seq \notin added.keys PROVE FALSE
      OBVIOUS
    <3>1. Lower(seq, k) /\ seq \in came
      BY <1>9, <2>5 DEF Below
    <3>2. Behind(seq, seq) > Behind(seq, k)
      BY <1>1, <2>3, <3>1
    <3>3. Behind(seq, seq) = 0 /\ Behind(seq, k) \in 0 .. Half
      BY <1>9, <2>3, BehindType
    <3> QED
      BY <3>2, <3>3, Constants
  <2> QED
    <3>1. Since(dom, seq, k) \subseteq dom
      BY DEF Since
    <3> QED
      BY <2>5, <2>9, <2>10, <2>11, <3>1
<1>12. CASE ~Fits(list, new) /\ room = {}
  <2>1. added = [list |-> Nothing, keys |-> {}]
    BY <1>12 DEF AddPacketsToNackList, room
  <2>2. D = {}
    BY <2>1 DEF Nothing
  <2>3. stays = {}
    <3> SUFFICES ASSUME NEW S \in stays PROVE FALSE
      OBVIOUS
    <3>1. ~fits(dom)
      BY <1>5, <1>12
    <3>2. PICK a \in came : S = Since(dom, seq, a) /\ fits(S)
      BY <1>6, <3>1
    <3>3. a \in room
      BY <1>4, <1>7, <3>1, <3>2
    <3> QED
      BY <1>12, <3>3
  <2>4. MayGiveUp(dom, new, came, seq) = dom \cup new
    BY <1>8, <2>3
  <2> QED
    BY <2>2, <2>4
<1>13. \/ Fits(list, new)
       \/ ~Fits(list, new) /\ room # {}
       \/ ~Fits(list, new) /\ room = {}
  OBVIOUS
<1> HIDE DEF added, D, k
<1> QED
  BY <1>10, <1>11, <1>12, <1>13 DEF added, D

LEMMA AskedInfo ==
    ASSUME NEW info \in Infos, info.retries = 0
    PROVE  Asked(info) = [created |-> info.created, sent |-> 0, retries |-> 1]
<1> DEFINE r == info.retries + 1
<1>1. info = [created |-> info.created, sent |-> info.sent, retries |-> info.retries]
  BY DEF Infos
<1>2. Asked(info) = [info EXCEPT !.retries = r, !.sent = 0]
  BY DEF Asked
<1> HIDE DEF r
<1>3. Asked(info) = [created |-> info.created, sent |-> 0, retries |-> r]
  BY <1>1, <1>2
<1> QED
  BY <1>3 DEF r

\* GetNackBatch keeps every item, and counts those it takes.
LEMMA Batched ==
    ASSUME NEW dom, NEW list \in [dom -> Infos], NEW seq,
           \A q \in dom : list[q].sent = Never <=> list[q].retries = 0
    PROVE  LET due == Due(list, seq)
           IN  AfterBatch(list, due) = [q \in dom |-> IF q \in due THEN Asked(list[q]) ELSE list[q]]
<1> DEFINE due == Due(list, seq)
           marked == [q \in dom |-> IF q \in due THEN Asked(list[q]) ELSE list[q]]
<1>1. ASSUME NEW q \in dom PROVE marked[q].retries < MaxNackRetries
  <2>1. CASE q \in due
    <3>1. list[q].retries = 0
      BY <1>1, <2>1 DEF Due
    <3> QED
      BY <2>1, <3>1, AskedInfo, Constants
  <2>2. CASE q \notin due
    BY <2>2, Constants DEF Infos
  <2> QED
    BY <2>1, <2>2
<1>2. {q \in dom : marked[q].retries < MaxNackRetries} = dom
  BY <1>1
<1>3. AfterBatch(list, due) = Restrict(marked, {q \in dom : marked[q].retries < MaxNackRetries})
  BY DEF AfterBatch
<1>4. AfterBatch(list, due) = [q \in dom |-> marked[q]]
  BY <1>2, <1>3 DEF Restrict
<1> QED
  BY <1>4

--------------------------------------------------------------------------------
(* The invariant                                                           *)

Types ==
    /\ started \in BOOLEAN /\ last_seq \in Seqs
    /\ DOMAIN nack_list \subseteq Seqs /\ nack_list \in [DOMAIN nack_list -> Infos]
    /\ key_frame_list \subseteq Seqs /\ missing \subseteq Seqs

\* What the containers hold is near the newest packet.
Near ==
    /\ \A q \in missing : Behind(last_seq, q) \in 1 .. MaxPacketAge
    /\ \A q \in key_frame_list : Behind(last_seq, q) \in 0 .. MaxPacketAge
    /\ ~started => missing = {} /\ key_frame_list = {}

\* An item of the list was sent, and counted, once it was asked for.
AskedOnce ==
    /\ asked_for \subseteq missing
    /\ \A q \in DOMAIN nack_list :
            /\ nack_list[q].sent = Never <=> nack_list[q].retries = 0
            /\ q \in asked_for <=> nack_list[q].retries = 1

\* A packet that came as the newest is a key frame still, or was removed with all
\* the items before it.
WasNewest ==
    /\ was_newest \subseteq Seqs /\ key_frame_list \subseteq was_newest
    /\ \A a \in was_newest : Behind(last_seq, a) \in 0 .. MaxPacketAge
    /\ \A a \in was_newest \ key_frame_list :
            \A q \in DOMAIN nack_list : Behind(last_seq, q) <= Behind(last_seq, a)
    /\ ~started => was_newest = {}

IInv == Types /\ Near /\ AskedOnce /\ WasNewest /\ ListIsWhatIsMissing

LEMMA InitInv == Init => IInv
<1> SUFFICES ASSUME Init PROVE IInv
  OBVIOUS
<1>1. 0 \in Seqs /\ DOMAIN Nothing = {}
  BY Constants DEF Seqs, Nothing
<1>2. Types /\ Near /\ AskedOnce /\ WasNewest
  BY <1>1, Zenon DEF Init, Types, Near, AskedOnce, WasNewest, Nothing
<1>3. ListIsWhatIsMissing
  BY <1>1, FS_EmptySet, Constants DEF Init, ListIsWhatIsMissing
<1> QED
  BY <1>2, <1>3 DEF IInv

--------------------------------------------------------------------------------
(* A newer packet                                                          *)

\* How far it is ahead, and what that leaves near it
LEMMA NewerIsAhead ==
    ASSUME Types, NEW seq \in Seqs, Accepted(seq), Newer(seq)
    PROVE  Behind(seq, last_seq) \in 1 .. MaxAhead
<1>1. started /\ seq # last_seq /\ ~Lower(seq, last_seq) /\ last_seq \in Seqs
  BY DEF Newer, Types
<1>2. /\ Behind(seq, last_seq) \in 1 .. SeqMod - 1
      /\ Behind(last_seq, seq) \in 1 .. SeqMod - 1
  BY <1>1, BehindType, Constants
<1>3. ~(Behind(last_seq, seq) <= MaxBehind)
  <2>1. Behind(last_seq, seq) <= MaxBehind => Behind(last_seq, seq) \in 1 .. Half
    BY <1>2, Constants
  <2> QED
    BY <1>1, <2>1, LowerIsBehind
<1>4. Behind(seq, last_seq) <= MaxAhead
  BY <1>1, <1>3 DEF Accepted, Behind
<1> QED
  BY <1>2, <1>4, Constants

LEMMA NearRemain ==
    ASSUME IInv, NEW seq \in Seqs, Behind(seq, last_seq) \in 1 .. MaxAhead
    PROVE  /\ \A q \in DOMAIN nack_list : q \in Below(DOMAIN nack_list, Oldest(seq))
                                            <=> Behind(seq, q) > MaxPacketAge
           /\ \A q \in missing : Behind(seq, q) \in 1 .. Half
           /\ \A k \in KeyFrames(seq) : k \in Seqs /\ Behind(seq, k) \in 0 .. MaxPacketAge
<1>1. ASSUME NEW q \in Seqs, Behind(last_seq, q) \in 0 .. MaxPacketAge
      PROVE  /\ Behind(seq, q) \in 1 .. Half
             /\ Lower(q, Oldest(seq)) <=> Behind(seq, q) > MaxPacketAge
  <2>1. Behind(seq, q) \in 1 .. Half
    BY <1>1, MovesOn DEF IInv, Types
  <2>2. Behind(seq, q) \in 0 .. Half
    BY <2>1, Constants
  <2> QED
    BY <2>1, <2>2, OldestIsOldest
<1>2. \A q \in missing : q \in Seqs /\ Behind(last_seq, q) \in 0 .. MaxPacketAge
  BY Constants DEF IInv, Types, Near
<1>3. DOMAIN nack_list \subseteq missing
  BY DEF IInv, ListIsWhatIsMissing
<1>4. ASSUME NEW k \in KeyFrames(seq) PROVE k \in Seqs /\ Behind(seq, k) \in 0 .. MaxPacketAge
  <2>1. ~Lower(k, Oldest(seq)) /\ k \in key_frame_list \cup {seq}
    BY <1>4 DEF KeyFrames, Below
  <2>2. CASE k \in key_frame_list
    <3>1. k \in Seqs /\ Behind(last_seq, k) \in 0 .. MaxPacketAge
      BY <2>2 DEF IInv, Types, Near
    <3> QED
      BY <1>1, <2>1, <3>1, Constants
  <2>3. CASE k = seq
    BY <2>3, BehindType, Constants
  <2> QED
    BY <2>1, <2>2, <2>3
<1> QED
  BY <1>1, <1>2, <1>3, <1>4 DEF Below

\* The packets that came as the newest, when seq is one of them
LEMMA NewestMoves ==
    ASSUME IInv, NEW seq \in Seqs, Behind(seq, last_seq) \in 1 .. MaxAhead,
           NEW came, came = {a \in was_newest \cup {seq} : Behind(seq, a) <= MaxPacketAge}
    PROVE  /\ came \subseteq Seqs /\ KeyFrames(seq) \subseteq came /\ seq \in KeyFrames(seq)
           /\ \A a \in came : Behind(seq, a) \in 0 .. MaxPacketAge
           /\ \A a \in came \ {seq} : Behind(seq, last_seq) <= Behind(seq, a)
           /\ \A a \in came \ KeyFrames(seq) : \A q \in DOMAIN nack_list :
                  Behind(seq, q) <= Behind(seq, a)
<1>1. last_seq \in Seqs /\ WasNewest /\ Near /\ DOMAIN nack_list \subseteq missing /\ missing \subseteq Seqs
  BY DEF IInv, Types, ListIsWhatIsMissing
<1>2. ASSUME NEW q \in Seqs, Behind(last_seq, q) \in 0 .. MaxPacketAge
      PROVE  /\ Behind(seq, q) = Behind(seq, last_seq) + Behind(last_seq, q)
             /\ Behind(seq, q) \in 1 .. Half
             /\ Lower(q, Oldest(seq)) <=> Behind(seq, q) > MaxPacketAge
  <2>1. /\ Behind(seq, q) = Behind(seq, last_seq) + Behind(last_seq, q)
        /\ Behind(seq, q) \in 1 .. Half
    BY <1>1, <1>2, MovesOn
  <2>2. Behind(seq, q) \in 0 .. Half
    BY <2>1, Constants
  <2> QED
    BY <2>1, <2>2, OldestIsOldest
<1>3. Behind(seq, seq) = 0 /\ seq \in KeyFrames(seq)
  <2>1. Behind(seq, seq) = 0 /\ Behind(seq, seq) \in 0 .. Half
    BY BehindType, Constants
  <2>2. ~Lower(seq, Oldest(seq))
    BY <2>1, OldestIsOldest, Constants
  <2> QED
    BY <2>1, <2>2 DEF KeyFrames, Below
<1>4. \A a \in was_newest : a \in Seqs /\ Behind(last_seq, a) \in 0 .. MaxPacketAge
  BY <1>1 DEF WasNewest
<1>5. came \subseteq Seqs /\ \A a \in came : Behind(seq, a) \in 0 .. MaxPacketAge
  BY <1>2, <1>3, <1>4, Constants
<1>6. KeyFrames(seq) \subseteq came
  <2>1. \A k \in KeyFrames(seq) : k \in was_newest \cup {seq} /\ Behind(seq, k) \in 0 .. MaxPacketAge
    BY <1>1, NearRemain DEF KeyFrames, WasNewest
  <2> QED
    BY <2>1, Constants
<1>7. \A a \in came \ {seq} : Behind(seq, last_seq) <= Behind(seq, a)
  BY <1>2, <1>4, Constants
<1>8. ASSUME NEW a \in came \ KeyFrames(seq), NEW q \in DOMAIN nack_list
      PROVE  Behind(seq, q) <= Behind(seq, a)
  <2>1. a \in was_newest /\ Behind(seq, a) <= MaxPacketAge
    BY <1>3
  <2>2. ~Lower(a, Oldest(seq))
    BY <1>2, <1>4, <2>1, Constants
  <2>3. a \notin key_frame_list
    BY <2>2 DEF KeyFrames, Below
  <2>4. Behind(last_seq, q) <= Behind(last_seq, a)
    BY <1>1, <2>1, <2>3 DEF WasNewest
  <2>5. q \in Seqs /\ Behind(last_seq, q) \in 0 .. MaxPacketAge
    BY <1>1, Constants DEF Near
  <2> QED
    BY <1>2, <1>4, <2>1, <2>4, <2>5, Constants
<1> QED
  BY <1>3, <1>5, <1>6, <1>7, <1>8

LEMMA NewerStep ==
    ASSUME IInv, NEW seq \in Seqs, Accepted(seq), Newer(seq)
    PROVE  /\ IInv'
           /\ batch' = {q \in missing' \ given_up' :
                           nack_list'[q].created = SendNackDelay /\ q \notin asked_for}
<1> DEFINE old == Above(nack_list, Oldest(seq))
           dom == DOMAIN nack_list \ Below(DOMAIN nack_list, Oldest(seq))
           new == Between(seq)
           keys == KeyFrames(seq)
           added == AddPacketsToNackList(old, keys, new)
           due == Due(added.list, seq)
           came == {a \in was_newest \cup {seq} : Behind(seq, a) <= MaxPacketAge}
           may == MayGiveUp(dom, new, came, seq)
<1>1. Types /\ Near /\ AskedOnce /\ ListIsWhatIsMissing /\ last_seq \in Seqs
  BY DEF IInv, Types
<1>2. Behind(seq, last_seq) \in 1 .. MaxAhead
  BY <1>1, NewerIsAhead
<1>3. /\ last_seq' = seq /\ started' = started /\ started
      /\ key_frame_list' = added.keys
      /\ nack_list' = AfterBatch(added.list, due)
      /\ batch' = due
      /\ missing' = {q \in (missing \cup new) \ {seq} : Behind(seq, q) <= MaxPacketAge}
      /\ asked_for' = (asked_for \cup due) \cap missing'
      /\ was_newest' = came
      /\ given_up' = {q \in given_up : Behind(seq, q) <= MaxPacketAge}
                       \cup MayGiveUp(Recent(missing \ given_up, seq), new, came, seq)
  BY DEF Newer, Recent, Behind
<1>4. \A q \in new : /\ q \in Seqs /\ Behind(seq, q) \in 1 .. MaxPacketAge /\ q \notin missing
                      /\ Behind(seq, q) < Behind(seq, last_seq)
  <2>1. ASSUME NEW q \in new
        PROVE  /\ q \in Seqs /\ Behind(seq, q) \in 1 .. MaxPacketAge /\ Behind(last_seq, q) > MaxPacketAge
               /\ Behind(seq, q) < Behind(seq, last_seq)
    BY <1>1, <1>2, PassedOver
  <2> QED
    BY <1>1, <2>1, Constants DEF Near
<1>5. /\ \A q \in missing : q \in Seqs /\ Behind(seq, q) \in 1 .. Half
      /\ \A q \in DOMAIN nack_list : q \in dom <=> Behind(seq, q) <= MaxPacketAge
      /\ keys \subseteq Seqs /\ \A k \in keys : Behind(seq, k) \in 0 .. MaxPacketAge
  <2>1. DOMAIN nack_list \subseteq missing /\ missing \subseteq Seqs
    BY <1>1 DEF Types, ListIsWhatIsMissing
  <2> QED
    BY <1>2, <2>1, NearRemain, Constants
<1>6. /\ DOMAIN nack_list \cup given_up = missing /\ DOMAIN nack_list \cap given_up = {}
      /\ asked_for \subseteq missing /\ nack_list \in [DOMAIN nack_list -> Infos]
  BY <1>1 DEF ListIsWhatIsMissing, AskedOnce, Types
<1>7. /\ old = [q \in dom |-> nack_list[q]] /\ old \in [dom -> Infos]
      /\ dom \subseteq Seqs /\ new \subseteq Seqs /\ dom \cap new = {}
  BY <1>4, <1>5, <1>6 DEF Above, Restrict
<1>25. given_up' = {q \in given_up : Behind(seq, q) <= MaxPacketAge} \cup may
  <2>1. Recent(missing \ given_up, seq) = dom
    BY <1>5, <1>6 DEF Recent, Behind
  <2> QED
    BY <1>3, <2>1
<1>26. /\ came \subseteq Seqs /\ keys \subseteq came /\ seq \in keys
       /\ \A a \in came : Behind(seq, a) \in 0 .. MaxPacketAge
       /\ \A a \in came \ {seq} : Behind(seq, last_seq) <= Behind(seq, a)
       /\ \A a \in came \ keys : \A q \in DOMAIN nack_list : Behind(seq, q) <= Behind(seq, a)
  <2> HIDE DEF came
  <2> QED
    BY <1>2, NewestMoves DEF came
<1>27. dom \subseteq DOMAIN nack_list
  OBVIOUS
<1> HIDE DEF dom, new, keys, came, may
<1>8. seq \notin missing \cup new
  <2>1. Behind(seq, seq) = 0
    BY BehindType
  <2> QED
    BY <1>4, <1>5, <2>1, Constants
<1>9. /\ missing' = {q \in missing : Behind(seq, q) <= MaxPacketAge} \cup new
      /\ dom = DOMAIN nack_list \cap missing'
      /\ \A q \in missing' : q \in Seqs /\ Behind(seq, q) \in 1 .. MaxPacketAge
  <2>1. missing' = {q \in missing : Behind(seq, q) <= MaxPacketAge} \cup new
    BY <1>3, <1>4, <1>8, Constants
  <2> QED
    BY <1>4, <1>5, <1>6, <1>27, <2>1, Constants
<1>10. /\ added.keys \subseteq keys
       /\ DOMAIN added.list \subseteq dom \cup new
       /\ added.list \in [DOMAIN added.list -> Infos]
       /\ \A q \in DOMAIN added.list : added.list[q] = IF q \in dom THEN old[q] ELSE New
       /\ Cardinality(DOMAIN added.list) <= MaxNackPackets
  <2> HIDE DEF old, added
  <2>1. \A k \in keys : Behind(seq, k) \in 0 .. Half
    BY <1>5, Constants
  <2>2. dom \in SUBSET Seqs /\ new \in SUBSET Seqs /\ keys \in SUBSET Seqs
        /\ old \in [dom -> Infos] /\ dom \cap new = {}
    BY <1>5, <1>7
  <2>3. AddsItems(dom, old, new, keys)
    BY <2>1, <2>2, Added
  <2> QED
    BY <2>3 DEF added, AddsItems
<1>28. /\ DOMAIN added.list = (dom \cup new) \ may /\ may \subseteq dom \cup new
       /\ \A a \in keys \ added.keys : \A q \in DOMAIN added.list \ new :
              Behind(seq, q) <= Behind(seq, a)
       /\ seq \notin added.keys => DOMAIN added.list = {}
  <2> HIDE DEF old, added
  <2>1. \A q \in dom \cup came : Behind(seq, q) \in 0 .. Half
    <3>1. \A q \in dom : q \in missing
      BY <1>6, <1>27
    <3>2. \A q \in dom : Behind(seq, q) \in 0 .. Half
      BY <1>5, <3>1, Constants
    <3>3. \A a \in came : Behind(seq, a) \in 0 .. Half
      BY <1>26, Constants
    <3> QED
      BY <3>2, <3>3
  <2>2. \A a \in came \ keys : \A q \in dom : Behind(seq, q) <= Behind(seq, a)
    BY <1>26, <1>27
  <2>3. /\ dom \in SUBSET Seqs /\ new \in SUBSET Seqs /\ came \in SUBSET Seqs
        /\ keys \in SUBSET came /\ old \in [dom -> Infos] /\ dom \cap new = {}
    BY <1>7, <1>26
  <2>4. KeepsItems(seq, dom, old, new, came, keys)
    BY <2>1, <2>2, <2>3, GivesUpFew
  <2> QED
    BY <1>26, <2>4 DEF added, may, KeepsItems
<1> DEFINE D == DOMAIN added.list
           list == added.list
<1> HIDE DEF old, added
<1>11. /\ D \subseteq missing' /\ D \subseteq Seqs /\ D \cap new = D \ dom
       /\ \A q \in D : list[q] = IF q \in dom THEN nack_list[q] ELSE New
  <2>1. D \subseteq dom \cup new /\ dom \cap new = {}
    BY <1>7, <1>10
  <2>2. \A q \in D : list[q] = IF q \in dom THEN old[q] ELSE New
    BY <1>10
  <2>3. \A q \in dom : old[q] = nack_list[q]
    BY <1>7
  <2> QED
    BY <1>7, <1>9, <2>1, <2>2, <2>3
<1>13. ASSUME NEW q \in D
       PROVE  /\ list[q] \in Infos
              /\ list[q].sent = Never <=> list[q].retries = 0
              /\ q \in asked_for <=> list[q].retries = 1
  <2>1. CASE q \in dom
    BY <1>1, <1>6, <1>9, <1>11, <2>1 DEF AskedOnce
  <2>2. CASE q \notin dom
    <3>1. q \notin asked_for
      BY <1>4, <1>6, <1>11, <2>2
    <3> QED
      BY <1>11, NewInfo, <2>2, <3>1
  <2> QED
    BY <2>1, <2>2
<1>14. \A q \in D : q \in due <=> list[q].created >= SendNackDelay /\ list[q].sent = Never
  <2>1. ASSUME NEW q \in D PROVE Higher(seq, q)
    BY <1>9, <1>11, LowerIsBehind, Constants
  <2> QED
    BY <2>1 DEF Due
<1>15. list \in [D -> Infos]
  BY <1>10
<1>16. nack_list' = [q \in D |-> IF q \in due THEN Asked(list[q]) ELSE list[q]]
  <2>1. \A q \in D : list[q].sent = Never <=> list[q].retries = 0
    BY <1>13
  <2> HIDE DEF list, D
  <2> QED
    BY <1>3, <1>15, <2>1, Batched DEF list
<1>17. due \subseteq D /\ due \subseteq missing' /\ due \cap asked_for = {}
  <2>1. due \subseteq D
    BY DEF Due
  <2> QED
    BY <1>11, <1>13, <1>14, <2>1
<1> HIDE DEF list, D, due
<1>18. ASSUME NEW q \in D
       PROVE  /\ nack_list'[q] \in Infos /\ nack_list'[q].created = list[q].created
              /\ nack_list'[q].sent = Never <=> nack_list'[q].retries = 0
              /\ q \in asked_for' <=> nack_list'[q].retries = 1
  <2>1. q \in missing' /\ list[q] \in Infos
    BY <1>11, <1>13
  <2>2. CASE q \in due
    <3>1. nack_list'[q] = [created |-> list[q].created, sent |-> 0, retries |-> 1]
      BY <1>13, <1>14, <1>16, <2>1, <2>2, AskedInfo
    <3>2. q \in asked_for'
      BY <1>3, <2>1, <2>2
    <3>3. 0 # Never /\ 0 \in 0 .. Never /\ list[q].created \in 0 .. SendNackDelay
      BY <2>1, Constants DEF Never, Infos
    <3> QED
      BY <3>1, <3>2, <3>3 DEF Infos
  <2>3. CASE q \notin due
    <3>1. nack_list'[q] = list[q]
      BY <1>16, <2>3
    <3>2. q \in asked_for' <=> q \in asked_for
      BY <1>3, <2>1, <2>3
    <3> QED
      BY <1>13, <3>1, <3>2
  <2> QED
    BY <2>2, <2>3
<1>19. Types'
  <2>1. DOMAIN nack_list' = D /\ nack_list' \in [D -> Infos]
    BY <1>16, <1>18
  <2>2. key_frame_list' \subseteq Seqs /\ missing' \subseteq Seqs
    BY <1>3, <1>5, <1>9, <1>10
  <2> QED
    BY <1>1, <1>3, <1>11, <2>1, <2>2 DEF Types
<1>20. Near'
  BY <1>3, <1>5, <1>9, <1>10, Constants DEF Near, Behind
<1>21. AskedOnce'
  BY <1>3, <1>16, <1>18 DEF AskedOnce
<1>22. D \cup given_up' = missing' /\ D \cap given_up' = {}
  <2>1. D = (dom \cup new) \ may /\ may \subseteq dom \cup new
    BY <1>28 DEF D
  <2>2. \A q \in given_up : q \in missing /\ q \notin dom /\ q \notin new
    BY <1>4, <1>6, <1>27
  <2>3. missing' = {q \in given_up : Behind(seq, q) <= MaxPacketAge} \cup dom \cup new
    <3>1. \A q \in missing : Behind(seq, q) <= MaxPacketAge => q \in given_up \/ q \in dom
      BY <1>5, <1>6
    <3> QED
      BY <1>9, <2>2, <3>1
  <2> QED
    BY <1>25, <2>1, <2>2, <2>3
<1>23. ListIsWhatIsMissing'
  <2>1. DOMAIN nack_list' = D /\ Cardinality(D) <= MaxNackPackets
    BY <1>10, <1>16 DEF D
  <2> QED
    BY <1>22, <2>1 DEF ListIsWhatIsMissing
<1>24. batch' = {q \in missing' \ given_up' :
                    nack_list'[q].created = SendNackDelay /\ q \notin asked_for}
  <2>1. missing' \ given_up' = D
    BY <1>22
  <2>2. ASSUME NEW q \in D
        PROVE  q \in due <=> nack_list'[q].created = SendNackDelay /\ q \notin asked_for
    <3>1. list[q].created \in 0 .. SendNackDelay /\ list[q].retries \in {0, 1}
      BY <1>13 DEF Infos
    <3>2. q \notin asked_for <=> list[q].sent = Never
      BY <1>13, <3>1
    <3>3. list[q].created >= SendNackDelay <=> nack_list'[q].created = SendNackDelay
      BY <1>18, <3>1, Constants
    <3> QED
      BY <1>14, <3>2, <3>3
  <2> QED
    BY <1>3, <1>17, <2>1, <2>2
<1>29. WasNewest'
  <2>1. was_newest' = came /\ key_frame_list' = added.keys /\ DOMAIN nack_list' = D
    BY <1>3, <1>16
  <2>2. ASSUME NEW a \in came \ added.keys, NEW q \in D
        PROVE  Behind(seq, q) <= Behind(seq, a)
    <3>1. a # seq
      BY <1>28, <2>2 DEF D
    <3>2. CASE q \in new
      <4>1. Behind(seq, q) \in Int /\ Behind(seq, a) \in Int /\ Behind(seq, last_seq) \in Int
        BY <1>2, <1>4, <1>26, <3>2, Constants
      <4> QED
        BY <1>4, <1>26, <3>1, <3>2, <4>1
    <3>3. CASE q \notin new /\ a \in keys
      BY <1>28, <3>3 DEF D
    <3>4. CASE q \notin new /\ a \notin keys
      <4>1. q \in DOMAIN nack_list
        BY <1>11, <1>27, <3>4
      <4> QED
        BY <1>26, <3>4, <4>1
    <3> QED
      BY <3>2, <3>3, <3>4
  <2> QED
    BY <1>3, <1>10, <1>26, <2>1, <2>2 DEF WasNewest, Behind
<1> QED
  BY <1>19, <1>20, <1>21, <1>23, <1>24, <1>29 DEF IInv

--------------------------------------------------------------------------------
(* The other steps                                                         *)

LEMMA OlderStep ==
    ASSUME IInv, NEW seq \in Seqs, Older(seq)
    PROVE  IInv' /\ result' = (seq \in asked_for /\ seq \notin given_up)
<1>1. Types /\ Near /\ AskedOnce /\ WasNewest /\ ListIsWhatIsMissing
  BY DEF IInv
<1>2. /\ nack_list' = [q \in DOMAIN nack_list \ {seq} |-> nack_list[q]]
      /\ missing' = missing \ {seq} /\ asked_for' = asked_for \ {seq}
      /\ given_up' = given_up \ {seq}
      /\ UNCHANGED <<started, last_seq, key_frame_list, was_newest>>
      /\ result' = (seq \in DOMAIN nack_list /\ nack_list[seq].retries # 0)
  <2>1. (DOMAIN nack_list) \cap (DOMAIN nack_list \ {seq}) = DOMAIN nack_list \ {seq}
    OBVIOUS
  <2> QED
    BY <2>1 DEF Older, Restrict
<1>3. Types' /\ Near'
  BY <1>1, <1>2 DEF Types, Near, Behind
<1>4. AskedOnce' /\ WasNewest'
  BY <1>1, <1>2 DEF AskedOnce, WasNewest, Behind
<1>5. ListIsWhatIsMissing'
  <2>1. DOMAIN nack_list \in SUBSET Seqs /\ DOMAIN nack_list' \in SUBSET DOMAIN nack_list
    BY <1>1, <1>2 DEF Types
  <2>2. IsFiniteSet(DOMAIN nack_list)
    BY <2>1, SubsetOfSeqs
  <2>3. DOMAIN nack_list' \in SUBSET Seqs
    BY <2>1
  <2>4. /\ Cardinality(DOMAIN nack_list') <= Cardinality(DOMAIN nack_list)
        /\ Cardinality(DOMAIN nack_list') \in Nat /\ Cardinality(DOMAIN nack_list) \in Nat
    BY <2>1, <2>2, <2>3, FS_Subset, SubsetOfSeqs
  <2>5. Cardinality(DOMAIN nack_list') <= MaxNackPackets
    BY <1>1, <2>4, Constants DEF ListIsWhatIsMissing
  <2> QED
    BY <1>1, <1>2, <2>5 DEF ListIsWhatIsMissing
<1>6. (seq \in DOMAIN nack_list /\ nack_list[seq].retries # 0)
        <=> seq \in asked_for /\ seq \notin given_up
  BY <1>1 DEF Types, Infos, AskedOnce, ListIsWhatIsMissing
<1>7. result' = (seq \in asked_for /\ seq \notin given_up)
  BY <1>2, <1>6, Zenon
<1> QED
  BY <1>3, <1>4, <1>5, <1>7 DEF IInv

LEMMA FirstStep ==
    ASSUME IInv, NEW seq \in Seqs, First(seq)
    PROVE  IInv'
<1>1. Types /\ Near /\ AskedOnce /\ WasNewest /\ ListIsWhatIsMissing
  BY DEF IInv
<1>2. /\ ~started /\ started' = TRUE /\ last_seq' = seq
      /\ missing = {} /\ key_frame_list' = {seq} /\ was_newest' = {seq}
      /\ UNCHANGED <<nack_list, missing, asked_for, given_up>>
  BY <1>1 DEF First, Near
<1>3. Behind(seq, seq) = 0
  BY BehindType
<1>4. Types' /\ Near'
  BY <1>1, <1>2, <1>3, Constants DEF Types, Near, Behind
<1>5. AskedOnce' /\ ListIsWhatIsMissing'
  BY <1>1, <1>2 DEF AskedOnce, ListIsWhatIsMissing
<1>6. WasNewest'
  BY <1>2, <1>3, Constants DEF WasNewest, Behind
<1> QED
  BY <1>4, <1>5, <1>6 DEF IInv

LEMMA TickStep ==
    ASSUME IInv, Tick
    PROVE  IInv'
<1>1. Types /\ Near /\ AskedOnce /\ WasNewest /\ ListIsWhatIsMissing
  BY DEF IInv
<1>2. /\ nack_list' = [q \in DOMAIN nack_list |-> Older1(nack_list[q])]
      /\ UNCHANGED <<started, last_seq, key_frame_list, missing, asked_for, was_newest, given_up>>
  BY DEF Tick, history
<1>3. ASSUME NEW info \in Infos
      PROVE  /\ Older1(info) \in Infos /\ Older1(info).retries = info.retries
             /\ Older1(info).sent = Never <=> info.sent = Never
  <2> DEFINE c == IF info.created < SendNackDelay THEN info.created + 1 ELSE info.created
             t == IF info.sent < AskAgain THEN info.sent + 1 ELSE info.sent
  <2>1. info = [created |-> info.created, sent |-> info.sent, retries |-> info.retries]
    BY DEF Infos
  <2>2. Older1(info) = [info EXCEPT !.created = c, !.sent = t]
    BY DEF Older1
  <2>3. c \in 0 .. SendNackDelay /\ t \in 0 .. Never /\ (t = Never <=> info.sent = Never)
        /\ info.retries \in {0, 1}
    BY Constants DEF Infos, Never
  <2> HIDE DEF c, t
  <2>4. Older1(info) = [created |-> c, sent |-> t, retries |-> info.retries]
    BY <2>1, <2>2
  <2> QED
    BY <2>3, <2>4 DEF Infos
<1>4. Types' /\ AskedOnce'
  BY <1>1, <1>2, <1>3 DEF Types, AskedOnce
<1>5. Near' /\ WasNewest' /\ ListIsWhatIsMissing'
  BY <1>1, <1>2 DEF Near, WasNewest, Behind, ListIsWhatIsMissing
<1> QED
  BY <1>4, <1>5 DEF IInv

LEMMA StepInv == IInv /\ [Next]_vars => IInv'
<1> SUFFICES ASSUME IInv, [Next]_vars PROVE IInv'
  OBVIOUS
<1>1. ASSUME NEW seq \in Seqs, Accepted(seq), ReceivePacket(seq) PROVE IInv'
  <2>1. CASE First(seq)
    BY <2>1, FirstStep
  <2>2. CASE Same(seq)
    BY <2>2 DEF Same, members, history, IInv, Types, Near, AskedOnce, WasNewest, ListIsWhatIsMissing, Behind
  <2>3. CASE Older(seq)
    BY <2>3, OlderStep
  <2>4. CASE Newer(seq)
    BY <1>1, <2>4, NewerStep
  <2> QED
    BY <1>1, <2>1, <2>2, <2>3, <2>4 DEF ReceivePacket
<1>2. CASE Tick
  BY <1>2, TickStep
<1>3. CASE UNCHANGED vars
  BY <1>3 DEF vars, members, history, IInv, Types, Near, AskedOnce, WasNewest, ListIsWhatIsMissing, Behind
<1> QED
  BY <1>1, <1>2, <1>3 DEF Next

--------------------------------------------------------------------------------
(* Theorems                                                                *)

THEOREM Invariance == Spec => []IInv
BY InitInv, StepInv, PTL DEF Spec

\* nack_list_ and key_frame_list_ hold only keys that SeqLowerThan orders.
THEOREM ContainersAreOrdered == Spec => []KeysAreOrdered
<1>1. IInv => KeysAreOrdered
  BY Constants DEF IInv, Near, ListIsWhatIsMissing, KeysAreOrdered, Behind
<1> QED
  BY <1>1, Invariance, PTL

\* nack_list_ is what is missing, but for what AddPacketsToNackList dropped to
\* stay within kMaxNackPackets.
THEOREM NackListIsWhatIsMissing == Spec => []ListIsWhatIsMissing
<1>1. IInv => ListIsWhatIsMissing
  BY DEF IInv
<1> QED
  BY <1>1, Invariance, PTL

\* GetNackBatch asks for a missing number when it is due, neither before nor again.
THEOREM AsksInTime == Spec => AskedInTime
<1>1. ASSUME IInv, [Next]_vars, NEW seq \in Seqs, Newer(seq)
      PROVE  batch' = {q \in missing' \ given_up' :
                          nack_list'[q].created = SendNackDelay /\ q \notin asked_for}
  <2>1. started /\ seq # last_seq /\ last_seq' = seq
    BY <1>1 DEF Newer
  <2>2. PICK s \in Seqs : Accepted(s) /\ ReceivePacket(s)
    BY <1>1, <2>1 DEF Next, Tick, vars, members
  <2>3. s = seq
    BY <2>1, <2>2 DEF ReceivePacket, First, Same, Older, Newer, members
  <2> QED
    BY <1>1, <2>2, <2>3, NewerStep
<1>2. IInv /\ [Next]_vars =>
        \A seq \in Seqs : Newer(seq) =>
            batch' = {q \in missing' \ given_up' :
                         nack_list'[q].created = SendNackDelay /\ q \notin asked_for}
  BY <1>1
<1> QED
  BY <1>2, Invariance, PTL DEF Spec, AskedInTime

\* ReceivePacket returns true for the packets that were asked for, and no others.
THEOREM CallsRetransmitted == Spec => RetransmittedWasAsked
<1>1. IInv => \A seq \in Seqs : Older(seq) => result' = (seq \in asked_for /\ seq \notin given_up)
  BY OlderStep
<1> QED
  BY <1>1, Invariance, PTL DEF RetransmittedWasAsked

================================================================================
