----------------------------- MODULE RtpStreamProofs -----------------------------
(***************************************************************************)
(* Proofs about RtpStreamReceiver, for any range of sequence numbers, any  *)
(* windows within it and any packets: the extended sequence number, the    *)
(* re-sync of a restarted sender, the loss in the reports, and that the    *)
(* NackGenerator keeps up with the stream.  And about the RateCalculator   *)
(* of a stream, for any number and size of its items, any packets and any  *)
(* times.                                                                  *)
(*                                                                         *)
(* A sum over a set is a fold, a recursive function; what it computes is   *)
(* shown by induction over the subsets of a finite set (SetInduction).     *)
(***************************************************************************)
EXTENDS RtpStreamReceiver, RateCalculator, FiniteSetTheorems, SequenceTheorems,
        WellFoundedInduction, TLAPS

--------------------------------------------------------------------------------
(* Arithmetic modulo SeqMod                                                *)

LEMMA Remainder ==
    ASSUME NEW M \in Nat \ {0}, NEW x \in Int, NEW q \in Int, NEW r \in 0 .. M - 1, x = q * M + r
    PROVE  x % M = r
  OBVIOUS

LEMMA Division ==
    ASSUME NEW M \in Nat \ {0}, NEW x \in Int
    PROVE  x = (x \div M) * M + (x % M) /\ x \div M \in Int /\ x % M \in 0 .. M - 1
  OBVIOUS

\* The remainders of two numbers less than M apart
LEMMA Shift ==
    ASSUME NEW M \in Nat \ {0}, NEW x \in Int, NEW y \in Int, y - x \in 1 - M .. M - 1
    PROVE  y % M = IF (x % M) + (y - x) < 0 THEN (x % M) + (y - x) + M
                   ELSE IF (x % M) + (y - x) < M THEN (x % M) + (y - x)
                   ELSE (x % M) + (y - x) - M
<1> DEFINE q == x \div M
           r == x % M
<1>1. x = q * M + r /\ q \in Int /\ r \in 0 .. M - 1
  BY Division
<1> HIDE DEF q, r
<1>2. CASE r + (y - x) < 0
  <2> DEFINE k == q - 1
             t == r + (y - x) + M
  <2>1. y = k * M + t /\ t \in 0 .. M - 1 /\ k \in Int
    BY <1>1, <1>2
  <2> HIDE DEF k, t
  <2>2. y % M = t
    BY <2>1, Remainder
  <2> QED
    BY <1>1, <1>2, <2>2 DEF r, t
<1>3. CASE r + (y - x) \in 0 .. M - 1
  <2> DEFINE t == r + (y - x)
  <2>1. y = q * M + t /\ t \in 0 .. M - 1
    BY <1>1, <1>3
  <2> HIDE DEF t
  <2>2. y % M = t
    BY <1>1, <2>1, Remainder
  <2> QED
    BY <1>1, <1>3, <2>2 DEF r, t
<1>4. CASE r + (y - x) >= M
  <2> DEFINE k == q + 1
             t == r + (y - x) - M
  <2>1. y = k * M + t /\ t \in 0 .. M - 1 /\ k \in Int
    BY <1>1, <1>4
  <2> HIDE DEF k, t
  <2>2. y % M = t
    BY <2>1, Remainder
  <2> QED
    BY <1>1, <1>4, <2>2 DEF r, t
<1> QED
  BY <1>1, <1>2, <1>3, <1>4

\* The remainders may be taken before the difference.
LEMMA DifferenceOfRemainders ==
    ASSUME NEW M \in Nat \ {0}, NEW x \in Int, NEW y \in Int
    PROVE  ((x % M) - (y % M)) % M = (x - y) % M
<1> DEFINE q == x \div M
           r == x % M
           k == y \div M
           t == y % M
           c == r - t
           d == x - y
           p == c \div M
           s == c % M
           e == q - k + p
<1>1. x = q * M + r /\ q \in Int /\ r \in 0 .. M - 1
  BY Division
<1>2. y = k * M + t /\ k \in Int /\ t \in 0 .. M - 1
  BY Division
<1> HIDE DEF q, r, k, t
<1>3. c \in Int
  BY <1>1, <1>2
<1> HIDE DEF c
<1>4. c = p * M + s /\ p \in Int /\ s \in 0 .. M - 1
  BY <1>3, Division
<1> HIDE DEF p, s
<1>5. d = e * M + s /\ e \in Int /\ d \in Int
  BY <1>1, <1>2, <1>4 DEF c
<1> HIDE DEF d, e
<1>6. d % M = s
  BY <1>4, <1>5, Remainder
<1> QED
  BY <1>6 DEF d, s, c, r, t

--------------------------------------------------------------------------------
(* The invariant of RtpStream                                              *)

Last == arrived[Len(arrived)]

\* The first packet is always accepted, and starts the stream.
Begun ==
    /\ started <=> arrived # <<>>
    /\ started <=> accepted # {}
    /\ started => First \in accepted
    /\ ~started => cycles = 0 /\ received = 0 /\ ~resynced

\* One of the accepted packets is the newest one.
HasNewest ==
    /\ IsFiniteSet(accepted)
    /\ started => \E p \in accepted : \A q \in accepted : p >= q

\* The stream is at the last packet, has it in the window behind, or waits for
\* the one that follows it.
Follows ==
    started => \/ udelta(Seq16(Last)) = 0
               \/ IsMisorder(Seq16(Last))
               \/ bad_seq = (Seq16(Last) + 1) % SeqMod

\* The members are those of the newest packet and of the first one.
Extended ==
    started /\ ~resynced =>
        /\ max_seq = Seq16(Newest) /\ base_seq = Seq16(First)
        /\ ExtendedRight

\* The total lost is what the last report made of its two counters.
Reported ==
    /\ packets_lost = IF expected_prior > received_prior THEN expected_prior - received_prior ELSE 0
    /\ reported_packet_lost = packets_lost
    /\ received_prior <= received
    /\ Cardinality(accepted) <= received

IInv == TypeOK /\ Begun /\ HasNewest /\ Follows /\ Extended /\ Reported

--------------------------------------------------------------------------------

\* The windows fit into the range of sequence numbers.
LEMMA Windows ==
    /\ SeqMod \in Nat \ {0} /\ MaxDropout \in Nat \ {0} /\ MaxMisorder \in Nat \ {0}
    /\ MaxSkew \in Nat \ {0}
    /\ 1 < MaxDropout /\ MaxDropout + MaxMisorder < SeqMod /\ MaxMisorder <= MaxDropout
    /\ MaxSkew <= SeqMod - MaxDropout
BY SeqModAssumption

LEMMA SeqOf ==
    ASSUME NEW p \in Positions
    PROVE  p \in Nat /\ Seq16(p) \in 0 .. SeqMod - 1
BY Windows, PositionsAssumption, Division DEF Seq16

LEMMA MaxIsUpper ==
    ASSUME NEW S \in SUBSET Int, NEW m \in S, \A q \in S : m >= q
    PROVE  Max(S) = m
<1>1. \A x \in S : (\A q \in S : x >= q) => x = m
  OBVIOUS
<1> QED
  BY <1>1 DEF Max

LEMMA MaxWithZero ==
    ASSUME NEW x \in Int
    PROVE  Max({x, 0}) = IF x > 0 THEN x ELSE 0
<1>1. CASE x > 0
  BY <1>1, MaxIsUpper
<1>2. CASE ~(x > 0)
  BY <1>2, MaxIsUpper
<1> QED
  BY <1>1, <1>2

\* The newest packet after one more is accepted
LEMMA NewestOfMore ==
    ASSUME accepted \subseteq Positions, NEW p \in Positions,
           NEW m \in accepted, \A q \in accepted : m >= q
    PROVE  /\ Newest = m
           /\ Max(accepted \cup {p}) = IF p > m THEN p ELSE m
           /\ \E n \in accepted \cup {p} : \A q \in accepted \cup {p} : n >= q
<1> USE PositionsAssumption
<1>1. Newest = m
  BY MaxIsUpper DEF Newest
<1>2. CASE p > m
  <2>1. p \in accepted \cup {p} /\ \A q \in accepted \cup {p} : p >= q
    BY <1>2
  <2>2. Max(accepted \cup {p}) = p
    BY <2>1, MaxIsUpper
  <2> QED
    BY <1>1, <1>2, <2>1, <2>2
<1>3. CASE ~(p > m)
  <2>1. m \in accepted \cup {p} /\ \A q \in accepted \cup {p} : m >= q
    BY <1>3
  <2>2. Max(accepted \cup {p}) = m
    BY <2>1, MaxIsUpper
  <2> QED
    BY <1>1, <1>3, <2>1, <2>2
<1> QED
  BY <1>2, <1>3

\* UpdateSequence's comparison, which sees 16 bits, is that of the positions.
LEMMA DeltaOfPositions ==
    ASSUME NEW p \in Nat, NEW n \in Nat, max_seq = Seq16(n)
    PROVE  udelta(Seq16(p)) = (p - n) % SeqMod
<1>1. SeqMod \in Nat \ {0} /\ p \in Int /\ n \in Int
  BY Windows
<1>2. ((p % SeqMod) - (n % SeqMod)) % SeqMod = (p - n) % SeqMod
  BY <1>1, DifferenceOfRemainders, Zenon
<1> QED
  BY <1>2 DEF udelta, Seq16

\* In order: the packet is the newest one or ahead of it, and its cycle is
\* counted right.  Misordered: it is behind.
LEMMA WindowsTellApart ==
    ASSUME NEW p \in Nat, NEW n \in Nat, p - n \in -MaxSkew .. MaxSkew, max_seq = Seq16(n),
           cycles \in Nat
    PROVE  /\ IsInOrder(Seq16(p)) =>
                /\ p >= n
                /\ CyclesAfter(max_seq, Seq16(p)) + Seq16(p) = cycles + max_seq + (p - n)
           /\ IsMisorder(Seq16(p)) => p < n
<1> DEFINE d == p - n
<1>1. d \in 1 - SeqMod .. SeqMod - 1 /\ d \in -MaxSkew .. MaxSkew
  BY Windows
<1>2. udelta(Seq16(p)) = d % SeqMod
  BY DeltaOfPositions
<1>3. d % SeqMod = IF d >= 0 THEN d ELSE d + SeqMod
  BY <1>1, Windows
<1>4. ASSUME IsInOrder(Seq16(p)) PROVE d >= 0 /\ d < MaxDropout
  BY <1>1, <1>2, <1>3, <1>4, Windows DEF IsInOrder
<1>5. ASSUME IsMisorder(Seq16(p)) PROVE d < 0
  BY <1>1, <1>2, <1>3, <1>5, Windows DEF IsMisorder
<1>7. Seq16(p) = IF Seq16(n) + (p - n) < 0 THEN Seq16(n) + (p - n) + SeqMod
                 ELSE IF Seq16(n) + (p - n) < SeqMod THEN Seq16(n) + (p - n)
                 ELSE Seq16(n) + (p - n) - SeqMod
  <2>1. /\ SeqMod \in Nat \ {0} /\ p \in Int /\ n \in Int
        /\ p - n \in 1 - SeqMod .. SeqMod - 1
    BY <1>1, Windows
  <2> QED
    BY <2>1, Shift, Zenon DEF Seq16
<1>8. Seq16(n) \in 0 .. SeqMod - 1
  BY Windows, Division DEF Seq16
<1>9. ASSUME IsInOrder(Seq16(p))
      PROVE  CyclesAfter(max_seq, Seq16(p)) + Seq16(p) = cycles + max_seq + d
  <2>1. CASE Seq16(n) + d \in 0 .. SeqMod - 1
    BY <1>4, <1>7, <1>8, <1>9, <2>1, Windows DEF CyclesAfter
  <2>2. CASE Seq16(n) + d >= SeqMod
    <3>1. Seq16(p) = Seq16(n) + d - SeqMod
      BY <1>7, <1>8, <2>2, Windows
    <3>2. Seq16(p) < max_seq
      BY <1>4, <1>8, <1>9, <3>1, Windows
    <3> QED
      BY <1>8, <3>1, <3>2, Windows DEF CyclesAfter
  <2>3. d >= 0
    BY <1>4, <1>9
  <2> QED
    BY <1>1, <1>8, <2>1, <2>2, <2>3, Windows
<1> QED
  BY <1>1, <1>4, <1>5, <1>9

\* The number after that of the last packet is in order or waited for.
LEMMA NextIsAccepted ==
    ASSUME IInv, started, NEW p \in Positions, Seq16(Last + 1) = Seq16(p)
    PROVE  IsInOrder(Seq16(p)) \/ IsMisorder(Seq16(p)) \/ Seq16(p) = bad_seq
<1> USE Windows
<1>1. Last \in Positions /\ Last \in Nat /\ Seq16(Last) \in 0 .. SeqMod - 1
  <2>1. arrived \in Seq(Positions) /\ arrived # <<>>
    BY DEF IInv, Begun, TypeOK
  <2>2. Len(arrived) \in 1 .. Len(arrived)
    BY <2>1, EmptySeq, LenProperties
  <2>3. Last \in Positions
    BY <2>1, <2>2, ElementOfSeq DEF Last
  <2> QED
    BY <2>3, SeqOf
<1>2. Seq16(p) = IF Seq16(Last) + 1 = SeqMod THEN 0 ELSE Seq16(Last) + 1
  <2> DEFINE y == Last + 1
             k == y - Last
  <2>1. /\ SeqMod \in Nat \ {0} /\ Last \in Int /\ y \in Int /\ k = 1
        /\ k \in 1 - SeqMod .. SeqMod - 1
    BY <1>1
  <2> HIDE DEF y
  <2>2. Seq16(y) = IF Seq16(Last) + k < 0 THEN Seq16(Last) + k + SeqMod
                   ELSE IF Seq16(Last) + k < SeqMod THEN Seq16(Last) + k
                   ELSE Seq16(Last) + k - SeqMod
    BY <2>1, Shift, Zenon DEF Seq16
  <2> HIDE DEF k
  <2> QED
    BY <1>1, <2>1, <2>2 DEF y
<1>3. max_seq \in 0 .. SeqMod - 1
  BY DEF IInv, TypeOK
<1>4. bad_seq = (Seq16(Last) + 1) % SeqMod => Seq16(p) = bad_seq
  <2>1. (Seq16(Last) + 1) % SeqMod = IF Seq16(Last) + 1 = SeqMod THEN 0 ELSE Seq16(Last) + 1
    BY <1>1
  <2> QED
    BY <1>2, <2>1
<1>5. udelta(Seq16(p)) = IF udelta(Seq16(Last)) + 1 = SeqMod THEN 0 ELSE udelta(Seq16(Last)) + 1
  <2>1. ASSUME NEW s \in 0 .. SeqMod - 1
        PROVE  udelta(s) = IF s >= max_seq THEN s - max_seq ELSE s - max_seq + SeqMod
    BY <1>3, <2>1 DEF udelta
  <2>2. Seq16(p) \in 0 .. SeqMod - 1
    BY SeqOf
  <2> QED
    BY <1>1, <1>2, <1>3, <2>1, <2>2
<1>6. CASE udelta(Seq16(Last)) = 0
  BY <1>5, <1>6 DEF IsInOrder
<1>7. CASE IsMisorder(Seq16(Last))
  <2>1. udelta(Seq16(Last)) \in 0 .. SeqMod - 1
    <3>1. SeqMod \in Nat \ {0} /\ Seq16(Last) - max_seq \in Int
      BY <1>1, <1>3
    <3> QED
      BY <3>1, Division, Zenon DEF udelta
  <2> QED
    BY <1>5, <1>7, <2>1 DEF IsMisorder, IsInOrder
<1> QED
  BY <1>4, <1>6, <1>7 DEF IInv, Follows

--------------------------------------------------------------------------------
(* The invariant is inductive                                              *)

LEMMA InitInv == Init => IInv
<1> SUFFICES ASSUME Init PROVE IInv
  OBVIOUS
<1> USE DEF Init
<1>1. TypeOK
  <2>1. started \in BOOLEAN /\ resynced \in BOOLEAN
    BY Zenon
  <2>2. /\ max_seq \in 0 .. SeqMod - 1 /\ base_seq \in 0 .. SeqMod - 1
        /\ bad_seq \in 0 .. SeqMod - 1 \cup {NoSeq}
    BY Windows
  <2>3. accepted \subseteq Positions /\ arrived \in Seq(Positions)
    BY EmptySeq
  <2> QED
    BY <2>1, <2>2, <2>3 DEF TypeOK
<1>2. Begun /\ Follows /\ Extended
  BY DEF Begun, Follows, Extended
<1>3. HasNewest /\ Reported
  BY FS_EmptySet DEF HasNewest, Reported
<1> QED
  BY <1>1, <1>2, <1>3 DEF IInv

\* One more packet in the history
LEMMA Arrival ==
    ASSUME arrived \in Seq(Positions), NEW p \in Positions, arrived' = Append(arrived, p)
    PROVE  /\ arrived' \in Seq(Positions) /\ arrived' # <<>>
           /\ Last' = p
           /\ First' = IF arrived = <<>> THEN p ELSE First
<1>1. /\ arrived' \in Seq(Positions) /\ arrived' # <<>>
      /\ Len(arrived') = Len(arrived) + 1
      /\ arrived'[Len(arrived) + 1] = p
      /\ \A i \in 1 .. Len(arrived) : arrived'[i] = arrived[i]
  BY AppendProperties
<1>2. Last' = p
  BY <1>1 DEF Last
<1>3. CASE arrived = <<>>
  <2>1. Len(arrived) = 0
    BY <1>3, EmptySeq
  <2> QED
    BY <1>1, <1>2, <1>3, <2>1 DEF First
<1>4. CASE arrived # <<>>
  <2>1. 1 \in 1 .. Len(arrived)
    BY <1>4, EmptySeq, LenProperties
  <2> QED
    BY <1>1, <1>2, <1>4, <2>1 DEF First
<1> QED
  BY <1>3, <1>4

LEMMA ReceiveTypes ==
    ASSUME IInv, NEW p \in Positions, ReceivePacket(p)
    PROVE  TypeOK'
<1> USE Windows
<1>1. Seq16(p) \in 0 .. SeqMod - 1
  BY SeqOf
<1>2. TypeOK /\ arrived' \in Seq(Positions)
  BY Arrival DEF IInv, TypeOK, ReceivePacket
<1>3. fraction_lost' \in 0 .. 255 /\ expected_prior' \in Int
      /\ {received_prior', packets_lost', reported_packet_lost'} \subseteq Nat
  BY <1>2 DEF ReceivePacket, report, TypeOK
<1>4. ASSUME NEW s \in 0 .. SeqMod - 1 PROVE CyclesAfter(s, Seq16(p)) \in Nat
  BY <1>2 DEF CyclesAfter, TypeOK
<1>5. CASE Accept(p)
  <2>1. received' \in Nat /\ accepted' \subseteq Positions
    BY <1>2, <1>5 DEF Accept, TypeOK
  <2>2. CASE Start(Seq16(p))
    <3>1. (Seq16(p) - 1) % SeqMod \in 0 .. SeqMod - 1
      BY <1>1
    <3> QED
      BY <1>1, <1>2, <1>3, <1>4, <2>1, <2>2, <3>1 DEF Start, InitSequence, TypeOK, NoSeq
  <2>3. CASE Advance(Seq16(p))
    BY <1>1, <1>2, <1>3, <1>4, <2>1, <2>3 DEF Advance, TypeOK
  <2>4. CASE Misorder(Seq16(p))
    BY <1>2, <1>3, <2>1, <2>4 DEF Misorder, stream, TypeOK
  <2>5. CASE Resync(Seq16(p))
    BY <1>1, <1>2, <1>3, <2>1, <2>5 DEF Resync, InitSequence, TypeOK, NoSeq
  <2> QED
    BY <1>5, <2>2, <2>3, <2>4, <2>5 DEF Accept
<1>6. CASE Discard(Seq16(p)) /\ UNCHANGED <<received, accepted>>
  <2>1. (Seq16(p) + 1) % SeqMod \in 0 .. SeqMod - 1
    BY <1>1
  <2> QED
    BY <1>1, <1>2, <1>3, <1>6, <2>1 DEF Discard, TypeOK
<1> QED
  BY <1>5, <1>6 DEF ReceivePacket

LEMMA ReceiveBegun ==
    ASSUME IInv, NEW p \in Positions, ReceivePacket(p)
    PROVE  Begun'
<1>1. /\ arrived' # <<>> /\ First' = IF arrived = <<>> THEN p ELSE First
  BY Arrival DEF IInv, TypeOK, ReceivePacket
<1>2. Begun
  BY DEF IInv
<1>3. CASE Accept(p)
  <2>1. started'
    BY <1>3 DEF Accept, Start, Advance, Misorder, Resync, IsBad, stream
  <2>2. accepted' = accepted \cup {p}
    BY <1>3 DEF Accept
  <2> QED
    BY <1>1, <1>2, <2>1, <2>2 DEF Begun
<1>4. CASE Discard(Seq16(p)) /\ UNCHANGED <<received, accepted>>
  BY <1>1, <1>2, <1>4 DEF Discard, IsBad, Begun
<1> QED
  BY <1>3, <1>4 DEF ReceivePacket

LEMMA ReceiveFollows ==
    ASSUME IInv, NEW p \in Positions, ReceivePacket(p)
    PROVE  Follows'
<1>1. Last' = p /\ Seq16(p) \in 0 .. SeqMod - 1 /\ max_seq \in 0 .. SeqMod - 1
  BY Arrival, SeqOf DEF IInv, TypeOK, ReceivePacket
<1>2. ASSUME max_seq' = Seq16(p) PROVE udelta(Seq16(p))' = 0
  BY <1>1, <1>2, Windows DEF udelta
<1>3. CASE Start(Seq16(p)) \/ Advance(Seq16(p)) \/ Resync(Seq16(p))
  <2>1. max_seq' = Seq16(p)
    BY <1>3 DEF Start, Advance, Resync, InitSequence
  <2> QED
    BY <1>1, <1>2, <2>1 DEF Follows, Seq16, udelta
<1>4. CASE Misorder(Seq16(p))
  BY <1>1, <1>4 DEF Misorder, stream, Follows, IsMisorder, udelta, Seq16
<1>5. CASE Discard(Seq16(p))
  BY <1>1, <1>5 DEF Discard, Follows, Seq16
<1> QED
  BY <1>3, <1>4, <1>5 DEF ReceivePacket, Accept

\* The newest packet stays the newest one, or is the one that was accepted.
LEMMA ReceiveNewest ==
    ASSUME IInv, NEW p \in Positions, ReceivePacket(p), accepted' = accepted \cup {p}
    PROVE  /\ HasNewest'
           /\ ~started => Newest' = p
           /\ started => /\ Newest \in Nat /\ p - Newest \in -MaxSkew .. MaxSkew
                         /\ Newest' = IF p > Newest THEN p ELSE Newest
<1> USE PositionsAssumption
<1>1. TypeOK /\ Begun /\ HasNewest /\ accepted \subseteq Positions /\ p \in Nat
  BY DEF IInv, TypeOK
<1>2. IsFiniteSet(accepted')
  BY <1>1, FS_AddElement DEF HasNewest
<1>3. CASE ~started
  <2>1. accepted' = {p}
    BY <1>1, <1>3 DEF Begun
  <2>2. Max({p}) = p
    BY MaxIsUpper
  <2>3. HasNewest'
    BY <1>1, <1>2, <2>1 DEF HasNewest
  <2> QED
    BY <1>3, <2>1, <2>2, <2>3 DEF Newest
<1>4. CASE started
  <2>1. PICK m \in accepted : \A q \in accepted : m >= q
    BY <1>1, <1>4 DEF HasNewest
  <2>2. /\ Newest = m
        /\ Max(accepted \cup {p}) = IF p > m THEN p ELSE m
        /\ \E n \in accepted \cup {p} : \A q \in accepted \cup {p} : n >= q
    BY <1>1, <2>1, NewestOfMore
  <2>3. HasNewest'
    BY <1>2, <2>2 DEF HasNewest
  <2>4. Newest' = Max(accepted \cup {p})
    BY DEF Newest
  <2>5. p - Newest \in -MaxSkew .. MaxSkew
    BY <2>1 DEF ReceivePacket, InReach
  <2> QED
    BY <1>1, <1>4, <2>1, <2>2, <2>3, <2>4, <2>5
<1> QED
  BY <1>3, <1>4

LEMMA ReceiveExtended ==
    ASSUME IInv, NEW p \in Positions, ReceivePacket(p)
    PROVE  HasNewest' /\ Extended'
<1>1. TypeOK /\ Begun /\ HasNewest /\ Extended
  BY DEF IInv
<1>2. /\ p \in Nat /\ Seq16(p) \in 0 .. SeqMod - 1
      /\ First' = IF arrived = <<>> THEN p ELSE First
  BY <1>1, SeqOf, Arrival DEF TypeOK, ReceivePacket
<1>3. CASE Accept(p)
  <2>1. accepted' = accepted \cup {p}
    BY <1>3 DEF Accept
  <2>2. /\ HasNewest'
        /\ ~started => Newest' = p
        /\ started => /\ Newest \in Nat /\ p - Newest \in -MaxSkew .. MaxSkew
                      /\ Newest' = IF p > Newest THEN p ELSE Newest
    BY <2>1, ReceiveNewest
  <2>3. CASE Start(Seq16(p))
    <3>1. ~started /\ cycles = 0 /\ First' = p /\ Newest' = p
      BY <1>1, <1>2, <2>2, <2>3 DEF Start, Begun
    <3>2. (Seq16(p) - 1) % SeqMod = IF Seq16(p) = 0 THEN SeqMod - 1 ELSE Seq16(p) - 1
      BY <1>2, Windows
    <3>3. cycles' = IF Seq16(p) = 0 THEN SeqMod ELSE 0
      BY <1>2, <2>3, <3>1, <3>2, Windows DEF Start, CyclesAfter
    <3>4. max_seq' = Seq16(p) /\ base_seq' = Seq16(p)
      BY <2>3 DEF Start, InitSequence
    <3>5. GetExpectedPackets' = p - p + 1 + (IF Seq16(p) = 0 THEN SeqMod ELSE 0)
      BY <1>2, <3>3, <3>4, Windows DEF GetExpectedPackets
    <3> QED
      BY <2>2, <3>1, <3>4, <3>5 DEF Extended, ExtendedRight, Seq16
  <2>4. CASE started /\ ~resynced /\ ~resynced' /\ (Advance(Seq16(p)) \/ Misorder(Seq16(p)))
    <3>1. /\ max_seq = Seq16(Newest) /\ base_seq = Seq16(First)
          /\ (cycles + max_seq) - base_seq + 1 =
                Newest - First + 1 + (IF Seq16(First) = 0 THEN SeqMod ELSE 0)
      <4>1. max_seq = Seq16(Newest) /\ base_seq = Seq16(First) /\ ExtendedRight
        BY <1>1, <2>4 DEF Extended
      <4> QED
        BY <2>4, <4>1 DEF ExtendedRight, GetExpectedPackets
    <3>2. First' = First /\ First \in Nat /\ base_seq' = base_seq
      BY <1>1, <1>2, <2>4, PositionsAssumption
        DEF Begun, TypeOK, Advance, Misorder, stream
    <3>3. /\ IsInOrder(Seq16(p)) =>
               /\ p >= Newest
               /\ CyclesAfter(max_seq, Seq16(p)) + Seq16(p) = cycles + max_seq + (p - Newest)
          /\ IsMisorder(Seq16(p)) => p < Newest
      BY <1>1, <1>2, <2>2, <2>4, <3>1, WindowsTellApart DEF TypeOK
    <3>4. CASE Advance(Seq16(p))
      <4>1. Newest' = p /\ max_seq' = Seq16(p)
        BY <1>2, <2>2, <2>4, <3>3, <3>4 DEF Advance
      <4>2. cycles' + Seq16(p) = cycles + max_seq + (p - Newest) /\ cycles' \in Nat
        BY <1>1, <3>3, <3>4, Windows DEF Advance, CyclesAfter, TypeOK
      <4>3. GetExpectedPackets' =
                p - First + 1 + (IF Seq16(First) = 0 THEN SeqMod ELSE 0)
        <5> DEFINE extra == IF Seq16(First) = 0 THEN SeqMod ELSE 0
        <5>1. extra \in Nat /\ (cycles + max_seq) - base_seq + 1 = Newest - First + 1 + extra
          BY <3>1, Windows
        <5> HIDE DEF extra
        <5>2. (cycles' + max_seq') - base_seq' + 1 = p - First + 1 + extra
          <6>1. /\ cycles \in Int /\ max_seq \in Int /\ base_seq \in Int /\ cycles' \in Int
                /\ p \in Int /\ Newest \in Int /\ First \in Int /\ Seq16(p) \in Int
            BY <1>1, <1>2, <2>2, <2>4, <3>2, <4>2 DEF TypeOK
          <6>2. max_seq' = Seq16(p) /\ base_seq' = base_seq
            BY <3>2, <4>1
          <6> QED
            BY <4>2, <5>1, <6>1, <6>2
        <5> QED
          BY <5>2 DEF GetExpectedPackets, extra
      <4> QED
        BY <2>2, <3>1, <3>2, <4>1, <4>3 DEF Extended, ExtendedRight, Seq16
    <3>5. CASE Misorder(Seq16(p))
      <4>1. Newest' = Newest /\ max_seq' = max_seq /\ cycles' = cycles
        BY <1>2, <2>2, <2>4, <3>3, <3>5 DEF Misorder, stream
      <4> QED
        BY <2>2, <3>1, <3>2, <4>1 DEF Extended, ExtendedRight, GetExpectedPackets, Seq16
    <3> QED
      BY <2>4, <3>4, <3>5
  <2>5. CASE resynced'
    BY <2>2, <2>5 DEF Extended
  <2> QED
    BY <1>3, <2>3, <2>4, <2>5 DEF Accept, Advance, Misorder, Resync
<1>4. CASE Discard(Seq16(p)) /\ UNCHANGED <<received, accepted>>
  <2>1. started /\ First' = First
    BY <1>1, <1>2, <1>4 DEF Discard, IsBad, Begun
  <2> QED
    BY <1>1, <1>4, <2>1
      DEF Discard, HasNewest, Extended, ExtendedRight, GetExpectedPackets, Newest, Seq16
<1> QED
  BY <1>3, <1>4 DEF ReceivePacket

LEMMA ReceiveReported ==
    ASSUME IInv, NEW p \in Positions, ReceivePacket(p)
    PROVE  Reported'
<1>1. TypeOK /\ HasNewest /\ Reported
  BY DEF IInv
<1>2. UNCHANGED report
  BY DEF ReceivePacket
<1>3. Cardinality(accepted \cup {p}) \in {Cardinality(accepted), Cardinality(accepted) + 1}
      /\ Cardinality(accepted) \in Nat
  BY <1>1, FS_AddElement, FS_CardinalityType DEF HasNewest
<1>4. CASE Accept(p)
  BY <1>1, <1>2, <1>3, <1>4 DEF Accept, Reported, report, TypeOK
<1>5. CASE UNCHANGED <<received, accepted>>
  BY <1>1, <1>2, <1>5 DEF Reported, report
<1> QED
  BY <1>4, <1>5 DEF ReceivePacket

LEMMA ReportInv ==
    ASSUME IInv, Report
    PROVE  IInv'
<1> DEFINE expected == GetExpectedPackets
           lost == IF expected > received THEN expected - received ELSE 0
           e == expected - expected_prior
           r == received - received_prior
<1>1. TypeOK /\ Begun /\ HasNewest /\ Follows /\ Extended /\ Reported
  BY DEF IInv
<1>2. /\ expected \in Int /\ received \in Nat /\ received_prior \in Nat /\ received_prior <= received
      /\ expected_prior \in Int /\ packets_lost \in Nat /\ reported_packet_lost = packets_lost
  BY <1>1, Windows DEF TypeOK, Reported, GetExpectedPackets
<1> HIDE DEF expected
<1>3. Max({expected - received, 0}) = lost /\ lost \in Nat
  BY <1>2, MaxWithZero
<1>4. /\ packets_lost' = lost
      /\ fraction_lost' = Fraction(e - r, e)
      /\ expected_prior' = expected /\ received_prior' = received
      /\ reported_packet_lost' = reported_packet_lost + (lost - packets_lost)
      /\ UNCHANGED <<stream, received, history>>
  BY <1>3, Zenon DEF Report, expected
<1> HIDE DEF lost, e
<1>5. reported_packet_lost' = lost
  BY <1>2, <1>3, <1>4
<1>6. Fraction(e - r, e) \in 0 .. 255
  <2>1. e \in Int /\ r \in Nat
    BY <1>2 DEF e
  <2>2. ASSUME NEW k \in Int PROVE k % 256 \in 0 .. 255
    OBVIOUS
  <2>3. CASE e = 0 \/ e - r <= 0
    BY <2>3 DEF Fraction
  <2>4. CASE ~(e = 0 \/ e - r <= 0)
    <3>1. e \in Nat \ {0} /\ (512 * (e - r) + e) \div (2 * e) \in Int
      <4>1. 2 * e \in Nat \ {0} /\ 512 * (e - r) + e \in Int
        BY <2>1, <2>4
      <4>2. e \in Nat \ {0}
        BY <2>1, <2>4
      <4> QED
        BY <4>1, <4>2, Division, ZenonT(30)
    <3> QED
      BY <2>2, <2>4, <3>1 DEF Fraction
  <2> QED
    BY <2>3, <2>4
<1>7. TypeOK'
  BY <1>1, <1>2, <1>3, <1>4, <1>5, <1>6 DEF TypeOK, stream, history
<1>8. Begun' /\ HasNewest' /\ Follows'
  BY <1>1, <1>4 DEF Begun, HasNewest, Follows, First, Last, stream, history, udelta, IsMisorder, Seq16
<1>9. Extended'
  BY <1>1, <1>4
    DEF Extended, ExtendedRight, GetExpectedPackets, First, Newest, Seq16, stream, history
<1>10. Reported'
  <2>1. accepted' = accepted /\ received' = received
    BY <1>4 DEF history
  <2> QED
    BY <1>1, <1>2, <1>4, <1>5, <2>1 DEF Reported, lost
<1> QED
  BY <1>7, <1>8, <1>9, <1>10 DEF IInv

LEMMA StepInv == IInv /\ [Next]_vars => IInv'
<1> SUFFICES ASSUME IInv, [Next]_vars PROVE IInv'
  OBVIOUS
<1>1. ASSUME NEW p \in Positions, ReceivePacket(p) PROVE IInv'
  BY <1>1, ReceiveTypes, ReceiveBegun, ReceiveFollows, ReceiveExtended, ReceiveReported DEF IInv
<1>2. CASE Report
  BY <1>2, ReportInv
<1>3. CASE UNCHANGED vars
  BY <1>3 DEF IInv, TypeOK, Begun, HasNewest, Follows, Extended, ExtendedRight, Reported,
              GetExpectedPackets, First, Last, Newest, udelta, IsMisorder, Seq16,
              vars, stream, report, history
<1> QED
  BY <1>1, <1>2, <1>3 DEF Next

\* The receiver's steps are RtpStream's, or leave it alone.
LEMMA ReceiverStep == [ReceiverNext]_receiver_vars => [Next]_vars
BY DEF ReceiverNext, ReceiveInReceiver, ReportOfReceiver, Tick, Next, receiver_vars

--------------------------------------------------------------------------------
(* Theorems                                                                *)

THEOREM Invariance == ReceiverSpec => []IInv
<1>1. ReceiverInit => IInv
  BY InitInv DEF ReceiverInit
<1>2. IInv /\ [ReceiverNext]_receiver_vars => IInv'
  BY ReceiverStep, StepInv
<1> QED
  BY <1>1, <1>2, PTL DEF ReceiverSpec

\* The extended sequence number of UpdateSequence counts the sender's packets,
\* for any windows with MaxSkew + MaxDropout <= SeqMod: as far as the 16 bits
\* tell the newer packet from the older.
THEOREM ExtendedSequenceNumber == ReceiverSpec => []ExtendedRight
<1>1. IInv => ExtendedRight
  BY DEF IInv, Extended, ExtendedRight
<1> QED
  BY <1>1, Invariance, PTL

\* UpdateSequence accepts the second of two packets in sequence, also when it
\* discarded the first: bad_seq_ is then the number of the second.
THEOREM SequentialPackets == ReceiverSpec => TwoSequentialAccepted
<1>1. ASSUME IInv, NEW p \in Positions, arrived # <<>>, Seq16(Last + 1) = Seq16(p),
             ReceivePacket(p)
      PROVE  Accept(p)
  <2>1. started
    BY <1>1 DEF IInv, Begun
  <2>2. IsInOrder(Seq16(p)) \/ IsMisorder(Seq16(p)) \/ Seq16(p) = bad_seq
    BY <1>1, <2>1, NextIsAccepted
  <2> QED
    BY <1>1, <2>2 DEF ReceivePacket, Discard, IsBad
<1>2. IInv => \A p \in Positions :
                arrived # <<>> /\ Seq16(arrived[Len(arrived)] + 1) = Seq16(p) /\ ReceivePacket(p)
                    => Accept(p)
  BY <1>1 DEF Last
<1> QED
  BY <1>2, Invariance, PTL DEF TwoSequentialAccepted

\* GetRtcpReceiverReport's total of lost packets, kept by differences, is never
\* more than the packets missing between the first and the newest one, and all
\* of them if no duplicate and no packet from before the first was counted.
THEOREM LostOfReports == ReceiverSpec => []LostIsMissing
<1>1. ASSUME IInv, started, ~resynced, Seq16(First) # 0,
             expected_prior = GetExpectedPackets, received_prior = received
      PROVE  LET seen == accepted \cap First .. Newest
                 missing_ == Newest - First + 1 - Cardinality(seen)
             IN  /\ reported_packet_lost <= missing_
                 /\ Cardinality(seen) = received => reported_packet_lost = missing_
  <2> DEFINE seen == accepted \cap First .. Newest
             c == Cardinality(seen)
  <2>1. TypeOK /\ Begun /\ HasNewest /\ Extended /\ Reported
    BY <1>1 DEF IInv
  <2>2. PICK m \in accepted : \A q \in accepted : m >= q
    BY <1>1, <2>1 DEF HasNewest
  <2>3. First \in Nat /\ Newest \in Nat /\ First <= Newest
    <3>1. Newest = m
      BY <2>1, <2>2, PositionsAssumption, MaxIsUpper DEF Newest, TypeOK
    <3> QED
      BY <1>1, <2>1, <2>2, <3>1, PositionsAssumption DEF Begun, TypeOK
  <2>4. c \in Nat /\ c <= received /\ c <= Newest - First + 1 /\ received \in Nat
    <3>1. IsFiniteSet(accepted) /\ Cardinality(accepted) <= received /\ received \in Nat
      BY <2>1 DEF HasNewest, Reported, TypeOK
    <3>2. c \in Nat /\ Cardinality(accepted) \in Nat /\ c <= Cardinality(accepted)
      <4>1. seen \subseteq accepted
        OBVIOUS
      <4> QED
        BY <3>1, <4>1, FS_Subset, FS_CardinalityType
    <3>3. /\ IsFiniteSet(First .. Newest)
          /\ Cardinality(First .. Newest) = Newest - First + 1
      BY <2>3, FS_Interval
    <3>4. c <= Cardinality(First .. Newest)
      <4>1. seen \subseteq First .. Newest
        OBVIOUS
      <4> QED
        BY <3>3, <4>1, FS_Subset
    <3> QED
      BY <3>1, <3>2, <3>3, <3>4
  <2>5. GetExpectedPackets = Newest - First + 1
    BY <1>1, <2>1, <2>3 DEF Extended, ExtendedRight
  <2>6. reported_packet_lost = IF Newest - First + 1 > received
                               THEN (Newest - First + 1) - received ELSE 0
    BY <1>1, <2>1, <2>5 DEF Reported
  <2> HIDE DEF c
  <2>7. /\ reported_packet_lost <= Newest - First + 1 - c
        /\ c = received => reported_packet_lost = Newest - First + 1 - c
    BY <2>3, <2>4, <2>6
  <2> QED
    BY <2>7 DEF c
<1>2. IInv => LostIsMissing
  BY <1>1 DEF LostIsMissing
<1> QED
  BY <1>2, Invariance, PTL

--------------------------------------------------------------------------------
(* The NackGenerator behind the stream                                     *)

NackFollows ==
    /\ nack_started <=> started
    /\ nack_started \in BOOLEAN
    /\ started /\ ~resynced => last_seq = max_seq

\* The windows of UpdateSequence are on their side of half the range, which is
\* where NackGenerator tells newer from older.
LEMMA SidesAgree ==
    ASSUME NEW seq \in 0 .. SeqMod - 1, max_seq \in 0 .. SeqMod - 1, last_seq = max_seq
    PROVE  /\ IsInOrder(seq) => /\ ~Nack!Lower(seq, last_seq)
                                /\ Nack!Minus(seq, last_seq, SeqMod) <= MaxDropout - 1
           /\ IsMisorder(seq) => /\ Nack!Lower(seq, last_seq) /\ seq # last_seq
                                 /\ Nack!Minus(last_seq, seq, SeqMod) <= MaxMisorder - 1
<1> USE Windows
<1> DEFINE half == (SeqMod - 1) \div 2
<1>1. half \in Nat /\ MaxDropout <= half /\ 2 * half <= SeqMod - 1
  BY NackAssumption
<1>2. udelta(seq) = IF seq >= max_seq THEN seq - max_seq ELSE seq - max_seq + SeqMod
  BY DEF udelta
<1>3. Nack!Lower(seq, last_seq) <=> \/ max_seq > seq /\ max_seq - seq <= half
                                    \/ seq > max_seq /\ seq - max_seq > half
  BY DEF Nack!Lower, Nack!IsSeqLowerThan, Nack!HalfRange
<1> HIDE DEF half
<1>4. ASSUME IsInOrder(seq)
      PROVE  /\ ~Nack!Lower(seq, last_seq)
             /\ Nack!Minus(seq, last_seq, SeqMod) <= MaxDropout - 1
  BY <1>1, <1>2, <1>3, <1>4 DEF IsInOrder, Nack!Minus
<1>5. ASSUME IsMisorder(seq)
      PROVE  /\ Nack!Lower(seq, last_seq) /\ seq # last_seq
             /\ Nack!Minus(last_seq, seq, SeqMod) <= MaxMisorder - 1
  BY <1>1, <1>2, <1>3, <1>5 DEF IsMisorder, Nack!Minus
<1> QED
  BY <1>4, <1>5

LEMMA NackStep ==
    ASSUME IInv, NackFollows, [ReceiverNext]_receiver_vars
    PROVE  NackFollows'
<1> USE DEF NackFollows
<1>1. ASSUME NEW p \in Positions, ReceiveInReceiver(p) PROVE NackFollows'
  <2>1. ReceivePacket(p) /\ received \in Nat /\ max_seq \in 0 .. SeqMod - 1
        /\ Seq16(p) \in 0 .. SeqMod - 1
    BY <1>1, SeqOf DEF ReceiveInReceiver, IInv, TypeOK
  <2>2. CASE Discard(Seq16(p)) /\ UNCHANGED <<received, accepted>>
    <3>1. UNCHANGED nack_vars
      BY <1>1, <2>2 DEF ReceiveInReceiver
    <3> QED
      BY <2>2, <3>1 DEF Discard, IsBad, nack_vars
  <2>3. CASE Accept(p)
    <3>1. received' # received
      BY <2>1, <2>3 DEF Accept
    <3>2. Nack!First(Seq16(p)) \/ Nack!Same(Seq16(p)) \/ Nack!Older(Seq16(p)) \/ Nack!Newer(Seq16(p))
      BY <1>1, <3>1 DEF ReceiveInReceiver, Nack!ReceivePacket
    <3>3. CASE Start(Seq16(p))
      <4>1. Nack!First(Seq16(p))
        BY <3>2, <3>3 DEF Start, Nack!Same, Nack!Older, Nack!Newer
      <4> QED
        BY <3>3, <4>1 DEF Start, InitSequence, Nack!First
    <3>4. CASE started /\ nack_started' /\ started' /\ resynced'
      BY <3>4
    <3>5. started => nack_started' = nack_started
      BY <3>2 DEF Nack!First, Nack!Same, Nack!Older, Nack!Newer, Nack!members
    <3>6. CASE Advance(Seq16(p))
      <4>1. started /\ started' = started /\ resynced' = resynced /\ max_seq' = Seq16(p)
            /\ IsInOrder(Seq16(p))
        BY <3>6 DEF Advance
      <4>2. CASE ~resynced
        <5>1. last_seq = max_seq /\ ~Nack!Lower(Seq16(p), last_seq)
          BY <2>1, <4>1, <4>2, SidesAgree
        <5>2. last_seq' = Seq16(p)
          BY <3>2, <4>1, <5>1 DEF Nack!First, Nack!Same, Nack!Older, Nack!Newer, Nack!members
        <5> QED
          BY <3>5, <4>1, <5>2
      <4> QED
        BY <3>5, <4>1, <4>2
    <3>7. CASE Misorder(Seq16(p))
      <4>1. started /\ started' = started /\ resynced' = resynced /\ max_seq' = max_seq
            /\ IsMisorder(Seq16(p))
        BY <3>7 DEF Misorder, stream
      <4>2. CASE ~resynced
        <5>1. last_seq = max_seq /\ Nack!Lower(Seq16(p), last_seq) /\ Seq16(p) # last_seq
          BY <2>1, <4>1, <4>2, SidesAgree
        <5>2. last_seq' = last_seq
          BY <3>2, <4>1, <5>1 DEF Nack!First, Nack!Same, Nack!Older, Nack!Newer
        <5> QED
          BY <3>5, <4>1, <5>1, <5>2
      <4> QED
        BY <3>5, <4>1, <4>2
    <3>8. CASE Resync(Seq16(p))
      BY <3>5, <3>8 DEF Resync, IsBad
    <3> QED
      BY <2>3, <3>3, <3>6, <3>7, <3>8 DEF Accept
  <2> QED
    BY <2>1, <2>2, <2>3 DEF ReceivePacket
<1>2. CASE ReportOfReceiver
  BY <1>2 DEF ReportOfReceiver, Report, stream, history, nack_vars
<1>3. CASE Tick
  BY <1>3 DEF Tick, Nack!Tick, vars, stream, history
<1>4. CASE UNCHANGED receiver_vars
  BY <1>4 DEF receiver_vars, vars, stream, history, nack_vars
<1> QED
  BY <1>1, <1>2, <1>3, <1>4 DEF ReceiverNext

\* RtpStreamReceiver::ReceivePacket gives the NackGenerator only packets that its
\* comparison of sequence numbers places where UpdateSequence did, and near
\* enough for its ordered containers.
THEOREM StreamFeedsNearPackets == ReceiverSpec => FeedsNearPackets
<1>1. ReceiverInit => NackFollows
  BY DEF ReceiverInit, Init, Nack!Init, NackFollows
<1>2. IInv /\ NackFollows /\ [ReceiverNext]_receiver_vars => NackFollows'
  BY NackStep
<1>3. ReceiverSpec => []NackFollows
  BY <1>1, <1>2, Invariance, PTL DEF ReceiverSpec
<1>4. ASSUME IInv, NackFollows, NEW p \in Positions, ReceiveInReceiver(p), started, ~resynced',
             received' # received
      PROVE  last_seq = max_seq /\ Nack!Accepted(Seq16(p))
  <2>1. Accept(p) /\ max_seq \in 0 .. SeqMod - 1 /\ Seq16(p) \in 0 .. SeqMod - 1
    BY <1>4, SeqOf DEF ReceiveInReceiver, ReceivePacket, IInv, TypeOK
  <2>2. ~resynced /\ (IsInOrder(Seq16(p)) \/ IsMisorder(Seq16(p)))
    <3>1. Advance(Seq16(p)) \/ Misorder(Seq16(p))
      BY <1>4, <2>1 DEF Accept, Start, Resync
    <3>2. resynced' = resynced
      BY <3>1 DEF Advance, Misorder
    <3> QED
      BY <1>4, <3>1, <3>2 DEF Advance, Misorder
  <2>3. last_seq = max_seq
    BY <1>4, <2>2 DEF NackFollows
  <2>4. \/ Nack!Minus(Seq16(p), last_seq, SeqMod) <= MaxDropout - 1
        \/ Nack!Minus(last_seq, Seq16(p), SeqMod) <= MaxMisorder - 1
    BY <2>1, <2>2, <2>3, SidesAgree
  <2> QED
    BY <2>3, <2>4 DEF Nack!Accepted
<1>5. IInv /\ NackFollows =>
        \A p \in Positions :
            ReceiveInReceiver(p) /\ started /\ ~resynced' /\ received' # received =>
                last_seq = max_seq /\ Nack!Accepted(Seq16(p))
  BY <1>4
<1> QED
  BY <1>3, <1>5, Invariance, PTL DEF FeedsNearPackets

--------------------------------------------------------------------------------
(* Induction over the numbers, and over the subsets of a finite set        *)

LEMMA LeastOf ==
    ASSUME NEW T, T \subseteq Nat, T # {}
    PROVE  \E n \in T : \A m \in T : n <= m
<1>1. PICK n \in T : \A m \in T : ~(<<m, n>> \in OpToRel(<, Nat))
  BY NatLessThanWellFounded, WFMin
<1>2. ASSUME NEW m \in T PROVE n <= m
  <2>1. m < n => <<m, n>> \in OpToRel(<, Nat)
    BY DEF OpToRel
  <2>2. ~(m < n)
    BY <1>1, <2>1
  <2> QED
    BY <2>2
<1> QED
  BY <1>2

\* A set of numbers that holds 0, and n + 1 with every n, holds them all.
LEMMA NumberInduction ==
    ASSUME NEW S, 0 \in S, \A n \in Nat : n \in S => n + 1 \in S
    PROVE  Nat \subseteq S
<1> SUFFICES ASSUME Nat \ S # {} PROVE FALSE
  OBVIOUS
<1>1. PICK n \in Nat \ S : \A m \in Nat \ S : n <= m
  BY LeastOf
<1>2. n - 1 \in Nat /\ n - 1 \in S
  BY <1>1
<1> QED
  BY <1>2

\* A set of subsets that has a subset whenever it has all smaller ones has them all.
LEMMA SetInduction ==
    ASSUME NEW S, IsFiniteSet(S), NEW P,
           \A t \in SUBSET S :
               (\A u \in SUBSET t : u # t => u \in P) => t \in P
    PROVE  SUBSET S \subseteq P
<1> SUFFICES ASSUME (SUBSET S) \ P # {} PROVE FALSE
  OBVIOUS
<1> DEFINE M == (SUBSET S) \ P
           T == {n \in Nat : \E t \in M : Cardinality(t) = n}
<1>1. ASSUME NEW t \in SUBSET S PROVE IsFiniteSet(t) /\ Cardinality(t) \in Nat
  BY <1>1, FS_Subset, FS_CardinalityType
<1>2. PICK n \in T : \A m \in T : n <= m
  BY <1>1, LeastOf
<1>3. PICK t \in M : Cardinality(t) = n
  BY <1>2
<1>4. PICK u \in SUBSET t : u # t /\ u \notin P
  BY <1>3
<1>5. u \in M /\ Cardinality(u) \in Nat /\ Cardinality(u) <= n /\ Cardinality(u) # n
  BY <1>1, <1>3, <1>4, FS_Subset
<1> QED
  BY <1>2, <1>5

--------------------------------------------------------------------------------
(* Sums over sets                                                          *)

Some(s) == CHOOSE x \in s : TRUE

\* The recursive function by which MapThenFoldSet defines a sum
SumStep(g, f, s) == IF s = {} THEN 0 ELSE f[Some(s)] + g[s \ {Some(s)}]
IsSum(g, f, S) == g = [s \in SUBSET S |-> SumStep(g, f, s)]

LEMMA SumIs ==
    ASSUME NEW f, NEW S
    PROVE  SumOver(f, S) = (CHOOSE g : IsSum(g, f, S))[S]
BY DEF SumOver, MapThenSumSet, MapThenFoldSet, IsSum, SumStep, Some

LEMMA SomeIsIn ==
    ASSUME NEW s, s # {}
    PROVE  Some(s) \in s
BY DEF Some

\* Functions that are right on the sets of up to n elements, for each n
LEMMA SumExists ==
    ASSUME NEW f, NEW S, IsFiniteSet(S)
    PROVE  \E g : IsSum(g, f, S)
<1> DEFINE Right(g, n) == \A s \in SUBSET S : Cardinality(s) <= n => g[s] = SumStep(g, f, s)
           N == {n \in Nat : \E g : Right(g, n)}
<1>1. ASSUME NEW s \in SUBSET S
      PROVE  /\ IsFiniteSet(s) /\ Cardinality(s) \in Nat /\ Cardinality(s) <= Cardinality(S)
             /\ Cardinality(s) = 0 <=> s = {}
  BY <1>1, FS_Subset, FS_CardinalityType, FS_EmptySet
<1>2. 0 \in N
  <2> DEFINE g == [s \in SUBSET S |-> 0]
  <2>1. Right(g, 0)
    BY <1>1 DEF SumStep
  <2> QED
    BY <2>1
<1>3. ASSUME NEW n \in Nat, n \in N PROVE n + 1 \in N
  <2>1. PICK h : Right(h, n)
    BY <1>3
  <2> DEFINE g == [s \in SUBSET S |-> SumStep(h, f, s)]
  <2>2. ASSUME NEW s \in SUBSET S, Cardinality(s) <= n + 1 PROVE g[s] = SumStep(g, f, s)
    <3>1. CASE s = {}
      BY <3>1 DEF SumStep
    <3>2. CASE s # {}
      <4> DEFINE t == s \ {Some(s)}
      <4>1. t \in SUBSET S /\ Cardinality(t) <= n
        BY <1>1, <2>2, <3>2, SomeIsIn, FS_RemoveElement
      <4>2. g[t] = SumStep(h, f, t) /\ h[t] = SumStep(h, f, t)
        BY <2>1, <4>1
      <4>3. g[s] = SumStep(h, f, s)
        OBVIOUS
      <4> HIDE DEF g
      <4> QED
        BY <3>2, <4>2, <4>3 DEF SumStep
    <3> QED
      BY <3>1, <3>2
  <2> HIDE DEF g
  <2>3. Right(g, n + 1)
    BY <2>2
  <2> QED
    BY <2>3
<1> HIDE DEF N
<1>4. Nat \subseteq N
  BY <1>2, <1>3, NumberInduction
<1>5. Cardinality(S) \in N
  BY <1>1, <1>4
<1>6. PICK h : Right(h, Cardinality(S))
  BY <1>5 DEF N
<1>7. ASSUME NEW s \in SUBSET S PROVE h[s] = SumStep(h, f, s)
  BY <1>1, <1>6
<1> DEFINE g == [s \in SUBSET S |-> h[s]]
<1>8. ASSUME NEW s \in SUBSET S PROVE g[s] = SumStep(g, f, s)
  <2>1. s \ {Some(s)} \in SUBSET S
    OBVIOUS
  <2> QED
    BY <1>7, <2>1 DEF SumStep
<1>9. IsSum(g, f, S)
  BY <1>8 DEF IsSum
<1> QED
  BY <1>9

\* Where two of them are defined they agree.
LEMMA SumsAgree ==
    ASSUME NEW f, NEW S, NEW T \in SUBSET S, IsFiniteSet(S),
           NEW g, IsSum(g, f, S), NEW h, IsSum(h, f, T)
    PROVE  g[T] = h[T]
<1> DEFINE P == {t \in SUBSET T : g[t] = h[t]}
<1>1. ASSUME NEW t \in SUBSET T, \A u \in SUBSET t : u # t => u \in P PROVE t \in P
  <2>1. g[t] = SumStep(g, f, t) /\ h[t] = SumStep(h, f, t)
    BY DEF IsSum
  <2>2. t # {} => t \ {Some(t)} \in P
    BY <1>1, SomeIsIn
  <2> QED
    BY <2>1, <2>2 DEF SumStep
<1>2. IsFiniteSet(T)
  BY FS_Subset
<1> HIDE DEF P
<1>3. SUBSET T \subseteq P
  BY <1>1, <1>2, SetInduction
<1> QED
  BY <1>3 DEF P

\* Functions that can be summed
Summable(f, S) == IsFiniteSet(S) /\ \A x \in S : f[x] \in Nat

LEMMA SumUnfolds ==
    ASSUME NEW f, NEW S, IsFiniteSet(S)
    PROVE  /\ SumOver(f, {}) = 0
           /\ S # {} => SumOver(f, S) = f[Some(S)] + SumOver(f, S \ {Some(S)})
<1>1. ASSUME NEW T, IsFiniteSet(T)
      PROVE  \E g : IsSum(g, f, T) /\ SumOver(f, T) = g[T] /\ g[T] = SumStep(g, f, T)
  <2> DEFINE g == CHOOSE g : IsSum(g, f, T)
  <2>1. IsSum(g, f, T)
    BY <1>1, SumExists
  <2>2. SumOver(f, T) = g[T]
    BY SumIs
  <2> HIDE DEF g
  <2>3. g[T] = SumStep(g, f, T)
    BY <2>1 DEF IsSum
  <2> QED
    BY <2>1, <2>2, <2>3
<1>2. SumOver(f, {}) = 0
  BY <1>1, FS_EmptySet DEF SumStep
<1>3. ASSUME S # {} PROVE SumOver(f, S) = f[Some(S)] + SumOver(f, S \ {Some(S)})
  <2> DEFINE T == S \ {Some(S)}
  <2>1. IsFiniteSet(T)
    BY FS_Subset
  <2>2. PICK g : IsSum(g, f, S) /\ SumOver(f, S) = g[S] /\ g[S] = SumStep(g, f, S)
    BY <1>1
  <2>3. PICK h : IsSum(h, f, T) /\ SumOver(f, T) = h[T]
    BY <1>1, <2>1
  <2>4. g[T] = h[T]
    BY <2>2, <2>3, SumsAgree
  <2> QED
    BY <1>3, <2>2, <2>3, <2>4 DEF SumStep
<1> QED
  BY <1>2, <1>3

LEMMA SumIsNumber ==
    ASSUME NEW f, NEW S, Summable(f, S)
    PROVE  \A T \in SUBSET S : Summable(f, T) /\ SumOver(f, T) \in Nat
<1> DEFINE P == {T \in SUBSET S : SumOver(f, T) \in Nat}
<1>1. ASSUME NEW T \in SUBSET S PROVE IsFiniteSet(T) /\ Summable(f, T)
  BY FS_Subset DEF Summable
<1>2. ASSUME NEW T \in SUBSET S, \A u \in SUBSET T : u # T => u \in P PROVE T \in P
  <2>1. T # {} => T \ {Some(T)} \in P /\ f[Some(T)] \in Nat
    BY <1>2, SomeIsIn DEF Summable
  <2>2. SumOver(f, {}) = 0 /\ (T # {} => SumOver(f, T) = f[Some(T)] + SumOver(f, T \ {Some(T)}))
    BY <1>1, SumUnfolds
  <2>3. SumOver(f, T) \in Nat
    <3>1. CASE T = {}
      BY <2>2, <3>1
    <3>2. CASE T # {}
      <4>1. SumOver(f, T \ {Some(T)}) \in Nat
        BY <2>1, <3>2
      <4>2. SumOver(f, T) = f[Some(T)] + SumOver(f, T \ {Some(T)}) /\ f[Some(T)] \in Nat
        BY <2>1, <2>2, <3>2
      <4> QED
        BY <4>1, <4>2
    <3> QED
      BY <3>1, <3>2
  <2> QED
    BY <2>3
<1> HIDE DEF P
<1>3. SUBSET S \subseteq P
  BY <1>2, SetInduction DEF Summable
<1> QED
  BY <1>1, <1>3 DEF P

\* Any element may be taken out of a sum.
LEMMA SumRemove ==
    ASSUME NEW f, NEW S, Summable(f, S)
    PROVE  \A T \in SUBSET S : \A x \in T : SumOver(f, T) = f[x] + SumOver(f, T \ {x})
<1> DEFINE P == {T \in SUBSET S : \A x \in T : SumOver(f, T) = f[x] + SumOver(f, T \ {x})}
<1>1. ASSUME NEW T \in SUBSET S
      PROVE  /\ IsFiniteSet(T) /\ SumOver(f, T) \in Nat /\ \A x \in T : f[x] \in Nat
             /\ T # {} => SumOver(f, T) = f[Some(T)] + SumOver(f, T \ {Some(T)})
  BY SumIsNumber, SumUnfolds DEF Summable
<1>2. ASSUME NEW T \in SUBSET S, \A u \in SUBSET T : u # T => u \in P, NEW x \in T
      PROVE  SumOver(f, T) = f[x] + SumOver(f, T \ {x})
  <2> DEFINE c == Some(T)
             both == (T \ {x}) \ {c}
  <2>1. c \in T /\ SumOver(f, T) = f[c] + SumOver(f, T \ {c})
    BY <1>1, SomeIsIn
  <2>2. CASE x = c
    BY <2>1, <2>2
  <2>3. CASE x # c
    <3>1. T \ {c} \in P /\ T \ {x} \in P /\ x \in T \ {c} /\ c \in T \ {x}
      BY <1>2, <2>1, <2>3
    <3>2. SumOver(f, T \ {c}) = f[x] + SumOver(f, (T \ {c}) \ {x})
      BY <3>1
    <3>3. SumOver(f, T \ {x}) = f[c] + SumOver(f, both)
      BY <3>1
    <3>4. (T \ {c}) \ {x} = both /\ both \in SUBSET S
      OBVIOUS
    <3>5. SumOver(f, both) \in Nat /\ f[c] \in Nat /\ f[x] \in Nat
      BY <1>1, <2>1, <3>4
    <3>6. SumOver(f, (T \ {c}) \ {x}) = SumOver(f, both)
      BY <3>4
    <3>7. SumOver(f, T) = f[c] + SumOver(f, T \ {c})
      BY <2>1
    <3> HIDE DEF c, both
    <3> QED
      BY <3>2, <3>3, <3>5, <3>6, <3>7
  <2> QED
    BY <2>2, <2>3
<1>3. ASSUME NEW T \in SUBSET S, \A u \in SUBSET T : u # T => u \in P PROVE T \in P
  BY <1>2, <1>3
<1> HIDE DEF P
<1>4. SUBSET S \subseteq P
  BY <1>3, SetInduction DEF Summable
<1> QED
  BY <1>4 DEF P

LEMMA SumAdd ==
    ASSUME NEW f, NEW S, Summable(f, S), NEW T \in SUBSET S, NEW x \in S, x \notin T
    PROVE  SumOver(f, T \cup {x}) = f[x] + SumOver(f, T)
<1>1. T \cup {x} \in SUBSET S /\ (T \cup {x}) \ {x} = T
  OBVIOUS
<1> QED
  BY <1>1, SumRemove

\* Functions that are equal on a set
LEMMA SumEqual ==
    ASSUME NEW f, NEW h, NEW S, IsFiniteSet(S), \A x \in S : f[x] = h[x]
    PROVE  SumOver(f, S) = SumOver(h, S)
<1> DEFINE P == {T \in SUBSET S : SumOver(f, T) = SumOver(h, T)}
<1>1. ASSUME NEW T \in SUBSET S, \A u \in SUBSET T : u # T => u \in P PROVE T \in P
  <2>1. T # {} => T \ {Some(T)} \in P /\ f[Some(T)] = h[Some(T)]
    BY <1>1, SomeIsIn
  <2>2. IsFiniteSet(T)
    BY FS_Subset
  <2>3. /\ SumOver(f, {}) = 0 /\ (T # {} => SumOver(f, T) = f[Some(T)] + SumOver(f, T \ {Some(T)}))
        /\ SumOver(h, {}) = 0 /\ (T # {} => SumOver(h, T) = h[Some(T)] + SumOver(h, T \ {Some(T)}))
    BY <2>2, SumUnfolds
  <2> QED
    BY <2>1, <2>3
<1> HIDE DEF P
<1>2. SUBSET S \subseteq P
  BY <1>1, SetInduction
<1> QED
  BY <1>2 DEF P

LEMMA SumUnion ==
    ASSUME NEW f, NEW S, Summable(f, S), NEW A \in SUBSET S, NEW B \in SUBSET S, A \cap B = {}
    PROVE  SumOver(f, A \cup B) = SumOver(f, A) + SumOver(f, B)
<1> DEFINE P == {T \in SUBSET B : SumOver(f, A \cup T) = SumOver(f, A) + SumOver(f, T)}
<1>1. ASSUME NEW T \in SUBSET B, \A u \in SUBSET T : u # T => u \in P PROVE T \in P
  <2>1. CASE T = {}
    <3>1. A \cup T = A /\ SumOver(f, A) \in Nat /\ SumOver(f, T) = 0
      BY <2>1, SumIsNumber, SumUnfolds, FS_EmptySet
    <3> QED
      BY <3>1
  <2>2. CASE T # {}
    <3> DEFINE x == Some(T)
               U == T \ {x}
    <3>1. x \in T /\ U \in P /\ f[x] \in Nat
      BY <1>1, <2>2, SomeIsIn DEF Summable
    <3>2. A \cup U \in SUBSET S /\ U \in SUBSET S /\ x \in S /\ x \notin U /\ x \notin A \cup U
      BY <3>1
    <3> HIDE DEF x
    <3>3. SumOver(f, (A \cup U) \cup {x}) = f[x] + SumOver(f, A \cup U)
      BY <3>2, SumAdd
    <3>4. SumOver(f, U \cup {x}) = f[x] + SumOver(f, U)
      BY <3>2, SumAdd
    <3>5. (A \cup U) \cup {x} = A \cup T /\ U \cup {x} = T
      BY <3>1
    <3>6. SumOver(f, A) \in Nat /\ SumOver(f, U) \in Nat
      BY <3>2, SumIsNumber
    <3>7. SumOver(f, A \cup U) = SumOver(f, A) + SumOver(f, U)
      BY <3>1
    <3>8. /\ SumOver(f, A \cup T) = f[x] + SumOver(f, A \cup U)
          /\ SumOver(f, T) = f[x] + SumOver(f, U)
      BY <3>3, <3>4, <3>5
    <3> HIDE DEF U, P
    <3>9. SumOver(f, A \cup T) = SumOver(f, A) + SumOver(f, T)
      BY <3>1, <3>6, <3>7, <3>8
    <3> QED
      BY <3>9 DEF P
  <2> QED
    BY <2>1, <2>2
<1>2. IsFiniteSet(B)
  BY FS_Subset DEF Summable
<1> HIDE DEF P
<1>3. SUBSET B \subseteq P
  BY <1>1, <1>2, SetInduction
<1>4. B \in P
  BY <1>3
<1> QED
  BY <1>4 DEF P

LEMMA SumOfZeros ==
    ASSUME NEW f, NEW S, IsFiniteSet(S), \A x \in S : f[x] = 0
    PROVE  SumOver(f, S) = 0
<1> DEFINE P == {T \in SUBSET S : SumOver(f, T) = 0}
<1>1. ASSUME NEW T \in SUBSET S, \A u \in SUBSET T : u # T => u \in P PROVE T \in P
  <2>1. T # {} => T \ {Some(T)} \in P /\ f[Some(T)] = 0
    BY <1>1, SomeIsIn
  <2>2. IsFiniteSet(T)
    BY FS_Subset
  <2>3. SumOver(f, {}) = 0 /\ (T # {} => SumOver(f, T) = f[Some(T)] + SumOver(f, T \ {Some(T)}))
    BY <2>2, SumUnfolds
  <2> QED
    BY <2>1, <2>3
<1> HIDE DEF P
<1>2. SUBSET S \subseteq P
  BY <1>1, SetInduction
<1> QED
  BY <1>2 DEF P

\* A set with no more than the zeros outside of another
LEMMA SumAtMost ==
    ASSUME NEW f, NEW S, Summable(f, S), NEW A \in SUBSET S, NEW B \in SUBSET S,
           \A x \in A \ B : f[x] = 0
    PROVE  SumOver(f, A) <= SumOver(f, B)
<1>1. /\ A \cap B \in SUBSET S /\ A \ B \in SUBSET S /\ B \ A \in SUBSET S
      /\ (A \cap B) \cup (A \ B) = A /\ (A \cap B) \cap (A \ B) = {}
      /\ (A \cap B) \cup (B \ A) = B /\ (A \cap B) \cap (B \ A) = {}
  OBVIOUS
<1>2. SumOver(f, A) = SumOver(f, A \cap B) + SumOver(f, A \ B)
  BY <1>1, SumUnion
<1>3. SumOver(f, B) = SumOver(f, A \cap B) + SumOver(f, B \ A)
  BY <1>1, SumUnion
<1>4. IsFiniteSet(A \ B)
  BY <1>1, FS_Subset DEF Summable
<1>5. SumOver(f, A \ B) = 0
  BY <1>4, SumOfZeros
<1>6. SumOver(f, A \cap B) \in Nat /\ SumOver(f, B \ A) \in Nat
  BY <1>1, SumIsNumber
<1> QED
  BY <1>2, <1>3, <1>5, <1>6

\* A function that has more at one element
LEMMA SumMore ==
    ASSUME NEW f, NEW h, NEW S, Summable(f, S), NEW T \in SUBSET S, NEW x \in T, NEW d \in Nat,
           h[x] = f[x] + d, \A y \in S \ {x} : h[y] = f[y]
    PROVE  SumOver(h, T) = SumOver(f, T) + d
<1>1. Summable(h, S)
  BY DEF Summable
<1>2. SumOver(f, T) = f[x] + SumOver(f, T \ {x}) /\ SumOver(h, T) = h[x] + SumOver(h, T \ {x})
  BY <1>1, SumRemove
<1>3. IsFiniteSet(T \ {x}) /\ \A y \in T \ {x} : h[y] = f[y]
  BY FS_Subset DEF Summable
<1>4. SumOver(h, T \ {x}) = SumOver(f, T \ {x})
  BY <1>3, SumEqual
<1>5. SumOver(f, T \ {x}) \in Nat /\ f[x] \in Nat
  BY SumIsNumber DEF Summable
<1> QED
  BY <1>2, <1>4, <1>5

--------------------------------------------------------------------------------
(* The ring                                                                *)

\* The milliseconds from a on, and those from a on that are before b
From(a) == {u \in Times : u >= a}
Span(a, b) == {u \in Times : a <= u /\ u < b}

\* What the k-th of the items that begin at t[0], .., t[n] collects
Part(t, n, k) == IF k < n THEN Span(t[k], t[k + 1]) ELSE From(t[k])

\* The k-th slot from o on
At(o, k) == (o + k) % WindowItems

\* Each item begins when the one before it is over.
Spaced(t, n) == \A k \in 0 .. n - 1 : t[k] + ItemSize <= t[k + 1]

\* What came before the next item began came within the item's time.
Filled(t, n, g) ==
    \A k \in 0 .. n : \A u \in Times :
        g[u] # 0 /\ (k < n => u < t[k + 1]) => u < t[k] + ItemSize

\* r has the items that begin at t[0], .., t[n], each with what g counts from
\* its beginning to that of the next one.
Holds(r, n, t, g) ==
    /\ n \in Slots /\ t \in [0 .. n -> Times]
    /\ r.oldest \in Slots /\ r.newest = At(r.oldest, n)
    /\ r.oldest_start = t[0] /\ r.newest_start = t[n]
    /\ \A k \in 0 .. n :
          r.buffer[At(r.oldest, k)] = [count |-> SumOver(g, Part(t, n, k)), time |-> t[k]]
    /\ r.total = SumOver(g, From(t[0]))
    /\ Spaced(t, n) /\ Filled(t, n, g)

\* The ring can be read as such items, or has none.
Kept(r, g, time) ==
    \/ r = EmptyRing
    \/ \E n \in Slots : \E t \in [0 .. n -> Times] : Holds(r, n, t, g) /\ t[n] <= time

\* What the items do not have any more is older than the window, but for the
\* length of one item.
Forgets(r, g, time) ==
    \A u \in Times :
        g[u] # 0 /\ (r = EmptyRing \/ u < r.oldest_start) => u < time - WindowSize + ItemSize

RingTyped(r) ==
    r \in [buffer : [Slots -> [count : Nat, time : Nat]], newest : Int, newest_start : Nat,
           oldest : Int, oldest_start : Nat, total : Nat]

RingInv == RingTyped(ring) /\ Kept(ring, size_at, now) /\ Forgets(ring, size_at, now)

\* Nothing was counted in the future.
NoFuture(g) == g \in [Times -> Nat] /\ \A u \in Times : u > now => g[u] = 0

Counted == now \in Times /\ NoFuture(size_at)

Answered == last_time \in 0 .. now /\ RateIsOfWindow

RateInv == Counted /\ RingInv /\ Answered

--------------------------------------------------------------------------------

LEMMA RateConstants ==
    /\ WindowItems \in Nat \ {0} /\ ItemSize \in Nat \ {0} /\ MaxTime \in Nat
    /\ WindowSize \in Nat \ {0} /\ WindowSize >= ItemSize
    /\ IsFiniteSet(Times) /\ Times \in SUBSET Nat /\ WindowSize \in Times
    /\ IsFiniteSet(Slots) /\ Slots \in SUBSET Nat /\ 0 \in Slots
<1>1. /\ WindowItems \in Nat \ {0} /\ ItemSize \in Nat \ {0} /\ MaxTime \in Nat
  BY WindowAssumption, SizesAssumption
<1>2. WindowSize \in Nat \ {0} /\ WindowSize >= ItemSize
  <2>1. WindowItems * ItemSize = ItemSize + (WindowItems - 1) * ItemSize
    BY <1>1
  <2>2. (WindowItems - 1) * ItemSize \in Nat
    BY <1>1
  <2> QED
    BY <1>1, <2>1, <2>2 DEF WindowSize
<1>3. IsFiniteSet(Times) /\ Times \in SUBSET Nat /\ WindowSize \in Times
  BY <1>1, <1>2, FS_Interval DEF Times
<1>4. IsFiniteSet(Slots) /\ Slots \in SUBSET Nat /\ 0 \in Slots
  BY <1>1, FS_Interval DEF Slots
<1> QED
  BY <1>1, <1>2, <1>3, <1>4

\* Slots of the ring without the remainder
LEMMA AtIs ==
    ASSUME NEW o \in Slots, NEW k \in 0 .. WindowItems
    PROVE  /\ At(o, k) = IF o + k < WindowItems THEN o + k ELSE o + k - WindowItems
           /\ At(o, k) \in Slots
<1> USE RateConstants DEF Slots
<1>1. CASE o + k < WindowItems
  <2>1. o + k = 0 * WindowItems + (o + k) /\ o + k \in 0 .. WindowItems - 1
    BY <1>1
  <2>2. (o + k) % WindowItems = o + k
    BY <2>1, Remainder
  <2> QED
    BY <1>1, <2>2 DEF At
<1>2. CASE ~(o + k < WindowItems)
  <2>1. o + k = 1 * WindowItems + (o + k - WindowItems) /\ o + k - WindowItems \in 0 .. WindowItems - 1
    BY <1>2
  <2>2. (o + k) % WindowItems = o + k - WindowItems
    BY <2>1, Remainder
  <2> QED
    BY <1>2, <2>1, <2>2 DEF At
<1> QED
  BY <1>1, <1>2

LEMMA SlotsDiffer ==
    ASSUME NEW o \in Slots, NEW i \in Slots, NEW j \in Slots, i # j
    PROVE  At(o, i) # At(o, j)
<1>1. i \in 0 .. WindowItems /\ j \in 0 .. WindowItems
  BY RateConstants DEF Slots
<1>2. /\ At(o, i) = IF o + i < WindowItems THEN o + i ELSE o + i - WindowItems
      /\ At(o, j) = IF o + j < WindowItems THEN o + j ELSE o + j - WindowItems
  BY <1>1, AtIs
<1> QED
  BY <1>2, RateConstants DEF Slots

LEMMA SlotsShift ==
    ASSUME NEW o \in Slots, NEW j \in Nat, NEW k \in Nat, j + k <= WindowItems
    PROVE  At(At(o, j), k) = At(o, j + k)
<1>1. j \in 0 .. WindowItems /\ k \in 0 .. WindowItems /\ j + k \in 0 .. WindowItems
  BY RateConstants
<1>2. At(o, j) \in Slots /\ At(o, j) = IF o + j < WindowItems THEN o + j ELSE o + j - WindowItems
  BY <1>1, AtIs
<1>3. At(o, j + k) = IF o + (j + k) < WindowItems THEN o + (j + k) ELSE o + (j + k) - WindowItems
  BY <1>1, AtIs
<1> DEFINE p == At(o, j)
<1>4. At(p, k) = IF p + k < WindowItems THEN p + k ELSE p + k - WindowItems
  BY <1>1, <1>2, AtIs
<1> QED
  BY <1>1, <1>2, <1>3, <1>4, RateConstants DEF Slots

\* Items are as far apart as their number says.
LEMMA SpacedOut ==
    ASSUME NEW n \in Nat, NEW t \in [0 .. n -> Times], Spaced(t, n)
    PROVE  \A m \in 0 .. n : /\ t[0] + m * ItemSize <= t[m]
                             /\ \A k \in 0 .. m : t[k] <= t[m]
<1> DEFINE S == {m \in Nat : m <= n => /\ t[0] + m * ItemSize <= t[m]
                                       /\ \A k \in 0 .. m : t[k] <= t[m]}
<1>0. \A k \in 0 .. n : t[k] \in Nat
  BY RateConstants
<1> USE RateConstants
<1>1. 0 \in S
  <2>1. t[0] \in Nat /\ 0 * ItemSize = 0
    <3>1. 0 \in 0 .. n
      OBVIOUS
    <3> QED
      BY <1>0, <3>1
  <2> QED
    BY <2>1
<1>2. ASSUME NEW m \in Nat, m \in S PROVE m + 1 \in S
  <2> SUFFICES ASSUME m + 1 <= n
               PROVE  /\ t[0] + (m + 1) * ItemSize <= t[m + 1]
                      /\ \A k \in 0 .. m + 1 : t[k] <= t[m + 1]
    OBVIOUS
  <2>1. m \in 0 .. n - 1 /\ m \in 0 .. n /\ m + 1 \in 0 .. n
    OBVIOUS
  <2>2. t[m] \in Nat /\ t[m + 1] \in Nat /\ t[0] \in Nat /\ t[m] + ItemSize <= t[m + 1]
    <3>1. t[m] \in Nat /\ t[m + 1] \in Nat /\ 0 \in 0 .. n
      BY <1>0, <2>1
    <3> QED
      BY <1>0, <2>1, <3>1 DEF Spaced
  <2>3. (m + 1) * ItemSize = m * ItemSize + ItemSize /\ m * ItemSize \in Nat
    OBVIOUS
  <2>4. t[0] + m * ItemSize <= t[m] /\ \A k \in 0 .. m : t[k] <= t[m]
    BY <1>2, <2>1
  <2>5. t[0] + (m + 1) * ItemSize <= t[m + 1]
    BY <2>2, <2>3, <2>4
  <2>6. ASSUME NEW k \in 0 .. m + 1 PROVE t[k] <= t[m + 1]
    <3>1. CASE k = m + 1
      BY <2>2, <3>1
    <3>2. CASE k \in 0 .. m
      <4>1. t[k] \in Nat /\ t[k] <= t[m]
        <5>1. k \in 0 .. n
          BY <2>1, <3>2
        <5> QED
          BY <1>0, <2>4, <3>2, <5>1
      <4> QED
        BY <2>2, <4>1
    <3> QED
      BY <3>1, <3>2
  <2> QED
    BY <2>5, <2>6
<1> HIDE DEF S
<1>3. Nat \subseteq S
  BY <1>1, <1>2, NumberInduction
<1> QED
  BY <1>3 DEF S

\* What an item has that is not the newest ends where the next one begins.
LEMMA Starts ==
    ASSUME NEW n \in Slots, NEW t \in [0 .. n -> Times], Spaced(t, n)
    PROVE  /\ n \in Nat /\ 0 \in 0 .. n /\ n \in 0 .. n
           /\ \A k \in 0 .. n : t[k] \in Nat /\ t[k] \in Times /\ t[0] <= t[k] /\ t[k] <= t[n]
           /\ \A k \in 0 .. n - 1 : k \in 0 .. n /\ k + 1 \in 0 .. n /\ t[k] <= t[k + 1]
<1>1. n \in Nat /\ 0 \in 0 .. n /\ n \in 0 .. n
  BY RateConstants
<1>2. \A k \in 0 .. n : t[k] \in Nat /\ t[k] \in Times
  BY RateConstants
<1>3. ASSUME NEW k \in 0 .. n PROVE t[0] <= t[k] /\ t[k] <= t[n]
  <2>1. 0 \in 0 .. k /\ k \in 0 .. n
    BY <1>1
  <2> QED
    BY <1>1, <2>1, SpacedOut
<1>4. ASSUME NEW k \in 0 .. n - 1 PROVE k \in 0 .. n /\ k + 1 \in 0 .. n /\ t[k] <= t[k + 1]
  <2>1. k \in 0 .. n /\ k + 1 \in 0 .. n /\ k \in 0 .. k + 1
    BY <1>1
  <2> QED
    BY <1>1, <2>1, SpacedOut
<1> QED
  BY <1>1, <1>2, <1>3, <1>4

LEMMA SpansAreTimes ==
    ASSUME NEW a \in Nat, NEW b \in Nat
    PROVE  /\ From(a) \in SUBSET Times /\ Span(a, b) \in SUBSET Times /\ Span(a, a) = {}
           /\ a <= b => From(a) = Span(a, b) \cup From(b) /\ Span(a, b) \cap From(b) = {}
           /\ \A c \in Nat : a <= b /\ b <= c =>
                Span(a, c) = Span(a, b) \cup Span(b, c) /\ Span(a, b) \cap Span(b, c) = {}
<1>1. Times \in SUBSET Nat
  BY RateConstants
<1>2. From(a) \in SUBSET Times /\ Span(a, b) \in SUBSET Times
  BY DEF From, Span
<1>3. Span(a, a) = {}
  <2>1. \A u \in Times : ~(a <= u /\ u < a)
    BY <1>1
  <2> QED
    BY <2>1, Zenon DEF Span
<1>4. ASSUME a <= b
      PROVE  From(a) = Span(a, b) \cup From(b) /\ Span(a, b) \cap From(b) = {}
  <2>1. ASSUME NEW u
        PROVE  /\ u \in From(a) <=> u \in Span(a, b) \/ u \in From(b)
               /\ ~(u \in Span(a, b) /\ u \in From(b))
    <3>1. u \in Times => u \in Nat
      BY <1>1
    <3> QED
      BY <1>4, <3>1 DEF From, Span
  <2> QED
    BY <2>1, Zenon
<1>5. ASSUME NEW c \in Nat, a <= b, b <= c
      PROVE  Span(a, c) = Span(a, b) \cup Span(b, c) /\ Span(a, b) \cap Span(b, c) = {}
  <2>1. ASSUME NEW u
        PROVE  /\ u \in Span(a, c) <=> u \in Span(a, b) \/ u \in Span(b, c)
               /\ ~(u \in Span(a, b) /\ u \in Span(b, c))
    <3>1. u \in Times => u \in Nat
      BY <1>1
    <3> QED
      BY <1>5, <3>1 DEF Span
  <2> QED
    BY <2>1, Zenon
<1> QED
  BY <1>2, <1>3, <1>4, <1>5

LEMMA NumbersSum ==
    ASSUME NEW g \in [Times -> Nat]
    PROVE  Summable(g, Times) /\ \A T \in SUBSET Times : SumOver(g, T) \in Nat
<1>1. Summable(g, Times)
  BY RateConstants DEF Summable
<1> QED
  BY <1>1, SumIsNumber

Counts(r) == [s \in Slots |-> r.buffer[s].count]
FirstSlots(r, m) == {At(r.oldest, i) : i \in 0 .. m - 1}

\* The counts of the first m slots are what came up to the next item.
LEMMA SlotsSum ==
    ASSUME NEW r, RingTyped(r), NEW g \in [Times -> Nat],
           NEW n \in Slots, NEW t \in [0 .. n -> Times], Holds(r, n, t, g)
    PROVE  \A m \in 0 .. n : SumOver(Counts(r), FirstSlots(r, m)) = SumOver(g, Span(t[0], t[m]))
<1> DEFINE o == r.oldest
           c == [s \in Slots |-> r.buffer[s].count]
           first(m) == {At(o, i) : i \in 0 .. m - 1}
           P == {m \in Nat : m <= n => SumOver(c, first(m)) = SumOver(g, Span(t[0], t[m]))}
<1>1. /\ n \in Nat /\ 0 \in 0 .. n
      /\ \A k \in 0 .. n : t[k] \in Nat /\ t[0] <= t[k]
      /\ \A k \in 0 .. n - 1 : k \in 0 .. n /\ k + 1 \in 0 .. n /\ t[k] <= t[k + 1]
  BY Starts DEF Holds
<1>2. o \in Slots /\ Summable(c, Slots) /\ Summable(g, Times)
  <2>1. \A s \in Slots : r.buffer[s].count \in Nat
    BY DEF RingTyped
  <2> QED
    BY <2>1, NumbersSum, RateConstants DEF Holds, Summable
<1>3. ASSUME NEW k \in 0 .. n PROVE k \in Slots /\ k \in 0 .. WindowItems
  BY <1>1, <1>3, RateConstants DEF Slots
<1>4. 0 \in P
  <2>1. first(0) = {} /\ Span(t[0], t[0]) = {}
    BY <1>1, SpansAreTimes
  <2>2. SumOver(c, {}) = 0 /\ SumOver(g, {}) = 0
    BY SumUnfolds, FS_EmptySet
  <2> HIDE DEF c, first
  <2> QED
    BY <2>1, <2>2
<1>5. ASSUME NEW m \in Nat, m \in P PROVE m + 1 \in P
  <2> SUFFICES ASSUME m + 1 <= n
               PROVE  SumOver(c, first(m + 1)) = SumOver(g, Span(t[0], t[m + 1]))
    OBVIOUS
  <2>1. m \in 0 .. n - 1 /\ m \in 0 .. n /\ m + 1 \in 0 .. n
    BY <1>1
  <2>2. first(m + 1) = first(m) \cup {At(o, m)}
    <3>1. 0 .. (m + 1) - 1 = (0 .. m - 1) \cup {m}
      OBVIOUS
    <3> QED
      BY <3>1
  <2>3. first(m) \in SUBSET Slots /\ At(o, m) \in Slots /\ At(o, m) \notin first(m)
    <3>1. ASSUME NEW i \in 0 .. m - 1 PROVE At(o, i) \in Slots /\ At(o, i) # At(o, m)
      <4>1. i \in 0 .. n /\ i # m
        BY <1>1, <2>1
      <4> QED
        BY <1>2, <1>3, <2>1, <4>1, AtIs, SlotsDiffer
    <3> QED
      BY <1>2, <1>3, <2>1, <3>1, AtIs
  <2>4. c[At(o, m)] = SumOver(g, Span(t[m], t[m + 1]))
    <3>1. r.buffer[At(o, m)] = [count |-> SumOver(g, Part(t, n, m)), time |-> t[m]]
      BY <2>1 DEF Holds
    <3>2. Part(t, n, m) = Span(t[m], t[m + 1])
      BY <1>1, <2>1 DEF Part
    <3> QED
      BY <2>3, <3>1, <3>2
  <2> HIDE DEF c, first, o
  <2>5. SumOver(c, first(m + 1)) = c[At(o, m)] + SumOver(c, first(m))
    BY <1>2, <2>2, <2>3, SumAdd
  <2>6. SumOver(c, first(m)) = SumOver(g, Span(t[0], t[m]))
    BY <1>5, <2>1
  <2>7. SumOver(g, Span(t[0], t[m + 1])) = SumOver(g, Span(t[0], t[m])) + SumOver(g, Span(t[m], t[m + 1]))
    <3>1. t[0] \in Nat /\ t[m] \in Nat /\ t[m + 1] \in Nat /\ t[0] <= t[m] /\ t[m] <= t[m + 1]
      BY <1>1, <2>1
    <3>2. /\ Span(t[0], t[m + 1]) = Span(t[0], t[m]) \cup Span(t[m], t[m + 1])
          /\ Span(t[0], t[m]) \cap Span(t[m], t[m + 1]) = {}
          /\ Span(t[0], t[m]) \in SUBSET Times /\ Span(t[m], t[m + 1]) \in SUBSET Times
      BY <3>1, SpansAreTimes
    <3> QED
      BY <1>2, <3>2, SumUnion
  <2>8. SumOver(g, Span(t[0], t[m])) \in Nat /\ SumOver(g, Span(t[m], t[m + 1])) \in Nat
    BY <1>1, <2>1, SpansAreTimes, NumbersSum
  <2> QED
    BY <2>4, <2>5, <2>6, <2>7, <2>8
<1> HIDE DEF P
<1>6. Nat \subseteq P
  BY <1>4, <1>5, NumberInduction
<1>7. ASSUME NEW m \in 0 .. n PROVE SumOver(Counts(r), FirstSlots(r, m)) = SumOver(g, Span(t[0], t[m]))
  <2>1. m \in P /\ m <= n
    BY <1>1, <1>6
  <2>2. Counts(r) = c /\ FirstSlots(r, m) = first(m)
    BY DEF Counts, FirstSlots
  <2> QED
    BY <2>1, <2>2 DEF P
<1> QED
  BY <1>7

\* The items that are removed, and what is left
Later(t, n, j) == [k \in 0 .. n - j |-> t[k + j]]

LEMMA LaterIs ==
    ASSUME NEW n \in Slots, NEW t \in [0 .. n -> Times], NEW j \in 0 .. n
    PROVE  /\ n - j \in Slots /\ Later(t, n, j) \in [0 .. n - j -> Times]
           /\ \A k \in 0 .. n - j : k + j \in 0 .. n /\ Later(t, n, j)[k] = t[k + j]
           /\ \A k \in 0 .. n - j : Part(Later(t, n, j), n - j, k) = Part(t, n, k + j)
<1> DEFINE l == Later(t, n, j)
<1>1. n \in Nat /\ j \in Nat /\ n - j \in Nat /\ n - j \in Slots
  BY RateConstants DEF Slots
<1>2. ASSUME NEW k \in 0 .. n - j PROVE k + j \in 0 .. n /\ l[k] = t[k + j]
  BY <1>1, <1>2 DEF Later
<1>3. l \in [0 .. n - j -> Times]
  BY <1>1, <1>2 DEF Later
<1>4. ASSUME NEW k \in 0 .. n - j PROVE Part(l, n - j, k) = Part(t, n, k + j)
  <2>1. CASE k < n - j
    <3>1. k + 1 \in 0 .. n - j /\ k + j < n /\ (k + 1) + j = k + j + 1
      BY <1>1, <1>4, <2>1
    <3>2. l[k + 1] = t[k + j + 1] /\ l[k] = t[k + j]
      BY <1>2, <1>4, <3>1
    <3> HIDE DEF l
    <3> QED
      BY <2>1, <3>1, <3>2 DEF Part
  <2>2. CASE ~(k < n - j)
    <3>1. ~(k + j < n)
      BY <1>1, <1>4, <2>2
    <3>2. l[k] = t[k + j]
      BY <1>2, <1>4
    <3> HIDE DEF l
    <3> QED
      BY <2>2, <3>1, <3>2 DEF Part
  <2> QED
    BY <2>1, <2>2
<1> QED
  BY <1>1, <1>2, <1>3, <1>4

LEMMA HoldsIsNotEmpty ==
    ASSUME NEW r, NEW g, NEW n \in Slots, NEW t \in [0 .. n -> Times], Holds(r, n, t, g)
    PROVE  r # EmptyRing /\ r.oldest >= 0 /\ r.newest >= 0
<1>1. n \in 0 .. WindowItems /\ r.oldest \in Slots /\ r.oldest >= 0
  BY RateConstants DEF Slots, Holds
<1>2. r.newest \in Slots /\ r.newest >= 0
  <2>1. At(r.oldest, n) \in Slots
    BY <1>1, AtIs
  <2>2. r.newest = At(r.oldest, n)
    BY DEF Holds
  <2> QED
    BY <2>1, <2>2, RateConstants DEF Slots
<1>3. EmptyRing.oldest = -1
  BY DEF EmptyRing
<1> QED
  BY <1>1, <1>2, <1>3

\* RemoveFirst takes the first j items.
LEMMA RemoveFirstRight ==
    ASSUME RingTyped(ring), NEW g \in [Times -> Nat],
           NEW n \in Slots, NEW t \in [0 .. n -> Times], Holds(ring, n, t, g), NEW j \in 1 .. n
    PROVE  /\ RingTyped(RemoveFirst(j)) /\ RemoveFirst(j).oldest_start = t[j]
           /\ Holds(RemoveFirst(j), n - j, Later(t, n, j), g)
<1> DEFINE o == ring.oldest
           o2 == At(o, j)
           c == [s \in Slots |-> ring.buffer[s].count]
           gone == {At(o, i) : i \in 0 .. j - 1}
           R == RemoveFirst(j)
           l == Later(t, n, j)
<1>1. n \in Nat /\ j \in Nat /\ j \in 0 .. n /\ n < WindowItems /\ o \in Slots
  BY RateConstants DEF Slots, Holds
<1>2. ASSUME NEW k \in 0 .. n PROVE k \in Nat /\ k \in Slots /\ k \in 0 .. WindowItems /\ At(o, k) \in Slots
  <2>1. k \in Nat /\ k \in Slots /\ k \in 0 .. WindowItems
    BY <1>1, <1>2, RateConstants DEF Slots
  <2> QED
    BY <1>1, <2>1, AtIs
<1>3. o2 \in Slots /\ ring.buffer[o2].time = t[j]
  <2>1. ring.buffer[At(ring.oldest, j)] = [count |-> SumOver(g, Part(t, n, j)), time |-> t[j]]
    BY <1>1 DEF Holds
  <2> QED
    BY <1>1, <1>2, <2>1
<1>4. /\ ring.total - SumOver(c, gone) = SumOver(g, From(t[j]))
      /\ SumOver(g, From(t[j])) \in Nat
  <2>1. SumOver(c, gone) = SumOver(g, Span(t[0], t[j])) /\ ring.total = SumOver(g, From(t[0]))
    <3>1. SumOver(Counts(ring), FirstSlots(ring, j)) = SumOver(g, Span(t[0], t[j]))
      BY <1>1, SlotsSum
    <3>3. Counts(ring) = c /\ FirstSlots(ring, j) = gone
      BY DEF Counts, FirstSlots
    <3> HIDE DEF c, gone
    <3>2. ring.total = SumOver(g, From(t[0]))
      BY DEF Holds
    <3> QED
      BY <3>1, <3>2, <3>3
  <2>2. t[0] \in Nat /\ t[j] \in Nat /\ t[0] <= t[j]
    BY <1>1, Starts DEF Holds
  <2>3. /\ From(t[0]) = Span(t[0], t[j]) \cup From(t[j]) /\ Span(t[0], t[j]) \cap From(t[j]) = {}
        /\ Span(t[0], t[j]) \in SUBSET Times /\ From(t[j]) \in SUBSET Times
    BY <2>2, SpansAreTimes
  <2>4. SumOver(g, From(t[0])) = SumOver(g, Span(t[0], t[j])) + SumOver(g, From(t[j]))
    BY <2>3, NumbersSum, SumUnion
  <2>5. SumOver(g, Span(t[0], t[j])) \in Nat /\ SumOver(g, From(t[j])) \in Nat
    BY <2>3, NumbersSum
  <2> HIDE DEF c, gone
  <2> QED
    BY <2>1, <2>4, <2>5
<1> DEFINE left == [s \in Slots |-> IF s \in gone THEN NoItem ELSE ring.buffer[s]]
<1>5. R = [buffer |-> left, newest |-> ring.newest, newest_start |-> ring.newest_start,
           oldest |-> o2, oldest_start |-> t[j], total |-> SumOver(g, From(t[j]))]
  <2>1. /\ Slot(j) = o2 /\ {Slot(i) : i \in 0 .. j - 1} = gone
    BY DEF Slot, At
  <2>2. R = [ring EXCEPT !.total = ring.total - SumOver(c, gone),
                         !.buffer = [s \in Slots |-> IF s \in gone THEN NoItem ELSE ring.buffer[s]],
                         !.oldest = o2, !.oldest_start = ring.buffer[o2].time]
    BY <2>1 DEF RemoveFirst, RingTyped
  <2> HIDE DEF R, gone, c, o2
  <2>3. R = [ring EXCEPT !.total = SumOver(g, From(t[j])), !.buffer = left,
                         !.oldest = o2, !.oldest_start = t[j]]
    BY <1>3, <1>4, <2>2
  <2> HIDE DEF left
  <2> QED
    BY <2>3 DEF RingTyped
<1>6. left \in [Slots -> [count : Nat, time : Nat]]
  BY DEF RingTyped, NoItem
<1>7. RingTyped(R)
  <2>1. t[j] \in Nat /\ o2 \in Int
    <3>1. t[j] \in Nat
      BY <1>1, Starts DEF Holds
    <3> HIDE DEF o2
    <3> QED
      BY <1>3, <3>1, RateConstants
  <2> HIDE DEF R, left, o2
  <2> QED
    BY <1>4, <1>5, <1>6, <2>1 DEF RingTyped
<1>8. /\ l \in [0 .. n - j -> Times] /\ n - j \in Slots /\ n - j \in 0 .. n - j /\ 0 \in 0 .. n - j
      /\ \A k \in 0 .. n - j : k + j \in 0 .. n /\ l[k] = t[k + j] /\ Part(l, n - j, k) = Part(t, n, k + j)
      /\ l[0] = t[j] /\ l[n - j] = t[n]
  <2>1. n - j \in 0 .. n - j /\ 0 \in 0 .. n - j /\ 0 + j = j /\ (n - j) + j = n
    BY <1>1
  <2>2. /\ l \in [0 .. n - j -> Times] /\ n - j \in Slots
        /\ \A k \in 0 .. n - j : k + j \in 0 .. n /\ l[k] = t[k + j] /\ Part(l, n - j, k) = Part(t, n, k + j)
    BY <1>1, LaterIs
  <2> HIDE DEF l
  <2> QED
    BY <2>1, <2>2
<1>9. ASSUME NEW k \in 0 .. n - j
      PROVE  left[At(o2, k)] = [count |-> SumOver(g, Part(l, n - j, k)), time |-> l[k]]
  <2>1. k \in Nat /\ j + k <= WindowItems /\ k + j = j + k /\ k + j \in 0 .. n /\ k + j >= j
    BY <1>1, <1>8, RateConstants
  <2>2. At(o2, k) = At(o, k + j) /\ At(o, k + j) \in Slots
    <3> HIDE DEF o
    <3>1. At(At(o, j), k) = At(o, j + k)
      BY <1>1, <2>1, SlotsShift
    <3> QED
      BY <1>2, <2>1, <3>1
  <2>3. At(o, k + j) \notin gone
    <3>1. ASSUME NEW i \in 0 .. j - 1 PROVE At(o, i) # At(o, k + j)
      <4>1. i \in 0 .. n /\ i # k + j
        BY <1>1, <2>1
      <4> QED
        BY <1>1, <1>2, <2>1, <4>1, SlotsDiffer
    <3> QED
      BY <3>1
  <2>4. ring.buffer[At(o, k + j)] = [count |-> SumOver(g, Part(t, n, k + j)), time |-> t[k + j]]
    BY <2>1 DEF Holds
  <2> HIDE DEF gone, l, o2
  <2> QED
    BY <1>8, <2>2, <2>3, <2>4
<1>10. ring.newest = At(o2, n - j) /\ ring.newest_start = t[n]
  <2>1. n - j \in Nat /\ j + (n - j) <= WindowItems /\ j + (n - j) = n
    BY <1>1, RateConstants
  <2>2. At(o2, n - j) = At(o, n)
    <3> HIDE DEF o
    <3>1. At(At(o, j), n - j) = At(o, j + (n - j))
      BY <1>1, <2>1, SlotsShift
    <3> QED
      BY <2>1, <3>1
  <2> QED
    BY <2>2 DEF Holds
<1>11. Spaced(l, n - j)
  <2>1. ASSUME NEW k \in 0 .. (n - j) - 1 PROVE l[k] + ItemSize <= l[k + 1]
    <3>1. k \in 0 .. n - j /\ k + 1 \in 0 .. n - j /\ k + j \in 0 .. n - 1 /\ (k + 1) + j = (k + j) + 1
      BY <1>1, <2>1
    <3>2. l[k] = t[k + j] /\ l[k + 1] = t[(k + j) + 1]
      BY <1>8, <3>1
    <3> QED
      BY <3>1, <3>2 DEF Holds, Spaced
  <2> QED
    BY <2>1 DEF Spaced
<1>12. Filled(l, n - j, g)
  <2>1. ASSUME NEW k \in 0 .. n - j, NEW u \in Times, g[u] # 0, k < n - j => u < l[k + 1]
        PROVE  u < l[k] + ItemSize
    <3>1. k + j \in 0 .. n /\ l[k] = t[k + j]
      BY <1>8
    <3>2. k + j < n => u < t[(k + j) + 1]
      <4>1. k + j < n => k < n - j /\ k + 1 \in 0 .. n - j /\ (k + 1) + j = (k + j) + 1
        BY <1>1, <2>1
      <4>2. k + j < n => l[k + 1] = t[(k + j) + 1]
        BY <1>8, <4>1
      <4> QED
        BY <2>1, <4>1, <4>2
    <3> QED
      BY <2>1, <3>1, <3>2 DEF Holds, Filled
  <2> QED
    BY <2>1 DEF Filled
<1> HIDE DEF R, l, left, o2, gone, c
<1> QED
  <2>1. /\ R.oldest = o2 /\ R.newest = ring.newest /\ R.oldest_start = t[j] /\ R.buffer = left
        /\ R.newest_start = ring.newest_start /\ R.total = SumOver(g, From(t[j]))
    BY <1>5
  <2>2. Holds(R, n - j, l, g)
    BY <1>3, <1>8, <1>9, <1>10, <1>11, <1>12, <2>1 DEF Holds
  <2> QED
    BY <1>7, <2>1, <2>2 DEF R, l

\* RemoveOldData leaves items that are in the window, and what it removes is not.
LEMMA RemovalRight ==
    ASSUME RingInv, Counted
    PROVE  /\ RingTyped(RemoveOldData) /\ Kept(RemoveOldData, size_at, now)
           /\ Forgets(RemoveOldData, size_at, now)
           /\ RemoveOldData # EmptyRing => ~TooOld(RemoveOldData.oldest_start)
<1> DEFINE R == RemoveOldData
           g == size_at
<1>1. /\ RingTyped(ring) /\ Kept(ring, g, now) /\ Forgets(ring, g, now)
      /\ g \in [Times -> Nat] /\ now \in Nat
  BY RateConstants DEF RingInv, Counted, NoFuture
<1>2. CASE ring = EmptyRing
  <2>1. ring.newest < 0
    BY <1>2 DEF EmptyRing
  <2>2. R = ring
    BY <2>1 DEF RemoveOldData
  <2> HIDE DEF R
  <2> QED
    BY <1>1, <1>2, <2>2 DEF R
<1>3. ASSUME NEW n \in Slots, NEW t \in [0 .. n -> Times], Holds(ring, n, t, g), t[n] <= now
      PROVE  /\ RingTyped(R) /\ Kept(R, g, now) /\ Forgets(R, g, now)
             /\ R # EmptyRing => ~TooOld(R.oldest_start)
  <2>1. ring # EmptyRing /\ ~(ring.newest < 0) /\ ~(ring.oldest < 0)
    <3>1. ring.oldest >= 0 /\ ring.newest >= 0 /\ ring # EmptyRing
      BY <1>3, HoldsIsNotEmpty
    <3> QED
      BY <1>1, <3>1 DEF RingTyped
  <2>2. /\ n \in Nat /\ n < WindowItems /\ 0 \in 0 .. n /\ n \in 0 .. n
        /\ \A k \in 0 .. n : t[k] \in Nat
    BY <1>3, Starts, RateConstants DEF Holds, Slots
  <2>3. ring.oldest_start = t[0] /\ ring.newest_start = t[n]
    BY <1>3 DEF Holds
  <2>4. CASE ~TooOld(t[0])
    <3>1. R = ring
      BY <2>3, <2>4 DEF RemoveOldData
    <3> HIDE DEF R
    <3> QED
      BY <1>1, <2>3, <2>4, <3>1
  <2>5. CASE TooOld(t[0]) /\ TooOld(t[n])
    <3>1. R = EmptyRing
      BY <2>1, <2>3, <2>5 DEF RemoveOldData
    <3>2. RingTyped(EmptyRing)
      BY RateConstants DEF EmptyRing, RingTyped, NoItem
    <3>3. ASSUME NEW u \in Times, g[u] # 0 PROVE u < now - WindowSize + ItemSize
      <4>1. u < t[n] + ItemSize
        BY <1>3, <2>2, <3>3 DEF Holds, Filled
      <4>2. t[n] <= now - WindowSize /\ t[n] \in Nat /\ u \in Nat
        BY <2>2, <2>5, RateConstants DEF TooOld
      <4> QED
        BY <1>1, <4>1, <4>2, RateConstants
    <3> HIDE DEF R
    <3> QED
      BY <3>1, <3>2, <3>3 DEF Kept, Forgets
  <2>6. CASE TooOld(t[0]) /\ ~TooOld(t[n])
    <3> DEFINE Q(m) == /\ ~TooOld(ring.buffer[Slot(m)].time)
                       /\ \A i \in 0 .. m - 1 : TooOld(ring.buffer[Slot(i)].time)
               j == CHOOSE m \in 1 .. WindowItems : Q(m)
    <3>1. ASSUME NEW k \in 0 .. n PROVE ring.buffer[Slot(k)].time = t[k]
      <4>1. Slot(k) = At(ring.oldest, k)
        BY DEF Slot, At
      <4>2. ring.buffer[At(ring.oldest, k)] = [count |-> SumOver(g, Part(t, n, k)), time |-> t[k]]
        BY <1>3 DEF Holds
      <4> QED
        BY <4>1, <4>2
    <3>2. \E m \in 1 .. WindowItems : Q(m)
      <4> DEFINE T == {m \in 1 .. n : ~TooOld(t[m])}
      <4>1. n # 0
        BY <2>6
      <4>2. T \subseteq Nat /\ n \in T
        BY <2>2, <2>6, <4>1
      <4>3. PICK m \in T : \A i \in T : m <= i
        BY <4>2, LeastOf
      <4>4. m \in 1 .. WindowItems /\ m \in 0 .. n /\ ~TooOld(t[m])
        BY <2>2, <4>3, RateConstants
      <4>5. ASSUME NEW i \in 0 .. m - 1 PROVE i \in 0 .. n /\ TooOld(t[i])
        <5>1. i \in 0 .. n /\ i < m
          BY <2>2, <4>4
        <5>2. CASE i = 0
          BY <2>6, <5>1, <5>2
        <5>3. CASE i # 0
          <6>1. i \in 1 .. n /\ i \notin T
            BY <4>3, <5>1, <5>3
          <6> QED
            BY <5>1, <6>1
        <5> QED
          BY <5>2, <5>3
      <4>6. Q(m)
        BY <3>1, <4>4, <4>5
      <4> QED
        BY <4>4, <4>6
    <3>3. j \in 1 .. WindowItems /\ Q(j)
      BY <3>2
    <3>4. R = RemoveFirst(j)
      BY <2>1, <2>3, <2>6 DEF RemoveOldData
    <3> HIDE DEF j, R
    <3>5. j \in 1 .. n
      <4>1. n \in 0 .. j - 1 => TooOld(t[n])
        BY <2>2, <3>1, <3>3
      <4> QED
        BY <2>2, <2>6, <3>3, <4>1
    <3>6. j - 1 \in 0 .. n /\ j \in 0 .. n /\ j - 1 \in 0 .. j - 1 /\ j - 1 < n /\ (j - 1) + 1 = j
      BY <2>2, <3>5
    <3>7. TooOld(t[j - 1]) /\ ~TooOld(t[j])
      BY <3>1, <3>3, <3>6
    <3>8. /\ RingTyped(R) /\ R.oldest_start = t[j]
          /\ Holds(R, n - j, Later(t, n, j), g)
      BY <1>1, <1>3, <3>4, <3>5, RemoveFirstRight
    <3>9. n - j \in Slots /\ Later(t, n, j) \in [0 .. n - j -> Times] /\ Later(t, n, j)[n - j] = t[n]
      <4>1. n - j \in 0 .. n - j /\ (n - j) + j = n
        BY <2>2, <3>5
      <4>2. /\ n - j \in Slots /\ Later(t, n, j) \in [0 .. n - j -> Times]
            /\ \A k \in 0 .. n - j : Later(t, n, j)[k] = t[k + j]
        BY <3>6, LaterIs
      <4> QED
        BY <4>1, <4>2
    <3>10. Kept(R, g, now)
      BY <1>3, <3>8, <3>9 DEF Kept
    <3>11. R # EmptyRing
      BY <3>8, <3>9, HoldsIsNotEmpty
    <3>12. ASSUME NEW u \in Times, g[u] # 0, u < t[j] PROVE u < now - WindowSize + ItemSize
      <4>1. u < t[j - 1] + ItemSize
        BY <1>3, <3>6, <3>12 DEF Holds, Filled
      <4>2. t[j - 1] <= now - WindowSize /\ t[j - 1] \in Nat /\ u \in Nat
        BY <2>2, <3>6, <3>7, RateConstants DEF TooOld
      <4> QED
        BY <1>1, <4>1, <4>2, RateConstants
    <3>13. Forgets(R, g, now)
      BY <3>8, <3>11, <3>12 DEF Forgets
    <3> QED
      BY <3>7, <3>8, <3>10, <3>13
  <2> QED
    BY <2>4, <2>5, <2>6
<1> HIDE DEF R
<1>4. CASE ring # EmptyRing
  <2>1. PICK n \in Slots : \E t \in [0 .. n -> Times] : Holds(ring, n, t, g) /\ t[n] <= now
    BY <1>1, <1>4 DEF Kept
  <2>2. PICK t \in [0 .. n -> Times] : Holds(ring, n, t, g) /\ t[n] <= now
    BY <2>1
  <2> QED
    BY <1>3, <2>2 DEF R
<1> QED
  BY <1>2, <1>4 DEF R

--------------------------------------------------------------------------------
(* Update                                                                  *)

CountedNow(size) == [size_at EXCEPT ![now] = @ + size]

\* What is counted now is in the sums over times that have now.
LEMMA CountingNow ==
    ASSUME Counted, NEW size \in Nat, NEW g, g = CountedNow(size)
    PROVE  /\ NoFuture(g) /\ g[now] = size_at[now] + size
           /\ \A u \in Times : u # now => g[u] = size_at[u]
           /\ \A T \in SUBSET Times :
                SumOver(g, T) = IF now \in T THEN SumOver(size_at, T) + size ELSE SumOver(size_at, T)
           /\ size_at[now] = 0 => SumOver(size_at, From(now)) = 0
<1>1. now \in Times /\ now \in Nat /\ size_at \in [Times -> Nat] /\ \A u \in Times : u > now => size_at[u] = 0
  BY RateConstants DEF Counted, NoFuture
<1>2. g \in [Times -> Nat] /\ g[now] = size_at[now] + size /\ \A u \in Times \ {now} : g[u] = size_at[u]
  BY <1>1 DEF CountedNow
<1>3. NoFuture(g)
  <2>1. ASSUME NEW u \in Times, u > now PROVE g[u] = 0
    <3>1. u # now
      BY <1>1, <2>1
    <3> QED
      BY <1>1, <1>2, <2>1, <3>1
  <2> QED
    BY <1>2, <2>1 DEF NoFuture
<1>4. ASSUME NEW T \in SUBSET Times
      PROVE  SumOver(g, T) = IF now \in T THEN SumOver(size_at, T) + size ELSE SumOver(size_at, T)
  <2>1. Summable(size_at, Times)
    BY <1>1, NumbersSum
  <2>2. CASE now \in T
    <3>1. SumOver(g, T) = SumOver(size_at, T) + size
      <4>1. g[now] = size_at[now] + size /\ \A u \in Times \ {now} : g[u] = size_at[u]
        BY <1>2
      <4> QED
        BY <2>1, <2>2, <4>1, SumMore
    <3> QED
      BY <2>2, <3>1
  <2>3. CASE now \notin T
    <3>1. IsFiniteSet(T) /\ \A u \in T : g[u] = size_at[u]
      BY <1>2, <2>3, RateConstants, FS_Subset
    <3>2. SumOver(g, T) = SumOver(size_at, T)
      BY <3>1, SumEqual
    <3> QED
      BY <2>3, <3>2
  <2> QED
    BY <2>2, <2>3
<1>5. ASSUME size_at[now] = 0 PROVE SumOver(size_at, From(now)) = 0
  <2>1. ASSUME NEW u \in From(now) PROVE size_at[u] = 0
    <3>1. u \in Times /\ u \in Nat /\ (u = now \/ u > now)
      BY <1>1, RateConstants DEF From
    <3> QED
      BY <1>1, <1>5, <3>1
  <2>2. IsFiniteSet(From(now))
    BY <1>1, SpansAreTimes, RateConstants, FS_Subset
  <2> QED
    BY <2>1, <2>2, SumOfZeros
<1> QED
  BY <1>2, <1>3, <1>4, <1>5

\* The first item of an empty ring
LEMMA AddFirst ==
    ASSUME Counted, NEW r, r = EmptyRing, Forgets(r, size_at, now),
           NEW size \in Nat, NEW g, g = CountedNow(size)
    PROVE  RingTyped(Add(r, size)) /\ Kept(Add(r, size), g, now) /\ Forgets(Add(r, size), g, now)
<1> DEFINE A == Add(r, size)
           t == [k \in 0 .. 0 |-> now]
<1>1. /\ now \in Times /\ now \in Nat /\ size_at \in [Times -> Nat] /\ NoFuture(g)
      /\ g[now] = size_at[now] + size /\ \A u \in Times : u # now => g[u] = size_at[u]
  BY CountingNow, RateConstants DEF Counted, NoFuture
<1>2. size_at[now] = 0
  <2>1. size_at[now] # 0 => now < now - WindowSize + ItemSize
    BY <1>1 DEF Forgets
  <2> QED
    BY <1>1, <2>1, RateConstants
<1>3. SumOver(g, From(now)) = size
  <2>1. From(now) \in SUBSET Times /\ now \in From(now)
    BY <1>1 DEF From
  <2>2. SumOver(g, From(now)) = SumOver(size_at, From(now)) + size
    BY <2>1, CountingNow
  <2>3. SumOver(size_at, From(now)) = 0
    BY <1>2, CountingNow
  <2> QED
    BY <2>2, <2>3
<1>4. At(0, 0) = 0 /\ 0 \in Slots /\ (-1 + 1) % WindowItems = 0
  <2>1. 0 = 0 * WindowItems + 0 /\ 0 \in 0 .. WindowItems - 1
    BY RateConstants
  <2>2. 0 % WindowItems = 0
    BY <2>1, Remainder, RateConstants
  <2> QED
    BY <2>2, RateConstants DEF At
<1> DEFINE b == [[i \in Slots |-> NoItem] EXCEPT ![0] = [count |-> size, time |-> now]]
<1>5. A = [buffer |-> b, newest |-> 0, newest_start |-> now, oldest |-> 0, oldest_start |-> now, total |-> size]
  <2>1. /\ r.newest = -1 /\ r.oldest = -1 /\ r.total = 0 /\ r.buffer = [i \in Slots |-> NoItem]
        /\ r.newest_start = 0 /\ r.oldest_start = 0 /\ RingTyped(r)
    BY RateConstants DEF EmptyRing, RingTyped, NoItem
  <2>2. b = [r.buffer EXCEPT ![0] = [count |-> size, time |-> now]] /\ 0 + size = size
    BY <2>1
  <2> HIDE DEF b
  <2>3. (r.newest + 1) % WindowItems = 0 /\ r.newest < 0 /\ r.oldest < 0
    BY <1>4, <2>1
  <2>4. A = [r EXCEPT !.newest = 0, !.newest_start = now, !.buffer = b,
                      !.oldest = 0, !.oldest_start = now, !.total = r.total + size]
    BY <2>1, <2>2, <2>3 DEF Add, RingTyped
  <2> HIDE DEF A
  <2> QED
    BY <2>1, <2>2, <2>4 DEF RingTyped
<1>6. b \in [Slots -> [count : Nat, time : Nat]] /\ b[0] = [count |-> size, time |-> now]
  BY <1>1, <1>4 DEF NoItem
<1> HIDE DEF A, b
<1>7. RingTyped(A)
  BY <1>1, <1>5, <1>6 DEF RingTyped
<1>8. t \in [0 .. 0 -> Times] /\ t[0] = now
  BY <1>1
<1>9. Spaced(t, 0)
  BY DEF Spaced
<1>10. Filled(t, 0, g)
  <2>1. ASSUME NEW k \in 0 .. 0, NEW u \in Times, g[u] # 0 PROVE u < t[k] + ItemSize
    <3>1. u \in Nat /\ ~(u > now) /\ t[k] = now
      BY <1>1, <2>1, RateConstants DEF NoFuture
    <3> HIDE DEF t
    <3> QED
      BY <1>1, <3>1, RateConstants
  <2> QED
    BY <2>1 DEF Filled
<1> HIDE DEF t
<1>11. Holds(A, 0, t, g)
  <2>1. Part(t, 0, 0) = From(now)
    BY <1>8 DEF Part
  <2>2. \A k \in 0 .. 0 : A.buffer[At(0, k)] = [count |-> SumOver(g, Part(t, 0, k)), time |-> t[k]]
    <3> SUFFICES A.buffer[At(0, 0)] = [count |-> SumOver(g, Part(t, 0, 0)), time |-> t[0]]
      OBVIOUS
    <3> QED
      BY <1>3, <1>4, <1>5, <1>6, <1>8, <2>1
  <2> QED
    BY <1>3, <1>4, <1>5, <1>8, <1>9, <1>10, <2>2 DEF Holds
<1>12. Kept(A, g, now)
  <2>1. \E u \in [0 .. 0 -> Times] : Holds(A, 0, u, g) /\ u[0] <= now
    BY <1>1, <1>8, <1>11
  <2> QED
    BY <1>4, <2>1 DEF Kept
<1>13. A # EmptyRing /\ A.oldest_start = now
  BY <1>4, <1>5, <1>8, <1>11, HoldsIsNotEmpty
<1>14. Forgets(A, g, now)
  <2>1. ASSUME NEW u \in Times, g[u] # 0, u < now PROVE u < now - WindowSize + ItemSize
    <3>1. size_at[u] # 0
      BY <1>1, <2>1
    <3> QED
      BY <3>1 DEF Forgets
  <2> QED
    BY <1>13, <2>1 DEF Forgets
<1> QED
  BY <1>7, <1>12, <1>14 DEF A

\* Items in the window leave a slot for one more.
LEMMA SlotIsFree ==
    ASSUME NEW n \in Slots, NEW t \in [0 .. n -> Times], Spaced(t, n), now \in Nat,
           now - t[n] >= ItemSize, ~TooOld(t[0])
    PROVE  n + 1 \in Slots
<1>1. /\ n \in Nat /\ t[0] \in Nat /\ t[n] \in Nat /\ t[0] + n * ItemSize <= t[n]
  <2>1. n \in Nat /\ n \in 0 .. n /\ t[0] \in Nat /\ t[n] \in Nat
    BY Starts
  <2> QED
    BY <2>1, SpacedOut
<1>2. now - t[0] < WindowItems * ItemSize
  BY <1>1, RateConstants DEF TooOld, WindowSize
<1>3. (n + 1) * ItemSize = n * ItemSize + ItemSize /\ n * ItemSize \in Nat
  BY <1>1, RateConstants
<1>4. WindowItems * ItemSize \in Nat
  BY RateConstants
<1>5. (n + 1) * ItemSize < WindowItems * ItemSize
  BY <1>1, <1>2, <1>3, <1>4, RateConstants
<1>6. ASSUME n + 1 >= WindowItems PROVE FALSE
  <2> DEFINE d == n + 1 - WindowItems
  <2>1. d \in Nat /\ n + 1 = WindowItems + d
    BY <1>1, <1>6, RateConstants
  <2> HIDE DEF d
  <2>2. (WindowItems + d) * ItemSize = WindowItems * ItemSize + d * ItemSize /\ d * ItemSize \in Nat
    BY <2>1, RateConstants
  <2>3. (n + 1) * ItemSize = WindowItems * ItemSize + d * ItemSize
    BY <2>1, <2>2
  <2> QED
    BY <1>4, <1>5, <2>2, <2>3
<1> QED
  BY <1>1, <1>6, RateConstants DEF Slots

\* A new item after the newest one
LEMMA AddNew ==
    ASSUME Counted, NEW r, RingTyped(r), NEW n \in Slots, NEW t \in [0 .. n -> Times],
           Holds(r, n, t, size_at), t[n] <= now, Forgets(r, size_at, now), ~TooOld(r.oldest_start),
           NEW size \in Nat, NEW g, g = CountedNow(size), now - t[n] >= ItemSize
    PROVE  RingTyped(Add(r, size)) /\ Kept(Add(r, size), g, now) /\ Forgets(Add(r, size), g, now)
<1> DEFINE A == Add(r, size)
           o == r.oldest
           next == At(o, n + 1)
           q == [k \in 0 .. n + 1 |-> IF k <= n THEN t[k] ELSE now]
           b == [r.buffer EXCEPT ![next] = [count |-> size, time |-> now]]
<1>1. /\ now \in Times /\ now \in Nat /\ size_at \in [Times -> Nat] /\ NoFuture(g)
      /\ g[now] = size_at[now] + size /\ \A u \in Times : u # now => g[u] = size_at[u]
  <2>1. NoFuture(g) /\ g[now] = size_at[now] + size /\ \A u \in Times : u # now => g[u] = size_at[u]
    BY CountingNow
  <2>2. now \in Times /\ now \in Nat /\ size_at \in [Times -> Nat]
    BY RateConstants DEF Counted, NoFuture
  <2> QED
    BY <2>1, <2>2
<1>2. /\ n \in Nat /\ 0 \in 0 .. n /\ n \in 0 .. n /\ o \in Slots
      /\ \A k \in 0 .. n : t[k] \in Nat /\ t[k] \in Times /\ t[0] <= t[k] /\ t[k] <= t[n]
      /\ \A k \in 0 .. n - 1 : k \in 0 .. n /\ k + 1 \in 0 .. n /\ t[k] <= t[k + 1]
  BY Starts DEF Holds
<1>3. n + 1 \in Slots /\ n + 1 \in 0 .. WindowItems /\ n + 1 <= WindowItems
  <2>1. n + 1 \in Slots
    BY <1>1, SlotIsFree DEF Holds
  <2> QED
    BY <2>1, RateConstants DEF Slots
<1>4. next \in Slots /\ (r.newest + 1) % WindowItems = next
  <2>1. At(At(o, n), 1) = At(o, n + 1)
    BY <1>2, <1>3, SlotsShift
  <2> QED
    BY <1>2, <1>3, <2>1, AtIs DEF At, Holds
<1>5. ~(r.newest < 0) /\ ~(r.oldest < 0) /\ r # EmptyRing
  <2>1. r.newest >= 0 /\ r.oldest >= 0 /\ r # EmptyRing
    BY HoldsIsNotEmpty
  <2> QED
    BY <2>1 DEF RingTyped
<1>6. A = [buffer |-> b, newest |-> next, newest_start |-> now, oldest |-> o,
           oldest_start |-> t[0], total |-> r.total + size]
  <2>1. now - r.newest_start >= ItemSize /\ r.oldest_start = t[0]
    BY DEF Holds
  <2>2. A = [r EXCEPT !.newest = next, !.newest_start = now,
                      !.buffer = b, !.oldest = o, !.oldest_start = t[0], !.total = r.total + size]
    <3> HIDE DEF next
    <3> QED
      BY <1>4, <1>5, <2>1 DEF Add, RingTyped
  <2> HIDE DEF A, b, next
  <2> QED
    BY <2>2 DEF RingTyped
<1>7. /\ b \in [Slots -> [count : Nat, time : Nat]] /\ b[next] = [count |-> size, time |-> now]
      /\ \A s \in Slots : s # next => b[s] = r.buffer[s]
  BY <1>1, <1>4 DEF RingTyped
<1> HIDE DEF A, b, next
<1>8. RingTyped(A)
  <2>1. r.total + size \in Nat
    BY DEF RingTyped
  <2> HIDE DEF o
  <2>2. next \in Int /\ o \in Int
    BY <1>2, <1>4, RateConstants DEF Slots
  <2>3. t[0] \in Nat
    BY <1>2
  <2> QED
    BY <1>1, <1>6, <1>7, <2>1, <2>2, <2>3 DEF RingTyped
<1>9. /\ q \in [0 .. n + 1 -> Times] /\ q[n + 1] = now /\ \A k \in 0 .. n : q[k] = t[k] /\ k \in 0 .. n + 1
      /\ n + 1 \in 0 .. n + 1
  BY <1>1, <1>2
<1> HIDE DEF q
<1>10. size_at[now] = 0
  <2>1. size_at[now] # 0 => now < t[n] + ItemSize
    BY <1>1, <1>2 DEF Holds, Filled
  <2> QED
    BY <1>1, <1>2, <2>1, RateConstants
<1>11. ASSUME NEW k \in 0 .. n
       PROVE  b[At(o, k)] = [count |-> SumOver(g, Part(q, n + 1, k)), time |-> q[k]]
  <2>1. k \in Slots /\ k \in 0 .. WindowItems /\ k # n + 1 /\ k < n + 1
    BY <1>2, <1>3, RateConstants DEF Slots
  <2>2. At(o, k) \in Slots /\ At(o, k) # next
    BY <1>2, <1>3, <2>1, AtIs, SlotsDiffer DEF next
  <2>3. b[At(o, k)] = [count |-> SumOver(size_at, Part(t, n, k)), time |-> t[k]]
    BY <1>7, <2>2 DEF Holds
  <2>4. SumOver(g, Part(q, n + 1, k)) = SumOver(size_at, Part(t, n, k))
    <3>1. CASE k < n
      <4>1. k + 1 \in 0 .. n /\ k \in 0 .. n
        BY <1>2, <3>1
      <4>2. Part(q, n + 1, k) = Span(t[k], t[k + 1]) /\ Part(t, n, k) = Span(t[k], t[k + 1])
        BY <1>9, <2>1, <3>1, <4>1 DEF Part
      <4>3. Span(t[k], t[k + 1]) \in SUBSET Times
        BY <1>2, <4>1, SpansAreTimes
      <4>4. now \notin Span(t[k], t[k + 1])
        BY <1>1, <1>2, <4>1 DEF Span
      <4>5. SumOver(size_at, Span(t[k], t[k + 1])) \in Nat
        BY <1>1, <4>3, NumbersSum
      <4>6. SumOver(g, Span(t[k], t[k + 1])) = SumOver(size_at, Span(t[k], t[k + 1]))
        BY <4>3, <4>4, CountingNow
      <4> QED
        BY <4>2, <4>5, <4>6
    <3>2. CASE k = n
      <4>1. Part(q, n + 1, k) = Span(t[n], now) /\ Part(t, n, k) = From(t[n])
        BY <1>2, <1>9, <2>1, <3>2 DEF Part
      <4>2. /\ From(t[n]) = Span(t[n], now) \cup From(now) /\ Span(t[n], now) \cap From(now) = {}
            /\ Span(t[n], now) \in SUBSET Times /\ From(now) \in SUBSET Times
        BY <1>1, <1>2, SpansAreTimes
      <4>3. SumOver(size_at, From(t[n])) = SumOver(size_at, Span(t[n], now)) + SumOver(size_at, From(now))
        BY <1>1, <4>2, NumbersSum, SumUnion
      <4>4. SumOver(size_at, From(now)) = 0 /\ SumOver(size_at, Span(t[n], now)) \in Nat
        BY <1>1, <1>10, <4>2, CountingNow, NumbersSum
      <4>5. now \notin Span(t[n], now)
        BY <1>1 DEF Span
      <4>6. SumOver(g, Span(t[n], now)) = SumOver(size_at, Span(t[n], now))
        BY <4>2, <4>5, CountingNow
      <4> QED
        BY <4>1, <4>3, <4>4, <4>6
    <3> QED
      BY <1>2, <3>1, <3>2
  <2> QED
    BY <1>9, <2>3, <2>4
<1>12. b[At(o, n + 1)] = [count |-> SumOver(g, Part(q, n + 1, n + 1)), time |-> q[n + 1]]
  <2>1. Part(q, n + 1, n + 1) = From(now)
    BY <1>2, <1>9 DEF Part
  <2>2. From(now) \in SUBSET Times /\ now \in From(now)
    BY <1>1 DEF From
  <2>3. SumOver(g, From(now)) = SumOver(size_at, From(now)) + size
    BY <2>2, CountingNow
  <2>4. SumOver(size_at, From(now)) = 0
    BY <1>10, CountingNow
  <2>5. SumOver(g, From(now)) = size
    BY <2>3, <2>4
  <2> QED
    BY <1>7, <1>9, <2>1, <2>5 DEF next
<1>13. r.total + size = SumOver(g, From(t[0]))
  <2>1. From(t[0]) \in SUBSET Times /\ now \in From(t[0])
    BY <1>1, <1>2 DEF From
  <2>2. SumOver(g, From(t[0])) = SumOver(size_at, From(t[0])) + size
    BY <2>1, CountingNow
  <2> QED
    BY <2>2 DEF Holds
<1>14. Spaced(q, n + 1)
  <2>1. ASSUME NEW k \in 0 .. (n + 1) - 1 PROVE q[k] + ItemSize <= q[k + 1]
    <3>1. CASE k = n
      <4>1. q[k] = t[n] /\ q[k + 1] = now
        BY <1>2, <1>9, <3>1
      <4> QED
        BY <1>1, <1>2, <4>1, RateConstants
    <3>2. CASE k # n
      <4>1. k \in 0 .. n - 1
        BY <1>2, <3>2
      <4>2. q[k] = t[k] /\ q[k + 1] = t[k + 1]
        BY <1>2, <1>9, <4>1
      <4> QED
        BY <4>1, <4>2 DEF Holds, Spaced
    <3> QED
      BY <3>1, <3>2
  <2> QED
    BY <2>1 DEF Spaced
<1>15. Filled(q, n + 1, g)
  <2>1. ASSUME NEW k \in 0 .. n + 1, NEW u \in Times, g[u] # 0, k < n + 1 => u < q[k + 1]
        PROVE  u < q[k] + ItemSize
    <3>1. u \in Nat /\ ~(u > now)
      BY <1>1, <2>1, RateConstants DEF NoFuture
    <3>2. CASE k = n + 1
      BY <1>1, <1>9, <3>1, <3>2, RateConstants
    <3>3. CASE k = n
      <4>1. u < now /\ q[k] = t[n]
        BY <1>2, <1>9, <2>1, <3>3
      <4>2. size_at[u] # 0
        BY <1>1, <2>1, <4>1
      <4>3. u < t[n] + ItemSize
        BY <1>2, <4>2 DEF Holds, Filled
      <4> QED
        BY <4>1, <4>3
    <3>4. CASE k < n
      <4>1. k \in 0 .. n - 1 /\ k \in 0 .. n /\ k + 1 \in 0 .. n
        BY <1>2, <3>4
      <4>2. q[k] = t[k] /\ q[k + 1] = t[k + 1] /\ u < t[k + 1]
        BY <1>2, <1>9, <2>1, <3>4, <4>1
      <4>3. u # now
        BY <1>1, <1>2, <4>1, <4>2
      <4>4. size_at[u] # 0
        BY <1>1, <2>1, <4>3
      <4>5. u < t[k] + ItemSize
        BY <4>1, <4>2, <4>4 DEF Holds, Filled
      <4> QED
        BY <4>2, <4>5
    <3> QED
      BY <1>2, <3>2, <3>3, <3>4
  <2> QED
    BY <2>1 DEF Filled
<1>16. Holds(A, n + 1, q, g)
  <2>1. ASSUME NEW k \in 0 .. n + 1
        PROVE  b[At(o, k)] = [count |-> SumOver(g, Part(q, n + 1, k)), time |-> q[k]]
    <3>1. k \in 0 .. n \/ k = n + 1
      BY <1>2
    <3> QED
      BY <1>11, <1>12, <3>1
  <2>2. /\ A.oldest = o /\ A.newest = At(o, n + 1) /\ A.oldest_start = q[0] /\ A.newest_start = q[n + 1]
        /\ A.buffer = b /\ A.total = SumOver(g, From(q[0]))
    BY <1>2, <1>6, <1>9, <1>13 DEF next
  <2> HIDE DEF o
  <2> QED
    BY <1>2, <1>3, <1>9, <1>14, <1>15, <2>1, <2>2 DEF Holds
<1>17. Kept(A, g, now)
  BY <1>1, <1>3, <1>9, <1>16 DEF Kept
<1>18. A # EmptyRing /\ A.oldest_start = t[0]
  BY <1>3, <1>6, <1>9, <1>16, HoldsIsNotEmpty
<1>19. Forgets(A, g, now)
  <2>1. ASSUME NEW u \in Times, g[u] # 0, u < t[0] PROVE u < now - WindowSize + ItemSize
    <3>1. u # now
      BY <1>1, <1>2, <2>1
    <3>2. size_at[u] # 0 /\ r.oldest_start = t[0]
      BY <1>1, <2>1, <3>1 DEF Holds
    <3> QED
      BY <2>1, <3>2 DEF Forgets
  <2> QED
    BY <1>18, <2>1 DEF Forgets
<1> QED
  BY <1>8, <1>17, <1>19 DEF A

\* More for the newest item
LEMMA AddSame ==
    ASSUME Counted, NEW r, RingTyped(r), NEW n \in Slots, NEW t \in [0 .. n -> Times],
           Holds(r, n, t, size_at), t[n] <= now, Forgets(r, size_at, now),
           NEW size \in Nat, NEW g, g = CountedNow(size), ~(now - t[n] >= ItemSize)
    PROVE  RingTyped(Add(r, size)) /\ Kept(Add(r, size), g, now) /\ Forgets(Add(r, size), g, now)
<1> DEFINE A == Add(r, size)
           o == r.oldest
           last == At(o, n)
           b == [r.buffer EXCEPT ![last] = [count |-> r.buffer[last].count + size,
                                            time |-> r.buffer[last].time]]
<1>1. /\ now \in Times /\ now \in Nat /\ size_at \in [Times -> Nat] /\ NoFuture(g)
      /\ g[now] = size_at[now] + size /\ \A u \in Times : u # now => g[u] = size_at[u]
  <2>1. NoFuture(g) /\ g[now] = size_at[now] + size /\ \A u \in Times : u # now => g[u] = size_at[u]
    BY CountingNow
  <2>2. now \in Times /\ now \in Nat /\ size_at \in [Times -> Nat]
    BY RateConstants DEF Counted, NoFuture
  <2> QED
    BY <2>1, <2>2
<1>2. /\ n \in Nat /\ 0 \in 0 .. n /\ n \in 0 .. n /\ o \in Slots
      /\ \A k \in 0 .. n : t[k] \in Nat /\ t[k] \in Times /\ t[0] <= t[k] /\ t[k] <= t[n]
      /\ \A k \in 0 .. n - 1 : k \in 0 .. n /\ k + 1 \in 0 .. n /\ t[k] <= t[k + 1]
  BY Starts DEF Holds
<1>3. ASSUME NEW k \in 0 .. n PROVE k \in Slots /\ At(o, k) \in Slots
  <2>1. k \in Slots /\ k \in 0 .. WindowItems
    BY <1>2, RateConstants DEF Slots
  <2> QED
    BY <1>2, <2>1, AtIs
<1>4. last \in Slots /\ r.newest = last
  BY <1>2, <1>3 DEF Holds
<1>5. ~(r.newest < 0) /\ r # EmptyRing
  <2>1. r.newest >= 0 /\ r # EmptyRing
    BY HoldsIsNotEmpty
  <2> QED
    BY <2>1 DEF RingTyped
<1>6. A = [buffer |-> b, newest |-> last, newest_start |-> t[n], oldest |-> o,
           oldest_start |-> t[0], total |-> r.total + size]
  <2>1. ~(now - r.newest_start >= ItemSize) /\ r.oldest_start = t[0] /\ r.newest_start = t[n]
    BY DEF Holds
  <2>2. A = [r EXCEPT !.buffer[last].count = @ + size, !.total = @ + size]
    <3> HIDE DEF last
    <3> QED
      BY <1>4, <1>5, <2>1 DEF Add
  <2>3. A = [r EXCEPT !.buffer = b, !.total = r.total + size]
    <3> HIDE DEF A, last
    <3>1. [r.buffer[last] EXCEPT !.count = @ + size] =
              [count |-> r.buffer[last].count + size, time |-> r.buffer[last].time]
      BY <1>4 DEF RingTyped
    <3> QED
      BY <1>4, <2>2, <3>1 DEF RingTyped
  <2> HIDE DEF A, b
  <2> QED
    BY <1>4, <2>1, <2>3 DEF RingTyped
<1>7. /\ b \in [Slots -> [count : Nat, time : Nat]]
      /\ b[last] = [count |-> r.buffer[last].count + size, time |-> r.buffer[last].time]
      /\ \A s \in Slots : s # last => b[s] = r.buffer[s]
  BY <1>4 DEF RingTyped
<1> HIDE DEF A, b, last
<1>8. RingTyped(A)
  <2>1. r.total + size \in Nat
    BY DEF RingTyped
  <2> HIDE DEF o
  <2>2. last \in Int /\ o \in Int
    BY <1>2, <1>4, RateConstants DEF Slots
  <2>3. t[0] \in Nat /\ t[n] \in Nat
    BY <1>2
  <2> QED
    BY <1>6, <1>7, <2>1, <2>2, <2>3 DEF RingTyped
<1>9. ASSUME NEW k \in 0 .. n
      PROVE  b[At(o, k)] = [count |-> SumOver(g, Part(t, n, k)), time |-> t[k]]
  <2>1. r.buffer[At(o, k)] = [count |-> SumOver(size_at, Part(t, n, k)), time |-> t[k]]
    BY DEF Holds
  <2>2. CASE k = n
    <3>1. Part(t, n, k) = From(t[n])
      BY <1>2, <2>2 DEF Part
    <3>2. From(t[n]) \in SUBSET Times /\ now \in From(t[n])
      BY <1>1, <1>2 DEF From
    <3>3. SumOver(g, From(t[n])) = SumOver(size_at, From(t[n])) + size
      BY <3>2, CountingNow
    <3> QED
      BY <1>7, <2>1, <2>2, <3>1, <3>3 DEF last
  <2>3. CASE k # n
    <3>1. k \in 0 .. n - 1 /\ k < n /\ k + 1 \in 0 .. n
      BY <1>2, <2>3
    <3>2. Part(t, n, k) = Span(t[k], t[k + 1]) /\ Span(t[k], t[k + 1]) \in SUBSET Times
      BY <1>2, <3>1, SpansAreTimes DEF Part
    <3>3. now \notin Span(t[k], t[k + 1])
      BY <1>1, <1>2, <3>1 DEF Span
    <3>4. SumOver(size_at, Span(t[k], t[k + 1])) \in Nat
      BY <1>1, <3>2, NumbersSum
    <3>5. SumOver(g, Span(t[k], t[k + 1])) = SumOver(size_at, Span(t[k], t[k + 1]))
      BY <3>2, <3>3, CountingNow
    <3>6. At(o, k) # last
      BY <1>2, <1>3, <2>3, SlotsDiffer DEF last
    <3> QED
      BY <1>3, <1>7, <2>1, <3>2, <3>4, <3>5, <3>6
  <2> QED
    BY <2>2, <2>3
<1>10. r.total + size = SumOver(g, From(t[0]))
  <2>1. From(t[0]) \in SUBSET Times /\ now \in From(t[0])
    BY <1>1, <1>2 DEF From
  <2>2. SumOver(g, From(t[0])) = SumOver(size_at, From(t[0])) + size
    BY <2>1, CountingNow
  <2> QED
    BY <2>2 DEF Holds
<1>11. Filled(t, n, g)
  <2>1. ASSUME NEW k \in 0 .. n, NEW u \in Times, g[u] # 0, k < n => u < t[k + 1]
        PROVE  u < t[k] + ItemSize
    <3>1. CASE u # now
      <4>1. size_at[u] # 0
        BY <1>1, <2>1, <3>1
      <4> QED
        BY <2>1, <4>1 DEF Holds, Filled
    <3>2. CASE u = now /\ k = n
      BY <1>1, <1>2, <3>2, RateConstants
    <3>3. CASE u = now /\ k # n
      <4>1. k \in 0 .. n - 1 /\ k < n /\ k + 1 \in 0 .. n
        BY <1>2, <3>3
      <4> QED
        BY <1>1, <1>2, <2>1, <3>3, <4>1
    <3> QED
      BY <3>1, <3>2, <3>3
  <2> QED
    BY <2>1 DEF Filled
<1>12. Holds(A, n, t, g)
  <2>1. /\ A.oldest = o /\ A.newest = At(o, n) /\ A.oldest_start = t[0] /\ A.newest_start = t[n]
        /\ A.buffer = b /\ A.total = SumOver(g, From(t[0]))
    BY <1>6, <1>10 DEF last
  <2>2. Spaced(t, n)
    BY DEF Holds
  <2> HIDE DEF o
  <2> QED
    BY <1>2, <1>9, <1>11, <2>1, <2>2 DEF Holds
<1>13. Kept(A, g, now)
  BY <1>12 DEF Kept
<1>14. A # EmptyRing /\ A.oldest_start = t[0]
  BY <1>6, <1>12, HoldsIsNotEmpty
<1>15. Forgets(A, g, now)
  <2>1. ASSUME NEW u \in Times, g[u] # 0, u < t[0] PROVE u < now - WindowSize + ItemSize
    <3>1. u # now
      BY <1>1, <1>2, <2>1
    <3>2. size_at[u] # 0 /\ r.oldest_start = t[0]
      BY <1>1, <2>1, <3>1 DEF Holds
    <3> QED
      BY <2>1, <3>2 DEF Forgets
  <2> QED
    BY <1>14, <2>1 DEF Forgets
<1> QED
  BY <1>8, <1>13, <1>15 DEF A

LEMMA AddRight ==
    ASSUME Counted, NEW r, RingTyped(r), Kept(r, size_at, now), Forgets(r, size_at, now),
           r # EmptyRing => ~TooOld(r.oldest_start),
           NEW size \in Nat, NEW g, g = CountedNow(size)
    PROVE  RingTyped(Add(r, size)) /\ Kept(Add(r, size), g, now) /\ Forgets(Add(r, size), g, now)
<1>1. CASE r = EmptyRing
  BY <1>1, AddFirst
<1>2. CASE r # EmptyRing
  <2>1. PICK n \in Slots : \E t \in [0 .. n -> Times] : Holds(r, n, t, size_at) /\ t[n] <= now
    BY <1>2 DEF Kept
  <2>2. PICK t \in [0 .. n -> Times] : Holds(r, n, t, size_at) /\ t[n] <= now
    BY <2>1
  <2>3. CASE now - t[n] >= ItemSize
    BY <1>2, <2>2, <2>3, AddNew
  <2>4. CASE ~(now - t[n] >= ItemSize)
    BY <2>2, <2>4, AddSame
  <2> QED
    BY <2>3, <2>4
<1> QED
  BY <1>1, <1>2

--------------------------------------------------------------------------------
(* The rate                                                                *)

\* What is in the ring after RemoveOldData is what came in the window.
LEMMA TotalIsOfWindow ==
    ASSUME Counted, NEW r, RingTyped(r), Kept(r, size_at, now), Forgets(r, size_at, now),
           r # EmptyRing => ~TooOld(r.oldest_start)
    PROVE  /\ r.total <= SizeSince(now - WindowSize + 1)
           /\ r.total >= SizeSince(now - WindowSize + ItemSize)
<1> DEFINE Since(a) == {u \in Times : u >= a}
           upper == Since(now - WindowSize + 1)
           lower == Since(now - WindowSize + ItemSize)
<1>1. now \in Nat /\ size_at \in [Times -> Nat]
  BY RateConstants DEF Counted, NoFuture
<1>2. Summable(size_at, Times) /\ upper \in SUBSET Times /\ lower \in SUBSET Times
  BY <1>1, NumbersSum
<1>3. SizeSince(now - WindowSize + 1) = SumOver(size_at, upper)
      /\ SizeSince(now - WindowSize + ItemSize) = SumOver(size_at, lower)
  BY DEF SizeSince
<1>4. CASE r = EmptyRing
  <2>1. r.total = 0
    BY <1>4 DEF EmptyRing
  <2>2. SumOver(size_at, upper) \in Nat
    BY <1>1, <1>2, NumbersSum
  <2>3. ASSUME NEW u \in lower PROVE size_at[u] = 0
    <3>1. u \in Times /\ u \in Nat /\ ~(u < now - WindowSize + ItemSize)
      BY <1>1, RateConstants
    <3> QED
      BY <1>4, <3>1 DEF Forgets
  <2>4. IsFiniteSet(lower)
    BY <1>2, RateConstants, FS_Subset
  <2>5. SumOver(size_at, lower) = 0
    BY <2>3, <2>4, SumOfZeros
  <2> HIDE DEF upper, lower
  <2> QED
    BY <1>3, <2>1, <2>2, <2>5
<1>5. CASE r # EmptyRing
  <2>1. PICK n \in Slots : \E t \in [0 .. n -> Times] : Holds(r, n, t, size_at) /\ t[n] <= now
    BY <1>5 DEF Kept
  <2>2. PICK t \in [0 .. n -> Times] : Holds(r, n, t, size_at) /\ t[n] <= now
    BY <2>1
  <2> DEFINE a == t[0]
  <2>3. a \in Nat /\ r.oldest_start = a /\ r.total = SumOver(size_at, From(a))
    BY <2>2, Starts DEF Holds
  <2> HIDE DEF a
  <2>4. From(a) \in SUBSET Times
    BY <2>3, SpansAreTimes
  <2>5. ASSUME NEW u \in From(a) \ upper PROVE size_at[u] = 0
    <3>1. u \in Times /\ u \in Nat /\ u >= a /\ ~(u >= now - WindowSize + 1)
      BY RateConstants DEF From
    <3>2. ~(a <= now - WindowSize)
      BY <1>5, <2>3 DEF TooOld
    <3> QED
      BY <1>1, <2>3, <3>1, <3>2, RateConstants
  <2>6. ASSUME NEW u \in lower \ From(a) PROVE size_at[u] = 0
    <3>1. u \in Times /\ u \in Nat /\ u >= now - WindowSize + ItemSize /\ ~(u >= a)
      BY RateConstants DEF From
    <3>2. u < r.oldest_start /\ ~(u < now - WindowSize + ItemSize)
      BY <1>1, <2>3, <3>1, RateConstants
    <3> QED
      BY <3>1, <3>2 DEF Forgets
  <2> HIDE DEF upper, lower
  <2>7. SumOver(size_at, From(a)) <= SumOver(size_at, upper)
    BY <1>2, <2>4, <2>5, SumAtMost
  <2>8. SumOver(size_at, lower) <= SumOver(size_at, From(a))
    BY <1>2, <2>4, <2>6, SumAtMost
  <2>9. SumOver(size_at, lower) \in Nat /\ SumOver(size_at, From(a)) \in Nat
    BY <1>1, <1>2, <2>4, NumbersSum
  <2> QED
    BY <1>3, <2>3, <2>7, <2>8, <2>9
<1> QED
  BY <1>4, <1>5

LEMMA RateInitInv == RateInit => RateInv
<1> SUFFICES ASSUME RateInit PROVE RateInv
  OBVIOUS
<1>1. now = WindowSize /\ ring = EmptyRing /\ last_time = 0 /\ size_at = [u \in Times |-> 0]
  BY DEF RateInit
<1>2. Counted
  BY <1>1, RateConstants DEF Counted, NoFuture
<1>3. RingTyped(EmptyRing)
  BY RateConstants DEF EmptyRing, RingTyped, NoItem
<1>4. RingInv
  <2>1. Forgets(ring, size_at, now)
    BY <1>1 DEF Forgets
  <2> QED
    BY <1>1, <1>3, <2>1 DEF RingInv, Kept
<1>5. Answered
  <2>1. last_time \in 0 .. now /\ last_time # now
    BY <1>1, RateConstants
  <2> QED
    BY <2>1 DEF Answered, RateIsOfWindow
<1> QED
  BY <1>2, <1>4, <1>5 DEF RateInv

LEMMA RateStep == RateInv /\ [RateNext]_rate_vars => RateInv'
<1> SUFFICES ASSUME RateInv, [RateNext]_rate_vars PROVE RateInv'
  OBVIOUS
<1> DEFINE R == RemoveOldData
<1>1. /\ RingInv /\ Counted /\ Answered /\ now \in Nat /\ now \in Times /\ now >= WindowSize
  BY RateConstants DEF RateInv, Counted, Times
<1>2. /\ RingTyped(R) /\ Kept(R, size_at, now) /\ Forgets(R, size_at, now)
      /\ R # EmptyRing => ~TooOld(R.oldest_start)
  BY <1>1, RemovalRight
<1> HIDE DEF R
<1>3. ASSUME NEW size \in Sizes, Update(size) PROVE RateInv'
  <2>1. size \in Nat
    BY SizesAssumption
  <2> DEFINE g == CountedNow(size)
  <2>2. /\ ring' = Add(R, size) /\ last_time' = 0 /\ last_rate' = 0 /\ size_at' = g /\ now' = now
    BY <1>3 DEF Update, R, CountedNow
  <2>3. RingTyped(Add(R, size)) /\ Kept(Add(R, size), g, now) /\ Forgets(Add(R, size), g, now)
    BY <1>1, <1>2, <2>1, AddRight
  <2>4. NoFuture(g)
    BY <1>1, <2>1, CountingNow
  <2> HIDE DEF g
  <2>5. Counted'
    BY <1>1, <2>2, <2>4 DEF Counted, NoFuture
  <2>6. RingInv'
    BY <2>2, <2>3 DEF RingInv
  <2>7. Answered'
    BY <1>1, <2>2, RateConstants DEF Answered, RateIsOfWindow
  <2> QED
    BY <2>5, <2>6, <2>7 DEF RateInv
<1>4. CASE GetRate
  <2>1. ring' = R /\ last_time' = now /\ last_rate' = R.total /\ now' = now /\ size_at' = size_at
    BY <1>4 DEF GetRate, R
  <2>2. Counted'
    BY <1>1, <2>1 DEF Counted, NoFuture
  <2>3. RingInv'
    BY <1>2, <2>1 DEF RingInv
  <2>4. /\ R.total <= SizeSince(now - WindowSize + 1)
        /\ R.total >= SizeSince(now - WindowSize + ItemSize)
    BY <1>1, <1>2, TotalIsOfWindow
  <2>5. RateIsOfWindow'
    BY <2>1, <2>4 DEF RateIsOfWindow, SizeSince
  <2>6. Answered'
    BY <1>1, <2>1, <2>5 DEF Answered
  <2> QED
    BY <2>2, <2>3, <2>6 DEF RateInv
<1>5. CASE RateTick
  <2>1. /\ now' = now + 1 /\ now' \in Times /\ ring' = ring /\ last_time' = last_time /\ size_at' = size_at
    BY <1>5 DEF RateTick
  <2>2. Counted'
    <3>1. ASSUME NEW u \in Times, u > now + 1 PROVE size_at[u] = 0
      <4>1. u \in Nat /\ u > now
        BY <1>1, <3>1, RateConstants
      <4> QED
        BY <1>1, <4>1 DEF Counted, NoFuture
    <3> QED
      BY <1>1, <2>1, <3>1 DEF Counted, NoFuture
  <2>3. RingInv'
    <3>1. RingTyped(ring) /\ Kept(ring, size_at, now) /\ Forgets(ring, size_at, now)
      BY <1>1 DEF RingInv
    <3>2. Kept(ring, size_at, now + 1)
      <4>1. CASE ring = EmptyRing
        BY <4>1 DEF Kept
      <4>2. CASE ring # EmptyRing
        <5>1. PICK n \in Slots : \E t \in [0 .. n -> Times] : Holds(ring, n, t, size_at) /\ t[n] <= now
          BY <3>1, <4>2 DEF Kept
        <5>2. PICK t \in [0 .. n -> Times] : Holds(ring, n, t, size_at) /\ t[n] <= now
          BY <5>1
        <5>3. t[n] \in Nat
          BY <5>2, Starts DEF Holds
        <5>4. t[n] <= now + 1
          BY <1>1, <5>2, <5>3
        <5> QED
          BY <5>2, <5>4 DEF Kept
      <4> QED
        BY <4>1, <4>2
    <3>3. Forgets(ring, size_at, now + 1)
      <4>1. ASSUME NEW u \in Times, size_at[u] # 0, ring = EmptyRing \/ u < ring.oldest_start
            PROVE  u < (now + 1) - WindowSize + ItemSize
        <5>1. u < now - WindowSize + ItemSize /\ u \in Nat
          BY <3>1, <4>1, RateConstants DEF Forgets
        <5> QED
          BY <1>1, <5>1, RateConstants
      <4>2. \A u \in Times : size_at[u] # 0 /\ (ring = EmptyRing \/ u < ring.oldest_start) =>
                u < (now + 1) - WindowSize + ItemSize
        BY <4>1
      <4> QED
        BY <4>2 DEF Forgets
    <3> QED
      BY <2>1, <3>1, <3>2, <3>3 DEF RingInv
  <2>4. Answered'
    <3>1. last_time \in 0 .. now
      BY <1>1 DEF Answered
    <3>2. last_time' \in 0 .. now' /\ last_time' # now'
      BY <1>1, <2>1, <3>1
    <3> QED
      BY <3>2 DEF Answered, RateIsOfWindow
  <2> QED
    BY <2>2, <2>3, <2>4 DEF RateInv
<1>6. CASE UNCHANGED rate_vars
  <2>1. now' = now /\ ring' = ring /\ last_time' = last_time /\ last_rate' = last_rate /\ size_at' = size_at
    BY <1>6 DEF rate_vars
  <2> QED
    BY <1>1, <2>1 DEF RateInv, Counted, NoFuture, RingInv, Answered, RateIsOfWindow, SizeSince
<1> QED
  BY <1>3, <1>4, <1>5, <1>6 DEF RateNext

\* Update and GetRate (data_calculator.cpp) count what came in the window, up to the
\* length of one item, however long nothing came and however the ring turned.
THEOREM RateIsRight == RateSpec => []RateIsOfWindow
<1>1. RateInv => RateIsOfWindow
  BY DEF RateInv, Answered
<1> QED
  BY RateInitInv, RateStep, <1>1, PTL DEF RateSpec

================================================================================
