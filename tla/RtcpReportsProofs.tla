---------------------------- MODULE RtcpReportsProofs ----------------------------
(***************************************************************************)
(* Proofs about RtcpReports, for any hosts, streams, losses and compounds, *)
(* any widths of the compact NTP time, the count and the total lost, and   *)
(* any number of datagrams under way: the round-trip time, the total lost, *)
(* and that a host finds in a datagram the reports that were put into it.  *)
(*                                                                         *)
(* The invariant says of every datagram which reports made up to now its   *)
(* packets hold, and of every receiving stream which sender report it      *)
(* knows; what a sender computes from an answer then is arithmetic of the  *)
(* times in the two reports.                                               *)
(***************************************************************************)
EXTENDS RtcpReports, SequenceTheorems, WellFoundedInduction, TLAPS

\* The assumptions on the constants; a millisecond is a unit or more.
LEMMA ReportConstants ==
    /\ CountMod \in Nat \ {0} /\ MaxSize \in Nat /\ LostHalf \in Nat \ {0}
    /\ NtpMod \in Nat \ {0} /\ NtpUnits \in Nat \ {0} /\ NtpMs \in Nat \ {0} /\ NtpMs <= NtpUnits
    /\ MinTime \in Nat \ {0} /\ MaxTime \in Nat /\ MinTime <= MaxTime
    /\ Units(MaxTime) - Units(MinTime) < NtpMod
    /\ LostMod \in Nat \ {0} /\ LostHalf < LostMod
BY PacketAssumption, ReportAssumption, TimeAssumption

--------------------------------------------------------------------------------
(* Arithmetic                                                              *)

\* The quotient of x by M is the q whose multiple is next below x.
LEMMA Quotient ==
    ASSUME NEW M \in Nat \ {0}, NEW x \in Int, NEW q \in Int, q * M <= x, x < (q + 1) * M
    PROVE  x \div M = q
OBVIOUS

\* A number is its quotient times M and its remainder.
LEMMA Parts ==
    ASSUME NEW M \in Nat \ {0}, NEW x \in Int
    PROVE  x = (x \div M) * M + (x % M) /\ x \div M \in Int /\ x % M \in 0 .. M - 1
OBVIOUS

\* The quotient of a sum is the sum of the quotients, or one more.
LEMMA QuotientOfSum ==
    ASSUME NEW M \in Nat \ {0}, NEW x \in Nat, NEW y \in Nat
    PROVE  /\ x \div M \in Nat /\ y \div M \in Nat
           /\ (x + y) \div M \in (x \div M) + (y \div M) .. (x \div M) + (y \div M) + 1
<1> DEFINE p == x \div M
           q == y \div M
           r == x % M
           s == y % M
<1>1. x = p * M + r /\ p \in Int /\ r \in 0 .. M - 1 /\ y = q * M + s /\ q \in Int /\ s \in 0 .. M - 1
  BY Parts
<1> HIDE DEF p, q, r, s
<1>2. p \in Nat /\ q \in Nat
  <2>1. p >= 0
    <3> SUFFICES ASSUME p <= -1 PROVE FALSE
      BY <1>1
    <3>1. p * M <= -M
      BY <1>1
    <3> QED
      BY <1>1, <3>1
  <2>2. q >= 0
    <3> SUFFICES ASSUME q <= -1 PROVE FALSE
      BY <1>1
    <3>1. q * M <= -M
      BY <1>1
    <3> QED
      BY <1>1, <3>1
  <2> QED
    BY <1>1, <2>1, <2>2
<1>3. CASE r + s < M
  <2>1. (p + q) * M <= x + y /\ x + y < ((p + q) + 1) * M /\ x + y \in Int /\ p + q \in Int
    BY <1>1, <1>3
  <2>2. (x + y) \div M = p + q
    BY <2>1, Quotient
  <2> QED
    BY <1>2, <2>2 DEF p, q
<1>4. CASE r + s >= M
  <2>1. ((p + q) + 1) * M <= x + y /\ x + y < (((p + q) + 1) + 1) * M /\ x + y \in Int /\ (p + q) + 1 \in Int
    BY <1>1, <1>4
  <2>2. (x + y) \div M = (p + q) + 1
    BY <2>1, Quotient
  <2> QED
    BY <1>2, <2>2 DEF p, q
<1> QED
  BY <1>1, <1>3, <1>4

\* Converting a sum of milliseconds loses less than a unit more than converting its parts.
LEMMA UnitsOfSum ==
    ASSUME NEW x \in Nat, NEW y \in Nat
    PROVE  /\ Units(x) \in Nat /\ Units(y) \in Nat
           /\ Units(x + y) \in Units(x) + Units(y) .. Units(x) + Units(y) + 1
<1> DEFINE a == x * NtpUnits
           b == y * NtpUnits
<1>1. a \in Nat /\ b \in Nat /\ (x + y) * NtpUnits = a + b
  BY ReportConstants
<1>2. Units(x) = a \div NtpMs /\ Units(y) = b \div NtpMs /\ Units(x + y) = (a + b) \div NtpMs
  BY <1>1 DEF Units
<1> HIDE DEF a, b
<1>3. NtpMs \in Nat \ {0}
  BY ReportConstants
<1>4. /\ a \div NtpMs \in Nat /\ b \div NtpMs \in Nat
      /\ (a + b) \div NtpMs \in (a \div NtpMs) + (b \div NtpMs) .. (a \div NtpMs) + (b \div NtpMs) + 1
  BY <1>1, <1>3, QuotientOfSum
<1> QED
  BY <1>2, <1>4

\* The conversion to units is monotonic, and rounds a difference down.
LEMMA UnitsGrow ==
    ASSUME NEW x \in Nat, NEW y \in Nat, x <= y
    PROVE  Units(x) \in Nat /\ Units(y) \in Nat /\ Units(x) <= Units(y) /\ Units(y - x) <= Units(y) - Units(x)
<1> DEFINE d == y - x
<1>1. d \in Nat /\ x + d = y
  OBVIOUS
<1> HIDE DEF d
<1>2. Units(x) \in Nat /\ Units(d) \in Nat /\ Units(x + d) \in Units(x) + Units(d) .. Units(x) + Units(d) + 1
  BY <1>1, UnitsOfSum
<1> QED
  BY <1>1, <1>2 DEF d

\* A millisecond is a unit at least.
LEMMA UnitsOfSome ==
    ASSUME NEW x \in Nat \ {0}
    PROVE  Units(x) \in Nat \ {0}
<1>1. Units(1) >= 1
  <2> DEFINE q == NtpUnits \div NtpMs
             r == NtpUnits % NtpMs
  <2>1. NtpUnits = q * NtpMs + r /\ q \in Int /\ r \in 0 .. NtpMs - 1
    BY ReportConstants, Parts
  <2>2. Units(1) = q
    BY ReportConstants DEF Units
  <2> HIDE DEF q, r
  <2>3. q >= 1
    <3> SUFFICES ASSUME q <= 0 PROVE FALSE
      BY <2>1
    <3>1. q * NtpMs <= 0
      BY <2>1, ReportConstants
    <3> QED
      BY <2>1, <3>1, ReportConstants
  <2> QED
    BY <2>2, <2>3
<1>2. 1 \in Nat /\ x \in Nat /\ 1 <= x
  OBVIOUS
<1>3. Units(1) \in Nat /\ Units(x) \in Nat /\ Units(1) <= Units(x)
  BY <1>2, UnitsGrow
<1> QED
  BY <1>1, <1>3

\* No time is no units.
LEMMA UnitsOfNone == Units(0) = 0
<1>1. 0 * NtpMs <= 0 /\ 0 < (0 + 1) * NtpMs /\ 0 * NtpUnits = 0
  BY ReportConstants
<1>2. 0 \div NtpMs = 0
  BY <1>1, ReportConstants, Quotient
<1> QED
  BY <1>1, <1>2 DEF Units

\* Remainders of numbers less than M apart
LEMMA RemainderAfter ==
    ASSUME NEW M \in Nat \ {0}, NEW x \in Nat, NEW d \in 0 .. M - 1
    PROVE  /\ x % M \in 0 .. M - 1 /\ (x + d) % M \in 0 .. M - 1
           /\ IF (x + d) \div M = x \div M THEN (x + d) % M = (x % M) + d ELSE (x + d) % M < x % M
<1> DEFINE p == x \div M
           r == x % M
           q == (x + d) \div M
           s == (x + d) % M
<1>0. x \in Int /\ x + d \in Int /\ d \in Int
  OBVIOUS
<1>a. x = p * M + r /\ p \in Int /\ r \in 0 .. M - 1
  BY <1>0, Parts
<1>b. x + d = q * M + s /\ q \in Int /\ s \in 0 .. M - 1
  BY <1>0, Parts
<1> HIDE DEF p, q, r, s
<1>1. x = p * M + r /\ p \in Int /\ r \in 0 .. M - 1 /\ x + d = q * M + s /\ q \in Int /\ s \in 0 .. M - 1
  BY <1>a, <1>b
<1>2. CASE q = p
  BY <1>1, <1>2 DEF p, q, r, s
<1>3. CASE q # p
  <2>1. q > p
    <3> SUFFICES ASSUME q <= p - 1 PROVE FALSE
      BY <1>1, <1>3
    <3>1. q * M <= (p - 1) * M
      BY <1>1
    <3> QED
      BY <1>1, <3>1
  <2>2. q * M >= (p + 1) * M
    BY <1>1, <2>1
  <2>3. s < r
    BY <1>1, <2>2
  <2> QED
    BY <1>1, <1>3, <2>3 DEF p, q, r, s
<1> QED
  BY <1>2, <1>3

\* The remainder may be taken before the sum, as the report does with last_sr.
LEMMA RemainderOfSum ==
    ASSUME NEW M \in Nat \ {0}, NEW x \in Nat, NEW y \in Nat
    PROVE  (y + (x % M)) % M = (x + y) % M
<1> DEFINE p == x \div M
           r == x % M
           q == (y + r) \div M
           s == (y + r) % M
<1>1. x = p * M + r /\ p \in Int /\ r \in 0 .. M - 1
  BY Parts
<1>2. y + r \in Int
  BY <1>1
<1>3. y + r = q * M + s /\ q \in Int /\ s \in 0 .. M - 1
  BY <1>2, Parts
<1> HIDE DEF p, q, r, s
<1>4. x + y = (p + q) * M + s /\ p + q \in Int
  BY <1>1, <1>3
<1>5. (x + y) % M = s
  <2>1. \A k \in Int : k * M + s \in Int => (k * M + s) % M = s
    BY <1>3
  <2> QED
    BY <1>4, <2>1
<1> QED
  BY <1>5 DEF r, s

--------------------------------------------------------------------------------
(* The blocks of reports made up to time t                                 *)

SRBlocks(t) == {[ssrc |-> s, ntp |-> Compact(m), sent |-> m] : s \in Nat, m \in MinTime .. t}

\* A report tells of the sender report last received, or of none.
Answers(r) ==
    IF r.sr_received = 0
    THEN r.last_sr = 0 /\ r.dlsr = 0
    ELSE /\ r.sr_sent \in MinTime .. r.sr_received /\ r.sr_received <= r.made
         /\ r.last_sr = Compact(r.sr_sent) /\ r.dlsr = Compact(r.made - r.sr_received)

RRBlocks(t) ==
    {r \in [ssrc : Nat, total_lost : Int, last_sr : Nat, dlsr : Nat, lost : Int,
            made : MinTime .. t, sr_sent : Nat, sr_received : Nat] :
        r.total_lost = SetTotalLost(r.lost) /\ Answers(r)}

\* What GetTotalLost makes of the value that SetTotalLost wrote
LEMMA LostAndBack ==
    ASSUME NEW l \in Int
    PROVE  /\ SetTotalLost(l) \in Int
           /\ GetTotalLost(SetTotalLost(l)) = InLimits(l)
           /\ InLimits(l) \in -LostHalf .. LostHalf - 1
BY ReportConstants DEF SetTotalLost, GetTotalLost, Clamp, WithSign, InLimits

\* What packets_lost_ makes of it
LEMMA Unsigned ==
    ASSUME NEW x \in -LostHalf .. LostHalf - 1
    PROVE  x % LostMod = IF x >= 0 THEN x ELSE x + LostMod
<1>1. x \in Int /\ LostMod \in Nat \ {0} /\ LostHalf \in Nat /\ -LostHalf <= x /\ x < LostHalf /\ LostHalf < LostMod
  BY ReportConstants
<1> DEFINE q == x \div LostMod
           r == x % LostMod
<1>2. x = q * LostMod + r /\ q \in Int /\ r \in 0 .. LostMod - 1
  BY <1>1, Parts
<1> HIDE DEF q, r
<1>3. q <= 0
  <2> SUFFICES ASSUME q >= 1 PROVE FALSE
    BY <1>2
  <2>1. q * LostMod >= LostMod
    BY <1>1, <1>2
  <2> QED
    BY <1>1, <1>2, <2>1
<1>4. q >= -1
  <2> SUFFICES ASSUME q <= -2 PROVE FALSE
    BY <1>2
  <2>1. q * LostMod <= (-2) * LostMod
    BY <1>1, <1>2
  <2> QED
    BY <1>1, <1>2, <2>1
<1>5. CASE q = 0
  <2>1. x = r
    BY <1>1, <1>2, <1>5
  <2> QED
    BY <1>2, <2>1 DEF r
<1>6. CASE q = -1
  <2>1. q * LostMod = -LostMod
    BY <1>1, <1>6
  <2>2. r = x + LostMod /\ x < 0
    BY <1>1, <1>2, <2>1
  <2> QED
    BY <1>1, <2>2 DEF r
<1> QED
  BY <1>2, <1>3, <1>4, <1>5, <1>6

\* A compact time is a remainder of NtpMod.
LEMMA CompactType ==
    ASSUME NEW m \in Nat
    PROVE  Units(m) \in Nat /\ Compact(m) \in 0 .. NtpMod - 1
<1>1. Units(m) \in Nat
  BY UnitsOfSum
<1> DEFINE u == Units(m)
<1>2. u \in Int /\ NtpMod \in Nat \ {0}
  BY <1>1, ReportConstants
<1> HIDE DEF u
<1>3. u % NtpMod \in 0 .. NtpMod - 1
  BY <1>2, Parts
<1> QED
  BY <1>1, <1>3 DEF Compact, u

\* A delay of zero is zero in the report.
LEMMA CompactOfZero == Compact(0) = 0
BY UnitsOfNone, ReportConstants DEF Compact

\* Nothing of the run takes as long as the compact time takes to come round.
LEMMA Span ==
    ASSUME NEW x \in MinTime .. MaxTime, NEW y \in x .. MaxTime
    PROVE  /\ x \in Nat /\ y \in Nat /\ Units(x) \in Nat /\ Units(y) \in Nat
           /\ Units(y) - Units(x) \in 0 .. NtpMod - 1
           /\ Units(y - x) \in 0 .. NtpMod - 1
<1>1. /\ x \in Nat /\ y \in Nat /\ x <= y /\ MinTime \in Nat /\ MaxTime \in Nat
      /\ MinTime <= x /\ y <= MaxTime
  BY ReportConstants
<1>2. Units(MinTime) \in Nat /\ Units(x) \in Nat /\ Units(MinTime) <= Units(x)
  BY <1>1, UnitsGrow
<1>3. Units(MaxTime) \in Nat /\ Units(y) <= Units(MaxTime)
  BY <1>1, UnitsGrow
<1>4. Units(y) \in Nat /\ Units(x) <= Units(y) /\ Units(y - x) <= Units(y) - Units(x)
  BY <1>1, UnitsGrow
<1>5. y - x \in Nat
  BY <1>1
<1>6. Units(y - x) \in Nat
  BY <1>5, UnitsOfSum
<1> DEFINE a == Units(MinTime)
           b == Units(x)
           c == Units(y)
           d == Units(MaxTime)
           e == Units(y - x)
<1>7. d - a < NtpMod /\ NtpMod \in Nat
  BY ReportConstants
<1>8. a \in Nat /\ b \in Nat /\ c \in Nat /\ d \in Nat /\ e \in Nat /\ a <= b /\ c <= d /\ b <= c /\ e <= c - b
  BY <1>2, <1>3, <1>4, <1>6
<1> HIDE DEF a, b, c, d, e
<1>9. c - b \in 0 .. NtpMod - 1 /\ e \in 0 .. NtpMod - 1
  BY <1>7, <1>8
<1> QED
  BY <1>1, <1>2, <1>4, <1>9 DEF b, c, e

\* A number below M is its own remainder.
LEMMA SmallRemainder ==
    ASSUME NEW M \in Nat \ {0}, NEW x \in 0 .. M - 1
    PROVE  x % M = x
OBVIOUS

\* The sender report, the delay at the receiver and the answer, in units: what
\* Rtt subtracts, and what is left of it.
LEMMA TimesAddUp ==
    ASSUME NEW s \in MinTime .. MaxTime, NEW r \in s .. MaxTime,
           NEW m \in r .. MaxTime, NEW n \in m .. MaxTime
    PROVE  /\ Units(s) \in Nat /\ Units(m - r) \in Nat /\ Units(n) \in Nat
           /\ Units(n) - (Units(s) + Units(m - r)) \in 0 .. NtpMod - 1
           /\ (r - s) + (n - m) \in Nat
           /\ Units(n) - (Units(s) + Units(m - r)) \in Units((r - s) + (n - m)) .. Units((r - s) + (n - m)) + 2
<1> DEFINE delay == m - r
           took == (r - s) + (n - m)
           u == s + delay
<1>1. /\ s \in Nat /\ r \in Nat /\ m \in Nat /\ n \in Nat /\ delay \in Nat /\ took \in Nat
      /\ u \in Nat /\ n = u + took /\ s <= n /\ s \in MinTime .. MaxTime /\ n \in s .. MaxTime
  BY ReportConstants
<1> HIDE DEF delay, took, u
<1>2. Units(n) - Units(s) \in 0 .. NtpMod - 1
  BY <1>1, Span
<1>3. Units(s) \in Nat /\ Units(delay) \in Nat /\ Units(u) \in Units(s) + Units(delay) .. Units(s) + Units(delay) + 1
  BY <1>1, UnitsOfSum DEF u
<1>4. Units(u) \in Nat /\ Units(took) \in Nat /\ Units(n) \in Units(u) + Units(took) .. Units(u) + Units(took) + 1
  BY <1>1, UnitsOfSum
<1> DEFINE a == Units(s)
           b == Units(delay)
           c == Units(n)
           k == Units(took)
           w == Units(u)
<1>5. /\ a \in Nat /\ b \in Nat /\ w \in Nat /\ k \in Nat /\ c - a \in 0 .. NtpMod - 1
      /\ w \in a + b .. a + b + 1 /\ c \in w + k .. w + k + 1 /\ NtpMod \in Nat
  BY <1>2, <1>3, <1>4, ReportConstants
<1> HIDE DEF a, b, c, k, w
<1>6. c \in Nat /\ c - (a + b) \in 0 .. NtpMod - 1 /\ c - (a + b) \in k .. k + 2
  BY <1>5
<1> QED
  BY <1>1, <1>3, <1>6 DEF a, b, c, k, delay, took

\* What ReceiveRtcpReceiverReport computes from a report
LEMMA RttOfAnswer ==
    ASSUME now \in MinTime .. MaxTime, NEW r \in RRBlocks(now)
    PROVE  LET sender == ReceiveRtcpReceiverReport(r)
           IN  IF sender.unknown THEN sender.rtt = 0
               ELSE sender.rtt \in Units(sender.took) .. Units(sender.took) + 2
<1> DEFINE sr == r.sr_sent
           rec == r.sr_received
           made == r.made
           a == Units(sr)
           b == Units(made - rec)
           c == Units(now)
           took == (rec - sr) + (now - made)
           same == (a + b) \div NtpMod = c \div NtpMod
           unknown == rec \in {0, made} \/ Compact(sr) = 0 \/ ~same
           M == NtpMod
<1>1. /\ ReceiveRtcpReceiverReport(r).unknown <=> unknown
      /\ ReceiveRtcpReceiverReport(r).rtt = Rtt(r)
      /\ ReceiveRtcpReceiverReport(r).took = took
  BY DEF ReceiveRtcpReceiverReport
<1>2. Answers(r) /\ made \in MinTime .. now /\ rec \in Nat /\ sr \in Nat
  BY DEF RRBlocks
<1>3. CASE rec = 0
  <2>1. Rtt(r) = 0
    BY <1>2, <1>3 DEF Answers, Rtt
  <2> QED
    BY <1>1, <1>3, <2>1
<1>4. CASE rec # 0 /\ rec = made
  <2>1. r.dlsr = Compact(made - rec) /\ made - rec = 0
    BY <1>2, <1>4, ReportConstants DEF Answers
  <2>2. Rtt(r) = 0
    BY <2>1, CompactOfZero DEF Rtt
  <2> QED
    BY <1>1, <1>4, <2>2
<1>5. CASE rec # 0 /\ Compact(sr) = 0
  <2>1. r.last_sr = 0
    BY <1>2, <1>5 DEF Answers
  <2>2. Rtt(r) = 0
    BY <2>1 DEF Rtt
  <2> QED
    BY <1>1, <1>5, <2>2
<1>6. CASE rec # 0 /\ rec # made /\ Compact(sr) # 0
  <2>1. /\ sr \in MinTime .. MaxTime /\ rec \in sr .. MaxTime /\ made \in rec .. MaxTime
        /\ now \in made .. MaxTime /\ made - rec \in Nat \ {0} /\ rec \in MinTime .. MaxTime
        /\ r.last_sr = Compact(sr) /\ r.dlsr = Compact(made - rec)
    BY <1>2, <1>6, ReportConstants DEF Answers
  <2> HIDE DEF sr, rec, made
  <2>2. /\ a \in Nat /\ b \in Nat /\ c \in Nat /\ c - (a + b) \in 0 .. M - 1
        /\ c - (a + b) \in Units(took) .. Units(took) + 2 /\ took \in Nat
    BY <2>1, TimesAddUp
  <2>3. Units(took) \in Nat
    BY <2>2, UnitsOfSum
  <2>4. b \in 0 .. M - 1 /\ b # 0
    <3>1. b \in 0 .. M - 1
      BY <2>1, Span
    <3>2. b # 0
      BY <2>1, UnitsOfSome
    <3> QED
      BY <3>1, <3>2
  <2>5. M \in Nat \ {0}
    BY ReportConstants
  <2>6. Compact(made - rec) = b
    <3> HIDE DEF b, M
    <3>1. b % M = b
      BY <2>4, <2>5, SmallRemainder
    <3> QED
      BY <3>1 DEF Compact, b, M
  <2> DEFINE sum == (b + (a % M)) % M
  <2>7. Rtt(r) = IF Compact(now) > sum THEN Compact(now) - sum ELSE 0
    <3>1. r.last_sr = a % M /\ r.last_sr # 0 /\ r.dlsr = b
      BY <1>6, <2>1, <2>6 DEF Compact
    <3>2. (r.dlsr + r.last_sr) % NtpMod = sum
      BY <3>1
    <3> HIDE DEF a, b, c, sum
    <3> QED
      BY <3>1, <3>2, <2>4 DEF Rtt
  <2>8. Compact(now) = c % M
    BY DEF Compact
  <2> DEFINE d == c - (a + b)
  <2> HIDE DEF a, b, c, M, sum, took
  <2>9. sum = (a + b) % M
    BY <2>2, <2>5, RemainderOfSum DEF sum
  <2>10. /\ (a + b) % M \in 0 .. M - 1 /\ c % M \in 0 .. M - 1
         /\ IF same THEN c % M = ((a + b) % M) + d ELSE c % M < (a + b) % M
    <3> DEFINE x == a + b
    <3>1. x \in Nat /\ d \in 0 .. M - 1 /\ c = x + d
      BY <2>2, <2>5
    <3> HIDE DEF x, d
    <3>2. /\ x % M \in 0 .. M - 1 /\ (x + d) % M \in 0 .. M - 1
          /\ IF (x + d) \div M = x \div M THEN (x + d) % M = (x % M) + d ELSE (x + d) % M < x % M
      BY <3>1, <2>5, RemainderAfter
    <3> QED
      BY <3>1, <3>2 DEF x, M
  <2> DEFINE e == (a + b) % M
             f == c % M
  <2>11. e \in 0 .. M - 1 /\ f \in 0 .. M - 1 /\ (IF same THEN f = e + d ELSE f < e) /\ d \in 0 .. M - 1
    BY <2>2, <2>10
  <2>12. Rtt(r) = IF f > e THEN f - e ELSE 0
    BY <2>7, <2>8, <2>9
  <2>13. unknown <=> ~same
    BY <1>6 DEF rec, made, sr
  <2> HIDE DEF e, f, same, unknown
  <2>14. CASE same
    <3>1. Rtt(r) = d
      <4> HIDE DEF d
      <4> QED
        BY <2>5, <2>11, <2>12, <2>14
    <3>2. d \in Units(took) .. Units(took) + 2
      BY <2>2
    <3> QED
      BY <1>1, <2>13, <2>14, <3>1, <3>2
  <2>15. CASE ~same
    <3>1. Rtt(r) = 0
      BY <2>5, <2>11, <2>12, <2>15
    <3> QED
      BY <1>1, <2>13, <2>15, <3>1
  <2> QED
    BY <2>14, <2>15
<1> QED
  BY <1>3, <1>4, <1>5, <1>6

--------------------------------------------------------------------------------
(* Datagrams                                                               *)

\* A packet of reports as the compound wrote it, or another one
Written(added) ==
    {p \in [type : {"SR", "RR"}, count : Nat, blocks : {added.SR, added.RR}, whole : BOOLEAN] :
        /\ p.blocks = added[p.type] /\ p.blocks # <<>>
        /\ p.count = Len(p.blocks) % CountMod}

Packets(added) == OtherPackets \cup Written(added)

Added(t) == [SR : Seq(SRBlocks(t)), RR : Seq(RRBlocks(t))]

\* A datagram made up to time t
Datagrams(t) ==
    {d \in [to : Host, packets : UNION {Seq(Packets(added)) : added \in Added(t)},
            size : 0 .. MaxSize, added : Added(t)] : d.packets \in Seq(Packets(d.added))}

\* A compound that holds the reports it accepted
Compounded(t) ==
    {c \in [SR : Seq(SRBlocks(t)), RR : Seq(RRBlocks(t)), added : Added(t)] :
        c.SR = c.added.SR /\ c.RR = c.added.RR /\ GetSize(c) \in 0 .. MaxSize}

\* Blocks made up to a time are blocks made up to a later one.
LEMMA BlocksStay ==
    ASSUME NEW t \in Nat, NEW u \in Nat, t <= u
    PROVE  SRBlocks(t) \subseteq SRBlocks(u) /\ RRBlocks(t) \subseteq RRBlocks(u)
<1>1. MinTime .. t \subseteq MinTime .. u
  BY ReportConstants
<1>2. SRBlocks(t) \subseteq SRBlocks(u)
  BY <1>1 DEF SRBlocks
<1>3. RRBlocks(t) \subseteq RRBlocks(u)
  BY <1>1 DEF RRBlocks
<1> QED
  BY <1>2, <1>3

\* So are datagrams.
LEMMA DatagramsStay ==
    ASSUME NEW t \in Nat, NEW u \in Nat, t <= u
    PROVE  Datagrams(t) \subseteq Datagrams(u)
<1>1. Seq(SRBlocks(t)) \subseteq Seq(SRBlocks(u)) /\ Seq(RRBlocks(t)) \subseteq Seq(RRBlocks(u))
  BY BlocksStay, SeqMonotonic
<1>2. Added(t) \subseteq Added(u)
  BY <1>1 DEF Added
<1> QED
  BY <1>2 DEF Datagrams

\* The empty compound holds what it accepted.
LEMMA EmptyCompound ==
    ASSUME NEW t
    PROVE  Empty \in Compounded(t)
<1>1. GetSize(Empty) = 0
  BY DEF GetSize, SizeOf, Empty
<1>2. <<>> \in Seq(SRBlocks(t)) /\ <<>> \in Seq(RRBlocks(t))
  OBVIOUS
<1>3. Empty \in [SR : Seq(SRBlocks(t)), RR : Seq(RRBlocks(t)), added : Added(t)]
  BY <1>2 DEF Empty, Added
<1>4. Empty.SR = Empty.added.SR /\ Empty.RR = Empty.added.RR
  BY DEF Empty
<1> QED
  BY <1>1, <1>3, <1>4, ReportConstants DEF Compounded

\* The size of a compound is a natural number.
LEMMA SizeIsNat ==
    ASSUME NEW S, NEW T, NEW s \in Seq(S), NEW r \in Seq(T), NEW c, c.SR = s, c.RR = r
    PROVE  GetSize(c) \in Nat
<1> DEFINE m == Len(s)
           n == Len(r)
<1>1. m \in Nat /\ n \in Nat
  OBVIOUS
<1>2. /\ SizeOf(4, s) = (IF s = <<>> THEN 0 ELSE 4 + 24 * m)
      /\ SizeOf(4 + 4, r) = (IF r = <<>> THEN 0 ELSE (4 + 4) + 24 * n)
  BY DEF SizeOf, ReportSize
<1>3. GetSize(c) = SizeOf(4, s) + SizeOf(4 + 4, r)
  BY DEF GetSize, CommonHeader, SsrcSize
<1> HIDE DEF m, n
<1> QED
  BY <1>1, <1>2, <1>3

\* AddReport leaves no report behind that it did not accept.
LEMMA AddedReport ==
    ASSUME NEW t, NEW c \in Compounded(t), NEW type \in {"SR", "RR"}, NEW report,
           report \in (IF type = "SR" THEN SRBlocks(t) ELSE RRBlocks(t))
    PROVE  AddReport(c, type, report) \in Compounded(t)
<1> DEFINE with == [c EXCEPT ![type] = Append(c[type], report)]
           kept == [with EXCEPT !.added[type] = Append(c.added[type], report)]
<1>1. /\ c \in [SR : Seq(SRBlocks(t)), RR : Seq(RRBlocks(t)), added : Added(t)]
      /\ c.SR = c.added.SR /\ c.RR = c.added.RR /\ GetSize(c) \in 0 .. MaxSize
  BY DEF Compounded
<1>2. c.added \in [SR : Seq(SRBlocks(t)), RR : Seq(RRBlocks(t))]
  BY <1>1 DEF Added
<1>3. AddReport(c, type, report) = IF GetSize(with) <= MaxSize THEN kept ELSE c
  BY <1>1, <1>2 DEF AddReport
<1>4. CASE type = "SR"
  <2>1. Append(c.SR, report) \in Seq(SRBlocks(t))
    BY <1>1, <1>4, AppendProperties
  <2>2. /\ kept \in [SR : Seq(SRBlocks(t)), RR : Seq(RRBlocks(t)), added : Added(t)]
        /\ kept.SR = Append(c.SR, report) /\ kept.RR = c.RR
        /\ kept.added.SR = Append(c.SR, report) /\ kept.added.RR = c.RR
        /\ with.SR = kept.SR /\ with.RR = kept.RR
    BY <1>1, <1>2, <1>4, <2>1 DEF Added
  <2>3. GetSize(with) \in Nat /\ GetSize(with) = GetSize(kept)
    <3>1. GetSize(with) \in Nat
      BY <1>1, <2>1, <2>2, SizeIsNat
    <3> HIDE DEF with, kept
    <3> QED
      BY <2>2, <3>1 DEF GetSize
  <2> HIDE DEF with, kept
  <2>4. GetSize(with) <= MaxSize => GetSize(kept) \in 0 .. MaxSize
    BY <2>3, ReportConstants
  <2>5. GetSize(with) <= MaxSize => kept \in Compounded(t)
    BY <2>2, <2>4 DEF Compounded
  <2> QED
    BY <1>3, <2>5
<1>5. CASE type = "RR"
  <2>1. Append(c.RR, report) \in Seq(RRBlocks(t))
    BY <1>1, <1>5, AppendProperties
  <2>2. /\ kept \in [SR : Seq(SRBlocks(t)), RR : Seq(RRBlocks(t)), added : Added(t)]
        /\ kept.RR = Append(c.RR, report) /\ kept.SR = c.SR
        /\ kept.added.RR = Append(c.RR, report) /\ kept.added.SR = c.SR
        /\ with.SR = kept.SR /\ with.RR = kept.RR
    BY <1>1, <1>2, <1>5, <2>1 DEF Added
  <2>3. GetSize(with) \in Nat /\ GetSize(with) = GetSize(kept)
    <3>1. GetSize(with) \in Nat
      BY <1>1, <2>1, <2>2, SizeIsNat
    <3> HIDE DEF with, kept
    <3> QED
      BY <2>2, <3>1 DEF GetSize
  <2> HIDE DEF with, kept
  <2>4. GetSize(with) <= MaxSize => GetSize(kept) \in 0 .. MaxSize
    BY <2>3, ReportConstants
  <2>5. GetSize(with) <= MaxSize => kept \in Compounded(t)
    BY <2>2, <2>4 DEF Compounded
  <2> QED
    BY <1>3, <2>5
<1> QED
  BY <1>4, <1>5

\* One packet, or none
LEMMA OnePacket ==
    ASSUME NEW t, NEW added \in Added(t), NEW type \in {"SR", "RR"}
    PROVE  (IF added[type] = <<>> THEN <<>> ELSE <<Packet(type, Len(added[type]), added[type])>>)
               \in Seq(Packets(added))
<1> DEFINE s == added[type]
           p == Packet(type, Len(s), s)
<1>1. Len(s) \in Nat /\ s \in {added.SR, added.RR}
  BY DEF Added
<1>2. Len(s) % CountMod \in Nat
  <2> DEFINE n == Len(s)
  <2>1. n \in Int /\ CountMod \in Nat \ {0}
    BY <1>1, ReportConstants
  <2> HIDE DEF n
  <2>2. n % CountMod \in 0 .. CountMod - 1
    BY <2>1, Parts
  <2>3. n % CountMod \in Nat
    BY <2>1, <2>2
  <2> QED
    BY <2>3 DEF n
<1>3. /\ p.type = type /\ p.blocks = s /\ p.count = Len(s) % CountMod
      /\ p = [type |-> type, count |-> Len(s) % CountMod, blocks |-> s, whole |-> TRUE]
  BY DEF Packet
<1> HIDE DEF p
<1>4. s # <<>> => p \in Written(added)
  BY <1>1, <1>2, <1>3 DEF Written
<1>5. s # <<>> => p \in Packets(added)
  BY <1>4 DEF Packets
<1>6. s # <<>> => <<p>> \in Seq(Packets(added))
  BY <1>5
<1> QED
  BY <1>6 DEF p

\* Serialize writes packets with the reports the compound accepted.
LEMMA Serialized ==
    ASSUME NEW t, NEW c \in Compounded(t)
    PROVE  Serialize(c) \in Seq(Packets(c.added)) /\ c.added \in Added(t)
<1>1. c.SR = c.added["SR"] /\ c.RR = c.added["RR"] /\ c.added \in Added(t)
  BY DEF Compounded
<1>2. SenderReports(c.SR) \in Seq(Packets(c.added))
  BY <1>1, OnePacket DEF SenderReports
<1>3. ReceiverReports(c.RR) \in Seq(Packets(c.added))
  BY <1>1, OnePacket DEF ReceiverReports
<1> QED
  BY <1>1, <1>2, <1>3, ConcatProperties DEF Serialize

\* A datagram whose end is cut off still holds packets of these kinds.
LEMMA CutOffPackets ==
    ASSUME NEW added, NEW s \in Seq(Packets(added))
    PROVE  CutOff(s) \in Seq(Packets(added))
<1> DEFINE n == Len(s)
           p == [s[n] EXCEPT !.whole = FALSE]
<1>1. CASE s = <<>>
  <2>1. s = [i \in {} |-> s[i]] /\ DOMAIN s = {}
    BY <1>1
  <2>2. CutOff(s) = [i \in DOMAIN s |-> IF i = n THEN p ELSE s[i]]
    BY DEF CutOff
  <2>3. CutOff(s) = s
    BY <2>1, <2>2
  <2> QED
    BY <2>3
<1>2. CASE s # <<>>
  <2>1. n \in 1 .. Len(s) /\ s[n] \in Packets(added)
    BY <1>2, ElementOfSeq
  <2>2. p \in Packets(added)
    <3> DEFINE q == s[n]
    <3> HIDE DEF n
    <3>1. q \in OtherPackets => p \in OtherPackets
      BY DEF OtherPackets
    <3>2. q \in Written(added) => p \in Written(added)
      BY DEF Written
    <3> QED
      BY <2>1, <3>1, <3>2 DEF Packets
  <2>3. CutOff(s) = [s EXCEPT ![n] = p]
    BY <2>1 DEF CutOff
  <2> HIDE DEF p
  <2> QED
    BY <2>1, <2>2, <2>3, ExceptSeq
<1> QED
  BY <1>1, <1>2

\* The peer is the other host.
LEMMA PeerIsHost ==
    ASSUME NEW h \in Host
    PROVE  Peer(h) \in Host
BY ReportAssumption DEF Peer

\* A datagram that is sent at time t
LEMMA Sent ==
    ASSUME NEW t, NEW h \in Host, NEW c \in Compounded(t), NEW s \in Seq(Packets(c.added))
    PROVE  Datagram(h, s, c) \in Datagrams(t)
<1> DEFINE d == Datagram(h, s, c)
<1>1. c.added \in Added(t) /\ GetSize(c) \in 0 .. MaxSize
  BY DEF Compounded
<1>2. d = [to |-> Peer(h), packets |-> s, size |-> GetSize(c), added |-> c.added]
  BY DEF Datagram
<1> HIDE DEF d
<1>3. d \in [to : Host, packets : UNION {Seq(Packets(added)) : added \in Added(t)},
             size : 0 .. MaxSize, added : Added(t)]
  BY <1>1, <1>2, PeerIsHost
<1>4. d.packets \in Seq(Packets(d.added))
  BY <1>2
<1> QED
  BY <1>3, <1>4 DEF Datagrams, d

--------------------------------------------------------------------------------
(* The recursive functions                                                 *)

\* A set of numbers that holds 0, and n + 1 with every n, holds them all.
LEMMA Induction ==
    ASSUME NEW S, 0 \in S, \A n \in Nat : n \in S => n + 1 \in S
    PROVE  Nat \subseteq S
<1> SUFFICES ASSUME Nat \ S # {} PROVE FALSE
  OBVIOUS
<1> DEFINE T == Nat \ S
<1>1. T \subseteq Nat /\ T # {}
  OBVIOUS
<1> HIDE DEF T
<1>2. PICK m \in T : \A x \in T : ~(<<x, m>> \in OpToRel(<, Nat))
  BY <1>1, NatLessThanWellFounded, WFMin
<1>3. m \in Nat \ {0} /\ m \notin S
  BY DEF T
<1>4. m - 1 \notin S
  BY <1>3
<1>5. m - 1 \in T /\ m - 1 < m
  BY <1>3, <1>4 DEF T
<1>6. <<m - 1, m>> \in OpToRel(<, Nat)
  BY <1>3, <1>5 DEF OpToRel
<1> QED
  BY <1>2, <1>5, <1>6

\* The least and the greatest of some numbers
LEMMA LeastIsLeast ==
    ASSUME NEW S \in SUBSET Nat, S # {}
    PROVE  Least(S) \in S
<1>1. PICK m \in S : \A x \in S : ~(<<x, m>> \in OpToRel(<, Nat))
  BY NatLessThanWellFounded, WFMin
<1>2. ASSUME NEW x \in S PROVE m <= x
  <2> SUFFICES ASSUME x < m PROVE FALSE
    OBVIOUS
  <2>1. <<x, m>> \in OpToRel(<, Nat)
    BY DEF OpToRel
  <2> QED
    BY <1>1, <2>1
<1> QED
  BY <1>2 DEF Least

\* The greatest of some positions
LEMMA LastExists ==
    ASSUME NEW n \in Nat, NEW S \in SUBSET (1 .. n), S # {}
    PROVE  \E i \in S : \A j \in S : j <= i
<1> DEFINE T == {k \in Nat : \A x \in S : x <= k}
<1>1. T \subseteq Nat /\ n \in T
  OBVIOUS
<1> HIDE DEF T
<1>2. PICK m \in T : \A x \in T : ~(<<x, m>> \in OpToRel(<, Nat))
  BY <1>1, NatLessThanWellFounded, WFMin
<1>3. m \in Nat /\ \A x \in S : x <= m
  BY DEF T
<1>4. m \in S
  <2> SUFFICES ASSUME m \notin S PROVE FALSE
    OBVIOUS
  <2>1. m # 0
    <3>1. PICK x \in S : TRUE
      OBVIOUS
    <3> QED
      BY <1>3, <3>1
  <2>2. m - 1 \in T
    BY <1>3, <2>1 DEF T
  <2>3. <<m - 1, m>> \in OpToRel(<, Nat)
    BY <1>3, <2>1 DEF OpToRel
  <2> QED
    BY <1>2, <2>2, <2>3
<1> QED
  BY <1>3, <1>4

\* The compound after i reports of the plan
Adding(g, h, plan, i) ==
    IF i = 0 THEN Empty ELSE AddReport(g[i - 1], plan[i], Planned(h, plan[i]))

\* The function of CompoundOf, as far as report n
IsCompound(g, h, plan, n) == g = [i \in 0 .. n |-> Adding(g, h, plan, i)]

\* One of its values
LEMMA CompoundStep ==
    ASSUME NEW g, NEW h, NEW plan, NEW n, IsCompound(g, h, plan, n), NEW i \in 0 .. n
    PROVE  g[i] = Adding(g, h, plan, i)
BY DEF IsCompound

\* There is such a function.
LEMMA CompoundExists ==
    ASSUME NEW h, NEW plan
    PROVE  \A n \in Nat : \E g : IsCompound(g, h, plan, n)
<1> DEFINE S == {n \in Nat : \E g : IsCompound(g, h, plan, n)}
<1>1. 0 \in S
  <2> DEFINE g == [i \in 0 .. 0 |-> Empty]
  <2>1. ASSUME NEW i \in 0 .. 0 PROVE g[i] = Adding(g, h, plan, i)
    BY DEF Adding
  <2>2. g = [i \in 0 .. 0 |-> Adding(g, h, plan, i)]
    BY <2>1
  <2>3. IsCompound(g, h, plan, 0)
    BY <2>2 DEF IsCompound
  <2> HIDE DEF g
  <2> QED
    BY <2>3
<1>2. ASSUME NEW n \in Nat, n \in S PROVE n + 1 \in S
  <2>1. PICK f : IsCompound(f, h, plan, n)
    BY <1>2
  <2> DEFINE g == [i \in 0 .. n + 1 |-> IF i <= n THEN f[i] ELSE Adding(f, h, plan, i)]
  <2>2. ASSUME NEW i \in 0 .. n + 1 PROVE g[i] = Adding(g, h, plan, i)
    <3>1. i # 0 => i - 1 \in 0 .. n /\ i - 1 \in 0 .. n + 1 /\ g[i - 1] = f[i - 1]
      OBVIOUS
    <3>2. Adding(g, h, plan, i) = Adding(f, h, plan, i)
      <4> HIDE DEF g
      <4> QED
        BY <3>1 DEF Adding
    <3>3. i <= n => f[i] = Adding(f, h, plan, i)
      <4> SUFFICES ASSUME i <= n PROVE f[i] = Adding(f, h, plan, i)
        OBVIOUS
      <4>1. i \in 0 .. n
        OBVIOUS
      <4> QED
        BY <2>1, <4>1, CompoundStep
    <3> QED
      BY <3>2, <3>3
  <2>3. IsCompound(g, h, plan, n + 1)
    <3>1. g = [i \in 0 .. n + 1 |-> Adding(g, h, plan, i)]
      BY <2>2
    <3> QED
      BY <3>1 DEF IsCompound
  <2> HIDE DEF g
  <2> QED
    BY <2>3
<1> HIDE DEF S
<1>3. Nat \subseteq S
  BY <1>1, <1>2, Induction
<1> QED
  BY <1>3 DEF S

\* CompoundOf is the last of its values.
LEMMA CompoundIs ==
    ASSUME NEW h, NEW plan, Len(plan) \in Nat
    PROVE  \E g : IsCompound(g, h, plan, Len(plan)) /\ CompoundOf(h, plan) = g[Len(plan)]
<1> DEFINE g == CHOOSE f : IsCompound(f, h, plan, Len(plan))
<1>1. IsCompound(g, h, plan, Len(plan))
  BY CompoundExists
<1>2. CompoundOf(h, plan) = g[Len(plan)]
  BY DEF CompoundOf, IsCompound, Adding
<1> QED
  BY <1>1, <1>2

--------------------------------------------------------------------------------
\* The packet after i packets of a datagram
Current(g, packets, i) ==
    IF i = 0 \/ (i > 1 /\ g[i - 1] = Null) THEN Null ELSE ParseNext(packets[i], g[i - 1])

\* The function of Parse, as far as packet n
IsParse(g, packets, n) == g = [i \in 0 .. n |-> Current(g, packets, i)]

\* One of its values
LEMMA ParseStep ==
    ASSUME NEW g, NEW packets, NEW n, IsParse(g, packets, n), NEW i \in 0 .. n
    PROVE  g[i] = Current(g, packets, i)
BY DEF IsParse

\* There is such a function.
LEMMA ParseExists ==
    ASSUME NEW packets
    PROVE  \A n \in Nat : \E g : IsParse(g, packets, n)
<1> DEFINE S == {n \in Nat : \E g : IsParse(g, packets, n)}
<1>1. 0 \in S
  <2> DEFINE g == [i \in 0 .. 0 |-> Null]
  <2>1. ASSUME NEW i \in 0 .. 0 PROVE g[i] = Current(g, packets, i)
    BY DEF Current
  <2>2. g = [i \in 0 .. 0 |-> Current(g, packets, i)]
    BY <2>1
  <2>3. IsParse(g, packets, 0)
    BY <2>2 DEF IsParse
  <2> HIDE DEF g
  <2> QED
    BY <2>3
<1>2. ASSUME NEW n \in Nat, n \in S PROVE n + 1 \in S
  <2>1. PICK f : IsParse(f, packets, n)
    BY <1>2
  <2> DEFINE g == [i \in 0 .. n + 1 |-> IF i <= n THEN f[i] ELSE Current(f, packets, i)]
  <2>2. ASSUME NEW i \in 0 .. n + 1 PROVE g[i] = Current(g, packets, i)
    <3>1. i # 0 => i - 1 \in 0 .. n /\ i - 1 \in 0 .. n + 1 /\ g[i - 1] = f[i - 1]
      OBVIOUS
    <3>2. Current(g, packets, i) = Current(f, packets, i)
      <4> HIDE DEF g
      <4> QED
        BY <3>1 DEF Current
    <3>3. i <= n => f[i] = Current(f, packets, i)
      <4> SUFFICES ASSUME i <= n PROVE f[i] = Current(f, packets, i)
        OBVIOUS
      <4>1. i \in 0 .. n
        OBVIOUS
      <4> QED
        BY <2>1, <4>1, ParseStep
    <3> QED
      BY <3>2, <3>3
  <2>3. IsParse(g, packets, n + 1)
    <3>1. g = [i \in 0 .. n + 1 |-> Current(g, packets, i)]
      BY <2>2
    <3> QED
      BY <3>1 DEF IsParse
  <2> HIDE DEF g
  <2> QED
    BY <2>3
<1> HIDE DEF S
<1>3. Nat \subseteq S
  BY <1>1, <1>2, Induction
<1> QED
  BY <1>3 DEF S

\* Parse is the last of its values.
LEMMA ParseIs ==
    ASSUME NEW packets, Len(packets) \in Nat
    PROVE  \E g : IsParse(g, packets, Len(packets)) /\ Parse(packets) = g[Len(packets)]
<1> DEFINE g == CHOOSE f : IsParse(f, packets, Len(packets))
<1>1. IsParse(g, packets, Len(packets))
  BY ParseExists
<1>2. Parse(packets) = g[Len(packets)]
  BY DEF Parse, IsParse, Current
<1> QED
  BY <1>1, <1>2

--------------------------------------------------------------------------------
(* What Parse finds in a datagram                                          *)

\* Nothing, the first sender report, as many receiver reports as the count tells,
\* or a NACK
Found(p, added) ==
    \/ p = Null
    \/ /\ p = [type |-> "SR", reports |-> FirstOf(1, added.SR)]
       /\ added.SR # <<>>
    \/ /\ p = [type |-> "RR", reports |-> FirstOf(Len(added.RR) % CountMod, added.RR)]
       /\ added.RR # <<>>
    \/ p.type = "RTPFB"

\* One more packet of the datagram
LEMMA NextFound ==
    ASSUME NEW added, NEW p \in Packets(added), NEW c, Found(c, added)
    PROVE  Found(ParseNext(p, c), added)
<1>1. CASE ~IsRtcp(p) \/ ~p.whole
  BY <1>1 DEF ParseNext, Found
<1>2. CASE IsRtcp(p) /\ p.whole /\ p \in Written(added)
  <2>1. CASE p.type = "SR"
    <3>1. p.blocks = added.SR /\ added.SR # <<>>
      BY <1>2, <2>1 DEF Written
    <3>2. ParseNext(p, c) = [type |-> "SR", reports |-> FirstOf(1, added.SR)]
      BY <1>2, <2>1, <3>1 DEF ParseNext, SenderReportPacket
    <3> QED
      BY <3>1, <3>2 DEF Found
  <2>2. CASE p.type = "RR"
    <3>1. p.blocks = added.RR /\ added.RR # <<>> /\ p.count = Len(added.RR) % CountMod
      BY <1>2, <2>2 DEF Written
    <3>2. ParseNext(p, c) = [type |-> "RR", reports |-> FirstOf(Len(added.RR) % CountMod, added.RR)]
      BY <1>2, <2>2, <3>1 DEF ParseNext, ReceiverReportPacket
    <3> QED
      BY <3>1, <3>2 DEF Found
  <2> QED
    BY <1>2, <2>1, <2>2 DEF Written
<1>3. CASE IsRtcp(p) /\ p.whole /\ p \in OtherPackets
  <2>1. p.type # "SR" /\ p.type # "RR"
    BY <1>3 DEF OtherPackets
  <2>2. CASE p.type = "RTPFB"
    <3>1. ParseNext(p, c) = FeedbackRtpPacket(p)
      BY <1>3, <2>2 DEF ParseNext
    <3>2. FeedbackRtpPacket(p) = Null \/ FeedbackRtpPacket(p).type = "RTPFB"
      BY DEF FeedbackRtpPacket, NackItems
    <3> QED
      BY <3>1, <3>2 DEF Found
  <2>3. CASE p.type # "RTPFB"
    <3>1. ParseNext(p, c) = c
      BY <1>3, <2>1, <2>3 DEF ParseNext
    <3> QED
      BY <3>1
  <2> QED
    BY <2>2, <2>3
<1> QED
  BY <1>1, <1>2, <1>3 DEF Packets

\* Parse finds one of these.
LEMMA ParseFinds ==
    ASSUME NEW added, NEW packets \in Seq(Packets(added))
    PROVE  Found(Parse(packets), added)
<1> DEFINE n == Len(packets)
<1>1. n \in Nat
  OBVIOUS
<1>2. PICK g : IsParse(g, packets, n) /\ Parse(packets) = g[n]
  BY <1>1, ParseIs
<1> DEFINE S == {i \in Nat : i <= n => Found(g[i], added)}
<1>3. 0 \in S
  <2>1. g[0] = Current(g, packets, 0)
    BY <1>1, <1>2, ParseStep
  <2> QED
    BY <2>1 DEF Current, Found
<1>4. ASSUME NEW i \in Nat, i \in S PROVE i + 1 \in S
  <2> SUFFICES ASSUME i + 1 <= n PROVE Found(g[i + 1], added)
    OBVIOUS
  <2> DEFINE k == i + 1
  <2>1. k \in 0 .. n /\ k \in 1 .. n /\ k # 0 /\ k - 1 = i
    BY <1>1
  <2>2. Found(g[i], added)
    BY <1>4, <1>1
  <2> HIDE DEF k
  <2>3. packets[k] \in Packets(added)
    BY <2>1
  <2>4. g[k] = Current(g, packets, k)
    BY <1>2, <2>1, ParseStep
  <2>5. g[k] = Null \/ g[k] = ParseNext(packets[k], g[i])
    BY <2>1, <2>4 DEF Current
  <2>6. Found(ParseNext(packets[k], g[i]), added)
    BY <2>2, <2>3, NextFound
  <2>7. Found(g[k], added)
    BY <2>5, <2>6 DEF Found
  <2> QED
    BY <2>7 DEF k
<1>5. n \in S
  <2> HIDE DEF S
  <2> QED
    BY <1>1, <1>3, <1>4, Induction
<1> QED
  BY <1>1, <1>2, <1>5

\* The reports that FirstOf returns are reports of the packet, in their places.
LEMMA FirstReports ==
    ASSUME NEW S, NEW s \in Seq(S), NEW n \in Nat
    PROVE  /\ FirstOf(n, s) \in Seq(S)
           /\ Len(s) <= n => FirstOf(n, s) = s
           /\ s # <<>> /\ n # 0 => FirstOf(n, s)[1] = s[1] /\ s[1] \in S
<1> DEFINE m == IF n < Len(s) THEN n ELSE Len(s)
<1>1. m \in 0 .. Len(s)
  OBVIOUS
<1>2. FirstOf(n, s) = SubSeq(s, 1, m)
  BY DEF FirstOf
<1> HIDE DEF m
<1>3. SubSeq(s, 1, m) \in Seq(S) /\ Len(SubSeq(s, 1, m)) = m
  BY <1>1, SubSeqProperties
<1>4. Len(s) <= n => m = Len(s)
  BY DEF m
<1>5. SubSeq(s, 1, Len(s)) = s
  OBVIOUS
<1>6. ASSUME s # <<>>, n # 0 PROVE SubSeq(s, 1, m)[1] = s[1] /\ s[1] \in S
  <2>1. Len(s) \in Nat \ {0} /\ s[1] \in S
    BY <1>6
  <2>2. 1 \in 1 .. m
    BY <1>6, <2>1 DEF m
  <2> QED
    BY <1>1, <2>1, <2>2
<1> QED
  BY <1>2, <1>3, <1>4, <1>5, <1>6

\* A datagram yields reports of what was sent.
LEMMA ParsedReports ==
    ASSUME NEW t, NEW d \in Datagrams(t)
    PROVE  LET packet == Parse(d.packets)
           IN  /\ d.to \in Host /\ d.size \in 0 .. MaxSize /\ d.added \in Added(t)
               /\ Found(packet, d.added)
               /\ packet.type = "SR" =>
                      packet.reports[1] = d.added.SR[1] /\ d.added.SR[1] \in SRBlocks(t)
               /\ packet.type = "RR" => packet.reports \in Seq(RRBlocks(t))
<1> DEFINE packet == Parse(d.packets)
           sr == d.added.SR
           rr == d.added.RR
           n == Len(rr) % CountMod
<1>1. /\ d.to \in Host /\ d.size \in 0 .. MaxSize /\ d.added \in Added(t)
      /\ d.packets \in Seq(Packets(d.added))
  BY DEF Datagrams
<1>2. sr \in Seq(SRBlocks(t)) /\ rr \in Seq(RRBlocks(t))
  BY <1>1 DEF Added
<1>3. Found(packet, d.added)
  BY <1>1, ParseFinds
<1>4. n \in Nat
  <2> DEFINE l == Len(rr)
  <2>1. l \in Int /\ CountMod \in Nat \ {0}
    BY <1>2, ReportConstants
  <2> HIDE DEF l
  <2>2. l % CountMod \in 0 .. CountMod - 1
    BY <2>1, Parts
  <2>3. l % CountMod \in Nat
    BY <2>1, <2>2
  <2> QED
    BY <2>3 DEF l
<1>5. packet.type = "SR" => packet.reports = FirstOf(1, sr) /\ sr # <<>>
  BY <1>3 DEF Found, Null
<1>6. packet.type = "RR" => packet.reports = FirstOf(n, rr)
  BY <1>3 DEF Found, Null
<1> HIDE DEF packet, sr, rr, n
<1>7. packet.type = "SR" => packet.reports[1] = sr[1] /\ sr[1] \in SRBlocks(t)
  <2>1. \A k \in Nat : sr # <<>> /\ k # 0 => FirstOf(k, sr)[1] = sr[1] /\ sr[1] \in SRBlocks(t)
    BY <1>2, FirstReports
  <2>2. sr # <<>> => FirstOf(1, sr)[1] = sr[1] /\ sr[1] \in SRBlocks(t)
    BY <2>1
  <2> QED
    BY <1>5, <2>2
<1>8. packet.type = "RR" => packet.reports \in Seq(RRBlocks(t))
  <2>1. FirstOf(n, rr) \in Seq(RRBlocks(t))
    BY <1>2, <1>4, FirstReports, Zenon
  <2> QED
    BY <1>6, <2>1
<1> QED
  BY <1>1, <1>3, <1>7, <1>8 DEF packet, sr

\* One more packet of a datagram: Parse gives up at a bad one, and makes an object of
\* a good one whose type it knows.
LEMMA NextType ==
    ASSUME NEW added, NEW p \in Packets(added), NEW c
    PROVE  /\ ~IsGood(p) => ParseNext(p, c) = Null
           /\ IsGood(p) /\ p.type \in Parsed => ParseNext(p, c).type = p.type
           /\ IsGood(p) /\ p.type \notin Parsed => ParseNext(p, c) = c
<1>1. CASE ~IsRtcp(p) \/ ~p.whole
  BY <1>1 DEF ParseNext, IsGood
<1>2. CASE IsRtcp(p) /\ p.whole /\ p.type = "SR"
  <2>1. ParseNext(p, c) = SenderReportPacket(p)
    BY <1>2 DEF ParseNext
  <2> QED
    BY <1>2, <2>1 DEF SenderReportPacket, IsGood, Parsed
<1>3. CASE IsRtcp(p) /\ p.whole /\ p.type = "RR"
  <2>1. ParseNext(p, c) = ReceiverReportPacket(p)
    BY <1>3 DEF ParseNext
  <2> QED
    BY <1>3, <2>1 DEF ReceiverReportPacket, IsGood, Parsed
<1>4. CASE IsRtcp(p) /\ p.whole /\ p.type = "RTPFB"
  <2>1. ParseNext(p, c) = FeedbackRtpPacket(p)
    BY <1>4 DEF ParseNext
  <2> QED
    BY <1>4, <2>1 DEF FeedbackRtpPacket, NackItems, IsGood, Parsed
<1>5. CASE IsRtcp(p) /\ p.whole /\ p.type \notin Parsed
  <2>1. ParseNext(p, c) = c
    BY <1>5 DEF ParseNext, Parsed
  <2> QED
    BY <1>5, <2>1 DEF IsGood, Parsed
<1> QED
  BY <1>1, <1>2, <1>3, <1>4, <1>5 DEF Parsed

\* The first i packets are readable, and g holds what Parse has after them.
ReadableTo(packets, i) ==
    i >= 1 /\ packets[1].type \in Parsed /\ \A j \in 1 .. i : IsGood(packets[j])

TypeOfLast(g, packets, i) ==
    \E k \in 1 .. i : /\ packets[k].type \in Parsed
                      /\ \A j \in 1 .. i : packets[j].type \in Parsed => j <= k
                      /\ g[i].type = packets[k].type

IsRead(g, packets, i) ==
    /\ ~ReadableTo(packets, i) => g[i] = Null
    /\ ReadableTo(packets, i) => TypeOfLast(g, packets, i)

\* Reading the first packet
LEMMA FirstIsRead ==
    ASSUME NEW added, NEW packets \in Seq(Packets(added)), NEW g,
           IsParse(g, packets, Len(packets)), Len(packets) >= 1
    PROVE  IsRead(g, packets, 1)
<1>1. 1 \in 0 .. Len(packets) /\ packets[1] \in Packets(added) /\ Len(packets) \in Nat
  OBVIOUS
<1>2. g[0] = Null
  <2>1. 0 \in 0 .. Len(packets)
    BY <1>1
  <2>2. g[0] = Current(g, packets, 0)
    BY <2>1, ParseStep
  <2> QED
    BY <2>2 DEF Current
<1>3. g[1] = ParseNext(packets[1], Null)
  <2>1. g[1] = Current(g, packets, 1)
    BY <1>1, ParseStep
  <2>2. Current(g, packets, 1) = ParseNext(packets[1], g[1 - 1]) /\ 1 - 1 = 0
    BY DEF Current
  <2> QED
    BY <1>2, <2>1, <2>2
<1>4. \A j \in 1 .. 1 : j = 1
  OBVIOUS
<1>5. ASSUME ~ReadableTo(packets, 1) PROVE g[1] = Null
  <2>1. ~IsGood(packets[1]) \/ packets[1].type \notin Parsed
    BY <1>4, <1>5 DEF ReadableTo
  <2> QED
    BY <1>1, <1>3, <2>1, NextType
<1>6. ASSUME ReadableTo(packets, 1) PROVE TypeOfLast(g, packets, 1)
  <2>1. IsGood(packets[1]) /\ packets[1].type \in Parsed
    BY <1>6 DEF ReadableTo
  <2>2. g[1].type = packets[1].type
    BY <1>1, <1>3, <2>1, NextType
  <2> QED
    BY <1>4, <2>1, <2>2 DEF TypeOfLast
<1> QED
  BY <1>5, <1>6 DEF IsRead

\* Reading one more
LEMMA NextIsRead ==
    ASSUME NEW added, NEW packets \in Seq(Packets(added)), NEW g,
           IsParse(g, packets, Len(packets)),
           NEW i \in Nat \ {0}, i + 1 <= Len(packets), IsRead(g, packets, i)
    PROVE  IsRead(g, packets, i + 1)
<1> DEFINE n == i + 1
<1>1. /\ n \in 0 .. Len(packets) /\ packets[n] \in Packets(added)
      /\ n > 1 /\ n - 1 = i /\ n >= 1 /\ n \in Nat /\ n \in 1 .. n
      /\ 1 .. n = (1 .. i) \cup {n} /\ i >= 1 /\ \A j \in 1 .. n : j <= n
  OBVIOUS
<1> SUFFICES IsRead(g, packets, n)
  OBVIOUS
<1> HIDE DEF n
<1>2. g[n] = IF g[i] = Null THEN Null ELSE ParseNext(packets[n], g[i])
  <2>1. g[n] = Current(g, packets, n)
    BY <1>1, ParseStep
  <2> QED
    BY <1>1, <2>1 DEF Current
<1>3. ReadableTo(packets, n) <=> ReadableTo(packets, i) /\ IsGood(packets[n])
  BY <1>1 DEF ReadableTo
<1>4. CASE ~ReadableTo(packets, i)
  BY <1>2, <1>3, <1>4 DEF IsRead
<1>5. CASE ReadableTo(packets, i)
  <2>1. PICK k \in 1 .. i : /\ packets[k].type \in Parsed
                            /\ \A j \in 1 .. i : packets[j].type \in Parsed => j <= k
                            /\ g[i].type = packets[k].type
    BY <1>5 DEF IsRead, TypeOfLast
  <2>2. g[i] # Null
    BY <2>1 DEF Parsed, Null
  <2>3. g[n] = ParseNext(packets[n], g[i])
    BY <1>2, <2>2
  <2>4. CASE ~IsGood(packets[n])
    BY <1>1, <1>3, <2>3, <2>4, NextType DEF IsRead
  <2>5. CASE IsGood(packets[n]) /\ packets[n].type \in Parsed
    <3>1. g[n].type = packets[n].type
      BY <1>1, <2>3, <2>5, NextType
    <3>2. TypeOfLast(g, packets, n)
      BY <1>1, <2>5, <3>1 DEF TypeOfLast
    <3> QED
      BY <1>3, <1>5, <2>5, <3>2 DEF IsRead
  <2>6. CASE IsGood(packets[n]) /\ packets[n].type \notin Parsed
    <3>1. g[n] = g[i]
      BY <1>1, <2>3, <2>6, NextType
    <3>2. k \in 1 .. n /\ \A j \in 1 .. n : packets[j].type \in Parsed => j <= k
      BY <1>1, <2>1, <2>6
    <3>3. TypeOfLast(g, packets, n)
      BY <2>1, <3>1, <3>2 DEF TypeOfLast
    <3> QED
      BY <1>3, <1>5, <2>6, <3>3 DEF IsRead
  <2> QED
    BY <2>4, <2>5, <2>6
<1> QED
  BY <1>4, <1>5

\* A readable datagram is parsed to the last packet of a parsed type, and another
\* one to nothing.
LEMMA ReadsLast ==
    ASSUME NEW added, NEW packets \in Seq(Packets(added))
    PROVE  /\ Parse(packets) = Null <=> ~Readable(packets)
           /\ Readable(packets) =>
                  \E k \in DOMAIN packets :
                      /\ packets[k].type \in Parsed
                      /\ \A j \in DOMAIN packets : packets[j].type \in Parsed => j <= k
                      /\ Parse(packets).type = packets[k].type
<1> DEFINE n == Len(packets)
<1>1. n \in Nat /\ DOMAIN packets = 1 .. n
  OBVIOUS
<1>2. PICK g : IsParse(g, packets, n) /\ Parse(packets) = g[n]
  BY <1>1, ParseIs
<1>3. CASE n = 0
  <2>1. packets = <<>> /\ 0 \in 0 .. n
    BY <1>1, <1>3, EmptySeq
  <2>2. g[0] = Current(g, packets, 0)
    BY <1>2, <2>1, ParseStep
  <2> QED
    BY <1>2, <1>3, <2>1, <2>2 DEF Current, Readable
<1>4. CASE n # 0
  <2>1. n >= 1 /\ packets # <<>>
    BY <1>1, <1>4
  <2>2. IsRead(g, packets, 1)
    BY <1>2, <2>1, FirstIsRead
  <2> DEFINE S == {i \in Nat : 1 <= i /\ i <= n => IsRead(g, packets, i)}
  <2>3. 0 \in S
    OBVIOUS
  <2>4. ASSUME NEW i \in Nat, i \in S PROVE i + 1 \in S
    <3>1. CASE i = 0
      BY <2>2, <3>1
    <3>2. CASE i # 0 /\ i + 1 <= n
      <4>1. i \in Nat \ {0} /\ IsRead(g, packets, i)
        BY <1>1, <2>4, <3>2
      <4>2. IsRead(g, packets, i + 1)
        BY <1>2, <3>2, <4>1, NextIsRead
      <4> QED
        BY <4>2
    <3>3. CASE i # 0 /\ ~(i + 1 <= n)
      BY <3>3
    <3> QED
      BY <3>1, <3>2, <3>3
  <2>5. n \in S
    <3> HIDE DEF S
    <3> QED
      BY <1>1, <2>3, <2>4, Induction
  <2>6. IsRead(g, packets, n)
    BY <1>1, <2>1, <2>5
  <2> HIDE DEF S
  <2>7. ReadableTo(packets, n) <=> Readable(packets)
    BY <1>1, <2>1 DEF ReadableTo, Readable
  <2>8. TypeOfLast(g, packets, n) =>
            \E k \in DOMAIN packets :
                /\ packets[k].type \in Parsed
                /\ \A j \in DOMAIN packets : packets[j].type \in Parsed => j <= k
                /\ Parse(packets).type = packets[k].type
    BY <1>1, <1>2 DEF TypeOfLast
  <2>9. TypeOfLast(g, packets, n) => g[n] # Null
    BY DEF TypeOfLast, Parsed, Null
  <2> QED
    BY <1>2, <2>6, <2>7, <2>8, <2>9 DEF IsRead
<1> QED
  BY <1>3, <1>4

\* What the host finds in a datagram
LEMMA Arrives ==
    ASSUME NEW t, NEW d \in Datagrams(t)
    PROVE  LET packet == Parse(d.packets)
               parsed == {i \in DOMAIN d.packets : d.packets[i].type \in Parsed}
           IN  /\ d.size \in 0 .. MaxSize
               /\ packet = Null <=> ~Readable(d.packets)
               /\ Readable(d.packets) =>
                      \E i \in parsed : /\ \A j \in parsed : j <= i
                                        /\ packet.type = d.packets[i].type
               /\ packet.type = "SR" => packet.reports = FirstOf(1, d.added.SR)
               /\ packet.type = "RR" =>
                      packet.reports = FirstOf(Len(d.added.RR) % CountMod, d.added.RR)
<1>1. d.size \in 0 .. MaxSize /\ Found(Parse(d.packets), d.added)
  BY ParsedReports
<1>2. d.packets \in Seq(Packets(d.added))
  BY DEF Datagrams
<1>3. /\ Parse(d.packets) = Null <=> ~Readable(d.packets)
      /\ Readable(d.packets) =>
             \E k \in DOMAIN d.packets :
                 /\ d.packets[k].type \in Parsed
                 /\ \A j \in DOMAIN d.packets : d.packets[j].type \in Parsed => j <= k
                 /\ Parse(d.packets).type = d.packets[k].type
  BY <1>2, ReadsLast
<1>4. /\ Parse(d.packets).type = "SR" => Parse(d.packets).reports = FirstOf(1, d.added.SR)
      /\ Parse(d.packets).type = "RR" =>
             Parse(d.packets).reports = FirstOf(Len(d.added.RR) % CountMod, d.added.RR)
  BY <1>1 DEF Found, Null
<1> QED
  BY <1>1, <1>3, <1>4

--------------------------------------------------------------------------------
(* The inductive invariant                                                 *)

\* What a receiving stream knows at time t of the sender report it got last
Known(t) ==
    {NotHeard} \cup
    {r \in [last_sr_received : MinTime .. t, last_sr_timestamp : Nat, sent : MinTime .. t] :
        r.sent <= r.last_sr_received /\ r.last_sr_timestamp = Compact(r.sent)}

Clock == now \in MinTime .. MaxTime

ReceiversKnow == receivers \in [UNION {Receives[h] : h \in Host} -> Known(now)]

NetworkCarries == network \subseteq Datagrams(now)

IInv == Clock /\ ReceiversKnow /\ NetworkCarries /\ RttRight /\ LostArrives

\* What a stream knows at a time it may know later.
LEMMA KnownStays ==
    ASSUME NEW t \in Nat, NEW u \in Nat, t <= u
    PROVE  Known(t) \subseteq Known(u)
<1>1. MinTime .. t \subseteq MinTime .. u
  BY ReportConstants
<1> QED
  BY <1>1 DEF Known

\* Init satisfies the invariant.
LEMMA InitInv == Init => IInv
<1> SUFFICES ASSUME Init PROVE IInv
  OBVIOUS
<1>1. Clock
  BY ReportConstants DEF Init, Clock
<1>2. ReceiversKnow
  BY DEF Init, ReceiversKnow, Known
<1>3. NetworkCarries
  BY DEF Init, NetworkCarries
<1>4. ASSUME NEW s \in DOMAIN senders
      PROVE  senders[s] = [rtt |-> 0, packets_lost |-> 0, lost |-> 0, took |-> 0, unknown |-> TRUE]
  BY DEF Init
<1>5. RttRight
  BY <1>4 DEF RttRight
<1>6. LostArrives
  <2>1. InLimits(0) = 0
    BY ReportConstants DEF InLimits
  <2> QED
    BY <1>4, <2>1 DEF LostArrives
<1> QED
  BY <1>1, <1>2, <1>3, <1>5, <1>6 DEF IInv

--------------------------------------------------------------------------------
(* Sending                                                                 *)

\* GetRtcpSenderReport
LEMMA MakesSenderReport ==
    ASSUME IInv, NEW s \in Nat
    PROVE  GetRtcpSenderReport(s) \in SRBlocks(now)
<1>1. now \in MinTime .. now
  BY ReportConstants DEF IInv, Clock
<1> QED
  BY <1>1 DEF GetRtcpSenderReport, SenderReport, SRBlocks

\* GetRtcpReceiverReport tells of the sender report the stream knows, or of none.
LEMMA MakesReceiverReport ==
    ASSUME IInv, NEW h \in Host, NEW s \in Receives[h], NEW lost \in Int
    PROVE  GetRtcpReceiverReport(s, lost) \in RRBlocks(now)
<1>1. s \in Nat
  BY ReportAssumption
<1>2. now \in MinTime .. now /\ now \in Nat
  BY ReportConstants DEF IInv, Clock
<1>3. receivers[s] \in Known(now)
  BY DEF IInv, ReceiversKnow
<1>4. SetTotalLost(lost) \in Int
  BY LostAndBack
<1> DEFINE k == receivers[s]
           r == GetRtcpReceiverReport(s, lost)
<1>5. CASE k.last_sr_received = 0
  <2>1. k = NotHeard
    BY <1>3, <1>5, ReportConstants DEF Known
  <2>2. r = [ssrc |-> s, total_lost |-> SetTotalLost(lost), last_sr |-> 0, dlsr |-> 0,
             lost |-> lost, made |-> now, sr_sent |-> 0, sr_received |-> 0]
    BY <2>1 DEF GetRtcpReceiverReport, ReceiverReport, NotHeard
  <2> HIDE DEF r
  <2>3. Answers(r)
    BY <2>2 DEF Answers
  <2> QED
    BY <1>1, <1>2, <1>4, <2>2, <2>3 DEF RRBlocks, r
<1>6. CASE k.last_sr_received # 0
  <2>1. k # NotHeard
    BY <1>6 DEF NotHeard
  <2>2. /\ k.last_sr_received \in MinTime .. now /\ k.sent \in MinTime .. now
        /\ k.sent <= k.last_sr_received /\ k.last_sr_timestamp = Compact(k.sent)
        /\ k.last_sr_timestamp \in Nat
    BY <1>3, <2>1 DEF Known
  <2> DEFINE dlsr == Compact(now - k.last_sr_received)
  <2>3. r = [ssrc |-> s, total_lost |-> SetTotalLost(lost), last_sr |-> k.last_sr_timestamp, dlsr |-> dlsr,
             lost |-> lost, made |-> now, sr_sent |-> k.sent, sr_received |-> k.last_sr_received]
    BY <1>6 DEF GetRtcpReceiverReport, ReceiverReport
  <2>4. dlsr \in Nat
    <3>1. now - k.last_sr_received \in Nat
      BY <1>2, <2>2, ReportConstants
    <3>2. dlsr \in 0 .. NtpMod - 1
      BY <3>1, CompactType
    <3> QED
      BY <3>2, ReportConstants
  <2>5. /\ k.last_sr_received \in Nat \ {0} /\ k.sent \in Nat /\ k.last_sr_received <= now
        /\ k.sent \in MinTime .. k.last_sr_received
    BY <1>2, <2>2, ReportConstants
  <2> HIDE DEF r, k
  <2>6. Answers(r)
    BY <2>2, <2>3, <2>5 DEF Answers
  <2>7. r \in [ssrc : Nat, total_lost : Int, last_sr : Nat, dlsr : Nat, lost : Int,
               made : MinTime .. now, sr_sent : Nat, sr_received : Nat]
    <3> HIDE DEF dlsr
    <3> QED
      BY <1>1, <1>2, <1>4, <2>2, <2>3, <2>4, <2>5
  <2>8. r.total_lost = SetTotalLost(r.lost)
    BY <2>3
  <2> QED
    BY <2>6, <2>7, <2>8 DEF RRBlocks, r
<1> QED
  BY <1>5, <1>6

Blocks(type, t) == IF type = "SR" THEN SRBlocks(t) ELSE RRBlocks(t)

\* A datagram with one report
LEMMA SingleIsSent ==
    ASSUME NEW h \in Host, NEW type \in {"SR", "RR"}, NEW report \in Blocks(type, now)
    PROVE  Single(h, type, report) \in Datagrams(now)
<1> DEFINE c == AddReport(Empty, type, report)
<1>1. c \in Compounded(now)
  BY EmptyCompound, AddedReport DEF Blocks
<1>2. Single(h, type, report) = Datagram(h, Serialize(c), c)
  BY DEF Single
<1> HIDE DEF c
<1>3. Serialize(c) \in Seq(Packets(c.added))
  BY <1>1, Serialized
<1> QED
  BY <1>1, <1>2, <1>3, Sent

\* A report of a compound is one the host can make.
LEMMA PlannedReport ==
    ASSUME IInv, NEW h \in Host, NEW type \in {"SR", "RR"}, Sends[h] = {} => type = "RR"
    PROVE  Planned(h, type) \in Blocks(type, now)
<1>1. CASE type = "SR"
  <2>1. Sends[h] \in SUBSET Nat /\ Sends[h] # {}
    BY <1>1, ReportAssumption
  <2>2. Least(Sends[h]) \in Nat
    BY <2>1, LeastIsLeast
  <2> QED
    BY <1>1, <2>2, MakesSenderReport DEF Planned, Blocks
<1>2. CASE type = "RR"
  <2>1. Receives[h] \in SUBSET Nat /\ Receives[h] # {}
    BY ReportAssumption
  <2>2. Least(Receives[h]) \in Receives[h]
    BY <2>1, LeastIsLeast
  <2> QED
    BY <1>2, <2>2, MakesReceiverReport DEF Planned, Blocks
<1> QED
  BY <1>1, <1>2

\* CompoundOf holds the reports it accepted.
LEMMA CompoundIsCompounded ==
    ASSUME IInv, NEW h \in Host, NEW plan \in Seq({"SR", "RR"}),
           Sends[h] = {} => \A i \in DOMAIN plan : plan[i] = "RR"
    PROVE  CompoundOf(h, plan) \in Compounded(now)
<1> DEFINE n == Len(plan)
<1>1. n \in Nat
  OBVIOUS
<1>2. PICK g : IsCompound(g, h, plan, n) /\ CompoundOf(h, plan) = g[n]
  BY <1>1, CompoundIs
<1> DEFINE S == {i \in Nat : i <= n => g[i] \in Compounded(now)}
<1>3. 0 \in S
  <2>1. g[0] = Empty
    BY <1>1, <1>2, CompoundStep DEF Adding
  <2> QED
    BY <2>1, EmptyCompound
<1>4. ASSUME NEW i \in Nat, i \in S PROVE i + 1 \in S
  <2> SUFFICES ASSUME i + 1 <= n PROVE g[i + 1] \in Compounded(now)
    OBVIOUS
  <2> DEFINE k == i + 1
  <2>1. k \in 0 .. n /\ k \in 1 .. n /\ k # 0 /\ k - 1 = i /\ k \in DOMAIN plan
    BY <1>1
  <2>2. g[i] \in Compounded(now)
    BY <1>1, <1>4
  <2> HIDE DEF k
  <2>3. g[k] = AddReport(g[i], plan[k], Planned(h, plan[k]))
    BY <1>2, <2>1, CompoundStep DEF Adding
  <2>4. plan[k] \in {"SR", "RR"} /\ (Sends[h] = {} => plan[k] = "RR")
    BY <2>1
  <2>5. Planned(h, plan[k]) \in Blocks(plan[k], now)
    BY <2>4, PlannedReport
  <2>6. g[k] \in Compounded(now)
    BY <2>2, <2>3, <2>4, <2>5, AddedReport DEF Blocks
  <2> QED
    BY <2>6 DEF k
<1>5. n \in S
  <2> HIDE DEF S
  <2> QED
    BY <1>1, <1>3, <1>4, Induction
<1> QED
  BY <1>1, <1>2, <1>5

\* Sending datagrams of such reports keeps the invariant, whatever gets lost.
LEMMA PostStep ==
    ASSUME IInv, NEW D, D \subseteq Datagrams(now), Post(D)
    PROVE  IInv'
<1>1. UNCHANGED <<now, receivers, senders>> /\ network' \subseteq network \cup D
  BY DEF Post
<1>2. NetworkCarries'
  BY <1>1 DEF IInv, NetworkCarries
<1>3. Clock' /\ ReceiversKnow'
  BY <1>1 DEF IInv, Clock, ReceiversKnow
<1>4. RttRight' /\ LostArrives'
  BY <1>1 DEF IInv, RttRight, LostArrives
<1> QED
  BY <1>2, <1>3, <1>4 DEF IInv

\* SendRtcpPacket keeps the invariant.
LEMMA SendStep ==
    ASSUME IInv, NEW h \in Host, NEW lost \in [Receives[h] -> Int], SendRtcpPacket(h, lost)
    PROVE  IInv'
<1>1. ASSUME NEW s \in Receives[h]
      PROVE  Single(h, "RR", GetRtcpReceiverReport(s, lost[s])) \in Datagrams(now)
  <2>1. GetRtcpReceiverReport(s, lost[s]) \in Blocks("RR", now)
    BY MakesReceiverReport DEF Blocks
  <2> QED
    BY <2>1, SingleIsSent
<1>2. ASSUME NEW s \in Sends[h]
      PROVE  Single(h, "SR", GetRtcpSenderReport(s)) \in Datagrams(now)
  <2>1. s \in Nat
    BY ReportAssumption
  <2>2. GetRtcpSenderReport(s) \in Blocks("SR", now)
    BY <2>1, MakesSenderReport DEF Blocks
  <2> QED
    BY <2>2, SingleIsSent
<1> DEFINE D == {Single(h, "RR", GetRtcpReceiverReport(s, lost[s])) : s \in Receives[h]}
                \cup {Single(h, "SR", GetRtcpSenderReport(s)) : s \in Sends[h]}
<1>3. D \subseteq Datagrams(now)
  BY <1>1, <1>2
<1>4. Post(D)
  BY DEF SendRtcpPacket
<1> HIDE DEF D
<1> QED
  BY <1>3, <1>4, PostStep

\* SendCompoundPacket keeps the invariant.
LEMMA SendCompoundStep ==
    ASSUME IInv, NEW h \in Host, NEW c \in Compounds[h], SendCompoundPacket(h, c)
    PROVE  IInv'
<1> DEFINE compound == CompoundOf(h, c.plan)
           packets == c.before \o Serialize(compound) \o c.after
           d == Datagram(h, IF c.whole THEN packets ELSE CutOff(packets), compound)
<1>1. /\ c.plan \in Seq({"SR", "RR"}) /\ c.before \in Seq(OtherPackets) /\ c.after \in Seq(OtherPackets)
      /\ Sends[h] = {} => \A i \in DOMAIN c.plan : c.plan[i] = "RR"
  BY CompoundsAssumption
<1>2. compound \in Compounded(now)
  BY <1>1, CompoundIsCompounded
<1>3. Post({d})
  BY DEF SendCompoundPacket
<1>4. d \in Datagrams(now)
  <2> HIDE DEF compound
  <2> DEFINE P == Packets(compound.added)
  <2>1. Serialize(compound) \in Seq(P)
    BY <1>2, Serialized
  <2>2. c.before \in Seq(P) /\ c.after \in Seq(P)
    <3>1. OtherPackets \subseteq P
      BY DEF Packets
    <3> QED
      BY <1>1, <3>1, SeqMonotonic
  <2> HIDE DEF P
  <2>3. packets \in Seq(P)
    BY <2>1, <2>2
  <2> DEFINE s == IF c.whole THEN packets ELSE CutOff(packets)
  <2> HIDE DEF packets
  <2>4. s \in Seq(P)
    BY <2>3, CutOffPackets DEF P
  <2> HIDE DEF s
  <2>5. Datagram(h, s, compound) \in Datagrams(now)
    BY <1>2, <2>4, Sent DEF P
  <2> QED
    BY <2>5 DEF s
<1> HIDE DEF d
<1> QED
  BY <1>3, <1>4, PostStep

--------------------------------------------------------------------------------
(* Receiving                                                               *)

\* GetStreamReceiverBySsrc returns a stream of the host.
LEMMA StreamFound ==
    ASSUME NEW h \in Host, NEW ssrc
    PROVE  GetStreamReceiverBySsrc(h, ssrc) \in Receives[h]
<1>1. Receives[h] \in SUBSET Nat /\ Receives[h] # {}
  BY ReportAssumption
<1>2. Least(Receives[h]) \in Receives[h]
  BY <1>1, LeastIsLeast
<1> QED
  BY <1>2 DEF GetStreamReceiverBySsrc

\* A stream knows the sender report that arrived.
LEMMA SenderReportStep ==
    ASSUME IInv, NEW h \in Host, NEW report \in SRBlocks(now),
           ReceiveRtcpSenderReport(h, report), now' = now
    PROVE  ReceiversKnow'
<1> DEFINE s == GetStreamReceiverBySsrc(h, report.ssrc)
           k == [last_sr_received |-> now, last_sr_timestamp |-> report.ntp, sent |-> report.sent]
<1>1. s \in UNION {Receives[g] : g \in Host}
  BY StreamFound
<1>2. PICK m \in MinTime .. now : report.ntp = Compact(m) /\ report.sent = m
  BY DEF SRBlocks
<1>3. now \in MinTime .. now /\ m \in Nat /\ m <= now
  BY ReportConstants DEF IInv, Clock
<1>4. Compact(m) \in Nat
  <2>1. Compact(m) \in 0 .. NtpMod - 1
    BY <1>3, CompactType
  <2> QED
    BY <2>1, ReportConstants
<1>5. k \in Known(now)
  BY <1>2, <1>3, <1>4 DEF Known
<1>6. receivers' = [receivers EXCEPT ![s] = k]
  BY DEF ReceiveRtcpSenderReport
<1> HIDE DEF s, k
<1> QED
  BY <1>1, <1>5, <1>6 DEF IInv, ReceiversKnow

\* What a receiver report leaves in its stream
LEMMA AnswerIsRight ==
    ASSUME IInv, NEW r \in RRBlocks(now), NEW sender, sender = ReceiveRtcpReceiverReport(r)
    PROVE  /\ IF sender.unknown THEN sender.rtt = 0
              ELSE sender.rtt \in Units(sender.took) .. Units(sender.took) + 2
           /\ LET lost == InLimits(sender.lost)
              IN  sender.packets_lost = IF lost >= 0 THEN lost ELSE lost + LostMod
<1>1. now \in MinTime .. MaxTime
  BY DEF IInv, Clock
<1>2. IF sender.unknown THEN sender.rtt = 0
      ELSE sender.rtt \in Units(sender.took) .. Units(sender.took) + 2
  BY <1>1, RttOfAnswer
<1>3. r.total_lost = SetTotalLost(r.lost) /\ r.lost \in Int
  BY DEF RRBlocks
<1>4. sender.packets_lost = GetTotalLost(SetTotalLost(r.lost)) % LostMod /\ sender.lost = r.lost
  BY <1>3 DEF ReceiveRtcpReceiverReport
<1>5. /\ GetTotalLost(SetTotalLost(r.lost)) = InLimits(r.lost)
      /\ InLimits(r.lost) \in -LostHalf .. LostHalf - 1
  BY <1>3, LostAndBack
<1> DEFINE lost == InLimits(r.lost)
<1>6. sender.packets_lost = lost % LostMod
  BY <1>4, <1>5
<1>7. lost \in -LostHalf .. LostHalf - 1
  BY <1>5
<1> HIDE DEF lost
<1>8. lost % LostMod = IF lost >= 0 THEN lost ELSE lost + LostMod
  BY <1>7, Unsigned
<1> QED
  BY <1>2, <1>4, <1>6, <1>8 DEF lost

\* The reports of a packet leave right values in the streams they are for.
LEMMA ReceiverReportsStep ==
    ASSUME IInv, NEW h \in Host, NEW reports \in Seq(RRBlocks(now)), ReceiveReports(h, reports)
    PROVE  RttRight' /\ LostArrives'
<1> DEFINE Of(s) == {i \in DOMAIN reports : reports[i].ssrc = s}
           last(s) == CHOOSE i \in Of(s) : \A j \in Of(s) : j <= i
<1>1. senders' = [s \in DOMAIN senders |->
                     IF s \in Sends[h] /\ Of(s) # {}
                     THEN ReceiveRtcpReceiverReport(reports[last(s)])
                     ELSE senders[s]]
  BY DEF ReceiveReports
<1>2. ASSUME NEW s, Of(s) # {} PROVE reports[last(s)] \in RRBlocks(now)
  <2> DEFINE T == Of(s)
             n == Len(reports)
  <2>1. n \in Nat /\ T \in SUBSET (1 .. n) /\ T # {}
    BY <1>2
  <2>2. \E i \in T : \A j \in T : j <= i
    <3> HIDE DEF T, n
    <3> QED
      BY <2>1, LastExists
  <2>3. last(s) \in T
    BY <2>2
  <2> QED
    BY <2>1, <2>3
<1> HIDE DEF Of, last
<1>3. ASSUME NEW s \in DOMAIN senders'
      PROVE  LET sender == senders'[s]
             IN  /\ IF sender.unknown THEN sender.rtt = 0
                    ELSE sender.rtt \in Units(sender.took) .. Units(sender.took) + 2
                 /\ LET lost == InLimits(sender.lost)
                    IN  sender.packets_lost = IF lost >= 0 THEN lost ELSE lost + LostMod
  <2>1. s \in DOMAIN senders
    BY <1>1
  <2>2. CASE s \in Sends[h] /\ Of(s) # {}
    <3>1. senders'[s] = ReceiveRtcpReceiverReport(reports[last(s)])
      BY <1>1, <2>1, <2>2
    <3>2. reports[last(s)] \in RRBlocks(now)
      BY <1>2, <2>2
    <3> QED
      BY <3>1, <3>2, AnswerIsRight
  <2>3. CASE ~(s \in Sends[h] /\ Of(s) # {})
    <3>1. senders'[s] = senders[s]
      BY <1>1, <2>1, <2>3
    <3> QED
      BY <2>1, <3>1 DEF IInv, RttRight, LostArrives
  <2> QED
    BY <2>2, <2>3
<1> QED
  BY <1>3 DEF RttRight, LostArrives

\* Deliver keeps the invariant.
LEMMA DeliverStep ==
    ASSUME IInv, NEW d \in network, Deliver(d)
    PROVE  IInv'
<1> DEFINE packet == Parse(d.packets)
<1>1. d \in Datagrams(now)
  BY DEF IInv, NetworkCarries
<1>2. now' = now /\ network' \subseteq network /\ ReceiveRtcpPacket(d)
  BY DEF Deliver
<1>3. /\ d.to \in Host
      /\ packet.type = "SR" => packet.reports[1] = d.added.SR[1] /\ d.added.SR[1] \in SRBlocks(now)
      /\ packet.type = "RR" => packet.reports \in Seq(RRBlocks(now))
  BY <1>1, ParsedReports
<1> HIDE DEF packet
<1>4. \/ /\ packet.type = "SR" /\ ReceiveRtcpSenderReport(d.to, packet.reports[1]) /\ UNCHANGED senders
      \/ /\ packet.type = "RR" /\ ReceiveReports(d.to, packet.reports) /\ UNCHANGED receivers
      \/ UNCHANGED <<senders, receivers>>
  BY <1>2 DEF ReceiveRtcpPacket, packet
<1>5. Clock' /\ NetworkCarries'
  BY <1>2 DEF IInv, Clock, NetworkCarries
<1>6. UNCHANGED receivers => ReceiversKnow'
  BY <1>2 DEF IInv, ReceiversKnow
<1>7. UNCHANGED senders => RttRight' /\ LostArrives'
  BY DEF IInv, RttRight, LostArrives
<1>8. CASE packet.type = "SR" /\ ReceiveRtcpSenderReport(d.to, packet.reports[1]) /\ UNCHANGED senders
  <2>1. ReceiversKnow'
    BY <1>2, <1>3, <1>8, SenderReportStep
  <2> QED
    BY <1>5, <1>7, <1>8, <2>1 DEF IInv
<1>9. CASE packet.type = "RR" /\ ReceiveReports(d.to, packet.reports) /\ UNCHANGED receivers
  <2>1. RttRight' /\ LostArrives'
    BY <1>3, <1>9, ReceiverReportsStep
  <2> QED
    BY <1>5, <1>6, <1>9, <2>1 DEF IInv
<1>10. CASE UNCHANGED <<senders, receivers>>
  BY <1>5, <1>6, <1>7, <1>10 DEF IInv
<1> QED
  BY <1>4, <1>8, <1>9, <1>10

\* Tick keeps the invariant.
LEMMA TickStep ==
    ASSUME IInv, Tick
    PROVE  IInv'
<1>1. /\ now < MaxTime /\ now' = now + 1 /\ UNCHANGED <<senders, receivers, network>>
      /\ now \in Nat /\ now + 1 \in Nat /\ now <= now + 1
  BY ReportConstants DEF IInv, Clock, Tick
<1>2. Clock'
  BY <1>1, ReportConstants DEF IInv, Clock
<1>3. Known(now) \subseteq Known(now + 1) /\ Datagrams(now) \subseteq Datagrams(now + 1)
  BY <1>1, KnownStays, DatagramsStay
<1>4. ReceiversKnow' /\ NetworkCarries'
  BY <1>1, <1>3 DEF IInv, ReceiversKnow, NetworkCarries
<1>5. RttRight' /\ LostArrives'
  BY <1>1 DEF IInv, RttRight, LostArrives
<1> QED
  BY <1>2, <1>4, <1>5 DEF IInv

\* Every step keeps the invariant.
LEMMA StepInv == IInv /\ [Next]_vars => IInv'
<1> SUFFICES ASSUME IInv, [Next]_vars PROVE IInv'
  OBVIOUS
<1>1. ASSUME NEW h \in Host,
             NEW lost \in {l \in [Receives[h] -> UNION {Losses[s] : s \in Receives[h]}] :
                              \A s \in Receives[h] : l[s] \in Losses[s]},
             SendRtcpPacket(h, lost)
      PROVE  IInv'
  <2>1. lost \in [Receives[h] -> Int]
    BY ReportAssumption
  <2> QED
    BY <1>1, <2>1, SendStep
<1>2. ASSUME NEW h \in Host, NEW c \in Compounds[h], SendCompoundPacket(h, c) PROVE IInv'
  BY <1>2, SendCompoundStep
<1>3. ASSUME NEW d \in network, Deliver(d) PROVE IInv'
  BY <1>3, DeliverStep
<1>4. CASE Tick
  BY <1>4, TickStep
<1>5. CASE UNCHANGED vars
  BY <1>5 DEF vars, IInv, Clock, ReceiversKnow, NetworkCarries, RttRight, LostArrives
<1> QED
  BY <1>1, <1>2, <1>3, <1>4, <1>5 DEF Next

\* The invariant holds in every state.
THEOREM Invariance == Spec => []IInv
BY InitInv, StepInv, PTL DEF Spec

\* However sender reports and their answers are lost, repeated, late or answered by
\* another stream, ReceiveRtcpReceiverReport (rtp_stream_sender.cpp) computes the
\* time the two were on the way, within the rounding of TimeMs2Ntp, or zero.
THEOREM RoundTripTime == Spec => []RttRight
<1>1. IInv => RttRight
  BY DEF IInv
<1> QED
  BY Invariance, <1>1, PTL

\* The 24 bits of SetTotalLost and GetTotalLost carry every total from -2^23 to
\* 2^23 - 1 and clamp the others; packets_lost_, which is unsigned, holds it, and
\* 2^32 more when it is negative.
THEOREM TotalLost == Spec => []LostArrives
<1>1. IInv => LostArrives
  BY DEF IInv
<1> QED
  BY Invariance, <1>1, PTL

\* Neither AddReport nor Serialize makes a datagram larger than kMaxSize.
\* RtcpPacket::Parse returns nothing exactly for the datagrams that do not begin with
\* a packet of a type it parses, or that hold one it gives up at.  For every other it
\* returns the last packet of such a type, with the first sender report, or as many
\* receiver reports as the five bits of the count tell, whatever is around them.
THEOREM ReportsAreFound == Spec => []ReportsArrive
<1>1. IInv => ReportsArrive
  <2> SUFFICES ASSUME IInv
               PROVE  ReportsArrive
    OBVIOUS
  <2>1. \A d \in network : d \in Datagrams(now)
    BY DEF IInv, NetworkCarries
  <2>2. \A x \in 0 .. MaxSize : x <= MaxSize
    BY ReportConstants
  <2> QED
    BY <2>1, <2>2, Arrives DEF ReportsArrive
<1> QED
  BY Invariance, <1>1, PTL
================================================================================
