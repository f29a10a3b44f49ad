------------------------- MODULE CopyOnWriteBufferProofs -------------------------
(***************************************************************************)
(* Proofs that CopyOnWriteBuffer counts the references to its Buffers and  *)
(* that it implements ValueBuffers, for any number of buffer objects, any  *)
(* bytes and any sizes.                                                    *)
(*                                                                         *)
(* The refinement rests on Inv: the reference counts are right             *)
(* (References), what a view shows lies within its Buffer (Views), and an  *)
(* operation that waits for its copy still fits the view it was called on  *)
(* (PendingFits).  A Buffer that one object alone refers to can then be    *)
(* changed in place, and a new one is nobody's, so that each step changes  *)
(* what one view shows (ReferStep, InPlaceStep, ShrinkStep); Shown and     *)
(* Tied are the abstract variables as functions of the state.              *)
(***************************************************************************)
EXTENDS CopyOnWriteBuffer, FiniteSetTheorems, SequenceTheorems, WellFoundedInduction, TLAPS

Users(b, i) == {o \in Buffers : b[o] = i}

LEMMA UsersAreFinite ==
    ASSUME NEW b, NEW i
    PROVE  IsFiniteSet(Users(b, i)) /\ Cardinality(Users(b, i)) \in Nat
<1>1. Users(b, i) \subseteq Buffers
  BY DEF Users
<1> QED
  BY <1>1, BuffersAssumption, FS_Subset, FS_CardinalityType

Addresses == Ids \cup {Null}

\* b becomes c: the object o refers to v.
Retargeted(b, c, o, v) ==
    /\ b \in [Buffers -> Addresses]
    /\ c \in [Buffers -> Addresses]
    /\ o \in Buffers /\ c[o] = v
    /\ \A p \in Buffers \ {o} : c[p] = b[p]

LEMMA UsersAfter ==
    ASSUME NEW b, NEW c, NEW o, NEW v, NEW i, Retargeted(b, c, o, v)
    PROVE  Cardinality(Users(c, i)) =
                Cardinality(Users(b, i)) + ((IF i = v THEN 1 ELSE 0) - (IF i = b[o] THEN 1 ELSE 0))
<1> DEFINE n == Cardinality(Users(b, i))
<1>1. /\ IsFiniteSet(Users(b, i)) /\ n \in Nat
      /\ o \in Users(b, i) <=> i = b[o]
  BY UsersAreFinite DEF Users, Retargeted
<1>2. /\ Cardinality(Users(b, i) \cup {o}) = IF o \in Users(b, i) THEN n ELSE n + 1
      /\ Cardinality(Users(b, i) \ {o}) = IF o \in Users(b, i) THEN n - 1 ELSE n
  BY <1>1, FS_AddElement, FS_RemoveElement
<1>3. CASE i = v
  <2>1. Users(c, i) = Users(b, i) \cup {o}
    BY <1>3 DEF Users, Retargeted
  <2>2. Cardinality(Users(c, i)) = IF i = b[o] THEN n ELSE n + 1
    BY <1>1, <1>2, <2>1
  <2> HIDE DEF n
  <2> QED
    BY <1>1, <1>3, <2>2 DEF n
<1>4. CASE i # v
  <2>1. Users(c, i) = Users(b, i) \ {o}
    BY <1>4 DEF Users, Retargeted
  <2>2. Cardinality(Users(c, i)) = IF i = b[o] THEN n - 1 ELSE n
    BY <1>1, <1>2, <2>1
  <2> HIDE DEF n
  <2> QED
    BY <1>1, <1>4, <2>2 DEF n
<1> QED
  BY <1>3, <1>4

--------------------------------------------------------------------------------

References == buffer \in [Buffers -> Addresses] /\ CountsReferences

LEMMA CountOf ==
    ASSUME References, NEW i \in Ids
    PROVE  ref_count[i] = Cardinality(Users(buffer, i)) /\ ref_count[i] \in Nat
<1>1. ref_count[i] = Cardinality(Users(buffer, i))
  BY DEF References, CountsReferences, Users
<1> QED
  BY <1>1, UsersAreFinite

\* operator new finds memory: there is one more address than there are objects.
LEMMA FreshIsFree ==
    ASSUME References
    PROVE  Fresh \in Ids /\ ref_count[Fresh] = 0
<1> DEFINE free == {i \in Ids : ref_count[i] = 0}
           used == {o \in Buffers : buffer[o] \in Ids}
           f == [o \in used |-> buffer[o]]
<1>1. Cardinality(Buffers) \in Nat /\ Ids \subseteq Nat
  BY BuffersAssumption, FS_CardinalityType DEF Ids
<1>2. IsFiniteSet(Ids) /\ Cardinality(Ids) = Cardinality(Buffers) + 1
  BY <1>1, FS_Interval DEF Ids
<1>3. IsFiniteSet(used) /\ Cardinality(used) <= Cardinality(Buffers)
  <2>1. used \subseteq Buffers
    OBVIOUS
  <2> QED
    BY <2>1, BuffersAssumption, FS_Subset
<1>4. free # {}
  <2> SUFFICES ASSUME free = {} PROVE FALSE
    OBVIOUS
  <2>1. ASSUME NEW i \in Ids PROVE \E o \in used : f[o] = i
    <3>1. Cardinality(Users(buffer, i)) # 0
      BY <2>1 DEF References, CountsReferences, Users
    <3>2. Users(buffer, i) # {}
      BY <3>1, FS_EmptySet
    <3> QED
      BY <2>1, <3>2 DEF Users
  <2>2. f \in Surjection(used, Ids)
    BY <2>1 DEF Surjection
  <2> HIDE DEF used, f
  <2>3. Cardinality(Ids) <= Cardinality(used) /\ Cardinality(used) \in Nat
    BY <1>3, <2>2, FS_Surjection, FS_CardinalityType
  <2> QED
    BY <1>1, <1>2, <1>3, <2>3
<1>5. PICK m \in free : \A x \in free : m <= x
  <2>1. free \subseteq Nat
    BY <1>1
  <2> HIDE DEF free
  <2>2. PICK m \in free : \A x \in free : ~(<<x, m>> \in OpToRel(<, Nat))
    BY <1>4, <2>1, NatLessThanWellFounded, WFMin
  <2>3. ASSUME NEW x \in free PROVE m <= x
    <3>1. x \in Nat /\ m \in Nat
      BY <2>1, <2>2
    <3>2. ~(x < m)
      BY <2>2, <3>1 DEF OpToRel
    <3> QED
      BY <3>1, <3>2
  <2> QED
    BY <2>2, <2>3
<1>6. Min(free) \in free
  <2> HIDE DEF free
  <2> QED
    BY <1>5 DEF Min
<1> QED
  BY <1>6 DEF Fresh

\* scoped_refptr: every object that refers to something else moves one reference.
LEMMA ReferPreserves ==
    ASSUME References, NEW o \in Buffers, NEW id \in Addresses,
           buffer' = [buffer EXCEPT ![o] = id], ref_count' = Retarget(o, id)
    PROVE  References'
<1>1. ASSUME NEW i \in Ids PROVE ref_count'[i] = Cardinality(Users(buffer', i))
  <2>1. ref_count[i] = Cardinality(Users(buffer, i)) /\ ref_count[i] \in Nat
    BY CountOf
  <2>2. ref_count'[i] = ref_count[i] + ((IF i = id THEN 1 ELSE 0) - (IF i = buffer[o] THEN 1 ELSE 0))
    BY <2>1 DEF Retarget
  <2>3. Cardinality(Users(buffer', i)) =
          Cardinality(Users(buffer, i)) + ((IF i = id THEN 1 ELSE 0) - (IF i = buffer[o] THEN 1 ELSE 0))
    <3>1. Retargeted(buffer, buffer', o, id)
      BY DEF Retargeted, References
    <3> QED
      BY <3>1, UsersAfter
  <2> QED
    BY <2>1, <2>2, <2>3
<1>2. buffer' \in [Buffers -> Addresses]
  BY DEF References
<1> QED
  BY <1>1, <1>2 DEF References, CountsReferences, Users, Addresses, Ids

LEMMA MakeNewPreserves ==
    ASSUME References, NEW o \in Buffers, NEW bytes, NEW cap, MakeNew(o, bytes, cap)
    PROVE  References'
<1>1. Fresh \in Addresses
  BY FreshIsFree DEF Addresses
<1> QED
  BY <1>1, ReferPreserves DEF MakeNew, Refer

LEMMA UnsharePreserves ==
    ASSUME References, NEW o, NEW e, Unshare(o, e)
    PROVE  UNCHANGED <<buffer, ref_count>>
BY DEF Unshare, InPlace, view

LEMMA MovePreserves ==
    ASSUME References, NEW to \in Buffers, NEW from \in Buffers, Move(to, from)
    PROVE  References'
<1>1. CASE to = from
  <2>1. buffer' = buffer /\ ref_count' = ref_count
    BY <1>1 DEF Move, References
  <2> QED
    BY <2>1 DEF References, CountsReferences, Addresses, Ids
<1>2. CASE to # from
  <2> DEFINE b == [buffer EXCEPT ![to] = buffer[from]]
  <2>1. buffer[from] \in Addresses /\ Null \in Addresses
    BY DEF References, Addresses
  <2>2. b \in [Buffers -> Addresses] /\ b[from] = buffer[from]
    BY <1>2, <2>1 DEF References
  <2>3. buffer' = [b EXCEPT ![from] = Null] /\ buffer' \in [Buffers -> Addresses]
    BY <1>2, <2>1 DEF Move, References
  <2>4. ASSUME NEW i \in Ids PROVE ref_count'[i] = Cardinality(Users(buffer', i))
    <3>1. ref_count[i] = Cardinality(Users(buffer, i)) /\ ref_count[i] \in Nat
      BY CountOf
    <3>2. i # Null
      BY BuffersAssumption, FS_CardinalityType DEF Ids, Null
    <3>3. ref_count'[i] = ref_count[i] + (0 - (IF i = buffer[to] THEN 1 ELSE 0))
      BY <1>2, <3>1, <3>2 DEF Move, Retarget
    <3>4. Cardinality(Users(b, i)) = Cardinality(Users(buffer, i))
            + ((IF i = buffer[from] THEN 1 ELSE 0) - (IF i = buffer[to] THEN 1 ELSE 0))
      <4>1. Retargeted(buffer, b, to, buffer[from])
        BY <2>1, <2>2 DEF Retargeted, References
      <4> QED
        BY <4>1, UsersAfter
    <3>5. Cardinality(Users(buffer', i)) = Cardinality(Users(b, i))
            + ((IF i = Null THEN 1 ELSE 0) - (IF i = b[from] THEN 1 ELSE 0))
      <4>1. Retargeted(b, buffer', from, Null)
        BY <2>1, <2>2, <2>3 DEF Retargeted
      <4> HIDE DEF b
      <4> QED
        BY <4>1, UsersAfter
    <3> HIDE DEF b
    <3> QED
      BY <2>2, <3>1, <3>2, <3>3, <3>4, <3>5
  <2> QED
    BY <2>3, <2>4 DEF References, CountsReferences, Users, Addresses, Ids
<1> QED
  BY <1>1, <1>2

LEMMA SwapPreserves ==
    ASSUME References, NEW a \in Buffers, NEW c \in Buffers, Swap(a, c)
    PROVE  References'
<1> DEFINE b == [buffer EXCEPT ![a] = buffer[c]]
<1>1. buffer[a] \in Addresses /\ buffer[c] \in Addresses
  BY DEF References
<1>2. b \in [Buffers -> Addresses] /\ b[c] = buffer[c]
  BY <1>1 DEF References
<1>3. buffer' = [b EXCEPT ![c] = buffer[a]] /\ buffer' \in [Buffers -> Addresses]
  BY <1>1 DEF Swap, References
<1>4. ASSUME NEW i \in Ids PROVE ref_count'[i] = Cardinality(Users(buffer', i))
  <2>1. ref_count[i] = Cardinality(Users(buffer, i)) /\ ref_count[i] \in Nat /\ ref_count' = ref_count
    BY CountOf DEF Swap
  <2>2. Cardinality(Users(b, i)) = Cardinality(Users(buffer, i))
          + ((IF i = buffer[c] THEN 1 ELSE 0) - (IF i = buffer[a] THEN 1 ELSE 0))
    <3>1. Retargeted(buffer, b, a, buffer[c])
      BY <1>1, <1>2 DEF Retargeted, References
    <3> QED
      BY <3>1, UsersAfter
  <2>3. Cardinality(Users(buffer', i)) = Cardinality(Users(b, i))
          + ((IF i = buffer[a] THEN 1 ELSE 0) - (IF i = b[c] THEN 1 ELSE 0))
    <3>1. Retargeted(b, buffer', c, buffer[a])
      BY <1>1, <1>2, <1>3 DEF Retargeted
    <3> HIDE DEF b
    <3> QED
      BY <3>1, UsersAfter
  <2> HIDE DEF b
  <2> QED
    BY <1>2, <2>1, <2>2, <2>3
<1> QED
  BY <1>3, <1>4 DEF References, CountsReferences, Users, Addresses, Ids

LEMMA InitReferences == Init => References
<1> SUFFICES ASSUME Init PROVE References
  OBVIOUS
<1>1. PacketAssumption /\ 1 \in Ids /\ Null = 0 /\ Ids \subseteq Nat
  BY PacketAssumption, BuffersAssumption, FS_CardinalityType DEF Ids, Null
<1>2. buffer = [o \in Buffers |-> IF o = Packet THEN 1 ELSE Null]
      /\ ref_count = [i \in Ids |-> IF i = 1 THEN 1 ELSE 0]
  BY DEF Init
<1>3. buffer \in [Buffers -> Addresses]
  BY <1>1, <1>2 DEF Addresses
<1>4. ASSUME NEW i \in Ids PROVE ref_count[i] = Cardinality({o \in Buffers : buffer[o] = i})
  <2>1. i # Null
    BY BuffersAssumption, FS_CardinalityType DEF Ids, Null
  <2>2. CASE i = 1
    <3>1. {o \in Buffers : buffer[o] = i} = {Packet}
      BY <1>1, <1>2, <2>1, <2>2 DEF PacketAssumption
    <3> QED
      BY <1>2, <2>2, <3>1, FS_Singleton
  <2>3. CASE i # 1
    <3>1. {o \in Buffers : buffer[o] = i} = {}
      BY <1>2, <2>1, <2>3
    <3> QED
      BY <1>2, <2>3, <3>1, FS_EmptySet
  <2> QED
    BY <2>2, <2>3
<1> QED
  BY <1>3, <1>4 DEF References, CountsReferences

LEMMA ChangePreserves ==
    ASSUME References, NEW o \in Buffers, Change(o)
    PROVE  References'
<1>1. CASE UNCHANGED <<buffer, ref_count>>
  BY <1>1 DEF References, CountsReferences, Addresses, Ids
<1>2. ASSUME NEW data, AppendData(o, data) PROVE References'
  BY <1>1, <1>2, MakeNewPreserves, UnsharePreserves DEF AppendData, Extend
<1>3. ASSUME NEW data, SetData(o, data) PROVE References'
  <2>1. buffer[o] \in Addresses
    BY DEF References
  <2> QED
    BY <1>1, <1>3, <2>1, MakeNewPreserves, ReferPreserves
      DEF SetData, SetDataOfNull, SetDataOfShared, SetDataOfSole, Refer, view
<1>4. ASSUME NEW n, SetSize(o, n) PROVE References'
  BY <1>1, <1>2, <1>4 DEF SetSize, Shrink
<1>5. ASSUME NEW n, EnsureCapacity(o, n) PROVE References'
  BY <1>1, <1>5, MakeNewPreserves, UnsharePreserves DEF EnsureCapacity
<1>6. CASE Clear(o)
  <2>1. buffer[o] \in Addresses
    BY DEF References
  <2> QED
    BY <1>6, <2>1, MakeNewPreserves, ReferPreserves DEF Clear, Refer
<1> QED
  BY <1>1, <1>2, <1>3, <1>4, <1>5, <1>6, MakeNewPreserves, UnsharePreserves
    DEF Change, Construct, Write, Copy

LEMMA StepReferences == References /\ [Next]_vars => References'
<1> SUFFICES ASSUME References, [Next]_vars PROVE References'
  OBVIOUS
<1>1. Others \subseteq Buffers /\ Packet \in Buffers
  BY PacketAssumption DEF Others
<1>2. CASE UNCHANGED <<buffer, ref_count>>
  BY <1>2 DEF References, CountsReferences, Addresses, Ids
<1>3. ASSUME NEW o \in Buffers, Destroy(o) PROVE References'
  BY <1>3, ReferPreserves DEF Destroy, Refer, Addresses
<1>4. ASSUME NEW to \in Buffers, NEW from \in Buffers, NEW i, NEW n, Slice(to, from, i, n)
      PROVE  References'
  <2>1. buffer[from] \in Addresses
    BY DEF References
  <2> QED
    BY <1>4, <2>1, ReferPreserves DEF Slice, Refer
<1> QED
  BY <1>1, <1>2, <1>3, <1>4, ChangePreserves, MovePreserves, SwapPreserves
    DEF Next, Assign, GetPacket, SetTime, vars, view

--------------------------------------------------------------------------------

\* scoped_refptr counts every object that refers to a Buffer, once: it is freed
\* with the last of them and not before, whatever the objects do.
THEOREM ReferencesAreCounted == Spec => []CountsReferences
<1>1. References => CountsReferences
  BY DEF References
<1> QED
  BY <1>1, InitReferences, StepReferences, PTL DEF Spec

--------------------------------------------------------------------------------

(* Sequences of bytes *)

\* n elements of s from place m on
LEMMA Part ==
    ASSUME NEW S, NEW s \in Seq(S), NEW m \in Nat, NEW n \in Nat, m + n <= Len(s)
    PROVE  /\ SubSeq(s, m + 1, m + n) \in Seq(S)
           /\ Len(SubSeq(s, m + 1, m + n)) = n
           /\ \A i \in 1 .. n : SubSeq(s, m + 1, m + n)[i] = s[m + i]
<1> DEFINE a == m + 1
           b == m + n
<1>1. a \in Int /\ b \in Int /\ \A i \in a .. b : s[i] \in S
  OBVIOUS
<1>2. (IF a <= b THEN b - a + 1 ELSE 0) = n /\ b - a + 1 = n /\ \A i \in 1 .. n : a + i - 1 = m + i
  OBVIOUS
<1> HIDE DEF a, b
<1>3. /\ SubSeq(s, a, b) \in Seq(S) /\ Len(SubSeq(s, a, b)) = IF a <= b THEN b - a + 1 ELSE 0
      /\ \A i \in 1 .. b - a + 1 : SubSeq(s, a, b)[i] = s[a + i - 1]
  BY <1>1, SubSeqProperties
<1> QED
  BY <1>2, <1>3 DEF a, b

\* A part of a part
LEMMA PartOfPart ==
    ASSUME NEW s \in Seq(Bytes), NEW k \in Nat, NEW m \in Nat, k + m <= Len(s),
           NEW i \in Nat, NEW n \in Nat, i + n <= m
    PROVE  SubSeq(SubSeq(s, k + 1, k + m), i + 1, i + n) = SubSeq(s, k + i + 1, k + i + n)
<1> DEFINE u == SubSeq(s, k + 1, k + m)
           t == SubSeq(s, (k + i) + 1, (k + i) + n)
           c == SubSeq(u, i + 1, i + n)
<1>1. u \in Seq(Bytes) /\ Len(u) = m /\ \A j \in 1 .. m : u[j] = s[k + j]
  BY Part
<1>2. t \in Seq(Bytes) /\ Len(t) = n /\ \A j \in 1 .. n : t[j] = s[(k + i) + j]
  <2>1. k + i \in Nat /\ (k + i) + n <= Len(s)
    OBVIOUS
  <2> QED
    BY <2>1, Part
<1> HIDE DEF u, t
<1>3. c \in Seq(Bytes) /\ Len(c) = n /\ \A j \in 1 .. n : c[j] = u[i + j]
  BY <1>1, Part
<1> HIDE DEF c
<1>4. ASSUME NEW j \in 1 .. n PROVE c[j] = t[j]
  <2>1. i + j \in 1 .. m /\ k + (i + j) = (k + i) + j
    OBVIOUS
  <2>2. c[j] = u[i + j] /\ u[i + j] = s[k + (i + j)] /\ t[j] = s[(k + i) + j]
    BY <1>1, <1>2, <1>3, <2>1
  <2> QED
    BY <2>1, <2>2
<1>5. c = t
  BY <1>2, <1>3, <1>4, SeqEqual
<1> QED
  BY <1>5 DEF c, t, u

\* The contents considered are the sequences of bytes that are not too long.
LEMMA ValuesAre ==
    ASSUME NEW s
    PROVE  s \in BoundedSeq(Bytes, MaxSize) <=> s \in Seq(Bytes) /\ Len(s) <= MaxSize
<1>1. ASSUME s \in BoundedSeq(Bytes, MaxSize) PROVE s \in Seq(Bytes) /\ Len(s) <= MaxSize
  <2>1. PICK m \in 0 .. MaxSize : s \in [1 .. m -> Bytes]
    BY <1>1 DEF BoundedSeq, SeqOf
  <2>2. m \in Nat
    BY PacketAssumption
  <2> QED
    BY <2>1, <2>2
<1>2. ASSUME s \in Seq(Bytes), Len(s) <= MaxSize PROVE s \in BoundedSeq(Bytes, MaxSize)
  <2>1. Len(s) \in 0 .. MaxSize /\ s \in [1 .. Len(s) -> Bytes]
    BY <1>2, PacketAssumption
  <2> QED
    BY <2>1 DEF BoundedSeq, SeqOf
<1> QED
  BY <1>1, <1>2

\* The changes a pending operation makes to a view: it adds to it, adds nothing, or
\* replaces one byte.
Appends(n, e) == e.at = n /\ e.bytes \in Seq(Bytes) /\ n + Len(e.bytes) <= MaxSize
AddsNothing(e) == e.at = 0 /\ e.bytes = <<>>
Replaces(n, e) == e.at \in 0 .. n - 1 /\ \E b \in Bytes : e.bytes = <<b>>

Fits(n, e) == Appends(n, e) \/ AddsNothing(e) \/ Replaces(n, e)

\* AppendData: the view and then the data
LEMMA AppendedIs ==
    ASSUME NEW v \in Seq(Bytes), NEW e, Appends(Len(v), e)
    PROVE  Spliced(v, e) = v \o e.bytes
<1>1. SubSeq(v, 1, Len(v)) = v
  BY SubSeqFull
<1>2. SubSeq(v, Len(v) + Len(e.bytes) + 1, Len(v)) = <<>>
  <2>1. Len(v) \in Nat /\ Len(e.bytes) \in Nat
    BY DEF Appends
  <2>2. Len(v) + Len(e.bytes) + 1 \in Int /\ Len(v) \in Int /\ Len(v) < Len(v) + Len(e.bytes) + 1
    BY <2>1
  <2> QED
    BY <2>2, SubSeqEmpty
<1>3. v \o e.bytes \in Seq(Bytes)
  BY DEF Appends
<1>4. Spliced(v, e) = v \o e.bytes \o <<>>
  BY <1>1, <1>2 DEF Spliced, Appends
<1> HIDE DEF Appends
<1> QED
  BY <1>3, <1>4

\* EnsureCapacity: the view as it was
LEMMA NothingAdded ==
    ASSUME NEW v \in Seq(Bytes), NEW e, AddsNothing(e)
    PROVE  Spliced(v, e) = v
<1>1. SubSeq(v, 1, 0) = <<>>
  BY SubSeqEmpty
<1>2. SubSeq(v, 1, Len(v)) = v
  BY SubSeqFull
<1>3. Spliced(v, e) = <<>> \o <<>> \o v
  BY <1>1, <1>2 DEF Spliced, AddsNothing
<1> QED
  BY <1>3

\* A byte put between what is left and right of it
LEMMA ReplacedIs ==
    ASSUME NEW v \in Seq(Bytes), NEW k \in Nat, k < Len(v), NEW b \in Bytes
    PROVE  SubSeq(v, 1, k) \o <<b>> \o SubSeq(v, k + 1 + 1, Len(v)) = [v EXCEPT ![k + 1] = b]
<1> SUFFICES ASSUME NEW d \in Nat, k + 1 + d = Len(v)
             PROVE  SubSeq(v, 1, k) \o <<b>> \o SubSeq(v, k + 1 + 1, k + 1 + d) = [v EXCEPT ![k + 1] = b]
  <2>1. Len(v) - (k + 1) \in Nat /\ k + 1 + (Len(v) - (k + 1)) = Len(v)
    OBVIOUS
  <2> QED
    BY <2>1
<1> DEFINE l == SubSeq(v, 0 + 1, 0 + k)
           r == SubSeq(v, k + 1 + 1, k + 1 + d)
           lb == l \o <<b>>
           t == lb \o r
           u == [v EXCEPT ![k + 1] = b]
<1>1. l \in Seq(Bytes) /\ Len(l) = k /\ \A i \in 1 .. k : l[i] = v[i]
  <2>1. 0 \in Nat /\ 0 + k <= Len(v)
    OBVIOUS
  <2>2. l \in Seq(Bytes) /\ Len(l) = k /\ \A i \in 1 .. k : l[i] = v[0 + i]
    BY <2>1, Part
  <2> HIDE DEF l
  <2> QED
    BY <2>2
<1>2. r \in Seq(Bytes) /\ Len(r) = d /\ \A i \in 1 .. d : r[i] = v[k + 1 + i]
  <2>1. k + 1 \in Nat /\ k + 1 + d <= Len(v)
    OBVIOUS
  <2> QED
    BY <2>1, Part
<1> HIDE DEF l, r
<1>3. lb \in Seq(Bytes) /\ Len(lb) = k + 1 /\ (\A i \in 1 .. k : lb[i] = v[i]) /\ lb[k + 1] = b
  BY <1>1
<1> HIDE DEF lb, u
<1>4. t \in Seq(Bytes) /\ Len(t) = k + 1 + d
      /\ (\A i \in 1 .. k + 1 : t[i] = lb[i]) /\ \A i \in 1 .. d : t[k + 1 + i] = r[i]
  <2>1. lb \in Seq(Bytes) /\ r \in Seq(Bytes)
    BY <1>2, <1>3
  <2>2. t \in Seq(Bytes) /\ Len(t) = Len(lb) + Len(r)
        /\ (\A i \in 1 .. Len(lb) : t[i] = lb[i]) /\ \A i \in 1 .. Len(r) : t[Len(lb) + i] = r[i]
    BY <2>1
  <2> HIDE DEF t
  <2> QED
    BY <1>2, <1>3, <2>2
<1> HIDE DEF t
<1>5. u \in Seq(Bytes) /\ Len(u) = k + 1 + d /\ u[k + 1] = b /\ \A i \in 1 .. Len(v) : i # k + 1 => u[i] = v[i]
  BY DEF u
<1>6. ASSUME NEW i \in 1 .. k + 1 + d PROVE t[i] = u[i]
  <2>1. CASE i <= k
    BY <1>3, <1>4, <1>5, <2>1
  <2>2. CASE i = k + 1
    BY <1>3, <1>4, <1>5, <2>2
  <2>3. CASE i > k + 1
    <3>1. i - (k + 1) \in 1 .. d /\ k + 1 + (i - (k + 1)) = i /\ i \in 1 .. Len(v) /\ i # k + 1
      BY <2>3
    <3>2. t[k + 1 + (i - (k + 1))] = r[i - (k + 1)] /\ r[i - (k + 1)] = v[k + 1 + (i - (k + 1))]
      BY <1>2, <1>4, <3>1
    <3> QED
      BY <1>5, <3>1, <3>2
  <2> QED
    BY <2>1, <2>2, <2>3
<1>7. t = u
  BY <1>4, <1>5, <1>6, SeqEqual
<1> QED
  BY <1>7 DEF t, lb, l, r, u

\* A byte written through MutableData
LEMMA WrittenIs ==
    ASSUME NEW v \in Seq(Bytes), NEW e, Replaces(Len(v), e)
    PROVE  \E i \in DOMAIN v, b \in Bytes : Spliced(v, e) = [v EXCEPT ![i] = b]
<1>1. PICK b \in Bytes : e.bytes = <<b>>
  BY DEF Replaces
<1>2. e.at \in Nat /\ e.at < Len(v) /\ e.at + 1 \in DOMAIN v
  BY DEF Replaces
<1>3. Spliced(v, e) = SubSeq(v, 1, e.at) \o <<b>> \o SubSeq(v, e.at + 1 + 1, Len(v))
  BY <1>1 DEF Spliced
<1> DEFINE k == e.at
<1>4. k \in Nat /\ k < Len(v)
  BY <1>2
<1> HIDE DEF k
<1>5. SubSeq(v, 1, k) \o <<b>> \o SubSeq(v, k + 1 + 1, Len(v)) = [v EXCEPT ![k + 1] = b]
  BY <1>4, ReplacedIs
<1>6. Spliced(v, e) = [v EXCEPT ![e.at + 1] = b]
  BY <1>3, <1>5, Zenon DEF k
<1> QED
  BY <1>2, <1>6, Zenon

\* Every change leaves bytes that are not too many.
LEMMA SplicedIs ==
    ASSUME NEW v \in Seq(Bytes), Len(v) <= MaxSize, NEW e, Fits(Len(v), e)
    PROVE  Spliced(v, e) \in Seq(Bytes) /\ Len(Spliced(v, e)) \in 0 .. MaxSize
<1>1. CASE Appends(Len(v), e)
  <2>1. v \o e.bytes \in Seq(Bytes) /\ Len(v \o e.bytes) \in 0 .. MaxSize
    BY <1>1, PacketAssumption DEF Appends
  <2> QED
    BY <1>1, <2>1, AppendedIs
<1>2. CASE AddsNothing(e)
  BY <1>2, NothingAdded, PacketAssumption
<1>3. CASE Replaces(Len(v), e)
  <2>1. PICK i \in DOMAIN v, b \in Bytes : Spliced(v, e) = [v EXCEPT ![i] = b]
    BY <1>3, WrittenIs
  <2>2. [v EXCEPT ![i] = b] \in Seq(Bytes) /\ Len([v EXCEPT ![i] = b]) = Len(v)
    OBVIOUS
  <2> QED
    BY <2>1, <2>2, PacketAssumption
<1> QED
  BY <1>1, <1>2, <1>3 DEF Fits

\* What a view sees of the bytes before, s and behind
LEMMA Within ==
    ASSUME NEW l \in Seq(Bytes), NEW s \in Seq(Bytes), NEW r \in Seq(Bytes)
    PROVE  /\ l \o s \o r \in Seq(Bytes)
           /\ Len(l) + Len(s) <= Len(l \o s \o r)
           /\ SubSeq(l \o s \o r, Len(l) + 1, Len(l) + Len(s)) = s
<1> DEFINE ls == l \o s
           t == ls \o r
           p == SubSeq(t, Len(l) + 1, Len(l) + Len(s))
<1>1. ls \in Seq(Bytes) /\ Len(ls) = Len(l) + Len(s) /\ Len(l) \in Nat /\ Len(s) \in Nat
      /\ \A i \in 1 .. Len(s) : ls[Len(l) + i] = s[i]
  <2> HIDE DEF p
  <2> QED
    OBVIOUS
<1> HIDE DEF ls, p
<1>2. t \in Seq(Bytes) /\ Len(t) = Len(ls) + Len(r) /\ Len(r) \in Nat
      /\ \A i \in 1 .. Len(ls) : t[i] = ls[i]
  <2>1. ls \in Seq(Bytes)
    BY <1>1
  <2>2. ASSUME NEW a \in Seq(Bytes), NEW c \in Seq(Bytes)
        PROVE  a \o c \in Seq(Bytes) /\ Len(a \o c) = Len(a) + Len(c)
               /\ \A i \in 1 .. Len(a) : (a \o c)[i] = a[i]
    OBVIOUS
  <2> QED
    BY <2>1, <2>2
<1> HIDE DEF t
<1>3. p \in Seq(Bytes) /\ Len(p) = Len(s) /\ \A i \in 1 .. Len(s) : p[i] = t[Len(l) + i]
  <2>1. Len(l) \in Nat /\ Len(s) \in Nat /\ Len(l) + Len(s) <= Len(t)
    BY <1>1, <1>2
  <2> QED
    BY <1>2, <2>1, Part DEF p
<1>4. p = s
  <2>1. ASSUME NEW i \in 1 .. Len(s) PROVE p[i] = s[i]
    <3>1. Len(l) + i \in 1 .. Len(ls)
      BY <1>1
    <3>2. p[i] = t[Len(l) + i] /\ t[Len(l) + i] = ls[Len(l) + i] /\ ls[Len(l) + i] = s[i]
      BY <1>1, <1>2, <1>3, <3>1
    <3> QED
      BY <3>2
  <2> QED
    BY <1>3, <2>1, SeqEqual
<1> QED
  BY <1>1, <1>2, <1>4 DEF t, ls, p

--------------------------------------------------------------------------------

(* Views of Buffers *)

Shown == [o \in Buffers |-> Value(o)]
Tied == {o \in Buffers : buffer[o] = buffer[Packet]}

Stored(buf) == buf.bytes \in Seq(Bytes) /\ buf = [bytes |-> buf.bytes, capacity |-> buf.capacity]

Memory(mem) == mem = [i \in Ids |-> mem[i]] /\ \A i \in Ids : Stored(mem[i])

\* What a view shows is in its Buffer.
InBuffer(o) ==
    IF IsNull(o) THEN size[o] = 0 ELSE offset[o] + size[o] <= Len(heap[buffer[o]].bytes)

Views ==
    /\ References
    /\ Memory(heap)
    /\ offset \in [Buffers -> Nat]
    /\ size \in [Buffers -> 0 .. MaxSize]
    /\ \A o \in Buffers : InBuffer(o)
    /\ ~IsNull(Packet)

\* A Buffer that an object refers to has not been freed.
LEMMA BuffersAreUsed ==
    ASSUME References
    PROVE  \A o \in Buffers : IsNull(o) \/ (buffer[o] \in Ids /\ ref_count[buffer[o]] # 0)
<1> SUFFICES ASSUME NEW o \in Buffers, ~IsNull(o) PROVE buffer[o] \in Ids /\ ref_count[buffer[o]] # 0
  OBVIOUS
<1>1. buffer[o] \in Ids
  BY DEF References, Addresses, IsNull
<1>2. Users(buffer, buffer[o]) # {}
  BY DEF Users
<1>3. IsFiniteSet(Users(buffer, buffer[o])) /\ ref_count[buffer[o]] = Cardinality(Users(buffer, buffer[o]))
  BY <1>1, CountOf, UsersAreFinite
<1> QED
  BY <1>1, <1>2, <1>3, FS_EmptySet

\* HasOneRef(): nobody else refers to the Buffer.
LEMMA SoleUser ==
    ASSUME References, NEW o \in Buffers, ~IsNull(o), HasOneRef(o)
    PROVE  \A p \in Buffers \ {o} : buffer[p] # buffer[o]
<1>1. buffer[o] \in Ids
  BY DEF References, Addresses, IsNull
<1>2. IsFiniteSet(Users(buffer, buffer[o])) /\ Cardinality(Users(buffer, buffer[o])) = 1
  BY <1>1, CountOf, UsersAreFinite DEF HasOneRef
<1>3. PICK x : Users(buffer, buffer[o]) = {x}
  BY <1>2, FS_Singleton
<1> QED
  BY <1>3 DEF Users

\* operator new returns memory that no object refers to.
LEMMA FreshIsUnused ==
    ASSUME References
    PROVE  Fresh \in Ids /\ Fresh # Null /\ \A p \in Buffers : buffer[p] # Fresh
<1>1. Fresh \in Ids /\ ref_count[Fresh] = 0
  BY FreshIsFree
<1>2. Cardinality(Buffers) \in Nat /\ Fresh # Null
  BY <1>1, BuffersAssumption, FS_CardinalityType DEF Ids, Null
<1>3. Users(buffer, Fresh) = {}
  BY <1>1, CountOf, UsersAreFinite, FS_EmptySet
<1> QED
  BY <1>1, <1>2, <1>3 DEF Users

\* data() and size() give bytes of the Buffer, as many as the view has.
LEMMA ViewIs ==
    ASSUME Views, NEW o \in Buffers
    PROVE  /\ Value(o) \in Seq(Bytes) /\ Len(Value(o)) = size[o]
           /\ Value(o) = IF IsNull(o) THEN <<>>
                         ELSE SubSeq(heap[buffer[o]].bytes, offset[o] + 1, offset[o] + size[o])
<1>1. offset[o] \in Nat /\ size[o] \in Nat /\ InBuffer(o)
  BY PacketAssumption DEF Views
<1>2. CASE IsNull(o)
  BY <1>1, <1>2 DEF Value, InBuffer
<1>3. CASE ~IsNull(o)
  <2>1. buffer[o] \in Ids
    BY <1>3, BuffersAreUsed DEF Views
  <2>2. heap[buffer[o]].bytes \in Seq(Bytes)
    BY <2>1 DEF Views, Memory, Stored
  <2>3. offset[o] + size[o] <= Len(heap[buffer[o]].bytes)
    BY <1>1, <1>3 DEF InBuffer
  <2>4. Value(o) = SubSeq(heap[buffer[o]].bytes, offset[o] + 1, offset[o] + size[o])
    BY <1>3 DEF Value, View
  <2>5. /\ SubSeq(heap[buffer[o]].bytes, offset[o] + 1, offset[o] + size[o]) \in Seq(Bytes)
        /\ Len(SubSeq(heap[buffer[o]].bytes, offset[o] + 1, offset[o] + size[o])) = size[o]
    <3> DEFINE w == heap[buffer[o]].bytes
               a == offset[o]
               n == size[o]
    <3>1. w \in Seq(Bytes) /\ a \in Nat /\ n \in Nat /\ a + n <= Len(w)
      BY <1>1, <2>2, <2>3
    <3> HIDE DEF w, a, n
    <3>2. SubSeq(w, a + 1, a + n) \in Seq(Bytes) /\ Len(SubSeq(w, a + 1, a + n)) = n
      BY <3>1, Part
    <3> QED
      BY <3>2 DEF w, a, n
  <2> QED
    BY <1>3, <2>4, <2>5, Zenon
<1> QED
  BY <1>2, <1>3

\* An object that refers to other bytes changes what it shows itself, if the memory
\* the others refer to stays.
LEMMA ReferStep ==
    ASSUME Views, References', NEW o \in Others, NEW id \in Addresses, NEW from \in Nat,
           NEW n \in 0 .. MaxSize, NEW mem, Memory(mem),
           \A p \in Buffers \ {o} : IsNull(p) \/ mem[buffer[p]].bytes = heap[buffer[p]].bytes,
           IF id = Null THEN n = 0 ELSE from + n <= Len(mem[id].bytes),
           Refer(o, id, from, n, mem)
    PROVE  /\ Views'
           /\ Shown' = [Shown EXCEPT ![o] = IF id = Null THEN <<>> ELSE SubSeq(mem[id].bytes, from + 1, from + n)]
           /\ Tied' = IF id = buffer[Packet] THEN Tied \cup {o} ELSE Tied \ {o}
<1>1. o \in Buffers /\ o # Packet /\ Packet \in Buffers
  BY PacketAssumption DEF Others
<1>2. /\ buffer \in [Buffers -> Addresses] /\ offset \in [Buffers -> Nat] /\ size \in [Buffers -> 0 .. MaxSize]
      /\ buffer' = [buffer EXCEPT ![o] = id] /\ offset' = [offset EXCEPT ![o] = from]
      /\ size' = [size EXCEPT ![o] = n]
      /\ heap' = [i \in Ids |-> IF ref_count'[i] = 0 THEN NoBuffer ELSE mem[i]]
  BY DEF Views, References, Refer
<1>3. ASSUME NEW p \in Buffers PROVE ~IsNull(p)' => heap'[buffer'[p]] = mem[buffer'[p]]
  <2> SUFFICES ASSUME ~IsNull(p)' PROVE heap'[buffer'[p]] = mem[buffer'[p]]
    OBVIOUS
  <2>1. buffer'[p] \in Ids /\ ref_count'[buffer'[p]] # 0
    <3>1. buffer'[p] \in Ids
      BY DEF References, Addresses, IsNull
    <3>2. p \in Users(buffer', buffer'[p])
      BY DEF Users
    <3>3. IsFiniteSet(Users(buffer', buffer'[p]))
          /\ ref_count'[buffer'[p]] = Cardinality(Users(buffer', buffer'[p]))
      BY <3>1, UsersAreFinite DEF References, CountsReferences, Users
    <3> QED
      BY <3>1, <3>2, <3>3, FS_EmptySet
  <2> QED
    BY <1>2, <2>1
<1>4. Memory(heap')
  <2>1. Stored(NoBuffer)
    BY DEF Stored, NoBuffer
  <2>2. ASSUME NEW i \in Ids PROVE Stored(heap'[i])
    <3>1. Stored(mem[i])
      BY DEF Memory
    <3>2. heap'[i] = NoBuffer \/ heap'[i] = mem[i]
      BY <1>2
    <3> QED
      BY <2>1, <3>1, <3>2
  <2>3. heap' = [i \in Ids |-> heap'[i]]
    BY <1>2
  <2> QED
    BY <2>2, <2>3, Zenon DEF Memory
<1>5. offset' \in [Buffers -> Nat] /\ size' \in [Buffers -> 0 .. MaxSize]
  <2>1. offset \in [Buffers -> Nat] /\ size \in [Buffers -> 0 .. MaxSize]
    BY DEF Views
  <2>2. offset' = [offset EXCEPT ![o] = from] /\ size' = [size EXCEPT ![o] = n]
    BY DEF Refer
  <2>3. offset' \in [Buffers -> Nat]
    BY <2>1, <2>2
  <2>4. size' \in [Buffers -> 0 .. MaxSize]
    BY <2>1, <2>2
  <2> QED
    BY <2>3, <2>4
<1>6. ASSUME NEW p \in Buffers \ {o}
      PROVE  buffer'[p] = buffer[p] /\ offset'[p] = offset[p] /\ size'[p] = size[p]
             /\ (IsNull(p) \/ heap'[buffer'[p]].bytes = heap[buffer[p]].bytes)
  <2>1. buffer'[p] = buffer[p] /\ offset'[p] = offset[p] /\ size'[p] = size[p]
    BY <1>2
  <2>2. ASSUME ~IsNull(p) PROVE heap'[buffer'[p]].bytes = heap[buffer[p]].bytes
    <3>1. heap'[buffer'[p]] = mem[buffer'[p]]
      BY <1>3, <2>1, <2>2 DEF IsNull
    <3>2. mem[buffer[p]].bytes = heap[buffer[p]].bytes
      BY <2>2
    <3> QED
      BY <2>1, <3>1, <3>2
  <2> QED
    BY <2>1, <2>2
<1>7. buffer'[o] = id /\ offset'[o] = from /\ size'[o] = n
      /\ (id = Null \/ heap'[buffer'[o]].bytes = mem[id].bytes)
  BY <1>1, <1>2, <1>3 DEF IsNull
<1>8. ASSUME NEW p \in Buffers PROVE InBuffer(p)'
  <2>1. CASE p = o
    BY <1>7, <2>1 DEF InBuffer, IsNull
  <2>2. CASE p # o
    <3>1. InBuffer(p)
      BY DEF Views
    <3> QED
      BY <1>6, <2>2, <3>1 DEF InBuffer, IsNull
  <2> QED
    BY <2>1, <2>2
<1>9. Views'
  <2>1. ~IsNull(Packet)'
    BY <1>1, <1>6 DEF Views, IsNull
  <2> QED
    BY <1>4, <1>5, <1>8, <2>1 DEF Views
<1>10. Shown' = [Shown EXCEPT ![o] = IF id = Null THEN <<>> ELSE SubSeq(mem[id].bytes, from + 1, from + n)]
  <2>1. Value(o)' = IF id = Null THEN <<>> ELSE SubSeq(mem[id].bytes, from + 1, from + n)
    BY <1>7 DEF Value, View, IsNull
  <2>2. ASSUME NEW p \in Buffers \ {o} PROVE Value(p)' = Value(p)
    BY <1>6 DEF Value, View, IsNull
  <2> QED
    BY <1>1, <2>1, <2>2 DEF Shown
<1>11. Tied' = IF id = buffer[Packet] THEN Tied \cup {o} ELSE Tied \ {o}
  BY <1>1, <1>6, <1>7 DEF Tied
<1> QED
  BY <1>9, <1>10, <1>11

\* A new Buffer, or a copy: the others keep theirs.
LEMMA NewStep ==
    ASSUME Views, References', NEW o \in Others, NEW bytes \in Seq(Bytes), Len(bytes) <= MaxSize, NEW cap,
           MakeNew(o, bytes, cap)
    PROVE  Views' /\ Shown' = [Shown EXCEPT ![o] = bytes] /\ Tied' = Tied \ {o}
<1> DEFINE mem == [heap EXCEPT ![Fresh] = NewBuffer(bytes, cap)]
           n == Len(bytes)
<1>1. References /\ Memory(heap) /\ ~IsNull(Packet) /\ Packet \in Buffers
  BY PacketAssumption DEF Views
<1>2. Fresh \in Ids /\ Fresh # Null /\ \A p \in Buffers : buffer[p] # Fresh
  BY <1>1, FreshIsUnused
<1>3. Fresh \in Addresses
  BY <1>2 DEF Addresses
<1>4. Memory(mem) /\ mem[Fresh].bytes = bytes
  BY <1>1, <1>2 DEF Memory, Stored, NewBuffer
<1>5. \A p \in Buffers \ {o} : IsNull(p) \/ mem[buffer[p]].bytes = heap[buffer[p]].bytes
  <2>1. \A p \in Buffers : IsNull(p) \/ buffer[p] \in Ids
    BY <1>1, BuffersAreUsed
  <2> QED
    BY <1>1, <1>2, <2>1 DEF Memory
<1>6. n \in 0 .. MaxSize /\ 0 \in Nat /\ 0 + n = n /\ 0 + 1 = 1
  BY PacketAssumption
<1>7. SubSeq(bytes, 1, n) = bytes
  BY SubSeqFull
<1>8. Refer(o, Fresh, 0, n, mem)
  BY DEF MakeNew
<1>9. IF Fresh = Null THEN n = 0 ELSE 0 + n <= Len(mem[Fresh].bytes)
  BY <1>2, <1>4, <1>6
<1> HIDE DEF mem, n
<1>10. /\ Views'
       /\ Shown' = [Shown EXCEPT ![o] = IF Fresh = Null THEN <<>> ELSE SubSeq(mem[Fresh].bytes, 0 + 1, 0 + n)]
       /\ Tied' = IF Fresh = buffer[Packet] THEN Tied \cup {o} ELSE Tied \ {o}
  BY <1>3, <1>4, <1>5, <1>6, <1>8, <1>9, ReferStep
<1> QED
  BY <1>1, <1>2, <1>4, <1>6, <1>7, <1>10

\* SetData and Clear of a Buffer with one reference: nobody else sees them.
LEMMA SoleStep ==
    ASSUME Views, References', NEW o \in Others, ~IsNull(o), HasOneRef(o), NEW buf, Stored(buf),
           NEW n, n = Len(buf.bytes), n <= MaxSize,
           Refer(o, buffer[o], 0, n, [heap EXCEPT ![buffer[o]] = buf])
    PROVE  Views' /\ Shown' = [Shown EXCEPT ![o] = buf.bytes] /\ Tied' = Tied
<1> DEFINE mem == [heap EXCEPT ![buffer[o]] = buf]
<1>1. References /\ Memory(heap) /\ o \in Buffers
  BY DEF Views, Others
<1>2. buffer[o] \in Ids /\ buffer[o] \in Addresses /\ buffer[o] # Null
  BY <1>1, BuffersAreUsed DEF Addresses, IsNull
<1>3. Memory(mem) /\ mem[buffer[o]].bytes = buf.bytes
  BY <1>1, <1>2 DEF Memory
<1>4. \A p \in Buffers \ {o} : IsNull(p) \/ mem[buffer[p]].bytes = heap[buffer[p]].bytes
  <2>1. \A p \in Buffers : IsNull(p) \/ buffer[p] \in Ids
    BY <1>1, BuffersAreUsed
  <2>2. \A p \in Buffers \ {o} : buffer[p] # buffer[o]
    BY <1>1, SoleUser
  <2> QED
    BY <1>1, <2>1, <2>2 DEF Memory
<1>5. buf.bytes \in Seq(Bytes)
  BY DEF Stored
<1>6. n \in 0 .. MaxSize /\ 0 \in Nat /\ 0 + n = n /\ 0 + 1 = 1
  BY <1>5, PacketAssumption
<1>7. SubSeq(buf.bytes, 1, n) = buf.bytes
  <2>1. SubSeq(buf.bytes, 1, Len(buf.bytes)) = buf.bytes
    BY <1>5, SubSeqFull
  <2> QED
    BY <2>1
<1>8. IF buffer[o] = Null THEN n = 0 ELSE 0 + n <= Len(mem[buffer[o]].bytes)
  BY <1>2, <1>3, <1>6
<1>9. Refer(o, buffer[o], 0, n, mem)
  OBVIOUS
<1> HIDE DEF mem
<1>10. /\ Views'
       /\ Shown' = [Shown EXCEPT ![o] = IF buffer[o] = Null THEN <<>> ELSE SubSeq(mem[buffer[o]].bytes, 0 + 1, 0 + n)]
       /\ Tied' = IF buffer[o] = buffer[Packet] THEN Tied \cup {o} ELSE Tied \ {o}
  BY <1>2, <1>3, <1>4, <1>6, <1>8, <1>9, ReferStep
<1>11. Tied' = Tied
  BY <1>1, <1>10 DEF Tied
<1> QED
  BY <1>2, <1>3, <1>6, <1>7, <1>10, <1>11

\* UnshareAndEnsureCapacity that need not copy: the bytes left of the view stay,
\* and nobody else sees those that change.
LEMMA InPlaceStep ==
    ASSUME Views, References', NEW o \in Others, ~IsNull(o), HasOneRef(o), NEW e, Fits(size[o], e),
           InPlace(o, e)
    PROVE  Views' /\ Shown' = [Shown EXCEPT ![o] = Spliced(Shown[o], e)] /\ Tied' = Tied
<1> DEFINE a == buffer[o]
           bytes == heap[a].bytes
           w == Spliced(Value(o), e)
           l == SubSeq(bytes, 0 + 1, 0 + offset[o])
           r == RightOf(o, e)
           new == l \o w \o r
<1>1. References /\ Memory(heap) /\ o \in Buffers /\ Packet \in Buffers /\ o # Packet
  BY PacketAssumption DEF Views, Others
<1>2. a \in Ids /\ \A p \in Buffers \ {o} : buffer[p] # a
  BY <1>1, BuffersAreUsed, SoleUser
<1>3. /\ bytes \in Seq(Bytes) /\ heap[a] = [bytes |-> bytes, capacity |-> heap[a].capacity]
      /\ offset[o] \in Nat /\ size[o] \in 0 .. MaxSize /\ offset[o] + size[o] <= Len(bytes)
  <2>1. InBuffer(o)
    BY <1>1 DEF Views
  <2> QED
    BY <1>1, <1>2, <2>1 DEF Views, Memory, Stored, InBuffer
<1>4. Value(o) \in Seq(Bytes) /\ Len(Value(o)) = size[o] /\ View(o) = Value(o) /\ Shown[o] = Value(o)
  BY <1>1, ViewIs DEF Value, Shown
<1>5. w \in Seq(Bytes) /\ Len(w) \in 0 .. MaxSize
  <2>1. Len(Value(o)) <= MaxSize /\ Fits(Len(Value(o)), e)
    BY <1>3, <1>4, PacketAssumption
  <2> QED
    BY <1>4, <2>1, SplicedIs
<1>6. l \in Seq(Bytes) /\ Len(l) = offset[o]
  <2>1. 0 \in Nat /\ 0 + offset[o] <= Len(bytes)
    BY <1>3, PacketAssumption
  <2> HIDE DEF bytes
  <2> QED
    BY <1>3, <2>1, Part
<1>7. r \in Seq(Bytes)
  <2>1. CASE e.at = size[o]
    BY <2>1 DEF RightOf
  <2>2. CASE e.at # size[o]
    <3>1. r = SubSeq(bytes, offset[o] + size[o] + 1, Len(bytes))
      BY <2>2 DEF RightOf
    <3>2. offset[o] + size[o] + 1 \in Int /\ offset[o] + size[o] + 1 >= 1 /\ Len(bytes) \in Int
      BY <1>3
    <3>3. \A i \in offset[o] + size[o] + 1 .. Len(bytes) : bytes[i] \in Bytes
      BY <1>3, <3>2
    <3> HIDE DEF bytes, r
    <3> QED
      BY <3>1, <3>2, <3>3, SubSeqProperties
  <2> QED
    BY <2>1, <2>2
<1>8. /\ heap' = [heap EXCEPT ![a].bytes = new] /\ size' = [size EXCEPT ![o] = Len(w)]
      /\ buffer' = buffer /\ offset' = offset
  <2>1. l = SubSeq(bytes, 1, offset[o])
    BY <1>3
  <2> QED
    BY <1>4, <2>1 DEF InPlace
<1> HIDE DEF w, l, r
<1>9. /\ new \in Seq(Bytes) /\ offset[o] + Len(w) <= Len(new)
      /\ SubSeq(new, offset[o] + 1, offset[o] + Len(w)) = w
  <2>1. /\ new \in Seq(Bytes) /\ Len(l) + Len(w) <= Len(new)
        /\ SubSeq(new, Len(l) + 1, Len(l) + Len(w)) = w
    BY <1>5, <1>6, <1>7, Within
  <2> QED
    BY <1>6, <2>1
<1> HIDE DEF new, bytes
<1>10. /\ heap'[a] = [bytes |-> new, capacity |-> heap[a].capacity]
       /\ \A i \in Ids \ {a} : heap'[i] = heap[i]
       /\ heap' = [i \in Ids |-> heap'[i]]
  BY <1>1, <1>2, <1>3, <1>8 DEF Memory
<1>11. Memory(heap')
  <2>1. Stored(heap'[a])
    <3>1. heap'[a].bytes = new /\ heap'[a].capacity = heap[a].capacity
      BY <1>10
    <3> QED
      BY <1>9, <1>10, <3>1 DEF Stored
  <2>2. ASSUME NEW i \in Ids \ {a} PROVE Stored(heap'[i])
    <3>1. Stored(heap[i])
      BY DEF Views, Memory
    <3> QED
      BY <1>10, <3>1
  <2>3. \A i \in Ids : Stored(heap'[i])
    BY <2>1, <2>2
  <2> QED
    BY <1>10, <2>3, Zenon DEF Memory
<1>12. size' \in [Buffers -> 0 .. MaxSize] /\ offset' \in [Buffers -> Nat] /\ ~IsNull(Packet)'
  BY <1>5, <1>8 DEF Views, IsNull
<1>13. ASSUME NEW p \in Buffers \ {o}
       PROVE  size'[p] = size[p] /\ (IsNull(p) \/ heap'[buffer'[p]] = heap[buffer[p]])
  <2>1. IsNull(p) \/ buffer[p] \in Ids \ {a}
    BY <1>1, <1>2, BuffersAreUsed
  <2> QED
    BY <1>8, <1>10, <2>1 DEF Views
<1>14. size'[o] = Len(w) /\ heap'[buffer'[o]].bytes = new
  BY <1>1, <1>8, <1>10 DEF Views
<1>15. ASSUME NEW p \in Buffers PROVE InBuffer(p)'
  <2>1. CASE p = o
    BY <1>8, <1>9, <1>14, <2>1 DEF InBuffer, IsNull
  <2>2. CASE p # o
    <3>1. InBuffer(p)
      BY DEF Views
    <3> QED
      BY <1>8, <1>13, <2>2, <3>1 DEF InBuffer, IsNull
  <2> QED
    BY <2>1, <2>2
<1>16. Views'
  BY <1>11, <1>12, <1>15 DEF Views
<1>17. Shown' = [Shown EXCEPT ![o] = w]
  <2>1. Value(o)' = w
    BY <1>8, <1>9, <1>14 DEF Value, View, IsNull
  <2>2. ASSUME NEW p \in Buffers \ {o} PROVE Value(p)' = Value(p)
    <3>1. buffer'[p] = buffer[p] /\ offset'[p] = offset[p] /\ size'[p] = size[p]
          /\ (IsNull(p) \/ heap'[buffer'[p]] = heap[buffer[p]])
      BY <1>8, <1>13
    <3> HIDE DEF a
    <3> QED
      BY <3>1 DEF Value, View, IsNull
  <2> QED
    BY <1>1, <2>1, <2>2 DEF Shown
<1> QED
  BY <1>4, <1>8, <1>16, <1>17 DEF Tied, w

\* SetSize to fewer bytes, whoever shares the Buffer
LEMMA ShrinkStep ==
    ASSUME Views, References', NEW o \in Others, NEW n \in 0 .. MaxSize, Shrink(o, n)
    PROVE  Views' /\ Shown' = [Shown EXCEPT ![o] = SubSeq(Shown[o], 1, n)] /\ Tied' = Tied /\ Len(Shown[o]) >= n
<1>1. /\ o \in Buffers /\ References /\ Memory(heap) /\ size \in [Buffers -> 0 .. MaxSize]
      /\ offset \in [Buffers -> Nat] /\ InBuffer(o)
  BY DEF Views, Others
<1>2. /\ size' = [size EXCEPT ![o] = n] /\ n <= size[o]
      /\ buffer' = buffer /\ offset' = offset /\ heap' = heap
  BY DEF Shrink
<1>3. n \in Nat /\ size[o] \in Nat /\ offset[o] \in Nat /\ Len(Value(o)) = size[o] /\ Shown[o] = Value(o)
  BY <1>1, ViewIs, PacketAssumption DEF Shown
<1>4. ASSUME NEW p \in Buffers PROVE InBuffer(p)'
  <2>1. InBuffer(p)
    BY DEF Views
  <2> QED
    BY <1>1, <1>2, <1>3, <2>1 DEF InBuffer, IsNull
<1>5. Views'
  <2>1. size' \in [Buffers -> 0 .. MaxSize]
    BY <1>1, <1>2
  <2> QED
    BY <1>1, <1>2, <1>4, <2>1 DEF Views, IsNull, Memory
<1>6. Value(o)' = SubSeq(Value(o), 1, n)
  <2>1. CASE IsNull(o)
    <3>1. size[o] = 0 /\ n = 0
      BY <1>1, <1>2, <1>3, <2>1 DEF InBuffer
    <3>2. Value(o) = <<>> /\ Value(o)' = <<>>
      BY <1>2, <2>1 DEF Value, IsNull
    <3>3. SubSeq(<<>>, 1, 0) = <<>>
      BY SubSeqEmpty
    <3> QED
      BY <3>1, <3>2, <3>3
  <2>2. CASE ~IsNull(o)
    <3> DEFINE bytes == heap[buffer[o]].bytes
               k == offset[o]
               s == size[o]
    <3>1. bytes \in Seq(Bytes) /\ k + s <= Len(bytes)
      BY <1>1, <2>2, BuffersAreUsed DEF Memory, Stored, InBuffer
    <3>2. Value(o) = SubSeq(bytes, k + 1, k + s) /\ Value(o)' = SubSeq(bytes, k + 1, k + n)
      BY <1>1, <1>2, <2>2 DEF Value, View, IsNull
    <3>3. s \in Nat /\ k \in Nat /\ n \in Nat /\ n <= s /\ k + n <= Len(bytes)
      <4>1. k \in Nat /\ s \in Nat /\ n \in Nat /\ n <= s /\ Len(bytes) \in Nat
        BY <1>2, <1>3, <3>1
      <4> HIDE DEF k, s, bytes
      <4> QED
        BY <3>1, <4>1
    <3> HIDE DEF bytes, k, s
    <3>4. SubSeq(SubSeq(bytes, k + 1, k + s), 0 + 1, 0 + n) = SubSeq(bytes, k + 0 + 1, k + 0 + n)
      <4>1. 0 \in Nat /\ 0 + n <= s
        BY <3>3
      <4> QED
        BY <3>1, <3>3, <4>1, PartOfPart
    <3>5. 0 + 1 = 1 /\ 0 + n = n /\ k + 0 = k
      BY <3>3
    <3> QED
      BY <3>2, <3>4, <3>5
  <2> QED
    BY <2>1, <2>2
<1>7. Shown' = [Shown EXCEPT ![o] = SubSeq(Shown[o], 1, n)]
  <2>1. ASSUME NEW p \in Buffers \ {o} PROVE Value(p)' = Value(p)
    BY <1>1, <1>2 DEF Value, View, IsNull
  <2> QED
    BY <1>1, <1>3, <1>6, <2>1 DEF Shown
<1> QED
  BY <1>2, <1>3, <1>5, <1>7 DEF Tied

\* What is left of a Buffer's memory when somebody has let go of it
LEMMA MemoryKept ==
    ASSUME Views, References', heap' = [i \in Ids |-> IF ref_count'[i] = 0 THEN NoBuffer ELSE heap[i]]
    PROVE  Memory(heap') /\ \A p \in Buffers : IsNull(p)' \/ heap'[buffer'[p]] = heap[buffer'[p]]
<1>1. Memory(heap')
  <2>1. Stored(NoBuffer)
    BY DEF Stored, NoBuffer
  <2> QED
    BY <2>1 DEF Memory, Views
<1>2. ASSUME NEW p \in Buffers, ~IsNull(p)' PROVE heap'[buffer'[p]] = heap[buffer'[p]]
  <2>1. buffer'[p] \in Ids
    BY <1>2 DEF References, Addresses, IsNull
  <2>2. p \in Users(buffer', buffer'[p])
    BY DEF Users
  <2>3. IsFiniteSet(Users(buffer', buffer'[p]))
        /\ ref_count'[buffer'[p]] = Cardinality(Users(buffer', buffer'[p]))
    BY <2>1, UsersAreFinite DEF References, CountsReferences, Users
  <2>4. ref_count'[buffer'[p]] # 0
    BY <2>2, <2>3, FS_EmptySet
  <2> QED
    BY <2>1, <2>4
<1> QED
  BY <1>1, <1>2

\* Two objects exchange views, or one passes its own on.
LEMMA ViewsMove ==
    ASSUME Views, References', Memory(heap'), NEW a \in Others, NEW b \in Others,
           \A p \in Buffers : IsNull(p)' \/ heap'[buffer'[p]] = heap[buffer'[p]],
           offset' \in [Buffers -> Nat], size' \in [Buffers -> 0 .. MaxSize],
           \A p \in Buffers :
              \/ buffer'[p] = Null /\ size'[p] = 0
              \/ buffer'[p] = buffer[p] /\ offset'[p] = 0 /\ size'[p] = 0
              \/ \E q \in Buffers : buffer'[p] = buffer[q] /\ offset'[p] = offset[q] /\ size'[p] = size[q],
           buffer'[Packet] = buffer[Packet]
    PROVE  Views'
<1>1. ASSUME NEW p \in Buffers PROVE InBuffer(p)'
  <2>1. CASE buffer'[p] = Null /\ size'[p] = 0
    BY <2>1 DEF InBuffer, IsNull
  <2>2. CASE buffer'[p] = buffer[p] /\ offset'[p] = 0 /\ size'[p] = 0
    <3>1. IsNull(p)' \/ 0 + 0 <= Len(heap'[buffer'[p]].bytes)
      <4>1. IsNull(p)' \/ buffer'[p] \in Ids
        BY DEF References, Addresses, IsNull
      <4>2. IsNull(p)' \/ heap'[buffer'[p]].bytes \in Seq(Bytes)
        BY <4>1 DEF Memory, Stored
      <4> QED
        BY <4>2
    <3> QED
      BY <2>2, <3>1 DEF InBuffer, IsNull
  <2>3. ASSUME NEW q \in Buffers, buffer'[p] = buffer[q], offset'[p] = offset[q], size'[p] = size[q]
        PROVE  InBuffer(p)'
    <3>1. InBuffer(q)
      BY DEF Views
    <3> QED
      BY <2>3, <3>1 DEF InBuffer, IsNull
  <2> QED
    BY <2>1, <2>2, <2>3
<1> QED
  BY <1>1 DEF Views, IsNull

\* operator=(CopyOnWriteBuffer&&), of an object to itself too, which empties it
LEMMA MoveStep ==
    ASSUME Views, References', NEW to \in Others, NEW from \in Others, Move(to, from)
    PROVE  /\ Views'
           /\ Shown' = [Shown EXCEPT ![to] = Shown[from], ![from] = <<>>]
           /\ \/ Tied' = IF from \in Tied THEN (Tied \ {from}) \cup {to} ELSE Tied \ {to, from}
              \/ to = from /\ Tied' = Tied
<1>1. /\ to \in Buffers /\ from \in Buffers /\ Packet \in Buffers /\ to # Packet /\ from # Packet
      /\ buffer \in [Buffers -> Addresses] /\ offset \in [Buffers -> Nat] /\ size \in [Buffers -> 0 .. MaxSize]
      /\ buffer[Packet] # Null /\ 0 \in 0 .. MaxSize
  BY PacketAssumption DEF Views, References, Others, IsNull
<1>2. /\ buffer' = [buffer EXCEPT ![from] = Null, ![to] = buffer[from]]
      /\ offset' = [offset EXCEPT ![to] = offset[from], ![from] = 0]
      /\ size' = [size EXCEPT ![to] = size[from], ![from] = 0]
  BY DEF Move
<1>3. Memory(heap') /\ \A p \in Buffers : IsNull(p)' \/ heap'[buffer'[p]] = heap[buffer'[p]]
  BY MemoryKept DEF Move
<1>4. offset' \in [Buffers -> Nat] /\ size' \in [Buffers -> 0 .. MaxSize] /\ buffer'[Packet] = buffer[Packet]
  BY <1>1, <1>2
<1>5. \A p \in Buffers \ {to, from} : buffer'[p] = buffer[p] /\ offset'[p] = offset[p] /\ size'[p] = size[p]
  BY <1>1, <1>2
<1>6. CASE to = from
  <2>1. buffer' = buffer /\ offset'[to] = 0 /\ size'[to] = 0
    BY <1>1, <1>2, <1>6
  <2>2. \A p \in Buffers :
            \/ buffer'[p] = Null /\ size'[p] = 0
            \/ buffer'[p] = buffer[p] /\ offset'[p] = 0 /\ size'[p] = 0
            \/ \E q \in Buffers : buffer'[p] = buffer[q] /\ offset'[p] = offset[q] /\ size'[p] = size[q]
    BY <1>5, <1>6, <2>1
  <2>3. Views'
    BY <1>3, <1>4, <2>2, ViewsMove
  <2>4. Value(to)' = <<>>
    <3>1. SubSeq(heap'[buffer'[to]].bytes, 0 + 1, 0 + 0) = <<>>
      BY SubSeqEmpty
    <3> QED
      BY <2>1, <3>1 DEF Value, View
  <2>5. ASSUME NEW p \in Buffers \ {to} PROVE Value(p)' = Value(p)
    <3>1. buffer'[p] = buffer[p] /\ offset'[p] = offset[p] /\ size'[p] = size[p]
          /\ (IsNull(p)' \/ heap'[buffer'[p]] = heap[buffer'[p]])
      BY <1>3, <1>5, <1>6
    <3> QED
      BY <3>1 DEF Value, View, IsNull
  <2>6. Shown' = [Shown EXCEPT ![to] = Shown[from], ![from] = <<>>]
    BY <1>1, <1>6, <2>4, <2>5 DEF Shown
  <2> QED
    BY <1>6, <2>1, <2>3, <2>6 DEF Tied
<1>7. CASE to # from
  <2>1. /\ buffer'[to] = buffer[from] /\ offset'[to] = offset[from] /\ size'[to] = size[from]
        /\ buffer'[from] = Null /\ offset'[from] = 0 /\ size'[from] = 0
    BY <1>1, <1>2, <1>7
  <2>2. \A p \in Buffers :
            \/ buffer'[p] = Null /\ size'[p] = 0
            \/ buffer'[p] = buffer[p] /\ offset'[p] = 0 /\ size'[p] = 0
            \/ \E q \in Buffers : buffer'[p] = buffer[q] /\ offset'[p] = offset[q] /\ size'[p] = size[q]
    BY <1>1, <1>5, <2>1
  <2>3. Views'
    BY <1>3, <1>4, <2>2, ViewsMove
  <2>4. Value(from)' = <<>>
    BY <2>1 DEF Value, IsNull
  <2>5. Value(to)' = Value(from)
    <3>1. IsNull(to)' \/ heap'[buffer'[to]] = heap[buffer'[to]]
      BY <1>1, <1>3
    <3> QED
      BY <2>1, <3>1 DEF Value, View, IsNull
  <2>6. ASSUME NEW p \in Buffers \ {to, from} PROVE Value(p)' = Value(p)
    <3>1. buffer'[p] = buffer[p] /\ offset'[p] = offset[p] /\ size'[p] = size[p]
          /\ (IsNull(p)' \/ heap'[buffer'[p]] = heap[buffer'[p]])
      BY <1>3, <1>5
    <3> QED
      BY <3>1 DEF Value, View, IsNull
  <2>7. Shown' = [Shown EXCEPT ![to] = Shown[from], ![from] = <<>>]
    BY <1>1, <1>7, <2>4, <2>5, <2>6 DEF Shown
  <2>8. Tied' = IF from \in Tied THEN (Tied \ {from}) \cup {to} ELSE Tied \ {to, from}
    BY <1>1, <1>4, <1>5, <1>7, <2>1 DEF Tied
  <2> QED
    BY <2>3, <2>7, <2>8
<1> QED
  BY <1>6, <1>7

\* swap
LEMMA SwapStep ==
    ASSUME Views, References', NEW a \in Others, NEW b \in Others, Swap(a, b),
           NEW other, other = [c \in Buffers |-> IF c = a THEN b ELSE IF c = b THEN a ELSE c]
    PROVE  /\ Views'
           /\ Shown' = [c \in Buffers |-> Shown[other[c]]]
           /\ Tied' = {c \in Buffers : other[c] \in Tied}
<1>1. /\ a \in Buffers /\ b \in Buffers /\ Packet \in Buffers /\ a # Packet /\ b # Packet
      /\ buffer \in [Buffers -> Addresses] /\ offset \in [Buffers -> Nat] /\ size \in [Buffers -> 0 .. MaxSize]
  BY PacketAssumption DEF Views, References, Others
<1>2. heap' = heap /\ Memory(heap')
  BY DEF Swap, Views
<1>3. /\ offset' \in [Buffers -> Nat] /\ size' \in [Buffers -> 0 .. MaxSize]
      /\ buffer'[Packet] = buffer[Packet] /\ other[Packet] = Packet
  BY <1>1 DEF Swap
<1>4. \A c \in Buffers : other[c] \in Buffers /\ buffer'[c] = buffer[other[c]]
                         /\ offset'[c] = offset[other[c]] /\ size'[c] = size[other[c]]
  BY <1>1 DEF Swap
<1>5. Views'
  BY <1>2, <1>3, <1>4, ViewsMove
<1>6. ASSUME NEW c \in Buffers PROVE Value(c)' = Shown[other[c]]
  <2>1. Value(c)' = Value(other[c])
    BY <1>2, <1>4 DEF Value, View, IsNull
  <2> QED
    BY <1>4, <2>1 DEF Shown
<1> QED
  BY <1>3, <1>4, <1>5, <1>6 DEF Shown, Tied

\* The byte of the time in a heartbeat packet
LEMMA FirstReplaced ==
    ASSUME NEW s \in Seq(Bytes), NEW b \in Bytes
    PROVE  [s EXCEPT ![1] = b] \in Seq(Bytes) /\ Len([s EXCEPT ![1] = b]) = Len(s)
<1> DEFINE n == Len(s)
           t == [s EXCEPT ![1] = b]
<1>1. n \in Nat /\ s \in [1 .. n -> Bytes]
  OBVIOUS
<1> HIDE DEF n
<1>2. t \in [1 .. n -> Bytes]
  BY <1>1
<1> HIDE DEF t
<1>3. t \in Seq(Bytes) /\ Len(t) = n
  BY <1>1, <1>2
<1> QED
  BY <1>3 DEF t, n

ViewsHaveSizes == \A o \in Buffers : Len(Shown[o]) = size[o]

\* size() is the length of what is shown.
LEMMA SizesOfViews == Views => ViewsHaveSizes
BY ViewIs DEF Shown, ViewsHaveSizes

\* HeartbeatPacket::SetTime writes into all that still share its Buffer, and
\* changes no length.
LEMMA SetTimeStep ==
    ASSUME Views, References', NEW b \in Bytes, SetTime(b)
    PROVE  /\ Views' /\ Tied' = Tied
           /\ \A o \in Buffers : IF o \in Tied THEN Len(Shown'[o]) = Len(Shown[o]) ELSE Shown'[o] = Shown[o]
<1> DEFINE a == buffer[Packet]
           bytes == heap[a].bytes
           new == [bytes EXCEPT ![1] = b]
<1>1. References /\ Memory(heap) /\ Packet \in Buffers
  BY PacketAssumption DEF Views
<1>2. a \in Ids
  BY <1>1, BuffersAreUsed DEF Views
<1>3. bytes \in Seq(Bytes) /\ heap[a] = [bytes |-> bytes, capacity |-> heap[a].capacity]
  BY <1>1, <1>2 DEF Memory, Stored
<1>4. heap' = [heap EXCEPT ![a].bytes = new] /\ buffer' = buffer /\ offset' = offset /\ size' = size
  BY DEF SetTime, view
<1>5. new \in Seq(Bytes) /\ Len(new) = Len(bytes)
  <2> HIDE DEF bytes
  <2> QED
    BY <1>3, FirstReplaced
<1> HIDE DEF new
<1>6. /\ heap'[a] = [bytes |-> new, capacity |-> heap[a].capacity]
      /\ \A i \in Ids \ {a} : heap'[i] = heap[i]
      /\ heap' = [i \in Ids |-> heap'[i]]
  <2> HIDE DEF a, bytes
  <2> QED
    BY <1>1, <1>2, <1>3, <1>4 DEF Memory, bytes
<1> HIDE DEF bytes
<1>7. Memory(heap')
  <2> HIDE DEF a
  <2>1. Stored(heap'[a])
    BY <1>5, <1>6 DEF Stored
  <2>2. \A i \in Ids \ {a} : Stored(heap'[i])
    BY <1>1, <1>6 DEF Memory
  <2> QED
    BY <1>6, <2>1, <2>2 DEF Memory
<1>8. ASSUME NEW p \in Buffers
      PROVE  /\ IsNull(p)' = IsNull(p)
             /\ IsNull(p) \/ Len(heap'[buffer'[p]].bytes) = Len(heap[buffer[p]].bytes)
             /\ buffer[p] = a \/ IsNull(p) \/ heap'[buffer'[p]] = heap[buffer[p]]
  <2>1. IsNull(p) \/ buffer[p] \in Ids
    BY <1>1, BuffersAreUsed
  <2>2. CASE buffer[p] = a
    BY <1>4, <1>5, <1>6, <2>2 DEF IsNull, bytes
  <2>3. CASE buffer[p] # a
    BY <1>4, <1>6, <2>1, <2>3 DEF IsNull
  <2> QED
    BY <2>2, <2>3
<1>9. Views'
  <2>1. ASSUME NEW p \in Buffers PROVE InBuffer(p)'
    <3>1. InBuffer(p)
      BY DEF Views
    <3> QED
      BY <1>4, <1>8, <3>1 DEF InBuffer
  <2> QED
    BY <1>1, <1>4, <1>7, <2>1 DEF Views, IsNull
<1>10. ViewsHaveSizes
  BY SizesOfViews
<1>11. ViewsHaveSizes'
  BY <1>9, SizesOfViews, PTL
<1>12. \A o \in Buffers : o \in Tied \/ Shown'[o] = Shown[o]
  <2> SUFFICES ASSUME NEW o \in Buffers, o \notin Tied PROVE Shown'[o] = Shown[o]
    OBVIOUS
  <2>1. buffer[o] # a
    BY DEF Tied
  <2>2. Value(o)' = Value(o)
    BY <1>4, <1>8, <2>1 DEF Value, View
  <2> QED
    BY <2>2 DEF Shown
<1>13. Tied' = Tied
  BY <1>4 DEF Tied
<1> QED
  BY <1>4, <1>9, <1>10, <1>11, <1>12, <1>13 DEF ViewsHaveSizes

--------------------------------------------------------------------------------

(* The operations of ValueBuffers *)

Untie(o) == Tied' = Tied \/ Tied' = Tied \ {o}

LEMMA ValuesOfBuffers ==
    ASSUME NEW v \in Seq(Bytes), Len(v) <= MaxSize
    PROVE  v \in Abstract!Values
<1>1. v \in BoundedSeq(Bytes, MaxSize)
  BY ValuesAre
<1> QED
  BY <1>1 DEF Abstract!Values, Abstract!BoundedSeq, Abstract!SeqOf, BoundedSeq, SeqOf

LEMMA AbstractSet ==
    ASSUME NEW o, NEW v \in Seq(Bytes), Len(v) <= MaxSize, Shown' = [Shown EXCEPT ![o] = v], Untie(o)
    PROVE  Abstract!SetData(o)
<1>1. v \in Abstract!Values
  BY ValuesOfBuffers
<1> QED
  BY <1>1 DEF Abstract!SetData, Abstract!MayUntie, Untie, Shown, Tied

LEMMA AbstractAppend ==
    ASSUME NEW o, NEW v \in Seq(Bytes), Len(v) <= MaxSize, Shown' = [Shown EXCEPT ![o] = Shown[o] \o v], Untie(o)
    PROVE  Abstract!AppendData(o)
<1>1. v \in Abstract!Values
  BY ValuesOfBuffers
<1> QED
  BY <1>1 DEF Abstract!AppendData, Abstract!MayUntie, Untie, Shown, Tied

LEMMA AbstractWrite ==
    ASSUME NEW o, NEW i \in DOMAIN Shown[o], NEW b \in Bytes,
           Shown' = [Shown EXCEPT ![o] = [Shown[o] EXCEPT ![i] = b]], Untie(o)
    PROVE  Abstract!Write(o)
BY DEF Abstract!Write, Abstract!MayUntie, Untie, Shown, Tied

LEMMA AbstractSize ==
    ASSUME NEW o, NEW n \in Nat, Shown[o] \in Seq(Bytes), Len(Shown[o]) <= MaxSize, n <= Len(Shown[o]),
           Shown' = [Shown EXCEPT ![o] = SubSeq(Shown[o], 1, n)], Untie(o)
    PROVE  Abstract!SetSize(o)
<1> DEFINE u == Shown[o]
           w == SubSeq(u, 1, n)
<1>1. w \in Seq(Bytes) /\ Len(w) = n
  <2>1. u \in Seq(Bytes) /\ n <= Len(u)
    OBVIOUS
  <2> HIDE DEF u
  <2>2. SubSeq(u, 0 + 1, 0 + n) \in Seq(Bytes) /\ Len(SubSeq(u, 0 + 1, 0 + n)) = n
    <3>1. 0 \in Nat /\ 0 + n <= Len(u)
      BY <2>1
    <3> QED
      BY <2>1, <3>1, Part
  <2> QED
    BY <2>2
<1>2. Abstract!IsPrefix(w, u)
  <2>1. SubSeq(w, 1, Len(w)) = w
    BY <1>1, SubSeqFull
  <2>2. Len(w) <= Len(u)
    BY <1>1
  <2>3. Len(w) = n
    BY <1>1
  <2>4. SubSeq(u, 1, Len(w)) = w
    BY <2>3
  <2> HIDE DEF u, w
  <2> QED
    BY <2>1, <2>2, <2>4 DEF Abstract!IsPrefix
<1>3. w \in Abstract!Values
  <2>1. Len(w) <= MaxSize
    BY <1>1, PacketAssumption
  <2> QED
    BY <1>1, <2>1, ValuesOfBuffers
<1>4. Shown' = [Shown EXCEPT ![o] = w]
  OBVIOUS
<1> HIDE DEF w
<1> QED
  BY <1>2, <1>3, <1>4 DEF Abstract!SetSize, Abstract!MayUntie, Untie, Shown, Tied

LEMMA AbstractSlice ==
    ASSUME NEW to, NEW from, NEW i, NEW j, i \in 0 .. Len(Shown[from]), j \in 0 .. Len(Shown[from]),
           Shown' = [Shown EXCEPT ![to] = SubSeq(Shown[from], i + 1, j)],
           Tied' = IF from \in Tied THEN Tied \cup {to} ELSE Tied \ {to}
    PROVE  Abstract!Slice(to, from)
BY DEF Abstract!Slice, Shown, Tied

LEMMA AbstractMove ==
    ASSUME NEW to, NEW from, Shown' = [Shown EXCEPT ![to] = Shown[from], ![from] = <<>>],
           \/ Tied' = IF from \in Tied THEN (Tied \ {from}) \cup {to} ELSE Tied \ {to, from}
           \/ to = from /\ Tied' = Tied
    PROVE  Abstract!Move(to, from)
BY DEF Abstract!Move, Shown, Tied

LEMMA AbstractSwap ==
    ASSUME NEW a, NEW b, NEW other, other = [c \in Buffers |-> IF c = a THEN b ELSE IF c = b THEN a ELSE c],
           Shown' = [c \in Buffers |-> Shown[other[c]]], Tied' = {c \in Buffers : other[c] \in Tied}
    PROVE  Abstract!Swap(a, b)
BY DEF Abstract!Swap, Shown, Tied

LEMMA AbstractTime ==
    ASSUME Tied' = Tied, \A o \in Buffers : IF o \in Tied THEN Len(Shown'[o]) = Len(Shown[o]) ELSE Shown'[o] = Shown[o]
    PROVE  Abstract!SetTime
BY DEF Abstract!SetTime, Shown, Tied

LEMMA AbstractStutter ==
    ASSUME Shown' = Shown, Tied' = Tied
    PROVE  UNCHANGED Abstract!vars
BY DEF Abstract!vars, Shown, Tied

\* A pending operation's change of the view is an AppendData or a write.
LEMMA AbstractSplice ==
    ASSUME Views, NEW o \in Others, NEW e, Fits(size[o], e), Shown' = [Shown EXCEPT ![o] = Spliced(Shown[o], e)], Untie(o)
    PROVE  Abstract!AppendData(o) \/ Abstract!Write(o)
<1>1. o \in Buffers /\ Shown[o] \in Seq(Bytes) /\ Len(Shown[o]) = size[o] /\ size[o] \in 0 .. MaxSize
  BY ViewIs DEF Shown, Others, Views
<1> DEFINE u == Shown[o]
<1>2. u \in Seq(Bytes) /\ Fits(Len(u), e) /\ Shown' = [Shown EXCEPT ![o] = Spliced(u, e)]
  BY <1>1
<1>3. CASE Appends(Len(u), e)
  <2>1. e.bytes \in Seq(Bytes) /\ Len(e.bytes) <= MaxSize
    <3>1. e.bytes \in Seq(Bytes) /\ Len(u) + Len(e.bytes) <= MaxSize /\ Len(u) \in Nat
      <4>1. Len(u) \in Nat
        BY <1>1
      <4> HIDE DEF u
      <4> QED
        BY <1>3, <4>1 DEF Appends
    <3> HIDE DEF u
    <3> QED
      BY <3>1, PacketAssumption
  <2>2. Spliced(u, e) = u \o e.bytes
    <3> HIDE DEF u
    <3> QED
      BY <1>2, <1>3, AppendedIs
  <2> QED
    BY <2>1, <2>2, AbstractAppend
<1>4. CASE AddsNothing(e)
  <2>1. Spliced(u, e) = u
    <3> HIDE DEF u
    <3> QED
      BY <1>2, <1>4, NothingAdded
  <2>2. u \o <<>> = u /\ <<>> \in Seq(Bytes) /\ Len(<<>>) <= MaxSize
    BY <1>1, PacketAssumption
  <2> QED
    BY <2>1, <2>2, AbstractAppend
<1>5. CASE Replaces(Len(u), e)
  <2>1. PICK i \in DOMAIN u, b \in Bytes : Spliced(u, e) = [u EXCEPT ![i] = b]
    <3> HIDE DEF u
    <3> QED
      BY <1>2, <1>5, WrittenIs
  <2> QED
    BY <2>1, AbstractWrite
<1> QED
  BY <1>2, <1>3, <1>4, <1>5 DEF Fits

--------------------------------------------------------------------------------

\* An operation that found its Buffer shared or too small still fits its view.
PendingFits ==
    /\ pending = [o \in Buffers |-> pending[o]]
    /\ \A o \in Buffers : ready(o) \/ (~IsNull(o) /\ Fits(size[o], pending[o]))

Inv == Views /\ PendingFits

\* A pending operation fits while nobody else changes the size of its view.
LEMMA PendingKept ==
    ASSUME PendingFits, pending' = pending \/ \E o \in Buffers : \E e : pending' = [pending EXCEPT ![o] = e],
           \A p \in Buffers : \/ pending'[p] = Idle
                              \/ pending'[p] = pending[p] /\ buffer'[p] = buffer[p] /\ size'[p] = size[p]
                              \/ ~IsNull(p)' /\ Fits(size'[p], pending'[p])
    PROVE  PendingFits'
<1>1. pending' = [o \in Buffers |-> pending'[o]]
  BY DEF PendingFits
<1>2. ASSUME NEW p \in Buffers PROVE ready(p)' \/ (~IsNull(p)' /\ Fits(size'[p], pending'[p]))
  <2>1. ready(p) \/ (~IsNull(p) /\ Fits(size[p], pending[p]))
    BY DEF PendingFits
  <2> QED
    BY <2>1 DEF ready, IsNull
<1> QED
  BY <1>1, <1>2 DEF PendingFits

\* A step of o that leaves the others' views
LEMMA OwnStep ==
    ASSUME Inv, NEW o \in Others,
           (ready(o) /\ pending' = pending) \/ pending' = [pending EXCEPT ![o] = Idle],
           NEW b, NEW s, buffer' = [buffer EXCEPT ![o] = b], size' = [size EXCEPT ![o] = s]
    PROVE  PendingFits'
<1>1. o \in Buffers /\ PendingFits /\ pending = [p \in Buffers |-> pending[p]]
  BY DEF Others, Inv, PendingFits
<1>2. buffer \in [Buffers -> Addresses] /\ size \in [Buffers -> 0 .. MaxSize]
  BY DEF Inv, Views, References
<1>3. ASSUME NEW p \in Buffers \ {o}
      PROVE  pending'[p] = pending[p] /\ buffer'[p] = buffer[p] /\ size'[p] = size[p]
  BY <1>1, <1>2
<1>4. pending'[o] = Idle
  BY <1>1 DEF ready
<1> QED
  BY <1>1, <1>3, <1>4, PendingKept

LEMMA NewByOwn ==
    ASSUME Inv, References', NEW o \in Others, NEW bytes \in Seq(Bytes), Len(bytes) <= MaxSize, NEW cap,
           MakeNew(o, bytes, cap), ready(o), pending' = pending
    PROVE  Inv' /\ Abstract!SetData(o)
<1>1. Views' /\ Shown' = [Shown EXCEPT ![o] = bytes] /\ Tied' = Tied \ {o}
  BY NewStep DEF Inv
<1>2. PendingFits'
  BY OwnStep DEF MakeNew, Refer
<1>3. Abstract!SetData(o)
  BY <1>1, AbstractSet DEF Untie
<1> QED
  BY <1>1, <1>2, <1>3 DEF Inv

\* UnshareAndEnsureCapacity, in place or leaving the copy for later
LEMMA UnshareByOwn ==
    ASSUME Inv, References', NEW o \in Others, NEW e, Fits(size[o], e), Unshare(o, e)
    PROVE  /\ Inv'
           /\ Abstract!AppendData(o) \/ Abstract!Write(o) \/ UNCHANGED Abstract!vars
<1>1. o \in Buffers /\ ready(o) /\ ~IsNull(o) /\ Views /\ PendingFits /\ size \in [Buffers -> 0 .. MaxSize]
      /\ buffer \in [Buffers -> Addresses]
  BY DEF Others, Unshare, Inv, Views, References
<1>2. CASE HasOneRef(o) /\ e.room <= capacity(o)
  <2>1. InPlace(o, e) /\ pending' = pending
    BY <1>2 DEF Unshare
  <2>2. Views' /\ Shown' = [Shown EXCEPT ![o] = Spliced(Shown[o], e)] /\ Tied' = Tied
    BY <1>1, <1>2, <2>1, InPlaceStep
  <2>3. PendingFits'
    <3>1. buffer' = [buffer EXCEPT ![o] = buffer[o]]
      BY <1>1, <2>1 DEF InPlace
    <3> QED
      BY <1>1, <2>1, <3>1, OwnStep DEF InPlace
  <2>4. Abstract!AppendData(o) \/ Abstract!Write(o)
    BY <1>1, <2>2, AbstractSplice DEF Untie
  <2> QED
    BY <2>2, <2>3, <2>4 DEF Inv
<1>3. CASE ~(HasOneRef(o) /\ e.room <= capacity(o))
  <2>1. pending' = [pending EXCEPT ![o] = e] /\ UNCHANGED <<view, heap, ref_count>>
    BY <1>3 DEF Unshare
  <2>2. buffer' = buffer /\ size' = size /\ offset' = offset /\ heap' = heap
    BY <2>1 DEF view
  <2>3. Shown' = Shown /\ Tied' = Tied
    BY <2>2 DEF Shown, Tied, Value, View, IsNull
  <2>4. Views'
    BY <1>1, <2>2 DEF Views, Memory, InBuffer, IsNull
  <2>5. PendingFits'
    <3>1. ASSUME NEW p \in Buffers
          PROVE  \/ pending'[p] = pending[p] /\ buffer'[p] = buffer[p] /\ size'[p] = size[p]
                 \/ ~IsNull(p)' /\ Fits(size'[p], pending'[p])
      <4>1. pending = [q \in Buffers |-> pending[q]]
        BY <1>1 DEF PendingFits
      <4> QED
        BY <1>1, <2>1, <2>2, <4>1 DEF IsNull
    <3> QED
      BY <1>1, <2>1, <3>1, PendingKept
  <2> QED
    BY <2>3, <2>4, <2>5, AbstractStutter DEF Inv
<1> QED
  BY <1>2, <1>3

\* The copy of UnshareAndEnsureCapacity, which nobody sees but its object
LEMMA CopyByOwn ==
    ASSUME Inv, References', NEW o \in Others, Copy(o)
    PROVE  Inv' /\ (Abstract!AppendData(o) \/ Abstract!Write(o))
<1>1. o \in Buffers /\ ~IsNull(o) /\ Fits(size[o], pending[o]) /\ Views /\ size \in [Buffers -> 0 .. MaxSize]
  BY DEF Others, Copy, Inv, PendingFits, Views
<1>2. Value(o) \in Seq(Bytes) /\ Len(Value(o)) = size[o] /\ View(o) = Value(o) /\ Shown[o] = Value(o)
  BY <1>1, ViewIs DEF Value, Shown
<1> DEFINE w == Spliced(Shown[o], pending[o])
<1>3. w \in Seq(Bytes) /\ Len(w) <= MaxSize
  <2>1. Shown[o] \in Seq(Bytes) /\ Len(Shown[o]) <= MaxSize /\ Fits(Len(Shown[o]), pending[o])
    BY <1>1, <1>2, PacketAssumption
  <2> QED
    BY <2>1, SplicedIs, PacketAssumption
<1>4. PICK cap : MakeNew(o, w, cap)
  BY <1>2 DEF Copy
<1>5. Views' /\ Shown' = [Shown EXCEPT ![o] = w] /\ Tied' = Tied \ {o}
  BY <1>1, <1>3, <1>4, NewStep
<1>6. PendingFits'
  <2>1. pending' = [pending EXCEPT ![o] = Idle] /\ pending'[o] = Idle
    BY <1>1 DEF Copy, Inv, PendingFits
  <2> HIDE DEF w
  <2> QED
    BY <1>4, <2>1, OwnStep DEF MakeNew, Refer
<1>7. Abstract!AppendData(o) \/ Abstract!Write(o)
  BY <1>1, <1>5, AbstractSplice DEF Untie
<1> QED
  BY <1>5, <1>6, <1>7 DEF Inv

LEMMA SoleByOwn ==
    ASSUME Inv, References', NEW o \in Others, ready(o), ~IsNull(o), HasOneRef(o), NEW buf, Stored(buf),
           NEW n, n = Len(buf.bytes), n <= MaxSize,
           Refer(o, buffer[o], 0, n, [heap EXCEPT ![buffer[o]] = buf]), pending' = pending
    PROVE  Inv' /\ Abstract!SetData(o)
<1>1. Views' /\ Shown' = [Shown EXCEPT ![o] = buf.bytes] /\ Tied' = Tied
  BY SoleStep DEF Inv
<1>2. PendingFits'
  BY OwnStep DEF Refer
<1>3. Abstract!SetData(o)
  <2>1. buf.bytes \in Seq(Bytes) /\ Len(buf.bytes) <= MaxSize
    BY DEF Stored
  <2> QED
    BY <1>1, <2>1, AbstractSet DEF Untie
<1> QED
  BY <1>1, <1>2, <1>3 DEF Inv

LEMMA AppendByOwn ==
    ASSUME Inv, References', NEW o \in Others, NEW data \in Seq(Bytes), size[o] + Len(data) <= MaxSize,
           AppendData(o, data)
    PROVE  /\ Inv'
           /\ \/ Abstract!SetData(o) \/ Abstract!AppendData(o) \/ Abstract!Write(o)
              \/ UNCHANGED Abstract!vars
<1>1. CASE Extend(o, data)
  <2> DEFINE e == [at |-> size[o], bytes |-> data, room |-> size[o] + Len(data)]
  <2>1. Fits(size[o], e)
    BY DEF Fits, Appends
  <2>2. Unshare(o, e)
    BY <1>1 DEF Extend
  <2> HIDE DEF e
  <2> QED
    BY <2>1, <2>2, UnshareByOwn
<1>2. CASE ready(o) /\ IsNull(o) /\ MakeNew(o, data, 0) /\ UNCHANGED pending
  <2>1. Len(data) <= MaxSize
    <3>1. size[o] \in Nat /\ Len(data) \in Nat
      BY PacketAssumption DEF Inv, Views, Others
    <3> QED
      BY <3>1, PacketAssumption
  <2> QED
    BY <1>2, <2>1, NewByOwn
<1> QED
  BY <1>1, <1>2 DEF AppendData

LEMMA ContentsAre ==
    ASSUME NEW data \in Contents
    PROVE  data \in Seq(Bytes) /\ Len(data) <= MaxSize
BY ValuesAre DEF Contents

LEMMA SetDataByOwn ==
    ASSUME Inv, References', NEW o \in Others, NEW data \in Seq(Bytes), Len(data) <= MaxSize, SetData(o, data)
    PROVE  Inv' /\ (Abstract!SetData(o) \/ UNCHANGED Abstract!vars)
<1>1. ready(o) /\ pending' = pending /\ o \in Buffers /\ Views /\ PendingFits
  BY DEF SetData, Others, Inv
<1>2. ASSUME NEW cap, MakeNew(o, data, cap) PROVE Inv' /\ Abstract!SetData(o)
  BY <1>1, <1>2, NewByOwn
<1>3. CASE UNCHANGED <<view, heap, ref_count>>
  <2>1. buffer' = buffer /\ size' = size /\ offset' = offset /\ heap' = heap
    BY <1>3 DEF view
  <2>2. Shown' = Shown /\ Tied' = Tied /\ Views'
    BY <1>1, <2>1 DEF Shown, Tied, Value, View, IsNull, Views, Memory, InBuffer
  <2>3. PendingFits'
    BY <1>1, <2>1, PendingKept
  <2> QED
    BY <2>2, <2>3, AbstractStutter DEF Inv
<1>4. CASE SetDataOfSole(o, data)
  <2> DEFINE buf == Replaced(heap[buffer[o]], data)
  <2>1. ~IsNull(o) /\ HasOneRef(o)
    BY <1>4 DEF SetDataOfSole
  <2>2. Stored(buf) /\ buf.bytes = data
    BY DEF Stored, Replaced, WithBytes
  <2>3. Refer(o, buffer[o], 0, Len(data), [heap EXCEPT ![buffer[o]] = buf])
    BY <1>4 DEF SetDataOfSole
  <2> HIDE DEF buf
  <2>4. Len(data) = Len(buf.bytes)
    BY <2>2
  <2> QED
    BY <1>1, <2>1, <2>2, <2>3, <2>4, SoleByOwn
<1> QED
  BY <1>2, <1>3, <1>4 DEF SetData, SetDataOfNull, SetDataOfShared

LEMMA ClearByOwn ==
    ASSUME Inv, References', NEW o \in Others, Clear(o)
    PROVE  Inv' /\ Abstract!SetData(o)
<1>1. ready(o) /\ ~IsNull(o) /\ pending' = pending /\ <<>> \in Seq(Bytes) /\ Len(<<>>) = 0 /\ 0 <= MaxSize
  BY PacketAssumption DEF Clear
<1>2. CASE HasOneRef(o)
  <2> DEFINE buf == Cleared(heap[buffer[o]])
  <2>1. Stored(buf) /\ buf.bytes = <<>>
    <3>1. buffer[o] \in Ids
      BY <1>1, BuffersAreUsed DEF Inv, Views, Others
    <3>2. Stored(heap[buffer[o]])
      BY <3>1 DEF Inv, Views, Memory
    <3> QED
      BY <1>1, <3>2 DEF Stored, Cleared
  <2>2. Refer(o, buffer[o], 0, 0, [heap EXCEPT ![buffer[o]] = buf])
    BY <1>2 DEF Clear
  <2> HIDE DEF buf
  <2>3. 0 = Len(buf.bytes)
    BY <1>1, <2>1
  <2> QED
    BY <1>1, <1>2, <2>1, <2>2, <2>3, SoleByOwn
<1>3. CASE ~HasOneRef(o)
  BY <1>1, <1>3, NewByOwn DEF Clear
<1> QED
  BY <1>2, <1>3

LEMMA SetSizeByOwn ==
    ASSUME Inv, References', NEW o \in Others, NEW n \in 0 .. MaxSize, SetSize(o, n)
    PROVE  /\ Inv'
           /\ \/ Abstract!SetData(o) \/ Abstract!AppendData(o) \/ Abstract!SetSize(o) \/ Abstract!Write(o)
              \/ UNCHANGED Abstract!vars
<1>1. /\ o \in Buffers /\ size[o] \in Nat /\ n \in Nat /\ size[o] <= MaxSize /\ Shown[o] \in Seq(Bytes)
      /\ Len(Shown[o]) = size[o] /\ size \in [Buffers -> 0 .. MaxSize] /\ buffer \in [Buffers -> Addresses]
  BY PacketAssumption, ViewIs DEF Shown, Others, Inv, Views, References
<1>2. CASE Shrink(o, n)
  <2>1. Views' /\ Shown' = [Shown EXCEPT ![o] = SubSeq(Shown[o], 1, n)] /\ Tied' = Tied /\ Len(Shown[o]) >= n
    BY <1>2, ShrinkStep DEF Inv
  <2>2. PendingFits'
    <3>1. buffer' = [buffer EXCEPT ![o] = buffer[o]]
      BY <1>1, <1>2 DEF Shrink
    <3> QED
      BY <1>2, <3>1, OwnStep DEF Shrink
  <2>3. Abstract!SetSize(o)
    <3>1. n <= Len(Shown[o]) /\ Len(Shown[o]) <= MaxSize
      BY <1>1, <1>2 DEF Shrink
    <3> QED
      BY <1>1, <2>1, <3>1, AbstractSize DEF Untie
  <2> QED
    BY <2>1, <2>2, <2>3 DEF Inv
<1>3. ASSUME NEW added \in [1 .. n - size[o] -> Bytes], n > size[o], AppendData(o, added)
      PROVE  /\ Inv'
             /\ \/ Abstract!SetData(o) \/ Abstract!AppendData(o) \/ Abstract!Write(o)
                \/ UNCHANGED Abstract!vars
  <2> DEFINE d == n - size[o]
  <2>1. d \in Nat /\ size[o] + d <= MaxSize
    BY <1>1, <1>3
  <2>2. added \in [1 .. d -> Bytes]
    OBVIOUS
  <2> HIDE DEF d
  <2>3. added \in Seq(Bytes) /\ Len(added) = d
    BY <2>1, <2>2
  <2> QED
    BY <1>3, <2>1, <2>3, AppendByOwn
<1> QED
  BY <1>2, <1>3 DEF SetSize

LEMMA EnsureCapacityByOwn ==
    ASSUME Inv, References', NEW o \in Others, NEW n, EnsureCapacity(o, n)
    PROVE  /\ Inv'
           /\ \/ Abstract!SetData(o) \/ Abstract!AppendData(o) \/ Abstract!Write(o)
              \/ UNCHANGED Abstract!vars
<1>1. CASE Unshare(o, [Idle EXCEPT !.room = n])
  <2> DEFINE e == [Idle EXCEPT !.room = n]
  <2>1. Fits(size[o], e)
    BY DEF Idle, Fits, AddsNothing
  <2>2. Unshare(o, e)
    BY <1>1
  <2> HIDE DEF e
  <2> QED
    BY <2>1, <2>2, UnshareByOwn
<1>2. CASE ready(o) /\ IsNull(o) /\ MakeNew(o, <<>>, n) /\ UNCHANGED pending
  <2>1. <<>> \in Seq(Bytes) /\ Len(<<>>) <= MaxSize
    BY PacketAssumption
  <2> QED
    BY <1>2, <2>1, NewByOwn
<1> QED
  BY <1>1, <1>2 DEF EnsureCapacity

LEMMA WriteByOwn ==
    ASSUME Inv, References', NEW o \in Others, NEW i \in Nat, NEW b \in Bytes, Write(o, i, b)
    PROVE  /\ Inv'
           /\ Abstract!AppendData(o) \/ Abstract!Write(o) \/ UNCHANGED Abstract!vars
<1> DEFINE e == [at |-> i - 1, bytes |-> <<b>>, room |-> 0]
<1>1. i \in 1 .. size[o] /\ Unshare(o, e)
  BY DEF Write
<1>2. size[o] \in Nat
  BY PacketAssumption DEF Inv, Views, Others
<1>3. e.at \in 0 .. size[o] - 1
  BY <1>1, <1>2
<1>4. Fits(size[o], e)
  BY <1>3 DEF Fits, Replaces
<1> HIDE DEF e
<1> QED
  BY <1>1, <1>4, UnshareByOwn

AbstractChange(o) ==
    \/ Abstract!SetData(o) \/ Abstract!AppendData(o) \/ Abstract!SetSize(o) \/ Abstract!Write(o)
    \/ UNCHANGED Abstract!vars

\* All that one object does by itself
LEMMA ChangeByOwn ==
    ASSUME Inv, References', NEW o \in Others, Change(o)
    PROVE  Inv' /\ AbstractChange(o)
<1>1. 0 .. MaxSize \subseteq Nat
  BY PacketAssumption
<1>2. ASSUME NEW data \in Contents, NEW cap \in 0 .. MaxSize, Construct(o, data, cap) PROVE Inv' /\ AbstractChange(o)
  BY <1>2, ContentsAre, NewByOwn DEF Construct, AbstractChange
<1>3. ASSUME NEW data \in Contents, SetData(o, data) PROVE Inv' /\ AbstractChange(o)
  BY <1>3, ContentsAre, SetDataByOwn DEF AbstractChange
<1>4. ASSUME NEW data \in Contents, size[o] + Len(data) <= MaxSize, AppendData(o, data)
      PROVE  Inv' /\ AbstractChange(o)
  BY <1>4, ContentsAre, AppendByOwn DEF AbstractChange
<1>5. ASSUME NEW n \in 0 .. MaxSize, SetSize(o, n) PROVE Inv' /\ AbstractChange(o)
  BY <1>5, SetSizeByOwn DEF AbstractChange
<1>6. ASSUME NEW n \in 0 .. MaxSize, EnsureCapacity(o, n) PROVE Inv' /\ AbstractChange(o)
  BY <1>6, EnsureCapacityByOwn DEF AbstractChange
<1>7. ASSUME NEW i \in 1 .. MaxSize, NEW b \in Bytes, Write(o, i, b) PROVE Inv' /\ AbstractChange(o)
  BY <1>7, WriteByOwn, PacketAssumption DEF AbstractChange
<1>8. CASE Clear(o)
  BY <1>8, ClearByOwn DEF AbstractChange
<1>9. CASE Copy(o)
  BY <1>9, CopyByOwn DEF AbstractChange
<1> QED
  BY <1>2, <1>3, <1>4, <1>5, <1>6, <1>7, <1>8, <1>9 DEF Change

\* Slice: a part of what another shows
LEMMA SliceStep ==
    ASSUME Inv, References', NEW to \in Others, NEW from \in Buffers, NEW i \in Nat, NEW n \in Nat,
           Slice(to, from, i, n)
    PROVE  Inv' /\ Abstract!Slice(to, from)
<1>1. /\ ready(to) /\ pending' = pending /\ to \in Buffers /\ i + n <= size[from]
      /\ Refer(to, buffer[from], offset[from] + i, n, heap)
  BY DEF Slice, Others
<1>2. /\ Views /\ buffer[from] \in Addresses /\ offset[from] \in Nat /\ size[from] \in 0 .. MaxSize
      /\ InBuffer(from) /\ Memory(heap)
  BY DEF Inv, Views, References
<1>3. /\ size[from] \in Nat /\ n \in 0 .. MaxSize /\ offset[from] + i \in Nat
      /\ i \in 0 .. size[from] /\ i + n \in 0 .. size[from]
  BY <1>1, <1>2, PacketAssumption
<1>4. Shown[from] = Value(from) /\ Len(Shown[from]) = size[from]
      /\ Value(from) = IF IsNull(from) THEN <<>>
                       ELSE SubSeq(heap[buffer[from]].bytes, offset[from] + 1, offset[from] + size[from])
  BY <1>2, ViewIs DEF Shown
<1> DEFINE w == IF buffer[from] = Null THEN <<>>
                ELSE SubSeq(heap[buffer[from]].bytes, (offset[from] + i) + 1, (offset[from] + i) + n)
<1>5. w = SubSeq(Shown[from], i + 1, i + n)
  <2>1. CASE IsNull(from)
    <3>1. i + 1 \in Int /\ i + n \in Int /\ i + n < i + 1
      BY <1>2, <1>1, <2>1 DEF InBuffer
    <3> QED
      BY <1>4, <2>1, <3>1, SubSeqEmpty DEF IsNull
  <2>2. CASE ~IsNull(from)
    <3> DEFINE bytes == heap[buffer[from]].bytes
               k == offset[from]
               m == size[from]
    <3>1. bytes \in Seq(Bytes) /\ k + m <= Len(bytes)
      BY <1>2, <2>2, BuffersAreUsed DEF Views, Memory, Stored, InBuffer
    <3>2. k \in Nat /\ m \in Nat /\ i + n <= m
      BY <1>1, <1>2, <1>3
    <3>3. w = SubSeq(bytes, k + i + 1, k + i + n) /\ Shown[from] = SubSeq(bytes, k + 1, k + m)
      BY <1>4, <2>2 DEF IsNull
    <3> HIDE DEF bytes, k, m, w
    <3> QED
      BY <3>1, <3>2, <3>3, PartOfPart
  <2> QED
    BY <2>1, <2>2
<1>6. /\ Views' /\ Shown' = [Shown EXCEPT ![to] = w]
      /\ Tied' = IF buffer[from] = buffer[Packet] THEN Tied \cup {to} ELSE Tied \ {to}
  <2>1. IF buffer[from] = Null THEN n = 0 ELSE (offset[from] + i) + n <= Len(heap[buffer[from]].bytes)
    <3>1. CASE IsNull(from)
      BY <1>1, <1>2, <3>1 DEF InBuffer, IsNull
    <3>2. CASE ~IsNull(from)
      <4>1. heap[buffer[from]].bytes \in Seq(Bytes)
        BY <1>2, <3>2, BuffersAreUsed DEF Views, Memory, Stored
      <4>2. Len(heap[buffer[from]].bytes) \in Nat /\ offset[from] + size[from] <= Len(heap[buffer[from]].bytes)
        BY <1>2, <3>2, <4>1 DEF InBuffer
      <4>3. offset[from] \in Nat /\ size[from] \in Nat /\ i + n <= size[from] /\ i \in Nat /\ n \in Nat
        BY <1>1, <1>2, <1>3
      <4>4. (offset[from] + i) + n <= Len(heap[buffer[from]].bytes)
        BY <4>2, <4>3
      <4> QED
        BY <3>2, <4>4 DEF IsNull
    <3> QED
      BY <3>1, <3>2
  <2> DEFINE id == buffer[from]
             k == offset[from] + i
  <2>2. /\ Refer(to, id, k, n, heap) /\ id \in Addresses /\ k \in Nat
        /\ IF id = Null THEN n = 0 ELSE k + n <= Len(heap[id].bytes)
    BY <1>1, <1>2, <1>3, <2>1
  <2>3. \A p \in Buffers \ {to} : IsNull(p) \/ heap[buffer[p]].bytes = heap[buffer[p]].bytes
    OBVIOUS
  <2> HIDE DEF id, k
  <2>4. /\ Views'
        /\ Shown' = [Shown EXCEPT ![to] = IF id = Null THEN <<>> ELSE SubSeq(heap[id].bytes, k + 1, k + n)]
        /\ Tied' = IF id = buffer[Packet] THEN Tied \cup {to} ELSE Tied \ {to}
    BY <1>2, <1>3, <2>2, <2>3, ReferStep
  <2> QED
    BY <2>4 DEF id, k
<1>7. PendingFits'
  BY <1>1, OwnStep DEF Refer
<1>8. Abstract!Slice(to, from)
  <2>1. Tied' = IF from \in Tied THEN Tied \cup {to} ELSE Tied \ {to}
    BY <1>6 DEF Tied
  <2> HIDE DEF w
  <2> QED
    BY <1>3, <1>4, <1>5, <1>6, <2>1, AbstractSlice
<1> QED
  BY <1>6, <1>7, <1>8 DEF Inv

LEMMA DestroyStep ==
    ASSUME Inv, References', NEW o \in Others, Destroy(o)
    PROVE  Inv' /\ Abstract!SetData(o)
<1>1. ready(o) /\ pending' = pending /\ Refer(o, Null, 0, 0, heap) /\ Views /\ Memory(heap)
      /\ Null \in Addresses /\ 0 \in Nat /\ 0 \in 0 .. MaxSize
  BY PacketAssumption DEF Destroy, Inv, Views, Addresses
<1>2. /\ Views' /\ Shown' = [Shown EXCEPT ![o] = IF Null = Null THEN <<>> ELSE SubSeq(heap[Null].bytes, 0 + 1, 0 + 0)]
      /\ Tied' = IF Null = buffer[Packet] THEN Tied \cup {o} ELSE Tied \ {o}
  BY <1>1, ReferStep
<1>3. PendingFits'
  BY <1>1, OwnStep DEF Refer
<1>4. Abstract!SetData(o)
  <2>1. Shown' = [Shown EXCEPT ![o] = <<>>] /\ Tied' = Tied \ {o}
    BY <1>1, <1>2 DEF Views, IsNull
  <2>2. <<>> \in Seq(Bytes) /\ Len(<<>>) <= MaxSize
    BY PacketAssumption
  <2> QED
    BY <2>1, <2>2, AbstractSet DEF Untie
<1> QED
  BY <1>2, <1>3, <1>4 DEF Inv

LEMMA MoveByOwn ==
    ASSUME Inv, References', NEW to \in Others, NEW from \in Others, Move(to, from)
    PROVE  Inv' /\ Abstract!Move(to, from)
<1>1. Views' /\ Abstract!Move(to, from)
  BY MoveStep, AbstractMove DEF Inv
<1>2. PendingFits'
  <2>1. ready(to) /\ ready(from) /\ pending' = pending /\ to \in Buffers /\ from \in Buffers
    BY DEF Move, Others
  <2>2. ASSUME NEW p \in Buffers \ {to, from}
        PROVE  pending'[p] = pending[p] /\ buffer'[p] = buffer[p] /\ size'[p] = size[p]
    BY <2>1 DEF Move, Inv, Views, References
  <2> QED
    BY <2>1, <2>2, PendingKept DEF Inv, ready
<1> QED
  BY <1>1, <1>2 DEF Inv

LEMMA SwapByOwn ==
    ASSUME Inv, References', NEW a \in Others, NEW b \in Others, Swap(a, b)
    PROVE  Inv' /\ Abstract!Swap(a, b)
<1>1. PICK other : other = [c \in Buffers |-> IF c = a THEN b ELSE IF c = b THEN a ELSE c]
  OBVIOUS
<1>2. Views' /\ Shown' = [c \in Buffers |-> Shown[other[c]]] /\ Tied' = {c \in Buffers : other[c] \in Tied}
  BY <1>1, SwapStep DEF Inv
<1>3. PendingFits'
  <2>1. ready(a) /\ ready(b) /\ pending' = pending /\ a \in Buffers /\ b \in Buffers
    BY DEF Swap, Others
  <2>2. ASSUME NEW p \in Buffers \ {a, b}
        PROVE  pending'[p] = pending[p] /\ buffer'[p] = buffer[p] /\ size'[p] = size[p]
    BY <2>1 DEF Swap, Inv, Views, References
  <2> QED
    BY <2>1, <2>2, PendingKept DEF Inv, ready
<1> QED
  BY <1>1, <1>2, <1>3, AbstractSwap DEF Inv

LEMMA SetTimeByOwn ==
    ASSUME Inv, References', NEW b \in Bytes, SetTime(b)
    PROVE  Inv' /\ Abstract!SetTime
<1>1. Views' /\ Tied' = Tied /\ \A o \in Buffers : IF o \in Tied THEN Len(Shown'[o]) = Len(Shown[o]) ELSE Shown'[o] = Shown[o]
  BY SetTimeStep DEF Inv
<1>2. PendingFits'
  <2>1. pending' = pending /\ buffer' = buffer /\ size' = size
    BY DEF SetTime, view
  <2> QED
    BY <2>1, PendingKept DEF Inv
<1> QED
  BY <1>1, <1>2, AbstractTime DEF Inv

LEMMA InitInv == Init => Inv /\ Abstract!Init
<1> SUFFICES ASSUME Init PROVE Inv /\ Abstract!Init
  OBVIOUS
<1>1. PICK b \in Bytes :
        /\ buffer = [o \in Buffers |-> IF o = Packet THEN 1 ELSE Null]
        /\ offset = [o \in Buffers |-> 0]
        /\ size = [o \in Buffers |-> IF o = Packet THEN 1 ELSE 0]
        /\ heap = [i \in Ids |-> IF i = 1 THEN [bytes |-> <<b>>, capacity |-> 1]
                                          ELSE [bytes |-> <<>>, capacity |-> 0]]
        /\ pending = [o \in Buffers |-> Idle]
  BY DEF Init
<1>2. 1 \in Ids /\ 1 # Null /\ Null = 0 /\ Packet \in Buffers /\ 0 \in 0 .. MaxSize /\ 1 \in 0 .. MaxSize
  BY PacketAssumption, BuffersAssumption, FS_CardinalityType DEF Ids, Null
<1>3. References
  BY InitReferences
<1>4. Memory(heap)
  BY <1>1 DEF Memory, Stored
<1>5. Views
  <2>1. \A o \in Buffers : InBuffer(o)
    BY <1>1, <1>2 DEF InBuffer, IsNull
  <2> QED
    BY <1>1, <1>2, <1>3, <1>4, <2>1 DEF Views, IsNull
<1>6. PendingFits
  BY <1>1 DEF PendingFits, ready
<1>7. Shown[Packet] \in Abstract!Values
  <2>1. Shown[Packet] \in Seq(Bytes) /\ Len(Shown[Packet]) <= MaxSize
    BY <1>1, <1>2, <1>5, ViewIs DEF Shown
  <2> QED
    BY <2>1, ValuesOfBuffers
<1>8. Shown = [o \in Buffers |-> IF o = Packet THEN Shown[Packet] ELSE <<>>]
  BY <1>1, <1>2 DEF Shown, Value, IsNull
<1>9. Tied = {Packet}
  BY <1>1, <1>2 DEF Tied
<1> QED
  BY <1>5, <1>6, <1>7, <1>8, <1>9 DEF Inv, Abstract!Init, Shown, Tied

\* Each step is one of ValueBuffers, or changes nothing that is shown.
LEMMA StepInv == Inv /\ [Next]_vars => Inv' /\ [Abstract!Next]_Abstract!vars
<1> SUFFICES ASSUME Inv, [Next]_vars PROVE Inv' /\ [Abstract!Next]_Abstract!vars
  OBVIOUS
<1>1. /\ References' /\ Others \subseteq Buffers /\ Others = Buffers \ {Packet} /\ Packet \in Buffers
      /\ 0 .. MaxSize \subseteq Nat
  BY StepReferences, PacketAssumption DEF Inv, Views, Others
<1>2. ASSUME NEW o \in Others, Change(o) PROVE Inv' /\ [Abstract!Next]_Abstract!vars
  BY <1>1, <1>2, ChangeByOwn DEF AbstractChange, Abstract!Next
<1>3. ASSUME NEW o \in Others, Destroy(o) PROVE Inv' /\ Abstract!Next
  BY <1>1, <1>3, DestroyStep DEF Abstract!Next
<1>4. ASSUME NEW to \in Others, NEW from \in Buffers, NEW i \in Nat, NEW n \in Nat, Slice(to, from, i, n)
      PROVE  Inv' /\ Abstract!Next
  BY <1>1, <1>4, SliceStep DEF Abstract!Next
<1>5. ASSUME NEW to \in Others, NEW from \in Buffers, Assign(to, from) PROVE Inv' /\ Abstract!Next
  <2>1. size[from] \in Nat /\ 0 \in Nat
    BY <1>1 DEF Inv, Views
  <2> QED
    BY <1>4, <1>5, <2>1 DEF Assign
<1>6. ASSUME NEW a \in Others, NEW b \in Others, Move(a, b) PROVE Inv' /\ Abstract!Next
  BY <1>1, <1>6, MoveByOwn DEF Abstract!Next
<1>7. ASSUME NEW a \in Others, NEW b \in Others, Swap(a, b) PROVE Inv' /\ Abstract!Next
  BY <1>1, <1>7, SwapByOwn DEF Abstract!Next
<1>8. ASSUME NEW b \in Bytes, SetTime(b) PROVE Inv' /\ Abstract!Next
  BY <1>1, <1>8, SetTimeByOwn DEF Abstract!Next
<1>9. CASE UNCHANGED vars
  <2>1. buffer' = buffer /\ size' = size /\ offset' = offset /\ heap' = heap /\ pending' = pending
    BY <1>9 DEF vars, view
  <2>2. Shown' = Shown /\ Tied' = Tied /\ Views'
    BY <1>1, <2>1 DEF Shown, Tied, Value, View, IsNull, Inv, Views, Memory, InBuffer
  <2>3. PendingFits'
    BY <2>1, PendingKept DEF Inv
  <2> QED
    BY <2>2, <2>3, AbstractStutter DEF Inv
<1> QED
  BY <1>1, <1>2, <1>3, <1>4, <1>5, <1>6, <1>7, <1>8, <1>9 DEF Next, GetPacket

\* The buffers keep what ValueBuffers promises: whatever views share a Buffer, test
\* its reference count and copy it, each has a value of its own that only its own
\* operations change, but for the time of a heartbeat packet.
THEOREM BuffersHaveValues == Spec => EachItsOwn
<1>1. Init => Inv /\ Abstract!Init
  BY InitInv
<1>2. Inv /\ [Next]_vars => Inv' /\ [Abstract!Next]_Abstract!vars
  BY StepInv
<1> QED
  BY <1>1, <1>2, PTL DEF Spec, EachItsOwn, Abstract!Spec

================================================================================
