----------------------------- MODULE NackGenerator -----------------------------
(***************************************************************************)
(* NackGenerator (core/src/rtc/nack_generator.cpp): the sequence numbers   *)
(* a receiving stream has missed and asks the sender for.                  *)
(*                                                                         *)
(* nack_list_ and key_frame_list_ are ordered by SeqLowerThan; they are a  *)
(* function and a set here, and what lower_bound erases is the elements    *)
(* lower than its argument.  A time is an age in ticks, up to the greatest *)
(* one the code tells apart.  Every packet counts as a key frame           *)
(* (is_key_frame is true) and none as recovered (RtpStreamReceiver passes  *)
(* false), so recovered_list_ stays empty and is left out.  Both calls of  *)
(* MayRunTimer are commented out: the timer never runs, and GetNackBatch   *)
(* is called with the filter SEQ only.                                     *)
(*                                                                         *)
(* A definition X_Y is X with a plausible bug Y, which no specification    *)
(* uses; it is there to show that the properties notice the bug.           *)
(***************************************************************************)
EXTENDS SeqArith, FiniteSets, Functions

CONSTANTS
    SeqMod,             \* the number of sequence numbers
    MaxPacketAge,       \* kMaxPacketAge
    MaxNackPackets,     \* kMaxNackPackets
    MaxNackRetries,     \* kMaxNackRetries
    SendNackDelay,      \* send_nack_delay_ms_, in ticks
    AskAgain,           \* kDefaultRtt + kTimerInterval, in ticks
    MaxAhead,           \* how far a packet may be newer than the newest one
    MaxBehind           \* how far a packet may be older than the newest one

ASSUME SeqAssumption ==
    /\ {SeqMod, MaxPacketAge, MaxNackPackets, MaxNackRetries} \subseteq Nat \ {0}
    /\ {SendNackDelay, AskAgain, MaxAhead, MaxBehind} \subseteq Nat
    /\ MaxPacketAge < HalfRange(SeqMod) /\ MaxBehind < HalfRange(SeqMod)
    /\ MaxPacketAge + MaxAhead <= HalfRange(SeqMod)
    /\ MaxAhead <= MaxPacketAge /\ MaxNackRetries > 1

Seqs == 0 .. SeqMod - 1
Never == AskAgain + 1       \* sent_at_ms_ == 0

VARIABLES
    started,            \* started_
    last_seq,           \* last_seq_
    nack_list,          \* nack_list_: what became of each missing number
    key_frame_list,     \* key_frame_list_
    result,             \* what ReceivePacket returned
    batch,              \* the numbers given to OnNackGeneratorNackRequired
    missing,            \* history: passed over, not arrived, not older than MaxPacketAge
    asked_for,          \* history: the missing numbers the listener was told
    was_newest,         \* history: came as the newest, not older than MaxPacketAge
    given_up            \* history: the missing numbers that may be dropped

members == <<started, last_seq, nack_list, key_frame_list>>
outputs == <<result, batch>>
history == <<missing, asked_for, was_newest, given_up>>
vars == <<members, outputs, history>>

Nothing == [q \in {} |-> 0]

Init ==
    /\ started = FALSE
    /\ last_seq = 0
    /\ nack_list = Nothing
    /\ key_frame_list = {}
    /\ result = FALSE /\ batch = {}
    /\ missing = {} /\ asked_for = {} /\ was_newest = {} /\ given_up = {}

--------------------------------------------------------------------------------

Lower(a, b) == IsSeqLowerThan(a, b, SeqMod)
Higher(a, b) == IsSeqHigherThan(a, b, SeqMod)
Add(a, n) == Plus(a, n, SeqMod)

\* The elements before lower_bound(seq)
Below(S, seq) == {q \in S : Lower(q, seq)}
Above(f, seq) == Restrict(f, DOMAIN f \ Below(DOMAIN f, seq))

\* seq - kMaxPacketAge, as the uint16_t lower_bound takes
Oldest(seq) == Minus(seq, MaxPacketAge, SeqMod)

\* The numbers from last_seq_ + 1 up to seq - 1
Between(seq) == {Add(last_seq, n) : n \in 1 .. Minus(seq, last_seq, SeqMod) - 1}

New == [created |-> 0, sent |-> Never, retries |-> 0]

Fits(list, new) == Cardinality(DOMAIN list) + Cardinality(new) <= MaxNackPackets

\* The loop around RemoveNackItemsUntilKeyFrame: the items older than one key
\* frame after the other go, until the new ones fit.  keys has seq in it.
MakesRoom(list, keys, new) ==
    {k \in keys : Fits(Above(list, k), new)}

FirstOf(keys) == CHOOSE k \in keys : \A l \in keys : ~Lower(l, k)

AddPackets(list, new) ==
    [q \in DOMAIN list \cup new |-> IF q \in DOMAIN list THEN list[q] ELSE New]

AddPacketsToNackList_ClearsAtOnce(list, keys, new) ==
    IF Fits(list, new)
    THEN [list |-> AddPackets(list, new), keys |-> keys]
    ELSE [list |-> Nothing, keys |-> {}]

\* AddPacketsToNackList: the list and the key frames it leaves
AddPacketsToNackList(list, keys, new) ==
    LET room == MakesRoom(list, keys, new)
    IN  IF Fits(list, new)
        THEN [list |-> AddPackets(list, new), keys |-> keys]
        ELSE IF room # {}
        THEN [list |-> AddPackets(Above(list, FirstOf(room)), new),
              keys |-> keys \ Below(keys, FirstOf(room))]
        ELSE [list |-> Nothing, keys |-> {}]

Due_SentAgain(list, last) ==
    {q \in DOMAIN list : list[q].created >= SendNackDelay /\ (q = last \/ Higher(last, q))}

\* The items GetNackBatch(NackFilter::SEQ) takes; send_at_seq_ is the number itself
Due(list, last) ==
    {q \in DOMAIN list :
        /\ list[q].created >= SendNackDelay
        /\ list[q].sent = Never
        /\ q = last \/ Higher(last, q)}

Asked_NotCounted(info) == [info EXCEPT !.sent = 0]

\* An item that was put into the batch
Asked(info) == [info EXCEPT !.retries = @ + 1, !.sent = 0]

\* The list after GetNackBatch
AfterBatch(list, due) ==
    LET marked == [q \in DOMAIN list |-> IF q \in due THEN Asked(list[q]) ELSE list[q]]
    IN  Restrict(marked, {q \in DOMAIN list : marked[q].retries < MaxNackRetries})

--------------------------------------------------------------------------------
(* ReceivePacket                                                           *)

First(seq) ==
    /\ ~started
    /\ started' = TRUE
    /\ last_seq' = seq
    /\ key_frame_list' = key_frame_list \cup {seq}
    /\ was_newest' = {seq}
    /\ result' = FALSE /\ batch' = {}
    /\ UNCHANGED <<nack_list, missing, asked_for, given_up>>

Same(seq) ==
    /\ started
    /\ seq = last_seq
    /\ result' = FALSE /\ batch' = {}
    /\ UNCHANGED <<members, history>>

\* An older packet: one that was missed leaves the list, and the result says
\* whether it was asked for.
Older(seq) ==
    /\ started
    /\ Lower(seq, last_seq)
    /\ result' = (seq \in DOMAIN nack_list /\ nack_list[seq].retries # 0)
    /\ nack_list' = Restrict(nack_list, DOMAIN nack_list \ {seq})
    /\ batch' = {}
    /\ missing' = missing \ {seq}
    /\ asked_for' = asked_for \ {seq}
    /\ given_up' = given_up \ {seq}
    /\ UNCHANGED <<started, last_seq, key_frame_list, was_newest>>

KeyFrames_NeverRemoved(seq) == key_frame_list \cup {seq}

\* The key frames after seq was inserted and the old ones were removed
KeyFrames(seq) ==
    LET keys == key_frame_list \cup {seq}
    IN  keys \ Below(keys, Oldest(seq))

\* History: what may be given up for a packet.  The numbers that were not given up
\* yet stay if there is room for them and the new ones; else those that are not
\* older than one of the packets that came as the newest, and as many as there is
\* room for; and if the new ones alone are too many, none at all.
Recent(S, seq) == {q \in S : Minus(seq, q, SeqMod) <= MaxPacketAge}

Since(S, seq, a) == {q \in S : Minus(seq, q, SeqMod) <= Minus(seq, a, SeqMod)}

Stays(kept, new, came, seq) ==
    {S \in {kept} \cup {Since(kept, seq, a) : a \in came} :
        Cardinality(S) + Cardinality(new) <= MaxNackPackets}

MayGiveUp(kept, new, came, seq) ==
    LET stays == Stays(kept, new, came, seq)
    IN  IF stays = {} THEN kept \cup new ELSE kept \ UNION stays

\* A newer packet: the numbers it passes over are missed.
Newer(seq) ==
    LET new == Between(seq)
        added == AddPacketsToNackList(Above(nack_list, Oldest(seq)), KeyFrames(seq), new)
        due == Due(added.list, seq)
    IN  /\ started
        /\ seq # last_seq /\ ~Lower(seq, last_seq)
        /\ last_seq' = seq
        /\ key_frame_list' = added.keys
        /\ nack_list' = AfterBatch(added.list, due)
        /\ batch' = due
        /\ result' = FALSE
        /\ missing' = Recent((missing \cup new) \ {seq}, seq)
        /\ asked_for' = (asked_for \cup due) \cap missing'
        /\ was_newest' = Recent(was_newest \cup {seq}, seq)
        /\ given_up' = Recent(given_up, seq)
                        \cup MayGiveUp(Recent(missing \ given_up, seq), new, was_newest', seq)
        /\ UNCHANGED started

ReceivePacket(seq) == First(seq) \/ Same(seq) \/ Older(seq) \/ Newer(seq)

\* What RtpStream accepts while it is not re-synced: a packet not too far ahead
\* of the newest one or behind it.
Accepted(seq) ==
    started => \/ Minus(seq, last_seq, SeqMod) <= MaxAhead
               \/ Minus(last_seq, seq, SeqMod) <= MaxBehind

\* A tick of GetTimeMs
Older1(info) ==
    [info EXCEPT !.created = IF @ < SendNackDelay THEN @ + 1 ELSE @,
                 !.sent = IF @ < AskAgain THEN @ + 1 ELSE @]

Tick ==
    /\ nack_list' = [q \in DOMAIN nack_list |-> Older1(nack_list[q])]
    /\ result' = FALSE /\ batch' = {}
    /\ UNCHANGED <<started, last_seq, key_frame_list, history>>

Next == (\E seq \in Seqs : Accepted(seq) /\ ReceivePacket(seq)) \/ Tick

Spec == Init /\ [][Next]_vars

--------------------------------------------------------------------------------
(* Properties                                                              *)

\* The keys of the two ordered containers lie within MaxPacketAge behind the
\* newest packet, so that SeqLowerThan orders them: on keys more than half the
\* range apart it is no order and std::map and std::set are undefined.
KeysAreOrdered ==
    \A q \in DOMAIN nack_list \cup key_frame_list : Minus(last_seq, q, SeqMod) <= MaxPacketAge

\* nack_list_ has exactly the numbers that are missing: none that arrived, in
\* whatever order, and every one that was passed over and is not too old.  When
\* they are more than kMaxNackPackets, however long a gap, it drops as few of the
\* oldest as the key frames allow, and everything only if the gap itself is too long.
ListIsWhatIsMissing ==
    /\ Cardinality(DOMAIN nack_list) <= MaxNackPackets
    /\ DOMAIN nack_list \cup given_up = missing
    /\ DOMAIN nack_list \cap given_up = {}

\* A newer packet asks for exactly the missing numbers that have waited for
\* send_nack_delay_ms_ and were not asked for before: none too early, none left out,
\* and none again.  The last is against nack_generator.cpp:143-144, which has the
\* timer run lest "NACKs would never been sent more than once for each seq": a NACK
\* that is lost is not repeated.
AskedInTime ==
    [][ \A seq \in Seqs : Newer(seq) =>
            batch' = {q \in missing' \ given_up' :
                         nack_list'[q].created = SendNackDelay /\ q \notin asked_for}
      ]_vars

\* ReceivePacket calls a packet retransmitted if and only if it was missing, was
\* asked for, and was not given up meanwhile; so at most once.
RetransmittedWasAsked ==
    [][ \A seq \in Seqs : Older(seq) =>
            result' = (seq \in asked_for /\ seq \notin given_up) ]_vars

================================================================================
