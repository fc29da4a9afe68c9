--------------------------- MODULE BloopSinkProofs ---------------------------
(* Proofs about the processed bloop sink, for a channel of any capacity,    *)
(* any batch size, and any number of events and failing writes.             *)
EXTENDS BloopSink, TLAPS

(* The bloops of s are ascending, and s ends before t begins.               *)
Ascending(s) == \A i, j \in DOMAIN s : i < j => s[i] < s[j]

Precedes(s, t) == \A i \in DOMAIN s, j \in DOMAIN t : s[i] < t[j]

Below(s, n) == \A i \in DOMAIN s : s[i] < n

(* Repository, batch and buffer are one ascending sequence cut in pieces,   *)
(* and all of it was received.                                              *)
OrderInv ==
    /\ next <= Len(log) + 1
    /\ Ascending(stored) /\ Ascending(batch) /\ Ascending(buffer)
    /\ Precedes(stored, batch) /\ Precedes(stored, buffer)
    /\ Below(stored, next) /\ Below(batch, next) /\ Below(buffer, next)

(* What a concatenation contains, and when it is ascending.                 *)
LEMMA ConcatFacts ==
    ASSUME NEW S, NEW s \in Seq(S), NEW t \in Seq(S)
    PROVE  /\ s \o t \in Seq(S)
           /\ Len(s \o t) = Len(s) + Len(t)
           /\ \A i \in DOMAIN (s \o t) :
                \/ i \in DOMAIN s /\ (s \o t)[i] = s[i]
                \/ i - Len(s) \in DOMAIN t /\ i > Len(s) /\ (s \o t)[i] = t[i - Len(s)]
           /\ \A i \in DOMAIN s : i \in DOMAIN (s \o t) /\ (s \o t)[i] = s[i]
           /\ \A i \in DOMAIN t : i + Len(s) \in DOMAIN (s \o t) /\ (s \o t)[i + Len(s)] = t[i]
  OBVIOUS

(* What a concatenation holds.                                             *)
LEMMA ConcatSet ==
    ASSUME NEW S, NEW s \in Seq(S), NEW t \in Seq(S)
    PROVE  ToSet(s \o t) = ToSet(s) \cup ToSet(t)
<1>1. ASSUME NEW x \in ToSet(s \o t) PROVE x \in ToSet(s) \cup ToSet(t)
  BY ConcatFacts DEF ToSet
<1>2. ASSUME NEW x \in ToSet(s) PROVE x \in ToSet(s \o t)
  BY ConcatFacts DEF ToSet
<1>3. ASSUME NEW x \in ToSet(t) PROVE x \in ToSet(s \o t)
  <2>1. PICK i \in DOMAIN t : x = t[i]
    BY <1>3 DEF ToSet
  <2>2. i + Len(s) \in DOMAIN (s \o t) /\ (s \o t)[i + Len(s)] = x
    BY <2>1, ConcatFacts
  <2> QED BY <2>2 DEF ToSet
<1> QED BY <1>1, <1>2, <1>3

(* Two ascending parts, the second above the first, make an ascending whole. *)
LEMMA ConcatAscending ==
    ASSUME NEW s \in Seq(Positions), NEW t \in Seq(Positions),
           Ascending(s), Ascending(t), Precedes(s, t)
    PROVE  Ascending(s \o t)
<1> SUFFICES ASSUME NEW i \in DOMAIN (s \o t), NEW j \in DOMAIN (s \o t), i < j
             PROVE  (s \o t)[i] < (s \o t)[j]
  BY DEF Ascending
<1>1. Len(s) \in Nat /\ i \in Nat /\ j \in Nat
      /\ DOMAIN s = 1..Len(s) /\ DOMAIN t = 1..Len(t)
  OBVIOUS
<1>2. CASE i \in DOMAIN s /\ (s \o t)[i] = s[i]
  BY <1>1, <1>2, ConcatFacts DEF Ascending, Precedes
<1>3. CASE i - Len(s) \in DOMAIN t /\ i > Len(s) /\ (s \o t)[i] = t[i - Len(s)]
  <2>1. j - Len(s) \in DOMAIN t /\ (s \o t)[j] = t[j - Len(s)]
    BY <1>1, <1>3, ConcatFacts
  <2>2. i - Len(s) < j - Len(s)
    BY <1>1
  <2> QED BY <1>3, <2>1, <2>2 DEF Ascending
<1> QED BY <1>2, <1>3, ConcatFacts

(* A bound on both parts bounds the whole.                                 *)
LEMMA ConcatBounds ==
    ASSUME NEW s \in Seq(Positions), NEW t \in Seq(Positions), NEW n
    PROVE  /\ Below(s, n) /\ Below(t, n) => Below(s \o t, n)
           /\ \A r : Precedes(s, r) /\ Precedes(t, r) => Precedes(s \o t, r)
<1>1. ASSUME Below(s, n), Below(t, n) PROVE Below(s \o t, n)
  BY <1>1, ConcatFacts DEF Below
<1>2. ASSUME NEW r, Precedes(s, r), Precedes(t, r) PROVE Precedes(s \o t, r)
  BY <1>2, ConcatFacts DEF Precedes
<1> QED BY <1>1, <1>2

(* Appending the event being received.                                      *)
LEMMA AppendFacts ==
    ASSUME NEW s \in Seq(Positions), NEW r \in Seq(Positions), NEW n \in Positions,
           Ascending(s), Below(s, n), Precedes(r, s), Below(r, n), MaxEvents \in Nat
    PROVE  /\ Append(s, n) \in Seq(Positions) /\ Append(s, n) # <<>>
           /\ Ascending(Append(s, n)) /\ Below(Append(s, n), n + 1)
           /\ Precedes(r, Append(s, n))
           /\ ToSet(Append(s, n)) = ToSet(s) \cup {n}
<1> DEFINE a == Append(s, n)
<1>1. /\ a \in Seq(Positions) /\ Len(a) = Len(s) + 1 /\ DOMAIN a = 1..(Len(s) + 1)
      /\ DOMAIN s = 1..Len(s) /\ Len(s) \in Nat
      /\ a[Len(s) + 1] = n /\ \A i \in 1..Len(s) : a[i] = s[i]
  OBVIOUS
<1> HIDE DEF a
<1>2. \A i \in DOMAIN s : s[i] \in Nat
  BY DEF Positions
<1>3. \A i \in DOMAIN a : (i \in DOMAIN s /\ a[i] = s[i]) \/ (i = Len(s) + 1 /\ a[i] = n)
  BY <1>1
<1>4. Ascending(a)
  BY <1>1, <1>3 DEF Ascending, Below
<1>5. Below(a, n + 1)
  <2>1. n \in Nat
    BY DEF Positions
  <2> SUFFICES ASSUME NEW i \in DOMAIN a PROVE a[i] < n + 1
    BY DEF Below
  <2>2. CASE i \in DOMAIN s /\ a[i] = s[i]
    BY <1>2, <2>1, <2>2 DEF Below
  <2>3. CASE a[i] = n
    BY <2>1, <2>3
  <2> QED BY <1>3, <2>2, <2>3
<1>6. Precedes(r, a)
  BY <1>3 DEF Precedes, Below
<1>7. ToSet(a) = ToSet(s) \cup {n}
  BY <1>1, <1>3 DEF ToSet
<1>8. a # <<>>
  BY <1>1
<1> QED BY <1>1, <1>4, <1>5, <1>6, <1>7, <1>8 DEF a

(* An interval split at a number.                                          *)
LEMMA RangeSplit ==
    ASSUME NEW a \in Nat, NEW b \in Nat
    PROVE  \A i \in 1..(b - 1) : i \in 1..(a - 1) \/ i \in a..(b - 1)
  OBVIOUS

(* The empty sequence holds nothing and is in order.                       *)
LEMMA EmptyFacts ==
    /\ <<>> \in Seq(Positions) /\ Ascending(<<>>) /\ ToSet(<<>>) = {}
    /\ \A s, n : Precedes(s, <<>>) /\ Precedes(<<>>, s) /\ Below(<<>>, n)
    /\ \A s \in Seq(Positions) : s \o <<>> = s /\ <<>> \o s = s
  BY DEF Ascending, ToSet, Precedes, Below

SinkInv == SinkTypeOK /\ OrderInv /\ NoBloopLost

(* flush moves the buffer to the batch, or finds it empty; the rest of the  *)
(* invariant is about neither.                                              *)
LEMMA FlushStep ==
    ASSUME SinkTypeOK, pc = "select", NEW bs \in Seq(Positions), NEW n,
           Ascending(bs), Precedes(stored, bs), Below(bs, n),
           StartFlush(bs) \/ (buffer' = bs /\ UNCHANGED <<batch, pc>>),
           bs = <<>> => buffer = <<>>
    PROVE  /\ buffer' \in Seq(Positions) /\ batch' \in Seq(Positions)
           /\ pc' \in {"select", "persist"}
           /\ pc' = "persist" <=> batch' # <<>>
           /\ batch' # <<>> => buffer' = <<>>
           /\ Ascending(batch') /\ Ascending(buffer')
           /\ Precedes(stored, batch') /\ Precedes(stored, buffer')
           /\ Below(batch', n) /\ Below(buffer', n)
           /\ ToSet(buffer') \cup ToSet(batch') = ToSet(bs)
<1>1. batch = <<>>
  BY DEF SinkTypeOK
<1>2. CASE bs = <<>> \/ (buffer' = bs /\ UNCHANGED <<batch, pc>>)
  <2>1. buffer' = bs /\ batch' = <<>> /\ pc' = "select"
    BY <1>1, <1>2 DEF StartFlush
  <2> QED BY <2>1, EmptyFacts
<1>3. CASE bs # <<>> /\ buffer' = <<>> /\ batch' = bs /\ pc' = "persist"
  BY <1>3, EmptyFacts
<1> QED BY <1>2, <1>3 DEF StartFlush

(* The invariant holds initially.                                          *)
LEMMA SinkInitInv == SinkInit => SinkInv
<1> SUFFICES ASSUME SinkInit PROVE SinkInv
  OBVIOUS
<1>1. SinkTypeOK
  <2>1. log \in Seq(BOOLEAN) /\ Len(log) = 0
    BY DEF SinkInit
  <2>2. 0 <= MaxEvents /\ 1 \in 1..(MaxEvents + 1)
    BY SinkAssumption
  <2> QED BY <2>1, <2>2, EmptyFacts DEF SinkInit, SinkTypeOK
<1>2. OrderInv
  BY EmptyFacts DEF SinkInit, OrderInv
<1>3. NoBloopLost
  BY DEF SinkInit, NoBloopLost
<1> QED BY <1>1, <1>2, <1>3 DEF SinkInv

(* What every receive has in common: the receiver moves on to position      *)
(* next', and the events it passes are in the new buffer bs, are no bloops, *)
(* or are the ones it lagged behind.                                        *)
LEMMA ReceivedKeeps ==
    ASSUME SinkInv, pc = "select", UNCHANGED <<log, closed, failures, stored>>,
           NEW bs \in Seq(Positions), Ascending(bs), Precedes(stored, bs), Below(bs, next'),
           StartFlush(bs) \/ (buffer' = bs /\ UNCHANGED <<batch, pc>>),
           bs = <<>> => buffer = <<>>,
           next' \in next..(Len(log) + 1), missed' \in SUBSET Positions,
           ToSet(buffer) \subseteq ToSet(bs), missed \subseteq missed',
           \A i \in next..(next' - 1) : log[i] => i \in ToSet(bs) \cup missed'
    PROVE  SinkInv'
<1> USE SinkAssumption
<1>1. SinkTypeOK /\ OrderInv /\ NoBloopLost
  BY DEF SinkInv
<1>2. next \in Nat /\ Len(log) \in Nat /\ MaxEvents \in Nat /\ next' \in 1..(MaxEvents + 1)
      /\ next' \in Nat
  BY <1>1 DEF SinkTypeOK
<1>3. /\ buffer' \in Seq(Positions) /\ batch' \in Seq(Positions)
      /\ pc' \in {"select", "persist"}
      /\ pc' = "persist" <=> batch' # <<>>
      /\ batch' # <<>> => buffer' = <<>>
      /\ Ascending(batch') /\ Ascending(buffer')
      /\ Precedes(stored, batch') /\ Precedes(stored, buffer')
      /\ Below(batch', next') /\ Below(buffer', next')
      /\ ToSet(buffer') \cup ToSet(batch') = ToSet(bs)
  BY <1>1, FlushStep
<1>4. SinkTypeOK'
  BY <1>1, <1>2, <1>3 DEF SinkTypeOK
<1>5. Below(stored, next')
  <2>1. \A i \in DOMAIN stored : stored[i] \in Nat
    BY <1>1 DEF SinkTypeOK, Positions
  <2> QED BY <1>1, <1>2, <2>1 DEF OrderInv, Below
<1>6. OrderInv'
  BY <1>1, <1>2, <1>3, <1>5 DEF OrderInv
<1>7. NoBloopLost'
  <2> SUFFICES ASSUME NEW i \in 1..(next' - 1), log[i]
               PROVE  i \in ToSet(bs) \cup ToSet(stored) \cup missed'
    BY <1>3 DEF NoBloopLost, Held
  <2>1. CASE i \in 1..(next - 1)
    <3>1. ToSet(batch) = {}
      BY <1>1, EmptyFacts DEF SinkTypeOK
    <3> QED BY <1>1, <2>1, <3>1 DEF NoBloopLost, Held
  <2>2. CASE i \in next..(next' - 1)
    BY <2>2
  <2>3. i \in 1..(next - 1) \/ i \in next..(next' - 1)
    BY <1>2, RangeSplit
  <2> QED BY <2>1, <2>2, <2>3
<1> QED BY <1>4, <1>6, <1>7 DEF SinkInv

(* Receiving keeps the invariant.                                           *)
LEMMA ReceiveStep ==
    ASSUME SinkInv, FlushTick \/ HandleBloop \/ HandleOther \/ HandleLagged
    PROVE  SinkInv'
<1> USE SinkAssumption
<1>1. /\ SinkTypeOK /\ OrderInv /\ pc = "select"
      /\ UNCHANGED <<log, closed, failures, stored>>
  BY DEF SinkInv, FlushTick, HandleBloop, HandleOther, HandleLagged
<1>2. /\ next \in 1..(Len(log) + 1) /\ Len(log) \in 0..MaxEvents
      /\ Capacity \in Nat \ {0} /\ MaxEvents \in Nat
      /\ missed \in SUBSET Positions /\ buffer \in Seq(Positions) /\ stored \in Seq(Positions)
      /\ Ascending(buffer) /\ Precedes(stored, buffer) /\ Below(buffer, next)
      /\ Below(stored, next)
      /\ \A i \in DOMAIN buffer : buffer[i] \in Nat
  BY <1>1 DEF SinkTypeOK, OrderInv, Positions
<1>3. CASE FlushTick
  <2>1. next' = next /\ missed' = missed /\ StartFlush(buffer)
    BY <1>3 DEF FlushTick
  <2>2. next' \in next..(Len(log) + 1) /\ next..(next' - 1) = {}
    BY <1>2, <2>1
  <2> QED BY <1>1, <1>2, <2>1, <2>2, ReceivedKeeps
<1>4. CASE HandleOther
  <2>1. /\ next' = next + 1 /\ missed' = missed /\ UNCHANGED <<buffer, batch, pc>>
        /\ next <= Len(log) /\ ~log[next]
    BY <1>2, <1>4 DEF HandleOther, Oldest
  <2>2. next' \in next..(Len(log) + 1) /\ next..(next' - 1) = {next}
    BY <1>2, <2>1
  <2>3. Below(buffer, next')
    BY <1>2, <2>1 DEF Below
  <2> QED BY <1>1, <1>2, <2>1, <2>2, <2>3, ReceivedKeeps
<1>5. CASE HandleLagged
  <2>1. /\ Oldest \in 1..(Len(log) + 1) /\ next < Oldest /\ next' = Oldest
        /\ missed' = missed \cup {i \in next..(Oldest - 1) : log[i]}
        /\ StartFlush(buffer)
    BY <1>2, <1>5 DEF HandleLagged, Oldest
  <2>2. next' \in next..(Len(log) + 1) /\ Oldest <= MaxEvents + 1
    BY <1>2, <2>1
  <2>4. missed' \in SUBSET Positions
    <3>1. next..(Oldest - 1) \subseteq Positions
      BY <1>2, <2>1, <2>2 DEF Positions
    <3> QED BY <1>2, <2>1, <3>1
  <2>3. Below(buffer, next')
    BY <1>2, <2>1 DEF Below
  <2> QED BY <1>1, <1>2, <2>1, <2>2, <2>3, <2>4, ReceivedKeeps
<1>6. CASE HandleBloop
  <2> DEFINE bs == Append(buffer, next)
  <2>1. /\ next' = next + 1 /\ missed' = missed /\ next <= Len(log)
        /\ StartFlush(bs) \/ (buffer' = bs /\ UNCHANGED <<batch, pc>>)
    BY <1>2, <1>6 DEF HandleBloop, Oldest
  <2>2. next \in Positions /\ next' \in next..(Len(log) + 1) /\ next..(next' - 1) = {next}
    BY <1>2, <2>1 DEF Positions
  <2>3. /\ bs \in Seq(Positions) /\ bs # <<>> /\ Ascending(bs) /\ Below(bs, next')
        /\ Precedes(stored, bs) /\ ToSet(bs) = ToSet(buffer) \cup {next}
    BY <1>2, <2>1, <2>2, AppendFacts
  <2> HIDE DEF bs
  <2> QED BY <1>1, <1>2, <2>1, <2>2, <2>3, ReceivedKeeps
<1> QED BY <1>3, <1>4, <1>5, <1>6

(* The end of persist_batch: the batch moves behind what is stored, goes    *)
(* back to the empty buffer, or is dropped by a shutdown.                   *)
LEMMA PersistStep ==
    ASSUME SinkInv, PersistOk \/ PersistErr \/ SinkShutdown
    PROVE  SinkInv'
<1>1. SinkTypeOK /\ OrderInv /\ NoBloopLost /\ UNCHANGED <<log, closed, next, missed>>
      /\ batch' = <<>> /\ pc' \in {"select", "final", "done"}
  BY DEF SinkInv, PersistOk, PersistErr, SinkShutdown
<1>2. /\ batch \in Seq(Positions) /\ buffer \in Seq(Positions) /\ stored \in Seq(Positions)
      /\ batch # <<>> => buffer = <<>>
      /\ failures \in Nat
  BY <1>1 DEF SinkTypeOK
<1>3. /\ Ascending(stored) /\ Ascending(batch) /\ Ascending(buffer)
      /\ Precedes(stored, batch) /\ Precedes(stored, buffer)
      /\ Below(stored, next) /\ Below(batch, next) /\ Below(buffer, next)
  BY <1>1 DEF OrderInv
<1>4. /\ stored \o batch \in Seq(Positions)
      /\ Ascending(stored \o batch) /\ Below(stored \o batch, next)
      /\ Precedes(stored \o batch, buffer)
      /\ ToSet(stored \o batch) = ToSet(stored) \cup ToSet(batch)
  <2>1. batch = <<>> \/ Precedes(batch, buffer)
    BY <1>2, EmptyFacts
  <2>2. Precedes(stored \o batch, buffer)
    BY <1>2, <1>3, <2>1, EmptyFacts, ConcatBounds
  <2> QED BY <1>2, <1>3, <2>2, ConcatFacts, ConcatAscending, ConcatBounds, ConcatSet
<1>5. /\ failures' \in Nat
      /\ \/ stored' = stored \o batch /\ buffer' = buffer
         \/ stored' = stored /\ buffer' = batch /\ buffer = <<>>
         \/ stored' = stored /\ buffer' = buffer /\ pc' = "final"
  <2>1. CASE PersistOk
    BY <1>2, <2>1 DEF PersistOk
  <2>2. CASE SinkShutdown
    BY <1>2, <2>2 DEF SinkShutdown
  <2>3. CASE PersistErr
    <3>1. batch # <<>>
      BY <1>1, <2>3 DEF PersistErr, SinkTypeOK
    <3> QED BY <1>2, <2>3, <3>1, EmptyFacts DEF PersistErr
  <2> QED BY <2>1, <2>2, <2>3
<1>6. stored' \in Seq(Positions) /\ buffer' \in Seq(Positions)
  BY <1>2, <1>4, <1>5
<1>7. SinkTypeOK'
  BY <1>1, <1>5, <1>6 DEF SinkTypeOK
<1>8. OrderInv'
  BY <1>1, <1>3, <1>4, <1>5, EmptyFacts DEF OrderInv
<1>9. NoBloopLost'
  <2> SUFFICES ASSUME pc' = "select"
               PROVE  \A i \in 1..(next - 1) :
                        log[i] => i \in Held' \cup ToSet(stored') \cup missed
    BY <1>1 DEF NoBloopLost
  <2>1. pc \in {"select", "persist"}
    BY DEF PersistOk, PersistErr, SinkShutdown
  <2>2. Held \cup ToSet(stored) \subseteq Held' \cup ToSet(stored')
    BY <1>1, <1>4, <1>5, EmptyFacts DEF Held
  <2> QED BY <1>1, <2>1, <2>2 DEF NoBloopLost
<1> QED BY <1>7, <1>8, <1>9 DEF SinkInv

(* Every step of the sink and of the channel keeps the invariant.           *)
LEMMA SinkInvStep == SinkInv /\ [SinkNext]_sinkVars => SinkInv'
<1> SUFFICES ASSUME SinkInv, [SinkNext]_sinkVars PROVE SinkInv'
  OBVIOUS
<1>1. SinkTypeOK /\ OrderInv /\ NoBloopLost
  BY DEF SinkInv
<1>2. CASE SendEvent
  <2>1. PICK isBloop \in BOOLEAN : log' = Append(log, isBloop)
    BY <1>2 DEF SendEvent
  <2>2. /\ Len(log) < MaxEvents /\ UNCHANGED <<closed, next, buffer, batch, pc, failures, stored, missed>>
    BY <1>2 DEF SendEvent
  <2>3. /\ log' \in Seq(BOOLEAN) /\ Len(log') = Len(log) + 1 /\ Len(log) \in Nat
        /\ \A i \in 1..Len(log) : log'[i] = log[i]
    BY <1>1, <2>1 DEF SinkTypeOK
  <2>4. SinkTypeOK'
    BY <1>1, <2>2, <2>3, SinkAssumption DEF SinkTypeOK
  <2>5. next \in Nat /\ next <= Len(log) + 1
    BY <1>1, SinkAssumption DEF SinkTypeOK, OrderInv
  <2>6. next <= Len(log') + 1
    BY <2>3, <2>5
  <2>7. OrderInv'
    BY <1>1, <2>2, <2>6 DEF OrderInv
  <2>8. \A i \in 1..(next - 1) : log'[i] = log[i]
    BY <2>3, <2>5
  <2>9. NoBloopLost'
    BY <1>1, <2>2, <2>8 DEF NoBloopLost, Held
  <2> QED BY <2>4, <2>7, <2>9 DEF SinkInv
<1>3. CASE CloseChannel
  BY <1>1, <1>3 DEF CloseChannel, SinkInv, SinkTypeOK, OrderInv, NoBloopLost, Held
<1>4. CASE FlushTick \/ HandleBloop \/ HandleOther \/ HandleLagged
  BY <1>4, ReceiveStep
<1>5. CASE HandleClosed
  BY <1>1, <1>5 DEF HandleClosed, SinkInv, SinkTypeOK, OrderInv, NoBloopLost
<1>6. CASE PersistOk \/ PersistErr \/ SinkShutdown
  BY <1>6, PersistStep
<1>7. CASE FinalFlush
  <2>1. batch = <<>> /\ pc = "final" /\ UNCHANGED <<log, closed, next, failures, stored, missed>>
    BY <1>1, <1>7 DEF FinalFlush, SinkTypeOK
  <2>2. CASE buffer = <<>>
    BY <1>1, <1>7, <2>1, <2>2 DEF FinalFlush, SinkInv, SinkTypeOK, OrderInv, NoBloopLost
  <2>3. CASE buffer # <<>>
    <3>1. pc' = "finalPersist" /\ batch' = buffer /\ buffer' = <<>>
      BY <1>7, <2>3 DEF FinalFlush
    <3>2. SinkTypeOK'
      BY <1>1, <2>1, <2>3, <3>1, EmptyFacts DEF SinkTypeOK
    <3>3. OrderInv'
      BY <1>1, <2>1, <3>1, EmptyFacts DEF OrderInv
    <3> QED BY <3>1, <3>2, <3>3 DEF SinkInv, NoBloopLost
  <2> QED BY <2>2, <2>3
<1>8. CASE UNCHANGED sinkVars
  BY <1>1, <1>8 DEF sinkVars, SinkInv, SinkTypeOK, OrderInv, NoBloopLost, Held
<1> QED BY <1>2, <1>3, <1>4, <1>5, <1>6, <1>7, <1>8 DEF SinkNext, SinkStep

(* The sink's variables stay in their types, and a batch exists exactly     *)
(* while it is being written.                                               *)
THEOREM SinkTypes == SinkSpec => []SinkTypeOK
<1>1. SinkInv => SinkTypeOK
  BY DEF SinkInv
<1> QED BY <1>1, SinkInitInv, SinkInvStep, PTL DEF SinkSpec

(* Until the sink is told to stop no bloop it received is lost, whatever    *)
(* writes fail and however far the receiver lags.                           *)
THEOREM ReceivedBloopsAreKept == SinkSpec => []NoBloopLost
<1>1. SinkInv => NoBloopLost
  BY DEF SinkInv
<1> QED BY <1>1, SinkInitInv, SinkInvStep, PTL DEF SinkSpec

(* The repository gets each bloop at most once and in the order in which    *)
(* they were processed, through failed writes and an interrupted one.       *)
THEOREM BloopsAreStoredInOrder == SinkSpec => []StoredInOrder
<1>1. SinkInv => StoredInOrder
  BY DEF SinkInv, OrderInv, Ascending, StoredInOrder
<1> QED BY <1>1, SinkInitInv, SinkInvStep, PTL DEF SinkSpec
=============================================================================
