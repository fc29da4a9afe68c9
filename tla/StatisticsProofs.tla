-------------------------- MODULE StatisticsProofs --------------------------
(* What the read guard of the tracker is good for: the numbers served never *)
(* go down, they miss no bloop older than a minute, and the counters behind *)
(* them are the history's, for any number of readers, clients, bloops and   *)
(* days.                                                                    *)
EXTENDS Statistics, CountingLemmas, TLAPS

(* The variables are functions on their index sets, and totals numbers.     *)
ShapeOK ==
    /\ DOMAIN stats = Clients
    /\ DOMAIN stage = Readers /\ DOMAIN computed = Readers /\ DOMAIN asked = Readers
    /\ \A c \in Clients : stats[c].total \in Nat

(* A reader about to store its snapshot has computed the present totals:    *)
(* nobody counts while it holds the guard.                                  *)
ComputedIsCurrent ==
    \A r \in Readers : stage[r] = "store" =>
        \A c \in Clients : computed[r].clients[c].total = stats[c].total

(* What is cached is no more than what was counted ...                      *)
CacheBehindStats ==
    cache # None =>
        \A c \in Clients : cache.clients[c].total \in Nat /\ cache.clients[c].total <= stats[c].total

(* ... and what was served no more than what is cached.                     *)
ServedBehindCache ==
    served # None =>
        \A c \in Clients :
            /\ served.totals[c] \in Nat /\ cache.clients[c].total \in Nat
            /\ served.totals[c] <= cache.clients[c].total
            /\ cache.clients[c].total <= stats[c].total

StatInv == ShapeOK /\ ComputedIsCurrent /\ CacheBehindStats /\ ServedBehindCache

(* A snapshot holds the totals there are when it is computed.               *)
LEMMA SnapshotTotals ==
    ASSUME NEW t, NEW c \in Clients
    PROVE  Snapshot(t).clients[c].total = stats[c].total
  BY DEF Snapshot, Summary

(* Recording a bloop only raises totals.                                    *)
LEMMA RecordBloopStep ==
    ASSUME StatInv, RecordBloop
    PROVE  StatInv'
<1>1. \A r \in Readers : stage[r] # "store"
  BY DEF RecordBloop, Holding
<1>2. \A c \in Clients : stats'[c].total \in Nat /\ stats[c].total \in Nat
                         /\ stats'[c].total >= stats[c].total
  <2> SUFFICES ASSUME NEW c \in Clients
               PROVE  stats'[c].total \in Nat /\ stats'[c].total >= stats[c].total
    BY DEF StatInv, ShapeOK
  <2>1. stats[c].total \in Nat
    BY DEF StatInv, ShapeOK
  <2>2. Recorded(stats[c], bloop.at).total = stats[c].total + 1
    BY DEF Recorded
  <2>3. stats'[c] = stats[c] \/ stats'[c] = Recorded(stats[c], bloop.at)
    BY DEF RecordBloop, StatInv, ShapeOK
  <2> QED BY <2>1, <2>2, <2>3
<1>3. ShapeOK'
  BY <1>2 DEF RecordBloop, StatInv, ShapeOK, readerVars
<1>4. ComputedIsCurrent'
  BY <1>1 DEF RecordBloop, ComputedIsCurrent, readerVars
<1>5. CacheBehindStats'
  BY <1>2 DEF RecordBloop, StatInv, CacheBehindStats, readerVars
<1>6. ServedBehindCache'
  BY <1>2 DEF RecordBloop, StatInv, ServedBehindCache, readerVars
<1> QED BY <1>3, <1>4, <1>5, <1>6 DEF StatInv

(* Serving from the cache, or computing a snapshot.                         *)
LEMMA PeekStep ==
    ASSUME StatInv, NEW r \in Readers, Peek(r)
    PROVE  StatInv'
<1>1. CASE cache # None /\ IsFresh(cache, asked[r])
  <2>1. /\ stage' = [stage EXCEPT ![r] = "idle"] /\ asked' = [asked EXCEPT ![r] = 0]
        /\ UNCHANGED <<computed, stats, cache>>
        /\ \A c \in Clients : served'.totals[c] = cache.clients[c].total
    BY <1>1 DEF Peek, Serve, serverVars
  <2>2. ShapeOK' /\ ComputedIsCurrent' /\ CacheBehindStats'
    BY <2>1 DEF StatInv, ShapeOK, ComputedIsCurrent, CacheBehindStats
  <2>3. ServedBehindCache'
    BY <1>1, <2>1 DEF StatInv, ShapeOK, CacheBehindStats, ServedBehindCache
  <2> QED BY <2>2, <2>3 DEF StatInv
<1>2. CASE ~(cache # None /\ IsFresh(cache, asked[r]))
  <2>1. /\ stage' = [stage EXCEPT ![r] = "store"]
        /\ computed' = [computed EXCEPT ![r] = Snapshot(asked[r])]
        /\ UNCHANGED <<asked, served, stats, cache>>
    BY <1>2 DEF Peek, serverVars
  <2>2. ShapeOK' /\ CacheBehindStats' /\ ServedBehindCache'
    BY <2>1 DEF StatInv, ShapeOK, CacheBehindStats, ServedBehindCache
  <2>3. ComputedIsCurrent'
    <3> SUFFICES ASSUME NEW q \in Readers, stage'[q] = "store", NEW c \in Clients
                 PROVE  computed'[q].clients[c].total = stats'[c].total
      BY DEF ComputedIsCurrent
    <3>1. CASE q = r
      <4>1. computed'[q] = Snapshot(asked[r])
        BY <2>1, <3>1 DEF StatInv, ShapeOK
      <4> QED BY <2>1, <4>1, SnapshotTotals
    <3>2. CASE q # r
      BY <2>1, <3>2 DEF StatInv, ShapeOK, ComputedIsCurrent
    <3> QED BY <3>1, <3>2
  <2> QED BY <2>2, <2>3 DEF StatInv
<1> QED BY <1>1, <1>2

(* Storing a snapshot, possibly over a newer one.                           *)
LEMMA StoreStep ==
    ASSUME StatInv, NEW r \in Readers, Store(r)
    PROVE  StatInv'
<1>1. /\ stage[r] = "store" /\ stage' = [stage EXCEPT ![r] = "idle"]
      /\ asked' = [asked EXCEPT ![r] = 0] /\ computed' = [computed EXCEPT ![r] = None]
      /\ cache' = computed[r] /\ UNCHANGED stats
      /\ \A c \in Clients : served'.totals[c] = computed[r].clients[c].total
  BY DEF Store, Serve, serverVars
<1>2. \A c \in Clients : computed[r].clients[c].total = stats[c].total /\ stats[c].total \in Nat
  BY <1>1 DEF StatInv, ShapeOK, ComputedIsCurrent
<1>3. ShapeOK'
  BY <1>1 DEF StatInv, ShapeOK
<1>4. ComputedIsCurrent'
  BY <1>1 DEF StatInv, ShapeOK, ComputedIsCurrent
<1>5. CacheBehindStats' /\ ServedBehindCache'
  BY <1>1, <1>2 DEF CacheBehindStats, ServedBehindCache
<1> QED BY <1>3, <1>4, <1>5 DEF StatInv

(* Every step keeps the invariant.                                          *)
LEMMA StatInvStep ==
    ASSUME StatInv, [StatNext]_statVars
    PROVE  StatInv'
<1>1. CASE Passes \/ Publish \/ ReceiveBloop \/ StopServer \/ UNCHANGED statVars
  <2>1. UNCHANGED <<stats, cache, stage, asked, computed, served>>
    BY <1>1 DEF Passes, Publish, ReceiveBloop, StopServer, statVars, serverVars, readerVars
  <2> QED BY <2>1 DEF StatInv, ShapeOK, ComputedIsCurrent, CacheBehindStats, ServedBehindCache
<1>2. CASE RecordBloop
  BY <1>2, RecordBloopStep
<1>3. ASSUME NEW r \in Readers, AcceptConnection(r) \/ Request(r) \/ LockStats(r)
      PROVE  StatInv'
  <2>1. /\ UNCHANGED <<stats, cache, computed, served>>
        /\ \E s \in {"idle", "lock", "peek"} : stage' = [stage EXCEPT ![r] = s]
        /\ asked' = asked \/ asked' = [asked EXCEPT ![r] = now]
    BY <1>3 DEF AcceptConnection, Request, LockStats, serverVars
  <2>2. ShapeOK' /\ ComputedIsCurrent'
    BY <2>1 DEF StatInv, ShapeOK, ComputedIsCurrent
  <2> QED BY <2>1, <2>2 DEF StatInv, CacheBehindStats, ServedBehindCache
<1>4. ASSUME NEW r \in Readers, CloseConnection(r)
      PROVE  StatInv'
  <2>1. /\ UNCHANGED <<stats, cache, served>>
        /\ stage' = [stage EXCEPT ![r] = "none"]
        /\ asked' = [asked EXCEPT ![r] = 0]
        /\ computed' = [computed EXCEPT ![r] = None]
    BY <1>4 DEF CloseConnection, serverVars
  <2>2. ShapeOK' /\ ComputedIsCurrent'
    BY <2>1 DEF StatInv, ShapeOK, ComputedIsCurrent
  <2> QED BY <2>1, <2>2 DEF StatInv, CacheBehindStats, ServedBehindCache
<1> QED BY <1>1, <1>2, <1>3, <1>4, PeekStep, StoreStep DEF StatNext

(* Numbers served never go down, although readers store snapshots in        *)
(* another order than they computed them and serve cached ones.             *)
THEOREM ServedNumbersNeverDecrease == StatSpec => TotalsNeverDecrease
<1>1. StatInit => StatInv
  BY DEF StatInit, StatInv, ShapeOK, ComputedIsCurrent, CacheBehindStats, ServedBehindCache, NewStats
<1>2. StatInv /\ [StatNext]_statVars => StatInv'
  BY StatInvStep
<1>3. StatInv /\ [StatNext]_statVars =>
        [served # None => \A c \in Clients : served'.totals[c] >= served.totals[c]]_statVars
  <2> SUFFICES ASSUME StatInv, [StatNext]_statVars, served # None, NEW c \in Clients
               PROVE  served'.totals[c] >= served.totals[c]
    OBVIOUS
  <2>1. CASE UNCHANGED served
    BY <2>1 DEF StatInv, ServedBehindCache
  <2>2. ASSUME NEW r \in Readers, Peek(r), ~UNCHANGED served
        PROVE  served'.totals[c] = cache.clients[c].total
    BY <2>2 DEF Peek, Serve
  <2>3. ASSUME NEW r \in Readers, Store(r)
        PROVE  served'.totals[c] = stats[c].total
    BY <2>3 DEF Store, Serve, StatInv, ComputedIsCurrent
  <2>4. CASE ~UNCHANGED served
    <3>1. \E r \in Readers : Peek(r) \/ Store(r)
      BY <2>4 DEF StatNext, Passes, Publish, ReceiveBloop, RecordBloop, StopServer, AcceptConnection,
         Request, LockStats, CloseConnection, statVars, readerVars
    <3>2. served'.totals[c] = cache.clients[c].total \/ served'.totals[c] = stats[c].total
      BY <2>2, <2>3, <2>4, <3>1
    <3> QED BY <3>2 DEF StatInv, ShapeOK, ServedBehindCache
  <2> QED BY <2>1, <2>4
<1> QED BY <1>1, <1>2, <1>3, PTL DEF StatSpec, TotalsNeverDecrease

-----------------------------------------------------------------------------
Slots == 0..(MinutesInDay - 1)

(* The slot and the day of a minute determine it.                           *)
LEMMA MinuteParts ==
    ASSUME NEW m \in Int
    PROVE  /\ DateOf(m) \in Int /\ IndexOf(m) \in Slots /\ m = (DateOf(m) * MinutesInDay) + IndexOf(m)
           /\ m \in Nat => DateOf(m) \in Nat
  BY DivMod, StatisticsAssumption DEF DateOf, IndexOf, Slots

(* ... and any slot of any day is a minute's.                               *)
LEMMA MinuteOfParts ==
    ASSUME NEW d \in Int, NEW i \in Slots
    PROVE  DateOf((d * MinutesInDay) + i) = d /\ IndexOf((d * MinutesInDay) + i) = i
<1> DEFINE m == (d * MinutesInDay) + i
<1>1. MinutesInDay \in Nat \ {0} /\ m \in Int
  BY StatisticsAssumption DEF Slots
<1>2. DateOf(m) \in Int /\ IndexOf(m) \in Slots /\ (DateOf(m) * MinutesInDay) + IndexOf(m) = (d * MinutesInDay) + i
  BY <1>1, MinuteParts
<1> HIDE DEF m
<1> QED BY <1>1, <1>2, DivModUnique DEF Slots, m

(* The minute, hour and day of a time.                                      *)
LEMMA TimeParts ==
    ASSUME NEW t \in 0..MaxTime
    PROVE  /\ MinuteOf(t) \in Nat /\ LocalHour(t) \in Hours /\ LocalDate(t) \in Days
           /\ \A u \in 0..MaxTime : u <= t => MinuteOf(u) <= MinuteOf(t)
<1> USE StatisticsAssumption
<1>1. t \in Nat /\ MinuteOf(t) \in Nat
  BY DivMod DEF MinuteOf
<1>2. \A u \in 0..MaxTime : u <= t => MinuteOf(u) <= MinuteOf(t)
  BY <1>1, DivMonotone DEF MinuteOf
<1>3. LocalDate(t) \in Days
  <2>1. t + TzOffset \in Nat /\ MaxTime + TzOffset \in Nat /\ t + TzOffset <= MaxTime + TzOffset
    BY <1>1
  <2> DEFINE u == MinuteOf(t + TzOffset)
  <2> DEFINE v == MinuteOf(MaxTime + TzOffset)
  <2>2. u \in Nat /\ v \in Nat /\ u <= v
    BY <2>1, DivMod, DivMonotone DEF MinuteOf
  <2> HIDE DEF u, v
  <2>3. DateOf(u) \in Nat /\ DateOf(v) \in Nat /\ DateOf(u) <= DateOf(v)
    BY <2>2, DivMod, DivMonotone DEF DateOf
  <2> QED BY <2>3 DEF LocalDate, Days, u, v
<1>4. LocalHour(t) \in Hours
  <2> DEFINE i == IndexOf(MinuteOf(t + TzOffset))
  <2> DEFINE q == i \div MinutesInHour
  <2> DEFINE p == MinutesInDay \div MinutesInHour
  <2>1. t + TzOffset \in Nat
    BY <1>1
  <2>2. i \in 0..(MinutesInDay - 1)
    BY <2>1, DivMod, MinuteParts DEF MinuteOf, Slots
  <2> HIDE DEF i
  <2>3. q \in Nat /\ i = (q * MinutesInHour) + (i % MinutesInHour) /\ i % MinutesInHour \in Nat
    BY <2>2, DivMod
  <2>4. p \in Nat /\ MinutesInDay = p * MinutesInHour
    BY DivMod
  <2> HIDE DEF q, p
  <2>5. ASSUME p <= q PROVE FALSE
    <3>1. p * MinutesInHour <= q * MinutesInHour
      BY <2>3, <2>4, <2>5
    <3>2. p * MinutesInHour \in Nat /\ q * MinutesInHour \in Nat
      BY <2>3, <2>4
    <3> QED BY <2>2, <2>3, <2>4, <3>1, <3>2
  <2>6. q \in 0..(p - 1)
    BY <2>3, <2>4, <2>5
  <2> QED BY <2>6 DEF LocalHour, Hours, i, q, p
<1> QED BY <1>1, <1>2, <1>3, <1>4

(* The slot count_last_minutes reads for the minute i before m is the slot  *)
(* of that minute.                                                          *)
LEMMA WindowSlot ==
    ASSUME NEW m \in Nat, NEW i \in Slots
    PROVE  /\ (IndexOf(m) + MinutesInDay - i) % MinutesInDay = IndexOf(m - i)
           /\ DateOf(m - i) >= -1
<1> DEFINE n == MinutesInDay
<1> DEFINE D == DateOf(m)
<1> DEFINE d == DateOf(m - i)
<1> DEFINE x == IndexOf(m)
<1> DEFINE y == IndexOf(m - i)
<1> DEFINE a == x + n - i
<1>1. /\ n \in Nat \ {0} /\ i \in 0..(n - 1) /\ m - i \in Int
      /\ D \in Nat /\ x \in 0..(n - 1) /\ m = (D * n) + x
      /\ d \in Int /\ y \in 0..(n - 1) /\ m - i = (d * n) + y
  BY MinuteParts, StatisticsAssumption DEF Slots
<1> HIDE DEF n, D, d, x, y
<1>2. a \in Int
  BY <1>1
<1>3. D * n \in Int /\ d * n \in Int /\ (d - D + 1) * n = (d * n) - (D * n) + n
  BY <1>1
<1>4. a = ((d - D + 1) * n) + y
  BY <1>1, <1>3
<1>5. a % n = y
  <2> DEFINE q == a \div n
  <2> DEFINE r == a % n
  <2> DEFINE k == d - D + 1
  <2> HIDE DEF a
  <2>1. q \in Int /\ r \in 0..(n - 1) /\ a = (q * n) + r
    BY <1>1, <1>2, DivMod
  <2>2. k \in Int /\ a = (k * n) + y
    BY <1>1, <1>4
  <2> HIDE DEF q, r, k
  <2>3. n \in Nat \ {0} /\ y \in 0..(n - 1)
    BY <1>1
  <2>4. (q * n) + r = (k * n) + y
    BY <2>1, <2>2
  <2>5. r = y
    BY <2>1, <2>2, <2>3, <2>4, DivModUnique, Zenon
  <2> QED BY <2>5 DEF r
<1>6. ASSUME d + 1 <= -1 PROVE FALSE
  <2>1. (d + 1) * n <= (-1) * n
    BY <1>1, <1>6
  <2>2. (d + 1) * n = (d * n) + n
    BY <1>1
  <2> QED BY <1>1, <1>3, <2>1, <2>2
<1>7. d >= -1
  BY <1>1, <1>6
<1> QED BY <1>5, <1>7 DEF n, x, y, d

-----------------------------------------------------------------------------
Entry == [client: Clients, at: 0..MaxTime]
HandledBloop == [bloop: Entry, when: 0..MaxTime]
ClientStats ==
    [total: Nat, counts: [Slots -> Nat], dates: [Slots -> Int],
     perHour: [Hours -> Nat], perDay: [Days -> Nat]]

CountTypes ==
    /\ now \in 0..MaxTime
    /\ queue \in Seq(Entry)
    /\ server = "lock" => bloop \in Entry
    /\ handled \in Seq(HandledBloop)
    /\ stats \in [Clients -> ClientStats]

(* Bloops are counted in the order they were recorded in, also across those *)
(* the channel has lost.                                                    *)
CountOrder ==
    /\ \A i \in DOMAIN queue : queue[i].at <= now
    /\ \A i, j \in DOMAIN queue : i < j => queue[i].at <= queue[j].at
    /\ \A k \in DOMAIN handled :
        /\ handled[k].when <= now /\ handled[k].bloop.at <= now
        /\ \A i \in DOMAIN queue : handled[k].bloop.at <= queue[i].at
    /\ server = "lock" =>
        /\ bloop.at <= now
        /\ \A i \in DOMAIN queue : bloop.at <= queue[i].at
        /\ \A k \in DOMAIN handled : handled[k].bloop.at <= bloop.at

(* The bloops of a client, those of an hour, a day and a minute, and those  *)
(* counted before t.                                                        *)
OfClient(c) == {b \in HandledBloop : b.bloop.client = c}
InHour(c, h) == {b \in OfClient(c) : LocalHour(b.bloop.at) = h}
OnDay(c, d) == {b \in OfClient(c) : LocalDate(b.bloop.at) = d}
AtMinute(c, m) == {b \in OfClient(c) : MinuteOf(b.bloop.at) = m}
Before(c, t) == {b \in OfClient(c) : b.when < t}

Count(S) == Cardinality(Entries(handled, S))
Saturated(n) == IF n < U8Max THEN n ELSE U8Max

Counted(c) ==
    /\ stats[c].total = Count(OfClient(c))
    /\ \A h \in Hours : stats[c].perHour[h] = Count(InHour(c, h))
    /\ \A d \in Days : stats[c].perDay[d] = Count(OnDay(c, d))

(* A slot of the ring that was written holds the count of the latest minute *)
(* with its index in which the client had a bloop.                          *)
SlotOK(c, i) ==
    LET d == stats[c].dates[i] IN
    /\ d # MinDate =>
        /\ d \in Nat
        /\ stats[c].counts[i] = Saturated(Count(AtMinute(c, (d * MinutesInDay) + i)))
        /\ \E k \in DOMAIN handled : handled[k] \in AtMinute(c, (d * MinutesInDay) + i)
    /\ \A k \in DOMAIN handled :
        handled[k] \in OfClient(c) /\ IndexOf(MinuteOf(handled[k].bloop.at)) = i
            => DateOf(MinuteOf(handled[k].bloop.at)) <= d /\ d # MinDate

CountInv ==
    /\ CountTypes /\ CountOrder
    /\ \A c \in Clients : Counted(c) /\ \A i \in Slots : SlotOK(c, i)

(* A bloop counts in the set it belongs to.                                 *)
LEMMA CountStep ==
    ASSUME handled \in Seq(HandledBloop), NEW e \in HandledBloop, handled' = Append(handled, e), NEW S
    PROVE  /\ Count(S) \in Nat
           /\ e \in S => Count(S)' = Count(S) + 1
           /\ e \notin S => Count(S)' = Count(S)
<1>1. Count(S)' = Cardinality(Entries(handled', S))
  BY DEF Count, Entries
<1> QED BY <1>1, EntriesCounted, AppendCounted DEF Count

(* The entries of the history, one more than before.                        *)
LEMMA HandledMore ==
    ASSUME handled \in Seq(HandledBloop), NEW e \in HandledBloop, handled' = Append(handled, e)
    PROVE  /\ handled' \in Seq(HandledBloop)
           /\ DOMAIN handled \subseteq DOMAIN handled' /\ Len(handled) + 1 \in DOMAIN handled'
           /\ \A k \in DOMAIN handled' : k \in DOMAIN handled \/ k = Len(handled) + 1
           /\ \A k \in DOMAIN handled : handled'[k] = handled[k] /\ handled[k] \in HandledBloop
           /\ handled'[Len(handled) + 1] = e
  OBVIOUS

(* Totals, hours and days of every client after a bloop was counted.        *)
LEMMA RecordedCounts ==
    ASSUME CountInv, RecordBloop, NEW c \in Clients
    PROVE  Counted(c)' /\ stats'[c] \in ClientStats
<1> DEFINE t == bloop.at
<1> DEFINE s == stats[c]
<1> DEFINE e == [bloop |-> bloop, when |-> now]
<1>1. /\ bloop \in Entry /\ t \in 0..MaxTime /\ bloop.client \in Clients
      /\ e \in HandledBloop /\ handled \in Seq(HandledBloop) /\ handled' = Append(handled, e)
  BY DEF CountInv, CountTypes, RecordBloop, Entry, HandledBloop
<1>2. s \in ClientStats /\ stats'[c] = IF c = bloop.client THEN Recorded(s, t) ELSE s
  BY <1>1 DEF CountInv, CountTypes, RecordBloop
<1>3. /\ MinuteOf(t) \in Nat /\ LocalHour(t) \in Hours /\ LocalDate(t) \in Days
      /\ IndexOf(MinuteOf(t)) \in Slots /\ DateOf(MinuteOf(t)) \in Int
  <2>1. MinuteOf(t) \in Nat /\ LocalHour(t) \in Hours /\ LocalDate(t) \in Days
    BY <1>1, TimeParts
  <2> DEFINE m == MinuteOf(t)
  <2>2. m \in Int
    BY <2>1
  <2> HIDE DEF m
  <2>3. IndexOf(m) \in Slots /\ DateOf(m) \in Int
    BY <2>2, MinuteParts
  <2> QED BY <2>1, <2>3 DEF m
<1>4. Counted(c)
  BY DEF CountInv
<1>5. e.bloop = bloop
  OBVIOUS
<1> HIDE DEF s, e
<1>6. CASE c # bloop.client
  <2>1. stats'[c] = s
    BY <1>2, <1>6
  <2>2. \A h : e \notin OfClient(c) /\ e \notin InHour(c, h) /\ e \notin OnDay(c, h)
    BY <1>5, <1>6 DEF OfClient, InHour, OnDay
  <2>3. /\ Count(OfClient(c))' = Count(OfClient(c))
        /\ \A h : Count(InHour(c, h))' = Count(InHour(c, h)) /\ Count(OnDay(c, h))' = Count(OnDay(c, h))
    BY <1>1, <2>2, CountStep
  <2> QED BY <1>2, <1>4, <2>1, <2>3 DEF Counted, s
<1>7. CASE c = bloop.client
  <2>1. /\ stats'[c] = Recorded(s, t)
        /\ s.total \in Nat /\ s.perHour \in [Hours -> Nat] /\ s.perDay \in [Days -> Nat]
        /\ s.counts \in [Slots -> Nat] /\ s.dates \in [Slots -> Int]
    BY <1>2, <1>7 DEF ClientStats
  <2>2. /\ stats'[c].total = s.total + 1
        /\ stats'[c].perHour = [s.perHour EXCEPT ![LocalHour(t)] = s.perHour[LocalHour(t)] + 1]
        /\ stats'[c].perDay = [s.perDay EXCEPT ![LocalDate(t)] = s.perDay[LocalDate(t)] + 1]
    BY <2>1 DEF Recorded
  <2>3. e \in OfClient(c)
    BY <1>1, <1>5, <1>7 DEF OfClient
  <2>4. \A h : /\ e \in InHour(c, h) <=> h = LocalHour(t)
               /\ e \in OnDay(c, h) <=> h = LocalDate(t)
    BY <1>5, <2>3 DEF InHour, OnDay
  <2>5. Count(OfClient(c))' = s.total + 1
    BY <1>1, <1>4, <2>3, CountStep DEF Counted, s
  <2>6. ASSUME NEW h \in Hours PROVE stats'[c].perHour[h] = Count(InHour(c, h))'
    <3>1. s.perHour[h] = Count(InHour(c, h)) /\ s.perHour[h] \in Nat
      BY <1>4, <2>1 DEF Counted, s
    <3>2. CASE h = LocalHour(t)
      <4>1. stats'[c].perHour[h] = s.perHour[h] + 1
        BY <2>1, <2>2, <3>2
      <4>2. Count(InHour(c, h))' = Count(InHour(c, h)) + 1
        BY <1>1, <2>4, <3>2, CountStep
      <4> QED BY <3>1, <4>1, <4>2
    <3>3. CASE h # LocalHour(t)
      <4>1. stats'[c].perHour[h] = s.perHour[h]
        BY <1>3, <2>1, <2>2, <3>3
      <4>2. Count(InHour(c, h))' = Count(InHour(c, h))
        BY <1>1, <2>4, <3>3, CountStep
      <4> QED BY <3>1, <4>1, <4>2
    <3> QED BY <3>2, <3>3
  <2>7. ASSUME NEW d \in Days PROVE stats'[c].perDay[d] = Count(OnDay(c, d))'
    <3>1. s.perDay[d] = Count(OnDay(c, d)) /\ s.perDay[d] \in Nat
      BY <1>4, <2>1 DEF Counted, s
    <3>2. CASE d = LocalDate(t)
      <4>1. stats'[c].perDay[d] = s.perDay[d] + 1
        BY <2>1, <2>2, <3>2
      <4>2. Count(OnDay(c, d))' = Count(OnDay(c, d)) + 1
        BY <1>1, <2>4, <3>2, CountStep
      <4> QED BY <3>1, <4>1, <4>2
    <3>3. CASE d # LocalDate(t)
      <4>1. stats'[c].perDay[d] = s.perDay[d]
        BY <1>3, <2>1, <2>2, <3>3
      <4>2. Count(OnDay(c, d))' = Count(OnDay(c, d))
        BY <1>1, <2>4, <3>3, CountStep
      <4> QED BY <3>1, <4>1, <4>2
    <3> QED BY <3>2, <3>3
  <2>8. Counted(c)'
    BY <2>2, <2>5, <2>6, <2>7 DEF Counted
  <2>9. stats'[c] \in ClientStats
    <3> DEFINE i == IndexOf(MinuteOf(t))
    <3>1. \A n \in Nat : SaturatingAdd(n) \in Nat
      BY DEF SaturatingAdd
    <3>2. s.total + 1 \in Nat /\ s.perHour[LocalHour(t)] + 1 \in Nat /\ s.perDay[LocalDate(t)] + 1 \in Nat
          /\ s.counts[i] \in Nat
      BY <1>3, <2>1
    <3>3. [s.counts EXCEPT ![i] = IF s.dates[i] # DateOf(MinuteOf(t)) THEN 1 ELSE SaturatingAdd(@)]
            \in [Slots -> Nat]
      BY <1>3, <2>1, <3>1, <3>2
    <3>4. /\ [s.dates EXCEPT ![i] = DateOf(MinuteOf(t))] \in [Slots -> Int]
          /\ [s.perHour EXCEPT ![LocalHour(t)] = @ + 1] \in [Hours -> Nat]
          /\ [s.perDay EXCEPT ![LocalDate(t)] = @ + 1] \in [Days -> Nat]
      BY <1>3, <2>1, <3>2
    <3> QED BY <2>1, <3>2, <3>3, <3>4 DEF Recorded, ClientStats
  <2> QED BY <2>8, <2>9
<1> QED BY <1>6, <1>7

(* The minute of a bloop that is counted is not before any counted one.     *)
LEMMA MinuteAfterHandled ==
    ASSUME CountInv, server = "lock", NEW k \in DOMAIN handled
    PROVE  /\ handled[k] \in HandledBloop
           /\ MinuteOf(handled[k].bloop.at) \in Nat /\ MinuteOf(bloop.at) \in Nat
           /\ MinuteOf(handled[k].bloop.at) <= MinuteOf(bloop.at)
           /\ DateOf(MinuteOf(handled[k].bloop.at)) <= DateOf(MinuteOf(bloop.at))
<1> DEFINE u == handled[k].bloop.at
<1> DEFINE t == bloop.at
<1>1. handled[k] \in HandledBloop /\ u \in 0..MaxTime /\ t \in 0..MaxTime /\ u <= t
  <2>1. handled[k] \in HandledBloop /\ bloop \in Entry
    BY DEF CountInv, CountTypes
  <2>2. u \in 0..MaxTime /\ t \in 0..MaxTime
    BY <2>1 DEF HandledBloop, Entry
  <2>3. u <= t
    BY DEF CountInv, CountOrder
  <2> QED BY <2>1, <2>2, <2>3
<1>2. MinuteOf(u) \in Nat /\ MinuteOf(t) \in Nat /\ MinuteOf(u) <= MinuteOf(t)
  BY <1>1, TimeParts
<1> DEFINE v == MinuteOf(u)
<1> DEFINE m == MinuteOf(t)
<1>3. v \in Int /\ m \in Int /\ v <= m
  BY <1>2
<1> HIDE DEF v, m
<1>4. DateOf(v) <= DateOf(m)
  BY <1>3, DivMonotone, StatisticsAssumption DEF DateOf
<1> QED BY <1>1, <1>2, <1>4 DEF v, m

(* A saturating counter counts until it is full.                            *)
LEMMA SaturatedCounts ==
    /\ Saturated(0) = 0 /\ Saturated(1) = 1
    /\ \A n \in Nat : Saturated(n + 1) = SaturatingAdd(Saturated(n))
  BY StatisticsAssumption DEF Saturated, SaturatingAdd

(* Nothing is counted in a set no counted bloop is in.                      *)
LEMMA CountNone ==
    ASSUME NEW S, \A k \in DOMAIN handled : handled[k] \notin S
    PROVE  Count(S) = 0
<1>1. Entries(handled, S) = {}
  BY DEF Entries
<1> QED BY <1>1, FS_EmptySet DEF Count

(* Every slot of the ring after a bloop was counted.                        *)
LEMMA RecordedSlots ==
    ASSUME CountInv, RecordBloop, NEW c \in Clients, NEW i \in Slots
    PROVE  SlotOK(c, i)'
<1> DEFINE t == bloop.at
<1> DEFINE s == stats[c]
<1>1. /\ server = "lock" /\ bloop \in Entry /\ t \in 0..MaxTime /\ bloop.client \in Clients
      /\ handled \in Seq(HandledBloop)
  BY DEF CountInv, CountTypes, RecordBloop, Entry, HandledBloop
<1>2. PICK e \in HandledBloop : e.bloop = bloop /\ handled' = Append(handled, e)
  <2> DEFINE f == [bloop |-> bloop, when |-> now]
  <2>1. f \in HandledBloop /\ f.bloop = bloop /\ handled' = Append(handled, f)
    BY <1>1 DEF CountInv, CountTypes, RecordBloop, HandledBloop
  <2> QED BY <2>1
<1>3. PICK m \in Nat : m = MinuteOf(t)
  BY <1>1, TimeParts
<1>4. PICK d \in Int : d = s.dates[i]
  BY DEF CountInv, CountTypes, ClientStats
<1> DEFINE D == DateOf(m)
<1> DEFINE x == IndexOf(m)
<1>10. /\ s \in ClientStats /\ s.counts[i] \in Nat
       /\ s.counts \in [Slots -> Nat] /\ s.dates \in [Slots -> Int]
       /\ stats'[c] = IF c = bloop.client THEN Recorded(s, t) ELSE s
  BY <1>1 DEF CountInv, CountTypes, RecordBloop, ClientStats
<1>11. MinuteOf(e.bloop.at) = m
  BY <1>2, <1>3
<1>5. D \in Nat /\ x \in Slots /\ m = (D * MinutesInDay) + x
  BY MinuteParts
<1>6. SlotOK(c, i)
  BY DEF CountInv
<1>7. /\ DOMAIN handled \subseteq DOMAIN handled' /\ Len(handled) + 1 \in DOMAIN handled'
      /\ \A k \in DOMAIN handled' : k \in DOMAIN handled \/ k = Len(handled) + 1
      /\ \A k \in DOMAIN handled : handled'[k] = handled[k] /\ handled[k] \in HandledBloop
      /\ handled'[Len(handled) + 1] = e
  BY <1>1, <1>2, HandledMore
<1>8. CASE c # bloop.client \/ i # x
  <2>1. stats'[c].dates[i] = d /\ stats'[c].counts[i] = s.counts[i]
    BY <1>3, <1>4, <1>5, <1>8, <1>10 DEF Recorded
  <2>2. ASSUME d # MinDate
        PROVE  LET S == AtMinute(c, (d * MinutesInDay) + i) IN
               /\ d \in Nat /\ s.counts[i] = Saturated(Count(S)')
               /\ \E k \in DOMAIN handled' : handled'[k] \in S
    <3> DEFINE S == AtMinute(c, (d * MinutesInDay) + i)
    <3>1. /\ d \in Nat /\ s.counts[i] = Saturated(Count(S))
          /\ \E k \in DOMAIN handled : handled[k] \in S
      BY <1>4, <1>6, <2>2 DEF SlotOK
    <3>2. e \notin S
      <4>1. CASE c # bloop.client
        BY <1>2, <4>1 DEF AtMinute, OfClient
      <4>2. CASE i # x
        <5>1. IndexOf((d * MinutesInDay) + i) = i
          BY MinuteOfParts
        <5>2. m # (d * MinutesInDay) + i
          BY <4>2, <5>1
        <5> QED BY <1>11, <5>2 DEF AtMinute
      <4> QED BY <1>8, <4>1, <4>2
    <3> HIDE DEF S
    <3>3. Count(S)' = Count(S)
      BY <1>1, <1>2, <3>2, CountStep
    <3>4. \E k \in DOMAIN handled' : handled'[k] \in S
      BY <1>7, <3>1
    <3> QED BY <3>1, <3>3, <3>4 DEF S
  <2>3. ASSUME NEW k \in DOMAIN handled', handled'[k] \in OfClient(c),
               IndexOf(MinuteOf(handled'[k].bloop.at)) = i
        PROVE  DateOf(MinuteOf(handled'[k].bloop.at)) <= d /\ d # MinDate
    <3>1. k # Len(handled) + 1
      <4>1. e \in OfClient(c) => c = bloop.client
        BY <1>2 DEF OfClient
      <4> QED BY <1>7, <1>8, <1>11, <2>3, <4>1
    <3> QED BY <1>4, <1>6, <1>7, <2>3, <3>1 DEF SlotOK
  <2> QED BY <2>1, <2>2, <2>3 DEF SlotOK
<1>9. CASE c = bloop.client /\ i = x
  <2> DEFINE S == AtMinute(c, m)
  <2>1. /\ stats'[c].dates[i] = D
        /\ stats'[c].counts[i] = IF d # D THEN 1 ELSE SaturatingAdd(s.counts[i])
    BY <1>3, <1>4, <1>5, <1>9, <1>10 DEF Recorded
  <2>2. D # MinDate /\ (D * MinutesInDay) + i = m
    BY <1>5, <1>9 DEF MinDate
  <2>3. e \in S
    BY <1>2, <1>9, <1>11 DEF AtMinute, OfClient
  <2>4. Count(S) \in Nat /\ Count(S)' = Count(S) + 1
    BY <1>1, <1>2, <2>3, CountStep
  <2>5. ASSUME d = D PROVE stats'[c].counts[i] = Saturated(Count(S)')
    <3>1. d # MinDate
      BY <2>2, <2>5
    <3>2. s.counts[i] = Saturated(Count(AtMinute(c, (d * MinutesInDay) + i)))
      BY <1>4, <1>6, <3>1 DEF SlotOK
    <3>3. s.counts[i] = Saturated(Count(S))
      BY <2>2, <2>5, <3>2
    <3> QED BY <2>1, <2>4, <2>5, <3>3, SaturatedCounts
  <2>6. ASSUME d # D PROVE stats'[c].counts[i] = Saturated(Count(S)')
    <3>1. ASSUME NEW k \in DOMAIN handled, handled[k] \in S PROVE FALSE
      <4>1. handled[k] \in OfClient(c) /\ MinuteOf(handled[k].bloop.at) = m
        BY <3>1 DEF AtMinute
      <4>2. D <= d /\ d # MinDate
        BY <1>4, <1>6, <1>9, <4>1 DEF SlotOK
      <4>3. PICK j \in DOMAIN handled : handled[j] \in AtMinute(c, (d * MinutesInDay) + i)
        BY <1>4, <1>6, <4>2 DEF SlotOK
      <4>4. MinuteOf(handled[j].bloop.at) = (d * MinutesInDay) + i
        BY <4>3 DEF AtMinute
      <4>5. DateOf((d * MinutesInDay) + i) <= D
        BY <1>1, <1>3, <4>4, MinuteAfterHandled
      <4>6. d <= D
        BY <4>5, MinuteOfParts
      <4> QED BY <1>5, <2>6, <4>2, <4>6
    <3>2. Count(S) = 0
      BY <3>1, CountNone
    <3> QED BY <2>1, <2>4, <2>6, <3>2, SaturatedCounts
  <2>7. \E k \in DOMAIN handled' : handled'[k] \in S
    BY <1>7, <2>3
  <2>8. ASSUME NEW k \in DOMAIN handled'
        PROVE  DateOf(MinuteOf(handled'[k].bloop.at)) <= D
    <3>1. CASE k \in DOMAIN handled
      BY <1>1, <1>3, <1>7, <3>1, MinuteAfterHandled
    <3>2. CASE k = Len(handled) + 1
      BY <1>5, <1>7, <1>11, <3>2
    <3> QED BY <1>7, <3>1, <3>2
  <2>9. stats'[c].counts[i] = Saturated(Count(S)')
    BY <2>5, <2>6
  <2> HIDE DEF S
  <2>10. Count(AtMinute(c, (D * MinutesInDay) + i))' = Count(S)'
    BY <2>2 DEF S
  <2> QED BY <1>5, <2>1, <2>2, <2>7, <2>8, <2>9, <2>10 DEF SlotOK, S
<1> QED BY <1>8, <1>9

(* The order after a bloop was counted.                                     *)
LEMMA RecordedOrder ==
    ASSUME CountInv, RecordBloop
    PROVE  CountOrder' /\ handled' \in Seq(HandledBloop)
<1> DEFINE e == [bloop |-> bloop, when |-> now]
<1>1. /\ server = "lock" /\ bloop \in Entry /\ e \in HandledBloop /\ e.when = now /\ e.bloop = bloop
      /\ handled \in Seq(HandledBloop) /\ handled' = Append(handled, e)
      /\ UNCHANGED <<now, queue>> /\ server' = "select" /\ now \in Nat
  BY StatisticsAssumption DEF CountInv, CountTypes, RecordBloop, Entry, HandledBloop
<1> HIDE DEF e
<1>2. /\ \A k \in DOMAIN handled' : k \in DOMAIN handled \/ k = Len(handled) + 1
      /\ \A k \in DOMAIN handled : handled'[k] = handled[k]
      /\ handled'[Len(handled) + 1] = e /\ handled' \in Seq(HandledBloop)
  BY <1>1, HandledMore
<1>3. ASSUME NEW k \in DOMAIN handled'
      PROVE  /\ handled'[k].when <= now' /\ handled'[k].bloop.at <= now'
             /\ \A i \in DOMAIN queue' : handled'[k].bloop.at <= queue'[i].at
  <2>1. CASE k \in DOMAIN handled
    BY <1>1, <1>2, <2>1 DEF CountInv, CountOrder
  <2>2. CASE k = Len(handled) + 1
    BY <1>1, <1>2, <2>2 DEF CountInv, CountOrder
  <2> QED BY <1>2, <2>1, <2>2
<1> QED BY <1>1, <1>2, <1>3 DEF CountInv, CountOrder

(* The channel keeps the order: a new bloop is the latest, and a lost one   *)
(* the oldest.                                                              *)
LEMMA PublishedOrder ==
    ASSUME CountInv, Publish
    PROVE  CountOrder' /\ queue' \in Seq(Entry)
<1> USE DEF CountInv, CountTypes
<1>1. PICK c \in Clients :
        LET all == Append(queue, [client |-> c, at |-> now]) IN
        queue' = IF Len(all) > Capacity THEN Tail(all) ELSE all
  BY DEF Publish
<1> DEFINE b == [client |-> c, at |-> now]
<1> DEFINE all == Append(queue, b)
<1>2. b \in Entry /\ b.at = now
  BY DEF Entry
<1> HIDE DEF b
<1>3. /\ all \in Seq(Entry) /\ DOMAIN all = 1..(Len(queue) + 1) /\ DOMAIN queue = 1..Len(queue)
      /\ Len(queue) \in Nat /\ Len(all) = Len(queue) + 1
      /\ \A i \in DOMAIN queue : all[i] = queue[i]
      /\ all[Len(queue) + 1] = b
  BY <1>2
<1>4. UNCHANGED <<now, server, bloop, handled>> /\ now \in Nat
  BY StatisticsAssumption DEF Publish
<1>5. \A i \in DOMAIN queue : queue[i].at \in Nat
  <2>1. \A f \in Entry : f.at \in Nat
    BY StatisticsAssumption DEF Entry
  <2> QED BY <2>1
<1> HIDE DEF all
<1>6. ASSUME NEW i \in DOMAIN all
      PROVE  /\ all[i].at <= now
             /\ \A j \in DOMAIN all : i < j => all[i].at <= all[j].at
             /\ \A k \in DOMAIN handled : handled[k].bloop.at <= all[i].at
             /\ server = "lock" => bloop.at <= all[i].at
  <2>1. CASE i \in DOMAIN queue
    <3>1. ASSUME NEW j \in DOMAIN all, i < j PROVE all[i].at <= all[j].at
      <4>1. j \in DOMAIN queue \/ j = Len(queue) + 1
        BY <1>3
      <4> QED BY <1>2, <1>3, <2>1, <3>1, <4>1 DEF CountOrder
    <3> QED BY <1>3, <2>1, <3>1 DEF CountOrder
  <2>2. CASE i = Len(queue) + 1
    BY <1>2, <1>3, <1>4, <2>2 DEF CountOrder
  <2> QED BY <1>3, <2>1, <2>2
<1>7. CASE queue' = all
  BY <1>3, <1>4, <1>6, <1>7 DEF CountOrder
<1>8. CASE queue' = Tail(all)
  <2>1. /\ queue' \in Seq(Entry)
        /\ \A i \in DOMAIN queue' : i \in Nat /\ i + 1 \in DOMAIN all /\ queue'[i] = all[i + 1]
    BY <1>3, <1>8
  <2>2. \A i, j \in DOMAIN queue' : i < j => i + 1 < j + 1
    BY <2>1
  <2>3. \A i, j \in DOMAIN queue' : i < j => queue'[i].at <= queue'[j].at
    BY <1>6, <2>1, <2>2
  <2>4. \A i \in DOMAIN queue' :
          /\ queue'[i].at <= now
          /\ \A k \in DOMAIN handled : handled[k].bloop.at <= queue'[i].at
          /\ server = "lock" => bloop.at <= queue'[i].at
    BY <1>6, <2>1
  <2> QED BY <1>4, <2>1, <2>3, <2>4 DEF CountOrder
<1> QED BY <1>1, <1>7, <1>8 DEF all, b

(* The oldest bloop of the channel is taken out to be counted.              *)
LEMMA ReceivedOrder ==
    ASSUME CountInv, ReceiveBloop
    PROVE  CountOrder' /\ queue' \in Seq(Entry) /\ bloop' \in Entry
<1> USE DEF CountInv, CountTypes
<1>1. /\ queue # <<>> /\ queue' = Tail(queue) /\ bloop' = Head(queue)
      /\ UNCHANGED <<now, handled>>
  BY DEF ReceiveBloop
<1>2. /\ queue' \in Seq(Entry) /\ bloop' = queue[1] /\ bloop' \in Entry /\ 1 \in DOMAIN queue
      /\ \A i \in DOMAIN queue' : i \in Nat /\ i + 1 \in DOMAIN queue /\ 1 < i + 1 /\ queue'[i] = queue[i + 1]
  BY <1>1
<1> QED BY <1>1, <1>2 DEF CountOrder

(* Time passes, the server stops, readers come and go: nothing is counted.  *)
LEMMA QuietCounts ==
    ASSUME CountInv, UNCHANGED <<stats, handled, queue>>, now' \in 0..MaxTime, now <= now',
           server' = "lock" => server = "lock" /\ bloop' = bloop
    PROVE  CountInv'
<1> USE DEF CountInv, CountTypes
<1>1. \A c \in Clients : Counted(c)' /\ \A i \in Slots : SlotOK(c, i)'
  BY DEF Counted, SlotOK, Count
<1>2. CountTypes'
  OBVIOUS
<1>3. CountOrder'
  <2>1. now \in Nat /\ now' \in Nat
    BY StatisticsAssumption
  <2>2. \A i \in DOMAIN queue : queue[i].at \in Nat
    <3>1. \A f \in Entry : f.at \in Nat
      BY StatisticsAssumption DEF Entry
    <3> QED BY <3>1
  <2>3. \A k \in DOMAIN handled : handled[k].bloop.at \in Nat /\ handled[k].when \in Nat
    <3>1. \A f \in HandledBloop : f.bloop.at \in Nat /\ f.when \in Nat
      BY StatisticsAssumption DEF HandledBloop, Entry
    <3> QED BY <3>1
  <2>4. server = "lock" => bloop.at \in Nat
    BY StatisticsAssumption DEF Entry
  <2>5. \A i \in DOMAIN queue : queue[i].at <= now'
    BY <2>1, <2>2 DEF CountOrder
  <2>6. \A k \in DOMAIN handled : handled[k].when <= now' /\ handled[k].bloop.at <= now'
    BY <2>1, <2>3 DEF CountOrder
  <2>7. server = "lock" => bloop.at <= now'
    BY <2>1, <2>4 DEF CountOrder
  <2> QED BY <2>5, <2>6, <2>7 DEF CountOrder
<1> QED BY <1>1, <1>2, <1>3

(* Every step keeps the counters right.                                     *)
LEMMA CountInvStep ==
    ASSUME CountInv, [StatNext]_statVars
    PROVE  CountInv'
<1>1. CASE RecordBloop
  <2>1. UNCHANGED <<now, queue>> /\ server' # "lock" /\ DOMAIN stats' = Clients
    BY <1>1 DEF RecordBloop, CountInv, CountTypes
  <2>2. stats' = [c \in Clients |-> stats'[c]]
    BY <1>1 DEF RecordBloop, CountInv, CountTypes
  <2>3. stats' \in [Clients -> ClientStats]
    BY <1>1, <2>2, RecordedCounts
  <2>4. CountTypes'
    BY <1>1, <2>1, <2>3, RecordedOrder DEF CountInv, CountTypes
  <2> QED BY <1>1, <2>4, RecordedOrder, RecordedCounts, RecordedSlots DEF CountInv
<1>2. CASE Publish \/ ReceiveBloop
  <2>1. UNCHANGED <<now, stats, handled>>
    BY <1>2 DEF Publish, ReceiveBloop
  <2>2. CountTypes'
    BY <1>2, <2>1, PublishedOrder, ReceivedOrder DEF CountInv, CountTypes, Publish, ReceiveBloop
  <2>3. \A c \in Clients : Counted(c)' /\ \A i \in Slots : SlotOK(c, i)'
    BY <2>1 DEF CountInv, Counted, SlotOK, Count
  <2> QED BY <1>2, <2>2, <2>3, PublishedOrder, ReceivedOrder DEF CountInv
<1>3. CASE Passes \/ StopServer \/ UNCHANGED statVars
  <2>1. /\ UNCHANGED <<stats, handled, queue>> /\ now' \in 0..MaxTime /\ now <= now'
        /\ server' = "lock" => server = "lock" /\ bloop' = bloop
    BY <1>3, StatisticsAssumption DEF Passes, StopServer, statVars, serverVars, CountInv, CountTypes
  <2> QED BY <2>1, QuietCounts
<1>4. ASSUME NEW r \in Readers,
             AcceptConnection(r) \/ Request(r) \/ LockStats(r) \/ Peek(r) \/ Store(r) \/ CloseConnection(r)
      PROVE  CountInv'
  <2>1. UNCHANGED <<now, serverVars>>
    BY <1>4 DEF AcceptConnection, Request, LockStats, Peek, Store, CloseConnection
  <2>2. /\ UNCHANGED <<stats, handled, queue, server, bloop>> /\ now' \in 0..MaxTime /\ now <= now'
    BY <2>1, StatisticsAssumption DEF serverVars, CountInv, CountTypes
  <2> QED BY <2>2, QuietCounts
<1> QED BY <1>1, <1>2, <1>3, <1>4 DEF StatNext

(* A server that starts has counted nothing.                                *)
LEMMA CountInvInit == StatInit => CountInv
<1> SUFFICES ASSUME StatInit PROVE CountInv
  OBVIOUS
<1> USE DEF StatInit
<1>1. NewStats \in ClientStats
  BY DEF NewStats, ClientStats, Slots, MinDate
<1>2. CountTypes /\ CountOrder
  BY <1>1, StatisticsAssumption DEF CountTypes, CountOrder
<1>3. handled = <<>> /\ \A S : Count(S) = 0
  BY CountNone
<1>4. ASSUME NEW c \in Clients PROVE Counted(c) /\ \A i \in Slots : SlotOK(c, i)
  <2>1. /\ stats[c].total = 0 /\ \A h \in Hours : stats[c].perHour[h] = 0
        /\ \A d \in Days : stats[c].perDay[d] = 0
        /\ \A i \in Slots : stats[c].dates[i] = MinDate
    BY DEF NewStats, Slots
  <2>2. Counted(c)
    BY <1>3, <2>1 DEF Counted
  <2>3. \A i \in Slots : SlotOK(c, i)
    BY <1>3, <2>1 DEF SlotOK
  <2> QED BY <2>2, <2>3
<1> QED BY <1>2, <1>4 DEF CountInv

-----------------------------------------------------------------------------
(* The smaller of a count and the largest u8.                               *)
LEMMA MinIsSaturated ==
    ASSUME NEW n \in Nat
    PROVE  Min({U8Max, n}) = Saturated(n)
<1> DEFINE IsMin(x) == x \in {U8Max, n} /\ \A y \in {U8Max, n} : x <= y
<1>1. U8Max \in Nat
  BY StatisticsAssumption
<1>2. IsMin(Saturated(n))
  BY <1>1 DEF Saturated
<1>3. \A x : IsMin(x) => x = Saturated(n)
  BY <1>1 DEF Saturated
<1>4. Min({U8Max, n}) = CHOOSE x \in {U8Max, n} : \A y \in {U8Max, n} : x <= y
  BY DEF Min
<1> QED BY <1>2, <1>3, <1>4

(* The slot count_last_minutes reads for a minute of the window, if its     *)
(* date is right, holds what was counted in that minute; if not, nothing    *)
(* was.                                                                     *)
LEMMA WindowEntry ==
    ASSUME CountInv, NEW c \in Clients, NEW i \in Slots
    PROVE  LET m == MinuteOf(now)
               idx == (IndexOf(m) + MinutesInDay - i) % MinutesInDay
           IN  (IF stats[c].dates[idx] = DateOf(m - i) THEN stats[c].counts[idx] ELSE 0)
                   = InMinute(c, m - i)
<1> DEFINE m == MinuteOf(now)
<1> DEFINE n == m - i
<1> DEFINE y == IndexOf(n)
<1> DEFINE d == DateOf(n)
<1> DEFINE v == stats[c].dates[y]
<1> DEFINE S == AtMinute(c, n)
<1>1. now \in 0..MaxTime /\ handled \in Seq(HandledBloop) /\ stats[c].dates \in [Slots -> Int]
  BY DEF CountInv, CountTypes, ClientStats
<1>2. m \in Nat /\ i \in Nat /\ i <= MinutesInDay - 1 /\ MinutesInDay \in Nat
  BY <1>1, TimeParts, StatisticsAssumption DEF Slots
<1> HIDE DEF m
<1>3. (IndexOf(m) + MinutesInDay - i) % MinutesInDay = y /\ d >= -1
  BY <1>2, WindowSlot
<1>4. n \in Int
  BY <1>2
<1> HIDE DEF n
<1>5. d \in Int /\ y \in Slots /\ n = (d * MinutesInDay) + y
  BY <1>4, MinuteParts
<1>6. InMinute(c, n) = Saturated(Count(S))
  <2>1. {k \in HandledOf(c) : MinuteOf(handled[k].bloop.at) = n} = Entries(handled, S)
    BY <1>1 DEF HandledOf, Entries, AtMinute, OfClient
  <2>2. Count(S) \in Nat
    BY <1>1, EntriesCounted DEF Count
  <2> QED BY <2>1, <2>2, MinIsSaturated DEF InMinute, Count
<1>7. SlotOK(c, y) /\ v \in Int
  BY <1>1, <1>5 DEF CountInv
<1> HIDE DEF y, d
<1>8. CASE v = d
  <2>1. v # MinDate
    BY <1>3, <1>8 DEF MinDate
  <2>2. stats[c].counts[y] = Saturated(Count(AtMinute(c, (v * MinutesInDay) + y)))
    BY <1>7, <2>1 DEF SlotOK
  <2>3. stats[c].counts[y] = Saturated(Count(S))
    BY <1>5, <1>8, <2>2
  <2> QED BY <1>3, <1>6, <1>8, <2>3 DEF m, n, d
<1>9. CASE v # d
  <2>1. ASSUME NEW k \in DOMAIN handled, handled[k] \in S PROVE FALSE
    <3>1. handled[k] \in OfClient(c) /\ MinuteOf(handled[k].bloop.at) = n
      BY <2>1 DEF AtMinute
    <3>2. d <= v /\ v # MinDate
      BY <1>7, <3>1 DEF SlotOK, y, d
    <3>3. PICK j \in DOMAIN handled : handled[j] \in AtMinute(c, (v * MinutesInDay) + y)
      BY <1>7, <3>2 DEF SlotOK
    <3>4. MinuteOf(handled[j].bloop.at) = (v * MinutesInDay) + y
      BY <3>3 DEF AtMinute
    <3>5. handled[j].bloop.at \in 0..MaxTime /\ handled[j].bloop.at <= now
      <4>1. handled[j] \in HandledBloop
        BY <1>1
      <4> QED BY <4>1 DEF HandledBloop, Entry, CountInv, CountOrder
    <3>6. (v * MinutesInDay) + y <= m
      BY <1>1, <3>4, <3>5, TimeParts DEF m
    <3>7. d + 1 <= v
      BY <1>5, <1>7, <1>9, <3>2
    <3>8. (d + 1) * MinutesInDay <= v * MinutesInDay
      BY <1>2, <1>5, <1>7, <3>7
    <3>9. (d + 1) * MinutesInDay = (d * MinutesInDay) + MinutesInDay
      BY <1>2, <1>5
    <3>10. /\ d * MinutesInDay \in Int /\ v * MinutesInDay \in Int /\ y \in Nat
           /\ (d * MinutesInDay) + y = m - i
      BY <1>2, <1>5, <1>7 DEF Slots, n
    <3> HIDE DEF v
    <3> QED BY <1>2, <3>6, <3>8, <3>9, <3>10
  <2>2. Count(S) = 0
    BY <2>1, CountNone
  <2>3. InMinute(c, n) = 0
    BY <1>6, <2>2, SaturatedCounts
  <2> QED BY <1>3, <1>9, <2>3 DEF m, n, d
<1> QED BY <1>8, <1>9

(* A window of at most a day is counted right.                              *)
LEMMA WindowCounted ==
    ASSUME CountInv, NEW c \in Clients, NEW n \in Nat, n <= MinutesInDay
    PROVE  CountLastMinutes(stats[c], now, n)
             = MapThenSumSet(LAMBDA i : InMinute(c, MinuteOf(now) - i), 0..(n - 1))
<1> DEFINE s == stats[c]
<1> DEFINE m == MinuteOf(now)
<1> DEFINE read(i) ==
      LET idx == (IndexOf(MinuteOf(now)) + MinutesInDay - i) % MinutesInDay IN
      IF s.dates[idx] = DateOf(MinuteOf(now) - i) THEN s.counts[idx] ELSE 0
<1> DEFINE was(i) == InMinute(c, MinuteOf(now) - i)
<1> DEFINE N == 0..(n - 1)
<1>1. CountLastMinutes(s, now, n) = MapThenSumSet(read, N)
  BY DEF CountLastMinutes
<1>2. MapThenSumSet(read, N) = SumOver([i \in N |-> read(i)], N)
  BY SumOfMap
<1>3. MapThenSumSet(was, N) = SumOver([i \in N |-> was(i)], N)
  BY SumOfMap
<1>4. ASSUME NEW i \in N PROVE read(i) = was(i)
  <2>1. i \in Slots
    BY StatisticsAssumption DEF Slots
  <2> QED BY <2>1, WindowEntry
<1>5. \A i \in N : [j \in N |-> read(j)][i] = [j \in N |-> was(j)][i]
  BY <1>4
<1> HIDE DEF read, was, N
<1>6. SumOver([i \in N |-> read(i)], N) = SumOver([i \in N |-> was(i)], N)
  BY <1>5, SumSame
<1>7. MapThenSumSet(LAMBDA i : InMinute(c, MinuteOf(now) - i), 0..(n - 1)) = MapThenSumSet(was, N)
  BY DEF was, N
<1> QED BY <1>1, <1>2, <1>3, <1>6, <1>7

(* The counters agree with the bloops that were counted, for any number of  *)
(* clients, bloops and days, across midnight, over slots of the ring that   *)
(* still hold another day, and past a full u8; an hour of the day counts    *)
(* the bloops of the last 24 hours, and others only if there are older.     *)
THEOREM CountersAreExact == StatSpec => []CountsExact
<1>1. ASSUME CountInv PROVE CountsExact
  <2>1. MinutesInHour \in Nat /\ MinutesInDay \in Nat /\ MinutesInHour <= MinutesInDay
    BY StatisticsAssumption
  <2>2. ASSUME NEW c \in Clients
        PROVE  /\ stats[c].total = Cardinality(HandledOf(c))
               /\ \A h \in Hours : stats[c].perHour[h] = Cardinality(HandledInHour(c, h))
               /\ \A h \in Hours : Cardinality(RecentInHour(c, h)) <= Cardinality(HandledInHour(c, h))
               /\ \A d \in Days :
                   stats[c].perDay[d] = Cardinality({i \in HandledOf(c) : LocalDate(handled[i].bloop.at) = d})
    <3>1. handled \in Seq(HandledBloop) /\ Counted(c)
      BY <1>1 DEF CountInv, CountTypes
    <3>2. HandledOf(c) = Entries(handled, OfClient(c))
      BY <3>1 DEF HandledOf, Entries, OfClient
    <3>3. \A h : HandledInHour(c, h) = Entries(handled, InHour(c, h))
      BY <3>2 DEF HandledInHour, Entries, InHour
    <3>4. \A d : {i \in HandledOf(c) : LocalDate(handled[i].bloop.at) = d} = Entries(handled, OnDay(c, d))
      BY <3>2 DEF Entries, OnDay
    <3>5. ASSUME NEW h \in Hours
          PROVE  Cardinality(RecentInHour(c, h)) <= Cardinality(HandledInHour(c, h))
      <4>1. IsFiniteSet(HandledInHour(c, h))
        BY <3>1, <3>3, EntriesCounted
      <4> QED BY <4>1, FS_Subset DEF RecentInHour
    <3> QED BY <3>1, <3>2, <3>3, <3>4, <3>5 DEF Counted, Count
  <2>3. ASSUME NEW c \in Clients, NEW n \in {MinutesInHour, MinutesInDay}
        PROVE  CountLastMinutes(stats[c], now, n)
                 = MapThenSumSet(LAMBDA i : InMinute(c, MinuteOf(now) - i), 0..(n - 1))
    <3>1. n \in Nat /\ n <= MinutesInDay
      BY <2>1
    <3> QED BY <1>1, <3>1, WindowCounted
  <2> QED BY <2>2, <2>3 DEF CountsExact
<1> QED BY <1>1, CountInvInit, CountInvStep, PTL DEF StatSpec

-----------------------------------------------------------------------------
(* A snapshot made at t has what was counted before t.                      *)
Covers(totals, t) ==
    /\ t \in Int /\ t <= now
    /\ \A c \in Clients : totals[c] \in Nat /\ Count(Before(c, t)) <= totals[c]

TotalsOf(snapshot) == [c \in Clients |-> snapshot.clients[c].total]

StaleInv ==
    /\ stage \in [Readers -> {"none", "idle", "lock", "peek", "store"}]
    /\ DOMAIN asked = Readers /\ DOMAIN computed = Readers
    /\ \A r \in Readers : asked[r] \in Nat /\ asked[r] <= now
    /\ \A r \in Readers : stage[r] = "store" =>
        computed[r].created = asked[r] /\ Covers(TotalsOf(computed[r]), asked[r])
    /\ cache # None => Covers(TotalsOf(cache), cache.created)
    /\ served # None => served.asked \in Nat /\ Covers(served.totals, served.asked - TicksPerMinute + 1)

(* What covers the past goes on to: whatever is counted is counted now.     *)
LEMMA CoversOn ==
    ASSUME CountInv, CountInv', NEW totals, NEW t, Covers(totals, t),
           \/ UNCHANGED handled /\ now <= now'
           \/ RecordBloop
    PROVE  Covers(totals, t)'
<1>1. now \in Nat /\ now' \in Nat
  BY StatisticsAssumption DEF CountInv, CountTypes
<1>2. CASE UNCHANGED handled /\ now <= now'
  BY <1>1, <1>2 DEF Covers, Count
<1>3. CASE RecordBloop
  <2> DEFINE e == [bloop |-> bloop, when |-> now]
  <2>1. /\ e \in HandledBloop /\ e.when = now /\ handled \in Seq(HandledBloop)
        /\ handled' = Append(handled, e) /\ now' = now
    BY <1>3 DEF CountInv, CountTypes, RecordBloop, HandledBloop
  <2> HIDE DEF e
  <2>2. \A c \in Clients : e \notin Before(c, t)
    BY <1>1, <2>1 DEF Before, Covers
  <2>3. \A c \in Clients : Entries(handled', Before(c, t)) = Entries(handled, Before(c, t))
    BY <2>1, <2>2, AppendCounted
  <2> QED BY <2>1, <2>3 DEF Covers, Count
<1> QED BY <1>2, <1>3

(* A snapshot has all that was counted, so all that was counted before the  *)
(* time it is made for.                                                     *)
LEMMA SnapshotCovers ==
    ASSUME CountInv, NEW t \in Nat, t <= now
    PROVE  Snapshot(t).created = t /\ Covers(TotalsOf(Snapshot(t)), t)
<1>1. Snapshot(t).created = t
  BY DEF Snapshot
<1>2. ASSUME NEW c \in Clients
      PROVE  TotalsOf(Snapshot(t))[c] \in Nat /\ Count(Before(c, t)) <= TotalsOf(Snapshot(t))[c]
  <2>1. TotalsOf(Snapshot(t))[c] = Count(OfClient(c))
    BY SnapshotTotals DEF TotalsOf, CountInv, Counted
  <2>2. handled \in Seq(HandledBloop) /\ Before(c, t) \in SUBSET OfClient(c)
    BY DEF CountInv, CountTypes, Before
  <2> QED BY <2>1, <2>2, EntriesCounted DEF Count
<1> QED BY <1>1, <1>2 DEF Covers

(* What covers a later time covers an earlier one.                          *)
LEMMA CoversEarlier ==
    ASSUME CountInv, NEW totals, NEW t, Covers(totals, t), NEW u \in Int, u <= t
    PROVE  Covers(totals, u)
<1>1. t \in Int /\ t <= now /\ now \in Nat /\ handled \in Seq(HandledBloop)
  BY StatisticsAssumption DEF Covers, CountInv, CountTypes
<1>2. ASSUME NEW c \in Clients PROVE Count(Before(c, u)) <= totals[c]
  <2>1. Before(c, u) \in SUBSET Before(c, t)
    <3>1. \A b \in OfClient(c) : b.when \in Nat
      BY StatisticsAssumption DEF OfClient, HandledBloop
    <3> QED BY <1>1, <3>1 DEF Before
  <2>2. Count(Before(c, u)) <= Count(Before(c, t)) /\ Count(Before(c, t)) \in Nat /\ Count(Before(c, u)) \in Nat
    BY <1>1, <2>1, EntriesCounted DEF Count
  <2> QED BY <2>2 DEF Covers
<1> QED BY <1>1, <1>2 DEF Covers

(* Serving a snapshot that is fresh, or was just made.                      *)
LEMMA ServeStep ==
    ASSUME CountInv, CountInv', StaleInv, NEW r \in Readers, NEW snapshot, Serve(r, snapshot),
           NEW t, Covers(TotalsOf(snapshot), t), t > asked[r] - TicksPerMinute,
           UNCHANGED <<now, handled>>
    PROVE  served'.asked \in Nat /\ Covers(served.totals, served.asked - TicksPerMinute + 1)'
<1>1. served'.totals = TotalsOf(snapshot) /\ served'.asked = asked[r]
  BY DEF Serve, TotalsOf
<1>2. asked[r] \in Nat /\ TicksPerMinute \in Nat \ {0} /\ t \in Int
  BY StatisticsAssumption DEF StaleInv, Covers
<1>3. Covers(TotalsOf(snapshot), asked[r] - TicksPerMinute + 1)
  BY <1>2, CoversEarlier
<1> QED BY <1>1, <1>2, <1>3 DEF Covers, Count

(* Every step keeps what was served, cached and computed recent enough.     *)
LEMMA StaleInvStep ==
    ASSUME CountInv, CountInv', StaleInv, [StatNext]_statVars
    PROVE  StaleInv'
<1>0. now \in Nat /\ now' \in Nat /\ TicksPerMinute \in Nat \ {0}
  BY StatisticsAssumption DEF CountInv, CountTypes
<1>1. CASE \/ Passes \/ Publish \/ ReceiveBloop \/ RecordBloop \/ StopServer \/ UNCHANGED statVars
  <2>1. UNCHANGED readerVars /\ now <= now' /\ (UNCHANGED handled \/ RecordBloop)
    BY <1>0, <1>1 DEF Passes, Publish, ReceiveBloop, RecordBloop, StopServer, statVars, serverVars
  <2>2. UNCHANGED <<cache, stage, asked, computed, served>>
    BY <2>1 DEF readerVars
  <2>3. ASSUME NEW r \in Readers, stage[r] = "store"
        PROVE  Covers(TotalsOf(computed[r]), asked[r])'
    <3>1. PICK x, t : x = TotalsOf(computed[r]) /\ t = asked[r]
      OBVIOUS
    <3>2. Covers(x, t)'
      BY <2>1, <2>3, <3>1, CoversOn DEF StaleInv
    <3> QED BY <2>2, <3>1, <3>2 DEF Covers, TotalsOf
  <2>4. ASSUME cache # None PROVE Covers(TotalsOf(cache), cache.created)'
    <3>1. PICK x, t : x = TotalsOf(cache) /\ t = cache.created
      OBVIOUS
    <3>2. Covers(x, t)'
      BY <2>1, <2>4, <3>1, CoversOn DEF StaleInv
    <3> QED BY <2>2, <3>1, <3>2 DEF Covers, TotalsOf
  <2>5. ASSUME served # None PROVE Covers(served.totals, served.asked - TicksPerMinute + 1)'
    <3>1. PICK x, t : x = served.totals /\ t = served.asked - TicksPerMinute + 1
      OBVIOUS
    <3>2. Covers(x, t)'
      BY <2>1, <2>5, <3>1, CoversOn DEF StaleInv
    <3> QED BY <2>2, <3>1, <3>2 DEF Covers
  <2>6. \A r \in Readers : asked[r] \in Nat /\ asked[r] <= now'
    BY <1>0, <2>1 DEF StaleInv
  <2> QED BY <2>2, <2>3, <2>4, <2>5, <2>6 DEF StaleInv
<1>2. ASSUME NEW r \in Readers,
             AcceptConnection(r) \/ Request(r) \/ LockStats(r) \/ CloseConnection(r)
      PROVE  StaleInv'
  <2>1. /\ UNCHANGED <<now, handled, cache, served>>
        /\ \E s \in {"none", "idle", "lock", "peek"} : stage' = [stage EXCEPT ![r] = s]
        /\ asked' = asked \/ \E t \in {0, now} : asked' = [asked EXCEPT ![r] = t]
        /\ computed' = computed \/ computed' = [computed EXCEPT ![r] = None]
    BY <1>2 DEF AcceptConnection, Request, LockStats, CloseConnection, serverVars, StaleInv
  <2>2. /\ stage' \in [Readers -> {"none", "idle", "lock", "peek", "store"}]
        /\ DOMAIN asked' = Readers /\ DOMAIN computed' = Readers
        /\ stage'[r] # "store"
        /\ \A q \in Readers \ {r} : stage'[q] = stage[q] /\ asked'[q] = asked[q] /\ computed'[q] = computed[q]
    BY <2>1 DEF StaleInv
  <2>3. \A q \in Readers : asked'[q] \in Nat /\ asked'[q] <= now'
    BY <1>0, <2>1 DEF StaleInv
  <2>4. ASSUME NEW q \in Readers, stage'[q] = "store"
        PROVE  computed'[q].created = asked'[q] /\ Covers(TotalsOf(computed[q]), asked[q])'
    BY <2>1, <2>2, <2>4 DEF StaleInv, Covers, Count, TotalsOf
  <2> QED BY <2>1, <2>2, <2>3, <2>4 DEF StaleInv, Covers, Count, TotalsOf
<1>3. ASSUME NEW r \in Readers, Peek(r) PROVE StaleInv'
  <2>1. UNCHANGED <<now, handled, cache>>
    BY <1>3 DEF Peek, serverVars
  <2>2. CASE cache # None /\ IsFresh(cache, asked[r])
    <3>1. Serve(r, cache) /\ UNCHANGED computed
      BY <1>3, <2>2 DEF Peek
    <3>2. Covers(TotalsOf(cache), cache.created) /\ cache.created > asked[r] - TicksPerMinute
      BY <2>2 DEF StaleInv, IsFresh
    <3>3. served'.asked \in Nat /\ Covers(served.totals, served.asked - TicksPerMinute + 1)'
      <4>1. PICK t : t = cache.created
        OBVIOUS
      <4>2. PICK s : s = cache
        OBVIOUS
      <4> QED BY <2>1, <3>1, <3>2, <4>1, <4>2, ServeStep
    <3>4. stage' = [stage EXCEPT ![r] = "idle"] /\ asked' = [asked EXCEPT ![r] = 0]
      BY <3>1 DEF Serve
    <3>5. ASSUME NEW q \in Readers, stage'[q] = "store"
          PROVE  computed'[q].created = asked'[q] /\ Covers(TotalsOf(computed[q]), asked[q])'
      BY <2>1, <3>1, <3>4, <3>5 DEF StaleInv, Covers, Count, TotalsOf
    <3>6. \A q \in Readers : asked'[q] \in Nat /\ asked'[q] <= now'
      BY <1>0, <2>1, <3>4 DEF StaleInv
    <3>7. cache' # None => Covers(TotalsOf(cache), cache.created)'
      BY <2>1 DEF StaleInv, Covers, Count, TotalsOf
    <3>8. /\ stage' \in [Readers -> {"none", "idle", "lock", "peek", "store"}]
          /\ DOMAIN asked' = Readers /\ DOMAIN computed' = Readers
      BY <3>1, <3>4 DEF StaleInv
    <3> QED BY <3>3, <3>5, <3>6, <3>7, <3>8 DEF StaleInv
  <2>3. CASE ~(cache # None /\ IsFresh(cache, asked[r]))
    <3>1. /\ stage' = [stage EXCEPT ![r] = "store"]
          /\ computed' = [computed EXCEPT ![r] = Snapshot(asked[r])]
          /\ UNCHANGED <<asked, served>>
      BY <1>3, <2>3 DEF Peek
    <3>2. asked[r] \in Nat /\ asked[r] <= now
      BY DEF StaleInv
    <3>3. Snapshot(asked[r]).created = asked[r] /\ Covers(TotalsOf(Snapshot(asked[r])), asked[r])
      BY <3>2, SnapshotCovers
    <3>4. computed'[r] = Snapshot(asked[r])
      BY <3>1 DEF StaleInv
    <3>5. ASSUME NEW q \in Readers, stage'[q] = "store"
          PROVE  computed'[q].created = asked'[q] /\ Covers(TotalsOf(computed[q]), asked[q])'
      <4>1. CASE q = r
        <5>1. computed'[q].created = asked'[q]
          BY <3>1, <3>3, <3>4, <4>1
        <5>2. TotalsOf(computed[q])' = TotalsOf(Snapshot(asked[r]))
          BY <3>4, <4>1 DEF TotalsOf
        <5>3. Covers(TotalsOf(computed[q]), asked[q])'
          BY <2>1, <3>1, <3>3, <4>1, <5>2 DEF Covers, Count
        <5> QED BY <5>1, <5>3
      <4>2. CASE q # r
        BY <2>1, <3>1, <3>5, <4>2 DEF StaleInv, Covers, Count, TotalsOf
      <4> QED BY <4>1, <4>2
    <3>6. /\ stage' \in [Readers -> {"none", "idle", "lock", "peek", "store"}]
          /\ DOMAIN asked' = Readers /\ DOMAIN computed' = Readers
          /\ \A q \in Readers : asked'[q] \in Nat /\ asked'[q] <= now'
      BY <2>1, <3>1 DEF StaleInv
    <3>7. /\ cache' # None => Covers(TotalsOf(cache), cache.created)'
          /\ served' # None => served'.asked \in Nat /\ Covers(served.totals, served.asked - TicksPerMinute + 1)'
      BY <2>1, <3>1 DEF StaleInv, Covers, Count, TotalsOf
    <3> QED BY <3>5, <3>6, <3>7 DEF StaleInv
  <2> QED BY <2>2, <2>3
<1>4. ASSUME NEW r \in Readers, Store(r) PROVE StaleInv'
  <2>1. /\ UNCHANGED <<now, handled>> /\ stage[r] = "store" /\ cache' = computed[r]
        /\ Serve(r, computed[r]) /\ computed' = [computed EXCEPT ![r] = None]
        /\ stage' = [stage EXCEPT ![r] = "idle"] /\ asked' = [asked EXCEPT ![r] = 0]
    BY <1>4 DEF Store, Serve, serverVars
  <2>2. computed[r].created = asked[r] /\ Covers(TotalsOf(computed[r]), asked[r]) /\ asked[r] \in Nat
    BY <2>1 DEF StaleInv
  <2>3. served'.asked \in Nat /\ Covers(served.totals, served.asked - TicksPerMinute + 1)'
    <3>1. PICK s, t : s = computed[r] /\ t = asked[r]
      OBVIOUS
    <3>2. asked[r] > asked[r] - TicksPerMinute
      BY <1>0, <2>2
    <3> QED BY <2>1, <2>2, <3>1, <3>2, ServeStep
  <2>4. Covers(TotalsOf(cache), cache.created)'
    <3>1. TotalsOf(cache)' = TotalsOf(computed[r]) /\ cache'.created = asked[r]
      BY <2>1, <2>2 DEF TotalsOf
    <3> QED BY <2>1, <2>2, <3>1 DEF Covers, Count
  <2>5. ASSUME NEW q \in Readers, stage'[q] = "store"
        PROVE  computed'[q].created = asked'[q] /\ Covers(TotalsOf(computed[q]), asked[q])'
    BY <2>1, <2>5 DEF StaleInv, Covers, Count, TotalsOf
  <2>6. /\ stage' \in [Readers -> {"none", "idle", "lock", "peek", "store"}]
        /\ DOMAIN asked' = Readers /\ DOMAIN computed' = Readers
        /\ \A q \in Readers : asked'[q] \in Nat /\ asked'[q] <= now'
    BY <1>0, <2>1 DEF StaleInv
  <2> QED BY <2>3, <2>4, <2>5, <2>6 DEF StaleInv
<1> QED BY <1>1, <1>2, <1>3, <1>4 DEF StatNext

(* Whatever is served includes every bloop that was counted a minute or     *)
(* longer before the request asked, for any readers that compute, store and *)
(* serve snapshots in any order.                                            *)
THEOREM ServedNumbersAreFresh == StatSpec => []StaleByLessThanAMinute
<1>1. StatInit => StaleInv
  BY DEF StatInit, StaleInv
<1>2. CountInv /\ CountInv' /\ StaleInv /\ [StatNext]_statVars => StaleInv'
  BY StaleInvStep
<1>3. ASSUME CountInv, StaleInv PROVE StaleByLessThanAMinute
  <2> SUFFICES ASSUME served # None, NEW c \in Clients
               PROVE  Cardinality({i \in HandledOf(c) : handled[i].when <= served.asked - TicksPerMinute})
                        <= served.totals[c]
    BY DEF StaleByLessThanAMinute
  <2> DEFINE t == served.asked - TicksPerMinute
  <2>1. Covers(served.totals, t + 1) /\ handled \in Seq(HandledBloop)
    BY <1>3 DEF StaleInv, CountInv, CountTypes
  <2>2. t \in Int
    BY <1>3, <2>1, StatisticsAssumption DEF Covers, StaleInv
  <2> HIDE DEF t
  <2>3. {i \in HandledOf(c) : handled[i].when <= t} = Entries(handled, Before(c, t + 1))
    <3>1. \A b \in HandledBloop : b.when \in Nat
      BY StatisticsAssumption DEF HandledBloop
    <3>2. \A i \in DOMAIN handled : handled[i] \in HandledBloop /\ handled[i].when \in Nat
      BY <2>1, <3>1
    <3> QED BY <2>2, <3>2 DEF HandledOf, Entries, Before, OfClient
  <2> QED BY <2>1, <2>3 DEF Covers, Count, t
<1> QED BY <1>1, <1>2, <1>3, CountInvInit, CountInvStep, PTL DEF StatSpec
=============================================================================
