----------------------------- MODULE Statistics -----------------------------
(***************************************************************************)
(* StatisticsServer of src/statistics.rs: one task counts the processed    *)
(* bloops of the broadcast channel under the write lock of the tracker,    *)
(* detached tasks serve HTTP requests under its read lock from a snapshot  *)
(* that is cached for a minute.                                            *)
(*                                                                         *)
(* Time is in ticks, TicksPerMinute of them a minute; a day has            *)
(* MinutesInDay minutes and a u8 ends at U8Max, so that a run gets past    *)
(* midnight and past saturation.  The cache's own lock is never held over  *)
(* an await and needs no state.                                            *)
(***************************************************************************)
EXTENDS Integers, Sequences, FiniteSets, FiniteSetsExt

CONSTANTS
    Clients, None,
    Readers,         \* tasks that serve HTTP connections
    TicksPerMinute, MinutesInHour, MinutesInDay,
    U8Max,           \* largest value of a per_minute_bloops entry
    TzOffset,        \* local time minus UTC, in ticks
    Capacity,        \* capacity of the broadcast channel
    MaxBloops, MaxTime   \* bounds: bloops published, time covered

ASSUME StatisticsAssumption ==
    /\ None \notin Clients
    /\ TicksPerMinute \in Nat \ {0} /\ MinutesInHour \in Nat \ {0}
    /\ MinutesInDay \in Nat \ {0} /\ MinutesInDay % MinutesInHour = 0
    /\ U8Max \in Nat \ {0} /\ TzOffset \in Nat /\ Capacity \in Nat \ {0}
    /\ MaxBloops \in Nat /\ MaxTime \in Nat

VARIABLES
    now,        \* Utc::now
    published,  \* number of bloops published
    queue,      \* the channel: bloops the receiver can still get
    server,     \* the server's task: "select", "lock" (awaits the write lock) or "done"
    bloop,      \* the bloop it awaits the lock for
    stats,      \* clients: client -> ClientStats
    cache,      \* cached_snapshot
    stage,      \* reader -> "none", "idle", "lock", "peek" or "store"
    asked,      \* reader -> the `now` of its request
    computed,   \* reader -> the snapshot it computed
    served,     \* history: the totals served last, and the `now` they were asked with
    handled     \* history: the bloops counted, and when

serverVars == <<published, queue, server, bloop, stats, handled>>
readerVars == <<cache, stage, asked, computed, served>>
statVars == <<now, serverVars, readerVars>>

-----------------------------------------------------------------------------
MinuteOf(t) == t \div TicksPerMinute
DateOf(minute) == minute \div MinutesInDay
IndexOf(minute) == minute % MinutesInDay
Hours == 0..((MinutesInDay \div MinutesInHour) - 1)
Days == 0..DateOf(MinuteOf(MaxTime + TzOffset))
MinDate == -2     \* NaiveDate::MIN: no day a window reaches

(* The local hour and date of a time.                                      *)
LocalHour(t) == IndexOf(MinuteOf(t + TzOffset)) \div MinutesInHour
LocalDate(t) == DateOf(MinuteOf(t + TzOffset))

(* ClientStats::new.  A day without an entry counts 0.                     *)
NewStats ==
    [total |-> 0,
     counts |-> [i \in 0..(MinutesInDay - 1) |-> 0],
     dates |-> [i \in 0..(MinutesInDay - 1) |-> MinDate],
     perHour |-> [h \in Hours |-> 0],
     perDay |-> [d \in Days |-> 0]]

StatInit ==
    /\ now = 0 /\ published = 0
    /\ queue = <<>> /\ server = "select" /\ bloop = None
    /\ stats = [c \in Clients |-> NewStats]
    /\ cache = None
    /\ stage = [r \in Readers |-> "none"]
    /\ asked = [r \in Readers |-> 0]
    /\ computed = [r \in Readers |-> None]
    /\ served = None
    /\ handled = <<>>

-----------------------------------------------------------------------------
SaturatingAdd(n) == IF n < U8Max THEN n + 1 ELSE n

RecordedWithoutReset(s, t) ==
    LET m == MinuteOf(t) i == IndexOf(MinuteOf(t)) IN
    [total |-> s.total + 1,
     counts |-> [s.counts EXCEPT ![i] = SaturatingAdd(@)],
     dates |-> [s.dates EXCEPT ![i] = DateOf(m)],
     perHour |-> [s.perHour EXCEPT ![LocalHour(t)] = @ + 1],
     perDay |-> [s.perDay EXCEPT ![LocalDate(t)] = @ + 1]]

(* ClientStats::record_bloop for a bloop recorded at t: the minute's slot  *)
(* of the ring starts over when it still holds another day.                *)
Recorded(s, t) ==
    LET m == MinuteOf(t) i == IndexOf(MinuteOf(t)) IN
    [total |-> s.total + 1,
     counts |-> [s.counts EXCEPT ![i] = IF s.dates[i] # DateOf(m) THEN 1 ELSE SaturatingAdd(@)],
     dates |-> [s.dates EXCEPT ![i] = DateOf(m)],
     perHour |-> [s.perHour EXCEPT ![LocalHour(t)] = @ + 1],
     perDay |-> [s.perDay EXCEPT ![LocalDate(t)] = @ + 1]]

(* count_last_minutes                                                      *)
CountLastMinutes(s, t, minutes) ==
    MapThenSumSet(
        LAMBDA i :
            LET idx == (IndexOf(MinuteOf(t)) + MinutesInDay - i) % MinutesInDay IN
            IF s.dates[idx] = DateOf(MinuteOf(t) - i) THEN s.counts[idx] ELSE 0,
        0..(minutes - 1))

Summary(s, t) ==
    [total |-> s.total,
     lastHour |-> CountLastMinutes(s, t, MinutesInHour),
     lastDay |-> CountLastMinutes(s, t, MinutesInDay),
     perHour |-> s.perHour,
     perDay |-> s.perDay]

(* compute_snapshot: a summary of every client and their sum.              *)
Snapshot(t) ==
    LET of == [c \in Clients |-> Summary(stats[c], t)] IN
    [created |-> t,
     clients |-> of,
     global |->
        [total |-> MapThenSumSet(LAMBDA c : of[c].total, Clients),
         lastHour |-> MapThenSumSet(LAMBDA c : of[c].lastHour, Clients),
         lastDay |-> MapThenSumSet(LAMBDA c : of[c].lastDay, Clients),
         perHour |-> [h \in Hours |-> MapThenSumSet(LAMBDA c : of[c].perHour[h], Clients)],
         perDay |-> [d \in Days |-> MapThenSumSet(LAMBDA c : of[c].perDay[d], Clients)]]]

-----------------------------------------------------------------------------
Passes ==
    /\ now < MaxTime
    /\ now' = now + 1
    /\ UNCHANGED <<serverVars, readerVars>>

(* The engine's event for a bloop just recorded.  A full channel loses its *)
(* oldest: the receiver gets Lagged, which it only logs.                   *)
Publish ==
    /\ published < MaxBloops
    /\ published' = published + 1
    /\ \E c \in Clients :
        LET all == Append(queue, [client |-> c, at |-> now]) IN
        queue' = IF Len(all) > Capacity THEN Tail(all) ELSE all
    /\ UNCHANGED <<now, server, bloop, stats, handled, readerVars>>

(* handle_recv of a BloopProcessed, up to its await of the write lock.     *)
ReceiveBloop ==
    /\ server = "select"
    /\ queue # <<>>
    /\ server' = "lock"
    /\ bloop' = Head(queue)
    /\ queue' = Tail(queue)
    /\ UNCHANGED <<now, published, stats, handled, readerVars>>

HoldingUntilComputed == {r \in Readers : stage[r] = "peek"}

(* The readers that hold the tracker's read guard: from the grant of the   *)
(* lock to the end of snapshot().                                          *)
Holding == {r \in Readers : stage[r] \in {"peek", "store"}}

(* The write lock is granted: StatsTracker::record_bloop.                  *)
RecordBloop ==
    /\ server = "lock"
    /\ Holding = {}
    /\ stats' = [stats EXCEPT ![bloop.client] = Recorded(@, bloop.at)]
    /\ handled' = Append(handled, [bloop |-> bloop, when |-> now])
    /\ server' = "select" /\ bloop' = None
    /\ UNCHANGED <<now, published, queue, readerVars>>

(* The channel is closed, or cancel_on_shutdown drops listen at an await.  *)
(* The tasks of the connections live on.                                   *)
StopServer ==
    /\ server # "done"
    /\ server' = "done" /\ bloop' = None
    /\ UNCHANGED <<now, published, queue, stats, handled, readerVars>>

-----------------------------------------------------------------------------
(* handle_connection spawns the task of a connection, between two events.  *)
AcceptConnection(r) ==
    /\ server = "select"
    /\ stage[r] = "none"
    /\ stage' = [stage EXCEPT ![r] = "idle"]
    /\ UNCHANGED <<now, serverVars, cache, asked, computed, served>>

(* A request arrives and awaits the read lock.                             *)
Request(r) ==
    /\ stage[r] = "idle"
    /\ stage' = [stage EXCEPT ![r] = "lock"]
    /\ UNCHANGED <<now, serverVars, cache, asked, computed, served>>

(* The read lock is granted unless a writer waits; then Utc::now is read.  *)
LockStats(r) ==
    /\ stage[r] = "lock"
    /\ server # "lock"
    /\ stage' = [stage EXCEPT ![r] = "peek"]
    /\ asked' = [asked EXCEPT ![r] = now]
    /\ UNCHANGED <<now, serverVars, cache, computed, served>>

IsFreshOffByOne(snapshot, t) == snapshot.created >= t - TicksPerMinute

(* A cached snapshot is served if it is less than a minute old.            *)
IsFresh(snapshot, t) == snapshot.created > t - TicksPerMinute

Serve(r, snapshot) ==
    /\ stage' = [stage EXCEPT ![r] = "idle"]
    /\ asked' = [asked EXCEPT ![r] = 0]
    /\ served' = [asked |-> asked[r], totals |-> [c \in Clients |-> snapshot.clients[c].total]]

(* snapshot(): serve what is cached, or compute and await the cache's      *)
(* write lock.                                                             *)
Peek(r) ==
    /\ stage[r] = "peek"
    /\ IF cache # None /\ IsFresh(cache, asked[r])
       THEN Serve(r, cache) /\ UNCHANGED computed
       ELSE /\ stage' = [stage EXCEPT ![r] = "store"]
            /\ computed' = [computed EXCEPT ![r] = Snapshot(asked[r])]
            /\ UNCHANGED <<asked, served>>
    /\ UNCHANGED <<now, serverVars, cache>>

Store(r) ==
    /\ stage[r] = "store"
    /\ cache' = computed[r]
    /\ Serve(r, computed[r])
    /\ computed' = [computed EXCEPT ![r] = None]
    /\ UNCHANGED <<now, serverVars>>

(* The connection ends, at whatever await its task has reached: a request  *)
(* under way is dropped together with its guard.                           *)
CloseConnection(r) ==
    /\ stage[r] # "none"
    /\ stage' = [stage EXCEPT ![r] = "none"]
    /\ asked' = [asked EXCEPT ![r] = 0]
    /\ computed' = [computed EXCEPT ![r] = None]
    /\ UNCHANGED <<now, serverVars, cache, served>>

-----------------------------------------------------------------------------
StatNext ==
    \/ Passes \/ Publish \/ ReceiveBloop \/ RecordBloop \/ StopServer
    \/ \E r \in Readers :
        \/ AcceptConnection(r) \/ Request(r) \/ LockStats(r)
        \/ Peek(r) \/ Store(r) \/ CloseConnection(r)

StatSpec == StatInit /\ [][StatNext]_statVars

-----------------------------------------------------------------------------
HandledOf(c) == {i \in DOMAIN handled : handled[i].bloop.client = c}

(* The bloops of a client in one minute, as far as a u8 counts them.       *)
InMinute(c, m) ==
    Min({U8Max, Cardinality({i \in HandledOf(c) : MinuteOf(handled[i].bloop.at) = m})})

(* The bloops of a client in one local hour of the day, and those of them  *)
(* in the last 24 hours.                                                   *)
HandledInHour(c, h) == {i \in HandledOf(c) : LocalHour(handled[i].bloop.at) = h}
RecentInHour(c, h) ==
    {i \in HandledInHour(c, h) : handled[i].bloop.at >= now - MinutesInDay * TicksPerMinute}

(* The counters agree with the bloops that were counted: the windows of    *)
(* the last hour and the last 24 hours, across midnight and over slots     *)
(* that still hold another day, and the totals and days in local time.  An *)
(* hour of the day misses no bloop of the last 24 hours, which is what     *)
(* statistics.rs:95 says it is for, and counts nothing else as long as the *)
(* client has none in it that is older: those are never taken out again.   *)
CountsExact ==
    \A c \in Clients :
        LET s == stats[c] m == MinuteOf(now) IN
        /\ \A n \in {MinutesInHour, MinutesInDay} :
            CountLastMinutes(s, now, n) = MapThenSumSet(LAMBDA i : InMinute(c, m - i), 0..(n - 1))
        /\ s.total = Cardinality(HandledOf(c))
        /\ \A h \in Hours :
            /\ Cardinality(RecentInHour(c, h)) <= s.perHour[h]
            /\ RecentInHour(c, h) = HandledInHour(c, h) =>
                    s.perHour[h] = Cardinality(RecentInHour(c, h))
        /\ \A d \in Days :
            s.perDay[d] = Cardinality({i \in HandledOf(c) : LocalDate(handled[i].bloop.at) = d})

(* Whatever is served, from the cache or not, includes every bloop that    *)
(* was counted a minute or longer before the request asked.                *)
StaleByLessThanAMinute ==
    served # None =>
        \A c \in Clients :
            Cardinality({i \in HandledOf(c) : handled[i].when <= served.asked - TicksPerMinute})
                <= served.totals[c]

(* Numbers served never go down: a reader that computed a snapshot before  *)
(* others did may store it after them, but nothing is counted meanwhile,   *)
(* because it still holds the tracker's read guard.                        *)
TotalsNeverDecrease ==
    [][served # None =>
        \A c \in Clients : served'.totals[c] >= served.totals[c]]_statVars
=============================================================================
