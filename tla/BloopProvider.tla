---------------------------- MODULE BloopProvider ----------------------------
(***************************************************************************)
(* BloopCollection and BloopProvider of src/bloop.rs: recent bloops, all   *)
(* of them and per client, newest first.  A collection forgets what is     *)
(* older than max_age, but only from its back and only when a bloop is     *)
(* added to it, so the collections of two clients and the global one are   *)
(* pruned at different times.                                              *)
(***************************************************************************)
EXTENDS Clock, Domain, Sequences, SequencesExt

CONSTANT MaxAge   \* max_age, in ticks

ASSUME MaxAgeAssumption == MaxAge \in Nat

VARIABLES
    globalBloops,  \* global
    clientBloops,  \* per_client; a client without a collection has an empty one
    allBloops,     \* history: every bloop ever added, newest first
    addedAt        \* history: when bloops were last added or loaded

bloopVars == <<globalBloops, clientBloops, allBloops, addedAt>>

(* A Bloop: the player's id, the client and when it was recorded.          *)
Bloop == [pid: Pids, client: Clients, at: 0..MaxTime]

BloopTypeOK ==
    /\ globalBloops \in Seq(Bloop)
    /\ clientBloops \in [Clients -> Seq(Bloop)]
    /\ allBloops \in Seq(Bloop)
    /\ addedAt \in 0..MaxTime

(* Iterator::filter: the bloops among the first n of a sequence that are   *)
(* in a set, in their order, and all of them.                              *)
FilteredUpTo(bloops, set) ==
    LET kept[n \in 0..Len(bloops)] ==
            IF n = 0 THEN <<>>
            ELSE IF bloops[n] \in set THEN Append(kept[n - 1], bloops[n])
            ELSE kept[n - 1]
    IN  kept

Filtered(bloops, set) == FilteredUpTo(bloops, set)[Len(bloops)]

(* for_client as it would be without pruning.                              *)
OfClient(bloops, c) == Filtered(bloops, {b \in Bloop : b.client = c})

(* with_bloops: the stored bloops sorted newest first, without pruning, and *)
(* grouped by client; the sort is stable, so grouping first changes nothing. *)
BloopInit(seed) ==
    /\ allBloops = seed
    /\ globalBloops = seed
    /\ clientBloops = [c \in Clients |-> OfClient(seed, c)]
    /\ addedAt = now

PruneTooMuch(bloops) ==
    LET kept == {i \in DOMAIN bloops : bloops[i].at + MaxAge > now} IN
    SubSeq(bloops, 1, CHOOSE n \in kept \cup {0} : \A i \in kept : i <= n)

PruneOne(bloops) ==
    IF bloops # <<>> /\ Last(bloops).at + MaxAge < now THEN Front(bloops) ELSE bloops

(* The loop of BloopCollection::add: pop from the back while the oldest    *)
(* bloop is older than the threshold now - max_age.                        *)
Prune(bloops) ==
    LET kept == {i \in DOMAIN bloops : bloops[i].at + MaxAge >= now} IN
    SubSeq(bloops, 1, CHOOSE n \in kept \cup {0} : \A i \in kept : i <= n)

(* BloopCollection::add: prune, then push_front.                           *)
Pushed(bloops, b) == <<b>> \o Prune(bloops)

AddBloopAtBack(b) ==
    /\ globalBloops' = Pushed(globalBloops, b)
    /\ clientBloops' = [clientBloops EXCEPT ![b.client] = Prune(@) \o <<b>>]
    /\ allBloops' = <<b>> \o allBloops
    /\ addedAt' = now

(* BloopProvider::add.                                                     *)
AddBloop(b) ==
    /\ globalBloops' = Pushed(globalBloops, b)
    /\ clientBloops' = [clientBloops EXCEPT ![b.client] = Pushed(@, b)]
    /\ allBloops' = <<b>> \o allBloops
    /\ addedAt' = now

-----------------------------------------------------------------------------
CONSTANT MaxSeed   \* bound: stored bloops

ASSUME MaxSeedAssumption == MaxSeed \in Nat

NewestFirst(bloops) == \A i, j \in DOMAIN bloops : i < j => bloops[i].at >= bloops[j].at

(* A server that starts at any time, with bloops recorded before.          *)
ProviderInit ==
    /\ now \in 0..MaxTime
    /\ \E seed \in BoundedSeq(Bloop, MaxSeed) :
        /\ NewestFirst(seed)
        /\ \A i \in DOMAIN seed : seed[i].at <= now
        /\ BloopInit(seed)

(* What the engine does with a provider: it makes a bloop, evaluates it and *)
(* adds it some time later, and it handles one bloop after the other.       *)
Record ==
    \E p \in Pids, c \in Clients, at \in addedAt..now :
        /\ AddBloop([pid |-> p, client |-> c, at |-> at])
        /\ UNCHANGED now

ProviderNext == Record \/ (Tick /\ UNCHANGED bloopVars)

ProviderSpec == ProviderInit /\ [][ProviderNext]_<<now, bloopVars>>

-----------------------------------------------------------------------------
(* A collection that has forgotten the oldest bloops of its history only,  *)
(* and only those that are older than max_age at the given time.           *)
IsWindow(bloops, history, time) ==
    /\ IsPrefix(bloops, history)
    /\ \A i \in DOMAIN history : i > Len(bloops) => history[i].at + MaxAge < time

(* The bloops a collection has forgotten are exactly the oldest ones of    *)
(* its history, and each of them was older than max_age when a bloop was   *)
(* last added, to whichever collection.  An evaluator that looks back at   *)
(* most max_age from a bloop made since sees every bloop there was, in     *)
(* order, globally and per client, however long that bloop is under way.   *)
NothingRecentForgotten ==
    /\ IsWindow(globalBloops, allBloops, addedAt)
    /\ \A c \in Clients : IsWindow(clientBloops[c], OfClient(allBloops, c), addedAt)

(* What the global collection remembers of a client is what the client's   *)
(* own collection starts with: global() never shows a bloop, or an order   *)
(* of bloops, that for_client() does not.                                  *)
ClientViewCoversGlobal ==
    \A c \in Clients : IsPrefix(OfClient(globalBloops, c), clientBloops[c])

(* A collection that has just been added to holds no bloop older than      *)
(* max_age besides the new one, so a busy client's memory is bounded by    *)
(* what happens within max_age.                                            *)
PrunedOnAdd ==
    [][\A c \in Clients :
        Len(OfClient(allBloops', c)) > Len(OfClient(allBloops, c)) =>
            /\ \A i \in 2..Len(clientBloops'[c]) : clientBloops'[c][i].at + MaxAge >= now
            /\ \A i \in 2..Len(globalBloops') : globalBloops'[i].at + MaxAge >= now]_<<now, bloopVars>>
=============================================================================
