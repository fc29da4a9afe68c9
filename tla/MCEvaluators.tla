---------------------------- MODULE MCEvaluators ----------------------------
(* Bloop provider and evaluators on two clients and three players; while    *)
(* nothing has happened yet, the clock runs on through a day with a switch  *)
(* of the clocks, and the registration numbers are gone through.            *)
EXTENDS Evaluators, TimeEvaluator

CONSTANTS
    c1, c2, p1, p2, p3, a, b, u, x,
    HistoryTime,  \* bound: bloops are recorded up to this time
    MaxBloops     \* bound: bloops ever

(* 13 and 2 are prime and Fibonacci numbers, 4 is a square, and 13 and 4    *)
(* have the same digit sum: p1 and p3 make a streak of two.                 *)
MCNumbers == (p1 :> 13) @@ (p2 :> 4) @@ (p3 :> 2)

MCExtractors ==
    {(p1 :> Single(1)) @@ (p2 :> Single(2)) @@ (p3 :> Single(2)),
     (p1 :> Multiple({1, 2})) @@ (p2 :> Single(1)) @@ (p3 :> Abort)}

MCBytes == (a :> 1) @@ (b :> 1) @@ (u :> 2) @@ (x :> 1)
MCCharMap == (a :> c1) @@ (b :> c2) @@ (u :> c1)

MCZones ==
    {[switch |-> 0, before |-> 4, after |-> 4],
     [switch |-> 16, before |-> 0, after |-> 4],
     [switch |-> 16, before |-> 4, after |-> 0]}

vars == <<now, bloopVars, number>>

MCInit ==
    /\ ProviderInit /\ NumberInit
    /\ now > HistoryTime => allBloops = <<>>

MCNext ==
    \/ /\ now < HistoryTime /\ number = 0
       /\ ProviderNext /\ Len(allBloops') <= MaxBloops
       /\ UNCHANGED number
    \/ allBloops = <<>> /\ number = 0 /\ Tick /\ UNCHANGED <<bloopVars, number>>
    \/ allBloops = <<>> /\ now = 0 /\ NumberNext /\ UNCHANGED <<now, bloopVars>>

MCSpec == MCInit /\ [][MCNext]_vars
=============================================================================
