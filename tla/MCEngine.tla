------------------------------ MODULE MCEngine ------------------------------
(* The engine on small instances: two players, one with bloops enough for   *)
(* an achievement it lacks, whom the application may change, replace or     *)
(* give the other's tag, a trigger tag, a hot achievement, a triggered one  *)
(* and one for a second bloop.                                              *)
EXTENDS Engine, TLC

CONSTANTS c1, k1, k2, p1, p2, u1, u2, ut, o1, o2, o3, hotOne, trigOne, minOne, t1

NewPlayer(p, u, aids, n) == [id |-> p, uid |-> u, awarded |-> aids, bloops |-> n]

MCLoaded == o1 :> NewPlayer(p1, u1, {}, 1) @@ o2 :> NewPlayer(p2, u2, {}, 2)
MCPlayers ==
    {NewPlayer(p1, u1, {minOne}, 0), NewPlayer(p1, u2, {}, 2), NewPlayer(p2, u1, {hotOne}, 1)}
MCTriggerSpecs ==
    ut :> [global |-> TRUE, occurrence |-> "Times", n |-> 2, trigger |-> t1]
MCTriggerOf == [a \in Aids |-> IF a = trigOne THEN t1 ELSE None]
MCMinBloopsOf == [a \in Aids |-> IF a = minOne THEN 2 ELSE None]
MCHotDuration == [a \in Aids |-> 1]

(* Of a bloop stored before the start, a call of the application and the    *)
(* last scan, a behaviour has one.                                          *)
OneOccasion ==
    /\ loadedBloops # <<>> => appCalls' = 0
    /\ sent' = MaxRequests => appCalls' = 0 /\ loadedBloops = <<>>

OneClient == [k \in Conns |-> c1]

Scan(u) == [kind |-> "Bloop", uid |-> u]
PlayerScans == {Scan(u1), Scan(u2)}
AllRequests == Request
=============================================================================
