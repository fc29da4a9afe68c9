--------------------------- MODULE MCRegistries ---------------------------
(* The player registry and the trigger registry, which share nothing but    *)
(* the tags, each on a small instance and in one state space: a registry    *)
(* steps only while the other one is still at its start.  Players carry the  *)
(* tags u1..u3; the other tags have a trigger of every occurrence, local    *)
(* and global, the boundary Times(0) included.                              *)
EXTENDS PlayerRegistry, TriggerRegistry, TLC

CONSTANTS
    p1, p2, p3, u1, u2, u3, o1, o2, o3, o4, a1,
    c1, c2, ta, tb, uOnce, uTwice, uGlobal, uNever, uWhile

MCPids == {p1, p2, p3}
MCPlayerUids == {u1, u2, u3}
MCTriggerUids == {uOnce, uTwice, uGlobal, uNever, uWhile}
MCUids == MCPlayerUids \cup MCTriggerUids
MCObjs == {o1, o2, o3, o4}
MCClients == {c1, c2}
MCPlayers == [id: MCPids, uid: MCPlayerUids, awarded: SUBSET {a1}, bloops: {0, 1}]

MCTriggerSpec(global, occurrence, n, trigger) ==
    [global |-> global, occurrence |-> occurrence, n |-> n, trigger |-> trigger]

MCTriggerSpecs ==
    uOnce :> MCTriggerSpec(FALSE, "Once", 1, ta) @@
    uTwice :> MCTriggerSpec(FALSE, "Times", 2, tb) @@
    uGlobal :> MCTriggerSpec(TRUE, "Times", 2, ta) @@
    uNever :> MCTriggerSpec(TRUE, "Times", 0, tb) @@
    uWhile :> MCTriggerSpec(FALSE, "Duration", 1, tb)

MCInit == RegistryInit /\ TriggersAtStart

MCNext ==
    \/ TriggersAtStart /\ CarefulNext /\ UNCHANGED <<now, triggerVars>>
    \/ RegistryInit /\ TriggerNext /\ UNCHANGED registryVars

MCSpec == MCInit /\ [][MCNext]_<<now, registryVars, triggerVars>>

Symmetry == Permutations(MCPids) \cup Permutations(MCObjs)
=============================================================================
