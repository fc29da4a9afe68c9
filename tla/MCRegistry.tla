----------------------------- MODULE MCRegistry -----------------------------
(* Player registry on a small instance; Objs bounds the players ever added. *)
EXTENDS PlayerRegistry, TLC

CONSTANTS p1, p2, p3, u1, u2, u3, o1, o2, o3, o4, a1

MCPids == {p1, p2, p3}
MCUids == {u1, u2, u3}
MCObjs == {o1, o2, o3, o4}
MCPlayers == [id: MCPids, uid: MCUids, awarded: SUBSET {a1}, bloops: {0, 1}]

Symmetry == Permutations(MCPids) \cup Permutations(MCUids) \cup Permutations(MCObjs)
=============================================================================
