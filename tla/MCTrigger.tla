----------------------------- MODULE MCTrigger -----------------------------
(* Trigger registry with a tag of every occurrence, local and global, the   *)
(* boundary Times(0) included, on two clients.                              *)
EXTENDS TriggerRegistry, TLC

CONSTANTS c1, c2, ta, tb, uOnce, uTwice, uGlobal, uNever, uWhile

MCSpec(global, occurrence, n, trigger) ==
    [global |-> global, occurrence |-> occurrence, n |-> n, trigger |-> trigger]

MCTriggerSpecs ==
    uOnce :> MCSpec(FALSE, "Once", 1, ta) @@ uTwice :> MCSpec(FALSE, "Times", 2, tb) @@
    uGlobal :> MCSpec(TRUE, "Times", 2, ta) @@ uNever :> MCSpec(TRUE, "Times", 0, tb) @@
    uWhile :> MCSpec(FALSE, "Duration", 1, tb)

Symmetry == Permutations({c1, c2})
=============================================================================
