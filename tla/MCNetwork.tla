----------------------------- MODULE MCNetwork -----------------------------
(* The network listener on small instances.                                *)
EXTENDS Network
=============================================================================
