-------------------------------- MODULE Clock --------------------------------
(* The wall clock behind every Utc::now() of the engine, in whole ticks.     *)
(* It never steps back: the engine compares timestamps as if it did not.     *)
EXTENDS Naturals

CONSTANT MaxTime   \* bound on the time a run covers

ASSUME MaxTimeAssumption == MaxTime \in Nat

VARIABLE now

ClockTypeOK == now \in 0..MaxTime

ClockInit == now = 0

Tick == now < MaxTime /\ now' = now + 1
=============================================================================
