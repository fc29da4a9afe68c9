---------------------------- MODULE MCStatistics ----------------------------
(* The statistics server with days of two minutes.  Readers come until the  *)
(* next local day has begun, bloops are counted for longer.                 *)
EXTENDS Statistics, TLC

CONSTANT ReaderTime   \* bound: nobody reads any more after this time

ReadersLeave == now' > ReaderTime => \A r \in Readers : stage'[r] = "none"

Interchangeable == Permutations(Readers)
=============================================================================
