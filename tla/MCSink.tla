------------------------------- MODULE MCSink -------------------------------
(* The sink behind a channel small enough to overflow.                      *)
EXTENDS BloopSink
=============================================================================
