------------------------------ MODULE BloopSink ------------------------------
(***************************************************************************)
(* ProcessedBloopSink of src/bloop.rs: it receives the engine's events     *)
(* from a tokio broadcast channel, buffers the processed bloops and writes *)
(* them to the application's repository in batches.                        *)
(*                                                                         *)
(* An event is its position in the history of the channel; of an event     *)
(* only matters whether it is a BloopProcessed.  The sink is one task: it  *)
(* selects between its flush timer and the channel, and while it awaits    *)
(* persist_batch it does neither.                                          *)
(***************************************************************************)
EXTENDS Naturals, Sequences, SequencesExt, FiniteSets

CONSTANTS
    Capacity,      \* capacity of the broadcast channel
    MaxBatchSize,  \* max_batch_size
    MaxEvents,     \* bound on the events sent
    MaxFailures    \* bound on failing persist_batch calls

ASSUME SinkAssumption ==
    /\ Capacity \in Nat \ {0}
    /\ MaxBatchSize \in Nat
    /\ MaxEvents \in Nat /\ MaxFailures \in Nat

VARIABLES
    log,       \* the channel: every event sent, TRUE for a BloopProcessed
    closed,    \* all senders are gone
    next,      \* the receiver's position
    buffer,    \* buffer
    batch,     \* the batch taken from the buffer while it is persisted
    pc,        \* "select", "persist", "final" (flush after the loop), "done"
    failures,  \* failed persist_batch calls so far
    stored,    \* the repository: bloops in the order they were written
    missed     \* history: bloops the receiver lagged behind

sinkVars == <<log, closed, next, buffer, batch, pc, failures, stored, missed>>

Positions == 1..MaxEvents

(* Types, and the shape of a flush: a batch exists exactly while it is     *)
(* persisted, and the buffer it was taken from is empty then.              *)
SinkTypeOK ==
    /\ log \in Seq(BOOLEAN) /\ Len(log) <= MaxEvents
    /\ closed \in BOOLEAN
    /\ next \in 1..(MaxEvents + 1)
    /\ buffer \in Seq(Positions) /\ batch \in Seq(Positions) /\ stored \in Seq(Positions)
    /\ pc \in {"select", "persist", "final", "finalPersist", "done"}
    /\ failures \in Nat
    /\ missed \in SUBSET Positions
    /\ pc \in {"persist", "finalPersist"} <=> batch # <<>>
    /\ batch # <<>> => buffer = <<>>

SinkInit ==
    /\ log = <<>> /\ closed = FALSE
    /\ next = 1
    /\ buffer = <<>> /\ batch = <<>>
    /\ pc = "select"
    /\ failures = 0
    /\ stored = <<>>
    /\ missed = {}

-----------------------------------------------------------------------------
(* The senders (external).                                                 *)
SendEvent ==
    /\ ~closed
    /\ Len(log) < MaxEvents
    /\ \E isBloop \in BOOLEAN : log' = Append(log, isBloop)
    /\ UNCHANGED <<closed, next, buffer, batch, pc, failures, stored, missed>>

CloseChannel ==
    /\ ~closed
    /\ closed' = TRUE
    /\ UNCHANGED <<log, next, buffer, batch, pc, failures, stored, missed>>

(* The channel keeps the last Capacity events for a receiver.              *)
Oldest == IF Len(log) > Capacity THEN Len(log) - Capacity + 1 ELSE 1

-----------------------------------------------------------------------------
(* flush up to the await of persist_batch, for a buffer bs: an empty       *)
(* buffer returns at once.                                                 *)
StartFlush(bs) ==
    IF bs = <<>> THEN UNCHANGED <<buffer, batch, pc>>
    ELSE buffer' = <<>> /\ batch' = bs /\ pc' = "persist"

FlushTickFullOnly ==
    /\ pc = "select"
    /\ Len(buffer) >= MaxBatchSize
    /\ StartFlush(buffer)
    /\ UNCHANGED <<log, closed, next, failures, stored, missed>>

(* The timer branch of the select.                                         *)
FlushTick ==
    /\ pc = "select"
    /\ StartFlush(buffer)
    /\ UNCHANGED <<log, closed, next, failures, stored, missed>>

(* handle_recv of a BloopProcessed: buffer it, flush a full batch.         *)
HandleBloop ==
    /\ pc = "select" /\ next \in Oldest..Len(log) /\ log[next]
    /\ LET pushed == Append(buffer, next) IN
        IF Len(pushed) >= MaxBatchSize
        THEN StartFlush(pushed)
        ELSE buffer' = pushed /\ UNCHANGED <<batch, pc>>
    /\ next' = next + 1
    /\ UNCHANGED <<log, closed, failures, stored, missed>>

(* handle_recv of any other event.                                         *)
HandleOther ==
    /\ pc = "select" /\ next \in Oldest..Len(log) /\ ~log[next]
    /\ next' = next + 1
    /\ UNCHANGED <<log, closed, buffer, batch, pc, failures, stored, missed>>

(* handle_recv of Lagged: the receiver resumes at the oldest event kept.   *)
HandleLagged ==
    /\ pc = "select" /\ next < Oldest
    /\ missed' = missed \cup {i \in next..(Oldest - 1) : log[i]}
    /\ next' = Oldest
    /\ StartFlush(buffer)
    /\ UNCHANGED <<log, closed, failures, stored>>

(* handle_recv of Closed, once everything sent was received.               *)
HandleClosed ==
    /\ pc = "select" /\ closed /\ next > Len(log)
    /\ pc' = "final"
    /\ UNCHANGED <<log, closed, next, buffer, batch, failures, stored, missed>>

PersistErrDrops ==
    /\ pc \in {"persist", "finalPersist"}
    /\ failures < MaxFailures
    /\ failures' = failures + 1
    /\ batch' = <<>>
    /\ pc' = IF pc = "persist" THEN "select" ELSE "done"
    /\ UNCHANGED <<log, closed, next, buffer, stored, missed>>

PersistErrReverses ==
    /\ pc \in {"persist", "finalPersist"}
    /\ failures < MaxFailures
    /\ failures' = failures + 1
    /\ buffer' = Reverse(batch)
    /\ batch' = <<>>
    /\ pc' = IF pc = "persist" THEN "select" ELSE "done"
    /\ UNCHANGED <<log, closed, next, stored, missed>>

(* persist_batch returned: Ok, or Err after which the batch goes back into *)
(* the buffer, which has stayed empty meanwhile.  The repository is the    *)
(* application's: an Err is taken to mean that it wrote nothing of the     *)
(* batch, since the code writes all of it again.                           *)
PersistOk ==
    /\ pc \in {"persist", "finalPersist"}
    /\ stored' = stored \o batch
    /\ batch' = <<>>
    /\ pc' = IF pc = "persist" THEN "select" ELSE "done"
    /\ UNCHANGED <<log, closed, next, buffer, failures, missed>>

PersistErr ==
    /\ pc \in {"persist", "finalPersist"}
    /\ failures < MaxFailures
    /\ failures' = failures + 1
    /\ buffer' = buffer \o batch
    /\ batch' = <<>>
    /\ pc' = IF pc = "persist" THEN "select" ELSE "done"
    /\ UNCHANGED <<log, closed, next, stored, missed>>

(* cancel_on_shutdown drops process_events at one of its awaits.  If that  *)
(* is persist_batch, the batch is dropped with it; the repository may or   *)
(* may not have written it by then.                                        *)
SinkShutdown ==
    /\ pc \in {"select", "persist"}
    /\ pc' = "final"
    /\ batch' = <<>>
    /\ stored' \in {stored, stored \o batch}
    /\ UNCHANGED <<log, closed, next, buffer, failures, missed>>

(* The flush after the loop in run.                                        *)
FinalFlush ==
    /\ pc = "final"
    /\ IF buffer = <<>> THEN pc' = "done" /\ UNCHANGED <<buffer, batch>>
       ELSE pc' = "finalPersist" /\ batch' = buffer /\ buffer' = <<>>
    /\ UNCHANGED <<log, closed, next, failures, stored, missed>>

-----------------------------------------------------------------------------
SinkStep ==
    \/ FlushTick \/ HandleBloop \/ HandleOther \/ HandleLagged \/ HandleClosed
    \/ PersistOk \/ PersistErr \/ FinalFlush

SinkNext == SendEvent \/ CloseChannel \/ SinkStep \/ SinkShutdown

SinkSpec == SinkInit /\ [][SinkNext]_sinkVars

(* The sink's task runs: its timer fires, it takes what the channel has,   *)
(* and persist_batch returns.  Only finitely many calls fail.              *)
SinkFairSpec ==
    /\ SinkSpec
    /\ WF_sinkVars(FlushTick)
    /\ WF_sinkVars(HandleBloop \/ HandleOther \/ HandleLagged \/ HandleClosed)
    /\ WF_sinkVars(PersistOk \/ PersistErr)
    /\ WF_sinkVars(FinalFlush)

-----------------------------------------------------------------------------
Held == ToSet(buffer) \cup ToSet(batch)

(* While the sink runs no bloop it received is lost: each is in the        *)
(* repository, waits in the buffer or is being written, whatever calls     *)
(* failed and whatever the receiver missed in between.                     *)
NoBloopLost ==
    pc \in {"select", "persist"} =>
        \A i \in 1..(next - 1) : log[i] => i \in Held \cup ToSet(stored) \cup missed

(* The repository gets every bloop at most once and in the order they were *)
(* processed, also when batches are retried and when a shutdown interrupts *)
(* one.                                                                    *)
StoredInOrder == \A i, j \in DOMAIN stored : i < j => stored[i] < stored[j]

(* Every bloop sent is eventually stored, unless the sink lagged behind it *)
(* or was shut down.                                                       *)
EventuallyStored ==
    \A i \in Positions :
        (i <= Len(log) /\ log[i]) ~>
            (i \in ToSet(stored) \cup missed \/ pc \in {"final", "finalPersist", "done"})
=============================================================================
