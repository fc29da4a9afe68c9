--------------------------- MODULE TriggerRegistry ---------------------------
(***************************************************************************)
(* The trigger registry of src/trigger.rs.  Scanning a tag that has a      *)
(* trigger specification arms a trigger; evaluators later ask, for the     *)
(* client of the bloop, whether a given trigger is active, and asking uses *)
(* it up.  A client has at most one armed local trigger and there is at    *)
(* most one armed global trigger; both live in `active`, one slot each.    *)
(***************************************************************************)
EXTENDS Clock, Domain

CONSTANTS
    Triggers,     \* the application's trigger values (T)
    TriggerSpecs  \* trigger_specs: from some of the Uids to their TriggerSpec

Global == "global"
Slots == Clients \cup {Global}

TriggerSpec ==
    [global: BOOLEAN, occurrence: {"Once", "Times", "Duration"}, n: Nat, trigger: Triggers]

ASSUME TriggerAssumption ==
    /\ Global \notin Clients
    /\ DOMAIN TriggerSpecs \subseteq Uids
    /\ \A u \in DOMAIN TriggerSpecs : TriggerSpecs[u] \in TriggerSpec

VARIABLES
    active,  \* active_local_triggers and active_global_trigger
    hits,    \* history: checks answered TRUE since the slot was last armed
    armedBy  \* history: the tag that last armed the slot

triggerVars == <<active, hits, armedBy>>

(* An ActiveTrigger, with the tag standing for its copied specification;   *)
(* NoTrigger is an empty slot.                                             *)
ActiveTrigger == [uid: DOMAIN TriggerSpecs, at: 0..MaxTime, usages: Nat]
NoTrigger == [uid |-> None]

TriggerTypeOK ==
    /\ active \in [Slots -> ActiveTrigger \cup {NoTrigger}]
    /\ hits \in [Slots -> Nat]
    /\ armedBy \in [Slots -> DOMAIN TriggerSpecs \cup {None}]

Armed(s) == active[s].uid # None
SpecOf(s) == TriggerSpecs[active[s].uid]

TriggerInit ==
    /\ active = [s \in Slots |-> NoTrigger]
    /\ hits = [s \in Slots |-> 0]
    /\ armedBy = [s \in Slots |-> None]

-----------------------------------------------------------------------------
(* How often a trigger with this specification may be used (Once, Times).  *)
Uses(spec) == IF spec.occurrence = "Once" THEN 1 ELSE spec.n

IsActiveOffByOne(s, time) ==
    CASE SpecOf(s).occurrence = "Once"     -> TRUE
      [] SpecOf(s).occurrence = "Times"    -> active[s].usages <= SpecOf(s).n
      [] SpecOf(s).occurrence = "Duration" -> active[s].at + SpecOf(s).n >= time

(* ActiveTrigger::check for a trigger value that matches: is it active at  *)
(* the reference time ...                                                  *)
IsActive(s, time) ==
    CASE SpecOf(s).occurrence = "Once"     -> TRUE
      [] SpecOf(s).occurrence = "Times"    -> active[s].usages < SpecOf(s).n
      [] SpecOf(s).occurrence = "Duration" -> active[s].at + SpecOf(s).n >= time

(* ... and is it kept after this check.                                    *)
IsRetained(s, time) ==
    CASE SpecOf(s).occurrence = "Once"     -> FALSE
      [] SpecOf(s).occurrence = "Times"    -> active[s].usages + 1 < SpecOf(s).n
      [] SpecOf(s).occurrence = "Duration" -> active[s].at + SpecOf(s).n >= time

(* The slot check_active_trigger looks at: the client's own if it is       *)
(* armed, whatever with, and the global one only otherwise.                *)
SlotFor(c) == IF Armed(c) THEN c ELSE Global

(* The answer check_active_trigger gives for trigger t at client c.        *)
HasTrigger(c, t, time) ==
    LET s == SlotFor(c) IN Armed(s) /\ SpecOf(s).trigger = t /\ IsActive(s, time)

(* The rest of check_active_trigger: count the use and drop the trigger    *)
(* unless it is retained.  A value that does not match changes nothing.    *)
UseTrigger(c, t, time) ==
    LET s == SlotFor(c) IN
    /\ active' =
        IF ~Armed(s) \/ SpecOf(s).trigger # t THEN active
        ELSE IF ~IsRetained(s, time) THEN [active EXCEPT ![s] = NoTrigger]
        ELSE IF SpecOf(s).occurrence = "Times" THEN [active EXCEPT ![s].usages = @ + 1]
        ELSE active
    /\ hits' = IF HasTrigger(c, t, time) THEN [hits EXCEPT ![s] = @ + 1] ELSE hits
    /\ UNCHANGED armedBy

ActivateKeepsUsages(u, c) ==
    LET s == IF TriggerSpecs[u].global THEN Global ELSE c IN
    /\ active' = [active EXCEPT ![s] = [uid |-> u, at |-> now,
                                        usages |-> IF Armed(s) THEN active[s].usages ELSE 0]]
    /\ hits' = [hits EXCEPT ![s] = 0]
    /\ armedBy' = [armedBy EXCEPT ![s] = u]

(* try_activate_trigger: whatever the slot held is overwritten.            *)
Activate(u, c) ==
    LET s == IF TriggerSpecs[u].global THEN Global ELSE c IN
    /\ active' = [active EXCEPT ![s] = [uid |-> u, at |-> now, usages |-> 0]]
    /\ hits' = [hits EXCEPT ![s] = 0]
    /\ armedBy' = [armedBy EXCEPT ![s] = u]

-----------------------------------------------------------------------------
CONSTANT MaxHits   \* bound on the counted checks of one Duration trigger

ArmTrigger == \E u \in DOMAIN TriggerSpecs, c \in Clients : Activate(u, c) /\ UNCHANGED now

(* has_trigger asks with the time the bloop was recorded, which is at most *)
(* as late as the clock.                                                   *)
CheckTrigger ==
    \E c \in Clients, t \in Triggers :
        /\ hits[SlotFor(c)] < MaxHits
        /\ UseTrigger(c, t, now)
        /\ UNCHANGED now

TriggerNext == ArmTrigger \/ CheckTrigger \/ (Tick /\ UNCHANGED triggerVars)

TriggersAtStart == ClockInit /\ TriggerInit

TriggerSpecification == TriggersAtStart /\ [][TriggerNext]_<<now, triggerVars>>

-----------------------------------------------------------------------------
(* A Once or Times(n) trigger answers TRUE at most once or n times for one *)
(* scan that arms it, also when a global trigger is used up by bloops of   *)
(* several clients and when n is zero.                                     *)
UsesBounded ==
    \A s \in Slots :
        armedBy[s] # None /\ TriggerSpecs[armedBy[s]].occurrence # "Duration" =>
            hits[s] <= Uses(TriggerSpecs[armedBy[s]])

(* No use is lost and no spent trigger stays: a Once or Times trigger is   *)
(* armed exactly as long as fewer matching checks were answered than it    *)
(* has uses (Times(0) is armed until the first check removes it).          *)
ArmedWhileUsesLeft ==
    \A s \in Slots :
        armedBy[s] # None /\ TriggerSpecs[armedBy[s]].occurrence # "Duration" =>
            LET n == Uses(TriggerSpecs[armedBy[s]]) IN
            /\ hits[s] < n => Armed(s)
            /\ Armed(s) => hits[s] < n \/ n = 0

(* "The registry automatically manages ... expiration of active triggers": *)
(* a trigger that has run out does not keep a client from a live global    *)
(* trigger ("global (affects all clients)").                               *)
ExpiredDoesNotShadow ==
    \A c \in Clients, t \in Triggers :
        /\ Armed(c) /\ SpecOf(c).occurrence = "Duration" /\ ~IsActive(c, now)
        /\ Armed(Global) /\ SpecOf(Global).trigger = t /\ IsActive(Global, now)
        => HasTrigger(c, t, now)
=============================================================================
