---------------------------- MODULE HealthMonitor ----------------------------
(***************************************************************************)
(* HealthMonitor of src/health_monitor/mod.rs: from the client events of   *)
(* the broadcast channel it keeps a health and a short history per client, *)
(* which a timer examines, and hands reports to a sender that may fail.    *)
(*                                                                         *)
(* Only the distance of a timestamp to the present matters, so an event    *)
(* keeps its age instead, up to the age from which nothing depends on it.  *)
(* The handlers run to the end before the task selects again; what happens *)
(* while one awaits its sender is the same as if it happened afterwards.   *)
(* The local IP and `since`, which only the report's text shows, are left  *)
(* out.                                                                    *)
(***************************************************************************)
EXTENDS ConnectionEvents, SequencesExt, FiniteSets, FiniteSetsExt

CONSTANTS
    None,
    Known,                \* client_ids the monitor is built with
    MaxClientEvents,      \* max_client_events
    ConnectionLossLimit,  \* connection_loss_limit
    OfflineGrace,         \* offline_grace_period
    LossWindow,           \* connection_loss_window
    RecoveryGrace,        \* recovery_grace_period
    Capacity,             \* capacity of the broadcast channel
    MaxOverlap,           \* connections a client may have open at a time
    SenderFails           \* whether the report sender may fail

ASSUME HealthAssumption ==
    /\ None \notin Clients /\ Known \subseteq Clients
    /\ ConnIds \subseteq Nat
    /\ MaxClientEvents \in Nat /\ MaxClientEvents >= 2          \* checked by build
    /\ ConnectionLossLimit \in Nat /\ ConnectionLossLimit >= 1  \* checked by build
    /\ OfflineGrace \in Nat /\ LossWindow \in Nat /\ RecoveryGrace \in Nat
    /\ Capacity \in Nat \ {0} /\ MaxOverlap \in Nat \ {0}
    /\ SenderFails \in BOOLEAN

VARIABLES
    next,       \* the monitor's position in the channel
    lagged,     \* history: the monitor missed events
    state,      \* "start", "listen" or "done"
    report,     \* report.clients: client -> its status, None if unknown
    handed,     \* the healths of the last report handed to the sender ...
    silent,     \* ... and whether it was silent
    delivered,  \* the healths of the last report the sender delivered
    losses      \* history: the ages of all losses handled for a client

reportVars == <<handed, silent, delivered>>
monitorVars == <<next, lagged, state, report, losses>>
healthVars == <<eventVars, monitorVars, reportVars>>

Health == {"Healthy", "Unstable", "Offline"}
Rank == [h \in Health |-> IF h = "Healthy" THEN 0 ELSE IF h = "Unstable" THEN 1 ELSE 2]

(* The age from which no comparison changes any more.                      *)
MaxAge == Max({OfflineGrace, LossWindow, RecoveryGrace}) + 1
Past == [kind: {"Connect"} \cup Ends, conn: ConnIds, age: 0..MaxAge]
Status == [health: Health, events: Seq(Past)]
DefaultStatus == [health |-> "Offline", events |-> <<>>]

ASSUME StatusAssumption == None \notin Status

HealthTypeOK ==
    /\ EventsTypeOK
    /\ next \in Nat \ {0}
    /\ lagged \in BOOLEAN /\ silent \in BOOLEAN
    /\ state \in {"start", "listen", "done"}
    /\ report \in [Clients -> Status \cup {None}]
    /\ handed \in [Clients -> Health \cup {None}]
    /\ delivered \in [Clients -> Health \cup {None}]
    /\ losses \in [Clients -> Seq(0..MaxAge)]

HealthInit ==
    /\ EventsInit
    /\ next = 1 /\ lagged = FALSE
    /\ state = "start"
    /\ report = [c \in Clients |-> IF c \in Known THEN DefaultStatus ELSE None]
    /\ handed = [c \in Clients |-> None]
    /\ silent = FALSE
    /\ delivered = [c \in Clients |-> None]
    /\ losses = [c \in Clients |-> <<>>]

-----------------------------------------------------------------------------
(* The environment.  A box opens its connections one after the other, the  *)
(* next one possibly before the server has noticed the loss of the last.   *)
Opens ==
    /\ \E k \in ConnIds, c \in Clients :
        /\ Cardinality({j \in ConnIds : phase[j] = "open" /\ ClientOfConn(j) = c}) < MaxOverlap
        /\ \A i \in DOMAIN sent : sent[i].client = c => sent[i].conn <= k
        /\ Announce(k, c)
    /\ UNCHANGED <<monitorVars, reportVars>>

Closes ==
    /\ \E k \in ConnIds, kind \in Ends : End(k, kind)
    /\ UNCHANGED <<monitorVars, reportVars>>

Older(age) == IF age < MaxAge THEN age + 1 ELSE age
Aged(events) == [i \in DOMAIN events |-> [events[i] EXCEPT !.age = Older(events[i].age)]]

Passes ==
    /\ report' = [c \in Clients |->
                    IF report[c] = None THEN None
                    ELSE [report[c] EXCEPT !.events = Aged(@)]]
    /\ losses' = [c \in Clients |-> [i \in DOMAIN losses[c] |-> Older(losses[c][i])]]
    /\ UNCHANGED <<eventVars, next, lagged, state, reportVars>>

(* The channel keeps the last Capacity events for a receiver.              *)
Oldest == IF Len(sent) > Capacity THEN Len(sent) - Capacity + 1 ELSE 1

-----------------------------------------------------------------------------
Healths(rep) == [c \in Clients |-> IF rep[c] = None THEN None ELSE rep[c].health]

(* send_report: the sender's error is logged, the report is not kept.      *)
SendReport(rep, quiet) ==
    /\ handed' = Healths(rep)
    /\ silent' = quiet
    /\ delivered' \in {Healths(rep)} \cup (IF SenderFails THEN {delivered} ELSE {})

(* listen: the first report.                                               *)
StartListening ==
    /\ state = "start"
    /\ state' = "listen"
    /\ SendReport(report, FALSE)
    /\ UNCHANGED <<eventVars, next, lagged, report, losses>>

PushedTooShort(events, kind, k) ==
    LET longer == <<[kind |-> kind, conn |-> k, age |-> 0]>> \o events IN
    IF Len(longer) >= MaxClientEvents THEN Front(longer) ELSE longer

(* push_front, and pop_back beyond max_client_events.                      *)
Pushed(events, kind, k) ==
    LET longer == <<[kind |-> kind, conn |-> k, age |-> 0]>> \o events IN
    IF Len(longer) > MaxClientEvents THEN Front(longer) ELSE longer

(* entry(client_id).or_default()                                           *)
Entry(c) == IF report[c] = None THEN DefaultStatus ELSE report[c]

(* handle_event_recv gets the next event, of the given kind.               *)
Receive(kind) ==
    /\ state = "listen"
    /\ next \in Oldest..Len(sent)
    /\ sent[next].kind = kind
    /\ next' = next + 1
    /\ UNCHANGED <<eventVars, lagged, state>>

Recorded(health) ==
    LET e == sent[next] IN
    [report EXCEPT ![e.client] =
        [health |-> health, events |-> Pushed(Entry(e.client).events, e.kind, e.conn)]]

HandleConnect ==
    /\ Receive("Connect")
    /\ LET old == Entry(sent[next].client).health IN
        /\ report' = Recorded(IF old = "Offline" THEN "Healthy" ELSE old)
        /\ IF old = "Offline" THEN SendReport(report', TRUE) ELSE UNCHANGED reportVars
    /\ UNCHANGED losses

HandleDisconnect ==
    /\ Receive("Disconnect")
    /\ report' = Recorded("Offline")
    /\ SendReport(report', TRUE)
    /\ UNCHANGED losses

HandleConnectionLoss ==
    /\ Receive("ConnectionLoss")
    /\ report' = Recorded(Entry(sent[next].client).health)
    /\ losses' = [losses EXCEPT ![sent[next].client] = <<0>> \o @]
    /\ UNCHANGED reportVars

(* Lagged: the missed events are gone, the receiver resumes at the oldest. *)
HandleLagged ==
    /\ state = "listen"
    /\ next < Oldest
    /\ next' = Oldest
    /\ lagged' = TRUE
    /\ UNCHANGED <<eventVars, state, report, reportVars, losses>>

-----------------------------------------------------------------------------
LatestUnsorted(events) == events[1]

(* Of the two newest events, the one of the newer connection, the newer    *)
(* event if they are of the same one.                                      *)
Latest(events) ==
    IF Len(events) >= 2 /\ events[2].conn > events[1].conn THEN events[2] ELSE events[1]

(* The losses counted back to the first event outside the window.          *)
RecentLosses(events) ==
    LET outside == {i \in DOMAIN events : events[i].age > LossWindow}
        upTo == IF outside = {} THEN Len(events) ELSE Min(outside) - 1
    IN Cardinality({i \in 1..upTo : events[i].kind = "ConnectionLoss"})

CheckedUnstableOnly(s) ==
    IF s.health = "Offline" \/ s.events = <<>> THEN s.health
    ELSE LET latest == Latest(s.events) IN
        IF s.health = "Unstable" /\ latest.kind = "ConnectionLoss" /\ latest.age >= OfflineGrace
        THEN "Offline"
        ELSE IF s.health = "Unstable" /\ latest.kind = "Connect" /\ latest.age >= RecoveryGrace
        THEN "Healthy"
        ELSE IF s.health = "Healthy" /\ RecentLosses(s.events) >= ConnectionLossLimit
        THEN "Unstable"
        ELSE s.health

(* The body of the loop in check_clients.                                  *)
Checked(s) ==
    IF s.health = "Offline" \/ s.events = <<>> THEN s.health
    ELSE LET latest == Latest(s.events) IN
        IF latest.kind = "ConnectionLoss" /\ latest.age >= OfflineGrace THEN "Offline"
        ELSE IF s.health = "Unstable" /\ latest.kind = "Connect" /\ latest.age >= RecoveryGrace
        THEN "Healthy"
        ELSE IF s.health = "Healthy" /\ RecentLosses(s.events) >= ConnectionLossLimit
        THEN "Unstable"
        ELSE s.health

(* The clients a check found worse, and better.                            *)
Worsened == {c \in Clients : report[c] # None /\ Rank[Checked(report[c])] > Rank[report[c].health]}
Recovered == {c \in Clients : report[c] # None /\ Rank[Checked(report[c])] < Rank[report[c].health]}

CheckReportSilentOnRecovery(rep) ==
    \/ Recovered # {} /\ SendReport(rep, TRUE)
    \/ Recovered = {} /\ Worsened # {} /\ SendReport(rep, FALSE)
    \/ Recovered = {} /\ Worsened = {} /\ UNCHANGED reportVars

CheckReportAlertsOnly(rep) ==
    \/ Worsened # {} /\ SendReport(rep, FALSE)
    \/ Worsened = {} /\ UNCHANGED reportVars

(* One report for all updates; it alerts if one of them is for the worse.  *)
CheckReport(rep) ==
    \/ Worsened # {} /\ SendReport(rep, FALSE)
    \/ Worsened = {} /\ Recovered # {} /\ SendReport(rep, TRUE)
    \/ Worsened = {} /\ Recovered = {} /\ UNCHANGED reportVars

(* check_clients, when check_interval ticks.                               *)
CheckClients ==
    /\ state = "listen"
    /\ report' = [c \in Clients |->
                    IF report[c] = None THEN None
                    ELSE [report[c] EXCEPT !.health = Checked(report[c])]]
    /\ CheckReport(report')
    /\ UNCHANGED <<eventVars, next, lagged, state, losses>>

SendReminderUnstable ==
    /\ state = "listen"
    /\ IF \E c \in Clients : report[c] # None /\ report[c].health = "Unstable"
       THEN SendReport(report, FALSE)
       ELSE UNCHANGED reportVars
    /\ UNCHANGED <<eventVars, monitorVars>>

(* send_reminder, when reminder_interval ticks.                            *)
SendReminder ==
    /\ state = "listen"
    /\ IF \E c \in Clients : report[c] # None /\ report[c].health # "Healthy"
       THEN SendReport(report, FALSE)
       ELSE UNCHANGED reportVars
    /\ UNCHANGED <<eventVars, monitorVars>>

(* The channel is closed, or cancel_on_shutdown drops listen.              *)
StopListening ==
    /\ state # "done"
    /\ state' = "done"
    /\ UNCHANGED <<eventVars, next, lagged, report, reportVars, losses>>

-----------------------------------------------------------------------------
Handle == HandleConnect \/ HandleDisconnect \/ HandleConnectionLoss \/ HandleLagged

HealthNext ==
    \/ Opens \/ Closes \/ Passes
    \/ StartListening \/ Handle \/ CheckClients \/ SendReminder \/ StopListening

HealthSpec == HealthInit /\ [][HealthNext]_healthVars

(* Time passes, the task runs, its timers fire, and a sender that is asked *)
(* again and again delivers now and then.                                  *)
HealthFairness ==
    /\ WF_healthVars(Passes)
    /\ WF_healthVars(StartListening)
    /\ WF_healthVars(Handle)
    /\ WF_healthVars(CheckClients)
    /\ SF_healthVars(SendReminder /\ delivered' = Healths(report))

HealthFairSpec == HealthSpec /\ HealthFairness

-----------------------------------------------------------------------------
(* The newest connection of a client the monitor has heard of.             *)
HeardOf(c) == {sent[i].conn : i \in {j \in 1..(next - 1) : sent[j].client = c}}
Ended(k) == \E i \in 1..(next - 1) : sent[i].conn = k /\ sent[i].kind \in Ends

(* A check puts no client offline whose newest connection has not ended as *)
(* far as the monitor was told: the loss of an older connection may be     *)
(* reported after the client is back.                                      *)
LateLossHarmless ==
    [][\A c \in Clients :
        /\ next' = next /\ ~lagged
        /\ report[c] # None /\ report[c].health # "Offline" /\ report'[c].health = "Offline"
        => Ended(Max(HeardOf(c)))]_healthVars

(* Every event the history holds is within the window.                     *)
FullOfRecentEvents(s) == Len(s.events) = MaxClientEvents /\ Last(s.events).age <= LossWindow

(* A healthy client that has lost as many connections within the window as *)
(* the limit allows does not pass the next check as healthy, although      *)
(* counting stops at the first event outside the window and the history is *)
(* cut off: only a history full of events within the window may hide one.  *)
NoLossOverlooked ==
    \A c \in Clients :
        /\ report[c] # None /\ report[c].health = "Healthy"
        /\ Cardinality({i \in DOMAIN losses[c] : losses[c][i] <= LossWindow}) >= ConnectionLossLimit
        => Checked(report[c]) # "Healthy" \/ FullOfRecentEvents(report[c])

(* Whoever receives the reports knows the health of every client it was    *)
(* ever told of: there is no change of health without a report.            *)
ReportsComplete ==
    state = "listen" =>
        \A c \in Clients : report[c] # None =>
            handed[c] = report[c].health \/ (handed[c] = None /\ report[c].health = "Offline")

(* What a check finds worse is never reported silently, even if the same   *)
(* check finds that another client has recovered.                          *)
WorseIsLoud ==
    [][\A c \in Clients :
        CheckClients /\ report[c] # None /\ Rank[report'[c].health] > Rank[report[c].health]
        => ~silent' /\ handed' = Healths(report')]_healthVars

(* A client that stays unhealthy is eventually seen as such by the         *)
(* receiver of the reports, although sending an alert may fail.            *)
UnhealthyIsDelivered ==
    \A c \in Clients :
        []<>(\/ state = "done"
             \/ report[c] = None
             \/ report[c].health = "Healthy"
             \/ delivered[c] = report[c].health)

(* A client without a connection is eventually offline in the report, or   *)
(* it comes back, however the events of its connections interleave.        *)
Gone(c) ==
    /\ \E i \in DOMAIN sent : sent[i].client = c
    /\ \A k \in ConnIds : phase[k] = "open" => ClientOfConn(k) # c

GoneIsOffline ==
    \A c \in Clients :
        Gone(c) ~> \/ ~Gone(c)
                   \/ lagged \/ state = "done"
                   \/ report[c] # None /\ report[c].health = "Offline"
=============================================================================
