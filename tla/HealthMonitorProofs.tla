------------------------ MODULE HealthMonitorProofs ------------------------
(***************************************************************************)
(* What the monitor's reports promise, for any number of clients and       *)
(* connections, any limits and windows, a channel of any capacity and a    *)
(* sender that may always fail.                                            *)
(***************************************************************************)
EXTENDS HealthMonitor, CountingLemmas, TLAPS

(* A connection that is open has been announced, so its client is known.   *)
EventsOK ==
    /\ EventsTypeOK
    /\ \A k \in ConnIds : phase[k] = "open" =>
        \E i \in DOMAIN sent : sent[i].kind = "Connect" /\ sent[i].conn = k

(* The reports and the healths they were made from.  A client that is not  *)
(* in the report has never been reported.                                  *)
ReportsOK ==
    /\ next \in Nat \ {0}
    /\ report \in [Clients -> Status \cup {None}]
    /\ \A c \in Clients : report[c] = None => handed[c] = None

HealthInv == EventsOK /\ ReportsOK /\ ReportsComplete

-----------------------------------------------------------------------------
(* Ages are numbers.                                                       *)
LEMMA MaxAgeNat == MaxAge \in Nat
<1> DEFINE S == {OfflineGrace, LossWindow, RecoveryGrace}
<1>1. \E x \in S : \A y \in S : x >= y
  BY HealthAssumption
<1>2. Max(S) \in S
  BY <1>1 DEF Max
<1>3. Max(S) \in Nat
  BY <1>2, HealthAssumption
<1> QED BY <1>3 DEF MaxAge

(* A function on 1..n is a sequence.                                       *)
LEMMA IsASeq ==
    ASSUME NEW S, NEW n \in Nat, NEW f, f = [i \in 1..n |-> f[i]], \A i \in 1..n : f[i] \in S
    PROVE  f \in Seq(S)
OBVIOUS

(* A report handed over shows every client as it is.                       *)
LEMMA SendHands ==
    ASSUME NEW rep, NEW quiet, SendReport(rep, quiet)
    PROVE  /\ silent' = quiet
           /\ handed' = Healths(rep)
           /\ \A c \in Clients : handed'[c] = IF rep[c] = None THEN None ELSE rep[c].health
BY DEF SendReport, Healths

(* Opening and closing connections.                                        *)
LEMMA EventsKept ==
    ASSUME EventsOK, [HealthNext]_healthVars
    PROVE  EventsOK'
<1> USE DEF EventsOK, EventsTypeOK
<1>1. CASE Opens
  <2>1. PICK k \in ConnIds, c \in Clients : Announce(k, c)
    BY <1>1 DEF Opens
  <2> DEFINE e == [kind |-> "Connect", client |-> c, conn |-> k]
  <2>2. e \in ClientEvent
    BY DEF ClientEvent
  <2>3. sent' = Append(sent, e) /\ phase' = [phase EXCEPT ![k] = "open"]
    BY <2>1 DEF Announce
  <2>4. e.kind = "Connect" /\ e.conn = k
    OBVIOUS
  <2> HIDE DEF e
  <2>5. EventsTypeOK'
    BY <2>2, <2>3
  <2>6. ASSUME NEW j \in ConnIds, phase'[j] = "open"
        PROVE  \E i \in DOMAIN sent' : sent'[i].kind = "Connect" /\ sent'[i].conn = j
    <3>1. CASE j = k
      BY <2>3, <2>4, <3>1
    <3>2. CASE j # k
      <4>1. PICK i \in DOMAIN sent : sent[i].kind = "Connect" /\ sent[i].conn = j
        BY <2>3, <2>6, <3>2
      <4>2. i \in DOMAIN sent' /\ sent'[i] = sent[i]
        BY <2>2, <2>3, <4>1
      <4> QED BY <4>1, <4>2
    <3> QED BY <3>1, <3>2
  <2> QED BY <2>5, <2>6
<1>2. CASE Closes
  <2>1. PICK k \in ConnIds, kind \in Ends : End(k, kind)
    BY <1>2 DEF Closes
  <2> DEFINE c == ClientOfConn(k)
             e == [kind |-> kind, client |-> c, conn |-> k]
  <2>2. phase[k] = "open" /\ phase' = [phase EXCEPT ![k] = "closed"] /\ sent' = Append(sent, e)
    BY <2>1 DEF End
  <2>3. PICK i \in DOMAIN sent :
            /\ sent[i].kind = "Connect" /\ sent[i].conn = k
            /\ c = sent[i].client
    <3>1. \E i \in DOMAIN sent : sent[i].kind = "Connect" /\ sent[i].conn = k
      BY <2>2
    <3> QED BY <3>1 DEF ClientOfConn
  <2>4. c \in Clients
    <3>1. sent[i] \in ClientEvent
      BY <2>3
    <3> HIDE DEF c
    <3> QED BY <2>3, <3>1 DEF ClientEvent
  <2> HIDE DEF c
  <2>5. e \in ClientEvent
    BY <2>1, <2>4 DEF ClientEvent
  <2> HIDE DEF e
  <2>6. EventsTypeOK'
    BY <2>2, <2>5
  <2>7. ASSUME NEW j \in ConnIds, phase'[j] = "open"
        PROVE  \E n \in DOMAIN sent' : sent'[n].kind = "Connect" /\ sent'[n].conn = j
    <3>1. PICK n \in DOMAIN sent : sent[n].kind = "Connect" /\ sent[n].conn = j
      BY <2>2, <2>7
    <3>2. n \in DOMAIN sent' /\ sent'[n] = sent[n]
      BY <2>2, <2>5, <3>1
    <3> QED BY <3>1, <3>2
  <2> QED BY <2>6, <2>7
<1>3. CASE UNCHANGED eventVars
  BY <1>3 DEF eventVars
<1>4. Opens \/ Closes \/ UNCHANGED eventVars
  BY DEF HealthNext, Passes, StartListening, Handle, HandleConnect, HandleDisconnect,
     HandleConnectionLoss, HandleLagged, Receive, CheckClients, SendReminder, StopListening, healthVars
<1> QED BY <1>1, <1>2, <1>3, <1>4

(* The event the monitor receives.                                         *)
LEMMA Received ==
    ASSUME EventsOK, ReportsOK, NEW kind \in {"Connect"} \cup Ends, Receive(kind)
    PROVE  /\ next \in DOMAIN sent /\ sent[next] \in ClientEvent
           /\ sent[next].client \in Clients /\ sent[next].conn \in ConnIds
           /\ sent[next].kind \in {"Connect"} \cup Ends
           /\ next' \in Nat \ {0} /\ state = "listen" /\ state' = state
<1>1. sent \in Seq(ClientEvent) /\ Len(sent) \in Nat
  BY DEF EventsOK, EventsTypeOK
<1>2. next \in DOMAIN sent
  BY <1>1, HealthAssumption DEF Receive, ReportsOK, Oldest
<1>3. sent[next] \in ClientEvent
  BY <1>1, <1>2
<1>4. /\ sent[next].client \in Clients /\ sent[next].conn \in ConnIds
      /\ sent[next].kind \in {"Connect"} \cup Ends
  BY <1>3 DEF ClientEvent
<1>5. next' \in Nat \ {0} /\ state = "listen" /\ state' = state
  BY DEF Receive, ReportsOK
<1> QED BY <1>2, <1>3, <1>4, <1>5

(* Recording an event changes the status of its client alone.              *)
LEMMA RecordedStatus ==
    ASSUME EventsOK, ReportsOK, NEW kind \in {"Connect"} \cup Ends, Receive(kind),
           NEW h \in Health, report' = Recorded(h)
    PROVE  /\ report' \in [Clients -> Status \cup {None}]
           /\ report'[sent[next].client] \in Status
           /\ report'[sent[next].client].health = h
           /\ \A c \in Clients : c # sent[next].client => report'[c] = report[c]
<1> DEFINE c == sent[next].client
           past == [kind |-> sent[next].kind, conn |-> sent[next].conn, age |-> 0]
           events == Pushed(Entry(c).events, sent[next].kind, sent[next].conn)
<1>1. c \in Clients /\ sent[next].kind \in {"Connect"} \cup Ends /\ sent[next].conn \in ConnIds
  BY Received
<1>2. Entry(c) \in Status
  BY <1>1 DEF ReportsOK, Entry, DefaultStatus, Status, Health
<1>3. Entry(c).events \in Seq(Past)
  BY <1>2 DEF Status
<1>4. 0 \in 0..MaxAge
  BY HealthAssumption, MaxAgeNat
<1>5. past \in Past
  BY <1>1, <1>4 DEF Past
<1> HIDE DEF past
<1>6. events \in Seq(Past)
  <2> DEFINE longer == <<past>> \o Entry(c).events
  <2>1. longer \in Seq(Past) /\ Len(longer) = Len(Entry(c).events) + 1
    BY <1>3, <1>5
  <2>2. events = IF Len(longer) > MaxClientEvents THEN Front(longer) ELSE longer
    BY DEF Pushed, past
  <2> HIDE DEF longer
  <2>3. Front(longer) \in Seq(Past)
    BY <2>1 DEF Front
  <2> HIDE DEF events
  <2> QED BY <2>1, <2>2, <2>3
<1>7. report' = [report EXCEPT ![c] = [health |-> h, events |-> events]]
  BY DEF Recorded
<1> HIDE DEF events, c
<1>8. [health |-> h, events |-> events] \in Status
  BY <1>6 DEF Status
<1> QED BY <1>1, <1>7, <1>8 DEF ReportsOK, c

-----------------------------------------------------------------------------
(* A step that hands over the new report leaves nothing unreported.        *)
LEMMA Reported ==
    ASSUME report' \in [Clients -> Status \cup {None}], next' \in Nat \ {0},
           NEW quiet, SendReport(report', quiet)
    PROVE  ReportsOK' /\ ReportsComplete'
BY SendHands DEF ReportsOK, ReportsComplete

(* A step that hands over nothing must not change a health.                *)
LEMMA Unreported ==
    ASSUME ReportsOK, ReportsComplete,
           report' \in [Clients -> Status \cup {None}], next' \in Nat \ {0},
           handed' = handed, state' = "listen" => state = "listen",
           \A c \in Clients : (report'[c] = None) = (report[c] = None),
           \A c \in Clients : report[c] # None => report'[c].health = report[c].health
    PROVE  ReportsOK' /\ ReportsComplete'
BY DEF ReportsOK, ReportsComplete

(* The ranks tell the healths apart.                                       *)
LEMMA RankOrders ==
    ASSUME NEW g \in Health, NEW h \in Health, ~(Rank[g] > Rank[h]), ~(Rank[g] < Rank[h])
    PROVE  g = h
BY DEF Rank, Health

(* What the check makes of a status.                                       *)
LEMMA CheckedHealth ==
    ASSUME NEW s \in Status
    PROVE  /\ Checked(s) \in Health
           /\ [s EXCEPT !.health = Checked(s)] \in Status
           /\ [s EXCEPT !.health = Checked(s)].health = Checked(s)
<1>1. Checked(s) \in Health
  BY DEF Checked, Status, Health
<1> QED BY <1>1 DEF Status

(* The report after a check.                                               *)
LEMMA CheckedReport ==
    ASSUME ReportsOK, CheckClients
    PROVE  /\ report' \in [Clients -> Status \cup {None}]
           /\ \A c \in Clients : (report'[c] = None) = (report[c] = None)
           /\ \A c \in Clients : report[c] # None =>
                report[c].health \in Health /\ report'[c].health = Checked(report[c])
                /\ Checked(report[c]) \in Health
<1> SUFFICES ASSUME NEW c \in Clients
             PROVE  /\ report'[c] \in Status \cup {None}
                    /\ (report'[c] = None) = (report[c] = None)
                    /\ report[c] # None =>
                        report[c].health \in Health /\ report'[c].health = Checked(report[c])
                        /\ Checked(report[c]) \in Health
  BY DEF CheckClients
<1>1. CASE report[c] = None
  BY <1>1 DEF CheckClients
<1>2. CASE report[c] # None
  <2>1. report[c] \in Status
    BY <1>2 DEF ReportsOK
  <2>2. report'[c] = [report[c] EXCEPT !.health = Checked(report[c])]
    BY <1>2 DEF CheckClients
  <2>3. report[c].health \in Health
    BY <2>1 DEF Status
  <2> QED BY <1>2, <2>1, <2>2, <2>3, CheckedHealth, StatusAssumption
<1> QED BY <1>1, <1>2

(* Ageing keeps a history a history.                                       *)
LEMMA AgedEvents ==
    ASSUME NEW events \in Seq(Past)
    PROVE  Aged(events) \in Seq(Past)
<1>1. ASSUME NEW i \in 1..Len(events) PROVE Aged(events)[i] \in Past
  <2>1. events[i] \in Past
    OBVIOUS
  <2>2. Older(events[i].age) \in 0..MaxAge
    BY <2>1, MaxAgeNat DEF Older, Past
  <2>3. Aged(events)[i] = [events[i] EXCEPT !.age = Older(events[i].age)]
    BY DEF Aged
  <2> QED BY <2>1, <2>2, <2>3 DEF Past
<1>2. Aged(events) = [i \in 1..Len(events) |-> Aged(events)[i]]
  BY DEF Aged
<1> QED BY <1>1, <1>2, IsASeq

(* Ageing leaves healths alone.                                            *)
LEMMA AgedReport ==
    ASSUME ReportsOK, Passes
    PROVE  /\ report' \in [Clients -> Status \cup {None}]
           /\ \A c \in Clients : (report'[c] = None) = (report[c] = None)
           /\ \A c \in Clients : report[c] # None => report'[c].health = report[c].health
<1> SUFFICES ASSUME NEW c \in Clients
             PROVE  /\ report'[c] \in Status \cup {None}
                    /\ (report'[c] = None) = (report[c] = None)
                    /\ report[c] # None => report'[c].health = report[c].health
  BY DEF Passes
<1>1. CASE report[c] = None
  BY <1>1 DEF Passes
<1>2. CASE report[c] # None
  <2> DEFINE events == report[c].events
  <2>1. report[c] \in Status /\ events \in Seq(Past)
    BY <1>2 DEF ReportsOK, Status
  <2>2. Aged(events) \in Seq(Past)
    BY <2>1, AgedEvents
  <2>3. report'[c] = [report[c] EXCEPT !.events = Aged(events)]
    BY <1>2 DEF Passes
  <2>4. report'[c] \in Status /\ report'[c].health = report[c].health
    BY <2>1, <2>2, <2>3 DEF Status
  <2> QED BY <1>2, <2>4, StatusAssumption
<1> QED BY <1>1, <1>2

-----------------------------------------------------------------------------
(* A connect changes a health only with a report.                          *)
LEMMA ConnectReported ==
    ASSUME HealthInv, HandleConnect
    PROVE  ReportsOK' /\ ReportsComplete'
<1> DEFINE c == sent[next].client
           old == Entry(c).health
<1>1. /\ c \in Clients /\ next' \in Nat \ {0} /\ state = "listen" /\ Receive("Connect")
  BY Received DEF HealthInv, HandleConnect
<1>2. old \in Health
  BY <1>1 DEF HealthInv, ReportsOK, Entry, DefaultStatus, Status, Health
<1>3. CASE old = "Offline"
  <2>1. report' = Recorded("Healthy") /\ SendReport(report', TRUE)
    BY <1>3 DEF HandleConnect
  <2>2. report' \in [Clients -> Status \cup {None}]
    BY <1>1, <2>1, RecordedStatus DEF HealthInv, Health
  <2> QED BY <1>1, <2>1, <2>2, Reported
<1>4. CASE old # "Offline"
  <2>1. report' = Recorded(old) /\ handed' = handed
    BY <1>4 DEF HandleConnect, reportVars
  <2>2. report[c] # None /\ old = report[c].health
    BY <1>4 DEF Entry, DefaultStatus
  <2> HIDE DEF old
  <2>3. /\ report' \in [Clients -> Status \cup {None}]
        /\ report'[c] \in Status /\ report'[c].health = old
        /\ \A d \in Clients : d # c => report'[d] = report[d]
    BY <1>1, <1>2, <2>1, RecordedStatus DEF HealthInv
  <2> HIDE DEF c
  <2> QED BY <1>1, <2>1, <2>2, <2>3, Unreported, StatusAssumption DEF HealthInv
<1> QED BY <1>3, <1>4

(* A disconnect is always reported.                                        *)
LEMMA DisconnectReported ==
    ASSUME HealthInv, HandleDisconnect
    PROVE  ReportsOK' /\ ReportsComplete'
<1>1. next' \in Nat \ {0} /\ Receive("Disconnect")
  BY Received DEF HealthInv, HandleDisconnect, Ends
<1>2. report' = Recorded("Offline") /\ SendReport(report', TRUE)
  BY DEF HandleDisconnect
<1>3. report' \in [Clients -> Status \cup {None}]
  BY <1>1, <1>2, RecordedStatus DEF HealthInv, Health, Ends
<1> QED BY <1>1, <1>2, <1>3, Reported

(* The loss of a client the report does not know adds it as offline: the   *)
(* one health that is not reported, since no report has named the client.  *)
LEMMA LossReported ==
    ASSUME HealthInv, HandleConnectionLoss
    PROVE  ReportsOK' /\ ReportsComplete'
<1> DEFINE c == sent[next].client
           old == Entry(c).health
<1>1. c \in Clients /\ next' \in Nat \ {0} /\ state = "listen" /\ Receive("ConnectionLoss")
  BY Received DEF HealthInv, HandleConnectionLoss, Ends
<1>2. old \in Health
  BY <1>1 DEF HealthInv, ReportsOK, Entry, DefaultStatus, Status, Health
<1>3. report' = Recorded(old) /\ handed' = handed
  BY DEF HandleConnectionLoss, reportVars
<1>4. /\ report[c] # None => old = report[c].health
      /\ report[c] = None => old = "Offline"
  BY DEF Entry, DefaultStatus
<1> HIDE DEF old
<1>5. /\ report' \in [Clients -> Status \cup {None}]
      /\ report'[c] \in Status /\ report'[c].health = old
      /\ \A d \in Clients : d # c => report'[d] = report[d]
  BY <1>1, <1>2, <1>3, RecordedStatus DEF HealthInv, Ends
<1> HIDE DEF c
<1>6. report'[c] # None
  BY <1>5, StatusAssumption
<1> QED BY <1>1, <1>3, <1>4, <1>5, <1>6 DEF HealthInv, ReportsOK, ReportsComplete

(* A check that changes a health sends a report.                           *)
LEMMA CheckReported ==
    ASSUME HealthInv, CheckClients
    PROVE  ReportsOK' /\ ReportsComplete'
<1>1. next' \in Nat \ {0} /\ state' = state
  BY DEF HealthInv, ReportsOK, CheckClients
<1>2. /\ report' \in [Clients -> Status \cup {None}]
      /\ \A c \in Clients : (report'[c] = None) = (report[c] = None)
      /\ \A c \in Clients : report[c] # None =>
            report[c].health \in Health /\ report'[c].health = Checked(report[c])
            /\ Checked(report[c]) \in Health
  BY CheckedReport DEF HealthInv
<1>3. CASE \E quiet \in BOOLEAN : SendReport(report', quiet)
  BY <1>1, <1>2, <1>3, Reported
<1>4. CASE Worsened = {} /\ Recovered = {} /\ UNCHANGED reportVars
  <2>1. ASSUME NEW c \in Clients, report[c] # None PROVE report'[c].health = report[c].health
    <3>1. ~(Rank[Checked(report[c])] > Rank[report[c].health])
          /\ ~(Rank[Checked(report[c])] < Rank[report[c].health])
      BY <1>4, <2>1 DEF Worsened, Recovered
    <3> QED BY <1>2, <2>1, <3>1, RankOrders
  <2>2. handed' = handed
    BY <1>4 DEF reportVars
  <2> QED BY <1>1, <1>2, <2>1, <2>2, Unreported DEF HealthInv
<1> QED BY <1>3, <1>4 DEF CheckClients, CheckReport

(* Every step keeps the invariant.                                         *)
LEMMA HealthStep ==
    ASSUME HealthInv, [HealthNext]_healthVars
    PROVE  HealthInv'
<1>1. EventsOK'
  BY EventsKept DEF HealthInv
<1>2. CASE Opens \/ Closes \/ StopListening \/ HandleLagged \/ UNCHANGED healthVars
  <2>1. report' = report /\ handed' = handed /\ (state' = "listen" => state = "listen")
    BY <1>2 DEF Opens, Closes, StopListening, HandleLagged, monitorVars, reportVars, healthVars
  <2>2. next' \in Nat \ {0}
    <3>1. Len(sent) \in Nat
      BY DEF HealthInv, EventsOK, EventsTypeOK
    <3>2. Oldest \in Nat \ {0}
      BY <3>1, HealthAssumption DEF Oldest
    <3> QED BY <1>2, <3>2 DEF Opens, Closes, StopListening, HandleLagged, monitorVars, healthVars,
               HealthInv, ReportsOK
  <2> QED BY <1>1, <2>1, <2>2 DEF HealthInv, ReportsOK, ReportsComplete
<1>3. CASE Passes
  BY <1>1, <1>3, AgedReport, Unreported DEF HealthInv, ReportsOK, Passes, reportVars
<1>4. CASE StartListening \/ SendReminder
  <2>1. report' = report /\ next' = next /\ (state' = "listen" => state = "listen" \/ StartListening)
    BY <1>4 DEF StartListening, SendReminder, monitorVars
  <2>2. CASE \E quiet \in BOOLEAN : SendReport(report, quiet)
    BY <1>1, <2>1, <2>2, Reported DEF HealthInv, ReportsOK
  <2>3. CASE SendReminder /\ UNCHANGED reportVars
    BY <1>1, <2>1, <2>3, Unreported DEF HealthInv, ReportsOK, reportVars, SendReminder, monitorVars
  <2> QED BY <1>4, <2>2, <2>3 DEF StartListening, SendReminder
<1>5. CASE HandleConnect \/ HandleDisconnect \/ HandleConnectionLoss \/ CheckClients
  BY <1>1, <1>5, ConnectReported, DisconnectReported, LossReported, CheckReported DEF HealthInv
<1> QED BY <1>2, <1>3, <1>4, <1>5 DEF HealthNext, Handle

(* The invariant holds initially.                                          *)
LEMMA HealthInvInit ==
    ASSUME HealthInit
    PROVE  HealthInv
<1>1. EventsOK
  BY DEF HealthInit, EventsInit, EventsOK, EventsTypeOK
<1>2. ReportsOK
  BY DEF HealthInit, ReportsOK, DefaultStatus, Status, Health
<1> QED BY <1>1, <1>2 DEF HealthInit, HealthInv, ReportsComplete

-----------------------------------------------------------------------------
(* Whoever receives the reports knows the health of every client it was    *)
(* ever told of, for any number of clients: no event, check, lag or        *)
(* reminder changes a health without handing over a report.                *)
THEOREM ReportsAreComplete == HealthSpec => []ReportsComplete
<1>1. HealthInit => HealthInv
  BY HealthInvInit
<1>2. HealthInv /\ [HealthNext]_healthVars => HealthInv'
  BY HealthStep
<1>3. HealthInv => ReportsComplete
  BY DEF HealthInv
<1> QED BY <1>1, <1>2, <1>3, PTL DEF HealthSpec

(* What a check finds worse is never reported silently, however many       *)
(* clients the same check finds recovered.                                 *)
THEOREM WorseIsReportedLoudly == HealthSpec => WorseIsLoud
<1>1. HealthInit => HealthInv
  BY HealthInvInit
<1>2. HealthInv /\ [HealthNext]_healthVars => HealthInv'
  BY HealthStep
<1>3. HealthInv /\ [HealthNext]_healthVars =>
        [\A c \in Clients :
            CheckClients /\ report[c] # None /\ Rank[report'[c].health] > Rank[report[c].health]
            => ~silent' /\ handed' = Healths(report')]_healthVars
  <2> SUFFICES ASSUME HealthInv, NEW c \in Clients, CheckClients, report[c] # None,
                      Rank[report'[c].health] > Rank[report[c].health]
               PROVE  ~silent' /\ handed' = Healths(report')
    OBVIOUS
  <2>1. report'[c].health = Checked(report[c])
    BY CheckedReport DEF HealthInv
  <2>2. Worsened # {}
    BY <2>1 DEF Worsened
  <2>3. SendReport(report', FALSE)
    BY <2>2 DEF CheckClients, CheckReport
  <2> QED BY <2>3, SendHands
<1> QED BY <1>1, <1>2, <1>3, PTL DEF HealthSpec, WorseIsLoud
-----------------------------------------------------------------------------
(* The losses a client's history holds, up to an age.                      *)
LossUpTo(w) == {p \in Past : p.kind = "ConnectionLoss" /\ p.age <= w}

(* The ages of a history never go down from the newest event to the oldest. *)
AgesAscend(events) == \A i, j \in DOMAIN events : i <= j => events[i].age <= events[j].age

(* Up to the age w, the history holds every loss that was handled, unless  *)
(* it is full of events that are no older.                                 *)
Kept(events, ages, w) ==
    \/ Cardinality(Entries(ages, 0..w)) <= Cardinality(Entries(events, LossUpTo(w)))
    \/ Len(events) = MaxClientEvents /\ events[Len(events)].age <= w

HistoryKept(events, ages) ==
    /\ events \in Seq(Past) /\ Len(events) <= MaxClientEvents
    /\ AgesAscend(events)
    /\ ages \in Seq(0..MaxAge)
    /\ \A w \in 0..(MaxAge - 1) : Kept(events, ages, w)

LossesKept ==
    /\ losses \in [Clients -> Seq(0..MaxAge)]
    /\ \A c \in Clients : HistoryKept(Entry(c).events, losses[c])

(* The ages matter up to one beyond the window.                            *)
LEMMA WindowBelowMaxAge == LossWindow \in 0..(MaxAge - 1) /\ MaxAge \in Nat /\ MaxAge >= 1
<1> DEFINE S == {OfflineGrace, LossWindow, RecoveryGrace}
<1>1. \E x \in S : \A y \in S : x >= y
  BY HealthAssumption
<1>2. Max(S) \in S /\ \A y \in S : Max(S) >= y
  BY <1>1 DEF Max
<1>3. Max(S) \in Nat /\ Max(S) >= LossWindow
  BY <1>2, HealthAssumption
<1> QED BY <1>3, HealthAssumption DEF MaxAge

(* A history that was cut off at its end.                                  *)
LEMMA CutCounted ==
    ASSUME NEW q \in Seq(Past), Len(q) >= 1, NEW S, q[Len(q)] \notin S
    PROVE  Entries(Front(q), S) = Entries(q, S)
<1>1. /\ DOMAIN Front(q) = 1..(Len(q) - 1) /\ DOMAIN q = 1..Len(q) /\ Len(q) \in Nat
      /\ \A i \in 1..(Len(q) - 1) : Front(q)[i] = q[i]
  BY DEF Front
<1> QED BY <1>1 DEF Entries

(* The shape of a history with an event in front.                          *)
LEMMA PushedShape ==
    ASSUME NEW events \in Seq(Past), Len(events) <= MaxClientEvents,
           NEW p \in Past, p.age = 0,
           AgesAscend(events)
    PROVE  LET longer == <<p>> \o events
               pushed == IF Len(longer) > MaxClientEvents THEN Front(longer) ELSE longer
           IN  /\ longer \in Seq(Past) /\ AgesAscend(longer) /\ Len(longer) = Len(events) + 1
               /\ pushed \in Seq(Past) /\ AgesAscend(pushed) /\ Len(pushed) <= MaxClientEvents
               /\ Len(longer) > MaxClientEvents =>
                    Len(events) = MaxClientEvents /\ Len(pushed) = MaxClientEvents
               /\ \A i \in DOMAIN pushed : i \in DOMAIN longer /\ pushed[i] = longer[i]
               /\ pushed[1] = p /\ Len(pushed) >= 1
               /\ Len(events) >= 1 => Len(pushed) >= 2 /\ pushed[2] = events[1]
               /\ Len(events) = 0 => Len(pushed) = 1
<1> DEFINE longer == <<p>> \o events
           pushed == IF Len(longer) > MaxClientEvents THEN Front(longer) ELSE longer
<1>1. /\ longer \in Seq(Past) /\ Len(longer) = Len(events) + 1 /\ Len(events) \in Nat
      /\ DOMAIN longer = 1..(Len(events) + 1) /\ DOMAIN events = 1..Len(events)
      /\ longer[1] = p /\ \A i \in 1..Len(events) : longer[i + 1] = events[i]
  OBVIOUS
<1> HIDE DEF longer
<1>2. MaxClientEvents \in Nat /\ MaxClientEvents >= 2
  BY HealthAssumption
<1>3. ASSUME NEW i \in DOMAIN longer PROVE i = 1 \/ (i - 1 \in DOMAIN events /\ longer[i] = events[i - 1])
  <2>1. CASE i # 1
    <3>1. i - 1 \in 1..Len(events) /\ i = (i - 1) + 1
      BY <1>1, <2>1
    <3> QED BY <1>1, <3>1
  <2> QED BY <2>1
<1>4. \A q \in Past : q.age \in Nat
  BY MaxAgeNat DEF Past
<1>5. AgesAscend(longer)
  <2> SUFFICES ASSUME NEW i \in DOMAIN longer, NEW j \in DOMAIN longer, i <= j
               PROVE  longer[i].age <= longer[j].age
    BY DEF AgesAscend
  <2>1. CASE i = 1
    <3>1. longer[j] \in Past
      BY <1>1
    <3> QED BY <1>1, <1>4, <2>1, <3>1
  <2>2. CASE i # 1
    <3>1. j # 1 /\ i - 1 <= j - 1
      BY <1>1, <2>2
    <3> QED BY <1>3, <2>2, <3>1 DEF AgesAscend
  <2> QED BY <2>1, <2>2
<1>6. /\ longer \in Seq(Past) /\ AgesAscend(longer) /\ Len(longer) = Len(events) + 1
      /\ pushed \in Seq(Past) /\ AgesAscend(pushed) /\ Len(pushed) <= MaxClientEvents
      /\ Len(longer) > MaxClientEvents =>
            Len(events) = MaxClientEvents /\ Len(pushed) = MaxClientEvents
      /\ \A i \in DOMAIN pushed : i \in DOMAIN longer /\ pushed[i] = longer[i]
      /\ pushed[1] = p /\ Len(pushed) >= 1
      /\ Len(events) >= 1 => Len(pushed) >= 2 /\ pushed[2] = events[1]
      /\ Len(events) = 0 => Len(pushed) = 1
  <2>1. CASE Len(longer) > MaxClientEvents
    <3>1. Len(events) = MaxClientEvents
      <4>1. Len(events) \in Nat /\ Len(events) + 1 > MaxClientEvents
        BY <1>1, <2>1
      <4> HIDE DEF pushed
      <4> QED BY <1>2, <4>1
    <3>2. /\ pushed \in Seq(Past) /\ Len(pushed) = Len(events) /\ DOMAIN pushed = 1..Len(events)
          /\ \A i \in 1..Len(events) : pushed[i] = longer[i]
      BY <1>1, <2>1 DEF Front
    <3> HIDE DEF pushed
    <3>3. AgesAscend(pushed)
      BY <1>1, <1>5, <3>2 DEF AgesAscend
    <3>4. pushed[1] = p /\ pushed[2] = events[1] /\ Len(events) # 0
      <4>1. 1 \in 1..Len(events) /\ 2 \in 1..Len(events) /\ longer[1 + 1] = events[1]
        BY <1>1, <1>2, <3>1
      <4> QED BY <1>1, <3>2, <4>1
    <3> QED BY <1>1, <1>2, <1>5, <3>1, <3>2, <3>3, <3>4
  <2>2. CASE ~(Len(longer) > MaxClientEvents)
    <3>1. pushed = longer
      BY <2>2
    <3>2. Len(events) >= 1 => longer[2] = events[1]
      <4>1. Len(events) >= 1 => 1 \in 1..Len(events) /\ longer[1 + 1] = events[1]
        BY <1>1
      <4> QED BY <4>1
    <3> HIDE DEF pushed
    <3>3. Len(pushed) = Len(events) + 1 /\ Len(pushed) <= MaxClientEvents
      BY <1>1, <1>2, <2>2, <3>1
    <3>4. \A i \in DOMAIN pushed : i \in DOMAIN longer /\ pushed[i] = longer[i]
      BY <3>1
    <3>5. pushed \in Seq(Past) /\ AgesAscend(pushed) /\ pushed[1] = p
      BY <1>1, <1>5, <3>1
    <3>6. Len(events) >= 1 => Len(pushed) >= 2 /\ pushed[2] = events[1]
      BY <1>1, <3>1, <3>2, <3>3
    <3> QED BY <1>1, <1>5, <2>2, <3>3, <3>4, <3>5, <3>6
  <2> QED BY <2>1, <2>2
<1> QED BY <1>6 DEF longer, pushed

(* An event recorded in front keeps what the history knows of the losses,  *)
(* whether or not the oldest event falls out.                              *)
LEMMA PushKeeps ==
    ASSUME NEW events, NEW ages, HistoryKept(events, ages),
           NEW kind \in {"Connect"} \cup Ends, NEW k \in ConnIds
    PROVE  HistoryKept(Pushed(events, kind, k),
                       IF kind = "ConnectionLoss" THEN <<0>> \o ages ELSE ages)
<1> DEFINE p == [kind |-> kind, conn |-> k, age |-> 0]
           longer == <<p>> \o events
           pushed == IF Len(longer) > MaxClientEvents THEN Front(longer) ELSE longer
           more == IF kind = "ConnectionLoss" THEN <<0>> \o ages ELSE ages
<1>1. p \in Past /\ p.kind = kind /\ p.age = 0 /\ 0 \in 0..MaxAge
  BY MaxAgeNat DEF Past
<1>2. Pushed(events, kind, k) = pushed
  BY DEF Pushed
<1> HIDE DEF p
<1>3. /\ events \in Seq(Past) /\ Len(events) <= MaxClientEvents /\ AgesAscend(events)
      /\ ages \in Seq(0..MaxAge) /\ \A w \in 0..(MaxAge - 1) : Kept(events, ages, w)
  BY DEF HistoryKept
<1>4. /\ longer \in Seq(Past) /\ AgesAscend(longer) /\ Len(longer) = Len(events) + 1
      /\ pushed \in Seq(Past) /\ AgesAscend(pushed) /\ Len(pushed) <= MaxClientEvents
      /\ Len(longer) > MaxClientEvents =>
            Len(events) = MaxClientEvents /\ Len(pushed) = MaxClientEvents
      /\ \A i \in DOMAIN pushed : i \in DOMAIN longer /\ pushed[i] = longer[i]
  BY <1>1, <1>3, PushedShape
<1>5. more \in Seq(0..MaxAge)
  <2>1. <<0>> \o ages \in Seq(0..MaxAge)
    BY <1>1, <1>3
  <2> QED BY <1>3, <2>1
<1>6. ASSUME NEW w \in 0..(MaxAge - 1) PROVE Kept(pushed, more, w)
  <2>1. w \in Nat /\ 0 \in 0..w
    BY WindowBelowMaxAge
  <2>2. (p \in LossUpTo(w)) <=> kind = "ConnectionLoss"
    BY <1>1, <2>1 DEF LossUpTo
  <2> DEFINE old == Cardinality(Entries(events, LossUpTo(w)))
             new == Cardinality(Entries(longer, LossUpTo(w)))
             before == Cardinality(Entries(ages, 0..w))
             now == Cardinality(Entries(more, 0..w))
  <2>3. old \in Nat /\ before \in Nat
    BY <1>3, EntriesCounted
  <2>4. /\ kind = "ConnectionLoss" => new = old + 1
        /\ kind # "ConnectionLoss" => new = old
    BY <1>1, <1>3, <2>2, PrependCounted
  <2>5. /\ kind = "ConnectionLoss" => now = before + 1
        /\ kind # "ConnectionLoss" => now = before
    <3>1. Cardinality(Entries(<<0>> \o ages, 0..w)) = before + 1
      <4> DEFINE A == 0..MaxAge
                 R == 0..w
                 zero == 0
      <4>1. ages \in Seq(A) /\ zero \in A /\ zero \in R
        BY <1>1, <1>3, <2>1
      <4> HIDE DEF A, R, zero
      <4>2. Cardinality(Entries(<<zero>> \o ages, R)) = Cardinality(Entries(ages, R)) + 1
        BY <4>1, PrependCounted
      <4> QED BY <4>2 DEF A, R, zero
    <3> QED BY <3>1
  <2> HIDE DEF old, new, before, now, more
  <2>6. CASE before <= old /\ ~(Len(longer) > MaxClientEvents)
    <3>1. now <= new
      BY <2>3, <2>4, <2>5, <2>6
    <3>2. pushed = longer
      BY <2>6
    <3> HIDE DEF pushed, longer
    <3> QED BY <3>1, <3>2 DEF Kept, now, new
  <2>7. CASE before <= old /\ Len(longer) > MaxClientEvents /\ longer[Len(longer)] \notin LossUpTo(w)
    <3>1. now <= new
      BY <2>3, <2>4, <2>5, <2>7
    <3>2. pushed = Front(longer) /\ Len(longer) >= 1
      BY <1>3, <1>4, <2>7
    <3> HIDE DEF pushed, longer
    <3>3. Entries(pushed, LossUpTo(w)) = Entries(longer, LossUpTo(w))
      BY <1>4, <2>7, <3>2, CutCounted
    <3> QED BY <3>1, <3>3 DEF Kept, now, new
  <2>8. CASE /\ Len(longer) > MaxClientEvents
             /\ longer[Len(longer)].age <= w
    <3>1. Len(pushed) = MaxClientEvents /\ Len(longer) = Len(pushed) + 1
          /\ MaxClientEvents \in Nat /\ MaxClientEvents >= 2
      BY <1>4, <2>8, HealthAssumption
    <3> HIDE DEF pushed, longer
    <3>2. Len(pushed) \in DOMAIN pushed /\ Len(longer) \in DOMAIN longer
      BY <1>4, <3>1
    <3>3. pushed[Len(pushed)] = longer[Len(pushed)] /\ Len(pushed) \in DOMAIN longer
      BY <1>4, <3>2
    <3>4. longer[Len(pushed)].age <= longer[Len(longer)].age
      BY <1>4, <3>1, <3>2, <3>3 DEF AgesAscend
    <3>5. longer[Len(pushed)].age \in Nat /\ longer[Len(longer)].age \in Nat
      <4>1. longer[Len(pushed)] \in Past /\ longer[Len(longer)] \in Past
        BY <1>4, <3>2, <3>3
      <4> QED BY <4>1, MaxAgeNat DEF Past
    <3>6. pushed[Len(pushed)].age <= w
      BY <2>1, <2>8, <3>3, <3>4, <3>5
    <3> QED BY <3>1, <3>6 DEF Kept
  <2>9. CASE Len(events) = MaxClientEvents /\ events[Len(events)].age <= w
    <3>1. Len(events) \in Nat /\ MaxClientEvents \in Nat /\ MaxClientEvents >= 2
      BY <1>3, HealthAssumption
    <3>2. longer[Len(longer)] = events[Len(events)]
      BY <1>3, <1>4, <2>9, <3>1
    <3> HIDE DEF longer, pushed
    <3> QED BY <1>4, <2>8, <2>9, <3>1, <3>2
  <2>10. CASE before <= old /\ Len(longer) > MaxClientEvents /\ longer[Len(longer)] \in LossUpTo(w)
    <3> HIDE DEF longer, pushed
    <3> QED BY <2>8, <2>10 DEF LossUpTo
  <2>11. Kept(events, ages, w)
    BY <1>3
  <2> HIDE DEF longer, pushed
  <2> QED BY <2>6, <2>7, <2>9, <2>10, <2>11 DEF Kept, before, old
<1> HIDE DEF pushed, more
<1>7. HistoryKept(pushed, more)
  BY <1>4, <1>5, <1>6 DEF HistoryKept
<1> QED BY <1>2, <1>7 DEF more

(* Time passes for the history as it does for the losses.                  *)
LEMMA AgeKeeps ==
    ASSUME NEW events, NEW ages, HistoryKept(events, ages)
    PROVE  HistoryKept(Aged(events), [i \in DOMAIN ages |-> Older(ages[i])])
<1> DEFINE older == [i \in DOMAIN ages |-> Older(ages[i])]
           aged == Aged(events)
<1>1. /\ events \in Seq(Past) /\ Len(events) <= MaxClientEvents /\ AgesAscend(events)
      /\ ages \in Seq(0..MaxAge) /\ \A w \in 0..(MaxAge - 1) : Kept(events, ages, w)
      /\ DOMAIN events = 1..Len(events) /\ DOMAIN ages = 1..Len(ages)
      /\ Len(events) \in Nat /\ Len(ages) \in Nat
  BY DEF HistoryKept
<1>2. MaxAge \in Nat /\ MaxAge >= 1
  BY WindowBelowMaxAge
<1>3. /\ \A a \in 0..MaxAge : Older(a) \in 0..MaxAge
      /\ \A a, b \in 0..MaxAge : a <= b => Older(a) <= Older(b)
      /\ \A a \in 0..MaxAge : ~(Older(a) <= 0)
      /\ \A a \in 0..MaxAge, w \in 0..(MaxAge - 1) : Older(a) <= w <=> a <= w - 1
  BY <1>2 DEF Older
<1>4. aged \in Seq(Past) /\ Len(aged) = Len(events) /\ DOMAIN aged = DOMAIN events
  <2>1. aged \in Seq(Past)
    BY <1>1, AgedEvents
  <2>2. DOMAIN aged = 1..Len(events)
    BY <1>1 DEF Aged
  <2> HIDE DEF aged
  <2> QED BY <1>1, <2>1, <2>2
<1>5. ASSUME NEW i \in DOMAIN events
      PROVE  /\ events[i] \in Past /\ events[i].age \in 0..MaxAge
             /\ aged[i].age = Older(events[i].age) /\ aged[i].kind = events[i].kind
  <2>1. events[i] \in Past
    BY <1>1
  <2>2. aged[i] = [events[i] EXCEPT !.age = Older(events[i].age)]
    BY DEF Aged
  <2> QED BY <2>1, <2>2 DEF Past
<1> HIDE DEF aged
<1>6. \A i \in DOMAIN ages : ages[i] \in 0..MaxAge
  <2> DEFINE A == 0..MaxAge
  <2>1. ages \in Seq(A)
    BY <1>1
  <2> HIDE DEF A
  <2>2. \A i \in DOMAIN ages : ages[i] \in A
    BY <2>1
  <2> QED BY <2>2 DEF A
<1>7. older \in Seq(0..MaxAge) /\ DOMAIN older = DOMAIN ages /\ \A i \in DOMAIN ages : older[i] = Older(ages[i])
  <2>1. DOMAIN older = 1..Len(ages) /\ \A i \in DOMAIN ages : older[i] = Older(ages[i])
    BY <1>1
  <2>2. \A i \in 1..Len(ages) : older[i] \in 0..MaxAge
    BY <1>1, <1>3, <1>6, <2>1
  <2>3. older = [i \in 1..Len(ages) |-> older[i]]
    BY <1>1
  <2> HIDE DEF older
  <2>4. older \in Seq(0..MaxAge)
    BY <1>1, <2>2, <2>3, IsASeq
  <2> QED BY <1>1, <2>1, <2>4
<1> HIDE DEF older
<1>8. AgesAscend(aged)
  BY <1>1, <1>3, <1>4, <1>5 DEF AgesAscend
<1>9. ASSUME NEW w \in 0..(MaxAge - 1) PROVE Kept(aged, older, w)
  <2>1. w \in Nat
    BY <1>2
  <2>2. CASE w = 0
    <3>1. Entries(older, 0..w) = {}
      <4> SUFFICES ASSUME NEW i \in DOMAIN ages, older[i] \in 0..w PROVE FALSE
        BY <1>7 DEF Entries
      <4> QED BY <1>3, <1>7, <1>6, <2>2
    <3>2. Cardinality(Entries(older, 0..w)) = 0
      BY <3>1, FS_EmptySet
    <3>3. Cardinality(Entries(aged, LossUpTo(w))) \in Nat
      BY <1>4, EntriesCounted
    <3> QED BY <3>2, <3>3 DEF Kept
  <2>3. CASE w # 0
    <3>1. w - 1 \in 0..(MaxAge - 1)
      BY <1>2, <2>1, <2>3
    <3>2. Kept(events, ages, w - 1)
      BY <1>1, <3>1
    <3>3. Entries(older, 0..w) = Entries(ages, 0..(w - 1))
      <4> SUFFICES ASSUME NEW i \in DOMAIN ages PROVE older[i] \in 0..w <=> ages[i] \in 0..(w - 1)
        BY <1>7 DEF Entries
      <4>1. ages[i] \in 0..MaxAge /\ older[i] = Older(ages[i]) /\ older[i] \in 0..MaxAge
        BY <1>3, <1>7, <1>6
      <4>2. older[i] <= w <=> ages[i] <= w - 1
        BY <1>3, <4>1
      <4> QED BY <1>2, <2>1, <4>1, <4>2
    <3>4. Entries(aged, LossUpTo(w)) = Entries(events, LossUpTo(w - 1))
      <4> SUFFICES ASSUME NEW i \in DOMAIN events
                   PROVE  aged[i] \in LossUpTo(w) <=> events[i] \in LossUpTo(w - 1)
        BY <1>4 DEF Entries
      <4>1. aged[i] \in Past
        BY <1>4
      <4>2. aged[i].age <= w <=> events[i].age <= w - 1
        BY <1>3, <1>5
      <4> QED BY <1>5, <4>1, <4>2 DEF LossUpTo
    <3>5. CASE Len(events) = MaxClientEvents /\ events[Len(events)].age <= w - 1
      <4>1. Len(events) \in DOMAIN events
        BY <1>1, <3>5, HealthAssumption
      <4>2. aged[Len(events)].age <= w
        BY <1>3, <1>5, <3>5, <4>1
      <4> QED BY <1>4, <3>5, <4>2 DEF Kept
    <3> QED BY <3>2, <3>3, <3>4, <3>5 DEF Kept
  <2> QED BY <2>2, <2>3
<1>10. HistoryKept(aged, older)
  BY <1>1, <1>4, <1>7, <1>8, <1>9 DEF HistoryKept
<1> QED BY <1>10 DEF aged, older

(* Counting up to the first event outside the window counts every loss     *)
(* within the window, since the events are in the order of their ages.     *)
LEMMA RecentCounted ==
    ASSUME NEW events \in Seq(Past), AgesAscend(events)
    PROVE  RecentLosses(events) = Cardinality(Entries(events, LossUpTo(LossWindow)))
<1> DEFINE outside == {i \in DOMAIN events : events[i].age > LossWindow}
           upTo == IF outside = {} THEN Len(events) ELSE Min(outside) - 1
<1>1. DOMAIN events = 1..Len(events) /\ Len(events) \in Nat /\ LossWindow \in Nat
  BY HealthAssumption
<1>2. \A i \in DOMAIN events : events[i] \in Past /\ events[i].age \in Nat
  <2>1. \A p \in Past : p.age \in Nat
    BY MaxAgeNat DEF Past
  <2> QED BY <2>1
<1>3. \A i \in DOMAIN events : i \in 1..upTo <=> events[i].age <= LossWindow
  <2>1. CASE outside = {}
    BY <1>1, <1>2, <2>1
  <2>2. CASE outside # {}
    <3>1. outside \subseteq Nat
      BY <1>1
    <3>2. \E x \in outside : \A y \in outside : x <= y
      <4> HIDE DEF outside
      <4> QED BY <2>2, <3>1, NatLeast
    <3>3. Min(outside) \in outside /\ \A y \in outside : Min(outside) <= y
      BY <3>2 DEF Min
    <3> DEFINE m == Min(outside)
    <3>4. m \in DOMAIN events /\ m \in Nat /\ events[m].age > LossWindow /\ upTo = m - 1
      BY <1>1, <2>2, <3>3
    <3>5. \A y \in outside : m <= y
      BY <3>3
    <3> HIDE DEF m, upTo
    <3> SUFFICES ASSUME NEW i \in DOMAIN events PROVE i \in 1..upTo <=> events[i].age <= LossWindow
      OBVIOUS
    <3>6. CASE i < m
      BY <1>1, <1>2, <3>4, <3>5, <3>6
    <3>7. CASE m <= i
      <4>1. events[m].age <= events[i].age
        BY <3>4, <3>7 DEF AgesAscend
      <4> QED BY <1>1, <1>2, <3>4, <3>7, <4>1
    <3> QED BY <1>1, <3>4, <3>6, <3>7
  <2> QED BY <2>1, <2>2
<1>4. upTo \in Int /\ 1..upTo \subseteq DOMAIN events
  <2>1. CASE outside = {}
    BY <1>1, <2>1
  <2>2. CASE outside # {}
    <3>1. outside \subseteq Nat
      BY <1>1
    <3>2. \E x \in outside : \A y \in outside : x <= y
      <4> HIDE DEF outside
      <4> QED BY <2>2, <3>1, NatLeast
    <3>3. Min(outside) \in DOMAIN events
      BY <3>2 DEF Min
    <3>4. upTo = Min(outside) - 1
      BY <2>2
    <3> HIDE DEF upTo, outside
    <3> QED BY <1>1, <3>3, <3>4
  <2> QED BY <2>1, <2>2
<1>5. RecentLosses(events) = Cardinality({i \in 1..upTo : events[i].kind = "ConnectionLoss"})
  BY DEF RecentLosses
<1> HIDE DEF upTo
<1>6. {i \in 1..upTo : events[i].kind = "ConnectionLoss"} = Entries(events, LossUpTo(LossWindow))
  BY <1>2, <1>3, <1>4 DEF Entries, LossUpTo
<1> QED BY <1>5, <1>6

(* What handling an event does to the histories.                           *)
LEMMA RecordedHistory ==
    ASSUME HealthInv, NEW kind \in {"Connect"} \cup Ends, Receive(kind),
           NEW h \in Health, report' = Recorded(h), NEW c \in Clients, c = sent[next].client
    PROVE  /\ Entry(c)'.events = Pushed(Entry(c).events, kind, sent[next].conn)
           /\ \A d \in Clients : d # c => Entry(d)'.events = Entry(d).events
<1> DEFINE events == Pushed(Entry(c).events, kind, sent[next].conn)
<1>1. c \in Clients /\ sent[next].kind = kind /\ sent' = sent
  BY Received DEF HealthInv, Receive, eventVars
<1>2. report' = [report EXCEPT ![c] = [health |-> h, events |-> events]]
  BY <1>1 DEF Recorded
<1>3. report'[c] \in Status /\ \A d \in Clients : d # c => report'[d] = report[d]
  BY RecordedStatus DEF HealthInv
<1>4. report'[c] = [health |-> h, events |-> events]
  <2> HIDE DEF events
  <2> QED BY <1>1, <1>2 DEF HealthInv, ReportsOK
<1>5. report'[c] # None
  BY <1>3, StatusAssumption
<1> HIDE DEF events
<1>6. (IF report'[c] = None THEN DefaultStatus ELSE report'[c]).events = events
  BY <1>4, <1>5
<1>7. \A d \in Clients : d # c => Entry(d)'.events = Entry(d).events
  BY <1>3 DEF Entry
<1> QED BY <1>6, <1>7 DEF Entry, events

(* The losses once an event of the client has been handled.                *)
LossesWith(kind, client) ==
    IF kind = "ConnectionLoss" THEN [losses EXCEPT ![client] = <<0>> \o @] ELSE losses

(* The event handled is recorded in the history, and in the losses if it   *)
(* is one.                                                                 *)
LEMMA HandledLossesKept ==
    ASSUME HealthInv, LossesKept, NEW kind \in {"Connect"} \cup Ends, Receive(kind),
           NEW h \in Health, report' = Recorded(h),
           losses' = LossesWith(kind, sent[next].client)
    PROVE  LossesKept'
<1>1. PICK c \in Clients : c = sent[next].client
  BY Received DEF HealthInv
<1> DEFINE k == sent[next].conn
           ages == IF kind = "ConnectionLoss" THEN <<0>> \o losses[c] ELSE losses[c]
<1>2. c \in Clients /\ k \in ConnIds
  BY Received DEF HealthInv
<1>3. /\ Entry(c)'.events = Pushed(Entry(c).events, kind, k)
      /\ \A d \in Clients : d # c => Entry(d)'.events = Entry(d).events
  BY <1>1, RecordedHistory
<1>4. losses'[c] = ages /\ \A d \in Clients : d # c => losses'[d] = losses[d]
  BY <1>1 DEF LossesKept, LossesWith
<1>5. HistoryKept(Entry(c).events, losses[c])
  BY <1>2 DEF LossesKept
<1>6. HistoryKept(Pushed(Entry(c).events, kind, k), ages)
  BY <1>2, <1>5, PushKeeps
<1>7. ages \in Seq(0..MaxAge)
  BY <1>6 DEF HistoryKept
<1>8. losses' \in [Clients -> Seq(0..MaxAge)]
  <2>1. \A d \in Clients : losses'[d] \in Seq(0..MaxAge)
    BY <1>4, <1>7 DEF LossesKept
  <2>2. losses' = [d \in Clients |-> losses'[d]]
    BY DEF LossesKept, LossesWith
  <2> QED BY <2>1, <2>2
<1> HIDE DEF k, ages
<1>9. ASSUME NEW d \in Clients PROVE HistoryKept(Entry(d)'.events, losses'[d])
  <2>1. CASE d = c
    BY <1>3, <1>4, <1>6, <2>1
  <2>2. CASE d # c
    BY <1>3, <1>4, <2>2 DEF LossesKept
  <2> QED BY <2>1, <2>2
<1> QED BY <1>8, <1>9 DEF LossesKept, HistoryKept, Kept, AgesAscend

(* A check leaves the histories alone.                                     *)
LEMMA CheckedHistory ==
    ASSUME HealthInv, CheckClients, NEW c \in Clients
    PROVE  Entry(c)'.events = Entry(c).events
<1>1. CASE report[c] = None
  BY <1>1 DEF CheckClients, Entry
<1>2. CASE report[c] # None
  <2>1. report[c] \in Status /\ report'[c] = [report[c] EXCEPT !.health = Checked(report[c])]
    BY <1>2 DEF CheckClients, HealthInv, ReportsOK
  <2>2. report'[c] # None
    BY <1>2, CheckedReport DEF HealthInv
  <2> QED BY <1>2, <2>1, <2>2 DEF Entry, Status
<1> QED BY <1>1, <1>2

(* Time passes in all histories.                                           *)
LEMMA AgedHistory ==
    ASSUME HealthInv, Passes, NEW c \in Clients
    PROVE  Entry(c)'.events = Aged(Entry(c).events)
<1>1. CASE report[c] = None
  <2>1. Aged(<<>>) = <<>>
    BY DEF Aged
  <2> QED BY <1>1, <2>1 DEF Passes, Entry, DefaultStatus
<1>2. CASE report[c] # None
  <2> DEFINE aged == Aged(report[c].events)
  <2>1. report[c] \in Status /\ report'[c] = [report[c] EXCEPT !.events = aged]
    BY <1>2 DEF Passes, HealthInv, ReportsOK
  <2> HIDE DEF aged
  <2>2. report'[c] # None /\ report'[c].events = aged
    BY <1>2, <2>1, AgedReport DEF HealthInv, Status
  <2> QED BY <1>2, <2>2 DEF Entry, aged
<1> QED BY <1>1, <1>2

(* Every step keeps the losses in the histories.                           *)
LEMMA LossesStep ==
    ASSUME HealthInv, LossesKept, [HealthNext]_healthVars
    PROVE  LossesKept'
<1>1. CASE /\ losses' = losses
           /\ \A c \in Clients : Entry(c)'.events = Entry(c).events
  BY <1>1 DEF LossesKept, HistoryKept, Kept, AgesAscend
<1>2. CASE \/ Opens \/ Closes \/ StartListening \/ HandleLagged \/ SendReminder \/ StopListening
           \/ UNCHANGED healthVars
  <2>1. losses' = losses /\ report' = report
    BY <1>2 DEF Opens, Closes, StartListening, HandleLagged, SendReminder, StopListening,
       healthVars, monitorVars
  <2> QED BY <1>1, <2>1 DEF Entry
<1>3. CASE CheckClients
  <2>1. losses' = losses
    BY <1>3 DEF CheckClients
  <2>2. ASSUME NEW c \in Clients PROVE Entry(c)'.events = Entry(c).events
    BY <1>3, CheckedHistory
  <2> QED BY <1>1, <2>1, <2>2
<1>4. CASE Passes
  <2> DEFINE older(c) == [i \in DOMAIN losses[c] |-> Older(losses[c][i])]
  <2>1. losses' = [c \in Clients |-> older(c)]
    BY <1>4 DEF Passes
  <2>2. ASSUME NEW c \in Clients PROVE Entry(c)'.events = Aged(Entry(c).events)
    BY <1>4, AgedHistory
  <2>3. ASSUME NEW c \in Clients PROVE HistoryKept(Aged(Entry(c).events), older(c))
    BY AgeKeeps DEF LossesKept
  <2> HIDE DEF older
  <2>4. \A c \in Clients : older(c) \in Seq(0..MaxAge)
    BY <2>3 DEF HistoryKept
  <2>5. \A c \in Clients : HistoryKept(Entry(c)'.events, losses'[c])
    BY <2>1, <2>2, <2>3
  <2> QED BY <2>1, <2>4, <2>5 DEF LossesKept, HistoryKept, Kept, AgesAscend
<1>5. CASE HandleConnect
  <2>1. \A c \in Clients : Entry(c).health \in Health
    BY DEF HealthInv, ReportsOK, Entry, DefaultStatus, Status, Health
  <2>2. PICK h \in Health : report' = Recorded(h)
    BY <1>5, <2>1, Received DEF HandleConnect, HealthInv, Health
  <2> QED BY <1>5, <2>2, HandledLossesKept DEF LossesWith, HandleConnect, Ends
<1>6. CASE HandleDisconnect
  BY <1>6, HandledLossesKept DEF LossesWith, HandleDisconnect, Ends, Health
<1>7. CASE HandleConnectionLoss
  <2>1. \A c \in Clients : Entry(c).health \in Health
    BY DEF HealthInv, ReportsOK, Entry, DefaultStatus, Status, Health
  <2>2. PICK h \in Health : report' = Recorded(h)
    BY <1>7, <2>1, Received DEF HandleConnectionLoss, HealthInv, Ends
  <2> QED BY <1>7, <2>2, HandledLossesKept DEF LossesWith, HandleConnectionLoss, Ends
<1> QED BY <1>2, <1>3, <1>4, <1>5, <1>6, <1>7 DEF HealthNext, Handle

(* No history hides a loss at the start.                                   *)
LEMMA LossesInit ==
    ASSUME HealthInit
    PROVE  LossesKept
<1>1. \A c \in Clients : Entry(c).events = <<>> /\ losses[c] = <<>>
  BY DEF HealthInit, Entry, DefaultStatus
<1>2. ASSUME NEW w PROVE Kept(<<>>, <<>>, w)
  <2>1. ASSUME NEW S PROVE Entries(<<>>, S) = {}
    BY DEF Entries
  <2>2. Cardinality({}) = 0
    BY FS_EmptySet
  <2>3. ASSUME NEW S PROVE Cardinality(Entries(<<>>, S)) = 0
    BY <2>1, <2>2
  <2>4. Cardinality(Entries(<<>>, 0..w)) <= Cardinality(Entries(<<>>, LossUpTo(w)))
    BY <2>3
  <2> QED BY <2>4 DEF Kept
<1>3. HistoryKept(<<>>, <<>>)
  BY <1>2, HealthAssumption DEF HistoryKept, AgesAscend
<1> QED BY <1>1, <1>3 DEF LossesKept, HealthInit

(* What the histories keep is enough for the check.                        *)
LEMMA LossesSuffice ==
    ASSUME HealthInv, LossesKept
    PROVE  NoLossOverlooked
<1> SUFFICES ASSUME NEW c \in Clients, report[c] # None, report[c].health = "Healthy",
                    Cardinality({i \in DOMAIN losses[c] : losses[c][i] <= LossWindow}) >= ConnectionLossLimit,
                    ~FullOfRecentEvents(report[c])
             PROVE  Checked(report[c]) # "Healthy"
  BY DEF NoLossOverlooked
<1> DEFINE events == report[c].events
           ages == losses[c]
           w == LossWindow
<1>1. HistoryKept(events, ages) /\ w \in 0..(MaxAge - 1)
  BY WindowBelowMaxAge DEF LossesKept, Entry
<1>2. events \in Seq(Past) /\ AgesAscend(events) /\ ages \in Seq(0..MaxAge) /\ Kept(events, ages, w)
  BY <1>1 DEF HistoryKept
<1>3. {i \in DOMAIN ages : ages[i] <= w} = Entries(ages, 0..w)
  <2>1. \A i \in DOMAIN ages : ages[i] \in 0..MaxAge
    <3> DEFINE A == 0..MaxAge
    <3>1. ages \in Seq(A)
      BY <1>2
    <3> HIDE DEF A, ages
    <3>2. \A i \in DOMAIN ages : ages[i] \in A
      BY <3>1
    <3> QED BY <3>2 DEF A
  <2> QED BY <2>1, HealthAssumption, MaxAgeNat DEF Entries
<1>4. ~(Len(events) = MaxClientEvents /\ events[Len(events)].age <= w)
  BY DEF FullOfRecentEvents, Last
<1>5. Cardinality(Entries(ages, 0..w)) <= Cardinality(Entries(events, LossUpTo(w)))
  BY <1>2, <1>4 DEF Kept
<1>6. /\ Cardinality(Entries(ages, 0..w)) \in Nat
      /\ Cardinality(Entries(events, LossUpTo(w))) \in Nat
  BY <1>2, EntriesCounted
<1>7. Cardinality(Entries(events, LossUpTo(w))) >= ConnectionLossLimit
  BY <1>3, <1>5, <1>6, HealthAssumption
<1>8. RecentLosses(events) >= ConnectionLossLimit
  BY <1>2, <1>7, RecentCounted
<1>9. events # <<>>
  <2> SUFFICES ASSUME events = <<>> PROVE FALSE
    OBVIOUS
  <2>1. Entries(events, LossUpTo(w)) = {}
    BY DEF Entries
  <2>2. Cardinality(Entries(events, LossUpTo(w))) = 0
    BY <2>1, FS_EmptySet
  <2> QED BY <1>7, <2>2, HealthAssumption
<1> QED BY <1>8, <1>9 DEF Checked

(* No loss within the window escapes a check of a healthy client, for any  *)
(* limit, window and length of the history, unless the history is full of  *)
(* events within the window.                                               *)
THEOREM LossesAreNotOverlooked == HealthSpec => []NoLossOverlooked
<1>1. HealthInit => HealthInv /\ LossesKept
  BY HealthInvInit, LossesInit
<1>2. HealthInv /\ LossesKept /\ [HealthNext]_healthVars => HealthInv' /\ LossesKept'
  BY HealthStep, LossesStep
<1>3. HealthInv /\ LossesKept => NoLossOverlooked
  BY LossesSuffice
<1> QED BY <1>1, <1>2, <1>3, PTL DEF HealthSpec

-----------------------------------------------------------------------------
(* A client's events among the first n.                                    *)
EventsOf(s, c, n) == {i \in 1..n : s[i].client = c}

(* One of a client's last two events is of its newest connection, or that  *)
(* connection has ended: what the check relies on when it looks at no more *)
(* than two events.                                                        *)
Settled(s, c, n) ==
    \E m \in EventsOf(s, c, n) :
        /\ \A i \in EventsOf(s, c, n) : s[i].conn <= s[m].conn
        /\ \/ \E e \in 1..n : s[e].conn = s[m].conn /\ s[e].kind \in Ends
           \/ \A i, j \in EventsOf(s, c, n) : i > m /\ j > m => i = j

OpenOf(c) == {k \in ConnIds : phase[k] = "open" /\ \E i \in DOMAIN sent : sent[i].conn = k /\ sent[i].client = c}

(* The events of a connection begin with its opening, stay with one client *)
(* and are there once it has ended.                                        *)
ConnectionsOK ==
    /\ \A i \in DOMAIN sent : phase[sent[i].conn] # "unseen"
    /\ \A k \in ConnIds : phase[k] = "closed" =>
        \E i \in DOMAIN sent : sent[i].conn = k /\ sent[i].kind \in Ends
    /\ \A i, j \in DOMAIN sent : sent[i].conn = sent[j].conn => sent[i].client = sent[j].client

(* At most two connections of a client overlap, and while they do, its     *)
(* last event is the opening of the newer one.                             *)
OverlapOK ==
    \A c \in Clients :
        /\ \A x, y, z \in OpenOf(c) : x = y \/ y = z \/ x = z
        /\ \A x, y \in OpenOf(c) : x # y =>
            \E p \in DOMAIN sent :
                /\ sent[p].client = c
                /\ \A i \in DOMAIN sent : sent[i].client = c => i <= p /\ sent[i].conn <= sent[p].conn

AllSettled ==
    \A c \in Clients, n \in DOMAIN sent : EventsOf(sent, c, n) # {} => Settled(sent, c, n)

OverlapInv == ConnectionsOK /\ OverlapOK /\ AllSettled

(* The client of an open connection is that of all its events.             *)
LEMMA ClientOfOpen ==
    ASSUME EventsOK, ConnectionsOK, NEW k \in ConnIds, phase[k] = "open"
    PROVE  /\ \E i \in DOMAIN sent : sent[i].kind = "Connect" /\ sent[i].conn = k /\ sent[i].client = ClientOfConn(k)
           /\ \A i \in DOMAIN sent : sent[i].conn = k => sent[i].client = ClientOfConn(k)
           /\ \A c : k \in OpenOf(c) <=> ClientOfConn(k) = c
           /\ ClientOfConn(k) \in Clients
<1>1. \E i \in DOMAIN sent : sent[i].kind = "Connect" /\ sent[i].conn = k
  BY DEF EventsOK
<1>2. PICK i \in DOMAIN sent :
        sent[i].kind = "Connect" /\ sent[i].conn = k /\ sent[i].client = ClientOfConn(k)
  BY <1>1 DEF ClientOfConn
<1>3. \A j \in DOMAIN sent : sent[j].conn = k => sent[j].client = ClientOfConn(k)
  BY <1>2 DEF ConnectionsOK
<1>4. \A c : k \in OpenOf(c) <=> ClientOfConn(k) = c
  BY <1>2, <1>3 DEF OpenOf
<1>5. sent[i] \in ClientEvent
  BY DEF EventsOK, EventsTypeOK
<1> QED BY <1>2, <1>3, <1>4, <1>5 DEF ClientEvent

(* A client that opens a connection has at most one other open.            *)
LEMMA OneOtherOpen ==
    ASSUME MaxOverlap <= 2, EventsOK, ConnectionsOK, NEW c,
           Cardinality({j \in ConnIds : phase[j] = "open" /\ ClientOfConn(j) = c}) < MaxOverlap
    PROVE  \A x, y \in OpenOf(c) : x = y
<1> DEFINE S == {j \in ConnIds : phase[j] = "open" /\ ClientOfConn(j) = c}
           named == {sent[i].conn : i \in DOMAIN sent}
           f == [i \in DOMAIN sent |-> sent[i].conn]
<1>1. OpenOf(c) = S
  BY ClientOfOpen DEF OpenOf
<1>2. IsFiniteSet(named)
  <2>1. IsFiniteSet(DOMAIN sent)
    <3>1. DOMAIN sent = 1..Len(sent) /\ Len(sent) \in Nat
      BY DEF EventsOK, EventsTypeOK
    <3> QED BY <3>1, FS_Interval
  <2>2. f \in Surjection(DOMAIN sent, named)
    BY DEF Surjection
  <2> HIDE DEF named, f
  <2> QED BY <2>1, <2>2, FS_Surjection
<1>3. S \in SUBSET named
  BY ClientOfOpen
<1>4. IsFiniteSet(S)
  <2> HIDE DEF S, named
  <2> QED BY <1>2, <1>3, FS_Subset
<1> SUFFICES ASSUME NEW x \in OpenOf(c), NEW y \in OpenOf(c), x # y PROVE FALSE
  OBVIOUS
<1>5. {x, y} \in SUBSET S
  BY <1>1
<1>6. Cardinality({x, y}) = 2
  <2>1. IsFiniteSet({x}) /\ Cardinality({x}) = 1
    BY FS_Singleton
  <2>2. {x, y} = {x} \cup {y} /\ y \notin {x}
    OBVIOUS
  <2>3. Cardinality({x} \cup {y}) = Cardinality({x}) + 1
    <3> DEFINE X == {x}
    <3>1. IsFiniteSet(X) /\ y \notin X
      BY <2>1, <2>2
    <3> HIDE DEF X
    <3>2. Cardinality(X \cup {y}) = Cardinality(X) + 1
      BY <3>1, FS_AddElement
    <3> QED BY <3>2 DEF X
  <2> QED BY <2>1, <2>2, <2>3
<1>7. Cardinality({x, y}) <= Cardinality(S) /\ Cardinality(S) \in Nat
  <2> HIDE DEF S
  <2> QED BY <1>4, <1>5, FS_Subset, FS_CardinalityType
<1>8. Cardinality(S) < MaxOverlap
  OBVIOUS
<1> HIDE DEF S
<1> QED BY <1>6, <1>7, <1>8, HealthAssumption

(* What is settled stays so: the events sent before do not change.         *)
LEMMA SettledStays ==
    ASSUME NEW s \in Seq(ClientEvent), NEW e \in ClientEvent, NEW c,
           NEW n \in DOMAIN s
    PROVE  /\ EventsOf(Append(s, e), c, n) = EventsOf(s, c, n)
           /\ Settled(s, c, n) => Settled(Append(s, e), c, n)
<1> DEFINE t == Append(s, e)
<1>1. Len(s) \in Nat /\ n \in Nat /\ n <= Len(s) /\ DOMAIN s = 1..Len(s)
  OBVIOUS
<1>2. \A i \in 1..n : i \in DOMAIN s /\ t[i] = s[i]
  BY <1>1
<1> HIDE DEF t
<1>3. EventsOf(t, c, n) = EventsOf(s, c, n)
  BY <1>2 DEF EventsOf
<1>4. Settled(s, c, n) => Settled(t, c, n)
  <2> SUFFICES ASSUME Settled(s, c, n) PROVE Settled(t, c, n)
    OBVIOUS
  <2>1. PICK m \in EventsOf(s, c, n) :
            /\ \A i \in EventsOf(s, c, n) : s[i].conn <= s[m].conn
            /\ \/ \E x \in 1..n : s[x].conn = s[m].conn /\ s[x].kind \in Ends
               \/ \A i, j \in EventsOf(s, c, n) : i > m /\ j > m => i = j
    BY DEF Settled
  <2>2. \A i \in EventsOf(s, c, n) : t[i] = s[i]
    BY <1>2 DEF EventsOf
  <2>3. \A i \in EventsOf(t, c, n) : t[i].conn <= t[m].conn
    BY <1>3, <2>1, <2>2
  <2>4. CASE \E x \in 1..n : s[x].conn = s[m].conn /\ s[x].kind \in Ends
    <3>1. \E x \in 1..n : t[x].conn = t[m].conn /\ t[x].kind \in Ends
      BY <1>2, <2>2, <2>4
    <3> QED BY <1>3, <2>3, <3>1 DEF Settled
  <2>5. CASE \A i, j \in EventsOf(s, c, n) : i > m /\ j > m => i = j
    BY <1>3, <2>3, <2>5 DEF Settled
  <2> QED BY <2>1, <2>4, <2>5
<1> QED BY <1>3, <1>4 DEF t

(* One more event of another client settles nothing and unsettles nothing. *)
LEMMA OtherSettled ==
    ASSUME NEW s \in Seq(ClientEvent), NEW e \in ClientEvent, NEW c, e.client # c,
           \A n \in DOMAIN s : EventsOf(s, c, n) # {} => Settled(s, c, n),
           EventsOf(Append(s, e), c, Len(s) + 1) # {}
    PROVE  Settled(Append(s, e), c, Len(s) + 1)
<1> DEFINE t == Append(s, e)
           n == Len(s)
<1>1. /\ n \in Nat /\ DOMAIN s = 1..n /\ t[n + 1] = e
      /\ \A i \in 1..n : t[i] = s[i]
  OBVIOUS
<1>2. EventsOf(t, c, n + 1) = EventsOf(t, c, n)
  <2>1. 1..(n + 1) = 1..n \cup {n + 1}
    BY <1>1
  <2> HIDE DEF t, n
  <2> QED BY <1>1, <2>1 DEF EventsOf
<1>3. EventsOf(t, c, n) # {}
  BY <1>2
<1>4. n \in DOMAIN s
  <2>1. n # 0
    BY <1>3 DEF EventsOf
  <2> QED BY <1>1, <2>1
<1>5. Settled(t, c, n)
  BY <1>3, <1>4, SettledStays
<1>6. \A x \in 1..n : x \in 1..(n + 1)
  BY <1>1
<1> HIDE DEF t, n
<1> QED BY <1>2, <1>5, <1>6 DEF Settled, t, n

(* Opening a connection.                                                   *)
LEMMA OpensSettled ==
    ASSUME MaxOverlap <= 2, EventsOK, OverlapInv, Opens
    PROVE  OverlapInv'
<1>1. PICK k \in ConnIds, c \in Clients :
        /\ Cardinality({j \in ConnIds : phase[j] = "open" /\ ClientOfConn(j) = c}) < MaxOverlap
        /\ \A i \in DOMAIN sent : sent[i].client = c => sent[i].conn <= k
        /\ Announce(k, c)
  BY DEF Opens
<1> DEFINE e == [kind |-> "Connect", client |-> c, conn |-> k]
           n == Len(sent) + 1
<1>2. e \in ClientEvent /\ e.kind = "Connect" /\ e.client = c /\ e.conn = k
  BY DEF ClientEvent
<1>3. /\ phase[k] = "unseen" /\ phase' = [phase EXCEPT ![k] = "open"] /\ sent' = Append(sent, e)
  BY <1>1 DEF Announce
<1> HIDE DEF e
<1>4. /\ phase \in [ConnIds -> {"unseen", "open", "closed"}] /\ sent \in Seq(ClientEvent)
      /\ ConnectionsOK /\ OverlapOK /\ AllSettled /\ k \in Nat
  BY HealthAssumption DEF EventsOK, EventsTypeOK, OverlapInv
<1>5. /\ n \in Nat /\ DOMAIN sent = 1..Len(sent) /\ DOMAIN sent' = DOMAIN sent \cup {n}
      /\ n \notin DOMAIN sent /\ Len(sent) \in Nat
      /\ sent'[n] = e /\ \A i \in DOMAIN sent : sent'[i] = sent[i] /\ i < n
  BY <1>2, <1>3, <1>4
<1> HIDE DEF n
<1>6. /\ \A i \in DOMAIN sent : sent[i].conn \in ConnIds /\ sent[i].conn # k /\ sent[i].conn \in Nat
      /\ \A j \in ConnIds : j # k => phase'[j] = phase[j]
      /\ phase'[k] = "open"
  <2>1. \A i \in DOMAIN sent : sent[i] \in ClientEvent
    BY <1>4
  <2> QED BY <1>3, <1>4, <2>1, HealthAssumption DEF ClientEvent, ConnectionsOK
<1>7. ConnectionsOK'
  <2>1. \A i \in DOMAIN sent' : phase'[sent'[i].conn] # "unseen"
    BY <1>2, <1>4, <1>5, <1>6 DEF ConnectionsOK
  <2>2. ASSUME NEW j \in ConnIds, phase'[j] = "closed"
        PROVE  \E i \in DOMAIN sent' : sent'[i].conn = j /\ sent'[i].kind \in Ends
    BY <1>4, <1>5, <1>6, <2>2 DEF ConnectionsOK
  <2>3. \A i, j \in DOMAIN sent' : sent'[i].conn = sent'[j].conn => sent'[i].client = sent'[j].client
    BY <1>2, <1>4, <1>5, <1>6 DEF ConnectionsOK
  <2> QED BY <2>1, <2>2, <2>3 DEF ConnectionsOK
<1>8. ASSUME NEW d, NEW x PROVE x \in OpenOf(d)' <=> x \in OpenOf(d) \/ (d = c /\ x = k)
  BY <1>2, <1>3, <1>5, <1>6 DEF OpenOf
<1>9. OverlapOK'
  <2> SUFFICES ASSUME NEW d \in Clients
               PROVE  /\ \A x, y, z \in OpenOf(d)' : x = y \/ y = z \/ x = z
                      /\ \A x, y \in OpenOf(d)' : x # y =>
                            \E p \in DOMAIN sent' :
                                /\ sent'[p].client = d
                                /\ \A i \in DOMAIN sent' : sent'[i].client = d =>
                                        i <= p /\ sent'[i].conn <= sent'[p].conn
    BY DEF OverlapOK
  <2>1. CASE d = c
    <3>1. \A x, y \in OpenOf(c) : x = y
      BY <1>1, <1>4, OneOtherOpen
    <3>2. /\ sent'[n].client = c
          /\ \A i \in DOMAIN sent' : sent'[i].client = c => i <= n /\ sent'[i].conn <= sent'[n].conn
      BY <1>1, <1>2, <1>4, <1>5, <1>6
    <3> QED BY <1>5, <1>8, <2>1, <3>1, <3>2
  <2>2. CASE d # c
    <3>1. \A x : x \in OpenOf(d)' <=> x \in OpenOf(d)
      BY <1>8, <2>2
    <3>2. \A i \in DOMAIN sent' : sent'[i].client = d => i \in DOMAIN sent /\ sent'[i] = sent[i]
      BY <1>2, <1>5, <2>2
    <3>3. ASSUME NEW x \in OpenOf(d), NEW y \in OpenOf(d), x # y
          PROVE  \E p \in DOMAIN sent' :
                    /\ sent'[p].client = d
                    /\ \A i \in DOMAIN sent' : sent'[i].client = d => i <= p /\ sent'[i].conn <= sent'[p].conn
      <4>1. PICK p \in DOMAIN sent :
                /\ sent[p].client = d
                /\ \A i \in DOMAIN sent : sent[i].client = d => i <= p /\ sent[i].conn <= sent[p].conn
        BY <1>4, <3>3 DEF OverlapOK
      <4>2. p \in DOMAIN sent' /\ sent'[p] = sent[p]
        BY <1>5
      <4> QED BY <3>2, <4>1, <4>2
    <3> QED BY <1>4, <3>1, <3>3 DEF OverlapOK
  <2> QED BY <2>1, <2>2
<1>10. AllSettled'
  <2> SUFFICES ASSUME NEW d \in Clients, NEW i \in DOMAIN sent', EventsOf(sent', d, i) # {}
               PROVE  Settled(sent', d, i)
    BY DEF AllSettled
  <2>1. CASE i \in DOMAIN sent
    BY <1>2, <1>3, <1>4, <2>1, SettledStays DEF AllSettled
  <2>2. CASE i = n /\ d # c
    BY <1>2, <1>3, <1>4, <2>2, OtherSettled DEF AllSettled, n
  <2>3. CASE i = n /\ d = c
    <3>1. \A j \in EventsOf(sent', c, n) : j \in DOMAIN sent' /\ sent'[j].client = c /\ j <= n
      BY <1>5 DEF EventsOf, n
    <3>2. n \in EventsOf(sent', c, n)
      BY <1>2, <1>5 DEF EventsOf
    <3>3. \A j \in EventsOf(sent', c, n) : sent'[j].conn <= sent'[n].conn
      BY <1>1, <1>2, <1>4, <1>5, <3>1
    <3>4. \A j \in EventsOf(sent', c, n) : ~(j > n)
      BY <1>5, <3>1
    <3> QED BY <2>3, <3>2, <3>3, <3>4 DEF Settled
  <2> QED BY <1>5, <2>1, <2>2, <2>3
<1> QED BY <1>7, <1>9, <1>10 DEF OverlapInv

(* A connection ends.                                                      *)
LEMMA ClosesSettled ==
    ASSUME EventsOK, OverlapInv, Closes
    PROVE  OverlapInv'
<1>1. PICK k \in ConnIds, kind \in Ends : End(k, kind)
  BY DEF Closes
<1>2. PICK c \in Clients : c = ClientOfConn(k)
  BY <1>1, ClientOfOpen DEF End, OverlapInv
<1> DEFINE e == [kind |-> kind, client |-> c, conn |-> k]
           n == Len(sent) + 1
<1>3. e \in ClientEvent /\ e.kind = kind /\ e.client = c /\ e.conn = k
  BY DEF ClientEvent
<1>4. /\ phase[k] = "open" /\ phase' = [phase EXCEPT ![k] = "closed"] /\ sent' = Append(sent, e)
  BY <1>1, <1>2 DEF End
<1> HIDE DEF e
<1>5. /\ phase \in [ConnIds -> {"unseen", "open", "closed"}] /\ sent \in Seq(ClientEvent)
      /\ ConnectionsOK /\ OverlapOK /\ AllSettled
  BY DEF EventsOK, EventsTypeOK, OverlapInv
<1>6. /\ n \in Nat /\ DOMAIN sent = 1..Len(sent) /\ DOMAIN sent' = DOMAIN sent \cup {n}
      /\ n \notin DOMAIN sent /\ Len(sent) \in Nat
      /\ sent'[n] = e /\ \A i \in DOMAIN sent : sent'[i] = sent[i] /\ i < n
  BY <1>3, <1>4, <1>5
<1> HIDE DEF n
<1>7. /\ \A i \in DOMAIN sent : sent[i].conn \in ConnIds /\ sent[i].conn \in Nat
      /\ \A j \in ConnIds : j # k => phase'[j] = phase[j]
      /\ phase'[k] = "closed"
  <2>1. \A i \in DOMAIN sent : sent[i] \in ClientEvent
    BY <1>5
  <2> QED BY <1>4, <1>5, <2>1, HealthAssumption DEF ClientEvent
<1>8. /\ \A i \in DOMAIN sent : sent[i].conn = k => sent[i].client = c
      /\ \E i \in DOMAIN sent : sent[i].conn = k /\ sent[i].client = c
      /\ k \in OpenOf(c)
  BY <1>2, <1>4, <1>5, ClientOfOpen
<1>9. ConnectionsOK'
  <2>1. \A i \in DOMAIN sent' : phase'[sent'[i].conn] # "unseen"
    BY <1>3, <1>5, <1>6, <1>7 DEF ConnectionsOK
  <2>2. ASSUME NEW j \in ConnIds, phase'[j] = "closed"
        PROVE  \E i \in DOMAIN sent' : sent'[i].conn = j /\ sent'[i].kind \in Ends
    BY <1>3, <1>5, <1>6, <1>7, <2>2 DEF ConnectionsOK
  <2>3. \A i, j \in DOMAIN sent' : sent'[i].conn = sent'[j].conn => sent'[i].client = sent'[j].client
    BY <1>3, <1>5, <1>6, <1>8 DEF ConnectionsOK
  <2> QED BY <2>1, <2>2, <2>3 DEF ConnectionsOK
<1>10. ASSUME NEW d, NEW x PROVE x \in OpenOf(d)' => x \in OpenOf(d) /\ x # k
  BY <1>3, <1>4, <1>6, <1>7 DEF OpenOf
<1>11. OverlapOK'
  <2> SUFFICES ASSUME NEW d \in Clients
               PROVE  /\ \A x, y, z \in OpenOf(d)' : x = y \/ y = z \/ x = z
                      /\ \A x, y \in OpenOf(d)' : x # y =>
                            \E p \in DOMAIN sent' :
                                /\ sent'[p].client = d
                                /\ \A i \in DOMAIN sent' : sent'[i].client = d =>
                                        i <= p /\ sent'[i].conn <= sent'[p].conn
    BY DEF OverlapOK
  <2>1. CASE d = c
    <3>1. \A x, y \in OpenOf(d)' : x = y
      BY <1>5, <1>8, <1>10, <2>1 DEF OverlapOK
    <3> QED BY <3>1
  <2>2. CASE d # c
    <3>1. \A i \in DOMAIN sent' : sent'[i].client = d => i \in DOMAIN sent /\ sent'[i] = sent[i]
      BY <1>3, <1>6, <2>2
    <3>2. ASSUME NEW x \in OpenOf(d), NEW y \in OpenOf(d), x # y
          PROVE  \E p \in DOMAIN sent' :
                    /\ sent'[p].client = d
                    /\ \A i \in DOMAIN sent' : sent'[i].client = d => i <= p /\ sent'[i].conn <= sent'[p].conn
      <4>1. PICK p \in DOMAIN sent :
                /\ sent[p].client = d
                /\ \A i \in DOMAIN sent : sent[i].client = d => i <= p /\ sent[i].conn <= sent[p].conn
        BY <1>5, <3>2 DEF OverlapOK
      <4>2. p \in DOMAIN sent' /\ sent'[p] = sent[p]
        BY <1>6
      <4> QED BY <3>1, <4>1, <4>2
    <3> QED BY <1>5, <1>10, <3>2 DEF OverlapOK
  <2> QED BY <2>1, <2>2
<1>12. AllSettled'
  <2> SUFFICES ASSUME NEW d \in Clients, NEW i \in DOMAIN sent', EventsOf(sent', d, i) # {}
               PROVE  Settled(sent', d, i)
    BY DEF AllSettled
  <2>1. CASE i \in DOMAIN sent
    BY <1>3, <1>4, <1>5, <2>1, SettledStays DEF AllSettled
  <2>2. CASE i = n /\ d # c
    BY <1>3, <1>4, <1>5, <2>2, OtherSettled DEF AllSettled, n
  <2>3. CASE i = n /\ d = c
    <3> DEFINE l == Len(sent)
    <3>1. \A j \in DOMAIN sent : j \in 1..l /\ (j \in EventsOf(sent, c, l) <=> sent[j].client = c)
      BY <1>6 DEF EventsOf
    <3>2. EventsOf(sent, c, l) # {} /\ l \in DOMAIN sent
      BY <1>6, <1>8, <3>1
    <3>3. Settled(sent, c, l)
      BY <1>5, <3>2 DEF AllSettled
    <3>4. PICK m \in EventsOf(sent, c, l) :
            /\ \A j \in EventsOf(sent, c, l) : sent[j].conn <= sent[m].conn
            /\ \/ \E x \in 1..l : sent[x].conn = sent[m].conn /\ sent[x].kind \in Ends
               \/ \A x, y \in EventsOf(sent, c, l) : x > m /\ y > m => x = y
      BY <3>3 DEF Settled
    <3>5. m \in DOMAIN sent /\ sent[m].client = c /\ m \in EventsOf(sent, c, l)
      BY <1>6 DEF EventsOf
    <3>6. /\ \A j \in DOMAIN sent' : j \in EventsOf(sent', c, n) <=> sent'[j].client = c
          /\ \A j \in EventsOf(sent', c, n) : j \in DOMAIN sent'
          /\ \A j \in DOMAIN sent' : j \in 1..n
      BY <1>6 DEF EventsOf, n
    <3> HIDE DEF l
    <3>7. /\ m \in EventsOf(sent', c, n) /\ sent'[m] = sent[m]
          /\ \A j \in EventsOf(sent', c, n) : sent'[j].conn <= sent'[m].conn
      <4>1. m \in EventsOf(sent', c, n) /\ sent'[m] = sent[m]
        BY <1>6, <3>5, <3>6
      <4>2. k <= sent[m].conn
        BY <1>8, <3>1, <3>4
      <4> QED BY <1>3, <1>6, <3>1, <3>4, <3>6, <4>1, <4>2
    <3>8. CASE \E x \in DOMAIN sent : sent[x].conn = sent[m].conn /\ sent[x].kind \in Ends
      <4>1. \E x \in 1..n : sent'[x].conn = sent'[m].conn /\ sent'[x].kind \in Ends
        BY <1>6, <3>6, <3>7, <3>8
      <4> QED BY <2>3, <3>7, <4>1 DEF Settled
    <3>9. CASE sent[m].conn = k
      <4>1. sent'[n].conn = sent'[m].conn /\ sent'[n].kind \in Ends /\ n \in 1..n
        BY <1>3, <1>6, <3>6, <3>7, <3>9
      <4> QED BY <2>3, <3>7, <4>1 DEF Settled
    <3>10. CASE sent[m].conn # k /\ ~\E x \in DOMAIN sent : sent[x].conn = sent[m].conn /\ sent[x].kind \in Ends
      <4>1. phase[sent[m].conn] = "open"
        <5>1. phase[sent[m].conn] \in {"unseen", "open", "closed"}
          BY <1>5, <1>7, <3>5
        <5> QED BY <1>5, <1>7, <3>5, <3>10, <5>1 DEF ConnectionsOK
      <4>2. sent[m].conn \in OpenOf(c)
        BY <1>7, <3>5, <4>1 DEF OpenOf
      <4>3. PICK p \in DOMAIN sent :
                /\ sent[p].client = c
                /\ \A j \in DOMAIN sent : sent[j].client = c => j <= p /\ sent[j].conn <= sent[p].conn
        BY <1>5, <1>8, <3>10, <4>2 DEF OverlapOK
      <4>4. p \in EventsOf(sent', c, n) /\ sent'[p] = sent[p]
        BY <1>6, <3>6, <4>3
      <4>5. \A j \in EventsOf(sent', c, n) : sent'[j].conn <= sent'[p].conn
        <5>1. sent[m].conn <= sent[p].conn /\ sent[m].conn \in Nat /\ sent[p].conn \in Nat
          BY <1>7, <3>5, <4>3
        <5>2. \A j \in EventsOf(sent', c, n) : sent'[j].conn \in Nat
          BY <1>3, <1>6, <1>7, <3>6, HealthAssumption
        <5> QED BY <3>7, <4>4, <5>1, <5>2
      <4>6. \A x, y \in EventsOf(sent', c, n) : x > p /\ y > p => x = y
        <5>1. \A x \in EventsOf(sent', c, n) : x > p => x = n
          BY <1>6, <3>6, <4>3
        <5> QED BY <5>1
      <4> QED BY <2>3, <4>4, <4>5, <4>6 DEF Settled
    <3> QED BY <3>8, <3>9, <3>10
  <2> QED BY <1>6, <2>1, <2>2, <2>3
<1> QED BY <1>9, <1>11, <1>12 DEF OverlapInv

-----------------------------------------------------------------------------
(* The two newest events of a history are the client's last two of the     *)
(* first n.                                                                *)
Matches(events, s, c, n) ==
    /\ events = <<>> => EventsOf(s, c, n) = {}
    /\ Len(events) >= 1 =>
        \E p \in EventsOf(s, c, n) :
            /\ \A i \in EventsOf(s, c, n) : i <= p
            /\ events[1].conn = s[p].conn /\ events[1].kind = s[p].kind
            /\ Len(events) = 1 => EventsOf(s, c, n) = {p}
            /\ Len(events) >= 2 =>
                \E q \in EventsOf(s, c, n) :
                    /\ q # p /\ \A i \in EventsOf(s, c, n) : i # p => i <= q
                    /\ events[2].conn = s[q].conn /\ events[2].kind = s[q].kind

(* A monitor that has not lagged behind knows the last two events of every *)
(* client among those it has received.                                     *)
HistoryMatches ==
    ~lagged =>
        /\ next - 1 <= Len(sent)
        /\ \A c \in Clients : Matches(Entry(c).events, sent, c, next - 1)

(* Nothing else of the events matters.                                     *)
LEMMA MatchesSame ==
    ASSUME NEW a \in Seq(Past), NEW b \in Seq(Past), Len(a) = Len(b),
           \A i \in DOMAIN a : a[i].conn = b[i].conn /\ a[i].kind = b[i].kind,
           NEW s, NEW t, NEW c, NEW n, \A i \in 1..n : t[i] = s[i],
           Matches(a, s, c, n)
    PROVE  Matches(b, t, c, n)
<1>1. EventsOf(t, c, n) = EventsOf(s, c, n)
  BY DEF EventsOf
<1>2. \A i \in EventsOf(s, c, n) : t[i] = s[i]
  BY DEF EventsOf
<1>3. a = <<>> <=> b = <<>>
  OBVIOUS
<1>4. /\ Len(a) >= 1 => a[1].conn = b[1].conn /\ a[1].kind = b[1].kind
      /\ Len(a) >= 2 => a[2].conn = b[2].conn /\ a[2].kind = b[2].kind
  OBVIOUS
<1>5. CASE Len(a) >= 1
  <2>1. PICK p \in EventsOf(s, c, n) :
            /\ \A i \in EventsOf(s, c, n) : i <= p
            /\ a[1].conn = s[p].conn /\ a[1].kind = s[p].kind
            /\ Len(a) = 1 => EventsOf(s, c, n) = {p}
            /\ Len(a) >= 2 =>
                \E q \in EventsOf(s, c, n) :
                    /\ q # p /\ \A i \in EventsOf(s, c, n) : i # p => i <= q
                    /\ a[2].conn = s[q].conn /\ a[2].kind = s[q].kind
    BY <1>5 DEF Matches
  <2>2. b[1].conn = t[p].conn /\ b[1].kind = t[p].kind
    BY <1>2, <1>4, <1>5, <2>1
  <2>3. Len(b) >= 2 =>
            \E q \in EventsOf(t, c, n) :
                /\ q # p /\ \A i \in EventsOf(t, c, n) : i # p => i <= q
                /\ b[2].conn = t[q].conn /\ b[2].kind = t[q].kind
    BY <1>1, <1>2, <1>4, <2>1
  <2>4. b # <<>>
    BY <1>3, <1>5
  <2> QED BY <1>1, <2>1, <2>2, <2>3, <2>4 DEF Matches
<1>6. CASE ~(Len(a) >= 1)
  BY <1>1, <1>3, <1>6 DEF Matches
<1> QED BY <1>5, <1>6

(* The event received is the last of its client, and the one before it the *)
(* last but one.                                                           *)
LEMMA PushedMatches ==
    ASSUME NEW events \in Seq(Past), Len(events) <= MaxClientEvents, AgesAscend(events),
           NEW s \in Seq(ClientEvent), NEW n \in DOMAIN s,
           Matches(events, s, s[n].client, n - 1)
    PROVE  Matches(Pushed(events, s[n].kind, s[n].conn), s, s[n].client, n)
<1> DEFINE c == s[n].client
           p == [kind |-> s[n].kind, conn |-> s[n].conn, age |-> 0]
           longer == <<p>> \o events
           pushed == IF Len(longer) > MaxClientEvents THEN Front(longer) ELSE longer
<1>1. p \in Past /\ p.kind = s[n].kind /\ p.conn = s[n].conn /\ p.age = 0
  <2>1. s[n] \in ClientEvent
    OBVIOUS
  <2> QED BY <2>1, MaxAgeNat DEF ClientEvent, Past
<1>2. Pushed(events, s[n].kind, s[n].conn) = pushed
  BY DEF Pushed
<1> HIDE DEF p
<1>3. /\ pushed[1] = p /\ Len(pushed) >= 1 /\ pushed \in Seq(Past)
      /\ Len(events) >= 1 => Len(pushed) >= 2 /\ pushed[2] = events[1]
      /\ Len(events) = 0 => Len(pushed) = 1
  BY <1>1, PushedShape
<1> HIDE DEF pushed
<1>4. n \in Nat /\ 1..n = 1..(n - 1) \cup {n} /\ \A i \in 1..(n - 1) : i <= n /\ i # n
  OBVIOUS
<1>5. /\ EventsOf(s, c, n) = EventsOf(s, c, n - 1) \cup {n}
      /\ \A i \in EventsOf(s, c, n - 1) : i <= n /\ i # n
  BY <1>4 DEF EventsOf
<1>6. n \in EventsOf(s, c, n) /\ \A i \in EventsOf(s, c, n) : i <= n
  BY <1>4, <1>5
<1>7. pushed # <<>>
  BY <1>3
<1>8. CASE Len(events) = 0
  <2>1. events = <<>>
    BY <1>8
  <2>2. EventsOf(s, c, n) = {n}
    BY <1>5, <2>1 DEF Matches
  <2>3. Len(pushed) = 1 /\ ~(Len(pushed) >= 2)
    <3>1. Len(pushed) = 1
      BY <1>3, <1>8, Zenon
    <3> QED BY <3>1
  <2> HIDE DEF c
  <2> QED BY <1>1, <1>2, <1>3, <1>6, <1>7, <2>2, <2>3 DEF Matches, c
<1>9. CASE Len(events) >= 1
  <2>1. PICK q \in EventsOf(s, c, n - 1) :
            /\ \A i \in EventsOf(s, c, n - 1) : i <= q
            /\ events[1].conn = s[q].conn /\ events[1].kind = s[q].kind
    BY <1>9 DEF Matches
  <2>2. /\ q \in EventsOf(s, c, n) /\ q # n
        /\ \A i \in EventsOf(s, c, n) : i # n => i <= q
    BY <1>5, <2>1
  <2>3. Len(pushed) # 1 /\ Len(pushed) >= 2 /\ pushed[2] = events[1]
    BY <1>3, <1>9
  <2> HIDE DEF c
  <2> QED BY <1>1, <1>2, <1>3, <1>6, <1>7, <2>1, <2>2, <2>3 DEF Matches, c
<1> QED BY <1>8, <1>9

(* An event of another client is none of this one's last two.              *)
LEMMA OtherMatches ==
    ASSUME NEW events, NEW s, NEW n \in Nat \ {0}, NEW c, s[n].client # c,
           Matches(events, s, c, n - 1)
    PROVE  Matches(events, s, c, n)
<1>1. 1..n = 1..(n - 1) \cup {n}
  OBVIOUS
<1>2. EventsOf(s, c, n) = EventsOf(s, c, n - 1)
  BY <1>1 DEF EventsOf
<1> QED BY <1>2 DEF Matches

(* Every step keeps the histories in step with the events received.        *)
LEMMA MatchesStep ==
    ASSUME HealthInv, LossesKept, HistoryMatches, [HealthNext]_healthVars
    PROVE  HistoryMatches'
<1> SUFFICES ASSUME ~lagged' PROVE (next' - 1 <= Len(sent')) /\ \A c \in Clients : Matches(Entry(c).events, sent, c, next - 1)'
  BY DEF HistoryMatches
<1>1. ~lagged
  BY DEF HealthNext, Opens, Closes, Passes, StartListening, Handle, HandleConnect, HandleDisconnect,
     HandleConnectionLoss, HandleLagged, Receive, CheckClients, SendReminder, StopListening,
     healthVars, monitorVars
<1>2. /\ next - 1 <= Len(sent) /\ next \in Nat \ {0}
      /\ \A c \in Clients : Matches(Entry(c).events, sent, c, next - 1)
  BY <1>1 DEF HistoryMatches, HealthInv, ReportsOK
<1>3. /\ sent \in Seq(ClientEvent) /\ Len(sent) \in Nat
      /\ \A c \in Clients : Entry(c).events \in Seq(Past)
      /\ \A c \in Clients : Entry(c).health \in Health
  BY DEF HealthInv, EventsOK, EventsTypeOK, LossesKept, HistoryKept, ReportsOK, Entry, DefaultStatus,
     Status, Health
<1>4. CASE /\ next' = next /\ Len(sent) <= Len(sent') /\ Len(sent') \in Nat
           /\ \A i \in DOMAIN sent : sent'[i] = sent[i]
           /\ \A c \in Clients :
                /\ Entry(c)'.events \in Seq(Past) /\ Len(Entry(c).events) = Len(Entry(c)'.events)
                /\ \A i \in DOMAIN Entry(c).events :
                    /\ Entry(c).events[i].conn = Entry(c)'.events[i].conn
                    /\ Entry(c).events[i].kind = Entry(c)'.events[i].kind
  <2>1. \A i \in 1..(next - 1) : sent'[i] = sent[i]
    BY <1>2, <1>3, <1>4
  <2>2. next' - 1 <= Len(sent')
    BY <1>2, <1>3, <1>4
  <2>3. ASSUME NEW c \in Clients PROVE Matches(Entry(c)'.events, sent', c, next - 1)
    <3> DEFINE a == Entry(c).events
               b == Entry(c)'.events
    <3>1. /\ a \in Seq(Past) /\ b \in Seq(Past) /\ Len(a) = Len(b)
          /\ \A i \in DOMAIN a : a[i].conn = b[i].conn /\ a[i].kind = b[i].kind
          /\ Matches(a, sent, c, next - 1)
      BY <1>2, <1>3, <1>4
    <3> HIDE DEF a, b
    <3>2. Matches(b, sent', c, next - 1)
      BY <2>1, <3>1, MatchesSame
    <3> QED BY <3>2 DEF b
  <2>4. ASSUME NEW c \in Clients PROVE Matches(Entry(c).events, sent, c, next - 1)'
    <3>1. next' = next
      BY <1>4
    <3>2. Matches(Entry(c)'.events, sent', c, next' - 1)
      BY <2>3, <3>1
    <3> QED BY <3>2
  <2> QED BY <2>2, <2>4
<1>5. CASE Opens \/ Closes
  <2>1. PICK e \in ClientEvent : sent' = Append(sent, e)
    <3>1. \A k \in ConnIds, c \in Clients : [kind |-> "Connect", client |-> c, conn |-> k] \in ClientEvent
      BY DEF ClientEvent
    <3>2. CASE Opens
      BY <3>1, <3>2 DEF Opens, Announce
    <3>3. CASE Closes
      <4>1. PICK k \in ConnIds, kind \in Ends : End(k, kind)
        BY <3>3 DEF Closes
      <4>2. \E i \in DOMAIN sent : sent[i].kind = "Connect" /\ sent[i].conn = k
        BY <4>1 DEF End, HealthInv, EventsOK
      <4>3. PICK i \in DOMAIN sent : sent[i].client = ClientOfConn(k)
        BY <4>2 DEF ClientOfConn
      <4>4. sent[i].client \in Clients
        <5>1. sent[i] \in ClientEvent
          BY <1>3
        <5> QED BY <5>1 DEF ClientEvent
      <4> QED BY <4>1, <4>3, <4>4 DEF End, ClientEvent
    <3> QED BY <1>5, <3>2, <3>3
  <2>2. Len(sent) <= Len(sent') /\ Len(sent') \in Nat /\ \A i \in DOMAIN sent : sent'[i] = sent[i]
    BY <1>3, <2>1
  <2>3. next' = next /\ \A c \in Clients : Entry(c)' = Entry(c)
    BY <1>5 DEF Opens, Closes, monitorVars, Entry
  <2> QED BY <1>3, <1>4, <2>2, <2>3
<1>6. CASE StartListening \/ SendReminder \/ StopListening \/ UNCHANGED healthVars
  <2>1. next' = next /\ sent' = sent /\ \A c \in Clients : Entry(c)' = Entry(c)
    BY <1>6 DEF StartListening, SendReminder, StopListening, healthVars, monitorVars, eventVars, Entry
  <2> QED BY <1>3, <1>4, <2>1
<1>7. CASE CheckClients
  <2>1. next' = next /\ sent' = sent
    BY <1>7 DEF CheckClients, eventVars
  <2>2. ASSUME NEW c \in Clients PROVE Entry(c)'.events = Entry(c).events
    BY <1>7, CheckedHistory
  <2> QED BY <1>3, <1>4, <2>1, <2>2
<1>8. CASE Passes
  <2>1. next' = next /\ sent' = sent
    BY <1>8 DEF Passes, eventVars
  <2>2. ASSUME NEW c \in Clients
        PROVE  /\ Entry(c)'.events \in Seq(Past) /\ Len(Entry(c).events) = Len(Entry(c)'.events)
               /\ \A i \in DOMAIN Entry(c).events :
                    /\ Entry(c).events[i].conn = Entry(c)'.events[i].conn
                    /\ Entry(c).events[i].kind = Entry(c)'.events[i].kind
    <3> DEFINE a == Entry(c).events
               b == Aged(a)
    <3>1. Entry(c)'.events = b /\ a \in Seq(Past)
      BY <1>3, <1>8, AgedHistory
    <3>2. b \in Seq(Past)
      BY <3>1, AgedEvents
    <3> HIDE DEF a
    <3>3. DOMAIN b = DOMAIN a
      BY DEF Aged
    <3>4. ASSUME NEW i \in DOMAIN a PROVE a[i].conn = b[i].conn /\ a[i].kind = b[i].kind
      <4>1. a[i] \in Past /\ b[i] = [a[i] EXCEPT !.age = Older(a[i].age)]
        BY <3>1 DEF Aged
      <4> QED BY <4>1 DEF Past
    <3> HIDE DEF b
    <3>5. Len(a) = Len(b)
      BY <3>1, <3>2, <3>3
    <3> QED BY <3>1, <3>2, <3>4, <3>5 DEF a
  <2> QED BY <1>4, <1>3, <2>1, <2>2
<1>9. CASE HandleConnect \/ HandleDisconnect \/ HandleConnectionLoss
  <2>1. PICK kind \in {"Connect"} \cup Ends, h \in Health : Receive(kind) /\ report' = Recorded(h)
    <3>1. CASE HandleConnect
      BY <1>3, <3>1, Received DEF HandleConnect, HealthInv, Health
    <3>2. CASE HandleDisconnect
      BY <3>2 DEF HandleDisconnect, Ends, Health
    <3>3. CASE HandleConnectionLoss
      BY <1>3, <3>3, Received DEF HandleConnectionLoss, HealthInv, Ends
    <3> QED BY <1>9, <3>1, <3>2, <3>3
  <2>2. PICK c \in Clients : c = sent[next].client
    BY <2>1, Received DEF HealthInv
  <2>3. next \in DOMAIN sent /\ sent[next].kind = kind /\ sent' = sent /\ next' = next + 1
    BY <2>1, Received DEF HealthInv, Receive, eventVars
  <2>4. /\ Entry(c)'.events = Pushed(Entry(c).events, kind, sent[next].conn)
        /\ \A d \in Clients : d # c => Entry(d)'.events = Entry(d).events
    BY <2>1, <2>2, RecordedHistory
  <2>5. Matches(Entry(c)'.events, sent, c, next)
    <3>1. Len(Entry(c).events) <= MaxClientEvents /\ AgesAscend(Entry(c).events)
      BY DEF LossesKept, HistoryKept
    <3> QED BY <1>2, <1>3, <2>2, <2>3, <2>4, <3>1, PushedMatches
  <2>6. ASSUME NEW d \in Clients, d # c PROVE Matches(Entry(d)'.events, sent, d, next)
    BY <1>2, <2>2, <2>4, <2>6, OtherMatches
  <2>7. next' - 1 = next /\ next <= Len(sent)
    BY <1>2, <1>3, <2>3
  <2> QED BY <2>3, <2>5, <2>6, <2>7
<1>10. ~HandleLagged
  BY DEF HandleLagged
<1> QED BY <1>5, <1>6, <1>7, <1>8, <1>9, <1>10 DEF HealthNext, Handle

(* A client the check puts offline has lost its newest connection, as far  *)
(* as the monitor was told.                                                *)
LEMMA OfflineHasEnded ==
    ASSUME HealthInv, OverlapInv, LossesKept, HistoryMatches, ~lagged, NEW c \in Clients,
           report[c] # None, report[c].health # "Offline", Checked(report[c]) = "Offline"
    PROVE  Ended(Max(HeardOf(c)))
<1> DEFINE events == report[c].events
           n == next - 1
           heard == EventsOf(sent, c, n)
<1>1. /\ events \in Seq(Past) /\ n \in Nat /\ n <= Len(sent) /\ Len(sent) \in Nat
      /\ sent \in Seq(ClientEvent) /\ Matches(events, sent, c, n)
  BY DEF HistoryMatches, LossesKept, HistoryKept, Entry, HealthInv, ReportsOK, EventsOK, EventsTypeOK
<1>2. events # <<>> /\ Latest(events).kind = "ConnectionLoss"
  BY DEF Checked
<1>3. Len(events) >= 1 /\ Len(events) \in Nat
  BY <1>1, <1>2
<1> HIDE DEF events
<1>4. PICK p \in heard :
        /\ \A i \in heard : i <= p
        /\ events[1].conn = sent[p].conn /\ events[1].kind = sent[p].kind
        /\ Len(events) = 1 => heard = {p}
        /\ Len(events) >= 2 =>
            \E q \in heard :
                /\ q # p /\ \A i \in heard : i # p => i <= q
                /\ events[2].conn = sent[q].conn /\ events[2].kind = sent[q].kind
  BY <1>1, <1>3 DEF Matches
<1>5. \A i \in heard : i \in 1..n /\ i \in DOMAIN sent /\ i \in Nat /\ sent[i].client = c
                       /\ sent[i].conn \in Nat
  <2>1. \A i \in heard : i \in 1..n /\ i \in DOMAIN sent /\ i \in Nat /\ sent[i].client = c
    BY <1>1 DEF EventsOf
  <2>2. \A i \in DOMAIN sent : sent[i] \in ClientEvent
    BY <1>1
  <2> QED BY <2>1, <2>2, HealthAssumption DEF ClientEvent
<1>6. n \in DOMAIN sent
  BY <1>1, <1>4, <1>5
<1>7. Settled(sent, c, n)
  BY <1>4, <1>6 DEF OverlapInv, AllSettled
<1>8. PICK m \in heard :
        /\ \A i \in heard : sent[i].conn <= sent[m].conn
        /\ \/ \E e \in 1..n : sent[e].conn = sent[m].conn /\ sent[e].kind \in Ends
           \/ \A i, j \in heard : i > m /\ j > m => i = j
  BY <1>7 DEF Settled
<1> DEFINE M == sent[m].conn
<1>9. Max(HeardOf(c)) = M
  <2>1. HeardOf(c) = {sent[i].conn : i \in heard}
    BY DEF HeardOf, EventsOf
  <2> HIDE DEF heard
  <2>2. M \in HeardOf(c) /\ \A x \in HeardOf(c) : M >= x /\ x \in Nat
    BY <1>5, <1>8, <2>1
  <2>3. M \in Nat
    BY <1>5
  <2> HIDE DEF M
  <2>4. \A x \in HeardOf(c) : (\A y \in HeardOf(c) : x >= y) => x = M
    BY <2>2, <2>3
  <2> QED BY <2>2, <2>4 DEF Max
<1>10. SUFFICES ASSUME \A i, j \in heard : i > m /\ j > m => i = j
                PROVE  \E i \in 1..n : sent[i].conn = M /\ sent[i].kind \in Ends
  BY <1>8, <1>9 DEF Ended
<1>11. CASE Len(events) = 1
  <2>1. m = p /\ Latest(events) = events[1]
    BY <1>4, <1>11 DEF Latest
  <2> QED BY <1>2, <1>4, <1>5, <2>1 DEF Ends
<1>12. CASE Len(events) >= 2
  <2>1. PICK q \in heard :
            /\ q # p /\ \A i \in heard : i # p => i <= q
            /\ events[2].conn = sent[q].conn /\ events[2].kind = sent[q].kind
    BY <1>4, <1>12
  <2>2. q < p
    BY <1>4, <1>5, <2>1
  <2>3. m = p \/ m = q
    <3>1. CASE m # p /\ m # q
      <4>1. m < q /\ m < p
        BY <1>4, <1>5, <2>1, <2>2, <3>1
      <4> QED BY <1>10, <2>1, <4>1, <1>5
    <3> QED BY <3>1
  <2>4. sent[p].conn <= M /\ sent[q].conn <= M /\ sent[p].conn \in Nat /\ sent[q].conn \in Nat
    BY <1>5, <1>8
  <2>5. \/ Latest(events) = events[1] /\ sent[p].conn = M
        \/ Latest(events) = events[2] /\ sent[q].conn = M
    BY <1>4, <1>12, <2>1, <2>3, <2>4 DEF Latest
  <2>6. CASE Latest(events) = events[1] /\ sent[p].conn = M
    <3>1. sent[p].kind \in Ends /\ p \in 1..n
      BY <1>2, <1>4, <1>5, <2>6 DEF Ends
    <3> QED BY <2>6, <3>1
  <2>7. CASE Latest(events) = events[2] /\ sent[q].conn = M
    <3>1. sent[q].kind \in Ends /\ q \in 1..n
      BY <1>2, <1>5, <2>1, <2>7 DEF Ends
    <3> QED BY <2>7, <3>1
  <2> QED BY <2>5, <2>6, <2>7
<1>13. Len(events) = 1 \/ Len(events) >= 2
  <2>1. \A x \in Nat : x >= 1 => x = 1 \/ x >= 2
    OBVIOUS
  <2> QED BY <1>3, <2>1
<1> HIDE DEF n, M, heard
<1> QED BY <1>11, <1>12, <1>13

(* No step but a check puts a client offline without receiving an event.   *)
LEMMA OnlyChecksPutOffline ==
    ASSUME HealthInv, [HealthNext]_healthVars, next' = next, NEW c \in Clients,
           report[c] # None, report[c].health # "Offline", report'[c].health = "Offline"
    PROVE  Checked(report[c]) = "Offline"
<1>1. CASE \/ Opens \/ Closes \/ StartListening \/ HandleLagged \/ SendReminder \/ StopListening
           \/ UNCHANGED healthVars
  BY <1>1 DEF Opens, Closes, StartListening, HandleLagged, SendReminder, StopListening,
     healthVars, monitorVars
<1>2. CASE Passes
  BY <1>2, AgedReport DEF HealthInv
<1>3. CASE HandleConnect \/ HandleDisconnect \/ HandleConnectionLoss
  <2>1. next' = next + 1 /\ next \in Nat
    BY <1>3 DEF HandleConnect, HandleDisconnect, HandleConnectionLoss, Receive, HealthInv, ReportsOK
  <2> QED BY <2>1
<1>4. CASE CheckClients
  BY <1>4, CheckedReport DEF HealthInv
<1> QED BY <1>1, <1>2, <1>3, <1>4 DEF HealthNext, Handle

(* Nothing overlaps at the start, and nothing was received.                *)
LEMMA OverlapInit ==
    ASSUME HealthInit
    PROVE  OverlapInv /\ HistoryMatches
<1>1. sent = <<>> /\ DOMAIN sent = {} /\ Len(sent) = 0 /\ next = 1
  BY DEF HealthInit, EventsInit
<1>2. OverlapInv
  BY <1>1 DEF HealthInit, EventsInit, OverlapInv, ConnectionsOK, OverlapOK, OpenOf, AllSettled
<1>3. ASSUME NEW c \in Clients PROVE Matches(Entry(c).events, sent, c, next - 1)
  <2>1. Entry(c).events = <<>> /\ EventsOf(sent, c, next - 1) = {}
    BY <1>1 DEF HealthInit, Entry, DefaultStatus, EventsOf
  <2> QED BY <2>1 DEF Matches
<1> QED BY <1>1, <1>2, <1>3 DEF HistoryMatches

(* Every step keeps the order of overlapping connections.                  *)
LEMMA OverlapStep ==
    ASSUME MaxOverlap <= 2, HealthInv, OverlapInv, [HealthNext]_healthVars
    PROVE  OverlapInv'
<1>1. CASE Opens \/ Closes
  BY <1>1, OpensSettled, ClosesSettled DEF HealthInv
<1>2. CASE UNCHANGED eventVars
  BY <1>2 DEF eventVars, OverlapInv, ConnectionsOK, OverlapOK, OpenOf, AllSettled
<1>3. Opens \/ Closes \/ UNCHANGED eventVars
  BY DEF HealthNext, Passes, StartListening, Handle, HandleConnect, HandleDisconnect,
     HandleConnectionLoss, HandleLagged, Receive, CheckClients, SendReminder, StopListening, healthVars
<1> QED BY <1>1, <1>2, <1>3

(* The loss of an older connection, reported late, never makes a check put *)
(* a client offline that is back, for any number of clients, connections   *)
(* and reconnections, as long as no more than two connections of a client  *)
(* overlap.  With three the check, which looks at two events, is misled.   *)
THEOREM LateLossesAreHarmless ==
    ASSUME MaxOverlap <= 2
    PROVE  HealthSpec => LateLossHarmless
<1> DEFINE Inv == HealthInv /\ LossesKept /\ OverlapInv /\ HistoryMatches
<1>1. HealthInit => Inv
  BY HealthInvInit, LossesInit, OverlapInit
<1>2. Inv /\ [HealthNext]_healthVars => Inv'
  BY HealthStep, LossesStep, OverlapStep, MatchesStep
<1>3. Inv /\ [HealthNext]_healthVars =>
        [\A c \in Clients :
            /\ next' = next /\ ~lagged
            /\ report[c] # None /\ report[c].health # "Offline" /\ report'[c].health = "Offline"
            => Ended(Max(HeardOf(c)))]_healthVars
  BY OnlyChecksPutOffline, OfflineHasEnded
<1> HIDE DEF Inv
<1> QED BY <1>1, <1>2, <1>3, PTL DEF HealthSpec, LateLossHarmless
=============================================================================
