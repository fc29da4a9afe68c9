---------------------------- MODULE NetworkProofs ----------------------------
(***************************************************************************)
(* Proofs about the network listener, for any number of clients and        *)
(* connections and any number of messages: the protocol alternates, a      *)
(* client is accepted only while it is registered, and the connections'    *)
(* tasks implement ConnectionEvents.                                       *)
(***************************************************************************)
EXTENDS Network, TLAPS

(* The listener has not given out the conn_ids from its counter on.        *)
CounterInv == \A k \in ConnIds : k >= counter => stage[k] = "none"

(* A connection past its authentication message has a client.              *)
ClientInv == \A k \in ConnIds : stage[k] \in {"lock", "accepting"} \cup Announced => client[k] \in Clients

ConnInv == NetworkTypeOK /\ CounterInv /\ ClientInv

(* The initial state has the right types and no connection.                *)
LEMMA TypeInit == NetworkInit => ConnInv
<1> SUFFICES ASSUME NetworkInit PROVE ConnInv
  OBVIOUS
<1>1. sent \in Seq([kind: {"Connect", "Disconnect", "ConnectionLoss"}, client: Clients, conn: ConnIds])
  BY DEF NetworkInit
<1>2. \A k \in ConnIds : stage[k] = "none"
  BY DEF NetworkInit
<1>3. CounterInv /\ ClientInv
  BY <1>2 DEF CounterInv, ClientInv, Announced
<1>4. listener \in {"listening", "stopped", "failed"} /\ counter \in Nat /\ writer \in {"none", "waiting", "writing"}
      /\ updates \in Nat /\ engineUp \in BOOLEAN /\ registered \in SUBSET Clients
  BY DEF NetworkInit
<1>5. /\ stage \in [ConnIds -> Stage]
      /\ client \in [ConnIds -> Clients \cup {None}]
      /\ good \in [ConnIds -> BOOLEAN]
      /\ reads \in [ConnIds -> Nat] /\ replies \in [ConnIds -> Nat]
      /\ error \in [ConnIds -> Error \cup {None}]
      /\ cause \in [ConnIds -> {"quit", "idle", "error", None}]
  BY DEF NetworkInit, Stage
<1> QED BY <1>1, <1>3, <1>4, <1>5 DEF ConnInv, NetworkTypeOK

(* A step of a connection keeps the types of the connections' state and    *)
(* leaves the other connections alone.                                     *)
LEMMA ConnStepShape ==
    ASSUME ConnInv, NEW k \in ConnIds, ConnStep(k)
    PROVE  /\ stage' \in [ConnIds -> Stage]
           /\ client' \in [ConnIds -> Clients \cup {None}]
           /\ good' \in [ConnIds -> BOOLEAN]
           /\ reads' \in [ConnIds -> Nat] /\ replies' \in [ConnIds -> Nat]
           /\ error' \in [ConnIds -> Error \cup {None}]
           /\ cause' \in [ConnIds -> {"quit", "idle", "error", None}]
           /\ \A j \in ConnIds \ {k} : /\ stage'[j] = stage[j] /\ client'[j] = client[j] /\ cause'[j] = cause[j]
                                       /\ reads'[j] = reads[j] /\ replies'[j] = replies[j]
           /\ stage[k] # "none"
           /\ UNCHANGED <<listener, counter, registered, writer, updates, engineUp>>
<1> USE DEF ConnInv, NetworkTypeOK
<1>1. stage' = stage \/ \E s \in Stage : stage' = [stage EXCEPT ![k] = s]
  BY DEF ConnStep, AcceptTls, Handshake, Greet, Refuse, ReadAuthentication, Verify, Announce, AuthTimeout, Ping, Quit, IdleTimeout,
     BadMessage, Forward, Response, ResponseDropped, Answer, Farewell, Reject, Finish, Fail, Lose, Goto,
     Stage, Authenticating, Announced
<1>2. client' = client \/ \E c \in Clients : client' = [client EXCEPT ![k] = c]
  BY DEF ConnStep, AcceptTls, Handshake, Greet, Refuse, ReadAuthentication, Verify, Announce, AuthTimeout, Ping, Quit, IdleTimeout,
     BadMessage, Forward, Response, ResponseDropped, Answer, Farewell
<1>3. good' = good \/ \E g \in BOOLEAN : good' = [good EXCEPT ![k] = g]
  BY DEF ConnStep, AcceptTls, Handshake, Greet, Refuse, ReadAuthentication, Verify, Announce, AuthTimeout, Ping, Quit, IdleTimeout,
     BadMessage, Forward, Response, ResponseDropped, Answer, Farewell
<1>4. reads' = reads \/ reads' = [reads EXCEPT ![k] = @ + 1]
  BY DEF ConnStep, AcceptTls, Handshake, Greet, Refuse, ReadAuthentication, Verify, Announce, AuthTimeout, Ping, Quit, IdleTimeout,
     BadMessage, Forward, Response, ResponseDropped, Answer, Farewell, Read
<1>5. replies' = replies \/ replies' = [replies EXCEPT ![k] = @ + 1]
  BY DEF ConnStep, AcceptTls, Handshake, Greet, Refuse, ReadAuthentication, Verify, Announce, AuthTimeout, Ping, Quit, IdleTimeout,
     BadMessage, Forward, Response, ResponseDropped, Answer, Farewell, Reject, Reply
<1>6. error' = error \/ \E e \in Error : error' = [error EXCEPT ![k] = e]
  BY DEF ConnStep, AcceptTls, Handshake, Greet, Refuse, ReadAuthentication, Verify, Announce, AuthTimeout, Ping, Quit, IdleTimeout,
     BadMessage, Forward, Response, ResponseDropped, Answer, Farewell, Reject, Fail, Lose, Error
<1>7. cause' = cause \/ \E w \in {"quit", "idle", "error"} : cause' = [cause EXCEPT ![k] = w]
  BY DEF ConnStep, AcceptTls, Handshake, Greet, Refuse, ReadAuthentication, Verify, Announce, AuthTimeout, Ping, Quit, IdleTimeout,
     BadMessage, Forward, Response, ResponseDropped, Answer, Farewell, Finish, Fail, Lose
<1>8. /\ stage[k] # "none"
      /\ UNCHANGED <<listener, counter, registered, writer, updates, engineUp>>
  BY DEF ConnStep, AcceptTls, Handshake, Greet, Refuse, ReadAuthentication, Verify, Announce, AuthTimeout, Ping, Quit, IdleTimeout,
     BadMessage, Forward, Response, ResponseDropped, Answer, Farewell, Elsewhere, registryVars, Authenticating
<1>11. stage' \in [ConnIds -> Stage] /\ \A j \in ConnIds \ {k} : stage'[j] = stage[j]
  BY <1>1
<1>12. client' \in [ConnIds -> Clients \cup {None}] /\ \A j \in ConnIds \ {k} : client'[j] = client[j]
  BY <1>2
<1>13. good' \in [ConnIds -> BOOLEAN]
  BY <1>3
<1>14. reads[k] + 1 \in Nat /\ replies[k] + 1 \in Nat
  OBVIOUS
<1>15. reads' \in [ConnIds -> Nat] /\ \A j \in ConnIds \ {k} : reads'[j] = reads[j]
  BY <1>4, <1>14
<1>16. replies' \in [ConnIds -> Nat] /\ \A j \in ConnIds \ {k} : replies'[j] = replies[j]
  BY <1>5, <1>14
<1>17. error' \in [ConnIds -> Error \cup {None}]
  BY <1>6
<1>18. cause' \in [ConnIds -> {"quit", "idle", "error", None}] /\ \A j \in ConnIds \ {k} : cause'[j] = cause[j]
  BY <1>7
<1> QED BY <1>8, <1>11, <1>12, <1>13, <1>15, <1>16, <1>17, <1>18

(* The steps of a connection by what the receivers of events see of them:  *)
(* its announcement, its end, or nothing.                                  *)
Announces(k) ==
    /\ stage[k] = "accepting" /\ stage' = [stage EXCEPT ![k] = "loop"]
    /\ sent' = Append(sent, Event("Connect", k))
    /\ UNCHANGED <<client, cause>>

Ends(k) ==
    /\ stage[k] \in Announced /\ stage' = [stage EXCEPT ![k] = "closed"]
    /\ UNCHANGED client
    /\ \/ sent' = Append(sent, Event("Disconnect", k)) /\ cause'[k] \in {"quit", "idle"}
       \/ sent' = Append(sent, Event("ConnectionLoss", k)) /\ cause'[k] \notin {"quit", "idle"}

Quiet(k) ==
    /\ stage[k] # "closed" /\ stage'[k] # "closed"
    /\ stage[k] \in Announced <=> stage'[k] \in Announced
    /\ stage[k] \in Announced => client' = client
    /\ stage'[k] \in {"lock", "accepting"} => client'[k] \in Clients
    /\ UNCHANGED sent

(* A connection in its farewell got there by an error.                     *)
FarewellInv == \A k \in ConnIds : stage[k] = "farewell" => cause[k] = "error"

(* Every step of a connection announces it, ends it or is not seen.        *)
LEMMA ConnStepSeen ==
    ASSUME ConnInv, FarewellInv, NEW k \in ConnIds, ConnStep(k)
    PROVE  Announces(k) \/ Ends(k) \/ Quiet(k)
<1> USE DEF ConnInv, NetworkTypeOK
<1>0. ASSUME NEW e, Fail(k, e), stage[k] \in Announced, UNCHANGED client PROVE Ends(k) \/ Quiet(k)
  <2>1. CASE e \in Owed
    BY <1>0, <2>1 DEF Fail, Goto, Quiet, Announced
  <2>2. CASE e \notin Owed
    BY <1>0, <2>2 DEF Fail, Lose, Goto, Ends
  <2> QED BY <2>1, <2>2
<1>1. CASE AcceptTls(k)
  BY <1>1 DEF AcceptTls, Goto, Quiet, Announced
<1>2. CASE Handshake(k)
  BY <1>2 DEF Handshake, Reject, Goto, Quiet, Announced
<1>3. CASE Greet(k)
  BY <1>3 DEF Greet, Reject, Goto, Quiet, Announced
<1>4. CASE ReadAuthentication(k)
  BY <1>4 DEF ReadAuthentication, Reject, Goto, Quiet, Announced
<1>5. CASE Verify(k)
  BY <1>5 DEF Verify, Reject, Goto, Quiet, Announced, ClientInv
<1>6. CASE Announce(k)
  BY <1>6 DEF Announce, Reject, Goto, Quiet, Announces, Announced
<1>7. CASE AuthTimeout(k)
  BY <1>7 DEF AuthTimeout, Goto, Quiet, Authenticating, Announced
<1>8. CASE Refuse(k)
  BY <1>8 DEF Refuse, Goto, Quiet, Announced
<1>9. CASE Ping(k)
  BY <1>9 DEF Ping, Goto, Quiet, Announced
<1>10. CASE Quit(k)
  BY <1>10 DEF Quit, Finish, Goto, Ends, Announced
<1>11. CASE IdleTimeout(k)
  BY <1>11 DEF IdleTimeout, Finish, Goto, Ends, Announced
<1>12. CASE BadMessage(k)
  BY <1>12, <1>0 DEF BadMessage, Announced
<1>13. CASE Forward(k)
  BY <1>13 DEF Forward, Goto, Quiet, Announced
<1>14. CASE Response(k)
  BY <1>14, <1>0 DEF Response, Goto, Quiet, Announced
<1>15. CASE ResponseDropped(k)
  BY <1>15, <1>0 DEF ResponseDropped, Announced
<1>16. CASE Answer(k)
  BY <1>16, <1>0 DEF Answer, Goto, Quiet, Announced
<1>17. CASE Farewell(k)
  BY <1>17, NetworkAssumption DEF Farewell, Lose, Goto, Ends, Announced, FarewellInv
<1> QED BY <1>1, <1>2, <1>3, <1>4, <1>5, <1>6, <1>7, <1>8, <1>9, <1>10, <1>11, <1>12, <1>13, <1>14, <1>15, <1>16, <1>17
   DEF ConnStep

(* A connection ends in its farewell only after handle_connection failed.  *)
LEMMA FarewellStep ==
    ASSUME ConnInv, FarewellInv, NEW k \in ConnIds, ConnStep(k)
    PROVE  FarewellInv'
<1> USE DEF ConnInv, NetworkTypeOK
<1>1. stage'[k] = "farewell" => cause'[k] = "error"
  BY DEF ConnStep, AcceptTls, Handshake, Greet, Refuse, ReadAuthentication, Verify, Announce, AuthTimeout, Ping, Quit, IdleTimeout,
     BadMessage, Forward, Response, ResponseDropped, Answer, Farewell, Reject, Finish, Fail, Lose, Goto,
     Stage, Authenticating, Announced
<1> QED BY <1>1, ConnStepShape DEF FarewellInv

-----------------------------------------------------------------------------
(* The events sent so far agree with the stages: whoever was announced is  *)
(* open or ended, under the client it still has; whoever ended is closed,  *)
(* with the event its cause asks for; and an open connection was           *)
(* announced.                                                              *)
Sound(e, stg, cli, why) ==
    IF e.kind = "Connect"
    THEN stg[e.conn] \in Announced \cup {"closed"} /\ e.client = cli[e.conn]
    ELSE stg[e.conn] = "closed" /\ (e.kind = "Disconnect" <=> why[e.conn] \in {"quit", "idle"})

EventInv ==
    /\ \A i \in DOMAIN sent : Sound(sent[i], stage, client, cause)
    /\ \A k \in ConnIds :
        stage[k] \in Announced => \E i \in DOMAIN sent : sent[i].kind = "Connect" /\ sent[i].conn = k

Inv == ConnInv /\ FarewellInv /\ EventInv

SentEvent == [kind: {"Connect", "Disconnect", "ConnectionLoss"}, client: Clients, conn: ConnIds]

(* The elements of a sequence and one more.                                *)
LEMMA AppendElements ==
    ASSUME NEW S, NEW s \in Seq(S), NEW e \in S
    PROVE  /\ Append(s, e) \in Seq(S)
           /\ \A i \in DOMAIN Append(s, e) : (i \in DOMAIN s /\ Append(s, e)[i] = s[i]) \/ Append(s, e)[i] = e
           /\ \A i \in DOMAIN s : i \in DOMAIN Append(s, e) /\ Append(s, e)[i] = s[i]
           /\ \E i \in DOMAIN Append(s, e) : Append(s, e)[i] = e
<1>1. Len(Append(s, e)) \in DOMAIN Append(s, e) /\ Append(s, e)[Len(Append(s, e))] = e
  OBVIOUS
<1> QED BY <1>1

(* The steps that are not a connection's see neither its events nor its    *)
(* stage, except that an accepted connection leaves "none".                *)
LEMMA OtherSteps ==
    ASSUME ConnInv, [NetworkNext]_netVars
    PROVE  \/ \E k \in ConnIds : ConnStep(k)
           \/ Accept
           \/ UNCHANGED <<connVars, sent, counter>>
BY DEF NetworkNext, AcceptFails, ShutdownListener, AppWants, AppLocks, AppUpdates, EngineGoes, netVars

(* The types hold after every step.                                        *)
LEMMA TypeStep ==
    ASSUME Inv, [NetworkNext]_netVars
    PROVE  ConnInv'
<1> USE DEF Inv, ConnInv, NetworkTypeOK
<1>1. CASE \E k \in ConnIds : ConnStep(k)
  <2>1. PICK k \in ConnIds : ConnStep(k)
    BY <1>1
  <2>2. sent' \in Seq(SentEvent)
    <3>1. CASE Announces(k)
      <4>1. Event("Connect", k) \in SentEvent
        BY <3>1 DEF Announces, Event, SentEvent, ClientInv
      <4> QED BY <3>1, <4>1, AppendElements DEF Announces, SentEvent
    <3>2. CASE Ends(k)
      <4>1. \A kind \in {"Disconnect", "ConnectionLoss"} : Event(kind, k) \in SentEvent
        BY <3>2 DEF Ends, Event, SentEvent, ClientInv
      <4>2. \E kind \in {"Disconnect", "ConnectionLoss"} : sent' = Append(sent, Event(kind, k))
        BY <3>2 DEF Ends
      <4>3. sent \in Seq(SentEvent)
        BY DEF SentEvent
      <4> QED BY <4>1, <4>2, <4>3, AppendElements
    <3>3. CASE Quiet(k)
      BY <3>3 DEF Quiet, SentEvent
    <3> QED BY <2>1, <3>1, <3>2, <3>3, ConnStepSeen
  <2>3. CounterInv'
    BY <2>1, ConnStepShape DEF CounterInv
  <2>4. ClientInv'
    <3>1. stage'[k] \in {"lock", "accepting"} \cup Announced => client'[k] \in Clients
      <4>1. CASE Announces(k)
        BY <4>1 DEF Announces, ClientInv
      <4>2. CASE Ends(k)
        BY <4>2 DEF Ends, ClientInv, Announced
      <4>3. CASE Quiet(k)
        BY <4>3 DEF Quiet, ClientInv, Announced
      <4> QED BY <2>1, <4>1, <4>2, <4>3, ConnStepSeen
    <3> QED BY <2>1, <3>1, ConnStepShape DEF ClientInv
  <2> QED BY <2>1, <2>2, <2>3, <2>4, ConnStepShape DEF SentEvent
<1>2. CASE Accept
  <2>1. stage' \in [ConnIds -> Stage]
    BY <1>2 DEF Accept, Stage
  <2>2. CounterInv'
    BY <1>2, NetworkAssumption DEF Accept, CounterInv
  <2>3. ClientInv'
    BY <1>2 DEF Accept, ClientInv, Announced
  <2> QED BY <1>2, <2>1, <2>2, <2>3 DEF Accept, registryVars
<1>3. CASE UNCHANGED <<connVars, sent, counter>>
  <2>1. CounterInv' /\ ClientInv'
    BY <1>3 DEF CounterInv, ClientInv, connVars
  <2>2. listener' \in {"listening", "stopped", "failed"} /\ writer' \in {"none", "waiting", "writing"}
        /\ registered' \in SUBSET Clients /\ updates' \in Nat /\ engineUp' \in BOOLEAN
    <3>1. CASE \E k \in ConnIds : ConnStep(k)
      BY <3>1, ConnStepShape
    <3>2. CASE ~ \E k \in ConnIds : ConnStep(k)
      <4>1. listener' \in {"listening", "stopped", "failed"} /\ writer' \in {"none", "waiting", "writing"}
            /\ registered' \in SUBSET Clients
        BY <3>2 DEF NetworkNext, Accept, AcceptFails, ShutdownListener, AppWants, AppLocks, AppUpdates, EngineGoes,
           netVars, registryVars
      <4>2. updates' \in Nat
        BY <3>2 DEF NetworkNext, Accept, AcceptFails, ShutdownListener, AppWants, AppLocks, AppUpdates, EngineGoes,
           netVars, registryVars
      <4>3. engineUp' \in BOOLEAN
        BY <3>2 DEF NetworkNext, Accept, AcceptFails, ShutdownListener, AppWants, AppLocks, AppUpdates, EngineGoes,
           netVars, registryVars
      <4> QED BY <4>1, <4>2, <4>3
    <3> QED BY <3>1, <3>2
  <2> QED BY <1>3, <2>1, <2>2 DEF connVars
<1> QED BY <1>1, <1>2, <1>3, OtherSteps

(* The events and the stages agree after every step of a connection.       *)
LEMMA EventStep ==
    ASSUME Inv, NEW k \in ConnIds, ConnStep(k)
    PROVE  EventInv'
<1> USE DEF Inv, ConnInv, NetworkTypeOK
<1>1. sent \in Seq(SentEvent)
  BY DEF SentEvent
<1>0. \A i \in DOMAIN sent : sent[i].conn \in ConnIds /\ sent[i] \in SentEvent
  <2>1. \A i \in DOMAIN sent : sent[i] \in SentEvent
    BY <1>1
  <2> QED BY <2>1 DEF SentEvent
<1>2. \A e \in SentEvent : e.conn # k /\ Sound(e, stage, client, cause) => Sound(e, stage', client', cause')
  BY ConnStepShape DEF Sound, SentEvent
<1>3. CASE Announces(k)
  <2> DEFINE e == Event("Connect", k)
  <2>1. e \in SentEvent /\ e.kind = "Connect" /\ e.conn = k /\ e.client = client[k] /\ sent' = Append(sent, e)
    BY <1>3 DEF Announces, Event, SentEvent, ClientInv
  <2>2. stage'[k] = "loop" /\ client' = client /\ stage[k] = "accepting"
    BY <1>3 DEF Announces
  <2>3. Sound(e, stage', client', cause')
    BY <2>1, <2>2 DEF Sound, Announced
  <2>4. \A i \in DOMAIN sent : sent[i].conn # k
    BY <1>0, <2>2 DEF EventInv, Sound, Announced
  <2>5. \A i \in DOMAIN sent' : Sound(sent'[i], stage', client', cause')
    <3> HIDE DEF e
    <3>1. SUFFICES ASSUME NEW i \in DOMAIN sent' PROVE Sound(sent'[i], stage', client', cause')
      OBVIOUS
    <3>2. CASE i \in DOMAIN sent /\ sent'[i] = sent[i]
      BY <3>2, <1>0, <1>2, <2>4 DEF EventInv
    <3>3. CASE sent'[i] = e
      BY <3>3, <2>3, <2>1
    <3> QED BY <1>1, <2>1, <3>2, <3>3, AppendElements
  <2>6. ASSUME NEW j \in ConnIds, stage'[j] \in Announced
        PROVE  \E i \in DOMAIN sent' : sent'[i].kind = "Connect" /\ sent'[i].conn = j
    <3> HIDE DEF e
    <3>1. CASE j = k
      BY <3>1, <1>1, <2>1, AppendElements
    <3>2. CASE j # k
      BY <3>2, <2>6, <1>1, <2>1, AppendElements, ConnStepShape DEF EventInv
    <3> QED BY <3>1, <3>2
  <2> QED BY <2>5, <2>6 DEF EventInv
<1>4. CASE Ends(k)
  <2>1. PICK kind \in {"Disconnect", "ConnectionLoss"} :
          sent' = Append(sent, Event(kind, k)) /\ (kind = "Disconnect" <=> cause'[k] \in {"quit", "idle"})
    BY <1>4 DEF Ends
  <2> DEFINE e == Event(kind, k)
  <2>2. stage[k] \in Announced /\ stage'[k] = "closed" /\ client' = client
    BY <1>4 DEF Ends
  <2>3. e \in SentEvent /\ e.kind = kind /\ e.conn = k /\ sent' = Append(sent, e)
    BY <2>1, <2>2 DEF Event, SentEvent, ClientInv
  <2>4. Sound(e, stage', client', cause')
    BY <2>1, <2>2, <2>3 DEF Sound
  <2>5. \A i \in DOMAIN sent : sent[i].conn = k => Sound(sent[i], stage', client', cause')
    BY <1>0, <2>2 DEF EventInv, Sound, Announced
  <2>6. \A i \in DOMAIN sent' : Sound(sent'[i], stage', client', cause')
    <3> HIDE DEF e
    <3>1. SUFFICES ASSUME NEW i \in DOMAIN sent' PROVE Sound(sent'[i], stage', client', cause')
      OBVIOUS
    <3>2. CASE i \in DOMAIN sent /\ sent'[i] = sent[i]
      BY <3>2, <1>0, <1>2, <2>5 DEF EventInv
    <3>3. CASE sent'[i] = e
      BY <3>3, <2>3, <2>4
    <3> QED BY <1>1, <2>3, <3>2, <3>3, AppendElements
  <2>7. ASSUME NEW j \in ConnIds, stage'[j] \in Announced
        PROVE  \E i \in DOMAIN sent' : sent'[i].kind = "Connect" /\ sent'[i].conn = j
    <3> HIDE DEF e
    <3>1. j # k /\ stage[j] \in Announced
      BY <2>2, <2>7, ConnStepShape DEF Announced
    <3> QED BY <3>1, <1>1, <2>3, AppendElements DEF EventInv
  <2> QED BY <2>6, <2>7 DEF EventInv
<1>5. CASE Quiet(k)
  <2>1. \A i \in DOMAIN sent : sent[i].conn = k => Sound(sent[i], stage', client', cause')
    BY <1>0, <1>5 DEF EventInv, Sound, Quiet
  <2>2. sent' = sent
    BY <1>5 DEF Quiet
  <2>3. \A i \in DOMAIN sent' : Sound(sent'[i], stage', client', cause')
    BY <1>0, <1>2, <2>1, <2>2 DEF EventInv
  <2>4. \A j \in ConnIds : stage'[j] \in Announced => stage[j] \in Announced
    BY <1>5, ConnStepShape DEF Quiet
  <2> QED BY <2>2, <2>3, <2>4 DEF EventInv
<1> QED BY <1>3, <1>4, <1>5, ConnStepSeen

(* The invariant holds initially and after every step.                     *)
LEMMA InvInit == NetworkInit => Inv
BY TypeInit DEF NetworkInit, Inv, FarewellInv, EventInv, Announced

(* An accepted connection has sent nothing; the other steps change neither *)
(* the stages nor the events.                                              *)
LEMMA InvStep ==
    ASSUME Inv, [NetworkNext]_netVars
    PROVE  Inv'
<1>1. CASE \E k \in ConnIds : ConnStep(k)
  <2>1. PICK k \in ConnIds : ConnStep(k)
    BY <1>1
  <2>2. EventInv'
    BY <2>1, EventStep
  <2>3. FarewellInv'
    BY <2>1, FarewellStep DEF Inv
  <2> QED BY <2>2, <2>3, TypeStep DEF Inv
<1>2. CASE Accept
  <2>1. counter \in ConnIds /\ stage[counter] = "none" /\ stage' = [stage EXCEPT ![counter] = "tls"]
        /\ client' = client /\ cause' = cause /\ sent' = sent /\ stage \in [ConnIds -> Stage]
    BY <1>2 DEF Accept, Inv, ConnInv, NetworkTypeOK, CounterInv
  <2>2. FarewellInv'
    BY <2>1 DEF Inv, FarewellInv
  <2>3. \A i \in DOMAIN sent : sent[i].conn \in ConnIds /\ sent[i].conn # counter
    <3>1. sent \in Seq(SentEvent)
      BY DEF Inv, ConnInv, NetworkTypeOK, SentEvent
    <3>2. \A i \in DOMAIN sent : sent[i].conn \in ConnIds
      <4>1. \A i \in DOMAIN sent : sent[i] \in SentEvent
        BY <3>1
      <4> QED BY <4>1 DEF SentEvent
    <3> QED BY <2>1, <3>2 DEF Inv, EventInv, Sound, Announced
  <2>4. EventInv'
    BY <2>1, <2>3 DEF Inv, EventInv, Sound, Announced
  <2> QED BY <2>2, <2>4, TypeStep DEF Inv
<1>3. CASE UNCHANGED <<connVars, sent, counter>>
  BY <1>3, TypeStep DEF Inv, FarewellInv, EventInv, connVars
<1>4. ConnInv
  BY DEF Inv
<1> QED BY <1>1, <1>2, <1>3, <1>4, OtherSteps

(* The invariant of the connections.                                       *)
LEMMA Invariant == NetworkSpec => []Inv
<1>1. Inv /\ [NetworkNext]_netVars => Inv'
  BY InvStep
<1> QED BY <1>1, InvInit, PTL DEF NetworkSpec

(* However a connection ends, the event it sends is the one its cause asks *)
(* for: ClientDisconnect after a quit or an idle timeout,                  *)
(* ClientConnectionLoss after everything else.                             *)
THEOREM EndsAreReported == NetworkSpec => []LossUnlessQuitOrIdle
<1>1. Inv => LossUnlessQuitOrIdle
  BY DEF Inv, EventInv, Sound, LossUnlessQuitOrIdle
<1> QED BY <1>1, Invariant, PTL

-----------------------------------------------------------------------------
(* The client an open connection announced is the client it has.           *)
LEMMA AnnouncedClient ==
    ASSUME Inv, NEW k \in ConnIds, stage[k] \in Announced
    PROVE  Promise!ClientOfConn(k) = client[k]
<1> DEFINE IsConnect(i) == sent[i].kind = "Connect" /\ sent[i].conn = k
<1>1. \E i \in DOMAIN sent : IsConnect(i)
  BY DEF Inv, EventInv
<1>2. PICK i : i = (CHOOSE j \in DOMAIN sent : IsConnect(j))
  OBVIOUS
<1>3. i \in DOMAIN sent /\ IsConnect(i)
  BY <1>1, <1>2
<1>4. sent[i].client = client[k]
  BY <1>3 DEF Inv, EventInv, Sound
<1> QED BY <1>2, <1>4 DEF Promise!ClientOfConn

(* A step of a connection is a step of the abstract specification or not   *)
(* seen by it.                                                             *)
LEMMA PromiseStep ==
    ASSUME Inv, NEW k \in ConnIds, ConnStep(k)
    PROVE  Promise!EventsNext \/ UNCHANGED Promise!eventVars
<1> USE DEF Inv, ConnInv, NetworkTypeOK
<1>1. CASE Announces(k)
  <2>1. phase[k] = "unseen" /\ phase' = [phase EXCEPT ![k] = "open"]
    BY <1>1 DEF Announces, phase, Announced
  <2>2. client[k] \in Clients
    BY <1>1 DEF Announces, ClientInv
  <2>3. Promise!Announce(k, client[k])
    BY <1>1, <2>1 DEF Announces, Event, Promise!Announce
  <2> QED BY <2>2, <2>3 DEF Promise!EventsNext
<1>2. CASE Ends(k)
  <2>1. phase[k] = "open" /\ phase' = [phase EXCEPT ![k] = "closed"]
    BY <1>2 DEF Ends, phase, Announced
  <2>2. PICK kind \in {"Disconnect", "ConnectionLoss"} : sent' = Append(sent, Event(kind, k))
    BY <1>2 DEF Ends
  <2>3. Promise!ClientOfConn(k) = client[k]
    BY <1>2, AnnouncedClient DEF Ends
  <2>4. Promise!End(k, kind)
    BY <2>1, <2>2, <2>3 DEF Event, Promise!End
  <2> QED BY <2>4 DEF Promise!EventsNext, Promise!Ends
<1>3. CASE Quiet(k)
  <2>1. \A j \in ConnIds : phase'[j] = phase[j]
    BY <1>3, ConnStepShape DEF Quiet, phase
  <2>2. phase' = phase
    BY <2>1 DEF phase
  <2> QED BY <1>3, <2>2 DEF Quiet, Promise!eventVars
<1> QED BY <1>1, <1>2, <1>3, ConnStepSeen

(* The connections' tasks implement what event.rs promises: through every  *)
(* error, timeout and shutdown a connection announces itself at most once  *)
(* and then ends with at most one event, for the client it announced.      *)
THEOREM ConnectionsKeepTheirPromise == NetworkSpec => KeepsPromise
<1>1. NetworkInit => Promise!EventsInit
  BY DEF NetworkInit, Promise!EventsInit, phase, Announced
<1>2. Inv /\ [NetworkNext]_netVars => [Promise!EventsNext]_(Promise!eventVars)
  <2> SUFFICES ASSUME Inv, [NetworkNext]_netVars PROVE Promise!EventsNext \/ UNCHANGED Promise!eventVars
    OBVIOUS
  <2>0. ConnInv
    BY DEF Inv
  <2>1. CASE \E k \in ConnIds : ConnStep(k)
    BY <2>1, PromiseStep
  <2>2. CASE Accept
    <3>1. counter \in ConnIds /\ stage[counter] = "none" /\ stage' = [stage EXCEPT ![counter] = "tls"]
          /\ sent' = sent /\ stage \in [ConnIds -> Stage]
      BY <2>2 DEF Accept, Inv, ConnInv, NetworkTypeOK, CounterInv
    <3>2. phase' = phase
      BY <3>1 DEF phase, Announced
    <3> QED BY <3>1, <3>2 DEF Promise!eventVars
  <2>3. CASE UNCHANGED <<connVars, sent, counter>>
    BY <2>3 DEF connVars, phase, Promise!eventVars
  <2> QED BY <2>0, <2>1, <2>2, <2>3, OtherSteps
<1> QED BY <1>1, <1>2, Invariant, PTL DEF NetworkSpec, KeepsPromise, Promise!EventsSpec

-----------------------------------------------------------------------------
(* A client is accepted under the registry's lock.                         *)
LEMMA RegisteredStep ==
    ASSUME Inv, AcceptedIsRegistered, writer = "writing" => \A k \in ConnIds : stage[k] # "accepting",
           [NetworkNext]_netVars
    PROVE  AcceptedIsRegistered' /\ (writer = "writing" => \A k \in ConnIds : stage[k] # "accepting")'
<1> USE DEF Inv, ConnInv, NetworkTypeOK
<1>1. ASSUME NEW k \in ConnIds, ConnStep(k)
      PROVE  stage'[k] = "accepting" => client'[k] \in registered /\ writer = "none"
  BY <1>1 DEF ConnStep, AcceptTls, Handshake, Greet, Refuse, ReadAuthentication, Verify, Announce, AuthTimeout, Ping, Quit,
     IdleTimeout, BadMessage, Forward, Response, ResponseDropped, Answer, Farewell, Reject, Finish, Fail, Lose, Goto
<1>2. CASE \E k \in ConnIds : ConnStep(k)
  BY <1>1, <1>2, ConnStepShape DEF AcceptedIsRegistered
<1>3. CASE Accept \/ AcceptFails \/ ShutdownListener \/ EngineGoes \/ AppWants \/ UNCHANGED netVars
  BY <1>3 DEF Accept, AcceptFails, ShutdownListener, EngineGoes, AppWants, netVars, connVars, registryVars,
     AcceptedIsRegistered
<1>4. CASE AppLocks
  BY <1>4 DEF AppLocks, connVars, AcceptedIsRegistered
<1>5. CASE AppUpdates
  BY <1>5 DEF AppUpdates, connVars, AcceptedIsRegistered
<1> QED BY <1>2, <1>3, <1>4, <1>5 DEF NetworkNext

(* No update of the registry comes between the check of a client's         *)
(* credentials and the answer that accepts it, for the read guard lives    *)
(* until authenticate returns.                                             *)
THEOREM AcceptedClientsAreRegistered == NetworkSpec => []AcceptedIsRegistered
<1> DEFINE LockInv == writer = "writing" => \A k \in ConnIds : stage[k] # "accepting"
<1>1. NetworkInit => AcceptedIsRegistered /\ LockInv
  BY DEF NetworkInit, AcceptedIsRegistered
<1>2. Inv /\ AcceptedIsRegistered /\ LockInv /\ [NetworkNext]_netVars => AcceptedIsRegistered' /\ LockInv'
  BY RegisteredStep
<1> QED BY <1>1, <1>2, Invariant, PTL DEF NetworkSpec

-----------------------------------------------------------------------------
(* Which stages owe an answer.                                             *)
Balanced(k) ==
    /\ replies[k] = reads[k] \/ reads[k] = replies[k] + 1
    /\ stage[k] \in {"none", "tls", "handshake", "auth", "loop"} => replies[k] = reads[k]
    /\ stage[k] \in {"greeting", "lock", "accepting", "refusal", "engine", "custom", "answer", "farewell"} =>
        reads[k] = replies[k] + 1

(* A step of a connection reads one message or writes one answer, and      *)
(* reads only when it owes none.                                           *)
LEMMA BalancedStep ==
    ASSUME ConnInv, NEW k \in ConnIds, ConnStep(k), \A j \in ConnIds : Balanced(j)
    PROVE  \A j \in ConnIds : Balanced(j)'
<1> USE DEF ConnInv, NetworkTypeOK
<1>1. Balanced(k)'
  <2> USE DEF Balanced
  <2>1. CASE AcceptTls(k)
    BY <2>1 DEF AcceptTls, Goto
  <2>2. CASE Handshake(k)
    BY <2>2 DEF Handshake, Read, Reject, Goto
  <2>3. CASE Greet(k)
    BY <2>3 DEF Greet, Reply, Reject, Goto
  <2>4. CASE ReadAuthentication(k)
    BY <2>4 DEF ReadAuthentication, Read, Reject, Goto
  <2>5. CASE Verify(k)
    BY <2>5 DEF Verify, Reject, Goto
  <2>6. CASE Announce(k)
    BY <2>6 DEF Announce, Reply, Reject, Goto
  <2>7. CASE AuthTimeout(k)
    BY <2>7 DEF AuthTimeout, Goto, Authenticating
  <2>8. CASE Refuse(k)
    BY <2>8 DEF Refuse, Reply, Goto
  <2>9. CASE Ping(k)
    BY <2>9 DEF Ping, Read, Goto
  <2>10. CASE Quit(k)
    BY <2>10 DEF Quit, Read, Finish, Goto
  <2>11. CASE IdleTimeout(k)
    BY <2>11 DEF IdleTimeout, Finish, Goto
  <2>12. CASE BadMessage(k)
    BY <2>12 DEF BadMessage, Read, Fail, Lose, Goto
  <2>13. CASE Forward(k)
    BY <2>13 DEF Forward, Read, Goto
  <2>14. CASE Response(k)
    BY <2>14 DEF Response, Fail, Lose, Goto
  <2>15. CASE ResponseDropped(k)
    BY <2>15 DEF ResponseDropped, Fail, Lose, Goto
  <2>16. CASE Answer(k)
    BY <2>16 DEF Answer, Reply, Fail, Lose, Goto
  <2>17. CASE Farewell(k)
    BY <2>17 DEF Farewell, Reply, Lose, Goto
  <2> QED BY <2>1, <2>2, <2>3, <2>4, <2>5, <2>6, <2>7, <2>8, <2>9, <2>10, <2>11, <2>12, <2>13, <2>14, <2>15, <2>16, <2>17
     DEF ConnStep
<1>2. ASSUME NEW j \in ConnIds \ {k} PROVE Balanced(j)'
  <2>1. reads'[j] = reads[j] /\ replies'[j] = replies[j]
    BY ConnStepShape
  <2> QED BY <2>1, ConnStepShape DEF Balanced
<1> QED BY <1>1, <1>2

(* The protocol is strictly request-response on every connection.          *)
THEOREM AnswersAlternate == NetworkSpec => []StrictlyAlternating
<1> DEFINE AllBalanced == \A k \in ConnIds : Balanced(k)
<1>1. NetworkInit => AllBalanced
  BY DEF NetworkInit, Balanced
<1>2. Inv /\ AllBalanced /\ [NetworkNext]_netVars => AllBalanced'
  <2> SUFFICES ASSUME Inv, AllBalanced, [NetworkNext]_netVars PROVE AllBalanced'
    OBVIOUS
  <2>0. ConnInv
    BY DEF Inv
  <2>1. CASE \E k \in ConnIds : ConnStep(k)
    BY <2>0, <2>1, BalancedStep
  <2>2. CASE Accept
    BY <2>0, <2>2 DEF Accept, Balanced, ConnInv, NetworkTypeOK, CounterInv
  <2>3. CASE UNCHANGED <<connVars, sent, counter>>
    BY <2>3 DEF connVars, Balanced
  <2> QED BY <2>0, <2>1, <2>2, <2>3, OtherSteps
<1>3. Inv /\ AllBalanced => StrictlyAlternating
  BY DEF Inv, ConnInv, NetworkTypeOK, Balanced, StrictlyAlternating
<1> QED BY <1>1, <1>2, <1>3, Invariant, PTL DEF NetworkSpec
=============================================================================
