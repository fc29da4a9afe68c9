------------------------------- MODULE Network -------------------------------
(***************************************************************************)
(* NetworkListener of src/network.rs: a task that accepts connections and  *)
(* one detached task per connection, which authenticates its client under  *)
(* a time limit and then serves one message after the other.               *)
(*                                                                         *)
(* A connection's stage is the await its task has reached.  What a client  *)
(* sends, whether a write succeeds and when a timer fires is open at every *)
(* step.  Of a message only matters how the code treats it; the engine,    *)
(* the application's handler of custom requests and the application's      *)
(* updates of the client registry are the environment.                     *)
(***************************************************************************)
EXTENDS Naturals, Sequences

CONSTANTS
    Clients,      \* client ids
    ConnIds,      \* conn_ids the listener may give out: 0..n
    None,
    HasCustom,    \* whether custom_req_tx is set
    MaxReads,     \* bound on the messages read from a connection
    MaxUpdates    \* bound on updates of the client registry

ASSUME NetworkAssumption ==
    /\ None \notin Clients
    /\ ConnIds \subseteq Nat
    /\ HasCustom \in BOOLEAN
    /\ MaxReads \in Nat /\ MaxUpdates \in Nat

VARIABLES
    listener,    \* "listening", "stopped" (cancelled) or "failed" (returned an error)
    counter,     \* con_counter
    stage,       \* conn_id -> where its task is
    client,      \* conn_id -> the client id it presented
    good,        \* conn_id -> whether the secret it presented is the client's
    reads,       \* conn_id -> reads from it that returned
    replies,     \* conn_id -> messages written to it
    error,       \* conn_id -> the error its task ended with
    cause,       \* history: conn_id -> why handle_connection returned
    sent,        \* the client events sent
    registered,  \* the keys of the client registry
    writer,      \* the application's writer of it: "none", "waiting" or "writing"
    updates,     \* updates so far
    engineUp     \* the engine has not been shut down

connVars == <<stage, client, good, reads, replies, error, cause>>
registryVars == <<registered, writer, updates>>
netVars == <<listener, counter, connVars, sent, registryVars, engineUp>>

Error == {"UnexpectedMessage", "MalformedMessage", "PayloadTooLarge", "UnsupportedVersion",
          "InvalidCredentials", "Transport", "Encode", "Oneshot"}

(* The errors error_response owes the client an answer for.                *)
Owed == {"UnexpectedMessage", "MalformedMessage", "PayloadTooLarge", "UnsupportedVersion",
         "InvalidCredentials"}

(* Stages under the time limit of authentication, and of an announced      *)
(* connection.                                                             *)
Authenticating == {"handshake", "greeting", "auth", "lock", "accepting"}
Announced == {"loop", "engine", "custom", "answer", "farewell"}
Stage == {"none", "tls", "refusal", "rejected", "closed"} \cup Authenticating \cup Announced

(* Awaits without a time limit: a client may never read what is written to *)
(* it, and the handler of custom requests may never answer.                *)
Untimed == {"refusal", "answer", "farewell", "custom"}

NetworkTypeOK ==
    /\ listener \in {"listening", "stopped", "failed"}
    /\ counter \in Nat
    /\ stage \in [ConnIds -> Stage]
    /\ client \in [ConnIds -> Clients \cup {None}]
    /\ good \in [ConnIds -> BOOLEAN]
    /\ reads \in [ConnIds -> Nat] /\ replies \in [ConnIds -> Nat]
    /\ error \in [ConnIds -> Error \cup {None}]
    /\ cause \in [ConnIds -> {"quit", "idle", "error", None}]
    /\ sent \in Seq([kind: {"Connect", "Disconnect", "ConnectionLoss"}, client: Clients, conn: ConnIds])
    /\ registered \in SUBSET Clients
    /\ writer \in {"none", "waiting", "writing"}
    /\ updates \in Nat
    /\ engineUp \in BOOLEAN

NetworkInit ==
    /\ listener = "listening" /\ counter = 0
    /\ stage = [k \in ConnIds |-> "none"]
    /\ client = [k \in ConnIds |-> None]
    /\ good = [k \in ConnIds |-> FALSE]
    /\ reads = [k \in ConnIds |-> 0] /\ replies = [k \in ConnIds |-> 0]
    /\ error = [k \in ConnIds |-> None]
    /\ cause = [k \in ConnIds |-> None]
    /\ sent = <<>>
    /\ registered \in SUBSET Clients
    /\ writer = "none" /\ updates = 0
    /\ engineUp = TRUE

-----------------------------------------------------------------------------
(* The listener.  Stopping it leaves the connections' tasks alone.         *)
Accept ==
    /\ listener = "listening"
    /\ counter \in ConnIds
    /\ counter' = counter + 1
    /\ stage' = [stage EXCEPT ![counter] = "tls"]
    /\ UNCHANGED <<listener, client, good, reads, replies, error, cause, sent, registryVars, engineUp>>

AcceptFails ==
    /\ listener = "listening"
    /\ listener' = "failed"
    /\ UNCHANGED <<counter, connVars, sent, registryVars, engineUp>>

ShutdownListener ==
    /\ listener = "listening"
    /\ listener' = "stopped"
    /\ UNCHANGED <<counter, connVars, sent, registryVars, engineUp>>

-----------------------------------------------------------------------------
(* What a step of a connection's task leaves alone.                        *)
Elsewhere == UNCHANGED <<listener, counter, registryVars, engineUp>>

Goto(k, s) == stage' = [stage EXCEPT ![k] = s]
Read(k) == reads[k] < MaxReads /\ reads' = [reads EXCEPT ![k] = @ + 1]
Reply(k) == replies' = [replies EXCEPT ![k] = @ + 1]

(* tls_acceptor.accept, for which there is no time limit.                  *)
AcceptTls(k) ==
    /\ stage[k] = "tls"
    /\ \E s \in {"handshake", "rejected"} : Goto(k, s)
    /\ UNCHANGED <<client, good, reads, replies, error, cause, sent>> /\ Elsewhere

(* authenticate returned an error: the response that is owed is written    *)
(* next, without a time limit; there is no event.                          *)
Reject(k, e) ==
    /\ error' = [error EXCEPT ![k] = e]
    /\ Goto(k, IF e \in Owed THEN "refusal" ELSE "rejected")

(* That response is written, or the write fails.                           *)
Refuse(k) ==
    /\ stage[k] = "refusal"
    /\ Reply(k) \/ UNCHANGED replies
    /\ Goto(k, "rejected")
    /\ UNCHANGED <<client, good, reads, error, cause, sent>> /\ Elsewhere

(* The handshake: read the client's, write the server's.                   *)
Handshake(k) ==
    /\ stage[k] = "handshake"
    /\ Read(k)
    /\ \/ Goto(k, "greeting") /\ UNCHANGED error
       \/ \E e \in {"UnsupportedVersion", "UnexpectedMessage", "MalformedMessage",
                    "PayloadTooLarge", "Transport", "Encode"} : Reject(k, e)
    /\ UNCHANGED <<client, good, replies, cause, sent>> /\ Elsewhere

Greet(k) ==
    /\ stage[k] = "greeting"
    /\ \/ Goto(k, "auth") /\ Reply(k) /\ UNCHANGED error
       \/ Reject(k, "Transport") /\ UNCHANGED replies
    /\ UNCHANGED <<client, good, reads, cause, sent>> /\ Elsewhere

(* The client's credentials arrive; then the registry's lock is awaited.   *)
ReadAuthentication(k) ==
    /\ stage[k] = "auth"
    /\ Read(k)
    /\ \/ /\ Goto(k, "lock")
          /\ \E c \in Clients, g \in BOOLEAN :
                client' = [client EXCEPT ![k] = c] /\ good' = [good EXCEPT ![k] = g]
          /\ UNCHANGED error
       \/ /\ \E e \in {"UnexpectedMessage", "MalformedMessage", "PayloadTooLarge", "Transport",
                       "Encode"} : Reject(k, e)
          /\ UNCHANGED <<client, good>>
    /\ UNCHANGED <<replies, cause, sent>> /\ Elsewhere

VerifyUnlocked(k) ==
    /\ stage[k] = "lock"
    /\ \/ client[k] \in registered /\ good[k] /\ Goto(k, "accepting") /\ UNCHANGED error
       \/ ~(client[k] \in registered /\ good[k]) /\ Reject(k, "InvalidCredentials")
    /\ UNCHANGED <<client, good, reads, replies, cause, sent>> /\ Elsewhere

(* clients.read() was granted.  The guard is kept until authenticate       *)
(* returns, over the write of AuthenticationAccepted.                      *)
Verify(k) ==
    /\ stage[k] = "lock"
    /\ writer = "none"
    /\ \/ client[k] \in registered /\ good[k] /\ Goto(k, "accepting") /\ UNCHANGED error
       \/ ~(client[k] \in registered /\ good[k]) /\ Reject(k, "InvalidCredentials")
    /\ UNCHANGED <<client, good, reads, replies, cause, sent>> /\ Elsewhere

Event(kind, k) == [kind |-> kind, client |-> client[k], conn |-> k]

(* AuthenticationAccepted is written: without another await the event is   *)
(* sent and handle_connection entered.                                     *)
Announce(k) ==
    /\ stage[k] = "accepting"
    /\ \/ Goto(k, "loop") /\ Reply(k) /\ sent' = Append(sent, Event("Connect", k)) /\ UNCHANGED error
       \/ Reject(k, "Transport") /\ UNCHANGED <<replies, sent>>
    /\ UNCHANGED <<client, good, reads, cause>> /\ Elsewhere

AuthTimeoutReadsOnly(k) ==
    /\ stage[k] \in {"handshake", "auth"}
    /\ Goto(k, "rejected")
    /\ UNCHANGED <<client, good, reads, replies, error, cause, sent>> /\ Elsewhere

(* The two seconds are over at any await of authenticate.                  *)
AuthTimeout(k) ==
    /\ stage[k] \in Authenticating
    /\ Goto(k, "rejected")
    /\ UNCHANGED <<client, good, reads, replies, error, cause, sent>> /\ Elsewhere

-----------------------------------------------------------------------------
(* handle_connection returned Ok.                                          *)
Finish(k, why) ==
    /\ Goto(k, "closed")
    /\ cause' = [cause EXCEPT ![k] = why]
    /\ sent' = Append(sent, Event("Disconnect", k))

Lose(k) ==
    /\ Goto(k, "closed")
    /\ sent' = Append(sent, Event("ConnectionLoss", k))

(* handle_connection returned an error: the response that is owed is       *)
(* written next, otherwise the event is sent at once.                      *)
Fail(k, e) ==
    /\ cause' = [cause EXCEPT ![k] = "error"]
    /\ error' = [error EXCEPT ![k] = e]
    /\ \/ e \in Owed /\ Goto(k, "farewell") /\ UNCHANGED sent
       \/ e \notin Owed /\ Lose(k)

PingUnanswered(k) ==
    /\ stage[k] = "loop"
    /\ Read(k)
    /\ UNCHANGED <<stage, client, good, replies, error, cause, sent>> /\ Elsewhere

(* A ping: its answer is written next.                                     *)
Ping(k) ==
    /\ stage[k] = "loop"
    /\ Read(k)
    /\ Goto(k, "answer")
    /\ UNCHANGED <<client, good, replies, error, cause, sent>> /\ Elsewhere

Quit(k) ==
    /\ stage[k] = "loop"
    /\ Read(k)
    /\ Finish(k, "quit")
    /\ UNCHANGED <<client, good, replies, error>> /\ Elsewhere

IdleTimeoutIsLoss(k) ==
    /\ stage[k] = "loop"
    /\ Goto(k, "closed")
    /\ cause' = [cause EXCEPT ![k] = "idle"]
    /\ sent' = Append(sent, Event("ConnectionLoss", k))
    /\ UNCHANGED <<client, good, reads, replies, error>> /\ Elsewhere

IdleTimeout(k) ==
    /\ stage[k] = "loop"
    /\ Finish(k, "idle")
    /\ UNCHANGED <<client, good, reads, replies, error>> /\ Elsewhere

(* A frame that cannot be read or decoded, a message a client may not send *)
(* now, a custom message nobody asked for.                                 *)
BadMessage(k) ==
    /\ stage[k] = "loop"
    /\ Read(k)
    /\ \E e \in {"UnexpectedMessage", "MalformedMessage", "PayloadTooLarge", "Transport", "Encode"} :
        Fail(k, e)
    /\ UNCHANGED <<client, good, replies>> /\ Elsewhere

(* A request for the engine, or for the handler of custom requests.        *)
Forward(k) ==
    /\ stage[k] = "loop"
    /\ Read(k)
    /\ \/ Goto(k, "engine")
       \/ HasCustom /\ Goto(k, "custom")
    /\ UNCHANGED <<client, good, replies, error, cause, sent>> /\ Elsewhere

(* The oneshot receiver yields the response, which is encoded and written  *)
(* next.                                                                   *)
Response(k) ==
    /\ stage[k] \in {"engine", "custom"}
    /\ \/ Goto(k, "answer") /\ UNCHANGED <<error, cause, sent>>
       \/ Fail(k, "Encode")
    /\ UNCHANGED <<client, good, reads, replies>> /\ Elsewhere

ResponseDroppedByHandler(k) ==
    /\ stage[k] = "custom"
    /\ Fail(k, "Oneshot")
    /\ UNCHANGED <<client, good, reads, replies>> /\ Elsewhere

(* The sender was dropped: by an engine that is gone, whether or not the   *)
(* request still reached it, or by the handler of custom requests.         *)
ResponseDropped(k) ==
    /\ stage[k] = "custom" \/ (stage[k] = "engine" /\ ~engineUp)
    /\ Fail(k, "Oneshot")
    /\ UNCHANGED <<client, good, reads, replies>> /\ Elsewhere

(* An answer is written, for which there is no time limit, and the loop    *)
(* goes on; or the write fails.                                            *)
Answer(k) ==
    /\ stage[k] = "answer"
    /\ \/ Reply(k) /\ Goto(k, "loop") /\ UNCHANGED <<error, cause, sent>>
       \/ Fail(k, "Transport") /\ UNCHANGED replies
    /\ UNCHANGED <<client, good, reads>> /\ Elsewhere

FarewellSilent(k) ==
    /\ stage[k] = "farewell"
    /\ \/ Reply(k) /\ Goto(k, "closed") /\ UNCHANGED sent
       \/ UNCHANGED replies /\ Lose(k)
    /\ UNCHANGED <<client, good, reads, error, cause>> /\ Elsewhere

(* The error response that is owed is written, successfully or not, and    *)
(* then the event is sent.                                                 *)
Farewell(k) ==
    /\ stage[k] = "farewell"
    /\ Reply(k) \/ UNCHANGED replies
    /\ Lose(k)
    /\ UNCHANGED <<client, good, reads, error, cause>> /\ Elsewhere

-----------------------------------------------------------------------------
(* The application updates the client registry behind its RwLock, which    *)
(* lets no reader pass a writer that waits.                                *)
AppWants ==
    /\ writer = "none"
    /\ updates < MaxUpdates
    /\ writer' = "waiting"
    /\ updates' = updates + 1
    /\ UNCHANGED <<listener, counter, connVars, sent, registered, engineUp>>

AppLocks ==
    /\ writer = "waiting"
    /\ \A k \in ConnIds : stage[k] # "accepting"
    /\ writer' = "writing"
    /\ UNCHANGED <<listener, counter, connVars, sent, registered, updates, engineUp>>

AppUpdates ==
    /\ writer = "writing"
    /\ registered' \in SUBSET Clients
    /\ writer' = "none"
    /\ UNCHANGED <<listener, counter, connVars, sent, updates, engineUp>>

EngineGoes ==
    /\ engineUp
    /\ engineUp' = FALSE
    /\ UNCHANGED <<listener, counter, connVars, sent, registryVars>>

-----------------------------------------------------------------------------
ConnStep(k) ==
    \/ AcceptTls(k) \/ Handshake(k) \/ Greet(k) \/ ReadAuthentication(k) \/ Verify(k) \/ Announce(k)
    \/ AuthTimeout(k) \/ Refuse(k)
    \/ Ping(k) \/ Quit(k) \/ IdleTimeout(k) \/ BadMessage(k) \/ Forward(k)
    \/ Response(k) \/ ResponseDropped(k) \/ Answer(k) \/ Farewell(k)

NetworkNext ==
    \/ Accept \/ AcceptFails \/ ShutdownListener
    \/ \E k \in ConnIds : ConnStep(k)
    \/ AppWants \/ AppLocks \/ AppUpdates \/ EngineGoes

NetworkSpec == NetworkInit /\ [][NetworkNext]_netVars

(* Timers fire, a writer that may lock does and gives the lock back, and   *)
(* the engine answers every request while it runs and drops the rest when  *)
(* it goes.  Nothing is assumed of clients: neither that they send nor     *)
(* that they read, so no write without a time limit need return; and       *)
(* nothing of the handler of custom requests.                              *)
NetworkFairness ==
    /\ \A k \in ConnIds :
        /\ WF_netVars(AuthTimeout(k))
        /\ WF_netVars(IdleTimeout(k))
        /\ WF_netVars(stage[k] = "engine" /\ engineUp /\ Response(k))
        /\ WF_netVars(stage[k] = "engine" /\ ResponseDropped(k))
    /\ WF_netVars(AppLocks) /\ WF_netVars(AppUpdates)

NetworkFairSpec == NetworkSpec /\ NetworkFairness

-----------------------------------------------------------------------------
(* What the receivers of the event channel see of a connection.            *)
phase ==
    [k \in ConnIds |->
        IF stage[k] \in Announced THEN "open"
        ELSE IF stage[k] = "closed" THEN "closed"
        ELSE "unseen"]

Promise == INSTANCE ConnectionEvents
            WITH Clients <- Clients, ConnIds <- ConnIds, phase <- phase, sent <- sent

(* Every connection announces itself at most once and then ends with one   *)
(* event for the client it announced, through every error, timeout and     *)
(* shutdown: the tasks implement what event.rs promises.                   *)
KeepsPromise == Promise!EventsSpec

(* The protocol is strictly request-response: a connection that waits for  *)
(* a message has answered all it read, and it never owes or has written    *)
(* more than one answer.                                                   *)
StrictlyAlternating ==
    \A k \in ConnIds :
        /\ replies[k] <= reads[k] /\ reads[k] <= replies[k] + 1
        /\ stage[k] \in {"handshake", "auth", "loop"} => reads[k] = replies[k]

(* AuthenticationAccepted is written only while its client is registered:  *)
(* no update of the registry comes between the check and the answer.       *)
AcceptedIsRegistered ==
    \A k \in ConnIds : stage[k] = "accepting" => client[k] \in registered

(* Event::ClientConnectionLoss "reflects any termination other than a      *)
(* clean quit or idle timeout".                                            *)
LossUnlessQuitOrIdle ==
    \A i \in DOMAIN sent :
        sent[i].kind # "Connect" =>
            (sent[i].kind = "Disconnect" <=> cause[sent[i].conn] \in {"quit", "idle"})

(* However slow clients are, the application gets to update the registry.  *)
UpdatesHappen == writer = "waiting" ~> writer = "none"

(* A connection whose client falls silent ends (in a run, once MaxReads    *)
(* messages were read): none hangs in its authentication, in a request to  *)
(* an engine that is shut down, or behind a writer of the registry.  What  *)
(* may keep one for ever is only an await without a time limit: a write to *)
(* a client that does not read, or the handler of custom requests.         *)
ConnectionsEnd ==
    \A k \in ConnIds :
        stage[k] \in Authenticating \cup Announced ~>
            \/ stage[k] \in {"rejected", "closed"}
            \/ [](stage[k] \in Untimed)
=============================================================================
