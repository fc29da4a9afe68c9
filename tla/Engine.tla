------------------------------- MODULE Engine -------------------------------
(***************************************************************************)
(* The engine of src/engine.rs: one task that takes the requests of all    *)
(* connections from a channel and answers them one after the other.  It    *)
(* owns the trigger registry, the bloop provider and the hot achievements; *)
(* it shares the player registry and the application's state, each behind  *)
(* a tokio Mutex, with the application's own tasks.                        *)
(*                                                                         *)
(* pc is the place the engine's task has reached.  A step is the code      *)
(* between two places where another task can intervene: the awaits of the  *)
(* two mutexes, and the reads of a player through its own RwLock.          *)
(***************************************************************************)
EXTENDS Integers, PlayerRegistry, TriggerRegistry, BloopProvider, FiniteSets, FiniteSetsExt

CONSTANTS
    Conns,        \* connections; each has at most one request under way
    ClientOf,     \* the client a connection belongs to
    Loaded,       \* the players the registry starts with (objects -> Player)
    TriggerOf,    \* achievement -> the trigger its TriggerEvaluator asks for,
                  \*   None for an achievement with another evaluator
    MinBloopsOf,  \* achievement -> the min_count of its MinBloopsEvaluator,
                  \*   None for an achievement with another evaluator
    HotAids,      \* achievements with a hot_duration ...
    HotDuration,  \* ... and how long it is
    AudioAids,    \* achievements whose audio file was found
    ThrottleOn, ThrottleMax, ThrottleThreshold,  \* throttle: Option<Throttle>
    QueueCap,     \* capacity of the request channel
    Requests,     \* the requests connections make
    MaxRequests, MaxAppCalls   \* bounds on the requests and on the application's calls

ASSUME EngineAssumption ==
    /\ ClientOf \in [Conns -> Clients]
    /\ None \notin Conns
    /\ IsFiniteSet(Objs)   \* the player objects memory has room for
    /\ DOMAIN Loaded \subseteq Objs
    /\ \A o \in DOMAIN Loaded : Loaded[o] \in Player
    /\ None \notin Triggers
    /\ TriggerOf \in [Aids -> Triggers \cup {None}]
    /\ MinBloopsOf \in [Aids -> Nat \cup {None}] /\ None \notin Nat
    /\ \A a \in Aids : None \in {TriggerOf[a], MinBloopsOf[a]}
    /\ HotAids \subseteq Aids
    /\ AudioAids \subseteq Aids
    /\ HotDuration \in [Aids -> Nat]
    /\ ThrottleOn \in BOOLEAN /\ ThrottleMax \in Nat /\ ThrottleThreshold \in Nat
    /\ QueueCap \in Nat \ {0}
    /\ MaxRequests \in Nat /\ MaxAppCalls \in Nat

VARIABLES
    queue,      \* network_rx: the connections whose request waits, in order
    request,    \* the request a connection waits for the answer of
    reply,      \* the last answer a connection got
    sent,       \* number of requests so far
    audioTasks, \* connections whose audio file a spawned task is reading
    pc,         \* where the engine's task is
    conn,       \* connection whose bloop is being handled
    player,     \* its player, a clone of the registry's Arc
    bloop,      \* the bloop made for it
    todo,       \* achievements still to evaluate for it
    tracker,    \* AwardedTracker: player -> achievements to award
    hot,        \* hot_achievements
    regLock,    \* who holds the mutex of the player registry
    stateLock,  \* who holds the mutex of the application's state
    appCalls,   \* number of registry calls the application has made
    brought,    \* history: bloops of a player that were not counted by this engine
    meddled,    \* history: the objects the application has added or changed while
                \*   the present bloop is handled, and where the engine was
    batches,    \* Event::AchievementsAwarded sent so far
    evaluated,  \* history: the awards evaluators decided on
    loadedBloops \* history: the bloops the engine was built with

connVars == <<queue, request, reply, sent, audioTasks>>
localVars == <<conn, player, bloop, todo, tracker>>
lockVars == <<regLock, stateLock>>
appVars == <<appCalls, brought, meddled>>
historyVars == <<batches, evaluated, loadedBloops>>
engineVars == <<pc, localVars, hot>>
vars == <<now, registryVars, triggerVars, bloopVars, connVars, engineVars,
          lockVars, appVars, historyVars>>

NoBloop == [pid |-> None]
NoRequest == [kind |-> None]
NoReply == [kind |-> None]

(* EngineRequest.  The audio of an unknown achievement is asked for with   *)
(* None; of the manifest hash only matters whether it is the current one.  *)
Request ==
    [kind: {"Bloop"}, uid: Uids] \cup
    [kind: {"RetrieveAudio"}, id: Aids \cup {None}] \cup
    [kind: {"PreloadCheck"}, matches: BOOLEAN]

ASSUME RequestsAssumption == Requests \subseteq Request

(* ServerMessage, and "Dropped" when the engine went away with the         *)
(* oneshot sender.                                                         *)
Reply ==
    [kind: {"BloopAccepted"}, achievements: SUBSET Aids] \cup
    [kind: {"UnknownNfcUid", "NfcUidThrottled", "AudioData", "AudioUnavailable",
            "PreloadMatch", "PreloadMismatch", "Dropped"}]

(* The places at which a bloop has been counted but not stored yet.        *)
Late == {"waitState", "evaluate", "dedup", "apply"}

Owners == {"free", "engine", "app"}
HotAchievement == [id: Aids, client: Clients, until: Nat]
Evaluated == [id: Aids, client: Clients, at: 0..MaxTime, by: Pids, to: SUBSET Pids]
NoAwards == [p \in Pids |-> {}]

EngineTypeOK ==
    /\ ClockTypeOK /\ RegistryTypeOK /\ TriggerTypeOK /\ BloopTypeOK
    /\ queue \in Seq(Conns)
    /\ request \in [Conns -> Request \cup {NoRequest}]
    /\ reply \in [Conns -> Reply \cup {NoReply}]
    /\ sent \in Nat /\ appCalls \in Nat
    /\ audioTasks \in SUBSET Conns
    /\ pc \in {"idle", "lookup", "accept", "waitState", "evaluate", "dedup", "apply", "stopped"}
    /\ conn \in Conns \cup {None}
    /\ player \in Objs \cup {None}
    /\ bloop \in Bloop \cup {NoBloop}
    /\ todo \in SUBSET Aids
    /\ tracker \in [Pids -> SUBSET Aids]
    /\ hot \in SUBSET HotAchievement
    /\ regLock \in Owners /\ stateLock \in Owners
    /\ batches \in Seq([Pids -> SUBSET Aids])
    /\ evaluated \in SUBSET Evaluated
    /\ loadedBloops \in Seq(Bloop)
    /\ brought \in [Pids -> Int]
    /\ meddled \in SUBSET (Objs \X Late)

(* The bloops counted on the objects of a player, and those stored for it. *)
Counted(p) ==
    MapThenSumSet(LAMBDA o : heap[o].bloops, {o \in Objs : heap[o] # None /\ heap[o].id = p})
Stored(p) == Cardinality({i \in DOMAIN allBloops : allBloops[i].pid = p})

(* The engine as it is built: with the players of the registry and the     *)
(* bloops the application has stored.                                      *)
EngineInit ==
    /\ RegistryLoaded(Loaded) /\ TriggerInit /\ ProviderInit
    /\ queue = <<>>
    /\ request = [c \in Conns |-> NoRequest]
    /\ reply = [c \in Conns |-> NoReply]
    /\ sent = 0 /\ appCalls = 0
    /\ audioTasks = {}
    /\ pc = "idle"
    /\ conn = None /\ player = None /\ bloop = NoBloop /\ todo = {} /\ tracker = NoAwards
    /\ hot = {}
    /\ regLock = "free" /\ stateLock = "free"
    /\ batches = <<>> /\ evaluated = {} /\ loadedBloops = allBloops
    /\ brought = [p \in Pids |-> Counted(p) - Stored(p)] /\ meddled = {}

-----------------------------------------------------------------------------
(* Connections: handle_connection sends a request into the channel and     *)
(* waits on its oneshot receiver.                                          *)
Send(c, r) ==
    /\ pc # "stopped"
    /\ request[c] = NoRequest
    /\ Len(queue) < QueueCap
    /\ sent < MaxRequests
    /\ sent' = sent + 1
    /\ request' = [request EXCEPT ![c] = r]
    /\ reply' = [reply EXCEPT ![c] = NoReply]
    /\ queue' = Append(queue, c)
    /\ UNCHANGED <<now, registryVars, triggerVars, bloopVars, audioTasks, engineVars,
                   lockVars, appVars, historyVars>>

(* response.send                                                           *)
Respond(c, r) ==
    /\ request' = [request EXCEPT ![c] = NoRequest]
    /\ reply' = [reply EXCEPT ![c] = r]
    /\ UNCHANGED sent

(* The handler returned: process_requests waits for the next request.      *)
BackToIdle ==
    /\ pc' = "idle"
    /\ conn' = None /\ player' = None /\ bloop' = NoBloop /\ todo' = {} /\ tracker' = NoAwards

(* process_requests receives the oldest request, which has the given kind. *)
Receive(c, kind) ==
    /\ pc = "idle"
    /\ queue # <<>>
    /\ c = Head(queue)
    /\ request[c].kind = kind
    /\ queue' = Tail(queue)

-----------------------------------------------------------------------------
(* handle_bloop, up to its first await: a tag with a trigger specification *)
(* arms the trigger, even if a player carries it too.                      *)
ScanTrigger(c) ==
    /\ Receive(c, "Bloop")
    /\ request[c].uid \in DOMAIN TriggerSpecs
    /\ Activate(request[c].uid, ClientOf[c])
    /\ Respond(c, [kind |-> "BloopAccepted", achievements |-> {}])
    /\ UNCHANGED <<now, registryVars, bloopVars, audioTasks, engineVars,
                   lockVars, appVars, historyVars>>

StartBloop(c) ==
    /\ Receive(c, "Bloop")
    /\ request[c].uid \notin DOMAIN TriggerSpecs
    /\ pc' = "lookup"
    /\ conn' = c
    /\ UNCHANGED <<now, registryVars, triggerVars, bloopVars, request, reply, sent, audioTasks,
                   player, bloop, todo, tracker, hot, lockVars, appVars, historyVars>>

(* With the registry's mutex: get_by_nfc_uid.  The mutex is released       *)
(* before anything else happens.                                           *)
Lookup ==
    /\ pc = "lookup"
    /\ regLock = "free"
    /\ LET o == GetByNfcUid(request[conn].uid) IN
        \/ /\ o = None
           /\ Respond(conn, [kind |-> "UnknownNfcUid"])
           /\ BackToIdle
        \/ /\ o # None
           /\ player' = o
           /\ pc' = "accept"
           /\ UNCHANGED <<request, reply, sent, conn, bloop, todo, tracker>>
    /\ UNCHANGED <<now, registryVars, triggerVars, bloopVars, queue, audioTasks, hot,
                   lockVars, appVars, historyVars>>

RecentBloopsStrict(c) ==
    LET recent == Filtered(clientBloops[c], {b \in Bloop : b.at + ThrottleThreshold > now}) IN
    SubSeq(recent, 1, IF Len(recent) < ThrottleMax THEN Len(recent) ELSE ThrottleMax)

(* The bloops the throttle looks at: of those the client has had within    *)
(* the threshold, the newest ThrottleMax.                                  *)
RecentBloops(c) ==
    LET recent == Filtered(clientBloops[c], {b \in Bloop : b.at + ThrottleThreshold >= now}) IN
    SubSeq(recent, 1, IF Len(recent) < ThrottleMax THEN Len(recent) ELSE ThrottleMax)

IsThrottled(c, p) ==
    LET recent == RecentBloops(c) IN
    /\ ThrottleOn
    /\ \A i \in DOMAIN recent : recent[i].pid = p
    /\ Len(recent) = ThrottleMax

ThrottledButCounted ==
    /\ pc = "accept"
    /\ IsThrottled(ClientOf[conn], heap[player].id)
    /\ heap' = [heap EXCEPT ![player].bloops = @ + 1]
    /\ Respond(conn, [kind |-> "NfcUidThrottled"])
    /\ BackToIdle
    /\ UNCHANGED <<now, byId, byUid, triggerVars, bloopVars, queue, audioTasks, hot,
                   lockVars, appVars, historyVars>>

(* The throttle refuses the bloop; nothing is counted.                     *)
Throttled ==
    /\ pc = "accept"
    /\ IsThrottled(ClientOf[conn], heap[player].id)
    /\ Respond(conn, [kind |-> "NfcUidThrottled"])
    /\ BackToIdle
    /\ UNCHANGED <<now, registryVars, triggerVars, bloopVars, queue, audioTasks, hot,
                   lockVars, appVars, historyVars>>

AcceptClientTime ==
    /\ pc = "accept"
    /\ ~IsThrottled(ClientOf[conn], heap[player].id)
    /\ heap' = [heap EXCEPT ![player].bloops = @ + 1]
    /\ \E at \in 0..now : bloop' = [pid |-> heap[player].id, client |-> ClientOf[conn], at |-> at]
    /\ todo' = Aids \ heap[player].awarded
    /\ tracker' = NoAwards
    /\ pc' = "waitState"
    /\ UNCHANGED <<now, byId, byUid, triggerVars, bloopVars, connVars, conn, player, hot,
                   lockVars, appVars, historyVars>>

(* increment_bloops, Bloop::new, and evaluate_achievements up to its await *)
(* of the state's mutex: the achievements the player has now are skipped.  *)
Accept ==
    /\ pc = "accept"
    /\ ~IsThrottled(ClientOf[conn], heap[player].id)
    /\ heap' = [heap EXCEPT ![player].bloops = @ + 1]
    /\ bloop' = [pid |-> heap[player].id, client |-> ClientOf[conn], at |-> now]
    /\ todo' = Aids \ heap[player].awarded
    /\ tracker' = NoAwards
    /\ pc' = "waitState"
    /\ UNCHANGED <<now, byId, byUid, triggerVars, bloopVars, connVars, conn, player, hot,
                   lockVars, appVars, historyVars>>

LockState ==
    /\ pc = "waitState"
    /\ stateLock = "free"
    /\ stateLock' = "engine"
    /\ pc' = "evaluate"
    /\ UNCHANGED <<now, registryVars, triggerVars, bloopVars, connVars, localVars, hot,
                   regLock, appVars, historyVars>>

-----------------------------------------------------------------------------
(* Achievement::evaluate of a for the players `to`: AwardSelf gives it to  *)
(* the player of the bloop, AwardMultiple to any players, NoAward to none. *)
Award(a, to) ==
    /\ todo' = todo \ {a}
    /\ tracker' = [p \in Pids |-> IF p \in to THEN tracker[p] \cup {a} ELSE tracker[p]]
    /\ evaluated' = IF to = {} THEN evaluated
                    ELSE evaluated \cup {[id |-> a, client |-> bloop.client, at |-> bloop.at,
                                          by |-> bloop.pid, to |-> to]}

(* The loop of evaluate_achievements, in the order of a hash map: any.     *)
EvaluateTrigger(a) ==
    /\ pc = "evaluate"
    /\ a \in todo
    /\ TriggerOf[a] # None
    /\ UseTrigger(bloop.client, TriggerOf[a], bloop.at)
    /\ Award(a, IF HasTrigger(bloop.client, TriggerOf[a], bloop.at) THEN {bloop.pid} ELSE {})
    /\ UNCHANGED <<now, registryVars, bloopVars, connVars, pc, conn, player, bloop, hot,
                   lockVars, appVars, batches, loadedBloops>>

HasMoreBloops(a) == heap[player].bloops > MinBloopsOf[a]

(* MinBloopsEvaluator::evaluate, which reads the player of the bloop as it *)
(* is by now.                                                              *)
HasMinBloops(a) == heap[player].bloops >= MinBloopsOf[a]

EvaluateMinBloops(a) ==
    /\ pc = "evaluate"
    /\ a \in todo
    /\ MinBloopsOf[a] # None
    /\ Award(a, IF HasMinBloops(a) THEN {bloop.pid} ELSE {})
    /\ UNCHANGED <<now, registryVars, triggerVars, bloopVars, connVars, pc, conn, player, bloop,
                   hot, lockVars, appVars, batches, loadedBloops>>

(* Other evaluators look at other players' bloops, at the time or at the   *)
(* application's state: any result.                                        *)
EvaluateOther(a) ==
    /\ pc = "evaluate"
    /\ a \in todo
    /\ TriggerOf[a] = None /\ MinBloopsOf[a] = None
    /\ \E to \in SUBSET Pids : Award(a, to)
    /\ UNCHANGED <<now, registryVars, triggerVars, bloopVars, connVars, pc, conn, player, bloop,
                   hot, lockVars, appVars, batches, loadedBloops>>

(* activate_hot_achievements: what the evaluators gave the bloop's player  *)
(* becomes hot at this client.                                             *)
Activated ==
    {[id |-> a, client |-> bloop.client, until |-> bloop.at + HotDuration[a]] :
        a \in tracker[bloop.pid] \cap HotAids}

(* inject_hot_achievements: expired ones go, the client's others are       *)
(* awarded to the bloop's player.                                          *)
Retained(hots) == {h \in hots : h.until >= bloop.at}
Injected(hots) == {h.id : h \in {g \in Retained(hots) : g.client = bloop.client}}

HotStepSwapped ==
    LET awarded == tracker[bloop.pid] \cup Injected(hot) IN
    /\ hot' = Retained(hot) \cup
              {[id |-> a, client |-> bloop.client, until |-> bloop.at + HotDuration[a]] :
                  a \in awarded \cap HotAids}
    /\ tracker' = [tracker EXCEPT ![bloop.pid] = awarded]

(* Activation comes first: what it adds is injected too, what is injected  *)
(* is not activated.                                                       *)
HotStep ==
    /\ hot' = Retained(hot \cup Activated)
    /\ tracker' = [tracker EXCEPT ![bloop.pid] = @ \cup Injected(hot \cup Activated)]

(* Everything is evaluated: the state's mutex is released, hot             *)
(* achievements are activated and then injected.                           *)
FinishEvaluation ==
    /\ pc = "evaluate"
    /\ todo = {}
    /\ stateLock' = "free"
    /\ HotStep
    /\ pc' = "dedup"
    /\ UNCHANGED <<now, registryVars, triggerVars, bloopVars, connVars, conn, player, bloop, todo,
                   regLock, appVars, historyVars>>

RemoveDuplicatesOfOne ==
    /\ pc = "dedup"
    /\ regLock = "free"
    /\ tracker' = [tracker EXCEPT ![bloop.pid] =
                     IF byId[bloop.pid] = None THEN {} ELSE @ \ heap[byId[bloop.pid]].awarded]
    /\ pc' = "apply"
    /\ UNCHANGED <<now, registryVars, triggerVars, bloopVars, connVars, conn, player, bloop, todo,
                   hot, lockVars, appVars, historyVars>>

RemoveDuplicatesKeepsGuard ==
    /\ pc = "dedup"
    /\ regLock = "free"
    /\ regLock' = "engine"
    /\ tracker' = [p \in Pids |-> IF byId[p] = None THEN {} ELSE tracker[p] \ heap[byId[p]].awarded]
    /\ pc' = "apply"
    /\ UNCHANGED <<now, registryVars, triggerVars, bloopVars, connVars, conn, player, bloop, todo,
                   hot, stateLock, appVars, historyVars>>

(* With the registry's mutex: remove_duplicates, which consumes the guard  *)
(* and so releases the mutex.                                              *)
RemoveDuplicates ==
    /\ pc = "dedup"
    /\ regLock = "free"
    /\ tracker' = [p \in Pids |-> IF byId[p] = None THEN {} ELSE tracker[p] \ heap[byId[p]].awarded]
    /\ pc' = "apply"
    /\ UNCHANGED <<now, registryVars, triggerVars, bloopVars, connVars, conn, player, bloop, todo,
                   hot, lockVars, appVars, historyVars>>

(* The players after apply_awarded: one mutate_by_id per player of the     *)
(* batch.                                                                  *)
Granted ==
    [o \in Objs |->
        IF heap[o] # None /\ byId[heap[o].id] = o
        THEN [heap[o] EXCEPT !.awarded = @ \cup tracker[heap[o].id]]
        ELSE heap[o]]

(* With the registry's mutex: apply_awarded and its event, sent whatever   *)
(* the batch holds.  Then, without another await, the bloop is stored and  *)
(* the client answered.                                                    *)
ApplyAwarded ==
    /\ pc = "apply"
    /\ regLock = "free"
    /\ heap' = Granted
    /\ batches' = Append(batches, tracker)
    /\ AddBloop(bloop)
    /\ Respond(conn, [kind |-> "BloopAccepted", achievements |-> tracker[bloop.pid]])
    /\ BackToIdle
    /\ meddled' = {}
    /\ UNCHANGED <<now, byId, byUid, triggerVars, queue, audioTasks, hot, lockVars, appCalls,
                   brought, evaluated, loadedBloops>>

-----------------------------------------------------------------------------
(* handle_retrieve_audio: without a file it answers at once, otherwise a   *)
(* detached task reads the file and answers.                               *)
NoAudio(c) ==
    /\ Receive(c, "RetrieveAudio")
    /\ request[c].id \notin AudioAids
    /\ Respond(c, [kind |-> "AudioUnavailable"])
    /\ UNCHANGED <<now, registryVars, triggerVars, bloopVars, audioTasks, engineVars,
                   lockVars, appVars, historyVars>>

SpawnAudio(c) ==
    /\ Receive(c, "RetrieveAudio")
    /\ request[c].id \in AudioAids
    /\ audioTasks' = audioTasks \cup {c}
    /\ UNCHANGED <<now, registryVars, triggerVars, bloopVars, request, reply, sent, engineVars,
                   lockVars, appVars, historyVars>>

(* The task opens and reads the file, either of which may fail by now.     *)
ReadAudio(c) ==
    /\ c \in audioTasks
    /\ audioTasks' = audioTasks \ {c}
    /\ \E kind \in {"AudioData", "AudioUnavailable"} : Respond(c, [kind |-> kind])
    /\ UNCHANGED <<now, registryVars, triggerVars, bloopVars, queue, engineVars,
                   lockVars, appVars, historyVars>>

(* handle_preload_check                                                    *)
PreloadCheck(c) ==
    /\ Receive(c, "PreloadCheck")
    /\ Respond(c, [kind |-> IF request[c].matches THEN "PreloadMatch" ELSE "PreloadMismatch"])
    /\ UNCHANGED <<now, registryVars, triggerVars, bloopVars, audioTasks, engineVars,
                   lockVars, appVars, historyVars>>

ShutdownDropsAudio ==
    /\ pc \in {"idle", "lookup", "waitState", "dedup", "apply"}
    /\ pc' = "stopped"
    /\ conn' = None /\ player' = None /\ bloop' = NoBloop /\ todo' = {} /\ tracker' = NoAwards
    /\ hot' = {} /\ meddled' = {}
    /\ queue' = <<>>
    /\ LET waiting == {c \in Conns : request[c] # NoRequest} IN
        /\ request' = [c \in Conns |-> IF c \in waiting THEN NoRequest ELSE request[c]]
        /\ reply' = [c \in Conns |-> IF c \in waiting THEN [kind |-> "Dropped"] ELSE reply[c]]
    /\ UNCHANGED <<now, registryVars, triggerVars, bloopVars, sent, audioTasks, lockVars,
                   appCalls, brought, historyVars>>

(* cancel_on_shutdown drops process_requests at one of its awaits, and     *)
(* with the engine the channel and the oneshot senders of everybody who    *)
(* waits; the audio tasks live on.                                         *)
Shutdown ==
    /\ pc \in {"idle", "lookup", "waitState", "dedup", "apply"}
    /\ pc' = "stopped"
    /\ conn' = None /\ player' = None /\ bloop' = NoBloop /\ todo' = {} /\ tracker' = NoAwards
    /\ hot' = {} /\ meddled' = {}
    /\ queue' = <<>>
    /\ LET waiting == {c \in Conns \ audioTasks : request[c] # NoRequest} IN
        /\ request' = [c \in Conns |-> IF c \in waiting THEN NoRequest ELSE request[c]]
        /\ reply' = [c \in Conns |-> IF c \in waiting THEN [kind |-> "Dropped"] ELSE reply[c]]
    /\ UNCHANGED <<now, registryVars, triggerVars, bloopVars, sent, audioTasks, lockVars,
                   appCalls, brought, historyVars>>

-----------------------------------------------------------------------------
(* The application's own task: it may take either mutex, both in either    *)
(* order, and call the registry while it holds the registry's.             *)
AppLockRegistry ==
    /\ regLock = "free" /\ regLock' = "app"
    /\ UNCHANGED <<now, registryVars, triggerVars, bloopVars, connVars, engineVars, stateLock,
                   appVars, historyVars>>

AppUnlockRegistry ==
    /\ regLock = "app" /\ regLock' = "free"
    /\ UNCHANGED <<now, registryVars, triggerVars, bloopVars, connVars, engineVars, stateLock,
                   appVars, historyVars>>

AppLockState ==
    /\ stateLock = "free" /\ stateLock' = "app"
    /\ UNCHANGED <<now, registryVars, triggerVars, bloopVars, connVars, engineVars, regLock,
                   appVars, historyVars>>

AppUnlockState ==
    /\ stateLock = "app" /\ stateLock' = "free"
    /\ UNCHANGED <<now, registryVars, triggerVars, bloopVars, connVars, engineVars, regLock,
                   appVars, historyVars>>

AppCall ==
    /\ regLock = "app"
    /\ appCalls < MaxAppCalls
    /\ appCalls' = appCalls + 1
    /\ RegistryNext
    /\ brought' = [p \in Pids |-> brought[p] + Counted(p)' - Counted(p)]
    /\ meddled' = IF pc \in Late THEN meddled \cup {<<o, pc>> : o \in {x \in Objs : heap'[x] # heap[x]}}
                  ELSE meddled
    /\ UNCHANGED <<now, triggerVars, bloopVars, connVars, engineVars, lockVars, historyVars>>

EngineTick ==
    /\ Tick
    /\ UNCHANGED <<registryVars, triggerVars, bloopVars, connVars, engineVars, lockVars, appVars,
                   historyVars>>

-----------------------------------------------------------------------------
AppNext == AppLockRegistry \/ AppUnlockRegistry \/ AppLockState \/ AppUnlockState \/ AppCall

(* The steps of the engine's task.                                         *)
EngineStep ==
    \/ \E c \in Conns : ScanTrigger(c) \/ StartBloop(c) \/ NoAudio(c) \/ SpawnAudio(c) \/ PreloadCheck(c)
    \/ Lookup \/ Throttled \/ Accept \/ LockState
    \/ \E a \in Aids : EvaluateTrigger(a) \/ EvaluateMinBloops(a) \/ EvaluateOther(a)
    \/ FinishEvaluation \/ RemoveDuplicates \/ ApplyAwarded

Next ==
    \/ \E c \in Conns, r \in Requests : Send(c, r)
    \/ EngineStep
    \/ \E c \in Conns : ReadAudio(c)
    \/ Shutdown
    \/ AppNext
    \/ EngineTick

Spec == EngineInit /\ [][Next]_vars

(* The engine's and the audio tasks are scheduled as long as they can run. *)
(* tokio's Mutex serves its waiters in order, so an engine that waits gets *)
(* the mutex if the holder keeps releasing it (strong fairness of the      *)
(* steps that acquire), and the application does not keep a mutex forever. *)
Fairness ==
    /\ WF_vars(EngineStep)
    /\ SF_vars(Lookup) /\ SF_vars(LockState) /\ SF_vars(RemoveDuplicates) /\ SF_vars(ApplyAwarded)
    /\ \A c \in Conns : WF_vars(ReadAudio(c))
    /\ WF_vars(AppUnlockRegistry) /\ WF_vars(AppUnlockState)

FairSpec == Spec /\ Fairness

-----------------------------------------------------------------------------
(* Who owns the oneshot sender of a request: the channel, the handler of   *)
(* the present bloop, or an audio task.                                    *)
Queued == {queue[i] : i \in DOMAIN queue}
Handled == IF conn = None THEN {} ELSE {conn}

(* Every request that waits for an answer is in exactly one hand, and      *)
(* nobody holds a request that was answered: no connection waits forever   *)
(* on a sender that was forgotten and none is answered twice, across early *)
(* returns, audio tasks that outlive the engine, and shutdown.             *)
RequestOwned ==
    /\ Queued \cup Handled \cup audioTasks = {c \in Conns : request[c] # NoRequest}
    /\ Queued \cap Handled = {} /\ Queued \cap audioTasks = {} /\ Handled \cap audioTasks = {}
    /\ \A i, j \in DOMAIN queue : queue[i] = queue[j] => i = j

(* Whatever is about to be announced for a bloop was decided by an         *)
(* evaluator: for this very bloop, or for an earlier bloop at the same     *)
(* client whose player won it and whose hot duration has not run out.  A   *)
(* hot achievement that is passed on does not become hot again, so a queue *)
(* of players cannot keep one achievement alive.                           *)
AwardsJustified ==
    pc \in {"dedup", "apply"} =>
        \A p \in Pids : \A a \in tracker[p] :
            \E e \in evaluated :
                /\ e.id = a
                /\ e.client = bloop.client
                /\ \/ e.at = bloop.at /\ p \in e.to
                   \/ /\ p = bloop.pid /\ e.by \in e.to
                      /\ a \in HotAids
                      /\ e.at <= bloop.at /\ bloop.at <= e.at + HotDuration[a]

(* An announced award is new to the player that receives it, whatever the  *)
(* application does to players while the bloop is evaluated.  The one gap  *)
(* is between remove_duplicates and apply_awarded, which take the          *)
(* registry's mutex one after the other: an object the application adds or *)
(* changes just there may have the achievement already.                    *)
NewAwardsOnly ==
    [][Len(batches') > Len(batches) =>
        \A p \in Pids :
            byId[p] # None /\ <<byId[p], "apply">> \notin meddled =>
                Last(batches')[p] \cap heap[byId[p]].awarded = {}]_vars

(* At one client, no bloop is stored that is the (ThrottleMax + 1)st of a  *)
(* player in a row within the threshold, the bloops the engine was built   *)
(* with counted, although the throttle only sees what the client's         *)
(* collection still remembers.                                             *)
ThrottleBound ==
    ThrottleOn => \A c \in Clients :
        LET h == OfClient(allBloops, c) IN
        \A i \in 1..(Len(h) - Len(OfClient(loadedBloops, c))) :
            i + ThrottleMax \in DOMAIN h /\ (\A j \in i..(i + ThrottleMax) : h[j].pid = h[i].pid) =>
                h[i].at > h[i + ThrottleMax].at + ThrottleThreshold

(* From the moment a bloop is made until it is stored, through all the     *)
(* awaits in between, no collection has forgotten a bloop that is within   *)
(* max_age of it: what evaluators see does not depend on when they run.    *)
HandledSeesRecent ==
    bloop # NoBloop =>
        /\ IsWindow(globalBloops, allBloops, bloop.at)
        /\ \A c \in Clients : IsWindow(clientBloops[c], OfClient(allBloops, c), bloop.at)

(* By how much the engine has counted more bloops than it has stored.      *)
Ahead(p) == Counted(p) - Stored(p) - brought[p]

(* While the engine runs, the bloops it has counted on a player's objects  *)
(* are the bloops it has stored for the player, plus the one being         *)
(* handled, whatever players came with or the application made of them: a  *)
(* scan that is refused is not counted and none is counted or stored       *)
(* twice.  A shutdown between the two loses at most one bloop of one       *)
(* player.                                                                 *)
CountsMatchBloops ==
    /\ pc # "stopped" => \A p \in Pids :
        Ahead(p) = IF bloop # NoBloop /\ bloop.pid = p THEN 1 ELSE 0
    /\ \A p \in Pids : Ahead(p) \in {0, 1}
    /\ \A p, q \in Pids : p # q => Ahead(p) = 0 \/ Ahead(q) = 0

(* A player with bloops enough for a MinBloopsEvaluator, however it came   *)
(* by them, has its achievement once its next bloop is stored, although    *)
(* the bloop is counted first, the achievement written three awaits later, *)
(* and the application calls the registry in between.  Exempt is a player  *)
(* that was removed or replaced meanwhile, or that the application changed *)
(* after it was counted: the next bloop makes up for that.                 *)
MilestoneKept ==
    [][Len(batches') > Len(batches) /\ byId[bloop.pid] = player
       /\ (\A at \in Late : <<player, at>> \notin meddled) =>
        \A a \in Aids :
            MinBloopsOf[a] # None /\ heap[player].bloops >= MinBloopsOf[a] =>
                a \in heap'[player].awarded]_vars

(* Every request is answered, or dropped when the engine shuts down, even  *)
(* while the application keeps taking both mutexes in any order.           *)
EveryRequestAnswered ==
    \A c \in Conns : request[c] # NoRequest ~> request[c] = NoRequest
=============================================================================
