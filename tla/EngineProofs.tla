---------------------------- MODULE EngineProofs ----------------------------
(***************************************************************************)
(* Proofs about the two registries and the engine that owns them.  For any *)
(* players, tags, objects and triggers: lookups of the player registry are *)
(* sound and triggers stay armed.  For any achievements, connections and   *)
(* application: who owns a request, what is announced and granted, which   *)
(* bloops the collections and the throttle see, and what is counted.       *)
(***************************************************************************)
EXTENDS Engine, BloopProviderProofs, CountingLemmas, TLAPS

-----------------------------------------------------------------------------
(* Types alone are not inductive: mutate_by_id writes through a reference,  *)
(* so the maps must lead to players that exist.                             *)
RegistryInv == RegistryTypeOK /\ LookupSound

(* add preserves the invariant: the object is new, so no key led to it.     *)
LEMMA AddStep ==
    ASSUME RegistryInv, NEW p \in AppPlayers, RegistryAdd(p)
    PROVE  RegistryInv'
<1> USE RegistryAssumption DEF RegistryInv, RegistryTypeOK, LookupSound
<1>1. PICK o \in Objs :
        /\ heap[o] = None
        /\ heap' = [heap EXCEPT ![o] = p]
        /\ byId' = [byId EXCEPT ![p.id] = o]
        /\ byUid' = [byUid EXCEPT ![p.uid] = o]
  BY DEF RegistryAdd
<1>2. p \in Player /\ p # None /\ p.id \in Pids /\ p.uid \in Uids
  BY DEF Player
<1>4. RegistryTypeOK'
  BY <1>1, <1>2
<1>5. heap'[o] = p /\ \A q \in Objs \ {o} : heap'[q] = heap[q]
  BY <1>1
<1>6. ASSUME NEW i \in Pids, byId'[i] # None
      PROVE  heap'[byId'[i]] # None /\ heap'[byId'[i]].id = i
  <2>1. CASE i = p.id
    BY <1>1, <1>2, <1>5, <2>1
  <2>2. CASE i # p.id
    BY <1>1, <1>2, <1>5, <1>6, <2>2
  <2> QED BY <2>1, <2>2
<1>7. ASSUME NEW u \in Uids, byUid'[u] # None
      PROVE  heap'[byUid'[u]] # None /\ heap'[byUid'[u]].uid = u
  <2>1. CASE u = p.uid
    BY <1>1, <1>2, <1>5, <2>1
  <2>2. CASE u # p.uid
    BY <1>1, <1>2, <1>5, <1>7, <2>2
  <2> QED BY <2>1, <2>2
<1> QED BY <1>4, <1>6, <1>7

(* mutate_by_id preserves the invariant: the key under the player's old tag *)
(* is the only one that can lead to it, and that key is dropped.            *)
LEMMA MutateStep ==
    ASSUME RegistryInv, NEW new \in AppPlayers, MutateById(new)
    PROVE  RegistryInv'
<1> USE RegistryAssumption DEF RegistryInv, RegistryTypeOK, LookupSound
<1> DEFINE id == new.id
           uid == new.uid
           o == byId[id]
<1>2. new \in Player /\ new.id = id /\ new.uid = uid /\ id \in Pids /\ uid \in Uids
  BY DEF Player
<1>1. o \in Objs /\ heap[o] \in Player /\ heap[o].id = id
  BY <1>2 DEF MutateById
<1>3. heap' = [heap EXCEPT ![o] = new] /\ byId' = byId /\ byUid' = MoveUid(o, heap[o].uid, uid)
  BY DEF MutateById
<1>u. heap[o].uid \in Uids
  BY <1>1 DEF Player
<1> HIDE DEF o, id, uid
<1>4. RegistryTypeOK'
  BY <1>1, <1>2, <1>3, <1>u DEF MoveUid
<1>5. heap'[o] = new /\ \A q \in Objs \ {o} : heap'[q] = heap[q]
  BY <1>1, <1>3
<1>6. ASSUME NEW i \in Pids, byId'[i] # None
      PROVE  heap'[byId'[i]] # None /\ heap'[byId'[i]].id = i
  <2>1. byId[i] \in Objs /\ heap[byId[i]].id = i /\ heap[byId[i]] # None
    BY <1>3, <1>6
  <2>2. CASE byId[i] = o
    BY <1>1, <1>2, <1>3, <1>5, <2>1, <2>2
  <2>3. CASE byId[i] # o
    BY <1>3, <1>5, <2>1, <2>3
  <2> QED BY <2>2, <2>3
<1>7. ASSUME NEW u \in Uids, byUid'[u] # None
      PROVE  heap'[byUid'[u]] # None /\ heap'[byUid'[u]].uid = u
  <2>1. CASE u = uid /\ heap[o].uid # uid
    <3>1. byUid'[u] = o
      BY <1>1, <1>3, <1>7, <2>1 DEF MoveUid
    <3> QED BY <1>2, <1>5, <2>1, <3>1
  <2>2. CASE u = uid /\ heap[o].uid = uid
    <3>1. byUid' = byUid
      BY <1>3, <2>2 DEF MoveUid
    <3>2. CASE byUid[u] = o
      BY <1>2, <1>5, <2>2, <3>1, <3>2
    <3>3. CASE byUid[u] # o
      BY <1>5, <1>7, <3>1, <3>3
    <3> QED BY <3>2, <3>3
  <2>3. CASE u # uid
    <3>1. byUid'[u] = byUid[u] /\ byUid[u] # o
      BY <1>1, <1>3, <1>7, <2>3 DEF MoveUid
    <3> QED BY <1>5, <1>7, <3>1
  <2> QED BY <2>1, <2>2, <2>3
<1> QED BY <1>4, <1>6, <1>7

(* remove preserves the invariant: it only drops keys.                      *)
LEMMA RemoveStep ==
    ASSUME RegistryInv, NEW id \in Pids, RegistryRemove(id)
    PROVE  RegistryInv'
<1> USE RegistryAssumption DEF RegistryInv, RegistryTypeOK, LookupSound
<1>1. heap[byId[id]].uid \in Uids
  BY DEF RegistryRemove, Player
<1>2. RegistryTypeOK'
  BY <1>1 DEF RegistryRemove
<1>3. \A i \in Pids : byId'[i] # None => byId'[i] = byId[i]
  BY DEF RegistryRemove
<1>4. \A u \in Uids : byUid'[u] # None => byUid'[u] = byUid[u]
  BY <1>1 DEF RegistryRemove
<1> QED BY <1>2, <1>3, <1>4 DEF RegistryRemove

(* Every call, and no call, preserves the invariant.                         *)
LEMMA RegistryStep ==
    ASSUME RegistryInv, [RegistryNext]_registryVars
    PROVE  RegistryInv'
<1>1. CASE UNCHANGED registryVars
  BY <1>1 DEF registryVars, RegistryInv, RegistryTypeOK, LookupSound
<1> QED BY <1>1, AddStep, MutateStep, RemoveStep DEF RegistryNext

(* The empty registry satisfies the invariant.                               *)
LEMMA RegistryInitInv ==
    ASSUME RegistryInit
    PROVE  RegistryInv
BY DEF RegistryInit, RegistryInv, RegistryTypeOK, LookupSound

(* Whatever calls come, the registry stays well typed and every lookup      *)
(* returns the right player or nobody.                                      *)
THEOREM RegistryLookupsAreSound == RegistrySpec => [](RegistryTypeOK /\ LookupSound)
<1>1. RegistryInit => RegistryInv
  BY RegistryInitInv
<1>2. RegistryInv /\ [RegistryNext]_registryVars => RegistryInv'
  BY RegistryStep
<1> QED BY <1>1, <1>2, PTL DEF RegistrySpec, RegistryInv

-----------------------------------------------------------------------------
(* A careful caller never takes a tag that leads to somebody else.          *)
LEMMA FreeTagLeadsNowhere ==
    ASSUME RegistryInv, InSync, NEW id \in Pids, NEW uid \in Uids, UidFree(id, uid)
    PROVE  byUid[uid] # None => byUid[uid] = byId[id]
<1> USE RegistryAssumption DEF RegistryInv, RegistryTypeOK, LookupSound, InSync, UidFree
<1> SUFFICES ASSUME byUid[uid] # None PROVE byUid[uid] = byId[id]
  OBVIOUS
<1> DEFINE q == byUid[uid]
<1>1. q \in Objs /\ heap[q] \in Player /\ heap[q].uid = uid /\ byId[heap[q].id] = q
  OBVIOUS
<1>2. heap[q].id \in Pids
  BY <1>1 DEF Player
<1> QED BY <1>1, <1>2

(* A careful add keeps the maps in agreement: neither key led anywhere.      *)
LEMMA CarefulAddInSync ==
    ASSUME RegistryInv, InSync, NEW p \in AppPlayers, CarefulAdd(p)
    PROVE  InSync'
<1> USE RegistryAssumption DEF RegistryInv, RegistryTypeOK, LookupSound, InSync
<1> DEFINE id == p.id
           uid == p.uid
<1>0. id \in Pids /\ uid \in Uids
  BY DEF Player
<1>1. PICK o \in Objs :
        /\ heap[o] = None
        /\ heap' = [heap EXCEPT ![o] = p]
        /\ byId' = [byId EXCEPT ![id] = o]
        /\ byUid' = [byUid EXCEPT ![uid] = o]
  BY DEF CarefulAdd, RegistryAdd
<1>2. byId[id] = None /\ byUid[uid] = None
  BY <1>0, FreeTagLeadsNowhere DEF CarefulAdd
<1>3. heap'[o].id = id /\ heap'[o].uid = uid /\ \A q \in Objs \ {o} : heap'[q] = heap[q]
  BY <1>1
<1> HIDE DEF id, uid
<1>4. ASSUME NEW i \in Pids, byId'[i] # None
      PROVE  byUid'[heap'[byId'[i]].uid] = byId'[i]
  <2>1. CASE i = id
    BY <1>0, <1>1, <1>3, <2>1
  <2>2. CASE i # id
    <3> DEFINE q == byId[i]
    <3>1. q \in Objs \ {o} /\ byId'[i] = q /\ heap[q] \in Player /\ byUid[heap[q].uid] = q
      BY <1>1, <1>4, <2>2
    <3>2. heap[q].uid \in Uids /\ heap[q].uid # uid
      BY <1>2, <3>1 DEF Player
    <3> QED BY <1>1, <1>3, <3>1, <3>2
  <2> QED BY <2>1, <2>2
<1>5. ASSUME NEW u \in Uids, byUid'[u] # None
      PROVE  byId'[heap'[byUid'[u]].id] = byUid'[u]
  <2>1. CASE u = uid
    BY <1>0, <1>1, <1>3, <2>1
  <2>2. CASE u # uid
    <3> DEFINE q == byUid[u]
    <3>1. q \in Objs \ {o} /\ byUid'[u] = q /\ heap[q] \in Player /\ byId[heap[q].id] = q
      BY <1>1, <1>5, <2>2
    <3>2. heap[q].id \in Pids /\ heap[q].id # id
      BY <1>2, <3>1 DEF Player
    <3> QED BY <1>1, <1>3, <3>1, <3>2
  <2> QED BY <2>1, <2>2
<1> QED BY <1>4, <1>5

(* A careful change of tag keeps the maps in agreement: the new tag led to   *)
(* nobody or to the player itself, and the old key goes.                     *)
LEMMA CarefulMutateInSync ==
    ASSUME RegistryInv, InSync, NEW new \in AppPlayers, CarefulMutate(new)
    PROVE  InSync'
<1> USE RegistryAssumption DEF RegistryInv, RegistryTypeOK, LookupSound, InSync
<1> DEFINE id == new.id
           uid == new.uid
           o == byId[id]
           old == heap[o].uid
<1>0. id \in Pids /\ uid \in Uids
  BY DEF Player
<1>1. o \in Objs /\ heap[o] \in Player /\ heap[o].id = id /\ byUid[old] = o
  BY <1>0 DEF CarefulMutate, MutateById
<1>2. new.id = id /\ new.uid = uid /\ old \in Uids
  BY <1>1 DEF Player
<1>3. heap' = [heap EXCEPT ![o] = new] /\ byId' = byId /\ byUid' = MoveUid(o, old, uid)
  BY DEF CarefulMutate, MutateById
<1>4. byUid[uid] # None => byUid[uid] = o
  BY <1>0, FreeTagLeadsNowhere DEF CarefulMutate
<1> HIDE DEF id, uid
<1>5. heap'[o] = new /\ \A q \in Objs \ {o} : heap'[q] = heap[q]
  BY <1>1, <1>3
<1>6. byUid'[uid] = o
  BY <1>0, <1>1, <1>2, <1>3 DEF MoveUid
<1>7. \A u \in Uids \ {uid} : u # old => byUid'[u] = byUid[u]
  BY <1>1, <1>2, <1>3 DEF MoveUid
<1>8. old # uid => byUid'[old] = None
  BY <1>1, <1>2, <1>3 DEF MoveUid
<1>9. ASSUME NEW i \in Pids, byId'[i] # None
      PROVE  byUid'[heap'[byId'[i]].uid] = byId'[i]
  <2> DEFINE q == byId[i]
  <2>1. q \in Objs /\ byId'[i] = q /\ heap[q] \in Player /\ heap[q].id = i /\ byUid[heap[q].uid] = q
    BY <1>3, <1>9
  <2>2. CASE q = o
    BY <1>2, <1>5, <1>6, <2>1, <2>2
  <2>3. CASE q # o
    <3>1. heap[q].uid \in Uids /\ heap[q].uid # old /\ heap[q].uid # uid
      BY <1>1, <1>4, <2>1, <2>3 DEF Player
    <3> HIDE DEF o, old
    <3> QED BY <1>5, <1>7, <2>1, <2>3, <3>1
  <2> QED BY <2>2, <2>3
<1>10. ASSUME NEW u \in Uids, byUid'[u] # None
       PROVE  byId'[heap'[byUid'[u]].id] = byUid'[u]
  <2>1. CASE u = uid
    BY <1>1, <1>2, <1>3, <1>5, <1>6, <2>1
  <2>2. CASE u # uid
    <3> DEFINE q == byUid[u]
    <3>1. u # old /\ byUid'[u] = q
      BY <1>7, <1>8, <1>10, <2>2
    <3>2. q \in Objs /\ heap[q].uid = u /\ byId[heap[q].id] = q
      BY <1>10, <3>1
    <3>3. q # o
      BY <3>1, <3>2
    <3> HIDE DEF o, old
    <3> QED BY <1>3, <1>5, <3>1, <3>2, <3>3
  <2> QED BY <2>1, <2>2
<1> QED BY <1>9, <1>10

(* remove keeps the maps in agreement: the key that goes led to the player.  *)
LEMMA RemoveInSync ==
    ASSUME RegistryInv, InSync, NEW id \in Pids, RegistryRemove(id)
    PROVE  InSync'
<1> USE RegistryAssumption DEF RegistryInv, RegistryTypeOK, LookupSound, InSync
<1> DEFINE o == byId[id]
           old == heap[o].uid
<1>1. o \in Objs /\ heap[o] \in Player /\ heap[o].id = id /\ byUid[old] = o /\ old \in Uids
  BY DEF RegistryRemove, Player
<1>2. heap' = heap /\ byId' = [byId EXCEPT ![id] = None] /\ byUid' = [byUid EXCEPT ![old] = None]
  BY DEF RegistryRemove
<1>3. ASSUME NEW i \in Pids, byId'[i] # None
      PROVE  byUid'[heap'[byId'[i]].uid] = byId'[i]
  <2> DEFINE q == byId[i]
  <2>1. i # id /\ byId'[i] = q /\ q \in Objs /\ heap[q] \in Player /\ heap[q].id = i
    BY <1>2, <1>3
  <2>2. byUid[heap[q].uid] = q /\ heap[q].uid \in Uids
    BY <1>3, <2>1 DEF Player
  <2>3. heap[q].uid # old
    BY <1>1, <2>1, <2>2
  <2> HIDE DEF o, old
  <2> QED BY <1>2, <2>1, <2>2, <2>3
<1>4. ASSUME NEW u \in Uids, byUid'[u] # None
      PROVE  byId'[heap'[byUid'[u]].id] = byUid'[u]
  <2> DEFINE q == byUid[u]
  <2>1. u # old /\ byUid'[u] = q
    BY <1>1, <1>2, <1>4
  <2>2. q \in Objs /\ heap[q] \in Player /\ heap[q].uid = u /\ byId[heap[q].id] = q
    BY <1>4, <2>1
  <2>3. heap[q].id # id
    BY <1>1, <2>1, <2>2
  <2>4. heap[q].id \in Pids
    BY <2>2 DEF Player
  <2> HIDE DEF o, old
  <2> QED BY <1>2, <2>1, <2>2, <2>3, <2>4
<1> QED BY <1>3, <1>4

(* For callers that keep ids and tags unique the two maps always agree.     *)
THEOREM CarefulCallersStayInSync == CarefulSpec => []InSync
<1> DEFINE Inv == RegistryInv /\ InSync
<1>1. RegistryInit => Inv
  BY RegistryInitInv DEF RegistryInit, InSync
<1>2. Inv /\ [CarefulNext]_registryVars => Inv'
  <2> SUFFICES ASSUME Inv, [CarefulNext]_registryVars PROVE Inv'
    OBVIOUS
  <2>1. CarefulNext => RegistryNext
    BY DEF CarefulNext, RegistryNext, CarefulAdd, CarefulMutate
  <2>2. RegistryInv'
    BY <2>1, RegistryStep
  <2>3. InSync'
    <3>1. CASE UNCHANGED registryVars
      BY <3>1 DEF registryVars, InSync
    <3> QED BY <3>1, CarefulAddInSync, CarefulMutateInSync, RemoveInSync DEF CarefulNext
  <2> QED BY <2>2, <2>3
<1> QED BY <1>1, <1>2, PTL DEF CarefulSpec

-----------------------------------------------------------------------------
(* The accounting of one slot: an armed counted trigger has been used less  *)
(* often than it may be, and the registry's own count is the number of      *)
(* TRUE answers; one that is gone has been used exactly as often as it may. *)
SlotAccounted(s) ==
    /\ Armed(s) => armedBy[s] = active[s].uid
    /\ Armed(s) /\ SpecOf(s).occurrence = "Once" => hits[s] = 0
    /\ Armed(s) /\ SpecOf(s).occurrence = "Times" =>
        hits[s] = active[s].usages /\ (hits[s] < SpecOf(s).n \/ (hits[s] = 0 /\ SpecOf(s).n = 0))
    /\ ~Armed(s) /\ armedBy[s] # None /\ TriggerSpecs[armedBy[s]].occurrence # "Duration" =>
        hits[s] = Uses(TriggerSpecs[armedBy[s]])

TriggerInv == TriggerTypeOK /\ \A s \in Slots : SlotAccounted(s)

(* None is not a tag, so an armed slot holds an ActiveTrigger and an empty  *)
(* one does not.                                                            *)
LEMMA ArmedHoldsTrigger ==
    ASSUME TriggerTypeOK, NEW s \in Slots
    PROVE  /\ Armed(s) => active[s] \in ActiveTrigger /\ SpecOf(s) \in TriggerSpec
           /\ ~Armed(s) => active[s] = NoTrigger
<1> USE NoneAssumption, TriggerAssumption
<1>1. active[s] \in ActiveTrigger \cup {NoTrigger}
  BY DEF TriggerTypeOK
<1>2. \A x \in ActiveTrigger : x.uid \in DOMAIN TriggerSpecs /\ x.uid # None
  BY DEF ActiveTrigger
<1>3. NoTrigger.uid = None
  BY DEF NoTrigger
<1> QED BY <1>1, <1>2, <1>3 DEF Armed, SpecOf

(* Arming a trigger starts the accounting of its slot afresh.               *)
LEMMA ActivateStep ==
    ASSUME TriggerInv, now \in 0..MaxTime, NEW u \in DOMAIN TriggerSpecs, NEW c \in Clients,
           Activate(u, c)
    PROVE  TriggerInv'
<1> USE NoneAssumption, TriggerAssumption
<1> DEFINE new == [uid |-> u, at |-> now, usages |-> 0]
<1>1. PICK s \in Slots : s = IF TriggerSpecs[u].global THEN Global ELSE c
  BY DEF Slots
<1>2. /\ active' = [active EXCEPT ![s] = new]
      /\ hits' = [hits EXCEPT ![s] = 0]
      /\ armedBy' = [armedBy EXCEPT ![s] = u]
  BY <1>1 DEF Activate
<1>3. new \in ActiveTrigger /\ new.uid = u /\ u # None /\ new.usages = 0
  BY DEF ActiveTrigger
<1> HIDE DEF new
<1>4. TriggerTypeOK'
  BY <1>1, <1>2, <1>3 DEF TriggerInv, TriggerTypeOK
<1>5. ASSUME NEW r \in Slots PROVE SlotAccounted(r)'
  <2>1. CASE r = s
    <3>1. active'[s] = new /\ hits'[s] = 0 /\ armedBy'[s] = u
      BY <1>1, <1>2 DEF TriggerInv, TriggerTypeOK
    <3>2. TriggerSpecs[u].n \in Nat
      BY DEF TriggerSpec
    <3>3. active'[s].uid = u /\ active'[s].usages = 0 /\ u # None
      BY <1>3, <3>1
    <3>4. 0 < TriggerSpecs[u].n \/ TriggerSpecs[u].n = 0
      BY <3>2
    <3>5. SlotAccounted(s)'
      BY <3>1, <3>3, <3>4 DEF SlotAccounted, Armed, SpecOf
    <3> QED BY <2>1, <3>5
  <2>2. CASE r # s
    <3>1. active'[r] = active[r] /\ hits'[r] = hits[r] /\ armedBy'[r] = armedBy[r]
      BY <1>1, <1>2, <2>2 DEF TriggerInv, TriggerTypeOK
    <3> QED BY <3>1 DEF TriggerInv, SlotAccounted, Armed, SpecOf
  <2> QED BY <2>1, <2>2
<1> QED BY <1>4, <1>5 DEF TriggerInv

(* A check keeps the accounting of the slot it looks at, at any time.       *)
LEMMA UseStep ==
    ASSUME TriggerInv, NEW c \in Clients, NEW t \in Triggers, NEW time \in Nat,
           UseTrigger(c, t, time)
    PROVE  TriggerInv'
<1> USE NoneAssumption, TriggerAssumption
<1>1. PICK s \in Slots : s = SlotFor(c)
  BY DEF SlotFor, Slots
<1>2. armedBy' = armedBy
  BY DEF UseTrigger
<1>3. CASE ~Armed(s) \/ SpecOf(s).trigger # t
  <2>1. active' = active /\ hits' = hits
    BY <1>1, <1>3 DEF UseTrigger, HasTrigger
  <2> QED BY <1>2, <2>1 DEF TriggerInv, TriggerTypeOK, SlotAccounted, Armed, SpecOf
<1>4. CASE Armed(s) /\ SpecOf(s).trigger = t
  <2>1. active[s] \in ActiveTrigger /\ SpecOf(s) \in TriggerSpec
    BY <1>1, <1>4, ArmedHoldsTrigger DEF TriggerInv
  <2>2. SpecOf(s).n \in Nat /\ active[s].usages \in Nat /\ hits[s] \in Nat
        /\ armedBy[s] = active[s].uid /\ armedBy[s] # None
        /\ SpecOf(s) = TriggerSpecs[armedBy[s]]
    BY <1>1, <1>4, <2>1 DEF TriggerInv, TriggerTypeOK, SlotAccounted, TriggerSpec, ActiveTrigger,
       Armed, SpecOf
  <2>3. hits' = IF IsActive(s, time) THEN [hits EXCEPT ![s] = @ + 1] ELSE hits
    BY <1>1, <1>4 DEF UseTrigger, HasTrigger
  <2>4. active' = IF ~IsRetained(s, time) THEN [active EXCEPT ![s] = NoTrigger]
                  ELSE IF SpecOf(s).occurrence = "Times" THEN [active EXCEPT ![s].usages = @ + 1]
                  ELSE active
    BY <1>1, <1>4 DEF UseTrigger
  <2>5. [active[s] EXCEPT !.usages = @ + 1] \in ActiveTrigger
    BY <2>1, <2>2 DEF ActiveTrigger
  <2>6. active' \in [Slots -> ActiveTrigger \cup {NoTrigger}]
    BY <1>1, <2>4, <2>5 DEF TriggerInv, TriggerTypeOK
  <2>7. hits' \in [Slots -> Nat]
    BY <1>1, <2>2, <2>3 DEF TriggerInv, TriggerTypeOK
  <2>8. TriggerTypeOK'
    BY <1>2, <2>6, <2>7 DEF TriggerInv, TriggerTypeOK
  <2>9. ASSUME NEW r \in Slots, r # s PROVE SlotAccounted(r)'
    <3>1. active'[r] = active[r] /\ hits'[r] = hits[r] /\ armedBy'[r] = armedBy[r]
      BY <1>1, <1>2, <2>3, <2>4, <2>9 DEF TriggerInv, TriggerTypeOK
    <3> QED BY <3>1 DEF TriggerInv, SlotAccounted, Armed, SpecOf
  <2>10. SlotAccounted(s)'
    <3>1. CASE SpecOf(s).occurrence = "Once"
      <4>1. active'[s] = NoTrigger /\ hits'[s] = hits[s] + 1 /\ hits[s] = 0
        BY <1>1, <1>4, <2>3, <2>4, <3>1 DEF IsActive, IsRetained, TriggerInv, TriggerTypeOK, SlotAccounted
      <4> QED BY <1>2, <2>2, <3>1, <4>1 DEF SlotAccounted, Armed, NoTrigger, Uses
    <3>2. CASE SpecOf(s).occurrence = "Times" /\ IsRetained(s, time)
      <4>1. active[s].usages + 1 < SpecOf(s).n /\ hits[s] = active[s].usages
        BY <1>1, <1>4, <3>2 DEF IsRetained, TriggerInv, SlotAccounted
      <4>2. IsActive(s, time)
        BY <2>2, <3>2, <4>1 DEF IsActive
      <4>3. hits'[s] = hits[s] + 1 /\ active'[s] = [active[s] EXCEPT !.usages = @ + 1]
        BY <1>1, <2>3, <2>4, <3>2, <4>2 DEF TriggerInv, TriggerTypeOK
      <4>4. active'[s].uid = active[s].uid /\ active'[s].usages = active[s].usages + 1
        BY <2>1, <4>3 DEF ActiveTrigger
      <4>5. hits'[s] = active'[s].usages /\ hits'[s] < SpecOf(s).n
        BY <2>2, <4>1, <4>3, <4>4
      <4> QED BY <1>2, <1>4, <2>2, <3>2, <4>4, <4>5 DEF SlotAccounted, Armed, SpecOf
    <3>3. CASE SpecOf(s).occurrence = "Times" /\ ~IsRetained(s, time)
      <4>1. active'[s] = NoTrigger
        BY <1>1, <2>4, <3>3 DEF TriggerInv, TriggerTypeOK
      <4>2. ~(active[s].usages + 1 < SpecOf(s).n) /\ hits[s] = active[s].usages
            /\ (hits[s] < SpecOf(s).n \/ (hits[s] = 0 /\ SpecOf(s).n = 0))
        BY <1>1, <1>4, <3>3 DEF IsRetained, TriggerInv, SlotAccounted
      <4>3. hits'[s] = SpecOf(s).n
        BY <1>1, <2>2, <2>3, <3>3, <4>2 DEF IsActive, TriggerInv, TriggerTypeOK
      <4> QED BY <1>2, <2>2, <3>3, <4>1, <4>3 DEF SlotAccounted, Armed, NoTrigger, Uses
    <3>4. CASE SpecOf(s).occurrence = "Duration"
      <4>1. active'[s] \in {active[s], NoTrigger}
        BY <1>1, <2>4, <3>4 DEF TriggerInv, TriggerTypeOK
      <4> QED BY <1>2, <1>4, <2>2, <3>4, <4>1 DEF SlotAccounted, Armed, NoTrigger, SpecOf
    <3> QED BY <2>1, <3>1, <3>2, <3>3, <3>4 DEF TriggerSpec
  <2> QED BY <2>8, <2>9, <2>10 DEF TriggerInv
<1> QED BY <1>3, <1>4

(* The accounting is what the two properties say.                           *)
LEMMA AccountingSuffices ==
    ASSUME TriggerInv
    PROVE  UsesBounded /\ ArmedWhileUsesLeft
<1> USE NoneAssumption, TriggerAssumption
<1> SUFFICES ASSUME NEW s \in Slots, armedBy[s] # None,
                    TriggerSpecs[armedBy[s]].occurrence # "Duration"
             PROVE  LET n == Uses(TriggerSpecs[armedBy[s]]) IN
                    hits[s] <= n /\ (hits[s] < n => Armed(s)) /\ (Armed(s) => hits[s] < n \/ n = 0)
  BY DEF UsesBounded, ArmedWhileUsesLeft
<1> DEFINE spec == TriggerSpecs[armedBy[s]]
<1>1. spec \in TriggerSpec /\ hits[s] \in Nat /\ SlotAccounted(s)
  BY DEF TriggerInv, TriggerTypeOK
<1>2. spec.n \in Nat /\ spec.occurrence \in {"Once", "Times"}
  BY <1>1 DEF TriggerSpec
<1> QED BY <1>1, <1>2 DEF SlotAccounted, SpecOf, Uses

(* The accounting holds whatever order scans, checks and ticks come in.     *)
LEMMA TriggerInvariant == TriggerSpecification => [](ClockTypeOK /\ TriggerInv)
<1> DEFINE Inv == ClockTypeOK /\ TriggerInv
<1>1. TriggersAtStart => Inv
  BY NoneAssumption, MaxTimeAssumption DEF TriggersAtStart, ClockInit, ClockTypeOK, TriggerInit, TriggerInv,
     TriggerTypeOK, SlotAccounted, Armed, NoTrigger
<1>2. Inv /\ [TriggerNext]_<<now, triggerVars>> => Inv'
  <2> SUFFICES ASSUME Inv, [TriggerNext]_<<now, triggerVars>> PROVE Inv'
    OBVIOUS
  <2>1. CASE ArmTrigger
    BY <2>1, ActivateStep DEF ArmTrigger, ClockTypeOK
  <2>2. CASE CheckTrigger
    <3>1. now \in Nat
      BY MaxTimeAssumption DEF ClockTypeOK
    <3> QED BY <2>2, <3>1, UseStep DEF CheckTrigger, ClockTypeOK
  <2>3. CASE Tick /\ UNCHANGED triggerVars
    BY <2>3, MaxTimeAssumption DEF Tick, ClockTypeOK, triggerVars, TriggerInv, TriggerTypeOK,
       SlotAccounted, Armed, SpecOf
  <2>4. CASE UNCHANGED <<now, triggerVars>>
    BY <2>4 DEF ClockTypeOK, triggerVars, TriggerInv, TriggerTypeOK, SlotAccounted, Armed, SpecOf
  <2> QED BY <2>1, <2>2, <2>3, <2>4 DEF TriggerNext
<1> QED BY <1>1, <1>2, PTL DEF TriggerSpecification

(* A counted trigger answers TRUE at most as often as its specification     *)
(* allows for each scan that arms it, for any clients, specifications and   *)
(* order of scans and checks.                                               *)
THEOREM TriggerUsesAreCounted == TriggerSpecification => [](TriggerTypeOK /\ UsesBounded)
<1>1. TriggerInv => TriggerTypeOK /\ UsesBounded
  BY AccountingSuffices DEF TriggerInv
<1> QED BY <1>1, TriggerInvariant, PTL

(* A counted trigger stays armed until it has answered TRUE that often:     *)
(* checks for other triggers, early or late, never use it up.               *)
THEOREM TriggersStayArmed == TriggerSpecification => []ArmedWhileUsesLeft
<1>1. TriggerInv => ArmedWhileUsesLeft
  BY AccountingSuffices
<1> QED BY <1>1, TriggerInvariant, PTL

-----------------------------------------------------------------------------
(* The channel: what its queue holds after a send and after a receive.      *)
Held(q) == {q[i] : i \in DOMAIN q}
Distinct(q) == \A i, j \in DOMAIN q : q[i] = q[j] => i = j

(* Sending adds one connection to the queue, which stays free of duplicates *)
(* if the connection was not in it.                                         *)
LEMMA AppendHolds ==
    ASSUME NEW S, NEW q \in Seq(S), NEW x \in S, Distinct(q), x \notin Held(q)
    PROVE  Append(q, x) \in Seq(S) /\ Held(Append(q, x)) = Held(q) \cup {x} /\ Distinct(Append(q, x))
<1> DEFINE r == Append(q, x)
<1>1. r \in Seq(S) /\ Len(r) = Len(q) + 1 /\ DOMAIN r = 1..Len(r) /\ DOMAIN q = 1..Len(q)
      /\ Len(q) \in Nat
  OBVIOUS
<1>2. \A i \in 1..Len(q) : r[i] = q[i]
  OBVIOUS
<1>3. r[Len(q) + 1] = x
  OBVIOUS
<1> HIDE DEF r
<1>4. \A i \in DOMAIN r : i \in DOMAIN q \/ i = Len(q) + 1
  BY <1>1
<1>5. Held(r) = Held(q) \cup {x}
  <2>1. Held(r) \subseteq Held(q) \cup {x}
    BY <1>1, <1>2, <1>3, <1>4 DEF Held
  <2>2. Held(q) \subseteq Held(r)
    BY <1>1, <1>2 DEF Held
  <2>3. x \in Held(r)
    BY <1>1, <1>3 DEF Held
  <2> QED BY <2>1, <2>2, <2>3
<1>6. Distinct(r)
  BY <1>1, <1>2, <1>3, <1>4 DEF Distinct, Held
<1> QED BY <1>1, <1>5, <1>6 DEF r

(* Receiving takes the oldest connection out of the queue.                  *)
LEMMA TailHolds ==
    ASSUME NEW S, NEW q \in Seq(S), q # <<>>, Distinct(q)
    PROVE  /\ Tail(q) \in Seq(S) /\ Head(q) \in S /\ Head(q) \in Held(q)
           /\ Held(Tail(q)) = Held(q) \ {Head(q)} /\ Distinct(Tail(q))
<1> DEFINE r == Tail(q)
<1>1. r \in Seq(S) /\ Len(r) = Len(q) - 1 /\ DOMAIN r = 1..Len(r) /\ DOMAIN q = 1..Len(q)
      /\ Len(q) \in Nat /\ Len(q) > 0 /\ Head(q) = q[1] /\ Head(q) \in S
  OBVIOUS
<1>2. \A i \in 1..Len(r) : r[i] = q[i + 1]
  OBVIOUS
<1> HIDE DEF r
<1>3. Held(r) = Held(q) \ {Head(q)}
  <2>1. ASSUME NEW i \in DOMAIN r PROVE r[i] \in Held(q) \ {Head(q)}
    BY <1>1, <1>2 DEF Held, Distinct
  <2>2. ASSUME NEW i \in DOMAIN q, q[i] # Head(q) PROVE q[i] \in Held(r)
    <3>1. i - 1 \in DOMAIN r /\ r[i - 1] = q[i]
      BY <1>1, <1>2, <2>2
    <3> QED BY <3>1 DEF Held
  <2> QED BY <2>1, <2>2 DEF Held
<1>4. Distinct(r)
  <2> SUFFICES ASSUME NEW i \in DOMAIN r, NEW j \in DOMAIN r, r[i] = r[j] PROVE i = j
    BY DEF Distinct
  <2>1. i + 1 \in DOMAIN q /\ j + 1 \in DOMAIN q /\ q[i + 1] = q[j + 1]
    BY <1>1, <1>2
  <2> QED BY <1>1, <2>1 DEF Distinct
<1>5. Head(q) \in Held(q)
  BY <1>1 DEF Held
<1> QED BY <1>1, <1>3, <1>4, <1>5 DEF r

(* A request is a record of two fields, so it is not the absence of one.    *)
LEMMA RequestIsOne == \A r \in Request : r # NoRequest
BY DEF Request, NoRequest

-----------------------------------------------------------------------------
Busy == {"lookup", "accept", "waitState", "evaluate", "dedup", "apply"}

(* Ownership of requests is inductive once the handler's connection is tied *)
(* to the place the engine's task has reached.                              *)
OwnerInv ==
    /\ queue \in Seq(Conns)
    /\ request \in [Conns -> Request \cup {NoRequest}]
    /\ audioTasks \in SUBSET Conns
    /\ conn \in Conns \cup {None}
    /\ pc \in Busy \cup {"idle", "stopped"}
    /\ pc \in Busy <=> conn # None
    /\ RequestOwned

ownerVars == <<queue, request, audioTasks, conn, pc>>

(* The queue part of RequestOwned in the terms of the two lemmas above.     *)
LEMMA QueueHeld ==
    /\ Queued = Held(queue) /\ Queued' = Held(queue')
    /\ (\A i, j \in DOMAIN queue : queue[i] = queue[j] => i = j) <=> Distinct(queue)
    /\ (\A i, j \in DOMAIN queue' : queue'[i] = queue'[j] => i = j) <=> Distinct(queue')
BY DEF Queued, Held, Distinct

(* A connection that sends owns no request, so its new one is only queued.  *)
LEMMA SendOwner ==
    ASSUME OwnerInv, NEW c \in Conns, NEW r \in Requests, Send(c, r)
    PROVE  OwnerInv'
<1>1. r \in Request /\ r # NoRequest
  BY RequestIsOne, RequestsAssumption
<1>2. c \notin Held(queue) /\ Distinct(queue)
  BY DEF Send, OwnerInv, RequestOwned, Queued, Held, Distinct
<1>3. queue' \in Seq(Conns) /\ Held(queue') = Held(queue) \cup {c} /\ Distinct(queue')
  BY <1>2, AppendHolds DEF Send, OwnerInv
<1>4. audioTasks' = audioTasks /\ conn' = conn /\ pc' = pc
      /\ request' = [request EXCEPT ![c] = r] /\ request[c] = NoRequest
  BY DEF Send, engineVars, localVars
<1>5. {k \in Conns : request'[k] # NoRequest} = {k \in Conns : request[k] # NoRequest} \cup {c}
  BY <1>1, <1>4 DEF OwnerInv
<1>6. request' \in [Conns -> Request \cup {NoRequest}]
  BY <1>1, <1>4 DEF OwnerInv
<1>7. c \notin audioTasks /\ c # conn
  BY EngineAssumption, <1>4 DEF OwnerInv, RequestOwned, Handled
<1>8. RequestOwned'
  BY QueueHeld, <1>2, <1>3, <1>4, <1>5, <1>7 DEF OwnerInv, RequestOwned, Handled
<1> QED BY <1>3, <1>4, <1>6, <1>8 DEF OwnerInv

(* What receiving does to the queue.                                        *)
LEMMA ReceiveOwner ==
    ASSUME OwnerInv, NEW c \in Conns, NEW kind, Receive(c, kind)
    PROVE  /\ pc = "idle" /\ conn = None
           /\ queue' \in Seq(Conns) /\ Held(queue') = Held(queue) \ {c} /\ Distinct(queue')
           /\ c \in Held(queue) /\ c \notin audioTasks
<1>1. queue \in Seq(Conns) /\ queue # <<>> /\ Distinct(queue) /\ c = Head(queue) /\ queue' = Tail(queue)
  BY DEF Receive, OwnerInv, RequestOwned, Distinct
<1>2. /\ queue' \in Seq(Conns) /\ c \in Held(queue)
      /\ Held(queue') = Held(queue) \ {c} /\ Distinct(queue')
  BY <1>1, TailHolds
<1>3. pc = "idle" /\ conn = None
  BY DEF Receive, OwnerInv, Busy
<1>4. c \notin audioTasks
  BY <1>2 DEF OwnerInv, RequestOwned, Queued, Held
<1> QED BY <1>2, <1>3, <1>4

(* A request that is answered at once leaves the queue and is gone.         *)
LEMMA AnswerAtOnce ==
    ASSUME OwnerInv, NEW c \in Conns, NEW kind, NEW r, Receive(c, kind), Respond(c, r),
           UNCHANGED <<audioTasks, conn, pc>>
    PROVE  OwnerInv'
<1>1. /\ pc = "idle" /\ conn = None
      /\ queue' \in Seq(Conns) /\ Held(queue') = Held(queue) \ {c} /\ Distinct(queue')
      /\ c \in Held(queue) /\ c \notin audioTasks
  BY ReceiveOwner
<1>2. request' = [request EXCEPT ![c] = NoRequest]
  BY DEF Respond
<1>3. {k \in Conns : request'[k] # NoRequest} = {k \in Conns : request[k] # NoRequest} \ {c}
      /\ request' \in [Conns -> Request \cup {NoRequest}]
  BY <1>2 DEF OwnerInv
<1>4. RequestOwned'
  BY QueueHeld, <1>1, <1>3 DEF OwnerInv, RequestOwned, Handled
<1> QED BY <1>1, <1>3, <1>4 DEF OwnerInv

(* A bloop moves from the queue into the handler's hand.                    *)
LEMMA StartOwner ==
    ASSUME OwnerInv, NEW c \in Conns, StartBloop(c)
    PROVE  OwnerInv'
<1>1. /\ pc = "idle" /\ conn = None
      /\ queue' \in Seq(Conns) /\ Held(queue') = Held(queue) \ {c} /\ Distinct(queue')
      /\ c \in Held(queue) /\ c \notin audioTasks
  BY ReceiveOwner DEF StartBloop
<1>2. request' = request /\ audioTasks' = audioTasks /\ conn' = c /\ pc' = "lookup"
  BY DEF StartBloop
<1>3. c # None
  BY EngineAssumption
<1>4. RequestOwned'
  BY QueueHeld, <1>1, <1>2, <1>3 DEF OwnerInv, RequestOwned, Handled
<1> QED BY <1>1, <1>2, <1>3, <1>4 DEF OwnerInv, Busy

(* An audio request moves from the queue to a task of its own.              *)
LEMMA SpawnOwner ==
    ASSUME OwnerInv, NEW c \in Conns, SpawnAudio(c)
    PROVE  OwnerInv'
<1>1. /\ pc = "idle" /\ conn = None
      /\ queue' \in Seq(Conns) /\ Held(queue') = Held(queue) \ {c} /\ Distinct(queue')
      /\ c \in Held(queue) /\ c \notin audioTasks
  BY ReceiveOwner DEF SpawnAudio
<1>2. request' = request /\ audioTasks' = audioTasks \cup {c} /\ conn' = conn /\ pc' = pc
  BY DEF SpawnAudio, engineVars, localVars
<1>3. RequestOwned'
  BY QueueHeld, <1>1, <1>2 DEF OwnerInv, RequestOwned, Handled
<1> QED BY <1>1, <1>2, <1>3 DEF OwnerInv

(* The handler answers its bloop and lets go of it.                         *)
LEMMA FinishOwner ==
    ASSUME OwnerInv, NEW r, pc \in Busy, Respond(conn, r), BackToIdle, UNCHANGED <<queue, audioTasks>>
    PROVE  OwnerInv'
<1>1. conn \in Conns
  BY DEF OwnerInv
<1>2. request' = [request EXCEPT ![conn] = NoRequest] /\ conn' = None /\ pc' = "idle"
  BY DEF Respond, BackToIdle
<1>3. {k \in Conns : request'[k] # NoRequest} = {k \in Conns : request[k] # NoRequest} \ {conn}
      /\ request' \in [Conns -> Request \cup {NoRequest}]
  BY <1>1, <1>2 DEF OwnerInv
<1>4. RequestOwned'
  BY <1>1, <1>2, <1>3 DEF OwnerInv, RequestOwned, Queued, Handled
<1> QED BY <1>2, <1>3, <1>4 DEF OwnerInv, Busy

(* The handler goes on with its bloop.                                      *)
LEMMA GoOnOwner ==
    ASSUME OwnerInv, pc \in Busy, pc' \in Busy, UNCHANGED <<queue, request, audioTasks, conn>>
    PROVE  OwnerInv'
BY DEF OwnerInv, RequestOwned, Queued, Handled

(* An audio task answers and ends, also after the engine has gone.          *)
LEMMA ReadAudioOwner ==
    ASSUME OwnerInv, NEW c \in Conns, ReadAudio(c)
    PROVE  OwnerInv'
<1>1. /\ c \in audioTasks /\ audioTasks' = audioTasks \ {c}
      /\ request' = [request EXCEPT ![c] = NoRequest]
      /\ queue' = queue /\ conn' = conn /\ pc' = pc
  BY DEF ReadAudio, Respond, engineVars, localVars
<1>2. {k \in Conns : request'[k] # NoRequest} = {k \in Conns : request[k] # NoRequest} \ {c}
      /\ request' \in [Conns -> Request \cup {NoRequest}]
  BY <1>1 DEF OwnerInv
<1>3. RequestOwned'
  BY <1>1, <1>2 DEF OwnerInv, RequestOwned, Queued, Handled
<1> QED BY <1>1, <1>2, <1>3 DEF OwnerInv

(* Shutdown drops every request but those of the audio tasks.               *)
LEMMA ShutdownOwner ==
    ASSUME OwnerInv, Shutdown
    PROVE  OwnerInv'
<1>1. /\ queue' = <<>> /\ conn' = None /\ pc' = "stopped" /\ audioTasks' = audioTasks
      /\ request' = [c \in Conns |->
            IF c \in {k \in Conns \ audioTasks : request[k] # NoRequest} THEN NoRequest ELSE request[c]]
  BY DEF Shutdown
<1>2. {k \in Conns : request'[k] # NoRequest} = audioTasks
      /\ request' \in [Conns -> Request \cup {NoRequest}]
  BY <1>1 DEF OwnerInv, RequestOwned
<1>3. RequestOwned'
  BY <1>1, <1>2 DEF RequestOwned, Queued, Handled
<1> QED BY <1>1, <1>2, <1>3 DEF OwnerInv, Busy

(* Every step of the engine's task keeps ownership.                         *)
LEMMA EngineStepOwner ==
    ASSUME OwnerInv, EngineStep
    PROVE  OwnerInv'
<1>1. ASSUME NEW c \in Conns, ScanTrigger(c) \/ NoAudio(c) \/ PreloadCheck(c) PROVE OwnerInv'
  BY <1>1, AnswerAtOnce DEF ScanTrigger, NoAudio, PreloadCheck, engineVars, localVars
<1>2. ASSUME NEW c \in Conns, StartBloop(c) PROVE OwnerInv'
  BY <1>2, StartOwner
<1>3. ASSUME NEW c \in Conns, SpawnAudio(c) PROVE OwnerInv'
  BY <1>3, SpawnOwner
<1>4. CASE Lookup
  <2>1. pc \in Busy
    BY <1>4 DEF Lookup, Busy
  <2>2. CASE Respond(conn, [kind |-> "UnknownNfcUid"]) /\ BackToIdle
    BY <1>4, <2>1, <2>2, FinishOwner DEF Lookup
  <2>3. CASE pc' = "accept" /\ UNCHANGED <<request, conn>>
    <3>1. pc' \in Busy
      BY <2>3 DEF Busy
    <3> QED BY <1>4, <2>1, <2>3, <3>1, GoOnOwner DEF Lookup
  <2> QED BY <1>4, <2>2, <2>3 DEF Lookup
<1>5. CASE Throttled
  <2>1. pc \in Busy
    BY <1>5 DEF Throttled, Busy
  <2> QED BY <1>5, <2>1, FinishOwner DEF Throttled
<1>6. CASE ApplyAwarded
  <2>1. pc \in Busy
    BY <1>6 DEF ApplyAwarded, Busy
  <2> QED BY <1>6, <2>1, FinishOwner DEF ApplyAwarded
<1>7. CASE \/ Accept \/ LockState \/ FinishEvaluation \/ RemoveDuplicates
           \/ \E a \in Aids : EvaluateTrigger(a) \/ EvaluateMinBloops(a) \/ EvaluateOther(a)
  <2>1. pc \in Busy /\ pc' \in Busy /\ UNCHANGED <<queue, request, audioTasks, conn>>
    BY <1>7 DEF Accept, LockState, FinishEvaluation, RemoveDuplicates, EvaluateTrigger,
       EvaluateMinBloops, EvaluateOther, connVars, localVars, Busy
  <2> QED BY <2>1, GoOnOwner
<1> QED BY <1>1, <1>2, <1>3, <1>4, <1>5, <1>6, <1>7 DEF EngineStep

(* Every step of the system keeps ownership.                                *)
LEMMA OwnerStep ==
    ASSUME OwnerInv, [Next]_vars
    PROVE  OwnerInv'
<1>1. CASE UNCHANGED ownerVars
  BY <1>1 DEF ownerVars, OwnerInv, RequestOwned, Queued, Handled
<1>2. CASE AppNext \/ EngineTick \/ UNCHANGED vars
  <2>1. UNCHANGED ownerVars
    BY <1>2 DEF AppNext, AppLockRegistry, AppUnlockRegistry, AppLockState, AppUnlockState, AppCall,
       EngineTick, vars, connVars, engineVars, localVars, ownerVars
  <2> QED BY <1>1, <2>1
<1>3. CASE \E c \in Conns, r \in Requests : Send(c, r)
  BY <1>3, SendOwner
<1>4. CASE \E c \in Conns : ReadAudio(c)
  BY <1>4, ReadAudioOwner
<1> QED BY <1>2, <1>3, <1>4, EngineStepOwner, ShutdownOwner DEF Next

(* Every request is in exactly one hand: nobody waits on a forgotten sender *)
(* and nobody is answered twice, through early returns, audio tasks and     *)
(* shutdown, for any number of connections and any queue.                   *)
THEOREM RequestsAreOwned == Spec => []RequestOwned
<1>1. EngineInit => OwnerInv
  BY EngineAssumption DEF EngineInit, OwnerInv, RequestOwned, Queued, Handled, Busy
<1>2. OwnerInv /\ [Next]_vars => OwnerInv'
  BY OwnerStep
<1>3. OwnerInv => RequestOwned
  BY DEF OwnerInv
<1> QED BY <1>1, <1>2, <1>3, PTL DEF Spec

-----------------------------------------------------------------------------
Scan == [kind: {"Bloop"}, uid: Uids]

(* The types of the handler's state, and what is known of it at each place: *)
(* the player looked up exists as long as the handler holds its Arc, even   *)
(* if the registry has forgotten it.                                        *)
ValuesOK ==
    /\ ClockTypeOK
    /\ todo \in SUBSET Aids
    /\ tracker \in [Pids -> SUBSET Aids]
    /\ hot \in SUBSET HotAchievement
    /\ evaluated \in SUBSET Evaluated
ScanOK == pc = "lookup" => request[conn] \in Scan
PlayerOK == pc \in Busy \ {"lookup"} => player \in Objs /\ heap[player] # None
BloopOK == pc \in Late => bloop \in Bloop /\ bloop.at <= now

HandlerInv == OwnerInv /\ RegistryInv /\ ValuesOK /\ ScanOK /\ PlayerOK /\ BloopOK

-----------------------------------------------------------------------------
(* Counting a bloop touches only the count of one player.                   *)
LEMMA AcceptRegistry ==
    ASSUME HandlerInv, Accept
    PROVE  RegistryInv' /\ \A o \in Objs : heap[o] # None => heap'[o] # None
<1> USE RegistryAssumption DEF RegistryInv, RegistryTypeOK, LookupSound
<1>1. player \in Objs /\ heap[player] \in Player
  BY DEF HandlerInv, PlayerOK, Accept, Busy
<1>2. PICK new \in Player : /\ new = [heap[player] EXCEPT !.bloops = @ + 1]
                            /\ new.id = heap[player].id /\ new.uid = heap[player].uid
  <2>1. heap[player].bloops + 1 \in Nat
    BY <1>1 DEF Player
  <2> DEFINE n == [heap[player] EXCEPT !.bloops = @ + 1]
  <2>2. n \in Player
    BY <1>1, <2>1 DEF Player
  <2>3. n.id = heap[player].id /\ n.uid = heap[player].uid
    BY <1>1 DEF Player
  <2> QED BY <2>2, <2>3
<1>3. heap' = [heap EXCEPT ![player] = new] /\ byId' = byId /\ byUid' = byUid
  BY <1>2 DEF Accept
<1>4. heap'[player] = new /\ new # None /\ \A o \in Objs \ {player} : heap'[o] = heap[o]
  BY <1>1, <1>2, <1>3 DEF HandlerInv
<1>5. RegistryTypeOK'
  BY <1>1, <1>2, <1>3 DEF HandlerInv
<1>6. ASSUME NEW o \in Objs, heap[o] # None
      PROVE  heap'[o] # None /\ heap'[o].id = heap[o].id /\ heap'[o].uid = heap[o].uid
  BY <1>2, <1>4, <1>6
<1> QED BY <1>3, <1>5, <1>6 DEF HandlerInv

(* Applying awards touches only the awards of players.                      *)
LEMMA ApplyRegistry ==
    ASSUME HandlerInv, ApplyAwarded
    PROVE  RegistryInv' /\ \A o \in Objs : heap[o] # None => heap'[o] # None
<1> USE RegistryAssumption DEF RegistryInv, RegistryTypeOK, LookupSound
<1>1. heap' = [o \in Objs |->
                 IF heap[o] # None /\ byId[heap[o].id] = o
                 THEN [heap[o] EXCEPT !.awarded = @ \cup tracker[heap[o].id]]
                 ELSE heap[o]]
      /\ byId' = byId /\ byUid' = byUid
  BY DEF ApplyAwarded, Granted
<1>2. ASSUME NEW o \in Objs, heap[o] # None
      PROVE  heap'[o] \in Player /\ heap'[o].id = heap[o].id /\ heap'[o].uid = heap[o].uid
  <2>1. heap[o] \in Player
    BY <1>2 DEF HandlerInv
  <2>2. tracker[heap[o].id] \in SUBSET Aids
    BY <2>1 DEF HandlerInv, ValuesOK, Player
  <2>3. CASE heap'[o] = heap[o]
    BY <2>1, <2>3
  <2>4. CASE heap'[o] = [heap[o] EXCEPT !.awarded = @ \cup tracker[heap[o].id]]
    BY <2>1, <2>2, <2>4 DEF Player
  <2> QED BY <1>1, <2>3, <2>4
<1>3. \A o \in Objs : heap[o] = None => heap'[o] = None
  BY <1>1
<1>4. RegistryTypeOK'
  BY <1>1, <1>2, <1>3 DEF HandlerInv
<1> QED BY <1>1, <1>2, <1>4 DEF HandlerInv

(* The application's calls are calls of the registry.                       *)
LEMMA AppRegistry ==
    ASSUME HandlerInv, AppCall
    PROVE  RegistryInv' /\ \A o \in Objs : heap[o] # None => heap'[o] # None /\ heap'[o].id = heap[o].id
<1> USE RegistryAssumption
<1>1. RegistryNext
  BY DEF AppCall
<1>2. RegistryInv'
  BY <1>1, RegistryStep DEF HandlerInv
<1>3. ASSUME NEW o \in Objs, heap[o] # None PROVE heap'[o] # None /\ heap'[o].id = heap[o].id
  <2>1. CASE \E p \in AppPlayers : RegistryAdd(p)
    BY <1>3, <2>1 DEF RegistryAdd, HandlerInv, RegistryInv, RegistryTypeOK
  <2>2. CASE \E p \in AppPlayers : MutateById(p)
    <3>1. PICK p \in AppPlayers : MutateById(p)
      BY <2>2
    <3>2. p \in Player /\ p # None /\ p.id \in Pids
      BY DEF Player
    <3>3. byId[p.id] \in Objs /\ heap[byId[p.id]].id = p.id
      BY <3>1, <3>2 DEF MutateById, HandlerInv, RegistryInv, RegistryTypeOK, LookupSound
    <3>4. heap' = [heap EXCEPT ![byId[p.id]] = p] /\ heap \in [Objs -> Player \cup {None}]
      BY <3>1 DEF MutateById, HandlerInv, RegistryInv, RegistryTypeOK
    <3> QED BY <1>3, <3>2, <3>3, <3>4
  <2>3. CASE \E id \in Pids : RegistryRemove(id)
    BY <1>3, <2>3 DEF RegistryRemove
  <2> QED BY <1>1, <2>1, <2>2, <2>3 DEF RegistryNext
<1> QED BY <1>2, <1>3

(* The registry stays sound and no player object ever disappears, whatever  *)
(* the engine and the application do.                                       *)
LEMMA RegistryKept ==
    ASSUME HandlerInv, [Next]_vars
    PROVE  RegistryInv' /\ \A o \in Objs : heap[o] # None => heap'[o] # None
<1>1. CASE UNCHANGED registryVars
  BY <1>1 DEF registryVars, HandlerInv, RegistryInv, RegistryTypeOK, LookupSound
<1>2. \/ Accept \/ ApplyAwarded \/ AppCall
      \/ UNCHANGED registryVars
  BY DEF Next, Send, EngineStep, ScanTrigger, StartBloop, NoAudio, SpawnAudio, PreloadCheck, Lookup,
     Throttled, LockState, EvaluateTrigger, EvaluateMinBloops, EvaluateOther, FinishEvaluation, RemoveDuplicates,
     ReadAudio, Shutdown, AppNext, AppLockRegistry, AppUnlockRegistry, AppLockState, AppUnlockState,
     EngineTick, vars
<1> QED BY <1>1, <1>2, AcceptRegistry, ApplyRegistry, AppRegistry
-----------------------------------------------------------------------------
(* An evaluator's decision keeps the types of the tracker and the history.  *)
LEMMA AwardValues ==
    ASSUME HandlerInv, pc = "evaluate", NEW a \in Aids, NEW to \in SUBSET Pids, Award(a, to)
    PROVE  /\ todo' \in SUBSET Aids
           /\ tracker' \in [Pids -> SUBSET Aids]
           /\ evaluated' \in SUBSET Evaluated
           /\ evaluated \subseteq evaluated'
<1> DEFINE e == [id |-> a, client |-> bloop.client, at |-> bloop.at, by |-> bloop.pid, to |-> to]
<1>1. bloop \in Bloop
  BY DEF HandlerInv, BloopOK, Late
<1>2. e \in Evaluated
  BY <1>1 DEF Bloop, Evaluated
<1>3. evaluated' \in {evaluated, evaluated \cup {e}}
  BY DEF Award
<1> HIDE DEF e
<1>4. todo' \in SUBSET Aids /\ tracker' \in [Pids -> SUBSET Aids]
  BY DEF Award, HandlerInv, ValuesOK
<1> QED BY <1>2, <1>3, <1>4 DEF HandlerInv, ValuesOK

(* What becomes hot and what is injected are achievements.                  *)
LEMMA HotValues ==
    ASSUME HandlerInv, pc = "evaluate", HotStep
    PROVE  hot' \in SUBSET HotAchievement /\ tracker' \in [Pids -> SUBSET Aids]
<1>1. bloop \in Bloop /\ bloop.pid \in Pids /\ bloop.client \in Clients /\ bloop.at \in Nat
  BY MaxTimeAssumption DEF HandlerInv, BloopOK, Late, Bloop
<1>2. tracker \in [Pids -> SUBSET Aids] /\ hot \in SUBSET HotAchievement
  BY DEF HandlerInv, ValuesOK
<1>3. Activated \in SUBSET HotAchievement
  BY <1>1, <1>2, EngineAssumption DEF Activated, HotAchievement
<1>4. \A h \in HotAchievement : h.id \in Aids
  BY DEF HotAchievement
<1>5. Injected(hot \cup Activated) \in SUBSET Aids
  BY <1>2, <1>3, <1>4 DEF Injected, Retained
<1> QED BY <1>1, <1>2, <1>3, <1>5 DEF HotStep, Retained

(* The types of the handler's values.                                       *)
LEMMA ValuesKept ==
    ASSUME HandlerInv, [Next]_vars
    PROVE  ValuesOK' /\ now <= now'
<1> USE DEF HandlerInv, ValuesOK, ClockTypeOK
<1>1. now \in Nat
  BY MaxTimeAssumption
<1>2. CASE UNCHANGED <<now, todo, tracker, hot, evaluated>>
  BY <1>1, <1>2
<1>3. CASE EngineTick
  BY <1>1, <1>3, MaxTimeAssumption DEF EngineTick, Tick, engineVars, localVars, historyVars
<1>4. CASE \E a \in Aids : EvaluateTrigger(a) \/ EvaluateMinBloops(a) \/ EvaluateOther(a)
  <2>1. PICK a \in Aids : EvaluateTrigger(a) \/ EvaluateMinBloops(a) \/ EvaluateOther(a)
    BY <1>4
  <2>2. PICK to \in SUBSET Pids : Award(a, to)
    <3>1. bloop.pid \in Pids /\ pc = "evaluate"
      BY <2>1 DEF EvaluateTrigger, EvaluateMinBloops, EvaluateOther, BloopOK, Late, Bloop
    <3> QED BY <2>1, <3>1 DEF EvaluateTrigger, EvaluateMinBloops, EvaluateOther
  <2>3. pc = "evaluate" /\ now' = now /\ hot' = hot
    BY <2>1 DEF EvaluateTrigger, EvaluateMinBloops, EvaluateOther
  <2> QED BY <1>1, <2>2, <2>3, AwardValues
<1>5. CASE FinishEvaluation
  <2>1. pc = "evaluate" /\ now' = now /\ todo' = todo /\ evaluated' = evaluated /\ HotStep
    BY <1>5 DEF FinishEvaluation, historyVars
  <2> QED BY <1>1, <2>1, HotValues
<1>6. CASE RemoveDuplicates
  BY <1>1, <1>6 DEF RemoveDuplicates, historyVars
<1>7. CASE Accept
  BY <1>1, <1>7 DEF Accept, historyVars, NoAwards
<1>8. CASE Lookup \/ Throttled \/ ApplyAwarded \/ Shutdown
  BY <1>1, <1>8 DEF Lookup, Throttled, ApplyAwarded, Shutdown, BackToIdle, historyVars, NoAwards
<1>9. CASE \/ \E c \in Conns, r \in Requests : Send(c, r)
           \/ \E c \in Conns : \/ ScanTrigger(c) \/ StartBloop(c) \/ NoAudio(c) \/ SpawnAudio(c)
                               \/ PreloadCheck(c) \/ ReadAudio(c)
           \/ LockState \/ AppNext \/ UNCHANGED vars
  <2>1. UNCHANGED <<now, todo, tracker, hot, evaluated>>
    BY <1>9 DEF Send, ScanTrigger, StartBloop, NoAudio, SpawnAudio, PreloadCheck, ReadAudio, LockState,
       AppNext, AppLockRegistry, AppUnlockRegistry, AppLockState, AppUnlockState, AppCall,
       engineVars, localVars, historyVars, vars
  <2> QED BY <1>2, <2>1
<1> QED BY <1>3, <1>4, <1>5, <1>6, <1>7, <1>8, <1>9 DEF Next, EngineStep

(* What is known at each place of the handler.                              *)
LEMMA PlacesKept ==
    ASSUME HandlerInv, [Next]_vars, OwnerInv'
    PROVE  ScanOK' /\ PlayerOK' /\ BloopOK'
<1> USE DEF ScanOK, PlayerOK, BloopOK, Late, Busy
<1>1. /\ \A o \in Objs : heap[o] # None => heap'[o] # None
      /\ now \in Nat /\ now' \in Nat /\ now <= now'
  BY RegistryKept, ValuesKept, MaxTimeAssumption DEF HandlerInv, ValuesOK, ClockTypeOK
<1>2. CASE UNCHANGED <<pc, conn, player, bloop>> /\ (pc = "lookup" => request'[conn] = request[conn])
  BY <1>1, <1>2 DEF HandlerInv, Bloop
<1>3. CASE pc' \in {"idle", "stopped"}
  BY <1>3
<1>4. ASSUME NEW c \in Conns, StartBloop(c) PROVE ScanOK' /\ PlayerOK' /\ BloopOK'
  <2>1. c \in Held(queue) /\ request[c].kind = "Bloop"
    BY <1>4, ReceiveOwner DEF StartBloop, Receive, HandlerInv
  <2>2. request[c] \in Request
    BY <2>1, QueueHeld DEF HandlerInv, OwnerInv, RequestOwned
  <2>3. request[c] \in Scan
    BY <2>1, <2>2 DEF Request, Scan
  <2> QED BY <1>4, <2>3 DEF StartBloop
<1>5. ASSUME NEW c \in Conns, NEW r \in Requests, Send(c, r) PROVE ScanOK' /\ PlayerOK' /\ BloopOK'
  <2>1. pc = "lookup" => c # conn
    BY <1>5 DEF Send, HandlerInv, OwnerInv, RequestOwned, Handled
  <2>2. UNCHANGED <<pc, conn, player, bloop>> /\ request' = [request EXCEPT ![c] = r]
    BY <1>5 DEF Send, engineVars, localVars
  <2> QED BY <1>2, <2>1, <2>2 DEF HandlerInv, OwnerInv
<1>6. ASSUME NEW c \in Conns, ReadAudio(c) PROVE ScanOK' /\ PlayerOK' /\ BloopOK'
  <2>1. pc = "lookup" => c # conn
    BY <1>6 DEF ReadAudio, HandlerInv, OwnerInv, RequestOwned, Handled
  <2>2. UNCHANGED <<pc, conn, player, bloop>> /\ request' = [request EXCEPT ![c] = NoRequest]
    BY <1>6 DEF ReadAudio, Respond, engineVars, localVars
  <2> QED BY <1>2, <2>1, <2>2 DEF HandlerInv, OwnerInv
<1>7. CASE Lookup
  <2>1. CASE pc' = "idle"
    BY <1>3, <2>1
  <2>2. CASE pc' = "accept" /\ player' = byUid[request[conn].uid] /\ byUid[request[conn].uid] # None
    <3>1. request[conn].uid \in Uids
      BY <1>7 DEF Lookup, HandlerInv, Scan
    <3>2. byUid[request[conn].uid] \in Objs /\ heap[byUid[request[conn].uid]] # None
      BY <2>2, <3>1 DEF HandlerInv, RegistryInv, RegistryTypeOK, LookupSound
    <3> QED BY <1>1, <2>2, <3>2
  <2> QED BY <1>7, <2>1, <2>2 DEF Lookup, BackToIdle, GetByNfcUid
<1>8. CASE Accept
  <2>1. player \in Objs /\ heap[player] \in Player
    BY <1>8 DEF Accept, HandlerInv, RegistryInv, RegistryTypeOK
  <2>2. conn \in Conns
    BY <1>8 DEF Accept, HandlerInv, OwnerInv
  <2>3. bloop' \in Bloop /\ bloop'.at = now /\ now' = now
    BY <1>8, <2>1, <2>2, EngineAssumption DEF Accept, Bloop, Player, HandlerInv, ValuesOK, ClockTypeOK
  <2>4. player' = player /\ pc' = "waitState"
    BY <1>8 DEF Accept
  <2> QED BY <1>1, <2>1, <2>3, <2>4, RegistryAssumption
<1>9. CASE \/ LockState \/ FinishEvaluation \/ RemoveDuplicates
           \/ \E a \in Aids : EvaluateTrigger(a) \/ EvaluateMinBloops(a) \/ EvaluateOther(a)
  <2>1. pc \in Late /\ pc' \in Late /\ UNCHANGED <<player, bloop, now>>
    BY <1>9 DEF LockState, FinishEvaluation, RemoveDuplicates, EvaluateTrigger, EvaluateMinBloops,
       EvaluateOther, localVars
  <2> QED BY <1>1, <2>1 DEF HandlerInv
<1>10. CASE Throttled \/ ApplyAwarded \/ Shutdown
  BY <1>3, <1>10 DEF Throttled, ApplyAwarded, Shutdown, BackToIdle
<1>11. CASE \E c \in Conns : ScanTrigger(c) \/ NoAudio(c) \/ SpawnAudio(c) \/ PreloadCheck(c)
  BY <1>3, <1>11 DEF ScanTrigger, NoAudio, SpawnAudio, PreloadCheck, Receive, engineVars
<1>12. CASE AppNext \/ EngineTick \/ UNCHANGED vars
  <2>1. UNCHANGED <<pc, conn, player, bloop, request>>
    BY <1>12 DEF AppNext, AppLockRegistry, AppUnlockRegistry, AppLockState, AppUnlockState, AppCall,
       EngineTick, connVars, engineVars, localVars, vars
  <2> QED BY <1>2, <2>1
<1> QED BY <1>4, <1>5, <1>6, <1>7, <1>8, <1>9, <1>10, <1>11, <1>12 DEF Next, EngineStep

(* Every step keeps what is known of the handler.                           *)
LEMMA HandlerStep ==
    ASSUME HandlerInv, [Next]_vars
    PROVE  HandlerInv'
BY OwnerStep, RegistryKept, ValuesKept, PlacesKept DEF HandlerInv

(* The registry starts sound, whichever players are loaded.                 *)
LEMMA HandlerInit ==
    ASSUME EngineInit
    PROVE  HandlerInv
<1>1. OwnerInv
  BY EngineAssumption DEF EngineInit, OwnerInv, RequestOwned, Queued, Handled, Busy
<1>2. ASSUME NEW o \in DOMAIN Loaded
      PROVE  heap[o] \in Player /\ heap[o].id = Loaded[o].id /\ heap[o].uid = Loaded[o].uid
  BY <1>2, EngineAssumption DEF EngineInit, RegistryLoaded
<1>3. \A o \in Objs \ DOMAIN Loaded : heap[o] = None
  BY DEF EngineInit, RegistryLoaded
<1>4. RegistryTypeOK
  BY <1>2, <1>3, EngineAssumption DEF EngineInit, RegistryLoaded, RegistryTypeOK
<1>5. ASSUME NEW i \in Pids, byId[i] # None PROVE heap[byId[i]] # None /\ heap[byId[i]].id = i
  <2>1. byId[i] \in DOMAIN Loaded /\ Loaded[byId[i]].id = i
    BY <1>5 DEF EngineInit, RegistryLoaded
  <2> QED BY <1>2, <2>1, RegistryAssumption
<1>6. ASSUME NEW u \in Uids, byUid[u] # None PROVE heap[byUid[u]] # None /\ heap[byUid[u]].uid = u
  <2>1. byUid[u] \in DOMAIN Loaded /\ Loaded[byUid[u]].uid = u
    BY <1>6 DEF EngineInit, RegistryLoaded
  <2> QED BY <1>2, <2>1, RegistryAssumption
<1>7. ValuesOK /\ ScanOK /\ PlayerOK /\ BloopOK
  BY MaxTimeAssumption DEF EngineInit, ProviderInit, ClockTypeOK, ValuesOK, ScanOK, PlayerOK, BloopOK,
     NoAwards, Late, Busy
<1> QED BY <1>1, <1>4, <1>5, <1>6, <1>7 DEF HandlerInv, RegistryInv, LookupSound

-----------------------------------------------------------------------------
(* An evaluator decided, for the present bloop, that p gets a.              *)
Decided(p, a) ==
    \E e \in evaluated :
        /\ e.id = a /\ e.client = bloop.client /\ e.at = bloop.at /\ e.by = bloop.pid
        /\ p \in e.to

(* A hot achievement comes from the player of an earlier bloop at its       *)
(* client who won it.                                                       *)
Origin(h) ==
    \E e \in evaluated :
        /\ e.id = h.id /\ e.client = h.client /\ e.by \in e.to
        /\ h.until = e.at + HotDuration[h.id]

(* No decision is newer than the bloop being handled.                       *)
DecisionsPast ==
    /\ \A e \in evaluated : e.at <= now
    /\ pc \in Late => \A e \in evaluated : e.at <= bloop.at

AwardInv ==
    /\ DecisionsPast
    /\ \A h \in hot : h.id \in HotAids /\ Origin(h)
    /\ pc = "waitState" => tracker = NoAwards
    /\ pc = "evaluate" => \A p \in Pids : \A a \in tracker[p] : Decided(p, a)
    /\ AwardsJustified

(* The history of decisions only grows.                                     *)
LEMMA OriginKept ==
    ASSUME AwardInv, hot' = hot, evaluated \subseteq evaluated'
    PROVE  (\A h \in hot : h.id \in HotAids /\ Origin(h))'
BY DEF AwardInv, Origin

(* One evaluation adds what it decided.                                     *)
LEMMA EvaluateJustified ==
    ASSUME HandlerInv, AwardInv, NEW a \in Aids,
           EvaluateTrigger(a) \/ EvaluateMinBloops(a) \/ EvaluateOther(a)
    PROVE  AwardInv'
<1>1. pc = "evaluate" /\ pc' = "evaluate" /\ bloop' = bloop /\ hot' = hot /\ now' = now
      /\ bloop \in Bloop /\ bloop.pid \in Pids
  BY DEF EvaluateTrigger, EvaluateMinBloops, EvaluateOther, HandlerInv, BloopOK, Late, Bloop
<1>2. PICK to \in SUBSET Pids : Award(a, to)
  BY <1>1 DEF EvaluateTrigger, EvaluateMinBloops, EvaluateOther
<1>3. evaluated \subseteq evaluated'
  BY <1>1, <1>2, AwardValues
<1>4. (\A h \in hot : h.id \in HotAids /\ Origin(h))'
  BY <1>1, <1>3, OriginKept
<1>5. ASSUME NEW p \in Pids, NEW b \in tracker'[p] PROVE Decided(p, b)'
  <2>1. CASE b \in tracker[p]
    <3>1. Decided(p, b)
      BY <1>1, <2>1 DEF AwardInv
    <3> QED BY <1>1, <1>3, <3>1 DEF Decided
  <2>2. CASE b \notin tracker[p]
    <3> DEFINE e == [id |-> a, client |-> bloop.client, at |-> bloop.at, by |-> bloop.pid, to |-> to]
    <3>1. p \in to /\ b = a
      BY <1>2, <1>5, <2>2 DEF Award
    <3>2. e \in evaluated'
      BY <1>2, <3>1 DEF Award
    <3> QED BY <1>1, <3>1, <3>2 DEF Decided
  <2> QED BY <2>1, <2>2
<1>6. AwardsJustified'
  BY <1>1 DEF AwardsJustified
<1>7. DecisionsPast'
  <2>1. bloop.at \in Nat /\ bloop.at <= now
    BY <1>1, MaxTimeAssumption DEF HandlerInv, BloopOK, Late, Bloop
  <2>2. \A e \in evaluated' : e \in evaluated \/ e.at = bloop.at
    BY <1>2 DEF Award
  <2>3. \A e \in evaluated : e.at <= now /\ e.at <= bloop.at
    BY <1>1 DEF AwardInv, DecisionsPast, Late
  <2> QED BY <1>1, <2>1, <2>2, <2>3 DEF DecisionsPast
<1> QED BY <1>1, <1>4, <1>5, <1>6, <1>7 DEF AwardInv

(* Activation comes before injection: what is activated was decided for     *)
(* this bloop, what is injected for this or an earlier one within its hot   *)
(* duration.                                                                *)
LEMMA FinishJustified ==
    ASSUME HandlerInv, AwardInv, FinishEvaluation
    PROVE  AwardInv'
<1>1. pc = "evaluate" /\ pc' = "dedup" /\ bloop' = bloop /\ evaluated' = evaluated /\ now' = now
      /\ HotStep
  BY DEF FinishEvaluation, historyVars
<1>2. bloop \in Bloop /\ bloop.pid \in Pids /\ bloop.at \in Nat /\ bloop.at <= now /\ now \in Nat
  BY <1>1, MaxTimeAssumption DEF HandlerInv, BloopOK, Late, Bloop, ValuesOK, ClockTypeOK
<1>3. ASSUME NEW h \in hot \cup Activated PROVE h.id \in HotAids /\ Origin(h)
  <2>1. CASE h \in hot
    BY <2>1 DEF AwardInv
  <2>2. CASE h \in Activated
    <3>1. PICK a \in tracker[bloop.pid] \cap HotAids :
            h = [id |-> a, client |-> bloop.client, until |-> bloop.at + HotDuration[a]]
      BY <2>2 DEF Activated
    <3>2. Decided(bloop.pid, a)
      BY <1>1, <1>2, <3>1 DEF AwardInv
    <3> QED BY <3>1, <3>2 DEF Decided, Origin
  <2> QED BY <2>1, <2>2
<1>4. (\A h \in hot : h.id \in HotAids /\ Origin(h))'
  <2>1. \A h \in hot' : h \in hot \cup Activated
    BY <1>1 DEF HotStep, Retained
  <2> QED BY <1>1, <1>3, <2>1 DEF Origin
<1>5. ASSUME NEW p \in Pids, NEW a \in tracker'[p]
      PROVE  \E e \in evaluated :
                /\ e.id = a /\ e.client = bloop.client
                /\ \/ e.at = bloop.at /\ p \in e.to
                   \/ /\ p = bloop.pid /\ e.by \in e.to /\ a \in HotAids
                      /\ e.at <= bloop.at /\ bloop.at <= e.at + HotDuration[a]
  <2>1. CASE a \in tracker[p]
    BY <1>1, <2>1 DEF AwardInv, Decided
  <2>2. CASE a \notin tracker[p]
    <3>1. p = bloop.pid /\ a \in Injected(hot \cup Activated)
      BY <1>1, <1>2, <1>5, <2>2 DEF HotStep, HandlerInv, ValuesOK
    <3>2. PICK h \in hot \cup Activated : h.id = a /\ h.client = bloop.client /\ h.until >= bloop.at
      BY <3>1 DEF Injected, Retained
    <3>3. PICK e \in evaluated :
            /\ e.id = h.id /\ e.client = h.client /\ e.by \in e.to
            /\ h.until = e.at + HotDuration[h.id]
      BY <1>3 DEF Origin
    <3>4. a \in HotAids /\ bloop.at <= e.at + HotDuration[a]
      <4>1. h.until \in Nat
        <5>1. e.at \in Nat /\ e.id \in Aids
          BY MaxTimeAssumption DEF HandlerInv, ValuesOK, Evaluated
        <5> QED BY <3>3, <5>1, EngineAssumption
      <4> QED BY <1>2, <1>3, <3>2, <3>3, <4>1
    <3>5. e.at <= bloop.at
      BY <1>1 DEF AwardInv, DecisionsPast, Late
    <3> QED BY <3>1, <3>2, <3>3, <3>4, <3>5
  <2> QED BY <2>1, <2>2
<1>6. AwardsJustified'
  BY <1>1, <1>5 DEF AwardsJustified
<1>7. DecisionsPast'
  BY <1>1 DEF AwardInv, DecisionsPast, Late
<1> QED BY <1>1, <1>4, <1>6, <1>7 DEF AwardInv

(* remove_duplicates only takes awards away.                                *)
LEMMA DedupJustified ==
    ASSUME HandlerInv, AwardInv, RemoveDuplicates
    PROVE  AwardInv'
<1>1. pc = "dedup" /\ pc' = "apply" /\ bloop' = bloop /\ evaluated' = evaluated /\ hot' = hot
      /\ now' = now
  BY DEF RemoveDuplicates, historyVars
<1>2. \A p \in Pids : tracker'[p] \subseteq tracker[p]
  BY DEF RemoveDuplicates
<1>3. AwardsJustified'
  BY <1>1, <1>2 DEF AwardInv, AwardsJustified
<1>4. DecisionsPast'
  BY <1>1 DEF AwardInv, DecisionsPast, Late
<1> QED BY <1>1, <1>3, <1>4, OriginKept DEF AwardInv

(* The other steps leave decisions and hot achievements alone, or forget    *)
(* the bloop.                                                               *)
LEMMA RestJustified ==
    ASSUME HandlerInv, AwardInv, [Next]_vars, HandlerInv',
           ~FinishEvaluation, ~RemoveDuplicates,
           \A a \in Aids : ~EvaluateTrigger(a) /\ ~EvaluateMinBloops(a) /\ ~EvaluateOther(a)
    PROVE  AwardInv'
<1>1. evaluated' = evaluated /\ hot' \in {hot, {}} /\ (now' = now \/ now' = now + 1) /\ now \in Nat
  <2>1. now \in Nat
    BY MaxTimeAssumption DEF HandlerInv, ValuesOK, ClockTypeOK
  <2>2. evaluated' = evaluated /\ hot' \in {hot, {}} /\ (now' = now \/ now' = now + 1)
    BY DEF Next, Send, EngineStep, ScanTrigger, StartBloop, NoAudio, SpawnAudio, PreloadCheck, Lookup,
     Throttled, Accept, LockState, ApplyAwarded, ReadAudio, Shutdown, AppNext, AppLockRegistry,
     AppUnlockRegistry, AppLockState, AppUnlockState, AppCall, EngineTick, Tick, vars, engineVars,
     historyVars
  <2> QED BY <2>1, <2>2
<1>2. \A e \in evaluated : e.at \in Nat /\ e.at <= now
  BY MaxTimeAssumption DEF HandlerInv, ValuesOK, Evaluated, AwardInv, DecisionsPast
<1>3. \A e \in evaluated' : e.at <= now'
  BY <1>1, <1>2
<1>4. (\A h \in hot : h.id \in HotAids /\ Origin(h))'
  BY <1>1 DEF AwardInv, Origin
<1>5. CASE UNCHANGED <<pc, bloop, tracker>>
  BY <1>1, <1>3, <1>4, <1>5 DEF AwardInv, DecisionsPast, AwardsJustified, Decided
<1>6. CASE pc' \in {"idle", "stopped", "lookup", "accept"}
  BY <1>3, <1>4, <1>6 DEF AwardInv, DecisionsPast, AwardsJustified, Late
<1>7. CASE Accept
  <2>1. pc' = "waitState" /\ tracker' = NoAwards /\ bloop'.at = now
    BY <1>7 DEF Accept
  <2> QED BY <1>1, <1>2, <1>3, <1>4, <2>1 DEF AwardInv, DecisionsPast, AwardsJustified
<1>8. CASE LockState
  <2>1. pc = "waitState" /\ pc' = "evaluate" /\ bloop' = bloop /\ tracker' = tracker
    BY <1>8 DEF LockState, localVars
  <2>2. \A p \in Pids : tracker'[p] = {}
    BY <2>1 DEF AwardInv, NoAwards
  <2> QED BY <1>1, <1>3, <1>4, <2>1, <2>2 DEF AwardInv, DecisionsPast, AwardsJustified, Late
<1>9. \/ UNCHANGED <<pc, bloop, tracker>>
      \/ pc' \in {"idle", "stopped", "lookup", "accept"}
      \/ Accept \/ LockState
  BY DEF Next, Send, EngineStep, ScanTrigger, StartBloop, NoAudio, SpawnAudio, PreloadCheck, Lookup,
     Throttled, ApplyAwarded, ReadAudio, Shutdown, AppNext, AppLockRegistry,
     AppUnlockRegistry, AppLockState, AppUnlockState, AppCall, EngineTick, vars, engineVars, localVars,
     BackToIdle
<1> QED BY <1>5, <1>6, <1>7, <1>8, <1>9

(* The handler's invariant and the origin of awards hold from the start and *)
(* are kept by every step.                                                  *)
LEMMA AwardInvariant == Spec => [](HandlerInv /\ AwardInv)
<1>1. EngineInit => HandlerInv /\ AwardInv
  <2>1. EngineInit => AwardInv
    BY DEF EngineInit, AwardInv, DecisionsPast, AwardsJustified, Late
  <2> QED BY <2>1, HandlerInit
<1>2. HandlerInv /\ AwardInv /\ [Next]_vars => (HandlerInv /\ AwardInv)'
  <2> SUFFICES ASSUME HandlerInv, AwardInv, [Next]_vars PROVE HandlerInv' /\ AwardInv'
    OBVIOUS
  <2>1. HandlerInv'
    BY HandlerStep
  <2> QED BY <2>1, EvaluateJustified, FinishJustified, DedupJustified, RestJustified
<1> QED BY <1>1, <1>2, PTL DEF Spec

(* Every award about to be announced was decided by an evaluator, for this  *)
(* bloop or for a bloop of the same client within the hot duration: hot     *)
(* achievements never chain, for any durations and any evaluators.          *)
THEOREM AwardsAreJustified == Spec => []AwardsJustified
<1>1. HandlerInv /\ AwardInv => AwardsJustified
  BY DEF AwardInv
<1> QED BY <1>1, AwardInvariant, PTL

-----------------------------------------------------------------------------
(* What remove_duplicates established is still true when the awards are     *)
(* applied, although the registry's mutex was free in between, for every    *)
(* object the application left alone since.                                 *)
FreshInv ==
    /\ batches \in Seq([Pids -> SUBSET Aids])
    /\ pc = "apply" => \A p \in Pids :
        byId[p] # None /\ <<byId[p], "apply">> \notin meddled =>
            tracker[p] \cap heap[byId[p]].awarded = {}

(* An object the application leaves alone is registered only where it was,  *)
(* and is not noted as one it meddled with.                                 *)
LEMMA AppMeddles ==
    ASSUME HandlerInv, AppCall, NEW o \in Objs, NEW p \in Pids, byId'[p] = o,
           pc \in Late, <<o, pc>> \notin meddled'
    PROVE  byId[p] = o /\ heap'[o] = heap[o]
<1> USE RegistryAssumption DEF HandlerInv, RegistryInv, RegistryTypeOK
<1>1. heap'[o] = heap[o]
  <2>1. meddled' = meddled \cup {<<x, pc>> : x \in {y \in Objs : heap'[y] # heap[y]}}
    BY DEF AppCall
  <2> QED BY <2>1
<1>2. CASE \E q \in AppPlayers : RegistryAdd(q)
  <2>1. PICK q \in AppPlayers, x \in Objs :
          heap[x] = None /\ heap' = [heap EXCEPT ![x] = q] /\ byId' = [byId EXCEPT ![q.id] = x]
    BY <1>2 DEF RegistryAdd
  <2>2. o # x
    BY <1>1, <2>1
  <2> QED BY <1>1, <2>1, <2>2
<1>3. CASE \E q \in AppPlayers : MutateById(q)
  BY <1>1, <1>3 DEF MutateById
<1>4. CASE \E id \in Pids : RegistryRemove(id)
  BY <1>1, <1>4 DEF RegistryRemove
<1> QED BY <1>2, <1>3, <1>4 DEF AppCall, RegistryNext

(* Every step keeps the awards about to be applied fresh.                   *)
LEMMA FreshStep ==
    ASSUME HandlerInv, FreshInv, [Next]_vars
    PROVE  FreshInv'
<1>1. batches' \in Seq([Pids -> SUBSET Aids])
  <2>1. batches' = batches \/ batches' = Append(batches, tracker)
    BY DEF Next, Send, EngineStep, ScanTrigger, StartBloop, NoAudio, SpawnAudio, PreloadCheck, Lookup,
     Throttled, Accept, LockState, EvaluateTrigger, EvaluateMinBloops, EvaluateOther, FinishEvaluation, RemoveDuplicates,
     ApplyAwarded, ReadAudio, Shutdown, AppNext, AppLockRegistry,
     AppUnlockRegistry, AppLockState, AppUnlockState, AppCall, EngineTick, vars, historyVars
  <2> QED BY <2>1 DEF FreshInv, HandlerInv, ValuesOK
<1>2. CASE pc' # "apply"
  BY <1>1, <1>2 DEF FreshInv
<1>3. CASE UNCHANGED <<pc, tracker, heap, byId, meddled>>
  BY <1>1, <1>3 DEF FreshInv
<1>4. CASE RemoveDuplicates
  <2>1. \A p \in Pids : byId'[p] # None => tracker'[p] \cap heap'[byId'[p]].awarded = {}
    BY <1>4 DEF RemoveDuplicates, registryVars
  <2> QED BY <1>1, <2>1 DEF FreshInv
<1>5. CASE AppCall
  <2>1. pc' = pc /\ tracker' = tracker
    BY <1>5 DEF AppCall, engineVars, localVars
  <2>2. ASSUME pc' = "apply", NEW p \in Pids, byId'[p] # None, <<byId'[p], "apply">> \notin meddled'
        PROVE  tracker'[p] \cap heap'[byId'[p]].awarded = {}
    <3>1. byId'[p] \in Objs /\ pc = "apply" /\ pc \in Late
      BY <1>5, <2>1, <2>2, AppRegistry DEF RegistryInv, RegistryTypeOK, Late
    <3>2. byId[p] = byId'[p] /\ heap'[byId'[p]] = heap[byId[p]]
      BY <1>5, <2>2, <3>1, AppMeddles
    <3>3. <<byId[p], "apply">> \notin meddled
      BY <1>5, <2>2, <3>1, <3>2 DEF AppCall
    <3> QED BY <2>1, <2>2, <3>1, <3>2, <3>3 DEF FreshInv
  <2> QED BY <1>1, <2>2 DEF FreshInv
<1>6. \/ pc' # "apply" \/ RemoveDuplicates \/ AppCall
      \/ UNCHANGED <<pc, tracker, heap, byId, meddled>>
  BY DEF Next, Send, EngineStep, ScanTrigger, StartBloop, NoAudio, SpawnAudio, PreloadCheck, Lookup,
     Throttled, Accept, LockState, EvaluateTrigger, EvaluateMinBloops, EvaluateOther, FinishEvaluation,
     ApplyAwarded, ReadAudio, Shutdown, AppNext, AppLockRegistry, BackToIdle,
     AppUnlockRegistry, AppLockState, AppUnlockState, EngineTick, vars, engineVars, localVars, registryVars,
     appVars, Receive
<1> QED BY <1>2, <1>3, <1>4, <1>5, <1>6

(* An announced award is new to its player, with whatever achievements      *)
(* players are loaded, added or changed by the application, unless it adds  *)
(* or changes that very player between remove_duplicates and apply_awarded. *)
THEOREM AnnouncedAwardsAreNew == Spec => NewAwardsOnly
<1>1. EngineInit => FreshInv
  BY DEF EngineInit, FreshInv
<1>2. HandlerInv /\ FreshInv /\ [Next]_vars => FreshInv'
  BY FreshStep
<1>3. HandlerInv /\ FreshInv /\ [Next]_vars =>
        [Len(batches') > Len(batches) =>
            \A p \in Pids :
                byId[p] # None /\ <<byId[p], "apply">> \notin meddled =>
                    Last(batches')[p] \cap heap[byId[p]].awarded = {}]_vars
  <2> SUFFICES ASSUME HandlerInv, FreshInv, Next, Len(batches') > Len(batches),
                      NEW p \in Pids, byId[p] # None, <<byId[p], "apply">> \notin meddled
               PROVE  Last(batches')[p] \cap heap[byId[p]].awarded = {}
    OBVIOUS
  <2>1. Len(batches) \in Nat
    BY DEF FreshInv
  <2>2. ApplyAwarded \/ batches' = batches
    BY DEF Next, Send, EngineStep, ScanTrigger, StartBloop, NoAudio, SpawnAudio, PreloadCheck, Lookup,
     Throttled, Accept, LockState, EvaluateTrigger, EvaluateMinBloops, EvaluateOther, FinishEvaluation, RemoveDuplicates,
     ReadAudio, Shutdown, AppNext, AppLockRegistry,
     AppUnlockRegistry, AppLockState, AppUnlockState, AppCall, EngineTick, historyVars
  <2>3. ApplyAwarded
    BY <2>1, <2>2
  <2>4. batches' = Append(batches, tracker) /\ pc = "apply"
    BY <2>3 DEF ApplyAwarded
  <2>5. Last(batches') = tracker
    BY <2>4 DEF Last, FreshInv, HandlerInv, ValuesOK
  <2> QED BY <2>4, <2>5 DEF FreshInv
<1> QED BY <1>1, <1>2, <1>3, AwardInvariant, PTL DEF Spec, NewAwardsOnly

-----------------------------------------------------------------------------
(* The player being handled is registered and the application has left it   *)
(* alone since it was counted.                                              *)
Undisturbed == byId[bloop.pid] = player /\ \A at \in Late : <<player, at>> \notin meddled

(* While the player being handled is undisturbed, an achievement its count  *)
(* earns is its own, waits for the evaluator or for apply_awarded.          *)
MilestoneInv ==
    /\ pc \in Late => heap[player].id = bloop.pid
    /\ pc \in {"dedup", "apply"} => todo = {}
    /\ pc \in Late /\ Undisturbed => \A a \in Aids :
        MinBloopsOf[a] # None /\ heap[player].bloops >= MinBloopsOf[a] =>
            a \in heap[player].awarded \cup todo \cup tracker[bloop.pid]

(* An evaluator takes one achievement off the list, and a MinBloopsEvaluator *)
(* whose player has the count puts it into the tracker.                     *)
LEMMA EvaluateMilestone ==
    ASSUME HandlerInv, MilestoneInv, NEW a \in Aids,
           EvaluateTrigger(a) \/ EvaluateMinBloops(a) \/ EvaluateOther(a)
    PROVE  MilestoneInv'
<1>1. /\ pc = "evaluate" /\ pc' = pc /\ UNCHANGED <<heap, byId, player, bloop, meddled>>
      /\ bloop.pid \in Pids /\ player \in Objs
  BY DEF EvaluateTrigger, EvaluateMinBloops, EvaluateOther, registryVars, appVars, HandlerInv, PlayerOK,
     BloopOK, Late, Busy, Bloop
<1>2. PICK to \in SUBSET Pids :
        /\ Award(a, to)
        /\ MinBloopsOf[a] # None /\ HasMinBloops(a) => bloop.pid \in to
  <2>1. CASE EvaluateTrigger(a)
    <3>1. MinBloopsOf[a] = None
      BY <2>1, EngineAssumption DEF EvaluateTrigger
    <3> QED BY <1>1, <2>1, <3>1 DEF EvaluateTrigger
  <2>2. CASE EvaluateMinBloops(a)
    BY <1>1, <2>2 DEF EvaluateMinBloops
  <2>3. CASE EvaluateOther(a)
    BY <2>3 DEF EvaluateOther
  <2> QED BY <2>1, <2>2, <2>3
<1>3. /\ todo' = todo \ {a}
      /\ tracker[bloop.pid] \subseteq tracker'[bloop.pid]
      /\ bloop.pid \in to => a \in tracker'[bloop.pid]
  <2>1. /\ todo' = todo \ {a}
        /\ tracker' = [p \in Pids |-> IF p \in to THEN tracker[p] \cup {a} ELSE tracker[p]]
    BY <1>2 DEF Award
  <2> QED BY <1>1, <2>1
<1>4. ASSUME Undisturbed, NEW b \in Aids, MinBloopsOf[b] # None, heap[player].bloops >= MinBloopsOf[b]
      PROVE  b \in heap[player].awarded \cup todo' \cup tracker'[bloop.pid]
  <2>1. b \in heap[player].awarded \cup todo \cup tracker[bloop.pid]
    BY <1>1, <1>4 DEF MilestoneInv, Late
  <2>2. CASE b = a
    BY <1>2, <1>3, <1>4, <2>2 DEF HasMinBloops
  <2>3. CASE b # a
    BY <1>3, <2>1, <2>3
  <2> QED BY <2>2, <2>3
<1> QED BY <1>1, <1>4 DEF MilestoneInv, Undisturbed, Late

(* Hot achievements and remove_duplicates take nothing from a player that   *)
(* is registered and lacks it.                                              *)
LEMMA TrackerMilestone ==
    ASSUME HandlerInv, MilestoneInv, FinishEvaluation \/ RemoveDuplicates
    PROVE  MilestoneInv'
<1>1. /\ pc \in Late /\ pc' \in {"dedup", "apply"} /\ UNCHANGED <<heap, byId, player, bloop, todo, meddled>>
      /\ bloop.pid \in Pids /\ player \in Objs /\ todo = {}
  BY DEF FinishEvaluation, RemoveDuplicates, registryVars, appVars, HandlerInv, PlayerOK, BloopOK,
     MilestoneInv, Late, Busy, Bloop
<1>2. ASSUME NEW a \in Aids, a \in tracker[bloop.pid], byId[bloop.pid] = player,
             a \notin heap[player].awarded
      PROVE  a \in tracker'[bloop.pid]
  <2>1. tracker \in [Pids -> SUBSET Aids]
    BY DEF HandlerInv, ValuesOK
  <2>2. CASE FinishEvaluation
    BY <1>1, <1>2, <2>1, <2>2 DEF FinishEvaluation, HotStep
  <2>3. CASE RemoveDuplicates
    BY <1>1, <1>2, <2>1, <2>3, RegistryAssumption DEF RemoveDuplicates
  <2> QED BY <2>2, <2>3
<1>3. ASSUME Undisturbed, NEW a \in Aids, MinBloopsOf[a] # None, heap[player].bloops >= MinBloopsOf[a]
      PROVE  a \in heap[player].awarded \cup tracker'[bloop.pid]
  <2>1. a \in heap[player].awarded \cup tracker[bloop.pid]
    BY <1>1, <1>3 DEF MilestoneInv
  <2> QED BY <1>2, <1>3, <2>1 DEF Undisturbed
<1>4. heap'[player'].id = bloop'.pid /\ pc' \in Late
  BY <1>1 DEF MilestoneInv, Late
<1> QED BY <1>1, <1>3, <1>4 DEF MilestoneInv, Undisturbed

(* Every step keeps track of the milestone of the player being handled.     *)
LEMMA MilestoneStep ==
    ASSUME HandlerInv, MilestoneInv, [Next]_vars
    PROVE  MilestoneInv'
<1>1. CASE UNCHANGED <<pc, heap, byId, player, bloop, todo, tracker, meddled>>
  BY <1>1 DEF MilestoneInv, Undisturbed
<1>2. CASE pc' \notin Late
  BY <1>2 DEF MilestoneInv, Late
<1>3. CASE Accept
  <2>1. player \in Objs /\ heap[player] \in Player /\ heap \in [Objs -> Player \cup {None}]
    BY <1>3 DEF HandlerInv, PlayerOK, Accept, Busy, RegistryInv, RegistryTypeOK
  <2> DEFINE new == [heap[player] EXCEPT !.bloops = @ + 1]
  <2>2. new.id = heap[player].id /\ new.awarded = heap[player].awarded
    BY <2>1 DEF Player
  <2>3. /\ heap' = [heap EXCEPT ![player] = new] /\ player' = player
        /\ bloop'.pid = heap[player].id /\ todo' = Aids \ heap[player].awarded /\ pc' = "waitState"
    BY <1>3 DEF Accept
  <2> HIDE DEF new
  <2>4. heap'[player] = new
    BY <2>1, <2>3
  <2> QED BY <2>2, <2>3, <2>4 DEF MilestoneInv
<1>4. CASE LockState
  BY <1>4 DEF LockState, registryVars, localVars, appVars, MilestoneInv, Undisturbed, Late
<1>5. CASE AppCall /\ pc \in Late
  <2>1. UNCHANGED <<pc, player, bloop, todo, tracker>>
    BY <1>5 DEF AppCall, engineVars, localVars
  <2>2. player \in Objs /\ heap[player] # None /\ bloop.pid \in Pids
    BY <1>5 DEF HandlerInv, PlayerOK, BloopOK, Busy, Late, Bloop
  <2>3. heap'[player].id = heap[player].id
    BY <1>5, <2>2, AppRegistry
  <2>4. Undisturbed' => Undisturbed /\ heap'[player] = heap[player]
    <3> SUFFICES ASSUME Undisturbed' PROVE Undisturbed /\ heap'[player] = heap[player]
      OBVIOUS
    <3>1. byId'[bloop.pid] = player /\ \A at \in Late : <<player, at>> \notin meddled'
      BY <2>1 DEF Undisturbed
    <3>2. byId[bloop.pid] = player /\ heap'[player] = heap[player]
      BY <1>5, <2>2, <3>1, AppMeddles
    <3>3. meddled \subseteq meddled'
      BY <1>5 DEF AppCall
    <3> QED BY <3>1, <3>2, <3>3 DEF Undisturbed
  <2> QED BY <1>5, <2>1, <2>3, <2>4 DEF MilestoneInv
<1>6. \/ Accept \/ FinishEvaluation \/ RemoveDuplicates \/ LockState \/ (AppCall /\ pc \in Late)
      \/ \E a \in Aids : EvaluateTrigger(a) \/ EvaluateMinBloops(a) \/ EvaluateOther(a)
      \/ UNCHANGED <<pc, heap, byId, player, bloop, todo, tracker, meddled>>
      \/ pc' \notin Late
  BY DEF Next, Send, EngineStep, ScanTrigger, StartBloop, NoAudio, SpawnAudio, PreloadCheck, Lookup,
     Throttled, ApplyAwarded, ReadAudio, Shutdown, AppNext, AppLockRegistry, BackToIdle, AppCall,
     AppUnlockRegistry, AppLockState, AppUnlockState, EngineTick, vars, engineVars, localVars, registryVars,
     appVars, Receive, Late
<1> QED BY <1>1, <1>2, <1>3, <1>4, <1>5, <1>6, EvaluateMilestone, TrackerMilestone

(* A player with bloops enough for a MinBloopsEvaluator has its achievement *)
(* once a bloop of its is stored, whatever counts and achievements players  *)
(* are loaded or added with, unless the application removed, replaced or    *)
(* changed it during the awaits between the count and the award.            *)
THEOREM MilestonesAreKept == Spec => MilestoneKept
<1>1. EngineInit => MilestoneInv
  BY DEF EngineInit, MilestoneInv, Late
<1>2. HandlerInv /\ MilestoneInv /\ [Next]_vars => MilestoneInv'
  BY MilestoneStep
<1>3. HandlerInv /\ MilestoneInv /\ FreshInv /\ [Next]_vars =>
        [Len(batches') > Len(batches) /\ byId[bloop.pid] = player
         /\ (\A at \in Late : <<player, at>> \notin meddled) =>
            \A a \in Aids :
                MinBloopsOf[a] # None /\ heap[player].bloops >= MinBloopsOf[a] =>
                    a \in heap'[player].awarded]_vars
  <2> SUFFICES ASSUME HandlerInv, MilestoneInv, FreshInv, Next, Len(batches') > Len(batches), Undisturbed,
                      NEW a \in Aids, MinBloopsOf[a] # None, heap[player].bloops >= MinBloopsOf[a]
               PROVE  a \in heap'[player].awarded
    BY DEF Undisturbed
  <2>1. Len(batches) \in Nat
    BY DEF FreshInv
  <2>2. ApplyAwarded \/ batches' = batches
    BY DEF Next, Send, EngineStep, ScanTrigger, StartBloop, NoAudio, SpawnAudio, PreloadCheck, Lookup,
     Throttled, Accept, LockState, EvaluateTrigger, EvaluateMinBloops, EvaluateOther, FinishEvaluation, RemoveDuplicates,
     ReadAudio, Shutdown, AppNext, AppLockRegistry,
     AppUnlockRegistry, AppLockState, AppUnlockState, AppCall, EngineTick, historyVars
  <2>3. ApplyAwarded
    BY <2>1, <2>2
  <2>4. pc \in Late /\ todo = {} /\ heap[player].id = bloop.pid
    BY <2>3 DEF ApplyAwarded, MilestoneInv, Late
  <2>5. a \in heap[player].awarded \cup tracker[bloop.pid]
    BY <2>4 DEF MilestoneInv
  <2>6. player \in Objs /\ heap[player] \in Player /\ heap[player] # None
    BY <2>4, RegistryAssumption DEF HandlerInv, PlayerOK, Busy, Late, RegistryInv, RegistryTypeOK
  <2>7. heap'[player] = [heap[player] EXCEPT !.awarded = @ \cup tracker[bloop.pid]]
    BY <2>3, <2>4, <2>6 DEF ApplyAwarded, Granted, Undisturbed
  <2> QED BY <2>5, <2>6, <2>7 DEF Player
<1>4. EngineInit => FreshInv
  BY DEF EngineInit, FreshInv
<1>5. HandlerInv /\ FreshInv /\ [Next]_vars => FreshInv'
  BY FreshStep
<1> QED BY <1>1, <1>2, <1>3, <1>4, <1>5, AwardInvariant, PTL DEF Spec, MilestoneKept

(* In the running engine too a scan or an id resolves to the right player   *)
(* or to nobody, however the engine's counts and awards interleave with the *)
(* application's calls.                                                     *)
THEOREM EngineLookupsAreSound == Spec => []LookupSound
<1>1. HandlerInv /\ AwardInv => LookupSound
  BY DEF HandlerInv, RegistryInv
<1> QED BY <1>1, AwardInvariant, PTL

-----------------------------------------------------------------------------
(* The bloop b may become the client's newest one: the ThrottleMax before   *)
(* it are not all of its player, or reach back further than the threshold.  *)
Room(b) ==
    LET h == OfClient(allBloops, b.client) IN
    ThrottleMax \in DOMAIN h /\ (\A j \in 1..ThrottleMax : h[j].pid = b.pid) =>
        b.at > h[ThrottleMax].at + ThrottleThreshold

(* The collections remember what is recent, and a bloop under way was made  *)
(* after the last one was added.  Between two bloops there is none.         *)
HistoryInv ==
    /\ CollectionsInv
    /\ addedAt <= now
    /\ pc \in Late => addedAt <= bloop.at
    /\ pc \notin Late => bloop = NoBloop

(* A bloop that was let through is stored three awaits later, behind the    *)
(* same bloops the throttle looked at.                                      *)
ThrottleInv ==
    /\ pc \in Late /\ ThrottleOn => ThrottleMax > 0 /\ Room(bloop)
    /\ loadedBloops \in Seq(Bloop)
    /\ ThrottleBound

(* What the engine was built with is history.                               *)
LEMMA LoadedKept ==
    ASSUME [Next]_vars
    PROVE  loadedBloops' = loadedBloops
BY DEF Next, Send, EngineStep, ScanTrigger, StartBloop, NoAudio, SpawnAudio, PreloadCheck, Lookup,
   Throttled, Accept, LockState, EvaluateTrigger, EvaluateMinBloops, EvaluateOther, FinishEvaluation,
   RemoveDuplicates, ApplyAwarded, ReadAudio, Shutdown, AppNext, AppLockRegistry, AppUnlockRegistry,
   AppLockState, AppUnlockState, AppCall, EngineTick, vars, historyVars

(* The throttle sees enough: whatever lies within the threshold is not yet  *)
(* forgotten, if the collections remember as long as the throttle looks     *)
(* back.                                                                    *)
LEMMA NotThrottled ==
    ASSUME CollectionsInv, now \in Nat, addedAt <= now, ThrottleOn, ThrottleThreshold <= MaxAge,
           NEW c \in Clients, NEW p, ~IsThrottled(c, p)
    PROVE  /\ ThrottleMax > 0
           /\ LET h == OfClient(allBloops, c) IN
              ThrottleMax \in DOMAIN h /\ (\A j \in 1..ThrottleMax : h[j].pid = p) =>
                now > h[ThrottleMax].at + ThrottleThreshold
<1> DEFINE m == ThrottleMax
<1> DEFINE h == OfClient(allBloops, c)
<1> DEFINE k == clientBloops[c]
<1> DEFINE R == {b \in Bloop : b.at + ThrottleThreshold >= now}
<1> DEFINE recent == Filtered(k, R)
<1>1. /\ m \in Nat /\ ThrottleThreshold \in Nat /\ MaxAge \in Nat
      /\ h \in Seq(Bloop) /\ k \in Seq(Bloop) /\ NewestFirst(h) /\ Begins(k, h)
  BY CollectionsNewestFirst, EngineAssumption, MaxAgeAssumption
<1>2. \A i \in DOMAIN h : i > Len(k) => h[i].at + MaxAge < now
  <2>1. addedAt \in Nat /\ IsWindow(k, h, addedAt)
    BY MaxTimeAssumption DEF CollectionsInv, BloopTypeOK, NothingRecentForgotten
  <2>2. IsWindow(k, h, now)
    BY <1>1, <2>1, WindowAges
  <2> QED BY <2>2 DEF IsWindow
<1>3. recent \in Seq(Bloop)
  <2>1. Len(k) \in 0..Len(k)
    BY <1>1
  <2> QED BY <1>1, <2>1, FilterContents DEF Filtered
<1>4. RecentBloops(c) = SubSeq(recent, 1, IF Len(recent) < m THEN Len(recent) ELSE m)
  BY DEF RecentBloops
<1>5. \A b \in Bloop : b \in R <=> b.at + ThrottleThreshold >= now
  OBVIOUS
<1> HIDE DEF h, k, R, recent
<1>6. ASSUME Len(recent) >= m, \A j \in 1..m : recent[j].pid = p PROVE FALSE
  <2>1. RecentBloops(c) = SubSeq(recent, 1, m)
    BY <1>1, <1>3, <1>4, <1>6
  <2>2. Len(RecentBloops(c)) = m /\ \A j \in 1..m : RecentBloops(c)[j] = recent[j]
    BY <1>1, <1>3, <1>6, <2>1
  <2>3. DOMAIN RecentBloops(c) = 1..m
    BY <1>1, <1>3, <1>6, <2>1
  <2> QED BY <1>6, <2>2, <2>3 DEF IsThrottled
<1>7. m > 0
  <2> SUFFICES ASSUME m = 0 PROVE FALSE
    BY <1>1
  <2>1. Len(recent) >= m /\ 1..m = {}
    BY <1>3
  <2> QED BY <1>6, <2>1
<1>8. ASSUME m \in DOMAIN h, \A j \in 1..m : h[j].pid = p, ~(now > h[m].at + ThrottleThreshold)
      PROVE  FALSE
  <2>1. \A i \in DOMAIN h : h[i] \in Bloop /\ h[i].at \in Nat
    BY <1>1, BloopAt
  <2>2. h[m].at + ThrottleThreshold >= now /\ h[m].at + MaxAge >= now
    BY <1>1, <1>8, <2>1
  <2>3. m <= Len(k)
    <3>1. ~(m > Len(k))
      BY <1>1, <1>2, <1>8, <2>1, <2>2
    <3> QED BY <1>1, <3>1
  <2>4. ASSUME NEW j \in 1..m PROVE k[j] \in R /\ k[j] = h[j]
    <3>1. j \in DOMAIN h /\ j \in 1..Len(k) /\ (j = m \/ j < m)
      BY <1>1, <1>8, <2>3
    <3>2. k[j] = h[j] /\ h[j].at >= h[m].at
      BY <1>1, <1>8, <2>1, <3>1 DEF Begins, NewestFirst
    <3>3. h[j].at + ThrottleThreshold >= now
      BY <1>1, <1>8, <2>1, <2>2, <3>1, <3>2
    <3> QED BY <1>5, <2>1, <3>1, <3>2, <3>3
  <2>5. m \in 0..Len(k)
    BY <1>1, <2>3
  <2>6. Len(recent) >= m /\ \A j \in 1..m : recent[j] = k[j]
    BY <1>1, <2>4, <2>5, FilteredKeepsAll DEF recent
  <2> QED BY <1>6, <1>8, <2>4, <2>6
<1> QED BY <1>7, <1>8 DEF h

(* Storing a bloop there was room for keeps the bound.                      *)
LEMMA RoomKeepsBound ==
    ASSUME ThrottleOn, ThrottleMax > 0, ThrottleBound, NEW b \in Bloop, Room(b),
           allBloops \in Seq(Bloop), allBloops' = <<b>> \o allBloops,
           loadedBloops \in Seq(Bloop), loadedBloops' = loadedBloops
    PROVE  ThrottleBound'
<1> DEFINE m == ThrottleMax
<1>0. m \in Nat \ {0}
  BY EngineAssumption
<1> SUFFICES ASSUME NEW c \in Clients
             PROVE  LET h == OfClient(allBloops', c) IN
                    \A i \in 1..(Len(h) - Len(OfClient(loadedBloops, c))) :
                        i + m \in DOMAIN h /\ (\A j \in i..(i + m) : h[j].pid = h[i].pid) =>
                            h[i].at > h[i + m].at + ThrottleThreshold
  BY DEF ThrottleBound
<1> DEFINE h == OfClient(allBloops, c)
<1> DEFINE g == OfClient(allBloops', c)
<1> DEFINE e == Len(OfClient(loadedBloops, c))
<1>1. h \in Seq(Bloop) /\ e \in Nat
  BY OfClientFacts
<1>2. \A i \in 1..(Len(h) - e) : i + m \in DOMAIN h /\ (\A j \in i..(i + m) : h[j].pid = h[i].pid) =>
        h[i].at > h[i + m].at + ThrottleThreshold
  BY DEF ThrottleBound
<1>3. b.client # c => g = h
  BY OfClientFacts
<1>4. b.client = c => g = <<b>> \o h
  BY OfClientFacts
<1>5. b.client = c /\ m \in DOMAIN h /\ (\A j \in 1..m : h[j].pid = b.pid) =>
        b.at > h[m].at + ThrottleThreshold
  BY DEF Room
<1> HIDE DEF h, g, e
<1>6. ASSUME b.client = c, NEW i \in 1..(Len(g) - e), i + m \in DOMAIN g,
             \A j \in i..(i + m) : g[j].pid = g[i].pid
      PROVE  g[i].at > g[i + m].at + ThrottleThreshold
  <2>1. /\ DOMAIN g = 1..(Len(h) + 1) /\ DOMAIN h = 1..Len(h) /\ Len(h) \in Nat
        /\ g[1] = b
        /\ \A j \in 2..(Len(h) + 1) : j - 1 \in 1..Len(h) /\ g[j] = h[j - 1]
    BY <1>1, <1>4, <1>6, PrependFacts
  <2>0. Len(g) = Len(h) + 1
    BY <1>1, <1>4, <1>6
  <2>2. \A j \in 1..Len(h) : j + 1 \in 2..(Len(h) + 1) /\ (j + 1) - 1 = j
    BY <2>1
  <2>3. \A j \in 1..Len(h) : g[j + 1] = h[j]
    BY <2>1, <2>2
  <2>4. CASE i = 1
    <3>1. m \in 1..Len(h) /\ g[i + m] = h[m]
      BY <1>0, <1>6, <2>1, <2>3, <2>4
    <3>2. \A j \in 1..m : h[j].pid = b.pid
      <4> SUFFICES ASSUME NEW j \in 1..m PROVE h[j].pid = b.pid
        OBVIOUS
      <4>1. j + 1 \in i..(i + m) /\ j \in 1..Len(h)
        BY <1>0, <2>4, <3>1
      <4> QED BY <1>6, <2>1, <2>3, <2>4, <4>1
    <3> QED BY <1>5, <1>6, <2>1, <2>4, <3>1, <3>2
  <2>5. CASE i # 1
    <3> DEFINE n == i - 1
    <3>1. /\ n \in 1..(Len(h) - e)
          /\ n \in 1..Len(h) /\ n + m \in 1..Len(h) /\ n + 1 = i /\ (n + m) + 1 = i + m
      BY <1>0, <1>1, <1>6, <2>0, <2>1, <2>5
    <3>2. g[i] = h[n] /\ g[i + m] = h[n + m]
      BY <2>3, <3>1
    <3>3. \A j \in n..(n + m) : h[j].pid = h[n].pid
      <4> SUFFICES ASSUME NEW j \in n..(n + m) PROVE h[j].pid = h[n].pid
        OBVIOUS
      <4>1. j + 1 \in i..(i + m) /\ j \in 1..Len(h)
        BY <1>0, <3>1
      <4> QED BY <1>6, <2>3, <3>2, <4>1
    <3> HIDE DEF n
    <3> QED BY <1>2, <2>1, <3>1, <3>2, <3>3
  <2> QED BY <2>4, <2>5
<1> QED BY <1>2, <1>3, <1>6 DEF g, e

(* Only the end of the handler touches the collections, only Accept makes a *)
(* bloop, and it finds the collections as they stay until the end.          *)
LEMMA BloopSteps ==
    ASSUME HandlerInv, [Next]_vars
    PROVE  /\ UNCHANGED bloopVars \/ ApplyAwarded
           /\ pc' \in Late => Accept \/ (pc \in Late /\ bloop' = bloop)
           /\ UNCHANGED bloopVars => UNCHANGED <<globalBloops, clientBloops, allBloops, addedAt>>
<1> USE DEF Late, Busy, HandlerInv, OwnerInv
<1>1. UNCHANGED bloopVars \/ ApplyAwarded
  BY DEF Next, Send, EngineStep, ScanTrigger, StartBloop, NoAudio, SpawnAudio, PreloadCheck, Lookup,
     Throttled, Accept, LockState, EvaluateTrigger, EvaluateMinBloops, EvaluateOther, FinishEvaluation,
     RemoveDuplicates, ReadAudio, Shutdown, AppNext, AppLockRegistry, AppUnlockRegistry, AppLockState,
     AppUnlockState, AppCall, EngineTick, vars
<1>2. ASSUME pc' \in Late PROVE Accept \/ (pc \in Late /\ bloop' = bloop)
  <2>1. CASE EngineStep
    BY <1>2, <2>1 DEF EngineStep, ScanTrigger, StartBloop, NoAudio, SpawnAudio, PreloadCheck, Lookup,
       Throttled, LockState, EvaluateTrigger, EvaluateMinBloops, EvaluateOther, FinishEvaluation,
       RemoveDuplicates, ApplyAwarded, BackToIdle, Receive, engineVars, localVars
  <2>2. CASE ~EngineStep
    BY <1>2, <2>2 DEF Next, Send, ReadAudio, Shutdown, AppNext, AppLockRegistry, AppUnlockRegistry,
       AppLockState, AppUnlockState, AppCall, EngineTick, vars, engineVars, localVars
  <2> QED BY <2>1, <2>2
<1> QED BY <1>1, <1>2 DEF bloopVars

(* No step leaves a bloop behind when it is done with it.                   *)
LEMMA NoBloopBetween ==
    ASSUME [Next]_vars, pc \notin Late => bloop = NoBloop
    PROVE  pc' \notin Late => bloop' = NoBloop
<1> USE DEF Late
<1>1. CASE Lookup \/ Throttled \/ Accept \/ LockState \/ FinishEvaluation \/ RemoveDuplicates \/ ApplyAwarded
  BY <1>1 DEF Lookup, Throttled, Accept, LockState, FinishEvaluation, RemoveDuplicates, ApplyAwarded,
     BackToIdle, localVars
<1>2. CASE \/ \E a \in Aids : EvaluateTrigger(a) \/ EvaluateMinBloops(a) \/ EvaluateOther(a)
           \/ \E c \in Conns : ScanTrigger(c) \/ StartBloop(c) \/ NoAudio(c) \/ SpawnAudio(c) \/ PreloadCheck(c)
  BY <1>2 DEF EvaluateTrigger, EvaluateMinBloops, EvaluateOther, ScanTrigger, StartBloop, NoAudio,
     SpawnAudio, PreloadCheck, Receive, engineVars, localVars
<1>3. CASE Shutdown
  BY <1>3 DEF Shutdown
<1>4. CASE ~EngineStep /\ ~Shutdown
  <2>1. pc' = pc /\ bloop' = bloop
    BY <1>4 DEF Next, Send, ReadAudio, AppNext, AppLockRegistry, AppUnlockRegistry, AppLockState,
       AppUnlockState, AppCall, EngineTick, vars, engineVars, localVars
  <2> QED BY <2>1
<1> QED BY <1>1, <1>2, <1>3, <1>4 DEF EngineStep

(* Every step of the engine keeps the collections as they should be.        *)
LEMMA HistoryStep ==
    ASSUME HandlerInv, HandlerInv', HistoryInv, [Next]_vars
    PROVE  HistoryInv'
<1>1. now \in Nat /\ now \in 0..MaxTime /\ now' \in Nat /\ now <= now'
  BY ValuesKept DEF HandlerInv, ValuesOK, ClockTypeOK
<1>2. addedAt \in Nat /\ addedAt <= now
  BY MaxTimeAssumption DEF HistoryInv, CollectionsInv, BloopTypeOK
<1>3. pc' \notin Late => bloop' = NoBloop
  BY NoBloopBetween DEF HistoryInv
<1>4. CASE UNCHANGED bloopVars
  <2>1. CollectionsInv'
    BY <1>4, StutterKeepsCollections DEF HistoryInv
  <2>2. addedAt' = addedAt
    BY <1>4 DEF bloopVars
  <2>3. Accept => bloop'.at = now
    BY DEF Accept
  <2>4. pc' \in Late => addedAt' <= bloop'.at
    BY <1>2, <2>2, <2>3, BloopSteps DEF HistoryInv
  <2> QED BY <1>1, <1>2, <1>3, <2>1, <2>2, <2>4 DEF HistoryInv
<1>5. CASE ApplyAwarded
  <2>1. pc \in Late /\ bloop \in Bloop /\ bloop.at \in Nat /\ bloop.at <= now
    BY <1>5 DEF ApplyAwarded, HandlerInv, BloopOK, Late, Bloop
  <2>2. AddBloop(bloop) /\ now' = now /\ pc' \notin Late /\ addedAt' = now
    BY <1>5 DEF ApplyAwarded, BackToIdle, Late, AddBloop
  <2>3. CollectionsInv'
    BY <1>1, <2>1, <2>2, AddKeepsCollections DEF HistoryInv
  <2> QED BY <1>1, <1>3, <2>2, <2>3 DEF HistoryInv
<1> QED BY <1>4, <1>5, BloopSteps

(* Every step of the engine keeps the throttle's bound, if the collections  *)
(* remember as long as the throttle looks back.                             *)
LEMMA ThrottleStep ==
    ASSUME HandlerInv, HandlerInv', HistoryInv, ThrottleInv, [Next]_vars, ThrottleThreshold <= MaxAge
    PROVE  ThrottleInv'
<1>0. now \in Nat /\ addedAt <= now /\ CollectionsInv /\ allBloops \in Seq(Bloop)
  BY DEF HandlerInv, ValuesOK, ClockTypeOK, HistoryInv, CollectionsInv, BloopTypeOK
<1>00. loadedBloops' = loadedBloops /\ loadedBloops \in Seq(Bloop)
  BY LoadedKept DEF ThrottleInv
<1>1. CASE ~ThrottleOn
  BY <1>00, <1>1 DEF ThrottleInv, ThrottleBound
<1>2. CASE ThrottleOn /\ UNCHANGED bloopVars
  <2>1. allBloops' = allBloops
    BY <1>2 DEF bloopVars
  <2>2. ThrottleBound'
    BY <1>00, <2>1 DEF ThrottleInv, ThrottleBound
  <2>3. ASSUME Accept PROVE ThrottleMax > 0 /\ Room(bloop')
    <3>1. /\ bloop' = [pid |-> heap[player].id, client |-> ClientOf[conn], at |-> now]
          /\ ~IsThrottled(ClientOf[conn], heap[player].id)
      BY <2>3 DEF Accept
    <3>2. ClientOf[conn] \in Clients
      BY <2>3, EngineAssumption DEF HandlerInv, OwnerInv, Accept, Busy
    <3> DEFINE h == OfClient(allBloops, ClientOf[conn])
    <3>3. /\ ThrottleMax > 0
          /\ ThrottleMax \in DOMAIN h /\ (\A j \in 1..ThrottleMax : h[j].pid = heap[player].id) =>
                now > h[ThrottleMax].at + ThrottleThreshold
      BY <1>0, <1>2, <3>1, <3>2, NotThrottled
    <3> QED BY <3>1, <3>3 DEF Room
  <2>4. ASSUME pc \in Late, bloop' = bloop PROVE ThrottleMax > 0 /\ Room(bloop')
    BY <1>2, <2>4 DEF ThrottleInv
  <2>5. pc' \in Late => ThrottleMax > 0 /\ Room(bloop')
    BY <2>3, <2>4, BloopSteps
  <2>6. Room(bloop)' <=> Room(bloop')
    BY <2>1 DEF Room
  <2> QED BY <1>00, <2>2, <2>5, <2>6 DEF ThrottleInv
<1>3. CASE ThrottleOn /\ ApplyAwarded
  <2>1. pc \in Late /\ bloop \in Bloop
    BY <1>3 DEF ApplyAwarded, HandlerInv, BloopOK, Late
  <2>2. allBloops' = <<bloop>> \o allBloops /\ pc' \notin Late
    BY <1>3 DEF ApplyAwarded, BackToIdle, Late, AddBloop
  <2>3. ThrottleBound'
    BY <1>0, <1>00, <1>3, <2>1, <2>2, RoomKeepsBound DEF ThrottleInv
  <2> QED BY <1>00, <2>2, <2>3 DEF ThrottleInv
<1> QED BY <1>1, <1>2, <1>3, BloopSteps

-----------------------------------------------------------------------------
(* The collections of a running engine: it stores a bloop with the time of  *)
(* its scan, some ticks after the scan, but never behind a younger one.     *)
LEMMA HistoryInvariant == Spec => []HistoryInv
<1>1. EngineInit => HistoryInv
  <2> SUFFICES ASSUME EngineInit PROVE HistoryInv
    OBVIOUS
  <2>1. ProviderInv /\ pc = "idle" /\ bloop = NoBloop
    BY ProviderInitInv DEF EngineInit
  <2> QED BY <2>1 DEF ProviderInv, HistoryInv, Late
<1>2. HandlerInv /\ HandlerInv' /\ HistoryInv /\ [Next]_vars => HistoryInv'
  BY HistoryStep
<1>3. HandlerInv /\ AwardInv => HandlerInv
  OBVIOUS
<1> QED BY <1>1, <1>2, <1>3, AwardInvariant, PTL DEF Spec

(* In the running engine, too, an evaluator that looks back at most         *)
(* max_age sees every bloop there was, although bloops are stored three     *)
(* awaits after they were scanned and collections are pruned when added to. *)
THEOREM EngineRemembersRecentBloops == Spec => [](NothingRecentForgotten /\ ClientViewCoversGlobal)
<1>1. HistoryInv => NothingRecentForgotten /\ ClientViewCoversGlobal
  BY DEF HistoryInv, CollectionsInv
<1> QED BY <1>1, HistoryInvariant, PTL

(* From Accept to ApplyAwarded, whatever the application does meanwhile, no *)
(* collection has forgotten a bloop that is within max_age of the one being *)
(* handled: the engine adds nothing while it handles a bloop, and nothing   *)
(* is forgotten but by adding.                                              *)
THEOREM HandledBloopsSeeRecent == Spec => []HandledSeesRecent
<1>1. HandlerInv /\ HistoryInv => HandledSeesRecent
  <2> SUFFICES ASSUME HandlerInv, HistoryInv, bloop # NoBloop
               PROVE  /\ IsWindow(globalBloops, allBloops, bloop.at)
                      /\ \A c \in Clients :
                           IsWindow(clientBloops[c], OfClient(allBloops, c), bloop.at)
    BY DEF HandledSeesRecent
  <2>1. pc \in Late /\ bloop \in Bloop /\ bloop.at \in Nat
    BY DEF HandlerInv, BloopOK, HistoryInv, Bloop
  <2>2. addedAt \in Nat /\ addedAt <= bloop.at /\ allBloops \in Seq(Bloop)
    BY <2>1, MaxTimeAssumption DEF HistoryInv, CollectionsInv, BloopTypeOK
  <2>3. IsWindow(globalBloops, allBloops, bloop.at)
    BY <2>1, <2>2, WindowAges DEF HistoryInv, CollectionsInv, NothingRecentForgotten
  <2>4. ASSUME NEW c \in Clients
        PROVE  IsWindow(clientBloops[c], OfClient(allBloops, c), bloop.at)
    <3>1. OfClient(allBloops, c) \in Seq(Bloop)
      BY <2>2, OfClientFacts
    <3> QED BY <2>1, <2>2, <3>1, WindowAges DEF HistoryInv, CollectionsInv, NothingRecentForgotten
  <2> QED BY <2>3, <2>4
<1>2. HandlerInv /\ AwardInv => HandlerInv
  OBVIOUS
<1> QED BY <1>1, <1>2, AwardInvariant, HistoryInvariant, PTL

(* Storing the bloop under way is what a provider does when it records one. *)
LEMMA ApplyRecords ==
    ASSUME HandlerInv, HistoryInv, ApplyAwarded
    PROVE  Record
<1>1. bloop \in Bloop /\ pc \in Late /\ bloop.at \in Nat /\ bloop.at <= now /\ now \in Nat
  BY DEF ApplyAwarded, HandlerInv, BloopOK, Late, Bloop, ValuesOK, ClockTypeOK
<1>2. addedAt \in Nat /\ addedAt <= bloop.at
  BY <1>1, MaxTimeAssumption DEF HistoryInv, CollectionsInv, BloopTypeOK
<1>3. bloop.pid \in Pids /\ bloop.client \in Clients /\ bloop.at \in addedAt..now
      /\ bloop = [pid |-> bloop.pid, client |-> bloop.client, at |-> bloop.at]
  BY <1>1, <1>2 DEF Bloop
<1>4. AddBloop([pid |-> bloop.pid, client |-> bloop.client, at |-> bloop.at]) /\ now' = now
  BY <1>3 DEF ApplyAwarded
<1> QED BY <1>3, <1>4 DEF Record

(* A step of the engine is, for its provider, a recorded bloop, the passing *)
(* of time, or nothing.                                                     *)
LEMMA ProviderSteps ==
    ASSUME HandlerInv, HistoryInv, [Next]_vars
    PROVE  [ProviderNext]_<<now, bloopVars>>
<1>1. CASE ApplyAwarded
  BY <1>1, ApplyRecords DEF ProviderNext
<1>2. CASE UNCHANGED bloopVars
  <2>1. now' = now \/ Tick
    BY DEF Next, Send, EngineStep, ScanTrigger, StartBloop, NoAudio, SpawnAudio, PreloadCheck, Lookup,
       Throttled, Accept, LockState, EvaluateTrigger, EvaluateMinBloops, EvaluateOther,
       FinishEvaluation, RemoveDuplicates, ApplyAwarded, ReadAudio, Shutdown, AppNext,
       AppLockRegistry, AppUnlockRegistry, AppLockState, AppUnlockState, AppCall, EngineTick, vars
  <2> QED BY <1>2, <2>1 DEF ProviderNext
<1> QED BY <1>1, <1>2, BloopSteps

(* The engine, with everything around its provider hidden, is one of the    *)
(* users the provider and the evaluators are checked and proved for: one    *)
(* that makes a bloop after the last one was added and adds it any time     *)
(* later.  So what holds of every run of ProviderSpec holds in the engine.  *)
THEOREM EngineImplementsProvider == Spec => ProviderSpec
<1>1. EngineInit => ProviderInit
  BY DEF EngineInit
<1>2. HandlerInv /\ HistoryInv /\ [Next]_vars => [ProviderNext]_<<now, bloopVars>>
  BY ProviderSteps
<1>3. HandlerInv /\ AwardInv => HandlerInv
  OBVIOUS
<1> QED BY <1>1, <1>2, <1>3, AwardInvariant, HistoryInvariant, PTL DEF Spec, ProviderSpec

(* The engine never stores a player's next bloop at one client behind        *)
(* max_bloops of the same player within the threshold, whatever it was      *)
(* built with, for every throttle whose threshold does not exceed the    *)
(* max_age of the collections it looks at.                                  *)
THEOREM ThrottleHolds ==
    ASSUME ThrottleThreshold <= MaxAge
    PROVE  Spec => []ThrottleBound
<1>1. EngineInit => ThrottleInv
  <2> SUFFICES ASSUME EngineInit PROVE ThrottleInv
    OBVIOUS
  <2>1. /\ allBloops \in Seq(Bloop) /\ loadedBloops = allBloops /\ pc = "idle"
    BY ProviderInitInv DEF EngineInit, ProviderInv, CollectionsInv, BloopTypeOK
  <2>2. ASSUME NEW c \in Clients
        PROVE  1..(Len(OfClient(allBloops, c)) - Len(OfClient(loadedBloops, c))) = {}
    <3>1. Len(OfClient(allBloops, c)) \in Nat
      BY <2>1, OfClientFacts
    <3> QED BY <2>1, <3>1
  <2>3. ThrottleBound
    BY <2>2 DEF ThrottleBound
  <2> QED BY <2>1, <2>3 DEF ThrottleInv, Late
<1>2. HandlerInv /\ HandlerInv' /\ HistoryInv /\ ThrottleInv /\ [Next]_vars => ThrottleInv'
  BY ThrottleStep
<1>3. HandlerInv /\ AwardInv => HandlerInv
  OBVIOUS
<1>4. ThrottleInv => ThrottleBound
  BY DEF ThrottleInv
<1> QED BY <1>1, <1>2, <1>3, <1>4, AwardInvariant, HistoryInvariant, PTL DEF Spec

-----------------------------------------------------------------------------
(* What a heap of player objects counts for a player.                       *)
HeapOK(hp) == hp \in [Objs -> Player \cup {None}]
Owned(hp, p) == {o \in Objs : hp[o] # None /\ hp[o].id = p}
CountedIn(hp, p) == MapThenSumSet(LAMBDA o : hp[o].bloops, Owned(hp, p))
Counts(hp) == [o \in Objs |-> hp[o].bloops]

(* It is the sum of the counts, and a number.                               *)
LEMMA CountedIsSum ==
    ASSUME NEW hp, HeapOK(hp), NEW p
    PROVE  /\ CountedIn(hp, p) = SumOver(Counts(hp), Owned(hp, p))
           /\ IsFiniteSet(Owned(hp, p))
           /\ \A o \in Owned(hp, p) : o \in Objs /\ Counts(hp)[o] = hp[o].bloops /\ hp[o].bloops \in Nat
           /\ CountedIn(hp, p) \in Nat
<1> DEFINE S == Owned(hp, p)
<1> DEFINE f(o) == hp[o].bloops
<1> DEFINE w == [o \in S |-> f(o)]
<1>1. CountedIn(hp, p) = MapThenSumSet(f, S)
  BY DEF CountedIn
<1>2. MapThenSumSet(f, S) = SumOver(w, S)
  BY SumOfMap
<1>3. S \in SUBSET Objs
  BY DEF Owned
<1>4. IsFiniteSet(S)
  BY <1>3, EngineAssumption, FS_Subset
<1>5. \A o \in S : o \in Objs /\ Counts(hp)[o] = hp[o].bloops /\ hp[o].bloops \in Nat
  BY DEF Owned, Counts, HeapOK, Player
<1>6. \A o \in S : w[o] = Counts(hp)[o]
  BY <1>5
<1> HIDE DEF S, f, w
<1>7. SumOver(w, S) = SumOver(Counts(hp), S)
  BY <1>6, SumSame
<1>8. SumOver(Counts(hp), S) \in Nat
  BY <1>4, <1>5, SumSplit
<1> QED BY <1>1, <1>2, <1>4, <1>5, <1>7, <1>8 DEF S

(* A heap with the same players and counts counts the same.                 *)
LEMMA CountedSame ==
    ASSUME NEW hp, HeapOK(hp), NEW gp, HeapOK(gp), NEW p,
           \A o \in Objs : hp[o] # None =>
                gp[o] # None /\ gp[o].id = hp[o].id /\ gp[o].bloops = hp[o].bloops,
           \A o \in Objs : hp[o] = None => gp[o] = None
    PROVE  CountedIn(gp, p) = CountedIn(hp, p)
<1> DEFINE S == Owned(hp, p)
<1> DEFINE w == Counts(gp)
<1> DEFINE v == Counts(hp)
<1>1. Owned(gp, p) = S
  BY DEF Owned
<1>2. /\ CountedIn(gp, p) = SumOver(w, S) /\ \A o \in S : w[o] = gp[o].bloops
      /\ CountedIn(hp, p) = SumOver(v, S) /\ \A o \in S : v[o] = hp[o].bloops
  BY <1>1, CountedIsSum
<1>3. \A o \in S : w[o] = v[o]
  BY <1>2 DEF Owned
<1> HIDE DEF S, w, v
<1> QED BY <1>2, <1>3, SumSame

(* One bloop more on one object is one more for its player.                 *)
LEMMA CountedMore ==
    ASSUME NEW hp, HeapOK(hp), NEW gp, HeapOK(gp), NEW p, NEW o \in Objs, hp[o] # None, gp[o] # None,
           gp[o].id = hp[o].id, gp[o].bloops = hp[o].bloops + 1,
           \A q \in Objs \ {o} : gp[q] = hp[q]
    PROVE  CountedIn(gp, p) = CountedIn(hp, p) + (IF hp[o].id = p THEN 1 ELSE 0)
<1> DEFINE S == Owned(hp, p)
<1> DEFINE w == Counts(gp)
<1> DEFINE v == Counts(hp)
<1>1. Owned(gp, p) = S /\ (o \in S <=> hp[o].id = p)
  BY DEF Owned
<1>2. /\ CountedIn(gp, p) = SumOver(w, S) /\ IsFiniteSet(S)
      /\ \A q \in S : q \in Objs /\ w[q] = gp[q].bloops /\ w[q] \in Nat
      /\ CountedIn(hp, p) = SumOver(v, S)
      /\ \A q \in S : v[q] = hp[q].bloops /\ v[q] \in Nat
      /\ SumOver(v, S) \in Nat
  BY <1>1, CountedIsSum
<1> HIDE DEF S, w, v
<1>3. CASE o \notin S
  <2>1. \A q \in S : w[q] = v[q]
    BY <1>2, <1>3
  <2>2. SumOver(w, S) = SumOver(v, S)
    BY <2>1, SumSame
  <2> QED BY <1>1, <1>2, <1>3, <2>2
<1>4. CASE o \in S
  <2> DEFINE R == S \ {o}
  <2>1. SumOver(w, S) = w[o] + SumOver(w, R) /\ SumOver(v, S) = v[o] + SumOver(v, R)
    BY <1>2, <1>4, SumSplit
  <2>2. \A q \in R : w[q] = v[q]
    BY <1>2
  <2>3. IsFiniteSet(R) /\ \A q \in R : v[q] \in Nat
    BY <1>2, FS_RemoveElement
  <2> HIDE DEF R
  <2>4. SumOver(w, R) = SumOver(v, R)
    BY <2>2, SumSame
  <2>5. SumOver(v, R) \in Nat
    BY <2>3, SumSplit
  <2>6. w[o] = v[o] + 1 /\ v[o] \in Nat
    BY <1>2, <1>4
  <2> QED BY <1>1, <1>2, <1>4, <2>1, <2>4, <2>5, <2>6
<1> QED BY <1>3, <1>4

(* What is stored for a player.                                             *)
StoredIn(bs, p) == Cardinality({i \in DOMAIN bs : bs[i].pid = p})

(* It is a number of entries, ...                                           *)
LEMMA StoredIsNat ==
    ASSUME NEW bs \in Seq(Bloop), NEW p
    PROVE  /\ StoredIn(bs, p) \in Nat
           /\ StoredIn(bs, p) = Cardinality(Entries(bs, {c \in Bloop : c.pid = p}))
<1> DEFINE S == {c \in Bloop : c.pid = p}
<1>1. {i \in DOMAIN bs : bs[i].pid = p} = Entries(bs, S)
  BY DEF Entries
<1> HIDE DEF S
<1>2. Cardinality(Entries(bs, S)) \in Nat
  BY EntriesCounted
<1> QED BY <1>1, <1>2 DEF StoredIn, S

(* ... and one bloop more is one more for its player.                       *)
LEMMA StoredMore ==
    ASSUME NEW bs \in Seq(Bloop), NEW b \in Bloop, NEW p
    PROVE  StoredIn(<<b>> \o bs, p) = StoredIn(bs, p) + (IF b.pid = p THEN 1 ELSE 0)
<1> DEFINE S == {c \in Bloop : c.pid = p}
<1>1. b \in S <=> b.pid = p
  OBVIOUS
<1>2. <<b>> \o bs \in Seq(Bloop)
  OBVIOUS
<1>3. /\ StoredIn(bs, p) = Cardinality(Entries(bs, S))
      /\ StoredIn(<<b>> \o bs, p) = Cardinality(Entries(<<b>> \o bs, S))
      /\ StoredIn(bs, p) \in Nat
  BY <1>2, StoredIsNat
<1> HIDE DEF S
<1>4. /\ b \in S => Cardinality(Entries(<<b>> \o bs, S)) = Cardinality(Entries(bs, S)) + 1
      /\ b \notin S => Cardinality(Entries(<<b>> \o bs, S)) = Cardinality(Entries(bs, S))
  BY PrependCounted
<1> QED BY <1>1, <1>3, <1>4

(* Between two bloops there is none, and while the engine runs its counts   *)
(* differ from what is stored by the bloop that is handled.                 *)
TallyInv ==
    /\ pc \notin Late => bloop = NoBloop
    /\ brought \in [Pids -> Int]
    /\ \A p \in Pids : CountedIn(heap, p) \in Nat /\ StoredIn(allBloops, p) \in Nat
    /\ CountsMatchBloops

(* The definitions of the specification in the terms used here.             *)
LEMMA TallyTerms ==
    ASSUME NEW p
    PROVE  /\ Counted(p) = CountedIn(heap, p) /\ Counted(p)' = CountedIn(heap', p)
           /\ Stored(p) = StoredIn(allBloops, p) /\ Stored(p)' = StoredIn(allBloops', p)
           /\ Ahead(p) = CountedIn(heap, p) - StoredIn(allBloops, p) - brought[p]
           /\ Ahead(p)' = CountedIn(heap', p) - StoredIn(allBloops', p) - brought'[p]
<1>1. Counted(p) = CountedIn(heap, p)
  BY DEF Counted, CountedIn, Owned
<1>2. Counted(p)' = CountedIn(heap', p)
  BY DEF Counted, CountedIn, Owned, MapThenSumSet, MapThenFoldSet
<1>3. Stored(p) = StoredIn(allBloops, p) /\ Stored(p)' = StoredIn(allBloops', p)
  BY DEF Stored, StoredIn
<1>4. /\ Ahead(p) = Counted(p) - Stored(p) - brought[p]
      /\ Ahead(p)' = Counted(p)' - Stored(p)' - brought'[p]
  BY DEF Ahead
<1> QED BY <1>1, <1>2, <1>3, <1>4

(* Of the engine's steps only Accept changes what is counted, ...           *)
LEMMA OnlyAcceptCounts ==
    ASSUME HandlerInv, HandlerInv', [Next]_vars, ~Accept, ~AppCall, NEW p
    PROVE  CountedIn(heap', p) = CountedIn(heap, p)
<1>1. HeapOK(heap) /\ HeapOK(heap')
  BY DEF HeapOK, HandlerInv, RegistryInv, RegistryTypeOK
<1>2. CASE UNCHANGED registryVars
  BY <1>2 DEF registryVars
<1>3. CASE ApplyAwarded
  <2>1. heap' = [o \in Objs |->
                   IF heap[o] # None /\ byId[heap[o].id] = o
                   THEN [heap[o] EXCEPT !.awarded = @ \cup tracker[heap[o].id]]
                   ELSE heap[o]]
    BY <1>3 DEF ApplyAwarded, Granted
  <2>2. ASSUME NEW o \in Objs, heap[o] # None
        PROVE  heap'[o].id = heap[o].id /\ heap'[o].bloops = heap[o].bloops
    <3>1. heap[o] \in Player
      BY <1>1, <2>2 DEF HeapOK
    <3>2. CASE heap'[o] = heap[o]
      BY <3>2
    <3>3. CASE heap'[o] = [heap[o] EXCEPT !.awarded = @ \cup tracker[heap[o].id]]
      BY <3>1, <3>3 DEF Player
    <3> QED BY <2>1, <3>2, <3>3
  <2>3. \A o \in Objs : heap[o] = None => heap'[o] = None
    BY <2>1
  <2>4. \A o \in Objs : heap[o] # None => heap'[o] # None
    BY RegistryKept
  <2> QED BY <1>1, <2>2, <2>3, <2>4, CountedSame
<1>4. UNCHANGED registryVars \/ ApplyAwarded
  BY DEF Next, Send, EngineStep, ScanTrigger, StartBloop, NoAudio, SpawnAudio, PreloadCheck, Lookup,
     Throttled, LockState, EvaluateTrigger, EvaluateMinBloops, EvaluateOther, FinishEvaluation, RemoveDuplicates,
     ReadAudio, Shutdown, AppNext, AppLockRegistry, AppUnlockRegistry, AppLockState, AppUnlockState,
     EngineTick, vars
<1> QED BY <1>2, <1>3, <1>4

(* ... and Accept by one, for the player of its bloop.                      *)
LEMMA AcceptCountsOne ==
    ASSUME HandlerInv, HandlerInv', Accept, NEW p
    PROVE  /\ CountedIn(heap', p) = CountedIn(heap, p) + (IF bloop'.pid = p THEN 1 ELSE 0)
           /\ CountedIn(heap, p) \in Nat
<1>1. HeapOK(heap) /\ HeapOK(heap')
  BY DEF HeapOK, HandlerInv, RegistryInv, RegistryTypeOK
<1>2. player \in Objs /\ heap[player] # None /\ heap[player] \in Player
  BY <1>1 DEF HandlerInv, PlayerOK, Accept, Busy, HeapOK
<1>3. /\ heap' = [heap EXCEPT ![player].bloops = @ + 1]
      /\ bloop' = [pid |-> heap[player].id, client |-> ClientOf[conn], at |-> now]
  BY DEF Accept
<1>4. /\ heap'[player].id = heap[player].id /\ heap'[player].bloops = heap[player].bloops + 1
      /\ \A q \in Objs \ {player} : heap'[q] = heap[q]
  BY <1>1, <1>2, <1>3 DEF HeapOK, Player
<1>5. heap'[player] # None
  BY <1>2, AcceptRegistry
<1>6. bloop'.pid = heap[player].id
  BY <1>3
<1>7. PICK o \in Objs : o = player
  BY <1>2
<1> QED BY <1>1, <1>2, <1>4, <1>5, <1>6, <1>7, CountedMore, CountedIsSum

(* What a call of the application changes in the counts is booked as        *)
(* brought, and nothing else is.                                            *)
LEMMA OnlyAppBrings ==
    ASSUME [Next]_vars, brought \in [Pids -> Int],
           \A p \in Pids : CountedIn(heap, p) \in Nat /\ CountedIn(heap', p) \in Nat
    PROVE  /\ brought' \in [Pids -> Int]
           /\ AppCall => \A p \in Pids : brought'[p] = brought[p] + CountedIn(heap', p) - CountedIn(heap, p)
           /\ ~AppCall => brought' = brought
<1>1. CASE AppCall
  <2>1. brought' = [p \in Pids |-> brought[p] + Counted(p)' - Counted(p)]
    BY <1>1 DEF AppCall
  <2>2. \A p \in Pids : Counted(p) = CountedIn(heap, p) /\ Counted(p)' = CountedIn(heap', p)
    BY TallyTerms
  <2>3. \A p \in Pids : brought'[p] = brought[p] + CountedIn(heap', p) - CountedIn(heap, p)
    BY <2>1, <2>2
  <2>4. \A p \in Pids : brought[p] + CountedIn(heap', p) - CountedIn(heap, p) \in Int
    OBVIOUS
  <2> QED BY <1>1, <2>1, <2>3, <2>4
<1>2. CASE ~AppCall
  <2>1. brought' = brought
    BY <1>2 DEF Next, Send, EngineStep, ScanTrigger, StartBloop, NoAudio, SpawnAudio, PreloadCheck, Lookup,
       Throttled, Accept, LockState, EvaluateTrigger, EvaluateMinBloops, EvaluateOther, FinishEvaluation,
       RemoveDuplicates, ApplyAwarded, ReadAudio, Shutdown, AppNext, AppLockRegistry, AppUnlockRegistry,
       AppLockState, AppUnlockState, EngineTick, vars, appVars
  <2> QED BY <1>2, <2>1
<1> QED BY <1>1, <1>2

(* Of all steps only Accept and ApplyAwarded begin and end with a bloop.    *)
LEMMA BloopKept ==
    ASSUME HistoryInv, [Next]_vars, ~Accept, ~ApplyAwarded
    PROVE  /\ pc = "stopped" => pc' = "stopped"
           /\ pc' # "stopped" => bloop' = bloop
<1>1. CASE \/ LockState \/ FinishEvaluation \/ RemoveDuplicates
           \/ \E a \in Aids : EvaluateTrigger(a) \/ EvaluateMinBloops(a) \/ EvaluateOther(a)
  <2>1. pc \in Late /\ bloop' = bloop
    BY <1>1 DEF LockState, EvaluateTrigger, EvaluateMinBloops, EvaluateOther, FinishEvaluation,
       RemoveDuplicates, localVars, Late
  <2> QED BY <2>1 DEF Late
<1>2. CASE Lookup \/ Throttled
  <2>1. pc \notin Late \cup {"stopped"} /\ (bloop' = bloop \/ bloop' = NoBloop)
    BY <1>2 DEF Lookup, Throttled, BackToIdle, Late
  <2> QED BY <2>1 DEF HistoryInv
<1>3. CASE \E c \in Conns : ScanTrigger(c) \/ StartBloop(c) \/ NoAudio(c) \/ SpawnAudio(c) \/ PreloadCheck(c)
  <2>1. pc # "stopped" /\ bloop' = bloop
    BY <1>3 DEF ScanTrigger, StartBloop, NoAudio, SpawnAudio, PreloadCheck, Receive, engineVars, localVars
  <2> QED BY <2>1
<1>4. CASE Shutdown
  BY <1>4 DEF Shutdown
<1>5. CASE ~EngineStep /\ ~Shutdown
  BY <1>5 DEF Next, Send, ReadAudio, AppNext, AppLockRegistry, AppUnlockRegistry, AppLockState,
     AppUnlockState, AppCall, EngineTick, vars, engineVars, localVars
<1> QED BY <1>1, <1>2, <1>3, <1>4, <1>5 DEF EngineStep

(* How a step changes the engine's lead: it goes with the bloop in hand.    *)
LEMMA AheadStep ==
    ASSUME HandlerInv, HandlerInv', HistoryInv, TallyInv, [Next]_vars, NEW p \in Pids
    PROVE  /\ CountedIn(heap', p) \in Nat /\ StoredIn(allBloops', p) \in Nat
           /\ Ahead(p) \in Int
           /\ ~Accept /\ ~ApplyAwarded => Ahead(p)' = Ahead(p)
           /\ Accept => Ahead(p)' = Ahead(p) + (IF bloop'.pid = p THEN 1 ELSE 0)
           /\ ApplyAwarded => Ahead(p)' = Ahead(p) - (IF bloop.pid = p THEN 1 ELSE 0)
<1> DEFINE C == CountedIn(heap, p)
<1> DEFINE D == CountedIn(heap', p)
<1> DEFINE St == StoredIn(allBloops, p)
<1>1. allBloops \in Seq(Bloop) /\ HeapOK(heap')
  BY DEF HandlerInv, HistoryInv, CollectionsInv, BloopTypeOK, RegistryInv, RegistryTypeOK, HeapOK
<1>2. C \in Nat /\ St \in Nat /\ D \in Nat
  BY <1>1, CountedIsSum DEF TallyInv
<1>3. \A q \in Pids : CountedIn(heap, q) \in Nat /\ CountedIn(heap', q) \in Nat
  BY <1>1, CountedIsSum DEF TallyInv
<1>4. /\ brought[p] \in Int
      /\ AppCall => brought'[p] = brought[p] + D - C
      /\ ~AppCall => brought'[p] = brought[p]
  BY <1>3, OnlyAppBrings DEF TallyInv
<1>5. ~Accept /\ ~AppCall => D = C
  BY OnlyAcceptCounts
<1>6. Accept => D = C + (IF bloop'.pid = p THEN 1 ELSE 0)
  BY AcceptCountsOne
<1>7. ~ApplyAwarded => StoredIn(allBloops', p) = St
  BY BloopSteps DEF bloopVars
<1>8. ApplyAwarded => StoredIn(allBloops', p) = St + (IF bloop.pid = p THEN 1 ELSE 0)
  <2> SUFFICES ASSUME ApplyAwarded PROVE StoredIn(allBloops', p) = St + (IF bloop.pid = p THEN 1 ELSE 0)
    OBVIOUS
  <2>1. allBloops' = <<bloop>> \o allBloops /\ bloop \in Bloop
    BY DEF ApplyAwarded, AddBloop, Late, HandlerInv, BloopOK
  <2> QED BY <1>1, <2>1, StoredMore
<1>9. /\ Accept => ~AppCall /\ ~ApplyAwarded
      /\ ApplyAwarded => ~AppCall
  <2>1. Accept => pc # pc' /\ pc = "accept"
    BY DEF Accept
  <2>2. ApplyAwarded => pc # pc' /\ pc = "apply"
    BY DEF ApplyAwarded, BackToIdle
  <2>3. AppCall => pc' = pc
    BY DEF AppCall, engineVars
  <2> QED BY <2>1, <2>2, <2>3
<1>10. Ahead(p) = C - St - brought[p] /\ Ahead(p)' = D - StoredIn(allBloops', p) - brought'[p]
  BY TallyTerms
<1> HIDE DEF C, D, St
<1>11. CASE AppCall
  BY <1>2, <1>4, <1>7, <1>9, <1>10, <1>11 DEF D, St
<1>12. CASE Accept
  BY <1>2, <1>4, <1>6, <1>7, <1>9, <1>10, <1>12 DEF D, St
<1>13. CASE ApplyAwarded
  BY <1>2, <1>4, <1>5, <1>8, <1>9, <1>10, <1>13 DEF D, St
<1>14. CASE ~AppCall /\ ~Accept /\ ~ApplyAwarded
  BY <1>2, <1>4, <1>5, <1>7, <1>10, <1>14 DEF D, St
<1> QED BY <1>11, <1>12, <1>13, <1>14

(* Every step keeps the tally.                                              *)
LEMMA TallyStep ==
    ASSUME HandlerInv, HandlerInv', HistoryInv, HistoryInv', TallyInv, [Next]_vars
    PROVE  TallyInv'
<1> DEFINE One(b, p) == IF b # NoBloop /\ b.pid = p THEN 1 ELSE 0
<1> DEFINE A(p) == Ahead(p)
<1> DEFINE B(p) == Ahead(p)'
<1>0. \A b \in Bloop : b # NoBloop
  BY DEF Bloop, NoBloop
<1>1. /\ pc # "stopped" => \A p \in Pids : A(p) = One(bloop, p)
      /\ \A p \in Pids : A(p) \in {0, 1}
      /\ \A p, q \in Pids : p # q => A(p) = 0 \/ A(q) = 0
  BY DEF TallyInv, CountsMatchBloops
<1>2. \A p \in Pids :
        /\ CountedIn(heap', p) \in Nat /\ StoredIn(allBloops', p) \in Nat
        /\ ~Accept /\ ~ApplyAwarded => B(p) = A(p)
        /\ Accept => B(p) = A(p) + (IF bloop'.pid = p THEN 1 ELSE 0)
        /\ ApplyAwarded => B(p) = A(p) - (IF bloop.pid = p THEN 1 ELSE 0)
  BY AheadStep
<1>3. brought' \in [Pids -> Int]
  BY <1>2, OnlyAppBrings DEF TallyInv
<1>4. pc' \notin Late => bloop' = NoBloop
  BY DEF HistoryInv
<1> SUFFICES /\ pc' # "stopped" => \A p \in Pids : B(p) = One(bloop', p)
             /\ \A p \in Pids : B(p) \in {0, 1}
             /\ \A p, q \in Pids : p # q => B(p) = 0 \/ B(q) = 0
  BY <1>2, <1>3, <1>4 DEF TallyInv, CountsMatchBloops
<1> HIDE DEF A, B
<1>5. CASE ~Accept /\ ~ApplyAwarded
  <2>1. /\ pc = "stopped" => pc' = "stopped"
        /\ pc' # "stopped" => bloop' = bloop
    BY <1>5, BloopKept
  <2>2. \A p \in Pids : B(p) = A(p)
    BY <1>2, <1>5
  <2> QED BY <1>1, <2>1, <2>2
<1>6. CASE Accept \/ ApplyAwarded
  <2>1. pc # "stopped"
    BY <1>6 DEF Accept, ApplyAwarded
  <2>2. ASSUME NEW p \in Pids PROVE B(p) = One(bloop', p)
    <3>1. A(p) = One(bloop, p)
      BY <1>1, <2>1
    <3>2. CASE Accept
      <4>1. bloop = NoBloop /\ bloop' \in Bloop
        BY <3>2 DEF Accept, Late, HistoryInv, HandlerInv, BloopOK
      <4> QED BY <1>0, <1>2, <3>1, <3>2, <4>1
    <3>3. CASE ApplyAwarded
      <4>1. bloop' = NoBloop /\ bloop \in Bloop
        BY <3>3 DEF ApplyAwarded, BackToIdle, Late, HandlerInv, BloopOK
      <4> QED BY <1>0, <1>2, <3>1, <3>3, <4>1
    <3> QED BY <1>6, <3>2, <3>3
  <2>3. \A p, q \in Pids : p # q => One(bloop', p) = 0 \/ One(bloop', q) = 0
    OBVIOUS
  <2> QED BY <2>2, <2>3
<1> QED BY <1>5, <1>6

(* While the engine runs, the bloops it has counted on a player's objects   *)
(* are the bloops it has stored for the player and the one being handled; a *)
(* shutdown loses at most one bloop of one player.  Whatever counts players *)
(* come with, and whatever the application makes of them.                   *)
THEOREM CountsAgree == Spec => []CountsMatchBloops
<1>1. EngineInit /\ HandlerInv /\ HistoryInv => TallyInv
  <2> SUFFICES ASSUME EngineInit, HandlerInv, HistoryInv PROVE TallyInv
    OBVIOUS
  <2>1. bloop = NoBloop
    BY DEF EngineInit
  <2>2. HeapOK(heap) /\ allBloops \in Seq(Bloop)
    BY DEF HandlerInv, RegistryInv, RegistryTypeOK, HeapOK, HistoryInv, CollectionsInv, BloopTypeOK
  <2>3. ASSUME NEW p \in Pids PROVE CountedIn(heap, p) \in Nat /\ StoredIn(allBloops, p) \in Nat
    BY <2>2, CountedIsSum, StoredIsNat
  <2>4. \A p \in Pids : Counted(p) = CountedIn(heap, p) /\ Stored(p) = StoredIn(allBloops, p)
    BY TallyTerms
  <2>5. brought = [p \in Pids |-> Counted(p) - Stored(p)]
    BY DEF EngineInit
  <2>6. \A p \in Pids : brought[p] = CountedIn(heap, p) - StoredIn(allBloops, p) /\ brought[p] \in Int
    BY <2>3, <2>4, <2>5
  <2>7. brought \in [Pids -> Int]
    BY <2>5, <2>6
  <2>8. \A p \in Pids : Ahead(p) = 0
    BY <2>3, <2>6, TallyTerms
  <2> QED BY <2>1, <2>3, <2>7, <2>8 DEF TallyInv, CountsMatchBloops
<1>2. HandlerInv /\ HandlerInv' /\ HistoryInv /\ HistoryInv' /\ TallyInv /\ [Next]_vars => TallyInv'
  BY TallyStep
<1>3. HandlerInv /\ AwardInv => HandlerInv
  OBVIOUS
<1>4. TallyInv => CountsMatchBloops
  BY DEF TallyInv
<1> QED BY <1>1, <1>2, <1>3, <1>4, AwardInvariant, HistoryInvariant, PTL DEF Spec

-----------------------------------------------------------------------------
(* The engine arms triggers and uses them up, with the time of the bloop   *)
(* in hand, and touches them in no other way.                              *)
LEMMA EngineTriggers ==
    ASSUME HandlerInv, TriggerInv, [Next]_vars
    PROVE  TriggerInv'
<1>1. CASE UNCHANGED triggerVars
  BY <1>1 DEF triggerVars, TriggerInv, TriggerTypeOK, SlotAccounted, Armed, SpecOf
<1>2. ASSUME NEW c \in Conns, ScanTrigger(c) PROVE TriggerInv'
  <2>1. ClientOf[c] \in Clients /\ now \in 0..MaxTime
    BY EngineAssumption DEF HandlerInv, ValuesOK, ClockTypeOK
  <2> QED BY <1>2, <2>1, ActivateStep DEF ScanTrigger
<1>3. ASSUME NEW a \in Aids, EvaluateTrigger(a) PROVE TriggerInv'
  <2>1. bloop.client \in Clients /\ bloop.at \in Nat
    BY <1>3, MaxTimeAssumption DEF EvaluateTrigger, HandlerInv, BloopOK, Late, Bloop
  <2>2. TriggerOf[a] \in Triggers
    BY <1>3, EngineAssumption DEF EvaluateTrigger
  <2> QED BY <1>3, <2>1, <2>2, UseStep DEF EvaluateTrigger
<1>4. \/ \E c \in Conns : ScanTrigger(c)
      \/ \E a \in Aids : EvaluateTrigger(a)
      \/ UNCHANGED triggerVars
  BY DEF Next, Send, EngineStep, StartBloop, NoAudio, SpawnAudio, PreloadCheck, Lookup,
     Throttled, Accept, LockState, EvaluateMinBloops, EvaluateOther, FinishEvaluation, RemoveDuplicates,
     ApplyAwarded, ReadAudio, Shutdown, AppNext, AppLockRegistry, AppUnlockRegistry, AppLockState,
     AppUnlockState, AppCall, EngineTick, vars
<1> QED BY <1>1, <1>2, <1>3, <1>4

(* In the running engine, too, a trigger answers as often as its           *)
(* specification says for each scan that arms it: its evaluators ask with  *)
(* the time of a scan that may lie back, of several clients in turn, and a *)
(* tag may be scanned again while it is armed.                             *)
THEOREM EngineTriggersAreCounted == Spec => [](UsesBounded /\ ArmedWhileUsesLeft)
<1>1. EngineInit => TriggerInv
  BY NoneAssumption DEF EngineInit, TriggerInit, TriggerInv, TriggerTypeOK, SlotAccounted, Armed, NoTrigger
<1>2. HandlerInv /\ TriggerInv /\ [Next]_vars => TriggerInv'
  BY EngineTriggers
<1>3. TriggerInv => UsesBounded /\ ArmedWhileUsesLeft
  BY AccountingSuffices
<1>4. HandlerInv /\ AwardInv => HandlerInv
  OBVIOUS
<1> QED BY <1>1, <1>2, <1>3, <1>4, AwardInvariant, PTL DEF Spec
=============================================================================
