--------------------------- MODULE PlayerRegistry ---------------------------
(***************************************************************************)
(* The player registry of src/player.rs: two hash maps, by_id and          *)
(* by_nfc_uid, that share the same Arc<RwLock<Player>> objects.            *)
(*                                                                         *)
(* What the registry can get wrong is aliasing: a key that still leads to  *)
(* an object the other map has forgotten.  Player objects therefore have   *)
(* an identity (Objs) and the maps hold references to them.  A player is   *)
(* reduced to what the framework reads of it through PlayerInfo and writes *)
(* through PlayerMutator; its id never changes ("the unique player ID").   *)
(*                                                                         *)
(* Names carry the prefix Registry so that larger specifications can       *)
(* extend this module.                                                     *)
(***************************************************************************)
EXTENDS Naturals, Domain

CONSTANTS
    Objs,      \* player objects; how many there are bounds the calls of add
    AppPlayers \* the players the application adds, and what its mutators make of one

VARIABLES
    heap,   \* the player behind each Arc; None: the object does not exist yet
    byId,   \* by_id
    byUid   \* by_nfc_uid

registryVars == <<heap, byId, byUid>>

Player == [id: Pids, uid: Uids, awarded: SUBSET Aids, bloops: Nat]

ASSUME RegistryAssumption ==
    None \notin Objs /\ None \notin Player /\ AppPlayers \subseteq Player

RegistryTypeOK ==
    /\ heap \in [Objs -> Player \cup {None}]
    /\ byId \in [Pids -> Objs \cup {None}]
    /\ byUid \in [Uids -> Objs \cup {None}]

-----------------------------------------------------------------------------
(* PlayerRegistry::new of an empty list.                                   *)
RegistryInit ==
    /\ heap = [o \in Objs |-> None]
    /\ byId = [i \in Pids |-> None]
    /\ byUid = [u \in Uids |-> None]

(* PlayerRegistry::new of a list of players, with the bloops and the       *)
(* achievements they have: loaded gives the player of each object made.  Of *)
(* players that share an id or a tag, the map keeps one.                    *)
RegistryLoaded(loaded) ==
    /\ heap = [o \in Objs |-> IF o \in DOMAIN loaded THEN loaded[o] ELSE None]
    /\ byId \in [Pids -> Objs \cup {None}]
    /\ \A i \in Pids : LET os == {o \in DOMAIN loaded : loaded[o].id = i} IN
                         IF os = {} THEN byId[i] = None ELSE byId[i] \in os
    /\ byUid \in [Uids -> Objs \cup {None}]
    /\ \A u \in Uids : LET os == {o \in DOMAIN loaded : loaded[o].uid = u} IN
                         IF os = {} THEN byUid[u] = None ELSE byUid[u] \in os

(* by_id.insert and by_nfc_uid.insert of one new Arc.  Whatever the two    *)
(* keys led to before is overwritten, nothing else is touched.             *)
RegistryAdd(p) ==
    \E o \in Objs :
        /\ heap[o] = None
        /\ heap' = [heap EXCEPT ![o] = p]
        /\ byId' = [byId EXCEPT ![p.id] = o]
        /\ byUid' = [byUid EXCEPT ![p.uid] = o]

(* get_by_nfc_uid.                                                         *)
GetByNfcUid(uid) == byUid[uid]

MoveUidKeepsOld(o, old, new) == [byUid EXCEPT ![new] = o]

(* The by_nfc_uid map after the tag of object o changed from old to new.   *)
MoveUid(o, old, new) ==
    IF old = new THEN byUid ELSE [byUid EXCEPT ![old] = None, ![new] = o]

(* mutate_by_id with a mutator that makes p of the player with p's id: any *)
(* tag, bloops and achievements.  An unknown id does nothing.              *)
MutateById(p) ==
    /\ byId[p.id] # None
    /\ LET o == byId[p.id] IN
        /\ heap' = [heap EXCEPT ![o] = p]
        /\ byUid' = MoveUid(o, heap[o].uid, p.uid)
    /\ UNCHANGED byId

RegistryRemoveKeepsUid(id) ==
    /\ byId[id] # None
    /\ byId' = [byId EXCEPT ![id] = None]
    /\ UNCHANGED <<heap, byUid>>

(* remove: the by_nfc_uid entry that goes is the one under the player's    *)
(* present tag, whoever it leads to.  An unknown id does nothing.          *)
RegistryRemove(id) ==
    /\ byId[id] # None
    /\ byId' = [byId EXCEPT ![id] = None]
    /\ byUid' = [byUid EXCEPT ![heap[byId[id]].uid] = None]
    /\ UNCHANGED heap

-----------------------------------------------------------------------------
(* Every call the public interface allows.                                 *)
RegistryNext ==
    \/ \E p \in AppPlayers : RegistryAdd(p) \/ MutateById(p)
    \/ \E id \in Pids : RegistryRemove(id)

RegistrySpec == RegistryInit /\ [][RegistryNext]_registryVars

(* A caller that keeps tags and ids unique: it adds a player only under an *)
(* id and a tag nobody has, and hands out only tags nobody has.            *)
UidFree(id, uid) == \A i \in Pids \ {id} : byId[i] # None => heap[byId[i]].uid # uid

CarefulAdd(p) == byId[p.id] = None /\ UidFree(p.id, p.uid) /\ RegistryAdd(p)

CarefulMutate(p) == UidFree(p.id, p.uid) /\ MutateById(p)

CarefulNext ==
    \/ \E p \in AppPlayers : CarefulAdd(p) \/ CarefulMutate(p)
    \/ \E id \in Pids : RegistryRemove(id)

CarefulSpec == RegistryInit /\ [][CarefulNext]_registryVars

(* Players are added carefully, but tags move between them freely, as when *)
(* two players swap their tags by two calls of mutate_by_id.               *)
SwapNext == \E p \in AppPlayers : CarefulAdd(p) \/ MutateById(p)

SwapSpec == RegistryInit /\ [][SwapNext]_registryVars

-----------------------------------------------------------------------------
(* A scan never resolves to a player that carries another tag, and an id   *)
(* never resolves to another player, whatever sequence of add, remove and  *)
(* mutate_by_id came before: get_by_nfc_uid and get_by_id return the right *)
(* player or nobody, even after tags collided.                             *)
LookupSound ==
    /\ \A i \in Pids : byId[i] # None => heap[byId[i]] # None /\ heap[byId[i]].id = i
    /\ \A u \in Uids : byUid[u] # None => heap[byUid[u]] # None /\ heap[byUid[u]].uid = u

(* The two maps agree: every registered player is found under the tag it   *)
(* carries now, and every tag that is found leads to the object registered *)
(* under that player's id.  This is what "keep internal lookup maps in     *)
(* sync" asks for; it holds for callers that keep ids and tags unique.     *)
InSync ==
    /\ \A i \in Pids : byId[i] # None => byUid[heap[byId[i]].uid] = byId[i]
    /\ \A u \in Uids : byUid[u] # None => byId[heap[byUid[u]].id] = byUid[u]

=============================================================================
