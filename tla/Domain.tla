------------------------------- MODULE Domain -------------------------------
(* The identifiers the framework's components share.                       *)
CONSTANTS
    Clients,  \* client ids: the boxes (String)
    Pids,     \* player ids (Uuid)
    Uids,     \* NFC UIDs of the tags (NfcUid)
    Aids,     \* ids of the registered achievements (Uuid)
    None      \* absent value (Option::None)

ASSUME NoneAssumption == None \notin Clients \cup Pids \cup Uids \cup Aids
=============================================================================
