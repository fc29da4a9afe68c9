--------------------------- MODULE ConnectionEvents ---------------------------
(***************************************************************************)
(* What src/event.rs promises about client connections, as the receivers   *)
(* of the event channel rely on it: a connection announces itself with one *)
(* ClientConnect and then ends with one ClientDisconnect or one            *)
(* ClientConnectionLoss, for the same client and with the same conn_id.    *)
(* Connections are independent of one another: the events of several       *)
(* connections of one client interleave in any order.                      *)
(***************************************************************************)
EXTENDS Naturals, Sequences

CONSTANTS Clients, ConnIds

Ends == {"Disconnect", "ConnectionLoss"}
ClientEvent == [kind: {"Connect"} \cup Ends, client: Clients, conn: ConnIds]

VARIABLES
    phase,  \* conn_id -> "unseen", "open" or "closed"
    sent    \* every client event sent, in the order of the channel

eventVars == <<phase, sent>>

EventsTypeOK ==
    /\ phase \in [ConnIds -> {"unseen", "open", "closed"}]
    /\ sent \in Seq(ClientEvent)

EventsInit ==
    /\ phase = [k \in ConnIds |-> "unseen"]
    /\ sent = <<>>

Announce(k, c) ==
    /\ phase[k] = "unseen"
    /\ phase' = [phase EXCEPT ![k] = "open"]
    /\ sent' = Append(sent, [kind |-> "Connect", client |-> c, conn |-> k])

(* The client of an open connection is the one it announced.               *)
ClientOfConn(k) ==
    sent[CHOOSE i \in DOMAIN sent : sent[i].kind = "Connect" /\ sent[i].conn = k].client

End(k, kind) ==
    /\ phase[k] = "open"
    /\ phase' = [phase EXCEPT ![k] = "closed"]
    /\ sent' = Append(sent, [kind |-> kind, client |-> ClientOfConn(k), conn |-> k])

EventsNext ==
    \E k \in ConnIds :
        \/ \E c \in Clients : Announce(k, c)
        \/ \E kind \in Ends : End(k, kind)

EventsSpec == EventsInit /\ [][EventsNext]_eventVars
=============================================================================
