------------------------------ MODULE MCHealth ------------------------------
(* The health monitor with one client whose connections overlap, a channel  *)
(* that it may lag behind and a sender that may fail; or, calmly, with two  *)
(* clients, of which one may get better while the other gets worse.         *)
EXTENDS HealthMonitor

CONSTANTS c1, c2, LastConn   \* LastConn: the connection of c2, which comes last

Seen == {sent[i].client : i \in DOMAIN sent}

(* A monitor that keeps up, reports delivered, connections lost one after   *)
(* the other.                                                               *)
Calm ==
    /\ state = "listen" /\ ~lagged /\ Len(sent) <= next
    /\ delivered = handed
    /\ \A i \in DOMAIN sent : sent[i].kind # "Disconnect"
    /\ \A j, k \in ConnIds :
        phase[j] = "open" /\ phase[k] = "open" /\ ClientOfConn(j) = ClientOfConn(k) => j = k

MCNext ==
    /\ HealthNext
    /\ c2 \in Seen' => Calm' /\ \A k \in ConnIds : phase'[k] # "unseen"
    /\ \A i \in DOMAIN sent' : sent'[i].client = c2 <=> sent'[i].conn = LastConn

MCFairSpec == HealthInit /\ [][MCNext]_healthVars /\ HealthFairness
=============================================================================
