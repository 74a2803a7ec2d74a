------------------------------ MODULE Delivery ------------------------------
(***************************************************************************)
(* What the exchange of documents promises, without rows, threads or        *)
(* messages.  A transfer carries one document to one inbox.  A document is  *)
(* stored in an inbox by at most one of the transfers that carry it, and a  *)
(* transfer gets at most one verdict, an acceptance only when it stored its *)
(* document.                                                                *)
(***************************************************************************)
CONSTANTS Transfer, Document, NoDocument

VARIABLES
    document,  \* what a transfer carries, and to which inbox
    fate,      \* what became of the transfer
    verdict    \* what its sender is told

vars == <<document, fate, verdict>>

TypeOK ==
    /\ document \in [Transfer -> Document \union {NoDocument}]
    /\ fate \in [Transfer -> {"none", "sent", "stored", "refused"}]
    /\ verdict \in [Transfer -> {"none", "Accepted", "Rejected"}]

Init ==
    /\ document = [t \in Transfer |-> NoDocument]
    /\ fate = [t \in Transfer |-> "none"]
    /\ verdict = [t \in Transfer |-> "none"]

Send(t) ==
    /\ fate[t] = "none"
    /\ \E d \in Document : document' = [document EXCEPT ![t] = d]
    /\ fate' = [fate EXCEPT ![t] = "sent"]
    /\ UNCHANGED verdict

Store(t) ==
    /\ fate[t] = "sent"
    /\ \A u \in Transfer : fate[u] = "stored" => document[u] # document[t]
    /\ fate' = [fate EXCEPT ![t] = "stored"]
    /\ UNCHANGED <<document, verdict>>

Refuse(t) ==
    /\ fate[t] = "sent"
    /\ fate' = [fate EXCEPT ![t] = "refused"]
    /\ UNCHANGED <<document, verdict>>

Accept(t) ==
    /\ verdict[t] = "none" /\ fate[t] = "stored"
    /\ verdict' = [verdict EXCEPT ![t] = "Accepted"]
    /\ UNCHANGED <<document, fate>>

Reject(t) ==
    /\ verdict[t] = "none" /\ fate[t] \in {"stored", "refused"}
    /\ verdict' = [verdict EXCEPT ![t] = "Rejected"]
    /\ UNCHANGED <<document, fate>>

Next == \E t \in Transfer :
    Send(t) \/ Store(t) \/ Refuse(t) \/ Accept(t) \/ Reject(t)

Spec == Init /\ [][Next]_vars
=============================================================================
