-------------------------- MODULE ExchangeDelivery --------------------------
(***************************************************************************)
(* Exchange implements Delivery.  A row that was sent is a transfer; it has *)
(* stored its document when its receipt is on record with a file, and its   *)
(* verdict is the one the recipient's acknowledgement carries.              *)
(***************************************************************************)
EXTENDS Exchange

Carried(t) == IF post[t].state = "none" THEN NoKey ELSE <<post[t].to, post[t].file>>

Fate(t) ==
    IF post[t].state = "none" THEN "none"
    ELSE IF recv[t].row = 0 THEN "sent"
    ELSE IF rows[ReceivedKey(t)].file = NoKey THEN "refused" ELSE "stored"

Told(t) == IF ack[t].state = "none" THEN "none" ELSE ack[t].code

documentBar == [t \in Key |-> Carried(t)]
fateBar == [t \in Key |-> Fate(t)]
verdictBar == [t \in Key |-> Told(t)]

D == INSTANCE Delivery WITH
    Transfer <- Key,
    Document <- Server \X Key,
    NoDocument <- NoKey,
    document <- documentBar,
    fate <- fateBar,
    verdict <- verdictBar

(* Every behaviour of the exchange, with its threads, stale saves and       *)
(* crashes, is a behaviour of Delivery: no document is stored twice under   *)
(* one name, no transfer gets two verdicts, none is accepted unstored.      *)
Delivers == D!Spec
=============================================================================
