------------------------- MODULE ExchangeInvariant --------------------------
(***************************************************************************)
(* The inductive invariant of Exchange.  Its heart is that a thread's copy  *)
(* of a row stays a copy of the row it will be saved to, however old it is, *)
(* in everything that identifies the document; the rest says which thread   *)
(* may exist beside which row, post and file.                               *)
(***************************************************************************)
EXTENDS Exchange

(* m and r are rows of one document: a save of m over r loses an outcome at *)
(* worst.                                                                   *)
SameDocument(m, r) ==
    /\ m.op = r.op /\ m.kind = r.kind /\ m.peer = r.peer
    /\ m.docId = r.docId /\ m.senderTx = r.senderTx
    /\ IsSentTranscriptAck(r) \/ m.file = r.file

(* Rows from the next identity value on do not exist yet.                   *)
FreshRows == \A k \in Key : k[2] >= nextId[k[1]] => rows[k].op = "NONE"

SentRows ==
    \A k \in Key : rows[k].op = "SEND" => rows[k].senderTx = 0 /\ rows[k].peer \in Server

(* A sending thread has its own row and a copy of the row it saves to.      *)
Senders ==
    \A t \in Key :
        /\ sender[t].pc \in Active =>
              /\ rows[t].op = "SEND"
              /\ sender[t].saveTo \in Key
              /\ rows[sender[t].saveTo].op = "SEND"
              /\ SameDocument(sender[t].mem, rows[sender[t].saveTo])
        /\ sender[t].pc = "created" => post[t].state = "none"
        /\ sender[t].pc = "failing" => sender[t].saveTo = t
        /\ sender[t].pc = "ok" => post[t].state = "answered"

(* A document is received after it was posted, and its sender is answered   *)
(* after its receipt was recorded.                                          *)
Posts ==
    \A t \in Key :
        /\ post[t].state # "none" => /\ rows[t].op = "SEND"
                                     /\ post[t].to \in Server
                                     /\ post[t].file \in Key
        /\ post[t].state \in {"none", "sent"} => recv[t].pc = "idle" /\ recv[t].row = 0
        /\ post[t].state = "answered" => recv[t].row # 0

(* What a receiving thread knows of its document: it has a file, which is   *)
(* in the inbox, or it has an error and no file.                            *)
Receivers ==
    \A t \in Key : recv[t].pc \in Working =>
        LET m == recv[t].mem IN
        /\ m.op = "RECEIVE" /\ m.peer = t[1] /\ m.senderTx = t[2]
        /\ \/ m.file = NoKey /\ m.error /\ ~m.request /\ m.status = "FAILURE"
           \/ m.file = post[t].file /\ m.file \in files[post[t].to]
        /\ recv[t].pc = "transcriptAck" => m.file = post[t].file
        /\ recv[t].pc = "received" <=> recv[t].row = 0

(* A recorded receipt stays on record, with the file that was posted or     *)
(* none, and the thread that delivers it has a copy of it.                  *)
Receipts ==
    \A t \in Key : recv[t].row # 0 =>
        LET row == rows[ReceivedKey(t)] IN
        /\ row.op = "RECEIVE" /\ row.peer = t[1] /\ row.senderTx = t[2]
        /\ row.file \in {NoKey, post[t].file}
        /\ recv[t].pc \in Working => SameDocument(recv[t].mem, row)

(* A file that a receiving thread has stored and not yet recorded is its    *)
(* own.                                                                     *)
Unrecorded(t) == recv[t].pc = "received" /\ recv[t].mem.file # NoKey
StoredByOne ==
    \A t \in Key : Unrecorded(t) =>
        /\ \A k \in Key : k[1] = post[t].to /\ rows[k].op = "RECEIVE" =>
               rows[k].file # recv[t].mem.file
        /\ \A u \in Key : u # t /\ Unrecorded(u) /\ post[u].to = post[t].to =>
               recv[u].mem.file # recv[t].mem.file

RecordedInInbox ==
    \A k \in Key : rows[k].op = "RECEIVE" /\ rows[k].file # NoKey =>
        rows[k].file \in files[k[1]]

Handlers ==
    \A t \in Key : handler[t].pc = "found" =>
        LET k == <<t[1], handler[t].row>> IN
        /\ k \in Key /\ rows[k].op # "NONE" /\ ack[t].state = "taken"
        /\ SameDocument(handler[t].mem, rows[k])

(* An acknowledgement is sent once, after the receipt was recorded.         *)
AckAfterReceipt ==
    \A t \in Key : ack[t].state # "none" =>
        recv[t].row # 0 /\ recv[t].pc \notin {"deliver", "transcriptAck"}

IInv ==
    /\ TypeOK /\ FreshRows /\ SentRows /\ Senders /\ Posts /\ Receivers /\ Receipts
    /\ StoredByOne /\ RecordedInInbox /\ Handlers /\ AckAfterReceipt
    /\ StoredOnce /\ AcceptedMeansStored

-----------------------------------------------------------------------------
(* What is added to it where users send no transcripts, so that every       *)
(* acknowledgement names the row of its sender.                             *)
OfTranscripts == {"transcript", "transcriptAck"}

NoTranscripts ==
    \A t \in Key :
        /\ rows[t].op # "NONE" => rows[t].kind \notin OfTranscripts
        /\ post[t].state # "none" => post[t].kind \notin OfTranscripts
        /\ recv[t].pc \in Working => recv[t].mem.kind \notin OfTranscripts
        /\ recv[t].pc # "transcriptAck"

AcksNameTheirRow ==
    \A t \in Key :
        /\ ack[t].state # "none" => ack[t].docId = t[2]
        /\ handler[t].pc = "found" => handler[t].row = t[2]

PostedIsTheRow ==
    \A t \in Key : post[t].state # "none" =>
        post[t].to = rows[t].peer /\ post[t].file = rows[t].file

FreshSenders == \A k \in Key : rows[k].op = "NONE" => sender[k].pc = "idle"

(* A row, or a copy of it that may still be saved, reads SUCCESS only when  *)
(* its acceptance was handled.                                              *)
Accepted(t) == ack[t].state = "answered" /\ ack[t].code = "Accepted"
SuccessIsAccepted ==
    \A t \in Key :
        /\ rows[t].op = "SEND" /\ rows[t].status = "SUCCESS" => Accepted(t)
        /\ sender[t].pc \in Active /\ sender[t].mem.status = "SUCCESS" =>
               Accepted(sender[t].saveTo)

VerdictInv ==
    /\ IInv /\ NoTranscripts /\ AcksNameTheirRow /\ PostedIsTheRow
    /\ FreshSenders /\ SuccessIsAccepted /\ VerdictKept
=============================================================================
