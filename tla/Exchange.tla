------------------------------ MODULE Exchange ------------------------------
(***************************************************************************)
(* Document exchange between EDExchange network servers.                    *)
(*                                                                         *)
(* Every network server keeps one database table of Transaction rows, one   *)
(* inbox directory shared by all senders, and any number of threads:        *)
(*                                                                         *)
(*   sender[t]   the request thread that created SEND row t and POSTs its   *)
(*               document (sendFile, sendDocument, transcriptRequest and    *)
(*               sendTranscriptAcknowledgment);                             *)
(*   recv[t]     the thread that receives the POST of t (receiveFile) and   *)
(*               the @Async thread that delivers it (deliverFile);          *)
(*   handler[t]  the thread that handles the functional acknowledgement of  *)
(*               t at the server that sent t (acknowledgement).             *)
(*                                                                         *)
(* A SEND row is POSTed at most once, so posts, acknowledgements and        *)
(* threads are all indexed by the row that was sent.                        *)
(*                                                                         *)
(* A thread works on its own copy of a row (mem) and saves the whole copy:  *)
(* Transaction has neither @Version nor @DynamicUpdate, so a save overwrites *)
(* whatever another thread stored in between.                               *)
(***************************************************************************)
EXTENDS Naturals

CONSTANTS
    Server,      \* the network servers
    NoServer,    \* a value that is no server
    MaxRow,      \* bound: rows of one server's transactions table
    MaxSends,    \* bound: uploads, transcript requests and resends of users
    MaxCrashes,  \* bound: crashes of servers
    Kinds,       \* kinds of documents that users send
    DocIds       \* DocumentIDs that occur in transcripts (0: not a number)

UserKind == {"transcript", "document", "request"}
Kind == UserKind \union {"transcriptAck", "functionalAck"}

ASSUME ExchangeAssumption ==
    /\ NoServer \notin Server
    /\ MaxRow \in Nat /\ MaxSends \in Nat /\ MaxCrashes \in Nat
    /\ Kinds \subseteq UserKind
    /\ DocIds \subseteq 0..MaxRow

VARIABLES
    rows,     \* the transactions tables
    nextId,   \* next identity value of each table
    files,    \* names of the files in each inbox directory
    sender,   \* sending threads
    post,     \* POSTs to the inbox of another server
    recv,     \* receiving and delivering threads
    ack,      \* functional acknowledgements
    handler,  \* threads that handle an acknowledgement
    sends, crashes  \* counters for the bounds

vars == <<rows, nextId, files, sender, post, recv, ack, handler, sends, crashes>>

-----------------------------------------------------------------------------
(* Rows, threads and messages *)

RowId == 1..MaxRow
Key == Server \X RowId
NoKey == <<NoServer, 0>>

(* A Transaction.  file is the name of the document (the outbox file of the *)
(* SEND row that first used it), docId the DocumentID inside a transcript.  *)
Row == [op : {"NONE", "SEND", "RECEIVE"},
        kind : Kind,
        peer : Server \union {NoServer},
        file : Key \union {NoKey},
        request : BOOLEAN,
        status : {"null", "SUCCESS", "FAILURE"},
        acknowledged : BOOLEAN,
        error : BOOLEAN,
        ackFile : BOOLEAN,
        senderTx : 0..MaxRow,
        docId : 0..MaxRow]

NoRow == [op |-> "NONE", kind |-> "document", peer |-> NoServer,
          file |-> NoKey, request |-> FALSE, status |-> "null",
          acknowledged |-> FALSE, error |-> FALSE, ackFile |-> FALSE,
          senderTx |-> 0, docId |-> 0]

SendRow(kind, r, file, docId) ==
    [NoRow EXCEPT !.op = "SEND", !.kind = kind, !.peer = r, !.file = file,
                  !.docId = docId]

Active == {"created", "posted", "failing"}
Sender == [pc : Active \union {"idle", "ok", "failed", "crashed"},
           saveTo : Key \union {NoKey},
           mem : Row]
NoSender == [pc |-> "idle", saveTo |-> NoKey, mem |-> NoRow]

Post == [state : {"none", "sent", "taken", "answered", "lost"},
         to : Server \union {NoServer},
         kind : Kind,
         file : Key \union {NoKey},
         docId : 0..MaxRow,
         request : BOOLEAN]
NoPost == [state |-> "none", to |-> NoServer, kind |-> "document",
           file |-> NoKey, docId |-> 0, request |-> FALSE]

Working == {"received", "deliver", "transcriptAck", "acking"}
Recv == [pc : Working \union {"idle", "ok", "failed", "crashed"},
         row : 0..MaxRow,
         child : 0..MaxRow,
         mem : Row]
NoRecv == [pc |-> "idle", row |-> 0, child |-> 0, mem |-> NoRow]

Ack == [state : {"none", "sent", "taken", "answered", "lost"},
        docId : 0..MaxRow,
        code : {"Accepted", "Rejected"}]
NoAck == [state |-> "none", docId |-> 0, code |-> "Accepted"]

Handler == [pc : {"idle", "found"}, row : 0..MaxRow, mem : Row]
NoHandler == [pc |-> "idle", row |-> 0, mem |-> NoRow]

TypeOK ==
    /\ rows \in [Key -> Row]
    /\ nextId \in [Server -> 1..(MaxRow + 1)]
    /\ files \in [Server -> SUBSET Key]
    /\ sender \in [Key -> Sender]
    /\ post \in [Key -> Post]
    /\ recv \in [Key -> Recv]
    /\ ack \in [Key -> Ack]
    /\ handler \in [Key -> Handler]
    /\ sends \in 0..MaxSends
    /\ crashes \in 0..MaxCrashes

Init ==
    /\ rows = [k \in Key |-> NoRow]
    /\ nextId = [s \in Server |-> 1]
    /\ files = [s \in Server |-> {}]
    /\ sender = [k \in Key |-> NoSender]
    /\ post = [k \in Key |-> NoPost]
    /\ recv = [k \in Key |-> NoRecv]
    /\ ack = [k \in Key |-> NoAck]
    /\ handler = [k \in Key |-> NoHandler]
    /\ sends = 0
    /\ crashes = 0

-----------------------------------------------------------------------------
(* Table operations.  create and update of TransactionService are both      *)
(* repository.save(transaction): they write every column of the row.        *)

HasRoom(s) == nextId[s] <= MaxRow
Fresh(s) == <<s, nextId[s]>>

Create(s, row) ==
    /\ HasRoom(s)
    /\ rows' = [rows EXCEPT ![Fresh(s)] = row]
    /\ nextId' = [nextId EXCEPT ![s] = @ + 1]

Save(k, row) == rows' = [rows EXCEPT ![k] = row]

Exists(k) == k \in Key /\ rows[k].op # "NONE"

-----------------------------------------------------------------------------
(* Sending *)

UserSend == sends < MaxSends /\ sends' = sends + 1

StartSender(t, saveTo, mem) ==
    sender' = [sender EXCEPT ![t] =
                  [pc |-> "created", saveTo |-> saveTo, mem |-> mem]]

SenderDone(t, pc) ==
    sender' = [sender EXCEPT ![t].pc = pc, ![t].mem = NoRow]

(* POST /outbox.  The row is saved before the transcript request that goes  *)
(* with every document that is not PESCXML is built: its requestFilePath    *)
(* stays in the thread's copy.                                              *)
SendFile(s, r, kind, request, docId) ==
    LET t == Fresh(s)
        row == SendRow(kind, r, t, docId)
    IN  /\ UserSend
        /\ Create(s, row)
        /\ StartSender(t, t, [row EXCEPT !.request = request])
        /\ UNCHANGED <<files, post, recv, ack, handler, crashes>>

(* POST /transcript-requests: the document is itself a transcript request.  *)
RequestTranscript(s, r) ==
    LET t == Fresh(s)
        row == SendRow("request", r, t, 0)
    IN  /\ UserSend
        /\ Create(s, row)
        /\ StartSender(t, t, row)
        /\ UNCHANGED <<files, post, recv, ack, handler, crashes>>

(* GET /send?transaction_id=o: a new row for the same file; the thread also *)
(* keeps its copy of the original row o, on which it reports a failure.     *)
Resend(s, o) ==
    LET tx == rows[o] IN
    /\ UserSend
    /\ o[1] = s /\ tx.op = "SEND"
    /\ Create(s, SendRow(tx.kind, tx.peer, tx.file, tx.docId))
    /\ StartSender(Fresh(s), o, tx)
    /\ UNCHANGED <<files, post, recv, ack, handler, crashes>>

IsResend(t) == sender[t].saveTo # t

(* A row that transcriptRequest could not write its document for: a file of *)
(* that name exists, which leaves the status alone, or writing it failed.   *)
RequestNotWritten(t) ==
    /\ sender[t].pc = "created" /\ rows[t].kind = "request" /\ ~IsResend(t)
    /\ \E status \in {sender[t].mem.status, "FAILURE"} :
          Save(t, [sender[t].mem EXCEPT !.error = TRUE, !.status = status])
    /\ SenderDone(t, "failed")
    /\ UNCHANGED <<nextId, files, post, recv, ack, handler, sends, crashes>>

(* A resend that finds no endpoint reports it on its own row.               *)
ResendNoEndpoint(t) ==
    LET tran == SendRow(rows[t].kind, rows[t].peer, rows[t].file, rows[t].docId)
    IN
    /\ sender[t].pc = "created" /\ IsResend(t)
    /\ Save(t, [tran EXCEPT !.error = TRUE])
    /\ SenderDone(t, "failed")
    /\ UNCHANGED <<nextId, files, post, recv, ack, handler, sends, crashes>>

(* An exception outside of the try block: the endpoint lookup of a resend,  *)
(* the builder of a transcript request.  Nothing is saved.                  *)
Abandon(t) ==
    /\ sender[t].pc = "created"
    /\ IsResend(t) \/ rows[t].kind = "request"
    /\ SenderDone(t, "failed")
    /\ UNCHANGED <<rows, nextId, files, post, recv, ack, handler, sends, crashes>>

(* The POST to the recipient's inbox.  transcriptRequest saves its row once *)
(* more before it.                                                          *)
PostDocument(t) ==
    LET m == IF IsResend(t) THEN rows[t] ELSE sender[t].mem IN
    /\ sender[t].pc = "created" /\ m.file # NoKey
    /\ rows' = IF m.kind = "request" /\ ~IsResend(t)
               THEN [rows EXCEPT ![t] = m] ELSE rows
    /\ sender' = [sender EXCEPT ![t].pc = "posted"]
    /\ post' = [post EXCEPT ![t] =
                   [state |-> "sent", to |-> m.peer, kind |-> m.kind,
                    file |-> m.file, docId |-> m.docId,
                    request |-> m.request]]
    /\ UNCHANGED <<nextId, files, recv, ack, handler, sends, crashes>>

(* A send that stores its outcome as soon as it is answered.                *)
SendOkSaving(t) ==
    /\ sender[t].pc = "posted" /\ post[t].state = "answered"
    /\ Save(t, sender[t].mem)
    /\ SenderDone(t, "ok")
    /\ UNCHANGED <<nextId, files, post, recv, ack, handler, sends, crashes>>

(* The response arrived.  Only sendTranscriptAcknowledgment saves the row.  *)
SendOk(t) ==
    /\ sender[t].pc = "posted" /\ post[t].state = "answered"
    /\ rows' = IF rows[t].kind = "transcriptAck" /\ ~IsResend(t)
               THEN [rows EXCEPT ![t] = [sender[t].mem EXCEPT !.status = "SUCCESS"]]
               ELSE rows
    /\ SenderDone(t, "ok")
    /\ UNCHANGED <<nextId, files, post, recv, ack, handler, sends, crashes>>

(* Signing or the POST failed, or its response did not arrive: the error is *)
(* saved with the thread's copy of the row.  transcriptRequest saves twice. *)
SendFails(t) ==
    LET m == [sender[t].mem EXCEPT !.error = TRUE]
        own == ~IsResend(t)
    IN  /\ sender[t].pc \in {"created", "posted"}
        /\ IsResend(t) => rows[t].file # NoKey
        /\ IF own /\ m.kind = "transcriptAck"
           THEN Save(t, [m EXCEPT !.status = "FAILURE"])
           ELSE Save(sender[t].saveTo, m)
        /\ IF own /\ m.kind = "request"
           THEN sender' = [sender EXCEPT ![t].pc = "failing", ![t].mem = m]
           ELSE SenderDone(t, "failed")
        /\ UNCHANGED <<nextId, files, post, recv, ack, handler, sends, crashes>>

SendFailsAgain(t) ==
    /\ sender[t].pc = "failing"
    /\ Save(t, sender[t].mem)
    /\ SenderDone(t, "failed")
    /\ UNCHANGED <<nextId, files, post, recv, ack, handler, sends, crashes>>

-----------------------------------------------------------------------------
(* Receiving: POST /inbox *)

Receipt(t) ==
    [NoRow EXCEPT !.op = "RECEIVE", !.kind = post[t].kind, !.peer = t[1],
                  !.status = "FAILURE", !.acknowledged = TRUE,
                  !.senderTx = t[2], !.docId = post[t].docId]

ReceiveAnswered(t, mem) ==
    /\ post[t].state = "sent"
    /\ post' = [post EXCEPT ![t].state = "answered"]
    /\ recv' = [recv EXCEPT ![t].pc = "received", ![t].mem = mem]
    /\ UNCHANGED <<rows, nextId, sender, ack, handler, sends, crashes>>

Receive(t, mem) ==
    /\ post[t].state = "sent"
    /\ post' = [post EXCEPT ![t].state = "taken"]
    /\ recv' = [recv EXCEPT ![t].pc = "received", ![t].mem = mem]
    /\ UNCHANGED <<rows, nextId, sender, ack, handler, sends, crashes>>

ReceiveUnverifiedSilently(t) ==
    /\ Receive(t, Receipt(t))
    /\ UNCHANGED files

(* The directory has no key of an enabled signer, or the signature is wrong.*)
ReceiveUnverified(t) ==
    /\ Receive(t, [Receipt(t) EXCEPT !.error = TRUE])
    /\ UNCHANGED files

InInbox(t) == post[t].file \in files[post[t].to]

(* createNewFile found a file of that name in the inbox.                    *)
ReceiveDuplicate(t) ==
    /\ post[t].state = "sent" /\ InInbox(t)
    /\ Receive(t, [Receipt(t) EXCEPT !.error = TRUE])
    /\ UNCHANGED files

StoreFileBlindly(t) ==
    /\ post[t].state = "sent"
    /\ files' = [files EXCEPT ![post[t].to] = @ \union {post[t].file}]

StoreFile(t) ==
    /\ post[t].state = "sent" /\ ~InInbox(t)
    /\ files' = [files EXCEPT ![post[t].to] = @ \union {post[t].file}]

ReceiveStored(t) ==
    /\ StoreFile(t)
    /\ Receive(t, [Receipt(t) EXCEPT !.file = post[t].file,
                                     !.request = post[t].request,
                                     !.status = "SUCCESS"])

(* The file is in the inbox, but it is not valid or an I/O error was met:   *)
(* before the request file was created, after it, or, for PESCXML, when the *)
(* document was read again to validate it.                                  *)
ReceiveDamaged(t, request, status) ==
    /\ request => post[t].request
    /\ status = "SUCCESS" => ~post[t].request
    /\ StoreFile(t)
    /\ Receive(t, [Receipt(t) EXCEPT !.file = post[t].file,
                                     !.request = request,
                                     !.status = status,
                                     !.error = TRUE])

(* The finally block inserts the row; then deliverFile is started and the   *)
(* sender is answered 200, whatever the status is.                          *)
RecordReceipt(t) ==
    LET r == post[t].to IN
    /\ recv[t].pc = "received"
    /\ Create(r, recv[t].mem)
    /\ recv' = [recv EXCEPT ![t].pc = "deliver", ![t].row = nextId[r]]
    /\ post' = [post EXCEPT ![t].state = "answered"]
    /\ UNCHANGED <<files, sender, ack, handler, sends, crashes>>

RecvDone(t, pc) ==
    recv' = [recv EXCEPT ![t].pc = pc, ![t].mem = NoRow]

(* The insert fails: the sender is answered 500, nothing is delivered, and a *)
(* file that was stored stays in the inbox.                                 *)
ReceiptNotSaved(t) ==
    /\ recv[t].pc = "received"
    /\ post' = [post EXCEPT ![t].state = "lost"]
    /\ RecvDone(t, "failed")
    /\ UNCHANGED <<rows, nextId, files, sender, ack, handler, sends, crashes>>

-----------------------------------------------------------------------------
(* Delivery: the @Async method deliverFile *)

IsTranscript(m) == m.status = "SUCCESS" /\ m.kind = "transcript"

(* The transcript that a transcript acknowledgement names is a transcript   *)
(* the server knows; whether the two agree is left open.                    *)
TranscriptKnown(r, m) ==
    LET k == <<r, m.docId>> IN
    Exists(k) /\ rows[k].file # NoKey /\ rows[k].kind = "transcript"

(* The transcript is accepted, and a transcript acknowledgement is sent by  *)
(* this thread first.  Its row has no file until it is saved at the end.    *)
DeliverTranscript(t) ==
    LET r == post[t].to
        m == recv[t].mem
        k == Fresh(r)
        row == SendRow("transcriptAck", m.peer, NoKey, m.docId)
    IN  /\ recv[t].pc = "deliver" /\ IsTranscript(m)
        /\ Create(r, row)
        /\ StartSender(k, k, [row EXCEPT !.file = k])
        /\ recv' = [recv EXCEPT ![t].pc = "transcriptAck", ![t].child = k[2]]
        /\ UNCHANGED <<files, post, ack, handler, sends, crashes>>

SendAck(t, docId, code) ==
    /\ recv' = [recv EXCEPT ![t].pc = "acking", ![t].mem.ackFile = TRUE]
    /\ ack' = [ack EXCEPT ![t] = [state |-> "sent", docId |-> docId, code |-> code]]
    /\ UNCHANGED <<rows, nextId, files, sender, post, handler, sends, crashes>>

Child(t) == <<post[t].to, recv[t].child>>
ChildOk(t) == recv[t].pc = "transcriptAck" /\ sender[Child(t)].pc = "ok"
ChildDone(t) ==
    recv[t].pc = "transcriptAck" /\ sender[Child(t)].pc \in {"ok", "failed"}

(* The acknowledgement of a transcript names the transcript's DocumentID.   *)
AckTranscript(t) ==
    /\ ChildDone(t)
    /\ SendAck(t, recv[t].mem.docId, "Accepted")

(* A document that came with a transcript request is accepted.              *)
AckRequest(t) ==
    LET m == recv[t].mem IN
    /\ recv[t].pc = "deliver" /\ ~IsTranscript(m) /\ m.request
    /\ SendAck(t, m.senderTx, "Accepted")

(* createFunctionalAcknowledgement: everything else is acknowledged from    *)
(* what the row says.                                                       *)
AckRow(t) ==
    LET m == recv[t].mem IN
    /\ recv[t].pc = "deliver" /\ ~IsTranscript(m) /\ ~m.request
    /\ (m.status = "SUCCESS" /\ m.kind = "transcriptAck") =>
           TranscriptKnown(post[t].to, m)
    /\ SendAck(t, m.senderTx, IF m.error THEN "Rejected" ELSE "Accepted")

ReceivedKeyAsSent(t) == <<post[t].to, t[2]>>
ReceivedKey(t) == <<post[t].to, recv[t].row>>

(* Any exception of deliverFile: no acknowledgement is sent.                *)
DeliverFails(t) ==
    /\ recv[t].pc = "deliver" \/ ChildDone(t)
    /\ Save(ReceivedKey(t), [recv[t].mem EXCEPT !.acknowledged = FALSE,
                                                !.error = TRUE,
                                                !.status = "FAILURE"])
    /\ RecvDone(t, "failed")
    /\ UNCHANGED <<nextId, files, sender, post, ack, handler, sends, crashes>>

(* sendAck returned: it was answered, or it failed and that was logged.     *)
FinishDelivery(t) ==
    /\ recv[t].pc = "acking"
    /\ Save(ReceivedKey(t), recv[t].mem)
    /\ RecvDone(t, "ok")
    /\ UNCHANGED <<nextId, files, sender, post, ack, handler, sends, crashes>>

-----------------------------------------------------------------------------
(* The acknowledgement handler: POST /acknowledgement *)

AckedKey(t) == <<t[1], ack[t].docId>>

FindAcknowledged(t) ==
    LET k == AckedKey(t) IN
    /\ ack[t].state = "sent" /\ Exists(k)
    /\ handler' = [handler EXCEPT ![t] =
                      [pc |-> "found", row |-> k[2], mem |-> rows[k]]]
    /\ ack' = [ack EXCEPT ![t].state = "taken"]
    /\ UNCHANGED <<rows, nextId, files, sender, post, recv, sends, crashes>>

(* The delivery status that an acknowledgement code stands for.             *)
RawVerdict(code) == code
AnyVerdict(code) == "SUCCESS"
Verdict(code) == IF code = "Accepted" THEN "SUCCESS" ELSE "FAILURE"

(* The handler looks neither at the operation of the row it found nor at    *)
(* its error, which an acceptance leaves as it is.                          *)
Acknowledge(t) ==
    LET m == handler[t].mem IN
    /\ handler[t].pc = "found"
    /\ Save(<<t[1], handler[t].row>>,
            [m EXCEPT !.acknowledged = TRUE,
                      !.ackFile = TRUE,
                      !.status = Verdict(ack[t].code),
                      !.error = @ \/ ack[t].code = "Rejected"])
    /\ handler' = [handler EXCEPT ![t] = NoHandler]
    /\ ack' = [ack EXCEPT ![t].state = "answered"]
    /\ UNCHANGED <<nextId, files, sender, post, recv, sends, crashes>>

(* No row has that id: the acknowledgement gets a row of its own and is     *)
(* answered 400.                                                            *)
AcknowledgeUnknown(t) ==
    /\ ack[t].state = "sent" /\ ~Exists(AckedKey(t))
    /\ Create(t[1], [NoRow EXCEPT !.op = "RECEIVE", !.kind = "functionalAck",
                                  !.peer = post[t].to,
                                  !.status = "FAILURE", !.error = TRUE])
    /\ ack' = [ack EXCEPT ![t].state = "answered"]
    /\ UNCHANGED <<files, sender, post, recv, handler, sends, crashes>>

-----------------------------------------------------------------------------
(* The network and the processes *)

LosePost(t) ==
    /\ post[t].state = "sent"
    /\ post' = [post EXCEPT ![t].state = "lost"]
    /\ UNCHANGED <<rows, nextId, files, sender, recv, ack, handler, sends, crashes>>

LoseAck(t) ==
    /\ ack[t].state = "sent"
    /\ ack' = [ack EXCEPT ![t].state = "lost"]
    /\ UNCHANGED <<rows, nextId, files, sender, post, recv, handler, sends, crashes>>

(* A crash ends every thread of s: the table and the inbox survive.         *)
Crash(s) ==
    /\ crashes < MaxCrashes
    /\ crashes' = crashes + 1
    /\ sender' = [k \in Key |->
          IF k[1] = s /\ sender[k].pc \in Active
          THEN [sender[k] EXCEPT !.pc = "crashed", !.mem = NoRow]
          ELSE sender[k]]
    /\ recv' = [k \in Key |->
          IF post[k].to = s /\ recv[k].pc \in Working
          THEN [recv[k] EXCEPT !.pc = "crashed", !.mem = NoRow]
          ELSE recv[k]]
    /\ post' = [k \in Key |->
          IF post[k].to = s /\ post[k].state = "taken"
          THEN [post[k] EXCEPT !.state = "lost"]
          ELSE post[k]]
    /\ handler' = [k \in Key |-> IF k[1] = s THEN NoHandler ELSE handler[k]]
    /\ ack' = [k \in Key |->
          IF k[1] = s /\ ack[k].state = "taken"
          THEN [ack[k] EXCEPT !.state = "lost"]
          ELSE ack[k]]
    /\ UNCHANGED <<rows, nextId, files, sends>>

-----------------------------------------------------------------------------
User(s) ==
    \/ \E r \in Server, kind \in Kinds \ {"request"}, request \in BOOLEAN :
          \E docId \in IF kind = "transcript" THEN DocIds ELSE {0} :
             SendFile(s, r, kind, request, docId)
    \/ \E r \in Server : "request" \in Kinds /\ RequestTranscript(s, r)
    \/ \E o \in Key : Resend(s, o)

SenderStep(t) ==
    \/ RequestNotWritten(t) \/ ResendNoEndpoint(t) \/ Abandon(t)
    \/ PostDocument(t) \/ SendOk(t) \/ SendFails(t) \/ SendFailsAgain(t)

ReceiveStep(t) ==
    \/ ReceiveUnverified(t) \/ ReceiveDuplicate(t) \/ ReceiveStored(t)
    \/ \E request \in BOOLEAN, status \in {"SUCCESS", "FAILURE"} :
          ReceiveDamaged(t, request, status)

DeliverStep(t) ==
    \/ RecordReceipt(t) \/ ReceiptNotSaved(t)
    \/ DeliverTranscript(t) \/ AckTranscript(t) \/ AckRequest(t) \/ AckRow(t)
    \/ DeliverFails(t) \/ FinishDelivery(t)

HandlerStep(t) == FindAcknowledged(t) \/ Acknowledge(t) \/ AcknowledgeUnknown(t)

Next ==
    \/ \E s \in Server : User(s) \/ Crash(s)
    \/ \E t \in Key : \/ SenderStep(t) \/ ReceiveStep(t) \/ DeliverStep(t)
                      \/ HandlerStep(t) \/ LosePost(t) \/ LoseAck(t)

Spec == Init /\ [][Next]_vars

-----------------------------------------------------------------------------
(* Safety *)

(* The inbox never holds one file for two receipts: two RECEIVE rows of a   *)
(* server name different files, whatever is resent, however two receipts of *)
(* one file race, and wherever the server crashed in between.               *)
StoredOnce ==
    \A k, l \in Key :
        /\ k # l /\ k[1] = l[1]
        /\ rows[k].op = "RECEIVE" /\ rows[l].op = "RECEIVE"
        /\ rows[k].file # NoKey
        => rows[k].file # rows[l].file

(* A sender that was answered has a receipt: a RECEIVE row at the recipient *)
(* names its transaction, even if the recipient crashed right afterwards.   *)
AnsweredIsRecorded ==
    \A t \in Key : sender[t].pc = "ok" =>
        \E k \in Key : /\ k[1] = post[t].to /\ rows[k].op = "RECEIVE"
                       /\ rows[k].peer = t[1] /\ rows[k].senderTx = t[2]

(* An acknowledgement is built from the delivering thread's copy of the     *)
(* row.  Whatever became of the row: an acceptance is only ever sent for a  *)
(* document whose receipt is on record and whose file is in the inbox.      *)
AcceptedMeansStored ==
    \A t \in Key : ack[t].state # "none" /\ ack[t].code = "Accepted" =>
        /\ rows[ReceivedKey(t)].file = post[t].file
        /\ post[t].file \in files[post[t].to]

(* A document that the sender reads as delivered was delivered.             *)
SuccessMeansStored ==
    \A t \in Key :
        /\ rows[t].op = "SEND" /\ rows[t].kind # "transcriptAck"
        /\ rows[t].status = "SUCCESS"
        => /\ ack[t].state = "answered"
           /\ \E k \in Key : /\ k[1] = rows[t].peer /\ rows[k].op = "RECEIVE"
                             /\ rows[k].senderTx = t[2] /\ rows[k].peer = t[1]
                             /\ rows[k].file = rows[t].file

(* The verdict of an acknowledgement stays on the row it was about unless a *)
(* failed send of that row, or of a resend of it, overwrote it.  (A send    *)
(* that a crash ended may have failed and saved the row before the crash.)  *)
VerdictKept ==
    \A t \in Key :
        /\ ack[t].state = "answered" /\ AckedKey(t) = t
        /\ rows[t].kind # "transcriptAck"
        /\ \A u \in Key : sender[u].saveTo = t =>
                sender[u].pc \in {"idle", "created", "posted", "ok"}
        => /\ rows[t].acknowledged /\ rows[t].ackFile
           /\ rows[t].status = IF ack[t].code = "Accepted" THEN "SUCCESS" ELSE "FAILURE"

IsSentTranscriptAck(row) == row.op = "SEND" /\ row.kind = "transcriptAck"

(* Whoever saves a whole row saves it to the row it was read from: no save  *)
(* ever turns a row into the row of another document or of another         *)
(* operation, and no save takes a document's file away.  (The file of a     *)
(* transcript acknowledgement is only stored when its send has ended.)      *)
RowsKeepTheirDocument ==
    [][\A k \in Key : rows[k].op # "NONE" =>
          /\ rows'[k].op = rows[k].op /\ rows'[k].kind = rows[k].kind
          /\ rows'[k].peer = rows[k].peer /\ rows'[k].docId = rows[k].docId
          /\ rows'[k].senderTx = rows[k].senderTx
          /\ IsSentTranscriptAck(rows[k]) \/ rows'[k].file = rows[k].file
      ]_vars

-----------------------------------------------------------------------------
(* What the documentation says of the program and the code does not do      *)

(* DocumentController says of a POST's transaction_id: "This is the         *)
(* identifier of the transaction record from the sending network server, we *)
(* send it back".                                                           *)
AckNamesSenderTransaction ==
    \A t \in Key : ack[t].state = "sent" => ack[t].docId = t[2]

(* documentation.html: "The sender's network server updates the transaction *)
(* with the acknowledgement."                                               *)
AckStaysOnRow ==
    \A t \in Key : ack[t].state = "answered" /\ AckedKey(t) = t =>
        rows[t].acknowledged

(* FileProcessorService says of deliverFile: "When this method is invoked,  *)
(* the document has already been received and stored in the file system."   *)
DeliveredIsStored ==
    \A t \in Key : recv[t].pc = "deliver" => recv[t].mem.file # NoKey

-----------------------------------------------------------------------------
(* Liveness.  A thread that is not blocked goes on, and the network delivers *)
(* a message or breaks its connection.  Nothing makes a user send, a server *)
(* crash, or one outcome of a step happen rather than another.              *)

Fairness ==
    \A t \in Key :
        /\ WF_vars(SenderStep(t))
        /\ WF_vars(ReceiveStep(t) \/ LosePost(t))
        /\ WF_vars(DeliverStep(t))
        /\ WF_vars(HandlerStep(t) \/ LoseAck(t))

FairSpec == Spec /\ Fairness

(* The exchange broke: a message was lost, a delivery failed or crashed.    *)
Broken(t) == \/ post[t].state = "lost" \/ ack[t].state = "lost"
             \/ recv[t].pc \in {"failed", "crashed"}

(* A posted document is acknowledged unless the exchange breaks; a delivery *)
(* that waits for the send of a transcript acknowledgement does not wait    *)
(* forever, and neither does the send that waits for another delivery.      *)
PostedIsAcknowledged ==
    \A t \in Key : post[t].state = "sent" ~> (ack[t].state = "answered" \/ Broken(t))

(* Every thread comes to its end.                                           *)
ThreadsEnd ==
    \A t \in Key : /\ (sender[t].pc \in Active) ~> (sender[t].pc \notin Active)
                   /\ (recv[t].pc \in Working) ~> (recv[t].pc \notin Working)

=============================================================================
