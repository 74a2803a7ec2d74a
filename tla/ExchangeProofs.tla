--------------------------- MODULE ExchangeProofs ---------------------------
(* Theorems about Exchange, for every number of servers, rows, sends and    *)
(* crashes.                                                                 *)
EXTENDS ExchangeInvariant, ExchangeDelivery, TLAPS

-----------------------------------------------------------------------------
(* Facts about keys and empty records *)

LEMMA NoKeyNotKey == NoKey \notin Key
  BY ExchangeAssumption DEF NoKey, Key, RowId

LEMMA KeyFacts ==
    ASSUME NEW s \in Server, NEW i \in RowId
    PROVE  /\ <<s, i>> \in Key
           /\ \A k \in Key : k[1] \in Server /\ k[2] \in RowId /\ k = <<k[1], k[2]>>
  BY DEF Key

LEMMA EmptyTypes ==
    /\ NoRow \in Row
    /\ NoSender \in Sender
    /\ NoPost \in Post
    /\ NoRecv \in Recv
    /\ NoAck \in Ack
    /\ NoHandler \in Handler
  <1>1. NoRow \in Row
    BY ExchangeAssumption DEF NoRow, Row, Kind, UserKind
  <1>2. QED
    BY <1>1, ExchangeAssumption
       DEF NoSender, Sender, NoPost, Post, NoRecv, Recv, NoAck, Ack,
           NoHandler, Handler, Kind, UserKind, Active, Working

(* What a send row and a receipt are made of.                               *)
LEMMA SendRowType ==
    ASSUME NEW kind \in Kind, NEW r \in Server \union {NoServer},
           NEW file \in Key \union {NoKey}, NEW docId \in 0..MaxRow
    PROVE  SendRow(kind, r, file, docId) \in Row
  BY EmptyTypes DEF SendRow, Row

LEMMA ReceiptType ==
    ASSUME TypeOK, NEW t \in Key
    PROVE  Receipt(t) \in Row
  <1>1. post[t] \in Post /\ t[1] \in Server /\ t[2] \in 0..MaxRow
    BY ExchangeAssumption DEF TypeOK, Key, RowId
  <1>2. post[t].kind \in Kind /\ post[t].docId \in 0..MaxRow
    BY <1>1 DEF Post
  <1>3. QED
    BY <1>1, <1>2, EmptyTypes DEF Receipt, Row

LEMMA FreshIsKey ==
    ASSUME TypeOK, NEW s \in Server, HasRoom(s)
    PROVE  /\ Fresh(s) \in Key
           /\ nextId[s] \in RowId
           /\ nextId[s] + 1 \in 1..(MaxRow + 1)
           /\ Fresh(s)[1] = s /\ Fresh(s)[2] = nextId[s]
  BY ExchangeAssumption DEF TypeOK, HasRoom, Fresh, Key, RowId

LEMMA CreateType ==
    ASSUME TypeOK, NEW s \in Server, NEW row \in Row, Create(s, row)
    PROVE  /\ rows' \in [Key -> Row]
           /\ nextId' \in [Server -> 1..(MaxRow + 1)]
           /\ Fresh(s) \in Key
  <1>1. HasRoom(s)
    BY DEF Create
  <1>2. QED
    BY <1>1, FreshIsKey DEF Create, TypeOK, Fresh

LEMMA SaveType ==
    ASSUME TypeOK, NEW k \in Key, NEW row \in Row, Save(k, row)
    PROVE  rows' \in [Key -> Row]
  BY DEF Save, TypeOK

LEMMA StartSenderType ==
    ASSUME TypeOK, NEW t \in Key, NEW k \in Key, NEW row \in Row,
           StartSender(t, k, row)
    PROVE  sender' \in [Key -> Sender]
  BY DEF StartSender, TypeOK, Sender, Active

LEMMA SenderDoneType ==
    ASSUME TypeOK, NEW t \in Key, NEW pc \in {"ok", "failed"}, SenderDone(t, pc)
    PROVE  sender' \in [Key -> Sender]
  BY EmptyTypes DEF SenderDone, TypeOK, Sender, Active

LEMMA ReceiveType ==
    ASSUME TypeOK, NEW t \in Key, NEW row \in Row, Receive(t, row),
           files' = files \/ StoreFile(t), post[t].to \in Server, post[t].file \in Key
    PROVE  TypeOK'
  <1>1. recv' \in [Key -> Recv]
    <2>1. [recv[t] EXCEPT !.pc = "received", !.mem = row] \in Recv
      BY DEF TypeOK, Recv, Working
    <2>2. recv' = [recv EXCEPT ![t] = [recv[t] EXCEPT !.pc = "received", !.mem = row]]
      BY DEF Receive, TypeOK
    <2>3. QED
      BY <2>1, <2>2 DEF TypeOK
  <1>2. post' \in [Key -> Post]
    BY DEF Receive, TypeOK, Post
  <1>3. files' \in [Server -> SUBSET Key]
    BY DEF StoreFile, TypeOK
  <1>4. QED
    BY <1>1, <1>2, <1>3 DEF Receive, TypeOK

LEMMA RecvDoneType ==
    ASSUME TypeOK, NEW t \in Key, NEW pc \in {"ok", "failed"}, RecvDone(t, pc)
    PROVE  recv' \in [Key -> Recv]
  <1>1. recv[t] \in Recv
    BY DEF TypeOK
  <1>2. [recv[t] EXCEPT !.pc = pc, !.mem = NoRow] \in Recv
    BY <1>1, EmptyTypes DEF Recv
  <1>3. QED
    BY <1>2 DEF RecvDone, TypeOK

-----------------------------------------------------------------------------
(* Type correctness of every step *)

LEMMA SendTypes ==
    ASSUME IInv, NEW s \in Server,
           User(s)
    PROVE  TypeOK'
  <1> USE DEF IInv
  <1>1. ASSUME NEW kind \in Kind, NEW r \in Server, NEW docId \in 0..MaxRow,
               NEW saveTo \in Key \union {Fresh(s)}, NEW mem \in Row,
               NEW file \in Key \union {NoKey, Fresh(s)},
               Create(s, SendRow(kind, r, file, docId)),
               StartSender(Fresh(s), saveTo, mem), UserSend,
               UNCHANGED <<files, post, recv, ack, handler, crashes>>
        PROVE  TypeOK'
    <2>1. HasRoom(s) /\ Fresh(s) \in Key
      BY <1>1, FreshIsKey DEF Create
    <2>2. SendRow(kind, r, file, docId) \in Row
      BY <2>1, SendRowType
    <2>3. sender' \in [Key -> Sender]
      BY <1>1, <2>1, StartSenderType
    <2>4. sends' \in 0..MaxSends
      BY <1>1, ExchangeAssumption DEF UserSend, TypeOK
    <2>5. QED
      BY <1>1, <2>2, <2>3, <2>4, CreateType DEF TypeOK
  <1>2. ASSUME NEW r \in Server, NEW kind \in Kinds \ {"request"},
               NEW request \in BOOLEAN,
               NEW docId \in IF kind = "transcript" THEN DocIds ELSE {0},
               SendFile(s, r, kind, request, docId)
        PROVE  TypeOK'
    <2> DEFINE row == SendRow(kind, r, Fresh(s), docId)
    <2>1. kind \in Kind /\ docId \in 0..MaxRow
      BY <1>2, ExchangeAssumption DEF Kind
    <2>2. Fresh(s) \in Key
      BY <1>2, FreshIsKey DEF SendFile, Create
    <2>3. row \in Row
      BY <2>1, <2>2, SendRowType
    <2>4. [row EXCEPT !.request = request] \in Row
      BY <2>3 DEF Row
    <2>5. QED
      BY <1>1, <1>2, <2>1, <2>2, <2>4 DEF SendFile
  <1>3. ASSUME NEW r \in Server, RequestTranscript(s, r)
        PROVE  TypeOK'
    <2>1. "request" \in Kind /\ 0 \in 0..MaxRow
      BY ExchangeAssumption DEF Kind, UserKind
    <2>2. Fresh(s) \in Key
      BY <1>3, FreshIsKey DEF RequestTranscript, Create
    <2>3. SendRow("request", r, Fresh(s), 0) \in Row
      BY <2>1, <2>2, SendRowType
    <2>4. QED
      BY <1>1, <1>3, <2>1, <2>2, <2>3 DEF RequestTranscript
  <1>4. ASSUME NEW o \in Key, Resend(s, o)
        PROVE  TypeOK'
    <2>1. rows[o] \in Row /\ rows[o].peer \in Server
      BY <1>4 DEF Resend, TypeOK, SentRows
    <2>2. rows[o].kind \in Kind /\ rows[o].file \in Key \union {NoKey}
          /\ rows[o].docId \in 0..MaxRow
      BY <2>1 DEF Row
    <2>3. QED
      BY <1>1, <1>4, <2>1, <2>2 DEF Resend
  <1>5. QED
    BY <1>2, <1>3, <1>4 DEF User

LEMMA SenderTypes ==
    ASSUME IInv, NEW t \in Key, SenderStep(t)
    PROVE  TypeOK'
  <1> USE DEF IInv
  <1> DEFINE s == sender[t]
  <1>1. /\ s \in Sender /\ s.mem \in Row /\ rows[t] \in Row
        /\ s.pc \in Active => s.saveTo \in Key
    BY DEF TypeOK, Sender, Senders
  <1>2. /\ [s.mem EXCEPT !.error = TRUE] \in Row
        /\ [s.mem EXCEPT !.error = TRUE, !.status = "FAILURE"] \in Row
        /\ [s.mem EXCEPT !.status = "SUCCESS"] \in Row
        /\ [[s.mem EXCEPT !.error = TRUE] EXCEPT !.status = "FAILURE"] \in Row
    BY <1>1 DEF Row
  <1>3. CASE RequestNotWritten(t)
    BY <1>2, <1>3, SaveType, SenderDoneType DEF RequestNotWritten, TypeOK
  <1>4. CASE ResendNoEndpoint(t)
    <2> DEFINE tran == SendRow(rows[t].kind, rows[t].peer, rows[t].file, rows[t].docId)
    <2>1. tran \in Row
      BY <1>1, SendRowType DEF Row
    <2>2. [tran EXCEPT !.error = TRUE] \in Row
      BY <2>1 DEF Row
    <2>3. QED
      BY <1>4, <2>2, SaveType, SenderDoneType DEF ResendNoEndpoint, TypeOK
  <1>5. CASE Abandon(t)
    BY <1>5, SenderDoneType DEF Abandon, TypeOK
  <1>6. CASE PostDocument(t)
    <2> DEFINE m == IF IsResend(t) THEN rows[t] ELSE s.mem
    <2>1. m \in Row
      BY <1>1
    <2>2. rows' \in [Key -> Row]
      BY <1>6, <2>1 DEF PostDocument, TypeOK
    <2>3. [state |-> "sent", to |-> m.peer, kind |-> m.kind, file |-> m.file,
           docId |-> m.docId, request |-> m.request] \in Post
      BY <2>1 DEF Row, Post
    <2>4. post' \in [Key -> Post]
      BY <1>6, <2>3 DEF PostDocument, TypeOK
    <2>5. sender' \in [Key -> Sender]
      BY <1>6, <1>1 DEF PostDocument, TypeOK, Sender, Active
    <2>6. QED
      BY <1>6, <2>2, <2>4, <2>5 DEF PostDocument, TypeOK
  <1>7. CASE SendOk(t)
    <2>1. rows' \in [Key -> Row]
      BY <1>2, <1>7 DEF SendOk, TypeOK
    <2>2. QED
      BY <1>7, <2>1, SenderDoneType DEF SendOk, TypeOK
  <1>8. CASE SendFails(t)
    <2>1. rows' \in [Key -> Row]
      BY <1>1, <1>2, <1>8, SaveType DEF SendFails, Active
    <2>2. [s EXCEPT !.pc = "failing", !.mem = [s.mem EXCEPT !.error = TRUE]] \in Sender
      BY <1>1, <1>2 DEF Sender, Active
    <2>3. sender' \in [Key -> Sender]
      BY <1>8, <2>2, SenderDoneType DEF SendFails, TypeOK
    <2>4. QED
      BY <1>8, <2>1, <2>3 DEF SendFails, TypeOK
  <1>9. CASE SendFailsAgain(t)
    BY <1>1, <1>9, SaveType, SenderDoneType DEF SendFailsAgain, TypeOK
  <1>10. QED
    BY <1>3, <1>4, <1>5, <1>6, <1>7, <1>8, <1>9 DEF SenderStep

LEMMA ReceiveTypes ==
    ASSUME IInv, NEW t \in Key, ReceiveStep(t)
    PROVE  TypeOK'
  <1> USE DEF IInv
  <1>1. Receipt(t) \in Row /\ post[t] \in Post
    BY ReceiptType DEF TypeOK
  <1>2. post[t].file \in Key \union {NoKey} /\ post[t].request \in BOOLEAN
    BY <1>1 DEF Post
  <1>3. post[t].state = "sent" => post[t].to \in Server /\ post[t].file \in Key
    BY DEF Posts
  <1>4. CASE ReceiveUnverified(t)
    <2>1. [Receipt(t) EXCEPT !.error = TRUE] \in Row
      BY <1>1 DEF Row
    <2>2. QED
      BY <1>3, <1>4, <2>1, ReceiveType DEF ReceiveUnverified, Receive
  <1>5. CASE ReceiveDuplicate(t)
    <2>1. [Receipt(t) EXCEPT !.error = TRUE] \in Row
      BY <1>1 DEF Row
    <2>2. QED
      BY <1>3, <1>5, <2>1, ReceiveType DEF ReceiveDuplicate
  <1>6. CASE ReceiveStored(t)
    <2>1. [Receipt(t) EXCEPT !.file = post[t].file, !.request = post[t].request,
                             !.status = "SUCCESS"] \in Row
      BY <1>1, <1>2 DEF Row
    <2>2. QED
      BY <1>3, <1>6, <2>1, ReceiveType DEF ReceiveStored, StoreFile
  <1>7. ASSUME NEW request \in BOOLEAN, NEW status \in {"SUCCESS", "FAILURE"},
               ReceiveDamaged(t, request, status)
        PROVE  TypeOK'
    <2>1. [Receipt(t) EXCEPT !.file = post[t].file, !.request = request,
                             !.status = status, !.error = TRUE] \in Row
      BY <1>1, <1>2 DEF Row
    <2>2. QED
      BY <1>3, <1>7, <2>1, ReceiveType DEF ReceiveDamaged, StoreFile
  <1>8. QED
    BY <1>4, <1>5, <1>6, <1>7 DEF ReceiveStep

LEMMA DeliverTypes ==
    ASSUME IInv, NEW t \in Key, DeliverStep(t)
    PROVE  TypeOK'
  <1> USE DEF IInv
  <1> DEFINE m == recv[t].mem
             r == post[t].to
  <1>1. recv[t] \in Recv /\ m \in Row /\ post[t] \in Post
    BY DEF TypeOK, Recv
  <1>2. recv[t].pc \in Working => r \in Server /\ m.peer \in Server
    <2>1. recv[t].pc \in Working => post[t].state # "none"
      BY DEF Posts, Working
    <2>2. t[1] \in Server
      BY DEF Key
    <2>3. QED
      BY <2>1, <2>2, <1>1 DEF Posts, Receivers, Post
  <1>3. CASE RecordReceipt(t)
    <2>1. r \in Server /\ Create(r, m)
      BY <1>2, <1>3 DEF RecordReceipt, Working
    <2>2. rows' \in [Key -> Row] /\ nextId' \in [Server -> 1..(MaxRow + 1)]
      BY <2>1, <1>1, CreateType
    <2>3. nextId[r] \in 0..MaxRow
      BY <2>1, FreshIsKey, ExchangeAssumption DEF Create, RowId
    <2>4. [recv[t] EXCEPT !.pc = "deliver", !.row = nextId[r]] \in Recv
      BY <1>1, <2>3 DEF Recv, Working
    <2>5. recv' \in [Key -> Recv]
      BY <1>3, <2>4 DEF RecordReceipt, TypeOK
    <2>6. post' \in [Key -> Post]
      BY <1>3 DEF RecordReceipt, TypeOK, Post
    <2>7. QED
      BY <1>3, <2>2, <2>5, <2>6 DEF RecordReceipt, TypeOK
  <1>4. CASE DeliverTranscript(t)
    <2> DEFINE k == Fresh(r)
               row == SendRow("transcriptAck", m.peer, NoKey, m.docId)
    <2>1. r \in Server /\ Create(r, row) /\ HasRoom(r)
      BY <1>2, <1>4 DEF DeliverTranscript, Working, Create
    <2>2. row \in Row
      BY <1>1, SendRowType DEF Row, Kind
    <2>3. rows' \in [Key -> Row] /\ nextId' \in [Server -> 1..(MaxRow + 1)]
      BY <2>1, <2>2, CreateType
    <2>4. k \in Key /\ k[2] \in 0..MaxRow
      BY <2>1, FreshIsKey, ExchangeAssumption DEF RowId
    <2>5. [row EXCEPT !.file = k] \in Row
      BY <2>2, <2>4 DEF Row
    <2>6. sender' \in [Key -> Sender]
      BY <1>4, <2>4, <2>5, StartSenderType DEF DeliverTranscript
    <2>7. [recv[t] EXCEPT !.pc = "transcriptAck", !.child = k[2]] \in Recv
      BY <1>1, <2>4 DEF Recv, Working
    <2>8. recv' \in [Key -> Recv]
      BY <1>4, <2>7 DEF DeliverTranscript, TypeOK
    <2>9. QED
      BY <1>4, <2>3, <2>6, <2>8 DEF DeliverTranscript, TypeOK
  <1>5. ASSUME NEW docId \in 0..MaxRow, NEW code \in {"Accepted", "Rejected"},
               SendAck(t, docId, code)
        PROVE  TypeOK'
    <2>1. [m EXCEPT !.ackFile = TRUE] \in Row
      BY <1>1 DEF Row
    <2>2. [recv[t] EXCEPT !.pc = "acking", !.mem = [m EXCEPT !.ackFile = TRUE]] \in Recv
      BY <1>1, <2>1 DEF Recv, Working
    <2>3. recv' \in [Key -> Recv]
      BY <1>5, <2>2 DEF SendAck, TypeOK
    <2>4. ack' \in [Key -> Ack]
      BY <1>5 DEF SendAck, TypeOK, Ack
    <2>5. QED
      BY <1>5, <2>3, <2>4 DEF SendAck, TypeOK
  <1>6. CASE AckTranscript(t) \/ AckRequest(t) \/ AckRow(t)
    <2>1. m.docId \in 0..MaxRow /\ m.senderTx \in 0..MaxRow
      BY <1>1 DEF Row
    <2>2. QED
      BY <1>5, <1>6, <2>1 DEF AckTranscript, AckRequest, AckRow
  <1>7. ReceivedKey(t) \in Key \/ ~(recv[t].pc \in {"deliver", "transcriptAck", "acking"})
    <2>1. recv[t].row \in 0..MaxRow
      BY <1>1 DEF Recv
    <2>2. recv[t].pc \in {"deliver", "transcriptAck", "acking"} =>
              recv[t].row # 0 /\ r \in Server
      BY <1>2 DEF Receivers, Working
    <2>3. QED
      BY <2>1, <2>2, ExchangeAssumption DEF ReceivedKey, Key, RowId
  <1>8. CASE DeliverFails(t)
    <2>1. [m EXCEPT !.acknowledged = FALSE, !.error = TRUE, !.status = "FAILURE"] \in Row
      BY <1>1 DEF Row
    <2>2. QED
      BY <1>7, <1>8, <2>1, SaveType, RecvDoneType DEF DeliverFails, ChildDone, TypeOK
  <1>9. CASE FinishDelivery(t)
    BY <1>1, <1>7, <1>9, SaveType, RecvDoneType DEF FinishDelivery, TypeOK
  <1>10. CASE ReceiptNotSaved(t)
    <2>1. post' \in [Key -> Post]
      BY <1>10 DEF ReceiptNotSaved, TypeOK, Post
    <2>2. QED
      BY <1>10, <2>1, RecvDoneType DEF ReceiptNotSaved, TypeOK
  <1>11. QED
    BY <1>3, <1>4, <1>6, <1>8, <1>9, <1>10 DEF DeliverStep

LEMMA HandlerTypes ==
    ASSUME IInv, NEW t \in Key, HandlerStep(t)
    PROVE  TypeOK'
  <1> USE DEF IInv
  <1>1. /\ t[1] \in Server
        /\ handler[t] \in Handler /\ handler[t].mem \in Row
        /\ ack[t] \in Ack /\ post[t] \in Post
    BY DEF TypeOK, Key, Handler
  <1>2. CASE FindAcknowledged(t)
    <2> DEFINE k == AckedKey(t)
    <2>1. k \in Key /\ rows[k] \in Row
      BY <1>2 DEF FindAcknowledged, Exists, TypeOK
    <2>2. k[2] \in 0..MaxRow
      BY <2>1, ExchangeAssumption DEF Key, RowId
    <2>3. handler' \in [Key -> Handler]
      BY <1>2, <2>1, <2>2 DEF FindAcknowledged, TypeOK, Handler
    <2>4. ack' \in [Key -> Ack]
      BY <1>2 DEF FindAcknowledged, TypeOK, Ack
    <2>5. QED
      BY <1>2, <2>3, <2>4 DEF FindAcknowledged, TypeOK
  <1>3. CASE Acknowledge(t)
    <2> DEFINE m == handler[t].mem
               row == [m EXCEPT !.acknowledged = TRUE, !.ackFile = TRUE,
                                !.status = Verdict(ack[t].code),
                                !.error = @ \/ ack[t].code = "Rejected"]
    <2>1. Verdict(ack[t].code) \in {"SUCCESS", "FAILURE"}
      BY DEF Verdict
    <2>2. (m.error \/ ack[t].code = "Rejected") \in BOOLEAN
      OBVIOUS
    <2>3. row \in Row
      BY <1>1, <2>1, <2>2 DEF Row
    <2>4. <<t[1], handler[t].row>> \in Key
      BY <1>3 DEF Acknowledge, Handlers
    <2>5. rows' \in [Key -> Row]
      BY <1>3, <2>3, <2>4, SaveType DEF Acknowledge
    <2>6. handler' \in [Key -> Handler]
      BY <1>3, EmptyTypes DEF Acknowledge, TypeOK
    <2>7. ack' \in [Key -> Ack]
      BY <1>3 DEF Acknowledge, TypeOK, Ack
    <2>8. QED
      BY <1>3, <2>5, <2>6, <2>7 DEF Acknowledge, TypeOK
  <1>4. CASE AcknowledgeUnknown(t)
    <2> DEFINE row == [NoRow EXCEPT !.op = "RECEIVE", !.kind = "functionalAck",
                                    !.peer = post[t].to,
                                    !.status = "FAILURE", !.error = TRUE]
    <2>1. post[t].to \in Server \union {NoServer}
      BY <1>1 DEF Post
    <2>2. row \in Row
      BY <2>1, EmptyTypes DEF Row, Kind
    <2>3. rows' \in [Key -> Row] /\ nextId' \in [Server -> 1..(MaxRow + 1)]
      BY <1>1, <1>4, <2>2, CreateType DEF AcknowledgeUnknown
    <2>4. ack' \in [Key -> Ack]
      BY <1>4 DEF AcknowledgeUnknown, TypeOK, Ack
    <2>5. QED
      BY <1>4, <2>3, <2>4 DEF AcknowledgeUnknown, TypeOK
  <1>5. QED
    BY <1>2, <1>3, <1>4 DEF HandlerStep

LEMMA NetworkTypes ==
    ASSUME IInv, NEW t \in Key, LosePost(t) \/ LoseAck(t)
    PROVE  TypeOK'
  <1>1. post[t] \in Post /\ ack[t] \in Ack
    BY DEF IInv, TypeOK
  <1>2. [post[t] EXCEPT !.state = "lost"] \in Post /\ [ack[t] EXCEPT !.state = "lost"] \in Ack
    BY <1>1 DEF Post, Ack
  <1>3. QED
    BY <1>2 DEF IInv, TypeOK, LosePost, LoseAck

LEMMA CrashTypes ==
    ASSUME IInv, NEW s \in Server, Crash(s)
    PROVE  TypeOK'
  <1> USE DEF IInv
  <1>1. sender' \in [Key -> Sender]
    <2>1. ASSUME NEW k \in Key
          PROVE  [sender[k] EXCEPT !.pc = "crashed", !.mem = NoRow] \in Sender
      <3>1. sender[k] \in Sender
        BY DEF TypeOK
      <3>2. QED
        BY <3>1, EmptyTypes DEF Sender
    <2>2. QED
      BY <2>1 DEF Crash, TypeOK
  <1>2. recv' \in [Key -> Recv]
    <2>1. ASSUME NEW k \in Key
          PROVE  [recv[k] EXCEPT !.pc = "crashed", !.mem = NoRow] \in Recv
      <3>1. recv[k] \in Recv
        BY DEF TypeOK
      <3>2. QED
        BY <3>1, EmptyTypes DEF Recv
    <2>2. QED
      BY <2>1 DEF Crash, TypeOK
  <1>3. post' \in [Key -> Post]
    <2>1. ASSUME NEW k \in Key
          PROVE  [post[k] EXCEPT !.state = "lost"] \in Post
      <3>1. post[k] \in Post
        BY DEF TypeOK
      <3>2. QED
        BY <3>1 DEF Post
    <2>2. QED
      BY <2>1 DEF Crash, TypeOK
  <1>4. ack' \in [Key -> Ack]
    <2>1. ASSUME NEW k \in Key
          PROVE  [ack[k] EXCEPT !.state = "lost"] \in Ack
      <3>1. ack[k] \in Ack
        BY DEF TypeOK
      <3>2. QED
        BY <3>1 DEF Ack
    <2>2. QED
      BY <2>1 DEF Crash, TypeOK
  <1>5. handler' \in [Key -> Handler]
    BY EmptyTypes DEF Crash, TypeOK
  <1>6. crashes' \in 0..MaxCrashes
    <2>1. crashes < MaxCrashes /\ crashes' = crashes + 1 /\ crashes \in 0..MaxCrashes
      BY DEF Crash, TypeOK
    <2>2. QED
      BY <2>1, ExchangeAssumption
  <1>7. QED
    BY <1>1, <1>2, <1>3, <1>4, <1>5, <1>6 DEF Crash, TypeOK

LEMMA TypeStep ==
    ASSUME IInv, [Next]_vars
    PROVE  TypeOK'
  <1>1. CASE UNCHANGED vars
    BY <1>1 DEF vars, IInv, TypeOK
  <1>2. CASE Next
    BY <1>2, SendTypes, CrashTypes, SenderTypes, ReceiveTypes, DeliverTypes,
       HandlerTypes, NetworkTypes DEF Next
  <1>3. QED
    BY <1>1, <1>2

-----------------------------------------------------------------------------
(* What one step does to the tables *)

LEMMA SameDocumentReflexive ==
    ASSUME NEW m
    PROVE  SameDocument(m, m)
  BY DEF SameDocument

(* Two copies of one row are copies of each other.                          *)
LEMMA SameDocumentCopies ==
    ASSUME NEW m, NEW n, NEW r, SameDocument(m, r), SameDocument(n, r)
    PROVE  SameDocument(m, n)
  BY DEF SameDocument, IsSentTranscriptAck

(* A row that a step creates.                                               *)
NewRow(k) ==
    /\ k = Fresh(k[1]) /\ k[2] < nextId'[k[1]]
    /\ \/ rows'[k].op = "SEND" /\ rows'[k].senderTx = 0 /\ rows'[k].peer \in Server
       \/ rows'[k].op = "RECEIVE" /\ rows'[k].file = NoKey
       \/ \E t \in Key : /\ recv[t].pc = "received" /\ post[t].to = k[1]
                         /\ rows'[k] = recv[t].mem /\ recv'[t].pc = "deliver"

RowsStep ==
    /\ \A k \in Key : rows[k].op # "NONE" => SameDocument(rows'[k], rows[k])
    /\ \A k \in Key : rows[k].op = "NONE" => rows'[k].op = "NONE" \/ NewRow(k)
    /\ \A s \in Server : nextId[s] <= nextId'[s]

LEMMA RowsUnchanged ==
    ASSUME UNCHANGED <<rows, nextId>>, nextId \in [Server -> 1..(MaxRow + 1)]
    PROVE  RowsStep
  BY ExchangeAssumption, SameDocumentReflexive DEF RowsStep

LEMMA SaveRows ==
    ASSUME IInv, NEW k \in Key, NEW row, Save(k, row), nextId' = nextId,
           rows[k].op # "NONE", SameDocument(row, rows[k])
    PROVE  RowsStep
  <1>1. \A l \in Key : rows'[l] = IF l = k THEN row ELSE rows[l]
    BY DEF Save, IInv, TypeOK
  <1>2. \A l \in Key : rows[l].op # "NONE" => SameDocument(rows'[l], rows[l])
    BY <1>1, SameDocumentReflexive
  <1>3. \A l \in Key : rows[l].op = "NONE" => rows'[l].op = "NONE"
    BY <1>1
  <1>4. \A s \in Server : nextId[s] <= nextId'[s]
    BY ExchangeAssumption DEF IInv, TypeOK
  <1>5. QED
    BY <1>2, <1>3, <1>4 DEF RowsStep

LEMMA CreateRows ==
    ASSUME IInv, NEW s \in Server, NEW row, Create(s, row),
           \/ row.op = "SEND" /\ row.senderTx = 0 /\ row.peer \in Server
           \/ row.op = "RECEIVE" /\ row.file = NoKey
           \/ \E t \in Key : /\ recv[t].pc = "received" /\ post[t].to = s
                             /\ row = recv[t].mem /\ recv'[t].pc = "deliver"
    PROVE  /\ RowsStep
           /\ Fresh(s) \in Key /\ rows[Fresh(s)].op = "NONE" /\ rows'[Fresh(s)] = row
           /\ \A l \in Key : l # Fresh(s) => rows'[l] = rows[l]
  <1> DEFINE k == Fresh(s)
  <1>1. /\ HasRoom(s) /\ k \in Key /\ k[1] = s /\ k[2] = nextId[s]
        /\ nextId[s] \in Nat
    BY FreshIsKey DEF Create, IInv, RowId
  <1>2. rows[k].op = "NONE"
    BY <1>1 DEF IInv, FreshRows
  <1>3. /\ rows'[k] = row
        /\ \A l \in Key : l # k => rows'[l] = rows[l]
        /\ nextId'[s] = nextId[s] + 1
        /\ \A r \in Server : r # s => nextId'[r] = nextId[r]
    BY <1>1 DEF Create, IInv, TypeOK
  <1>4. \A l \in Key : rows[l].op # "NONE" => SameDocument(rows'[l], rows[l])
    BY <1>2, <1>3, SameDocumentReflexive
  <1>5. \A r \in Server : nextId[r] <= nextId'[r]
    BY <1>1, <1>3, ExchangeAssumption DEF IInv, TypeOK
  <1>6. NewRow(k)
    BY <1>1, <1>3 DEF NewRow
  <1>7. QED
    BY <1>1, <1>2, <1>3, <1>4, <1>5, <1>6 DEF RowsStep

LEMMA SenderRows ==
    ASSUME IInv, NEW t \in Key, SenderStep(t)
    PROVE  RowsStep /\ nextId' = nextId
  <1> USE DEF IInv
  <1> DEFINE s == sender[t]
             m == sender[t].mem
  <1>0. nextId' = nextId
    BY DEF SenderStep, RequestNotWritten, ResendNoEndpoint, Abandon,
           PostDocument, SendOk, SendFails, SendFailsAgain
  <1> SUFFICES RowsStep
    BY <1>0
  <1>1. s.pc \in Active
    BY DEF SenderStep, RequestNotWritten, ResendNoEndpoint, Abandon,
           PostDocument, SendOk, SendFails, SendFailsAgain, Active
  <1>2. /\ rows[t].op = "SEND" /\ rows[t] \in Row /\ m \in Row
        /\ s.saveTo \in Key /\ rows[s.saveTo].op = "SEND"
        /\ SameDocument(m, rows[s.saveTo])
    BY <1>1 DEF Senders, TypeOK, Sender
  <1>3. ASSUME rows' = rows
        PROVE  RowsStep
    BY <1>0, <1>3, RowsUnchanged DEF TypeOK
  <1>4. ASSUME NEW row, Save(s.saveTo, row), SameDocument(row, m)
        PROVE  RowsStep
    <2>1. SameDocument(row, rows[s.saveTo])
      BY <1>2, <1>4 DEF SameDocument, IsSentTranscriptAck
    <2>2. QED
      BY <1>0, <1>2, <1>4, <2>1, SaveRows
  <1>5. /\ SameDocument(m, m)
        /\ SameDocument([m EXCEPT !.error = TRUE], m)
        /\ SameDocument([m EXCEPT !.error = TRUE, !.status = "FAILURE"], m)
        /\ SameDocument([[m EXCEPT !.error = TRUE] EXCEPT !.status = "FAILURE"], m)
        /\ SameDocument([m EXCEPT !.status = "SUCCESS"], m)
    BY <1>2 DEF SameDocument, Row
  <1>6. CASE RequestNotWritten(t)
    BY <1>4, <1>5, <1>6 DEF RequestNotWritten, IsResend
  <1>7. CASE ResendNoEndpoint(t)
    <2> DEFINE row == SendRow(rows[t].kind, rows[t].peer, rows[t].file, rows[t].docId)
    <2>1. SameDocument([row EXCEPT !.error = TRUE], rows[t])
      BY <1>2 DEF SameDocument, SendRow, NoRow, SentRows
    <2>2. QED
      BY <1>0, <1>2, <1>7, <2>1, SaveRows DEF ResendNoEndpoint
  <1>8. CASE Abandon(t)
    BY <1>3, <1>8 DEF Abandon
  <1>9. CASE PostDocument(t)
    <2>1. CASE rows' = rows
      BY <1>3, <2>1
    <2>2. CASE ~IsResend(t) /\ Save(t, m)
      BY <1>4, <1>5, <2>2 DEF IsResend
    <2>3. QED
      BY <1>9, <2>1, <2>2 DEF PostDocument, Save
  <1>10. CASE SendOk(t)
    <2>1. CASE rows' = rows
      BY <1>3, <2>1
    <2>2. CASE ~IsResend(t) /\ Save(t, [m EXCEPT !.status = "SUCCESS"])
      BY <1>4, <1>5, <2>2 DEF IsResend
    <2>3. QED
      BY <1>10, <2>1, <2>2 DEF SendOk, Save
  <1>11. CASE SendFails(t)
    <2>1. CASE ~IsResend(t) /\ Save(t, [[m EXCEPT !.error = TRUE] EXCEPT !.status = "FAILURE"])
      BY <1>4, <1>5, <2>1 DEF IsResend
    <2>2. CASE Save(s.saveTo, [m EXCEPT !.error = TRUE])
      BY <1>4, <1>5, <2>2
    <2>3. QED
      BY <1>11, <2>1, <2>2 DEF SendFails
  <1>12. CASE SendFailsAgain(t)
    BY <1>4, <1>5, <1>12 DEF SendFailsAgain, Senders
  <1>13. QED
    BY <1>6, <1>7, <1>8, <1>9, <1>10, <1>11, <1>12 DEF SenderStep

LEMMA ReceivedKeyFacts ==
    ASSUME IInv, NEW t \in Key, recv[t].row # 0
    PROVE  /\ ReceivedKey(t) \in Key /\ ReceivedKey(t)[1] = post[t].to
           /\ rows[ReceivedKey(t)].op = "RECEIVE"
           /\ rows[ReceivedKey(t)].peer = t[1] /\ rows[ReceivedKey(t)].senderTx = t[2]
           /\ rows[ReceivedKey(t)].file \in {NoKey, post[t].file}
           /\ post[t].to \in Server /\ post[t].state \notin {"none", "sent"}
  <1>1. recv[t].row \in 0..MaxRow
    BY DEF IInv, TypeOK, Recv
  <1>2. post[t].state \notin {"none", "sent"} /\ post[t].to \in Server
    BY DEF IInv, Posts
  <1>3. ReceivedKey(t) \in Key
    BY <1>1, <1>2, ExchangeAssumption DEF ReceivedKey, Key, RowId
  <1>4. QED
    BY <1>2, <1>3 DEF IInv, Receipts, ReceivedKey

LEMMA DeliverRows ==
    ASSUME IInv, NEW t \in Key, DeliverStep(t)
    PROVE  RowsStep
  <1> USE DEF IInv
  <1> DEFINE m == recv[t].mem
             r == post[t].to
             k == ReceivedKey(t)
  <1>1. recv[t].pc \in Working
    BY DEF DeliverStep, RecordReceipt, ReceiptNotSaved, DeliverTranscript, AckTranscript,
           AckRequest,
           AckRow, DeliverFails, FinishDelivery, ChildDone, Working
  <1>2. /\ post[t].state \notin {"none", "sent"} /\ r \in Server
        /\ t[1] \in Server
        /\ m \in Row /\ m.op = "RECEIVE" /\ m.peer = t[1]
    BY <1>1 DEF TypeOK, Recv, Receivers, Posts, Key, Working
  <1>3. ASSUME NEW row, recv[t].pc # "received", Save(k, row), SameDocument(row, m),
               nextId' = nextId
        PROVE  RowsStep
    <2>1. recv[t].row # 0
      BY <1>1, <1>3 DEF Receivers
    <2>2. k \in Key /\ rows[k].op = "RECEIVE"
      BY <2>1, ReceivedKeyFacts
    <2>3. SameDocument(m, rows[k])
      BY <1>1, <2>1 DEF Receipts
    <2>4. SameDocument(row, rows[k])
      BY <1>3, <2>3 DEF SameDocument, IsSentTranscriptAck
    <2>5. QED
      BY <1>3, <2>2, <2>4, SaveRows
  <1>4. CASE RecordReceipt(t)
    <2>1. recv'[t].pc = "deliver"
      BY <1>4 DEF RecordReceipt, TypeOK, Recv
    <2>2. QED
      BY <1>2, <1>4, <2>1, CreateRows DEF RecordReceipt
  <1>5. CASE DeliverTranscript(t)
    <2> DEFINE row == SendRow("transcriptAck", m.peer, NoKey, m.docId)
    <2>1. row.op = "SEND" /\ row.senderTx = 0 /\ row.peer \in Server
      BY <1>2 DEF SendRow, NoRow
    <2>2. QED
      BY <1>2, <1>5, <2>1, CreateRows DEF DeliverTranscript
  <1>6. CASE AckTranscript(t) \/ AckRequest(t) \/ AckRow(t)
    BY <1>6, RowsUnchanged DEF AckTranscript, AckRequest, AckRow, SendAck, TypeOK
  <1>7. CASE DeliverFails(t)
    <2>1. SameDocument([m EXCEPT !.acknowledged = FALSE, !.error = TRUE,
                                 !.status = "FAILURE"], m)
      BY <1>2 DEF SameDocument, Row
    <2>2. QED
      BY <1>3, <1>7, <2>1 DEF DeliverFails, ChildDone
  <1>8. CASE FinishDelivery(t)
    BY <1>3, <1>8, SameDocumentReflexive DEF FinishDelivery
  <1>9. CASE ReceiptNotSaved(t)
    BY <1>9, RowsUnchanged DEF ReceiptNotSaved, TypeOK
  <1>10. QED
    BY <1>4, <1>5, <1>6, <1>7, <1>8, <1>9 DEF DeliverStep

LEMMA HandlerRows ==
    ASSUME IInv, NEW t \in Key, HandlerStep(t)
    PROVE  RowsStep
  <1> USE DEF IInv
  <1>1. CASE FindAcknowledged(t)
    BY <1>1, RowsUnchanged DEF FindAcknowledged, TypeOK
  <1>2. CASE Acknowledge(t)
    <2> DEFINE m == handler[t].mem
               k == <<t[1], handler[t].row>>
               row == [m EXCEPT !.acknowledged = TRUE, !.ackFile = TRUE,
                                !.status = Verdict(ack[t].code),
                                !.error = @ \/ ack[t].code = "Rejected"]
    <2>1. k \in Key /\ rows[k].op # "NONE" /\ SameDocument(m, rows[k])
      BY <1>2 DEF Acknowledge, Handlers
    <2>2. m \in Row
      BY DEF TypeOK, Handler
    <2>3. SameDocument(row, m)
      BY <2>2 DEF SameDocument, Row
    <2>4. SameDocument(row, rows[k])
      BY <2>1, <2>3 DEF SameDocument, IsSentTranscriptAck
    <2>5. QED
      BY <1>2, <2>1, <2>4, SaveRows DEF Acknowledge
  <1>3. CASE AcknowledgeUnknown(t)
    <2> DEFINE row == [NoRow EXCEPT !.op = "RECEIVE", !.kind = "functionalAck",
                                    !.peer = post[t].to,
                                    !.status = "FAILURE", !.error = TRUE]
    <2>1. row.op = "RECEIVE" /\ row.file = NoKey /\ t[1] \in Server
      BY DEF NoRow, Key
    <2>2. QED
      BY <1>3, <2>1, CreateRows DEF AcknowledgeUnknown
  <1>4. QED
    BY <1>1, <1>2, <1>3 DEF HandlerStep

(* A sending thread starts, with a row of its own.                          *)
NewSender(k) ==
    /\ k \in Key /\ rows[k].op = "NONE" /\ rows'[k].op = "SEND"
    /\ \A t \in Key : t # k => sender'[t] = sender[t]
    /\ sender'[k].pc = "created"
    /\ sender'[k].saveTo \in Key
    /\ rows'[sender'[k].saveTo].op = "SEND"
    /\ SameDocument(sender'[k].mem, rows'[sender'[k].saveTo])

LEMMA StartSenderNew ==
    ASSUME IInv, NEW k \in Key, NEW o, NEW mem, StartSender(k, o, mem),
           rows[k].op = "NONE", rows'[k].op = "SEND",
           o \in Key, rows'[o].op = "SEND", SameDocument(mem, rows'[o])
    PROVE  NewSender(k)
  BY DEF StartSender, IInv, TypeOK, NewSender

LEMMA UserRows ==
    ASSUME IInv, NEW s \in Server, User(s)
    PROVE  /\ RowsStep /\ NewSender(Fresh(s))
           /\ UNCHANGED <<files, post, recv, ack, handler>>
  <1> USE DEF IInv
  <1> DEFINE k == Fresh(s)
  <1>1. ASSUME NEW r \in Server, NEW kind, NEW request \in BOOLEAN, NEW docId,
               SendFile(s, r, kind, request, docId)
        PROVE  RowsStep /\ NewSender(k) /\ UNCHANGED <<files, post, recv, ack, handler>>
    <2> DEFINE row == SendRow(kind, r, k, docId)
    <2>1. row.op = "SEND" /\ row.senderTx = 0 /\ row.peer \in Server
      BY DEF SendRow, NoRow
    <2>2. RowsStep /\ k \in Key /\ rows[k].op = "NONE" /\ rows'[k] = row
      BY <1>1, <2>1, CreateRows DEF SendFile
    <2>3. SameDocument([row EXCEPT !.request = request], row)
      BY DEF SameDocument, SendRow, NoRow
    <2>4. QED
      BY <1>1, <2>1, <2>2, <2>3, StartSenderNew DEF SendFile
  <1>2. ASSUME NEW r \in Server, RequestTranscript(s, r)
        PROVE  RowsStep /\ NewSender(k) /\ UNCHANGED <<files, post, recv, ack, handler>>
    <2> DEFINE row == SendRow("request", r, k, 0)
    <2>1. row.op = "SEND" /\ row.senderTx = 0 /\ row.peer \in Server
      BY DEF SendRow, NoRow
    <2>2. RowsStep /\ k \in Key /\ rows[k].op = "NONE" /\ rows'[k] = row
      BY <1>2, <2>1, CreateRows DEF RequestTranscript
    <2>3. QED
      BY <1>2, <2>1, <2>2, SameDocumentReflexive, StartSenderNew DEF RequestTranscript
  <1>3. ASSUME NEW o \in Key, Resend(s, o)
        PROVE  RowsStep /\ NewSender(k) /\ UNCHANGED <<files, post, recv, ack, handler>>
    <2> DEFINE row == SendRow(rows[o].kind, rows[o].peer, rows[o].file, rows[o].docId)
    <2>1. rows[o].op = "SEND" /\ rows[o].peer \in Server
      BY <1>3 DEF Resend, SentRows
    <2>2. row.op = "SEND" /\ row.senderTx = 0 /\ row.peer \in Server
      BY <2>1 DEF SendRow, NoRow
    <2>3. /\ RowsStep /\ k \in Key /\ rows[k].op = "NONE" /\ rows'[k] = row
          /\ \A l \in Key : l # k => rows'[l] = rows[l]
      BY <1>3, <2>2, CreateRows DEF Resend
    <2>4. rows'[o] = rows[o]
      BY <2>1, <2>3
    <2>5. QED
      BY <1>3, <2>1, <2>2, <2>3, <2>4, SameDocumentReflexive, StartSenderNew DEF Resend
  <1>4. QED
    BY <1>1, <1>2, <1>3 DEF User

LEMMA TranscriptAckSender ==
    ASSUME IInv, NEW t \in Key, DeliverTranscript(t)
    PROVE  NewSender(Fresh(post[t].to))
  <1> USE DEF IInv
  <1> DEFINE m == recv[t].mem
             k == Fresh(post[t].to)
             row == SendRow("transcriptAck", m.peer, NoKey, m.docId)
  <1>1. post[t].to \in Server /\ m.peer \in Server
    <2>1. recv[t].pc \in Working /\ recv[t].pc # "idle"
      BY DEF DeliverTranscript, Working
    <2>2. QED
      BY <2>1 DEF Posts, Receivers, Key, TypeOK, Post
  <1>2. row.op = "SEND" /\ row.senderTx = 0 /\ row.peer \in Server
    BY <1>1 DEF SendRow, NoRow
  <1>3. k \in Key /\ rows[k].op = "NONE" /\ rows'[k] = row
    BY <1>1, <1>2, CreateRows DEF DeliverTranscript
  <1>4. SameDocument([row EXCEPT !.file = k], row)
    BY DEF SameDocument, IsSentTranscriptAck, SendRow, NoRow
  <1>5. QED
    BY <1>2, <1>3, <1>4, StartSenderNew DEF DeliverTranscript

LEMMA TableStep ==
    ASSUME IInv, [Next]_vars
    PROVE  RowsStep
  <1>1. CASE UNCHANGED vars
    BY <1>1, RowsUnchanged DEF vars, IInv, TypeOK
  <1>2. ASSUME NEW s \in Server, Crash(s)
        PROVE  RowsStep
    BY <1>2, RowsUnchanged DEF Crash, IInv, TypeOK
  <1>3. ASSUME NEW t \in Key, ReceiveStep(t) \/ LosePost(t) \/ LoseAck(t)
        PROVE  RowsStep
    BY <1>3, RowsUnchanged
       DEF ReceiveStep, ReceiveUnverified, ReceiveDuplicate, ReceiveStored,
           ReceiveDamaged, Receive, LosePost, LoseAck, IInv, TypeOK
  <1>4. QED
    BY <1>1, <1>2, <1>3, UserRows, SenderRows, DeliverRows, HandlerRows DEF Next

LEMMA InboxGrows ==
    ASSUME IInv, [Next]_vars
    PROVE  \A s \in Server : files[s] \subseteq files'[s]
  <1> USE DEF IInv
  <1>1. ASSUME NEW t \in Key, StoreFile(t)
        PROVE  \A s \in Server : files[s] \subseteq files'[s]
    BY <1>1 DEF StoreFile, TypeOK
  <1>2. ASSUME NEW t \in Key, ReceiveStep(t)
        PROVE  files' = files \/ StoreFile(t)
    BY <1>2 DEF ReceiveStep, ReceiveUnverified, ReceiveDuplicate, ReceiveStored,
                ReceiveDamaged
  <1>3. ASSUME NEW t \in Key, SenderStep(t)
        PROVE  files' = files
    BY <1>3 DEF SenderStep, RequestNotWritten, ResendNoEndpoint, Abandon,
                PostDocument, SendOk, SendFails, SendFailsAgain
  <1>4. ASSUME NEW t \in Key, DeliverStep(t)
        PROVE  files' = files
    BY <1>4 DEF DeliverStep, RecordReceipt, ReceiptNotSaved, DeliverTranscript, AckTranscript,
                AckRequest, AckRow, SendAck, DeliverFails, FinishDelivery
  <1>5. ASSUME NEW t \in Key, HandlerStep(t) \/ LosePost(t) \/ LoseAck(t)
        PROVE  files' = files
    BY <1>5 DEF HandlerStep, FindAcknowledged, Acknowledge, AcknowledgeUnknown,
                LosePost, LoseAck
  <1>6. ASSUME NEW s \in Server, Crash(s)
        PROVE  files' = files
    BY <1>6 DEF Crash
  <1>7. CASE UNCHANGED vars
    BY <1>7 DEF vars
  <1>8. QED
    BY <1>1, <1>2, <1>3, <1>4, <1>5, <1>6, <1>7, UserRows DEF Next

-----------------------------------------------------------------------------
(* What one step does to the threads of t *)

ThreadStep(t) ==
    /\ post[t].state # "none" => /\ post'[t].state # "none"
                                 /\ post'[t].to = post[t].to
                                 /\ post'[t].file = post[t].file
                                 /\ post'[t].kind = post[t].kind
    /\ recv[t].row # 0 => recv'[t].row = recv[t].row
    /\ recv'[t].row # recv[t].row => RecordReceipt(t)
    /\ recv'[t].pc \in Working =>
          \/ ReceiveStep(t)
          \/ /\ recv[t].pc \in Working
             /\ recv'[t].mem \in {recv[t].mem, [recv[t].mem EXCEPT !.ackFile = TRUE]}
    /\ recv'[t].pc = "received" => recv[t] = recv'[t] \/ ReceiveStep(t)
    /\ recv'[t].pc = "transcriptAck" => recv[t] = recv'[t] \/ DeliverTranscript(t)
    /\ recv'[t].pc = "deliver" => recv[t] = recv'[t] \/ RecordReceipt(t)
    /\ recv'[t].pc \in {"deliver", "acking"} => recv'[t].row # 0

LEMMA ThreadUnchanged ==
    ASSUME IInv, NEW t \in Key, recv'[t] = recv[t],
           \/ post'[t] = post[t]
           \/ \E x \in {"taken", "answered", "lost"} :
                 post'[t] = [post[t] EXCEPT !.state = x]
           \/ post[t].state = "none"
    PROVE  ThreadStep(t)
  <1>1. post[t] \in Post
    BY DEF IInv, TypeOK
  <1>2. recv[t].pc \in {"deliver", "acking"} => recv[t].row # 0
    BY DEF IInv, Receivers, Working
  <1>3. QED
    BY <1>1, <1>2 DEF ThreadStep, Post

LEMMA ThreadsOfDelivery ==
    ASSUME IInv, NEW u \in Key, DeliverStep(u), NEW t \in Key
    PROVE  ThreadStep(t)
  <1> USE DEF IInv
  <1>1. /\ recv[u] \in Recv /\ post[u] \in Post /\ recv[u].mem \in Row
        /\ recv[u].pc \in Working \ {"received"} => recv[u].row # 0
        /\ recv[u].pc = "received" => recv[u].row = 0 /\ post[u].to \in Server
    BY DEF TypeOK, Recv, Receivers, Posts, Working
  <1>2. CASE t # u
    <2>1. recv'[t] = recv[t] /\ post'[t] = post[t]
      BY <1>2 DEF TypeOK, DeliverStep, RecordReceipt, ReceiptNotSaved, DeliverTranscript,
                  AckTranscript,
           AckRequest, AckRow, SendAck, DeliverFails, FinishDelivery, RecvDone
    <2>2. QED
      BY <2>1, ThreadUnchanged
  <1>3. CASE t = u /\ RecordReceipt(u)
    <2>1. nextId[post[u].to] # 0
      BY <1>1, <1>3, FreshIsKey DEF RecordReceipt, Create, RowId
    <2>2. /\ recv'[u] = [recv[u] EXCEPT !.pc = "deliver", !.row = nextId[post[u].to]]
          /\ post'[u] = [post[u] EXCEPT !.state = "answered"]
      BY <1>3 DEF RecordReceipt, TypeOK
    <2>3. recv[u].pc = "received"
      BY <1>3 DEF RecordReceipt
    <2>4. QED
      BY <1>1, <1>3, <2>1, <2>2, <2>3 DEF ThreadStep, Recv, Post, Working
  <1>4. CASE t = u /\ DeliverTranscript(u)
    <2>1. /\ recv'[u] = [recv[u] EXCEPT !.pc = "transcriptAck",
                                        !.child = Fresh(post[u].to)[2]]
          /\ post'[u] = post[u] /\ recv[u].pc = "deliver"
      BY <1>4 DEF DeliverTranscript, TypeOK
    <2>2. QED
      BY <1>1, <1>4, <2>1 DEF ThreadStep, Recv, Working
  <1>5. CASE t = u /\ (AckTranscript(u) \/ AckRequest(u) \/ AckRow(u))
    <2>1. /\ recv'[u] = [recv[u] EXCEPT !.pc = "acking", !.mem.ackFile = TRUE]
          /\ post'[u] = post[u] /\ recv[u].pc \in {"deliver", "transcriptAck"}
      BY <1>5 DEF AckTranscript, AckRequest, AckRow, SendAck, ChildDone, TypeOK
    <2>2. /\ recv'[u].mem = [recv[u].mem EXCEPT !.ackFile = TRUE]
          /\ recv'[u].row = recv[u].row /\ recv'[u].pc = "acking"
      BY <1>1, <2>1 DEF Recv
    <2>3. QED
      BY <1>1, <1>5, <2>1, <2>2 DEF ThreadStep, Working
  <1>6. CASE t = u /\ (DeliverFails(u) \/ FinishDelivery(u))
    <2>1. /\ recv'[u].pc \in {"ok", "failed"} /\ recv'[u].row = recv[u].row
          /\ post'[u] = post[u]
      BY <1>1, <1>6 DEF DeliverFails, FinishDelivery, RecvDone, TypeOK, Recv
    <2>2. QED
      BY <1>6, <2>1 DEF ThreadStep, Working
  <1>7. CASE t = u /\ ReceiptNotSaved(u)
    <2>1. /\ recv'[u].pc = "failed" /\ recv'[u].row = recv[u].row
          /\ post'[u] = [post[u] EXCEPT !.state = "lost"]
      BY <1>1, <1>7 DEF ReceiptNotSaved, RecvDone, TypeOK, Recv
    <2>2. QED
      BY <1>1, <1>7, <2>1 DEF ThreadStep, Post, Working
  <1>8. QED
    BY <1>2, <1>3, <1>4, <1>5, <1>6, <1>7 DEF DeliverStep

LEMMA ThreadsStep ==
    ASSUME IInv, [Next]_vars, NEW t \in Key
    PROVE  ThreadStep(t)
  <1> USE DEF IInv
  <1>1. CASE UNCHANGED vars
    BY <1>1, ThreadUnchanged DEF vars
  <1>2. ASSUME NEW s \in Server, User(s)
        PROVE  ThreadStep(t)
    BY <1>2, UserRows, ThreadUnchanged
  <1>3. ASSUME NEW u \in Key, SenderStep(u)
        PROVE  ThreadStep(t)
    <2>1. recv' = recv
      BY <1>3 DEF SenderStep, RequestNotWritten, ResendNoEndpoint, Abandon,
                  PostDocument, SendOk, SendFails, SendFailsAgain
    <2>2. post'[t] = post[t] \/ post[t].state = "none"
      BY <1>3 DEF SenderStep, RequestNotWritten, ResendNoEndpoint, Abandon,
                  PostDocument, SendOk, SendFails, SendFailsAgain, Senders, TypeOK
    <2>3. QED
      BY <2>1, <2>2, ThreadUnchanged
  <1>4. ASSUME NEW u \in Key, ReceiveStep(u)
        PROVE  ThreadStep(t)
    <2>1. PICK mem : Receive(u, mem)
      BY <1>4 DEF ReceiveStep, ReceiveUnverified, ReceiveDuplicate, ReceiveStored,
                  ReceiveDamaged
    <2>2. CASE t # u
      <3>1. recv'[t] = recv[t] /\ post'[t] = post[t]
        BY <2>1, <2>2 DEF Receive, TypeOK
      <3>2. QED
        BY <3>1, ThreadUnchanged
    <2>3. CASE t = u
      <3>1. /\ post[t].state = "sent" /\ recv[t].row = 0
            /\ recv[t] \in Recv /\ post[t] \in Post
        BY <2>1, <2>3 DEF Receive, Posts, TypeOK
      <3>2. /\ recv'[t] = [recv[t] EXCEPT !.pc = "received", !.mem = mem]
            /\ post'[t] = [post[t] EXCEPT !.state = "taken"]
        BY <2>1, <2>3 DEF Receive, TypeOK
      <3>3. QED
        BY <1>4, <2>3, <3>1, <3>2 DEF ThreadStep, Recv, Post
    <2>4. QED
      BY <2>2, <2>3
  <1>5. ASSUME NEW u \in Key, HandlerStep(u) \/ LosePost(u) \/ LoseAck(u)
        PROVE  ThreadStep(t)
    <2>1. recv' = recv
      BY <1>5 DEF HandlerStep, FindAcknowledged, Acknowledge, AcknowledgeUnknown,
                  LosePost, LoseAck
    <2>2. post'[t] = post[t] \/ post'[t] = [post[t] EXCEPT !.state = "lost"]
      BY <1>5 DEF HandlerStep, FindAcknowledged, Acknowledge, AcknowledgeUnknown,
                  LosePost, LoseAck, TypeOK
    <2>3. QED
      BY <2>1, <2>2, ThreadUnchanged
  <1>6. ASSUME NEW s \in Server, Crash(s)
        PROVE  ThreadStep(t)
    <2>1. post'[t] = post[t] \/ post'[t] = [post[t] EXCEPT !.state = "lost"]
      BY <1>6 DEF Crash
    <2>2. CASE recv'[t] = recv[t]
      BY <2>1, <2>2, ThreadUnchanged
    <2>3. CASE recv'[t] = [recv[t] EXCEPT !.pc = "crashed", !.mem = NoRow]
      BY <2>1, <2>3 DEF ThreadStep, TypeOK, Recv, Post, Working
    <2>4. QED
      BY <1>6, <2>2, <2>3 DEF Crash
  <1>7. QED
    BY <1>1, <1>2, <1>3, <1>4, <1>5, <1>6, ThreadsOfDelivery DEF Next

(* An acknowledgement is sent once, by the thread that delivers.            *)
LEMMA AckStep ==
    ASSUME IInv, [Next]_vars, NEW t \in Key
    PROVE  \/ /\ ack[t].state # "none" /\ ack'[t].state # "none"
              /\ ack'[t].code = ack[t].code /\ ack'[t].docId = ack[t].docId
              /\ ack[t].state = "answered" => ack'[t].state = "answered"
           \/ ack[t].state = "none" /\ ack'[t].state = "none"
           \/ /\ AckTranscript(t) \/ AckRequest(t) \/ AckRow(t)
              /\ recv[t].pc \in {"deliver", "transcriptAck"}
  <1> USE DEF IInv
  <1>1. ack[t] \in Ack
    BY DEF TypeOK
  <1>2. ASSUME \/ ack'[t] = ack[t]
               \/ \E x \in {"taken", "answered", "lost"} :
                     /\ ack[t].state \notin {"none", "answered"}
                     /\ ack'[t] = [ack[t] EXCEPT !.state = x]
        PROVE  \/ /\ ack[t].state # "none" /\ ack'[t].state # "none"
                  /\ ack'[t].code = ack[t].code /\ ack'[t].docId = ack[t].docId
                  /\ ack[t].state = "answered" => ack'[t].state = "answered"
               \/ ack[t].state = "none" /\ ack'[t].state = "none"
    BY <1>1, <1>2 DEF Ack
  <1>3. CASE UNCHANGED vars
    BY <1>2, <1>3 DEF vars
  <1>4. ASSUME NEW s \in Server, User(s)
        PROVE  ack' = ack
    BY <1>4, UserRows
  <1>5. ASSUME NEW u \in Key, SenderStep(u) \/ ReceiveStep(u) \/ LosePost(u)
        PROVE  ack' = ack
    BY <1>5 DEF SenderStep, RequestNotWritten, ResendNoEndpoint, Abandon,
                PostDocument, SendOk, SendFails, SendFailsAgain,
                ReceiveStep, ReceiveUnverified, ReceiveDuplicate, ReceiveStored,
                ReceiveDamaged, Receive, LosePost
  <1>6. ASSUME NEW u \in Key, DeliverStep(u)
        PROVE  \/ ack'[t] = ack[t]
               \/ /\ AckTranscript(t) \/ AckRequest(t) \/ AckRow(t)
                  /\ recv[t].pc \in {"deliver", "transcriptAck"}
    BY <1>6 DEF DeliverStep, RecordReceipt, ReceiptNotSaved, DeliverTranscript, AckTranscript,
                AckRequest, AckRow, SendAck, ChildDone, DeliverFails,
                FinishDelivery, TypeOK
  <1>7. ASSUME NEW u \in Key, HandlerStep(u) \/ LoseAck(u)
        PROVE  \/ ack'[t] = ack[t]
               \/ \E x \in {"taken", "answered", "lost"} :
                     /\ ack[t].state \notin {"none", "answered"}
                     /\ ack'[t] = [ack[t] EXCEPT !.state = x]
    <2>1. handler[u].pc = "found" => ack[u].state = "taken"
      BY DEF Handlers
    <2>2. QED
      BY <1>7, <2>1 DEF HandlerStep, FindAcknowledged, Acknowledge,
                        AcknowledgeUnknown, LoseAck, TypeOK
  <1>8. ASSUME NEW s \in Server, Crash(s)
        PROVE  \/ ack'[t] = ack[t]
               \/ \E x \in {"taken", "answered", "lost"} :
                     /\ ack[t].state \notin {"none", "answered"}
                     /\ ack'[t] = [ack[t] EXCEPT !.state = x]
    BY <1>8 DEF Crash
  <1>9. QED
    BY <1>2, <1>3, <1>4, <1>5, <1>6, <1>7, <1>8 DEF Next

-----------------------------------------------------------------------------
(* Every part of the invariant is preserved *)

LEMMA TablesPreserved ==
    ASSUME IInv, [Next]_vars
    PROVE  FreshRows' /\ SentRows'
  <1>1. RowsStep
    BY TableStep
  <1>2. \A k \in Key : k[1] \in Server /\ k[2] \in Nat
    BY ExchangeAssumption DEF Key, RowId
  <1>3. FreshRows'
    <2> SUFFICES ASSUME NEW k \in Key, k[2] >= nextId'[k[1]]
                 PROVE  rows'[k].op = "NONE"
      BY DEF FreshRows
    <2>1. nextId[k[1]] \in Nat /\ nextId'[k[1]] \in Nat
      BY <1>2, TypeStep, ExchangeAssumption DEF TypeOK, IInv
    <2>2. rows[k].op = "NONE"
      BY <1>1, <1>2, <2>1 DEF RowsStep, IInv, FreshRows
    <2>3. ~NewRow(k)
      BY <1>2, <2>1 DEF NewRow
    <2>4. QED
      BY <1>1, <2>2, <2>3 DEF RowsStep
  <1>4. SentRows'
    <2> SUFFICES ASSUME NEW k \in Key, rows'[k].op = "SEND"
                 PROVE  rows'[k].senderTx = 0 /\ rows'[k].peer \in Server
      BY DEF SentRows
    <2>1. CASE rows[k].op # "NONE"
      BY <1>1, <2>1 DEF RowsStep, SameDocument, IInv, SentRows
    <2>2. CASE rows[k].op = "NONE"
      BY <1>1, <2>2 DEF RowsStep, NewRow, IInv, Receivers, Working
    <2>3. QED
      BY <2>1, <2>2
  <1>5. QED
    BY <1>3, <1>4

(* A RECEIVE row that names a file after the step named it before the step, *)
(* or records the receipt of a thread that had stored it.                   *)
LEMMA RecordedFile ==
    ASSUME IInv, [Next]_vars, NEW k \in Key,
           rows'[k].op = "RECEIVE", rows'[k].file # NoKey
    PROVE  \/ rows[k].op = "RECEIVE" /\ rows[k].file = rows'[k].file
           \/ /\ rows[k].op = "NONE" /\ k = Fresh(k[1])
              /\ \E t \in Key : /\ Unrecorded(t) /\ post[t].to = k[1]
                                /\ rows'[k].file = recv[t].mem.file
                                /\ recv'[t].pc = "deliver"
  <1>1. CASE rows[k].op # "NONE"
    BY <1>1, TableStep DEF RowsStep, SameDocument, IsSentTranscriptAck
  <1>2. CASE rows[k].op = "NONE"
    <2>1. NewRow(k)
      BY <1>2, TableStep DEF RowsStep
    <2>2. QED
      BY <1>2, <2>1 DEF NewRow, Unrecorded
  <1>3. QED
    BY <1>1, <1>2

LEMMA RecordedPreserved ==
    ASSUME IInv, [Next]_vars
    PROVE  RecordedInInbox' /\ StoredOnce'
  <1>1. RecordedInInbox'
    <2> SUFFICES ASSUME NEW k \in Key, rows'[k].op = "RECEIVE", rows'[k].file # NoKey
                 PROVE  rows'[k].file \in files'[k[1]]
      BY DEF RecordedInInbox
    <2>1. rows'[k].file \in files[k[1]]
      BY RecordedFile DEF IInv, RecordedInInbox, Receivers, Unrecorded, Working
    <2>2. QED
      BY <2>1, InboxGrows DEF Key
  <1>2. StoredOnce'
    <2> SUFFICES ASSUME NEW k \in Key, NEW l \in Key, k # l, k[1] = l[1],
                        rows'[k].op = "RECEIVE", rows'[l].op = "RECEIVE",
                        rows'[k].file # NoKey, rows'[k].file = rows'[l].file
                 PROVE  FALSE
      BY DEF StoredOnce
    <2>1. ~(k = Fresh(k[1]) /\ l = Fresh(l[1]))
      OBVIOUS
    <2>2. rows[k].op = "RECEIVE" /\ rows[l].op = "RECEIVE" =>
              rows[k].file # rows'[k].file \/ rows[l].file # rows'[l].file
      BY DEF IInv, StoredOnce
    <2>3. \A j \in Key, t \in Key :
              Unrecorded(t) /\ post[t].to = j[1] /\ rows[j].op = "RECEIVE" =>
                  rows[j].file # recv[t].mem.file
      BY DEF IInv, StoredByOne
    <2>4. QED
      BY <2>1, <2>2, <2>3, RecordedFile
  <1>3. QED
    BY <1>1, <1>2

LEMMA ReceiptsPreserved ==
    ASSUME IInv, [Next]_vars
    PROVE  Receipts' /\ AckAfterReceipt'
  <1>1. Receipts'
    <2> SUFFICES ASSUME NEW t \in Key, recv'[t].row # 0
                 PROVE  LET row == rows'[ReceivedKey(t)'] IN
                        /\ row.op = "RECEIVE" /\ row.peer = t[1] /\ row.senderTx = t[2]
                        /\ row.file \in {NoKey, post'[t].file}
                        /\ recv'[t].pc \in Working => SameDocument(recv'[t].mem, row)
      BY DEF Receipts
    <2>1. CASE recv[t].row # 0
      <3> DEFINE k == ReceivedKey(t)
      <3>1. ThreadStep(t)
        BY ThreadsStep
      <3>2. /\ k \in Key /\ post[t].state \notin {"none", "sent"}
            /\ rows[k].op = "RECEIVE" /\ rows[k].peer = t[1] /\ rows[k].senderTx = t[2]
            /\ rows[k].file \in {NoKey, post[t].file}
        BY <2>1, ReceivedKeyFacts
      <3>3. ReceivedKey(t)' = k /\ post'[t].file = post[t].file
        BY <2>1, <3>1, <3>2 DEF ThreadStep, ReceivedKey
      <3>4. SameDocument(rows'[k], rows[k])
        BY <3>2, TableStep DEF RowsStep
      <3>5. ~ReceiveStep(t)
        BY <3>2 DEF ReceiveStep, ReceiveUnverified, ReceiveDuplicate, ReceiveStored,
                    ReceiveDamaged, Receive
      <3>6. ASSUME recv'[t].pc \in Working
            PROVE  SameDocument(recv'[t].mem, rows'[k])
        <4>1. /\ recv[t].pc \in Working /\ recv[t].mem \in Row
              /\ recv'[t].mem \in {recv[t].mem, [recv[t].mem EXCEPT !.ackFile = TRUE]}
          BY <3>1, <3>5, <3>6 DEF ThreadStep, IInv, TypeOK, Recv
        <4>2. SameDocument(recv[t].mem, rows[k])
          BY <2>1, <4>1 DEF IInv, Receipts
        <4>3. SameDocument(recv'[t].mem, rows[k])
          BY <4>1, <4>2 DEF SameDocument, Row, IsSentTranscriptAck
        <4>4. QED
          BY <3>4, <4>3, SameDocumentCopies
      <3>7. rows'[k].file = rows[k].file
        BY <3>2, <3>4 DEF SameDocument, IsSentTranscriptAck
      <3>8. QED
        BY <3>2, <3>3, <3>4, <3>6, <3>7 DEF SameDocument
    <2>2. CASE recv[t].row = 0
      <3> DEFINE r == post[t].to
      <3>1. RecordReceipt(t)
        BY <2>2, ThreadsStep DEF ThreadStep
      <3>2. /\ recv[t] \in Recv /\ post[t] \in Post /\ recv[t].pc \in Working
            /\ recv[t].mem.op = "RECEIVE" /\ recv[t].mem.peer = t[1]
            /\ recv[t].mem.senderTx = t[2] /\ r \in Server
            /\ recv[t].mem.file \in {NoKey, post[t].file}
        BY <3>1 DEF RecordReceipt, IInv, TypeOK, Receivers, Posts, Working
      <3>3. /\ recv'[t].row = nextId[r] /\ recv'[t].mem = recv[t].mem
            /\ post'[t].to = r /\ post'[t].file = post[t].file
        BY <3>1, <3>2 DEF RecordReceipt, IInv, TypeOK, Recv, Post
      <3>4. ReceivedKey(t)' = Fresh(r)
        BY <3>3 DEF ReceivedKey, Fresh
      <3>5. Fresh(r) \in Key
        BY <3>1, <3>2, FreshIsKey DEF RecordReceipt, Create, IInv
      <3>6. rows'[Fresh(r)] = recv[t].mem
        BY <3>1, <3>5 DEF RecordReceipt, Create, IInv, TypeOK
      <3>7. QED
        BY <3>2, <3>3, <3>4, <3>6, SameDocumentReflexive
    <2>3. QED
      BY <2>1, <2>2
  <1>2. AckAfterReceipt'
    <2> SUFFICES ASSUME NEW t \in Key, ack'[t].state # "none"
                 PROVE  /\ recv'[t].row # 0
                        /\ recv'[t].pc \notin {"deliver", "transcriptAck"}
      BY DEF AckAfterReceipt
    <2>1. ThreadStep(t) /\ TypeOK
      BY ThreadsStep DEF IInv
    <2>2. CASE ack[t].state # "none"
      <3>1. recv[t].row # 0 /\ recv[t].pc \notin {"deliver", "transcriptAck"}
        BY <2>2 DEF IInv, AckAfterReceipt
      <3>2. ~RecordReceipt(t) /\ ~DeliverTranscript(t)
        BY <3>1 DEF RecordReceipt, ReceiptNotSaved, DeliverTranscript, IInv, Receivers, Working
      <3>3. QED
        BY <2>1, <3>1, <3>2 DEF ThreadStep
    <2>3. CASE ack[t].state = "none"
      <3>1. recv[t].pc \in {"deliver", "transcriptAck"} /\ recv[t].row # 0
        BY <2>3, AckStep DEF IInv, Receivers, Working
      <3>2. recv'[t].pc = "acking"
        <4>1. AckTranscript(t) \/ AckRequest(t) \/ AckRow(t)
          BY <2>3, AckStep, Zenon
        <4>2. recv' = [recv EXCEPT ![t].pc = "acking", ![t].mem.ackFile = TRUE]
          BY <4>1 DEF AckTranscript, AckRequest, AckRow, SendAck
        <4>3. recv[t] \in Recv
          BY <2>1 DEF TypeOK
        <4>4. QED
          BY <2>1, <4>2, <4>3 DEF TypeOK, Recv
      <3>3. QED
        BY <2>1, <3>1, <3>2 DEF ThreadStep
    <2>4. QED
      BY <2>2, <2>3
  <1>3. QED
    BY <1>1, <1>2

(* What a receiving thread starts with.                                     *)
LEMMA NewReceiver ==
    ASSUME IInv, NEW t \in Key, ReceiveStep(t)
    PROVE  LET m == recv'[t].mem IN
           /\ post[t].state = "sent" /\ rows' = rows
           /\ \A u \in Key : u # t => recv'[u] = recv[u]
           /\ recv'[t].pc = "received" /\ recv'[t].row = 0
           /\ m.op = "RECEIVE" /\ m.peer = t[1] /\ m.senderTx = t[2]
           /\ \/ m.file = NoKey /\ m.error /\ ~m.request /\ m.status = "FAILURE"
              \/ /\ m.file = post[t].file /\ StoreFile(t)
                 /\ m.file \notin files[post[t].to] /\ m.file \in files'[post[t].to]
  <1> USE DEF IInv
  <1> DEFINE m == recv'[t].mem
             row == Receipt(t)
  <1>1. post[t].state = "sent" /\ rows' = rows
    BY DEF ReceiveStep, ReceiveUnverified, ReceiveDuplicate, ReceiveStored,
           ReceiveDamaged, Receive
  <1>2. /\ post[t].to \in Server /\ post[t].file \in Key
        /\ recv[t].row = 0 /\ recv[t] \in Recv
    BY <1>1 DEF Posts, TypeOK
  <1>3. /\ row.op = "RECEIVE" /\ row.peer = t[1] /\ row.senderTx = t[2]
        /\ row.file = NoKey /\ ~row.request /\ row.status = "FAILURE" /\ row \in Row
    BY ReceiptType DEF Receipt, NoRow
  <1>4. ASSUME NEW mem, Receive(t, mem)
        PROVE  /\ \A u \in Key : u # t => recv'[u] = recv[u]
               /\ recv'[t].pc = "received" /\ recv'[t].row = 0 /\ recv'[t].mem = mem
    BY <1>2, <1>4 DEF Receive, TypeOK, Recv
  <1>5. ASSUME Receive(t, [row EXCEPT !.error = TRUE])
        PROVE  /\ m.op = "RECEIVE" /\ m.peer = t[1] /\ m.senderTx = t[2]
               /\ m.file = NoKey /\ m.error /\ ~m.request /\ m.status = "FAILURE"
    BY <1>3, <1>4, <1>5 DEF Row
  <1>6. ASSUME StoreFile(t)
        PROVE  post[t].file \notin files[post[t].to] /\ post[t].file \in files'[post[t].to]
    BY <1>2, <1>6 DEF StoreFile, InInbox, TypeOK
  <1>7. CASE ReceiveUnverified(t) \/ ReceiveDuplicate(t)
    BY <1>1, <1>4, <1>5, <1>7 DEF ReceiveUnverified, ReceiveDuplicate
  <1>8. CASE ReceiveStored(t)
    <2> DEFINE mem == [row EXCEPT !.file = post[t].file, !.request = post[t].request,
                                  !.status = "SUCCESS"]
    <2>1. /\ mem.op = "RECEIVE" /\ mem.peer = t[1] /\ mem.senderTx = t[2]
          /\ mem.file = post[t].file
      BY <1>3 DEF Row
    <2>2. Receive(t, mem) /\ StoreFile(t)
      BY <1>8 DEF ReceiveStored
    <2>3. QED
      BY <1>1, <1>4, <1>6, <2>1, <2>2
  <1>9. ASSUME NEW request \in BOOLEAN, NEW status \in {"SUCCESS", "FAILURE"},
               ReceiveDamaged(t, request, status)
        PROVE  /\ \A u \in Key : u # t => recv'[u] = recv[u]
               /\ recv'[t].pc = "received" /\ recv'[t].row = 0
               /\ m.op = "RECEIVE" /\ m.peer = t[1] /\ m.senderTx = t[2]
               /\ m.file = post[t].file /\ StoreFile(t)
               /\ m.file \notin files[post[t].to] /\ m.file \in files'[post[t].to]
    <2> DEFINE mem == [row EXCEPT !.file = post[t].file, !.request = request,
                                  !.status = status, !.error = TRUE]
    <2>1. /\ mem.op = "RECEIVE" /\ mem.peer = t[1] /\ mem.senderTx = t[2]
          /\ mem.file = post[t].file
      BY <1>3 DEF Row
    <2>2. Receive(t, mem) /\ StoreFile(t)
      BY <1>9 DEF ReceiveDamaged
    <2>3. QED
      BY <1>4, <1>6, <2>1, <2>2
  <1>10. QED
    BY <1>1, <1>7, <1>8, <1>9 DEF ReceiveStep

LEMMA ReceiversPreserved ==
    ASSUME IInv, [Next]_vars
    PROVE  Receivers'
  <1> USE DEF IInv
  <1> SUFFICES ASSUME NEW t \in Key, recv'[t].pc \in Working
               PROVE  LET m == recv'[t].mem IN
                      /\ m.op = "RECEIVE" /\ m.peer = t[1] /\ m.senderTx = t[2]
                      /\ \/ m.file = NoKey /\ m.error /\ ~m.request /\ m.status = "FAILURE"
                         \/ m.file = post'[t].file /\ m.file \in files'[post'[t].to]
                      /\ recv'[t].pc = "transcriptAck" => m.file = post'[t].file
                      /\ recv'[t].pc = "received" <=> recv'[t].row = 0
    BY DEF Receivers
  <1>1. ThreadStep(t) /\ recv[t] \in Recv /\ recv[t].mem \in Row
    BY ThreadsStep DEF TypeOK, Recv
  <1>2. CASE ReceiveStep(t)
    <2>1. post'[t].to = post[t].to /\ post'[t].file = post[t].file
      BY <1>1, <1>2, NewReceiver DEF ThreadStep
    <2>2. QED
      BY <1>2, <2>1, NewReceiver
  <1>3. CASE ~ReceiveStep(t)
    <2> DEFINE m == recv[t].mem
    <2>1. /\ recv[t].pc \in Working
          /\ recv'[t].mem \in {m, [m EXCEPT !.ackFile = TRUE]}
      BY <1>1, <1>3 DEF ThreadStep
    <2>2. /\ recv'[t].mem.op = m.op /\ recv'[t].mem.peer = m.peer
          /\ recv'[t].mem.senderTx = m.senderTx /\ recv'[t].mem.file = m.file
          /\ recv'[t].mem.error = m.error /\ recv'[t].mem.request = m.request
          /\ recv'[t].mem.status = m.status
      BY <1>1, <2>1 DEF Row
    <2>3. /\ post[t].state # "none" /\ post[t].to \in Server
          /\ post'[t].to = post[t].to /\ post'[t].file = post[t].file
      BY <1>1, <2>1 DEF Posts, ThreadStep, Working
    <2>4. /\ m.op = "RECEIVE" /\ m.peer = t[1] /\ m.senderTx = t[2]
          /\ \/ m.file = NoKey /\ m.error /\ ~m.request /\ m.status = "FAILURE"
             \/ m.file = post[t].file /\ m.file \in files'[post[t].to]
      BY <2>1, <2>3, InboxGrows DEF Receivers
    <2>5. recv'[t].pc = "transcriptAck" => m.file = post[t].file
      <3>1. CASE DeliverTranscript(t)
        BY <2>4, <3>1 DEF DeliverTranscript, IsTranscript
      <3>2. CASE recv[t] = recv'[t]
        BY <2>1, <3>2 DEF Receivers
      <3>3. QED
        BY <1>1, <3>1, <3>2 DEF ThreadStep
    <2>6. recv'[t].pc = "received" <=> recv'[t].row = 0
      <3>1. CASE recv[t].pc = "received" /\ recv[t].row = 0
        <4>1. CASE recv'[t].row # 0
          <5>1. RecordReceipt(t)
            BY <1>1, <3>1, <4>1 DEF ThreadStep
          <5>2. recv'[t].pc = "deliver"
            BY <1>1, <5>1 DEF RecordReceipt, TypeOK, Recv
          <5>3. QED
            BY <4>1, <5>2
        <4>2. CASE recv'[t].row = 0
          <5>1. ~DeliverTranscript(t)
            BY <3>1 DEF DeliverTranscript
          <5>2. recv'[t].pc \notin {"deliver", "acking", "transcriptAck"}
            BY <1>1, <3>1, <4>2, <5>1 DEF ThreadStep
          <5>3. QED
            BY <4>2, <5>2 DEF Working
        <4>3. QED
          BY <4>1, <4>2
      <3>2. CASE recv[t].pc # "received" /\ recv[t].row # 0
        BY <1>1, <1>3, <3>2 DEF ThreadStep
      <3>3. QED
        BY <2>1, <3>1, <3>2 DEF Receivers
    <2>7. QED
      BY <2>2, <2>3, <2>4, <2>5, <2>6
  <1>4. QED
    BY <1>2, <1>3

LEMMA StoredByOnePreserved ==
    ASSUME IInv, [Next]_vars
    PROVE  StoredByOne'
  <1> USE DEF IInv
  <1> DEFINE Pending(t) == recv'[t].pc = "received" /\ recv'[t].mem.file # NoKey
  <1>1. ASSUME NEW t \in Key, Pending(t), ~ReceiveStep(t)
        PROVE  Unrecorded(t) /\ recv'[t] = recv[t]
    BY <1>1, ThreadsStep DEF ThreadStep, Unrecorded
  <1>2. ASSUME NEW t \in Key, Pending(t), ReceiveStep(t)
        PROVE  /\ recv'[t].mem.file \notin files[post[t].to] /\ rows' = rows
               /\ \A u \in Key : u # t => recv'[u] = recv[u]
    BY <1>2, NewReceiver
  <1>3. ASSUME NEW t \in Key, Pending(t)
        PROVE  post'[t].to = post[t].to /\ post[t].to \in Server
    <2>1. post[t].state # "none"
      BY <1>1, <1>3, NewReceiver DEF Posts, Unrecorded
    <2>2. QED
      BY <2>1, ThreadsStep DEF ThreadStep, Posts
  <1>4. ASSUME NEW t \in Key, Pending(t), NEW k \in Key,
               k[1] = post[t].to, rows'[k].op = "RECEIVE"
        PROVE  rows'[k].file # recv'[t].mem.file
    <2>1. CASE ReceiveStep(t)
      BY <1>2, <1>4, <2>1 DEF RecordedInInbox
    <2>2. CASE ~ReceiveStep(t)
      <3>1. Unrecorded(t) /\ recv'[t] = recv[t] /\ recv'[t].pc # "deliver"
        BY <1>1, <1>4, <2>2
      <3>2. SUFFICES ASSUME rows'[k].file = recv[t].mem.file
                     PROVE  FALSE
        BY <3>1
      <3>3. rows'[k].file # NoKey
        BY <3>1, <3>2 DEF Unrecorded
      <3>4. CASE rows[k].op = "RECEIVE" /\ rows[k].file = rows'[k].file
        BY <1>4, <3>1, <3>2, <3>4 DEF StoredByOne
      <3>5. ASSUME NEW u \in Key, Unrecorded(u), post[u].to = k[1],
                   rows'[k].file = recv[u].mem.file, recv'[u].pc = "deliver"
            PROVE  FALSE
        BY <1>4, <3>1, <3>2, <3>5 DEF StoredByOne
      <3>6. QED
        BY <1>4, <3>3, <3>4, <3>5, RecordedFile
    <2>3. QED
      BY <2>1, <2>2
  <1>5. ASSUME NEW t \in Key, Pending(t), NEW u \in Key, Pending(u), u # t,
               post[u].to = post[t].to
        PROVE  recv'[u].mem.file # recv'[t].mem.file
    <2>1. CASE ~ReceiveStep(t) /\ ~ReceiveStep(u)
      BY <1>1, <1>5, <2>1 DEF StoredByOne
    <2>2. ASSUME NEW v \in Key, NEW w \in Key, Pending(v), Pending(w), v # w,
                 post[v].to = post[w].to, ReceiveStep(v)
          PROVE  recv'[v].mem.file # recv'[w].mem.file
      <3>1. recv'[w] = recv[w]
        BY <1>2, <2>2
      <3>2. recv[w].mem.file \in files[post[w].to]
        BY <2>2, <3>1 DEF Receivers, Working
      <3>3. QED
        BY <1>2, <2>2, <3>1, <3>2
    <2>3. QED
      BY <1>5, <2>1, <2>2
  <1>6. QED
    BY <1>3, <1>4, <1>5 DEF StoredByOne, Unrecorded

LEMMA AcceptedPreserved ==
    ASSUME IInv, [Next]_vars
    PROVE  AcceptedMeansStored'
  <1> USE DEF IInv
  <1> SUFFICES ASSUME NEW t \in Key, ack'[t].state # "none", ack'[t].code = "Accepted"
               PROVE  /\ rows'[ReceivedKey(t)'].file = post'[t].file
                      /\ post'[t].file \in files'[post'[t].to]
    BY DEF AcceptedMeansStored
  <1> DEFINE k == ReceivedKey(t)
             m == recv[t].mem
  <1>1. recv[t].row # 0
    BY AckStep DEF AckAfterReceipt, Receivers, Working
  <1>2. /\ k \in Key /\ rows[k].op = "RECEIVE" /\ post[t].to \in Server
        /\ post[t].state # "none"
    BY <1>1, ReceivedKeyFacts
  <1>3. /\ ReceivedKey(t)' = k
        /\ post'[t].to = post[t].to /\ post'[t].file = post[t].file
    BY <1>1, <1>2, ThreadsStep DEF ThreadStep, ReceivedKey
  <1>4. rows'[k].file = rows[k].file
    BY <1>2, TableStep DEF RowsStep, SameDocument, IsSentTranscriptAck
  <1>5. rows[k].file = post[t].file /\ post[t].file \in files[post[t].to]
    <2>1. CASE ack[t].state # "none" /\ ack'[t].code = ack[t].code
      BY <2>1 DEF AcceptedMeansStored
    <2>2. CASE /\ AckTranscript(t) \/ AckRequest(t) \/ AckRow(t)
               /\ recv[t].pc \in {"deliver", "transcriptAck"}
      <3>1. SameDocument(m, rows[k]) /\ m.op = "RECEIVE"
        BY <1>1, <2>2 DEF Receipts, Receivers, Working
      <3>2. rows[k].file = m.file
        BY <1>2, <3>1 DEF SameDocument, IsSentTranscriptAck
      <3>3. m.file = post[t].file
        <4>1. CASE AckTranscript(t)
          BY <4>1 DEF AckTranscript, ChildDone, Receivers, Working
        <4>2. CASE AckRequest(t)
          BY <2>2, <4>2 DEF AckRequest, Receivers, Working
        <4>3. CASE AckRow(t)
          <5>1. ack'[t].code = IF m.error THEN "Rejected" ELSE "Accepted"
            BY <4>3 DEF AckRow, SendAck, TypeOK
          <5>2. ~m.error
            BY <5>1
          <5>3. QED
            BY <2>2, <5>2 DEF Receivers, Working
        <4>4. QED
          BY <2>2, <4>1, <4>2, <4>3
      <3>4. m.file # NoKey
        BY <1>2, <3>3, NoKeyNotKey DEF Posts
      <3>5. QED
        BY <2>2, <3>2, <3>3, <3>4 DEF Receivers, Working
    <2>3. QED
      BY <2>1, <2>2, AckStep
  <1>6. QED
    BY <1>2, <1>3, <1>4, <1>5, InboxGrows

(* A handler that has found its row found it in this step or holds it.      *)
LEMMA HandlerFound ==
    ASSUME IInv, [Next]_vars, NEW t \in Key, handler'[t].pc = "found"
    PROVE  \/ FindAcknowledged(t)
           \/ handler'[t] = handler[t] /\ ack'[t].state = ack[t].state
  <1> USE DEF IInv
  <1>1. CASE UNCHANGED vars
    BY <1>1 DEF vars
  <1>2. ASSUME NEW s \in Server, User(s)
        PROVE  UNCHANGED <<handler, ack>>
    BY <1>2, UserRows
  <1>3. ASSUME NEW u \in Key, SenderStep(u) \/ ReceiveStep(u) \/ LosePost(u)
        PROVE  UNCHANGED <<handler, ack>>
    BY <1>3 DEF SenderStep, RequestNotWritten, ResendNoEndpoint, Abandon,
                PostDocument, SendOk, SendFails, SendFailsAgain,
                ReceiveStep, ReceiveUnverified, ReceiveDuplicate, ReceiveStored,
                ReceiveDamaged, Receive, LosePost
  <1>4. ASSUME NEW u \in Key, DeliverStep(u)
        PROVE  handler' = handler /\ ack'[t] = ack[t]
    <2>1. handler' = handler
      BY <1>4 DEF DeliverStep, RecordReceipt, ReceiptNotSaved, DeliverTranscript, AckTranscript,
                  AckRequest, AckRow, SendAck, DeliverFails, FinishDelivery
    <2>2. ack[t].state = "taken"
      BY <2>1 DEF Handlers
    <2>3. recv[t].pc \notin {"deliver", "transcriptAck"}
      BY <2>2 DEF AckAfterReceipt
    <2>4. QED
      BY <1>4, <2>1, <2>3
         DEF DeliverStep, RecordReceipt, ReceiptNotSaved, DeliverTranscript, AckTranscript,
             AckRequest, AckRow, SendAck, ChildDone, DeliverFails,
             FinishDelivery, TypeOK
  <1>5. ASSUME NEW u \in Key, HandlerStep(u) \/ LoseAck(u)
        PROVE  FindAcknowledged(t) \/ (handler'[t] = handler[t] /\ ack'[t] = ack[t])
    <2>1. CASE u # t
      BY <1>5, <2>1 DEF HandlerStep, FindAcknowledged, Acknowledge,
                        AcknowledgeUnknown, LoseAck, TypeOK
    <2>2. CASE u = t
      <3>1. ~Acknowledge(t)
        BY DEF Acknowledge, TypeOK, NoHandler
      <3>2. ack[t].state = "sent" => handler[t].pc # "found"
        BY DEF Handlers
      <3>3. QED
        BY <1>5, <2>2, <3>1, <3>2 DEF HandlerStep, AcknowledgeUnknown, LoseAck
    <2>3. QED
      BY <2>1, <2>2
  <1>6. ASSUME NEW s \in Server, Crash(s)
        PROVE  handler'[t] = handler[t] /\ ack'[t] = ack[t]
    BY <1>6 DEF Crash, NoHandler
  <1>7. QED
    BY <1>1, <1>2, <1>3, <1>4, <1>5, <1>6 DEF Next

LEMMA HandlersPreserved ==
    ASSUME IInv, [Next]_vars
    PROVE  Handlers'
  <1> USE DEF IInv
  <1> SUFFICES ASSUME NEW t \in Key, handler'[t].pc = "found"
               PROVE  LET k == <<t[1], handler'[t].row>> IN
                      /\ k \in Key /\ rows'[k].op # "NONE" /\ ack'[t].state = "taken"
                      /\ SameDocument(handler'[t].mem, rows'[k])
    BY DEF Handlers
  <1>1. CASE FindAcknowledged(t)
    <2> DEFINE k == AckedKey(t)
    <2>1. /\ k \in Key /\ rows[k].op # "NONE" /\ k[1] = t[1]
          /\ handler'[t] = [pc |-> "found", row |-> k[2], mem |-> rows[k]]
          /\ ack'[t] = [ack[t] EXCEPT !.state = "taken"] /\ rows' = rows
      BY <1>1 DEF FindAcknowledged, Exists, AckedKey, TypeOK
    <2>2. <<t[1], handler'[t].row>> = k
      BY <2>1 DEF AckedKey
    <2>3. ack'[t].state = "taken"
      BY <2>1 DEF TypeOK, Ack
    <2>4. QED
      BY <2>1, <2>2, <2>3, SameDocumentReflexive
  <1>2. CASE handler'[t] = handler[t] /\ ack'[t].state = ack[t].state
    <2> DEFINE k == <<t[1], handler[t].row>>
    <2>1. /\ k \in Key /\ rows[k].op # "NONE" /\ ack[t].state = "taken"
          /\ SameDocument(handler[t].mem, rows[k])
      BY <1>2 DEF Handlers
    <2>2. SameDocument(rows'[k], rows[k])
      BY <2>1, TableStep DEF RowsStep
    <2>3. rows'[k].op # "NONE"
      BY <2>1, <2>2 DEF SameDocument
    <2>4. QED
      BY <1>2, <2>1, <2>2, <2>3, SameDocumentCopies
  <1>3. FindAcknowledged(t) \/ (handler'[t] = handler[t] /\ ack'[t].state = ack[t].state)
    BY HandlerFound
  <1>4. QED
    BY <1>1, <1>2, <1>3

LEMMA PostsPreserved ==
    ASSUME IInv, [Next]_vars
    PROVE  Posts'
  <1> USE DEF IInv
  <1> SUFFICES ASSUME NEW t \in Key
               PROVE  /\ post'[t].state # "none" => /\ rows'[t].op = "SEND"
                                                    /\ post'[t].to \in Server
                                                    /\ post'[t].file \in Key
                      /\ post'[t].state \in {"none", "sent"} =>
                            recv'[t].pc = "idle" /\ recv'[t].row = 0
                      /\ post'[t].state = "answered" => recv'[t].row # 0
    BY DEF Posts
  <1>1. /\ ThreadStep(t) /\ recv[t] \in Recv /\ post[t] \in Post
        /\ rows[t].op = "SEND" => rows'[t].op = "SEND"
    BY ThreadsStep, TableStep DEF TypeOK, RowsStep, SameDocument
  <1>2. CASE PostDocument(t)
    <2> DEFINE m == IF IsResend(t) THEN rows[t] ELSE sender[t].mem
    <2>1. /\ post'[t].state = "sent" /\ post'[t].to = m.peer /\ post'[t].file = m.file
          /\ m.file # NoKey /\ recv' = recv /\ sender[t].pc = "created"
      BY <1>2 DEF PostDocument, TypeOK
    <2>2. /\ post[t].state = "none" /\ rows[t].op = "SEND"
          /\ ~IsResend(t) => SameDocument(m, rows[t])
      BY <2>1 DEF Senders, Active, IsResend
    <2>3. m.op = "SEND" /\ m.peer = rows[t].peer /\ rows[t].peer \in Server
      BY <2>2 DEF SameDocument, SentRows
    <2>4. m.file \in Key
      BY <2>1 DEF TypeOK, Row, Sender
    <2>5. QED
      BY <1>1, <2>1, <2>2, <2>3, <2>4 DEF Posts
  <1>3. CASE post'[t] = post[t] /\ recv'[t] = recv[t]
    BY <1>1, <1>3 DEF Posts
  <1>4. CASE post[t].state \notin {"none", "sent"} /\ post'[t] = post[t]
    BY <1>1, <1>4 DEF Posts, ThreadStep
  <1>5. CASE /\ post[t].state \notin {"none"}
             /\ \E x \in {"taken", "lost"} : post'[t] = [post[t] EXCEPT !.state = x]
    BY <1>1, <1>5 DEF Posts, Post
  <1>6. CASE RecordReceipt(t)
    <2>1. recv[t].pc = "received" /\ post'[t] = [post[t] EXCEPT !.state = "answered"]
      BY <1>6 DEF RecordReceipt, TypeOK
    <2>2. recv'[t].pc = "deliver"
      BY <1>1, <1>6 DEF RecordReceipt, TypeOK, Recv
    <2>3. QED
      BY <1>1, <2>1, <2>2 DEF Posts, ThreadStep, Post
  <1>7. \/ PostDocument(t) \/ RecordReceipt(t)
        \/ post'[t] = post[t] /\ recv'[t] = recv[t]
        \/ post[t].state \notin {"none", "sent"} /\ post'[t] = post[t]
        \/ /\ post[t].state \notin {"none"}
           /\ \E x \in {"taken", "lost"} : post'[t] = [post[t] EXCEPT !.state = x]
    <2>1. CASE UNCHANGED vars
      BY <2>1 DEF vars
    <2>2. ASSUME NEW s \in Server, User(s)
          PROVE  UNCHANGED <<post, recv>>
      BY <2>2, UserRows
    <2>3. ASSUME NEW u \in Key, SenderStep(u)
          PROVE  PostDocument(t) \/ (post'[t] = post[t] /\ recv'[t] = recv[t])
      BY <2>3 DEF SenderStep, RequestNotWritten, ResendNoEndpoint, Abandon,
                  PostDocument, SendOk, SendFails, SendFailsAgain, TypeOK
    <2>4. ASSUME NEW u \in Key, ReceiveStep(u)
          PROVE  \/ post'[t] = post[t] /\ recv'[t] = recv[t]
                 \/ /\ post[t].state = "sent"
                    /\ post'[t] = [post[t] EXCEPT !.state = "taken"]
      BY <2>4 DEF ReceiveStep, ReceiveUnverified, ReceiveDuplicate, ReceiveStored,
                  ReceiveDamaged, Receive, TypeOK
    <2>5. ASSUME NEW u \in Key, DeliverStep(u)
          PROVE  \/ RecordReceipt(t)
                 \/ post'[t] = post[t] /\ recv'[t] = recv[t]
                 \/ post[t].state \notin {"none", "sent"} /\ post'[t] = post[t]
                 \/ /\ post[t].state # "none"
                    /\ post'[t] = [post[t] EXCEPT !.state = "lost"]
      <3>1. recv[u].pc \in Working => post[u].state \notin {"none", "sent"}
        BY DEF Posts, Working
      <3>2. CASE RecordReceipt(u)
        BY <3>2 DEF RecordReceipt, TypeOK
      <3>3. CASE ReceiptNotSaved(u)
        <4>1. /\ post' = [post EXCEPT ![u].state = "lost"]
              /\ recv[u].pc \in Working
              /\ t # u => recv'[t] = recv[t]
          BY <3>3 DEF ReceiptNotSaved, RecvDone, Working, TypeOK
        <4>2. QED
          BY <3>1, <4>1 DEF TypeOK
      <3>4. CASE ~RecordReceipt(u) /\ ~ReceiptNotSaved(u)
        <4>1. /\ post' = post /\ recv[u].pc \in Working
              /\ t # u => recv'[t] = recv[t]
          BY <2>5, <3>4
             DEF DeliverStep, DeliverTranscript, AckTranscript, AckRequest, AckRow,
                 SendAck, ChildDone, DeliverFails, FinishDelivery, RecvDone,
                 Working, TypeOK
        <4>2. QED
          BY <3>1, <4>1
      <3>5. QED
        BY <3>2, <3>3, <3>4
    <2>6. ASSUME NEW u \in Key, HandlerStep(u) \/ LosePost(u) \/ LoseAck(u)
          PROVE  \/ post'[t] = post[t] /\ recv'[t] = recv[t]
                 \/ /\ post[t].state = "sent"
                    /\ post'[t] = [post[t] EXCEPT !.state = "lost"]
      BY <2>6 DEF HandlerStep, FindAcknowledged, Acknowledge, AcknowledgeUnknown,
                  LosePost, LoseAck, TypeOK
    <2>7. ASSUME NEW s \in Server, Crash(s)
          PROVE  \/ post'[t] = post[t] /\ recv'[t] = recv[t]
                 \/ post[t].state \notin {"none", "sent"} /\ post'[t] = post[t]
                 \/ /\ post[t].state = "taken"
                    /\ post'[t] = [post[t] EXCEPT !.state = "lost"]
      <3>1. recv[t].pc \in Working => post[t].state \notin {"none", "sent"}
        BY DEF Posts, Working
      <3>2. QED
        BY <2>7, <3>1 DEF Crash
    <2>8. QED
      BY <2>1, <2>2, <2>3, <2>4, <2>5, <2>6, <2>7 DEF Next
  <1>8. QED
    BY <1>2, <1>3, <1>4, <1>5, <1>6, <1>7

LEMMA SendersPreserved ==
    ASSUME IInv, [Next]_vars
    PROVE  Senders'
  <1> USE DEF IInv
  <1> DEFINE Good(t) ==
        /\ sender'[t].pc \in Active =>
              /\ rows'[t].op = "SEND"
              /\ sender'[t].saveTo \in Key
              /\ rows'[sender'[t].saveTo].op = "SEND"
              /\ SameDocument(sender'[t].mem, rows'[sender'[t].saveTo])
        /\ sender'[t].pc = "created" => post'[t].state = "none"
        /\ sender'[t].pc = "failing" => sender'[t].saveTo = t
        /\ sender'[t].pc = "ok" => post'[t].state = "answered"
  <1> SUFFICES ASSUME NEW t \in Key
               PROVE  Good(t)
    BY DEF Senders
  <1>1. ASSUME NEW k \in Key, rows[k].op = "SEND"
        PROVE  rows'[k].op = "SEND" /\ SameDocument(rows'[k], rows[k])
    BY <1>1, TableStep DEF RowsStep, SameDocument
  <1>2. ASSUME sender[t].pc \in Active
        PROVE  /\ rows'[t].op = "SEND" /\ sender[t].saveTo \in Key
               /\ rows'[sender[t].saveTo].op = "SEND"
               /\ SameDocument(sender[t].mem, rows'[sender[t].saveTo])
    BY <1>1, <1>2, SameDocumentCopies DEF Senders
  <1>3. ASSUME sender'[t] = sender[t],
               \/ post'[t].state = post[t].state
               \/ post[t].state \notin {"none", "answered"}
        PROVE  Good(t)
    BY <1>2, <1>3 DEF Senders, Active
  <1>4. ASSUME sender'[t].pc \in {"failed", "crashed"}
        PROVE  Good(t)
    BY <1>4 DEF Active
  <1>5. ASSUME NEW k, NewSender(k), post' = post
        PROVE  Good(t)
    <2>1. CASE t = k
      <3>1. post[t].state = "none"
        BY <1>5, <2>1 DEF NewSender, Posts
      <3>2. QED
        BY <1>5, <2>1, <3>1 DEF NewSender
    <2>2. CASE t # k
      BY <1>3, <1>5, <2>2 DEF NewSender
    <2>3. QED
      BY <2>1, <2>2
  <1>6. CASE UNCHANGED vars
    BY <1>3, <1>6 DEF vars
  <1>7. ASSUME NEW s \in Server, User(s)
        PROVE  Good(t)
    BY <1>5, <1>7, UserRows
  <1>8. ASSUME NEW u \in Key, SenderStep(u), u # t
        PROVE  Good(t)
    <2>1. sender'[t] = sender[t] /\ post'[t] = post[t]
      BY <1>8 DEF SenderStep, RequestNotWritten, ResendNoEndpoint, Abandon, PostDocument,
                  SendOk, SendFails, SendFailsAgain, SenderDone, TypeOK
    <2>2. QED
      BY <1>3, <2>1
  <1>9. ASSUME SenderStep(t)
        PROVE  Good(t)
    <2>0. sender[t] \in Sender
      BY DEF TypeOK
    <2>1. ASSUME SenderDone(t, "failed")
          PROVE  sender'[t].pc = "failed"
      BY <2>0, <2>1 DEF SenderDone, TypeOK, Sender
    <2>2. CASE \/ RequestNotWritten(t) \/ ResendNoEndpoint(t) \/ Abandon(t)
               \/ SendFailsAgain(t)
      BY <1>4, <2>1, <2>2 DEF RequestNotWritten, ResendNoEndpoint, Abandon, SendFailsAgain
    <2>3. CASE PostDocument(t)
      <3>1. sender'[t] = [sender[t] EXCEPT !.pc = "posted"] /\ sender[t].pc = "created"
        BY <2>3 DEF PostDocument, TypeOK
      <3>2. /\ sender'[t].pc = "posted" /\ sender'[t].mem = sender[t].mem
            /\ sender'[t].saveTo = sender[t].saveTo
        BY <2>0, <3>1 DEF Sender
      <3>3. QED
        BY <1>2, <3>1, <3>2 DEF Active
    <2>4. CASE SendOk(t)
      <3>1. sender'[t].pc = "ok" /\ post[t].state = "answered" /\ post' = post
        BY <2>0, <2>4 DEF SendOk, SenderDone, TypeOK, Sender
      <3>2. QED
        BY <3>1 DEF Active
    <2>5. CASE SendFails(t)
      <3> DEFINE m == [sender[t].mem EXCEPT !.error = TRUE]
      <3>1. CASE SenderDone(t, "failed")
        BY <1>4, <2>1, <3>1
      <3>2. CASE /\ ~IsResend(t)
                 /\ sender' = [sender EXCEPT ![t].pc = "failing", ![t].mem = m]
        <4>1. sender'[t] = [sender[t] EXCEPT !.pc = "failing", !.mem = m]
          BY <3>2 DEF TypeOK
        <4>2. /\ sender'[t].pc = "failing" /\ sender'[t].mem = m
              /\ sender'[t].saveTo = sender[t].saveTo /\ sender[t].saveTo = t
          BY <2>0, <3>2, <4>1 DEF Sender, IsResend
        <4>3. sender[t].pc \in Active /\ sender[t].mem \in Row
          BY <2>0, <2>5 DEF SendFails, Active, Sender
        <4>4. SameDocument(sender[t].mem, rows'[t]) /\ rows'[t].op = "SEND"
          BY <1>2, <4>2, <4>3
        <4>5. SameDocument(m, rows'[t])
          BY <4>3, <4>4 DEF SameDocument, Row
        <4>6. QED
          BY <4>2, <4>4, <4>5
      <3>3. QED
        BY <2>5, <3>1, <3>2 DEF SendFails
    <2>6. QED
      BY <1>9, <2>2, <2>3, <2>4, <2>5 DEF SenderStep
  <1>10. ASSUME NEW u \in Key, ReceiveStep(u) \/ HandlerStep(u) \/ LosePost(u) \/ LoseAck(u)
        PROVE  Good(t)
    <2>1. /\ sender' = sender
          /\ post'[t] = post[t] \/ post[t].state = "sent"
      BY <1>10 DEF ReceiveStep, ReceiveUnverified, ReceiveDuplicate, ReceiveStored,
                   ReceiveDamaged, Receive, HandlerStep, FindAcknowledged, Acknowledge,
                   AcknowledgeUnknown, LosePost, LoseAck, TypeOK
    <2>2. QED
      BY <1>3, <2>1
  <1>11. ASSUME NEW u \in Key, DeliverStep(u)
         PROVE  Good(t)
    <2>1. CASE DeliverTranscript(u)
      BY <1>5, <2>1, TranscriptAckSender DEF DeliverTranscript
    <2>2. CASE RecordReceipt(u)
      <3>1. post[u].state # "none" /\ sender' = sender /\ post[u] \in Post
        BY <2>2 DEF RecordReceipt, Posts, TypeOK
      <3>2. post'[t] = post[t] \/ (t = u /\ post'[t] = [post[t] EXCEPT !.state = "answered"])
        BY <2>2 DEF RecordReceipt, TypeOK
      <3>3. post'[t].state = post[t].state \/ post[t].state \notin {"none", "answered"}
        BY <3>1, <3>2 DEF Post
      <3>4. QED
        BY <1>3, <3>1, <3>3
    <2>3. CASE ReceiptNotSaved(u)
      <3>1. post[u].state \notin {"none", "answered"} /\ sender' = sender
            /\ post[u] \in Post
        BY <2>3 DEF ReceiptNotSaved, Posts, Receivers, Working, TypeOK
      <3>2. post'[t] = post[t] \/ (t = u /\ post'[t] = [post[t] EXCEPT !.state = "lost"])
        BY <2>3 DEF ReceiptNotSaved, TypeOK
      <3>3. post'[t].state = post[t].state \/ post[t].state \notin {"none", "answered"}
        BY <3>1, <3>2
      <3>4. QED
        BY <1>3, <3>1, <3>3
    <2>4. CASE ~DeliverTranscript(u) /\ ~RecordReceipt(u) /\ ~ReceiptNotSaved(u)
      <3>1. UNCHANGED <<sender, post>>
        BY <1>11, <2>4 DEF DeliverStep, AckTranscript, AckRequest, AckRow, SendAck,
                           DeliverFails, FinishDelivery
      <3>2. QED
        BY <1>3, <3>1
    <2>5. QED
      BY <2>1, <2>2, <2>3, <2>4
  <1>12. ASSUME NEW s \in Server, Crash(s)
         PROVE  Good(t)
    <2>0. sender[t] \in Sender
      BY DEF TypeOK
    <2>1. \/ sender'[t] = sender[t]
          \/ sender'[t] = [sender[t] EXCEPT !.pc = "crashed", !.mem = NoRow]
      BY <1>12 DEF Crash
    <2>2. post'[t] = post[t] \/ post[t].state = "taken"
      BY <1>12 DEF Crash
    <2>3. CASE sender'[t] = sender[t]
      BY <1>3, <2>2, <2>3
    <2>4. CASE sender'[t] = [sender[t] EXCEPT !.pc = "crashed", !.mem = NoRow]
      BY <1>4, <2>0, <2>4 DEF Sender
    <2>5. QED
      BY <2>1, <2>3, <2>4
  <1>13. QED
    BY <1>6, <1>7, <1>8, <1>9, <1>10, <1>11, <1>12 DEF Next

-----------------------------------------------------------------------------
(* The theorems *)

LEMMA InitInv ==
    ASSUME Init
    PROVE  IInv
  <1>1. TypeOK
    <2>1. \A s \in Server : 1 \in 1..(MaxRow + 1)
      BY ExchangeAssumption
    <2>2. 0 \in 0..MaxSends /\ 0 \in 0..MaxCrashes
      BY ExchangeAssumption
    <2>3. QED
      BY <2>1, <2>2, EmptyTypes DEF Init, TypeOK
  <1>2. \A k \in Key : /\ rows[k] = NoRow /\ sender[k] = NoSender /\ post[k] = NoPost
                       /\ recv[k] = NoRecv /\ ack[k] = NoAck /\ handler[k] = NoHandler
    BY DEF Init
  <1>3. FreshRows /\ SentRows /\ RecordedInInbox /\ StoredOnce
    BY <1>2 DEF FreshRows, SentRows, RecordedInInbox, StoredOnce, NoRow
  <1>4. Senders /\ Posts /\ Receivers /\ Receipts
    BY <1>2 DEF Senders, Posts, Receivers, Receipts, NoSender, NoPost, NoRecv,
                Active, Working
  <1>5. StoredByOne /\ Handlers /\ AckAfterReceipt /\ AcceptedMeansStored
    BY <1>2 DEF StoredByOne, Unrecorded, Handlers, AckAfterReceipt,
                AcceptedMeansStored, NoRecv, NoHandler, NoAck
  <1>6. QED
    BY <1>1, <1>3, <1>4, <1>5 DEF IInv

LEMMA InvariantStep ==
    ASSUME IInv, [Next]_vars
    PROVE  IInv'
  <1>1. FreshRows' /\ SentRows' /\ RecordedInInbox' /\ StoredOnce'
    BY TablesPreserved, RecordedPreserved
  <1>2. Receipts' /\ AckAfterReceipt' /\ Receivers' /\ StoredByOne'
    BY ReceiptsPreserved, ReceiversPreserved, StoredByOnePreserved
  <1>3. AcceptedMeansStored' /\ Handlers' /\ Posts' /\ Senders' /\ TypeOK'
    BY AcceptedPreserved, HandlersPreserved, PostsPreserved, SendersPreserved,
       TypeStep
  <1>4. QED
    BY <1>1, <1>2, <1>3 DEF IInv

(* The invariant of the exchange, with its threads, stale copies and        *)
(* crashes.                                                                 *)
THEOREM Invariance == Spec => []IInv
  <1>1. Init => IInv
    BY InitInv
  <1>2. IInv /\ [Next]_vars => IInv'
    BY InvariantStep
  <1>3. QED
    BY <1>1, <1>2, PTL DEF Spec

(* Every variable keeps its type.                                           *)
THEOREM TypeCorrect == Spec => []TypeOK
  <1>1. IInv => TypeOK
    BY DEF IInv
  <1>2. QED
    BY <1>1, Invariance, PTL

(* However receipts race, whatever is resent and wherever servers crash: an *)
(* inbox never holds one file for two receipts.                             *)
THEOREM NeverStoredTwice == Spec => []StoredOnce
  <1>1. IInv => StoredOnce
    BY DEF IInv
  <1>2. QED
    BY <1>1, Invariance, PTL

(* A sender that was answered has a receipt on record at the recipient.     *)
THEOREM AnswersAreRecorded == Spec => []AnsweredIsRecorded
  <1>1. IInv => AnsweredIsRecorded
    <2> SUFFICES ASSUME IInv, NEW t \in Key, sender[t].pc = "ok"
                 PROVE  \E k \in Key : /\ k[1] = post[t].to /\ rows[k].op = "RECEIVE"
                                       /\ rows[k].peer = t[1] /\ rows[k].senderTx = t[2]
      BY DEF AnsweredIsRecorded
    <2>1. recv[t].row # 0
      BY DEF IInv, Senders, Posts
    <2>2. QED
      BY <2>1, ReceivedKeyFacts
  <1>2. QED
    BY <1>1, Invariance, PTL

(* A document is only accepted when its receipt is on record and its file   *)
(* in the inbox.                                                            *)
THEOREM AcceptancesAreStored == Spec => []AcceptedMeansStored
  <1>1. IInv => AcceptedMeansStored
    BY DEF IInv
  <1>2. QED
    BY <1>1, Invariance, PTL

(* No save of a stale copy turns a row into the row of another document.    *)
THEOREM RowsKeepDocument == Spec => RowsKeepTheirDocument
  <1>1. IInv /\ [Next]_vars =>
            [\A k \in Key : rows[k].op # "NONE" =>
                /\ rows'[k].op = rows[k].op /\ rows'[k].kind = rows[k].kind
                /\ rows'[k].peer = rows[k].peer /\ rows'[k].docId = rows[k].docId
                /\ rows'[k].senderTx = rows[k].senderTx
                /\ IsSentTranscriptAck(rows[k]) \/ rows'[k].file = rows[k].file
            ]_vars
    BY TableStep DEF RowsStep, SameDocument
  <1>2. QED
    BY <1>1, Invariance, PTL DEF Spec, RowsKeepTheirDocument

-----------------------------------------------------------------------------
(* Exchange implements Delivery *)

(* A transfer starts with the POST of its document.                         *)
LEMMA PostStep ==
    ASSUME IInv, [Next]_vars, NEW t \in Key,
           post[t].state = "none", post'[t].state # "none"
    PROVE  PostDocument(t)
  <1> USE DEF IInv
  <1>1. recv[t].pc = "idle"
    BY DEF Posts
  <1>2. ASSUME NEW s \in Server, User(s)
        PROVE  FALSE
    BY <1>2, UserRows
  <1>3. ASSUME NEW u \in Key, SenderStep(u)
        PROVE  PostDocument(t)
    BY <1>3 DEF SenderStep, RequestNotWritten, ResendNoEndpoint, Abandon,
                PostDocument, SendOk, SendFails, SendFailsAgain, TypeOK
  <1>4. ASSUME NEW u \in Key, ReceiveStep(u)
        PROVE  FALSE
    BY <1>4 DEF ReceiveStep, ReceiveUnverified, ReceiveDuplicate, ReceiveStored,
                ReceiveDamaged, Receive, TypeOK
  <1>5. ASSUME NEW u \in Key, DeliverStep(u)
        PROVE  FALSE
    BY <1>1, <1>5
       DEF DeliverStep, RecordReceipt, ReceiptNotSaved, DeliverTranscript, AckTranscript,
           AckRequest, AckRow, SendAck, DeliverFails, FinishDelivery, TypeOK
  <1>6. ASSUME NEW u \in Key, HandlerStep(u) \/ LosePost(u) \/ LoseAck(u)
        PROVE  FALSE
    BY <1>6 DEF HandlerStep, FindAcknowledged, Acknowledge, AcknowledgeUnknown,
                LosePost, LoseAck, TypeOK
  <1>7. ASSUME NEW s \in Server, Crash(s)
        PROVE  FALSE
    BY <1>7 DEF Crash
  <1>8. CASE UNCHANGED vars
    BY <1>8 DEF vars
  <1>9. QED
    BY <1>2, <1>3, <1>4, <1>5, <1>6, <1>7, <1>8 DEF Next

(* A step that neither posts the document of t nor records its receipt      *)
(* leaves its fate alone, whatever it saves to the rows.                    *)
LEMMA FateStep ==
    ASSUME IInv, [Next]_vars, NEW t \in Key
    PROVE  \/ Carried(t)' = Carried(t) /\ Fate(t)' = Fate(t)
           \/ PostDocument(t)
           \/ RecordReceipt(t)
  <1> USE DEF IInv
  <1>1. ThreadStep(t)
    BY ThreadsStep
  <1>2. CASE post[t].state = "none" /\ post'[t].state = "none"
    BY <1>2 DEF Carried, Fate
  <1>3. CASE post[t].state = "none" /\ post'[t].state # "none"
    BY <1>3, PostStep
  <1>4. CASE post[t].state # "none" /\ recv'[t].row # recv[t].row
    BY <1>1, <1>4 DEF ThreadStep
  <1>5. CASE post[t].state # "none" /\ recv'[t].row = recv[t].row
    <2>1. /\ post'[t].state # "none" /\ post'[t].to = post[t].to
          /\ post'[t].file = post[t].file
      BY <1>1, <1>5 DEF ThreadStep
    <2>2. ReceivedKey(t)' = ReceivedKey(t)
      BY <1>5, <2>1 DEF ReceivedKey
    <2>3. recv[t].row # 0 => rows'[ReceivedKey(t)].file = rows[ReceivedKey(t)].file
      BY TableStep, ReceivedKeyFacts DEF RowsStep, SameDocument, IsSentTranscriptAck
    <2>4. QED
      BY <1>5, <2>1, <2>2, <2>3 DEF Carried, Fate
  <1>6. QED
    BY <1>2, <1>3, <1>4, <1>5

(* A transfer is told its verdict once, by the acknowledgement.             *)
LEMMA ToldStep ==
    ASSUME IInv, [Next]_vars, NEW t \in Key
    PROVE  \/ Told(t)' = Told(t)
           \/ AckTranscript(t) \/ AckRequest(t) \/ AckRow(t)
  BY AckStep DEF Told

(* The record of a receipt moves its own thread only.                       *)
LEMMA ReceiptStep ==
    ASSUME IInv, NEW t \in Key, RecordReceipt(t)
    PROVE  /\ recv[t].pc = "received" /\ recv'[t].pc = "deliver" /\ recv' # recv
           /\ recv'[t].row = nextId[post[t].to]
           /\ post'[t].to = post[t].to /\ post'[t].file = post[t].file
           /\ post'[t].state = "answered"
           /\ \A u \in Key \ {t} : recv'[u] = recv[u]
           /\ ack' = ack /\ sender' = sender
  <1>1. recv[t] \in Recv /\ post[t] \in Post
    BY DEF IInv, TypeOK
  <1>2. /\ recv[t].pc = "received"
        /\ recv' = [recv EXCEPT ![t].pc = "deliver", ![t].row = nextId[post[t].to]]
        /\ post' = [post EXCEPT ![t].state = "answered"]
        /\ ack' = ack /\ sender' = sender
    BY DEF RecordReceipt
  <1>3. recv'[t] = [recv[t] EXCEPT !.pc = "deliver", !.row = nextId[post[t].to]]
        /\ post'[t] = [post[t] EXCEPT !.state = "answered"]
    BY <1>2 DEF IInv, TypeOK
  <1>4. recv'[t].pc = "deliver" /\ recv'[t].row = nextId[post[t].to]
    BY <1>1, <1>3 DEF Recv
  <1>5. QED
    BY <1>1, <1>2, <1>3, <1>4 DEF IInv, TypeOK, Post

(* The steps of Delivery, in terms of one transfer.                         *)
Untouched(t) ==
    Carried(t)' = Carried(t) /\ Fate(t)' = Fate(t) /\ Told(t)' = Told(t)

LEMMA Stutters ==
    ASSUME \A t \in Key : Untouched(t)
    PROVE  UNCHANGED <<documentBar, fateBar, verdictBar>>
  BY DEF Untouched, documentBar, fateBar, verdictBar

(* The POST of a document is the Send of its transfer.                      *)
LEMMA PostIsSend ==
    ASSUME IInv, IInv', [Next]_vars, NEW t \in Key, PostDocument(t)
    PROVE  D!Send(t)
  <1>1. /\ sender[t].pc = "created" /\ recv' = recv /\ ack' = ack
        /\ post'[t].state = "sent"
        /\ \A u \in Key \ {t} : post'[u] = post[u]
    BY DEF PostDocument, IInv, TypeOK
  <1>2. /\ post[t].state = "none" /\ recv[t].row = 0
        /\ post'[t].to \in Server /\ post'[t].file \in Key
    BY <1>1 DEF IInv, Senders, Posts
  <1>3. /\ Fate(t) = "none" /\ Fate(t)' = "sent" /\ Told(t)' = Told(t)
        /\ Carried(t)' \in Server \X Key
    BY <1>1, <1>2 DEF Fate, Carried, Told
  <1>4. ASSUME NEW u \in Key \ {t}
        PROVE  Untouched(u)
    <2>1. ~PostDocument(u) /\ ~RecordReceipt(u)
      <3>1. ~PostDocument(u)
        BY <1>1, <1>2 DEF PostDocument, IInv, TypeOK
      <3>2. ~RecordReceipt(u)
        BY <1>1, ReceiptStep
      <3>3. QED
        BY <3>1, <3>2
    <2>2. QED
      BY <1>1, <2>1, FateStep DEF Untouched, Told
  <1>5. /\ documentBar' = [documentBar EXCEPT ![t] = Carried(t)']
        /\ fateBar' = [fateBar EXCEPT ![t] = "sent"]
        /\ verdictBar' = verdictBar
    BY <1>3, <1>4 DEF Untouched, documentBar, fateBar, verdictBar
  <1>6. QED
    BY <1>3, <1>5 DEF D!Send, fateBar

(* A document whose receipt is recorded was not stored for a transfer that  *)
(* carries the same one.                                                    *)
LEMMA NotStoredBefore ==
    ASSUME IInv, NEW t \in Key, Unrecorded(t), NEW u \in Key, Fate(u) = "stored"
    PROVE  Carried(u) # Carried(t)
  <1> SUFFICES ASSUME Carried(u) = Carried(t)
               PROVE  FALSE
    OBVIOUS
  <1> USE DEF IInv
  <1>1. /\ post[t].state # "none" /\ recv[t].mem.file = post[t].file
        /\ recv[t].pc = "received"
    BY DEF Unrecorded, Posts, Receivers, Working
  <1>2. /\ post[u].state # "none" /\ recv[u].row # 0
        /\ rows[ReceivedKey(u)].file # NoKey
    BY DEF Fate
  <1>3. post[u].to = post[t].to /\ post[u].file = post[t].file
    BY <1>1, <1>2 DEF Carried
  <1>4. /\ ReceivedKey(u) \in Key /\ ReceivedKey(u)[1] = post[t].to
        /\ rows[ReceivedKey(u)].op = "RECEIVE"
        /\ rows[ReceivedKey(u)].file = post[t].file
    BY <1>2, <1>3, ReceivedKeyFacts
  <1>5. QED
    BY <1>1, <1>4 DEF StoredByOne

(* The record of a receipt is the Store or the Refuse of its transfer.      *)
LEMMA ReceiptIsStoreOrRefuse ==
    ASSUME IInv, [Next]_vars, NEW t \in Key, RecordReceipt(t)
    PROVE  D!Store(t) \/ D!Refuse(t)
  <1> USE DEF IInv
  <1> DEFINE r == post[t].to
  <1>1. /\ recv[t].pc = "received" /\ ack' = ack
        /\ \A u \in Key \ {t} : recv'[u] = recv[u]
    BY ReceiptStep
  <1>2. recv[t].row = 0 /\ post[t].state # "none" /\ r \in Server
    BY <1>1 DEF Receivers, Working, Posts
  <1>3. /\ Fresh(r) \in Key /\ nextId[r] # 0
        /\ rows'[Fresh(r)] = recv[t].mem
    BY <1>2, FreshIsKey DEF RecordReceipt, Create, TypeOK, RowId
  <1>4. /\ recv'[t].row = nextId[r] /\ post'[t].to = r
        /\ post'[t].file = post[t].file /\ post'[t].state = "answered"
    BY ReceiptStep
  <1>5. ReceivedKey(t)' = Fresh(r)
    BY <1>4 DEF ReceivedKey, Fresh
  <1>6. /\ Fate(t) = "sent" /\ Carried(t)' = Carried(t) /\ Told(t)' = Told(t)
        /\ Fate(t)' = IF recv[t].mem.file = NoKey THEN "refused" ELSE "stored"
    BY <1>1, <1>2, <1>3, <1>4, <1>5 DEF Fate, Carried, Told
  <1>7. ASSUME NEW u \in Key \ {t}
        PROVE  Untouched(u)
    <2>1. ~PostDocument(u)
      BY ReceiptStep DEF PostDocument
    <2>2. ~RecordReceipt(u)
      <3>1. RecordReceipt(u) => recv'[u].pc = "deliver" /\ recv[u].pc = "received"
        BY ReceiptStep
      <3>2. QED
        BY <1>1, <3>1
    <2>3. QED
      BY <1>1, <2>1, <2>2, FateStep DEF Untouched, Told
  <1>8. /\ documentBar' = documentBar /\ verdictBar' = verdictBar
        /\ fateBar' = [fateBar EXCEPT ![t] = Fate(t)']
    BY <1>6, <1>7 DEF Untouched, documentBar, fateBar, verdictBar
  <1>9. CASE recv[t].mem.file = NoKey
    BY <1>6, <1>8, <1>9 DEF D!Refuse, fateBar
  <1>10. CASE recv[t].mem.file # NoKey
    <2>1. \A u \in Key : fateBar[u] = "stored" => documentBar[u] # documentBar[t]
      BY <1>1, <1>10, NotStoredBefore DEF Unrecorded, fateBar, documentBar
    <2>2. QED
      BY <1>6, <1>8, <1>10, <2>1 DEF D!Store, fateBar
  <1>11. QED
    BY <1>9, <1>10

(* An acknowledgement is the Accept or the Reject of its transfer.          *)
LEMMA AckIsVerdict ==
    ASSUME IInv, IInv', [Next]_vars, NEW t \in Key,
           AckTranscript(t) \/ AckRequest(t) \/ AckRow(t)
    PROVE  D!Accept(t) \/ D!Reject(t)
  <1> USE DEF IInv
  <1> DEFINE code == ack'[t].code
  <1>1. PICK docId : \E c \in {"Accepted", "Rejected"} : SendAck(t, docId, c)
    <2>1. CASE AckTranscript(t)
      BY <2>1 DEF AckTranscript
    <2>2. CASE AckRequest(t)
      BY <2>2 DEF AckRequest
    <2>3. CASE AckRow(t)
      BY <2>3 DEF AckRow
    <2>4. QED
      BY <2>1, <2>2, <2>3
  <1>2. recv[t].pc \in {"deliver", "transcriptAck"}
    BY DEF AckTranscript, AckRequest, AckRow, ChildDone
  <1>3. /\ rows' = rows /\ post' = post /\ recv[t] \in Recv
        /\ recv' = [recv EXCEPT ![t].pc = "acking", ![t].mem.ackFile = TRUE]
        /\ code \in {"Accepted", "Rejected"} /\ ack'[t].state = "sent"
        /\ \A u \in Key \ {t} : ack'[u] = ack[u]
    BY <1>1 DEF SendAck, TypeOK
  <1>4. recv[t].row # 0 /\ ack[t].state = "none" /\ post[t].state # "none"
    BY <1>2 DEF Receivers, Working, AckAfterReceipt, Posts
  <1>5. ASSUME NEW u \in Key
        PROVE  recv'[u].row = recv[u].row
    BY <1>3 DEF TypeOK, Recv
  <1>6. ASSUME NEW u \in Key
        PROVE  Carried(u)' = Carried(u) /\ Fate(u)' = Fate(u)
    BY <1>3, <1>5 DEF Carried, Fate, ReceivedKey
  <1>7. /\ Told(t) = "none" /\ Told(t)' = code
        /\ \A u \in Key \ {t} : Told(u)' = Told(u)
    BY <1>3, <1>4 DEF Told
  <1>8. /\ documentBar' = documentBar /\ fateBar' = fateBar
        /\ verdictBar' = [verdictBar EXCEPT ![t] = code]
    BY <1>6, <1>7 DEF documentBar, fateBar, verdictBar
  <1>9. Fate(t) \in {"stored", "refused"}
    BY <1>4 DEF Fate
  <1>10. CASE code = "Accepted"
    <2>1. rows[ReceivedKey(t)].file = post[t].file /\ post[t].file \in Key
      <3>1. ack'[t].state = "sent" /\ ack'[t].code = "Accepted"
        BY <1>1, <1>10 DEF SendAck, TypeOK
      <3>2. ReceivedKey(t)' = ReceivedKey(t)
        BY <1>3, <1>5 DEF ReceivedKey
      <3>3. rows'[ReceivedKey(t)'].file = post'[t].file
        BY <3>1 DEF AcceptedMeansStored
      <3>4. QED
        BY <1>3, <1>4, <3>2, <3>3 DEF Posts
    <2>2. Fate(t) = "stored"
      BY <1>4, <2>1, NoKeyNotKey DEF Fate
    <2>3. QED
      BY <1>7, <1>8, <1>10, <2>2 DEF D!Accept, fateBar, verdictBar
  <1>11. CASE code = "Rejected"
    BY <1>7, <1>8, <1>9, <1>11 DEF D!Reject, fateBar, verdictBar
  <1>12. QED
    BY <1>3, <1>10, <1>11

(* The exchange of documents, with its threads, stale saves, lost messages  *)
(* and crashes, is an exchange that stores no document twice, gives no      *)
(* transfer two verdicts and accepts none that it has not stored.           *)
THEOREM ExchangeDelivers == Spec => Delivers
  <1>1. Init => D!Init
    BY DEF Init, D!Init, documentBar, fateBar, verdictBar, Carried, Fate, Told,
           NoPost, NoAck
  <1>2. IInv /\ IInv' /\ [Next]_vars => [D!Next]_D!vars
    <2> SUFFICES ASSUME IInv, IInv', [Next]_vars
                 PROVE  D!Next \/ UNCHANGED <<documentBar, fateBar, verdictBar>>
      BY DEF D!vars
    <2>1. CASE \E t \in Key : PostDocument(t)
      BY <2>1, PostIsSend DEF D!Next
    <2>2. CASE \E t \in Key : RecordReceipt(t)
      BY <2>2, ReceiptIsStoreOrRefuse DEF D!Next
    <2>3. CASE \E t \in Key : AckTranscript(t) \/ AckRequest(t) \/ AckRow(t)
      BY <2>3, AckIsVerdict DEF D!Next
    <2>4. CASE ~ \E t \in Key : \/ PostDocument(t) \/ RecordReceipt(t)
                                \/ AckTranscript(t) \/ AckRequest(t) \/ AckRow(t)
      BY <2>4, FateStep, ToldStep, Stutters DEF Untouched
    <2>5. QED
      BY <2>1, <2>2, <2>3, <2>4
  <1>3. QED
    BY <1>1, <1>2, Invariance, PTL DEF Spec, Delivers, D!Spec

-----------------------------------------------------------------------------
(* Verdicts, where users send no transcripts                                *)

(* No step creates a row of a transcript, or one that reads delivered.      *)
LEMMA NewRowKind ==
    ASSUME VerdictInv, "transcript" \notin Kinds, [Next]_vars, NEW k \in Key,
           rows[k].op = "NONE", rows'[k].op # "NONE"
    PROVE  /\ rows'[k].kind \notin OfTranscripts
           /\ rows'[k].op = "SEND" => rows'[k].status = "null"
  <1> USE DEF VerdictInv, IInv
  <1> DEFINE Good == /\ rows'[k].kind \notin OfTranscripts
                     /\ rows'[k].op = "SEND" => rows'[k].status = "null"
  <1>1. k = Fresh(k[1]) /\ nextId'[k[1]] > nextId[k[1]] /\ k[1] \in Server
    <2>1. NewRow(k) /\ nextId[k[1]] \in Nat /\ nextId'[k[1]] \in Nat /\ k[1] \in Server
      BY TableStep, TypeStep, ExchangeAssumption DEF RowsStep, TypeOK, Key
    <2>2. k[2] = nextId[k[1]]
      BY <2>1 DEF NewRow, Fresh
    <2>3. QED
      BY <2>1, <2>2 DEF NewRow
  <1>2. ASSUME NEW s \in Server, NEW row, row.kind \notin OfTranscripts,
               row.op = "SEND" => row.status = "null", Create(s, row)
        PROVE  Good
    <2>1. s = k[1]
      BY <1>1, <1>2 DEF Create, TypeOK
    <2>2. rows'[k] = row
      BY <1>1, <1>2, <2>1 DEF Create, TypeOK
    <2>3. QED
      BY <1>2, <2>2
  <1>3. ASSUME nextId' = nextId
        PROVE  FALSE
    BY <1>1, <1>3 DEF TypeOK
  <1>4. ASSUME NEW s \in Server, User(s)
        PROVE  Good
    <2>1. ASSUME NEW r \in Server, NEW kind \in Kinds \ {"request"},
                 NEW request \in BOOLEAN,
                 NEW docId, SendFile(s, r, kind, request, docId)
          PROVE  Good
      <3>1. kind \notin OfTranscripts
        BY ExchangeAssumption DEF OfTranscripts, UserKind
      <3>2. QED
        BY <1>2, <2>1, <3>1 DEF SendFile, SendRow, NoRow
    <2>2. ASSUME NEW r \in Server, RequestTranscript(s, r)
          PROVE  Good
      BY <1>2, <2>2 DEF RequestTranscript, SendRow, NoRow, OfTranscripts
    <2>3. ASSUME NEW o \in Key, Resend(s, o)
          PROVE  Good
      <3>1. rows[o].kind \notin OfTranscripts
        BY <2>3 DEF Resend, NoTranscripts
      <3>2. QED
        BY <1>2, <2>3, <3>1 DEF Resend, SendRow, NoRow
    <2>4. QED
      BY <1>4, <2>1, <2>2, <2>3 DEF User
  <1>5. ASSUME NEW t \in Key, SenderStep(t)
        PROVE  Good
    BY <1>3, <1>5, SenderRows
  <1>6. ASSUME NEW t \in Key, DeliverStep(t)
        PROVE  Good
    <2>1. CASE RecordReceipt(t)
      <3>1. /\ recv[t].mem.kind \notin OfTranscripts /\ post[t].to \in Server
            /\ recv[t].mem.op = "RECEIVE"
        BY <2>1 DEF RecordReceipt, NoTranscripts, Receivers, Working, Posts
      <3>2. QED
        BY <1>2, <2>1, <3>1 DEF RecordReceipt
    <2>2. CASE DeliverTranscript(t)
      BY <2>2 DEF DeliverTranscript, IsTranscript, NoTranscripts, Working, OfTranscripts
    <2>3. CASE ~RecordReceipt(t) /\ ~DeliverTranscript(t)
      BY <1>3, <1>6, <2>3 DEF DeliverStep, ReceiptNotSaved, AckTranscript, AckRequest,
                              AckRow, SendAck, DeliverFails, FinishDelivery
    <2>4. QED
      BY <2>1, <2>2, <2>3
  <1>7. ASSUME NEW t \in Key, HandlerStep(t)
        PROVE  Good
    <2>1. CASE AcknowledgeUnknown(t)
      BY <1>2, <2>1 DEF AcknowledgeUnknown, NoRow, OfTranscripts, Key
    <2>2. CASE ~AcknowledgeUnknown(t)
      BY <1>3, <1>7, <2>2 DEF HandlerStep, FindAcknowledged, Acknowledge
    <2>3. QED
      BY <2>1, <2>2
  <1>8. ASSUME NEW t \in Key, ReceiveStep(t) \/ LosePost(t) \/ LoseAck(t)
        PROVE  Good
    BY <1>3, <1>8 DEF ReceiveStep, ReceiveUnverified, ReceiveDuplicate, ReceiveStored,
                      ReceiveDamaged, Receive, LosePost, LoseAck
  <1>9. ASSUME NEW s \in Server, Crash(s)
        PROVE  Good
    BY <1>3, <1>9 DEF Crash
  <1>10. CASE UNCHANGED vars
    BY <1>3, <1>10 DEF vars
  <1>11. QED
    BY <1>4, <1>5, <1>6, <1>7, <1>8, <1>9, <1>10 DEF Next

LEMMA ReceivedKind ==
    ASSUME IInv, NEW t \in Key, ReceiveStep(t)
    PROVE  /\ recv'[t].mem.kind = post[t].kind /\ post'[t].kind = post[t].kind
           /\ post[t].state = "sent"
  <1> USE DEF IInv
  <1>1. Receipt(t) \in Row /\ Receipt(t).kind = post[t].kind
    BY ReceiptType DEF Receipt, NoRow
  <1>2. PICK mem \in Row : Receive(t, mem) /\ mem.kind = post[t].kind
    <2> DEFINE R == Receipt(t)
    <2>1. CASE ReceiveUnverified(t)
      <3>1. [R EXCEPT !.error = TRUE] \in Row /\ [R EXCEPT !.error = TRUE].kind = R.kind
        BY <1>1 DEF Row
      <3>2. QED
        BY <1>1, <2>1, <3>1 DEF ReceiveUnverified
    <2>2. CASE ReceiveDuplicate(t)
      <3>1. [R EXCEPT !.error = TRUE] \in Row /\ [R EXCEPT !.error = TRUE].kind = R.kind
        BY <1>1 DEF Row
      <3>2. QED
        BY <1>1, <2>2, <3>1 DEF ReceiveDuplicate
    <2>3. CASE ReceiveStored(t)
      <3> DEFINE m == [R EXCEPT !.file = post[t].file, !.request = post[t].request,
                                !.status = "SUCCESS"]
      <3>1. m \in Row /\ m.kind = R.kind
        BY <1>1 DEF Row, TypeOK, Post
      <3>2. QED
        BY <1>1, <2>3, <3>1 DEF ReceiveStored
    <2>4. ASSUME NEW request \in BOOLEAN, NEW status \in {"SUCCESS", "FAILURE"},
                 ReceiveDamaged(t, request, status)
          PROVE  \E mem \in Row : Receive(t, mem) /\ mem.kind = post[t].kind
      <3> DEFINE m == [R EXCEPT !.file = post[t].file, !.request = request,
                                !.status = status, !.error = TRUE]
      <3>1. m \in Row /\ m.kind = R.kind
        BY <1>1 DEF Row, TypeOK, Post
      <3>2. QED
        BY <1>1, <2>4, <3>1 DEF ReceiveDamaged
    <2>5. QED
      BY <2>1, <2>2, <2>3, <2>4 DEF ReceiveStep
  <1>3. /\ recv'[t] = [recv[t] EXCEPT !.pc = "received", !.mem = mem]
        /\ post'[t] = [post[t] EXCEPT !.state = "taken"]
        /\ recv[t] \in Recv /\ post[t] \in Post
    BY <1>2 DEF Receive, TypeOK
  <1>4. recv'[t].mem = mem
    BY <1>3 DEF Recv
  <1>5. post'[t].kind = post[t].kind
    BY <1>3 DEF Post
  <1>6. QED
    BY <1>2, <1>4, <1>5 DEF Receive

(* The kind of a document that is posted is that of its row.                *)
LEMMA PostedCopy ==
    ASSUME VerdictInv, NEW t \in Key, PostDocument(t)
    PROVE  /\ rows[t].op = "SEND" /\ post[t].state = "none"
           /\ post'[t].to = rows[t].peer /\ post'[t].file = rows[t].file
           /\ post'[t].kind = rows[t].kind
  <1> USE DEF VerdictInv, IInv
  <1> DEFINE m == IF IsResend(t) THEN rows[t] ELSE sender[t].mem
  <1>1. /\ post'[t].to = m.peer /\ post'[t].file = m.file /\ post'[t].kind = m.kind
        /\ sender[t].pc = "created"
    BY DEF PostDocument, TypeOK
  <1>2. rows[t].op = "SEND" /\ post[t].state = "none"
    BY <1>1 DEF Senders, Active
  <1>3. SameDocument(m, rows[t])
    BY <1>1, SameDocumentReflexive DEF Senders, Active, IsResend
  <1>4. ~IsSentTranscriptAck(rows[t])
    BY <1>2 DEF IsSentTranscriptAck, NoTranscripts, OfTranscripts
  <1>5. QED
    BY <1>1, <1>2, <1>3, <1>4 DEF SameDocument

LEMMA RowsKept ==
    ASSUME VerdictInv, [Next]_vars, NEW k \in Key, rows[k].op # "NONE"
    PROVE  /\ SameDocument(rows'[k], rows[k]) /\ rows'[k].op = rows[k].op
           /\ rows'[k].file = rows[k].file /\ rows'[k].kind = rows[k].kind
           /\ rows'[k].peer = rows[k].peer
  <1>1. SameDocument(rows'[k], rows[k])
    BY TableStep DEF VerdictInv, RowsStep
  <1>2. ~IsSentTranscriptAck(rows[k])
    BY DEF IsSentTranscriptAck, VerdictInv, NoTranscripts, OfTranscripts
  <1>3. QED
    BY <1>1, <1>2 DEF SameDocument

LEMMA NoTranscriptsPreserved ==
    ASSUME VerdictInv, "transcript" \notin Kinds, [Next]_vars
    PROVE  NoTranscripts' /\ PostedIsTheRow'
  <1> USE DEF VerdictInv
  <1>1. ASSUME NEW t \in Key
        PROVE  rows'[t].op # "NONE" => rows'[t].kind \notin OfTranscripts
    BY NewRowKind, RowsKept DEF NoTranscripts
  <1>2. ASSUME NEW t \in Key, post'[t].state # "none"
        PROVE  /\ post'[t].kind \notin OfTranscripts
               /\ post'[t].to = rows'[t].peer /\ post'[t].file = rows'[t].file
    <2>1. CASE post[t].state = "none"
      BY <1>2, <2>1, PostStep, PostedCopy, RowsKept DEF NoTranscripts
    <2>2. CASE post[t].state # "none"
      <3>1. rows[t].op = "SEND"
        BY <2>2 DEF IInv, Posts
      <3>2. QED
        BY <2>2, <3>1, ThreadsStep, RowsKept DEF ThreadStep, NoTranscripts, PostedIsTheRow
    <2>3. QED
      BY <2>1, <2>2
  <1>3. ASSUME NEW t \in Key
        PROVE  recv'[t].pc # "transcriptAck"
    <2>1. ~DeliverTranscript(t)
      BY DEF DeliverTranscript, IsTranscript, NoTranscripts, Working, OfTranscripts
    <2>2. QED
      BY <2>1, ThreadsStep DEF ThreadStep, NoTranscripts
  <1>4. ASSUME NEW t \in Key, recv'[t].pc \in Working
        PROVE  recv'[t].mem.kind \notin OfTranscripts
    <2>1. CASE ReceiveStep(t)
      BY <2>1, ReceivedKind DEF NoTranscripts
    <2>2. CASE ~ReceiveStep(t)
      <3>1. /\ recv[t].pc \in Working /\ recv[t].mem \in Row
            /\ recv'[t].mem \in {recv[t].mem, [recv[t].mem EXCEPT !.ackFile = TRUE]}
        BY <1>4, <2>2, ThreadsStep DEF ThreadStep, IInv, TypeOK, Recv
      <3>2. recv'[t].mem.kind = recv[t].mem.kind
        BY <3>1 DEF Row
      <3>3. QED
        BY <3>1, <3>2 DEF NoTranscripts
    <2>3. QED
      BY <2>1, <2>2
  <1>5. QED
    BY <1>1, <1>2, <1>3, <1>4 DEF NoTranscripts, PostedIsTheRow

LEMMA AcksPreserved ==
    ASSUME VerdictInv, [Next]_vars
    PROVE  AcksNameTheirRow'
  <1> USE DEF VerdictInv, IInv
  <1>1. ASSUME NEW t \in Key, ack'[t].state # "none"
        PROVE  ack'[t].docId = t[2]
    <2>1. CASE ack[t].state # "none" /\ ack'[t].docId = ack[t].docId
      BY <2>1 DEF AcksNameTheirRow
    <2>2. CASE /\ AckTranscript(t) \/ AckRequest(t) \/ AckRow(t)
               /\ recv[t].pc \in {"deliver", "transcriptAck"}
      <3>1. ~AckTranscript(t)
        BY DEF AckTranscript, ChildDone, NoTranscripts
      <3>2. recv[t].mem.senderTx = t[2]
        BY <2>2 DEF Receivers, Working
      <3>3. PICK code : SendAck(t, recv[t].mem.senderTx, code)
        <4>1. CASE AckRequest(t)
          BY <4>1 DEF AckRequest
        <4>2. CASE AckRow(t)
          BY <4>2 DEF AckRow
        <4>3. QED
          BY <2>2, <3>1, <4>1, <4>2
      <3>4. QED
        BY <3>2, <3>3 DEF SendAck, TypeOK
    <2>3. QED
      BY <1>1, <2>1, <2>2, AckStep
  <1>2. ASSUME NEW t \in Key, handler'[t].pc = "found"
        PROVE  handler'[t].row = t[2]
    <2>1. CASE FindAcknowledged(t)
      <3>1. handler'[t].row = AckedKey(t)[2] /\ ack[t].state = "sent"
        BY <2>1 DEF FindAcknowledged, TypeOK
      <3>2. QED
        BY <3>1 DEF AckedKey, AcksNameTheirRow
    <2>2. CASE handler'[t] = handler[t]
      BY <1>2, <2>2 DEF AcksNameTheirRow
    <2>3. QED
      BY <1>2, <2>1, <2>2, HandlerFound
  <1>3. QED
    BY <1>1, <1>2 DEF AcksNameTheirRow

(* What a step does to a sending thread.                                    *)
SenderMove(u) ==
    \/ sender'[u] = sender[u]
    \/ NewSender(u)
    \/ /\ sender[u].pc \in Active /\ sender'[u].saveTo = sender[u].saveTo
       /\ sender'[u].pc \in {"posted", "ok", "failing", "failed", "crashed"}
       /\ sender[u].pc = "failing" => sender'[u].pc \in {"failed", "crashed"}
       /\ sender'[u].pc \in Active => sender'[u].mem.status = sender[u].mem.status

LEMMA SenderMoves ==
    ASSUME IInv, [Next]_vars, NEW u \in Key
    PROVE  SenderMove(u)
  <1> USE DEF IInv
  <1>1. sender[u] \in Sender /\ sender[u].mem \in Row
    BY DEF TypeOK, Sender
  <1>2. CASE UNCHANGED vars
    BY <1>2 DEF vars, SenderMove
  <1>3. ASSUME NEW s \in Server, User(s)
        PROVE  SenderMove(u)
    BY <1>3, UserRows DEF NewSender, SenderMove
  <1>4. ASSUME NEW t \in Key, SenderStep(t), t # u
        PROVE  SenderMove(u)
    <2>1. sender'[u] = sender[u]
      BY <1>4 DEF SenderStep, RequestNotWritten, ResendNoEndpoint, Abandon, PostDocument,
                  SendOk, SendFails, SendFailsAgain, SenderDone, TypeOK
    <2>2. QED
      BY <2>1 DEF SenderMove
  <1>5. ASSUME SenderStep(u)
        PROVE  SenderMove(u)
    <2>1. ASSUME NEW pc \in {"ok", "failed"}, SenderDone(u, pc), sender[u].pc \in Active,
                 sender[u].pc = "failing" => pc = "failed"
          PROVE  SenderMove(u)
      <3>1. sender'[u] = [sender[u] EXCEPT !.pc = pc, !.mem = NoRow]
        BY <2>1 DEF SenderDone, TypeOK
      <3>2. sender'[u].pc = pc /\ sender'[u].saveTo = sender[u].saveTo
        BY <1>1, <3>1 DEF Sender
      <3>3. QED
        BY <2>1, <3>2 DEF SenderMove, Active
    <2>2. CASE \/ RequestNotWritten(u) \/ ResendNoEndpoint(u) \/ Abandon(u)
               \/ SendFailsAgain(u) \/ SendOk(u)
      BY <2>1, <2>2 DEF RequestNotWritten, ResendNoEndpoint, Abandon, SendFailsAgain,
                        SendOk, Active
    <2>3. CASE PostDocument(u)
      <3>1. sender'[u] = [sender[u] EXCEPT !.pc = "posted"] /\ sender[u].pc = "created"
        BY <2>3 DEF PostDocument, TypeOK
      <3>2. QED
        BY <1>1, <3>1 DEF Sender, SenderMove, Active
    <2>4. CASE SendFails(u)
      <3> DEFINE m == [sender[u].mem EXCEPT !.error = TRUE]
      <3>1. sender[u].pc \in {"created", "posted"}
        BY <2>4 DEF SendFails
      <3>2. CASE SenderDone(u, "failed")
        BY <2>1, <3>1, <3>2 DEF Active
      <3>3. CASE sender' = [sender EXCEPT ![u].pc = "failing", ![u].mem = m]
        <4>1. sender'[u] = [sender[u] EXCEPT !.pc = "failing", !.mem = m]
          BY <3>3 DEF TypeOK
        <4>2. m.status = sender[u].mem.status
          BY <1>1 DEF Row
        <4>3. QED
          BY <1>1, <3>1, <4>1, <4>2 DEF Sender, SenderMove, Active
      <3>4. QED
        BY <2>4, <3>2, <3>3 DEF SendFails
    <2>5. QED
      BY <1>5, <2>2, <2>3, <2>4 DEF SenderStep
  <1>6. ASSUME NEW t \in Key, ReceiveStep(t) \/ HandlerStep(t) \/ LosePost(t) \/ LoseAck(t)
        PROVE  SenderMove(u)
    <2>1. sender' = sender
      BY <1>6 DEF ReceiveStep, ReceiveUnverified, ReceiveDuplicate, ReceiveStored,
                  ReceiveDamaged, Receive, HandlerStep, FindAcknowledged, Acknowledge,
                  AcknowledgeUnknown, LosePost, LoseAck
    <2>2. QED
      BY <2>1 DEF SenderMove
  <1>7. ASSUME NEW t \in Key, DeliverStep(t)
        PROVE  SenderMove(u)
    <2>1. CASE DeliverTranscript(t)
      BY <2>1, TranscriptAckSender DEF NewSender, SenderMove
    <2>2. CASE ~DeliverTranscript(t)
      <3>1. sender' = sender
        BY <1>7, <2>2 DEF DeliverStep, RecordReceipt, ReceiptNotSaved, AckTranscript,
                          AckRequest, AckRow,
                          SendAck, DeliverFails, FinishDelivery
      <3>2. QED
        BY <3>1 DEF SenderMove
    <2>3. QED
      BY <2>1, <2>2
  <1>8. ASSUME NEW s \in Server, Crash(s)
        PROVE  SenderMove(u)
    <2>1. CASE sender'[u] = sender[u]
      BY <2>1 DEF SenderMove
    <2>2. CASE /\ sender[u].pc \in Active
               /\ sender'[u] = [sender[u] EXCEPT !.pc = "crashed", !.mem = NoRow]
      BY <1>1, <2>2 DEF Sender, SenderMove, Active
    <2>3. QED
      BY <1>8, <2>1, <2>2 DEF Crash
  <1>9. QED
    BY <1>2, <1>3, <1>4, <1>5, <1>6, <1>7, <1>8 DEF Next

LEMMA FreshSendersPreserved ==
    ASSUME VerdictInv, [Next]_vars
    PROVE  FreshSenders'
  <1> USE DEF VerdictInv
  <1> SUFFICES ASSUME NEW k \in Key, rows'[k].op = "NONE"
               PROVE  sender'[k].pc = "idle"
    BY DEF FreshSenders
  <1>1. rows[k].op = "NONE" /\ sender[k].pc = "idle"
    BY RowsKept DEF FreshSenders
  <1>2. QED
    BY <1>1, SenderMoves DEF SenderMove, NewSender, Active

(* What a step writes to a row that was sent: nothing; a copy before its    *)
(* document was posted; a copy or a failure, by a sender that has failed;   *)
(* the verdict of its acknowledgement.                                      *)
Unposted(t) ==
    /\ post[t].state = "none"
    /\ \/ rows'[t].status \in {"null", "FAILURE"}
       \/ /\ sender[t].pc \in Active /\ sender[t].saveTo = t
          /\ rows'[t].status = sender[t].mem.status

FailedBy(u, t) ==
    /\ sender[u].pc \in Active /\ sender[u].saveTo = t
    /\ rows'[t].status = sender[u].mem.status
    /\ sender'[u].pc \in {"failing", "failed"} /\ sender'[u].saveTo = t

Judged(t) ==
    /\ ack[t].state # "none" /\ ack'[t].code = ack[t].code
    /\ ack'[t].state = "answered"
    /\ rows'[t].acknowledged /\ rows'[t].ackFile
    /\ rows'[t].status = Verdict(ack[t].code)

SentRowStep(t) ==
    \/ rows'[t] = rows[t]
    \/ Unposted(t)
    \/ \E u \in Key : FailedBy(u, t)
    \/ Judged(t)

LEMMA SentRowOfSender ==
    ASSUME VerdictInv, NEW t \in Key, rows[t].op = "SEND", NEW u \in Key, SenderStep(u)
    PROVE  SentRowStep(t)
  <1> USE DEF VerdictInv, IInv
  <1>1. /\ sender[u] \in Sender /\ sender[u].mem \in Row /\ rows \in [Key -> Row]
        /\ sender[u].pc \in Active
    BY DEF SenderStep, RequestNotWritten, ResendNoEndpoint, Abandon, PostDocument,
           SendOk, SendFails, SendFailsAgain, TypeOK, Sender, Active
  <1>2. /\ rows[u].op = "SEND" /\ sender[u].saveTo \in Key
        /\ rows[u].kind # "transcriptAck"
        /\ sender[u].mem.kind # "transcriptAck"
    BY <1>1 DEF Senders, NoTranscripts, OfTranscripts, SameDocument
  <1>3. SenderDone(u, "failed") => sender'[u].pc = "failed" /\ sender'[u].saveTo = sender[u].saveTo
    BY <1>1 DEF SenderDone, TypeOK, Sender
  <1>4. CASE RequestNotWritten(u)
    <2>1. /\ sender[u].pc = "created"
          /\ sender[u].saveTo = u
      BY <1>4 DEF RequestNotWritten, IsResend
    <2>2. PICK status \in {sender[u].mem.status, "FAILURE"} :
              rows' = [rows EXCEPT ![u] = [sender[u].mem EXCEPT !.error = TRUE,
                                                                !.status = status]]
      BY <1>4 DEF RequestNotWritten, Save
    <2>3. post[u].state = "none"
          /\ [sender[u].mem EXCEPT !.error = TRUE, !.status = status].status = status
      BY <1>1, <2>1 DEF Senders, Row
    <2>4. QED
      BY <1>1, <2>1, <2>2, <2>3 DEF SentRowStep, Unposted
  <1>5. CASE ResendNoEndpoint(u)
    <2> DEFINE tran == SendRow(rows[u].kind, rows[u].peer, rows[u].file, rows[u].docId)
    <2>1. sender[u].pc = "created" /\ rows' = [rows EXCEPT ![u] = [tran EXCEPT !.error = TRUE]]
      BY <1>5 DEF ResendNoEndpoint, Save
    <2>2. [tran EXCEPT !.error = TRUE].status = "null"
      BY DEF SendRow, NoRow
    <2>3. post[u].state = "none"
      BY <2>1 DEF Senders
    <2>4. QED
      BY <1>1, <2>1, <2>2, <2>3 DEF SentRowStep, Unposted
  <1>6. CASE Abandon(u)
    BY <1>6 DEF Abandon, SentRowStep
  <1>7. CASE PostDocument(u)
    <2>1. \/ rows' = rows
          \/ ~IsResend(u) /\ rows' = [rows EXCEPT ![u] = sender[u].mem]
      BY <1>7 DEF PostDocument
    <2>2. post[u].state = "none"
      BY <1>7 DEF PostDocument, Senders
    <2>3. QED
      BY <1>1, <2>1, <2>2 DEF SentRowStep, Unposted, IsResend
  <1>8. CASE SendOk(u)
    BY <1>2, <1>8 DEF SendOk, SentRowStep
  <1>9. CASE SendFails(u)
    <2> DEFINE m == [sender[u].mem EXCEPT !.error = TRUE]
               k == sender[u].saveTo
    <2>1. m.kind = sender[u].mem.kind /\ m.status = sender[u].mem.status
      BY <1>1 DEF Row
    <2>2. rows' = [rows EXCEPT ![k] = m]
      BY <1>2, <1>9, <2>1 DEF SendFails, Save
    <2>3. sender'[u].pc \in {"failing", "failed"} /\ sender'[u].saveTo = k
      <3>1. CASE sender' = [sender EXCEPT ![u].pc = "failing", ![u].mem = m]
        <4>1. sender'[u] = [sender[u] EXCEPT !.pc = "failing", !.mem = m]
          BY <3>1 DEF TypeOK
        <4>2. QED
          BY <1>1, <4>1 DEF Sender
      <3>2. QED
        BY <1>3, <1>9, <3>1 DEF SendFails
    <2>4. QED
      BY <1>1, <1>2, <2>1, <2>2, <2>3 DEF SentRowStep, FailedBy
  <1>10. CASE SendFailsAgain(u)
    <2>1. sender[u].saveTo = u /\ rows' = [rows EXCEPT ![u] = sender[u].mem]
      BY <1>10 DEF SendFailsAgain, Save, Senders
    <2>2. QED
      BY <1>1, <1>3, <1>10, <2>1 DEF SendFailsAgain, SentRowStep, FailedBy
  <1>11. QED
    BY <1>4, <1>5, <1>6, <1>7, <1>8, <1>9, <1>10 DEF SenderStep

(* The handler of an acknowledgement judges the row of its sender.          *)
LEMMA HandlerJudges ==
    ASSUME VerdictInv, NEW u \in Key, Acknowledge(u)
    PROVE  Judged(u) /\ \A t \in Key \ {u} : rows'[t] = rows[t]
  <1> USE DEF VerdictInv, IInv
  <1> DEFINE m == handler[u].mem
             n == [m EXCEPT !.acknowledged = TRUE, !.ackFile = TRUE,
                            !.status = Verdict(ack[u].code),
                            !.error = @ \/ ack[u].code = "Rejected"]
  <1>1. /\ handler[u].row = u[2] /\ u = <<u[1], u[2]>> /\ m \in Row
        /\ ack[u].state = "taken" /\ ack[u] \in Ack
    BY DEF Acknowledge, AcksNameTheirRow, Handlers, Key, TypeOK, Handler
  <1>2. /\ rows' = [rows EXCEPT ![u] = n]
        /\ ack'[u] = [ack[u] EXCEPT !.state = "answered"]
    BY <1>1 DEF Acknowledge, Save, TypeOK
  <1>3. n.acknowledged /\ n.ackFile /\ n.status = Verdict(ack[u].code)
    BY <1>1 DEF Row
  <1>4. rows'[u] = n /\ \A t \in Key \ {u} : rows'[t] = rows[t]
    BY <1>2 DEF TypeOK
  <1>5. ack'[u].state = "answered" /\ ack'[u].code = ack[u].code
    BY <1>1, <1>2 DEF Ack
  <1>6. QED
    BY <1>1, <1>3, <1>4, <1>5 DEF Judged

(* Only the handler answers an acknowledgement.                             *)
LEMMA AnsweredBy ==
    ASSUME VerdictInv, [Next]_vars, NEW t \in Key,
           ack[t].state # "answered", ack'[t].state = "answered"
    PROVE  Acknowledge(t)
  <1> USE DEF VerdictInv, IInv
  <1>1. ASSUME ack'[t] = ack[t]
        PROVE  FALSE
    BY <1>1
  <1>2. ASSUME NEW s \in Server, User(s)
        PROVE  FALSE
    BY <1>1, <1>2, UserRows
  <1>3. ASSUME NEW u \in Key, SenderStep(u) \/ ReceiveStep(u) \/ LosePost(u)
        PROVE  FALSE
    BY <1>1, <1>3
       DEF SenderStep, RequestNotWritten, ResendNoEndpoint, Abandon, PostDocument,
           SendOk, SendFails, SendFailsAgain, ReceiveStep, ReceiveUnverified,
           ReceiveDuplicate, ReceiveStored, ReceiveDamaged, Receive, LosePost
  <1>4. ASSUME NEW u \in Key, DeliverStep(u)
        PROVE  FALSE
    BY <1>1, <1>4
       DEF DeliverStep, RecordReceipt, ReceiptNotSaved, DeliverTranscript, AckTranscript,
           AckRequest,
           AckRow, SendAck, DeliverFails, FinishDelivery, TypeOK
  <1>5. ASSUME NEW u \in Key, HandlerStep(u) \/ LoseAck(u)
        PROVE  Acknowledge(t)
    <2>1. ack[t] \in Ack
      BY DEF TypeOK
    <2>2. CASE FindAcknowledged(u) \/ LoseAck(u)
      BY <1>1, <2>1, <2>2 DEF FindAcknowledged, LoseAck, TypeOK, Ack
    <2>3. CASE Acknowledge(u)
      BY <1>1, <2>3 DEF Acknowledge, TypeOK
    <2>4. CASE AcknowledgeUnknown(u)
      <3>1. ack[u].docId = u[2] /\ rows[u].op = "SEND" /\ u = <<u[1], u[2]>>
        BY <2>4 DEF AcknowledgeUnknown, AcksNameTheirRow, AckAfterReceipt, Posts, Key
      <3>2. QED
        BY <2>4, <3>1 DEF AcknowledgeUnknown, AckedKey, Exists
    <2>5. QED
      BY <1>5, <2>2, <2>3, <2>4 DEF HandlerStep
  <1>6. ASSUME NEW s \in Server, Crash(s)
        PROVE  FALSE
    BY <1>1, <1>6 DEF Crash, TypeOK, Ack
  <1>7. CASE UNCHANGED vars
    BY <1>1, <1>7 DEF vars
  <1>8. QED
    BY <1>2, <1>3, <1>4, <1>5, <1>6, <1>7 DEF Next

LEMMA SentRowSteps ==
    ASSUME VerdictInv, "transcript" \notin Kinds, [Next]_vars,
           NEW t \in Key, rows[t].op = "SEND"
    PROVE  SentRowStep(t)
  <1> USE DEF VerdictInv, IInv
  <1>1. ASSUME rows'[t] = rows[t]
        PROVE  SentRowStep(t)
    BY <1>1 DEF SentRowStep
  <1>2. ASSUME NEW s \in Server, NEW row, Create(s, row)
        PROVE  SentRowStep(t)
    <2>1. Fresh(s) # t
      BY <1>2, FreshIsKey DEF Create, FreshRows, RowId
    <2>2. rows'[t] = rows[t]
      BY <1>2, <2>1 DEF Create, TypeOK
    <2>3. QED
      BY <1>1, <2>2
  <1>3. ASSUME NEW s \in Server, User(s)
        PROVE  SentRowStep(t)
    BY <1>2, <1>3 DEF User, SendFile, RequestTranscript, Resend
  <1>4. ASSUME NEW u \in Key, DeliverStep(u)
        PROVE  SentRowStep(t)
    <2>1. CASE RecordReceipt(u)
      <3>1. post[u].to \in Server
        BY <2>1 DEF RecordReceipt, Posts
      <3>2. QED
        BY <1>2, <2>1, <3>1 DEF RecordReceipt
    <2>2. CASE DeliverTranscript(u)
      BY <2>2 DEF DeliverTranscript, IsTranscript, NoTranscripts, Working, OfTranscripts
    <2>3. CASE DeliverFails(u) \/ FinishDelivery(u)
      <3>1. recv[u].row # 0
        BY <2>3 DEF DeliverFails, FinishDelivery, ChildDone, Receivers, Working
      <3>2. rows[ReceivedKey(u)].op = "RECEIVE"
        BY <3>1, ReceivedKeyFacts
      <3>3. rows'[t] = rows[t]
        BY <2>3, <3>2 DEF DeliverFails, FinishDelivery, Save, TypeOK
      <3>4. QED
        BY <1>1, <3>3
    <2>4. CASE AckTranscript(u) \/ AckRequest(u) \/ AckRow(u)
      BY <1>1, <2>4 DEF AckTranscript, AckRequest, AckRow, SendAck
    <2>5. CASE ReceiptNotSaved(u)
      BY <1>1, <2>5 DEF ReceiptNotSaved
    <2>6. QED
      BY <1>4, <2>1, <2>2, <2>3, <2>4, <2>5 DEF DeliverStep
  <1>5. ASSUME NEW u \in Key, HandlerStep(u)
        PROVE  SentRowStep(t)
    <2>1. CASE FindAcknowledged(u)
      BY <1>1, <2>1 DEF FindAcknowledged
    <2>2. CASE AcknowledgeUnknown(u)
      BY <1>2, <2>2 DEF AcknowledgeUnknown, Key
    <2>3. CASE Acknowledge(u)
      <3>1. CASE t = u
        BY <2>3, <3>1, HandlerJudges DEF SentRowStep
      <3>2. CASE t # u
        BY <1>1, <2>3, <3>2, HandlerJudges
      <3>3. QED
        BY <3>1, <3>2
    <2>4. QED
      BY <1>5, <2>1, <2>2, <2>3 DEF HandlerStep
  <1>6. ASSUME NEW u \in Key, ReceiveStep(u) \/ LosePost(u) \/ LoseAck(u)
        PROVE  SentRowStep(t)
    <2>1. rows' = rows
      BY <1>6 DEF ReceiveStep, ReceiveUnverified, ReceiveDuplicate, ReceiveStored,
                  ReceiveDamaged, Receive, LosePost, LoseAck
    <2>2. QED
      BY <1>1, <2>1
  <1>7. ASSUME NEW s \in Server, Crash(s)
        PROVE  SentRowStep(t)
    BY <1>1, <1>7 DEF Crash
  <1>8. CASE UNCHANGED vars
    BY <1>1, <1>8 DEF vars
  <1>9. QED
    BY <1>3, <1>4, <1>5, <1>6, <1>7, <1>8, SentRowOfSender DEF Next

(* A sender that starts reads no acceptance that was not handled.           *)
LEMMA NewCopies ==
    ASSUME VerdictInv, "transcript" \notin Kinds, [Next]_vars, NEW u \in Key, NewSender(u),
           sender'[u].mem.status = "SUCCESS"
    PROVE  Accepted(sender'[u].saveTo) /\ sender'[u].saveTo \in Key
  <1> USE DEF VerdictInv, IInv
  <1>1. sender'[u].pc = "created" /\ sender[u].pc = "idle"
    BY DEF NewSender, FreshSenders
  <1>2. ASSUME NEW s \in Server, User(s)
        PROVE  Accepted(sender'[u].saveTo) /\ sender'[u].saveTo \in Key
    <2>1. ASSUME NEW o, NEW mem, StartSender(Fresh(s), o, mem)
          PROVE  sender'[u].saveTo = o /\ sender'[u].mem = mem
      BY <1>1, <2>1 DEF StartSender, TypeOK
    <2>2. ASSUME NEW r \in Server, NEW kind, NEW request \in BOOLEAN, NEW docId,
                 SendFile(s, r, kind, request, docId)
          PROVE  FALSE
      <3>1. [SendRow(kind, r, Fresh(s), docId) EXCEPT !.request = request].status = "null"
        BY DEF SendRow, NoRow
      <3>2. QED
        BY <2>1, <2>2, <3>1 DEF SendFile
    <2>3. ASSUME NEW r \in Server, RequestTranscript(s, r)
          PROVE  FALSE
      <3>1. SendRow("request", r, Fresh(s), 0).status = "null"
        BY DEF SendRow, NoRow
      <3>2. QED
        BY <2>1, <2>3, <3>1 DEF RequestTranscript
    <2>4. ASSUME NEW o \in Key, Resend(s, o)
          PROVE  Accepted(sender'[u].saveTo) /\ sender'[u].saveTo \in Key
      BY <2>1, <2>4 DEF Resend, SuccessIsAccepted
    <2>5. QED
      BY <1>2, <2>2, <2>3, <2>4 DEF User
  <1>3. ASSUME NEW t \in Key, SenderStep(t)
        PROVE  FALSE
    BY <1>1, <1>3, SenderRows DEF SenderStep, RequestNotWritten, ResendNoEndpoint,
       Abandon, PostDocument, SendOk, SendFails, SendFailsAgain, SenderDone, NewSender,
       TypeOK, Senders, Active
  <1>4. ASSUME NEW t \in Key, DeliverStep(t)
        PROVE  FALSE
    <2>1. ~DeliverTranscript(t)
      BY DEF DeliverTranscript, IsTranscript, NoTranscripts, Working, OfTranscripts
    <2>2. QED
      BY <1>1, <1>4, <2>1 DEF DeliverStep, RecordReceipt, ReceiptNotSaved, AckTranscript,
                              AckRequest, AckRow,
                              SendAck, DeliverFails, FinishDelivery
  <1>5. ASSUME NEW t \in Key, ReceiveStep(t) \/ HandlerStep(t) \/ LosePost(t) \/ LoseAck(t)
        PROVE  FALSE
    BY <1>1, <1>5 DEF ReceiveStep, ReceiveUnverified, ReceiveDuplicate, ReceiveStored,
                      ReceiveDamaged, Receive, HandlerStep, FindAcknowledged, Acknowledge,
                      AcknowledgeUnknown, LosePost, LoseAck
  <1>6. ASSUME NEW s \in Server, Crash(s)
        PROVE  FALSE
    BY <1>1, <1>6 DEF Crash, Active
  <1>7. CASE UNCHANGED vars
    BY <1>1, <1>7 DEF vars
  <1>8. QED
    BY <1>2, <1>3, <1>4, <1>5, <1>6, <1>7 DEF Next

LEMMA AcceptedStays ==
    ASSUME IInv, [Next]_vars, NEW t \in Key, Accepted(t)
    PROVE  Accepted(t)'
  BY AckStep DEF Accepted, IInv, AckAfterReceipt

LEMMA SuccessPreserved ==
    ASSUME VerdictInv, "transcript" \notin Kinds, [Next]_vars
    PROVE  SuccessIsAccepted'
  <1> USE DEF VerdictInv
  <1>1. ASSUME NEW t \in Key, rows'[t].op = "SEND", rows'[t].status = "SUCCESS"
        PROVE  Accepted(t)'
    <2>1. CASE rows[t].op = "NONE"
      BY <1>1, <2>1, NewRowKind
    <2>2. CASE rows[t].op # "NONE"
      <3>1. rows[t].op = "SEND"
        BY <1>1, <2>2, RowsKept
      <3>2. CASE rows'[t] = rows[t]
        BY <1>1, <3>1, <3>2, AcceptedStays DEF SuccessIsAccepted
      <3>3. CASE Unposted(t)
        BY <1>1, <3>3, AcceptedStays DEF Unposted, SuccessIsAccepted
      <3>4. ASSUME NEW u \in Key, FailedBy(u, t)
            PROVE  Accepted(t)'
        BY <1>1, <3>4, AcceptedStays DEF FailedBy, SuccessIsAccepted
      <3>5. CASE Judged(t)
        BY <1>1, <3>5 DEF Judged, Verdict, Accepted
      <3>6. QED
        BY <3>1, <3>2, <3>3, <3>4, <3>5, SentRowSteps DEF SentRowStep
    <2>3. QED
      BY <2>1, <2>2
  <1>2. ASSUME NEW t \in Key, sender'[t].pc \in Active, sender'[t].mem.status = "SUCCESS"
        PROVE  Accepted(sender[t].saveTo)'
    <2> DEFINE k == sender'[t].saveTo
    <2>1. CASE NewSender(t)
      <3>1. k \in Key /\ Accepted(k)
        BY <1>2, <2>1, NewCopies
      <3>2. ack'[k].state = "answered" /\ ack'[k].code = "Accepted"
        BY <3>1, AcceptedStays DEF Accepted
      <3>3. QED
        BY <3>2 DEF Accepted
    <2>2. CASE ~NewSender(t)
      <3>1. /\ sender[t].pc \in Active /\ sender[t].mem.status = "SUCCESS"
            /\ sender'[t].saveTo = sender[t].saveTo
        BY <1>2, <2>2, SenderMoves DEF SenderMove
      <3>2. sender[t].saveTo \in Key /\ Accepted(sender[t].saveTo)
        BY <3>1 DEF SuccessIsAccepted, IInv, Senders
      <3>3. QED
        BY <3>1, <3>2, AcceptedStays DEF Accepted
    <2>3. QED
      BY <2>1, <2>2
  <1>3. QED
    BY <1>1, <1>2 DEF SuccessIsAccepted, Accepted

(* The verdict of an acknowledgement stays on its row.                      *)
LEMMA VerdictPreserved ==
    ASSUME VerdictInv, "transcript" \notin Kinds, [Next]_vars
    PROVE  VerdictKept'
  <1> USE DEF VerdictInv
  <1> DEFINE Harmless == {"idle", "created", "posted", "ok"}
  <1> SUFFICES ASSUME NEW t \in Key, ack'[t].state = "answered",
                      rows'[t].kind # "transcriptAck",
                      \A u \in Key : sender'[u].saveTo = t => sender'[u].pc \in Harmless
               PROVE  /\ rows'[t].acknowledged /\ rows'[t].ackFile
                      /\ rows'[t].status =
                            IF ack'[t].code = "Accepted" THEN "SUCCESS" ELSE "FAILURE"
    BY DEF VerdictKept
  <1>1. ack[t].state # "none" /\ ack'[t].code = ack[t].code /\ ack'[t].docId = ack[t].docId
    <2>1. ASSUME AckTranscript(t) \/ AckRequest(t) \/ AckRow(t)
          PROVE  ack'[t].state = "sent"
      BY <2>1 DEF AckTranscript, AckRequest, AckRow, SendAck, IInv, TypeOK
    <2>2. QED
      BY <2>1, AckStep
  <1>2. /\ rows[t].op = "SEND" /\ post[t].state # "none" /\ ack[t].docId = t[2]
        /\ rows[t].kind # "transcriptAck"
    BY <1>1 DEF IInv, AckAfterReceipt, Posts, AcksNameTheirRow, NoTranscripts, OfTranscripts
  <1>3. AckedKey(t) = t
    BY <1>2 DEF AckedKey, Key
  <1>4. \A u \in Key : ~FailedBy(u, t)
    BY DEF FailedBy
  <1>5. CASE Judged(t)
    BY <1>5 DEF Judged, Verdict
  <1>6. CASE rows'[t] = rows[t] /\ ack[t].state = "answered"
    <2>1. ASSUME NEW u \in Key, sender[u].saveTo = t
          PROVE  sender[u].pc \in Harmless
      <3>1. CASE sender'[u] = sender[u]
        BY <2>1, <3>1
      <3>2. CASE NewSender(u)
        BY <3>2 DEF NewSender, FreshSenders
      <3>3. CASE /\ sender[u].pc \in Active /\ sender'[u].saveTo = sender[u].saveTo
                 /\ sender[u].pc = "failing" => sender'[u].pc \in {"failed", "crashed"}
        BY <2>1, <3>3 DEF Active
      <3>4. QED
        BY <3>1, <3>2, <3>3, SenderMoves DEF SenderMove
    <2>2. QED
      BY <1>1, <1>2, <1>3, <1>6, <2>1 DEF VerdictKept
  <1>7. CASE ack[t].state # "answered"
    BY <1>7, AnsweredBy, HandlerJudges DEF Judged, Verdict
  <1>8. QED
    BY <1>2, <1>4, <1>5, <1>6, <1>7, SentRowSteps DEF SentRowStep, Unposted

LEMMA InitVerdict ==
    ASSUME Init
    PROVE  VerdictInv
  <1>1. \A k \in Key : /\ rows[k] = NoRow /\ sender[k] = NoSender /\ post[k] = NoPost
                       /\ recv[k] = NoRecv /\ ack[k] = NoAck /\ handler[k] = NoHandler
    BY DEF Init
  <1>2. NoTranscripts /\ AcksNameTheirRow /\ PostedIsTheRow
    BY <1>1 DEF NoTranscripts, AcksNameTheirRow, PostedIsTheRow, NoRow, NoPost, NoRecv,
                NoAck, NoHandler, Working
  <1>3. FreshSenders /\ SuccessIsAccepted /\ VerdictKept
    BY <1>1 DEF FreshSenders, SuccessIsAccepted, VerdictKept, NoRow, NoSender, NoAck, Active
  <1>4. QED
    BY <1>2, <1>3, InitInv DEF VerdictInv

(* Where users send no transcripts: the invariant that relates what a row   *)
(* reads to the acknowledgement that was handled.                           *)
THEOREM VerdictInvariance == "transcript" \notin Kinds => (Spec => []VerdictInv)
  <1> SUFFICES ASSUME "transcript" \notin Kinds
               PROVE  Spec => []VerdictInv
    OBVIOUS
  <1>1. Init => VerdictInv
    BY InitVerdict
  <1>2. VerdictInv /\ [Next]_vars => VerdictInv'
    <2> SUFFICES ASSUME VerdictInv, [Next]_vars
                 PROVE  VerdictInv'
      OBVIOUS
    <2>1. IInv'
      BY InvariantStep DEF VerdictInv
    <2>2. QED
      BY <2>1, NoTranscriptsPreserved, AcksPreserved, FreshSendersPreserved,
         SuccessPreserved, VerdictPreserved DEF VerdictInv
  <1>3. QED
    BY <1>1, <1>2, PTL DEF Spec

(* Where users send no transcripts: the verdict of an acknowledgement stays *)
(* on the row it was about unless a failed send of that row overwrote it.   *)
THEOREM VerdictsAreKept == "transcript" \notin Kinds => (Spec => []VerdictKept)
  <1>1. VerdictInv => VerdictKept
    BY DEF VerdictInv
  <1>2. QED
    BY <1>1, VerdictInvariance, PTL

(* Where users send no transcripts: a document that the sender reads as     *)
(* delivered is on record and stored at the recipient, and its acceptance   *)
(* was handled.                                                             *)
THEOREM SuccessesAreStored == "transcript" \notin Kinds => (Spec => []SuccessMeansStored)
  <1>1. VerdictInv => SuccessMeansStored
    <2> SUFFICES ASSUME VerdictInv, NEW t \in Key,
                        rows[t].op = "SEND", rows[t].status = "SUCCESS"
                 PROVE  /\ ack[t].state = "answered"
                        /\ \E k \in Key : /\ k[1] = rows[t].peer /\ rows[k].op = "RECEIVE"
                                          /\ rows[k].senderTx = t[2]
                                          /\ rows[k].peer = t[1]
                                          /\ rows[k].file = rows[t].file
      BY DEF SuccessMeansStored
    <2> USE DEF VerdictInv
    <2>1. ack[t].state = "answered" /\ ack[t].code = "Accepted"
      BY DEF SuccessIsAccepted, Accepted
    <2>2. recv[t].row # 0 /\ rows[ReceivedKey(t)].file = post[t].file
      BY <2>1 DEF IInv, AckAfterReceipt, AcceptedMeansStored
    <2>3. post[t].state # "none"
      BY <2>2, ReceivedKeyFacts
    <2>4. post[t].to = rows[t].peer /\ post[t].file = rows[t].file
      BY <2>3 DEF PostedIsTheRow
    <2>5. QED
      BY <2>1, <2>2, <2>4, ReceivedKeyFacts
  <1>2. QED
    BY <1>1, VerdictInvariance, PTL

=============================================================================
