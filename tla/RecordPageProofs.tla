---------------------------- MODULE RecordPageProofs ----------------------------
(***************************************************************************)
(* Proofs about RecordPage: a row whose form is closed shows what the        *)
(* database has, and a row is one record however often it is saved, for      *)
(* every number of pages, rows, requests and records.                       *)
(***************************************************************************)
EXTENDS RecordPage, FiniteSetTheorems, TLAPS

-----------------------------------------------------------------------------
(* Types *)

(* The empty form, the unused row and the unused request are well-typed.     *)
LEMMA NothingTypes ==
    /\ Blank \in Record /\ NoRow \in RowState
    /\ <<>> \in Tables /\ NoRequest \in RequestState
<1>1. Blank \in Record
    BY RecordAssumption DEF Blank, Record
<1>2. NoRow \in RowState
    BY <1>1 DEF NoRow, RowState
<1>3. <<>> \in Tables
  <2>1. <<>> \in [{} -> Record]
        OBVIOUS
  <2>2. {} \in SUBSET Id
        OBVIOUS
  <2> QED BY <2>1, <2>2 DEF Tables
<1>4. NoRequest \in RequestState
    BY <1>1, <1>3 DEF NoRequest, RequestState, AllOperations
<1> QED BY <1>1, <1>2, <1>3, <1>4

(* A table maps some ids to records.                                        *)
LEMMA TableIs ==
    ASSUME NEW t
    PROVE  /\ t \in Tables => DOMAIN t \in SUBSET Id /\ t \in [DOMAIN t -> Record]
           /\ \A S \in SUBSET Id : t \in [S -> Record] => t \in Tables
<1>1. ASSUME t \in Tables PROVE DOMAIN t \in SUBSET Id /\ t \in [DOMAIN t -> Record]
  <2>1. PICK S \in SUBSET Id : t \in [S -> Record]
        BY <1>1 DEF Tables
  <2>2. DOMAIN t = S
        BY <2>1
  <2> QED BY <2>1, <2>2
<1>2. ASSUME NEW S \in SUBSET Id, t \in [S -> Record] PROVE t \in Tables
    BY <1>2 DEF Tables
<1> QED BY <1>1, <1>2

(* The types of one row and of one request.                                 *)
LEMMA RowTypes ==
    ASSUME TypeOK, NEW r \in Row
    PROVE  /\ rows[r] \in RowState /\ rows[r].page \in Page \union {"none"}
           /\ rows[r].listed \in BOOLEAN /\ rows[r].editing \in BOOLEAN
           /\ rows[r].id \in Id \union {0} /\ rows[r].record \in Record
           /\ rows[r].record.data \in Data
BY DEF TypeOK, RowState, Record

LEMMA RequestTypes ==
    ASSUME TypeOK, NEW q \in Request
    PROVE  /\ request[q] \in RequestState
           /\ request[q].pc \in {"idle", "sent", "served", "done"}
           /\ request[q].op \in AllOperations
           /\ request[q].page \in Page \union {"none"}
           /\ request[q].row \in Row \union {0}
           /\ request[q].id \in Id \union {0}
           /\ request[q].record \in Record
           /\ request[q].answer \in Tables
           /\ request[q].stale \in BOOLEAN
BY DEF TypeOK, RequestState

(* A row that is taken off the list, edited or told its record is well-typed. *)
LEMMA RowWith ==
    ASSUME NEW e \in RowState
    PROVE  /\ [e EXCEPT !.listed = FALSE] \in RowState
           /\ [e EXCEPT !.editing = TRUE] \in RowState
           /\ \A i \in Id \union {0}, c \in Record :
                 [e EXCEPT !.id = i, !.record = c] \in RowState
<1>1. [e EXCEPT !.listed = FALSE] \in RowState
    BY DEF RowState
<1>2. [e EXCEPT !.editing = TRUE] \in RowState
    BY DEF RowState
<1>3. ASSUME NEW i \in Id \union {0}, NEW c \in Record
      PROVE  [e EXCEPT !.id = i, !.record = c] \in RowState
    BY DEF RowState
<1> QED BY <1>1, <1>2, <1>3

(* Ids and rows are numbers from 1: 0 is none of them.                       *)
LEMMA NumbersFromOne == 0 \notin Id /\ 0 \notin Row /\ Id \subseteq Nat
BY RecordAssumption DEF Id, Row

(* Initially everything is well-typed.                                      *)
LEMMA InitTypeOK == Init => TypeOK
<1> SUFFICES ASSUME Init PROVE TypeOK
    OBVIOUS
<1>1. table \in Tables /\ lastId \in Id \union {0}
    BY NothingTypes DEF Init
<1>2. rows \in [Row -> RowState]
    BY NothingTypes DEF Init
<1>3. request \in [Request -> RequestState]
    BY NothingTypes DEF Init
<1>4. creator \in [Id -> Row \union {0}] /\ disturbed \subseteq Row
      /\ retried \subseteq Row /\ renewed \subseteq Id
    BY DEF Init
<1> QED BY <1>1, <1>2, <1>3, <1>4 DEF TypeOK

(* What a sent request changes.                                             *)
LEMMA SendTypes ==
    ASSUME TypeOK, NEW q \in Request, NEW op \in AllOperations,
           NEW p \in Page \union {"none"}, NEW r \in Row \union {0}, Send(q, op, p, r)
    PROVE  /\ request' \in [Request -> RequestState] /\ disturbed' \subseteq Row
<1>1. (IF r = 0 THEN 0 ELSE rows[r].id) \in Id \union {0}
    BY RowTypes
<1>2. (IF r = 0 THEN Blank ELSE rows[r].record) \in Record
    BY RowTypes, NothingTypes
<1>3. request'[q] \in RequestState
    BY <1>1, <1>2, NothingTypes DEF Send, TypeOK, RequestState
<1>4. request' \in [Request -> RequestState]
    BY <1>3 DEF Send, TypeOK
<1>5. disturbed' \subseteq Row
    BY NumbersFromOne DEF Send, TypeOK
<1> QED BY <1>4, <1>5

(* What a finished request changes.                                         *)
LEMMA DoneTypes ==
    ASSUME TypeOK, NEW q \in Request, Done(q)
    PROVE  request' \in [Request -> RequestState]
<1>1. [NoRequest EXCEPT !.pc = "done"] \in RequestState
    BY NothingTypes DEF RequestState
<1> QED BY <1>1 DEF Done, TypeOK

(* What a served request changes.                                           *)
LEMMA ServedTypes ==
    ASSUME TypeOK, NEW q \in Request, NEW id \in Id \union {0}, NEW answer \in Tables,
           Served(q, id, answer)
    PROVE  request' \in [Request -> RequestState]
<1>1. ASSUME NEW x \in Request PROVE request'[x] \in RequestState
  <2>1. CASE x = q
    <3>1. request'[q] = [request[q] EXCEPT !.pc = "served", !.id = id, !.answer = answer]
          BY DEF Served
    <3>2. request[q] \in RequestState
          BY RequestTypes
    <3> QED BY <2>1, <3>1, <3>2 DEF RequestState
  <2>2. CASE x # q
    <3> DEFINE s == request[x].stale \/ (request[x].op = "get" /\ request[x].pc = "served")
    <3>1. request'[x] = [request[x] EXCEPT !.stale = s]
          BY <2>2 DEF Served
    <3>2. s \in BOOLEAN
          OBVIOUS
    <3> HIDE DEF s
    <3> QED BY <3>1, <3>2, RequestTypes DEF RequestState
  <2> QED BY <2>1, <2>2
<1>2. request' = [x \in Request |-> request'[x]]
    BY DEF Served
<1> QED BY <1>1, <1>2

(* A list that is shown fills unused rows.                                  *)
LEMMA ShowListTypes ==
    ASSUME TypeOK, NEW q \in Request, ShowList(q)
    PROVE  rows' \in [Row -> RowState] /\ disturbed' \subseteq Row
<1> DEFINE fetched == request[q].answer
           p == request[q].page
           places == {f \in [DOMAIN fetched -> Unused] :
                         \A i, j \in DOMAIN fetched : f[i] = f[j] => i = j}
           row == CHOOSE f \in places : TRUE
           shows(r, i) == i \in DOMAIN fetched /\ row[i] = r
<1>1. row \in [DOMAIN fetched -> Unused]
    BY DEF ShowList
<1>2. fetched \in [DOMAIN fetched -> Record] /\ DOMAIN fetched \subseteq Id
    BY RequestTypes, TableIs
<1>3. ASSUME NEW r \in Row PROVE rows'[r] \in RowState
  <2>1. CASE \E i \in Id : shows(r, i)
    <3> DEFINE i == CHOOSE i \in Id : shows(r, i)
    <3>1. i \in Id /\ shows(r, i)
          BY <2>1
    <3>2. rows'[r] = [page |-> p, listed |-> TRUE, editing |-> FALSE,
                      id |-> i, record |-> fetched[i]]
          BY <2>1 DEF ShowList
    <3>3. fetched[i] \in Record
          BY <1>2, <3>1
    <3>4. p \in Page \union {"none"}
          BY RequestTypes
    <3>5. i \in Id
          BY <3>1
    <3> HIDE DEF i, p, fetched
    <3> QED BY <3>2, <3>3, <3>4, <3>5 DEF RowState
  <2>2. CASE ~\E i \in Id : shows(r, i)
    <3>1. rows'[r] = [rows[r] EXCEPT !.listed = rows[r].listed /\ rows[r].page # p]
          BY <2>2 DEF ShowList
    <3>2. (rows[r].listed /\ rows[r].page # p) \in BOOLEAN
          OBVIOUS
    <3> QED BY <3>1, <3>2, RowTypes DEF RowState
  <2> QED BY <2>1, <2>2
<1>4. rows' \in [Row -> RowState]
  <2>1. rows' = [r \in Row |-> rows'[r]]
        BY DEF ShowList
  <2> QED BY <2>1, <1>3
<1>5. disturbed' \subseteq Row
    BY <1>1 DEF ShowList, TypeOK, Unused
<1> QED BY <1>4, <1>5

(* A record is inserted under a new id.                                     *)
LEMMA InsertTypes ==
    ASSUME TypeOK, NEW q \in Request, NEW told \in BOOLEAN, Insert(q, told)
    PROVE  /\ table' \in Tables /\ lastId' \in Id \union {0}
           /\ request' \in [Request -> RequestState]
           /\ creator' \in [Id -> Row \union {0}]
<1>1. lastId + 1 \in Id
    BY RecordAssumption DEF TypeOK, Insert, Id
<1>2. table' \in Tables
  <2> DEFINE S == DOMAIN table \union {lastId + 1}
  <2>1. S \in SUBSET Id
        BY <1>1, TableIs DEF TypeOK
  <2>2. \A i \in S : (IF i = lastId + 1 THEN request[q].record ELSE table[i]) \in Record
        BY TableIs, RequestTypes DEF TypeOK
  <2>3. table' \in [S -> Record]
        BY <2>2 DEF Insert
  <2> QED BY <2>1, <2>3, TableIs
<1>3. lastId' \in Id \union {0}
    BY <1>1 DEF Insert
<1>4. request' \in [Request -> RequestState]
  <2>1. Served(q, IF told THEN lastId + 1 ELSE request[q].id, <<>>)
        BY DEF Insert
  <2>2. (IF told THEN lastId + 1 ELSE request[q].id) \in Id \union {0}
        BY <1>1, RequestTypes
  <2> QED BY <2>1, <2>2, ServedTypes, NothingTypes
<1>5. creator' \in [Id -> Row \union {0}]
    BY <1>1, RequestTypes DEF Insert, TypeOK
<1> QED BY <1>2, <1>3, <1>4, <1>5

(* A table that loses a record, or has one replaced, is a table.            *)
LEMMA TableStays ==
    ASSUME TypeOK, NEW i \in Id
    PROVE  /\ [j \in DOMAIN table \ {i} |-> table[j]] \in Tables
           /\ \A e \in Record : [table EXCEPT ![i] = e] \in Tables
           /\ i \in DOMAIN table => [table EXCEPT ![i].password = "new"] \in Tables
<1>1. DOMAIN table \in SUBSET Id /\ table \in [DOMAIN table -> Record]
    BY TableIs DEF TypeOK
<1>2. [j \in DOMAIN table \ {i} |-> table[j]] \in Tables
  <2>1. [j \in DOMAIN table \ {i} |-> table[j]] \in [DOMAIN table \ {i} -> Record]
        BY <1>1
  <2>2. DOMAIN table \ {i} \in SUBSET Id
        BY <1>1
  <2> QED BY <2>1, <2>2, TableIs
<1>3. ASSUME NEW e \in Record PROVE [table EXCEPT ![i] = e] \in Tables
  <2>1. [table EXCEPT ![i] = e] \in [DOMAIN table -> Record]
        BY <1>1
  <2> QED BY <1>1, <2>1, TableIs
<1>4. ASSUME i \in DOMAIN table PROVE [table EXCEPT ![i].password = "new"] \in Tables
  <2>1. [table[i] EXCEPT !.password = "new"] \in Record
        BY <1>1, <1>4 DEF Record
  <2>2. [table EXCEPT ![i].password = "new"] \in [DOMAIN table -> Record]
        BY <1>1, <2>1
  <2> QED BY <1>1, <2>2, TableIs
<1> QED BY <1>2, <1>3, <1>4

(* Saving, deleting and changing a password keep the types.                 *)
LEMMA SaveTypes ==
    ASSUME TypeOK, NEW r \in Row, NEW q \in Request,
           Save(q, r) \/ Delete(q, r) \/ UpdatePassword(q, r)
    PROVE  TypeOK'
<1>1. CASE Save(q, r)
  <2> DEFINE op == IF rows[r].id = 0 THEN "post" ELSE "put"
  <2>1. op \in AllOperations /\ Send(q, op, rows[r].page, r)
        BY <1>1 DEF Save, AllOperations
  <2>2. request' \in [Request -> RequestState] /\ disturbed' \subseteq Row
        BY <2>1, SendTypes, RowTypes
  <2>3. [rows[r] EXCEPT !.editing = FALSE] \in RowState
        BY RowTypes DEF RowState
  <2>4. rows' \in [Row -> RowState]
        BY <1>1, <2>3 DEF Save, TypeOK
  <2> QED BY <1>1, <2>2, <2>4 DEF Save, TypeOK
<1>2. CASE Delete(q, r)
  <2>1. "delete" \in AllOperations /\ Send(q, "delete", rows[r].page, r)
        BY <1>2 DEF Delete, AllOperations
  <2>2. request' \in [Request -> RequestState] /\ disturbed' \subseteq Row
        BY <2>1, SendTypes, RowTypes
  <2> QED BY <1>2, <2>2 DEF Delete, TypeOK
<1>3. CASE UpdatePassword(q, r)
  <2>1. "password" \in AllOperations /\ Send(q, "password", rows[r].page, r)
        BY <1>3 DEF UpdatePassword, AllOperations
  <2>2. request' \in [Request -> RequestState] /\ disturbed' \subseteq Row
        BY <2>1, SendTypes, RowTypes
  <2> QED BY <1>3, <2>2 DEF UpdatePassword, TypeOK
<1> QED BY <1>1, <1>2, <1>3

(* An answer and a failure keep the types.                                  *)
LEMMA AnswerTypes ==
    ASSUME TypeOK, RequestsFit, NEW q \in Request, Answer(q) \/ Fail(q)
    PROVE  TypeOK'
<1> DEFINE o == request[q].row
<1>1. request' \in [Request -> RequestState]
    BY DoneTypes DEF Answer, Fail
<1>2. UNCHANGED <<table, lastId, creator, renewed>>
    BY DEF Answer, Fail
<1>3. request[q].op # "get" => o \in Row
    BY RequestTypes DEF RequestsFit, ChangeFits, Answer, Fail, UnderWay
<1>4. CASE Answer(q)
  <2>1. UNCHANGED retried
        BY <1>4 DEF Answer
  <2>2. rows' \in [Row -> RowState] /\ disturbed' \subseteq Row
    <3>1. CASE request[q].op = "get"
          BY <1>4, <3>1, ShowListTypes DEF Answer
    <3>2. CASE request[q].op = "post"
      <4>1. rows' = [rows EXCEPT ![o].id = request[q].id, ![o].record = request[q].record]
            BY <1>4, <3>2 DEF Answer
      <4>2. [rows[o] EXCEPT !.id = request[q].id, !.record = request[q].record] \in RowState
            BY <1>3, <3>2, RowTypes, RequestTypes, RowWith
      <4>3. rows' = [rows EXCEPT ![o] =
                [rows[o] EXCEPT !.id = request[q].id, !.record = request[q].record]]
            BY <4>1, <1>3, <3>2 DEF TypeOK
      <4>4. rows' \in [Row -> RowState]
            BY <4>2, <4>3 DEF TypeOK
      <4> QED BY <1>4, <3>2, <4>4 DEF Answer, TypeOK
    <3>3. CASE request[q].op = "delete"
      <4>1. rows' = [rows EXCEPT ![o].listed = FALSE]
            BY <1>4, <3>3 DEF Answer
      <4>2. [rows[o] EXCEPT !.listed = FALSE] \in RowState
            BY <1>3, <3>3, RowTypes, RowWith
      <4>3. rows' \in [Row -> RowState]
            BY <4>1, <4>2 DEF TypeOK
      <4> QED BY <1>4, <3>3, <4>3 DEF Answer, TypeOK
    <3>4. CASE request[q].op \notin {"get", "post", "delete"}
          BY <1>4, <3>4 DEF Answer, TypeOK
    <3> QED BY <3>1, <3>2, <3>3, <3>4
  <2> QED BY <1>1, <1>2, <2>1, <2>2 DEF TypeOK
<1>5. CASE Fail(q)
  <2>1. rows' \in [Row -> RowState]
    <3>1. CASE request[q].op \in Reopens
      <4>1. o \in Row /\ rows' = [rows EXCEPT ![o].editing = TRUE]
            BY <1>5, <3>1, <1>3, RecordAssumption DEF Fail
      <4>2. [rows[o] EXCEPT !.editing = TRUE] \in RowState
            BY <4>1, RowTypes, RowWith
      <4> QED BY <4>1, <4>2 DEF TypeOK
    <3>2. CASE request[q].op \notin Reopens
          BY <1>5, <3>2 DEF Fail, TypeOK
    <3> QED BY <3>1, <3>2
  <2>2. retried' \subseteq Row
    <3>1. CASE UNCHANGED retried
          BY <3>1 DEF TypeOK
    <3>2. CASE request[q].op \in {"post", "delete"} /\ retried' = retried \union {o}
          BY <3>2, <1>3 DEF TypeOK
    <3> QED BY <1>5, <3>1, <3>2 DEF Fail
  <2> QED BY <1>1, <1>2, <1>5, <2>1, <2>2 DEF Fail, TypeOK
<1> QED BY <1>4, <1>5

(* Inserting a record keeps the types.                                      *)
LEMMA InsertsTypes ==
    ASSUME TypeOK, NEW q \in Request, NEW told \in BOOLEAN, Insert(q, told),
           UNCHANGED <<rows, disturbed, retried, renewed>>
    PROVE  TypeOK'
BY InsertTypes DEF TypeOK

(* Every resource keeps the types.                                          *)
LEMMA ServeTypes ==
    ASSUME TypeOK, RequestsFit, NEW q \in Request, Serve(q)
    PROVE  TypeOK'
<1> DEFINE id == request[q].id
<1>1. CASE Get(q)
  <2>1. [request[q] EXCEPT !.pc = "served", !.answer = table] \in RequestState
        BY RequestTypes DEF RequestState, TypeOK
  <2>2. request' \in [Request -> RequestState]
        BY <1>1, <2>1 DEF Get, TypeOK
  <2> QED BY <1>1, <2>2 DEF Get, TypeOK, history
<1>2. CASE Post(q)
    BY <1>2, InsertsTypes DEF Post
<1>3. CASE Put(q)
  <2>1. CASE id \in DOMAIN table
    <3>1. id \in Id
          BY <2>1, TableIs DEF TypeOK
    <3>2. table' \in Tables
          BY <1>3, <2>1, <3>1, TableStays, RequestTypes DEF Put
    <3>3. request' \in [Request -> RequestState]
          BY <1>3, <2>1, <3>1, ServedTypes, NothingTypes DEF Put
    <3>4. disturbed' \subseteq Row
          BY <1>3, <2>1 DEF Put, Outdate, TypeOK
    <3>5. UNCHANGED <<lastId, creator, rows, retried, renewed>>
          BY <1>3, <2>1 DEF Put
    <3> QED BY <3>2, <3>3, <3>4, <3>5 DEF TypeOK
  <2>2. CASE id \notin DOMAIN table
        BY <1>3, <2>2, InsertsTypes DEF Put
  <2> QED BY <2>1, <2>2
<1>4. CASE Remove(q)
  <2>1. id \in Id
        BY <1>4, TableIs DEF TypeOK, Remove
  <2>2. table' \in Tables
        BY <1>4, <2>1, TableStays DEF Remove
  <2>3. request' \in [Request -> RequestState]
        BY <1>4, <2>1, ServedTypes, NothingTypes DEF Remove
  <2>4. disturbed' \subseteq Row
        BY <1>4 DEF Remove, Outdate, TypeOK
  <2>5. UNCHANGED <<lastId, rows, creator, retried, renewed>>
        BY <1>4 DEF Remove
  <2> QED BY <2>2, <2>3, <2>4, <2>5 DEF TypeOK
<1>5. CASE ChangePassword(q)
  <2>1. id \in Id
    <3>1. request[q].op = "password" /\ UnderWay(q)
          BY <1>5 DEF ChangePassword, Handling, UnderWay
    <3>2. request[q].id \in Id \union {0}
          BY RequestTypes
    <3>3. request[q].id # 0
          BY <3>1, <3>2 DEF RequestsFit, ChangeFits
    <3> QED BY <3>2, <3>3
  <2>2. table' \in Tables
    <3>1. CASE id \in DOMAIN table
          BY <1>5, <2>1, <3>1, TableStays DEF ChangePassword
    <3>2. CASE id \notin DOMAIN table
          BY <1>5, <3>2 DEF ChangePassword, TypeOK
    <3> QED BY <3>1, <3>2
  <2>3. request' \in [Request -> RequestState]
        BY <1>5, <2>1, ServedTypes, NothingTypes DEF ChangePassword
  <2>4. disturbed' \subseteq Row
        BY <1>5 DEF ChangePassword, Outdate, TypeOK
  <2>5. renewed' \subseteq Id
        BY <1>5, <2>1 DEF ChangePassword, TypeOK
  <2>6. UNCHANGED <<lastId, rows, creator, retried>>
        BY <1>5 DEF ChangePassword
  <2> QED BY <2>2, <2>3, <2>4, <2>5, <2>6 DEF TypeOK
<1> QED BY <1>1, <1>2, <1>3, <1>4, <1>5 DEF Serve

(* The types are kept by every step.                                        *)
LEMMA NextTypeOK == TypeOK /\ RequestsFit /\ [Next]_vars => TypeOK'
<1> SUFFICES ASSUME TypeOK, RequestsFit, [Next]_vars PROVE TypeOK'
    OBVIOUS
<1>1. CASE \E p \in Page : Create(p) \/ \E q \in Request : Fetch(q, p)
  <2>1. PICK p \in Page : Create(p) \/ \E q \in Request : Fetch(q, p)
        BY <1>1
  <2>2. CASE Create(p)
    <3> DEFINE n == CHOOSE x \in Unused : TRUE
    <3>1. rows' = [rows EXCEPT ![n] =
               [NoRow EXCEPT !.page = p, !.listed = TRUE, !.editing = TRUE]]
          BY <2>2 DEF Create
    <3>2. [NoRow EXCEPT !.page = p, !.listed = TRUE, !.editing = TRUE] \in RowState
          BY NothingTypes DEF RowState
    <3>3. rows' \in [Row -> RowState]
          BY <3>1, <3>2 DEF TypeOK
    <3> QED BY <2>2, <3>3 DEF Create, TypeOK, history
  <2>3. ASSUME NEW q \in Request, Fetch(q, p) PROVE TypeOK'
    <3>1. "get" \in AllOperations /\ Send(q, "get", p, 0)
          BY <2>3 DEF Fetch, AllOperations
    <3>2. request' \in [Request -> RequestState] /\ disturbed' \subseteq Row
          BY <3>1, SendTypes
    <3> QED BY <2>3, <3>2 DEF Fetch, TypeOK
  <2> QED BY <2>1, <2>2, <2>3
<1>2. CASE \E r \in Row :
              \/ \E d \in Data : Edit(r, d)
              \/ Forget(r)
              \/ \E q \in Request : Save(q, r) \/ Delete(q, r) \/ UpdatePassword(q, r)
  <2>1. PICK r \in Row :
              \/ \E d \in Data : Edit(r, d)
              \/ Forget(r)
              \/ \E q \in Request : Save(q, r) \/ Delete(q, r) \/ UpdatePassword(q, r)
        BY <1>2
  <2>2. ASSUME NEW d \in Data, Edit(r, d) PROVE TypeOK'
    <3>1. [rows[r] EXCEPT !.editing = TRUE, !.record = [rows[r].record EXCEPT !.data = d]] \in RowState
          BY RowTypes DEF RowState, Record
    <3>2. rows' \in [Row -> RowState]
          BY <2>2, <3>1 DEF Edit, TypeOK
    <3> QED BY <2>2, <3>2 DEF Edit, TypeOK, history
  <2>3. CASE Forget(r)
    <3>1. [rows[r] EXCEPT !.listed = FALSE] \in RowState
          BY RowTypes DEF RowState
    <3>2. rows' \in [Row -> RowState]
          BY <2>3, <3>1 DEF Forget, TypeOK
    <3> QED BY <2>3, <3>2 DEF Forget, TypeOK, history
  <2>4. ASSUME NEW q \in Request, Save(q, r) \/ Delete(q, r) \/ UpdatePassword(q, r) PROVE TypeOK'
        BY <2>4, SaveTypes
  <2> QED BY <2>1, <2>2, <2>3, <2>4
<1>3. CASE \E q \in Request : Serve(q) \/ Answer(q) \/ Fail(q)
    BY <1>3, ServeTypes, AnswerTypes
<1>4. CASE UNCHANGED vars
    BY <1>4 DEF vars, history, TypeOK
<1> QED BY <1>1, <1>2, <1>3, <1>4 DEF Next

-----------------------------------------------------------------------------
(* What is under way *)

(* A sent request is under way, and no other one changes.                   *)
LEMMA SendIs ==
    ASSUME TypeOK, NEW q \in Request, NEW op, NEW p, NEW r, Send(q, op, p, r)
    PROVE  /\ ~UnderWay(q) /\ UnderWay(q)'
           /\ request'[q].op = op /\ request'[q].page = p /\ request'[q].row = r
           /\ request'[q].pc = "sent"
           /\ r # 0 => request'[q].id = rows[r].id /\ request'[q].record = rows[r].record
           /\ \A x \in Request : x # q => request'[x] = request[x]
           /\ \A x \in Request : x # q => (UnderWay(x)' <=> UnderWay(x))
           /\ disturbed \subseteq disturbed'
           /\ r # 0 /\ Busy(r) => r \in disturbed'
<1>1. request'[q] = [NoRequest EXCEPT !.pc = "sent", !.op = op, !.page = p, !.row = r,
                            !.id = IF r = 0 THEN 0 ELSE rows[r].id,
                            !.record = IF r = 0 THEN Blank ELSE rows[r].record]
    BY DEF Send, TypeOK
<1>2. /\ request'[q].op = op /\ request'[q].page = p /\ request'[q].row = r
      /\ request'[q].pc = "sent"
      /\ r # 0 => request'[q].id = rows[r].id /\ request'[q].record = rows[r].record
    BY <1>1 DEF NoRequest
<1>3. \A x \in Request : x # q => request'[x] = request[x]
    BY DEF Send, TypeOK
<1>4. ~UnderWay(q) /\ UnderWay(q)'
    BY <1>2 DEF Send, UnderWay
<1>5. disturbed \subseteq disturbed' /\ (r # 0 /\ Busy(r) => r \in disturbed')
    BY DEF Send
<1> QED BY <1>2, <1>3, <1>4, <1>5 DEF UnderWay

(* A finished request is not under way, and no other one changes.           *)
LEMMA DoneIs ==
    ASSUME TypeOK, NEW q \in Request, Done(q)
    PROVE  /\ ~UnderWay(q)'
           /\ \A x \in Request : x # q => request'[x] = request[x]
           /\ \A x \in Request : x # q => (UnderWay(x)' <=> UnderWay(x))
BY DEF Done, TypeOK, NoRequest, UnderWay

(* A served request stays under way, and lists on their way become stale.    *)
LEMMA ServedIs ==
    ASSUME TypeOK, NEW q \in Request, UnderWay(q), NEW id, NEW answer, Served(q, id, answer)
    PROVE  /\ request'[q].pc = "served" /\ request'[q].id = id
           /\ \A x \in Request :
                 /\ request'[x].op = request[x].op /\ request'[x].row = request[x].row
                 /\ request'[x].page = request[x].page
                 /\ request'[x].record = request[x].record
                 /\ UnderWay(x)' <=> UnderWay(x)
                 /\ x # q =>
                      /\ request'[x].pc = request[x].pc /\ request'[x].id = request[x].id
                      /\ request[x].op = "get" /\ request[x].pc = "served" =>
                           request'[x].stale
<1>1. request'[q] = [request[q] EXCEPT !.pc = "served", !.id = id, !.answer = answer]
    BY DEF Served
<1>2. ASSUME NEW x \in Request, x # q
      PROVE  request'[x] = [request[x] EXCEPT !.stale = request[x].stale \/
                (request[x].op = "get" /\ request[x].pc = "served")]
    BY <1>2 DEF Served
<1>3. request[q] \in RequestState /\ \A x \in Request : request[x] \in RequestState
    BY RequestTypes
<1>4. /\ request'[q].pc = "served" /\ request'[q].id = id
      /\ request'[q].op = request[q].op /\ request'[q].row = request[q].row
      /\ request'[q].page = request[q].page
      /\ request'[q].record = request[q].record
    BY <1>1, <1>3 DEF RequestState
<1>5. ASSUME NEW x \in Request, x # q
      PROVE  /\ request'[x].pc = request[x].pc /\ request'[x].id = request[x].id
             /\ request'[x].op = request[x].op /\ request'[x].row = request[x].row
             /\ request'[x].page = request[x].page
             /\ request'[x].record = request[x].record
             /\ request[x].op = "get" /\ request[x].pc = "served" => request'[x].stale
    BY <1>2, <1>3, <1>5 DEF RequestState
<1>6. \A x \in Request : UnderWay(x)' <=> UnderWay(x)
    BY <1>4, <1>5 DEF UnderWay
<1> QED BY <1>4, <1>5, <1>6

(* So does a list that is fetched.                                          *)
LEMMA GetIs ==
    ASSUME TypeOK, NEW q \in Request, Get(q)
    PROVE  /\ UnderWay(q) /\ request[q].op = "get"
           /\ request'[q].pc = "served" /\ request'[q].op = "get"
           /\ request'[q].row = request[q].row /\ request'[q].page = request[q].page
           /\ request'[q].answer = table
           /\ \A x \in Request : x # q => request'[x] = request[x]
           /\ \A x \in Request : UnderWay(x)' <=> UnderWay(x)
<1>1. request[q] \in RequestState
    BY RequestTypes
<1>2. request'[q] = [request[q] EXCEPT !.pc = "served", !.answer = table]
    BY DEF Get, TypeOK
<1>3. \A x \in Request : x # q => request'[x] = request[x]
    BY DEF Get, TypeOK
<1>4. /\ request'[q].pc = "served" /\ request'[q].op = request[q].op
      /\ request'[q].row = request[q].row /\ request'[q].page = request[q].page
      /\ request'[q].answer = table
    BY <1>1, <1>2 DEF RequestState
<1>5. request[q].pc = "sent" /\ request[q].op = "get"
    BY DEF Get, Handling
<1> QED BY <1>3, <1>4, <1>5 DEF UnderWay

(* A row that is used stays used, and keeps having an id once it has one.    *)
RowsAge ==
    \A r \in Row :
        rows[r].page # "none" =>
            rows'[r].page # "none" /\ (rows[r].id # 0 => rows'[r].id # 0)

(* A request that does not change still fits, if the table did not change    *)
(* or it does not hold a fresh list.                                        *)
LEMMA FitsStays ==
    ASSUME TypeOK, RequestsFit, RowsAge, NEW x \in Request, UnderWay(x),
           request'[x].op = request[x].op, request'[x].row = request[x].row,
           request'[x].page = request[x].page,
           request'[x].pc = request[x].pc, request'[x].id = request[x].id,
           \/ request'[x] = request[x] /\ table' = table
           \/ request[x].op = "get" /\ request[x].pc = "served" => request'[x].stale
    PROVE  /\ request'[x].op = "get" => ListFits(x)'
           /\ request'[x].op # "get" => ChangeFits(x)'
<1>1. ASSUME request[x].op = "get" PROVE ListFits(x)'
    BY <1>1 DEF RequestsFit, ListFits
<1>2. ASSUME request[x].op # "get" PROVE ChangeFits(x)'
  <2>1. ChangeFits(x) /\ request[x].row \in Row
        BY <1>2, RequestTypes DEF RequestsFit, ChangeFits
  <2> QED BY <2>1 DEF ChangeFits, RowsAge
<1> QED BY <1>1, <1>2

-----------------------------------------------------------------------------
(* Rows *)

(* A list that is shown takes rows that were not used, and leaves all others *)
(* as they are, but for taking them off the list.                           *)
RowKept(r) ==
    /\ rows'[r].page = rows[r].page /\ rows'[r].id = rows[r].id
    /\ rows'[r].record = rows[r].record /\ rows'[r].editing = rows[r].editing
    /\ rows'[r].listed => rows[r].listed

RowTaken(q, r) ==
    /\ rows[r].page = "none" /\ rows'[r].page = request[q].page
    /\ rows'[r].listed /\ ~rows'[r].editing
    /\ rows'[r].id \in DOMAIN request[q].answer
    /\ rows'[r].record = request[q].answer[rows'[r].id]
    /\ request[q].stale => r \in disturbed'

LEMMA ShowListIs ==
    ASSUME TypeOK, NEW q \in Request, ShowList(q)
    PROVE  /\ \A r \in Row : RowKept(r) \/ RowTaken(q, r)
           /\ disturbed \subseteq disturbed'
<1> DEFINE fetched == request[q].answer
           p == request[q].page
           places == {f \in [DOMAIN fetched -> Unused] :
                         \A i, j \in DOMAIN fetched : f[i] = f[j] => i = j}
           row == CHOOSE f \in places : TRUE
           shows(r, i) == i \in DOMAIN fetched /\ row[i] = r
<1>1. row \in [DOMAIN fetched -> Unused]
    BY DEF ShowList
<1>2. disturbed \subseteq disturbed'
    BY DEF ShowList
<1>3. ASSUME NEW r \in Row, \E i \in Id : shows(r, i)
      PROVE  RowTaken(q, r)
  <2> DEFINE i == CHOOSE i \in Id : shows(r, i)
  <2>1. shows(r, i)
        BY <1>3
  <2>2. rows'[r] = [page |-> p, listed |-> TRUE, editing |-> FALSE,
                    id |-> i, record |-> fetched[i]]
        BY <1>3 DEF ShowList
  <2>3. r \in Unused
        BY <1>1, <2>1
  <2>4. request[q].stale => r \in disturbed'
    <3>1. ASSUME request[q].stale
          PROVE  disturbed' = disturbed \union {row[j] : j \in DOMAIN fetched}
          BY <3>1 DEF ShowList
    <3> QED BY <2>1, <3>1
  <2> HIDE DEF i
  <2> QED BY <2>1, <2>2, <2>3, <2>4 DEF RowTaken, Unused
<1>4. ASSUME NEW r \in Row, ~\E i \in Id : shows(r, i)
      PROVE  RowKept(r)
  <2>1. rows'[r] = [rows[r] EXCEPT !.listed = rows[r].listed /\ rows[r].page # p]
        BY <1>4 DEF ShowList
  <2>2. rows[r] \in RowState
        BY RowTypes
  <2> QED BY <2>1, <2>2 DEF RowState, RowKept
<1> QED BY <1>2, <1>3, <1>4

(* The answer to anything but a list, and a failure, reach the row that the  *)
(* request is from, and it alone.                                           *)
LEMMA AnswerIs ==
    ASSUME TypeOK, RequestsFit, NEW q \in Request, Answer(q), request[q].op # "get"
    PROVE  /\ request[q].pc = "served" /\ request[q].row \in Row
           /\ UNCHANGED <<disturbed, retried>>
           /\ \A r \in Row : r # request[q].row => rows'[r] = rows[r]
           /\ request[q].op = "post" =>
                rows'[request[q].row] =
                    [rows[request[q].row] EXCEPT !.id = request[q].id,
                                                 !.record = request[q].record]
           /\ request[q].op = "delete" =>
                rows'[request[q].row] = [rows[request[q].row] EXCEPT !.listed = FALSE]
           /\ request[q].op \notin {"post", "delete"} => rows' = rows
<1> DEFINE o == request[q].row
<1>1. o \in Row /\ request[q].pc = "served"
    BY RequestTypes DEF RequestsFit, ChangeFits, Answer, UnderWay
<1>2. UNCHANGED <<disturbed, retried>>
    BY DEF Answer
<1>3. CASE request[q].op = "post"
  <2>1. rows' = [rows EXCEPT ![o].id = request[q].id, ![o].record = request[q].record]
        BY <1>3 DEF Answer
  <2>2. rows' = [rows EXCEPT ![o] = [rows[o] EXCEPT !.id = request[q].id,
                                                    !.record = request[q].record]]
        BY <1>1, <2>1 DEF TypeOK
  <2> QED BY <1>1, <1>2, <1>3, <2>2 DEF TypeOK
<1>4. CASE request[q].op = "delete"
  <2>1. rows' = [rows EXCEPT ![o].listed = FALSE]
        BY <1>4 DEF Answer
  <2> QED BY <1>1, <1>2, <1>4, <2>1 DEF TypeOK
<1>5. CASE request[q].op \notin {"post", "delete"}
  <2>1. rows' = rows
        BY <1>5 DEF Answer
  <2> QED BY <1>1, <1>2, <1>5, <2>1
<1> QED BY <1>3, <1>4, <1>5

LEMMA FailIs ==
    ASSUME TypeOK, RequestsFit, NEW q \in Request, Fail(q)
    PROVE  /\ UnderWay(q) /\ Done(q)
           /\ UNCHANGED <<table, lastId, creator, disturbed>> /\ retried \subseteq retried'
           /\ request[q].op # "get" => request[q].row \in Row
           /\ \A r \in Row : r # request[q].row => rows'[r] = rows[r]
           /\ request[q].op \in Reopens =>
                rows'[request[q].row] = [rows[request[q].row] EXCEPT !.editing = TRUE]
           /\ request[q].op \notin Reopens => rows' = rows
           /\ request[q].pc = "served" /\ request[q].op \in {"post", "delete"} =>
                request[q].row \in retried'
<1> DEFINE o == request[q].row
<1>1. request[q].op # "get" => o \in Row
    BY RequestTypes DEF RequestsFit, ChangeFits, Fail
<1>2. request[q].op \in Reopens => rows' = [rows EXCEPT ![o].editing = TRUE] /\ o \in Row
    BY <1>1, RecordAssumption DEF Fail
<1>3. /\ UnderWay(q) /\ Done(q)
      /\ UNCHANGED <<table, lastId, creator, disturbed>> /\ retried \subseteq retried'
      /\ request[q].op \notin Reopens => rows' = rows
      /\ request[q].pc = "served" /\ request[q].op \in {"post", "delete"} => o \in retried'
    BY DEF Fail
<1>4. /\ \A r \in Row : r # o => rows'[r] = rows[r]
      /\ request[q].op \in Reopens => rows'[o] = [rows[o] EXCEPT !.editing = TRUE]
    BY <1>2, <1>3 DEF TypeOK
<1> QED BY <1>1, <1>3, <1>4

(* A page's form changes one row.                                           *)
LEMMA CreateIs ==
    ASSUME TypeOK, NEW p \in Page, Create(p)
    PROVE  /\ UNCHANGED <<table, lastId, request, history>>
           /\ \E n \in Unused :
                /\ rows'[n] = [NoRow EXCEPT !.page = p, !.listed = TRUE, !.editing = TRUE]
                /\ \A r \in Row : r # n => rows'[r] = rows[r]
<1> DEFINE n == CHOOSE x \in Unused : TRUE
<1>1. n \in Unused /\ n \in Row
    BY DEF Create, Unused
<1>2. rows' = [rows EXCEPT ![n] =
         [NoRow EXCEPT !.page = p, !.listed = TRUE, !.editing = TRUE]]
    BY DEF Create
<1>3. /\ rows'[n] = [NoRow EXCEPT !.page = p, !.listed = TRUE, !.editing = TRUE]
      /\ \A r \in Row : r # n => rows'[r] = rows[r]
    BY <1>1, <1>2 DEF TypeOK
<1> HIDE DEF n
<1> QED BY <1>1, <1>3 DEF Create

LEMMA FormIs ==
    ASSUME TypeOK, NEW r \in Row
    PROVE  /\ \A d \in Data : Edit(r, d) =>
                /\ rows'[r] = [rows[r] EXCEPT !.editing = TRUE,
                                  !.record = [rows[r].record EXCEPT !.data = d]]
                /\ \A o \in Row : o # r => rows'[o] = rows[o]
           /\ Forget(r) =>
                /\ rows'[r] = [rows[r] EXCEPT !.listed = FALSE]
                /\ \A o \in Row : o # r => rows'[o] = rows[o]
           /\ \A q \in Request : Save(q, r) =>
                /\ rows'[r] = [rows[r] EXCEPT !.editing = FALSE]
                /\ \A o \in Row : o # r => rows'[o] = rows[o]
<1>1. ASSUME NEW d \in Data, Edit(r, d)
      PROVE  /\ rows'[r] = [rows[r] EXCEPT !.editing = TRUE,
                               !.record = [rows[r].record EXCEPT !.data = d]]
             /\ \A o \in Row : o # r => rows'[o] = rows[o]
    BY <1>1 DEF Edit, TypeOK
<1>2. ASSUME Forget(r)
      PROVE  /\ rows'[r] = [rows[r] EXCEPT !.listed = FALSE]
             /\ \A o \in Row : o # r => rows'[o] = rows[o]
    BY <1>2 DEF Forget, TypeOK
<1>3. ASSUME NEW q \in Request, Save(q, r)
      PROVE  /\ rows'[r] = [rows[r] EXCEPT !.editing = FALSE]
             /\ \A o \in Row : o # r => rows'[o] = rows[o]
    BY <1>3 DEF Save, TypeOK
<1> QED BY <1>1, <1>2, <1>3

(* The form's steps do not take a used row's page or id away, nor does an    *)
(* answer or a failure.                                                     *)
LEMMA RowsAgeAlways ==
    ASSUME TypeOK, RequestsFit, [Next]_vars
    PROVE  RowsAge
<1>0. ASSUME rows' = rows PROVE RowsAge
    BY <1>0 DEF RowsAge
<1>1. ASSUME NEW p \in Page, Create(p) PROVE RowsAge
    BY <1>1, CreateIs DEF Unused, RowsAge
<1>2. ASSUME NEW r \in Row, NEW d \in Data, Edit(r, d) PROVE RowsAge
  <2> DEFINE e == [rows[r].record EXCEPT !.data = d]
  <2>0. rows'[r] = [rows[r] EXCEPT !.editing = TRUE, !.record = e]
        BY <1>2, FormIs
  <2> HIDE DEF e
  <2>1. rows'[r].page = rows[r].page /\ rows'[r].id = rows[r].id
        BY <2>0, RowTypes DEF RowState
  <2> QED BY <1>2, <2>1, FormIs DEF RowsAge
<1>3. ASSUME NEW r \in Row, Forget(r) PROVE RowsAge
  <2>1. rows'[r].page = rows[r].page /\ rows'[r].id = rows[r].id
        BY <1>3, FormIs, RowTypes DEF RowState
  <2> QED BY <1>3, <2>1, FormIs DEF RowsAge
<1>4. ASSUME NEW r \in Row, NEW q \in Request, Save(q, r) PROVE RowsAge
  <2>1. rows'[r].page = rows[r].page /\ rows'[r].id = rows[r].id
        BY <1>4, FormIs, RowTypes DEF RowState
  <2> QED BY <1>4, <2>1, FormIs DEF RowsAge
<1>5. ASSUME NEW q \in Request, Answer(q) PROVE RowsAge
  <2>1. CASE request[q].op = "get"
        BY <1>5, <2>1, ShowListIs DEF Answer, RowsAge, RowKept, RowTaken
  <2>2. CASE request[q].op # "get"
    <3> DEFINE o == request[q].row
    <3>1. o \in Row /\ \A r \in Row : r # o => rows'[r] = rows[r]
          BY <1>5, <2>2, AnswerIs, Zenon
    <3>2. rows'[o].page = rows[o].page /\ (rows[o].id # 0 => rows'[o].id # 0)
      <4>1. CASE request[q].op = "post"
        <5>1. request[q].id # 0
              BY <1>5, <4>1 DEF Answer, RequestsFit, ChangeFits, UnderWay
        <5>2. rows'[o] = [rows[o] EXCEPT !.id = request[q].id, !.record = request[q].record]
              BY <1>5, <4>1, AnswerIs, Zenon
        <5>3. rows[o] \in RowState
              BY <3>1, RowTypes
        <5> HIDE DEF o
        <5> QED BY <5>1, <5>2, <5>3 DEF RowState
      <4>2. CASE request[q].op = "delete"
        <5>1. rows'[o] = [rows[o] EXCEPT !.listed = FALSE]
              BY <1>5, <4>2, AnswerIs, Zenon
        <5>2. rows[o] \in RowState
              BY <3>1, RowTypes
        <5> HIDE DEF o
        <5> QED BY <5>1, <5>2 DEF RowState
      <4>3. CASE request[q].op \notin {"post", "delete"}
            BY <1>5, <2>2, <4>3, AnswerIs, Zenon
      <4> QED BY <4>1, <4>2, <4>3
    <3> QED BY <3>1, <3>2 DEF RowsAge
  <2> QED BY <2>1, <2>2
<1>6. ASSUME NEW q \in Request, Fail(q) PROVE RowsAge
  <2> DEFINE o == request[q].row
  <2>1. CASE request[q].op \in Reopens
    <3>1. o \in Row /\ rows'[o] = [rows[o] EXCEPT !.editing = TRUE]
          BY <1>6, <2>1, FailIs, RecordAssumption
    <3>2. rows'[o].page = rows[o].page /\ rows'[o].id = rows[o].id
          BY <3>1, RowTypes DEF RowState
    <3> QED BY <1>6, <3>2, FailIs DEF RowsAge
  <2>2. CASE request[q].op \notin Reopens
        BY <1>0, <1>6, <2>2, FailIs
  <2> QED BY <2>1, <2>2
<1>7. ASSUME NEW q \in Request, Serve(q) PROVE rows' = rows
    BY <1>7 DEF Serve, Get, Post, Put, Remove, ChangePassword
<1>8. CASE UNCHANGED vars
    BY <1>0, <1>8 DEF vars
<1>9. ASSUME NEW p \in Page, NEW q \in Request, Fetch(q, p) PROVE RowsAge
    BY <1>0, <1>9 DEF Fetch
<1>10. ASSUME NEW r \in Row, NEW q \in Request, Delete(q, r) \/ UpdatePassword(q, r)
       PROVE  RowsAge
    BY <1>0, <1>10 DEF Delete, UpdatePassword
<1> QED BY <1>0, <1>1, <1>2, <1>3, <1>4, <1>5, <1>6, <1>7, <1>8, <1>9, <1>10 DEF Next

(* Requests and tables, step by step: a request that is sent fits, and the   *)
(* others do as they did.                                                   *)
LEMMA SendFits ==
    ASSUME TypeOK, RequestsFit, RowsAge, NEW q \in Request, NEW op, NEW p,
           NEW r \in Row \union {0}, Send(q, op, p, r), table' = table,
           op = "get" => r = 0 /\ p # "none",
           op # "get" => r # 0 /\ rows[r].page # "none"
                         /\ (op # "post" => rows[r].id # 0)
    PROVE  RequestsFit'
<1>1. ASSUME NEW x \in Request, x # q, UnderWay(x)'
      PROVE  /\ request'[x].op = "get" => ListFits(x)'
             /\ request'[x].op # "get" => ChangeFits(x)'
  <2>1. UnderWay(x) /\ request'[x] = request[x]
        BY <1>1, SendIs
  <2> QED BY <2>1, FitsStays
<1>2. request'[q].op = "get" => ListFits(q)'
    BY SendIs DEF ListFits
<1>3. request'[q].op # "get" => ChangeFits(q)'
  <2>1. ASSUME op # "get"
        PROVE  /\ r \in Row /\ request'[q].row = r /\ request'[q].id = rows[r].id
               /\ request'[q].pc = "sent"
        BY <2>1, SendIs
  <2>2. request'[q].op = op
        BY SendIs
  <2> QED BY <2>1, <2>2 DEF ChangeFits, RowsAge
<1> QED BY <1>1, <1>2, <1>3 DEF RequestsFit

(* What is answered or fails is no longer under way.                        *)
LEMMA DoneFits ==
    ASSUME TypeOK, RequestsFit, RowsAge, NEW q \in Request, Done(q), table' = table
    PROVE  RequestsFit'
<1>1. ASSUME NEW x \in Request, UnderWay(x)'
      PROVE  /\ request'[x].op = "get" => ListFits(x)'
             /\ request'[x].op # "get" => ChangeFits(x)'
  <2>1. UnderWay(x) /\ request'[x] = request[x]
        BY <1>1, DoneIs
  <2> QED BY <2>1, FitsStays
<1> QED BY <1>1 DEF RequestsFit

(* What is served has an id, when it was sent with one or is a POST.         *)
LEMMA ServedFits ==
    ASSUME TypeOK, RequestsFit, RowsAge, NEW q \in Request, UnderWay(q),
           request[q].op # "get", NEW id, id # 0, NEW answer, Served(q, id, answer)
    PROVE  RequestsFit'
<1>1. ASSUME NEW x \in Request, x # q, UnderWay(x)'
      PROVE  /\ request'[x].op = "get" => ListFits(x)'
             /\ request'[x].op # "get" => ChangeFits(x)'
  <2>1. /\ UnderWay(x)
        /\ request'[x].op = request[x].op /\ request'[x].row = request[x].row
        /\ request'[x].page = request[x].page
        /\ request'[x].pc = request[x].pc /\ request'[x].id = request[x].id
        /\ request[x].op = "get" /\ request[x].pc = "served" => request'[x].stale
        BY <1>1, ServedIs
  <2> QED BY <2>1, FitsStays
<1>2. ChangeFits(q)'
  <2>1. ChangeFits(q) /\ request[q].row \in Row
        BY RequestTypes DEF RequestsFit, ChangeFits
  <2>2. request'[q].op = request[q].op /\ request'[q].row = request[q].row
        /\ request'[q].id = id
        BY ServedIs
  <2> QED BY <2>1, <2>2 DEF ChangeFits, RowsAge
<1>3. request'[q].op # "get"
    BY ServedIs
<1> QED BY <1>1, <1>2, <1>3 DEF RequestsFit

(* Inserting a record serves a request with an id.                          *)
LEMMA InsertFits ==
    ASSUME TypeOK, RequestsFit, RowsAge, NEW q \in Request, UnderWay(q),
           request[q].op # "get", NEW told \in BOOLEAN, Insert(q, told),
           ~told => request[q].op # "post"
    PROVE  RequestsFit'
<1> DEFINE id == IF told THEN lastId + 1 ELSE request[q].id
<1>1. Served(q, id, <<>>)
    BY DEF Insert
<1>2. id # 0
  <2>1. CASE told
        BY <2>1, NumbersFromOne DEF TypeOK
  <2>2. CASE ~told
        BY <2>2 DEF RequestsFit, ChangeFits
  <2> QED BY <2>1, <2>2
<1> HIDE DEF id
<1> QED BY <1>1, <1>2, ServedFits

(* Every step leaves requests that fit.                                     *)
LEMMA NextRequestsFit ==
    ASSUME TypeOK, RequestsFit, ListedFit, [Next]_vars
    PROVE  RequestsFit'
<1>0. RowsAge
    BY RowsAgeAlways
<1>1. ASSUME request' = request, table' = table PROVE RequestsFit'
  <2>1. ASSUME NEW x \in Request, UnderWay(x)'
        PROVE  /\ request'[x].op = "get" => ListFits(x)'
               /\ request'[x].op # "get" => ChangeFits(x)'
        BY <1>0, <1>1, <2>1, FitsStays DEF UnderWay
  <2> QED BY <2>1 DEF RequestsFit
<1>2. ASSUME NEW p \in Page, Create(p) PROVE RequestsFit'
    BY <1>1, <1>2 DEF Create
<1>3. ASSUME NEW r \in Row, NEW d \in Data, Edit(r, d) PROVE RequestsFit'
    BY <1>1, <1>3 DEF Edit
<1>4. ASSUME NEW r \in Row, Forget(r) PROVE RequestsFit'
    BY <1>1, <1>4 DEF Forget
<1>5. ASSUME NEW p \in Page, NEW q \in Request, Fetch(q, p) PROVE RequestsFit'
  <2>1. Send(q, "get", p, 0) /\ table' = table
        BY <1>5 DEF Fetch
  <2>2. p # "none"
        BY RecordAssumption
  <2> QED BY <1>0, <2>1, <2>2, SendFits
<1>6. ASSUME NEW r \in Row, NEW q \in Request, Save(q, r) PROVE RequestsFit'
  <2> DEFINE op == IF rows[r].id = 0 THEN "post" ELSE "put"
  <2>1. Send(q, op, rows[r].page, r) /\ table' = table /\ rows[r].listed
        BY <1>6 DEF Save
  <2>2. rows[r].page # "none" /\ op # "get" /\ (op # "post" => rows[r].id # 0) /\ r # 0
        BY <2>1, NumbersFromOne DEF ListedFit
  <2> HIDE DEF op
  <2> QED BY <1>0, <2>1, <2>2, SendFits
<1>7. ASSUME NEW r \in Row, NEW q \in Request, Delete(q, r) PROVE RequestsFit'
  <2>1. Send(q, "delete", rows[r].page, r) /\ table' = table /\ rows[r].listed
        BY <1>7 DEF Delete
  <2>2. rows[r].page # "none" /\ rows[r].id # 0 /\ r # 0
        BY <1>7, <2>1, NumbersFromOne DEF ListedFit, Delete
  <2> QED BY <1>0, <2>1, <2>2, SendFits
<1>8. ASSUME NEW r \in Row, NEW q \in Request, UpdatePassword(q, r) PROVE RequestsFit'
  <2>1. Send(q, "password", rows[r].page, r) /\ table' = table /\ rows[r].listed
        BY <1>8 DEF UpdatePassword
  <2>2. rows[r].page # "none" /\ rows[r].id # 0 /\ r # 0
        BY <1>8, <2>1, NumbersFromOne DEF ListedFit, UpdatePassword
  <2> QED BY <1>0, <2>1, <2>2, SendFits
<1>9. ASSUME NEW q \in Request, Answer(q) \/ Fail(q) PROVE RequestsFit'
  <2>1. Done(q) /\ table' = table
        BY <1>9 DEF Answer, Fail
  <2> QED BY <1>0, <2>1, DoneFits
<1>10. ASSUME NEW q \in Request, Get(q) PROVE RequestsFit'
  <2>1. table' = table
        BY <1>10 DEF Get
  <2>2. ASSUME NEW x \in Request, x # q, UnderWay(x)'
        PROVE  /\ request'[x].op = "get" => ListFits(x)'
               /\ request'[x].op # "get" => ChangeFits(x)'
    <3>1. UnderWay(x) /\ request'[x] = request[x]
          BY <1>10, <2>2, GetIs
    <3> QED BY <1>0, <2>1, <3>1, FitsStays
  <2>3. request'[q].op = "get" /\ ListFits(q)'
    <3>1. ListFits(q)
          BY <1>10, GetIs DEF RequestsFit
    <3> QED BY <1>10, <2>1, <3>1, GetIs DEF ListFits
  <2> QED BY <2>2, <2>3 DEF RequestsFit
<1>11. ASSUME NEW q \in Request, Post(q) PROVE RequestsFit'
  <2>1. Insert(q, TRUE) /\ UnderWay(q) /\ request[q].op # "get"
        BY <1>11 DEF Post, Handling, UnderWay
  <2> QED BY <1>0, <2>1, InsertFits
<1>12. ASSUME NEW q \in Request, Put(q) PROVE RequestsFit'
  <2>1. UnderWay(q) /\ request[q].op = "put"
        BY <1>12 DEF Put, Handling, UnderWay
  <2>2. CASE request[q].id \in DOMAIN table
    <3>1. Served(q, request[q].id, <<>>)
          BY <1>12, <2>2 DEF Put
    <3>2. request[q].id # 0
          BY <2>1 DEF RequestsFit, ChangeFits
    <3> QED BY <1>0, <2>1, <3>1, <3>2, ServedFits
  <2>3. CASE request[q].id \notin DOMAIN table
    <3>1. Insert(q, FALSE)
          BY <1>12, <2>3 DEF Put
    <3> QED BY <1>0, <2>1, <3>1, InsertFits
  <2> QED BY <2>2, <2>3
<1>13. ASSUME NEW q \in Request, Remove(q) \/ ChangePassword(q) PROVE RequestsFit'
  <2>1. UnderWay(q) /\ request[q].op \in {"delete", "password"}
        BY <1>13 DEF Remove, ChangePassword, Handling, UnderWay
  <2>2. Served(q, request[q].id, <<>>)
        BY <1>13 DEF Remove, ChangePassword
  <2>3. request[q].id # 0
        BY <2>1 DEF RequestsFit, ChangeFits
  <2> QED BY <1>0, <2>1, <2>2, <2>3, ServedFits
<1>14. CASE UNCHANGED vars
    BY <1>1, <1>14 DEF vars
<1> QED BY <1>2, <1>3, <1>4, <1>5, <1>6, <1>7, <1>8, <1>9, <1>10, <1>11, <1>12, <1>13, <1>14
        DEF Next, Serve

(* The records' ids are handed out in order, and a row that inserted one is   *)
(* used.                                                                    *)
LEMMA InsertIds ==
    ASSUME TypeOK, RequestsFit, RowsAge, IdsFit, NEW q \in Request, UnderWay(q),
           request[q].op # "get", NEW told \in BOOLEAN, Insert(q, told)
    PROVE  IdsFit'
<1>1. lastId \in Nat /\ DOMAIN table \subseteq Nat
    BY NumbersFromOne, TableIs DEF TypeOK
<1>2. \A i \in DOMAIN table' : i <= lastId'
    BY <1>1 DEF Insert, IdsFit
<1>3. request[q].row \in Row /\ rows[request[q].row].page # "none"
    BY RequestTypes DEF RequestsFit, ChangeFits
<1>4. ASSUME NEW i \in Id, creator'[i] # 0 PROVE rows'[creator'[i]].page # "none"
  <2>1. CASE i = lastId + 1
    <3>1. creator'[i] = request[q].row
          BY <2>1 DEF Insert, TypeOK
    <3> QED BY <1>3, <3>1 DEF RowsAge
  <2>2. CASE i # lastId + 1
    <3>1. creator'[i] = creator[i] /\ creator[i] \in Row
          BY <1>4, <2>2 DEF Insert, TypeOK
    <3> QED BY <1>4, <3>1 DEF IdsFit, RowsAge
  <2> QED BY <2>1, <2>2
<1> QED BY <1>2, <1>4 DEF IdsFit

LEMMA NextIdsFit ==
    ASSUME TypeOK, RequestsFit, IdsFit, [Next]_vars
    PROVE  IdsFit'
<1>0. RowsAge
    BY RowsAgeAlways
<1>1. ASSUME DOMAIN table' \subseteq DOMAIN table, lastId' = lastId, creator' = creator
      PROVE  IdsFit'
  <2>1. ASSUME NEW i \in Id, creator[i] # 0 PROVE rows'[creator[i]].page # "none"
    <3>1. creator[i] \in Row
          BY <2>1 DEF TypeOK
    <3> QED BY <1>0, <2>1, <3>1 DEF IdsFit, RowsAge
  <2> QED BY <1>1, <2>1 DEF IdsFit
<1>2. ASSUME NEW p \in Page, Create(p) PROVE IdsFit'
    BY <1>1, <1>2 DEF Create, history
<1>3. ASSUME NEW r \in Row, NEW d \in Data, Edit(r, d) PROVE IdsFit'
    BY <1>1, <1>3 DEF Edit, history
<1>4. ASSUME NEW r \in Row, Forget(r) PROVE IdsFit'
    BY <1>1, <1>4 DEF Forget, history
<1>5. ASSUME NEW p \in Page, NEW q \in Request, Fetch(q, p) PROVE IdsFit'
    BY <1>1, <1>5 DEF Fetch
<1>6. ASSUME NEW r \in Row, NEW q \in Request,
             Save(q, r) \/ Delete(q, r) \/ UpdatePassword(q, r)
      PROVE  IdsFit'
    BY <1>1, <1>6 DEF Save, Delete, UpdatePassword
<1>7. ASSUME NEW q \in Request, Answer(q) \/ Fail(q) PROVE IdsFit'
    BY <1>1, <1>7 DEF Answer, Fail
<1>8. ASSUME NEW q \in Request, Get(q) PROVE IdsFit'
    BY <1>1, <1>8 DEF Get, history
<1>9. ASSUME NEW q \in Request, Post(q) PROVE IdsFit'
  <2>1. Insert(q, TRUE) /\ UnderWay(q) /\ request[q].op # "get"
        BY <1>9 DEF Post, Handling, UnderWay
  <2> QED BY <1>0, <2>1, InsertIds
<1>10. ASSUME NEW q \in Request, Put(q) PROVE IdsFit'
  <2>1. UnderWay(q) /\ request[q].op # "get"
        BY <1>10 DEF Put, Handling, UnderWay
  <2>2. CASE request[q].id \in DOMAIN table
    <3>1. /\ table' = [table EXCEPT ![request[q].id] = request[q].record]
          /\ lastId' = lastId /\ creator' = creator
          BY <1>10, <2>2 DEF Put
    <3> QED BY <1>1, <3>1
  <2>3. CASE request[q].id \notin DOMAIN table
    <3>1. Insert(q, FALSE)
          BY <1>10, <2>3 DEF Put
    <3> QED BY <1>0, <2>1, <3>1, InsertIds
  <2> QED BY <2>2, <2>3
<1>11. ASSUME NEW q \in Request, Remove(q) PROVE IdsFit'
    BY <1>1, <1>11 DEF Remove
<1>12. ASSUME NEW q \in Request, ChangePassword(q) PROVE IdsFit'
    BY <1>1, <1>12 DEF ChangePassword
<1>13. CASE UNCHANGED vars
    BY <1>1, <1>13 DEF vars, history
<1> QED BY <1>2, <1>3, <1>4, <1>5, <1>6, <1>7, <1>8, <1>9, <1>10, <1>11, <1>12, <1>13
        DEF Next, Serve

(* A row that has nothing to be shown but a request keeps it while only       *)
(* requests of others end.                                                  *)
RowFits(r) ==
    /\ rows[r].listed => rows[r].page # "none"
    /\ rows[r].listed /\ ~rows[r].editing /\ rows[r].id = 0 => Busy(r)

LEMMA RowFitsStays ==
    ASSUME RowsFit, NEW r \in Row, Busy(r) => Busy(r)',
           \/ rows'[r] = rows[r]
           \/ RowKept(r)
           \/ rows'[r].page = rows[r].page /\ rows[r].listed /\ rows'[r].editing
    PROVE  RowFits(r)'
BY DEF RowsFit, ListedFit, WaitingFit, RowFits, RowKept

(* The requests of a row that are under way stay so, but for one that ends.  *)
LEMMA BusyStays ==
    ASSUME TypeOK
    PROVE  /\ \A q \in Request, op \in AllOperations, p \in Page \union {"none"} :
                \A o \in Row \union {0}, r \in Row :
                    Send(q, op, p, o) => (Busy(r) => Busy(r)')
           /\ \A q \in Request, r \in Row :
                Done(q) /\ request[q].row # r => (Busy(r) => Busy(r)')
           /\ \A q \in Request, r \in Row : Serve(q) => (Busy(r) => Busy(r)')
<1>1. ASSUME NEW q \in Request, NEW op, NEW p, NEW o, NEW r \in Row,
             Send(q, op, p, o), Busy(r)
      PROVE  Busy(r)'
  <2>1. PICK x \in Request : UnderWay(x) /\ request[x].row = r
        BY <1>1 DEF Busy
  <2>2. UnderWay(x)' /\ request'[x].row = r
        BY <1>1, <2>1, SendIs
  <2> QED BY <2>2 DEF Busy
<1>2. ASSUME NEW q \in Request, NEW r \in Row, Done(q), request[q].row # r, Busy(r)
      PROVE  Busy(r)'
  <2>1. PICK x \in Request : UnderWay(x) /\ request[x].row = r
        BY <1>2 DEF Busy
  <2>2. UnderWay(x)' /\ request'[x].row = r
        BY <1>2, <2>1, DoneIs
  <2> QED BY <2>2 DEF Busy
<1>3. ASSUME NEW q \in Request, NEW r \in Row, Serve(q), Busy(r)
      PROVE  Busy(r)'
  <2>1. PICK x \in Request : UnderWay(x) /\ request[x].row = r
        BY <1>3 DEF Busy
  <2>2. UnderWay(x)' /\ request'[x].row = r
    <3>1. CASE Get(q)
          BY <2>1, <3>1, GetIs
    <3>2. CASE Post(q) \/ Put(q) \/ Remove(q) \/ ChangePassword(q)
      <4>1. UnderWay(q) /\ \E id, answer : Served(q, id, answer)
            BY <3>2 DEF Post, Put, Remove, ChangePassword, Insert, Handling, UnderWay
      <4> QED BY <2>1, <4>1, ServedIs
    <3> QED BY <1>3, <3>1, <3>2 DEF Serve
  <2> QED BY <2>2 DEF Busy
<1> QED BY <1>1, <1>2, <1>3

(* Every row fits after every step, when the failures of a POST and of a PUT *)
(* open the form again.                                                     *)
LEMMA NextRowsFit ==
    ASSUME {"post", "put"} \subseteq Reopens, TypeOK, RequestsFit, RowsFit, [Next]_vars
    PROVE  RowsFit'
<1>0. ASSUME \A r \in Row : RowFits(r)' PROVE RowsFit'
    BY <1>0 DEF RowsFit, ListedFit, WaitingFit, RowFits
<1>1. ASSUME NEW p \in Page, Create(p) PROVE RowsFit'
  <2>1. request' = request
        BY <1>1 DEF Create
  <2>2. PICK n \in Unused :
             /\ rows'[n] = [NoRow EXCEPT !.page = p, !.listed = TRUE, !.editing = TRUE]
             /\ \A r \in Row : r # n => rows'[r] = rows[r]
        BY <1>1, CreateIs
  <2>3. \A r \in Row : Busy(r) => Busy(r)'
        BY <2>1 DEF Busy, UnderWay
  <2>4. RowFits(n)'
    <3>1. rows'[n].page = p /\ rows'[n].editing
          BY <2>2 DEF NoRow
    <3> QED BY <3>1, RecordAssumption DEF RowFits
  <2>5. ASSUME NEW r \in Row, r # n PROVE RowFits(r)'
        BY <2>2, <2>3, <2>5, RowFitsStays
  <2> QED BY <1>0, <2>4, <2>5
<1>2. ASSUME NEW r \in Row, NEW d \in Data, Edit(r, d) PROVE RowsFit'
  <2> DEFINE e == [rows[r].record EXCEPT !.data = d]
  <2>1. rows'[r] = [rows[r] EXCEPT !.editing = TRUE, !.record = e]
        /\ \A o \in Row : o # r => rows'[o] = rows[o]
        BY <1>2, FormIs
  <2> HIDE DEF e
  <2>2. rows'[r].page = rows[r].page /\ rows'[r].editing
        BY <2>1, RowTypes DEF RowState
  <2>3. rows[r].listed
        BY <1>2 DEF Edit
  <2>4. \A o \in Row : Busy(o) => Busy(o)'
        BY <1>2 DEF Edit, Busy, UnderWay
  <2> QED BY <1>0, <2>1, <2>2, <2>3, <2>4, RowFitsStays
<1>3. ASSUME NEW r \in Row, Forget(r) PROVE RowsFit'
  <2>1. rows'[r] = [rows[r] EXCEPT !.listed = FALSE]
        /\ \A o \in Row : o # r => rows'[o] = rows[o]
        BY <1>3, FormIs
  <2>2. RowKept(r)
        BY <2>1, RowTypes DEF RowState, RowKept
  <2>3. \A o \in Row : Busy(o) => Busy(o)'
        BY <1>3 DEF Forget, Busy, UnderWay
  <2> QED BY <1>0, <2>1, <2>2, <2>3, RowFitsStays
<1>4. ASSUME NEW r \in Row, NEW q \in Request, Save(q, r) PROVE RowsFit'
  <2> DEFINE op == IF rows[r].id = 0 THEN "post" ELSE "put"
  <2>1. rows'[r] = [rows[r] EXCEPT !.editing = FALSE]
        /\ \A o \in Row : o # r => rows'[o] = rows[o]
        BY <1>4, FormIs
  <2>2. Send(q, op, rows[r].page, r) /\ op \in AllOperations /\ rows[r].page \in Page \union {"none"}
        BY <1>4, RowTypes DEF Save, AllOperations
  <2>3. \A o \in Row : Busy(o) => Busy(o)'
        BY <2>2, BusyStays
  <2>4. RowFits(r)'
    <3>1. Busy(r)'
      <4>1. UnderWay(q)' /\ request'[q].row = r
            BY <2>2, SendIs
      <4> QED BY <4>1 DEF Busy
    <3>2. rows'[r].page = rows[r].page /\ rows'[r].listed = rows[r].listed
          BY <2>1, RowTypes DEF RowState
    <3> QED BY <3>1, <3>2 DEF RowFits, RowsFit, ListedFit, WaitingFit
  <2> QED BY <1>0, <2>1, <2>3, <2>4, RowFitsStays
<1>5. ASSUME NEW q \in Request, NEW op \in AllOperations, NEW p \in Page \union {"none"},
             NEW r \in Row \union {0}, Send(q, op, p, r), rows' = rows
      PROVE  RowsFit'
    BY <1>0, <1>5, BusyStays, RowFitsStays
<1>6. ASSUME NEW p \in Page, NEW q \in Request, Fetch(q, p) PROVE RowsFit'
    BY <1>5, <1>6 DEF Fetch, AllOperations
<1>7. ASSUME NEW r \in Row, NEW q \in Request, Delete(q, r) PROVE RowsFit'
    BY <1>5, <1>7, RowTypes DEF Delete, AllOperations
<1>8. ASSUME NEW r \in Row, NEW q \in Request, UpdatePassword(q, r) PROVE RowsFit'
    BY <1>5, <1>8, RowTypes DEF UpdatePassword, AllOperations
<1>9. ASSUME NEW q \in Request, Serve(q) PROVE RowsFit'
  <2>1. rows' = rows
        BY <1>9 DEF Serve, Get, Post, Put, Remove, ChangePassword
  <2> QED BY <1>0, <1>9, <2>1, BusyStays, RowFitsStays
<1>10. ASSUME NEW q \in Request, Answer(q) PROVE RowsFit'
  <2>0. Done(q) /\ UnderWay(q)
        BY <1>10 DEF Answer, UnderWay
  <2>1. CASE request[q].op = "get"
    <3>1. ShowList(q) /\ request[q].row = 0 /\ request[q].page # "none"
          BY <1>10, <2>0, <2>1 DEF Answer, RequestsFit, ListFits
    <3>2. ASSUME NEW r \in Row PROVE RowFits(r)'
      <4>1. CASE RowKept(r)
            BY <2>0, <3>1, <4>1, BusyStays, RowFitsStays, NumbersFromOne
      <4>2. CASE RowTaken(q, r)
        <5>1. rows'[r].id # 0
              BY <4>2, RequestTypes, TableIs, NumbersFromOne DEF RowTaken
        <5> QED BY <3>1, <4>2, <5>1 DEF RowTaken, RowFits
      <4> QED BY <3>1, <4>1, <4>2, ShowListIs
    <3> QED BY <1>0, <3>2
  <2>2. CASE request[q].op # "get"
    <3>1. PICK o \in Row :
             o = request[q].row /\ \A r \in Row : r # o => rows'[r] = rows[r]
          BY <1>10, <2>2, AnswerIs, Zenon
    <3>2. ASSUME NEW r \in Row, r # o PROVE RowFits(r)'
          BY <2>0, <3>1, <3>2, BusyStays, RowFitsStays
    <3>3. RowFits(o)'
      <4>1. rows[o].page # "none" /\ (request[q].op # "post" => rows[o].id # 0)
            /\ (request[q].op = "post" => request[q].id # 0)
            BY <1>10, <2>0, <2>2, <3>1 DEF Answer, RequestsFit, ChangeFits
      <4>2. rows'[o].page = rows[o].page /\ rows'[o].id # 0
        <5>1. CASE request[q].op = "post"
          <6>1. rows'[o] = [rows[o] EXCEPT !.id = request[q].id, !.record = request[q].record]
                BY <1>10, <3>1, <5>1, AnswerIs, Zenon
          <6> QED BY <3>1, <4>1, <5>1, <6>1, RowTypes DEF RowState
        <5>2. CASE request[q].op = "delete"
          <6>1. rows'[o] = [rows[o] EXCEPT !.listed = FALSE]
                BY <1>10, <3>1, <5>2, AnswerIs, Zenon
          <6> QED BY <3>1, <4>1, <5>2, <6>1, RowTypes DEF RowState
        <5>3. CASE request[q].op \notin {"post", "delete"}
              BY <1>10, <2>2, <4>1, <5>3, AnswerIs, Zenon
        <5> QED BY <5>1, <5>2, <5>3
      <4> QED BY <4>1, <4>2 DEF RowFits
    <3> QED BY <1>0, <3>2, <3>3
  <2> QED BY <2>1, <2>2
<1>11. ASSUME NEW q \in Request, Fail(q) PROVE RowsFit'
  <2>0. /\ Done(q) /\ UnderWay(q)
        /\ \A r \in Row : r # request[q].row => rows'[r] = rows[r]
        BY <1>11, FailIs
  <2>1. ASSUME NEW r \in Row, r # request[q].row PROVE RowFits(r)'
        BY <2>0, <2>1, BusyStays, RowFitsStays
  <2>2. ASSUME NEW o \in Row, o = request[q].row PROVE RowFits(o)'
    <3>1. request[q].op # "get"
          BY <2>0, <2>2, NumbersFromOne DEF RequestsFit, ListFits
    <3>2. rows[o].page # "none" /\ (request[q].op # "post" => rows[o].id # 0)
          BY <2>0, <2>2, <3>1 DEF RequestsFit, ChangeFits
    <3>3. CASE request[q].op \in Reopens
      <4>1. rows'[o] = [rows[o] EXCEPT !.editing = TRUE]
            BY <1>11, <2>2, <3>3, FailIs
      <4>2. rows'[o].page = rows[o].page /\ rows'[o].editing
            BY <2>2, <4>1, RowTypes DEF RowState
      <4> QED BY <3>2, <4>2 DEF RowFits
    <3>4. CASE request[q].op \notin Reopens
      <4>1. rows'[o] = rows[o] /\ rows[o].id # 0
            BY <1>11, <3>2, <3>4, FailIs
      <4> QED BY <3>2, <4>1 DEF RowFits
    <3> QED BY <3>3, <3>4
  <2> QED BY <1>0, <2>1, <2>2
<1>12. CASE UNCHANGED vars
    BY <1>12 DEF vars, RowsFit, ListedFit, WaitingFit, Busy, UnderWay
<1> QED BY <1>1, <1>2, <1>3, <1>4, <1>6, <1>7, <1>8, <1>9, <1>10, <1>11, <1>12 DEF Next

-----------------------------------------------------------------------------
(* Rows that are neither disturbed nor retried *)

(* A step that another row takes: this one's form shows no more than it did,  *)
(* its requests are what they were, the records that it and they name are    *)
(* what they were, and it inserts nothing.                                  *)
RowAlone(r) ==
    /\ rows'[r].id = rows[r].id
    /\ rows'[r].listed /\ ~rows'[r].editing =>
          rows[r].listed /\ ~rows[r].editing /\ rows'[r].record = rows[r].record
    /\ rows'[r].listed => rows[r].listed

RequestsAlone(r) ==
    \A x \in Request :
        /\ Asks(x, r)' <=> Asks(x, r)
        /\ Asks(x, r) =>
             /\ request'[x].op = request[x].op /\ request'[x].pc = request[x].pc
             /\ request'[x].id = request[x].id /\ request'[x].record = request[x].record

Names(r, i) == i = rows[r].id \/ \E x \in Request : Asks(x, r) /\ request[x].id = i

RecordsAlone(r) ==
    /\ \A i \in DOMAIN table :
          Names(r, i) => i \in DOMAIN table' /\ table'[i].data = table[i].data
    /\ \A i \in DOMAIN table' : creator'[i] = r => i \in DOMAIN table /\ creator[i] = r

(* Such a step leaves a clean row clean.                                    *)
LEMMA AloneStaysClean ==
    ASSUME NEW r \in Row, CleanRow(r), RowAlone(r), RequestsAlone(r), RecordsAlone(r)
    PROVE  CleanRow(r)'
<1>1. OneRequest(r)'
    BY DEF CleanRow, OneRequest, RequestsAlone
<1>2. Busy(r)' <=> Busy(r)
    BY DEF Busy, RequestsAlone, Asks
<1>3. Names(r, rows[r].id)
    BY DEF Names
<1>4. Shows(r) => Shows(r)'
    BY <1>3 DEF Shows, RowAlone, RecordsAlone
<1>5. ASSUME NEW x \in Request, Asks(x, r)' PROVE RequestFits(x, r)'
  <2>1. Asks(x, r) /\ RequestFits(x, r) /\ Names(r, request[x].id)
        BY <1>5 DEF RequestsAlone, CleanRow, Names
  <2>2. request'[x].op = request[x].op /\ request'[x].pc = request[x].pc
        /\ request'[x].id = request[x].id /\ request'[x].record = request[x].record
        BY <2>1 DEF RequestsAlone
  <2>3. PostFits(x, r) => PostFits(x, r)'
        BY <2>1, <2>2 DEF PostFits, RowAlone, RecordsAlone
  <2>4. PutFits(x, r) => PutFits(x, r)'
        BY <1>3, <2>2 DEF PutFits, RowAlone, RecordsAlone
  <2>5. rows'[r].id = rows[r].id
        BY DEF RowAlone
  <2> QED BY <1>4, <2>1, <2>2, <2>3, <2>4, <2>5 DEF RequestFits
<1>6. rows'[r].listed /\ rows'[r].id # 0 /\ ~Busy(r)' => Shows(r)'
    BY <1>2, <1>4 DEF CleanRow, RowAlone
<1>7. RowInserts(r)'
  <2>1. ASSUME NEW i \in DOMAIN table', creator'[i] = r
        PROVE  \/ rows'[r].id # 0 /\ i = rows'[r].id
               \/ \E q \in Request :
                     /\ Asks(q, r)' /\ request'[q].op = "post" /\ request'[q].pc = "served"
                     /\ request'[q].id = i
    <3>1. i \in DOMAIN table /\ creator[i] = r
          BY <2>1 DEF RecordsAlone
    <3>2. CASE rows[r].id # 0 /\ i = rows[r].id
          BY <3>2 DEF RowAlone
    <3>3. CASE \E q \in Request :
                  /\ Asks(q, r) /\ request[q].op = "post" /\ request[q].pc = "served"
                  /\ request[q].id = i
          BY <3>3 DEF RequestsAlone
    <3> QED BY <3>1, <3>2, <3>3 DEF CleanRow, RowInserts
  <2> QED BY <2>1 DEF RowInserts
<1> QED BY <1>1, <1>5, <1>6, <1>7 DEF CleanRow

(* What the kinds of steps leave alone.                                     *)
LEMMA RowsLeft ==
    ASSUME NEW r \in Row, rows'[r] = rows[r] \/ RowKept(r)
    PROVE  RowAlone(r)
BY DEF RowAlone, RowKept

LEMMA SendLeaves ==
    ASSUME TypeOK, NEW q \in Request, NEW op, NEW p, NEW o, Send(q, op, p, o),
           NEW r \in Row, r # o
    PROVE  RequestsAlone(r)
<1>1. ASSUME NEW x \in Request, x # q PROVE request'[x] = request[x]
    BY <1>1, SendIs
<1>2. ~Asks(q, r) /\ ~Asks(q, r)'
    BY SendIs DEF Asks
<1> QED BY <1>1, <1>2 DEF RequestsAlone, Asks, UnderWay

LEMMA DoneLeaves ==
    ASSUME TypeOK, NEW q \in Request, Done(q), NEW r \in Row, r # request[q].row
    PROVE  RequestsAlone(r)
<1>1. ASSUME NEW x \in Request, x # q PROVE request'[x] = request[x]
    BY <1>1, DoneIs
<1>2. ~Asks(q, r) /\ ~Asks(q, r)'
    BY DoneIs DEF Asks
<1> QED BY <1>1, <1>2 DEF RequestsAlone, Asks, UnderWay

LEMMA ServedLeaves ==
    ASSUME TypeOK, NEW q \in Request, UnderWay(q), NEW id, NEW answer,
           Served(q, id, answer), NEW r \in Row, r # request[q].row
    PROVE  RequestsAlone(r)
<1>1. ~Asks(q, r) /\ ~Asks(q, r)'
    BY ServedIs DEF Asks
<1>2. ASSUME NEW x \in Request, x # q
      PROVE  /\ Asks(x, r)' <=> Asks(x, r)
             /\ request'[x].op = request[x].op /\ request'[x].pc = request[x].pc
             /\ request'[x].id = request[x].id /\ request'[x].record = request[x].record
    BY <1>2, ServedIs DEF Asks
<1> QED BY <1>1, <1>2 DEF RequestsAlone

LEMMA GetLeaves ==
    ASSUME TypeOK, RequestsFit, NEW q \in Request, Get(q), NEW r \in Row
    PROVE  RequestsAlone(r)
<1>1. request[q].row = 0
    BY GetIs DEF RequestsFit, ListFits
<1>2. ~Asks(q, r) /\ ~Asks(q, r)'
    BY <1>1, GetIs, NumbersFromOne DEF Asks
<1>3. ASSUME NEW x \in Request, x # q PROVE request'[x] = request[x]
    BY <1>3, GetIs
<1> QED BY <1>2, <1>3 DEF RequestsAlone, Asks, UnderWay

(* A write of another row's: either this row is disturbed by it, or it and    *)
(* its requests name other records.                                         *)
LEMMA OutdateSpares ==
    ASSUME NEW q \in Request, NEW i, Outdate(q, i), NEW r \in Row,
           r # request[q].row, r \notin disturbed'
    PROVE  ~Names(r, i)
BY DEF Outdate, Names, Asks

(* The record that another row inserts is new.                              *)
LEMMA InsertLeaves ==
    ASSUME TypeOK, IdsFit, NEW q \in Request, NEW told, Insert(q, told),
           NEW r \in Row, r # request[q].row
    PROVE  RecordsAlone(r)
<1>1. lastId \in Nat /\ DOMAIN table \subseteq Nat /\ DOMAIN table \subseteq Id
    BY NumbersFromOne, TableIs DEF TypeOK
<1>2. lastId + 1 \notin DOMAIN table
    BY <1>1 DEF IdsFit
<1>3. table' = [i \in DOMAIN table \union {lastId + 1} |->
                    IF i = lastId + 1 THEN request[q].record ELSE table[i]]
      /\ creator' = [creator EXCEPT ![lastId + 1] = request[q].row]
    BY DEF Insert
<1>4. lastId + 1 \in Id
    BY <1>1, RecordAssumption DEF Insert, Id
<1>5. creator'[lastId + 1] = request[q].row
    BY <1>3, <1>4 DEF TypeOK
<1>6. \A i \in DOMAIN table : creator'[i] = creator[i]
    BY <1>1, <1>2, <1>3 DEF TypeOK
<1> QED BY <1>1, <1>2, <1>3, <1>5, <1>6 DEF RecordsAlone

(* A row that nothing is asked of and that inserted nothing is clean if it    *)
(* has no record, or shows the one it has.                                  *)
LEMMA FreshIsClean ==
    ASSUME NEW r \in Row, \A x \in Request : ~Asks(x, r)',
           \A i \in DOMAIN table' : creator'[i] # r,
           rows'[r].id = 0 \/ Shows(r)'
    PROVE  CleanRow(r)'
BY DEF CleanRow, OneRequest, RowInserts

LEMMA UnusedIsFresh ==
    ASSUME TypeOK, RequestsFit, IdsFit, NEW r \in Row, rows[r].page = "none"
    PROVE  /\ \A x \in Request : ~Asks(x, r)
           /\ \A i \in DOMAIN table : creator[i] # r
<1>1. ASSUME NEW x \in Request, Asks(x, r) PROVE FALSE
  <2>1. UnderWay(x) /\ request[x].row = r /\ r # 0
        BY <1>1, NumbersFromOne DEF Asks
  <2> QED BY <2>1 DEF RequestsFit, ListFits, ChangeFits
<1>2. ASSUME NEW i \in DOMAIN table, creator[i] = r PROVE FALSE
  <2>1. i \in Id /\ r # 0
        BY TableIs, NumbersFromOne DEF TypeOK
  <2> QED BY <1>2, <2>1 DEF IdsFit
<1> QED BY <1>1, <1>2

(* A request of a row that has none under way.                              *)
LEMMA SendKeepsClean ==
    ASSUME TypeOK, NEW q \in Request, NEW r \in Row, NEW op \in AllOperations, NEW p,
           Send(q, op, p, r), CleanRow(r), r \notin disturbed',
           UNCHANGED <<table, creator>>,
           rows'[r].id = rows[r].id, rows'[r].record = rows[r].record,
           rows[r].listed, op # "get", op = "post" <=> rows[r].id = 0,
           op # "put" => rows'[r].editing = rows[r].editing \/ rows[r].id = 0
    PROVE  CleanRow(r)'
<1>1. r # 0 /\ ~Busy(r)
    BY SendIs, NumbersFromOne
<1>2. \A x \in Request : Asks(x, r)' <=> x = q
    BY <1>1, SendIs DEF Asks, Busy
<1>3. /\ request'[q].op = op /\ request'[q].pc = "sent"
      /\ request'[q].id = rows[r].id /\ request'[q].record = rows[r].record
    BY <1>1, SendIs
<1>4. rows[r].id # 0 => Shows(r)
    BY <1>1 DEF CleanRow
<1>5. OneRequest(r)'
    BY <1>2 DEF OneRequest
<1>6. RequestFits(q, r)'
  <2>1. CASE op = "post"
        BY <1>3, <2>1 DEF RequestFits, PostFits
  <2>2. CASE op = "put"
        BY <1>3, <1>4, <2>2 DEF RequestFits, PutFits, Shows
  <2>3. CASE op \in {"delete", "password"}
    <3>1. Shows(r)'
          BY <1>4, <2>3 DEF Shows
    <3> QED BY <1>3, <2>3, <3>1 DEF RequestFits
  <2> QED BY <2>1, <2>2, <2>3 DEF AllOperations
<1>7. Busy(r)'
    BY <1>2 DEF Busy, Asks
<1>8. RowInserts(r)'
    BY <1>1 DEF CleanRow, RowInserts, Asks, Busy
<1> QED BY <1>2, <1>5, <1>6, <1>7, <1>8 DEF CleanRow

(* The records that a row inserted, when one of its requests is not a POST   *)
(* that was served.                                                         *)
LEMMA InsertsItsOwn ==
    ASSUME NEW r \in Row, CleanRow(r), NEW q \in Request, Asks(q, r),
           request[q].op # "post" \/ request[q].pc # "served",
           NEW i \in DOMAIN table, creator[i] = r
    PROVE  rows[r].id # 0 /\ i = rows[r].id
BY DEF CleanRow, RowInserts, OneRequest

(* The answer to the only request of a row.                                 *)
LEMMA AnswerKeepsClean ==
    ASSUME TypeOK, RequestsFit, NEW q \in Request, Answer(q), request[q].op # "get",
           NEW r \in Row, r = request[q].row, CleanRow(r)
    PROVE  CleanRow(r)'
<1>1. Done(q) /\ Asks(q, r) /\ UNCHANGED <<table, creator>> /\ request[q].pc = "served"
    BY DEF Answer, Asks, UnderWay
<1>2. \A x \in Request : ~Asks(x, r)'
    BY <1>1, DoneIs DEF CleanRow, OneRequest, Asks
<1>3. RequestFits(q, r)
    BY <1>1 DEF CleanRow
<1>4. CASE request[q].op = "post"
  <2>1. rows'[r] = [rows[r] EXCEPT !.id = request[q].id, !.record = request[q].record]
        BY <1>4, AnswerIs, Zenon
  <2>2. rows'[r].id = request[q].id /\ rows'[r].record = request[q].record
        BY <2>1, RowTypes DEF RowState
  <2>3. Shows(r)'
        BY <1>1, <1>3, <1>4, <2>2 DEF RequestFits, PostFits, Shows
  <2>4. request[q].id # 0
        BY <1>1, <1>4 DEF RequestsFit, ChangeFits, Asks
  <2>5. ASSUME NEW i \in DOMAIN table', creator'[i] = r
        PROVE  rows'[r].id # 0 /\ i = rows'[r].id
    <3>1. i \in DOMAIN table /\ creator[i] = r /\ rows[r].id = 0
          BY <1>1, <1>3, <1>4, <2>5 DEF RequestFits, PostFits
    <3>2. i = request[q].id
          BY <1>1, <3>1 DEF CleanRow, RowInserts, OneRequest
    <3> QED BY <2>2, <2>4, <3>2
  <2> QED BY <1>2, <2>3, <2>5 DEF CleanRow, OneRequest, RowInserts
<1>5. CASE request[q].op # "post"
  <2>1. rows'[r].id = rows[r].id /\ rows'[r].record = rows[r].record
        /\ rows'[r].editing = rows[r].editing
        /\ (rows'[r].listed => rows[r].listed /\ request[q].op # "delete")
    <3>1. CASE request[q].op = "delete"
      <4>1. rows'[r] = [rows[r] EXCEPT !.listed = FALSE]
            BY <3>1, AnswerIs, Zenon
      <4> QED BY <4>1, RowTypes DEF RowState
    <3>2. CASE request[q].op # "delete"
          BY <1>5, <3>2, AnswerIs, Zenon
    <3> QED BY <3>1, <3>2
  <2>2. ASSUME rows'[r].listed PROVE Shows(r)'
    <3>1. request[q].op \in {"put", "password"}
          BY <1>5, <2>1, <2>2, RequestTypes DEF AllOperations
    <3>2. Shows(r)
          BY <1>1, <1>3, <3>1 DEF RequestFits, PutFits, Shows
    <3> QED BY <1>1, <2>1, <3>2 DEF Shows
  <2>3. RowInserts(r)'
        BY <1>1, <1>5, <2>1, InsertsItsOwn DEF RowInserts
  <2> QED BY <1>2, <2>2, <2>3 DEF CleanRow, OneRequest
<1> QED BY <1>4, <1>5

(* The failure of the only request of a row.                                *)
LEMMA FailKeepsClean ==
    ASSUME {"post", "put"} \subseteq Reopens, TypeOK, RequestsFit,
           NEW q \in Request, Fail(q), NEW r \in Row, r = request[q].row, CleanRow(r),
           r \notin retried'
    PROVE  CleanRow(r)'
<1>1. Done(q) /\ Asks(q, r) /\ UNCHANGED <<table, creator>>
    BY FailIs DEF Asks
<1>2. \A x \in Request : ~Asks(x, r)'
    BY <1>1, DoneIs DEF CleanRow, OneRequest, Asks
<1>3. RequestFits(q, r)
    BY <1>1 DEF CleanRow
<1>4. request[q].op \in {"post", "delete"} => request[q].pc = "sent"
    BY FailIs DEF UnderWay
<1>5. request[q].op # "get"
    BY <1>1, NumbersFromOne DEF RequestsFit, ListFits, Asks
<1>6. rows'[r].id = rows[r].id /\ rows'[r].record = rows[r].record
      /\ rows'[r].listed = rows[r].listed
      /\ rows'[r].editing = (request[q].op \in Reopens \/ rows[r].editing)
  <2>1. CASE request[q].op \in Reopens
    <3>1. rows'[r] = [rows[r] EXCEPT !.editing = TRUE]
          BY <2>1, FailIs
    <3> QED BY <2>1, <3>1, RowTypes DEF RowState
  <2>2. CASE request[q].op \notin Reopens
        BY <2>2, FailIs, RowTypes
  <2> QED BY <2>1, <2>2
<1>7. ASSUME rows'[r].listed, rows'[r].id # 0 PROVE Shows(r)'
  <2>1. CASE request[q].op = "put"
        BY <1>1, <1>3, <1>6, <2>1 DEF RequestFits, PutFits, Shows
  <2>2. CASE request[q].op \in {"password", "delete"}
        BY <1>1, <1>3, <1>4, <1>6, <2>2 DEF RequestFits, Shows
  <2>3. CASE request[q].op = "post"
        BY <1>3, <1>6, <1>7, <2>3 DEF RequestFits, PostFits
  <2> QED BY <1>5, <2>1, <2>2, <2>3, RequestTypes DEF AllOperations
<1>8. RowInserts(r)'
    BY <1>1, <1>4, <1>6, InsertsItsOwn DEF RowInserts
<1> QED BY <1>2, <1>7, <1>8 DEF CleanRow, OneRequest

(* The POST of a row is served: the new record is the row's.                *)
LEMMA PostKeepsClean ==
    ASSUME TypeOK, IdsFit, NEW q \in Request, Post(q),
           NEW r \in Row, r = request[q].row, CleanRow(r)
    PROVE  CleanRow(r)'
<1> DEFINE n == lastId + 1
<1>1. /\ Served(q, n, <<>>) /\ UnderWay(q) /\ rows' = rows
      /\ request[q].pc = "sent" /\ request[q].op = "post"
      /\ table' = [i \in DOMAIN table \union {n} |->
                      IF i = n THEN request[q].record ELSE table[i]]
      /\ creator' = [creator EXCEPT ![n] = request[q].row]
    BY DEF Post, Insert, Handling, UnderWay
<1>2. Asks(q, r) /\ \A x \in Request : Asks(x, r) => x = q
    BY <1>1 DEF Asks, CleanRow, OneRequest
<1>3. \A x \in Request : Asks(x, r)' <=> x = q
    BY <1>1, <1>2, ServedIs DEF Asks
<1>4. /\ request'[q].pc = "served" /\ request'[q].id = n /\ request'[q].op = "post"
      /\ request'[q].record = request[q].record
    BY <1>1, ServedIs
<1>5. rows[r].id = 0
    BY <1>1, <1>2 DEF CleanRow, RequestFits, PostFits
<1>6. RequestFits(q, r)'
    BY <1>1, <1>4, <1>5 DEF RequestFits, PostFits
<1>7. Busy(r)'
    BY <1>3 DEF Busy, Asks
<1>8. ASSUME NEW i \in DOMAIN table', creator'[i] = r
      PROVE  i = n
  <2>1. SUFFICES ASSUME i # n PROVE FALSE
        OBVIOUS
  <2>2. i \in DOMAIN table
        BY <1>1, <2>1
  <2>3. creator[i] = r
        BY <1>1, <1>8, <2>1, <2>2, TableIs DEF TypeOK
  <2> QED BY <1>1, <1>2, <1>5, <2>2, <2>3, InsertsItsOwn
<1>9. RowInserts(r)'
    BY <1>3, <1>4, <1>8 DEF RowInserts
<1> QED BY <1>3, <1>6, <1>7, <1>9 DEF CleanRow, OneRequest

(* A PUT, a DELETE or a change of the password of a row is served.           *)
LEMMA ServedKeepsClean ==
    ASSUME TypeOK, NEW q \in Request, Put(q) \/ Remove(q) \/ ChangePassword(q),
           NEW r \in Row, r = request[q].row, CleanRow(r)
    PROVE  CleanRow(r)'
<1>1. /\ UnderWay(q) /\ request[q].pc = "sent" /\ request[q].op \in {"put", "delete", "password"}
      /\ Remove(q) => request[q].op = "delete"
      /\ ChangePassword(q) => request[q].op = "password"
      /\ Put(q) => request[q].op = "put"
    BY DEF Put, Remove, ChangePassword, Handling, UnderWay
<1>2. Asks(q, r) /\ (\A x \in Request : Asks(x, r) => x = q) /\ RequestFits(q, r)
    BY <1>1 DEF Asks, CleanRow, OneRequest
<1>3. Put(q) => request[q].id \in DOMAIN table
    BY <1>1, <1>2 DEF RequestFits, PutFits
<1>4. Served(q, request[q].id, <<>>) /\ rows' = rows /\ creator' = creator
    BY <1>3 DEF Put, Remove, ChangePassword
<1>5. \A x \in Request : Asks(x, r)' <=> x = q
    BY <1>1, <1>2, <1>4, ServedIs DEF Asks
<1>6. /\ request'[q].pc = "served" /\ request'[q].id = request[q].id
      /\ request'[q].op = request[q].op /\ request'[q].record = request[q].record
    BY <1>1, <1>4, ServedIs
<1>7. Busy(r)'
    BY <1>5 DEF Busy, Asks
<1>8. RequestFits(q, r)'
  <2>1. CASE Put(q)
    <3>1. table' = [table EXCEPT ![request[q].id] = request[q].record]
          BY <1>3, <2>1 DEF Put
    <3>2. PutFits(q, r)
          BY <1>1, <1>2, <2>1 DEF RequestFits
    <3>3. PutFits(q, r)'
          BY <1>4, <1>6, <3>1, <3>2 DEF PutFits
    <3> QED BY <1>1, <1>6, <2>1, <3>3 DEF RequestFits
  <2>2. CASE Remove(q)
        BY <1>1, <1>2, <1>4, <1>6, <2>2 DEF RequestFits
  <2>3. CASE ChangePassword(q)
    <3>1. request[q].id = rows[r].id /\ Shows(r)
          BY <1>1, <1>2, <2>3 DEF RequestFits
    <3>2. table' = [table EXCEPT ![request[q].id].password = "new"]
          BY <2>3, <3>1 DEF ChangePassword, Shows
    <3>3. table[rows[r].id] \in Record /\ rows[r].id \in DOMAIN table
          BY <3>1, TableIs DEF TypeOK, Shows
    <3>4. table'[rows[r].id] = [table[rows[r].id] EXCEPT !.password = "new"]
          BY <3>1, <3>2, <3>3
    <3>5. table'[rows[r].id].data = table[rows[r].id].data
          BY <3>3, <3>4 DEF Record
    <3>6. DOMAIN table' = DOMAIN table
          BY <3>2
    <3>7. Shows(r)'
          BY <1>4, <3>1, <3>5, <3>6 DEF Shows
    <3> QED BY <1>1, <1>4, <1>6, <2>3, <3>1, <3>7 DEF RequestFits
  <2> QED BY <2>1, <2>2, <2>3
<1>9. DOMAIN table' \subseteq DOMAIN table
  <2>1. CASE Put(q)
        BY <1>3, <2>1 DEF Put
  <2>2. CASE Remove(q)
        BY <2>2 DEF Remove
  <2>3. CASE ChangePassword(q)
        BY <2>3 DEF ChangePassword
  <2> QED BY <2>1, <2>2, <2>3
<1>10. RowInserts(r)'
  <2>1. ASSUME NEW i \in DOMAIN table', creator'[i] = r
        PROVE  rows'[r].id # 0 /\ i = rows'[r].id
        BY <1>1, <1>2, <1>4, <1>9, <2>1, InsertsItsOwn
  <2> QED BY <2>1 DEF RowInserts
<1> QED BY <1>5, <1>7, <1>8, <1>10 DEF CleanRow, OneRequest

(* A write of another row's record spares a row that it does not disturb.    *)
LEMMA WriteLeaves ==
    ASSUME TypeOK, NEW q \in Request, NEW r \in Row, r # request[q].row, r \notin disturbed',
           \/ Put(q) /\ request[q].id \in DOMAIN table
           \/ Remove(q)
           \/ ChangePassword(q)
    PROVE  RecordsAlone(r)
<1> DEFINE id == request[q].id
<1>1. Outdate(q, id) /\ creator' = creator
    BY DEF Put, Remove, ChangePassword
<1>2. ~Names(r, id)
    BY <1>1, OutdateSpares
<1>3. \A i \in DOMAIN table : i # id => i \in DOMAIN table' /\ table'[i] = table[i]
  <2>1. CASE Put(q) /\ id \in DOMAIN table
        BY <2>1 DEF Put
  <2>2. CASE Remove(q)
        BY <2>2 DEF Remove
  <2>3. CASE ChangePassword(q)
        BY <2>3 DEF ChangePassword
  <2> QED BY <2>1, <2>2, <2>3
<1>4. DOMAIN table' \subseteq DOMAIN table
  <2>1. CASE Put(q) /\ id \in DOMAIN table
        BY <2>1 DEF Put
  <2>2. CASE Remove(q)
        BY <2>2 DEF Remove
  <2>3. CASE ChangePassword(q)
        BY <2>3 DEF ChangePassword
  <2> QED BY <2>1, <2>2, <2>3
<1> QED BY <1>1, <1>2, <1>3, <1>4 DEF RecordsAlone

(* A step of a page that changes no record.                                 *)
LEMMA NoWriteLeaves ==
    ASSUME UNCHANGED <<table, creator>>, NEW r \in Row
    PROVE  RecordsAlone(r)
BY DEF RecordsAlone

(* A step that asks nothing and changes no record leaves a row clean.        *)
LEMMA QuietKeepsClean ==
    ASSUME UNCHANGED <<table, creator, request>>, NEW r \in Row, CleanRow(r), RowAlone(r)
    PROVE  CleanRow(r)'
<1>1. RequestsAlone(r)
    BY DEF RequestsAlone, Asks, UnderWay
<1> QED BY <1>1, NoWriteLeaves, AloneStaysClean

(* A request that is sent leaves every row clean that it does not disturb.   *)
LEMMA SendCleanRows ==
    ASSUME TypeOK, RequestsFit, CleanRows, NEW q \in Request, NEW op \in AllOperations,
           NEW p, NEW o \in Row \union {0}, Send(q, op, p, o),
           UNCHANGED <<table, creator, retried>>,
           \A r \in Row : r # o => rows'[r] = rows[r],
           o # 0 =>
             /\ rows'[o].id = rows[o].id /\ rows'[o].record = rows[o].record
             /\ rows[o].listed /\ op # "get" /\ (op = "post" <=> rows[o].id = 0)
             /\ op # "put" => rows'[o].editing = rows[o].editing \/ rows[o].id = 0
    PROVE  CleanRows'
<1>1. ASSUME NEW r \in Row, Clean(r)' PROVE CleanRow(r)'
  <2>1. CleanRow(r) /\ r \notin disturbed'
        BY <1>1, SendIs DEF Clean, CleanRows
  <2>2. CASE r = o
    <3>1. r # 0
          BY NumbersFromOne
    <3> QED BY <2>1, <2>2, <3>1, SendKeepsClean
  <2>3. CASE r # o
        BY <2>1, <2>3, SendLeaves, NoWriteLeaves, RowsLeft, AloneStaysClean
  <2> QED BY <2>2, <2>3
<1> QED BY <1>1 DEF CleanRows

(* Every step leaves the clean rows clean, or disturbs them.                *)
LEMMA NextCleanRows ==
    ASSUME {"post", "put"} \subseteq Reopens, RecordInv, [Next]_vars
    PROVE  CleanRows'
<1> USE DEF RecordInv
<1>0. ASSUME \A r \in Row : Clean(r)' => CleanRow(r)' PROVE CleanRows'
    BY <1>0 DEF CleanRows
<1>1. ASSUME NEW p \in Page, Create(p) PROVE CleanRows'
  <2>1. UNCHANGED <<table, lastId, request, history>>
        BY <1>1 DEF Create
  <2>2. PICK n \in Unused :
             /\ rows'[n] = [NoRow EXCEPT !.page = p, !.listed = TRUE, !.editing = TRUE]
             /\ \A r \in Row : r # n => rows'[r] = rows[r]
        BY <1>1, CreateIs
  <2>3. CleanRow(n)'
    <3>1. n \in Row /\ rows[n].page = "none"
          BY DEF Unused
    <3>2. rows'[n].id = 0
          BY <2>2 DEF NoRow
    <3>3. \A x \in Request : ~Asks(x, n)'
          BY <2>1, <3>1, UnusedIsFresh DEF Asks, UnderWay
    <3>4. \A i \in DOMAIN table' : creator'[i] # n
          BY <2>1, <3>1, UnusedIsFresh DEF history
    <3> QED BY <3>1, <3>2, <3>3, <3>4, FreshIsClean
  <2>4. ASSUME NEW r \in Row, r # n, Clean(r)' PROVE CleanRow(r)'
        BY <2>1, <2>2, <2>4, QuietKeepsClean, RowsLeft DEF history, Clean, CleanRows
  <2> QED BY <1>0, <2>3, <2>4
<1>2. ASSUME NEW r \in Row, NEW d \in Data, Edit(r, d) PROVE CleanRows'
  <2> DEFINE e == [rows[r].record EXCEPT !.data = d]
  <2>1. rows'[r] = [rows[r] EXCEPT !.editing = TRUE, !.record = e]
        /\ \A o \in Row : o # r => rows'[o] = rows[o]
        BY <1>2, FormIs
  <2> HIDE DEF e
  <2>2. RowAlone(r)
        BY <2>1, RowTypes DEF RowState, RowAlone
  <2>3. UNCHANGED <<table, creator, request, disturbed, retried>>
        BY <1>2 DEF Edit, history
  <2>4. ASSUME NEW o \in Row, Clean(o)' PROVE CleanRow(o)'
        BY <2>1, <2>2, <2>3, <2>4, QuietKeepsClean, RowsLeft DEF Clean, CleanRows
  <2> QED BY <1>0, <2>4
<1>3. ASSUME NEW r \in Row, Forget(r) PROVE CleanRows'
  <2>1. rows'[r] = [rows[r] EXCEPT !.listed = FALSE]
        /\ \A o \in Row : o # r => rows'[o] = rows[o]
        BY <1>3, FormIs
  <2>2. RowAlone(r)
        BY <2>1, RowTypes DEF RowState, RowAlone
  <2>3. UNCHANGED <<table, creator, request, disturbed, retried>>
        BY <1>3 DEF Forget, history
  <2>4. ASSUME NEW o \in Row, Clean(o)' PROVE CleanRow(o)'
        BY <2>1, <2>2, <2>3, <2>4, QuietKeepsClean, RowsLeft DEF Clean, CleanRows
  <2> QED BY <1>0, <2>4
<1>4. ASSUME NEW r \in Row, NEW q \in Request, Save(q, r) PROVE CleanRows'
  <2> DEFINE op == IF rows[r].id = 0 THEN "post" ELSE "put"
  <2>1. rows'[r] = [rows[r] EXCEPT !.editing = FALSE]
        /\ \A o \in Row : o # r => rows'[o] = rows[o]
        BY <1>4, FormIs
  <2>2. Send(q, op, rows[r].page, r) /\ op \in AllOperations /\ op # "get" /\ rows[r].listed
        /\ (op = "post" <=> rows[r].id = 0) /\ (op # "put" => rows[r].id = 0)
        BY <1>4 DEF Save, AllOperations
  <2>3. rows'[r].id = rows[r].id /\ rows'[r].record = rows[r].record
        BY <2>1, RowTypes DEF RowState
  <2>4. UNCHANGED <<table, creator, retried>>
        BY <1>4 DEF Save
  <2> HIDE DEF op
  <2>5. TypeOK /\ RequestsFit /\ CleanRows /\ r \in Row \union {0}
        OBVIOUS
  <2>6. op # "put" => rows'[r].editing = rows[r].editing \/ rows[r].id = 0
        BY <2>2
  <2> HIDE DEF RecordInv
  <2> QED BY <2>1, <2>2, <2>3, <2>4, <2>5, <2>6, SendCleanRows, Zenon
<1>5. ASSUME NEW p \in Page, NEW q \in Request, Fetch(q, p) PROVE CleanRows'
  <2>1. Send(q, "get", p, 0) /\ UNCHANGED <<table, creator, retried, rows>>
        /\ "get" \in AllOperations
        BY <1>5 DEF Fetch, AllOperations
  <2> QED BY <2>1, SendCleanRows
<1>6. ASSUME NEW r \in Row, NEW q \in Request, Delete(q, r) PROVE CleanRows'
  <2>1. Send(q, "delete", rows[r].page, r) /\ UNCHANGED <<table, creator, retried, rows>>
        /\ "delete" \in AllOperations /\ rows[r].listed /\ rows[r].id # 0
        BY <1>6 DEF Delete, AllOperations
  <2> QED BY <2>1, SendCleanRows
<1>7. ASSUME NEW r \in Row, NEW q \in Request, UpdatePassword(q, r) PROVE CleanRows'
  <2>1. Send(q, "password", rows[r].page, r) /\ UNCHANGED <<table, creator, retried, rows>>
        /\ "password" \in AllOperations /\ rows[r].listed /\ rows[r].id # 0
        BY <1>7 DEF UpdatePassword, AllOperations
  <2> QED BY <2>1, SendCleanRows
<1>8. ASSUME NEW q \in Request, Get(q) PROVE CleanRows'
  <2>1. UNCHANGED <<table, creator, rows, disturbed, retried>>
        BY <1>8 DEF Get, history
  <2>2. ASSUME NEW o \in Row, Clean(o)' PROVE CleanRow(o)'
        BY <1>8, <2>1, <2>2, GetLeaves, NoWriteLeaves, RowsLeft, AloneStaysClean
        DEF Clean, CleanRows
  <2> QED BY <1>0, <2>2
<1>9. ASSUME NEW q \in Request, Post(q) PROVE CleanRows'
  <2>1. UNCHANGED <<rows, disturbed, retried>> /\ UnderWay(q) /\ Insert(q, TRUE)
        /\ \E id, answer : Served(q, id, answer)
        BY <1>9 DEF Post, Insert, Handling, UnderWay
  <2>2. ASSUME NEW o \in Row, Clean(o)' PROVE CleanRow(o)'
    <3>1. CleanRow(o)
          BY <2>1, <2>2 DEF Clean, CleanRows
    <3>2. CASE o = request[q].row
          BY <1>9, <3>1, <3>2, PostKeepsClean
    <3>3. CASE o # request[q].row
          BY <2>1, <3>1, <3>3, ServedLeaves, InsertLeaves, RowsLeft, AloneStaysClean
    <3> QED BY <3>2, <3>3
  <2> QED BY <1>0, <2>2
<1>10. ASSUME NEW q \in Request, Put(q) \/ Remove(q) \/ ChangePassword(q) PROVE CleanRows'
  <2>1. UNCHANGED <<rows, retried>> /\ UnderWay(q) /\ disturbed \subseteq disturbed'
        /\ \E id, answer : Served(q, id, answer)
        BY <1>10 DEF Put, Remove, ChangePassword, Insert, Outdate, Handling, UnderWay
  <2>2. ASSUME NEW o \in Row, Clean(o)' PROVE CleanRow(o)'
    <3>1. CleanRow(o) /\ o \notin disturbed'
          BY <2>1, <2>2 DEF Clean, CleanRows
    <3>2. CASE o = request[q].row
          BY <1>10, <3>1, <3>2, ServedKeepsClean
    <3>3. CASE o # request[q].row
      <4>1. RecordsAlone(o)
        <5>1. CASE Put(q) /\ request[q].id \notin DOMAIN table
          <6>1. Insert(q, FALSE)
                BY <5>1 DEF Put
          <6> QED BY <3>3, <6>1, InsertLeaves
        <5>2. CASE ~(Put(q) /\ request[q].id \notin DOMAIN table)
              BY <1>10, <3>1, <3>3, <5>2, WriteLeaves
        <5> QED BY <5>1, <5>2
      <4> QED BY <2>1, <3>1, <3>3, <4>1, ServedLeaves, RowsLeft, AloneStaysClean
    <3> QED BY <3>2, <3>3
  <2> QED BY <1>0, <2>2
<1>11. ASSUME NEW q \in Request, Answer(q), request[q].op = "get" PROVE CleanRows'
  <2>1. /\ Done(q) /\ UnderWay(q) /\ ShowList(q) /\ UNCHANGED <<table, creator, retried>>
        /\ request[q].pc = "served"
        BY <1>11 DEF Answer, UnderWay
  <2>2. request[q].row = 0 /\ (~request[q].stale => request[q].answer = table)
        BY <1>11, <2>1 DEF RequestsFit, ListFits
  <2>3. ASSUME NEW r \in Row, Clean(r)' PROVE CleanRow(r)'
    <3>1. CleanRow(r) /\ r \notin disturbed'
          BY <2>1, <2>3, ShowListIs DEF Clean, CleanRows
    <3>2. RequestsAlone(r)
          BY <2>1, <2>2, DoneLeaves, NumbersFromOne
    <3>3. CASE RowKept(r)
          BY <2>1, <3>1, <3>2, <3>3, NoWriteLeaves, RowsLeft, AloneStaysClean
    <3>4. CASE RowTaken(q, r)
      <4>1. Shows(r)'
            BY <2>1, <2>2, <3>1, <3>4 DEF RowTaken, Shows
      <4>2. \A x \in Request : ~Asks(x, r)'
            BY <3>2, <3>4, UnusedIsFresh DEF RowTaken, RequestsAlone
      <4>3. \A i \in DOMAIN table' : creator'[i] # r
            BY <2>1, <3>4, UnusedIsFresh DEF RowTaken
      <4> QED BY <4>1, <4>2, <4>3, FreshIsClean
    <3> QED BY <2>1, <3>3, <3>4, ShowListIs
  <2> QED BY <1>0, <2>3
<1>12. ASSUME NEW q \in Request, Answer(q), request[q].op # "get" PROVE CleanRows'
  <2>1. Done(q) /\ UNCHANGED <<table, creator, disturbed, retried>>
        /\ \A r \in Row : r # request[q].row => rows'[r] = rows[r]
        BY <1>12, AnswerIs, Zenon DEF Answer
  <2>2. ASSUME NEW r \in Row, Clean(r)' PROVE CleanRow(r)'
    <3>1. CleanRow(r)
          BY <2>1, <2>2 DEF Clean, CleanRows
    <3>2. CASE r = request[q].row
          BY <1>12, <3>1, <3>2, AnswerKeepsClean
    <3>3. CASE r # request[q].row
          BY <2>1, <3>1, <3>3, DoneLeaves, NoWriteLeaves, RowsLeft, AloneStaysClean
    <3> QED BY <3>2, <3>3
  <2> QED BY <1>0, <2>2
<1>13. ASSUME NEW q \in Request, Fail(q) PROVE CleanRows'
  <2>1. Done(q) /\ UNCHANGED <<table, creator, disturbed>> /\ retried \subseteq retried'
        /\ \A r \in Row : r # request[q].row => rows'[r] = rows[r]
        BY <1>13, FailIs
  <2>2. ASSUME NEW r \in Row, Clean(r)' PROVE CleanRow(r)'
    <3>1. CleanRow(r) /\ r \notin retried'
          BY <2>1, <2>2 DEF Clean, CleanRows
    <3>2. CASE r = request[q].row
          BY <1>13, <3>1, <3>2, FailKeepsClean
    <3>3. CASE r # request[q].row
          BY <2>1, <3>1, <3>3, DoneLeaves, NoWriteLeaves, RowsLeft, AloneStaysClean
    <3> QED BY <3>2, <3>3
  <2> QED BY <1>0, <2>2
<1>14. CASE UNCHANGED vars
  <2>1. UNCHANGED <<table, creator, rows, request, disturbed, retried>>
        BY <1>14 DEF vars, history
  <2>2. ASSUME NEW o \in Row, Clean(o)' PROVE CleanRow(o)'
        BY <2>1, <2>2, QuietKeepsClean, RowsLeft DEF Clean, CleanRows
  <2> QED BY <1>0, <2>2
<1> QED BY <1>1, <1>2, <1>3, <1>4, <1>5, <1>6, <1>7, <1>8, <1>9, <1>10, <1>11, <1>12,
           <1>13, <1>14 DEF Next, Serve

-----------------------------------------------------------------------------
(* The theorems *)

(* Without rows and requests everything fits.                               *)
LEMMA InitRecordInv == Init => RecordInv
<1> SUFFICES ASSUME Init PROVE RecordInv
    OBVIOUS
<1>1. TypeOK
    BY InitTypeOK
<1>2. \A q \in Request : ~UnderWay(q)
    BY DEF Init, NoRequest, UnderWay
<1>3. \A r \in Row : rows[r] = NoRow /\ ~rows[r].listed /\ rows[r].id = 0
    BY DEF Init, NoRow
<1>4. DOMAIN table = {} /\ \A i \in Id : creator[i] = 0
    BY DEF Init
<1>5. RequestsFit
    BY <1>2 DEF RequestsFit
<1>6. RowsFit
    BY <1>3 DEF RowsFit, ListedFit, WaitingFit
<1>7. IdsFit
    BY <1>4 DEF IdsFit
<1>8. CleanRows
    BY <1>2, <1>3, <1>4 DEF CleanRows, CleanRow, OneRequest, Asks, RowInserts
<1> QED BY <1>1, <1>5, <1>6, <1>7, <1>8 DEF RecordInv

(* A row that is listed is used.                                            *)
LEMMA NextListedFit ==
    ASSUME TypeOK, RequestsFit, ListedFit, [Next]_vars
    PROVE  ListedFit'
<1>0. RowsAge
    BY RowsAgeAlways
<1>1. ASSUME NEW r \in Row, rows'[r].listed
      PROVE  rows[r].listed \/ rows'[r].page # "none"
  <2>1. ASSUME NEW p \in Page, Create(p) PROVE rows'[r].page # "none" \/ rows'[r] = rows[r]
    <3>1. PICK n \in Unused :
             /\ rows'[n] = [NoRow EXCEPT !.page = p, !.listed = TRUE, !.editing = TRUE]
             /\ \A o \in Row : o # n => rows'[o] = rows[o]
          BY <2>1, CreateIs
    <3>2. rows'[n].page = p
          BY <3>1 DEF NoRow
    <3> QED BY <3>1, <3>2, RecordAssumption
  <2>2. ASSUME NEW o \in Row, NEW d \in Data, Edit(o, d)
        PROVE  rows'[r] = rows[r] \/ rows[r].listed
        BY <2>2, FormIs DEF Edit
  <2>3. ASSUME NEW o \in Row, Forget(o) PROVE rows'[r] = rows[r] \/ rows[r].listed
        BY <2>3, FormIs DEF Forget
  <2>4. ASSUME NEW o \in Row, NEW q \in Request, Save(q, o)
        PROVE  rows'[r] = rows[r] \/ rows[r].listed
        BY <2>4, FormIs DEF Save
  <2>5. ASSUME NEW q \in Request, Answer(q)
        PROVE  rows[r].listed \/ rows'[r].page # "none"
    <3>1. CASE request[q].op = "get"
      <4>1. ShowList(q) /\ request[q].page # "none"
            BY <2>5, <3>1 DEF Answer, RequestsFit, ListFits, UnderWay
      <4> QED BY <1>1, <4>1, ShowListIs DEF RowKept, RowTaken
    <3>2. CASE request[q].op # "get"
      <4>1. r # request[q].row => rows'[r] = rows[r]
            BY <2>5, <3>2, AnswerIs, Zenon
      <4>2. r = request[q].row => rows[r].page # "none"
            BY <2>5, <3>2 DEF Answer, RequestsFit, ChangeFits, UnderWay
      <4> QED BY <1>0, <1>1, <4>1, <4>2 DEF RowsAge
    <3> QED BY <3>1, <3>2
  <2>6. ASSUME NEW q \in Request, Fail(q)
        PROVE  rows[r].listed \/ rows'[r].page # "none"
    <3>1. r # request[q].row => rows'[r] = rows[r]
          BY <2>6, FailIs
    <3>2. r = request[q].row => rows[r].page # "none"
      <4>1. r # 0
            BY NumbersFromOne
      <4> QED BY <2>6, <4>1, FailIs DEF RequestsFit, ListFits, ChangeFits
    <3> QED BY <1>0, <1>1, <3>1, <3>2 DEF RowsAge
  <2>7. ASSUME NEW q \in Request, Serve(q) PROVE rows' = rows
        BY <2>7 DEF Serve, Get, Post, Put, Remove, ChangePassword
  <2>8. ASSUME NEW p \in Page, NEW q \in Request, Fetch(q, p) PROVE rows' = rows
        BY <2>8 DEF Fetch
  <2>9. ASSUME NEW o \in Row, NEW q \in Request, Delete(q, o) \/ UpdatePassword(q, o)
        PROVE  rows' = rows
        BY <2>9 DEF Delete, UpdatePassword
  <2>10. CASE UNCHANGED vars
        BY <1>1, <2>10 DEF vars
  <2> QED BY <1>1, <2>1, <2>2, <2>3, <2>4, <2>5, <2>6, <2>7, <2>8, <2>9, <2>10 DEF Next
<1>2. ASSUME NEW r \in Row, rows'[r].listed PROVE rows'[r].page # "none"
    BY <1>0, <1>1, <1>2 DEF ListedFit, RowsAge
<1> QED BY <1>2 DEF ListedFit

(* Pages, rows, requests and records have their types, whichever failures     *)
(* open the form again.                                                     *)
THEOREM RecordTypes == Spec => []TypeOK
<1> DEFINE Kept == TypeOK /\ RequestsFit /\ ListedFit
<1>1. Init => Kept
    BY InitRecordInv DEF RecordInv, RowsFit
<1>2. Kept /\ [Next]_vars => Kept'
    BY NextTypeOK, NextRequestsFit, NextListedFit
<1>3. Kept => TypeOK
    OBVIOUS
<1> QED BY <1>1, <1>2, <1>3, PTL DEF Spec

(* The inductive invariant of the record lists: a row that is neither         *)
(* disturbed nor retried, its one request and its record agree as far as the  *)
(* request has come.                                                        *)
THEOREM RecordInvariance ==
    ASSUME {"post", "put"} \subseteq Reopens
    PROVE  Spec => []RecordInv
<1>1. ASSUME RecordInv, [Next]_vars PROVE RecordInv'
  <2>1. TypeOK'
        BY <1>1, NextTypeOK DEF RecordInv
  <2>2. RequestsFit'
        BY <1>1, NextRequestsFit DEF RecordInv, RowsFit
  <2>3. RowsFit'
        BY <1>1, NextRowsFit DEF RecordInv
  <2>4. IdsFit'
        BY <1>1, NextIdsFit DEF RecordInv
  <2>5. CleanRows'
        BY <1>1, NextCleanRows
  <2> QED BY <2>1, <2>2, <2>3, <2>4, <2>5 DEF RecordInv
<1> QED BY InitRecordInv, <1>1, PTL DEF Spec

(* A closed row shows what the database has: a save that failed opened the    *)
(* form again, and one that is under way keeps the row busy.                *)
THEOREM ClosedRowsAreStored ==
    ASSUME {"post", "put"} \subseteq Reopens
    PROVE  Spec => []ClosedRowIsStored
<1>1. ASSUME RecordInv PROVE ClosedRowIsStored
  <2>1. ASSUME NEW r \in Row, Saved(r)
        PROVE  /\ rows[r].id \in DOMAIN table
               /\ table[rows[r].id].data = rows[r].record.data
        BY <1>1, <2>1 DEF RecordInv, CleanRows, CleanRow, Clean, Saved, Shows
  <2> QED BY <1>1, <2>1 DEF RecordInv, RowsFit, WaitingFit, ClosedRowIsStored
<1> QED BY RecordInvariance, <1>1, PTL

(* A row is at most one record, however often its form is saved.             *)
THEOREM RowsAreOneRecord ==
    ASSUME {"post", "put"} \subseteq Reopens
    PROVE  Spec => []OneRecordPerRow
<1>1. ASSUME RecordInv, NEW r \in Row \ (disturbed \union retried)
      PROVE  Cardinality({i \in DOMAIN table : creator[i] = r}) <= 1
  <2> DEFINE own == {i \in DOMAIN table : creator[i] = r}
  <2>1. CleanRow(r)
        BY <1>1 DEF RecordInv, CleanRows, Clean
  <2>2. ASSUME NEW i \in own, NEW j \in own PROVE i = j
    <3>1. ASSUME NEW q \in Request, Asks(q, r), request[q].op = "post" PROVE rows[r].id = 0
          BY <2>1, <3>1 DEF CleanRow, RequestFits, PostFits
    <3> QED BY <2>1, <3>1 DEF CleanRow, RowInserts, OneRequest
  <2>3. CASE own = {}
        BY <2>3, FS_EmptySet
  <2>4. CASE own # {}
    <3>1. PICK i : own = {i}
          BY <2>2, <2>4
    <3>2. Cardinality({i}) = 1
          BY FS_Singleton
    <3> QED BY <3>1, <3>2
  <2> QED BY <2>3, <2>4
<1>2. RecordInv => OneRecordPerRow
    BY <1>1 DEF OneRecordPerRow
<1> QED BY RecordInvariance, <1>2, PTL
=================================================================================
