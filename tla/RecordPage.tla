------------------------------ MODULE RecordPage ------------------------------
(***************************************************************************)
(* The lists of records on the directory's pages: users, contacts,          *)
(* endpoints, settings and organizations.                                   *)
(*                                                                         *)
(* A page keeps the records it shows as row objects, and an open form edits *)
(* the row itself.  Saving closes the form and sends the whole row, as a    *)
(* POST when the row has no id and as a PUT when it has one; the answer to  *)
(* a POST is merged into the row, the answer to a PUT is not.  Requests are *)
(* served in any order, and the form stays usable while they are under way. *)
(* The kinds of records differ in which failures reopen the form.           *)
(***************************************************************************)
EXTENDS Naturals, FiniteSets

CONSTANTS
    Page,         \* browser pages
    Data,         \* what a form can hold
    Operations,   \* the operations that the pages use
    Reopens,      \* the requests whose failure opens the form again
    Request,      \* bound: requests
    MaxRows,      \* bound: row objects
    MaxId         \* bound: ids that the database hands out

AllOperations == {"get", "post", "put", "delete", "password"}
Row == 1..MaxRows
Id == 1..MaxId

ASSUME RecordAssumption ==
    /\ Operations \subseteq AllOperations
    /\ Reopens \subseteq {"post", "put"}
    /\ MaxRows \in Nat /\ MaxId \in Nat
    /\ Data # {} /\ "none" \notin Page

VARIABLES
    table,       \* the records of the database, by id
    lastId,      \* the last id that was handed out
    rows,        \* row objects
    request,     \* requests under way
    creator,     \* history: the row whose save inserted a record
    disturbed,   \* history: rows with overlapping requests, or whose record
                 \* was written from elsewhere
    retried,     \* history: rows whose POST or DELETE was served, but not answered
    renewed      \* history: records whose password was changed

history == <<creator, disturbed, retried, renewed>>
vars == <<table, lastId, rows, request, history>>

(* A new user's password is old, and changing it makes it new.              *)
Record == [data : Data, password : {"old", "new"}]
Tables == UNION {[S -> Record] : S \in SUBSET Id}
RowState ==
    [page : Page \union {"none"}, listed : BOOLEAN, editing : BOOLEAN,
     id : Id \union {0}, record : Record]
RequestState ==
    [pc : {"idle", "sent", "served", "done"}, op : AllOperations,
     page : Page \union {"none"}, row : Row \union {0}, id : Id \union {0},
     record : Record, answer : Tables, stale : BOOLEAN]

Blank == [data |-> CHOOSE d \in Data : TRUE, password |-> "old"]
NoRow == [page |-> "none", listed |-> FALSE, editing |-> FALSE, id |-> 0,
          record |-> Blank]
NoRequest ==
    [pc |-> "idle", op |-> "get", page |-> "none", row |-> 0, id |-> 0,
     record |-> Blank, answer |-> <<>>, stale |-> FALSE]

TypeOK ==
    /\ table \in Tables
    /\ lastId \in Id \union {0}
    /\ rows \in [Row -> RowState]
    /\ request \in [Request -> RequestState]
    /\ creator \in [Id -> Row \union {0}]
    /\ disturbed \subseteq Row /\ retried \subseteq Row
    /\ renewed \subseteq Id

Init ==
    /\ table = <<>> /\ lastId = 0
    /\ rows = [r \in Row |-> NoRow]
    /\ request = [q \in Request |-> NoRequest]
    /\ creator = [i \in Id |-> 0]
    /\ disturbed = {} /\ retried = {} /\ renewed = {}

Unused == {r \in Row : rows[r].page = "none"}
UnderWay(q) == request[q].pc \in {"sent", "served"}
Busy(r) == \E q \in Request : UnderWay(q) /\ request[q].row = r

-----------------------------------------------------------------------------
(* The pages *)

Send(q, op, p, r) ==
    /\ op \in Operations /\ request[q].pc = "idle"
    /\ request' = [request EXCEPT ![q] =
          [NoRequest EXCEPT !.pc = "sent", !.op = op, !.page = p, !.row = r,
                            !.id = IF r = 0 THEN 0 ELSE rows[r].id,
                            !.record = IF r = 0 THEN Blank ELSE rows[r].record]]
    /\ disturbed' = IF r # 0 /\ Busy(r) THEN disturbed \union {r} ELSE disturbed

(* find, getDeliveryMethods, ...: the list is fetched, again at any time.    *)
Fetch(q, p) ==
    /\ Send(q, "get", p, 0)
    /\ UNCHANGED <<table, lastId, rows, creator, retried, renewed>>

(* create: an empty form.                                                   *)
Create(p) ==
    /\ "post" \in Operations /\ Unused # {}
    /\ LET r == CHOOSE r \in Unused : TRUE
       IN  rows' = [rows EXCEPT ![r] =
              [NoRow EXCEPT !.page = p, !.listed = TRUE, !.editing = TRUE]]
    /\ UNCHANGED <<table, lastId, request, history>>

(* edit, and what is typed; the record may be one that is being saved.       *)
Edit(r, d) ==
    /\ rows[r].listed
    /\ rows' = [rows EXCEPT ![r].editing = TRUE, ![r].record.data = d]
    /\ UNCHANGED <<table, lastId, request, history>>

Save(q, r) ==
    /\ rows[r].listed /\ rows[r].editing
    /\ Send(q, IF rows[r].id = 0 THEN "post" ELSE "put", rows[r].page, r)
    /\ rows' = [rows EXCEPT ![r].editing = FALSE]
    /\ UNCHANGED <<table, lastId, creator, retried, renewed>>

(* A row without an id is only taken off the list.                          *)
Forget(r) ==
    /\ rows[r].listed /\ rows[r].id = 0
    /\ rows' = [rows EXCEPT ![r].listed = FALSE]
    /\ UNCHANGED <<table, lastId, request, history>>

Delete(q, r) ==
    /\ rows[r].listed /\ rows[r].id # 0
    /\ Send(q, "delete", rows[r].page, r)
    /\ UNCHANGED <<table, lastId, rows, creator, retried, renewed>>

UpdatePassword(q, r) ==
    /\ rows[r].listed /\ rows[r].id # 0
    /\ Send(q, "password", rows[r].page, r)
    /\ UNCHANGED <<table, lastId, rows, creator, retried, renewed>>

Done(q) == request' = [request EXCEPT ![q] = [NoRequest EXCEPT !.pc = "done"]]

(* The list is replaced; its rows, and what their forms hold, are dropped.   *)
ShowList(q) ==
    LET fetched == request[q].answer
        p == request[q].page
        places == {f \in [DOMAIN fetched -> Unused] :
                      \A i, j \in DOMAIN fetched : f[i] = f[j] => i = j}
        row == CHOOSE f \in places : TRUE
        shows(r, i) == i \in DOMAIN fetched /\ row[i] = r
    IN  /\ places # {}
        /\ rows' = [r \in Row |->
              IF \E i \in Id : shows(r, i)
              THEN LET i == CHOOSE i \in Id : shows(r, i)
                   IN  [page |-> p, listed |-> TRUE, editing |-> FALSE,
                        id |-> i, record |-> fetched[i]]
              ELSE [rows[r] EXCEPT !.listed = @ /\ rows[r].page # p]]
        /\ disturbed' =
              IF request[q].stale
              THEN disturbed \union {row[i] : i \in DOMAIN fetched}
              ELSE disturbed

(* A POST is answered, and the row is not told its id.                      *)
AnswerWithoutId(q) ==
    /\ request[q].pc = "served"
    /\ Done(q)
    /\ IF request[q].op = "get" THEN ShowList(q)
       ELSE /\ UNCHANGED disturbed
            /\ rows' = IF request[q].op = "delete"
                       THEN [rows EXCEPT ![request[q].row].listed = FALSE]
                       ELSE rows
    /\ UNCHANGED <<table, lastId, creator, retried, renewed>>

(* angular.extend merges the answer to a POST into the row: its id, and what *)
(* was saved in place of what was typed since.                              *)
Answer(q) ==
    /\ request[q].pc = "served"
    /\ Done(q)
    /\ IF request[q].op = "get" THEN ShowList(q)
       ELSE /\ UNCHANGED disturbed
            /\ rows' =
                CASE request[q].op = "post" ->
                       [rows EXCEPT ![request[q].row].id = request[q].id,
                                    ![request[q].row].record = request[q].record]
                  [] request[q].op = "delete" ->
                       [rows EXCEPT ![request[q].row].listed = FALSE]
                  [] OTHER -> rows
    /\ UNCHANGED <<table, lastId, creator, retried, renewed>>

(* The failure is only reported.                                            *)
FailSilently(q) ==
    /\ UnderWay(q)
    /\ Done(q)
    /\ UNCHANGED <<table, lastId, rows, creator, disturbed, retried, renewed>>

(* The request is lost or refused, or its answer is lost.                   *)
Fail(q) ==
    /\ UnderWay(q)
    /\ Done(q)
    /\ rows' = IF request[q].op \in Reopens
               THEN [rows EXCEPT ![request[q].row].editing = TRUE]
               ELSE rows
    /\ retried' = IF request[q].pc = "served" /\ request[q].op \in {"post", "delete"}
                  THEN retried \union {request[q].row} ELSE retried
    /\ UNCHANGED <<table, lastId, creator, disturbed, renewed>>

-----------------------------------------------------------------------------
(* The resources of the directory *)

(* Every other row of the record, and every list on its way, is outdated.    *)
Outdate(q, i) ==
    disturbed' = disturbed \union
        {r \in Row \ {request[q].row} :
            \/ rows[r].id = i
            \/ \E x \in Request : request[x].row = r /\ UnderWay(x) /\ request[x].id = i}

Served(q, id, answer) ==
    request' = [x \in Request |->
        IF x = q
        THEN [request[q] EXCEPT !.pc = "served", !.id = id, !.answer = answer]
        ELSE [request[x] EXCEPT !.stale = @ \/
                (request[x].op = "get" /\ request[x].pc = "served")]]

Insert(q, told) ==
    /\ lastId < MaxId
    /\ lastId' = lastId + 1
    /\ table' = [i \in DOMAIN table \union {lastId + 1} |->
                    IF i = lastId + 1 THEN request[q].record ELSE table[i]]
    /\ creator' = [creator EXCEPT ![lastId + 1] = request[q].row]
    /\ Served(q, IF told THEN lastId + 1 ELSE request[q].id, <<>>)

Handling(q, op) == request[q].pc = "sent" /\ request[q].op = op

Get(q) ==
    /\ Handling(q, "get")
    /\ request' = [request EXCEPT ![q].pc = "served", ![q].answer = table]
    /\ UNCHANGED <<table, lastId, rows, history>>

Post(q) ==
    /\ Handling(q, "post")
    /\ Insert(q, TRUE)
    /\ UNCHANGED <<rows, disturbed, retried, renewed>>

(* The row itself is stored, with what the page keeps in it.                *)
PutRow(q) ==
    /\ Handling(q, "put") /\ request[q].id \in DOMAIN table
    /\ table' = [table EXCEPT ![request[q].id] = rows[request[q].row]]
    /\ Served(q, request[q].id, <<>>)
    /\ Outdate(q, request[q].id)
    /\ UNCHANGED <<lastId, rows, creator, retried, renewed>>

(* save merges: a record that was deleted is inserted again under another   *)
(* id, of which the page is not told.                                       *)
Put(q) ==
    /\ Handling(q, "put")
    /\ IF request[q].id \in DOMAIN table
       THEN /\ table' = [table EXCEPT ![request[q].id] = request[q].record]
            /\ Served(q, request[q].id, <<>>)
            /\ Outdate(q, request[q].id)
            /\ UNCHANGED <<lastId, creator>>
       ELSE Insert(q, FALSE) /\ UNCHANGED disturbed
    /\ UNCHANGED <<rows, retried, renewed>>

(* A record that is gone cannot be deleted (Fail).                          *)
Remove(q) ==
    /\ Handling(q, "delete") /\ request[q].id \in DOMAIN table
    /\ table' = [i \in DOMAIN table \ {request[q].id} |-> table[i]]
    /\ Served(q, request[q].id, <<>>)
    /\ Outdate(q, request[q].id)
    /\ UNCHANGED <<lastId, rows, creator, retried, renewed>>

(* updatePassword of UserService; no row is updated when the user is gone.   *)
ChangePassword(q) ==
    /\ Handling(q, "password")
    /\ table' = IF request[q].id \in DOMAIN table
                THEN [table EXCEPT ![request[q].id].password = "new"] ELSE table
    /\ renewed' = renewed \union {request[q].id}
    /\ Served(q, request[q].id, <<>>)
    /\ Outdate(q, request[q].id)
    /\ UNCHANGED <<lastId, rows, creator, retried>>

Serve(q) == Get(q) \/ Post(q) \/ Put(q) \/ Remove(q) \/ ChangePassword(q)

-----------------------------------------------------------------------------
Next ==
    \/ \E p \in Page : Create(p) \/ \E q \in Request : Fetch(q, p)
    \/ \E r \in Row :
          \/ \E d \in Data : Edit(r, d)
          \/ Forget(r)
          \/ \E q \in Request : Save(q, r) \/ Delete(q, r) \/ UpdatePassword(q, r)
    \/ \E q \in Request : Serve(q) \/ Answer(q) \/ Fail(q)

Spec == Init /\ [][Next]_vars

-----------------------------------------------------------------------------
(* Properties *)

Saved(r) ==
    /\ rows[r].listed /\ ~rows[r].editing /\ rows[r].id # 0
    /\ ~Busy(r)
    /\ r \notin disturbed \union retried

(* A row whose form is closed shows what the database has, whatever failed    *)
(* before, and a new one is being saved: a save that is refused or lost      *)
(* opens the form again.  Left out are rows with overlapping requests, rows  *)
(* whose record another row wrote, and rows that lost the answer to a POST   *)
(* or a DELETE.                                                             *)
ClosedRowIsStored ==
    \A r \in Row :
        /\ Saved(r) =>
              /\ rows[r].id \in DOMAIN table
              /\ table[rows[r].id].data = rows[r].record.data
        /\ rows[r].listed /\ ~rows[r].editing /\ rows[r].id = 0 => Busy(r)

(* A row is one record however often its form is saved (with the same        *)
(* exceptions): the second save is a PUT because the row learnt its id.      *)
OneRecordPerRow ==
    \A r \in Row \ (disturbed \union retried) :
        Cardinality({i \in DOMAIN table : creator[i] = r}) <= 1

-----------------------------------------------------------------------------
(* Why both hold: a row that is neither disturbed nor retried (Clean) has at *)
(* most one request under way, and until that is answered the row, the       *)
(* request and the record agree as far as the request has come.             *)

Clean(r) == r \notin disturbed \union retried
Asks(q, r) == UnderWay(q) /\ request[q].row = r

(* What is under way, on any row: a list is asked for by a page, anything    *)
(* else by a row that is used, and only a POST by one that may have no id.   *)
ListFits(q) ==
    /\ request[q].row = 0 /\ request[q].page # "none"
    /\ request[q].pc = "served" /\ ~request[q].stale => request[q].answer = table

ChangeFits(q) ==
    /\ request[q].row # 0 /\ rows[request[q].row].page # "none"
    /\ request[q].op # "post" => rows[request[q].row].id # 0 /\ request[q].id # 0
    /\ request[q].op = "post" /\ request[q].pc = "served" => request[q].id # 0

RequestsFit ==
    \A q \in Request :
        UnderWay(q) =>
            /\ request[q].op = "get" => ListFits(q)
            /\ request[q].op # "get" => ChangeFits(q)

ListedFit == \A r \in Row : rows[r].listed => rows[r].page # "none"
WaitingFit ==
    \A r \in Row :
        rows[r].listed /\ ~rows[r].editing /\ rows[r].id = 0 => Busy(r)
RowsFit == ListedFit /\ WaitingFit

IdsFit ==
    /\ \A i \in DOMAIN table : i <= lastId
    /\ \A i \in Id : creator[i] # 0 => rows[creator[i]].page # "none"

OneRequest(r) == \A q, x \in Request : Asks(q, r) /\ Asks(x, r) => q = x

(* The record is there, and the row shows it unless its form is open.        *)
Shows(r) ==
    /\ rows[r].id \in DOMAIN table
    /\ rows[r].listed /\ ~rows[r].editing =>
          table[rows[r].id].data = rows[r].record.data

(* The requests of a row, by what they ask for and how far they have come.   *)
PostFits(q, r) ==
    /\ rows[r].id = 0
    /\ request[q].pc = "served" =>
          /\ request[q].id \in DOMAIN table
          /\ table[request[q].id].data = request[q].record.data

PutFits(q, r) ==
    /\ request[q].id = rows[r].id /\ rows[r].id \in DOMAIN table
    /\ rows[r].listed /\ ~rows[r].editing =>
          rows[r].record.data = request[q].record.data
    /\ request[q].pc = "served" => table[rows[r].id].data = request[q].record.data

RequestFits(q, r) ==
    /\ request[q].op = "post" => PostFits(q, r)
    /\ request[q].op = "put" => PutFits(q, r)
    /\ request[q].op = "password" => request[q].id = rows[r].id /\ Shows(r)
    /\ request[q].op = "delete" =>
          /\ request[q].id = rows[r].id
          /\ request[q].pc = "sent" => Shows(r)

(* What a row inserted is its record, or the one of its POST.                *)
RowInserts(r) ==
    \A i \in DOMAIN table :
        creator[i] = r =>
            \/ rows[r].id # 0 /\ i = rows[r].id
            \/ \E q \in Request :
                  /\ Asks(q, r) /\ request[q].op = "post" /\ request[q].pc = "served"
                  /\ request[q].id = i

CleanRow(r) ==
    /\ OneRequest(r)
    /\ \A q \in Request : Asks(q, r) => RequestFits(q, r)
    /\ rows[r].listed /\ rows[r].id # 0 /\ ~Busy(r) => Shows(r)
    /\ RowInserts(r)

CleanRows == \A r \in Row : Clean(r) => CleanRow(r)

RecordInv == TypeOK /\ RequestsFit /\ RowsFit /\ IdsFit /\ CleanRows

-----------------------------------------------------------------------------
(* What the documentation says *)

(* UserResource: PUT on "/{id}" is "Update the user with the given ID."  It   *)
(* adds no user.                                                            *)
UpdatesAddNothing ==
    [][\A q \in Request :
          Handling(q, "put") /\ Put(q) => DOMAIN table' \subseteq DOMAIN table]_vars

(* updatePassword answers "Successfully changed password.": no save of       *)
(* something else brings the old one back.                                  *)
ChangedPasswordStays ==
    \A i \in renewed \intersect DOMAIN table : table[i].password = "new"
=============================================================================
