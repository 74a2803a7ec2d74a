------------------------------ MODULE UploadPage ------------------------------
(***************************************************************************)
(* The dialog that uploads a file of institutions and follows it.           *)
(*                                                                         *)
(* The dialog keeps uploads as row objects.  The row of the file that was   *)
(* uploaded is polled: a timer asks for the status, and the answer starts   *)
(* the timer again until it has an end time.  Opening the history replaces  *)
(* the rows by new ones that nobody polls, and leaves the old ones to their *)
(* timers.  The results of a row are fetched once.  Answers come in any     *)
(* order, and the server goes on in between (UploadProgress).               *)
(***************************************************************************)
EXTENDS UploadProgress

CONSTANTS
    Query,       \* bound: requests under way at a time
    MaxRows,     \* bound: row objects
    MaxResults   \* bound: results of an upload

Row == 1..MaxRows
Count == 0..MaxResults

ASSUME UploadPageAssumption ==
    MaxRows \in Nat /\ MaxResults \in Nat /\ "none" \notin Upload

VARIABLES
    row,          \* row objects
    showHistory,
    query,        \* requests under way
    asked         \* history: rows whose results were asked for, and not
                  \* twice at a time, after they showed the end

pageVars == <<row, showHistory, query, asked>>
vars == <<progressVars, pageVars>>

(* timer: one is running; lost: the answer that starts it will not come.    *)
RowState ==
    [upload : Upload \union {"none"}, listed : BOOLEAN, ended : BOOLEAN,
     line : Count, hasResults : BOOLEAN, results : Count,
     polled : BOOLEAN, timer : BOOLEAN, lost : BOOLEAN]
Snapshot == [Upload -> {"none", "running", "ended"}]
QueryState ==
    [pc : {"idle", "sent", "served"}, op : {"upload", "status", "history", "results"},
     row : Row \union {0}, upload : Upload \union {"none"},
     count : Count, ended : BOOLEAN, uploads : Snapshot]

NoRow == [upload |-> "none", listed |-> FALSE, ended |-> FALSE, line |-> 0,
          hasResults |-> FALSE, results |-> 0, polled |-> FALSE, timer |-> FALSE,
          lost |-> FALSE]
NoQuery == [pc |-> "idle", op |-> "upload", row |-> 0, upload |-> "none",
            count |-> 0, ended |-> FALSE, uploads |-> [u \in Upload |-> "none"]]

TypeOK ==
    /\ ProgressTypeOK
    /\ row \in [Row -> RowState]
    /\ showHistory \in BOOLEAN
    /\ query \in [Query -> QueryState]
    /\ asked \subseteq Row

Init ==
    /\ ProgressInit
    /\ row = [r \in Row |-> NoRow]
    /\ showHistory = FALSE
    /\ query = [q \in Query |-> NoQuery]
    /\ asked = {}

Unused == {r \in Row : row[r].upload = "none"}
UnderWay(q, op, r) == query[q].pc # "idle" /\ query[q].op = op /\ query[q].row = r

Sends(q, op, r, u) ==
    /\ query[q].pc = "idle"
    /\ query' = [query EXCEPT ![q] =
           [NoQuery EXCEPT !.pc = "sent", !.op = op, !.row = r, !.upload = u]]

Sent(q, op) == query[q].pc = "sent" /\ query[q].op = op
Served(q, op) == query[q].pc = "served" /\ query[q].op = op
Over(q) == query' = [query EXCEPT ![q] = NoQuery]

-----------------------------------------------------------------------------
(* What the user does *)

UploadFile(q, u) ==
    /\ progress[u] = "none"
    /\ \A x \in Query : query[x].op = "upload" => query[x].upload # u
    /\ Sends(q, "upload", 0, u)
    /\ UNCHANGED <<progressVars, row, showHistory, asked>>

ToggleHistory(q) ==
    /\ showHistory' = ~showHistory
    /\ IF ~showHistory THEN Sends(q, "history", 0, "none") ELSE UNCHANGED query
    /\ UNCHANGED <<progressVars, row, asked>>

(* The button is there while the upload is running, too.                    *)
ShowResults(q, r) ==
    /\ row[r].listed /\ ~row[r].hasResults
    /\ Sends(q, "results", r, row[r].upload)
    /\ asked' = IF row[r].ended /\ \A x \in Query : ~UnderWay(x, "results", r)
                THEN asked \union {r} ELSE asked \ {r}
    /\ UNCHANGED <<progressVars, row, showHistory>>

(* The timer of showStatus, as one that repeats.                            *)
PollRepeatedly(q, r) ==
    /\ row[r].timer
    /\ Sends(q, "status", r, row[r].upload)
    /\ UNCHANGED <<progressVars, row, showHistory, asked>>

(* The timer of showStatus.                                                 *)
Poll(q, r) ==
    /\ row[r].timer
    /\ row' = [row EXCEPT ![r].timer = FALSE]
    /\ Sends(q, "status", r, row[r].upload)
    /\ UNCHANGED <<progressVars, showHistory, asked>>

-----------------------------------------------------------------------------
(* The server *)

Serve(q, count, ended, uploads) ==
    query' = [query EXCEPT ![q].pc = "served", ![q].count = count,
                           ![q].ended = ended, ![q].uploads = uploads]

ServeUpload(q) ==
    /\ Sent(q, "upload")
    /\ Begin(query[q].upload)
    /\ Serve(q, 0, FALSE, query[q].uploads)
    /\ UNCHANGED <<row, showHistory, asked>>

(* getCSVStatus joins the upload with its results; count 0 is no row at all. *)
ServeStatus(q) ==
    /\ Sent(q, "status")
    /\ Serve(q, stored[query[q].upload], progress[query[q].upload] = "ended",
             query[q].uploads)
    /\ UNCHANGED <<progressVars, row, showHistory, asked>>

ServeHistory(q) ==
    /\ Sent(q, "history")
    /\ Serve(q, 0, FALSE, progress)
    /\ UNCHANGED <<progressVars, row, showHistory, asked>>

ServeResults(q) ==
    /\ Sent(q, "results")
    /\ Serve(q, stored[query[q].upload], FALSE, query[q].uploads)
    /\ UNCHANGED <<progressVars, row, showHistory, asked>>

Process(u) ==
    /\ \/ stored[u] < MaxResults /\ AddResult(u)
       \/ Finish(u)
    /\ UNCHANGED pageVars

-----------------------------------------------------------------------------
(* The answers *)

(* The upload is pushed on the list, and followed unless it has ended: the   *)
(* answer is written after the upload was started, at any time.             *)
PushUpload(q) ==
    /\ Served(q, "upload") /\ Unused # {}
    /\ LET r == CHOOSE r \in Unused : TRUE
       IN  \E ended \in {FALSE, progress[query[q].upload] = "ended"} :
              row' = [row EXCEPT ![r] = [NoRow EXCEPT
                 !.upload = query[q].upload, !.listed = TRUE, !.ended = ended,
                 !.polled = ~ended, !.timer = ~ended]]
    /\ showHistory' = TRUE
    /\ Over(q)
    /\ UNCHANGED <<progressVars, asked>>

(* The status is shown, and nobody starts the timer again.                  *)
ShowStatusOnce(q) ==
    /\ Served(q, "status")
    /\ row' = [row EXCEPT ![query[q].row].line = query[q].count,
                          ![query[q].row].ended = query[q].ended]
    /\ Over(q)
    /\ UNCHANGED <<progressVars, showHistory, asked>>

(* showStatus: response.data[0] is undefined while there is no result, the   *)
(* callback ends in an exception, and the polling is over.                  *)
ShowStatus(q) ==
    /\ Served(q, "status")
    /\ LET r == query[q].row
       IN  row' = CASE query[q].count = 0 -> [row EXCEPT ![r].lost = TRUE]
                    [] query[q].count > 0 /\ ~query[q].ended ->
                         [row EXCEPT ![r].line = query[q].count, ![r].timer = TRUE]
                    [] query[q].count > 0 /\ query[q].ended ->
                         [row EXCEPT ![r].ended = TRUE]
    /\ Over(q)
    /\ UNCHANGED <<progressVars, showHistory, asked>>

(* getUploads: new rows replace those of the list.                          *)
ShowHistory(q) ==
    /\ Served(q, "history")
    /\ LET listed == {u \in Upload : query[q].uploads[u] # "none"}
           places == {f \in [listed -> Unused] :
                        \A u, v \in listed : f[u] = f[v] => u = v}
           place == CHOOSE f \in places : TRUE
       IN  /\ places # {}
           /\ row' = [r \in Row |->
                IF \E u \in listed : place[u] = r
                THEN LET u == CHOOSE u \in listed : place[u] = r
                     IN  [NoRow EXCEPT !.upload = u, !.listed = TRUE,
                                       !.ended = query[q].uploads[u] = "ended"]
                ELSE [row[r] EXCEPT !.listed = FALSE]]
    /\ Over(q)
    /\ UNCHANGED <<progressVars, showHistory, asked>>

TakeResults(q) ==
    /\ Served(q, "results")
    /\ row' = [row EXCEPT ![query[q].row].hasResults = TRUE,
                          ![query[q].row].results = query[q].count]
    /\ Over(q)
    /\ UNCHANGED <<progressVars, showHistory, asked>>

Answer(q) == PushUpload(q) \/ ShowStatus(q) \/ ShowHistory(q) \/ TakeResults(q)

(* The request or its answer is lost; getCSVStatus never resolves then.      *)
Fail(q) ==
    /\ query[q].pc # "idle"
    /\ row' = IF query[q].op = "status"
              THEN [row EXCEPT ![query[q].row].lost = TRUE] ELSE row
    /\ Over(q)
    /\ UNCHANGED <<progressVars, showHistory, asked>>

-----------------------------------------------------------------------------
Handle(q) ==
    ServeUpload(q) \/ ServeStatus(q) \/ ServeHistory(q) \/ ServeResults(q)

Next ==
    \/ \E u \in Upload : Process(u)
    \/ \E q \in Query :
          \/ \E u \in Upload : UploadFile(q, u)
          \/ ToggleHistory(q)
          \/ \E r \in Row : ShowResults(q, r) \/ Poll(q, r)
          \/ Handle(q) \/ Answer(q) \/ Fail(q)

Spec == Init /\ [][Next]_vars

(* Timers fire, and requests are answered or fail.                          *)
FairSpec ==
    /\ Spec
    /\ \A r \in Row : SF_vars(\E q \in Query : Poll(q, r))
    /\ \A q \in Query : WF_vars(Handle(q) \/ Answer(q) \/ Fail(q))

-----------------------------------------------------------------------------
(* Properties *)

(* showStatus: a row that is followed has one timer or one request at a      *)
(* time, never two, and never none before its end, unless it was lost.      *)
FollowedOnce ==
    /\ \A q \in Query : \A r \in Row :
          UnderWay(q, "status", r) =>
              /\ row[r].polled /\ ~row[r].timer
              /\ \A x \in Query : UnderWay(x, "status", r) => x = q
    /\ \A r \in Row :
          row[r].polled =>
              \/ row[r].timer \/ row[r].ended \/ row[r].lost
              \/ \E q \in Query : UnderWay(q, "status", r)

(* The type invariant, and that rows are followed once.                     *)
PageInv == TypeOK /\ FollowedOnce

(* showStatus: the line number that a row shows never goes back, and an end  *)
(* stays, whatever the order of the answers: a row is asked about again only *)
(* after the last answer.                                                   *)
StatusNeverGoesBack ==
    [][\A r \in Row :
          row[r].line <= row'[r].line /\ (row[r].ended => row'[r].ended)]_vars

(* An end on the page means that no result is missing: the results of a row  *)
(* that are asked for when it shows the end are all there are.              *)
LateResultsAreComplete ==
    \A r \in asked : row[r].hasResults => row[r].results = stored[row[r].upload]

(* What a row shows is what the server had stored, and its end was one.      *)
RowsAreTrue ==
    \A r \in Row :
        /\ row[r].upload = "none" => row[r] = NoRow
        /\ row[r].timer => row[r].polled
        /\ row[r].upload # "none" =>
              /\ row[r].line <= stored[row[r].upload]
              /\ row[r].ended => progress[row[r].upload] = "ended"

(* So is an answer, and a status is no older than the line that its row      *)
(* shows.                                                                   *)
QueryIsTrue(q) ==
    LET r == query[q].row
        u == query[q].upload
        served == query[q].pc = "served"
    IN  /\ query[q].op # "history" => u \in Upload
        /\ query[q].op \in {"status", "results"} => r \in Row /\ row[r].upload = u
        /\ query[q].op = "status" /\ served =>
              /\ row[r].line <= query[q].count /\ query[q].count <= stored[u]
              /\ query[q].ended => progress[u] = "ended"
        /\ query[q].op = "history" =>
              \A v \in Upload :
                  query[q].uploads[v] = "ended" => progress[v] = "ended"
QueriesAreTrue == \A q \in Query : query[q].pc # "idle" => QueryIsTrue(q)

(* The results that were asked for after the end are all of them.           *)
AskedAreComplete ==
    \A r \in asked :
        /\ row[r].ended
        /\ row[r].hasResults => row[r].results = stored[row[r].upload]
        /\ \A q \in Query :
              UnderWay(q, "results", r) /\ query[q].pc = "served" =>
                  query[q].count = stored[row[r].upload]

(* The invariant that the proofs rest on.                                   *)
DialogInv ==
    /\ PageInv /\ (\A u \in Upload : stored[u] <= MaxResults)
    /\ RowsAreTrue /\ QueriesAreTrue /\ AskedAreComplete

(* The row that is polled shows the end of its upload, unless its polling   *)
(* was lost to a failed request or to a status without any result.          *)
EndIsShown ==
    \A r \in Row :
        row[r].polled /\ progress[row[r].upload] = "ended"
            ~> row[r].ended \/ row[r].lost

Shown(r) ==
    /\ row[r].listed /\ row[r].ended /\ row[r].hasResults
    /\ \A q \in Query : ~UnderWay(q, "results", r)

(* documentation.html: "If any errors occurred, click the Show history       *)
(* button to display the errors": a row that shows the end, and results, and *)
(* has asked for none, shows all of them.                                   *)
ErrorsAreDisplayed ==
    \A r \in Row : Shown(r) => row[r].results = stored[row[r].upload]
=============================================================================
