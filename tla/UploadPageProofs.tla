--------------------------- MODULE UploadPageProofs ---------------------------
(* Theorems about UploadPage, for every number of uploads, requests, rows    *)
(* and results.                                                             *)
EXTENDS UploadPage, TLAPS

-----------------------------------------------------------------------------
(* Facts about the parts of the state *)

LEMMA EmptyTypes == NoRow \in RowState /\ NoQuery \in QueryState
  BY UploadPageAssumption
     DEF NoRow, RowState, Count, NoQuery, QueryState, Snapshot, Row

LEMMA RequestType ==
    ASSUME TypeOK, NEW q \in Query,
           NEW op \in {"upload", "status", "history", "results"},
           NEW r \in Row \union {0}, NEW u \in Upload \union {"none"},
           Sends(q, op, r, u)
    PROVE  /\ query' \in [Query -> QueryState]
           /\ query[q].pc = "idle" /\ query'[q].pc = "sent"
           /\ query'[q].op = op /\ query'[q].row = r /\ query'[q].upload = u
           /\ query'[q].uploads = [v \in Upload |-> "none"]
           /\ \A x \in Query \ {q} : query'[x] = query[x]
  <1> DEFINE new == [NoQuery EXCEPT !.pc = "sent", !.op = op, !.row = r, !.upload = u]
  <1>1. NoQuery \in QueryState
    BY EmptyTypes
  <1>2. new \in QueryState
    BY <1>1 DEF QueryState
  <1>3. /\ new.pc = "sent" /\ new.op = op /\ new.row = r /\ new.upload = u
        /\ new.uploads = [v \in Upload |-> "none"]
    BY DEF NoQuery
  <1>4. query \in [Query -> QueryState] /\ query[q].pc = "idle"
        /\ query' = [query EXCEPT ![q] = new]
    BY DEF TypeOK, Sends
  <1> HIDE DEF new
  <1>5. QED
    BY <1>2, <1>3, <1>4

LEMMA AnswerType ==
    ASSUME TypeOK, NEW q \in Query, query[q].pc # "idle",
           NEW count \in Count, NEW ended \in BOOLEAN, NEW uploads \in Snapshot,
           Serve(q, count, ended, uploads)
    PROVE  /\ query' \in [Query -> QueryState]
           /\ query'[q].pc = "served" /\ query'[q].op = query[q].op
           /\ query'[q].row = query[q].row /\ query'[q].upload = query[q].upload
           /\ query'[q].count = count /\ query'[q].ended = ended
           /\ query'[q].uploads = uploads
           /\ \A x \in Query \ {q} : query'[x] = query[x]
  <1>1. query \in [Query -> QueryState] /\ query[q] \in QueryState
    BY DEF TypeOK
  <1> DEFINE new == [query[q] EXCEPT !.pc = "served", !.count = count,
                                     !.ended = ended, !.uploads = uploads]
  <1>2. query' = [query EXCEPT ![q] = new]
    BY <1>1 DEF Serve
  <1>3. /\ new \in QueryState
        /\ new.pc = "served" /\ new.op = query[q].op /\ new.row = query[q].row
        /\ new.upload = query[q].upload /\ new.count = count
        /\ new.ended = ended /\ new.uploads = uploads
    BY <1>1 DEF QueryState
  <1> HIDE DEF new
  <1>4. QED
    BY <1>1, <1>2, <1>3

LEMMA OverType ==
    ASSUME TypeOK, NEW q \in Query, Over(q)
    PROVE  /\ query' \in [Query -> QueryState]
           /\ query'[q].pc = "idle"
           /\ \A x \in Query \ {q} : query'[x] = query[x]
  <1>1. NoQuery \in QueryState /\ NoQuery.pc = "idle"
    BY EmptyTypes DEF NoQuery
  <1>2. query \in [Query -> QueryState] /\ query' = [query EXCEPT ![q] = NoQuery]
    BY DEF TypeOK, Over
  <1> HIDE DEF NoQuery
  <1>3. QED
    BY <1>1, <1>2

LEMMA PartTypes ==
    ASSUME TypeOK
    PROVE  /\ \A r \in Row : row[r] \in RowState
           /\ \A q \in Query : query[q] \in QueryState
           /\ \A u \in Upload : stored[u] \in Nat
           /\ progress \in Snapshot
  BY DEF TypeOK, ProgressTypeOK, Snapshot

-----------------------------------------------------------------------------
(* The server's steps *)

(* The server goes on: what the page knows was true, and no more than is.   *)
LEMMA ProcessStep ==
    ASSUME DialogInv, NEW u \in Upload, Process(u)
    PROVE  DialogInv'
  <1>1. /\ TypeOK /\ UNCHANGED pageVars
        /\ stored \in [Upload -> Nat] /\ progress \in Snapshot
        /\ MaxResults \in Nat
    BY UploadPageAssumption
       DEF DialogInv, PageInv, TypeOK, ProgressTypeOK, Snapshot, Process
  <1>2. /\ stored' \in [Upload -> Nat] /\ progress' \in Snapshot
        /\ \A v \in Upload :
              /\ stored[v] <= stored'[v] /\ stored'[v] <= MaxResults
              /\ progress[v] = "ended" =>
                    progress'[v] = "ended" /\ stored'[v] = stored[v]
    BY <1>1 DEF DialogInv, Process, AddResult, Finish, Snapshot
  <1>3. TypeOK'
    BY <1>1, <1>2 DEF TypeOK, ProgressTypeOK, Snapshot, pageVars
  <1>4. FollowedOnce'
    BY <1>1 DEF DialogInv, PageInv, FollowedOnce, UnderWay, pageVars
  <1>5. RowsAreTrue'
    <2> SUFFICES ASSUME NEW r \in Row, row[r].upload # "none"
                 PROVE  /\ row[r].line <= stored'[row[r].upload]
                        /\ row[r].ended => progress'[row[r].upload] = "ended"
      BY <1>1 DEF DialogInv, RowsAreTrue, pageVars
    <2>1. row[r] \in RowState
      BY <1>1, PartTypes
    <2>2. row[r].upload \in Upload /\ row[r].line \in Nat
      BY <2>1 DEF RowState, Count
    <2>3. QED
      BY <1>1, <1>2, <2>2 DEF DialogInv, RowsAreTrue
  <1>6. QueriesAreTrue'
    <2> SUFFICES ASSUME NEW q \in Query, query[q].pc # "idle" PROVE QueryIsTrue(q)'
      BY <1>1 DEF QueriesAreTrue, pageVars
    <2>1. query[q] \in QueryState /\ QueryIsTrue(q)
      BY <1>1, PartTypes DEF DialogInv, QueriesAreTrue
    <2>2. query[q].count \in Nat
      BY <2>1 DEF QueryState, Count
    <2>3. QED
      BY <1>1, <1>2, <2>1, <2>2 DEF QueryIsTrue, pageVars
  <1>7. AskedAreComplete'
    <2> SUFFICES ASSUME NEW r \in asked
                 PROVE  stored'[row[r].upload] = stored[row[r].upload]
      BY <1>1 DEF DialogInv, AskedAreComplete, UnderWay, pageVars
    <2>1. r \in Row /\ row[r] \in RowState /\ row[r].ended
      BY <1>1, PartTypes DEF DialogInv, AskedAreComplete, TypeOK
    <2>2. row[r].upload # "none"
      BY <2>1 DEF DialogInv, RowsAreTrue, NoRow
    <2>3. row[r].upload \in Upload /\ progress[row[r].upload] = "ended"
      BY <2>1, <2>2 DEF DialogInv, RowsAreTrue, RowState
    <2>4. QED
      BY <1>2, <2>3
  <1>8. QED
    BY <1>2, <1>3, <1>4, <1>5, <1>6, <1>7 DEF DialogInv, PageInv

(* An answer that the server makes, of what it has stored.                  *)
LEMMA ServeStep ==
    ASSUME DialogInv, NEW q \in Query,
           NEW count \in Count, NEW ended \in BOOLEAN, NEW uploads \in Snapshot,
           query[q].pc = "sent", Serve(q, count, ended, uploads),
           UNCHANGED <<row, showHistory, asked>>, UNCHANGED stored,
           progress' \in Snapshot,
           \A v \in Upload : progress[v] = "ended" => progress'[v] = "ended",
           query[q].op \in {"status", "results"} =>
               /\ count = stored[query[q].upload]
               /\ ended => progress[query[q].upload] = "ended",
           query[q].op = "history" => uploads = progress
    PROVE  DialogInv'
  <1>1. TypeOK /\ (\A u \in Upload : stored[u] <= MaxResults)
    BY DEF DialogInv, PageInv
  <1>2. /\ query' \in [Query -> QueryState]
        /\ query'[q].pc = "served" /\ query'[q].op = query[q].op
        /\ query'[q].row = query[q].row /\ query'[q].upload = query[q].upload
        /\ query'[q].count = count /\ query'[q].ended = ended
        /\ query'[q].uploads = uploads
        /\ \A x \in Query \ {q} : query'[x] = query[x]
    BY <1>1, AnswerType
  <1>3. TypeOK'
    BY <1>1, <1>2 DEF TypeOK, ProgressTypeOK, Snapshot
  <1>4. \A x \in Query : \A op, r : UnderWay(x, op, r)' <=> UnderWay(x, op, r)
    BY <1>2 DEF UnderWay
  <1>5. FollowedOnce'
    BY <1>4 DEF DialogInv, PageInv, FollowedOnce
  <1>6. RowsAreTrue'
    <2> SUFFICES ASSUME NEW r \in Row, row[r].upload # "none", row[r].ended
                 PROVE  progress'[row[r].upload] = "ended"
      BY DEF DialogInv, RowsAreTrue
    <2>1. row[r].upload \in Upload
      BY <1>1, PartTypes DEF RowState
    <2>2. QED
      BY <2>1 DEF DialogInv, RowsAreTrue
  <1>7. QueriesAreTrue'
    <2> SUFFICES ASSUME NEW x \in Query, query'[x].pc # "idle" PROVE QueryIsTrue(x)'
      BY DEF QueriesAreTrue
    <2>1. QueryIsTrue(x) /\ query[x] \in QueryState
      BY <1>1, <1>2, PartTypes DEF DialogInv, QueriesAreTrue
    <2>2. CASE x # q
      BY <1>2, <2>1, <2>2 DEF QueryIsTrue
    <2>3. CASE x = q
      <3>1. /\ query[q].op = "status" =>
                  row[query[q].row].line <= stored[query[q].upload]
            /\ query[q].op = "status" => stored[query[q].upload] \in Nat
        BY <1>1, <2>1, <2>3, PartTypes, UploadPageAssumption
           DEF DialogInv, RowsAreTrue, QueryIsTrue
      <3>2. QED
        BY <1>2, <2>1, <2>3, <3>1 DEF QueryIsTrue
    <2>4. QED
      BY <2>2, <2>3
  <1>8. AskedAreComplete'
    <2> SUFFICES ASSUME NEW r \in asked, NEW x \in Query,
                        UnderWay(x, "results", r), query'[x].pc = "served"
                 PROVE  query'[x].count = stored[row[r].upload]
      BY <1>4 DEF DialogInv, AskedAreComplete
    <2>1. CASE x # q
      BY <1>2, <2>1 DEF DialogInv, AskedAreComplete
    <2>2. CASE x = q
      <3>1. row[r].upload = query[q].upload
        BY <2>2 DEF UnderWay, DialogInv, QueriesAreTrue, QueryIsTrue
      <3>2. QED
        BY <1>2, <2>2, <3>1 DEF UnderWay
    <2>3. QED
      BY <2>1, <2>2
  <1>9. QED
    BY <1>1, <1>3, <1>5, <1>6, <1>7, <1>8 DEF DialogInv, PageInv

LEMMA HandleStep ==
    ASSUME DialogInv, NEW q \in Query, Handle(q)
    PROVE  DialogInv'
  <1>1. /\ TypeOK /\ query[q] \in QueryState
        /\ progress \in Snapshot /\ query[q].uploads \in Snapshot
        /\ 0 \in Count
    BY PartTypes, UploadPageAssumption DEF DialogInv, PageInv, QueryState, Count
  <1>2. query[q].pc = "sent" => QueryIsTrue(q)
    BY DEF DialogInv, QueriesAreTrue
  <1>3. \A u \in Upload : stored[u] \in Count
    <2> SUFFICES ASSUME NEW u \in Upload PROVE stored[u] \in Count
      OBVIOUS
    <2>1. stored[u] \in Nat /\ stored[u] <= MaxResults
      BY <1>1, PartTypes DEF DialogInv
    <2>2. MaxResults \in Nat
      BY UploadPageAssumption
    <2>3. QED
      BY <2>1, <2>2 DEF Count
  <1>4. CASE ServeUpload(q)
    <2>1. /\ query[q].op = "upload" /\ query[q].pc = "sent" /\ UNCHANGED stored
          /\ UNCHANGED <<row, showHistory, asked>>
          /\ Serve(q, 0, FALSE, query[q].uploads)
          /\ progress' \in Snapshot
          /\ \A v \in Upload : progress[v] = "ended" => progress'[v] = "ended"
      BY <1>1, <1>4 DEF ServeUpload, Sent, Begin, Snapshot
    <2>2. QED
      BY <1>1, <2>1, ServeStep
  <1>5. CASE ServeStatus(q)
    <2>1. query[q].upload \in Upload
      BY <1>2, <1>5 DEF ServeStatus, Sent, QueryIsTrue
    <2>2. UNCHANGED <<stored, progress>> /\ query[q].op = "status"
      BY <1>5 DEF ServeStatus, Sent, progressVars
    <2>3. QED
      BY <1>1, <1>3, <1>5, <2>1, <2>2, ServeStep DEF ServeStatus, Sent
  <1>6. CASE ServeHistory(q)
    <2>1. UNCHANGED <<stored, progress>> /\ query[q].op = "history"
      BY <1>6 DEF ServeHistory, Sent, progressVars
    <2>2. QED
      BY <1>1, <1>6, <2>1, ServeStep DEF ServeHistory, Sent
  <1>7. CASE ServeResults(q)
    <2>1. query[q].upload \in Upload
      BY <1>2, <1>7 DEF ServeResults, Sent, QueryIsTrue
    <2>2. UNCHANGED <<stored, progress>> /\ query[q].op = "results"
      BY <1>7 DEF ServeResults, Sent, progressVars
    <2>3. QED
      BY <1>1, <1>3, <1>7, <2>1, <2>2, ServeStep DEF ServeResults, Sent
  <1>8. QED
    BY <1>4, <1>5, <1>6, <1>7 DEF Handle

-----------------------------------------------------------------------------
(* The user's steps *)

(* A request that does not poll.                                            *)
LEMMA RequestStep ==
    ASSUME DialogInv, NEW q \in Query, NEW op \in {"upload", "history", "results"},
           NEW r \in Row \union {0}, NEW u \in Upload \union {"none"},
           Sends(q, op, r, u), UNCHANGED progressVars, row' = row,
           showHistory' \in BOOLEAN, asked' \subseteq Row,
           op = "upload" => u \in Upload,
           op = "results" => r \in Row /\ u \in Upload /\ row[r].upload = u,
           \A s \in asked' :
              \/ s \in asked
              \/ /\ row[s].ended /\ ~row[s].hasResults
                 /\ \A x \in Query : ~UnderWay(x, "results", s)
    PROVE  DialogInv'
  <1>1. TypeOK /\ stored' = stored /\ progress' = progress
        /\ (\A v \in Upload : stored[v] <= MaxResults)
    BY DEF DialogInv, PageInv, progressVars
  <1>2. /\ query' \in [Query -> QueryState]
        /\ query[q].pc = "idle" /\ query'[q].pc = "sent"
        /\ query'[q].op = op /\ query'[q].row = r /\ query'[q].upload = u
        /\ query'[q].uploads = [v \in Upload |-> "none"]
        /\ \A x \in Query \ {q} : query'[x] = query[x]
    BY <1>1, RequestType
  <1>3. TypeOK'
    BY <1>1, <1>2 DEF TypeOK, ProgressTypeOK
  <1>4. \A x \in Query, s \in Row :
            UnderWay(x, "status", s)' <=> UnderWay(x, "status", s)
    BY <1>2 DEF UnderWay
  <1>5. FollowedOnce'
    BY <1>4 DEF DialogInv, PageInv, FollowedOnce
  <1>6. RowsAreTrue'
    BY <1>1 DEF DialogInv, RowsAreTrue
  <1>7. QueriesAreTrue'
    <2> SUFFICES ASSUME NEW x \in Query, query'[x].pc # "idle" PROVE QueryIsTrue(x)'
      BY DEF QueriesAreTrue
    <2>1. CASE x = q
      BY <1>2, <2>1 DEF QueryIsTrue
    <2>2. CASE x # q
      BY <1>1, <1>2, <2>2 DEF DialogInv, QueriesAreTrue, QueryIsTrue
    <2>3. QED
      BY <2>1, <2>2
  <1>8. AskedAreComplete'
    <2> SUFFICES ASSUME NEW s \in asked'
                 PROVE  /\ row[s].ended
                        /\ row[s].hasResults => row[s].results = stored[row[s].upload]
                        /\ \A x \in Query :
                              UnderWay(x, "results", s)' /\ query'[x].pc = "served" =>
                                  query'[x].count = stored[row[s].upload]
      BY <1>1 DEF AskedAreComplete
    <2>1. CASE s \in asked
      BY <1>2, <2>1 DEF DialogInv, AskedAreComplete, UnderWay
    <2>2. CASE s \notin asked
      BY <1>2, <2>2 DEF UnderWay
    <2>3. QED
      BY <2>1, <2>2
  <1>9. QED
    BY <1>1, <1>3, <1>5, <1>6, <1>7, <1>8 DEF DialogInv, PageInv

LEMMA UserStep ==
    ASSUME DialogInv, NEW q \in Query,
           \/ \E u \in Upload : UploadFile(q, u)
           \/ ToggleHistory(q)
           \/ \E r \in Row : ShowResults(q, r)
    PROVE  DialogInv'
  <1>1. TypeOK /\ showHistory \in BOOLEAN /\ asked \subseteq Row
    BY DEF DialogInv, PageInv, TypeOK
  <1>2. ASSUME NEW u \in Upload, UploadFile(q, u) PROVE DialogInv'
    BY <1>1, <1>2, RequestStep DEF UploadFile
  <1>3. CASE ToggleHistory(q) /\ ~showHistory
    BY <1>1, <1>3, RequestStep DEF ToggleHistory
  <1>4. CASE ToggleHistory(q) /\ showHistory
    <2>1. /\ UNCHANGED <<stored, progress, row, query, asked>>
          /\ showHistory' \in BOOLEAN
      BY <1>1, <1>4 DEF ToggleHistory, progressVars
    <2>2. QED
      BY <2>1 DEF DialogInv, PageInv, TypeOK, ProgressTypeOK, FollowedOnce, UnderWay,
                  RowsAreTrue, QueriesAreTrue, QueryIsTrue, AskedAreComplete
  <1>5. ASSUME NEW r \in Row, ShowResults(q, r) PROVE DialogInv'
    <2>1. row[r].upload \in Upload
      <3>1. row[r] \in RowState /\ row[r].listed
        BY <1>1, <1>5, PartTypes DEF ShowResults
      <3>2. row[r].upload # "none"
        BY <3>1 DEF DialogInv, RowsAreTrue, NoRow
      <3>3. QED
        BY <3>1, <3>2 DEF RowState
    <2>2. /\ asked' \subseteq Row
          /\ \A s \in asked' :
                \/ s \in asked
                \/ /\ row[s].ended /\ ~row[s].hasResults
                   /\ \A x \in Query : ~UnderWay(x, "results", s)
      BY <1>1, <1>5 DEF ShowResults
    <2>3. QED
      BY <1>1, <1>5, <2>1, <2>2, RequestStep DEF ShowResults
  <1>6. QED
    BY <1>2, <1>3, <1>4, <1>5 DEF ToggleHistory

(* The timer of a row turns into its only request.                          *)
LEMMA PollStep ==
    ASSUME DialogInv, NEW q \in Query, NEW r \in Row, Poll(q, r)
    PROVE  DialogInv'
  <1>1. /\ TypeOK /\ stored' = stored /\ progress' = progress /\ asked' = asked
        /\ showHistory' = showHistory /\ (\A v \in Upload : stored[v] <= MaxResults)
    BY DEF DialogInv, PageInv, progressVars, Poll
  <1>2. /\ row[r] \in RowState /\ row \in [Row -> RowState]
        /\ row' = [row EXCEPT ![r].timer = FALSE] /\ row[r].timer
    BY <1>1 DEF TypeOK, Poll
  <1>3. row[r].upload \in Upload
    <2>1. row[r].upload # "none"
      BY <1>2 DEF DialogInv, RowsAreTrue, NoRow
    <2>2. QED
      BY <1>2, <2>1 DEF RowState
  <1>4. /\ query' \in [Query -> QueryState]
        /\ query[q].pc = "idle" /\ query'[q].pc = "sent"
        /\ query'[q].op = "status" /\ query'[q].row = r
        /\ query'[q].upload = row[r].upload
        /\ \A x \in Query \ {q} : query'[x] = query[x]
    BY <1>1, <1>3, RequestType DEF Poll
  <1>5. /\ row' \in [Row -> RowState]
        /\ \A s \in Row \ {r} : row'[s] = row[s]
        /\ row'[r] = [row[r] EXCEPT !.timer = FALSE]
        /\ row'[r].upload = row[r].upload /\ row'[r].line = row[r].line
        /\ row'[r].ended = row[r].ended /\ row'[r].hasResults = row[r].hasResults
        /\ row'[r].results = row[r].results /\ row'[r].polled = row[r].polled
        /\ ~row'[r].timer /\ row'[r].lost = row[r].lost
    BY <1>2 DEF RowState
  <1>6. TypeOK'
    BY <1>1, <1>4, <1>5 DEF TypeOK, ProgressTypeOK
  <1>7. \A x \in Query, s \in Row :
            UnderWay(x, "status", s)' <=> UnderWay(x, "status", s) \/ (x = q /\ s = r)
    BY <1>4 DEF UnderWay
  <1>8. FollowedOnce'
    <2>1. \A x \in Query : ~UnderWay(x, "status", r)
      BY <1>2 DEF DialogInv, PageInv, FollowedOnce
    <2>2. row[r].polled
      BY <1>2 DEF DialogInv, RowsAreTrue
    <2>3. ASSUME NEW x \in Query, NEW s \in Row, UnderWay(x, "status", s)'
          PROVE  /\ row'[s].polled /\ ~row'[s].timer
                 /\ \A y \in Query : UnderWay(y, "status", s)' => y = x
      <3>1. CASE s = r
        BY <1>5, <1>7, <2>1, <2>2, <2>3, <3>1
      <3>2. CASE s # r
        BY <1>5, <1>7, <2>3, <3>2 DEF DialogInv, PageInv, FollowedOnce
      <3>3. QED
        BY <3>1, <3>2
    <2>4. ASSUME NEW s \in Row, row'[s].polled
          PROVE  \/ row'[s].timer \/ row'[s].ended \/ row'[s].lost
                 \/ \E x \in Query : UnderWay(x, "status", s)'
      <3>1. CASE s = r
        BY <1>7, <3>1
      <3>2. CASE s # r
        BY <1>5, <1>7, <2>4, <3>2 DEF DialogInv, PageInv, FollowedOnce
      <3>3. QED
        BY <3>1, <3>2
    <2>5. QED
      BY <2>3, <2>4 DEF FollowedOnce
  <1>9. RowsAreTrue'
    <2> SUFFICES ASSUME NEW s \in Row
                 PROVE  /\ row'[s].upload = "none" => row'[s] = NoRow
                        /\ row'[s].timer => row'[s].polled
                        /\ row'[s].upload # "none" =>
                              /\ row'[s].line <= stored[row'[s].upload]
                              /\ row'[s].ended => progress[row'[s].upload] = "ended"
      BY <1>1 DEF RowsAreTrue
    <2>1. CASE s = r
      <3>1. row[r].upload # "none"
        BY <1>3, UploadPageAssumption
      <3>2. QED
        BY <1>5, <2>1, <3>1 DEF DialogInv, RowsAreTrue
    <2>2. CASE s # r
      BY <1>5, <2>2 DEF DialogInv, RowsAreTrue
    <2>3. QED
      BY <2>1, <2>2
  <1>10. QueriesAreTrue'
    <2> SUFFICES ASSUME NEW x \in Query, query'[x].pc # "idle" PROVE QueryIsTrue(x)'
      BY DEF QueriesAreTrue
    <2>1. CASE x = q
      BY <1>3, <1>4, <1>5, <2>1 DEF QueryIsTrue
    <2>2. CASE x # q
      <3>1. query'[x] = query[x] /\ QueryIsTrue(x)
        BY <1>4, <2>2 DEF DialogInv, QueriesAreTrue
      <3>2. \A s \in Row : row'[s].upload = row[s].upload /\ row'[s].line = row[s].line
        BY <1>5
      <3>3. QED
        BY <1>1, <3>1, <3>2 DEF QueryIsTrue
    <2>3. QED
      BY <2>1, <2>2
  <1>11. AskedAreComplete'
    <2>1. \A s \in Row : /\ row'[s].upload = row[s].upload
                         /\ row'[s].ended = row[s].ended
                         /\ row'[s].hasResults = row[s].hasResults
                         /\ row'[s].results = row[s].results
      BY <1>5
    <2>2. \A x \in Query, s \in Row :
              UnderWay(x, "results", s)' => query'[x] = query[x] /\ UnderWay(x, "results", s)
      BY <1>4 DEF UnderWay
    <2>3. QED
      BY <1>1, <2>1, <2>2 DEF DialogInv, AskedAreComplete, TypeOK
  <1>12. QED
    BY <1>1, <1>6, <1>8, <1>9, <1>10, <1>11 DEF DialogInv, PageInv

-----------------------------------------------------------------------------
(* The answers *)

(* An answer that is taken, whatever it does to the row r: the requests that *)
(* are left are as true as before.                                          *)
LEMMA TakenStep ==
    ASSUME DialogInv, NEW q \in Query, query[q].pc # "idle", Over(q),
           UNCHANGED progressVars, asked' = asked, showHistory' \in BOOLEAN,
           row' \in [Row -> RowState],
           \A s \in Row : row'[s].upload = row[s].upload \/ row[s].upload = "none",
           \A s \in Row : row'[s].line = row[s].line \/ row[s].upload = "none"
                          \/ UnderWay(q, "status", s),
           \A s \in Row : row[s].ended => row'[s].ended,
           RowsAreTrue', FollowedOnce',
           \A s \in asked : row'[s].hasResults => row'[s].results = stored[row[s].upload]
    PROVE  DialogInv'
  <1>1. /\ TypeOK /\ stored' = stored /\ progress' = progress
        /\ (\A v \in Upload : stored[v] <= MaxResults)
    BY DEF DialogInv, PageInv, progressVars
  <1>2. /\ query' \in [Query -> QueryState] /\ query'[q].pc = "idle"
        /\ \A x \in Query \ {q} : query'[x] = query[x]
    BY <1>1, OverType
  <1>3. TypeOK'
    BY <1>1, <1>2 DEF TypeOK, ProgressTypeOK
  <1>4. QueriesAreTrue'
    <2> SUFFICES ASSUME NEW x \in Query, query'[x].pc # "idle" PROVE QueryIsTrue(x)'
      BY DEF QueriesAreTrue
    <2>1. x # q /\ query'[x] = query[x] /\ QueryIsTrue(x)
      BY <1>2 DEF DialogInv, QueriesAreTrue
    <2> DEFINE s == query[x].row
    <2>2. CASE query[x].op \in {"status", "results"}
      <3>1. s \in Row /\ row[s].upload = query[x].upload /\ row[s].upload # "none"
        BY <2>1, <2>2, UploadPageAssumption DEF QueryIsTrue
      <3>2. row'[s].upload = row[s].upload
        BY <3>1
      <3>3. query[x].op = "status" => row'[s].line = row[s].line
        <4>1. query[x].op = "status" => UnderWay(x, "status", s)
          BY <2>1 DEF UnderWay
        <4>2. QED
          BY <2>1, <3>1, <4>1 DEF DialogInv, PageInv, FollowedOnce
      <3>4. QED
        BY <1>1, <2>1, <2>2, <3>1, <3>2, <3>3 DEF QueryIsTrue
    <2>3. CASE query[x].op \notin {"status", "results"}
      BY <1>1, <2>1, <2>3 DEF QueryIsTrue
    <2>4. QED
      BY <2>2, <2>3
  <1>5. AskedAreComplete'
    <2> SUFFICES ASSUME NEW s \in asked
                 PROVE  /\ row'[s].ended
                        /\ row'[s].hasResults => row'[s].results = stored[row'[s].upload]
                        /\ \A x \in Query :
                              UnderWay(x, "results", s)' /\ query'[x].pc = "served" =>
                                  query'[x].count = stored[row'[s].upload]
      BY <1>1 DEF AskedAreComplete
    <2>1. s \in Row /\ row[s].ended
      BY <1>1 DEF DialogInv, AskedAreComplete, TypeOK
    <2>2. row[s].upload # "none"
      BY <2>1 DEF DialogInv, RowsAreTrue, NoRow
    <2>3. row'[s].upload = row[s].upload
      BY <2>1, <2>2
    <2>4. QED
      BY <1>2, <2>1, <2>3 DEF DialogInv, AskedAreComplete, UnderWay
  <1>6. QED
    BY <1>1, <1>3, <1>4, <1>5 DEF DialogInv, PageInv

(* An answer that is taken leaves every row followed once that was, if the  *)
(* row that it is for gets its timer, its end or the loss.                  *)
LEMMA StillFollowed ==
    ASSUME TypeOK, FollowedOnce, NEW q \in Query, Over(q),
           \A s \in Row :
              \/ /\ ~UnderWay(q, "status", s)
                 /\ row'[s].polled = row[s].polled /\ row'[s].timer = row[s].timer
                 /\ row[s].ended => row'[s].ended
                 /\ row[s].lost => row'[s].lost
              \/ /\ UnderWay(q, "status", s) \/ ~row[s].polled
                 /\ row'[s].polled => row'[s].timer \/ row'[s].ended \/ row'[s].lost
    PROVE  FollowedOnce'
  <1>1. /\ query'[q].pc = "idle"
        /\ \A x \in Query \ {q} : query'[x] = query[x]
    BY OverType
  <1>2. \A x \in Query, s \in Row :
            UnderWay(x, "status", s)' <=> UnderWay(x, "status", s) /\ x # q
    BY <1>1 DEF UnderWay
  <1>3. ASSUME NEW x \in Query, NEW s \in Row, UnderWay(x, "status", s)'
        PROVE  /\ row'[s].polled /\ ~row'[s].timer
               /\ \A y \in Query : UnderWay(y, "status", s)' => y = x
    BY <1>2, <1>3 DEF FollowedOnce
  <1>4. ASSUME NEW s \in Row, row'[s].polled
        PROVE  \/ row'[s].timer \/ row'[s].ended \/ row'[s].lost
               \/ \E x \in Query : UnderWay(x, "status", s)'
    BY <1>2, <1>4 DEF FollowedOnce
  <1>5. QED
    BY <1>3, <1>4 DEF FollowedOnce

(* A change of one row.                                                     *)
LEMMA RowType ==
    ASSUME TypeOK, NEW r \in Row, NEW new \in RowState,
           row' = [row EXCEPT ![r] = new]
    PROVE  /\ row' \in [Row -> RowState]
           /\ row'[r] = new
           /\ \A s \in Row \ {r} : row'[s] = row[s]
  BY DEF TypeOK

LEMMA PushUploadStep ==
    ASSUME DialogInv, NEW q \in Query, PushUpload(q)
    PROVE  DialogInv'
  <1> DEFINE r == CHOOSE r \in Unused : TRUE
             pushed(ended) == [NoRow EXCEPT !.upload = query[q].upload,
                                  !.listed = TRUE, !.ended = ended,
                                  !.polled = ~ended, !.timer = ~ended]
  <1>a. PICK ended \in {FALSE, progress[query[q].upload] = "ended"} :
            row' = [row EXCEPT ![r] = pushed(ended)]
    BY DEF PushUpload
  <1>b. ended \in BOOLEAN /\ (ended => progress[query[q].upload] = "ended")
    BY <1>a
  <1> DEFINE new == pushed(ended)
  <1>1. /\ TypeOK /\ FollowedOnce /\ query[q].pc = "served" /\ query[q].op = "upload"
        /\ UNCHANGED progressVars /\ asked' = asked /\ showHistory' \in BOOLEAN
        /\ Over(q) /\ row' = [row EXCEPT ![r] = new]
    BY <1>a DEF DialogInv, PageInv, PushUpload, Served
  <1>2. r \in Row /\ row[r].upload = "none"
    BY DEF PushUpload, Unused
  <1>3. query[q].upload \in Upload
    BY <1>1 DEF DialogInv, QueriesAreTrue, QueryIsTrue
  <1>4. /\ new \in RowState
        /\ new.upload = query[q].upload /\ (new.timer <=> new.polled)
        /\ new.line = 0 /\ ~new.hasResults
        /\ new.ended => progress[new.upload] = "ended" /\ ~new.polled
        /\ new.polled => new.timer /\ ~new.ended
    BY <1>3, <1>b, EmptyTypes DEF RowState, NoRow
  <1>5. /\ row[r] = NoRow
        /\ ~row[r].polled /\ ~row[r].ended
    BY <1>2 DEF DialogInv, RowsAreTrue, NoRow
  <1> HIDE DEF r, new
  <1>6. /\ row' \in [Row -> RowState] /\ row'[r] = new
        /\ \A s \in Row \ {r} : row'[s] = row[s]
    BY <1>1, <1>2, <1>4, RowType
  <1>7. FollowedOnce'
    <2>1. \A s \in Row : ~UnderWay(q, "status", s)
      BY <1>1 DEF UnderWay
    <2>2. QED
      BY <1>1, <1>4, <1>5, <1>6, <2>1, StillFollowed
  <1>8. RowsAreTrue'
    <2> SUFFICES ASSUME NEW s \in Row
                 PROVE  /\ row'[s].upload = "none" => row'[s] = NoRow
                        /\ row'[s].timer => row'[s].polled
                        /\ row'[s].upload # "none" =>
                              /\ row'[s].line <= stored[row'[s].upload]
                              /\ row'[s].ended => progress[row'[s].upload] = "ended"
      BY <1>1 DEF RowsAreTrue, progressVars
    <2>1. CASE s = r
      <3>1. new.upload # "none" /\ 0 <= stored[new.upload]
        BY <1>1, <1>3, <1>4, PartTypes, UploadPageAssumption
      <3>2. QED
        BY <1>4, <1>6, <2>1, <3>1
    <2>2. CASE s # r
      BY <1>6, <2>2 DEF DialogInv, RowsAreTrue
    <2>3. QED
      BY <2>1, <2>2
  <1>9. \A s \in asked : row'[s].hasResults => row'[s].results = stored[row[s].upload]
    BY <1>1, <1>4, <1>6 DEF DialogInv, AskedAreComplete, TypeOK
  <1>10. QED
    <2>1. /\ \A s \in Row : row'[s].upload = row[s].upload \/ row[s].upload = "none"
          /\ \A s \in Row : row'[s].line = row[s].line \/ row[s].upload = "none"
          /\ \A s \in Row : row[s].ended => row'[s].ended
      BY <1>2, <1>5, <1>6
    <2>2. QED
      BY <1>1, <1>6, <1>7, <1>8, <1>9, <2>1, TakenStep

(* The row of a request under way is one that is used.                      *)
LEMMA RowOfQuery ==
    ASSUME DialogInv, NEW q \in Query, query[q].pc # "idle",
           query[q].op \in {"status", "results"}
    PROVE  /\ query[q].row \in Row
           /\ row[query[q].row].upload = query[q].upload
           /\ row[query[q].row].upload \in Upload
           /\ row[query[q].row].upload # "none"
           /\ row[query[q].row] \in RowState
  <1>1. TypeOK /\ QueryIsTrue(q)
    BY DEF DialogInv, PageInv, QueriesAreTrue
  <1>2. QED
    BY <1>1, PartTypes, UploadPageAssumption DEF QueryIsTrue

LEMMA ShowStatusStep ==
    ASSUME DialogInv, NEW q \in Query, ShowStatus(q)
    PROVE  DialogInv'
  <1> DEFINE r == query[q].row
             count == query[q].count
             new == IF count = 0 THEN [row[r] EXCEPT !.lost = TRUE]
                    ELSE IF query[q].ended THEN [row[r] EXCEPT !.ended = TRUE]
                    ELSE [row[r] EXCEPT !.line = count, !.timer = TRUE]
  <1>1. /\ TypeOK /\ FollowedOnce /\ query[q].pc = "served" /\ query[q].op = "status"
        /\ UNCHANGED progressVars /\ asked' = asked /\ showHistory' \in BOOLEAN
        /\ Over(q) /\ query[q] \in QueryState /\ row \in [Row -> RowState]
    BY DEF DialogInv, PageInv, TypeOK, ShowStatus, Served
  <1>2. /\ r \in Row /\ row[r].upload = query[q].upload
        /\ row[r].upload \in Upload /\ row[r].upload # "none" /\ row[r] \in RowState
    BY <1>1, RowOfQuery
  <1>3. count \in Count /\ count \in Nat /\ query[q].ended \in BOOLEAN
    BY <1>1 DEF QueryState, Count
  <1>4. row' = [row EXCEPT ![r] = new]
    <2>1. CASE count = 0
      BY <1>1, <1>2, <2>1 DEF ShowStatus
    <2>2. CASE count # 0 /\ ~query[q].ended
      <3>1. row' = [row EXCEPT ![r].line = count, ![r].timer = TRUE]
        BY <1>3, <2>2 DEF ShowStatus
      <3>2. [row EXCEPT ![r].line = count, ![r].timer = TRUE]
               = [row EXCEPT ![r] = [row[r] EXCEPT !.line = count, !.timer = TRUE]]
        BY <1>1, <1>2
      <3>3. new = [row[r] EXCEPT !.line = count, !.timer = TRUE]
        BY <2>2
      <3>4. QED
        BY <3>1, <3>2, <3>3
    <2>3. CASE count # 0 /\ query[q].ended
      BY <1>1, <1>2, <1>3, <2>3 DEF ShowStatus
    <2>4. QED
      BY <1>3, <2>1, <2>2, <2>3
  <1>5. UnderWay(q, "status", r) /\ row[r].polled
    BY <1>1, <1>2 DEF UnderWay, FollowedOnce
  <1>6. /\ row[r].line <= count /\ count <= stored[row[r].upload]
        /\ row[r].line <= stored[row[r].upload]
        /\ query[q].ended => progress[row[r].upload] = "ended"
        /\ row[r].ended => progress[row[r].upload] = "ended"
    BY <1>1, <1>2 DEF DialogInv, QueriesAreTrue, QueryIsTrue, RowsAreTrue
  <1>7. /\ new \in RowState
        /\ new.upload = row[r].upload /\ new.polled = row[r].polled
        /\ new.timer \/ new.ended \/ new.lost
        /\ new.line \in {row[r].line, count}
        /\ row[r].ended => new.ended
        /\ new.ended => row[r].ended \/ query[q].ended
        /\ new.hasResults = row[r].hasResults /\ new.results = row[r].results
    <2>1. CASE count = 0
      BY <1>2, <2>1 DEF RowState
    <2>2. CASE count # 0 /\ ~query[q].ended
      BY <1>2, <1>3, <2>2 DEF RowState
    <2>3. CASE count # 0 /\ query[q].ended
      BY <1>2, <1>3, <2>3 DEF RowState
    <2>4. QED
      BY <1>3, <2>1, <2>2, <2>3
  <1> HIDE DEF r, count, new
  <1>8. /\ row' \in [Row -> RowState] /\ row'[r] = new
        /\ \A s \in Row \ {r} : row'[s] = row[s]
    BY <1>1, <1>2, <1>4, <1>7, RowType
  <1>9. \A s \in Row \ {r} : ~UnderWay(q, "status", s)
    BY DEF UnderWay, r
  <1>10. FollowedOnce'
    BY <1>1, <1>5, <1>7, <1>8, <1>9, StillFollowed
  <1>11. RowsAreTrue'
    <2> SUFFICES ASSUME NEW s \in Row
                 PROVE  /\ row'[s].upload = "none" => row'[s] = NoRow
                        /\ row'[s].timer => row'[s].polled
                        /\ row'[s].upload # "none" =>
                              /\ row'[s].line <= stored[row'[s].upload]
                              /\ row'[s].ended => progress[row'[s].upload] = "ended"
      BY <1>1 DEF RowsAreTrue, progressVars
    <2>1. CASE s = r
      BY <1>2, <1>5, <1>6, <1>7, <1>8, <2>1
    <2>2. CASE s # r
      BY <1>8, <2>2 DEF DialogInv, RowsAreTrue
    <2>3. QED
      BY <2>1, <2>2
  <1>12. \A s \in asked : row'[s].hasResults => row'[s].results = stored[row[s].upload]
    <2> SUFFICES ASSUME NEW s \in asked, row'[s].hasResults
                 PROVE  row'[s].results = stored[row[s].upload]
      OBVIOUS
    <2>1. s \in Row /\ (row[s].hasResults => row[s].results = stored[row[s].upload])
      BY <1>1 DEF DialogInv, AskedAreComplete, TypeOK
    <2>2. QED
      BY <1>7, <1>8, <2>1
  <1>13. QED
    <2>1. /\ \A s \in Row : row'[s].upload = row[s].upload \/ row[s].upload = "none"
          /\ \A s \in Row : row'[s].line = row[s].line \/ row[s].upload = "none"
                            \/ UnderWay(q, "status", s)
          /\ \A s \in Row : row[s].ended => row'[s].ended
      BY <1>5, <1>7, <1>8
    <2>2. QED
      BY <1>1, <1>8, <1>10, <1>11, <1>12, <2>1, TakenStep

LEMMA TakeResultsStep ==
    ASSUME DialogInv, NEW q \in Query, TakeResults(q)
    PROVE  DialogInv'
  <1> DEFINE r == query[q].row
             new == [row[r] EXCEPT !.hasResults = TRUE, !.results = query[q].count]
  <1>1. /\ TypeOK /\ FollowedOnce /\ query[q].pc = "served" /\ query[q].op = "results"
        /\ UNCHANGED progressVars /\ asked' = asked /\ showHistory' \in BOOLEAN
        /\ Over(q) /\ query[q] \in QueryState /\ row \in [Row -> RowState]
    BY DEF DialogInv, PageInv, TypeOK, TakeResults, Served
  <1>2. r \in Row /\ row[r] \in RowState
    BY <1>1, RowOfQuery
  <1>3. row' = [row EXCEPT ![r] = new]
    BY <1>1, <1>2 DEF TakeResults
  <1>4. /\ new \in RowState
        /\ new.upload = row[r].upload /\ new.polled = row[r].polled
        /\ new.timer = row[r].timer /\ new.ended = row[r].ended
        /\ new.lost = row[r].lost /\ new.line = row[r].line
        /\ new.results = query[q].count
    BY <1>1, <1>2 DEF RowState, QueryState
  <1>5. UnderWay(q, "results", r) /\ \A s \in Row : ~UnderWay(q, "status", s)
    BY <1>1 DEF UnderWay
  <1>6. row[r].upload # "none"
    BY <1>1, RowOfQuery
  <1> HIDE DEF r, new
  <1>7. /\ row' \in [Row -> RowState] /\ row'[r] = new
        /\ \A s \in Row \ {r} : row'[s] = row[s]
    BY <1>1, <1>2, <1>3, <1>4, RowType
  <1>8. FollowedOnce'
    BY <1>1, <1>4, <1>5, <1>7, StillFollowed
  <1>9. RowsAreTrue'
    <2> SUFFICES ASSUME NEW s \in Row
                 PROVE  /\ row'[s].upload = "none" => row'[s] = NoRow
                        /\ row'[s].timer => row'[s].polled
                        /\ row'[s].upload # "none" =>
                              /\ row'[s].line <= stored[row'[s].upload]
                              /\ row'[s].ended => progress[row'[s].upload] = "ended"
      BY <1>1 DEF RowsAreTrue, progressVars
    <2>1. CASE s = r
      BY <1>4, <1>6, <1>7, <2>1 DEF DialogInv, RowsAreTrue
    <2>2. CASE s # r
      BY <1>7, <2>2 DEF DialogInv, RowsAreTrue
    <2>3. QED
      BY <2>1, <2>2
  <1>10. \A s \in asked : row'[s].hasResults => row'[s].results = stored[row[s].upload]
    <2> SUFFICES ASSUME NEW s \in asked, row'[s].hasResults
                 PROVE  row'[s].results = stored[row[s].upload]
      OBVIOUS
    <2>1. CASE s = r
      BY <1>1, <1>4, <1>5, <1>7, <2>1 DEF DialogInv, AskedAreComplete
    <2>2. CASE s # r
      <3>1. s \in Row /\ (row[s].hasResults => row[s].results = stored[row[s].upload])
        BY <1>1 DEF DialogInv, AskedAreComplete, TypeOK
      <3>2. QED
        BY <1>7, <2>2, <3>1
    <2>3. QED
      BY <2>1, <2>2
  <1>11. QED
    <2>1. /\ \A s \in Row : row'[s].upload = row[s].upload
          /\ \A s \in Row : row'[s].line = row[s].line
          /\ \A s \in Row : row[s].ended => row'[s].ended
      BY <1>4, <1>7
    <2>2. QED
      BY <1>1, <1>7, <1>8, <1>9, <1>10, <2>1, TakenStep

(* The rows that the history puts in the place of the old ones are unused   *)
(* before; the old ones only leave the list.                                *)
LEMMA ShowHistoryRows ==
    ASSUME DialogInv, NEW q \in Query, ShowHistory(q)
    PROVE  \A s \in Row :
              \/ row'[s] = [row[s] EXCEPT !.listed = FALSE]
              \/ /\ row[s].upload = "none"
                 /\ \E u \in Upload :
                       row'[s] = [NoRow EXCEPT !.upload = u, !.listed = TRUE,
                                     !.ended = query[q].uploads[u] = "ended"]
  <1> DEFINE listed == {u \in Upload : query[q].uploads[u] # "none"}
             places == {f \in [listed -> Unused] :
                           \A u, v \in listed : f[u] = f[v] => u = v}
             place == CHOOSE f \in places : TRUE
             rowOf(u) == [NoRow EXCEPT !.upload = u, !.listed = TRUE,
                             !.ended = query[q].uploads[u] = "ended"]
             rowAt(s) == IF \E u \in listed : place[u] = s
                         THEN rowOf(CHOOSE u \in listed : place[u] = s)
                         ELSE [row[s] EXCEPT !.listed = FALSE]
  <1>1. places # {} /\ row' = [s \in Row |-> rowAt(s)]
    BY DEF ShowHistory
  <1>2. place \in [listed -> Unused]
    <2>1. place \in places
      BY <1>1
    <2>2. QED
      BY <2>1
  <1> SUFFICES ASSUME NEW s \in Row
               PROVE  \/ rowAt(s) = [row[s] EXCEPT !.listed = FALSE]
                      \/ row[s].upload = "none" /\ \E u \in Upload : rowAt(s) = rowOf(u)
    BY <1>1
  <1>3. CASE \E u \in listed : place[u] = s
    <2> DEFINE u == CHOOSE u \in listed : place[u] = s
    <2>1. u \in listed /\ place[u] = s
      BY <1>3
    <2>2. s \in Unused
      <3> HIDE DEF u, place, listed
      <3>1. QED
        BY <1>2, <2>1
    <2>3. rowAt(s) = rowOf(u)
      BY <1>3
    <2>4. QED
      BY <2>1, <2>2, <2>3 DEF Unused
  <1>4. CASE ~\E u \in listed : place[u] = s
    BY <1>4
  <1>5. QED
    BY <1>3, <1>4

LEMMA ShowHistoryStep ==
    ASSUME DialogInv, NEW q \in Query, ShowHistory(q)
    PROVE  DialogInv'
  <1>1. /\ TypeOK /\ FollowedOnce /\ query[q].pc = "served" /\ query[q].op = "history"
        /\ UNCHANGED progressVars /\ asked' = asked /\ showHistory' \in BOOLEAN
        /\ Over(q) /\ row \in [Row -> RowState]
    BY DEF DialogInv, PageInv, TypeOK, ShowHistory, Served
  <1>2. \A u \in Upload : query[q].uploads[u] = "ended" => progress[u] = "ended"
    BY <1>1 DEF DialogInv, QueriesAreTrue, QueryIsTrue
  <1> DEFINE Same(s) == /\ row'[s] \in RowState
                        /\ row'[s].upload = row[s].upload
                        /\ row'[s].line = row[s].line /\ row'[s].ended = row[s].ended
                        /\ row'[s].hasResults = row[s].hasResults
                        /\ row'[s].results = row[s].results
                        /\ row'[s].polled = row[s].polled
                        /\ row'[s].timer = row[s].timer /\ row'[s].lost = row[s].lost
                        /\ row[s].upload = "none" => row'[s] = NoRow
             New(s) == /\ row'[s] \in RowState
                       /\ row[s] = NoRow
                       /\ row'[s].upload \in Upload /\ row'[s].line = 0
                       /\ ~row'[s].polled /\ ~row'[s].timer /\ ~row'[s].hasResults
                       /\ row'[s].ended => progress[row'[s].upload] = "ended"
  <1>3. ASSUME NEW s \in Row PROVE Same(s) \/ New(s)
    <2>1. row[s] \in RowState /\ (row[s].upload = "none" => row[s] = NoRow)
      BY <1>1 DEF DialogInv, RowsAreTrue
    <2>2. CASE row'[s] = [row[s] EXCEPT !.listed = FALSE]
      <3>1. [NoRow EXCEPT !.listed = FALSE] = NoRow
        <4>1. NoRow \in RowState /\ NoRow.listed = FALSE
          BY EmptyTypes DEF NoRow
        <4> HIDE DEF NoRow
        <4>2. QED
          BY <4>1 DEF RowState
      <3>2. QED
        BY <2>1, <2>2, <3>1 DEF RowState
    <2>3. CASE row[s].upload = "none" /\ \E u \in Upload :
                   row'[s] = [NoRow EXCEPT !.upload = u, !.listed = TRUE,
                                 !.ended = query[q].uploads[u] = "ended"]
      <3>1. PICK u \in Upload :
                row'[s] = [NoRow EXCEPT !.upload = u, !.listed = TRUE,
                              !.ended = query[q].uploads[u] = "ended"]
        BY <2>3
      <3>2. row'[s] \in RowState
        BY <3>1, EmptyTypes DEF RowState
      <3>3. /\ row'[s].upload = u /\ row'[s].line = 0
            /\ ~row'[s].polled /\ ~row'[s].timer /\ ~row'[s].hasResults
            /\ row'[s].ended = (query[q].uploads[u] = "ended")
        BY <3>1 DEF NoRow
      <3>4. New(s)
        BY <1>2, <2>1, <2>3, <3>2, <3>3
      <3>5. QED
        BY <3>4
    <2>4. QED
      BY <2>2, <2>3, ShowHistoryRows
  <1>4. \A s \in Row : New(s) => ~row[s].polled /\ ~row[s].ended /\ row[s].upload = "none"
    BY DEF NoRow
  <1>5. row' \in [Row -> RowState]
    <2>1. \A s \in Row : row'[s] \in RowState
      BY <1>3
    <2>2. row' = [s \in Row |-> row'[s]]
      BY DEF ShowHistory
    <2>3. QED
      BY <2>1, <2>2
  <1> HIDE DEF Same, New
  <1>6. \A s \in Row : ~UnderWay(q, "status", s)
    BY <1>1 DEF UnderWay
  <1>7. FollowedOnce'
    <2>1. ASSUME NEW s \in Row
          PROVE \/ /\ ~UnderWay(q, "status", s)
                   /\ row'[s].polled = row[s].polled /\ row'[s].timer = row[s].timer
                   /\ row[s].ended => row'[s].ended
                   /\ row[s].lost => row'[s].lost
                \/ /\ UnderWay(q, "status", s) \/ ~row[s].polled
                   /\ row'[s].polled => row'[s].timer \/ row'[s].ended \/ row'[s].lost
      BY <1>3, <1>4, <1>6 DEF Same, New
    <2>2. QED
      BY <1>1, <2>1, StillFollowed
  <1>8. RowsAreTrue'
    <2> SUFFICES ASSUME NEW s \in Row
                 PROVE  /\ row'[s].upload = "none" => row'[s] = NoRow
                        /\ row'[s].timer => row'[s].polled
                        /\ row'[s].upload # "none" =>
                              /\ row'[s].line <= stored[row'[s].upload]
                              /\ row'[s].ended => progress[row'[s].upload] = "ended"
      BY <1>1 DEF RowsAreTrue, progressVars
    <2>1. CASE Same(s)
      BY <2>1 DEF Same, DialogInv, RowsAreTrue
    <2>2. CASE New(s)
      <3>1. row'[s].upload # "none" /\ 0 <= stored[row'[s].upload]
        BY <1>1, <2>2, PartTypes, UploadPageAssumption DEF New
      <3>2. QED
        BY <2>2, <3>1 DEF New
    <2>3. QED
      BY <1>3, <2>1, <2>2
  <1>9. \A s \in asked : row'[s].hasResults => row'[s].results = stored[row[s].upload]
    <2> SUFFICES ASSUME NEW s \in asked, row'[s].hasResults
                 PROVE  row'[s].results = stored[row[s].upload]
      OBVIOUS
    <2>1. s \in Row /\ (row[s].hasResults => row[s].results = stored[row[s].upload])
      BY <1>1 DEF DialogInv, AskedAreComplete, TypeOK
    <2>2. QED
      BY <1>3, <2>1 DEF Same, New
  <1>10. QED
    <2>1. /\ \A s \in Row : row'[s].upload = row[s].upload \/ row[s].upload = "none"
          /\ \A s \in Row : row'[s].line = row[s].line \/ row[s].upload = "none"
          /\ \A s \in Row : row[s].ended => row'[s].ended
      BY <1>3, <1>4 DEF Same
    <2>2. QED
      BY <1>1, <1>5, <1>7, <1>8, <1>9, <2>1, TakenStep

(* A request that is lost takes the polling of its row with it.             *)
LEMMA FailStep ==
    ASSUME DialogInv, NEW q \in Query, Fail(q)
    PROVE  DialogInv'
  <1>1. /\ TypeOK /\ FollowedOnce /\ query[q].pc # "idle"
        /\ UNCHANGED progressVars /\ asked' = asked /\ showHistory' \in BOOLEAN
        /\ Over(q) /\ row \in [Row -> RowState]
    BY DEF DialogInv, PageInv, TypeOK, Fail
  <1>2. ASSUME NEW s \in Row
        PROVE  /\ row'[s] \in RowState
               /\ row'[s].upload = row[s].upload
               /\ row'[s].line = row[s].line /\ row'[s].ended = row[s].ended
               /\ row'[s].hasResults = row[s].hasResults
               /\ row'[s].results = row[s].results
               /\ row'[s].polled = row[s].polled
               /\ row'[s].timer = row[s].timer
               /\ UnderWay(q, "status", s) => row'[s].lost
               /\ row[s].lost => row'[s].lost
               /\ ~UnderWay(q, "status", s) => row'[s] = row[s]
    BY <1>1 DEF Fail, UnderWay, RowState
  <1>3. row' \in [Row -> RowState]
    BY <1>1, <1>2 DEF Fail
  <1>4. FollowedOnce'
    <2>1. ASSUME NEW s \in Row
          PROVE \/ /\ ~UnderWay(q, "status", s)
                   /\ row'[s].polled = row[s].polled /\ row'[s].timer = row[s].timer
                   /\ row[s].ended => row'[s].ended
                   /\ row[s].lost => row'[s].lost
                \/ /\ UnderWay(q, "status", s) \/ ~row[s].polled
                   /\ row'[s].polled => row'[s].timer \/ row'[s].ended \/ row'[s].lost
      BY <1>2
    <2>2. QED
      BY <1>1, <2>1, StillFollowed
  <1>5. RowsAreTrue'
    <2> SUFFICES ASSUME NEW s \in Row
                 PROVE  /\ row'[s].upload = "none" => row'[s] = NoRow
                        /\ row'[s].timer => row'[s].polled
                        /\ row'[s].upload # "none" =>
                              /\ row'[s].line <= stored[row'[s].upload]
                              /\ row'[s].ended => progress[row'[s].upload] = "ended"
      BY <1>1 DEF RowsAreTrue, progressVars
    <2>1. row[s].upload = "none" => ~UnderWay(q, "status", s)
      BY <1>1, RowOfQuery DEF UnderWay
    <2>2. QED
      BY <1>2, <2>1 DEF DialogInv, RowsAreTrue
  <1>6. \A s \in asked : row'[s].hasResults => row'[s].results = stored[row[s].upload]
    BY <1>1, <1>2 DEF DialogInv, AskedAreComplete, TypeOK
  <1>7. QED
    BY <1>1, <1>2, <1>3, <1>4, <1>5, <1>6, TakenStep

-----------------------------------------------------------------------------
(* The theorems *)

LEMMA InitInv == Init => DialogInv
  <1> SUFFICES ASSUME Init PROVE DialogInv
    OBVIOUS
  <1>1. /\ stored = [u \in Upload |-> 0] /\ progress = [u \in Upload |-> "none"]
        /\ row = [r \in Row |-> NoRow] /\ showHistory = FALSE
        /\ query = [q \in Query |-> NoQuery] /\ asked = {}
    BY DEF Init, ProgressInit
  <1>2. TypeOK
    BY <1>1, EmptyTypes DEF TypeOK, ProgressTypeOK
  <1>3. /\ \A q \in Query : query[q].pc = "idle"
        /\ \A r \in Row : /\ row[r] = NoRow /\ row[r].upload = "none"
                          /\ ~row[r].polled /\ ~row[r].timer
    BY <1>1 DEF NoQuery, NoRow
  <1>4. FollowedOnce /\ RowsAreTrue /\ QueriesAreTrue /\ AskedAreComplete
    BY <1>1, <1>3 DEF FollowedOnce, RowsAreTrue, QueriesAreTrue, AskedAreComplete, UnderWay
  <1>5. \A u \in Upload : stored[u] <= MaxResults
    <2> SUFFICES ASSUME NEW u \in Upload PROVE stored[u] <= MaxResults
      OBVIOUS
    <2>1. stored[u] = 0 /\ MaxResults \in Nat
      BY <1>1, UploadPageAssumption
    <2>2. QED
      BY <2>1
  <1>6. QED
    BY <1>2, <1>4, <1>5 DEF DialogInv, PageInv

LEMMA NextInv == DialogInv /\ [Next]_vars => DialogInv'
  <1> SUFFICES ASSUME DialogInv, [Next]_vars PROVE DialogInv'
    OBVIOUS
  <1>1. ASSUME NEW u \in Upload, Process(u) PROVE DialogInv'
    BY <1>1, ProcessStep
  <1>2. ASSUME NEW q \in Query,
               (\E u \in Upload : UploadFile(q, u)) \/ ToggleHistory(q)
        PROVE  DialogInv'
    BY <1>2, UserStep
  <1>3. ASSUME NEW q \in Query, NEW r \in Row, ShowResults(q, r) \/ Poll(q, r)
        PROVE  DialogInv'
    BY <1>3, UserStep, PollStep
  <1>4. ASSUME NEW q \in Query, Handle(q) \/ Answer(q) \/ Fail(q) PROVE DialogInv'
    BY <1>4, HandleStep, PushUploadStep, ShowStatusStep, ShowHistoryStep,
       TakeResultsStep, FailStep DEF Answer
  <1>5. CASE UNCHANGED vars
    BY <1>5 DEF vars, progressVars, pageVars, DialogInv, PageInv, TypeOK, ProgressTypeOK,
                FollowedOnce, UnderWay, RowsAreTrue, QueriesAreTrue, QueryIsTrue,
                AskedAreComplete
  <1>6. QED
    BY <1>1, <1>2, <1>3, <1>4, <1>5 DEF Next

(* The inductive invariant of the dialog, which the others are parts of.    *)
THEOREM DialogInvariance == Spec => []DialogInv
  BY InitInv, NextInv, PTL DEF Spec

(* A row that showStatus follows has one timer or one request, never two,   *)
(* and none only when it shows the end or was lost, in whatever order the   *)
(* answers come and however often the list is replaced.                     *)
THEOREM RowsAreFollowedOnce == Spec => []PageInv
  <1>1. DialogInv => PageInv
    BY DEF DialogInv
  <1>2. QED
    BY <1>1, DialogInvariance, PTL

(* Results that are asked for when a row shows the end are all the results  *)
(* that processCSVFile stores for it.                                       *)
THEOREM LateResults == Spec => []LateResultsAreComplete
  <1>1. DialogInv => LateResultsAreComplete
    BY DEF DialogInv, AskedAreComplete, LateResultsAreComplete
  <1>2. QED
    BY <1>1, DialogInvariance, PTL

(* An answer that a row takes is no older than what the row shows.          *)
LEMMA StatusGoesOn ==
    DialogInv /\ [Next]_vars =>
        [\A r \in Row :
            row[r].line <= row'[r].line /\ (row[r].ended => row'[r].ended)]_vars
  <1> SUFFICES ASSUME DialogInv, Next, NEW r \in Row
               PROVE  row[r].line <= row'[r].line /\ (row[r].ended => row'[r].ended)
    OBVIOUS
  <1>1. /\ TypeOK /\ row \in [Row -> RowState]
        /\ row[r] \in RowState /\ row[r].line \in Nat
        /\ row[r].upload = "none" => row[r] = NoRow
    BY PartTypes DEF DialogInv, PageInv, TypeOK, RowsAreTrue, RowState, Count
  <1>2. CASE row' = row
    BY <1>1, <1>2
  <1>3. ASSUME NEW q \in Query, NEW s \in Row, Poll(q, s)
        PROVE  row[r].line <= row'[r].line /\ (row[r].ended => row'[r].ended)
    BY <1>1, <1>3 DEF Poll, RowState
  <1>4. ASSUME NEW q \in Query, PushUpload(q)
        PROVE  row[r].line <= row'[r].line /\ (row[r].ended => row'[r].ended)
    <2> DEFINE s == CHOOSE r2 \in Unused : TRUE
               pushed(ended) == [NoRow EXCEPT !.upload = query[q].upload,
                                    !.listed = TRUE, !.ended = ended,
                                    !.polled = ~ended, !.timer = ~ended]
    <2>a. PICK ended \in {FALSE, progress[query[q].upload] = "ended"} :
              row' = [row EXCEPT ![s] = pushed(ended)]
      BY <1>4 DEF PushUpload
    <2> DEFINE new == pushed(ended)
    <2>1. s \in Row /\ row[s].upload = "none" /\ row' = [row EXCEPT ![s] = new]
      BY <1>4, <2>a DEF PushUpload, Unused
    <2>2. new.line = 0
      BY DEF NoRow
    <2> HIDE DEF s, new
    <2>3. CASE r = s
      BY <1>1, <2>1, <2>2, <2>3 DEF NoRow
    <2>4. CASE r # s
      BY <1>1, <2>1, <2>4
    <2>5. QED
      BY <2>3, <2>4
  <1>5. ASSUME NEW q \in Query, ShowStatus(q)
        PROVE  row[r].line <= row'[r].line /\ (row[r].ended => row'[r].ended)
    <2>1. /\ query[q] \in QueryState /\ query[q].pc = "served" /\ query[q].op = "status"
          /\ QueryIsTrue(q)
      BY <1>1, <1>5, PartTypes DEF ShowStatus, Served, DialogInv, QueriesAreTrue
    <2>2. /\ query[q].row \in Row /\ row[query[q].row] \in RowState
          /\ row[query[q].row].line <= query[q].count
          /\ query[q].count \in Nat /\ query[q].ended \in BOOLEAN
      BY <1>1, <2>1, PartTypes DEF QueryIsTrue, QueryState, Count
    <2>3. \/ row' = [row EXCEPT ![query[q].row].lost = TRUE]
          \/ row' = [row EXCEPT ![query[q].row].line = query[q].count,
                                ![query[q].row].timer = TRUE]
          \/ row' = [row EXCEPT ![query[q].row].ended = TRUE]
      <3>1. CASE query[q].count = 0
        BY <1>5, <3>1 DEF ShowStatus
      <3>2. CASE query[q].count > 0 /\ ~query[q].ended
        BY <1>5, <2>2, <3>2 DEF ShowStatus
      <3>3. CASE query[q].count > 0 /\ query[q].ended
        BY <1>5, <2>2, <3>3 DEF ShowStatus
      <3>4. QED
        BY <2>2, <3>1, <3>2, <3>3
    <2>4. QED
      BY <1>1, <2>2, <2>3 DEF RowState
  <1>6. ASSUME NEW q \in Query, ShowHistory(q)
        PROVE  row[r].line <= row'[r].line /\ (row[r].ended => row'[r].ended)
    <2>1. CASE row'[r] = [row[r] EXCEPT !.listed = FALSE]
      BY <1>1, <2>1 DEF RowState
    <2>2. CASE row[r].upload = "none" /\ \E u \in Upload :
                   row'[r] = [NoRow EXCEPT !.upload = u, !.listed = TRUE,
                                 !.ended = query[q].uploads[u] = "ended"]
      BY <1>1, <2>2 DEF NoRow
    <2>3. QED
      BY <1>6, <2>1, <2>2, ShowHistoryRows
  <1>7. ASSUME NEW q \in Query, TakeResults(q) \/ Fail(q)
        PROVE  row[r].line <= row'[r].line /\ (row[r].ended => row'[r].ended)
    BY <1>1, <1>7 DEF TakeResults, Fail, RowState
  <1>8. QED
    <2>1. \/ row' = row
          \/ \E q \in Query :
                \/ \E s \in Row : Poll(q, s)
                \/ Answer(q) \/ Fail(q)
      BY DEF Next, Process, pageVars, UploadFile, ToggleHistory, ShowResults, Handle,
             ServeUpload, ServeStatus, ServeHistory, ServeResults
    <2>2. QED
      BY <1>2, <1>3, <1>4, <1>5, <1>6, <1>7, <2>1 DEF Answer

(* The line that a row shows never goes back, and its end stays.            *)
THEOREM RowsNeverGoBack == Spec => StatusNeverGoesBack
  BY DialogInvariance, StatusGoesOn, PTL DEF Spec, StatusNeverGoesBack
===============================================================================
