----------------------- MODULE InstitutionUploadProofs -----------------------
(* Theorems about InstitutionUpload, for every number of uploads,           *)
(* organizations, codes, changes and crashes.                               *)
EXTENDS InstitutionUploadProgress, FiniteSetTheorems, TLAPS

-----------------------------------------------------------------------------
(* Facts about the parts of the state *)

LEMMA EmptyTypes == NoResult \in Result /\ NoUpload \in UploadState
  BY UploadAssumption
     DEF NoResult, Result, Outcome, NoUpload, UploadState, Active, OrgId

(* Report changes one upload, to a state of its type.                       *)
LEMMA ReportType ==
    ASSUME TypeOK, NEW u \in Upload, NEW outcome \in Outcome,
           NEW i \in 0..MaxOrg, Report(u, outcome, i)
    PROVE  /\ upload' \in [Upload -> UploadState]
           /\ \A v \in Upload \ {u} : upload'[v] = upload[v]
           /\ upload'[u].pc = "report"
           /\ upload'[u].organization = upload[u].organization
           /\ upload'[u].provider = upload[u].provider
           /\ upload'[u].result.institution = i
           /\ upload'[u].result.outcome = outcome
           /\ upload'[u].result \in Result
  <1>1. upload[u] \in UploadState /\ upload \in [Upload -> UploadState]
    BY DEF TypeOK
  <1>2. [line |-> upload[u].line, outcome |-> outcome, institution |-> i] \in Result
    BY <1>1 DEF UploadState, Result
  <1>3. upload' = [upload EXCEPT ![u] =
                      [upload[u] EXCEPT !.pc = "report", !.found = {},
                          !.result = [line |-> upload[u].line, outcome |-> outcome,
                                      institution |-> i]]]
    BY <1>1 DEF Report
  <1>4. upload'[u] = [upload[u] EXCEPT !.pc = "report", !.found = {},
                          !.result = [line |-> upload[u].line, outcome |-> outcome,
                                      institution |-> i]]
    BY <1>1, <1>3
  <1>5. upload'[u] \in UploadState
    BY <1>1, <1>2, <1>4 DEF UploadState, Active
  <1>6. QED
    BY <1>1, <1>2, <1>3, <1>4, <1>5 DEF UploadState

(* The line that is being created consists of codes of different types.     *)
LEMMA LineOfCodes ==
    ASSUME UploadInv, NEW u \in Upload, Creating(u)
    PROVE  CurrentLine(u) \subseteq Code /\ OneCodePerType(CurrentLine(u))
  <1>1. upload[u].file \in Files \union {<< >>} /\ upload[u].pc = "found"
    <2>1. upload[u] \in UploadState
      BY DEF UploadInv, TypeOK
    <2>2. QED
      BY <2>1 DEF UploadState, Creating
  <1>2. upload[u].line \in 1..Len(upload[u].file) /\ BadCode \notin CurrentLine(u)
    BY <1>1 DEF UploadInv, FoundIsGood
  <1>3. upload[u].file \in Seq(Line)
    <2>1. << >> \in Seq(Line)
      OBVIOUS
    <2>2. QED
      BY <1>1, <2>1, UploadAssumption
  <1>4. CurrentLine(u) \in Line
    BY <1>2, <1>3 DEF CurrentLine
  <1>5. CurrentLine(u) \ {BadCode} = CurrentLine(u)
    BY <1>2
  <1>6. QED
    BY <1>2, <1>4, <1>5 DEF Line

(* A step of the thread of u that leaves the tables and the results alone.  *)
Quiet(u) ==
    /\ UNCHANGED <<tables, results, history, edits, crashes>>
    /\ \A v \in Upload \ {u} : upload'[v] = upload[v]
    /\ upload'[u].organization = upload[u].organization
    /\ upload'[u].provider = upload[u].provider
    /\ upload'[u].file = upload[u].file
    /\ upload[u].pc # "idle"

(* The tables are consistent in themselves.                                 *)
TablesAreConsistent ==
    /\ IdsAreUsed /\ CodesAreUnique
    /\ \A row \in schoolCodes : row[2] \in orgs
    /\ \A link \in links : {link[1], link[2]} \subseteq orgs

(* Every organization that is gone is one that nothing referred to.         *)
LEMMA ReferencesStay ==
    ASSUME UploadInv, TablesAreConsistent', results' = results, upload' = upload,
           \A o \in orgs \ orgs' : ~Referenced(o)
    PROVE  ReferencesExist'
  BY DEF UploadInv, TablesAreConsistent, ReferencesExist, Referenced

LEMMA QuietStep ==
    ASSUME UploadInv, TypeOK', NEW u \in Upload, Quiet(u),
           upload'[u].pc = "report" => Truthful(u, upload[u].result)',
           upload'[u].pc = "found" =>
               /\ upload'[u].line \in 1..Len(upload[u].file)
               /\ BadCode \notin upload[u].file[upload'[u].line],
           upload'[u].pc # "idle"
    PROVE  UploadInv'
  <1>1. UNCHANGED tables /\ UNCHANGED history /\ results' = results
    BY DEF Quiet
  <1>2. IdsAreUsed' /\ CodesAreUnique' /\ IdleHasNoResults'
    BY <1>1 DEF UploadInv, tables, IdsAreUsed, CodesAreUnique, IdleHasNoResults, Quiet
  <1>3. ReferencesExist'
    BY <1>1 DEF UploadInv, tables, ReferencesExist, Quiet
  <1>4. \A v \in Upload : upload'[v].provider = upload[v].provider
    BY DEF Quiet
  <1>5. ASSUME NEW v \in Upload, NEW r, Truthful(v, r)
        PROVE  Truthful(v, r)'
    BY <1>1, <1>4, <1>5 DEF Truthful, tables, history
  <1>6. PendingIsTruthful'
    <2> SUFFICES ASSUME NEW v \in Upload, upload'[v].pc = "report"
                 PROVE  Truthful(v, upload[v].result)'
      BY DEF PendingIsTruthful
    <2>1. CASE v = u
      BY <2>1
    <2>2. CASE v # u
      <3>1. upload'[v] = upload[v]
        BY <2>2 DEF Quiet
      <3>2. Truthful(v, upload[v].result)
        BY <3>1 DEF UploadInv, PendingIsTruthful
      <3>3. QED
        BY <3>1, <3>2, <1>1, <1>4 DEF Truthful, tables, history
    <2>3. QED
      BY <2>1, <2>2
  <1>7. ResultsAreTruthful'
    BY <1>1, <1>5 DEF UploadInv, ResultsAreTruthful
  <1>8. FoundIsGood'
    BY DEF UploadInv, FoundIsGood, Quiet, CurrentLine
  <1>9. QED
    BY <1>2, <1>3, <1>6, <1>7, <1>8 DEF UploadInv

(* A change of one upload, to a state of its type.                          *)
LEMMA ChangeType ==
    ASSUME TypeOK, NEW u \in Upload, NEW state \in UploadState,
           upload' = [upload EXCEPT ![u] = state]
    PROVE  /\ upload' \in [Upload -> UploadState]
           /\ upload'[u] = state
           /\ \A v \in Upload \ {u} : upload'[v] = upload[v]
  BY DEF TypeOK

(* What every step that changes tables keeps of the results that are stored *)
(* and of those that are about to be.                                       *)
LEMMA TruthsAreKept ==
    ASSUME UploadInv, TypeOK', results' = results,
           links \union dropped \subseteq links' \union dropped',
           nextOrg <= nextOrg',
           \A o \in orgs' \ orgs : o >= nextOrg,
           \A v \in Upload : upload'[v].provider = upload[v].provider
    PROVE  /\ ResultsAreTruthful'
           /\ \A v \in Upload :
                 upload[v].pc = "report" /\ upload'[v] = upload[v] =>
                    Truthful(v, upload[v].result)'
  <1>1. ASSUME NEW v \in Upload, NEW k \in DOMAIN results[v]
        PROVE  Truthful(v, results[v][k])'
    <2>1. results[v][k] \in Result
      <3>1. results[v] \in Seq(Result)
        BY DEF UploadInv, TypeOK
      <3>2. QED
        BY <3>1
    <2>2. Truthful(v, results[v][k])
      BY DEF UploadInv, ResultsAreTruthful
    <2>3. TypeOK /\ upload'[v].provider = upload[v].provider
      BY DEF UploadInv
    <2> DEFINE r == results[v][k]
    <2>4. Truthful(v, r)'
      <3> HIDE DEF r
      <3>1. r \in Result /\ Truthful(v, r) /\ r' = r
        BY <2>1, <2>2 DEF r
      <3>2. r.institution \in Nat /\ nextOrg \in Nat /\ nextOrg' \in Nat
        BY <2>3, <3>1, UploadAssumption DEF TypeOK, Result
      <3>3. r.institution < nextOrg /\ r.institution < nextOrg'
        BY <3>1, <3>2 DEF Truthful
      <3>4. r.outcome = "ERROR" => r.institution \notin orgs'
        <4>1. r.institution \in orgs' \ orgs => r.institution >= nextOrg
          OBVIOUS
        <4>2. QED
          BY <3>1, <3>2, <3>3, <4>1 DEF Truthful
      <3>5. QED
        BY <2>3, <3>1, <3>3, <3>4 DEF Truthful
    <2>5. QED
      BY <2>4
  <1>2. ASSUME NEW v \in Upload, upload[v].pc = "report", upload'[v] = upload[v]
        PROVE  Truthful(v, upload[v].result)'
    <2>1. upload[v].result \in Result
      <3>1. upload[v] \in UploadState
        BY DEF UploadInv, TypeOK
      <3>2. QED
        BY <3>1 DEF UploadState
    <2>2. Truthful(v, upload[v].result)
      BY <1>2 DEF UploadInv, PendingIsTruthful
    <2>3. TypeOK
      BY DEF UploadInv
    <2>4. QED
      BY <1>2, <2>1, <2>2, <2>3, UploadAssumption DEF Truthful, TypeOK, Result
  <1>3. QED
    BY <1>1, <1>2 DEF ResultsAreTruthful

(* The end of a line's work: the tables may have changed, and the result    *)
(* that is to be stored is true of them.                                    *)
LEMMA ReportStep ==
    ASSUME UploadInv, TypeOK', TablesAreConsistent', results' = results,
           NEW u \in Upload, NEW outcome \in Outcome, NEW i \in 0..MaxOrg,
           Report(u, outcome, i), upload[u].pc # "idle",
           orgs \subseteq orgs',
           links \union dropped \subseteq links' \union dropped',
           nextOrg <= nextOrg',
           \A o \in orgs' \ orgs : o >= nextOrg,
           Truthful(u, upload[u].result)'
    PROVE  UploadInv'
  <1>1. /\ \A v \in Upload \ {u} : upload'[v] = upload[v]
        /\ upload'[u].pc = "report"
        /\ upload'[u].organization = upload[u].organization
        /\ upload'[u].provider = upload[u].provider
    BY ReportType DEF UploadInv
  <1>2. \A v \in Upload : upload'[v].provider = upload[v].provider
    BY <1>1
  <1>3. /\ ResultsAreTruthful'
        /\ \A v \in Upload :
              upload[v].pc = "report" /\ upload'[v] = upload[v] =>
                 Truthful(v, upload[v].result)'
    BY <1>2, TruthsAreKept
  <1>4. PendingIsTruthful'
    BY <1>1, <1>3 DEF PendingIsTruthful
  <1>5. ReferencesExist'
    BY <1>1 DEF UploadInv, ReferencesExist, TablesAreConsistent
  <1>6. IdleHasNoResults'
    BY <1>1 DEF UploadInv, IdleHasNoResults
  <1>7. FoundIsGood'
    BY <1>1 DEF UploadInv, FoundIsGood, CurrentLine
  <1>8. QED
    BY <1>3, <1>4, <1>5, <1>6, <1>7 DEF UploadInv, TablesAreConsistent

(* The insertion of a result that is true.                                  *)
LEMMA StoreStep ==
    ASSUME UploadInv, TypeOK', NEW u \in Upload, NEW result \in Result,
           Truthful(u, result), Store(u, result),
           UNCHANGED <<tables, history>>,
           \A v \in Upload \ {u} : upload'[v] = upload[v],
           upload'[u].organization = upload[u].organization,
           upload'[u].provider = upload[u].provider,
           upload[u].pc # "idle",
           upload'[u].pc \in {"reading", "ending"}
    PROVE  UploadInv'
  <1>1. results \in [Upload -> Seq(Result)]
    BY DEF UploadInv, TypeOK
  <1>2. /\ results'[u] = Append(results[u], result)
        /\ \A v \in Upload \ {u} : results'[v] = results[v]
    BY <1>1 DEF Store
  <1>3. \A v \in Upload : upload'[v].provider = upload[v].provider
    OBVIOUS
  <1>4. ASSUME NEW v \in Upload, NEW r, Truthful(v, r)
        PROVE  Truthful(v, r)'
    BY <1>3, <1>4 DEF Truthful, tables, history
  <1>5. ResultsAreTruthful'
    <2> SUFFICES ASSUME NEW v \in Upload, NEW k \in DOMAIN results'[v]
                 PROVE  Truthful(v, results[v][k])'
      BY DEF ResultsAreTruthful
    <2>1. CASE v = u /\ k = Len(results[u]) + 1
      <3>1. results'[v][k] = result
        BY <1>1, <1>2, <2>1
      <3>2. QED
        BY <1>3, <2>1, <3>1 DEF Truthful, tables, history
    <2>2. CASE ~(v = u /\ k = Len(results[u]) + 1)
      <3>1. k \in DOMAIN results[v] /\ results'[v][k] = results[v][k]
        <4>1. CASE v = u
          <5>1. results[u] \in Seq(Result) /\ k \in DOMAIN Append(results[u], result)
            BY <1>1, <1>2, <4>1
          <5>2. QED
            BY <1>2, <2>2, <4>1, <5>1
        <4>2. CASE v # u
          BY <1>2, <4>2
        <4>3. QED
          BY <4>1, <4>2
      <3>2. Truthful(v, results[v][k])
        BY <3>1 DEF UploadInv, ResultsAreTruthful
      <3>3. QED
        BY <1>3, <3>1, <3>2 DEF Truthful, tables, history
    <2>3. QED
      BY <2>1, <2>2
  <1>6. PendingIsTruthful'
    <2> SUFFICES ASSUME NEW v \in Upload, upload'[v].pc = "report"
                 PROVE  Truthful(v, upload[v].result)'
      BY DEF PendingIsTruthful
    <2>1. upload'[v] = upload[v]
      OBVIOUS
    <2>2. Truthful(v, upload[v].result)
      BY <2>1 DEF UploadInv, PendingIsTruthful
    <2>3. QED
      BY <2>1, <2>2 DEF Truthful, tables, history
  <1>7. IdsAreUsed' /\ CodesAreUnique'
    BY DEF UploadInv, tables, IdsAreUsed, CodesAreUnique
  <1>8. ReferencesExist'
    BY <1>2 DEF UploadInv, tables, ReferencesExist, Store
  <1>9. IdleHasNoResults' /\ FoundIsGood'
    BY <1>2 DEF UploadInv, IdleHasNoResults, FoundIsGood, CurrentLine
  <1>10. QED
    BY <1>5, <1>6, <1>7, <1>8, <1>9 DEF UploadInv

(* A change of an administrator.                                            *)
LEMMA EditStep ==
    ASSUME UploadInv, TypeOK', TablesAreConsistent',
           upload' = upload, results' = results,
           \A o \in orgs \ orgs' : ~Referenced(o),
           links \union dropped \subseteq links' \union dropped',
           nextOrg <= nextOrg',
           \A o \in orgs' \ orgs : o >= nextOrg
    PROVE  UploadInv'
  <1>1. ReferencesExist'
    BY ReferencesStay
  <1>2. ResultsAreTruthful' /\ PendingIsTruthful'
    BY TruthsAreKept DEF PendingIsTruthful
  <1>3. IdleHasNoResults' /\ FoundIsGood'
    BY DEF UploadInv, IdleHasNoResults, FoundIsGood, CurrentLine
  <1>4. QED
    BY <1>1, <1>2, <1>3 DEF UploadInv, TablesAreConsistent

-----------------------------------------------------------------------------
(* Each action keeps the invariant *)

LEMMA SubmitStep ==
    ASSUME UploadInv, NEW u \in Upload, NEW o \in OrgId, NEW p \in OrgId,
           NEW file \in Files, Submit(u, o, p, file)
    PROVE  UploadInv'
  <1> DEFINE new == [NoUpload EXCEPT !.pc = "reading", !.organization = o,
                                     !.provider = p, !.file = file]
  <1>1. TypeOK /\ upload[u].pc = "idle" /\ o \in orgs
        /\ upload' = [upload EXCEPT ![u] = new]
        /\ UNCHANGED <<tables, results, history, edits, crashes>>
    BY DEF UploadInv, Submit
  <1>2. new \in UploadState
    <2>1. o \in 0..MaxOrg /\ p \in 0..MaxOrg
      BY UploadAssumption DEF OrgId
    <2>2. NoUpload \in UploadState
      BY EmptyTypes
    <2>3. QED
      BY <2>1, <2>2 DEF UploadState, Active
  <1>3. new.pc = "reading" /\ new.organization = o
    BY DEF NoUpload
  <1> HIDE DEF new
  <1>4. /\ upload' \in [Upload -> UploadState]
        /\ upload'[u] = new
        /\ \A v \in Upload \ {u} : upload'[v] = upload[v]
    BY <1>1, <1>2, ChangeType
  <1>5. TypeOK'
    BY <1>1, <1>4 DEF TypeOK, tables, history
  <1>6. results[u] = << >>
    BY <1>1 DEF UploadInv, IdleHasNoResults
  <1>7. IdsAreUsed' /\ CodesAreUnique' /\ IdleHasNoResults'
    BY <1>1, <1>3, <1>4
       DEF UploadInv, tables, IdsAreUsed, CodesAreUnique, IdleHasNoResults
  <1>8. ReferencesExist'
    BY <1>1, <1>3, <1>4, <1>6 DEF UploadInv, tables, ReferencesExist
  <1>9. ASSUME NEW v \in Upload, v # u, NEW r, Truthful(v, r)
        PROVE  Truthful(v, r)'
    BY <1>1, <1>4, <1>9 DEF Truthful, tables, history
  <1>10. PendingIsTruthful'
    BY <1>3, <1>4, <1>9 DEF UploadInv, PendingIsTruthful
  <1>11. ResultsAreTruthful'
    BY <1>1, <1>6, <1>9 DEF UploadInv, ResultsAreTruthful
  <1>12. FoundIsGood'
    BY <1>3, <1>4 DEF UploadInv, FoundIsGood, CurrentLine
  <1>13. QED
    BY <1>5, <1>7, <1>8, <1>10, <1>11, <1>12 DEF UploadInv

(* Search, EndOfFile, ResultLost, End and Raise change the state of one     *)
(* upload and nothing else.                                                 *)
LEMMA SilentStep ==
    ASSUME UploadInv, NEW u \in Upload,
           Search(u) \/ EndOfFile(u) \/ ResultLost(u) \/ End(u) \/ Raise(u)
    PROVE  UploadInv'
  <1>1. TypeOK /\ upload \in [Upload -> UploadState] /\ upload[u] \in UploadState
    BY DEF UploadInv, TypeOK
  <1>2. CASE Search(u)
    <2> DEFINE new == [upload[u] EXCEPT !.pc = "found",
                                        !.found = Owners(CurrentLine(u))]
    <2>1. /\ upload' = [upload EXCEPT ![u] = new]
          /\ UNCHANGED <<tables, results, history, edits, crashes>>
          /\ upload[u].line <= Len(upload[u].file) /\ upload[u].pc = "reading"
          /\ BadCode \notin CurrentLine(u)
      BY <1>1, <1>2 DEF Search, Reading
    <2>2. new \in UploadState
      BY <1>1 DEF UploadState, Active, Owners, OrgId
    <2>3. /\ new.pc = "found" /\ new.line = upload[u].line
          /\ new.organization = upload[u].organization
          /\ new.provider = upload[u].provider /\ new.file = upload[u].file
      BY <1>1 DEF UploadState
    <2> HIDE DEF new
    <2>4. /\ upload' \in [Upload -> UploadState]
          /\ upload'[u] = new
          /\ \A v \in Upload \ {u} : upload'[v] = upload[v]
      BY <1>1, <2>1, <2>2, ChangeType
    <2>5. TypeOK' /\ Quiet(u)
      BY <1>1, <2>1, <2>3, <2>4 DEF TypeOK, tables, history, Quiet
    <2>6. /\ upload'[u].line \in 1..Len(upload[u].file)
          /\ BadCode \notin upload[u].file[upload'[u].line]
      <3>1. upload[u].line \in Nat \ {0} /\ upload[u].file \in Seq(Line)
        <4>1. << >> \in Seq(Line)
          OBVIOUS
        <4>2. QED
          BY <1>1, <4>1, UploadAssumption DEF UploadState
      <3>2. QED
        BY <2>1, <2>3, <2>4, <3>1 DEF CurrentLine
    <2>7. QED
      BY <2>3, <2>4, <2>5, <2>6, QuietStep
  <1>3. CASE EndOfFile(u) \/ ResultLost(u) \/ End(u) \/ Raise(u)
    <2>1. PICK new \in UploadState :
              /\ upload' = [upload EXCEPT ![u] = new]
              /\ new.pc \in {"ending", "ended", "aborting"}
              /\ new.organization = upload[u].organization
              /\ new.provider = upload[u].provider
              /\ new.file = upload[u].file
      <3>1. CASE EndOfFile(u) \/ ResultLost(u)
        <4> DEFINE new == [upload[u] EXCEPT !.pc = "ending"]
        <4>1. upload' = [upload EXCEPT ![u] = new]
          BY <1>1, <3>1 DEF EndOfFile, ResultLost
        <4>2. /\ new \in UploadState
              /\ new.pc \in {"ending", "ended", "aborting"}
              /\ new.organization = upload[u].organization
              /\ new.provider = upload[u].provider
              /\ new.file = upload[u].file
          BY <1>1 DEF UploadState, Active
        <4> HIDE DEF new
        <4>3. QED
          BY <4>1, <4>2
      <3>2. CASE End(u)
        <4> DEFINE new == [upload[u] EXCEPT !.pc = "ended"]
        <4>1. upload' = [upload EXCEPT ![u] = new]
          BY <1>1, <3>2 DEF End
        <4>2. /\ new \in UploadState
              /\ new.pc \in {"ending", "ended", "aborting"}
              /\ new.organization = upload[u].organization
              /\ new.provider = upload[u].provider
              /\ new.file = upload[u].file
          BY <1>1 DEF UploadState, Active
        <4> HIDE DEF new
        <4>3. QED
          BY <4>1, <4>2
      <3>3. CASE Raise(u)
        <4> DEFINE new == [upload[u] EXCEPT !.pc = "aborting", !.found = {},
                                             !.result = NoResult]
        <4>1. upload' = [upload EXCEPT ![u] = new]
          BY <1>1, <3>3 DEF Raise
        <4>2. /\ new \in UploadState
              /\ new.pc \in {"ending", "ended", "aborting"}
              /\ new.organization = upload[u].organization
              /\ new.provider = upload[u].provider
              /\ new.file = upload[u].file
          BY <1>1, EmptyTypes DEF UploadState, Active
        <4> HIDE DEF new
        <4>3. QED
          BY <4>1, <4>2
      <3>4. QED
        BY <1>3, <3>1, <3>2, <3>3
    <2>2. /\ upload' \in [Upload -> UploadState]
          /\ upload'[u] = new
          /\ \A v \in Upload \ {u} : upload'[v] = upload[v]
      BY <1>1, <2>1, ChangeType
    <2>3. /\ UNCHANGED <<tables, results, history, edits, crashes>>
          /\ upload[u].pc # "idle"
      BY <1>3 DEF EndOfFile, ResultLost, End, Raise, Reading, AtHeader
    <2>4. TypeOK' /\ Quiet(u)
      BY <1>1, <2>1, <2>2, <2>3 DEF TypeOK, tables, history, Quiet
    <2>5. QED
      BY <2>1, <2>2, <2>4, QuietStep
  <1>4. QED
    BY <1>2, <1>3

(* Lines that end with an error and no institution.                         *)
LEMMA ErrorStep ==
    ASSUME UploadInv, NEW u \in Upload,
           RejectLine(u) \/ CreateRefused(u) \/ Ambiguous(u)
    PROVE  UploadInv'
  <1>1. /\ UNCHANGED <<tables, results, history, edits, crashes>>
        /\ Report(u, "ERROR", 0) /\ upload[u].pc # "idle"
    BY DEF RejectLine, CreateRefused, Ambiguous, Reading, Creating
  <1>2. "ERROR" \in Outcome /\ 0 \in 0..MaxOrg /\ TypeOK
    BY UploadAssumption DEF Outcome, UploadInv
  <1>3. /\ upload' \in [Upload -> UploadState]
        /\ upload'[u].result.institution = 0
        /\ upload'[u].result.outcome = "ERROR"
    BY <1>1, <1>2, ReportType
  <1>4. TypeOK'
    BY <1>1, <1>2, <1>3 DEF TypeOK, tables, history
  <1>5. TablesAreConsistent'
    BY <1>1 DEF UploadInv, TablesAreConsistent, ReferencesExist, IdsAreUsed,
                CodesAreUnique, tables
  <1>6. Truthful(u, upload[u].result)'
    BY <1>3, <1>4, UploadAssumption DEF Truthful, TypeOK, OrgId
  <1>7. /\ orgs' = orgs /\ nextOrg' = nextOrg /\ results' = results
        /\ links' = links /\ dropped' = dropped /\ nextOrg \in Nat
    BY <1>1, <1>2, UploadAssumption DEF tables, history, TypeOK
  <1>8. QED
    BY <1>1, <1>2, <1>4, <1>5, <1>6, <1>7, ReportStep

LEMMA LinkFoundStep ==
    ASSUME UploadInv, NEW u \in Upload, LinkFound(u)
    PROVE  UploadInv'
  <1>1. PICK i \in OrgId :
            /\ {i, upload[u].provider} \subseteq orgs
            /\ links' = links \union {<<i, upload[u].provider>>}
            /\ Report(u, "SUCCESS", i)
    BY DEF LinkFound
  <1>2. /\ UNCHANGED <<orgs, nextOrg, schoolCodes, results, history, edits, crashes>>
        /\ upload[u].pc # "idle"
    BY DEF LinkFound
  <1>3. "SUCCESS" \in Outcome /\ i \in 0..MaxOrg /\ TypeOK
    BY UploadAssumption DEF Outcome, UploadInv, OrgId
  <1>4. /\ upload' \in [Upload -> UploadState]
        /\ upload'[u].result.institution = i
        /\ upload'[u].result.outcome = "SUCCESS"
        /\ upload'[u].provider = upload[u].provider
    BY <1>1, <1>3, ReportType
  <1>5. TypeOK'
    <2>1. links' \subseteq OrgId \X OrgId
      <3>1. links \subseteq OrgId \X OrgId /\ upload[u].provider \in OrgId
        BY <1>1, <1>3 DEF TypeOK
      <3>2. QED
        BY <1>1, <3>1
    <2>2. QED
      BY <1>2, <1>3, <1>4, <2>1 DEF TypeOK, history
  <1>6. TablesAreConsistent'
    BY <1>1, <1>2 DEF UploadInv, TablesAreConsistent, ReferencesExist, IdsAreUsed,
                      CodesAreUnique
  <1>7. i < nextOrg /\ nextOrg \in Nat
    BY <1>1, <1>3, UploadAssumption DEF UploadInv, IdsAreUsed, TypeOK
  <1>8. Truthful(u, upload[u].result)'
    BY <1>1, <1>2, <1>4, <1>7 DEF Truthful
  <1>9. /\ orgs' = orgs /\ nextOrg' = nextOrg /\ results' = results
        /\ dropped' = dropped
    BY <1>2 DEF history
  <1>10. QED
    BY <1>1, <1>2, <1>3, <1>5, <1>6, <1>7, <1>8, <1>9, ReportStep

(* A new organization gets codes of different types that nobody has.        *)
LEMMA NewCodes ==
    ASSUME UploadInv, NEW codes \in SUBSET Code, OneCodePerType(codes),
           \A c \in codes : CodeFree(c), nextOrg \in OrgId,
           schoolCodes' = schoolCodes \union (codes \X {nextOrg})
    PROVE  CodesAreUnique'
  <1>1. schoolCodes \subseteq Code \X OrgId
    BY DEF UploadInv, TypeOK
  <1>2. \A row \in schoolCodes : row[2] \in orgs /\ row[2] # nextOrg
    <2>1. nextOrg \notin orgs
      BY DEF UploadInv, IdsAreUsed, OrgId
    <2>2. QED
      BY <2>1 DEF UploadInv, ReferencesExist
  <1>3. \A row \in schoolCodes : row[1] \notin codes
    BY <1>1 DEF CodeFree, Owners
  <1>4. ASSUME NEW r \in schoolCodes', NEW q \in schoolCodes', r # q
        PROVE  r[1] # q[1] /\ (r[2] = q[2] => TypeOf[r[1]] # TypeOf[q[1]])
    <2>1. CASE r \in schoolCodes /\ q \in schoolCodes
      BY <1>4, <2>1 DEF UploadInv, CodesAreUnique
    <2>2. CASE r \in schoolCodes /\ q \in codes \X {nextOrg}
      BY <1>2, <1>3, <2>2
    <2>3. CASE r \in codes \X {nextOrg} /\ q \in schoolCodes
      BY <1>2, <1>3, <2>3
    <2>4. CASE r \in codes \X {nextOrg} /\ q \in codes \X {nextOrg}
      BY <1>4, <2>4 DEF OneCodePerType
    <2>5. QED
      BY <2>1, <2>2, <2>3, <2>4
  <1>5. QED
    BY <1>4 DEF CodesAreUnique

LEMMA CreateInstitutionStep ==
    ASSUME UploadInv, NEW u \in Upload, CreateInstitution(u)
    PROVE  UploadInv'
  <1> DEFINE i == nextOrg
  <1>1. /\ Creating(u) /\ CanCreate(u) /\ i <= MaxOrg
        /\ orgs' = orgs \union {i}
        /\ nextOrg' = i + 1
        /\ schoolCodes' = schoolCodes \union (CurrentLine(u) \X {i})
        /\ links' = links \union {<<i, upload[u].provider>>}
        /\ Report(u, "SUCCESS", i)
        /\ UNCHANGED <<results, history, edits, crashes>>
        /\ upload[u].pc # "idle"
    BY DEF CreateInstitution, Creating
  <1>2. "SUCCESS" \in Outcome /\ TypeOK
    BY DEF Outcome, UploadInv
  <1>3. i \in OrgId /\ i \in 0..MaxOrg /\ i \in Nat
    BY <1>1, <1>2, UploadAssumption DEF TypeOK, OrgId
  <1>4. /\ upload' \in [Upload -> UploadState]
        /\ upload'[u].result.institution = i
        /\ upload'[u].result.outcome = "SUCCESS"
        /\ upload'[u].provider = upload[u].provider
    BY <1>1, <1>2, <1>3, ReportType
  <1>5. CurrentLine(u) \subseteq Code /\ OneCodePerType(CurrentLine(u))
    BY <1>1, LineOfCodes
  <1>6. upload[u].provider \in orgs
    BY <1>1 DEF CanCreate
  <1>7. TypeOK'
    <2>1. orgs' \subseteq OrgId /\ nextOrg' \in 1..(MaxOrg + 1)
      BY <1>1, <1>2, <1>3, UploadAssumption DEF TypeOK, OrgId
    <2>2. schoolCodes' \subseteq Code \X OrgId /\ links' \subseteq OrgId \X OrgId
      <3>1. /\ schoolCodes \subseteq Code \X OrgId /\ links \subseteq OrgId \X OrgId
            /\ upload[u].provider \in OrgId
        BY <1>2, <1>6 DEF TypeOK
      <3>2. CurrentLine(u) \X {i} \subseteq Code \X OrgId
        BY <1>3, <1>5
      <3>3. QED
        BY <1>1, <1>3, <3>1, <3>2
    <2>3. QED
      BY <1>1, <1>2, <1>4, <2>1, <2>2 DEF TypeOK, history
  <1>8. TablesAreConsistent'
    <2>1. IdsAreUsed'
      <3>1. orgs \subseteq 1..(i - 1) /\ i \in Nat /\ i # 0
        BY <1>3 DEF UploadInv, IdsAreUsed, OrgId
      <3>2. orgs' = orgs \union {i} /\ nextOrg' = i + 1
        BY <1>1
      <3> HIDE DEF i
      <3>3. orgs \union {i} \subseteq 1..i
        BY <3>1
      <3>4. QED
        BY <3>1, <3>2, <3>3 DEF IdsAreUsed
    <2>2. CodesAreUnique'
      BY <1>1, <1>3, <1>5, NewCodes DEF CanCreate
    <2>3. QED
      BY <1>1, <1>6, <2>1, <2>2 DEF UploadInv, ReferencesExist, TablesAreConsistent
  <1>9. Truthful(u, upload[u].result)'
    BY <1>1, <1>3, <1>4 DEF Truthful
  <1>10. /\ results' = results /\ dropped' = dropped
         /\ orgs \subseteq orgs' /\ nextOrg <= nextOrg'
         /\ \A o \in orgs' \ orgs : o >= nextOrg
    BY <1>1, <1>3 DEF history
  <1>11. QED
    BY <1>1, <1>2, <1>3, <1>7, <1>8, <1>9, <1>10, ReportStep

LEMMA CreateFailsStep ==
    ASSUME UploadInv, NEW u \in Upload, CreateFails(u)
    PROVE  UploadInv'
  <1> DEFINE i == nextOrg
  <1>1. /\ i <= MaxOrg /\ nextOrg' = i + 1 /\ Report(u, "ERROR", i)
        /\ UNCHANGED <<orgs, schoolCodes, links, results, history, edits, crashes>>
        /\ upload[u].pc # "idle"
    BY DEF CreateFails, Creating
  <1>2. "ERROR" \in Outcome /\ TypeOK
    BY DEF Outcome, UploadInv
  <1>3. i \in 0..MaxOrg /\ i \in Nat /\ i # 0
    BY <1>1, <1>2, UploadAssumption DEF TypeOK
  <1>4. /\ upload' \in [Upload -> UploadState]
        /\ upload'[u].result.institution = i
        /\ upload'[u].result.outcome = "ERROR"
    BY <1>1, <1>2, <1>3, ReportType
  <1>5. TypeOK'
    <2>1. nextOrg' \in 1..(MaxOrg + 1)
      BY <1>1, <1>3, UploadAssumption
    <2>2. QED
      BY <1>1, <1>2, <1>4, <2>1 DEF TypeOK, history
  <1>6. TablesAreConsistent'
    BY <1>1, <1>3 DEF UploadInv, TablesAreConsistent, ReferencesExist, IdsAreUsed,
                      CodesAreUnique
  <1>7. i \notin orgs
    BY <1>3 DEF UploadInv, IdsAreUsed
  <1>8. Truthful(u, upload[u].result)'
    BY <1>1, <1>3, <1>4, <1>7 DEF Truthful
  <1>9. /\ results' = results /\ dropped' = dropped
        /\ nextOrg <= nextOrg'
    BY <1>1, <1>3 DEF history
  <1>10. QED
    BY <1>1, <1>2, <1>3, <1>5, <1>6, <1>8, <1>9, ReportStep

(* The actions that store a result.                                         *)
LEMMA StoringStep ==
    ASSUME UploadInv, NEW u \in Upload, BadHeader(u) \/ StoreResult(u) \/ Abort(u)
    PROVE  UploadInv'
  <1>1. /\ TypeOK /\ upload \in [Upload -> UploadState] /\ upload[u] \in UploadState
        /\ results \in [Upload -> Seq(Result)]
    BY DEF UploadInv, TypeOK
  <1>2. /\ UNCHANGED <<tables, history, edits, crashes>>
        /\ upload[u].pc # "idle"
    BY DEF BadHeader, StoreResult, Abort, AtHeader
  <1>3. PICK result \in Result :
            Store(u, result) /\ Truthful(u, result)
    <2>1. ASSUME NEW result \in Result, result.institution = 0,
                 result.outcome = "ERROR"
          PROVE  Truthful(u, result)
      BY <1>1, <2>1, UploadAssumption DEF Truthful, TypeOK, OrgId
    <2>2. CASE BadHeader(u)
      BY <2>1, <2>2, EmptyTypes DEF BadHeader, NoResult
    <2>3. CASE StoreResult(u)
      BY <1>1, <2>3 DEF StoreResult, UploadInv, PendingIsTruthful, UploadState
    <2>4. CASE Abort(u)
      <3> DEFINE result == [NoResult EXCEPT !.line = upload[u].line]
      <3>1. Store(u, result)
        BY <2>4 DEF Abort
      <3>2. result \in Result /\ result.institution = 0 /\ result.outcome = "ERROR"
        BY <1>1, EmptyTypes DEF UploadState, NoResult, Result
      <3> HIDE DEF result
      <3>3. QED
        BY <2>1, <3>1, <3>2
    <2>5. QED
      BY <2>2, <2>3, <2>4
  <1>4. PICK new \in UploadState :
            /\ upload' = [upload EXCEPT ![u] = new]
            /\ new.pc \in {"reading", "ending"}
            /\ new.organization = upload[u].organization
            /\ new.provider = upload[u].provider
    <2>1. CASE BadHeader(u) \/ Abort(u)
      <3> DEFINE new == [upload[u] EXCEPT !.pc = "ending"]
      <3>1. upload' = [upload EXCEPT ![u] = new]
        BY <1>1, <2>1 DEF BadHeader, Abort
      <3>2. /\ new \in UploadState /\ new.pc = "ending"
            /\ new.organization = upload[u].organization
            /\ new.provider = upload[u].provider
        BY <1>1 DEF UploadState, Active
      <3> HIDE DEF new
      <3>3. QED
        BY <3>1, <3>2
    <2>2. CASE StoreResult(u)
      <3> DEFINE new == [upload[u] EXCEPT !.pc = "reading", !.line = @ + 1,
                                          !.result = NoResult]
      <3>1. upload' = [upload EXCEPT ![u] = new]
        BY <1>1, <2>2 DEF StoreResult
      <3>2. upload[u].line + 1 \in Nat \ {0}
        BY <1>1 DEF UploadState
      <3>3. /\ new \in UploadState /\ new.pc = "reading"
            /\ new.organization = upload[u].organization
            /\ new.provider = upload[u].provider
        BY <1>1, <3>2, EmptyTypes DEF UploadState, Active
      <3> HIDE DEF new
      <3>4. QED
        BY <3>1, <3>3
    <2>3. QED
      BY <2>1, <2>2
  <1>5. /\ upload' \in [Upload -> UploadState]
        /\ upload'[u] = new
        /\ \A v \in Upload \ {u} : upload'[v] = upload[v]
    BY <1>1, <1>4, ChangeType
  <1>6. results' \in [Upload -> Seq(Result)]
    <2>1. Append(results[u], result) \in Seq(Result)
      BY <1>1
    <2>2. QED
      BY <1>1, <1>3, <2>1 DEF Store
  <1>7. TypeOK'
    BY <1>1, <1>2, <1>5, <1>6 DEF TypeOK, tables, history
  <1>8. QED
    BY <1>2, <1>3, <1>4, <1>5, <1>7, StoreStep

(* What every change of an administrator has in common.                     *)
LEMMA EditType ==
    ASSUME TypeOK, Edit
    PROVE  edits' \in 0..MaxEdits
  BY UploadAssumption DEF TypeOK, Edit

LEMMA AddCodeStep ==
    ASSUME UploadInv, NEW c \in Code, NEW o \in OrgId, AddCode(c, o)
    PROVE  UploadInv'
  <1>1. /\ o \in orgs /\ CodeFree(c) /\ TypeFree(c, o) /\ Edit
        /\ schoolCodes' = schoolCodes \union {<<c, o>>}
        /\ UNCHANGED <<orgs, nextOrg, links, upload, results, history, crashes>>
    BY DEF AddCode
  <1>2. TypeOK /\ schoolCodes \subseteq Code \X OrgId /\ nextOrg \in Nat
    BY UploadAssumption DEF UploadInv, TypeOK
  <1>3. TypeOK'
    <2>1. schoolCodes' \subseteq Code \X OrgId
      BY <1>1, <1>2
    <2>2. QED
      BY <1>1, <1>2, <2>1, EditType DEF TypeOK, history
  <1>4. CodesAreUnique'
    <2> SUFFICES ASSUME NEW r \in schoolCodes', NEW q \in schoolCodes', r # q
                 PROVE  r[1] # q[1] /\ (r[2] = q[2] => TypeOf[r[1]] # TypeOf[q[1]])
      BY DEF CodesAreUnique
    <2>1. \A row \in schoolCodes :
              row[1] # c /\ (row[2] = o => TypeOf[row[1]] # TypeOf[c])
      BY <1>1, <1>2 DEF CodeFree, Owners, TypeFree
    <2>2. CASE r \in schoolCodes /\ q \in schoolCodes
      BY <2>2 DEF UploadInv, CodesAreUnique
    <2>3. CASE r = <<c, o>> \/ q = <<c, o>>
      BY <1>1, <2>1, <2>3
    <2>4. QED
      BY <1>1, <2>2, <2>3
  <1>5. TablesAreConsistent'
    BY <1>1, <1>4 DEF UploadInv, TablesAreConsistent, ReferencesExist, IdsAreUsed
  <1>6. /\ upload' = upload /\ results' = results /\ orgs' = orgs
        /\ links' = links /\ dropped' = dropped /\ nextOrg' = nextOrg
    BY <1>1 DEF history
  <1>7. QED
    BY <1>2, <1>3, <1>5, <1>6, EditStep

LEMMA RemoveCodeStep ==
    ASSUME UploadInv, NEW row \in schoolCodes, RemoveCode(row)
    PROVE  UploadInv'
  <1>1. /\ Edit /\ schoolCodes' = schoolCodes \ {row}
        /\ UNCHANGED <<orgs, nextOrg, links, upload, results, history, crashes>>
    BY DEF RemoveCode
  <1>2. TypeOK /\ nextOrg \in Nat
    BY UploadAssumption DEF UploadInv, TypeOK
  <1>3. TypeOK'
    BY <1>1, <1>2, EditType DEF TypeOK, history
  <1>4. TablesAreConsistent'
    BY <1>1 DEF UploadInv, TablesAreConsistent, ReferencesExist, IdsAreUsed,
                CodesAreUnique
  <1>5. /\ upload' = upload /\ results' = results /\ orgs' = orgs
        /\ links' = links /\ dropped' = dropped /\ nextOrg' = nextOrg
    BY <1>1 DEF history
  <1>6. QED
    BY <1>2, <1>3, <1>4, <1>5, EditStep

LEMMA CreateByHandStep ==
    ASSUME UploadInv, NEW codes \in SUBSET Code, CreateByHand(codes)
    PROVE  UploadInv'
  <1> DEFINE i == nextOrg
  <1>1. /\ Edit /\ i <= MaxOrg /\ OneCodePerType(codes)
        /\ \A c \in codes : CodeFree(c)
        /\ orgs' = orgs \union {i}
        /\ nextOrg' = i + 1
        /\ schoolCodes' = schoolCodes \union (codes \X {i})
        /\ UNCHANGED <<links, upload, results, history, crashes>>
    BY DEF CreateByHand
  <1>2. TypeOK /\ i \in OrgId /\ i \in Nat /\ i # 0
    BY <1>1, UploadAssumption DEF UploadInv, TypeOK, OrgId
  <1>3. TypeOK'
    <2>1. orgs' \subseteq OrgId /\ nextOrg' \in 1..(MaxOrg + 1)
      BY <1>1, <1>2, UploadAssumption DEF TypeOK, OrgId
    <2>2. schoolCodes' \subseteq Code \X OrgId
      <3>1. schoolCodes \subseteq Code \X OrgId /\ codes \X {i} \subseteq Code \X OrgId
        BY <1>2 DEF TypeOK
      <3>2. QED
        BY <1>1, <3>1
    <2>3. QED
      BY <1>1, <1>2, <2>1, <2>2, EditType DEF TypeOK, history
  <1>4. TablesAreConsistent'
    <2>1. IdsAreUsed'
      <3>1. orgs \subseteq 1..(i - 1) /\ orgs' = orgs \union {i} /\ nextOrg' = i + 1
        BY <1>1 DEF UploadInv, IdsAreUsed
      <3> HIDE DEF i
      <3>2. orgs \union {i} \subseteq 1..i
        BY <1>2, <3>1
      <3>3. QED
        BY <1>2, <3>1, <3>2 DEF IdsAreUsed
    <2>2. CodesAreUnique'
      BY <1>1, <1>2, NewCodes
    <2>3. QED
      BY <1>1, <2>1, <2>2 DEF UploadInv, ReferencesExist, TablesAreConsistent
  <1>5. /\ upload' = upload /\ results' = results /\ orgs \subseteq orgs'
        /\ links' = links /\ dropped' = dropped /\ nextOrg <= nextOrg'
        /\ \A o \in orgs' \ orgs : o >= nextOrg
    BY <1>1, <1>2 DEF history
  <1>6. QED
    BY <1>3, <1>4, <1>5, EditStep

LEMMA LinkByHandStep ==
    ASSUME UploadInv, NEW i \in OrgId, NEW p \in OrgId, LinkByHand(i, p)
    PROVE  UploadInv'
  <1>1. /\ Edit /\ {i, p} \subseteq orgs /\ links' = links \union {<<i, p>>}
        /\ UNCHANGED <<orgs, nextOrg, schoolCodes, upload, results, history, crashes>>
    BY DEF LinkByHand
  <1>2. TypeOK /\ nextOrg \in Nat
    BY UploadAssumption DEF UploadInv, TypeOK
  <1>3. TypeOK'
    <2>1. links' \subseteq OrgId \X OrgId
      BY <1>1, <1>2 DEF TypeOK
    <2>2. QED
      BY <1>1, <1>2, <2>1, EditType DEF TypeOK, history
  <1>4. TablesAreConsistent'
    BY <1>1 DEF UploadInv, TablesAreConsistent, ReferencesExist, IdsAreUsed,
                CodesAreUnique
  <1>5. /\ upload' = upload /\ results' = results /\ orgs' = orgs
        /\ links \subseteq links' /\ dropped' = dropped /\ nextOrg' = nextOrg
    BY <1>1 DEF history
  <1>6. QED
    BY <1>2, <1>3, <1>4, <1>5, EditStep

(* The providers that were deleted come back under as many new ids.         *)
LEMMA SetProvidersStep ==
    ASSUME UploadInv, NEW i \in OrgId, NEW providers \in SUBSET Provider,
           SetProviders(i, providers)
    PROVE  UploadInv'
  <1> DEFINE gone == providers \ orgs
             count == Cardinality(gone)
             new == nextOrg..(nextOrg + count - 1)
             set == {i} \X ((providers \ gone) \union new)
  <1>1. /\ Edit /\ i \in orgs /\ nextOrg + count <= MaxOrg + 1
        /\ orgs' = orgs \union new
        /\ nextOrg' = nextOrg + count
        /\ links' = {l \in links : l[1] # i} \union set
        /\ dropped' = dropped \union {l \in links : l[1] = i /\ l \notin set}
        /\ UNCHANGED <<schoolCodes, upload, results, deleted, crashes>>
    BY DEF SetProviders
  <1>2. count \in Nat
    <2>1. IsFiniteSet(Provider)
      BY FS_Interval, UploadAssumption DEF Provider
    <2>2. IsFiniteSet(gone)
      BY <2>1, FS_Subset
    <2>3. QED
      BY <2>2, FS_CardinalityType
  <1>3. providers \ gone \subseteq orgs
    OBVIOUS
  <1> HIDE DEF gone, count
  <1>4. /\ TypeOK /\ nextOrg \in Nat \ {0} /\ orgs \subseteq 1..(nextOrg - 1)
        /\ orgs \subseteq OrgId /\ links \subseteq OrgId \X OrgId
        /\ dropped \subseteq OrgId \X OrgId
    BY UploadAssumption DEF UploadInv, TypeOK, IdsAreUsed
  <1>5. /\ new \subseteq OrgId /\ new \subseteq 1..(nextOrg + count - 1)
        /\ \A o \in new : o >= nextOrg
    BY <1>1, <1>2, <1>4, UploadAssumption DEF OrgId
  <1> HIDE DEF new
  <1>6. set \subseteq OrgId \X OrgId /\ \A link \in set : {link[1], link[2]} \subseteq orgs'
    BY <1>1, <1>3, <1>4, <1>5
  <1> HIDE DEF set
  <1>7. TypeOK'
    <2>1. orgs' \subseteq OrgId /\ nextOrg' \in 1..(MaxOrg + 1)
      BY <1>1, <1>2, <1>4, <1>5, UploadAssumption
    <2>2. links' \subseteq OrgId \X OrgId /\ dropped' \subseteq OrgId \X OrgId
      BY <1>1, <1>4, <1>6
    <2>3. QED
      BY <1>1, <1>4, <2>1, <2>2, EditType DEF TypeOK
  <1>8. TablesAreConsistent'
    <2>1. IdsAreUsed'
      BY <1>1, <1>2, <1>4, <1>5 DEF IdsAreUsed
    <2>2. \A link \in links' : {link[1], link[2]} \subseteq orgs'
      BY <1>1, <1>6 DEF UploadInv, ReferencesExist
    <2>3. QED
      BY <1>1, <2>1, <2>2
         DEF UploadInv, TablesAreConsistent, ReferencesExist, CodesAreUnique
  <1>9. links \union dropped \subseteq links' \union dropped'
    BY <1>1
  <1>10. nextOrg <= nextOrg' /\ \A o \in orgs' \ orgs : o >= nextOrg
    BY <1>1, <1>2, <1>4, <1>5
  <1>11. orgs \subseteq orgs' /\ upload' = upload /\ results' = results
    BY <1>1
  <1>12. QED
    BY <1>7, <1>8, <1>9, <1>10, <1>11, EditStep

LEMMA DeleteOrganizationStep ==
    ASSUME UploadInv, NEW o \in OrgId, DeleteOrganization(o)
    PROVE  UploadInv'
  <1> DEFINE gone == {l \in links : o \in {l[1], l[2]}}
  <1>1. /\ Edit /\ o \in orgs /\ ~Referenced(o)
        /\ orgs' = orgs \ {o}
        /\ schoolCodes' = {row \in schoolCodes : row[2] # o}
        /\ links' = links \ gone
        /\ deleted' = deleted \union {o}
        /\ dropped' = dropped \union gone
        /\ UNCHANGED <<nextOrg, upload, results, crashes>>
    BY DEF DeleteOrganization
  <1>2. TypeOK /\ nextOrg \in Nat
    BY UploadAssumption DEF UploadInv, TypeOK
  <1>3. TypeOK'
    BY <1>1, <1>2, EditType DEF TypeOK
  <1>4. TablesAreConsistent'
    BY <1>1 DEF UploadInv, TablesAreConsistent, ReferencesExist, IdsAreUsed,
                CodesAreUnique
  <1>5. /\ \A p \in orgs \ orgs' : ~Referenced(p)
        /\ links \union dropped \subseteq links' \union dropped'
        /\ orgs' \subseteq orgs /\ nextOrg <= nextOrg'
        /\ upload' = upload /\ results' = results
    BY <1>1, <1>2
  <1>6. QED
    BY <1>3, <1>4, <1>5, EditStep

(* A crash ends threads; the tables and the stored results stay.            *)
LEMMA CrashStep ==
    ASSUME UploadInv, Crash
    PROVE  UploadInv'
  <1>1. /\ crashes' \in 0..MaxCrashes
        /\ UNCHANGED <<tables, results, history, edits>>
    <2>1. crashes \in 0..MaxCrashes /\ crashes < MaxCrashes /\ crashes' = crashes + 1
      BY DEF UploadInv, TypeOK, Crash
    <2>2. crashes' \in 0..MaxCrashes
      BY <2>1, UploadAssumption
    <2>3. QED
      BY <2>2 DEF Crash
  <1>2. \A v \in Upload :
            /\ upload'[v] \in UploadState
            /\ upload'[v].organization = upload[v].organization
            /\ upload'[v].provider = upload[v].provider
            /\ upload'[v].pc = "idle" <=> upload[v].pc = "idle"
            /\ upload'[v].pc \notin {"found", "report"}
    <2> TAKE v \in Upload
    <2>1. upload[v] \in UploadState
      BY DEF UploadInv, TypeOK
    <2>2. CASE upload[v].pc \in Active
      <3>1. upload'[v] = [upload[v] EXCEPT !.pc = "crashed", !.found = {},
                                           !.result = NoResult]
        BY <2>2 DEF Crash
      <3>2. QED
        BY <2>1, <2>2, <3>1, EmptyTypes DEF UploadState, Active
    <2>3. CASE upload[v].pc \notin Active
      <3>1. upload'[v] = upload[v]
        BY <2>3 DEF Crash
      <3>2. QED
        BY <2>1, <2>3, <3>1 DEF Active
    <2>4. QED
      BY <2>2, <2>3
  <1>3. upload' \in [Upload -> UploadState]
    BY <1>2 DEF Crash
  <1>4. TypeOK'
    BY <1>1, <1>3 DEF UploadInv, TypeOK, tables, history
  <1>5. IdsAreUsed' /\ CodesAreUnique'
    BY <1>1 DEF UploadInv, tables, IdsAreUsed, CodesAreUnique
  <1>6. ReferencesExist'
    BY <1>1, <1>2 DEF UploadInv, tables, ReferencesExist
  <1>7. PendingIsTruthful' /\ FoundIsGood'
    BY <1>2 DEF PendingIsTruthful, FoundIsGood
  <1>8. ResultsAreTruthful'
    BY <1>1, <1>2 DEF UploadInv, ResultsAreTruthful, Truthful, tables, history
  <1>9. IdleHasNoResults'
    BY <1>1, <1>2 DEF UploadInv, IdleHasNoResults
  <1>10. QED
    BY <1>4, <1>5, <1>6, <1>7, <1>8, <1>9 DEF UploadInv

-----------------------------------------------------------------------------
(* The theorems *)

LEMMA InitInv == Init => UploadInv
  <1> SUFFICES ASSUME Init PROVE UploadInv
    OBVIOUS
  <1>1. TypeOK
    <2>1. orgs \subseteq OrgId /\ nextOrg \in 1..(MaxOrg + 1)
      BY UploadAssumption DEF Init, Provider, OrgId
    <2>2. upload \in [Upload -> UploadState] /\ results \in [Upload -> Seq(Result)]
      BY EmptyTypes DEF Init
    <2>3. edits \in 0..MaxEdits /\ crashes \in 0..MaxCrashes
      BY UploadAssumption DEF Init
    <2>4. QED
      BY <2>1, <2>2, <2>3 DEF Init, TypeOK
  <1>2. \A u \in Upload : upload[u].pc = "idle" /\ results[u] = << >>
    BY DEF Init, NoUpload
  <1>3. IdsAreUsed /\ CodesAreUnique
    BY UploadAssumption DEF Init, IdsAreUsed, CodesAreUnique, Provider
  <1>4. ReferencesExist /\ IdleHasNoResults
    BY <1>2 DEF Init, ReferencesExist, IdleHasNoResults
  <1>5. PendingIsTruthful /\ ResultsAreTruthful /\ FoundIsGood
    BY <1>2 DEF PendingIsTruthful, ResultsAreTruthful, FoundIsGood
  <1>6. QED
    BY <1>1, <1>3, <1>4, <1>5 DEF UploadInv

LEMMA NextInv == UploadInv /\ [Next]_vars => UploadInv'
  <1> SUFFICES ASSUME UploadInv, [Next]_vars PROVE UploadInv'
    OBVIOUS
  <1>1. ASSUME NEW u \in Upload, NEW o \in OrgId, NEW p \in OrgId,
               NEW file \in Files, Submit(u, o, p, file)
        PROVE  UploadInv'
    BY <1>1, SubmitStep
  <1>2. ASSUME NEW u \in Upload, UploadStep(u)
        PROVE  UploadInv'
    <2>1. CASE BadHeader(u) \/ StoreResult(u) \/ Abort(u)
      BY <2>1, StoringStep
    <2>2. CASE RejectLine(u) \/ CreateRefused(u) \/ Ambiguous(u)
      BY <2>2, ErrorStep
    <2>3. CASE Search(u) \/ EndOfFile(u) \/ ResultLost(u) \/ End(u) \/ Raise(u)
      BY <2>3, SilentStep
    <2>4. CASE LinkFound(u)
      BY <2>4, LinkFoundStep
    <2>5. CASE CreateInstitution(u)
      BY <2>5, CreateInstitutionStep
    <2>6. CASE CreateFails(u)
      BY <2>6, CreateFailsStep
    <2>7. QED
      BY <1>2, <2>1, <2>2, <2>3, <2>4, <2>5, <2>6 DEF UploadStep
  <1>3. CASE Administer
    <2>1. ASSUME NEW c \in Code, NEW o \in OrgId, AddCode(c, o)
          PROVE  UploadInv'
      BY <2>1, AddCodeStep
    <2>2. ASSUME NEW row \in schoolCodes, RemoveCode(row)
          PROVE  UploadInv'
      BY <2>2, RemoveCodeStep
    <2>3. ASSUME NEW codes \in SUBSET Code, CreateByHand(codes)
          PROVE  UploadInv'
      BY <2>3, CreateByHandStep
    <2>4. ASSUME NEW i \in OrgId, NEW p \in OrgId, LinkByHand(i, p)
          PROVE  UploadInv'
      BY <2>4, LinkByHandStep
    <2>5. ASSUME NEW i \in OrgId, NEW providers \in SUBSET Provider,
                 SetProviders(i, providers)
          PROVE  UploadInv'
      BY <2>5, SetProvidersStep
    <2>6. ASSUME NEW o \in OrgId, DeleteOrganization(o)
          PROVE  UploadInv'
      BY <2>6, DeleteOrganizationStep
    <2>7. QED
      BY <1>3, <2>1, <2>2, <2>3, <2>4, <2>5, <2>6 DEF Administer
  <1>4. CASE Crash
    BY <1>4, CrashStep
  <1>5. CASE UNCHANGED vars
    <2>1. /\ upload' = upload /\ results' = results /\ orgs' = orgs
          /\ nextOrg' = nextOrg /\ schoolCodes' = schoolCodes /\ links' = links
          /\ deleted' = deleted /\ dropped' = dropped
          /\ edits' = edits /\ crashes' = crashes
      BY <1>5 DEF vars, tables, history
    <2>2. TypeOK' /\ TablesAreConsistent'
      BY <2>1 DEF UploadInv, TypeOK, TablesAreConsistent, ReferencesExist,
                  IdsAreUsed, CodesAreUnique
    <2>3. nextOrg <= nextOrg'
      BY <2>1, UploadAssumption DEF UploadInv, TypeOK
    <2>4. QED
      BY <2>1, <2>2, <2>3, EditStep
  <1>6. QED
    BY <1>1, <1>2, <1>3, <1>4, <1>5 DEF Next

(* The inductive invariant: the tables are consistent, and what an upload   *)
(* reports, or will report next, is true, whatever other uploads and        *)
(* administrators do between the steps of processCSVFile.                   *)
THEOREM UploadInvariance == Spec => []UploadInv
  BY InitInv, NextInv, PTL DEF Spec

(* Two uploads that race for a code never both create its institution.      *)
THEOREM UniqueCodes == Spec => []CodesAreUnique
  <1>1. UploadInv => CodesAreUnique
    BY DEF UploadInv
  <1>2. QED
    BY <1>1, UploadInvariance, PTL

(* No delete leaves a code, a link, an upload or a result that refers to an *)
(* organization that is gone.                                               *)
THEOREM NoDanglingReferences == Spec => []ReferencesExist
  <1>1. UploadInv => ReferencesExist
    BY DEF UploadInv
  <1>2. QED
    BY <1>1, UploadInvariance, PTL

(* A result that processCSVFile stores as a success is of an institution    *)
(* that the provider serves, unless an administrator took the link away.    *)
THEOREM SuccessesAreServed == Spec => []SuccessMeansServed
  <1>1. UploadInv => SuccessMeansServed
    BY DEF UploadInv, ResultsAreTruthful, Truthful, SuccessMeansServed
  <1>2. QED
    BY <1>1, UploadInvariance, PTL

(* A result that processCSVFile stores as an error names no organization    *)
(* that exists: the transaction that failed was undone completely.          *)
THEOREM ErrorsLeaveNothing == Spec => []ErrorLeavesNothing
  <1>1. UploadInv => ErrorLeavesNothing
    BY DEF UploadInv, ResultsAreTruthful, Truthful, ErrorLeavesNothing
  <1>2. QED
    BY <1>1, UploadInvariance, PTL
-----------------------------------------------------------------------------
(* The lines of a file *)

(* What a change of one upload leaves of the others.                        *)
LEMMA OtherLines ==
    ASSUME LinesInv, NEW u \in Upload, LinesOf(u)',
           \A v \in Upload \ {u} : upload'[v] = upload[v] /\ results'[v] = results[v]
    PROVE  LinesInv'
  <1> SUFFICES ASSUME NEW v \in Upload, v # u PROVE LinesOf(v)'
    BY DEF LinesInv
  <1>1. LinesOf(v) /\ upload'[v] = upload[v] /\ results'[v] = results[v]
    BY DEF LinesInv
  <1>2. QED
    BY <1>1 DEF LinesOf, InOrder, UpToDate, Concluded, IsAbort

(* A step that stores no result, from a line that is up to date.            *)
LEMMA LineStays ==
    ASSUME TypeOK, LinesInv, NEW u \in Upload, results' = results, UpToDate(u),
           \A v \in Upload \ {u} : upload'[v] = upload[v],
           upload'[u].file = upload[u].file,
           upload'[u].line = upload[u].line,
           upload'[u].pc \in {"found", "report", "aborting"},
           upload'[u].pc = "report" =>
               /\ upload'[u].result.line = upload[u].line
               /\ upload[u].line <= Len(upload[u].file)
    PROVE  LinesInv'
  <1>1. LinesOf(u)'
    BY DEF LinesOf, InOrder, UpToDate
  <1>2. QED
    BY <1>1, OtherLines

(* A step that ends the upload, or writes its end.                          *)
LEMMA LinesEnd ==
    ASSUME LinesInv, NEW u \in Upload, results' = results, Concluded(u),
           \A v \in Upload \ {u} : upload'[v] = upload[v],
           upload'[u].file = upload[u].file,
           upload'[u].line = upload[u].line,
           upload'[u].pc \in {"ending", "ended"}
    PROVE  LinesInv'
  <1>1. LinesOf(u)
    BY DEF LinesInv
  <1>2. LinesOf(u)'
    BY <1>1 DEF LinesOf, InOrder, Concluded, IsAbort
  <1>3. QED
    BY <1>2, OtherLines

(* What is stored comes after what was.                                     *)
LEMMA StoredLast ==
    ASSUME TypeOK, NEW u \in Upload, NEW result \in Result, Store(u, result)
    PROVE  /\ results'[u] = Append(results[u], result)
           /\ Len(results'[u]) = Len(results[u]) + 1
           /\ results'[u][Len(results[u]) + 1] = result
           /\ \A k \in DOMAIN results'[u] :
                 k # Len(results[u]) + 1 =>
                    k \in DOMAIN results[u] /\ results'[u][k] = results[u][k]
           /\ Len(results[u]) \in Nat
           /\ \A v \in Upload \ {u} : results'[v] = results[v]
  <1>1. results \in [Upload -> Seq(Result)]
    BY DEF TypeOK
  <1>2. QED
    BY <1>1 DEF Store

LEMMA FieldTypes ==
    ASSUME TypeOK, NEW u \in Upload
    PROVE  /\ upload[u].line \in Nat \ {0}
           /\ upload[u].result \in Result
           /\ Len(upload[u].file) \in Nat
           /\ results[u] \in Seq(Result)
           /\ Len(results[u]) \in Nat
  <1>1. upload[u] \in UploadState /\ results[u] \in Seq(Result)
    BY DEF TypeOK
  <1>2. upload[u].file \in Files \union {<< >>}
    BY <1>1 DEF UploadState
  <1>3. upload[u].file \in Seq(Line)
    <2>1. << >> \in Seq(Line)
      OBVIOUS
    <2>2. QED
      BY <1>2, <2>1, UploadAssumption
  <1>4. Len(upload[u].file) \in Nat
    BY <1>3
  <1>5. QED
    BY <1>1, <1>4 DEF UploadState

LEMMA ReportLines ==
    ASSUME TypeOK, LinesInv, NEW u \in Upload, NEW outcome, NEW i,
           Report(u, outcome, i), results' = results, UpToDate(u),
           upload[u].line <= Len(upload[u].file)
    PROVE  LinesInv'
  <1>1. upload[u] \in UploadState /\ upload \in [Upload -> UploadState]
    BY DEF TypeOK
  <1>2. /\ \A v \in Upload \ {u} : upload'[v] = upload[v]
        /\ upload'[u].file = upload[u].file
        /\ upload'[u].line = upload[u].line
        /\ upload'[u].pc = "report"
        /\ upload'[u].result.line = upload[u].line
    BY <1>1 DEF Report, UploadState
  <1>3. QED
    BY <1>2, LineStays

LEMMA QuietLines ==
    ASSUME UploadInv, LinesInv, NEW u \in Upload,
           \/ RejectLine(u) \/ Search(u) \/ LinkFound(u) \/ CreateInstitution(u)
           \/ CreateFails(u) \/ CreateRefused(u) \/ Ambiguous(u) \/ Raise(u)
    PROVE  LinesInv'
  <1>1. /\ TypeOK
        /\ upload[u] \in UploadState /\ upload \in [Upload -> UploadState]
        /\ upload[u].pc = "found" => upload[u].line <= Len(upload[u].file)
    BY FieldTypes DEF UploadInv, TypeOK, FoundIsGood
  <1>2. LinesOf(u)
    BY DEF LinesInv
  <1>3. CASE RejectLine(u)
    BY <1>1, <1>2, <1>3, ReportLines DEF RejectLine, Reading, LinesOf
  <1>4. CASE \/ CreateInstitution(u) \/ CreateFails(u) \/ CreateRefused(u)
             \/ Ambiguous(u)
    <2>1. upload[u].pc = "found" /\ results' = results
          /\ \E outcome, i : Report(u, outcome, i)
      BY <1>4 DEF CreateInstitution, CreateFails, CreateRefused, Ambiguous, Creating
    <2>2. QED
      BY <1>1, <1>2, <2>1, ReportLines DEF LinesOf
  <1>5. CASE LinkFound(u)
    <2>1. upload[u].pc = "found" /\ results' = results
          /\ \E i : Report(u, "SUCCESS", i)
      BY <1>5 DEF LinkFound
    <2>2. QED
      BY <1>1, <1>2, <2>1, ReportLines DEF LinesOf
  <1>6. CASE Search(u)
    <2>1. /\ \A v \in Upload \ {u} : upload'[v] = upload[v]
          /\ upload'[u].file = upload[u].file
          /\ upload'[u].line = upload[u].line
          /\ upload'[u].pc = "found"
          /\ results' = results
      BY <1>1, <1>6 DEF Search, UploadState
    <2>2. UpToDate(u)
      BY <1>2, <1>6 DEF Search, Reading, LinesOf
    <2>3. QED
      BY <1>1, <2>1, <2>2, LineStays
  <1>7. CASE Raise(u)
    <2>1. /\ \A v \in Upload \ {u} : upload'[v] = upload[v]
          /\ upload'[u].file = upload[u].file
          /\ upload'[u].line = upload[u].line
          /\ upload'[u].pc = "aborting"
          /\ results' = results
      BY <1>1, <1>7 DEF Raise, UploadState
    <2>2. UpToDate(u)
      BY <1>2, <1>7 DEF Raise, Reading, LinesOf
    <2>3. QED
      BY <1>1, <2>1, <2>2, LineStays
  <1>8. QED
    BY <1>3, <1>4, <1>5, <1>6, <1>7

(* The result of a line comes after those of the lines before it.           *)
LEMMA StoreResultLines ==
    ASSUME UploadInv, LinesInv, NEW u \in Upload, StoreResult(u)
    PROVE  LinesInv'
  <1>1. TypeOK /\ upload \in [Upload -> UploadState] /\ upload[u] \in UploadState
    BY DEF UploadInv, TypeOK
  <1>2. /\ upload[u].pc = "report" /\ UpToDate(u)
        /\ upload[u].result.line = upload[u].line
        /\ upload[u].line <= Len(upload[u].file)
    BY DEF LinesInv, LinesOf, StoreResult
  <1>3. upload[u].line \in Nat /\ Len(upload[u].file) \in Nat /\ upload[u].result \in Result
    BY <1>1, FieldTypes
  <1>4. /\ \A v \in Upload \ {u} : upload'[v] = upload[v]
        /\ upload'[u].file = upload[u].file
        /\ upload'[u].line = upload[u].line + 1
        /\ upload'[u].pc = "reading"
    BY <1>1 DEF StoreResult, UploadState
  <1>5. Store(u, upload[u].result)
    BY DEF StoreResult
  <1>6. InOrder(u)'
    <2> SUFFICES ASSUME NEW k \in DOMAIN results'[u]
                 PROVE  results'[u][k].line = k
      BY DEF InOrder
    <2>1. InOrder(u) /\ Len(results[u]) + 1 = upload[u].line
      BY <1>1, <1>2, <1>3, FieldTypes DEF UpToDate
    <2>2. CASE k = Len(results[u]) + 1
      BY <1>1, <1>2, <1>3, <1>5, <2>1, <2>2, StoredLast
    <2>3. CASE k # Len(results[u]) + 1
      <3>1. k \in DOMAIN results[u] /\ results'[u][k] = results[u][k]
        BY <1>1, <1>3, <1>5, <2>3, StoredLast
      <3>2. QED
        BY <2>1, <3>1 DEF InOrder
    <2>4. QED
      BY <2>2, <2>3
  <1>7. UpToDate(u)'
    <2>1. Len(results'[u]) = Len(results[u]) + 1
      BY <1>1, <1>3, <1>5, StoredLast
    <2>2. Len(results[u]) = upload[u].line - 1
      BY <1>2 DEF UpToDate
    <2>3. QED
      BY <1>2, <1>3, <1>4, <1>6, <2>1, <2>2 DEF UpToDate
  <1>8. LinesOf(u)'
    BY <1>4, <1>6, <1>7 DEF LinesOf
  <1>9. QED
    BY <1>1, <1>3, <1>4, <1>5, <1>8, StoredLast, OtherLines

(* The result of an exception names the line that it met, which is the next *)
(* one.                                                                     *)
LEMMA AbortLines ==
    ASSUME UploadInv, LinesInv, NEW u \in Upload, Abort(u)
    PROVE  LinesInv'
  <1> DEFINE result == [NoResult EXCEPT !.line = upload[u].line]
  <1>1. TypeOK /\ upload \in [Upload -> UploadState] /\ upload[u] \in UploadState
    BY DEF UploadInv, TypeOK
  <1>2. UpToDate(u)
    BY DEF LinesInv, LinesOf, Abort
  <1>3. upload[u].line \in Nat /\ Len(upload[u].file) \in Nat
    BY <1>1, FieldTypes
  <1>4. /\ result \in Result /\ result.line = upload[u].line
        /\ result.outcome = "ERROR" /\ result.institution = 0
    BY <1>3, UploadAssumption DEF NoResult, Result, Outcome
  <1>5. /\ \A v \in Upload \ {u} : upload'[v] = upload[v]
        /\ upload'[u].file = upload[u].file
        /\ upload'[u].line = upload[u].line
        /\ upload'[u].pc = "ending"
    BY <1>1 DEF Abort, UploadState
  <1>6. Store(u, result)
    BY DEF Abort
  <1> HIDE DEF result
  <1>7. InOrder(u)'
    BY <1>1, <1>2, <1>3, <1>4, <1>6, StoredLast DEF UpToDate, InOrder
  <1>8. IsAbort(u, results[u][Len(results[u])])'
    <2>1. results'[u][Len(results'[u])] = result
      BY <1>1, <1>4, <1>6, StoredLast
    <2>2. QED
      BY <1>4, <1>5, <2>1 DEF IsAbort
  <1>9. LinesOf(u)'
    BY <1>5, <1>7, <1>8 DEF LinesOf, Concluded
  <1>10. QED
    BY <1>1, <1>4, <1>5, <1>6, <1>9, StoredLast, OtherLines

(* A header that lacks a column is the only result, and has no line.        *)
LEMMA BadHeaderLines ==
    ASSUME UploadInv, LinesInv, NEW u \in Upload, BadHeader(u)
    PROVE  LinesInv'
  <1>1. TypeOK /\ upload \in [Upload -> UploadState] /\ upload[u] \in UploadState
    BY DEF UploadInv, TypeOK
  <1>2. UpToDate(u) /\ upload[u].line = 1
    BY DEF LinesInv, LinesOf, BadHeader, AtHeader
  <1>3. results[u] = << >>
    BY <1>1, <1>2, FieldTypes DEF UpToDate
  <1>4. /\ NoResult \in Result
        /\ NoResult.line = 0 /\ NoResult.outcome = "ERROR" /\ NoResult.institution = 0
    BY EmptyTypes DEF NoResult
  <1>5. /\ \A v \in Upload \ {u} : upload'[v] = upload[v]
        /\ upload'[u].pc = "ending"
        /\ Store(u, NoResult)
    BY <1>1 DEF BadHeader, UploadState
  <1> HIDE DEF NoResult
  <1>6. results'[u] = <<NoResult>>
    BY <1>1, <1>3, <1>4, <1>5, StoredLast
  <1>7. LinesOf(u)'
    BY <1>4, <1>5, <1>6 DEF LinesOf, Concluded, IsAbort
  <1>8. QED
    BY <1>1, <1>4, <1>5, <1>7, StoredLast, OtherLines

LEMMA EndLines ==
    ASSUME UploadInv, LinesInv, NEW u \in Upload,
           ResultLost(u) \/ EndOfFile(u) \/ End(u)
    PROVE  LinesInv'
  <1>1. TypeOK /\ upload \in [Upload -> UploadState] /\ upload[u] \in UploadState
    BY DEF UploadInv, TypeOK
  <1>2. LinesOf(u)
    BY DEF LinesInv
  <1>3. /\ \A v \in Upload \ {u} : upload'[v] = upload[v]
        /\ upload'[u].file = upload[u].file
        /\ upload'[u].line = upload[u].line
        /\ upload'[u].pc \in {"ending", "ended"}
        /\ results' = results
    BY <1>1 DEF ResultLost, EndOfFile, End, UploadState
  <1>4. /\ upload[u].line \in Nat \ {0} /\ Len(upload[u].file) \in Nat
        /\ results[u] \in Seq(Result) /\ Len(results[u]) \in Nat
    BY <1>1, FieldTypes
  <1>5. Concluded(u)
    <2>1. CASE AtHeader(u)
      BY <1>2, <1>4, <2>1 DEF AtHeader, LinesOf, UpToDate, Concluded
    <2>2. CASE upload[u].pc = "aborting" /\ upload[u].provider \notin orgs
      BY <2>2 DEF UploadInv, ReferencesExist, Concluded
    <2>3. CASE EndOfFile(u)
      BY <1>2, <1>4, <2>3 DEF EndOfFile, LinesOf, UpToDate, Concluded
    <2>4. CASE End(u)
      BY <1>2, <2>4 DEF End, LinesOf
    <2>5. QED
      BY <2>1, <2>2, <2>3, <2>4 DEF ResultLost
  <1>6. QED
    BY <1>3, <1>5, LinesEnd

LEMMA SubmitLines ==
    ASSUME UploadInv, LinesInv, NEW u \in Upload, NEW o \in OrgId, NEW p \in OrgId,
           NEW file \in Files, Submit(u, o, p, file)
    PROVE  LinesInv'
  <1>1. TypeOK /\ upload \in [Upload -> UploadState] /\ upload[u] \in UploadState
    BY DEF UploadInv, TypeOK
  <1>2. results[u] = << >> /\ results' = results
    BY DEF UploadInv, IdleHasNoResults, Submit
  <1>3. /\ \A v \in Upload \ {u} : upload'[v] = upload[v]
        /\ upload'[u].file = file
        /\ upload'[u].line = 1
        /\ upload'[u].pc = "reading"
    BY <1>1 DEF Submit, NoUpload
  <1>4. Len(file) \in Nat
    BY UploadAssumption
  <1>5. LinesOf(u)'
    BY <1>2, <1>3, <1>4 DEF LinesOf, InOrder, UpToDate
  <1>6. QED
    BY <1>2, <1>3, <1>5, OtherLines

LEMMA CrashLines == UploadInv /\ LinesInv /\ Crash => LinesInv'
  <1> SUFFICES ASSUME UploadInv, LinesInv, Crash, NEW u \in Upload PROVE LinesOf(u)'
    BY DEF LinesInv
  <1>1. upload[u] \in UploadState /\ results' = results /\ LinesOf(u)
    BY DEF UploadInv, TypeOK, LinesInv, Crash
  <1>2. \/ upload'[u] = upload[u]
        \/ upload'[u].pc = "crashed"
    BY <1>1 DEF Crash, UploadState
  <1>3. QED
    BY <1>1, <1>2 DEF LinesOf, InOrder, UpToDate, Concluded, IsAbort

LEMMA InitLines == Init => LinesInv
  <1> SUFFICES ASSUME Init, NEW u \in Upload PROVE LinesOf(u)
    BY DEF LinesInv
  <1>1. /\ upload[u].pc = "idle" /\ upload[u].line = 1 /\ upload[u].file = << >>
        /\ results[u] = << >>
    BY DEF Init, NoUpload
  <1>2. QED
    BY <1>1 DEF LinesOf, InOrder, UpToDate

LEMMA NextLines == UploadInv /\ LinesInv /\ [Next]_vars => LinesInv'
  <1> SUFFICES ASSUME UploadInv, LinesInv, [Next]_vars PROVE LinesInv'
    OBVIOUS
  <1>1. ASSUME NEW u \in Upload, NEW o \in OrgId, NEW p \in OrgId,
               NEW file \in Files, Submit(u, o, p, file)
        PROVE  LinesInv'
    BY <1>1, SubmitLines
  <1>2. ASSUME NEW u \in Upload, UploadStep(u)
        PROVE  LinesInv'
    BY <1>2, QuietLines, StoreResultLines, AbortLines, BadHeaderLines, EndLines
       DEF UploadStep
  <1>3. CASE Administer \/ UNCHANGED vars
    <2>1. upload' = upload /\ results' = results
      BY <1>3 DEF Administer, AddCode, RemoveCode, CreateByHand, LinkByHand,
                  SetProviders, DeleteOrganization, vars
    <2>2. QED
      BY <2>1 DEF LinesInv, LinesOf, InOrder, UpToDate, Concluded, IsAbort
  <1>4. CASE Crash
    BY <1>4, CrashLines
  <1>5. QED
    BY <1>1, <1>2, <1>3, <1>4 DEF Next

(* The results of a file are those of its lines, in their order, and an end *)
(* before the last line left the error of its line: in processCSVFile the   *)
(* counter of lines and the stored results move together, whatever is       *)
(* thrown, and the provider that a result needs cannot be deleted once an   *)
(* earlier one refers to it.                                                *)
THEOREM LinesInOrder == Spec => []LinesAreAnswered
  <1>1. UploadInv /\ LinesInv => LinesAreAnswered
    <2> SUFFICES ASSUME UploadInv, LinesInv, NEW u \in Upload
                 PROVE  /\ \A k \in 1..Len(results[u]) :
                              results[u][k].line = k \/ results[u] = <<NoResult>>
                        /\ upload[u].pc = "ended" /\ Len(results[u]) # 0 =>
                              \/ Len(results[u]) = Len(upload[u].file)
                              \/ IsAbort(u, results[u][Len(results[u])])
      BY DEF LinesAreAnswered
    <2>1. results[u] \in Seq(Result) /\ LinesOf(u)
      BY DEF UploadInv, TypeOK, LinesInv
    <2>2. QED
      BY <2>1 DEF LinesOf, InOrder, Concluded
  <1>2. QED
    BY <1>1, InitLines, NextLines, UploadInvariance, PTL DEF Spec

-----------------------------------------------------------------------------
(* The refinement of UploadProgress *)

(* The bars of one upload change, those of the others stay.                 *)
LEMMA BarsOf ==
    ASSUME TypeOK, TypeOK', NEW u \in Upload,
           \A v \in Upload \ {u} : upload'[v] = upload[v] /\ results'[v] = results[v]
    PROVE  /\ storedBar' = [storedBar EXCEPT ![u] = storedBar'[u]]
           /\ progressBar' = [progressBar EXCEPT ![u] = progressBar'[u]]
  BY DEF storedBar, progressBar

LEMMA BarsStay ==
    ASSUME \A v \in Upload : progressBar'[v] = progressBar[v], results' = results
    PROVE  UNCHANGED <<storedBar, progressBar>>
  <1>1. storedBar' = storedBar
    BY DEF storedBar
  <1>2. progressBar' = progressBar
    BY DEF progressBar
  <1>3. QED
    BY <1>1, <1>2

(* associateInstitutions begins the processing.                             *)
LEMMA SubmitBegins ==
    ASSUME TypeOK, TypeOK', NEW u \in Upload, NEW o \in OrgId, NEW p \in OrgId,
           NEW file \in Files, Submit(u, o, p, file)
    PROVE  P!Begin(u)
  <1>1. /\ \A v \in Upload \ {u} : upload'[v] = upload[v] /\ results'[v] = results[v]
        /\ upload[u].pc = "idle" /\ upload'[u].pc = "reading" /\ results' = results
    BY DEF TypeOK, Submit, NoUpload
  <1>2. progressBar[u] = "none" /\ progressBar'[u] = "running"
    BY <1>1 DEF progressBar
  <1>3. storedBar' = storedBar
    BY <1>1 DEF storedBar
  <1>4. QED
    BY <1>1, <1>2, <1>3, BarsOf DEF P!Begin

(* Each of the three insertions of a result adds one.                       *)
LEMMA StoresAdd ==
    ASSUME TypeOK, TypeOK', NEW u \in Upload,
           BadHeader(u) \/ StoreResult(u) \/ Abort(u)
    PROVE  P!AddResult(u)
  <1>1. upload \in [Upload -> UploadState] /\ upload[u] \in UploadState
    BY DEF TypeOK
  <1>2. PICK result \in Result : Store(u, result)
    <2>1. upload[u].result \in Result /\ NoResult \in Result
          /\ [NoResult EXCEPT !.line = upload[u].line] \in Result
      BY <1>1, EmptyTypes DEF UploadState, Result
    <2>2. QED
      BY <2>1 DEF BadHeader, StoreResult, Abort
  <1>3. /\ \A v \in Upload \ {u} : upload'[v] = upload[v] /\ results'[v] = results[v]
        /\ Len(results'[u]) = Len(results[u]) + 1
    BY <1>1, <1>2, StoredLast DEF BadHeader, StoreResult, Abort
  <1>4. upload[u].pc \notin {"idle", "ended"} /\ upload'[u].pc \notin {"idle", "ended"}
    BY <1>1 DEF BadHeader, StoreResult, Abort, AtHeader, UploadState
  <1>5. progressBar[u] = "running" /\ progressBar'[u] = "running"
    BY <1>4 DEF progressBar
  <1>6. \A v \in Upload : progressBar'[v] = progressBar[v]
    BY <1>3, <1>5 DEF progressBar
  <1>7. progressBar' = progressBar
    BY <1>6 DEF progressBar
  <1>8. storedBar'[u] = storedBar[u] + 1
    BY <1>3 DEF storedBar
  <1>9. QED
    BY <1>3, <1>5, <1>7, <1>8, BarsOf DEF P!AddResult

(* The finally block finishes.                                              *)
LEMMA EndFinishes ==
    ASSUME TypeOK, TypeOK', NEW u \in Upload, End(u)
    PROVE  P!Finish(u)
  <1>1. /\ \A v \in Upload \ {u} : upload'[v] = upload[v] /\ results'[v] = results[v]
        /\ upload[u].pc = "ending" /\ upload'[u].pc = "ended" /\ results' = results
    BY DEF TypeOK, End, UploadState
  <1>2. progressBar[u] = "running" /\ progressBar'[u] = "ended"
    BY <1>1 DEF progressBar
  <1>3. storedBar' = storedBar
    BY <1>1 DEF storedBar
  <1>4. QED
    BY <1>1, <1>2, <1>3, BarsOf DEF P!Finish

(* The other steps of the thread happen between results.                    *)
LEMMA RestStutters ==
    ASSUME TypeOK, TypeOK', NEW u \in Upload,
           \/ RejectLine(u) \/ Search(u) \/ LinkFound(u) \/ CreateInstitution(u)
           \/ CreateFails(u) \/ CreateRefused(u) \/ Ambiguous(u) \/ Raise(u)
           \/ ResultLost(u) \/ EndOfFile(u)
    PROVE  UNCHANGED <<storedBar, progressBar>>
  <1>1. upload \in [Upload -> UploadState] /\ upload[u] \in UploadState
    BY DEF TypeOK
  <1>2. results' = results
    BY DEF RejectLine, Search, LinkFound, CreateInstitution, CreateFails,
           CreateRefused, Ambiguous, Raise, ResultLost, EndOfFile
  <1>3. /\ upload[u].pc \notin {"idle", "ended"}
        /\ upload'[u].pc \notin {"idle", "ended"}
        /\ \A v \in Upload \ {u} : upload'[v] = upload[v]
    BY <1>1 DEF RejectLine, Search, LinkFound, CreateInstitution, CreateFails,
                CreateRefused, Ambiguous, Raise, ResultLost, EndOfFile, Report,
                Creating, Reading, AtHeader, UploadState
  <1>4. \A v \in Upload : progressBar'[v] = progressBar[v]
    BY <1>3 DEF progressBar
  <1>5. QED
    BY <1>2, <1>4, BarsStay

(* Administrators leave the progress alone, and a crash leaves an upload    *)
(* that was running as if it still were.                                    *)
LEMMA OthersStutter ==
    ASSUME TypeOK, Administer \/ Crash \/ UNCHANGED vars
    PROVE  UNCHANGED <<storedBar, progressBar>>
  <1>1. CASE Administer \/ UNCHANGED vars
    <2>1. upload' = upload /\ results' = results
      BY <1>1 DEF Administer, AddCode, RemoveCode, CreateByHand, LinkByHand,
                  SetProviders, DeleteOrganization, vars
    <2>2. QED
      BY <2>1 DEF storedBar, progressBar
  <1>2. CASE Crash
    <2>1. ASSUME NEW v \in Upload PROVE progressBar'[v] = progressBar[v]
      <3>1. upload[v] \in UploadState
        BY DEF TypeOK
      <3>2. \/ upload'[v] = upload[v]
            \/ /\ upload[v].pc \in Active
               /\ upload'[v].pc = "crashed"
        BY <1>2, <3>1 DEF Crash, UploadState
      <3>3. QED
        BY <3>2 DEF progressBar, Active
    <2>2. QED
      BY <1>2, <2>1, BarsStay DEF Crash
  <1>3. QED
    BY <1>1, <1>2

LEMMA ProgressStep == UploadInv /\ UploadInv' /\ [Next]_vars => [P!ProgressNext]_(P!progressVars)
  <1> SUFFICES ASSUME TypeOK, TypeOK', [Next]_vars
               PROVE  P!ProgressNext \/ UNCHANGED <<storedBar, progressBar>>
    BY DEF UploadInv, P!progressVars
  <1>1. ASSUME NEW u \in Upload, NEW o \in OrgId, NEW p \in OrgId,
               NEW file \in Files, Submit(u, o, p, file)
        PROVE  P!ProgressNext
    BY <1>1, SubmitBegins DEF P!ProgressNext
  <1>2. ASSUME NEW u \in Upload, UploadStep(u)
        PROVE  P!ProgressNext \/ UNCHANGED <<storedBar, progressBar>>
    BY <1>2, StoresAdd, EndFinishes, RestStutters DEF UploadStep, P!ProgressNext
  <1>3. CASE Administer \/ Crash \/ UNCHANGED vars
    BY <1>3, OthersStutter
  <1>4. QED
    BY <1>1, <1>2, <1>3 DEF Next

LEMMA ProgressStarts == Init => P!ProgressInit
  <1> SUFFICES ASSUME Init PROVE P!ProgressInit
    OBVIOUS
  <1>1. \A u \in Upload : upload[u].pc = "idle" /\ results[u] = << >>
    BY DEF Init, NoUpload
  <1>2. storedBar = [u \in Upload |-> 0] /\ progressBar = [u \in Upload |-> "none"]
    BY <1>1 DEF storedBar, progressBar
  <1>3. QED
    BY <1>2 DEF P!ProgressInit

(* What the pages rely on: the results of an upload are only added, one by  *)
(* one, never before the upload is stored nor after processCSVFile set its  *)
(* end time, which is for good, also when the server crashes.               *)
THEOREM UploadImplementsProgress == Spec => UploadsProgress
  <1>1. UploadsProgress <=> P!ProgressInit /\ [][P!ProgressNext]_(P!progressVars)
    BY DEF UploadsProgress, P!ProgressSpec
  <1>2. QED
    BY <1>1, ProgressStarts, ProgressStep, UploadInvariance, PTL DEF Spec
=============================================================================
