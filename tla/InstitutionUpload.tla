-------------------------- MODULE InstitutionUpload --------------------------
(***************************************************************************)
(* Uploads of institutions to the directory server.                         *)
(*                                                                         *)
(* A service provider uploads a CSV file; processCSVFile runs on a thread   *)
(* of its own, looks each line's school codes up, and links the institution *)
(* that it finds to the provider or creates one.  Each database access is a *)
(* transaction of its own (processCSVFile has none, and calls its own       *)
(* create and update directly), so other uploads and administrators run     *)
(* between the lookup of a line, its effect and its result.  The unique     *)
(* indexes and foreign keys of the changelog decide what a transaction may  *)
(* store.                                                                   *)
(***************************************************************************)
EXTENDS Naturals, Sequences, FiniteSets

CONSTANTS
    Upload,      \* uploads
    MaxOrg,      \* bound: identity values of the organization table
    Providers,   \* number of the organizations that exist at the start
    Code,        \* school codes: a code with its type
    TypeOf,      \* the type of each code
    BadCode,     \* a code that validateSchoolCode refuses
    Files,       \* files that are uploaded, as the codes of each line
    MaxEdits,    \* bound: changes by administrators
    MaxCrashes   \* bound: crashes of the server

OrgId == 1..MaxOrg
Provider == 1..Providers
SystemOrg == 1  \* the organization of the system administrators

OneCodePerType(codes) ==
    \A c, d \in codes : TypeOf[c] = TypeOf[d] => c = d

(* A line has one column for each type of code.                             *)
Line == {codes \in SUBSET (Code \union {BadCode}) :
            OneCodePerType(codes \ {BadCode})}

ASSUME UploadAssumption ==
    /\ MaxOrg \in Nat /\ MaxEdits \in Nat /\ MaxCrashes \in Nat
    /\ Providers \in 0..MaxOrg
    /\ BadCode \notin Code
    /\ Code \subseteq DOMAIN TypeOf
    /\ Files \subseteq Seq(Line)

VARIABLES
    orgs,         \* ids in the organization table
    nextOrg,      \* its next identity value
    schoolCodes,  \* the school_codes table: <<code, organization>>
    links,        \* institutions_service_providers: <<institution, provider>>
    upload,       \* institution_uploads, and the thread of each upload
    results,      \* institution_upload_results of each upload
    deleted,      \* history: organizations that were deleted
    dropped,      \* history: links that administrators took away
    edits, crashes  \* counters for the bounds

tables == <<orgs, nextOrg, schoolCodes, links>>
history == <<deleted, dropped>>
vars == <<tables, upload, results, history, edits, crashes>>

Outcome == {"SUCCESS", "ERROR"}
Result == [line : Nat, outcome : Outcome, institution : 0..MaxOrg]

(* line, found and result are the local variables of processCSVFile.        *)
Active == {"reading", "found", "report", "aborting", "ending"}
UploadState ==
    [pc : Active \union {"idle", "ended", "crashed"},
     organization : 0..MaxOrg,
     provider : 0..MaxOrg,
     file : Files \union {<< >>},
     line : Nat \ {0},
     found : SUBSET OrgId,
     result : Result]

NoResult == [line |-> 0, outcome |-> "ERROR", institution |-> 0]
NoUpload == [pc |-> "idle", organization |-> 0, provider |-> 0, file |-> << >>,
             line |-> 1, found |-> {}, result |-> NoResult]

TypeOK ==
    /\ orgs \subseteq OrgId
    /\ nextOrg \in 1..(MaxOrg + 1)
    /\ schoolCodes \subseteq Code \X OrgId
    /\ links \subseteq OrgId \X OrgId
    /\ upload \in [Upload -> UploadState]
    /\ results \in [Upload -> Seq(Result)]
    /\ deleted \subseteq OrgId
    /\ dropped \subseteq OrgId \X OrgId
    /\ edits \in 0..MaxEdits /\ crashes \in 0..MaxCrashes

Init ==
    /\ orgs = Provider
    /\ nextOrg = Providers + 1
    /\ schoolCodes = {}
    /\ links = {}
    /\ upload = [u \in Upload |-> NoUpload]
    /\ results = [u \in Upload |-> << >>]
    /\ deleted = {}
    /\ dropped = {}
    /\ edits = 0
    /\ crashes = 0

-----------------------------------------------------------------------------
(* The tables *)

Owners(codes) == {o \in OrgId : \E c \in codes : <<c, o>> \in schoolCodes}

(* Without the index: unique codes are up to the callers.                   *)
CodeFreeAtOrg(c) == TRUE

(* unique_code_pair: nobody has the code.                                   *)
CodeFree(c) == Owners({c}) = {}

(* unique_code_per_school: the organization has no code of that type.       *)
TypeFree(c, o) ==
    \A d \in Code : <<d, o>> \in schoolCodes => TypeOf[d] # TypeOf[c]

(* Without the key of the results.                                          *)
ReferencedByUpload(o) ==
    \E u \in Upload : upload[u].pc # "idle" /\ upload[u].organization = o

(* The foreign keys to the organization table that delete leaves alone:     *)
(* the uploads of an organization, and results that were recorded for it.   *)
Referenced(o) ==
    \E u \in Upload :
        \/ upload[u].pc # "idle" /\ upload[u].organization = o
        \/ results[u] # << >> /\ upload[u].provider = o

-----------------------------------------------------------------------------
(* The upload *)

(* associateInstitutions: an administrator uploads for his own provider, a  *)
(* system administrator for any id.                                         *)
Submit(u, o, p, file) ==
    /\ upload[u].pc = "idle" /\ o \in orgs
    /\ o = p \/ o = SystemOrg
    /\ upload' = [upload EXCEPT ![u] = [NoUpload EXCEPT
                     !.pc = "reading", !.organization = o, !.provider = p,
                     !.file = file]]
    /\ UNCHANGED <<tables, results, history, edits, crashes>>

(* The insertion of a result; its foreign key needs the provider.           *)
Store(u, result) ==
    /\ upload[u].provider \in orgs
    /\ results' = [results EXCEPT ![u] = Append(@, result)]

AtHeader(u) == upload[u].pc = "reading" /\ upload[u].line = 1

(* The header lacks a column: one result, without a line number.            *)
BadHeader(u) ==
    /\ AtHeader(u)
    /\ Store(u, NoResult)
    /\ upload' = [upload EXCEPT ![u].pc = "ending"]
    /\ UNCHANGED <<tables, history, edits, crashes>>

CurrentLine(u) == upload[u].file[upload[u].line]
Reading(u) == upload[u].pc = "reading" /\ upload[u].line <= Len(upload[u].file)

Report(u, outcome, institution) ==
    upload' = [upload EXCEPT ![u].pc = "report", ![u].found = {},
                  ![u].result = [line |-> upload[u].line, outcome |-> outcome,
                                 institution |-> institution]]

(* A code is malformed, or the line has none.                               *)
RejectLine(u) ==
    /\ Reading(u)
    /\ CurrentLine(u) = {} \/ BadCode \in CurrentLine(u)
    /\ Report(u, "ERROR", 0)
    /\ UNCHANGED <<tables, results, history, edits, crashes>>

(* findBySchoolCodes                                                        *)
Search(u) ==
    /\ Reading(u)
    /\ CurrentLine(u) # {} /\ BadCode \notin CurrentLine(u)
    /\ upload' = [upload EXCEPT ![u].pc = "found",
                                ![u].found = Owners(CurrentLine(u))]
    /\ UNCHANGED <<tables, results, history, edits, crashes>>

(* A success without a link.                                                *)
LinkFoundForgotten(u) ==
    /\ upload[u].pc = "found"
    /\ \E i \in OrgId : upload[u].found = {i} /\ Report(u, "SUCCESS", i)
    /\ UNCHANGED <<tables, results, history, edits, crashes>>

(* insecureLinkInstitutionWithServiceProvider; a link that exists is no     *)
(* error, an organization that is gone is (Raise).                          *)
LinkFound(u) ==
    /\ upload[u].pc = "found"
    /\ \E i \in OrgId :
          /\ upload[u].found = {i}
          /\ {i, upload[u].provider} \subseteq orgs
          /\ links' = links \union {<<i, upload[u].provider>>}
          /\ Report(u, "SUCCESS", i)
    /\ UNCHANGED <<orgs, nextOrg, schoolCodes, results, history, edits, crashes>>

Creating(u) == upload[u].pc = "found" /\ upload[u].found = {}

CanCreate(u) ==
    /\ \A c \in CurrentLine(u) : CodeFree(c)
    /\ upload[u].provider \in orgs

(* createInstitution: the organization, its codes and the link, in one      *)
(* transaction.                                                             *)
CreateInstitution(u) ==
    /\ Creating(u) /\ CanCreate(u) /\ nextOrg <= MaxOrg
    /\ orgs' = orgs \union {nextOrg}
    /\ nextOrg' = nextOrg + 1
    /\ schoolCodes' = schoolCodes \union (CurrentLine(u) \X {nextOrg})
    /\ links' = links \union {<<nextOrg, upload[u].provider>>}
    /\ Report(u, "SUCCESS", nextOrg)
    /\ UNCHANGED <<results, history, edits, crashes>>

(* A creation that is not rolled back.                                      *)
CreateFailsHalfway(u) ==
    /\ Creating(u) /\ ~CanCreate(u) /\ nextOrg <= MaxOrg
    /\ orgs' = orgs \union {nextOrg}
    /\ nextOrg' = nextOrg + 1
    /\ Report(u, "ERROR", nextOrg)
    /\ UNCHANGED <<schoolCodes, links, results, history, edits, crashes>>

(* A code is taken by now, or the provider is gone: the transaction is      *)
(* rolled back, but its identity value is used up, and it stays in the      *)
(* organization object that the result is made from.                        *)
CreateFails(u) ==
    /\ Creating(u) /\ ~CanCreate(u) /\ nextOrg <= MaxOrg
    /\ nextOrg' = nextOrg + 1
    /\ Report(u, "ERROR", nextOrg)
    /\ UNCHANGED <<orgs, schoolCodes, links, results, history, edits, crashes>>

(* The organization row itself is refused: a name that is too long.         *)
CreateRefused(u) ==
    /\ Creating(u)
    /\ Report(u, "ERROR", 0)
    /\ UNCHANGED <<tables, results, history, edits, crashes>>

(* Several institutions have codes of the line.                             *)
Ambiguous(u) ==
    /\ upload[u].pc = "found" /\ Cardinality(upload[u].found) > 1
    /\ Report(u, "ERROR", 0)
    /\ UNCHANGED <<tables, results, history, edits, crashes>>

StoreResult(u) ==
    /\ upload[u].pc = "report"
    /\ Store(u, upload[u].result)
    /\ upload' = [upload EXCEPT ![u].pc = "reading", ![u].line = @ + 1,
                                ![u].result = NoResult]
    /\ UNCHANGED <<tables, history, edits, crashes>>

(* The exceptions outside of the inner try: the next record is malformed,   *)
(* the link or the result cannot be stored.  The rest of the file is left.  *)
Raise(u) ==
    /\ \/ upload[u].pc = "report" \/ Reading(u)
       \/ upload[u].pc = "found" /\ Cardinality(upload[u].found) = 1
    /\ upload' = [upload EXCEPT ![u].pc = "aborting", ![u].found = {},
                                ![u].result = NoResult]
    /\ UNCHANGED <<tables, results, history, edits, crashes>>

(* An exception that is only logged.                                        *)
AbortSilently(u) ==
    /\ upload[u].pc = "aborting"
    /\ upload' = [upload EXCEPT ![u].pc = "ending"]
    /\ UNCHANGED <<tables, results, history, edits, crashes>>

Abort(u) ==
    /\ upload[u].pc = "aborting"
    /\ Store(u, [NoResult EXCEPT !.line = upload[u].line])
    /\ upload' = [upload EXCEPT ![u].pc = "ending"]
    /\ UNCHANGED <<tables, history, edits, crashes>>

(* The file or its header cannot be read, or the result of an exception has *)
(* no provider: nothing is stored.                                          *)
ResultLost(u) ==
    /\ \/ AtHeader(u)
       \/ upload[u].pc = "aborting" /\ upload[u].provider \notin orgs
    /\ upload' = [upload EXCEPT ![u].pc = "ending"]
    /\ UNCHANGED <<tables, results, history, edits, crashes>>

EndOfFile(u) ==
    /\ upload[u].pc = "reading" /\ upload[u].line > Len(upload[u].file)
    /\ upload' = [upload EXCEPT ![u].pc = "ending"]
    /\ UNCHANGED <<tables, results, history, edits, crashes>>

(* An end that is only reached from the end of the file.                    *)
EndAfterFile(u) ==
    /\ upload[u].pc = "ending" /\ upload[u].line > Len(upload[u].file)
    /\ upload' = [upload EXCEPT ![u].pc = "ended"]
    /\ UNCHANGED <<tables, results, history, edits, crashes>>

(* The finally block sets the end time, which the page waits for.           *)
End(u) ==
    /\ upload[u].pc = "ending"
    /\ upload' = [upload EXCEPT ![u].pc = "ended"]
    /\ UNCHANGED <<tables, results, history, edits, crashes>>

-----------------------------------------------------------------------------
(* Administrators *)

Edit == edits < MaxEdits /\ edits' = edits + 1

(* nonSecuredCreate, from the resources of school codes and organizations.  *)
AddCode(c, o) ==
    /\ Edit
    /\ o \in orgs \ Provider /\ CodeFree(c) /\ TypeFree(c, o)
    /\ schoolCodes' = schoolCodes \union {<<c, o>>}
    /\ UNCHANGED <<orgs, nextOrg, links, upload, results, history, crashes>>

RemoveCode(row) ==
    /\ Edit
    /\ row \in schoolCodes
    /\ schoolCodes' = schoolCodes \ {row}
    /\ UNCHANGED <<orgs, nextOrg, links, upload, results, history, crashes>>

(* createInstitution(organization): no provider is linked.                  *)
CreateByHand(codes) ==
    /\ Edit
    /\ nextOrg <= MaxOrg /\ OneCodePerType(codes)
    /\ \A c \in codes : CodeFree(c)
    /\ orgs' = orgs \union {nextOrg}
    /\ nextOrg' = nextOrg + 1
    /\ schoolCodes' = schoolCodes \union (codes \X {nextOrg})
    /\ UNCHANGED <<links, upload, results, history, crashes>>

LinkByHand(i, p) ==
    /\ Edit
    /\ {i, p} \subseteq orgs
    /\ links' = links \union {<<i, p>>}
    /\ UNCHANGED <<orgs, nextOrg, schoolCodes, upload, results, history, crashes>>

(* updateServiceProvidersForInstitution overwrites the whole set, from a    *)
(* page that may be old: the merge inserts providers that were deleted      *)
(* since as new organizations.                                              *)
SetProviders(i, providers) ==
    LET gone == providers \ orgs
        new == nextOrg..(nextOrg + Cardinality(gone) - 1)
        set == {i} \X ((providers \ gone) \union new)
    IN  /\ Edit
        /\ i \in orgs /\ nextOrg + Cardinality(gone) <= MaxOrg + 1
        /\ orgs' = orgs \union new
        /\ nextOrg' = nextOrg + Cardinality(gone)
        /\ links' = {l \in links : l[1] # i} \union set
        /\ dropped' = dropped \union {l \in links : l[1] = i /\ l \notin set}
        /\ UNCHANGED <<schoolCodes, upload, results, deleted, crashes>>

(* delete: the links and codes go with the organization, and the foreign    *)
(* keys refuse it while uploads or results refer to it.                     *)
DeleteOrganization(o) ==
    LET gone == {l \in links : o \in {l[1], l[2]}} IN
    /\ Edit
    /\ o \in orgs /\ ~Referenced(o)
    /\ orgs' = orgs \ {o}
    /\ schoolCodes' = {row \in schoolCodes : row[2] # o}
    /\ links' = links \ gone
    /\ deleted' = deleted \union {o}
    /\ dropped' = dropped \union gone
    /\ UNCHANGED <<nextOrg, upload, results, crashes>>

-----------------------------------------------------------------------------
(* A restart that runs the unfinished uploads from the start.               *)
StartOver ==
    /\ crashes < MaxCrashes
    /\ crashes' = crashes + 1
    /\ upload' = [u \in Upload |->
          IF upload[u].pc \in Active
          THEN [NoUpload EXCEPT !.pc = "reading", !.file = upload[u].file,
                    !.organization = upload[u].organization,
                    !.provider = upload[u].provider]
          ELSE upload[u]]
    /\ results' = [u \in Upload |->
          IF upload[u].pc \in Active THEN << >> ELSE results[u]]
    /\ UNCHANGED <<tables, history, edits>>

(* The server ends: the threads of uploads are not started again.           *)
Crash ==
    /\ crashes < MaxCrashes
    /\ crashes' = crashes + 1
    /\ upload' = [u \in Upload |->
          IF upload[u].pc \in Active
          THEN [upload[u] EXCEPT !.pc = "crashed", !.found = {}, !.result = NoResult]
          ELSE upload[u]]
    /\ UNCHANGED <<tables, results, history, edits>>

UploadStep(u) ==
    \/ BadHeader(u) \/ RejectLine(u) \/ Search(u)
    \/ LinkFound(u) \/ CreateInstitution(u) \/ CreateFails(u)
    \/ CreateRefused(u) \/ Ambiguous(u) \/ StoreResult(u)
    \/ Raise(u) \/ Abort(u) \/ ResultLost(u) \/ EndOfFile(u) \/ End(u)

Administer ==
    \/ \E c \in Code, o \in OrgId : AddCode(c, o)
    \/ \E row \in schoolCodes : RemoveCode(row)
    \/ \E codes \in SUBSET Code : CreateByHand(codes)
    \/ \E i, p \in OrgId : LinkByHand(i, p)
    \/ \E i \in OrgId, providers \in SUBSET Provider : SetProviders(i, providers)
    \/ \E o \in OrgId : DeleteOrganization(o)

Next ==
    \/ \E u \in Upload : \E o, p \in OrgId, file \in Files : Submit(u, o, p, file)
    \/ \E u \in Upload : UploadStep(u)
    \/ Administer \/ Crash

Spec == Init /\ [][Next]_vars

-----------------------------------------------------------------------------
(* Safety *)

(* Two uploads that look a code up at once, find nobody and both create an  *)
(* institution for it, never both succeed: a code has one institution, and  *)
(* an institution has one code of a type.                                   *)
CodesAreUnique ==
    \A r, q \in schoolCodes :
        r # q => /\ r[1] # q[1]
                 /\ r[2] = q[2] => TypeOf[r[1]] # TypeOf[q[1]]

(* A line that is reported as a success is of an institution that the       *)
(* provider serves, until an administrator takes the link away.             *)
SuccessMeansServed ==
    \A u \in Upload : \A k \in DOMAIN results[u] :
        results[u][k].outcome = "SUCCESS" =>
            <<results[u][k].institution, upload[u].provider>> \in links \union dropped

(* A creation that is reported as failed leaves no institution behind.      *)
ErrorLeavesNothing ==
    \A u \in Upload : \A k \in DOMAIN results[u] :
        results[u][k].outcome = "ERROR" => results[u][k].institution \notin orgs

(* An upload reports its lines in order, each of them once; if it has ended *)
(* and has not reported all of them, its last result is the error that      *)
(* ended it, at its line.                                                   *)
IsAbort(u, result) ==
    /\ result.outcome = "ERROR" /\ result.institution = 0
    /\ result.line \in {0, upload[u].line}
LinesAreAnswered ==
    \A u \in Upload :
        LET reported == Len(results[u]) IN
        /\ \A k \in 1..reported :
               results[u][k].line = k \/ results[u] = <<NoResult>>
        /\ upload[u].pc = "ended" /\ reported # 0 =>
               \/ reported = Len(upload[u].file)
               \/ IsAbort(u, results[u][reported])

(* No row refers to an organization that does not exist, although deletes   *)
(* run between any two steps of an upload.                                  *)
ReferencesExist ==
    /\ \A row \in schoolCodes : row[2] \in orgs
    /\ \A link \in links : {link[1], link[2]} \subseteq orgs
    /\ \A u \in Upload :
          /\ upload[u].pc # "idle" => upload[u].organization \in orgs
          /\ results[u] # << >> => upload[u].provider \in orgs

-----------------------------------------------------------------------------
(* The inductive invariant *)

(* What a result, stored or about to be stored, says is so and stays so.    *)
Truthful(u, result) ==
    /\ result.institution < nextOrg
    /\ result.outcome = "SUCCESS" =>
          <<result.institution, upload[u].provider>> \in links \union dropped
    /\ result.outcome = "ERROR" => result.institution \notin orgs

(* Every identity value of the table was given out before.                  *)
IdsAreUsed == orgs \subseteq 1..(nextOrg - 1)

PendingIsTruthful ==
    \A u \in Upload : upload[u].pc = "report" => Truthful(u, upload[u].result)

ResultsAreTruthful ==
    \A u \in Upload : \A k \in DOMAIN results[u] : Truthful(u, results[u][k])

(* An upload that has not been submitted has no results.                    *)
IdleHasNoResults == \A u \in Upload : upload[u].pc = "idle" => results[u] = << >>

(* A line whose codes were looked up is a line of the file, with good codes.*)
FoundIsGood ==
    \A u \in Upload : upload[u].pc = "found" =>
        upload[u].line \in 1..Len(upload[u].file) /\ BadCode \notin CurrentLine(u)

(* The invariant that the proofs rest on: the tables are consistent, and    *)
(* whatever an upload reports, or will report next, is true.                *)
UploadInv ==
    /\ TypeOK /\ IdsAreUsed /\ CodesAreUnique /\ ReferencesExist
    /\ PendingIsTruthful /\ ResultsAreTruthful /\ IdleHasNoResults /\ FoundIsGood

(* The lines of the file that were read before this one have their results. *)
InOrder(u) == \A k \in DOMAIN results[u] : results[u][k].line = k
UpToDate(u) ==
    /\ InOrder(u)
    /\ Len(results[u]) = upload[u].line - 1
    /\ upload[u].line <= Len(upload[u].file) + 1

(* What LinesAreAnswered says of an end, from the step that leads to it.    *)
Concluded(u) ==
    LET reported == Len(results[u]) IN
    \/ reported \in {0, Len(upload[u].file)}
    \/ IsAbort(u, results[u][reported])

LinesOf(u) ==
    /\ InOrder(u) \/ results[u] = <<NoResult>>
    /\ upload[u].pc \in {"idle", "reading", "found", "report", "aborting"} => UpToDate(u)
    /\ upload[u].pc = "report" =>
          /\ upload[u].result.line = upload[u].line
          /\ upload[u].line <= Len(upload[u].file)
    /\ upload[u].pc \in {"ending", "ended"} => Concluded(u)

(* The invariant that LinesAreAnswered rests on.                            *)
LinesInv == \A u \in Upload : LinesOf(u)

-----------------------------------------------------------------------------
(* What the documentation says and the code does not do                     *)

(* The changelog says of institution_id of a result: "Foreign key to the    *)
(* organization table referenced the institution."                          *)
ResultsNameInstitutions ==
    \A u \in Upload : \A k \in DOMAIN results[u] :
        results[u][k].institution \in orgs \union deleted \union {0}

(* InstitutionResource says of an upload: "If the institution already       *)
(* exists in the system, the service provider is granted permissions to     *)
(* handle endpoints for the institution."                                   *)
ExistingIsGranted ==
    \A u \in Upload : \A k \in DOMAIN results[u] : \A i \in orgs :
        /\ results[u][k].outcome = "ERROR" /\ results[u][k].institution # 0
        /\ Owners(upload[u].file[results[u][k].line]) = {i}
        => <<i, upload[u].provider>> \in links

-----------------------------------------------------------------------------
(* Liveness.  The thread of an upload goes on as long as the server runs.   *)

FairSpec == Spec /\ \A u \in Upload : WF_vars(UploadStep(u))

(* Every upload that was submitted gets its end time, whatever its file     *)
(* says and whoever deletes what it uses, unless the server crashes.        *)
UploadsEnd ==
    \A u \in Upload :
        (upload[u].pc \in Active) ~> (upload[u].pc \in {"ended", "crashed"})

=============================================================================
