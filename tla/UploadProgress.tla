--------------------------- MODULE UploadProgress ---------------------------
(***************************************************************************)
(* What the directory promises about the upload of a file, without its      *)
(* lines: results are only added, never after the end, and the end is for   *)
(* good.  A server that crashed leaves its uploads running.                 *)
(***************************************************************************)
EXTENDS Naturals

CONSTANT Upload

VARIABLES
    stored,    \* the number of results of an upload
    progress   \* "none", "running" or "ended"

progressVars == <<stored, progress>>

ProgressTypeOK ==
    /\ stored \in [Upload -> Nat]
    /\ progress \in [Upload -> {"none", "running", "ended"}]

ProgressInit ==
    /\ stored = [u \in Upload |-> 0]
    /\ progress = [u \in Upload |-> "none"]

(* associateInstitutions stores the upload before it is processed.          *)
Begin(u) ==
    /\ progress[u] = "none"
    /\ progress' = [progress EXCEPT ![u] = "running"]
    /\ UNCHANGED stored

(* As if the rest of the file were still processed after the end.           *)
AddResultLate(u) ==
    /\ progress[u] # "none"
    /\ stored' = [stored EXCEPT ![u] = @ + 1]
    /\ UNCHANGED progress

(* processCSVFile stores the result of a line.                              *)
AddResult(u) ==
    /\ progress[u] = "running"
    /\ stored' = [stored EXCEPT ![u] = @ + 1]
    /\ UNCHANGED progress

(* The finally block sets the end time.                                     *)
Finish(u) ==
    /\ progress[u] = "running"
    /\ progress' = [progress EXCEPT ![u] = "ended"]
    /\ UNCHANGED stored

ProgressNext == \E u \in Upload : Begin(u) \/ AddResult(u) \/ Finish(u)

ProgressSpec == ProgressInit /\ [][ProgressNext]_progressVars
=============================================================================
