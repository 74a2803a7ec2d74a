---------------------- MODULE InstitutionUploadProgress ----------------------
(* InstitutionUpload implements UploadProgress.                             *)
EXTENDS InstitutionUpload

storedBar == [u \in Upload |-> Len(results[u])]

progressBar == [u \in Upload |->
    CASE upload[u].pc = "idle" -> "none"
      [] upload[u].pc = "ended" -> "ended"
      [] upload[u].pc \notin {"idle", "ended"} -> "running"]

P == INSTANCE UploadProgress WITH stored <- storedBar, progress <- progressBar

(* Every behaviour of the uploads, with administrators, failures and        *)
(* crashes, is one of UploadProgress: what the pages rely on.               *)
UploadsProgress == P!ProgressSpec
=============================================================================
