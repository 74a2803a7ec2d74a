----------------------------- MODULE MCUploadPage -----------------------------
(* Small instances of UploadPage for TLC.                                   *)
EXTENDS UploadPage, TLC

CONSTANTS u1, u2, q1, q2, q3

Symmetry == Permutations(Upload) \union Permutations(Query)
=============================================================================
