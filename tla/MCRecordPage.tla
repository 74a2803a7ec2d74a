----------------------------- MODULE MCRecordPage -----------------------------
(* Small instances of RecordPage for TLC.                                   *)
EXTENDS RecordPage, TLC

CONSTANTS p1, p2, a, b, q1, q2, q3, q4

Symmetry == Permutations(Page) \union Permutations(Request)
=============================================================================
