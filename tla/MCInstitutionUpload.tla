------------------------ MODULE MCInstitutionUpload ------------------------
(* Small instances of InstitutionUpload for TLC.                            *)
EXTENDS InstitutionUploadProgress, TLC

Symmetry == Permutations(Upload)

CONSTANTS u1, u2, c1, c2, bad

Types == c1 :> "ATP" @@ c2 :> "FICE"

(* One line with two codes.                                                 *)
ShortFiles == {<<{c1, c2}>>}

(* Two lines each: a malformed line, and lines that meet the codes of the   *)
(* line before or of two institutions.                                      *)
LongFiles == {<<{bad}, {c1}>>, <<{c1}, {c1, c2}>>, <<{c2}, {}>>}
=============================================================================
