------------------------- MODULE MCOrganizationAccess -------------------------
(* Small instances of OrganizationAccess for TLC.                           *)
EXTENDS OrganizationAccess, TLC

CONSTANTS admin, member, c1, c2, c3, c4, g1, g2

Symmetry == Permutations(Call) \union Permutations(Grant)

(* What a run lets the pages do.                                            *)
Approving == {"registration", "enabled", "signing-certificate"}
WithoutSave == AllOperations \ {"save"}
=============================================================================
