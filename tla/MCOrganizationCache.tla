------------------------- MODULE MCOrganizationCache -------------------------
(* Small instances of OrganizationCache for TLC.                            *)
EXTENDS OrganizationCache, TLC

CONSTANTS local, other, t1, t2

Symmetry == Permutations(Thread)
=============================================================================
