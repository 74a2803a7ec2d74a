-------------------------- MODULE MCServiceProviders --------------------------
(* Small instances of ServiceProviders for TLC.                             *)
EXTENDS ServiceProviders, TLC

CONSTANTS p1, p2, x1, x2, q1, q2, q3

Symmetry == Permutations(Page) \union Permutations(Provider) \union Permutations(Request)
=============================================================================
