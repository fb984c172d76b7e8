----------------------------- MODULE MCTenants -----------------------------
(* Instances of Tenants for TLC.                                            *)
EXTENDS Tenants, TLC

CONSTANTS o1, a1, a2, a3, s1, s2, s3, d1, p1, r1, r2, r3

Symmetry == Permutations(Requests) \cup Permutations(Apps)
=============================================================================
