------------------------------ MODULE MCTokens ------------------------------
(* Instances of Tokens for TLC: requests and token ids are interchangeable. *)
EXTENDS Tokens, TLC

CONSTANTS t1, t2, a1, a2, r1, r2, r3

UpToTwo == {0, 1, 2, None}
ExpireAtOnce == {0, None}
RequestSymmetry == Permutations(Requests)
=============================================================================
