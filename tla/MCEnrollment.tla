---------------------------- MODULE MCEnrollment ----------------------------
(* Instances of Enrollment for TLC: requests are interchangeable.           *)
EXTENDS Enrollment, TLC

CONSTANTS q1, q2, q3, admins

RequestSymmetry == Permutations(Requests)
=============================================================================
