----------------------------- MODULE MCEnrollment -----------------------------
(* Instances of Enrollment for TLC. *)
EXTENDS Enrollment, TLC

\* Operations and requests are interchangeable.
Alike == Permutations(Ops) \cup Permutations(Calls)
=============================================================================
