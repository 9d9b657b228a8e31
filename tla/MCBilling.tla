------------------------------ MODULE MCBilling ------------------------------
(* Instances of Billing for TLC. *)
EXTENDS Billing, TLC

\* Gestures are interchangeable.
Alike == Permutations(Gestures)
=============================================================================
