---------------------------- MODULE MCLoyaltyEarn ----------------------------
(* Instances of LoyaltyEarn for TLC. *)
EXTENDS LoyaltyEarn, TLC

\* Handlers, workers and leases are interchangeable.
Alike == Permutations(Requests) \cup Permutations(Workers) \cup Permutations(Leases)
=============================================================================
