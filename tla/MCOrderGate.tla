----------------------------- MODULE MCOrderGate -----------------------------
(* Instances of OrderGate for TLC. *)
EXTENDS OrderGate, TLC

\* Requests are interchangeable, so are client ids and spellings.
Alike == Permutations(Requests) \cup Permutations(Clients) \cup Permutations(Spellings)
=============================================================================
