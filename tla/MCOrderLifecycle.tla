-------------------------- MODULE MCOrderLifecycle --------------------------
(* Instances of OrderLifecycle for TLC. *)
EXTENDS OrderLifecycle, TLC

\* Handlers are interchangeable, and so are intents.
Alike == Permutations(Requests) \cup Permutations(Intents)
=============================================================================
