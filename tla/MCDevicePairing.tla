-------------------------- MODULE MCDevicePairing --------------------------
(***************************************************************************)
(* Small instances of DevicePairing for TLC.                               *)
(***************************************************************************)
EXTENDS DevicePairing, TLC

CONSTANTS t1, t2, A, B, C, e1

\* Every entry is a sale of its own.
NoSubject == [e \in Entries |-> None]

\* Windows, pairings and sales are alike.
Alike == Permutations(Tabs) \cup Permutations(Scopes) \cup Permutations(Entries)
=============================================================================
