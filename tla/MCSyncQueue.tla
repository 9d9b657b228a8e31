---------------------------- MODULE MCSyncQueue ----------------------------
(***************************************************************************)
(* Small instances of SyncQueue for TLC.                                   *)
(***************************************************************************)
EXTENDS SyncQueue, TLC

CONSTANTS A, B, t1, t2, e1, e2, order1

\* Two entries of one sale: its creation, then its change of status.
OneSale == [e \in Entries |-> order1]

\* Windows are alike, and so are the entries when they share their subject.
Alike == Permutations({t1, t2}) \cup Permutations({e1, e2})

\* ... and the pairings.
AllAlike == Alike \cup Permutations({A, B})
=============================================================================
