----------------------------- MODULE SaleOutbox -----------------------------
(***************************************************************************)
(* What the offline queue promises, without windows, locks, snapshots or   *)
(* passes: an accepted mutation reaches the server in the order of its     *)
(* subject, leaves the queue on a verdict only, and a refusal stays until  *)
(* the manager acknowledges it.  SyncQueue implements this module.         *)
(***************************************************************************)
CONSTANTS
    Entries,     \* mutations
    None,
    Subject,     \* the subject of each mutation, None when it has none
    Protected    \* nothing may be discarded

VARIABLES queued, rejected, applied, refused, accepted, before, acked, dropped

outbox == <<queued, rejected, applied, refused, accepted, before, acked, dropped>>

Init ==
    /\ queued = {} /\ rejected = {} /\ applied = {} /\ refused = {}
    /\ accepted = {} /\ acked = {} /\ dropped = {}
    /\ before = [e \in Entries |-> {}]

Accept(e) ==
    /\ e \notin accepted
    /\ queued' = queued \cup {e}
    /\ accepted' = accepted \cup {e}
    /\ before' = [before EXCEPT ![e] = accepted]
    /\ UNCHANGED <<rejected, applied, refused, acked, dropped>>

\* The server has ruled on what was accepted earlier for the same subject.
InTurn(e) ==
    /\ e \in accepted
    /\ \A d \in before[e] :
         Subject[d] # None /\ Subject[d] = Subject[e]
             => d \in applied \cup refused \cup dropped

Apply(e) ==
    /\ InTurn(e)
    /\ applied' = applied \cup {e}
    /\ UNCHANGED <<queued, rejected, refused, accepted, before, acked, dropped>>

Refuse(e) ==
    /\ InTurn(e) /\ e \notin applied
    /\ refused' = refused \cup {e}
    /\ UNCHANGED <<queued, rejected, applied, accepted, before, acked, dropped>>

\* Queued mutations leave: the applied ones for good, the refused ones to the
\* journal of refusals.
Settle(done, kept) ==
    /\ done \subseteq queued \cap applied
    /\ kept \subseteq queued \cap refused
    /\ queued' = queued \ (done \cup kept)
    /\ rejected' = rejected \cup kept
    /\ UNCHANGED <<applied, refused, accepted, before, acked, dropped>>

Acknowledge(seen) ==
    /\ seen \subseteq rejected
    /\ rejected' = rejected \ seen
    /\ acked' = acked \cup seen
    /\ UNCHANGED <<queued, applied, refused, accepted, before, dropped>>

Discard ==
    /\ ~Protected
    /\ dropped' = dropped \cup queued \cup rejected
    /\ queued' = {} /\ rejected' = {}
    /\ UNCHANGED <<applied, refused, accepted, before, acked>>

Next ==
    \/ \E e \in Entries : Accept(e) \/ Apply(e) \/ Refuse(e)
    \/ \E done \in SUBSET queued, kept \in SUBSET queued : Settle(done, kept)
    \/ \E seen \in SUBSET rejected : Acknowledge(seen)
    \/ Discard

Spec == Init /\ [][Next]_outbox
=============================================================================
