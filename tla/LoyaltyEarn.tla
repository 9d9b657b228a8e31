----------------------------- MODULE LoyaltyEarn -----------------------------
(***************************************************************************)
(* The loyalty outbox carried by an order                                  *)
(* (loyalty-order-earn.processor.ts) and the ledger it credits             *)
(* (loyalty-member.service.ts, earn), beside the life of that order.       *)
(*                                                                         *)
(* Each worker is the drain of one server.  A worker takes a lease on the  *)
(* order in MongoDB, credits the ledger in a PostgreSQL transaction, then  *)
(* marks the order if it still holds the lease.  It may stop between any   *)
(* two of these, and its lease may run out while it works.  Meanwhile the  *)
(* restaurant may block the member's card, unblock it or anonymise it.     *)
(***************************************************************************)
EXTENDS OrderLifecycle

CONSTANTS Workers,
          Leases     \* ends of leases, told apart: at least one per worker

ASSUME LoyaltyAssumption == None \notin Leases

VARIABLES earn,      \* loyaltyEarnState and loyaltyEarnLeaseUntil on the order
          worker,    \* each drain: where it stands, its lease, the total it claimed
          ledger,    \* the earn operation in PostgreSQL: credits, and the amount
          card       \* the member's card

earnVars == <<earn, worker, ledger, card>>
loyaltyVars == <<orderVars, earnVars>>

NotWorking == [pc |-> "idle", lease |-> None, total |-> 0]

\* The order carries a member: its earn is born pending with it.  The card is
\* active; barred, which is blocked or not handed over yet; or unknown: there is
\* none, or the intent cannot be read.
LoyaltyInit ==
    /\ OrderInit
    /\ earn = [state |-> "pending", lease |-> None]
    /\ worker = [w \in Workers |-> NotWorking]
    /\ ledger = [credits |-> 0, total |-> 0]
    /\ card \in {"active", "barred", "unknown"}

-----------------------------------------------------------------------------
(* The drain.                                                              *)

\* Mutation: the lease stays on an order that is given back.
ReleasedKept(s) == [earn EXCEPT !.state = s]

\* Every write that ends a lease clears it.
Released(s) == [state |-> s, lease |-> None]

\* Mutation: a lease never runs out.
ExpiredNever == FALSE

\* A lease may have run out at any time: its holder may be slow.
Expired == earn.state = "processing"

\* recoverExpiredLeases.
Recover(w) ==
    /\ worker[w].pc = "idle" /\ Expired
    /\ earn' = Released("pending")
    /\ UNCHANGED <<orderVars, worker, ledger, card>>

\* cancelIneligibleSales.  No code writes "refunded".
CancelIneligible(w) ==
    /\ worker[w].pc = "idle"
    /\ earn.state = "pending" /\ order.status = "cancelled"
    /\ earn' = Released("cancelled")
    /\ UNCHANGED <<orderVars, worker, ledger, card>>

\* The filter of claimNext, its delay left out.
Due == earn.state = "pending" /\ order.status = "delivered" /\ order.pay = "paid"

\* claimNext: a lease ends later than every lease still held.
Claim(w) ==
    /\ worker[w].pc = "idle" /\ Due
    /\ \E l \in Leases :
         /\ \A v \in Workers : worker[v].lease # l
         /\ earn' = [state |-> "processing", lease |-> l]
         /\ worker' = [worker EXCEPT ![w] =
                          [pc |-> "claimed", lease |-> l, total |-> order.total]]
    /\ UNCHANGED <<orderVars, ledger, card>>

-----------------------------------------------------------------------------
(* The ledger, one transaction at a time.                                  *)

Answers(w, pc) == worker' = [worker EXCEPT ![w].pc = pc]

\* Mutation: the key of the operation is not looked up.
RecordedNever == FALSE

\* claimOperation: the operation has been recorded by an earlier transaction.
Recorded == ledger.credits > 0

\* confirmedPurchaseCents: the order is read again inside the transaction.
Confirmed(w) ==
    order.status = "delivered" /\ order.pay = "paid" /\ order.total = worker[w].total

\* A first operation credits an active card; the answer may be lost after the
\* commit.
Credit(w) ==
    /\ worker[w].pc = "claimed" /\ ~Recorded /\ Confirmed(w) /\ card = "active"
    /\ ledger' = [credits |-> ledger.credits + 1, total |-> worker[w].total]
    /\ Answers(w, "credited") \/ Answers(w, "retry")
    /\ UNCHANGED <<orderVars, earn, card>>

\* A replayed operation answers as the first did, if it is the same purchase;
\* otherwise it is a conflict, without a code that would make it final.
Replay(w) ==
    /\ worker[w].pc = "claimed" /\ Recorded
    /\ Answers(w, IF ledger.total = worker[w].total THEN "credited" ELSE "retry")
    /\ UNCHANGED <<orderVars, earn, ledger, card>>

\* permanentFailure: the purchase is not confirmed, or the card is unknown.
Refuse(w) ==
    /\ worker[w].pc = "claimed" /\ ~Recorded
    /\ ~Confirmed(w) \/ card = "unknown"
    /\ Answers(w, "refused")
    /\ UNCHANGED <<orderVars, earn, ledger, card>>

\* assertActiveMember: a conflict without a code that would make it final.  The
\* sale is tried again, for as long as the card stays so.
TurnAway(w) ==
    /\ worker[w].pc = "claimed" /\ ~Recorded /\ Confirmed(w)
    /\ card \in {"barred", "anonymized"}
    /\ Answers(w, "retry")
    /\ UNCHANGED <<orderVars, earn, ledger, card>>

\* PostgreSQL or MongoDB is down, or there is no programme: try again later.
Unavailable(w) ==
    /\ worker[w].pc = "claimed"
    /\ Answers(w, "retry")
    /\ UNCHANGED <<orderVars, earn, ledger, card>>

-----------------------------------------------------------------------------
(* Back in MongoDB.                                                        *)

\* Mutation: whoever has worked marks the order.
HoldsAnyway(w) == TRUE

\* The filter of every mark: still processing, under this worker's lease.
Holds(w) == earn.state = "processing" /\ earn.lease = worker[w].lease

\* Mutation: what could not be confirmed is taken for done.
OutcomeOptimist(w) == IF worker[w].pc = "refused" THEN "failed" ELSE "completed"

Outcome(w) ==
    CASE worker[w].pc = "credited" -> "completed"
      [] worker[w].pc = "refused" -> "failed"
      [] worker[w].pc = "retry" -> "pending"

Mark(w) ==
    /\ worker[w].pc \in {"credited", "refused", "retry"}
    /\ earn' = IF Holds(w) THEN Released(Outcome(w)) ELSE earn
    /\ worker' = [worker EXCEPT ![w] = NotWorking]
    /\ UNCHANGED <<orderVars, ledger, card>>

\* The server stops.
WorkerStops(w) ==
    /\ worker[w].pc # "idle"
    /\ worker' = [worker EXCEPT ![w] = NotWorking]
    /\ UNCHANGED <<orderVars, earn, ledger, card>>

Drain(w) ==
    \/ Recover(w) \/ CancelIneligible(w) \/ Claim(w)
    \/ Credit(w) \/ Replay(w) \/ Refuse(w) \/ TurnAway(w) \/ Unavailable(w)
    \/ Mark(w) \/ WorkerStops(w)

-----------------------------------------------------------------------------
(* The card (changeLifecycle, and the end of an enrolment).                *)

CardBecomes(c) == card' = c /\ UNCHANGED <<orderVars, earn, worker, ledger>>

Bar == card = "active" /\ CardBecomes("barred")

Admit == card = "barred" /\ CardBecomes("active")

Anonymize == card \in {"active", "barred"} /\ CardBecomes("anonymized")

LoyaltyNext ==
    \/ OrderNext /\ UNCHANGED earnVars
    \/ \E w \in Workers : Drain(w)
    \/ Bar \/ Admit \/ Anonymize

LoyaltySpec == LoyaltyInit /\ [][LoyaltyNext]_loyaltyVars

\* Every server drains every five seconds (setInterval): a lease that has run
\* out is recovered and a due order claimed, and a call that was made ends.
\* Now and then the databases answer within the lease and there is an active
\* programme, and now and then the answer is marked within the lease.
FairLoyaltySpec ==
    /\ LoyaltySpec
    /\ \A w \in Workers :
         /\ WF_loyaltyVars(Recover(w)) /\ WF_loyaltyVars(CancelIneligible(w))
         /\ SF_loyaltyVars(Claim(w))
         /\ WF_loyaltyVars(Credit(w) \/ Replay(w) \/ Refuse(w) \/ TurnAway(w)
                            \/ Unavailable(w))
         /\ WF_loyaltyVars(Mark(w))
         /\ SF_loyaltyVars(Holds(w) /\ (Credit(w) \/ Replay(w) \/ Refuse(w)))
         /\ SF_loyaltyVars(Mark(w) /\ Holds(w) /\ Outcome(w) # "pending")

-----------------------------------------------------------------------------
(* Properties.                                                             *)

EarnStates == {"pending", "processing", "completed", "failed", "cancelled"}

\* Types: the outbox, the workers and the ledger.
LoyaltyTypeOK ==
    /\ OrderTypeOK
    /\ earn \in [state : EarnStates, lease : Leases \cup {None}]
    /\ (earn.state = "processing") <=> (earn.lease # None)
    /\ worker \in [Workers -> [pc : {"idle", "claimed", "credited", "refused", "retry"},
                               lease : Leases \cup {None}, total : 0..Subtotal]]
    /\ ledger \in [credits : Nat, total : 0..Subtotal]
    /\ card \in {"active", "barred", "anonymized", "unknown"}

\* A sale is credited once, however many workers hold it, stop, or lose the
\* answer of the ledger (the processor's header, "sans jamais recréditer").
CreditedOnce == ledger.credits <= 1

\* What was credited is what the order cost, now and for ever: it was handed
\* over, paid, and nobody changes its amount afterwards.
CreditMatchesSale ==
    ledger.credits > 0 =>
        order.status = "delivered" /\ order.pay = "paid" /\ order.total = ledger.total

\* The ledger has one credit for the sale at most, of its amount.
LedgerIsRight == LoyaltyTypeOK /\ CreditedOnce /\ CreditMatchesSale

\* The till is told "completed" only of a sale the ledger has credited, and
\* "cancelled" only of one it never will (loyaltyEarnStatusByClientId).
StateIsTrue ==
    /\ earn.state = "completed" => ledger.credits > 0
    /\ earn.state = "cancelled" => ledger.credits = 0

\* The outcome of a sale is decided once: a late worker does not reopen it.
DecidedForGood ==
    [][earn.state \in {"completed", "failed", "cancelled"} =>
         earn'.state = earn.state]_loyaltyVars

\* The member's card is not barred for ever, nor anonymised.
CardServes == <>[](card \notin {"barred", "anonymized"})

\* A sale handed over and paid is credited or refused in the end, through
\* crashes, lost answers and leases that run out, if the card serves in the end:
\* for a card that does not, the drain tries again for ever (assertActiveMember
\* throws what permanentFailure does not take for final).
EventuallyDecided ==
    CardServes =>
      (order.status = "delivered" /\ order.pay = "paid")
          ~> earn.state \in {"completed", "failed"}
=============================================================================
