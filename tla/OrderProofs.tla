---------------------------- MODULE OrderProofs -----------------------------
(***************************************************************************)
(* Proofs about OrderLifecycle, for any number of handlers and intents,    *)
(* then about LoyaltyEarn above it, for any number of workers and leases.  *)
(*                                                                         *)
(* A handler decides on what it has read, and its save goes through later. *)
(* The invariant says why it is still right then: as long as the version   *)
(* has not moved, the status is the one that was read, and a payment read  *)
(* as pending is the only thing that can have changed.                     *)
(***************************************************************************)
EXTENDS LoyaltyEarn, TLAPS

\* What a handler has read is still true of an order whose version has not moved.
SnapHolds(r) ==
    /\ req[r].snap.version <= order.version
    /\ req[r].snap.version = order.version =>
         /\ req[r].snap.status = order.status
         /\ req[r].snap.pay = "pending" \/ order.pay = "paid"

\* What a handler is about to save was legal on what it had read.
Legal(r) ==
    CASE req[r].kind = "status" ->
           /\ req[r].to # req[r].snap.status
           /\ req[r].to # "cancelled"
           /\ Rank[req[r].to] >= Rank[req[r].snap.status]
           /\ req[r].snap.status \notin Terminal
      [] req[r].kind = "cancel" -> req[r].snap.status # "delivered"
      [] req[r].kind = "discount" ->
           req[r].snap.status \notin Terminal /\ req[r].amount <= Subtotal
      [] req[r].kind = "intent" -> req[r].intent \in Intents
      [] OTHER -> FALSE

HandlerInv(r) ==
    /\ SnapHolds(r)
    /\ req[r].pc = "stripe" => req[r].kind = "intent"
    /\ req[r].pc = "save" => Legal(r)
    /\ req[r].pc = "audit" => r \in gestures

OrderIInv == OrderTypeOK /\ DeliveredIsPaid /\ \A r \in Requests : HandlerInv(r)

-----------------------------------------------------------------------------
(* The ranks.                                                              *)

\* The ranks of two statuses are equal only if the statuses are.
LEMMA RankIsStrict ==
    ASSUME NEW s \in Status, NEW t \in Status, s # t, Rank[t] >= Rank[s]
    PROVE  Rank[t] > Rank[s]
BY DEF Status, Rank

-----------------------------------------------------------------------------
(* Replacing one handler's record.                                         *)

\* The types and the invariant of the handlers survive a step of one of them
\* that leaves the order alone.
LEMMA OneHandler ==
    ASSUME OrderIInv, NEW r \in Requests, NEW h \in ReqType,
           req' = [req EXCEPT ![r] = h], order' = order, gestures' = gestures,
           HandlerInv(r)'
    PROVE  /\ req' \in [Requests -> ReqType]
           /\ \A q \in Requests : HandlerInv(q)'
           /\ DeliveredIsPaid'
BY DEF OrderIInv, OrderTypeOK, HandlerInv, SnapHolds, Legal, DeliveredIsPaid

\* A handler that ends has nothing more to prove.
LEMMA EndsWell ==
    ASSUME OrderIInv, NEW r \in Requests, NEW pc \in {"done", "stopped"},
           Moves(r, pc), order' = order, gestures' = gestures
    PROVE  /\ req' \in [Requests -> ReqType]
           /\ \A q \in Requests : HandlerInv(q)'
           /\ DeliveredIsPaid'
<1> DEFINE h == [req[r] EXCEPT !.pc = pc]
<1>1. h \in ReqType
  BY DEF OrderIInv, OrderTypeOK, ReqType
<1>2. req' = [req EXCEPT ![r] = h]
  BY DEF Moves
<1>3. HandlerInv(r)'
  BY <1>2 DEF OrderIInv, OrderTypeOK, ReqType, HandlerInv, SnapHolds
<1> QED
  BY <1>1, <1>2, <1>3, OneHandler

-----------------------------------------------------------------------------
(* Init.                                                                   *)

LEMMA OrderInitInv == OrderInit => OrderIInv
<1> SUFFICES ASSUME OrderInit PROVE OrderIInv
  OBVIOUS
<1>1. PICK p \in {"pending", "paid"}, d \in {a \in Amounts : a <= Subtotal} \cup {0} :
         order = [status |-> "new", pay |-> p, method |-> "counter",
                  total |-> Subtotal - d, intent |-> None, version |-> 0]
  BY DEF OrderInit
<1>2. Subtotal - d \in 0..Subtotal
  BY OrderAssumption
<1>3. order \in OrderType
  BY <1>1, <1>2 DEF OrderType, Status
<1>4. \A r \in Requests :
         req[r] = [pc |-> "idle", kind |-> "none", snap |-> order,
                   to |-> "new", amount |-> 0, intent |-> None]
  BY DEF OrderInit
<1>5. req \in [Requests -> ReqType]
  BY <1>3 DEF OrderInit, ReqType, Status
<1>6. OrderTypeOK
  BY <1>3, <1>5 DEF OrderInit, OrderTypeOK
<1>7. DeliveredIsPaid
  BY <1>1 DEF DeliveredIsPaid
<1>8. order.version \in Nat /\ order.pay \in {"pending", "paid"}
  BY <1>3 DEF OrderType
<1>9. ASSUME NEW r \in Requests PROVE HandlerInv(r)
  <2>1. req[r].snap = order /\ req[r].pc = "idle"
    BY <1>4
  <2> QED
    BY <1>8, <2>1 DEF HandlerInv, SnapHolds
<1> QED
  BY <1>6, <1>7, <1>9 DEF OrderIInv

-----------------------------------------------------------------------------
(* The handlers that read.                                                 *)

\* Reading the order establishes what the handler will rely on.
LEMMA ReadsWell ==
    ASSUME OrderIInv, NEW r \in Requests,
           NEW k \in {"status", "cancel", "discount", "intent"},
           NEW pc \in {"stripe", "save", "done"}, NEW s \in Status, NEW a \in Nat,
           Reads(r, k, pc, s, a), UNCHANGED <<order, stripeVars, traceVars>>,
           pc = "stripe" => k = "intent",
           pc = "save" => k # "intent",
           pc = "save" /\ k = "status" =>
               /\ s # order.status /\ s # "cancelled"
               /\ Rank[s] >= Rank[order.status] /\ order.status \notin Terminal,
           pc = "save" /\ k = "cancel" => order.status # "delivered",
           pc = "save" /\ k = "discount" => order.status \notin Terminal /\ a <= Subtotal
    PROVE  OrderIInv'
<1> DEFINE h == [pc |-> pc, kind |-> k, snap |-> order, to |-> s, amount |-> a,
                 intent |-> None]
<1>1. h \in ReqType
  BY DEF OrderIInv, OrderTypeOK, ReqType
<1>2. req' = [req EXCEPT ![r] = h]
  BY DEF Reads
<1>3. req'[r] = h
  BY <1>2 DEF OrderIInv, OrderTypeOK
<1>4. SnapHolds(r)'
  BY <1>3 DEF OrderIInv, OrderTypeOK, OrderType, SnapHolds
<1>5. pc = "save" => Legal(r)'
  BY <1>3 DEF Legal
<1>6. HandlerInv(r)'
  BY <1>3, <1>4, <1>5 DEF HandlerInv
<1>7. /\ req' \in [Requests -> ReqType]
      /\ \A q \in Requests : HandlerInv(q)'
      /\ DeliveredIsPaid'
  <2> HIDE DEF h
  <2> QED
    BY <1>1, <1>2, <1>6, OneHandler DEF traceVars
<1> QED
  BY <1>7 DEF OrderIInv, OrderTypeOK, stripeVars, traceVars

LEMMA UpdateStatusInv ==
    ASSUME OrderIInv, NEW r \in Requests, UpdateStatus(r)
    PROVE  OrderIInv'
<1>1. PICK s \in Status \ {"cancelled"} :
         Reads(r, "status", IF Further(s) THEN "save" ELSE "done", s, 0)
  BY DEF UpdateStatus
<1> DEFINE pc == IF Further(s) THEN "save" ELSE "done"
<1>2. pc = "save" => /\ s # order.status /\ s # "cancelled"
                     /\ Rank[s] >= Rank[order.status] /\ order.status \notin Terminal
  BY DEF Further
<1>3. pc \in {"stripe", "save", "done"} /\ pc # "stripe"
  OBVIOUS
<1> HIDE DEF pc
<1> QED
  BY <1>1, <1>2, <1>3, ReadsWell DEF UpdateStatus, pc

LEMMA CancelInv ==
    ASSUME OrderIInv, NEW r \in Requests, Cancel(r)
    PROVE  OrderIInv'
<1> DEFINE pc == IF order.status = "delivered" THEN "done" ELSE "save"
<1>1. Reads(r, "cancel", pc, "cancelled", 0)
  BY DEF Cancel
<1>2. pc \in {"stripe", "save", "done"} /\ pc # "stripe"
      /\ (pc = "save" => order.status # "delivered")
  OBVIOUS
<1>3. "cancelled" \in Status /\ UNCHANGED <<order, stripeVars, traceVars>>
  BY DEF Cancel, Status
<1> HIDE DEF pc
<1> QED
  BY <1>1, <1>2, <1>3, ReadsWell

LEMMA DiscountInv ==
    ASSUME OrderIInv, NEW r \in Requests, Discount(r)
    PROVE  OrderIInv'
<1>1. PICK a \in Amounts :
         Reads(r, "discount", IF Grantable(a) THEN "save" ELSE "done", "new", a)
  BY DEF Discount
<1> DEFINE pc == IF Grantable(a) THEN "save" ELSE "done"
<1>2. Reads(r, "discount", pc, "new", a)
  BY <1>1
<1>3. pc \in {"stripe", "save", "done"} /\ pc # "stripe"
      /\ (pc = "save" => order.status \notin Terminal /\ a <= Subtotal)
  BY DEF Grantable
<1>4. a \in Nat /\ "new" \in Status /\ UNCHANGED <<order, stripeVars, traceVars>>
  BY OrderAssumption DEF Discount, Status
<1> HIDE DEF pc
<1> QED
  BY <1>2, <1>3, <1>4, ReadsWell

LEMMA AskIntentInv ==
    ASSUME OrderIInv, NEW r \in Requests, AskIntent(r)
    PROVE  OrderIInv'
<1> DEFINE pc == IF order.status = "cancelled" \/ order.pay = "paid"
                 THEN "done" ELSE "stripe"
<1>1. Reads(r, "intent", pc, "new", 0)
  BY DEF AskIntent
<1>2. pc \in {"stripe", "save", "done"} /\ pc # "save"
  OBVIOUS
<1>3. "new" \in Status /\ UNCHANGED <<order, stripeVars, traceVars>>
  BY DEF AskIntent, Status
<1> HIDE DEF pc
<1> QED
  BY <1>1, <1>2, <1>3, ReadsWell

-----------------------------------------------------------------------------
(* The handlers that wait for Stripe, the audit log, or stop.              *)

LEMMA ReuseIntentInv ==
    ASSUME OrderIInv, NEW r \in Requests, ReuseIntent(r)
    PROVE  OrderIInv'
<1>1. /\ req' \in [Requests -> ReqType]
      /\ \A q \in Requests : HandlerInv(q)'
      /\ DeliveredIsPaid'
  BY EndsWell DEF ReuseIntent, traceVars
<1>2. req[r].snap.intent \in Intents
  BY DEF ReuseIntent, OrderIInv, OrderTypeOK, ReqType, OrderType
<1> QED
  BY <1>1, <1>2 DEF ReuseIntent, OrderIInv, OrderTypeOK, traceVars

LEMMA FreshIntentInv ==
    ASSUME OrderIInv, NEW r \in Requests, FreshIntent(r)
    PROVE  OrderIInv'
<1>1. PICK i \in Intents :
        /\ stripe[i] = "none"
        /\ stripe' = [stripe EXCEPT ![i] = "open"]
        /\ req' = [req EXCEPT ![r].pc = "save", ![r].intent = i]
  BY DEF FreshIntent
<1> DEFINE h == [req[r] EXCEPT !.pc = "save", !.intent = i]
<1>2. h \in ReqType
  BY DEF OrderIInv, OrderTypeOK, ReqType
<1>3. req' = [req EXCEPT ![r] = h]
  BY <1>1
<1>4. /\ req'[r].pc = "save" /\ req'[r].intent = i
      /\ req'[r].kind = req[r].kind /\ req'[r].snap = req[r].snap
  BY <1>1 DEF OrderIInv, OrderTypeOK, ReqType
<1>5. req[r].kind = "intent" /\ SnapHolds(r)
  BY DEF FreshIntent, OrderIInv, HandlerInv
<1>6. Legal(r)' /\ SnapHolds(r)'
  BY <1>4, <1>5 DEF Legal, SnapHolds, FreshIntent
<1>7. HandlerInv(r)'
  BY <1>4, <1>6 DEF HandlerInv
<1>8. /\ req' \in [Requests -> ReqType]
      /\ \A q \in Requests : HandlerInv(q)'
      /\ DeliveredIsPaid'
  <2> HIDE DEF h
  <2> QED
    BY <1>2, <1>3, <1>7, OneHandler DEF FreshIntent, traceVars
<1>9. stripe' \in [Intents -> {"none", "open", "charged"}]
  BY <1>1 DEF OrderIInv, OrderTypeOK
<1> QED
  BY <1>8, <1>9 DEF FreshIntent, OrderIInv, OrderTypeOK, traceVars

LEMMA EndingsInv ==
    ASSUME OrderIInv, NEW r \in Requests,
           IntentUnavailable(r) \/ SaveConflicts(r) \/ Stop(r)
    PROVE  OrderIInv'
<1>1. PICK pc \in {"done", "stopped"} :
         Moves(r, pc) /\ UNCHANGED <<order, stripeVars, traceVars>>
  BY DEF IntentUnavailable, SaveConflicts, Stop
<1>2. /\ req' \in [Requests -> ReqType]
      /\ \A q \in Requests : HandlerInv(q)'
      /\ DeliveredIsPaid'
  BY <1>1, EndsWell DEF traceVars
<1> QED
  BY <1>1, <1>2 DEF OrderIInv, OrderTypeOK, stripeVars, traceVars

LEMMA AuditInv ==
    ASSUME OrderIInv, NEW r \in Requests, Audit(r)
    PROVE  OrderIInv'
<1>1. r \in gestures
  BY DEF Audit, OrderIInv, HandlerInv
<1> QED
  BY <1>1, EndsWell DEF Audit, OrderIInv, OrderTypeOK, stripeVars

-----------------------------------------------------------------------------
(* Saving.                                                                 *)

\* What a save that goes through may do to the order.
LEMMA SaveEffect ==
    ASSUME OrderIInv, NEW r \in Requests, Save(r)
    PROVE  /\ order' \in OrderType
           /\ order'.version = order.version + 1
           /\ order'.pay = "paid" \/ order'.pay = order.pay
           /\ order.status \in Terminal =>
                order'.status = order.status /\ order'.total = order.total
           /\ order'.status # order.status =>
                order'.status = "cancelled" \/ Rank[order'.status] > Rank[order.status]
           /\ DeliveredIsPaid'
<1>1. /\ order \in OrderType /\ req[r] \in ReqType
      /\ Legal(r) /\ order' = Written(r)
      /\ req[r].snap.status = order.status
      /\ req[r].snap.pay = "pending" \/ order.pay = "paid"
      /\ order.status = "delivered" => order.pay = "paid"
  BY DEF Save, Current, OrderIInv, OrderTypeOK, HandlerInv, SnapHolds, DeliveredIsPaid
<1> DEFINE v == order.version + 1
<1>v. v \in Nat /\ v = order.version + 1
  BY <1>1 DEF OrderType
<1>2. CASE req[r].kind = "status"
  <2> DEFINE settles == req[r].to = "delivered" /\ req[r].snap.pay = "pending"
             p == IF settles THEN "paid" ELSE order.pay
  <2>1. order' = [order EXCEPT !.version = v, !.status = req[r].to, !.pay = p]
    BY <1>1, <1>2 DEF Written, OrderType
  <2>2. /\ req[r].to # order.status /\ req[r].to \in Status /\ req[r].to # "cancelled"
        /\ Rank[req[r].to] >= Rank[order.status] /\ order.status \notin Terminal
    BY <1>1, <1>2 DEF Legal, ReqType
  <2>3. order.status \in Status /\ order.pay \in {"pending", "paid"}
    BY <1>1 DEF OrderType
  <2>4. Rank[req[r].to] > Rank[order.status]
    BY <2>2, <2>3, RankIsStrict
  <2>5. p \in {"pending", "paid"}
    BY <2>3
  <2>6. /\ order' \in OrderType /\ order'.version = v
        /\ order'.status = req[r].to /\ order'.pay = p
    <3> HIDE DEF p, v
    <3> QED
      BY <1>1, <1>v, <2>1, <2>2, <2>5 DEF OrderType
  <2>7. order'.pay = "paid" \/ order'.pay = order.pay
    BY <2>6
  <2>8. DeliveredIsPaid'
    BY <1>1, <2>3, <2>6 DEF DeliveredIsPaid
  <2> QED
    BY <1>v, <2>2, <2>4, <2>6, <2>7, <2>8
<1>3. CASE req[r].kind = "cancel"
  <2>1. order' = [order EXCEPT !.version = v, !.status = "cancelled"]
    BY <1>1, <1>3 DEF Written, OrderType
  <2>2. order.status # "delivered"
    BY <1>1, <1>3 DEF Legal
  <2>3. /\ order' \in OrderType /\ order'.version = v
        /\ order'.status = "cancelled"
        /\ order'.total = order.total /\ order'.pay = order.pay
    <3> HIDE DEF v
    <3> QED
      BY <1>1, <1>v, <2>1 DEF OrderType, Status
  <2> QED
    BY <1>v, <2>2, <2>3 DEF Terminal, DeliveredIsPaid
<1>4. CASE req[r].kind = "discount"
  <2> DEFINE t == Subtotal - req[r].amount
  <2>1. order' = [order EXCEPT !.version = v, !.total = t]
    BY <1>1, <1>4 DEF Written, OrderType
  <2>2. order.status \notin Terminal /\ req[r].amount <= Subtotal
    BY <1>1, <1>4 DEF Legal
  <2>3. t \in 0..Subtotal
    BY <1>1, <2>2, OrderAssumption DEF ReqType
  <2>4. /\ order' \in OrderType /\ order'.version = v
        /\ order'.status = order.status /\ order'.pay = order.pay
    <3> HIDE DEF v, t
    <3> QED
      BY <1>1, <1>v, <2>1, <2>3 DEF OrderType
  <2> QED
    BY <1>1, <1>v, <2>2, <2>4 DEF DeliveredIsPaid
<1>5. CASE req[r].kind = "intent"
  <2>1. order' = [order EXCEPT !.version = v, !.intent = req[r].intent]
    BY <1>1, <1>5 DEF Written, OrderType
  <2>2. /\ order' \in OrderType /\ order'.version = v
        /\ order'.status = order.status /\ order'.pay = order.pay
        /\ order'.total = order.total
    <3> HIDE DEF v
    <3> QED
      BY <1>1, <1>v, <2>1 DEF OrderType, ReqType
  <2> QED
    BY <1>1, <1>v, <2>2 DEF DeliveredIsPaid
<1> QED
  BY <1>1, <1>2, <1>3, <1>4, <1>5 DEF Legal

LEMMA SaveInv ==
    ASSUME OrderIInv, NEW r \in Requests, Save(r)
    PROVE  OrderIInv'
<1>1. /\ order' \in OrderType /\ order'.version = order.version + 1
      /\ DeliveredIsPaid'
  BY SaveEffect
<1> DEFINE pc == IF req[r].kind \in Sensitive THEN "audit" ELSE "done"
           h == [req[r] EXCEPT !.pc = pc]
<1>2. h \in ReqType
  BY DEF OrderIInv, OrderTypeOK, ReqType
<1>3. req' = [req EXCEPT ![r] = h]
  BY DEF Save, Moves, AfterSave
<1>4. req' \in [Requests -> ReqType]
  <2> HIDE DEF h
  <2> QED
    BY <1>2, <1>3 DEF OrderIInv, OrderTypeOK
<1>5. Legal(r) /\ req[r] \in ReqType
  BY DEF Save, OrderIInv, OrderTypeOK, HandlerInv
<1>6. req[r].kind = "intent" => req[r].intent \in Intents
  BY <1>5 DEF Legal
<1>7. shown' \subseteq Intents /\ gestures' \subseteq Requests /\ gestures \subseteq gestures'
  BY <1>6 DEF Save, OrderIInv, OrderTypeOK
<1>8. OrderTypeOK'
  BY <1>1, <1>4, <1>7 DEF Save, OrderIInv, OrderTypeOK
<1>9. ASSUME NEW q \in Requests PROVE HandlerInv(q)'
  <2>1. /\ req'[q].snap = req[q].snap /\ req[q] \in ReqType
        /\ req[q].snap.version <= order.version
    BY <1>3, <1>5 DEF OrderIInv, OrderTypeOK, HandlerInv, SnapHolds, ReqType
  <2>2. order.version \in Nat /\ req[q].snap.version \in Nat
    BY <2>1 DEF OrderIInv, OrderTypeOK, OrderType, ReqType
  <2>3. SnapHolds(q)'
    BY <1>1, <2>1, <2>2 DEF SnapHolds
  <2>4. CASE q = r
    <3>1. req'[q] = h
      BY <1>3, <2>4 DEF OrderIInv, OrderTypeOK
    <3>2. req'[q].pc = pc
      BY <3>1, <1>5 DEF ReqType
    <3>3. pc = "audit" => r \in gestures'
      BY DEF Save
    <3> QED
      BY <2>3, <2>4, <3>2, <3>3 DEF HandlerInv
  <2>5. CASE q # r
    <3>1. req'[q] = req[q]
      BY <1>3, <2>5 DEF OrderIInv, OrderTypeOK
    <3> QED
      BY <1>7, <2>3, <3>1 DEF OrderIInv, HandlerInv, Legal
  <2> QED
    BY <2>4, <2>5
<1> QED
  BY <1>1, <1>8, <1>9 DEF OrderIInv

-----------------------------------------------------------------------------
(* Stripe.                                                                 *)

LEMMA ChargeInv ==
    ASSUME OrderIInv, NEW i \in Intents, Charge(i)
    PROVE  OrderIInv'
BY DEF Charge, OrderIInv, OrderTypeOK, DeliveredIsPaid, HandlerInv, SnapHolds, Legal,
       traceVars

\* A confirmation only pays the order.
LEMMA WebhookEffect ==
    ASSUME OrderIInv, NEW i \in Intents, Webhook(i)
    PROVE  /\ order' \in OrderType
           /\ order'.status = order.status /\ order'.total = order.total
           /\ order'.version = order.version
           /\ order'.pay = "paid" \/ order' = order
BY DEF Webhook, OrderIInv, OrderTypeOK, OrderType

LEMMA WebhookInv ==
    ASSUME OrderIInv, NEW i \in Intents, Webhook(i)
    PROVE  OrderIInv'
<1>1. /\ order' \in OrderType
      /\ order'.status = order.status /\ order'.version = order.version
      /\ order'.pay = "paid" \/ order'.pay = order.pay
  BY WebhookEffect
<1>2. OrderTypeOK'
  BY <1>1 DEF Webhook, OrderIInv, OrderTypeOK, traceVars
<1>3. DeliveredIsPaid'
  BY <1>1 DEF OrderIInv, DeliveredIsPaid
<1>4. \A q \in Requests : HandlerInv(q)'
  BY <1>1 DEF Webhook, OrderIInv, HandlerInv, SnapHolds, Legal, traceVars
<1> QED
  BY <1>2, <1>3, <1>4 DEF OrderIInv

-----------------------------------------------------------------------------
(* The invariant, and what follows from it.                                *)

LEMMA OrderStepInv == OrderIInv /\ [OrderNext]_orderVars => OrderIInv'
<1> SUFFICES ASSUME OrderIInv, [OrderNext]_orderVars PROVE OrderIInv'
  OBVIOUS
<1>1. ASSUME NEW r \in Requests, Handler(r) PROVE OrderIInv'
  BY <1>1, UpdateStatusInv, CancelInv, DiscountInv, AskIntentInv, ReuseIntentInv,
     FreshIntentInv, EndingsInv, AuditInv, SaveInv DEF Handler
<1>2. ASSUME NEW i \in Intents, Charge(i) \/ Webhook(i) PROVE OrderIInv'
  BY <1>2, ChargeInv, WebhookInv
<1>3. CASE UNCHANGED orderVars
  BY <1>3 DEF orderVars, OrderIInv, OrderTypeOK, DeliveredIsPaid, HandlerInv, SnapHolds,
     Legal
<1> QED
  BY <1>1, <1>2, <1>3 DEF OrderNext

LEMMA OrderInvariant == OrderSpec => []OrderIInv
BY OrderInitInv, OrderStepInv, PTL DEF OrderSpec

\* Every variable keeps holding what the code can store in it.
THEOREM OrderTypeCorrect == OrderSpec => []OrderTypeOK
<1>1. OrderIInv => OrderTypeOK
  BY DEF OrderIInv
<1> QED
  BY <1>1, OrderInvariant, PTL

\* An order handed over has been paid for, however many handlers and
\* confirmations interleave (updateStatus).
THEOREM DeliveredWasPaid == OrderSpec => []DeliveredIsPaid
<1>1. OrderIInv => DeliveredIsPaid
  BY DEF OrderIInv
<1> QED
  BY <1>1, OrderInvariant, PTL

\* The order changes by a save or a confirmation only.
LEMMA OrderChanges ==
    ASSUME OrderIInv, [OrderNext]_orderVars
    PROVE  \/ order' = order
           \/ \E r \in Requests : Save(r)
           \/ \E i \in Intents : Webhook(i)
BY DEF OrderNext, Handler, orderVars, UpdateStatus, Cancel, Discount, AskIntent,
       ReuseIntent, FreshIntent, IntentUnavailable, SaveConflicts, Audit, Stop, Charge

\* A closed order keeps its status and its amount: no handler that had read it
\* open gets its write through (optimisticConcurrency).
THEOREM ClosedForGood == OrderSpec => ClosedStaysClosed
<1>1. OrderIInv /\ [OrderNext]_orderVars =>
        [order.status \in Terminal =>
           order'.status = order.status /\ order'.total = order.total]_orderVars
  BY OrderChanges, SaveEffect, WebhookEffect
<1> QED
  BY <1>1, OrderInvariant, PTL DEF OrderSpec, ClosedStaysClosed

\* The status moves forward or to cancelled, however old the reading a handler
\* works from (updateStatus).
THEOREM StatusOnlyAdvances == OrderSpec => StatusAdvances
<1>1. OrderIInv /\ [OrderNext]_orderVars =>
        [order'.status # order.status =>
           order'.status = "cancelled" \/ Rank[order'.status] > Rank[order.status]]_orderVars
  BY OrderChanges, SaveEffect, WebhookEffect
<1> QED
  BY <1>1, OrderInvariant, PTL DEF OrderSpec, StatusAdvances
-----------------------------------------------------------------------------
(* The audit log.                                                          *)

LEMMA TraceStep ==
    ASSUME OrderIInv, TracesAreTrue, [OrderNext]_orderVars
    PROVE  TracesAreTrue'
<1>1. ASSUME NEW r \in Requests, Handler(r) PROVE TracesAreTrue'
  <2>1. \A q \in Requests \ {r} : req'[q] = req[q]
    BY <1>1 DEF Handler, UpdateStatus, Cancel, Discount, AskIntent, ReuseIntent,
       FreshIntent, IntentUnavailable, Save, SaveConflicts, Audit, Stop, Reads, Moves,
       OrderIInv, OrderTypeOK
  <2>2. CASE Save(r)
    <3>1. req'[r].pc = AfterSave(req[r].kind) /\ req[r].pc = "save"
      BY <2>2 DEF Save, Moves, OrderIInv, OrderTypeOK, ReqType
    <3>2. /\ traced' = traced
          /\ gestures' = gestures \cup {q \in {r} : req[r].kind \in Sensitive}
      BY <2>2 DEF Save
    <3> QED
      BY <2>1, <3>1, <3>2 DEF TracesAreTrue, AfterSave, OrderIInv, OrderTypeOK
  <2>3. CASE Audit(r)
    <3>1. r \in gestures /\ traced' = traced \cup {r} /\ gestures' = gestures
      BY <2>3 DEF Audit, OrderIInv, HandlerInv
    <3> QED
      BY <2>1, <3>1 DEF TracesAreTrue, OrderIInv, OrderTypeOK
  <2>4. CASE Stop(r)
    <3>1. req'[r].pc = "stopped" /\ UNCHANGED traceVars
      BY <2>4 DEF Stop, Moves, OrderIInv, OrderTypeOK, ReqType
    <3> QED
      BY <2>1, <3>1 DEF TracesAreTrue, traceVars, OrderIInv, OrderTypeOK
  <2>5. CASE ~Save(r) /\ ~Audit(r) /\ ~Stop(r)
    <3>1. req[r].pc \in {"idle", "stripe", "save"} /\ UNCHANGED traceVars
      BY <1>1, <2>5 DEF Handler, UpdateStatus, Cancel, Discount, AskIntent, ReuseIntent,
         FreshIntent, IntentUnavailable, SaveConflicts, Reads, traceVars
    <3> QED
      BY <2>1, <3>1 DEF TracesAreTrue, traceVars, OrderIInv, OrderTypeOK
  <2> QED
    BY <2>2, <2>3, <2>4, <2>5
<1>2. ASSUME NEW i \in Intents, Charge(i) \/ Webhook(i) PROVE TracesAreTrue'
  BY <1>2 DEF Charge, Webhook, traceVars, TracesAreTrue
<1>3. CASE UNCHANGED orderVars
  BY <1>3 DEF orderVars, TracesAreTrue
<1> QED
  BY <1>1, <1>2, <1>3 DEF OrderNext

\* The audit log has no gesture that lost its save, and misses only those whose
\* handler stopped before writing it.
THEOREM TracesTellTheTruth == OrderSpec => []TracesAreTrue
<1>1. OrderInit => TracesAreTrue
  BY DEF OrderInit, TracesAreTrue
<1>2. OrderIInv /\ TracesAreTrue /\ [OrderNext]_orderVars => TracesAreTrue'
  BY TraceStep
<1> QED
  BY <1>1, <1>2, OrderInvariant, PTL DEF OrderSpec

\* The document keeps its types, and a delivery its payment.
THEOREM OrderAlwaysSound == OrderSpec => []OrderSound
BY OrderTypeCorrect, DeliveredWasPaid, PTL DEF OrderSound

\* No stale save takes an order back.
THEOREM AlwaysForward == OrderSpec => OnlyForward
BY ClosedForGood, StatusOnlyAdvances, PTL DEF OnlyForward

-----------------------------------------------------------------------------
\* A worker that was told of a credit was told the truth, and a sale is given
\* up as cancelled only once it can never be delivered.
WorkerInv ==
    /\ \A w \in Workers : worker[w].pc = "credited" => ledger.credits > 0
    /\ \A w \in Workers : worker[w].pc # "idle" => worker[w].lease # None
    /\ earn.state = "cancelled" => order.status = "cancelled"

LoyaltyIInv ==
    /\ OrderIInv /\ LoyaltyTypeOK /\ WorkerInv
    /\ CreditedOnce /\ CreditMatchesSale /\ StateIsTrue

-----------------------------------------------------------------------------
(* Init.                                                                   *)

LEMMA LoyaltyInitInv == LoyaltyInit => LoyaltyIInv
<1> SUFFICES ASSUME LoyaltyInit PROVE LoyaltyIInv
  OBVIOUS
<1>1. OrderIInv /\ OrderTypeOK
  BY OrderInitInv DEF LoyaltyInit, OrderIInv
<1>2. LoyaltyTypeOK
  BY <1>1, OrderAssumption DEF LoyaltyInit, LoyaltyTypeOK, NotWorking, EarnStates
<1>3. WorkerInv /\ CreditedOnce /\ CreditMatchesSale /\ StateIsTrue
  BY DEF LoyaltyInit, WorkerInv, CreditedOnce, CreditMatchesSale, StateIsTrue, NotWorking
<1> QED
  BY <1>1, <1>2, <1>3 DEF LoyaltyIInv

-----------------------------------------------------------------------------
(* The steps of the order.                                                 *)

\* A sale that was handed over stays what it was, and so does a cancelled one.
LEMMA SaleStays ==
    ASSUME OrderIInv, [OrderNext]_orderVars
    PROVE  /\ order.status = "delivered" /\ order.pay = "paid" =>
                order'.status = "delivered" /\ order'.pay = "paid" /\ order'.total = order.total
           /\ order.status = "cancelled" => order'.status = "cancelled"
<1>1. CASE order' = order
  BY <1>1
<1>2. ASSUME NEW r \in Requests, Save(r)
      PROVE  /\ order.status \in Terminal =>
                  order'.status = order.status /\ order'.total = order.total
             /\ order'.pay = "paid" \/ order'.pay = order.pay
  BY <1>2, SaveEffect
<1>3. ASSUME NEW i \in Intents, Webhook(i)
      PROVE  /\ order'.status = order.status /\ order'.total = order.total
             /\ order'.pay = "paid" \/ order' = order
  BY <1>3, WebhookEffect
<1> QED
  BY <1>1, <1>2, <1>3, OrderChanges DEF Terminal

LEMMA OrderSteps ==
    ASSUME LoyaltyIInv, [OrderNext]_orderVars, UNCHANGED earnVars
    PROVE  LoyaltyIInv'
<1>1. OrderIInv' /\ OrderTypeOK'
  BY OrderStepInv DEF LoyaltyIInv, OrderIInv
<1>2. LoyaltyTypeOK'
  BY <1>1 DEF LoyaltyIInv, LoyaltyTypeOK, earnVars
<1>3. WorkerInv' /\ CreditedOnce' /\ CreditMatchesSale' /\ StateIsTrue'
  BY SaleStays DEF LoyaltyIInv, WorkerInv, CreditedOnce, CreditMatchesSale, StateIsTrue,
     earnVars
<1> QED
  BY <1>1, <1>2, <1>3 DEF LoyaltyIInv

-----------------------------------------------------------------------------
(* The drain.                                                              *)

\* What a step of a worker has to keep, when the order stays.
LEMMA DrainKeeps ==
    ASSUME LoyaltyIInv, UNCHANGED orderVars, UNCHANGED card, NEW w \in Workers,
           NEW e \in [state : EarnStates, lease : Leases \cup {None}], earn' = e,
           (e.state = "processing") <=> (e.lease # None),
           e.state = "cancelled" => order.status = "cancelled",
           e.state = "completed" => ledger'.credits > 0,
           NEW h \in [pc : {"idle", "claimed", "credited", "refused", "retry"},
                      lease : Leases \cup {None}, total : 0..Subtotal],
           worker' = [worker EXCEPT ![w] = h],
           h.pc = "credited" => ledger'.credits > 0,
           h.pc # "idle" => h.lease # None,
           ledger' = ledger \/
             /\ ledger.credits = 0 /\ Confirmed(w)
             /\ ledger' = [credits |-> ledger.credits + 1, total |-> worker[w].total]
    PROVE  LoyaltyIInv'
<1>1. OrderIInv' /\ OrderTypeOK'
  BY OrderStepInv DEF LoyaltyIInv, OrderIInv
<1>2. /\ ledger' \in [credits : Nat, total : 0..Subtotal]
      /\ ledger'.credits >= ledger.credits /\ ledger'.credits <= 1
      /\ ledger'.credits > 0 =>
           order.status = "delivered" /\ order.pay = "paid" /\ order.total = ledger'.total
  BY DEF LoyaltyIInv, LoyaltyTypeOK, CreditedOnce, CreditMatchesSale, Confirmed
<1>3. ledger.credits \in Nat /\ ledger'.credits \in Nat
  BY <1>2 DEF LoyaltyIInv, LoyaltyTypeOK
<1>4. LoyaltyTypeOK'
  BY <1>1, <1>2 DEF LoyaltyIInv, LoyaltyTypeOK
<1>5. WorkerInv'
  BY <1>2, <1>3 DEF LoyaltyIInv, LoyaltyTypeOK, WorkerInv, orderVars
<1>6. CreditedOnce' /\ CreditMatchesSale'
  BY <1>2 DEF CreditedOnce, CreditMatchesSale, orderVars
<1>7. StateIsTrue'
  BY <1>2, <1>3 DEF StateIsTrue
<1> QED
  BY <1>1, <1>4, <1>5, <1>6, <1>7 DEF LoyaltyIInv

\* A worker's own record, and the outbox, as they stand.
LEMMA DrainUse ==
    ASSUME LoyaltyIInv, NEW w \in Workers
    PROVE  /\ earn \in [state : EarnStates, lease : Leases \cup {None}]
           /\ (earn.state = "processing") <=> (earn.lease # None)
           /\ earn.state = "cancelled" => order.status = "cancelled"
           /\ earn.state = "completed" => ledger.credits > 0
           /\ worker[w] \in [pc : {"idle", "claimed", "credited", "refused", "retry"},
                             lease : Leases \cup {None}, total : 0..Subtotal]
           /\ worker = [worker EXCEPT ![w] = worker[w]]
           /\ worker[w].pc = "credited" => ledger.credits > 0
           /\ worker[w].pc # "idle" => worker[w].lease # None
           /\ ledger.credits \in Nat /\ order.total \in 0..Subtotal
           /\ order.status = "cancelled" => ledger.credits = 0
BY DEF LoyaltyIInv, LoyaltyTypeOK, WorkerInv, StateIsTrue, OrderTypeOK, OrderType,
       CreditMatchesSale

LEMMA RecoverInv ==
    ASSUME LoyaltyIInv, NEW w \in Workers, Recover(w) \/ CancelIneligible(w)
    PROVE  LoyaltyIInv'
<1>1. PICK s \in {"pending", "cancelled"} :
         /\ earn' = Released(s)
         /\ s = "cancelled" => order.status = "cancelled"
  BY DEF Recover, CancelIneligible
<1> DEFINE e == Released(s)
<1>2. /\ e \in [state : EarnStates, lease : Leases \cup {None}]
      /\ e.state = s /\ e.lease = None
  BY DEF Released, EarnStates
<1>3. UNCHANGED <<orderVars, worker, ledger, card>>
  BY DEF Recover, CancelIneligible
<1> HIDE DEF e
<1> QED
  BY <1>1, <1>2, <1>3, DrainUse, DrainKeeps DEF e

LEMMA ClaimInv ==
    ASSUME LoyaltyIInv, NEW w \in Workers, Claim(w)
    PROVE  LoyaltyIInv'
<1>1. PICK l \in Leases :
         /\ earn' = [state |-> "processing", lease |-> l]
         /\ worker' = [worker EXCEPT ![w] =
                          [pc |-> "claimed", lease |-> l, total |-> order.total]]
  BY DEF Claim
<1> DEFINE e == [state |-> "processing", lease |-> l]
           h == [pc |-> "claimed", lease |-> l, total |-> order.total]
<1>2. l # None
  BY LoyaltyAssumption
<1>3. /\ e \in [state : EarnStates, lease : Leases \cup {None}]
      /\ e.state = "processing" /\ e.lease # None
  BY <1>2 DEF EarnStates
<1>4. /\ h \in [pc : {"idle", "claimed", "credited", "refused", "retry"},
                lease : Leases \cup {None}, total : 0..Subtotal]
      /\ h.pc = "claimed" /\ h.lease # None
  BY <1>2, DrainUse
<1>5. UNCHANGED <<orderVars, ledger, card>>
  BY DEF Claim
<1>6. earn' = e /\ worker' = [worker EXCEPT ![w] = h]
  BY <1>1
<1> HIDE DEF e, h
<1> QED
  BY <1>3, <1>4, <1>5, <1>6, DrainUse, DrainKeeps

\* The ledger answers: only the worker's place moves.
LEMMA AnswerInv ==
    ASSUME LoyaltyIInv, NEW w \in Workers, worker[w].pc = "claimed",
           NEW pc \in {"credited", "refused", "retry"}, Answers(w, pc),
           pc = "credited" => ledger'.credits > 0,
           UNCHANGED <<orderVars, earn, card>>,
           ledger' = ledger \/
             /\ ledger.credits = 0 /\ Confirmed(w)
             /\ ledger' = [credits |-> ledger.credits + 1, total |-> worker[w].total]
    PROVE  LoyaltyIInv'
<1> DEFINE h == [worker[w] EXCEPT !.pc = pc]
<1>1. /\ h \in [pc : {"idle", "claimed", "credited", "refused", "retry"},
                lease : Leases \cup {None}, total : 0..Subtotal]
      /\ h.pc = pc /\ h.lease = worker[w].lease
  BY DrainUse
<1>2. worker' = [worker EXCEPT ![w] = h]
  BY DEF Answers
<1>3. ledger'.credits \in Nat /\ ledger'.credits >= ledger.credits
  BY DrainUse
<1>4. earn.state = "completed" => ledger'.credits > 0
  BY <1>3, DrainUse
<1>5. worker[w].lease # None
  BY DrainUse
<1> HIDE DEF h
<1> QED
  BY <1>1, <1>2, <1>4, <1>5, DrainUse, DrainKeeps

LEMMA LedgerInv ==
    ASSUME LoyaltyIInv, NEW w \in Workers,
           Credit(w) \/ Replay(w) \/ Refuse(w) \/ TurnAway(w) \/ Unavailable(w)
    PROVE  LoyaltyIInv'
<1>1. ledger.credits \in Nat
  BY DrainUse
<1>2. CASE Credit(w)
  <2>1. ledger.credits = 0
    BY <1>1, <1>2 DEF Credit, Recorded
  <2>2. ledger'.credits > 0
    BY <1>2, <2>1 DEF Credit
  <2> QED
    BY <1>2, <2>1, <2>2, AnswerInv DEF Credit
<1>3. CASE Replay(w)
  <2>1. ledger'.credits > 0
    BY <1>3 DEF Replay, Recorded
  <2> QED
    BY <1>3, <2>1, AnswerInv DEF Replay
<1>4. CASE Refuse(w) \/ TurnAway(w) \/ Unavailable(w)
  BY <1>4, AnswerInv DEF Refuse, TurnAway, Unavailable
<1> QED
  BY <1>2, <1>3, <1>4

\* NotWorking is a record of a worker.
LEMMA NotWorkingType ==
    /\ NotWorking \in [pc : {"idle", "claimed", "credited", "refused", "retry"},
                       lease : Leases \cup {None}, total : 0..Subtotal]
    /\ NotWorking.pc = "idle"
BY OrderAssumption DEF NotWorking

LEMMA MarkInv ==
    ASSUME LoyaltyIInv, NEW w \in Workers, Mark(w)
    PROVE  LoyaltyIInv'
<1> DEFINE e == IF Holds(w) THEN Released(Outcome(w)) ELSE earn
<1>1. /\ worker[w].pc = "credited" => Outcome(w) = "completed"
      /\ worker[w].pc = "refused" => Outcome(w) = "failed"
      /\ worker[w].pc = "retry" => Outcome(w) = "pending"
      /\ worker[w].pc \in {"credited", "refused", "retry"}
  BY DEF Outcome, Mark
<1>2. /\ e \in [state : EarnStates, lease : Leases \cup {None}]
      /\ (e.state = "processing") <=> (e.lease # None)
      /\ e.state = "cancelled" => order.status = "cancelled"
      /\ e.state = "completed" => ledger.credits > 0
  <2>1. CASE Holds(w)
    <3>1. e = [state |-> Outcome(w), lease |-> None]
      BY <2>1 DEF Released
    <3> QED
      BY <1>1, <3>1, DrainUse DEF EarnStates
  <2>2. CASE ~Holds(w)
    BY <2>2, DrainUse
  <2> QED
    BY <2>1, <2>2
<1>3. /\ earn' = e /\ worker' = [worker EXCEPT ![w] = NotWorking]
      /\ UNCHANGED <<orderVars, ledger, card>>
  BY DEF Mark
<1> HIDE DEF e
<1> QED
  BY <1>2, <1>3, NotWorkingType, DrainKeeps

LEMMA WorkerStopsInv ==
    ASSUME LoyaltyIInv, NEW w \in Workers, WorkerStops(w)
    PROVE  LoyaltyIInv'
BY NotWorkingType, DrainUse, DrainKeeps DEF WorkerStops

\* The card has no part in what was credited.
LEMMA CardInv ==
    ASSUME LoyaltyIInv, Bar \/ Admit \/ Anonymize
    PROVE  LoyaltyIInv'
<1>1. /\ UNCHANGED <<orderVars, earn, worker, ledger>>
      /\ card' \in {"active", "barred", "anonymized"}
  BY DEF Bar, Admit, Anonymize, CardBecomes
<1>2. OrderIInv' /\ OrderTypeOK'
  BY <1>1, OrderStepInv DEF LoyaltyIInv, OrderIInv
<1>3. LoyaltyTypeOK'
  BY <1>1, <1>2 DEF LoyaltyIInv, LoyaltyTypeOK
<1>4. WorkerInv' /\ CreditedOnce' /\ CreditMatchesSale' /\ StateIsTrue'
  BY <1>1 DEF LoyaltyIInv, WorkerInv, CreditedOnce, CreditMatchesSale, StateIsTrue, orderVars
<1> QED
  BY <1>2, <1>3, <1>4 DEF LoyaltyIInv

-----------------------------------------------------------------------------
(* The invariant, and what follows from it.                                *)

LEMMA LoyaltyStepInv == LoyaltyIInv /\ [LoyaltyNext]_loyaltyVars => LoyaltyIInv'
<1> SUFFICES ASSUME LoyaltyIInv, [LoyaltyNext]_loyaltyVars PROVE LoyaltyIInv'
  OBVIOUS
<1>1. ASSUME NEW w \in Workers, Drain(w) PROVE LoyaltyIInv'
  BY <1>1, RecoverInv, ClaimInv, LedgerInv, MarkInv, WorkerStopsInv DEF Drain
<1>2. CASE OrderNext /\ UNCHANGED earnVars
  BY <1>2, OrderSteps
<1>3. CASE UNCHANGED loyaltyVars
  BY <1>3, OrderSteps DEF loyaltyVars
<1> QED
  BY <1>1, <1>2, <1>3, CardInv DEF LoyaltyNext

LEMMA LoyaltyInvariant == LoyaltySpec => []LoyaltyIInv
BY LoyaltyInitInv, LoyaltyStepInv, PTL DEF LoyaltySpec

\* A sale is credited once at most, however many workers hold it, stop, lose
\* the ledger's answer or see their lease run out (claimOperation).
THEOREM NeverCreditedTwice == LoyaltySpec => []CreditedOnce
<1>1. LoyaltyIInv => CreditedOnce
  BY DEF LoyaltyIInv
<1> QED
  BY <1>1, LoyaltyInvariant, PTL

\* What was credited is, and stays, what the customer paid for the sale.
THEOREM CreditIsTheSale == LoyaltySpec => []CreditMatchesSale
<1>1. LoyaltyIInv => CreditMatchesSale
  BY DEF LoyaltyIInv
<1> QED
  BY <1>1, LoyaltyInvariant, PTL

\* The till is told of a credit, or of a cancellation, only when there is one.
THEOREM StateNeverLies == LoyaltySpec => []StateIsTrue
<1>1. LoyaltyIInv => StateIsTrue
  BY DEF LoyaltyIInv
<1> QED
  BY <1>1, LoyaltyInvariant, PTL

\* A late worker never reopens the outcome of a sale.
THEOREM DecidedOnce == LoyaltySpec => DecidedForGood
<1>1. [LoyaltyNext]_loyaltyVars =>
        [earn.state \in {"completed", "failed", "cancelled"} =>
           earn'.state = earn.state]_loyaltyVars
  BY DEF LoyaltyNext, Drain, Recover, CancelIneligible, Claim, Credit, Replay, Refuse, TurnAway,
     Unavailable, Mark, WorkerStops, Holds, Expired, Due, earnVars,
     Bar, Admit, Anonymize, CardBecomes
<1> QED
  BY <1>1, PTL DEF LoyaltySpec, DecidedForGood

\* One credit at most, of the amount of the sale.
THEOREM LedgerAlwaysRight == LoyaltySpec => []LedgerIsRight
<1>1. LoyaltyIInv => LoyaltyTypeOK
  BY DEF LoyaltyIInv
<1> QED
  BY <1>1, LoyaltyInvariant, NeverCreditedTwice, CreditIsTheSale, PTL DEF LedgerIsRight
=============================================================================
