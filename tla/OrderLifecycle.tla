--------------------------- MODULE OrderLifecycle ---------------------------
(***************************************************************************)
(* The life of one order on the server, after its creation                 *)
(* (orders.service.ts, payments.service.ts): status, cancellation,         *)
(* discount, payment intent and Stripe's confirmation.                     *)
(*                                                                         *)
(* The handlers of several requests, on one or more servers, read the      *)
(* document, await other services, then save what they changed; the save   *)
(* goes through only if the version has not moved.  The confirmation is    *)
(* one atomic update that neither reads nor moves the version.  A handler  *)
(* may stop at any await.                                                  *)
(***************************************************************************)
EXTENDS Integers

CONSTANTS Requests,   \* handlers; each runs once
          Intents,    \* payment intents Stripe can hand out
          Subtotal,   \* the order's amount before any discount, in cents
          Amounts,    \* discounts the validating code is entitled to
          None

ASSUME OrderAssumption ==
    /\ Subtotal \in Nat
    /\ Amounts \subseteq Nat \ {0}
    /\ None \notin Intents

VARIABLES order,      \* the document
          req,        \* each handler: where it stands and what it has read
          stripe,     \* each intent at Stripe
          shown,      \* intents a customer has been given
          traced,     \* sensitive gestures in the audit log
          gestures,   \* sensitive gestures that were saved (history)
          confirmed,  \* intents whose confirmation paid the order (history)
          replayed    \* intents whose confirmation was taken for a replay (history)

stripeVars == <<stripe, shown, confirmed, replayed>>
traceVars == <<traced, gestures>>
orderVars == <<order, req, stripe, shown, traced, gestures, confirmed, replayed>>

-----------------------------------------------------------------------------
(* The document and the handlers.                                          *)

Status == {"new", "preparing", "ready", "delivered", "cancelled"}

\* ORDER_STATUS_RANK
Rank == [s \in Status |->
            CASE s = "new" -> 0
              [] s = "preparing" -> 1
              [] s = "ready" -> 2
              [] s = "delivered" -> 3
              [] s = "cancelled" -> -1]

\* TERMINAL_STATUSES
Terminal == {"delivered", "cancelled"}

\* What the model keeps of the document.  Orders are created to be paid at the
\* counter; `method` becomes "online" with Stripe's confirmation.  The connected
\* account is written with the intent.
OrderType ==
    [status : Status, pay : {"pending", "paid"}, method : {"counter", "online"},
     total : 0..Subtotal, intent : Intents \cup {None}, version : Nat]

\* Sensitive gestures ask for the PIN again and are traced.
Sensitive == {"cancel", "discount"}

ReqType ==
    [pc : {"idle", "stripe", "save", "audit", "done", "stopped"},
     kind : {"none", "status", "cancel", "discount", "intent"},
     snap : OrderType, to : Status, amount : Nat, intent : Intents \cup {None}]

\* Created by createWithOutcome: paid on the spot at the counter, or pending;
\* a promotion may have been applied.
OrderInit ==
    /\ \E p \in {"pending", "paid"}, d \in {a \in Amounts : a <= Subtotal} \cup {0} :
         order = [status |-> "new", pay |-> p, method |-> "counter",
                  total |-> Subtotal - d, intent |-> None, version |-> 0]
    /\ req = [r \in Requests |-> [pc |-> "idle", kind |-> "none", snap |-> order,
                                  to |-> "new", amount |-> 0, intent |-> None]]
    /\ stripe = [i \in Intents |-> "none"]
    /\ shown = {} /\ confirmed = {} /\ replayed = {}
    /\ traced = {} /\ gestures = {}

\* A handler reads the document and goes on to `pc`.
Reads(r, k, pc, s, a) ==
    /\ req[r].pc = "idle"
    /\ req' = [req EXCEPT ![r] = [pc |-> pc, kind |-> k, snap |-> order,
                                  to |-> s, amount |-> a, intent |-> None]]

Moves(r, pc) == req' = [req EXCEPT ![r].pc = pc]

-----------------------------------------------------------------------------
(* Status, cancellation, discount.                                         *)

\* Mutation: any other status is taken for a step forward.
FurtherAny(s) == s # order.status /\ order.status \notin Terminal

\* updateStatus ignores a status already passed, and a closed order.
Further(s) ==
    /\ s # order.status
    /\ Rank[s] >= Rank[order.status]
    /\ order.status \notin Terminal

\* updateStatus.  A refusal of the rules answers with the order as it is.
UpdateStatus(r) ==
    /\ \E s \in Status \ {"cancelled"} :
         Reads(r, "status", IF Further(s) THEN "save" ELSE "done", s, 0)
    /\ UNCHANGED <<order, stripeVars, traceVars>>

\* cancel: only a delivered order is refused.
Cancel(r) ==
    /\ Reads(r, "cancel", IF order.status = "delivered" THEN "done" ELSE "save",
             "cancelled", 0)
    /\ UNCHANGED <<order, stripeVars, traceVars>>

\* Mutation: a discount may exceed the order.
GrantableAny(a) == order.status \notin Terminal

\* A discount is granted on an open order, up to its subtotal.
Grantable(a) == order.status \notin Terminal /\ a <= Subtotal

\* discount.
Discount(r) ==
    /\ \E a \in Amounts :
         Reads(r, "discount", IF Grantable(a) THEN "save" ELSE "done", "new", a)
    /\ UNCHANGED <<order, stripeVars, traceVars>>

-----------------------------------------------------------------------------
(* The payment intent.                                                     *)

\* createIntent, up to the call of Stripe.
AskIntent(r) ==
    /\ Reads(r, "intent",
             IF order.status = "cancelled" \/ order.pay = "paid" THEN "done" ELSE "stripe",
             "new", 0)
    /\ UNCHANGED <<order, stripeVars, traceVars>>

\* resolveIntent, when the intent on the document can still be paid: it is
\* handed out again and there is nothing to save.
ReuseIntent(r) ==
    /\ req[r].pc = "stripe"
    /\ req[r].snap.intent # None /\ stripe[req[r].snap.intent] = "open"
    /\ shown' = shown \cup {req[r].snap.intent}
    /\ Moves(r, "done")
    /\ UNCHANGED <<order, stripe, confirmed, replayed, traceVars>>

\* Mutation: the intent is handed out before it is recorded on the order.
FreshIntentUnsaved(r) ==
    /\ req[r].pc = "stripe"
    /\ \E i \in Intents :
         /\ stripe[i] = "none"
         /\ stripe' = [stripe EXCEPT ![i] = "open"]
         /\ req' = [req EXCEPT ![r].pc = "done", ![r].intent = i]
         /\ shown' = shown \cup {i}
    /\ UNCHANGED <<order, confirmed, replayed, traceVars>>

\* resolveIntent, when there is none, it cannot be paid any more, or Stripe
\* does not give it back: another one is created.
FreshIntent(r) ==
    /\ req[r].pc = "stripe"
    /\ \E i \in Intents :
         /\ stripe[i] = "none"
         /\ stripe' = [stripe EXCEPT ![i] = "open"]
         /\ req' = [req EXCEPT ![r].pc = "save", ![r].intent = i]
    /\ UNCHANGED <<order, shown, confirmed, replayed, traceVars>>

\* No connected account, no key, or Stripe is down: pay at the counter.
IntentUnavailable(r) ==
    /\ req[r].pc = "stripe"
    /\ Moves(r, "done")
    /\ UNCHANGED <<order, stripeVars, traceVars>>

-----------------------------------------------------------------------------
(* Saving.                                                                 *)

\* Mutations: no save looks at the version, or a change of status alone does.
CurrentAlways(r) == TRUE
CurrentForStatus(r) == req[r].kind = "status" => req[r].snap.version = order.version

\* optimisticConcurrency: the version is in the filter of every save().
Current(r) == req[r].snap.version = order.version

\* Mutation: a delivery does not settle the order.
WrittenUnpaid(r) ==
    LET o == [order EXCEPT !.version = @ + 1]
    IN  CASE req[r].kind = "status" -> [o EXCEPT !.status = req[r].to]
          [] req[r].kind = "cancel" -> [o EXCEPT !.status = "cancelled"]
          [] req[r].kind = "discount" -> [o EXCEPT !.total = Subtotal - req[r].amount]
          [] req[r].kind = "intent" -> [o EXCEPT !.intent = req[r].intent]

\* save() writes the paths the handler has changed and moves the version.  A
\* delivery settles the order if it was read as pending.
Written(r) ==
    LET o == [order EXCEPT !.version = @ + 1]
        settles == req[r].to = "delivered" /\ req[r].snap.pay = "pending"
    IN  CASE req[r].kind = "status" ->
               [o EXCEPT !.status = req[r].to, !.pay = IF settles THEN "paid" ELSE @]
          [] req[r].kind = "cancel" -> [o EXCEPT !.status = "cancelled"]
          [] req[r].kind = "discount" -> [o EXCEPT !.total = Subtotal - req[r].amount]
          [] req[r].kind = "intent" -> [o EXCEPT !.intent = req[r].intent]

\* Mutation: a discount is not traced.
AfterSaveUntraced(k) == IF k = "cancel" THEN "audit" ELSE "done"

\* What a handler does once its save went through.
AfterSave(k) == IF k \in Sensitive THEN "audit" ELSE "done"

\* saveWithoutLostUpdate, and the save of createIntent, which then answers.
Save(r) ==
    /\ req[r].pc = "save" /\ Current(r)
    /\ order' = Written(r)
    /\ Moves(r, AfterSave(req[r].kind))
    /\ gestures' = gestures \cup {q \in {r} : req[r].kind \in Sensitive}
    /\ shown' = shown \cup {i \in {req[r].intent} : req[r].kind = "intent"}
    /\ UNCHANGED <<stripe, traced, confirmed, replayed>>

\* The version has moved: 409, or "unavailable" for an intent.
SaveConflicts(r) ==
    /\ req[r].pc = "save" /\ ~Current(r)
    /\ Moves(r, "done")
    /\ UNCHANGED <<order, stripeVars, traceVars>>

\* audit.log, awaited after the save.
Audit(r) ==
    /\ req[r].pc = "audit"
    /\ traced' = traced \cup {r}
    /\ Moves(r, "done")
    /\ UNCHANGED <<order, stripeVars, gestures>>

\* The server stops, or the call it waits for fails.
Stop(r) ==
    /\ req[r].pc \in {"stripe", "save", "audit"}
    /\ Moves(r, "stopped")
    /\ UNCHANGED <<order, stripeVars, traceVars>>

-----------------------------------------------------------------------------
(* Stripe.                                                                 *)

\* The customer pays an intent he was given, whatever became of the order.
Charge(i) ==
    /\ i \in shown /\ stripe[i] = "open"
    /\ stripe' = [stripe EXCEPT ![i] = "charged"]
    /\ UNCHANGED <<order, req, shown, confirmed, replayed, traceVars>>

\* markPaidFromWebhook: delivered as many times as Stripe likes, in any order.
\* The update filters on a pending payment and on the connected account, which
\* the order has from the save of its first intent.  A restaurant keeps its
\* account here: that the account of the event is the order's comes down to an
\* intent being on the order.
Webhook(i) ==
    /\ stripe[i] = "charged"
    /\ IF order.pay = "pending" /\ order.intent # None
       THEN /\ order' = [order EXCEPT !.pay = "paid", !.method = "online", !.intent = i]
            /\ confirmed' = confirmed \cup {i}
            /\ UNCHANGED replayed
       ELSE /\ replayed' = replayed \cup {i}
            /\ UNCHANGED <<order, confirmed>>
    /\ UNCHANGED <<req, stripe, shown, traceVars>>

Handler(r) ==
    \/ UpdateStatus(r) \/ Cancel(r) \/ Discount(r) \/ AskIntent(r)
    \/ ReuseIntent(r) \/ FreshIntent(r) \/ IntentUnavailable(r)
    \/ Save(r) \/ SaveConflicts(r) \/ Audit(r) \/ Stop(r)

OrderNext ==
    \/ \E r \in Requests : Handler(r)
    \/ \E i \in Intents : Charge(i) \/ Webhook(i)

OrderSpec == OrderInit /\ [][OrderNext]_orderVars

\* Stripe delivers an event again until it is answered.
FairOrderSpec == OrderSpec /\ \A i \in Intents : WF_orderVars(Webhook(i))

-----------------------------------------------------------------------------
(* Properties.                                                             *)

\* Types: the document, the handlers, the intents and the history.
OrderTypeOK ==
    /\ order \in OrderType
    /\ req \in [Requests -> ReqType]
    /\ stripe \in [Intents -> {"none", "open", "charged"}]
    /\ shown \subseteq Intents /\ confirmed \subseteq Intents /\ replayed \subseteq Intents
    /\ traced \subseteq Requests /\ gestures \subseteq Requests

\* An order handed over has been paid for (updateStatus), whatever was saved,
\* confirmed or refused meanwhile.
DeliveredIsPaid == order.status = "delivered" => order.pay = "paid"

\* Once delivered or cancelled, an order keeps its status and its amount: no
\* handler that had read it open gets its write through (order-concurrency.test.ts).
ClosedStaysClosed ==
    [][order.status \in Terminal =>
         order'.status = order.status /\ order'.total = order.total]_orderVars

\* The status only moves forward, or to cancelled, however old the reading a
\* handler works from (updateStatus, "le plus avancé gagne").
StatusAdvances ==
    [][order'.status # order.status =>
         order'.status = "cancelled" \/ Rank[order'.status] > Rank[order.status]]_orderVars

\* The document and the gestures on it: their types, and the payment of a
\* delivery (OrderSchema, updateStatus).
OrderSound == OrderTypeOK /\ DeliveredIsPaid

\* No stale save takes an order back: neither its status nor a closed amount.
OnlyForward == ClosedStaysClosed /\ StatusAdvances

\* What a customer has paid online ends up on the order (the header of
\* stripe-webhook.controller.ts): an intent is handed out only once recorded.
EventuallyConfirmed ==
    \A i \in Intents : stripe[i] = "charged" ~> order.pay = "paid"

\* A confirmation answered as a replay is one (markPaidFromWebhook).  Broken
\* by a second intent, or by an order settled at the counter: the money of
\* the second charge is on no document.
ReplayIsReplay == replayed \subseteq confirmed

\* Two concurrent gestures on a ticket never overwrite each other silently
\* (OrderSchema): a paid order names the intent that was charged.  Broken by
\* createIntent, which saves over a confirmation that does not move the version.
PaidNamesCharge ==
    order.method = "online" => order.intent \in Intents /\ stripe[order.intent] = "charged"

\* The audit log tells what was done (audit.module.ts): it has no gesture that
\* lost its save, and it has every other one, unless its handler is about to
\* write it or stopped in between.
TracesAreTrue ==
    /\ traced \subseteq gestures
    /\ \A r \in gestures : r \in traced \/ req[r].pc \in {"audit", "stopped"}
=============================================================================
