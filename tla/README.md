# Snack Manager: a TLA+ verification of the till, the kitchen, the orders and the accounts

Snack Manager is a multi-tenant application for small restaurants: a NestJS API
(`apps/api`) over MongoDB, PostgreSQL and Redis, a till (`apps/pos`) and a kitchen screen
(`apps/kds`) that must keep working without network, and a Next.js front (`apps/web`) for
online ordering and administration. This directory holds a model of its core logic, the
configurations that check it with TLC and proofs checked by TLAPS.

Paths below are relative to `src/`.

## 1. Inventory

### What carries the program's own logic

| component | state | operations | interacts with |
|---|---|---|---|
| **Offline queue** `packages/client-core/src/sync-queue.ts` | one document per device in the browser's storage: scope, epoch, retired scopes, purge flag, entries, rejected entries; and, per window, a copy of part of it, `boundScopeId`, `clearing`, `scopeInvalidated`, `flushInFlight`, `flushGeneration` | `bindScope`, `enqueue`, `acquitterRejets`, `flush`, `clear`, `completeClear`, `scopedStore`, `storage` event | the lock `withStoreLock` (Web Locks), `sendQueued` (HTTP), `useAutoSync` (timer, `online` event), other windows of the same device |
| **Device pairing** `apps/pos/src/client.ts`, `apps/pos/App.tsx`, `apps/kds/src/client.ts` | the stored `PairedDevice` identity (scope, token, `queueBindingPending`), business keys (day log, parked tickets), the adopted device and the staff token of each window | `loadPairedDevice`, `persist`, `pairDevice`, `deviceHeartbeat`, `forgetPairedDevice`, `finishInterruptedUnpair` | the offline queue, the storage lock, revocations |
| **Client API** `packages/client-core/src/api.ts`, `types.ts`, `pricing.ts`, `hooks.ts` | read cache, socket view of the orders | `sendQueued`, `get` with cache, merge of statuses | the API, the gateway |
| **Orders** `apps/api/src/modules/orders` | order documents (status, payment, version), the counter of numbers, the use count of promotions | `createWithOutcome`, `updateStatus`, `cancel`, `applyDiscount`, `createIntent`, `markPaidFromWebhook` | MongoDB (unique index on the client id, optimistic version), Stripe, the gateway, the loyalty outbox |
| **Public order gate and slots** `orders/public-order-gate.ts`, `ordering/slots.service.ts` | Redis counters and an expiring lock, the load of each slot | quota, lock, capacity check, release | Orders |
| **Online payments** `ordering/payments.service.ts`, webhooks, `encaissement` | intents, connected account frozen on the order | intents, `payment_intent.succeeded`, onboarding | Stripe, Orders |
| **Loyalty earn outbox** `loyalty/loyalty-order-earn.processor.ts` | state of the earn of each order: pending, leased, done, failed, attempts | claim with a lease, credit, confirm, retry | Orders (MongoDB), the ledger (PostgreSQL) |
| **Loyalty ledger and members** `loyalty/loyalty-member.service.ts` | members, profiles, QR tokens, operations, movements | prepare, create, acknowledge, expire, block, anonymise, replace the QR, earn, redeem, adjust | the outbox, the till, PostgreSQL |
| **Real-time gateway** `orders/orders.gateway.ts`, `common/session-*.ts` | sockets with their session, rooms, expiry timers, the flag of the sweep | connect, join, relay, hear a revocation, sweep | Orders, auth, devices, Redis |
| **Kitchen board** `apps/kds/src/useBoard.ts` | the board, the tickets hidden as delivered, their photo on the tablet | poll (three requests), advance, hydrate | the offline queue, the orders |
| **Billing** `crm/billing.service.ts` | invoices, the counter of numbers, the journal | issue, send, remind, pay, cancel, credit | MongoDB (unique index on the number) |
| **Order status rules** `domain/order-status.ts`, `client-core/types.ts` | none | ranks and merges of a status | every screen |

### What is left aside

Server-side devices, auth and staff (single-document checks), the CRM beside billing, menu,
supply, planning, statistics, display screens, sites and domains, operations, the domain
library's value objects, the schemas and scripts, and the web fronts: sequential edition of
one document at a time, calculations, rendering or calls to outside services. They are
listed one by one in `PROJECT.json` with the reason; see also "Not modelled" below.

### What is hard in this code

* **Several windows, one document.** Two windows of one browser profile share the queue
  and the identity. Each keeps fields in memory that the other cannot see; every operation
  re-reads the document under the lock, but sends and reads answers outside it.
* **Crashes between durable writes.** Pairing is intent / bind / confirmation, unpairing is
  tombstone / keys / acknowledgement. The keys are separate.
* **Lost answers.** A request without an answer may have been applied, or may be applied
  later, while its entry is sent again.
* **Order per subject.** A change of status must not overtake the creation of its order,
  through retries, crashes and two windows' passes.
* **Optimistic concurrency and compensation on the server.** Creation reserves a promotion
  before the order exists; cancellation, discount and webhook race on one document.
* **Leases and expiring locks.** The earn outbox and the slot gate hand work over on time.
* **Look, then lock.** An enrolment looks for the card of a phone, and the sweep for the
  cards to expire, before locking them; the acknowledgement may come in between.
* **Authority read again.** A socket outlives the session it was opened with; a revocation
  may be lost, late, or fall between a check and what it allows.
* **Numbers given back.** An invoice takes its number before it is written, and gives it back
  when it cannot be.

`PROJECT.json` lists each of these at its line, with the properties that cover it.

### What makes each component correct

* queue: nothing accepted is lost; a subject's order is kept; the document can always be
  read back; what it holds belongs to the pairing it is bound to; a closed pairing never
  comes back; every entry ends up with a verdict;
* pairing: no data or request crosses from one establishment to the next; a power cut
  leaves a device that restarts; the three durable pieces agree;
* orders: one order per client id; a promotion is never used more than its limit and its
  uses match the live orders; a terminal status is final; paid money is never forgotten;
* gate: requests that write a slot alike never exceed its capacity as long as its lock lives; no
  reservation of the quota is lost or kept for nothing;
* earn outbox: an order is credited at most once, and at least once if it stays due;
* members: a card the customer holds is never closed by the expiry of its enrolment, one
  that nobody acknowledged always is; a phone and a QR open one card;
* gateway: a revoked session receives nothing after its revocation, and ends up closed;
* board: it shows what the server says, or what the queue has recorded, and ends up right;
* billing: no number twice, no hole without a reason, a credit note on a paid invoice only.

## 2. Plan

Done: the offline queue with its abstract specification and proofs; the pairing above it;
the creation and the life of an order, the public route above the creation, the loyalty
outbox above the life of the order, with their proofs; enrolments and the gateway, with
theirs; the kitchen board and the invoices, with theirs. Every safety property of every passing
run is proved for any value of the constants, three of the pairing's for one window; the liveness
properties are model-checked.

What would come next, in this order:

1. `Encaissement`: the onboarding of the connected account (an account that was severed is
   never recorded again).
2. Redemptions and corrections of the ledger, beside the earn.
3. The kitchen board above `SyncQueue` itself, instead of the short queue it has.
4. An abstract specification of the kitchen board (a ticket per status and the gestures
   recorded) and of the invoices, with their refinement.

## 3. Modules

| module | models | extends |
|---|---|---|
| `SaleOutbox` | what the queue promises: accept, apply or refuse in order, settle, acknowledge, discard | -- |
| `SyncQueue` | `packages/client-core/src/sync-queue.ts`, `sendQueued`, `useAutoSync` | -- (instantiates `SaleOutbox`) |
| `MCSyncQueue` | instances for TLC | `SyncQueue` |
| `SyncQueueProofs` | its types, its safety and its refinement of `SaleOutbox`, proved | `SyncQueue` |
| `DevicePairing` | `apps/pos/src/client.ts`, `apps/pos/App.tsx`, the helpers of `storage.ts` | `SyncQueue` |
| `DevicePairingProofs` | its use of the queue and its safety, proved | `DevicePairing`, `SyncQueueProofs` |
| `MCDevicePairing` | instances for TLC | `DevicePairing` |
| `OrderCreation` | `createWithOutcome` in `orders/orders.service.ts` | -- |
| `OrderGate` | `createOnline` in `orders/orders.controller.ts`, `orders/public-order-gate.ts`, the capacity of `ordering/slots.service.ts` | `OrderCreation` |
| `OrderGateProofs` | the types and safety of the creation and of the route, proved | `OrderGate` |
| `OrderLifecycle` | `updateStatus`, `cancel`, `discount` in `orders/orders.service.ts`; `createIntent`, `resolveIntent`, `markPaidFromWebhook` in `ordering/payments.service.ts` | -- |
| `LoyaltyEarn` | `loyalty/loyalty-order-earn.processor.ts` and the earn of `loyalty-member.service.ts` | `OrderLifecycle` |
| `OrderProofs` | the types and safety of the order and of the outbox, proved | `LoyaltyEarn` |
| `Enrollment` | the enrolment and the life of a card in `loyalty-member.service.ts`, `loyalty-enrollment-expiry.processor.ts` | -- |
| `EnrollmentProofs` | its safety, proved | `Enrollment` |
| `KitchenBoard` | `apps/kds/src/useBoard.ts`, the merge of `client-core/types.ts` and `hooks.ts` | -- |
| `KitchenBoardProofs` | its safety, proved | `KitchenBoard` |
| `SocketSession` | `orders/orders.gateway.ts`, `common/session-access.ts`, `common/session-revocation.ts` | -- |
| `SocketSessionProofs` | its safety, proved | `SocketSession` |
| `Billing` | `crm/billing.service.ts` | -- |
| `BillingProofs` | its safety, proved | `Billing` |
| `MCOrderLifecycle`, `MCOrderGate`, `MCLoyaltyEarn`, `MCEnrollment`, `MCKitchenBoard`, `MCSocketSession`, `MCBilling` | instances for TLC | the module they name |

A definition introduced in a module by the word "Mutation" is a plausible mistake in the
definition that follows it. No specification uses it; it shows that a property depends on
the code it is about.

### SyncQueue

* `disk` is the document `PersistedQueueV2`; the array of entries is the set
  `disk.entries` plus `before`, which remembers what had been accepted when an entry was
  (the code appends and filters, and never reorders).
* `mem[t]` is the `SyncQueue` object of window `t`: `bound` is `boundScopeId`, `epoch`,
  `retired` and `purging` its copy of the document's, `clearing` the flag of that name,
  `closing` a `clear()` that has not read the document yet, `invalid` is
  `scopeInvalidated`, `shown` the refusals the screen displays.
* `flush[t]` is the pass of `runFlush`: `asked` (published by `flush()`), `pick`, `guard`
  (the durable scope is about to be read again), `wait` (request sent), and the outcomes
  gathered so far. `todo` is the photograph of the queue, `temp` the failed entries whose
  subject is blocked.
* `late` holds requests nobody waits for any more: the window was closed, its pass was
  detached by `flushGeneration`, or the answer was lost. They may reach the server at any
  later moment, or never.
* `applied`, `refused` are the server's side; `accepted`, `owner`, `acked`, `dropped` are
  history.

Each `withStoreLock` section is one step, since the lock serialises them; a request and
its answer are separate steps. A window may be closed, or killed, between any two steps.
A commit may fail (storage full). The server may refuse today what it accepts tomorrow and
the reverse, but always accepts again what it has applied (upsert on the client id, in
`orders.service.ts`).

The queue offers `bindScope` and `completeClear` at any moment (`Life`); it is the pairing above
it that calls them in order.

Assumptions: at most one pass per window; `requireScope` is true, as the till and the
kitchen build their queue; the one-time migration from the v1 keys and corrupted documents
are not modelled.

### DevicePairing

Adds `identity` (the stored device), `data` (pairings that still have business keys),
`app[t]` (where the application code of window `t` stands, with the identity it restores
or writes and the one it replaced), `token[t]` (the staff token) and `minted` (scopes
already drawn: `pair:<uuid>` never repeats). Each awaited storage operation is a step, so a
crash may fall between any two of them, inside the purge of the keys included.

Each of these operations may also be refused by the storage: the reading of the identity and
the bind's own access (`RestoreFails`), the intent's bind (`PairBind`), the tombstone
(`ClearFails`), the removal of the keys, some of which may be gone (`PurgeFails`), and the
read or the write of `completeClear()` (`CompleteFails`). All lead to the boot screen
(`Broken`) and its "Réessayer". What follows a refused `completeClear()` is skipped,
`setToken(null)` included; `kept` is the history of the windows where that happened while
they held a token, and the only exception of `SessionFollowsDevice`, see "Known" below.

Assumption: a storage event of another window is delivered before somebody has typed a
pairing code (`MayPair`).

The constant `WritesMayFail` says whether the storage may refuse the write of the identity that
follows a bind. The single-window safety run has it FALSE: with TRUE, `IntentCanResume` fails in
one window too (the confirming write of B fails after a durable bind, the user pairs again with
C, the power fails before the rollback), as it does with several windows, see "Known"; for the
same reason restoring is only shown to end with FALSE.

The kitchen screen runs the same protocol with an unprotected `clear()`; the queue is
checked that way (`RequireEmpty = FALSE`) in `queue_kitchen`.

### OrderCreation

* `orders` is the collection: client id, number, whether the promotion was granted. `used`
  is `usageCount` of the promotion, `seq` the counter of the day.
* `req[r]` is one call of `createWithOutcome`. Its steps are its calls to MongoDB: `LookUp`
  (the client id), `Price` (lines, then the offers), `Reserve` (`findOneAndUpdate` filtered
  on the uses left), `Number`, `Insert` and, when the order will not exist, `GiveBack`
  (`rendreReservation`) and `Refind` (the winner of a race). `held` is the use it has
  reserved.
* An insert may be refused by the unique index, fail, or be applied while its answer is lost
  (`InsertUnheard`): the handler cannot tell the last two apart and gives its use back. A
  request may stop at any step, a compensation may fail.
* `lost` and `regained` are history: uses that nobody gives back, uses given back although
  an order has them. They make the property of the count exact: no replay and no race eats
  the quota, and the offer is granted once too often only when an insert was applied and its
  answer lost.

Left out: the calculation of prices and offers, and the edition of the promotion by the
manager while orders come in.

### OrderLifecycle

* `order` is one document: status, payment, method, amount, intent, version. An order is
  created to be paid at the counter, as the routes force it; Stripe's confirmation makes
  `method` online.
* `req[r]` is one handler: `snap` is the document it has read, then it awaits Stripe
  (`stripe`), saves (`save`), and writes to the audit log (`audit`). `Save` goes through if
  the version is the one that was read (`optimisticConcurrency`), and writes the paths the
  handler has changed, computed from `snap`.
* `Webhook(i)` is one atomic update; it does not look at the version nor move it, as in the
  code. `stripe[i]` is the intent at Stripe, `shown` the intents handed to a customer;
  `gestures`, `confirmed`, `replayed` are history.

Left out: the amount of an intent; orders older than the connected accounts (an order has
an account exactly when it has an intent); the failure of the webhook's update, which
Stripe retries; a restaurant that changes its connected account, so that the filter of the webhook
on `payment.stripeAccountId` comes to `intent # None`.

### LoyaltyEarn

* `earn` is the state of the outbox on the order: `state` and the lease. `worker[w]` is a
  drain: what it has claimed and what the ledger answered. `ledger` counts the movements
  written for this order, and their amount.
* `Claim`, `Recover` (a lease that has run out), `CancelIneligible`, `Credit`, `Replay` (the
  idempotence key), `Refuse`, `Unavailable`, and `Mark`, which writes the outcome only if the
  lease is still the one the worker holds. `Credit` is one PostgreSQL transaction.
* `card` is the member's card, which the restaurant may bar (`Bar`: blocked; born barred when not
  handed over yet), admit again (`Admit`) or anonymise meanwhile. An unknown card, or a purchase
  that is not confirmed, is a refusal for good (`Refuse`); a barred or anonymised one is a
  conflict without a code, and the sale goes back to be tried again (`TurnAway`).
* The order goes on living: every step of `OrderLifecycle` may fall between two of these.

Assumptions: two workers never hold leases that end at the same instant (`Claim`); a retry
may come at any time, the delay before it is left out.

### OrderGate

* `ask[r]` is one call of `createOnline`, from its arrival to its answer; its steps are its
  awaits: the lookup, the capacity, Turnstile with the reservation of the quota, the lock, the
  lookup and the capacity again, `createWithOutcome` (the handler of `OrderCreation`, one step
  at a time), the release of the lock, the release of the reservation.
* `spelling[r]` is how the body writes the instant of the slot: the schema takes it with or
  without seconds and milliseconds. The capacity is that of the instant; the Redis key of the lock
  is made of the spelling, so `lock` has one owner per spelling. `LockRunsOut` may come at any
  moment, and `overran` remembers whose. `quota` is the reservations in the windows, `leaked`
  those that a stop or a lost answer left to the windows to forget.
* A reading of MongoDB may fail: before the lock, the request ends; under it, the work throws,
  and lock and reservation are given back.
* The counter sells for the slot without the gate, and an order may be cancelled.

Left out: the three windows of the quota are one; all requests ask about one instant; the list of
slots offered to the customer.

### KitchenBoard

* `status` is the server, `outbox` the queue with its order per ticket, `screen` the state of
  the hook (`board`, the tickets `hidden` as delivered), `disk` the two keys of the tablet.
* A poll is three requests (`ReadList`), each at its own moment; `PollDone` applies the updater to
  the board of that moment. A list has the 200 newest orders of its status (`ORDERS_PAGE_MAX`):
  `beyond` is the tickets that newer ones push out of it (`Crowded`, `Thinned`), in no list while
  it lasts. The board does not look at `truncated`. `Tap` records the PATCH, `TapShown` moves the
  ticket afterwards.
* A tablet may be switched off at any time; `Open` and `Hydrate` are the restart.

Left out: a change of establishment during a poll (the scope is compared before anything is
applied) and the display.

### SocketSession

* `allowed` is the documents of the database that still allow their session, `news` the
  revocations published and not heard (a lost one leaves it without being heard), `expired`
  the sessions past their `exp`.
* `check[s][k]` is how far the check `k` of socket `s` is: at its connection, in the sweep, or
  for an event. A check reads the restaurant, then the session's own documents, then looks at
  the session again. `socks[s]` is the socket, `sent` who received what.
* `heard`, `late`, `cause` are history: revocations heard, events that came after a
  revocation, sockets with a reason to be cut.

Simplifications: the adapter is the in-memory one, so `join` is immediate and a socket that was
cut has left its room; the documents of a session (account or staff member, tablet) are one, lost
for ever; the reading follows the order of a staff session (an account's reads its own document
first, and a platform administrator has no restaurant to read); the `generation` of a session
changes only with its validity. The anonymous follow-up of one order has no session and is not
modelled. A session with nothing left of its life is cut by `scheduleExpiry` while it is let in,
before the join that follows: this is `Expire` then a refused admission, since a socket that was
cut joins nothing.

### Enrollment

* `op[o]` is the operation a till has prepared, `member[o]` the card that came of it (status,
  phone, `gen` and `tokens` of its QR, `handed` when it was acknowledged), `late` the
  operations whose window of remittance has passed.
* `call[c]` is a request of creation: it locks its operation and looks the phone up
  (`CallLooks`), then locks the operation of the old card it has found and writes
  (`CallCreates`), is refused by the unique index (`CallRefused`), or dies. `CallRejects` is the
  second transaction that closes the operation of a refusal.
* The sweep looks (`SweepLooks`), then locks what it has found, or skips it (`SweepEnds`).
* Every request may be repeated, which is what a lost answer comes to.

Left out: the fingerprints of the owner (another till is refused before anything else), the
consents, the events and the journal, which follow the member in its transaction.

### Billing

* `invoices` is the collection, `seq` the counter of the year; `gesture[g]` one request of the
  team: it reads the invoice, refuses, then writes, numbers, inserts and tells the journal, one
  await at a time. The insert may be refused by the index, fail, or be applied while its answer
  is lost; the compensation may fail; a server may stop.
* `holes`, `untold`, `unheard` are history: numbers lost, pieces whose gesture never reached
  the journal, pieces whose number was given back.

One customer, one month and one year; the journal is followed for new pieces only. The monthly
issue for all customers and the amounts are left out.

## 4. Runs

Properties that are read together are one named conjunction: `DocumentSound`, `PiecesAgree`,
`OrderSound`, `OnlyForward`, `SlotKept`, `OrdersAreOnce`, `OfferKept`, `LedgerIsRight`,
`CardIsUnique`, `BoardIsHonest`, `RoomSound`, `NumberingSound`. Each part has its own definition,
comment and mutation; the type invariant of a module is one of the parts.

| run | instance | shows |
|---|---|---|
| `queue_till` | 2 windows, 2 pairings, 2 mutations of one order | `NoSaleLost`, `OrderPerSubject`, `DocumentSound` (types, readable, of its pairing), `RetiredForGood`, and that the queue implements `SaleOutbox` |
| `queue_kitchen` | 1 window, 2 pairings, 2 mutations of one order, kitchen's `clear()`, fairness | `EventuallySettled` through blocking, refusals and crashes |
| `pairing_one` | 1 window, 3 pairings, 1 sale, a storage that refuses, fairness | `PiecesAgree` (`PowerCutRecovers`, `PurgeAcknowledged`, `ScopeKeepsIdentity`, `IntentCanResume`), `SessionFollowsDevice`, `NoLeakAcrossPairings`, `EventuallyRestored` |
| `pairing_two` | 2 windows, 2 pairings, 1 sale, a storage that refuses any write | `NoCrossTenantSend` |
| `order` | 3 handlers, 2 intents, fairness | `OrderSound` (`DeliveredIsPaid`), `TracesAreTrue`, `OnlyForward` (`ClosedStaysClosed`, `StatusAdvances`), `EventuallyConfirmed` |
| `gate` | 2 online requests, 2 client ids, a slot of one place spelt in 2 ways, a quota of one, a promotion with one use, a sale at the counter | `SlotKept` (`OneInside`, `PlacesKept`), `QuotaCounts`, `OrdersAreOnce` (`AnswersAgree`, `NumbersDiffer`), `OfferKept` (`UsesAreExact`, `QuotaKept`) |
| `loyalty` | 2 workers, 2 leases, 2 handlers of the order, a card barred and admitted, fairness | `LedgerIsRight` (`CreditedOnce`, `CreditMatchesSale`), `StateIsTrue`, `DecidedForGood`, `EventuallyDecided` |
| `enrollment` | 2 operations, 1 phone, 2 requests, 2 QR codes, fairness | `ClosedIsClean`, `GivenIsKept`, `CardIsUnique` (`PhoneIsOnce`, `OneToken`), `ClosedForGood`, `UnhandedExpires` |
| `board` | 1 ticket, in and out of its capped list, 1 poll at a time, 2 taps, fairness | `BoardIsHonest` (`GoneIsRecorded`, `AheadIsQueued`), `NeverBack`, `EventuallyAgrees` |
| `socket` | 1 socket, a neighbour's session, the restaurant, 2 events, fairness | `RoomSound` (`RoomIsCurrent`), `NothingLate`, `NothingAfterHearing`, `CutForCause`, `RevokedIsClosed` |
| `billing` | 4 gestures, 3 at once | `NumberingSound` (`NumbersDiffer`, `HolesAreKnown`, `CounterIsAhead`), `CreditsCorrectPayments`, `PiecesAreTold` |
| `billed_once` | 4 gestures, one at a time | a violation, see below |

**Bounds.** There is no bound on counters in the queue: every epoch consumes a pairing, which is
never bound twice, so the number of `Scopes` bounds it. Two windows are enough for one to act
between any two steps of the other, which is what every interleaving hazard needs; two mutations
of one subject are enough to invert them, and a pass over two entries has a first, a last and a
blocked one; two pairings are enough for something of the first to be seen under the second, a
third for what an unfinished second does to the next, and the proofs are for any number of them.
On the server, a request runs once, so their number bounds the counters, the versions and the
numbers: two requests race on one client id, on the last use, the last place, or the lock, which
two spellings make two; three handlers are a status, a cancellation and a discount; two intents
are one that is charged and one that replaces it; two workers and two leases are a late one and
its successor. Two operations of one phone are a card and the one that takes its phone, and
`MaxGen = 2` is an initial QR and its replacement. One socket is enough for its own session, since
nothing of one socket is read for another; the neighbour and the restaurant are the other two
scopes of a revocation, and of two events one is relayed before it and one after. Four gestures
are an issue, a payment or a cancellation, and two credit notes or a second issue. `MaxCounter`
and `MaxTaps` bound the counter's sales and the taps. Two overlapping polls of the board are too
many for its liveness property within a run; without it, `BoardSpec` with two polls and one tap
keeps `BoardIsHonest` and `NeverBack` over its 2.3 million states (up to symmetry). Symmetry is used where only
safety is checked, over what nothing else distinguishes (`queue_till`, `pairing_two`, `gate`,
`billing`).

**Deadlock** is checked for the queue and the pairing: a window can always be closed or
opened. It is checked for the board, the gateway and the enrolments, where something may
always come. It is not for the other server's modules (`CHECK_DEADLOCK FALSE`): there every request
runs once, and all of them end.

**Fairness.** `PassRuns`: the timer of `useAutoSync` fires, and a promise that waits for the lock
resolves (weak fairness on each step of the pass). `GoodEnough` is about the shop: the server
answers infinitely often if asked infinitely often, a readable answer is not lost every time, a
commit that has something to record is not refused by a full storage every time (strong fairness),
and one window ends up staying open and paired. No fairness is assumed of people, of a server
refusing, or of windows closing. `FairPairingSpec`: the restoring code runs to its end, the user
presses "Réessayer", and the write that lifts the pending mark is not refused for ever.
`FairOrderSpec`: Stripe delivers an event again until it is answered. `FairLoyaltySpec`: every
server drains every five seconds (`setInterval`), so a due order is claimed and a lease that has
run out is recovered; a call that was made ends; and the databases answer (with an active
programme), and the outcome is marked, within the lease now and then (strong fairness); a member's
card that is barred for ever, or anonymised, is outside the property (`CardServes`), since the
code tries such a sale for ever. `FairEnrollmentSpec`: the sweep runs every five minutes, reads to
its end, and a call that was made ends. `FairSocketSpec`: the sweep fires every thirty seconds and
its readings end, with an answer or an error. `FairBoardSpec`: the polling interval fires, a
request ends, a poll does not fail for ever, the queue sends, and the tablet ends up staying on;
the property is about what follows the rush (`RushEnds`: no ticket enters or leaves a capped list
any more).

### Findings

`billed_once`: a subscription is issued for a month, cancelled, and issued again. `issue` looks
for the twin with `findOne({ tenantId, kind, 'period.start' })`, which gives the first of the
two, the cancelled one, and lets a third go through: two live subscriptions for one month. The
comment of `billing.service.ts` (lines 427-428) says "un client ne peut pas recevoir deux
abonnements pour le même mois". One gesture at a time is enough.

### Known, without a run of their own

Stated in the modules and broken there (adding the name to the configuration of the module
shows it):

* `PurgeAcknowledged` with two windows: a window whose tombstone another has lifted writes its
  own `purgePending = true` with the next pairing, whose every later start is refused
  (`sync-queue.ts:562`, `:657`, against the field's comment, lines 115-117).
* `ScopeKeepsIdentity` with two windows: a window that resumes an interrupted unpairing purges
  the identity another has just written (`client.ts:232`, against `client.ts:334-335`).
  `IntentCanResume` and `SessionFollowsDevice` fail in the same way (a window overwrites the
  identity of a pairing made elsewhere before its own bind is refused; a window whose unpairing
  ends in an exception keeps the staff token). They are checked with one window.
* `NoLeakAcrossPairings` with two windows and three pairings: a window stands
  between its purge and `completeClear()` while the other pairs B, works and unpairs it; the
  first then lifts the tombstone of B, whose keys are still there, and C is paired over them. The
  comment of `completeClear` (`sync-queue.ts:1106-1108`) says "Le petit intervalle entre les deux
  reste sûr : tout appairage frais y est refusé"; it is true of one tombstone, but the call does
  not say which one it acknowledges.
* `SessionFollowsDevice` without its exception, in one window: `completeClear()` fails once the
  keys are gone (`sync-queue.ts:1110-1120`), so `setToken(null)` (`client.ts:403`) is skipped, and
  the screen of the error keeps the session. "Réessayer" finds no identity, hence no unpairing to
  finish (`client.ts:251-256`), and the next establishment is paired with the staff token of the
  one before, against `client.ts:357-358` ("La session de l'équipier part avec"). `kept` marks
  these windows.
* `PlacesKept` without its spellings: the lock is named after the raw `input.slot`
  (`public-order-gate.ts:136`), which the schema lets be written in several ways
  (`contracts/src/index.ts:450`), while the capacity is that of the instant
  (`slots.service.ts:202-216`). Two requests that spell one instant differently are under two
  locks, and each may sell the last place. The comment of `serializeSlot` says a lock per
  restaurant and slot; the one of `exigerDisponible` (`slots.service.ts:194-199`) says itself that
  the race on the last place is not closed there.
* `EventuallyDecided` without `CardServes`: a blocked, unacknowledged or anonymised card is refused by
  `assertActiveMember` with a conflict without a code (`loyalty-member.service.ts:590-594`), which
  `permanentFailure` (`loyalty-order-earn.processor.ts:86-96`) does not take for final: the sale of
  an anonymised member is tried again for ever.
* `ReplayIsReplay` (`OrderLifecycle`): a confirmation that finds the order paid is answered as a
  replay, also when it is the first of its charge, the order having been settled at its delivery
  or by another intent; that money is then on no document (`payments.service.ts:447`).
* `PaidNamesCharge` (`OrderLifecycle`): the confirmation does not move the version, so a
  `createIntent` that has read the order before saves its own intent over the one that was
  charged (`payments.service.ts:244`, against `schemas.ts:754-756`).
* `TicketStays` (`KitchenBoard`): a poll is three requests; a ticket that moves from a list not
  yet read to one already read is in none, and leaves the board until the next poll. The header
  of `useBoard.ts` (lines 31-32) takes such a ticket for served or cancelled. It is also broken by
  the cap of the lists: beyond the 200 newest orders of a status (`orders.service.ts:62-68`) the oldest
  tickets, those the kitchen should serve first, leave the board and do not come back while it lasts;
  the answer says `truncated`, which `useBoard.ts:147-172` ignores, against the warning of
  `orders.controller.ts:83-86`. `EventuallyAgrees` says so of the tickets in `beyond`.
* A paid invoice that is never cancelled (`billing.service.ts:118-119`, "une facture réglée ne
  s'annule pas du tout", and line 681), with two gestures at once: `cancel` and `pay` read the
  invoice, then write by id alone; the last one wins, and an invoice whose payment was recorded
  ends cancelled. `CreditsCorrectPayments` speaks of payments that happened (`settled`), and holds
  all the same.

Seen while modelling, on which the code makes no promise:

* A refused PATCH leaves the board ahead of the server until the ticket is closed
  (`AheadIsQueued` and `EventuallyAgrees` make the exception). `Hydrate` replaces the delivered
  tickets of a poll that was faster than the tablet's storage.
* The domain's `mostAdvanced` (`order-status.ts:83`) and the client's disagree on an order
  cancelled then delivered; no application calls the former on such a pair.
* Two credit notes may correct one invoice. An insert that was applied and whose
  answer was lost gives its number back, and the next issues fail on the index, each giving its
  number back in turn.
* A creation that waited for the lock of an old card closed meanwhile is answered "gone", and
  its own operation is rejected.
* The header of `sync-queue.ts` (lines 19-21) says that an entry that fails holds back the
  ones that follow on its subject; the code does so for temporary failures only. After a
  definitive refusal of a creation the change of status is sent in the same pass. It is
  harmless to the order: the server has ruled on the creation.
* A stop between the save and `audit.log` leaves a gesture without its trace;
  `TracesAreTrue` and `PiecesAreTold` allow exactly that.
* A ticket credited through the direct earn route under another operation would make the
  outbox try for ever, and a slow worker of an expired lease may credit a sale that its successor
  has marked failed; no application calls that route, and no document says what
  the outcome must be.
* A holder of the slot's lock slower than fifteen seconds, and the counter, may sell beyond the
  capacity; `PlacesKept` counts the others, by spelling.

## 5. Proofs

`SyncQueueProofs` proves, for any number of windows, pairings, entries and subjects:

* `TypeCorrect`: `Spec => []TypeOK`. `TypeOK` is not inductive: an answer is recorded for
  `flush[t].cur`, which has to be an entry while the window waits. The invariant that is
  proved is `IndType == TypeOK /\ CurIsEntry`. One lemma per action, over small lemmas that
  say what replacing one window's record keeps.

The safety of the queue follows from an inductive invariant in two layers.

`DocumentInv` is about the durable document and the windows' copies of it:

* `MatterBelongsToScope` needs `UnboundIsEmpty` (a bind does not look at what the document
  holds: it relies on a document without a scope being empty) and `MatterWasAccepted`;
* `RetiredWithEpoch` is what makes `clear()` right. It computes the new retired list from
  the window's *memory* (`runClear`), and the write goes through only if the document still
  has the epoch the window knows: the copy of the list has to move with the epoch.

`DeliveryInv` adds what is in flight:

* `PassesInOrder` says of every pass that what it has still to send, is sending or holds
  undecided was accepted, and that everything before it on its subject has a verdict, is
  held by the pass as a temporary failure (and then nothing of the subject is sent), or is
  still to be sent by the same pass. It is the order `OrderPerSubject` needs;
* `SentInOrder` says it of requests that have already left: those still travelling
  (`late`) may arrive at any time;
* `Accounted` says that what the server refused is still in the queue, among the refusals,
  or acknowledged; with it go `SnapshotReadable` and `NoSaleLost`.

Both are kept by every step, by one lemma per action or group of actions, over
`NextGrows`: the history (`accepted`, `applied`, `refused`, `dropped`) only grows, so a
verdict once given holds for every pass that relies on it. From them follow:

| theorem | says |
|---|---|
| `MatterStaysWithItsScope` | `Spec => []MatterBelongsToScope` |
| `RetiredStaysRetired` | `Spec => RetiredForGood` |
| `NothingLost` | `Spec => []NoSaleLost` |
| `SubjectsStayInOrder` | `Spec => []OrderPerSubject` |
| `DocumentStaysReadable` | `Spec => []SnapshotReadable` |
| `NothingLeavesUndecided` | `Spec => LeavesOnVerdict` (in the runs it is covered by `ImplementsOutbox`) |
| `DocumentAlwaysSound` | `Spec => []DocumentSound`, with `TypeCorrect` |
| `QueueImplementsOutbox` | `Spec => ImplementsOutbox`, the refinement of `SaleOutbox` |

Assumption: `SyncQueueAssumption` only (`None` is neither a pairing nor an entry).

`DevicePairingProofs` proves the safety of the pairing. For any number of windows and pairings,
with or without storage failures at any step:

* every step of the pairing is a step of the queue or leaves it alone (`PairingQueueStep`), so that
  the invariant of the queue, and all that follows from it, is the till's;
* `PassesOn` and `PassesOwned` give `NoCrossTenantSend`: a pass runs only in a window that is on, for
  the device it adopted, and what it has still to send was entered under the scope the window is
  bound to. They rest on `MatterBelongsToScope` when the pass photographs the queue.

For one window (`SingleWindow`), any number of pairings and a storage that may refuse anything:

* `DataInv` gives `NoLeakAcrossPairings`. The property alone is not inductive: nothing would stop a
  bind from finding the keys of the pairing before. They can be there only under the tombstone
  (`purging`), which no bind gets past; and the window, when it is about to lift the tombstone, has
  no key behind it. With two windows this second part does not hold, see "Known".

For one window whose storage takes the write that follows a bind (`Alone`, the instance of
`pairing_one`; the properties fail otherwise, see "Known"), and any number of pairings:

* `PiecesInv` says that document and identity agree at every step: the identity is that of the
  bound scope, or of a retired one. `PowerCutRecovers` asks it only of a power cut, which is not
  inductive. `Stands(t)` says what the window has done to them at each point of its code,
  `ScopesMinted` that a scope just drawn was never retired (so that a fresh bind is refused by the
  storage only), `SessionKept(t)` whose session the window holds, unless it is `kept`.

| theorem | says |
|---|---|
| `PairingTypeCorrect`, `PairingUsesQueue` | `PairingSpec => []PairingTypeOK`, `PairingSpec => Spec` |
| `TillLosesNothing` | what was proved of the queue holds of the till |
| `WindowLeaksNothing` | `SingleWindow => (PairingSpec => []NoLeakAcrossPairings)` |
| `NothingSentAcross` | `PairingSpec => NoCrossTenantSend` |
| `SessionLeavesWithDevice` | `Alone => (PairingSpec => []SessionFollowsDevice)` |
| `PiecesAlwaysAgree` | `Alone => (PairingSpec => []PiecesAgree)` |
| `AloneSendsForOwner` | with one window, the exception of `NoCrossTenantSend` is left only to a window that is `kept` |

Assumption: `DevicePairingAssumption` (`None` is not an identity), beside the queue's.

`OrderProofs`, for the order, for any number of handlers and intents and any amounts. What has to
be explained is why a save is right when it goes through, since its handler decided on an
older reading. `OrderIInv` adds to the types and to `DeliveredIsPaid`:

* `SnapHolds(r)`: while the version has not moved, the status is the one the handler has
  read, and the payment either is or was still pending when it was read: the confirmation
  is the only step that changes the document and not the version;
* `Legal(r)`: what a handler is about to save was allowed by what it has read.

`SaveEffect` draws from these what a save does to the order that is there (a closed order
keeps its status and amount, a payment stays, the status advances).

| theorem | says |
|---|---|
| `OrderTypeCorrect` | `OrderSpec => []OrderTypeOK` |
| `DeliveredWasPaid` | `OrderSpec => []DeliveredIsPaid` |
| `ClosedForGood` | `OrderSpec => ClosedStaysClosed` |
| `StatusOnlyAdvances` | `OrderSpec => StatusAdvances` |
| `TracesTellTheTruth` | `OrderSpec => []TracesAreTrue` |
| `OrderAlwaysSound`, `AlwaysForward` | `OrderSpec => []OrderSound`, `OrderSpec => OnlyForward` |

Assumption: `OrderAssumption` (amounts are naturals, `None` is not an intent).

The same module, for the outbox, with any number of workers, leases and handlers, takes `OrderIInv` for
the order and adds `WorkerInv`: a worker that was told of a credit was told the truth, and a
sale is given up as cancelled only when it is. `CreditMatchesSale` rests on
`ClosedStaysClosed`: the amount read at the claim is the one of a delivered order, which
nobody can change any more, however late the worker.

| theorem | says |
|---|---|
| `NeverCreditedTwice` | `LoyaltySpec => []CreditedOnce` |
| `CreditIsTheSale` | `LoyaltySpec => []CreditMatchesSale` |
| `StateNeverLies` | `LoyaltySpec => []StateIsTrue` |
| `DecidedOnce` | `LoyaltySpec => DecidedForGood` |
| `LedgerAlwaysRight` | `LoyaltySpec => []LedgerIsRight` |

Assumptions: `OrderAssumption` and `LoyaltyAssumption` (`None` is not a lease).

`OrderGateProofs`, for the creation, with any number of requests, client ids and uses, in two layers.
`NumberInv` says of each request what it has drawn and was answered at each of its steps, that a
number drawn is drawn once (`DrawnOnce`), and that every order's number was drawn
(`OrdersDrawn`): neither `AnswersAgree` nor `NumbersDiffer` is inductive without where the
requests stand. `UseInv` adds the count: `UsesAreExact` is an equation between cardinalities, and
`QuotaKept` needs `Paying`, the requests whose order was written and who are about to give its use
back all the same; `regained` counts those that have.

| theorem | says |
|---|---|
| `CreationTyped`, `AnswersAlwaysAgree`, `NumbersAlwaysDiffer`, `OrdersAlwaysOnce` | `CreationSpec => []OrdersAreOnce`, part by part |
| `UsesAlwaysExact`, `QuotaAlwaysKept`, `OfferAlwaysKept` | `CreationSpec => []OfferKept`, part by part |

The same module, for the route, with any capacity and quota. `GateInv` takes `UseInv` for the
creation below and adds: those who have written in time, and those about to, fit in the places of
their spellings (`PlacesInv`: a request that has read a free place adds one order at most,
`OneInside` keeps out those that spell the slot as it does, each of the others has a place of its
own, and a cancellation only frees places); a reservation stands for every request that would give
it back (`ReservationsInv`). The orders written in time are counted by an injection into the
orders of the slot.

| theorem | says |
|---|---|
| `GateTyped`, `AlwaysOneInside`, `PlacesAlwaysKept`, `SlotAlwaysKept` | `GateSpec => []SlotKept`, part by part |
| `QuotaAlwaysCounts` | `GateSpec => []QuotaCounts` |
| `GateCreatesWell` | what was proved of the creation holds of the route |

`EnrollmentProofs`, for any number of operations, requests and phones. `EnrollmentInv` adds to the
invariants `CallInv`: a request under way holds its operation alone, which is what the lock is
for. `ClosedIsClean` and `GivenIsKept` then hold because the operation of a card is looked at again
under its lock (`Spared`, `Closable`), however old the look that found it.

| theorem | says |
|---|---|
| `ClosedAlwaysClean`, `GivenAlwaysKept` | `EnrollmentSpec => []ClosedIsClean`, `[]GivenIsKept` |
| `EnrollmentTyped`, `PhoneAlwaysOnce`, `AlwaysOneToken`, `CardAlwaysUnique` | `EnrollmentSpec => []CardIsUnique`, part by part |
| `AlwaysClosedForGood` | `EnrollmentSpec => ClosedForGood` |

`SocketSessionProofs`, for any number of sockets, neighbours and events. `SocketInv` says per
socket that a connected one has a valid session and one in the room a timer (`LineInv`), that
whatever may cut it is a cause (`CauseInv`), that an event relayed after its revocation has not
passed its check (`LateInv`: the check reads the documents after the event came), and that once
its revocation was heard it is cut, or connecting in vain (`HeardInv`).

| theorem | says |
|---|---|
| `SocketTyped`, `RoomAlwaysCurrent`, `RoomAlwaysSound` | `SocketSpec => []RoomSound`, part by part |
| `NeverLate` | `SocketSpec => []NothingLate` |
| `NeverAfterHearing`, `AlwaysCutForCause` | `SocketSpec => NothingAfterHearing`, `SocketSpec => CutForCause` |

`KitchenBoardProofs`, for any number of tickets, overlapping polls and taps. `BoardIsHonest` is not
inductive: a list read by a poll, a tap not yet shown and the photo on the tablet reach the board
later. `BoardIInv` says of all of them, as of the board, that they are known (`Known`: the
server has gone as far, was told to by the queue, or refused), and that a ticket hidden, on the
screen or on the tablet, has its delivery recorded (`DeliveryKept`). What is known stays known, since
the server never goes back and the queue drops a gesture only on an answer. The lemmas on the
merge say that it shows nothing it was not given and never less than what was shown.

| theorem | says |
|---|---|
| `BoardAlwaysHonest` | `BoardSpec => []BoardIsHonest` |
| `BoardNeverBack` | `BoardSpec => NeverBack` |

`BillingProofs`, for any number of gestures, at once or not. `NumberInv` adds to `NumberingSound`
what the gestures hold: no two hold the same number (`HeldOnce`) and the counter has passed each
of them (`HeldBelow`), which is why the compensation, that only moves a counter still showing its
own number, never takes back somebody else's; a number both held and borne was lost with an answer
(`HeldIsFree`). The proof led to a sharper `CounterIsAhead`: the counter is behind a piece only if
the answer to that very piece was lost. `PieceInv` says what a gesture that has read its invoice
may still count on when it writes: `PaidIsSettled` and `CreditsPaid` rest on `settled`, the payment
that once happened, and not on a status that another gesture may have moved since.

| theorem | says |
|---|---|
| `NumberingAlwaysSound` | `BillingSpec => []NumberingSound` |
| `CreditsAlwaysCorrect` | `BillingSpec => []CreditsCorrectPayments` |
| `PiecesAlwaysTold` | `BillingSpec => []PiecesAreTold` |

Assumptions: `CreationAssumption`, `GateAssumption`, `EnrollmentAssumption`, `SocketAssumption`,
`BoardAssumption`, `BillingAssumption`: the sets of requests are finite, the bounds naturals, and `None`
or `Tenant` none of the values it stands beside.

Only model-checked: the liveness properties (`EventuallySettled`, `EventuallyRestored`,
`EventuallyConfirmed`, `EventuallyDecided`, `UnhandedExpires`, `EventuallyAgrees`, `RevokedIsClosed`),
which rest on fairness and are out of the prover's reach. With several windows, the pieces of
`PiecesAgree` and `SessionFollowsDevice` do not hold, and nothing is claimed of them.

## 6. Not modelled

* Calculations: prices, promotions, margins, statistics, planning, and the rules of the domain library:
  their results are inputs of the models.
* Sequential edition of one document: menu, supply, CRM, quotations, screens, sites.
* Authentication: what is checked of a token is an input; its revocation is modelled in the
  gateway and on the till.
* Rendering: the web fronts, the screens, the marketing pages.
* Outside services: Stripe, Turnstile, registrars, mail: only their answers, errors and
  repetitions, where a module meets them.
* In modelled components: the migration of the queue's v1 keys, the read cache, redemptions and
  corrections of the ledger, the monthly issue of invoices, the onboarding of the connected account.
