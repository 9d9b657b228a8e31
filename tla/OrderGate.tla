------------------------------ MODULE OrderGate ------------------------------
(***************************************************************************)
(* The public order route (orders.controller.ts, createOnline), its gate   *)
(* (public-order-gate.ts) and the capacity of a pickup slot                *)
(* (slots.service.ts, exigerDisponible), above the creation of orders.     *)
(*                                                                         *)
(* A request looks its client id up, checks the slot, proves it is human   *)
(* and reserves a place in the quota, takes the lock of the slot, looks    *)
(* and checks again, creates the order, then lets the lock go.  The lock   *)
(* runs out after fifteen seconds whatever its holder is doing.  The       *)
(* counter sells for the same slot without asking anyone.                  *)
(*                                                                         *)
(* The lock is named after the slot as the body spells it, and the         *)
(* capacity is read for the instant it means.  An instant has several      *)
(* spellings (with or without seconds or milliseconds: z.iso.datetime),    *)
(* hence several locks for the one slot of the model.                      *)
(***************************************************************************)
EXTENDS OrderCreation

CONSTANTS Capacity,   \* slotCapacity: orders the kitchen takes for the slot
          Quota,      \* online orders admitted in the window
          Spellings,  \* the ways a body may write the instant of the slot
          MaxCounter  \* bound on the orders of the counter

ASSUME GateAssumption ==
    /\ Capacity \in Nat \ {0} /\ Quota \in Nat \ {0} /\ MaxCounter \in Nat
    /\ None \notin Requests /\ IsFiniteSet(Spellings)

VARIABLES ask,        \* each request: where it stands on the route
          spelling,   \* how each request writes the slot
          lock,       \* Redis: the owner of the lock of each spelling
          quota,      \* Redis: the reservations in the sliding windows
          counter,    \* orders of the counter for the slot
          cancelled,  \* online orders cancelled since: they give their place back
          overran,    \* requests whose lock ran out before their order (history)
          leaked      \* reservations nobody will give back (history)

slotVars == <<counter, cancelled>>
routeVars == <<ask, spelling, lock, quota, slotVars, overran, leaked>>
gateVars == <<creationVars, routeVars>>

-----------------------------------------------------------------------------

GateInit ==
    /\ CreationInit
    /\ ask = [r \in Requests |-> [pc |-> "out", client |-> None]]
    /\ spelling \in [Requests -> Spellings]
    /\ lock = [s \in Spellings |-> None]
    /\ quota = {} /\ counter = 0 /\ cancelled = {} /\ overran = {} /\ leaked = {}

Goes(r, pc) == ask' = [ask EXCEPT ![r].pc = pc]

\* compute: a cancelled order frees its place (countPerSlot).
SlotOpen == Cardinality(orders \ cancelled) + counter < Capacity

\* Mutation: the order of another request is answered as created by this one.
AnswersKnownAsOwn(r, c) ==
    \E o \in OrdersOf(c) :
        /\ answer' = [answer EXCEPT ![r] = [number |-> o.number, created |-> TRUE]]
        /\ req' = [req EXCEPT ![r].pc = "done", ![r].client = c]
        /\ UNCHANGED <<orders, used, seq, drift>>

\* The answer is an order of the same client id (findByClientId): what
\* createWithOutcome would have answered first.
AnswersKnown(r, c) == OrdersOf(c) # {} /\ LookUp(r, c, FALSE)

\* createOnline: the replay of a request whose answer was lost; a new one; a
\* reading that fails.
Arrive(r, c) ==
    /\ ask[r].pc = "out"
    /\ \/ AnswersKnown(r, c) /\ ask' = [ask EXCEPT ![r] = [pc |-> "done", client |-> c]]
       \/ /\ OrdersOf(c) = {}
          /\ ask' = [ask EXCEPT ![r] = [pc |-> "check", client |-> c]]
          /\ UNCHANGED creationVars
       \/ ask' = [ask EXCEPT ![r] = [pc |-> "done", client |-> c]] /\ UNCHANGED creationVars
    /\ UNCHANGED <<lock, quota, slotVars, overran, leaked>>

\* exigerDisponible, outside any lock: a place is left; or the slot is refused,
\* or the reading fails.
Check(r) ==
    /\ ask[r].pc = "check"
    /\ (SlotOpen /\ Goes(r, "authorize")) \/ Goes(r, "done")
    /\ UNCHANGED <<creationVars, lock, quota, slotVars, overran, leaked>>

\* Mutation: the windows are counted, and the reservation does not wait for it.
AdmittedAlways == TRUE

Admitted == Cardinality(quota) < Quota

\* authorize: Turnstile, then the script that counts and reserves in one
\* command.  A refusal reserves nothing; an answer that is lost does.
Authorize(r) ==
    /\ ask[r].pc = "authorize"
    /\ \/ /\ Admitted
          /\ quota' = quota \cup {r}
          /\ \/ Goes(r, "lock") /\ UNCHANGED leaked
             \/ Goes(r, "done") /\ leaked' = leaked \cup {r}
       \/ Goes(r, "done") /\ UNCHANGED <<quota, leaked>>
    /\ UNCHANGED <<creationVars, lock, slotVars, overran>>

-----------------------------------------------------------------------------
(* serializeSlot.                                                          *)

\* Mutation: SET without NX.
LockFreeAlways(r) == TRUE

LockFree(r) == lock[spelling[r]] = None

SetsLock(r) == lock' = [lock EXCEPT ![spelling[r]] = r]

\* SET NX PX, on the key made of the slot as the body spells it: taken; or taken
\* and the answer lost; or given up, at the fourth second or on an error of Redis.
TakeLock(r) ==
    /\ ask[r].pc = "lock"
    /\ \/ LockFree(r) /\ SetsLock(r) /\ (Goes(r, "again") \/ Goes(r, "release"))
       \/ Goes(r, "release") /\ UNCHANGED lock
    /\ UNCHANGED <<creationVars, quota, slotVars, overran, leaked>>

\* Under the lock: another replica may have answered the same client id.  The
\* reading may fail, and the work throws.
LookAgain(r) ==
    /\ ask[r].pc = "again"
    /\ \/ AnswersKnown(r, ask[r].client) /\ Goes(r, "giveUp")
       \/ /\ OrdersOf(ask[r].client) = {}
          /\ Goes(r, "recheck") /\ UNCHANGED creationVars
       \/ Goes(r, "throw") /\ UNCHANGED creationVars
    /\ UNCHANGED <<lock, quota, slotVars, overran, leaked>>

\* Mutation: the reading made before Turnstile is enough.
RecheckNever(r) ==
    /\ ask[r].pc = "recheck" /\ Goes(r, "create")
    /\ UNCHANGED <<creationVars, lock, quota, slotVars, overran, leaked>>

\* The second reading of the capacity: of the instant, whatever its spelling.
Recheck(r) ==
    /\ ask[r].pc = "recheck"
    /\ (SlotOpen /\ Goes(r, "create")) \/ Goes(r, "throw")
    /\ UNCHANGED <<creationVars, lock, quota, slotVars, overran, leaked>>

\* createWithOutcome, on the client id of the body.
Create(r) ==
    /\ ask[r].pc = "create" /\ Handler(r)
    /\ req'[r].client = ask[r].client
    /\ UNCHANGED routeVars

\* Its outcome: created, an order that was there, or an exception.
Created(r) ==
    /\ ask[r].pc = "create" /\ req[r].pc = "done"
    /\ Goes(r, CASE answer[r].created -> "unlock"
                 [] answer[r].number = 0 -> "throw"
                 [] OTHER -> "giveUp")
    /\ UNCHANGED <<creationVars, lock, quota, slotVars, overran, leaked>>

\* Mutation: the lock is deleted without a look at its owner.
UnlockedBlindly(r) == [lock EXCEPT ![spelling[r]] = None]

\* RELEASE_LOCK compares the owner before it deletes.
Unlocked(r) == IF lock[spelling[r]] = r THEN [lock EXCEPT ![spelling[r]] = None] ELSE lock

\* finally: the lock is let go, or its time will free it.
Unlock(r) ==
    /\ ask[r].pc \in {"unlock", "throw"}
    /\ lock' \in {Unlocked(r), lock}
    /\ Goes(r, IF ask[r].pc = "throw" THEN "release" ELSE "done")
    /\ UNCHANGED <<creationVars, quota, slotVars, overran, leaked>>

-----------------------------------------------------------------------------

\* Mutation: the reservation stays when the request created nothing.
GivenUpNever(r) == quota

GivenUp(r) == quota \ {r}

\* release: the order will not exist, or is another request's.  Its own error
\* is swallowed; the windows will forget the reservation.
Release(r) ==
    /\ ask[r].pc \in {"giveUp", "release"}
    /\ \/ quota' = GivenUp(r) /\ UNCHANGED leaked
       \/ leaked' = leaked \cup {r} /\ UNCHANGED quota
    /\ Goes(r, IF ask[r].pc = "giveUp" THEN "unlock" ELSE "done")
    /\ UNCHANGED <<creationVars, lock, slotVars, overran>>

OrderOf(r) == {o \in orders : o.number = req[r].number}

\* The request holds a reservation that only itself would give back.
Reserved(r) == ask[r].pc \in {"lock", "again", "recheck", "create", "throw", "giveUp", "release"}

\* The server stops under the request: lock and reservation stay behind.
Fall(r) ==
    /\ ask[r].pc \notin {"out", "done"}
    /\ Goes(r, "done")
    /\ leaked' = IF Reserved(r) /\ ~answer[r].created THEN leaked \cup {r} ELSE leaked
    /\ UNCHANGED <<creationVars, lock, quota, slotVars, overran>>

\* The time to live of a lock.
LockRunsOut(s) ==
    /\ lock[s] # None
    /\ lock' = [lock EXCEPT ![s] = None]
    /\ overran' = IF OrderOf(lock[s]) = {} /\ ask[lock[s]].pc # "done"
                  THEN overran \cup {lock[s]} ELSE overran
    /\ UNCHANGED <<creationVars, ask, quota, slotVars, leaked>>

\* The windows slide over a reservation.
WindowSlides(r) ==
    /\ r \in quota
    /\ quota' = quota \ {r} /\ leaked' = leaked \cup {r}
    /\ UNCHANGED <<creationVars, ask, lock, slotVars, overran>>

\* The counter sells for the slot, full or not; the staff cancels.
CounterSells ==
    /\ counter < MaxCounter
    /\ counter' = counter + 1
    /\ UNCHANGED <<creationVars, ask, lock, quota, cancelled, overran, leaked>>

Cancel(o) ==
    /\ o \in orders \ cancelled
    /\ cancelled' = cancelled \cup {o}
    /\ UNCHANGED <<creationVars, ask, lock, quota, counter, overran, leaked>>

Route(r) ==
    \/ \E c \in Clients : Arrive(r, c)
    \/ Check(r) \/ Authorize(r) \/ TakeLock(r) \/ LookAgain(r) \/ Recheck(r)
    \/ Create(r) \/ Created(r) \/ Unlock(r) \/ Release(r) \/ Fall(r)

GateStep ==
    \/ \E r \in Requests : Route(r) \/ WindowSlides(r)
    \/ \E s \in Spellings : LockRunsOut(s)
    \/ CounterSells
    \/ \E o \in orders : Cancel(o)

GateNext == GateStep /\ UNCHANGED spelling

GateSpec == GateInit /\ [][GateNext]_gateVars

-----------------------------------------------------------------------------
(* Properties.                                                             *)

RouteSteps == {"out", "check", "authorize", "lock", "again", "recheck", "create",
               "giveUp", "throw", "unlock", "release", "done"}

\* Types: the requests of the route, the lock and the reservations.
GateTypeOK ==
    /\ ask \in [Requests -> [pc : RouteSteps, client : Clients \cup {None}]]
    /\ spelling \in [Requests -> Spellings]
    /\ lock \in [Spellings -> Requests \cup {None}]
    /\ quota \subseteq Requests /\ Cardinality(quota) <= Quota
    /\ overran \subseteq Requests /\ leaked \subseteq Requests
    /\ cancelled \subseteq orders /\ counter \in Nat

\* The request is between its reading of the capacity and its order.
Inside(r) ==
    /\ ask[r].pc \in {"again", "recheck", "create", "giveUp", "throw"}
    /\ OrderOf(r) = {} /\ r \notin overran

\* serializeSlot: whoever is between the second reading and the write holds the
\* lock of its spelling, unless its time has run out: two requests that write the
\* slot alike are never there together, and nobody lets go of the lock of another
\* (RELEASE_LOCK).
OneInside == \A r \in Requests : Inside(r) => lock[spelling[r]] = r

InTime == {r \in Requests \ overran : OrderOf(r) # {} /\ OrderOf(r) \cap cancelled = {}}

Spelt(R) == {spelling[r] : r \in R}

\* Requests that wrote within the life of their lock and spell the slot alike
\* never sell it beyond its capacity: not two replicas, not when an order is
\* cancelled, an answer lost or a lock left behind.  Each further spelling among
\* them has a lock of its own (public-order-gate.ts:136, contracts/index.ts:450,
\* while exigerDisponible compares instants), and may sell the last place once
\* more, never twice.  The counter, and a holder slower than fifteen seconds, are
\* not held to it.
PlacesKept == Cardinality(InTime) <= Capacity - 1 + Cardinality(Spelt(InTime))

\* The lock and the capacity it protects (serializeSlot, exigerDisponible).
SlotKept == GateTypeOK /\ OneInside /\ PlacesKept

\* The quota counts what it is for: an online order whose creation was told is
\* counted until the windows slide, and a reservation stands for such an order,
\* for a request still running, or for one nobody could give back (release).
QuotaCounts ==
    /\ \A r \in Requests : answer[r].created => r \in quota \cup leaked
    /\ \A r \in quota \ leaked : Reserved(r) \/ answer[r].created
=============================================================================
