---------------------------- MODULE OrderCreation ----------------------------
(***************************************************************************)
(* The creation of orders on the server (orders.service.ts,                *)
(* createWithOutcome): one order per client id, however often a till       *)
(* replays it, a promotion with a limited number of uses, and the numbers  *)
(* customers are called by.                                                *)
(*                                                                         *)
(* A request looks its client id up, reserves a use of the promotion,      *)
(* takes a number, inserts the order, and gives the use back if the order  *)
(* will not exist.  Each of these is a call to MongoDB; requests           *)
(* interleave between them, and may stop there.                            *)
(***************************************************************************)
EXTENDS Integers, FiniteSets

CONSTANTS Requests,   \* calls of createWithOutcome; each runs once
          Clients,    \* client ids the tills draw
          MaxUsage,   \* the promotion's maxUsage; 0 for no limit
          None

ASSUME CreationAssumption ==
    /\ MaxUsage \in Nat
    /\ IsFiniteSet(Requests)
    /\ None \notin Clients

VARIABLES orders,   \* the collection
          used,     \* usageCount of the promotion
          seq,      \* the day's counter
          req,      \* each request: where it stands
          answer,   \* what each request was answered: a number, and whether it created
          lost,     \* uses no order has and nobody gives back (history)
          regained  \* uses given back although an order has them (history)

drift == <<lost, regained>>
creationVars == <<orders, used, seq, req, answer, drift>>

-----------------------------------------------------------------------------

\* A request that has not run.  `code` tells a typed promotion code from an
\* offer applied without one; `held` is a use it has reserved.
Idle == [pc |-> "idle", client |-> None, code |-> FALSE, held |-> FALSE, number |-> 0]

NoAnswer == [number |-> 0, created |-> FALSE]

CreationInit ==
    /\ orders = {} /\ used = 0 /\ seq = 0 /\ lost = 0 /\ regained = 0
    /\ req = [r \in Requests |-> Idle]
    /\ answer = [r \in Requests |-> NoAnswer]

OrdersOf(c) == {o \in orders : o.client = c}

Moves(r, pc) == req' = [req EXCEPT ![r].pc = pc]

\* The request answers with an order that was there before it.
AnswersExisting(r, o) ==
    /\ answer' = [answer EXCEPT ![r] = [number |-> o.number, created |-> FALSE]]
    /\ Moves(r, "done")

\* findOne on the client id, before anything else.
LookUp(r, c, code) ==
    /\ req[r].pc = "idle"
    /\ \/ \E o \in OrdersOf(c) :
            /\ answer' = [answer EXCEPT ![r] = [number |-> o.number, created |-> FALSE]]
            /\ req' = [req EXCEPT ![r].pc = "done", ![r].client = c]
       \/ /\ OrdersOf(c) = {}
          /\ req' = [req EXCEPT ![r].pc = "price", ![r].client = c, ![r].code = code]
          /\ UNCHANGED answer
    /\ UNCHANGED <<orders, used, seq, drift>>

-----------------------------------------------------------------------------
(* The promotion.                                                          *)

\* Uses are left: in the rule of the domain, and in the filter of the update.
Left == MaxUsage = 0 \/ used < MaxUsage

\* Lines are priced, then resoudrePromotion reads the offers.  A typed code
\* that does not apply is refused, as is a line that cannot be sold.
Price(r) ==
    /\ req[r].pc = "price"
    /\ \/ Left /\ Moves(r, "reserve")
       \/ ~req[r].code /\ Moves(r, "number")
       \/ Moves(r, "done")
    /\ UNCHANGED <<orders, used, seq, answer, drift>>

\* Mutation: the update counts on the reading made before it.
ReservableAlways == TRUE

\* findOneAndUpdate filters on the uses left: the database arbitrates.
Reservable == Left

\* The use is reserved; the loser is refused if it typed a code, and goes on
\* without the offer otherwise.
Reserve(r) ==
    /\ req[r].pc = "reserve"
    /\ IF Reservable
       THEN /\ used' = used + 1
            /\ req' = [req EXCEPT ![r].pc = "number", ![r].held = TRUE]
       ELSE /\ Moves(r, IF req[r].code THEN "done" ELSE "number")
            /\ UNCHANGED used
    /\ UNCHANGED <<orders, seq, answer, drift>>

-----------------------------------------------------------------------------
(* The order.                                                              *)

\* Mutation: the number is counted from the orders.
NextNumberCounted == Cardinality(orders) + 1

\* nextNumber: an atomic increment of the day's counter.
NextNumber == seq + 1

Number(r) ==
    /\ req[r].pc = "number"
    /\ seq' = NextNumber
    /\ req' = [req EXCEPT ![r].pc = "insert", ![r].number = NextNumber]
    /\ UNCHANGED <<orders, used, answer, drift>>

\* Mutation: no unique index on the client id.
DuplicateNever(c) == FALSE

\* The unique index on the restaurant and the client id.
Duplicate(c) == OrdersOf(c) # {}

NewOrder(r) == [client |-> req[r].client, number |-> req[r].number, promo |-> req[r].held]

Insert(r) ==
    /\ req[r].pc = "insert" /\ ~Duplicate(req[r].client)
    /\ orders' = orders \cup {NewOrder(r)}
    /\ answer' = [answer EXCEPT ![r] = [number |-> req[r].number, created |-> TRUE]]
    /\ req' = [req EXCEPT ![r].pc = "done", ![r].held = FALSE]
    /\ UNCHANGED <<used, seq, drift>>

\* The duplicate is refused: the use is given back, then the winner is read.
InsertRefused(r) ==
    /\ req[r].pc = "insert" /\ Duplicate(req[r].client)
    /\ Moves(r, "giveBackRaced")
    /\ UNCHANGED <<orders, used, seq, answer, drift>>

\* resolvePayment refuses the cash received, or the insert fails.
InsertFails(r) ==
    /\ req[r].pc = "insert"
    /\ Moves(r, "giveBack")
    /\ UNCHANGED <<orders, used, seq, answer, drift>>

\* The insert is applied, and its answer is lost: the handler takes it for a failure.
InsertUnheard(r) ==
    /\ req[r].pc = "insert" /\ ~Duplicate(req[r].client)
    /\ orders' = orders \cup {NewOrder(r)}
    /\ Moves(r, "giveBack")
    /\ UNCHANGED <<used, seq, answer, drift>>

-----------------------------------------------------------------------------
(* Giving the use back.                                                    *)

\* Mutations: a use is given back whether or not the request has reserved one;
\* the count may go below zero.
GivenBackAlways(r) == IF used > 0 THEN used - 1 ELSE used
GivenBackBelow(r) == used - 1

\* rendreReservation: what was reserved, and never below zero.
GivenBack(r) == IF req[r].held /\ used > 0 THEN used - 1 ELSE used

\* The request holds a use, and no order of its own has it.
Owes(r) == req[r].held /\ NewOrder(r) \notin orders

GiveBack(r) ==
    /\ req[r].pc \in {"giveBack", "giveBackRaced"}
    /\ used' = GivenBack(r)
    /\ regained' = IF req[r].held /\ ~Owes(r) THEN regained + 1 ELSE regained
    /\ req' = [req EXCEPT ![r].pc = IF @ = "giveBackRaced" THEN "refind" ELSE "done",
                          ![r].held = FALSE]
    /\ UNCHANGED <<orders, seq, answer, lost>>

\* The compensation is tried once; its failure is swallowed.
GiveBackFails(r) ==
    /\ req[r].pc \in {"giveBack", "giveBackRaced"} /\ req[r].held
    /\ req' = [req EXCEPT ![r].pc = IF @ = "giveBackRaced" THEN "refind" ELSE "done",
                          ![r].held = FALSE]
    /\ lost' = IF Owes(r) THEN lost + 1 ELSE lost
    /\ UNCHANGED <<orders, used, seq, answer, regained>>

\* The loser of the race answers with the order of the winner.
Refind(r) ==
    /\ req[r].pc = "refind"
    /\ \E o \in OrdersOf(req[r].client) : AnswersExisting(r, o)
    /\ UNCHANGED <<orders, used, seq, drift>>

\* The server stops, or a call of the request fails outside its try.
Stop(r) ==
    /\ req[r].pc \notin {"idle", "done"}
    /\ req' = [req EXCEPT ![r].pc = "done", ![r].held = FALSE]
    /\ lost' = IF Owes(r) THEN lost + 1 ELSE lost
    /\ UNCHANGED <<orders, used, seq, answer, regained>>

Handler(r) ==
    \/ \E c \in Clients, code \in BOOLEAN : LookUp(r, c, code)
    \/ Price(r) \/ Reserve(r) \/ Number(r)
    \/ Insert(r) \/ InsertRefused(r) \/ InsertFails(r) \/ InsertUnheard(r)
    \/ GiveBack(r) \/ GiveBackFails(r) \/ Refind(r) \/ Stop(r)

CreationNext == \E r \in Requests : Handler(r)

CreationSpec == CreationInit /\ [][CreationNext]_creationVars

-----------------------------------------------------------------------------
(* Properties.                                                             *)

Steps == {"idle", "price", "reserve", "number", "insert", "giveBack", "giveBackRaced",
          "refind", "done"}

\* Types: the collection, the counters, the requests and their answers.
CreationTypeOK ==
    /\ orders \subseteq [client : Clients, number : Nat, promo : BOOLEAN]
    /\ used \in Nat /\ seq \in Nat /\ lost \in Nat /\ regained \in Nat
    /\ req \in [Requests -> [pc : Steps, client : Clients \cup {None},
                             code : BOOLEAN, held : BOOLEAN, number : Nat]]
    /\ answer \in [Requests -> [number : Nat, created : BOOLEAN]]

Discounted == {o \in orders : o.promo}
Owing == {r \in Requests : Owes(r)}

\* Everybody who was answered about a client id was given the same order, which
\* exists, and one of them at most was told to have created it: the public
\* route gives its quota back on that word.
AnswersAgree ==
    \A r, q \in Requests :
        /\ answer[r].number # 0 =>
             \E o \in orders : o.client = req[r].client /\ o.number = answer[r].number
        /\ answer[r].number # 0 /\ answer[q].number # 0 /\ req[r].client = req[q].client =>
             answer[r].number = answer[q].number
        /\ answer[r].created /\ answer[q].created /\ req[r].client = req[q].client => r = q

\* Two orders never bear the same number (nextNumber).
NumbersDiffer == \A o, p \in orders : o.number = p.number => o = p

\* One order per client id under one number, whoever asked (createWithOutcome).
OrdersAreOnce == CreationTypeOK /\ AnswersAgree /\ NumbersDiffer

\* The count of uses is exact: orders that got the offer, requests that hold a
\* use, and uses lost with a server or a failed compensation, less those given
\* back by a request that took its insert for a failure.  No replay of the
\* offline queue eats the quota (the comment of the catch).
UsesAreExact ==
    used + regained = Cardinality(Discounted) + Cardinality(Owing) + lost

\* The offer is granted beyond its limit (resoudrePromotion) only by as many
\* orders as were given back although they exist: replays, races, failed
\* inserts and stops never grant it once too often.
QuotaKept == MaxUsage > 0 => Cardinality(Discounted) <= MaxUsage + regained

\* The offer: a count that is true, and a limit that holds (resoudrePromotion,
\* rendreReservation).
OfferKept == UsesAreExact /\ QuotaKept
=============================================================================
