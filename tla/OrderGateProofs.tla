-------------------------- MODULE OrderGateProofs ---------------------------
(***************************************************************************)
(* Proofs about OrderCreation, for any number of requests and client ids   *)
(* and any limit of the promotion, then about OrderGate above it, for any  *)
(* capacity and any quota.                                                 *)
(*                                                                         *)
(* Of the creation, two things carry the proofs.  A number is drawn once:  *)
(* no other request has it, and no order until its owner inserts it.  And  *)
(* every use that was counted is somewhere: on an order, in the hand of a  *)
(* request, lost, or given back by a request whose order was inserted all  *)
(* the same; that last request is paid for by the order it does not know of.*)
(*                                                                         *)
(* The route creates orders as createWithOutcome does, so what was proved  *)
(* of the creation holds of it.  The capacity is then an argument about    *)
(* the locks: whoever is between the second reading of the capacity and    *)
(* its order holds the lock of its spelling or has overrun it, so those    *)
(* about to write spell the slot differently, and what they read counted   *)
(* every order written in time before them.                                *)
(***************************************************************************)
EXTENDS OrderGate, FiniteSetTheorems, TLAPS

Order == [client : Clients, number : Nat, promo : BOOLEAN]
Request == [pc : Steps, client : Clients \cup {None}, code : BOOLEAN, held : BOOLEAN, number : Nat]

\* What a request has drawn, holds and was answered, by where it stands.
RequestInv(r) ==
    /\ req[r].number <= seq
    /\ req[r].pc \in {"idle", "price", "reserve", "number"} => req[r].number = 0
    /\ req[r].pc \in {"insert", "giveBack", "giveBackRaced", "refind"} => req[r].number # 0
    /\ req[r].pc \in {"idle", "price", "reserve", "refind", "done"} => ~req[r].held
    /\ req[r].pc = "insert" => \A o \in orders : o.number # req[r].number
    /\ req[r].pc # "idle" => req[r].client \in Clients
    /\ req[r].pc # "done" => answer[r] = NoAnswer
    /\ answer[r].created => answer[r].number = req[r].number /\ answer[r].number # 0
    /\ answer[r].number # 0 =>
         \E o \in orders : o.client = req[r].client /\ o.number = answer[r].number

\* A number has one owner.
DrawnOnce ==
    \A r, q \in Requests : req[r].number # 0 /\ req[r].number = req[q].number => r = q

\* The numbers of the orders were drawn.
OrdersDrawn == \A o \in orders : o.number \in 1..seq

\* The unique index on the client id.
ClientOnce == \A o, p \in orders : o.client = p.client => o = p

NumberInv ==
    /\ CreationTypeOK
    /\ DrawnOnce /\ OrdersDrawn /\ ClientOnce /\ NumbersDiffer
    /\ \A r \in Requests : RequestInv(r)

-----------------------------------------------------------------------------
(* Numbers and answers.                                                    *)

LEMMA NumberInit == CreationInit => NumberInv
BY CreationAssumption
DEF CreationInit, NumberInv, CreationTypeOK, DrawnOnce, OrdersDrawn, ClientOnce, NumbersDiffer,
    RequestInv, Idle, NoAnswer, Steps

\* A request that moves without a number, an order or an answer.
LEMMA MovesWell ==
    ASSUME NumberInv, NEW r \in Requests, NEW h \in Request,
           req' = [req EXCEPT ![r] = h], orders' = orders, seq' = seq, answer' = answer,
           used' \in Nat, lost' \in Nat, regained' \in Nat,
           h.number = req[r].number, h.client = req[r].client,
           RequestInv(r)'
    PROVE  NumberInv'
<1>1. CreationTypeOK'
  BY DEF NumberInv, CreationTypeOK, Request
<1>2. DrawnOnce'
  BY DEF NumberInv, CreationTypeOK, DrawnOnce
<1>3. \A q \in Requests : RequestInv(q)'
  BY DEF NumberInv, CreationTypeOK, RequestInv
<1> QED
  BY <1>1, <1>2, <1>3 DEF NumberInv, OrdersDrawn, ClientOnce, NumbersDiffer
LEMMA LookUpNumbers ==
    ASSUME NumberInv, NEW r \in Requests, NEW c \in Clients, NEW code \in BOOLEAN,
           LookUp(r, c, code)
    PROVE  NumberInv'
<1>0. req[r].pc = "idle" /\ UNCHANGED <<orders, used, seq, lost, regained>>
  BY DEF LookUp, drift
<1>1. CASE OrdersOf(c) = {} /\ req' = [req EXCEPT ![r].pc = "price", ![r].client = c, ![r].code = code]
           /\ UNCHANGED answer
  <2>1. CreationTypeOK'
    <3>1. [req[r] EXCEPT !.pc = "price", !.client = c, !.code = code] \in Request
      BY ZenonT(60) DEF NumberInv, CreationTypeOK, Request, Steps
    <3> QED
      BY <1>0, <1>1, <3>1 DEF NumberInv, CreationTypeOK, Request
  <2>2. DrawnOnce'
    BY <1>0, <1>1 DEF NumberInv, CreationTypeOK, DrawnOnce, RequestInv
  <2>3. \A q \in Requests : RequestInv(q)'
    BY <1>0, <1>1 DEF NumberInv, CreationTypeOK, RequestInv, NoAnswer
  <2> QED
    BY <1>0, <2>1, <2>2, <2>3 DEF NumberInv, OrdersDrawn, ClientOnce, NumbersDiffer
<1>2. CASE \E o \in OrdersOf(c) :
            /\ answer' = [answer EXCEPT ![r] = [number |-> o.number, created |-> FALSE]]
            /\ req' = [req EXCEPT ![r].pc = "done", ![r].client = c]
  <2>0. PICK o \in OrdersOf(c) :
            /\ answer' = [answer EXCEPT ![r] = [number |-> o.number, created |-> FALSE]]
            /\ req' = [req EXCEPT ![r].pc = "done", ![r].client = c]
    BY <1>2
  <2>a. o \in orders /\ o.client = c /\ o.number \in Nat
    BY <2>0 DEF OrdersOf, NumberInv, CreationTypeOK
  <2>1. CreationTypeOK'
    <3>1. [req[r] EXCEPT !.pc = "done", !.client = c] \in Request
      BY ZenonT(60) DEF NumberInv, CreationTypeOK, Request, Steps
    <3> QED
      BY <1>0, <2>0, <2>a, <3>1 DEF NumberInv, CreationTypeOK, Request
  <2>2. DrawnOnce'
    BY <1>0, <2>0 DEF NumberInv, CreationTypeOK, DrawnOnce, RequestInv
  <2>3. \A q \in Requests : RequestInv(q)'
    BY <1>0, <2>0, <2>a DEF NumberInv, CreationTypeOK, RequestInv, NoAnswer
  <2> QED
    BY <1>0, <2>1, <2>2, <2>3 DEF NumberInv, OrdersDrawn, ClientOnce, NumbersDiffer
<1> QED
  BY <1>1, <1>2 DEF LookUp

\* Pricing, the reservation of a use, and what ends a request without an order.
LEMMA QuietNumbers ==
    ASSUME NumberInv, NEW r \in Requests,
           \/ Price(r) \/ Reserve(r) \/ InsertRefused(r) \/ InsertFails(r)
           \/ GiveBack(r) \/ GiveBackFails(r) \/ Stop(r)
    PROVE  NumberInv'
<1> DEFINE h == req'[r]
<1>0. req[r] \in Request /\ used \in Nat /\ lost \in Nat /\ regained \in Nat
  BY DEF NumberInv, CreationTypeOK, Request
<1>1. /\ req' = [req EXCEPT ![r] = h] /\ h \in Request
      /\ h.number = req[r].number /\ h.client = req[r].client
      /\ orders' = orders /\ seq' = seq /\ answer' = answer
      /\ h.pc # "insert" /\ (h.pc = "number" => req[r].pc \in {"price", "reserve"})
      /\ (h.pc = "reserve" => req[r].pc = "price")
      /\ (h.pc \in {"giveBack", "giveBackRaced"} => req[r].pc = "insert")
      /\ (h.pc = "refind" => req[r].pc = "giveBackRaced" /\ ~h.held)
      /\ (h.pc = "reserve" => h.held = req[r].held)
      /\ (h.pc = "done" => ~h.held)
      /\ req[r].pc \notin {"idle", "done"} /\ h.pc \notin {"idle", "price"}
  <2>1. CASE Price(r)
    BY <1>0, <2>1 DEF Price, Moves, NumberInv, CreationTypeOK, RequestInv, Request, Steps
  <2>2. CASE Reserve(r)
    BY <1>0, <2>2 DEF Reserve, Moves, NumberInv, CreationTypeOK, RequestInv, Request, Steps
  <2>3. CASE InsertRefused(r) \/ InsertFails(r)
    BY <1>0, <2>3 DEF InsertRefused, InsertFails, Moves, NumberInv, CreationTypeOK, RequestInv, Request, Steps
  <2>4. CASE GiveBack(r)
    BY <1>0, <2>4 DEF GiveBack, NumberInv, CreationTypeOK, RequestInv, Request, Steps
  <2>5. CASE GiveBackFails(r)
    BY <1>0, <2>5 DEF GiveBackFails, NumberInv, CreationTypeOK, RequestInv, Request, Steps
  <2>6. CASE Stop(r)
    BY <1>0, <2>6 DEF Stop, NumberInv, CreationTypeOK, RequestInv, Request, Steps
  <2> QED
    BY <2>1, <2>2, <2>3, <2>4, <2>5, <2>6
<1>2. used' \in Nat /\ lost' \in Nat /\ regained' \in Nat
  BY <1>0 DEF Price, Reserve, InsertRefused, InsertFails, GiveBack, GivenBack, GiveBackFails,
      Stop, drift
<1>3. RequestInv(r)'
  BY <1>0, <1>1 DEF NumberInv, RequestInv
<1> QED
  BY <1>0, <1>1, <1>2, <1>3, MovesWell

LEMMA NumberNumbers ==
    ASSUME NumberInv, NEW r \in Requests, Number(r)
    PROVE  NumberInv'
<1>0. req[r] \in Request /\ seq \in Nat
  BY DEF NumberInv, CreationTypeOK, Request
<1>1. CreationTypeOK'
  <2>1. [req[r] EXCEPT !.pc = "insert", !.number = seq + 1] \in Request
    <3>1. seq + 1 \in Nat /\ "insert" \in Steps
      BY <1>0 DEF Steps
    <3> QED
      BY <1>0, <3>1 DEF Request
  <2>2. req' \in [Requests -> Request]
    <3>1. req \in [Requests -> Request]
      BY DEF NumberInv, CreationTypeOK, Request
    <3>2. req' = [req EXCEPT ![r].pc = "insert", ![r].number = seq + 1]
      BY DEF Number, NextNumber
    <3> QED
      BY <2>1, <3>1, <3>2
  <2> QED
    BY <1>0, <2>2 DEF Number, NextNumber, NumberInv, CreationTypeOK, Request, drift
<1>2. DrawnOnce'
  BY <1>0 DEF Number, NextNumber, NumberInv, CreationTypeOK, DrawnOnce, RequestInv
<1>3. OrdersDrawn'
  BY <1>0 DEF Number, NextNumber, NumberInv, CreationTypeOK, OrdersDrawn
<1>4. ASSUME NEW q \in Requests PROVE RequestInv(q)'
  BY <1>0 DEF Number, NextNumber, NumberInv, CreationTypeOK, OrdersDrawn, RequestInv, NoAnswer
<1> QED
  BY <1>1, <1>2, <1>3, <1>4 DEF Number, NumberInv, ClientOnce, NumbersDiffer

\* The insert, heard or not.
LEMMA InsertNumbers ==
    ASSUME NumberInv, NEW r \in Requests, Insert(r) \/ InsertUnheard(r)
    PROVE  NumberInv'
<1> DEFINE n == NewOrder(r)
<1>0. req[r] \in Request /\ seq \in Nat /\ orders \subseteq Order
  BY DEF NumberInv, CreationTypeOK, Request, Order
<1>1. /\ req[r].pc = "insert" /\ orders' = orders \cup {n} /\ ~Duplicate(req[r].client)
      /\ seq' = seq /\ used' = used /\ lost' = lost /\ regained' = regained
  BY DEF Insert, InsertUnheard, drift
<1>2. /\ n \in Order /\ n.client = req[r].client /\ n.number = req[r].number
      /\ n.number \in 1..seq /\ \A o \in orders : o.number # n.number /\ o.client # n.client
  BY <1>0, <1>1 DEF NewOrder, NumberInv, RequestInv, Order, Request, Duplicate, OrdersOf
<1>3. /\ req' \in [Requests -> Request] /\ answer' \in [Requests -> [number : Nat, created : BOOLEAN]]
      /\ \A q \in Requests : req'[q].number = req[q].number /\ req'[q].client = req[q].client
      /\ \A q \in Requests \ {r} : req'[q] = req[q] /\ answer'[q] = answer[q]
      /\ req'[r].pc \in {"giveBack", "done"}
      /\ (req'[r].pc = "done" => ~req'[r].held /\ answer'[r] = [number |-> req[r].number, created |-> TRUE])
      /\ (req'[r].pc = "giveBack" => answer'[r] = answer[r])
  <2>1. CASE Insert(r)
    BY <1>0, <2>1 DEF Insert, NumberInv, CreationTypeOK, Request, Steps
  <2>2. CASE InsertUnheard(r)
    BY <1>0, <2>2 DEF InsertUnheard, Moves, NumberInv, CreationTypeOK, Request, Steps
  <2> QED
    BY <2>1, <2>2
<1>4. CreationTypeOK'
  BY <1>0, <1>1, <1>2, <1>3 DEF NumberInv, CreationTypeOK, Request, Order
<1>5. DrawnOnce'
  BY <1>3 DEF NumberInv, DrawnOnce
<1>6. OrdersDrawn' /\ ClientOnce' /\ NumbersDiffer'
  BY <1>1, <1>2 DEF NumberInv, OrdersDrawn, ClientOnce, NumbersDiffer
<1>7. RequestInv(r)'
  BY <1>0, <1>1, <1>2, <1>3 DEF NumberInv, RequestInv, NoAnswer
<1>8. ASSUME NEW q \in Requests \ {r} PROVE RequestInv(q)'
  BY <1>0, <1>1, <1>2, <1>3 DEF NumberInv, RequestInv, DrawnOnce
<1> QED
  BY <1>4, <1>5, <1>6, <1>7, <1>8 DEF NumberInv

LEMMA RefindNumbers ==
    ASSUME NumberInv, NEW r \in Requests, Refind(r)
    PROVE  NumberInv'
<1>1. PICK o \in OrdersOf(req[r].client) : AnswersExisting(r, o)
  BY DEF Refind
<1>2. o \in orders /\ o.client = req[r].client /\ o.number \in Nat
  BY <1>1 DEF OrdersOf, NumberInv, CreationTypeOK
<1>3. CreationTypeOK'
  BY <1>1, <1>2 DEF AnswersExisting, Moves, Refind, NumberInv, CreationTypeOK, Steps, drift
<1>4. DrawnOnce'
  BY <1>1 DEF AnswersExisting, Moves, NumberInv, CreationTypeOK, DrawnOnce
<1>5. \A q \in Requests : RequestInv(q)'
  BY <1>1, <1>2 DEF AnswersExisting, Moves, Refind, NumberInv, CreationTypeOK, RequestInv
<1> QED
  BY <1>3, <1>4, <1>5 DEF Refind, NumberInv, OrdersDrawn, ClientOnce, NumbersDiffer

LEMMA NumberNext == NumberInv /\ [CreationNext]_creationVars => NumberInv'
<1> SUFFICES ASSUME NumberInv, [CreationNext]_creationVars PROVE NumberInv'
  OBVIOUS
<1>1. CASE UNCHANGED creationVars
  BY <1>1 DEF creationVars, drift, NumberInv, CreationTypeOK, DrawnOnce, OrdersDrawn, ClientOnce,
      NumbersDiffer, RequestInv
<1>2. ASSUME NEW r \in Requests, Handler(r) PROVE NumberInv'
  BY <1>2, LookUpNumbers, QuietNumbers, NumberNumbers, InsertNumbers, RefindNumbers DEF Handler
<1> QED
  BY <1>1, <1>2 DEF CreationNext

LEMMA NumberAlways == CreationSpec => []NumberInv
BY NumberInit, NumberNext, PTL DEF CreationSpec

\* The collection, the counters, the requests and their answers keep their types.
THEOREM CreationTyped == CreationSpec => []CreationTypeOK
<1>1. NumberInv => CreationTypeOK
  BY DEF NumberInv
<1> QED
  BY NumberAlways, <1>1, PTL

\* Two orders never bear the same number.
THEOREM NumbersAlwaysDiffer == CreationSpec => []NumbersDiffer
<1>1. NumberInv => NumbersDiffer
  BY DEF NumberInv
<1> QED
  BY NumberAlways, <1>1, PTL

LEMMA NumberInvAgrees == NumberInv => AnswersAgree
<1> SUFFICES ASSUME NumberInv, NEW r \in Requests, NEW q \in Requests
             PROVE  /\ answer[r].number # 0 =>
                         \E o \in orders : o.client = req[r].client /\ o.number = answer[r].number
                    /\ answer[r].number # 0 /\ answer[q].number # 0 /\ req[r].client = req[q].client =>
                         answer[r].number = answer[q].number
                    /\ answer[r].created /\ answer[q].created /\ req[r].client = req[q].client => r = q
  BY DEF AnswersAgree
<1> QED
  BY DEF NumberInv, RequestInv, ClientOnce, DrawnOnce

\* Everybody who asks about a client id is given the same order, and one request
\* at most is told that it created it.
THEOREM AnswersAlwaysAgree == CreationSpec => []AnswersAgree
BY NumberAlways, NumberInvAgrees, PTL
-----------------------------------------------------------------------------
(* The uses of the promotion.                                              *)

\* Requests that hold a use although their order was inserted: they will give
\* back what they do not owe.
Paying == {r \in Requests : req[r].held /\ NewOrder(r) \in orders}

UseInv ==
    /\ NumberInv
    /\ IsFiniteSet(orders)
    /\ UsesAreExact
    /\ regained + Cardinality(Paying) <= Cardinality(Discounted)
    /\ MaxUsage > 0 => used <= MaxUsage

LEMMA Counts ==
    ASSUME UseInv
    PROVE  /\ IsFiniteSet(Owing) /\ IsFiniteSet(Paying) /\ IsFiniteSet(Discounted)
           /\ Cardinality(Owing) \in Nat /\ Cardinality(Paying) \in Nat
           /\ Cardinality(Discounted) \in Nat
           /\ used \in Nat /\ lost \in Nat /\ regained \in Nat
<1>1. Owing \subseteq Requests /\ Paying \subseteq Requests /\ Discounted \subseteq orders
  BY DEF Owing, Paying, Discounted
<1>2. IsFiniteSet(Owing) /\ IsFiniteSet(Paying) /\ IsFiniteSet(Discounted)
  BY <1>1, FS_Subset, CreationAssumption DEF UseInv
<1> QED
  BY <1>2, FS_CardinalityType DEF UseInv, NumberInv, CreationTypeOK

LEMMA UseInit == CreationInit => UseInv
<1> SUFFICES ASSUME CreationInit PROVE UseInv
  OBVIOUS
<1>1. Owing = {} /\ Paying = {} /\ Discounted = {} /\ orders = {}
  BY DEF CreationInit, Owing, Owes, Paying, Discounted, Idle
<1>2. Cardinality({}) = 0 /\ IsFiniteSet({})
  BY FS_EmptySet
<1> QED
  BY <1>1, <1>2, NumberInit, CreationAssumption DEF CreationInit, UseInv, UsesAreExact

\* A step that moves no use.
LEMMA SameUses ==
    ASSUME UseInv, NumberInv', orders' = orders, used' = used, lost' = lost, regained' = regained,
           \A q \in Requests :
             /\ req'[q].held = req[q].held
             /\ req[q].held => (NewOrder(q)' \in orders) = (NewOrder(q) \in orders)
    PROVE  UseInv'
<1>1. Owing' = Owing /\ Paying' = Paying /\ Discounted' = Discounted
  BY DEF Owing, Owes, Paying, Discounted
<1> QED
  BY <1>1 DEF UseInv, UsesAreExact

\* A request that stops holding a use.
LEMMA Drops ==
    ASSUME UseInv, NumberInv', NEW r \in Requests, orders' = orders,
           ~req'[r].held, \A q \in Requests \ {r} : req'[q] = req[q]
    PROVE  /\ Owing' = Owing \ {r} /\ Paying' = Paying \ {r} /\ Discounted' = Discounted
           /\ IsFiniteSet(orders')
           /\ Cardinality(Owing') = IF Owes(r) THEN Cardinality(Owing) - 1 ELSE Cardinality(Owing)
           /\ Cardinality(Paying') = IF req[r].held /\ ~Owes(r) THEN Cardinality(Paying) - 1
                                                               ELSE Cardinality(Paying)
<1>1. Owing' = Owing \ {r} /\ Paying' = Paying \ {r} /\ Discounted' = Discounted
  BY DEF Owing, Owes, Paying, Discounted, NewOrder
<1>2. (r \in Owing) = Owes(r) /\ (r \in Paying) = (req[r].held /\ ~Owes(r))
  BY DEF Owing, Owes, Paying
<1>3. Cardinality(Owing \ {r}) = IF r \in Owing THEN Cardinality(Owing) - 1 ELSE Cardinality(Owing)
  BY Counts, FS_RemoveElement
<1>4. Cardinality(Paying \ {r}) = IF r \in Paying THEN Cardinality(Paying) - 1 ELSE Cardinality(Paying)
  BY Counts, FS_RemoveElement
<1> QED
  BY <1>1, <1>2, <1>3, <1>4 DEF UseInv
\* A request that looks its client id up, is priced, draws its number, or ends
\* without having held anything.
LEMMA StillUses ==
    ASSUME UseInv, NumberInv', NEW r \in Requests,
           \/ \E c \in Clients, code \in BOOLEAN : LookUp(r, c, code)
           \/ Price(r) \/ InsertRefused(r) \/ InsertFails(r) \/ Refind(r)
           \/ Reserve(r) /\ ~Reservable
    PROVE  UseInv'
<1>1. /\ orders' = orders /\ used' = used /\ lost' = lost /\ regained' = regained
      /\ \A q \in Requests : /\ req'[q].held = req[q].held
                             /\ req[q].held => req'[q].client = req[q].client
                                               /\ req'[q].number = req[q].number
  <2>1. req \in [Requests -> Request]
    BY DEF UseInv, NumberInv, CreationTypeOK, Request
  <2>2. ASSUME NEW c \in Clients, NEW code \in BOOLEAN, LookUp(r, c, code) PROVE <1>1!2 /\ <1>1!1
    <3>1. ~req[r].held
      BY <2>2 DEF LookUp, UseInv, NumberInv, RequestInv
    <3>2. orders' = orders /\ used' = used /\ lost' = lost /\ regained' = regained
      BY <2>2 DEF LookUp, drift
    <3>3. \/ \E o \in OrdersOf(c) : req' = [req EXCEPT ![r].pc = "done", ![r].client = c]
          \/ req' = [req EXCEPT ![r].pc = "price", ![r].client = c, ![r].code = code]
      BY <2>2 DEF LookUp
    <3>4. (\A q \in Requests \ {r} : req'[q] = req[q]) /\ req'[r].held = req[r].held
      BY <2>1, <3>3 DEF Request
    <3> QED
      BY <3>1, <3>2, <3>4
  <2>3. CASE Price(r) \/ InsertRefused(r) \/ InsertFails(r) \/ (Reserve(r) /\ ~Reservable)
    BY <2>1, <2>3 DEF Price, InsertRefused, InsertFails, Reserve, Moves, Request, drift
  <2>4. CASE Refind(r)
    BY <2>1, <2>4 DEF Refind, AnswersExisting, Moves, Request, drift
  <2> QED
    BY <2>2, <2>3, <2>4
<1>2. \A q \in Requests : req[q].held => NewOrder(q)' = NewOrder(q)
  BY <1>1 DEF NewOrder
<1> QED
  BY <1>1, <1>2, SameUses

\* A number that was just drawn is on no order yet.
LEMMA NumberUses ==
    ASSUME UseInv, NumberInv', NEW r \in Requests, Number(r)
    PROVE  UseInv'
<1>1. /\ orders' = orders /\ used' = used /\ lost' = lost /\ regained' = regained
      /\ req \in [Requests -> Request] /\ seq \in Nat
      /\ req' = [req EXCEPT ![r].pc = "insert", ![r].number = seq + 1]
  BY DEF Number, NextNumber, drift, UseInv, NumberInv, CreationTypeOK, Request
<1>2. req[r].number = 0
  BY DEF Number, UseInv, NumberInv, RequestInv
<1>3. NewOrder(r) \notin orders /\ NewOrder(r)' \notin orders
  BY <1>1, <1>2 DEF NewOrder, UseInv, NumberInv, OrdersDrawn
<1>4. \A q \in Requests \ {r} : req'[q] = req[q]
  BY <1>1
<1>5. \A q \in Requests : req'[q].held = req[q].held
  BY <1>1 DEF Request
<1>6. \A q \in Requests \ {r} : NewOrder(q)' = NewOrder(q)
  BY <1>4 DEF NewOrder
<1> QED
  BY <1>1, <1>3, <1>5, <1>6, SameUses

\* A use is reserved while one is left.
LEMMA ReserveUses ==
    ASSUME UseInv, NumberInv', NEW r \in Requests, Reserve(r), Reservable
    PROVE  UseInv'
<1>1. /\ orders' = orders /\ used' = used + 1 /\ lost' = lost /\ regained' = regained
      /\ req \in [Requests -> Request]
      /\ req' = [req EXCEPT ![r].pc = "number", ![r].held = TRUE]
  BY DEF Reserve, drift, UseInv, NumberInv, CreationTypeOK, Request
<1>2. ~req[r].held /\ req[r].number = 0
  BY DEF Reserve, UseInv, NumberInv, RequestInv
<1>3. req'[r].held /\ req'[r].number = 0 /\ \A q \in Requests \ {r} : req'[q] = req[q]
  BY <1>1, <1>2 DEF Request
<1>4. NewOrder(r)' \notin orders
  BY <1>3 DEF NewOrder, UseInv, NumberInv, OrdersDrawn
<1>a. \A q \in Requests \ {r} : NewOrder(q)' = NewOrder(q) /\ req'[q].held = req[q].held
  BY <1>3 DEF NewOrder
<1>5. Owing' = Owing \cup {r} /\ r \notin Owing
  <2>1. \A q \in Requests : Owes(q)' <=> Owes(q) \/ q = r
    BY <1>1, <1>3, <1>4, <1>a DEF Owes
  <2> QED
    BY <1>2, <2>1 DEF Owing, Owes
<1>6. Paying' = Paying /\ Discounted' = Discounted
  <2>1. \A q \in Requests : (req[q].held /\ NewOrder(q) \in orders)'
                           <=> req[q].held /\ NewOrder(q) \in orders
    BY <1>1, <1>2, <1>4, <1>a
  <2> QED
    BY <1>1, <2>1 DEF Paying, Discounted
<1>7. Cardinality(Owing') = Cardinality(Owing) + 1
  BY <1>5, Counts, FS_AddElement
<1>8. MaxUsage > 0 => used' <= MaxUsage
  BY <1>1, Counts, CreationAssumption DEF Reservable, Left
<1> QED
  BY <1>1, <1>6, <1>7, <1>8, Counts DEF UseInv, UsesAreExact

\* The use goes from the request to its order, whether the request hears it or not.
LEMMA InsertUses ==
    ASSUME UseInv, NumberInv', NEW r \in Requests, Insert(r) \/ InsertUnheard(r)
    PROVE  UseInv'
<1> DEFINE n == NewOrder(r)
<1>1. /\ req[r].pc = "insert" /\ orders' = orders \cup {n}
      /\ used' = used /\ lost' = lost /\ regained' = regained
      /\ req \in [Requests -> Request]
      /\ \A q \in Requests \ {r} : req'[q] = req[q]
      /\ req'[r].client = req[r].client /\ req'[r].number = req[r].number
      /\ \/ ~req'[r].held
         \/ req'[r].held = req[r].held
  <2>1. req \in [Requests -> Request]
    BY DEF UseInv, NumberInv, CreationTypeOK, Request
  <2>2. CASE Insert(r)
    BY <2>1, <2>2 DEF Insert, Request, drift
  <2>3. CASE InsertUnheard(r)
    BY <2>1, <2>3 DEF InsertUnheard, Moves, Request, drift
  <2> QED
    BY <2>1, <2>2, <2>3
<1>2. n \notin orders /\ n.number = req[r].number /\ n.promo = req[r].held /\ n.number # 0
  BY <1>1 DEF NewOrder, UseInv, NumberInv, RequestInv
<1>3. \A q \in Requests \ {r} : NewOrder(q) # n /\ NewOrder(q)' = NewOrder(q)
  BY <1>1, <1>2 DEF NewOrder, UseInv, NumberInv, DrawnOnce
<1>4. req'[r].held => NewOrder(r)' = n /\ req[r].held
  BY <1>1 DEF NewOrder
<1>5. Owing' = Owing \ {r} /\ (req[r].held <=> r \in Owing)
  <2>1. \A q \in Requests \ {r} : Owes(q)' <=> Owes(q)
    BY <1>1, <1>3 DEF Owes
  <2>2. ~Owes(r)' /\ (Owes(r) <=> req[r].held)
    BY <1>1, <1>2, <1>4 DEF Owes
  <2> QED
    BY <2>1, <2>2 DEF Owing
<1>6. Paying' = (IF req'[r].held THEN Paying \cup {r} ELSE Paying) /\ r \notin Paying
  BY <1>1, <1>2, <1>3, <1>4 DEF Paying
<1>7. Discounted' = (IF req[r].held THEN Discounted \cup {n} ELSE Discounted) /\ n \notin Discounted
  BY <1>1, <1>2 DEF Discounted
<1>8. Cardinality(Owing') = IF req[r].held THEN Cardinality(Owing) - 1 ELSE Cardinality(Owing)
  BY <1>5, Counts, FS_RemoveElement
<1>9. Cardinality(Paying') = IF req'[r].held THEN Cardinality(Paying) + 1 ELSE Cardinality(Paying)
  BY <1>6, Counts, FS_AddElement
<1>10. Cardinality(Discounted') =
         IF req[r].held THEN Cardinality(Discounted) + 1 ELSE Cardinality(Discounted)
  BY <1>7, Counts, FS_AddElement
<1>11. IsFiniteSet(orders')
  BY <1>1, FS_AddElement DEF UseInv
<1> QED
  BY <1>1, <1>4, <1>8, <1>9, <1>10, <1>11, Counts DEF UseInv, UsesAreExact

\* A request that holds a use finds it counted: it owes it, or its order has it.
LEMMA HeldIsCounted ==
    ASSUME UseInv, NEW r \in Requests, req[r].held
    PROVE  used > 0
<1>1. r \in Owing \/ r \in Paying
  BY DEF Owing, Owes, Paying
<1>2. Cardinality(Owing) > 0 \/ Cardinality(Paying) > 0
  BY <1>1, Counts, FS_EmptySet
<1> QED
  BY <1>2, Counts DEF UseInv, UsesAreExact

\* The use is given back, or lost with the request.
LEMMA GiveBackUses ==
    ASSUME UseInv, NumberInv', NEW r \in Requests, GiveBack(r)
    PROVE  UseInv'
<1>1. /\ orders' = orders /\ ~req'[r].held /\ \A q \in Requests \ {r} : req'[q] = req[q]
      /\ lost' = lost
      /\ used' = IF req[r].held THEN used - 1 ELSE used
      /\ regained' = IF req[r].held /\ ~Owes(r) THEN regained + 1 ELSE regained
  BY HeldIsCounted DEF GiveBack, GivenBack, UseInv, NumberInv, CreationTypeOK
<1>2. Owes(r) => req[r].held
  BY DEF Owes
<1>3. req[r].held => used > 0
  BY HeldIsCounted
<1> QED
  BY <1>1, <1>2, <1>3, Drops, Counts, CreationAssumption DEF UseInv, UsesAreExact

LEMMA LostUses ==
    ASSUME UseInv, NumberInv', NEW r \in Requests, GiveBackFails(r) \/ Stop(r)
    PROVE  UseInv'
<1>1. /\ orders' = orders /\ ~req'[r].held /\ \A q \in Requests \ {r} : req'[q] = req[q]
      /\ used' = used /\ regained' = regained
      /\ lost' = IF Owes(r) THEN lost + 1 ELSE lost
  BY DEF GiveBackFails, Stop, UseInv, NumberInv, CreationTypeOK
<1> QED
  BY <1>1, Drops, Counts DEF UseInv, UsesAreExact

LEMMA UseNext == UseInv /\ [CreationNext]_creationVars => UseInv'
<1> SUFFICES ASSUME UseInv, [CreationNext]_creationVars PROVE UseInv'
  OBVIOUS
<1>0. NumberInv'
  BY NumberNext DEF UseInv
<1>1. CASE UNCHANGED creationVars
  <2>1. \A q \in Requests : NewOrder(q)' = NewOrder(q)
    BY <1>1 DEF creationVars, NewOrder
  <2> QED
    BY <1>0, <1>1, <2>1, SameUses DEF creationVars, drift
<1>2. ASSUME NEW r \in Requests, Handler(r) PROVE UseInv'
  BY <1>0, <1>2, StillUses, NumberUses, ReserveUses, InsertUses, GiveBackUses, LostUses DEF Handler
<1> QED
  BY <1>1, <1>2 DEF CreationNext

LEMMA UseAlways == CreationSpec => []UseInv
BY UseInit, UseNext, PTL DEF CreationSpec

\* The count of uses is what the orders, the requests under way, the losses and
\* the uses given back add up to.
THEOREM UsesAlwaysExact == CreationSpec => []UsesAreExact
<1>1. UseInv => UsesAreExact
  BY DEF UseInv
<1> QED
  BY UseAlways, <1>1, PTL

LEMMA UseInvKeepsQuota == UseInv => QuotaKept
<1> SUFFICES ASSUME UseInv, MaxUsage > 0
             PROVE  Cardinality(Discounted) <= MaxUsage + regained
  BY DEF QuotaKept
<1> QED
  BY Counts, CreationAssumption DEF UseInv, UsesAreExact

\* The offer is granted beyond its limit only by as many orders as were given
\* back although they exist.
THEOREM QuotaAlwaysKept == CreationSpec => []QuotaKept
BY UseAlways, UseInvKeepsQuota, PTL

\* One order per client id under one number.
THEOREM OrdersAlwaysOnce == CreationSpec => []OrdersAreOnce
BY CreationTyped, AnswersAlwaysAgree, NumbersAlwaysDiffer, PTL DEF OrdersAreOnce

\* The count of uses is true and the limit of the offer holds.
THEOREM OfferAlwaysKept == CreationSpec => []OfferKept
BY UsesAlwaysExact, QuotaAlwaysKept, PTL DEF OfferKept

-----------------------------------------------------------------------------
(* The route creates orders as createWithOutcome does.                     *)

LEMMA KnownIsLookedUp ==
    ASSUME NEW r \in Requests, NEW c \in Clients, AnswersKnown(r, c)
    PROVE  CreationNext
BY DEF AnswersKnown, CreationNext, Handler

\* Every step of the route is a step of the creation, or leaves it alone.
LEMMA GateStepCreates ==
    ASSUME \A r \in Requests : ask[r].pc = "again" => ask[r].client \in Clients,
           [GateNext]_gateVars
    PROVE  [CreationNext]_creationVars
<1>1. CASE UNCHANGED gateVars
  BY <1>1 DEF gateVars
<1>2. ASSUME NEW r \in Requests, Route(r) PROVE [CreationNext]_creationVars
  <2>1. CASE \E c \in Clients : Arrive(r, c)
    BY <2>1, KnownIsLookedUp DEF Arrive
  <2>2. CASE LookAgain(r)
    BY <2>2, KnownIsLookedUp DEF LookAgain
  <2>3. CASE Create(r)
    BY <2>3 DEF Create, CreationNext
  <2>4. CASE Check(r) \/ Authorize(r) \/ TakeLock(r) \/ Recheck(r) \/ Created(r) \/ Unlock(r)
             \/ Release(r) \/ Fall(r)
    BY <2>4 DEF Check, Authorize, TakeLock, Recheck, Created, Unlock, Release, Fall
  <2> QED
    BY <1>2, <2>1, <2>2, <2>3, <2>4 DEF Route
<1>3. CASE (\E r \in Requests : WindowSlides(r)) \/ (\E s \in Spellings : LockRunsOut(s))
           \/ CounterSells \/ (\E o \in orders : Cancel(o))
  BY <1>3 DEF WindowSlides, LockRunsOut, CounterSells, Cancel
<1> QED
  BY <1>1, <1>2, <1>3 DEF GateNext, GateStep

-----------------------------------------------------------------------------
(* One step of the creation.                                               *)

\* What a step of createWithOutcome does to the request that runs it, and to
\* the orders.
LEMMA HandlerFacts ==
    ASSUME NumberInv, NEW r \in Requests, Handler(r)
    PROVE  /\ req[r].pc # "done" /\ ~answer[r].created
           /\ \A q \in Requests \ {r} : req'[q] = req[q] /\ answer'[q] = answer[q]
           /\ req[r].number # 0 => req'[r].number = req[r].number
           /\ req[r].number = 0 => req'[r].number = 0 \/ req'[r].pc = "insert"
           /\ \/ orders' = orders
              \/ orders' = orders \cup {NewOrder(r)} /\ req[r].pc = "insert"
<1>0. /\ req \in [Requests -> Request]
      /\ answer \in [Requests -> [number : Nat, created : BOOLEAN]]
      /\ RequestInv(r)
  BY DEF NumberInv, CreationTypeOK, Request
<1>1. ASSUME req[r].pc # "done" PROVE ~answer[r].created
  BY <1>0, <1>1 DEF RequestInv, NoAnswer
<1>2. ASSUME NEW c \in Clients, NEW code \in BOOLEAN, LookUp(r, c, code)
      PROVE  /\ req[r].pc = "idle" /\ orders' = orders /\ req[r].number = 0
             /\ req'[r].number = 0
             /\ \A q \in Requests \ {r} : req'[q] = req[q] /\ answer'[q] = answer[q]
  <2>1. /\ req[r].pc = "idle" /\ orders' = orders
        /\ \/ /\ req' = [req EXCEPT ![r].pc = "price", ![r].client = c, ![r].code = code]
              /\ UNCHANGED answer
           \/ \E o \in OrdersOf(c) :
                /\ req' = [req EXCEPT ![r].pc = "done", ![r].client = c]
                /\ answer' = [answer EXCEPT ![r] = [number |-> o.number, created |-> FALSE]]
    BY <1>2 DEF LookUp
  <2> QED
    BY <1>0, <2>1 DEF RequestInv, Request
<1>3. CASE \E c \in Clients, code \in BOOLEAN : LookUp(r, c, code)
  BY <1>1, <1>2, <1>3
<1>4. CASE Price(r) \/ InsertRefused(r) \/ InsertFails(r)
  <2>1. /\ req[r].pc # "done" /\ orders' = orders /\ answer' = answer
        /\ \E pc \in Steps : req' = [req EXCEPT ![r].pc = pc]
    BY <1>4 DEF Price, InsertRefused, InsertFails, Moves, Steps
  <2> QED
    BY <1>0, <1>1, <2>1 DEF Request
<1>5. CASE Reserve(r)
  <2>1. /\ req[r].pc = "reserve" /\ orders' = orders /\ answer' = answer
        /\ \/ req' = [req EXCEPT ![r].pc = "number", ![r].held = TRUE]
           \/ req' = [req EXCEPT ![r].pc = IF req[r].code THEN "done" ELSE "number"]
    BY <1>5 DEF Reserve, Moves
  <2> QED
    BY <1>0, <1>1, <2>1 DEF Request
<1>6. CASE Number(r)
  <2>1. /\ req[r].pc = "number" /\ orders' = orders /\ answer' = answer
        /\ req' = [req EXCEPT ![r].pc = "insert", ![r].number = NextNumber]
        /\ req[r].number = 0
    BY <1>0, <1>6 DEF Number, RequestInv
  <2> QED
    BY <1>0, <1>1, <2>1 DEF Request
<1>7. CASE Insert(r)
  BY <1>0, <1>1, <1>7 DEF Insert
<1>8. CASE InsertUnheard(r)
  BY <1>0, <1>1, <1>8 DEF InsertUnheard, Moves
<1>9. CASE GiveBack(r) \/ GiveBackFails(r) \/ Stop(r)
  <2>1. /\ req[r].pc # "done" /\ orders' = orders /\ answer' = answer
        /\ \E pc \in Steps : req' = [req EXCEPT ![r].pc = pc, ![r].held = FALSE]
    BY <1>9 DEF GiveBack, GiveBackFails, Stop, Steps
  <2> QED
    BY <1>0, <1>1, <2>1 DEF Request
<1>10. CASE Refind(r)
  BY <1>0, <1>1, <1>10 DEF Refind, AnswersExisting, Moves
<1> QED
  BY <1>3, <1>4, <1>5, <1>6, <1>7, <1>8, <1>9, <1>10 DEF Handler

\* The orders that bear a request's number, after a step of the creation: those
\* of the others are the same; its own is the one it inserts.
LEMMA OrderOfFacts ==
    ASSUME NumberInv, NumberInv', NEW r \in Requests, Handler(r)
    PROVE  /\ \A q \in Requests \ {r} : OrderOf(q)' = OrderOf(q)
           /\ orders' = orders => OrderOf(r)' = OrderOf(r)
           /\ orders' # orders => /\ OrderOf(r) = {} /\ OrderOf(r)' = {NewOrder(r)}
                                  /\ NewOrder(r) \notin orders
<1>0. req[r] \in Request /\ orders \subseteq Order
  BY DEF NumberInv, CreationTypeOK, Request, Order
<1>1. CASE orders' = orders
  <2>1. \A q \in Requests \ {r} : OrderOf(q)' = OrderOf(q)
    BY <1>1, HandlerFacts DEF OrderOf
  <2>2. CASE req[r].number # 0
    BY <1>1, <2>1, <2>2, HandlerFacts DEF OrderOf
  <2>3. CASE req[r].number = 0
    <3>1. OrderOf(r) = {}
      BY <2>3 DEF OrderOf, NumberInv, OrdersDrawn
    <3>2. OrderOf(r)' = {}
      BY <1>1, <2>3, HandlerFacts DEF OrderOf, NumberInv, OrdersDrawn, RequestInv
    <3> QED
      BY <1>1, <2>1, <3>1, <3>2
  <2> QED
    BY <2>2, <2>3
<1>2. CASE orders' # orders
  <2>1. /\ orders' = orders \cup {NewOrder(r)} /\ req[r].pc = "insert"
        /\ \A q \in Requests \ {r} : req'[q] = req[q]
        /\ req[r].number # 0 => req'[r].number = req[r].number
    BY <1>2, HandlerFacts
  <2>2. NewOrder(r).number = req[r].number /\ req[r].number # 0
        /\ \A o \in orders : o.number # req[r].number
    BY <2>1 DEF NewOrder, NumberInv, RequestInv
  <2>3. OrderOf(r) = {} /\ OrderOf(r)' = {NewOrder(r)} /\ NewOrder(r) \notin orders
    BY <2>1, <2>2 DEF OrderOf
  <2>4. \A q \in Requests \ {r} : OrderOf(q)' = OrderOf(q)
    BY <2>1, <2>2 DEF OrderOf, NumberInv, DrawnOnce
  <2> QED
    BY <1>2, <2>3, <2>4
<1> QED
  BY <1>1, <1>2
-----------------------------------------------------------------------------
(* The invariant.                                                          *)

\* The requests that are about to write in time.
About == {r \in Requests : Inside(r) /\ ask[r].pc = "create"}

\* These requests fill the slot, and take one place more for each further spelling.
Fits(R) == Cardinality(R) <= Capacity - 1 + Cardinality(Spelt(R))

\* Those that wrote in time and those about to: the latter read the capacity
\* under locks of their own, after the former or beside them.
PlacesInv == Fits(InTime \cup About)

\* Who has a reservation, and why.
ReservationsInv ==
    /\ QuotaCounts
    /\ \A r \in Requests :
         /\ Reserved(r) => r \in quota \cup leaked
         /\ answer[r].created => ask[r].pc \in {"create", "unlock", "done"}

\* A request past its arrival asks about a client id.
Asks == \A r \in Requests : ask[r].pc \notin {"out", "done"} => ask[r].client \in Clients

GateInv ==
    /\ UseInv
    /\ GateTypeOK /\ Asks
    /\ OneInside /\ PlacesInv /\ ReservationsInv

-----------------------------------------------------------------------------
(* Spellings.                                                              *)

\* A set of requests has as many spellings as requests at most; and exactly as many
\* when they spell the slot differently.
LEMMA SpellingsFew ==
    ASSUME NEW R \in SUBSET Requests, spelling \in [Requests -> Spellings]
    PROVE  /\ IsFiniteSet(R) /\ Cardinality(R) \in Nat
           /\ IsFiniteSet(Spelt(R)) /\ Cardinality(Spelt(R)) \in Nat
           /\ Cardinality(Spelt(R)) <= Cardinality(R)
           /\ (\A q, r \in R : spelling[q] = spelling[r] => q = r) =>
                Cardinality(R) <= Cardinality(Spelt(R))
<1> DEFINE f == [r \in R |-> spelling[r]]
<1>1. IsFiniteSet(R)
  BY FS_Subset, CreationAssumption
<1>2. f \in Surjection(R, Spelt(R))
  BY DEF Surjection, Spelt
<1>3. IsFiniteSet(Spelt(R)) /\ Cardinality(Spelt(R)) <= Cardinality(R)
  BY <1>1, <1>2, FS_Surjection
<1>4. ASSUME \A q, r \in R : spelling[q] = spelling[r] => q = r
      PROVE  Cardinality(R) <= Cardinality(Spelt(R))
  <2>1. f \in Injection(R, Spelt(R))
    BY <1>4 DEF Injection, IsInjective, Spelt
  <2> QED
    BY <1>3, <2>1, FS_Injection
<1> QED
  BY <1>1, <1>3, <1>4, FS_CardinalityType

\* Fewer requests fit where more did: one that leaves takes one spelling at most.
LEMMA FewerFit ==
    ASSUME NEW R \in SUBSET Requests, NEW Q \in SUBSET R, Fits(R),
           spelling \in [Requests -> Spellings]
    PROVE  Fits(Q)
<1> DEFINE D == R \ Q
<1>1. /\ IsFiniteSet(R) /\ Cardinality(R) \in Nat /\ Cardinality(Q) \in Nat
      /\ Cardinality(D) \in Nat /\ Cardinality(Spelt(D)) <= Cardinality(D)
      /\ IsFiniteSet(Spelt(Q)) /\ IsFiniteSet(Spelt(D))
      /\ Cardinality(Spelt(Q)) \in Nat /\ Cardinality(Spelt(D)) \in Nat
      /\ Cardinality(Spelt(R)) \in Nat
  BY SpellingsFew
<1>2. Cardinality(D) = Cardinality(R) - Cardinality(Q)
  <2>1. R \cap Q = Q
    OBVIOUS
  <2> QED
    BY <1>1, <2>1, FS_Difference
<1>3. Cardinality(Spelt(R)) <= Cardinality(Spelt(Q)) + Cardinality(Spelt(D))
  <2>1. Spelt(R) = Spelt(Q) \cup Spelt(D)
    BY DEF Spelt
  <2>2. /\ IsFiniteSet(Spelt(Q) \cap Spelt(D)) /\ Cardinality(Spelt(Q) \cap Spelt(D)) \in Nat
    BY <1>1, FS_Intersection, FS_CardinalityType
  <2>3. Cardinality(Spelt(Q) \cup Spelt(D)) =
          Cardinality(Spelt(Q)) + Cardinality(Spelt(D)) - Cardinality(Spelt(Q) \cap Spelt(D))
    BY <1>1, FS_Union
  <2> QED
    BY <1>1, <2>1, <2>2, <2>3
<1> HIDE DEF D
<1> QED
  BY <1>1, <1>2, <1>3, GateAssumption DEF Fits

LEMMA QuotaFinite ==
    ASSUME GateInv
    PROVE  /\ IsFiniteSet(quota) /\ Cardinality(quota) \in Nat
           /\ IsFiniteSet(InTime) /\ Cardinality(InTime) \in Nat
           /\ IsFiniteSet(orders \ cancelled) /\ Cardinality(orders \ cancelled) \in Nat
<1>1. quota \subseteq Requests /\ InTime \subseteq Requests
  BY DEF GateInv, GateTypeOK, InTime
<1>2. IsFiniteSet(quota) /\ IsFiniteSet(InTime)
  BY <1>1, FS_Subset, CreationAssumption
<1>3. IsFiniteSet(orders \ cancelled)
  BY FS_Subset DEF GateInv, UseInv
<1> QED
  BY <1>2, <1>3, FS_CardinalityType

\* The requests in time have an order each, which was not cancelled: the reading
\* of the capacity counts them all.
LEMMA InTimeIsRead ==
    ASSUME GateInv
    PROVE  Cardinality(InTime) <= Cardinality(orders \ cancelled)
<1> DEFINE f == [r \in InTime |-> CHOOSE o \in orders \ cancelled : o.number = req[r].number]
<1>1. ASSUME NEW r \in InTime
      PROVE  /\ f[r] \in orders \ cancelled /\ f[r].number = req[r].number /\ req[r].number # 0
  <2>1. \E o \in orders \ cancelled : o.number = req[r].number
    BY DEF InTime, OrderOf
  <2>2. f[r] \in orders \ cancelled /\ f[r].number = req[r].number
    BY <2>1
  <2> QED
    BY <2>2 DEF GateInv, UseInv, NumberInv, OrdersDrawn
<1>2. ASSUME NEW r \in InTime, NEW q \in InTime, f[r] = f[q] PROVE r = q
  <2>1. req[r].number = req[q].number /\ req[r].number # 0
    <3> HIDE DEF f
    <3> QED
      BY <1>1, <1>2
  <2> QED
    BY <2>1 DEF GateInv, UseInv, NumberInv, DrawnOnce, InTime
<1>3. f \in Injection(InTime, orders \ cancelled)
  BY <1>1, <1>2 DEF Injection, IsInjective
<1> QED
  BY <1>3, FS_Injection, QuotaFinite

LEMMA GateInitInv == GateInit => GateInv
<1> SUFFICES ASSUME GateInit PROVE GateInv
  OBVIOUS
<1>1. UseInv
  BY UseInit DEF GateInit
<1>2. Cardinality({}) = 0
  BY FS_EmptySet
<1>3. \A r \in Requests : ask[r].pc = "out" /\ ~answer[r].created
  BY DEF GateInit, CreationInit, NoAnswer
<1>4. GateTypeOK /\ Asks
  BY <1>2, GateAssumption DEF GateInit, GateTypeOK, RouteSteps, Asks
<1>5. OneInside
  BY <1>3 DEF OneInside, Inside
<1>6. PlacesInv
  <2>1. InTime = {}
    BY DEF InTime, OrderOf, GateInit, CreationInit
  <2>2. About = {}
    BY <1>3 DEF About
  <2>3. Spelt({}) = {}
    BY DEF Spelt
  <2> QED
    <3>1. InTime \cup About = {}
      BY <2>1, <2>2
    <3>2. Fits({})
      BY <1>2, <2>3, GateAssumption DEF Fits
    <3> QED
      BY <3>1, <3>2 DEF PlacesInv
<1>7. ReservationsInv
  BY <1>3 DEF ReservationsInv, QuotaCounts, Reserved, GateInit
<1> QED
  BY <1>1, <1>4, <1>5, <1>6, <1>7 DEF GateInv

\* The creation goes on under the route.
LEMMA GateUse == GateInv /\ [GateNext]_gateVars => UseInv'
BY GateStepCreates, UseNext DEF GateInv, Asks
-----------------------------------------------------------------------------
(* What the steps of the route do.                                         *)

InsideSteps == {"again", "recheck", "create", "giveUp", "throw"}

\* Every step of the route but those of createWithOutcome.
Around ==
    /\ \/ \E r \in Requests :
            \/ \E c \in Clients : Arrive(r, c)
            \/ Check(r) \/ Authorize(r) \/ TakeLock(r) \/ LookAgain(r) \/ Recheck(r)
            \/ Created(r) \/ Unlock(r) \/ Release(r) \/ Fall(r) \/ WindowSlides(r)
       \/ \E s \in Spellings : LockRunsOut(s)
       \/ CounterSells
       \/ \E o \in orders : Cancel(o)
    /\ UNCHANGED spelling

LEMMA GateNextSplit == GateNext => Around \/ \E r \in Requests : Create(r)
BY DEF GateNext, GateStep, Route, Around

\* An order that was known leaves the orders alone, and is no creation.
LEMMA KnownFacts ==
    ASSUME GateInv, NEW r \in Requests, NEW c \in Clients, AnswersKnown(r, c)
    PROVE  /\ orders' = orders
           /\ \A q \in Requests : answer'[q].created <=> answer[q].created
<1>1. NumberInv /\ Handler(r) /\ LookUp(r, c, FALSE)
  BY DEF AnswersKnown, Handler, GateInv, UseInv
<1>2. orders' = orders
  BY <1>1 DEF LookUp
<1>3. PICK o \in OrdersOf(c) :
         answer' = [answer EXCEPT ![r] = [number |-> o.number, created |-> FALSE]]
  BY <1>1 DEF LookUp, AnswersKnown
<1>4. answer \in [Requests -> [number : Nat, created : BOOLEAN]]
  BY <1>1 DEF NumberInv, CreationTypeOK
<1>5. ~answer'[r].created /\ ~answer[r].created
  BY <1>1, <1>3, <1>4, HandlerFacts
<1>6. \A q \in Requests \ {r} : answer'[q] = answer[q]
  BY <1>3, <1>4
<1> QED
  BY <1>2, <1>5, <1>6

LEMMA AroundFacts ==
    ASSUME GateInv, Around
    PROVE  /\ orders' = orders
           /\ \A q \in Requests : answer'[q].created <=> answer[q].created
<1>1. CASE UNCHANGED creationVars
  BY <1>1 DEF creationVars
<1>2. CASE \E r \in Requests, c \in Clients : AnswersKnown(r, c)
  BY <1>2, KnownFacts
<1>3. UNCHANGED creationVars \/ \E r \in Requests, c \in Clients : AnswersKnown(r, c)
  <2>1. ASSUME NEW r \in Requests, LookAgain(r), AnswersKnown(r, ask[r].client)
        PROVE  \E q \in Requests, c \in Clients : AnswersKnown(q, c)
    BY <2>1 DEF LookAgain, GateInv, Asks
  <2> QED
    BY <2>1 DEF Around, Arrive, Check, Authorize, TakeLock, LookAgain, Recheck, Created, Unlock,
        Release, Fall, WindowSlides, LockRunsOut, CounterSells, Cancel
<1> QED
  BY <1>1, <1>2, <1>3

\* A step that writes no order leaves every request the orders it had.
LEMMA OrdersOfSame ==
    ASSUME GateInv, [GateNext]_gateVars, orders' = orders, NEW q \in Requests
    PROVE  OrderOf(q)' = OrderOf(q)
<1>1. [CreationNext]_creationVars /\ NumberInv /\ NumberInv'
  BY GateStepCreates, NumberNext DEF GateInv, Asks, UseInv
<1>2. CASE UNCHANGED creationVars
  BY <1>2 DEF creationVars, OrderOf
<1>3. CASE CreationNext
  BY <1>1, <1>3, OrderOfFacts DEF CreationNext
<1> QED
  BY <1>1, <1>2, <1>3

-----------------------------------------------------------------------------
(* Types.                                                                  *)

Ask == [pc : RouteSteps, client : Clients \cup {None}]

LEMMA AroundTypes ==
    ASSUME GateInv, Around
    PROVE  GateTypeOK' /\ Asks'
<1>0. /\ ask \in [Requests -> Ask] /\ lock \in [Spellings -> Requests \cup {None}]
      /\ spelling \in [Requests -> Spellings] /\ spelling' = spelling
      /\ quota \subseteq Requests /\ Cardinality(quota) <= Quota
      /\ overran \subseteq Requests /\ leaked \subseteq Requests
      /\ cancelled \subseteq orders /\ counter \in Nat
      /\ orders' = orders
  BY AroundFacts DEF GateInv, GateTypeOK, Ask, Around
<1>1. ASSUME NEW r \in Requests, NEW c \in Clients, Arrive(r, c) PROVE GateTypeOK' /\ Asks'
  <2>1. /\ UNCHANGED <<lock, quota, counter, cancelled, overran, leaked>>
        /\ \E pc \in {"check", "done"} : ask' = [ask EXCEPT ![r] = [pc |-> pc, client |-> c]]
    BY <1>1 DEF Arrive, slotVars
  <2> QED
    BY <1>0, <2>1 DEF GateTypeOK, GateInv, Asks, Ask, RouteSteps
<1>2. ASSUME NEW r \in Requests, NEW pc \in RouteSteps \ {"out"}, Goes(r, pc),
             ask[r].pc \notin {"out", "done"}
      PROVE  ask' \in [Requests -> Ask] /\ Asks'
  BY <1>0, <1>2 DEF Goes, Asks, Ask, GateInv
<1>3. ASSUME NEW r \in Requests, Check(r) \/ LookAgain(r) \/ Recheck(r) \/ Created(r)
      PROVE  GateTypeOK' /\ Asks'
  <2>1. UNCHANGED <<lock, quota, counter, cancelled, overran, leaked>>
    BY <1>3 DEF Check, LookAgain, Recheck, Created, slotVars
  <2>2. ask[r].pc \notin {"out", "done"} /\ \E pc \in RouteSteps \ {"out"} : Goes(r, pc)
    BY <1>3 DEF Check, LookAgain, Recheck, Created, RouteSteps
  <2> QED
    BY <1>0, <1>2, <2>1, <2>2 DEF GateTypeOK, Ask
<1>4. ASSUME NEW r \in Requests, Authorize(r) PROVE GateTypeOK' /\ Asks'
  <2>1. UNCHANGED <<lock, counter, cancelled, overran>>
    BY <1>4 DEF Authorize, slotVars
  <2>2. ask[r].pc \notin {"out", "done"} /\ \E pc \in RouteSteps \ {"out"} : Goes(r, pc)
    BY <1>4 DEF Authorize, RouteSteps
  <2>3. leaked' \subseteq Requests /\ quota' \subseteq Requests
    BY <1>0, <1>4 DEF Authorize
  <2>4. quota' = quota \/ (quota' = quota \cup {r} /\ Cardinality(quota) < Quota)
    BY <1>4 DEF Authorize, Admitted
  <2>5. Cardinality(quota') <= Quota
    <3>1. IsFiniteSet(quota) /\ Cardinality(quota) \in Nat /\ Quota \in Nat
      BY QuotaFinite, GateAssumption
    <3>2. Cardinality(quota \cup {r}) = IF r \in quota THEN Cardinality(quota) ELSE Cardinality(quota) + 1
      BY <3>1, FS_AddElement
    <3> QED
      <4>1. Cardinality(quota) <= Quota
        BY <1>0
      <4>2. CASE quota' = quota
        BY <4>1, <4>2
      <4>3. CASE quota' = quota \cup {r} /\ Cardinality(quota) < Quota
        BY <3>1, <3>2, <4>3
      <4> QED
        BY <2>4, <4>2, <4>3
  <2> QED
    BY <1>0, <1>2, <2>1, <2>2, <2>3, <2>5 DEF GateTypeOK, Ask
<1>5. ASSUME NEW r \in Requests, TakeLock(r) \/ Unlock(r) PROVE GateTypeOK' /\ Asks'
  <2>1. UNCHANGED <<quota, counter, cancelled, overran, leaked>>
    BY <1>5 DEF TakeLock, Unlock, slotVars
  <2>2. ask[r].pc \notin {"out", "done"} /\ \E pc \in RouteSteps \ {"out"} : Goes(r, pc)
    BY <1>5 DEF TakeLock, Unlock, RouteSteps
  <2>3. lock' \in [Spellings -> Requests \cup {None}]
    BY <1>0, <1>5 DEF TakeLock, SetsLock, Unlock, Unlocked
  <2> QED
    BY <1>0, <1>2, <2>1, <2>2, <2>3 DEF GateTypeOK, Ask
<1>6. ASSUME quota' \subseteq quota PROVE quota' \subseteq Requests /\ Cardinality(quota') <= Quota
  <2>1. Cardinality(quota') <= Cardinality(quota) /\ Cardinality(quota') \in Nat
    BY <1>6, QuotaFinite, FS_Subset, FS_CardinalityType
  <2> QED
    BY <1>0, <1>6, <2>1, QuotaFinite, GateAssumption
<1>7. ASSUME NEW r \in Requests, Release(r) \/ Fall(r) PROVE GateTypeOK' /\ Asks'
  <2>1. UNCHANGED <<lock, counter, cancelled, overran>>
    BY <1>7 DEF Release, Fall, slotVars
  <2>2. ask[r].pc \notin {"out", "done"} /\ \E pc \in RouteSteps \ {"out"} : Goes(r, pc)
    BY <1>7 DEF Release, Fall, RouteSteps
  <2>3. leaked' \subseteq Requests /\ quota' \subseteq quota
    BY <1>0, <1>7 DEF Release, Fall, GivenUp
  <2> QED
    BY <1>0, <1>2, <1>6, <2>1, <2>2, <2>3 DEF GateTypeOK, Ask
<1>8. ASSUME NEW r \in Requests, WindowSlides(r) PROVE GateTypeOK' /\ Asks'
  <2>1. UNCHANGED <<ask, lock, counter, cancelled, overran>>
    BY <1>8 DEF WindowSlides, slotVars
  <2>2. leaked' \subseteq Requests /\ quota' \subseteq quota
    BY <1>0, <1>8 DEF WindowSlides
  <2> QED
    BY <1>0, <1>6, <2>1, <2>2 DEF GateTypeOK, Ask, GateInv, Asks
<1>9. ASSUME NEW s \in Spellings, LockRunsOut(s) PROVE GateTypeOK' /\ Asks'
  <2>1. UNCHANGED <<ask, quota, counter, cancelled, leaked>>
    BY <1>9 DEF LockRunsOut, slotVars
  <2>2. lock' \in [Spellings -> Requests \cup {None}] /\ overran' \subseteq Requests
    BY <1>0, <1>9 DEF LockRunsOut
  <2> QED
    BY <1>0, <2>1, <2>2 DEF GateTypeOK, Ask, GateInv, Asks
<1>10. CASE CounterSells \/ \E o \in orders : Cancel(o)
  BY <1>0, <1>10 DEF CounterSells, Cancel, slotVars, GateTypeOK, Ask, GateInv, Asks
<1> QED
  BY <1>1, <1>3, <1>4, <1>5, <1>7, <1>8, <1>9, <1>10 DEF Around
-----------------------------------------------------------------------------
(* The lock and the places.                                                *)

\* The request goes on to create by reading that a place is left.
Enters(r) == ask[r].pc = "recheck" /\ SlotOpen

\* Around the creation, nobody comes inside but by taking a lock that is free,
\* and the lock of whoever is inside is not let go but by its time.
LEMMA AroundInside ==
    ASSUME GateInv, Around
    PROVE  /\ overran \subseteq overran' /\ cancelled \subseteq cancelled'
           /\ \A q \in Requests : ask'[q].pc = "create" => ask[q].pc = "create" \/ Enters(q)
           /\ OneInside'
<1> DEFINE Goal == /\ overran \subseteq overran' /\ cancelled \subseteq cancelled'
                   /\ \A q \in Requests : ask'[q].pc = "create" => ask[q].pc = "create" \/ Enters(q)
                   /\ OneInside'
<1>0. /\ ask \in [Requests -> Ask] /\ lock \in [Spellings -> Requests \cup {None}]
      /\ spelling \in [Requests -> Spellings] /\ spelling' = spelling /\ None \notin Requests
      /\ \A q \in Requests : OrderOf(q)' = OrderOf(q)
      /\ \A q \in Requests : Inside(q) => lock[spelling[q]] = q
  <2>1. GateNext /\ spelling' = spelling
    BY DEF Around, GateNext, GateStep, Route
  <2> QED
    BY <2>1, AroundFacts, OrdersOfSame, GateAssumption DEF GateInv, GateTypeOK, Ask, OneInside
<1>1. ASSUME overran' = overran, cancelled' = cancelled, NEW r \in Requests,
             \A q \in Requests \ {r} :
                ask'[q] = ask[q] /\ (lock[spelling[q]] = q => lock'[spelling[q]] = q),
             ask'[r].pc \in InsideSteps => \/ ask[r].pc \in InsideSteps /\ lock' = lock
                                           \/ lock'[spelling[r]] = r,
             ask'[r].pc = "create" => Enters(r)
      PROVE  Goal
  BY <1>0, <1>1 DEF OneInside, Inside, InsideSteps
<1>2. ASSUME overran' = overran, cancelled \subseteq cancelled', lock' = lock, ask' = ask
      PROVE  Goal
  BY <1>0, <1>2 DEF OneInside, Inside
<1>3. ASSUME NEW r \in Requests,
             \/ \E c \in Clients : Arrive(r, c)
             \/ Check(r) \/ Authorize(r) \/ LookAgain(r) \/ Recheck(r)
             \/ Created(r) \/ Release(r) \/ Fall(r)
      PROVE  Goal
  <2>1. /\ lock' = lock /\ overran' = overran /\ cancelled' = cancelled
        /\ \A q \in Requests \ {r} : ask'[q] = ask[q]
    BY <1>0, <1>3 DEF Arrive, Check, Authorize, LookAgain, Recheck, Created, Release, Fall, Goes,
        slotVars
  <2>2. /\ ask'[r].pc \in InsideSteps => ask[r].pc \in InsideSteps
        /\ ask'[r].pc = "create" => Enters(r)
    <3>1. CASE \E c \in Clients : Arrive(r, c)
      BY <1>0, <3>1 DEF Arrive, InsideSteps, Ask
    <3>2. CASE Check(r) \/ Authorize(r) \/ LookAgain(r) \/ Release(r) \/ Fall(r)
      BY <1>0, <3>2 DEF Check, Authorize, LookAgain, Release, Fall, Goes, InsideSteps, Ask
    <3>3. CASE Recheck(r)
      BY <1>0, <3>3 DEF Recheck, Goes, InsideSteps, Ask, Enters
    <3>4. CASE Created(r)
      BY <1>0, <3>4 DEF Created, Goes, InsideSteps, Ask
    <3> QED
      BY <1>3, <3>1, <3>2, <3>3, <3>4
  <2> QED
    BY <1>1, <2>1, <2>2
<1>4. ASSUME NEW r \in Requests, TakeLock(r) PROVE Goal
  <2>1. /\ overran' = overran /\ cancelled' = cancelled
        /\ \A q \in Requests \ {r} : ask'[q] = ask[q]
        /\ \/ lock[spelling[r]] = None /\ lock' = [lock EXCEPT ![spelling[r]] = r]
           \/ lock' = lock
        /\ ask'[r].pc \in InsideSteps => lock'[spelling[r]] = r
        /\ ask'[r].pc # "create"
    BY <1>0, <1>4 DEF TakeLock, SetsLock, Goes, LockFree, slotVars, InsideSteps, Ask
  <2>2. \A q \in Requests \ {r} : lock[spelling[q]] = q => lock'[spelling[q]] = q
    BY <1>0, <2>1
  <2> QED
    BY <1>1, <2>1, <2>2
<1>5. ASSUME NEW r \in Requests, Unlock(r) PROVE Goal
  <2>1. /\ overran' = overran /\ cancelled' = cancelled
        /\ \A q \in Requests \ {r} : ask'[q] = ask[q]
        /\ \/ lock' = lock
           \/ lock[spelling[r]] = r /\ lock' = [lock EXCEPT ![spelling[r]] = None]
        /\ ask'[r].pc \notin InsideSteps
    BY <1>0, <1>5 DEF Unlock, Unlocked, Goes, slotVars, InsideSteps, Ask
  <2>2. ask'[r].pc # "create"
    BY <2>1 DEF InsideSteps
  <2>3. \A q \in Requests \ {r} : lock[spelling[q]] = q => lock'[spelling[q]] = q
    BY <1>0, <2>1
  <2> QED
    BY <1>1, <2>1, <2>2, <2>3
<1>6. ASSUME NEW s \in Spellings, LockRunsOut(s) PROVE Goal
  <2>1. /\ ask' = ask /\ cancelled' = cancelled /\ lock[s] # None /\ overran \subseteq overran'
        /\ OrderOf(lock[s]) = {} /\ ask[lock[s]].pc # "done" => lock[s] \in overran'
        /\ lock' = [lock EXCEPT ![s] = None]
    BY <1>6 DEF LockRunsOut, slotVars
  <2>2. ASSUME NEW q \in Requests, Inside(q)' PROVE lock'[spelling'[q]] = q
    <3>1. Inside(q) /\ q \notin overran' /\ lock[spelling[q]] = q
      BY <1>0, <2>1, <2>2 DEF Inside
    <3>2. spelling[q] # s
      BY <2>1, <3>1 DEF Inside
    <3> QED
      BY <1>0, <2>1, <3>1, <3>2
  <2> QED
    BY <2>1, <2>2 DEF OneInside
<1>7. CASE (\E r \in Requests : WindowSlides(r)) \/ CounterSells \/ (\E o \in orders : Cancel(o))
  BY <1>2, <1>7 DEF WindowSlides, CounterSells, Cancel, slotVars
<1> QED
  BY <1>3, <1>4, <1>5, <1>6, <1>7 DEF Around

LEMMA AroundPlaces ==
    ASSUME GateInv, Around
    PROVE  PlacesInv'
<1>0. GateNext
  BY DEF Around, GateNext, GateStep, Route
<1>1. /\ \A q \in Requests : OrderOf(q)' = OrderOf(q)
      /\ spelling \in [Requests -> Spellings] /\ spelling' = spelling
  BY <1>0, AroundFacts, OrdersOfSame DEF GateInv, GateTypeOK, Around
<1>2. InTime' \subseteq InTime
  BY <1>1, AroundInside DEF InTime
<1>3. ASSUME NEW q \in Requests, q \in About', q \notin About PROVE Enters(q)
  <2>1. q \notin overran /\ OrderOf(q) = {} /\ ask'[q].pc = "create"
    BY <1>1, <1>3, AroundInside DEF Inside, About
  <2>2. ask[q].pc # "create"
    BY <1>3, <2>1 DEF About, Inside
  <2> QED
    BY <2>1, <2>2, AroundInside
<1>4. InTime \cup About \in SUBSET Requests /\ (InTime' \cup About') \in SUBSET Requests
  BY <1>2 DEF InTime, About
<1>5. CASE About' \subseteq About
  <2>1. Fits(InTime' \cup About')
    BY <1>1, <1>2, <1>4, <1>5, FewerFit DEF GateInv, PlacesInv
  <2> QED
    BY <1>1, <2>1 DEF PlacesInv, Fits, Spelt
<1>6. CASE \E q \in Requests : Enters(q)
  <2> DEFINE I == InTime'
             P == About'
  <2>1. Cardinality(orders \ cancelled) < Capacity
    BY <1>6, QuotaFinite, GateAssumption DEF Enters, SlotOpen, GateInv, GateTypeOK
  <2>2. Cardinality(I) <= Cardinality(InTime) /\ IsFiniteSet(I) /\ Cardinality(I) \in Nat
    BY <1>2, QuotaFinite, FS_Subset, FS_CardinalityType
  <2>3. Cardinality(I) <= Capacity - 1
    BY <2>1, <2>2, InTimeIsRead, QuotaFinite, GateAssumption
  <2>4. P \in SUBSET Requests /\ I \cup P \in SUBSET Requests /\ Spelt(P) \subseteq Spelt(I \cup P)
    BY <1>4 DEF Spelt
  <2>5. \A q, r \in P : spelling[q] = spelling[r] => q = r
    BY <1>1, AroundInside DEF About, OneInside
  <2>6. /\ IsFiniteSet(P) /\ Cardinality(P) \in Nat /\ IsFiniteSet(Spelt(P))
        /\ Cardinality(Spelt(P)) \in Nat /\ Cardinality(P) <= Cardinality(Spelt(P))
        /\ IsFiniteSet(Spelt(I \cup P)) /\ Cardinality(Spelt(I \cup P)) \in Nat
        /\ Cardinality(I \cup P) \in Nat
    <3> HIDE DEF I, P
    <3> QED
      BY <1>1, <2>4, <2>5, SpellingsFew
  <2>7. Cardinality(Spelt(P)) <= Cardinality(Spelt(I \cup P))
    <3> HIDE DEF I, P
    <3> QED
      BY <2>4, <2>6, FS_Subset
  <2>8. Cardinality(I \cup P) <= Cardinality(I) + Cardinality(P)
    <3> HIDE DEF I, P
    <3>1. IsFiniteSet(I \cap P) /\ Cardinality(I \cap P) \in Nat
      BY <2>2, <2>6, FS_Intersection, FS_CardinalityType
    <3>2. Cardinality(I \cup P) = Cardinality(I) + Cardinality(P) - Cardinality(I \cap P)
      BY <2>2, <2>6, FS_Union
    <3> QED
      BY <2>2, <2>6, <3>1, <3>2
  <2>9. Fits(I \cup P)
    <3> HIDE DEF I, P
    <3> QED
      BY <2>2, <2>3, <2>6, <2>7, <2>8, GateAssumption DEF Fits
  <2> QED
    BY <1>1, <2>9 DEF PlacesInv, Fits, Spelt
<1> QED
  BY <1>3, <1>5, <1>6 DEF About

-----------------------------------------------------------------------------
(* The reservations.                                                       *)

LEMMA AroundReservations ==
    ASSUME GateInv, Around
    PROVE  ReservationsInv'
<1> DEFINE Kept(q) == /\ answer[q].created => q \in quota \cup leaked
                      /\ q \in quota \ leaked => Reserved(q) \/ answer[q].created
                      /\ Reserved(q) => q \in quota \cup leaked
                      /\ answer[q].created => ask[q].pc \in {"create", "unlock", "done"}
<1>0. /\ ask \in [Requests -> Ask]
      /\ \A q \in Requests : answer'[q].created <=> answer[q].created
      /\ \A q \in Requests : Kept(q)
  BY AroundFacts DEF GateInv, GateTypeOK, Ask, ReservationsInv, QuotaCounts
<1>1. ASSUME \A q \in Requests : Kept(q)', quota' \subseteq Requests PROVE ReservationsInv'
  BY <1>1 DEF ReservationsInv, QuotaCounts
<1>2. quota' \subseteq Requests
  BY AroundTypes DEF GateTypeOK
<1>3. ASSUME NEW r \in Requests,
             \A q \in Requests \ {r} : ask'[q] = ask[q] /\ (q \in quota' <=> q \in quota)
                                       /\ (q \in leaked' <=> q \in leaked),
             Kept(r)'
      PROVE  \A q \in Requests : Kept(q)'
  BY <1>0, <1>3 DEF Reserved
<1>4. ASSUME NEW r \in Requests,
             \/ \E c \in Clients : Arrive(r, c)
             \/ Check(r) \/ TakeLock(r) \/ LookAgain(r) \/ Recheck(r)
             \/ Created(r) \/ Unlock(r)
      PROVE  ReservationsInv'
  <2>1. /\ quota' = quota /\ leaked' = leaked
        /\ \A q \in Requests \ {r} : ask'[q] = ask[q]
    BY <1>0, <1>4 DEF Arrive, Check, TakeLock, LookAgain, Recheck, Created, Unlock, Goes
  <2>2. Kept(r)'
    <3>1. CASE \E c \in Clients : Arrive(r, c)
      BY <1>0, <2>1, <3>1 DEF Arrive, Reserved, Ask
    <3>2. CASE Check(r) \/ TakeLock(r) \/ Recheck(r) \/ LookAgain(r)
      BY <1>0, <2>1, <3>2 DEF Check, TakeLock, Recheck, LookAgain, Goes, Reserved, Ask
    <3>3. CASE Created(r)
      <4>1. ask[r].pc = "create" /\ ask' = [ask EXCEPT ![r].pc =
                 CASE answer[r].created -> "unlock"
                   [] answer[r].number = 0 -> "throw"
                   [] OTHER -> "giveUp"]
        BY <3>3 DEF Created, Goes
      <4>2. answer[r].created => answer[r].number # 0
        BY DEF GateInv, UseInv, NumberInv, RequestInv
      <4>3. ask'[r].pc = CASE answer[r].created -> "unlock"
                           [] answer[r].number = 0 -> "throw"
                           [] OTHER -> "giveUp"
        BY <1>0, <4>1 DEF Ask
      <4>4. /\ answer[r].created => ask'[r].pc = "unlock"
            /\ ~answer[r].created => ask'[r].pc \in {"throw", "giveUp"}
        BY <4>2, <4>3
      <4> QED
        BY <1>0, <2>1, <4>1, <4>4 DEF Reserved, Ask
    <3>4. CASE Unlock(r)
      BY <1>0, <2>1, <3>4 DEF Unlock, Goes, Reserved, Ask
    <3> QED
      BY <1>4, <3>1, <3>2, <3>3, <3>4
  <2> QED
    BY <1>1, <1>2, <1>3, <2>1, <2>2
<1>5. ASSUME NEW r \in Requests, Authorize(r) \/ Release(r) \/ Fall(r) \/ WindowSlides(r)
      PROVE  ReservationsInv'
  <2>1. \A q \in Requests \ {r} : /\ ask'[q] = ask[q]
                                  /\ q \in quota' <=> q \in quota
                                  /\ q \in leaked' <=> q \in leaked
    BY <1>0, <1>5 DEF Authorize, Release, Fall, WindowSlides, Goes, GivenUp
  <2>2. Kept(r)'
    <3>1. CASE Authorize(r)
      BY <1>0, <3>1 DEF Authorize, Goes, Reserved, Ask
    <3>2. CASE Release(r)
      BY <1>0, <3>2 DEF Release, GivenUp, Goes, Reserved, Ask
    <3>3. CASE Fall(r)
      BY <1>0, <3>3 DEF Fall, Goes, Reserved, Ask
    <3>4. CASE WindowSlides(r)
      BY <1>0, <3>4 DEF WindowSlides, Reserved
    <3> QED
      BY <1>5, <3>1, <3>2, <3>3, <3>4
  <2> QED
    BY <1>1, <1>2, <1>3, <2>1, <2>2
<1>6. CASE (\E s \in Spellings : LockRunsOut(s)) \/ CounterSells \/ \E o \in orders : Cancel(o)
  <2>1. UNCHANGED <<ask, quota, leaked>>
    BY <1>6 DEF LockRunsOut, CounterSells, Cancel
  <2> QED
    BY <1>0, <1>1, <1>2, <2>1 DEF Reserved
<1> QED
  BY <1>4, <1>5, <1>6 DEF Around
-----------------------------------------------------------------------------
(* The creation itself.                                                    *)

LEMMA CreateInv ==
    ASSUME GateInv, UseInv', NEW r \in Requests, Create(r)
    PROVE  GateInv'
<1>0. /\ NumberInv /\ NumberInv' /\ Handler(r) /\ ask[r].pc = "create"
      /\ UNCHANGED <<ask, spelling, lock, quota, counter, cancelled, overran, leaked>>
      /\ spelling \in [Requests -> Spellings]
  BY DEF Create, GateInv, GateTypeOK, UseInv, routeVars, slotVars
<1>1. orders \subseteq orders'
  BY <1>0, HandlerFacts
<1>2. GateTypeOK' /\ Asks'
  BY <1>0, <1>1 DEF GateInv, GateTypeOK, Asks
<1>3. \A q \in Requests : OrderOf(q)' = {} => OrderOf(q) = {}
  BY <1>0, OrderOfFacts
<1>4. \A q \in Requests : Inside(q)' => Inside(q)
  BY <1>0, <1>3 DEF Inside
<1>5. OneInside'
  BY <1>0, <1>4 DEF GateInv, OneInside
<1>6. PlacesInv'
  <2>1. About' \subseteq About
    BY <1>0, <1>4 DEF About
  <2>2. InTime' \subseteq InTime \cup About
    <3>1. CASE orders' = orders \/ r \in overran
      BY <1>0, <3>1, OrderOfFacts DEF InTime
    <3>2. CASE orders' # orders /\ r \notin overran
      <4>1. OrderOf(r) = {} /\ \A q \in Requests \ {r} : OrderOf(q)' = OrderOf(q)
        BY <1>0, <3>2, OrderOfFacts
      <4>2. r \in About
        BY <1>0, <3>2, <4>1 DEF About, Inside
      <4> QED
        BY <1>0, <4>1, <4>2 DEF InTime
    <3> QED
      BY <3>1, <3>2
  <2>3. InTime \cup About \in SUBSET Requests
    BY DEF InTime, About
  <2>4. Fits(InTime' \cup About')
    BY <1>0, <2>1, <2>2, <2>3, FewerFit DEF GateInv, PlacesInv
  <2> QED
    BY <1>0, <2>4 DEF PlacesInv, Fits, Spelt
<1>7. ReservationsInv'
  <2>1. Reserved(r) /\ r \in quota \cup leaked
    BY <1>0 DEF Reserved, GateInv, ReservationsInv
  <2>2. \A q \in Requests \ {r} : answer'[q] = answer[q]
    BY <1>0, HandlerFacts
  <2>3. \A q \in Requests : Reserved(q)' <=> Reserved(q)
    BY <1>0 DEF Reserved
  <2>4. quota \subseteq Requests
    BY DEF GateInv, GateTypeOK
  <2> QED
    BY <1>0, <2>1, <2>2, <2>3, <2>4 DEF GateInv, ReservationsInv, QuotaCounts
<1> QED
  BY <1>2, <1>5, <1>6, <1>7 DEF GateInv

LEMMA GateNextInv == GateInv /\ [GateNext]_gateVars => GateInv'
<1> SUFFICES ASSUME GateInv, [GateNext]_gateVars PROVE GateInv'
  OBVIOUS
<1>0. UseInv'
  BY GateUse
<1>1. CASE UNCHANGED gateVars
  <2>1. UNCHANGED <<ask, spelling, lock, quota, counter, cancelled, overran, leaked, orders, answer, req>>
    BY <1>1 DEF gateVars, routeVars, slotVars, creationVars
  <2>2. \A q \in Requests : /\ OrderOf(q)' = OrderOf(q) /\ (Reserved(q)' <=> Reserved(q))
                            /\ (Inside(q)' <=> Inside(q))
    BY <2>1 DEF OrderOf, Reserved, Inside
  <2>3. InTime' = InTime /\ About' = About
    BY <2>1, <2>2 DEF InTime, About
  <2>4. GateTypeOK' /\ Asks'
    BY <2>1 DEF GateInv, GateTypeOK, Asks
  <2>5. OneInside' /\ PlacesInv'
    <3>1. OneInside'
      BY <2>1, <2>2 DEF GateInv, OneInside
    <3>2. PlacesInv'
      BY <2>1, <2>3 DEF GateInv, PlacesInv, Fits, Spelt
    <3> QED
      BY <3>1, <3>2
  <2>6. ReservationsInv'
    <3>1. quota \subseteq Requests /\ quota' = quota /\ leaked' = leaked /\ ask' = ask
          /\ answer' = answer
      BY <2>1 DEF GateInv, GateTypeOK
    <3>2. ReservationsInv
      BY DEF GateInv
    <3> QED
      BY <2>2, <3>1, <3>2 DEF ReservationsInv, QuotaCounts
  <2> QED
    BY <1>0, <2>4, <2>5, <2>6 DEF GateInv
<1>2. CASE Around
  BY <1>0, <1>2, AroundTypes, AroundInside, AroundPlaces, AroundReservations DEF GateInv
<1>3. CASE \E r \in Requests : Create(r)
  BY <1>0, <1>3, CreateInv
<1> QED
  BY <1>1, <1>2, <1>3, GateNextSplit

LEMMA GateAlways == GateSpec => []GateInv
BY GateInitInv, GateNextInv, PTL DEF GateSpec

-----------------------------------------------------------------------------
(* The theorems.                                                           *)

\* The route creates orders by createWithOutcome alone.
LEMMA GateCreates == GateSpec => CreationSpec
<1>1. GateInit => CreationInit
  BY DEF GateInit
<1>2. GateInv /\ [GateNext]_gateVars => [CreationNext]_creationVars
  BY GateStepCreates DEF GateInv, Asks
<1> QED
  BY <1>1, <1>2, GateAlways, PTL DEF GateSpec, CreationSpec

\* The requests of the route, the lock and the reservations keep their types.
THEOREM GateTyped == GateSpec => []GateTypeOK
<1>1. GateInv => GateTypeOK
  BY DEF GateInv
<1> QED
  BY GateAlways, <1>1, PTL

\* Whoever is between the second reading and its order holds the lock of its
\* spelling, unless its time has run out.
THEOREM AlwaysOneInside == GateSpec => []OneInside
<1>1. GateInv => OneInside
  BY DEF GateInv
<1> QED
  BY GateAlways, <1>1, PTL

\* Requests that write within the life of their lock never sell the slot beyond
\* its capacity, but for one place more by each further spelling among them.
THEOREM PlacesAlwaysKept == GateSpec => []PlacesKept
<1>1. GateInv => PlacesKept
  <2> SUFFICES ASSUME GateInv PROVE PlacesKept
    OBVIOUS
  <2>1. /\ InTime \cup About \in SUBSET Requests /\ InTime \in SUBSET (InTime \cup About)
        /\ Fits(InTime \cup About) /\ spelling \in [Requests -> Spellings]
    BY DEF InTime, About, GateInv, PlacesInv, GateTypeOK
  <2> QED
    BY <2>1, FewerFit DEF Fits, PlacesKept
<1> QED
  BY GateAlways, <1>1, PTL

\* A creation that was told is counted, and a reservation is for something.
THEOREM QuotaAlwaysCounts == GateSpec => []QuotaCounts
<1>1. GateInv => QuotaCounts
  BY DEF GateInv, ReservationsInv
<1> QED
  BY GateAlways, <1>1, PTL

\* The lock and the capacity of the slot hold.
THEOREM SlotAlwaysKept == GateSpec => []SlotKept
BY GateTyped, AlwaysOneInside, PlacesAlwaysKept, PTL DEF SlotKept

\* What was proved of the creation holds of the public route.
COROLLARY GateCreatesWell == GateSpec => [](OrdersAreOnce /\ OfferKept)
BY GateCreates, OrdersAlwaysOnce, OfferAlwaysKept, PTL
=============================================================================
