---------------------------- MODULE BillingProofs ----------------------------
(***************************************************************************)
(* Proofs about Billing, for any number of gestures, under way together or *)
(* not.                                                                    *)
(*                                                                         *)
(* The numbering rests on what the gestures hold.  No two of them hold the *)
(* same number, and the counter has passed each one: it can only go back   *)
(* over the number of the gesture that gives it back.  A number that is    *)
(* held and borne by a piece was lost with an answer.                      *)
(***************************************************************************)
EXTENDS Billing, SequenceTheorems, FiniteSetTheorems, TLAPS

Invoice == [number : Nat \ {0}, kind : {"abonnement", "avoir"}, corrects : Nat,
            status : Statuses, settled : BOOLEAN, reminders : Nat]

Gesture == [pc : {"idle", "write", "number", "insert", "giveBack", "journal", "done"},
            does : {"none", "issue", "draft", "send", "remind", "pay", "cancel", "credit"},
            target : Nat, number : Nat]

\* Numbers drawn, whose piece is to be written or given up.
Holding == {g \in Gestures : gesture[g].pc \in {"insert", "giveBack"}}

Typed == /\ invoices \in Seq(Invoice) /\ seq \in Nat
         /\ gesture \in [Gestures -> Gesture]
         /\ journal \subseteq Numbers /\ unheard \subseteq Numbers /\ untold \subseteq Numbers

\* The gestures that may have written a reminder on a piece.
Reminders(i) == {g \in Gestures : gesture[g].pc = "done" /\ gesture[g].does = "remind"
                                  /\ gesture[g].target = i}
RemindersCounted == \A i \in Places : invoices[i].reminders <= Cardinality(Reminders(i))

\* Each held number is held once, under the counter; borne already, it was lost.
HeldOnce == \A g, h \in Holding : gesture[g].number = gesture[h].number => g = h
HeldBelow == \A g \in Holding : gesture[g].number \in 1..seq
HeldIsFree == \A g \in Holding : gesture[g].number \in Numbers => gesture[g].number \in unheard

\* A gesture that writes has its piece; one that credits, a piece that was paid.
Paid(i) == i \in Places /\ invoices[i].kind = "abonnement" /\ invoices[i].settled
TargetsHold ==
    \A g \in Gestures :
        /\ gesture[g].pc = "write" => /\ gesture[g].target \in Places
                                      /\ gesture[g].does \in {"send", "remind", "pay", "cancel"}
        /\ gesture[g].pc \in {"number", "insert"} /\ gesture[g].does = "credit"
             => Paid(gesture[g].target)
        /\ gesture[g].pc = "journal" => gesture[g].number \in Numbers
PaidIsSettled == \A i \in Places : invoices[i].status = "payee" => invoices[i].settled
CreditsPaid == \A i \in Places : invoices[i].kind = "avoir" => Paid(invoices[i].corrects)

NumberInv == NumbersDiffer /\ HolesAreKnown /\ CounterIsAhead
             /\ HeldOnce /\ HeldBelow /\ HeldIsFree
PieceInv == RemindersCounted /\ TargetsHold /\ PaidIsSettled /\ CreditsPaid /\ PiecesAreTold
BillingIInv == Typed /\ NumberInv /\ PieceInv
-----------------------------------------------------------------------------
(* What a step does to the collection.                                     *)

LEMMA PiecesTyped == ASSUME invoices \in Seq(Invoice), NEW i \in Places PROVE invoices[i] \in Invoice
BY ElementOfSeq DEF Places

\* A piece is written after the others, which stay as they were.
LEMMA PieceAppended ==
    ASSUME invoices \in Seq(Invoice), NEW p \in Invoice, invoices' = Append(invoices, p)
    PROVE  /\ invoices' \in Seq(Invoice)
           /\ Places' = Places \cup {Len(invoices) + 1} /\ Len(invoices) + 1 \notin Places
           /\ \A i \in Places : invoices'[i] = invoices[i]
           /\ invoices'[Len(invoices) + 1] = p
           /\ Numbers' = Numbers \cup {p.number}
<1>1. /\ invoices' \in Seq(Invoice) /\ Len(invoices') = Len(invoices) + 1
      /\ \A i \in 1..Len(invoices) : invoices'[i] = invoices[i]
      /\ invoices'[Len(invoices) + 1] = p
  BY AppendProperties
<1>2. Len(invoices) \in Nat
  BY LenProperties
<1>3. Places' = Places \cup {Len(invoices) + 1} /\ Len(invoices) + 1 \notin Places
  BY <1>1, <1>2 DEF Places
<1>4. Numbers' = Numbers \cup {p.number}
  BY <1>1, <1>3 DEF Numbers, Places
<1> QED BY <1>1, <1>3, <1>4 DEF Places

\* A piece that is written again keeps its place and its number.
LEMMA PieceRewritten ==
    ASSUME invoices \in Seq(Invoice), NEW k \in Places, NEW p \in Invoice,
           p.number = invoices[k].number, invoices' = [invoices EXCEPT ![k] = p]
    PROVE  /\ invoices' \in Seq(Invoice)
           /\ Places' = Places /\ Numbers' = Numbers
           /\ invoices'[k] = p
           /\ \A i \in Places : i # k => invoices'[i] = invoices[i]
<1>1. /\ invoices' \in Seq(Invoice) /\ Len(invoices') = Len(invoices)
      /\ \A i \in 1..Len(invoices) : invoices'[i] = IF i = k THEN p ELSE invoices[i]
  BY ExceptSeq DEF Places
<1>2. Places' = Places
  BY <1>1 DEF Places
<1>3. Numbers' = Numbers
  BY <1>1, <1>2 DEF Numbers, Places
<1> QED BY <1>1, <1>2, <1>3 DEF Places

\* The piece a gesture writes, and what it makes of the piece it is about, are pieces.
LEMMA PieceIsInvoice ==
    ASSUME BillingIInv, NEW g \in Holding PROVE Piece(g) \in Invoice
BY DEF BillingIInv, Typed, NumberInv, HeldBelow, Holding, Piece, Invoice, Gesture, Statuses

LEMMA RewrittenIsInvoice ==
    ASSUME BillingIInv, NEW g \in Gestures, gesture[g].pc = "write"
    PROVE  /\ gesture[g].target \in Places
           /\ Rewritten(g) \in Invoice
           /\ Rewritten(g).number = invoices[gesture[g].target].number
           /\ Rewritten(g).kind = invoices[gesture[g].target].kind
           /\ Rewritten(g).corrects = invoices[gesture[g].target].corrects
           /\ invoices[gesture[g].target].settled => Rewritten(g).settled
           /\ Rewritten(g).status = "payee" => Rewritten(g).settled
           /\ Rewritten(g).reminders =
                IF gesture[g].does = "remind" THEN invoices[gesture[g].target].reminders + 1
                ELSE invoices[gesture[g].target].reminders
<1>1. /\ gesture[g].target \in Places
      /\ gesture[g].does \in {"send", "remind", "pay", "cancel"}
  BY DEF BillingIInv, PieceInv, TargetsHold
<1>2. invoices[gesture[g].target] \in Invoice
  BY <1>1, ElementOfSeq DEF BillingIInv, Typed, Places
<1>3. invoices[gesture[g].target].status = "payee" => invoices[gesture[g].target].settled
  BY <1>1 DEF BillingIInv, PieceInv, PaidIsSettled
<1> DEFINE old == invoices[gesture[g].target]
           status == Becomes[gesture[g].does]
           settled == old.settled \/ gesture[g].does = "pay"
<1>4. CASE gesture[g].does = "remind"
  <2>1. Rewritten(g) = [old EXCEPT !.reminders = old.reminders + 1]
    BY <1>4 DEF Rewritten
  <2> QED BY <1>1, <1>2, <1>3, <1>4, <2>1 DEF Invoice
<1>5. CASE gesture[g].does # "remind"
  <2>1. status \in Statuses /\ (status = "payee" => gesture[g].does = "pay")
    BY <1>1, <1>5 DEF Becomes, Statuses
  <2>2. settled \in BOOLEAN /\ (old.settled => settled) /\ (gesture[g].does = "pay" => settled)
    OBVIOUS
  <2>3. Rewritten(g) = [old EXCEPT !.status = status, !.settled = settled]
    BY <1>5 DEF Rewritten
  <2> HIDE DEF status, settled
  <2>4. /\ Rewritten(g) \in Invoice /\ Rewritten(g).status = status
        /\ Rewritten(g).settled = settled
        /\ Rewritten(g).number = old.number /\ Rewritten(g).kind = old.kind
        /\ Rewritten(g).corrects = old.corrects /\ Rewritten(g).reminders = old.reminders
    BY <1>2, <2>1, <2>2, <2>3 DEF Invoice
  <2> QED BY <1>1, <1>5, <2>1, <2>2, <2>4
<1> QED BY <1>4, <1>5

\* Write, with the piece it writes.
LEMMA WriteRewrites ==
    ASSUME BillingIInv, NEW g \in Gestures, Write(g)
    PROVE  /\ invoices' \in Seq(Invoice) /\ Places' = Places /\ Numbers' = Numbers
           /\ invoices'[gesture[g].target] = Rewritten(g)
           /\ \A i \in Places : i # gesture[g].target => invoices'[i] = invoices[i]
<1>1. gesture[g].pc = "write"
      /\ invoices' = [invoices EXCEPT ![gesture[g].target] = Rewritten(g)]
  BY DEF Write
<1> QED BY <1>1, RewrittenIsInvoice, PieceRewritten DEF BillingIInv, Typed

\* Inserting, heard of or not, with the piece that is written.
LEMMA InsertAppends ==
    ASSUME BillingIInv, NEW g \in Gestures, Insert(g) \/ InsertUnheard(g)
    PROVE  /\ g \in Holding /\ gesture[g].pc = "insert" /\ gesture[g].number \notin Numbers
           /\ invoices' \in Seq(Invoice)
           /\ Places' = Places \cup {Len(invoices) + 1} /\ Len(invoices) + 1 \notin Places
           /\ \A i \in Places : invoices'[i] = invoices[i]
           /\ invoices'[Len(invoices) + 1] = Piece(g)
           /\ Numbers' = Numbers \cup {gesture[g].number}
<1>1. g \in Holding /\ gesture[g].pc = "insert" /\ gesture[g].number \notin Numbers
      /\ invoices' = Append(invoices, Piece(g))
  BY DEF Insert, InsertUnheard, Duplicate, Holding
<1>2. Piece(g).number = gesture[g].number
  BY DEF Piece
<1> QED BY <1>1, <1>2, PieceIsInvoice, PieceAppended DEF BillingIInv, Typed
-----------------------------------------------------------------------------
(* Types.                                                                  *)

LEMMA StepTyped == BillingIInv /\ [BillingNext]_billingVars => Typed'
<1> SUFFICES ASSUME BillingIInv, [BillingNext]_billingVars PROVE Typed'
  OBVIOUS
<1> USE DEF BillingIInv, Typed
<1>1. CASE UNCHANGED billingVars
  BY <1>1 DEF billingVars, accidents, Numbers, Places
<1>2. ASSUME NEW g \in Gestures, Handles(g) PROVE Typed'
  <2>1. ASSUME NEW does \in {"issue", "draft"}, Issue(g, does) PROVE Typed'
    <3>1. gesture' \in [Gestures -> Gesture]
      <4> DEFINE pc == IF Twin THEN "done" ELSE "number"
                 q == [gesture[g] EXCEPT !.does = does, !.pc = pc]
      <4>1. gesture' = [gesture EXCEPT ![g] = q]
        BY <2>1 DEF Issue
      <4>2. pc \in {"done", "number"}
        OBVIOUS
      <4>3. q \in Gesture
        BY <2>1, <4>2 DEF Issue, Gesture
      <4> QED BY <4>1, <4>3
    <3>2. UNCHANGED <<invoices, seq, journal, accidents>>
      BY <2>1 DEF Issue
    <3> QED BY <3>1, <3>2 DEF accidents, Numbers, Places
  <2>2. ASSUME NEW does \in {"send", "remind", "pay", "cancel", "credit"}, NEW i \in Places,
               Read(g, does, i)
        PROVE  Typed'
    <3>1. i \in Nat
      BY LenProperties DEF Places
    <3>2. gesture' \in [Gestures -> Gesture]
      <4> DEFINE pc == IF ~Allows(i, does) THEN "done"
                       ELSE IF does = "credit" THEN "number" ELSE "write"
                 q == [gesture[g] EXCEPT !.does = does, !.target = i, !.pc = pc]
      <4>1. gesture' = [gesture EXCEPT ![g] = q]
        BY <2>2 DEF Read
      <4>2. pc \in {"done", "number", "write"}
        OBVIOUS
      <4> HIDE DEF pc
      <4>3. q \in Gesture
        BY <2>2, <3>1, <4>2 DEF Read, Gesture
      <4> QED BY <4>1, <4>3
    <3>3. UNCHANGED <<invoices, seq, journal, accidents>>
      BY <2>2 DEF Read
    <3> QED BY <3>2, <3>3 DEF accidents, Numbers, Places
  <2>3. CASE Write(g)
    <3>1. gesture' \in [Gestures -> Gesture]
      BY <2>3 DEF Write, Goes, Gesture
    <3>2. UNCHANGED <<seq, journal, accidents>>
      BY <2>3 DEF Write
    <3>3. invoices' \in Seq(Invoice) /\ Numbers' = Numbers
      BY <2>3, WriteRewrites
    <3> QED BY <3>1, <3>2, <3>3 DEF accidents
  <2>4. CASE Number(g)
    <3>1. gesture' \in [Gestures -> Gesture]
      <4> DEFINE q == [gesture[g] EXCEPT !.number = seq + 1, !.pc = "insert"]
      <4>1. gesture' = [gesture EXCEPT ![g] = q]
        BY <2>4 DEF Number
      <4>2. gesture[g] \in Gesture /\ seq + 1 \in Nat
        OBVIOUS
      <4> HIDE DEF BillingIInv, Typed
      <4>3. q \in Gesture
        BY <4>2 DEF Gesture
      <4> QED BY <4>1, <4>3 DEF BillingIInv, Typed
    <3> QED BY <2>4, <3>1 DEF Number, accidents, Numbers, Places
  <2>5. CASE Insert(g)
    <3>1. gesture' \in [Gestures -> Gesture]
      BY <2>5 DEF Insert, Goes, Gesture
    <3> QED BY <2>5, <3>1, InsertAppends DEF Insert, accidents
  <2>6. CASE InsertUnheard(g)
    <3>1. gesture' \in [Gestures -> Gesture]
      BY <2>6 DEF InsertUnheard, Goes, Gesture
    <3> QED BY <2>6, <3>1, InsertAppends DEF InsertUnheard
  <2>7. CASE InsertFails(g)
    <3>1. gesture' \in [Gestures -> Gesture]
      BY <2>7 DEF InsertFails, Goes, Gesture
    <3> QED BY <2>7, <3>1 DEF InsertFails, accidents, Numbers, Places
  <2>8. CASE GiveBack(g)
    <3>1. gesture' \in [Gestures -> Gesture]
      BY <2>8 DEF GiveBack, Goes, Gesture
    <3>2. g \in Holding
      BY <2>8 DEF GiveBack, Holding
    <3>3. seq' \in Nat
      BY <2>8, <3>2 DEF GiveBack, GivenBack, NumberInv, HeldBelow
    <3> QED BY <2>8, <3>1, <3>3 DEF GiveBack, Numbers, Places
  <2>9. CASE GiveBackFails(g)
    <3>1. gesture' \in [Gestures -> Gesture]
      BY <2>9 DEF GiveBackFails, Goes, Gesture
    <3> QED BY <2>9, <3>1 DEF GiveBackFails, Numbers, Places
  <2>10. CASE Tell(g)
    <3>1. gesture' \in [Gestures -> Gesture]
      BY <2>10 DEF Tell, Goes, Gesture
    <3>2. gesture[g].number \in Numbers
      BY <2>10 DEF Tell, PieceInv, TargetsHold
    <3> QED BY <2>10, <3>1, <3>2 DEF Tell, accidents, Numbers, Places
  <2>11. CASE Stop(g)
    <3>1. gesture' \in [Gestures -> Gesture]
      BY <2>11 DEF Stop, Goes, Gesture
    <3>2. untold' \subseteq Numbers
      BY <2>11 DEF Stop, PieceInv, TargetsHold
    <3> QED BY <2>11, <3>1, <3>2 DEF Stop, Numbers, Places
  <2> QED BY <1>2, <2>1, <2>2, <2>3, <2>4, <2>5, <2>6, <2>7, <2>8, <2>9, <2>10, <2>11 DEF Handles
<1> QED BY <1>1, <1>2 DEF BillingNext

-----------------------------------------------------------------------------
(* The numbering.                                                          *)

\* Nothing of the numbering moves when nobody draws, holds or writes otherwise.
LEMMA NumbersKept ==
    ASSUME BillingIInv, Numbers' = Numbers, seq' = seq, unheard' = unheard,
           holes \subseteq holes', Holding' \subseteq Holding,
           \A i \in Places' : i \in Places /\ invoices'[i].number = invoices[i].number,
           \A h \in Gestures : gesture'[h].number = gesture[h].number \/ h \notin Holding,
           \A h \in Holding : h \in Holding' \/ gesture[h].number \in holes' \cup Numbers'
    PROVE  NumberInv'
<1> USE DEF BillingIInv, NumberInv
<1>1. NumbersDiffer'
  BY DEF NumbersDiffer
<1>2. HolesAreKnown'
  BY DEF HolesAreKnown, Holding
<1>3. CounterIsAhead'
  BY DEF CounterIsAhead
<1>4. HeldOnce' /\ HeldBelow' /\ HeldIsFree'
  BY DEF HeldOnce, HeldBelow, HeldIsFree, Holding
<1> QED BY <1>1, <1>2, <1>3, <1>4

\* A piece that takes the number its gesture holds.
LEMMA NumbersInserted ==
    ASSUME BillingIInv, NEW g \in Gestures, Insert(g) \/ InsertUnheard(g)
    PROVE  NumberInv'
<1> DEFINE n == gesture[g].number
           last == Len(invoices) + 1
<1> USE DEF BillingIInv, NumberInv
<1>1. /\ g \in Holding /\ gesture[g].pc = "insert" /\ n \notin Numbers
      /\ Places' = Places \cup {last} /\ last \notin Places
      /\ \A i \in Places : invoices'[i] = invoices[i]
      /\ invoices'[last] = Piece(g)
      /\ Numbers' = Numbers \cup {n}
  BY InsertAppends
<1>2. invoices'[last].number = n
  BY <1>1 DEF Piece
<1>3. /\ seq' = seq /\ holes' = holes
      /\ \A h \in Gestures : gesture'[h].number = gesture[h].number
      /\ \A h \in Gestures : h # g => gesture'[h] = gesture[h]
      /\ unheard' = unheard \/ (unheard' = unheard \cup {n})
      /\ gesture'[g].pc = "giveBack" => unheard' = unheard \cup {n}
      /\ Holding' \subseteq Holding
      /\ Holding \subseteq Holding' \cup {g}
  <2>1. CASE Insert(g)
    BY <2>1, <1>1 DEF Insert, Goes, Typed, Gesture, Holding, accidents
  <2>2. CASE InsertUnheard(g)
    BY <2>2, <1>1 DEF InsertUnheard, Goes, Typed, Gesture, Holding, accidents
  <2> QED BY <2>1, <2>2
<1>4. NumbersDiffer'
  BY <1>1, <1>2 DEF NumbersDiffer, Numbers
<1>5. HolesAreKnown'
  BY <1>1, <1>3 DEF HolesAreKnown
<1>6. CounterIsAhead'
  BY <1>1, <1>3 DEF CounterIsAhead, HeldBelow, Typed
<1>7. HeldOnce' /\ HeldBelow'
  BY <1>3 DEF HeldOnce, HeldBelow, Holding
<1>8. HeldIsFree'
  <2> SUFFICES ASSUME NEW h \in Holding', gesture'[h].number \in Numbers'
               PROVE  gesture'[h].number \in unheard'
    BY DEF HeldIsFree
  <2>1. h \in Holding /\ gesture'[h].number = gesture[h].number
    BY <1>3 DEF Holding
  <2>2. CASE gesture[h].number = n
    <3>1. h = g
      BY <1>1, <2>1, <2>2 DEF HeldOnce
    <3>2. gesture'[g].pc = "giveBack" \/ gesture'[g].pc = "insert"
      BY <3>1 DEF Holding
    <3>3. gesture'[g].pc # "insert"
      BY DEF Insert, InsertUnheard, Goes, Typed, Gesture
    <3> QED BY <1>3, <2>1, <3>1, <3>2, <3>3
  <2>3. CASE gesture[h].number # n
    BY <1>1, <1>3, <2>1, <2>3 DEF HeldIsFree
  <2> QED BY <2>2, <2>3
<1> QED BY <1>4, <1>5, <1>6, <1>7, <1>8

\* A number that is drawn is the counter's, and nobody holds it.
LEMMA NumbersDrawn == ASSUME BillingIInv, NEW g \in Gestures, Number(g) PROVE NumberInv'
<1> USE DEF BillingIInv, NumberInv
<1>1. /\ seq' = seq + 1 /\ seq \in Nat /\ Numbers' = Numbers /\ Places' = Places
      /\ invoices' = invoices /\ holes' = holes /\ unheard' = unheard
      /\ gesture'[g].number = seq + 1 /\ gesture'[g].pc = "insert"
      /\ \A h \in Gestures : h # g => gesture'[h] = gesture[h]
      /\ g \notin Holding /\ Holding' = Holding \cup {g} /\ Holding \subseteq Gestures
  BY DEF Number, Typed, Gesture, Holding, accidents, Numbers, Places
<1>2. Numbers \subseteq Nat
  <2>1. \A i \in Places : invoices[i] \in Invoice
    BY ElementOfSeq DEF Typed, Places
  <2> QED BY <2>1 DEF Numbers, Invoice
<1>3. NumbersDiffer'
  BY <1>1 DEF NumbersDiffer
<1>4. HolesAreKnown'
  BY <1>1 DEF HolesAreKnown, Holding
<1>5. CounterIsAhead'
  BY <1>1, <1>2 DEF CounterIsAhead
<1>6. HeldOnce' /\ HeldBelow'
  BY <1>1 DEF HeldOnce, HeldBelow
<1>7. HeldIsFree'
  BY <1>1, <1>2 DEF HeldIsFree, CounterIsAhead
<1> QED BY <1>3, <1>4, <1>5, <1>6, <1>7

\* A number given back is the last one drawn, and its gesture's alone.
LEMMA NumbersGivenBack == ASSUME BillingIInv, NEW g \in Gestures, GiveBack(g) PROVE NumberInv'
<1> DEFINE n == gesture[g].number
<1> USE DEF BillingIInv, NumberInv
<1>1. /\ g \in Holding /\ n \in 1..seq /\ seq \in Nat
      /\ Numbers' = Numbers /\ Places' = Places /\ invoices' = invoices
      /\ unheard' = unheard /\ holes \subseteq holes'
      /\ Holding' = Holding \ {g}
      /\ \A h \in Gestures : h # g => gesture'[h] = gesture[h]
  BY DEF GiveBack, Goes, Typed, Gesture, Holding, Numbers, Places, HeldBelow
<1>2. NumbersDiffer'
  BY <1>1 DEF NumbersDiffer
<1>3. HeldOnce' /\ HeldIsFree'
  BY <1>1 DEF HeldOnce, HeldIsFree, Holding
<1>4. CASE seq = n
  <2>1. seq' = seq - 1
    BY <1>4 DEF GiveBack, GivenBack
  <2>2. HolesAreKnown'
    BY <1>1, <1>4, <2>1 DEF HolesAreKnown
  <2>3. CounterIsAhead'
    <3> SUFFICES ASSUME NEW k \in Numbers, k > seq - 1 PROVE k \in unheard
      BY <1>1, <2>1 DEF CounterIsAhead
    <3>1. k \in Nat
      <4>1. \A i \in Places : invoices[i] \in Invoice
        BY ElementOfSeq DEF Typed, Places
      <4> QED BY <4>1 DEF Numbers, Invoice
    <3> QED BY <1>1, <1>4, <3>1 DEF CounterIsAhead, HeldIsFree
  <2>4. HeldBelow'
    BY <1>1, <1>4, <2>1 DEF HeldBelow, HeldOnce, Holding
  <2> QED BY <1>2, <1>3, <2>2, <2>3, <2>4
<1>5. CASE seq # n
  <2>1. seq' = seq /\ holes' = holes \cup {n}
    BY <1>5 DEF GiveBack, GivenBack
  <2>2. HolesAreKnown' /\ CounterIsAhead' /\ HeldBelow'
    BY <1>1, <2>1 DEF HolesAreKnown, CounterIsAhead, HeldBelow, Holding
  <2> QED BY <1>2, <1>3, <2>2
<1> QED BY <1>4, <1>5

LEMMA StepNumbers == BillingIInv /\ [BillingNext]_billingVars => NumberInv'
<1> SUFFICES ASSUME BillingIInv, [BillingNext]_billingVars PROVE NumberInv'
  OBVIOUS
<1>1. CASE UNCHANGED billingVars
  BY <1>1, NumbersKept DEF billingVars, accidents, Numbers, Places, Holding
<1>2. ASSUME NEW g \in Gestures, Handles(g) PROVE NumberInv'
  <2> USE DEF BillingIInv, Typed, Gesture, Holding
  <2>1. ASSUME NEW does \in {"issue", "draft"}, Issue(g, does) PROVE NumberInv'
    <3>1. UNCHANGED <<invoices, seq, journal, accidents>>
      BY <2>1 DEF Issue
    <3>2. Holding' = Holding /\ (\A h \in Gestures : gesture'[h].number = gesture[h].number)
      BY <2>1 DEF Issue, Starts
    <3> QED BY <3>1, <3>2, NumbersKept DEF accidents, Numbers, Places
  <2>2. ASSUME NEW does \in {"send", "remind", "pay", "cancel", "credit"}, NEW i \in Places,
               Read(g, does, i)
        PROVE  NumberInv'
    <3>1. UNCHANGED <<invoices, seq, journal, accidents>>
      BY <2>2 DEF Read
    <3>2. Holding' = Holding /\ (\A h \in Gestures : gesture'[h].number = gesture[h].number)
      BY <2>2 DEF Read, Starts
    <3> QED BY <3>1, <3>2, NumbersKept DEF accidents, Numbers, Places
  <2>3. CASE Write(g)
    <3>1. \A i \in Places : invoices'[i].number = invoices[i].number
      BY <2>3, WriteRewrites, RewrittenIsInvoice DEF Write
    <3>2. Holding' = Holding /\ (\A h \in Gestures : gesture'[h].number = gesture[h].number)
      BY <2>3 DEF Write, Goes
    <3> QED BY <2>3, <3>1, <3>2, WriteRewrites, NumbersKept DEF Write, accidents
  <2>4. CASE Number(g)
    BY <2>4, NumbersDrawn
  <2>5. CASE Insert(g) \/ InsertUnheard(g)
    BY <2>5, NumbersInserted
  <2>6. CASE InsertFails(g)
    BY <2>6, NumbersKept DEF InsertFails, Goes, accidents, Numbers, Places
  <2>7. CASE GiveBack(g)
    BY <2>7, NumbersGivenBack
  <2>8. CASE GiveBackFails(g)
    BY <2>8, NumbersKept DEF GiveBackFails, Goes, Numbers, Places
  <2>9. CASE Tell(g)
    BY <2>9, NumbersKept DEF Tell, Goes, accidents, Numbers, Places
  <2>10. CASE Stop(g)
    BY <2>10, NumbersKept DEF Stop, Goes, Numbers, Places
  <2> QED BY <1>2, <2>1, <2>2, <2>3, <2>4, <2>5, <2>6, <2>7, <2>8, <2>9, <2>10 DEF Handles
<1> QED BY <1>1, <1>2 DEF BillingNext
-----------------------------------------------------------------------------
(* The pieces.                                                             *)

\* A gesture that has ended stays so: nobody else's reminders are forgotten.
LEMMA RemindersGrow ==
    ASSUME NEW g \in Gestures, gesture[g].pc # "done", NEW i,
           \A h \in Gestures : h # g => gesture'[h] = gesture[h]
    PROVE  /\ Cardinality(Reminders(i)) \in Nat /\ Cardinality(Reminders(i)') \in Nat
           /\ Cardinality(Reminders(i)) <= Cardinality(Reminders(i)')
           /\ g \in Reminders(i)' => Cardinality(Reminders(i)) + 1 <= Cardinality(Reminders(i)')
<1>1. /\ Reminders(i) \subseteq Reminders(i)' /\ g \notin Reminders(i)
      /\ Reminders(i) \subseteq Gestures /\ Reminders(i)' \subseteq Gestures
  BY DEF Reminders
<1>2. IsFiniteSet(Reminders(i)) /\ IsFiniteSet(Reminders(i)')
  BY <1>1, FS_Subset, BillingAssumption
<1>3. Cardinality(Reminders(i)) <= Cardinality(Reminders(i)')
  BY <1>1, <1>2, FS_Subset
<1>4. CASE g \in Reminders(i)'
  <2>1. Reminders(i) \cup {g} \subseteq Reminders(i)'
    BY <1>1, <1>4
  <2>2. Cardinality(Reminders(i) \cup {g}) = Cardinality(Reminders(i)) + 1
    BY <1>1, <1>2, FS_AddElement
  <2>3. Cardinality(Reminders(i) \cup {g}) <= Cardinality(Reminders(i)')
    BY <1>2, <2>1, FS_Subset
  <2> QED BY <1>2, <1>3, <2>2, <2>3, FS_CardinalityType
<1> QED BY <1>2, <1>3, <1>4, FS_CardinalityType

\* A step that leaves the collection alone, and whose gesture keeps its word.
LEMMA PiecesKept ==
    ASSUME BillingIInv, NEW g \in Gestures, gesture[g].pc # "done", invoices' = invoices,
           \A h \in Gestures : h # g => gesture'[h] = gesture[h],
           journal \subseteq journal', untold \subseteq untold', unheard \subseteq unheard',
           gesture'[g].pc # "write" \/ /\ gesture'[g].target \in Places
                                       /\ gesture'[g].does \in {"send", "remind", "pay", "cancel"},
           gesture'[g].pc \in {"number", "insert"} /\ gesture'[g].does = "credit"
             => Paid(gesture'[g].target),
           gesture'[g].pc # "journal",
           gesture[g].pc = "journal" => gesture[g].number \in journal' \cup untold'
    PROVE  PieceInv'
<1> USE DEF BillingIInv, PieceInv
<1>1. Places' = Places /\ Numbers' = Numbers /\ \A i : Paid(i)' = Paid(i)
  BY DEF Places, Numbers, Paid
<1>2. RemindersCounted'
  <2>1. \A i \in Places : invoices[i].reminders \in Nat
    BY PiecesTyped DEF Typed, Invoice
  <2> QED BY <1>1, <2>1, RemindersGrow DEF RemindersCounted
<1>3. TargetsHold'
  BY <1>1 DEF TargetsHold
<1>4. PaidIsSettled' /\ CreditsPaid'
  BY <1>1 DEF PaidIsSettled, CreditsPaid
<1>5. PiecesAreTold'
  BY <1>1 DEF PiecesAreTold
<1> QED BY <1>2, <1>3, <1>4, <1>5

\* A piece that is amended stays paid, and is reminded of by its gesture.
LEMMA PiecesAmended == ASSUME BillingIInv, NEW g \in Gestures, Write(g) PROVE PieceInv'
<1> DEFINE k == gesture[g].target
<1> USE DEF BillingIInv, PieceInv
<1>1. /\ gesture[g].pc = "write" /\ k \in Places
      /\ Places' = Places /\ Numbers' = Numbers
      /\ invoices'[k] = Rewritten(g)
      /\ \A i \in Places : i # k => invoices'[i] = invoices[i]
  BY WriteRewrites, RewrittenIsInvoice DEF Write
<1>2. /\ Rewritten(g).kind = invoices[k].kind
      /\ Rewritten(g).corrects = invoices[k].corrects
      /\ invoices[k].settled => Rewritten(g).settled
      /\ Rewritten(g).status = "payee" => Rewritten(g).settled
      /\ Rewritten(g).reminders = IF gesture[g].does = "remind" THEN invoices[k].reminders + 1
                                  ELSE invoices[k].reminders
  BY <1>1, RewrittenIsInvoice
<1>3. /\ UNCHANGED <<journal, untold, unheard>>
      /\ \A h \in Gestures : h # g => gesture'[h] = gesture[h]
      /\ gesture'[g].pc = "done" /\ gesture'[g].does = gesture[g].does
      /\ gesture'[g].target = k /\ gesture'[g].number = gesture[g].number
  BY DEF Write, Goes, Typed, Gesture, accidents
<1>4. \A i : Paid(i) => Paid(i)'
  BY <1>1, <1>2 DEF Paid
<1>5. RemindersCounted'
  <2> SUFFICES ASSUME NEW i \in Places
               PROVE  invoices'[i].reminders <= Cardinality(Reminders(i)')
    BY <1>1 DEF RemindersCounted
  <2>1. invoices[i].reminders \in Nat
    BY PiecesTyped DEF Typed, Invoice
  <2>2. invoices[i].reminders <= Cardinality(Reminders(i))
    BY DEF RemindersCounted
  <2>3. /\ Cardinality(Reminders(i)) \in Nat /\ Cardinality(Reminders(i)') \in Nat
        /\ Cardinality(Reminders(i)) <= Cardinality(Reminders(i)')
        /\ g \in Reminders(i)' => Cardinality(Reminders(i)) + 1 <= Cardinality(Reminders(i)')
    BY <1>1, <1>3, RemindersGrow
  <2>4. CASE i = k /\ gesture[g].does = "remind"
    <3>1. g \in Reminders(i)'
      BY <1>3, <2>4 DEF Reminders
    <3> QED BY <1>1, <1>2, <2>1, <2>2, <2>3, <2>4, <3>1
  <2>5. CASE ~(i = k /\ gesture[g].does = "remind")
    <3>1. invoices'[i].reminders = invoices[i].reminders
      BY <1>1, <1>2, <2>5
    <3> QED BY <2>1, <2>2, <2>3, <3>1
  <2> QED BY <2>4, <2>5
<1>6. TargetsHold'
  BY <1>1, <1>3, <1>4 DEF TargetsHold
<1>7. PaidIsSettled'
  BY <1>1, <1>2 DEF PaidIsSettled
<1>8. CreditsPaid'
  BY <1>1, <1>2, <1>4 DEF CreditsPaid
<1>9. PiecesAreTold'
  BY <1>1, <1>3 DEF PiecesAreTold
<1> QED BY <1>5, <1>6, <1>7, <1>8, <1>9

\* A new piece corrects what its gesture found paid; the gesture goes on to
\* the journal, or has not heard.
LEMMA PiecesWritten ==
    ASSUME BillingIInv, NEW g \in Gestures, Insert(g) \/ InsertUnheard(g)
    PROVE  PieceInv'
<1> DEFINE n == gesture[g].number
           last == Len(invoices) + 1
<1> USE DEF BillingIInv, PieceInv
<1>1. /\ gesture[g].pc = "insert"
      /\ Places' = Places \cup {last} /\ last \notin Places
      /\ \A i \in Places : invoices'[i] = invoices[i]
      /\ invoices'[last] = Piece(g)
      /\ Numbers' = Numbers \cup {n}
  BY InsertAppends
<1>2. /\ UNCHANGED <<journal, untold>> /\ unheard \subseteq unheard'
      /\ \A h \in Gestures : h # g => gesture'[h] = gesture[h]
      /\ gesture'[g].number = n
      /\ gesture'[g].pc = "journal" \/ (gesture'[g].pc = "giveBack" /\ n \in unheard')
  BY DEF Insert, InsertUnheard, Goes, Typed, Gesture, accidents
<1>3. \A i : Paid(i) => Paid(i)'
  BY <1>1 DEF Paid
<1>4. RemindersCounted'
  <2> SUFFICES ASSUME NEW i \in Places'
               PROVE  invoices'[i].reminders <= Cardinality(Reminders(i)')
    BY DEF RemindersCounted
  <2>1. /\ Cardinality(Reminders(i)) \in Nat /\ Cardinality(Reminders(i)') \in Nat
        /\ Cardinality(Reminders(i)) <= Cardinality(Reminders(i)')
    BY <1>1, <1>2, RemindersGrow
  <2>2. CASE i \in Places
    <3>1. invoices[i].reminders \in Nat
      BY <2>2, PiecesTyped DEF Typed, Invoice
    <3>2. invoices[i].reminders <= Cardinality(Reminders(i))
      BY <2>2 DEF RemindersCounted
    <3> QED BY <1>1, <2>1, <2>2, <3>1, <3>2
  <2>3. CASE i = last
    BY <1>1, <2>1, <2>3 DEF Piece
  <2> QED BY <1>1, <2>2, <2>3
<1>5. TargetsHold'
  BY <1>1, <1>2, <1>3 DEF TargetsHold
<1>6. PaidIsSettled'
  BY <1>1 DEF PaidIsSettled, Piece
<1>7. CreditsPaid'
  <2>1. gesture[g].does = "credit" => Paid(gesture[g].target)
    BY <1>1 DEF TargetsHold
  <2>2. Piece(g).kind = "avoir" => gesture[g].does = "credit" /\ Piece(g).corrects = gesture[g].target
    BY DEF Piece
  <2> QED BY <1>1, <1>3, <2>1, <2>2 DEF CreditsPaid
<1>8. PiecesAreTold'
  BY <1>1, <1>2 DEF PiecesAreTold
<1> QED BY <1>4, <1>5, <1>6, <1>7, <1>8

LEMMA StepPieces == BillingIInv /\ [BillingNext]_billingVars => PieceInv'
<1> SUFFICES ASSUME BillingIInv, [BillingNext]_billingVars PROVE PieceInv'
  OBVIOUS
<1>1. CASE UNCHANGED billingVars
  BY <1>1 DEF billingVars, accidents, BillingIInv, PieceInv, RemindersCounted, Reminders, TargetsHold,
              PaidIsSettled, CreditsPaid, Paid, PiecesAreTold, Numbers, Places
<1>2. ASSUME NEW g \in Gestures, Handles(g) PROVE PieceInv'
  <2> USE DEF BillingIInv, Typed, Gesture
  <2>1. ASSUME NEW does \in {"issue", "draft"}, Issue(g, does) PROVE PieceInv'
    <3>1. UNCHANGED <<invoices, journal, untold, unheard>>
      BY <2>1 DEF Issue, accidents
    <3>2. /\ gesture[g].pc = "idle" /\ gesture'[g].pc \in {"done", "number"} /\ gesture'[g].does # "credit"
          /\ \A h \in Gestures : h # g => gesture'[h] = gesture[h]
      BY <2>1 DEF Issue, Starts
    <3> QED BY <3>1, <3>2, PiecesKept
  <2>2. ASSUME NEW does \in {"send", "remind", "pay", "cancel", "credit"}, NEW i \in Places,
               Read(g, does, i)
        PROVE  PieceInv'
    <3> DEFINE pc == IF ~Allows(i, does) THEN "done"
                     ELSE IF does = "credit" THEN "number" ELSE "write"
    <3>1. UNCHANGED <<invoices, journal, untold, unheard>>
      BY <2>2 DEF Read, accidents
    <3>2. /\ gesture[g].pc = "idle" /\ gesture'[g].pc = pc
          /\ gesture'[g].does = does /\ gesture'[g].target = i
          /\ \A h \in Gestures : h # g => gesture'[h] = gesture[h]
      BY <2>2 DEF Read, Starts
    <3>3. pc \in {"done", "write", "number"} /\ (pc = "number" => Allows(i, does) /\ does = "credit")
          /\ (pc = "write" => does # "credit")
      OBVIOUS
    <3>4. invoices[i].kind \in {"abonnement", "avoir"}
      BY PiecesTyped DEF Invoice
    <3> HIDE DEF pc
    <3>5. pc = "number" => Paid(i)
      BY <3>3, <3>4 DEF Allows, Paid, PieceInv, PaidIsSettled
    <3> QED BY <3>1, <3>2, <3>3, <3>5, PiecesKept
  <2>3. CASE Write(g)
    BY <2>3, PiecesAmended
  <2>4. CASE Number(g)
    <3>1. UNCHANGED <<invoices, journal, untold, unheard>>
      BY <2>4 DEF Number, accidents
    <3>2. /\ gesture[g].pc = "number" /\ gesture'[g].pc = "insert"
          /\ gesture'[g].does = gesture[g].does /\ gesture'[g].target = gesture[g].target
          /\ \A h \in Gestures : h # g => gesture'[h] = gesture[h]
      BY <2>4 DEF Number
    <3>3. gesture[g].does = "credit" => Paid(gesture[g].target)
      BY <3>2 DEF PieceInv, TargetsHold
    <3> QED BY <3>1, <3>2, <3>3, PiecesKept
  <2>5. CASE Insert(g) \/ InsertUnheard(g)
    BY <2>5, PiecesWritten
  <2>6. CASE InsertFails(g)
    BY <2>6, PiecesKept DEF InsertFails, Goes, accidents
  <2>7. CASE GiveBack(g)
    BY <2>7, PiecesKept DEF GiveBack, Goes
  <2>8. CASE GiveBackFails(g)
    BY <2>8, PiecesKept DEF GiveBackFails, Goes
  <2>9. CASE Tell(g)
    BY <2>9, PiecesKept DEF Tell, Goes, accidents
  <2>10. CASE Stop(g)
    BY <2>10, PiecesKept DEF Stop, Goes, Running
  <2> QED BY <1>2, <2>1, <2>2, <2>3, <2>4, <2>5, <2>6, <2>7, <2>8, <2>9, <2>10 DEF Handles
<1> QED BY <1>1, <1>2 DEF BillingNext

-----------------------------------------------------------------------------
(* Theorems.                                                               *)

LEMMA BillingStarts == BillingInit => BillingIInv
<1> SUFFICES ASSUME BillingInit PROVE BillingIInv
  OBVIOUS
<1>1. invoices \in Seq(Invoice) /\ Places = {} /\ Numbers = {}
  BY EmptySeq DEF BillingInit, Places, Numbers
<1>2. gesture \in [Gestures -> Gesture] /\ Holding = {}
      /\ \A g \in Gestures : gesture[g].pc = "idle"
  BY DEF BillingInit, Idle, Gesture, Holding
<1>3. Typed
  BY <1>1, <1>2 DEF Typed, BillingInit
<1>4. NumberInv
  BY <1>1, <1>2 DEF NumberInv, BillingInit, NumbersDiffer, HolesAreKnown, CounterIsAhead,
                    HeldOnce, HeldBelow, HeldIsFree
<1>5. PieceInv
  BY <1>1, <1>2 DEF PieceInv, RemindersCounted, TargetsHold, PaidIsSettled, CreditsPaid, PiecesAreTold
<1> QED BY <1>3, <1>4, <1>5 DEF BillingIInv

\* The inductive invariant holds of any number of gestures.
THEOREM BillingInvariant == BillingSpec => []BillingIInv
<1>1. BillingIInv /\ [BillingNext]_billingVars => BillingIInv'
  BY StepTyped, StepNumbers, StepPieces DEF BillingIInv
<1> QED BY BillingStarts, <1>1, PTL DEF BillingSpec

\* Any gestures together: no number twice, no hole without a reason, no counter
\* behind a piece that was heard of; and every variable keeps its type
\* (writeInvoice, nextSequence).
THEOREM NumberingAlwaysSound == BillingSpec => []NumberingSound
<1>1. BillingIInv => NumberingSound
  <2> SUFFICES ASSUME BillingIInv PROVE NumberingSound
    OBVIOUS
  <2>1. \A i \in Places : invoices[i] \in Invoice
    BY PiecesTyped DEF BillingIInv, Typed
  <2>2. \A i \in Places : invoices[i].reminders \in 0..Cardinality(Gestures)
    <3> SUFFICES ASSUME NEW i \in Places PROVE invoices[i].reminders \in 0..Cardinality(Gestures)
      OBVIOUS
    <3>1. Reminders(i) \subseteq Gestures
      BY DEF Reminders
    <3>2. /\ Cardinality(Reminders(i)) \in Nat /\ Cardinality(Gestures) \in Nat
          /\ Cardinality(Reminders(i)) <= Cardinality(Gestures)
      BY <3>1, BillingAssumption, FS_Subset, FS_CardinalityType
    <3> QED BY <2>1, <3>2 DEF Invoice, BillingIInv, PieceInv, RemindersCounted
  <2>3. BillingTypeOK
    <3>1. \A i \in Places : invoices[i] \in
             [number : Nat \ {0}, kind : {"abonnement", "avoir"}, corrects : Nat,
              status : Statuses, settled : BOOLEAN, reminders : 0..Cardinality(Gestures)]
      BY <2>1, <2>2 DEF Invoice
    <3> QED BY <3>1 DEF BillingTypeOK, BillingIInv, Typed, Gesture
  <2> QED BY <2>3 DEF NumberingSound, BillingIInv, NumberInv
<1> QED BY BillingInvariant, <1>1, PTL

\* Whatever crosses a credit, a credit note corrects an invoice that was paid,
\* and never another credit note (credit).
THEOREM CreditsAlwaysCorrect == BillingSpec => []CreditsCorrectPayments
<1>1. BillingIInv => CreditsCorrectPayments
  BY DEF BillingIInv, PieceInv, CreditsPaid, Paid, CreditsCorrectPayments
<1> QED BY BillingInvariant, <1>1, PTL

\* Wherever a gesture stops, each piece is in the journal, on its way to it, or
\* of a gesture that stopped or did not hear (recordInvoiceGesture).
THEOREM PiecesAlwaysTold == BillingSpec => []PiecesAreTold
<1>1. BillingIInv => PiecesAreTold
  BY DEF BillingIInv, PieceInv
<1> QED BY BillingInvariant, <1>1, PTL

=============================================================================
