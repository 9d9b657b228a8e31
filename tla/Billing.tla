-------------------------------- MODULE Billing --------------------------------
(***************************************************************************)
(* The invoices of a restaurant's subscription (crm/billing.service.ts):   *)
(* one restaurant, the subscription of one month, and the credit notes on  *)
(* it.                                                                     *)
(*                                                                         *)
(* A gesture reads the invoice, refuses what its status forbids, writes    *)
(* without looking again, and tells the journal.  A new piece takes a      *)
(* number first and gives it back if it cannot be written.  The gestures   *)
(* of the team interleave between these calls to MongoDB, and may stop     *)
(* there.                                                                  *)
(***************************************************************************)
EXTENDS Integers, Sequences, FiniteSets, FiniteSetsExt

CONSTANTS Gestures,   \* requests of the team, each one made once
          AtOnce      \* gestures under way at the same time

ASSUME BillingAssumption == AtOnce \in Nat \ {0} /\ IsFiniteSet(Gestures)

VARIABLES invoices,   \* the collection, in the order of the index
          seq,        \* the counter of the year
          gesture,    \* each gesture: where it stands
          journal,    \* numbers of the pieces whose issue the journal tells
          holes,      \* numbers taken and lost (history)
          untold,     \* pieces whose gesture stopped before the journal (history)
          unheard     \* pieces whose number was given back (history)

accidents == <<holes, untold, unheard>>
billingVars == <<invoices, seq, gesture, journal, accidents>>

-----------------------------------------------------------------------------

\* `target` is the place of the invoice the gesture is about.
Idle == [pc |-> "idle", does |-> "none", target |-> 0, number |-> 0]

BillingInit ==
    /\ invoices = <<>> /\ seq = 0 /\ journal = {}
    /\ gesture = [g \in Gestures |-> Idle]
    /\ holes = {} /\ untold = {} /\ unheard = {}

Places == 1..Len(invoices)
Numbers == {invoices[i].number : i \in Places}
Goes(g, pc) == gesture' = [gesture EXCEPT ![g].pc = pc]

Running == {g \in Gestures : gesture[g].pc \notin {"idle", "done"}}
Starts(g) == gesture[g].pc = "idle" /\ Cardinality(Running) < AtOnce

Subscriptions == {i \in Places : invoices[i].kind = "abonnement"}

\* issue: findOne gives the first subscription of the month, cancelled or not.
Twin == Subscriptions # {} /\ invoices[Min(Subscriptions)].status # "annulee"

Issue(g, does) ==
    /\ Starts(g) /\ does \in {"issue", "draft"}
    /\ gesture' = [gesture EXCEPT ![g] =
         [@ EXCEPT !.does = does, !.pc = IF Twin THEN "done" ELSE "number"]]
    /\ UNCHANGED <<invoices, seq, journal, accidents>>

-----------------------------------------------------------------------------
(* Gestures on an invoice.                                                 *)

\* Mutation: an invoice is credited before it is paid.
AllowsUnpaid(i, does) ==
    invoices[i].status # "annulee" /\ (does = "credit" => invoices[i].kind # "avoir")

\* What send, remind, pay, cancel and credit refuse.
Allows(i, does) ==
    LET status == invoices[i].status
    IN CASE does = "send" -> status = "brouillon"
         [] does \in {"remind", "pay"} -> status = "envoyee"
         [] does = "cancel" -> status \in {"brouillon", "envoyee"}
         [] does = "credit" -> status = "payee" /\ invoices[i].kind # "avoir"

\* requireInvoice, then the refusals.
Read(g, does, i) ==
    /\ Starts(g) /\ i \in Places
    /\ does \in {"send", "remind", "pay", "cancel", "credit"}
    /\ gesture' = [gesture EXCEPT ![g] = [@ EXCEPT !.does = does, !.target = i,
         !.pc = IF ~Allows(i, does) THEN "done"
                ELSE IF does = "credit" THEN "number" ELSE "write"]]
    /\ UNCHANGED <<invoices, seq, journal, accidents>>

Becomes == [send |-> "envoyee", pay |-> "payee", cancel |-> "annulee"]

\* What update makes of the piece; remind pushes a date.
Rewritten(g) ==
    LET piece == invoices[gesture[g].target]
    IN IF gesture[g].does = "remind" THEN [piece EXCEPT !.reminders = @ + 1]
       ELSE [piece EXCEPT !.status = Becomes[gesture[g].does],
                          !.settled = @ \/ gesture[g].does = "pay"]

\* The invoice is looked for by its id alone.
Write(g) ==
    /\ gesture[g].pc = "write"
    /\ invoices' = [invoices EXCEPT ![gesture[g].target] = Rewritten(g)]
    /\ Goes(g, "done")
    /\ UNCHANGED <<seq, journal, accidents>>

-----------------------------------------------------------------------------
(* A new piece (writeInvoice).                                             *)

\* Mutation: the counter is answered as it was before the increment.
NumberBefore(g) ==
    /\ gesture[g].pc = "number"
    /\ seq' = seq + 1
    /\ gesture' = [gesture EXCEPT ![g] = [@ EXCEPT !.number = seq, !.pc = "insert"]]
    /\ UNCHANGED <<invoices, journal, accidents>>

\* nextSequence: an atomic increment, and the counter after it.
Number(g) ==
    /\ gesture[g].pc = "number"
    /\ seq' = seq + 1
    /\ gesture' = [gesture EXCEPT ![g] = [@ EXCEPT !.number = seq + 1, !.pc = "insert"]]
    /\ UNCHANGED <<invoices, journal, accidents>>

\* Mutation: no unique index on the number.
DuplicateNever(n) == FALSE

Duplicate(n) == n \in Numbers

Piece(g) ==
    [number |-> gesture[g].number,
     kind |-> IF gesture[g].does = "credit" THEN "avoir" ELSE "abonnement",
     corrects |-> IF gesture[g].does = "credit" THEN gesture[g].target ELSE 0,
     status |-> IF gesture[g].does = "draft" THEN "brouillon" ELSE "envoyee",
     settled |-> FALSE,
     reminders |-> 0]

\* Mutation: the journal is told by a task of its own.
InsertUntold(g) ==
    /\ gesture[g].pc = "insert" /\ ~Duplicate(gesture[g].number)
    /\ invoices' = Append(invoices, Piece(g))
    /\ Goes(g, "done")
    /\ UNCHANGED <<seq, journal, accidents>>

Insert(g) ==
    /\ gesture[g].pc = "insert" /\ ~Duplicate(gesture[g].number)
    /\ invoices' = Append(invoices, Piece(g))
    /\ Goes(g, "journal")
    /\ UNCHANGED <<seq, journal, accidents>>

\* The write fails, on the index or by itself.
InsertFails(g) ==
    /\ gesture[g].pc = "insert"
    /\ Goes(g, "giveBack")
    /\ UNCHANGED <<invoices, seq, journal, accidents>>

\* The write is applied, and its answer is lost.
InsertUnheard(g) ==
    /\ gesture[g].pc = "insert" /\ ~Duplicate(gesture[g].number)
    /\ invoices' = Append(invoices, Piece(g))
    /\ Goes(g, "giveBack")
    /\ unheard' = unheard \cup {gesture[g].number}
    /\ UNCHANGED <<seq, journal, holes, untold>>

\* Mutations: whatever was taken since; never.
GivenBackAlways(g) == seq - 1
GivenBackNever(g) == seq

\* The number is given back if nobody has taken another since.
GivenBack(g) == IF seq = gesture[g].number THEN seq - 1 ELSE seq

GiveBack(g) ==
    /\ gesture[g].pc = "giveBack"
    /\ seq' = GivenBack(g)
    /\ holes' = IF seq = gesture[g].number THEN holes ELSE holes \cup {gesture[g].number}
    /\ Goes(g, "done")
    /\ UNCHANGED <<invoices, journal, untold, unheard>>

\* The failure of the compensation is swallowed.
GiveBackFails(g) ==
    /\ gesture[g].pc = "giveBack"
    /\ holes' = holes \cup {gesture[g].number}
    /\ Goes(g, "done")
    /\ UNCHANGED <<invoices, seq, journal, untold, unheard>>

\* recordInvoiceGesture.
Tell(g) ==
    /\ gesture[g].pc = "journal"
    /\ journal' = journal \cup {gesture[g].number}
    /\ Goes(g, "done")
    /\ UNCHANGED <<invoices, seq, accidents>>

\* The server stops, or a call outside the try fails.
Stop(g) ==
    /\ g \in Running
    /\ Goes(g, "done")
    /\ holes' = IF gesture[g].pc \in {"insert", "giveBack"}
                THEN holes \cup {gesture[g].number} ELSE holes
    /\ untold' = IF gesture[g].pc = "journal"
                 THEN untold \cup {gesture[g].number} ELSE untold
    /\ UNCHANGED <<invoices, seq, journal, unheard>>

Handles(g) ==
    \/ \E does \in {"issue", "draft"} : Issue(g, does)
    \/ \E does \in {"send", "remind", "pay", "cancel", "credit"}, i \in Places : Read(g, does, i)
    \/ Write(g) \/ Number(g) \/ Insert(g) \/ InsertFails(g) \/ InsertUnheard(g)
    \/ GiveBack(g) \/ GiveBackFails(g) \/ Tell(g) \/ Stop(g)

BillingNext == \E g \in Gestures : Handles(g)

BillingSpec == BillingInit /\ [][BillingNext]_billingVars

-----------------------------------------------------------------------------
(* Properties.                                                             *)

Statuses == {"brouillon", "envoyee", "payee", "annulee"}

\* Types: the pieces, the counter, the gestures; a piece has as many reminders
\* as were written.
BillingTypeOK ==
    /\ \A i \in Places : invoices[i] \in
         [number : Nat \ {0}, kind : {"abonnement", "avoir"}, corrects : Nat,
          status : Statuses, settled : BOOLEAN, reminders : 0..Cardinality(Gestures)]
    /\ seq \in Nat
    /\ journal \subseteq Numbers /\ unheard \subseteq Numbers /\ untold \subseteq Numbers
    /\ gesture \in [Gestures ->
         [pc : {"idle", "write", "number", "insert", "giveBack", "journal", "done"},
          does : {"none", "issue", "draft", "send", "remind", "pay", "cancel", "credit"},
          target : Nat, number : Nat]]

\* No number is borne by two pieces, a number given back and taken again
\* included (writeInvoice).
NumbersDiffer ==
    \A i, j \in Places : invoices[i].number = invoices[j].number => i = j

\* The numbering has no hole but those of a stop, of a compensation that failed
\* or of two issues that crossed: each number the counter has passed is borne by
\* a piece, or carried by a gesture under way.
HolesAreKnown ==
    \A n \in 1..seq :
        \/ n \in Numbers \cup holes
        \/ \E g \in Gestures : gesture[g].pc \in {"insert", "giveBack"} /\ gesture[g].number = n

\* The counter falls behind a piece only when the answer to that very piece was
\* lost: nobody's number is given back by another gesture, and a number drawn
\* again is never a piece that was heard of (nextSequence, writeInvoice).
CounterIsAhead == \A n \in Numbers : n > seq => n \in unheard

\* The numbering of the invoices: no number twice, no hole without a reason,
\* no counter behind a piece (writeInvoice, nextSequence).
NumberingSound == BillingTypeOK /\ NumbersDiffer /\ HolesAreKnown /\ CounterIsAhead

\* A credit note corrects an invoice that was paid, and never another credit note,
\* whatever the gestures that crossed it (credit).
CreditsCorrectPayments ==
    \A i \in Places : invoices[i].kind = "avoir" =>
        LET origin == invoices[invoices[i].corrects]
        IN origin.kind = "abonnement" /\ origin.settled

\* Each piece is in the journal, or on its way to it, unless its gesture has
\* stopped or has not heard of it: no invoice goes without its author.
PiecesAreTold ==
    \A n \in Numbers :
        \/ n \in journal \cup untold \cup unheard
        \/ \E g \in Gestures : gesture[g].pc = "journal" /\ gesture[g].number = n

Live == {i \in Subscriptions : invoices[i].status # "annulee"}

\* "Un client ne peut pas recevoir deux abonnements pour le meme mois" (issue).
\* Broken, one gesture at a time, once the first one was cancelled: the twin that is
\* found is the cancelled one.
BilledOnce == Cardinality(Live) <= 1
=============================================================================
