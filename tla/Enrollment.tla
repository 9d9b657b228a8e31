------------------------------- MODULE Enrollment -------------------------------
(***************************************************************************)
(* Joining the loyalty programme and the life of a card                    *)
(* (loyalty-member.service.ts, loyalty-enrollment-expiry.processor.ts).    *)
(*                                                                         *)
(* A till prepares an operation, creates the member under it, shows the    *)
(* QR of the card and acknowledges it; each of these may be repeated, its  *)
(* answer lost.  A card that was not acknowledged in its window is         *)
(* anonymised and gives its phone back, by whoever comes across it: the    *)
(* sweep, the till that comes back, another customer with the same phone.  *)
(*                                                                         *)
(* Each request is a transaction of PostgreSQL, at READ COMMITTED.  Those  *)
(* that lock the rows they decide on are one step; a creation and a sweep  *)
(* look first and lock afterwards, and are two.                            *)
(*                                                                         *)
(* A member has the name of its operation.  Operations belong to the till  *)
(* that prepared them; another till is refused before any of this.         *)
(***************************************************************************)
EXTENDS Integers, FiniteSets

CONSTANTS Ops,       \* operations drawn by the tills
          Phones,
          Calls,     \* requests of creation under way at the same time
          MaxGen,    \* bound on the QR codes of a card
          None

ASSUME EnrollmentAssumption ==
    /\ MaxGen \in Nat \ {0}
    /\ None \notin Ops \cup Phones

VARIABLES op,       \* the operations: prepared, done, or closed for good
          late,     \* operations whose window has passed
          member,   \* the members, with their profile and tokens
          call,     \* requests of creation under way
          sweep,    \* the sweep: the members it has found, None between two sweeps
          given     \* cards whose acknowledgement was answered (history)

tables == <<op, member>>
enrollmentVars == <<tables, late, call, sweep, given>>

-----------------------------------------------------------------------------

NoMember == [status |-> "none", handed |-> FALSE, phone |-> None, asked |-> None,
             gen |-> 0, tokens |-> {}]
NoCall == [pc |-> "idle", op |-> None, phone |-> None, old |-> None]

EnrollmentInit ==
    /\ op = [o \in Ops |-> "none"] /\ late = {}
    /\ member = [o \in Ops |-> NoMember]
    /\ call = [c \in Calls |-> NoCall]
    /\ sweep = None
    /\ given = {}

\* Mutation: the creation reads its operation without FOR UPDATE.
LockedNever == {}

\* Rows a creation holds: its operation, from its first reading to its end.
Locked == {call[c].op : c \in {d \in Calls : call[d].pc = "create"}}

\* A card has a window, from its preparation, to be handed to the customer.
Pass(o) ==
    /\ op[o] # "none" /\ o \notin late
    /\ late' = late \cup {o}
    /\ UNCHANGED <<tables, call, sweep, given>>

-----------------------------------------------------------------------------
(* Expiry.                                                                 *)

\* Mutation: the acknowledgement is not looked at again.
SparedNever(o) == FALSE

\* anonymizeExpiredEnrollmentMember leaves a card that was handed alone.
Spared(o) == member[o].handed

\* Mutation: the profile stays.
AnonymizedProfile(m) == [m EXCEPT !.status = "anonymized", !.tokens = {}]

\* Tokens revoked, profile deleted: the phone is free.
Anonymized(m) == [m EXCEPT !.status = "anonymized", !.tokens = {}, !.phone = None]

\* expirePreparedEnrollment and expireCompletedEnrollment.
Closes(o) == o \in late /\ (op[o] = "pending" \/ (op[o] = "done" /\ ~Spared(o)))

OpsAfter(closed) == [o \in Ops |-> IF o \in closed THEN "expired" ELSE op[o]]
MembersAfter(closed) ==
    [o \in Ops |-> IF o \in closed /\ op[o] = "done" THEN Anonymized(member[o]) ELSE member[o]]

\* A request that comes across an operation past its window: prepareEnrollment,
\* recoverEnrollment, acknowledgeEnrollment.
ComesAcross(o) ==
    /\ o \notin Locked /\ Closes(o)
    /\ op' = OpsAfter({o}) /\ member' = MembersAfter({o})
    /\ UNCHANGED <<late, call, sweep, given>>

\* Mutation: the join on the operation forgets its status.
SweepLooksAnyStatus ==
    /\ sweep = None
    /\ sweep' = {o \in late : ~member[o].handed /\ member[o].status # "anonymized"}
    /\ UNCHANGED <<tables, late, call, given>>

\* expireStaleEnrollments reads the members to expire without a lock.
SweepLooks ==
    /\ sweep = None
    /\ sweep' = {o \in late : op[o] = "done" /\ ~member[o].handed
                                             /\ member[o].status # "anonymized"}
    /\ UNCHANGED <<tables, late, call, given>>

\* Each of them is locked, or skipped; one closed meanwhile makes the
\* transaction of the sweep fail.
SweepEnds ==
    /\ sweep # None
    /\ LET held == {o \in sweep \ Locked : Closes(o)}
       IN IF \E o \in sweep \ Locked : op[o] # "done"
          THEN UNCHANGED tables
          ELSE op' = OpsAfter(held) /\ member' = MembersAfter(held)
    /\ sweep' = None
    /\ UNCHANGED <<late, call, given>>

-----------------------------------------------------------------------------
(* Preparing and creating.                                                 *)

\* Mutation: the operation of an expired card is prepared again.
PrepareOver(o) ==
    /\ op[o] \in {"none", "expired"}
    /\ op' = [op EXCEPT ![o] = "pending"]
    /\ UNCHANGED <<member, late, call, sweep, given>>

\* prepareEnrollment, ahead of the creation.
Prepare(o) ==
    /\ op[o] = "none"
    /\ op' = [op EXCEPT ![o] = "pending"]
    /\ UNCHANGED <<member, late, call, sweep, given>>

\* createMember: its preparation refuses what is closed, late or handed.
CallStarts(c, o, p) ==
    /\ call[c].pc = "idle" /\ o \notin Locked
    /\ op[o] \in {"none", "pending", "done"} /\ ~member[o].handed /\ o \notin late
    /\ op' = [op EXCEPT ![o] = IF @ = "none" THEN "pending" ELSE @]
    /\ call' = [call EXCEPT ![c] = [pc |-> "look", op |-> o, phone |-> p, old |-> None]]
    /\ UNCHANGED <<member, late, sweep, given>>

Goes(c, pc) == call' = [call EXCEPT ![c].pc = pc]

\* The card that was created under the operation is answered again.
Replays(c) ==
    LET o == call[c].op
    IN /\ op[o] = "done" /\ member[o].status = "active" /\ ~member[o].handed
       /\ member[o].asked = call[c].phone /\ o \notin late

Holders(p) == {o \in Ops : p # None /\ member[o].phone = p}

\* The operation is locked.  A card is replayed; a closed operation or another
\* request under the same key is refused; otherwise the phone is looked up.
CallLooks(c) ==
    LET o == call[c].op
    IN /\ call[c].pc = "look" /\ o \notin Locked
       /\ \/ Replays(c) /\ call' = [call EXCEPT ![c] = NoCall]
          \/ /\ ~Replays(c)
             /\ op[o] # "pending" \/ o \in late
             /\ Goes(c, "reject")
          \/ /\ op[o] = "pending" /\ o \notin late
             /\ IF \E h \in Holders(call[c].phone) : ~member[h].handed
                THEN \E h \in Holders(call[c].phone) :
                       call' = [call EXCEPT ![c].pc = "create", ![c].old = h]
                ELSE Goes(c, "create")
    /\ UNCHANGED <<tables, late, sweep, given>>

\* The program was paused.
CallPaused(c) ==
    /\ call[c].pc = "look" /\ op[call[c].op] = "pending" /\ call[c].op \notin Locked
    /\ Goes(c, "reject")
    /\ UNCHANGED <<tables, late, sweep, given>>

\* The old cards this creation expires, once it has the lock of their operation.
Freed(c) == {o \in {call[c].old} \ {None} : Closes(o)}

\* Mutation: no unique index on the phone.
PhoneTakenNever(c) == FALSE

\* member_profiles_tenant_phone_uq, under what the transaction has expired.
PhoneTaken(c) == Holders(call[c].phone) \ Freed(c) # {}

\* The old operation was closed between the look and its lock.
Blurs(c) == call[c].old # None /\ op[call[c].old] # "done"

CallCreates(c) ==
    LET o == call[c].op
    IN /\ call[c].pc = "create" /\ ~Blurs(c) /\ ~PhoneTaken(c)
       /\ op' = [OpsAfter(Freed(c)) EXCEPT ![o] = "done"]
       /\ member' = [MembersAfter(Freed(c)) EXCEPT
            ![o] = [status |-> "active", handed |-> FALSE, phone |-> call[c].phone,
                    asked |-> call[c].phone, gen |-> 1, tokens |-> {1}]]
       /\ call' = [call EXCEPT ![c] = NoCall]
    /\ UNCHANGED <<late, sweep, given>>

\* The transaction is rolled back, with the expiry of the old card.
CallRefused(c) ==
    /\ call[c].pc = "create" /\ (Blurs(c) \/ PhoneTaken(c))
    /\ Goes(c, "reject")
    /\ UNCHANGED <<tables, late, sweep, given>>

\* Mutation: the operation is closed whatever became of it.
ClosableAlways(o) == TRUE

\* rejectPreparedEnrollment matches a pending operation only.
Closable(o) == op[o] = "pending"

CallRejects(c) ==
    /\ call[c].pc = "reject" /\ call[c].op \notin Locked
    /\ op' = IF Closable(call[c].op) THEN [op EXCEPT ![call[c].op] = "rejected"] ELSE op
    /\ call' = [call EXCEPT ![c] = NoCall]
    /\ UNCHANGED <<member, late, sweep, given>>

\* The server stops, the transaction is rolled back.
CallDies(c) ==
    /\ call[c].pc # "idle"
    /\ call' = [call EXCEPT ![c] = NoCall]
    /\ UNCHANGED <<tables, late, sweep, given>>

\* acknowledgeEnrollment, in its window or once the card is handed: the QR
\* shown is the initial one.
Acknowledge(o) ==
    /\ o \notin Locked /\ op[o] = "done"
    /\ \/ member[o].handed /\ UNCHANGED member
       \/ /\ ~member[o].handed /\ o \notin late
          /\ member[o].status = "active" /\ 1 \in member[o].tokens
          /\ member' = [member EXCEPT ![o].handed = TRUE]
    /\ given' = given \cup {o}
    /\ UNCHANGED <<op, late, call, sweep>>

-----------------------------------------------------------------------------
(* The life of a card (changeLifecycle, replaceQr): the member is locked, *)
(* not its operation.                                                      *)

Block(o) ==
    /\ member[o].handed /\ member[o].status \in {"active", "blocked"}
    /\ member' = [member EXCEPT ![o].status = IF @ = "active" THEN "blocked" ELSE "active"]
    /\ UNCHANGED <<op, late, call, sweep, given>>

\* A card that was not handed can be cancelled this way.
Anonymize(o) ==
    /\ member[o].status \in {"active", "blocked"}
    /\ member' = [member EXCEPT ![o] = Anonymized(@)]
    /\ UNCHANGED <<op, late, call, sweep, given>>

\* Mutation: the old QR still opens the card.
ReplaceQrKept(o) ==
    /\ member[o].handed /\ member[o].status = "active" /\ member[o].gen < MaxGen
    /\ member' = [member EXCEPT ![o].gen = @ + 1, ![o].tokens = @ \cup {member[o].gen + 1}]
    /\ UNCHANGED <<op, late, call, sweep, given>>

\* The generation the sheet showed is the current one, and one token is active.
ReplaceQr(o) ==
    /\ member[o].handed /\ member[o].status = "active" /\ member[o].gen < MaxGen
    /\ Cardinality(member[o].tokens) = 1
    /\ member' = [member EXCEPT ![o].gen = @ + 1, ![o].tokens = {member[o].gen + 1}]
    /\ UNCHANGED <<op, late, call, sweep, given>>

OnCard(o) ==
    \/ Pass(o) \/ ComesAcross(o) \/ Prepare(o) \/ Acknowledge(o)
    \/ Block(o) \/ Anonymize(o) \/ ReplaceQr(o)

CallBegins(c) == \E o \in Ops, p \in Phones \cup {None} : CallStarts(c, o, p)
CallEnds(c) ==
    \/ CallLooks(c) \/ CallPaused(c) \/ CallCreates(c) \/ CallRefused(c)
    \/ CallRejects(c) \/ CallDies(c)

EnrollmentNext ==
    \/ \E o \in Ops : OnCard(o)
    \/ SweepLooks \/ SweepEnds
    \/ \E c \in Calls : CallBegins(c) \/ CallEnds(c)

EnrollmentSpec == EnrollmentInit /\ [][EnrollmentNext]_enrollmentVars

\* The sweep runs every five minutes; a transaction ends.
FairEnrollmentSpec ==
    /\ EnrollmentSpec
    /\ WF_enrollmentVars(SweepLooks) /\ WF_enrollmentVars(SweepEnds)
    /\ \A c \in Calls : WF_enrollmentVars(CallEnds(c))

-----------------------------------------------------------------------------
(* Properties.                                                             *)

\* Types: the operations, the members, the requests and the sweep; an operation
\* stays pending under the creation that locked it.
EnrollmentTypeOK ==
    /\ op \in [Ops -> {"none", "pending", "done", "expired", "rejected"}]
    /\ late \subseteq Ops /\ given \subseteq Ops
    /\ member \in [Ops -> [status : {"none", "active", "blocked", "anonymized"},
                           handed : BOOLEAN, phone : Phones \cup {None},
                           asked : Phones \cup {None}, gen : 0..MaxGen,
                           tokens : SUBSET (1..MaxGen)]]
    /\ call \in [Calls -> [pc : {"idle", "look", "create", "reject"}, op : Ops \cup {None},
                           phone : Phones \cup {None}, old : Ops \cup {None}]]
    /\ sweep \in (SUBSET Ops) \cup {None}
    /\ \A c \in Calls : call[c].pc = "create" => op[call[c].op] = "pending"

\* A closed operation leaves nothing behind: no member ever came of a refused
\* one, and the member of an expired one has neither phone nor QR
\* (expireCompletedEnrollment, rejectPreparedEnrollment).
ClosedIsClean ==
    \A o \in Ops :
        /\ op[o] \in {"none", "pending", "rejected"} => member[o] = NoMember
        /\ op[o] = "done" => member[o].status # "none"
        /\ op[o] = "expired" =>
             member[o].phone = None /\ member[o].tokens = {} /\ ~member[o].handed

\* A card the customer was given is never closed by the expiry of its
\* enrolment, whatever had been found before it was acknowledged.
GivenIsKept == \A o \in given : op[o] = "done" /\ member[o].handed

\* A phone opens one card.
PhoneIsOnce ==
    \A o, p \in Ops : member[o].phone # None /\ member[o].phone = member[p].phone => o = p

\* A card has one QR, and none once it is anonymised: replaceQr never finds what
\* corruptedWallet is for.
OneToken ==
    \A o \in Ops :
        Cardinality(member[o].tokens) =
            IF member[o].status \in {"active", "blocked"} THEN 1 ELSE 0

\* A phone and a QR lead to one card, whatever was created at the same time.
CardIsUnique == EnrollmentTypeOK /\ PhoneIsOnce /\ OneToken

\* What is closed or anonymised stays so: an answer that was lost, or a
\* creation that was under way, brings nothing back.
ClosedForGood ==
    [][\A o \in Ops :
         /\ op[o] \in {"expired", "rejected"} => op'[o] = op[o]
         /\ member[o].status = "anonymized" => member'[o].status = "anonymized"
         /\ member[o].handed => member'[o].handed]_enrollmentVars

\* A card that nobody acknowledged in its window ends up anonymised: the sweep
\* is held back neither by a creation in the way nor by an expiry that crossed it.
UnhandedExpires ==
    \A o \in Ops :
        (o \in late /\ op[o] = "done" /\ ~member[o].handed) ~> (member[o].status = "anonymized")
=============================================================================
