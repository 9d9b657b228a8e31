---------------------------- MODULE EnrollmentProofs ----------------------------
(***************************************************************************)
(* Proofs about Enrollment, for any number of operations, phones, requests *)
(* and generations of QR codes.                                            *)
(*                                                                         *)
(* A creation holds its operation from its reading to its end, so that the *)
(* operation stays pending under it; everything else that closes or hands  *)
(* an operation looks at it in the same step.                              *)
(***************************************************************************)
EXTENDS Enrollment, FiniteSetTheorems, TLAPS

Member == [status : {"none", "active", "blocked", "anonymized"},
           handed : BOOLEAN, phone : Phones \cup {None}, asked : Phones \cup {None},
           gen : 0..MaxGen, tokens : SUBSET (1..MaxGen)]

Call == [pc : {"idle", "look", "create", "reject"}, op : Ops \cup {None},
         phone : Phones \cup {None}, old : Ops \cup {None}]

\* A request under way has an operation, and holds it alone while it creates.
CallInv ==
    /\ \A c \in Calls : call[c].pc # "idle" => call[c].op \in Ops
    /\ \A c, d \in Calls :
         call[c].pc = "create" /\ call[d].pc = "create" /\ call[c].op = call[d].op => c = d

EnrollmentInv ==
    /\ EnrollmentTypeOK /\ CallInv
    /\ ClosedIsClean /\ GivenIsKept /\ PhoneIsOnce /\ OneToken

LEMMA TokenCounts ==
    /\ Cardinality({}) = 0
    /\ \A n : Cardinality({n}) = 1
BY FS_EmptySet, FS_Singleton

LEMMA AnonymizedMember ==
    ASSUME NEW m \in Member
    PROVE  /\ Anonymized(m) \in Member
           /\ Anonymized(m).status = "anonymized" /\ Anonymized(m).phone = None
           /\ Anonymized(m).tokens = {} /\ Anonymized(m).handed = m.handed
<1>1. {} \in SUBSET (1..MaxGen) /\ None \in Phones \cup {None}
  OBVIOUS
<1> QED
  BY <1>1 DEF Anonymized, Member

LEMMA EnrollmentInitInv == EnrollmentInit => EnrollmentInv
<1> SUFFICES ASSUME EnrollmentInit PROVE EnrollmentInv
  OBVIOUS
<1>1. EnrollmentTypeOK /\ CallInv
  <2>1. NoMember \in Member /\ NoCall \in Call
    BY EnrollmentAssumption DEF NoMember, NoCall, Member, Call
  <2>2. \A c \in Calls : call[c].pc = "idle"
    BY DEF EnrollmentInit, NoCall
  <2>3. member \in [Ops -> Member] /\ call \in [Calls -> Call]
    BY <2>1 DEF EnrollmentInit
  <2>4. EnrollmentTypeOK
    BY <2>2, <2>3 DEF EnrollmentInit, EnrollmentTypeOK, Member, Call
  <2>5. CallInv
    <3>1. ASSUME NEW c \in Calls PROVE call[c].pc # "create" /\ ~(call[c].pc # "idle")
      BY <2>2
    <3> QED
      BY <3>1 DEF CallInv
  <2> QED
    BY <2>4, <2>5
<1>2. ClosedIsClean /\ GivenIsKept /\ PhoneIsOnce
  BY DEF EnrollmentInit, ClosedIsClean, GivenIsKept, PhoneIsOnce, NoMember
<1>3. OneToken
  BY TokenCounts DEF EnrollmentInit, OneToken, NoMember
<1> QED
  BY <1>1, <1>2, <1>3 DEF EnrollmentInv

-----------------------------------------------------------------------------
(* Closing operations.                                                     *)

\* Closing operations that no creation holds, and that were not handed, keeps
\* everything but the cards it anonymises.
LEMMA ClosingKeeps ==
    ASSUME EnrollmentInv, NEW closed \in SUBSET (Ops \ Locked),
           \A o \in closed : Closes(o),
           op' = OpsAfter(closed), member' = MembersAfter(closed),
           UNCHANGED <<late, call, given>>, sweep' \in (SUBSET Ops) \cup {None}
    PROVE  EnrollmentInv'
<1>0. /\ member \in [Ops -> Member]
      /\ \A o \in closed : op[o] \in {"pending", "done"} /\ (op[o] = "done" => ~member[o].handed)
  BY DEF EnrollmentInv, EnrollmentTypeOK, Member, Closes, Spared
<1>1. \A o \in Ops : Anonymized(member[o]) \in Member
  BY <1>0, AnonymizedMember
<1>2. \A o \in Ops :
        /\ op'[o] = IF o \in closed THEN "expired" ELSE op[o]
        /\ member'[o] = IF o \in closed /\ op[o] = "done" THEN Anonymized(member[o]) ELSE member[o]
  BY DEF OpsAfter, MembersAfter
<1>3. member' \in [Ops -> Member]
  BY <1>0, <1>1 DEF MembersAfter
<1>4. op' \in [Ops -> {"none", "pending", "done", "expired", "rejected"}]
  BY DEF OpsAfter, EnrollmentInv, EnrollmentTypeOK
<1>5. \A c \in Calls : call[c].pc = "create" => call[c].op \notin closed
  BY DEF Locked
<1>6. EnrollmentTypeOK'
  BY <1>2, <1>3, <1>4, <1>5 DEF EnrollmentInv, EnrollmentTypeOK, CallInv, Member
<1>7. \A o \in Ops : LET m == Anonymized(member[o]) IN
        m.status = "anonymized" /\ m.phone = None /\ m.tokens = {} /\ m.handed = member[o].handed
  BY <1>0, AnonymizedMember
<1>8. ClosedIsClean'
  <2>1. \A o \in Ops \ closed : op'[o] = op[o] /\ member'[o] = member[o]
    BY <1>2
  <2>2. ASSUME NEW o \in closed
        PROVE  op'[o] = "expired" /\ member'[o].phone = None /\ member'[o].tokens = {}
               /\ ~member'[o].handed
    <3>1. CASE op[o] = "done"
      BY <1>0, <1>2, <1>7, <3>1
    <3>2. CASE op[o] = "pending"
      BY <1>2, <3>2 DEF EnrollmentInv, ClosedIsClean, NoMember
    <3> QED
      BY <1>0, <3>1, <3>2
  <2> QED
    BY <2>1, <2>2 DEF EnrollmentInv, ClosedIsClean
<1>9. GivenIsKept'
  BY <1>0, <1>2 DEF EnrollmentInv, EnrollmentTypeOK, GivenIsKept
<1>10. PhoneIsOnce'
  BY <1>2, <1>7 DEF EnrollmentInv, PhoneIsOnce
<1>11. OneToken'
  BY <1>2, <1>7, TokenCounts DEF EnrollmentInv, OneToken
<1> QED
  BY <1>6, <1>8, <1>9, <1>10, <1>11 DEF EnrollmentInv, CallInv
-----------------------------------------------------------------------------
(* The requests of creation.                                               *)

\* An operation nobody holds may be prepared, or refused; it has no member.
OpStays(q) ==
    \/ op'[q] = op[q]
    \/ q \notin Locked /\ op[q] \in {"none", "pending"} /\ op'[q] \in {"pending", "rejected"}

LEMMA OpsMove ==
    ASSUME EnrollmentInv, UNCHANGED <<member, late, sweep, given>>,
           op' \in [Ops -> {"none", "pending", "done", "expired", "rejected"}],
           \A q \in Ops : OpStays(q),
           call' \in [Calls -> Call], CallInv',
           \A d \in Calls : call'[d].pc = "create" => op'[call'[d].op] = "pending"
    PROVE  EnrollmentInv'
<1>1. EnrollmentTypeOK'
  BY DEF EnrollmentInv, EnrollmentTypeOK, Call
<1>2. ClosedIsClean' /\ GivenIsKept'
  BY DEF EnrollmentInv, EnrollmentTypeOK, ClosedIsClean, GivenIsKept, OpStays
<1> QED
  BY <1>1, <1>2 DEF EnrollmentInv, PhoneIsOnce, OneToken

\* A request moves, and with it its operation; what it locks is pending and
\* nobody else's.
LEMMA CallMoves ==
    ASSUME EnrollmentInv, NEW c \in Calls, NEW h \in Call,
           call' = [call EXCEPT ![c] = h], UNCHANGED <<member, late, sweep, given>>,
           op' \in [Ops -> {"none", "pending", "done", "expired", "rejected"}],
           \A q \in Ops : OpStays(q),
           h.pc # "idle" => h.op \in Ops,
           h.pc = "create" => op'[h.op] = "pending" /\ h.op \notin Locked
    PROVE  EnrollmentInv'
<1>1. call \in [Calls -> Call]
  BY DEF EnrollmentInv, EnrollmentTypeOK, Call
<1>2. \A d \in Calls : call'[d] = IF d = c THEN h ELSE call[d]
  BY <1>1
<1>3. call' \in [Calls -> Call]
  BY <1>1
<1>4. CallInv'
  <2>1. \A d \in Calls : call'[d].pc # "idle" => call'[d].op \in Ops
    BY <1>2 DEF EnrollmentInv, CallInv
  <2>2. ASSUME NEW d \in Calls, NEW e \in Calls, call'[d].pc = "create", call'[e].pc = "create",
               call'[d].op = call'[e].op
        PROVE  d = e
    BY <1>2, <2>2 DEF EnrollmentInv, CallInv, Locked
  <2> QED
    BY <2>1, <2>2 DEF CallInv
<1>5. ASSUME NEW d \in Calls, call'[d].pc = "create" PROVE op'[call'[d].op] = "pending"
  <2>1. CASE d = c
    BY <1>2, <1>5, <2>1
  <2>2. CASE d # c
    <3>1. call'[d] = call[d] /\ call[d].op \in Locked /\ call[d].op \in Ops
          /\ op[call[d].op] = "pending"
      BY <1>2, <1>5, <2>2 DEF EnrollmentInv, EnrollmentTypeOK, CallInv, Locked
    <3> QED
      BY <3>1 DEF OpStays
  <2> QED
    BY <2>1, <2>2
<1> QED
  BY <1>3, <1>4, <1>5, OpsMove

LEMMA PrepareKeeps ==
    ASSUME EnrollmentInv, NEW o \in Ops, Prepare(o)
    PROVE  EnrollmentInv'
<1>1. op \in [Ops -> {"none", "pending", "done", "expired", "rejected"}]
      /\ call \in [Calls -> Call]
  BY DEF EnrollmentInv, EnrollmentTypeOK, Call
<1>2. /\ op[o] = "none" /\ op' = [op EXCEPT ![o] = "pending"]
      /\ UNCHANGED <<member, late, call, sweep, given>>
  BY DEF Prepare
<1>3. o \notin Locked
  BY <1>2 DEF EnrollmentInv, EnrollmentTypeOK, Locked
<1>4. \A q \in Ops : OpStays(q)
  BY <1>1, <1>2, <1>3 DEF OpStays
<1>5. \A d \in Calls : call'[d].pc = "create" => op'[call'[d].op] = "pending"
  BY <1>1, <1>2 DEF EnrollmentInv, EnrollmentTypeOK, CallInv
<1> QED
  BY <1>1, <1>2, <1>4, <1>5, OpsMove DEF EnrollmentInv, CallInv

\* The steps of a request but the one that creates.
LEMMA CallKeeps ==
    ASSUME EnrollmentInv, NEW c \in Calls,
           \/ CallBegins(c) \/ CallLooks(c) \/ CallPaused(c) \/ CallRefused(c)
           \/ CallRejects(c) \/ CallDies(c)
    PROVE  EnrollmentInv'
<1>0. /\ op \in [Ops -> {"none", "pending", "done", "expired", "rejected"}]
      /\ call \in [Calls -> Call] /\ NoCall \in Call /\ NoCall.pc = "idle"
      /\ call[c].pc # "idle" => call[c].op \in Ops
  BY DEF EnrollmentInv, EnrollmentTypeOK, CallInv, Call, NoCall
<1>1. ASSUME NEW o \in Ops, NEW p \in Phones \cup {None}, CallStarts(c, o, p) PROVE EnrollmentInv'
  <2> DEFINE h == [pc |-> "look", op |-> o, phone |-> p, old |-> None]
  <2>1. h \in Call
    BY DEF Call
  <2>2. /\ call' = [call EXCEPT ![c] = h] /\ UNCHANGED <<member, late, sweep, given>>
        /\ o \notin Locked
        /\ op' = [op EXCEPT ![o] = IF @ = "none" THEN "pending" ELSE @]
    BY <1>1 DEF CallStarts
  <2>3. /\ op' \in [Ops -> {"none", "pending", "done", "expired", "rejected"}]
        /\ \A q \in Ops : OpStays(q)
    BY <1>0, <2>2 DEF OpStays
  <2> QED
    BY <2>1, <2>2, <2>3, CallMoves
<1>2. ASSUME UNCHANGED <<op, member, late, sweep, given>>, NEW h \in Call,
             call' = [call EXCEPT ![c] = h], h.pc # "idle" => h.op \in Ops,
             h.pc = "create" => op[h.op] = "pending" /\ h.op \notin Locked
      PROVE  EnrollmentInv'
  BY <1>0, <1>2, CallMoves DEF OpStays
<1>3. CASE CallLooks(c)
  <2>1. /\ UNCHANGED <<op, member, late, sweep, given>> /\ call[c].op \notin Locked
        /\ call[c].pc = "look"
        /\ \/ call' = [call EXCEPT ![c] = NoCall]
           \/ call' = [call EXCEPT ![c].pc = "reject"]
           \/ /\ op[call[c].op] = "pending"
              /\ \/ call' = [call EXCEPT ![c].pc = "create"]
                 \/ \E k \in Ops : call' = [call EXCEPT ![c].pc = "create", ![c].old = k]
    BY <1>3 DEF CallLooks, Goes, tables, Holders
  <2>2. CASE call' = [call EXCEPT ![c] = NoCall]
    BY <1>0, <1>2, <2>1, <2>2
  <2>3. CASE call' = [call EXCEPT ![c].pc = "reject"]
    <3> DEFINE h == [call[c] EXCEPT !.pc = "reject"]
    <3>1. h \in Call /\ h.pc = "reject" /\ h.op = call[c].op /\ call' = [call EXCEPT ![c] = h]
      BY <1>0, <2>3 DEF Call
    <3> QED
      BY <1>0, <1>2, <2>1, <3>1
  <2>4. CASE op[call[c].op] = "pending" /\ call' = [call EXCEPT ![c].pc = "create"]
    <3> DEFINE h == [call[c] EXCEPT !.pc = "create"]
    <3>1. h \in Call /\ h.pc = "create" /\ h.op = call[c].op /\ call' = [call EXCEPT ![c] = h]
      BY <1>0, <2>4 DEF Call
    <3> QED
      BY <1>0, <1>2, <2>1, <2>4, <3>1
  <2>5. ASSUME op[call[c].op] = "pending",
               NEW k \in Ops, call' = [call EXCEPT ![c].pc = "create", ![c].old = k]
        PROVE  EnrollmentInv'
    <3> DEFINE h == [call[c] EXCEPT !.pc = "create", !.old = k]
    <3>1. h \in Call /\ h.pc = "create" /\ h.op = call[c].op /\ call' = [call EXCEPT ![c] = h]
      BY <1>0, <2>5 DEF Call
    <3> QED
      BY <1>0, <1>2, <2>1, <2>5, <3>1
  <2> QED
    BY <2>1, <2>2, <2>3, <2>4, <2>5
<1>4. CASE CallPaused(c) \/ CallRefused(c)
  <2> DEFINE h == [call[c] EXCEPT !.pc = "reject"]
  <2>1. /\ UNCHANGED <<op, member, late, sweep, given>> /\ call[c].pc # "idle"
        /\ call' = [call EXCEPT ![c].pc = "reject"]
    BY <1>4 DEF CallPaused, CallRefused, Goes, tables
  <2>2. h \in Call /\ h.pc = "reject" /\ h.op = call[c].op /\ call' = [call EXCEPT ![c] = h]
    BY <1>0, <2>1 DEF Call
  <2> QED
    BY <1>0, <1>2, <2>1, <2>2
<1>5. CASE CallRejects(c)
  <2>1. /\ call' = [call EXCEPT ![c] = NoCall] /\ UNCHANGED <<member, late, sweep, given>>
        /\ call[c].op \notin Locked
        /\ op' = IF op[call[c].op] = "pending" THEN [op EXCEPT ![call[c].op] = "rejected"] ELSE op
    BY <1>5 DEF CallRejects, Closable
  <2>2. /\ op' \in [Ops -> {"none", "pending", "done", "expired", "rejected"}]
        /\ \A q \in Ops : OpStays(q)
    BY <1>0, <2>1 DEF OpStays
  <2> QED
    BY <1>0, <2>1, <2>2, CallMoves
<1>6. CASE CallDies(c)
  BY <1>0, <1>2, <1>6 DEF CallDies, tables
<1> QED
  BY <1>1, <1>3, <1>4, <1>5, <1>6 DEF CallBegins
\* The new card, under the operation the request holds; the old one of the same
\* phone is anonymised in the same step.
LEMMA CreatesKeeps ==
    ASSUME EnrollmentInv, NEW c \in Calls, CallCreates(c)
    PROVE  EnrollmentInv'
<1> DEFINE o == call[c].op
           p == call[c].phone
           new == [status |-> "active", handed |-> FALSE, phone |-> p, asked |-> p,
                   gen |-> 1, tokens |-> {1}]
<1>0. /\ op \in [Ops -> {"none", "pending", "done", "expired", "rejected"}]
      /\ member \in [Ops -> Member] /\ call \in [Calls -> Call]
      /\ NoCall \in Call /\ NoCall.pc = "idle"
  BY DEF EnrollmentInv, EnrollmentTypeOK, CallInv, Call, Member, NoCall
<1>1. /\ call[c].pc = "create" /\ ~Blurs(c) /\ ~PhoneTaken(c)
      /\ op' = [OpsAfter(Freed(c)) EXCEPT ![o] = "done"]
      /\ member' = [MembersAfter(Freed(c)) EXCEPT ![o] = new]
      /\ call' = [call EXCEPT ![c] = NoCall] /\ UNCHANGED <<late, sweep, given>>
  BY DEF CallCreates
<1>2. o \in Ops /\ op[o] = "pending" /\ p \in Phones \cup {None}
  BY <1>0, <1>1 DEF EnrollmentInv, EnrollmentTypeOK, CallInv, Call
<1>3. \A q \in Freed(c) : q \in Ops /\ op[q] = "done" /\ ~member[q].handed
  BY <1>0, <1>1 DEF Freed, Closes, Spared, Blurs, Call, EnrollmentInv, EnrollmentTypeOK
<1>4. o \notin Freed(c)
  BY <1>2, <1>3
<1>5. new \in Member
  <2>1. 1 \in 1..MaxGen /\ {1} \in SUBSET (1..MaxGen) /\ 1 \in 0..MaxGen
    BY EnrollmentAssumption
  <2> QED
    BY <1>2, <2>1 DEF Member
<1>6. \A q \in Ops : op'[q] = IF q = o THEN "done" ELSE IF q \in Freed(c) THEN "expired" ELSE op[q]
  BY <1>1, <1>2 DEF OpsAfter
<1>7. \A q \in Ops : member'[q] = IF q = o THEN new
                                  ELSE IF q \in Freed(c) THEN Anonymized(member[q]) ELSE member[q]
  BY <1>1, <1>2, <1>3 DEF MembersAfter
<1>8. op' \in [Ops -> {"none", "pending", "done", "expired", "rejected"}]
  BY <1>0, <1>1 DEF OpsAfter
<1>9. member' \in [Ops -> Member]
  <2>1. ASSUME NEW q \in Ops PROVE member'[q] \in Member
    <3>1. member[q] \in Member /\ Anonymized(member[q]) \in Member
      BY <1>0, AnonymizedMember
    <3>2. CASE q = o
      BY <1>5, <1>7, <3>2
    <3>3. CASE q # o
      BY <1>7, <3>1, <3>3
    <3> QED
      BY <3>2, <3>3
  <2> QED
    BY <1>1, <2>1 DEF MembersAfter
<1>10. /\ call' \in [Calls -> Call] /\ call'[c] = NoCall
       /\ \A d \in Calls \ {c} : call'[d] = call[d]
  BY <1>0, <1>1
<1>11. \A d \in Calls : call'[d].pc = "create" => d # c /\ call[d].pc = "create" /\ call[d].op # o
  BY <1>0, <1>1, <1>10 DEF EnrollmentInv, CallInv
<1>12. CallInv'
  BY <1>0, <1>10, <1>11 DEF EnrollmentInv, CallInv
<1>13. \A d \in Calls : call'[d].pc = "create" => op'[call'[d].op] = "pending"
  BY <1>3, <1>6, <1>10, <1>11 DEF EnrollmentInv, EnrollmentTypeOK, CallInv
<1>14. EnrollmentTypeOK'
  BY <1>1, <1>8, <1>9, <1>10, <1>13 DEF EnrollmentInv, EnrollmentTypeOK, Member, Call
<1>15. \A q \in Freed(c) : /\ Anonymized(member[q]).status = "anonymized"
                           /\ Anonymized(member[q]).phone = None
                           /\ Anonymized(member[q]).tokens = {}
                           /\ ~Anonymized(member[q]).handed
  BY <1>0, <1>3, AnonymizedMember
<1>16. \A q \in Ops \ {o} : q \notin Freed(c) => op'[q] = op[q] /\ member'[q] = member[q]
  BY <1>6, <1>7
<1>17. op'[o] = "done" /\ member'[o] = new
  BY <1>2, <1>6, <1>7
<1>18. \A q \in Freed(c) : op'[q] = "expired" /\ member'[q] = Anonymized(member[q])
  BY <1>3, <1>4, <1>6, <1>7
<1>19. ClosedIsClean'
  BY <1>15, <1>16, <1>17, <1>18 DEF EnrollmentInv, ClosedIsClean
<1>20. GivenIsKept'
  BY <1>1, <1>2, <1>3, <1>16 DEF EnrollmentInv, EnrollmentTypeOK, GivenIsKept
<1>21. PhoneIsOnce'
  <2>1. ASSUME NEW q \in Ops \ {o}, member'[q].phone # None
        PROVE  q \notin Freed(c) /\ member'[q] = member[q] /\ member[q].phone # p
    <3>1. q \notin Freed(c)
      BY <1>15, <1>18, <2>1
    <3>2. member'[q] = member[q]
      BY <1>16, <3>1
    <3> QED
      BY <1>1, <2>1, <3>1, <3>2 DEF PhoneTaken, Holders
  <2>2. member'[o].phone = p
    BY <1>17
  <2> QED
    BY <2>1, <2>2 DEF EnrollmentInv, PhoneIsOnce
<1>22. OneToken'
  <2>1. ASSUME NEW q \in Ops
        PROVE  Cardinality(member'[q].tokens) =
                 IF member'[q].status \in {"active", "blocked"} THEN 1 ELSE 0
    <3>1. CASE q = o
      BY <1>17, <3>1, TokenCounts
    <3>2. CASE q \in Freed(c)
      BY <1>15, <1>18, <3>2, TokenCounts
    <3>3. CASE q # o /\ q \notin Freed(c)
      BY <1>16, <3>3 DEF EnrollmentInv, OneToken
    <3> QED
      BY <3>1, <3>2, <3>3
  <2> QED
    BY <2>1 DEF OneToken
<1> QED
  BY <1>12, <1>14, <1>19, <1>20, <1>21, <1>22 DEF EnrollmentInv

-----------------------------------------------------------------------------
(* The life of a card.                                                     *)

\* A card that is not anonymised is the card of an operation that was done.
LEMMA LivesWhileDone ==
    ASSUME EnrollmentInv, NEW o \in Ops,
           member[o].status \in {"active", "blocked"} \/ member[o].handed
    PROVE  op[o] = "done"
<1>1. op[o] \in {"none", "pending", "done", "expired", "rejected"}
  BY DEF EnrollmentInv, EnrollmentTypeOK
<1>2. op[o] \notin {"none", "pending", "rejected"}
  BY DEF EnrollmentInv, ClosedIsClean, NoMember
<1>3. op[o] # "expired"
  <2>1. CASE member[o].handed
    BY <2>1 DEF EnrollmentInv, ClosedIsClean
  <2>2. CASE member[o].status \in {"active", "blocked"}
    <3>1. Cardinality(member[o].tokens) = 1
      BY <2>2 DEF EnrollmentInv, OneToken
    <3> QED
      BY <3>1, TokenCounts DEF EnrollmentInv, ClosedIsClean
  <2> QED
    BY <2>1, <2>2
<1> QED
  BY <1>1, <1>2, <1>3

LEMMA CardMoves ==
    ASSUME EnrollmentInv, NEW o \in Ops, NEW m \in Member, op[o] = "done",
           member' = [member EXCEPT ![o] = m], UNCHANGED <<op, late, call, sweep>>,
           given' \subseteq given \cup {o}, given \subseteq given',
           m.status # "none", m.phone = member[o].phone \/ m.phone = None,
           o \in given' => m.handed,
           Cardinality(m.tokens) = IF m.status \in {"active", "blocked"} THEN 1 ELSE 0
    PROVE  EnrollmentInv'
<1>0. member \in [Ops -> Member]
  BY DEF EnrollmentInv, EnrollmentTypeOK, Member
<1>1. \A q \in Ops : member'[q] = IF q = o THEN m ELSE member[q]
  BY <1>0
<1>2. member' \in [Ops -> Member]
  BY <1>0
<1>3. EnrollmentTypeOK'
  BY <1>2 DEF EnrollmentInv, EnrollmentTypeOK, Member
<1>4. ClosedIsClean'
  BY <1>1 DEF EnrollmentInv, ClosedIsClean
<1>5. GivenIsKept'
  BY <1>1 DEF EnrollmentInv, EnrollmentTypeOK, GivenIsKept
<1>6. PhoneIsOnce'
  BY <1>1 DEF EnrollmentInv, PhoneIsOnce
<1>7. OneToken'
  <2>1. ASSUME NEW q \in Ops
        PROVE  Cardinality(member'[q].tokens) =
                 IF member'[q].status \in {"active", "blocked"} THEN 1 ELSE 0
    <3>1. CASE q = o
      BY <1>1, <3>1
    <3>2. CASE q # o
      BY <1>1, <3>2 DEF EnrollmentInv, OneToken
    <3> QED
      BY <3>1, <3>2
  <2> QED
    BY <2>1 DEF OneToken
<1> QED
  BY <1>3, <1>4, <1>5, <1>6, <1>7 DEF EnrollmentInv, CallInv

LEMMA CardKeeps ==
    ASSUME EnrollmentInv, NEW o \in Ops,
           Acknowledge(o) \/ Block(o) \/ Anonymize(o) \/ ReplaceQr(o)
    PROVE  EnrollmentInv'
<1>0. /\ member \in [Ops -> Member] /\ member[o] \in Member
      /\ Cardinality(member[o].tokens) = IF member[o].status \in {"active", "blocked"} THEN 1 ELSE 0
      /\ o \in given => member[o].handed
      /\ given \subseteq Ops
  BY DEF EnrollmentInv, EnrollmentTypeOK, Member, OneToken, GivenIsKept
<1>1. CASE Acknowledge(o)
  <2>1. /\ op[o] = "done" /\ UNCHANGED <<op, late, call, sweep>> /\ given' = given \cup {o}
        /\ \/ member[o].handed /\ member' = member
           \/ member' = [member EXCEPT ![o].handed = TRUE]
    BY <1>1 DEF Acknowledge
  <2> DEFINE m == [member[o] EXCEPT !.handed = TRUE]
  <2>2. /\ m \in Member /\ m.handed /\ m.status = member[o].status /\ m.phone = member[o].phone
        /\ m.tokens = member[o].tokens
    BY <1>0 DEF Member
  <2>3. member' = [member EXCEPT ![o] = m]
    <3>1. member[o].handed => m = member[o]
      BY <1>0 DEF Member
    <3> QED
      BY <1>0, <2>1, <3>1
  <2>4. m.status # "none"
    BY <2>1, <2>2 DEF EnrollmentInv, ClosedIsClean
  <2> QED
    BY <1>0, <2>1, <2>2, <2>3, <2>4, CardMoves
<1>2. CASE Block(o)
  <2> DEFINE s == IF member[o].status = "active" THEN "blocked" ELSE "active"
             m == [member[o] EXCEPT !.status = s]
  <2>1. /\ member[o].handed /\ member[o].status \in {"active", "blocked"}
        /\ member' = [member EXCEPT ![o] = m] /\ UNCHANGED <<op, late, call, sweep, given>>
    BY <1>0, <1>2 DEF Block
  <2>2. /\ m \in Member /\ m.handed = member[o].handed /\ m.phone = member[o].phone
        /\ m.status \in {"active", "blocked"} /\ m.tokens = member[o].tokens
    BY <1>0, <2>1 DEF Member
  <2> QED
    BY <1>0, <2>1, <2>2, CardMoves, LivesWhileDone
<1>3. CASE Anonymize(o)
  <2>1. /\ member[o].status \in {"active", "blocked"}
        /\ member' = [member EXCEPT ![o] = Anonymized(member[o])]
        /\ UNCHANGED <<op, late, call, sweep, given>>
    BY <1>0, <1>3 DEF Anonymize
  <2> QED
    BY <1>0, <2>1, AnonymizedMember, TokenCounts, CardMoves, LivesWhileDone
<1>4. CASE ReplaceQr(o)
  <2> DEFINE g == member[o].gen + 1
             m == [member[o] EXCEPT !.gen = g, !.tokens = {g}]
  <2>1. /\ member[o].handed /\ member[o].status = "active" /\ member[o].gen < MaxGen
        /\ member' = [member EXCEPT ![o] = m] /\ UNCHANGED <<op, late, call, sweep, given>>
    BY <1>0, <1>4 DEF ReplaceQr
  <2>2. g \in 0..MaxGen /\ {g} \in SUBSET (1..MaxGen)
    BY <1>0, <2>1, EnrollmentAssumption DEF Member
  <2>3. /\ m \in Member /\ m.handed = member[o].handed /\ m.phone = member[o].phone
        /\ m.status = "active" /\ m.tokens = {g}
    BY <1>0, <2>1, <2>2 DEF Member
  <2> HIDE DEF m, g
  <2> QED
    BY <1>0, <2>1, <2>3, TokenCounts, CardMoves, LivesWhileDone
<1> QED
  BY <1>1, <1>2, <1>3, <1>4
-----------------------------------------------------------------------------
(* Every step.                                                             *)

LEMMA TimeKeeps ==
    ASSUME EnrollmentInv, (\E o \in Ops : Pass(o)) \/ SweepLooks
    PROVE  EnrollmentInv'
<1>1. UNCHANGED <<op, member, call, given>>
  BY DEF Pass, SweepLooks, tables
<1>2. late' \subseteq Ops /\ sweep' \in (SUBSET Ops) \cup {None}
  BY DEF Pass, SweepLooks, EnrollmentInv, EnrollmentTypeOK
<1>3. EnrollmentTypeOK'
  BY <1>1, <1>2 DEF EnrollmentInv, EnrollmentTypeOK
<1> QED
  BY <1>1, <1>3 DEF EnrollmentInv, CallInv, ClosedIsClean, GivenIsKept, PhoneIsOnce, OneToken

\* A step leaves everything alone but what a request came across, or the sweep found.
LEMMA ExpiryKeeps ==
    ASSUME EnrollmentInv, (\E o \in Ops : ComesAcross(o)) \/ SweepEnds
    PROVE  EnrollmentInv'
<1>0. sweep \in (SUBSET Ops) \cup {None}
  BY DEF EnrollmentInv, EnrollmentTypeOK
<1>1. ASSUME NEW o \in Ops, ComesAcross(o) PROVE EnrollmentInv'
  <2>1. /\ {o} \in SUBSET (Ops \ Locked) /\ \A q \in {o} : Closes(q)
        /\ op' = OpsAfter({o}) /\ member' = MembersAfter({o})
        /\ UNCHANGED <<late, call, given>> /\ sweep' \in (SUBSET Ops) \cup {None}
    BY <1>0, <1>1 DEF ComesAcross
  <2> QED
    BY <2>1, ClosingKeeps
<1>2. CASE SweepEnds
  <2> DEFINE held == {o \in sweep \ Locked : Closes(o)}
  <2>1. /\ sweep # None /\ sweep' = None /\ UNCHANGED <<late, call, given>>
        /\ \/ UNCHANGED tables
           \/ op' = OpsAfter(held) /\ member' = MembersAfter(held)
    BY <1>2 DEF SweepEnds
  <2>2. held \in SUBSET (Ops \ Locked) /\ \A o \in held : Closes(o)
    BY <1>0, <2>1
  <2>3. CASE UNCHANGED tables
    <3>1. UNCHANGED <<op, member>> /\ sweep' \in (SUBSET Ops) \cup {None}
      BY <2>1, <2>3 DEF tables
    <3>2. EnrollmentTypeOK'
      BY <2>1, <3>1 DEF EnrollmentInv, EnrollmentTypeOK
    <3> QED
      BY <2>1, <3>1, <3>2 DEF EnrollmentInv, CallInv, ClosedIsClean, GivenIsKept, PhoneIsOnce, OneToken
  <2>4. CASE op' = OpsAfter(held) /\ member' = MembersAfter(held)
    <3> HIDE DEF held
    <3> QED
      BY <2>1, <2>2, <2>4, ClosingKeeps
  <2> QED
    BY <2>1, <2>3, <2>4
<1> QED
  BY <1>1, <1>2

LEMMA EnrollmentNextInv == EnrollmentInv /\ [EnrollmentNext]_enrollmentVars => EnrollmentInv'
<1> SUFFICES ASSUME EnrollmentInv, [EnrollmentNext]_enrollmentVars PROVE EnrollmentInv'
  OBVIOUS
<1>1. CASE UNCHANGED enrollmentVars
  <2>1. UNCHANGED <<op, member, late, call, sweep, given>>
    BY <1>1 DEF enrollmentVars, tables
  <2>2. EnrollmentTypeOK'
    BY <2>1 DEF EnrollmentInv, EnrollmentTypeOK
  <2> QED
    BY <2>1, <2>2 DEF EnrollmentInv, CallInv, ClosedIsClean, GivenIsKept, PhoneIsOnce, OneToken
<1>2. ASSUME NEW o \in Ops, OnCard(o) PROVE EnrollmentInv'
  BY <1>2, TimeKeeps, ExpiryKeeps, PrepareKeeps, CardKeeps DEF OnCard
<1>3. CASE SweepLooks \/ SweepEnds
  BY <1>3, TimeKeeps, ExpiryKeeps
<1>4. ASSUME NEW c \in Calls, CallBegins(c) \/ CallEnds(c) PROVE EnrollmentInv'
  BY <1>4, CallKeeps, CreatesKeeps DEF CallEnds
<1> QED
  BY <1>1, <1>2, <1>3, <1>4 DEF EnrollmentNext

LEMMA EnrollmentAlways == EnrollmentSpec => []EnrollmentInv
BY EnrollmentInitInv, EnrollmentNextInv, PTL DEF EnrollmentSpec

\* Operations, members, requests and the sweep keep their types, and an operation
\* stays pending under the creation that locked it.
THEOREM EnrollmentTyped == EnrollmentSpec => []EnrollmentTypeOK
<1>1. EnrollmentInv => EnrollmentTypeOK
  BY DEF EnrollmentInv
<1> QED
  BY EnrollmentAlways, <1>1, PTL

\* A closed operation leaves no phone, no QR and no member to hand.
THEOREM ClosedAlwaysClean == EnrollmentSpec => []ClosedIsClean
<1>1. EnrollmentInv => ClosedIsClean
  BY DEF EnrollmentInv
<1> QED
  BY EnrollmentAlways, <1>1, PTL

\* A card that was acknowledged is never closed by the expiry of its enrolment.
THEOREM GivenAlwaysKept == EnrollmentSpec => []GivenIsKept
<1>1. EnrollmentInv => GivenIsKept
  BY DEF EnrollmentInv
<1> QED
  BY EnrollmentAlways, <1>1, PTL

\* A phone opens one card.
THEOREM PhoneAlwaysOnce == EnrollmentSpec => []PhoneIsOnce
<1>1. EnrollmentInv => PhoneIsOnce
  BY DEF EnrollmentInv
<1> QED
  BY EnrollmentAlways, <1>1, PTL

\* A card has one QR while it lives, and none afterwards.
THEOREM AlwaysOneToken == EnrollmentSpec => []OneToken
<1>1. EnrollmentInv => OneToken
  BY DEF EnrollmentInv
<1> QED
  BY EnrollmentAlways, <1>1, PTL

-----------------------------------------------------------------------------
(* What is closed stays closed.                                            *)

LEMMA ClosedStep ==
    ASSUME EnrollmentInv, [EnrollmentNext]_enrollmentVars, NEW o \in Ops
    PROVE  /\ op[o] \in {"expired", "rejected"} => op'[o] = op[o]
           /\ member[o].status = "anonymized" => member'[o].status = "anonymized"
           /\ member[o].handed => member'[o].handed
<1> DEFINE Closed == /\ op[o] \in {"expired", "rejected"} => op'[o] = op[o]
                     /\ member[o].status = "anonymized" => member'[o].status = "anonymized"
                     /\ member[o].handed => member'[o].handed
<1>0. /\ op \in [Ops -> {"none", "pending", "done", "expired", "rejected"}]
      /\ member \in [Ops -> Member] /\ call \in [Calls -> Call]
      /\ \A q \in Ops : member[q] \in Member /\ Anonymized(member[q]).status = "anonymized"
                        /\ Anonymized(member[q]).handed = member[q].handed
  BY AnonymizedMember DEF EnrollmentInv, EnrollmentTypeOK, Member, Call
<1>1. ASSUME NEW closed \in SUBSET Ops, \A q \in closed : Closes(q),
             op' = OpsAfter(closed), member' = MembersAfter(closed)
      PROVE  Closed
  BY <1>0, <1>1 DEF OpsAfter, MembersAfter, Closes
<1>2. CASE UNCHANGED <<op, member>>
  BY <1>2
<1>3. ASSUME NEW q \in Ops, OnCard(q) PROVE Closed
  <2>1. CASE Pass(q)
    BY <1>2, <2>1 DEF Pass, tables
  <2>2. CASE ComesAcross(q)
    BY <1>1, <2>2 DEF ComesAcross
  <2>3. CASE Prepare(q)
    BY <1>0, <2>3 DEF Prepare
  <2>4. CASE Acknowledge(q)
    BY <1>0, <2>4 DEF Acknowledge, Member
  <2>5. CASE Block(q)
    BY <1>0, <2>5 DEF Block, Member
  <2>6. CASE Anonymize(q)
    BY <1>0, <2>6 DEF Anonymize
  <2>7. CASE ReplaceQr(q)
    BY <1>0, <2>7 DEF ReplaceQr, Member
  <2> QED
    BY <1>3, <2>1, <2>2, <2>3, <2>4, <2>5, <2>6, <2>7 DEF OnCard
<1>4. CASE SweepLooks
  BY <1>2, <1>4 DEF SweepLooks, tables
<1>5. CASE SweepEnds
  <2>1. {q \in sweep \ Locked : Closes(q)} \in SUBSET Ops
    BY <1>5 DEF SweepEnds, EnrollmentInv, EnrollmentTypeOK
  <2> QED
    BY <1>1, <1>2, <1>5, <2>1 DEF SweepEnds, tables
<1>6. ASSUME NEW c \in Calls, CallBegins(c) \/ CallEnds(c) PROVE Closed
  <2>1. CASE CallBegins(c)
    BY <1>0, <2>1 DEF CallBegins, CallStarts
  <2>2. CASE CallLooks(c) \/ CallPaused(c) \/ CallRefused(c) \/ CallDies(c)
    BY <1>2, <2>2 DEF CallLooks, CallPaused, CallRefused, CallDies, tables
  <2>3. CASE CallRejects(c)
    BY <1>0, <2>3 DEF CallRejects, Closable, EnrollmentInv, CallInv
  <2>4. CASE CallCreates(c)
    <3>1. call[c].op \in Ops /\ op[call[c].op] = "pending"
      BY <2>4 DEF CallCreates, EnrollmentInv, EnrollmentTypeOK, CallInv
    <3>2. member[call[c].op] = NoMember
      BY <3>1 DEF EnrollmentInv, ClosedIsClean
    <3>3. \A q \in Freed(c) : Closes(q)
      BY DEF Freed
    <3>4. CASE o = call[c].op
      BY <3>1, <3>2, <3>4 DEF NoMember
    <3>5. CASE o # call[c].op
      <4>1. op'[o] = OpsAfter(Freed(c))[o] /\ member'[o] = MembersAfter(Freed(c))[o]
        BY <1>0, <2>4, <3>5 DEF CallCreates, OpsAfter, MembersAfter
      <4> QED
        BY <1>0, <3>3, <4>1 DEF OpsAfter, MembersAfter, Closes
    <3> QED
      BY <3>4, <3>5
  <2> QED
    BY <1>6, <2>1, <2>2, <2>3, <2>4 DEF CallEnds
<1>7. CASE UNCHANGED enrollmentVars
  BY <1>2, <1>7 DEF enrollmentVars, tables
<1> QED
  BY <1>3, <1>4, <1>5, <1>6, <1>7 DEF EnrollmentNext

\* What is closed or anonymised stays so, and a card that was handed stays handed.
THEOREM AlwaysClosedForGood == EnrollmentSpec => ClosedForGood
<1>1. EnrollmentInv /\ [EnrollmentNext]_enrollmentVars =>
        [\A o \in Ops :
           /\ op[o] \in {"expired", "rejected"} => op'[o] = op[o]
           /\ member[o].status = "anonymized" => member'[o].status = "anonymized"
           /\ member[o].handed => member'[o].handed]_enrollmentVars
  BY ClosedStep
<1> QED
  BY <1>1, EnrollmentAlways, PTL DEF EnrollmentSpec, ClosedForGood

\* A phone and a QR always lead to one card.
THEOREM CardAlwaysUnique == EnrollmentSpec => []CardIsUnique
BY EnrollmentTyped, PhoneAlwaysOnce, AlwaysOneToken, PTL DEF CardIsUnique
=============================================================================
