-------------------------- MODULE SocketSessionProofs --------------------------
(***************************************************************************)
(* Proofs about SocketSession, for any number of sockets, of neighbours    *)
(* and of events.                                                          *)
(*                                                                         *)
(* A session that has lost its document never finds it again, so a check   *)
(* that starts afterwards cannot pass; one that had passed is stopped by   *)
(* the session being cut, or by the socket being gone.                     *)
(***************************************************************************)
EXTENDS SocketSession, TLAPS

Socket == [line : {"none", "up", "down"}, room : BOOLEAN, timer : BOOLEAN,
           session : {"none", "valid", "invalid"}]

CheckSteps == {"none", "tenant", "own", "passed", "refused", "joined"}

\* A socket that has not connected has nothing; one that is connected has a valid
\* session; one in the room has a timer.
LineInv(s) ==
    /\ socks[s].line = "none" => socks[s] = Unborn /\ \A k \in Checks : check[s][k] = "none"
    /\ Connected(s) => socks[s].session = "valid"
    /\ socks[s].timer => Connected(s)
    /\ socks[s].room => Connected(s) /\ socks[s].timer

\* Whatever closes a socket is a cause.
CauseInv(s) ==
    /\ s \notin allowed \/ s \in news \/ s \in expired => s \in cause
    /\ Tenant \notin allowed \/ Tenant \in news => s \in cause
    /\ \A k \in Checks : check[s][k] = "refused" => s \in cause

\* An event is checked, and sent, once it was relayed; a late one never passes.
LateInv(s, e) ==
    /\ e \notin relayed => check[s][e] = "none" /\ <<s, e>> \notin sent
    /\ <<s, e>> \in late =>
         s \notin allowed /\ e \in relayed /\ check[s][e] # "passed" /\ <<s, e>> \notin sent

\* A session whose revocation was heard is not connected, or connects in vain.
HeardInv(s) ==
    /\ s \in news \cup heard => s \notin allowed
    /\ s \in heard /\ Connected(s) =>
         /\ ~socks[s].room /\ check[s]["connect"] \notin {"passed", "joined"}
         /\ \A e \in Events : check[s][e] = "none"

SocketInv ==
    /\ SocketTypeOK
    /\ \A s \in Sockets : LineInv(s) /\ CauseInv(s) /\ HeardInv(s)
    /\ \A s \in Sockets, e \in Events : LateInv(s, e)

LEMMA SocketInitInv == SocketInit => SocketInv
<1> SUFFICES ASSUME SocketInit PROVE SocketInv
  OBVIOUS
<1>1. Unborn \in Socket
  BY DEF Unborn, Socket
<1>2. /\ socks \in [Sockets -> Socket]
      /\ check \in [Sockets -> [Checks -> CheckSteps]]
      /\ \A s \in Sockets : socks[s] = Unborn /\ \A k \in Checks : check[s][k] = "none"
  BY <1>1 DEF SocketInit, CheckSteps
<1>3. Events \subseteq Checks /\ "connect" \in Checks /\ Tenant \in Subjects /\ Sockets \subseteq Subjects
  BY DEF Checks, Subjects
<1>4. SocketTypeOK
  BY <1>2 DEF SocketInit, SocketTypeOK, Socket, CheckSteps, Unborn
<1>5. ASSUME NEW s \in Sockets PROVE LineInv(s) /\ CauseInv(s) /\ HeardInv(s)
  BY <1>2, <1>3 DEF SocketInit, LineInv, CauseInv, HeardInv, Connected, Unborn
<1>6. ASSUME NEW s \in Sockets, NEW e \in Events PROVE LateInv(s, e)
  BY <1>2, <1>3 DEF SocketInit, LateInv
<1> QED
  BY <1>4, <1>5, <1>6 DEF SocketInv

-----------------------------------------------------------------------------
(* Pointwise readings of the updates.                                      *)

LEMMA Types ==
    ASSUME SocketInv
    PROVE  /\ socks \in [Sockets -> Socket] /\ check \in [Sockets -> [Checks -> CheckSteps]]
           /\ allowed \subseteq Subjects /\ news \subseteq Subjects
           /\ expired \subseteq Sockets /\ heard \subseteq Sockets /\ cause \subseteq Sockets
           /\ sweeping \in BOOLEAN /\ relayed \subseteq Events
           /\ sent \subseteq Sockets \X Events /\ late \subseteq Sockets \X Events
           /\ Events \subseteq Checks /\ "connect" \in Checks /\ "sweep" \in Checks
           /\ "connect" \notin Events /\ Sockets \subseteq Subjects /\ Tenant \notin Sockets
BY SocketAssumption DEF SocketInv, SocketTypeOK, Socket, CheckSteps, Checks, Subjects

\* A check takes a step.
LEMMA PutsStep ==
    ASSUME SocketInv, NEW s \in Sockets, NEW k \in Checks, NEW step \in CheckSteps, Puts(s, k, step)
    PROVE  /\ check' \in [Sockets -> [Checks -> CheckSteps]]
           /\ \A t \in Sockets, j \in Checks :
                check'[t][j] = IF t = s /\ j = k THEN step ELSE check[t][j]
BY Types DEF Puts

\* Sockets are cut.
LEMMA CutStep ==
    ASSUME SocketInv, NEW S \in SUBSET Sockets, socks' = Cut(S)
    PROVE  /\ socks' \in [Sockets -> Socket]
           /\ \A t \in Sockets \ S : socks'[t] = socks[t]
           /\ \A t \in S : socks'[t] = [line |-> "down", session |-> "invalid",
                                        room |-> FALSE, timer |-> FALSE]
<1>1. [line |-> "down", session |-> "invalid", room |-> FALSE, timer |-> FALSE] \in Socket
  BY DEF Socket
<1> QED
  BY <1>1, Types DEF Cut

\* The conjuncts of the type invariant, put together again.
LEMMA TypeStep ==
    ASSUME SocketInv,
           socks' \in [Sockets -> Socket], \A s \in Sockets : LineInv(s)',
           check' \in [Sockets -> [Checks -> CheckSteps]],
           allowed' \subseteq Subjects, news' \subseteq Subjects,
           expired' \subseteq Sockets, heard' \subseteq Sockets, cause' \subseteq Sockets,
           sweeping' \in BOOLEAN, relayed' \subseteq Events,
           sent' \subseteq Sockets \X Events, late' \subseteq Sockets \X Events
    PROVE  SocketTypeOK'
BY DEF SocketTypeOK, Socket, CheckSteps, LineInv

\* The invariant, put together again.
LEMMA Assembled ==
    ASSUME SocketInv,
           socks' \in [Sockets -> Socket], check' \in [Sockets -> [Checks -> CheckSteps]],
           allowed' \subseteq Subjects, news' \subseteq Subjects,
           expired' \subseteq Sockets, heard' \subseteq Sockets, cause' \subseteq Sockets,
           sweeping' \in BOOLEAN, relayed' \subseteq Events,
           sent' \subseteq Sockets \X Events, late' \subseteq Sockets \X Events,
           \A s \in Sockets : LineInv(s)' /\ CauseInv(s)' /\ HeardInv(s)',
           \A s \in Sockets, e \in Events : LateInv(s, e)'
    PROVE  SocketInv'
BY TypeStep DEF SocketInv

\* What the invariant says of one socket, and of one socket and one event.
LEMMA Facts ==
    ASSUME SocketInv
    PROVE  /\ \A s \in Sockets : LineInv(s) /\ CauseInv(s) /\ HeardInv(s)
           /\ \A s \in Sockets, e \in Events : LateInv(s, e)
BY DEF SocketInv

-----------------------------------------------------------------------------
(* Authority.                                                              *)

LEMMA RevokeStep ==
    ASSUME SocketInv, NEW x \in Subjects, Revoke(x)
    PROVE  SocketInv'
<1>1. /\ allowed' = allowed \ {x} /\ news' \subseteq news \cup {x}
      /\ cause \subseteq cause' /\ cause' \subseteq Sockets
      /\ x = Tenant => cause' = Sockets
      /\ x \in Sockets => x \in cause'
      /\ x \in allowed
      /\ UNCHANGED <<expired, socks, check, sweeping, relayed, sent, heard, late>>
  BY Types DEF Revoke, gateway
<1>2. ASSUME NEW s \in Sockets PROVE LineInv(s)' /\ CauseInv(s)' /\ HeardInv(s)'
  <2>1. LineInv(s)'
    BY <1>1, Facts DEF LineInv, Connected
  <2>2. CauseInv(s)'
    BY <1>1, Facts, Types DEF CauseInv
  <2>3. HeardInv(s)'
    BY <1>1, Facts DEF HeardInv, Connected
  <2> QED
    BY <2>1, <2>2, <2>3
<1>3. ASSUME NEW s \in Sockets, NEW e \in Events PROVE LateInv(s, e)'
  BY <1>1, Facts DEF LateInv
<1> QED
  BY <1>1, <1>2, <1>3, Types, Assembled

LEMMA ReopenStep ==
    ASSUME SocketInv, Reopen
    PROVE  SocketInv'
<1>1. /\ allowed' = allowed \cup {Tenant} /\ Tenant \notin allowed
      /\ UNCHANGED <<news, expired, socks, check, sweeping, relayed, sent, heard, late, cause>>
  BY DEF Reopen, gateway, history
<1>2. Tenant \in Subjects
  BY DEF Subjects
<1>3. ASSUME NEW s \in Sockets PROVE LineInv(s)' /\ CauseInv(s)' /\ HeardInv(s)'
  <2>1. s # Tenant
    BY Types
  <2>2. LineInv(s)'
    BY <1>1, Facts DEF LineInv, Connected
  <2>3. CauseInv(s)'
    BY <1>1, <2>1, Facts DEF CauseInv
  <2>4. HeardInv(s)'
    BY <1>1, <2>1, Facts DEF HeardInv, Connected
  <2> QED
    BY <2>2, <2>3, <2>4
<1>4. ASSUME NEW s \in Sockets, NEW e \in Events PROVE LateInv(s, e)'
  BY <1>1, Facts, Types DEF LateInv
<1> QED
  BY <1>1, <1>2, <1>3, <1>4, Types, Assembled

LEMMA ExpireStep ==
    ASSUME SocketInv, NEW x \in Sockets, Expire(x)
    PROVE  SocketInv'
<1>1. /\ expired' = expired \cup {x} /\ cause' = cause \cup {x}
      /\ UNCHANGED <<allowed, news, socks, check, sweeping, relayed, sent, heard, late>>
  BY DEF Expire, gateway
<1>2. ASSUME NEW s \in Sockets PROVE LineInv(s)' /\ CauseInv(s)' /\ HeardInv(s)'
  <2>1. LineInv(s)'
    BY <1>1, Facts DEF LineInv, Connected
  <2>2. CauseInv(s)'
    BY <1>1, Facts DEF CauseInv
  <2>3. HeardInv(s)'
    BY <1>1, Facts DEF HeardInv, Connected
  <2> QED
    BY <2>1, <2>2, <2>3
<1>3. ASSUME NEW s \in Sockets, NEW e \in Events PROVE LateInv(s, e)'
  BY <1>1, Facts DEF LateInv
<1> QED
  BY <1>1, <1>2, <1>3, Types, Assembled

\* Cutting sockets that have connected disturbs nothing else.
LEMMA CutKeeps ==
    ASSUME SocketInv, NEW S \in SUBSET Sockets, socks' = Cut(S),
           \A s \in S : socks[s].line # "none"
    PROVE  \A s \in Sockets : /\ UNCHANGED check => LineInv(s)'
                              /\ Connected(s)' => s \notin S /\ Connected(s)
<1>1. ASSUME NEW s \in Sockets, UNCHANGED check PROVE LineInv(s)'
  <2>1. CASE s \in S
    BY <2>1, CutStep DEF LineInv, Connected
  <2>2. CASE s \notin S
    BY <1>1, <2>2, CutStep, Facts DEF LineInv, Connected
  <2> QED
    BY <2>1, <2>2
<1>2. ASSUME NEW s \in Sockets, Connected(s)' PROVE s \notin S /\ Connected(s)
  BY <1>2, CutStep DEF Connected
<1> QED
  BY <1>1, <1>2

LEMMA HearStep ==
    ASSUME SocketInv, NEW x \in Subjects, Hear(x)
    PROVE  SocketInv'
<1> DEFINE S == Matching(x)
<1>1. /\ x \in news /\ news' = news \ {x} /\ socks' = Cut(S)
      /\ heard' = heard \cup ({x} \cap Sockets)
      /\ UNCHANGED <<allowed, expired, check, sweeping, relayed, sent, late, cause>>
  BY DEF Hear
<1>2. S \in SUBSET Sockets /\ \A s \in S : socks[s].line # "none"
  BY DEF Matching, Connected
<1>3. \A s \in Sockets : s = x /\ Connected(s) => s \in S
  BY DEF Matching
<1> HIDE DEF S
<1>4. /\ socks' \in [Sockets -> Socket]
      /\ \A t \in Sockets \ S : socks'[t] = socks[t]
      /\ \A s \in Sockets : LineInv(s)' /\ (Connected(s)' => s \notin S /\ Connected(s))
  BY <1>1, <1>2, CutStep, CutKeeps
<1>5. ASSUME NEW s \in Sockets PROVE LineInv(s)' /\ CauseInv(s)' /\ HeardInv(s)'
  <2>1. CauseInv(s)'
    BY <1>1, Facts DEF CauseInv
  <2>2. HeardInv(s)'
    <3>1. s \in news' \cup heard' => s \notin allowed'
      BY <1>1, Facts DEF HeardInv
    <3>2. ASSUME s \in heard', Connected(s)'
          PROVE  /\ ~socks'[s].room /\ check'[s]["connect"] \notin {"passed", "joined"}
                 /\ \A e \in Events : check'[s][e] = "none"
      <4>1. s \notin S /\ Connected(s) /\ s # x
        BY <1>3, <1>4, <3>2
      <4>2. s \in heard /\ socks'[s] = socks[s]
        BY <1>1, <1>4, <3>2, <4>1
      <4> QED
        BY <1>1, <4>1, <4>2, Facts DEF HeardInv
    <3> QED
      BY <3>1, <3>2 DEF HeardInv
  <2> QED
    BY <1>4, <2>1, <2>2
<1>6. ASSUME NEW s \in Sockets, NEW e \in Events PROVE LateInv(s, e)'
  BY <1>1, Facts DEF LateInv
<1>7. news' \subseteq Subjects /\ heard' \subseteq Sockets
  BY <1>1, Types
<1> QED
  BY <1>1, <1>4, <1>5, <1>6, <1>7, Types, Assembled

LEMMA TimerFiresStep ==
    ASSUME SocketInv, NEW x \in Sockets, TimerFires(x)
    PROVE  SocketInv'
<1>1. /\ socks' = Cut({x}) /\ socks[x].timer
      /\ UNCHANGED <<allowed, news, expired, check, sweeping, relayed, sent, heard, late, cause>>
  BY DEF TimerFires, history
<1>2. \A s \in {x} : socks[s].line # "none"
  BY <1>1, Facts DEF LineInv, Connected
<1>3. /\ socks' \in [Sockets -> Socket]
      /\ \A t \in Sockets \ {x} : socks'[t] = socks[t]
      /\ \A s \in Sockets : LineInv(s)' /\ (Connected(s)' => s # x /\ Connected(s))
  BY <1>1, <1>2, CutStep, CutKeeps
<1>4. ASSUME NEW s \in Sockets PROVE CauseInv(s)' /\ HeardInv(s)'
  <2>1. CauseInv(s)'
    BY <1>1, Facts DEF CauseInv
  <2>2. HeardInv(s)'
    <3>1. Connected(s)' => Connected(s) /\ socks'[s] = socks[s]
      BY <1>3
    <3> QED
      BY <1>1, <3>1, Facts DEF HeardInv
  <2> QED
    BY <2>1, <2>2
<1>5. ASSUME NEW s \in Sockets, NEW e \in Events PROVE LateInv(s, e)'
  BY <1>1, Facts DEF LateInv
<1> QED
  BY <1>1, <1>3, <1>4, <1>5, Types, Assembled

-----------------------------------------------------------------------------
(* Checks.                                                                 *)

\* A check under way takes a step, and its socket may be cut.
LEMMA CheckMoves ==
    ASSUME SocketInv, NEW s \in Sockets, NEW k \in Checks, NEW step \in CheckSteps,
           Puts(s, k, step), check[s][k] # "none",
           step = "passed" => s \in allowed,
           step = "joined" => FALSE,
           step = "refused" => s \in cause',
           socks' = socks \/ socks' = Cut({s}),
           cause \subseteq cause', cause' \subseteq Sockets,
           UNCHANGED <<allowed, news, expired, sweeping, relayed, sent, heard, late>>
    PROVE  SocketInv'
<1>1. /\ check' \in [Sockets -> [Checks -> CheckSteps]]
      /\ \A t \in Sockets, j \in Checks :
           check'[t][j] = IF t = s /\ j = k THEN step ELSE check[t][j]
  BY PutsStep
<1>2. socks[s].line # "none"
  BY Facts DEF LineInv
<1>3. /\ socks' \in [Sockets -> Socket]
      /\ \A t \in Sockets : \/ socks'[t] = socks[t]
                            \/ t = s /\ socks'[t] = [line |-> "down", session |-> "invalid",
                                                     room |-> FALSE, timer |-> FALSE]
  <2>1. CASE socks' = socks
    BY <2>1, Types
  <2>2. CASE socks' = Cut({s})
    BY <2>2, CutStep
  <2> QED
    BY <2>1, <2>2
<1>4. ASSUME NEW t \in Sockets PROVE LineInv(t)' /\ CauseInv(t)' /\ HeardInv(t)'
  <2>1. LineInv(t)'
    BY SMTT(60), <1>1, <1>2, <1>3, Facts DEF LineInv, Connected
  <2>2. CauseInv(t)'
    BY <1>1, Facts DEF CauseInv
  <2>3. HeardInv(t)'
    <3>1. t \in news' \cup heard' => t \notin allowed'
      BY Facts DEF HeardInv
    <3>2. ASSUME t \in heard', Connected(t)'
          PROVE  /\ ~socks'[t].room /\ check'[t]["connect"] \notin {"passed", "joined"}
                 /\ \A e \in Events : check'[t][e] = "none"
      <4>1. Connected(t) /\ socks'[t] = socks[t] /\ t \in heard /\ t \notin allowed
        BY <1>3, <3>2, Facts DEF Connected, HeardInv
      <4>2. /\ ~socks[t].room /\ check[t]["connect"] \notin {"passed", "joined"}
            /\ \A e \in Events : check[t][e] = "none"
        BY <4>1, Facts DEF HeardInv
      <4>3. t = s => k \notin Events
        BY <4>2
      <4> QED
        BY <1>1, <4>1, <4>2, <4>3, Types
    <3> QED
      BY <3>1, <3>2 DEF HeardInv
  <2> QED
    BY <2>1, <2>2, <2>3
<1>5. ASSUME NEW t \in Sockets, NEW e \in Events PROVE LateInv(t, e)'
  BY <1>1, Facts, Types DEF LateInv
<1> QED
  BY <1>1, <1>3, <1>4, <1>5, Types, Assembled

LEMMA ReadsStep ==
    ASSUME SocketInv, NEW s \in Sockets, NEW k \in Checks, Reads(s, k)
    PROVE  SocketInv'
<1>0. {"tenant", "own", "passed", "refused", "none"} \subseteq CheckSteps
  BY DEF CheckSteps
<1>1. CASE ReadTenant(s, k)
  <2> DEFINE step == IF Tenant \in allowed THEN "own" ELSE "refused"
  <2>1. /\ check[s][k] = "tenant" /\ Puts(s, k, step)
        /\ UNCHANGED <<allowed, news, expired, socks, sweeping, relayed, sent, heard, late, cause>>
    BY <1>1 DEF ReadTenant, history
  <2>2. step \in CheckSteps /\ (step = "refused" => s \in cause)
    BY <1>0, Facts DEF CauseInv
  <2>3. step # "passed" /\ step # "joined"
    OBVIOUS
  <2> HIDE DEF step
  <2> QED
    BY <2>1, <2>2, <2>3, Types, CheckMoves
<1>2. CASE ReadOwn(s, k)
  <2> DEFINE step == IF s \in allowed THEN "passed" ELSE "refused"
  <2>1. /\ check[s][k] = "own" /\ Puts(s, k, step)
        /\ UNCHANGED <<allowed, news, expired, socks, sweeping, relayed, sent, heard, late, cause>>
    BY <1>2 DEF ReadOwn, history
  <2>2. step \in CheckSteps /\ (step = "refused" => s \in cause)
    BY <1>0, Facts DEF CauseInv
  <2>3. (step = "passed" => s \in allowed) /\ step # "joined"
    OBVIOUS
  <2> HIDE DEF step
  <2> QED
    BY <2>1, <2>2, <2>3, Types, CheckMoves
<1>3. CASE ReadFails(s, k)
  <2>1. /\ check[s][k] # "none" /\ Puts(s, k, "refused") /\ cause' = cause \cup {s}
        /\ UNCHANGED <<allowed, news, expired, socks, sweeping, relayed, sent, heard, late>>
    BY <1>3 DEF ReadFails
  <2>2. "refused" \in CheckSteps
    BY <1>0
  <2>3. cause \subseteq cause' /\ cause' \subseteq Sockets /\ s \in cause'
    BY <2>1, Types
  <2> QED
    BY <2>1, <2>2, <2>3, CheckMoves
<1>4. CASE Refuse(s, k)
  <2>1. /\ check[s][k] # "none" /\ Puts(s, k, "none") /\ socks' = Cut({s})
        /\ UNCHANGED <<allowed, news, expired, sweeping, relayed, sent, heard, late, cause>>
    BY <1>4 DEF Refuse, history
  <2>2. "none" \in CheckSteps
    BY <1>0
  <2> QED
    BY <2>1, <2>2, Types, CheckMoves
<1> QED
  BY <1>1, <1>2, <1>3, <1>4 DEF Reads

LEMMA SweepPassesStep ==
    ASSUME SocketInv, NEW s \in Sockets, SweepPasses(s)
    PROVE  SocketInv'
<1>1. /\ check[s]["sweep"] # "none" /\ Puts(s, "sweep", "none")
      /\ UNCHANGED <<allowed, news, expired, socks, sweeping, relayed, sent, heard, late, cause>>
  BY DEF SweepPasses, history
<1>2. "none" \in CheckSteps
  BY DEF CheckSteps
<1> QED
  BY <1>1, <1>2, Types, CheckMoves

LEMMA JoinedStep ==
    ASSUME SocketInv, NEW s \in Sockets, Joined(s)
    PROVE  SocketInv'
<1>1. /\ check[s]["connect"] # "none" /\ Puts(s, "connect", "none")
      /\ socks' = socks \/ socks' = Cut({s})
      /\ UNCHANGED <<allowed, news, expired, sweeping, relayed, sent, heard, late, cause>>
  BY DEF Joined, history
<1>2. "none" \in CheckSteps
  BY DEF CheckSteps
<1> QED
  BY <1>1, <1>2, Types, CheckMoves

LEMMA ConnectStep ==
    ASSUME SocketInv, NEW x \in Sockets, Connect(x)
    PROVE  SocketInv'
<1>1. /\ socks[x].line = "none" /\ Puts(x, "connect", "tenant")
      /\ socks' = [socks EXCEPT ![x].line = "up", ![x].session = "valid"]
      /\ UNCHANGED <<allowed, news, expired, sweeping, relayed, sent, heard, late, cause>>
  BY DEF Connect, history
<1>2. /\ check' \in [Sockets -> [Checks -> CheckSteps]]
      /\ \A t \in Sockets, j \in Checks :
           check'[t][j] = IF t = x /\ j = "connect" THEN "tenant" ELSE check[t][j]
  <2>1. "tenant" \in CheckSteps
    BY DEF CheckSteps
  <2> QED
    BY <1>1, <2>1, Types, PutsStep
<1>3. /\ socks' \in [Sockets -> Socket]
      /\ \A t \in Sockets : t # x => socks'[t] = socks[t]
      /\ socks'[x] = [line |-> "up", session |-> "valid", room |-> FALSE, timer |-> FALSE]
  <2>1. socks[x] = Unborn
    BY <1>1, Facts DEF LineInv
  <2>2. [line |-> "up", session |-> "valid", room |-> FALSE, timer |-> FALSE] \in Socket
    BY DEF Socket
  <2> QED
    BY <1>1, <2>1, <2>2, Types DEF Unborn
<1>4. ASSUME NEW s \in Sockets PROVE LineInv(s)' /\ CauseInv(s)' /\ HeardInv(s)'
  <2>1. LineInv(s)'
    BY <1>2, <1>3, Facts, Types DEF LineInv, Connected
  <2>2. CauseInv(s)'
    BY <1>1, <1>2, Facts DEF CauseInv
  <2>3. HeardInv(s)'
    <3>1. CASE s = x
      <4>1. \A k \in Checks : check[x][k] = "none"
        BY <1>1, Facts DEF LineInv
      <4>2. check'[x]["connect"] = "tenant" /\ \A e \in Events : check'[x][e] = "none"
        BY <1>2, <4>1, Types
      <4>3. ~socks'[x].room
        BY <1>3
      <4>4. x \in news' \cup heard' => x \notin allowed'
        BY <1>1, Facts DEF HeardInv
      <4> QED
        BY <3>1, <4>2, <4>3, <4>4 DEF HeardInv
    <3>2. CASE s # x
      BY <1>1, <1>2, <1>3, <3>2, Facts, Types DEF HeardInv, Connected
    <3> QED
      BY <3>1, <3>2
  <2> QED
    BY <2>1, <2>2, <2>3
<1>5. ASSUME NEW s \in Sockets, NEW e \in Events PROVE LateInv(s, e)'
  BY <1>1, <1>2, Facts, Types DEF LateInv
<1> QED
  BY <1>1, <1>2, <1>3, <1>4, <1>5, Types, Assembled

LEMMA AdmitStep ==
    ASSUME SocketInv, NEW x \in Sockets, Admit(x)
    PROVE  SocketInv'
<1>1. /\ check[x]["connect"] = "passed" /\ Connected(x) /\ Puts(x, "connect", "joined")
      /\ socks' = [socks EXCEPT ![x].timer = TRUE, ![x].room = TRUE]
      /\ UNCHANGED <<allowed, news, expired, sweeping, relayed, sent, heard, late, cause>>
  BY Types DEF Admit, Current, history
<1>2. /\ check' \in [Sockets -> [Checks -> CheckSteps]]
      /\ \A t \in Sockets, j \in Checks :
           check'[t][j] = IF t = x /\ j = "connect" THEN "joined" ELSE check[t][j]
  <2>1. "joined" \in CheckSteps
    BY DEF CheckSteps
  <2> QED
    BY <1>1, <2>1, Types, PutsStep
<1>3. x \notin heard
  BY <1>1, Facts DEF HeardInv
<1>4. /\ socks' \in [Sockets -> Socket]
      /\ \A t \in Sockets : t # x => socks'[t] = socks[t]
      /\ socks'[x].line = "up" /\ socks'[x].session = socks[x].session
      /\ socks'[x].room /\ socks'[x].timer
  BY <1>1, Types DEF Socket, Connected
<1>5. ASSUME NEW s \in Sockets PROVE LineInv(s)' /\ CauseInv(s)' /\ HeardInv(s)'
  <2>1. LineInv(s)'
    <3>1. CASE s = x
      BY <1>1, <1>4, <3>1, Facts DEF LineInv, Connected
    <3>2. CASE s # x
      BY <1>2, <1>4, <3>2, Facts DEF LineInv, Connected
    <3> QED
      BY <3>1, <3>2
  <2>2. CauseInv(s)'
    BY <1>1, <1>2, Facts DEF CauseInv
  <2>3. HeardInv(s)'
    BY <1>1, <1>2, <1>3, <1>4, Facts, Types DEF HeardInv, Connected
  <2> QED
    BY <2>1, <2>2, <2>3
<1>6. ASSUME NEW s \in Sockets, NEW e \in Events PROVE LateInv(s, e)'
  BY <1>1, <1>2, Facts, Types DEF LateInv
<1> QED
  BY <1>1, <1>2, <1>4, <1>5, <1>6, Types, Assembled

\* The lists of checks that Relay and SweepStart write.
LEMMA RelayStep ==
    ASSUME SocketInv, NEW e \in Events, Relay(e)
    PROVE  SocketInv'
<1>1. /\ e \notin relayed /\ relayed' = relayed \cup {e}
      /\ check' = [s \in Sockets |->
           IF socks[s].room THEN [check[s] EXCEPT ![e] = "tenant"] ELSE check[s]]
      /\ late' = late \cup {s \in Sockets : s \notin allowed} \X {e}
      /\ UNCHANGED <<allowed, news, expired, socks, sweeping, sent, heard, cause>>
  BY DEF Relay, FirstStep
<1>2. /\ check' \in [Sockets -> [Checks -> CheckSteps]]
      /\ \A t \in Sockets, j \in Checks :
           check'[t][j] = IF socks[t].room /\ j = e THEN "tenant" ELSE check[t][j]
  <2>1. "tenant" \in CheckSteps
    BY DEF CheckSteps
  <2> QED
    BY <1>1, <2>1, Types
<1>3. ASSUME NEW s \in Sockets PROVE LineInv(s)' /\ CauseInv(s)' /\ HeardInv(s)'
  <2>1. LineInv(s)'
    BY <1>1, <1>2, Facts DEF LineInv, Connected
  <2>2. CauseInv(s)'
    BY <1>1, <1>2, Facts DEF CauseInv
  <2>3. HeardInv(s)'
    <3>1. CASE socks[s].room
      BY <1>1, <3>1, Facts DEF HeardInv, LineInv, Connected
    <3>2. CASE ~socks[s].room
      BY <1>1, <3>2, Facts, Types DEF HeardInv, Connected
    <3> QED
      BY <3>1, <3>2
  <2> QED
    BY <2>1, <2>2, <2>3
<1>4. ASSUME NEW s \in Sockets, NEW f \in Events PROVE LateInv(s, f)'
  <2>1. ASSUME <<s, f>> \in late', <<s, f>> \notin late
        PROVE  f = e /\ s \notin allowed
    <3>1. <<s, f>> \in {t \in Sockets : t \notin allowed} \X {e}
      BY <1>1, <2>1
    <3> QED
      BY <3>1
  <2>2. CASE f = e
    <3>1. check[s][e] = "none" /\ <<s, e>> \notin sent
      BY <1>1, Facts DEF LateInv
    <3>2. check'[s][e] # "passed"
      BY <1>2, <3>1, Types
    <3>3. <<s, e>> \in late' => s \notin allowed
      BY <2>1, <2>2, Facts DEF LateInv
    <3> QED
      BY <1>1, <2>2, <3>1, <3>2, <3>3 DEF LateInv
  <2>3. CASE f # e
    <3>1. check'[s][f] = check[s][f]
      BY <1>2, <2>3, Types
    <3> QED
      BY <1>1, <2>1, <2>3, <3>1, Facts DEF LateInv
  <2> QED
    BY <2>2, <2>3
<1>5. relayed' \subseteq Events /\ late' \subseteq Sockets \X Events
  BY <1>1, Types
<1> QED
  BY <1>1, <1>2, <1>3, <1>4, <1>5, Types, Assembled

LEMMA EmitStep ==
    ASSUME SocketInv, NEW x \in Sockets, NEW e \in Events, Emit(x, e)
    PROVE  SocketInv'
<1>1. /\ check[x][e] = "passed" /\ Puts(x, e, "none")
      /\ sent' \subseteq sent \cup {<<x, e>>}
      /\ UNCHANGED <<allowed, news, expired, socks, sweeping, relayed, heard, late, cause>>
  BY DEF Emit, history
<1>2. /\ check' \in [Sockets -> [Checks -> CheckSteps]]
      /\ \A t \in Sockets, j \in Checks :
           check'[t][j] = IF t = x /\ j = e THEN "none" ELSE check[t][j]
  <2>1. "none" \in CheckSteps
    BY DEF CheckSteps
  <2> QED
    BY <1>1, <2>1, Types, PutsStep
<1>3. ASSUME NEW s \in Sockets PROVE LineInv(s)' /\ CauseInv(s)' /\ HeardInv(s)'
  <2>1. LineInv(s)'
    BY <1>1, <1>2, Facts DEF LineInv, Connected
  <2>2. CauseInv(s)'
    BY <1>1, <1>2, Facts DEF CauseInv
  <2>3. HeardInv(s)'
    <3>1. /\ check'[s]["connect"] = check[s]["connect"]
          /\ \A f \in Events : check[s][f] = "none" => check'[s][f] = "none"
      BY <1>2, Types
    <3> QED
      BY <1>1, <3>1, Facts DEF HeardInv, Connected
  <2> QED
    BY <2>1, <2>2, <2>3
<1>4. ASSUME NEW s \in Sockets, NEW f \in Events PROVE LateInv(s, f)'
  <2>1. CASE s = x /\ f = e
    <3>1. e \in relayed /\ <<x, e>> \notin late
      BY <1>1, Facts DEF LateInv
    <3> QED
      BY <1>1, <2>1, <3>1 DEF LateInv
  <2>2. CASE ~(s = x /\ f = e)
    <3>1. check'[s][f] = check[s][f] /\ (<<s, f>> \in sent' => <<s, f>> \in sent)
      BY <1>1, <1>2, <2>2, Types
    <3> QED
      BY <1>1, <3>1, Facts DEF LateInv
  <2> QED
    BY <2>1, <2>2
<1>5. sent' \subseteq Sockets \X Events
  BY <1>1, Types
<1> QED
  BY <1>1, <1>2, <1>3, <1>4, <1>5, Types, Assembled

LEMMA SweepStep ==
    ASSUME SocketInv, SweepStart \/ SweepDone
    PROVE  SocketInv'
<1>1. /\ \/ check' = check
         \/ check' = [s \in Sockets |->
              IF Connected(s) THEN [check[s] EXCEPT !["sweep"] = "tenant"] ELSE check[s]]
      /\ sweeping' \in BOOLEAN
      /\ UNCHANGED <<allowed, news, expired, socks, relayed, sent, heard, late, cause>>
  BY DEF SweepStart, SweepDone, history
<1>2. /\ check' \in [Sockets -> [Checks -> CheckSteps]]
      /\ \A t \in Sockets, j \in Checks :
           \/ check'[t][j] = check[t][j]
           \/ j = "sweep" /\ Connected(t) /\ check'[t][j] = "tenant"
  <2>1. "tenant" \in CheckSteps
    BY DEF CheckSteps
  <2>2. CASE check' = check
    BY <2>2, Types
  <2>3. CASE check' = [s \in Sockets |->
              IF Connected(s) THEN [check[s] EXCEPT !["sweep"] = "tenant"] ELSE check[s]]
    BY <2>1, <2>3, Types
  <2> QED
    BY <1>1, <2>2, <2>3
<1>3. /\ "sweep" \notin Events
      /\ \A t \in Sockets : check'[t]["connect"] = check[t]["connect"]
      /\ \A t \in Sockets, f \in Events : check'[t][f] = check[t][f]
  BY <1>2, Types, SocketAssumption
<1>4. ASSUME NEW s \in Sockets PROVE LineInv(s)' /\ CauseInv(s)' /\ HeardInv(s)'
  <2>1. LineInv(s)'
    BY <1>1, <1>2, Facts DEF LineInv, Connected
  <2>2. CauseInv(s)'
    BY <1>1, <1>2, Facts DEF CauseInv
  <2>3. HeardInv(s)'
    BY <1>1, <1>3, Facts DEF HeardInv, Connected
  <2> QED
    BY <2>1, <2>2, <2>3
<1>5. ASSUME NEW s \in Sockets, NEW e \in Events PROVE LateInv(s, e)'
  BY <1>1, <1>3, Facts DEF LateInv
<1> QED
  BY <1>1, <1>2, <1>4, <1>5, Types, Assembled

LEMMA LeaveStep ==
    ASSUME SocketInv, NEW x \in Sockets, Leave(x)
    PROVE  SocketInv'
<1>1. /\ Connected(x)
      /\ socks' = [socks EXCEPT ![x].line = "down", ![x].room = FALSE, ![x].timer = FALSE]
      /\ UNCHANGED <<allowed, news, expired, check, sweeping, relayed, sent, heard, late, cause>>
  BY DEF Leave, history
<1>2. /\ socks' \in [Sockets -> Socket]
      /\ \A t \in Sockets : t # x => socks'[t] = socks[t]
      /\ socks'[x].line = "down" /\ ~socks'[x].room /\ ~socks'[x].timer
  <2>1. /\ socks'[x] = [line |-> "down", room |-> FALSE, timer |-> FALSE, session |-> socks[x].session]
        /\ socks'[x] \in Socket
    BY <1>1, Types DEF Socket
  <2> QED
    BY <1>1, <2>1, Types
<1>3. ASSUME NEW s \in Sockets PROVE LineInv(s)' /\ CauseInv(s)' /\ HeardInv(s)'
  <2>1. LineInv(s)'
    BY <1>1, <1>2, Facts DEF LineInv, Connected
  <2>2. CauseInv(s)'
    BY <1>1, Facts DEF CauseInv
  <2>3. HeardInv(s)'
    BY <1>1, <1>2, Facts DEF HeardInv, Connected
  <2> QED
    BY <2>1, <2>2, <2>3
<1>4. ASSUME NEW s \in Sockets, NEW e \in Events PROVE LateInv(s, e)'
  BY <1>1, Facts DEF LateInv
<1> QED
  BY <1>1, <1>2, <1>3, <1>4, Types, Assembled

-----------------------------------------------------------------------------

LEMMA SocketNextInv == SocketInv /\ [SocketNext]_socketVars => SocketInv'
<1> SUFFICES ASSUME SocketInv, [SocketNext]_socketVars PROVE SocketInv'
  OBVIOUS
<1>1. ASSUME UNCHANGED socketVars PROVE SocketInv'
  <2>1. UNCHANGED <<allowed, news, expired, socks, check, sweeping, relayed, sent,
                    heard, late, cause>>
    BY <1>1 DEF socketVars, gateway, history
  <2> QED
    BY <2>1 DEF SocketInv, SocketTypeOK, LineInv, CauseInv, HeardInv, LateInv, Connected
<1>2. ASSUME NEW x \in Subjects, Revoke(x) \/ Hear(x) PROVE SocketInv'
  BY <1>2, RevokeStep, HearStep
<1>3. ASSUME Reopen \/ SweepStart \/ SweepDone PROVE SocketInv'
  BY <1>3, ReopenStep, SweepStep
<1>4. ASSUME NEW e \in Events, Relay(e) \/ \E s \in Sockets : Emit(s, e) PROVE SocketInv'
  BY <1>4, RelayStep, EmitStep
<1>5. ASSUME NEW s \in Sockets,
             \/ Connect(s) \/ Admit(s) \/ Joined(s) \/ SweepPasses(s)
             \/ Expire(s) \/ TimerFires(s) \/ Leave(s)
             \/ \E k \in Checks : Reads(s, k)
      PROVE  SocketInv'
  BY <1>5, ConnectStep, AdmitStep, JoinedStep, SweepPassesStep, ExpireStep, TimerFiresStep,
     LeaveStep, ReadsStep
<1> QED
  BY <1>1, <1>2, <1>3, <1>4, <1>5 DEF SocketNext

LEMMA SocketAlways == SocketSpec => []SocketInv
BY SocketInitInv, SocketNextInv, PTL DEF SocketSpec

\* Every state has its type, and no timer outlives its socket.
THEOREM SocketTyped == SocketSpec => []SocketTypeOK
<1>1. SocketInv => SocketTypeOK
  BY DEF SocketInv
<1> QED
  BY <1>1, SocketAlways, PTL

\* The room holds sockets of sessions that stand (handleConnection).
THEOREM RoomAlwaysCurrent == SocketSpec => []RoomIsCurrent
<1>1. SocketInv => RoomIsCurrent
  BY DEF SocketInv, LineInv, RoomIsCurrent
<1> QED
  BY <1>1, SocketAlways, PTL

\* An event that came after a revocation never reaches the revoked session
\* (relayToAuthorizedTenant).
THEOREM NeverLate == SocketSpec => []NothingLate
<1>1. SocketInv => NothingLate
  <2> SUFFICES ASSUME SocketInv, NEW p \in sent \cap late PROVE FALSE
    BY DEF NothingLate
  <2>1. PICK s \in Sockets, e \in Events : p = <<s, e>>
    BY Types
  <2> QED
    BY <2>1, Facts DEF LateInv
<1> QED
  BY <1>1, SocketAlways, PTL

LEMMA EmissionStep ==
    ASSUME SocketInv, [SocketNext]_socketVars, NEW s \in Sockets, NEW e \in Events,
           <<s, e>> \in sent' \ sent
    PROVE  s \notin heard /\ s \notin expired
<1>1. sent' # sent
  OBVIOUS
<1>2. \E x \in Sockets, f \in Events : Emit(x, f)
  <2>1. \/ \E x \in Subjects : Revoke(x) \/ Hear(x)
        \/ Reopen \/ SweepStart \/ SweepDone
        \/ \E f \in Events : Relay(f)
        \/ \E t \in Sockets :
             \/ Connect(t) \/ Admit(t) \/ Joined(t) \/ SweepPasses(t)
             \/ Expire(t) \/ TimerFires(t) \/ Leave(t)
             \/ \E k \in Checks : Reads(t, k)
        => sent' = sent
    BY DEF Revoke, Hear, Reopen, SweepStart, SweepDone, Relay, Connect, Admit, Joined,
           SweepPasses, Expire, TimerFires, Leave, Reads, ReadTenant, ReadOwn, ReadFails,
           Refuse, gateway
  <2>2. UNCHANGED socketVars => sent' = sent
    BY DEF socketVars, gateway
  <2> QED
    BY <1>1, <2>1, <2>2 DEF SocketNext
<1>3. PICK x \in Sockets, f \in Events : Emit(x, f)
  BY <1>2
<1>4. /\ check[x][f] = "passed" /\ x \notin expired
      /\ sent' = IF Connected(x) THEN sent \cup {<<x, f>>} ELSE sent
  BY <1>3 DEF Emit, Current
<1>5. s = x /\ Connected(x)
  BY <1>4
<1> QED
  BY <1>4, <1>5, Facts DEF HeardInv

\* Once a revocation is heard, or the session has expired, nothing more is
\* emitted to it.
THEOREM NeverAfterHearing == SocketSpec => NothingAfterHearing
<1>1. SocketInv /\ [SocketNext]_socketVars
      => [\A s \in Sockets, e \in Events :
            <<s, e>> \in sent' \ sent => s \notin heard /\ s \notin expired]_socketVars
  BY EmissionStep
<1> QED
  BY <1>1, SocketAlways, PTL DEF SocketSpec, NothingAfterHearing

LEMMA CutsStep ==
    ASSUME SocketInv, [SocketNext]_socketVars, NEW s \in Sockets,
           Connected(s), socks'[s].session = "invalid"
    PROVE  s \in cause
<1>1. socks[s].session = "valid"
  BY Facts DEF LineInv
<1>2. socks'[s].session # socks[s].session
  BY <1>1
<1>3. ASSUME NEW x \in Subjects, Hear(x) PROVE s \in cause
  <2>1. /\ x \in news /\ socks' = Cut(Matching(x)) /\ Matching(x) \in SUBSET Sockets
    BY <1>3 DEF Hear, Matching
  <2>2. s \in Matching(x)
    BY <1>2, <2>1, CutStep
  <2>3. x = Tenant \/ x = s
    BY <2>2 DEF Matching
  <2> QED
    BY <2>1, <2>3, Facts DEF CauseInv
<1>4. ASSUME NEW x \in Sockets, TimerFires(x) PROVE s \in cause
  <2>1. x \in expired /\ socks' = Cut({x})
    BY <1>4 DEF TimerFires
  <2>2. s = x
    BY <1>2, <2>1, CutStep
  <2> QED
    BY <2>1, <2>2, Facts DEF CauseInv
<1>5. ASSUME NEW x \in Sockets, NEW k \in Checks, Refuse(x, k) PROVE s \in cause
  <2>1. /\ socks' = Cut({x})
        /\ check[x][k] = "refused" \/ ~Current(x, k)
    BY <1>5 DEF Refuse
  <2>2. s = x
    BY <1>2, <2>1, CutStep
  <2>3. ~Current(x, k) => x \in expired
    BY <1>1, <2>2 DEF Current
  <2> QED
    BY <2>1, <2>2, <2>3, Facts DEF CauseInv
<1>6. ASSUME NEW x \in Sockets, Joined(x) PROVE s \in cause
  <2>1. ~Current(x, "connect") /\ socks' = Cut({x})
    BY <1>2, <1>6 DEF Joined
  <2>2. s = x
    BY <1>2, <2>1, CutStep
  <2>3. x \in expired
    BY <1>1, <2>1, <2>2 DEF Current
  <2> QED
    BY <2>2, <2>3, Facts DEF CauseInv
<1>7. ASSUME NEW x \in Sockets, Connect(x) \/ Admit(x) \/ Leave(x) PROVE FALSE
  <2>1. \/ socks' = [socks EXCEPT ![x].line = "up", ![x].session = "valid"]
        \/ socks' = [socks EXCEPT ![x].timer = TRUE, ![x].room = TRUE]
        \/ socks' = [socks EXCEPT ![x].line = "down", ![x].room = FALSE, ![x].timer = FALSE]
    BY <1>7 DEF Connect, Admit, Leave
  <2> QED
    BY ZenonT(60), <1>1, <1>2, <2>1, Types DEF Socket
<1>8. CASE socks' = socks
  BY <1>2, <1>8
<1>9. \/ \E x \in Subjects : Revoke(x)
      \/ Reopen \/ SweepStart \/ SweepDone
      \/ \E e \in Events : Relay(e) \/ \E x \in Sockets : Emit(x, e)
      \/ \E x \in Sockets :
           \/ SweepPasses(x) \/ Expire(x)
           \/ \E k \in Checks : ReadTenant(x, k) \/ ReadOwn(x, k) \/ ReadFails(x, k)
      \/ UNCHANGED socketVars
      => socks' = socks
  BY DEF Revoke, Reopen, SweepStart, SweepDone, Relay, Emit, SweepPasses, Expire,
         ReadTenant, ReadOwn, ReadFails, gateway, socketVars
<1> QED
  BY <1>3, <1>4, <1>5, <1>6, <1>7, <1>8, <1>9 DEF SocketNext, Reads

\* A socket is cut for a reason of its own (disconnectMatching).
THEOREM AlwaysCutForCause == SocketSpec => CutForCause
<1>1. SocketInv /\ [SocketNext]_socketVars
      => [\A s \in Sockets :
            Connected(s) /\ socks'[s].session = "invalid" => s \in cause]_socketVars
  BY CutsStep
<1> QED
  BY <1>1, SocketAlways, PTL DEF SocketSpec, CutForCause

\* The sockets keep their types, and the room the sessions that stand.
THEOREM RoomAlwaysSound == SocketSpec => []RoomSound
BY SocketTyped, RoomAlwaysCurrent, PTL DEF RoomSound
=============================================================================
