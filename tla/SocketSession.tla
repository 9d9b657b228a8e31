----------------------------- MODULE SocketSession -----------------------------
(***************************************************************************)
(* The sockets of a restaurant (apps/api, orders.gateway.ts), the          *)
(* authority their sessions are read from again (session-access.ts) and    *)
(* the revocations announced on Redis (session-revocation.ts).             *)
(*                                                                         *)
(* A session is checked three times: when its socket connects, before each *)
(* event it receives, and by a sweep every thirty seconds.  A check reads  *)
(* the restaurant, then the documents the session names; the socket may be *)
(* revoked, expire or leave between any two of these reads.  A revocation  *)
(* is written first and announced next; the announcement may be lost.      *)
(*                                                                         *)
(* The account or the staff member and the tablet of a session are one     *)
(* document here: losing either is for ever.  The restaurant may be opened *)
(* again.  A generation changes only when its session is invalidated.      *)
(***************************************************************************)
EXTENDS Integers, FiniteSets

CONSTANTS Sockets,   \* each connects once; its session has a document of its own
          Others,    \* documents of sessions without a socket here
          Events,    \* events of the restaurant's orders, relayed once each
          Tenant

ASSUME SocketAssumption ==
    /\ Tenant \notin Sockets \cup Others /\ Sockets \cap Others = {}
    /\ {"connect", "sweep"} \cap Events = {}

VARIABLES allowed,   \* the database: documents that allow their sessions
          news,      \* Redis: revocations announced and not heard yet
          expired,   \* sessions past their exp
          socks,     \* the sockets of the server, with their session
          check,     \* how far each check of each socket is
          sweeping,  \* revalidationInFlight
          relayed,   \* events the gateway has taken
          sent,      \* who received what
          heard,     \* sockets whose own revocation the gateway has heard (history)
          late,      \* events that came after the socket's revocation (history)
          cause      \* sockets with a reason to be closed (history)

history == <<heard, late, cause>>
gateway == <<socks, check, sweeping, relayed, sent>>
socketVars == <<allowed, news, expired, gateway, history>>

-----------------------------------------------------------------------------

Subjects == Sockets \cup Others \cup {Tenant}
Checks == {"connect", "sweep"} \cup Events

Unborn == [line |-> "none", session |-> "none", room |-> FALSE, timer |-> FALSE]

SocketInit ==
    /\ allowed = Subjects /\ news = {} /\ expired = {}
    /\ socks = [s \in Sockets |-> Unborn]
    /\ check = [s \in Sockets |-> [k \in Checks |-> "none"]]
    /\ sweeping = FALSE /\ relayed = {} /\ sent = {}
    /\ heard = {} /\ late = {} /\ cause = {}

Connected(s) == socks[s].line = "up"

\* Mutation: only the connection is cut.
CutLine(S) == [s \in Sockets |-> IF s \in S THEN [socks[s] EXCEPT !.session = "invalid"] ELSE socks[s]]

\* disconnectSessionSocket: the session is invalidated, the timer cleared, the
\* connection cut; socket.io takes a cut socket out of its rooms.
Cut(S) ==
    [s \in Sockets |->
        IF s \in S THEN [line |-> "down", session |-> "invalid", room |-> FALSE, timer |-> FALSE]
        ELSE socks[s]]

\* Mutation: the session is the one that was checked.
CurrentAlways(s, k) == TRUE

\* isSessionCurrent; the sockets fetched for an event do not say whether they are
\* connected.
Current(s, k) ==
    /\ socks[s].session = "valid" /\ s \notin expired
    /\ k \in Events \/ Connected(s)

Puts(s, k, step) == check' = [check EXCEPT ![s][k] = step]

-----------------------------------------------------------------------------
(* Authority.                                                              *)

\* A member is changed, a tablet unpaired, a restaurant suspended: the write,
\* then the announcement, whose failure is logged.
Revoke(x) ==
    /\ x \in allowed
    /\ allowed' = allowed \ {x}
    /\ news' \in {news, news \cup {x}}
    /\ cause' = cause \cup (IF x = Tenant THEN Sockets ELSE {x} \cap Sockets)
    /\ UNCHANGED <<expired, gateway, heard, late>>

Reopen ==
    /\ Tenant \notin allowed
    /\ allowed' = allowed \cup {Tenant}
    /\ UNCHANGED <<news, expired, gateway, history>>

\* Mutation: the scope of the announcement is not looked at.
MatchingAll(x) == {s \in Sockets : Connected(s)}

\* disconnectMatching goes over the sockets of the server, by their session.
Matching(x) == {s \in Sockets : Connected(s) /\ (x = Tenant \/ x = s)}

Hear(x) ==
    /\ x \in news
    /\ news' = news \ {x}
    /\ socks' = Cut(Matching(x))
    /\ heard' = heard \cup ({x} \cap Sockets)
    /\ UNCHANGED <<allowed, expired, check, sweeping, relayed, sent, late, cause>>

Expire(s) ==
    /\ s \notin expired
    /\ expired' = expired \cup {s}
    /\ cause' = cause \cup {s}
    /\ UNCHANGED <<allowed, news, gateway, heard, late>>

\* scheduleExpiry.
TimerFires(s) ==
    /\ socks[s].timer /\ s \in expired
    /\ socks' = Cut({s})
    /\ UNCHANGED <<allowed, news, expired, check, sweeping, relayed, sent, history>>

-----------------------------------------------------------------------------
(* Checks.                                                                 *)

\* handleConnection: the JWT is verified, its session opened before any reading.
Connect(s) ==
    /\ socks[s].line = "none" /\ s \notin expired
    /\ socks' = [socks EXCEPT ![s].line = "up", ![s].session = "valid"]
    /\ Puts(s, "connect", "tenant")
    /\ UNCHANGED <<allowed, news, expired, sweeping, relayed, sent, history>>

\* assertAllows: the restaurant is read, then the documents of the session.  (An
\* account is read before its restaurant, and the editor's has none.)
ReadTenant(s, k) ==
    /\ check[s][k] = "tenant"
    /\ Puts(s, k, IF Tenant \in allowed THEN "own" ELSE "refused")
    /\ UNCHANGED <<allowed, news, expired, socks, sweeping, relayed, sent, history>>

ReadOwn(s, k) ==
    /\ check[s][k] = "own"
    /\ Puts(s, k, IF s \in allowed THEN "passed" ELSE "refused")
    /\ UNCHANGED <<allowed, news, expired, socks, sweeping, relayed, sent, history>>

\* A reading fails: nobody is let in for that.
ReadFails(s, k) ==
    /\ check[s][k] \in {"tenant", "own"}
    /\ Puts(s, k, "refused")
    /\ cause' = cause \cup {s}
    /\ UNCHANGED <<allowed, news, expired, socks, sweeping, relayed, sent, heard, late>>

\* assertAllows throws, or the session is not current any more.
Refuse(s, k) ==
    /\ \/ check[s][k] = "refused"
       \/ check[s][k] = "passed" /\ ~Current(s, k)
    /\ Puts(s, k, "none")
    /\ socks' = Cut({s})
    /\ UNCHANGED <<allowed, news, expired, sweeping, relayed, sent, history>>

\* The timer is set, then the socket joins the room of the restaurant.  When the
\* time runs out between the comparison and the setting, scheduleExpiry cuts the
\* socket at once: that is Expire, then Refuse, for a socket that is cut is in
\* no room whatever it joins.
Admit(s) ==
    /\ check[s]["connect"] = "passed" /\ Current(s, "connect")
    /\ socks' = [socks EXCEPT ![s].timer = TRUE, ![s].room = TRUE]
    /\ Puts(s, "connect", "joined")
    /\ UNCHANGED <<allowed, news, expired, sweeping, relayed, sent, history>>

\* After the join, once more.
Joined(s) ==
    /\ check[s]["connect"] = "joined"
    /\ Puts(s, "connect", "none")
    /\ socks' = IF Current(s, "connect") THEN socks ELSE Cut({s})
    /\ UNCHANGED <<allowed, news, expired, sweeping, relayed, sent, history>>

\* Mutation: whoever is in the room has been checked.
FirstStepTrusting == "passed"

FirstStep == "tenant"

\* relayToAuthorizedTenant: no broadcast, each socket of the room is checked.
Relay(e) ==
    /\ e \notin relayed
    /\ relayed' = relayed \cup {e}
    /\ check' = [s \in Sockets |->
         IF socks[s].room THEN [check[s] EXCEPT ![e] = FirstStep] ELSE check[s]]
    /\ late' = late \cup {s \in Sockets : s \notin allowed} \X {e}
    /\ UNCHANGED <<allowed, news, expired, socks, sweeping, sent, heard, cause>>

\* Nothing separates the last look at the session from the emission.
Emit(s, e) ==
    /\ check[s][e] = "passed" /\ Current(s, e)
    /\ Puts(s, e, "none")
    /\ sent' = IF Connected(s) THEN sent \cup {<<s, e>>} ELSE sent
    /\ UNCHANGED <<allowed, news, expired, socks, sweeping, relayed, history>>

SweepStart ==
    /\ ~sweeping
    /\ sweeping' = TRUE
    /\ check' = [s \in Sockets |->
         IF Connected(s) THEN [check[s] EXCEPT !["sweep"] = "tenant"] ELSE check[s]]
    /\ UNCHANGED <<allowed, news, expired, socks, relayed, sent, history>>

SweepPasses(s) ==
    /\ check[s]["sweep"] = "passed" /\ Current(s, "sweep")
    /\ Puts(s, "sweep", "none")
    /\ UNCHANGED <<allowed, news, expired, socks, sweeping, relayed, sent, history>>

Swept == \A s \in Sockets : check[s]["sweep"] = "none"

\* Mutation: the flag is cleared by the next line and not by the finally.
SweepDoneUnless ==
    /\ sweeping /\ Swept /\ cause = {}
    /\ sweeping' = FALSE
    /\ UNCHANGED <<allowed, news, expired, socks, check, relayed, sent, history>>

\* finally.
SweepDone ==
    /\ sweeping /\ Swept
    /\ sweeping' = FALSE
    /\ UNCHANGED <<allowed, news, expired, socks, check, relayed, sent, history>>

\* Mutation: the timer stays.
LeaveTimed(s) ==
    /\ Connected(s)
    /\ socks' = [socks EXCEPT ![s].line = "down", ![s].room = FALSE]
    /\ UNCHANGED <<allowed, news, expired, check, sweeping, relayed, sent, history>>

\* The client closes its socket; its 'disconnect' clears the timer.
Leave(s) ==
    /\ Connected(s)
    /\ socks' = [socks EXCEPT ![s].line = "down", ![s].room = FALSE, ![s].timer = FALSE]
    /\ UNCHANGED <<allowed, news, expired, check, sweeping, relayed, sent, history>>

Reads(s, k) == ReadTenant(s, k) \/ ReadOwn(s, k) \/ ReadFails(s, k) \/ Refuse(s, k)

SocketNext ==
    \/ \E x \in Subjects : Revoke(x) \/ Hear(x)
    \/ Reopen \/ SweepStart \/ SweepDone
    \/ \E e \in Events : Relay(e) \/ \E s \in Sockets : Emit(s, e)
    \/ \E s \in Sockets :
         \/ Connect(s) \/ Admit(s) \/ Joined(s) \/ SweepPasses(s)
         \/ Expire(s) \/ TimerFires(s) \/ Leave(s)
         \/ \E k \in Checks : Reads(s, k)

SocketSpec == SocketInit /\ [][SocketNext]_socketVars

\* The interval fires, and the readings of a sweep end.
FairSocketSpec ==
    /\ SocketSpec
    /\ WF_socketVars(SweepStart) /\ WF_socketVars(SweepDone)
    /\ \A s \in Sockets : WF_socketVars(Reads(s, "sweep") \/ SweepPasses(s))

-----------------------------------------------------------------------------
(* Properties.                                                             *)

\* Types: the documents, the sockets, their checks, what was sent; no timer of
\* expiryTimers outlives its socket.
SocketTypeOK ==
    /\ allowed \subseteq Subjects /\ news \subseteq Subjects
    /\ expired \subseteq Sockets /\ heard \subseteq Sockets /\ cause \subseteq Sockets
    /\ socks \in [Sockets -> [line : {"none", "up", "down"}, room : BOOLEAN, timer : BOOLEAN,
                              session : {"none", "valid", "invalid"}]]
    /\ \A s \in Sockets : socks[s].timer => Connected(s)
    /\ check \in [Sockets -> [Checks -> {"none", "tenant", "own", "passed", "refused", "joined"}]]
    /\ sweeping \in BOOLEAN /\ relayed \subseteq Events
    /\ sent \subseteq Sockets \X Events /\ late \subseteq Sockets \X Events

\* The room holds sockets of sessions that stand, each with the timer of its
\* expiry: neither a join under way nor a revocation in the middle of it leaves
\* another one there (handleConnection).
RoomIsCurrent ==
    \A s \in Sockets :
        socks[s].room => Connected(s) /\ socks[s].session = "valid" /\ socks[s].timer

\* The sockets, their timers and the room they are in.
RoomSound == SocketTypeOK /\ RoomIsCurrent

\* An event that came after a revocation never reaches the revoked session,
\* the announcement lost or late (relayToAuthorizedTenant reads again).
NothingLate == sent \cap late = {}

\* Once the gateway has heard of a revocation, or the session has expired,
\* nothing more is emitted to it, a check that had passed included.
NothingAfterHearing ==
    [][\A s \in Sockets, e \in Events :
         <<s, e>> \in sent' \ sent => s \notin heard /\ s \notin expired]_socketVars

\* The gateway cuts a socket for a reason of its own: its documents, its
\* restaurant, its time, or a reading that failed; never for the revocation of a
\* neighbour (disconnectMatching).
CutForCause ==
    [][\A s \in Sockets :
         Connected(s) /\ socks'[s].session = "invalid" => s \in cause]_socketVars

\* A session that has lost its authority, or its time, is closed within a
\* sweep, whatever was lost on the way.
RevokedIsClosed ==
    \A s \in Sockets :
        (Connected(s) /\ (s \notin allowed \/ s \in expired)) ~> ~Connected(s)
=============================================================================
