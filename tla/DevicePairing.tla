---------------------------- MODULE DevicePairing ----------------------------
(***************************************************************************)
(* The life of a till's pairing (apps/pos/src/client.ts, apps/pos/App.tsx; *)
(* apps/kds/src/client.ts is the same code with an unprotected clear), on  *)
(* top of the offline queue.  Three pieces of durable state must agree     *)
(* whatever window crashes or acts in between: the queue's document, the   *)
(* device's identity (which holds its token), and the business data kept   *)
(* for the pairing.  They are separate storage keys, each written under    *)
(* the lock, never together.                                               *)
(***************************************************************************)
EXTENDS SyncQueue

CONSTANT WritesMayFail  \* the storage may refuse the write that follows a bind

ASSUME DevicePairingAssumption ==
    /\ WritesMayFail \in BOOLEAN
    /\ None \notin [scope : Scopes, pending : BOOLEAN]

VARIABLES
    identity,  \* the stored PairedDevice: its scope and queueBindingPending
    data,      \* pairings whose day log, parked tickets or session remain
    app,       \* where each window's application code stands
    token,     \* the staff token of each window (setToken), by its pairing
    kept,      \* windows whose unpairing broke off between its keys and its session
    minted     \* scopes that pairDevice has drawn ("pair:<uuid>")

\* kept is what happened and no state of the code.
appVars == <<identity, data, app, token, kept, minted>>
allVars == <<vars, appVars>>

\* cand: the identity the window is restoring or pairing; prev: what it
\* replaced; dev: the device the window has adopted.
Off == [pc |-> "off", cand |-> None, prev |-> None, dev |-> None]

\* Mutation: the mark of an unfinished pairing is not written.
IdentityUnmarked(s, p) == [scope |-> s]

Identity(s, p) == [scope |-> s, pending |-> p]
Identities == {None} \cup [scope : Scopes, pending : BOOLEAN]

PairingInit ==
    /\ Init
    /\ identity = None /\ data = {} /\ minted = {}
    /\ app = [t \in Tabs |-> Off]
    /\ token = [t \in Tabs |-> None] /\ kept = {}

At(t, pc) == app[t].pc = pc
Goto(t, pc) == app' = [app EXCEPT ![t].pc = pc]

\* adopt(device), and adopt(null) with setToken(null).
Adopt(t) == app' = [app EXCEPT ![t] =
                      [Off EXCEPT !.pc = "on", !.dev = app[t].cand.scope]]
Unpaired(t) == app' = [app EXCEPT ![t] = [Off EXCEPT !.pc = "none"]]

\* The boot screen offers to retry; nothing of the attempt is kept.
Broken(t) == app' = [app EXCEPT ![t] = [Off EXCEPT !.pc = "error"]]

\* Mutation: the staff token survives the unpairing.
ForgottenKeepsToken(t) == Unpaired(t) /\ UNCHANGED <<token, kept>>

Session(t, s) == token' = [token EXCEPT ![t] = s] /\ kept' = kept \ {t}
Forgotten(t) == Unpaired(t) /\ Session(t, None)

\* Mutation: only the pairing, the session and the queue are forgotten.
PurgeIdentityOnly == identity' = None /\ UNCHANGED data

\* purgeKeysWithIdentityLast: under the lock, whoever the keys belong to.
Purge == identity' = None /\ data' = {}

\* The storage refuses one of the removals: some of the business keys may be
\* gone, the identity, removed last, is not.
PurgeFails(t) ==
    /\ (At(t, "boot") /\ identity = None) \/ app[t].pc \in {"finish", "purge"}
    /\ data' \in {data, {}}
    /\ Broken(t)
    /\ UNCHANGED <<vars, identity, token, kept, minted>>

-----------------------------------------------------------------------------
(* Restoring the pairing when a window starts, or on "Reessayer".          *)

Boot(t) ==
    /\ Open(t)
    /\ Goto(t, "boot")
    /\ UNCHANGED <<identity, data, token, kept, minted>>

Retry(t) ==
    /\ At(t, "error")
    /\ Goto(t, "boot")
    /\ UNCHANGED <<vars, identity, data, token, kept, minted>>

\* restoreScopedIdentity: without an identity, the leftovers are purged.
Restore(t) ==
    /\ At(t, "boot")
    /\ \/ /\ identity # None
          /\ app' = [app EXCEPT ![t] = [Off EXCEPT !.pc = "bind", !.cand = identity]]
          /\ UNCHANGED <<identity, data>>
       \/ /\ identity = None
          /\ Purge
          /\ Goto(t, "empty")
    /\ UNCHANGED <<vars, token, kept, minted>>

\* A window that lost its scope never gets past bindScope().
Restored(t) == IF app[t].cand.pending THEN Goto(t, "rewrite") ELSE Adopt(t)

\* QueueScopeRetiredError: this window holds no other scope, and the one it asks
\* for is retired.
FindsRetired(t, s, fresh) ==
    /\ s \in disk.retired /\ ~mem[t].invalid
    /\ mem[t].bound = None \/ (fresh /\ mem[t].bound # s)

RestoreBind(t) ==
    /\ At(t, "bind")
    /\ LET s == app[t].cand.scope
           fresh == app[t].cand.pending
       IN  \/ Bind(t, s, fresh) /\ Restored(t)
           \/ /\ mem[t].bound = s /\ InScope(t) /\ ~mem[t].invalid
              /\ Restored(t)
              /\ UNCHANGED vars
           \/ /\ ~CanBind(t, s, fresh)
              /\ ~(mem[t].bound = s /\ InScope(t) /\ ~mem[t].invalid)
              /\ Goto(t, IF FindsRetired(t, s, fresh) THEN "finish" ELSE "error")
              /\ UNCHANGED vars
    /\ UNCHANGED <<identity, data, token, kept, minted>>

\* A read of the identity or the bind's own access to the storage fails.
RestoreFails(t) ==
    /\ app[t].pc \in {"boot", "bind"}
    /\ Broken(t)
    /\ UNCHANGED <<vars, identity, data, token, kept, minted>>

\* The pending mark is lifted through the scoped store.
Rewrite(t) ==
    /\ At(t, "rewrite") /\ Working(t)
    /\ identity' = Identity(mem[t].bound, FALSE)
    /\ Adopt(t)
    /\ UNCHANGED <<vars, data, token, kept, minted>>

\* finishInterruptedUnpair: the queue was cleared, the keys were not.
FinishPurge(t) ==
    /\ At(t, "finish")
    /\ Purge
    /\ Goto(t, "finished")
    /\ UNCHANGED <<vars, token, kept, minted>>

\* completeClear(); loadPairedDevice drops the token only after finishing an
\* unpairing.
FinishClear(t) ==
    /\ \/ At(t, "finished") /\ CompleteClear(t) /\ Forgotten(t)
       \/ At(t, "empty") /\ CompleteClear(t) /\ Unpaired(t) /\ UNCHANGED <<token, kept>>
    /\ UNCHANGED <<identity, data, minted>>

\* completeClear() rejects: another window has bound a pairing, or the storage
\* refuses the read or the write.  What follows it, setToken(null) included, is
\* skipped, and the keys are gone: the next restoration finds nothing to finish.
CompleteFails(t) ==
    /\ app[t].pc \in {"empty", "finished", "complete"}
    /\ Broken(t)
    /\ kept' = IF At(t, "empty") \/ token[t] = None THEN kept ELSE kept \cup {t}
    /\ UNCHANGED <<vars, identity, data, token, minted>>

-----------------------------------------------------------------------------
(* Pairing: intent written, queue bound, intent confirmed.                 *)

\* The pairing screen is on: no device, and the window is not invalidated.  A
\* storage event is delivered long before somebody has typed a code.
MayPair(t) == At(t, "none") /\ ~mem[t].invalid /\ ~Stale(t)

\* Mutation: the intent is not written before the bind.
IntentUnwritten(s) == identity

Intent(s) == Identity(s, TRUE)

PairIntent(t, s) ==
    /\ MayPair(t)
    /\ s \notin minted
    /\ minted' = minted \cup {s}
    /\ identity' = Intent(s)
    /\ app' = [app EXCEPT ![t] = [Off EXCEPT !.pc = "pair",
                 !.cand = Identity(s, TRUE), !.prev = identity]]
    /\ UNCHANGED <<vars, data, token, kept>>

\* The bind is refused, or its write is.
PairBind(t) ==
    /\ At(t, "pair")
    /\ \/ Bind(t, app[t].cand.scope, TRUE) /\ Goto(t, "commit")
       \/ Goto(t, "rollback") /\ UNCHANGED vars
    /\ UNCHANGED <<identity, data, token, kept, minted>>

PairCommit(t) ==
    /\ At(t, "commit") /\ Working(t)
    /\ identity' = Identity(mem[t].bound, FALSE)
    /\ Adopt(t)
    /\ UNCHANGED <<vars, data, token, kept, minted>>

\* restoreIdentityIfUnchanged, whose own failure is swallowed.
PairRollback(t) ==
    /\ At(t, "rollback")
    /\ identity' \in {identity} \cup {p \in {app[t].prev} : identity = app[t].cand}
    /\ Unpaired(t)
    /\ UNCHANGED <<vars, data, token, kept, minted>>

\* The storage refuses the write that follows the bind, or the scope moved.
WriteFails(t) ==
    /\ app[t].pc \in {"commit", "rewrite"}
    /\ WritesMayFail \/ ~Working(t)
    /\ Goto(t, IF At(t, "commit") THEN "none" ELSE "error")
    /\ UNCHANGED <<vars, identity, data, token, kept, minted>>

-----------------------------------------------------------------------------
(* Unpairing: forgetPairedDevice, by hand or on a revocation.              *)

Forget(t) ==
    /\ At(t, "on")
    /\ ClearBegin(t)
    /\ Goto(t, "clear")
    /\ UNCHANGED <<identity, data, token, kept, minted>>

\* Mutation: a refused clear shows the pairing screen all the same.
ForgetClearLetsGo(t) ==
    /\ At(t, "clear")
    /\ \/ ClearCommit(t) /\ Goto(t, "purge")
       \/ ClearRefused(t) /\ Unpaired(t)
       \/ ClearFails(t) /\ Unpaired(t)
    /\ UNCHANGED <<identity, data, token, kept, minted>>

ForgetClear(t) ==
    /\ At(t, "clear")
    /\ \/ ClearCommit(t) /\ Goto(t, "purge")
       \/ ClearRefused(t) /\ Goto(t, "error")
       \/ ClearFails(t) /\ Goto(t, "error")
    /\ UNCHANGED <<identity, data, token, kept, minted>>

ForgetPurge(t) ==
    /\ At(t, "purge")
    /\ Purge
    /\ Goto(t, "complete")
    /\ UNCHANGED <<vars, token, kept, minted>>

ForgetComplete(t) ==
    /\ At(t, "complete")
    /\ CompleteClear(t) /\ Forgotten(t)
    /\ UNCHANGED <<identity, data, minted>>

-----------------------------------------------------------------------------
(* A paired till at work.                                                  *)

PinLogin(t) ==
    /\ At(t, "on") /\ ~mem[t].invalid
    /\ Session(t, app[t].dev)
    /\ UNCHANGED <<vars, identity, data, app, minted>>

\* onLock.
Lock(t) ==
    /\ At(t, "on")
    /\ Session(t, None)
    /\ UNCHANGED <<vars, identity, data, app, minted>>

\* deviceHeartbeat, when the establishment's brand has changed: persist() binds
\* the scope it already has, then writes the identity through the scoped store.
Heartbeat(t) ==
    /\ At(t, "on") /\ Working(t)
    /\ identity' = Identity(mem[t].bound, FALSE)
    /\ UNCHANGED <<vars, data, app, token, kept, minted>>

\* scopedStore().setItem, by the day log, the parked tickets, the session.
SaveData(t) ==
    /\ At(t, "on") /\ Working(t)
    /\ data' = data \cup {mem[t].bound}
    /\ UNCHANGED <<vars, identity, app, token, kept, minted>>

Sell(t) ==
    /\ At(t, "on") /\ token[t] # None
    /\ (\E e \in Entries : Enqueue(t, e)) \/ Acknowledge(t)
    /\ UNCHANGED appVars

\* The queue's own steps; a clear that finds the scope moved fails.
Background(t) ==
    /\ Pass(t)
    /\ Tick(t) => At(t, "on")
    /\ app' = IF At(t, "clear") /\ mem'[t].invalid
              THEN [app EXCEPT ![t].pc = "error"] ELSE app
    /\ UNCHANGED <<identity, data, token, kept, minted>>

\* A purge interrupted half-way has removed data, never the identity.
Crash(t) ==
    /\ Close(t)
    /\ app' = [app EXCEPT ![t] = Off]
    /\ Session(t, None)
    /\ \/ UNCHANGED data
       \/ app[t].pc \in {"finish", "purge"} /\ data' = {}
    /\ UNCHANGED <<identity, minted>>

PairingNext ==
    \/ \E t \in Tabs :
         \/ Boot(t) \/ Retry(t) \/ Restore(t) \/ RestoreBind(t) \/ Rewrite(t)
         \/ FinishPurge(t) \/ FinishClear(t)
         \/ RestoreFails(t) \/ PurgeFails(t) \/ CompleteFails(t)
         \/ (\E s \in Scopes : PairIntent(t, s)) \/ PairBind(t) \/ PairCommit(t)
         \/ PairRollback(t) \/ WriteFails(t)
         \/ Forget(t) \/ ForgetClear(t) \/ ForgetPurge(t) \/ ForgetComplete(t)
         \/ PinLogin(t) \/ Lock(t) \/ Heartbeat(t) \/ SaveData(t) \/ Sell(t)
         \/ Background(t) \/ Crash(t)
    \/ (\E e \in Entries : LateArrives(e)) /\ UNCHANGED appVars

PairingSpec == PairingInit /\ [][PairingNext]_allVars
-----------------------------------------------------------------------------
(* Properties.                                                             *)

PairingTypeOK ==
    /\ TypeOK
    /\ identity \in Identities
    /\ data \subseteq Scopes /\ minted \subseteq Scopes /\ kept \subseteq Tabs
    /\ token \in [Tabs -> Scopes \cup {None}]
    /\ \A t \in Tabs : /\ app[t].cand \in Identities
                       /\ app[t].prev \in Identities
                       /\ app[t].dev \in Scopes \cup {None}
                       /\ mem[t].open = ~At(t, "off")

\* storage.ts, purgeKeysWithIdentityLast(): nothing of a closed pairing is
\* readable under the next.  In one window, wherever the purge or the clear
\* breaks off, by a crash or by a refusal of the storage, and however it is
\* taken up again, A's day log never reaches B.  (Several windows break it: a
\* completeClear() that comes late lifts the tombstone of a later unpairing,
\* whose keys are still there.)
NoLeakAcrossPairings == disk.scope # None => data \subseteq {disk.scope}

\* A mutation never leaves with the token of another establishment than the
\* one it was entered for, however a pass straddles an unpairing (in a window
\* whose session is its device's, see SessionFollowsDevice).
NoCrossTenantSend ==
    [][\A t \in Tabs :
         flush'[t].pc = "wait" /\ flush[t].pc # "wait"
             => token[t] \in {None, owner[flush'[t].cur]}
                \/ token[t] # app[t].dev]_allVars

\* client.ts, forgetPairedDevice(): "La session de l'equipier part avec", a
\* staff token issued for one establishment means nothing on the next.  It holds
\* across refused clears, crashes, purges that fail and retries, with one
\* exception: completeClear() fails once the keys are gone, setToken(null) is
\* skipped, and the retry finds no unpairing to finish.
SessionFollowsDevice ==
    \A t \in Tabs : At(t, "on") => token[t] \in {None, app[t].dev} \/ t \in kept

\* The three durable pieces a reboot finds agree well enough for it to end on
\* the till or on the pairing screen, never on a locked screen for ever.
Bootable ==
    IF identity = None
    THEN disk.scope = None
    ELSE \/ identity.scope \in disk.retired /\ disk.scope = None
         \/ /\ identity.scope \notin disk.retired
            /\ ~disk.purging
            /\ disk.scope \in {None, identity.scope}
            /\ identity.pending /\ disk.scope = None => ~HasMatter

\* A power cut, wherever it falls, leaves a device that can restart.
PowerCutRecovers == (\A t \in Tabs : ~mem[t].open) => Bootable

\* sync-queue.ts, PersistedQueueV2.purgePending: no new scope can be bound
\* before the second phase of the purge has been acknowledged.
PurgeAcknowledged == disk.purging => disk.scope = None

\* client.ts, persist(): after a durable bind the identity must stay, removing
\* it would orphan the scope and lose the token.
ScopeKeepsIdentity == disk.scope # None => identity # None

\* client.ts, persist(): with the intent written first, loadPairedDevice can
\* resume exactly this fresh bind after a crash.
IntentCanResume ==
    (\A t \in Tabs : ~mem[t].open) /\ identity # None /\ identity.pending
        => disk.scope \in {None, identity.scope}

\* The queue's document, the identity and the business keys agree, and a crash
\* between any two writes leaves what loadPairedDevice can resume.
PiecesAgree ==
    /\ PairingTypeOK
    /\ PowerCutRecovers
    /\ PurgeAcknowledged
    /\ ScopeKeepsIdentity
    /\ IntentCanResume

\* Restoring ends: on the till, on the pairing screen, or with the window
\* closed again.
EventuallyRestored ==
    \A t \in Tabs : At(t, "boot") ~> app[t].pc \in {"on", "none", "off"}

\* loadPairedDevice runs to its end, the user retries, and the storage does not
\* refuse the same access for ever.
RestoreRuns(t) ==
    /\ WF_allVars(Retry(t))
    /\ SF_allVars(Restore(t)) /\ SF_allVars(RestoreBind(t)) /\ SF_allVars(Rewrite(t))
    /\ SF_allVars(FinishPurge(t)) /\ SF_allVars(FinishClear(t))
FairPairingSpec == PairingSpec /\ \A t \in Tabs : RestoreRuns(t)

=============================================================================
