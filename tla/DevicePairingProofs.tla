------------------------- MODULE DevicePairingProofs -------------------------
(***************************************************************************)
(* Proofs about DevicePairing.  For any number of windows: every step of   *)
(* the pairing is a step of the queue below, so that what SyncQueueProofs  *)
(* shows of the queue holds of the till, and nothing leaves with another   *)
(* establishment's token.  For one window: nothing of a closed pairing is  *)
(* readable under the next; and, when the storage does not refuse the      *)
(* write that follows a bind, the durable pieces always agree and a        *)
(* session leaves with its device, unless completeClear() has failed.      *)
(***************************************************************************)
EXTENDS DevicePairing, SyncQueueProofs

PairedIdentities == [scope : Scopes, pending : BOOLEAN]
App == [pc : {"off", "boot", "empty", "bind", "rewrite", "finish", "finished", "none", "pair",
              "commit", "rollback", "error", "on", "clear", "purge", "complete"},
        cand : Identities, prev : Identities, dev : Scopes \cup {None}]

\* A window that restores or pairs has an identity to do it with.
CandIsPaired ==
    \A t \in Tabs : app[t].pc \in {"bind", "rewrite", "pair", "commit", "rollback"}
                        => app[t].cand \in PairedIdentities

AppTyped ==
    /\ identity \in Identities /\ data \subseteq Scopes /\ minted \subseteq Scopes
    /\ token \in [Tabs -> Scopes \cup {None}] /\ kept \subseteq Tabs
    /\ app \in [Tabs -> App]
    /\ CandIsPaired
    /\ \A t \in Tabs : mem[t].open = ~At(t, "off")

\* The queue's own invariant, and the application's types.
PairingTyped == DeliveryInv /\ AppTyped

\* Between the keys of a pairing and completeClear() nothing is stored (one
\* window: a second one may store or unpair in between).
DataInv ==
    /\ NoLeakAcrossPairings
    /\ disk.scope = None /\ ~disk.purging => data = {}
    /\ (\E t \in Tabs : app[t].pc \in {"empty", "finished", "complete"}) /\ disk.scope = None
         => data = {}

\* A window sends only while it is on, for the device it has adopted, what was
\* entered for it.
PassesOn ==
    \A t \in Tabs :
        /\ flush[t].pc # "idle" => At(t, "on")
        /\ app[t].pc \in {"rewrite", "commit"} => mem[t].bound = app[t].cand.scope
        /\ At(t, "on") => mem[t].bound = app[t].dev
Owned(f, s) ==
    /\ f.pc \in {"pick", "guard", "wait"} => \A e \in f.todo : e \in accepted /\ owner[e] = s
    /\ f.pc \in {"guard", "wait"} => f.cur \in accepted /\ owner[f.cur] = s
PassesOwned == \A t \in Tabs : Owned(flush[t], mem[t].bound)

PairingIInv == PairingTyped /\ PassesOn /\ PassesOwned

-----------------------------------------------------------------------------
(* One window.                                                             *)

SingleWindow == \A t, u \in Tabs : t = u

\* One window runs, and its storage takes the write that follows a bind.
Alone == SingleWindow /\ ~WritesMayFail

ScopesMinted ==
    /\ disk.retired \subseteq minted /\ disk.scope \in minted \cup {None}
    /\ identity # None => identity.scope \in minted

\* The document and the identity agree at every step, not only at a power cut.
PiecesInv ==
    /\ disk.purging => disk.scope = None
    /\ IF identity = None THEN disk.scope = None
       ELSE \/ identity.scope \in disk.retired /\ disk.scope = None
            \/ /\ identity.scope \notin disk.retired /\ ~disk.purging
               /\ disk.scope \in {None, identity.scope}

\* An identity that a rolled back pairing may leave behind.
Resumable(i) == i # None => i.scope \in minted /\ i.scope \notin disk.retired

\* Where the window stands says what it has done to them.
Stands(t) ==
    /\ app[t].pc \in {"bind", "rewrite", "pair", "commit"} => identity = app[t].cand
    /\ At(t, "none") => Resumable(identity)
    /\ app[t].pc \in {"pair", "rollback"} => Resumable(app[t].cand) /\ Resumable(app[t].prev)
    /\ At(t, "rollback") => identity = app[t].cand
    /\ app[t].pc \in {"none", "pair", "rollback"} => disk.scope = None /\ ~disk.purging
    /\ app[t].pc \in {"none", "pair", "rollback", "commit"} => ~mem[t].clearing
    /\ app[t].pc \in {"on", "clear"} =>
         /\ identity # None /\ identity.scope = app[t].dev
         /\ mem[t].bound = app[t].dev
    /\ app[t].pc \in {"purge", "finish"} => disk.scope = None
    /\ app[t].pc \in {"complete", "empty", "finished"} => identity = None

\* As long as the identity is there, a retry finds what to finish.
SessionKept(t) ==
    /\ At(t, "off") => token[t] = None
    /\ token[t] # None /\ t \notin kept =>
        \/ app[t].pc \in {"finished", "complete"}
        \/ /\ app[t].pc \in {"on", "clear", "error", "boot", "bind", "rewrite", "finish", "purge"}
           /\ identity # None /\ token[t] = identity.scope

\* What the window remembers is the document.
AloneAt(t) ==
    /\ mem[t].bound # None => InScope(t)
    /\ ~mem[t].invalid
    /\ mem[t].purging => disk.purging
    /\ Stands(t) /\ SessionKept(t)

AloneRest == ScopesMinted /\ PiecesInv /\ \A t \in Tabs : AloneAt(t)
AloneInv == PairingIInv /\ AloneRest

-----------------------------------------------------------------------------
(* The windows' application code.                                          *)

\* Restoring or unpairing breaks off on the storage.
BreaksOff(t) == RestoreFails(t) \/ PurgeFails(t) \/ CompleteFails(t)

\* The steps of one window, for the rest of this module.
WindowStep(t) ==
    \/ Boot(t) \/ Retry(t) \/ Restore(t) \/ RestoreBind(t) \/ Rewrite(t)
    \/ FinishPurge(t) \/ FinishClear(t) \/ BreaksOff(t)
    \/ (\E s \in Scopes : PairIntent(t, s)) \/ PairBind(t) \/ PairCommit(t)
    \/ PairRollback(t) \/ WriteFails(t)
    \/ Forget(t) \/ ForgetClear(t) \/ ForgetPurge(t) \/ ForgetComplete(t)
    \/ PinLogin(t) \/ Lock(t) \/ Heartbeat(t) \/ SaveData(t) \/ Sell(t)
    \/ Background(t) \/ Crash(t)
LateStep == (\E e \in Entries : LateArrives(e)) /\ UNCHANGED appVars

LEMMA PairingSteps == PairingNext => (\E t \in Tabs : WindowStep(t)) \/ LateStep
BY DEF PairingNext, WindowStep, LateStep, BreaksOff

LEMMA AppUse ==
    ASSUME AppTyped, NEW t \in Tabs
    PROVE  /\ app \in [Tabs -> App] /\ app[t] \in App
           /\ app[t].pc \in {"bind", "rewrite", "pair", "commit", "rollback"} =>
                /\ app[t].cand \in PairedIdentities
                /\ app[t].cand.scope \in Scopes /\ app[t].cand.pending \in BOOLEAN
BY DEF AppTyped, CandIsPaired, PairedIdentities

LEMMA AppSet ==
    ASSUME AppTyped, NEW t \in Tabs, NEW r \in App, app' = [app EXCEPT ![t] = r],
           r.pc \in {"bind", "rewrite", "pair", "commit", "rollback"} => r.cand \in PairedIdentities
    PROVE  /\ app' \in [Tabs -> App] /\ CandIsPaired'
           /\ app'[t] = r /\ \A u \in Tabs : u # t => app'[u] = app[u]
BY DEF AppTyped, CandIsPaired

PCs == {"off", "boot", "empty", "bind", "rewrite", "finish", "finished", "none", "pair",
        "commit", "rollback", "error", "on", "clear", "purge", "complete"}

LEMMA GotoSet ==
    ASSUME AppTyped, NEW t \in Tabs, NEW pc \in PCs, Goto(t, pc),
           pc \in {"bind", "rewrite", "pair", "commit", "rollback"}
             => app[t].pc \in {"bind", "rewrite", "pair", "commit", "rollback"}
    PROVE  /\ app' \in [Tabs -> App] /\ CandIsPaired'
           /\ app'[t].pc = pc /\ app'[t].cand = app[t].cand
           /\ app'[t].prev = app[t].prev /\ app'[t].dev = app[t].dev
           /\ \A u \in Tabs : u # t => app'[u] = app[u]
<1> DEFINE r == [app[t] EXCEPT !.pc = pc]
<1>1. app[t] \in App /\ r \in App /\ r.pc = pc /\ r.cand = app[t].cand
      /\ r.prev = app[t].prev /\ r.dev = app[t].dev
  BY AppUse DEF App, PCs
<1>2. app' = [app EXCEPT ![t] = r]
  BY DEF Goto
<1>3. pc \in {"bind", "rewrite", "pair", "commit", "rollback"} => r.cand \in PairedIdentities
  BY <1>1, AppUse
<1> HIDE DEF r
<1> QED BY <1>1, <1>2, <1>3, AppSet

LEMMA OffTyped == None \in Identities /\ Off \in App /\ Off.cand = None /\ Off.dev = None
BY DEF Off, App, Identities

LEMMA AdoptSet ==
    ASSUME AppTyped, NEW t \in Tabs, Adopt(t),
           app[t].pc \in {"bind", "rewrite", "pair", "commit", "rollback"}
    PROVE  /\ app' \in [Tabs -> App] /\ CandIsPaired'
           /\ app'[t].pc = "on" /\ app'[t].dev = app[t].cand.scope
           /\ \A u \in Tabs : u # t => app'[u] = app[u]
<1> DEFINE r == [Off EXCEPT !.pc = "on", !.dev = app[t].cand.scope]
<1>1. r \in App /\ r.pc = "on" /\ r.dev = app[t].cand.scope
  BY AppUse, OffTyped DEF App, Off
<1>2. app' = [app EXCEPT ![t] = r]
  BY DEF Adopt
<1> HIDE DEF r
<1> QED BY <1>1, <1>2, AppSet

LEMMA UnpairedSet ==
    ASSUME AppTyped, NEW t \in Tabs, Unpaired(t)
    PROVE  /\ app' \in [Tabs -> App] /\ CandIsPaired'
           /\ app'[t].pc = "none" /\ app'[t].dev = None
           /\ \A u \in Tabs : u # t => app'[u] = app[u]
<1> DEFINE r == [Off EXCEPT !.pc = "none"]
<1>1. r \in App /\ r.pc = "none" /\ r.dev = None
  BY OffTyped DEF App, Off
<1>2. app' = [app EXCEPT ![t] = r]
  BY DEF Unpaired
<1> HIDE DEF r
<1> QED BY <1>1, <1>2, AppSet

LEMMA BreaksOffEffect ==
    ASSUME AppTyped, NEW t \in Tabs, BreaksOff(t)
    PROVE  /\ app' \in [Tabs -> App] /\ CandIsPaired' /\ app'[t].pc = "error"
           /\ \A u \in Tabs : u # t => app'[u] = app[u]
           /\ app[t].pc \in {"boot", "bind", "finish", "purge", "empty", "finished", "complete"}
           /\ UNCHANGED <<vars, identity, token, minted>>
           /\ data' \in {data, {}} /\ kept \subseteq kept' /\ kept' \subseteq kept \cup {t}
<1> DEFINE r == [Off EXCEPT !.pc = "error"]
<1>1. r \in App /\ r.pc = "error"
  BY OffTyped DEF App, Off
<1>2. app' = [app EXCEPT ![t] = r]
  BY DEF BreaksOff, RestoreFails, PurgeFails, CompleteFails, Broken
<1> HIDE DEF r
<1>3. /\ app[t].pc \in {"boot", "bind", "finish", "purge", "empty", "finished", "complete"}
      /\ UNCHANGED <<vars, identity, token, minted>>
      /\ data' \in {data, {}} /\ kept \subseteq kept' /\ kept' \subseteq kept \cup {t}
  BY DEF BreaksOff, RestoreFails, PurgeFails, CompleteFails, At
<1> QED BY <1>1, <1>2, <1>3, AppSet

\* Every step of the pairing is one of the queue's, or leaves it alone.
LEMMA PairingQueueStep ==
    ASSUME AppTyped, [PairingNext]_allVars
    PROVE  [Next]_vars
<1>1. CASE UNCHANGED allVars
  BY <1>1 DEF allVars
<1>2. CASE LateStep
  BY <1>2 DEF LateStep, Next
<1>3. ASSUME NEW t \in Tabs,
             Retry(t) \/ Restore(t) \/ Rewrite(t) \/ FinishPurge(t)
             \/ (\E s \in Scopes : PairIntent(t, s)) \/ PairCommit(t) \/ PairRollback(t)
             \/ WriteFails(t) \/ ForgetPurge(t) \/ PinLogin(t) \/ Lock(t) \/ Heartbeat(t)
             \/ SaveData(t) \/ BreaksOff(t)
      PROVE  UNCHANGED vars
  BY <1>3 DEF BreaksOff, RestoreFails, PurgeFails, CompleteFails, Retry, Restore, Rewrite, FinishPurge, PairIntent, PairCommit, PairRollback,
              WriteFails, ForgetPurge, PinLogin, Lock, Heartbeat, SaveData
<1>4. ASSUME NEW t \in Tabs, NEW s \in Scopes, NEW fresh \in BOOLEAN, Bind(t, s, fresh) PROVE Next
  BY <1>4 DEF Next, Life
<1>5. ASSUME NEW t \in Tabs, RestoreBind(t) PROVE Next \/ UNCHANGED vars
  <2>1. app[t].cand.scope \in Scopes /\ app[t].cand.pending \in BOOLEAN
    BY <1>5, AppUse DEF RestoreBind, At
  <2>2. Bind(t, app[t].cand.scope, app[t].cand.pending) \/ UNCHANGED vars
    BY <1>5 DEF RestoreBind
  <2> QED BY <1>4, <2>1, <2>2
<1>6. ASSUME NEW t \in Tabs, PairBind(t) PROVE Next \/ UNCHANGED vars
  <2>1. app[t].cand.scope \in Scopes
    BY <1>6, AppUse DEF PairBind, At
  <2>2. Bind(t, app[t].cand.scope, TRUE) \/ UNCHANGED vars
    BY <1>6 DEF PairBind
  <2> QED BY <1>4, <2>1, <2>2
<1>7. ASSUME NEW t \in Tabs, Boot(t) \/ Crash(t) PROVE Next
  BY <1>7 DEF Boot, Crash, Next, Life
<1>8. ASSUME NEW t \in Tabs, FinishClear(t) \/ ForgetComplete(t) PROVE Next \/ UNCHANGED vars
  BY <1>8 DEF FinishClear, ForgetComplete, Next, Life
<1>9. ASSUME NEW t \in Tabs, Forget(t) \/ ForgetClear(t) \/ Sell(t) PROVE Next
  BY <1>9 DEF Forget, ForgetClear, Sell, Next, Use
<1>10. ASSUME NEW t \in Tabs, Background(t) PROVE Next
  BY <1>10 DEF Background, Next
<1> QED BY <1>1, <1>2, <1>3, <1>5, <1>6, <1>7, <1>8, <1>9, <1>10, PairingSteps DEF WindowStep

-----------------------------------------------------------------------------
(* What the queue's steps do to the window's memory and to the scope.      *)

LEMMA MemUse ==
    ASSUME IndType, NEW t \in Tabs
    PROVE  /\ mem \in [Tabs -> MemType] /\ mem[t] \in MemType /\ disk \in DiskType
           /\ mem[t].open \in BOOLEAN /\ mem[t].bound \in Scopes \cup {None}
           /\ Refreshed(t).open = mem[t].open /\ Refreshed(t).bound = mem[t].bound
           /\ Refreshed(t).epoch = mem[t].epoch /\ Refreshed(t).clearing = mem[t].clearing
           /\ Refreshed(t).invalid = mem[t].invalid /\ Refreshed(t).purging = disk.purging
           /\ Refreshed(t) \in MemType
           /\ \A x \in SUBSET Entries :
                /\ [Refreshed(t) EXCEPT !.shown = x].open = mem[t].open
                /\ [Refreshed(t) EXCEPT !.shown = x].bound = mem[t].bound
                /\ [Refreshed(t) EXCEPT !.shown = x].epoch = mem[t].epoch
                /\ [Refreshed(t) EXCEPT !.shown = x].clearing = mem[t].clearing
                /\ [Refreshed(t) EXCEPT !.shown = x].invalid = mem[t].invalid
                /\ [Refreshed(t) EXCEPT !.shown = x].purging = disk.purging
<1>1. mem \in [Tabs -> MemType] /\ mem[t] \in MemType /\ disk \in DiskType
  BY TypeUse
<1> QED BY <1>1 DEF Refreshed, MemType, DiskType

\* A pass, a sale and an acknowledgement leave the pairing where it is.
SamePairing ==
    /\ disk'.scope = disk.scope /\ disk'.epoch = disk.epoch
    /\ disk'.retired = disk.retired /\ disk'.purging = disk.purging
    /\ \A u \in Tabs : /\ mem'[u].open = mem[u].open /\ mem'[u].bound = mem[u].bound
                       /\ mem'[u].epoch = mem[u].epoch /\ mem'[u].clearing = mem[u].clearing
                       /\ mem'[u].purging \in {mem[u].purging, disk.purging}
                       /\ mem'[u].invalid => mem[u].invalid \/ Stale(u)

LEMMA DiskKept ==
    ASSUME IndType, NEW x \in SUBSET Entries, NEW y \in SUBSET Entries,
           \/ disk' = disk \/ disk' = [disk EXCEPT !.entries = x]
           \/ disk' = [disk EXCEPT !.rejected = y]
           \/ disk' = [disk EXCEPT !.entries = x, !.rejected = y]
    PROVE  /\ disk'.scope = disk.scope /\ disk'.epoch = disk.epoch
           /\ disk'.retired = disk.retired /\ disk'.purging = disk.purging
BY DEF IndType, TypeOK, DiskType

LEMMA MemReplaced ==
    ASSUME IndType, NEW t \in Tabs, NEW r \in MemType, mem' = [mem EXCEPT ![t] = r],
           r.open = mem[t].open, r.bound = mem[t].bound, r.epoch = mem[t].epoch,
           r.clearing = mem[t].clearing, r.purging \in {mem[t].purging, disk.purging},
           r.invalid => mem[t].invalid \/ Stale(t),
           disk'.scope = disk.scope, disk'.epoch = disk.epoch,
           disk'.retired = disk.retired, disk'.purging = disk.purging
    PROVE  SamePairing
BY DEF SamePairing, IndType, TypeOK

LEMMA WorkKeepsPairing ==
    ASSUME IndType, NEW t \in Tabs, Pass(t) \/ (\E e \in Entries : Enqueue(t, e)) \/ Acknowledge(t)
    PROVE  SamePairing
<1>1. CASE Tick(t) \/ FlushPick(t) \/ FlushSkip(t) \/ FlushSend(t) \/ FlushReads(t)
           \/ ServerApplies(t) \/ ServerRefuses(t) \/ NetworkFails(t)
  <2>1. disk' = disk /\ mem' = mem
    BY <1>1 DEF Tick, FlushPick, FlushSkip, FlushSend, FlushReads, ServerApplies, ServerRefuses,
                NetworkFails
  <2> QED BY <2>1 DEF SamePairing
<1>2. CASE FlushStart(t) \/ FlushCommitFails(t)
  <2>1. disk' = disk /\ mem' = [mem EXCEPT ![t] = Refreshed(t)]
    BY <1>2 DEF FlushStart, FlushCommitFails
  <2> QED BY <2>1, MemUse, MemReplaced
<1>3. CASE FlushCommit(t)
  <2> DEFINE next == disk.rejected \cup Refusals(t)
             left == disk.entries \ Leaving(t)
             told == [Refreshed(t) EXCEPT !.shown = next]
  <2>1. disk' = [disk EXCEPT !.entries = left, !.rejected = next]
        /\ mem' = [mem EXCEPT ![t] = told]
    BY <1>3 DEF FlushCommit
  <2>2. left \in SUBSET Entries /\ next \in SUBSET Entries
    BY MemUse DEF DiskType, Refusals
  <2>3. told \in MemType
    BY <2>2, RefreshedType
  <2>4. told.open = mem[t].open /\ told.bound = mem[t].bound /\ told.epoch = mem[t].epoch
        /\ told.clearing = mem[t].clearing /\ told.invalid = mem[t].invalid
        /\ told.purging = disk.purging
    BY <2>2, MemUse
  <2> HIDE DEF next, left, told
  <2>5. disk'.scope = disk.scope /\ disk'.epoch = disk.epoch
        /\ disk'.retired = disk.retired /\ disk'.purging = disk.purging
    BY <2>1, <2>2, DiskKept
  <2> QED BY <2>1, <2>3, <2>4, <2>5, MemReplaced
<1>4. CASE ScopeLost(t)
  <2> DEFINE r == [mem[t] EXCEPT !.invalid = TRUE, !.closing = FALSE]
  <2>1. disk' = disk /\ mem' = [mem EXCEPT ![t] = r] /\ Stale(t)
    BY <1>4 DEF ScopeLost
  <2>2. /\ r \in MemType /\ r.open = mem[t].open /\ r.bound = mem[t].bound
        /\ r.epoch = mem[t].epoch /\ r.clearing = mem[t].clearing /\ r.purging = mem[t].purging
    BY MemUse DEF MemType
  <2> HIDE DEF r
  <2> QED BY <2>1, <2>2, MemReplaced
<1>5. ASSUME NEW e \in Entries, Enqueue(t, e) PROVE SamePairing
  <2>1. disk' = [disk EXCEPT !.entries = disk.entries \cup {e}]
        /\ mem' = [mem EXCEPT ![t] = Refreshed(t)]
    BY <1>5 DEF Enqueue
  <2>2. disk.entries \cup {e} \in SUBSET Entries
    BY MemUse DEF DiskType
  <2>3. disk'.scope = disk.scope /\ disk'.epoch = disk.epoch
        /\ disk'.retired = disk.retired /\ disk'.purging = disk.purging
    BY <2>1, <2>2, DiskKept
  <2> QED BY <2>1, <2>3, MemUse, MemReplaced
<1>6. CASE Acknowledge(t)
  <2> DEFINE left == disk.rejected \ mem[t].shown
             told == [Refreshed(t) EXCEPT !.shown = left]
  <2>1. disk' = [disk EXCEPT !.rejected = left] /\ mem' = [mem EXCEPT ![t] = told]
    BY <1>6 DEF Acknowledge
  <2>2. left \in SUBSET Entries
    BY MemUse DEF DiskType
  <2>3. told \in MemType
    BY <2>2, RefreshedType
  <2>4. told.open = mem[t].open /\ told.bound = mem[t].bound /\ told.epoch = mem[t].epoch
        /\ told.clearing = mem[t].clearing /\ told.invalid = mem[t].invalid
        /\ told.purging = disk.purging
    BY <2>2, MemUse
  <2> HIDE DEF left, told
  <2>5. disk'.scope = disk.scope /\ disk'.epoch = disk.epoch
        /\ disk'.retired = disk.retired /\ disk'.purging = disk.purging
    BY <2>1, <2>2, DiskKept
  <2> QED BY <2>1, <2>3, <2>4, <2>5, MemReplaced
<1> QED BY <1>1, <1>2, <1>3, <1>4, <1>5, <1>6 DEF Pass

LEMMA LateKeepsPairing == LateStep => SamePairing
BY DEF LateStep, LateArrives, SamePairing

\* The other windows remember what they did.
OnlyMem(t) == \A u \in Tabs : u # t => mem'[u] = mem[u]

LEMMA BindEffect ==
    ASSUME IndType, NEW t \in Tabs, NEW s \in Scopes, NEW fresh \in BOOLEAN, Bind(t, s, fresh)
    PROVE  /\ disk'.scope = s /\ disk'.epoch = disk.epoch /\ disk'.retired = disk.retired
           /\ disk'.purging \in {FALSE, mem[t].purging} /\ ~disk.purging
           /\ disk.scope = s => ~disk'.purging
           /\ disk.scope \in {None, s} /\ s \notin disk.retired
           /\ mem'[t].bound = s /\ mem'[t].epoch = disk.epoch /\ ~mem'[t].purging
           /\ mem'[t].open = mem[t].open /\ mem'[t].clearing = mem[t].clearing
           /\ mem'[t].invalid = mem[t].invalid
           /\ OnlyMem(t) /\ UNCHANGED <<flush, accepted, owner>>
<1>1. disk \in DiskType /\ mem \in [Tabs -> MemType] /\ mem[t] \in MemType
  BY TypeUse
<1>2. ~disk.purging /\ disk.scope \in {None, s} /\ s \notin disk.retired
  BY DEF Bind, CanBind
<1>3. disk' = [disk EXCEPT !.scope = s,
                           !.purging = IF disk.scope = s THEN disk.purging ELSE mem[t].purging]
  BY DEF Bind
<1>4. mem' = [mem EXCEPT ![t] = [mem[t] EXCEPT !.bound = s, !.epoch = disk.epoch,
                                    !.retired = disk.retired, !.purging = FALSE,
                                    !.shown = disk.rejected]]
  BY DEF Bind
<1>5. OnlyMem(t) /\ mem'[t] = [mem[t] EXCEPT !.bound = s, !.epoch = disk.epoch,
                                    !.retired = disk.retired, !.purging = FALSE,
                                    !.shown = disk.rejected]
  BY <1>1, <1>4 DEF OnlyMem
<1>6. disk'.scope = s /\ disk'.epoch = disk.epoch /\ disk'.retired = disk.retired
      /\ disk'.purging = IF disk.scope = s THEN disk.purging ELSE mem[t].purging
  BY <1>1, <1>3 DEF DiskType
<1>7. /\ mem'[t].bound = s /\ mem'[t].epoch = disk.epoch /\ ~mem'[t].purging
      /\ mem'[t].open = mem[t].open /\ mem'[t].clearing = mem[t].clearing
      /\ mem'[t].invalid = mem[t].invalid
  BY <1>1, <1>5 DEF MemType
<1>8. UNCHANGED <<flush, accepted, owner>>
  BY DEF Bind, pastVars
<1>9. disk.purging = FALSE
  BY <1>1, <1>2 DEF DiskType
<1>10. disk'.purging \in {FALSE, mem[t].purging} /\ (disk.scope = s => ~disk'.purging)
  BY <1>6, <1>9
<1> QED BY <1>2, <1>5, <1>6, <1>7, <1>8, <1>10

LEMMA ClearBeginEffect ==
    ASSUME IndType, NEW t \in Tabs, ClearBegin(t)
    PROVE  /\ disk' = disk /\ OnlyMem(t)
           /\ mem'[t].bound = mem[t].bound /\ mem'[t].epoch = mem[t].epoch
           /\ mem'[t].purging = mem[t].purging /\ mem'[t].open = mem[t].open
           /\ mem'[t].invalid = mem[t].invalid
           /\ flush'[t].pc = "idle" /\ \A u \in Tabs : u # t => flush'[u] = flush[u]
           /\ UNCHANGED <<accepted, owner>> /\ Ready(t)
<1>1. mem \in [Tabs -> MemType] /\ mem[t] \in MemType /\ flush \in [Tabs -> FlushType]
  BY TypeUse
<1>2. mem' = [mem EXCEPT ![t] = [mem[t] EXCEPT !.clearing = TRUE, !.closing = TRUE]]
      /\ flush' = [flush EXCEPT ![t] = NoFlush]
      /\ UNCHANGED <<disk, accepted, owner>> /\ Ready(t)
  BY DEF ClearBegin, StopFlush, pastVars
<1> QED BY <1>1, <1>2, NoFlushType DEF MemType, OnlyMem

LEMMA ClearCommitEffect ==
    ASSUME DocumentInv, NEW t \in Tabs, ClearCommit(t)
    PROVE  /\ disk'.scope = None /\ disk'.purging /\ disk.scope = mem[t].bound
           /\ disk'.retired = disk.retired \cup {mem[t].bound}
           /\ mem'[t].bound = None /\ mem'[t].epoch = disk'.epoch
           /\ mem'[t].open = mem[t].open /\ mem'[t].invalid = mem[t].invalid
           /\ OnlyMem(t) /\ UNCHANGED <<flush, accepted, owner>>
<1>1. mem \in [Tabs -> MemType] /\ mem[t] \in MemType /\ IndType
  BY TypeUse DEF DocumentInv
<1>2. InScope(t) /\ Ready(t)
  BY DEF ClearCommit
<1>3. mem[t].retired = disk.retired /\ mem[t].bound = disk.scope
  BY <1>2 DEF InScope, Ready, DocumentInv, RetiredWithEpoch
<1>4. disk' = [epoch |-> disk.epoch + 1, scope |-> None, retired |-> Gone(t),
               purging |-> TRUE, entries |-> {}, rejected |-> {}]
      /\ mem' = [mem EXCEPT ![t] = [mem[t] EXCEPT !.bound = None, !.epoch = disk.epoch + 1,
                                    !.retired = Gone(t), !.purging = TRUE,
                                    !.closing = FALSE, !.shown = {}]]
      /\ UNCHANGED <<flush, accepted, owner>>
  BY DEF ClearCommit
<1>5. OnlyMem(t) /\ mem'[t] = [mem[t] EXCEPT !.bound = None, !.epoch = disk.epoch + 1,
                                    !.retired = Gone(t), !.purging = TRUE,
                                    !.closing = FALSE, !.shown = {}]
  BY <1>1, <1>4 DEF OnlyMem
<1>6. disk'.epoch = disk.epoch + 1 /\ disk'.scope = None /\ disk'.purging
      /\ disk'.retired = Gone(t)
  BY <1>4
<1>7. /\ mem'[t].bound = None /\ mem'[t].epoch = disk.epoch + 1
      /\ mem'[t].open = mem[t].open /\ mem'[t].invalid = mem[t].invalid
  BY <1>1, <1>5 DEF MemType
<1> QED BY <1>3, <1>4, <1>5, <1>6, <1>7 DEF Gone

LEMMA ClearEndEffect ==
    ASSUME IndType, NEW t \in Tabs, ClearRefused(t) \/ ClearFails(t)
    PROVE  /\ disk' = disk /\ OnlyMem(t)
           /\ mem'[t].bound = mem[t].bound /\ mem'[t].epoch = mem[t].epoch
           /\ mem'[t].purging = mem[t].purging /\ mem'[t].open = mem[t].open
           /\ mem'[t].invalid = mem[t].invalid
           /\ UNCHANGED <<flush, accepted, owner>>
<1>1. mem \in [Tabs -> MemType] /\ mem[t] \in MemType
  BY TypeUse
<1>2. \/ mem' = [mem EXCEPT ![t] = [mem[t] EXCEPT !.clearing = FALSE, !.closing = FALSE]]
      \/ mem' = [mem EXCEPT ![t] = [mem[t] EXCEPT !.closing = FALSE]]
  BY DEF ClearRefused, ClearFails
<1>3. UNCHANGED <<disk, flush, accepted, owner>>
  BY DEF ClearRefused, ClearFails, pastVars
<1> QED BY <1>1, <1>2, <1>3 DEF MemType, OnlyMem

LEMMA CompleteClearEffect ==
    ASSUME IndType, NEW t \in Tabs, CompleteClear(t)
    PROVE  /\ disk'.scope = None /\ disk.scope = None /\ ~disk'.purging
           /\ disk'.epoch = disk.epoch /\ disk'.retired = disk.retired
           /\ mem'[t].bound \in {None, mem[t].bound}
           /\ mem'[t].bound # None => mem'[t].epoch = mem[t].epoch
           /\ mem'[t].purging => mem[t].purging /\ ~disk.purging
           /\ ~mem'[t].clearing /\ mem'[t].open = mem[t].open
           /\ mem'[t].invalid = mem[t].invalid
           /\ OnlyMem(t) /\ UNCHANGED <<flush, accepted, owner>>
<1>1. disk \in DiskType /\ mem \in [Tabs -> MemType] /\ mem[t] \in MemType
  BY TypeUse
<1>2. disk.scope = None /\ disk' = [disk EXCEPT !.purging = FALSE]
      /\ mem' = [mem EXCEPT ![t] = Reopened(t)] /\ UNCHANGED <<flush, accepted, owner>>
  BY DEF CompleteClear, pastVars
<1>3. OnlyMem(t) /\ mem'[t] = Reopened(t)
  BY <1>1, <1>2 DEF OnlyMem
<1>4. /\ Reopened(t).bound \in {None, mem[t].bound}
      /\ Reopened(t).bound # None => Reopened(t).epoch = mem[t].epoch
      /\ Reopened(t).purging => mem[t].purging /\ ~disk.purging
      /\ ~Reopened(t).clearing /\ Reopened(t).open = mem[t].open
      /\ Reopened(t).invalid = mem[t].invalid
  BY <1>1 DEF Reopened, MemType
<1>5. disk'.scope = None /\ ~disk'.purging /\ disk'.epoch = disk.epoch
      /\ disk'.retired = disk.retired
  BY <1>1, <1>2 DEF DiskType
<1> QED BY <1>2, <1>3, <1>4, <1>5

LEMMA OpenEffect ==
    ASSUME IndType, NEW t \in Tabs, Open(t)
    PROVE  /\ disk' = disk /\ OnlyMem(t) /\ mem'[t] = Started
           /\ UNCHANGED <<flush, accepted, owner>>
BY TypeUse DEF Open, OnlyMem, pastVars

LEMMA CloseEffect ==
    ASSUME IndType, NEW t \in Tabs, Close(t)
    PROVE  /\ disk' = disk /\ OnlyMem(t) /\ mem'[t] = Closed
           /\ flush'[t].pc = "idle" /\ \A u \in Tabs : u # t => flush'[u] = flush[u]
           /\ UNCHANGED <<accepted, owner>>
BY TypeUse, NoFlushType DEF Close, StopFlush, OnlyMem, pastVars

LEMMA MemOfNew ==
    /\ Started.open /\ Started.bound = None /\ ~Started.invalid /\ ~Started.purging
    /\ ~Closed.open /\ Closed.bound = None /\ ~Closed.invalid /\ ~Closed.purging
BY DEF Started, Closed

-----------------------------------------------------------------------------
(* The types of the application, one action at a time.                     *)

\* The window stays where it was, or does not close by itself.
LEMMA OpenStays ==
    ASSUME AppTyped, NEW t \in Tabs, app' \in [Tabs -> App],
           \A u \in Tabs : u # t => app'[u] = app[u],
           app[t].pc # "off" /\ app'[t].pc # "off",
           \A u \in Tabs : mem'[u].open = mem[u].open
    PROVE  \A u \in Tabs : mem'[u].open = ~At(u, "off")'
BY DEF AppTyped, At

LEMMA IdentityTyped ==
    ASSUME NEW s \in Scopes, NEW p \in BOOLEAN
    PROVE  Identity(s, p) \in PairedIdentities /\ Identity(s, p) \in Identities
           /\ Identity(s, p).scope = s /\ Identity(s, p).pending = p /\ Identity(s, p) # None
<1>1. Identity(s, p) \in PairedIdentities /\ Identity(s, p) \in Identities
  BY DEF Identity, PairedIdentities, Identities
<1>2. Identity(s, p).scope = s /\ Identity(s, p).pending = p
  BY DEF Identity
<1>3. None \notin PairedIdentities
  BY DevicePairingAssumption DEF PairedIdentities
<1> QED BY <1>1, <1>2, <1>3

LEMMA StillTyped ==
    ASSUME IndType, AppTyped, NEW t \in Tabs,
           Retry(t) \/ Restore(t) \/ Rewrite(t) \/ FinishPurge(t)
           \/ (\E s \in Scopes : PairIntent(t, s)) \/ PairCommit(t) \/ PairRollback(t)
           \/ WriteFails(t) \/ ForgetPurge(t) \/ PinLogin(t) \/ Lock(t) \/ Heartbeat(t)
           \/ SaveData(t) \/ BreaksOff(t)
    PROVE  AppTyped'
<1>1. /\ identity \in Identities /\ data \subseteq Scopes /\ minted \subseteq Scopes
      /\ kept \subseteq Tabs
      /\ token \in [Tabs -> Scopes \cup {None}] /\ app \in [Tabs -> App] /\ app[t] \in App
      /\ mem[t].bound \in Scopes \cup {None} /\ None \in Identities
      /\ \A u \in Tabs : mem[u].open = ~At(u, "off")
  BY MemUse, AppUse, OffTyped DEF AppTyped
<1>2. Working(t) => Identity(mem[t].bound, FALSE) \in Identities /\ mem[t].bound \in Scopes
  BY <1>1, IdentityTyped DEF Working, Ready
<1>3. ASSUME UNCHANGED <<app, mem>>
      PROVE  app' \in [Tabs -> App] /\ CandIsPaired' /\ \A u \in Tabs : mem'[u].open = ~At(u, "off")'
  BY <1>1, <1>3 DEF AppTyped, CandIsPaired, At
<1>4. ASSUME app' \in [Tabs -> App], \A u \in Tabs : u # t => app'[u] = app[u], UNCHANGED mem,
             app[t].pc # "off", app'[t].pc # "off"
      PROVE  \A u \in Tabs : mem'[u].open = ~At(u, "off")'
  BY <1>4, OpenStays
<1>5. CASE Retry(t)
  <2>1. Goto(t, "boot") /\ app[t].pc # "off" /\ UNCHANGED <<mem, identity, data, token, kept, minted>>
    BY <1>5 DEF Retry, At, vars
  <2>2. app' \in [Tabs -> App] /\ CandIsPaired' /\ app'[t].pc = "boot"
        /\ \A u \in Tabs : u # t => app'[u] = app[u]
    BY <2>1, GotoSet DEF PCs
  <2> QED BY <1>1, <1>4, <2>1, <2>2 DEF AppTyped
<1>6. CASE Restore(t)
  <2>1. app[t].pc = "boot" /\ UNCHANGED <<mem, token, kept, minted>>
    BY <1>6 DEF Restore, At, vars
  <2>2. CASE identity # None /\ app' = [app EXCEPT ![t] = [Off EXCEPT !.pc = "bind", !.cand = identity]]
                             /\ UNCHANGED <<identity, data>>
    <3> DEFINE r == [Off EXCEPT !.pc = "bind", !.cand = identity]
    <3>1. r \in App /\ r.pc = "bind" /\ r.cand = identity
      BY <1>1, OffTyped DEF App, Off
    <3>2. r.cand \in PairedIdentities
      BY <1>1, <2>2, <3>1 DEF Identities, PairedIdentities
    <3>3. app' = [app EXCEPT ![t] = r]
      BY <2>2
    <3> HIDE DEF r
    <3>4. app' \in [Tabs -> App] /\ CandIsPaired' /\ app'[t].pc = "bind"
          /\ \A u \in Tabs : u # t => app'[u] = app[u]
      BY <3>1, <3>2, <3>3, AppSet
    <3> QED BY <1>1, <1>4, <2>1, <2>2, <3>4 DEF AppTyped
  <2>3. CASE Purge /\ Goto(t, "empty")
    <3>1. app' \in [Tabs -> App] /\ CandIsPaired' /\ app'[t].pc = "empty"
          /\ \A u \in Tabs : u # t => app'[u] = app[u]
      BY <2>3, GotoSet DEF PCs
    <3> QED BY <1>1, <1>4, <2>1, <2>3, <3>1 DEF AppTyped, Purge
  <2> QED BY <1>6, <2>2, <2>3 DEF Restore
<1>7. CASE Rewrite(t) \/ PairCommit(t)
  <2>1. app[t].pc \in {"rewrite", "commit"} /\ Working(t) /\ Adopt(t)
        /\ identity' = Identity(mem[t].bound, FALSE) /\ UNCHANGED <<mem, data, token, kept, minted>>
    BY <1>7 DEF Rewrite, PairCommit, At, vars
  <2>2. app' \in [Tabs -> App] /\ CandIsPaired' /\ app'[t].pc = "on"
        /\ \A u \in Tabs : u # t => app'[u] = app[u]
    BY <2>1, AdoptSet
  <2> QED BY <1>1, <1>2, <1>4, <2>1, <2>2 DEF AppTyped
<1>8. CASE FinishPurge(t) \/ ForgetPurge(t)
  <2>1. PICK pc \in {"finished", "complete"} : Goto(t, pc)
    BY <1>8 DEF FinishPurge, ForgetPurge
  <2>2. app' \in [Tabs -> App] /\ CandIsPaired' /\ app'[t].pc = pc
        /\ \A u \in Tabs : u # t => app'[u] = app[u]
    BY <2>1, GotoSet DEF PCs
  <2>3. app[t].pc # "off" /\ Purge /\ UNCHANGED <<mem, token, kept, minted>>
    BY <1>8 DEF FinishPurge, ForgetPurge, At, vars
  <2> QED BY <1>1, <1>4, <2>1, <2>2, <2>3 DEF AppTyped, Purge
<1>9. ASSUME NEW s \in Scopes, PairIntent(t, s) PROVE AppTyped'
  <2> DEFINE r == [Off EXCEPT !.pc = "pair", !.cand = Identity(s, TRUE), !.prev = identity]
  <2>1. Identity(s, TRUE) \in PairedIdentities /\ Identity(s, TRUE) \in Identities
    BY IdentityTyped
  <2>2. r \in App /\ r.pc = "pair" /\ r.cand = Identity(s, TRUE)
    BY <1>1, <2>1, OffTyped DEF App, Off
  <2>3. app' = [app EXCEPT ![t] = r] /\ app[t].pc = "none" /\ minted' = minted \cup {s}
        /\ identity' = Identity(s, TRUE) /\ UNCHANGED <<mem, data, token, kept>>
    BY <1>9 DEF PairIntent, MayPair, At, Intent, vars
  <2> HIDE DEF r
  <2>4. app' \in [Tabs -> App] /\ CandIsPaired' /\ app'[t].pc = "pair"
        /\ \A u \in Tabs : u # t => app'[u] = app[u]
    BY <2>1, <2>2, <2>3, AppSet
  <2> QED BY <1>1, <1>4, <2>1, <2>3, <2>4 DEF AppTyped
<1>10. CASE PairRollback(t)
  <2>1. app[t].pc = "rollback" /\ Unpaired(t) /\ UNCHANGED <<mem, data, token, kept, minted>>
        /\ identity' \in {app[t].prev, identity}
    BY <1>10 DEF PairRollback, At, vars
  <2>2. app' \in [Tabs -> App] /\ CandIsPaired' /\ app'[t].pc = "none"
        /\ \A u \in Tabs : u # t => app'[u] = app[u]
    BY <2>1, UnpairedSet
  <2>3. identity' \in Identities
    BY <1>1, <2>1 DEF App
  <2> QED BY <1>1, <1>4, <2>1, <2>2, <2>3 DEF AppTyped
<1>11. CASE WriteFails(t)
  <2>1. PICK pc \in {"none", "error"} : Goto(t, pc)
    BY <1>11 DEF WriteFails
  <2>2. app' \in [Tabs -> App] /\ CandIsPaired' /\ app'[t].pc = pc
        /\ \A u \in Tabs : u # t => app'[u] = app[u]
    BY <2>1, GotoSet DEF PCs
  <2>3. app[t].pc # "off" /\ UNCHANGED <<mem, identity, data, token, kept, minted>>
    BY <1>11 DEF WriteFails, vars
  <2> QED BY <1>1, <1>4, <2>1, <2>2, <2>3 DEF AppTyped
<1>12. CASE PinLogin(t) \/ Lock(t)
  <2>1. UNCHANGED <<mem, identity, data, app, minted>>
        /\ kept' = kept \ {t}
        /\ \E x \in {app[t].dev, None} : token' = [token EXCEPT ![t] = x]
    BY <1>12 DEF PinLogin, Lock, Session, vars
  <2>2. token' \in [Tabs -> Scopes \cup {None}]
    BY <1>1, <2>1 DEF App
  <2> QED BY <1>1, <1>3, <2>1, <2>2 DEF AppTyped
<1>13. CASE Heartbeat(t)
  BY <1>1, <1>2, <1>3, <1>13 DEF Heartbeat, AppTyped, vars
<1>14. CASE SaveData(t)
  BY <1>1, <1>2, <1>3, <1>14 DEF SaveData, AppTyped, vars
<1>15. CASE BreaksOff(t)
  <2>1. app[t].pc # "off" /\ UNCHANGED mem
    BY <1>15, BreaksOffEffect DEF vars
  <2> QED BY <1>1, <1>4, <1>15, <2>1, BreaksOffEffect DEF AppTyped
<1> QED BY <1>5, <1>6, <1>7, <1>8, <1>9, <1>10, <1>11, <1>12, <1>13, <1>14, <1>15

\* Restored(t) leaves the window rewriting its identity, or on.
LEMMA RestoredSet ==
    ASSUME AppTyped, NEW t \in Tabs, At(t, "bind"), Restored(t)
    PROVE  /\ app' \in [Tabs -> App] /\ CandIsPaired'
           /\ \/ app'[t].pc = "rewrite" /\ app'[t].cand = app[t].cand
              \/ app'[t].pc = "on" /\ app'[t].dev = app[t].cand.scope
           /\ \A u \in Tabs : u # t => app'[u] = app[u]
<1>1. app[t].pc = "bind"
  BY DEF At
<1>2. CASE Goto(t, "rewrite")
  BY <1>1, <1>2, GotoSet DEF PCs
<1>3. CASE Adopt(t)
  BY <1>1, <1>3, AdoptSet
<1> QED BY <1>2, <1>3 DEF Restored

LEMMA MovingTyped ==
    ASSUME DeliveryInv, AppTyped, NEW t \in Tabs,
           Boot(t) \/ RestoreBind(t) \/ FinishClear(t) \/ PairBind(t) \/ Forget(t)
           \/ ForgetClear(t) \/ ForgetComplete(t) \/ Sell(t) \/ Background(t) \/ Crash(t)
    PROVE  AppTyped'
<1>1. /\ identity \in Identities /\ data \subseteq Scopes /\ minted \subseteq Scopes
      /\ kept \subseteq Tabs
      /\ token \in [Tabs -> Scopes \cup {None}] /\ app \in [Tabs -> App] /\ app[t] \in App
      /\ \A u \in Tabs : mem[u].open = ~At(u, "off")
  BY AppUse DEF AppTyped
<1>2. IndType /\ DocumentInv
  BY DEF DeliveryInv, DocumentInv
<1>3. ASSUME OnlyMem(t), mem'[t].open = mem[t].open PROVE \A u \in Tabs : mem'[u].open = mem[u].open
  BY <1>3 DEF OnlyMem
<1>4. CASE Boot(t)
  <2>1. Open(t) /\ Goto(t, "boot") /\ UNCHANGED <<identity, data, token, kept, minted>>
    BY <1>4 DEF Boot
  <2>2. app' \in [Tabs -> App] /\ CandIsPaired' /\ app'[t].pc = "boot"
        /\ \A u \in Tabs : u # t => app'[u] = app[u]
    BY <2>1, GotoSet DEF PCs
  <2>3. OnlyMem(t) /\ mem'[t].open
    BY <1>2, <2>1, OpenEffect, MemOfNew
  <2> QED BY <1>1, <2>1, <2>2, <2>3 DEF AppTyped, At, OnlyMem
<1>5. CASE RestoreBind(t)
  <2>1. At(t, "bind") /\ UNCHANGED <<identity, data, token, kept, minted>>
    BY <1>5 DEF RestoreBind
  <2>2. app[t].cand.scope \in Scopes /\ app[t].cand.pending \in BOOLEAN
    BY <2>1, AppUse DEF At
  <2>3. \A u \in Tabs : mem'[u].open = mem[u].open
    <3>1. Bind(t, app[t].cand.scope, app[t].cand.pending) \/ mem' = mem
      BY <1>5 DEF RestoreBind, vars
    <3> QED BY <1>2, <1>3, <2>2, <3>1, BindEffect
  <2>4. Restored(t) \/ Goto(t, "finish") \/ Goto(t, "error")
    BY <1>5 DEF RestoreBind
  <2>5. /\ app' \in [Tabs -> App] /\ CandIsPaired' /\ app'[t].pc # "off"
        /\ \A u \in Tabs : u # t => app'[u] = app[u]
    BY <2>1, <2>4, RestoredSet, GotoSet DEF PCs
  <2> QED BY <1>1, <2>1, <2>3, <2>5, OpenStays DEF AppTyped, At
<1>6. CASE FinishClear(t) \/ ForgetComplete(t)
  <2>1. app[t].pc # "off" /\ UNCHANGED <<identity, data, minted>>
        /\ (token' = token \/ token' = [token EXCEPT ![t] = None])
        /\ kept' \subseteq kept /\ CompleteClear(t) /\ Unpaired(t)
    BY <1>6 DEF FinishClear, ForgetComplete, At, Forgotten, Session
  <2>2. /\ app' \in [Tabs -> App] /\ CandIsPaired' /\ app'[t].pc # "off"
        /\ \A u \in Tabs : u # t => app'[u] = app[u]
    BY <2>1, UnpairedSet, GotoSet DEF PCs
  <2>3. \A u \in Tabs : mem'[u].open = mem[u].open
    BY <1>2, <1>3, <2>1, CompleteClearEffect
  <2>4. token' \in [Tabs -> Scopes \cup {None}]
    BY <1>1, <2>1
  <2> QED BY <1>1, <2>1, <2>2, <2>3, <2>4, OpenStays DEF AppTyped
<1>7. CASE PairBind(t)
  <2>1. app[t].pc = "pair" /\ UNCHANGED <<identity, data, token, kept, minted>>
        /\ (Goto(t, "commit") \/ Goto(t, "rollback"))
        /\ (Bind(t, app[t].cand.scope, TRUE) \/ mem' = mem)
    BY <1>7 DEF PairBind, At, vars
  <2>2. /\ app' \in [Tabs -> App] /\ CandIsPaired' /\ app'[t].pc # "off"
        /\ \A u \in Tabs : u # t => app'[u] = app[u]
    BY <2>1, GotoSet DEF PCs
  <2>3. \A u \in Tabs : mem'[u].open = mem[u].open
    BY <1>2, <1>3, <2>1, BindEffect, AppUse
  <2> QED BY <1>1, <2>1, <2>2, <2>3, OpenStays DEF AppTyped
<1>8. CASE Forget(t)
  <2>1. app[t].pc = "on" /\ ClearBegin(t) /\ Goto(t, "clear")
        /\ UNCHANGED <<identity, data, token, kept, minted>>
    BY <1>8 DEF Forget, At
  <2>2. /\ app' \in [Tabs -> App] /\ CandIsPaired' /\ app'[t].pc = "clear"
        /\ \A u \in Tabs : u # t => app'[u] = app[u]
    BY <2>1, GotoSet DEF PCs
  <2>3. \A u \in Tabs : mem'[u].open = mem[u].open
    BY <1>2, <1>3, <2>1, ClearBeginEffect
  <2> QED BY <1>1, <2>1, <2>2, <2>3, OpenStays DEF AppTyped
<1>9. CASE ForgetClear(t)
  <2>1. app[t].pc = "clear" /\ UNCHANGED <<identity, data, token, kept, minted>>
        /\ (ClearCommit(t) \/ ClearRefused(t) \/ ClearFails(t))
        /\ (Goto(t, "purge") \/ Goto(t, "error"))
    BY <1>9 DEF ForgetClear, At
  <2>2. /\ app' \in [Tabs -> App] /\ CandIsPaired' /\ app'[t].pc # "off"
        /\ \A u \in Tabs : u # t => app'[u] = app[u]
    BY <2>1, GotoSet DEF PCs
  <2>3. \A u \in Tabs : mem'[u].open = mem[u].open
    BY <1>2, <1>3, <2>1, ClearCommitEffect, ClearEndEffect
  <2> QED BY <1>1, <2>1, <2>2, <2>3, OpenStays DEF AppTyped
<1>10. CASE Sell(t)
  <2>1. SamePairing /\ UNCHANGED <<identity, data, app, token, kept, minted>>
    BY <1>2, <1>10, WorkKeepsPairing DEF Sell, appVars
  <2> QED BY <1>1, <2>1 DEF AppTyped, SamePairing, CandIsPaired, At
<1>11. CASE Background(t)
  <2>1. SamePairing /\ UNCHANGED <<identity, data, token, kept, minted>>
        /\ (app' = app \/ (app[t].pc = "clear" /\ Goto(t, "error")))
    BY <1>2, <1>11, WorkKeepsPairing DEF Background, At, Goto
  <2>2. CASE app' = app
    BY <1>1, <2>1, <2>2 DEF AppTyped, SamePairing, CandIsPaired, At
  <2>3. CASE app[t].pc = "clear" /\ Goto(t, "error")
    <3>1. /\ app' \in [Tabs -> App] /\ CandIsPaired' /\ app'[t].pc = "error"
          /\ \A u \in Tabs : u # t => app'[u] = app[u]
      BY <2>3, GotoSet DEF PCs
    <3> QED BY <1>1, <2>1, <2>3, <3>1, OpenStays DEF AppTyped, SamePairing
  <2> QED BY <2>1, <2>2, <2>3
<1>12. CASE Crash(t)
  <2>1. Close(t) /\ app' = [app EXCEPT ![t] = Off] /\ token' = [token EXCEPT ![t] = None]
        /\ kept' \subseteq kept /\ data' \in {data, {}} /\ UNCHANGED <<identity, minted>>
    BY <1>12 DEF Crash, Session
  <2>2. /\ app' \in [Tabs -> App] /\ CandIsPaired' /\ app'[t] = Off
        /\ \A u \in Tabs : u # t => app'[u] = app[u]
    BY <2>1, OffTyped, AppSet DEF Off
  <2>3. OnlyMem(t) /\ ~mem'[t].open /\ Off.pc = "off"
    BY <1>2, <2>1, CloseEffect, MemOfNew DEF Off
  <2>4. mem'[t].open \in BOOLEAN /\ data' \subseteq Scopes
        /\ token' \in [Tabs -> Scopes \cup {None}]
    <3>1. mem'[t].open = FALSE
      BY <1>2, <2>1, CloseEffect DEF Closed
    <3>2. data' \subseteq Scopes /\ token' \in [Tabs -> Scopes \cup {None}]
      BY <1>1, <2>1
    <3> QED BY <3>1, <3>2
  <2>5. \A u \in Tabs : mem'[u].open = ~At(u, "off")'
    BY <1>1, <2>2, <2>3, <2>4 DEF At, OnlyMem
  <2> QED BY <1>1, <2>1, <2>2, <2>4, <2>5 DEF AppTyped
<1> QED BY <1>4, <1>5, <1>6, <1>7, <1>8, <1>9, <1>10, <1>11, <1>12

LEMMA StepAppTyped ==
    ASSUME DeliveryInv, AppTyped, [PairingNext]_allVars
    PROVE  AppTyped'
<1>1. IndType
  BY DEF DeliveryInv, DocumentInv
<1>2. CASE UNCHANGED allVars
  BY <1>2 DEF allVars, vars, appVars, AppTyped, CandIsPaired, At
<1>3. CASE LateStep
  <2>1. SamePairing /\ UNCHANGED appVars
    BY <1>3, LateKeepsPairing DEF LateStep
  <2> QED BY <2>1 DEF AppTyped, SamePairing, CandIsPaired, At, appVars
<1> QED BY <1>1, <1>2, <1>3, PairingSteps, StillTyped, MovingTyped DEF WindowStep

LEMMA PairingInitTyped == PairingInit => PairingTyped
<1> SUFFICES ASSUME PairingInit PROVE PairingTyped
  OBVIOUS
<1>1. DeliveryInv
  BY DeliveryInit DEF PairingInit
<1>2. AppTyped
  <2>1. \A t \in Tabs : mem[t] = Closed /\ app[t] = Off
    BY DEF PairingInit, Init
  <2>2. Off.pc = "off" /\ Closed.open = FALSE
    BY DEF Off, Closed
  <2>3. CandIsPaired /\ \A t \in Tabs : mem[t].open = ~At(t, "off")
    BY <2>1, <2>2 DEF CandIsPaired, At
  <2> QED BY <2>3, OffTyped DEF PairingInit, AppTyped
<1> QED BY <1>1, <1>2 DEF PairingTyped

LEMMA StepPairingTyped ==
    ASSUME PairingTyped, [PairingNext]_allVars
    PROVE  PairingTyped' /\ [Next]_vars
<1>1. [Next]_vars
  BY PairingQueueStep DEF PairingTyped
<1> QED BY <1>1, StepAppTyped, DeliveryStep DEF PairingTyped

\* The pairing uses the queue as SyncQueue says it may be used, so that every
\* theorem about the queue holds of the till.
THEOREM PairingUsesQueue == PairingSpec => Spec
<1>1. PairingTyped /\ [PairingNext]_allVars => PairingTyped' /\ [Next]_vars
  BY StepPairingTyped
<1>2. PairingInit => Init /\ PairingTyped
  BY PairingInitTyped DEF PairingInit
<1> QED BY <1>1, <1>2, PTL DEF PairingSpec, Spec

\* The types of the pairing and of the queue below it.
THEOREM PairingTypeCorrect == PairingSpec => []PairingTypeOK
<1>1. PairingTyped /\ [PairingNext]_allVars => PairingTyped'
  BY StepPairingTyped
<1>2. PairingTyped => PairingTypeOK
  BY DEF PairingTyped, AppTyped, App, PairingTypeOK, DeliveryInv, DocumentInv, IndType
<1> QED BY <1>1, <1>2, PairingInitTyped, PTL DEF PairingSpec

\* "aucune commande perdue", on a till that is paired, unpaired, restarted and
\* opened in several windows: all that was shown of the queue holds of the till.
THEOREM TillLosesNothing ==
    PairingSpec => /\ []NoSaleLost /\ []DocumentSound /\ []OrderPerSubject
                   /\ RetiredForGood /\ ImplementsOutbox
BY PairingUsesQueue, NothingLost, DocumentAlwaysSound, SubjectsStayInOrder, RetiredStaysRetired,
   QueueImplementsOutbox, PTL
-----------------------------------------------------------------------------
(* Where the steps of a window lead.                                       *)

\* The steps of which the queue knows nothing.
KeysStep(t) ==
    \/ Retry(t) \/ Restore(t) \/ Rewrite(t) \/ FinishPurge(t)
    \/ (\E s \in Scopes : PairIntent(t, s)) \/ PairCommit(t) \/ PairRollback(t)
    \/ WriteFails(t) \/ ForgetPurge(t) \/ PinLogin(t) \/ Lock(t) \/ Heartbeat(t)
    \/ SaveData(t) \/ BreaksOff(t)

LEMMA KeysStepKeepsQueue == \A t \in Tabs : KeysStep(t) => UNCHANGED vars
BY DEF KeysStep, BreaksOff, RestoreFails, PurgeFails, CompleteFails, Retry, Restore, Rewrite, FinishPurge, PairIntent, PairCommit, PairRollback,
       WriteFails, ForgetPurge, PinLogin, Lock, Heartbeat, SaveData

OthersStay(t) == \A u \in Tabs : u # t => app'[u] = app[u]

RestoredTo(t) ==
    \/ app[t].cand.pending /\ app'[t].pc = "rewrite" /\ app'[t].cand = app[t].cand
    \/ ~app[t].cand.pending /\ app'[t].pc = "on" /\ app'[t].dev = app[t].cand.scope

LEMMA MoveRestored ==
    ASSUME AppTyped, NEW t \in Tabs, At(t, "bind"), Restored(t)
    PROVE  RestoredTo(t) /\ OthersStay(t)
<1>1. app[t].pc = "bind"
  BY DEF At
<1>2. CASE app[t].cand.pending
  BY <1>1, <1>2, GotoSet DEF Restored, PCs, RestoredTo, OthersStay
<1>3. CASE ~app[t].cand.pending
  BY <1>1, <1>3, AdoptSet DEF Restored, RestoredTo, OthersStay
<1> QED BY <1>2, <1>3

LEMMA MoveRestore ==
    ASSUME AppTyped, NEW t \in Tabs, Restore(t)
    PROVE  /\ app[t].pc = "boot" /\ OthersStay(t) /\ UNCHANGED <<token, kept, minted>>
           /\ \/ /\ app'[t].pc = "bind" /\ app'[t].cand = identity /\ identity # None
                 /\ UNCHANGED <<identity, data>>
              \/ /\ app'[t].pc = "empty" /\ identity = None
                 /\ identity' = None /\ data' = {}
<1>1. app[t].pc = "boot" /\ UNCHANGED <<token, kept, minted>> /\ app \in [Tabs -> App]
  BY AppUse DEF Restore, At
<1>2. CASE /\ identity # None /\ UNCHANGED <<identity, data>>
           /\ app' = [app EXCEPT ![t] = [Off EXCEPT !.pc = "bind", !.cand = identity]]
  <2>1. app'[t] = [Off EXCEPT !.pc = "bind", !.cand = identity] /\ OthersStay(t)
    BY <1>1, <1>2 DEF OthersStay
  <2>2. app'[t].pc = "bind" /\ app'[t].cand = identity
    BY <2>1 DEF Off
  <2> QED BY <1>1, <1>2, <2>1, <2>2
<1>3. CASE identity = None /\ Purge /\ Goto(t, "empty")
  BY <1>1, <1>3, GotoSet DEF PCs, Purge, OthersStay
<1> QED BY <1>2, <1>3 DEF Restore

LEMMA MoveRestoreBind ==
    ASSUME AppTyped, NEW t \in Tabs, RestoreBind(t)
    PROVE  /\ app[t].pc = "bind" /\ OthersStay(t) /\ UNCHANGED <<identity, data, token, kept, minted>>
           /\ app[t].cand.scope \in Scopes /\ app[t].cand.pending \in BOOLEAN
           /\ \/ Bind(t, app[t].cand.scope, app[t].cand.pending) /\ RestoredTo(t)
              \/ /\ mem[t].bound = app[t].cand.scope /\ InScope(t)
                 /\ RestoredTo(t) /\ UNCHANGED vars
              \/ /\ ~(mem[t].bound = app[t].cand.scope /\ InScope(t) /\ ~mem[t].invalid)
                 /\ UNCHANGED vars
                 /\ \/ app'[t].pc = "finish" /\ app[t].cand.scope \in disk.retired
                    \/ app'[t].pc = "error"
<1>1. app[t].pc = "bind" /\ At(t, "bind") /\ UNCHANGED <<identity, data, token, kept, minted>>
  BY DEF RestoreBind, At
<1>2. app[t].cand.scope \in Scopes /\ app[t].cand.pending \in BOOLEAN
  BY <1>1, AppUse
<1>3. CASE Bind(t, app[t].cand.scope, app[t].cand.pending) /\ Restored(t)
  BY <1>1, <1>2, <1>3, MoveRestored
<1>4. CASE mem[t].bound = app[t].cand.scope /\ InScope(t) /\ Restored(t) /\ UNCHANGED vars
  BY <1>1, <1>2, <1>4, MoveRestored
<1>5. CASE /\ ~(mem[t].bound = app[t].cand.scope /\ InScope(t) /\ ~mem[t].invalid)
           /\ UNCHANGED vars
           /\ \/ Goto(t, "finish") /\ app[t].cand.scope \in disk.retired
              \/ Goto(t, "error")
  BY <1>1, <1>2, <1>5, GotoSet DEF PCs, OthersStay
<1> QED BY <1>3, <1>4, <1>5 DEF RestoreBind, FindsRetired

LEMMA MoveWrite ==
    ASSUME AppTyped, NEW t \in Tabs, Rewrite(t) \/ PairCommit(t)
    PROVE  /\ app[t].pc \in {"rewrite", "commit"} /\ Working(t) /\ OthersStay(t)
           /\ app'[t].pc = "on" /\ app'[t].dev = app[t].cand.scope
           /\ identity' = Identity(mem[t].bound, FALSE) /\ UNCHANGED <<data, token, kept, minted>>
<1>1. app[t].pc \in {"rewrite", "commit"} /\ Working(t) /\ Adopt(t)
      /\ identity' = Identity(mem[t].bound, FALSE) /\ UNCHANGED <<data, token, kept, minted>>
  BY DEF Rewrite, PairCommit, At
<1> QED BY <1>1, AdoptSet DEF OthersStay

LEMMA MovePurge ==
    ASSUME AppTyped, NEW t \in Tabs, FinishPurge(t) \/ ForgetPurge(t)
    PROVE  /\ OthersStay(t) /\ identity' = None /\ data' = {} /\ UNCHANGED <<token, kept, minted>>
           /\ \/ app[t].pc = "finish" /\ app'[t].pc = "finished"
              \/ app[t].pc = "purge" /\ app'[t].pc = "complete"
<1>1. CASE FinishPurge(t)
  BY <1>1, GotoSet DEF FinishPurge, At, PCs, OthersStay, Purge
<1>2. CASE ForgetPurge(t)
  BY <1>2, GotoSet DEF ForgetPurge, At, PCs, OthersStay, Purge
<1> QED BY <1>1, <1>2

LEMMA MoveComplete ==
    ASSUME AppTyped, NEW t \in Tabs, FinishClear(t) \/ ForgetComplete(t)
    PROVE  /\ app[t].pc \in {"empty", "finished", "complete"} /\ OthersStay(t)
           /\ UNCHANGED <<identity, data, minted>>
           /\ CompleteClear(t) /\ app'[t].pc = "none"
           /\ \/ app[t].pc = "empty" /\ UNCHANGED <<token, kept>>
              \/ token' = [token EXCEPT ![t] = None] /\ kept' = kept \ {t}
<1>1. /\ app[t].pc \in {"empty", "finished", "complete"} /\ UNCHANGED <<identity, data, minted>>
      /\ CompleteClear(t) /\ Unpaired(t)
      /\ \/ app[t].pc = "empty" /\ UNCHANGED <<token, kept>>
         \/ token' = [token EXCEPT ![t] = None] /\ kept' = kept \ {t}
  BY DEF FinishClear, ForgetComplete, At, Forgotten, Session
<1> QED BY <1>1, UnpairedSet DEF OthersStay

LEMMA MoveIntent ==
    ASSUME AppTyped, NEW t \in Tabs, NEW s \in Scopes, PairIntent(t, s)
    PROVE  /\ app[t].pc = "none" /\ OthersStay(t) /\ s \notin minted
           /\ app'[t].pc = "pair" /\ app'[t].cand = Identity(s, TRUE)
           /\ app'[t].prev = identity
           /\ minted' = minted \cup {s} /\ identity' = Identity(s, TRUE)
           /\ UNCHANGED <<data, token, kept>>
<1>1. app[t].pc = "none" /\ s \notin minted /\ app \in [Tabs -> App]
      /\ minted' = minted \cup {s} /\ identity' = Identity(s, TRUE)
      /\ UNCHANGED <<data, token, kept>>
  BY AppUse DEF PairIntent, MayPair, At, Intent
<1>2. app' = [app EXCEPT ![t] = [Off EXCEPT !.pc = "pair", !.cand = Identity(s, TRUE),
                                            !.prev = identity]]
  BY DEF PairIntent
<1>3. app'[t] = [Off EXCEPT !.pc = "pair", !.cand = Identity(s, TRUE), !.prev = identity]
      /\ OthersStay(t)
  BY <1>1, <1>2 DEF OthersStay
<1>4. app'[t].pc = "pair" /\ app'[t].cand = Identity(s, TRUE) /\ app'[t].prev = identity
  BY <1>3 DEF Off
<1> QED BY <1>1, <1>3, <1>4

LEMMA MovePairBind ==
    ASSUME AppTyped, NEW t \in Tabs, PairBind(t)
    PROVE  /\ app[t].pc = "pair" /\ OthersStay(t) /\ app'[t].cand = app[t].cand
           /\ app'[t].prev = app[t].prev
           /\ UNCHANGED <<identity, data, token, kept, minted>> /\ app[t].cand.scope \in Scopes
           /\ \/ Bind(t, app[t].cand.scope, TRUE) /\ app'[t].pc = "commit"
              \/ app'[t].pc = "rollback" /\ UNCHANGED vars
<1>1. app[t].pc = "pair" /\ UNCHANGED <<identity, data, token, kept, minted>>
      /\ app[t].cand.scope \in Scopes
  BY AppUse DEF PairBind, At
<1>2. CASE Bind(t, app[t].cand.scope, TRUE) /\ Goto(t, "commit")
  BY <1>1, <1>2, GotoSet DEF PCs, OthersStay
<1>3. CASE Goto(t, "rollback") /\ UNCHANGED vars
  BY <1>1, <1>3, GotoSet DEF PCs, OthersStay
<1> QED BY <1>2, <1>3 DEF PairBind

LEMMA MoveRollback ==
    ASSUME AppTyped, NEW t \in Tabs, PairRollback(t)
    PROVE  /\ app[t].pc = "rollback" /\ app'[t].pc = "none" /\ OthersStay(t)
           /\ (identity' = identity \/ (identity' = app[t].prev /\ identity = app[t].cand))
           /\ UNCHANGED <<data, token, kept, minted>>
BY UnpairedSet DEF PairRollback, At, OthersStay

LEMMA MoveFails ==
    ASSUME AppTyped, NEW t \in Tabs, WriteFails(t)
    PROVE  /\ (WritesMayFail \/ ~Working(t)) /\ OthersStay(t)
           /\ \/ app[t].pc = "commit" /\ app'[t].pc = "none"
              \/ app[t].pc = "rewrite" /\ app'[t].pc = "error"
           /\ UNCHANGED <<identity, data, token, kept, minted>>
<1>1. CASE app[t].pc = "commit" /\ Goto(t, "none")
  BY <1>1, GotoSet DEF WriteFails, PCs, OthersStay
<1>2. CASE app[t].pc = "rewrite" /\ Goto(t, "error")
  BY <1>2, GotoSet DEF WriteFails, PCs, OthersStay
<1> QED BY <1>1, <1>2 DEF WriteFails, At

LEMMA MoveForget ==
    ASSUME AppTyped, NEW t \in Tabs, Forget(t)
    PROVE  /\ app[t].pc = "on" /\ ClearBegin(t) /\ OthersStay(t)
           /\ app'[t].pc = "clear" /\ app'[t].dev = app[t].dev
           /\ UNCHANGED <<identity, data, token, kept, minted>>
BY GotoSet DEF Forget, At, PCs, OthersStay

LEMMA MoveForgetClear ==
    ASSUME AppTyped, NEW t \in Tabs, ForgetClear(t)
    PROVE  /\ app[t].pc = "clear" /\ OthersStay(t) /\ UNCHANGED <<identity, data, token, kept, minted>>
           /\ \/ ClearCommit(t) /\ app'[t].pc = "purge"
              \/ (ClearRefused(t) \/ ClearFails(t)) /\ app'[t].pc = "error"
<1>1. CASE ClearCommit(t) /\ Goto(t, "purge")
  BY <1>1, GotoSet DEF ForgetClear, At, PCs, OthersStay
<1>2. CASE (ClearRefused(t) \/ ClearFails(t)) /\ Goto(t, "error")
  BY <1>2, GotoSet DEF ForgetClear, At, PCs, OthersStay
<1> QED BY <1>1, <1>2 DEF ForgetClear

\* Boot, Retry, Crash, and what leaves the window where it is.
LEMMA MoveStart ==
    ASSUME AppTyped, NEW t \in Tabs, Boot(t) \/ Retry(t)
    PROVE  /\ OthersStay(t) /\ app'[t].pc = "boot" /\ UNCHANGED <<identity, data, token, kept, minted>>
           /\ \/ Open(t)
              \/ app[t].pc = "error" /\ UNCHANGED vars
<1>1. CASE Boot(t)
  BY <1>1, GotoSet DEF Boot, PCs, OthersStay
<1>2. CASE Retry(t)
  BY <1>2, GotoSet DEF Retry, At, PCs, OthersStay
<1> QED BY <1>1, <1>2

LEMMA MoveCrash ==
    ASSUME AppTyped, NEW t \in Tabs, Crash(t)
    PROVE  /\ OthersStay(t) /\ Close(t) /\ app'[t].pc = "off" /\ token'[t] = None
           /\ \A u \in Tabs : u # t => token'[u] = token[u]
           /\ kept' = kept \ {t} /\ data' \in {data, {}} /\ UNCHANGED <<identity, minted>>
<1>1. app \in [Tabs -> App] /\ token \in [Tabs -> Scopes \cup {None}] /\ Off.pc = "off"
  BY AppUse DEF AppTyped, Off
<1> QED BY <1>1 DEF Crash, Session, OthersStay

LEMMA MoveWork ==
    ASSUME AppTyped, NEW t \in Tabs,
           PinLogin(t) \/ Lock(t) \/ Heartbeat(t) \/ SaveData(t) \/ Sell(t)
    PROVE  app[t].pc = "on" /\ UNCHANGED <<app, minted>>
BY DEF PinLogin, Lock, Heartbeat, SaveData, Sell, At, appVars

LEMMA MoveBackground ==
    ASSUME AppTyped, NEW t \in Tabs, Background(t)
    PROVE  /\ Pass(t) /\ OthersStay(t) /\ UNCHANGED <<identity, data, token, kept, minted>>
           /\ \/ app' = app
              \/ app[t].pc = "clear" /\ app'[t].pc = "error" /\ mem'[t].invalid
           /\ Tick(t) => app[t].pc = "on"
<1>1. CASE app' = app
  BY <1>1 DEF Background, At, OthersStay
<1>2. CASE app[t].pc = "clear" /\ Goto(t, "error") /\ mem'[t].invalid
  BY <1>2, GotoSet DEF Background, At, PCs, OthersStay
<1> QED BY <1>1, <1>2 DEF Background, At, Goto

-----------------------------------------------------------------------------
(* In one window, nothing of a pairing is left under the next.             *)

Lifting == {"empty", "finished", "complete"}

LEMMA DataUntouched ==
    ASSUME DataInv, disk'.scope = disk.scope, disk'.purging = disk.purging, data' = data,
           \A u \in Tabs : app'[u].pc \in Lifting => app[u].pc \in Lifting
    PROVE  DataInv'
BY DEF DataInv, NoLeakAcrossPairings, Lifting

LEMMA DataGone == data' = {} => DataInv'
BY DEF DataInv, NoLeakAcrossPairings

LEMMA StepData ==
    ASSUME SingleWindow, PairingTyped, DataInv, [PairingNext]_allVars
    PROVE  DataInv'
<1>1. AppTyped /\ IndType /\ DocumentInv
  BY DEF PairingTyped, DeliveryInv, DocumentInv
<1>2. ASSUME NEW t \in Tabs, OthersStay(t), app'[t].pc \in Lifting => app[t].pc \in Lifting
      PROVE  \A u \in Tabs : app'[u].pc \in Lifting => app[u].pc \in Lifting
  BY <1>2 DEF OthersStay
<1>3. CASE UNCHANGED allVars
  BY <1>3, DataUntouched DEF allVars, vars, appVars
<1>4. CASE LateStep
  <2>1. SamePairing /\ UNCHANGED appVars
    BY <1>4, LateKeepsPairing DEF LateStep
  <2> QED BY <2>1, DataUntouched DEF SamePairing, appVars
<1>5. ASSUME NEW t \in Tabs, Retry(t) \/ Boot(t) PROVE DataInv'
  <2>1. disk' = disk
    BY <1>1, <1>5, MoveStart, OpenEffect DEF vars
  <2> QED BY <1>1, <1>2, <1>5, <2>1, MoveStart, DataUntouched DEF Lifting
<1>6. ASSUME NEW t \in Tabs, Restore(t) PROVE DataInv'
  <2>1. CASE data' = {}
    BY <2>1, DataGone
  <2>2. CASE app'[t].pc = "bind" /\ UNCHANGED data
    <3>1. disk' = disk
      BY <1>6, KeysStepKeepsQueue DEF KeysStep, vars
    <3> QED BY <1>1, <1>2, <1>6, <2>2, <3>1, MoveRestore, DataUntouched DEF Lifting
  <2> QED BY <1>1, <1>6, <2>1, <2>2, MoveRestore
<1>7. ASSUME NEW t \in Tabs, NEW s \in Scopes, NEW fresh \in BOOLEAN, Bind(t, s, fresh),
             OthersStay(t), app'[t].pc \notin Lifting, data' = data
      PROVE  DataInv'
  <2>1. /\ disk'.scope = s /\ disk.scope \in {None, s} /\ ~disk.purging /\ s # None
        /\ disk.scope = s => ~disk'.purging
    BY <1>1, <1>7, BindEffect, SyncQueueAssumption
  <2>2. data \subseteq {s}
    BY <2>1 DEF DataInv, NoLeakAcrossPairings
  <2> QED BY <1>7, <2>1, <2>2 DEF DataInv, NoLeakAcrossPairings
<1>8. ASSUME NEW t \in Tabs, RestoreBind(t) PROVE DataInv'
  <2>1. app'[t].pc \notin Lifting /\ OthersStay(t) /\ data' = data
        /\ app[t].cand.scope \in Scopes /\ app[t].cand.pending \in BOOLEAN
        /\ (Bind(t, app[t].cand.scope, app[t].cand.pending) \/ disk' = disk)
    BY <1>1, <1>8, MoveRestoreBind DEF RestoredTo, Lifting, vars
  <2> QED BY <1>2, <1>7, <2>1, DataUntouched
<1>9. ASSUME NEW t \in Tabs, PairBind(t) PROVE DataInv'
  <2>1. app'[t].pc \notin Lifting /\ OthersStay(t) /\ data' = data /\ app[t].cand.scope \in Scopes
        /\ (Bind(t, app[t].cand.scope, TRUE) \/ disk' = disk)
    BY <1>1, <1>9, MovePairBind DEF Lifting, vars
  <2> QED BY <1>2, <1>7, <2>1, DataUntouched
<1>10. ASSUME NEW t \in Tabs,
              Rewrite(t) \/ PairCommit(t) \/ (\E s \in Scopes : PairIntent(t, s))
              \/ PairRollback(t) \/ WriteFails(t) \/ PinLogin(t) \/ Lock(t) \/ Heartbeat(t)
       PROVE  DataInv'
  <2>1. disk' = disk
    BY <1>10, KeysStepKeepsQueue DEF KeysStep, vars
  <2>2. CASE Rewrite(t) \/ PairCommit(t)
    BY <1>1, <1>2, <2>1, <2>2, MoveWrite, DataUntouched DEF Lifting
  <2>3. CASE \E s \in Scopes : PairIntent(t, s)
    BY <1>1, <1>2, <2>1, <2>3, MoveIntent, DataUntouched DEF Lifting
  <2>4. CASE PairRollback(t)
    BY <1>1, <1>2, <2>1, <2>4, MoveRollback, DataUntouched DEF Lifting
  <2>5. CASE WriteFails(t)
    BY <1>1, <1>2, <2>1, <2>5, MoveFails, DataUntouched DEF Lifting
  <2>6. CASE PinLogin(t) \/ Lock(t) \/ Heartbeat(t)
    BY <2>1, <2>6, DataUntouched DEF PinLogin, Lock, Heartbeat
  <2> QED BY <1>10, <2>2, <2>3, <2>4, <2>5, <2>6
<1>11. ASSUME NEW t \in Tabs, FinishPurge(t) \/ ForgetPurge(t) PROVE DataInv'
  BY <1>1, <1>11, MovePurge, DataGone
<1>12. ASSUME NEW t \in Tabs, FinishClear(t) \/ ForgetComplete(t) PROVE DataInv'
  <2>1. app[t].pc \in Lifting /\ data' = data /\ CompleteClear(t)
    BY <1>1, <1>12, MoveComplete DEF Lifting
  <2>2. disk.scope = None
    BY <1>1, <2>1, CompleteClearEffect
  <2>3. data' = {}
    BY <2>1, <2>2 DEF DataInv, Lifting
  <2> QED BY <2>3, DataGone
<1>13. ASSUME NEW t \in Tabs, Forget(t) PROVE DataInv'
  BY <1>1, <1>2, <1>13, MoveForget, ClearBeginEffect, DataUntouched DEF Lifting
<1>14. ASSUME NEW t \in Tabs, ForgetClear(t) PROVE DataInv'
  <2>1. OthersStay(t) /\ data' = data
    BY <1>1, <1>14, MoveForgetClear
  <2>2. CASE ClearCommit(t) /\ app'[t].pc = "purge"
    <3>1. disk'.scope = None /\ disk'.purging
      BY <1>1, <2>2, ClearCommitEffect
    <3>2. \A u \in Tabs : app'[u].pc \notin Lifting
      BY <2>2 DEF SingleWindow, Lifting
    <3> QED BY <3>1, <3>2 DEF DataInv, NoLeakAcrossPairings, Lifting
  <2>3. CASE (ClearRefused(t) \/ ClearFails(t)) /\ app'[t].pc = "error"
    BY <1>1, <1>2, <2>1, <2>3, ClearEndEffect, DataUntouched DEF Lifting
  <2> QED BY <1>1, <1>14, <2>2, <2>3, MoveForgetClear
<1>15. ASSUME NEW t \in Tabs, SaveData(t) PROVE DataInv'
  <2>1. data' = data \cup {mem[t].bound} /\ mem[t].bound = disk.scope /\ disk.scope # None
        /\ disk' = disk
    BY <1>15 DEF SaveData, Working, Ready, InScope, vars
  <2> QED BY <2>1 DEF DataInv, NoLeakAcrossPairings
<1>16. ASSUME NEW t \in Tabs, Sell(t) PROVE DataInv'
  <2>1. SamePairing /\ UNCHANGED <<app, data>>
    BY <1>1, <1>16, WorkKeepsPairing DEF Sell, appVars
  <2> QED BY <2>1, DataUntouched DEF SamePairing
<1>17. ASSUME NEW t \in Tabs, Background(t) PROVE DataInv'
  <2>1. SamePairing /\ data' = data
    BY <1>1, <1>17, WorkKeepsPairing, MoveBackground
  <2> QED BY <1>1, <1>2, <1>17, <2>1, MoveBackground, DataUntouched DEF SamePairing, Lifting
<1>18. ASSUME NEW t \in Tabs, Crash(t) PROVE DataInv'
  <2>1. disk' = disk /\ OthersStay(t) /\ app'[t].pc = "off" /\ data' \in {data, {}}
    BY <1>1, <1>18, MoveCrash, CloseEffect
  <2> QED BY <1>2, <2>1, DataUntouched, DataGone DEF Lifting
<1>19. ASSUME NEW t \in Tabs, BreaksOff(t) PROVE DataInv'
  <2>1. disk' = disk /\ OthersStay(t) /\ app'[t].pc = "error" /\ data' \in {data, {}}
    BY <1>1, <1>19, BreaksOffEffect DEF vars, OthersStay
  <2> QED BY <1>2, <2>1, DataUntouched, DataGone DEF Lifting
<1> QED BY <1>3, <1>4, <1>5, <1>6, <1>8, <1>9, <1>10, <1>11, <1>12, <1>13, <1>14, <1>15, <1>16,
           <1>17, <1>18, <1>19, PairingSteps DEF WindowStep

LEMMA DataInvInit == PairingInit => DataInv
BY DEF PairingInit, DataInv, NoLeakAcrossPairings

\* storage.ts, purgeKeysWithIdentityLast(): in one window, wherever a crash or a
\* refusal of the storage cuts an unpairing or its repair, the till never finds
\* under a pairing what was stored for another one.
THEOREM WindowLeaksNothing == SingleWindow => (PairingSpec => []NoLeakAcrossPairings)
<1> SUFFICES ASSUME SingleWindow PROVE PairingSpec => []NoLeakAcrossPairings
  OBVIOUS
<1>1. PairingTyped /\ DataInv /\ [PairingNext]_allVars => PairingTyped' /\ DataInv'
  BY StepPairingTyped, StepData
<1>2. PairingInit => PairingTyped /\ DataInv
  BY PairingInitTyped, DataInvInit
<1>3. DataInv => NoLeakAcrossPairings
  BY DEF DataInv
<1> QED BY <1>1, <1>2, <1>3, PTL DEF PairingSpec

-----------------------------------------------------------------------------
(* What leaves a window leaves for the pairing it was entered under.       *)

OnlyFlush(t) == \A u \in Tabs : u # t => flush'[u] = flush[u]

\* What a step of the queue may do to the pass of its window.
PassMove(t) ==
    /\ OnlyFlush(t)
    /\ \/ flush'[t].pc \in {"idle", "asked"} /\ (flush'[t].pc = "asked" => flush[t].pc # "idle")
       \/ /\ flush'[t].pc = "pick" /\ flush'[t].todo = disk.entries /\ InScope(t)
          /\ flush[t].pc = "asked"
       \/ /\ flush[t].pc \in {"pick", "guard", "wait"}
          /\ flush'[t].pc \in {"pick", "guard", "wait"} /\ flush'[t].todo \subseteq flush[t].todo
          /\ \/ flush'[t].pc = "pick"
             \/ flush[t].pc = "pick" /\ flush'[t].pc = "guard" /\ flush'[t].cur \in flush[t].todo
             \/ flush[t].pc # "pick" /\ flush'[t].cur = flush[t].cur
    /\ UNCHANGED <<accepted, owner>>

LEMMA SetPass ==
    ASSUME IndType, NEW t \in Tabs, NEW r, flush' = [flush EXCEPT ![t] = r]
    PROVE  flush'[t] = r /\ OnlyFlush(t)
BY DEF IndType, TypeOK, OnlyFlush

LEMMA PassMoves ==
    ASSUME IndType, NEW t \in Tabs, Pass(t), ~Tick(t)
    PROVE  PassMove(t)
<1>1. PICK f : f = flush[t]
  OBVIOUS
<1>2. f \in FlushType
  BY <1>1, TypeUse
<1>3. UNCHANGED <<accepted, owner>>
  BY DEF Pass, FlushStart, FlushPick, FlushSkip, FlushSend, FlushReads, FlushCommit,
         FlushCommitFails, ServerApplies, ServerRefuses, NetworkFails, ScopeLost, pastVars
<1>4. CASE StopFlush(t)
  BY <1>3, <1>4, SetPass, NoFlushType DEF StopFlush, PassMove
<1>5. CASE FlushStart(t)
  <2>1. CASE mem[t].clearing \/ disk.entries = {}
    BY <1>4, <1>5, <2>1 DEF FlushStart, StopFlush
  <2>2. CASE ~(mem[t].clearing \/ disk.entries = {})
    <3>1. PICK r : r = [NoFlush EXCEPT !.pc = "pick", !.todo = disk.entries]
      OBVIOUS
    <3>2. r.pc = "pick" /\ r.todo = disk.entries
      BY <3>1 DEF NoFlush
    <3>3. flush' = [flush EXCEPT ![t] = r] /\ InScope(t) /\ flush[t].pc = "asked"
      BY <1>5, <2>2, <3>1 DEF FlushStart
    <3> QED BY <1>3, <3>2, <3>3, SetPass DEF PassMove
  <2> QED BY <2>1, <2>2
<1>6. CASE FlushPick(t)
  <2>1. PICK x \in flush[t].todo :
          flush' = [flush EXCEPT ![t].pc = "guard", ![t].cur = x, ![t].todo = @ \ {x}]
    BY <1>6 DEF FlushPick
  <2>2. PICK r : r = [f EXCEPT !.pc = "guard", !.cur = x, !.todo = @ \ {x}]
    OBVIOUS
  <2>3. r.pc = "guard" /\ r.cur = x /\ r.todo = f.todo \ {x} /\ f.pc = "pick"
    BY <1>1, <1>2, <1>6, <2>2 DEF FlushType, FlushPick
  <2>4. flush' = [flush EXCEPT ![t] = r]
    BY <1>1, <2>1, <2>2
  <2> QED BY <1>1, <1>3, <2>1, <2>3, <2>4, SetPass DEF PassMove
<1>7. ASSUME NEW r, flush' = [flush EXCEPT ![t] = r], r.pc = "pick", r.todo = f.todo,
             f.pc \in {"guard", "wait"}
      PROVE  PassMove(t)
  BY <1>1, <1>3, <1>7, SetPass DEF PassMove
<1>12. CASE FlushSkip(t)
  <2>1. PICK r : r = [f EXCEPT !.pc = "pick", !.cur = None]
    OBVIOUS
  <2>2. r.pc = "pick" /\ r.todo = f.todo /\ f.pc = "guard"
    BY <1>1, <1>2, <1>12, <2>1 DEF FlushType, FlushSkip
  <2>3. flush' = [flush EXCEPT ![t] = r]
    BY <1>1, <1>12, <2>1 DEF FlushSkip
  <2> QED BY <1>7, <2>2, <2>3
<1>13. CASE FlushReads(t)
  <2> DEFINE Got(a) == IF f.answer = a THEN {f.cur} ELSE {}
  <2>1. PICK r : r = [f EXCEPT !.pc = "pick", !.cur = None, !.answer = "none",
                        !.sent = @ \cup Got("sent"), !.temp = @ \cup Got("temporary"),
                        !.perm = @ \cup Got("permanent")]
    OBVIOUS
  <2>2. r.pc = "pick" /\ r.todo = f.todo /\ f.pc = "wait"
    BY <1>1, <1>2, <1>13, <2>1 DEF FlushType, FlushReads
  <2>3. flush' = [flush EXCEPT ![t] = r]
    BY <1>1, <1>13, <2>1 DEF FlushReads
  <2> QED BY <1>7, <2>2, <2>3
<1>8. CASE FlushSend(t)
  <2>1. PICK r : r = [f EXCEPT !.pc = "wait", !.answer = "none"]
    OBVIOUS
  <2>2. r.pc = "wait" /\ r.todo = f.todo /\ r.cur = f.cur /\ f.pc = "guard"
    BY <1>1, <1>2, <1>8, <2>1 DEF FlushType, FlushSend
  <2>3. flush' = [flush EXCEPT ![t] = r]
    BY <1>1, <1>8, <2>1 DEF FlushSend
  <2> QED BY <1>1, <1>3, <2>2, <2>3, SetPass DEF PassMove
<1>9. ASSUME NEW a, Answer(t, a), flush[t].pc = "wait" PROVE PassMove(t)
  <2>1. PICK r : r = [f EXCEPT !.answer = a]
    OBVIOUS
  <2>2. r.pc = "wait" /\ r.todo = f.todo /\ r.cur = f.cur /\ f.pc = "wait"
    BY <1>1, <1>2, <1>9, <2>1 DEF FlushType
  <2>3. flush' = [flush EXCEPT ![t] = r]
    BY <1>1, <1>9, <2>1 DEF Answer
  <2> QED BY <1>1, <1>3, <2>2, <2>3, SetPass DEF PassMove
<1>10. CASE ServerApplies(t) \/ ServerRefuses(t) \/ NetworkFails(t)
  BY <1>9, <1>10, InFlightIsCur DEF ServerApplies, ServerRefuses, NetworkFails
<1>11. CASE FlushCommit(t) \/ FlushCommitFails(t) \/ ScopeLost(t)
  BY <1>4, <1>11 DEF FlushCommit, FlushCommitFails, ScopeLost
<1> QED BY <1>5, <1>6, <1>8, <1>10, <1>11, <1>12, <1>13 DEF Pass

\* A pass that is asked for is all that a sale or the timer starts.
LEMMA AskedMove ==
    ASSUME IndType, NEW t \in Tabs, AskFlush(t)
    PROVE  OnlyFlush(t) /\ (flush'[t] = flush[t] \/ flush'[t].pc = "asked")
<1>1. PICK r : r = [flush[t] EXCEPT !.pc = IF @ = "idle" THEN "asked" ELSE @]
  OBVIOUS
<1>2. r = flush[t] \/ r.pc = "asked"
  BY <1>1, TypeUse DEF FlushType
<1>3. flush' = [flush EXCEPT ![t] = r]
  BY <1>1 DEF AskFlush
<1> QED BY <1>2, <1>3, SetPass

LEMMA OwnedKept ==
    ASSUME IndType, PassesOwned, accepted \subseteq accepted',
           \A e \in accepted : owner'[e] = owner[e],
           \A u \in Tabs : \/ flush'[u].pc \in {"idle", "asked"}
                           \/ flush'[u] = flush[u] /\ mem'[u].bound = mem[u].bound
    PROVE  PassesOwned'
<1> SUFFICES ASSUME NEW u \in Tabs PROVE Owned(flush[u], mem[u].bound)'
  BY DEF PassesOwned
<1>1. CASE flush'[u].pc \in {"idle", "asked"}
  BY <1>1 DEF Owned
<1>2. CASE flush'[u] = flush[u] /\ mem'[u].bound = mem[u].bound
  BY <1>2 DEF Owned, PassesOwned
<1> QED BY <1>1, <1>2

LEMMA PassKeepsOwned ==
    ASSUME DeliveryInv, PassesOwned, NEW t \in Tabs, PassMove(t), SamePairing
    PROVE  PassesOwned'
<1> SUFFICES ASSUME NEW u \in Tabs PROVE Owned(flush[u], mem[u].bound)'
  BY DEF PassesOwned
<1>1. mem'[u].bound = mem[u].bound /\ UNCHANGED <<accepted, owner>> /\ Owned(flush[u], mem[u].bound)
  BY DEF SamePairing, PassMove, PassesOwned
<1>2. CASE u # t
  BY <1>1, <1>2 DEF PassMove, OnlyFlush, Owned
<1>3. CASE u = t /\ flush'[u].pc = "pick" /\ flush'[u].todo = disk.entries /\ InScope(u)
  <2>1. \A e \in disk.entries : e \in accepted /\ owner[e] = disk.scope
    BY DEF DeliveryInv, DocumentInv, MatterWasAccepted, MatterBelongsToScope
  <2>2. disk.scope = mem[u].bound
    BY <1>3 DEF InScope
  <2> QED BY <1>1, <1>3, <2>1, <2>2 DEF Owned
<1>4. CASE u = t /\ flush'[u].pc \in {"idle", "asked"}
  BY <1>4 DEF Owned
<1>5. CASE /\ u = t
           /\ flush[u].pc \in {"pick", "guard", "wait"}
           /\ flush'[u].pc \in {"pick", "guard", "wait"} /\ flush'[u].todo \subseteq flush[u].todo
           /\ \/ flush'[u].pc = "pick"
              \/ flush[u].pc = "pick" /\ flush'[u].pc = "guard" /\ flush'[u].cur \in flush[u].todo
              \/ flush[u].pc # "pick" /\ flush'[u].cur = flush[u].cur
  BY <1>1, <1>5 DEF Owned
<1> QED BY <1>2, <1>3, <1>4, <1>5 DEF PassMove

\* Whatever step of the queue, a window starts to wait only by sending.
LEMMA OnlySendWaits ==
    ASSUME IndType, [Next]_vars, NEW t \in Tabs, flush'[t].pc = "wait", flush[t].pc # "wait"
    PROVE  flush[t].pc = "guard" /\ flush'[t].cur = flush[t].cur
<1>1. CASE UNCHANGED vars
  BY <1>1 DEF vars
<1>2. ASSUME NEW e \in Entries, LateArrives(e) PROVE FALSE
  BY <1>2 DEF LateArrives
<1>3. ASSUME NEW u \in Tabs, Pass(u) PROVE flush[t].pc = "guard" /\ flush'[t].cur = flush[t].cur
  <2>1. CASE Tick(u)
    BY <1>3, <2>1, AskedMove DEF Tick, OnlyFlush
  <2>2. CASE ~Tick(u)
    BY <1>3, <2>2, PassMoves DEF PassMove, OnlyFlush
  <2> QED BY <2>1, <2>2
<1>4. ASSUME NEW u \in Tabs, Use(u) \/ Life(u) PROVE FALSE
  <2>1. OnlyFlush(u) /\ (flush'[u] = flush[u] \/ flush'[u].pc \in {"asked", "idle"})
    <3>1. CASE \E e \in Entries : Enqueue(u, e)
      BY <3>1, AskedMove DEF Enqueue
    <3>2. CASE ClearBegin(u) \/ Close(u)
      <4>1. flush' = [flush EXCEPT ![u] = NoFlush]
        BY <3>2 DEF ClearBegin, Close, StopFlush
      <4> QED BY <4>1, SetPass, NoFlushType
    <3>3. CASE UNCHANGED flush
      BY <3>3 DEF OnlyFlush
    <3> QED BY <1>4, <3>1, <3>2, <3>3 DEF Use, Life, Acknowledge, ClearCommit, ClearRefused,
                                          ClearFails, Bind, CompleteClear, Open
  <2> QED BY <2>1 DEF OnlyFlush
<1> QED BY <1>1, <1>2, <1>3, <1>4 DEF Next

\* The steps that neither start a pass nor enter a sale.
LEMMA StepPassesOwned ==
    ASSUME PairingTyped, PassesOn, PassesOwned, [PairingNext]_allVars
    PROVE  PassesOwned'
<1>1. AppTyped /\ IndType /\ DocumentInv /\ DeliveryInv
  BY DEF PairingTyped, DeliveryInv, DocumentInv
<1>2. ASSUME NEW t \in Tabs, OnlyMem(t), OnlyFlush(t), UNCHANGED <<accepted, owner>>,
             flush'[t].pc \in {"idle", "asked"}
      PROVE  PassesOwned'
  BY <1>1, <1>2, OwnedKept DEF OnlyMem, OnlyFlush
<1>3. ASSUME UNCHANGED vars PROVE PassesOwned'
  BY <1>1, <1>3, OwnedKept DEF vars, pastVars
<1>4. CASE LateStep
  BY <1>1, <1>4, LateKeepsPairing, OwnedKept DEF LateStep, LateArrives, SamePairing, pastVars
<1>5. ASSUME NEW t \in Tabs, flush[t].pc = "idle", OnlyMem(t), UNCHANGED <<flush, accepted, owner>>
      PROVE  PassesOwned'
  BY <1>2, <1>5 DEF OnlyFlush
<1>6. ASSUME NEW t \in Tabs, KeysStep(t) PROVE PassesOwned'
  BY <1>3, <1>6, KeysStepKeepsQueue
<1>7. ASSUME NEW t \in Tabs, Boot(t) \/ Crash(t) PROVE PassesOwned'
  <2>1. CASE Boot(t)
    <3>1. ~mem[t].open /\ Open(t)
      BY <2>1 DEF Boot, Open
    <3>2. flush[t].pc = "idle"
      BY <1>1, <3>1 DEF AppTyped, PassesOn, At
    <3> QED BY <1>1, <1>5, <3>1, <3>2, OpenEffect
  <2>2. CASE Crash(t)
    BY <1>1, <1>2, <2>2, MoveCrash, CloseEffect DEF OnlyFlush
  <2> QED BY <1>7, <2>1, <2>2
<1>8. ASSUME NEW t \in Tabs, NEW s \in Scopes, NEW fresh \in BOOLEAN, Bind(t, s, fresh),
             flush[t].pc = "idle"
      PROVE  PassesOwned'
  BY <1>1, <1>5, <1>8, BindEffect
<1>9. ASSUME NEW t \in Tabs, RestoreBind(t) \/ PairBind(t) PROVE PassesOwned'
  <2>1. app[t].pc \in {"bind", "pair"} /\ app[t].cand.scope \in Scopes
        /\ (app[t].pc = "bind" => app[t].cand.pending \in BOOLEAN)
    BY <1>1, <1>9, MoveRestoreBind, MovePairBind
  <2>2. flush[t].pc = "idle"
    BY <2>1 DEF PassesOn, At
  <2>3. \/ UNCHANGED vars
        \/ app[t].cand.pending \in BOOLEAN /\ Bind(t, app[t].cand.scope, app[t].cand.pending)
        \/ Bind(t, app[t].cand.scope, TRUE)
    BY <1>1, <1>9, MoveRestoreBind, MovePairBind
  <2> QED BY <1>3, <1>8, <2>1, <2>2, <2>3
<1>10. ASSUME NEW t \in Tabs, FinishClear(t) \/ ForgetComplete(t) PROVE PassesOwned'
  <2>1. app[t].pc \in {"empty", "finished", "complete"} /\ (CompleteClear(t) \/ UNCHANGED vars)
    BY <1>1, <1>10, MoveComplete
  <2>2. flush[t].pc = "idle"
    BY <2>1 DEF PassesOn, At
  <2> QED BY <1>1, <1>3, <1>5, <2>1, <2>2, CompleteClearEffect
<1>11. ASSUME NEW t \in Tabs, Forget(t) PROVE PassesOwned'
  BY <1>1, <1>2, <1>11, MoveForget, ClearBeginEffect DEF OnlyFlush
<1>12. ASSUME NEW t \in Tabs, ForgetClear(t) PROVE PassesOwned'
  <2>1. app[t].pc = "clear" /\ (ClearCommit(t) \/ ClearRefused(t) \/ ClearFails(t))
    BY <1>1, <1>12, MoveForgetClear
  <2>2. flush[t].pc = "idle"
    BY <2>1 DEF PassesOn, At
  <2> QED BY <1>1, <1>5, <2>1, <2>2, ClearCommitEffect, ClearEndEffect
<1>13. ASSUME NEW t \in Tabs, NEW e \in Entries, Enqueue(t, e) PROVE PassesOwned'
  <2>1. AskFlush(t) /\ accepted' = accepted \cup {e} /\ e \notin accepted
        /\ owner' = [owner EXCEPT ![e] = mem[t].bound]
    BY <1>13 DEF Enqueue
  <2>2. \A x \in accepted : owner'[x] = owner[x]
    BY <1>1, <2>1 DEF IndType, TypeOK
  <2>3. SamePairing
    BY <1>1, <1>13, WorkKeepsPairing
  <2>4. OnlyFlush(t) /\ (flush'[t] = flush[t] \/ flush'[t].pc = "asked")
    BY <1>1, <2>1, AskedMove
  <2> QED BY <1>1, <2>1, <2>2, <2>3, <2>4, OwnedKept DEF SamePairing, OnlyFlush
<1>14. ASSUME NEW t \in Tabs, Sell(t) PROVE PassesOwned'
  <2>1. CASE Acknowledge(t)
    BY <1>1, <2>1, WorkKeepsPairing, OwnedKept DEF SamePairing, Acknowledge
  <2> QED BY <1>13, <1>14, <2>1 DEF Sell
<1>15. ASSUME NEW t \in Tabs, Background(t) PROVE PassesOwned'
  <2>1. Pass(t) /\ SamePairing
    BY <1>1, <1>15, MoveBackground, WorkKeepsPairing
  <2>2. CASE Tick(t)
    <3>1. AskFlush(t) /\ UNCHANGED <<accepted, owner>>
      BY <2>2 DEF Tick, pastVars
    <3> QED BY <1>1, <2>1, <3>1, AskedMove, OwnedKept DEF SamePairing, OnlyFlush
  <2>3. CASE ~Tick(t)
    BY <1>1, <2>1, <2>3, PassMoves, PassKeepsOwned
  <2> QED BY <2>2, <2>3
<1> QED BY <1>3, <1>4, <1>6, <1>7, <1>9, <1>10, <1>11, <1>12, <1>14, <1>15, PairingSteps
        DEF WindowStep, KeysStep, allVars

\* The window's application and its pass, one window at a time.
PassOn(t) ==
    /\ flush[t].pc # "idle" => At(t, "on")
    /\ app[t].pc \in {"rewrite", "commit"} => mem[t].bound = app[t].cand.scope
    /\ At(t, "on") => mem[t].bound = app[t].dev

LEMMA OnKept ==
    ASSUME PassesOn, NEW t \in Tabs, OthersStay(t), PassOn(t)',
           \A u \in Tabs : u # t => mem'[u].bound = mem[u].bound /\ flush'[u] = flush[u]
    PROVE  PassesOn'
BY DEF PassesOn, PassOn, OthersStay, At

LEMMA StepPassesOn ==
    ASSUME PairingTyped, PassesOn, [PairingNext]_allVars
    PROVE  PassesOn'
<1>1. AppTyped /\ IndType /\ DocumentInv
  BY DEF PairingTyped, DeliveryInv, DocumentInv
<1>2. CASE UNCHANGED allVars
  BY <1>2 DEF allVars, vars, appVars, PassesOn, At
<1>3. CASE LateStep
  BY <1>3 DEF LateStep, LateArrives, appVars, PassesOn, At
<1>4. ASSUME NEW t \in Tabs, app[t].pc # "on" PROVE flush[t].pc = "idle"
  BY <1>4 DEF PassesOn, At
<1>5. ASSUME NEW t \in Tabs, OthersStay(t), UNCHANGED vars, app[t].pc # "on",
             app'[t].pc \notin {"on", "rewrite", "commit"}
      PROVE  PassesOn'
  BY <1>4, <1>5, OnKept DEF vars, PassOn, At
<1>6. ASSUME NEW t \in Tabs, OthersStay(t), OnlyMem(t), UNCHANGED flush, app[t].pc # "on",
             app'[t].pc \notin {"on", "rewrite", "commit"}
      PROVE  PassesOn'
  BY <1>4, <1>6, OnKept DEF OnlyMem, PassOn, At
<1>7. ASSUME NEW t \in Tabs, OthersStay(t), OnlyMem(t), UNCHANGED flush, app[t].pc # "on",
             \/ app'[t].pc \in {"rewrite", "commit"} /\ mem'[t].bound = app'[t].cand.scope
             \/ app'[t].pc = "on" /\ mem'[t].bound = app'[t].dev
      PROVE  PassesOn'
  BY <1>4, <1>7, OnKept DEF OnlyMem, PassOn, At
<1>8. ASSUME NEW t \in Tabs, Boot(t) \/ Retry(t) PROVE PassesOn'
  <2>1. CASE Boot(t)
    <3>1. Open(t) /\ ~mem[t].open /\ OthersStay(t) /\ app'[t].pc = "boot"
      BY <1>1, <2>1, MoveStart DEF Boot, Open
    <3>2. app[t].pc = "off"
      BY <1>1, <3>1 DEF AppTyped, At
    <3> QED BY <1>1, <1>6, <3>1, <3>2, OpenEffect
  <2>2. CASE Retry(t)
    BY <1>1, <1>5, <2>2, MoveStart DEF Retry, At
  <2> QED BY <1>8, <2>1, <2>2
<1>9. ASSUME NEW t \in Tabs, Restore(t) \/ FinishPurge(t) \/ (\E s \in Scopes : PairIntent(t, s))
             \/ PairRollback(t) \/ WriteFails(t) \/ ForgetPurge(t) \/ BreaksOff(t)
      PROVE  PassesOn'
  <2>1. UNCHANGED vars
    BY <1>9, KeysStepKeepsQueue DEF KeysStep
  <2>2. OthersStay(t) /\ app[t].pc # "on" /\ app'[t].pc \notin {"on", "rewrite", "commit"}
    BY <1>1, <1>9, MoveRestore, MovePurge, MoveIntent, MoveRollback, MoveFails, BreaksOffEffect
       DEF OthersStay
  <2> QED BY <1>5, <2>1, <2>2
<1>10. ASSUME NEW t \in Tabs, RestoreBind(t) PROVE PassesOn'
  <2>1. app[t].pc = "bind" /\ OthersStay(t)
        /\ app[t].cand.scope \in Scopes /\ app[t].cand.pending \in BOOLEAN
    BY <1>1, <1>10, MoveRestoreBind
  <2>2. CASE Bind(t, app[t].cand.scope, app[t].cand.pending) /\ RestoredTo(t)
    BY <1>1, <1>7, <2>1, <2>2, BindEffect DEF RestoredTo
  <2>3. CASE mem[t].bound = app[t].cand.scope /\ RestoredTo(t) /\ UNCHANGED vars
    BY <1>7, <2>1, <2>3 DEF RestoredTo, vars, OnlyMem
  <2>4. CASE UNCHANGED vars /\ app'[t].pc \in {"finish", "error"}
    BY <1>5, <2>1, <2>4
  <2> QED BY <1>1, <1>10, <2>2, <2>3, <2>4, MoveRestoreBind
<1>11. ASSUME NEW t \in Tabs, PairBind(t) PROVE PassesOn'
  <2>1. app[t].pc = "pair" /\ OthersStay(t) /\ app'[t].cand = app[t].cand
        /\ app[t].cand.scope \in Scopes
    BY <1>1, <1>11, MovePairBind
  <2>2. CASE Bind(t, app[t].cand.scope, TRUE) /\ app'[t].pc = "commit"
    BY <1>1, <1>7, <2>1, <2>2, BindEffect
  <2>3. CASE UNCHANGED vars /\ app'[t].pc = "rollback"
    BY <1>5, <2>1, <2>3
  <2> QED BY <1>1, <1>11, <2>2, <2>3, MovePairBind
<1>12. ASSUME NEW t \in Tabs, Rewrite(t) \/ PairCommit(t) PROVE PassesOn'
  <2>1. UNCHANGED vars
    BY <1>12, KeysStepKeepsQueue DEF KeysStep
  <2>2. app[t].pc \in {"rewrite", "commit"} /\ OthersStay(t) /\ app'[t].pc = "on"
        /\ app'[t].dev = app[t].cand.scope
    BY <1>1, <1>12, MoveWrite
  <2>3. mem[t].bound = app[t].cand.scope
    BY <2>2 DEF PassesOn
  <2> QED BY <1>7, <2>1, <2>2, <2>3 DEF vars, OnlyMem
<1>13. ASSUME NEW t \in Tabs, FinishClear(t) \/ ForgetComplete(t) PROVE PassesOn'
  <2>1. app[t].pc \in {"empty", "finished", "complete"} /\ OthersStay(t)
        /\ app'[t].pc \in {"none", "error"} /\ (CompleteClear(t) \/ UNCHANGED vars)
    BY <1>1, <1>13, MoveComplete
  <2> QED BY <1>1, <1>5, <1>6, <2>1, CompleteClearEffect
<1>14. ASSUME NEW t \in Tabs, Forget(t) PROVE PassesOn'
  <2>1. OthersStay(t) /\ app'[t].pc = "clear" /\ OnlyMem(t) /\ flush'[t].pc = "idle"
        /\ \A u \in Tabs : u # t => flush'[u] = flush[u]
    BY <1>1, <1>14, MoveForget, ClearBeginEffect
  <2> QED BY <2>1, OnKept DEF PassOn, At, OnlyMem
<1>15. ASSUME NEW t \in Tabs, ForgetClear(t) PROVE PassesOn'
  <2>1. app[t].pc = "clear" /\ OthersStay(t) /\ app'[t].pc \in {"purge", "error"}
        /\ (ClearCommit(t) \/ ClearRefused(t) \/ ClearFails(t))
    BY <1>1, <1>15, MoveForgetClear
  <2> QED BY <1>1, <1>6, <2>1, ClearCommitEffect, ClearEndEffect
<1>16. ASSUME NEW t \in Tabs, PinLogin(t) \/ Lock(t) \/ Heartbeat(t) \/ SaveData(t) PROVE PassesOn'
  <2>1. UNCHANGED vars /\ UNCHANGED app
    BY <1>1, <1>16, KeysStepKeepsQueue, MoveWork DEF KeysStep
  <2> QED BY <2>1 DEF vars, PassesOn, At
<1>17. ASSUME NEW t \in Tabs, UNCHANGED app, SamePairing, OnlyFlush(t),
              flush'[t].pc # "idle" => app[t].pc = "on"
       PROVE  PassesOn'
  BY <1>17 DEF SamePairing, OnlyFlush, PassesOn, At
<1>18. ASSUME NEW t \in Tabs, Sell(t) PROVE PassesOn'
  <2>1. SamePairing /\ UNCHANGED app /\ app[t].pc = "on"
    BY <1>1, <1>18, WorkKeepsPairing, MoveWork DEF Sell
  <2>2. OnlyFlush(t)
    BY <1>1, <1>18, AskedMove DEF Sell, Enqueue, Acknowledge, OnlyFlush
  <2> QED BY <1>17, <2>1, <2>2
<1>19. ASSUME NEW t \in Tabs, Background(t) PROVE PassesOn'
  <2>1. Pass(t) /\ SamePairing /\ OthersStay(t) /\ (Tick(t) => app[t].pc = "on")
        /\ (app' = app \/ (app[t].pc = "clear" /\ app'[t].pc = "error"))
    BY <1>1, <1>19, MoveBackground, WorkKeepsPairing
  <2>2. OnlyFlush(t) /\ (flush'[t].pc # "idle" => flush[t].pc # "idle" \/ Tick(t))
    <3>1. CASE Tick(t)
      BY <1>1, <3>1, AskedMove DEF Tick
    <3>2. CASE ~Tick(t)
      BY <1>1, <2>1, <3>2, PassMoves DEF PassMove
    <3> QED BY <3>1, <3>2
  <2>3. flush'[t].pc # "idle" => app[t].pc = "on"
    BY <1>4, <2>1, <2>2
  <2>4. CASE app' = app
    BY <1>17, <2>1, <2>2, <2>3, <2>4
  <2>5. CASE app[t].pc = "clear" /\ app'[t].pc = "error"
    BY <2>1, <2>2, <2>3, <2>5, OnKept DEF PassOn, At, SamePairing, OnlyFlush
  <2> QED BY <2>1, <2>4, <2>5
<1>20. ASSUME NEW t \in Tabs, Crash(t) PROVE PassesOn'
  <2>1. OthersStay(t) /\ app'[t].pc = "off" /\ OnlyMem(t) /\ flush'[t].pc = "idle"
        /\ \A u \in Tabs : u # t => flush'[u] = flush[u]
    BY <1>1, <1>20, MoveCrash, CloseEffect
  <2> QED BY <2>1, OnKept DEF PassOn, At, OnlyMem
<1> QED BY <1>2, <1>3, <1>8, <1>9, <1>10, <1>11, <1>12, <1>13, <1>14, <1>15, <1>16, <1>18, <1>19,
           <1>20, PairingSteps DEF WindowStep

LEMMA PassesInit == PairingInit => PassesOn /\ PassesOwned
BY DEF PairingInit, Init, PassesOn, PassesOwned, Owned, NoFlush, Off, At

\* What holds of the till in any number of windows.
THEOREM PairingInvariant == PairingSpec => []PairingIInv
<1>1. PairingInit => PairingIInv
  BY PairingInitTyped, PassesInit DEF PairingIInv
<1>2. PairingIInv /\ [PairingNext]_allVars => PairingIInv'
  BY StepPairingTyped, StepPassesOn, StepPassesOwned DEF PairingIInv
<1> QED BY <1>1, <1>2, PTL DEF PairingSpec

\* A request leaves in the guard of its pass, and only there.
LEMMA SentOnDevice ==
    ASSUME PairingIInv, [PairingNext]_allVars, NEW t \in Tabs,
           flush'[t].pc = "wait", flush[t].pc # "wait"
    PROVE  token[t] \in {None, owner[flush'[t].cur]} \/ token[t] # app[t].dev
<1>1. AppTyped /\ IndType /\ DeliveryInv /\ PassesOn /\ PassesOwned
  BY DEF PairingIInv, PairingTyped, DeliveryInv, DocumentInv
<1>2. flush[t].pc = "guard" /\ flush'[t].cur = flush[t].cur
  <2>1. [Next]_vars
    BY <1>1, PairingQueueStep
  <2> QED BY <1>1, <2>1, OnlySendWaits
<1>3. app[t].pc = "on" /\ mem[t].bound = app[t].dev /\ owner[flush[t].cur] = mem[t].bound
  BY <1>1, <1>2 DEF PassesOn, PassesOwned, Owned, At
<1> QED BY <1>2, <1>3

\* client.ts: whatever pass straddles an unpairing, in whatever window, a
\* mutation leaves with the token of the establishment it was entered for.
THEOREM NothingSentAcross == PairingSpec => NoCrossTenantSend
<1>1. PairingIInv /\ [PairingNext]_allVars
        => [\A t \in Tabs :
              flush'[t].pc = "wait" /\ flush[t].pc # "wait"
                  => token[t] \in {None, owner[flush'[t].cur]}
                     \/ token[t] # app[t].dev]_allVars
  BY SentOnDevice
<1> QED BY <1>1, PairingInvariant, PTL DEF PairingSpec, NoCrossTenantSend

-----------------------------------------------------------------------------
(* One window: the document, the identity and the session agree.           *)

LEMMA IdentityUse ==
    ASSUME NEW s \in Scopes, NEW p \in BOOLEAN
    PROVE  /\ Identity(s, p) # None /\ Identity(s, p).scope = s
           /\ s # None
BY DevicePairingAssumption, SyncQueueAssumption DEF Identity

LEMMA AloneUse ==
    ASSUME Alone, AloneInv, NEW t \in Tabs
    PROVE  /\ AppTyped /\ IndType /\ DocumentInv /\ ScopesMinted /\ PiecesInv /\ AloneAt(t)
           /\ Tabs = {t}
           /\ app[t].pc \in {"rewrite", "commit"} => mem[t].bound = app[t].cand.scope
           /\ identity \in Identities
BY DEF Alone, SingleWindow, AloneInv, AloneRest, PairingIInv, PairingTyped, DeliveryInv, DocumentInv, AppTyped,
       PassesOn

\* Where the queue's step leaves the pairing alone and so does the application.
LEMMA AloneKept ==
    ASSUME Alone, AloneInv, NEW t \in Tabs, SamePairing, UNCHANGED <<identity, minted>>,
           app'[t] = app[t],
           \/ token'[t] = token[t] /\ kept' = kept
           \/ token'[t] = None
    PROVE  AloneRest'
<1>1. ScopesMinted /\ PiecesInv /\ AloneAt(t) /\ Tabs = {t}
  BY AloneUse
<1>2. /\ disk'.scope = disk.scope /\ disk'.epoch = disk.epoch
      /\ disk'.retired = disk.retired /\ disk'.purging = disk.purging
      /\ mem'[t].bound = mem[t].bound /\ mem'[t].epoch = mem[t].epoch
      /\ mem'[t].clearing = mem[t].clearing /\ mem'[t].purging \in {mem[t].purging, disk.purging}
  BY DEF SamePairing
<1>3. ~Stale(t)
  BY <1>1 DEF Stale, Ready, AloneAt
<1>4. ~mem'[t].invalid
  BY <1>1, <1>3 DEF SamePairing, AloneAt
<1>5. ScopesMinted' /\ PiecesInv'
  BY <1>1, <1>2 DEF ScopesMinted, PiecesInv
<1>6. (mem'[t].bound # None => InScope(t)') /\ (mem'[t].purging => disk'.purging)
  BY <1>1, <1>2 DEF AloneAt, InScope
<1>7. Stands(t)'
  BY <1>1, <1>2 DEF AloneAt, Stands, Resumable, At
<1>8. SessionKept(t)'
  BY <1>1, <1>2 DEF AloneAt, SessionKept, At
<1> QED BY <1>1, <1>4, <1>5, <1>6, <1>7, <1>8 DEF AloneRest, AloneAt

\* Where only the application moves.
LEMMA AloneMoves ==
    ASSUME Alone, AloneInv, NEW t \in Tabs, UNCHANGED <<disk, mem>>,
           ScopesMinted', PiecesInv', Stands(t)', SessionKept(t)'
    PROVE  AloneRest'
BY AloneUse DEF AloneRest, AloneAt, InScope

LEMMA AloneRestore ==
    ASSUME Alone, AloneInv, NEW t \in Tabs, Restore(t)
    PROVE  AloneRest'
<1>1. AppTyped /\ ScopesMinted /\ PiecesInv /\ AloneAt(t)
  BY AloneUse
<1>2. UNCHANGED <<disk, mem>>
  BY KeysStepKeepsQueue DEF KeysStep, vars
<1>3. app[t].pc = "boot" /\ UNCHANGED <<token, kept, minted>>
  BY <1>1, MoveRestore
<1>4. CASE app'[t].pc = "bind" /\ app'[t].cand = identity /\ identity # None /\ identity' = identity
  <2>1. ScopesMinted' /\ PiecesInv'
    BY <1>1, <1>2, <1>3, <1>4 DEF ScopesMinted, PiecesInv
  <2>2. Stands(t)' /\ SessionKept(t)'
    BY <1>1, <1>2, <1>3, <1>4 DEF AloneAt, Stands, SessionKept, At
  <2> QED BY <1>2, <2>1, <2>2, AloneMoves
<1>5. CASE app'[t].pc = "empty" /\ identity = None /\ identity' = None
  <2>1. ScopesMinted' /\ PiecesInv'
    BY <1>1, <1>2, <1>3, <1>5 DEF ScopesMinted, PiecesInv
  <2>2. Stands(t)' /\ SessionKept(t)'
    BY <1>1, <1>2, <1>3, <1>5 DEF AloneAt, Stands, SessionKept, At
  <2> QED BY <1>2, <2>1, <2>2, AloneMoves
<1> QED BY <1>1, <1>4, <1>5, MoveRestore

\* A durable bind, of the identity that is stored.
LEMMA AloneBind ==
    ASSUME Alone, AloneInv, NEW t \in Tabs, NEW fresh \in BOOLEAN,
           app[t].cand.scope \in Scopes,
           Bind(t, app[t].cand.scope, fresh), identity = app[t].cand,
           UNCHANGED <<identity, minted, token, kept>>, app[t].pc \in {"bind", "pair"},
           \/ app'[t].pc = "rewrite" /\ app'[t].cand = app[t].cand /\ app[t].pc = "bind"
           \/ app'[t].pc = "on" /\ app'[t].dev = app[t].cand.scope /\ app[t].pc = "bind"
           \/ app'[t].pc = "commit" /\ app'[t].cand = app[t].cand /\ app[t].pc = "pair"
    PROVE  AloneRest'
<1>1. AppTyped /\ IndType /\ ScopesMinted /\ PiecesInv /\ AloneAt(t) /\ Tabs = {t}
  BY AloneUse
<1> DEFINE s == app[t].cand.scope
<1>2. s \in Scopes /\ s # None /\ identity # None /\ identity.scope = s
  BY <1>1, AppUse, SyncQueueAssumption, DevicePairingAssumption DEF PairedIdentities
<1>b. Bind(t, s, fresh)
  OBVIOUS
<1> HIDE DEF s
<1>i. IndType /\ s \in Scopes
  BY <1>1, <1>2
<1>3. /\ disk'.scope = s /\ disk'.epoch = disk.epoch /\ disk'.retired = disk.retired
      /\ disk'.purging \in {FALSE, mem[t].purging} /\ ~disk.purging
      /\ disk.scope \in {None, s} /\ s \notin disk.retired
      /\ mem'[t].bound = s /\ mem'[t].epoch = disk.epoch /\ ~mem'[t].purging
      /\ mem'[t].clearing = mem[t].clearing
      /\ mem'[t].invalid = mem[t].invalid
  <2>1. /\ disk'.scope = s /\ disk'.epoch = disk.epoch /\ disk'.retired = disk.retired
        /\ disk'.purging \in {FALSE, mem[t].purging} /\ ~disk.purging
        /\ disk.scope = s => ~disk'.purging
        /\ disk.scope \in {None, s} /\ s \notin disk.retired
        /\ mem'[t].bound = s /\ mem'[t].epoch = disk.epoch /\ ~mem'[t].purging
        /\ mem'[t].open = mem[t].open /\ mem'[t].clearing = mem[t].clearing
        /\ mem'[t].invalid = mem[t].invalid
        /\ OnlyMem(t) /\ UNCHANGED <<flush, accepted, owner>>
    BY <1>i, <1>b, BindEffect, Zenon
  <2> QED
    BY <2>1, Zenon
<1>4. ~disk'.purging
  BY <1>1, <1>3 DEF AloneAt
<1>5. ScopesMinted' /\ PiecesInv'
  BY <1>1, <1>2, <1>3, <1>4 DEF ScopesMinted, PiecesInv
<1>6. Stands(t)'
  BY <1>1, <1>2, <1>3, <1>4 DEF AloneAt, Stands, Resumable, At, s
<1>7. SessionKept(t)'
  BY <1>1, <1>2, <1>3 DEF AloneAt, SessionKept, At
<1>8. AloneAt(t)'
  BY <1>1, <1>3, <1>4, <1>6, <1>7 DEF AloneAt, InScope
<1> QED BY <1>1, <1>5, <1>8 DEF AloneRest

LEMMA AloneRestoreBind ==
    ASSUME Alone, AloneInv, NEW t \in Tabs, RestoreBind(t)
    PROVE  AloneRest'
<1>1. AppTyped /\ ScopesMinted /\ PiecesInv /\ AloneAt(t)
  BY AloneUse
<1>2. app[t].pc = "bind" /\ UNCHANGED <<identity, minted, token, kept>> /\ app[t].cand.scope \in Scopes
      /\ app[t].cand.pending \in BOOLEAN /\ identity = app[t].cand
  BY <1>1, MoveRestoreBind DEF AloneAt, Stands
<1>3. CASE Bind(t, app[t].cand.scope, app[t].cand.pending) /\ RestoredTo(t)
  BY <1>2, <1>3, AloneBind DEF RestoredTo
<1>4. CASE mem[t].bound = app[t].cand.scope /\ InScope(t) /\ RestoredTo(t) /\ UNCHANGED vars
  <2>1. UNCHANGED <<disk, mem>>
    BY <1>4 DEF vars
  <2>2. ScopesMinted' /\ PiecesInv'
    BY <1>1, <1>2, <2>1 DEF ScopesMinted, PiecesInv
  <2>3. identity # None /\ mem[t].bound = app[t].cand.scope
    BY <1>1, <1>2, <1>4, AppUse, DevicePairingAssumption DEF PairedIdentities
  <2>4. Stands(t)' /\ SessionKept(t)'
    BY <1>1, <1>2, <1>4, <2>1, <2>3 DEF AloneAt, Stands, SessionKept, At, RestoredTo
  <2> QED BY <2>1, <2>2, <2>4, AloneMoves
<1>5. CASE /\ UNCHANGED vars
           /\ \/ app'[t].pc = "finish" /\ app[t].cand.scope \in disk.retired
              \/ app'[t].pc = "error"
  <2>1. UNCHANGED <<disk, mem>>
    BY <1>5 DEF vars
  <2>2. ScopesMinted' /\ PiecesInv'
    BY <1>1, <1>2, <2>1 DEF ScopesMinted, PiecesInv
  <2>3. identity # None
    BY <1>1, <1>2, AppUse, DevicePairingAssumption DEF PairedIdentities
  <2>4. app'[t].pc = "finish" => disk.scope = None
    BY <1>1, <1>2, <1>5, <2>3 DEF PiecesInv
  <2>5. Stands(t)' /\ SessionKept(t)'
    BY <1>1, <1>2, <1>5, <2>1, <2>4 DEF AloneAt, Stands, SessionKept, At
  <2> QED BY <2>1, <2>2, <2>5, AloneMoves
<1> QED BY <1>1, <1>3, <1>4, <1>5, MoveRestoreBind

\* The mark of an unfinished pairing is lifted.
LEMMA AloneWrite ==
    ASSUME Alone, AloneInv, NEW t \in Tabs, Rewrite(t) \/ PairCommit(t)
    PROVE  AloneRest'
<1>1. AppTyped /\ ScopesMinted /\ PiecesInv /\ AloneAt(t)
      /\ (app[t].pc \in {"rewrite", "commit"} => mem[t].bound = app[t].cand.scope)
  BY AloneUse
<1>2. UNCHANGED <<disk, mem>>
  BY KeysStepKeepsQueue DEF KeysStep, vars
<1>3. /\ app[t].pc \in {"rewrite", "commit"} /\ Working(t)
      /\ app'[t].pc = "on" /\ app'[t].dev = app[t].cand.scope
      /\ identity' = Identity(mem[t].bound, FALSE) /\ UNCHANGED <<token, kept, minted>>
  BY <1>1, MoveWrite
<1>4. /\ mem[t].bound = app[t].cand.scope /\ disk.scope = mem[t].bound
      /\ mem[t].bound \in Scopes /\ identity = app[t].cand /\ identity # None
  BY <1>1, <1>3, AppUse, DevicePairingAssumption
     DEF AloneAt, Stands, Working, Ready, InScope, PairedIdentities
<1>5. identity' # None /\ identity'.scope = identity.scope /\ disk.scope # None
  BY <1>3, <1>4, IdentityUse
<1>6. ScopesMinted' /\ PiecesInv'
  BY <1>1, <1>2, <1>3, <1>4, <1>5 DEF ScopesMinted, PiecesInv
<1>7. Stands(t)' /\ SessionKept(t)'
  BY <1>1, <1>2, <1>3, <1>4, <1>5 DEF AloneAt, Stands, SessionKept, At
<1> QED BY <1>2, <1>6, <1>7, AloneMoves

LEMMA AlonePurge ==
    ASSUME Alone, AloneInv, NEW t \in Tabs, FinishPurge(t) \/ ForgetPurge(t)
    PROVE  AloneRest'
<1>1. AppTyped /\ ScopesMinted /\ PiecesInv /\ AloneAt(t)
  BY AloneUse
<1>2. UNCHANGED <<disk, mem>>
  BY KeysStepKeepsQueue DEF KeysStep, vars
<1>3. /\ identity' = None /\ UNCHANGED <<token, kept, minted>>
      /\ \/ app[t].pc = "finish" /\ app'[t].pc = "finished"
         \/ app[t].pc = "purge" /\ app'[t].pc = "complete"
  BY <1>1, MovePurge
<1>4. disk.scope = None
  BY <1>1, <1>3 DEF AloneAt, Stands
<1>5. ScopesMinted' /\ PiecesInv'
  BY <1>1, <1>2, <1>3, <1>4 DEF ScopesMinted, PiecesInv
<1>6. Stands(t)' /\ SessionKept(t)'
  BY <1>1, <1>2, <1>3 DEF AloneAt, Stands, SessionKept, At
<1> QED BY <1>2, <1>5, <1>6, AloneMoves

LEMMA AloneComplete ==
    ASSUME Alone, AloneInv, NEW t \in Tabs, FinishClear(t) \/ ForgetComplete(t)
    PROVE  AloneRest'
<1>1. AppTyped /\ IndType /\ ScopesMinted /\ PiecesInv /\ AloneAt(t) /\ Tabs = {t}
  BY AloneUse
<1>2. app[t].pc \in {"empty", "finished", "complete"} /\ UNCHANGED <<identity, minted>>
  BY <1>1, MoveComplete
<1>3. identity = None /\ disk.scope = None
  BY <1>1, <1>2 DEF AloneAt, Stands, PiecesInv
<1>4. /\ CompleteClear(t) /\ app'[t].pc = "none"
      /\ \/ app[t].pc = "empty" /\ UNCHANGED <<token, kept>>
         \/ token' = [token EXCEPT ![t] = None]
  BY <1>1, MoveComplete
<1>5. token'[t] = None \/ t \in kept'
  BY <1>1, <1>4 DEF AppTyped, AloneAt, SessionKept, At
<1>6. /\ disk'.scope = None /\ ~disk'.purging
      /\ disk'.epoch = disk.epoch /\ disk'.retired = disk.retired
      /\ mem'[t].bound \in {None, mem[t].bound}
      /\ mem'[t].purging => mem[t].purging /\ ~disk.purging
      /\ ~mem'[t].clearing /\ mem'[t].invalid = mem[t].invalid
  BY <1>1, <1>4, CompleteClearEffect
<1>7. mem[t].bound = None
  BY <1>1, <1>3 DEF AloneAt, InScope
<1>8. AloneAt(t)'
  BY <1>1, <1>2, <1>3, <1>4, <1>5, <1>6, <1>7 DEF AloneAt, Stands, Resumable, SessionKept, At
<1>9. ScopesMinted' /\ PiecesInv'
  BY <1>1, <1>2, <1>3, <1>6 DEF ScopesMinted, PiecesInv
<1> QED BY <1>1, <1>8, <1>9 DEF AloneRest

LEMMA AloneIntent ==
    ASSUME Alone, AloneInv, NEW t \in Tabs, NEW s \in Scopes, PairIntent(t, s)
    PROVE  AloneRest'
<1>1. AppTyped /\ ScopesMinted /\ PiecesInv /\ AloneAt(t)
  BY AloneUse
<1>2. UNCHANGED <<disk, mem>>
  BY KeysStepKeepsQueue DEF KeysStep, vars
<1>3. /\ app[t].pc = "none" /\ s \notin minted
      /\ app'[t].pc = "pair" /\ app'[t].cand = Identity(s, TRUE)
      /\ app'[t].prev = identity
      /\ minted' = minted \cup {s} /\ identity' = Identity(s, TRUE) /\ UNCHANGED <<token, kept>>
  BY <1>1, MoveIntent
<1>4. identity' # None /\ identity'.scope = s /\ app'[t].cand.scope = s
  BY <1>3, IdentityUse
<1>5. disk.scope = None /\ ~disk.purging /\ ~mem[t].clearing /\ s \notin disk.retired
  BY <1>1, <1>3 DEF AloneAt, Stands, ScopesMinted
<1>6. ScopesMinted' /\ PiecesInv'
  BY <1>1, <1>2, <1>3, <1>4, <1>5 DEF ScopesMinted, PiecesInv
<1>7. Resumable(app[t].prev)' /\ Resumable(app[t].cand)'
  BY <1>1, <1>2, <1>3, <1>4, <1>5 DEF AloneAt, Stands, Resumable, At
<1>8. Stands(t)' /\ SessionKept(t)'
  BY <1>1, <1>2, <1>3, <1>4, <1>5, <1>7 DEF AloneAt, Stands, SessionKept, At
<1> QED BY <1>2, <1>6, <1>8, AloneMoves

LEMMA AlonePairBind ==
    ASSUME Alone, AloneInv, NEW t \in Tabs, PairBind(t)
    PROVE  AloneRest'
<1>1. AppTyped /\ ScopesMinted /\ PiecesInv /\ AloneAt(t)
  BY AloneUse
<1>2. app[t].pc = "pair" /\ app'[t].cand = app[t].cand /\ app'[t].prev = app[t].prev
      /\ UNCHANGED <<identity, minted, token, kept>> /\ app[t].cand.scope \in Scopes
  BY <1>1, MovePairBind
<1>3. identity = app[t].cand
  BY <1>1, <1>2 DEF AloneAt, Stands
<1>4. CASE Bind(t, app[t].cand.scope, TRUE) /\ app'[t].pc = "commit"
  BY <1>2, <1>3, <1>4, AloneBind
<1>5. CASE app'[t].pc = "rollback" /\ UNCHANGED vars
  <2>1. UNCHANGED <<disk, mem>>
    BY <1>5 DEF vars
  <2>2. ScopesMinted' /\ PiecesInv'
    BY <1>1, <1>2, <2>1 DEF ScopesMinted, PiecesInv
  <2>3. Stands(t)' /\ SessionKept(t)'
    BY <1>1, <1>2, <1>5, <2>1 DEF AloneAt, Stands, Resumable, SessionKept, At
  <2> QED BY <2>1, <2>2, <2>3, AloneMoves
<1> QED BY <1>1, <1>4, <1>5, MovePairBind

\* The intent is withdrawn, or stays to be resumed at the next start.
LEMMA AloneRollback ==
    ASSUME Alone, AloneInv, NEW t \in Tabs, PairRollback(t)
    PROVE  AloneRest'
<1>1. AppTyped /\ ScopesMinted /\ PiecesInv /\ AloneAt(t)
  BY AloneUse
<1>2. UNCHANGED <<disk, mem>>
  BY KeysStepKeepsQueue DEF KeysStep, vars
<1>3. app[t].pc = "rollback" /\ app'[t].pc = "none" /\ UNCHANGED <<token, kept, minted>>
      /\ identity' \in {app[t].cand, app[t].prev}
  BY <1>1, MoveRollback DEF AloneAt, Stands, At
<1>4. Resumable(identity)' /\ disk.scope = None /\ ~disk.purging /\ ~mem[t].clearing
  BY <1>1, <1>2, <1>3 DEF AloneAt, Stands, Resumable
<1>5. ScopesMinted' /\ PiecesInv'
  BY <1>1, <1>2, <1>3, <1>4 DEF ScopesMinted, PiecesInv, Resumable
<1>6. Stands(t)' /\ SessionKept(t)'
  BY <1>1, <1>2, <1>3, <1>4 DEF AloneAt, Stands, SessionKept, At
<1> QED BY <1>2, <1>5, <1>6, AloneMoves

\* A removal, a read or the acknowledgement fails; only the last one, once the
\* keys are gone, leaves a session that no retry will close.
LEMMA AloneBreaks ==
    ASSUME Alone, AloneInv, NEW t \in Tabs, BreaksOff(t)
    PROVE  AloneRest'
<1>1. AppTyped /\ ScopesMinted /\ PiecesInv /\ AloneAt(t)
  BY AloneUse
<1>2. UNCHANGED <<disk, mem>>
  BY KeysStepKeepsQueue DEF KeysStep, vars
<1>3. app'[t].pc = "error" /\ UNCHANGED <<identity, token, minted>> /\ kept \subseteq kept'
  BY <1>1, BreaksOffEffect
<1>4. ScopesMinted' /\ PiecesInv'
  BY <1>1, <1>2, <1>3 DEF ScopesMinted, PiecesInv
<1>5. Stands(t)'
  BY <1>3 DEF Stands, At
<1>6. SessionKept(t)'
  <2>1. CASE RestoreFails(t)
    BY <1>1, <1>3, <2>1 DEF RestoreFails, AloneAt, SessionKept, At
  <2>2. CASE PurgeFails(t)
    BY <1>1, <1>3, <2>2 DEF PurgeFails, AloneAt, SessionKept, Stands, At
  <2>3. CASE CompleteFails(t)
    BY <1>1, <1>3, <2>3 DEF CompleteFails, AloneAt, SessionKept, At
  <2> QED BY <2>1, <2>2, <2>3 DEF BreaksOff
<1> QED BY <1>2, <1>4, <1>5, <1>6, AloneMoves

LEMMA AloneFails ==
    ASSUME Alone, AloneInv, NEW t \in Tabs, WriteFails(t)
    PROVE  AloneRest'
<1>1. AppTyped /\ ScopesMinted /\ PiecesInv /\ AloneAt(t)
      /\ (app[t].pc \in {"rewrite", "commit"} => mem[t].bound = app[t].cand.scope)
  BY AloneUse
<1>2. UNCHANGED <<disk, mem>>
  BY KeysStepKeepsQueue DEF KeysStep, vars
<1>3. /\ ~Working(t) /\ UNCHANGED <<identity, token, kept, minted>>
      /\ \/ app[t].pc = "commit" /\ app'[t].pc = "none"
         \/ app[t].pc = "rewrite" /\ app'[t].pc = "error"
  BY <1>1, MoveFails DEF Alone
<1>4. ASSUME app[t].pc = "commit" PROVE FALSE
  <2>1. mem[t].bound \in Scopes /\ mem[t].bound # None
    BY <1>1, <1>4, AppUse, SyncQueueAssumption
  <2>2. mem[t].open
    BY <1>1, <1>4 DEF AppTyped, At
  <2> QED BY <1>1, <1>3, <1>4, <2>1, <2>2 DEF Working, Ready, AloneAt, Stands
<1>5. app[t].pc = "rewrite" /\ app'[t].pc = "error"
  BY <1>3, <1>4
<1>6. ScopesMinted' /\ PiecesInv'
  BY <1>1, <1>2, <1>3 DEF ScopesMinted, PiecesInv
<1>7. Stands(t)' /\ SessionKept(t)'
  BY <1>1, <1>2, <1>3, <1>5 DEF AloneAt, Stands, SessionKept, At
<1> QED BY <1>2, <1>6, <1>7, AloneMoves

LEMMA AloneForget ==
    ASSUME Alone, AloneInv, NEW t \in Tabs, Forget(t)
    PROVE  AloneRest'
<1>1. AppTyped /\ IndType /\ ScopesMinted /\ PiecesInv /\ AloneAt(t) /\ Tabs = {t}
  BY AloneUse
<1>2. /\ app[t].pc = "on" /\ app'[t].pc = "clear" /\ app'[t].dev = app[t].dev
      /\ UNCHANGED <<identity, token, kept, minted>> /\ ClearBegin(t)
  BY <1>1, MoveForget
<1>3. /\ disk' = disk
      /\ mem'[t].bound = mem[t].bound /\ mem'[t].epoch = mem[t].epoch
      /\ mem'[t].purging = mem[t].purging /\ mem'[t].invalid = mem[t].invalid
  BY <1>1, <1>2, ClearBeginEffect
<1>4. ScopesMinted' /\ PiecesInv'
  BY <1>1, <1>2, <1>3 DEF ScopesMinted, PiecesInv
<1>5. AloneAt(t)'
  BY <1>1, <1>2, <1>3 DEF AloneAt, Stands, SessionKept, At, InScope
<1> QED BY <1>1, <1>4, <1>5 DEF AloneRest

LEMMA AloneForgetClear ==
    ASSUME Alone, AloneInv, NEW t \in Tabs, ForgetClear(t)
    PROVE  AloneRest'
<1>1. AppTyped /\ IndType /\ DocumentInv /\ ScopesMinted /\ PiecesInv /\ AloneAt(t) /\ Tabs = {t}
  BY AloneUse
<1>2. app[t].pc = "clear" /\ UNCHANGED <<identity, token, kept, minted>>
  BY <1>1, MoveForgetClear
<1>3. identity # None /\ identity.scope = app[t].dev /\ mem[t].bound = app[t].dev
  BY <1>1, <1>2 DEF AloneAt, Stands
<1>4. CASE ClearCommit(t) /\ app'[t].pc = "purge"
  <2>1. /\ disk'.scope = None /\ disk'.purging /\ disk.scope = mem[t].bound
        /\ disk'.retired = disk.retired \cup {mem[t].bound}
        /\ mem'[t].bound = None /\ mem'[t].invalid = mem[t].invalid
    BY <1>1, <1>4, ClearCommitEffect
  <2>2. disk.scope # None
    BY <1>4, <2>1 DEF ClearCommit, Ready
  <2>3. ScopesMinted' /\ PiecesInv'
    BY <1>1, <1>2, <1>3, <2>1, <2>2 DEF ScopesMinted, PiecesInv
  <2>4. AloneAt(t)'
    BY <1>1, <1>2, <1>4, <2>1 DEF AloneAt, Stands, SessionKept, At
  <2> QED BY <1>1, <2>3, <2>4 DEF AloneRest
<1>5. CASE (ClearRefused(t) \/ ClearFails(t)) /\ app'[t].pc = "error"
  <2>1. /\ disk' = disk
        /\ mem'[t].bound = mem[t].bound /\ mem'[t].epoch = mem[t].epoch
        /\ mem'[t].purging = mem[t].purging /\ mem'[t].invalid = mem[t].invalid
    BY <1>1, <1>5, ClearEndEffect
  <2>2. ScopesMinted' /\ PiecesInv'
    BY <1>1, <1>2, <2>1 DEF ScopesMinted, PiecesInv
  <2>3. AloneAt(t)'
    BY <1>1, <1>2, <1>5, <2>1 DEF AloneAt, Stands, SessionKept, At, InScope
  <2> QED BY <1>1, <2>2, <2>3 DEF AloneRest
<1> QED BY <1>1, <1>4, <1>5, MoveForgetClear

LEMMA AloneStart ==
    ASSUME Alone, AloneInv, NEW t \in Tabs, Boot(t) \/ Retry(t) \/ Crash(t)
    PROVE  AloneRest'
<1>1. AppTyped /\ IndType /\ ScopesMinted /\ PiecesInv /\ AloneAt(t) /\ Tabs = {t}
  BY AloneUse
<1>2. ASSUME Boot(t) \/ Crash(t), disk' = disk, mem'[t].bound = None, ~mem'[t].invalid,
             ~mem'[t].purging, UNCHANGED <<identity, minted>>, app'[t].pc \in {"boot", "off"},
             token'[t] = None
      PROVE  AloneRest'
  <2>1. ScopesMinted' /\ PiecesInv'
    BY <1>1, <1>2 DEF ScopesMinted, PiecesInv
  <2>2. AloneAt(t)'
    BY <1>2 DEF AloneAt, Stands, SessionKept, At
  <2> QED BY <1>1, <2>1, <2>2 DEF AloneRest
<1>3. CASE Boot(t)
  <2>1. Open(t) /\ ~mem[t].open /\ app'[t].pc = "boot" /\ UNCHANGED <<identity, minted, token, kept>>
    BY <1>1, <1>3, MoveStart DEF Boot, Open
  <2>2. app[t].pc = "off"
    BY <1>1, <2>1 DEF AppTyped, At
  <2>3. token[t] = None
    BY <1>1, <2>2 DEF AloneAt, SessionKept, At
  <2> QED BY <1>1, <1>2, <1>3, <2>1, <2>3, OpenEffect, MemOfNew
<1>4. CASE Crash(t)
  BY <1>1, <1>2, <1>4, MoveCrash, CloseEffect, MemOfNew
<1>5. CASE Retry(t)
  <2>1. /\ app[t].pc = "error" /\ app'[t].pc = "boot" /\ UNCHANGED <<disk, mem>>
        /\ UNCHANGED <<identity, minted, token, kept>>
    BY <1>1, <1>5, MoveStart DEF Retry, At, vars
  <2>2. ScopesMinted' /\ PiecesInv'
    BY <1>1, <2>1 DEF ScopesMinted, PiecesInv
  <2>3. Stands(t)' /\ SessionKept(t)'
    BY <1>1, <2>1 DEF AloneAt, Stands, SessionKept, At
  <2> QED BY <2>1, <2>2, <2>3, AloneMoves
<1> QED BY <1>3, <1>4, <1>5

LEMMA AloneWork ==
    ASSUME Alone, AloneInv, NEW t \in Tabs,
           PinLogin(t) \/ Lock(t) \/ Heartbeat(t) \/ SaveData(t) \/ Sell(t)
    PROVE  AloneRest'
<1>1. AppTyped /\ IndType /\ ScopesMinted /\ PiecesInv /\ AloneAt(t)
  BY AloneUse
<1>2. app[t].pc = "on" /\ UNCHANGED <<app, minted>>
  BY <1>1, MoveWork
<1>3. identity # None /\ identity.scope = app[t].dev /\ mem[t].bound = app[t].dev
  BY <1>1, <1>2 DEF AloneAt, Stands
<1>4. CASE Sell(t)
  <2>1. SamePairing /\ UNCHANGED <<identity, token, kept>>
    BY <1>1, <1>4, WorkKeepsPairing DEF Sell, appVars
  <2> QED BY <1>2, <2>1, AloneKept
<1>5. CASE PinLogin(t) \/ Lock(t) \/ Heartbeat(t) \/ SaveData(t)
  <2>1. UNCHANGED <<disk, mem>>
    BY <1>5, KeysStepKeepsQueue DEF KeysStep, vars
  <2>2. CASE PinLogin(t)
    <3>1. token'[t] = app[t].dev /\ identity' = identity
      BY <1>1, <2>2 DEF PinLogin, Session, AppTyped
    <3>2. app[t].dev # None => disk.scope = app[t].dev
      BY <1>1, <1>3 DEF AloneAt, InScope
    <3>3. ScopesMinted' /\ PiecesInv'
      BY <1>1, <1>2, <2>1, <3>1 DEF ScopesMinted, PiecesInv
    <3>4. Stands(t)' /\ SessionKept(t)'
      BY <1>1, <1>2, <1>3, <2>1, <3>1, <3>2 DEF AloneAt, Stands, SessionKept, At
    <3> QED BY <2>1, <3>3, <3>4, AloneMoves
  <2>3. CASE Lock(t) \/ SaveData(t)
    <3>1. (token'[t] = None \/ (token'[t] = token[t] /\ kept' = kept)) /\ identity' = identity
      BY <1>1, <2>3 DEF Lock, SaveData, Session, AppTyped
    <3>2. SamePairing
      BY <2>1 DEF SamePairing
    <3> QED BY <1>2, <3>1, <3>2, AloneKept
  <2>4. CASE Heartbeat(t)
    <3>1. identity' = Identity(mem[t].bound, FALSE) /\ UNCHANGED <<token, kept>>
          /\ mem[t].bound # None
      BY <2>4 DEF Heartbeat, Working, Ready
    <3>2. mem[t].bound \in Scopes
      BY <1>1, <3>1, MemUse
    <3>3. identity' # None /\ identity'.scope = identity.scope
      BY <1>3, <3>1, <3>2, IdentityUse
    <3>4. ScopesMinted' /\ PiecesInv'
      BY <1>1, <1>2, <1>3, <2>1, <3>3 DEF ScopesMinted, PiecesInv
    <3>5. Stands(t)' /\ SessionKept(t)'
      BY <1>1, <1>2, <1>3, <2>1, <3>1, <3>3 DEF AloneAt, Stands, SessionKept, At
    <3> QED BY <2>1, <3>4, <3>5, AloneMoves
  <2> QED BY <1>5, <2>2, <2>3, <2>4
<1> QED BY <1>4, <1>5

LEMMA AloneBackground ==
    ASSUME Alone, AloneInv, NEW t \in Tabs, Background(t)
    PROVE  AloneRest'
<1>1. AppTyped /\ IndType /\ AloneAt(t)
  BY AloneUse
<1>2. SamePairing /\ UNCHANGED <<identity, token, kept, minted>>
      /\ (app' = app \/ mem'[t].invalid)
  BY <1>1, MoveBackground, WorkKeepsPairing
<1>3. ~mem'[t].invalid
  BY <1>1, <1>2 DEF SamePairing, AloneAt, Stale, Ready
<1> QED BY <1>2, <1>3, AloneKept

LEMMA AloneStep ==
    ASSUME Alone, AloneInv, [PairingNext]_allVars
    PROVE  AloneRest'
<1>1. CASE UNCHANGED allVars
  BY <1>1 DEF allVars, vars, appVars, AloneInv, AloneRest, ScopesMinted, PiecesInv, AloneAt,
              InScope, Resumable, Stands, SessionKept, At
<1>2. CASE LateStep
  <2>1. SamePairing /\ UNCHANGED appVars
    BY <1>2, LateKeepsPairing DEF LateStep
  <2>2. CASE \E t \in Tabs : TRUE
    BY <2>1, <2>2, AloneKept DEF appVars
  <2>3. CASE ~\E t \in Tabs : TRUE
    BY <2>1, <2>3 DEF appVars, SamePairing, AloneInv, AloneRest, ScopesMinted, PiecesInv
  <2> QED BY <2>2, <2>3
<1> QED BY <1>1, <1>2, PairingSteps, AloneRestore, AloneRestoreBind, AloneWrite, AlonePurge,
           AloneComplete, AloneIntent, AlonePairBind, AloneFails, AloneForget, AloneForgetClear,
           AloneStart, AloneWork, AloneBackground, AloneRollback, AloneBreaks DEF WindowStep

LEMMA AloneInit == PairingInit => AloneRest
BY DEF PairingInit, Init, AloneRest, ScopesMinted, PiecesInv, AloneAt, Stands, SessionKept, At,
       InScope, EmptyDisk, Closed, Off

\* The invariant of a till with one window.
THEOREM AloneInvariant == Alone => (PairingSpec => []AloneInv)
<1> SUFFICES ASSUME Alone PROVE PairingSpec => []AloneInv
  OBVIOUS
<1>1. PairingInit /\ PairingIInv => AloneInv
  BY AloneInit DEF AloneInv
<1>2. AloneInv /\ PairingIInv' /\ [PairingNext]_allVars => AloneInv'
  BY AloneStep DEF AloneInv
<1> QED BY <1>1, <1>2, PairingInvariant, PTL DEF PairingSpec

\* client.ts, forgetPairedDevice(): in a till with one window, the member's
\* session leaves with the pairing it was opened for, whatever refusal, crash or
\* failed purge cuts the unpairing, unless completeClear() itself has failed.
THEOREM SessionLeavesWithDevice == Alone => (PairingSpec => []SessionFollowsDevice)
<1> SUFFICES ASSUME Alone PROVE PairingSpec => []SessionFollowsDevice
  OBVIOUS
<1>1. AloneInv => SessionFollowsDevice
  BY DEF AloneInv, AloneRest, AloneAt, Stands, SessionKept, SessionFollowsDevice, At
<1> QED BY <1>1, AloneInvariant, PTL

\* client.ts, loadPairedDevice(): in a till with one window, the queue's
\* document, the identity and the business keys agree at every step, and a power
\* cut between any two writes leaves a device that can restart.
THEOREM PiecesAlwaysAgree == Alone => (PairingSpec => []PiecesAgree)
<1> SUFFICES ASSUME Alone PROVE PairingSpec => []PiecesAgree
  OBVIOUS
<1>1. ASSUME AloneInv PROVE PiecesAgree
  <2>1. PairingTyped /\ PiecesInv /\ UnboundIsEmpty
    BY <1>1 DEF AloneInv, AloneRest, PairingIInv, PairingTyped, DeliveryInv, DocumentInv
  <2>2. PairingTypeOK
    BY <2>1 DEF PairingTyped, AppTyped, App, PairingTypeOK, DeliveryInv, DocumentInv, IndType
  <2>3. Bootable
    BY <2>1 DEF PiecesInv, Bootable, UnboundIsEmpty, HasMatter
  <2>4. PurgeAcknowledged /\ ScopeKeepsIdentity /\ IntentCanResume
    BY <2>1 DEF PiecesInv, PurgeAcknowledged, ScopeKeepsIdentity, IntentCanResume
  <2> QED BY <2>2, <2>3, <2>4 DEF PiecesAgree, PowerCutRecovers
<1> QED BY <1>1, AloneInvariant, PTL

\* In a till with one window, a request leaves with another token than that of
\* the pairing it was entered for only if an unpairing has broken off in
\* completeClear() since the session was opened.
OwnTokenOnly ==
    [][\A t \in Tabs :
         flush'[t].pc = "wait" /\ flush[t].pc # "wait"
             => token[t] \in {None, owner[flush'[t].cur]} \/ t \in kept]_allVars

\* client.ts, setToken: in a till with one window, of the exceptions of
\* NoCrossTenantSend only the one of SessionFollowsDevice is left.
THEOREM AloneSendsForOwner == Alone => (PairingSpec => OwnTokenOnly)
<1> SUFFICES ASSUME Alone PROVE PairingSpec => OwnTokenOnly
  OBVIOUS
<1>1. ASSUME AloneInv, [PairingNext]_allVars, NEW t \in Tabs,
             flush'[t].pc = "wait", flush[t].pc # "wait"
      PROVE  token[t] \in {None, owner[flush'[t].cur]} \/ t \in kept
  <2>1. AppTyped /\ IndType /\ AloneAt(t) /\ PassesOn /\ PassesOwned
    BY <1>1, AloneUse DEF AloneInv, PairingIInv
  <2>2. flush[t].pc = "guard" /\ flush'[t].cur = flush[t].cur
    BY <1>1, <2>1, PairingQueueStep, OnlySendWaits
  <2>3. app[t].pc = "on" /\ owner[flush[t].cur] = mem[t].bound /\ mem[t].bound = app[t].dev
    BY <2>1, <2>2 DEF PassesOn, PassesOwned, Owned, At
  <2>4. token[t] \in {None, app[t].dev} \/ t \in kept
    BY <2>1, <2>3 DEF AloneAt, Stands, SessionKept, At
  <2> QED BY <2>2, <2>3, <2>4
<1>2. AloneInv /\ [PairingNext]_allVars
        => [\A t \in Tabs :
              flush'[t].pc = "wait" /\ flush[t].pc # "wait"
                  => token[t] \in {None, owner[flush'[t].cur]} \/ t \in kept]_allVars
  BY <1>1
<1> QED BY <1>2, AloneInvariant, PTL DEF PairingSpec, OwnTokenOnly

=============================================================================
