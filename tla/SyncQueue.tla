------------------------------ MODULE SyncQueue ------------------------------
(***************************************************************************)
(* The offline queue of the till and of the kitchen screen                 *)
(* (packages/client-core/src/sync-queue.ts).  Every sale is written to one *)
(* document of the device's storage before the network is tried, and       *)
(* leaves it only on a verdict of the server.  Several windows of the same *)
(* browser profile share that document: each one is a process below, and   *)
(* the storage lock (withStoreLock) makes every read-modify-write of the   *)
(* document one step.  Network calls happen outside the lock.              *)
(*                                                                         *)
(* The queue is a set of entries; `before' remembers the order in which    *)
(* they were accepted, which the code never changes.                       *)
(*                                                                         *)
(* A definition introduced as "Mutation" is a plausible mistake in the one *)
(* it precedes; no specification uses it.                                  *)
(***************************************************************************)
EXTENDS Naturals

CONSTANTS
    Tabs,          \* windows of the device, each one an instance of SyncQueue
    Scopes,        \* pairing generations ("pair:<uuid>")
    Entries,       \* mutations the staff may enter, each with its own id
    None,          \* null
    Subject,       \* the subject of each entry, None when it has none
    RequireEmpty   \* clear({requireEmpty}): TRUE on the till, FALSE in the kitchen

ASSUME SyncQueueAssumption ==
    /\ None \notin Scopes
    /\ None \notin Entries
    /\ RequireEmpty \in BOOLEAN

VARIABLES
    disk,       \* the durable document (PersistedQueueV2)
    mem,        \* the fields of each window's SyncQueue
    flush,      \* the network pass each window is in
    late,       \* requests nobody waits for any more, which may still arrive
    applied,    \* entries the server has applied
    refused,    \* entries the server has refused at least once
    accepted,   \* entries whose enqueue() resolved
    before,     \* what was already accepted when an entry was
    owner,      \* the pairing an entry was accepted under
    acked,      \* refusals the manager has acknowledged
    dropped     \* entries and refusals discarded by an unprotected clear()

serverVars == <<applied, refused>>
pastVars == <<accepted, before, owner, acked, dropped>>
vars == <<disk, mem, flush, late, serverVars, pastVars>>

-----------------------------------------------------------------------------
(* States.                                                                 *)

\* A window that is not running, and one whose queue was just constructed.
Closed == [open |-> FALSE, bound |-> None, epoch |-> 0, retired |-> {},
           purging |-> FALSE, clearing |-> FALSE, closing |-> FALSE,
           invalid |-> FALSE, shown |-> {}]
Started == [Closed EXCEPT !.open = TRUE]

NoFlush == [pc |-> "idle", todo |-> {}, cur |-> None, answer |-> "none",
            sent |-> {}, temp |-> {}, perm |-> {}]

EmptyDisk == [epoch |-> 0, scope |-> None, retired |-> {}, purging |-> FALSE,
              entries |-> {}, rejected |-> {}]

Init ==
    /\ disk = EmptyDisk
    /\ mem = [t \in Tabs |-> Closed]
    /\ flush = [t \in Tabs |-> NoFlush]
    /\ late = {} /\ applied = {} /\ refused = {}
    /\ accepted = {} /\ acked = {} /\ dropped = {}
    /\ before = [e \in Entries |-> {}]
    /\ owner = [e \in Entries |-> None]

-----------------------------------------------------------------------------
(* The scope: the pairing a window works for, against the durable one.     *)

\* Mutation: the durable scope is not read again before a commit.
InScopeUnchecked(t) == TRUE

\* refreshBeforeMutation / assertDurableScope: nothing changed underneath.
InScope(t) == mem[t].epoch = disk.epoch /\ mem[t].bound = disk.scope

\* ensureScopeReady: the window runs, is not invalidated and has a pairing.
Ready(t) == mem[t].open /\ ~mem[t].invalid /\ mem[t].bound # None

\* Another window has moved the durable scope under this one.
Stale(t) == Ready(t) /\ ~InScope(t)

\* A mutation may be committed by this window.
Working(t) == Ready(t) /\ ~mem[t].clearing /\ InScope(t)

\* The window's memory after a read of the document under the lock.
Refreshed(t) == [mem[t] EXCEPT !.shown = disk.rejected,
                               !.retired = disk.retired,
                               !.purging = disk.purging]

\* The request a window is waiting on; nobody reads its answer once the
\* window has moved on, but it may still reach the server.
InFlight(t) ==
    {e \in {flush[t].cur} : flush[t].pc = "wait" /\ flush[t].answer = "none"}

\* The pass is over, or detached: the next flush() starts another one.
\* Mutation: the pass is never detached.
StopFlushForgets(t) == UNCHANGED flush

StopFlush(t) == flush' = [flush EXCEPT ![t] = NoFlush]

\* invalidateScope: found out by any operation that re-reads the document, or
\* by the storage event another window's write raises.
ScopeLost(t) ==
    /\ Stale(t)
    /\ mem' = [mem EXCEPT ![t].invalid = TRUE, ![t].closing = FALSE]
    /\ StopFlush(t)
    /\ late' = late \cup InFlight(t)
    /\ UNCHANGED <<disk, serverVars, pastVars>>

\* bindScope(scope, {freshPairing}) and runBindScope.  A scope other than the
\* durable one, a retired scope, an unfinished purge, or a fresh pairing over
\* unclaimed entries is refused.  The snapshot is written only when the scope
\* changes, with the purge flag of this window's memory.
CanBind(t, s, fresh) ==
    /\ mem[t].open /\ ~mem[t].invalid
    /\ mem[t].bound # s
    /\ mem[t].bound = None \/ fresh
    /\ s \notin disk.retired
    /\ ~disk.purging
    /\ disk.scope \in {None, s}
    /\ fresh /\ disk.scope = None => disk.entries \cup disk.rejected = {}

Bind(t, s, fresh) ==
    /\ CanBind(t, s, fresh)
    /\ disk' = [disk EXCEPT
                  !.scope = s,
                  !.purging = IF disk.scope = s THEN @ ELSE mem[t].purging]
    /\ mem' = [mem EXCEPT ![t].bound = s, ![t].epoch = disk.epoch,
                          ![t].retired = disk.retired, ![t].purging = FALSE,
                          ![t].shown = disk.rejected]
    /\ UNCHANGED <<flush, late, serverVars, pastVars>>

-----------------------------------------------------------------------------
(* Mutations.                                                              *)

\* flush(): the pass is published before its first await, one per window.
AskFlush(t) ==
    flush' = [flush EXCEPT ![t].pc = IF @ = "idle" THEN "asked" ELSE @]

\* enqueue(): resolves once the snapshot that holds the entry is durable, and
\* asks for a pass.
Enqueue(t, e) ==
    /\ e \notin accepted
    /\ Working(t)
    /\ disk' = [disk EXCEPT !.entries = @ \cup {e}]
    /\ mem' = [mem EXCEPT ![t] = Refreshed(t)]
    /\ accepted' = accepted \cup {e}
    /\ before' = [before EXCEPT ![e] = accepted]
    /\ owner' = [owner EXCEPT ![e] = mem[t].bound]
    /\ AskFlush(t)
    /\ UNCHANGED <<late, serverVars, acked, dropped>>

\* acquitterRejets(): the manager's gesture removes the refusals this window
\* displays, and no other.
Acknowledge(t) ==
    /\ Working(t)
    /\ mem[t].shown # {}
    /\ disk' = [disk EXCEPT !.rejected = @ \ mem[t].shown]
    /\ mem' = [mem EXCEPT ![t] = [Refreshed(t) EXCEPT
                                    !.shown = disk.rejected \ mem[t].shown]]
    /\ acked' = acked \cup (disk.rejected \cap mem[t].shown)
    /\ UNCHANGED <<flush, late, serverVars, accepted, before, owner, dropped>>

-----------------------------------------------------------------------------
(* The network pass: asked -> pick -> guard -> wait -> pick ... -> idle.   *)

\* useAutoSync: every fifteen seconds and when the network comes back.
Tick(t) ==
    /\ Ready(t) /\ flush[t].pc = "idle"
    /\ AskFlush(t)
    /\ UNCHANGED <<disk, mem, late, serverVars, pastVars>>

\* runFlushLifecycle: photograph the durable queue, another window's entries
\* included; nothing to do, or a clear in progress, ends the pass.
FlushStart(t) ==
    /\ Ready(t) /\ flush[t].pc = "asked" /\ InScope(t)
    /\ mem' = [mem EXCEPT ![t] = Refreshed(t)]
    /\ flush' = [flush EXCEPT ![t] =
                   IF mem[t].clearing \/ disk.entries = {} THEN NoFlush
                   ELSE [NoFlush EXCEPT !.pc = "pick", !.todo = disk.entries]]
    /\ UNCHANGED <<disk, late, serverVars, pastVars>>

\* The next entry in the order they were accepted.
FlushPick(t) ==
    /\ Ready(t) /\ flush[t].pc = "pick"
    /\ \E e \in flush[t].todo :
         /\ before[e] \cap flush[t].todo = {}
         /\ flush' = [flush EXCEPT ![t].pc = "guard", ![t].cur = e,
                                   ![t].todo = @ \ {e}]
    /\ UNCHANGED <<disk, mem, late, serverVars, pastVars>>

\* Mutations: nothing is held back; whatever is still queued holds back.
BlockedNever(t, e) == FALSE
BlockedByQueue(t, e) ==
    Subject[e] # None /\ \E d \in disk.entries : Subject[d] = Subject[e]

\* A temporary failure holds back what follows on the same subject.
Blocked(t, e) ==
    Subject[e] # None /\ \E d \in flush[t].temp : Subject[d] = Subject[e]

FlushSkip(t) ==
    /\ Ready(t) /\ flush[t].pc = "guard" /\ InScope(t)
    /\ Blocked(t, flush[t].cur)
    /\ flush' = [flush EXCEPT ![t].pc = "pick", ![t].cur = None]
    /\ UNCHANGED <<disk, mem, late, serverVars, pastVars>>

\* assertDurableScope, then send: the request leaves with the window's token.
FlushSend(t) ==
    /\ Ready(t) /\ flush[t].pc = "guard" /\ InScope(t)
    /\ ~Blocked(t, flush[t].cur)
    /\ flush' = [flush EXCEPT ![t].pc = "wait", ![t].answer = "none"]
    /\ UNCHANGED <<disk, mem, late, serverVars, pastVars>>

\* sendQueued classifies the answer.  The server's upsert on the client id
\* makes a replay of an applied entry succeed; what it refuses now it may
\* accept later (a product back on the menu), and the reverse.
Answer(t, a) == flush' = [flush EXCEPT ![t].answer = a]

ServerApplies(t) ==
    /\ InFlight(t) # {}
    /\ applied' = applied \cup InFlight(t)
    /\ Answer(t, "sent")
    /\ UNCHANGED <<disk, mem, late, refused, pastVars>>

ServerRefuses(t) ==
    /\ InFlight(t) # {} /\ flush[t].cur \notin applied
    /\ refused' = refused \cup InFlight(t)
    /\ Answer(t, "permanent")
    /\ UNCHANGED <<disk, mem, late, applied, pastVars>>

\* 5xx, 429, 401, no network, or an answer lost on its way back: temporary.
\* A request that got no answer may still be on its way.
NetworkFails(t) ==
    /\ flush[t].pc = "wait" /\ flush[t].answer # "temporary"
    /\ late' = late \cup InFlight(t)
    /\ Answer(t, "temporary")
    /\ UNCHANGED <<disk, mem, serverVars, pastVars>>

\* A request nobody waits for reaches the server, or never does.
LateArrives(e) ==
    /\ e \in late
    /\ late' = late \ {e}
    /\ \/ applied' = applied \cup {e} /\ UNCHANGED refused
       \/ e \notin applied /\ refused' = refused \cup {e} /\ UNCHANGED applied
       \/ UNCHANGED serverVars
    /\ UNCHANGED <<disk, mem, flush, pastVars>>

\* The answer is recorded only if the pairing is still the durable one.
FlushReads(t) ==
    /\ Ready(t) /\ flush[t].pc = "wait" /\ InScope(t)
    /\ flush[t].answer # "none"
    /\ LET e == flush[t].cur
           Got(a) == IF flush[t].answer = a THEN {e} ELSE {}
       IN  flush' = [flush EXCEPT
                       ![t].pc = "pick", ![t].cur = None, ![t].answer = "none",
                       ![t].sent = @ \cup Got("sent"),
                       ![t].temp = @ \cup Got("temporary"),
                       ![t].perm = @ \cup Got("permanent")]
    /\ UNCHANGED <<disk, mem, late, serverVars, pastVars>>

\* Mutations: refusals stay queued; temporary failures leave as well.
LeavingRefusedStay(t) == flush[t].sent
LeavingAll(t) == flush[t].sent \cup flush[t].perm \cup flush[t].temp

Leaving(t) == flush[t].sent \cup flush[t].perm

\* Mutation: what the server refuses is dropped without a trace.
RefusalsUntraced(t) == {}

\* Only entries still queued have an outcome to record.
Refusals(t) == disk.entries \cap flush[t].perm

\* One snapshot moves what was sent out of the queue and what was refused to
\* the journal of refusals.
FlushCommit(t) ==
    /\ Ready(t) /\ flush[t].pc = "pick" /\ flush[t].todo = {} /\ InScope(t)
    /\ LET next == disk.rejected \cup Refusals(t)
       IN  /\ disk' = [disk EXCEPT !.entries = @ \ Leaving(t),
                                   !.rejected = next]
           /\ mem' = [mem EXCEPT ![t] = [Refreshed(t) EXCEPT !.shown = next]]
    /\ StopFlush(t)
    /\ UNCHANGED <<late, serverVars, pastVars>>

\* The storage is full: nothing is published, the next pass starts again.
FlushCommitFails(t) ==
    /\ Ready(t) /\ flush[t].pc = "pick" /\ flush[t].todo = {} /\ InScope(t)
    /\ mem' = [mem EXCEPT ![t] = Refreshed(t)]
    /\ StopFlush(t)
    /\ UNCHANGED <<disk, late, serverVars, pastVars>>

-----------------------------------------------------------------------------
(* Unpairing.                                                              *)

\* clear(): the generation moves before the first await, so the pass under
\* way is detached.  A pass that is already past its generation check still
\* sends the entry it has picked.
ClearBegin(t) ==
    /\ Ready(t) /\ ~mem[t].closing
    /\ mem' = [mem EXCEPT ![t].clearing = TRUE, ![t].closing = TRUE]
    /\ LET picked == {e \in {flush[t].cur} :
                        flush[t].pc = "guard" /\ InScope(t) /\ ~Blocked(t, e)}
       IN  late' = late \cup InFlight(t) \cup picked
    /\ StopFlush(t)
    /\ UNCHANGED <<disk, serverVars, pastVars>>

\* Mutation: requireEmpty looks at the queue alone.
HasEntries == disk.entries # {}

HasMatter == disk.entries \cup disk.rejected # {}

\* Mutations: the scope is not retired, only it is, or it is read too late.
GoneKept(t) == mem[t].retired
GoneAlone(t) == {mem[t].bound}
GoneReset(t) == mem[t].retired \cup {None}

\* The scopes no window may ever bind again.
Gone(t) == mem[t].retired \cup {mem[t].bound}

\* runClear: a tombstone replaces the snapshot and retires the scope; the next
\* pairing waits for completeClear().
ClearCommit(t) ==
    /\ Ready(t) /\ mem[t].closing /\ InScope(t)
    /\ ~(RequireEmpty /\ HasMatter)
    /\ disk' = [epoch |-> disk.epoch + 1, scope |-> None, retired |-> Gone(t),
                purging |-> TRUE, entries |-> {}, rejected |-> {}]
    /\ mem' = [mem EXCEPT ![t].bound = None, ![t].epoch = disk.epoch + 1,
                          ![t].retired = Gone(t), ![t].purging = TRUE,
                          ![t].closing = FALSE, ![t].shown = {}]
    /\ dropped' = dropped \cup disk.entries \cup disk.rejected
    /\ UNCHANGED <<flush, late, serverVars, accepted, before, owner, acked>>

\* QueueContainsUnsyncedDataError: the queue goes back to work.
ClearRefused(t) ==
    /\ Ready(t) /\ mem[t].closing /\ InScope(t)
    /\ RequireEmpty /\ HasMatter
    /\ mem' = [mem EXCEPT ![t].clearing = FALSE, ![t].closing = FALSE]
    /\ UNCHANGED <<disk, flush, late, serverVars, pastVars>>

\* Any other failure leaves the window closed to new entries.
ClearFails(t) ==
    /\ Ready(t) /\ mem[t].closing
    /\ mem' = [mem EXCEPT ![t].closing = FALSE]
    /\ UNCHANGED <<disk, flush, late, serverVars, pastVars>>

\* Mutation: the memory always keeps the purge flag it had.
ReopenedOnly(t) == [mem[t] EXCEPT !.bound = None, !.clearing = FALSE]

\* When another window has already lifted the tombstone, this one is only
\* reopened: its memory keeps the purge flag it had.
Reopened(t) ==
    IF disk.purging
    THEN [mem[t] EXCEPT !.bound = None, !.epoch = disk.epoch,
            !.retired = disk.retired, !.purging = FALSE,
            !.clearing = FALSE, !.shown = disk.rejected]
    ELSE [mem[t] EXCEPT !.clearing = FALSE]

\* completeClear(): lifts the tombstone.
CompleteClear(t) ==
    /\ mem[t].open /\ disk.scope = None
    /\ disk' = [disk EXCEPT !.purging = FALSE]
    /\ mem' = [mem EXCEPT ![t] = Reopened(t)]
    /\ UNCHANGED <<flush, late, serverVars, pastVars>>

-----------------------------------------------------------------------------
(* Windows come and go; a crash and a closed window are the same step.     *)

Open(t) ==
    /\ ~mem[t].open
    /\ mem' = [mem EXCEPT ![t] = Started]
    /\ UNCHANGED <<disk, flush, late, serverVars, pastVars>>

Close(t) ==
    /\ mem[t].open
    /\ mem' = [mem EXCEPT ![t] = Closed]
    /\ StopFlush(t)
    /\ late' = late \cup InFlight(t)
    /\ UNCHANGED <<disk, serverVars, pastVars>>

\* What the queue does by itself.
Pass(t) ==
    \/ Tick(t) \/ FlushStart(t) \/ FlushPick(t) \/ FlushSkip(t) \/ FlushSend(t)
    \/ FlushReads(t) \/ FlushCommit(t) \/ FlushCommitFails(t)
    \/ ServerApplies(t) \/ ServerRefuses(t) \/ NetworkFails(t)
    \/ ScopeLost(t)

\* What the staff and the application ask of it.
Use(t) ==
    \/ \E e \in Entries : Enqueue(t, e)
    \/ Acknowledge(t)
    \/ ClearBegin(t) \/ ClearCommit(t) \/ ClearRefused(t) \/ ClearFails(t)

\* What the application asks of it over a pairing's life (DevicePairing).
Life(t) ==
    \/ \E s \in Scopes, fresh \in BOOLEAN : Bind(t, s, fresh)
    \/ CompleteClear(t)
    \/ Open(t) \/ Close(t)

Next ==
    \/ \E t \in Tabs : Pass(t) \/ Use(t) \/ Life(t)
    \/ \E e \in Entries : LateArrives(e)

Spec == Init /\ [][Next]_vars
-----------------------------------------------------------------------------
(* Properties.                                                             *)

DiskType == [epoch : Nat, scope : Scopes \cup {None}, retired : SUBSET Scopes,
             purging : BOOLEAN, entries : SUBSET Entries,
             rejected : SUBSET Entries]
MemType == [open : BOOLEAN, bound : Scopes \cup {None}, epoch : Nat,
            retired : SUBSET Scopes, purging : BOOLEAN, clearing : BOOLEAN,
            closing : BOOLEAN, invalid : BOOLEAN, shown : SUBSET Entries]
FlushType == [pc : {"idle", "asked", "pick", "guard", "wait"},
              todo : SUBSET Entries, cur : Entries \cup {None},
              answer : {"none", "sent", "permanent", "temporary"},
              sent : SUBSET Entries, temp : SUBSET Entries,
              perm : SUBSET Entries]

\* Every variable holds what the code can store in it.
TypeOK ==
    /\ disk \in DiskType
    /\ mem \in [Tabs -> MemType]
    /\ flush \in [Tabs -> FlushType]
    /\ late \subseteq Entries /\ applied \subseteq Entries
    /\ refused \subseteq Entries /\ accepted \subseteq Entries
    /\ before \in [Entries -> SUBSET Entries]
    /\ owner \in [Entries -> Scopes \cup {None}]
    /\ acked \subseteq Entries /\ dropped \subseteq Entries

\* "aucune commande perdue": an entry the staff was told is recorded is queued,
\* kept as a refusal, applied by the server, or was acknowledged by the
\* manager; only the kitchen's unprotected clear() may discard one.
NoSaleLost ==
    /\ accepted \subseteq
         disk.entries \cup disk.rejected \cup applied \cup acked \cup dropped
    /\ RequireEmpty => dropped = {}

\* The order of the mutations of one subject survives windows, retries and
\* crashes: when the server has applied an entry, it has ruled on every earlier
\* one of the same subject (unless a clear() discarded it).
Precedes(d, e) ==
    d \in before[e] /\ Subject[d] # None /\ Subject[d] = Subject[e]
OrderPerSubject ==
    \A e \in applied, d \in Entries :
        Precedes(d, e) => d \in applied \cup refused \cup dropped

\* parseState() refuses, for ever, a document in which one id is both queued
\* and refused: no interleaving of two windows' commits may write one.
SnapshotReadable == disk.entries \cap disk.rejected = {}

\* What the document holds belongs to the pairing it is bound to: the sales of
\* one restaurant never reappear under the next.
MatterBelongsToScope ==
    \A e \in disk.entries \cup disk.rejected : owner[e] = disk.scope

\* What a window finds when it reads the document: something parseState()
\* accepts, entered under the pairing the document is bound to.
DocumentSound == TypeOK /\ SnapshotReadable /\ MatterBelongsToScope

\* A closed pairing never comes back, whatever a stale window still remembers
\* of the retired list when it writes.
RetiredForGood ==
    [][/\ disk.retired \subseteq disk'.retired
       /\ disk'.scope \notin disk.retired]_vars

\* An entry leaves the queue only on a verdict of the server, and a refusal
\* leaves the journal only from a window that displays it.
LeavesOnVerdict ==
    [][dropped' = dropped =>
        /\ disk.entries \ disk'.entries \subseteq applied \cup refused
        /\ \A e \in disk.rejected \ disk'.rejected :
             \E t \in Tabs : Ready(t) /\ e \in mem[t].shown]_vars

\* The queue implements the abstract outbox: whatever the windows interleave,
\* the staff sees accept, apply or refuse in order, settle, acknowledge.
Outbox == INSTANCE SaleOutbox WITH queued <- disk.entries,
                                   rejected <- disk.rejected,
                                   Protected <- RequireEmpty
ImplementsOutbox == Outbox!Spec

-----------------------------------------------------------------------------
(* Progress.                                                               *)

\* What the code's scheduling gives: the timer of useAutoSync, and promises
\* that resolve once the lock is free.
PassRuns(t) ==
    /\ WF_vars(Tick(t)) /\ WF_vars(FlushStart(t)) /\ WF_vars(FlushPick(t))
    /\ WF_vars(FlushSkip(t)) /\ WF_vars(FlushSend(t)) /\ WF_vars(FlushReads(t))
    /\ WF_vars(FlushCommit(t) \/ FlushCommitFails(t))
    /\ WF_vars(ServerApplies(t) \/ NetworkFails(t))

\* What the shop gives: the network is not cut at every answer for ever, the
\* storage not full at every commit that has something to record, and one
\* window ends up staying open on its pairing.
GoodEnough ==
    /\ \A t \in Tabs :
         /\ SF_vars(ServerApplies(t) \/ ServerRefuses(t))
         /\ SF_vars(FlushReads(t) /\ flush[t].answer # "temporary")
         /\ SF_vars(FlushCommit(t) /\ flush[t].sent \cup flush[t].perm # {})
    /\ \E t \in Tabs : <>[](Ready(t) /\ ~mem[t].clearing)

FairSpec == Spec /\ (\A t \in Tabs : PassRuns(t)) /\ GoodEnough

\* Every entry ends up with a verdict: no window, blocked subject, failed
\* commit or crash leaves one in the queue for ever.
EventuallySettled ==
    \A e \in Entries : e \in disk.entries ~> e \notin disk.entries

=============================================================================
