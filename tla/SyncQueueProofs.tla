-------------------------- MODULE SyncQueueProofs ---------------------------
(***************************************************************************)
(* Proofs of what SyncQueue guarantees, for any number of windows,         *)
(* pairings, entries and subjects: first the types, then the inductive     *)
(* invariant, in two layers.  DocumentInv is about the durable document and*)
(* each window's copy of its epoch and retired list.  DeliveryInv adds the *)
(* passes: what a pass has still to send, is sending or holds to be        *)
(* decided, and what the server knows.  Both are shown one action at a     *)
(* time; the safety properties and the refinement of SaleOutbox follow.    *)
(***************************************************************************)
EXTENDS SyncQueue, TLAPS

\* A pass that has picked an entry names it.
CurIsEntry ==
    \A t \in Tabs : flush[t].pc \in {"guard", "wait"} => flush[t].cur \in Entries

IndType == TypeOK /\ CurIsEntry

-----------------------------------------------------------------------------
(* Updating one window's record keeps the types.                           *)

LEMMA TypeUse ==
    ASSUME IndType, NEW t \in Tabs
    PROVE  /\ disk \in DiskType /\ mem[t] \in MemType /\ flush[t] \in FlushType
           /\ mem \in [Tabs -> MemType] /\ flush \in [Tabs -> FlushType]
           /\ late \subseteq Entries
           /\ InFlight(t) \subseteq Entries
           /\ flush[t].pc \in {"guard", "wait"} => flush[t].cur \in Entries
BY DEF IndType, TypeOK, CurIsEntry, InFlight

LEMMA SetFlush ==
    ASSUME IndType, NEW t \in Tabs, NEW r \in FlushType,
           r.pc \in {"guard", "wait"} => r.cur \in Entries,
           flush' = [flush EXCEPT ![t] = r]
    PROVE  flush' \in [Tabs -> FlushType] /\ CurIsEntry'
BY DEF IndType, TypeOK, CurIsEntry

LEMMA SetMem ==
    ASSUME IndType, NEW t \in Tabs, NEW r \in MemType,
           mem' = [mem EXCEPT ![t] = r]
    PROVE  mem' \in [Tabs -> MemType]
BY DEF IndType, TypeOK

LEMMA NoFlushType == NoFlush \in FlushType /\ NoFlush.pc = "idle"
BY DEF NoFlush, FlushType

LEMMA StopFlushType ==
    ASSUME IndType, NEW t \in Tabs, StopFlush(t)
    PROVE  flush' \in [Tabs -> FlushType] /\ CurIsEntry'
<1>1. flush' = [flush EXCEPT ![t] = NoFlush]
  BY DEF StopFlush
<1> QED
  BY <1>1, NoFlushType, SetFlush

LEMMA RefreshedType ==
    ASSUME IndType, NEW t \in Tabs, NEW x \in SUBSET Entries
    PROVE  /\ Refreshed(t) \in MemType
           /\ [Refreshed(t) EXCEPT !.shown = x] \in MemType
BY TypeUse DEF Refreshed, MemType, DiskType

\* The pass asked for, when none is under way.
LEMMA AskFlushType ==
    ASSUME IndType, NEW t \in Tabs, AskFlush(t)
    PROVE  flush' \in [Tabs -> FlushType] /\ CurIsEntry'
<1> DEFINE r == [flush[t] EXCEPT !.pc = IF @ = "idle" THEN "asked" ELSE @]
<1>1. /\ r \in FlushType
      /\ r.pc \in {"guard", "wait"} => r.cur \in Entries
  BY TypeUse DEF FlushType
<1>2. flush' = [flush EXCEPT ![t] = r]
  BY DEF AskFlush
<1> HIDE DEF r
<1> QED
  BY <1>1, <1>2, SetFlush

\* An answer is recorded for the request under way.
LEMMA AnswerType ==
    ASSUME IndType, NEW t \in Tabs,
           NEW a \in {"none", "sent", "permanent", "temporary"}, Answer(t, a)
    PROVE  flush' \in [Tabs -> FlushType] /\ CurIsEntry'
<1> DEFINE r == [flush[t] EXCEPT !.answer = a]
<1>1. /\ r \in FlushType
      /\ r.pc \in {"guard", "wait"} => r.cur \in Entries
  BY TypeUse DEF FlushType
<1>2. flush' = [flush EXCEPT ![t] = r]
  BY DEF Answer
<1> HIDE DEF r
<1> QED
  BY <1>1, <1>2, SetFlush

-----------------------------------------------------------------------------
(* Type correctness.                                                       *)

\* The initial state is well typed.
LEMMA InitType == Init => IndType
<1> SUFFICES ASSUME Init PROVE IndType
  OBVIOUS
<1> QED
  BY DEF Init, IndType, TypeOK, CurIsEntry, DiskType, MemType, FlushType,
         EmptyDisk, Closed, NoFlush

\* The steps of a pass.
LEMMA TickType ==
    ASSUME IndType, NEW t \in Tabs, Tick(t)
    PROVE  IndType'
<1>1. flush' \in [Tabs -> FlushType] /\ CurIsEntry'
  BY AskFlushType DEF Tick
<1> QED
  BY <1>1 DEF Tick, IndType, TypeOK, CurIsEntry, serverVars, pastVars

LEMMA FlushStartType ==
    ASSUME IndType, NEW t \in Tabs, FlushStart(t)
    PROVE  IndType'
<1> DEFINE r == IF mem[t].clearing \/ disk.entries = {} THEN NoFlush
               ELSE [NoFlush EXCEPT !.pc = "pick", !.todo = disk.entries]
<1>1. /\ r \in FlushType
      /\ r.pc \in {"guard", "wait"} => r.cur \in Entries
  BY TypeUse DEF FlushType, DiskType, NoFlush
<1>2. flush' = [flush EXCEPT ![t] = r]
  BY DEF FlushStart
<1> HIDE DEF r
<1>3. flush' \in [Tabs -> FlushType] /\ CurIsEntry'
  BY <1>1, <1>2, SetFlush
<1>4. mem' \in [Tabs -> MemType]
  BY RefreshedType, SetMem DEF FlushStart
<1> QED
  BY <1>3, <1>4 DEF FlushStart, IndType, TypeOK, CurIsEntry, serverVars, pastVars

LEMMA FlushPickType ==
    ASSUME IndType, NEW t \in Tabs, FlushPick(t)
    PROVE  IndType'
<1>0. PICK e \in flush[t].todo :
        flush' = [flush EXCEPT ![t].pc = "guard", ![t].cur = e,
                               ![t].todo = @ \ {e}]
  BY DEF FlushPick
<1> DEFINE r == [flush[t] EXCEPT !.pc = "guard", !.cur = e, !.todo = @ \ {e}]
<1>1. /\ r \in FlushType
      /\ r.pc \in {"guard", "wait"} => r.cur \in Entries
  BY TypeUse, <1>0 DEF FlushType
<1>2. flush' = [flush EXCEPT ![t] = r]
  BY <1>0
<1> HIDE DEF r
<1>3. flush' \in [Tabs -> FlushType] /\ CurIsEntry'
  BY <1>1, <1>2, SetFlush
<1> QED
  BY <1>3 DEF FlushPick, IndType, TypeOK, CurIsEntry, serverVars, pastVars

LEMMA FlushSkipType ==
    ASSUME IndType, NEW t \in Tabs, FlushSkip(t)
    PROVE  IndType'
<1> DEFINE r == [flush[t] EXCEPT !.pc = "pick", !.cur = None]
<1>1. /\ r \in FlushType
      /\ r.pc \in {"guard", "wait"} => r.cur \in Entries
  BY TypeUse DEF FlushType
<1>2. flush' = [flush EXCEPT ![t] = r]
  BY TypeUse DEF FlushSkip
<1> HIDE DEF r
<1>3. flush' \in [Tabs -> FlushType] /\ CurIsEntry'
  BY <1>1, <1>2, SetFlush
<1> QED
  BY <1>3 DEF FlushSkip, IndType, TypeOK, CurIsEntry, serverVars, pastVars

LEMMA FlushSendType ==
    ASSUME IndType, NEW t \in Tabs, FlushSend(t)
    PROVE  IndType'
<1> DEFINE r == [flush[t] EXCEPT !.pc = "wait", !.answer = "none"]
<1>1. /\ r \in FlushType
      /\ r.pc \in {"guard", "wait"} => r.cur \in Entries
  BY TypeUse DEF FlushType, FlushSend
<1>2. flush' = [flush EXCEPT ![t] = r]
  BY TypeUse DEF FlushSend
<1> HIDE DEF r
<1>3. flush' \in [Tabs -> FlushType] /\ CurIsEntry'
  BY <1>1, <1>2, SetFlush
<1> QED
  BY <1>3 DEF FlushSend, IndType, TypeOK, CurIsEntry, serverVars, pastVars

LEMMA FlushReadsType ==
    ASSUME IndType, NEW t \in Tabs, FlushReads(t)
    PROVE  IndType'
<1> DEFINE Got(a) == IF flush[t].answer = a THEN {flush[t].cur} ELSE {}
<1>0. flush[t].cur \in Entries
  BY TypeUse DEF FlushReads
<1> DEFINE r == [flush[t] EXCEPT !.pc = "pick", !.cur = None, !.answer = "none",
                            !.sent = @ \cup Got("sent"),
                            !.temp = @ \cup Got("temporary"),
                            !.perm = @ \cup Got("permanent")]
<1>1. /\ r \in FlushType
      /\ r.pc \in {"guard", "wait"} => r.cur \in Entries
  BY ZenonT(60), TypeUse, <1>0 DEF FlushType
<1>2. flush' = [flush EXCEPT ![t] = r]
  BY TypeUse, <1>0 DEF FlushReads
<1> HIDE DEF r
<1>3. flush' \in [Tabs -> FlushType] /\ CurIsEntry'
  BY <1>1, <1>2, SetFlush
<1> QED
  BY <1>3 DEF FlushReads, IndType, TypeOK, CurIsEntry, serverVars, pastVars

LEMMA FlushCommitType ==
    ASSUME IndType, NEW t \in Tabs, FlushCommit(t)
    PROVE  IndType'
<1>1. flush' \in [Tabs -> FlushType] /\ CurIsEntry'
  BY StopFlushType DEF FlushCommit
<1> DEFINE next == disk.rejected \cup (disk.entries \cap flush[t].perm)
<1>2. next \in SUBSET Entries
  BY TypeUse DEF DiskType
<1>3. mem' \in [Tabs -> MemType]
  BY <1>2, RefreshedType, SetMem DEF FlushCommit, Refusals
<1>4. disk' \in DiskType
  BY TypeUse DEF FlushCommit, Leaving, Refusals, DiskType
<1> QED
  BY <1>1, <1>3, <1>4 DEF FlushCommit, IndType, TypeOK, CurIsEntry, serverVars, pastVars

LEMMA FlushCommitFailsType ==
    ASSUME IndType, NEW t \in Tabs, FlushCommitFails(t)
    PROVE  IndType'
<1>1. flush' \in [Tabs -> FlushType] /\ CurIsEntry'
  BY StopFlushType DEF FlushCommitFails
<1>2. mem' \in [Tabs -> MemType]
  BY RefreshedType, SetMem DEF FlushCommitFails
<1> QED
  BY <1>1, <1>2 DEF FlushCommitFails, IndType, TypeOK, CurIsEntry, serverVars, pastVars

LEMMA ServerAppliesType ==
    ASSUME IndType, NEW t \in Tabs, ServerApplies(t)
    PROVE  IndType'
<1>1. flush' \in [Tabs -> FlushType] /\ CurIsEntry'
  BY AnswerType DEF ServerApplies
<1> QED
  BY <1>1, TypeUse DEF ServerApplies, IndType, TypeOK, CurIsEntry, serverVars, pastVars

LEMMA ServerRefusesType ==
    ASSUME IndType, NEW t \in Tabs, ServerRefuses(t)
    PROVE  IndType'
<1>1. flush' \in [Tabs -> FlushType] /\ CurIsEntry'
  BY AnswerType DEF ServerRefuses
<1> QED
  BY <1>1, TypeUse DEF ServerRefuses, IndType, TypeOK, CurIsEntry, serverVars, pastVars

LEMMA NetworkFailsType ==
    ASSUME IndType, NEW t \in Tabs, NetworkFails(t)
    PROVE  IndType'
<1>1. flush' \in [Tabs -> FlushType] /\ CurIsEntry'
  BY AnswerType DEF NetworkFails
<1> QED
  BY <1>1, TypeUse DEF NetworkFails, IndType, TypeOK, CurIsEntry, serverVars, pastVars

LEMMA ScopeLostType ==
    ASSUME IndType, NEW t \in Tabs, ScopeLost(t)
    PROVE  IndType'
<1>1. flush' \in [Tabs -> FlushType] /\ CurIsEntry'
  BY StopFlushType DEF ScopeLost
<1> DEFINE q == [mem[t] EXCEPT !.invalid = TRUE, !.closing = FALSE]
<1>2. q \in MemType
  BY TypeUse DEF MemType, DiskType
<1>3. mem' = [mem EXCEPT ![t] = q]
  BY DEF ScopeLost
<1> HIDE DEF q
<1>4. mem' \in [Tabs -> MemType]
  BY <1>2, <1>3, SetMem
<1> QED
  BY <1>1, <1>4, TypeUse DEF ScopeLost, IndType, TypeOK, CurIsEntry, serverVars, pastVars

\* A request that was left to itself.
LEMMA LateArrivesType ==
    ASSUME IndType, NEW e \in Entries, LateArrives(e)
    PROVE  IndType'
BY DEF LateArrives, IndType, TypeOK, CurIsEntry, serverVars, pastVars

\* What the staff and the application ask.
LEMMA EnqueueType ==
    ASSUME IndType, NEW t \in Tabs, NEW e \in Entries, Enqueue(t, e)
    PROVE  IndType'
<1>1. flush' \in [Tabs -> FlushType] /\ CurIsEntry'
  BY AskFlushType DEF Enqueue
<1>2. mem' \in [Tabs -> MemType]
  BY RefreshedType, SetMem DEF Enqueue
<1>3. disk' \in DiskType
  BY TypeUse DEF Enqueue, DiskType
<1>4. mem[t].bound \in Scopes \cup {None}
  BY TypeUse DEF MemType
<1> QED
  BY <1>1, <1>2, <1>3, <1>4 DEF Enqueue, IndType, TypeOK, CurIsEntry, serverVars, pastVars

LEMMA AcknowledgeType ==
    ASSUME IndType, NEW t \in Tabs, Acknowledge(t)
    PROVE  IndType'
<1>1. disk.rejected \ mem[t].shown \in SUBSET Entries
  BY TypeUse DEF DiskType
<1>2. mem' \in [Tabs -> MemType]
  BY <1>1, RefreshedType, SetMem DEF Acknowledge
<1>3. disk' \in DiskType
  BY TypeUse DEF Acknowledge, DiskType
<1>4. disk.rejected \subseteq Entries
  BY TypeUse DEF DiskType
<1> QED
  BY <1>2, <1>3, <1>4 DEF Acknowledge, IndType, TypeOK, CurIsEntry, serverVars, pastVars

LEMMA ClearBeginType ==
    ASSUME IndType, NEW t \in Tabs, ClearBegin(t)
    PROVE  IndType'
<1>1. flush' \in [Tabs -> FlushType] /\ CurIsEntry'
  BY StopFlushType DEF ClearBegin
<1> DEFINE q == [mem[t] EXCEPT !.clearing = TRUE, !.closing = TRUE]
<1>2. q \in MemType
  BY TypeUse DEF MemType, DiskType
<1>3. mem' = [mem EXCEPT ![t] = q]
  BY DEF ClearBegin
<1> HIDE DEF q
<1>4. mem' \in [Tabs -> MemType]
  BY <1>2, <1>3, SetMem
<1>5. late' \subseteq Entries
  BY TypeUse DEF ClearBegin
<1> QED
  BY <1>1, <1>4, <1>5 DEF ClearBegin, IndType, TypeOK, CurIsEntry, serverVars, pastVars

LEMMA ClearCommitType ==
    ASSUME IndType, NEW t \in Tabs, ClearCommit(t)
    PROVE  IndType'
<1>1. Gone(t) \in SUBSET Scopes /\ disk.epoch + 1 \in Nat
  BY TypeUse DEF ClearCommit, Ready, Gone, MemType, DiskType
<1> DEFINE q == [mem[t] EXCEPT !.bound = None, !.epoch = disk.epoch + 1,
                          !.retired = Gone(t), !.purging = TRUE,
                          !.closing = FALSE, !.shown = {}]
<1>2. q \in MemType
  BY TypeUse, <1>1 DEF MemType
<1>3. mem' = [mem EXCEPT ![t] = q]
  BY DEF ClearCommit
<1> HIDE DEF q
<1>4. mem' \in [Tabs -> MemType]
  BY <1>2, <1>3, SetMem
<1>5. disk' \in DiskType
  BY TypeUse, <1>1 DEF ClearCommit, DiskType
<1>6. disk.entries \cup disk.rejected \subseteq Entries
  BY TypeUse DEF DiskType
<1> QED
  BY <1>4, <1>5, <1>6 DEF ClearCommit, IndType, TypeOK, CurIsEntry, serverVars, pastVars

LEMMA ClearRefusedType ==
    ASSUME IndType, NEW t \in Tabs, ClearRefused(t)
    PROVE  IndType'
<1> DEFINE q == [mem[t] EXCEPT !.clearing = FALSE, !.closing = FALSE]
<1>1. q \in MemType
  BY TypeUse DEF MemType, DiskType
<1>2. mem' = [mem EXCEPT ![t] = q]
  BY DEF ClearRefused
<1> HIDE DEF q
<1>3. mem' \in [Tabs -> MemType]
  BY <1>1, <1>2, SetMem
<1> QED
  BY <1>3 DEF ClearRefused, IndType, TypeOK, CurIsEntry, serverVars, pastVars

LEMMA ClearFailsType ==
    ASSUME IndType, NEW t \in Tabs, ClearFails(t)
    PROVE  IndType'
<1> DEFINE q == [mem[t] EXCEPT !.closing = FALSE]
<1>1. q \in MemType
  BY TypeUse DEF MemType, DiskType
<1>2. mem' = [mem EXCEPT ![t] = q]
  BY DEF ClearFails
<1> HIDE DEF q
<1>3. mem' \in [Tabs -> MemType]
  BY <1>1, <1>2, SetMem
<1> QED
  BY <1>3 DEF ClearFails, IndType, TypeOK, CurIsEntry, serverVars, pastVars

\* The life of a window.
LEMMA BindType ==
    ASSUME IndType, NEW t \in Tabs, NEW s \in Scopes, NEW fresh \in BOOLEAN, Bind(t, s, fresh)
    PROVE  IndType'
<1> DEFINE q == [mem[t] EXCEPT !.bound = s, !.epoch = disk.epoch,
                          !.retired = disk.retired, !.purging = FALSE,
                          !.shown = disk.rejected]
<1>1. q \in MemType
  BY TypeUse DEF MemType, DiskType
<1>2. mem' = [mem EXCEPT ![t] = q]
  BY DEF Bind
<1> HIDE DEF q
<1>3. mem' \in [Tabs -> MemType]
  BY <1>1, <1>2, SetMem
<1>4. disk' \in DiskType
  BY TypeUse DEF Bind, DiskType, MemType
<1> QED
  BY <1>3, <1>4 DEF Bind, IndType, TypeOK, CurIsEntry, serverVars, pastVars

LEMMA CompleteClearType ==
    ASSUME IndType, NEW t \in Tabs, CompleteClear(t)
    PROVE  IndType'
<1>1. Reopened(t) \in MemType
  BY TypeUse DEF Reopened, MemType, DiskType
<1>2. mem' \in [Tabs -> MemType]
  BY <1>1, SetMem DEF CompleteClear
<1>3. disk' \in DiskType
  BY TypeUse DEF CompleteClear, DiskType
<1> QED
  BY <1>2, <1>3 DEF CompleteClear, IndType, TypeOK, CurIsEntry, serverVars, pastVars

LEMMA OpenType ==
    ASSUME IndType, NEW t \in Tabs, Open(t)
    PROVE  IndType'
<1>1. Started \in MemType
  BY DEF Started, Closed, MemType
<1>2. mem' \in [Tabs -> MemType]
  BY <1>1, SetMem DEF Open
<1> QED
  BY <1>2 DEF Open, IndType, TypeOK, CurIsEntry, serverVars, pastVars

LEMMA CloseType ==
    ASSUME IndType, NEW t \in Tabs, Close(t)
    PROVE  IndType'
<1>1. flush' \in [Tabs -> FlushType] /\ CurIsEntry'
  BY StopFlushType DEF Close
<1>2. Closed \in MemType
  BY DEF Closed, MemType
<1>3. mem' \in [Tabs -> MemType]
  BY <1>2, SetMem DEF Close
<1> QED
  BY <1>1, <1>3, TypeUse DEF Close, IndType, TypeOK, CurIsEntry, serverVars, pastVars

\* Every step keeps the types.
LEMMA NextType == IndType /\ [Next]_vars => IndType'
<1> SUFFICES ASSUME IndType, [Next]_vars PROVE IndType'
  OBVIOUS
<1>1. ASSUME NEW t \in Tabs, Pass(t) PROVE IndType'
  BY <1>1, TickType, FlushStartType, FlushPickType, FlushSkipType,
     FlushSendType, FlushReadsType, FlushCommitType, FlushCommitFailsType,
     ServerAppliesType, ServerRefusesType, NetworkFailsType, ScopeLostType
     DEF Pass
<1>2. ASSUME NEW t \in Tabs, Use(t) PROVE IndType'
  BY <1>2, EnqueueType, AcknowledgeType, ClearBeginType, ClearCommitType,
     ClearRefusedType, ClearFailsType DEF Use
<1>3. ASSUME NEW t \in Tabs, Life(t) PROVE IndType'
  BY <1>3, BindType, CompleteClearType, OpenType, CloseType DEF Life
<1>4. ASSUME NEW e \in Entries, LateArrives(e) PROVE IndType'
  BY <1>4, LateArrivesType
<1>5. CASE UNCHANGED vars
  BY <1>5 DEF vars, serverVars, pastVars, IndType, TypeOK, CurIsEntry
<1> QED
  BY <1>1, <1>2, <1>3, <1>4, <1>5 DEF Next

\* Type correctness: every variable holds what the code can store in it,
\* whatever the windows do.
THEOREM TypeCorrect == Spec => []TypeOK
<1>1. Init => IndType
  BY InitType
<1>2. IndType /\ [Next]_vars => IndType'
  BY NextType
<1>3. IndType => TypeOK
  BY DEF IndType
<1> QED
  BY <1>1, <1>2, <1>3, PTL DEF Spec

-----------------------------------------------------------------------------
(* The document.                                                           *)

\* A document bound to no pairing holds nothing.
UnboundIsEmpty == disk.scope = None => disk.entries \cup disk.rejected = {}

\* Only accepted entries are in it.
MatterWasAccepted == disk.entries \cup disk.rejected \subseteq accepted

\* The retired list moves with the epoch, and each window's copy with it.
RetiredWithEpoch ==
    /\ disk.epoch = 0 => disk.retired = {}
    /\ disk.scope \notin disk.retired
    /\ \A t \in Tabs : /\ mem[t].epoch <= disk.epoch
                       /\ mem[t].epoch = disk.epoch => mem[t].retired = disk.retired

DocumentInv ==
    /\ IndType
    /\ UnboundIsEmpty /\ MatterWasAccepted
    /\ MatterBelongsToScope /\ RetiredWithEpoch

\* Windows that keep their epoch, or take the document's with its retired list.
LEMMA EpochKept ==
    ASSUME DocumentInv, NEW t \in Tabs, NEW r \in MemType,
           mem' = [mem EXCEPT ![t] = r],
           \/ r.epoch = mem[t].epoch /\ r.retired = mem[t].retired
           \/ r.epoch = mem[t].epoch /\ r.retired = disk.retired
           \/ r.epoch = disk.epoch /\ r.retired = disk.retired
           \/ r.epoch = 0 /\ r.retired = {},
           disk'.epoch = disk.epoch, disk'.retired = disk.retired,
           disk'.scope \notin disk.retired
    PROVE  RetiredWithEpoch'
<1>1. /\ disk.epoch \in Nat
      /\ \A u \in Tabs : mem[u].epoch \in Nat
  BY DEF DocumentInv, IndType, TypeOK, DiskType, MemType
<1>2. /\ disk.epoch = 0 => disk.retired = {}
      /\ \A u \in Tabs : /\ mem[u].epoch <= disk.epoch
                         /\ mem[u].epoch = disk.epoch => mem[u].retired = disk.retired
  BY DEF DocumentInv, RetiredWithEpoch
<1>3. mem'[t] = r /\ \A u \in Tabs : u # t => mem'[u] = mem[u]
  BY DEF DocumentInv, IndType, TypeOK
<1>4. ASSUME NEW u \in Tabs
      PROVE  /\ mem'[u].epoch <= disk.epoch
             /\ mem'[u].epoch = disk.epoch => mem'[u].retired = disk.retired
  <2>1. CASE u = t
    <3>1. /\ r.epoch <= disk.epoch
          /\ r.epoch = disk.epoch => r.retired = disk.retired
      <4>1. /\ mem[t].epoch \in Nat /\ disk.epoch \in Nat
            /\ mem[t].epoch <= disk.epoch
            /\ mem[t].epoch = disk.epoch => mem[t].retired = disk.retired
        BY <1>1, <1>2
      <4>2. disk.epoch <= disk.epoch /\ 0 <= disk.epoch
        BY <4>1
      <4>3. r.epoch <= disk.epoch
        BY <4>1, <4>2
      <4>4. r.epoch = disk.epoch => r.retired = disk.retired
        BY <4>1, <1>2, Zenon
      <4> QED
        BY <4>3, <4>4
    <3> QED
      BY <1>3, <2>1, <3>1
  <2>2. CASE u # t
    BY <1>2, <1>3, <2>2
  <2> QED
    BY <2>1, <2>2
<1> QED
  BY <1>2, <1>4 DEF RetiredWithEpoch

\* A commit inside the scope adds nothing that is not this pairing's.
LEMMA MatterKept ==
    ASSUME DocumentInv, UNCHANGED <<accepted, owner>>,
           disk'.scope = disk.scope,
           disk'.entries \cup disk'.rejected \subseteq disk.entries \cup disk.rejected
    PROVE  UnboundIsEmpty' /\ MatterWasAccepted' /\ MatterBelongsToScope'
BY DEF DocumentInv, UnboundIsEmpty, MatterWasAccepted, MatterBelongsToScope

LEMMA RefreshedEpoch ==
    ASSUME IndType, NEW t \in Tabs, NEW x \in SUBSET Entries
    PROVE  LET r == [Refreshed(t) EXCEPT !.shown = x]
           IN  /\ r \in MemType
               /\ r.epoch = mem[t].epoch /\ r.retired = disk.retired
               /\ Refreshed(t).epoch = mem[t].epoch
               /\ Refreshed(t).retired = disk.retired
BY TypeUse, RefreshedType DEF Refreshed, MemType

\* What a step does to the document's place in time: nothing.
SamePlace ==
    /\ disk'.epoch = disk.epoch /\ disk'.retired = disk.retired
    /\ disk'.scope = disk.scope

\* A step that leaves the document alone.
LEMMA DocumentUntouched ==
    ASSUME DocumentInv, IndType', UNCHANGED <<disk, accepted, owner>>,
           UNCHANGED mem
    PROVE  DocumentInv'
BY DEF DocumentInv, UnboundIsEmpty, MatterWasAccepted, MatterBelongsToScope,
       RetiredWithEpoch

\* A step that changes one window's memory, not the document.
LEMMA DocumentMem ==
    ASSUME DocumentInv, IndType', UNCHANGED <<disk, accepted, owner>>,
           NEW t \in Tabs, NEW r \in MemType, mem' = [mem EXCEPT ![t] = r],
           \/ r.epoch = mem[t].epoch /\ r.retired = mem[t].retired
           \/ r.epoch = mem[t].epoch /\ r.retired = disk.retired
           \/ r.epoch = 0 /\ r.retired = {}
    PROVE  DocumentInv'
<1>1. RetiredWithEpoch'
  BY EpochKept DEF DocumentInv, RetiredWithEpoch
<1>2. UnboundIsEmpty' /\ MatterWasAccepted' /\ MatterBelongsToScope'
  BY MatterKept
<1> QED
  BY <1>1, <1>2 DEF DocumentInv

LEMMA EnqueueDocument ==
    ASSUME DocumentInv, NEW t \in Tabs, NEW e \in Entries, Enqueue(t, e)
    PROVE  DocumentInv'
<1>1. IndType'
  BY EnqueueType DEF DocumentInv
<1>2. UnboundIsEmpty' /\ MatterWasAccepted' /\ MatterBelongsToScope'
  BY DEF DocumentInv, IndType, TypeOK, DiskType, Enqueue, Working, Ready, InScope,
         UnboundIsEmpty, MatterWasAccepted, MatterBelongsToScope
<1>3. SamePlace
  BY TypeUse DEF DocumentInv, Enqueue, DiskType, SamePlace
<1>4. RetiredWithEpoch'
  BY <1>3, EpochKept, RefreshedType, RefreshedEpoch
     DEF DocumentInv, Enqueue, RetiredWithEpoch, SamePlace
<1> QED
  BY <1>1, <1>2, <1>4 DEF DocumentInv

LEMMA AcknowledgeDocument ==
    ASSUME DocumentInv, NEW t \in Tabs, Acknowledge(t)
    PROVE  DocumentInv'
<1>1. IndType'
  BY AcknowledgeType DEF DocumentInv
<1>2. /\ SamePlace
      /\ disk'.entries \cup disk'.rejected \subseteq disk.entries \cup disk.rejected
  BY TypeUse DEF DocumentInv, Acknowledge, DiskType, SamePlace
<1>3. UnboundIsEmpty' /\ MatterWasAccepted' /\ MatterBelongsToScope'
  BY <1>2, MatterKept DEF Acknowledge, SamePlace
<1>4. disk.rejected \ mem[t].shown \in SUBSET Entries
  BY TypeUse DEF DocumentInv, DiskType
<1>5. RetiredWithEpoch'
  BY <1>2, <1>4, EpochKept, RefreshedEpoch
     DEF DocumentInv, Acknowledge, RetiredWithEpoch, SamePlace
<1> QED
  BY <1>1, <1>3, <1>5 DEF DocumentInv

LEMMA FlushCommitDocument ==
    ASSUME DocumentInv, NEW t \in Tabs, FlushCommit(t)
    PROVE  DocumentInv'
<1>1. IndType'
  BY FlushCommitType DEF DocumentInv
<1>2. /\ SamePlace
      /\ disk'.entries \cup disk'.rejected \subseteq disk.entries \cup disk.rejected
  BY TypeUse DEF DocumentInv, FlushCommit, Refusals, DiskType, SamePlace
<1>3. UnboundIsEmpty' /\ MatterWasAccepted' /\ MatterBelongsToScope'
  BY <1>2, MatterKept DEF FlushCommit, SamePlace, pastVars
<1>4. disk.rejected \cup Refusals(t) \in SUBSET Entries
  BY TypeUse DEF DocumentInv, DiskType, Refusals
<1>5. RetiredWithEpoch'
  BY <1>2, <1>4, EpochKept, RefreshedEpoch
     DEF DocumentInv, FlushCommit, RetiredWithEpoch, SamePlace
<1> QED
  BY <1>1, <1>3, <1>5 DEF DocumentInv

\* The retired list grows by the scope that is closed, and the epoch with it:
\* no other window can still be in the scope.
LEMMA ClearCommitDocument ==
    ASSUME DocumentInv, NEW t \in Tabs, ClearCommit(t)
    PROVE  DocumentInv'
<1>1. IndType'
  BY ClearCommitType DEF DocumentInv
<1>2. /\ disk'.epoch = disk.epoch + 1 /\ disk'.retired = Gone(t)
      /\ disk'.scope = None /\ disk'.entries = {} /\ disk'.rejected = {}
  BY DEF ClearCommit
<1>3. UnboundIsEmpty' /\ MatterWasAccepted' /\ MatterBelongsToScope'
  BY <1>2 DEF UnboundIsEmpty, MatterWasAccepted, MatterBelongsToScope
<1>4. Gone(t) \subseteq Scopes /\ None \notin Gone(t)
  BY TypeUse, SyncQueueAssumption DEF DocumentInv, Gone, ClearCommit, Ready, MemType
<1>5. /\ disk.epoch \in Nat
      /\ \A u \in Tabs : mem[u].epoch \in Nat /\ mem[u].epoch <= disk.epoch
  BY DEF DocumentInv, IndType, TypeOK, DiskType, MemType, RetiredWithEpoch
<1>6. /\ mem'[t].epoch = disk.epoch + 1 /\ mem'[t].retired = Gone(t)
      /\ \A u \in Tabs : u # t => mem'[u] = mem[u]
  BY TypeUse DEF DocumentInv, ClearCommit, MemType
<1>7. ASSUME NEW u \in Tabs
      PROVE  /\ mem'[u].epoch <= disk.epoch + 1
             /\ mem'[u].epoch = disk.epoch + 1 => mem'[u].retired = Gone(t)
  <2>1. CASE u = t
    BY <1>5, <1>6, <2>1
  <2>2. CASE u # t
    BY <1>5, <1>6, <2>2
  <2> QED
    BY <2>1, <2>2
<1>8. disk.epoch + 1 # 0
  BY <1>5
<1>9. RetiredWithEpoch'
  BY <1>2, <1>4, <1>7, <1>8 DEF RetiredWithEpoch
<1> QED
  BY <1>1, <1>3, <1>9 DEF DocumentInv

LEMMA BindDocument ==
    ASSUME DocumentInv, NEW t \in Tabs, NEW s \in Scopes, NEW fresh \in BOOLEAN,
           Bind(t, s, fresh)
    PROVE  DocumentInv'
<1>1. IndType'
  BY BindType DEF DocumentInv
<1>2. /\ disk'.epoch = disk.epoch /\ disk'.retired = disk.retired
      /\ disk'.scope = s /\ s \notin disk.retired /\ disk.scope \in {None, s}
      /\ disk'.entries = disk.entries /\ disk'.rejected = disk.rejected
      /\ accepted' = accepted /\ owner' = owner
  BY TypeUse DEF DocumentInv, Bind, CanBind, DiskType, pastVars
<1>3. s # None
  BY SyncQueueAssumption
<1>4. UnboundIsEmpty' /\ MatterWasAccepted' /\ MatterBelongsToScope'
  BY <1>2, <1>3 DEF DocumentInv, UnboundIsEmpty, MatterWasAccepted, MatterBelongsToScope
<1> DEFINE q == [mem[t] EXCEPT !.bound = s, !.epoch = disk.epoch,
                          !.retired = disk.retired, !.purging = FALSE,
                          !.shown = disk.rejected]
<1>5. /\ q \in MemType /\ q.epoch = disk.epoch /\ q.retired = disk.retired
  BY TypeUse DEF DocumentInv, MemType, DiskType
<1>6. mem' = [mem EXCEPT ![t] = q]
  BY DEF Bind
<1> HIDE DEF q
<1>7. RetiredWithEpoch'
  BY <1>2, <1>5, <1>6, EpochKept
<1> QED
  BY <1>1, <1>4, <1>7 DEF DocumentInv

LEMMA CompleteClearDocument ==
    ASSUME DocumentInv, NEW t \in Tabs, CompleteClear(t)
    PROVE  DocumentInv'
<1>1. IndType'
  BY CompleteClearType DEF DocumentInv
<1>2. /\ SamePlace
      /\ disk'.entries \cup disk'.rejected \subseteq disk.entries \cup disk.rejected
  BY TypeUse DEF DocumentInv, CompleteClear, DiskType, SamePlace
<1>3. UnboundIsEmpty' /\ MatterWasAccepted' /\ MatterBelongsToScope'
  BY <1>2, MatterKept DEF CompleteClear, SamePlace, pastVars
<1>4. /\ Reopened(t) \in MemType
      /\ \/ Reopened(t).epoch = disk.epoch /\ Reopened(t).retired = disk.retired
         \/ /\ Reopened(t).epoch = mem[t].epoch
            /\ Reopened(t).retired = mem[t].retired
  BY TypeUse DEF DocumentInv, Reopened, MemType, DiskType
<1>5. RetiredWithEpoch'
  BY <1>2, <1>4, EpochKept
     DEF DocumentInv, CompleteClear, RetiredWithEpoch, SamePlace
<1> QED
  BY <1>1, <1>3, <1>5 DEF DocumentInv

\* The other steps of a pass.
LEMMA PassDocument ==
    ASSUME DocumentInv, NEW t \in Tabs, Pass(t)
    PROVE  DocumentInv'
<1>1. IndType'
  BY NextType DEF DocumentInv, Next
<1>2. CASE FlushCommit(t)
  BY <1>2, FlushCommitDocument
<1>3. CASE FlushStart(t) \/ FlushCommitFails(t)
  BY <1>1, <1>3, DocumentMem, RefreshedType, RefreshedEpoch
     DEF DocumentInv, FlushStart, FlushCommitFails, pastVars
<1>4. CASE ScopeLost(t)
  <2> DEFINE q == [mem[t] EXCEPT !.invalid = TRUE, !.closing = FALSE]
  <2>1. /\ q \in MemType
        /\ q.epoch = mem[t].epoch /\ q.retired = mem[t].retired
    BY TypeUse DEF DocumentInv, MemType
  <2>2. mem' = [mem EXCEPT ![t] = q]
    BY <1>4 DEF ScopeLost
  <2> HIDE DEF q
  <2> QED
    BY <1>1, <1>4, <2>1, <2>2, DocumentMem DEF ScopeLost, pastVars
<1>5. CASE \/ Tick(t) \/ FlushPick(t) \/ FlushSkip(t) \/ FlushSend(t)
           \/ FlushReads(t) \/ ServerApplies(t) \/ ServerRefuses(t)
           \/ NetworkFails(t)
  BY <1>1, <1>5, DocumentUntouched
     DEF Tick, FlushPick, FlushSkip, FlushSend, FlushReads, ServerApplies,
         ServerRefuses, NetworkFails, pastVars
<1> QED
  BY <1>2, <1>3, <1>4, <1>5 DEF Pass

LEMMA UseDocument ==
    ASSUME DocumentInv, NEW t \in Tabs, Use(t)
    PROVE  DocumentInv'
<1>1. IndType'
  BY NextType DEF DocumentInv, Next
<1>2. CASE ClearBegin(t)
  <2> DEFINE q == [mem[t] EXCEPT !.clearing = TRUE, !.closing = TRUE]
  <2>1. /\ q \in MemType
        /\ q.epoch = mem[t].epoch /\ q.retired = mem[t].retired
    BY TypeUse DEF DocumentInv, MemType
  <2>2. mem' = [mem EXCEPT ![t] = q]
    BY <1>2 DEF ClearBegin
  <2> HIDE DEF q
  <2> QED
    BY <1>1, <1>2, <2>1, <2>2, DocumentMem DEF ClearBegin, pastVars
<1>3. CASE ClearRefused(t)
  <2> DEFINE q == [mem[t] EXCEPT !.clearing = FALSE, !.closing = FALSE]
  <2>1. /\ q \in MemType
        /\ q.epoch = mem[t].epoch /\ q.retired = mem[t].retired
    BY TypeUse DEF DocumentInv, MemType
  <2>2. mem' = [mem EXCEPT ![t] = q]
    BY <1>3 DEF ClearRefused
  <2> HIDE DEF q
  <2> QED
    BY <1>1, <1>3, <2>1, <2>2, DocumentMem DEF ClearRefused, pastVars
<1>4. CASE ClearFails(t)
  <2> DEFINE q == [mem[t] EXCEPT !.closing = FALSE]
  <2>1. /\ q \in MemType
        /\ q.epoch = mem[t].epoch /\ q.retired = mem[t].retired
    BY TypeUse DEF DocumentInv, MemType
  <2>2. mem' = [mem EXCEPT ![t] = q]
    BY <1>4 DEF ClearFails
  <2> HIDE DEF q
  <2> QED
    BY <1>1, <1>4, <2>1, <2>2, DocumentMem DEF ClearFails, pastVars
<1> QED
  BY <1>2, <1>3, <1>4, EnqueueDocument, AcknowledgeDocument, ClearCommitDocument
     DEF Use

LEMMA LifeDocument ==
    ASSUME DocumentInv, NEW t \in Tabs, Life(t)
    PROVE  DocumentInv'
<1>1. IndType'
  BY NextType DEF DocumentInv, Next
<1>2. CASE Open(t) \/ Close(t)
  <2>1. /\ Started \in MemType /\ Started.epoch = 0 /\ Started.retired = {}
        /\ Closed \in MemType /\ Closed.epoch = 0 /\ Closed.retired = {}
    BY DEF Started, Closed, MemType
  <2> QED
    BY <1>1, <1>2, <2>1, DocumentMem DEF Open, Close, pastVars
<1> QED
  BY <1>2, BindDocument, CompleteClearDocument DEF Life

LEMMA DocumentStep == DocumentInv /\ [Next]_vars => DocumentInv'
<1> SUFFICES ASSUME DocumentInv, [Next]_vars PROVE DocumentInv'
  OBVIOUS
<1>1. IndType'
  BY NextType DEF DocumentInv
<1>2. ASSUME NEW e \in Entries, LateArrives(e) PROVE DocumentInv'
  BY <1>1, <1>2, DocumentUntouched DEF LateArrives, pastVars
<1>3. CASE UNCHANGED vars
  BY <1>1, <1>3, DocumentUntouched DEF vars, pastVars
<1> QED
  BY <1>2, <1>3, PassDocument, UseDocument, LifeDocument DEF Next

LEMMA DocumentInit == Init => DocumentInv
<1> SUFFICES ASSUME Init PROVE DocumentInv
  OBVIOUS
<1> QED
  BY InitType, SyncQueueAssumption
     DEF Init, EmptyDisk, Closed, DocumentInv, UnboundIsEmpty,
         MatterWasAccepted, MatterBelongsToScope, RetiredWithEpoch

\* The sales of one restaurant never reappear under the next.
THEOREM MatterStaysWithItsScope == Spec => []MatterBelongsToScope
<1>1. DocumentInv => MatterBelongsToScope
  BY DEF DocumentInv
<1> QED
  BY <1>1, DocumentInit, DocumentStep, PTL DEF Spec

\* A closed pairing never comes back.
LEMMA RetiredStep ==
    ASSUME DocumentInv, DocumentInv', [Next]_vars
    PROVE  disk.retired \subseteq disk'.retired /\ disk'.scope \notin disk.retired
<1>1. disk.scope \notin disk.retired /\ disk'.scope \notin disk'.retired
  BY DEF DocumentInv, RetiredWithEpoch
<1>2. disk.retired \subseteq disk'.retired
  <2>1. ASSUME NEW t \in Tabs, Pass(t) PROVE disk'.retired = disk.retired
    BY <2>1, TypeUse
       DEF DocumentInv, DiskType, Pass, Tick, FlushStart, FlushPick, FlushSkip, FlushSend,
           FlushReads, FlushCommit, FlushCommitFails, ServerApplies,
           ServerRefuses, NetworkFails, ScopeLost
  <2>2. ASSUME NEW t \in Tabs, ClearCommit(t) PROVE disk.retired \subseteq disk'.retired
    BY <2>2 DEF DocumentInv, RetiredWithEpoch, ClearCommit, InScope, Gone
  <2>3. ASSUME NEW t \in Tabs, Use(t), ~ClearCommit(t)
        PROVE  disk'.retired = disk.retired
    BY <2>3, TypeUse
       DEF DocumentInv, DiskType, Use, Enqueue, Acknowledge, ClearBegin, ClearRefused, ClearFails
  <2>4. ASSUME NEW t \in Tabs, Life(t) PROVE disk'.retired = disk.retired
    BY <2>4, TypeUse
       DEF DocumentInv, DiskType, Life, Bind, CompleteClear, Open, Close
  <2>5. ASSUME NEW e \in Entries, LateArrives(e) PROVE disk'.retired = disk.retired
    BY <2>5 DEF LateArrives
  <2> QED
    BY <2>1, <2>2, <2>3, <2>4, <2>5 DEF Next, vars
<1> QED
  BY <1>1, <1>2

THEOREM RetiredStaysRetired == Spec => RetiredForGood
<1>1. DocumentInv /\ DocumentInv' /\ [Next]_vars
        => [/\ disk.retired \subseteq disk'.retired
            /\ disk'.scope \notin disk.retired]_vars
  BY RetiredStep
<1> QED
  BY <1>1, DocumentInit, DocumentStep, PTL DEF Spec, RetiredForGood

-----------------------------------------------------------------------------
(* Delivery.                                                               *)

\* The server, or an unprotected clear(), has disposed of the entry.
Settled(e) == e \in applied \cup refused \cup dropped

\* Everything that precedes an entry on its subject is settled.
Ruled(e) == \A d \in Entries : Precedes(d, e) => Settled(d)

\* The pass f holds the entry back, as Blocked does.
Held(f, e) == Subject[e] # None /\ \E d \in f.temp : Subject[d] = Subject[e]

\* A pass sends nothing before what precedes it: what precedes an entry still
\* to come is to come as well, under way, settled, or holds it back.
InOrder(f) ==
    /\ f.todo \subseteq accepted
    /\ f.sent \subseteq applied /\ f.perm \subseteq refused
    /\ f.pc \in {"pick", "guard", "wait"} =>
         \A e \in f.todo, d \in Entries : Precedes(d, e) =>
             \/ d \in f.todo
             \/ f.pc # "pick" /\ d = f.cur
             \/ Settled(d)
             \/ Held(f, e)
    /\ f.pc = "guard" => f.cur \in accepted /\ (Ruled(f.cur) \/ Held(f, f.cur))
    /\ f.pc = "wait" =>
         /\ f.cur \in accepted /\ Ruled(f.cur)
         /\ f.answer = "sent" => f.cur \in applied
         /\ f.answer = "permanent" => f.cur \in refused

PassesInOrder == \A t \in Tabs : InOrder(flush[t])

\* What reached the server, or still may, left in order.
SentInOrder == \A e \in applied \cup late : e \in accepted /\ Ruled(e)

\* What is accepted, and what is known of it.
Accounted ==
    /\ refused \cup dropped \subseteq accepted
    /\ (disk.entries \cup disk.rejected) \cap dropped = {}
    /\ \A e \in Entries : before[e] \subseteq accepted
    /\ \A e \in accepted : e \in disk.entries \/ Settled(e)

DeliveryInv ==
    /\ DocumentInv
    /\ PassesInOrder /\ SentInOrder /\ Accounted
    /\ SnapshotReadable /\ NoSaleLost

\* History only grows.
Grows ==
    /\ accepted \subseteq accepted'
    /\ \A e \in accepted : before'[e] = before[e]
    /\ applied \subseteq applied' /\ refused \subseteq refused'
    /\ dropped \subseteq dropped'

LEMMA NextGrows == ASSUME IndType, [Next]_vars PROVE Grows
<1>1. ASSUME NEW t \in Tabs, Pass(t) PROVE Grows
  BY <1>1 DEF Grows, Pass, Tick, FlushStart, FlushPick, FlushSkip, FlushSend,
              FlushReads, FlushCommit, FlushCommitFails, ServerApplies,
              ServerRefuses, NetworkFails, ScopeLost, serverVars, pastVars
<1>2. ASSUME NEW t \in Tabs, NEW e \in Entries, Enqueue(t, e) PROVE Grows
  BY <1>2 DEF Grows, Enqueue, IndType, TypeOK, serverVars
<1>3. ASSUME NEW t \in Tabs,
             \/ Acknowledge(t) \/ ClearBegin(t) \/ ClearCommit(t)
             \/ ClearRefused(t) \/ ClearFails(t) \/ Life(t)
      PROVE  Grows
  BY <1>3 DEF Grows, Acknowledge, ClearBegin, ClearCommit, ClearRefused,
              ClearFails, Life, Bind, CompleteClear, Open, Close, serverVars, pastVars
<1>4. ASSUME NEW e \in Entries, LateArrives(e) PROVE Grows
  BY <1>4 DEF Grows, LateArrives, serverVars, pastVars
<1>5. CASE UNCHANGED vars
  BY <1>5 DEF Grows, vars, serverVars, pastVars
<1> QED
  BY <1>1, <1>2, <1>3, <1>4, <1>5 DEF Next, Use

\* What was settled stays settled, and what preceded an accepted entry is fixed.
LEMMA RuledKept ==
    ASSUME Grows, NEW e \in accepted
    PROVE  /\ \A d \in Entries : Precedes(d, e)' <=> Precedes(d, e)
           /\ \A d \in Entries : Settled(d) => Settled(d)'
           /\ Ruled(e) => Ruled(e)'
BY DEF Grows, Precedes, Settled, Ruled

\* A pass that nobody touches stays in order.
LEMMA InOrderKept ==
    ASSUME Grows, NEW f \in FlushType, InOrder(f), f.pc \in {"guard", "wait"} => f.cur \in Entries
    PROVE  InOrder(f)'
<1>1. f.todo \subseteq accepted' /\ f.sent \subseteq applied' /\ f.perm \subseteq refused'
  BY DEF Grows, InOrder
<1>2. ASSUME f.pc \in {"pick", "guard", "wait"},
             NEW e \in f.todo, NEW d \in Entries, Precedes(d, e)'
      PROVE  \/ d \in f.todo
             \/ f.pc # "pick" /\ d = f.cur
             \/ Settled(d)'
             \/ Held(f, e)
  BY <1>2, RuledKept DEF InOrder
<1>3. f.pc = "guard" => f.cur \in accepted' /\ (Ruled(f.cur)' \/ Held(f, f.cur))
  BY RuledKept DEF InOrder, Grows
<1>4. f.pc = "wait" =>
         /\ f.cur \in accepted' /\ Ruled(f.cur)'
         /\ f.answer = "sent" => f.cur \in applied'
         /\ f.answer = "permanent" => f.cur \in refused'
  BY RuledKept DEF InOrder, Grows
<1> QED
  BY <1>1, <1>2, <1>3, <1>4 DEF InOrder, Held

\* One window's pass changes, the others' stay in order.
LEMMA OneWindow ==
    ASSUME IndType, PassesInOrder, Grows, NEW t \in Tabs, NEW r,
           flush' = [flush EXCEPT ![t] = r], InOrder(r)'
    PROVE  PassesInOrder'
<1> SUFFICES ASSUME NEW u \in Tabs PROVE InOrder(flush[u])'
  BY DEF PassesInOrder
<1>1. PICK f : f = flush'[u]
  OBVIOUS
<1>2. InOrder(f)'
  <2>1. CASE u = t
    <3>1. f = r
      BY <1>1, <2>1 DEF IndType, TypeOK
    <3> QED
      BY <3>1
  <2>2. CASE u # t
    <3>1. f = flush[u]
      BY <1>1, <2>2 DEF IndType, TypeOK
    <3>2. /\ InOrder(f) /\ f \in FlushType
          /\ f.pc \in {"guard", "wait"} => f.cur \in Entries
      BY <3>1, TypeUse DEF PassesInOrder
    <3> QED
      BY <3>2, InOrderKept
  <2> QED
    BY <2>1, <2>2
<1> QED
  BY <1>1, <1>2 DEF InOrder, Held, Ruled, Settled, Precedes

\* The same, when the new pass was in order before the step.
LEMMA OneWindowKept ==
    ASSUME IndType, PassesInOrder, Grows, NEW t \in Tabs, NEW r \in FlushType,
           r.pc \in {"guard", "wait"} => r.cur \in Entries,
           flush' = [flush EXCEPT ![t] = r], InOrder(r)
    PROVE  PassesInOrder'
BY InOrderKept, OneWindow

LEMMA AskedInOrder ==
    ASSUME IndType, PassesInOrder, Grows, NEW t \in Tabs, AskFlush(t)
    PROVE  PassesInOrder'
<1>1. PICK r : r = [flush[t] EXCEPT !.pc = IF @ = "idle" THEN "asked" ELSE @]
  OBVIOUS
<1>2. /\ r \in FlushType
      /\ r.pc \in {"guard", "wait"} => r.cur \in Entries
      /\ r = flush[t] \/ r.pc = "asked"
      /\ r.todo = flush[t].todo /\ r.sent = flush[t].sent /\ r.perm = flush[t].perm
  BY <1>1, TypeUse DEF FlushType
<1>3. InOrder(r)
  BY <1>2 DEF InOrder, PassesInOrder
<1>4. flush' = [flush EXCEPT ![t] = r]
  BY <1>1 DEF AskFlush
<1> QED
  BY <1>2, <1>3, <1>4, OneWindowKept

LEMMA StoppedInOrder ==
    ASSUME IndType, PassesInOrder, Grows, NEW t \in Tabs, StopFlush(t)
    PROVE  PassesInOrder'
<1>1. InOrder(NoFlush)
  BY DEF NoFlush, InOrder
<1> QED
  BY <1>1, NoFlushType, OneWindowKept DEF StopFlush

LEMMA StartedInOrder ==
    ASSUME DeliveryInv, Grows, NEW t \in Tabs, FlushStart(t)
    PROVE  PassesInOrder'
<1> USE DEF DeliveryInv, DocumentInv
<1>1. CASE mem[t].clearing \/ disk.entries = {}
  BY <1>1, StoppedInOrder DEF FlushStart, StopFlush
<1>2. CASE ~(mem[t].clearing \/ disk.entries = {})
  <2>1. PICK r : r = [NoFlush EXCEPT !.pc = "pick", !.todo = disk.entries]
    OBVIOUS
  <2>2. /\ r \in FlushType /\ r.pc = "pick" /\ r.todo = disk.entries
        /\ r.sent = {} /\ r.perm = {}
    BY <2>1, TypeUse DEF FlushType, DiskType, NoFlush
  <2>3. flush' = [flush EXCEPT ![t] = r]
    BY <1>2, <2>1 DEF FlushStart
  <2>4. InOrder(r)
    <3>1. ASSUME NEW e \in disk.entries, NEW d \in Entries, Precedes(d, e)
          PROVE  d \in disk.entries \/ Settled(d)
      BY <3>1, TypeUse DEF Precedes, Accounted, DiskType
    <3> QED
      BY <2>2, <3>1 DEF InOrder, MatterWasAccepted
  <2> QED
    BY <2>2, <2>3, <2>4, OneWindowKept
<1> QED
  BY <1>1, <1>2

LEMMA PickedInOrder ==
    ASSUME DeliveryInv, Grows, NEW t \in Tabs, FlushPick(t)
    PROVE  PassesInOrder'
<1> USE DEF DeliveryInv, DocumentInv
<1>1. PICK x \in flush[t].todo :
        /\ before[x] \cap flush[t].todo = {}
        /\ flush' = [flush EXCEPT ![t].pc = "guard", ![t].cur = x,
                                  ![t].todo = @ \ {x}]
  BY DEF FlushPick
<1>2. PICK f : f = flush[t]
  OBVIOUS
<1>3. PICK r : r = [f EXCEPT !.pc = "guard", !.cur = x, !.todo = @ \ {x}]
  OBVIOUS
<1>4. f \in FlushType /\ x \in Entries /\ x \in f.todo /\ f.pc = "pick" /\ InOrder(f)
  BY <1>2, TypeUse DEF FlushType, FlushPick, PassesInOrder
<1>5. /\ r \in FlushType /\ r.pc = "guard" /\ r.cur = x /\ r.todo = f.todo \ {x}
      /\ r.sent = f.sent /\ r.perm = f.perm /\ r.temp = f.temp
  BY <1>3, <1>4 DEF FlushType
<1>6. flush' = [flush EXCEPT ![t] = r]
  BY <1>1, <1>2, <1>3
<1>7. \A e \in Entries : Held(r, e) <=> Held(f, e)
  BY <1>5 DEF Held
<1>8. ASSUME NEW e \in r.todo, NEW d \in Entries, Precedes(d, e)
      PROVE  d \in r.todo \/ d = r.cur \/ Settled(d) \/ Held(r, e)
  BY <1>4, <1>5, <1>7, <1>8 DEF InOrder, FlushType
<1>9. Ruled(x) \/ Held(r, x)
  <2>1. ASSUME NEW d \in Entries, Precedes(d, x) PROVE Settled(d) \/ Held(f, x)
    <3>1. d \notin f.todo
      BY <1>1, <1>2, <2>1 DEF Precedes
    <3> QED
      BY <1>4, <2>1, <3>1 DEF InOrder
  <2> QED
    BY <1>4, <1>7, <2>1 DEF Ruled
<1>10. InOrder(r)
  BY <1>4, <1>5, <1>8, <1>9 DEF InOrder
<1> QED
  BY <1>4, <1>5, <1>6, <1>10, OneWindowKept

LEMMA SkippedInOrder ==
    ASSUME DeliveryInv, Grows, NEW t \in Tabs, FlushSkip(t)
    PROVE  PassesInOrder'
<1> USE DEF DeliveryInv, DocumentInv
<1>1. PICK f : f = flush[t]
  OBVIOUS
<1>2. PICK r : r = [f EXCEPT !.pc = "pick", !.cur = None]
  OBVIOUS
<1>3. f \in FlushType /\ f.pc = "guard" /\ f.cur \in Entries /\ InOrder(f) /\ Held(f, f.cur)
  BY <1>1, TypeUse DEF FlushSkip, PassesInOrder, Held, Blocked
<1>4. /\ r \in FlushType /\ r.pc = "pick" /\ r.todo = f.todo
      /\ r.sent = f.sent /\ r.perm = f.perm /\ r.temp = f.temp
  BY <1>2, <1>3 DEF FlushType
<1>5. flush' = [flush EXCEPT ![t] = r]
  BY <1>1, <1>2 DEF FlushSkip
<1>6. ASSUME NEW e \in f.todo, NEW d \in Entries, Precedes(d, e)
      PROVE  d \in f.todo \/ Settled(d) \/ Held(r, e)
  <2>1. CASE d = f.cur
    BY <1>3, <1>4, <1>6, <2>1 DEF Held, Precedes
  <2>2. CASE d # f.cur
    BY <1>3, <1>4, <1>6, <2>2 DEF InOrder, Held
  <2> QED
    BY <2>1, <2>2
<1>7. InOrder(r)
  BY <1>3, <1>4, <1>6 DEF InOrder
<1> QED
  BY <1>4, <1>5, <1>7, OneWindowKept

LEMMA SendingInOrder ==
    ASSUME DeliveryInv, Grows, NEW t \in Tabs, FlushSend(t)
    PROVE  PassesInOrder'
<1> USE DEF DeliveryInv, DocumentInv
<1>1. PICK f : f = flush[t]
  OBVIOUS
<1>2. PICK r : r = [f EXCEPT !.pc = "wait", !.answer = "none"]
  OBVIOUS
<1>3. f \in FlushType /\ f.pc = "guard" /\ f.cur \in Entries /\ InOrder(f) /\ ~Held(f, f.cur)
  BY <1>1, TypeUse DEF FlushSend, PassesInOrder, Held, Blocked
<1>4. /\ r \in FlushType /\ r.pc = "wait" /\ r.todo = f.todo /\ r.answer = "none"
      /\ r.sent = f.sent /\ r.perm = f.perm /\ r.temp = f.temp /\ r.cur = f.cur
  BY <1>2, <1>3 DEF FlushType
<1>5. flush' = [flush EXCEPT ![t] = r]
  BY <1>1, <1>2 DEF FlushSend
<1>6. InOrder(r)
  BY <1>3, <1>4 DEF InOrder, Held
<1> QED
  BY <1>3, <1>4, <1>5, <1>6, OneWindowKept

\* A temporary answer holds back what follows; the others settle the entry.
LEMMA ReadInOrder ==
    ASSUME DeliveryInv, Grows, NEW t \in Tabs, FlushReads(t)
    PROVE  PassesInOrder'
<1> USE DEF DeliveryInv, DocumentInv
<1>1. PICK f : f = flush[t]
  OBVIOUS
<1> DEFINE Got(a) == IF f.answer = a THEN {f.cur} ELSE {}
<1>2. PICK r : r = [f EXCEPT !.pc = "pick", !.cur = None, !.answer = "none",
                            !.sent = @ \cup Got("sent"),
                            !.temp = @ \cup Got("temporary"),
                            !.perm = @ \cup Got("permanent")]
  OBVIOUS
<1>3. /\ f \in FlushType /\ f.pc = "wait" /\ f.cur \in Entries /\ InOrder(f)
      /\ f.answer \in {"sent", "permanent", "temporary"}
  BY <1>1, TypeUse DEF FlushReads, PassesInOrder, FlushType
<1>4. /\ r \in FlushType /\ r.pc = "pick" /\ r.todo = f.todo
      /\ r.sent = f.sent \cup Got("sent") /\ r.perm = f.perm \cup Got("permanent")
      /\ r.temp = f.temp \cup Got("temporary")
  BY <1>2, <1>3 DEF FlushType
<1>5. flush' = [flush EXCEPT ![t] = r]
  BY <1>1, <1>2 DEF FlushReads
<1>6. ASSUME NEW e \in f.todo, NEW d \in Entries, Precedes(d, e)
      PROVE  d \in f.todo \/ Settled(d) \/ Held(r, e)
  <2>1. CASE d = f.cur /\ f.answer = "temporary"
    BY <1>4, <1>6, <2>1 DEF Held, Precedes
  <2>2. CASE d = f.cur /\ f.answer # "temporary"
    BY <1>3, <2>2 DEF InOrder, Settled
  <2>3. CASE d # f.cur
    BY <1>3, <1>4, <1>6, <2>3 DEF InOrder, Held
  <2> QED
    BY <2>1, <2>2, <2>3
<1>7. r.sent \subseteq applied /\ r.perm \subseteq refused
  BY <1>3, <1>4 DEF InOrder
<1>8. InOrder(r)
  BY <1>3, <1>4, <1>6, <1>7 DEF InOrder
<1> QED
  BY <1>4, <1>5, <1>8, OneWindowKept

\* The server's answer is what it did.
LEMMA AnsweredInOrder ==
    ASSUME DeliveryInv, Grows, NEW t \in Tabs, flush[t].pc = "wait",
           NEW a \in {"sent", "permanent", "temporary"}, Answer(t, a),
           a = "sent" => flush[t].cur \in applied',
           a = "permanent" => flush[t].cur \in refused'
    PROVE  PassesInOrder'
<1> USE DEF DeliveryInv, DocumentInv
<1>1. PICK f : f = flush[t]
  OBVIOUS
<1>2. PICK r : r = [f EXCEPT !.answer = a]
  OBVIOUS
<1>3. f \in FlushType /\ f.pc = "wait" /\ f.cur \in Entries /\ InOrder(f)
  BY <1>1, TypeUse DEF PassesInOrder
<1>4. /\ r.pc = "wait" /\ r.todo = f.todo /\ r.answer = a /\ r.cur = f.cur
      /\ r.sent = f.sent /\ r.perm = f.perm /\ r.temp = f.temp
  BY <1>2, <1>3 DEF FlushType
<1>5. flush' = [flush EXCEPT ![t] = r]
  BY <1>1, <1>2 DEF Answer
<1>6. InOrder(f)'
  BY <1>3, InOrderKept
<1>7. InOrder(r)'
  BY <1>1, <1>3, <1>4, <1>6 DEF InOrder, Held
<1> QED
  BY <1>5, <1>7, OneWindow

LEMMA InFlightIsCur ==
    ASSUME NEW t \in Tabs, InFlight(t) # {}
    PROVE  InFlight(t) = {flush[t].cur} /\ flush[t].pc = "wait"
BY DEF InFlight

LEMMA PassesStep == DeliveryInv /\ [Next]_vars => PassesInOrder'
<1> SUFFICES ASSUME DeliveryInv, [Next]_vars PROVE PassesInOrder'
  OBVIOUS
<1> USE DEF DeliveryInv, DocumentInv
<1>0. IndType /\ PassesInOrder /\ Grows
  BY NextGrows
<1>1. ASSUME NEW t \in Tabs, Tick(t) \/ \E e \in Entries : Enqueue(t, e)
      PROVE  PassesInOrder'
  BY <1>0, <1>1, AskedInOrder DEF Tick, Enqueue
<1>2. ASSUME NEW t \in Tabs,
             \/ FlushStart(t) \/ FlushPick(t) \/ FlushSkip(t)
             \/ FlushSend(t) \/ FlushReads(t)
      PROVE  PassesInOrder'
  BY <1>0, <1>2, StartedInOrder, PickedInOrder, SkippedInOrder, SendingInOrder,
     ReadInOrder
<1>3. ASSUME NEW t \in Tabs,
             \/ FlushCommit(t) \/ FlushCommitFails(t) \/ ScopeLost(t)
             \/ ClearBegin(t) \/ Close(t)
      PROVE  PassesInOrder'
  BY <1>0, <1>3, StoppedInOrder
     DEF FlushCommit, FlushCommitFails, ScopeLost, ClearBegin, Close
<1>4. ASSUME NEW t \in Tabs, ServerApplies(t) PROVE PassesInOrder'
  BY <1>0, <1>4, InFlightIsCur, AnsweredInOrder DEF ServerApplies
<1>5. ASSUME NEW t \in Tabs, ServerRefuses(t) PROVE PassesInOrder'
  BY <1>0, <1>5, InFlightIsCur, AnsweredInOrder DEF ServerRefuses
<1>6. ASSUME NEW t \in Tabs, NetworkFails(t) PROVE PassesInOrder'
  BY <1>0, <1>6, AnsweredInOrder DEF NetworkFails
<1>7. ASSUME UNCHANGED flush PROVE PassesInOrder'
  <2> SUFFICES ASSUME NEW t \in Tabs PROVE PassesInOrder'
    BY DEF PassesInOrder
  <2>1. PICK r : r = flush[t]
    OBVIOUS
  <2>2. /\ r \in FlushType /\ InOrder(r)
        /\ r.pc \in {"guard", "wait"} => r.cur \in Entries
        /\ flush' = [flush EXCEPT ![t] = r]
    BY <1>7, <2>1, TypeUse DEF PassesInOrder
  <2> QED
    BY <1>0, <2>2, OneWindowKept
<1>8. ASSUME NEW t \in Tabs,
             \/ Acknowledge(t) \/ ClearCommit(t) \/ ClearRefused(t)
             \/ ClearFails(t) \/ Open(t) \/ CompleteClear(t)
             \/ \E s \in Scopes, fresh \in BOOLEAN : Bind(t, s, fresh)
      PROVE  PassesInOrder'
  BY <1>7, <1>8 DEF Acknowledge, ClearCommit, ClearRefused, ClearFails, Open,
                    CompleteClear, Bind
<1>9. ASSUME NEW e \in Entries, LateArrives(e) PROVE PassesInOrder'
  BY <1>7, <1>9 DEF LateArrives
<1>10. CASE UNCHANGED vars
  BY <1>7, <1>10 DEF vars
<1> QED
  BY <1>1, <1>2, <1>3, <1>4, <1>5, <1>6, <1>8, <1>9, <1>10
     DEF Next, Pass, Use, Life

-----------------------------------------------------------------------------
(* What left for the server left in order.                                 *)

LEMMA MoreSentInOrder ==
    ASSUME SentInOrder, Grows, NEW X,
           \A e \in X : e \in accepted /\ Ruled(e),
           applied' \cup late' \subseteq applied \cup late \cup X
    PROVE  SentInOrder'
BY RuledKept DEF SentInOrder, Grows

LEMMA NoMoreSent ==
    ASSUME SentInOrder, Grows, applied' \cup late' \subseteq applied \cup late
    PROVE  SentInOrder'
BY RuledKept DEF SentInOrder, Grows

\* The request a pass waits on, and the one it is about to send.
LEMMA LeavesInOrder ==
    ASSUME DeliveryInv, NEW t \in Tabs
    PROVE  /\ \A e \in InFlight(t) : e \in accepted /\ Ruled(e)
           /\ flush[t].pc = "guard" /\ ~Blocked(t, flush[t].cur) =>
                flush[t].cur \in accepted /\ Ruled(flush[t].cur)
BY DEF DeliveryInv, PassesInOrder, InOrder, InFlight, Held, Blocked

LEMMA SentStep == DeliveryInv /\ [Next]_vars => SentInOrder'
<1> SUFFICES ASSUME DeliveryInv, [Next]_vars PROVE SentInOrder'
  OBVIOUS
<1>0. IndType /\ SentInOrder /\ Grows
  BY NextGrows DEF DeliveryInv, DocumentInv
<1>1. ASSUME NEW t \in Tabs,
             \/ ServerApplies(t) \/ NetworkFails(t) \/ ScopeLost(t) \/ Close(t)
      PROVE  SentInOrder'
  BY <1>0, <1>1, LeavesInOrder, MoreSentInOrder
     DEF ServerApplies, NetworkFails, ScopeLost, Close, serverVars
<1>2. ASSUME NEW t \in Tabs, ClearBegin(t) PROVE SentInOrder'
  <2> DEFINE picked == {e \in {flush[t].cur} :
                          flush[t].pc = "guard" /\ InScope(t) /\ ~Blocked(t, e)}
  <2>1. \A e \in InFlight(t) \cup picked : e \in accepted /\ Ruled(e)
    BY LeavesInOrder
  <2>2. applied' \cup late' \subseteq applied \cup late \cup (InFlight(t) \cup picked)
    BY <1>2 DEF ClearBegin, serverVars
  <2> HIDE DEF picked
  <2> QED
    BY <1>0, <2>1, <2>2, MoreSentInOrder
<1>3. ASSUME NEW e \in Entries, LateArrives(e) PROVE SentInOrder'
  <2>1. applied' \cup late' \subseteq applied \cup late
    BY <1>3 DEF LateArrives, serverVars
  <2> QED
    BY <1>0, <2>1, NoMoreSent
<1>4. ASSUME UNCHANGED <<applied, late>> PROVE SentInOrder'
  BY <1>0, <1>4, NoMoreSent
<1>5. ASSUME NEW t \in Tabs, Pass(t) PROVE SentInOrder'
  BY <1>1, <1>4, <1>5
     DEF Pass, Tick, FlushStart, FlushPick, FlushSkip, FlushSend, FlushReads,
         FlushCommit, FlushCommitFails, ServerRefuses, serverVars
<1>6. ASSUME NEW t \in Tabs, Use(t) PROVE SentInOrder'
  BY <1>2, <1>4, <1>6
     DEF Use, Enqueue, Acknowledge, ClearCommit, ClearRefused, ClearFails, serverVars
<1>7. ASSUME NEW t \in Tabs, Life(t) PROVE SentInOrder'
  BY <1>1, <1>4, <1>7 DEF Life, Bind, CompleteClear, Open, serverVars
<1>8. CASE UNCHANGED vars
  BY <1>4, <1>8 DEF vars, serverVars
<1> QED
  BY <1>3, <1>5, <1>6, <1>7, <1>8 DEF Next

-----------------------------------------------------------------------------
(* The books balance: what is accepted, queued, refused and settled.       *)

Balanced == Accounted /\ SnapshotReadable /\ NoSaleLost

\* A step that moves nothing in the document, and lets the server rule.
LEMMA BalanceKept ==
    ASSUME Balanced, UNCHANGED pastVars,
           disk'.entries = disk.entries, disk'.rejected = disk.rejected,
           applied \subseteq applied',
           refused \subseteq refused', refused' \subseteq accepted
    PROVE  Balanced'
BY DEF Balanced, Accounted, SnapshotReadable, NoSaleLost, Settled, pastVars

LEMMA EnqueueBalance ==
    ASSUME DeliveryInv, Balanced, NEW t \in Tabs, NEW e \in Entries, Enqueue(t, e)
    PROVE  Balanced'
<1>1. /\ disk'.entries = disk.entries \cup {e} /\ disk'.rejected = disk.rejected
      /\ e \notin accepted /\ accepted' = accepted \cup {e}
      /\ UNCHANGED <<applied, refused, acked, dropped>>
  BY TypeUse DEF DeliveryInv, DocumentInv, DiskType, Enqueue, serverVars
<1>2. \A d \in Entries : before'[d] = IF d = e THEN accepted ELSE before[d]
  BY DEF DeliveryInv, DocumentInv, IndType, TypeOK, Enqueue
<1>3. Accounted'
  BY <1>1, <1>2 DEF Balanced, Accounted, Settled
<1>4. SnapshotReadable'
  BY <1>1 DEF Balanced, SnapshotReadable, DeliveryInv, DocumentInv, MatterWasAccepted
<1>5. NoSaleLost'
  BY <1>1 DEF Balanced, NoSaleLost
<1> QED
  BY <1>3, <1>4, <1>5 DEF Balanced

LEMMA AcknowledgeBalance ==
    ASSUME DeliveryInv, Balanced, NEW t \in Tabs, Acknowledge(t)
    PROVE  Balanced'
<1>1. /\ disk'.entries = disk.entries /\ disk'.rejected = disk.rejected \ mem[t].shown
      /\ acked' = acked \cup (disk.rejected \cap mem[t].shown)
      /\ UNCHANGED <<applied, refused, accepted, before, dropped>>
  BY TypeUse DEF DeliveryInv, DocumentInv, DiskType, Acknowledge, serverVars
<1> QED
  BY <1>1 DEF Balanced, Accounted, SnapshotReadable, NoSaleLost, Settled

\* What leaves the queue has its verdict, and a refusal stays in the journal.
LEMMA FlushCommitBalance ==
    ASSUME DeliveryInv, Balanced, NEW t \in Tabs, FlushCommit(t)
    PROVE  Balanced'
<1>1. /\ disk'.entries = disk.entries \ Leaving(t)
      /\ disk'.rejected = disk.rejected \cup Refusals(t)
      /\ UNCHANGED <<applied, refused, accepted, before, acked, dropped>>
  BY TypeUse DEF DeliveryInv, DocumentInv, DiskType, FlushCommit, serverVars, pastVars
<1>2. flush[t].sent \subseteq applied /\ flush[t].perm \subseteq refused
  BY DEF DeliveryInv, PassesInOrder, InOrder
<1>3. Accounted'
  BY <1>1, <1>2 DEF Balanced, Accounted, Settled, Leaving, Refusals
<1>4. SnapshotReadable' /\ NoSaleLost'
  BY <1>1, <1>2 DEF Balanced, SnapshotReadable, NoSaleLost, Leaving, Refusals
<1> QED
  BY <1>3, <1>4 DEF Balanced

LEMMA ClearCommitBalance ==
    ASSUME DeliveryInv, Balanced, NEW t \in Tabs, ClearCommit(t)
    PROVE  Balanced'
<1>1. /\ disk'.entries = {} /\ disk'.rejected = {}
      /\ dropped' = dropped \cup disk.entries \cup disk.rejected
      /\ RequireEmpty => disk.entries \cup disk.rejected = {}
      /\ UNCHANGED <<applied, refused, accepted, before, acked>>
  BY SyncQueueAssumption DEF ClearCommit, HasMatter, serverVars
<1> QED
  BY <1>1 DEF Balanced, Accounted, SnapshotReadable, NoSaleLost, Settled,
              DeliveryInv, DocumentInv, MatterWasAccepted

LEMMA BalanceStep == DeliveryInv /\ [Next]_vars => Balanced'
<1> SUFFICES ASSUME DeliveryInv, [Next]_vars PROVE Balanced'
  OBVIOUS
<1>0. Balanced /\ IndType /\ refused \subseteq accepted
  BY DEF DeliveryInv, DocumentInv, Balanced, Accounted
<1>1. ASSUME UNCHANGED <<pastVars, serverVars>>,
             disk'.entries = disk.entries, disk'.rejected = disk.rejected
      PROVE  Balanced'
  BY <1>0, <1>1, BalanceKept DEF serverVars
<1>2. ASSUME NEW t \in Tabs, ServerApplies(t) \/ ServerRefuses(t) PROVE Balanced'
  <2>1. InFlight(t) \subseteq accepted
    BY LeavesInOrder
  <2> QED
    BY <1>0, <1>2, <2>1, BalanceKept DEF ServerApplies, ServerRefuses
<1>3. ASSUME NEW e \in Entries, LateArrives(e) PROVE Balanced'
  <2>1. e \in accepted
    BY <1>3 DEF LateArrives, DeliveryInv, SentInOrder
  <2> QED
    BY <1>0, <1>3, <2>1, BalanceKept DEF LateArrives, serverVars
<1>4. ASSUME NEW t \in Tabs, Pass(t) PROVE Balanced'
  BY <1>0, <1>1, <1>2, <1>4, FlushCommitBalance
     DEF Pass, Tick, FlushStart, FlushPick, FlushSkip, FlushSend, FlushReads,
         FlushCommitFails, NetworkFails, ScopeLost
<1>5. ASSUME NEW t \in Tabs, Use(t) PROVE Balanced'
  BY <1>0, <1>1, <1>5, EnqueueBalance, AcknowledgeBalance, ClearCommitBalance
     DEF Use, ClearBegin, ClearRefused, ClearFails
<1>6. ASSUME NEW t \in Tabs, Life(t) PROVE Balanced'
  <2>1. disk'.entries = disk.entries /\ disk'.rejected = disk.rejected
    BY <1>0, <1>6, TypeUse DEF DiskType, Life, Bind, CompleteClear, Open, Close
  <2> QED
    BY <1>1, <1>6, <2>1 DEF Life, Bind, CompleteClear, Open, Close
<1>7. CASE UNCHANGED vars
  BY <1>1, <1>7 DEF vars
<1> QED
  BY <1>3, <1>4, <1>5, <1>6, <1>7 DEF Next

-----------------------------------------------------------------------------
(* The theorems.                                                           *)

LEMMA DeliveryInit == Init => DeliveryInv
<1> SUFFICES ASSUME Init PROVE DeliveryInv
  OBVIOUS
<1>1. PassesInOrder /\ SentInOrder
  BY DEF Init, NoFlush, PassesInOrder, InOrder, SentInOrder
<1>2. Accounted /\ SnapshotReadable /\ NoSaleLost
  BY DEF Init, EmptyDisk, Accounted, SnapshotReadable, NoSaleLost
<1> QED
  BY <1>1, <1>2, DocumentInit DEF DeliveryInv

LEMMA DeliveryStep == DeliveryInv /\ [Next]_vars => DeliveryInv'
BY DocumentStep, PassesStep, SentStep, BalanceStep DEF DeliveryInv, Balanced

\* Nothing the staff was told is recorded is ever lost, and on the till nothing
\* is discarded.
THEOREM NothingLost == Spec => []NoSaleLost
<1>1. DeliveryInv => NoSaleLost
  BY DEF DeliveryInv
<1> QED
  BY <1>1, DeliveryInit, DeliveryStep, PTL DEF Spec

\* The server never applies an entry before it has ruled on every earlier one
\* of its subject.
THEOREM SubjectsStayInOrder == Spec => []OrderPerSubject
<1>1. DeliveryInv => OrderPerSubject
  BY DEF DeliveryInv, SentInOrder, Ruled, Settled, OrderPerSubject
<1> QED
  BY <1>1, DeliveryInit, DeliveryStep, PTL DEF Spec

\* No commit writes a document the next start would refuse to read.
THEOREM DocumentStaysReadable == Spec => []SnapshotReadable
<1>1. DeliveryInv => SnapshotReadable
  BY DEF DeliveryInv
<1> QED
  BY <1>1, DeliveryInit, DeliveryStep, PTL DEF Spec

\* An entry leaves the queue only on a verdict of the server, and a refusal
\* leaves the journal only from a window that displays it.
VerdictStep ==
    dropped' = dropped =>
        /\ disk.entries \ disk'.entries \subseteq applied \cup refused
        /\ \A e \in disk.rejected \ disk'.rejected :
             \E t \in Tabs : Ready(t) /\ e \in mem[t].shown

LEMMA StepOnVerdict == DeliveryInv /\ [Next]_vars => VerdictStep
<1> SUFFICES ASSUME DeliveryInv, [Next]_vars PROVE VerdictStep
  OBVIOUS
<1>0. disk \in DiskType
  BY DEF DeliveryInv, DocumentInv, IndType, TypeOK
<1>1. ASSUME disk.entries \subseteq disk'.entries,
             disk.rejected \subseteq disk'.rejected
      PROVE  VerdictStep
  BY <1>1 DEF VerdictStep
<1>2. ASSUME NEW t \in Tabs, FlushCommit(t) PROVE VerdictStep
  <2>1. /\ disk'.entries = disk.entries \ Leaving(t)
        /\ disk.rejected \subseteq disk'.rejected
    BY <1>0, <1>2 DEF DiskType, FlushCommit
  <2>2. Leaving(t) \subseteq applied \cup refused
    BY DEF Leaving, DeliveryInv, PassesInOrder, InOrder
  <2> QED
    BY <2>1, <2>2 DEF VerdictStep
<1>3. ASSUME NEW t \in Tabs, Acknowledge(t) PROVE VerdictStep
  <2>1. /\ disk'.entries = disk.entries
        /\ disk'.rejected = disk.rejected \ mem[t].shown
        /\ Ready(t)
    BY <1>0, <1>3 DEF DiskType, Acknowledge, Working
  <2> QED
    BY <2>1 DEF VerdictStep
<1>4. ASSUME NEW t \in Tabs, ClearCommit(t) PROVE VerdictStep
  <2>1. dropped' = dropped => disk.entries \cup disk.rejected = {}
    BY <1>4 DEF ClearCommit, DeliveryInv, Accounted
  <2> QED
    BY <2>1 DEF VerdictStep
<1>5. ASSUME NEW t \in Tabs, Pass(t) PROVE VerdictStep
  BY <1>1, <1>2, <1>5
     DEF Pass, Tick, FlushStart, FlushPick, FlushSkip, FlushSend, FlushReads,
         FlushCommitFails, ServerApplies, ServerRefuses, NetworkFails, ScopeLost
<1>6. ASSUME NEW t \in Tabs, Use(t) PROVE VerdictStep
  <2>1. ASSUME NEW e \in Entries, Enqueue(t, e) PROVE VerdictStep
    BY <1>0, <1>1, <2>1 DEF DiskType, Enqueue
  <2> QED
    BY <1>1, <1>3, <1>4, <1>6, <2>1 DEF Use, ClearBegin, ClearRefused, ClearFails
<1>7. ASSUME NEW t \in Tabs, Life(t) PROVE VerdictStep
  BY <1>0, <1>1, <1>7 DEF DiskType, Life, Bind, CompleteClear, Open, Close
<1>8. ASSUME NEW e \in Entries, LateArrives(e) PROVE VerdictStep
  BY <1>1, <1>8 DEF LateArrives
<1>9. CASE UNCHANGED vars
  BY <1>1, <1>9 DEF vars
<1> QED
  BY <1>5, <1>6, <1>7, <1>8, <1>9 DEF Next

THEOREM NothingLeavesUndecided == Spec => LeavesOnVerdict
<1>1. DeliveryInv /\ [Next]_vars
        => [dropped' = dropped =>
              /\ disk.entries \ disk'.entries \subseteq applied \cup refused
              /\ \A e \in disk.rejected \ disk'.rejected :
                   \E t \in Tabs : Ready(t) /\ e \in mem[t].shown]_vars
  BY StepOnVerdict DEF VerdictStep
<1> QED
  BY <1>1, DeliveryInit, DeliveryStep, PTL DEF Spec, LeavesOnVerdict

-----------------------------------------------------------------------------
(* SyncQueue implements SaleOutbox.                                        *)

\* An entry the queue sends is one the outbox may send.
LEMMA SentInTurn ==
    ASSUME DeliveryInv, NEW e \in Entries, e \in accepted, Ruled(e)
    PROVE  Outbox!InTurn(e)
<1>1. before[e] \subseteq Entries
  BY DEF DeliveryInv, DocumentInv, IndType, TypeOK
<1> QED
  BY <1>1 DEF Outbox!InTurn, Ruled, Precedes, Settled

LEMMA Applied ==
    ASSUME DeliveryInv, NEW e \in Entries, e \in accepted, Ruled(e),
           applied' = applied \cup {e}, UNCHANGED refused, UNCHANGED pastVars,
           disk'.entries = disk.entries, disk'.rejected = disk.rejected
    PROVE  Outbox!Next
BY SentInTurn DEF Outbox!Next, Outbox!Apply, pastVars

LEMMA Refused ==
    ASSUME DeliveryInv, NEW e \in Entries, e \in accepted, Ruled(e), e \notin applied,
           refused' = refused \cup {e}, UNCHANGED applied, UNCHANGED pastVars,
           disk'.entries = disk.entries, disk'.rejected = disk.rejected
    PROVE  Outbox!Next
BY SentInTurn DEF Outbox!Next, Outbox!Refuse, pastVars

LEMMA StepImplements ==
    DeliveryInv /\ [Next]_vars => [Outbox!Next]_(Outbox!outbox)
<1> SUFFICES ASSUME DeliveryInv, [Next]_vars
             PROVE  Outbox!Next \/ UNCHANGED Outbox!outbox
  OBVIOUS
<1>0. disk \in DiskType /\ IndType
  BY DEF DeliveryInv, DocumentInv, IndType, TypeOK
<1>1. ASSUME UNCHANGED <<serverVars, pastVars>>,
             disk'.entries = disk.entries, disk'.rejected = disk.rejected
      PROVE  UNCHANGED Outbox!outbox
  BY <1>1 DEF Outbox!outbox, serverVars, pastVars
<1>2. ASSUME NEW t \in Tabs, NEW e \in Entries, Enqueue(t, e) PROVE Outbox!Next
  <2>1. Outbox!Accept(e)
    BY <1>0, <1>2 DEF Outbox!Accept, Enqueue, DiskType, serverVars
  <2> QED
    BY <2>1 DEF Outbox!Next
<1>3. ASSUME NEW t \in Tabs, ServerApplies(t) \/ ServerRefuses(t) PROVE Outbox!Next
  <2>1. /\ InFlight(t) = {flush[t].cur}
        /\ flush[t].cur \in accepted /\ Ruled(flush[t].cur)
        /\ flush[t].cur \in Entries
    BY <1>0, <1>3, InFlightIsCur, LeavesInOrder, TypeUse DEF ServerApplies, ServerRefuses
  <2> QED
    BY <1>3, <2>1, Applied, Refused DEF ServerApplies, ServerRefuses
<1>4. ASSUME NEW e \in Entries, LateArrives(e)
      PROVE  Outbox!Next \/ UNCHANGED Outbox!outbox
  <2>1. e \in accepted /\ Ruled(e)
    BY <1>4 DEF LateArrives, DeliveryInv, SentInOrder
  <2>2. CASE UNCHANGED serverVars
    BY <1>1, <1>4, <2>2 DEF LateArrives
  <2>3. CASE ~UNCHANGED serverVars
    BY <1>4, <2>1, <2>3, Applied, Refused DEF LateArrives
  <2> QED
    BY <2>2, <2>3
<1>5. ASSUME NEW t \in Tabs, FlushCommit(t) PROVE Outbox!Next
  <2> DEFINE done == disk.entries \cap flush[t].sent
             kept == disk.entries \cap flush[t].perm
  <2>1. done \subseteq disk.entries \cap applied /\ kept \subseteq disk.entries \cap refused
    BY DEF DeliveryInv, PassesInOrder, InOrder
  <2>2. /\ disk'.entries = disk.entries \ (done \cup kept)
        /\ disk'.rejected = disk.rejected \cup kept
    BY <1>0, <1>5 DEF DiskType, FlushCommit, Leaving, Refusals
  <2>3. Outbox!Settle(done, kept)
    BY <1>5, <2>1, <2>2 DEF Outbox!Settle, FlushCommit, serverVars, pastVars
  <2>4. done \in SUBSET disk.entries /\ kept \in SUBSET disk.entries
    OBVIOUS
  <2> HIDE DEF done, kept
  <2> QED
    BY <2>3, <2>4 DEF Outbox!Next
<1>6. ASSUME NEW t \in Tabs, Acknowledge(t) PROVE Outbox!Next
  <2> DEFINE seen == disk.rejected \cap mem[t].shown
  <2>1. Outbox!Acknowledge(seen)
    BY <1>0, <1>6 DEF Outbox!Acknowledge, Acknowledge, DiskType, serverVars
  <2>2. seen \in SUBSET disk.rejected
    OBVIOUS
  <2> HIDE DEF seen
  <2> QED
    BY <2>1, <2>2 DEF Outbox!Next
<1>7. ASSUME NEW t \in Tabs, ClearCommit(t)
      PROVE  Outbox!Next \/ UNCHANGED Outbox!outbox
  <2>1. CASE RequireEmpty
    BY <1>7, <2>1 DEF ClearCommit, HasMatter, Outbox!outbox, serverVars
  <2>2. CASE ~RequireEmpty
    BY <1>7, <2>2 DEF ClearCommit, Outbox!Next, Outbox!Discard, serverVars
  <2> QED
    BY <2>1, <2>2
<1>8. ASSUME NEW t \in Tabs, Pass(t) PROVE Outbox!Next \/ UNCHANGED Outbox!outbox
  BY <1>1, <1>3, <1>5, <1>8
     DEF Pass, Tick, FlushStart, FlushPick, FlushSkip, FlushSend, FlushReads,
         FlushCommitFails, NetworkFails, ScopeLost
<1>9. ASSUME NEW t \in Tabs, Use(t) PROVE Outbox!Next \/ UNCHANGED Outbox!outbox
  BY <1>1, <1>2, <1>6, <1>7, <1>9 DEF Use, ClearBegin, ClearRefused, ClearFails
<1>10. ASSUME NEW t \in Tabs, Life(t) PROVE UNCHANGED Outbox!outbox
  <2>1. disk'.entries = disk.entries /\ disk'.rejected = disk.rejected
    BY <1>0, <1>10 DEF DiskType, Life, Bind, CompleteClear, Open, Close
  <2> QED
    BY <1>1, <1>10, <2>1 DEF Life, Bind, CompleteClear, Open, Close
<1>11. CASE UNCHANGED vars
  BY <1>1, <1>11 DEF vars
<1> QED
  BY <1>4, <1>8, <1>9, <1>10, <1>11 DEF Next

LEMMA InitImplements == Init => Outbox!Init
BY DEF Init, EmptyDisk, Outbox!Init

\* Whatever the windows interleave, the staff sees the abstract outbox.
THEOREM QueueImplementsOutbox == Spec => ImplementsOutbox
BY InitImplements, StepImplements, DeliveryInit, DeliveryStep, PTL
   DEF Spec, ImplementsOutbox, Outbox!Spec

\* The document is always one a window can read, of the pairing it is bound to.
THEOREM DocumentAlwaysSound == Spec => []DocumentSound
BY TypeCorrect, DocumentStaysReadable, MatterStaysWithItsScope, PTL DEF DocumentSound
=============================================================================
