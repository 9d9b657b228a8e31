------------------------- MODULE KitchenBoardProofs -------------------------
(***************************************************************************)
(* Proofs about KitchenBoard, for any number of tickets, of polls in       *)
(* flight and of taps.                                                     *)
(*                                                                         *)
(* Whatever may reach the board, from a list a poll has read, a tap that   *)
(* is not shown yet or the photo on the tablet, is known: the server has   *)
(* gone as far, or will be asked to.  What is known stays known, because   *)
(* the server never goes back and the queue gives up a gesture only on an  *)
(* answer.  A merge shows nothing but what it was given.                   *)
(***************************************************************************)
EXTENDS KitchenBoard, SequenceTheorems, TLAPS

TapStatuses == {"preparing", "ready", "delivered"}

Screen == [open : BOOLEAN, reading : BOOLEAN, hydrated : BOOLEAN,
           board : [Orders -> Shown], hidden : SUBSET Orders]
Disk == [board : [Orders -> Shown], hidden : (SUBSET Orders) \cup {None}]
Poll == [busy : BOOLEAN, unread : SUBSET BoardStatuses, seen : [Orders -> SUBSET BoardStatuses]]

ServerTyped == status \in [Orders -> Shown \cup Terminals]
QueueTyped == /\ outbox \in [Orders -> Seq(TapStatuses)]
              /\ handed \subseteq Orders /\ refused \subseteq Orders
TabletTyped == /\ screen \in Screen /\ disk \in Disk
               /\ tapped \in [Orders -> SUBSET TapStatuses]
               /\ taps \in [Orders -> 0..MaxTaps]
PollsTyped == polls \in [Polls -> Poll]
Typed == ServerTyped /\ QueueTyped /\ TabletTyped /\ PollsTyped

\* The server has taken the ticket to s or further, has closed it, has been
\* asked to take it to s, or has refused something of it.
Known(o, s) ==
    /\ status[o] # None
    /\ \/ status[o] \in Terminals \/ o \in refused
       \/ StatusRank[status[o]] >= StatusRank[s]
       \/ s \in Range(outbox[o])

BoardKnown == \A o \in Orders : screen.board[o] # None => Known(o, screen.board[o])
PhotoKnown == \A o \in Orders : disk.board[o] # None => Known(o, disk.board[o])
TappedKnown == \A o \in Orders : \A s \in tapped[o] : Known(o, s)
SeenKnown == \A p \in Polls, o \in Orders : \A s \in polls[p].seen[o] : Known(o, s)
QueuedExists == \A o \in Orders : outbox[o] # <<>> => status[o] # None
KnownInv == BoardKnown /\ PhotoKnown /\ TappedKnown /\ SeenKnown /\ QueuedExists

HiddenKept == \A o \in screen.hidden : DeliveryKept(o)
StoredKept == disk.hidden # None => \A o \in disk.hidden : DeliveryKept(o)
TappedKept == \A o \in Orders : "delivered" \in tapped[o] => DeliveryKept(o)
KeptInv == HiddenKept /\ StoredKept /\ TappedKept

BeyondTyped == beyond \subseteq Orders

BoardIInv == Typed /\ BeyondTyped /\ KnownInv /\ KeptInv
-----------------------------------------------------------------------------
(* Operators.                                                              *)

LEMMA RangeOfAppend ==
    ASSUME NEW S, NEW q \in Seq(S), NEW e \in S
    PROVE  Append(q, e) \in Seq(S) /\ Range(Append(q, e)) = Range(q) \cup {e}
<1>1. /\ Append(q, e) \in Seq(S) /\ Len(Append(q, e)) = Len(q) + 1
      /\ \A i \in 1..Len(q) : Append(q, e)[i] = q[i]
      /\ Append(q, e)[Len(q) + 1] = e
  BY AppendProperties
<1>2. Len(q) \in Nat /\ DOMAIN q = 1..Len(q) /\ DOMAIN Append(q, e) = 1..(Len(q) + 1)
  BY <1>1, LenProperties
<1> QED BY <1>1, <1>2 DEF Range

LEMMA RangeOfTail ==
    ASSUME NEW S, NEW q \in Seq(S), q # <<>>
    PROVE  /\ Head(q) \in S /\ Tail(q) \in Seq(S)
           /\ Range(q) = Range(Tail(q)) \cup {Head(q)}
<1>1. /\ Head(q) \in S /\ Tail(q) \in Seq(S) /\ Len(Tail(q)) = Len(q) - 1
      /\ \A i \in 1..Len(Tail(q)) : Tail(q)[i] = q[i + 1]
  BY HeadTailProperties
<1>2. Len(q) \in Nat /\ DOMAIN q = 1..Len(q) /\ DOMAIN Tail(q) = 1..Len(Tail(q))
  BY <1>1, LenProperties
<1>3. Len(q) # 0
  BY EmptySeq
<1>4. Head(q) = q[1]
  OBVIOUS
<1>5. Range(Tail(q)) \cup {Head(q)} \subseteq Range(q)
  BY <1>1, <1>2, <1>3, <1>4 DEF Range
<1>6. ASSUME NEW i \in 1..Len(q), i # 1 PROVE i - 1 \in 1..Len(Tail(q)) /\ Tail(q)[i - 1] = q[i]
  <2>1. i - 1 \in 1..Len(Tail(q)) /\ (i - 1) + 1 = i
    BY <1>1, <1>2, <1>6
  <2> QED BY <1>1, <2>1
<1>7. Range(q) \subseteq Range(Tail(q)) \cup {Head(q)}
  BY <1>2, <1>4, <1>6 DEF Range
<1> QED BY <1>1, <1>5, <1>7

\* A merge gives one of the two statuses, and never an earlier one.
LEMMA MergeAdvances ==
    ASSUME NEW current \in Shown, NEW incoming \in BoardStatuses
    PROVE  /\ Merge(current, incoming) \in BoardStatuses \cap {current, incoming}
           /\ current # None => StatusRank[Merge(current, incoming)] >= StatusRank[current]
<1>1. CASE current = None
  BY <1>1 DEF Merge
<1>2. CASE current \in BoardStatuses
  <2>1. current # None /\ Merge(current, incoming) = MostAdvanced(current, incoming)
    BY <1>2, BoardAssumption DEF BoardStatuses, Merge
  <2>2. /\ current \notin Terminals /\ incoming \notin Terminals
        /\ StatusRank[current] \in Int /\ StatusRank[incoming] \in Int
    BY <1>2 DEF BoardStatuses, Terminals, StatusRank
  <2> QED BY <1>2, <2>1, <2>2 DEF MostAdvanced
<1> QED BY <1>1, <1>2 DEF Shown

\* The rows of a poll give the ticket one of the statuses they are in, or
\* leave it the one it has.
LEMMA RowsAdvance ==
    ASSUME Typed, NEW p \in Polls, NEW o \in Orders
    PROVE  /\ Polled(p, o) \in {None, screen.board[o]} \cup polls[p].seen[o]
           /\ Polled(p, o) \in Shown
           /\ screen.board[o] # None /\ Polled(p, o) # None
                => StatusRank[Polled(p, o)] >= StatusRank[screen.board[o]]
<1> DEFINE seen == polls[p].seen[o]
           first == WithRow(p, o, "new", screen.board[o])
           second == WithRow(p, o, "preparing", first)
           third == WithRow(p, o, "ready", second)
           Later(x, y) == /\ x \in Shown /\ x \in {y} \cup seen
                          /\ y # None => x # None /\ StatusRank[x] >= StatusRank[y]
<1>1. screen.board[o] \in Shown /\ seen \subseteq BoardStatuses
  BY DEF Typed, TabletTyped, PollsTyped, Screen, Poll
<1>2. \A x \in BoardStatuses : StatusRank[x] \in Int /\ x # None
  BY BoardAssumption DEF BoardStatuses, StatusRank
<1>3. ASSUME NEW s \in BoardStatuses, NEW c \in Shown PROVE Later(WithRow(p, o, s, c), c)
  <2>1. CASE s \in seen
    <3>1. WithRow(p, o, s, c) = Merge(c, s)
      BY <2>1 DEF WithRow
    <3>2. /\ Merge(c, s) \in BoardStatuses \cap {c, s}
          /\ c # None => StatusRank[Merge(c, s)] >= StatusRank[c]
      BY MergeAdvances
    <3> QED BY <1>2, <2>1, <3>1, <3>2 DEF Shown
  <2>2. CASE s \notin seen
    <3>1. WithRow(p, o, s, c) = c
      BY <2>2 DEF WithRow
    <3> QED BY <1>2, <3>1 DEF Shown
  <2> QED BY <2>1, <2>2
<1>4. Later(first, screen.board[o]) /\ Later(second, first) /\ Later(third, second)
  BY <1>1, <1>3 DEF BoardStatuses
<1>5. Later(third, screen.board[o])
  <2> HIDE DEF first, second, third, seen
  <2> QED BY <1>1, <1>2, <1>4 DEF Shown
<1>6. WithRows(p, o) = third
  BY DEF WithRows
<1> HIDE DEF third
<1> QED BY <1>5, <1>6 DEF Polled, Shown

-----------------------------------------------------------------------------
(* What is known stays known, and what is kept stays kept.                 *)

\* Nothing but the server and the queue moves what they hold.
world == <<status, queueVars>>

\* The server takes the first gesture of a ticket, or refuses it.
LEMMA FlushedSplits ==
    ASSUME Typed, NEW o \in Orders, Flushed(o)
    PROVE  /\ Head(outbox[o]) \in TapStatuses
           /\ outbox' \in [Orders -> Seq(TapStatuses)]
           /\ Range(outbox[o]) = Range(outbox'[o]) \cup {Head(outbox[o])}
           /\ \A x \in Orders : x # o => outbox'[x] = outbox[x]
           /\ handed' \subseteq Orders /\ handed \subseteq handed'
           /\ Head(outbox[o]) = "delivered" => o \in handed'
           /\ outbox[o] # <<>>
<1>1. outbox[o] \in Seq(TapStatuses) /\ outbox[o] # <<>>
      /\ outbox' = [outbox EXCEPT ![o] = Tail(@)]
      /\ handed' = handed \cup {x \in {o} : Head(outbox[o]) = "delivered"}
  BY DEF Typed, QueueTyped, Flushed
<1>2. /\ Head(outbox[o]) \in TapStatuses /\ Tail(outbox[o]) \in Seq(TapStatuses)
      /\ Range(outbox[o]) = Range(Tail(outbox[o])) \cup {Head(outbox[o])}
  BY <1>1, RangeOfTail
<1> QED BY <1>1, <1>2 DEF Typed, QueueTyped

LEMMA TapQueues ==
    ASSUME BoardIInv, NEW o \in Orders, Tap(o)
    PROVE  /\ screen.board[o] \in BoardStatuses
           /\ Following[screen.board[o]] \in TapStatuses
           /\ outbox' \in [Orders -> Seq(TapStatuses)]
           /\ Range(outbox'[o]) = Range(outbox[o]) \cup {Following[screen.board[o]]}
           /\ \A x \in Orders : x # o => outbox'[x] = outbox[x]
           /\ status[o] # None
<1>1. screen.board[o] \in BoardStatuses /\ status[o] # None
  BY DEF BoardIInv, Typed, TabletTyped, Screen, Shown, Tap, KnownInv, BoardKnown, Known
<1>2. Following[screen.board[o]] \in TapStatuses
  BY <1>1 DEF BoardStatuses, Following, TapStatuses
<1>3. outbox[o] \in Seq(TapStatuses)
      /\ outbox' = [outbox EXCEPT ![o] = Append(@, Following[screen.board[o]])]
  BY DEF BoardIInv, Typed, QueueTyped, Tap
<1>4. /\ Append(outbox[o], Following[screen.board[o]]) \in Seq(TapStatuses)
      /\ Range(Append(outbox[o], Following[screen.board[o]]))
           = Range(outbox[o]) \cup {Following[screen.board[o]]}
  BY <1>2, <1>3, RangeOfAppend
<1> QED BY <1>1, <1>2, <1>3, <1>4 DEF BoardIInv, Typed, QueueTyped

\* The actions on the screen, the tablet and the polls, and the orders of others.
Quiet ==
    \/ \E o \in Orders : \E s \in tapped[o] : TapShown(o, s)
    \/ \E p \in Polls :
         PollStart(p) \/ (\E s \in BoardStatuses : ReadList(p, s)) \/ PollDone(p) \/ PollFails(p)
    \/ SaveBoard \/ SaveHidden \/ Open \/ Hydrate \/ SwitchOff
    \/ \E o \in Orders : Crowded(o) \/ Thinned(o)

LEMMA QuietLeavesWorld == Quiet => UNCHANGED world
BY DEF Quiet, world, queueVars, localVars, TapShown, PollStart, ReadList, PollDone, PollFails,
       SaveBoard, SaveHidden, Open, Hydrate, SwitchOff, Crowded, Thinned

\* Newer orders, in a list, do not touch the ticket.
LEMMA RushLeavesRest ==
    ASSUME NEW o \in Orders, Crowded(o) \/ Thinned(o)
    PROVE  UNCHANGED <<status, queueVars, localVars, polls, taps>>
BY DEF Crowded, Thinned

LEMMA BoardSteps ==
    ASSUME BoardNext
    PROVE  \/ \E o \in Orders : Create(o) \/ StaffMoves(o) \/ ServerTakes(o) \/ ServerRefuses(o)
                                \/ Tap(o)
           \/ Quiet
BY DEF BoardNext, Quiet

LEMMA KnownStays ==
    ASSUME BoardIInv, [BoardNext]_boardVars, NEW o \in Orders,
           NEW s \in BoardStatuses \cup TapStatuses, Known(o, s)
    PROVE  Known(o, s)'
<1>1. CASE UNCHANGED world
  BY <1>1 DEF world, queueVars, Known
<1>2. ASSUME NEW x \in Orders,
             Create(x) \/ StaffMoves(x) \/ ServerTakes(x) \/ ServerRefuses(x) \/ Tap(x)
      PROVE  Known(o, s)'
  <2>1. /\ status \in [Orders -> Shown \cup Terminals] /\ status[o] # None
        /\ StatusRank[s] \in Int
        /\ \A z \in BoardStatuses \cup Terminals : StatusRank[z] \in Int
    BY DEF BoardIInv, Typed, ServerTyped, Known, StatusRank, BoardStatuses, TapStatuses, Terminals
  <2>2. CASE Create(x)
    <3>1. x # o /\ outbox' = outbox /\ refused' = refused /\ status'[o] = status[o]
      BY <2>1, <2>2 DEF Create, queueVars
    <3> QED BY <3>1 DEF Known
  <2>3. CASE StaffMoves(x)
    <3>1. outbox' = outbox /\ refused' = refused /\ (x # o => status'[o] = status[o])
      BY <2>1, <2>3 DEF StaffMoves, queueVars
    <3>2. CASE x = o
      <4>1. PICK z \in BoardStatuses \cup Terminals :
                 /\ z = "cancelled" \/ StatusRank[z] > StatusRank[status[o]]
                 /\ status' = [status EXCEPT ![o] = z]
        BY <2>3, <3>2 DEF StaffMoves
      <4>2. status'[o] = z /\ z # None
        BY <2>1, <4>1, BoardAssumption DEF BoardStatuses, Terminals
      <4>3. status[o] \in BoardStatuses
        BY <2>3, <3>2 DEF StaffMoves
      <4>4. status[o] \notin Terminals /\ "cancelled" \in Terminals
        BY <4>3 DEF BoardStatuses, Terminals
      <4> QED BY <2>1, <3>1, <4>1, <4>2, <4>3, <4>4 DEF Known
    <3> QED BY <3>1, <3>2 DEF Known
  <2>4. CASE ServerTakes(x)
    <3>1. refused' = refused /\ status' = [status EXCEPT ![x] = Moved(@, Head(outbox[x]))]
      BY <2>4 DEF ServerTakes
    <3>2. CASE x # o
      BY <2>1, <2>4, <3>1, <3>2, FlushedSplits DEF ServerTakes, Known, BoardIInv
    <3>3. CASE x = o
      <4> DEFINE h == Head(outbox[o])
      <4>1. h \in TapStatuses /\ Range(outbox[o]) = Range(outbox'[o]) \cup {h}
        BY <2>4, <3>3, FlushedSplits DEF ServerTakes, BoardIInv
      <4>2. status'[o] = Moved(status[o], h)
        BY <2>1, <3>1, <3>3
      <4> HIDE DEF h
      <4>3. h # None /\ StatusRank[h] \in Int
        BY <4>1, BoardAssumption DEF TapStatuses, StatusRank
      <4>4. /\ status'[o] # None
            /\ status[o] \in Terminals => status'[o] = status[o]
            /\ status[o] \notin Terminals => /\ StatusRank[status'[o]] >= StatusRank[status[o]]
                                             /\ StatusRank[status'[o]] >= StatusRank[h]
                                             /\ status'[o] \in {h, status[o]}
        BY <2>1, <4>2, <4>3 DEF Moved, Shown
      <4>5. \A z \in {h, status[o]} : StatusRank[z] \in Int
        BY <2>1, <4>3 DEF Shown
      <4> QED BY <2>1, <3>1, <4>1, <4>4, <4>5 DEF Known
    <3> QED BY <3>2, <3>3
  <2>5. CASE ServerRefuses(x)
    <3>1. status' = status /\ refused' = refused \cup {x}
      BY <2>5 DEF ServerRefuses
    <3>2. x # o => outbox'[o] = outbox[o]
      BY <2>5, FlushedSplits DEF ServerRefuses, BoardIInv
    <3> QED BY <3>1, <3>2 DEF Known
  <2>6. CASE Tap(x)
    <3>1. status' = status /\ refused' = refused
      BY <2>6 DEF Tap
    <3>2. Range(outbox[o]) \subseteq Range(outbox'[o])
      BY <2>6, TapQueues
    <3> QED BY <3>1, <3>2 DEF Known
  <2> QED BY <1>2, <2>2, <2>3, <2>4, <2>5, <2>6
<1> QED BY <1>1, <1>2, BoardSteps, QuietLeavesWorld DEF boardVars, world

LEMMA KeptStays ==
    ASSUME BoardIInv, [BoardNext]_boardVars, NEW o \in Orders, DeliveryKept(o)
    PROVE  DeliveryKept(o)'
<1>1. CASE UNCHANGED world
  BY <1>1 DEF world, queueVars, DeliveryKept
<1>2. ASSUME NEW x \in Orders, Create(x) \/ StaffMoves(x) PROVE DeliveryKept(o)'
  BY <1>2 DEF Create, StaffMoves, queueVars, DeliveryKept
<1>3. ASSUME NEW x \in Orders, ServerTakes(x) \/ ServerRefuses(x) PROVE DeliveryKept(o)'
  <2>1. Flushed(x)
    BY <1>3 DEF ServerTakes, ServerRefuses
  <2>2. /\ Range(outbox[x]) = Range(outbox'[x]) \cup {Head(outbox[x])}
        /\ x # o => outbox'[o] = outbox[o]
        /\ handed \subseteq handed' /\ (Head(outbox[x]) = "delivered" => x \in handed')
    BY <2>1, FlushedSplits DEF BoardIInv
  <2> QED BY <2>2 DEF DeliveryKept
<1>4. ASSUME NEW x \in Orders, Tap(x) PROVE DeliveryKept(o)'
  <2>1. Range(outbox[o]) \subseteq Range(outbox'[o]) /\ handed' = handed
    BY <1>4, TapQueues DEF Tap
  <2> QED BY <2>1 DEF DeliveryKept
<1> QED BY <1>1, <1>2, <1>3, <1>4, BoardSteps, QuietLeavesWorld DEF boardVars, world
-----------------------------------------------------------------------------
(* The types, one action at a time.                                        *)

LEMMA BlankTyped == Blank \in Screen /\ EmptyBoard \in [Orders -> Shown] /\ Idle \in Poll
BY DEF Blank, EmptyBoard, Idle, Screen, Poll, Shown

LEMMA BoardReplaced ==
    ASSUME NEW x \in Screen, NEW b \in [Orders -> Shown], NEW h \in SUBSET Orders
    PROVE  /\ [x EXCEPT !.board = b] \in Screen
           /\ [x EXCEPT !.hidden = h, !.board = b] \in Screen
BY DEF Screen

\* What the server's and the queue's steps leave alone.
LEMMA WorldTyped ==
    ASSUME BoardIInv, NEW o \in Orders,
           Create(o) \/ StaffMoves(o) \/ ServerTakes(o) \/ ServerRefuses(o) \/ Tap(o)
    PROVE  Typed'
<1> USE DEF BoardIInv, Typed
<1>1. \A x \in BoardStatuses \cup Terminals : x \in Shown \cup Terminals
  BY DEF Shown
<1>2. CASE Create(o)
  <2>1. status' \in [Orders -> Shown \cup Terminals]
    BY <1>2 DEF Create, ServerTyped, Shown, BoardStatuses
  <2> QED BY <1>2, <2>1 DEF Create, queueVars, localVars, ServerTyped, QueueTyped, TabletTyped,
                            PollsTyped
<1>3. CASE StaffMoves(o)
  <2>1. status' \in [Orders -> Shown \cup Terminals]
    BY <1>1, <1>3 DEF StaffMoves, ServerTyped
  <2> QED BY <1>3, <2>1 DEF StaffMoves, queueVars, localVars, ServerTyped, QueueTyped,
                            TabletTyped, PollsTyped
<1>4. CASE ServerTakes(o)
  <2>1. Head(outbox[o]) \in Shown \cup Terminals
    BY <1>4, FlushedSplits DEF ServerTakes, TapStatuses, Shown, BoardStatuses, Terminals
  <2>2. status' \in [Orders -> Shown \cup Terminals]
    BY <1>4, <2>1 DEF ServerTakes, Moved, ServerTyped
  <2> QED BY <1>4, <2>2, FlushedSplits DEF ServerTakes, localVars, ServerTyped, QueueTyped,
                                           TabletTyped, PollsTyped
<1>5. CASE ServerRefuses(o)
  BY <1>5, FlushedSplits DEF ServerRefuses, localVars, ServerTyped, QueueTyped, TabletTyped,
                             PollsTyped
<1>6. CASE Tap(o)
  <2>1. tapped' \in [Orders -> SUBSET TapStatuses]
    BY <1>6, TapQueues DEF Tap, TabletTyped
  <2>2. taps[o] \in 0..MaxTaps /\ taps[o] < MaxTaps => taps[o] + 1 \in 0..MaxTaps
    BY BoardAssumption
  <2>3. taps' \in [Orders -> 0..MaxTaps]
    BY <1>6, <2>2 DEF Tap, TabletTyped
  <2> QED BY <1>6, <2>1, <2>3, TapQueues DEF Tap, ServerTyped, QueueTyped, TabletTyped, PollsTyped
<1> QED BY <1>2, <1>3, <1>4, <1>5, <1>6

LEMMA QuietTyped ==
    ASSUME BoardIInv, Quiet
    PROVE  Typed'
<1> USE DEF BoardIInv, Typed
<1>1. ServerTyped' /\ QueueTyped' /\ screen \in Screen /\ disk \in Disk
      /\ tapped \in [Orders -> SUBSET TapStatuses]
  BY QuietLeavesWorld DEF world, queueVars, ServerTyped, QueueTyped, TabletTyped
<1>2. ASSUME NEW o \in Orders, NEW s \in tapped[o], TapShown(o, s) PROVE Typed'
  <2>1. tapped' \in [Orders -> SUBSET TapStatuses] /\ screen.board \in [Orders -> Shown]
        /\ screen.hidden \in SUBSET Orders
    BY <1>1, <1>2 DEF TapShown, Screen
  <2>2. screen' \in Screen
    <3>1. CASE s = "delivered"
      <4>1. screen' = [screen EXCEPT !.hidden = screen.hidden \cup {o},
                                     !.board = [screen.board EXCEPT ![o] = None]]
        BY <1>2, <3>1 DEF TapShown
      <4>2. [screen.board EXCEPT ![o] = None] \in [Orders -> Shown]
        BY <2>1 DEF Shown
      <4>3. screen.hidden \cup {o} \in SUBSET Orders
        BY <2>1
      <4> QED BY <1>1, <4>1, <4>2, <4>3, BoardReplaced
    <3>2. CASE s # "delivered"
      <4>1. s \in BoardStatuses
        BY <1>1, <1>2, <3>2 DEF TapStatuses, BoardStatuses
      <4>2. [screen.board EXCEPT ![o] = Merge(screen.board[o], s)] \in [Orders -> Shown]
        BY <2>1, <4>1, MergeAdvances DEF Shown
      <4>3. screen' = [screen EXCEPT !.board = [screen.board EXCEPT ![o] = Merge(screen.board[o], s)]]
        BY <1>2, <3>2 DEF TapShown
      <4> QED BY <1>1, <2>1, <4>2, <4>3, BoardReplaced
    <3> QED BY <3>1, <3>2
  <2> QED BY <1>1, <1>2, <2>1, <2>2 DEF TapShown, TabletTyped, PollsTyped
<1>3. ASSUME NEW p \in Polls, PollStart(p) \/ PollFails(p) PROVE Typed'
  <2>1. [Idle EXCEPT !.busy = TRUE, !.unread = BoardStatuses] \in Poll /\ Idle \in Poll
    BY BlankTyped DEF Poll
  <2>2. polls' \in [Polls -> Poll]
    BY <1>3, <2>1 DEF PollStart, PollFails, PollsTyped
  <2> QED BY <1>1, <1>3, <2>2 DEF PollStart, PollFails, localVars, TabletTyped, PollsTyped
<1>4. ASSUME NEW p \in Polls, NEW s \in BoardStatuses, ReadList(p, s) PROVE Typed'
  <2> DEFINE seen == [o \in Orders |-> polls[p].seen[o] \cup {x \in {s} : o \in Listed(x)}]
             read == [polls[p] EXCEPT !.unread = polls[p].unread \ {s}, !.seen = seen]
  <2>1. polls[p] \in Poll /\ seen \in [Orders -> SUBSET BoardStatuses]
    BY DEF PollsTyped, Poll
  <2>2. read \in Poll
    BY <2>1 DEF Poll
  <2>3. polls' = [polls EXCEPT ![p] = read]
    BY <1>4 DEF ReadList
  <2>4. polls' \in [Polls -> Poll]
    BY <2>2, <2>3 DEF PollsTyped
  <2> QED BY <1>1, <1>4, <2>4 DEF ReadList, localVars, TabletTyped, PollsTyped
<1>5. ASSUME NEW p \in Polls, PollDone(p) PROVE Typed'
  <2>1. [o \in Orders |-> Polled(p, o)] \in [Orders -> Shown]
    BY RowsAdvance
  <2>2. StillHidden(p) \in SUBSET Orders
    BY <1>1 DEF StillHidden, Screen
  <2>3. screen' \in Screen
    BY <1>1, <1>5, <2>1, <2>2 DEF PollDone, Screen
  <2>4. polls' \in [Polls -> Poll]
    BY <1>5, BlankTyped DEF PollDone, PollsTyped
  <2> QED BY <1>1, <1>5, <2>3, <2>4 DEF PollDone, TabletTyped, PollsTyped
<1>6. ASSUME SaveBoard \/ SaveHidden PROVE Typed'
  <2>1. disk' \in Disk
    BY <1>1, <1>6 DEF SaveBoard, SaveHidden, Screen, Disk
  <2> QED BY <1>1, <1>6, <2>1 DEF SaveBoard, SaveHidden, TabletTyped, PollsTyped
<1>7. ASSUME Open PROVE Typed'
  <2>1. screen' \in Screen
    BY <1>7, BlankTyped DEF Open, Screen
  <2> QED BY <1>1, <1>7, <2>1 DEF Open, TabletTyped, PollsTyped
<1>8. ASSUME Hydrate PROVE Typed'
  <2>1. screen' \in Screen
    BY <1>1, <1>8 DEF Hydrate, Screen, Disk
  <2> QED BY <1>1, <1>8, <2>1 DEF Hydrate, TabletTyped, PollsTyped
<1>9. ASSUME SwitchOff PROVE Typed'
  BY <1>1, <1>9, BlankTyped DEF SwitchOff, TabletTyped, PollsTyped
<1>10. ASSUME NEW o \in Orders, Crowded(o) \/ Thinned(o) PROVE Typed'
  BY <1>1, <1>10, RushLeavesRest DEF localVars, TabletTyped, PollsTyped
<1> QED BY <1>2, <1>3, <1>4, <1>5, <1>6, <1>7, <1>8, <1>9, <1>10 DEF Quiet

LEMMA StepBeyond == BoardIInv /\ [BoardNext]_boardVars => BeyondTyped'
<1> SUFFICES ASSUME BoardIInv, [BoardNext]_boardVars PROVE BeyondTyped'
  OBVIOUS
<1>1. CASE UNCHANGED beyond
  BY <1>1 DEF BoardIInv, BeyondTyped
<1>2. ASSUME NEW o \in Orders, Crowded(o) \/ Thinned(o) PROVE BeyondTyped'
  BY <1>2 DEF BoardIInv, BeyondTyped, Crowded, Thinned
<1>3. ASSUME NEW o \in Orders,
             \/ Create(o) \/ StaffMoves(o) \/ ServerTakes(o) \/ ServerRefuses(o) \/ Tap(o)
             \/ \E s \in tapped[o] : TapShown(o, s)
      PROVE  UNCHANGED beyond
  BY <1>3 DEF Create, StaffMoves, ServerTakes, ServerRefuses, Tap, TapShown
<1>4. ASSUME NEW p \in Polls,
             PollStart(p) \/ (\E s \in BoardStatuses : ReadList(p, s)) \/ PollDone(p) \/ PollFails(p)
      PROVE  UNCHANGED beyond
  BY <1>4 DEF PollStart, ReadList, PollDone, PollFails
<1>5. ASSUME SaveBoard \/ SaveHidden \/ Open \/ Hydrate \/ SwitchOff PROVE UNCHANGED beyond
  BY <1>5 DEF SaveBoard, SaveHidden, Open, Hydrate, SwitchOff
<1> QED BY <1>1, <1>2, <1>3, <1>4, <1>5, BoardSteps DEF Quiet, boardVars

LEMMA StepTyped == BoardIInv /\ [BoardNext]_boardVars => Typed'
<1> SUFFICES ASSUME BoardIInv, [BoardNext]_boardVars PROVE Typed'
  OBVIOUS
<1>1. CASE UNCHANGED boardVars
  BY <1>1 DEF BoardIInv, Typed, ServerTyped, QueueTyped, TabletTyped, PollsTyped, boardVars,
              queueVars, localVars
<1>2. CASE BoardNext
  BY <1>2, BoardSteps, WorldTyped, QuietTyped
<1> QED BY <1>1, <1>2

-----------------------------------------------------------------------------
(* What is on the board, in the photo, read or tapped is known.            *)

LEMMA TypeUse ==
    ASSUME Typed
    PROVE  /\ screen \in Screen /\ disk \in Disk
           /\ \A o \in Orders : /\ screen.board[o] # None => screen.board[o] \in BoardStatuses
                                /\ disk.board[o] # None => disk.board[o] \in BoardStatuses
                                /\ tapped[o] \subseteq TapStatuses
                                /\ \A p \in Polls : polls[p].seen[o] \subseteq BoardStatuses
BY DEF Typed, TabletTyped, PollsTyped, Screen, Disk, Poll, Shown

\* The statuses the tablet holds for a ticket, wherever it keeps them.
Held(o) == {screen.board[o], disk.board[o]} \cup tapped[o]
              \cup UNION {polls[p].seen[o] : p \in Polls}

LEMMA HeldKnown ==
    ASSUME BoardIInv, [BoardNext]_boardVars, NEW o \in Orders, NEW s \in Held(o), s # None
    PROVE  Known(o, s)'
<1>1. Known(o, s)
  BY DEF Held, BoardIInv, KnownInv, BoardKnown, PhotoKnown, TappedKnown, SeenKnown
<1>2. s \in BoardStatuses \cup TapStatuses
  BY TypeUse DEF Held, BoardIInv
<1> QED BY <1>1, <1>2, KnownStays

\* A step keeps what is known when all it shows, stores, queues or reads was
\* held already, or is what the server has.
LEMMA HeldSuffices ==
    ASSUME BoardIInv, [BoardNext]_boardVars,
           \A o \in Orders : /\ screen'.board[o] \in Held(o) \cup {None}
                             /\ disk'.board[o] \in Held(o) \cup {None}
                             /\ \A s \in tapped'[o] : (s \in Held(o) /\ s # None) \/ Known(o, s)'
                             /\ \A p \in Polls : \A s \in polls'[p].seen[o] :
                                  (s \in Held(o) /\ s # None) \/ Known(o, s)'
    PROVE  BoardKnown' /\ PhotoKnown' /\ TappedKnown' /\ SeenKnown'
BY HeldKnown DEF BoardKnown, PhotoKnown, TappedKnown, SeenKnown

LEMMA StillHeld ==
    ASSUME BoardIInv, NEW o \in Orders
    PROVE  /\ screen.board[o] \in Held(o) /\ disk.board[o] \in Held(o)
           /\ \A s \in tapped[o] : s \in Held(o) /\ s # None
           /\ \A p \in Polls : \A s \in polls[p].seen[o] : s \in Held(o) /\ s # None
<1>1. None \notin TapStatuses \cup BoardStatuses
  BY BoardAssumption DEF TapStatuses, BoardStatuses
<1> QED BY <1>1, TypeUse DEF Held, BoardIInv

LEMMA QueuedExistsStays ==
    ASSUME BoardIInv, [BoardNext]_boardVars
    PROVE  QueuedExists'
<1> USE DEF BoardIInv, KnownInv, QueuedExists
<1>1. status \in [Orders -> Shown \cup Terminals]
      /\ outbox \in [Orders -> Seq(TapStatuses)]
  BY DEF Typed, ServerTyped, QueueTyped
<1>2. CASE UNCHANGED world
  BY <1>2 DEF world, queueVars
<1>3. ASSUME NEW o \in Orders, Create(o) PROVE QueuedExists'
  BY <1>1, <1>3, BoardAssumption DEF Create, queueVars
<1>4. ASSUME NEW o \in Orders, StaffMoves(o) PROVE QueuedExists'
  <2>1. PICK z \in BoardStatuses \cup Terminals : status' = [status EXCEPT ![o] = z]
    BY <1>4 DEF StaffMoves
  <2>2. z # None
    BY <2>1, BoardAssumption DEF BoardStatuses, Terminals
  <2> QED BY <1>1, <1>4, <2>1, <2>2 DEF StaffMoves, queueVars
<1>5. ASSUME NEW o \in Orders, ServerTakes(o) PROVE QueuedExists'
  <2>1. Head(outbox[o]) # None /\ outbox[o] # <<>>
    BY <1>5, FlushedSplits, BoardAssumption DEF ServerTakes, TapStatuses
  <2>2. \A x \in Orders : status'[x] # status[x] => status'[x] # None
    BY <1>1, <1>5, <2>1 DEF ServerTakes, Moved
  <2>3. \A x \in Orders : x # o => outbox'[x] = outbox[x]
    BY <1>5, FlushedSplits DEF ServerTakes
  <2> QED BY <2>1, <2>2, <2>3
<1>6. ASSUME NEW o \in Orders, ServerRefuses(o) PROVE QueuedExists'
  BY <1>6, FlushedSplits DEF ServerRefuses
<1>7. ASSUME NEW o \in Orders, Tap(o) PROVE QueuedExists'
  BY <1>7, TapQueues DEF Tap
<1> QED BY <1>2, <1>3, <1>4, <1>5, <1>6, <1>7, BoardSteps, QuietLeavesWorld DEF boardVars, world

LEMMA StepKnown ==
    ASSUME BoardIInv, [BoardNext]_boardVars
    PROVE  KnownInv'
<1>1. Typed
  BY DEF BoardIInv
<1>2. CASE UNCHANGED <<screen, disk, polls, tapped>>
  BY <1>2, StillHeld, HeldSuffices, QueuedExistsStays DEF KnownInv
<1>3. ASSUME NEW o \in Orders, Tap(o) PROVE KnownInv'
  <2>0. PICK s : s = Following[screen.board[o]]
    OBVIOUS
  <2>1. /\ status[o] # None /\ s \in Range(outbox'[o])
        /\ status' = status /\ UNCHANGED <<screen, disk, polls>>
        /\ tapped' = [tapped EXCEPT ![o] = tapped[o] \cup {s}]
    BY <1>3, <2>0, TapQueues DEF Tap
  <2>2. Known(o, s)'
    BY <2>1 DEF Known
  <2>3. \A x \in Orders : \A z \in tapped'[x] : z \in tapped[x] \/ Known(x, z)'
    BY <1>1, <2>1, <2>2 DEF Typed, TabletTyped
  <2> QED BY <2>1, <2>3, StillHeld, HeldSuffices, QueuedExistsStays DEF KnownInv
<1>4. ASSUME NEW o \in Orders, NEW s \in tapped[o], TapShown(o, s) PROVE KnownInv'
  <2>1. UNCHANGED <<disk, polls>> /\ \A x \in Orders : tapped'[x] \subseteq tapped[x]
    BY <1>1, <1>4 DEF TapShown, Typed, TabletTyped
  <2>2. \A x \in Orders : screen'.board[x] \in {None, screen.board[x]} \cup tapped[x]
    <3>1. screen \in Screen /\ screen.board \in [Orders -> Shown]
      BY <1>1, TypeUse DEF Screen
    <3>2. CASE s = "delivered"
      <4>1. screen'.board = [screen.board EXCEPT ![o] = None]
        BY <1>4, <3>1, <3>2 DEF TapShown, Screen
      <4> QED BY <3>1, <4>1
    <3>3. CASE s # "delivered"
      <4>1. screen'.board = [screen.board EXCEPT ![o] = Merge(screen.board[o], s)]
        BY <1>4, <3>1, <3>3 DEF TapShown, Screen
      <4>2. s \in BoardStatuses
        BY <1>1, <3>3, TypeUse DEF TapStatuses, BoardStatuses
      <4>3. Merge(screen.board[o], s) \in {screen.board[o], s}
        BY <3>1, <4>2, MergeAdvances
      <4> QED BY <3>1, <4>1, <4>3
    <3> QED BY <3>2, <3>3
  <2>3. \A x \in Orders : screen'.board[x] \in Held(x) \cup {None}
    BY <2>2, StillHeld
  <2> QED BY <2>1, <2>3, StillHeld, HeldSuffices, QueuedExistsStays DEF KnownInv
<1>5. ASSUME NEW p \in Polls, PollStart(p) \/ PollFails(p) PROVE KnownInv'
  <2>1. UNCHANGED <<screen, disk, tapped>>
    BY <1>5 DEF PollStart, PollFails, localVars
  <2>2. \A q \in Polls, o \in Orders : polls'[q].seen[o] \subseteq polls[q].seen[o]
    <3>1. PICK r \in Poll : /\ r.seen = [o \in Orders |-> {}]
                            /\ polls' = [polls EXCEPT ![p] = r]
      <4>1. Idle \in Poll /\ [Idle EXCEPT !.busy = TRUE, !.unread = BoardStatuses] \in Poll
        BY BlankTyped DEF Poll
      <4>2. /\ Idle.seen = [o \in Orders |-> {}]
            /\ [Idle EXCEPT !.busy = TRUE, !.unread = BoardStatuses].seen = [o \in Orders |-> {}]
        BY DEF Idle
      <4> QED BY <1>5, <4>1, <4>2 DEF PollStart, PollFails
    <3> QED BY <1>1, <3>1 DEF Typed, PollsTyped
  <2> QED BY <2>1, <2>2, StillHeld, HeldSuffices, QueuedExistsStays DEF KnownInv
<1>6. ASSUME NEW p \in Polls, NEW s \in BoardStatuses, ReadList(p, s) PROVE KnownInv'
  <2>1. UNCHANGED <<status, queueVars, screen, disk, tapped>>
    BY <1>6 DEF ReadList, localVars
  <2>2. polls[p] \in Poll /\ polls \in [Polls -> Poll]
    BY <1>1 DEF Typed, PollsTyped
  <2>3. /\ \A q \in Polls : q # p => polls'[q] = polls[q]
        /\ polls'[p].seen = [o \in Orders |-> polls[p].seen[o] \cup {x \in {s} : o \in Listed(x)}]
    BY <1>6, <2>2 DEF ReadList, Poll
  <2>4. ASSUME NEW o \in Orders, o \in Listed(s) PROVE Known(o, s)'
    <3>0. status[o] = s
      BY <2>4 DEF Listed
    <3>1. s # None /\ StatusRank[s] \in Int
      BY BoardAssumption DEF BoardStatuses, StatusRank
    <3> QED BY <2>1, <3>0, <3>1 DEF Known
  <2>5. \A q \in Polls, o \in Orders : \A x \in polls'[q].seen[o] :
            x \in polls[q].seen[o] \/ Known(o, x)'
    BY <2>3, <2>4
  <2> QED BY <2>1, <2>5, StillHeld, HeldSuffices, QueuedExistsStays DEF KnownInv
<1>7. ASSUME NEW p \in Polls, PollDone(p) PROVE KnownInv'
  <2>1. UNCHANGED <<disk, tapped>>
        /\ \A q \in Polls, o \in Orders : polls'[q].seen[o] \subseteq polls[q].seen[o]
    BY <1>1, <1>7 DEF PollDone, Typed, PollsTyped, Idle
  <2>2. screen'.board = [o \in Orders |-> Polled(p, o)]
    BY <1>1, <1>7, TypeUse DEF PollDone, Screen
  <2>3. \A o \in Orders : screen'.board[o] \in {None, screen.board[o]} \cup polls[p].seen[o]
    BY <1>1, <2>2, RowsAdvance
  <2>4. \A o \in Orders : screen'.board[o] \in Held(o) \cup {None}
    BY <2>3, StillHeld
  <2> QED BY <2>1, <2>4, StillHeld, HeldSuffices, QueuedExistsStays DEF KnownInv
<1>8. ASSUME SaveBoard \/ SaveHidden PROVE KnownInv'
  <2>1. UNCHANGED <<screen, polls, tapped>>
        /\ \A o \in Orders : disk'.board[o] \in {screen.board[o], disk.board[o]}
    BY <1>1, <1>8, TypeUse DEF SaveBoard, SaveHidden, Disk
  <2>2. \A o \in Orders : disk'.board[o] \in Held(o) \cup {None}
    BY <2>1, StillHeld
  <2> QED BY <2>1, <2>2, StillHeld, HeldSuffices, QueuedExistsStays DEF KnownInv
<1>9. ASSUME Open \/ Hydrate PROVE KnownInv'
  <2>1. UNCHANGED <<disk, polls, tapped>>
        /\ \A o \in Orders : screen'.board[o] \in {None, screen.board[o], disk.board[o]}
    BY <1>1, <1>9, TypeUse DEF Open, Hydrate, Blank, EmptyBoard, Screen
  <2>2. \A o \in Orders : screen'.board[o] \in Held(o) \cup {None}
    BY <2>1, StillHeld
  <2> QED BY <2>1, <2>2, StillHeld, HeldSuffices, QueuedExistsStays DEF KnownInv
<1>10. ASSUME SwitchOff PROVE KnownInv'
  <2>1. /\ UNCHANGED disk /\ \A o \in Orders : screen'.board[o] = None /\ tapped'[o] = {}
        /\ \A p \in Polls, o \in Orders : polls'[p].seen[o] = {}
    BY <1>10 DEF SwitchOff, Blank, EmptyBoard, Idle
  <2> QED BY <2>1, StillHeld, HeldSuffices, QueuedExistsStays DEF KnownInv
<1>11. ASSUME NEW o \in Orders, Create(o) \/ StaffMoves(o) \/ ServerTakes(o) \/ ServerRefuses(o)
       PROVE  UNCHANGED <<screen, disk, polls, tapped>>
  BY <1>11 DEF Create, StaffMoves, ServerTakes, ServerRefuses, localVars
<1>12. ASSUME NEW o \in Orders, Crowded(o) \/ Thinned(o) PROVE UNCHANGED <<screen, disk, polls, tapped>>
  BY <1>12, RushLeavesRest DEF localVars
<1> QED BY <1>2, <1>3, <1>4, <1>5, <1>6, <1>7, <1>8, <1>9, <1>10, <1>11, <1>12, BoardSteps
        DEF Quiet, boardVars, localVars
-----------------------------------------------------------------------------
(* Delivered tickets, and the theorems.                                    *)

\* Delivered tickets, in memory, in the photo or tapped, keep their gesture.
KeptTicket(o) ==
    \/ o \in screen.hidden
    \/ disk.hidden # None /\ o \in disk.hidden
    \/ "delivered" \in tapped[o]

LEMMA KeptInvMeans == Typed => (KeptInv <=> \A o \in Orders : KeptTicket(o) => DeliveryKept(o))
<1> SUFFICES ASSUME Typed
             PROVE  KeptInv <=> \A o \in Orders : KeptTicket(o) => DeliveryKept(o)
  OBVIOUS
<1>1. screen.hidden \subseteq Orders /\ (disk.hidden # None => disk.hidden \subseteq Orders)
  BY TypeUse DEF Screen, Disk
<1> QED BY <1>1 DEF KeptInv, HiddenKept, StoredKept, TappedKept, KeptTicket

\* A step hides no ticket but those of a delivery that was tapped.
LEMMA KeptBefore ==
    ASSUME BoardIInv, Quiet, NEW o \in Orders, KeptTicket(o)'
    PROVE  KeptTicket(o)
<1>1. Typed /\ screen \in Screen /\ disk \in Disk
  BY TypeUse DEF BoardIInv
<1>2. ASSUME NEW x \in Orders, NEW s \in tapped[x], TapShown(x, s) PROVE KeptTicket(o)
  <2>1. UNCHANGED disk /\ tapped'[o] \subseteq tapped[o]
    BY <1>1, <1>2 DEF TapShown, Typed, TabletTyped
  <2>2. CASE s = "delivered"
    <3>1. screen'.hidden = screen.hidden \cup {x}
      BY <1>1, <1>2, <2>2 DEF TapShown, Screen
    <3> QED BY <1>2, <2>1, <2>2, <3>1 DEF KeptTicket
  <2>3. CASE s # "delivered"
    <3>1. screen'.hidden = screen.hidden
      BY <1>1, <1>2, <2>3 DEF TapShown, Screen
    <3> QED BY <2>1, <3>1 DEF KeptTicket
  <2> QED BY <2>2, <2>3
<1>3. ASSUME NEW p \in Polls,
             PollStart(p) \/ (\E s \in BoardStatuses : ReadList(p, s)) \/ PollFails(p)
      PROVE  KeptTicket(o)
  BY <1>3 DEF PollStart, ReadList, PollFails, localVars, KeptTicket
<1>4. ASSUME NEW p \in Polls, PollDone(p) PROVE KeptTicket(o)
  <2>1. screen'.hidden \subseteq screen.hidden /\ UNCHANGED <<disk, tapped>>
    BY <1>1, <1>4 DEF PollDone, StillHidden, Screen
  <2> QED BY <2>1 DEF KeptTicket
<1>5. CASE SaveBoard
  BY <1>1, <1>5 DEF SaveBoard, KeptTicket, Disk
<1>6. CASE SaveHidden
  BY <1>1, <1>6 DEF SaveHidden, KeptTicket, Disk
<1>7. CASE Open
  BY <1>7 DEF Open, Blank, KeptTicket
<1>8. CASE Hydrate
  <2>1. UNCHANGED <<disk, tapped>>
        /\ screen'.hidden = IF disk.hidden = None THEN screen.hidden ELSE disk.hidden
    BY <1>1, <1>8 DEF Hydrate, Screen
  <2> QED BY <2>1 DEF KeptTicket
<1>9. CASE SwitchOff
  BY <1>9 DEF SwitchOff, Blank, KeptTicket
<1>10. ASSUME NEW x \in Orders, Crowded(x) \/ Thinned(x) PROVE KeptTicket(o)
  BY <1>10, RushLeavesRest DEF localVars, KeptTicket
<1> QED BY <1>2, <1>3, <1>4, <1>5, <1>6, <1>7, <1>8, <1>9, <1>10 DEF Quiet

LEMMA StepKept ==
    ASSUME BoardIInv, [BoardNext]_boardVars
    PROVE  KeptInv'
<1>1. Typed'
  BY StepTyped
<1>2. ASSUME NEW o \in Orders, KeptTicket(o) PROVE DeliveryKept(o)'
  <2>1. DeliveryKept(o)
    BY <1>2, KeptInvMeans DEF BoardIInv
  <2> QED BY <2>1, KeptStays
<1>3. ASSUME NEW o \in Orders, KeptTicket(o)' PROVE DeliveryKept(o)'
  <2>1. CASE Quiet \/ UNCHANGED <<screen, disk, tapped>>
    <3>1. KeptTicket(o)
      BY <1>3, <2>1, KeptBefore DEF KeptTicket
    <3> QED BY <3>1, <1>2
  <2>2. ASSUME NEW x \in Orders, Tap(x) PROVE DeliveryKept(o)'
    <3>1. /\ UNCHANGED <<screen, disk>> /\ (x # o => tapped'[o] = tapped[o])
          /\ tapped'[x] = tapped[x] \cup {Following[screen.board[x]]}
          /\ Following[screen.board[x]] \in Range(outbox'[x])
      BY <2>2, TapQueues DEF Tap, BoardIInv, Typed, TabletTyped
    <3>2. CASE KeptTicket(o)
      BY <3>2, <1>2
    <3>3. CASE ~KeptTicket(o)
      <4>1. x = o /\ Following[screen.board[o]] = "delivered"
        BY <1>3, <3>1, <3>3 DEF KeptTicket
      <4> QED BY <3>1, <4>1 DEF DeliveryKept
    <3> QED BY <3>2, <3>3
  <2>3. ASSUME NEW x \in Orders,
               Create(x) \/ StaffMoves(x) \/ ServerTakes(x) \/ ServerRefuses(x)
        PROVE  UNCHANGED <<screen, disk, tapped>>
    BY <2>3 DEF Create, StaffMoves, ServerTakes, ServerRefuses, localVars
  <2> QED BY <2>1, <2>2, <2>3, BoardSteps DEF boardVars, localVars
<1>4. screen'.hidden \subseteq Orders /\ (disk'.hidden # None => disk'.hidden \subseteq Orders)
  BY <1>1 DEF Typed, TabletTyped, Screen, Disk
<1> QED BY <1>3, <1>4 DEF KeptInv, HiddenKept, StoredKept, TappedKept, KeptTicket

LEMMA BoardInitInv == BoardInit => BoardIInv
<1> SUFFICES ASSUME BoardInit PROVE BoardIInv
  OBVIOUS
<1>1. outbox \in [Orders -> Seq(TapStatuses)]
  BY DEF BoardInit
<1>2. Typed
  BY <1>1, BlankTyped, BoardAssumption
     DEF BoardInit, Typed, ServerTyped, QueueTyped, TabletTyped, PollsTyped, Shown, Disk
<1>3. BeyondTyped /\ KnownInv /\ KeptInv
  BY DEF BoardInit, BeyondTyped, KnownInv, BoardKnown, PhotoKnown, TappedKnown, SeenKnown, QueuedExists,
         KeptInv, HiddenKept, StoredKept, TappedKept, Blank, EmptyBoard, Idle
<1> QED BY <1>2, <1>3 DEF BoardIInv

\* What may reach the board is known to the server or queued for it, and a
\* ticket hidden as delivered has its gesture: inductive.
THEOREM BoardInvariant == BoardSpec => []BoardIInv
<1>1. BoardIInv /\ [BoardNext]_boardVars => BoardIInv'
  BY StepTyped, StepBeyond, StepKnown, StepKept DEF BoardIInv
<1> QED BY BoardInitInv, <1>1, PTL DEF BoardSpec

LEMMA RangeWithin ==
    ASSUME NEW S, NEW q \in Seq(S)
    PROVE  Range(q) \subseteq S
<1>1. \A i \in 1..Len(q) : q[i] \in S
  BY ElementOfSeq
<1>2. DOMAIN q = 1..Len(q)
  BY LenProperties
<1> QED BY <1>1, <1>2 DEF Range

\* useBoard.ts, whatever polls, taps, answers, refusals and switches off
\* interleave: no ticket is hidden without its delivery recorded, and the board
\* runs ahead of the server only by gestures queued or refused.
THEOREM BoardAlwaysHonest == BoardSpec => []BoardIsHonest
<1>1. ASSUME BoardIInv PROVE BoardTypeOK
  <2>1. Typed /\ screen \in Screen /\ disk \in Disk
    BY <1>1, TypeUse DEF BoardIInv
  <2>2. \A o \in Orders : Range(outbox[o]) \subseteq TapStatuses
    BY <2>1, RangeWithin DEF Typed, QueueTyped
  <2> QED BY <1>1, <2>1, <2>2 DEF BoardTypeOK, BoardIInv, BeyondTyped, Typed, ServerTyped,
                            QueueTyped, TabletTyped, PollsTyped, Screen, Disk, Poll, TapStatuses, BoardStatuses, Terminals
<1>2. ASSUME BoardIInv PROVE GoneIsRecorded
  BY <1>2, KeptInvMeans DEF BoardIInv, GoneIsRecorded, KeptTicket
<1>3. ASSUME BoardIInv PROVE AheadIsQueued
  BY <1>3 DEF BoardIInv, KnownInv, BoardKnown, Known, AheadIsQueued
<1>4. BoardIInv => BoardIsHonest
  BY <1>1, <1>2, <1>3 DEF BoardIsHonest
<1> QED BY BoardInvariant, <1>4, PTL

\* mergeOrder: a ticket on the board never goes back, however late the answer.
THEOREM BoardNeverBack == BoardSpec => NeverBack
<1> DEFINE Forward ==
             \A o \in Orders : screen.board[o] # None /\ screen'.board[o] # None =>
                 StatusRank[screen'.board[o]] >= StatusRank[screen.board[o]]
<1>1. ASSUME BoardIInv, [BoardNext]_boardVars PROVE Forward
  <2>1. Typed /\ screen \in Screen
        /\ \A o \in Orders : screen.board[o] # None => screen.board[o] \in BoardStatuses
    BY <1>1, TypeUse DEF BoardIInv
  <2>2. \A z \in BoardStatuses : StatusRank[z] \in Int
    BY DEF BoardStatuses, StatusRank
  <2>3. CASE UNCHANGED screen
    BY <2>1, <2>2, <2>3
  <2>4. ASSUME NEW o \in Orders, NEW s \in tapped[o], TapShown(o, s) PROVE Forward
    <3>1. CASE s = "delivered"
      <4>1. screen'.board = [screen.board EXCEPT ![o] = None]
        BY <2>1, <2>4, <3>1 DEF TapShown, Screen
      <4> QED BY <2>1, <2>2, <4>1 DEF Screen
    <3>2. CASE s # "delivered"
      <4>1. screen'.board = [screen.board EXCEPT ![o] = Merge(screen.board[o], s)]
        BY <2>1, <2>4, <3>2 DEF TapShown, Screen
      <4>2. s \in BoardStatuses
        BY <2>1, <2>4, <3>2, TypeUse DEF TapStatuses, BoardStatuses
      <4>3. screen.board[o] # None
              => StatusRank[Merge(screen.board[o], s)] >= StatusRank[screen.board[o]]
        BY <2>1, <4>2, MergeAdvances DEF Shown
      <4> QED BY <2>1, <2>2, <4>1, <4>3 DEF Screen
    <3> QED BY <3>1, <3>2
  <2>5. ASSUME NEW p \in Polls, PollDone(p) PROVE Forward
    <3>1. screen'.board = [o \in Orders |-> Polled(p, o)]
      BY <2>1, <2>5 DEF PollDone, Screen
    <3> QED BY <2>1, <3>1, RowsAdvance
  <2>6. CASE Open \/ SwitchOff
    <3>1. Blank.board = EmptyBoard /\ [Blank EXCEPT !.open = TRUE, !.reading = TRUE].board = EmptyBoard
      BY DEF Blank
    <3>2. screen' = Blank \/ screen' = [Blank EXCEPT !.open = TRUE, !.reading = TRUE]
      BY <2>6 DEF Open, SwitchOff
    <3>3. screen'.board = EmptyBoard
      BY <3>1, <3>2
    <3> QED BY <3>3 DEF EmptyBoard
  <2>7. CASE Hydrate
    BY <2>1, <2>2, <2>7 DEF Hydrate, EmptyBoard, Screen
  <2>8. Quiet => \/ \E o \in Orders : \E s \in tapped[o] : TapShown(o, s)
                 \/ \E p \in Polls : PollDone(p)
                 \/ Open \/ SwitchOff \/ Hydrate \/ UNCHANGED screen
    BY DEF Quiet, PollStart, ReadList, PollFails, SaveBoard, SaveHidden, Crowded, Thinned,
           localVars
  <2>9. ASSUME NEW o \in Orders, Create(o) \/ StaffMoves(o) \/ ServerTakes(o) \/ ServerRefuses(o)
                                 \/ Tap(o)
        PROVE  UNCHANGED screen
    BY <2>9 DEF Create, StaffMoves, ServerTakes, ServerRefuses, Tap, localVars
  <2> QED BY <1>1, <2>3, <2>4, <2>5, <2>6, <2>7, <2>8, <2>9, BoardSteps DEF boardVars, localVars
<1>2. BoardIInv /\ [BoardNext]_boardVars => [Forward]_boardVars
  BY <1>1
<1> QED BY BoardInvariant, <1>2, PTL DEF BoardSpec, NeverBack

=============================================================================
