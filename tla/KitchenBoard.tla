---------------------------- MODULE KitchenBoard ----------------------------
(***************************************************************************)
(* The kitchen's board (apps/kds/src/useBoard.ts) above its offline queue  *)
(* and the orders of the server.                                           *)
(*                                                                         *)
(* A poll asks for the orders of three statuses, one request each; its     *)
(* answer is merged into the board, the most advanced status winning, and  *)
(* tickets that are in no list leave it.  A list holds the newest orders of*)
(* its status, two hundred at most (ORDERS_PAGE_MAX).  A tap on a ticket   *)
(* queues a PATCH, then moves the ticket.  Several polls are in flight at  *)
(* once: the interval, the events of the socket and the return to the      *)
(* foreground start them.  Board and delivered tickets are written to the  *)
(* tablet, which may be switched off at any time.                          *)
(***************************************************************************)
EXTENDS Integers, Sequences, Functions

CONSTANTS Orders,    \* tickets
          Polls,     \* polls in flight at once
          MaxTaps,   \* bound on the taps on a ticket
          None

ASSUME BoardAssumption ==
    /\ MaxTaps \in Nat
    /\ None \notin {"new", "preparing", "ready", "delivered", "cancelled"}

VARIABLES status,    \* the server: the status of each order
          beyond,    \* tickets that ORDERS_PAGE_MAX newer ones push out of their list
          outbox,    \* the queue: the statuses still to be sent, by ticket
          handed,    \* tickets whose delivery the server has answered (history)
          refused,   \* tickets with a PATCH the server has refused
          screen,    \* the board in memory
          tapped,    \* taps recorded in the queue, not shown yet
          disk,      \* KEY_BOARD and KEY_DELIVERED on the tablet
          polls,     \* the polls and the lists each has read
          taps       \* taps so far

queueVars == <<outbox, handed, refused>>
localVars == <<screen, tapped, disk>>
boardVars == <<status, beyond, queueVars, localVars, polls, taps>>

-----------------------------------------------------------------------------

BoardStatuses == {"new", "preparing", "ready"}
Terminals == {"delivered", "cancelled"}

\* STATUS_RANK, without the cancellation, which has no rank in a service.
StatusRank == [new |-> 0, preparing |-> 1, ready |-> 2, delivered |-> 3, cancelled |-> -1]

\* NEXT_STATUS.
Following == [new |-> "preparing", preparing |-> "ready", ready |-> "delivered"]

\* Mutation: the answer of the server is shown as it is.
MostAdvancedIncoming(current, incoming) == incoming

\* mostAdvancedStatus: the first terminal status wins, then the rank.
MostAdvanced(current, incoming) ==
    IF current \in Terminals THEN current
    ELSE IF incoming \in Terminals \/ StatusRank[incoming] > StatusRank[current] THEN incoming
    ELSE current

\* mergeOrder: an unknown ticket is added.
Merge(current, incoming) == IF current = None THEN incoming ELSE MostAdvanced(current, incoming)

EmptyBoard == [o \in Orders |-> None]
Blank == [open |-> FALSE, reading |-> FALSE, hydrated |-> FALSE, board |-> EmptyBoard, hidden |-> {}]
Idle == [busy |-> FALSE, unread |-> {}, seen |-> [o \in Orders |-> {}]]

BoardInit ==
    /\ status = [o \in Orders |-> None] /\ beyond = {}
    /\ outbox = [o \in Orders |-> <<>>]
    /\ handed = {} /\ refused = {}
    /\ screen = Blank
    /\ tapped = [o \in Orders |-> {}]
    /\ disk = [board |-> EmptyBoard, hidden |-> None]
    /\ polls = [p \in Polls |-> Idle]
    /\ taps = [o \in Orders |-> 0]

-----------------------------------------------------------------------------
(* The server.                                                             *)

\* The till takes an order, moves it on or cancels it.
Create(o) ==
    /\ status[o] = None
    /\ status' = [status EXCEPT ![o] = "new"]
    /\ UNCHANGED <<beyond, queueVars, localVars, polls, taps>>

\* updateStatus ignores a status already passed, and a closed order.
Moved(current, s) ==
    IF current \in Terminals \/ StatusRank[s] <= StatusRank[current] THEN current ELSE s

StaffMoves(o) ==
    /\ status[o] \in BoardStatuses
    /\ \E s \in BoardStatuses \cup Terminals :
         /\ s = "cancelled" \/ StatusRank[s] > StatusRank[status[o]]
         /\ status' = [status EXCEPT ![o] = s]
    /\ UNCHANGED <<beyond, queueVars, localVars, polls, taps>>

\* Newer orders fill the list of the ticket's status; some of them move on.
Crowded(o) ==
    /\ status[o] \in BoardStatuses /\ o \notin beyond
    /\ beyond' = beyond \cup {o}
    /\ UNCHANGED <<status, queueVars, localVars, polls, taps>>

Thinned(o) ==
    /\ o \in beyond
    /\ beyond' = beyond \ {o}
    /\ UNCHANGED <<status, queueVars, localVars, polls, taps>>

\* The queue sends the mutations of one ticket in order: the PATCH is applied,
\* or refused for good (409 when another gesture was saved meanwhile).
Flushed(o) ==
    /\ outbox[o] # <<>>
    /\ outbox' = [outbox EXCEPT ![o] = Tail(@)]
    /\ handed' = handed \cup {x \in {o} : Head(outbox[o]) = "delivered"}

ServerTakes(o) ==
    /\ Flushed(o)
    /\ status' = [status EXCEPT ![o] = Moved(@, Head(outbox[o]))]
    /\ UNCHANGED <<beyond, refused, localVars, polls, taps>>

ServerRefuses(o) ==
    /\ Flushed(o)
    /\ refused' = refused \cup {o}
    /\ UNCHANGED <<status, beyond, localVars, polls, taps>>

-----------------------------------------------------------------------------
(* Polling.                                                                *)

PollStart(p) ==
    /\ screen.open /\ ~polls[p].busy
    /\ polls' = [polls EXCEPT ![p] = [Idle EXCEPT !.busy = TRUE, !.unread = BoardStatuses]]
    /\ UNCHANGED <<status, beyond, queueVars, localVars, taps>>

\* list: the newest orders of a status, up to the cap.
Listed(s) == {o \in Orders \ beyond : status[o] = s}

\* One of the three requests reads its status on the server; nobody looks at
\* `truncated`.
ReadList(p, s) ==
    /\ s \in polls[p].unread
    /\ polls' = [polls EXCEPT ![p] =
         [@ EXCEPT !.unread = polls[p].unread \ {s},
                   !.seen = [o \in Orders |->
                               polls[p].seen[o] \cup {x \in {s} : o \in Listed(x)}]]]
    /\ UNCHANGED <<status, beyond, queueVars, localVars, taps>>

\* Tickets delivered here are forgotten once the server has no row for them.
StillHidden(p) == {o \in screen.hidden : polls[p].seen[o] # {}}

\* A row of the list of s, where the ticket was.
WithRow(p, o, s, current) == IF s \in polls[p].seen[o] THEN Merge(current, s) ELSE current

\* The rows of a ticket are merged in the order of BOARD_STATUSES.
WithRows(p, o) ==
    WithRow(p, o, "ready", WithRow(p, o, "preparing", WithRow(p, o, "new", screen.board[o])))

\* Mutation: tickets in no list stay.
PolledKept(p, o) == WithRows(p, o)

\* The updater given to setOrders.
Polled(p, o) ==
    IF polls[p].seen[o] = {} \/ o \in StillHidden(p) THEN None ELSE WithRows(p, o)

PollDone(p) ==
    /\ polls[p].busy /\ polls[p].unread = {}
    /\ screen' = [screen EXCEPT !.hydrated = TRUE,
                                !.hidden = StillHidden(p),
                                !.board = [o \in Orders |-> Polled(p, o)]]
    /\ polls' = [polls EXCEPT ![p] = Idle]
    /\ UNCHANGED <<status, beyond, queueVars, tapped, disk, taps>>

\* One request fails: the photo stays.  (Said once the others have read.)
PollFails(p) ==
    /\ polls[p].busy /\ polls[p].unread = {}
    /\ polls' = [polls EXCEPT ![p] = Idle]
    /\ UNCHANGED <<status, beyond, queueVars, localVars, taps>>

-----------------------------------------------------------------------------
(* Advancing.                                                              *)

\* Mutation: the ticket moves before its PATCH is recorded.
TapOptimistic(o) ==
    /\ screen.open /\ screen.board[o] # None /\ taps[o] < MaxTaps
    /\ tapped' = [tapped EXCEPT ![o] = @ \cup {Following[screen.board[o]]}]
    /\ taps' = [taps EXCEPT ![o] = @ + 1]
    /\ UNCHANGED <<status, beyond, queueVars, screen, disk, polls>>

\* advance: the PATCH is committed to the queue.
Tap(o) ==
    /\ screen.open /\ screen.board[o] # None /\ taps[o] < MaxTaps
    /\ outbox' = [outbox EXCEPT ![o] = Append(@, Following[screen.board[o]])]
    /\ tapped' = [tapped EXCEPT ![o] = @ \cup {Following[screen.board[o]]}]
    /\ taps' = [taps EXCEPT ![o] = @ + 1]
    /\ UNCHANGED <<status, beyond, handed, refused, screen, disk, polls>>

\* Mutation: a delivered ticket moves on the board like another.
TapShownMerged(o, s) ==
    /\ s \in tapped[o]
    /\ tapped' = [tapped EXCEPT ![o] = @ \ {s}]
    /\ screen' = [screen EXCEPT !.board[o] = Merge(@, s)]
    /\ UNCHANGED <<status, beyond, queueVars, disk, polls, taps>>

\* ... then the board follows.
TapShown(o, s) ==
    /\ s \in tapped[o]
    /\ tapped' = [tapped EXCEPT ![o] = @ \ {s}]
    /\ screen' = IF s = "delivered"
                 THEN [screen EXCEPT !.hidden = @ \cup {o}, !.board = [@ EXCEPT ![o] = None]]
                 ELSE [screen EXCEPT !.board = [@ EXCEPT ![o] = Merge(screen.board[o], s)]]
    /\ UNCHANGED <<status, beyond, queueVars, disk, polls, taps>>

-----------------------------------------------------------------------------
(* The tablet.                                                             *)

SaveBoard ==
    /\ screen.open /\ screen.hydrated /\ disk.board # screen.board
    /\ disk' = [disk EXCEPT !.board = screen.board]
    /\ UNCHANGED <<status, beyond, queueVars, screen, tapped, polls, taps>>

SaveHidden ==
    /\ screen.open /\ screen.hydrated /\ disk.hidden # screen.hidden
    /\ disk' = [disk EXCEPT !.hidden = screen.hidden]
    /\ UNCHANGED <<status, beyond, queueVars, screen, tapped, polls, taps>>

Open ==
    /\ ~screen.open
    /\ screen' = [Blank EXCEPT !.open = TRUE, !.reading = TRUE]
    /\ UNCHANGED <<status, beyond, queueVars, tapped, disk, polls, taps>>

\* The photo is read back; of a poll that has answered meanwhile the board is
\* kept, not the delivered tickets.
Hydrate ==
    /\ screen.reading
    /\ screen' = [screen EXCEPT !.reading = FALSE, !.hydrated = TRUE,
                    !.hidden = IF disk.hidden = None THEN @ ELSE disk.hidden,
                    !.board = IF @ = EmptyBoard THEN disk.board ELSE @]
    /\ UNCHANGED <<status, beyond, queueVars, tapped, disk, polls, taps>>

SwitchOff ==
    /\ screen.open
    /\ screen' = Blank
    /\ tapped' = [o \in Orders |-> {}]
    /\ polls' = [p \in Polls |-> Idle]
    /\ UNCHANGED <<status, beyond, queueVars, disk, taps>>

BoardNext ==
    \/ \E o \in Orders :
         \/ Create(o) \/ StaffMoves(o) \/ Crowded(o) \/ Thinned(o)
         \/ ServerTakes(o) \/ ServerRefuses(o)
         \/ Tap(o) \/ \E s \in tapped[o] : TapShown(o, s)
    \/ \E p \in Polls :
         PollStart(p) \/ (\E s \in BoardStatuses : ReadList(p, s)) \/ PollDone(p) \/ PollFails(p)
    \/ SaveBoard \/ SaveHidden \/ Open \/ Hydrate \/ SwitchOff

BoardSpec == BoardInit /\ [][BoardNext]_boardVars

\* The interval polls for ever; a poll ends, and not always badly; the queue
\* reaches the server; the tablet ends up staying on.
FairBoardSpec ==
    /\ BoardSpec
    /\ \A p \in Polls :
         /\ WF_boardVars(PollStart(p))
         /\ \A s \in BoardStatuses : WF_boardVars(ReadList(p, s))
         /\ SF_boardVars(PollDone(p))
    /\ \A o \in Orders :
         /\ WF_boardVars(ServerTakes(o) \/ ServerRefuses(o))
         /\ WF_boardVars(\E s \in tapped[o] : TapShown(o, s))
    /\ WF_boardVars(Hydrate)
    /\ <>[]screen.open

-----------------------------------------------------------------------------
(* Properties.                                                             *)

Shown == BoardStatuses \cup {None}
DeliveryKept(o) == o \in handed \/ "delivered" \in Range(outbox[o])

\* Types: the orders, the queue, the board and its photo, the polls.
BoardTypeOK ==
    /\ status \in [Orders -> Shown \cup Terminals]
    /\ \A o \in Orders : Range(outbox[o]) \subseteq BoardStatuses \cup Terminals
    /\ handed \subseteq Orders /\ refused \subseteq Orders /\ beyond \subseteq Orders
    /\ screen.board \in [Orders -> Shown] /\ screen.hidden \subseteq Orders
    /\ disk.board \in [Orders -> Shown]
    /\ disk.hidden \in (SUBSET Orders) \cup {None}
    /\ tapped \in [Orders -> SUBSET {"preparing", "ready", "delivered"}]
    /\ \A p \in Polls : polls[p].seen \in [Orders -> SUBSET BoardStatuses]
    /\ taps \in [Orders -> 0..MaxTaps]

\* A ticket never disappears while its gesture is not durable (advance): the
\* tickets hidden as delivered, in memory or on the tablet, have their PATCH in
\* the queue or answered, whatever was switched off in between.
GoneIsRecorded ==
    \A o \in Orders :
        o \in screen.hidden \/ (disk.hidden # None /\ o \in disk.hidden)
            => DeliveryKept(o)

\* The board is ahead of the server only by gestures it has queued, or that
\* the server has refused: nothing on it is invented by a merge, a late poll or
\* a photo read back.
AheadIsQueued ==
    \A o \in Orders : screen.board[o] # None =>
        \/ status[o] \in Terminals \/ o \in refused
        \/ StatusRank[status[o]] >= StatusRank[screen.board[o]]
        \/ screen.board[o] \in Range(outbox[o])

\* What the board shows, or hides, is the server's word or a recorded gesture.
BoardIsHonest == BoardTypeOK /\ GoneIsRecorded /\ AheadIsQueued

\* A ticket on the board does not go back, however late the answer that is
\* merged into it (mergeOrder).
NeverBack ==
    [][\A o \in Orders :
         screen.board[o] # None /\ screen'.board[o] # None =>
             StatusRank[screen'.board[o]] >= StatusRank[screen.board[o]]]_boardVars

\* A ticket leaves the board because it was served or cancelled (the third rule
\* of useBoard).  Broken by the three requests of a poll: a ticket that changes
\* status between two of them is in no list.
TicketStays ==
    [][\A o \in Orders :
         screen.open /\ screen'.open /\ screen.board[o] # None /\ screen'.board[o] = None =>
             status[o] \in Terminals \/ DeliveryKept(o)]_boardVars

\* The lists end up long enough, or too short, for good.
RushEnds == <>[][FALSE]_beyond

\* Once the rush is over, the board ends up showing the tickets the server has to
\* prepare and no other, with their status, unless a PATCH of theirs was refused.
\* But it never shows those the cap keeps out of the lists, however long they
\* wait: their absence is not told from a ticket served (list, poll).
Agrees(o) ==
    IF status[o] \in BoardStatuses /\ o \notin beyond
    THEN screen.board[o] = status[o] \/ o \in refused
    ELSE screen.board[o] = None
EventuallyAgrees == RushEnds => <>[](\A o \in Orders : Agrees(o))
=============================================================================
