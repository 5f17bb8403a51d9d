------------------------------- MODULE LiveFeed -------------------------------
(***************************************************************************)
(* The live feed, from create_inspection() to the board of one page: the   *)
(* server saves a unit and broadcasts it into the bounded queue of each    *)
(* subscriber (src/apps/api/main.py); the page keeps one WebSocket,        *)
(* reconnects when it goes down, and seeds its board once with what the    *)
(* list endpoint returns (src/apps/web/src/useLiveFeed.ts).                *)
(*                                                                         *)
(* The hello frame and the narratives, which change nothing of the board   *)
(* but the text of an item, are left out.  A connection that was lost      *)
(* takes its subscription with it: the server keeps that until its next    *)
(* send fails, but nobody reads the queue.                                 *)
(***************************************************************************)
EXTENDS Integers, Sequences, FiniteSets, SequencesExt, FiniteSetsExt

CONSTANTS
    Units,          \* the units that may be inspected
    Own,            \* those that this page inspects
    Sockets,        \* names for connections; they are used again
    QueueCap,       \* asyncio.Queue(maxsize=64)
    WireCap,        \* how many frames fit between the two ends
    BoardCap,       \* how many items a frame leaves on the board: 50
    ListLimit,      \* how many units the list is asked for: 25
    MaxTimers,      \* bound on the reconnects that are due at the same time
    NoSocket, NoUnit

ASSUME LiveFeedAssumption ==
    /\ Own \subseteq Units
    /\ QueueCap \in Nat \ {0} /\ WireCap \in Nat \ {0} /\ BoardCap \in Nat \ {0}
    /\ ListLimit \in Nat \ {0}
    /\ MaxTimers \in Nat /\ MaxTimers >= 2
    /\ NoSocket \notin Sockets /\ NoUnit \notin Units

VARIABLES
    saved,      \* the units in the repository
    announced,  \* the units that were broadcast
    sub,        \* sub[s]: the _Subscriber of connection s, or NoSub
    wire,       \* wire[s]: the frames on their way to the page
    sock,       \* sock[s]: the readyState of the page's WebSocket s
    fires,      \* fires[s]: the error and close events of s still to be handled
    socket,     \* the page's current WebSocket, or NoSocket
    connected,  \* isConnected
    timers,     \* the calls of ensureSocket() that are due
    listing,    \* the page's request for the last inspections
    board,      \* buffer, newest first
    pushed,     \* the own units whose response has arrived
    ledger      \* history: what was received on each socket, what left the board

server == <<saved, announced, sub>>
client == <<sock, fires, socket, connected, timers>>
page   == <<listing, board, pushed>>
vars   == <<server, wire, client, page, ledger>>

NoSub    == [subscribed |-> FALSE]

\* History: the units that the list left out.
NoListing == [pc |-> "none", items |-> <<>>, beyond |-> {}]

Frame(u, missed) == [unit |-> u, missed |-> missed]

\* A frame that the handler has not taken yet from the queue.
NoFrame == Frame(NoUnit, 0)

\* History: the units it came too late for, and whether the list was read since.
NewSub == [subscribed |-> TRUE, queue |-> <<>>, dropped |-> 0, hand |-> NoFrame,
           before |-> announced, listed |-> FALSE]

Subscribed == {s \in Sockets : sub[s].subscribed}

-----------------------------------------------------------------------------
(* The server.                                                             *)

Init ==
    /\ saved = {} /\ announced = {}
    /\ sub = [s \in Sockets |-> NoSub]
    /\ wire = [s \in Sockets |-> <<>>]
    /\ sock = [s \in Sockets |-> "closed"]
    /\ fires = [s \in Sockets |-> 0]
    /\ socket = NoSocket /\ connected = FALSE /\ timers = 0
    /\ listing = NoListing /\ board = <<>> /\ pushed = {}
    /\ ledger = [frames |-> [s \in Sockets |-> 0], missed |-> [s \in Sockets |-> 0],
                 evicted |-> {}]

\* create_inspection(): the unit is saved and can be listed ...
Save(u) ==
    /\ u \notin saved
    /\ saved' = saved \cup {u}
    /\ UNCHANGED <<announced, sub, wire, client, page, ledger>>

\* Mutant of Put: the frame that does not fit is not counted.
PutUncounted(q, u) ==
    IF Len(q.queue) < QueueCap THEN [q EXCEPT !.queue = Append(@, u)] ELSE q

\* put_nowait(), or one more dropped frame
Put(q, u) ==
    IF Len(q.queue) < QueueCap THEN [q EXCEPT !.queue = Append(@, u)]
                               ELSE [q EXCEPT !.dropped = @ + 1]

\* ... and after the await it is broadcast.
Broadcast(u) ==
    /\ u \in saved \ announced
    /\ announced' = announced \cup {u}
    /\ sub' = [s \in Sockets |-> IF s \in Subscribed THEN Put(sub[s], u) ELSE sub[s]]
    /\ UNCHANGED <<saved, wire, client, page, ledger>>

\* live(), which has accepted the connection before, has identified the user.
Subscribe(s) ==
    /\ sock[s] = "open" /\ s \notin Subscribed
    /\ sub' = [sub EXCEPT ![s] = NewSub]
    /\ UNCHANGED <<saved, announced, wire, client, page, ledger>>

\* live() takes a message from the queue, and with it the count of those that
\* were dropped.
Take(s) ==
    /\ s \in Subscribed /\ sub[s].hand = NoFrame /\ sub[s].queue # <<>>
    /\ sub' = [sub EXCEPT ![s].queue = Tail(@), ![s].dropped = 0,
                          ![s].hand = Frame(Head(sub[s].queue), sub[s].dropped)]
    /\ UNCHANGED <<saved, announced, wire, client, page, ledger>>

\* send_json() goes through: there is room for the frame.
Send(s) ==
    /\ s \in Subscribed /\ sub[s].hand # NoFrame
    /\ Len(wire[s]) < WireCap
    /\ wire' = [wire EXCEPT ![s] = Append(@, sub[s].hand)]
    /\ sub' = [sub EXCEPT ![s].hand = NoFrame]
    /\ UNCHANGED <<saved, announced, client, page, ledger>>

-----------------------------------------------------------------------------
(* The page: its connection.                                               *)

\* A WebSocket that is done with; its name can be used for a new one.
Free(s) == sock[s] = "closed" /\ fires[s] = 0

Connecting(s) ==
    /\ Free(s)
    /\ sock' = [sock EXCEPT ![s] = "connecting"]
    /\ socket' = s
    /\ ledger' = [ledger EXCEPT !.frames[s] = 0, !.missed[s] = 0]

\* Mutant of EnsureSocket: the readyState is not looked at.
EnsureSocketUnguarded == \E s \in Sockets : Connecting(s)

\* Mutant of EnsureSocket: any WebSocket is taken for a live one.
EnsureSocketOnce ==
    IF socket # NoSocket THEN UNCHANGED <<sock, socket, ledger>>
    ELSE \E s \in Sockets : Connecting(s)

\* ensureSocket()
EnsureSocket ==
    IF socket # NoSocket /\ sock[socket] \in {"open", "connecting"}
    THEN UNCHANGED <<sock, socket, ledger>>
    ELSE \E s \in Sockets : Connecting(s)

\* A component that uses the feed is mounted.
Mount ==
    /\ EnsureSocket
    /\ UNCHANGED <<server, wire, fires, connected, timers, page>>

\* setTimeout(ensureSocket, 2000) is due.
Timer ==
    /\ timers > 0
    /\ timers' = timers - 1
    /\ EnsureSocket
    /\ UNCHANGED <<server, wire, fires, connected, page>>

\* onopen
Opens(s) ==
    /\ sock[s] = "connecting"
    /\ sock' = [sock EXCEPT ![s] = "open"]
    /\ connected' = TRUE
    /\ UNCHANGED <<server, wire, fires, socket, timers, page, ledger>>

\* What is due to call ensureSocket(), now or later.
Due == timers + MapThenSumSet(LAMBDA s : fires[s], Sockets)
              + Cardinality({s \in Sockets : sock[s] = "closing"})

Lost(s, state) ==
    /\ sock' = [sock EXCEPT ![s] = state]
    /\ wire' = [wire EXCEPT ![s] = <<>>]
    /\ sub' = [sub EXCEPT ![s] = NoSub]
    /\ UNCHANGED <<saved, announced, socket, connected, timers, page, ledger>>

\* The closing handshake begins: frames do not reach the page any more ...
Closes(s) ==
    /\ sock[s] = "open" /\ Due + 1 <= MaxTimers
    /\ Lost(s, "closing")
    /\ UNCHANGED fires

\* ... and ends with a close event.
Closed(s) ==
    /\ sock[s] = "closing"
    /\ fires' = [fires EXCEPT ![s] = 1]
    /\ Lost(s, "closed")

\* A connection fails, or cannot be made: an error event and a close event.
Fails(s) ==
    /\ sock[s] \in {"connecting", "open"} /\ Due + 2 <= MaxTimers
    /\ fires' = [fires EXCEPT ![s] = 2]
    /\ Lost(s, "closed")

\* drop(), once for each event
Drop(s) ==
    /\ fires[s] > 0
    /\ fires' = [fires EXCEPT ![s] = @ - 1]
    /\ connected' = FALSE
    /\ timers' = timers + 1
    /\ UNCHANGED <<server, wire, sock, socket, page, ledger>>

-----------------------------------------------------------------------------
(* The page: its board.                                                    *)

\* onmessage: the item comes first, and one item makes room for it.
Unshift(u) ==
    LET items == <<u>> \o board
    IN  IF Len(items) > BoardCap THEN Front(items) ELSE items

\* A frame arrives.  Its dropped_frames is not looked at.
Receive(s) ==
    /\ sock[s] = "open" /\ wire[s] # <<>>
    /\ wire' = [wire EXCEPT ![s] = Tail(@)]
    /\ board' = Unshift(Head(wire[s]).unit)
    /\ ledger' = [ledger EXCEPT !.frames[s] = @ + 1,
                                !.missed[s] = @ + Head(wire[s]).missed,
                                !.evicted = @ \cup (ToSet(board) \ ToSet(board'))]
    /\ UNCHANGED <<server, client, listing, pushed>>

\* hydrate() asks, once per page load; the mount has called ensureSocket() before.
Hydrate ==
    /\ listing.pc = "none" /\ socket # NoSocket
    /\ listing' = [listing EXCEPT !.pc = "asked"]
    /\ UNCHANGED <<server, wire, client, board, pushed, ledger>>

\* What /inspections?limit=25 may answer, oldest first.  The newest are those that
\* began last: inspections under way at once may be saved in any order.
Lists ==
    LET all == Cardinality(saved)
    IN  {items \in [1 .. (IF all < ListLimit THEN all ELSE ListLimit) -> saved] :
            IsInjective(items)}

\* The server reads the repository: what is saved, whether announced or not.
List ==
    /\ listing.pc = "asked"
    /\ \E items \in Lists :
         listing' = [pc |-> "answered", items |-> items, beyond |-> saved \ ToSet(items)]
    /\ sub' = [s \in Sockets |-> IF s \in Subscribed THEN [sub[s] EXCEPT !.listed = TRUE]
                                                    ELSE sub[s]]
    /\ UNCHANGED <<saved, announced, wire, client, board, pushed, ledger>>

\* Mutant of Seeded: the list replaces what the feed has brought meanwhile.
SeededAnew(items) == Reverse(items)

\* The items, oldest first: each that the board lacks by then is put on top.
Seeded(items) ==
    LET shown[n \in 0 .. Len(items)] ==
            IF n = 0 THEN board
            ELSE IF items[n] \in ToSet(shown[n - 1]) THEN shown[n - 1]
            ELSE <<items[n]>> \o shown[n - 1]
    IN  shown[Len(items)]

HydrateShows ==
    /\ listing.pc = "answered"
    /\ board' = Seeded(listing.items)
    /\ listing' = [listing EXCEPT !.pc = "shown"]
    /\ UNCHANGED <<server, wire, client, pushed, ledger>>

\* The fetch throws: a later mount asks again.
HydrateThrows ==
    /\ listing.pc \in {"asked", "answered"}
    /\ listing' = NoListing
    /\ UNCHANGED <<server, wire, client, board, pushed, ledger>>

\* The answer is not ok: there will be no other.
HydrateRefused ==
    /\ listing.pc = "asked"
    /\ listing' = [listing EXCEPT !.pc = "refused"]
    /\ UNCHANGED <<server, wire, client, board, pushed, ledger>>

\* pushLocal(): the response to the page's own inspection.
PushLocal(u) ==
    /\ u \in (Own \cap announced) \ pushed
    /\ pushed' = pushed \cup {u}
    /\ board' = IF Contains(board, u) THEN board ELSE <<u>> \o board
    /\ UNCHANGED <<server, wire, client, listing, ledger>>

-----------------------------------------------------------------------------
Next ==
    \/ \E u \in Units : Save(u) \/ Broadcast(u) \/ PushLocal(u)
    \/ \E s \in Sockets :
         \/ Subscribe(s) \/ Take(s) \/ Send(s) \/ Receive(s)
         \/ Opens(s) \/ Closes(s) \/ Closed(s) \/ Fails(s) \/ Drop(s)
    \/ Mount \/ Timer
    \/ Hydrate \/ List \/ HydrateShows \/ HydrateThrows \/ HydrateRefused

\* Timers and events are run by the browser, and a connection that is attempted
\* again and again is made some time: the server comes back.
Fairness ==
    /\ WF_vars(Timer)
    /\ \A s \in Sockets :
         /\ WF_vars(Drop(s)) /\ WF_vars(Closed(s))
         /\ SF_vars(Opens(s))

Spec == Init /\ [][Next]_vars /\ Fairness

-----------------------------------------------------------------------------
(* What the feed promises.                                                 *)

SubType(q) ==
    \/ q = NoSub
    \/ /\ q.queue \in Seq(Units) /\ Len(q.queue) <= QueueCap
       /\ q.hand.unit \in Units \cup {NoUnit}
       /\ q.dropped > 0 => Len(q.queue) = QueueCap

\* The queues and the board keep their limits; the board only exceeds its own by
\* what the list and the page itself put on it, which make no room - an item that
\* was evicted meanwhile is put there by both.  A subscriber whose frames were
\* dropped has a frame in its queue that will tell it so.
TypeOK ==
    /\ saved \subseteq Units /\ announced \subseteq saved
    /\ \A s \in Sockets : SubType(sub[s]) /\ Len(wire[s]) <= WireCap
    /\ sock \in [Sockets -> {"connecting", "open", "closing", "closed"}]
    /\ fires \in [Sockets -> 0 .. 2] /\ timers \in Nat
    /\ socket \in Sockets \cup {NoSocket} /\ connected \in BOOLEAN
    /\ listing.pc \in {"none", "asked", "answered", "shown", "refused"}
    /\ pushed \subseteq Own
    /\ Len(board) <= BoardCap + Cardinality(pushed) + Len(listing.items)

\* The frames on their way on s, whatever stage they are at.
UnderWay(s) ==
    wire[s] \o (IF sub[s].hand = NoFrame THEN <<>> ELSE <<sub[s].hand>>)

MissedIn(frames) ==
    LET sum[n \in 0 .. Len(frames)] == IF n = 0 THEN 0 ELSE sum[n - 1] + frames[n].missed
    IN  sum[Len(frames)]

MissedUnderWay(s) == MissedIn(UnderWay(s))

\* Of every unit that is broadcast while a page is subscribed, the page has got the
\* frame, or it will, or it is counted in a number of dropped frames that the page
\* has got or will get: none is lost in silence and none is counted twice.
FramesAccounted ==
    \A s \in Subscribed :
        Cardinality(announced \ sub[s].before) =
            ledger.frames[s] + ledger.missed[s]
            + Len(UnderWay(s)) + MissedUnderWay(s)
            + Len(sub[s].queue) + sub[s].dropped

\* The units that a subscribed page will still be shown.
ToCome(s) ==
    {f.unit : f \in ToSet(UnderWay(s))} \cup ToSet(sub[s].queue)
    \cup (IF listing.pc = "answered" THEN ToSet(listing.items) ELSE {})

\* A page that was subscribed when the list was read, and still is, lacks no unit but
\* the older ones - those that the list of 25 left out and that were announced before
\* it subscribed - and as many as it is told the number of: however the list, the
\* frames and the responses to its own inspections overtake each other.
BoardLacksOnlyWhatWasDropped ==
    \A s \in Subscribed :
        sub[s].listed /\ listing.pc \in {"answered", "shown"} =>
            Cardinality(announced \ (ToSet(board) \cup ledger.evicted \cup ToCome(s)
                                         \cup (listing.beyond \cap sub[s].before)))
                <= ledger.missed[s] + MissedUnderWay(s) + sub[s].dropped

\* There is one WebSocket for the whole page, however many components mount and
\* however many timers were set by the error and the close of the last one.
OneFeed == Cardinality({s \in Sockets : sock[s] \in {"connecting", "open"}}) <= 1

\* The feed does not die silently: a page whose connection is gone has one again.
Reconnects ==
    socket # NoSocket /\ sock[socket] = "closed" ~> \E s \in Sockets : sock[s] = "open"

\* What useLiveFeed.ts says of the list: "live events take over from there".  Here:
\* a page that shows the list, and is subscribed to a feed with nothing left in it
\* and nothing dropped, shows all that was announced and that the list had room for.
LiveEventsTakeOver ==
    \A s \in Subscribed :
        listing.pc = "shown" /\ ToCome(s) = {} /\ sub[s].dropped + ledger.missed[s] = 0
            => announced \subseteq ToSet(board) \cup ledger.evicted \cup listing.beyond
=============================================================================
