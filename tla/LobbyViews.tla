----------------------------- MODULE LobbyViews -----------------------------
(***************************************************************************)
(* A room and the clients that look at it: Room.tla, the ordered socket    *)
(* from each connection's outbox to its client, and the client's picture   *)
(* of the room - src/net/client.rs (RoomClient::take) and the lobby face   *)
(* over it (src/net/round.rs, src/lobby.rs), which offers a button only    *)
(* where that picture allows it.                                           *)
(*                                                                         *)
(* A client acts on the picture it has, however old; a command then takes  *)
(* effect at once, since one that waits is one sent on an older picture.   *)
(***************************************************************************)
EXTENDS Room

CONSTANT ChanBound \* bound: messages on the way to one client

VARIABLES
    chan, \* the messages on the way to each connection's client
    view  \* RoomClient and OnlineRound::start_sent, for each connection

viewVars == <<chan, view>>
allVars == <<roomVars, viewVars>>

----------------------------------------------------------------------------
(***************************************************************************)
(* The client.                                                             *)
(***************************************************************************)

\* RoomClient::new
NewClient ==
    [phase |-> "Connecting", seat |-> 0, host |-> 1, seats |-> {}, started |-> FALSE, asked |-> FALSE]

\* A client whose socket is gone: what it last saw matters no more.
ClosedClient == [NewClient EXCEPT !.phase = "Closed"]

\* merge_roster: a welcome names the seats and not whether they are ready or
\* connected, which stands as the client last knew it.
Merged(known, roster) ==
    {x \in known : \A w \in roster : w.seat # x.seat}
    \cup {[seat |-> w.seat, token |-> w.token,
           ready |-> \E x \in known : x.seat = w.seat /\ x.ready,
           connected |-> \A x \in known : x.seat = w.seat => x.connected] : w \in roster}

\* Mutant: the end of a round leaves START pressed.
TakeEndedStillAsked(v) ==
    [v EXCEPT !.started = FALSE, !.phase = IF v.phase = "Playing" THEN "Lobby" ELSE v.phase]

TakeEnded(v) ==
    [v EXCEPT !.started = FALSE, !.asked = FALSE,
              !.phase = IF v.phase = "Playing" THEN "Lobby" ELSE v.phase]

TakeWelcome(v, m) ==
    LET now_in == IF v.started \/ m.running THEN "Playing" ELSE "Lobby"
    IN  [v EXCEPT !.seat = m.seat, !.seats = Merged(v.seats, m.roster), !.phase = now_in,
                  !.asked = now_in = "Playing"]

\* RoomClient::take, and what OnlineRound::poll makes of it.
Take(v, m) ==
    CASE m.kind = "Roster" -> [v EXCEPT !.host = m.host, !.seats = m.seats]
      [] m.kind = "Started" -> [v EXCEPT !.started = TRUE]
      [] m.kind = "Ended" -> TakeEnded(v)
      [] m.kind = "Welcome" -> TakeWelcome(v, m)
      [] m.kind = "Error" -> [v EXCEPT !.asked = FALSE]
      [] m.kind = "Close" -> ClosedClient

\* RoomClient::is_host
SeesHost(v) == v.seat = v.host

\* OnlineRound::can_start: the START button is live.
CanStart(v) ==
    /\ SeesHost(v)
    /\ ~v.asked
    /\ v.phase = "Lobby"
    /\ \A x \in v.seats : x.ready \/ x.seat = v.seat

\* RoomView::ready: the row of the client's own seat says it is.
SeesReady(v) == \E x \in v.seats : x.seat = v.seat /\ x.ready

\* The targets of the KICK buttons the lobby face shows.
CanKick(v) == IF SeesHost(v) THEN {x.seat : x \in v.seats} \ {v.seat} ELSE {}

----------------------------------------------------------------------------
(***************************************************************************)
(* The client's turns and the room's.                                      *)
(***************************************************************************)

\* What the room queued this turn follows what is on its way; a client that
\* is gone takes nothing more.
Delivered ==
    /\ chan' = [c \in Conns |-> IF view'[c].phase = "Closed" THEN <<>> ELSE chan[c] \o sent'[c]]
    /\ \A c \in Conns : Len(chan'[c]) <= ChanBound

Seen(c, v) == view' = [view EXCEPT ![c] = v]

Receive(c) ==
    /\ chan[c] # <<>>
    /\ Seen(c, Take(view[c], Head(chan[c])))
    /\ chan' = [chan EXCEPT ![c] = IF view'[c].phase = "Closed" THEN <<>> ELSE Tail(@)]
    /\ UNCHANGED roomVars

\* The socket opens and the client greets the room.
Greet(c, t) ==
    /\ view[c].phase = "Connecting"
    /\ JoinRefused(c, t) \/ JoinNew(c, t) \/ Reclaim(c, t)
    /\ Seen(c, [view[c] EXCEPT !.phase = "Greeting"])
    /\ Delivered

\* The socket drops, or the room's close reaches the connection task.
Drop(c) ==
    /\ Disconnected(c)
    /\ Seen(c, ClosedClient)
    /\ Delivered

PressReady(c) ==
    /\ view[c].phase = "Lobby" /\ ~SeesReady(view[c])
    /\ \E i \in SeatOf(c) : Ready(i)
    /\ UNCHANGED view
    /\ Delivered

PressStart(c) ==
    /\ CanStart(view[c])
    /\ \E i \in SeatOf(c) : StartRound(i)
    /\ Seen(c, [view[c] EXCEPT !.asked = TRUE])
    /\ Delivered

PressKick(c) ==
    /\ view[c].phase = "Lobby"
    /\ \E i \in SeatOf(c), target \in CanKick(view[c]) : Kick(i, target)
    /\ UNCHANGED view
    /\ Delivered

PressLeave(c) ==
    /\ view[c].phase \in {"Lobby", "Playing"}
    /\ \E i \in SeatOf(c) : Leave(i)
    /\ UNCHANGED view
    /\ Delivered

\* The room's own turns, and the server's drain, of which no client is told.
RoomTurn ==
    /\ Tick \/ RoundDecided \/ OnDeadline \/ HubDrain \/ BeginDrain \/ RoomPass
    /\ UNCHANGED view
    /\ Delivered

ViewInit ==
    /\ RoomInit
    /\ chan = [c \in Conns |-> <<>>]
    /\ view = [c \in Conns |-> NewClient]

ViewNext ==
    \/ \E c \in Conns : Receive(c)
    \/ /\ open
       /\ \/ \E c \in Conns, t \in Tokens : Greet(c, t)
          \/ \E c \in Conns : link[c] = "in" /\ (Drop(c) \/ PressReady(c) \/ PressStart(c) \/ PressKick(c) \/ PressLeave(c))
          \/ RoomTurn

ViewSpec == ViewInit /\ [][ViewNext]_allVars

----------------------------------------------------------------------------
(***************************************************************************)
(* What the players see.                                                   *)
(***************************************************************************)

\* Client c has heard everything the room has said and still has seat i.
Settles(c, i) == open /\ chan[c] = <<>> /\ i \in SeatOf(c)

\* A client that has heard everything the room said has the room's roster,
\* and the room's ready flags where they decide something; and "a fresh
\* `Welcome` at start names the final number" (remove_seat): once a room has
\* played it knows its own seat, the tank it drives and whose acks it reads.
ViewSettles ==
    \A c \in Conns, i \in DOMAIN seats : Settles(c, i) =>
        /\ view[c].host = RosterOf(seats).host
        /\ {[seat |-> x.seat, token |-> x.token, connected |-> x.connected] : x \in view[c].seats}
           = {[seat |-> x.seat, token |-> x.token, connected |-> x.connected] : x \in RosterOf(seats).seats}
        /\ ~InRound => view[c].seats = RosterOf(seats).seats
        /\ phase # "Waiting" => view[c].seat = i

\* Between rounds a dead START button means that a press would come back
\* refused, and a live one that it would not - unless the server drains: an
\* ended room then refuses the rematch, and no client is told beforehand.  So
\* for every client that has heard everything (can_start, round.rs 545-549;
\* Room::start, room.rs 886-899).
RematchButtonHonest ==
    \A c \in Conns, i \in DOMAIN seats : Settles(c, i) /\ phase = "Ended" =>
        IF CanStart(view[c]) THEN StartRefusal(i) \subseteq {"ServerDraining"} ELSE StartRefusal(i) # {}

\* A client never takes itself to be in a round its room is not playing,
\* once it has heard everything.
NoPhantomRound ==
    \A c \in Conns, i \in DOMAIN seats : Settles(c, i) /\ view[c].phase = "Playing" => InRound

----------------------------------------------------------------------------
(***************************************************************************)
(* What a comment says and the code does not do.                           *)
(***************************************************************************)

\* can_start: "the room server's own three conditions, so the button is dead
\* exactly when a press would come back refused" - in the waiting room too.
WaitingButtonHonest ==
    \A c \in Conns, i \in DOMAIN seats : Settles(c, i) /\ phase = "Waiting" =>
        (CanStart(view[c]) <=> StartRefusal(i) = {})

\* RoomClient::take: "A round that is already running welcomes a joiner at
\* the tick it stands on, so the snapshot says as much as `Started` does."
RoundIsSeen ==
    \A c \in Conns, i \in DOMAIN seats : Settles(c, i) /\ InRound => view[c].phase = "Playing"
=============================================================================
