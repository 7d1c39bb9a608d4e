-------------------------------- MODULE Room --------------------------------
(***************************************************************************)
(* One room of the co-op server: the task of server/src/room.rs that owns  *)
(* the seats and the round, over the clock rules of Lifecycle.             *)
(*                                                                         *)
(* A step is one turn of the room's loop: a command from a connection, the *)
(* tick that ends the round, a deadline, the drain signal, or time passing *)
(* in between.  A connection task's side of it is `link`: it joins once,   *)
(* sends lobby messages while attached, and says Disconnected last, in     *)
(* that order; the commands of different connections come in any order.    *)
(* The world, the mailboxes and the snapshots of a tick are in modules of  *)
(* their own; nicknames, chat and the dev tools' commands are left out.    *)
(*                                                                         *)
(* Seat i of the code is position i + 1 of `seats`.                        *)
(***************************************************************************)
EXTENDS Lifecycle, Sequences, FiniteSets

CONSTANTS
    Tokens,    \* the devices that may play, each with its own device token
    Conns,     \* the connections they open, each used once
    SeatGrace, \* SEAT_GRACE: an away seat of a waiting room
    NoConn,    \* Seat::conn is None
    Vacant     \* a seat that left: None in Room::seats

ASSUME RoomAssumption ==
    /\ SeatGrace \in Nat \ {0}
    /\ NoConn \notin Conns
    /\ IsFiniteSet(Tokens) /\ IsFiniteSet(Conns)
    /\ Vacant \notin [token : Tokens, ready : BOOLEAN, conn : Conns \cup {NoConn}, away : Int]

VARIABLES
    seats,        \* Room::seats
    kicked,       \* Room::kicked
    link,         \* each connection task: "new", attached ("in") or "over"
    world,        \* Room::game: "none", "fresh" (frame 0) or "running"
    hub_draining, \* Hub::draining
    sent          \* what this step queued on each connection's outbox

seatVars == <<seats, kicked, link, world, hub_draining, sent>>
roomVars == <<lifeVars, seatVars>>

Seat == [token : Tokens, ready : BOOLEAN, conn : Conns \cup {NoConn}, away : Instants \cup {NoTime}]

Refusals == {"Kicked", "KickSelf", "NoSuchSeat", "OnlyHostKicks", "OnlyHostStarts",
             "ServerDraining", "InProgress", "NotReady", "AlreadyStarted", "RoomFull",
             "Reconnected", "LeftRoom", "GraceOver", "RoomClosed", "ServerRestarting"}

----------------------------------------------------------------------------
(***************************************************************************)
(* The seats.                                                              *)
(***************************************************************************)

Occupied(s) == {i \in DOMAIN s : s[i] # Vacant}
Online(s) == {i \in Occupied(s) : s[i].conn # NoConn}

\* The seat connection c sits on, if it still has one: none once the seat
\* was freed, or reclaimed by another connection.
SeatOf(c) == {i \in Occupied(seats) : seats[i].conn = c}

\* Room::host: the lowest seat.
IsHost(i) == i \in Occupied(seats) /\ \A j \in Occupied(seats) : i <= j

\* The k-th of the seats that are taken, and those seats on their own.
Nth(s, k) == CHOOSE i \in Occupied(s) : Cardinality({j \in Occupied(s) : j <= i}) = k
ClosedUp(s) == [k \in 1..Cardinality(Occupied(s)) |-> s[Nth(s, k)]]

\* Mutant: the seats close up in any phase, a round's too.
SettledAlways(s) == ClosedUp(s)

\* A waiting room's seats close up; in a round a freed seat stays, vacant.
Settled(s) == IF phase = "Waiting" THEN ClosedUp(s) ELSE s

Without(I) == Settled([i \in DOMAIN seats |-> IF i \in I THEN Vacant ELSE seats[i]])

PastGrace(i) ==
    seats[i] # Vacant /\ seats[i].away # NoTime /\ seats[i].away + SeatGrace <= now

GraceOver == IF phase = "Waiting" THEN {i \in DOMAIN seats : PastGrace(i)} ELSE {}

----------------------------------------------------------------------------
(***************************************************************************)
(* What goes out: `queued` is what a step has queued for each connection   *)
(* so far, and a connection told to close hears it out of band.            *)
(***************************************************************************)

Silence == [c \in Conns |-> <<>>]

\* broadcast_roster: every seat, and which of them hosts, to every connected
\* seat.
RosterOf(s) ==
    [kind  |-> "Roster",
     host  |-> IF Occupied(s) = {} THEN 1 ELSE CHOOSE i \in Occupied(s) : \A j \in Occupied(s) : i <= j,
     seats |-> {[seat |-> i, token |-> s[i].token, ready |-> s[i].ready,
                 connected |-> s[i].conn # NoConn] : i \in Occupied(s)}]

Error(why) == [kind |-> "Error", why |-> why]

\* What a welcome tells: the seat, who else is seated, and whether the world
\* in it has run (its snapshot's tick is past 0).
Welcome(i, s, w) ==
    [kind |-> "Welcome", seat |-> i, running |-> w = "running",
     roster |-> {[seat |-> j, token |-> s[j].token] : j \in Occupied(s)}]

Started == [kind |-> "Started"]
Ended == [kind |-> "Ended"]
Close == [kind |-> "Close"]

\* lobby_to_all: msg to every connection that sits in s, after `queued`.
ToAll(queued, s, msg) ==
    [c \in Conns |-> IF \E i \in Online(s) : s[i].conn = c THEN Append(queued[c], msg) ELSE queued[c]]

Tell(queued, c, msgs) ==
    [d \in Conns |-> IF d = c THEN queued[d] \o msgs ELSE queued[d]]

\* Each connection of the seats I is told why it goes, and to close.
ToldToGo(I, why) ==
    [c \in Conns |-> IF \E i \in I \cap Online(seats) : seats[i].conn = c THEN <<Error(why), Close>> ELSE <<>>]

----------------------------------------------------------------------------
(***************************************************************************)
(* Joining, reclaiming and dropping a seat.                                *)
(***************************************************************************)

Owned(t) == {i \in Occupied(seats) : seats[i].token = t}

\* Mutant: a kicked device may take a new seat.
JoinRefusalForgivesKicks(t) ==
    CASE Owned(t) = {} /\ phase # "Waiting" -> {"AlreadyStarted"}
      [] Owned(t) = {} /\ phase = "Waiting" /\ Cardinality(Occupied(seats)) >= SeatsPlayable -> {"RoomFull"}
      [] OTHER -> {}

JoinRefusal(t) ==
    CASE t \in kicked -> {"Kicked"}
      [] t \notin kicked /\ Owned(t) = {} /\ phase # "Waiting" -> {"AlreadyStarted"}
      [] t \notin kicked /\ Owned(t) = {} /\ phase = "Waiting"
            /\ Cardinality(Occupied(seats)) >= SeatsPlayable -> {"RoomFull"}
      [] OTHER -> {}

\* The answer to a join: the welcome, the end of a round already over, and
\* the roster to everyone.
Greeting(queued, s, i, c) ==
    ToAll(Tell(queued, c, IF phase = "Ended" THEN <<Welcome(i, s, world), Ended>>
                              ELSE <<Welcome(i, s, world)>>),
          s, RosterOf(s))

JoinRefused(c, t) ==
    /\ link[c] = "new"
    /\ \E why \in JoinRefusal(t) : sent' = Tell(Silence, c, <<Error(why)>>)
    /\ UNCHANGED <<lifeVars, seats, kicked, link, world, hub_draining>>

\* Room::join, a device the room does not know: a seat at the end.
JoinNew(c, t) ==
    /\ link[c] = "new"
    /\ JoinRefusal(t) = {}
    /\ Owned(t) = {}
    /\ LET s == Append(seats, [token |-> t, ready |-> FALSE, conn |-> c, away |-> NoTime])
       IN  /\ seats' = s
           /\ sent' = Greeting(Silence, s, Len(s), c)
    /\ Connect
    /\ link' = [link EXCEPT ![c] = "in"]
    /\ UNCHANGED <<kicked, world, hub_draining>>

\* Mutant: a reclaimed seat's grace runs on.
ReclaimedStillAway(i, c) == [seats EXCEPT ![i].conn = c]

Reclaimed(i, c) == [seats EXCEPT ![i].conn = c, ![i].away = NoTime]

\* A seat somebody was connected to changes sockets; an away one comes back.
ReclaimCount(i) == IF seats[i].conn = NoConn THEN Connect ELSE UNCHANGED lifeVars

\* Room::join, a device that owns a seat: the new socket replaces the old.
Reclaim(c, t) ==
    /\ link[c] = "new"
    /\ JoinRefusal(t) = {}
    /\ \E i \in Owned(t) :
         LET s == Reclaimed(i, c)
         IN  /\ seats' = s
             /\ ReclaimCount(i)
             /\ sent' = Greeting(ToldToGo({i}, "Reconnected"), s, i, c)
    /\ link' = [link EXCEPT ![c] = "in"]
    /\ UNCHANGED <<kicked, world, hub_draining>>

\* Mutant: the moment the socket dropped is not kept.
DroppedUnstamped(i) == [seats EXCEPT ![i].conn = NoConn]

Dropped(i) == [seats EXCEPT ![i].conn = NoConn, ![i].away = now]

\* Room::disconnected: the seat goes away, unless the socket was already
\* replaced or its seat freed.
Disconnected(c) ==
    /\ link[c] = "in"
    /\ link' = [link EXCEPT ![c] = "over"]
    /\ \/ /\ SeatOf(c) = {}
          /\ sent' = Silence
          /\ UNCHANGED <<lifeVars, seats>>
       \/ \E i \in SeatOf(c) :
            /\ seats' = Dropped(i)
            /\ sent' = ToAll(Silence, Dropped(i), RosterOf(Dropped(i)))
            /\ Disconnect
    /\ UNCHANGED <<kicked, world, hub_draining>>

----------------------------------------------------------------------------
(***************************************************************************)
(* The lobby.  A message of a connection whose seat is gone does nothing.  *)
(***************************************************************************)

Refuse(i, why) ==
    /\ sent' = Tell(Silence, seats[i].conn, <<Error(why)>>)
    /\ UNCHANGED <<lifeVars, seats, kicked, link, world, hub_draining>>

\* Lobby::Ready, in any phase.
Ready(i) ==
    LET s == [seats EXCEPT ![i].ready = TRUE]
    IN  /\ seats' = s
        /\ sent' = ToAll(Silence, s, RosterOf(s))
        /\ UNCHANGED <<lifeVars, kicked, link, world, hub_draining>>

\* Mutant: freeing a connected seat leaves the count of them alone.
RemovedUncounted(i) == UNCHANGED lifeVars

Removed(i) == IF seats[i].conn = NoConn THEN UNCHANGED lifeVars ELSE Disconnect

\* remove_seat
RemoveSeat(i, why) ==
    /\ seats' = Without({i})
    /\ sent' = ToAll(ToldToGo({i}, why), Without({i}), RosterOf(Without({i})))
    /\ Removed(i)
    /\ UNCHANGED <<link, world, hub_draining>>

\* Lobby::Leave
Leave(i) == RemoveSeat(i, "LeftRoom") /\ UNCHANGED kicked

KickRefusal(i, target) ==
    CASE ~IsHost(i) -> {"OnlyHostKicks"}
      [] IsHost(i) /\ target = i -> {"KickSelf"}
      [] IsHost(i) /\ target # i /\ target \notin Occupied(seats) -> {"NoSuchSeat"}
      [] OTHER -> {}

\* Lobby::Kick: the device does not come back.
Kick(i, target) ==
    \/ \E why \in KickRefusal(i, target) : Refuse(i, why)
    \/ /\ KickRefusal(i, target) = {}
       /\ kicked' = kicked \cup {seats[target].token}
       /\ RemoveSeat(target, "Kicked")

NotReady(i) == \E j \in Occupied(seats) : ~seats[j].ready /\ seats[j].token # seats[i].token

\* Mutant: a draining server grants a rematch.
StartRefusalDraining(i) ==
    CASE ~IsHost(i) -> {"OnlyHostStarts"}
      [] IsHost(i) /\ InRound -> {"InProgress"}
      [] IsHost(i) /\ ~InRound /\ NotReady(i) -> {"NotReady"}
      [] OTHER -> {}

StartRefusal(i) ==
    CASE ~IsHost(i) -> {"OnlyHostStarts"}
      [] IsHost(i) /\ phase = "Ended" /\ hub_draining -> {"ServerDraining"}
      [] IsHost(i) /\ InRound -> {"InProgress"}
      [] IsHost(i) /\ ~InRound /\ ~(phase = "Ended" /\ hub_draining) /\ NotReady(i) -> {"NotReady"}
      [] OTHER -> {}

\* Started to everyone, then each seat's welcome into the round.
StartMessages(s) ==
    [c \in Conns |->
        IF \E i \in Online(s) : s[i].conn = c
        THEN <<Started, Welcome(CHOOSE i \in Online(s) : s[i].conn = c, s, "fresh")>>
        ELSE <<>>]

\* Room::start: the round, or a rematch.
StartRound(i) ==
    \/ \E why \in StartRefusal(i) : Refuse(i, why)
    \/ /\ StartRefusal(i) = {}
       /\ LET dense == Settled(seats)
              s == [j \in DOMAIN dense |-> IF dense[j] = Vacant THEN Vacant
                                           ELSE [dense[j] EXCEPT !.ready = FALSE]]
          IN  /\ seats' = s
              /\ sent' = StartMessages(s)
       /\ Start
       /\ world' = "fresh"
       /\ UNCHANGED <<kicked, link, hub_draining>>

\* A lobby message from an attached connection that still has its seat.
LobbyCommand(c) ==
    /\ link[c] = "in"
    /\ \E i \in SeatOf(c) :
         \/ Ready(i)
         \/ Leave(i)
         \/ StartRound(i)
         \/ \E target \in 1..SeatsPlayable : Kick(i, target)

----------------------------------------------------------------------------
(***************************************************************************)
(* The end of a round, the deadlines and the drain.                        *)
(***************************************************************************)

\* Mutant: the round ends and nobody is told.
EndRoundUntold ==
    /\ End
    /\ sent' = Silence
    /\ UNCHANGED <<seats, kicked, link, world, hub_draining>>

\* end_round
EndRound ==
    /\ End
    /\ sent' = ToAll(ToAll(Silence, seats, Ended), seats, RosterOf(seats))
    /\ UNCHANGED <<seats, kicked, link, world, hub_draining>>

\* tick_now: the world runs one frame on what the mailboxes hold.
Tick ==
    /\ phase = "Playing"
    /\ world' = "running"
    /\ sent' = Silence
    /\ UNCHANGED <<lifeVars, seats, kicked, link, hub_draining>>

\* tick_now where the world is over and its end screen has run out
\* (restart_is_due); when that is, the simulation says.
RoundDecided == phase = "Playing" /\ world = "running" /\ EndRound

\* next_deadline
DeadlineDue == Overdue \/ GraceOver # {}

\* close_all, and the hub forgets the room.
ReapRoom ==
    /\ Reap
    /\ seats' = [i \in DOMAIN seats |-> IF seats[i] = Vacant THEN Vacant
                                        ELSE [seats[i] EXCEPT !.conn = NoConn]]
    /\ sent' = ToldToGo(DOMAIN seats, IF Draining THEN "ServerRestarting" ELSE "RoomClosed")
    /\ UNCHANGED <<kicked, link, world, hub_draining>>

\* Mutant: the seats that stay are not told which ones went.
ExpireGracesUntold ==
    /\ GraceOver # {}
    /\ seats' = Without(GraceOver)
    /\ sent' = Silence
    /\ UNCHANGED <<lifeVars, kicked, link, world, hub_draining>>

\* expire_graces: highest seat first; the rosters sent between two removals
\* are overtaken in the same turn and left out.
ExpireGraces ==
    /\ GraceOver # {}
    /\ seats' = Without(GraceOver)
    /\ sent' = ToAll(Silence, Without(GraceOver), RosterOf(Without(GraceOver)))
    /\ UNCHANGED <<lifeVars, kicked, link, world, hub_draining>>

\* on_deadline
OnDeadline ==
    /\ DeadlineDue
    /\ \/ ExpiredReap /\ ReapRoom
       \/ ExpiredEndRound /\ EndRound
       \/ ~Overdue /\ ExpireGraces

\* Hub::begin_drain, on SIGTERM.
HubDrain ==
    /\ ~hub_draining
    /\ hub_draining' = TRUE
    /\ sent' = Silence
    /\ UNCHANGED <<lifeVars, seats, kicked, link, world>>

\* Room::begin_drain: the loop's first branch.
BeginDrain ==
    /\ hub_draining /\ ~Draining
    /\ Drain
    /\ sent' = Silence
    /\ UNCHANGED <<seats, kicked, link, world, hub_draining>>

\* Time passes between the turns of the loop, which serves the drain signal
\* at once and a deadline within Lag.
RoomPass ==
    /\ Pass
    /\ hub_draining => Draining
    /\ phase = "Waiting" =>
          \A i \in Occupied(seats) : seats[i].away # NoTime => now < seats[i].away + SeatGrace + Lag
    /\ sent' = Silence
    /\ UNCHANGED <<seats, kicked, link, world, hub_draining>>

RoomInit ==
    /\ LifeInit
    /\ seats = <<>>
    /\ kicked = {}
    /\ link = [c \in Conns |-> "new"]
    /\ world = "none"
    /\ hub_draining = FALSE
    /\ sent = Silence

RoomStep ==
    \/ \E c \in Conns, t \in Tokens : JoinRefused(c, t) \/ JoinNew(c, t) \/ Reclaim(c, t)
    \/ \E c \in Conns : Disconnected(c) \/ LobbyCommand(c)
    \/ Tick
    \/ RoundDecided
    \/ OnDeadline
    \/ HubDrain
    \/ BeginDrain
    \/ RoomPass

RoomNext == open /\ RoomStep

RoomSpec == RoomInit /\ [][RoomNext]_roomVars

----------------------------------------------------------------------------
(***************************************************************************)
(* What the room promises.                                                 *)
(***************************************************************************)

RoomTypeOK ==
    /\ LifeTypeOK
    /\ seats \in Seq(Seat \cup {Vacant}) /\ Len(seats) <= SeatsPlayable
    /\ kicked \in SUBSET Tokens
    /\ link \in [Conns -> {"new", "in", "over"}]
    /\ world \in {"none", "fresh", "running"}
    /\ hub_draining \in BOOLEAN

\* The clock's count of connected seats, kept by connect and disconnect in
\* five handlers, is the number of seats that have a socket - through a
\* reclaim over a live socket, a stale disconnect and a kick.  A count that
\* drifts up would never pause or reap the room; one that drifts down would
\* pause a round being played.
ConnectedCount == open => connected = Cardinality(Online(seats))

\* A device has one seat, a connection sits on one seat, and a device the
\* host kicked has none, however its joins and reclaims race.
SeatsOwned ==
    /\ \A i, j \in Occupied(seats) :
         i # j => seats[i].token # seats[j].token
                  /\ (seats[i].conn = seats[j].conn => seats[i].conn = NoConn)
    /\ \A i \in Occupied(seats) : seats[i].token \notin kicked

\* The comment in `join`: "a waiting room's seats are dense", which is what
\* keeps the seat vector, not only the occupied seats, within the cap.
WaitingDense == phase = "Waiting" => Occupied(seats) = DOMAIN seats

\* A deadline frees nobody who is connected: a seat that came back within
\* its grace, or over a socket the server still took for live, is not freed
\* by the grace it had begun.
DeadlineSparesConnected ==
    [][OnDeadline /\ open' =>
         \A i \in Online(seats) : \E j \in Occupied(seats') : seats'[j] = seats[i]]_roomVars

\* A seat's number is its tank's: from the start of a round to the last
\* rematch no seat moves, whoever leaves, is kicked or comes back, and one
\* that is away "stays owned by its token to the end" (SEAT_GRACE): only the
\* host's kick takes it from a device that is gone.
SeatKept ==
    [][phase # "Waiting" =>
         /\ \A j \in Occupied(seats') : j \in Occupied(seats) /\ seats'[j].token = seats[j].token
         /\ \A i \in Occupied(seats) \ Online(seats) :
              i \in Occupied(seats') \/ seats[i].token \in kicked']_roomVars

\* The loop sleeps until next_deadline and acts on `expired` and
\* `expire_graces`, which work out for themselves what is due: a deadline
\* that has come is always served by one of them, and the loop never wakes
\* to nothing for good.
DeadlineServed == open /\ now < Horizon => ENABLED (RoomPass \/ OnDeadline \/ BeginDrain)

\* SEAT_GRACE: an away seat of a waiting room, which holds up its START, is
\* freed in time.
GraceBounded ==
    open /\ phase = "Waiting" =>
        \A i \in Occupied(seats) :
            seats[i].conn = NoConn => seats[i].away # NoTime /\ now <= seats[i].away + SeatGrace + Lag
=============================================================================
