--------------------------- MODULE SnapshotStream ---------------------------
(***************************************************************************)
(* The snapshots of a room on their way to one seat's client: what the     *)
(* room cuts each tick (server/src/room.rs, broadcast_snapshot), the       *)
(* bounded outbox in front of the seat's writer (server/src/conn.rs), and  *)
(* the baseline the client applies deltas onto (src/net/client.rs).        *)
(*                                                                         *)
(* A delta carries what changed since the snapshot before it; a client     *)
(* that missed that one has to be sent a whole snapshot.  Lobby messages   *)
(* and welcomes share the outbox, and one that does not fit closes the     *)
(* connection, a turn or more before the connection task sees it.          *)
(*                                                                         *)
(* A turn of the room that says several things says them one by one, with  *)
(* the writer running in between.  A snapshot is named by the moment it    *)
(* shows, an event by the frame it happened in.  Other seats may keep the  *)
(* world ticking while this one is away.                                   *)
(***************************************************************************)
EXTENDS Integers, Sequences

CONSTANTS
    OutboxDepth,   \* OUTBOX_DEPTH: messages the writer holds
    SnapshotEvery, \* SNAPSHOT_EVERY: ticks from one snapshot to the next
    Nothing,       \* None
    MaxRound,      \* bound: rounds played
    MaxFrame       \* bound: ticks of a round

ASSUME StreamAssumption ==
    /\ {OutboxDepth, SnapshotEvery} \subseteq Nat \ {0}
    /\ {MaxRound, MaxFrame} \subseteq Nat
    /\ Nothing \notin [round : Nat, frame : Nat]

VARIABLES
    playing,    \* the room's phase: "Waiting", "Playing" or "Ended"
    decided,    \* the round's outcome is not `Playing` any more
    newest,     \* the world: the round and its frame
    eventful,   \* the frames of this round something happened in
    prev,       \* Room::prev: the last snapshot cut
    banked,     \* Room::pending_events
    needs_full, \* Seat::needs_full
    link,       \* the seat's connection: "away", "open", told to close
                \* ("closing"), or its writer gone ("broken")
    saying,     \* what the room's turn has still to say to the seat
    outbox,     \* the connection's queue, up to the client
    client      \* the client's baseline and what it made of it

roomSide == <<playing, decided, newest, eventful, prev, banked>>
streamVars == <<roomSide, needs_full, link, saying, outbox, client>>

Moment == [round : 0..MaxRound, frame : 0..MaxFrame]
Origin == [round |-> 0, frame |-> 0]

----------------------------------------------------------------------------
(***************************************************************************)
(* Messages.                                                               *)
(***************************************************************************)

Lobby(what) == [kind |-> what]
Welcome(moment) == [kind |-> "Welcome", to |-> moment]

IsSnapshot(m) == m.kind \in {"Snapshot", "Delta"}

\* broadcast_snapshot: the state, whole or as what changed since `prev`.
Cut(to, events) ==
    IF needs_full THEN [kind |-> "Snapshot", to |-> to, events |-> events]
                  ELSE [kind |-> "Delta", from |-> prev, to |-> to, events |-> events]

\* The events of a frame of this round: Game::events until the next tick.
EventsOf(frame, happened) == IF frame \in happened THEN <<frame>> ELSE <<>>

----------------------------------------------------------------------------
(***************************************************************************)
(* The client.                                                             *)
(***************************************************************************)

\* RoomClient::new
NewClient == [base |-> Nothing, true |-> TRUE, since |-> 0, heard |-> <<>>]

\* A whole snapshot is the baseline whatever was; one of the tick the
\* picture stands on adds nothing to it (Interpolator::accept).
TakeSnapshot(m) ==
    [client EXCEPT !.base = m.to, !.true = TRUE,
                   !.heard = IF client.base # Nothing /\ client.base.frame = m.to.frame THEN @ ELSE @ \o m.events]

\* Mutant: a delta of any tick is applied.
TakeDeltaAlways(m) ==
    IF client.base # Nothing
    THEN [client EXCEPT !.base = m.to, !.true = @ /\ client.base = m.from, !.heard = @ \o m.events]
    ELSE client

\* A delta of a later tick is applied to the baseline there is: the state it
\* was cut from, or the picture is nobody's.
TakeDelta(m) ==
    IF client.base # Nothing /\ client.base.frame < m.to.frame
    THEN [client EXCEPT !.base = m.to, !.true = @ /\ client.base = m.from, !.heard = @ \o m.events]
    ELSE client

TakeWelcome(m) == [base |-> m.to, true |-> TRUE, since |-> m.to.frame, heard |-> <<>>]

\* RoomClient::take
Take(m) ==
    CASE m.kind = "Welcome" -> TakeWelcome(m)
      [] m.kind = "Snapshot" -> TakeSnapshot(m)
      [] m.kind = "Delta" -> TakeDelta(m)
      [] OTHER -> client

\* The writer sends the oldest message, and the client reads it.
Receive ==
    /\ link # "broken" /\ outbox # <<>>
    /\ client' = Take(Head(outbox))
    /\ outbox' = Tail(outbox)
    /\ UNCHANGED <<roomSide, needs_full, link, saying>>

----------------------------------------------------------------------------
(***************************************************************************)
(* The room says what it has to say.                                       *)
(***************************************************************************)

Fits == Len(outbox) < OutboxDepth

Queued == saying # <<>> /\ Fits /\ link \in {"open", "closing"}
Full == saying # <<>> /\ ~Fits /\ link \in {"open", "closing"}

\* Mutant: a snapshot that does not fit is forgotten.
SkipForgotten == UNCHANGED <<needs_full, link>>

\* A snapshot that does not fit is skipped; the next goes whole.
Skip == needs_full' = TRUE /\ UNCHANGED link

\* Mutant: a lobby message or welcome that does not fit is skipped too.
GiveUpQuietly == UNCHANGED <<needs_full, link>>

\* Anything else that does not fit closes the connection.
GiveUp == link' = "closing" /\ UNCHANGED needs_full

\* Outbox::offer for a snapshot, Outbox::send for anything else.
Say ==
    /\ \/ /\ Queued
          /\ outbox' = Append(outbox, Head(saying))
          /\ needs_full' = (needs_full /\ ~IsSnapshot(Head(saying)))
          /\ UNCHANGED link
       \/ /\ Full
          /\ IsSnapshot(Head(saying)) /\ Skip
          /\ UNCHANGED outbox
       \/ /\ Full
          /\ ~IsSnapshot(Head(saying)) /\ GiveUp
          /\ UNCHANGED outbox
       \/ /\ saying # <<>> /\ link \in {"away", "broken"}
          /\ UNCHANGED <<outbox, needs_full, link>>
    /\ saying' = Tail(saying)
    /\ UNCHANGED <<roomSide, client>>

----------------------------------------------------------------------------
(***************************************************************************)
(* The room's turns.                                                       *)
(***************************************************************************)

\* broadcast_snapshot, and what the turn says after it: the events no
\* snapshot carried yet go with this one, and the next delta is cut against
\* it whether or not it is taken.
Broadcast(to, events, more) ==
    /\ saying' = <<Cut(to, banked \o events)>> \o more
    /\ prev' = to
    /\ banked' = <<>>

\* Room::join, the seat's first connection or one that replaces another.
Join ==
    /\ link' = "open"
    /\ needs_full' = TRUE
    /\ outbox' = <<>>
    /\ client' = NewClient
    /\ saying' = IF playing = "Ended" THEN <<Welcome(newest), Lobby("Ended"), Lobby("Roster")>>
                                       ELSE <<Welcome(newest), Lobby("Roster")>>
    /\ UNCHANGED roomSide

\* "Everyone's baseline is the welcome's snapshot".
StartBaseline ==
    /\ needs_full' = FALSE
    /\ prev' = newest'

\* Room::start, a first round or a rematch.
Start ==
    /\ playing \in {"Waiting", "Ended"} /\ newest.round < MaxRound
    /\ playing' = "Playing"
    /\ decided' = FALSE
    /\ newest' = [round |-> newest.round + 1, frame |-> 0]
    /\ eventful' = {}
    /\ banked' = <<>>
    /\ saying' = <<Lobby("Started"), Welcome(newest')>>
    /\ StartBaseline
    /\ UNCHANGED <<link, outbox, client>>

\* Game::update runs a frame in which something happens or nothing does, and
\* which may settle the round.
Frame ==
    /\ playing = "Playing" /\ newest.frame < MaxFrame
    /\ newest' = [newest EXCEPT !.frame = @ + 1]
    /\ eventful' \in {eventful, eventful \cup {newest.frame + 1}}
    /\ decided' \in {decided, TRUE}

\* A snapshot every so many ticks, and on the tick the round is decided.
Cadence == newest'.frame % SnapshotEvery = 0 \/ (decided' /\ ~decided)

\* Room::tick_now.  A tick that sends nothing banks its events.
Tick ==
    /\ Frame
    /\ LET events == EventsOf(newest'.frame, eventful')
       IN  \/ Cadence /\ Broadcast(newest', events, <<>>)
           \/ ~Cadence /\ banked' = banked \o events /\ UNCHANGED <<saying, prev>>
    /\ UNCHANGED <<playing, needs_full, link, outbox, client>>

EndWords == <<Lobby("Ended"), Lobby("Roster")>>

LastWords == Broadcast(newest, EventsOf(newest.frame, eventful), EndWords)

\* Mutant: the banked events are not sent when the stream stops.
EndDecidedUnflushed == saying' = EndWords /\ UNCHANGED <<prev, banked>>

\* The end screen has run out (restart_is_due).
EndDecided ==
    \/ banked # <<>> /\ LastWords
    \/ banked = <<>> /\ saying' = EndWords /\ UNCHANGED <<prev, banked>>

\* The round's time limit (on_deadline).
EndLimit == LastWords

EndRound ==
    /\ playing = "Playing"
    /\ playing' = "Ended"
    /\ (decided /\ EndDecided) \/ EndLimit
    /\ UNCHANGED <<decided, newest, eventful, needs_full, link, outbox, client>>

\* Another seat's doing: a roster, a line of chat.
Chatter ==
    /\ saying' = <<Lobby("Roster")>>
    /\ UNCHANGED <<roomSide, needs_full, link, outbox, client>>

\* Room::disconnected.
Disconnected ==
    /\ link # "away"
    /\ link' = "away"
    /\ UNCHANGED <<roomSide, needs_full, saying, outbox, client>>

\* The socket fails under the writer: what it held is lost, and nothing more
\* is taken.
Break ==
    /\ link \in {"open", "closing"}
    /\ link' = "broken"
    /\ outbox' = <<>>
    /\ UNCHANGED <<roomSide, needs_full, saying, client>>

StreamInit ==
    /\ playing = "Waiting" /\ decided = FALSE
    /\ newest = Origin /\ eventful = {}
    /\ prev = Origin /\ banked = <<>>
    /\ needs_full = TRUE
    /\ link = "away" /\ saying = <<>> /\ outbox = <<>>
    /\ client = NewClient

StreamNext ==
    \/ Receive
    \/ Say
    \/ Break
    \/ saying = <<>> /\ (Join \/ Start \/ Tick \/ EndRound \/ Chatter \/ Disconnected)

StreamSpec == StreamInit /\ [][StreamNext]_streamVars

----------------------------------------------------------------------------
(***************************************************************************)
(* What the stream promises.                                               *)
(***************************************************************************)

Baseline == Moment \cup {Nothing}
Message ==
    [kind : {"Started", "Ended", "Roster"}]
    \cup [kind : {"Welcome"}, to : Moment]
    \cup [kind : {"Snapshot"}, to : Moment, events : Seq(1..MaxFrame)]
    \cup [kind : {"Delta"}, from : Moment, to : Moment, events : Seq(1..MaxFrame)]

StreamTypeOK ==
    /\ playing \in {"Waiting", "Playing", "Ended"} /\ decided \in BOOLEAN
    /\ newest \in Moment /\ prev \in Moment
    /\ eventful \in SUBSET (1..MaxFrame) /\ banked \in Seq(1..MaxFrame)
    /\ needs_full \in BOOLEAN /\ link \in {"away", "open", "closing", "broken"}
    /\ saying \in Seq(Message) /\ outbox \in Seq(Message) /\ Len(outbox) <= OutboxDepth
    /\ client \in [base : Baseline, true : BOOLEAN, since : 0..MaxFrame, heard : Seq(1..MaxFrame)]

\* A client the room takes for in step is in step: once it has read all the
\* room said, its baseline is the snapshot the next delta is cut against -
\* after skips, rematches and reclaims, and with the welcome of a round
\* standing in for its first snapshot.
InStep ==
    link = "open" /\ ~needs_full /\ saying = <<>> /\ outbox = <<>> => client.base = prev

\* What the client holds, if it is a state of the world at all.
Garbled == [round |-> -1, frame |-> -1]
Shown ==
    CASE link # "open" -> Nothing
      [] link = "open" /\ client.true -> client.base
      [] OTHER -> Garbled

Feed == INSTANCE SnapshotFeed WITH shown <- Shown

\* While its connection has not been given up, the client only ever holds
\* states the world was in, in order: no delta is applied to a baseline it
\* was not cut from (docs/online-coop-prd.md 4.2).
Feeds == Feed!FeedSpec
=============================================================================
