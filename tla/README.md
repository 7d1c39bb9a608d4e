# bongbong: a verification of the co-op room server

bongbong is a tank game written in Rust.  Its co-op mode is run by a room
server (`server/`): one tokio task per room owns the world and ticks it at
60 Hz, one task per connection moves messages between a socket and a room, and
every client (`src/net/`) shows what the room tells it.  This directory holds
TLA+ modules that model the server, the client's side of its protocol and the
rules of a round of waves, the TLC runs that check them on small instances, and
proofs, checked by TLAPS, that hold for every instance.

The simulation's physics, the AI, rendering and the editor are deterministic or
visual code that one thread runs; what is hard to get right and hard to test
here is the room: seats that come and go over sockets that come and go, a clock
that must end every room, a drain, bounded queues that drop, an input path and
a picture that two clocks and a network pull at, and a round whose tanks wait,
queue and return in an order the fight decides.  That is what is modelled.

Paths below are of the repository; a "seat" is a player's place in a room, its
number the number of its tank.

## 1. The system

| part | code | state | operations |
|---|---|---|---|
| room clock | `server/src/room.rs` 208-370, `Lifecycle` | phase, since, round start, connected count, drain instant | connect, disconnect, start, end, drain, deadline, expired |
| room | `server/src/room.rs`, `Room`, `run` | seats (token, ready, connection, away since), kicked devices, the world, the command channel | join, reclaim, disconnect, READY, START, KICK, LEAVE, tick, deadline, grace, drain, reap |
| room loop | `room.rs` 572-628, `net/authority.rs` 56-119, `TickClock` | the next tick due, whether the last turn ran one | tick, relief, drain, command, deadline, wait |
| connection task | `server/src/conn.rs` | its outbox and its seat | create, join, forward a lobby message, post an intent, hang up |
| snapshot stream | `room.rs` 1350-1396, `conn.rs` 52-164, `net/client.rs` 589-654 | last snapshot cut, banked events, `needs_full`; the outbox; the client's baseline | cut, skip, welcome, apply |
| hub | `server/src/hub.rs`, `main.rs` 109-120 | code -> room, the drain flag, a `Notify` | create, find, remove, begin_drain, drained, shutdown |
| mailbox | `src/net/mailbox.rs` | queued intents, last applied, play point and its controller, owed press, reach | post, read, clear |
| client clock, tick clock | `net/round.rs` 802-872, `net/client.rs` 436-460, `net/authority.rs` 100-114 | ticks owed, fire hold | step, fire |
| lobby client | `net/client.rs`, `net/round.rs` 530-560, `src/lobby.rs` | phase, seat, host, roster, started, START latch | take, buttons |
| snapshot delta | `net/delta.rs` | none | cut, apply |
| interpolation | `net/interp.rs` | jitter buffer, the schedule's anchor, the picture's place on it, events to play | accept, sample, restart |
| waves and director | `simulation/waves.rs`, `simulation/director.rs` | waves called, queued tanks, lanes, returning seats, breather | call, spawn, return, re-roll, pace |
| room dial | `net/rooms.rs`, `net/native.rs`, `net/web.rs` | socket | dial, ping |
| prediction | `net/predict.rs` | a hull of its own, unacknowledged inputs | predict, reconcile |
| wire | `net/codec.rs`, `wire.rs`, `apply.rs`, ... | none | encode, decode, apply |
| the rest of the simulation, AI, maps, front end, rendering, tuning, metrics, dev tools | the rest of `src/`, `server/src/` | | |

How they interact.  A connection task sends a `Join` down the room's bounded
command channel and waits on a oneshot; afterwards it sends lobby messages and,
last of all, `Disconnected` down the same channel, so a room sees each
connection's commands in order and those of different connections in any.  The
room answers with `try_send` into the connection's outbox: a snapshot that does
not fit is skipped, anything else that does not fit closes the connection.
Intents do not go through the room's task at all: the connection posts them in
the seat's mailbox under a lock and the tick reads it.  The hub is a map behind
a mutex; a room's task removes itself when it ends.  The drain is a watch
channel every room listens to.

What each part has to keep, and what makes that hard:

* **Room clock.**  A round runs only with an audience; every room, round and
  drain ends in bounded time.  Pause, resume, rematch, drain and the limits
  each move an instant the others are measured from.
* **Room.**  A device has one seat and keeps it through a dead socket; numbers
  stay put during a round; the count the clock keeps is the number of sockets.
  A reclaim overtakes the `Disconnected` of the socket it replaces, a deadline
  races the reclaim that makes it moot, a kick races a join.
* **Room loop.**  A room that is always behind its ticks still reaches its
  commands, its deadlines and the drain; a deadline waits for one tick at most.
  The select is biased, and the schedule gives up on what it cannot catch up.
* **Lobby client.**  What it shows and offers is what the room would do, once
  it has heard everything.  A join, a start, an end and a compaction of the
  seats are in flight at the same time.
* **Snapshot stream.**  A delta is applied to what it was cut from, and no
  event is played twice or lost between rounds.  The outbox drops, sockets
  break mid-queue, a welcome replaces a snapshot.
* **Mailbox and seat input.**  No press is lost, no honest pose refused, no
  hull walked backwards, whatever the two clocks and the link do.
* **Delta and interpolation.**  A picture made of deltas is the world entry for
  entry; it never runs backwards, and every event that is state reaches the
  replica once.  Positions wrap at 16 bits; the buffer overflows while the
  picture stands still; late ticks and a restarted schedule look alike at first.
* **Waves.**  No tank and no fallen seat is lost or comes twice, no lane has two
  tanks, a round is won only when nobody is left to come, the next wave neither
  late nor before the rest a team is owed.  The queue, the lanes, the seats and
  the stragglers meet in different phases of one frame.
* **Hub and drain.**  A code names one room, the cap holds, a join is always
  answered, the drain notices the last room go.  The check of the flag, the
  map and the notification are three separate steps.

`PROJECT.json` lists all components and, under "hazards", the lines where each
of these bites, with the properties that would catch it.

## 2. The modules

| module | models | refines / composes |
|---|---|---|
| `Lifecycle` | the room clock | |
| `Room` | the room's task, over `Lifecycle` | EXTENDS `Lifecycle`; refines `LifeSpec` |
| `RoomLoop` | the loop the room's turns run in | gives `Lifecycle` its `Lag` |
| `LobbyViews` | the clients' pictures and buttons | EXTENDS `Room`, adds a channel and a client per connection |
| `SnapshotFeed` | what the stream promises a client | abstract |
| `SnapshotStream` | cut, outbox, baseline of one seat | refines `SnapshotFeed` |
| `Delta` | what a delta carries and what is made of it | composed with `SnapshotStream` in `MCSnapshotStream` |
| `Playout` | the client's picture of the snapshots it gets, and its clock | |
| `Mailbox` | one seat's mailbox | |
| `SeatInput` | client clock, link, mailbox, tick clock, trigger | EXTENDS `Mailbox` |
| `Hub` | rooms map, connection tasks, room tasks, main | |
| `Waves` | a round's waves, lanes, returning seats and pacing | |
| `RoomProofs` (with the clock), `LobbyViewsProofs`, `RoomLoopProofs`, `StreamProofs` (with the delta), `PlayoutProofs`, `SeatInputProofs`, `HubProofs`, `WavesProofs` | theorems | |
| `MC*` | history variables, symmetry and views for TLC | |

A definition named like the code's function is that function; the "map" of
`PROJECT.json` gives the lines of every one.  A definition whose comment begins
"Mutant:" is not part of the model: it is a plausible bug of the definition
that follows it, kept to show that the property it belongs to would find it.

### Lifecycle

The variables are the struct's fields, plus `now` and `open` (the task runs).
Instants are naturals; `Option<Instant>` is an instant or `NoTime`.  Each
method is an action, guarded by what `Room` guarantees when it calls it (which
run `room` checks, as the refinement of `LifeSpec`).  `deadline` is the least
of a set of instants (`Deadlines`), and only whether it has passed matters, so
the models quantify over the set.

Time passes one unit at a time, and `Pass` is disabled while a deadline is
`Lag` late: the model assumes that the room's loop serves a deadline within
`Lag` of its falling due.  That is `RoomLoop`'s `DeadlineLag`: under overload one
passed deadline is served between two ticks run back to back (room.rs 597-609),
so `Lag` is the time of the longest tick.  With it, "the room ends" is a safety
property with a number in it (`RoundBounded`, `DrainBounded`,
`EmptyRoomReaped`, `GraceBounded`) and needs no fairness.  That a deadline which
has come due is one that something serves is checked separately
(`DeadlineServed` in `Room`: time or a deadline's handler is always enabled, so
`Pass` never hides a deadlock).

### Room

One step is one turn of the room's loop, whole: the state it changes, and in
`sent` what it queues on each connection's outbox.  Seat *i* of the code is
position *i + 1*; a seat that left a round is `Vacant` (`None`), and a waiting
room closes its seats up (`Settled`).  A connection (`link`) joins at most
once, sends while attached, and says `Disconnected` last; commands of different
connections interleave freely, so a stale `Disconnected`, one after a reclaim
or a kick, is among the behaviours.  The world is "none", "fresh" (frame 0) or
"running", which is all the protocol shows of it; the tick that decides the
round is `RoundDecided`.  The drain reaches the room in two steps, the hub's
flag and the room's own branch of the select, with commands in between.

Left out: nicknames, chat, statistics, the dev tools' commands and bot seats.

### RoomLoop

A step is a turn of `run`'s loop: one served relief, drain signal, tick, command
or deadline, or a wait.  Instants are relative, counting down as time passes; a
tick takes any time of `TickCosts`, from nothing to one that makes the schedule
restart.  What a turn does to the seats is `Room`'s; here it may leave the room
ticking or not and with any deadline, one that is due already included: the last
player to leave a draining round makes it a paused one whose time is up.  One of
the commands in the channel, `mine`, is followed to its turn.

### LobbyViews

The room, an ordered channel to each connection's client, and the client:
`Take` is `RoomClient::take` with what `OnlineRound::poll` makes of it, and
`CanStart`, `CanKick`, `SeesReady` are what the lobby's buttons go by.  A client
presses a button only when its picture, however old, offers it, and the command
is served at once: one that waits in the channel is one sent on an older
picture.  The drain is among the room's turns, and no client is told of it.
Where a property says "has heard everything", its channel is empty.

### SnapshotFeed and SnapshotStream

`SnapshotFeed` is the promise: the world moves on, the client shows a state it
was in, never an earlier one after a later one, or shows nothing.
`SnapshotStream` is one seat's stream.  A snapshot is named by the round and
frame it shows, a delta by the two moments it connects, an event by its frame;
`TakeDelta` marks the client's state as garbled when the delta was not cut from
what it holds.  What a turn of the room says is said message by message with
the writer running in between, and the connection task sees a full outbox
(`closing`) or a dead socket (`broken`) only later.  The refinement maps the
client's baseline to `shown` while its connection is open, and a garbled one to
no state at all.

### Delta

A family of a snapshot (tanks, shots, tiles, ...) is a function from the keys it
holds to entries, as `by_key` makes it; an entry with a position is two 16-bit
integers and a look.  `DiffPositioned` decides per entry between a move of two
signed bytes and the whole entry, `ApplyPositioned` adds with wrap-around.  In
the stream's run the client's picture is made of the deltas it applies
(`MCSnapshotStream`, `Picture`).  The world of a moment is a constant, `World`,
of which only its form is assumed; the run's (`Scene`) has four frames in which
tanks move by 127, by more, across the whole range, move and are hit, come and
go.

### Playout

Time is in ticks.  The room ticks on its schedule, is kept from running (`Stall`)
and catches up or restarts the schedule as `TickClock::fire` does; each snapshot
is stamped, may be skipped at the outbox, and arrives in order after any transit
up to a bound.  The client reads the offset of the clocks and the anchor of the
schedule off the stamps (`Observed`, `Anchored`), a frame moves the picture
towards its target, holds it or jumps (`Advanced`), and hands over the events of
every snapshot it passes (`Sampled`).  The picture's place is
counted in grains, fractions of a tick.  A frame runs it on by its own length, and
by what the rate adds or takes (`RateFor`): any number of grains toward the target
that neither the error over `RATE_TIME_CONSTANT_MS` nor `RATE_FAR` forbids.  So
`rate_for`'s deadband and its ramp from `RATE_NEAR`, and the steeper rate of a
picture past the newest snapshot, are all among the choices, and no property
depends on them; that the rate is bounded and the frame is not is in the model.
The smoothed delay is a constant.  What is drawn between two snapshots is left
out, and so are events that are for show only and dropped once stale.

### Mailbox and SeatInput

`inner` is `Inner`, behind the mailbox's lock, so a post, a read and a clear
are one step each.  An intent is a tick, the trigger and whether it carries a
pose; a pose is abstracted to the tick it is of, which for a client driving
straight on at top speed is also where it is, in ticks of travel.  That is the
hardest case for the validator, and the one `PoseTaken` is about.  A starved
tick's guess, the play point and its controller, the fold of a full buffer and
the owed press are modelled in full; the reticle, the lamp key and the hold
report are not.

`SeatInput` puts the mailbox between the client's tick (`Drive`) and the room's
(`RoomTick`).  Both clocks run on the same periods, each with its own backlog
and catch-up rule; the link is a FIFO, or lets packets overtake (`Overtake`),
and a reclaim leaves the replaced connection's task with packets it has read
and not yet posted (`stray`).  The lead controller of a server-driven client,
which skips or repeats ticks of its own, is left out.

### Waves

A frame of `Game::update` is its phases in their fixed order: tanks reach the
end of their lanes, the scheduler and the director, one tank at most down a
lane, stragglers re-rolled, the fight, the end of the round.  The fight is any
choice of who is hit; pressure, which lanes are free of obstacles, how long a
lane takes and who is a straggler are choices too.  `pick_gate`'s three answers
(a lane, all busy, no lane on this map) are `Picks`.  `field` tells an arena,
with its fixed gap, from a field map, whose breather the director paces.

### Hub

A step is what happens under the map's lock or between two awaits.  Connection
tasks create (look at the drain flag, then take the lock), find, ask, wait for
an answer, hang up and leave; a room's task serves its channel, breaks, removes
itself from the map, notifies and returns, the last of which drops its channel
with what is queued in it; `main` waits in `drained`, which counts under the
lock, lets it go, and waits on the `Notify`, whose permit is kept for a waiter
that is not there yet.  What a room does inside is `Room`'s: here it may refuse,
seat or end at any time.

## 3. What the runs check

All runs take the largest instance that finishes in minutes.  TTLs are small
numbers chosen so that each limit can fall before, at and after each other one,
and not to keep the proportions of the real ones; the theorems of section 5
hold for all of them.

| run | instance | what it shows |
|---|---|---|
| `lifecycle` | 2 seats, 12 instants, lag 1 | a round is paused exactly while empty; rounds, drains and empty rooms end in bounded time, whatever order the methods come in |
| `room` | 3 devices, 4 connections, 2 seats, 4 instants, lag 1 | the connected count is right; seats are owned and keep their number; deadlines spare who is connected, come in time and are always served; `Room` refines `LifeSpec` |
| `lobby_views` | 2 devices, 2 connections, 2 instants, a drain, 4 messages in flight | a client that has heard everything has the room's roster and its own number (`ViewSettles`), a rematch button whose press is answered as it says unless the server drains, and no phantom round |
| `room_loop` | a period of 2, ticks of 0 to 7, a catch-up of 2, 2 commands, fairness | a deadline waits for one tick at most; commands, due ticks and the drain are reached, however late the room runs |
| `stream` | outbox of 2, 3 rounds of 3 frames with a snapshot a tick, 2 rounds with one every second tick | the client is in step with what the room takes it to have; hears no event twice and misses none where it missed no message; only shows states the world was in, entry for entry |
| `playout` | a buffer of 2, 8 instants of 2 grains, a rate of 1 and a third at most either way, stalls of 3 and 6, 2 stalls, 1 skip, 2 welcomes | every state event is handed over once and in order; the picture never goes back, and every frame leaves it near its target or waiting for it, a long one within what the rate may stray; the anchor follows a restarted schedule and no burst |
| `seat_input` | an ordered link, up to 2 periods late, the room and the client up to 3; and a rough one whose packets overtake, with a reconnect | honest poses are taken; presses are kept and none made up; the play point's margin is bounded; server-driven inputs are applied one a tick; the hull is never walked back |
| `hub` | 2 connections, 2 codes, cap 1, 2 rooms ever, fairness | the cap, and codes that name running rooms; every join is answered; the drain notices the last room go |
| `waves` | 3 waves of a tank, 2 seats, 2 lanes, arena and field map | no tank or seat is lost or comes twice; lanes are exclusive; a won round is cleared; the breather keeps its bounds and its rest |
| `lobby_button`, `lobby_frame_zero`, `seat_reclaim` | | expected violations, section 4 |

Every property of a passing run has a mutant in `PROJECT.json` that the run
refutes it with.

### Bounds, and why they are enough

* `room`: a seat can be reclaimed over a live socket while the first socket's
  `Disconnected` is still to come, and another device can take part: that needs
  two connections of one device and two more devices, the third to find the room
  full or take the seat of one kicked.  Two seats are enough for a host, a
  guest, a compaction and a change of host.  Four instants let every TTL of the
  instance (1 to 3) expire, the longest with lag.
* `lobby_views`: what a client sees depends on its own channel and the room, so
  two devices cover the pairwise races; `ChanBound` 4 holds a whole
  greeting (a welcome, an end and a roster) and one message more.  In two instants
  a round reaches its limit, an ended room its own, a grace runs out and a drain
  falls before, in and after each.  A reclaim takes two connections of one
  device; where it matters (`lobby_frame_zero`) the instance has three.
* `room_loop`: ticks of 3 outlast their period and of 7 the whole catch-up, so
  that the schedule falls behind, stays behind and restarts; two commands and a
  deadline can wait at once.
* `stream`: with an outbox of 2, a skipped snapshot, a lobby message that does
  not fit, and a queue that outlives a round's end all occur within 3 frames;
  three rounds let a message of one round be read in the one after the next.
  `every` is chosen at the start: a snapshot each tick as `SNAPSHOT_EVERY` has
  it, or each second one, where events are banked.
* `playout`: a stall of 3 is caught up in a burst and one of 6 restarts the
  schedule; the buffer of 2 overflows while the picture is held through either;
  two stalls let a second burst or restart follow the first.  A frame of up to 8
  ticks is longer than the rate's time constant of 1.5, and than the 3 after
  which a rate at its bound can stray by more than `RenderSnap`, so a picture
  taken past its target, either way and further than that, occurs.
* `waves`: a wave can be called by timeout while the one before still waits for
  a lane, is rolling in, or fills the cap of 2; a seat can fall, be queued, come
  back and fall again within three waves.
* `seat_input`: 7 periods hold up to three of the controller's windows (2 reads
  each), a buffer of 4 that overflows and folds, and a stall of 3 ticks that is
  caught up or dropped.  The constants keep the order the real ones have
  (`DeadReckonTicks` < `BufferMax` <= `ReachTicksMax`, `CatchUpTicks` <
  `BufferMax`) and satisfy the hypotheses of `PosesTaken` (section 5), except
  that the coast (`IntentCoast`) is out of reach: see section 4.
* `hub`: a second room under a cap of one can only be created after the first
  has gone, which is when a code can be reused; two codes make reuse and a fresh
  code both possible.
* A queue bound (`ChanBound`, `MaxPeriods`, `MaxEver`, `MaxRound`, `MaxFrame`,
  `Horizon`, `CommandRate`, `Notice`, `MaxStalls`, `MaxSkips`, `MaxWelcomes`) is
  a guard that stops the model and is in no property.

Symmetry is used in runs of safety properties only, over devices, connections
and codes, which the modules compare and never order.  The views drop `sent`,
which no later step reads.

The type invariants of `Lifecycle`, `Room`, `RoomLoop`, `SnapshotStream` and
`Hub` are theorems (section 5); so is that of
`Waves`, as the first conjunct of `NoneLost`; those of `Playout` and `SeatInput`
are the first conjunct of `StateKept` and `PressKept`, and theorems too.

The largest runs are `waves` (6.4 million states), `lobby_views` (3.4), `stream` (2.3),
`playout` (2.1) and `room` (0.6); with two workers each takes a few minutes
at most.

Deadlock is checked in the stream's run, where some seat can always say
something.  Elsewhere the system may stop: a room is reaped, a horizon is
reached, a server is down.

### Fairness

`hub` and `room_loop` have some; every other property is of safety.  The loop of
`room_loop` is one task: it is weakly fair that it takes its turn (a tokio task
that is ready is run), and which turn is the select's to say.  Commands, the
drain and how long a tick takes are not fair.  In `hub` each step a
task takes without waiting for another's choice is weakly fair: the server's
count, wait and wake, a room's serving of what is queued and its way out, a
connection's insertion, its send into a channel with room or without a
receiver, and its seeing the answer dropped.  A room's `Break` is fair only while
draining: `DrainBounded` is what says that it comes.  Nothing a person or the
network decides is fair: creating, joining, hanging up, `SIGTERM`, and
`CutShort` (`DRAIN_MAX` or Ctrl-C), so that `DrainEnds` cannot lean on the cut.

## 4. What came out of it

Three runs find the code at odds with what a comment says of it.  Each checks
one property, and TLC's counterexample is the shortest.

* **`lobby_frame_zero`** (`RoundIsSeen`, code bug).  `RoomClient::take` enters
  a round on `Started` or on a welcome past frame 0 (client.rs 615-628).  A seat
  reclaimed after START and before the first tick is welcomed at frame 0 and
  never gets the `Started` the old socket got: the client stays in the lobby
  while its tank stands in the round.
* **`seat_reclaim`** (`NothingOnTheWayIsStale`, code bug).  A reclaim clears the
  mailbox and gives it to the new connection (room.rs 733-745), but the old
  connection's task still holds it and may post a packet it has read.  Its tick
  is far ahead of the new client's, which counts from 0, so the new client's
  intents are dropped as stragglers until they catch up.
* **`lobby_button`** (`WaitingButtonHonest`, a comment the code does not keep).
  When a waiting room's seats close up, clients learn a roster but not their own
  new number; the player who becomes the host cannot press START.  The same comment
  (round.rs 545-549: "dead exactly when a press would come back refused") is not
  kept the other way about in an ended room of a draining server: START is
  refused with `ServerDraining` (room.rs 892-894), no client is told of a drain,
  and the button stays live.  `RematchButtonHonest` has this as its one
  exception, and says that there is no other.

Found while modelling, and not a run of their own:

* READY is taken in any phase (room.rs 816), and `end_round` clears no flag
  (the start does): one set during a round is still there after it, where the
  comment at room.rs 967-971 promises "every seat unready again".
* A START already queued when the drain begins is served by a room in its
  waiting phase (room.rs 890 refuses only a rematch; the select serves a command
  ahead of a deadline, 611-627), where hub.rs 215-216 says that every other room
  closes at once.  `DrainBounded` shows the drain still ends in time.
* interp.rs 181-186 says that a catch-up burst never moves the picture's anchor,
  and 193-198 that two agreeing stamps tell a burst from a restarted schedule.
  Where a snapshot of the burst is skipped at a full outbox, or a second stall
  falls in the middle of it, two snapshots in a row can be equally late and the
  anchor moves and moves back.  `AnchorTrue` is about a burst the client sees
  whole; `RenderForward` holds through both.
* interp.rs 1071-1075 steers a picture that is within `RENDER_SNAP_MS` of its target
  at a bounded rate.  The rate is bounded, the frame is not: after one longer than
  `RATE_TIME_CONSTANT_MS` (a tab that was hidden) the picture can have run past its
  target, and after one of more than 2.5 s be further off than `RENDER_SNAP_MS`,
  until the next frame holds or jumps.  With an error of 100 ms a frame of 4 s
  ends 300 ms past.  `PictureNear` bounds it by a tenth of the frame's length.
* `Interpolator::accept` starts over at a tick before the newest (interp.rs
  809-818).  No message of a room gets there: a round that starts anew is
  announced by a welcome, which restarts the picture first.
* `DRAIN_MAX` (hub.rs 26) equals `ROUND_MAX`, so the last of a round started
  just before the drain, and its end screen, can be cut.
* `create_room` checks the drain flag before it takes the lock (hub.rs 144): a
  room may appear after `drained` has counted none, and be closed by the
  shutdown though the log says that every room ended.
* When a start's welcome does not fit a closing connection's outbox, the
  snapshot after it can still fit, and is applied to the last round's state
  until the client sees the close.  `Feeds` says nothing of a connection that
  has been given up.
* `delivered` outlives a coast-out (mailbox.rs 558-563), while the round sees the
  trigger go up: one held across the silence fires once more when the seat is
  heard again, or an owed press is made good that late.  No press is lost by it
  (`PressesKept`).  The coast is outside `seat_input`'s horizon, and
  `ShotsOfPresses` leaves it out.
* Two presses in one read are one shot, which mailbox.rs 92-95 says.  A press
  read on the tick that fires an owed one is lost as well, which it does not;
  `PressKept` allows both (`behind`).
* mailbox.rs 331-347 steps the point onto the oldest intent waiting "so the
  validator is never handed a jump it has to refuse".  That is true up to a
  limit, which `PosesTaken` (section 5) has as a hypothesis: a link that is no
  later than `REACH_SPARE_TICKS` and the slack make up for.  At the default top
  speed of 3.5 px a tick the slack of 8 px is two ticks, so the limit is three
  ticks of lateness.  With the code's own constants, simulation of `MCSeatInput`
  finds a refused pose once packets may be four ticks late, and none at three.
  At five, for one, the queue overflows and the step onto the oldest intent left
  is nine ticks, where the read vouches for six and the slack gives two.
* `SNAPSHOT_EVERY` is 1.  Were it more, the last snapshot of a decided round
  that falls on a cadence tick would carry that tick's events twice.  So
  `HeardOnce` is checked at 1 and the banking of events (`EventsComplete`) at 2.
* A seat that is away cannot ready up, and in an ended room no grace frees it:
  there is no rematch before it returns or the host kicks it, and the room goes
  at `ENDED_TTL`.  When it is the host who is away, nobody can kick.

## 5. What is proved

tlapm proves the following for every value of the constants that meets the
modules' assumptions, with SMT, Zenon and, for the temporal steps, LS4.

**`RoomProofs`**, the clock (from `TtlAssumption`: positive limits, and
`DRAIN_ENDED_TTL` no longer than `ENDED_TTL`).  Theorems `LifeTypeCorrect`,
`RoundPausedWhenEmpty`, `RoundStaysBounded`, `DrainStaysBounded` and
`RoundAlwaysHasClock`, all consequences of `LifeInvariant`.  `RoundBounded` and
`DrainBounded` are not inductive: a drain's bound is handed from a waiting or
paused room's `drain_at` to the round's start to the end screen's `since`.
`LifeInv` adds how late each phase may have begun (`DrainStages`), that no
remembered instant lies ahead (`PastInstants`), and that a round has a start
(`RoundHasClock`), without which a round in play would have no deadline.  The
step lemma has one case per method.  `EmptyRoomIsReaped`, over the history variable of
`MCLifecycle`, needs one thing more: `EmptyStages` ties the clock of an empty
room, in whichever phase it is, to the instant it was left.

**`RoomProofs`**, the room (from the same and a positive grace).  `RoomImplementsLife`,
the refinement `RoomSpec => LifeSpec`, carries all of the above over to the
room; `CountAlwaysRight`, `SeatsAlwaysOwned`, `GraceAlwaysBounded`,
`WaitingAlwaysDense` and `RoomTypeCorrect` are the room's own, all from
`RoomInvariant`.  The clock's rules need the count of connected seats (a
`disconnect` asks for one to count out), and the count needs to know whose
socket a seat has, so the two are proved together.  `RoomInv` adds to `LifeInv`
that a seat with a socket has one that is attached, that no two seats share one
(`GoodSeats`), and when a seat was last away (`Stamped`), which bounds the
grace.  A waiting room's closing up (`Settled`) renumbers the seats; the lemmas
about it say that the seats that stay are the same seats in the same order,
that each of the three parts carries over, and that the count goes down by one
exactly where the seat removed had a socket.  `ClosedUp` is defined by counting
(`Nth`) rather than with a filter, so that this can be said without induction.
The step lemma has one case per handler.  `DeadlinesSpareConnected`
and `SeatsAreKept` are action properties from the same invariant: what a step
does to a seat is read off the handler, and the invariant says whose it was.

**`LobbyViewsProofs`** (from what `RoomProofs` takes; the channel's bound needs
none).  `PicturesSettle`, `RematchButtonAlwaysHonest` and `NoRoundIsPhantom`, all
from `ViewInvariant`.  They speak of a client that has heard everything, and the
room says something on nearly every step, so the invariant is about what a
client will hold: `Comes` follows its picture message by message through the
channel, and at the end of it the picture agrees with the room as it is now
(`Agrees`, the roster, the ready flags between rounds, the seat's number, no
press left standing in an ended room).  Nothing of it depends on the drain, which
only `StartRefusal` reads: that is why it is the button's one exception.
Reading a message takes one off the way (`HeadTaken`); a press of START,
answered or not yet, changes nothing that a later welcome, end or refusal does
not settle (`PressedComes`); and each handler of the room queues, for every
client it leaves a seat, what makes up for what it changed: a roster for a
changed seat (`RosterToAll`), `Started` and a welcome for a round
(`HearsStart`), `Ended` and a roster for its end (`HearsEnded`), a welcome to
who joins (`HearsGreeting`).  A welcome is merged into the roster the client
has, which gives the true one only because a start changes nothing but the ready
flags (`MergedRows`).  Who has not joined has heard nothing, or a refusal
(`Unheard`).

**`RoomLoopProofs`** (from `LoopAssumption`: a positive period, and ticks of
which one is the longest).  `DeadlinesLagOneTick` is the assumption `Lag` of
`Lifecycle`, and `LoopTypeCorrect` bounds how far behind the schedule can be.
`DeadlineLag` is not inductive: `DeadlineNext` adds that where a deadline has
been overrun a tick did it, and that the next turn is then no tick.  A deadline
that a command makes already due counts from the command (`HandledRoom`).

**`StreamProofs`**, the delta (from `DeltaAssumption`).  `DeltaRoundTrip`: applying the delta
cut between two snapshots to the first gives the second, for any families, keys,
looks and 16-bit positions.  The arithmetic is one lemma, that a step which fits
a signed byte wraps back to where it leads; the rest is that keys that went
away, came, moved and changed are told apart.

**`StreamProofs`**, the stream (from `StreamAssumption`).  `ClientsInStep` and
`StreamImplementsFeed` (the refinement of `SnapshotFeed`) for every outbox depth,
cadence and number of rounds, and `StreamTypeCorrect`.  `InStep` compares the room with a client that may be a
queue behind, so the invariant follows what the client will hold message by
message: `Chained` says there is a sequence of baselines, from the client's
through each message of the outbox to what the room has still to say, in which
each delta was cut from what stands before it, none goes back, and the last is
the snapshot the next delta will be cut against.  Reading a message drops the
head of that sequence, queueing one extends it, and a skip ends it, which is
what `needs_full` records.

`PicturesAreTrue` puts the two together (and takes `WorldAssumption`: the world of
each moment is of a snapshot's form): a delta that was cut from the client's
baseline makes the world before into the world after.

`EventsAreComplete` and `EventsAreHeardOnce` speak of what the client has heard, and
are not inductive for the same reason.  `HearingInv` follows a view - the
baseline, since when, and what was heard - through the outbox (`Hears`): every
snapshot in it is of the round of the baseline it meets and no earlier, without
which `Interpolator::accept` and `take` would drop events they should not
(`Heard`).  The view it ends in is of this round, and what it is short of is
banked and later than its baseline, or is in the snapshot still to be said
(`Told`, `Complete`).  That "later than its baseline" is what makes the time
limit's second snapshot of a tick harmless: it adds nothing to a client that has
the tick, and such a client is short of nothing.  `EventsAreHeardOnce` has one
hypothesis, `SnapshotEvery = 1`, which is the code's `SNAPSHOT_EVERY`: then nothing
is ever banked, and a snapshot carries its own frame's events or none
(`Singles`).  With snapshots further apart it is no theorem and no property of the run
either.  All steps are proved for a tick that sends or banks as it likes
(`AnyTick`), so the two cadences of the run are one proof.

**`PlayoutProofs`** (from `PlayoutAssumption`; of the code's numbers it takes only
that a catch-up, 4 ticks, is no longer than the clock's snap, 30).
`StateAlwaysKept`, `PictureForward`, `PictureAlwaysNear` and `AnchorAlwaysTrue`, for
any buffer, delay, hold, stalls, skips and transit.  `PlayoutInv` has four parts
beside the typing.  `Timely`: no stamp lies ahead, and the room's next tick is at
most one away.  `Sending`: what is on its way ascends, and a message that follows
the one before it tick by tick but on another schedule is on time - this is the
room's `TickClock` as a client can see it, and it needs where the room stands
behind the newest message (`UpTo`).  `Standing`: of the snapshots held all but the
first are owed, so what was handed over, what a full buffer let go of and what is
owed make up what was read; `Owed` is defined by counting, so that this can be
said without induction.  `Anchoring`: the anchor is the least of its window
(`IsLeast`), the latest `streak` of it are the schedule's own, and within a burst
the window still holds an epoch that was not late (`Recent`): a burst is at most
`CATCH_UP_TICKS` long and each of its ticks a tick less late than the one before,
so it cannot push that epoch out of `ANCHOR_SNAPSHOTS`, which is what the constant
is for.  `PictureAlwaysNear` is arithmetic on one frame: the rate's share has the
sign of the error, so what is left of it is no more than the larger of the two
(`Steers`), and within the time constant the share is no more than the error
(`Closes`).

**`SeatInputProofs`** (from `MailboxAssumption` and `SeatInputAssumption`).  Over
`InputSpec`, for any link: `InputTypeCorrect`, and `HullNeverBack`, the action
property `NeverBack`, whatever overtakes and whoever reclaims.  `InputInv` is the
typing with the shape of what a queue holds - one intent a tick, within the cap
(`Held`), each later than the one applied (`Fresh`) - which is what keeps an old
packet from being applied.

Over `MCSpec`, for an ordered link: `InputsInTurn`, `MarginNeverWidens`, `PressesKept`
and `ShotsOfPresses`, for any timing, window, coast and fire hold, and `PosesTaken`.
They need where the client's ticks are.  `OrderedInv` says that they are in a row: the link holds
those from what has come (`Come`) to the client's own, and the queue those from
some tick to `Come`, nothing missing between it and the last applied but what a
full buffer dropped or folded (`Row`).  `InputsInTurn` is read off it; the margin
is bounded because a queue that holds a row is no longer than its cap.
`MarginNeverWidens` has the hypothesis `BufferMax > 1` - the point begins one behind
the newest arrival - and the code's is 8.

The trigger is compared with the client's: `TriggerInv` says there is a function
of the client's ticks of which all there is of the trigger - on the link, queued,
last applied, folded, pressed - is a part (`TraceLine`, `Traced`).  A press is a tick
at which it rises, and each rise up to the last applied has been fired on, is
owed, or came with another in one read.  Scanning
queued intents that are a row finds the first rise among them, after what was
folded before (`ScanAlong`).  A coast-out makes no difference to
`PressesKept`, of which the round need only hold what the mailbox has handed over.
For `ShotsOfPresses` it must hold exactly that, so this one has the hypothesis that
the seat does not coast out: it is false otherwise (section 4).

`PosesTaken` is `PoseTaken` for any constants that are `Tolerant`, as long as the
seat does not coast out.  Its invariant, `PaceInv`, ties the three clocks that a
read compares.  How far the client is past the intent applied is bounded twice: by
the queue, the link and the ticks the room owes, and by the queue, the link and
the room's wall clock.  Either bound alone is lost by some step: the owed ticks are
dropped by `TickClock` without a read, and the wall clock does not know of a read
that starves.  How far the point is past the intent applied is bounded by the reads
since, the coming one's step counted, which is where the controller's hold and
double step go.  A queue that has folded is full (`FoldFull`), so where the oldest
intent waiting is `BufferMax` behind the newest.  From this `ReachCovers` compares
what the client drove with what `Reach` vouches for, by the three ways `CaughtUp`
places the point (`Paced`), and `StarvedPace` and `MergedPace` bring the bounds back
after a read.

`Tolerant` has two kinds of hypothesis.  The first are constants, and the code's
satisfy them: `BUFFER_MAX` 8 > 1, 0 < `PLAYOUT_NARROW_AHEAD` 2 <= `REACH_SPARE_TICKS`
2, `DEAD_RECKON_TICKS` 3 <= `POSE_REACH_TICKS` 4, a slack of a tick at least.  The
second are about timing.  `Latency + 1 <= ReachSpareTicks + ReachSlackTicks` is what
the step to the oldest intent needs, and cannot be dropped (section 4).  `BufferMax +
Latency + RoomStall <= ReachTicksMax + ReachSlackTicks` keeps a stall within what one
read vouches for, 30 ticks in the code.  A seat that is silent for longer coasts
out, and the validator answers the pose after that with `Placed`, as the comment of
`REACH_TICKS_MAX` says; this is why the theorem leaves the coast-out out, and TLC
finds `PoseTaken` violated when a run reaches one.

**`HubProofs`** (from `HubAssumption`: positive bounds, and finitely many codes,
more than rooms).  Theorems `HubTypeCorrect`, `CodesAlwaysNameRooms` and
`CapAlwaysHeld`, consequences of `HubInvariant`.  `HubInv` is the typing,
`CodesNameRooms`, the map within its cap, and `RoomsKnown`: whatever room a
connection holds is one there was.  It needs `QueueInv` beside it: a queued join
is of a connection waiting for that very room, and is queued once, so serving it
seats nobody who has gone elsewhere.  `CapHeld` counts running tasks and
`create_room` counts codes: `CapFromCodes` maps the tasks one to one to the
codes, and bounds their number by the map's.  The step is split by actor
(connection, room, server) and by what each action disturbs.

**`WavesProofs`** (from `WavesAssumption`).  `NoTankLost`, `LanesAreExclusive` and
`WonIsCleared` over `WavesSpec`, `SeatsAreQueued` and `PaceIsKept` over the history
variables of `MCWaves`.  `WavesInv` is the typing, the lanes, what a won round has
left, `Running` and `Supply`: the queue and the slots given out make up the tanks
of the waves called so far.  That sum is a recursive function on the naturals;
the one induction it takes is done by the least number that would be wrong, which
the well-foundedness of the naturals gives without an induction rule.  `PastInv`
adds who is queued against who has fallen (`Waiting`), and what the scheduler's
clock and the breather have been (`Clock`, `Breathing`).

The proofs have 16855 obligations: 838 in `HubProofs`, 2098 in
`LobbyViewsProofs`, 3392 in `PlayoutProofs`, 389 in `RoomLoopProofs`, 1384 in
`RoomProofs`, 4607 in `SeatInputProofs`, 2531 in `StreamProofs` and 1616 in
`WavesProofs`.

**Checked by TLC only**: liveness (`JoinAnswered`, `DrainEnds`, `NoneStarves`) and
`DeadlineServed`, which is about ENABLED.  Every other property of a passing run is
a theorem.

To check a run: `tlc -config Room.cfg MCRoom` (`PROJECT.json` has the pairs);
to check the proofs: `tlapm RoomProofs.tla` and so on.

## 6. What is not modelled

* Prediction (`net/predict.rs`): the client's copy of the hull and its replays
  compare floating-point positions and angles; only its handling of shots is a
  protocol, and is planned.
* The rest of the simulation, AI, maps, rendering: floating point,
  deterministic, in one thread.  `Waves` takes from it who is hit and which
  lanes are free, the protocol modules take frames, an outcome and a trigger.
* Of `waves.rs`, chassis and tiers, where lanes lie and which one is preferred,
  and the Hunt mission's enemy bong; of `director.rs`, how pressure is computed.
* Of `interp.rs`, blends, extrapolation and corrections, events for show, and
  the percentile of lateness that the delay follows.
* What a message contains beyond what the properties tell apart, and its
  encoding (`codec.rs`, `wire.rs`, `apply.rs`): pure functions over large records.
* The dial and the keep-alive: a client opens one socket to one server and does
  not redial by itself; a player who joins again reclaims the seat, which `Room`
  has, and a connection may drop at any time, which is what a keep-alive that
  gives up looks like from the room.
* How poses are validated in space: `PoseTaken` takes the reach a read allows
  against the ticks it asks for.  Where an owned pose of the last round would
  put a hull in the next (round.rs 802) is out of this abstraction's sight.
* Allocation failures and poisoned locks.

## 7. Plan

Done: sections 2 to 5.  What would tell most next:

1. `Prediction`: the matching of a predicted shot with the room's, its timeout
   and its rejection, against the mailbox and the stream.
2. A `SeatInput` with the lead controller of a server-driven client, and a run
   of it that coasts out.
