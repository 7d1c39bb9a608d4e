------------------------------ MODULE Playout ------------------------------
(***************************************************************************)
(* The picture a client draws of the room's snapshots                      *)
(* (src/net/interp.rs, Interpolator): the snapshots it holds, the place on *)
(* the room's tick schedule the picture stands at, and the events it hands *)
(* to the replica as the picture reaches them.                             *)
(*                                                                         *)
(* The clocks are concrete: the room ticks on its schedule, late after a   *)
(* stall and on a new schedule after a long one (src/net/authority.rs,     *)
(* TickClock), each snapshot is stamped with the time it was sent and      *)
(* arrives in order after any transit, and the client reads the anchor of  *)
(* the schedule off the stamps.  Every snapshot carries an event the       *)
(* replica needs as state.  What is drawn of a snapshot - blends,          *)
(* extrapolation, corrections -, the events that are only for show and     *)
(* not handed over once they are stale, and the lateness percentile behind *)
(* the delay are left out.                                                 *)
(*                                                                         *)
(* The unit of time is one tick; the picture's own places, and what it is  *)
(* steered by, are counted in grains, of which a tick has Grain.           *)
(***************************************************************************)
EXTENDS Integers, SequencesExt

CONSTANTS
    BufferedSnapshots, \* BUFFERED_SNAPSHOTS
    ClockSnap,         \* CLOCK_SNAP_MS
    AnchorHold,        \* ANCHOR_HOLD_MS
    Grain,             \* grains in a tick
    RenderSnap,        \* RENDER_SNAP_MS, in grains
    RateFar,           \* 1 / RATE_FAR: the rate strays by one part in so many
    RateTime,          \* RATE_TIME_CONSTANT_MS, in grains
    Delay,             \* target_delay_ms, in grains
    CatchUpTicks,      \* CATCH_UP_TICKS
    None,
    Stalls,            \* timing: how long a stall of the room may be
    MaxStalls,         \* bound: stalls of the room
    MaxSkips,          \* bound: snapshots skipped at a full outbox
    MaxWelcomes,       \* bound: welcomes to a round
    Transit,           \* timing: the longest a message is on its way
    Horizon            \* bound: the last instant

ASSUME PlayoutAssumption ==
    /\ {BufferedSnapshots, ClockSnap, Grain, RenderSnap, RateFar, RateTime} \subseteq Nat \ {0}
    /\ {AnchorHold, Delay, CatchUpTicks, MaxStalls, MaxSkips, MaxWelcomes, Transit, Horizon} \subseteq Nat
    /\ Stalls \subseteq Nat \ {0}
    /\ CatchUpTicks <= ClockSnap
    /\ None \notin Int

VARIABLES
    now,   \* both sides' clocks
    room,  \* the last tick, when the next is due, and until when the room stalls
    link,  \* what is on its way, oldest first
    spent, \* of the bounds: stalls, skips and welcomes so far
    interp,
    heard  \* the replica: the ticks whose events it was handed since its welcome

playoutVars == <<now, room, link, spent, interp, heard>>

AnchorSnapshots == CatchUpTicks + 2
AnchorRun == 2

Smaller(a, b) == IF a < b THEN a ELSE b
Larger(a, b) == IF a > b THEN a ELSE b

----------------------------------------------------------------------------
(***************************************************************************)
(* The events of a snapshot, and when they are owed.                       *)
(***************************************************************************)

\* Interpolator::default
NewInterp == [
    buffer |-> <<>>,        \* the snapshots held, by tick, oldest first
    released |-> None,      \* the newest tick whose events were handed over
    orphaned |-> <<>>,      \* what a full buffer let go of, owed to the next frame
    epochs |-> <<>>, anchor |-> None,
    offset |-> None,        \* ServerClock::offset_ms
    render |-> None, rendered_at |-> None, holding |-> FALSE]

Owed(i, tick) == i.released = None \/ tick > i.released

\* The room's tick time (server_now), where it is known.
ServerNow(i, at) ==
    IF i.offset = None \/ i.anchor = None THEN None ELSE at + i.offset - i.anchor

\* Of these ticks, which ascend, those owed.
OwedOf(i, ticks) == SubSeq(ticks, Cardinality({n \in DOMAIN ticks : ~Owed(i, ticks[n])}) + 1, Len(ticks))

Ascends(ticks) == \A n \in 2..Len(ticks) : ticks[n - 1] < ticks[n]

\* owed, for the last of them.
Marked(i, ticks) == [i EXCEPT !.released = IF OwedOf(i, ticks) = <<>> THEN @ ELSE Last(OwedOf(i, ticks))]

----------------------------------------------------------------------------
(***************************************************************************)
(* The clocks.                                                             *)
(***************************************************************************)

\* reset_picture
FreshPicture(i) == [i EXCEPT !.render = None, !.rendered_at = None, !.holding = FALSE]

\* A stamp: the offset is the best reading of the window, which may have let
\* go of the ones before, or on its way down to it after a gap.  A reading far
\* above is a new clock, and the picture is held for it.
\* ServerClock::observe_ms
Observed(i, stamp, at) ==
    LET reading == stamp - at
    IN  IF i.offset = None \/ reading - i.offset > ClockSnap
        THEN {[i EXCEPT !.offset = reading, !.holding = TRUE]}
        ELSE {[i EXCEPT !.offset = offset] : offset \in reading..Larger(i.offset, reading)}

\* The last n of a sequence.
Latest(s, n) == SubSeq(s, Larger(Len(s) - n, 0) + 1, Len(s))

Kept(epochs) == Latest(epochs, AnchorSnapshots)

\* Mutant: a new schedule is waited for until the old one's are forgotten.
RunNever(run) == FALSE

\* Snapshots in a row that came equally late.
IsRun(run) == Len(run) = AnchorRun /\ Cardinality(ToSet(run)) = 1

\* An anchor that moves this far forward holds the picture.
Held(i, low) == i.holding \/ low - i.anchor > AnchorHold

\* note_anchor
Anchored(i, epoch) ==
    LET seen == Kept(Append(IF Larger(epoch - i.anchor, i.anchor - epoch) > ClockSnap THEN <<>> ELSE i.epochs, epoch))
        run == Latest(seen, AnchorRun)
        restarted == IsRun(run) /\ Min(ToSet(run)) - i.anchor > AnchorHold
        low == Min(ToSet(IF restarted THEN run ELSE seen))
    IN  IF i.anchor = None THEN [i EXCEPT !.epochs = Append(@, epoch), !.anchor = epoch]
        ELSE [i EXCEPT !.epochs = IF restarted THEN run ELSE seen, !.anchor = low, !.holding = Held(i, low)]

----------------------------------------------------------------------------
(***************************************************************************)
(* What the client reads.                                                  *)
(***************************************************************************)

\* Interpolator::restart: a welcome's snapshot is in the replica already.  A
\* clock whose readings are all too old lets go of them, as Observed may.
Restarted(tick, stamp, at) ==
    LET empty == [interp EXCEPT !.buffer = <<tick>>, !.orphaned = <<>>, !.released = tick,
                                !.epochs = <<>>, !.anchor = None]
        anchored == Anchored(empty, stamp - tick)
        elsewhere == interp.offset # None
                     /\ Larger(stamp - at - interp.offset, interp.offset - (stamp - at)) > ClockSnap
    IN  {FreshPicture(i) : i \in Observed(IF elsewhere THEN [anchored EXCEPT !.offset = None] ELSE anchored, stamp, at)}

\* Mutant: what a full buffer lets go of is forgotten.
OverflowForgotten(i) ==
    IF Len(i.buffer) <= BufferedSnapshots THEN i ELSE [i EXCEPT !.buffer = Tail(@)]

\* A full buffer lets go of its oldest; its events are owed to the next frame.
Overflow(i) ==
    IF Len(i.buffer) <= BufferedSnapshots THEN i
    ELSE [Marked(i, <<Head(i.buffer)>>) EXCEPT
             !.orphaned = @ \o OwedOf(i, <<Head(i.buffer)>>),
             !.buffer = Tail(@)]

\* The round started over: nothing held describes it any more.
Rewound(i) ==
    FreshPicture([i EXCEPT !.buffer = <<>>, !.orphaned = <<>>, !.released = None,
                           !.epochs = <<>>, !.anchor = None])

\* Interpolator::accept
Accepted(tick, stamp, at) ==
    LET newest == IF interp.buffer = <<>> THEN None ELSE Last(interp.buffer)
        start == IF newest # None /\ tick < newest THEN Rewound(interp) ELSE interp
    IN  IF tick = newest THEN {interp}
        ELSE {Overflow([i EXCEPT !.buffer = Append(@, tick)]) :
                 i \in Observed(Anchored(start, stamp - tick), stamp, at)}

\* RoomClient's events, in order.  A frame polls before it samples.
Arrive ==
    /\ link # <<>>
    /\ LET m == Head(link)
       IN  \/ m.kind = "Welcome" /\ interp' \in Restarted(m.tick, m.stamp, now) /\ heard' = <<>>
           \/ m.kind = "Snapshot" /\ interp' \in Accepted(m.tick, m.stamp, now) /\ UNCHANGED heard
    /\ link' = Tail(link)
    /\ UNCHANGED <<now, room, spent>>

----------------------------------------------------------------------------
(***************************************************************************)
(* A frame.                                                                *)
(***************************************************************************)

\* What the picture steers for, and how long it has run since the last frame.
Target(i, at) == Grain * ServerNow(i, at) - Delay
Elapsed(i, at) == IF i.rendered_at = None THEN 0 ELSE Grain * (at - i.rendered_at)

Size(n) == IF n < 0 THEN -n ELSE n

\* Mutant: the rate grows with the error and nothing bounds it.
SteeredUnbounded(render, elapsed, err) ==
    {render + elapsed + a : a \in {b \in -elapsed..elapsed :
                                     b * err >= 0 /\ Size(b) * RateTime <= elapsed * Size(err)}}

\* rate_for: what the rate adds to so long a frame, or takes off it: toward the
\* target, by no more than the error calls for (RateTime) and by no more than
\* one part in RateFar.
RateFor(elapsed, err) ==
    {b \in -elapsed..elapsed :
        /\ b * err >= 0
        /\ Size(b) * RateTime <= elapsed * Size(err)
        /\ Size(b) * RateFar <= elapsed}

\* The picture runs on at the bounded rate, however long the frame.
Steered(render, elapsed, err) == {render + elapsed + b : b \in RateFor(elapsed, err)}

\* The picture stands where it is until its target has caught up with it.
Holds(i, target, err) == (i.holding \/ err < -RenderSnap) /\ target < i.render

\* The picture goes straight to its target: caught up with, or far ahead.
Jumps(i, target, err) ==
    \/ (i.holding \/ err < -RenderSnap) /\ target >= i.render
    \/ err > RenderSnap

\* Mutant: a target far off is taken whole, whichever way.
AdvancedWhole(i, target, elapsed) ==
    LET err == target - (i.render + elapsed)
    IN  IF i.render = None \/ i.holding \/ err < -RenderSnap \/ err > RenderSnap
        THEN {[i EXCEPT !.render = target, !.holding = FALSE]}
        ELSE {[i EXCEPT !.render = r] : r \in Steered(i.render, elapsed, err)}

\* advance: where the picture may stand after this frame, and whether held.
Advanced(i, target, elapsed) ==
    LET err == target - (i.render + elapsed)
    IN  IF i.render = None THEN {[i EXCEPT !.render = target, !.holding = FALSE]}
        ELSE IF Holds(i, target, err) THEN {[i EXCEPT !.holding = TRUE]}
        ELSE IF Jumps(i, target, err) THEN {[i EXCEPT !.render = target, !.holding = FALSE]}
        ELSE {[i EXCEPT !.render = r] : r \in Steered(i.render, elapsed, err)}

\* The snapshots the picture leaves behind as it comes to stand at render.
Passed(i) == {n \in DOMAIN i.buffer : n < Len(i.buffer) /\ Grain * i.buffer[n + 1] <= i.render}

\* Interpolator::sample: those passed hand their events over, behind what was
\* owed, and the snapshot the picture then stands on is shown whole.
Sampled(i, at) ==
    LET passed == SubSeq(i.buffer, 1, Cardinality(Passed(i)))
        rest == SubSeq(i.buffer, Len(passed) + 1, Len(i.buffer))
        stepped == Marked(i, passed)
    IN  [interp |-> [Marked(stepped, <<Head(rest)>>) EXCEPT !.buffer = rest, !.orphaned = <<>>, !.rendered_at = at],
         events |-> i.orphaned \o OwedOf(i, passed) \o OwedOf(stepped, <<Head(rest)>>)]

Frame ==
    /\ interp.buffer # <<>> /\ interp.rendered_at # now
    /\ \E i \in Advanced(interp, Target(interp, now), Elapsed(interp, now)) :
        /\ interp' = Sampled(i, now).interp
        /\ heard' = heard \o Sampled(i, now).events
    /\ UNCHANGED <<now, room, link, spent>>

----------------------------------------------------------------------------
(***************************************************************************)
(* The room and the link.                                                  *)
(***************************************************************************)

Due == room.due <= now /\ room.stalled <= now

\* The schedule a room is on: the instant its tick 0 would have been due.
Base(r) == r.due - (r.tick + 1)

\* TickClock::fire
Fire ==
    LET next == room.due + 1
    IN  room' = [room EXCEPT !.tick = @ + 1,
                             !.due = IF next <= now /\ now - next + 1 > CatchUpTicks THEN now + 1 ELSE next]

\* A tick, and its snapshot unless the outbox is full.
RoomTick ==
    /\ Due
    /\ Fire
    /\ \/ link' = Append(link, [kind |-> "Snapshot", tick |-> room'.tick, stamp |-> now, base |-> Base(room')])
          /\ UNCHANGED spent
       \/ spent.skips < MaxSkips /\ spent' = [spent EXCEPT !.skips = @ + 1] /\ UNCHANGED link
    /\ UNCHANGED <<now, interp, heard>>

\* The room's task is kept from running: as its next tick falls due, or in the
\* middle of a burst.
Stall ==
    /\ spent.stalls < MaxStalls
    /\ Due
    /\ \E length \in Stalls : room' = [room EXCEPT !.stalled = now + length]
    /\ spent' = [spent EXCEPT !.stalls = @ + 1]
    /\ UNCHANGED <<now, link, interp, heard>>

\* A welcome into the round that is running, or into one that starts now; the
\* stream of a client that has none begins with one.
Welcome ==
    /\ spent.welcomes < MaxWelcomes
    /\ ~Due /\ room.stalled <= now
    /\ \E starts \in BOOLEAN :
        /\ room' = IF starts THEN [tick |-> 0, due |-> now + 1, stalled |-> now] ELSE room
        /\ starts \/ interp.buffer = <<>>
        /\ link' = Append(IF interp.buffer = <<>> THEN <<>> ELSE link,
                          [kind |-> "Welcome", tick |-> room'.tick, stamp |-> now, base |-> Base(room')])
    /\ spent' = [spent EXCEPT !.welcomes = @ + 1]
    /\ UNCHANGED <<now, interp, heard>>

Pass ==
    /\ now < Horizon /\ ~Due
    /\ \A n \in DOMAIN link : now < link[n].stamp + Transit
    /\ now' = now + 1
    /\ UNCHANGED <<room, link, spent, interp, heard>>

PlayoutInit ==
    /\ now = 0
    /\ room = [tick |-> 0, due |-> 1, stalled |-> 0]
    /\ link = <<>>
    /\ spent = [stalls |-> 0, skips |-> 0, welcomes |-> 0]
    /\ interp = NewInterp /\ heard = <<>>

PlayoutNext == Arrive \/ Frame \/ RoomTick \/ Stall \/ Welcome \/ Pass

PlayoutSpec == PlayoutInit /\ [][PlayoutNext]_playoutVars

----------------------------------------------------------------------------
(***************************************************************************)
(* What the picture promises.                                              *)
(***************************************************************************)

Ticks == 0..Horizon
Maybe(S) == S \cup {None}

PlayoutTypeOK ==
    /\ now \in Ticks
    /\ room \in [tick : Ticks, due : 1..(Horizon + 1), stalled : Nat]
    /\ \A n \in DOMAIN link : link[n].tick \in Ticks /\ link[n].stamp \in Ticks
    /\ interp.buffer \in Seq(Ticks) /\ Len(interp.buffer) <= BufferedSnapshots
    /\ {interp.orphaned, heard} \subseteq Seq(Ticks)
    /\ interp.released \in Maybe(Ticks) /\ interp.holding \in BOOLEAN
    /\ Len(interp.epochs) <= AnchorSnapshots /\ interp.anchor \in Maybe(Int)
    /\ interp.offset \in Maybe(Int) /\ interp.render \in Maybe(Int)
    /\ interp.rendered_at \in Maybe(Ticks)

\* The picture never goes back: whatever a stall, a new schedule or a slower
\* path does to its target, it waits for it instead - until a welcome or a
\* round that starts over begins another picture (Interpolator::advance).
RenderForward ==
    [][interp.render # None /\ interp'.render # None => interp'.render >= interp.render]_playoutVars

\* A frame of so long leaves the picture standing where it is, ahead of its
\* target, or near it: within RenderSnap, or within what the rate at its bound
\* makes of the frame.  Where the frame is no longer than the rate's time
\* constant, not past the target either, from the error there was.
Near(before, target, elapsed, after) ==
    LET ahead == after.render - target
        err == target - (before.render + elapsed)
    IN  IF after.holding THEN ahead > 0 /\ after.render = before.render
        ELSE /\ RateFar * Size(ahead) <= Larger(RateFar * RenderSnap, elapsed)
             /\ before.render # None /\ elapsed <= RateTime => ahead \in Smaller(0, -err)..Larger(0, -err)

\* No frame loses the target: the picture is within RENDER_SNAP_MS of it or
\* waits for it, whatever stalls, new clocks and new schedules did to it.  Only
\* a frame that was very long itself, out of a hidden tab, may leave it further
\* off, either way, by a tenth of its length, until the next one; a frame
\* within RATE_TIME_CONSTANT_MS never takes it past (Interpolator::advance,
\* rate_for).
PictureNear == [][Frame => Near(interp, Target(interp, now), Elapsed(interp, now), interp')]_playoutVars
=============================================================================
