-------------------------- MODULE MCSnapshotStream --------------------------
(***************************************************************************)
(* SnapshotStream for TLC: a room that sends a snapshot every tick, as the *)
(* code's SNAPSHOT_EVERY has it, and one that sends every second tick, for *)
(* the events banked in between.  Whether the client missed a message      *)
(* since it joined or the round started is kept as a history variable, and *)
(* so is the picture it has made of the deltas it applied (Delta).  The    *)
(* world of each moment is any; for TLC a small scene in which a tank      *)
(* moves a short way, moves a long way, moves and is hit, comes and goes.  *)
(***************************************************************************)
EXTENDS SnapshotStream, Delta

CONSTANT World \* of each moment: the world there was

ASSUME WorldAssumption == \A moment \in Moment : IsState(World[moment])

VARIABLES
    every,  \* for the whole behaviour: ticks from one snapshot to the next
    missed,
    picture \* RoomClient::baseline

Sparse == INSTANCE SnapshotStream WITH SnapshotEvery <- 2

Tank(x, y, look) == [x |-> x, y |-> y, look |-> look]

Tanks(frame) ==
    CASE frame = 0 -> [k \in {1, 2} |-> Tank(0, k, "whole")]
      [] frame = 1 -> [k \in {1, 2} |-> IF k = 1 THEN Tank(127, -127, "whole") ELSE Tank(1, 2, "hit")]
      [] frame = 2 -> [k \in {1, 3} |-> IF k = 1 THEN Tank(-32768, 0, "whole") ELSE Tank(5, 5, "whole")]
      [] frame = 3 -> [k \in {1, 2} |-> IF k = 1 THEN Tank(32767, 0, "hit") ELSE Tank(0, 0, "whole")]

Tiles(frame) == [k \in {1} \cup (frame..2) |-> IF frame < 3 THEN "whole" ELSE "hit"]

Scene ==
    [moment \in Moment |->
        [moving |-> [f \in Moving |-> Tanks(moment.frame)],
         fixed |-> [f \in Fixed |-> Tiles(moment.frame)],
         wholes |-> [w \in Wholes |-> moment.round]]]

\* What the client makes of a message it takes (RoomClient::take).
Pictured(m) ==
    CASE m.kind \in {"Welcome", "Snapshot"} -> World[m.to]
      [] m.kind = "Delta" /\ client'.base # client.base ->
            Applied(picture, Cutting(World[m.from], World[m.to]))
      [] OTHER -> picture

Picture ==
    CASE Receive -> picture' = Pictured(Head(outbox))
      [] client' = NewClient -> picture' = Nothing
      [] OTHER -> UNCHANGED picture

MCInit == StreamInit /\ every \in {SnapshotEvery, 2} /\ missed = FALSE /\ picture = Nothing

MCNext ==
    /\ every = SnapshotEvery => StreamNext
    /\ every # SnapshotEvery => Sparse!StreamNext /\ newest'.round <= 1
    /\ UNCHANGED every
    /\ missed' = (~(Join \/ Start) /\ (missed \/ (Full /\ Say)))
    /\ Picture

MCSpec == MCInit /\ [][MCNext]_<<streamVars, every, missed, picture>>

\* A client whose baseline is the one its deltas were cut from shows the
\* world as it was, entry for entry: what came, what went, what moved and
\* what changed since.  src/net/delta.rs, apply_delta.
PictureTrue ==
    client.base # Nothing /\ client.true => picture = World[client.base]

\* Events are heard in the order they happened and never twice: a snapshot
\* that repeats a tick (the time limit's, behind the tick's own) repeats no
\* shot and no explosion.  server/src/room.rs, on_deadline_now.
HeardOnce ==
    every = SnapshotEvery /\ link = "open" =>
        \A i, j \in DOMAIN client.heard : i < j => client.heard[i] < client.heard[j]

\* A client that missed nothing has heard everything that
\* happened since its welcome, but for what is banked for the next snapshot
\* - and once the round is over and no snapshot will follow, everything:
\* the last shots of a round are sent before the stream stops, whichever
\* way it ends.  server/src/room.rs, tick_now and on_deadline_now.
EventsComplete ==
    link = "open" /\ ~missed /\ saying = <<>> /\ outbox = <<>> /\ client.base # Nothing =>
        {f \in eventful : f > client.since}
            \subseteq Range(client.heard) \cup (IF playing = "Playing" THEN Range(banked) ELSE {})
=============================================================================
