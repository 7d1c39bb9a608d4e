----------------------------- MODULE MCPlayout -----------------------------
(***************************************************************************)
(* Playout for TLC, with what the client was sent since its last welcome   *)
(* kept as history variables.                                              *)
(***************************************************************************)
EXTENDS Playout

VARIABLES
    taken,  \* the ticks of the snapshots it read, in order
    base,   \* the schedule the last message was sent on
    streak, \* the messages in a row that were sent on that schedule, on time
    last,   \* the last message's tick, and how late it was sent
    plain   \* every late one since the welcome came in a burst of one stall

history == <<taken, base, streak, last, plain>>

MCInit ==
    /\ PlayoutInit
    /\ taken = <<>> /\ base = None /\ streak = 0
    /\ last = [tick |-> 0, late |-> 0] /\ plain = TRUE

Lateness(m) == m.stamp - (m.base + m.tick)

Note(m) ==
    /\ taken' = IF m.kind = "Welcome" THEN <<>> ELSE Append(taken, m.tick)
    /\ base' = m.base
    /\ streak' = IF Lateness(m) # 0 THEN 0
                 ELSE IF m.base = base /\ m.kind = "Snapshot" THEN streak + 1 ELSE 1
    /\ last' = [tick |-> m.tick, late |-> Lateness(m)]
    /\ plain' = \/ m.kind = "Welcome"
                \/ /\ plain /\ m.tick = last.tick + 1
                   /\ m.base # base \/ last.late = 0 \/ Lateness(m) = last.late - 1

MCNext ==
    \/ Arrive /\ Note(Head(link))
    \/ (Frame \/ RoomTick \/ Stall \/ Welcome \/ Pass) /\ UNCHANGED history

MCSpec == MCInit /\ [][MCNext]_<<playoutVars, history>>

\* Every snapshot's state events reach the replica once and in order, or are
\* still owed to it: none is lost to a full buffer, a frame that steps over
\* several snapshots or a picture that stands still, and none comes twice
\* (src/net/interp.rs, owed and hand_over).
StateKept ==
    /\ PlayoutTypeOK
    /\ Ascends(interp.buffer)
    /\ taken = heard \o interp.orphaned \o OwedOf(interp, interp.buffer)

\* A schedule that restarted is followed as soon as it is seen to be one: the
\* anchor is within its hold of it once two snapshots in a row came on its
\* time, and its own once the window holds no others.  Ticks that catch up with
\* a schedule after a stall come late, each a tick less than the one before,
\* and do not move the anchor, however the bursts follow each other
\* (src/net/interp.rs, ANCHOR_RUN, ANCHOR_HOLD_MS and ANCHOR_SNAPSHOTS).
AnchorTrue ==
    /\ [](/\ streak >= AnchorRun => interp.anchor \in (base - AnchorHold)..base
          /\ streak >= AnchorSnapshots => interp.anchor = base)
    /\ [][interp.anchor = base /\ base' = base /\ taken' # <<>> /\ plain'
            => interp'.anchor = base]_<<playoutVars, history>>
=============================================================================
