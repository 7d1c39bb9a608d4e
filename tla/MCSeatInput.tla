---------------------------- MODULE MCSeatInput ----------------------------
(***************************************************************************)
(* SeatInput for TLC, with what a tick's read made of the client's driving *)
(* and of its presses kept as history variables.                           *)
(***************************************************************************)
EXTENDS SeatInput

CONSTANTS
    ReachSlackTicks, \* POSE_REACH_SLACK_PX, in ticks of top speed
    Kinds,           \* the kinds of behaviour a run looks at
    RoughPeriods     \* bound: periods modelled of a "rough" behaviour

VARIABLES
    jump,    \* ticks from the room's hull to the pose the tick read
    pressed, \* the ticks the client pressed the trigger on
    fired,   \* the ticks the round's shots were stamped with
    behind,  \* presses merged into another, of one read's intents or owed
    dropped, \* the ticks a full buffer let go of
    kind     \* for the whole behaviour: the client drives its own hull ("drives")
             \* or is driven by the room ("served") on one ordered link, or it
             \* drives on links that reorder and are replaced ("rough")

history == <<jump, pressed, fired, behind, dropped, kind>>

\* A client driving straight on at top speed stands where its tick says, and
\* the room's hull where the last pose and the guess since have it.
Jump ==
    LET hull == inner.applied + Smaller(inner.starved_run, DeadReckonTicks)
    IN  IF inner.applied \in {None, inner'.applied} THEN 0
        ELSE Larger(inner'.applied - hull, hull - inner'.applied)

\* The presses this tick read, but for the first - and for all of them where
\* the tick goes to the press owed from the read before.
Behind ==
    LET taken == {p \in pressed : p <= inner'.applied /\ (inner.applied # None => p > inner.applied)}
    IN  IF inner'.applied = inner.applied \/ taken = {} THEN {}
        ELSE IF inner.owed_press # None THEN taken ELSE taken \ {Min(taken)}

drives == kind # "served"
ordered == kind # "rough"

\* One link, first in first out.
InOrder ==
    /\ reclaims' = reclaims
    /\ Len(link') < Len(link) => link' = Tail(link)

\* A short behaviour, without the trigger.
Brief ==
    /\ periods' <= RoughPeriods
    /\ ~client'.fire

MCInit ==
    /\ InputInit
    /\ jump = 0 /\ pressed = {} /\ fired = {} /\ behind = {} /\ dropped = {}
    /\ kind \in Kinds

MCNext ==
    /\ InputNext
    /\ jump' = IF RoomTick THEN Jump ELSE 0
    /\ pressed' = IF Drive /\ client'.fire /\ ~client.fire THEN pressed \cup {client.tick} ELSE pressed
    /\ fired' = IF RoomTick /\ round'.fired # None THEN fired \cup {round'.fired} ELSE fired
    /\ behind' = IF RoomTick THEN behind \cup Behind ELSE behind
    /\ dropped' = IF RoomTick THEN dropped
                  ELSE dropped \cup {i.tick : i \in inner.queue \ inner'.queue}
    /\ UNCHANGED kind
    /\ ordered => InOrder
    /\ ~ordered => Brief
    /\ \A i \in DOMAIN link' : link'[i].owned = drives

MCSpec == MCInit /\ [][MCNext]_<<inputVars, history>>

\* The validator takes every pose of a client that drives straight on at top
\* speed: what a tick's read asks it to believe is within the reach the room's
\* own time gives it (src/net/mailbox.rs, read_owned and
\* src/simulation/mod.rs, accept_seat_pose), whatever the packets, the
\* room's clock and the client's own did.
PoseTaken == drives /\ ordered => jump <= Larger(inner.reach, PoseReachTicks) + ReachSlackTicks

\* No press is lost on the way to the round: one whose intent has been applied
\* was fired on, is owed to the next tick, or was read on the tick another one
\* was fired on or became owed (src/net/mailbox.rs, deliver).
PressKept ==
    /\ InputTypeOK
    /\ drives /\ ordered => \A p \in pressed : inner.applied # None /\ p <= inner.applied =>
        p \in fired \cup behind \cup {inner.owed_press}

\* The round fires on presses only, and once on each: a starved tick, a
\* merge or a folded backlog lets no trigger up that the player still holds
\* (src/net/mailbox.rs, starve and deliver).
ShotsArePresses ==
    [][RoomTick /\ drives /\ ordered /\ round'.fired # None =>
        round'.fired \in pressed \ fired]_<<inputVars, history>>

\* A server-driven seat's inputs are applied one a tick, in order and none
\* left out but by a full buffer, so a client that replays them lands where
\* the room is (src/net/mailbox.rs, read).
OneATick ==
    [][RoomTick /\ ~drives /\ inner'.applied # inner.applied =>
        LET next == IF inner.applied = None THEN 0 ELSE inner.applied + 1
        IN  /\ inner'.applied >= next
            /\ next..(inner'.applied - 1) \subseteq dropped]_<<inputVars, history>>
\* The point's margin "never widens past BUFFER_MAX - 1" (src/net/mailbox.rs):
\* on an ordered link, once a tick has read, the newest arrival is fewer than
\* BufferMax ticks past it - so the next tick's intent has not been dropped.
MarginBounded ==
    [][ordered /\ RoomTick /\ inner'.play # None =>
        inner'.newest_posted - inner'.play < BufferMax]_<<inputVars, history>>
=============================================================================
