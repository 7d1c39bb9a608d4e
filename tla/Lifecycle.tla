----------------------------- MODULE Lifecycle -----------------------------
(***************************************************************************)
(* The clock rules of one room of the co-op server: server/src/room.rs,    *)
(* struct Lifecycle.  They say which phase the room is in and since when,  *)
(* how many seats are on a socket, when the round started, and when the    *)
(* room's next deadline falls and what it asks for.                        *)
(*                                                                         *)
(* Instants are naturals and time passes one unit a step.  Each action is  *)
(* one method of the struct, guarded by what its caller in the room        *)
(* guarantees (Room.tla shows that the room keeps to it).  The room loop   *)
(* serves a deadline once it has passed: Lag is how far behind it may run. *)
(***************************************************************************)
EXTENDS Integers

CONSTANTS
    WaitingTtl,     \* WAITING_TTL: a waiting room with nobody connected
    EmptyTtl,       \* EMPTY_TTL: a paused round
    EndedTtl,       \* ENDED_TTL: an ended room
    DrainEndedTtl,  \* DRAIN_ENDED_TTL: an ended room of a draining server
    RoundMax,       \* ROUND_MAX: a round, whatever the field says
    SeatsPlayable,  \* SEATS_PLAYABLE: seats a room takes
    Lag,            \* bound: how late the room loop may serve a deadline
    Horizon         \* bound: the last instant of a behaviour

ASSUME TtlAssumption ==
    /\ {WaitingTtl, EmptyTtl, EndedTtl, DrainEndedTtl, RoundMax} \subseteq Nat \ {0}
    /\ SeatsPlayable \in Nat \ {0}
    /\ {Lag, Horizon} \subseteq Nat
    /\ DrainEndedTtl <= EndedTtl

VARIABLES
    now,           \* the instant every handler reads
    phase,         \* Lifecycle::phase
    since,         \* Lifecycle::since
    round_started, \* Lifecycle::round_started, NoTime for None
    connected,     \* Lifecycle::connected
    drain_at,      \* Lifecycle::drain_at, NoTime for None
    open           \* the room's task runs (FALSE once it is reaped)

lifeVars == <<now, phase, since, round_started, connected, drain_at, open>>

NoTime == -1
Instants == 0..Horizon
Phases == {"Waiting", "Playing", "Paused", "Ended"}

LifeTypeOK ==
    /\ now \in Instants
    /\ phase \in Phases
    /\ since \in Instants
    /\ round_started \in Instants \cup {NoTime}
    /\ connected \in 0..SeatsPlayable
    /\ drain_at \in Instants \cup {NoTime}
    /\ open \in BOOLEAN

LifeInit ==
    /\ now = 0
    /\ phase = "Waiting"
    /\ since = 0
    /\ round_started = NoTime
    /\ connected = 0
    /\ drain_at = NoTime
    /\ open = TRUE

----------------------------------------------------------------------------
(***************************************************************************)
(* What the clock says.                                                    *)
(***************************************************************************)

Draining == drain_at # NoTime

\* Mutant: a rematch is granted on a draining server too.
MayStartDraining == phase \in {"Waiting", "Ended"}

\* A rematch, or a first round: the room's `start` runs in no other phase.
MayStart == phase = "Waiting" \/ (phase = "Ended" /\ ~Draining)

InRound == phase \in {"Playing", "Paused"}

RoundEnds == IF round_started = NoTime THEN {} ELSE {round_started + RoundMax}

\* Mutant: a paused round is bounded by its emptiness alone.
OwnDeadlinesPausedUnbounded ==
    [Waiting |-> IF connected = 0 THEN {since + WaitingTtl} ELSE {},
     Playing |-> RoundEnds,
     Paused  |-> {since + EmptyTtl},
     Ended   |-> {since + EndedTtl}][phase]

\* The instants a phase is bounded by; the deadline is the earliest of them,
\* and there is none when the set is empty.
OwnDeadlines ==
    [Waiting |-> IF connected = 0 THEN {since + WaitingTtl} ELSE {},
     Playing |-> RoundEnds,
     Paused  |-> RoundEnds \cup {since + EmptyTtl},
     Ended   |-> {since + EndedTtl}][phase]

\* The same on a draining server, where only a round being played is worth
\* waiting for.
DrainDeadlines ==
    [Waiting |-> {drain_at},
     Playing |-> RoundEnds,
     Paused  |-> {drain_at},
     Ended   |-> {since + DrainEndedTtl}][phase]

Deadlines == IF Draining THEN DrainDeadlines ELSE OwnDeadlines

Overdue == \E d \in Deadlines : d <= now

RoundIsOver == \E r \in RoundEnds : r <= now

\* Expiry: what a deadline that came due asks for.
ExpiredEndRound == Overdue /\ (phase = "Playing" \/ (phase = "Paused" /\ RoundIsOver))

\* Mutant: a paused round is dropped only by its own clock, not a drain's.
ExpiredReapUndrained ==
    Overdue /\ (phase \in {"Waiting", "Ended"} \/ (phase = "Paused" /\ ~RoundIsOver /\ ~Draining))

ExpiredReap == Overdue /\ (phase \in {"Waiting", "Ended"} \/ (phase = "Paused" /\ ~RoundIsOver))

----------------------------------------------------------------------------
(***************************************************************************)
(* The methods.                                                            *)
(***************************************************************************)

\* Mutant: the seat is counted and the paused round forgotten.
ConnectLeavesPaused ==
    /\ connected' = connected + 1
    /\ UNCHANGED <<now, phase, since, round_started, drain_at, open>>

\* Lifecycle::connect - a seat came onto a socket; a paused round resumes.
Connect ==
    /\ connected' = connected + 1
    /\ phase' = IF phase = "Paused" THEN "Playing" ELSE phase
    /\ since' = IF phase = "Paused" THEN now ELSE since
    /\ UNCHANGED <<now, round_started, drain_at, open>>

\* Mutant: the last seat to go starts the empty clock and leaves the round
\* running.
DisconnectLeavesPlaying ==
    LET left == IF connected = 0 THEN 0 ELSE connected - 1
    IN  /\ connected' = left
        /\ since' = IF left = 0 /\ phase \in {"Playing", "Waiting"} THEN now ELSE since
        /\ UNCHANGED <<now, phase, round_started, drain_at, open>>

\* Lifecycle::disconnect - a seat left its socket; the last one pauses a
\* round and starts the waiting room's clock.
Disconnect ==
    LET left == IF connected = 0 THEN 0 ELSE connected - 1
    IN  /\ connected' = left
        /\ phase' = IF left = 0 /\ phase = "Playing" THEN "Paused" ELSE phase
        /\ since' = IF left = 0 /\ phase \in {"Playing", "Waiting"} THEN now ELSE since
        /\ UNCHANGED <<now, round_started, drain_at, open>>

\* Lifecycle::start - the round starts, or starts again.
Start ==
    /\ phase' = IF connected = 0 THEN "Paused" ELSE "Playing"
    /\ since' = now
    /\ round_started' = now
    /\ UNCHANGED <<now, connected, drain_at, open>>

\* Lifecycle::end - the round is over.
End ==
    /\ phase' = "Ended"
    /\ since' = now
    /\ round_started' = NoTime
    /\ UNCHANGED <<now, connected, drain_at, open>>

\* Lifecycle::drain - the server is draining; the first call counts.
Drain ==
    /\ drain_at' = IF Draining THEN drain_at ELSE now
    /\ UNCHANGED <<now, phase, since, round_started, connected, open>>

\* The room task leaves its loop.
Reap ==
    /\ open' = FALSE
    /\ UNCHANGED <<now, phase, since, round_started, connected, drain_at>>

\* Time passes, except that a deadline is served within Lag of falling due:
\* one that a drain has moved into the past falls due as the drain begins.
Pass ==
    /\ now < Horizon
    /\ \A d \in OwnDeadlines : now < d + Lag
    /\ Draining => \A d \in DrainDeadlines : now < d + Lag \/ now < drain_at + Lag
    /\ now' = now + 1
    /\ UNCHANGED <<phase, since, round_started, connected, drain_at, open>>

LifeNext ==
    /\ open
    /\ \/ connected < SeatsPlayable /\ Connect
       \/ connected > 0 /\ Disconnect
       \/ MayStart /\ connected > 0 /\ Start
       \/ phase = "Playing" /\ End
       \/ ExpiredEndRound /\ End
       \/ ExpiredReap /\ Reap
       \/ Drain
       \/ Pass

LifeSpec == LifeInit /\ [][LifeNext]_lifeVars

----------------------------------------------------------------------------
(***************************************************************************)
(* What the rules promise.                                                 *)
(***************************************************************************)

\* A round is paused exactly while nobody is connected to it: it never runs
\* without an audience and never stands still with one.  Three methods keep
\* this together - connect, disconnect and start - and each counts alone.
PausedWhenEmpty == InRound => (phase = "Paused" <=> connected = 0)

\* ROUND_MAX: pausing and resuming a round, on a draining server too, never
\* buys it more time than the limit (docs/online-coop-prd.md 4.7, "Bounds
\* everywhere").
RoundBounded == open /\ InRound => now <= round_started + RoundMax + Lag

\* A round has a start and nothing else does, so a room in play always has a
\* deadline: no phase change leaves it running with none.
RoundHasClock == InRound <=> round_started # NoTime

\* Once the server drains, the room is gone within a round and the time its
\* end screen stays up, whoever joins, leaves or starts meanwhile.
DrainBounded ==
    open /\ Draining => now <= drain_at + RoundMax + DrainEndedTtl + 3 * Lag
=============================================================================
