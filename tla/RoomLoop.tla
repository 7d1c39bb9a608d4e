------------------------------ MODULE RoomLoop ------------------------------
(***************************************************************************)
(* The loop of a room's task (server/src/room.rs, run): a biased select    *)
(* over the drain signal, the tick the schedule has due, a command and a   *)
(* deadline, with one turn of relief between two ticks run back to back.   *)
(*                                                                         *)
(* Room says what a turn does to the seats and the round; here a turn is   *)
(* what it serves.  Instants are relative to now: `due` and `deadline`     *)
(* count down as time passes, and go below zero.  A tick takes as long as  *)
(* it takes (TickCosts), everything else no time to speak of; at most      *)
(* CommandRate commands come in one unit of time.                          *)
(***************************************************************************)
EXTENDS Integers

CONSTANTS
    Period,       \* TICK
    CatchUpTicks, \* CATCH_UP_TICKS
    TickCosts,    \* what a tick may take
    Notice,       \* bound: how far ahead a deadline is set
    RoomCommands, \* ROOM_COMMANDS: commands the room's channel holds
    CommandRate,  \* bound: commands that come in one unit of time
    None

ASSUME LoopAssumption ==
    /\ {Period, Notice, RoomCommands, CommandRate} \subseteq Nat \ {0}
    /\ CatchUpTicks \in Nat
    /\ TickCosts \subseteq Nat
    /\ \E longest \in TickCosts : \A cost \in TickCosts : cost <= longest
    /\ None \notin Int

VARIABLES
    ticking,  \* Lifecycle::ticking, and not frozen by a dev tool
    due,      \* TickClock::next
    ticked,   \* whether the last turn ran a tick
    deadline, \* Room::next_deadline
    drain,    \* the drain signal: "none", "sent" or "taken"
    waiting,  \* commands in the channel
    mine,     \* one of them: its place in the channel, 0 once it is served
    budget,   \* commands that may still come before time passes
    open,     \* the loop runs
    served    \* what the last turn served

loopVars == <<ticking, due, ticked, deadline, drain, waiting, mine, budget, open, served>>

Passed(instant) == instant # None /\ instant <= 0

Later(instant, time) == IF instant = None THEN None ELSE instant - time

\* Room::schedule: the clock runs while the room ticks, from one period on.
Schedule ==
    CASE ticking /\ due = None -> Period
      [] ticking /\ due # None -> due
      [] OTHER -> None

\* TickClock::fire: a period after the tick was due - or, with too many more
\* owed by then, a period from now.
Fire(d) ==
    LET next == d + Period
        owed == IF next > 0 THEN 0 ELSE (-next) \div Period + 1
    IN  IF owed > CatchUpTicks THEN Period ELSE next

----------------------------------------------------------------------------
(***************************************************************************)
(* What a turn may make of the room: Room says which, here it is any.      *)
(***************************************************************************)

\* The deadlines a change of the room may leave it with.
Deadlines == {None} \cup (1..Notice)

TheRoom == [ticking |-> ticking, deadline |-> deadline]
Becomes(room) == ticking' = room.ticking /\ deadline' = room.deadline

\* Room::handle: any phase change, or none.  A deadline that is past already as
\* a command makes it - the last seat of a draining round's - is due from then.
Handled == [ticking : BOOLEAN, deadline : {deadline, 0} \cup Deadlines]

\* Room::on_deadline: the room is reaped, the round ends or a seat's grace is
\* over - or nothing, once a command has put the deadline off.
OnDeadline(room) ==
    \/ Passed(room.deadline) /\ Becomes(room) /\ open' = FALSE
    \/ /\ Passed(room.deadline)
       /\ \E t \in Deadlines : Becomes([ticking |-> FALSE, deadline |-> t])
       /\ UNCHANGED open
    \/ ~Passed(room.deadline) /\ Becomes(room) /\ UNCHANGED open

\* The command at the head of the channel is out of it.
Taken ==
    /\ waiting' = waiting - 1
    /\ mine' = IF mine = 0 THEN 0 ELSE mine - 1

Untaken == UNCHANGED <<waiting, mine>>

----------------------------------------------------------------------------
(***************************************************************************)
(* A turn of the loop, the next tick due at d.                             *)
(***************************************************************************)

\* Mutant: no relief: a tick that is due goes before all else, always.
LateNever(d) == FALSE

\* Two ticks back to back.
Late(d) == ticked /\ Passed(d)

ReliefOver(d) == ticked' = FALSE /\ due' = d

\* Mutant: a deadline is looked at only where no command waited.
ReliefDeadlineIdle(room) ==
    \/ waiting = 0 /\ OnDeadline(room)
    \/ waiting > 0 /\ Becomes(room) /\ UNCHANGED open

\* The deadline is the one the turn began with, the room the command's.
ReliefDeadline(room) ==
    \/ Passed(deadline) /\ OnDeadline(room)
    \/ ~Passed(deadline) /\ Becomes(room) /\ UNCHANGED open

\* One command waiting and a deadline passed are served before the next tick.
Relief(d) ==
    /\ Late(d) /\ ReliefOver(d)
    /\ served' = "relief"
    /\ \/ waiting > 0 /\ Taken /\ \E room \in Handled : ReliefDeadline(room)
       \/ waiting = 0 /\ Untaken /\ ReliefDeadline(TheRoom)
    /\ UNCHANGED <<drain, budget>>

DrainTurn(d) == drain = "sent"

\* The biased select, arm by arm.
TickTurn(d) == ~DrainTurn(d) /\ Passed(d)
CommandTurn(d) == ~DrainTurn(d) /\ ~Passed(d) /\ waiting > 0
DeadlineTurn(d) == ~DrainTurn(d) /\ ~Passed(d) /\ waiting = 0 /\ Passed(deadline)
WaitTurn(d) == ~DrainTurn(d) /\ ~Passed(d) /\ waiting = 0 /\ ~Passed(deadline)

\* Room::begin_drain: the deadlines shorten.
BeginDrain(d) ==
    /\ DrainTurn(d)
    /\ drain' = "taken"
    /\ deadline' \in {0, deadline} \cup Deadlines
    /\ due' = d /\ ticked' = FALSE /\ served' = "drain"
    /\ Untaken
    /\ UNCHANGED <<ticking, budget, open>>

\* Room::scheduled_tick: the round may end with it.  Time passes.
ScheduledTick(d) ==
    /\ TickTurn(d)
    /\ \E cost \in TickCosts :
        /\ due' = Fire(d) - cost
        /\ budget' = IF cost = 0 THEN budget ELSE CommandRate
        /\ \/ ticking' = TRUE /\ deadline' = Later(deadline, cost)
           \/ ticking' = FALSE /\ deadline' \in {Later(t, cost) : t \in Deadlines}
    /\ ticked' = TRUE /\ served' = "tick"
    /\ Untaken
    /\ UNCHANGED <<drain, open>>

ServeCommand(d) ==
    /\ CommandTurn(d)
    /\ Taken /\ \E room \in Handled : Becomes(room)
    /\ due' = d /\ ticked' = FALSE /\ served' = "command"
    /\ UNCHANGED <<drain, budget, open>>

ServeDeadline(d) ==
    /\ DeadlineTurn(d)
    /\ OnDeadline(TheRoom)
    /\ due' = d /\ ticked' = FALSE /\ served' = "deadline"
    /\ Untaken
    /\ UNCHANGED <<drain, budget>>

\* Nothing is ready: the select waits.
Wait(d) ==
    /\ WaitTurn(d)
    /\ due' = Later(d, 1) /\ deadline' = Later(deadline, 1)
    /\ budget' = CommandRate
    /\ ticked' = FALSE /\ served' = "nothing"
    /\ Untaken
    /\ UNCHANGED <<ticking, drain, open>>

Turn ==
    /\ open
    /\ \/ Relief(Schedule)
       \/ /\ ~Late(Schedule)
          /\ \/ BeginDrain(Schedule) \/ ScheduledTick(Schedule)
             \/ ServeCommand(Schedule) \/ ServeDeadline(Schedule) \/ Wait(Schedule)

----------------------------------------------------------------------------

\* A connection task sends a command: one of them is the one watched.
Arrive ==
    /\ waiting < RoomCommands /\ budget > 0
    /\ waiting' = waiting + 1
    /\ budget' = budget - 1
    /\ mine' \in IF mine = 0 THEN {0, waiting + 1} ELSE {mine}
    /\ UNCHANGED <<ticking, due, ticked, deadline, drain, open, served>>

\* Hub::begin_drain
Signal ==
    /\ drain = "none"
    /\ drain' = "sent"
    /\ UNCHANGED <<ticking, due, ticked, deadline, waiting, mine, budget, open, served>>

\* A waiting room, reaped unless somebody comes, and of a server that may be
\* draining already.
LoopInit ==
    /\ ticking = FALSE /\ due = None /\ ticked = FALSE
    /\ deadline = Notice
    /\ drain \in {"none", "taken"}
    /\ waiting = 0 /\ mine = 0 /\ budget = CommandRate
    /\ open = TRUE /\ served = "nothing"

LoopNext == Turn \/ (open /\ (Arrive \/ Signal))

\* The task is run whenever something it waits for is ready, and time passes.
LoopSpec == LoopInit /\ [][LoopNext]_loopVars /\ WF_loopVars(Turn)

----------------------------------------------------------------------------
(***************************************************************************)
(* What the loop promises.                                                 *)
(***************************************************************************)

Longest == CHOOSE cost \in TickCosts : \A other \in TickCosts : other <= cost

LoopTypeOK ==
    /\ {ticking, ticked, open} \subseteq BOOLEAN
    /\ due \in Int \cup {None} /\ deadline \in Int \cup {None}
    /\ due # None => due \in -(CatchUpTicks * Period + Longest)..Period
    /\ drain \in {"none", "sent", "taken"}
    /\ waiting \in 0..RoomCommands /\ mine \in 0..waiting /\ budget \in 0..CommandRate
    /\ served \in {"nothing", "relief", "drain", "tick", "command", "deadline"}

\* A deadline is served within one tick's run of falling due, on a room that
\* is always behind its ticks too: what Lifecycle calls Lag.
DeadlineLag == open /\ deadline # None => deadline >= -Longest

\* None of the loop's four sources starves, on a room whose ticks always run
\* late too: a command is served in the end, and so is a due tick, which the
\* turn of relief holds up once, and so is the drain.
NoneStarves ==
    /\ mine # 0 ~> mine = 0 \/ ~open
    /\ Passed(due) /\ ticking ~> served = "tick" \/ ~ticking \/ ~open
    /\ drain = "sent" ~> drain = "taken" \/ ~open
=============================================================================
