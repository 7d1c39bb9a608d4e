-------------------------------- MODULE Hub --------------------------------
(***************************************************************************)
(* The rooms of one server (server/src/hub.rs), the connection tasks that  *)
(* create and join them (server/src/conn.rs), the life of a room's task    *)
(* around its loop (server/src/room.rs, run) and the drain on SIGTERM      *)
(* (server/src/main.rs).                                                   *)
(*                                                                         *)
(* Tasks run in parallel: one step is what happens under the map's lock,   *)
(* or between two awaits.  What a room does inside is Room's; here it      *)
(* takes a joiner or refuses it, and ends - when it likes, but in the end  *)
(* once the server drains, which Lifecycle shows it does.                  *)
(*                                                                         *)
(* `drained` waits on a Notify: a notify_one with nobody waiting leaves a  *)
(* permit for the next to wait.                                            *)
(***************************************************************************)
EXTENDS Integers, Sequences, FiniteSets

CONSTANTS
    Codes,        \* what code::mint may come up with
    Conns,        \* connection tasks
    MaxRooms,     \* Hub::max_rooms
    RoomCommands, \* ROOM_COMMANDS: commands a room's channel holds
    MaxEver,      \* bound: rooms created
    None

ASSUME HubAssumption ==
    /\ {MaxRooms, RoomCommands, MaxEver} \subseteq Nat \ {0}
    /\ IsFiniteSet(Codes) /\ Cardinality(Codes) > MaxRooms
    /\ None \notin Conns

VARIABLES
    rooms,    \* Hub::rooms: from the codes in use to the room's task
    tasks,    \* every room task there was: its code, where it is in `run`
              \* ("running", "closing", "returned"), and its channel
    conns,    \* every connection task: where it is in `handle`, with which room
    draining, \* Hub::draining
    permit,   \* the permit of Hub::room_gone
    server    \* main: "serving", in `drained` about to count ("counting"), with a
              \* count in hand ("counted") or on the Notify ("waiting"), or
              \* past it: "drained", "cut" or "down"

hubVars == <<rooms, tasks, conns, draining, permit, server>>

Idle == [at |-> "idle", room |-> None]
In(what, room) == [at |-> what, room |-> room]

\* Hub::room_count
RoomCount == Cardinality(DOMAIN rooms)

\* The channel's receiver lives as long as the room's task.
Open(t) == tasks[t].at # "returned"

HasSpace(t) == Len(tasks[t].commands) < RoomCommands

----------------------------------------------------------------------------
(***************************************************************************)
(* A connection's Create and Join.                                         *)
(***************************************************************************)

\* create_room's first look, without the lock.
CheckDrain(c) ==
    /\ conns[c] = Idle
    /\ ~draining
    /\ conns' = [conns EXCEPT ![c] = In("creating", None)]
    /\ UNCHANGED <<rooms, tasks, draining, permit, server>>

\* Mutant: a server at its cap takes one more.
BelowCapByOne == RoomCount <= MaxRooms

\* The server has room for one more.
BelowCap == RoomCount < MaxRooms

\* code::mint until the code is not in use.
FreshCodes == Codes \ DOMAIN rooms

\* create_room under the lock, and the spawn: the room is in the map before
\* its task runs.
Insert(c, code) ==
    /\ conns[c].at = "creating"
    /\ Len(tasks) < MaxEver
    /\ BelowCap
    /\ code \in FreshCodes
    /\ tasks' = Append(tasks, [code |-> code, at |-> "running", commands |-> <<>>])
    /\ rooms' = [k \in DOMAIN rooms \cup {code} |-> IF k = code THEN Len(tasks) + 1 ELSE rooms[k]]
    /\ conns' = [conns EXCEPT ![c] = In("asking", Len(tasks) + 1)]
    /\ UNCHANGED <<draining, permit, server>>

\* Refusal::ServerFull
CreateRefused(c) ==
    /\ conns[c].at = "creating"
    /\ ~BelowCap
    /\ conns' = [conns EXCEPT ![c] = Idle]
    /\ UNCHANGED <<rooms, tasks, draining, permit, server>>

\* Hub::find
Find(c, code) ==
    /\ conns[c] = Idle /\ server # "down"
    /\ code \in DOMAIN rooms
    /\ conns' = [conns EXCEPT ![c] = In("asking", rooms[code])]
    /\ UNCHANGED <<rooms, tasks, draining, permit, server>>

Queue(t, command) == tasks' = [tasks EXCEPT ![t].commands = Append(@, command)]

\* conn.rs, join: the command is taken, or the room is gone.
Ask(c) ==
    /\ conns[c].at = "asking"
    /\ LET t == conns[c].room
       IN  \/ /\ Open(t) /\ HasSpace(t)
              /\ Queue(t, c)
              /\ conns' = [conns EXCEPT ![c].at = "joining"]
           \/ /\ ~Open(t)
              /\ conns' = [conns EXCEPT ![c] = Idle]
              /\ UNCHANGED tasks
    /\ UNCHANGED <<rooms, draining, permit, server>>

\* The oneshot was dropped with the channel: Refusal::RoomGone.
ToldGone(c) ==
    /\ conns[c].at = "joining"
    /\ ~Open(conns[c].room)
    /\ conns' = [conns EXCEPT ![c] = Idle]
    /\ UNCHANGED <<rooms, tasks, draining, permit, server>>

\* The socket closes, or the server shuts down, or the room told it to: the
\* last command goes to the room it is in.
Hangup(c) ==
    /\ conns[c].at = "seated"
    /\ conns' = [conns EXCEPT ![c].at = "leaving"]
    /\ UNCHANGED <<rooms, tasks, draining, permit, server>>

Leave(c) ==
    /\ conns[c].at = "leaving"
    /\ LET t == conns[c].room
       IN  \/ Open(t) /\ HasSpace(t) /\ Queue(t, None)
           \/ ~Open(t) /\ UNCHANGED tasks
    /\ conns' = [conns EXCEPT ![c] = Idle]
    /\ UNCHANGED <<rooms, draining, permit, server>>

----------------------------------------------------------------------------
(***************************************************************************)
(* A room's task.                                                          *)
(***************************************************************************)

\* The loop serves a command: a Join is answered with a seat or a refusal.
Serve(t) ==
    /\ tasks[t].at = "running" /\ tasks[t].commands # <<>>
    /\ tasks' = [tasks EXCEPT ![t].commands = Tail(@)]
    /\ LET c == Head(tasks[t].commands)
       IN  \/ c = None /\ UNCHANGED conns
           \/ c # None /\ conns' = [conns EXCEPT ![c].at = "seated"]
           \/ c # None /\ conns' = [conns EXCEPT ![c] = Idle]
    /\ UNCHANGED <<rooms, draining, permit, server>>

\* Mutant: the code is given up as the loop breaks, and again by Hub::remove.
BreakUnlisted(t) ==
    /\ tasks[t].at = "running"
    /\ tasks' = [tasks EXCEPT ![t].at = "closing"]
    /\ rooms' = [k \in DOMAIN rooms \ {tasks[t].code} |-> rooms[k]]
    /\ conns' = [c \in Conns |->
        IF conns[c] = In("seated", t) THEN In("leaving", t) ELSE conns[c]]
    /\ UNCHANGED <<draining, permit, server>>

\* The loop breaks: nothing queued is served any more, and every seat is told.
Break(t) ==
    /\ tasks[t].at = "running"
    /\ tasks' = [tasks EXCEPT ![t].at = "closing"]
    /\ conns' = [c \in Conns |->
        IF conns[c] = In("seated", t) THEN In("leaving", t) ELSE conns[c]]
    /\ UNCHANGED <<rooms, draining, permit, server>>

\* Mutant: notify_waiters, which leaves nothing to one not waiting yet.
NotifyWaiters == permit' = (permit \/ server = "waiting")

\* Notify::notify_one.  The waiter, if any, takes the permit as it wakes; a
\* second notice before it does is not kept, where tokio's is.
NotifyOne == permit' = TRUE

\* Hub::remove, under the lock.
Remove(t) ==
    /\ tasks[t].at = "closing"
    /\ rooms' = [k \in DOMAIN rooms \ {tasks[t].code} |-> rooms[k]]
    /\ tasks' = [tasks EXCEPT ![t].at = "removed"]
    /\ UNCHANGED <<conns, draining, permit, server>>

\* Hub::remove, the lock let go.
Notify(t) ==
    /\ tasks[t].at = "removed"
    /\ NotifyOne
    /\ tasks' = [tasks EXCEPT ![t].at = "notified"]
    /\ UNCHANGED <<rooms, conns, draining, server>>

\* Mutant: the channel outlives the task.
ReturnKept(t) ==
    /\ tasks[t].at = "notified"
    /\ tasks' = [tasks EXCEPT ![t].at = "kept"]
    /\ UNCHANGED <<rooms, conns, draining, permit, server>>

\* The task is over and its channel dropped, with what was queued in it.
Return(t) ==
    /\ tasks[t].at = "notified"
    /\ tasks' = [tasks EXCEPT ![t].at = "returned", ![t].commands = <<>>]
    /\ UNCHANGED <<rooms, conns, draining, permit, server>>

----------------------------------------------------------------------------
(***************************************************************************)
(* The server's end.                                                       *)
(***************************************************************************)

\* SIGTERM: Hub::begin_drain.
Sigterm ==
    /\ server = "serving"
    /\ draining' = TRUE
    /\ server' = "counting"
    /\ UNCHANGED <<rooms, tasks, conns, permit>>

\* Hub::drained looks, under the lock ...
Count ==
    /\ server = "counting"
    /\ server' = IF RoomCount = 0 THEN "drained" ELSE "counted"
    /\ UNCHANGED <<rooms, tasks, conns, draining, permit>>

\* ... and, the lock let go, waits for the next room to go.
Await ==
    /\ server = "counted"
    /\ server' = "waiting"
    /\ UNCHANGED <<rooms, tasks, conns, draining, permit>>

Wake ==
    /\ server = "waiting" /\ permit
    /\ permit' = FALSE
    /\ server' = "counting"
    /\ UNCHANGED <<rooms, tasks, conns, draining>>

\* DRAIN_MAX, or Ctrl-C.
CutShort ==
    /\ server \in {"counting", "counted", "waiting"}
    /\ server' = "cut"
    /\ UNCHANGED <<rooms, tasks, conns, draining, permit>>

\* Hub::shutdown: every connection closes its socket.
Shutdown ==
    /\ server \in {"drained", "cut"}
    /\ server' = "down"
    /\ conns' = [c \in Conns |-> IF conns[c].at = "seated" THEN [conns[c] EXCEPT !.at = "leaving"]
                                                           ELSE conns[c]]
    /\ UNCHANGED <<rooms, tasks, draining, permit>>

HubInit ==
    /\ rooms = <<>> /\ tasks = <<>>
    /\ conns = [c \in Conns |-> Idle]
    /\ draining = FALSE /\ permit = FALSE /\ server = "serving"

ConnStep(c) ==
    \/ CheckDrain(c)
    \/ \E code \in Codes : Insert(c, code) \/ Find(c, code)
    \/ CreateRefused(c) \/ Ask(c) \/ ToldGone(c) \/ Hangup(c) \/ Leave(c)

RoomStep(t) == Serve(t) \/ Break(t) \/ Remove(t) \/ Notify(t) \/ Return(t)

HubNext ==
    \/ \E c \in Conns : ConnStep(c)
    \/ \E t \in DOMAIN tasks : RoomStep(t)
    \/ Sigterm \/ Count \/ Await \/ Wake \/ CutShort \/ Shutdown

\* The scheduler runs every task that is ready: a room serves what is queued
\* until it ends, and ends once the server drains (Lifecycle, DrainBounded);
\* a connection goes on from each await that is answered.
HubFairness ==
    /\ WF_hubVars(Count) /\ WF_hubVars(Await) /\ WF_hubVars(Wake) /\ WF_hubVars(Shutdown)
    /\ \A t \in 1..MaxEver :
        /\ WF_hubVars(t \in DOMAIN tasks /\ (Serve(t) \/ Remove(t) \/ Notify(t) \/ Return(t)))
        /\ WF_hubVars(t \in DOMAIN tasks /\ draining /\ Break(t))
    /\ \A c \in Conns :
        WF_hubVars((\E code \in Codes : Insert(c, code)) \/ CreateRefused(c) \/ Ask(c) \/ ToldGone(c) \/ Leave(c))

HubSpec == HubInit /\ [][HubNext]_hubVars /\ HubFairness

----------------------------------------------------------------------------
(***************************************************************************)
(* What the hub promises.                                                  *)
(***************************************************************************)

HubTypeOK ==
    /\ DOMAIN rooms \subseteq Codes /\ \A k \in DOMAIN rooms : rooms[k] \in DOMAIN tasks
    /\ tasks \in Seq([code : Codes, at : {"running", "closing", "removed", "notified", "returned"},
                      commands : Seq(Conns \cup {None})])
    /\ \A t \in DOMAIN tasks : Len(tasks[t].commands) <= RoomCommands
    /\ conns \in [Conns -> [at : {"idle", "creating", "asking", "joining", "seated", "leaving"},
                            room : (1..MaxEver) \cup {None}]]
    /\ draining \in BOOLEAN /\ permit \in BOOLEAN
    /\ server \in {"serving", "counting", "counted", "waiting", "drained", "cut", "down"}

\* A server never holds more rooms than it was given, though creates race
\* one another between the look at the drain and the lock.
CapHeld == Cardinality({t \in DOMAIN tasks : tasks[t].at \in {"running", "closing"}}) <= MaxRooms

\* A code names one room: every room still running is the one its code finds,
\* so no room's end takes another's code off the map.
CodesNameRooms ==
    /\ \A k \in DOMAIN rooms : tasks[rooms[k]].code = k /\ tasks[rooms[k]].at \in {"running", "closing"}
    /\ \A t \in DOMAIN tasks : tasks[t].at \in {"running", "closing"} =>
        tasks[t].code \in DOMAIN rooms /\ rooms[tasks[t].code] = t

\* A connection that asked a room for a seat is answered - seat, refusal or
\* RoomGone - whatever becomes of the room meanwhile (conn.rs, join).
JoinAnswered == \A c \in Conns : conns[c].at = "joining" ~> conns[c].at # "joining"

\* Once the last room has gone, a draining server notices: no wake-up is lost
\* between the count and the wait (hub.rs, drained).
DrainEnds == draining ~> server = "down"
=============================================================================
