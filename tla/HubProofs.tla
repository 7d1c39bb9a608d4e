----------------------------- MODULE HubProofs -----------------------------
(***************************************************************************)
(* The hub's safety, for any number of connections, codes and rooms: a     *)
(* code names one room, and a server holds no more rooms than its cap.     *)
(*                                                                         *)
(* CapHeld counts tasks where create_room counts codes.  CodesNameRooms is *)
(* what makes the two counts one.  It is inductive only while every room a *)
(* connection holds is one there was (RoomsKnown) and a queued join is of  *)
(* a connection waiting for that very room (QueueInv): what a room serves  *)
(* then seats nobody who has gone elsewhere.                               *)
(***************************************************************************)
EXTENDS Hub, FiniteSetTheorems, SequenceTheorems, TLAPS

Tasks == [code : Codes, at : {"running", "closing", "removed", "notified", "returned"},
          commands : Seq(Conns \cup {None})]

Running(t) == tasks[t].at \in {"running", "closing"}

\* A connection that asks, waits for or has a seat does so of a room there
\* was.
Knows(w) == w.at \in {"idle", "creating"} \/ w.room \in DOMAIN tasks

RoomsKnown == \A c \in Conns : Knows(conns[c])

HubInv ==
    /\ HubTypeOK
    /\ RoomsKnown
    /\ Len(tasks) <= MaxEver
    /\ RoomCount <= MaxRooms
    /\ CodesNameRooms

\* A server starts with no room.
LEMMA HubInvInit == HubInit => HubInv
<1> SUFFICES ASSUME HubInit PROVE HubInv
  OBVIOUS
<1>1. DOMAIN rooms = {} /\ DOMAIN tasks = {} /\ Len(tasks) = 0
  BY DEF HubInit
<1>2. RoomCount = 0
  BY <1>1, FS_EmptySet DEF RoomCount
<1>3. tasks \in Seq(Tasks)
  BY DEF HubInit
<1>4. conns \in [Conns -> [at : {"idle", "creating", "asking", "joining", "seated", "leaving"},
                             room : (1..MaxEver) \cup {None}]]
  BY DEF HubInit, Idle
<1>5. HubTypeOK
  BY <1>1, <1>3, <1>4 DEF HubTypeOK, HubInit, Tasks
<1>6. RoomsKnown
  BY DEF HubInit, Idle, RoomsKnown, Knows
<1> QED
  BY <1>1, <1>2, <1>5, <1>6, HubAssumption DEF HubInv, CodesNameRooms

\* A task that takes a step stays a task of the same room.
LEMMA TaskStep ==
    ASSUME tasks \in Seq(Tasks), NEW t \in DOMAIN tasks, NEW task \in Tasks,
           tasks' = [tasks EXCEPT ![t] = task]
    PROVE  /\ tasks' \in Seq(Tasks)
           /\ Len(tasks') = Len(tasks) /\ DOMAIN tasks' = DOMAIN tasks
           /\ tasks'[t] = task
           /\ \A u \in DOMAIN tasks : u # t => tasks'[u] = tasks[u]
  BY ExceptSeq

\* What a connection is at, and with which room.
Waits == [at : {"idle", "creating", "asking", "joining", "seated", "leaving"},
          room : (1..MaxEver) \cup {None}]

\* The part of the invariant the map's lock guards: a step that opens, closes
\* and lists no room keeps it, whatever it does to the channels.
LEMMA CodesKept ==
    ASSUME HubInv,
           UNCHANGED rooms,
           DOMAIN tasks' = DOMAIN tasks, Len(tasks') = Len(tasks),
           \A t \in DOMAIN tasks : /\ tasks'[t].code = tasks[t].code
                                   /\ Running(t)' <=> Running(t),
           HubTypeOK', RoomsKnown'
    PROVE  HubInv'
  BY DEF HubInv, CodesNameRooms, RoomCount, Running, HubTypeOK

\* A connection between two awaits.
LEMMA ConnKeeps ==
    ASSUME HubInv, NEW c \in Conns, NEW w \in Waits, Knows(w),
           conns' = [conns EXCEPT ![c] = w],
           UNCHANGED <<rooms, tasks, draining, permit, server>>
    PROVE  HubInv'
<1>1. conns' \in [Conns -> Waits]
  BY DEF HubInv, HubTypeOK, Waits
<1>2. HubTypeOK'
  BY <1>1 DEF HubInv, HubTypeOK, Waits
<1>3. RoomsKnown'
  BY DEF HubInv, HubTypeOK, RoomsKnown, Knows
<1> QED
  BY <1>2, <1>3, CodesKept DEF Running

\* A command queued on a room's channel, and the connection that queued it.
LEMMA QueueKeeps ==
    ASSUME HubInv, NEW t \in DOMAIN tasks, NEW command \in Conns \cup {None}, NEW c \in Conns,
           NEW w \in Waits, Knows(w), HasSpace(t), Queue(t, command),
           conns' = [conns EXCEPT ![c] = w],
           UNCHANGED <<rooms, draining, permit, server>>
    PROVE  HubInv'
<1>1. tasks \in Seq(Tasks) /\ tasks[t] \in Tasks
  <2>1. tasks \in Seq(Tasks)
    BY DEF HubInv, HubTypeOK, Tasks
  <2> QED
    BY <2>1, LenProperties, ElementOfSeq
<1> DEFINE queued == Append(tasks[t].commands, command)
           task == [tasks[t] EXCEPT !.commands = queued]
<1>2. queued \in Seq(Conns \cup {None}) /\ Len(queued) = Len(tasks[t].commands) + 1
  BY <1>1, AppendProperties DEF Tasks
<1>3. task \in Tasks /\ task.code = tasks[t].code /\ task.at = tasks[t].at /\ task.commands = queued
  BY <1>1, <1>2 DEF Tasks
<1>4. tasks' = [tasks EXCEPT ![t] = task]
  BY DEF Queue
<1> HIDE DEF task, queued
<1>5. /\ tasks' \in Seq(Tasks) /\ Len(tasks') = Len(tasks) /\ DOMAIN tasks' = DOMAIN tasks
      /\ tasks'[t] = task /\ \A u \in DOMAIN tasks : u # t => tasks'[u] = tasks[u]
  BY <1>1, <1>3, <1>4, TaskStep
<1>6. Len(queued) <= RoomCommands
  BY <1>1, <1>2, HubAssumption, LenProperties DEF HasSpace, Tasks
<1>7. \A u \in DOMAIN tasks' : Len(tasks'[u].commands) <= RoomCommands
  BY <1>3, <1>5, <1>6 DEF HubInv, HubTypeOK
<1>8. conns' \in [Conns -> Waits]
  BY DEF HubInv, HubTypeOK, Waits
<1>9. HubTypeOK'
  BY <1>5, <1>7, <1>8 DEF HubInv, HubTypeOK, Waits, Tasks
<1>10. RoomsKnown'
  BY <1>5 DEF HubInv, HubTypeOK, RoomsKnown, Knows
<1> QED
  BY <1>3, <1>5, <1>9, <1>10, CodesKept DEF Running

\* A room's task between two awaits: no step of a task makes it a room
\* again, and only `remove` takes one that is still listed off the map.
LEMMA TaskKeeps ==
    ASSUME HubInv, NEW t \in DOMAIN tasks, NEW task \in Tasks,
           tasks' = [tasks EXCEPT ![t] = task],
           task.code = tasks[t].code,
           task.at \in {"running", "closing"} <=> Running(t),
           Len(task.commands) <= RoomCommands,
           conns' \in [Conns -> Waits], \A c \in Conns : Knows(conns'[c]), permit' \in BOOLEAN,
           UNCHANGED <<rooms, draining, server>>
    PROVE  HubInv'
<1>1. tasks \in Seq(Tasks)
  BY DEF HubInv, HubTypeOK, Tasks
<1>2. /\ tasks' \in Seq(Tasks) /\ Len(tasks') = Len(tasks) /\ DOMAIN tasks' = DOMAIN tasks
      /\ tasks'[t] = task /\ \A u \in DOMAIN tasks : u # t => tasks'[u] = tasks[u]
  BY <1>1, TaskStep
<1>3. \A u \in DOMAIN tasks' : Len(tasks'[u].commands) <= RoomCommands
  BY <1>2 DEF HubInv, HubTypeOK
<1>4. HubTypeOK'
  BY <1>2, <1>3 DEF HubInv, HubTypeOK, Waits, Tasks
<1>5. RoomsKnown'
  BY <1>2 DEF RoomsKnown, Knows
<1> QED
  BY <1>2, <1>4, <1>5, CodesKept DEF Running

\* create_room: the new room takes a code no room has.
LEMMA InsertKeeps == ASSUME HubInv, NEW c \in Conns, NEW code \in Codes, Insert(c, code) PROVE HubInv'
<1> DEFINE task == [code |-> code, at |-> "running", commands |-> <<>>]
           n == Len(tasks) + 1
<1>1. tasks \in Seq(Tasks) /\ task \in Tasks /\ n \in 1..MaxEver
  <2>1. tasks \in Seq(Tasks)
    BY DEF HubInv, HubTypeOK, Tasks
  <2>2. Len(tasks) \in Nat
    BY <2>1, LenProperties
  <2> QED
    BY <2>1, <2>2, HubAssumption DEF Insert, Tasks
<1>2. /\ tasks' = Append(tasks, task)
      /\ rooms' = [k \in DOMAIN rooms \cup {code} |-> IF k = code THEN n ELSE rooms[k]]
      /\ code \notin DOMAIN rooms /\ RoomCount < MaxRooms
      /\ conns' = [conns EXCEPT ![c] = In("asking", n)]
      /\ UNCHANGED <<draining, permit, server>>
  BY DEF Insert, FreshCodes, BelowCap
<1> HIDE DEF n
<1>3. /\ tasks' \in Seq(Tasks) /\ Len(tasks') = n /\ DOMAIN tasks' = DOMAIN tasks \cup {n}
      /\ n \notin DOMAIN tasks /\ tasks'[n] = task
      /\ \A u \in DOMAIN tasks : tasks'[u] = tasks[u]
  BY <1>1, <1>2, AppendProperties, LenProperties DEF n
<1>4. conns' \in [Conns -> Waits]
  <2>1. In("asking", n) \in Waits
    BY <1>1 DEF In, Waits
  <2> QED
    BY <1>2, <2>1 DEF HubInv, HubTypeOK, Waits
<1>5. \A u \in DOMAIN tasks' : Len(tasks'[u].commands) <= RoomCommands
  BY <1>3, HubAssumption, EmptySeq DEF HubInv, HubTypeOK
<1>6. HubTypeOK'
  BY <1>2, <1>3, <1>4, <1>5 DEF HubInv, HubTypeOK, Waits, Tasks
<1>7. CodesNameRooms'
  BY <1>2, <1>3 DEF HubInv, HubTypeOK, CodesNameRooms
<1>8. RoomCount' <= MaxRooms
  <2>1. IsFiniteSet(DOMAIN rooms)
    BY HubAssumption, FS_Subset DEF HubInv, HubTypeOK
  <2>2. Cardinality(DOMAIN rooms') = Cardinality(DOMAIN rooms) + 1
    BY <1>2, <2>1, FS_AddElement
  <2> QED
    BY <1>2, <2>1, <2>2, FS_CardinalityType, HubAssumption DEF RoomCount
<1>9. RoomsKnown'
  BY <1>2, <1>3 DEF HubInv, HubTypeOK, RoomsKnown, Knows, In
<1> QED
  BY <1>1, <1>3, <1>6, <1>7, <1>8, <1>9 DEF HubInv

\* A room that ends takes its own code off the map, and no other's.
LEMMA RemoveKeeps == ASSUME HubInv, NEW t \in DOMAIN tasks, Remove(t) PROVE HubInv'
<1>1. tasks \in Seq(Tasks) /\ tasks[t] \in Tasks
  <2>1. tasks \in Seq(Tasks)
    BY DEF HubInv, HubTypeOK, Tasks
  <2> QED
    BY <2>1, LenProperties, ElementOfSeq
<1> DEFINE task == [tasks[t] EXCEPT !.at = "removed"]
<1>2. task \in Tasks /\ task.code = tasks[t].code /\ task.at = "removed" /\ task.commands = tasks[t].commands
  BY <1>1 DEF Tasks
<1>3. tasks' = [tasks EXCEPT ![t] = task]
  BY DEF Remove
<1> HIDE DEF task
<1>4. /\ tasks' \in Seq(Tasks) /\ Len(tasks') = Len(tasks) /\ DOMAIN tasks' = DOMAIN tasks
      /\ tasks'[t] = task /\ \A u \in DOMAIN tasks : u # t => tasks'[u] = tasks[u]
  BY <1>1, <1>2, <1>3, TaskStep
<1>5. rooms' = [k \in DOMAIN rooms \ {tasks[t].code} |-> rooms[k]] /\ tasks[t].at = "closing"
      /\ UNCHANGED <<conns, draining, permit, server>>
  BY DEF Remove
<1>6. tasks[t].code \in DOMAIN rooms /\ rooms[tasks[t].code] = t
  BY <1>5 DEF HubInv, CodesNameRooms
<1>7. HubTypeOK'
  BY <1>2, <1>4, <1>5 DEF HubInv, HubTypeOK, Tasks
<1>8. CodesNameRooms'
  <2>1. ASSUME NEW k \in DOMAIN rooms'
        PROVE  tasks'[rooms'[k]].code = k /\ tasks'[rooms'[k]].at \in {"running", "closing"}
    <3>1. k \in DOMAIN rooms /\ k # tasks[t].code /\ rooms'[k] = rooms[k]
      BY <1>5
    <3>2. rooms[k] \in DOMAIN tasks /\ tasks[rooms[k]].code = k /\ tasks[rooms[k]].at \in {"running", "closing"}
      BY <3>1 DEF HubInv, HubTypeOK, CodesNameRooms
    <3> QED
      BY <1>4, <3>1, <3>2
  <2>2. ASSUME NEW u \in DOMAIN tasks', tasks'[u].at \in {"running", "closing"}
        PROVE  tasks'[u].code \in DOMAIN rooms' /\ rooms'[tasks'[u].code] = u
    <3>1. u \in DOMAIN tasks /\ u # t /\ tasks'[u] = tasks[u]
      BY <1>2, <1>4, <2>2
    <3>2. tasks[u].code \in DOMAIN rooms /\ rooms[tasks[u].code] = u
      BY <2>2, <3>1 DEF HubInv, CodesNameRooms
    <3> QED
      BY <1>5, <1>6, <3>1, <3>2
  <2> QED
    BY <2>1, <2>2 DEF CodesNameRooms
<1>9. RoomCount' <= MaxRooms
  <2>1. IsFiniteSet(DOMAIN rooms)
    BY HubAssumption, FS_Subset DEF HubInv, HubTypeOK
  <2>2. DOMAIN rooms' \subseteq DOMAIN rooms
    BY <1>5
  <2>3. Cardinality(DOMAIN rooms') <= Cardinality(DOMAIN rooms) /\ IsFiniteSet(DOMAIN rooms')
    BY <2>1, <2>2, FS_Subset
  <2> QED
    BY <2>1, <2>3, FS_CardinalityType, HubAssumption DEF RoomCount, HubInv
<1>10. RoomsKnown'
  BY <1>4, <1>5 DEF HubInv, RoomsKnown, Knows
<1> QED
  BY <1>4, <1>7, <1>8, <1>9, <1>10 DEF HubInv

\* Every step of a connection's task keeps the invariant.
LEMMA ConnStepKeeps == ASSUME HubInv, NEW c \in Conns, ConnStep(c) PROVE HubInv'
<1>1. conns[c] \in Waits /\ Knows(conns[c])
  BY DEF HubInv, HubTypeOK, Waits, RoomsKnown
<1>2. Idle \in Waits /\ Knows(Idle)
  BY DEF Waits, Knows, Idle
<1>3. CASE CheckDrain(c)
  <2>1. In("creating", None) \in Waits /\ Knows(In("creating", None))
    BY DEF In, Waits, Knows
  <2> QED
    BY <1>3, <2>1, ConnKeeps DEF CheckDrain
<1>4. ASSUME NEW code \in Codes, Insert(c, code) PROVE HubInv'
  BY <1>4, InsertKeeps
<1>5. ASSUME NEW code \in Codes, Find(c, code) PROVE HubInv'
  <2>1. tasks \in Seq(Tasks) /\ rooms[code] \in DOMAIN tasks
    BY <1>5 DEF Find, HubInv, HubTypeOK, Tasks
  <2>2. rooms[code] \in 1..MaxEver
    BY <2>1, LenProperties, HubAssumption DEF HubInv
  <2>3. In("asking", rooms[code]) \in Waits /\ Knows(In("asking", rooms[code]))
    BY <2>1, <2>2 DEF In, Waits, Knows
  <2> QED
    BY <1>5, <2>3, ConnKeeps DEF Find
<1>6. CASE CreateRefused(c)
  BY <1>2, <1>6, ConnKeeps DEF CreateRefused
<1>7. CASE Ask(c)
  <2> DEFINE t == conns[c].room
             w == [conns[c] EXCEPT !.at = "joining"]
  <2>1. t \in DOMAIN tasks
    BY <1>1, <1>7 DEF Ask, Knows
  <2>2. w \in Waits /\ Knows(w)
    BY <1>1, <2>1 DEF Waits, Knows
  <2>3. CASE Open(t) /\ HasSpace(t) /\ Queue(t, c) /\ conns' = [conns EXCEPT ![c] = w]
    BY <1>7, <2>1, <2>2, <2>3, QueueKeeps DEF Ask
  <2>4. CASE conns' = [conns EXCEPT ![c] = Idle] /\ UNCHANGED tasks
    BY <1>2, <1>7, <2>4, ConnKeeps DEF Ask
  <2> QED
    BY <1>7, <2>3, <2>4 DEF Ask
<1>8. CASE ToldGone(c)
  BY <1>2, <1>8, ConnKeeps DEF ToldGone
<1>9. CASE Hangup(c)
  <2> DEFINE w == [conns[c] EXCEPT !.at = "leaving"]
  <2>1. w \in Waits /\ Knows(w)
    BY <1>1, <1>9 DEF Hangup, Waits, Knows
  <2> QED
    BY <1>9, <2>1, ConnKeeps DEF Hangup
<1>10. CASE Leave(c)
  <2> DEFINE t == conns[c].room
  <2>1. t \in DOMAIN tasks
    BY <1>1, <1>10 DEF Leave, Knows
  <2>2. CASE HasSpace(t) /\ Queue(t, None)
    BY <1>2, <1>10, <2>1, <2>2, QueueKeeps DEF Leave
  <2>3. CASE UNCHANGED tasks
    BY <1>2, <1>10, <2>3, ConnKeeps DEF Leave
  <2> QED
    BY <1>10, <2>2, <2>3 DEF Leave
<1> QED
  BY <1>3, <1>4, <1>5, <1>6, <1>7, <1>8, <1>9, <1>10 DEF ConnStep

----------------------------------------------------------------------------
(***************************************************************************)
(* A connection waits in one place.                                        *)
(***************************************************************************)

Queued(t, i) == tasks[t].commands[i]

\* A join on a channel is of a connection that waits for that room's answer,
\* and it is there once; a room that has returned has nothing queued.
QueueInv ==
    \A t \in DOMAIN tasks :
        /\ tasks[t].at = "returned" => tasks[t].commands = <<>>
        /\ \A i \in DOMAIN tasks[t].commands : Queued(t, i) # None =>
              /\ conns[Queued(t, i)] = In("joining", t)
              /\ \A j \in DOMAIN tasks[t].commands : i # j => Queued(t, i) # Queued(t, j)

LEMMA QueueInvInit == HubInit => QueueInv
  BY DEF HubInit, QueueInv

\* A connection that is not waiting for an open room may be anywhere next.
LEMMA ConnQueue ==
    ASSUME HubInv, QueueInv, NEW c \in Conns, NEW w \in Waits,
           conns[c].at # "joining" \/ (conns[c].room \in DOMAIN tasks /\ ~Open(conns[c].room)),
           conns' = [conns EXCEPT ![c] = w], UNCHANGED tasks
    PROVE  QueueInv'
<1> SUFFICES ASSUME NEW t \in DOMAIN tasks, NEW i \in DOMAIN tasks[t].commands, Queued(t, i) # None
             PROVE  conns'[Queued(t, i)] = In("joining", t)
  BY DEF QueueInv, Queued
<1>1. conns[Queued(t, i)] = In("joining", t)
  BY DEF QueueInv
<1>2. Queued(t, i) # c
  <2>1. tasks[t].commands # <<>>
    OBVIOUS
  <2>2. tasks[t].at # "returned"
    BY <2>1 DEF QueueInv
  <2> QED
    BY <1>1, <2>2 DEF In, Open
<1>3. conns' = [x \in Conns |-> IF x = c THEN w ELSE conns[x]]
  BY DEF HubInv, HubTypeOK
<1>4. Queued(t, i) \in Conns
  <2>1. tasks[t] \in Tasks
    <3>1. tasks \in Seq(Tasks)
      BY DEF HubInv, HubTypeOK, Tasks
    <3> QED
      BY <3>1, LenProperties, ElementOfSeq
  <2> QED
    BY <2>1, LenProperties, ElementOfSeq DEF Tasks, Queued
<1> QED
  BY <1>1, <1>2, <1>3, <1>4

\* A join, or a last word, goes on the channel of an open room.
LEMMA QueueQueue ==
    ASSUME HubInv, QueueInv, NEW t \in DOMAIN tasks, NEW command \in Conns \cup {None},
           NEW c \in Conns, NEW w \in Waits, Open(t), Queue(t, command),
           conns[c].at # "joining", conns' = [conns EXCEPT ![c] = w],
           command = None \/ (command = c /\ w = In("joining", t))
    PROVE  QueueInv'
<1>1. tasks \in Seq(Tasks) /\ tasks[t] \in Tasks
  <2>1. tasks \in Seq(Tasks)
    BY DEF HubInv, HubTypeOK, Tasks
  <2> QED
    BY <2>1, LenProperties, ElementOfSeq
<1> DEFINE n == Len(tasks[t].commands) + 1
           queued == Append(tasks[t].commands, command)
           task == [tasks[t] EXCEPT !.commands = queued]
<1>2. /\ DOMAIN tasks' = DOMAIN tasks
      /\ tasks'[t].at # "returned" /\ tasks'[t].commands = queued
      /\ \A u \in DOMAIN tasks : u # t => tasks'[u] = tasks[u]
  BY <1>1 DEF Queue, Tasks, Open
<1>3. /\ DOMAIN queued = DOMAIN tasks[t].commands \cup {n} /\ n \notin DOMAIN tasks[t].commands
      /\ queued[n] = command /\ \A i \in DOMAIN tasks[t].commands : queued[i] = Queued(t, i)
  BY <1>1, AppendProperties, LenProperties DEF Tasks, Queued
<1>4. \A u \in DOMAIN tasks : \A i \in DOMAIN tasks[u].commands :
        Queued(u, i) # None => /\ Queued(u, i) # c
                               /\ conns'[Queued(u, i)] = In("joining", u)
  <2> SUFFICES ASSUME NEW u \in DOMAIN tasks, NEW i \in DOMAIN tasks[u].commands, Queued(u, i) # None
               PROVE  Queued(u, i) # c /\ conns'[Queued(u, i)] = In("joining", u)
    OBVIOUS
  <2>1. conns[Queued(u, i)] = In("joining", u)
    BY DEF QueueInv
  <2>2. Queued(u, i) # c
    BY <2>1 DEF In
  <2>3. Queued(u, i) \in Conns
    <3>1. tasks[u] \in Tasks
      BY <1>1, LenProperties, ElementOfSeq
    <3> QED
      BY <3>1, LenProperties, ElementOfSeq DEF Tasks, Queued
  <2> QED
    BY <2>1, <2>2, <2>3 DEF HubInv, HubTypeOK
<1> HIDE DEF queued, n
<1>5. ASSUME NEW u \in DOMAIN tasks', u # t
      PROVE  /\ tasks'[u].at = "returned" => tasks'[u].commands = <<>>
             /\ \A i \in DOMAIN tasks'[u].commands : tasks'[u].commands[i] # None =>
                  /\ conns'[tasks'[u].commands[i]] = In("joining", u)
                  /\ \A j \in DOMAIN tasks'[u].commands :
                        i # j => tasks'[u].commands[i] # tasks'[u].commands[j]
  BY <1>2, <1>4, <1>5 DEF QueueInv, Queued
<1>6. command # None => conns'[command] = In("joining", t)
  BY DEF HubInv, HubTypeOK
<1>7. \A i \in DOMAIN queued : queued[i] # None =>
         /\ conns'[queued[i]] = In("joining", t)
         /\ \A j \in DOMAIN queued : i # j => queued[i] # queued[j]
  <2> SUFFICES ASSUME NEW i \in DOMAIN queued, queued[i] # None
               PROVE  /\ conns'[queued[i]] = In("joining", t)
                      /\ \A j \in DOMAIN queued : i # j => queued[i] # queued[j]
    OBVIOUS
  <2>1. CASE i = n
    BY <1>3, <1>4, <1>6, <2>1
  <2>2. CASE i \in DOMAIN tasks[t].commands
    BY <1>3, <1>4, <2>2 DEF QueueInv, Queued
  <2> QED
    BY <1>3, <2>1, <2>2
<1> QED
  BY <1>2, <1>5, <1>7 DEF QueueInv, Queued

\* A task that lets go of the first k commands on its channel, or of all.
LEMMA TaskQueue ==
    ASSUME HubInv, QueueInv, NEW t \in DOMAIN tasks, NEW task \in Tasks, NEW k \in Nat,
           tasks' = [tasks EXCEPT ![t] = task],
           task.at = "returned" => task.commands = <<>>,
           \A i \in DOMAIN task.commands :
               i + k \in DOMAIN tasks[t].commands /\ task.commands[i] = tasks[t].commands[i + k],
           \A u \in DOMAIN tasks : \A i \in DOMAIN tasks'[u].commands :
               Queued(u, i)' # None => conns'[Queued(u, i)'] = conns[Queued(u, i)']
    PROVE  QueueInv'
<1>1. tasks \in Seq(Tasks)
  BY DEF HubInv, HubTypeOK, Tasks
<1>2. /\ DOMAIN tasks' = DOMAIN tasks /\ tasks'[t] = task
      /\ \A u \in DOMAIN tasks : u # t => tasks'[u] = tasks[u]
  BY <1>1, TaskStep
<1>3. ASSUME NEW u \in DOMAIN tasks, u # t
      PROVE  /\ tasks'[u].at = "returned" => tasks'[u].commands = <<>>
             /\ \A i \in DOMAIN tasks'[u].commands : tasks'[u].commands[i] # None =>
                  /\ conns'[tasks'[u].commands[i]] = In("joining", u)
                  /\ \A j \in DOMAIN tasks'[u].commands :
                        i # j => tasks'[u].commands[i] # tasks'[u].commands[j]
  <2>1. tasks'[u] = tasks[u]
    BY <1>2, <1>3
  <2> QED
    BY <2>1 DEF QueueInv, Queued
<1>4. \A i \in DOMAIN task.commands : i \in Nat
  BY LenProperties DEF Tasks
<1>5. ASSUME NEW i \in DOMAIN task.commands, task.commands[i] # None
      PROVE  /\ conns'[task.commands[i]] = In("joining", t)
             /\ \A j \in DOMAIN task.commands : i # j => task.commands[i] # task.commands[j]
  <2>1. conns'[task.commands[i]] = conns[task.commands[i]]
    BY <1>2, <1>5 DEF Queued
  <2>2. conns[tasks[t].commands[i + k]] = In("joining", t)
    BY <1>5 DEF QueueInv, Queued
  <2>3. ASSUME NEW j \in DOMAIN task.commands, i # j PROVE task.commands[i] # task.commands[j]
    <3>1. i + k # j + k
      BY <1>4, <2>3
    <3> QED
      BY <1>5, <3>1 DEF QueueInv, Queued
  <2> QED
    BY <2>1, <2>2, <2>3
<1> QED
  BY <1>2, <1>3, <1>5 DEF QueueInv, Queued

\* A new room's channel is empty, and its creator waits for no room yet.
LEMMA InsertQueue ==
    ASSUME HubInv, QueueInv, NEW c \in Conns, NEW code \in Codes, Insert(c, code)
    PROVE  QueueInv'
<1> DEFINE n == Len(tasks) + 1
           task == [code |-> code, at |-> "running", commands |-> <<>>]
<1>1. /\ conns[c].at = "creating" /\ conns' = [conns EXCEPT ![c] = In("asking", n)]
      /\ tasks' = Append(tasks, task)
  BY DEF Insert
<1>2. tasks \in Seq(Tasks) /\ task \in Tasks
  BY DEF HubInv, HubTypeOK, Tasks
<1>3. /\ DOMAIN tasks' = DOMAIN tasks \cup {n} /\ tasks'[n] = task
      /\ \A u \in DOMAIN tasks : tasks'[u] = tasks[u]
  BY <1>1, <1>2, AppendProperties, LenProperties
<1>4. \A u \in DOMAIN tasks : \A i \in DOMAIN tasks[u].commands :
        Queued(u, i) # None => conns'[Queued(u, i)] = In("joining", u)
  <2> SUFFICES ASSUME NEW u \in DOMAIN tasks, NEW i \in DOMAIN tasks[u].commands, Queued(u, i) # None
               PROVE  conns'[Queued(u, i)] = In("joining", u)
    OBVIOUS
  <2>1. conns[Queued(u, i)] = In("joining", u)
    BY DEF QueueInv
  <2>2. Queued(u, i) \in Conns /\ Queued(u, i) # c
    <3>1. tasks[u] \in Tasks
      BY <1>2, LenProperties, ElementOfSeq
    <3> QED
      BY <1>1, <2>1, <3>1, LenProperties, ElementOfSeq DEF Tasks, Queued, In
  <2> QED
    BY <1>1, <2>1, <2>2 DEF HubInv, HubTypeOK
<1> HIDE DEF n
<1> QED
  BY <1>3, <1>4 DEF QueueInv, Queued

\* Every step of a connection's task keeps what is queued.
LEMMA ConnStepQueue == ASSUME HubInv, QueueInv, NEW c \in Conns, ConnStep(c) PROVE QueueInv'
<1>1. conns[c] \in Waits /\ Knows(conns[c])
  BY DEF HubInv, HubTypeOK, Waits, RoomsKnown
<1>2. Idle \in Waits
  BY DEF Waits, Idle
<1>3. CASE CheckDrain(c)
  <2>1. In("creating", None) \in Waits /\ conns[c].at # "joining"
    BY <1>3 DEF In, Waits, CheckDrain, Idle
  <2> QED
    BY <1>3, <2>1, ConnQueue DEF CheckDrain
<1>4. ASSUME NEW code \in Codes, Insert(c, code) PROVE QueueInv'
  BY <1>4, InsertQueue
<1>5. ASSUME NEW code \in Codes, Find(c, code) PROVE QueueInv'
  <2>1. tasks \in Seq(Tasks) /\ rooms[code] \in DOMAIN tasks
    BY <1>5 DEF Find, HubInv, HubTypeOK, Tasks
  <2>2. rooms[code] \in 1..MaxEver
    BY <2>1, LenProperties, HubAssumption DEF HubInv
  <2>3. In("asking", rooms[code]) \in Waits /\ conns[c].at # "joining"
    BY <1>5, <2>2 DEF In, Waits, Find, Idle
  <2> QED
    BY <1>5, <2>3, ConnQueue DEF Find
<1>6. CASE CreateRefused(c)
  BY <1>2, <1>6, ConnQueue DEF CreateRefused
<1>7. CASE Ask(c)
  <2> DEFINE t == conns[c].room
             w == [conns[c] EXCEPT !.at = "joining"]
  <2>1. t \in DOMAIN tasks /\ conns[c].at # "joining"
    BY <1>1, <1>7 DEF Ask, Knows
  <2>2. w \in Waits /\ w = In("joining", t)
    BY <1>1 DEF Waits, In
  <2>3. CASE Open(t) /\ HasSpace(t) /\ Queue(t, c) /\ conns' = [conns EXCEPT ![c] = w]
    BY <1>7, <2>1, <2>2, <2>3, QueueQueue DEF Ask
  <2>4. CASE conns' = [conns EXCEPT ![c] = Idle] /\ UNCHANGED tasks
    BY <1>2, <1>7, <2>1, <2>4, ConnQueue DEF Ask
  <2> QED
    BY <1>7, <2>3, <2>4 DEF Ask
<1>8. CASE ToldGone(c)
  <2>1. conns[c].room \in DOMAIN tasks /\ ~Open(conns[c].room)
    BY <1>1, <1>8 DEF ToldGone, Knows
  <2> QED
    BY <1>2, <1>8, <2>1, ConnQueue DEF ToldGone
<1>9. CASE Hangup(c)
  <2> DEFINE w == [conns[c] EXCEPT !.at = "leaving"]
  <2>1. w \in Waits /\ conns[c].at # "joining"
    BY <1>1, <1>9 DEF Hangup, Waits
  <2> QED
    BY <1>9, <2>1, ConnQueue DEF Hangup
<1>10. CASE Leave(c)
  <2> DEFINE t == conns[c].room
  <2>1. t \in DOMAIN tasks /\ conns[c].at # "joining"
    BY <1>1, <1>10 DEF Leave, Knows
  <2>2. CASE Open(t) /\ Queue(t, None)
    BY <1>2, <1>10, <2>1, <2>2, QueueQueue DEF Leave
  <2>3. CASE UNCHANGED tasks
    BY <1>2, <1>10, <2>1, <2>3, ConnQueue DEF Leave
  <2> QED
    BY <1>10, <2>2, <2>3 DEF Leave
<1> QED
  BY <1>3, <1>4, <1>5, <1>6, <1>7, <1>8, <1>9, <1>10 DEF ConnStep

----------------------------------------------------------------------------
(***************************************************************************)
(* A room's task, and the invariant.                                       *)
(***************************************************************************)

\* What is known of a task of the map and of what is on its channel.
LEMMA TaskFacts ==
    ASSUME HubInv, QueueInv, NEW t \in DOMAIN tasks
    PROVE  /\ tasks \in Seq(Tasks) /\ tasks[t] \in Tasks
           /\ tasks[t].commands \in Seq(Conns \cup {None})
           /\ Len(tasks[t].commands) <= RoomCommands
           /\ \A i \in DOMAIN tasks[t].commands :
                 Queued(t, i) # None => Queued(t, i) \in Conns /\ conns[Queued(t, i)] = In("joining", t)
<1>1. tasks \in Seq(Tasks)
  BY DEF HubInv, HubTypeOK, Tasks
<1>2. tasks[t] \in Tasks
  BY <1>1, LenProperties, ElementOfSeq
<1>3. tasks[t].commands \in Seq(Conns \cup {None})
  BY <1>2 DEF Tasks
<1>4. \A i \in DOMAIN tasks[t].commands : Queued(t, i) \in Conns \cup {None}
  BY <1>3, LenProperties, ElementOfSeq DEF Queued
<1> QED
  BY <1>1, <1>2, <1>3, <1>4 DEF HubInv, HubTypeOK, QueueInv

\* The loop serves the command at the head of the channel.
LEMMA ServeKeeps == ASSUME HubInv, QueueInv, NEW t \in DOMAIN tasks, Serve(t) PROVE HubInv' /\ QueueInv'
<1> DEFINE c == Head(tasks[t].commands)
           task == [tasks[t] EXCEPT !.commands = Tail(tasks[t].commands)]
<1>1. /\ tasks \in Seq(Tasks) /\ tasks[t] \in Tasks /\ tasks[t].commands \in Seq(Conns \cup {None})
      /\ Len(tasks[t].commands) <= RoomCommands /\ tasks[t].commands # <<>>
      /\ c \in Conns \cup {None} /\ 1 \in DOMAIN tasks[t].commands /\ c = Queued(t, 1)
      /\ c # None => c \in Conns /\ conns[c] = In("joining", t)
  <2>1. tasks[t].commands # <<>> /\ tasks[t].commands \in Seq(Conns \cup {None})
    BY TaskFacts DEF Serve
  <2>2. 1 \in DOMAIN tasks[t].commands /\ c = Queued(t, 1)
    BY <2>1, HeadTailProperties, LenProperties, EmptySeq DEF Queued
  <2> QED
    BY <2>1, <2>2, TaskFacts
<1>2. /\ Tail(tasks[t].commands) \in Seq(Conns \cup {None})
      /\ Len(Tail(tasks[t].commands)) = Len(tasks[t].commands) - 1
      /\ \A i \in DOMAIN Tail(tasks[t].commands) :
            /\ i + 1 \in DOMAIN tasks[t].commands /\ i + 1 # 1
            /\ Tail(tasks[t].commands)[i] = tasks[t].commands[i + 1]
  BY <1>1, HeadTailProperties, LenProperties
<1>3. /\ task \in Tasks /\ task.code = tasks[t].code /\ task.at = "running" /\ tasks[t].at = "running"
      /\ task.commands = Tail(tasks[t].commands) /\ tasks' = [tasks EXCEPT ![t] = task]
      /\ UNCHANGED <<rooms, draining, permit, server>>
  BY <1>1, <1>2 DEF Tasks, Serve
<1>4. /\ conns' \in [Conns -> Waits] /\ \A x \in Conns : Knows(conns'[x])
      /\ \A x \in Conns : x # c => conns'[x] = conns[x]
  <2>1. CASE UNCHANGED conns
    BY <2>1 DEF HubInv, HubTypeOK, RoomsKnown, Waits
  <2>2. CASE c # None /\ conns' = [conns EXCEPT ![c].at = "seated"]
    <3>1. c \in Conns /\ conns[c].room = t
      BY <1>1, <2>2 DEF In
    <3>2. [conns[c] EXCEPT !.at = "seated"] \in Waits /\ Knows([conns[c] EXCEPT !.at = "seated"])
      BY <3>1 DEF HubInv, HubTypeOK, Waits, Knows
    <3> QED
      BY <2>2, <3>1, <3>2 DEF HubInv, HubTypeOK, RoomsKnown, Waits
  <2>3. CASE c # None /\ conns' = [conns EXCEPT ![c] = Idle]
    <3>1. c \in Conns /\ Idle \in Waits /\ Knows(Idle)
      BY <1>1, <2>3 DEF Waits, Idle, Knows
    <3> QED
      BY <2>3, <3>1 DEF HubInv, HubTypeOK, RoomsKnown, Waits
  <2> QED
    BY <2>1, <2>2, <2>3 DEF Serve
<1> HIDE DEF task
<1>5. HubInv'
  <2>1. Len(task.commands) <= RoomCommands
    BY <1>1, <1>2, <1>3, HubAssumption, LenProperties
  <2> QED
    BY <1>3, <1>4, <2>1, TaskKeeps DEF Running, HubInv, HubTypeOK
<1>6. ASSUME NEW u \in DOMAIN tasks, NEW i \in DOMAIN tasks'[u].commands, Queued(u, i)' # None
      PROVE  conns'[Queued(u, i)'] = conns[Queued(u, i)']
  <2>1. CASE u = t
    <3>1. Queued(t, i)' = Queued(t, i + 1) /\ i + 1 \in DOMAIN tasks[t].commands /\ i + 1 # 1
      BY <1>1, <1>2, <1>3, <1>6, <2>1, TaskStep DEF Queued
    <3>2. Queued(t, i + 1) # Queued(t, 1)
      BY <1>1, <1>6, <2>1, <3>1 DEF QueueInv
    <3> QED
      BY <1>1, <1>4, <1>6, <2>1, <3>1, <3>2, TaskFacts
  <2>2. CASE u # t
    <3>1. Queued(u, i)' = Queued(u, i) /\ i \in DOMAIN tasks[u].commands
      BY <1>1, <1>3, <1>6, <2>2, TaskStep DEF Queued
    <3>2. Queued(u, i) \in Conns /\ conns[Queued(u, i)] = In("joining", u)
      BY <1>6, <3>1, TaskFacts
    <3>3. Queued(u, i) # c
      BY <1>1, <1>6, <2>2, <3>1, <3>2 DEF In
    <3> QED
      BY <1>4, <3>1, <3>2, <3>3
  <2> QED
    BY <2>1, <2>2
<1>7. QueueInv'
  <2>1. \A u \in DOMAIN tasks : \A i \in DOMAIN tasks'[u].commands :
          Queued(u, i)' # None => conns'[Queued(u, i)'] = conns[Queued(u, i)']
    BY <1>6
  <2>2. \A i \in DOMAIN task.commands :
          i + 1 \in DOMAIN tasks[t].commands /\ task.commands[i] = tasks[t].commands[i + 1]
    BY <1>2, <1>3
  <2>3. task.at # "returned" /\ 1 \in Nat
    BY <1>3
  <2> QED
    BY <1>3, <2>1, <2>2, <2>3, TaskQueue
<1> QED
  BY <1>5, <1>7

\* The loop ends: the seated connections are told, and what is queued stays
\* queued and unserved.
LEMMA BreakKeeps == ASSUME HubInv, QueueInv, NEW t \in DOMAIN tasks, Break(t) PROVE HubInv' /\ QueueInv'
<1> DEFINE task == [tasks[t] EXCEPT !.at = "closing"]
<1>1. /\ task \in Tasks /\ task.code = tasks[t].code /\ task.at = "closing" /\ tasks[t].at = "running"
      /\ task.commands = tasks[t].commands /\ tasks' = [tasks EXCEPT ![t] = task]
      /\ Len(tasks[t].commands) <= RoomCommands
      /\ UNCHANGED <<rooms, draining, permit, server>>
  BY TaskFacts DEF Tasks, Break
<1>2. /\ conns' \in [Conns -> Waits] /\ \A x \in Conns : Knows(conns'[x])
      /\ \A x \in Conns : conns[x].at = "joining" => conns'[x] = conns[x]
  <2>1. In("leaving", t) \in Waits /\ Knows(In("leaving", t))
    <3>1. t \in 1..MaxEver
      BY TaskFacts, LenProperties, HubAssumption DEF HubInv
    <3> QED
      BY <3>1 DEF In, Waits, Knows
  <2>2. conns' = [c \in Conns |-> IF conns[c] = In("seated", t) THEN In("leaving", t) ELSE conns[c]]
    BY DEF Break
  <2> QED
    BY <2>1, <2>2 DEF HubInv, HubTypeOK, RoomsKnown, Waits, In
<1> HIDE DEF task
<1>3. HubInv'
  BY <1>1, <1>2, TaskKeeps DEF Running, HubInv, HubTypeOK
<1>4. QueueInv'
  <2>1. ASSUME NEW u \in DOMAIN tasks, NEW i \in DOMAIN tasks'[u].commands, Queued(u, i)' # None
        PROVE  conns'[Queued(u, i)'] = conns[Queued(u, i)']
    <3>1. Queued(u, i)' = Queued(u, i) /\ i \in DOMAIN tasks[u].commands
      BY <1>1, <2>1, TaskFacts, TaskStep DEF Queued
    <3>2. Queued(u, i) \in Conns /\ conns[Queued(u, i)] = In("joining", u)
      BY <2>1, <3>1, TaskFacts
    <3>3. conns[Queued(u, i)].at = "joining"
      BY <3>2 DEF In
    <3> QED
      BY <1>2, <3>1, <3>2, <3>3
  <2>2. \A i \in DOMAIN task.commands :
          i + 0 \in DOMAIN tasks[t].commands /\ task.commands[i] = tasks[t].commands[i + 0]
    BY <1>1, TaskFacts, LenProperties
  <2> QED
    BY <1>1, <2>1, <2>2, TaskQueue
<1> QED
  BY <1>3, <1>4

\* `remove` under the lock, with the channel as it is.
LEMMA RemoveQueue == ASSUME HubInv, QueueInv, NEW t \in DOMAIN tasks, Remove(t) PROVE QueueInv'
<1> DEFINE task == [tasks[t] EXCEPT !.at = "removed"]
<1>1. /\ task \in Tasks /\ task.at = "removed" /\ task.commands = tasks[t].commands
      /\ tasks' = [tasks EXCEPT ![t] = task] /\ UNCHANGED conns
  BY TaskFacts DEF Tasks, Remove
<1> HIDE DEF task
<1>2. \A i \in DOMAIN task.commands :
        i + 0 \in DOMAIN tasks[t].commands /\ task.commands[i] = tasks[t].commands[i + 0]
  BY <1>1, TaskFacts, LenProperties
<1> QED
  BY <1>1, <1>2, TaskQueue

\* `remove`, the lock let go.
LEMMA NotifyKeeps == ASSUME HubInv, QueueInv, NEW t \in DOMAIN tasks, Notify(t) PROVE HubInv' /\ QueueInv'
<1> DEFINE task == [tasks[t] EXCEPT !.at = "notified"]
<1>1. /\ task \in Tasks /\ task.code = tasks[t].code /\ task.at = "notified" /\ tasks[t].at = "removed"
      /\ task.commands = tasks[t].commands /\ tasks' = [tasks EXCEPT ![t] = task]
      /\ Len(tasks[t].commands) <= RoomCommands
      /\ permit' = TRUE /\ UNCHANGED <<rooms, conns, draining, server>>
  BY TaskFacts DEF Tasks, Notify, NotifyOne
<1>2. conns' \in [Conns -> Waits] /\ \A x \in Conns : Knows(conns'[x])
  BY <1>1 DEF HubInv, HubTypeOK, RoomsKnown, Waits
<1> HIDE DEF task
<1>3. HubInv'
  BY <1>1, <1>2, TaskKeeps DEF Running
<1>4. \A i \in DOMAIN task.commands :
        i + 0 \in DOMAIN tasks[t].commands /\ task.commands[i] = tasks[t].commands[i + 0]
  BY <1>1, TaskFacts, LenProperties
<1> QED
  BY <1>1, <1>3, <1>4, TaskQueue

\* The task is over, and what was on its channel with it.
LEMMA ReturnKeeps == ASSUME HubInv, QueueInv, NEW t \in DOMAIN tasks, Return(t) PROVE HubInv' /\ QueueInv'
<1> DEFINE task == [tasks[t] EXCEPT !.at = "returned", !.commands = <<>>]
<1>1. /\ task \in Tasks /\ task.code = tasks[t].code /\ task.at = "returned" /\ task.commands = <<>>
  BY TaskFacts, EmptySeq DEF Tasks
<1>2. /\ tasks[t].at = "notified" /\ tasks' = [tasks EXCEPT ![t] = task]
      /\ UNCHANGED <<rooms, conns, draining, permit, server>>
  BY DEF Return
<1>3. Len(task.commands) = 0 /\ DOMAIN task.commands = {} /\ Len(task.commands) <= RoomCommands
  BY <1>1, HubAssumption
<1>4. conns' \in [Conns -> Waits] /\ \A x \in Conns : Knows(conns'[x])
  BY <1>2 DEF HubInv, HubTypeOK, RoomsKnown, Waits
<1> HIDE DEF task
<1>5. HubInv'
  BY <1>1, <1>4, <1>2, <1>3, TaskKeeps DEF Running, HubInv, HubTypeOK
<1>6. \A i \in DOMAIN task.commands :
        i + 0 \in DOMAIN tasks[t].commands /\ task.commands[i] = tasks[t].commands[i + 0]
  BY <1>3
<1> QED
  BY <1>1, <1>5, <1>6, <1>2, TaskQueue

\* The hub's lock, the drain and main's wait touch no room and no channel.
LEMMA ServerKeeps ==
    ASSUME HubInv, QueueInv, Sigterm \/ Count \/ Await \/ Wake \/ CutShort \/ Shutdown
    PROVE  HubInv' /\ QueueInv'
<1>1. /\ UNCHANGED <<rooms, tasks>>
      /\ draining' \in BOOLEAN /\ permit' \in BOOLEAN
      /\ server' \in {"serving", "counting", "counted", "waiting", "drained", "cut", "down"}
  BY DEF HubInv, HubTypeOK, Sigterm, Count, Await, Wake, CutShort, Shutdown
<1>2. /\ conns' \in [Conns -> Waits] /\ \A x \in Conns : Knows(conns'[x])
      /\ \A x \in Conns : conns[x].at = "joining" => conns'[x] = conns[x]
  <2>1. CASE UNCHANGED conns
    BY <2>1 DEF HubInv, HubTypeOK, RoomsKnown, Waits
  <2>2. CASE Shutdown
    <3>1. \A x \in Conns : conns[x].at = "seated" =>
            [conns[x] EXCEPT !.at = "leaving"] \in Waits /\ Knows([conns[x] EXCEPT !.at = "leaving"])
      BY DEF HubInv, HubTypeOK, RoomsKnown, Knows, Waits
    <3> QED
      BY <2>2, <3>1 DEF Shutdown, HubInv, HubTypeOK, RoomsKnown, Waits
  <2> QED
    BY <2>1, <2>2 DEF Sigterm, Count, Await, Wake, CutShort
<1>3. HubInv'
  <2>1. HubTypeOK'
    BY <1>1, <1>2 DEF HubInv, HubTypeOK, Waits
  <2>2. RoomsKnown'
    BY <1>1, <1>2 DEF RoomsKnown, Knows
  <2> QED
    BY <1>1, <2>1, <2>2, CodesKept DEF Running
<1>4. QueueInv'
  <2>1. ASSUME NEW t \in DOMAIN tasks, NEW i \in DOMAIN tasks[t].commands, Queued(t, i) # None
        PROVE  conns'[Queued(t, i)] = In("joining", t)
    <3>1. Queued(t, i) \in Conns /\ conns[Queued(t, i)] = In("joining", t)
      BY <2>1, TaskFacts
    <3>2. conns[Queued(t, i)].at = "joining"
      BY <3>1 DEF In
    <3> QED
      BY <1>2, <3>1, <3>2
  <2> QED
    BY <1>1, <2>1 DEF QueueInv, Queued
<1> QED
  BY <1>3, <1>4

\* Every step of the server keeps the invariant.
LEMMA HubInvStep == HubInv /\ QueueInv /\ [HubNext]_hubVars => HubInv' /\ QueueInv'
<1> SUFFICES ASSUME HubInv, QueueInv, [HubNext]_hubVars PROVE HubInv' /\ QueueInv'
  OBVIOUS
<1>1. ASSUME NEW c \in Conns, ConnStep(c) PROVE HubInv' /\ QueueInv'
  BY <1>1, ConnStepKeeps, ConnStepQueue
<1>2. ASSUME NEW t \in DOMAIN tasks, RoomStep(t) PROVE HubInv' /\ QueueInv'
  BY <1>2, ServeKeeps, BreakKeeps, RemoveKeeps, RemoveQueue, NotifyKeeps, ReturnKeeps DEF RoomStep
<1>3. CASE Sigterm \/ Count \/ Await \/ Wake \/ CutShort \/ Shutdown
  BY <1>3, ServerKeeps
<1>4. CASE UNCHANGED hubVars
  <2>1. UNCHANGED <<rooms, tasks, conns, draining, permit, server>>
    BY <1>4 DEF hubVars
  <2>2. HubInv'
    BY <2>1 DEF HubInv, HubTypeOK, RoomsKnown, Knows, RoomCount, CodesNameRooms
  <2>3. QueueInv'
    BY <2>1 DEF QueueInv, Queued
  <2> QED
    BY <2>2, <2>3
<1> QED
  BY <1>1, <1>2, <1>3, <1>4 DEF HubNext

\* What the hub's lock and the channels keep, in every reachable state.
THEOREM HubInvariant == HubSpec => [](HubInv /\ QueueInv)
<1>1. HubInit => HubInv /\ QueueInv
  BY HubInvInit, QueueInvInit
<1>2. HubInv /\ QueueInv /\ [HubNext]_hubVars => (HubInv /\ QueueInv)'
  BY HubInvStep
<1> QED
  BY <1>1, <1>2, PTL DEF HubSpec

\* The server's state is always of its type.
THEOREM HubTypeCorrect == HubSpec => []HubTypeOK
<1>1. HubInv => HubTypeOK
  BY DEF HubInv
<1> QED
  BY HubInvariant, <1>1, PTL

\* A code always names the one room that runs under it: codes are reused,
\* and no room's end unlists another's.
THEOREM CodesAlwaysNameRooms == HubSpec => []CodesNameRooms
<1>1. HubInv => CodesNameRooms
  BY DEF HubInv
<1> QED
  BY HubInvariant, <1>1, PTL

\* The rooms running are as many as the codes in use.
LEMMA CapFromCodes == HubInv => CapHeld
<1> SUFFICES ASSUME HubInv PROVE CapHeld
  OBVIOUS
<1> DEFINE Live == {t \in DOMAIN tasks : tasks[t].at \in {"running", "closing"}}
           code == [t \in Live |-> tasks[t].code]
<1>1. IsFiniteSet(DOMAIN rooms)
  BY HubAssumption, FS_Subset DEF HubInv, HubTypeOK
<1>2. code \in Injection(Live, DOMAIN rooms)
  BY DEF HubInv, CodesNameRooms, Injection, IsInjective
<1>3. Cardinality(Live) <= Cardinality(DOMAIN rooms) /\ IsFiniteSet(Live)
  BY <1>1, <1>2, FS_Injection
<1>4. Cardinality(Live) \in Nat /\ Cardinality(DOMAIN rooms) \in Nat
  BY <1>1, <1>3, FS_CardinalityType
<1> QED
  BY <1>3, <1>4, HubAssumption DEF HubInv, RoomCount, CapHeld

\* A server never holds more rooms than its cap, however creates, drains and
\* the ends of rooms race.
THEOREM CapAlwaysHeld == HubSpec => []CapHeld
  BY HubInvariant, CapFromCodes, PTL
=============================================================================
