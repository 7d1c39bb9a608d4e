------------------------------ MODULE Mailbox ------------------------------
(***************************************************************************)
(* A seat's intents between the socket and the tick                        *)
(* (src/net/mailbox.rs).  The connection posts them, the room's tick reads *)
(* one merged intent, and a lock makes either a single step.               *)
(*                                                                         *)
(* An intent is the client's tick, the trigger and whether it carries a    *)
(* pose; poses are abstracted to the tick they are of.  A server-driven    *)
(* seat's intents are applied one a read in order.  An owned seat's are    *)
(* played out on the room's clock: the play point moves on one client tick *)
(* a read, and a controller holds it or moves it on two where the link     *)
(* asks for it.                                                            *)
(*                                                                         *)
(* Time is counted in periods of the tick.  The reticle, the lamp key and  *)
(* the hold report ride along with the trigger and are left out, and so is *)
(* the u32 wrap of a tick, 2.2 years into a connection.                    *)
(***************************************************************************)
EXTENDS Integers, FiniteSets, FiniteSetsExt

CONSTANTS
    BufferMax,       \* BUFFER_MAX
    IntentCoast,     \* INTENT_COAST, in periods
    DeadReckonTicks, \* DEAD_RECKON_TICKS
    ReachTicksMax,   \* REACH_TICKS_MAX
    ReachSpareTicks, \* REACH_SPARE_TICKS
    PlayoutWindow,   \* PLAYOUT_WINDOW_TICKS
    WidenMisses,     \* PLAYOUT_WIDEN_MISSES
    NarrowAhead,     \* PLAYOUT_NARROW_AHEAD
    None

ASSUME MailboxAssumption ==
    /\ {BufferMax, IntentCoast, PlayoutWindow, WidenMisses} \subseteq Nat \ {0}
    /\ {DeadReckonTicks, ReachTicksMax, ReachSpareTicks, NarrowAhead} \subseteq Nat
    /\ None \notin Int /\ None \notin [tick : Nat, fire : BOOLEAN, owned : BOOLEAN]
    /\ None \notin [down : BOOLEAN, press : Nat \cup {None}, through : Nat \cup {None}]

VARIABLES
    inner, \* Inner, behind the mailbox's lock
    read   \* the intent the last tick's read handed the round, or None

mailboxVars == <<inner, read>>

\* One seat's intent as the wire carries it.
Intent(tick, fire, owned) == [tick |-> tick, fire |-> fire, owned |-> owned]

Window == [reads |-> 0, misses |-> 0, ahead |-> 0, ahead_max |-> 0]

\* Inner::default
Empty == [
    queue |-> {}, last |-> None, applied |-> None,
    silent |-> None, \* periods since `posted`
    last_starved |-> FALSE, starved_run |-> 0, reach |-> 0,
    delivered |-> FALSE, owed_press |-> None, press |-> None, folded |-> None,
    newest_posted |-> None, play |-> None, next_step |-> 0, window |-> Window,
    reads_since_apply |-> 0,
    wall |-> None]   \* periods since `applied_at`, of the last owned pose

----------------------------------------------------------------------------
(***************************************************************************)
(* The trigger.                                                            *)
(***************************************************************************)

Newest(msgs) == CHOOSE m \in msgs : \A n \in msgs : n.tick <= m.tick
Oldest(msgs) == CHOOSE m \in msgs : \A n \in msgs : m.tick <= n.tick

Smaller(a, b) == IF a < b THEN a ELSE b
Larger(a, b) == IF a > b THEN a ELSE b

\* Inner::own_down
OwnDown(b) == b.last # None /\ b.last.fire

\* The trigger before m, along these intents from `down`.
DownBefore(m, msgs, down) ==
    LET earlier == {n \in msgs : n.tick < m.tick}
    IN  IF earlier = {} THEN down ELSE Newest(earlier).fire

\* The presses among these intents: down after up.
Presses(msgs, down) ==
    {m.tick : m \in {n \in msgs : n.fire /\ ~DownBefore(n, msgs, down)}}

\* Scan::from
ScanFrom(down) == [down |-> down, press |-> None, through |-> None]

\* Scan::step along these intents: where the trigger ended, the first press.
Scan(scan, msgs) ==
    LET presses == Presses(msgs, scan.down)
    IN  IF msgs = {} THEN scan
        ELSE [down |-> Newest(msgs).fire,
              press |-> IF scan.press = None /\ presses # {} THEN Min(presses) ELSE scan.press,
              through |-> Newest(msgs).tick]

\* Mutant: a press the round cannot see yet is not owed to the next read.
DeliverUnowed(b, press, own) ==
    IF press # None THEN [b EXCEPT !.delivered = TRUE, !.press = press]
                    ELSE [b EXCEPT !.delivered = own, !.press = None]

\* Inner::deliver
Deliver(b, press, own) ==
    CASE b.owed_press # None ->
           [b EXCEPT !.delivered = TRUE, !.press = b.owed_press, !.owed_press = None]
      [] b.owed_press = None /\ press # None /\ ~b.delivered ->
           [b EXCEPT !.delivered = TRUE, !.press = press]
      [] b.owed_press = None /\ press # None /\ b.delivered ->
           [b EXCEPT !.delivered = FALSE, !.press = None, !.owed_press = press]
      [] OTHER ->
           [b EXCEPT !.delivered = own, !.press = None]

----------------------------------------------------------------------------
(***************************************************************************)
(* Posting.                                                                *)
(***************************************************************************)

\* The oldest owned intents past BufferMax give up their pose and fold their
\* trigger into the next read's.
Fold(b, dropped) ==
    LET owned == {m \in dropped : m.owned}
    IN  IF owned = {} THEN b
        ELSE [b EXCEPT !.folded = Scan(IF @ = None THEN ScanFrom(OwnDown(b)) ELSE @, owned)]

\* Mutant: only what was folded away is refused.
StragglerFolded(b, m) == b.folded # None /\ m.tick <= b.folded.through

\* An intent for a tick already applied or folded away is a straggler.
Straggler(b, m) ==
    \/ b.applied # None /\ m.tick <= b.applied
    \/ b.folded # None /\ m.tick <= b.folded.through

\* Mailbox::post
Posted(b, m) ==
    LET heard == [b EXCEPT !.silent = 0,
                           !.newest_posted = IF @ = None THEN m.tick ELSE Larger(@, m.tick)]
        queue == {n \in b.queue : n.tick # m.tick} \cup {m}
        over == {n \in queue : Cardinality({o \in queue : o.tick > n.tick}) >= BufferMax}
    IN  IF Straggler(b, m) THEN heard
        ELSE Fold([heard EXCEPT !.queue = queue \ over], over)

----------------------------------------------------------------------------
(***************************************************************************)
(* Reading an owned seat's.                                                *)
(***************************************************************************)

\* The room's own time since the pose last applied.
RoomTime(b) == Larger(b.reads_since_apply, b.wall)

\* The next tick of the client's, or on the first read whatever is waiting.
NextPlay(b) == IF b.play # None THEN b.play + b.next_step ELSE Newest(b.queue).tick

\* Mutant: the point is never moved up to what is waiting.
CaughtUpNever(b, play) == play

\* BufferMax behind the newest, the point's own tick has been dropped: it
\* starts again behind the newest where the room's own time covers that, and
\* otherwise on the oldest intent waiting.
CaughtUp(b, play) ==
    LET newest == IF b.newest_posted = None THEN play ELSE b.newest_posted
        restart == newest - 1
        covered == \/ b.applied = None \/ b.wall = None
                   \/ RoomTime(b) + 1 + ReachSpareTicks >= restart - b.applied
    IN  IF newest < play + BufferMax THEN play
        ELSE IF covered \/ b.queue = {} THEN restart
        ELSE Smaller(Oldest(b.queue).tick, restart)

\* Inner::watch_playout: the end of a window may hold the point for a read
\* or move it on two.
Watch(b, ahead, missed) ==
    LET w == b.window
        first == w.reads = 0
        seen == [reads |-> w.reads + 1,
                 misses |-> w.misses + (IF missed THEN 1 ELSE 0),
                 ahead |-> IF first THEN ahead ELSE Smaller(w.ahead, ahead),
                 ahead_max |-> IF first THEN ahead ELSE Larger(w.ahead_max, ahead)]
        step == CASE seen.misses >= WidenMisses /\ seen.ahead_max < BufferMax - 1 -> 0
                  [] seen.misses < WidenMisses /\ seen.ahead >= NarrowAhead -> 2
                  [] OTHER -> b.next_step
    IN  IF seen.reads < PlayoutWindow THEN [b EXCEPT !.window = seen]
        ELSE [b EXCEPT !.window = [seen EXCEPT !.reads = 0, !.misses = 0], !.next_step = step]

\* Mutant: a starved tick lets the trigger up.
StarveReleased(b) ==
    LET starved == [b EXCEPT !.last_starved = TRUE, !.starved_run = @ + 1]
    IN  IF b.last = None THEN starved ELSE Deliver([starved EXCEPT !.reach = 1], None, FALSE)

\* Inner::starve, and Inner::reckon with it.
Starve(b) ==
    LET starved == [b EXCEPT !.last_starved = TRUE, !.starved_run = @ + 1]
    IN  IF b.last = None THEN starved
        ELSE Deliver([starved EXCEPT !.reach = 1], None, b.last.fire)

\* Mutant: a read is believed for one tick, the one that ends a stall too.
ReachOneTick(b, driven) == 1

\* How many ticks of the client's driving the pose read is believed for.
Reach(b, driven) ==
    LET guessed == Smaller(b.starved_run, DeadReckonTicks)
        elapsed == IF b.wall = None THEN ReachTicksMax ELSE RoomTime(b) + ReachSpareTicks
    IN  Larger(1, Smaller(ReachTicksMax, Smaller(driven + guessed, elapsed)))

\* The client's driving from the intent last applied to the newest taken.
Driven(b, taken) ==
    IF b.applied = None THEN Newest(taken).tick - Oldest(taken).tick + 1
                        ELSE Newest(taken).tick - b.applied

\* Every intent at or before the play point, merged into the newest of them.
Merge(b, taken) ==
    LET newest == Newest(taken)
        scan == Scan(IF b.folded = None THEN ScanFrom(OwnDown(b)) ELSE b.folded, taken)
        applied == [b EXCEPT
            !.folded = None,
            !.play = IF newest.tick + NarrowAhead < @ THEN newest.tick ELSE @,
            !.reach = Reach(b, Driven(b, taken)),
            !.applied = newest.tick, !.wall = 0, !.reads_since_apply = 0,
            !.last = newest, !.last_starved = FALSE, !.starved_run = 0]
    IN  Deliver(applied, scan.press, newest.fire)

\* Inner::read_owned
ReadOwned(b) ==
    LET play == CaughtUp(b, NextPlay(b))
        taken == {m \in b.queue : m.tick <= play}
        newest == IF b.newest_posted = None THEN play ELSE b.newest_posted
        missed == taken = {} /\ b.next_step > 0 /\ newest < play
        moved == Watch([b EXCEPT !.next_step = 1, !.play = play, !.queue = @ \ taken,
                                 !.reads_since_apply = @ + 1], newest - play, missed)
    IN  CASE b.play = None /\ b.queue = {} -> Starve([b EXCEPT !.next_step = 1])
          [] (b.play # None \/ b.queue # {}) /\ taken = {} -> Starve(moved)
          [] OTHER -> Merge(moved, taken)

----------------------------------------------------------------------------
(***************************************************************************)
(* Reading a server-driven seat's, and reading at all.                     *)
(***************************************************************************)

\* Mutant: the newest is taken and the rest left behind.
TakeNewest(b) ==
    LET m == Newest(b.queue)
    IN  [b EXCEPT !.queue = {}, !.applied = m.tick, !.last = m,
                  !.last_starved = FALSE, !.starved_run = 0, !.reach = 1, !.folded = None,
                  !.owed_press = None, !.play = None,
                  !.press = IF m.fire /\ ~b.delivered THEN m.tick ELSE None,
                  !.delivered = m.fire]

\* The oldest intent waiting, as sent.
TakeOldest(b) ==
    LET m == Oldest(b.queue)
    IN  [b EXCEPT !.queue = @ \ {m}, !.applied = m.tick, !.last = m,
                  !.last_starved = FALSE, !.starved_run = 0, !.reach = 1,
                  !.folded = None, !.owed_press = None, !.play = None,
                  !.press = IF m.fire /\ ~b.delivered THEN m.tick ELSE None,
                  !.delivered = m.fire]

StarveOrdered(b) ==
    [b EXCEPT !.last_starved = TRUE, !.starved_run = @ + 1, !.press = None, !.reach = 1]

\* The newest intent waiting says whose the hull is, or the last applied.
IsOwned(b) ==
    IF b.queue # {} THEN Newest(b.queue).owned ELSE b.last # None /\ b.last.owned

CoastedOut(b) == b.silent # None /\ b.silent > IntentCoast

\* Mailbox::read
ReadBox(b) ==
    CASE b.silent = None -> b
      [] CoastedOut(b) -> [b EXCEPT !.play = None]
      [] b.silent # None /\ ~CoastedOut(b) /\ IsOwned(b) -> ReadOwned(b)
      [] b.silent # None /\ ~CoastedOut(b) /\ ~IsOwned(b) /\ b.queue # {} -> TakeOldest(b)
      [] OTHER -> StarveOrdered(b)

\* What that read returns, `after` it.  The intents of a server-driven seat
\* are handed over as sent, and as sent again; an owned seat's carry the
\* trigger `deliver` chose.
ReadOf(before, after) ==
    IF before.silent = None \/ CoastedOut(before) \/ after.last = None THEN None
    ELSE IF IsOwned(before) THEN [after.last EXCEPT !.fire = after.delivered]
    ELSE after.last

----------------------------------------------------------------------------
(***************************************************************************)
(* The mailbox's operations, each under its lock.                          *)
(***************************************************************************)

MailboxInit == inner = Empty /\ read = None

Post(m) == inner' = Posted(inner, m) /\ UNCHANGED read

Read == inner' = ReadBox(inner) /\ read' = ReadOf(inner, inner')

\* Mailbox::clear; the seat reads as no input from the next tick.
Clear == inner' = Empty /\ UNCHANGED read

\* A period of the room's tick goes by.
Age ==
    /\ inner' = [inner EXCEPT !.silent = IF @ = None THEN None ELSE Smaller(@ + 1, IntentCoast + 1),
                              !.wall = IF @ = None THEN None ELSE @ + 1]
    /\ UNCHANGED read
=============================================================================
