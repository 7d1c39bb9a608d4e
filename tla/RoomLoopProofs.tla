--------------------------- MODULE RoomLoopProofs ---------------------------
(***************************************************************************)
(* What RoomLoop promises of its instants, for every period, catch-up,     *)
(* notice and cost of a tick: the schedule is never further behind than    *)
(* its catch-up allows, and no deadline waits longer than one tick.        *)
(*                                                                         *)
(* The lag is not inductive: a deadline that has passed must also be one   *)
(* the next tick will not run before.  That is DeadlineNext: only a tick   *)
(* leaves a deadline in the past, and from there either the relief or the  *)
(* select's other arms come first.                                         *)
(***************************************************************************)
EXTENDS RoomLoop, TLAPS

\* Where a deadline has been overrun, a tick did it, or no tick is due.
DeadlineNext ==
    open /\ deadline # None /\ deadline < 0 => ticked \/ ~Passed(due)

LoopInv == LoopTypeOK /\ DeadlineLag /\ DeadlineNext

\* The bounds of the constants.
LEMMA LongestBounds ==
    /\ Longest \in Nat
    /\ \A cost \in TickCosts : cost \in Nat /\ cost <= Longest
<1>1. PICK longest \in TickCosts : \A cost \in TickCosts : cost <= longest
    BY LoopAssumption
<1>2. Longest \in TickCosts /\ \A cost \in TickCosts : cost <= Longest
    BY <1>1 DEF Longest
<1> QED
    BY <1>2, LoopAssumption

LEMMA ConstantTypes ==
    /\ Period \in Nat /\ Period > 0
    /\ Notice \in Nat /\ Notice > 0
    /\ RoomCommands \in Nat /\ RoomCommands > 0
    /\ CommandRate \in Nat /\ CommandRate > 0
    /\ CatchUpTicks \in Nat
    /\ None \notin Int
BY LoopAssumption

\* Products of naturals are ordered by either factor.
LEMMA TimesMonotone ==
    ASSUME NEW a \in Nat, NEW b \in Nat, NEW c \in Nat, a <= b
    PROVE  a * c <= b * c /\ a * c \in Nat
<1>1. (b - a) * c >= 0 /\ (b - a) * c = b * c - a * c
    OBVIOUS
<1> QED
    BY <1>1

\* With no more ticks owed than the catch-up runs, the next is no further
\* behind than that many periods; with more, it is a period from now.
LEMMA FireBounds ==
    ASSUME NEW d \in Int, d <= 0
    PROVE  Fire(d) \in Int /\ -(CatchUpTicks * Period) <= Fire(d) /\ Fire(d) <= Period
<1> USE ConstantTypes
<1> DEFINE next == d + Period
           missed == (-next) \div Period
           owed == IF next > 0 THEN 0 ELSE missed + 1
<1>1. next \in Int /\ next <= Period
    OBVIOUS
<1>2. CatchUpTicks * Period \in Nat
    BY TimesMonotone
<1>3. CASE owed > CatchUpTicks
    BY <1>2, <1>3 DEF Fire
<1>4. CASE ~(owed > CatchUpTicks)
    <2>1. Fire(d) = next
        BY <1>4 DEF Fire
    <2>2. CASE next > 0
        BY <2>1, <2>2, <1>1, <1>2
    <2>3. CASE ~(next > 0)
        <3>1. -next \in Nat
            BY <2>3, <1>1
        <3> HIDE DEF next
        <3>2. missed \in Nat /\ -next < (missed + 1) * Period
            BY <3>1
        <3>3. missed + 1 <= CatchUpTicks
            BY <1>4, <2>3, <3>2
        <3>4. (missed + 1) * Period <= CatchUpTicks * Period
            BY <3>2, <3>3, TimesMonotone
        <3> QED
            BY <2>1, <3>1, <3>2, <3>4, <1>1, <1>2
    <2> QED
        BY <2>2, <2>3
<1> QED
    BY <1>3, <1>4

\* What the schedule makes of an instant in its range is in its range.
LEMMA ScheduleBounds ==
    ASSUME LoopTypeOK
    PROVE  /\ Schedule \in Int \cup {None}
           /\ Schedule # None => Schedule \in -(CatchUpTicks * Period + Longest)..Period
           /\ Passed(Schedule) => due # None /\ Passed(due) /\ Schedule = due
           /\ due # None /\ Schedule # None => Schedule = due
<1>1. CatchUpTicks * Period \in Nat
    BY ConstantTypes, TimesMonotone
<1> QED
    BY <1>1, ConstantTypes, LongestBounds DEF LoopTypeOK, Schedule, Passed

LEMMA LoopInvInit == LoopInit => LoopInv
<1> SUFFICES ASSUME LoopInit PROVE LoopInv
    OBVIOUS
<1>2. {ticking, ticked, open} \subseteq BOOLEAN
    BY DEF LoopInit
<1>3. due \in Int \cup {None} /\ due = None
    BY DEF LoopInit
<1>4. deadline \in Int \cup {None} /\ deadline = Notice
    BY ConstantTypes DEF LoopInit
<1>5. /\ drain \in {"none", "sent", "taken"}
      /\ served \in {"nothing", "relief", "drain", "tick", "command", "deadline"}
    BY DEF LoopInit
<1>6. waiting \in 0..RoomCommands /\ mine \in 0..waiting /\ budget \in 0..CommandRate
    BY ConstantTypes DEF LoopInit
<1>7. DeadlineLag /\ DeadlineNext
    BY <1>4, ConstantTypes, LongestBounds DEF DeadlineLag, DeadlineNext
<1> QED
    BY <1>2, <1>3, <1>4, <1>5, <1>6, <1>7 DEF LoopInv, LoopTypeOK

\* The room a turn's handlers leave: its deadline the one there was, or one
\* that falls due no earlier than now.
LEMMA HandledRoom ==
    ASSUME LoopTypeOK, NEW room \in Handled
    PROVE  /\ room.ticking \in BOOLEAN
           /\ room.deadline \in Int \cup {None}
           /\ room.deadline \in {deadline, None} \/ room.deadline >= 0
BY ConstantTypes DEF LoopTypeOK, Handled, Deadlines, Passed

\* A deadline that is looked at is served or is not passed.
LEMMA OnDeadlineServes ==
    ASSUME NEW room, room.ticking \in BOOLEAN, room.deadline \in Int \cup {None},
           open \in BOOLEAN, OnDeadline(room)
    PROVE  /\ ticking' \in BOOLEAN /\ open' \in BOOLEAN
           /\ deadline' \in Int \cup {None}
           /\ open' => ~Passed(deadline')
<1>1. CASE Becomes(room) /\ open' = FALSE
    BY <1>1 DEF Becomes
<1>2. CASE (\E t \in Deadlines : Becomes([ticking |-> FALSE, deadline |-> t])) /\ UNCHANGED open
    <2>1. PICK t \in Deadlines : Becomes([ticking |-> FALSE, deadline |-> t])
        BY <1>2
    <2>2. ticking' = FALSE /\ deadline' = t /\ open' = open
        BY <1>2, <2>1 DEF Becomes
    <2>3. t \in Int \cup {None} /\ ~Passed(t)
        BY ConstantTypes DEF Deadlines, Passed
    <2> QED
        BY <2>2, <2>3
<1>3. CASE ~Passed(room.deadline) /\ Becomes(room) /\ UNCHANGED open
    BY <1>3 DEF Becomes
<1> QED
    BY <1>1, <1>2, <1>3 DEF OnDeadline

\* A command out of the channel leaves the rest of it in order.
LEMMA TakenBounds ==
    ASSUME waiting \in 0..RoomCommands, mine \in 0..waiting, waiting > 0, Taken
    PROVE  waiting' \in 0..RoomCommands /\ mine' \in 0..waiting'
BY ConstantTypes DEF Taken

\* The relief serves a passed deadline, whatever command came with it: one the
\* command itself makes due is left, and no later than now.
LEMMA ReliefServes ==
    ASSUME LoopTypeOK, Relief(Schedule)
    PROVE  /\ ticking' \in BOOLEAN /\ open' \in BOOLEAN
           /\ deadline' \in Int \cup {None}
           /\ open' /\ deadline' # None => deadline' >= 0
           /\ waiting' \in 0..RoomCommands /\ mine' \in 0..waiting'
<1>1. \A room : /\ room.ticking \in BOOLEAN /\ room.deadline \in Int \cup {None}
                /\ room.deadline \in {deadline, None} \/ room.deadline >= 0
                /\ ReliefDeadline(room)
                => /\ ticking' \in BOOLEAN /\ open' \in BOOLEAN
                   /\ deadline' \in Int \cup {None}
                   /\ open' /\ deadline' # None => deadline' >= 0
    <2> SUFFICES ASSUME NEW room,
                        room.ticking \in BOOLEAN, room.deadline \in Int \cup {None},
                        room.deadline \in {deadline, None} \/ room.deadline >= 0,
                        ReliefDeadline(room)
                 PROVE  /\ ticking' \in BOOLEAN /\ open' \in BOOLEAN
                        /\ deadline' \in Int \cup {None}
                        /\ open' /\ deadline' # None => deadline' >= 0
        OBVIOUS
    <2>1. open \in BOOLEAN
        BY DEF LoopTypeOK
    <2>2. CASE Passed(deadline)
        BY <2>1, <2>2, OnDeadlineServes DEF ReliefDeadline, Passed
    <2>3. CASE ~Passed(deadline)
        BY <2>1, <2>3 DEF ReliefDeadline, Becomes, Passed
    <2> QED
        BY <2>2, <2>3
<1>2. CASE waiting > 0
    <2>1. PICK room \in Handled : ReliefDeadline(room)
        BY <1>2 DEF Relief
    <2>2. Taken
        BY <1>2 DEF Relief
    <2> QED
        BY <2>1, <2>2, <1>1, <1>2, HandledRoom, TakenBounds DEF LoopTypeOK
<1>3. CASE ~(waiting > 0)
    <2>1. ReliefDeadline(TheRoom) /\ Untaken
        BY <1>3 DEF Relief
    <2>2. TheRoom.ticking \in BOOLEAN /\ TheRoom.deadline = deadline /\ deadline \in Int \cup {None}
        BY DEF TheRoom, LoopTypeOK
    <2> QED
        BY <2>1, <2>2, <1>1 DEF Untaken, LoopTypeOK
<1> QED
    BY <1>2, <1>3

\* A turn or an arrival that leaves the channel as it was.
LEMMA UntakenBounds ==
    ASSUME LoopTypeOK, Untaken
    PROVE  waiting' \in 0..RoomCommands /\ mine' \in 0..waiting'
BY DEF LoopTypeOK, Untaken

\* Every turn, every arrival and the drain's signal keep the invariant.
LEMMA LoopInvStep == LoopInv /\ [LoopNext]_loopVars => LoopInv'
<1> SUFFICES ASSUME LoopInv, [LoopNext]_loopVars PROVE LoopInv'
    OBVIOUS
<1> DEFINE d == Schedule
           Furthest == CatchUpTicks * Period + Longest
<1>0. /\ LoopTypeOK /\ DeadlineLag /\ DeadlineNext
      /\ CatchUpTicks * Period \in Nat
      /\ ticking \in BOOLEAN /\ ticked \in BOOLEAN /\ open \in BOOLEAN
      /\ deadline \in Int \cup {None}
      /\ drain \in {"none", "sent", "taken"} /\ budget \in 0..CommandRate
    BY ConstantTypes, TimesMonotone DEF LoopInv, LoopTypeOK
<1>d. /\ d \in Int \cup {None}
      /\ d # None => d \in -Furthest..Period
      /\ Passed(d) => Passed(due)
    BY <1>0, ScheduleBounds
<1> HIDE DEF d
<1>1. ASSUME open, Relief(d) PROVE LoopInv'
    <2>1. /\ ticking' \in BOOLEAN /\ open' \in BOOLEAN
          /\ deadline' \in Int \cup {None} /\ (open' /\ deadline' # None => deadline' >= 0)
          /\ waiting' \in 0..RoomCommands /\ mine' \in 0..waiting'
        BY <1>0, <1>1, ReliefServes DEF d
    <2>2. ticked' = FALSE /\ due' = d /\ served' = "relief" /\ drain' = drain /\ budget' = budget
        BY <1>1 DEF Relief, ReliefOver
    <2>3. LoopTypeOK'
        BY <2>1, <2>2, <1>0, <1>d DEF LoopTypeOK
    <2>4. DeadlineLag' /\ DeadlineNext'
        BY <2>1, LongestBounds DEF DeadlineLag, DeadlineNext, Passed
    <2> QED
        BY <2>3, <2>4 DEF LoopInv
<1>2. ASSUME open, ~Late(d), BeginDrain(d) PROVE LoopInv'
    <2>1. /\ due' = d /\ ticked' = FALSE /\ served' = "drain" /\ drain' = "taken"
          /\ ticking' = ticking /\ budget' = budget /\ open' = open
          /\ deadline' \in {0, deadline} \cup Deadlines
        BY <1>2 DEF BeginDrain
    <2>2. waiting' \in 0..RoomCommands /\ mine' \in 0..waiting'
        BY <1>0, <1>2, UntakenBounds DEF BeginDrain
    <2>3. deadline' \in Int \cup {None} /\ (deadline' # None /\ deadline' < 0 => deadline' = deadline)
        BY <2>1, <1>0, ConstantTypes DEF Deadlines
    <2>4. LoopTypeOK'
        BY <2>1, <2>2, <2>3, <1>0, <1>d DEF LoopTypeOK
    <2>5. DeadlineLag'
        BY <2>1, <2>3, <1>0, LongestBounds DEF DeadlineLag
    <2>6. DeadlineNext'
        BY <2>1, <2>3, <1>0, <1>2, <1>d DEF DeadlineNext, Late
    <2> QED
        BY <2>4, <2>5, <2>6 DEF LoopInv
<1>3. ASSUME open, ~Late(d), ScheduledTick(d) PROVE LoopInv'
    <2>1. Passed(d) /\ d \in Int /\ d <= 0 /\ ~ticked
        BY <1>3, <1>d DEF ScheduledTick, TickTurn, Late, Passed
    <2>2. deadline # None => deadline \in Int /\ deadline >= 0
        BY <1>0, <1>3, <1>d, <2>1 DEF DeadlineNext
    <2>3. PICK cost \in TickCosts :
            /\ due' = Fire(d) - cost
            /\ budget' = IF cost = 0 THEN budget ELSE CommandRate
            /\ \/ ticking' = TRUE /\ deadline' = Later(deadline, cost)
               \/ ticking' = FALSE /\ deadline' \in {Later(t, cost) : t \in Deadlines}
        BY <1>3 DEF ScheduledTick
    <2>4. cost \in Nat /\ cost <= Longest /\ Longest \in Nat
        BY LongestBounds
    <2>5. /\ ticked' = TRUE /\ served' = "tick" /\ drain' = drain /\ open' = open
          /\ waiting' \in 0..RoomCommands /\ mine' \in 0..waiting'
        BY <1>0, <1>3, UntakenBounds DEF ScheduledTick
    <2>6. due' \in Int /\ due' \in -Furthest..Period
        <3>1. Fire(d) \in Int /\ -(CatchUpTicks * Period) <= Fire(d) /\ Fire(d) <= Period
            BY <2>1, FireBounds
        <3> QED
            BY <3>1, <2>3, <2>4, <1>0, ConstantTypes
    <2>7. /\ ticking' \in BOOLEAN
          /\ deadline' \in Int \cup {None}
          /\ deadline' # None => deadline' >= -Longest
        <3>1. \A t : /\ t \in Int \cup {None} /\ (t # None => t >= 0)
                     => /\ Later(t, cost) \in Int \cup {None}
                        /\ Later(t, cost) # None => Later(t, cost) >= -Longest
            BY <2>4, ConstantTypes DEF Later
        <3>2. \A t \in Deadlines : t \in Int \cup {None} /\ (t # None => t >= 0)
            BY ConstantTypes DEF Deadlines
        <3>3. deadline \in Int \cup {None} /\ (deadline # None => deadline >= 0)
            BY <1>0, <2>2
        <3> QED
            BY <2>3, <3>1, <3>2, <3>3
    <2>8. budget' \in 0..CommandRate
        BY <2>3, <1>0, ConstantTypes
    <2>9. LoopTypeOK'
        BY <2>5, <2>6, <2>7, <2>8, <1>0 DEF LoopTypeOK
    <2>10. DeadlineLag' /\ DeadlineNext'
        BY <2>5, <2>7 DEF DeadlineLag, DeadlineNext
    <2> QED
        BY <2>9, <2>10 DEF LoopInv
<1>4. ASSUME open, ServeCommand(d) PROVE LoopInv'
    <2>1. /\ due' = d /\ ticked' = FALSE /\ served' = "command" /\ drain' = drain
          /\ budget' = budget /\ open' = open /\ ~Passed(d) /\ waiting > 0 /\ Taken
        BY <1>4 DEF ServeCommand, CommandTurn
    <2>2. PICK room \in Handled : Becomes(room)
        BY <1>4 DEF ServeCommand
    <2>3. /\ ticking' \in BOOLEAN /\ deadline' \in Int \cup {None}
          /\ deadline' \in {deadline, None} \/ deadline' >= 0
        BY <1>0, <2>2, HandledRoom DEF Becomes
    <2>4. waiting' \in 0..RoomCommands /\ mine' \in 0..waiting'
        BY <1>0, <2>1, TakenBounds DEF LoopTypeOK
    <2>5. LoopTypeOK'
        BY <2>1, <2>3, <2>4, <1>0, <1>d DEF LoopTypeOK
    <2>6. DeadlineLag'
        BY <2>1, <2>3, <1>0, LongestBounds DEF DeadlineLag, Passed
    <2>7. DeadlineNext'
        BY <2>1 DEF DeadlineNext
    <2> QED
        BY <2>5, <2>6, <2>7 DEF LoopInv
<1>5. ASSUME open, ServeDeadline(d) PROVE LoopInv'
    <2>1. /\ due' = d /\ ticked' = FALSE /\ served' = "deadline" /\ drain' = drain
          /\ budget' = budget /\ OnDeadline(TheRoom)
        BY <1>5 DEF ServeDeadline
    <2>2. TheRoom.ticking \in BOOLEAN /\ TheRoom.deadline \in Int \cup {None}
        BY <1>0 DEF TheRoom
    <2>3. /\ ticking' \in BOOLEAN /\ open' \in BOOLEAN
          /\ deadline' \in Int \cup {None} /\ (open' => ~Passed(deadline'))
        BY <1>0, <2>1, <2>2, OnDeadlineServes
    <2>4. waiting' \in 0..RoomCommands /\ mine' \in 0..waiting'
        BY <1>0, <1>5, UntakenBounds DEF ServeDeadline
    <2>5. LoopTypeOK'
        BY <2>1, <2>3, <2>4, <1>0, <1>d DEF LoopTypeOK
    <2>6. DeadlineLag' /\ DeadlineNext'
        BY <2>3, LongestBounds DEF DeadlineLag, DeadlineNext, Passed
    <2> QED
        BY <2>5, <2>6 DEF LoopInv
<1>6. ASSUME open, Wait(d) PROVE LoopInv'
    <2>1. /\ due' = Later(d, 1) /\ deadline' = Later(deadline, 1) /\ budget' = CommandRate
          /\ ticked' = FALSE /\ served' = "nothing" /\ ticking' = ticking
          /\ drain' = drain /\ open' = open /\ ~Passed(d) /\ ~Passed(deadline)
        BY <1>6 DEF Wait, WaitTurn
    <2>2. waiting' \in 0..RoomCommands /\ mine' \in 0..waiting'
        BY <1>0, <1>6, UntakenBounds DEF Wait
    <2>3. due' \in Int \cup {None} /\ (due' # None => due' \in -Furthest..Period)
        BY <2>1, <1>0, <1>d, ConstantTypes, LongestBounds DEF Later, Passed
    <2>4. deadline' \in Int \cup {None} /\ (deadline' # None => deadline' >= 0)
        BY <2>1, <1>0, ConstantTypes DEF Later, Passed
    <2>5. LoopTypeOK'
        <3>1. budget' \in 0..CommandRate
            BY <2>1, ConstantTypes
        <3> QED
            BY <2>1, <2>2, <2>3, <2>4, <3>1, <1>0 DEF LoopTypeOK
    <2>6. DeadlineLag' /\ DeadlineNext'
        BY <2>4, LongestBounds DEF DeadlineLag, DeadlineNext
    <2> QED
        BY <2>5, <2>6 DEF LoopInv
<1>7. ASSUME Arrive PROVE LoopInv'
    <2>1. /\ ticking' = ticking /\ due' = due /\ ticked' = ticked /\ deadline' = deadline
          /\ drain' = drain /\ open' = open /\ served' = served
          /\ waiting < RoomCommands /\ waiting' = waiting + 1
          /\ budget > 0 /\ budget' = budget - 1
          /\ mine' \in IF mine = 0 THEN {0, waiting + 1} ELSE {mine}
        BY <1>7 DEF Arrive
    <2>2. waiting \in 0..RoomCommands /\ mine \in 0..waiting
        BY <1>0 DEF LoopTypeOK
    <2>3. waiting' \in 0..RoomCommands /\ mine' \in 0..waiting' /\ budget' \in 0..CommandRate
        BY <2>1, <2>2, <1>0, ConstantTypes
    <2>4. LoopTypeOK'
        BY <2>1, <2>3, <1>0 DEF LoopTypeOK
    <2>5. DeadlineLag' /\ DeadlineNext'
        BY <2>1, <1>0 DEF DeadlineLag, DeadlineNext, Passed
    <2> QED
        BY <2>4, <2>5 DEF LoopInv
<1>8. ASSUME Signal \/ UNCHANGED loopVars PROVE LoopInv'
    <2>1. /\ ticking' = ticking /\ due' = due /\ ticked' = ticked /\ deadline' = deadline
          /\ waiting' = waiting /\ mine' = mine /\ budget' = budget
          /\ open' = open /\ served' = served
          /\ drain' \in {"none", "sent", "taken"}
        BY <1>8, <1>0 DEF Signal, loopVars
    <2>2. /\ waiting' \in 0..RoomCommands /\ mine' \in 0..waiting' /\ budget' \in 0..CommandRate
        BY <2>1, <1>0 DEF LoopTypeOK
    <2>3. LoopTypeOK'
        BY <2>1, <2>2, <1>0 DEF LoopTypeOK
    <2>4. DeadlineLag' /\ DeadlineNext'
        BY <2>1, <1>0 DEF DeadlineLag, DeadlineNext, Passed
    <2> QED
        BY <2>3, <2>4 DEF LoopInv
<1> QED
    BY <1>1, <1>2, <1>3, <1>4, <1>5, <1>6, <1>7, <1>8 DEF LoopNext, Turn, d

\* The invariant holds of every behaviour of the loop.
THEOREM LoopInvariant == LoopSpec => []LoopInv
<1>1. LoopInv /\ [LoopNext]_loopVars => LoopInv'
    BY LoopInvStep
<1> QED
    BY LoopInvInit, <1>1, PTL DEF LoopSpec

\* The schedule is never further behind than its catch-up and one tick, and
\* the channel never holds more than its bound.
THEOREM LoopTypeCorrect == LoopSpec => []LoopTypeOK
<1>1. LoopInv => LoopTypeOK
    BY DEF LoopInv
<1> QED
    BY LoopInvariant, <1>1, PTL

\* No deadline of a room waits longer than one tick takes, however late the
\* room runs and however many commands wait: the lateness Lifecycle assumes.
THEOREM DeadlinesLagOneTick == LoopSpec => []DeadlineLag
<1>1. LoopInv => DeadlineLag
    BY DEF LoopInv
<1> QED
    BY LoopInvariant, <1>1, PTL
=============================================================================
