-------------------------- MODULE SeatInputProofs --------------------------
(***************************************************************************)
(* What a seat's input promises, for every size of the mailbox's queue,    *)
(* its windows and waits, every latency, stall and hitch.                  *)
(***************************************************************************)
EXTENDS MCSeatInput, FiniteSetTheorems, SequenceTheorems, TLAPS

----------------------------------------------------------------------------
(***************************************************************************)
(* Ticks, and sets of them.                                                *)
(***************************************************************************)

LEMMA Limits ==
    /\ BufferMax \in Nat /\ BufferMax > 0 /\ IntentCoast \in Nat /\ IntentCoast > 0
    /\ PlayoutWindow \in Nat /\ WidenMisses \in Nat /\ PlayoutWindow > 0 /\ WidenMisses > 0
    /\ DeadReckonTicks \in Nat /\ ReachTicksMax \in Nat /\ ReachSpareTicks \in Nat /\ NarrowAhead \in Nat
    /\ FireHoldTicks \in Nat /\ FireHoldTicks > 0 /\ SendCatchUpTicks \in Nat /\ SendCatchUpTicks > 0
    /\ CatchUpTicks \in Nat /\ MaxPeriods \in Nat /\ MaxPeriods > 0 /\ RoomStall \in Nat /\ ClientHitch \in Nat
    /\ PoseReachTicks \in Nat /\ MaxReclaims \in Nat /\ Overtake \in Nat /\ Latency \in Nat
    /\ None \notin Int /\ None \notin Ticks
BY MailboxAssumption, SeatInputAssumption DEF Ticks

Scans == [down : BOOLEAN, press : Maybe(Ticks), through : Maybe(Ticks)]

LEMMA NoneIsNothing ==
    /\ None \notin Ticks /\ None \notin Intents /\ None \notin Scans
    /\ Ticks \subseteq Nat /\ 0 \in Ticks
<1>1. Ticks \subseteq Nat /\ 0 \in Ticks
    BY Limits DEF Ticks
<1>2. Intents \subseteq [tick : Nat, fire : BOOLEAN, owned : BOOLEAN]
    BY <1>1 DEF Intents
<1>3. Scans \subseteq [down : BOOLEAN, press : Nat \cup {None}, through : Nat \cup {None}]
    BY <1>1 DEF Scans, Maybe
<1> QED
    BY <1>1, <1>2, <1>3, Limits, MailboxAssumption

LEMMA SmallerLarger ==
    ASSUME NEW a \in Int, NEW b \in Int
    PROVE  /\ Smaller(a, b) \in {a, b} /\ Smaller(a, b) <= a /\ Smaller(a, b) <= b
           /\ Larger(a, b) \in {a, b} /\ Larger(a, b) >= a /\ Larger(a, b) >= b
BY DEF Smaller, Larger

\* A set of naturals has a least one: from n on, the intervals 1..n shrink.
LEMMA LeastOf ==
    ASSUME NEW T, T \subseteq Nat, T # {}
    PROVE  \E n \in T : \A m \in T : n <= m
<1> DEFINE Up(n) == 1..n
           Ups == {Up(n) : n \in T}
<1>1. Ups \subseteq FiniteSubsetsOf(Nat) /\ Ups # {}
    <2>1. \A n \in T : Up(n) \in SUBSET Nat /\ IsFiniteSet(Up(n))
        BY FS_Interval
    <2> QED
        BY <2>1 DEF FiniteSubsetsOf
<1>2. PICK least \in Ups : \A u \in Ups : <<u, least>> \notin StrictSubsetOrdering(Nat)
    <2> HIDE DEF Ups
    <2> QED
        BY <1>1, FS_StrictSubsetOrderingWellFounded, WFMin
<1>3. PICK n \in T : least = Up(n)
    OBVIOUS
<1>4. \A m \in T : m < n => <<Up(m), Up(n)>> \in StrictSubsetOrdering(Nat)
    <2> SUFFICES ASSUME NEW m \in T, m < n
                 PROVE  <<Up(m), Up(n)>> \in StrictSubsetOrdering(Nat)
        OBVIOUS
    <2>1. n \in Up(n) /\ n \notin Up(m) /\ Up(m) \subseteq Up(n) /\ Up(n) \subseteq Nat /\ Up(m) \subseteq Nat
        OBVIOUS
    <2> QED
        BY <2>1 DEF StrictSubsetOrdering
<1>5. \A m \in T : ~(m < n)
    BY <1>2, <1>3, <1>4
<1> QED
    BY <1>5

\* A set of ticks has a first, which Min chooses, and a last.
LEMMA FirstTick ==
    ASSUME NEW S, S \subseteq Ticks, S # {}
    PROVE  Min(S) \in S /\ \A t \in S : Min(S) <= t
<1>1. S \subseteq Nat
    BY NoneIsNothing
<1>2. \E n \in S : \A m \in S : n <= m
    BY <1>1, LeastOf
<1> QED
    BY <1>2 DEF Min

LEMMA LastTick ==
    ASSUME NEW S, S \subseteq Ticks, S # {}
    PROVE  \E n \in S : \A m \in S : m <= n
<1> DEFINE T == {k \in Nat : \E n \in S : k + n = MaxPeriods}
<1>1. \A n \in S : n \in Nat /\ MaxPeriods - n \in Nat /\ (MaxPeriods - n) + n = MaxPeriods
    BY Limits DEF Ticks
<1>2. T \subseteq Nat /\ T # {}
    BY <1>1
<1>3. PICK k \in T : \A l \in T : k <= l
    <2> HIDE DEF T
    <2> QED
        BY <1>2, LeastOf
<1>4. PICK n \in S : k + n = MaxPeriods
    OBVIOUS
<1>5. \A m \in S : m <= n
    BY <1>1, <1>3, <1>4
<1> QED
    BY <1>5

LEMMA NewestOf ==
    ASSUME NEW msgs, msgs \subseteq Intents, msgs # {}
    PROVE  Newest(msgs) \in msgs /\ \A n \in msgs : n.tick <= Newest(msgs).tick
<1> DEFINE S == {m.tick : m \in msgs}
<1>1. S \subseteq Ticks /\ S # {}
    BY DEF Intents
<1>2. PICK t \in S : \A u \in S : u <= t
    <2> HIDE DEF S
    <2> QED
        BY <1>1, LastTick
<1>3. \E m \in msgs : \A n \in msgs : n.tick <= m.tick
    BY <1>2
<1> QED
    BY <1>3 DEF Newest

LEMMA OldestOf ==
    ASSUME NEW msgs, msgs \subseteq Intents, msgs # {}
    PROVE  Oldest(msgs) \in msgs /\ \A n \in msgs : Oldest(msgs).tick <= n.tick
<1> DEFINE S == {m.tick : m \in msgs}
<1>1. S \subseteq Nat /\ S # {}
    BY NoneIsNothing DEF Intents
<1>2. PICK t \in S : \A u \in S : t <= u
    <2> HIDE DEF S
    <2> QED
        BY <1>1, LeastOf
<1>3. \E m \in msgs : \A n \in msgs : m.tick <= n.tick
    BY <1>2
<1> QED
    BY <1>3 DEF Oldest

----------------------------------------------------------------------------
(***************************************************************************)
(* What the mailbox holds.                                                 *)
(***************************************************************************)

Windows == [reads : Nat, misses : Nat, ahead : Int, ahead_max : Int]

Box == [
    queue : SUBSET Intents, last : Maybe(Intents), applied : Maybe(Ticks),
    silent : Maybe(0..(IntentCoast + 1)),
    last_starved : BOOLEAN, starved_run : Nat, reach : 0..Larger(1, ReachTicksMax),
    delivered : BOOLEAN, owed_press : Maybe(Ticks), press : Maybe(Ticks), folded : Maybe(Scans),
    newest_posted : Maybe(Ticks), play : Maybe(Nat), next_step : 0..2, window : Windows,
    reads_since_apply : Nat,
    wall : Maybe(Nat)]

LEMMA IntentForm ==
    ASSUME NEW m \in Intents
    PROVE  m.tick \in Ticks /\ m.tick \in Nat /\ m.tick \in Int /\ m.fire \in BOOLEAN /\ m.owned \in BOOLEAN
<1>1. m.tick \in Ticks /\ m.fire \in BOOLEAN /\ m.owned \in BOOLEAN
    BY DEF Intents
<1>2. m.tick \in Nat
    BY <1>1, NoneIsNothing
<1> QED
    BY <1>1, <1>2

LEMMA BoxForm ==
    ASSUME NEW b \in Box
    PROVE  /\ b.queue \subseteq Intents /\ b.delivered \in BOOLEAN
           /\ b.last # None => b.last \in Intents
           /\ b.applied # None => b.applied \in Ticks /\ b.applied \in Nat /\ b.applied \in Int
           /\ b.newest_posted # None =>
                b.newest_posted \in Ticks /\ b.newest_posted \in Nat /\ b.newest_posted \in Int
           /\ b.play # None => b.play \in Nat
           /\ b.owed_press # None => b.owed_press \in Ticks
           /\ b.press # None => b.press \in Ticks
           /\ b.folded # None => b.folded \in Scans
           /\ b.silent # None => b.silent \in Nat
           /\ b.wall # None => b.wall \in Nat
           /\ b.next_step \in Nat /\ b.reads_since_apply \in Nat /\ b.starved_run \in Nat
<1>1. /\ b.queue \subseteq Intents /\ b.delivered \in BOOLEAN
      /\ b.last \in Maybe(Intents) /\ b.applied \in Maybe(Ticks) /\ b.newest_posted \in Maybe(Ticks)
      /\ b.play \in Maybe(Nat) /\ b.owed_press \in Maybe(Ticks) /\ b.press \in Maybe(Ticks)
      /\ b.folded \in Maybe(Scans) /\ b.silent \in Maybe(0..(IntentCoast + 1)) /\ b.wall \in Maybe(Nat)
      /\ b.next_step \in 0..2 /\ b.reads_since_apply \in Nat /\ b.starved_run \in Nat
    BY DEF Box
<1>2. /\ b.applied # None => b.applied \in Ticks /\ b.applied \in Nat
      /\ b.newest_posted # None => b.newest_posted \in Ticks /\ b.newest_posted \in Nat
    BY <1>1, NoneIsNothing DEF Maybe
<1>3. b.silent # None => b.silent \in Nat
    BY <1>1, Limits DEF Maybe
<1>4. b.next_step \in Nat
    BY <1>1
<1> QED
    BY <1>1, <1>2, <1>3, <1>4 DEF Maybe

LEMMA EmptyType == Empty \in Box
BY NoneIsNothing, Limits DEF Empty, Box, Window, Windows, Maybe, Larger

\* Nothing but the trigger.
Same(b, c) ==
    /\ c.queue = b.queue /\ c.last = b.last /\ c.applied = b.applied /\ c.folded = b.folded
    /\ c.newest_posted = b.newest_posted /\ c.silent = b.silent /\ c.wall = b.wall

\* What a read hands the round of the trigger, by what it owes and reads.
Delivered(b, c, press, own) ==
    /\ b.owed_press # None => c.delivered /\ c.press = b.owed_press /\ c.owed_press = None
    /\ b.owed_press = None /\ press # None /\ ~b.delivered =>
         c.delivered /\ c.press = press /\ c.owed_press = None
    /\ b.owed_press = None /\ press # None /\ b.delivered =>
         ~c.delivered /\ c.press = None /\ c.owed_press = press
    /\ b.owed_press = None /\ press = None =>
         c.delivered = own /\ c.press = None /\ c.owed_press = None

LEMMA DeliverForm ==
    ASSUME NEW b \in Box, NEW press \in Maybe(Ticks), NEW own \in BOOLEAN
    PROVE  LET c == Deliver(b, press, own)
           IN  /\ c \in Box /\ Same(b, c) /\ c.play = b.play /\ c.next_step = b.next_step
               /\ Delivered(b, c, press, own)
<1> DEFINE c == Deliver(b, press, own)
<1>0. b.delivered \in BOOLEAN /\ b.owed_press \in Maybe(Ticks) /\ None \in Maybe(Ticks)
    BY DEF Box, Maybe
<1>1. CASE b.owed_press # None
    <2>1. c = [b EXCEPT !.delivered = TRUE, !.press = b.owed_press, !.owed_press = None]
        BY <1>1 DEF Deliver
    <2> HIDE DEF c
    <2> QED
        BY <1>0, <1>1, <2>1 DEF Box, Same, Delivered, c
<1>2. CASE b.owed_press = None /\ press # None /\ ~b.delivered
    <2>1. c = [b EXCEPT !.delivered = TRUE, !.press = press]
        BY <1>2 DEF Deliver
    <2> HIDE DEF c
    <2> QED
        BY <1>0, <1>2, <2>1 DEF Box, Same, Delivered, c
<1>3. CASE b.owed_press = None /\ press # None /\ b.delivered
    <2>1. c = [b EXCEPT !.delivered = FALSE, !.press = None, !.owed_press = press]
        BY <1>3 DEF Deliver
    <2> HIDE DEF c
    <2> QED
        BY <1>0, <1>3, <2>1 DEF Box, Same, Delivered, c
<1>4. CASE b.owed_press = None /\ press = None
    <2>1. c = [b EXCEPT !.delivered = own, !.press = None]
        BY <1>4 DEF Deliver
    <2> HIDE DEF c
    <2> QED
        BY <1>0, <1>4, <2>1 DEF Box, Same, Delivered, c
<1> QED
    BY <1>1, <1>2, <1>3, <1>4

\* Along a set of intents: where the trigger ended, and the first press.
LEMMA ScanForm ==
    ASSUME NEW scan \in Scans, NEW msgs, msgs \subseteq Intents
    PROVE  /\ Scan(scan, msgs) \in Scans
           /\ msgs = {} => Scan(scan, msgs) = scan
           /\ msgs # {} =>
                /\ Scan(scan, msgs).down = Newest(msgs).fire
                /\ Scan(scan, msgs).through = Newest(msgs).tick
                /\ Scan(scan, msgs).press =
                     IF scan.press = None /\ Presses(msgs, scan.down) # {} THEN Min(Presses(msgs, scan.down))
                                                                           ELSE scan.press
<1> DEFINE P == Presses(msgs, scan.down)
           p == IF scan.press = None /\ P # {} THEN Min(P) ELSE scan.press
<1>1. P \subseteq Ticks
    BY DEF Presses, Intents
<1>2. p \in Maybe(Ticks)
    <2> HIDE DEF P
    <2> QED
        BY <1>1, FirstTick DEF Scans, Maybe
<1>3. CASE msgs = {}
    BY <1>3 DEF Scan
<1>4. CASE msgs # {}
    <2>1. Scan(scan, msgs) = [down |-> Newest(msgs).fire, press |-> p, through |-> Newest(msgs).tick]
        BY <1>4 DEF Scan
    <2>2. Newest(msgs).fire \in BOOLEAN /\ Newest(msgs).tick \in Ticks
        BY <1>4, NewestOf DEF Intents
    <2> HIDE DEF P, p
    <2>3. Scan(scan, msgs) \in Scans
        BY <1>2, <2>1, <2>2 DEF Scans, Maybe
    <2> QED
        BY <1>4, <2>1, <2>3 DEF p, P
<1> QED
    BY <1>3, <1>4

\* Which scan a read, or a fold, goes on from.
Begun(b) == IF b.folded = None THEN ScanFrom(OwnDown(b)) ELSE b.folded

LEMMA BegunType == ASSUME NEW b \in Box PROVE Begun(b) \in Scans
<1>1. b.folded # None => b.folded \in Scans
    BY DEF Box, Maybe
<1>2. OwnDown(b) \in BOOLEAN
    BY DEF OwnDown, Box, Maybe, Intents
<1>3. ScanFrom(OwnDown(b)) \in Scans
    BY <1>2 DEF ScanFrom, Scans, Maybe
<1> QED
    BY <1>1, <1>3 DEF Begun

Unique(q) == \A m, n \in q : m.tick = n.tick => m = n

\* What does not fit is the oldest, and no more than that.
LEMMA OverForm ==
    ASSUME NEW q, q \subseteq Intents, Unique(q), IsFiniteSet(q), Cardinality(q) <= BufferMax + 1
    PROVE  LET over == {n \in q : Cardinality({o \in q : o.tick > n.tick}) >= BufferMax}
           IN  /\ Cardinality(q) <= BufferMax => over = {}
               /\ Cardinality(q) > BufferMax => over = {Oldest(q)} /\ q # {}
               /\ IsFiniteSet(q \ over) /\ Cardinality(q \ over) <= BufferMax
<1> DEFINE Newer(n) == {o \in q : o.tick > n.tick}
           over == {n \in q : Cardinality(Newer(n)) >= BufferMax}
<1>0. Cardinality(q) \in Nat /\ BufferMax \in Nat /\ BufferMax > 0
    BY FS_CardinalityType, Limits
<1>1. ASSUME NEW n \in q
      PROVE  /\ IsFiniteSet(q \ {n}) /\ Cardinality(q \ {n}) = Cardinality(q) - 1
             /\ Newer(n) \subseteq q \ {n}
             /\ IsFiniteSet(Newer(n)) /\ Cardinality(Newer(n)) \in Nat
             /\ Cardinality(Newer(n)) <= Cardinality(q) - 1
             /\ Cardinality(Newer(n)) = Cardinality(q) - 1 => Newer(n) = q \ {n}
    <2>1. IsFiniteSet(q \ {n}) /\ Cardinality(q \ {n}) = Cardinality(q) - 1
        BY FS_RemoveElement
    <2>2. n.tick \in Nat
        BY NoneIsNothing DEF Intents
    <2>3. Newer(n) \subseteq q \ {n}
        BY <2>2
    <2> HIDE DEF Newer
    <2> QED
        BY <2>1, <2>3, FS_Subset, FS_CardinalityType
<1>t. \A n \in q : n.tick \in Nat
    BY NoneIsNothing DEF Intents
<1> DEFINE size == Cardinality(q)
<1>2. CASE size <= BufferMax
    <2>1. over = {}
        <3> SUFFICES ASSUME NEW n \in q PROVE ~(Cardinality(Newer(n)) >= BufferMax)
            OBVIOUS
        <3>1. Cardinality(Newer(n)) \in Nat /\ Cardinality(Newer(n)) <= size - 1 /\ size \in Nat
            BY <1>0, <1>1
        <3> HIDE DEF Newer, size
        <3> QED
            BY <1>0, <1>2, <3>1
    <2>2. q \ over = q
        <3> HIDE DEF over
        <3> QED
            BY <2>1
    <2>3. size <= BufferMax /\ ~(size > BufferMax)
        BY <1>0, <1>2
    <2> QED
        BY <2>1, <2>2, <2>3
<1>3. CASE size > BufferMax
    <2>1. Cardinality(q) = BufferMax + 1 /\ q # {}
        BY <1>0, <1>3, FS_EmptySet
    <2>2. Oldest(q) \in q /\ \A n \in q : Oldest(q).tick <= n.tick
        BY <2>1, OldestOf
    <2>3. ASSUME NEW n \in over PROVE n = Oldest(q)
        <3>1. Cardinality(Newer(n)) >= BufferMax /\ n \in q
            OBVIOUS
        <3>2. Newer(n) = q \ {n}
            <4>1. /\ Cardinality(Newer(n)) \in Nat /\ Cardinality(Newer(n)) <= size - 1
                  /\ Cardinality(Newer(n)) = size - 1 => Newer(n) = q \ {n}
                BY <1>1, <3>1
            <4> HIDE DEF Newer, over, size
            <4>2. size = BufferMax + 1
                BY <2>1 DEF size
            <4> QED
                BY <1>0, <3>1, <4>1, <4>2
        <3>3. n.tick <= Oldest(q).tick
            <4>1. CASE Oldest(q) # n
                <5>1. Oldest(q).tick > n.tick
                    BY <2>2, <3>2, <4>1
                <5> QED
                    BY <1>t, <2>2, <3>1, <5>1
            <4>2. CASE Oldest(q) = n
                BY <2>2, <3>1, <4>2
            <4> QED
                BY <4>1, <4>2
        <3>4. n.tick = Oldest(q).tick
            BY <1>t, <2>2, <3>1, <3>3
        <3> QED
            BY <2>2, <3>1, <3>4 DEF Unique
    <2>4. Oldest(q) \in over
        <3>1. Newer(Oldest(q)) = q \ {Oldest(q)}
            <4>1. \A n \in q : n # Oldest(q) => n.tick # Oldest(q).tick
                BY <2>2 DEF Unique
            <4>2. \A n \in q : n # Oldest(q) => n.tick > Oldest(q).tick
                BY <1>t, <2>2, <4>1
            <4>3. ~(Oldest(q).tick > Oldest(q).tick)
                BY <1>t, <2>2
            <4> QED
                BY <2>2, <4>2, <4>3
        <3>2. Cardinality(Newer(Oldest(q))) = BufferMax
            <4>1. Cardinality(q \ {Oldest(q)}) = size - 1
                BY <1>1, <2>2
            <4> HIDE DEF Newer, over, size
            <4>2. size = BufferMax + 1
                BY <2>1 DEF size
            <4> QED
                BY <1>0, <3>1, <4>1, <4>2
        <3> QED
            BY <1>0, <2>2, <3>2
    <2>5. over = {Oldest(q)}
        <3> HIDE DEF over
        <3> QED
            BY <2>3, <2>4
    <2>6. IsFiniteSet(q \ {Oldest(q)}) /\ Cardinality(q \ {Oldest(q)}) = BufferMax
        <3>1. Cardinality(q \ {Oldest(q)}) = Cardinality(q) - 1 /\ IsFiniteSet(q \ {Oldest(q)})
            BY <1>1, <2>2
        <3> QED
            BY <1>0, <2>1, <3>1
    <2>7. IsFiniteSet(q \ over) /\ Cardinality(q \ over) <= BufferMax
        <3> HIDE DEF over
        <3> QED
            BY <1>0, <2>5, <2>6
    <2>8. ~(size <= BufferMax)
        BY <1>0, <1>3
    <2> QED
        BY <2>1, <2>5, <2>7, <2>8
<1> QED
    BY <1>0, <1>2, <1>3

Held(q) == Unique(q) /\ IsFiniteSet(q) /\ Cardinality(q) <= BufferMax

\* A message takes its place in the queue, and the oldest gives way when
\* there is none.
Added(b, m) == {n \in b.queue : n.tick # m.tick} \cup {m}

LEMMA AddedForm ==
    ASSUME NEW b \in Box, NEW m \in Intents, Held(b.queue)
    PROVE  LET q == Added(b, m)
           IN  /\ q \subseteq Intents /\ Unique(q) /\ IsFiniteSet(q)
               /\ Cardinality(q) <= BufferMax + 1 /\ q # {}
<1> DEFINE rest == {n \in b.queue : n.tick # m.tick}
<1>1. IsFiniteSet(rest) /\ Cardinality(rest) <= Cardinality(b.queue) /\ Cardinality(rest) \in Nat
    BY FS_Subset, FS_CardinalityType DEF Held
<1>2. Cardinality(b.queue) \in Nat /\ BufferMax \in Nat
    BY FS_CardinalityType, Limits DEF Held
<1>3. m \notin rest
    OBVIOUS
<1>4. Unique(Added(b, m)) /\ Added(b, m) \subseteq Intents /\ Added(b, m) # {}
    BY DEF Added, Unique, Held, Box
<1>5. Added(b, m) = rest \cup {m}
    BY DEF Added
<1> HIDE DEF rest
<1>6. IsFiniteSet(rest \cup {m}) /\ Cardinality(rest \cup {m}) = Cardinality(rest) + 1
    <2>1. IF m \in rest THEN Cardinality(rest \cup {m}) = Cardinality(rest)
                         ELSE Cardinality(rest \cup {m}) = Cardinality(rest) + 1
        BY <1>1, FS_AddElement
    <2> QED
        BY <1>1, <1>3, <2>1, FS_AddElement
<1>7. Cardinality(rest \cup {m}) \in Nat
    BY <1>6, FS_CardinalityType
<1>8. Cardinality(rest \cup {m}) <= BufferMax + 1
    BY <1>1, <1>2, <1>6, <1>7 DEF Held
<1> QED
    BY <1>4, <1>5, <1>6, <1>8

\* What a post leaves alone.
Unread(b, c) ==
    /\ c.last = b.last /\ c.applied = b.applied /\ c.play = b.play /\ c.wall = b.wall
    /\ c.next_step = b.next_step
    /\ c.delivered = b.delivered /\ c.owed_press = b.owed_press /\ c.press = b.press

LEMMA FoldForm ==
    ASSUME NEW b \in Box, NEW gone, gone \subseteq Intents
    PROVE  LET c == Fold(b, gone)
               owned == {m \in gone : m.owned}
           IN  /\ c \in Box /\ Unread(b, c) /\ c.queue = b.queue
               /\ c.silent = b.silent /\ c.newest_posted = b.newest_posted
               /\ c.folded = IF owned = {} THEN b.folded ELSE Scan(Begun(b), owned)
<1> DEFINE owned == {m \in gone : m.owned}
<1>1. CASE owned = {}
    <2>1. Fold(b, gone) = b
        BY <1>1 DEF Fold
    <2> QED
        BY <1>1, <2>1 DEF Unread
<1>2. CASE owned # {}
    <2>1. Fold(b, gone) = [b EXCEPT !.folded = Scan(Begun(b), owned)]
        BY <1>2 DEF Fold, Begun
    <2>2. Scan(Begun(b), owned) \in Maybe(Scans)
        BY BegunType, ScanForm DEF Maybe
    <2> HIDE DEF owned
    <2>3. Fold(b, gone) \in Box
        BY <2>1, <2>2 DEF Box
    <2>4. /\ Unread(b, Fold(b, gone)) /\ Fold(b, gone).queue = b.queue
          /\ Fold(b, gone).silent = b.silent /\ Fold(b, gone).newest_posted = b.newest_posted
          /\ Fold(b, gone).folded = Scan(Begun(b), owned)
        BY <2>1 DEF Box, Unread
    <2> QED
        BY <1>2, <2>3, <2>4 DEF owned
<1> QED
    BY <1>1, <1>2

LEMMA PostedForm ==
    ASSUME NEW b \in Box, NEW m \in Intents, Held(b.queue)
    PROVE  LET c == Posted(b, m)
               q == Added(b, m)
               over == IF Cardinality(q) <= BufferMax THEN {} ELSE {Oldest(q)}
               owned == {n \in over : n.owned}
           IN  /\ c \in Box /\ Held(c.queue) /\ Unread(b, c) /\ c.silent = 0
               /\ c.newest_posted = IF b.newest_posted = None THEN m.tick ELSE Larger(b.newest_posted, m.tick)
               /\ Straggler(b, m) => c.queue = b.queue /\ c.folded = b.folded
               /\ ~Straggler(b, m) =>
                    /\ c.queue = q \ over
                    /\ c.folded = IF owned = {} THEN b.folded ELSE Scan(Begun(b), owned)
<1> DEFINE c == Posted(b, m)
           q == Added(b, m)
           over == IF Cardinality(q) <= BufferMax THEN {} ELSE {Oldest(q)}
           newest == IF b.newest_posted = None THEN m.tick ELSE Larger(b.newest_posted, m.tick)
           heard == [b EXCEPT !.silent = 0, !.newest_posted = newest]
<1>1. newest \in Maybe(Ticks) /\ 0 \in Maybe(0..(IntentCoast + 1))
    <2>1. m.tick \in Ticks
        BY DEF Intents
    <2>2. b.newest_posted # None => b.newest_posted \in Ticks
        BY DEF Box, Maybe
    <2>3. b.newest_posted # None => Larger(b.newest_posted, m.tick) \in Ticks
        BY <2>1, <2>2 DEF Larger
    <2> QED
        BY <2>1, <2>3, Limits DEF Maybe
<1>2. /\ heard \in Box /\ Unread(b, heard) /\ heard.silent = 0 /\ heard.newest_posted = newest
      /\ heard.queue = b.queue /\ heard.folded = b.folded
    <2> HIDE DEF newest
    <2> QED
        BY <1>1 DEF Box, Unread
<1>3. CASE Straggler(b, m)
    <2>1. c = heard
        BY <1>3 DEF Posted
    <2> HIDE DEF c, heard, newest
    <2> QED
        BY <1>2, <1>3, <2>1 DEF c, newest
<1>4. CASE ~Straggler(b, m)
    <2> DEFINE kept == [heard EXCEPT !.queue = q \ over]
    <2>1. /\ q \subseteq Intents /\ Unique(q) /\ IsFiniteSet(q)
          /\ Cardinality(q) <= BufferMax + 1 /\ q # {}
        BY AddedForm
    <2>2. {n \in q : Cardinality({o \in q : o.tick > n.tick}) >= BufferMax} = over
        <3>1. Cardinality(q) \in Nat /\ BufferMax \in Nat
            BY <2>1, FS_CardinalityType, Limits
        <3> HIDE DEF q
        <3>2. LET late == {n \in q : Cardinality({o \in q : o.tick > n.tick}) >= BufferMax}
              IN  /\ Cardinality(q) <= BufferMax => late = {}
                  /\ Cardinality(q) > BufferMax => late = {Oldest(q)}
            BY <2>1, OverForm
        <3> QED
            BY <3>1, <3>2
    <2>3. IsFiniteSet(q \ over) /\ Cardinality(q \ over) <= BufferMax /\ over \subseteq q
        <3>1. IsFiniteSet(q \ over) /\ Cardinality(q \ over) <= BufferMax
            <4> HIDE DEF q
            <4>1. LET late == {n \in q : Cardinality({o \in q : o.tick > n.tick}) >= BufferMax}
                  IN  IsFiniteSet(q \ late) /\ Cardinality(q \ late) <= BufferMax
                BY <2>1, OverForm
            <4> QED
                BY <2>2, <4>1
        <3> QED
            BY <2>1, <3>1, OldestOf
    <2>4. Held(q \ over)
        BY <2>1, <2>3 DEF Held, Unique
    <2>5. c = Fold(kept, over)
        BY <1>4, <2>2 DEF Posted, Added
    <2>6. /\ kept \in Box /\ Unread(b, kept) /\ kept.silent = 0 /\ kept.newest_posted = newest
          /\ kept.queue = q \ over /\ kept.folded = b.folded /\ kept.last = b.last
        <3> HIDE DEF heard, q, over, newest
        <3> QED
            BY <1>2, <2>1 DEF Box, Unread
    <2>7. Begun(kept) = Begun(b)
        BY <2>6 DEF Begun, OwnDown
    <2>8. over \subseteq Intents
        BY <2>1, <2>3
    <2> HIDE DEF kept, c, q, over, newest
    <2>9. /\ c \in Box /\ Unread(kept, c) /\ c.queue = q \ over /\ c.silent = 0 /\ c.newest_posted = newest
          /\ c.folded = IF {n \in over : n.owned} = {} THEN b.folded ELSE Scan(Begun(b), {n \in over : n.owned})
        BY <2>5, <2>6, <2>7, <2>8, FoldForm
    <2>10. Unread(b, c)
        BY <2>6, <2>9 DEF Unread
    <2> QED
        BY <1>4, <2>4, <2>9, <2>10 DEF c, q, over, newest
<1> QED
    BY <1>3, <1>4

----------------------------------------------------------------------------
(***************************************************************************)
(* What a read takes.                                                      *)
(***************************************************************************)

\* A tick without an intent goes on with the trigger of the last.
Starved(b, c) ==
    IF b.last = None
    THEN c.delivered = b.delivered /\ c.press = b.press /\ c.owed_press = b.owed_press
    ELSE Delivered(b, c, None, b.last.fire)

LEMMA StarveForm ==
    ASSUME NEW b \in Box
    PROVE  LET c == Starve(b)
           IN  c \in Box /\ Same(b, c) /\ c.play = b.play /\ Starved(b, c)
<1> DEFINE starved == [b EXCEPT !.last_starved = TRUE, !.starved_run = @ + 1]
           heard == [starved EXCEPT !.reach = 1]
<1>1. 1 \in 0..Larger(1, ReachTicksMax) /\ b.starved_run + 1 \in Nat
    BY Limits DEF Larger, Box
<1>2. /\ starved \in Box /\ Same(b, starved) /\ starved.play = b.play
      /\ starved.delivered = b.delivered /\ starved.press = b.press /\ starved.owed_press = b.owed_press
      /\ heard \in Box /\ Same(b, heard) /\ heard.play = b.play
      /\ heard.delivered = b.delivered /\ heard.press = b.press /\ heard.owed_press = b.owed_press
    BY <1>1 DEF Box, Same
<1>3. CASE b.last = None
    <2>1. Starve(b) = starved
        BY <1>3 DEF Starve
    <2> HIDE DEF starved
    <2> QED
        BY <1>2, <1>3, <2>1 DEF Starved
<1>4. CASE b.last # None
    <2>1. Starve(b) = Deliver(heard, None, b.last.fire)
        BY <1>4 DEF Starve
    <2>2. b.last.fire \in BOOLEAN /\ None \in Maybe(Ticks)
        BY <1>4 DEF Box, Maybe, Intents
    <2> HIDE DEF starved, heard
    <2>3. LET c == Deliver(heard, None, b.last.fire)
          IN  c \in Box /\ Same(heard, c) /\ c.play = heard.play /\ Delivered(heard, c, None, b.last.fire)
        BY <1>2, <2>2, DeliverForm
    <2> QED
        BY <1>2, <1>4, <2>1, <2>3 DEF Starved, Delivered, Same
<1> QED
    BY <1>3, <1>4

\* What is still there after the controller has looked.
Kept(b, c) ==
    /\ Same(b, c) /\ c.play = b.play
    /\ c.delivered = b.delivered /\ c.press = b.press /\ c.owed_press = b.owed_press

LEMMA WatchForm ==
    ASSUME NEW b \in Box, NEW ahead \in Int, NEW missed \in BOOLEAN
    PROVE  Watch(b, ahead, missed) \in Box /\ Kept(b, Watch(b, ahead, missed))
<1> DEFINE w == b.window
           first == w.reads = 0
           seen == [reads |-> w.reads + 1,
                    misses |-> w.misses + (IF missed THEN 1 ELSE 0),
                    ahead |-> IF first THEN ahead ELSE Smaller(w.ahead, ahead),
                    ahead_max |-> IF first THEN ahead ELSE Larger(w.ahead_max, ahead)]
           step == CASE seen.misses >= WidenMisses /\ seen.ahead_max < BufferMax - 1 -> 0
                     [] seen.misses < WidenMisses /\ seen.ahead >= NarrowAhead -> 2
                     [] OTHER -> b.next_step
           again == [seen EXCEPT !.reads = 0, !.misses = 0]
<1>1. seen \in Windows
    <2>1. w \in Windows
        BY DEF Box
    <2>2. /\ w.reads + 1 \in Nat /\ w.misses + (IF missed THEN 1 ELSE 0) \in Nat
          /\ Smaller(w.ahead, ahead) \in Int /\ Larger(w.ahead_max, ahead) \in Int
        BY <2>1 DEF Windows, Smaller, Larger
    <2> HIDE DEF w
    <2> QED
        BY <2>2 DEF Windows
<1>2. step \in 0..2
    <2>1. b.next_step \in 0..2
        BY DEF Box
    <2> HIDE DEF seen
    <2> QED
        BY <2>1
<1>3. again \in Windows
    <2> HIDE DEF seen
    <2> QED
        BY <1>1 DEF Windows
<1>4. \/ Watch(b, ahead, missed) = [b EXCEPT !.window = seen]
      \/ Watch(b, ahead, missed) = [b EXCEPT !.window = again, !.next_step = step]
    BY DEF Watch
<1> HIDE DEF w, first, seen, step, again
<1> QED
    BY <1>1, <1>2, <1>3, <1>4 DEF Box, Kept, Same

LEMMA CaughtUpForm ==
    ASSUME NEW b \in Box, NEW play \in Nat
    PROVE  LET newest == IF b.newest_posted = None THEN play ELSE b.newest_posted
               c == CaughtUp(b, play)
           IN  /\ c \in Nat /\ newest \in Nat
               /\ \/ newest < c + BufferMax
                  \/ c = newest - 1
                  \/ b.queue # {} /\ c = Oldest(b.queue).tick
<1> DEFINE newest == IF b.newest_posted = None THEN play ELSE b.newest_posted
           restart == newest - 1
           c == CaughtUp(b, play)
<1> SUFFICES /\ c \in Nat /\ newest \in Nat
             /\ \/ newest < c + BufferMax
                \/ c = newest - 1
                \/ b.queue # {} /\ c = Oldest(b.queue).tick
    OBVIOUS
<1>1. newest \in Nat
    BY NoneIsNothing DEF Box, Maybe
<1>2. b.queue # {} => Oldest(b.queue).tick \in Nat
    <2>1. b.queue \subseteq Intents
        BY DEF Box
    <2> QED
        BY <2>1, OldestOf, NoneIsNothing DEF Intents
<1>3. \/ newest < play + BufferMax /\ c = play
      \/ ~(newest < play + BufferMax) /\ c = restart
      \/ ~(newest < play + BufferMax) /\ b.queue # {} /\ c = Smaller(Oldest(b.queue).tick, restart)
    BY DEF CaughtUp
<1> HIDE DEF newest, c
<1>4. ~(newest < play + BufferMax) => restart \in Nat
    BY <1>1, Limits
<1>5. CASE b.queue # {} /\ ~(newest < play + BufferMax) /\ c = Smaller(Oldest(b.queue).tick, restart)
    BY <1>1, <1>2, <1>4, <1>5, SmallerLarger
<1>6. CASE newest < play + BufferMax /\ c = play
    BY <1>1, <1>6
<1>7. CASE ~(newest < play + BufferMax) /\ c = restart
    BY <1>1, <1>4, <1>7
<1> QED
    BY <1>3, <1>5, <1>6, <1>7

\* A read of what the play point has come past.
Merged(b, c, taken, play) ==
    LET newest == Newest(taken)
    IN  /\ c.queue = b.queue \ taken /\ c.last = newest /\ c.applied = newest.tick
        /\ c.folded = None /\ c.wall = 0
        /\ c.silent = b.silent /\ c.newest_posted = b.newest_posted
        /\ c.play = IF newest.tick + NarrowAhead < play THEN newest.tick ELSE play
        /\ Delivered(b, c, Scan(Begun(b), taken).press, newest.fire)

LEMMA ReachType ==
    ASSUME NEW b \in Box, NEW driven \in Int
    PROVE  Reach(b, driven) \in 0..Larger(1, ReachTicksMax)
<1> DEFINE guessed == Smaller(b.starved_run, DeadReckonTicks)
           elapsed == IF b.wall = None THEN ReachTicksMax ELSE RoomTime(b) + ReachSpareTicks
           s == Smaller(ReachTicksMax, Smaller(driven + guessed, elapsed))
<1>1. b.starved_run \in Nat /\ b.reads_since_apply \in Nat /\ (b.wall # None => b.wall \in Nat)
    BY DEF Box, Maybe
<1>2. guessed \in Int /\ elapsed \in Int
    BY <1>1, Limits DEF RoomTime, Smaller, Larger
<1>3. Reach(b, driven) = Larger(1, s)
    BY DEF Reach
<1>4. s \in Int /\ s <= ReachTicksMax
    <2> HIDE DEF guessed, elapsed
    <2> QED
        BY <1>2, Limits DEF Smaller
<1> HIDE DEF s
<1> QED
    BY <1>3, <1>4, Limits DEF Larger

LEMMA MergeForm ==
    ASSUME NEW b \in Box, NEW taken, taken \subseteq Intents, taken # {}, b.play \in Nat
    PROVE  LET c == Merge(b, taken)
               newest == Newest(taken)
           IN  /\ c \in Box /\ c.queue = b.queue /\ c.last = newest /\ c.applied = newest.tick
               /\ c.folded = None /\ c.wall = 0
               /\ c.silent = b.silent /\ c.newest_posted = b.newest_posted
               /\ c.play = IF newest.tick + NarrowAhead < b.play THEN newest.tick ELSE b.play
               /\ Delivered(b, c, Scan(Begun(b), taken).press, newest.fire)
<1> DEFINE newest == Newest(taken)
           scan == Scan(Begun(b), taken)
           play == IF newest.tick + NarrowAhead < b.play THEN newest.tick ELSE b.play
           reach == Reach(b, Driven(b, taken))
           applied == [b EXCEPT
                !.folded = None, !.play = play, !.reach = reach,
                !.applied = newest.tick, !.wall = 0, !.reads_since_apply = 0,
                !.last = newest, !.last_starved = FALSE, !.starved_run = 0]
<1>1. newest \in Intents /\ newest.tick \in Ticks /\ newest.tick \in Nat /\ newest.fire \in BOOLEAN
    <2>1. newest \in Intents
        BY NewestOf
    <2> QED
        BY <2>1, NoneIsNothing DEF Intents
<1>2. scan.press \in Maybe(Ticks)
    BY BegunType, ScanForm DEF Scans
<1>3. play \in Nat /\ 0 \in Nat
    <2> HIDE DEF newest
    <2> QED
        BY <1>1
<1>4. reach \in 0..Larger(1, ReachTicksMax)
    <2>1. Oldest(taken).tick \in Int
        <3>1. Oldest(taken) \in Intents
            BY OldestOf
        <3> QED
            BY <3>1, IntentForm
    <2>2. b.applied # None => b.applied \in Int
        BY BoxForm
    <2>3. Driven(b, taken) \in Int
        <3> HIDE DEF newest
        <3>1. Driven(b, taken) = IF b.applied = None THEN newest.tick - Oldest(taken).tick + 1
                                                     ELSE newest.tick - b.applied
            BY DEF Driven, newest
        <3> QED
            BY <1>1, <2>1, <2>2, <3>1
    <2> QED
        BY <2>3, ReachType
<1>5. Merge(b, taken) = Deliver(applied, scan.press, newest.fire)
    BY DEF Merge, Begun
<1> HIDE DEF newest, scan, play, reach
<1>6. applied \in Box
    BY <1>1, <1>3, <1>4 DEF Box, Maybe
<1>7. /\ applied.queue = b.queue /\ applied.last = newest /\ applied.applied = newest.tick
      /\ applied.folded = None /\ applied.wall = 0 /\ applied.play = play
      /\ applied.silent = b.silent /\ applied.newest_posted = b.newest_posted
      /\ applied.delivered = b.delivered /\ applied.owed_press = b.owed_press
    BY DEF Box
<1> HIDE DEF applied
<1>8. LET c == Deliver(applied, scan.press, newest.fire)
      IN  /\ c \in Box /\ Same(applied, c) /\ c.play = applied.play
          /\ Delivered(applied, c, scan.press, newest.fire)
    BY <1>1, <1>2, <1>6, DeliverForm
<1> DEFINE c == Merge(b, taken)
<1>9. c \in Box /\ c.queue = b.queue /\ c.last = newest /\ c.applied = newest.tick
      /\ c.folded = None /\ c.wall = 0 /\ c.play = play
      /\ c.silent = b.silent /\ c.newest_posted = b.newest_posted
      /\ Delivered(b, c, scan.press, newest.fire)
    BY <1>5, <1>7, <1>8 DEF Same, Delivered
<1> QED
    BY <1>9 DEF newest, scan, play

\* Whether there is a point to read at.
Idle(b) == b.play = None /\ b.queue = {}

Point(b) == CaughtUp(b, NextPlay(b))

Reached(b) == {m \in b.queue : m.tick <= Point(b)}

LEMMA PointForm ==
    ASSUME NEW b \in Box, ~Idle(b)
    PROVE  LET newest == IF b.newest_posted = None THEN NextPlay(b) ELSE b.newest_posted
           IN  /\ Point(b) \in Nat /\ newest \in Nat
               /\ \/ newest < Point(b) + BufferMax
                  \/ Point(b) = newest - 1
                  \/ b.queue # {} /\ Point(b) = Oldest(b.queue).tick
<1>1. NextPlay(b) \in Nat
    <2>1. CASE b.play # None
        <3>1. b.play \in Nat /\ b.next_step \in Nat
            BY <2>1 DEF Box, Maybe
        <3> QED
            BY <2>1, <3>1 DEF NextPlay
    <2>2. CASE b.play = None
        <3>1. b.queue # {} /\ b.queue \subseteq Intents
            BY <2>2 DEF Idle, Box
        <3>2. Newest(b.queue) \in Intents
            BY <3>1, NewestOf
        <3>3. Newest(b.queue).tick \in Nat
            BY <3>2, NoneIsNothing DEF Intents
        <3> QED
            BY <2>2, <3>3 DEF NextPlay
    <2> QED
        BY <2>1, <2>2
<1> QED
    BY <1>1, CaughtUpForm DEF Point

LEMMA ReadOwnedForm ==
    ASSUME NEW b \in Box
    PROVE  LET c == ReadOwned(b)
           IN  /\ c \in Box
               /\ Idle(b) => Same(b, c) /\ c.play = b.play /\ Starved(b, c)
               /\ ~Idle(b) /\ Reached(b) = {} =>
                    Same(b, c) /\ c.play = Point(b) /\ Starved(b, c)
               /\ ~Idle(b) /\ Reached(b) # {} => Merged(b, c, Reached(b), Point(b))
<1>1. CASE Idle(b)
    <2> DEFINE next == [b EXCEPT !.next_step = 1]
    <2>1. ReadOwned(b) = Starve(next)
        BY <1>1 DEF ReadOwned, Idle
    <2>2. next \in Box /\ Kept(b, next)
        BY DEF Box, Kept, Same
    <2> HIDE DEF next
    <2>3. LET c == Starve(next)
          IN  c \in Box /\ Same(next, c) /\ c.play = next.play /\ Starved(next, c)
        BY <2>2, StarveForm
    <2>4. Same(b, Starve(next)) /\ Starve(next).play = b.play /\ Starved(b, Starve(next))
        BY <2>2, <2>3 DEF Kept, Same, Starved, Delivered
    <2> QED
        BY <1>1, <2>1, <2>3, <2>4
<1>2. CASE ~Idle(b)
    <2> DEFINE play == Point(b)
               taken == Reached(b)
               newest == IF b.newest_posted = None THEN play ELSE b.newest_posted
               missed == taken = {} /\ b.next_step > 0 /\ newest < play
               left == [b EXCEPT !.next_step = 1, !.play = play, !.queue = @ \ taken,
                                 !.reads_since_apply = @ + 1]
               moved == Watch(left, newest - play, missed)
    <2>1. IF taken = {} THEN ReadOwned(b) = Starve(moved) ELSE ReadOwned(b) = Merge(moved, taken)
        BY <1>2 DEF ReadOwned, Idle, Reached, Point
    <2>2. play \in Nat /\ newest \in Nat
        <3>1. b.newest_posted \in Maybe(Ticks)
            BY DEF Box
        <3> QED
            BY <1>2, <3>1, PointForm, NoneIsNothing DEF Maybe
    <2>3. taken \subseteq b.queue /\ taken \subseteq Intents
        BY DEF Reached, Box
    <2>4. b.reads_since_apply + 1 \in Nat /\ b.queue \ taken \in SUBSET Intents
        BY <2>3 DEF Box
    <2> HIDE DEF play, taken, newest
    <2>5. left \in Box
        <3>1. play \in Maybe(Nat) /\ 1 \in 0..2
            BY <2>2 DEF Maybe
        <3> QED
            BY <2>4, <3>1 DEF Box
    <2>6. /\ left.play = play /\ left.queue = b.queue \ taken /\ left.last = b.last
          /\ left.applied = b.applied /\ left.folded = b.folded /\ left.newest_posted = b.newest_posted
          /\ left.silent = b.silent /\ left.wall = b.wall
          /\ left.delivered = b.delivered /\ left.press = b.press /\ left.owed_press = b.owed_press
        BY DEF Box
    <2>7. newest - play \in Int /\ missed \in BOOLEAN
        BY <2>2
    <2> HIDE DEF left, missed
    <2>8. moved \in Box /\ Kept(left, moved)
        BY <2>5, <2>7, WatchForm
    <2> HIDE DEF moved
    <2>9. /\ moved.play = play /\ moved.queue = b.queue \ taken /\ moved.last = b.last
          /\ moved.applied = b.applied /\ moved.folded = b.folded /\ moved.newest_posted = b.newest_posted
          /\ moved.silent = b.silent /\ moved.wall = b.wall
          /\ moved.delivered = b.delivered /\ moved.press = b.press /\ moved.owed_press = b.owed_press
        BY <2>6, <2>8 DEF Kept, Same
    <2>10. CASE taken = {}
        <3> DEFINE c == Starve(moved)
        <3>1. c \in Box /\ Same(moved, c) /\ c.play = moved.play /\ Starved(moved, c)
            BY <2>8, StarveForm
        <3>2. ReadOwned(b) = c
            BY <2>1, <2>10
        <3> HIDE DEF c
        <3>3. b.queue \ taken = b.queue
            BY <2>10
        <3>4. Same(b, c) /\ c.play = play /\ Starved(b, c)
            BY <2>9, <3>1, <3>3 DEF Same, Starved, Delivered
        <3> QED
            BY <1>2, <2>10, <3>1, <3>2, <3>4 DEF play, taken
    <2>11. CASE taken # {}
        <3> DEFINE c == Merge(moved, taken)
                   top == Newest(taken)
        <3>1. /\ c \in Box /\ c.queue = moved.queue /\ c.last = top /\ c.applied = top.tick
              /\ c.folded = None /\ c.wall = 0
              /\ c.silent = moved.silent /\ c.newest_posted = moved.newest_posted
              /\ c.play = IF top.tick + NarrowAhead < moved.play THEN top.tick ELSE moved.play
              /\ Delivered(moved, c, Scan(Begun(moved), taken).press, top.fire)
            BY <2>2, <2>3, <2>8, <2>9, <2>11, MergeForm
        <3>2. ReadOwned(b) = c
            BY <2>1, <2>11
        <3> HIDE DEF c, top
        <3>3. Begun(moved) = Begun(b)
            BY <2>9 DEF Begun, OwnDown
        <3>4. Merged(b, c, taken, play)
            BY <2>9, <3>1, <3>3 DEF Merged, Delivered, top
        <3> QED
            BY <1>2, <2>11, <3>1, <3>2, <3>4 DEF play, taken
    <2> QED
        BY <2>10, <2>11
<1> QED
    BY <1>1, <1>2

\* A read of one intent as it was sent.
TookOne(b, c) ==
    LET m == Oldest(b.queue)
    IN  /\ c.queue = b.queue \ {m} /\ c.last = m /\ c.applied = m.tick
        /\ c.folded = None /\ c.play = None /\ c.wall = b.wall
        /\ c.silent = b.silent /\ c.newest_posted = b.newest_posted

LEMMA TakeOldestForm ==
    ASSUME NEW b \in Box, b.queue # {}
    PROVE  TakeOldest(b) \in Box /\ TookOne(b, TakeOldest(b))
<1> DEFINE m == Oldest(b.queue)
           press == IF m.fire /\ ~b.delivered THEN m.tick ELSE None
<1>1. m \in Intents
    BY BoxForm, OldestOf
<1>2. m.tick \in Maybe(Ticks) /\ m.fire \in BOOLEAN /\ m \in Maybe(Intents) /\ press \in Maybe(Ticks)
    BY <1>1, IntentForm DEF Maybe
<1>3. b.queue \ {m} \in SUBSET Intents
    BY BoxForm
<1>4. 1 \in 0..Larger(1, ReachTicksMax) /\ None \in Maybe(Nat) /\ None \in Maybe(Ticks) /\ None \in Maybe(Scans)
    BY Limits DEF Larger, Maybe
<1> DEFINE c == [b EXCEPT !.queue = @ \ {m}, !.applied = m.tick, !.last = m,
                  !.last_starved = FALSE, !.starved_run = 0, !.reach = 1,
                  !.folded = None, !.owed_press = None, !.play = None,
                  !.press = press, !.delivered = m.fire]
<1>5. TakeOldest(b) = c
    BY DEF TakeOldest
<1> HIDE DEF m, press
<1>6. c \in Box
    BY <1>2, <1>3, <1>4 DEF Box
<1>7. /\ c.queue = b.queue \ {m} /\ c.last = m /\ c.applied = m.tick
      /\ c.folded = None /\ c.play = None /\ c.wall = b.wall
      /\ c.silent = b.silent /\ c.newest_posted = b.newest_posted
    BY DEF Box
<1> HIDE DEF c
<1> QED
    BY <1>5, <1>6, <1>7 DEF TookOne, m

LEMMA StarveOrderedForm ==
    ASSUME NEW b \in Box
    PROVE  StarveOrdered(b) \in Box /\ Same(b, StarveOrdered(b)) /\ StarveOrdered(b).play = b.play
<1>1. 1 \in 0..Larger(1, ReachTicksMax) /\ b.starved_run + 1 \in Nat /\ None \in Maybe(Ticks)
    BY Limits, BoxForm DEF Larger, Maybe
<1> QED
    BY <1>1 DEF StarveOrdered, Box, Same

\* The five things a read may be.
Unheard(b) == b.silent = None \/ CoastedOut(b)

LEMMA ReadForm ==
    ASSUME NEW b \in Box
    PROVE  LET c == ReadBox(b)
           IN  /\ c \in Box
               /\ b.silent = None => c = b
               /\ b.silent # None /\ CoastedOut(b) => Same(b, c) /\ c.play = None
               /\ ~Unheard(b) /\ IsOwned(b) => c = ReadOwned(b)
               /\ ~Unheard(b) /\ ~IsOwned(b) /\ b.queue # {} => TookOne(b, c)
               /\ ~Unheard(b) /\ ~IsOwned(b) /\ b.queue = {} => Same(b, c) /\ c.play = b.play
<1>1. CASE b.silent = None
    <2>1. ReadBox(b) = b /\ Unheard(b) /\ ~CoastedOut(b)
        BY <1>1 DEF ReadBox, Unheard, CoastedOut
    <2> QED
        BY <1>1, <2>1
<1>2. CASE b.silent # None /\ CoastedOut(b)
    <2>1. ReadBox(b) = [b EXCEPT !.play = None] /\ Unheard(b)
        BY <1>2 DEF ReadBox, Unheard
    <2>2. [b EXCEPT !.play = None] \in Box /\ Same(b, [b EXCEPT !.play = None])
        BY DEF Box, Same, Maybe
    <2>3. [b EXCEPT !.play = None].play = None
        BY DEF Box
    <2> QED
        BY <1>2, <2>1, <2>2, <2>3
<1>3. CASE ~Unheard(b) /\ IsOwned(b)
    <2>1. ReadBox(b) = ReadOwned(b) /\ b.silent # None
        BY <1>3 DEF ReadBox, Unheard
    <2>2. ReadOwned(b) \in Box
        BY ReadOwnedForm
    <2> QED
        BY <1>3, <2>1, <2>2 DEF Unheard
<1>4. CASE ~Unheard(b) /\ ~IsOwned(b) /\ b.queue # {}
    <2>1. ReadBox(b) = TakeOldest(b) /\ b.silent # None
        BY <1>4 DEF ReadBox, Unheard
    <2> QED
        BY <1>4, <2>1, TakeOldestForm DEF Unheard
<1>5. CASE ~Unheard(b) /\ ~IsOwned(b) /\ b.queue = {}
    <2>1. ReadBox(b) = StarveOrdered(b) /\ b.silent # None
        BY <1>5 DEF ReadBox, Unheard
    <2> QED
        BY <1>5, <2>1, StarveOrderedForm DEF Unheard
<1> QED
    BY <1>1, <1>2, <1>3, <1>4, <1>5 DEF Unheard

\* A seat says whose it is by what it holds, so what is read is typed, and
\* what it leaves behind is newer than what it applied.
LEMMA ReadOfType ==
    ASSUME NEW b \in Box, NEW c \in Box
    PROVE  ReadOf(b, c) \in Maybe(Intents)
<1>1. CASE Unheard(b) \/ c.last = None
    BY <1>1 DEF ReadOf, Unheard, Maybe
<1>2. CASE ~Unheard(b) /\ c.last # None
    <2>1. c.last \in Intents /\ c.delivered \in BOOLEAN
        BY <1>2, BoxForm
    <2>2. [c.last EXCEPT !.fire = c.delivered] \in Intents
        BY <2>1 DEF Intents
    <2> QED
        BY <1>2, <2>1, <2>2 DEF ReadOf, Unheard, Maybe
<1> QED
    BY <1>1, <1>2

Fresh(b) == b.applied # None => \A m \in b.queue : m.tick > b.applied

\* Taking the first of the queue, up to somewhere.
LEMMA ReadTakes ==
    ASSUME NEW b \in Box, Held(b.queue), Fresh(b)
    PROVE  LET c == ReadBox(b)
           IN  /\ Held(c.queue) /\ Fresh(c)
               /\ b.applied # None => c.applied # None /\ c.applied >= b.applied
               /\ c.wall \in {None, 0, b.wall}
<1> DEFINE c == ReadBox(b)
<1> SUFFICES /\ Held(c.queue) /\ Fresh(c)
             /\ b.applied # None => c.applied # None /\ c.applied >= b.applied
             /\ c.wall \in {None, 0, b.wall}
    OBVIOUS
<1>1. CASE c.queue = b.queue /\ c.applied = b.applied /\ c.wall = b.wall
    <2> HIDE DEF c
    <2> QED
        BY <1>1, BoxForm DEF Fresh
<1>2. ASSUME NEW taken, taken \subseteq b.queue, taken # {},
             \A m \in taken : \A n \in b.queue \ taken : m.tick < n.tick,
             c.queue = b.queue \ taken, c.applied = Newest(taken).tick, c.wall \in {0, b.wall}
      PROVE  /\ Held(c.queue) /\ Fresh(c)
             /\ b.applied # None => c.applied # None /\ c.applied >= b.applied
             /\ c.wall \in {None, 0, b.wall}
    <2> HIDE DEF c
    <2>1. b.queue \subseteq Intents /\ Newest(taken) \in taken
        BY <1>2, BoxForm, NewestOf
    <2>2. Newest(taken).tick \in Nat /\ Newest(taken).tick # None
        BY <1>2, <2>1, IntentForm, Limits
    <2>3. Held(c.queue)
        <3>1. IsFiniteSet(b.queue \ taken) /\ Cardinality(b.queue \ taken) <= Cardinality(b.queue)
            BY FS_Subset DEF Held
        <3>2. Cardinality(b.queue \ taken) \in Nat /\ Cardinality(b.queue) \in Nat /\ BufferMax \in Nat
            BY <3>1, FS_CardinalityType, Limits DEF Held
        <3>3. Cardinality(b.queue \ taken) <= BufferMax
            BY <3>1, <3>2 DEF Held
        <3> QED
            BY <1>2, <3>1, <3>3 DEF Held, Unique
    <2>4. Fresh(c)
        BY <1>2, <2>1, IntentForm DEF Fresh
    <2>5. b.applied # None => c.applied # None /\ c.applied >= b.applied
        BY <1>2, <2>1, <2>2, BoxForm DEF Fresh
    <2> QED
        BY <1>2, <2>3, <2>4, <2>5
<1>3. CASE Unheard(b) \/ (~IsOwned(b) /\ b.queue = {})
    BY <1>1, <1>3, ReadForm DEF Same, Unheard
<1>4. CASE ~Unheard(b) /\ IsOwned(b)
    <2>1. c = ReadOwned(b)
        BY <1>4, ReadForm
    <2>2. CASE Idle(b) \/ Reached(b) = {}
        BY <1>1, <2>1, <2>2, ReadOwnedForm DEF Same
    <2>3. CASE ~Idle(b) /\ Reached(b) # {}
        <3>1. Merged(b, c, Reached(b), Point(b))
            BY <2>1, <2>3, ReadOwnedForm
        <3>2. Point(b) \in Nat
            BY <2>3, PointForm
        <3>3. \A n \in b.queue : n.tick \in Nat
            BY BoxForm, IntentForm
        <3>4. /\ Reached(b) \subseteq b.queue
              /\ \A m \in Reached(b) : \A n \in b.queue \ Reached(b) : m.tick < n.tick
            BY <3>2, <3>3 DEF Reached
        <3>5. /\ c.queue = b.queue \ Reached(b) /\ c.applied = Newest(Reached(b)).tick
              /\ c.wall \in {0, b.wall}
            BY <3>1 DEF Merged
        <3> HIDE DEF c
        <3> QED
            BY <1>2, <2>3, <3>4, <3>5
    <2> QED
        BY <2>2, <2>3
<1>5. CASE ~Unheard(b) /\ ~IsOwned(b) /\ b.queue # {}
    <2>1. TookOne(b, c)
        BY <1>5, ReadForm
    <2> DEFINE m == Oldest(b.queue)
    <2>2. m \in b.queue /\ \A n \in b.queue : m.tick <= n.tick
        BY <1>5, BoxForm, OldestOf
    <2>3. \A n \in b.queue : n.tick \in Nat
        BY BoxForm, IntentForm
    <2> HIDE DEF m, c
    <2>4. \A n \in b.queue \ {m} : m.tick < n.tick
        BY <2>2, <2>3 DEF Held, Unique
    <2>5. Newest({m}) = m
        <3>1. {m} \subseteq Intents
            BY <2>2, BoxForm
        <3> QED
            BY <3>1, NewestOf
    <2>6. c.queue = b.queue \ {m} /\ c.applied = m.tick /\ c.wall \in {0, b.wall}
        BY <2>1 DEF TookOne, m
    <2> QED
        BY <1>2, <2>2, <2>4, <2>5, <2>6
<1> QED
    BY <1>3, <1>4, <1>5

----------------------------------------------------------------------------
(***************************************************************************)
(* Every operation keeps to the types, and reads forward.                  *)
(***************************************************************************)

Clients == [tick : Ticks, held : 0..FireHoldTicks, fire : BOOLEAN, due : 0..SendCatchUpTicks]

Rounds == [held : BOOLEAN, fired : Maybe(Ticks)]

EnvType ==
    /\ periods \in 0..MaxPeriods
    /\ client \in Clients /\ client.tick + client.due <= periods
    /\ link \in Seq(Intents) /\ stray \in Seq(Intents)
    /\ reclaims \in 0..MaxReclaims /\ owed \in 0..RoomStall
    /\ round \in Rounds

BoxType ==
    /\ inner \in Box /\ read \in Maybe(Intents)
    /\ Held(inner.queue) /\ Fresh(inner)
    /\ inner.wall # None => inner.wall <= periods

InputInv == EnvType /\ BoxType

LEMMA ClientForm ==
    ASSUME client \in Clients
    PROVE  /\ client.tick \in Ticks /\ client.tick \in Nat /\ client.tick \in Int
           /\ client.held \in 0..FireHoldTicks /\ client.fire \in BOOLEAN
           /\ client.due \in 0..SendCatchUpTicks /\ client.due \in Nat
<1>1. /\ client.tick \in Ticks /\ client.held \in 0..FireHoldTicks /\ client.fire \in BOOLEAN
      /\ client.due \in 0..SendCatchUpTicks
    BY DEF Clients
<1>2. client.tick \in Nat
    BY <1>1, NoneIsNothing
<1> QED
    BY <1>1, <1>2, Limits

LEMMA PostType ==
    ASSUME NEW b \in Box, NEW m \in Intents, Held(b.queue), Fresh(b)
    PROVE  /\ Posted(b, m) \in Box /\ Held(Posted(b, m).queue) /\ Fresh(Posted(b, m))
           /\ Posted(b, m).wall = b.wall /\ Posted(b, m).applied = b.applied
<1> DEFINE c == Posted(b, m)
<1>1. c \in Box /\ Held(c.queue) /\ Unread(b, c)
    BY PostedForm
<1>2. CASE Straggler(b, m)
    <2>1. c.queue = b.queue
        BY <1>2, PostedForm
    <2> HIDE DEF c
    <2> QED
        BY <1>1, <2>1 DEF Unread, Fresh, c
<1>3. CASE ~Straggler(b, m)
    <2>1. c.queue \subseteq Added(b, m)
        <3> DEFINE q == Added(b, m)
                   over == IF Cardinality(q) <= BufferMax THEN {} ELSE {Oldest(q)}
        <3>1. c.queue = q \ over
            BY <1>3, PostedForm
        <3> HIDE DEF c, over
        <3> QED
            BY <3>1
    <2>2. b.applied # None => m.tick > b.applied
        BY <1>3, BoxForm, IntentForm DEF Straggler
    <2> HIDE DEF c
    <2> QED
        BY <1>1, <2>1, <2>2 DEF Unread, Fresh, Added, c
<1> QED
    BY <1>2, <1>3

LEMMA InitInput == InputInit => InputInv
<1> SUFFICES ASSUME InputInit PROVE InputInv
    OBVIOUS
<1> USE DEF InputInit
<1>1. NewClient \in Clients /\ NewClient.tick + NewClient.due <= 0
    BY Limits, NoneIsNothing DEF NewClient, Clients
<1>2. EnvType
    BY <1>1, Limits DEF EnvType, Rounds, Maybe
<1>3. inner = Empty /\ Empty.queue = {} /\ Empty.applied = None /\ Empty.wall = None /\ read = None
    BY DEF MailboxInit, Empty
<1>4. Held({})
    BY FS_EmptySet, Limits DEF Held, Unique
<1>5. BoxType
    BY <1>3, <1>4, EmptyType DEF BoxType, Fresh, Maybe
<1> QED
    BY <1>2, <1>5 DEF InputInv

LEMMA PeriodKeeps == InputInv /\ Period => InputInv' /\ inner'.applied = inner.applied
<1> SUFFICES ASSUME InputInv, Period PROVE InputInv' /\ inner'.applied = inner.applied
    OBVIOUS
<1>1. periods' \in 0..MaxPeriods /\ owed' \in 0..RoomStall
    <2>1. periods \in 0..MaxPeriods /\ owed \in 0..RoomStall
        BY DEF InputInv, EnvType
    <2>2. periods < MaxPeriods /\ periods' = periods + 1 /\ owed < RoomStall /\ owed' = owed + 1
        BY DEF Period
    <2> QED
        BY <2>1, <2>2, Limits
<1>2. client' \in Clients /\ client'.tick + client'.due <= periods'
    <2> DEFINE due == Smaller(client.due + 1, SendCatchUpTicks)
    <2>1. /\ client.tick \in Nat /\ client.due \in Nat /\ client.due <= SendCatchUpTicks
          /\ client.tick + client.due <= periods /\ periods \in Nat
        BY ClientForm DEF InputInv, EnvType
    <2>2. due \in 0..SendCatchUpTicks /\ due <= client.due + 1 /\ due \in Nat
        BY <2>1, Limits DEF Smaller
    <2>3. client' = [client EXCEPT !.due = due] /\ periods' = periods + 1
        BY DEF Period
    <2> HIDE DEF due
    <2>4. client' \in Clients /\ client'.tick = client.tick /\ client'.due = due
        BY <2>2, <2>3 DEF InputInv, EnvType, Clients
    <2> QED
        BY <2>1, <2>2, <2>3, <2>4
<1>3. EnvType'
    BY <1>1, <1>2 DEF InputInv, EnvType, Period
<1> DEFINE silent == IF inner.silent = None THEN None ELSE Smaller(inner.silent + 1, IntentCoast + 1)
           wall == IF inner.wall = None THEN None ELSE inner.wall + 1
<1>4. inner' = [inner EXCEPT !.silent = silent, !.wall = wall] /\ read' = read
    BY DEF Period, Age
<1>5. inner \in Box /\ read \in Maybe(Intents)
    BY DEF InputInv, BoxType
<1>6. silent \in Maybe(0..(IntentCoast + 1)) /\ wall \in Maybe(Nat) /\ (wall # None => wall <= periods')
    <2>1. inner.silent # None => inner.silent \in Nat
        BY <1>5, BoxForm
    <2>2. inner.wall # None => inner.wall \in Nat /\ inner.wall <= periods
        BY <1>5, BoxForm DEF InputInv, BoxType
    <2>3. periods' = periods + 1 /\ periods \in Nat
        BY DEF Period, InputInv, EnvType
    <2> QED
        BY <2>1, <2>2, <2>3, Limits DEF Smaller, Maybe
<1> HIDE DEF silent, wall
<1>7. /\ inner' \in Box /\ inner'.queue = inner.queue /\ inner'.applied = inner.applied
      /\ inner'.wall = wall
    BY <1>4, <1>5, <1>6 DEF Box
<1>8. BoxType'
    <2>1. Held(inner'.queue) /\ Fresh(inner')
        BY <1>7 DEF InputInv, BoxType, Fresh
    <2> QED
        BY <1>4, <1>5, <1>6, <1>7, <2>1 DEF BoxType
<1> QED
    BY <1>3, <1>7, <1>8 DEF InputInv

LEMMA DriveKeeps == InputInv /\ Drive => InputInv' /\ inner' = inner
<1> SUFFICES ASSUME InputInv, Drive PROVE InputInv' /\ inner' = inner
    OBVIOUS
<1>1. PICK pressing \in Triggers, owned \in Owns :
        /\ client' = [Prepared(pressing) EXCEPT !.tick = @ + 1, !.due = @ - 1]
        /\ link' = Append(link, Intent(client.tick, Prepared(pressing).fire, owned))
    BY DEF Drive
<1>2. pressing \in BOOLEAN /\ owned \in BOOLEAN
    BY SeatInputAssumption
<1> DEFINE sent == Prepared(pressing)
<1>3. /\ client.tick \in Nat /\ client.due \in Nat /\ client.due > 0 /\ client.due <= SendCatchUpTicks
      /\ client.tick + client.due <= periods /\ periods \in Nat /\ periods <= MaxPeriods
      /\ client.held \in Nat /\ client.held <= FireHoldTicks /\ client \in Clients
    <2>1. client \in Clients /\ client.tick + client.due <= periods /\ periods \in 0..MaxPeriods
        BY DEF InputInv, EnvType
    <2>2. client.due > 0
        BY DEF Drive
    <2> QED
        BY <2>1, <2>2, ClientForm, Limits
<1>4. sent \in Clients /\ sent.tick = client.tick /\ sent.due = client.due
    <2>1. FireHoldTicks - 1 \in 0..FireHoldTicks /\ (client.held > 0 => client.held - 1 \in 0..FireHoldTicks)
        BY <1>3, Limits
    <2> QED
        BY <1>2, <1>3, <2>1 DEF Prepared, Clients
<1> HIDE DEF sent
<1>5. client' = [sent EXCEPT !.tick = sent.tick + 1, !.due = sent.due - 1]
    BY <1>1 DEF sent
<1>6. client.tick + 1 \in Ticks /\ client.due - 1 \in 0..SendCatchUpTicks /\ client.tick \in Ticks
    BY <1>3, Limits DEF Ticks
<1>7. client' \in Clients /\ client'.tick = client.tick + 1 /\ client'.due = client.due - 1
    BY <1>4, <1>5, <1>6 DEF Clients
<1>8. client'.tick + client'.due <= periods
    BY <1>3, <1>7
<1>9. link' \in Seq(Intents)
    <2>1. Intent(client.tick, sent.fire, owned) \in Intents
        BY <1>2, <1>4, <1>6 DEF Intent, Intents, Clients
    <2>2. link' = Append(link, Intent(client.tick, sent.fire, owned)) /\ link \in Seq(Intents)
        BY <1>1 DEF sent, InputInv, EnvType
    <2> QED
        BY <2>1, <2>2
<1>10. EnvType'
    BY <1>7, <1>8, <1>9 DEF Drive, InputInv, EnvType
<1>11. BoxType' /\ inner' = inner
    BY DEF Drive, InputInv, BoxType, mailboxVars
<1> QED
    BY <1>10, <1>11 DEF InputInv

LEMMA Elements ==
    ASSUME NEW S, NEW s \in Seq(S), NEW i \in DOMAIN s
    PROVE  s[i] \in S
OBVIOUS

\* One taken out of a sequence.
LEMMA RemoveForm ==
    ASSUME NEW S, NEW s \in Seq(S), NEW i \in 1..Len(s)
    PROVE  /\ RemoveAt(s, i) \in Seq(S) /\ Len(RemoveAt(s, i)) = Len(s) - 1
           /\ \A j \in 1..(Len(s) - 1) : RemoveAt(s, i)[j] = IF j < i THEN s[j] ELSE s[j + 1]
<1> DEFINE before == SubSeq(s, 1, i - 1)
           after == SubSeq(s, i + 1, Len(s))
<1>1. Len(s) \in Nat /\ i \in Nat /\ 1 <= i /\ i <= Len(s)
    OBVIOUS
<1>2. \A j \in 1..Len(s) : s[j] \in S
    BY Elements
<1>3. /\ before \in Seq(S) /\ Len(before) = i - 1
      /\ \A j \in 1..(i - 1) : before[j] = s[j]
    <2>1. /\ before \in Seq(S) /\ Len(before) = IF 1 <= i - 1 THEN (i - 1) - 1 + 1 ELSE 0
          /\ \A j \in 1..((i - 1) - 1 + 1) : before[j] = s[1 + j - 1]
        <3>1. \A j \in 1..(i - 1) : s[j] \in S
            BY <1>1, <1>2
        <3> HIDE DEF before
        <3> QED
            BY <1>1, <3>1, SubSeqProperties DEF before
    <2> HIDE DEF before
    <2>2. Len(before) = i - 1
        BY <1>1, <2>1
    <2>3. \A j \in 1..(i - 1) : j \in 1..((i - 1) - 1 + 1) /\ 1 + j - 1 = j
        BY <1>1
    <2> QED
        BY <2>1, <2>2, <2>3
<1>4. /\ after \in Seq(S) /\ Len(after) = Len(s) - i
      /\ \A j \in 1..(Len(s) - i) : after[j] = s[i + j]
    <2>1. /\ after \in Seq(S) /\ Len(after) = IF i + 1 <= Len(s) THEN Len(s) - (i + 1) + 1 ELSE 0
          /\ \A j \in 1..(Len(s) - (i + 1) + 1) : after[j] = s[(i + 1) + j - 1]
        <3>1. \A j \in (i + 1)..Len(s) : s[j] \in S
            BY <1>1, <1>2
        <3> HIDE DEF after
        <3> QED
            BY <1>1, <3>1, SubSeqProperties DEF after
    <2> HIDE DEF after
    <2>2. Len(after) = Len(s) - i
        BY <1>1, <2>1
    <2>3. \A j \in 1..(Len(s) - i) : j \in 1..(Len(s) - (i + 1) + 1) /\ (i + 1) + j - 1 = i + j
        BY <1>1
    <2> QED
        BY <2>1, <2>2, <2>3
<1>5. RemoveAt(s, i) = before \o after
    BY DEF RemoveAt
<1> HIDE DEF before, after
<1>6. /\ before \o after \in Seq(S) /\ Len(before \o after) = Len(before) + Len(after)
      /\ \A j \in 1..(Len(before) + Len(after)) :
            (before \o after)[j] = IF j <= Len(before) THEN before[j] ELSE after[j - Len(before)]
    BY <1>3, <1>4, ConcatProperties
<1>7. Len(before) + Len(after) = Len(s) - 1
    BY <1>1, <1>3, <1>4
<1>8. ASSUME NEW j \in 1..(Len(s) - 1)
      PROVE  (before \o after)[j] = IF j < i THEN s[j] ELSE s[j + 1]
    <2>1. (before \o after)[j] = IF j <= i - 1 THEN before[j] ELSE after[j - (i - 1)]
        BY <1>3, <1>6, <1>7
    <2>2. CASE j < i
        <3>1. j \in 1..(i - 1) /\ j <= i - 1
            BY <1>1, <2>2
        <3> QED
            BY <1>3, <2>1, <2>2, <3>1
    <2>3. CASE ~(j < i)
        <3>1. j - (i - 1) \in 1..(Len(s) - i) /\ ~(j <= i - 1) /\ i + (j - (i - 1)) = j + 1
            BY <1>1, <2>3
        <3> QED
            BY <1>4, <2>1, <2>3, <3>1
    <2> QED
        BY <2>2, <2>3
<1> QED
    BY <1>5, <1>6, <1>7, <1>8

LEMMA ArriveKeeps == InputInv /\ Arrive => InputInv' /\ inner'.applied = inner.applied
<1> SUFFICES ASSUME InputInv, Arrive PROVE InputInv' /\ inner'.applied = inner.applied
    OBVIOUS
<1>1. link \in Seq(Intents)
    BY DEF InputInv, EnvType
<1>2. PICK i \in 1..Smaller(Overtake + 1, Len(link)) : Post(link[i]) /\ link' = RemoveAt(link, i)
    BY DEF Arrive
<1>3. i \in 1..Len(link)
    <2>1. Len(link) \in Nat /\ Smaller(Overtake + 1, Len(link)) <= Len(link)
          /\ Smaller(Overtake + 1, Len(link)) \in Int
        BY <1>1, Limits DEF Smaller
    <2> QED
        BY <1>2, <2>1
<1>4. link[i] \in Intents
    BY <1>1, <1>3, Elements
<1>5. link' \in Seq(Intents)
    BY <1>1, <1>2, <1>3, RemoveForm
<1>6. inner' = Posted(inner, link[i]) /\ read' = read /\ periods' = periods
    BY <1>2 DEF Post, Arrive
<1>7. /\ Posted(inner, link[i]) \in Box /\ Held(Posted(inner, link[i]).queue) /\ Fresh(Posted(inner, link[i]))
      /\ Posted(inner, link[i]).wall = inner.wall /\ Posted(inner, link[i]).applied = inner.applied
    BY <1>4, PostType DEF InputInv, BoxType
<1>8. BoxType' /\ inner'.applied = inner.applied
    BY <1>6, <1>7 DEF InputInv, BoxType
<1>9. EnvType'
    BY <1>5 DEF Arrive, InputInv, EnvType
<1> QED
    BY <1>8, <1>9 DEF InputInv

LEMMA StrayArrivesKeeps == InputInv /\ StrayArrives => InputInv' /\ inner'.applied = inner.applied
<1> SUFFICES ASSUME InputInv, StrayArrives PROVE InputInv' /\ inner'.applied = inner.applied
    OBVIOUS
<1>1. stray \in Seq(Intents) /\ stray # <<>>
    BY DEF InputInv, EnvType, StrayArrives
<1>2. Head(stray) \in Intents /\ Tail(stray) \in Seq(Intents) /\ <<>> \in Seq(Intents)
    BY <1>1, HeadTailProperties
<1>3. EnvType'
    BY <1>2 DEF StrayArrives, InputInv, EnvType
<1>4. CASE inner' = inner /\ read' = read
    BY <1>3, <1>4 DEF StrayArrives, InputInv, BoxType
<1>5. CASE Post(Head(stray))
    <2>1. inner' = Posted(inner, Head(stray)) /\ read' = read /\ periods' = periods
        BY <1>5 DEF Post, StrayArrives
    <2>2. /\ Posted(inner, Head(stray)) \in Box /\ Held(Posted(inner, Head(stray)).queue)
          /\ Fresh(Posted(inner, Head(stray))) /\ Posted(inner, Head(stray)).wall = inner.wall
          /\ Posted(inner, Head(stray)).applied = inner.applied
        BY <1>2, PostType DEF InputInv, BoxType
    <2>3. BoxType' /\ inner'.applied = inner.applied
        BY <2>1, <2>2 DEF InputInv, BoxType
    <2> QED
        BY <1>3, <2>3 DEF InputInv
<1> QED
    BY <1>4, <1>5 DEF StrayArrives, mailboxVars

LEMMA ReclaimKeeps == InputInv /\ Reclaim => InputInv' /\ inner'.applied = None
<1> SUFFICES ASSUME InputInv, Reclaim PROVE InputInv' /\ inner'.applied = None
    OBVIOUS
<1>1. client' \in Clients /\ client'.tick + client'.due <= periods'
    <2>1. client \in Clients /\ client.tick + client.due <= periods /\ periods \in Int
        BY DEF InputInv, EnvType
    <2>2. client.tick \in Nat /\ client.due \in 0..SendCatchUpTicks /\ client.due \in Nat
        BY <2>1, ClientForm
    <2>3. client' \in Clients /\ client'.tick = 0 /\ client'.due = client.due
        <3>1. 0 \in Ticks /\ 0 \in 0..FireHoldTicks
            BY NoneIsNothing, Limits
        <3>2. client' = [NewClient EXCEPT !.due = client.due]
            BY DEF Reclaim
        <3> QED
            BY <2>2, <3>1, <3>2 DEF NewClient, Clients
    <2>4. periods' = periods
        BY DEF Reclaim
    <2> QED
        BY <2>1, <2>2, <2>3, <2>4
<1>2. reclaims' \in 0..MaxReclaims
    <2>1. reclaims \in 0..MaxReclaims /\ reclaims < MaxReclaims /\ reclaims' = reclaims + 1
        BY DEF Reclaim, InputInv, EnvType
    <2> QED
        BY <2>1, Limits
<1>3. EnvType'
    BY <1>1, <1>2 DEF Reclaim, InputInv, EnvType
<1>4. inner' = Empty /\ read' = read
    BY DEF Reclaim, Clear
<1>5. Empty.queue = {} /\ Empty.applied = None /\ Empty.wall = None
    BY DEF Empty
<1>6. Held({})
    BY FS_EmptySet, Limits DEF Held, Unique
<1>7. BoxType'
    BY <1>4, <1>5, <1>6, EmptyType DEF InputInv, BoxType, Fresh
<1> QED
    BY <1>3, <1>4, <1>5, <1>7 DEF InputInv

LEMMA RoomTickKeeps ==
    InputInv /\ RoomTick =>
        InputInv' /\ (inner.applied # None => inner'.applied # None /\ inner'.applied >= inner.applied)
<1> SUFFICES ASSUME InputInv, RoomTick
             PROVE  InputInv' /\ (inner.applied # None => inner'.applied # None /\ inner'.applied >= inner.applied)
    OBVIOUS
<1>1. inner' = ReadBox(inner) /\ read' = ReadOf(inner, inner') /\ periods' = periods
    BY DEF RoomTick, Read
<1>2. inner \in Box /\ Held(inner.queue) /\ Fresh(inner)
    BY DEF InputInv, BoxType
<1>3. inner' \in Box
    BY <1>1, <1>2, ReadForm
<1>4. /\ Held(inner'.queue) /\ Fresh(inner')
      /\ inner.applied # None => inner'.applied # None /\ inner'.applied >= inner.applied
      /\ inner'.wall \in {None, 0, inner.wall}
    BY <1>1, <1>2, ReadTakes
<1>5. read' \in Maybe(Intents)
    BY <1>1, <1>2, <1>3, ReadOfType
<1>6. inner'.wall # None => inner'.wall <= periods'
    <2>1. periods \in Nat /\ (inner.wall # None => inner.wall <= periods)
        BY Limits DEF InputInv, EnvType, BoxType
    <2> QED
        BY <1>1, <1>4, <2>1
<1>7. BoxType'
    BY <1>3, <1>4, <1>5, <1>6 DEF BoxType
<1>8. owed' \in 0..RoomStall
    BY Limits DEF RoomTick, Fire, InputInv, EnvType
<1>9. round' \in Rounds
    <2>1. read' # None => read'.fire \in BOOLEAN
        BY <1>5, IntentForm DEF Maybe
    <2>2. PressTick(inner') \in Ticks
        BY <1>3, BoxForm, NoneIsNothing DEF PressTick
    <2> QED
        BY <2>1, <2>2 DEF RoomTick, Trigger, Rounds, Maybe
<1>10. EnvType'
    BY <1>8, <1>9 DEF RoomTick, InputInv, EnvType
<1> QED
    BY <1>4, <1>7, <1>10 DEF InputInv

LEMMA NextKeeps ==
    InputInv /\ [InputNext]_inputVars =>
        InputInv' /\ (inner.applied # None /\ inner'.applied # None => inner'.applied >= inner.applied)
<1> SUFFICES ASSUME InputInv, [InputNext]_inputVars
             PROVE  /\ InputInv'
                    /\ inner.applied # None /\ inner'.applied # None => inner'.applied >= inner.applied
    OBVIOUS
<1>0. inner.applied # None => inner.applied \in Int
    BY BoxForm DEF InputInv, BoxType
<1>1. CASE Period
    BY <1>0, <1>1, PeriodKeeps
<1>2. CASE Drive
    BY <1>0, <1>2, DriveKeeps
<1>3. CASE Arrive
    BY <1>0, <1>3, ArriveKeeps
<1>4. CASE StrayArrives
    BY <1>0, <1>4, StrayArrivesKeeps
<1>5. CASE Reclaim
    BY <1>5, ReclaimKeeps
<1>6. CASE RoomTick
    BY <1>6, RoomTickKeeps
<1>7. CASE UNCHANGED inputVars
    BY <1>0, <1>7 DEF inputVars, mailboxVars, envVars, InputInv, EnvType, BoxType
<1> QED
    BY <1>1, <1>2, <1>3, <1>4, <1>5, <1>6, <1>7 DEF InputNext

LEMMA InvTypes == InputInv => InputTypeOK
<1> SUFFICES ASSUME InputInv PROVE InputTypeOK
    OBVIOUS
<1>1. inner \in Box
    BY DEF InputInv, BoxType
<1>2. inner.wall \in Maybe(Ticks)
    <2>1. inner.wall # None => inner.wall \in Nat /\ inner.wall <= periods
        BY <1>1, BoxForm DEF InputInv, BoxType
    <2>2. periods \in Nat /\ periods <= MaxPeriods
        BY Limits DEF InputInv, EnvType
    <2> QED
        BY <2>1, <2>2, Limits DEF Maybe, Ticks
<1>3. /\ inner.queue \subseteq Intents /\ inner.last \in Maybe(Intents)
      /\ inner.applied \in Maybe(Ticks) /\ inner.newest_posted \in Maybe(Ticks)
      /\ inner.silent \in Maybe(0..(IntentCoast + 1))
      /\ inner.play \in Maybe(Nat) /\ inner.next_step \in 0..2
      /\ inner.owed_press \in Maybe(Ticks) /\ inner.press \in Maybe(Ticks)
      /\ inner.reach \in 0..Larger(1, ReachTicksMax)
      /\ inner.starved_run \in Nat /\ inner.reads_since_apply \in Nat
    BY <1>1 DEF Box
<1>4. Cardinality(inner.queue) <= BufferMax
    BY DEF InputInv, BoxType, Held
<1> QED
    BY <1>2, <1>3, <1>4 DEF InputTypeOK, InputInv, EnvType, BoxType, Clients, Rounds

\* Types: the queue never holds more than BufferMax, and no tick, wait or
\* count leaves its bounds, whatever the link reorders, however late either
\* clock runs and however often the seat is reclaimed (src/net/mailbox.rs).
THEOREM InputTypeCorrect == InputSpec => []InputTypeOK
<1>1. InputInit => InputInv
    BY InitInput
<1>2. InputInv /\ [InputNext]_inputVars => InputInv'
    BY NextKeeps
<1>3. InputInv => InputTypeOK
    BY InvTypes
<1> QED
    BY <1>1, <1>2, <1>3, PTL DEF InputSpec

\* The tick applied only grows until the mailbox is cleared, on a link that
\* reorders as on one that does not, with a replaced connection's packets
\* still arriving (src/net/mailbox.rs, post and read).
THEOREM HullNeverBack == InputSpec => NeverBack
<1>1. InputInit => InputInv
    BY InitInput
<1>2. InputInv /\ [InputNext]_inputVars => InputInv'
    BY NextKeeps
<1>3. InputInv /\ [InputNext]_inputVars =>
        [inner.applied # None /\ inner'.applied # None => inner'.applied >= inner.applied]_inputVars
    BY NextKeeps
<1> QED
    BY <1>1, <1>2, <1>3, PTL DEF InputSpec, NeverBack

----------------------------------------------------------------------------
(***************************************************************************)
(* One ordered link: what has come and is not yet read is a row of ticks.  *)
(***************************************************************************)

Next(b) == IF b.applied = None THEN 0 ELSE b.applied + 1

\* The queue is the ticks from lo to the last that came.  What is missing
\* between the last applied and lo was let go of, and the trigger of what was
\* the client's own is folded.
Row(b, come, gone, own, lo) ==
    /\ lo \in 0..come
    /\ \A m \in b.queue : lo <= m.tick /\ m.tick < come
    /\ \A t \in lo..(come - 1) : \E m \in b.queue : m.tick = t
    /\ Next(b) <= lo /\ Next(b)..(lo - 1) \subseteq gone
    /\ b.folded = None /\ own => lo = Next(b)
    /\ b.folded # None => b.folded.through = lo - 1 /\ Next(b) < lo

\* A seat is its owner's from the first intent on, or never.
OfOne(b, own) ==
    /\ \A m \in b.queue : m.owned = own
    /\ b.applied = None <=> b.last = None
    /\ b.last # None => b.last.tick = b.applied /\ b.last.owned = own
    /\ ~own => b.folded = None /\ b.play = None

Waiting(b, come) ==
    IF come = 0
    THEN b.silent = None /\ b.newest_posted = None /\ b.last = None /\ b.play = None /\ b.folded = None
    ELSE b.silent # None /\ b.newest_posted = come - 1 /\ (b.queue # {} \/ b.last # None)

Line(b, come, gone, own) ==
    /\ OfOne(b, own) /\ Waiting(b, come)
    /\ \E lo \in Nat : Row(b, come, gone, own, lo)

LEMMA NextForm == ASSUME NEW b \in Box PROVE Next(b) \in Nat
BY BoxForm DEF Next

\* A row is no longer than the queue.
LEMMA RowFits ==
    ASSUME NEW b \in Box, Held(b.queue), NEW come \in Nat, NEW gone, NEW own \in BOOLEAN,
           NEW lo \in Nat, Row(b, come, gone, own, lo)
    PROVE  come - lo <= BufferMax
<1> DEFINE f == [m \in b.queue |-> m.tick]
           T == lo..(come - 1)
<1>1. f \in Surjection(b.queue, T)
    <2>1. \A m \in b.queue : m.tick \in T
        BY BoxForm, IntentForm DEF Row
    <2>2. f \in [b.queue -> T]
        BY <2>1
    <2>3. \A t \in T : \E m \in b.queue : f[m] = t
        BY DEF Row
    <2> QED
        BY <2>2, <2>3 DEF Surjection
<1>2. Cardinality(T) <= Cardinality(b.queue)
    <2> HIDE DEF f, T
    <2> QED
        BY <1>1, FS_Surjection DEF Held
<1>3. Cardinality(T) = IF lo > come - 1 THEN 0 ELSE (come - 1) - lo + 1
    BY FS_Interval
<1>4. Cardinality(b.queue) \in Nat /\ Cardinality(b.queue) <= BufferMax /\ BufferMax \in Nat
    BY FS_CardinalityType, Limits DEF Held
<1> HIDE DEF T
<1> QED
    BY <1>2, <1>3, <1>4

\* A queue a message was put into, its row's first tick given way or not.
Queued(b, c, m, lo, own) ==
    \/ c.queue = b.queue \cup {m} /\ c.folded = b.folded
    \/ \E old \in b.queue :
          /\ old.tick = lo /\ lo < m.tick /\ c.queue = (b.queue \cup {m}) \ {old}
          /\ c.folded = IF own THEN Scan(Begun(b), {old}) ELSE b.folded

\* The next of the link is nobody's straggler: it goes to the end of the row,
\* and where there is no room for it the row's first tick gives way.
LEMMA PostAlong ==
    ASSUME NEW b \in Box, Held(b.queue), NEW come \in Nat, NEW gone, NEW own \in BOOLEAN,
           OfOne(b, own), NEW lo \in Nat, Row(b, come, gone, own, lo),
           NEW m \in Intents, m.tick = come, m.owned = own
    PROVE  ~Straggler(b, m) /\ Queued(b, Posted(b, m), m, lo, own)
<1> DEFINE c == Posted(b, m)
           q == Added(b, m)
           over == IF Cardinality(q) <= BufferMax THEN {} ELSE {Oldest(q)}
           mine == {n \in over : n.owned}
<1>2. Next(b) \in Nat /\ \A n \in b.queue : n.tick \in Nat /\ n \in Intents
    BY NextForm, BoxForm, IntentForm
<1>3. ~Straggler(b, m)
    <2>1. b.applied # None => m.tick > b.applied
        BY BoxForm DEF Row, Next
    <2>2. b.folded # None => m.tick > b.folded.through
        BY DEF Row
    <2>3. /\ b.applied # None => b.applied \in Nat
          /\ b.folded # None => b.folded.through \in Int
        BY BoxForm DEF Row
    <2> QED
        BY <2>1, <2>2, <2>3 DEF Straggler
<1>4. /\ c.queue = q \ over
      /\ c.folded = IF mine = {} THEN b.folded ELSE Scan(Begun(b), mine)
    BY <1>3, PostedForm
<1>5. /\ q \subseteq Intents /\ Unique(q) /\ IsFiniteSet(q) /\ Cardinality(q) <= BufferMax + 1 /\ q # {}
    BY AddedForm
<1>6. q = b.queue \cup {m}
    BY <1>2 DEF Added, Row
<1>7. Cardinality(q) \in Nat /\ BufferMax \in Nat /\ BufferMax > 0
    BY <1>5, FS_CardinalityType, Limits
<1> HIDE DEF c, q, over
<1>10. CASE over = {}
    <2>1. c.queue = b.queue \cup {m} /\ c.folded = b.folded
        BY <1>4, <1>6, <1>10
    <2> QED
        BY <1>3, <2>1 DEF Queued, c
<1>11. CASE over # {}
    <2> DEFINE old == Oldest(q)
    <2>1. over = {old} /\ ~(Cardinality(q) <= BufferMax)
        BY <1>11 DEF over
    <2>2. old \in q /\ \A n \in q : old.tick <= n.tick
        BY <1>5, OldestOf
    <2>3. old.tick = lo /\ old # m /\ lo < come
        <3>1. b.queue # {}
            <4> SUFFICES ASSUME b.queue = {} PROVE FALSE
                OBVIOUS
            <4>1. q = {m}
                BY <1>6
            <4>2. Cardinality({m}) = 1
                BY FS_Singleton
            <4> QED
                BY <1>7, <2>1, <4>1, <4>2
        <3>2. lo < come
            BY <1>2, <3>1 DEF Row
        <3>3. \E n \in b.queue : n.tick = lo
            BY <3>2 DEF Row
        <3>4. old.tick <= lo /\ old.tick \in Nat
            BY <1>2, <1>6, <2>2, <3>3
        <3>5. old # m
            BY <3>2, <3>4
        <3>6. old \in b.queue
            BY <1>6, <2>2, <3>5
        <3> QED
            BY <3>2, <3>4, <3>5, <3>6 DEF Row
    <2>4. old \in b.queue /\ old.owned = own
        BY <1>6, <2>2, <2>3 DEF OfOne
    <2> HIDE DEF old
    <2>5. c.queue = (b.queue \cup {m}) \ {old}
        BY <1>4, <1>6, <2>1
    <2>6. c.folded = IF own THEN Scan(Begun(b), {old}) ELSE b.folded
        <3>1. own => mine = {old}
            BY <2>1, <2>4
        <3>2. ~own => mine = {}
            BY <2>1, <2>4
        <3> QED
            BY <1>4, <3>1, <3>2
    <2> QED
        BY <1>3, <2>3, <2>4, <2>5, <2>6 DEF Queued, c
<1> QED
    BY <1>10, <1>11

\* The row goes on with what was posted.
LEMMA PostKeepsLine ==
    ASSUME NEW b \in Box, Held(b.queue), NEW come \in Nat, NEW gone, NEW own \in BOOLEAN,
           Line(b, come, gone, own),
           NEW m \in Intents, m.tick = come, m.owned = own
    PROVE  LET c == Posted(b, m)
           IN  /\ ~Straggler(b, m)
               /\ Line(c, come + 1, gone \cup {n.tick : n \in b.queue \ c.queue}, own)
<1> DEFINE c == Posted(b, m)
           more == gone \cup {n.tick : n \in b.queue \ c.queue}
<1>1. PICK lo \in Nat : OfOne(b, own) /\ Row(b, come, gone, own, lo)
    BY DEF Line
<1>2. Next(b) \in Nat /\ \A n \in b.queue : n.tick \in Nat /\ n \in Intents
    BY NextForm, BoxForm, IntentForm
<1>3. ~Straggler(b, m) /\ Queued(b, c, m, lo, own)
    BY <1>1, PostAlong
<1>4. /\ Unread(b, c) /\ c.silent = 0
      /\ c.newest_posted = IF b.newest_posted = None THEN m.tick ELSE Larger(b.newest_posted, m.tick)
    BY PostedForm
<1> HIDE DEF c
<1>8. c.newest_posted = come
    <2>1. b.newest_posted = None \/ b.newest_posted = come - 1
        BY DEF Line, Waiting
    <2> QED
        BY <1>4, <2>1 DEF Larger
<1>9. c.silent # None /\ c.last = b.last /\ c.applied = b.applied /\ c.play = b.play /\ Next(c) = Next(b)
    BY <1>4, Limits DEF Unread, Next
\* Room for it.
<1>10. CASE c.queue = b.queue \cup {m} /\ c.folded = b.folded
    <2>1. gone \subseteq more
        OBVIOUS
    <2> HIDE DEF more
    <2>2. Row(c, come + 1, more, own, lo)
        BY <1>1, <1>2, <1>9, <1>10, <2>1 DEF Row
    <2>3. OfOne(c, own)
        BY <1>1, <1>9, <1>10 DEF OfOne
    <2>4. Waiting(c, come + 1)
        BY <1>8, <1>9, <1>10 DEF Waiting
    <2> QED
        BY <1>3, <2>2, <2>3, <2>4 DEF Line, c, more
\* The oldest gives way.
<1>11. CASE \E old \in b.queue :
               /\ old.tick = lo /\ lo < m.tick /\ c.queue = (b.queue \cup {m}) \ {old}
               /\ c.folded = IF own THEN Scan(Begun(b), {old}) ELSE b.folded
    <2>1. PICK old \in b.queue :
               /\ old.tick = lo /\ lo < m.tick /\ c.queue = (b.queue \cup {m}) \ {old}
               /\ c.folded = IF own THEN Scan(Begun(b), {old}) ELSE b.folded
        BY <1>11
    <2>2. old # m /\ m \in c.queue /\ old \in Intents
        BY <1>2, <2>1
    <2>3. lo \in more /\ gone \subseteq more
        BY <2>1, <2>2
    <2>4. /\ own => c.folded # None /\ c.folded.through = lo
          /\ ~own => c.folded = None
        <3>1. CASE own
            <4>1. Newest({old}) = old
                BY <2>2, NewestOf
            <4>2. /\ Scan(Begun(b), {old}) \in Scans
                  /\ Scan(Begun(b), {old}).through = Newest({old}).tick
                BY <2>2, BegunType, ScanForm
            <4>3. c.folded # None
                BY <2>1, <3>1, <4>2, NoneIsNothing
            <4> QED
                BY <2>1, <3>1, <4>1, <4>2, <4>3
        <3>2. CASE ~own
            BY <1>1, <2>1, <3>2 DEF OfOne
        <3> QED
            BY <3>1, <3>2
    <2> HIDE DEF more
    <2>5. Row(c, come + 1, more, own, lo + 1)
        <3>1. \A n \in c.queue : lo + 1 <= n.tick /\ n.tick < come + 1
            <4>1. \A n \in b.queue : n.tick = lo => n = old
                BY <2>1 DEF Held, Unique
            <4>2. \A n \in c.queue : n.tick # lo
                BY <2>1, <4>1
            <4>3. \A n \in c.queue : n.tick \in Nat /\ lo <= n.tick /\ n.tick <= come
                BY <1>1, <1>2, <2>1 DEF Row
            <4> QED
                BY <4>2, <4>3
        <3>2. ASSUME NEW t \in (lo + 1)..(come + 1 - 1)
              PROVE  \E n \in c.queue : n.tick = t
            <4>1. CASE t = come
                BY <2>2, <4>1
            <4>2. CASE t # come
                <5>1. t \in lo..(come - 1) /\ t # lo
                    BY <4>2
                <5>2. PICK n \in b.queue : n.tick = t
                    BY <1>1, <5>1 DEF Row
                <5> QED
                    BY <2>1, <5>1, <5>2
            <4> QED
                BY <4>1, <4>2
        <3>3. Next(b)..lo \subseteq more
            BY <1>1, <1>2, <2>3 DEF Row
        <3>4. Next(c) <= lo + 1 /\ Next(c)..(lo + 1 - 1) \subseteq more /\ Next(c) < lo + 1
            BY <1>1, <1>2, <1>9, <3>3 DEF Row
        <3> QED
            BY <2>1, <2>4, <3>1, <3>2, <3>4 DEF Row
    <2>6. OfOne(c, own)
        BY <1>1, <1>9, <2>1, <2>4 DEF OfOne
    <2>7. Waiting(c, come + 1)
        BY <1>8, <1>9, <2>2 DEF Waiting
    <2>8. lo + 1 \in Nat
        OBVIOUS
    <2>9. Line(c, come + 1, more, own)
        BY <2>5, <2>6, <2>7, <2>8 DEF Line
    <2> QED
        BY <1>3, <2>9 DEF c, more
<1> QED
    BY <1>3, <1>10, <1>11 DEF Queued

\* The point takes the row up to some tick of it, and nothing out of its
\* middle.
LEMMA ReachedRow ==
    ASSUME NEW b \in Box, Held(b.queue), NEW come \in Nat, NEW gone, NEW own \in BOOLEAN,
           NEW lo \in Nat, Row(b, come, gone, own, lo), ~Idle(b), Reached(b) # {}
    PROVE  LET t == Newest(Reached(b)).tick
           IN  /\ Newest(Reached(b)) \in b.queue /\ t \in lo..(come - 1)
               /\ \A m \in Reached(b) : m \in b.queue /\ lo <= m.tick /\ m.tick <= t
               /\ \A s \in lo..t : \E m \in Reached(b) : m.tick = s
               /\ \A m \in b.queue \ Reached(b) : t < m.tick
               /\ t < Point(b) => t = come - 1
<1> DEFINE t == Newest(Reached(b)).tick
<1>1. Point(b) \in Nat
    BY PointForm
<1>2. \A m \in b.queue : m.tick \in Nat /\ m \in Intents
    BY BoxForm, IntentForm
<1>3. Reached(b) \subseteq b.queue /\ Reached(b) \subseteq Intents
    BY <1>2 DEF Reached
<1>4. Newest(Reached(b)) \in Reached(b) /\ \A m \in Reached(b) : m.tick <= t
    BY <1>3, NewestOf
<1>5. t \in Nat /\ t <= Point(b)
    BY <1>2, <1>3, <1>4 DEF Reached
<1>6. t \in lo..(come - 1)
    BY <1>2, <1>3, <1>4 DEF Row
<1> HIDE DEF t
<1>7. \A s \in lo..t : \E m \in Reached(b) : m.tick = s
    <2> SUFFICES ASSUME NEW s \in lo..t PROVE \E m \in Reached(b) : m.tick = s
        OBVIOUS
    <2>1. s \in lo..(come - 1) /\ s <= Point(b)
        BY <1>1, <1>5, <1>6
    <2>2. PICK m \in b.queue : m.tick = s
        BY <2>1 DEF Row
    <2> QED
        BY <2>1, <2>2 DEF Reached
<1>8. \A m \in b.queue \ Reached(b) : t < m.tick
    BY <1>1, <1>2, <1>5 DEF Reached
<1>9. t < Point(b) => t = come - 1
    <2> SUFFICES ASSUME t < Point(b), t # come - 1 PROVE FALSE
        OBVIOUS
    <2>1. t + 1 \in lo..(come - 1) /\ t + 1 <= Point(b)
        BY <1>1, <1>5, <1>6
    <2>2. PICK m \in b.queue : m.tick = t + 1
        BY <2>1 DEF Row
    <2>3. m \in Reached(b)
        BY <2>1, <2>2 DEF Reached
    <2> QED
        BY <1>4, <1>5, <2>2, <2>3
<1>10. \A m \in Reached(b) : m \in b.queue /\ lo <= m.tick /\ m.tick <= t
    BY <1>3, <1>4 DEF Row
<1> QED
    BY <1>3, <1>4, <1>6, <1>7, <1>8, <1>9, <1>10 DEF t

\* Whose the seat is, is what a read takes it for.
LEMMA ReadAsOwn ==
    ASSUME NEW b \in Box, NEW come \in Nat, NEW gone, NEW own \in BOOLEAN,
           Line(b, come, gone, own), come > 0
    PROVE  IsOwned(b) = own
<1>1. CASE b.queue # {}
    <2>1. Newest(b.queue) \in b.queue
        BY <1>1, BoxForm, NewestOf
    <2>2. Newest(b.queue).owned = own
        BY <2>1 DEF Line, OfOne
    <2> QED
        BY <1>1, <2>2 DEF IsOwned
<1>2. CASE b.queue = {}
    <2>1. b.last # None /\ b.last.owned = own
        BY <1>2 DEF Line, OfOne, Waiting
    <2> QED
        BY <1>2, <2>1 DEF IsOwned
<1> QED
    BY <1>1, <1>2

\* A read that takes nothing.
LEMMA SameLine ==
    ASSUME NEW b \in Box, NEW c \in Box, NEW come \in Nat, NEW gone, NEW own \in BOOLEAN,
           Line(b, come, gone, own), Same(b, c), come > 0, ~own => c.play = None
    PROVE  Line(c, come, gone, own)
<1>1. PICK lo \in Nat : Row(b, come, gone, own, lo)
    BY DEF Line
<1>2. Next(c) = Next(b)
    BY DEF Next, Same
<1>3. Row(c, come, gone, own, lo)
    BY <1>1, <1>2 DEF Row, Same
<1>4. OfOne(c, own) /\ Waiting(c, come)
    BY DEF Line, OfOne, Waiting, Same
<1> QED
    BY <1>3, <1>4 DEF Line

LEMMA ReadKeepsLine ==
    ASSUME NEW b \in Box, Held(b.queue), NEW come \in Nat, NEW gone, NEW own \in BOOLEAN,
           Line(b, come, gone, own)
    PROVE  LET c == ReadBox(b)
           IN  /\ Line(c, come, gone, own)
               /\ ~own /\ c.applied # b.applied =>
                    c.applied >= Next(b) /\ Next(b)..(c.applied - 1) \subseteq gone
               /\ BufferMax > 1 /\ c.play # None => c.newest_posted - c.play < BufferMax
<1> DEFINE c == ReadBox(b)
<1> SUFFICES /\ Line(c, come, gone, own)
             /\ ~own /\ c.applied # b.applied =>
                  c.applied >= Next(b) /\ Next(b)..(c.applied - 1) \subseteq gone
             /\ BufferMax > 1 /\ c.play # None => c.newest_posted - c.play < BufferMax
    OBVIOUS
<1>1. PICK lo \in Nat : Row(b, come, gone, own, lo)
    BY DEF Line
<1>2. c \in Box
    BY ReadForm
<1>3. CASE come = 0
    <2>1. b.silent = None /\ b.play = None
        BY <1>3 DEF Line, Waiting
    <2>2. c = b
        BY <2>1, ReadForm
    <2> HIDE DEF c
    <2> QED
        BY <2>1, <2>2
<1>4. CASE come > 0
    <2>1. b.silent # None /\ b.newest_posted = come - 1
        BY <1>4 DEF Line, Waiting
    <2>2. IsOwned(b) = own
        BY <1>4, ReadAsOwn
    <2>3. CASE CoastedOut(b)
        <3>1. Same(b, c) /\ c.play = None
            BY <2>1, <2>3, ReadForm
        <3> HIDE DEF c
        <3>2. Line(c, come, gone, own)
            BY <1>2, <1>4, <3>1, SameLine
        <3> QED
            BY <3>1, <3>2 DEF Same
    <2>4. CASE ~CoastedOut(b) /\ own /\ (Idle(b) \/ Reached(b) = {})
        <3>1. c = ReadOwned(b)
            BY <2>1, <2>2, <2>4, ReadForm DEF Unheard
        <3>2. Same(b, c) /\ (Idle(b) => c.play = b.play) /\ (~Idle(b) => c.play = Point(b))
            BY <2>4, <3>1, ReadOwnedForm
        <3> HIDE DEF c
        <3>3. Line(c, come, gone, own)
            BY <1>2, <1>4, <2>4, <3>2, SameLine
        <3>4. ASSUME BufferMax > 1, c.play # None PROVE c.newest_posted - c.play < BufferMax
            <4>1. ~Idle(b) /\ c.play = Point(b) /\ c.newest_posted = come - 1 /\ b.newest_posted # None
                BY <2>1, <3>2, <3>4, Limits DEF Idle, Same
            <4>2. /\ Point(b) \in Nat
                  /\ \/ come - 1 < Point(b) + BufferMax
                     \/ Point(b) = come - 1 - 1
                     \/ b.queue # {} /\ Point(b) = Oldest(b.queue).tick
                BY <2>1, <4>1, PointForm
            <4>3. ~(b.queue # {} /\ Point(b) = Oldest(b.queue).tick)
                <5>1. b.queue # {} => Oldest(b.queue) \in b.queue
                    BY BoxForm, OldestOf
                <5>2. b.queue # {} /\ Point(b) = Oldest(b.queue).tick => Oldest(b.queue) \in Reached(b)
                    BY <4>2, <5>1 DEF Reached
                <5> QED
                    BY <2>4, <4>1, <5>2
            <4> QED
                BY <3>4, <4>1, <4>2, <4>3, Limits
        <3> QED
            BY <2>4, <3>3, <3>4
    <2>5. CASE ~CoastedOut(b) /\ own /\ ~Idle(b) /\ Reached(b) # {}
        <3> DEFINE t == Newest(Reached(b)).tick
        <3>1. c = ReadOwned(b)
            BY <2>1, <2>2, <2>5, ReadForm DEF Unheard
        <3>2. Merged(b, c, Reached(b), Point(b))
            BY <2>5, <3>1, ReadOwnedForm
        <3>3. /\ Newest(Reached(b)) \in b.queue /\ t \in lo..(come - 1)
              /\ \A m \in b.queue \ Reached(b) : t < m.tick
              /\ \A m \in Reached(b) : m.tick <= t
              /\ t < Point(b) => t = come - 1
            <4> HIDE DEF c
            <4>1. LET u == Newest(Reached(b)).tick
                  IN  /\ Newest(Reached(b)) \in b.queue /\ u \in lo..(come - 1)
                      /\ \A m \in Reached(b) : m \in b.queue /\ lo <= m.tick /\ m.tick <= u
                      /\ \A s \in lo..u : \E m \in Reached(b) : m.tick = s
                      /\ \A m \in b.queue \ Reached(b) : u < m.tick
                      /\ u < Point(b) => u = come - 1
                BY <1>1, <2>5, ReachedRow
            <4> QED
                BY <4>1
        <3>4. /\ c.queue = b.queue \ Reached(b) /\ c.last = Newest(Reached(b)) /\ c.applied = t
              /\ c.folded = None /\ c.silent = b.silent /\ c.newest_posted = b.newest_posted
              /\ c.play = IF t + NarrowAhead < Point(b) THEN t ELSE Point(b)
            BY <3>2 DEF Merged
        <3>5. c.last.tick = t /\ c.last.owned = own
            BY <3>3, <3>4 DEF Line, OfOne
        <3> HIDE DEF c, t
        <3>6. t \in Nat /\ t # None /\ t + 1 \in Nat /\ Next(c) = t + 1 /\ c.last # None
            <4>1. t \in Nat /\ t # None
                BY <3>3, Limits
            <4>2. c.last \in Intents
                BY <3>3, <3>4, BoxForm
            <4> QED
                BY <3>4, <4>1, <4>2, NoneIsNothing DEF Next
        <3>7. Row(c, come, gone, own, t + 1)
            <4>1. \A m \in c.queue : t + 1 <= m.tick /\ m.tick < come
                <5>1. \A m \in c.queue : m \in b.queue /\ t < m.tick /\ m.tick \in Nat
                    BY <3>3, <3>4, BoxForm, IntentForm
                <5> QED
                    BY <1>1, <3>6, <5>1 DEF Row
            <4>2. ASSUME NEW s \in (t + 1)..(come - 1) PROVE \E m \in c.queue : m.tick = s
                <5>1. s \in lo..(come - 1) /\ ~(s <= t)
                    BY <3>3, <3>6
                <5>2. PICK m \in b.queue : m.tick = s
                    BY <1>1, <5>1 DEF Row
                <5> QED
                    BY <3>3, <3>4, <5>1, <5>2
            <4>3. t + 1 \in 0..come
                BY <3>3, <3>6
            <4>4. Next(c)..(t + 1 - 1) = {}
                BY <3>6
            <4> QED
                BY <3>4, <3>6, <4>1, <4>2, <4>3, <4>4 DEF Row
        <3>8. OfOne(c, own)
            BY <2>5, <3>4, <3>5, <3>6 DEF Line, OfOne
        <3>9. Waiting(c, come)
            BY <1>4, <2>1, <3>4, <3>6 DEF Waiting
        <3>10. Line(c, come, gone, own)
            BY <3>6, <3>7, <3>8, <3>9 DEF Line
        <3>11. ASSUME BufferMax > 1 PROVE c.newest_posted - c.play < BufferMax
            <4>1. CASE t < Point(b)
                <5>1. t = come - 1 /\ c.newest_posted = come - 1 /\ Point(b) \in Nat
                    BY <2>1, <2>5, <3>3, <3>4, <4>1, PointForm
                <5>2. c.play >= t /\ c.play \in Nat
                    BY <3>4, <3>6, <4>1, <5>1
                <5> QED
                    BY <5>1, <5>2, Limits
            <4>2. CASE ~(t < Point(b))
                <5>1. /\ Point(b) \in Nat
                      /\ \/ come - 1 < Point(b) + BufferMax
                         \/ Point(b) = come - 1 - 1
                         \/ b.queue # {} /\ Point(b) = Oldest(b.queue).tick
                    BY <2>1, <2>5, PointForm, Limits
                <5>2. c.play = Point(b)
                    <6>1. NarrowAhead \in Nat
                        BY Limits
                    <6> QED
                        BY <3>4, <3>6, <4>2, <5>1, <6>1
                <5>3. b.queue # {} => Oldest(b.queue).tick >= lo /\ Oldest(b.queue).tick \in Nat
                    <6>1. b.queue # {} => Oldest(b.queue) \in b.queue
                        BY BoxForm, OldestOf
                    <6> QED
                        BY <1>1, <6>1, BoxForm, IntentForm DEF Row
                <5>4. come - lo <= BufferMax
                    BY <1>1, RowFits
                <5>5. come - 1 - Point(b) < BufferMax
                    BY <3>11, <5>1, <5>3, <5>4, Limits
                <5> QED
                    BY <2>1, <3>4, <5>2, <5>5
            <4> QED
                BY <4>1, <4>2
        <3> QED
            BY <2>5, <3>10, <3>11
    <2>6. CASE ~CoastedOut(b) /\ ~own /\ b.queue = {}
        <3>1. Same(b, c) /\ c.play = b.play
            BY <2>1, <2>2, <2>6, ReadForm DEF Unheard
        <3>2. b.play = None
            BY <2>6 DEF Line, OfOne
        <3> HIDE DEF c
        <3>3. Line(c, come, gone, own)
            BY <1>2, <1>4, <3>1, <3>2, SameLine
        <3> QED
            BY <3>1, <3>2, <3>3 DEF Same
    <2>7. CASE ~CoastedOut(b) /\ ~own /\ b.queue # {}
        <3> DEFINE m == Oldest(b.queue)
        <3>1. TookOne(b, c)
            BY <2>1, <2>2, <2>7, ReadForm DEF Unheard
        <3>2. m \in b.queue /\ \A n \in b.queue : m.tick <= n.tick
            BY <2>7, BoxForm, OldestOf
        <3>3. \A n \in b.queue : n \in Intents /\ n.tick \in Nat
            BY BoxForm, IntentForm
        <3>4. /\ c.queue = b.queue \ {m} /\ c.last = m /\ c.applied = m.tick
              /\ c.folded = None /\ c.play = None
              /\ c.silent = b.silent /\ c.newest_posted = b.newest_posted
            BY <3>1 DEF TookOne
        <3> HIDE DEF m, c
        <3>5. m.tick = lo /\ lo < come
            <4>1. lo <= m.tick /\ m.tick < come /\ m.tick \in Nat
                BY <1>1, <3>2, <3>3 DEF Row
            <4>2. lo \in lo..(come - 1)
                BY <4>1
            <4>3. PICK n \in b.queue : n.tick = lo
                BY <1>1, <4>2 DEF Row
            <4> QED
                BY <3>2, <4>1, <4>3
        <3>6. Next(c) = lo + 1 /\ lo # None /\ c.last # None
            BY <3>2, <3>3, <3>4, <3>5, NoneIsNothing, Limits DEF Next
        <3>7. Row(c, come, gone, own, lo + 1)
            <4>1. \A n \in c.queue : lo + 1 <= n.tick /\ n.tick < come
                <5>1. \A n \in c.queue : n.tick # lo
                    BY <3>2, <3>4, <3>5 DEF Held, Unique
                <5>2. \A n \in c.queue : lo <= n.tick /\ n.tick < come /\ n.tick \in Nat
                    BY <1>1, <3>3, <3>4 DEF Row
                <5> QED
                    BY <5>1, <5>2
            <4>2. ASSUME NEW s \in (lo + 1)..(come - 1) PROVE \E n \in c.queue : n.tick = s
                <5>1. s \in lo..(come - 1) /\ s # lo
                    OBVIOUS
                <5>2. PICK n \in b.queue : n.tick = s
                    BY <1>1, <5>1 DEF Row
                <5> QED
                    BY <3>4, <3>5, <5>1, <5>2
            <4>3. lo + 1 \in 0..come /\ Next(c)..(lo + 1 - 1) = {}
                BY <3>5, <3>6
            <4> QED
                BY <3>4, <3>6, <4>1, <4>2, <4>3 DEF Row
        <3>8. OfOne(c, own)
            <4>1. \A n \in b.queue : n.owned = own
                BY DEF Line, OfOne
            <4>2. c.last.tick = c.applied /\ c.last.owned = own /\ c.applied # None /\ c.last # None
                BY <3>2, <3>4, <3>5, <3>6, <4>1
            <4>3. \A n \in c.queue : n.owned = own
                BY <3>4, <4>1
            <4> QED
                BY <3>4, <4>2, <4>3 DEF OfOne
        <3>9. Waiting(c, come)
            BY <1>4, <2>1, <3>4, <3>6 DEF Waiting
        <3>10. Line(c, come, gone, own)
            BY <3>7, <3>8, <3>9 DEF Line
        <3>11. c.applied >= Next(b) /\ Next(b)..(c.applied - 1) \subseteq gone
            BY <1>1, <3>4, <3>5, NextForm DEF Row
        <3> QED
            BY <3>4, <3>10, <3>11
    <2> QED
        BY <2>3, <2>4, <2>5, <2>6, <2>7
<1> QED
    BY <1>3, <1>4

----------------------------------------------------------------------------
(***************************************************************************)
(* The client's ticks on the link, and the row they make in the mailbox.   *)
(***************************************************************************)

\* Ticks that have come off the link.
Come == client.tick - Len(link)

LinkLine ==
    /\ stray = <<>> /\ Len(link) <= client.tick
    /\ \A i \in 1..Len(link) : link[i].tick = Come + i - 1 /\ link[i].owned = drives

OrderedInv == ordered => LinkLine /\ Line(inner, Come, dropped, drives)

LEMMA AgedLine ==
    ASSUME NEW b \in Box, NEW c \in Box, NEW come \in Nat, NEW gone, NEW own \in BOOLEAN,
           Line(b, come, gone, own),
           c.queue = b.queue, c.last = b.last, c.applied = b.applied, c.folded = b.folded,
           c.newest_posted = b.newest_posted, c.play = b.play, c.silent = None <=> b.silent = None
    PROVE  Line(c, come, gone, own)
<1>1. PICK lo \in Nat : Row(b, come, gone, own, lo)
    BY DEF Line
<1>2. Next(c) = Next(b)
    BY DEF Next
<1>3. Row(c, come, gone, own, lo)
    BY <1>1, <1>2 DEF Row
<1>4. OfOne(c, own) /\ Waiting(c, come)
    BY DEF Line, OfOne, Waiting
<1> QED
    BY <1>3, <1>4 DEF Line

LEMMA InitLine ==
    ASSUME NEW own \in BOOLEAN
    PROVE  Line(Empty, 0, {}, own)
<1>1. Row(Empty, 0, {}, own, 0)
    BY Limits DEF Row, Next, Empty
<1>2. OfOne(Empty, own) /\ Waiting(Empty, 0)
    BY DEF OfOne, Waiting, Empty
<1> QED
    BY <1>1, <1>2 DEF Line

LEMMA InitOrdered == MCInit => OrderedInv
<1> SUFFICES ASSUME MCInit PROVE OrderedInv
    OBVIOUS
<1>1. stray = <<>> /\ link = <<>> /\ client = NewClient /\ inner = Empty /\ dropped = {}
    BY DEF MCInit, InputInit, MailboxInit
<1>2. Len(link) = 0 /\ client.tick = 0 /\ Come = 0
    BY <1>1 DEF NewClient, Come
<1>3. LinkLine
    BY <1>1, <1>2 DEF LinkLine
<1>4. drives \in BOOLEAN
    BY DEF drives
<1>5. Line(inner, Come, dropped, drives)
    BY <1>1, <1>2, <1>4, InitLine
<1> QED
    BY <1>3, <1>5 DEF OrderedInv

\* What an ordered link does not do.
LEMMA LinkFacts ==
    ASSUME InputInv, LinkLine
    PROVE  /\ link \in Seq(Intents) /\ Len(link) \in Nat /\ client.tick \in Nat /\ Come \in Nat
           /\ Come + Len(link) = client.tick
<1>1. link \in Seq(Intents) /\ client.tick \in Nat
    BY ClientForm DEF InputInv, EnvType
<1>2. Len(link) \in Nat /\ Len(link) <= client.tick
    BY <1>1 DEF LinkLine
<1> QED
    BY <1>1, <1>2 DEF Come

LEMMA PeriodOrdered ==
    ASSUME InputInv, OrderedInv, MCNext, ordered, Period
    PROVE  OrderedInv'
<1>1. LinkLine /\ Line(inner, Come, dropped, drives) /\ kind' = kind
    BY DEF OrderedInv, MCNext
<1>2. client'.tick = client.tick /\ link' = link /\ stray' = stray
    BY DEF Period, InputInv, EnvType, Clients
<1>3. inner \in Box /\ inner' \in Box
    BY PeriodKeeps DEF InputInv, BoxType
<1>4. /\ inner'.queue = inner.queue /\ inner'.last = inner.last /\ inner'.applied = inner.applied
      /\ inner'.folded = inner.folded /\ inner'.newest_posted = inner.newest_posted
      /\ inner'.play = inner.play /\ (inner'.silent = None <=> inner.silent = None)
    <2> DEFINE silent == IF inner.silent = None THEN None ELSE Smaller(inner.silent + 1, IntentCoast + 1)
               wall == IF inner.wall = None THEN None ELSE inner.wall + 1
    <2>1. inner' = [inner EXCEPT !.silent = silent, !.wall = wall]
        BY DEF Period, Age
    <2>2. silent = None <=> inner.silent = None
        BY <1>3, BoxForm, Limits DEF Smaller
    <2> HIDE DEF silent, wall
    <2> QED
        BY <1>3, <2>1, <2>2 DEF Box
<1>5. dropped' = dropped
    BY <1>4 DEF MCNext
<1>6. Come' = Come /\ Come \in Nat /\ drives' = drives /\ drives \in BOOLEAN
    BY <1>1, <1>2, LinkFacts DEF Come, drives
<1>7. Line(inner', Come, dropped, drives)
    BY <1>1, <1>3, <1>4, <1>6, AgedLine
<1>8. LinkLine'
    BY <1>1, <1>2, <1>6 DEF LinkLine
<1> QED
    BY <1>5, <1>6, <1>7, <1>8 DEF OrderedInv

\* The client's tick, as it is sent.
LEMMA DriveSends ==
    ASSUME InputInv, Drive
    PROVE  \E m \in Intents : /\ client'.tick = client.tick + 1 /\ client'.fire = m.fire
                              /\ link' = Append(link, m) /\ m.tick = client.tick
<1>1. PICK pressing \in Triggers, owned \in Owns :
        /\ client' = [Prepared(pressing) EXCEPT !.tick = @ + 1, !.due = @ - 1]
        /\ link' = Append(link, Intent(client.tick, Prepared(pressing).fire, owned))
    BY DEF Drive
<1>2. pressing \in BOOLEAN /\ owned \in BOOLEAN /\ client \in Clients
    BY SeatInputAssumption DEF InputInv, EnvType
<1>3. Prepared(pressing).tick = client.tick /\ DOMAIN Prepared(pressing) = DOMAIN client
      /\ Prepared(pressing).fire \in BOOLEAN
    BY <1>2 DEF Prepared, Clients
<1>4. client'.tick = client.tick + 1 /\ client'.fire = Prepared(pressing).fire
    BY <1>1, <1>2, <1>3 DEF Prepared, Clients
<1>5. client.tick \in Ticks
    BY <1>2, ClientForm
<1>6. Intent(client.tick, Prepared(pressing).fire, owned) \in Intents
    BY <1>2, <1>3, <1>5 DEF Intent, Intents
<1>7. /\ Intent(client.tick, Prepared(pressing).fire, owned).tick = client.tick
      /\ Intent(client.tick, Prepared(pressing).fire, owned).fire = Prepared(pressing).fire
    BY DEF Intent
<1> QED
    BY <1>1, <1>4, <1>6, <1>7

LEMMA DriveOrdered ==
    ASSUME InputInv, OrderedInv, MCNext, ordered, Drive
    PROVE  OrderedInv'
<1>1. LinkLine /\ Line(inner, Come, dropped, drives) /\ kind' = kind
    BY DEF OrderedInv, MCNext
<1>2. /\ client.tick \in Nat /\ Len(link) \in Nat /\ Come \in Nat /\ link \in Seq(Intents)
      /\ Come + Len(link) = client.tick
    BY <1>1, LinkFacts
<1>3. PICK m \in Intents : /\ client'.tick = client.tick + 1
                          /\ link' = Append(link, m) /\ m.tick = client.tick
    BY DriveSends
<1>4. /\ Len(link') = Len(link) + 1 /\ link'[Len(link) + 1] = m
      /\ \A i \in 1..Len(link) : link'[i] = link[i]
    BY <1>2, <1>3
<1>5. inner' = inner /\ stray' = stray /\ dropped' = dropped
    BY DEF Drive, mailboxVars, MCNext
<1>6. Come' = Come /\ drives' = drives
    BY <1>1, <1>2, <1>3, <1>4 DEF Come, drives
<1>7. \A i \in DOMAIN link' : link'[i].owned = drives
    BY DEF MCNext
<1>8. LinkLine'
    <2>1. ASSUME NEW i \in 1..(Len(link) + 1)
          PROVE  link'[i].tick = Come + i - 1
        <3>1. CASE i = Len(link) + 1
            BY <1>2, <1>3, <1>4, <3>1
        <3>2. CASE i # Len(link) + 1
            <4>1. i \in 1..Len(link)
                BY <1>2, <3>2
            <4> QED
                BY <1>1, <1>4, <4>1 DEF LinkLine
        <3> QED
            BY <3>1, <3>2
    <2>2. DOMAIN link' = 1..Len(link')
        BY <1>2, <1>3
    <2>3. Len(link') <= client'.tick
        <3>1. Len(link) <= client.tick
            BY <1>1 DEF LinkLine
        <3> QED
            BY <1>2, <1>3, <1>4, <3>1
    <2> QED
        BY <1>1, <1>4, <1>5, <1>6, <1>7, <2>1, <2>2, <2>3 DEF LinkLine
<1> QED
    BY <1>1, <1>5, <1>6, <1>8 DEF OrderedInv

\* The first of the link is what arrives.
LEMMA ArriveFirst ==
    ASSUME InputInv, LinkLine, MCNext, ordered, Arrive
    PROVE  /\ link # <<>> /\ link[1] \in Intents /\ link[1].tick = Come /\ link[1].owned = drives
           /\ inner' = Posted(inner, link[1])
           /\ Len(link') = Len(link) - 1 /\ \A j \in 1..Len(link') : link'[j] = link[j + 1]
           /\ link' \in Seq(Intents) /\ ~RoomTick
<1>1. link \in Seq(Intents) /\ Len(link) \in Nat /\ Come \in Nat
    BY LinkFacts
<1>2. PICK i \in 1..Smaller(Overtake + 1, Len(link)) : Post(link[i]) /\ link' = RemoveAt(link, i)
    BY DEF Arrive
<1>3. i \in 1..Len(link)
    <2>1. Smaller(Overtake + 1, Len(link)) <= Len(link) /\ Smaller(Overtake + 1, Len(link)) \in Int
        BY <1>1, Limits DEF Smaller
    <2> QED
        BY <1>1, <1>2, <2>1
<1>4. /\ link' \in Seq(Intents) /\ Len(link') = Len(link) - 1
      /\ \A j \in 1..(Len(link) - 1) : link'[j] = IF j < i THEN link[j] ELSE link[j + 1]
    BY <1>1, <1>2, <1>3, RemoveForm
<1>5. link' = Tail(link) /\ link # <<>>
    <2>1. Len(link') < Len(link) /\ Len(link) > 0
        BY <1>1, <1>3, <1>4
    <2> QED
        BY <1>1, <2>1 DEF MCNext, InOrder
<1>6. i = 1
    <2> SUFFICES ASSUME i # 1 PROVE FALSE
        OBVIOUS
    <2>1. 1 \in 1..(Len(link) - 1) /\ 1 < i /\ 2 \in 1..Len(link) /\ 1 \in 1..Len(link)
        BY <1>1, <1>3
    <2>2. link'[1] = link[1]
        BY <1>4, <2>1
    <2>3. link'[1] = link[2]
        BY <1>1, <1>5, <2>1
    <2>4. link[1].tick = Come + 1 - 1 /\ link[2].tick = Come + 2 - 1
        BY <2>1 DEF LinkLine
    <2> QED
        BY <1>1, <2>2, <2>3, <2>4
<1>7. link[1] \in Intents
    BY <1>1, <1>3, <1>6, Elements
<1>8. link[1].tick = Come /\ link[1].owned = drives
    BY <1>1, <1>3, <1>6 DEF LinkLine
<1>9. \A j \in 1..Len(link') : link'[j] = link[j + 1]
    <2>1. \A j \in 1..(Len(link) - 1) : ~(j < 1)
        BY <1>1
    <2> QED
        BY <1>4, <1>6, <2>1
<1>10. ~RoomTick
    <2>1. Len(link') # Len(link)
        BY <1>1, <1>4
    <2> QED
        BY <2>1 DEF RoomTick
<1> QED
    BY <1>2, <1>4, <1>5, <1>6, <1>7, <1>8, <1>9, <1>10 DEF Post

LEMMA ArriveOrdered ==
    ASSUME InputInv, OrderedInv, MCNext, ordered, Arrive
    PROVE  OrderedInv' /\ ~Straggler(inner, link[1])
<1>1. LinkLine /\ Line(inner, Come, dropped, drives) /\ kind' = kind
    BY DEF OrderedInv, MCNext
<1>2. /\ client.tick \in Nat /\ Len(link) \in Nat /\ Come \in Nat /\ Come + Len(link) = client.tick
    BY <1>1, LinkFacts
<1>3. /\ link # <<>> /\ link[1] \in Intents /\ link[1].tick = Come /\ link[1].owned = drives
      /\ inner' = Posted(inner, link[1])
      /\ Len(link') = Len(link) - 1 /\ \A j \in 1..Len(link') : link'[j] = link[j + 1]
      /\ link' \in Seq(Intents) /\ ~RoomTick
    BY <1>1, ArriveFirst
<1>4. client' = client /\ stray' = stray /\ drives' = drives /\ drives \in BOOLEAN
    BY <1>1 DEF Arrive, drives
<1>5. Come' = Come + 1
    <2>1. Come' = client.tick - (Len(link) - 1)
        BY <1>3, <1>4 DEF Come
    <2>2. client.tick - (Len(link) - 1) = client.tick - Len(link) + 1
        BY <1>2
    <2> QED
        BY <2>1, <2>2 DEF Come
<1>6. dropped' = dropped \cup {n.tick : n \in inner.queue \ inner'.queue}
    BY <1>3 DEF MCNext
<1>7. /\ ~Straggler(inner, link[1])
      /\ Line(Posted(inner, link[1]), Come + 1,
              dropped \cup {n.tick : n \in inner.queue \ Posted(inner, link[1]).queue}, drives)
    <2>1. inner \in Box /\ Held(inner.queue)
        BY DEF InputInv, BoxType
    <2> QED
        BY <1>1, <1>2, <1>3, <1>4, <2>1, PostKeepsLine
<1>8. LinkLine'
    <2>1. Len(link') <= client'.tick /\ stray' = <<>>
        BY <1>1, <1>2, <1>3, <1>4 DEF LinkLine
    <2>2. ASSUME NEW j \in 1..Len(link')
          PROVE  link'[j].tick = Come' + j - 1 /\ link'[j].owned = drives'
        <3>1. j + 1 \in 1..Len(link) /\ j \in Nat
            BY <1>2, <1>3
        <3>2. link[j + 1].tick = Come + (j + 1) - 1 /\ link[j + 1].owned = drives
            BY <1>1, <3>1 DEF LinkLine
        <3>3. Come + (j + 1) - 1 = (Come + 1) + j - 1
            BY <1>2, <3>1
        <3> QED
            BY <1>3, <1>4, <1>5, <3>2, <3>3
    <2> QED
        BY <2>1, <2>2 DEF LinkLine
<1>9. Line(inner', Come', dropped', drives')
    BY <1>3, <1>4, <1>5, <1>6, <1>7
<1> QED
    BY <1>7, <1>8, <1>9 DEF OrderedInv

LEMMA RoomTickOrdered ==
    ASSUME InputInv, OrderedInv, MCNext, ordered, RoomTick
    PROVE  /\ OrderedInv'
           /\ ~drives /\ inner'.applied # inner.applied =>
                inner'.applied >= Next(inner) /\ Next(inner)..(inner'.applied - 1) \subseteq dropped
           /\ BufferMax > 1 /\ inner'.play # None => inner'.newest_posted - inner'.play < BufferMax
<1>1. LinkLine /\ Line(inner, Come, dropped, drives) /\ kind' = kind
    BY DEF OrderedInv, MCNext
<1>2. inner' = ReadBox(inner) /\ client' = client /\ link' = link /\ stray' = stray
    BY DEF RoomTick, Read
<1>3. Come' = Come /\ Come \in Nat /\ drives' = drives /\ drives \in BOOLEAN /\ dropped' = dropped
    BY <1>1, <1>2, LinkFacts DEF Come, drives, MCNext
<1>4. inner \in Box /\ Held(inner.queue)
    BY DEF InputInv, BoxType
<1>5. LET c == ReadBox(inner)
      IN  /\ Line(c, Come, dropped, drives)
          /\ ~drives /\ c.applied # inner.applied =>
               c.applied >= Next(inner) /\ Next(inner)..(c.applied - 1) \subseteq dropped
          /\ BufferMax > 1 /\ c.play # None => c.newest_posted - c.play < BufferMax
    BY <1>1, <1>3, <1>4, ReadKeepsLine
<1>6. LinkLine'
    BY <1>1, <1>2, <1>3 DEF LinkLine
<1> QED
    BY <1>2, <1>3, <1>5, <1>6 DEF OrderedInv

LEMMA OrderedKeeps ==
    InputInv /\ OrderedInv /\ [MCNext]_<<inputVars, history>> => OrderedInv'
<1> SUFFICES ASSUME InputInv, OrderedInv, [MCNext]_<<inputVars, history>> PROVE OrderedInv'
    OBVIOUS
<1>1. CASE UNCHANGED <<inputVars, history>>
    BY <1>1 DEF OrderedInv, ordered, drives, LinkLine, Come, inputVars, mailboxVars, envVars, history
<1>2. CASE MCNext
    <2>1. CASE ~ordered
        BY <1>2, <2>1 DEF MCNext, OrderedInv, ordered
    <2>2. CASE ordered
        <3>1. CASE Period
            BY <1>2, <2>2, <3>1, PeriodOrdered
        <3>2. CASE Drive
            BY <1>2, <2>2, <3>2, DriveOrdered
        <3>3. CASE Arrive
            BY <1>2, <2>2, <3>3, ArriveOrdered
        <3>4. CASE RoomTick
            BY <1>2, <2>2, <3>4, RoomTickOrdered
        <3>5. ~StrayArrives
            BY <2>2 DEF StrayArrives, OrderedInv, LinkLine
        <3>6. ~Reclaim
            <4>1. reclaims \in Nat
                BY Limits DEF InputInv, EnvType
            <4>2. reclaims' = reclaims
                BY <1>2, <2>2 DEF MCNext, InOrder
            <4> QED
                BY <4>1, <4>2 DEF Reclaim
        <3> QED
            BY <1>2, <3>1, <3>2, <3>3, <3>4, <3>5, <3>6 DEF MCNext, InputNext
    <2> QED
        BY <2>1, <2>2
<1> QED
    BY <1>1, <1>2

LEMMA MCSteps == [MCNext]_<<inputVars, history>> => [InputNext]_inputVars
BY DEF MCNext

\* The same, with the history kept.
THEOREM RowOfTicks == MCSpec => [](InputInv /\ OrderedInv)
<1>1. MCInit => InputInv /\ OrderedInv
    BY InitInput, InitOrdered DEF MCInit
<1>2. InputInv /\ OrderedInv /\ [MCNext]_<<inputVars, history>> => InputInv' /\ OrderedInv'
    BY MCSteps, NextKeeps, OrderedKeeps
<1> QED
    BY <1>1, <1>2, PTL DEF MCSpec

\* A server-driven seat's intents are applied in the order they were sent,
\* one a tick and none left out but by a full queue (src/net/mailbox.rs,
\* read and post).
THEOREM InputsInTurn == MCSpec => OneATick
<1> DEFINE Turn == RoomTick /\ ~drives /\ inner'.applied # inner.applied =>
        LET next == IF inner.applied = None THEN 0 ELSE inner.applied + 1
        IN  /\ inner'.applied >= next
            /\ next..(inner'.applied - 1) \subseteq dropped
<1>1. InputInv /\ OrderedInv /\ [MCNext]_<<inputVars, history>> => [Turn]_<<inputVars, history>>
    <2> SUFFICES ASSUME InputInv, OrderedInv, MCNext, RoomTick, ~drives, inner'.applied # inner.applied
                 PROVE  inner'.applied >= Next(inner) /\ Next(inner)..(inner'.applied - 1) \subseteq dropped
        BY DEF Next
    <2>1. ordered
        BY DEF drives, ordered
    <2> QED
        BY <2>1, RoomTickOrdered
<1> HIDE DEF Turn
<1>2. MCSpec => [][Turn]_<<inputVars, history>>
    BY <1>1, RowOfTicks, PTL DEF MCSpec
<1> QED
    BY <1>2 DEF OneATick, Turn

\* On an ordered link the point keeps fewer than BufferMax ticks behind the
\* newest arrival, so what it reads next has not been dropped.  It starts
\* again one behind the newest, so a queue of one would not do; the code's
\* holds eight (src/net/mailbox.rs, read_owned).
THEOREM MarginNeverWidens == ASSUME BufferMax > 1 PROVE MCSpec => MarginBounded
<1> DEFINE Near == ordered /\ RoomTick /\ inner'.play # None =>
                       inner'.newest_posted - inner'.play < BufferMax
<1>1. InputInv /\ OrderedInv /\ [MCNext]_<<inputVars, history>> => [Near]_<<inputVars, history>>
    <2> SUFFICES ASSUME InputInv, OrderedInv, MCNext, ordered, RoomTick, inner'.play # None
                 PROVE  inner'.newest_posted - inner'.play < BufferMax
        OBVIOUS
    <2> QED
        BY RoomTickOrdered
<1> HIDE DEF Near
<1>2. MCSpec => [][Near]_<<inputVars, history>>
    BY <1>1, RowOfTicks, PTL DEF MCSpec
<1> QED
    BY <1>2 DEF MarginBounded, Near

----------------------------------------------------------------------------
(***************************************************************************)
(* The trigger along the client's ticks.                                   *)
(***************************************************************************)

Triggering == {f \in [Int -> BOOLEAN] : ~f[-1]}

\* The presses after lo and up to hi.
Rises(f, lo, hi) == {t \in Ticks : lo < t /\ t <= hi /\ f[t] /\ ~f[t - 1]}

FirstOf(S) == IF S = {} THEN None ELSE Min(S)

\* The last tick applied.
Upto(b) == Next(b) - 1

\* What is queued, applied, folded and handed over is the client's trigger.
\* No press is owed to a round that sees the trigger down, and a trigger that
\* is down has been handed over.
Traced(b, f) ==
    /\ \A m \in b.queue : m.fire = f[m.tick]
    /\ OwnDown(b) = f[Upto(b)]
    /\ b.folded # None =>
         /\ b.folded.down = f[b.folded.through]
         /\ b.folded.press = FirstOf(Rises(f, Upto(b), b.folded.through))

Owing(b, f) ==
    /\ b.owed_press = None /\ f[Upto(b)] => b.delivered
    /\ b.owed_press # None => ~b.delivered /\ b.owed_press \in Rises(f, -1, Upto(b))
    /\ b.last = None => ~b.delivered /\ b.owed_press = None

LEMMA FirstOfForm ==
    ASSUME NEW S, S \subseteq Ticks
    PROVE  /\ S # {} => FirstOf(S) \in S /\ FirstOf(S) # None /\ \A t \in S : FirstOf(S) <= t
           /\ S = {} => FirstOf(S) = None
           /\ FirstOf(S) \in Maybe(Ticks)
<1>1. S # {} => Min(S) \in S /\ Min(S) # None /\ \A t \in S : Min(S) <= t
    BY FirstTick, NoneIsNothing
<1> QED
    BY <1>1 DEF FirstOf, Maybe

\* The first of two runs is the first of the first, if there is one.
LEMMA FirstOfTwo ==
    ASSUME NEW S, NEW T, S \subseteq Ticks, T \subseteq Ticks, \A s \in S, t \in T : s < t
    PROVE  FirstOf(S \cup T) = IF S # {} THEN FirstOf(S) ELSE FirstOf(T)
<1>1. CASE S = {}
    <2>1. S \cup T = T
        BY <1>1
    <2> QED
        BY <1>1, <2>1
<1>2. CASE S # {}
    <2>1. FirstOf(S) \in S /\ \A t \in S : FirstOf(S) <= t
        BY <1>2, FirstOfForm
    <2>2. /\ FirstOf(S \cup T) \in S \cup T /\ \A t \in S \cup T : FirstOf(S \cup T) <= t
        BY <1>2, FirstOfForm
    <2>3. \A t \in S \cup T : t \in Nat
        BY NoneIsNothing
    <2>4. FirstOf(S) \in Nat /\ FirstOf(S \cup T) \in Nat /\ FirstOf(S \cup T) <= FirstOf(S)
        BY <2>1, <2>2, <2>3
    <2>5. FirstOf(S \cup T) \in S
        <3>1. FirstOf(S \cup T) \in T => FirstOf(S) < FirstOf(S \cup T)
            BY <2>1
        <3> QED
            BY <2>2, <2>4, <3>1
    <2>6. FirstOf(S) <= FirstOf(S \cup T)
        BY <2>1, <2>5
    <2> QED
        BY <1>2, <2>4, <2>6
<1> QED
    BY <1>1, <1>2

LEMMA RisesType ==
    ASSUME NEW f, NEW lo, NEW hi
    PROVE  Rises(f, lo, hi) \subseteq Ticks /\ Rises(f, lo, hi) \subseteq Nat
BY NoneIsNothing DEF Rises

LEMMA RisesSplit ==
    ASSUME NEW f, NEW lo \in Int, NEW mid \in Int, NEW hi \in Int, lo <= mid, mid <= hi
    PROVE  /\ Rises(f, lo, hi) = Rises(f, lo, mid) \cup Rises(f, mid, hi)
           /\ \A s \in Rises(f, lo, mid), t \in Rises(f, mid, hi) : s < t
           /\ Rises(f, lo, lo) = {}
<1>1. \A t \in Ticks : t \in Int
    BY NoneIsNothing
<1>2. \A t \in Ticks : (lo < t /\ t <= hi) <=> (lo < t /\ t <= mid) \/ (mid < t /\ t <= hi)
    BY <1>1
<1>3. \A t \in Ticks : ~(lo < t /\ t <= lo)
    BY <1>1
<1>4. \A s \in Rises(f, lo, mid), t \in Rises(f, mid, hi) : s < t
    BY <1>1 DEF Rises
<1> QED
    BY <1>2, <1>3, <1>4 DEF Rises

\* A trigger that is down and was not has been pressed.
LEMMA RiseBetween ==
    ASSUME NEW f \in Triggering, NEW lo \in Int, NEW hi \in Int, lo >= -1, lo <= hi, hi <= MaxPeriods,
           f[hi], Rises(f, lo, hi) = {}
    PROVE  f[lo]
<1> SUFFICES ASSUME ~f[lo] PROVE FALSE
    BY DEF Triggering
<1> DEFINE T == {k \in Nat : lo + k <= hi /\ f[lo + k]}
<1>1. hi - lo \in Nat /\ lo + (hi - lo) = hi
    OBVIOUS
<1>2. hi - lo \in T
    BY <1>1
<1>3. PICK k \in T : \A l \in T : k <= l
    <2>1. T # {} /\ T \subseteq Nat
        BY <1>2
    <2> HIDE DEF T
    <2> QED
        BY <2>1, LeastOf
<1>4. k \in Nat /\ lo + k <= hi /\ f[lo + k] /\ k # 0
    OBVIOUS
<1>5. k - 1 \in Nat /\ k - 1 \notin T
    <2>1. k - 1 \in Nat /\ ~(k <= k - 1)
        BY <1>4
    <2> HIDE DEF T
    <2> QED
        BY <1>3, <2>1
<1>6. ~f[lo + (k - 1)]
    BY <1>4, <1>5 DEF Triggering
<1>7. lo + k \in Ticks /\ lo < lo + k /\ lo + (k - 1) = (lo + k) - 1
    BY <1>4, Limits DEF Ticks
<1>8. lo + k \in Rises(f, lo, hi)
    BY <1>4, <1>6, <1>7 DEF Rises
<1> QED
    BY <1>8

\* Along a run of the client's own intents a scan finds what it pressed.
LEMMA ScanAlong ==
    ASSUME NEW f \in Triggering, NEW scan \in Scans, NEW msgs, msgs \subseteq Intents, Unique(msgs),
           NEW u \in Int, NEW x \in Int, NEW y \in Int, u <= x, x < y,
           scan.down = f[x], scan.press = FirstOf(Rises(f, u, x)),
           \A m \in msgs : x < m.tick /\ m.tick <= y /\ m.fire = f[m.tick],
           \A t \in (x + 1)..y : \E m \in msgs : m.tick = t
    PROVE  /\ Scan(scan, msgs).down = f[y] /\ Scan(scan, msgs).through = y
           /\ Scan(scan, msgs).press = FirstOf(Rises(f, u, y))
<1>t. \A m \in msgs : m.tick \in Nat /\ m.tick \in Ticks /\ m.fire \in BOOLEAN
    BY IntentForm
<1>1. msgs # {}
    <2>1. y \in (x + 1)..y
        OBVIOUS
    <2> QED
        BY <2>1
<1>2. Newest(msgs).tick = y /\ Newest(msgs).fire = f[y]
    <2>1. Newest(msgs) \in msgs /\ \A n \in msgs : n.tick <= Newest(msgs).tick
        BY <1>1, NewestOf
    <2>2. y \in (x + 1)..y
        OBVIOUS
    <2>3. PICK m \in msgs : m.tick = y
        BY <2>2
    <2> QED
        BY <1>t, <2>1, <2>3
<1>3. ASSUME NEW m \in msgs
      PROVE  DownBefore(m, msgs, scan.down) = f[m.tick - 1]
    <2> DEFINE earlier == {n \in msgs : n.tick < m.tick}
    <2>1. m.tick - 1 \in x..y /\ m.tick \in Nat
        BY <1>t
    <2>2. CASE m.tick - 1 = x
        <3>1. earlier = {}
            BY <1>t, <2>1, <2>2
        <3> QED
            BY <2>2, <3>1 DEF DownBefore
    <2>3. CASE m.tick - 1 # x
        <3>1. m.tick - 1 \in (x + 1)..y
            BY <2>1, <2>3
        <3>2. PICK n \in msgs : n.tick = m.tick - 1
            BY <3>1
        <3>3. n \in earlier /\ earlier \subseteq Intents
            BY <2>1, <3>2
        <3>4. Newest(earlier) \in earlier /\ n.tick <= Newest(earlier).tick
            <4> HIDE DEF earlier
            <4> QED
                BY <3>3, NewestOf
        <3>5. Newest(earlier).tick = m.tick - 1 /\ Newest(earlier) \in msgs
            BY <1>t, <2>1, <3>2, <3>4
        <3>6. Newest(earlier).fire = f[m.tick - 1]
            BY <3>5
        <3>7. earlier # {}
            BY <3>3
        <3> QED
            BY <3>6, <3>7 DEF DownBefore
    <2> QED
        BY <2>2, <2>3
<1>4. Presses(msgs, scan.down) = Rises(f, x, y)
    <2>1. ASSUME NEW t \in Presses(msgs, scan.down) PROVE t \in Rises(f, x, y)
        <3>1. PICK m \in msgs : m.tick = t /\ m.fire /\ ~DownBefore(m, msgs, scan.down)
            BY DEF Presses
        <3>2. m.fire = f[t] /\ ~f[t - 1] /\ x < t /\ t <= y /\ t \in Ticks
            BY <1>t, <1>3, <3>1
        <3> QED
            BY <3>1, <3>2 DEF Rises
    <2>2. ASSUME NEW t \in Rises(f, x, y) PROVE t \in Presses(msgs, scan.down)
        <3>1. t \in Nat /\ x < t /\ t <= y /\ f[t] /\ ~f[t - 1]
            BY RisesType DEF Rises
        <3>2. t \in (x + 1)..y
            BY <3>1
        <3>3. PICK m \in msgs : m.tick = t
            BY <3>2
        <3>4. m.fire /\ ~DownBefore(m, msgs, scan.down)
            BY <1>3, <3>1, <3>3
        <3> QED
            BY <3>3, <3>4 DEF Presses
    <2> QED
        BY <2>1, <2>2
<1>5. /\ Scan(scan, msgs).down = f[y] /\ Scan(scan, msgs).through = y
      /\ Scan(scan, msgs).press =
           IF scan.press = None /\ Rises(f, x, y) # {} THEN Min(Rises(f, x, y)) ELSE scan.press
    BY <1>1, <1>2, <1>4, ScanForm
<1>6. FirstOf(Rises(f, u, y)) =
        IF Rises(f, u, x) # {} THEN FirstOf(Rises(f, u, x)) ELSE FirstOf(Rises(f, x, y))
    <2>1. /\ Rises(f, u, y) = Rises(f, u, x) \cup Rises(f, x, y)
          /\ \A s \in Rises(f, u, x), t \in Rises(f, x, y) : s < t
        <3>1. x <= y /\ u <= x
            OBVIOUS
        <3>2. Rises(f, u, y) = Rises(f, u, x) \cup Rises(f, x, y)
            BY <3>1, RisesSplit
        <3>3. \A s \in Rises(f, u, x), t \in Rises(f, x, y) : s < t
            BY <3>1, RisesSplit
        <3> QED
            BY <3>2, <3>3
    <2> QED
        BY <2>1, RisesType, FirstOfTwo
<1>7. Rises(f, u, x) # {} => scan.press # None
    BY RisesType, FirstOfForm
<1>8. Rises(f, u, x) = {} => scan.press = None
    BY DEF FirstOf
<1> QED
    BY <1>5, <1>6, <1>7, <1>8 DEF FirstOf

\* A scan goes on from where the row begins.
LEMMA BegunAlong ==
    ASSUME NEW b \in Box, NEW come \in Nat, NEW gone, NEW lo \in Nat, Row(b, come, gone, TRUE, lo),
           NEW f \in Triggering, Traced(b, f)
    PROVE  /\ Upto(b) \in Int /\ Upto(b) >= -1 /\ Upto(b) <= lo - 1
           /\ Begun(b) \in Scans /\ Begun(b).down = f[lo - 1]
           /\ Begun(b).press = FirstOf(Rises(f, Upto(b), lo - 1))
<1>1. Upto(b) \in Int /\ Upto(b) >= -1 /\ Upto(b) <= lo - 1
    BY NextForm DEF Row, Upto
<1>2. Begun(b) \in Scans
    BY BegunType
<1>3. CASE b.folded = None
    <2>1. Upto(b) = lo - 1
        BY <1>3 DEF Row, Upto
    <2>2. Begun(b) = ScanFrom(OwnDown(b))
        BY <1>3 DEF Begun
    <2>3. Begun(b).down = OwnDown(b) /\ Begun(b).press = None
        BY <2>2 DEF ScanFrom
    <2>4. OwnDown(b) = f[Upto(b)]
        BY DEF Traced
    <2>5. Rises(f, lo - 1, lo - 1) = {}
        BY RisesSplit
    <2> QED
        BY <1>1, <1>2, <2>1, <2>3, <2>4, <2>5 DEF FirstOf
<1>4. CASE b.folded # None
    <2>1. Begun(b) = b.folded /\ b.folded.through = lo - 1
        BY <1>4 DEF Begun, Row
    <2> QED
        BY <1>1, <1>2, <1>4, <2>1 DEF Traced
<1> QED
    BY <1>3, <1>4

LEMMA PostTraced ==
    ASSUME NEW b \in Box, Held(b.queue), NEW come \in Nat, NEW gone, Line(b, come, gone, TRUE),
           NEW f \in Triggering, Traced(b, f),
           NEW m \in Intents, m.tick = come, m.owned, m.fire = f[come]
    PROVE  Traced(Posted(b, m), f)
<1> DEFINE c == Posted(b, m)
<1>1. PICK lo \in Nat : OfOne(b, TRUE) /\ Row(b, come, gone, TRUE, lo)
    BY DEF Line
<1>2. Queued(b, c, m, lo, TRUE)
    <2>1. m.owned = TRUE
        BY IntentForm
    <2> QED
        BY <1>1, <2>1, PostAlong
<1>3. Unread(b, c)
    BY PostedForm
<1> HIDE DEF c
<1>4. Upto(c) = Upto(b) /\ OwnDown(c) = OwnDown(b)
    BY <1>3 DEF Unread, Upto, Next, OwnDown
<1>5. \A n \in b.queue \cup {m} : n.fire = f[n.tick]
    BY DEF Traced
<1>6. CASE c.queue = b.queue \cup {m} /\ c.folded = b.folded
    BY <1>4, <1>5, <1>6 DEF Traced, c
<1>7. CASE \E old \in b.queue :
              /\ old.tick = lo /\ lo < m.tick /\ c.queue = (b.queue \cup {m}) \ {old}
              /\ c.folded = IF TRUE THEN Scan(Begun(b), {old}) ELSE b.folded
    <2>1. PICK old \in b.queue :
              /\ old.tick = lo /\ c.queue = (b.queue \cup {m}) \ {old}
              /\ c.folded = Scan(Begun(b), {old})
        BY <1>7
    <2>2. old \in Intents /\ old.fire = f[lo]
        BY <1>5, <2>1, BoxForm
    <2>3. /\ Upto(b) \in Int /\ Upto(b) <= lo - 1
          /\ Begun(b) \in Scans /\ Begun(b).down = f[lo - 1]
          /\ Begun(b).press = FirstOf(Rises(f, Upto(b), lo - 1))
        BY <1>1, BegunAlong
    <2>4. /\ Scan(Begun(b), {old}).down = f[lo] /\ Scan(Begun(b), {old}).through = lo
          /\ Scan(Begun(b), {old}).press = FirstOf(Rises(f, Upto(b), lo))
        <3> DEFINE one == {old}
                   x == lo - 1
        <3>1. one \subseteq Intents /\ Unique(one)
            BY <2>2 DEF Unique
        <3>2. x \in Int /\ lo \in Int /\ x < lo
            OBVIOUS
        <3>3. \A n \in one : x < n.tick /\ n.tick <= lo /\ n.fire = f[n.tick]
            BY <2>1, <2>2
        <3>4. \A t \in (x + 1)..lo : \E n \in one : n.tick = t
            BY <2>1
        <3>5. /\ Upto(b) \in Int /\ Upto(b) <= x
              /\ Begun(b) \in Scans /\ Begun(b).down = f[x]
              /\ Begun(b).press = FirstOf(Rises(f, Upto(b), x))
            BY <2>3
        <3> HIDE DEF one, x
        <3>6. /\ Scan(Begun(b), one).down = f[lo] /\ Scan(Begun(b), one).through = lo
              /\ Scan(Begun(b), one).press = FirstOf(Rises(f, Upto(b), lo))
            BY <3>1, <3>2, <3>3, <3>4, <3>5, ScanAlong
        <3> QED
            BY <3>6 DEF one
    <2>5. \A n \in c.queue : n.fire = f[n.tick]
        BY <1>5, <2>1
    <2> QED
        BY <1>4, <2>1, <2>4, <2>5 DEF Traced, c
<1> QED
    BY <1>2, <1>6, <1>7 DEF Queued

\* What a read of the client's own hands the round of the trigger: the first
\* press since the last read, and where the trigger is by now.
LEMMA ReadTraced ==
    ASSUME NEW b \in Box, Held(b.queue), NEW come \in Nat, NEW gone, Line(b, come, gone, TRUE), come > 0,
           ~CoastedOut(b), NEW f \in Triggering, Traced(b, f)
    PROVE  LET c == ReadBox(b)
           IN  /\ Traced(c, f) /\ Upto(c) \in Int /\ Upto(b) \in -1..Upto(c) /\ Upto(c) < come
               /\ c.last = None =>
                    /\ b.last = None /\ Upto(c) = Upto(b)
                    /\ c.delivered = b.delivered /\ c.owed_press = b.owed_press
               /\ c.last # None =>
                    Delivered(b, c, FirstOf(Rises(f, Upto(b), Upto(c))), f[Upto(c)])
<1> DEFINE c == ReadBox(b)
<1>1. PICK lo \in Nat : OfOne(b, TRUE) /\ Row(b, come, gone, TRUE, lo)
    BY DEF Line
<1>2. b.silent # None /\ IsOwned(b)
    <2>1. IsOwned(b) = TRUE
        BY ReadAsOwn
    <2>2. b.silent # None
        BY DEF Line, Waiting
    <2> QED
        BY <2>1, <2>2
<1>3. c = ReadOwned(b)
    BY <1>2, ReadForm DEF Unheard
<1>4. /\ Upto(b) \in Int /\ Upto(b) >= -1 /\ Upto(b) <= lo - 1 /\ lo - 1 < come
      /\ Begun(b) \in Scans /\ Begun(b).down = f[lo - 1]
      /\ Begun(b).press = FirstOf(Rises(f, Upto(b), lo - 1))
    <2>1. lo - 1 < come
        BY <1>1 DEF Row
    <2> QED
        BY <1>1, <2>1, BegunAlong
<1>5. OwnDown(b) = f[Upto(b)]
    BY DEF Traced
<1> HIDE DEF c
<1>6. CASE Idle(b) \/ Reached(b) = {}
    <2>1. Same(b, c) /\ Starved(b, c)
        BY <1>3, <1>6, ReadOwnedForm
    <2>2. Upto(c) = Upto(b) /\ OwnDown(c) = OwnDown(b)
        BY <2>1 DEF Same, Upto, Next, OwnDown
    <2>3. Traced(c, f)
        BY <2>1, <2>2 DEF Traced, Same
    <2>4. FirstOf(Rises(f, Upto(b), Upto(c))) = None
        <3>1. Rises(f, Upto(b), Upto(b)) = {}
            BY <1>4, RisesSplit
        <3> QED
            BY <2>2, <3>1 DEF FirstOf
    <2>5. c.last # None => Delivered(b, c, None, f[Upto(c)])
        <3>1. b.last # None => OwnDown(b) = b.last.fire
            <4>1. b.last # None => b.last.fire \in BOOLEAN
                BY BoxForm, IntentForm
            <4> QED
                BY <4>1 DEF OwnDown
        <3> QED
            BY <1>5, <2>1, <2>2, <3>1 DEF Starved, Same
    <2>6. c.last = None => b.last = None /\ c.delivered = b.delivered /\ c.owed_press = b.owed_press
        BY <2>1 DEF Starved, Same
    <2>7. Upto(b) \in -1..Upto(c) /\ Upto(c) < come /\ Upto(c) \in Int
        BY <1>4, <2>2
    <2> QED
        BY <2>2, <2>3, <2>4, <2>5, <2>6, <2>7 DEF c
<1>7. CASE ~Idle(b) /\ Reached(b) # {}
    <2> DEFINE t == Newest(Reached(b)).tick
    <2>1. Merged(b, c, Reached(b), Point(b))
        BY <1>3, <1>7, ReadOwnedForm
    <2>2. /\ Newest(Reached(b)) \in b.queue /\ t \in lo..(come - 1)
          /\ \A m \in Reached(b) : m \in b.queue /\ lo <= m.tick /\ m.tick <= t
          /\ \A s \in lo..t : \E m \in Reached(b) : m.tick = s
        <3>1. LET u == Newest(Reached(b)).tick
              IN  /\ Newest(Reached(b)) \in b.queue /\ u \in lo..(come - 1)
                  /\ \A m \in Reached(b) : m \in b.queue /\ lo <= m.tick /\ m.tick <= u
                  /\ \A s \in lo..u : \E m \in Reached(b) : m.tick = s
                  /\ \A m \in b.queue \ Reached(b) : u < m.tick
                  /\ u < Point(b) => u = come - 1
            BY <1>1, <1>7, ReachedRow
        <3> QED
            BY <3>1
    <2>3. /\ c.queue = b.queue \ Reached(b) /\ c.last = Newest(Reached(b)) /\ c.applied = t
          /\ c.folded = None
          /\ Delivered(b, c, Scan(Begun(b), Reached(b)).press, Newest(Reached(b)).fire)
        BY <2>1 DEF Merged
    <2>4. Newest(Reached(b)).fire = f[t] /\ Newest(Reached(b)) \in Intents
        BY <2>2, BoxForm DEF Traced
    <2> HIDE DEF t
    <2>5. t \in Int /\ t # None /\ lo <= t /\ t < come
        BY <2>2, Limits
    <2>6. Upto(c) = t
        BY <2>3, <2>5 DEF Upto, Next
    <2>7. Scan(Begun(b), Reached(b)).press = FirstOf(Rises(f, Upto(b), t))
        <3>1. Reached(b) \subseteq Intents /\ Unique(Reached(b))
            <4>1. \A m \in Reached(b) : m \in b.queue
                BY <2>2
            <4>2. Unique(b.queue) /\ b.queue \subseteq Intents
                BY BoxForm DEF Held
            <4> QED
                BY <4>1, <4>2 DEF Unique
        <3>2. \A m \in Reached(b) : lo - 1 < m.tick /\ m.tick <= t /\ m.fire = f[m.tick]
            <4>1. \A m \in Reached(b) : m.tick \in Nat /\ m.fire = f[m.tick]
                BY <2>2, <3>1, IntentForm DEF Traced
            <4> QED
                BY <2>2, <4>1
        <3>3. \A s \in (lo - 1 + 1)..t : \E m \in Reached(b) : m.tick = s
            <4>1. lo - 1 + 1 = lo
                OBVIOUS
            <4> QED
                BY <2>2, <4>1
        <3>4. lo - 1 \in Int /\ lo - 1 < t
            BY <2>5
        <3> QED
            BY <1>4, <2>5, <3>1, <3>2, <3>3, <3>4, ScanAlong
    <2>8. c.last # None /\ OwnDown(c) = f[t]
        <3>1. c.last \in Intents /\ c.last.fire = f[t]
            BY <2>3, <2>4
        <3>2. c.last # None /\ c.last.fire \in BOOLEAN
            BY <3>1, NoneIsNothing, IntentForm
        <3> QED
            BY <3>1, <3>2 DEF OwnDown
    <2>9. Traced(c, f)
        BY <2>3, <2>6, <2>8 DEF Traced
    <2>10. Upto(b) \in -1..Upto(c) /\ Upto(c) < come /\ Upto(c) \in Int
        BY <1>4, <2>5, <2>6
    <2>11. Delivered(b, c, FirstOf(Rises(f, Upto(b), Upto(c))), f[Upto(c)])
        BY <2>3, <2>4, <2>6, <2>7
    <2> QED
        BY <2>8, <2>9, <2>10, <2>11 DEF c
<1> QED
    BY <1>6, <1>7

\* The shot a read makes the round fire, which holds the trigger or does not.
Shot(held, c) == IF c.delivered /\ ~held THEN PressTick(c) ELSE None

\* What the round makes of a read.  It may hold the trigger where the mailbox
\* has handed it over only; its shots are presses where it does so exactly.
Made(held, shots, b, c, f, lo, hi) ==
    /\ Owing(c, f)
    /\ b.owed_press # None => Shot(held, c) = b.owed_press
    /\ b.owed_press = None /\ Rises(f, lo, hi) # {} =>
         Min(Rises(f, lo, hi)) \in {Shot(held, c), c.owed_press}
    /\ (b.delivered => held) /\ shots \subseteq Rises(f, -1, lo) /\ b.owed_press \notin shots =>
         /\ c.owed_press \notin shots \cup {Shot(held, c)} \/ c.owed_press = None
         /\ Shot(held, c) # None => Shot(held, c) \in Rises(f, -1, hi) \ shots

LEMMA ReadShoots ==
    ASSUME NEW b \in Box, NEW c \in Box, NEW f \in Triggering, Owing(b, f), c.last # None,
           NEW lo \in Int, NEW hi \in Int, lo = Upto(b), hi = Upto(c),
           lo >= -1, lo <= hi, hi <= MaxPeriods,
           Delivered(b, c, FirstOf(Rises(f, lo, hi)), f[hi]),
           NEW held, held => b.delivered, NEW shots
    PROVE  Made(held, shots, b, c, f, lo, hi)
<1> DEFINE R == Rises(f, lo, hi)
           A == Rises(f, -1, lo)
           B == Rises(f, -1, hi)
<1>1. /\ B = A \cup R /\ (\A s \in A, t \in R : s < t)
      /\ R \subseteq Ticks /\ A \subseteq Ticks /\ B \subseteq Ticks
    BY RisesSplit, RisesType
<1>2. R # {} => FirstOf(R) \in R /\ FirstOf(R) # None /\ FirstOf(R) = Min(R)
    <2>1. R # {} => FirstOf(R) = Min(R)
        BY DEF FirstOf
    <2> HIDE DEF R
    <2> QED
        BY <1>1, <2>1, FirstOfForm
<1>3. R = {} => FirstOf(R) = None
    BY DEF FirstOf
<1>4. R = {} /\ f[hi] => f[lo]
    BY RiseBetween
<1>5. None \notin Ticks /\ (\A t \in Ticks : ~(t < t)) /\ f[hi] \in BOOLEAN
    <2>1. \A t \in Ticks : t \in Nat
        BY NoneIsNothing
    <2> QED
        BY <2>1, NoneIsNothing DEF Triggering
<1>6. /\ b.owed_press = None /\ f[lo] => b.delivered
      /\ b.owed_press # None => ~b.delivered /\ b.owed_press \in A
    BY DEF Owing
<1>7. b.delivered \in BOOLEAN /\ c.delivered \in BOOLEAN
    BY BoxForm
<1>8. c.press # None => PressTick(c) = c.press
    BY DEF PressTick
<1>9. Owing(c, f) <=> /\ c.owed_press = None /\ f[hi] => c.delivered
                      /\ c.owed_press # None => ~c.delivered /\ c.owed_press \in B
    BY DEF Owing
<1>10. Delivered(b, c, FirstOf(R), f[hi])
    OBVIOUS
<1> DEFINE same == (b.delivered => held) /\ shots \subseteq A /\ b.owed_press \notin shots
<1>11. same => (b.delivered => held) /\ shots \subseteq A /\ b.owed_press \notin shots
    OBVIOUS
<1> SUFFICES /\ Owing(c, f)
             /\ b.owed_press # None => Shot(held, c) = b.owed_press
             /\ b.owed_press = None /\ R # {} => Min(R) \in {Shot(held, c), c.owed_press}
             /\ same => /\ c.owed_press \notin shots \cup {Shot(held, c)} \/ c.owed_press = None
                        /\ Shot(held, c) # None => Shot(held, c) \in B \ shots
    BY DEF Made
<1> HIDE DEF A, B, R, same
<1>12. CASE b.owed_press # None
    <2>1. c.delivered /\ c.press = b.owed_press /\ c.owed_press = None
        BY <1>10, <1>12 DEF Delivered
    <2>2. Shot(held, c) = b.owed_press
        BY <1>6, <1>8, <1>12, <2>1 DEF Shot
    <2> QED
        BY <1>1, <1>6, <1>9, <1>11, <1>12, <2>1, <2>2
<1>13. CASE b.owed_press = None /\ R # {} /\ ~b.delivered
    <2>1. c.delivered /\ c.press = FirstOf(R) /\ c.owed_press = None
        BY <1>2, <1>10, <1>13 DEF Delivered
    <2>2. Shot(held, c) = FirstOf(R)
        BY <1>2, <1>8, <1>13, <2>1 DEF Shot
    <2>3. same => FirstOf(R) \notin shots
        BY <1>1, <1>2, <1>5, <1>11, <1>13
    <2> QED
        BY <1>1, <1>2, <1>9, <1>13, <2>1, <2>2, <2>3
<1>14. CASE b.owed_press = None /\ R # {} /\ b.delivered
    <2>1. ~c.delivered /\ c.owed_press = FirstOf(R)
        BY <1>2, <1>10, <1>14 DEF Delivered
    <2>2. Shot(held, c) = None
        BY <2>1 DEF Shot
    <2>3. same => FirstOf(R) \notin shots
        BY <1>1, <1>2, <1>5, <1>11, <1>14
    <2> QED
        BY <1>1, <1>2, <1>9, <1>14, <2>1, <2>2, <2>3
<1>15. CASE b.owed_press = None /\ R = {}
    <2>1. c.delivered = f[hi] /\ c.owed_press = None
        BY <1>3, <1>10, <1>15 DEF Delivered
    <2>2. same => Shot(held, c) = None
        BY <1>4, <1>6, <1>11, <1>15, <2>1 DEF Shot
    <2> QED
        BY <1>5, <1>9, <1>15, <2>1, <2>2
<1> QED
    BY <1>7, <1>12, <1>13, <1>14, <1>15

\* Two triggers that are one until the client's next tick.
Agree(f, g, n) == \A i \in Int : -1 <= i /\ i < n => g[i] = f[i]

LEMMA RisesAgree ==
    ASSUME NEW f, NEW g, NEW n \in Nat, Agree(f, g, n),
           NEW lo \in Int, NEW hi \in Int, lo >= -1, hi < n
    PROVE  Rises(g, lo, hi) = Rises(f, lo, hi)
<1>1. ASSUME NEW t \in Ticks, lo < t, t <= hi PROVE g[t] = f[t] /\ g[t - 1] = f[t - 1]
    <2>1. t \in Nat
        BY NoneIsNothing
    <2>2. t \in Int /\ -1 <= t /\ t < n /\ t - 1 \in Int /\ -1 <= t - 1 /\ t - 1 < n
        BY <1>1, <2>1
    <2> QED
        BY <2>2 DEF Agree
<1> QED
    BY <1>1 DEF Rises

LEMMA TracedAgree ==
    ASSUME NEW b \in Box, NEW come \in Nat, NEW gone, NEW n \in Nat, come <= n,
           Line(b, come, gone, TRUE),
           NEW f \in Triggering, NEW g \in Triggering, Agree(f, g, n),
           Traced(b, f), Owing(b, f)
    PROVE  Traced(b, g) /\ Owing(b, g)
<1>1. PICK lo \in Nat : Row(b, come, gone, TRUE, lo)
    BY DEF Line
<1>2. -1 <= Upto(b) /\ Upto(b) < n /\ Upto(b) \in Int
    BY <1>1, NextForm DEF Upto, Row
<1>3. g[Upto(b)] = f[Upto(b)]
    BY <1>2 DEF Agree
<1>4. \A m \in b.queue : m.fire = g[m.tick]
    <2>1. \A m \in b.queue : m.tick \in Int /\ -1 <= m.tick /\ m.tick < n
        BY <1>1, BoxForm, IntentForm DEF Row
    <2> QED
        BY <2>1 DEF Traced, Agree
<1>5. ASSUME b.folded # None
      PROVE  /\ b.folded.down = g[b.folded.through]
             /\ b.folded.press = FirstOf(Rises(g, Upto(b), b.folded.through))
    <2>1. b.folded.through = lo - 1 /\ lo <= come
        BY <1>1, <1>5 DEF Row
    <2>2. -1 <= lo - 1 /\ lo - 1 \in Int /\ lo - 1 < n /\ Upto(b) >= -1
        BY <1>2, <2>1
    <2>3. Rises(g, Upto(b), lo - 1) = Rises(f, Upto(b), lo - 1)
        BY <1>2, <2>2, RisesAgree
    <2>4. g[lo - 1] = f[lo - 1]
        BY <2>2 DEF Agree
    <2> QED
        BY <1>5, <2>1, <2>3, <2>4 DEF Traced
<1>6. Rises(g, -1, Upto(b)) = Rises(f, -1, Upto(b))
    <2>1. Upto(b) < n /\ -1 \in Int /\ -1 >= -1
        BY <1>2
    <2> QED
        BY <1>2, <2>1, RisesAgree
<1>7. Traced(b, g)
    BY <1>3, <1>4, <1>5 DEF Traced
<1>8. Owing(b, g)
    BY <1>3, <1>6 DEF Owing
<1> QED
    BY <1>7, <1>8

----------------------------------------------------------------------------
(***************************************************************************)
(* Every press fired on, owed or merged into another.                      *)
(***************************************************************************)

\* f is the client's trigger.  The round holds what has been handed over, or -
\* once the seat has coasted out, where w does not say it never did - less.
TraceLine(f, w) ==
    /\ \A i \in 1..Len(link) : link[i].fire = f[link[i].tick]
    /\ client.fire = f[client.tick - 1]
    /\ pressed = Rises(f, -1, client.tick - 1)
    /\ Traced(inner, f) /\ Owing(inner, f)
    /\ Rises(f, -1, Upto(inner)) \subseteq fired \cup behind \cup {inner.owed_press}
    /\ round.held => inner.delivered
    /\ w => /\ inner.delivered => round.held
            /\ fired \subseteq Rises(f, -1, Upto(inner)) /\ inner.owed_press \notin fired

TriggerInv(w) == drives /\ ordered => \E f \in Triggering : TraceLine(f, w)

LEMMA InitTrigger == ASSUME NEW w \in BOOLEAN PROVE MCInit => TriggerInv(w)
<1> SUFFICES ASSUME MCInit PROVE \E f \in Triggering : TraceLine(f, w)
    BY DEF TriggerInv
<1>1. /\ link = <<>> /\ client = NewClient /\ inner = Empty /\ pressed = {} /\ fired = {}
      /\ round = [held |-> FALSE, fired |-> None]
    BY DEF MCInit, InputInit, MailboxInit
<1> DEFINE f == [i \in Int |-> FALSE]
<1>2. f \in Triggering /\ f[-1] = FALSE
    BY DEF Triggering
<1>3. Upto(Empty) = -1
    BY DEF Upto, Next, Empty
<1>4. Rises(f, -1, -1) = {}
    BY RisesSplit
<1> HIDE DEF f
<1>5. Traced(Empty, f) /\ Owing(Empty, f)
    BY <1>2, <1>3 DEF Traced, Owing, OwnDown, Empty
<1>6. client.fire = FALSE /\ client.tick - 1 = -1 /\ Len(link) = 0
    BY <1>1 DEF NewClient
<1>7. inner.owed_press = None /\ inner.delivered = FALSE
    BY <1>1 DEF Empty
<1>8. Upto(inner) = -1 /\ Traced(inner, f) /\ Owing(inner, f)
    BY <1>1, <1>3, <1>5
<1>9. pressed = Rises(f, -1, client.tick - 1) /\ client.fire = f[client.tick - 1]
    BY <1>1, <1>2, <1>4, <1>6
<1>10. /\ fired \subseteq Rises(f, -1, Upto(inner)) /\ inner.owed_press \notin fired
       /\ Rises(f, -1, Upto(inner)) \subseteq fired \cup behind \cup {inner.owed_press}
    BY <1>1, <1>4, <1>8
<1>11. \A i \in 1..Len(link) : link[i].fire = f[link[i].tick]
    BY <1>6
<1>12. TraceLine(f, w)
    BY <1>1, <1>7, <1>8, <1>9, <1>10, <1>11 DEF TraceLine
<1> QED
    BY <1>2, <1>12

LEMMA AgedTraced ==
    ASSUME NEW b, NEW c, NEW f, Traced(b, f), Owing(b, f),
           c.queue = b.queue, c.last = b.last, c.applied = b.applied, c.folded = b.folded,
           c.delivered = b.delivered, c.owed_press = b.owed_press
    PROVE  Traced(c, f) /\ Owing(c, f) /\ Upto(c) = Upto(b)
<1>1. Upto(c) = Upto(b) /\ OwnDown(c) = OwnDown(b)
    BY DEF Upto, Next, OwnDown
<1> QED
    BY <1>1 DEF Traced, Owing

\* Which of the steps a step is.
LEMMA StepsApart ==
    ASSUME InputInv
    PROVE  /\ Period => ~Drive /\ ~RoomTick
           /\ Drive => ~RoomTick
           /\ RoomTick => ~Drive
<1>1. periods \in Int /\ client.tick \in Int
    BY ClientForm DEF InputInv, EnvType
<1>2. Drive => client'.tick # client.tick
    BY <1>1, DriveSends
<1>3. Period => periods' # periods
    BY <1>1 DEF Period
<1>4. RoomTick => periods' = periods /\ client' = client
    BY DEF RoomTick
<1>5. Drive => periods' = periods
    BY DEF Drive
<1> QED
    BY <1>2, <1>3, <1>4, <1>5

LEMMA PeriodTrigger ==
    ASSUME InputInv, MCNext, Period, NEW f \in Triggering,
           NEW w \in BOOLEAN, TraceLine(f, w)
    PROVE  TraceLine(f, w)'
<1>1. inner \in Box
    BY DEF InputInv, BoxType
<1>2. /\ inner'.queue = inner.queue /\ inner'.last = inner.last /\ inner'.applied = inner.applied
      /\ inner'.folded = inner.folded
      /\ inner'.delivered = inner.delivered /\ inner'.owed_press = inner.owed_press
    BY <1>1 DEF Period, Age, Box
<1>3. Traced(inner', f) /\ Owing(inner', f) /\ Upto(inner') = Upto(inner)
    BY <1>2, AgedTraced DEF TraceLine
<1>4. pressed' = pressed /\ fired' = fired /\ behind' = behind
    BY StepsApart DEF MCNext
<1>5. client'.tick = client.tick /\ client'.fire = client.fire
    BY DEF Period, InputInv, EnvType, Clients
<1>6. link' = link /\ round' = round
    BY DEF Period
<1> QED
    BY <1>2, <1>3, <1>4, <1>5, <1>6 DEF TraceLine

LEMMA DriveTrigger ==
    ASSUME InputInv, OrderedInv, MCNext, ordered, drives, Drive, NEW f \in Triggering,
           NEW w \in BOOLEAN, TraceLine(f, w)
    PROVE  \E g \in Triggering : TraceLine(g, w)'
<1>1. PICK m \in Intents : /\ client'.tick = client.tick + 1 /\ client'.fire = m.fire
                           /\ link' = Append(link, m) /\ m.tick = client.tick
    BY DriveSends
<1> DEFINE n == client.tick
<1>2. LinkLine /\ Line(inner, Come, dropped, TRUE)
    BY DEF OrderedInv, drives
<1>3. /\ n \in Nat /\ n \in Ticks /\ Len(link) \in Nat /\ Come \in Nat /\ link \in Seq(Intents)
      /\ Come + Len(link) = n /\ m.fire \in BOOLEAN
    BY <1>2, LinkFacts, ClientForm, IntentForm DEF InputInv, EnvType
<1>4. inner \in Box /\ inner' = inner /\ round' = round /\ fired' = fired /\ behind' = behind
    BY StepsApart DEF InputInv, BoxType, Drive, mailboxVars, MCNext
<1>5. pressed' = IF client'.fire /\ ~client.fire THEN pressed \cup {client.tick} ELSE pressed
    BY DEF MCNext
<1> HIDE DEF n
<1>6. PICK g \in Triggering : g[n] = m.fire /\ Agree(f, g, n)
    <2> DEFINE h == [f EXCEPT ![n] = m.fire]
    <2>1. h \in Triggering /\ h[n] = m.fire /\ Agree(f, h, n)
        BY <1>3 DEF Triggering, Agree
    <2> QED
        BY <2>1
<1>7. /\ Len(link') = Len(link) + 1 /\ link'[Len(link) + 1] = m
      /\ \A i \in 1..Len(link) : link'[i] = link[i]
    BY <1>1, <1>3
<1>8. ASSUME NEW i \in 1..Len(link')
      PROVE  link'[i].fire = g[link'[i].tick]
    <2>1. CASE i = Len(link) + 1
        BY <1>1, <1>6, <1>7, <2>1 DEF n
    <2>2. CASE i # Len(link) + 1
        <3>1. i \in 1..Len(link) /\ i \in Nat /\ i <= Len(link)
            BY <1>3, <1>7, <2>2
        <3>2. link[i].tick = Come + i - 1
            BY <1>2, <3>1 DEF LinkLine
        <3>3. Come + i - 1 \in Int /\ -1 <= Come + i - 1 /\ Come + i - 1 < n
            BY <1>3, <3>1
        <3>4. g[Come + i - 1] = f[Come + i - 1]
            BY <1>6, <3>3 DEF Agree
        <3> QED
            BY <1>7, <3>1, <3>2, <3>4 DEF TraceLine
    <2> QED
        BY <2>1, <2>2
<1>9. Traced(inner, g) /\ Owing(inner, g)
    <2>1. Come <= n
        BY <1>3
    <2>2. Traced(inner, f) /\ Owing(inner, f)
        BY DEF TraceLine
    <2> QED
        BY <1>2, <1>3, <1>4, <1>6, <2>1, <2>2, TracedAgree
<1>10. Upto(inner) \in Int /\ Upto(inner) >= -1 /\ Upto(inner) < n
    <2>1. PICK lo \in Nat : Row(inner, Come, dropped, TRUE, lo)
        BY <1>2 DEF Line
    <2> QED
        BY <1>3, <1>4, <2>1, NextForm DEF Row, Upto
<1>11. Rises(g, -1, Upto(inner)) = Rises(f, -1, Upto(inner))
    <2>1. -1 \in Int /\ -1 >= -1
        OBVIOUS
    <2> QED
        BY <1>3, <1>6, <1>10, <2>1, RisesAgree
<1>12. pressed' = Rises(g, -1, n)
    <2> DEFINE k == n - 1
    <2>1. k \in Int /\ -1 <= k /\ k >= -1 /\ k < n /\ k <= n /\ n \in Int /\ -1 \in Int
        BY <1>3
    <2>2. pressed = Rises(f, -1, k) /\ client.fire = f[k]
        BY DEF TraceLine, n
    <2>3. Rises(g, k, n) = IF g[n] /\ ~g[k] THEN {n} ELSE {}
        <3>1. \A t \in Ticks : k < t /\ t <= n <=> t = n
            <4>1. \A t \in Ticks : t \in Nat
                BY NoneIsNothing
            <4> QED
                BY <1>3, <4>1
        <3> QED
            BY <1>3, <3>1 DEF Rises
    <2>4. pressed' = IF client'.fire /\ ~client.fire THEN pressed \cup {n} ELSE pressed
        BY <1>5 DEF n
    <2> HIDE DEF k
    <2>5. Rises(g, -1, k) = Rises(f, -1, k)
        BY <1>3, <1>6, <2>1, RisesAgree
    <2>6. Rises(g, -1, n) = Rises(g, -1, k) \cup Rises(g, k, n)
        BY <2>1, RisesSplit
    <2>7. client'.fire = g[n] /\ client.fire = g[k]
        BY <1>1, <1>6, <2>1, <2>2 DEF Agree
    <2> QED
        BY <2>2, <2>3, <2>4, <2>5, <2>6, <2>7
<1>13. client'.fire = g[client'.tick - 1] /\ client'.tick - 1 = n
    BY <1>1, <1>3, <1>6 DEF n
<1>14. /\ Rises(g, -1, Upto(inner)) \subseteq fired \cup behind \cup {inner.owed_press}
       /\ round.held => inner.delivered
       /\ w => /\ inner.delivered => round.held
               /\ fired \subseteq Rises(g, -1, Upto(inner)) /\ inner.owed_press \notin fired
    BY <1>11 DEF TraceLine
<1>15. /\ pressed' = Rises(g, -1, client'.tick - 1)
       /\ Traced(inner', g) /\ Owing(inner', g)
       /\ Rises(g, -1, Upto(inner')) \subseteq fired' \cup behind' \cup {inner'.owed_press}
       /\ round'.held => inner'.delivered
       /\ w => /\ inner'.delivered => round'.held
               /\ fired' \subseteq Rises(g, -1, Upto(inner')) /\ inner'.owed_press \notin fired'
    BY <1>4, <1>9, <1>12, <1>13, <1>14
<1>16. TraceLine(g, w)'
    BY <1>8, <1>13, <1>15 DEF TraceLine
<1> QED
    BY <1>6, <1>16

LEMMA ArriveTrigger ==
    ASSUME InputInv, OrderedInv, MCNext, ordered, drives, Arrive, NEW f \in Triggering,
           NEW w \in BOOLEAN, TraceLine(f, w)
    PROVE  TraceLine(f, w)'
<1>1. LinkLine /\ Line(inner, Come, dropped, TRUE) /\ link \in Seq(Intents) /\ Len(link) \in Nat /\ Come \in Nat
    BY LinkFacts DEF OrderedInv, drives
<1>2. /\ link # <<>> /\ link[1] \in Intents /\ link[1].tick = Come /\ link[1].owned = drives
      /\ inner' = Posted(inner, link[1])
      /\ Len(link') = Len(link) - 1 /\ \A j \in 1..Len(link') : link'[j] = link[j + 1]
      /\ ~RoomTick
    BY <1>1, ArriveFirst
<1>3. inner \in Box /\ Held(inner.queue)
    BY DEF InputInv, BoxType
<1>4. 1 \in 1..Len(link)
    <2>1. Len(link) # 0
        BY <1>1, <1>2
    <2> QED
        BY <1>1, <2>1
<1>5. link[1].fire = f[Come] /\ link[1].owned
    BY <1>2, <1>4 DEF TraceLine
<1>6. Traced(inner', f)
    BY <1>1, <1>2, <1>3, <1>5, PostTraced DEF TraceLine
<1>7. Unread(inner, inner')
    BY <1>2, <1>3, PostedForm
<1>8. Upto(inner') = Upto(inner) /\ Owing(inner', f)
    BY <1>7 DEF Unread, Upto, Next, Owing, TraceLine
<1>9. ~Drive
    <2>1. Drive => Len(link') = Len(link) + 1
        BY <1>1, DriveSends
    <2> QED
        BY <1>1, <1>2, <2>1
<1>10. pressed' = pressed /\ fired' = fired /\ behind' = behind
    BY <1>2, <1>9 DEF MCNext
<1>11. client' = client /\ round' = round
    BY DEF Arrive
<1>12. \A j \in 1..Len(link') : link'[j].fire = f[link'[j].tick]
    <2> SUFFICES ASSUME NEW j \in 1..Len(link') PROVE link'[j].fire = f[link'[j].tick]
        OBVIOUS
    <2>1. j + 1 \in 1..Len(link)
        BY <1>1, <1>2
    <2> QED
        BY <1>2, <2>1 DEF TraceLine
<1> QED
    BY <1>6, <1>7, <1>8, <1>10, <1>11, <1>12 DEF TraceLine, Unread

\* The presses a read merged into another.
LEMMA BehindForm ==
    ASSUME inner \in Box, inner' \in Box, NEW f, NEW n \in Int, pressed = Rises(f, -1, n),
           NEW lo \in Int, NEW hi \in Int, lo = Upto(inner), hi = Upto(inner'), lo >= -1, lo < hi, hi <= n,
           Rises(f, lo, hi) # {}
    PROVE  Behind = IF inner.owed_press # None THEN Rises(f, lo, hi)
                                               ELSE Rises(f, lo, hi) \ {Min(Rises(f, lo, hi))}
<1>1. /\ inner.applied # None => inner.applied \in Nat /\ lo = inner.applied
      /\ inner.applied = None => lo = -1
      /\ inner'.applied # None => inner'.applied \in Nat /\ hi = inner'.applied
      /\ inner'.applied = None => hi = -1
    <2>1. inner.applied # None => inner.applied \in Nat
        BY BoxForm
    <2>2. inner'.applied # None => inner'.applied \in Nat
        BY BoxForm
    <2> QED
        BY <2>1, <2>2 DEF Upto, Next
<1>2. inner'.applied # None /\ inner'.applied = hi /\ inner'.applied # inner.applied
    BY <1>1
<1> DEFINE taken == {p \in pressed : p <= inner'.applied /\ (inner.applied # None => p > inner.applied)}
<1>3. taken = Rises(f, lo, hi)
    <2>1. \A t \in Ticks : t \in Nat
        BY NoneIsNothing
    <2>2. \A t \in Ticks : (-1 < t /\ t <= n /\ t <= hi /\ (inner.applied # None => t > inner.applied))
                              <=> (lo < t /\ t <= hi)
        BY <1>1, <2>1
    <2> QED
        BY <1>2, <2>2 DEF Rises
<1>4. Behind = IF inner'.applied = inner.applied \/ taken = {} THEN {}
               ELSE IF inner.owed_press # None THEN taken ELSE taken \ {Min(taken)}
    BY DEF Behind
<1> HIDE DEF taken
<1> QED
    BY <1>2, <1>3, <1>4

LEMMA RoomTickTrigger ==
    ASSUME InputInv, OrderedInv, MCNext, ordered, drives, RoomTick,
           NEW f \in Triggering, NEW w \in BOOLEAN, TraceLine(f, w), w => ~CoastedOut(inner)
    PROVE  TraceLine(f, w)' /\ (w /\ round'.fired # None => round'.fired \in pressed \ fired)
<1>1. LinkLine /\ Line(inner, Come, dropped, TRUE)
    BY DEF OrderedInv, drives
<1>2. Come \in Nat /\ client.tick \in Nat /\ Come <= client.tick /\ client.tick <= MaxPeriods
    BY <1>1, LinkFacts, ClientForm, Limits DEF InputInv, EnvType, Ticks
<1>3. inner \in Box /\ Held(inner.queue) /\ inner' \in Box /\ inner' = ReadBox(inner) /\ read' \in Maybe(Intents)
    BY RoomTickKeeps DEF InputInv, BoxType, RoomTick, Read
<1>4. client' = client /\ link' = link /\ pressed' = pressed
    BY StepsApart DEF RoomTick, MCNext
<1>5. /\ fired' = IF round'.fired # None THEN fired \cup {round'.fired} ELSE fired
      /\ behind' = behind \cup Behind
    BY DEF MCNext
<1>6. read' = ReadOf(inner, inner')
    BY DEF RoomTick, Read
<1>7. LET fire == read' # None /\ read'.fire
      IN  round' = [held |-> fire,
                    fired |-> IF fire /\ ~round.held THEN PressTick(inner') ELSE None]
    BY DEF RoomTick, Trigger
<1>8. /\ Traced(inner, f) /\ Owing(inner, f)
      /\ round.held => inner.delivered
      /\ w => /\ inner.delivered => round.held
              /\ fired \subseteq Rises(f, -1, Upto(inner)) /\ inner.owed_press \notin fired
      /\ Rises(f, -1, Upto(inner)) \subseteq fired \cup behind \cup {inner.owed_press}
      /\ pressed = Rises(f, -1, client.tick - 1)
    BY DEF TraceLine
\* What does not touch the mailbox's side of it.
<1>9. SUFFICES /\ Traced(inner', f) /\ Owing(inner', f)
               /\ Rises(f, -1, Upto(inner')) \subseteq fired' \cup behind' \cup {inner'.owed_press}
               /\ round'.held => inner'.delivered
               /\ w => /\ inner'.delivered => round'.held
                       /\ fired' \subseteq Rises(f, -1, Upto(inner')) /\ inner'.owed_press \notin fired'
                       /\ round'.fired # None => round'.fired \in pressed \ fired
    <2>1. \A i \in 1..Len(link') : link'[i].fire = f[link'[i].tick]
        BY <1>4 DEF TraceLine
    <2>2. client'.fire = f[client'.tick - 1] /\ pressed' = Rises(f, -1, client'.tick - 1)
        BY <1>4 DEF TraceLine
    <2> QED
        BY <1>9, <2>1, <2>2 DEF TraceLine
<1>10. inner.delivered \in BOOLEAN /\ inner'.delivered \in BOOLEAN
    BY <1>3, BoxForm
<1>11. inner.delivered = TRUE \/ inner.delivered = FALSE
    BY <1>10
\* A read that applies nothing and hands nothing over.
<1>15. ASSUME Upto(inner') = Upto(inner), Traced(inner', f), Owing(inner', f), read' = None,
              inner'.owed_press = inner.owed_press, w => ~inner.delivered /\ ~inner'.delivered
       PROVE  /\ Traced(inner', f) /\ Owing(inner', f)
              /\ Rises(f, -1, Upto(inner')) \subseteq fired' \cup behind' \cup {inner'.owed_press}
              /\ round'.held => inner'.delivered
              /\ w => /\ inner'.delivered => round'.held
                      /\ fired' \subseteq Rises(f, -1, Upto(inner')) /\ inner'.owed_press \notin fired'
                      /\ round'.fired # None => round'.fired \in pressed \ fired
    <2>1. round'.held = FALSE /\ round'.fired = None
        BY <1>7, <1>15
    <2>2. fired' = fired /\ behind \subseteq behind'
        BY <1>5, <2>1
    <2> QED
        BY <1>8, <1>15, <2>1, <2>2
<1>14. CASE Come > 0 /\ CoastedOut(inner)
    <2>1. inner' = [inner EXCEPT !.play = None] /\ inner.silent # None
        BY <1>3, <1>14 DEF ReadBox, CoastedOut
    <2>2. /\ inner'.queue = inner.queue /\ inner'.last = inner.last /\ inner'.applied = inner.applied
          /\ inner'.folded = inner.folded
          /\ inner'.delivered = inner.delivered /\ inner'.owed_press = inner.owed_press
        BY <1>3, <2>1 DEF Box
    <2>3. Traced(inner', f) /\ Owing(inner', f) /\ Upto(inner') = Upto(inner)
        BY <1>8, <2>2, AgedTraced
    <2>4. read' = None
        BY <1>6, <1>14 DEF ReadOf
    <2> QED
        BY <1>15, <1>14, <2>2, <2>3, <2>4
<1>12. CASE Come = 0
    <2>1. inner.silent = None /\ inner.last = None
        BY <1>1, <1>12 DEF Line, Waiting
    <2>2. inner' = inner
        BY <1>3, <2>1, ReadForm
    <2>3. read' = None
        BY <1>6, <2>1 DEF ReadOf
    <2> QED
        BY <1>8, <1>15, <2>1, <2>2, <2>3 DEF Owing
<1>13. CASE Come > 0 /\ ~CoastedOut(inner)
    <2> DEFINE lo == Upto(inner)
               hi == Upto(inner')
    <2>1. /\ Traced(inner', f) /\ hi \in Int /\ lo \in -1..hi /\ hi < Come
          /\ inner'.last = None =>
               /\ inner.last = None /\ hi = lo
               /\ inner'.delivered = inner.delivered /\ inner'.owed_press = inner.owed_press
          /\ inner'.last # None => Delivered(inner, inner', FirstOf(Rises(f, lo, hi)), f[hi])
        <3>1. LET c == ReadBox(inner)
              IN  /\ Traced(c, f) /\ Upto(c) \in Int /\ Upto(inner) \in -1..Upto(c) /\ Upto(c) < Come
                  /\ c.last = None =>
                       /\ inner.last = None /\ Upto(c) = Upto(inner)
                       /\ c.delivered = inner.delivered /\ c.owed_press = inner.owed_press
                  /\ c.last # None =>
                       Delivered(inner, c, FirstOf(Rises(f, Upto(inner), Upto(c))), f[Upto(c)])
            BY <1>1, <1>2, <1>3, <1>8, <1>13, ReadTraced
        <3> QED
            BY <1>3, <3>1
    <2>2. IsOwned(inner) = TRUE /\ inner.silent # None
        <3>1. inner.silent # None
            BY <1>1, <1>13 DEF Line, Waiting
        <3> QED
            BY <1>1, <1>2, <1>3, <1>13, <3>1, ReadAsOwn
    <2>3. CASE inner'.last = None
        <3>1. read' = None
            BY <1>6, <2>3 DEF ReadOf
        <3>2. Owing(inner', f) /\ ~inner.delivered
            BY <1>8, <2>1, <2>3 DEF Owing
        <3> QED
            BY <1>15, <2>1, <2>3, <3>1, <3>2
    <2>4. CASE inner'.last # None
        <3>1. read' # None /\ read'.fire = inner'.delivered
            <4>1. read' = [inner'.last EXCEPT !.fire = inner'.delivered]
                BY <1>6, <1>13, <2>2, <2>4 DEF ReadOf
            <4>2. inner'.last \in Intents
                BY <1>3, <2>4, BoxForm
            <4>3. [inner'.last EXCEPT !.fire = inner'.delivered] \in Intents
                BY <1>10, <4>2 DEF Intents
            <4>4. [inner'.last EXCEPT !.fire = inner'.delivered].fire = inner'.delivered
                BY <4>2 DEF Intents
            <4> QED
                BY <4>1, <4>3, <4>4, NoneIsNothing
        <3>2. round'.held = inner'.delivered /\ round'.fired = Shot(round.held, inner')
            BY <1>7, <1>10, <3>1 DEF Shot
        <3> DEFINE R == Rises(f, lo, hi)
                   B == Rises(f, -1, hi)
                   shot == Shot(round.held, inner')
        <3>3. lo \in Int /\ lo >= -1 /\ lo <= hi /\ hi <= MaxPeriods /\ hi <= client.tick - 1
            <4>1. hi \in Int /\ lo \in -1..hi /\ hi < Come
                BY <2>1
            <4>2. MaxPeriods \in Nat
                BY Limits
            <4> HIDE DEF lo, hi
            <4>3. lo \in Int /\ lo >= -1 /\ lo <= hi
                BY <4>1
            <4> QED
                BY <1>2, <4>1, <4>2, <4>3
        <3>4. /\ Owing(inner', f)
              /\ inner.owed_press # None => shot = inner.owed_press
              /\ inner.owed_press = None /\ R # {} => Min(R) \in {shot, inner'.owed_press}
              /\ w => /\ inner'.owed_press \notin fired \cup {shot} \/ inner'.owed_press = None
                      /\ shot # None => shot \in B \ fired
            <4> HIDE DEF lo, hi
            <4>1. lo = Upto(inner) /\ hi = Upto(inner')
                BY DEF lo, hi
            <4>2. w => (inner.delivered => round.held) /\ fired \subseteq Rises(f, -1, lo) /\ inner.owed_press \notin fired
                BY <1>8, <4>1
            <4>3. Delivered(inner, inner', FirstOf(Rises(f, lo, hi)), f[hi])
                BY <2>1, <2>4
            <4>4. round.held \in BOOLEAN /\ round.held => inner.delivered
                BY <1>8 DEF InputInv, EnvType, Rounds
            <4>5. Owing(inner, f)
                BY <1>8
            <4>6. Made(round.held, fired, inner, inner', f, lo, hi)
                BY <1>3, <2>1, <2>4, <3>3, <4>1, <4>3, <4>4, <4>5, ReadShoots
            <4> QED
                BY <4>2, <4>6 DEF Made
        <3>5. B \subseteq pressed /\ Rises(f, -1, lo) \cup R = B /\ B \subseteq Ticks /\ R \subseteq Ticks
            <4> HIDE DEF lo, hi
            <4> DEFINE k == client.tick - 1
            <4>1. k \in Int /\ hi <= k /\ -1 <= hi /\ -1 <= lo /\ lo <= hi /\ hi \in Int /\ lo \in Int /\ -1 \in Int
                BY <1>2, <2>1, <3>3
            <4>2. pressed = Rises(f, -1, k)
                BY <1>8
            <4> HIDE DEF k
            <4>3. Rises(f, -1, k) = Rises(f, -1, hi) \cup Rises(f, hi, k)
                BY <4>1, RisesSplit
            <4>4. Rises(f, -1, hi) = Rises(f, -1, lo) \cup Rises(f, lo, hi)
                <5>1. -1 \in Int /\ lo \in Int /\ hi \in Int /\ -1 <= lo /\ lo <= hi
                    BY <4>1
                <5> QED
                    BY <5>1, RisesSplit
            <4> QED
                BY <4>2, <4>3, <4>4, RisesType
        <3>6. R # {} => R \subseteq behind' \cup (IF inner.owed_press # None THEN {} ELSE {Min(R)})
            <4> SUFFICES ASSUME R # {}
                         PROVE  R \subseteq behind' \cup (IF inner.owed_press # None THEN {} ELSE {Min(R)})
                OBVIOUS
            <4> HIDE DEF lo, hi
            <4> DEFINE k == client.tick - 1
            <4>1. k \in Int /\ hi <= k /\ hi \in Int /\ lo \in Int /\ lo >= -1 /\ lo <= hi
                BY <1>2, <2>1, <3>3
            <4>2. pressed = Rises(f, -1, k)
                BY <1>8
            <4>3. lo < hi
                <5>1. lo = hi => R = {}
                    BY <4>1, RisesSplit
                <5> QED
                    BY <4>1, <5>1
            <4>4. lo = Upto(inner) /\ hi = Upto(inner')
                BY DEF lo, hi
            <4> HIDE DEF k
            <4>5. Behind = IF inner.owed_press # None THEN R ELSE R \ {Min(R)}
                BY <1>3, <4>1, <4>2, <4>3, <4>4, BehindForm
            <4> HIDE DEF R
            <4> QED
                BY <1>5, <4>5
        <3>7. /\ w => fired \subseteq Rises(f, -1, lo) /\ inner.owed_press \notin fired
              /\ Rises(f, -1, lo) \subseteq fired \cup behind \cup {inner.owed_press}
            BY <1>8
        <3>8. None \notin Ticks
            BY NoneIsNothing
        <3>9. fired' = IF shot # None THEN fired \cup {shot} ELSE fired
            BY <1>5, <3>2
        <3>10. R # {} => Min(R) \in R
            <4> HIDE DEF R
            <4> QED
                BY <3>5, FirstTick
        <3> DEFINE A == Rises(f, -1, lo)
        <3>11. /\ A \cup R = B /\ B \subseteq Ticks /\ B \subseteq pressed
               /\ w => fired \subseteq A
              /\ A \subseteq fired \cup behind \cup {inner.owed_press}
            BY <3>5, <3>7
        <3> SUFFICES /\ Traced(inner', f) /\ Owing(inner', f)
                     /\ B \subseteq fired' \cup behind' \cup {inner'.owed_press}
                     /\ round'.held => inner'.delivered
                     /\ w => /\ inner'.delivered => round'.held
                             /\ fired' \subseteq B /\ inner'.owed_press \notin fired'
                             /\ round'.fired # None => round'.fired \in pressed \ fired
            OBVIOUS
        <3>12. Traced(inner', f)
            BY <2>1
        <3> HIDE DEF A, B, R, shot
        <3>13. w => fired' \subseteq B
            BY <3>4, <3>9, <3>11
        <3>14. w => inner'.owed_press \notin fired'
            BY <3>4, <3>8, <3>9, <3>11, <3>13
        <3>15. B \subseteq fired' \cup behind' \cup {inner'.owed_press}
            <4>1. A \subseteq fired' \cup behind' \cup {inner'.owed_press}
                <5>1. ASSUME NEW p \in A, p = inner.owed_press PROVE p \in fired'
                    <6>1. p # None
                        BY <3>8, <3>11
                    <6> QED
                        BY <3>4, <3>9, <5>1, <6>1
                <5>2. fired \subseteq fired' /\ behind \subseteq behind'
                    BY <1>5, <3>9
                <5> QED
                    BY <3>11, <5>1, <5>2
            <4>2. R \subseteq fired' \cup behind' \cup {inner'.owed_press}
                <5>1. CASE inner.owed_press # None
                    BY <3>6, <5>1
                <5>2. CASE inner.owed_press = None /\ R # {}
                    <6>1. Min(R) \in {shot, inner'.owed_press} /\ Min(R) # None
                        BY <3>4, <3>8, <3>10, <3>11, <5>2
                    <6>2. Min(R) \in fired' \cup {inner'.owed_press}
                        BY <3>9, <6>1
                    <6> QED
                        BY <3>6, <5>2, <6>2
                <5> QED
                    BY <5>1, <5>2
            <4> QED
                BY <3>11, <4>1, <4>2
        <3>16. w /\ round'.fired # None => round'.fired \in pressed \ fired
            BY <3>2, <3>4, <3>11 DEF shot
        <3> QED
            BY <3>2, <3>4, <3>12, <3>13, <3>14, <3>15, <3>16
    <2> QED
        BY <2>3, <2>4
<1> QED
    BY <1>2, <1>12, <1>13, <1>14

LEMMA TriggerKeeps ==
    ASSUME NEW w \in BOOLEAN
    PROVE  InputInv /\ OrderedInv /\ TriggerInv(w) /\ (w => ~CoastedOut(inner)) /\ [MCNext]_<<inputVars, history>> =>
             /\ TriggerInv(w)'
             /\ w /\ RoomTick /\ drives /\ ordered /\ MCNext /\ round'.fired # None =>
                  round'.fired \in pressed \ fired
<1> SUFFICES ASSUME InputInv, OrderedInv, TriggerInv(w), w => ~CoastedOut(inner),
                    [MCNext]_<<inputVars, history>>
             PROVE  /\ TriggerInv(w)'
                    /\ w /\ RoomTick /\ drives /\ ordered /\ MCNext /\ round'.fired # None =>
                          round'.fired \in pressed \ fired
    OBVIOUS
<1>1. kind' = kind
    BY DEF MCNext, inputVars, mailboxVars, envVars, history
<1>2. CASE ~(drives /\ ordered)
    BY <1>1, <1>2 DEF TriggerInv, drives, ordered
<1>3. CASE drives /\ ordered
    <2>1. PICK f \in Triggering : TraceLine(f, w)
        BY <1>3 DEF TriggerInv
    <2>2. CASE MCNext
        <3>1. (\E g \in Triggering : TraceLine(g, w)') => TriggerInv(w)'
            BY DEF TriggerInv
        <3>2. CASE Period
            <4>1. TraceLine(f, w)'
                BY <2>1, <2>2, <3>2, PeriodTrigger
            <4>2. ~RoomTick
                BY <3>2, StepsApart
            <4> QED
                BY <3>1, <4>1, <4>2
        <3>3. CASE Drive
            <4>1. \E g \in Triggering : TraceLine(g, w)'
                BY <1>3, <2>1, <2>2, <3>3, DriveTrigger
            <4>2. ~RoomTick
                BY <3>3, StepsApart
            <4> QED
                BY <3>1, <4>1, <4>2
        <3>4. CASE Arrive
            <4>1. TraceLine(f, w)'
                BY <1>3, <2>1, <2>2, <3>4, ArriveTrigger
            <4>2. ~RoomTick
                BY <1>3, <2>2, <3>4, ArriveFirst DEF OrderedInv, drives
            <4> QED
                BY <3>1, <4>1, <4>2
        <3>5. CASE RoomTick
            <4>1. TraceLine(f, w)' /\ (w /\ round'.fired # None => round'.fired \in pressed \ fired)
                BY <1>3, <2>1, <2>2, <3>5, RoomTickTrigger
            <4> QED
                BY <3>1, <4>1
        <3>6. ~StrayArrives
            BY <1>3 DEF StrayArrives, OrderedInv, LinkLine
        <3>7. ~Reclaim
            BY <1>3, <2>2 DEF Reclaim, MCNext, InOrder, InputInv, EnvType
        <3> QED
            BY <2>2, <3>2, <3>3, <3>4, <3>5, <3>6, <3>7 DEF MCNext, InputNext
    <2>3. CASE UNCHANGED <<inputVars, history>> /\ ~MCNext
        <3>1. /\ link' = link /\ client' = client /\ pressed' = pressed /\ inner' = inner
              /\ round' = round /\ fired' = fired /\ behind' = behind
            BY <2>3 DEF inputVars, mailboxVars, envVars, history
        <3>2. TraceLine(f, w)'
            BY <2>1, <3>1 DEF TraceLine
        <3> QED
            BY <2>1, <2>3, <3>2 DEF TriggerInv
    <2> QED
        BY <2>2, <2>3
<1> QED
    BY <1>2, <1>3

\* What is applied is applied along the line, so a press is fired on, owed,
\* or was merged into another.
LEMMA TracedPresses == InputInv /\ OrderedInv /\ TriggerInv(FALSE) => PressKept
<1> SUFFICES ASSUME InputInv, OrderedInv, TriggerInv(FALSE) PROVE PressKept
    OBVIOUS
<1>1. InputTypeOK
    BY InvTypes
<1>2. ASSUME drives, ordered, NEW p \in pressed, inner.applied # None, p <= inner.applied
      PROVE  p \in fired \cup behind \cup {inner.owed_press}
    <2>1. PICK f \in Triggering : TraceLine(f, FALSE)
        BY <1>2 DEF TriggerInv
    <2>2. inner.applied \in Int
        BY <1>2, BoxForm DEF InputInv, BoxType
    <2>3. Upto(inner) = inner.applied
        BY <1>2, <2>2 DEF Upto, Next
    <2>4. pressed = Rises(f, -1, client.tick - 1)
          /\ Rises(f, -1, Upto(inner)) \subseteq fired \cup behind \cup {inner.owed_press}
        BY <2>1 DEF TraceLine
    <2>5. p \in Rises(f, -1, inner.applied)
        BY <1>2, <2>4 DEF Rises
    <2> QED
        BY <2>3, <2>4, <2>5
<1> QED
    BY <1>1, <1>2 DEF PressKept

\* No press of a client that drives its own hull over one link is lost on the
\* way to the round, a silence that ends in a coast-out included: it is fired
\* on, owed to the next read, or was merged into one that is
\* (src/net/mailbox.rs, deliver).
THEOREM PressesKept == MCSpec => []PressKept
<1>1. MCInit => TriggerInv(FALSE)
    BY InitTrigger
<1>2. InputInv /\ OrderedInv /\ TriggerInv(FALSE) /\ [MCNext]_<<inputVars, history>> => TriggerInv(FALSE)'
    BY TriggerKeeps
<1>3. InputInv /\ OrderedInv /\ TriggerInv(FALSE) => PressKept
    BY TracedPresses
<1> QED
    BY <1>1, <1>2, <1>3, RowOfTicks, PTL DEF MCSpec

\* The round's shots are stamped with ticks the client pressed on, and no
\* press is fired on twice - as long as the seat does not coast out, after
\* which the round takes the trigger for up and the mailbox for down
\* (src/net/mailbox.rs, deliver and press_tick).
THEOREM ShotsOfPresses == MCSpec /\ []~CoastedOut(inner) => ShotsArePresses
<1> DEFINE Own == RoomTick /\ drives /\ ordered /\ round'.fired # None => round'.fired \in pressed \ fired
<1>1. MCInit => TriggerInv(TRUE)
    BY InitTrigger
<1>2. InputInv /\ OrderedInv /\ TriggerInv(TRUE) /\ ~CoastedOut(inner) /\ [MCNext]_<<inputVars, history>> =>
        TriggerInv(TRUE)' /\ [Own]_<<inputVars, history>>
    BY TriggerKeeps
<1> HIDE DEF Own
<1>3. MCSpec /\ []~CoastedOut(inner) => [][Own]_<<inputVars, history>>
    BY <1>1, <1>2, RowOfTicks, PTL DEF MCSpec
<1> QED
    BY <1>3 DEF ShotsArePresses, Own

----------------------------------------------------------------------------
(***************************************************************************)
(* The play point keeps the pace of the client's clock.                    *)
(***************************************************************************)

\* What the trigger's side of a read leaves alone of the pace's.
LEMMA DeliverPace ==
    ASSUME NEW b \in Box, NEW press, NEW own
    PROVE  LET c == Deliver(b, press, own)
           IN  /\ c.next_step = b.next_step /\ c.reads_since_apply = b.reads_since_apply
               /\ c.reach = b.reach
<1> DEFINE c == Deliver(b, press, own)
<1>1. \/ c = [b EXCEPT !.delivered = TRUE, !.press = b.owed_press, !.owed_press = None]
      \/ c = [b EXCEPT !.delivered = TRUE, !.press = press]
      \/ c = [b EXCEPT !.delivered = FALSE, !.press = None, !.owed_press = press]
      \/ c = [b EXCEPT !.delivered = own, !.press = None]
    BY DEF Deliver, Box
<1> HIDE DEF c
<1>2. c.next_step = b.next_step /\ c.reads_since_apply = b.reads_since_apply /\ c.reach = b.reach
    BY <1>1 DEF Box
<1> QED
    BY <1>2 DEF c

LEMMA StarvePace ==
    ASSUME NEW b \in Box
    PROVE  LET c == Starve(b)
           IN  c.next_step = b.next_step /\ c.reads_since_apply = b.reads_since_apply
<1> DEFINE starved == [b EXCEPT !.last_starved = TRUE, !.starved_run = @ + 1]
           heard == [starved EXCEPT !.reach = 1]
<1>1. 1 \in 0..Larger(1, ReachTicksMax) /\ b.starved_run + 1 \in Nat
    BY Limits DEF Larger, Box
<1>2. /\ starved.next_step = b.next_step /\ starved.reads_since_apply = b.reads_since_apply
      /\ heard \in Box /\ heard.next_step = b.next_step /\ heard.reads_since_apply = b.reads_since_apply
    BY <1>1 DEF Box
<1>3. Starve(b) = starved \/ Starve(b) = Deliver(heard, None, b.last.fire)
    BY DEF Starve
<1> HIDE DEF starved, heard
<1> QED
    BY <1>2, <1>3, DeliverPace

\* The controller moves the point on two where there was slack to, and
\* otherwise by one at most.
LEMMA WatchPace ==
    ASSUME NEW b \in Box, NEW ahead \in Int, NEW missed \in BOOLEAN, b.next_step = 1
    PROVE  LET c == Watch(b, ahead, missed)
           IN  /\ c.reads_since_apply = b.reads_since_apply /\ c.starved_run = b.starved_run
               /\ c.next_step \in 0..2 /\ (c.next_step = 2 => ahead >= NarrowAhead)
<1> DEFINE w == b.window
           first == w.reads = 0
           least == IF first THEN ahead ELSE Smaller(w.ahead, ahead)
           seen == [reads |-> w.reads + 1,
                    misses |-> w.misses + (IF missed THEN 1 ELSE 0),
                    ahead |-> least,
                    ahead_max |-> IF first THEN ahead ELSE Larger(w.ahead_max, ahead)]
           step == CASE seen.misses >= WidenMisses /\ seen.ahead_max < BufferMax - 1 -> 0
                     [] seen.misses < WidenMisses /\ seen.ahead >= NarrowAhead -> 2
                     [] OTHER -> b.next_step
           again == [seen EXCEPT !.reads = 0, !.misses = 0]
<1>1. w.ahead \in Int /\ w.misses \in Nat
    BY DEF Box, Windows
<1>2. least \in Int /\ least <= ahead
    BY <1>1 DEF Smaller
<1>3. seen.ahead = least /\ seen.misses \in Nat
    BY <1>1
<1>4. step \in 0..2 /\ (step = 2 => ahead >= NarrowAhead)
    <2> HIDE DEF seen, least
    <2> QED
        BY <1>2, <1>3, Limits
<1>5. \/ Watch(b, ahead, missed) = [b EXCEPT !.window = seen]
      \/ Watch(b, ahead, missed) = [b EXCEPT !.window = again, !.next_step = step]
    BY DEF Watch
<1> HIDE DEF w, first, least, seen, step, again
<1> DEFINE c == Watch(b, ahead, missed)
<1>6. CASE c = [b EXCEPT !.window = seen]
    <2>1. /\ c.reads_since_apply = b.reads_since_apply /\ c.starved_run = b.starved_run
          /\ c.next_step = b.next_step
        BY <1>6 DEF Box
    <2> HIDE DEF c
    <2> QED
        BY <2>1 DEF c
<1>7. CASE c = [b EXCEPT !.window = again, !.next_step = step]
    <2>1. /\ c.reads_since_apply = b.reads_since_apply /\ c.starved_run = b.starved_run
          /\ c.next_step = step
        BY <1>7 DEF Box
    <2> HIDE DEF c
    <2> QED
        BY <1>4, <2>1 DEF c
<1> QED
    BY <1>5, <1>6, <1>7

LEMMA MergePace ==
    ASSUME NEW b \in Box, NEW taken, taken \subseteq Intents, taken # {}, b.play \in Nat
    PROVE  LET c == Merge(b, taken)
           IN  /\ c.next_step = b.next_step /\ c.reads_since_apply = 0
               /\ c.reach = Reach(b, Driven(b, taken))
<1> DEFINE newest == Newest(taken)
           scan == Scan(Begun(b), taken)
           play == IF newest.tick + NarrowAhead < b.play THEN newest.tick ELSE b.play
           reach == Reach(b, Driven(b, taken))
           applied == [b EXCEPT
                !.folded = None, !.play = play, !.reach = reach,
                !.applied = newest.tick, !.wall = 0, !.reads_since_apply = 0,
                !.last = newest, !.last_starved = FALSE, !.starved_run = 0]
<1>1. newest \in Intents /\ newest.tick \in Ticks /\ newest.tick \in Nat
    <2>1. newest \in Intents
        BY NewestOf
    <2> QED
        BY <2>1, NoneIsNothing DEF Intents
<1>2. play \in Nat /\ 0 \in Nat
    <2> HIDE DEF newest
    <2> QED
        BY <1>1
<1>3. reach \in 0..Larger(1, ReachTicksMax)
    <2>1. Oldest(taken).tick \in Int
        <3>1. Oldest(taken) \in Intents
            BY OldestOf
        <3> QED
            BY <3>1, IntentForm
    <2>2. b.applied # None => b.applied \in Int
        BY BoxForm
    <2>3. Driven(b, taken) \in Int
        <3> HIDE DEF newest
        <3>1. Driven(b, taken) = IF b.applied = None THEN newest.tick - Oldest(taken).tick + 1
                                                     ELSE newest.tick - b.applied
            BY DEF Driven, newest
        <3> QED
            BY <1>1, <2>1, <2>2, <3>1
    <2> QED
        BY <2>3, ReachType
<1>4. Merge(b, taken) = Deliver(applied, scan.press, newest.fire)
    BY DEF Merge, Begun
<1> HIDE DEF newest, scan, play, reach
<1>5. applied \in Box
    BY <1>1, <1>2, <1>3 DEF Box, Maybe
<1>6. applied.next_step = b.next_step /\ applied.reads_since_apply = 0 /\ applied.reach = reach
    BY DEF Box
<1> HIDE DEF applied
<1> QED
    BY <1>4, <1>5, <1>6, DeliverPace DEF reach

\* How far the point was let come past the intent applied: by its own steps,
\* by what the room's own time covers, or no further than what is waiting.
Paced(b, play) ==
    \/ play = b.play + b.next_step
    \/ /\ b.newest_posted >= b.play + b.next_step + BufferMax
       /\ play = b.newest_posted - 1
       /\ b.queue = {} \/ RoomTime(b) + 1 + ReachSpareTicks >= play - b.applied
    \/ /\ b.newest_posted >= b.play + b.next_step + BufferMax
       /\ b.queue # {} /\ play <= Oldest(b.queue).tick
       /\ play = b.newest_posted - 1 \/ play = Oldest(b.queue).tick

LEMMA PointPaced ==
    ASSUME NEW b \in Box, b.applied # None, b.wall # None, b.play # None, b.newest_posted # None
    PROVE  Paced(b, Point(b))
<1> DEFINE play == b.play + b.next_step
           restart == b.newest_posted - 1
           covered == RoomTime(b) + 1 + ReachSpareTicks >= restart - b.applied
<1>1. b.play \in Nat /\ b.next_step \in Nat /\ b.newest_posted \in Nat
    BY BoxForm
<1>2. Point(b) = CaughtUp(b, play)
    BY DEF Point, NextPlay
<1>3. CaughtUp(b, play) =
        IF b.newest_posted < play + BufferMax THEN play
        ELSE IF covered \/ b.queue = {} THEN restart
        ELSE Smaller(Oldest(b.queue).tick, restart)
    BY DEF CaughtUp
<1>4. b.queue # {} => Oldest(b.queue).tick \in Int
    BY BoxForm, OldestOf, IntentForm
<1>5. CASE b.newest_posted < play + BufferMax
    BY <1>2, <1>3, <1>5 DEF Paced
<1>6. CASE ~(b.newest_posted < play + BufferMax) /\ (covered \/ b.queue = {})
    <2>1. Point(b) = restart
        BY <1>2, <1>3, <1>6
    <2>2. b.newest_posted >= play + BufferMax
        BY <1>1, <1>6, Limits
    <2> QED
        BY <1>6, <2>1, <2>2 DEF Paced
<1>7. CASE ~(b.newest_posted < play + BufferMax) /\ ~covered /\ b.queue # {}
    <2>1. Point(b) = Smaller(Oldest(b.queue).tick, restart)
        BY <1>2, <1>3, <1>7
    <2>2. b.newest_posted >= play + BufferMax
        BY <1>1, <1>7, Limits
    <2>3. restart \in Int
        BY <1>1
    <2>4. /\ Point(b) <= Oldest(b.queue).tick
          /\ Point(b) = restart \/ Point(b) = Oldest(b.queue).tick
        BY <1>4, <1>7, <2>1, <2>3 DEF Smaller
    <2> QED
        BY <1>7, <2>2, <2>4 DEF Paced
<1> QED
    BY <1>5, <1>6, <1>7

\* How much driving a read takes a pose for, the read itself counted.
Believed(b, driven) ==
    Larger(1, Smaller(ReachTicksMax,
        Smaller(driven + Smaller(b.starved_run, DeadReckonTicks),
                Larger(b.reads_since_apply + 1, b.wall) + ReachSpareTicks)))

\* What a read of the client's own driving makes of the pace.
LEMMA ReadPace ==
    ASSUME NEW b \in Box, ~Idle(b), b.newest_posted # None
    PROVE  LET c == ReadOwned(b)
           IN  /\ c.next_step \in 0..2
               /\ c.next_step = 2 => b.newest_posted - Point(b) >= NarrowAhead
               /\ Reached(b) = {} => c.reads_since_apply = b.reads_since_apply + 1
               /\ Reached(b) # {} => c.reads_since_apply = 0
               /\ Reached(b) # {} /\ b.applied # None /\ b.wall # None =>
                    c.reach = Believed(b, Newest(Reached(b)).tick - b.applied)
<1> DEFINE play == Point(b)
           taken == Reached(b)
           newest == b.newest_posted
           missed == taken = {} /\ b.next_step > 0 /\ newest < play
           left == [b EXCEPT !.next_step = 1, !.play = play, !.queue = @ \ taken,
                             !.reads_since_apply = @ + 1]
           moved == Watch(left, newest - play, missed)
<1>1. IF taken = {} THEN ReadOwned(b) = Starve(moved) ELSE ReadOwned(b) = Merge(moved, taken)
    BY DEF ReadOwned, Idle, Reached, Point
<1>2. play \in Nat /\ newest \in Nat
    BY PointForm, BoxForm
<1>3. taken \subseteq b.queue /\ taken \subseteq Intents
    BY BoxForm DEF Reached
<1>4. b.reads_since_apply + 1 \in Nat /\ b.queue \ taken \in SUBSET Intents
    BY <1>3, BoxForm
<1> HIDE DEF play, taken, newest
<1>5. left \in Box
    <2>1. play \in Maybe(Nat) /\ 1 \in 0..2
        BY <1>2 DEF Maybe
    <2> QED
        BY <1>4, <2>1 DEF Box
<1>6. /\ left.play = play /\ left.applied = b.applied /\ left.wall = b.wall
      /\ left.next_step = 1 /\ left.reads_since_apply = b.reads_since_apply + 1
      /\ left.starved_run = b.starved_run
    BY DEF Box
<1>7. newest - play \in Int /\ missed \in BOOLEAN
    BY <1>2
<1> HIDE DEF left, missed
<1>8. moved \in Box /\ Kept(left, moved)
    BY <1>5, <1>7, WatchForm
<1>9. /\ moved.reads_since_apply = left.reads_since_apply /\ moved.starved_run = left.starved_run
      /\ moved.next_step \in 0..2 /\ (moved.next_step = 2 => newest - play >= NarrowAhead)
    BY <1>5, <1>6, <1>7, WatchPace
<1> HIDE DEF moved
<1>10. moved.applied = b.applied /\ moved.wall = b.wall /\ moved.play = play
    BY <1>6, <1>8 DEF Kept, Same
<1>11. CASE taken = {}
    <2> DEFINE c == Starve(moved)
    <2>1. c.next_step = moved.next_step /\ c.reads_since_apply = moved.reads_since_apply
        BY <1>8, StarvePace
    <2>2. ReadOwned(b) = c
        BY <1>1, <1>11
    <2> HIDE DEF c
    <2> QED
        BY <1>6, <1>9, <1>11, <2>1, <2>2 DEF play, newest, taken
<1>12. CASE taken # {}
    <2> DEFINE c == Merge(moved, taken)
               driven == Newest(taken).tick - b.applied
    <2>1. /\ c.next_step = moved.next_step /\ c.reads_since_apply = 0
          /\ c.reach = Reach(moved, Driven(moved, taken))
        BY <1>2, <1>3, <1>8, <1>10, <1>12, MergePace
    <2>2. ReadOwned(b) = c
        BY <1>1, <1>12
    <2> HIDE DEF c
    <2>3. b.applied # None /\ b.wall # None => Reach(moved, Driven(moved, taken)) = Believed(b, driven)
        <3> SUFFICES ASSUME b.applied # None, b.wall # None
                     PROVE  Reach(moved, Driven(moved, taken)) = Believed(b, driven)
            OBVIOUS
        <3>1. Driven(moved, taken) = driven
            BY <1>10 DEF Driven
        <3>2. RoomTime(moved) = Larger(b.reads_since_apply + 1, b.wall)
            BY <1>6, <1>9, <1>10 DEF RoomTime
        <3> HIDE DEF driven
        <3> QED
            BY <1>6, <1>9, <1>10, <3>1, <3>2 DEF Reach, Believed
    <2> QED
        BY <1>9, <1>12, <2>1, <2>2, <2>3 DEF play, newest, taken
<1> QED
    BY <1>11, <1>12

\* What a read believes a pose for, against how late the link and the room's
\* own clock may be.  The first two lines are the code's constants.
Tolerant ==
    /\ 1 < BufferMax /\ 0 < NarrowAhead /\ NarrowAhead <= ReachSpareTicks
    /\ DeadReckonTicks <= PoseReachTicks /\ ReachSlackTicks \in Nat /\ 1 <= ReachSlackTicks
    /\ Latency + 1 <= ReachSpareTicks + ReachSlackTicks
    /\ BufferMax + Latency + RoomStall <= ReachTicksMax + ReachSlackTicks

\* Of a client whose clock says `now` and whose room owes `due` ticks: what is
\* on its way is no older than the link's latency, a queue that folds is full,
\* and the hull is no further behind the client than the queue, the link and
\* the room's own time account for, nor behind the point than its steps do.
Pace(b, come, now, due) ==
    /\ now - come <= Latency + 1
    /\ b.folded # None => come - b.folded.through > BufferMax
    /\ b.applied # None =>
         /\ b.play # None /\ b.wall # None /\ b.play >= b.applied
         /\ now - b.applied <= BufferMax + Latency + 1 + due
         /\ now - b.applied <= BufferMax + Latency + 1 + b.wall
         /\ b.play <= b.applied + NarrowAhead + b.reads_since_apply
         /\ b.play + b.next_step <= b.applied + NarrowAhead + b.reads_since_apply + 1

LEMMA RowEnds ==
    ASSUME NEW b \in Box, NEW come \in Nat, NEW gone, NEW lo \in Nat, Row(b, come, gone, TRUE, lo)
    PROVE  /\ b.queue = {} => lo = come
           /\ b.queue # {} => lo < come /\ Oldest(b.queue).tick = lo
           /\ b.queue # {} /\ Reached(b) = {} => Point(b) < lo
<1>1. \A m \in b.queue : m.tick \in Nat
    BY BoxForm, IntentForm
<1>2. lo < come => \E m \in b.queue : m.tick = lo
    BY DEF Row
<1>3. b.queue = {} => lo = come
    BY <1>2 DEF Row
<1>4. ASSUME b.queue # {} PROVE lo < come /\ Oldest(b.queue).tick = lo
    <2>1. lo < come
        BY <1>1, <1>4 DEF Row
    <2>2. Oldest(b.queue) \in b.queue /\ \A m \in b.queue : Oldest(b.queue).tick <= m.tick
        BY <1>4, BoxForm, OldestOf
    <2>3. Oldest(b.queue).tick <= lo /\ lo <= Oldest(b.queue).tick /\ Oldest(b.queue).tick \in Nat
        BY <1>1, <1>2, <2>1, <2>2 DEF Row
    <2> QED
        BY <2>1, <2>3
<1>5. ASSUME b.queue # {}, Reached(b) = {} PROVE Point(b) < lo
    <2>1. PICK m \in b.queue : m.tick = lo
        BY <1>2, <1>4, <1>5
    <2>2. ~(lo <= Point(b))
        BY <1>5, <2>1 DEF Reached
    <2>3. Point(b) \in Nat
        BY <1>5, PointForm DEF Idle
    <2> QED
        BY <2>2, <2>3
<1> QED
    BY <1>3, <1>4, <1>5

\* A tick that starves has come level with the hull, or no further than the
\* point's own steps: nothing waits behind it.
LEMMA StarvedPace ==
    ASSUME Tolerant, NEW b \in Box, NEW come \in Nat, NEW gone, NEW lo \in Nat,
           Row(b, come, gone, TRUE, lo), NEW now \in Nat, NEW due \in Nat, Pace(b, come, now, due),
           b.applied # None, b.newest_posted = come - 1, Reached(b) = {},
           come - 1 - Point(b) < BufferMax
    PROVE  /\ Point(b) \in Nat /\ Point(b) >= b.applied
           /\ Point(b) <= b.applied + NarrowAhead + b.reads_since_apply + 1
           /\ come - b.applied <= BufferMax
           /\ come - 1 - Point(b) > 0 => Point(b) <= b.applied
<1> DEFINE p == Point(b)
           through == b.folded.through
<1>1. /\ b.applied \in Nat /\ b.play \in Nat /\ b.next_step \in Nat /\ b.reads_since_apply \in Nat
      /\ b.play >= b.applied
      /\ b.play + b.next_step <= b.applied + NarrowAhead + b.reads_since_apply + 1
    BY BoxForm DEF Pace
<1>2. p \in Nat
    BY PointForm DEF Idle, Pace
<1>3. Paced(b, p)
    BY <1>1, PointPaced, Limits DEF Pace
<1>4. BufferMax \in Nat /\ NarrowAhead \in Nat /\ 1 < BufferMax
    BY Limits DEF Tolerant
<1>5. /\ b.folded = None => lo = b.applied + 1
      /\ b.folded # None => through = lo - 1 /\ come - through > BufferMax
    BY DEF Row, Next, Pace
<1> HIDE DEF p, through
<1>6. CASE b.queue = {}
    <2>1. lo = come
        BY <1>6, RowEnds
    <2>2. b.folded = None
        BY <1>4, <1>5, <2>1
    <2>3. come = b.applied + 1
        BY <1>5, <2>1, <2>2
    <2>4. p = b.play + b.next_step
        BY <1>1, <1>3, <1>4, <1>6, <2>3 DEF Paced
    <2> QED
        BY <1>1, <1>2, <1>4, <2>3, <2>4 DEF p
<1>7. CASE b.queue # {}
    <2>1. lo < come /\ Oldest(b.queue).tick = lo /\ p < lo
        BY <1>7, RowEnds DEF p
    <2>2. come - 1 - p < BufferMax
        BY DEF p
    <2>3. b.folded = None
        BY <1>2, <1>4, <1>5, <2>1, <2>2
    <2>4. lo = b.applied + 1
        BY <1>5, <2>3
    <2>5. \/ p = b.play + b.next_step
          \/ /\ come - 1 >= b.play + b.next_step + BufferMax
             /\ p = come - 1 - 1 \/ p = lo
        BY <1>3, <2>1 DEF Paced
    <2>6. p <= b.applied
        BY <1>1, <1>2, <2>1, <2>4
    <2>7. p >= b.applied
        BY <1>1, <1>2, <1>4, <2>1, <2>5
    <2> QED
        BY <1>1, <1>2, <1>4, <2>2, <2>6, <2>7 DEF p
<1> QED
    BY <1>6, <1>7

\* A tick that takes what has come leaves no more than a queue's worth, and
\* its point where the hull is or, the queue empty, what the point may be
\* ahead by.
LEMMA MergedPace ==
    ASSUME Tolerant, NEW b \in Box, Held(b.queue), NEW come \in Nat, NEW gone, NEW lo \in Nat,
           Row(b, come, gone, TRUE, lo), ~Idle(b), Reached(b) # {},
           NEW play, play = (IF Newest(Reached(b)).tick + NarrowAhead < Point(b)
                             THEN Newest(Reached(b)).tick ELSE Point(b)),
           come - 1 - play < BufferMax
    PROVE  LET t == Newest(Reached(b)).tick
           IN  /\ t \in Nat /\ play \in Nat /\ lo <= t /\ t < come /\ t <= Point(b)
               /\ t <= play /\ play <= t + NarrowAhead /\ come - t <= BufferMax
               /\ come - 1 - Point(b) > 0 => play = t
<1> DEFINE t == Newest(Reached(b)).tick
           p == Point(b)
<1>1. /\ Newest(Reached(b)) \in b.queue /\ t \in lo..(come - 1)
      /\ \A m \in b.queue \ Reached(b) : t < m.tick
      /\ t < p => t = come - 1
    BY ReachedRow
<1>2. t \in Nat /\ p \in Nat
    BY <1>1, PointForm
<1>3. t <= p
    <2>1. ~(t < t)
        BY <1>2
    <2>2. Newest(Reached(b)) \in Reached(b)
        BY <1>1, <2>1
    <2> QED
        BY <2>2 DEF Reached
<1>4. play = IF t + NarrowAhead < p THEN t ELSE p
    OBVIOUS
<1>5. NarrowAhead \in Nat /\ BufferMax \in Nat /\ BufferMax > 1
    BY Limits DEF Tolerant
<1> HIDE DEF t, p
<1>6. /\ play \in Nat /\ lo <= t /\ t < come /\ t <= play /\ play <= t + NarrowAhead
      /\ come - t <= BufferMax
    BY <1>1, <1>2, <1>3, <1>4, <1>5
<1>7. come - 1 - p > 0 => play = t
    BY <1>1, <1>2, <1>3, <1>4, <1>5
<1> QED
    BY <1>2, <1>3, <1>6, <1>7 DEF t, p

\* What a read believes a pose for covers what the client drove since the last
\* one applied: its own time what the point moved, and what the room's clock
\* says went by what a jump of the point skipped.
LEMMA ReachCovers ==
    ASSUME Tolerant, NEW b \in Box, NEW come \in Nat, NEW gone, NEW lo \in Nat,
           Row(b, come, gone, TRUE, lo), NEW now \in Nat, come <= now, NEW due \in 0..RoomStall,
           Pace(b, come, now, due), b.applied # None, b.newest_posted = come - 1,
           NEW t \in Nat, lo <= t, t < come, t <= Point(b)
    PROVE  LET hull == b.applied + Smaller(b.starved_run, DeadReckonTicks)
           IN  Larger(t - hull, hull - t)
                  <= Larger(Believed(b, t - b.applied), PoseReachTicks) + ReachSlackTicks
<1> DEFINE p == Point(b)
           through == b.folded.through
           guess == Smaller(b.starved_run, DeadReckonTicks)
           d == t - b.applied
           clock == Larger(b.reads_since_apply + 1, b.wall)
           believed == Believed(b, d)
<1>1. /\ b.applied \in Nat /\ b.play \in Nat /\ b.next_step \in Nat /\ b.reads_since_apply \in Nat
      /\ b.wall \in Nat /\ b.wall # None /\ b.play # None /\ b.play >= b.applied
      /\ now - b.applied <= BufferMax + Latency + 1 + due
      /\ now - b.applied <= BufferMax + Latency + 1 + b.wall
      /\ b.play + b.next_step <= b.applied + NarrowAhead + b.reads_since_apply + 1
    BY BoxForm DEF Pace
<1>2. p \in Nat
    BY <1>1, PointForm DEF Idle
<1>3. Paced(b, p)
    BY <1>1, PointPaced, Limits
<1>4. /\ BufferMax \in Nat /\ 1 < BufferMax /\ NarrowAhead \in Nat /\ ReachSpareTicks \in Nat
      /\ ReachTicksMax \in Nat /\ DeadReckonTicks \in Nat /\ PoseReachTicks \in Nat
      /\ Latency \in Nat /\ RoomStall \in Nat /\ ReachSlackTicks \in Nat /\ 1 <= ReachSlackTicks
      /\ NarrowAhead <= ReachSpareTicks /\ DeadReckonTicks <= PoseReachTicks
      /\ Latency + 1 <= ReachSpareTicks + ReachSlackTicks
      /\ BufferMax + Latency + RoomStall <= ReachTicksMax + ReachSlackTicks
    BY Limits DEF Tolerant
<1>5. /\ b.applied + 1 <= lo
      /\ b.folded = None => lo = b.applied + 1
      /\ b.folded # None => through = lo - 1 /\ come - through > BufferMax
    BY DEF Row, Next, Pace
<1>6. guess \in Nat /\ guess <= DeadReckonTicks
    BY <1>4, BoxForm DEF Smaller
<1>7. clock \in Nat /\ clock >= b.reads_since_apply + 1 /\ clock >= b.wall
    BY <1>1 DEF Larger
<1>8. b.queue # {} /\ Oldest(b.queue).tick = lo
    <2>1. lo # come
        OBVIOUS
    <2>2. /\ b.queue = {} => lo = come
          /\ b.queue # {} => lo < come /\ Oldest(b.queue).tick = lo
        BY RowEnds
    <2> QED
        BY <2>1, <2>2
<1>9. d \in Nat /\ d >= 1 /\ t <= p
    BY <1>1, <1>5
<1>10. RoomTime(b) \in Nat /\ RoomTime(b) <= clock
    BY <1>1 DEF RoomTime, Larger
<1> HIDE DEF p, through, clock, guess
<1>11. d <= clock + ReachSpareTicks + ReachSlackTicks
    <2>1. CASE p = b.play + b.next_step
        BY <1>1, <1>2, <1>4, <1>7, <1>9, <2>1
    <2>2. CASE RoomTime(b) + 1 + ReachSpareTicks >= p - b.applied
        BY <1>1, <1>2, <1>4, <1>9, <1>10, <1>7, <2>2
    <2>3. CASE p <= lo
        <3>1. t = lo
            BY <1>2, <1>9, <2>3
        <3>2. CASE b.folded = None
            BY <1>1, <1>4, <1>5, <1>7, <3>1, <3>2
        <3>3. CASE b.folded # None
            <4>1. BufferMax < come - (lo - 1)
                BY <1>5, <3>3
            <4>2. d <= Latency + 1 + b.wall
                BY <1>1, <1>4, <3>1, <4>1
            <4> QED
                BY <1>1, <1>4, <1>7, <1>9, <4>2
        <3> QED
            BY <3>2, <3>3
    <2> QED
        BY <1>3, <1>8, <2>1, <2>2, <2>3 DEF Paced
<1>12. d <= ReachTicksMax + ReachSlackTicks
    BY <1>1, <1>4
<1>13. believed = Larger(1, Smaller(ReachTicksMax, Smaller(d + guess, clock + ReachSpareTicks)))
    BY DEF Believed, guess, clock
<1> HIDE DEF d, believed
<1>14. believed \in Int /\ d <= believed + guess + ReachSlackTicks
    <2>1. \/ believed = 1 \/ believed = ReachTicksMax \/ believed = d + guess
          \/ believed = clock + ReachSpareTicks
        BY <1>13 DEF Smaller, Larger
    <2>2. /\ believed >= 1
          /\ \/ believed >= ReachTicksMax \/ believed >= d + guess \/ believed >= clock + ReachSpareTicks
        BY <1>4, <1>6, <1>7, <1>9, <1>13 DEF Smaller, Larger
    <2>3. believed \in Int
        BY <1>4, <1>6, <1>7, <1>9, <2>1
    <2> QED
        BY <1>4, <1>6, <1>7, <1>9, <1>11, <1>12, <2>2, <2>3
<1> DEFINE hull == b.applied + guess
<1>15. t - hull = d - guess /\ hull - t = guess - d
    BY <1>1, <1>6 DEF d
<1>16. Larger(believed, PoseReachTicks) \in Int /\ Larger(believed, PoseReachTicks) >= believed
       /\ Larger(believed, PoseReachTicks) >= PoseReachTicks
    BY <1>4, <1>14, SmallerLarger
<1>17. /\ d - guess <= Larger(believed, PoseReachTicks) + ReachSlackTicks
       /\ guess - d <= Larger(believed, PoseReachTicks) + ReachSlackTicks
    BY <1>4, <1>6, <1>9, <1>14, <1>16
<1>18. Larger(t - hull, hull - t) \in {d - guess, guess - d}
    BY <1>15 DEF Larger
<1> QED
    BY <1>17, <1>18 DEF d, believed, guess

LEMMA PostReads ==
    ASSUME NEW b \in Box, NEW m \in Intents
    PROVE  Posted(b, m).reads_since_apply = b.reads_since_apply
<1> DEFINE newest == IF b.newest_posted = None THEN m.tick ELSE Larger(b.newest_posted, m.tick)
           heard == [b EXCEPT !.silent = 0, !.newest_posted = newest]
           queue == {n \in b.queue : n.tick # m.tick} \cup {m}
           over == {n \in queue : Cardinality({o \in queue : o.tick > n.tick}) >= BufferMax}
           left == [heard EXCEPT !.queue = queue \ over]
           scan == Scan(IF left.folded = None THEN ScanFrom(OwnDown(left)) ELSE left.folded,
                        {n \in over : n.owned})
<1>1. Posted(b, m) = heard \/ Posted(b, m) = Fold(left, over)
    BY DEF Posted
<1>2. Fold(left, over) = left \/ Fold(left, over) = [left EXCEPT !.folded = scan]
    BY DEF Fold
<1>3. heard.reads_since_apply = b.reads_since_apply
    BY DEF Box
<1>4. left.reads_since_apply = heard.reads_since_apply
    BY DEF Box
<1>5. [left EXCEPT !.folded = scan].reads_since_apply = left.reads_since_apply
    BY DEF Box
<1> HIDE DEF heard, left
<1> QED
    BY <1>1, <1>2, <1>3, <1>4, <1>5

\* A trigger is folded only out of a full queue.
Full(b, c, come, lo) ==
    \/ c.folded = b.folded
    \/ c.folded # None /\ c.folded.through = lo /\ come - lo >= BufferMax

LEMMA FoldFull ==
    ASSUME NEW b \in Box, Held(b.queue), NEW come \in Nat, NEW gone, OfOne(b, TRUE),
           NEW lo \in Nat, Row(b, come, gone, TRUE, lo),
           NEW m \in Intents, m.tick = come, m.owned
    PROVE  Full(b, Posted(b, m), come, lo)
<1> DEFINE c == Posted(b, m)
           q == Added(b, m)
           over == IF Cardinality(q) <= BufferMax THEN {} ELSE {Oldest(q)}
           mine == {n \in over : n.owned}
           T == lo..come
           f == [n \in q |-> n.tick]
<1>1. ~Straggler(b, m) /\ Queued(b, c, m, lo, TRUE)
    BY PostAlong
<1>2. c.folded = IF mine = {} THEN b.folded ELSE Scan(Begun(b), mine)
    BY <1>1, PostedForm
<1>3. q \subseteq Intents /\ Unique(q) /\ IsFiniteSet(q)
    BY AddedForm
<1>4. \A n \in b.queue : n.tick \in Nat /\ n \in Intents
    BY BoxForm, IntentForm
<1>5. \A n \in q : n.tick \in T
    BY <1>4 DEF Added, Row
<1>6. f \in Injection(q, T)
    <2>1. f \in [q -> T]
        BY <1>5
    <2>2. \A n, o \in q : f[n] = f[o] => n = o
        BY <1>3 DEF Unique
    <2> HIDE DEF f, q, T
    <2> QED
        BY <2>1, <2>2 DEF Injection, IsInjective
<1>7. IsFiniteSet(T) /\ Cardinality(T) = come - lo + 1
    BY FS_Interval DEF Row
<1>8. Cardinality(q) <= Cardinality(T)
    <2> HIDE DEF f, q, T
    <2> QED
        BY <1>6, <1>7, FS_Injection
<1>9. Cardinality(q) \in Nat /\ BufferMax \in Nat
    BY <1>3, FS_CardinalityType, Limits
<1>10. CASE mine = {}
    BY <1>2, <1>10 DEF Full
<1>11. CASE mine # {}
    <2>1. ~(Cardinality(q) <= BufferMax)
        BY <1>11
    <2> HIDE DEF q, T, c, mine, over
    <2>2. come - lo >= BufferMax
        BY <1>7, <1>8, <1>9, <2>1
    <2>3. CASE c.folded = b.folded
        BY <2>3 DEF c, Full
    <2>4. CASE \E old \in b.queue : old.tick = lo /\ c.folded = Scan(Begun(b), {old})
        <3>1. PICK old \in b.queue : old.tick = lo /\ c.folded = Scan(Begun(b), {old})
            BY <2>4
        <3>2. old \in Intents
            BY <1>4
        <3>3. Newest({old}) = old
            BY <3>2, NewestOf
        <3>4. /\ Scan(Begun(b), {old}) \in Scans
              /\ Scan(Begun(b), {old}).through = Newest({old}).tick
            BY <3>2, BegunType, ScanForm
        <3>5. c.folded # None /\ c.folded.through = lo
            BY <3>1, <3>3, <3>4, NoneIsNothing
        <3> QED
            BY <2>2, <3>5 DEF c, Full
    <2> QED
        BY <1>1, <2>3, <2>4 DEF Queued
<1> QED
    BY <1>10, <1>11

\* What arrives takes its place, and nothing of the pace moves.
LEMMA PostKeepsPace ==
    ASSUME NEW b \in Box, Held(b.queue), NEW come \in Nat, NEW gone, Line(b, come, gone, TRUE),
           NEW now \in Nat, NEW due \in Nat, Pace(b, come, now, due),
           NEW m \in Intents, m.tick = come, m.owned
    PROVE  Pace(Posted(b, m), come + 1, now, due)
<1> DEFINE c == Posted(b, m)
<1>1. PICK lo \in Nat : OfOne(b, TRUE) /\ Row(b, come, gone, TRUE, lo)
    BY DEF Line
<1>2. Full(b, c, come, lo)
    BY <1>1, FoldFull
<1>3. c.applied = b.applied /\ c.play = b.play /\ c.wall = b.wall /\ c.next_step = b.next_step
    BY PostedForm DEF Unread
<1>4. c.reads_since_apply = b.reads_since_apply
    BY PostReads
<1>5. b.folded # None => b.folded.through = lo - 1 /\ come - b.folded.through > BufferMax
    BY <1>1 DEF Row, Pace
<1> DEFINE next == come + 1
           through == c.folded.through
<1>6. /\ c.folded # None => through \in Int /\ next - through > BufferMax
      /\ now - next <= Latency + 1
    <2>1. c.folded # None => 
                \/ through = lo - 1 /\ come - (lo - 1) > BufferMax
                \/ through = lo /\ come - lo >= BufferMax
        BY <1>2, <1>5 DEF Full
    <2>2. now - come <= Latency + 1
        BY DEF Pace
    <2> HIDE DEF through, c
    <2> QED
        BY <2>1, <2>2, Limits
<1> HIDE DEF c, next
<1>8. b.applied # None =>
         /\ b.play # None /\ b.wall # None /\ b.play >= b.applied
         /\ now - b.applied <= BufferMax + Latency + 1 + due
         /\ now - b.applied <= BufferMax + Latency + 1 + b.wall
         /\ b.play <= b.applied + NarrowAhead + b.reads_since_apply
         /\ b.play + b.next_step <= b.applied + NarrowAhead + b.reads_since_apply + 1
    BY DEF Pace
<1>9. Pace(c, next, now, due)
    BY <1>3, <1>4, <1>6, <1>8 DEF Pace
<1> QED
    BY <1>9 DEF c, next

\* The pose read is within what it is believed for of the room's hull, carried
\* on from the pose before by its guess.
Near(b, c) ==
    LET hull == b.applied + Smaller(b.starved_run, DeadReckonTicks)
    IN  b.applied # None /\ c.applied # b.applied =>
            Larger(c.applied - hull, hull - c.applied)
                <= Larger(c.reach, PoseReachTicks) + ReachSlackTicks

LEMMA ReadKeepsPace ==
    ASSUME Tolerant, NEW b \in Box, Held(b.queue), NEW come \in Nat, NEW gone,
           Line(b, come, gone, TRUE), NEW now \in Nat, come <= now, NEW due \in 0..RoomStall,
           Pace(b, come, now, due), ~CoastedOut(b)
    PROVE  Pace(ReadBox(b), come, now, 0) /\ Near(b, ReadBox(b))
<1> DEFINE c == ReadBox(b)
<1>1. PICK lo \in Nat : OfOne(b, TRUE) /\ Row(b, come, gone, TRUE, lo)
    BY DEF Line
<1>2. /\ now - come <= Latency + 1
      /\ b.folded # None => come - b.folded.through > BufferMax
    BY DEF Pace
<1>3. c \in Box
    BY ReadForm
<1>4. due \in Nat
    BY Limits
<1>5. /\ BufferMax \in Nat /\ 1 < BufferMax /\ NarrowAhead \in Nat /\ 0 < NarrowAhead /\ Latency \in Nat
    BY Limits DEF Tolerant
<1>6. CASE come = 0
    <2>1. b.silent = None /\ b.applied = None
        BY <1>1, <1>6 DEF Line, Waiting, OfOne
    <2>2. c = b
        BY <2>1, ReadForm
    <2> HIDE DEF c
    <2>3. Pace(c, come, now, 0) /\ Near(b, c)
        BY <1>2, <2>1, <2>2 DEF Pace, Near
    <2> QED
        BY <2>3 DEF c
<1>7. CASE come > 0
    <2>1. b.silent # None /\ b.newest_posted = come - 1 /\ b.newest_posted # None
        BY <1>7, Limits DEF Line, Waiting
    <2>2. IsOwned(b) /\ ~Unheard(b)
        BY <1>7, <2>1, ReadAsOwn DEF Unheard
    <2>3. c = ReadOwned(b)
        BY <2>2, ReadForm
    <2>4. c.play # None => c.newest_posted - c.play < BufferMax
        BY <1>5, ReadKeepsLine
    <2> HIDE DEF c
    <2>5. CASE Idle(b)
        <3>1. Same(b, c)
            BY <2>3, <2>5, ReadOwnedForm
        <3>2. b.applied = None
            BY <2>5 DEF Idle, Pace
        <3>3. Pace(c, come, now, 0) /\ Near(b, c)
            BY <1>2, <3>1, <3>2 DEF Pace, Near, Same
        <3> QED
            BY <3>3 DEF c
    <2>6. CASE ~Idle(b) /\ Reached(b) = {}
        <3>1. Same(b, c) /\ c.play = Point(b)
            BY <2>3, <2>6, ReadOwnedForm
        <3>2. /\ c.next_step \in 0..2 /\ (c.next_step = 2 => b.newest_posted - Point(b) >= NarrowAhead)
              /\ c.reads_since_apply = b.reads_since_apply + 1
            BY <2>1, <2>3, <2>6, ReadPace
        <3>3. CASE b.applied = None
            <4>1. Pace(c, come, now, 0) /\ Near(b, c)
                BY <1>2, <3>1, <3>3 DEF Pace, Near, Same
            <4> QED
                BY <4>1 DEF c
        <3>4. CASE b.applied # None
            <4> DEFINE p == Point(b)
            <4>1. p \in Nat
                BY <2>6, PointForm
            <4>2. come - 1 - p < BufferMax
                BY <2>1, <2>4, <3>1, <4>1, Limits DEF Same
            <4>3. /\ p >= b.applied /\ p <= b.applied + NarrowAhead + b.reads_since_apply + 1
                  /\ come - b.applied <= BufferMax
                  /\ come - 1 - p > 0 => p <= b.applied
                BY <1>1, <1>4, <2>1, <2>6, <3>4, <4>2, StarvedPace
            <4>4. /\ b.applied \in Nat /\ b.reads_since_apply \in Nat /\ b.wall \in Nat
                  /\ b.wall # None /\ now - b.applied <= BufferMax + Latency + 1 + b.wall
                BY <3>4, BoxForm DEF Pace
            <4>5. c.next_step = 2 => p <= b.applied
                BY <1>5, <2>1, <3>2, <4>1, <4>3
            <4> HIDE DEF p
            <4>6. p + c.next_step <= b.applied + NarrowAhead + b.reads_since_apply + 2
                BY <1>5, <3>2, <4>1, <4>3, <4>4, <4>5
            <4>7. now - b.applied <= BufferMax + Latency + 1
                BY <1>2, <1>5, <4>3, <4>4
            <4>8. c.applied = b.applied /\ c.folded = b.folded /\ c.wall = b.wall /\ c.play = p
                BY <3>1 DEF Same, p
            <4>9. p # None
                BY <4>1, Limits
            <4>10. Pace(c, come, now, 0)
                BY <1>2, <1>5, <3>2, <4>1, <4>3, <4>4, <4>6, <4>7, <4>8, <4>9 DEF Pace
            <4>11. Near(b, c)
                BY <4>8 DEF Near
            <4> QED
                BY <4>10, <4>11 DEF c
        <3> QED
            BY <3>3, <3>4
    <2>7. CASE ~Idle(b) /\ Reached(b) # {}
        <3> DEFINE t == Newest(Reached(b)).tick
                   p == Point(b)
        <3>1. /\ c.applied = t /\ c.folded = None /\ c.wall = 0 /\ c.newest_posted = b.newest_posted
              /\ c.play = IF t + NarrowAhead < p THEN t ELSE p
            BY <2>3, <2>7, ReadOwnedForm DEF Merged
        <3>2. /\ c.next_step \in 0..2 /\ (c.next_step = 2 => b.newest_posted - p >= NarrowAhead)
              /\ c.reads_since_apply = 0
              /\ b.applied # None /\ b.wall # None => c.reach = Believed(b, t - b.applied)
            BY <2>1, <2>3, <2>7, ReadPace
        <3>3. c.play # None /\ p \in Nat
            <4>1. t \in Nat
                <5>1. t \in lo..(come - 1)
                    BY <1>1, <2>7, ReachedRow
                <5> HIDE DEF t
                <5> QED
                    BY <5>1
            <4>2. p \in Nat
                BY <2>7, PointForm
            <4> QED
                BY <3>1, <4>1, <4>2, Limits
        <3>4. come - 1 - c.play < BufferMax
            BY <2>1, <2>4, <3>1, <3>3
        <3>5. /\ t \in Nat /\ c.play \in Nat /\ lo <= t /\ t < come /\ t <= p
              /\ t <= c.play /\ c.play <= t + NarrowAhead /\ come - t <= BufferMax
              /\ come - 1 - p > 0 => c.play = t
            BY <1>1, <2>7, <3>1, <3>4, MergedPace
        <3>6. ASSUME b.applied # None PROVE Near(b, c)
            <4>1. b.wall # None
                BY <3>6 DEF Pace
            <4>2. c.reach = Believed(b, t - b.applied)
                BY <3>2, <3>6, <4>1
            <4> DEFINE hull == b.applied + Smaller(b.starved_run, DeadReckonTicks)
            <4>3. Larger(t - hull, hull - t)
                      <= Larger(Believed(b, t - b.applied), PoseReachTicks) + ReachSlackTicks
                BY <1>1, <2>1, <3>5, <3>6, ReachCovers
            <4> QED
                BY <3>1, <4>2, <4>3 DEF Near
        <3> HIDE DEF t, p
        <3>7. c.next_step = 2 => c.play = t
            BY <1>5, <2>1, <3>2, <3>3, <3>5
        <3>8. c.play + c.next_step <= t + NarrowAhead + 0 + 1
            BY <1>5, <3>2, <3>5, <3>7
        <3>9. now - t <= BufferMax + Latency + 1 + 0
            BY <1>2, <1>5, <3>5
        <3>10. c.wall # None
            BY <3>1, Limits
        <3>11. Pace(c, come, now, 0)
            BY <1>2, <1>5, <3>1, <3>2, <3>3, <3>5, <3>8, <3>9, <3>10 DEF Pace
        <3>12. Near(b, c)
            BY <3>6 DEF Near
        <3> QED
            BY <3>11, <3>12 DEF c
    <2> QED
        BY <2>5, <2>6, <2>7
<1> QED
    BY <1>6, <1>7

\* The inductive invariant: a client that drives its hull on one ordered link,
\* by the ticks its own clock has counted.
PaceInv == drives /\ ordered => Pace(inner, Come, client.tick + client.due, owed)

LEMMA InitPace == MCInit => PaceInv
<1> SUFFICES ASSUME MCInit PROVE Pace(inner, Come, client.tick + client.due, owed)
    BY DEF PaceInv
<1>1. link = <<>> /\ client = NewClient /\ inner = Empty
    BY DEF MCInit, InputInit, MailboxInit
<1>2. Come = 0 /\ client.tick = 0 /\ client.due = 0
    BY <1>1 DEF NewClient, Come
<1>3. inner.folded = None /\ inner.applied = None
    BY <1>1 DEF Empty
<1> QED
    BY <1>2, <1>3, Limits DEF Pace

LEMMA PeriodPace ==
    ASSUME InputInv, OrderedInv, PaceInv, ordered, drives, Period
    PROVE  Pace(inner, Come, client.tick + client.due, owed)'
<1> DEFINE now == client.tick + client.due
<1>1. /\ client \in Clients /\ client.tick \in Nat /\ client.due \in Nat /\ Come \in Nat
      /\ Len(link) \in Nat /\ Come + Len(link) = client.tick /\ owed \in Nat
    BY LinkFacts, ClientForm, Limits DEF OrderedInv, InputInv, EnvType
<1>2. /\ client'.tick = client.tick /\ client'.due = Smaller(client.due + 1, SendCatchUpTicks)
      /\ link' = link /\ owed' = owed + 1 /\ Len(link) + client.due <= Latency
    BY <1>1 DEF Period, Clients
<1>3. client'.due \in Nat /\ client'.due <= client.due + 1
    BY <1>1, <1>2, Limits DEF Smaller
<1>4. inner \in Box
    BY DEF InputInv, BoxType
<1>5. /\ inner'.applied = inner.applied /\ inner'.folded = inner.folded /\ inner'.play = inner.play
      /\ inner'.next_step = inner.next_step /\ inner'.reads_since_apply = inner.reads_since_apply
      /\ inner'.wall = IF inner.wall = None THEN None ELSE inner.wall + 1
    BY <1>4 DEF Period, Age, Box
<1>6. Pace(inner, Come, now, owed)
    BY DEF PaceInv
<1>7. Come' = Come
    BY <1>2 DEF Come
<1>8. inner.applied # None =>
         /\ inner.applied \in Nat /\ inner.wall \in Nat /\ inner.wall # None
         /\ now - inner.applied <= BufferMax + Latency + 1 + owed
         /\ now - inner.applied <= BufferMax + Latency + 1 + inner.wall
    BY <1>4, <1>6, BoxForm DEF Pace
<1>9. Latency \in Nat /\ BufferMax \in Nat
    BY Limits
<1> DEFINE then == client'.tick + client'.due
<1>10. then - Come <= Latency + 1
    BY <1>1, <1>2, <1>3, <1>9
<1>11. inner.applied # None =>
         /\ then - inner.applied <= BufferMax + Latency + 1 + owed'
         /\ then - inner.applied <= BufferMax + Latency + 1 + inner'.wall
         /\ inner'.wall # None
    <2>1. then \in Int /\ then <= now + 1
        BY <1>1, <1>2, <1>3
    <2> HIDE DEF then
    <2> SUFFICES ASSUME inner.applied # None
                 PROVE  /\ then - inner.applied <= BufferMax + Latency + 1 + owed'
                        /\ then - inner.applied <= BufferMax + Latency + 1 + inner'.wall
                        /\ inner'.wall # None
        OBVIOUS
    <2>2. inner'.wall = inner.wall + 1
        BY <1>5, <1>8
    <2>3. now \in Int
        BY <1>1
    <2>4. inner.wall + 1 # None
        BY <1>8, Limits
    <2> HIDE DEF now
    <2>5. /\ inner.applied \in Nat /\ inner.wall \in Nat
          /\ now - inner.applied <= BufferMax + Latency + 1 + owed
          /\ now - inner.applied <= BufferMax + Latency + 1 + inner.wall
        BY <1>8
    <2>6. then - inner.applied <= BufferMax + Latency + 1 + (owed + 1)
        BY <1>1, <1>9, <2>1, <2>3, <2>5
    <2>7. then - inner.applied <= BufferMax + Latency + 1 + (inner.wall + 1)
        BY <1>9, <2>1, <2>3, <2>5
    <2> QED
        BY <1>2, <2>2, <2>4, <2>6, <2>7
<1> HIDE DEF then
<1>12. Pace(inner', Come, then, owed')
    BY <1>5, <1>6, <1>10, <1>11 DEF Pace
<1> QED
    BY <1>7, <1>12 DEF then, Pace

LEMMA DrivePace ==
    ASSUME InputInv, OrderedInv, PaceInv, ordered, drives, Drive
    PROVE  Pace(inner, Come, client.tick + client.due, owed)'
<1>1. /\ client \in Clients /\ client.tick \in Nat /\ client.due \in Nat /\ Come \in Nat
      /\ link \in Seq(Intents) /\ Len(link) \in Nat /\ Come + Len(link) = client.tick
    BY LinkFacts, ClientForm DEF OrderedInv, InputInv, EnvType
<1>2. PICK m \in Intents : client'.tick = client.tick + 1 /\ link' = Append(link, m)
    BY DriveSends
<1>3. client'.due = client.due - 1
    <2>1. PICK pressing \in Triggers :
            client' = [Prepared(pressing) EXCEPT !.tick = @ + 1, !.due = @ - 1]
        BY DEF Drive
    <2>2. Prepared(pressing).due = client.due /\ DOMAIN Prepared(pressing) = DOMAIN client
        BY <1>1 DEF Prepared, Clients
    <2> QED
        BY <1>1, <2>1, <2>2 DEF Clients
<1>4. Come' = Come
    <2>1. Len(link') = Len(link) + 1
        BY <1>1, <1>2
    <2> QED
        BY <1>1, <1>2, <2>1 DEF Come
<1>5. client'.tick + client'.due = client.tick + client.due
    BY <1>1, <1>2, <1>3
<1>6. inner' = inner /\ owed' = owed
    BY DEF Drive, mailboxVars
<1> QED
    BY <1>4, <1>5, <1>6 DEF PaceInv, Pace

LEMMA ArrivePace ==
    ASSUME InputInv, OrderedInv, PaceInv, MCNext, ordered, drives, Arrive
    PROVE  Pace(inner, Come, client.tick + client.due, owed)'
<1> DEFINE now == client.tick + client.due
<1>0. LinkLine /\ Line(inner, Come, dropped, TRUE)
    BY DEF OrderedInv, drives
<1>1. /\ client.tick \in Nat /\ client.due \in Nat /\ Come \in Nat /\ Len(link) \in Nat
      /\ owed \in Nat
    BY <1>0, LinkFacts, ClientForm, Limits DEF InputInv, EnvType
<1>2. /\ link[1] \in Intents /\ link[1].tick = Come /\ link[1].owned
      /\ inner' = Posted(inner, link[1]) /\ Len(link') = Len(link) - 1
    BY <1>0, ArriveFirst
<1>3. client' = client /\ owed' = owed
    BY DEF Arrive
<1>4. Come' = Come + 1
    <2>1. client.tick - (Len(link) - 1) = client.tick - Len(link) + 1
        BY <1>1
    <2> QED
        BY <1>2, <1>3, <2>1 DEF Come
<1>5. inner \in Box /\ Held(inner.queue) /\ Pace(inner, Come, now, owed) /\ now \in Nat
    BY <1>1 DEF InputInv, BoxType, PaceInv
<1>6. Pace(Posted(inner, link[1]), Come + 1, now, owed)
    BY <1>0, <1>1, <1>2, <1>5, PostKeepsPace
<1> QED
    BY <1>2, <1>3, <1>4, <1>6 DEF Pace

LEMMA RoomTickPace ==
    ASSUME Tolerant, InputInv, OrderedInv, PaceInv, ordered, drives, RoomTick, ~CoastedOut(inner)
    PROVE  Pace(inner, Come, client.tick + client.due, owed)' /\ Near(inner, inner')
<1> DEFINE now == client.tick + client.due
<1>1. /\ client.tick \in Nat /\ client.due \in Nat /\ Come \in Nat /\ Len(link) \in Nat
      /\ Come + Len(link) = client.tick /\ owed \in 0..RoomStall /\ Line(inner, Come, dropped, TRUE)
    BY LinkFacts, ClientForm, Limits DEF OrderedInv, InputInv, EnvType, drives
<1>2. inner' = ReadBox(inner) /\ client' = client /\ link' = link /\ Come' = Come
    BY DEF RoomTick, Read, Come
<1>3. owed' \in Nat
    BY <1>1, Limits DEF RoomTick, Fire
<1>4. inner \in Box /\ Held(inner.queue) /\ Pace(inner, Come, now, owed)
    BY DEF InputInv, BoxType, PaceInv
<1>5. now \in Nat /\ Come <= now
    BY <1>1
<1> DEFINE c == ReadBox(inner)
<1>6. Pace(c, Come, now, 0) /\ Near(inner, c)
    <2> HIDE DEF now
    <2> QED
        BY <1>1, <1>4, <1>5, ReadKeepsPace
<1>7. c \in Box
    BY <1>4, ReadForm
<1> HIDE DEF c, now
<1>8. Pace(c, Come, now, owed')
    <2>1. c.applied # None => now - c.applied <= BufferMax + Latency + 1 + owed'
        <3>1. c.applied # None => c.applied \in Nat /\ now - c.applied <= BufferMax + Latency + 1 + 0
            BY <1>6, <1>7, BoxForm DEF Pace
        <3> QED
            BY <1>3, <1>5, <3>1, Limits
    <2> QED
        BY <1>6, <2>1 DEF Pace
<1> QED
    BY <1>2, <1>6, <1>8 DEF c, now, Pace

LEMMA PaceKeeps ==
    ASSUME Tolerant
    PROVE  InputInv /\ OrderedInv /\ PaceInv /\ PoseTaken /\ ~CoastedOut(inner)
             /\ [MCNext]_<<inputVars, history>> => PaceInv' /\ PoseTaken'
<1> SUFFICES ASSUME InputInv, OrderedInv, PaceInv, PoseTaken, ~CoastedOut(inner),
                    [MCNext]_<<inputVars, history>>
             PROVE  PaceInv' /\ PoseTaken'
    OBVIOUS
<1>1. kind' = kind
    BY DEF MCNext, inputVars, mailboxVars, envVars, history
<1>2. CASE ~(drives /\ ordered)
    BY <1>1, <1>2 DEF PaceInv, PoseTaken, drives, ordered
<1>3. CASE UNCHANGED <<inputVars, history>>
    BY <1>3 DEF PaceInv, PoseTaken, Pace, Come, drives, ordered, inputVars, mailboxVars, envVars, history
<1>4. CASE drives /\ ordered /\ MCNext
    <2>1. Pace(inner, Come, client.tick + client.due, owed)' => PaceInv'
        BY DEF PaceInv
    <2>2. Larger(inner'.reach, PoseReachTicks) \in Nat /\ Larger(inner'.reach, PoseReachTicks) >= 0
        <3>1. inner' \in Box
            BY <1>4, MCSteps, NextKeeps DEF InputInv, BoxType
        <3>2. inner'.reach \in 0..Larger(1, ReachTicksMax)
            BY <3>1 DEF Box
        <3> QED
            BY <3>2, Limits DEF Larger
    <2>3. ASSUME ~RoomTick PROVE PoseTaken'
        <3>1. jump' = 0
            BY <1>4, <2>3 DEF MCNext
        <3> QED
            BY <2>2, <3>1 DEF PoseTaken, Tolerant
    <2>4. CASE Period
        BY <1>4, <2>1, <2>3, <2>4, PeriodPace, StepsApart
    <2>5. CASE Drive
        BY <1>4, <2>1, <2>3, <2>5, DrivePace, StepsApart
    <2>6. CASE Arrive
        <3>1. ~RoomTick
            BY <1>4, <2>6, ArriveFirst DEF OrderedInv
        <3> QED
            BY <1>4, <2>1, <2>3, <2>6, <3>1, ArrivePace
    <2>7. CASE RoomTick
        <3>1. Pace(inner, Come, client.tick + client.due, owed)' /\ Near(inner, inner')
            BY <1>4, <2>7, RoomTickPace
        <3>2. jump' = Jump
            BY <1>4, <2>7 DEF MCNext
        <3>3. jump' <= Larger(inner'.reach, PoseReachTicks) + ReachSlackTicks
            <4>1. CASE inner.applied \in {None, inner'.applied}
                <5>1. jump' = 0
                    BY <3>2, <4>1 DEF Jump
                <5> QED
                    BY <2>2, <5>1 DEF Tolerant
            <4>2. CASE inner.applied \notin {None, inner'.applied}
                BY <3>1, <3>2, <4>2 DEF Jump, Near
            <4> QED
                BY <4>1, <4>2
        <3> QED
            BY <2>1, <3>1, <3>3 DEF PoseTaken
    <2>8. ~StrayArrives
        BY <1>4 DEF StrayArrives, OrderedInv, LinkLine
    <2>9. ~Reclaim
        BY <1>4 DEF Reclaim, MCNext, InOrder, InputInv, EnvType
    <2> QED
        BY <1>4, <2>4, <2>5, <2>6, <2>7, <2>8, <2>9 DEF MCNext, InputNext
<1> QED
    BY <1>2, <1>3, <1>4

\* Every pose of a client that drives straight on at top speed is one the
\* validator takes, whatever the packets and the two clocks do: for constants
\* in the order the code's have and a link whose lateness the spare ticks and
\* the slack cover, and a room whose stalls the longest reach does, as long as
\* the seat does not coast out - after which the hull is placed, not stepped
\* (src/net/mailbox.rs, read_owned and REACH_TICKS_MAX;
\* src/simulation/mod.rs, accept_seat_pose).
THEOREM PosesTaken == ASSUME Tolerant PROVE MCSpec /\ []~CoastedOut(inner) => []PoseTaken
<1>1. MCInit => PaceInv /\ PoseTaken
    <2> SUFFICES ASSUME MCInit PROVE PaceInv /\ PoseTaken
        OBVIOUS
    <2>1. jump = 0 /\ inner.reach = 0
        BY DEF MCInit, InputInit, MailboxInit, Empty
    <2>2. PoseTaken
        BY <2>1, Limits DEF PoseTaken, Tolerant, Larger
    <2> QED
        BY <2>2, InitPace
<1>2. InputInv /\ OrderedInv /\ PaceInv /\ PoseTaken /\ ~CoastedOut(inner)
        /\ [MCNext]_<<inputVars, history>> => PaceInv' /\ PoseTaken'
    BY PaceKeeps
<1> QED
    BY <1>1, <1>2, RowOfTicks, PTL DEF MCSpec
=============================================================================
