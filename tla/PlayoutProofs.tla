--------------------------- MODULE PlayoutProofs ---------------------------
(***************************************************************************)
(* What Playout promises, for any buffer, any hold and snap, any stalls    *)
(* and skips and any transit: the events of the snapshots read are handed  *)
(* over once and in order or still owed, the picture never goes back and a *)
(* frame leaves it near its target or waiting for it, and a restarted      *)
(* schedule is followed while a burst is not mistaken for one.             *)
(*                                                                         *)
(* The invariant joins the room to the picture: each message is later than *)
(* the one before it, on the room's schedule or late within a burst        *)
(* (Sending), what is held is owed but for its head (Standing), and the    *)
(* anchor is the least of a window that still holds an epoch which was not *)
(* late (Anchoring).                                                       *)
(***************************************************************************)
EXTENDS MCPlayout, FiniteSetTheorems, TLAPS

----------------------------------------------------------------------------
(***************************************************************************)
(* The invariant.                                                          *)
(***************************************************************************)

Message == [kind : {"Welcome", "Snapshot"}, tick : Ticks, stamp : Ticks, base : Int]

Interps == [buffer : Seq(Ticks), released : Maybe(Ticks), orphaned : Seq(Ticks),
            epochs : Seq(Int), anchor : Maybe(Int), offset : Maybe(Int),
            render : Maybe(Int), rendered_at : Maybe(Ticks), holding : BOOLEAN]

Typed ==
    /\ now \in Ticks
    /\ room \in [tick : Ticks, due : 1..(Horizon + 1), stalled : Nat]
    /\ link \in Seq(Message)
    /\ interp \in Interps
    /\ Len(interp.buffer) <= BufferedSnapshots /\ Len(interp.epochs) <= AnchorSnapshots
    /\ heard \in Seq(Ticks) /\ taken \in Seq(Ticks)
    /\ base \in Maybe(Int) /\ streak \in Nat
    /\ last \in [tick : Ticks, late : Int] /\ plain \in BOOLEAN

\* Nothing is stamped or drawn ahead of its time, and no tick is early.
Timely ==
    /\ room.tick < room.due /\ room.due <= now + 1
    /\ \A n \in DOMAIN link : link[n].stamp <= now
    /\ interp.rendered_at # None => interp.rendered_at <= now

\* A message is late by what a burst catches up with at most, a welcome never.
Fit(m) ==
    /\ Lateness(m) \in 0..CatchUpTicks
    /\ m.kind = "Welcome" => Lateness(m) = 0

\* A message that may follow a tick sent on a schedule: the first of another
\* schedule is on time, unless it was skipped.
After(tick, sched, m) ==
    m.kind = "Snapshot" =>
        /\ tick < m.tick
        /\ m.tick = tick + 1 /\ m.base # sched => Lateness(m) = 0

UpTo(r, tick, sched) == tick <= r.tick /\ (tick = r.tick => sched = Base(r))

Sending ==
    /\ \A n \in DOMAIN link : Fit(link[n])
    /\ \A n \in 2..Len(link) : After(link[n - 1].tick, link[n - 1].base, link[n])
    /\ link # <<>> /\ base # None => After(last.tick, base, link[1])
    /\ link # <<>> => UpTo(room, link[Len(link)].tick, link[Len(link)].base)
    /\ link = <<>> /\ base # None => UpTo(room, last.tick, base)

\* What is held: ticks in order, up to the one read last, all but the first
\* of them owed.
Holding(i, newest) ==
    /\ i.buffer # <<>> /\ i.buffer[Len(i.buffer)] = newest
    /\ Ascends(i.buffer)
    /\ \A n \in 2..Len(i.buffer) : Owed(i, i.buffer[n])
    /\ i.released # None => i.released <= newest

Standing ==
    IF base = None THEN interp = NewInterp /\ heard = <<>> /\ taken = <<>> /\ streak = 0
    ELSE /\ Holding(interp, last.tick)
         /\ interp.anchor # None /\ interp.offset # None
         /\ taken = heard \o interp.orphaned \o OwedOf(interp, interp.buffer)

IsLeast(x, s) == (\E n \in DOMAIN s : s[n] = x) /\ \A n \in DOMAIN s : x <= s[n]

\* An epoch that was not late is among the latest, or all there are are few.
Recent ==
    LET burst == CatchUpTicks + 1 - last.late
    IN  \/ Len(interp.epochs) <= burst
        \/ \E n \in DOMAIN interp.epochs : n >= Len(interp.epochs) - burst /\ interp.epochs[n] = base

Anchoring ==
    base # None =>
        /\ IsLeast(interp.anchor, interp.epochs)
        /\ last.late \in 0..CatchUpTicks
        /\ interp.epochs[Len(interp.epochs)] = base + last.late
        /\ \A n \in DOMAIN interp.epochs : n > Len(interp.epochs) - streak => interp.epochs[n] = base
        /\ streak >= AnchorRun => base - AnchorHold <= interp.anchor
        /\ plain => Recent

PlayoutInv == Typed /\ Timely /\ Sending /\ Standing /\ Anchoring

----------------------------------------------------------------------------
(***************************************************************************)
(* Sequences of epochs.                                                    *)
(***************************************************************************)

LEMMA Limits ==
    /\ BufferedSnapshots \in Nat \ {0} /\ ClockSnap \in Nat /\ RenderSnap \in Nat
    /\ {Grain, RateFar, RateTime} \subseteq Nat \ {0}
    /\ AnchorHold \in Nat /\ Delay \in Nat /\ CatchUpTicks \in Nat /\ Horizon \in Nat
    /\ CatchUpTicks <= ClockSnap
    /\ None \notin Int
    /\ AnchorSnapshots = CatchUpTicks + 2 /\ AnchorRun = 2
BY PlayoutAssumption DEF AnchorSnapshots, AnchorRun

\* A set of naturals has a least one: from n on, the intervals 1..n shrink.
LEMMA LeastOf ==
    ASSUME NEW T, T \subseteq Nat, T # {}
    PROVE  \E n \in T : \A m \in T : n <= m
<1> DEFINE Up(n) == 1..n
           Ups == {Up(n) : n \in T}
<1>1. Ups \subseteq FiniteSubsetsOf(Nat) /\ Ups # {}
    <2>1. \A n \in T : Up(n) \in SUBSET Nat /\ IsFiniteSet(Up(n))
        BY FS_Interval
    <2> QED
        BY <2>1 DEF FiniteSubsetsOf
<1>2. PICK least \in Ups : \A u \in Ups : <<u, least>> \notin StrictSubsetOrdering(Nat)
    <2> HIDE DEF Ups
    <2> QED
        BY <1>1, FS_StrictSubsetOrderingWellFounded, WFMin
<1>3. PICK n \in T : least = Up(n)
    OBVIOUS
<1>4. \A m \in T : m < n => <<Up(m), Up(n)>> \in StrictSubsetOrdering(Nat)
    <2> SUFFICES ASSUME NEW m \in T, m < n
                 PROVE  <<Up(m), Up(n)>> \in StrictSubsetOrdering(Nat)
        OBVIOUS
    <2>1. n \in Up(n) /\ n \notin Up(m) /\ Up(m) \subseteq Up(n) /\ Up(n) \subseteq Nat /\ Up(m) \subseteq Nat
        OBVIOUS
    <2> QED
        BY <2>1 DEF StrictSubsetOrdering
<1>5. \A m \in T : ~(m < n)
    BY <1>2, <1>3, <1>4
<1> QED
    BY <1>5

LEMMA Joined ==
    ASSUME NEW a \in Seq(Ticks), NEW b \in Seq(Ticks), NEW c \in Seq(Ticks)
    PROVE  (a \o b) \o c = a \o (b \o c)
OBVIOUS

LEMMA TailOf ==
    ASSUME NEW S, NEW s \in Seq(S), s # <<>>
    PROVE  /\ Tail(s) \in Seq(S) /\ Len(Tail(s)) = Len(s) - 1
           /\ \A n \in 1..Len(Tail(s)) : Tail(s)[n] = s[n + 1]
           /\ s = <<s[1]>> \o Tail(s) /\ SubSeq(s, 2, Len(s)) = <<>> \o Tail(s)
<1>1. Tail(s) \in Seq(S) /\ Len(Tail(s)) = Len(s) - 1 /\ \A n \in 1..Len(Tail(s)) : Tail(s)[n] = s[n + 1]
    OBVIOUS
<1>2. s = <<s[1]>> \o Tail(s)
    OBVIOUS
<1>3. SubSeq(s, 2, Len(s)) = <<>> \o Tail(s)
    OBVIOUS
<1> QED
    BY <1>1, <1>2, <1>3

\* A sequence of integers has a least one: fewer and fewer are below it.
LEMMA HasLeast ==
    ASSUME NEW s \in Seq(Int), s # <<>>
    PROVE  \E x \in ToSet(s) : IsLeast(x, s)
<1> DEFINE D == 1..Len(s)
           Below(n) == {k \in D : s[k] < s[n]}
           Belows == {Below(n) : n \in D}
<1>0. Len(s) \in Nat /\ DOMAIN s = D /\ 1 \in D /\ \A n \in D : s[n] \in Int
    OBVIOUS
<1>1. Belows \subseteq FiniteSubsetsOf(D) /\ Belows # {}
    <2>1. IsFiniteSet(D)
        BY <1>0, FS_Interval
    <2>2. \A n \in D : Below(n) \in SUBSET D /\ IsFiniteSet(Below(n))
        BY <2>1, FS_Subset
    <2> QED
        BY <1>0, <2>2 DEF FiniteSubsetsOf
<1>2. PICK least \in Belows : \A u \in Belows : <<u, least>> \notin StrictSubsetOrdering(D)
    <2> HIDE DEF Belows, D
    <2> QED
        BY <1>1, FS_StrictSubsetOrderingWellFounded, WFMin
<1>3. PICK n \in D : least = Below(n)
    OBVIOUS
<1>4. \A k \in D : ~(s[k] < s[n])
    <2> SUFFICES ASSUME NEW k \in D, s[k] < s[n]
                 PROVE  FALSE
        OBVIOUS
    <2>1. k \in Below(n) /\ k \notin Below(k) /\ Below(k) \subseteq Below(n) /\ Below(n) \subseteq D
        BY <1>0
    <2>2. <<Below(k), Below(n)>> \in StrictSubsetOrdering(D)
        BY <2>1 DEF StrictSubsetOrdering
    <2> QED
        BY <2>2, <1>2, <1>3
<1>5. s[n] \in ToSet(s)
    BY <1>0 DEF ToSet
<1> QED
    BY <1>0, <1>4, <1>5 DEF IsLeast

LEMMA MinIsLeast ==
    ASSUME NEW s \in Seq(Int), s # <<>>
    PROVE  IsLeast(Min(ToSet(s)), s) /\ Min(ToSet(s)) \in Int
<1>1. \E x \in ToSet(s) : \A y \in ToSet(s) : x <= y
    BY HasLeast DEF IsLeast, ToSet
<1>2. Min(ToSet(s)) \in ToSet(s) /\ \A y \in ToSet(s) : Min(ToSet(s)) <= y
    BY <1>1 DEF Min
<1>3. PICK n \in DOMAIN s : s[n] = Min(ToSet(s))
    BY <1>2 DEF ToSet
<1>4. \A k \in DOMAIN s : s[k] \in ToSet(s) /\ s[k] \in Int
    BY DEF ToSet
<1> QED
    BY <1>2, <1>3, <1>4 DEF IsLeast

LEMMA LatestOf ==
    ASSUME NEW s \in Seq(Int), NEW n \in Nat
    PROVE  /\ Latest(s, n) \in Seq(Int)
           /\ Len(Latest(s, n)) = Smaller(Len(s), n)
           /\ \A k \in 1..Len(Latest(s, n)) : Latest(s, n)[k] = s[k + Len(s) - Len(Latest(s, n))]
<1> DEFINE gone == Larger(Len(s) - n, 0)
           l == Len(s)
<1>1. l \in Nat /\ gone \in Nat /\ gone <= l /\ l - gone = Smaller(l, n)
    <2>1. \A k, m \in Nat : /\ Larger(k - m, 0) \in Nat /\ Larger(k - m, 0) <= k
                            /\ k - Larger(k - m, 0) = Smaller(k, m)
        BY DEF Larger, Smaller
    <2>2. Len(s) \in Nat
        OBVIOUS
    <2> QED
        BY <2>1, <2>2
<1>2. Latest(s, n) = SubSeq(s, gone + 1, l)
    BY DEF Latest
<1> HIDE DEF gone
<1>3. SubSeq(s, gone + 1, l) \in Seq(Int)
    BY <1>1
<1>4. /\ Len(SubSeq(s, gone + 1, l)) = l - gone
      /\ \A k \in 1..l - gone : SubSeq(s, gone + 1, l)[k] = s[k + gone]
    BY <1>1
<1> HIDE DEF l
<1>5. \A k \in 1..l - gone : k + l - (l - gone) = k + gone
    BY <1>1
<1>6. \A k \in 1..l - gone : SubSeq(s, gone + 1, l)[k] = s[k + l - (l - gone)]
    BY <1>4, <1>5
<1> QED
    BY <1>1, <1>2, <1>3, <1>4, <1>6 DEF l

\* The last two came equally late.
LEMMA RunOfTwo ==
    ASSUME NEW s \in Seq(Int)
    PROVE  IsRun(s) <=> Len(s) = 2 /\ s[1] = s[2]
<1>1. CASE Len(s) # 2
    BY <1>1, Limits DEF IsRun
<1>2. CASE Len(s) = 2
    <2>1. ToSet(s) = {s[1]} \cup {s[2]} /\ s[1] \in Int /\ s[2] \in Int
        <3>1. DOMAIN s = {1, 2}
            BY <1>2
        <3>2. \A x : x \in ToSet(s) <=> \E n \in {1, 2} : x = s[n]
            BY <3>1 DEF ToSet
        <3> QED
            BY <1>2, <3>2
    <2>2. Cardinality({s[1]} \cup {s[2]}) = IF s[2] \in {s[1]} THEN 1 ELSE 2
        <3>1. IsFiniteSet({s[1]}) /\ Cardinality({s[1]}) = 1
            BY FS_Singleton
        <3>2. Cardinality({s[1]} \cup {s[2]}) =
                  IF s[2] \in {s[1]} THEN Cardinality({s[1]}) ELSE Cardinality({s[1]}) + 1
            BY <3>1, FS_AddElement
        <3> QED
            BY <3>1, <3>2
    <2> QED
        BY <1>2, <2>1, <2>2, Limits DEF IsRun
<1> QED
    BY <1>1, <1>2

----------------------------------------------------------------------------
(***************************************************************************)
(* Readings of the clocks.                                                 *)
(***************************************************************************)

\* A reading of a clock leaves the snapshots and the picture alone.
Reread(i, r) ==
    /\ r \in Interps
    /\ r.buffer = i.buffer /\ r.released = i.released /\ r.orphaned = i.orphaned
    /\ r.render = i.render /\ r.rendered_at = i.rendered_at

\* What an epoch makes of the window and of the anchor: a new window, a
\* schedule that restarted, or one more in the window.
Windowed(old, anchor, epoch, new, low) ==
    /\ new \in Seq(Int) /\ Len(new) \in 1..AnchorSnapshots /\ Len(new) <= Len(old) + 1
    /\ low \in Int /\ IsLeast(low, new)
    /\ new[Len(new)] = epoch
    /\ \A n \in 1..Len(new) - 1 : new[n] = old[n + Len(old) + 1 - Len(new)]
    /\ \/ Len(new) = 1 /\ (anchor = None \/ epoch - anchor > ClockSnap \/ anchor - epoch > ClockSnap)
       \/ Len(new) = 2 /\ old # <<>> /\ old[Len(old)] = epoch /\ epoch - anchor > AnchorHold
       \/ /\ old # <<>> /\ anchor # None
          /\ Len(new) = Smaller(Len(old) + 1, AnchorSnapshots)
          /\ ~(old[Len(old)] = epoch /\ epoch - anchor > AnchorHold)

LEMMA AnchoredWindow ==
    ASSUME NEW i \in Interps, NEW epoch \in Int,
           Len(i.epochs) <= AnchorSnapshots, i.anchor = None <=> i.epochs = <<>>
    PROVE  /\ Reread(i, Anchored(i, epoch)) /\ Anchored(i, epoch).offset = i.offset
           /\ Windowed(i.epochs, i.anchor, epoch, Anchored(i, epoch).epochs, Anchored(i, epoch).anchor)
<1> DEFINE old == i.epochs
<1>0. old \in Seq(Int) /\ Len(old) \in Nat /\ i.anchor \in Maybe(Int) /\ i.holding \in BOOLEAN
    BY DEF Interps
<1>1. CASE i.anchor = None
    <2> DEFINE r == [i EXCEPT !.epochs = Append(@, epoch), !.anchor = epoch]
    <2>1. Anchored(i, epoch) = r
        BY <1>1 DEF Anchored
    <2>2. Append(old, epoch) \in Seq(Int) /\ Len(Append(old, epoch)) = 1 /\ Append(old, epoch)[1] = epoch
        BY <1>0, <1>1
    <2>3. Reread(i, r) /\ r.offset = i.offset /\ r.epochs = Append(old, epoch) /\ r.anchor = epoch
        BY <2>2 DEF Reread, Interps, Maybe
    <2>4. Windowed(old, i.anchor, epoch, Append(old, epoch), epoch)
        BY <1>0, <1>1, <2>2, Limits DEF Windowed, IsLeast
    <2> QED
        BY <2>1, <2>3, <2>4
<1>2. CASE i.anchor # None
    <2> DEFINE clear == Larger(epoch - i.anchor, i.anchor - epoch) > ClockSnap
               app == Append(IF clear THEN <<>> ELSE old, epoch)
               seen == Latest(app, AnchorSnapshots)
               run == Latest(seen, AnchorRun)
               restarted == IsRun(run) /\ Min(ToSet(run)) - i.anchor > AnchorHold
               new == IF restarted THEN run ELSE seen
               low == Min(ToSet(new))
               r == [i EXCEPT !.epochs = new, !.anchor = low, !.holding = Held(i, low)]
    <2>0. i.anchor \in Int /\ old # <<>> /\ Len(old) >= 1
        BY <1>0, <1>2 DEF Maybe
    <2>1. Anchored(i, epoch) = r
        BY <1>2 DEF Anchored, Kept
    <2>2. /\ app \in Seq(Int) /\ Len(app) = IF clear THEN 1 ELSE Len(old) + 1
          /\ app[Len(app)] = epoch
          /\ ~clear => \A n \in 1..Len(old) : app[n] = old[n]
        BY <1>0
    <2>3. /\ seen \in Seq(Int) /\ Len(seen) = Smaller(Len(app), AnchorSnapshots)
          /\ \A n \in 1..Len(seen) : seen[n] = app[n + Len(app) - Len(seen)]
        <3>1. app \in Seq(Int) /\ AnchorSnapshots \in Nat
            BY <2>2, Limits
        <3> HIDE DEF app
        <3> QED
            BY <3>1, LatestOf
    <2>4. /\ run \in Seq(Int) /\ Len(run) = Smaller(Len(seen), 2)
          /\ \A n \in 1..Len(run) : run[n] = seen[n + Len(seen) - Len(run)]
        <3>1. seen \in Seq(Int) /\ AnchorRun \in Nat /\ AnchorRun = 2
            BY <2>3, Limits
        <3> HIDE DEF seen
        <3> QED
            BY <3>1, LatestOf
    <2>5. restarted <=> Len(run) = 2 /\ run[1] = run[2] /\ run[2] - i.anchor > AnchorHold
        <3> HIDE DEF run
        <3>1. CASE IsRun(run)
            <4>0. run \in Seq(Int)
                BY <2>4
            <4>1. Len(run) = 2 /\ run[1] = run[2]
                BY <4>0, <3>1, RunOfTwo
            <4>2. Min(ToSet(run)) = run[2]
                <5>1. run # <<>> /\ DOMAIN run = {1, 2}
                    BY <4>0, <4>1
                <5>2. IsLeast(Min(ToSet(run)), run)
                    BY <4>0, <5>1, MinIsLeast
                <5> QED
                    BY <4>1, <5>1, <5>2 DEF IsLeast
            <4> QED
                BY <3>1, <4>1, <4>2
        <3>2. CASE ~IsRun(run)
            BY <2>4, <3>2, RunOfTwo
        <3> QED
            BY <3>1, <3>2
    <2> HIDE DEF app, seen, run, restarted, clear, old
    <2>60. /\ Len(seen) \in Nat /\ Len(run) \in Nat /\ Len(app) \in Nat /\ AnchorSnapshots \in Nat /\ AnchorSnapshots >= 2
           /\ Len(app) >= 1 /\ (~clear => Len(app) >= 2)
        <3>1. Len(seen) \in Nat /\ Len(run) \in Nat /\ Len(app) \in Nat
            BY <2>2, <2>3, <2>4
        <3> QED
            BY <3>1, <2>0, <1>0, <2>2, Limits
    <2>601. /\ clear => Len(seen) = 1 /\ Len(run) = 1
            /\ ~clear => Len(seen) = Smaller(Len(old) + 1, AnchorSnapshots) /\ Len(seen) >= 2 /\ Len(run) = 2
            /\ Len(seen) >= 1 /\ Len(seen) <= Len(app) /\ Len(run) >= 1 /\ Len(run) <= Len(seen)
            /\ Len(seen) <= AnchorSnapshots
        <3>1. Len(app) = IF clear THEN 1 ELSE Len(old) + 1
            BY <2>2
        <3>2. Len(seen) = Smaller(Len(app), AnchorSnapshots) /\ Len(run) = Smaller(Len(seen), 2)
            BY <2>3, <2>4
        <3> QED
            BY <3>1, <3>2, <2>60, <1>0 DEF Smaller
    <2>602. ~(clear /\ restarted)
        BY <2>601, <2>5
    <2>603. seen[Len(seen)] = epoch
        <3>1. Len(seen) \in 1..Len(seen) /\ Len(seen) + Len(app) - Len(seen) = Len(app)
            BY <2>60, <2>601
        <3> QED
            BY <3>1, <2>2, <2>3
    <2>61. /\ clear => Len(seen) = 1 /\ Len(run) = 1 /\ ~restarted
           /\ ~clear => Len(seen) = Smaller(Len(old) + 1, AnchorSnapshots) /\ Len(seen) >= 2 /\ Len(run) = 2
           /\ seen[Len(seen)] = epoch /\ Len(seen) >= 1 /\ Len(seen) <= Len(app)
        BY <2>601, <2>602, <2>603
    <2>62. /\ run[Len(run)] = epoch
           /\ ~clear => run[1] = seen[Len(seen) - 1]
        <3>1. \A n \in 1..Len(run) : run[n] = seen[n + Len(seen) - Len(run)]
            BY <2>4
        <3>2. Len(run) \in 1..Len(run) /\ Len(run) + Len(seen) - Len(run) = Len(seen)
            BY <2>60, <2>601
        <3>3. run[Len(run)] = seen[Len(seen)]
            BY <3>1, <3>2
        <3>4. ~clear => 1 \in 1..Len(run) /\ 1 + Len(seen) - Len(run) = Len(seen) - 1
            <4> SUFFICES ASSUME ~clear PROVE 1 \in 1..Len(run) /\ 1 + Len(seen) - Len(run) = Len(seen) - 1
                OBVIOUS
            <4>1. Len(run) = 2
                BY <2>601
            <4>2. Len(seen) \in Nat
                BY <2>60
            <4> QED
                BY <4>1, <4>2
        <3> QED
            BY <3>1, <3>3, <3>4, <2>603
    <2>63. ~clear => \A n \in 1..Len(seen) - 1 : seen[n] = old[n + Len(old) + 1 - Len(seen)]
        <3> SUFFICES ASSUME ~clear, NEW n \in 1..Len(seen) - 1
                     PROVE  seen[n] = old[n + Len(old) + 1 - Len(seen)]
            OBVIOUS
        <3>1. Len(app) = Len(old) + 1 /\ seen[n] = app[n + Len(app) - Len(seen)]
            BY <2>2, <2>3
        <3>2. n + Len(app) - Len(seen) \in 1..Len(old)
            BY <3>1, <1>0, <2>60, <2>601
        <3> QED
            BY <3>1, <3>2, <2>2
    <2>64. ~clear => run[1] = old[Len(old)]
        <3> SUFFICES ASSUME ~clear PROVE run[1] = old[Len(old)]
            OBVIOUS
        <3>1. Len(seen) - 1 \in 1..Len(seen) - 1 /\ Len(seen) - 1 + Len(old) + 1 - Len(seen) = Len(old)
            BY <2>60, <2>601, <1>0
        <3>2. seen[Len(seen) - 1] = old[(Len(seen) - 1) + Len(old) + 1 - Len(seen)]
            BY <3>1, <2>63
        <3> QED
            BY <3>1, <3>2, <2>62
    <2>6. new \in Seq(Int) /\ Len(new) \in 1..AnchorSnapshots /\ new # <<>> /\ Len(new) <= Len(old) + 1
        <3>1. CASE restarted
            <4>1. run \in Seq(Int) /\ Len(run) = 2 /\ new = run
                BY <3>1, <2>4, <2>5
            <4>2. run # <<>> /\ 2 \in 1..AnchorSnapshots
                BY <4>1, <2>60
            <4>3. 2 <= Len(old) + 1
                BY <2>0, <1>0
            <4> QED
                BY <4>1, <4>2, <4>3
        <3>2. CASE ~restarted
            <4>1. seen \in Seq(Int) /\ Len(seen) >= 1 /\ Len(seen) <= AnchorSnapshots /\ Len(seen) <= Len(app) /\ new = seen
                BY <3>2, <2>3, <2>601
            <4>2. Len(app) <= Len(old) + 1
                BY <2>2, <1>0
            <4> HIDE DEF new
            <4> QED
                BY <4>1, <4>2, <1>0, <2>60
        <3> QED
            BY <3>1, <3>2
    <2>7. low \in Int /\ IsLeast(low, new)
        <3> HIDE DEF new
        <3> QED
            BY <2>6, MinIsLeast
    <2>8. new[Len(new)] = epoch
        BY <2>61, <2>62
    <2>9. \A n \in 1..Len(new) - 1 : new[n] = old[n + Len(old) + 1 - Len(new)]
        <3>1. CASE restarted
            <4>1. new = run /\ Len(new) = 2 /\ run[1] = old[Len(old)]
                BY <3>1, <2>5, <2>61, <2>64
            <4> HIDE DEF new
            <4> SUFFICES ASSUME NEW n \in 1..Len(new) - 1
                         PROVE  new[n] = old[n + Len(old) + 1 - Len(new)]
                OBVIOUS
            <4>2. n = 1 /\ n + Len(old) + 1 - Len(new) = Len(old)
                BY <4>1, <1>0
            <4> QED
                BY <4>1, <4>2
        <3>2. CASE ~restarted /\ clear
            <4>1. new = seen /\ Len(new) = 1
                BY <3>2, <2>61
            <4> HIDE DEF new
            <4> QED
                BY <4>1
        <3>3. CASE ~restarted /\ ~clear
            BY <3>3, <2>63
        <3> QED
            BY <3>1, <3>2, <3>3
    <2>10. \/ Len(new) = 1 /\ (epoch - i.anchor > ClockSnap \/ i.anchor - epoch > ClockSnap)
           \/ Len(new) = 2 /\ old[Len(old)] = epoch /\ epoch - i.anchor > AnchorHold
           \/ /\ Len(new) = Smaller(Len(old) + 1, AnchorSnapshots)
              /\ ~(old[Len(old)] = epoch /\ epoch - i.anchor > AnchorHold)
        <3>1. CASE clear
            BY <3>1, <2>61, <2>0, Limits DEF Larger, clear
        <3>2. CASE ~clear
            <4>1. Len(run) = 2 /\ run[2] = epoch /\ run[1] = old[Len(old)]
                BY <3>2, <2>61, <2>62, <2>64
            <4>2. CASE restarted
                BY <4>1, <4>2, <2>5
            <4>3. CASE ~restarted
                BY <4>1, <4>3, <2>5, <2>61, <3>2
            <4> QED
                BY <4>2, <4>3
        <3> QED
            BY <3>1, <3>2
    <2>11. Windowed(old, i.anchor, epoch, new, low)
        <3> HIDE DEF new, low
        <3> QED
            BY <1>2, <2>0, <2>6, <2>7, <2>8, <2>9, <2>10 DEF Windowed
    <2>12. Held(i, low) \in BOOLEAN
        BY <1>0 DEF Held
    <2>13. Reread(i, r) /\ r.offset = i.offset /\ r.epochs = new /\ r.anchor = low
        <3> HIDE DEF new, low
        <3> QED
            BY <2>6, <2>7, <2>12 DEF Reread, Interps, Maybe
    <2> HIDE DEF r
    <2>14. Windowed(i.epochs, i.anchor, epoch, r.epochs, r.anchor)
        BY <2>11, <2>13 DEF old
    <2> HIDE DEF new, low
    <2> QED
        BY <2>1, <2>13, <2>14
<1> QED
    BY <1>1, <1>2

LEMMA ObservedReads ==
    ASSUME NEW i \in Interps, NEW stamp \in Int, NEW at \in Int, NEW r \in Observed(i, stamp, at)
    PROVE  Reread(i, r) /\ r.epochs = i.epochs /\ r.anchor = i.anchor /\ r.offset \in Int
<1> DEFINE reading == stamp - at
<1>0. reading \in Int /\ i.offset \in Maybe(Int)
    BY DEF Interps
<1>1. CASE i.offset = None \/ reading - i.offset > ClockSnap
    <2>1. r = [i EXCEPT !.offset = reading, !.holding = TRUE]
        BY <1>1 DEF Observed
    <2> QED
        BY <1>0, <2>1 DEF Reread, Interps, Maybe
<1>2. CASE ~(i.offset = None \/ reading - i.offset > ClockSnap)
    <2>1. i.offset \in Int /\ Larger(i.offset, reading) \in Int
        BY <1>0, <1>2 DEF Maybe, Larger
    <2>2. PICK offset \in reading..Larger(i.offset, reading) : r = [i EXCEPT !.offset = offset]
        BY <1>2 DEF Observed
    <2>3. offset \in Int
        BY <1>0, <2>1
    <2> HIDE DEF reading
    <2> QED
        BY <2>2, <2>3 DEF Reread, Interps, Maybe
<1> QED
    BY <1>1, <1>2

----------------------------------------------------------------------------
(***************************************************************************)
(* What is owed of what is held.                                           *)
(***************************************************************************)

LEMMA AllOwed ==
    ASSUME NEW i, NEW s \in Seq(Ticks), \A n \in DOMAIN s : Owed(i, s[n])
    PROVE  OwedOf(i, s) = s
<1>1. {n \in DOMAIN s : ~Owed(i, s[n])} = {}
    OBVIOUS
<1>2. SubSeq(s, 0 + 1, Len(s)) = s
    OBVIOUS
<1> QED
    BY <1>1, <1>2, FS_EmptySet DEF OwedOf

LEMMA OwedButFirst ==
    ASSUME NEW i, NEW s \in Seq(Ticks), s # <<>>, ~Owed(i, s[1]),
           \A n \in 2..Len(s) : Owed(i, s[n])
    PROVE  OwedOf(i, s) = SubSeq(s, 2, Len(s))
<1>1. {n \in DOMAIN s : ~Owed(i, s[n])} = {1}
    <2>1. 1 \in DOMAIN s /\ \A n \in DOMAIN s : n = 1 \/ n \in 2..Len(s)
        OBVIOUS
    <2> QED
        BY <2>1
<1>2. Cardinality({1}) = 1
    BY FS_Singleton
<1>3. OwedOf(i, s) = SubSeq(s, Cardinality({1}) + 1, Len(s))
    BY <1>1, Zenon DEF OwedOf
<1> QED
    BY <1>2, <1>3

LEMMA OwedOfHeld ==
    ASSUME NEW i, NEW s \in Seq(Ticks), s # <<>>, \A n \in 2..Len(s) : Owed(i, s[n])
    PROVE  OwedOf(i, s) = IF Owed(i, s[1]) THEN s ELSE SubSeq(s, 2, Len(s))
<1>1. CASE Owed(i, s[1])
    <2>1. \A n \in DOMAIN s : Owed(i, s[n])
        <3>1. \A n \in DOMAIN s : n = 1 \/ n \in 2..Len(s)
            OBVIOUS
        <3> QED
            BY <1>1, <3>1
    <2> QED
        BY <1>1, <2>1, AllOwed
<1>2. CASE ~Owed(i, s[1])
    BY <1>2, OwedButFirst
<1> QED
    BY <1>1, <1>2

\* Two that have handed over as much owe as much.
LEMMA OwedAlike ==
    ASSUME NEW i, NEW j, i.released = j.released
    PROVE  (\A t : Owed(i, t) <=> Owed(j, t)) /\ (\A s : OwedOf(i, s) = OwedOf(j, s))
<1>1. \A t : Owed(i, t) <=> Owed(j, t)
    BY DEF Owed
<1>2. \A s : OwedOf(i, s) = OwedOf(j, s)
    <2> SUFFICES ASSUME NEW s PROVE OwedOf(i, s) = OwedOf(j, s)
        OBVIOUS
    <2> DEFINE I == {n \in DOMAIN s : ~Owed(i, s[n])}
               J == {n \in DOMAIN s : ~Owed(j, s[n])}
    <2>1. I = J
        BY <1>1
    <2>2. OwedOf(i, s) = SubSeq(s, Cardinality(I) + 1, Len(s)) /\ OwedOf(j, s) = SubSeq(s, Cardinality(J) + 1, Len(s))
        BY DEF OwedOf
    <2> HIDE DEF I, J
    <2> QED
        BY <2>1, <2>2
<1> QED
    BY <1>1, <1>2

LEMMA Ascending ==
    ASSUME NEW s \in Seq(Ticks), Ascends(s), NEW m \in DOMAIN s
    PROVE  \A n \in DOMAIN s : m < n => s[m] < s[n]
<1> DEFINE Bad == {n \in DOMAIN s : m < n /\ ~(s[m] < s[n])}
<1> SUFFICES ASSUME Bad # {} PROVE FALSE
    OBVIOUS
<1>1. PICK n \in Bad : \A k \in Bad : n <= k
    <2> HIDE DEF Bad
    <2>1. Bad \subseteq Nat
        BY DEF Bad
    <2> QED
        BY <2>1, LeastOf
<1>2. n \in DOMAIN s /\ m < n /\ ~(s[m] < s[n]) /\ n - 1 \in DOMAIN s /\ n \in 2..Len(s)
    OBVIOUS
<1>3. n - 1 \notin Bad
    BY <1>1, <1>2
<1>4. n - 1 = m \/ s[m] < s[n - 1]
    BY <1>2, <1>3
<1>5. s[n - 1] < s[n] /\ s[m] \in Int /\ s[n - 1] \in Int /\ s[n] \in Int
    BY <1>2, Limits DEF Ascends, Ticks
<1> QED
    BY <1>2, <1>4, <1>5

\* What one that holds up to newest makes of a later tick.
LEMMA Appended ==
    ASSUME NEW i \in Interps, NEW newest \in Ticks, NEW tick \in Ticks, NEW j \in Interps,
           Holding(i, newest), newest < tick,
           j.buffer = Append(i.buffer, tick), j.released = i.released
    PROVE  Holding(j, tick) /\ OwedOf(j, j.buffer) = OwedOf(i, i.buffer) \o <<tick>>
<1> DEFINE b == i.buffer
           c == j.buffer
<1>1. /\ b \in Seq(Ticks) /\ c \in Seq(Ticks) /\ b # <<>> /\ Len(b) \in Nat /\ Len(b) >= 1 /\ b[Len(b)] = newest
      /\ Len(c) = Len(b) + 1 /\ c[Len(c)] = tick /\ c # <<>> /\ c[1] = b[1]
      /\ \A n \in 1..Len(b) : c[n] = b[n]
      /\ i.released # None => i.released \in Int /\ i.released <= newest
    <2>1. b \in Seq(Ticks) /\ c \in Seq(Ticks) /\ i.released \in Maybe(Ticks)
        BY DEF Interps
    <2>2. b # <<>> /\ b[Len(b)] = newest /\ (i.released # None => i.released <= newest)
        BY DEF Holding
    <2>3. c = Append(b, tick)
        OBVIOUS
    <2>4. i.released # None => i.released \in Int
        BY <2>1, Limits DEF Maybe, Ticks
    <2> HIDE DEF b, c
    <2> QED
        BY <2>1, <2>2, <2>3, <2>4
<1>2. newest \in Int /\ tick \in Int
    BY Limits DEF Ticks
<1>3. Ascends(c)
    <2> SUFFICES ASSUME NEW n \in 2..Len(c) PROVE c[n - 1] < c[n]
        BY DEF Ascends
    <2>1. CASE n = Len(c)
        <3>1. n - 1 = Len(b) /\ n - 1 \in 1..Len(b)
            BY <1>1, <2>1
        <3> QED
            BY <1>1, <2>1, <3>1
    <2>2. CASE n # Len(c)
        <3>1. n \in 2..Len(b) /\ n - 1 \in 1..Len(b) /\ n \in 1..Len(b)
            BY <1>1, <2>2
        <3> QED
            BY <1>1, <3>1 DEF Holding, Ascends
    <2> QED
        BY <2>1, <2>2
<1>4. \A t : Owed(i, t) <=> Owed(j, t)
    BY OwedAlike
<1>5. \A n \in 2..Len(b) : Owed(i, b[n])
    BY DEF Holding
<1>6. Owed(i, tick)
    BY <1>1, <1>2 DEF Owed
<1>7. \A n \in 2..Len(c) : Owed(j, c[n])
    <2> SUFFICES ASSUME NEW n \in 2..Len(c) PROVE Owed(j, c[n])
        OBVIOUS
    <2>1. CASE n = Len(c)
        BY <1>1, <1>4, <1>6, <2>1
    <2>2. CASE n # Len(c)
        <3>1. n \in 2..Len(b) /\ n \in 1..Len(b)
            BY <1>1, <2>2
        <3> QED
            BY <1>1, <1>4, <1>5, <3>1
    <2> QED
        BY <2>1, <2>2
<1>8. Holding(j, tick)
    BY <1>1, <1>2, <1>3, <1>7 DEF Holding
<1>9. OwedOf(j, c) = OwedOf(i, b) \o <<tick>>
    <2>1. OwedOf(i, b) = IF Owed(i, b[1]) THEN b ELSE SubSeq(b, 2, Len(b))
        BY <1>1, <1>5, OwedOfHeld
    <2>2. OwedOf(j, c) = IF Owed(j, c[1]) THEN c ELSE SubSeq(c, 2, Len(c))
        BY <1>1, <1>7, OwedOfHeld
    <2>3. c = b \o <<tick>>
        BY <1>1
    <2>4. SubSeq(c, 2, Len(c)) = SubSeq(b, 2, Len(b)) \o <<tick>>
        <3> DEFINE u == SubSeq(c, 2, Len(c))
                   v == SubSeq(b, 2, Len(b)) \o <<tick>>
        <3>1. u \in Seq(Ticks) /\ Len(u) = Len(b) /\ \A n \in 1..Len(b) : u[n] = c[n + 1]
            BY <1>1
        <3>2. v \in Seq(Ticks) /\ Len(v) = Len(b) /\ \A n \in 1..Len(b) : v[n] = IF n = Len(b) THEN tick ELSE b[n + 1]
            BY <1>1
        <3>3. \A n \in 1..Len(b) : u[n] = v[n]
            BY <1>1, <3>1, <3>2
        <3> HIDE DEF u, v
        <3> QED
            BY <3>1, <3>2, <3>3 DEF u, v
    <2> QED
        BY <1>1, <1>4, <2>1, <2>2, <2>3, <2>4
<1> QED
    BY <1>8, <1>9

\* The owed part of a head that is taken off.
LEMMA HeadTaken ==
    ASSUME NEW i \in Interps, NEW h \in Ticks
    PROVE  /\ OwedOf(i, <<h>>) = IF Owed(i, h) THEN <<h>> ELSE <<>>
           /\ Marked(i, <<h>>) = [i EXCEPT !.released = IF Owed(i, h) THEN h ELSE @]
<1>1. OwedOf(i, <<h>>) = IF Owed(i, h) THEN <<h>> ELSE <<>>
    <2> DEFINE s == <<h>>
    <2>1. s \in Seq(Ticks) /\ s # <<>> /\ Len(s) = 1 /\ s[1] = h /\ SubSeq(s, 2, Len(s)) = <<>>
        OBVIOUS
    <2> HIDE DEF s
    <2>2. OwedOf(i, s) = IF Owed(i, s[1]) THEN s ELSE SubSeq(s, 2, Len(s))
        BY <2>1, OwedOfHeld
    <2> QED
        BY <2>1, <2>2 DEF s
<1>2. Marked(i, <<h>>) = [i EXCEPT !.released = IF Owed(i, h) THEN h ELSE @]
    <2>1. CASE Owed(i, h)
        <3>1. OwedOf(i, <<h>>) = <<h>> /\ <<h>> # <<>> /\ Last(<<h>>) = h
            BY <1>1, <2>1 DEF Last
        <3> QED
            BY <2>1, <3>1 DEF Marked
    <2>2. CASE ~Owed(i, h)
        <3>1. OwedOf(i, <<h>>) = <<>>
            BY <1>1, <2>2
        <3> QED
            BY <2>2, <3>1 DEF Marked
    <2> QED
        BY <2>1, <2>2
<1> QED
    BY <1>1, <1>2

\* A full buffer lets go of its oldest and owes no less for it.
LEMMA Overflows ==
    ASSUME NEW i \in Interps, NEW newest \in Ticks, Holding(i, newest),
           Len(i.buffer) <= BufferedSnapshots + 1
    PROVE  /\ Overflow(i) \in Interps /\ Holding(Overflow(i), newest)
           /\ Len(Overflow(i).buffer) <= BufferedSnapshots
           /\ Overflow(i).orphaned \o OwedOf(Overflow(i), Overflow(i).buffer)
                  = i.orphaned \o OwedOf(i, i.buffer)
           /\ Overflow(i).epochs = i.epochs /\ Overflow(i).anchor = i.anchor /\ Overflow(i).offset = i.offset
           /\ Overflow(i).render = i.render /\ Overflow(i).rendered_at = i.rendered_at
<1> DEFINE b == i.buffer
           h == b[1]
<1>1. /\ b \in Seq(Ticks) /\ b # <<>> /\ Len(b) \in Nat /\ Len(b) >= 1 /\ b[Len(b)] = newest /\ Ascends(b)
      /\ i.orphaned \in Seq(Ticks) /\ h \in Ticks
    <2>1. b \in Seq(Ticks) /\ i.orphaned \in Seq(Ticks) /\ b # <<>> /\ b[Len(b)] = newest /\ Ascends(b)
        BY DEF Interps, Holding
    <2> QED
        BY <2>1
<1>2. Len(b) \in Nat /\ BufferedSnapshots \in Nat /\ BufferedSnapshots >= 1
    BY <1>1, Limits
<1>3. CASE Len(b) <= BufferedSnapshots
    BY <1>3 DEF Overflow
<1>4. CASE ~(Len(b) <= BufferedSnapshots)
    <2> DEFINE c == Tail(b)
               m == [i EXCEPT !.released = IF Owed(i, h) THEN h ELSE @]
               orph == i.orphaned \o OwedOf(i, <<h>>)
               r == [m EXCEPT !.orphaned = orph, !.buffer = c]
    <2>0. h = Head(b) /\ OwedOf(i, <<h>>) \in Seq(Ticks) /\ Marked(i, <<h>>) = m
        <3>1. h = Head(b)
            BY <1>1
        <3> HIDE DEF h
        <3>2. OwedOf(i, <<h>>) = IF Owed(i, h) THEN <<h>> ELSE <<>>
            BY <1>1, HeadTaken
        <3>3. Marked(i, <<h>>) = m
            BY <1>1, HeadTaken
        <3>4. OwedOf(i, <<h>>) \in Seq(Ticks)
            <4>1. <<h>> \in Seq(Ticks) /\ <<>> \in Seq(Ticks)
                BY <1>1
            <4> QED
                BY <3>2, <4>1
        <3> QED
            BY <3>1, <3>3, <3>4
    <2>1. Overflow(i) = r
        <3>1. Overflow(i) = [Marked(i, <<Head(b)>>) EXCEPT !.orphaned = @ \o OwedOf(i, <<Head(b)>>), !.buffer = Tail(@)]
            BY <1>4 DEF Overflow
        <3>2. m.orphaned = i.orphaned /\ m.buffer = b
            BY DEF Interps
        <3> QED
            BY <3>1, <3>2, <2>0
    <2>2. /\ c \in Seq(Ticks) /\ Len(c) = Len(b) - 1 /\ Len(c) >= 1 /\ c # <<>>
          /\ \A n \in 1..Len(c) : c[n] = b[n + 1]
          /\ Len(c) <= BufferedSnapshots
        <3>1. c \in Seq(Ticks) /\ Len(c) = Len(b) - 1 /\ \A n \in 1..Len(c) : c[n] = b[n + 1]
            BY <1>1, TailOf
        <3> HIDE DEF b, c
        <3>2. Len(c) >= 1 /\ Len(c) <= BufferedSnapshots
            BY <3>1, <1>2, <1>4 DEF b
        <3> QED
            BY <3>1, <3>2
    <2>3. /\ r \in Interps /\ r.buffer = c /\ r.orphaned = orph
          /\ r.released = IF Owed(i, h) THEN h ELSE i.released
          /\ r.epochs = i.epochs /\ r.anchor = i.anchor /\ r.offset = i.offset
          /\ r.render = i.render /\ r.rendered_at = i.rendered_at
        <3>1. orph \in Seq(Ticks)
            BY <1>1, <2>0
        <3>2. h \in Maybe(Ticks)
            BY <1>1 DEF Maybe
        <3> HIDE DEF orph, c, h
        <3> QED
            BY <2>2, <3>1, <3>2 DEF Interps
    <2> HIDE DEF r, m, orph, c
    <2>4. \A n \in 2..Len(b) : Owed(i, b[n]) /\ h < b[n]
        <3>1. 1 \in DOMAIN b /\ \A n \in 2..Len(b) : n \in DOMAIN b /\ 1 < n
            BY <1>1
        <3>2. \A n \in DOMAIN b : 1 < n => h < b[n]
            BY <1>1, <3>1, Ascending
        <3> QED
            BY <3>1, <3>2 DEF Holding
    <2>5. \A n \in DOMAIN c : Owed(r, c[n])
        <3> SUFFICES ASSUME NEW n \in DOMAIN c PROVE Owed(r, c[n])
            OBVIOUS
        <3>1. n \in 1..Len(c) /\ n + 1 \in 2..Len(b) /\ c[n] = b[n + 1]
            BY <1>1, <2>2
        <3>2. Owed(i, c[n]) /\ h < c[n]
            BY <2>4, <3>1
        <3>3. h \in Int /\ c[n] \in Int
            <4>1. c[n] \in Ticks
                BY <2>2, <3>1
            <4> QED
                BY <1>1, <4>1, Limits DEF Ticks
        <3> QED
            BY <2>3, <3>2, <3>3 DEF Owed
    <2>6. OwedOf(r, c) = c
        BY <2>2, <2>5, AllOwed
    <2>7. OwedOf(i, b) = OwedOf(i, <<h>>) \o c
        <3>1. OwedOf(i, b) = IF Owed(i, b[1]) THEN b ELSE SubSeq(b, 2, Len(b))
            BY <1>1, <2>4, OwedOfHeld
        <3>2. OwedOf(i, <<h>>) = IF Owed(i, h) THEN <<h>> ELSE <<>>
            BY <1>1, HeadTaken
        <3>3. b = <<h>> \o c
            BY <1>1, TailOf DEF c
        <3>4. SubSeq(b, 2, Len(b)) = <<>> \o c
            BY <1>1, TailOf DEF c
        <3> QED
            BY <3>1, <3>2, <3>3, <3>4
    <2>8. r.orphaned \o OwedOf(r, r.buffer) = i.orphaned \o OwedOf(i, b)
        <3>1. (i.orphaned \o OwedOf(i, <<h>>)) \o c = i.orphaned \o (OwedOf(i, <<h>>) \o c)
            <4> DEFINE o == OwedOf(i, <<h>>)
            <4>1. o \in Seq(Ticks) /\ i.orphaned \in Seq(Ticks) /\ c \in Seq(Ticks)
                BY <1>1, <2>0, <2>2
            <4> HIDE DEF o
            <4>2. (i.orphaned \o o) \o c = i.orphaned \o (o \o c)
                BY <4>1, Joined
            <4> QED
                BY <4>2 DEF o
        <3> QED
            BY <2>3, <2>6, <2>7, <3>1 DEF orph
    <2>9. Holding(r, newest)
        <3>1. Ascends(c)
            <4> SUFFICES ASSUME NEW n \in 2..Len(c) PROVE c[n - 1] < c[n]
                BY DEF Ascends
            <4>1. n \in 1..Len(c) /\ n - 1 \in 1..Len(c) /\ n + 1 \in 2..Len(b) /\ (n - 1) + 1 = (n + 1) - 1
                BY <1>1, <2>2
            <4>2. b[(n + 1) - 1] < b[n + 1]
                BY <4>1, <1>1 DEF Ascends
            <4> QED
                BY <4>1, <4>2, <2>2
        <3>2. c[Len(c)] = newest
            <4>1. Len(c) \in 1..Len(c) /\ Len(c) + 1 = Len(b)
                BY <1>1, <2>2
            <4> QED
                BY <4>1, <1>1, <2>2
        <3>3. \A n \in 2..Len(c) : Owed(r, c[n])
            <4>1. \A n \in 2..Len(c) : n \in DOMAIN c
                BY <2>2
            <4> QED
                BY <4>1, <2>5
        <3>4. r.released # None => r.released <= newest
            <4>1. Len(b) \in 2..Len(b)
                BY <1>1, <1>2, <1>4
            <4>2. h < newest
                BY <2>4, <4>1, <1>1
            <4>3. h \in Int /\ newest \in Int
                BY <1>1, Limits DEF Ticks
            <4> QED
                BY <2>3, <4>2, <4>3 DEF Holding
        <3> QED
            BY <2>2, <2>3, <3>1, <3>2, <3>3, <3>4 DEF Holding
    <2> QED
        BY <2>1, <2>2, <2>3, <2>8, <2>9
<1> QED
    BY <1>3, <1>4

LEMMA OwedTyped ==
    ASSUME NEW i \in Interps, NEW newest, Holding(i, newest)
    PROVE  OwedOf(i, i.buffer) \in Seq(Ticks)
<1>1. i.buffer \in Seq(Ticks) /\ i.buffer # <<>> /\ \A n \in 2..Len(i.buffer) : Owed(i, i.buffer[n])
    BY DEF Interps, Holding
<1>2. OwedOf(i, i.buffer) = IF Owed(i, i.buffer[1]) THEN i.buffer ELSE SubSeq(i.buffer, 2, Len(i.buffer))
    BY <1>1, OwedOfHeld
<1>3. SubSeq(i.buffer, 2, Len(i.buffer)) \in Seq(Ticks)
    BY <1>1
<1> QED
    BY <1>1, <1>2, <1>3

LEMMA SubSeqOf ==
    ASSUME NEW s \in Seq(Ticks), NEW a \in Nat \ {0}, NEW b \in Nat, a <= b + 1, b <= Len(s)
    PROVE  /\ SubSeq(s, a, b) \in Seq(Ticks) /\ Len(SubSeq(s, a, b)) = b - a + 1
           /\ \A n \in 1..b - a + 1 : SubSeq(s, a, b)[n] = s[n + a - 1]
<1>1. SubSeq(s, a, b) \in Seq(Ticks) /\ Len(SubSeq(s, a, b)) = b - a + 1
    OBVIOUS
<1>2. \A n \in 1..b - a + 1 : SubSeq(s, a, b)[n] = s[n + a - 1]
    OBVIOUS
<1> QED
    BY <1>1, <1>2

LEMMA ConcatOf ==
    ASSUME NEW p \in Seq(Ticks), NEW q \in Seq(Ticks)
    PROVE  /\ p \o q \in Seq(Ticks) /\ Len(p \o q) = Len(p) + Len(q)
           /\ \A n \in 1..Len(p) + Len(q) : (p \o q)[n] = IF n <= Len(p) THEN p[n] ELSE q[n - Len(p)]
OBVIOUS

LEMMA SameSeq ==
    ASSUME NEW u \in Seq(Ticks), NEW v \in Seq(Ticks), Len(u) = Len(v),
           \A n \in 1..Len(u) : u[n] = v[n]
    PROVE  u = v
OBVIOUS

LEMMA NotEmpty ==
    ASSUME NEW u \in Seq(Ticks)
    PROVE  Len(u) \in Nat /\ (u = <<>> <=> Len(u) = 0) /\ \A n \in 1..Len(u) : u[n] \in Ticks
OBVIOUS

\* A sequence taken apart: the first so many, and the others.
IsSplit(s, k, p, q) ==
    /\ p \in Seq(Ticks) /\ Len(p) = k /\ \A n \in 1..k : p[n] = s[n]
    /\ q \in Seq(Ticks) /\ Len(q) = Len(s) - k /\ \A n \in 1..Len(q) : q[n] = s[n + k]

LEMMA SplitAt ==
    ASSUME NEW s \in Seq(Ticks), NEW k \in 0..Len(s) - 1
    PROVE  IsSplit(s, k, SubSeq(s, 1, k), SubSeq(s, k + 1, Len(s)))
<1>0. Len(s) \in Nat /\ k \in Nat /\ k < Len(s)
    OBVIOUS
<1> DEFINE p == SubSeq(s, 1, k)
           q == SubSeq(s, k + 1, Len(s))
<1>1. p \in Seq(Ticks) /\ Len(p) = k - 1 + 1 /\ \A n \in 1..k - 1 + 1 : p[n] = s[n + 1 - 1]
    BY <1>0, SubSeqOf
<1>2. q \in Seq(Ticks) /\ Len(q) = Len(s) - (k + 1) + 1 /\ \A n \in 1..Len(s) - (k + 1) + 1 : q[n] = s[n + (k + 1) - 1]
    BY <1>0, SubSeqOf
<1> HIDE DEF p, q
<1>3. k - 1 + 1 = k /\ Len(s) - (k + 1) + 1 = Len(s) - k
      /\ (\A n \in 1..k : n + 1 - 1 = n) /\ \A n \in 1..Len(s) - k : n + (k + 1) - 1 = n + k
    BY <1>0
<1>4. IsSplit(s, k, p, q)
    BY <1>1, <1>2, <1>3 DEF IsSplit
<1> QED
    BY <1>4 DEF p, q

LEMMA SplitJoins ==
    ASSUME NEW s \in Seq(Ticks), NEW k \in 0..Len(s) - 1, NEW p, NEW q, IsSplit(s, k, p, q)
    PROVE  /\ s = p \o q
           /\ q # <<>> /\ Head(q) = s[k + 1] /\ q[1] = s[k + 1]
           /\ q = <<s[k + 1]>> \o SubSeq(q, 2, Len(q))
           /\ k = 0 => p = <<>> /\ q = s
           /\ k > 0 => p # <<>> /\ SubSeq(s, 2, Len(s)) = SubSeq(p, 2, Len(p)) \o q
<1>0. Len(s) \in Nat /\ k \in Nat /\ k < Len(s) /\ p \in Seq(Ticks) /\ q \in Seq(Ticks)
      /\ Len(p) = k /\ Len(q) = Len(s) - k /\ Len(q) >= 1
    BY DEF IsSplit
<1>1. (\A n \in 1..k : p[n] = s[n]) /\ \A n \in 1..Len(q) : q[n] = s[n + k]
    BY DEF IsSplit
<1>2. s = p \o q
    <2> DEFINE v == p \o q
    <2>1. v \in Seq(Ticks) /\ Len(v) = Len(s)
          /\ \A n \in 1..Len(s) : v[n] = IF n <= k THEN p[n] ELSE q[n - k]
        <3>1. Len(p) + Len(q) = Len(s)
            BY <1>0
        <3> QED
            BY <1>0, <3>1, ConcatOf
    <2> HIDE DEF v
    <2>2. \A n \in 1..Len(s) : s[n] = v[n]
        <3> SUFFICES ASSUME NEW n \in 1..Len(s) PROVE s[n] = v[n]
            OBVIOUS
        <3>1. CASE n <= k
            BY <1>0, <1>1, <2>1, <3>1
        <3>2. CASE ~(n <= k)
            <4>1. n - k \in 1..Len(q) /\ (n - k) + k = n
                BY <1>0, <3>2
            <4> QED
                BY <1>1, <2>1, <3>2, <4>1
        <3> QED
            BY <3>1, <3>2
    <2>3. s = v
        BY <2>1, <2>2, SameSeq
    <2> QED
        BY <2>3 DEF v
<1>3. q # <<>> /\ Head(q) = q[1] /\ q[1] = s[k + 1]
    <2>1. 1 \in 1..Len(q) /\ 1 + k = k + 1
        BY <1>0
    <2>2. q[1] = s[k + 1]
        BY <1>1, <2>1
    <2>3. q # <<>>
        BY <1>0, NotEmpty
    <2> QED
        BY <2>2, <2>3, <1>0
<1>4. q = <<s[k + 1]>> \o SubSeq(q, 2, Len(q))
    <2>1. q = <<q[1]>> \o Tail(q) /\ SubSeq(q, 2, Len(q)) = <<>> \o Tail(q) /\ Tail(q) \in Seq(Ticks)
        BY <1>0, <1>3, TailOf
    <2>2. <<>> \o Tail(q) = Tail(q)
        BY <2>1
    <2> QED
        BY <1>3, <2>1, <2>2
<1>5. ASSUME k = 0 PROVE p = <<>> /\ q = s
    <2>1. p = <<>>
        BY <1>0, <1>5, NotEmpty
    <2>2. Len(q) = Len(s) /\ \A n \in 1..Len(q) : n + k = n
        BY <1>0, <1>5
    <2>3. q = s
        BY <1>0, <1>1, <2>2, SameSeq
    <2> QED
        BY <2>1, <2>3
<1>6. ASSUME k > 0 PROVE p # <<>> /\ SubSeq(s, 2, Len(s)) = SubSeq(p, 2, Len(p)) \o q
    <2> DEFINE u == SubSeq(s, 2, Len(s))
               w == SubSeq(p, 2, Len(p))
               v == w \o q
    <2>1. u \in Seq(Ticks) /\ Len(u) = Len(s) - 1 /\ \A n \in 1..Len(s) - 1 : u[n] = s[n + 1]
        <3>1. u \in Seq(Ticks) /\ Len(u) = Len(s) - 2 + 1 /\ \A n \in 1..Len(s) - 2 + 1 : u[n] = s[n + 2 - 1]
            BY <1>0, <1>6, SubSeqOf
        <3> HIDE DEF u
        <3>2. Len(s) - 2 + 1 = Len(s) - 1 /\ \A n \in 1..Len(s) - 1 : n + 2 - 1 = n + 1
            BY <1>0
        <3> QED
            BY <3>1, <3>2
    <2>2. w \in Seq(Ticks) /\ Len(w) = k - 1 /\ \A n \in 1..k - 1 : w[n] = p[n + 1]
        <3>1. w \in Seq(Ticks) /\ Len(w) = Len(p) - 2 + 1 /\ \A n \in 1..Len(p) - 2 + 1 : w[n] = p[n + 2 - 1]
            BY <1>0, <1>6, SubSeqOf
        <3> HIDE DEF w
        <3>2. Len(p) - 2 + 1 = k - 1 /\ \A n \in 1..k - 1 : n + 2 - 1 = n + 1
            BY <1>0
        <3> QED
            BY <3>1, <3>2
    <2> HIDE DEF u, w
    <2>3. v \in Seq(Ticks) /\ Len(v) = Len(s) - 1
          /\ \A n \in 1..Len(s) - 1 : v[n] = IF n <= k - 1 THEN w[n] ELSE q[n - (k - 1)]
        <3>1. Len(w) + Len(q) = Len(s) - 1
            BY <1>0, <2>2
        <3>2. v \in Seq(Ticks) /\ Len(v) = Len(w) + Len(q)
              /\ \A n \in 1..Len(w) + Len(q) : v[n] = IF n <= Len(w) THEN w[n] ELSE q[n - Len(w)]
            BY <1>0, <2>2, ConcatOf
        <3> HIDE DEF v
        <3> QED
            BY <2>2, <3>1, <3>2
    <2> HIDE DEF v
    <2>4. \A n \in 1..Len(s) - 1 : u[n] = v[n]
        <3> SUFFICES ASSUME NEW n \in 1..Len(s) - 1 PROVE u[n] = v[n]
            OBVIOUS
        <3>1. CASE n <= k - 1
            <4>1. n + 1 \in 1..k /\ n \in 1..k - 1
                BY <1>0, <3>1
            <4> QED
                BY <1>1, <2>1, <2>2, <2>3, <3>1, <4>1
        <3>2. CASE ~(n <= k - 1)
            <4>1. n - (k - 1) \in 1..Len(q) /\ n - (k - 1) + k = n + 1
                BY <1>0, <3>2
            <4> QED
                BY <1>1, <2>1, <2>3, <3>2, <4>1
        <3> QED
            BY <3>1, <3>2
    <2>5. u = v
        BY <2>1, <2>3, <2>4, SameSeq
    <2>6. p # <<>>
        BY <1>0, <1>6, NotEmpty
    <2> QED
        BY <2>5, <2>6 DEF u, v, w
<1> QED
    BY <1>2, <1>3, <1>4, <1>5, <1>6

\* A frame hands over what it passes, once, and what it then stands on.
LEMMA Samples ==
    ASSUME NEW i \in Interps, NEW newest \in Ticks, Holding(i, newest), NEW at \in Ticks
    PROVE  LET r == Sampled(i, at).interp
               events == Sampled(i, at).events
           IN  /\ r \in Interps /\ Holding(r, newest) /\ Len(r.buffer) <= Len(i.buffer)
               /\ events \in Seq(Ticks) /\ r.orphaned = <<>>
               /\ events \o OwedOf(r, r.buffer) = i.orphaned \o OwedOf(i, i.buffer)
               /\ r.epochs = i.epochs /\ r.anchor = i.anchor /\ r.offset = i.offset
               /\ r.render = i.render /\ r.holding = i.holding /\ r.rendered_at = at
<1> DEFINE b == i.buffer
           k == Cardinality(Passed(i))
           p == SubSeq(b, 1, k)
           q == SubSeq(b, Len(p) + 1, Len(b))
           h == Head(q)
           t == SubSeq(q, 2, Len(q))
           stepped == Marked(i, p)
           m == Marked(stepped, <<h>>)
           events == i.orphaned \o OwedOf(i, p) \o OwedOf(stepped, <<h>>)
           r == [m EXCEPT !.buffer = q, !.orphaned = <<>>, !.rendered_at = at]
<1>0. Sampled(i, at) = [interp |-> r, events |-> events]
    BY DEF Sampled
<1>1. /\ b \in Seq(Ticks) /\ b # <<>> /\ Len(b) \in Nat /\ Len(b) >= 1 /\ b[Len(b)] = newest /\ Ascends(b)
      /\ i.orphaned \in Seq(Ticks) /\ i.released \in Maybe(Ticks)
    <2>1. b \in Seq(Ticks) /\ i.orphaned \in Seq(Ticks) /\ i.released \in Maybe(Ticks) /\ b # <<>> /\ b[Len(b)] = newest /\ Ascends(b)
        BY DEF Interps, Holding
    <2> QED
        BY <2>1
<1>2. k \in 0..Len(b) - 1
    <2>1. Passed(i) \in SUBSET (1..Len(b) - 1)
        BY <1>1 DEF Passed
    <2>2. IsFiniteSet(1..Len(b) - 1) /\ Cardinality(1..Len(b) - 1) = Len(b) - 1
        <3>1. \A l \in Int : l >= 0 => IsFiniteSet(1..l) /\ Cardinality(1..l) = l
            <4>1. \A l \in Int : IsFiniteSet(1..l) /\ Cardinality(1..l) = IF 1 > l THEN 0 ELSE l - 1 + 1
                BY FS_Interval
            <4> QED
                BY <4>1
        <3>2. Len(b) - 1 \in Int /\ Len(b) - 1 >= 0
            BY <1>1
        <3> QED
            BY <3>1, <3>2
    <2>3. IsFiniteSet(Passed(i)) /\ Cardinality(Passed(i)) <= Len(b) - 1
        BY <2>1, <2>2, FS_Subset
    <2>4. Cardinality(Passed(i)) \in Nat
        BY <2>3, FS_CardinalityType
    <2> QED
        BY <1>1, <2>3, <2>4
<1> HIDE DEF k
<1>3. Len(p) = k
    BY <1>1, <1>2, SplitAt DEF IsSplit
<1>4. q = SubSeq(b, k + 1, Len(b))
    BY <1>3
<1>5. /\ p \in Seq(Ticks) /\ Len(p) = k /\ \A n \in 1..k : p[n] = b[n]
      /\ q \in Seq(Ticks) /\ Len(q) = Len(b) - k /\ \A n \in 1..Len(q) : q[n] = b[n + k]
      /\ b = p \o q /\ q # <<>> /\ h = b[k + 1] /\ q[1] = h
      /\ k = 0 => p = <<>> /\ q = b
      /\ k > 0 => p # <<>> /\ SubSeq(b, 2, Len(b)) = SubSeq(p, 2, Len(p)) \o q
      /\ q = <<h>> \o t
    <2>1. IsSplit(b, k, SubSeq(b, 1, k), SubSeq(b, k + 1, Len(b)))
        BY <1>1, <1>2, SplitAt
    <2>2. IsSplit(b, k, p, q)
        BY <2>1, <1>4
    <2> HIDE DEF b, p, q
    <2>3. /\ b = p \o q
          /\ q # <<>> /\ Head(q) = b[k + 1] /\ q[1] = b[k + 1]
          /\ q = <<b[k + 1]>> \o SubSeq(q, 2, Len(q))
          /\ k = 0 => p = <<>> /\ q = b
          /\ k > 0 => p # <<>> /\ SubSeq(b, 2, Len(b)) = SubSeq(p, 2, Len(p)) \o q
        BY <1>1, <1>2, <2>2, SplitJoins
    <2> QED
        BY <2>2, <2>3 DEF IsSplit
<1> HIDE DEF p, q, h, t
<1>6. k + 1 \in DOMAIN b /\ h \in Ticks /\ h \in Int
    <2>1. k + 1 \in 1..Len(b)
        BY <1>1, <1>2
    <2>2. h \in Ticks
        BY <2>1, <1>1, <1>5, NotEmpty
    <2> QED
        BY <2>1, <2>2, <1>1, Limits DEF Ticks
<1>7. \A n \in 2..Len(b) : Owed(i, b[n])
    BY DEF Holding
\* What was passed is owed but for its head, and the mark moves up to it.
<1>8. /\ k > 0 => OwedOf(i, p) = IF Owed(i, b[1]) THEN p ELSE SubSeq(p, 2, Len(p))
      /\ k = 0 => OwedOf(i, p) = <<>>
    <2>1. CASE k = 0
        <3>1. p = <<>> /\ \A n \in DOMAIN p : Owed(i, p[n])
            BY <2>1, <1>5
        <3> QED
            BY <2>1, <3>1, <1>5, AllOwed
    <2>2. CASE k > 0
        <3>0. 1 \in 1..k /\ \A n \in 2..k : n \in 1..k /\ n \in 2..Len(b)
            BY <2>2, <1>1, <1>2
        <3>1. p # <<>> /\ p[1] = b[1] /\ \A n \in 2..Len(p) : Owed(i, p[n])
            BY <2>2, <3>0, <1>5, <1>7
        <3> QED
            BY <2>2, <3>1, <1>5, OwedOfHeld
    <2> QED
        BY <2>1, <2>2, <1>2
<1>9. /\ stepped \in Interps
      /\ stepped = [i EXCEPT !.released = stepped.released]
      /\ stepped.released = i.released \/ (k > 0 /\ stepped.released = b[k])
      /\ OwedOf(i, p) \in Seq(Ticks)
    <2>0. k > 0 => /\ SubSeq(p, 2, Len(p)) \in Seq(Ticks) /\ Len(SubSeq(p, 2, Len(p))) = k - 1
                   /\ k >= 2 => SubSeq(p, 2, Len(p))[k - 1] = p[k]
        <3> SUFFICES ASSUME k > 0
                     PROVE  /\ SubSeq(p, 2, Len(p)) \in Seq(Ticks) /\ Len(SubSeq(p, 2, Len(p))) = k - 1
                            /\ k >= 2 => SubSeq(p, 2, Len(p))[k - 1] = p[k]
            OBVIOUS
        <3>1. /\ SubSeq(p, 2, k) \in Seq(Ticks) /\ Len(SubSeq(p, 2, k)) = k - 2 + 1
              /\ \A n \in 1..k - 2 + 1 : SubSeq(p, 2, k)[n] = p[n + 2 - 1]
            BY <1>1, <1>2, <1>5, SubSeqOf
        <3>2. k - 2 + 1 = k - 1 /\ (k >= 2 => k - 1 \in 1..k - 2 + 1) /\ (k - 1) + 2 - 1 = k
            BY <1>1, <1>2
        <3> QED
            BY <3>1, <3>2, <1>5
    <2>1. OwedOf(i, p) \in Seq(Ticks)
        <3>1. k = 0 \/ k > 0
            BY <1>1, <1>2
        <3> QED
            BY <3>1, <2>0, <1>5, <1>8
    <2>2. OwedOf(i, p) # <<>> => k > 0 /\ Last(OwedOf(i, p)) = b[k]
        <3> SUFFICES ASSUME OwedOf(i, p) # <<>> PROVE k > 0 /\ Last(OwedOf(i, p)) = b[k]
            OBVIOUS
        <3>1. k > 0 /\ k \in 1..k
            BY <1>2, <1>8
        <3>2. CASE Owed(i, b[1])
            BY <3>1, <3>2, <1>3, <1>5, <1>8 DEF Last
        <3>3. CASE ~Owed(i, b[1])
            <4>1. SubSeq(p, 2, Len(p)) # <<>> /\ OwedOf(i, p) = SubSeq(p, 2, Len(p))
                BY <3>1, <3>3, <1>8
            <4>2. k >= 2 /\ Len(SubSeq(p, 2, Len(p))) = k - 1 /\ SubSeq(p, 2, Len(p))[k - 1] = p[k]
                <5>1. Len(SubSeq(p, 2, Len(p))) # 0
                    BY <3>1, <4>1, <2>0, NotEmpty
                <5> QED
                    BY <3>1, <5>1, <2>0, <1>1, <1>2
            <4> QED
                BY <3>1, <4>1, <4>2, <1>5 DEF Last
        <3> QED
            BY <3>2, <3>3
    <2>3. stepped = [i EXCEPT !.released = IF OwedOf(i, p) = <<>> THEN @ ELSE Last(OwedOf(i, p))]
        BY DEF Marked
    <2>4. k > 0 => b[k] \in Ticks
        BY <1>1, <1>2
    <2> HIDE DEF stepped
    <2>5. stepped.released = IF OwedOf(i, p) = <<>> THEN i.released ELSE Last(OwedOf(i, p))
        BY <2>3 DEF Interps
    <2>6. stepped.released \in Maybe(Ticks)
        BY <2>2, <2>4, <2>5, <1>1 DEF Maybe
    <2> QED
        BY <2>1, <2>2, <2>3, <2>5, <2>6 DEF Interps
\* So what it then stands on is owed if it was passed to, and if it was owed.
<1>10. Owed(stepped, h) <=> k > 0 \/ Owed(i, h)
    <2>1. CASE k > 0
        <3>1. k \in DOMAIN b /\ k < k + 1 /\ k + 1 \in 2..Len(b)
            BY <2>1, <1>1, <1>2, <1>6
        <3>2. b[k] < h /\ Owed(i, h)
            BY <3>1, <1>1, <1>5, <1>6, <1>7, Ascending
        <3>3. b[k] \in Int
            <4>1. k \in 1..Len(b)
                BY <2>1, <1>1, <1>2
            <4>2. b[k] \in Ticks
                BY <4>1, <1>1, NotEmpty
            <4> QED
                BY <4>2, Limits DEF Ticks
        <3>4. Owed(stepped, h)
            <4>1. CASE stepped.released = i.released
                BY <4>1, <3>2, OwedAlike
            <4>2. CASE stepped.released = b[k]
                BY <4>2, <3>2 DEF Owed
            <4> QED
                BY <4>1, <4>2, <1>9
        <3> QED
            BY <2>1, <3>4
    <2>2. CASE k = 0
        <3>1. stepped.released = i.released
            BY <2>2, <1>9
        <3> QED
            BY <2>2, <3>1, OwedAlike
    <2> QED
        BY <2>1, <2>2, <1>2
<1> HIDE DEF stepped
<1>11. /\ OwedOf(stepped, <<h>>) = IF Owed(stepped, h) THEN <<h>> ELSE <<>>
       /\ m = [stepped EXCEPT !.released = IF Owed(stepped, h) THEN h ELSE @]
    BY <1>6, <1>9, HeadTaken
<1> HIDE DEF m
<1>12. m = [i EXCEPT !.released = IF Owed(stepped, h) THEN h ELSE stepped.released] /\ m \in Interps
    <2>1. h \in Maybe(Ticks) /\ stepped.released \in Maybe(Ticks)
        BY <1>6, <1>9 DEF Maybe, Interps
    <2> DEFINE rel == IF Owed(stepped, h) THEN h ELSE stepped.released
    <2>2. m = [stepped EXCEPT !.released = rel] /\ rel \in Maybe(Ticks)
        BY <2>1, <1>11
    <2> HIDE DEF rel
    <2>3. m = [i EXCEPT !.released = rel]
        BY <2>2, <1>9 DEF Interps
    <2> QED
        BY <2>2, <2>3 DEF Interps, rel
<1>13. /\ r \in Interps /\ r.buffer = q /\ r.orphaned = <<>> /\ r.rendered_at = at
       /\ r.released = IF Owed(stepped, h) THEN h ELSE stepped.released
       /\ r.epochs = i.epochs /\ r.anchor = i.anchor /\ r.offset = i.offset
       /\ r.render = i.render /\ r.holding = i.holding
    <2>1. <<>> \in Seq(Ticks) /\ at \in Maybe(Ticks)
        BY DEF Maybe
    <2> HIDE DEF q
    <2>2. /\ r \in Interps /\ r.buffer = q /\ r.orphaned = <<>> /\ r.rendered_at = at /\ r.released = m.released
          /\ r.epochs = m.epochs /\ r.anchor = m.anchor /\ r.offset = m.offset
          /\ r.render = m.render /\ r.holding = m.holding
        BY <2>1, <1>5, <1>12 DEF Interps
    <2> HIDE DEF r
    <2>3. /\ m.released = IF Owed(stepped, h) THEN h ELSE stepped.released
          /\ m.epochs = i.epochs /\ m.anchor = i.anchor /\ m.offset = i.offset
          /\ m.render = i.render /\ m.holding = i.holding
        BY <1>12 DEF Interps
    <2> QED
        BY <2>2, <2>3
<1> HIDE DEF r
\* All that is held behind it is owed still, and it is not.
<1>14. \A n \in 2..Len(q) : Owed(r, q[n]) /\ q[n - 1] < q[n]
    <2> SUFFICES ASSUME NEW n \in 2..Len(q) PROVE Owed(r, q[n]) /\ q[n - 1] < q[n]
        OBVIOUS
    <2>1. /\ n \in 1..Len(q) /\ n - 1 \in 1..Len(q) /\ n + k \in 2..Len(b) /\ (n - 1) + k = (n + k) - 1
          /\ n + k \in DOMAIN b /\ k + 1 < n + k
        BY <1>1, <1>2, <1>5
    <2>2. q[n] = b[n + k] /\ q[n - 1] = b[(n + k) - 1]
        BY <1>5, <2>1
    <2>3. q[n - 1] < q[n] /\ Owed(i, q[n])
        BY <1>1, <1>7, <2>1, <2>2 DEF Ascends
    <2>4. h < q[n]
        BY <1>1, <1>5, <1>6, <2>1, <2>2, Ascending
    <2>5. q[n] \in Int
        <3>1. q[n] \in Ticks
            BY <1>5, <2>1, NotEmpty
        <3> QED
            BY <3>1, Limits DEF Ticks
    <2>6. Owed(r, q[n])
        <3>1. CASE Owed(stepped, h)
            BY <1>13, <2>4, <3>1 DEF Owed
        <3>2. CASE ~Owed(stepped, h)
            <4>1. r.released = i.released
                BY <1>2, <1>9, <1>10, <1>13, <3>2
            <4> QED
                BY <2>3, <4>1, OwedAlike
        <3> QED
            BY <3>1, <3>2
    <2> QED
        BY <2>3, <2>6
<1>15. ~Owed(r, h)
    <2>1. CASE Owed(stepped, h)
        BY <1>6, <1>13, <2>1, Limits DEF Owed
    <2>2. CASE ~Owed(stepped, h)
        BY <1>13, <2>2, OwedAlike
    <2> QED
        BY <2>1, <2>2
<1>16. Holding(r, newest)
    <2>1. Len(b) - k \in 1..Len(q) /\ Len(b) - k = Len(q) /\ Len(q) + k = Len(b)
        BY <1>1, <1>2, <1>5
    <2>2. q[Len(q)] = newest
        BY <1>1, <1>5, <2>1
    <2>3. h <= newest
        <3>1. k + 1 = Len(b) \/ h < b[Len(b)]
            <4>1. Len(b) \in DOMAIN b /\ (k + 1 = Len(b) \/ k + 1 < Len(b))
                BY <1>1, <1>2
            <4> QED
                BY <4>1, <1>1, <1>5, <1>6, Ascending
        <3>2. newest \in Int
            BY Limits DEF Ticks
        <3>3. h = b[k + 1] /\ b[Len(b)] = newest
            BY <1>1, <1>5
        <3> QED
            BY <3>1, <3>2, <3>3, <1>6
    <2>4. r.released # None => r.released <= newest
        <3>1. CASE Owed(stepped, h)
            BY <1>13, <2>3, <3>1
        <3>2. CASE ~Owed(stepped, h)
            <4>1. r.released = i.released
                BY <1>2, <1>9, <1>10, <1>13, <3>2
            <4> QED
                BY <4>1 DEF Holding
        <3> QED
            BY <3>1, <3>2
    <2> QED
        BY <1>5, <1>13, <1>14, <2>2, <2>4 DEF Holding, Ascends
<1>17. OwedOf(r, q) = t /\ t \in Seq(Ticks)
    <2>1. OwedOf(r, q) = SubSeq(q, 2, Len(q))
        BY <1>5, <1>14, <1>15, OwedOfHeld
    <2>2. SubSeq(q, 2, Len(q)) \in Seq(Ticks)
        BY <1>5
    <2> QED
        BY <2>1, <2>2 DEF t
\* Together they are what was owed.
<1>18. OwedOf(i, b) = (OwedOf(i, p) \o OwedOf(stepped, <<h>>)) \o t
    <2>1. OwedOf(i, b) = IF Owed(i, b[1]) THEN b ELSE SubSeq(b, 2, Len(b))
        BY <1>1, <1>7, OwedOfHeld
    <2>2. CASE k > 0
        <3>1. OwedOf(stepped, <<h>>) \o t = q /\ OwedOf(stepped, <<h>>) \in Seq(Ticks)
            <4>1. <<h>> \in Seq(Ticks)
                BY <1>6
            <4> QED
                BY <2>2, <4>1, <1>5, <1>10, <1>11
        <3>2. OwedOf(i, p) \o q = OwedOf(i, b)
            BY <2>1, <2>2, <1>5, <1>8
        <3> QED
            BY <3>1, <3>2, <1>9, <1>17, Joined
    <2>3. CASE k = 0
        <3>1. OwedOf(i, p) = <<>> /\ q = b /\ b[1] = h
            BY <2>3, <1>5, <1>8
        <3>2. OwedOf(stepped, <<h>>) = IF Owed(i, b[1]) THEN <<h>> ELSE <<>>
            BY <2>3, <3>1, <1>2, <1>10, <1>11
        <3>3. <<h>> \in Seq(Ticks) /\ <<>> \o <<h>> = <<h>> /\ <<>> \o <<>> = <<>>
            BY <1>6
        <3>4. SubSeq(b, 2, Len(b)) = t /\ <<>> \o t = t /\ b = <<h>> \o t
            <4>1. SubSeq(b, 2, Len(b)) = t
                BY <3>1 DEF t
            <4>2. <<>> \o t = t
                BY <1>17
            <4>3. b = <<h>> \o t
                BY <3>1, <1>5
            <4> QED
                BY <4>1, <4>2, <4>3
        <3> QED
            BY <2>1, <3>1, <3>2, <3>3, <3>4
    <2>4. k > 0 \/ k = 0
        BY <1>1, <1>2
    <2> QED
        BY <2>2, <2>3, <2>4
<1>19. events \in Seq(Ticks) /\ events \o OwedOf(r, r.buffer) = i.orphaned \o OwedOf(i, b)
    <2> DEFINE x == OwedOf(i, p)
               y == OwedOf(stepped, <<h>>)
    <2>1. x \in Seq(Ticks) /\ y \in Seq(Ticks) /\ i.orphaned \in Seq(Ticks) /\ t \in Seq(Ticks)
        <3>1. <<h>> \in Seq(Ticks) /\ <<>> \in Seq(Ticks)
            BY <1>6
        <3> QED
            BY <3>1, <1>1, <1>9, <1>11, <1>17
    <2> HIDE DEF x, y
    <2>2. /\ i.orphaned \o x \in Seq(Ticks) /\ x \o y \in Seq(Ticks) /\ (i.orphaned \o x) \o y \in Seq(Ticks)
          /\ ((i.orphaned \o x) \o y) = i.orphaned \o (x \o y)
          /\ (i.orphaned \o (x \o y)) \o t = i.orphaned \o ((x \o y) \o t)
        <3>1. i.orphaned \o x \in Seq(Ticks) /\ x \o y \in Seq(Ticks)
            BY <2>1, ConcatOf
        <3>2. (i.orphaned \o x) \o y \in Seq(Ticks)
            BY <2>1, <3>1, ConcatOf
        <3> QED
            <4>1. (i.orphaned \o x) \o y = i.orphaned \o (x \o y)
                BY <2>1, Joined
            <4>2. (i.orphaned \o (x \o y)) \o t = i.orphaned \o ((x \o y) \o t)
                BY <2>1, <3>1, Joined
            <4> QED
                BY <3>1, <3>2, <4>1, <4>2
    <2>3. events = (i.orphaned \o x) \o y
        BY DEF x, y
    <2>4. OwedOf(i, b) = (x \o y) \o t
        BY <1>18 DEF x, y
    <2>5. OwedOf(r, r.buffer) = t
        BY <1>13, <1>17
    <2> HIDE DEF events
    <2> QED
        BY <2>2, <2>3, <2>4, <2>5
<1>20. Len(r.buffer) <= Len(b)
    BY <1>1, <1>2, <1>5, <1>13
<1>21. Sampled(i, at).interp = r /\ Sampled(i, at).events = events
    BY <1>0
<1> HIDE DEF events, b
<1> QED
    BY <1>13, <1>16, <1>19, <1>20, <1>21 DEF b

----------------------------------------------------------------------------
(***************************************************************************)
(* What is read, and where the picture comes to stand.                     *)
(***************************************************************************)

LEMMA Restarts ==
    ASSUME interp \in Interps, NEW tick \in Ticks, NEW stamp \in Ticks, NEW at \in Ticks,
           NEW r \in Restarted(tick, stamp, at)
    PROVE  /\ r \in Interps /\ r.buffer = <<tick>> /\ r.released = tick /\ r.orphaned = <<>>
           /\ r.epochs \in Seq(Int) /\ Len(r.epochs) = 1 /\ r.epochs[1] = stamp - tick /\ r.anchor = stamp - tick
           /\ r.offset \in Int /\ r.render = None /\ r.rendered_at = None
<1> DEFINE empty == [interp EXCEPT !.buffer = <<tick>>, !.orphaned = <<>>, !.released = tick,
                                   !.epochs = <<>>, !.anchor = None]
           anchored == Anchored(empty, stamp - tick)
           elsewhere == interp.offset # None
                        /\ Larger(stamp - at - interp.offset, interp.offset - (stamp - at)) > ClockSnap
           x == IF elsewhere THEN [anchored EXCEPT !.offset = None] ELSE anchored
<1>0. tick \in Int /\ stamp \in Int /\ at \in Int /\ tick \in Maybe(Ticks) /\ <<tick>> \in Seq(Ticks)
    BY Limits DEF Ticks, Maybe
<1>1. PICK i \in Observed(x, stamp, at) : r = FreshPicture(i)
    BY DEF Restarted
<1>2. /\ empty \in Interps /\ empty.anchor = None /\ empty.epochs = <<>>
      /\ empty.buffer = <<tick>> /\ empty.released = tick /\ empty.orphaned = <<>>
    <2>1. <<>> \in Seq(Ticks) /\ <<>> \in Seq(Int) /\ None \in Maybe(Int)
        BY DEF Maybe
    <2> DEFINE one == <<tick>>
    <2>2. one \in Seq(Ticks)
        BY <1>0
    <2> HIDE DEF one
    <2>3. [interp EXCEPT !.buffer = one, !.orphaned = <<>>, !.released = tick, !.epochs = <<>>, !.anchor = None]
              \in Interps
        BY <1>0, <2>1, <2>2 DEF Interps
    <2>4. empty \in Interps
        BY <2>3 DEF one
    <2> QED
        BY <2>4 DEF Interps
<1> HIDE DEF empty
<1>3. /\ Reread(empty, anchored)
      /\ Windowed(<<>>, None, stamp - tick, anchored.epochs, anchored.anchor)
    <2>1. Len(empty.epochs) <= AnchorSnapshots /\ (empty.anchor = None <=> empty.epochs = <<>>) /\ stamp - tick \in Int
        BY <1>0, <1>2, Limits
    <2>2. /\ Reread(empty, anchored)
          /\ Windowed(empty.epochs, empty.anchor, stamp - tick, anchored.epochs, anchored.anchor)
        BY <1>2, <2>1, AnchoredWindow
    <2> QED
        BY <1>2, <2>2
<1> HIDE DEF anchored
<1>4. /\ anchored.epochs \in Seq(Int) /\ Len(anchored.epochs) = 1
      /\ anchored.epochs[1] = stamp - tick /\ anchored.anchor = stamp - tick
    BY <1>0, <1>3 DEF Windowed, IsLeast
<1>5. Reread(empty, x) /\ x.epochs = anchored.epochs /\ x.anchor = anchored.anchor
    BY <1>3 DEF Reread, Interps, Maybe
<1> HIDE DEF x
<1>6. Reread(x, i) /\ i.epochs = x.epochs /\ i.anchor = x.anchor /\ i.offset \in Int
    BY <1>0, <1>1, <1>5, ObservedReads DEF Reread
<1>7. /\ i \in Interps /\ i.buffer = <<tick>> /\ i.released = tick /\ i.orphaned = <<>>
      /\ i.epochs = anchored.epochs /\ i.anchor = stamp - tick
    BY <1>2, <1>4, <1>5, <1>6 DEF Reread
<1>8. r = [i EXCEPT !.render = None, !.rendered_at = None, !.holding = FALSE]
    BY <1>1 DEF FreshPicture
<1> QED
    BY <1>4, <1>6, <1>7, <1>8 DEF Interps, Maybe

\* Nothing held yet, or all of it read before tick.
Before(i, tick) ==
    \/ i = NewInterp
    \/ /\ i.anchor # None /\ i.epochs # <<>>
       /\ \E newest \in Ticks : Holding(i, newest) /\ newest < tick

LEMMA Accepts ==
    ASSUME interp \in Interps, Len(interp.buffer) <= BufferedSnapshots, Len(interp.epochs) <= AnchorSnapshots,
           NEW tick \in Ticks, NEW stamp \in Ticks, NEW at \in Ticks,
           Before(interp, tick), NEW r \in Accepted(tick, stamp, at)
    PROVE  /\ r \in Interps /\ Holding(r, tick) /\ Len(r.buffer) <= BufferedSnapshots
           /\ r.orphaned \o OwedOf(r, r.buffer) = interp.orphaned \o (OwedOf(interp, interp.buffer) \o <<tick>>)
           /\ Windowed(interp.epochs, interp.anchor, stamp - tick, r.epochs, r.anchor)
           /\ r.offset \in Int /\ r.render = interp.render /\ r.rendered_at = interp.rendered_at
<1> DEFINE newest == IF interp.buffer = <<>> THEN None ELSE Last(interp.buffer)
           epoch == stamp - tick
<1>0. /\ tick \in Int /\ stamp \in Int /\ at \in Int /\ epoch \in Int
      /\ tick # None /\ interp.buffer \in Seq(Ticks) /\ interp.orphaned \in Seq(Ticks)
    BY Limits DEF Ticks, Interps
<1>1. interp.buffer = <<>> <=> interp = NewInterp
    BY DEF Before, Holding, NewInterp
<1>2. /\ tick # newest /\ ~(newest # None /\ tick < newest)
      /\ interp.anchor = None <=> interp.epochs = <<>>
    <2>1. CASE interp = NewInterp
        BY <1>0, <1>1, <2>1 DEF NewInterp
    <2>2. CASE interp # NewInterp
        <3>1. PICK n \in Ticks : Holding(interp, n) /\ n < tick
            BY <2>2 DEF Before
        <3>2. newest = n /\ n \in Int
            BY <1>1, <2>2, <3>1, Limits DEF Holding, Last, Ticks
        <3> QED
            BY <1>0, <2>2, <3>1, <3>2 DEF Before
    <2> QED
        BY <2>1, <2>2
<1>3. PICK i \in Observed(Anchored(interp, epoch), stamp, at) :
          r = Overflow([i EXCEPT !.buffer = Append(@, tick)])
    BY <1>2 DEF Accepted
<1>4. /\ Reread(interp, Anchored(interp, epoch))
      /\ Windowed(interp.epochs, interp.anchor, epoch, Anchored(interp, epoch).epochs, Anchored(interp, epoch).anchor)
    BY <1>0, <1>2, AnchoredWindow
<1>5. /\ Reread(Anchored(interp, epoch), i) /\ i.offset \in Int
      /\ i.epochs = Anchored(interp, epoch).epochs /\ i.anchor = Anchored(interp, epoch).anchor
    BY <1>0, <1>4, ObservedReads DEF Reread
<1>6. Reread(interp, i) /\ Windowed(interp.epochs, interp.anchor, epoch, i.epochs, i.anchor)
    BY <1>4, <1>5 DEF Reread
<1> DEFINE j == [i EXCEPT !.buffer = Append(@, tick)]
<1>7. /\ j \in Interps /\ j.buffer = Append(interp.buffer, tick) /\ j.released = interp.released
      /\ j.orphaned = interp.orphaned /\ j.epochs = i.epochs /\ j.anchor = i.anchor /\ j.offset = i.offset
      /\ j.render = interp.render /\ j.rendered_at = interp.rendered_at
    <2>1. Append(interp.buffer, tick) \in Seq(Ticks)
        BY <1>0
    <2> QED
        BY <1>6, <2>1 DEF Reread, Interps
<1>8. r = Overflow(j)
    BY <1>3
<1> HIDE DEF j
<1>9. Holding(j, tick) /\ OwedOf(j, j.buffer) = OwedOf(interp, interp.buffer) \o <<tick>>
    <2>1. CASE interp = NewInterp
        <3>1. interp.buffer = <<>> /\ j.buffer = <<tick>> /\ j.released = None
            BY <1>7, <2>1 DEF NewInterp
        <3>2. /\ <<tick>> \in Seq(Ticks) /\ Len(<<tick>>) = 1 /\ <<tick>>[1] = tick /\ <<tick>> # <<>>
              /\ <<>> \o <<tick>> = <<tick>>
            OBVIOUS
        <3>3. \A n \in DOMAIN <<tick>> : Owed(j, <<tick>>[n])
            BY <3>1 DEF Owed
        <3>4. OwedOf(j, <<tick>>) = <<tick>>
            BY <3>2, <3>3, AllOwed
        <3>5. <<>> \in Seq(Ticks) /\ \A n \in DOMAIN <<>> : Owed(interp, <<>>[n])
            OBVIOUS
        <3>6. OwedOf(interp, <<>>) = <<>>
            BY <3>5, AllOwed
        <3>7. Holding(j, tick)
            BY <3>1, <3>2 DEF Holding, Ascends
        <3> QED
            BY <3>1, <3>2, <3>4, <3>6, <3>7
    <2>2. CASE interp # NewInterp
        <3>1. PICK n \in Ticks : Holding(interp, n) /\ n < tick
            BY <2>2 DEF Before
        <3> QED
            BY <3>1, <1>7, Appended
    <2> QED
        BY <2>1, <2>2
<1>10. Len(j.buffer) <= BufferedSnapshots + 1
    <2>1. Len(Append(interp.buffer, tick)) = Len(interp.buffer) + 1 /\ Len(interp.buffer) \in Nat
        BY <1>0
    <2> QED
        BY <2>1, <1>7, Limits
<1>11. /\ r \in Interps /\ Holding(r, tick) /\ Len(r.buffer) <= BufferedSnapshots
       /\ r.orphaned \o OwedOf(r, r.buffer) = j.orphaned \o OwedOf(j, j.buffer)
       /\ r.epochs = j.epochs /\ r.anchor = j.anchor /\ r.offset = j.offset
       /\ r.render = j.render /\ r.rendered_at = j.rendered_at
    BY <1>7, <1>8, <1>9, <1>10, Overflows
<1> QED
    BY <1>5, <1>6, <1>7, <1>9, <1>11

\* A product grows with a factor.
LEMMA Scales ==
    ASSUME NEW k \in Nat, NEW x \in Int, NEW y \in Int, x <= y
    PROVE  k * x <= k * y /\ k * x \in Int /\ k * y \in Int
<1>1. y - x \in Nat
    OBVIOUS
<1>2. k * (y - x) \in Nat
    BY <1>1
<1>3. k * (y - x) = k * y - k * x
    OBVIOUS
<1> QED
    BY <1>2, <1>3

LEMMA UpToLarger ==
    ASSUME NEW x \in Int, NEW a \in Int, NEW b \in Int, x <= a \/ x <= b
    PROVE  x <= Larger(a, b)
BY DEF Larger

\* What closing c of an error err, both ahead, leaves of it.
LEMMA Closes ==
    ASSUME NEW elapsed \in Nat, NEW err \in Nat, NEW c \in Nat, err <= RenderSnap,
           c * RateTime <= elapsed * err, c * RateFar <= elapsed
    PROVE  /\ RateFar * Size(c - err) <= Larger(RateFar * RenderSnap, elapsed)
           /\ elapsed <= RateTime => c <= err
<1>0. RenderSnap \in Nat /\ RateFar \in Nat /\ RateTime \in Nat /\ RateTime > 0
    BY Limits
<1>1. CASE c <= err
    <2>1. Size(c - err) = err - c /\ err - c <= RenderSnap
        BY <1>0, <1>1 DEF Size
    <2>2. RateFar * Size(c - err) <= RateFar * RenderSnap
              /\ RateFar * Size(c - err) \in Int /\ RateFar * RenderSnap \in Int
        BY <1>0, <2>1, Scales
    <2>3. RateFar * Size(c - err) <= Larger(RateFar * RenderSnap, elapsed)
        BY <2>2, UpToLarger
    <2> QED
        BY <1>1, <2>3
<1>2. CASE c > err
    <2>1. Size(c - err) = c - err /\ c - err <= c
        BY <1>2 DEF Size
    <2>2. RateFar * Size(c - err) <= RateFar * c /\ RateFar * Size(c - err) \in Int /\ RateFar * c \in Int
        BY <1>0, <2>1, Scales
    <2>3. RateFar * c <= elapsed
        BY <1>0
    <2>4. RateFar * Size(c - err) <= elapsed /\ RateFar * RenderSnap \in Int
        BY <1>0, <2>2, <2>3
    <2>5. elapsed > RateTime
        <3>1. SUFFICES ASSUME elapsed <= RateTime PROVE FALSE
            BY <1>0
        <3>2. err * elapsed <= err * RateTime
            BY <1>0, <3>1, Scales
        <3>3. RateTime * (err + 1) <= RateTime * c /\ RateTime * c \in Int
            BY <1>0, <1>2, Scales
        <3>4. RateTime * (err + 1) = err * RateTime + RateTime /\ RateTime * c = c * RateTime
                  /\ elapsed * err = err * elapsed
            BY <1>0
        <3>5. err * RateTime \in Int /\ err * elapsed \in Int
            BY <1>0
        <3> QED
            BY <1>0, <3>2, <3>3, <3>4, <3>5
    <2>6. RateFar * Size(c - err) <= Larger(RateFar * RenderSnap, elapsed)
        BY <2>2, <2>4, UpToLarger
    <2>7. ~(elapsed <= RateTime)
        BY <1>0, <2>5
    <2> QED
        BY <2>6, <2>7
<1> QED
    BY <1>1, <1>2

\* What steering by b leaves of an error, whichever way it is.
LEMMA Steers ==
    ASSUME NEW elapsed \in Nat, NEW err \in Int, NEW b \in Int, -RenderSnap <= err, err <= RenderSnap,
           b * err >= 0, Size(b) * RateTime <= elapsed * Size(err), Size(b) * RateFar <= elapsed
    PROVE  /\ RateFar * Size(b - err) <= Larger(RateFar * RenderSnap, elapsed)
           /\ elapsed <= RateTime => b - err \in Smaller(0, -err)..Larger(0, -err)
<1>0. RenderSnap \in Nat /\ RateFar \in Nat /\ RateTime \in Nat /\ RateTime > 0
    BY Limits
<1>1. err = 0 => b = 0
    <2>1. SUFFICES ASSUME err = 0 PROVE b = 0
        OBVIOUS
    <2>2. Size(b) \in Nat /\ Size(err) = 0
        BY <2>1 DEF Size
    <2>3. Size(b) * RateTime <= 0
        BY <2>2
    <2>4. Size(b) = 0
        BY <1>0, <2>2, <2>3
    <2> QED
        BY <2>4 DEF Size
<1>2. CASE err >= 0
    <2>1. b >= 0
        BY <1>1, <1>2
    <2>2. Size(b) = b /\ Size(err) = err /\ b \in Nat /\ err \in Nat
        BY <1>2, <2>1 DEF Size
    <2>3. /\ RateFar * Size(b - err) <= Larger(RateFar * RenderSnap, elapsed)
          /\ elapsed <= RateTime => b <= err
        BY <2>2, Closes
    <2> QED
        BY <1>2, <2>1, <2>3 DEF Smaller, Larger
<1>3. CASE err < 0
    <2>1. b <= 0
        BY <1>3
    <2>2. Size(b) = -b /\ Size(err) = -err /\ -b \in Nat /\ -err \in Nat
        BY <1>3, <2>1 DEF Size
    <2>3. /\ RateFar * Size((-b) - (-err)) <= Larger(RateFar * RenderSnap, elapsed)
          /\ elapsed <= RateTime => -b <= -err
        <3> DEFINE c == -b
                   d == -err
        <3>1. c \in Nat /\ d \in Nat /\ d <= RenderSnap
            BY <1>0, <2>2
        <3>2. c * RateTime <= elapsed * d /\ c * RateFar <= elapsed
            BY <2>2
        <3> HIDE DEF c, d
        <3>3. /\ RateFar * Size(c - d) <= Larger(RateFar * RenderSnap, elapsed)
              /\ elapsed <= RateTime => c <= d
            BY <3>1, <3>2, Closes
        <3> QED
            BY <3>3 DEF c, d
    <2>4. Size((-b) - (-err)) = Size(b - err)
        BY DEF Size
    <2> QED
        BY <1>3, <2>1, <2>3, <2>4 DEF Smaller, Larger
<1> QED
    BY <1>2, <1>3

\* Where a frame may leave the picture: not behind where it was, and at its
\* target, near it, or waiting for it.
LEMMA Advances ==
    ASSUME NEW i \in Interps, NEW target \in Int, NEW elapsed \in Nat, NEW r \in Advanced(i, target, elapsed)
    PROVE  /\ r \in Interps /\ r.render \in Int
           /\ r.buffer = i.buffer /\ r.released = i.released /\ r.orphaned = i.orphaned
           /\ r.epochs = i.epochs /\ r.anchor = i.anchor /\ r.offset = i.offset
           /\ i.render # None => r.render >= i.render
           /\ Near(i, target, elapsed, r)
<1> DEFINE err == target - (i.render + elapsed)
<1>0. i.render \in Maybe(Int) /\ i.holding \in BOOLEAN /\ RenderSnap \in Nat /\ RateFar \in Nat
    BY Limits DEF Interps
<1>1. ASSUME r = [i EXCEPT !.render = target, !.holding = FALSE], i.render # None => target >= i.render
      PROVE  /\ r \in Interps /\ r.render \in Int
             /\ r.buffer = i.buffer /\ r.released = i.released /\ r.orphaned = i.orphaned
             /\ r.epochs = i.epochs /\ r.anchor = i.anchor /\ r.offset = i.offset
             /\ i.render # None => r.render >= i.render
             /\ Near(i, target, elapsed, r)
    <2>1. /\ r \in Interps /\ r.render = target /\ r.holding = FALSE
          /\ r.buffer = i.buffer /\ r.released = i.released /\ r.orphaned = i.orphaned
          /\ r.epochs = i.epochs /\ r.anchor = i.anchor /\ r.offset = i.offset
        BY <1>1 DEF Interps, Maybe
    <2>2. r.render - target = 0 /\ Size(0) = 0 /\ RateFar * 0 = 0 /\ RateFar * RenderSnap \in Int
        BY <1>0, <2>1 DEF Size
    <2>3. 0 <= Larger(RateFar * RenderSnap, elapsed)
        BY <2>2 DEF Larger
    <2>4. i.render # None => 0 \in Smaller(0, -err)..Larger(0, -err)
        <3>1. i.render # None => err \in Int
            BY <1>0 DEF Maybe
        <3> HIDE DEF err
        <3> QED
            BY <3>1 DEF Smaller, Larger
    <2>5. Near(i, target, elapsed, r)
        BY <2>1, <2>2, <2>3, <2>4 DEF Near
    <2> QED
        BY <1>0, <1>1, <2>1, <2>5
<1>2. CASE i.render = None
    <2>1. r = [i EXCEPT !.render = target, !.holding = FALSE]
        BY <1>2 DEF Advanced
    <2> QED
        BY <1>1, <1>2, <2>1
<1>3. CASE i.render # None
    <2>0. i.render \in Int /\ err \in Int
        BY <1>0, <1>3 DEF Maybe
    <2>1. CASE Holds(i, target, err)
        <3>1. r = [i EXCEPT !.holding = TRUE]
            BY <1>3, <2>1 DEF Advanced
        <3>2. /\ r \in Interps /\ r.render = i.render /\ r.holding = TRUE
              /\ r.buffer = i.buffer /\ r.released = i.released /\ r.orphaned = i.orphaned
              /\ r.epochs = i.epochs /\ r.anchor = i.anchor /\ r.offset = i.offset
            BY <3>1 DEF Interps
        <3>3. r.render - target > 0
            BY <2>0, <2>1, <3>2 DEF Holds
        <3>4. Near(i, target, elapsed, r)
            BY <3>2, <3>3 DEF Near
        <3> QED
            BY <2>0, <3>2, <3>4
    <2>2. CASE ~Holds(i, target, err) /\ Jumps(i, target, err)
        <3>1. r = [i EXCEPT !.render = target, !.holding = FALSE]
            BY <1>3, <2>2 DEF Advanced
        <3>2. target >= i.render
            BY <1>0, <2>0, <2>2 DEF Jumps
        <3> QED
            BY <1>1, <3>1, <3>2
    <2>3. CASE ~Holds(i, target, err) /\ ~Jumps(i, target, err)
        <3>1. PICK render \in Steered(i.render, elapsed, err) : r = [i EXCEPT !.render = render]
            BY <1>3, <2>3 DEF Advanced
        <3>2. PICK b \in -elapsed..elapsed :
                  /\ render = i.render + elapsed + b
                  /\ b * err >= 0 /\ Size(b) * RateTime <= elapsed * Size(err) /\ Size(b) * RateFar <= elapsed
            BY <3>1 DEF Steered, RateFor
        <3>3. i.holding = FALSE /\ ~(err < -RenderSnap) /\ ~(err > RenderSnap)
            BY <1>0, <2>0, <2>3 DEF Holds, Jumps
        <3>4. render \in Int /\ render >= i.render /\ render - target = b - err
            BY <1>0, <2>0, <3>2
        <3>5. /\ r \in Interps /\ r.render = render /\ r.holding = i.holding
              /\ r.buffer = i.buffer /\ r.released = i.released /\ r.orphaned = i.orphaned
              /\ r.epochs = i.epochs /\ r.anchor = i.anchor /\ r.offset = i.offset
            BY <3>1, <3>4 DEF Interps, Maybe
        <3>6. /\ RateFar * Size(b - err) <= Larger(RateFar * RenderSnap, elapsed)
              /\ elapsed <= RateTime => b - err \in Smaller(0, -err)..Larger(0, -err)
            <4>1. b \in Int /\ -RenderSnap <= err /\ err <= RenderSnap
                BY <1>0, <2>0, <3>3
            <4> HIDE DEF err
            <4> QED
                BY <2>0, <3>2, <4>1, Steers
        <3>7. Near(i, target, elapsed, r)
            BY <3>3, <3>4, <3>5, <3>6 DEF Near
        <3> QED
            BY <3>4, <3>5, <3>7
    <2> QED
        BY <2>1, <2>2, <2>3
<1> QED
    BY <1>2, <1>3

----------------------------------------------------------------------------
(***************************************************************************)
(* The steps.                                                              *)
(***************************************************************************)

LEMMA PlayoutInvInit == MCInit => PlayoutInv
<1> SUFFICES ASSUME MCInit PROVE PlayoutInv
    OBVIOUS
<1>1. /\ now = 0 /\ room = [tick |-> 0, due |-> 1, stalled |-> 0] /\ link = <<>>
      /\ interp = NewInterp /\ heard = <<>>
      /\ taken = <<>> /\ base = None /\ streak = 0 /\ last = [tick |-> 0, late |-> 0] /\ plain = TRUE
    BY DEF MCInit, PlayoutInit
<1>2. 0 \in Ticks /\ <<>> \in Seq(Ticks) /\ <<>> \in Seq(Int) /\ <<>> \in Seq(Message) /\ None \in Maybe(Int) /\ None \in Maybe(Ticks)
    BY Limits DEF Ticks, Maybe
<1>3. interp \in Interps /\ interp.buffer = <<>> /\ interp.epochs = <<>> /\ interp.rendered_at = None
    BY <1>1, <1>2 DEF Interps, NewInterp
<1>4. Typed
    <2>1. Len(interp.buffer) <= BufferedSnapshots /\ Len(interp.epochs) <= AnchorSnapshots
        BY <1>3, Limits
    <2>2. room \in [tick : Ticks, due : 1..(Horizon + 1), stalled : Nat]
        BY <1>1, <1>2, Limits
    <2> QED
        BY <1>1, <1>2, <1>3, <2>1, <2>2 DEF Typed
<1>5. Timely
    BY <1>1, <1>3 DEF Timely
<1>6. Sending /\ Standing /\ Anchoring
    BY <1>1 DEF Sending, Standing, Anchoring
<1> QED
    BY <1>4, <1>5, <1>6 DEF PlayoutInv

\* What a message is late by is what its epoch is above its schedule.
LEMMA Epochs ==
    ASSUME NEW m \in Message
    PROVE  /\ m.tick \in Int /\ m.stamp \in Int /\ m.base \in Int
           /\ m.stamp - m.tick = m.base + Lateness(m)
BY Limits DEF Message, Ticks, Lateness

\* The window, as a snapshot is read.
LEMMA WindowKept ==
    ASSUME PlayoutInv, NEW m \in Message, m.kind = "Snapshot", Fit(m), Note(m),
           base # None => After(last.tick, base, m),
           Windowed(interp.epochs, interp.anchor, m.stamp - m.tick, interp'.epochs, interp'.anchor),
           last' = [tick |-> m.tick, late |-> Lateness(m)]
    PROVE  Anchoring'
<1> DEFINE old == interp.epochs
           new == interp'.epochs
           late == Lateness(m)
           e == m.base + late
<1>0. /\ base' = m.base /\ m.base \in Int /\ late \in Int /\ late >= 0 /\ late <= CatchUpTicks
      /\ last'.late = late /\ CatchUpTicks \in Nat /\ streak \in Nat /\ last.late \in Int
      /\ base # None => base \in Int
      /\ m.stamp - m.tick = e /\ e \in Int
    <2>1. m.base \in Int /\ m.stamp - m.tick = e
        BY Epochs
    <2>2. late \in Int /\ late >= 0 /\ late <= CatchUpTicks /\ CatchUpTicks \in Nat
        BY Limits DEF Fit
    <2>3. streak \in Nat /\ last.late \in Int /\ (base # None => base \in Int)
        BY DEF PlayoutInv, Typed, Maybe
    <2>4. base' = m.base /\ last'.late = late
        BY DEF Note
    <2> QED
        BY <2>1, <2>2, <2>3, <2>4
<1>1. streak' = IF late # 0 THEN 0 ELSE IF m.base = base THEN streak + 1 ELSE 1
    BY DEF Note
<1>2. plain' => /\ plain /\ m.tick = last.tick + 1
                /\ m.base # base \/ last.late = 0 \/ late = last.late - 1
    BY DEF Note
<1>3. /\ new \in Seq(Int) /\ Len(new) \in Nat /\ Len(new) >= 1 /\ Len(new) <= AnchorSnapshots /\ Len(new) <= Len(old) + 1
      /\ interp'.anchor \in Int /\ IsLeast(interp'.anchor, new)
      /\ new[Len(new)] = e
      /\ \A n \in 1..Len(new) - 1 : new[n] = old[n + Len(old) + 1 - Len(new)]
    <2>1. /\ new \in Seq(Int) /\ Len(new) \in 1..AnchorSnapshots /\ Len(new) <= Len(old) + 1
          /\ interp'.anchor \in Int /\ IsLeast(interp'.anchor, new)
          /\ new[Len(new)] = e
          /\ \A n \in 1..Len(new) - 1 : new[n] = old[n + Len(old) + 1 - Len(new)]
        BY <1>0 DEF Windowed
    <2>2. AnchorSnapshots \in Nat /\ AnchorSnapshots >= 1
        BY Limits
    <2> HIDE DEF old, new, late, e
    <2>3. Len(new) \in Nat /\ Len(new) >= 1 /\ Len(new) <= AnchorSnapshots
        BY <2>1, <2>2
    <2> QED
        BY <2>1, <2>3
<1>4. /\ old \in Seq(Int) /\ Len(old) \in Nat /\ Len(old) <= AnchorSnapshots /\ DOMAIN old = 1..Len(old)
      /\ interp.anchor # None => interp.anchor \in Int
      /\ AnchorSnapshots = CatchUpTicks + 2
    <2>1. interp \in Interps /\ Len(old) <= AnchorSnapshots
        BY DEF PlayoutInv, Typed
    <2> QED
        BY <2>1, Limits DEF Interps, Maybe
<1>5. base # None =>
        /\ old # <<>> /\ Len(old) >= 1 /\ interp.anchor \in Int /\ IsLeast(interp.anchor, old)
        /\ old[Len(old)] = base + last.late /\ last.late >= 0
        /\ \A n \in DOMAIN old : n > Len(old) - streak => old[n] = base
        /\ plain => Recent
    <2> SUFFICES ASSUME base # None
                 PROVE  /\ old # <<>> /\ Len(old) >= 1 /\ interp.anchor \in Int /\ IsLeast(interp.anchor, old)
                        /\ old[Len(old)] = base + last.late /\ last.late >= 0
                        /\ \A n \in DOMAIN old : n > Len(old) - streak => old[n] = base
                        /\ plain => Recent
        OBVIOUS
    <2>1. /\ IsLeast(interp.anchor, old) /\ last.late \in 0..CatchUpTicks
          /\ old[Len(old)] = base + last.late
          /\ \A n \in DOMAIN old : n > Len(old) - streak => old[n] = base
          /\ plain => Recent
        BY DEF PlayoutInv, Anchoring
    <2>2. interp.anchor # None
        BY DEF PlayoutInv, Standing
    <2>3. old # <<>> /\ Len(old) >= 1
        BY <1>4, <2>1 DEF IsLeast
    <2> QED
        BY <1>0, <1>4, <2>1, <2>2, <2>3
<1>6. base = None => old = <<>> /\ streak = 0
    BY DEF PlayoutInv, Standing, NewInterp
<1>7. \/ Len(new) = 1
      \/ Len(new) = 2 /\ old # <<>> /\ old[Len(old)] = e /\ e - interp.anchor > AnchorHold
      \/ /\ old # <<>> /\ interp.anchor # None
         /\ Len(new) = Smaller(Len(old) + 1, AnchorSnapshots)
         /\ ~(old[Len(old)] = e /\ e - interp.anchor > AnchorHold)
    BY <1>0 DEF Windowed
<1> HIDE DEF old, new, late, e
\* The latest of them were on time.
<1>8. \A n \in DOMAIN new : n > Len(new) - streak' => new[n] = base'
    <2> SUFFICES ASSUME NEW n \in 1..Len(new), n > Len(new) - streak'
                 PROVE  new[n] = m.base
        BY <1>0, <1>3
    <2>1. late = 0 /\ e = m.base
        <3>1. streak' # 0
            BY <1>3
        <3> QED
            BY <3>1, <1>0, <1>1 DEF e
    <2>2. CASE n = Len(new)
        BY <1>3, <2>1, <2>2
    <2>3. CASE n # Len(new)
        <3>1. m.base = base /\ streak' = streak + 1
            BY <1>1, <1>3, <2>1, <2>3
        <3> DEFINE j == n + Len(old) + 1 - Len(new)
        <3>2. j \in 1..Len(old) /\ j > Len(old) - streak /\ n \in 1..Len(new) - 1
            BY <1>0, <1>3, <1>4, <2>3, <3>1
        <3> HIDE DEF j
        <3>3. new[n] = old[j]
            BY <1>3, <3>2 DEF j
        <3>4. old[j] = base
            <4>1. base # None
                BY <1>0, <3>1, Limits
            <4> QED
                BY <1>4, <1>5, <3>2, <4>1
        <3> QED
            BY <3>1, <3>3, <3>4
    <2> QED
        BY <2>2, <2>3
\* None of them is below the anchor there was, but the epoch that came.
<1>9. interp.anchor \in Int /\ base # None => \A n \in 1..Len(new) - 1 : new[n] >= interp.anchor
    <2> SUFFICES ASSUME base # None, NEW n \in 1..Len(new) - 1
                 PROVE  new[n] >= interp.anchor
        OBVIOUS
    <2> DEFINE j == n + Len(old) + 1 - Len(new)
    <2>1. j \in 1..Len(old)
        BY <1>3, <1>4
    <2>2. new[n] = old[j]
        BY <1>3
    <2> HIDE DEF j
    <2>3. old[j] \in Int /\ interp.anchor <= old[j]
        BY <1>4, <1>5, <2>1 DEF IsLeast
    <2> QED
        BY <1>5, <2>2, <2>3
<1>10. ASSUME streak' >= AnchorRun PROVE base' - AnchorHold <= interp'.anchor
    <2>1. streak' >= 2 /\ AnchorHold \in Nat
        BY <1>10, Limits
    <2>2. late = 0 /\ m.base = base /\ streak >= 1 /\ e = base /\ base # None /\ base \in Int
        <3>1. late = 0 /\ m.base = base
            BY <1>1, <2>1
        <3>2. streak' = streak + 1
            BY <1>1, <3>1
        <3> QED
            BY <1>0, <2>1, <3>1, <3>2, Limits DEF e
    <2>3. CASE Len(new) = 1
        <3>1. interp'.anchor = e
            <4>1. DOMAIN new = {1}
                BY <1>3, <2>3
            <4> QED
                BY <1>3, <2>3, <4>1 DEF IsLeast
        <3> QED
            BY <1>0, <2>1, <2>2, <3>1
    <2>4. CASE Len(new) = 2
        <3>1. DOMAIN new = {1, 2}
            BY <1>3, <2>4
        <3>2. new[1] = base /\ new[2] = base
            <4>1. streak' \in Nat
                BY <1>0, <1>1
            <4>2. \A k \in Nat : k >= 2 => 1 > 2 - k /\ 2 > 2 - k
                OBVIOUS
            <4>3. 1 > 2 - streak' /\ 2 > 2 - streak'
                BY <2>1, <4>1, <4>2
            <4> QED
                BY <1>0, <1>8, <2>2, <2>4, <3>1, <4>3
        <3>3. interp'.anchor = base
            BY <1>3, <3>1, <3>2 DEF IsLeast
        <3> QED
            BY <1>0, <2>1, <2>2, <3>3
    <2>5. CASE Len(new) # 1 /\ Len(new) # 2
        <3>1. old[Len(old)] = base
            <4>1. Len(old) \in DOMAIN old /\ Len(old) > Len(old) - streak
                BY <1>0, <1>4, <1>5, <2>2
            <4> QED
                BY <1>5, <2>2, <4>1
        <3>2. ~(e - interp.anchor > AnchorHold)
            BY <1>7, <2>2, <2>5, <3>1
        <3>3. interp.anchor \in Int /\ base - AnchorHold <= interp.anchor
            BY <1>5, <2>1, <2>2, <3>2
        <3>4. PICK n \in DOMAIN new : new[n] = interp'.anchor
            BY <1>3 DEF IsLeast
        <3>5. n \in 1..Len(new)
            BY <1>3
        <3>6. CASE n = Len(new)
            BY <1>0, <1>3, <2>1, <2>2, <3>4, <3>6
        <3>7. CASE n # Len(new)
            <4>1. n \in 1..Len(new) - 1
                BY <1>3, <3>5, <3>7
            <4>2. new[n] >= interp.anchor
                BY <1>9, <2>2, <3>3, <4>1
            <4> QED
                BY <1>0, <1>3, <2>1, <2>2, <3>3, <3>4, <4>2
        <3> QED
            BY <3>6, <3>7
    <2> QED
        BY <2>3, <2>4, <2>5
\* Within a burst, the epoch that was not late goes no further back.
<1>11. ASSUME plain' PROVE Recent'
    <2> DEFINE burst == CatchUpTicks + 1 - late
    <2>0. /\ burst \in Nat /\ burst >= 1
          /\ Recent' <=> \/ Len(new) <= burst
                         \/ \E n \in DOMAIN new : n >= Len(new) - burst /\ new[n] = base'
        BY <1>0 DEF Recent, new
    <2>1. CASE late = 0
        <3>1. Len(new) \in DOMAIN new /\ Len(new) >= Len(new) - burst /\ new[Len(new)] = base'
            BY <1>0, <1>3, <2>0, <2>1 DEF e
        <3> QED
            BY <2>0, <3>1
    <2>2. CASE Len(new) = 1
        BY <2>0, <2>2
    <2>3. CASE late # 0 /\ Len(new) # 1
        <3>0. Len(new) \in Nat /\ Len(new) >= 2 /\ Len(old) \in Nat /\ Len(new) <= Len(old) + 1
            <4>1. Len(new) \in Nat /\ Len(new) >= 1 /\ Len(new) # 1 /\ Len(new) <= Len(old) + 1
                BY <1>3, <2>3
            <4>2. Len(old) \in Nat
                BY <1>4
            <4>3. \A k \in Nat : k >= 1 /\ k # 1 => k >= 2
                OBVIOUS
            <4> QED
                BY <4>1, <4>2, <4>3
        <3>1. base # None
            <4>1. Len(old) # 0
                BY <3>0
            <4> QED
                BY <1>6, <4>1
        <3>2. m.base = base
            BY <1>2, <1>11, <2>3, <3>1 DEF After, late
        <3>3. last.late = 0 \/ late = last.late - 1
            BY <1>2, <1>11, <3>2
        <3>4. old[Len(old)] # e
            BY <1>0, <1>5, <2>3, <3>1, <3>2, <3>3 DEF e
        <3>5. Len(new) = Smaller(Len(old) + 1, AnchorSnapshots)
            BY <1>7, <2>3, <3>4
        <3>6. Len(old) >= 1
            BY <1>5, <3>1
        <3>7. CASE last.late = 0
            <4>1. old[Len(old)] = base
                BY <1>0, <1>5, <3>1, <3>7
            <4>2. Len(new) - 1 \in 1..Len(new) - 1 /\ Len(new) - 1 + Len(old) + 1 - Len(new) = Len(old)
                BY <3>0
            <4>3. new[Len(new) - 1] = base'
                <5>1. new[Len(new) - 1] = old[(Len(new) - 1) + Len(old) + 1 - Len(new)]
                    BY <1>3, <4>2
                <5> QED
                    BY <1>0, <3>2, <4>1, <4>2, <5>1
            <4>4. Len(new) - 1 \in DOMAIN new /\ Len(new) - 1 >= Len(new) - burst
                BY <1>3, <2>0, <4>2
            <4> QED
                BY <2>0, <4>3, <4>4
        <3>8. CASE late = last.late - 1
            <4>1. CASE Len(old) <= burst - 1
                BY <1>3, <1>4, <2>0, <4>1
            <4>2. CASE \E j \in DOMAIN old : j >= Len(old) - (burst - 1) /\ old[j] = base
                <5>1. PICK j \in 1..Len(old) : j >= Len(old) - (burst - 1) /\ old[j] = base
                    BY <1>4, <4>2
                <5> DEFINE n == j - (Len(old) + 1 - Len(new))
                <5>2. n \in 1..Len(new) - 1 /\ n >= Len(new) - burst /\ n + Len(old) + 1 - Len(new) = j
                    <6>1. /\ Len(new) \in Nat /\ Len(new) >= 2 /\ Len(old) \in Nat /\ Len(old) <= AnchorSnapshots
                          /\ AnchorSnapshots = CatchUpTicks + 2 /\ burst \in Nat /\ burst <= CatchUpTicks
                        <7>1. Len(old) <= AnchorSnapshots /\ AnchorSnapshots = CatchUpTicks + 2
                            BY <1>4
                        <7>2. late \in Int /\ late >= 0 /\ late # 0 /\ CatchUpTicks \in Nat /\ late <= CatchUpTicks
                            BY <1>0, <2>3
                        <7>3. burst \in Nat /\ burst <= CatchUpTicks
                            BY <7>2
                        <7> QED
                            BY <3>0, <7>1, <7>3
                    <6>2. CASE Len(new) = Len(old) + 1
                        BY <5>1, <6>1, <6>2
                    <6>3. CASE Len(new) = AnchorSnapshots /\ Len(old) = AnchorSnapshots
                        BY <1>0, <5>1, <6>1, <6>3
                    <6>4. Len(new) = Len(old) + 1 \/ (Len(new) = AnchorSnapshots /\ Len(old) = AnchorSnapshots)
                        BY <1>0, <3>5, <6>1 DEF Smaller
                    <6> HIDE DEF n, burst
                    <6> QED
                        BY <6>2, <6>3, <6>4
                <5> HIDE DEF n
                <5>3. new[n] = base'
                    <6>1. new[n] = old[n + Len(old) + 1 - Len(new)]
                        BY <1>3, <5>2
                    <6> QED
                        BY <1>0, <3>2, <5>1, <5>2, <6>1
                <5>4. n \in DOMAIN new
                    BY <1>3, <5>2
                <5> QED
                    BY <2>0, <5>2, <5>3, <5>4
            <4>3. burst - 1 = CatchUpTicks + 1 - last.late
                BY <1>0, <3>8
            <4>4. \/ Len(old) <= CatchUpTicks + 1 - last.late
                  \/ \E j \in DOMAIN old : j >= Len(old) - (CatchUpTicks + 1 - last.late) /\ old[j] = base
                <5>1. Recent
                    BY <1>2, <1>5, <1>11, <3>1
                <5> QED
                    BY <5>1 DEF Recent, old
            <4> QED
                BY <4>1, <4>2, <4>3, <4>4
        <3> QED
            BY <3>3, <3>7, <3>8
    <2> QED
        BY <2>1, <2>2, <2>3
<1>12. last'.late \in 0..CatchUpTicks /\ new[Len(new)] = base' + last'.late
    BY <1>0, <1>3 DEF e
<1> QED
    BY <1>3, <1>8, <1>10, <1>11, <1>12 DEF Anchoring, new

\* A client that neither reads nor draws.
LEMMA Unmoved ==
    ASSUME Standing, Anchoring, UNCHANGED <<interp, heard, history>>
    PROVE  Standing' /\ Anchoring'
<1>1. /\ interp' = interp /\ heard' = heard
      /\ taken' = taken /\ base' = base /\ streak' = streak /\ last' = last /\ plain' = plain
    BY DEF history
<1>2. Standing'
    BY <1>1 DEF Standing
<1>3. Recent' <=> Recent
    BY <1>1 DEF Recent
<1> QED
    BY <1>1, <1>2, <1>3 DEF Anchoring

\* A link that carries no more than it did.
LEMMA LinkStays ==
    ASSUME PlayoutInv, link' = link, base' = base, last' = last,
           \A tick \in Ticks : \A sched : UpTo(room, tick, sched) => UpTo(room', tick, sched)
    PROVE  Sending'
<1>1. link # <<>> => link[Len(link)].tick \in Ticks
    <2>1. link \in Seq(Message)
        BY DEF PlayoutInv, Typed
    <2>2. link # <<>> => link[Len(link)] \in Message
        BY <2>1
    <2> QED
        BY <2>2 DEF Message
<1>2. last.tick \in Ticks
    BY DEF PlayoutInv, Typed
<1> QED
    BY <1>1, <1>2 DEF PlayoutInv, Sending

\* A link that carries one message more, or a welcome only.
LEMMA LinkGrows ==
    ASSUME PlayoutInv, NEW m \in Message, Fit(m), base' = base, last' = last,
           \/ link' = Append(link, m)
           \/ link' = <<m>> /\ m.kind = "Welcome",
           \A tick \in Ticks : \A sched : UpTo(room, tick, sched) => After(tick, sched, m),
           UpTo(room', m.tick, m.base)
    PROVE  Sending' /\ link' \in Seq(Message)
           /\ \A n \in DOMAIN link' : link'[n] = m \/ (n \in DOMAIN link /\ link'[n] = link[n])
<1>0. /\ link \in Seq(Message) /\ Len(link) \in Nat /\ DOMAIN link = 1..Len(link) /\ last.tick \in Ticks
      /\ Sending /\ \A n \in 1..Len(link) : link[n].tick \in Ticks
    <2>1. link \in Seq(Message) /\ last.tick \in Ticks /\ Sending
        BY DEF PlayoutInv, Typed
    <2>2. \A n \in 1..Len(link) : link[n] \in Message
        BY <2>1
    <2> QED
        BY <2>1, <2>2 DEF Message
<1>1. CASE link' = Append(link, m)
    <2> DEFINE l == link'
    <2>1. /\ l \in Seq(Message) /\ Len(l) = Len(link) + 1 /\ DOMAIN l = 1..Len(link) + 1
          /\ l[Len(link) + 1] = m /\ \A n \in 1..Len(link) : l[n] = link[n]
          /\ l # <<>>
        BY <1>0, <1>1
    <2> HIDE DEF l
    <2>2. \A n \in DOMAIN l : l[n] = m \/ (n \in DOMAIN link /\ l[n] = link[n])
        <3> SUFFICES ASSUME NEW n \in DOMAIN l PROVE l[n] = m \/ (n \in DOMAIN link /\ l[n] = link[n])
            OBVIOUS
        <3>1. n = Len(link) + 1 \/ n \in 1..Len(link)
            BY <1>0, <2>1
        <3> QED
            BY <1>0, <2>1, <3>1
    <2>3. \A n \in DOMAIN l : Fit(l[n])
        BY <1>0, <2>2 DEF Sending
    <2>4. \A n \in 2..Len(l) : After(l[n - 1].tick, l[n - 1].base, l[n])
        <3> SUFFICES ASSUME NEW n \in 2..Len(l) PROVE After(l[n - 1].tick, l[n - 1].base, l[n])
            OBVIOUS
        <3>1. CASE n = Len(link) + 1
            <4>1. n - 1 = Len(link) /\ Len(link) \in 1..Len(link) /\ link # <<>>
                BY <1>0, <2>1, <3>1
            <4>2. UpTo(room, link[Len(link)].tick, link[Len(link)].base) /\ link[Len(link)].tick \in Ticks
                BY <1>0, <4>1 DEF Sending
            <4>3. After(link[Len(link)].tick, link[Len(link)].base, m)
                BY <4>2
            <4> QED
                BY <2>1, <3>1, <4>1, <4>3
        <3>2. CASE n # Len(link) + 1
            <4>1. n \in 1..Len(link) /\ n - 1 \in 1..Len(link) /\ n \in 2..Len(link)
                BY <1>0, <2>1, <3>2
            <4> QED
                BY <1>0, <2>1, <4>1 DEF Sending
        <3> QED
            BY <3>1, <3>2
    <2>5. base # None => After(last.tick, base, l[1])
        <3> SUFFICES ASSUME base # None PROVE After(last.tick, base, l[1])
            OBVIOUS
        <3>1. CASE link = <<>>
            <4>1. l[1] = m
                BY <2>1, <3>1
            <4> QED
                BY <1>0, <3>1, <4>1 DEF Sending
        <3>2. CASE link # <<>>
            <4>1. 1 \in 1..Len(link)
                BY <1>0, <3>2
            <4> QED
                BY <1>0, <2>1, <3>2, <4>1 DEF Sending
        <3> QED
            BY <3>1, <3>2
    <2>6. UpTo(room', l[Len(l)].tick, l[Len(l)].base)
        BY <2>1
    <2> QED
        BY <2>1, <2>2, <2>3, <2>4, <2>5, <2>6 DEF Sending, l
<1>2. CASE link' = <<m>> /\ m.kind = "Welcome"
    <2> DEFINE l == link'
    <2>1. l \in Seq(Message) /\ Len(l) = 1 /\ DOMAIN l = {1} /\ l[1] = m /\ l # <<>>
        BY <1>2
    <2> HIDE DEF l
    <2>2. \A tick, sched : After(tick, sched, m)
        BY <1>2 DEF After
    <2>3. UpTo(room', l[Len(l)].tick, l[Len(l)].base)
        BY <2>1
    <2> QED
        BY <2>1, <2>2, <2>3 DEF Sending, l
<1> QED
    BY <1>1, <1>2

\* A link that was read from.
LEMMA LinkRead ==
    ASSUME PlayoutInv, link # <<>>, link' = Tail(link), room' = room,
           base' = link[1].base, last'.tick = link[1].tick
    PROVE  Sending' /\ link' \in Seq(Message) /\ \A n \in DOMAIN link' : n + 1 \in DOMAIN link /\ link'[n] = link[n + 1]
<1> DEFINE l == link'
<1>0. Sending /\ link \in Seq(Message) /\ Len(link) \in Nat /\ Len(link) >= 1 /\ DOMAIN link = 1..Len(link)
    <2>1. Sending /\ link \in Seq(Message)
        BY DEF PlayoutInv, Typed
    <2> QED
        BY <2>1
<1>1. l \in Seq(Message) /\ Len(l) = Len(link) - 1 /\ DOMAIN l = 1..Len(l) /\ \A n \in 1..Len(l) : l[n] = link[n + 1]
    BY <1>0, TailOf
<1> HIDE DEF l
<1>2. \A n \in DOMAIN l : n + 1 \in DOMAIN link /\ l[n] = link[n + 1]
    BY <1>0, <1>1
<1>3. \A n \in DOMAIN l : Fit(l[n])
    BY <1>0, <1>2 DEF Sending
<1>4. \A n \in 2..Len(l) : After(l[n - 1].tick, l[n - 1].base, l[n])
    <2> SUFFICES ASSUME NEW n \in 2..Len(l) PROVE After(l[n - 1].tick, l[n - 1].base, l[n])
        OBVIOUS
    <2>1. n \in 1..Len(l) /\ n - 1 \in 1..Len(l) /\ n + 1 \in 2..Len(link) /\ (n - 1) + 1 = (n + 1) - 1
        BY <1>0, <1>1
    <2>2. l[n] = link[n + 1] /\ l[n - 1] = link[(n + 1) - 1]
        BY <1>1, <2>1
    <2> QED
        BY <1>0, <2>1, <2>2 DEF Sending
<1>5. l # <<>> => After(last'.tick, base', l[1])
    <2> SUFFICES ASSUME l # <<>> PROVE After(last'.tick, base', l[1])
        OBVIOUS
    <2>1. 1 \in 1..Len(l) /\ 2 \in 2..Len(link) /\ 2 - 1 = 1
        BY <1>0, <1>1
    <2>2. l[1] = link[2] /\ After(link[2 - 1].tick, link[2 - 1].base, link[2])
        BY <1>0, <1>1, <2>1 DEF Sending
    <2> QED
        BY <2>1, <2>2
<1>6. \A tick, sched : UpTo(room', tick, sched) <=> UpTo(room, tick, sched)
    BY DEF UpTo, Base
<1>7. UpTo(room, link[Len(link)].tick, link[Len(link)].base)
    BY <1>0 DEF Sending
<1>8. l # <<>> => UpTo(room', l[Len(l)].tick, l[Len(l)].base)
    <2> SUFFICES ASSUME l # <<>> PROVE UpTo(room', l[Len(l)].tick, l[Len(l)].base)
        OBVIOUS
    <2>1. Len(l) \in 1..Len(l) /\ Len(l) + 1 = Len(link)
        BY <1>0, <1>1
    <2>2. l[Len(l)] = link[Len(link)]
        BY <1>1, <2>1
    <2> QED
        BY <1>7, <2>2
<1>9. l = <<>> => UpTo(room', last'.tick, base')
    <2> SUFFICES ASSUME l = <<>> PROVE UpTo(room', last'.tick, base')
        OBVIOUS
    <2>1. Len(link) = 1
        BY <1>0, <1>1
    <2> QED
        BY <1>7, <2>1 DEF UpTo, Base
<1> QED
    BY <1>1, <1>2, <1>3, <1>4, <1>5, <1>8, <1>9 DEF Sending, l

\* What is on its way is a message, and none of it was stamped ahead of time.
LEMMA HeadOfLink ==
    ASSUME PlayoutInv, link # <<>>
    PROVE  /\ Head(link) = link[1] /\ link[1] \in Message /\ Fit(link[1])
           /\ base # None => After(last.tick, base, link[1])
<1>1. link \in Seq(Message) /\ Sending
    BY DEF PlayoutInv, Typed
<1>2. 1 \in DOMAIN link /\ Head(link) = link[1] /\ link[1] \in Message
    BY <1>1
<1> QED
    BY <1>1, <1>2 DEF Sending

\* A snapshot is never older than what is held.
LEMMA ReadsInOrder ==
    ASSUME PlayoutInv, NEW m \in Message, m.kind = "Snapshot", base # None => After(last.tick, base, m)
    PROVE  Before(interp, m.tick)
<1>1. CASE base = None
    BY <1>1 DEF PlayoutInv, Before, Standing
<1>2. CASE base # None
    <2>1. Holding(interp, last.tick) /\ interp.anchor # None
        BY <1>2 DEF PlayoutInv, Standing
    <2>2. last.tick \in Ticks /\ last.tick < m.tick
        BY <1>2 DEF PlayoutInv, Typed, After
    <2>3. interp.epochs # <<>>
        BY <1>2 DEF PlayoutInv, Anchoring, IsLeast
    <2> QED
        BY <2>1, <2>2, <2>3 DEF Before
<1> QED
    BY <1>1, <1>2

\* A snapshot read: where the picture stands, and the window.
LEMMA SnapshotRead ==
    ASSUME PlayoutInv, Arrive, link[1].kind = "Snapshot"
    PROVE  /\ interp'.render = interp.render
           /\ Windowed(interp.epochs, interp.anchor, link[1].stamp - link[1].tick, interp'.epochs, interp'.anchor)
<1> DEFINE m == link[1]
<1>1. /\ interp \in Interps /\ Len(interp.buffer) <= BufferedSnapshots /\ Len(interp.epochs) <= AnchorSnapshots
      /\ now \in Ticks
    BY DEF PlayoutInv, Typed
<1>2. Head(link) = m /\ m \in Message /\ (base # None => After(last.tick, base, m))
    BY HeadOfLink DEF Arrive
<1>3. m.tick \in Ticks /\ m.stamp \in Ticks
    BY <1>2 DEF Message
<1>4. interp' \in Accepted(m.tick, m.stamp, now)
    BY <1>2 DEF Arrive
<1>5. m.kind = "Snapshot"
    OBVIOUS
<1> HIDE DEF m
<1>6. Before(interp, m.tick)
    BY <1>2, <1>5, ReadsInOrder
<1>7. /\ interp'.render = interp.render
      /\ Windowed(interp.epochs, interp.anchor, m.stamp - m.tick, interp'.epochs, interp'.anchor)
    BY <1>1, <1>3, <1>4, <1>6, Accepts
<1> QED
    BY <1>7 DEF m

\* A message that is read.
LEMMA ArriveStep ==
    ASSUME PlayoutInv, Arrive, Note(Head(link))
    PROVE  PlayoutInv'
<1> DEFINE m == link[1]
<1>0. /\ Typed /\ Timely /\ Sending /\ Standing /\ Anchoring
      /\ link # <<>> /\ link' = Tail(link) /\ now' = now /\ room' = room
    BY DEF PlayoutInv, Arrive
<1>1. Head(link) = m /\ m \in Message /\ Fit(m) /\ (base # None => After(last.tick, base, m))
    BY <1>0, HeadOfLink
<1>2. \/ m.kind = "Welcome" /\ interp' \in Restarted(m.tick, m.stamp, now) /\ heard' = <<>>
      \/ m.kind = "Snapshot" /\ interp' \in Accepted(m.tick, m.stamp, now) /\ heard' = heard
    BY <1>1 DEF Arrive
<1>3. Note(m)
    BY <1>1
<1> HIDE DEF m
<1>4. /\ base' = m.base /\ last' = [tick |-> m.tick, late |-> Lateness(m)] /\ last'.tick = m.tick /\ last'.late = Lateness(m)
      /\ taken' = IF m.kind = "Welcome" THEN <<>> ELSE Append(taken, m.tick)
      /\ streak' = IF Lateness(m) # 0 THEN 0
                   ELSE IF m.base = base /\ m.kind = "Snapshot" THEN streak + 1 ELSE 1
      /\ plain' \in BOOLEAN
    BY <1>3 DEF Note
<1>5. /\ m.tick \in Ticks /\ m.stamp \in Ticks /\ m.base \in Int /\ Lateness(m) \in Int
      /\ m.base # None /\ now \in Ticks /\ m.tick \in Int
    BY <1>0, <1>1, Limits DEF Message, Lateness, Typed, Ticks
<1>6. Sending' /\ link' \in Seq(Message) /\ \A n \in DOMAIN link' : n + 1 \in DOMAIN link /\ link'[n] = link[n + 1]
    BY <1>0, <1>4, LinkRead DEF m
<1>7. /\ base' \in Maybe(Int) /\ streak' \in Nat /\ last' \in [tick : Ticks, late : Int] /\ plain' \in BOOLEAN
      /\ taken' \in Seq(Ticks) /\ heard' \in Seq(Ticks)
      /\ base' # None
    <2>1. taken \in Seq(Ticks) /\ heard \in Seq(Ticks) /\ streak \in Nat /\ <<>> \in Seq(Ticks)
        BY <1>0 DEF Typed
    <2>2. Append(taken, m.tick) \in Seq(Ticks)
        BY <1>5, <2>1
    <2>3. streak' \in Nat
        BY <1>4, <2>1
    <2> QED
        BY <1>2, <1>4, <1>5, <2>1, <2>2, <2>3 DEF Maybe
\* What the reading leaves.
<1>8. CASE m.kind = "Welcome"
    <2>1. /\ interp' \in Interps /\ interp'.buffer = <<m.tick>> /\ interp'.released = m.tick /\ interp'.orphaned = <<>>
          /\ interp'.epochs \in Seq(Int) /\ Len(interp'.epochs) = 1
          /\ interp'.epochs[1] = m.stamp - m.tick /\ interp'.anchor = m.stamp - m.tick
          /\ interp'.offset \in Int /\ interp'.render = None /\ interp'.rendered_at = None
        BY <1>0, <1>2, <1>5, <1>8, Restarts DEF Typed
    <2>2. Lateness(m) = 0 /\ streak' = 1 /\ m.stamp - m.tick = m.base
        <3>1. Lateness(m) = 0
            BY <1>1, <1>8 DEF Fit
        <3>2. m.stamp - m.tick = m.base + Lateness(m)
            BY <1>1, Epochs
        <3> QED
            BY <1>4, <1>5, <1>8, <3>1, <3>2
    <2>3. <<m.tick>> \in Seq(Ticks) /\ Len(<<m.tick>>) = 1 /\ <<m.tick>>[1] = m.tick /\ <<m.tick>> # <<>>
        BY <1>5
    <2>4. Len(interp'.buffer) <= BufferedSnapshots /\ Len(interp'.epochs) <= AnchorSnapshots
        BY <2>1, <2>3, Limits
    <2>5. Typed'
        BY <1>0, <1>6, <1>7, <2>1, <2>4 DEF Typed
    <2>6. Timely'
        <3>1. \A n \in DOMAIN link' : link'[n].stamp <= now
            BY <1>0, <1>6 DEF Timely
        <3> QED
            BY <1>0, <2>1, <3>1 DEF Timely
    <2>7. Holding(interp', m.tick)
        <3>1. m.tick <= m.tick
            BY <1>5
        <3> QED
            BY <2>1, <2>3, <3>1 DEF Holding, Ascends
    <2>8. OwedOf(interp', interp'.buffer) = <<>>
        <3>1. ~Owed(interp', m.tick)
            BY <1>5, <2>1, Limits DEF Owed
        <3>2. OwedOf(interp', <<m.tick>>) = IF Owed(interp', m.tick) THEN <<m.tick>> ELSE <<>>
            BY <1>5, <2>1, HeadTaken
        <3> QED
            BY <2>1, <3>1, <3>2
    <2>9. Standing'
        <3>1. taken' = <<>> /\ heard' = <<>> /\ <<>> \o <<>> \o <<>> = <<>>
            BY <1>2, <1>4, <1>8
        <3>2. taken' = heard' \o interp'.orphaned \o OwedOf(interp', interp'.buffer)
            BY <2>1, <2>8, <3>1
        <3>3. interp'.anchor # None /\ interp'.offset # None
            BY <1>5, <2>1, <2>2, Limits
        <3> QED
            BY <1>4, <1>7, <2>7, <3>2, <3>3 DEF Standing
    <2>10. Anchoring'
        <3> DEFINE new == interp'.epochs
        <3>1. DOMAIN new = {1} /\ new[1] = m.base /\ interp'.anchor = m.base /\ Len(new) = 1
            BY <2>1, <2>2
        <3> HIDE DEF new
        <3>2. IsLeast(interp'.anchor, new)
            BY <1>5, <3>1 DEF IsLeast
        <3>3. last'.late = 0 /\ last'.late \in 0..CatchUpTicks /\ new[Len(new)] = base' + last'.late
            BY <1>4, <1>5, <2>2, <3>1, Limits
        <3>4. ~(streak' >= AnchorRun)
            BY <2>2, Limits
        <3>5. Recent'
            <4>1. Len(new) <= CatchUpTicks + 1 - last'.late
                BY <3>1, <3>3, Limits
            <4> QED
                BY <4>1 DEF Recent, new
        <3>6. \A n \in DOMAIN new : n > Len(new) - streak' => new[n] = base'
            BY <1>4, <3>1
        <3> QED
            BY <3>2, <3>3, <3>4, <3>5, <3>6 DEF Anchoring, new
    <2> QED
        BY <1>6, <2>5, <2>6, <2>9, <2>10 DEF PlayoutInv
<1>9. CASE m.kind = "Snapshot"
    <2>0. interp \in Interps /\ Len(interp.buffer) <= BufferedSnapshots /\ Len(interp.epochs) <= AnchorSnapshots
        BY <1>0 DEF Typed
    <2>1. Before(interp, m.tick)
        BY <1>1, <1>9, ReadsInOrder
    <2>2. /\ interp' \in Interps /\ Holding(interp', m.tick) /\ Len(interp'.buffer) <= BufferedSnapshots
          /\ interp'.orphaned \o OwedOf(interp', interp'.buffer)
                 = interp.orphaned \o (OwedOf(interp, interp.buffer) \o <<m.tick>>)
          /\ Windowed(interp.epochs, interp.anchor, m.stamp - m.tick, interp'.epochs, interp'.anchor)
          /\ interp'.offset \in Int /\ interp'.render = interp.render /\ interp'.rendered_at = interp.rendered_at
        BY <1>2, <1>5, <1>9, <2>0, <2>1, Accepts
    <2>3. Len(interp'.epochs) <= AnchorSnapshots /\ interp'.anchor \in Int
        BY <2>2, Limits DEF Windowed
    <2>4. Typed'
        BY <1>0, <1>6, <1>7, <2>2, <2>3 DEF Typed
    <2>5. Timely'
        <3>1. \A n \in DOMAIN link' : link'[n].stamp <= now
            BY <1>0, <1>6 DEF Timely
        <3> QED
            BY <1>0, <2>2, <3>1 DEF Timely
    <2>6. Standing'
        <3> DEFINE o == OwedOf(interp, interp.buffer)
                   one == <<m.tick>>
                   p == OwedOf(interp', interp'.buffer)
        <3>1. taken' = taken \o one
            <4>1. taken \in Seq(Ticks) /\ taken' = Append(taken, m.tick)
                BY <1>0, <1>4, <1>9 DEF Typed
            <4> QED
                BY <1>5, <4>1
        <3>2. heard \in Seq(Ticks) /\ interp.orphaned \in Seq(Ticks) /\ one \in Seq(Ticks) /\ interp'.orphaned \in Seq(Ticks)
            BY <1>0, <1>5, <2>0, <2>2 DEF Typed, Interps
        <3>3. o \in Seq(Ticks) /\ taken = (heard \o interp.orphaned) \o o
            <4>1. CASE base = None
                <5>1. interp.buffer = <<>> /\ interp.orphaned = <<>> /\ heard = <<>> /\ taken = <<>>
                    BY <1>0, <4>1 DEF Standing, NewInterp
                <5>2. <<>> \in Seq(Ticks) /\ (\A n \in DOMAIN <<>> : Owed(interp, <<>>[n])) /\ (<<>> \o <<>>) \o <<>> = <<>>
                    OBVIOUS
                <5>3. OwedOf(interp, <<>>) = <<>>
                    BY <5>2, AllOwed
                <5> QED
                    BY <5>1, <5>2, <5>3
            <4>2. CASE base # None
                <5>1. Holding(interp, last.tick) /\ taken = heard \o interp.orphaned \o o
                    BY <1>0, <4>2 DEF Standing
                <5>2. o \in Seq(Ticks)
                    BY <5>1, <2>0, OwedTyped
                <5> QED
                    BY <5>1, <5>2
            <4> QED
                BY <4>1, <4>2
        <3>4. p \in Seq(Ticks)
            BY <2>2, OwedTyped
        <3> HIDE DEF o, p, one
        <3>5. interp'.orphaned \o p = interp.orphaned \o (o \o one)
            BY <2>2 DEF o, p, one
        <3>6. heard \o (interp.orphaned \o (o \o one)) = ((heard \o interp.orphaned) \o o) \o one
            <4>1. o \o one \in Seq(Ticks) /\ heard \o interp.orphaned \in Seq(Ticks)
                BY <3>2, <3>3, ConcatOf
            <4>2. heard \o (interp.orphaned \o (o \o one)) = (heard \o interp.orphaned) \o (o \o one)
                BY <3>2, <4>1, Joined
            <4>3. (heard \o interp.orphaned) \o (o \o one) = ((heard \o interp.orphaned) \o o) \o one
                <5> DEFINE ho == heard \o interp.orphaned
                <5>1. ho \in Seq(Ticks)
                    BY <4>1
                <5> HIDE DEF ho
                <5>2. ho \o (o \o one) = (ho \o o) \o one
                    BY <3>2, <3>3, <5>1, Joined
                <5> QED
                    BY <5>2 DEF ho
            <4> QED
                BY <4>2, <4>3
        <3>7. (heard \o interp'.orphaned) \o p = heard \o (interp'.orphaned \o p)
            BY <3>2, <3>4, Joined
        <3>8. taken' = heard' \o interp'.orphaned \o p
            BY <1>2, <1>9, <3>1, <3>3, <3>5, <3>6, <3>7
        <3>9. interp'.anchor # None /\ interp'.offset # None
            BY <2>2, <2>3, Limits
        <3> QED
            BY <1>4, <1>7, <2>2, <3>8, <3>9 DEF Standing, p
    <2>7. Anchoring'
        BY <1>1, <1>3, <1>4, <1>9, <2>2, WindowKept
    <2> QED
        BY <1>6, <2>4, <2>5, <2>6, <2>7 DEF PlayoutInv
<1> QED
    BY <1>2, <1>8, <1>9

\* A frame: what it may be, and what it leaves.
LEMMA FrameLeaves ==
    ASSUME PlayoutInv, Frame
    PROVE  /\ interp' \in Interps /\ Holding(interp', last.tick) /\ Len(interp'.buffer) <= Len(interp.buffer)
           /\ base # None
           /\ heard' \in Seq(Ticks)
           /\ heard' \o interp'.orphaned \o OwedOf(interp', interp'.buffer)
                  = heard \o interp.orphaned \o OwedOf(interp, interp.buffer)
           /\ interp'.epochs = interp.epochs /\ interp'.anchor = interp.anchor /\ interp'.offset = interp.offset
           /\ interp'.rendered_at = now
           /\ interp.render # None => interp'.render >= interp.render
           /\ Near(interp, Target(interp, now), Elapsed(interp, now), interp')
<1> DEFINE target == Target(interp, now)
           elapsed == Elapsed(interp, now)
<1>0. /\ interp \in Interps /\ now \in Ticks /\ heard \in Seq(Ticks) /\ last.tick \in Ticks
      /\ interp.buffer # <<>> /\ Standing /\ Timely
    BY DEF PlayoutInv, Typed, Frame
<1>1. PICK i \in Advanced(interp, target, elapsed) :
          interp' = Sampled(i, now).interp /\ heard' = heard \o Sampled(i, now).events
    BY DEF Frame
<1>2. base # None /\ Holding(interp, last.tick) /\ interp.anchor # None /\ interp.offset # None
    <2>1. base # None
        <3>1. NewInterp.buffer = <<>>
            BY DEF NewInterp
        <3> QED
            BY <1>0, <3>1 DEF Standing
    <2> QED
        BY <1>0, <2>1 DEF Standing
<1>3. target \in Int
    <2>1. interp.anchor \in Int /\ interp.offset \in Int /\ now \in Int /\ Delay \in Nat
        BY <1>0, <1>2, Limits DEF Interps, Maybe, Ticks
    <2>2. ServerNow(interp, now) \in Int /\ Grain \in Int
        BY <1>2, <2>1, Limits DEF ServerNow
    <2>3. Grain * ServerNow(interp, now) \in Int
        BY <2>2
    <2> QED
        BY <2>1, <2>3 DEF Target
<1>4. elapsed \in Nat
    <2>1. interp.rendered_at # None => interp.rendered_at \in Int /\ interp.rendered_at <= now
        BY <1>0, Limits DEF Interps, Maybe, Ticks, Timely
    <2>2. now \in Int /\ Grain \in Nat
        BY <1>0, Limits DEF Ticks
    <2>3. interp.rendered_at # None => now - interp.rendered_at \in Nat
        BY <2>1, <2>2
    <2>4. interp.rendered_at # None => Grain * (now - interp.rendered_at) \in Nat
        BY <2>2, <2>3
    <2> QED
        BY <2>4 DEF Elapsed
<1> HIDE DEF target, elapsed
<1>5. /\ i \in Interps /\ i.render \in Int
      /\ i.buffer = interp.buffer /\ i.released = interp.released /\ i.orphaned = interp.orphaned
      /\ i.epochs = interp.epochs /\ i.anchor = interp.anchor /\ i.offset = interp.offset
      /\ interp.render # None => i.render >= interp.render
      /\ Near(interp, target, elapsed, i)
    BY <1>0, <1>1, <1>3, <1>4, Advances
<1>6. Holding(i, last.tick) /\ OwedOf(i, i.buffer) = OwedOf(interp, interp.buffer)
    <2>1. (\A t : Owed(i, t) <=> Owed(interp, t)) /\ (\A t : OwedOf(i, t) = OwedOf(interp, t))
        BY <1>5, OwedAlike
    <2> QED
        BY <1>2, <1>5, <2>1 DEF Holding
<1> DEFINE events == Sampled(i, now).events
<1>7. /\ interp' \in Interps /\ Holding(interp', last.tick) /\ Len(interp'.buffer) <= Len(i.buffer)
      /\ events \in Seq(Ticks) /\ interp'.orphaned = <<>>
      /\ events \o OwedOf(interp', interp'.buffer) = i.orphaned \o OwedOf(i, i.buffer)
      /\ interp'.epochs = i.epochs /\ interp'.anchor = i.anchor /\ interp'.offset = i.offset
      /\ interp'.render = i.render /\ interp'.holding = i.holding /\ interp'.rendered_at = now
    BY <1>0, <1>1, <1>5, <1>6, Samples
<1>8. heard' = heard \o events
    BY <1>1
<1> HIDE DEF events
<1>9. /\ heard' \in Seq(Ticks)
      /\ heard' \o interp'.orphaned \o OwedOf(interp', interp'.buffer)
             = heard \o interp.orphaned \o OwedOf(interp, interp.buffer)
    <2> DEFINE p == OwedOf(interp', interp'.buffer)
               o == OwedOf(interp, interp.buffer)
    <2>1. p \in Seq(Ticks) /\ o \in Seq(Ticks) /\ interp.orphaned \in Seq(Ticks)
        <3>1. p \in Seq(Ticks)
            BY <1>7, OwedTyped
        <3>2. o \in Seq(Ticks)
            BY <1>0, <1>2, OwedTyped
        <3> QED
            BY <1>0, <3>1, <3>2 DEF Interps
    <2>2. events \o p = interp.orphaned \o o
        BY <1>5, <1>6, <1>7
    <2> HIDE DEF p, o
    <2>3. heard' \in Seq(Ticks)
        BY <1>0, <1>7, <1>8, ConcatOf
    <2>4. heard' \o <<>> = heard'
        BY <2>3
    <2>5. (heard \o events) \o p = heard \o (events \o p)
        BY <1>0, <1>7, <2>1, Joined
    <2>6. (heard \o interp.orphaned) \o o = heard \o (interp.orphaned \o o)
        BY <1>0, <2>1, Joined
    <2>7. heard' \o interp'.orphaned \o p = heard \o interp.orphaned \o o
        BY <1>7, <1>8, <2>2, <2>4, <2>5, <2>6
    <2> QED
        BY <2>3, <2>7 DEF p, o
<1> QED
    <2>1. Near(interp, target, elapsed, interp')
        BY <1>5, <1>7 DEF Near
    <2>2. Near(interp, Target(interp, now), Elapsed(interp, now), interp')
        BY <2>1 DEF target, elapsed
    <2> QED
        BY <1>2, <1>5, <1>7, <1>9, <2>2

LEMMA FrameStep ==
    ASSUME PlayoutInv, Frame, UNCHANGED history
    PROVE  PlayoutInv'
<1>0. /\ Typed /\ Timely /\ Sending /\ Standing /\ Anchoring
      /\ now' = now /\ room' = room /\ link' = link
      /\ taken' = taken /\ base' = base /\ streak' = streak /\ last' = last /\ plain' = plain
    BY DEF PlayoutInv, Frame, history
<1>1. /\ interp' \in Interps /\ Holding(interp', last.tick) /\ Len(interp'.buffer) <= Len(interp.buffer)
      /\ base # None
      /\ heard' \in Seq(Ticks)
      /\ heard' \o interp'.orphaned \o OwedOf(interp', interp'.buffer)
             = heard \o interp.orphaned \o OwedOf(interp, interp.buffer)
      /\ interp'.epochs = interp.epochs /\ interp'.anchor = interp.anchor /\ interp'.offset = interp.offset
      /\ interp'.rendered_at = now
    BY FrameLeaves
<1>2. Typed'
    <2>1. Len(interp'.buffer) <= BufferedSnapshots
        <3>1. interp.buffer \in Seq(Ticks) /\ interp'.buffer \in Seq(Ticks) /\ Len(interp.buffer) <= BufferedSnapshots
            BY <1>0, <1>1 DEF Typed, Interps
        <3>2. Len(interp.buffer) \in Nat /\ Len(interp'.buffer) \in Nat
            BY <3>1
        <3> QED
            BY <1>1, <3>1, <3>2, Limits
    <2> QED
        BY <1>0, <1>1, <2>1 DEF Typed
<1>3. Timely'
    <2>1. now <= now
        BY <1>0, Limits DEF Typed, Ticks
    <2> QED
        BY <1>0, <1>1, <2>1 DEF Timely
<1>4. Sending'
    BY <1>0, LinkStays
<1>5. Standing'
    <2>1. taken = heard \o interp.orphaned \o OwedOf(interp, interp.buffer) /\ interp.anchor # None /\ interp.offset # None
        BY <1>0, <1>1 DEF Standing
    <2> QED
        BY <1>0, <1>1, <2>1 DEF Standing
<1>6. Anchoring'
    <2>1. Recent' <=> Recent
        BY <1>0, <1>1 DEF Recent
    <2> QED
        BY <1>0, <1>1, <2>1 DEF Anchoring
<1> QED
    BY <1>2, <1>3, <1>4, <1>5, <1>6 DEF PlayoutInv

\* A tick that is fired is late by what the burst catches up with at most,
\* and on time when it moves the schedule.
LEMMA Fires ==
    ASSUME PlayoutInv, Due, Fire
    PROVE  /\ room' \in [tick : Ticks, due : 1..(Horizon + 1), stalled : Nat]
           /\ room'.tick = room.tick + 1 /\ room'.tick < room'.due /\ room'.due <= now + 1
           /\ Base(room') \in Int
           /\ now - (Base(room') + room'.tick) \in 0..CatchUpTicks
           /\ Base(room') # Base(room) => now - (Base(room') + room'.tick) = 0
<1> DEFINE next == room.due + 1
           due == IF next <= now /\ now - next + 1 > CatchUpTicks THEN now + 1 ELSE next
<1>0. /\ room \in [tick : Ticks, due : 1..(Horizon + 1), stalled : Nat] /\ now \in 0..Horizon
      /\ room.tick < room.due /\ room.due <= now /\ Horizon \in Nat /\ CatchUpTicks \in Nat
    BY Limits DEF PlayoutInv, Typed, Timely, Due, Ticks
<1>1. room' = [room EXCEPT !.tick = @ + 1, !.due = due]
    BY DEF Fire
<1>2. room.tick \in 0..Horizon /\ room.due \in Int /\ room.stalled \in Nat
    BY <1>0 DEF Ticks
<1>3. due \in 1..(Horizon + 1) /\ due <= now + 1 /\ room.tick + 1 < due /\ room.tick + 1 \in 0..Horizon
    BY <1>0, <1>2
<1>4. room'.tick = room.tick + 1 /\ room'.due = due /\ room'.stalled = room.stalled
    BY <1>0, <1>1
<1>5. due = now + 1 \/ (due = room.due + 1 /\ now - room.due <= CatchUpTicks)
    BY <1>0, <1>2
<1> HIDE DEF due
<1>6. Base(room') = due - (room.tick + 2) /\ Base(room) = room.due - (room.tick + 1)
    BY <1>2, <1>3, <1>4 DEF Base
<1>7. now - (Base(room') + room'.tick) = now - due + 1
    BY <1>0, <1>2, <1>3, <1>4, <1>6
<1>8. room' \in [tick : Ticks, due : 1..(Horizon + 1), stalled : Nat]
    BY <1>0, <1>1, <1>2, <1>3 DEF Ticks
<1>9. now - due + 1 \in 0..CatchUpTicks
    BY <1>0, <1>2, <1>3, <1>5
<1>10. Base(room') # Base(room) => now - due + 1 = 0
    BY <1>0, <1>2, <1>3, <1>5, <1>6
<1> QED
    BY <1>2, <1>3, <1>4, <1>6, <1>7, <1>8, <1>9, <1>10

LEMMA RoomTickStep ==
    ASSUME PlayoutInv, RoomTick, UNCHANGED history
    PROVE  PlayoutInv'
<1>0. /\ Typed /\ Timely /\ Sending /\ Standing /\ Anchoring
      /\ now' = now /\ interp' = interp /\ heard' = heard
      /\ taken' = taken /\ base' = base /\ streak' = streak /\ last' = last /\ plain' = plain
    BY DEF PlayoutInv, RoomTick, history
<1>1. /\ room' \in [tick : Ticks, due : 1..(Horizon + 1), stalled : Nat]
      /\ room'.tick = room.tick + 1 /\ room'.tick < room'.due /\ room'.due <= now + 1
      /\ Base(room') \in Int
      /\ now - (Base(room') + room'.tick) \in 0..CatchUpTicks
      /\ Base(room') # Base(room) => now - (Base(room') + room'.tick) = 0
    BY Fires DEF RoomTick
<1>2. Standing' /\ Anchoring'
    BY <1>0, Unmoved DEF RoomTick
<1>3. room.tick \in Int /\ room'.tick \in Ticks /\ room'.tick \in Int /\ now \in Ticks /\ now \in Int
    BY <1>0, <1>1, Limits DEF Typed, Ticks
<1>4. CASE link' = Append(link, [kind |-> "Snapshot", tick |-> room'.tick, stamp |-> now, base |-> Base(room')])
    <2> DEFINE m == [kind |-> "Snapshot", tick |-> room'.tick, stamp |-> now, base |-> Base(room')]
    <2>1. /\ m \in Message /\ m.kind = "Snapshot" /\ m.tick = room'.tick /\ m.stamp = now /\ m.base = Base(room')
        BY <1>1, <1>3 DEF Message
    <2>2. link' = Append(link, m)
        BY <1>4
    <2> HIDE DEF m
    <2>3. Lateness(m) = now - (Base(room') + room'.tick)
        BY <2>1 DEF Lateness
    <2>4. Fit(m)
        BY <1>1, <2>1, <2>3 DEF Fit
    <2>5. \A tick \in Ticks : \A sched : UpTo(room, tick, sched) => After(tick, sched, m)
        <3> SUFFICES ASSUME NEW tick \in Ticks, NEW sched, UpTo(room, tick, sched)
                     PROVE  After(tick, sched, m)
            OBVIOUS
        <3>1. tick \in Int
            BY Limits DEF Ticks
        <3>2. tick < m.tick
            BY <1>1, <1>3, <2>1, <3>1 DEF UpTo
        <3>3. m.tick = tick + 1 => sched = Base(room)
            BY <1>1, <1>3, <2>1, <3>1 DEF UpTo
        <3> QED
            BY <1>1, <2>1, <2>3, <3>2, <3>3 DEF After
    <2>6. UpTo(room', m.tick, m.base)
        BY <1>3, <2>1 DEF UpTo
    <2>7. Sending' /\ link' \in Seq(Message)
          /\ \A n \in DOMAIN link' : link'[n] = m \/ (n \in DOMAIN link /\ link'[n] = link[n])
        BY <1>0, <2>1, <2>2, <2>4, <2>5, <2>6, LinkGrows
    <2>8. Typed'
        BY <1>0, <1>1, <2>7 DEF Typed
    <2>9. Timely'
        <3>1. now <= now
            BY <1>3
        <3>2. \A n \in DOMAIN link' : link'[n].stamp <= now
            BY <1>0, <2>1, <2>7, <3>1 DEF Timely
        <3> QED
            BY <1>0, <1>1, <3>2 DEF Timely
    <2> QED
        BY <1>2, <2>7, <2>8, <2>9 DEF PlayoutInv
<1>5. CASE link' = link
    <2>1. \A tick \in Ticks : \A sched : UpTo(room, tick, sched) => UpTo(room', tick, sched)
        <3> SUFFICES ASSUME NEW tick \in Ticks, NEW sched, UpTo(room, tick, sched)
                     PROVE  UpTo(room', tick, sched)
            OBVIOUS
        <3>1. tick \in Int
            BY Limits DEF Ticks
        <3> QED
            BY <1>1, <1>3, <3>1 DEF UpTo
    <2>2. Sending'
        BY <1>0, <1>5, <2>1, LinkStays
    <2>3. Typed'
        BY <1>0, <1>1, <1>5 DEF Typed
    <2>4. Timely'
        BY <1>0, <1>1, <1>5 DEF Timely
    <2> QED
        BY <1>2, <2>2, <2>3, <2>4 DEF PlayoutInv
<1> QED
    BY <1>4, <1>5 DEF RoomTick

LEMMA StallStep ==
    ASSUME PlayoutInv, Stall, UNCHANGED history
    PROVE  PlayoutInv'
<1>0. /\ Typed /\ Timely /\ Sending /\ Standing /\ Anchoring
      /\ now' = now /\ interp' = interp /\ heard' = heard /\ link' = link
      /\ taken' = taken /\ base' = base /\ streak' = streak /\ last' = last /\ plain' = plain
    BY DEF PlayoutInv, Stall, history
<1>1. PICK length \in Stalls : room' = [room EXCEPT !.stalled = now + length]
    BY DEF Stall
<1>2. now \in Nat /\ length \in Nat /\ room \in [tick : Ticks, due : 1..(Horizon + 1), stalled : Nat]
    BY <1>0, Limits, PlayoutAssumption DEF Typed, Ticks
<1>3. /\ room' \in [tick : Ticks, due : 1..(Horizon + 1), stalled : Nat]
      /\ room'.tick = room.tick /\ room'.due = room.due
    BY <1>1, <1>2
<1>4. Standing' /\ Anchoring'
    BY <1>0, Unmoved DEF Stall
<1>5. Sending'
    <2>1. \A tick \in Ticks : \A sched : UpTo(room, tick, sched) => UpTo(room', tick, sched)
        BY <1>3 DEF UpTo, Base
    <2> QED
        BY <1>0, <2>1, LinkStays
<1>6. Typed'
    BY <1>0, <1>3 DEF Typed
<1>7. Timely'
    BY <1>0, <1>3 DEF Timely
<1> QED
    BY <1>4, <1>5, <1>6, <1>7 DEF PlayoutInv

LEMMA WelcomeStep ==
    ASSUME PlayoutInv, Welcome, UNCHANGED history
    PROVE  PlayoutInv'
<1>0. /\ Typed /\ Timely /\ Sending /\ Standing /\ Anchoring
      /\ now' = now /\ interp' = interp /\ heard' = heard
      /\ taken' = taken /\ base' = base /\ streak' = streak /\ last' = last /\ plain' = plain
    BY DEF PlayoutInv, Welcome, history
<1>1. PICK starts \in BOOLEAN :
          /\ room' = IF starts THEN [tick |-> 0, due |-> now + 1, stalled |-> now] ELSE room
          /\ link' = Append(IF interp.buffer = <<>> THEN <<>> ELSE link,
                            [kind |-> "Welcome", tick |-> room'.tick, stamp |-> now, base |-> Base(room')])
    BY DEF Welcome
<1>2. /\ now \in 0..Horizon /\ Horizon \in Nat /\ room \in [tick : Ticks, due : 1..(Horizon + 1), stalled : Nat]
      /\ room.tick < room.due /\ room.due = now + 1
    <2>1. /\ now \in 0..Horizon /\ Horizon \in Nat /\ room \in [tick : Ticks, due : 1..(Horizon + 1), stalled : Nat]
          /\ room.tick < room.due /\ room.due <= now + 1
        BY <1>0, Limits DEF Typed, Timely, Ticks
    <2>2. ~(room.due <= now)
        BY DEF Welcome, Due
    <2> QED
        BY <2>1, <2>2
<1>3. /\ room' \in [tick : Ticks, due : 1..(Horizon + 1), stalled : Nat]
      /\ room'.tick < room'.due /\ room'.due = now + 1 /\ room'.tick \in Int
    <2>1. CASE starts
        BY <1>1, <1>2, <2>1 DEF Ticks
    <2>2. CASE ~starts
        BY <1>1, <1>2, <2>2 DEF Ticks
    <2> QED
        BY <2>1, <2>2
<1>4. Standing' /\ Anchoring'
    BY <1>0, Unmoved DEF Welcome
<1> DEFINE m == [kind |-> "Welcome", tick |-> room'.tick, stamp |-> now, base |-> Base(room')]
<1>5. Base(room') \in Int /\ Base(room') + room'.tick = now
    BY <1>2, <1>3 DEF Base
<1>6. m \in Message /\ m.kind = "Welcome" /\ m.tick = room'.tick /\ m.stamp = now /\ m.base = Base(room')
    BY <1>2, <1>3, <1>5 DEF Message, Ticks
<1>7. link' = Append(link, m) \/ link' = <<m>>
    <2>1. link' = Append(IF interp.buffer = <<>> THEN <<>> ELSE link, m)
        BY <1>1
    <2> HIDE DEF m
    <2>2. Append(<<>>, m) = <<m>>
        OBVIOUS
    <2> QED
        BY <2>1, <2>2
<1> HIDE DEF m
<1>8. Fit(m)
    <2>1. Lateness(m) = 0
        BY <1>2, <1>5, <1>6 DEF Lateness
    <2> QED
        BY <2>1, Limits DEF Fit
<1>9. \A tick \in Ticks : \A sched : UpTo(room, tick, sched) => After(tick, sched, m)
    BY <1>6 DEF After
<1>10. UpTo(room', m.tick, m.base)
    BY <1>3, <1>6 DEF UpTo
<1>11. Sending' /\ link' \in Seq(Message)
       /\ \A n \in DOMAIN link' : link'[n] = m \/ (n \in DOMAIN link /\ link'[n] = link[n])
    BY <1>0, <1>6, <1>7, <1>8, <1>9, <1>10, LinkGrows
<1>12. Typed'
    BY <1>0, <1>3, <1>11 DEF Typed
<1>13. Timely'
    <2>1. now <= now /\ now + 1 <= now + 1
        BY <1>2
    <2>2. \A n \in DOMAIN link' : link'[n].stamp <= now
        BY <1>0, <1>6, <1>11, <2>1 DEF Timely
    <2> QED
        BY <1>0, <1>3, <2>1, <2>2 DEF Timely
<1> QED
    BY <1>4, <1>11, <1>12, <1>13 DEF PlayoutInv

LEMMA PassStep ==
    ASSUME PlayoutInv, Pass, UNCHANGED history
    PROVE  PlayoutInv'
<1>0. /\ Typed /\ Timely /\ Sending /\ Standing /\ Anchoring
      /\ now' = now + 1 /\ now < Horizon /\ interp' = interp /\ heard' = heard /\ link' = link /\ room' = room
      /\ taken' = taken /\ base' = base /\ streak' = streak /\ last' = last /\ plain' = plain
    BY DEF PlayoutInv, Pass, history
<1>1. now \in 0..Horizon /\ Horizon \in Nat
    BY <1>0, Limits DEF Typed, Ticks
<1>2. now' \in Ticks
    BY <1>0, <1>1 DEF Ticks
<1>3. Standing' /\ Anchoring'
    BY <1>0, Unmoved DEF Pass
<1>4. Sending'
    BY <1>0, LinkStays
<1>5. Typed'
    BY <1>0, <1>2 DEF Typed
<1>6. Timely'
    <2>1. room.due <= now + 1 + 1
        <3>1. room.due \in Int /\ room.due <= now + 1
            BY <1>0 DEF Typed, Timely
        <3> QED
            BY <1>1, <3>1
    <2>2. \A n \in DOMAIN link : link[n].stamp <= now + 1
        <3> SUFFICES ASSUME NEW n \in DOMAIN link PROVE link[n].stamp <= now + 1
            OBVIOUS
        <3>1. link \in Seq(Message)
            BY <1>0 DEF Typed
        <3>2. link[n] \in Message
            BY <3>1
        <3>3. link[n].stamp \in Int /\ link[n].stamp <= now
            BY <1>0, <3>2, Limits DEF Message, Ticks, Timely
        <3> QED
            BY <1>1, <3>3
    <2>3. interp.rendered_at # None => interp.rendered_at <= now + 1
        <3>1. interp.rendered_at # None => interp.rendered_at \in Int /\ interp.rendered_at <= now
            BY <1>0, Limits DEF Typed, Interps, Maybe, Ticks, Timely
        <3> QED
            BY <1>1, <3>1
    <2> QED
        BY <1>0, <2>1, <2>2, <2>3 DEF Timely
<1> QED
    BY <1>3, <1>4, <1>5, <1>6 DEF PlayoutInv

LEMMA PlayoutInvStep == PlayoutInv /\ [MCNext]_<<playoutVars, history>> => PlayoutInv'
<1> SUFFICES ASSUME PlayoutInv, [MCNext]_<<playoutVars, history>>
             PROVE  PlayoutInv'
    OBVIOUS
<1>1. CASE Arrive /\ Note(Head(link))
    BY <1>1, ArriveStep
<1>2. CASE Frame /\ UNCHANGED history
    BY <1>2, FrameStep
<1>3. CASE RoomTick /\ UNCHANGED history
    BY <1>3, RoomTickStep
<1>4. CASE Stall /\ UNCHANGED history
    BY <1>4, StallStep
<1>5. CASE Welcome /\ UNCHANGED history
    BY <1>5, WelcomeStep
<1>6. CASE Pass /\ UNCHANGED history
    BY <1>6, PassStep
<1>7. CASE UNCHANGED <<playoutVars, history>>
    <2>1. /\ now' = now /\ room' = room /\ link' = link /\ interp' = interp /\ heard' = heard
          /\ taken' = taken /\ base' = base /\ streak' = streak /\ last' = last /\ plain' = plain
        BY <1>7 DEF playoutVars, history
    <2>2. Standing' /\ Anchoring'
        BY <2>1, <1>7, Unmoved DEF PlayoutInv, playoutVars
    <2>3. Sending'
        BY <2>1, LinkStays
    <2> QED
        BY <2>1, <2>2, <2>3 DEF PlayoutInv, Typed, Timely
<1> QED
    BY <1>1, <1>2, <1>3, <1>4, <1>5, <1>6, <1>7 DEF MCNext

----------------------------------------------------------------------------
(***************************************************************************)
(* The theorems.                                                           *)
(***************************************************************************)

\* The invariant holds: what is on its way follows the schedule, what is held
\* is owed but for its head, and the anchor is the least of its window
\* (src/net/interp.rs and src/net/authority.rs).
THEOREM PlayoutInvariant == MCSpec => []PlayoutInv
<1>1. PlayoutInv /\ [MCNext]_<<playoutVars, history>> => PlayoutInv'
    BY PlayoutInvStep
<1> QED
    BY <1>1, PlayoutInvInit, PTL DEF MCSpec

LEMMA KeptFromInv == PlayoutInv => StateKept
<1> SUFFICES ASSUME PlayoutInv PROVE StateKept
    OBVIOUS
<1>1. Typed /\ Standing
    BY DEF PlayoutInv
<1>2. PlayoutTypeOK
    <2>1. /\ now \in Ticks /\ room \in [tick : Ticks, due : 1..(Horizon + 1), stalled : Nat]
          /\ heard \in Seq(Ticks) /\ interp \in Interps
          /\ Len(interp.buffer) <= BufferedSnapshots /\ Len(interp.epochs) <= AnchorSnapshots
        BY <1>1 DEF Typed
    <2>2. \A n \in DOMAIN link : link[n].tick \in Ticks /\ link[n].stamp \in Ticks
        <3> SUFFICES ASSUME NEW n \in DOMAIN link PROVE link[n].tick \in Ticks /\ link[n].stamp \in Ticks
            OBVIOUS
        <3>1. link \in Seq(Message)
            BY <1>1 DEF Typed
        <3>2. link[n] \in Message
            BY <3>1
        <3> QED
            BY <3>2 DEF Message
    <2>3. /\ interp.buffer \in Seq(Ticks) /\ interp.orphaned \in Seq(Ticks)
          /\ interp.released \in Maybe(Ticks) /\ interp.holding \in BOOLEAN
          /\ interp.anchor \in Maybe(Int) /\ interp.offset \in Maybe(Int) /\ interp.render \in Maybe(Int)
          /\ interp.rendered_at \in Maybe(Ticks)
        BY <2>1 DEF Interps
    <2> QED
        BY <2>1, <2>2, <2>3 DEF PlayoutTypeOK
<1>3. CASE base = None
    <2>1. /\ interp.buffer = <<>> /\ interp.orphaned = <<>> /\ heard = <<>> /\ taken = <<>>
        BY <1>1, <1>3 DEF Standing, NewInterp
    <2>2. <<>> \in Seq(Ticks) /\ (\A n \in DOMAIN <<>> : Owed(interp, <<>>[n])) /\ (<<>> \o <<>>) \o <<>> = <<>>
          /\ \A n \in 2..Len(<<>>) : FALSE
        OBVIOUS
    <2>3. OwedOf(interp, <<>>) = <<>>
        BY <2>2, AllOwed
    <2>4. Ascends(<<>>)
        BY <2>2 DEF Ascends
    <2> QED
        BY <1>2, <2>1, <2>2, <2>3, <2>4 DEF StateKept
<1>4. CASE base # None
    BY <1>1, <1>2, <1>4 DEF Standing, Holding, StateKept
<1> QED
    BY <1>3, <1>4

\* The events of every snapshot read are handed over once and in order or
\* still owed, for any buffer and any cadence of frames: what a full buffer
\* lets go of is handed over first, and a frame that passes several hands
\* over all of them (Interpolator::accept, sample and owed).
THEOREM StateAlwaysKept == MCSpec => []StateKept
BY PlayoutInvariant, KeptFromInv, PTL

\* No step takes the picture back (Interpolator::advance).
THEOREM PictureForward == MCSpec => RenderForward
<1>1. PlayoutInv /\ [MCNext]_<<playoutVars, history>>
          => [interp.render # None /\ interp'.render # None => interp'.render >= interp.render]_playoutVars
    <2> SUFFICES ASSUME PlayoutInv, [MCNext]_<<playoutVars, history>>,
                        interp.render # None, interp'.render # None
                 PROVE  interp'.render >= interp.render
        OBVIOUS
    <2>0. interp \in Interps /\ interp.render \in Int
        BY DEF PlayoutInv, Typed, Interps, Maybe
    <2>1. CASE Frame
        BY <2>1, FrameLeaves
    <2>2. CASE Arrive
        <3> DEFINE m == link[1]
        <3>1. Head(link) = m /\ m \in Message /\ (base # None => After(last.tick, base, m)) /\ now \in Ticks
              /\ m.tick \in Ticks /\ m.stamp \in Ticks
            BY <2>2, HeadOfLink DEF Arrive, PlayoutInv, Typed, Message
        <3>2. \/ m.kind = "Welcome" /\ interp' \in Restarted(m.tick, m.stamp, now)
              \/ m.kind = "Snapshot" /\ interp' \in Accepted(m.tick, m.stamp, now)
            BY <2>2, <3>1 DEF Arrive
        <3> HIDE DEF m
        <3>3. CASE m.kind = "Welcome"
            BY <2>0, <3>1, <3>2, <3>3, Restarts
        <3>4. CASE m.kind = "Snapshot"
            <4>1. interp'.render = interp.render
                BY <2>2, <3>4, SnapshotRead DEF m
            <4> QED
                BY <2>0, <4>1
        <3> QED
            BY <3>2, <3>3, <3>4
    <2>3. CASE interp' = interp
        BY <2>0, <2>3
    <2> QED
        BY <2>1, <2>2, <2>3 DEF MCNext, RoomTick, Stall, Welcome, Pass, playoutVars
<1> QED
    BY <1>1, PlayoutInvariant, PTL DEF MCSpec, RenderForward

\* A frame leaves the picture near its target, or waiting for it
\* (Interpolator::advance and sample).
THEOREM PictureAlwaysNear == MCSpec => PictureNear
<1>1. PlayoutInv /\ [MCNext]_<<playoutVars, history>>
          => [Frame => Near(interp, Target(interp, now), Elapsed(interp, now), interp')]_playoutVars
    BY FrameLeaves
<1> QED
    BY <1>1, PlayoutInvariant, PTL DEF MCSpec, PictureNear

----------------------------------------------------------------------------
(***************************************************************************)
(* The schedule followed.                                                  *)
(***************************************************************************)

\* Messages in a row on one schedule and on time: the anchor nears it, and is
\* its own once the window holds no other.
AnchorNear ==
    /\ streak >= AnchorRun => interp.anchor \in (base - AnchorHold)..base
    /\ streak >= AnchorSnapshots => interp.anchor = base

LEMMA NearFromInv == PlayoutInv => AnchorNear
<1> SUFFICES ASSUME PlayoutInv, streak >= AnchorRun
             PROVE  /\ interp.anchor \in (base - AnchorHold)..base
                    /\ streak >= AnchorSnapshots => interp.anchor = base
    BY Limits DEF AnchorNear, PlayoutInv, Typed
<1> DEFINE window == interp.epochs
<1>1. /\ streak \in Nat /\ window \in Seq(Int) /\ Len(window) <= AnchorSnapshots
      /\ base \in Maybe(Int) /\ interp.anchor \in Maybe(Int)
    BY DEF PlayoutInv, Typed, Interps
<1>2. base # None /\ interp.anchor # None
    <2>1. streak # 0
        BY Limits
    <2> QED
        BY <2>1 DEF PlayoutInv, Standing
<1>3. /\ base \in Int /\ interp.anchor \in Int /\ Len(window) \in Nat /\ DOMAIN window = 1..Len(window)
      /\ AnchorHold \in Nat /\ streak >= 2
      /\ \A n \in 1..Len(window) : window[n] \in Int
    BY <1>1, <1>2, Limits DEF Maybe
<1>4. /\ IsLeast(interp.anchor, window)
      /\ \A n \in DOMAIN window : n > Len(window) - streak => window[n] = base
      /\ base - AnchorHold <= interp.anchor
    BY <1>2 DEF PlayoutInv, Anchoring
<1> HIDE DEF window
<1>5. PICK k \in 1..Len(window) : window[k] = interp.anchor
    BY <1>3, <1>4 DEF IsLeast
<1>6. interp.anchor <= base
    <2>1. Len(window) \in 1..Len(window) /\ Len(window) > Len(window) - streak
        <3>1. \A l, n \in Nat : \A j \in 1..l : n >= 2 => l \in 1..l /\ l > l - n
            OBVIOUS
        <3>2. k \in 1..Len(window) /\ Len(window) \in Nat /\ streak \in Nat /\ streak >= 2
            BY <1>1, <1>3, <1>5
        <3> QED
            BY <3>1, <3>2
    <2>2. window[Len(window)] = base
        BY <1>3, <1>4, <2>1
    <2> QED
        BY <1>3, <1>4, <2>1, <2>2 DEF IsLeast
<1>7. ASSUME streak >= AnchorSnapshots PROVE interp.anchor = base
    <2>1. AnchorSnapshots \in Nat
        BY Limits
    <2>2. k > Len(window) - streak
        BY <1>1, <1>3, <1>7, <2>1
    <2> QED
        BY <1>3, <1>4, <1>5, <2>2
<1> QED
    BY <1>3, <1>4, <1>6, <1>7 DEF window

\* A late snapshot of a burst leaves the anchor: the window still holds an
\* epoch that was not late.
LEMMA AnchorStays ==
    ASSUME PlayoutInv, PlayoutInv', Arrive, Note(Head(link)),
           interp.anchor = base, base' = base, taken' # <<>>, plain'
    PROVE  interp'.anchor = base
<1> DEFINE m == link[1]
           old == interp.epochs
           new == interp'.epochs
           late == Lateness(m)
           e == base + late
<1>1. Head(link) = m /\ m \in Message /\ Fit(m)
    BY HeadOfLink DEF Arrive
<1>2. /\ base' = m.base /\ last'.late = late
      /\ m.kind = "Snapshot"
      /\ m.base # base \/ last.late = 0 \/ late = last.late - 1
    <2>1. taken' = <<>> \/ m.kind = "Snapshot"
        BY <1>1 DEF Note, Message
    <2> QED
        BY <1>1, <2>1 DEF Note
<1>3. Windowed(old, interp.anchor, m.stamp - m.tick, new, interp'.anchor)
    BY <1>2, SnapshotRead DEF m
<1>4. /\ m.base = base /\ base \in Int /\ base # None /\ m.stamp - m.tick = e /\ late \in 0..CatchUpTicks
      /\ late \in Int /\ e \in Int
    BY <1>1, <1>2, Epochs, Limits DEF Fit
<1>5. /\ last.late \in 0..CatchUpTicks /\ IsLeast(base, old) /\ old[Len(old)] = base + last.late
      /\ old \in Seq(Int) /\ Len(old) <= AnchorSnapshots
    BY <1>4 DEF PlayoutInv, Anchoring, Typed, Interps
<1>6. \/ Len(new) <= CatchUpTicks + 1 - late
      \/ \E n \in DOMAIN new : n >= Len(new) - (CatchUpTicks + 1 - late) /\ new[n] = base
    <2>1. Recent'
        BY <1>4 DEF PlayoutInv, Anchoring
    <2> QED
        BY <1>2, <2>1 DEF Recent
<1>7. /\ new \in Seq(Int) /\ Len(new) \in 1..AnchorSnapshots /\ Len(new) <= Len(old) + 1
      /\ interp'.anchor \in Int /\ IsLeast(interp'.anchor, new)
      /\ new[Len(new)] = e
      /\ \A n \in 1..Len(new) - 1 : new[n] = old[n + Len(old) + 1 - Len(new)]
      /\ \/ Len(new) = 1 /\ (e - base > ClockSnap \/ base - e > ClockSnap)
         \/ old[Len(old)] = e /\ e - base > AnchorHold
         \/ Len(new) = Smaller(Len(old) + 1, AnchorSnapshots)
    <2>1. interp.anchor = base
        OBVIOUS
    <2> QED
        BY <1>3, <1>4, <2>1 DEF Windowed
<1>8. /\ CatchUpTicks \in Nat /\ ClockSnap \in Nat /\ AnchorHold \in Nat /\ CatchUpTicks <= ClockSnap
      /\ AnchorSnapshots = CatchUpTicks + 2
    BY Limits
<1> HIDE DEF m, old, new, late, e
<1>9. /\ Len(new) \in Nat /\ Len(new) >= 1 /\ DOMAIN new = 1..Len(new)
      /\ Len(old) \in Nat /\ DOMAIN old = 1..Len(old) /\ Len(new) <= Len(old) + 1
    BY <1>5, <1>7, <1>8
<1>10. ASSUME NEW n \in 1..Len(new) PROVE new[n] \in Int /\ base <= new[n]
    <2>1. CASE n = Len(new)
        BY <1>4, <1>7, <2>1 DEF e
    <2>2. CASE n # Len(new)
        <3> DEFINE j == n + Len(old) + 1 - Len(new)
        <3>1. j \in 1..Len(old) /\ n \in 1..Len(new) - 1
            <4>1. \A l, k \in Nat : \A i \in 1..l : i # l /\ l <= k + 1 => i + k + 1 - l \in 1..k /\ i \in 1..l - 1
                OBVIOUS
            <4>2. Len(old) \in Nat /\ Len(new) \in Nat /\ Len(new) <= Len(old) + 1
                BY <1>9
            <4> HIDE DEF j
            <4>3. n + Len(old) + 1 - Len(new) \in 1..Len(old) /\ n \in 1..Len(new) - 1
                BY <1>10, <2>2, <4>1, <4>2
            <4> QED
                BY <4>3 DEF j
        <3>2. new[n] = old[j]
            BY <1>7, <3>1
        <3> HIDE DEF j
        <3>3. old[j] \in Int /\ base <= old[j]
            BY <1>5, <1>9, <3>1 DEF IsLeast
        <3> QED
            BY <3>2, <3>3
    <2> QED
        BY <2>1, <2>2
<1>11. \E n \in 1..Len(new) : new[n] = base
    <2>1. CASE late = 0
        BY <1>4, <1>7, <1>9, <2>1 DEF e
    <2>2. CASE late # 0
        <3>1. last.late = 0 \/ late = last.late - 1
            BY <1>2, <1>4
        <3>2. ~(e - base > ClockSnap \/ base - e > ClockSnap)
            BY <1>4, <1>8 DEF e
        <3>3. old[Len(old)] # e
            BY <1>4, <1>5, <2>2, <3>1 DEF e
        <3>4. Len(new) = Smaller(Len(old) + 1, AnchorSnapshots)
            BY <1>7, <3>2, <3>3
        <3>5. CASE Len(new) <= CatchUpTicks + 1 - late
            <4>1. Len(new) < AnchorSnapshots
                BY <1>4, <1>8, <1>9, <2>2, <3>5
            <4>2. Len(new) = Len(old) + 1
                BY <1>8, <1>9, <3>4, <4>1 DEF Smaller
            <4>3. PICK j \in 1..Len(old) : old[j] = base
                BY <1>5, <1>9 DEF IsLeast
            <4>4. j \in 1..Len(new) - 1 /\ j \in 1..Len(new) /\ j + Len(old) + 1 - Len(new) = j
                BY <1>9, <4>2
            <4>5. new[j] = old[j + Len(old) + 1 - Len(new)]
                BY <1>7, <4>4
            <4> QED
                BY <4>3, <4>4, <4>5
        <3>6. CASE \E n \in DOMAIN new : n >= Len(new) - (CatchUpTicks + 1 - late) /\ new[n] = base
            BY <1>9, <3>6
        <3> QED
            BY <1>6, <3>5, <3>6
    <2> QED
        BY <2>1, <2>2
<1>12. PICK k \in 1..Len(new) : new[k] = interp'.anchor
    BY <1>7, <1>9 DEF IsLeast
<1>13. base <= interp'.anchor
    BY <1>10, <1>12
<1>14. interp'.anchor <= base
    BY <1>7, <1>9, <1>11 DEF IsLeast
<1> QED
    BY <1>4, <1>7, <1>13, <1>14

\* A schedule that restarted is followed, and a burst of late ticks is not
\* mistaken for one (Interpolator::note_anchor).
THEOREM AnchorAlwaysTrue == MCSpec => AnchorTrue
<1>1. PlayoutInv => AnchorNear
    BY NearFromInv
<1>2. PlayoutInv /\ PlayoutInv' /\ [MCNext]_<<playoutVars, history>>
          => [interp.anchor = base /\ base' = base /\ taken' # <<>> /\ plain'
                => interp'.anchor = base]_<<playoutVars, history>>
    <2> SUFFICES ASSUME PlayoutInv, PlayoutInv', [MCNext]_<<playoutVars, history>>,
                        interp.anchor = base, base' = base, taken' # <<>>, plain'
                 PROVE  interp'.anchor = base
        OBVIOUS
    <2>1. CASE Arrive /\ Note(Head(link))
        BY <2>1, AnchorStays
    <2>2. CASE Frame
        BY <2>2, FrameLeaves
    <2>3. CASE interp' = interp
        BY <2>3
    <2> QED
        BY <2>1, <2>2, <2>3 DEF MCNext, RoomTick, Stall, Welcome, Pass, playoutVars
<1> QED
    BY <1>1, <1>2, PlayoutInvariant, PTL DEF MCSpec, AnchorTrue, AnchorNear
=============================================================================
