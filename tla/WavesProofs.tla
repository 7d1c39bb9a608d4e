---------------------------- MODULE WavesProofs ----------------------------
(***************************************************************************)
(* What Waves promises, for any number of seats, lanes and waves of any    *)
(* size and for any pacing: no tank is lost or comes twice, no lane holds  *)
(* two, a won round is cleared, the seats queued are the ones that fell,   *)
(* and the next wave is neither late nor early.                            *)
(*                                                                         *)
(* The invariant joins what one phase of a frame leaves for another: how   *)
(* far the queue and the slots given out have come together (Supply), who  *)
(* waits and who does not (Waiting), and how long the director has held    *)
(* the breather against what it still owes (Clock).                        *)
(***************************************************************************)
EXTENDS MCWaves, FiniteSetTheorems, TLAPS

----------------------------------------------------------------------------
(***************************************************************************)
(* Numbers, counts and sequences.                                          *)
(***************************************************************************)

\* A set of naturals has a least one: from n on, the intervals 1..n shrink.
LEMMA LeastNat ==
    ASSUME NEW T, T \subseteq Nat, T # {}
    PROVE  \E n \in T : \A m \in T : n <= m
<1> DEFINE Up(n) == 1..n
           Ups == {Up(n) : n \in T}
<1>1. Ups \subseteq FiniteSubsetsOf(Nat) /\ Ups # {}
    <2>1. \A n \in T : Up(n) \in SUBSET Nat /\ IsFiniteSet(Up(n))
        BY FS_Interval
    <2> QED
        BY <2>1 DEF FiniteSubsetsOf
<1>2. PICK least \in Ups : \A u \in Ups : <<u, least>> \notin StrictSubsetOrdering(Nat)
    <2> HIDE DEF Ups
    <2> QED
        BY <1>1, FS_StrictSubsetOrderingWellFounded, WFMin
<1>3. PICK n \in T : least = Up(n)
    OBVIOUS
<1>4. \A m \in T : m < n => <<Up(m), Up(n)>> \in StrictSubsetOrdering(Nat)
    <2> SUFFICES ASSUME NEW m \in T, m < n
                 PROVE  <<Up(m), Up(n)>> \in StrictSubsetOrdering(Nat)
        OBVIOUS
    <2>1. n \in Up(n) /\ n \notin Up(m) /\ Up(m) \subseteq Up(n) /\ Up(n) \subseteq Nat /\ Up(m) \subseteq Nat
        OBVIOUS
    <2> QED
        BY <2>1 DEF StrictSubsetOrdering
<1>5. \A m \in T : ~(m < n)
    BY <1>2, <1>3, <1>4
<1> QED
    BY <1>5

LEMMA Plan ==
    /\ WaveSizes \in Seq(Nat \ {0}) /\ Waves \in Nat \ {0}
    /\ \A n \in 1..Waves : WaveSizes[n] \in Nat \ {0}
BY WavesAssumption DEF Waves

\* What TanksOf is to add up.
Adds(g, n) ==
    /\ g \in [0..n -> Nat]
    /\ \A k \in 0..n : g[k] = IF k = 0 THEN 0 ELSE g[k - 1] + WaveSizes[k]

\* The waves add up: there is such a function, up to each of them.
LEMMA Summed == \A n \in 0..Waves : \E g : Adds(g, n)
<1> DEFINE Bad == {n \in 0..Waves : ~ \E g : Adds(g, n)}
<1> SUFFICES ASSUME Bad # {} PROVE FALSE
    OBVIOUS
<1>1. PICK n \in Bad : \A m \in Bad : n <= m
    <2> HIDE DEF Bad
    <2>1. Bad \subseteq Nat
        BY Plan DEF Bad
    <2> QED
        BY <2>1, LeastNat
<1>2. n # 0
    <2>1. Adds([k \in 0..0 |-> 0], 0)
        BY DEF Adds
    <2> QED
        BY <2>1
<1>3. n - 1 \in 0..Waves /\ n - 1 \notin Bad
    BY <1>1, <1>2, Plan
<1>4. PICK g : Adds(g, n - 1)
    BY <1>3
<1>5. Adds([k \in 0..n |-> IF k = n THEN g[n - 1] + WaveSizes[n] ELSE g[k]], n)
    <2> DEFINE h == [k \in 0..n |-> IF k = n THEN g[n - 1] + WaveSizes[n] ELSE g[k]]
    <2>1. n \in 1..Waves /\ WaveSizes[n] \in Nat
        BY <1>2, Plan
    <2>2. \A k \in 0..n - 1 : g[k] \in Nat /\ g[k] = IF k = 0 THEN 0 ELSE g[k - 1] + WaveSizes[k]
        BY <1>4 DEF Adds
    <2>3. h \in [0..n -> Nat]
        BY <2>1, <2>2
    <2>4. \A k \in 0..n : h[k] = IF k = 0 THEN 0 ELSE h[k - 1] + WaveSizes[k]
        BY <2>1, <2>2
    <2> HIDE DEF h
    <2> QED
        BY <2>3, <2>4 DEF Adds
<1> QED
    BY <1>1, <1>5

\* TanksOf is that function: no tanks before the first wave, and each wave's
\* on top of those of the ones before.
LEMMA TanksAdd ==
    /\ TanksOf \in [0..Waves -> Nat] /\ TanksOf[0] = 0
    /\ \A n \in 1..Waves : TanksOf[n] = TanksOf[n - 1] + WaveSizes[n]
<1> DEFINE Sum(g) == [n \in 0..Waves |-> IF n = 0 THEN 0 ELSE g[n - 1] + WaveSizes[n]]
<1>1. Waves \in Nat
    BY Plan
<1>2. PICK g : Adds(g, Waves)
    BY <1>1, Summed
<1>3. g = Sum(g)
    BY <1>2 DEF Adds
<1>4. TanksOf = CHOOSE f : f = Sum(f)
    BY DEF TanksOf
<1>5. TanksOf = Sum(TanksOf)
    <2> HIDE DEF Sum
    <2> QED
        BY <1>3, <1>4
<1>6. \A n \in 0..Waves : TanksOf[n] = IF n = 0 THEN 0 ELSE TanksOf[n - 1] + WaveSizes[n]
    BY <1>5
<1>7. DOMAIN TanksOf = 0..Waves /\ TanksOf = [n \in 0..Waves |-> TanksOf[n]]
    BY <1>5
<1>8. \A n \in 0..Waves : TanksOf[n] \in Nat
    <2> DEFINE Bad == {n \in 0..Waves : TanksOf[n] \notin Nat}
    <2> SUFFICES ASSUME Bad # {} PROVE FALSE
        OBVIOUS
    <2>1. PICK n \in Bad : \A m \in Bad : n <= m
        <3>1. Bad \subseteq Nat
            BY <1>1
        <3> HIDE DEF Bad
        <3> QED
            BY <3>1, LeastNat
    <2>2. n # 0
        BY <1>6
    <2>3. n - 1 \in 0..Waves /\ TanksOf[n - 1] \in Nat /\ WaveSizes[n] \in Nat
        BY <2>1, <2>2, Plan
    <2> QED
        BY <1>6, <2>1, <2>2, <2>3
<1> HIDE DEF Sum
<1>9. TanksOf \in [0..Waves -> Nat]
    BY <1>7, <1>8
<1>10. TanksOf[0] = 0 /\ \A n \in 1..Waves : TanksOf[n] = TanksOf[n - 1] + WaveSizes[n]
    BY <1>1, <1>6
<1> QED
    BY <1>9, <1>10

\* The later the wave, the more tanks.
LEMMA TanksGrow ==
    \A a, b \in 0..Waves : a <= b => TanksOf[a] <= TanksOf[b]
<1> DEFINE Bad == {b \in 0..Waves : \E a \in 0..b : ~(TanksOf[a] <= TanksOf[b])}
<1>1. Bad = {}
    <2> SUFFICES ASSUME Bad # {} PROVE FALSE
        OBVIOUS
    <2>1. PICK n \in Bad : \A m \in Bad : n <= m
        <3>1. Bad \subseteq Nat
            BY Plan
        <3> HIDE DEF Bad
        <3> QED
            BY <3>1, LeastNat
    <2>2. PICK a \in 0..n : ~(TanksOf[a] <= TanksOf[n])
        OBVIOUS
    <2>3. a # n
        BY <2>2, TanksAdd
    <2>4. n \in 1..Waves /\ n - 1 \in 0..Waves /\ a \in 0..n - 1 /\ n - 1 \notin Bad
        BY <2>1, <2>2, <2>3, Plan
    <2>5. TanksOf[a] <= TanksOf[n - 1]
        BY <2>4
    <2>6. {TanksOf[a], TanksOf[n - 1], TanksOf[n]} \subseteq Nat /\ WaveSizes[n] \in Nat
        BY <2>4, TanksAdd, Plan
    <2>7. TanksOf[n] = TanksOf[n - 1] + WaveSizes[n]
        BY <2>4, TanksAdd
    <2> QED
        BY <2>2, <2>5, <2>6, <2>7
<1> QED
    BY <1>1, Plan

LEMMA CountTo ==
    ASSUME NEW n \in Nat
    PROVE  IsFiniteSet(1..n) /\ Cardinality(1..n) = n
<1>1. IsFiniteSet(1..n) /\ Cardinality(1..n) = IF 1 > n THEN 0 ELSE n - 1 + 1
    <2>1. 1 \in Int /\ n \in Int
        OBVIOUS
    <2> QED
        BY <2>1, FS_Interval, Zenon
<1> QED
    BY <1>1

\* InOrder lists the members of a set of seats, each once.
LEMMA Listed ==
    ASSUME NEW S, S \subseteq Seats
    PROVE  /\ InOrder(S) \in Seq(S) /\ Len(InOrder(S)) = Cardinality(S)
           /\ \A k, l \in 1..Len(InOrder(S)) : k # l => InOrder(S)[k] # InOrder(S)[l]
           /\ \A p \in S : \E k \in 1..Len(InOrder(S)) : InOrder(S)[k] = p
<1> DEFINE n == Cardinality(S)
           Upto(i) == {j \in S : j <= i}
           rank == [i \in S |-> Cardinality(Upto(i))]
           Nth(k) == CHOOSE p \in S : Cardinality(Upto(p)) = k
<1>1. IsFiniteSet(S) /\ n \in Nat /\ S \subseteq Nat
    BY WavesAssumption, FS_Subset, FS_CardinalityType
<1>2. \A i \in S : IsFiniteSet(Upto(i)) /\ Cardinality(Upto(i)) \in 1..n
    <2> TAKE i \in S
    <2>1. Upto(i) \subseteq S /\ i \in Upto(i)
        BY <1>1
    <2>2. IsFiniteSet(Upto(i)) /\ Cardinality(Upto(i)) <= n /\ Cardinality(Upto(i)) \in Nat
        BY <1>1, <2>1, FS_Subset, FS_CardinalityType
    <2>3. Cardinality(Upto(i)) # 0
        BY <2>1, <2>2, FS_EmptySet
    <2> QED
        BY <1>1, <2>2, <2>3
<1>3. \A i, j \in S : i # j => rank[i] # rank[j]
    <2>1. ASSUME NEW i \in S, NEW j \in S, i < j PROVE rank[i] # rank[j]
        <3>1. Upto(i) \subseteq Upto(j) /\ j \in Upto(j) /\ j \notin Upto(i)
            <4>1. {i, j} \subseteq Nat /\ \A k \in S : k \in Nat
                BY <1>1
            <4> QED
                BY <2>1, <4>1
        <3>2. Cardinality(Upto(i)) # Cardinality(Upto(j))
            BY <1>2, <3>1, FS_Subset
        <3> QED
            BY <3>2
    <2> TAKE i, j \in S
    <2>2. i < j \/ j < i \/ i = j
        BY <1>1
    <2> QED
        BY <2>1, <2>2
<1>4. rank \in Injection(S, 1..n)
    BY <1>2, <1>3 DEF Injection, IsInjective
<1>5. IsFiniteSet(1..n) /\ Cardinality(1..n) = n
    BY <1>1, CountTo
<1>6. rank \in Surjection(S, 1..n)
    BY <1>1, <1>4, <1>5, FS_Injection
<1>7. \A k \in 1..n : \E i \in S : Cardinality(Upto(i)) = k
    BY <1>6 DEF Surjection
<1>8. \A k \in 1..n : Nth(k) \in S /\ Cardinality(Upto(Nth(k))) = k
    BY <1>7
<1>9. \A i \in S : rank[i] \in 1..n /\ Nth(rank[i]) = i
    <2> TAKE i \in S
    <2>1. rank[i] \in 1..n /\ rank[i] = Cardinality(Upto(i))
        BY <1>2
    <2>2. Nth(rank[i]) \in S /\ rank[Nth(rank[i])] = rank[i]
        BY <1>8, <2>1
    <2> HIDE DEF rank, Nth
    <2> QED
        BY <1>3, <2>1, <2>2
<1>10. InOrder(S) = [k \in 1..n |-> Nth(k)]
    BY DEF InOrder
<1> HIDE DEF rank, Nth
<1>11. InOrder(S) \in Seq(S) /\ Len(InOrder(S)) = n
    <2>1. \A k \in 1..n : Nth(k) \in S
        BY <1>8
    <2> HIDE DEF n
    <2> QED
        BY <1>1, <1>10, <2>1
<1>12. \A k, l \in 1..n : k # l => Nth(k) # Nth(l)
    BY <1>8
<1>13. \A p \in S : \E k \in 1..n : Nth(k) = p
    BY <1>9
<1>14. \A k \in 1..n : InOrder(S)[k] = Nth(k)
    BY <1>10
<1> HIDE DEF Nth
<1> QED
    BY <1>11, <1>12, <1>13, <1>14

\* Seats that are queued behind others, each once.
LEMMA QueuedBehind ==
    ASSUME NEW r \in Seq(Seats), IsInjective(r),
           NEW S, S \subseteq Seats, S \cap Range(r) = {},
           NEW u, u = r \o InOrder(S)
    PROVE  u \in Seq(Seats) /\ IsInjective(u) /\ Range(u) = Range(r) \cup S
<1> DEFINE o == InOrder(S)
<1>1. o \in Seq(S) /\ o \in Seq(Seats)
    BY Listed
<1>2. /\ \A k, l \in 1..Len(o) : k # l => o[k] # o[l]
      /\ \A k \in 1..Len(o) : o[k] \in S
      /\ \A p \in S : \E k \in 1..Len(o) : o[k] = p
    <2>1. Len(o) \in Nat /\ DOMAIN o = 1..Len(o) /\ \A k \in 1..Len(o) : o[k] \in S
        <3> HIDE DEF o
        <3> QED
            BY <1>1
    <2>2. /\ \A k, l \in 1..Len(o) : k # l => o[k] # o[l]
          /\ \A p \in S : \E k \in 1..Len(o) : o[k] = p
        BY Listed
    <2> QED
        BY <2>1, <2>2
<1> HIDE DEF o
<1>3. /\ u \in Seq(Seats) /\ Len(u) = Len(r) + Len(o) /\ DOMAIN u = 1..Len(u)
      /\ \A k \in 1..Len(u) : u[k] = IF k <= Len(r) THEN r[k] ELSE o[k - Len(r)]
    BY <1>1 DEF o
<1>4. \A k \in 1..Len(r) : r[k] \in Range(r)
    BY DEF Range
<1>5. \A k \in 1..Len(u) : IF k <= Len(r) THEN u[k] \in Range(r) ELSE u[k] \in S
    BY <1>1, <1>2, <1>3, <1>4
<1>6. IsInjective(u)
    <2> SUFFICES ASSUME NEW k \in 1..Len(u), NEW l \in 1..Len(u), u[k] = u[l]
                 PROVE  k = l
        BY <1>3 DEF IsInjective
    <2>1. CASE k <= Len(r) /\ l <= Len(r)
        BY <1>3, <2>1 DEF IsInjective
    <2>2. CASE ~(k <= Len(r)) /\ ~(l <= Len(r))
        <3>1. k - Len(r) \in 1..Len(o) /\ l - Len(r) \in 1..Len(o)
            BY <1>1, <1>3, <2>2
        <3> QED
            BY <1>2, <1>3, <2>2, <3>1
    <2>3. CASE (k <= Len(r)) # (l <= Len(r))
        BY <1>5, <2>3
    <2> QED
        BY <2>1, <2>2, <2>3
<1>7. Range(u) \subseteq Range(r) \cup S
    BY <1>3, <1>5 DEF Range
<1>8. Range(r) \subseteq Range(u)
    <2> SUFFICES ASSUME NEW k \in 1..Len(r) PROVE r[k] \in Range(u)
        BY DEF Range
    <2>1. k \in 1..Len(u) /\ u[k] = r[k]
        BY <1>1, <1>3
    <2> QED
        BY <1>3, <2>1 DEF Range
<1>9. S \subseteq Range(u)
    <2> SUFFICES ASSUME NEW p \in S PROVE p \in Range(u)
        OBVIOUS
    <2>1. PICK k \in 1..Len(o) : o[k] = p
        BY <1>2
    <2>2. Len(r) + k \in 1..Len(u) /\ u[Len(r) + k] = p
        <3>1. Len(r) \in Nat /\ Len(o) \in Nat
            BY <1>1
        <3>2. Len(r) + k \in 1..Len(u) /\ ~(Len(r) + k <= Len(r)) /\ Len(r) + k - Len(r) = k
            BY <1>3, <3>1
        <3> QED
            BY <1>3, <2>1, <3>2
    <2> QED
        BY <1>3, <2>2 DEF Range
<1> QED
    BY <1>3, <1>6, <1>7, <1>8, <1>9

\* The first of them leaves.
LEMMA FirstLeaves ==
    ASSUME NEW r \in Seq(Seats), IsInjective(r), r # <<>>
    PROVE  /\ Tail(r) \in Seq(Seats) /\ IsInjective(Tail(r))
           /\ Head(r) \in Range(r) /\ Range(Tail(r)) = Range(r) \ {Head(r)}
<1>1. /\ Len(r) \in Nat \ {0} /\ Head(r) = r[1] /\ Tail(r) \in Seq(Seats)
      /\ Len(Tail(r)) = Len(r) - 1 /\ \A k \in 1..Len(r) - 1 : Tail(r)[k] = r[k + 1]
    OBVIOUS
<1>2. \A k, l \in 1..Len(r) : r[k] = r[l] => k = l
    BY DEF IsInjective
<1>3. DOMAIN Tail(r) = 1..Len(r) - 1 /\ DOMAIN r = 1..Len(r)
    BY <1>1
<1>4. IsInjective(Tail(r))
    <2> SUFFICES ASSUME NEW k \in 1..Len(r) - 1, NEW l \in 1..Len(r) - 1, Tail(r)[k] = Tail(r)[l]
                 PROVE  k = l
        BY <1>3 DEF IsInjective
    <2>1. k + 1 \in 1..Len(r) /\ l + 1 \in 1..Len(r)
        BY <1>1
    <2>2. r[k + 1] = r[l + 1]
        BY <1>1
    <2> QED
        BY <1>2, <2>1, <2>2
<1>5. \A k \in 1..Len(r) - 1 : Tail(r)[k] \in Range(r) \ {Head(r)}
    <2> TAKE k \in 1..Len(r) - 1
    <2>1. k + 1 \in 1..Len(r) /\ 1 \in 1..Len(r) /\ k + 1 # 1
        BY <1>1
    <2>2. Tail(r)[k] = r[k + 1] /\ r[k + 1] # r[1]
        BY <1>1, <1>2, <2>1
    <2> QED
        BY <1>1, <1>3, <2>1, <2>2 DEF Range
<1>6. Range(r) \ {Head(r)} \subseteq Range(Tail(r))
    <2> SUFFICES ASSUME NEW k \in 1..Len(r), r[k] # Head(r) PROVE r[k] \in Range(Tail(r))
        BY <1>3 DEF Range
    <2>1. k - 1 \in 1..Len(r) - 1
        BY <1>1
    <2>2. Tail(r)[k - 1] = r[k]
        BY <1>1, <2>1
    <2> QED
        BY <1>3, <2>1, <2>2 DEF Range
<1>7. Range(Tail(r)) \subseteq Range(r) \ {Head(r)}
    <2> SUFFICES ASSUME NEW k \in 1..Len(r) - 1 PROVE Tail(r)[k] \in Range(r) \ {Head(r)}
        BY <1>3 DEF Range
    <2> QED
        BY <1>5
<1>8. Head(r) \in Range(r)
    BY <1>1, <1>3 DEF Range
<1> QED
    BY <1>1, <1>4, <1>6, <1>7, <1>8

----------------------------------------------------------------------------
(***************************************************************************)
(* The invariant.                                                          *)
(***************************************************************************)

WaveRecord ==
    [called : 0..Waves, elapsed : 0..Timeout, gap : 0..Longest \cup {None},
     pending : 0..TanksOf[Waves], stagger : 0..Stagger,
     next_slot : 1..(TanksOf[Waves] + 1), returning : Seq(Seats)]

DirectorRecord == [relax : 0..Relax, breather : 0..BreatherMax]

TankRecord == [where : {"out", "rolling", "field", "wreck", "gone"},
               role : Roles \cup {None}, gate : Gates \cup {None}]

SeatRecord == [where : {"field", "wreck", "rolling"}, gate : Gates \cup {None}]

\* What was called has a slot or is queued, and no slot has come yet that was
\* not given out.
Supply ==
    /\ wave.pending + wave.next_slot - 1 = TanksOf[wave.called]
    /\ TanksIn("out") = {s \in Slots : s >= wave.next_slot}

\* A wave is fought for less than its timeout, and a breather is between two
\* waves and has not reached its maximum.
Running ==
    /\ IsInjective(wave.returning)
    /\ wave.gap = None => wave.elapsed < Timeout
    /\ wave.gap # None => /\ wave.called \in 1..Waves - 1
                          /\ director.breather < BreatherMax

WavesInv == WavesTypeOK /\ Supply /\ Running /\ LaneExclusive /\ WonMeansCleared

LEMMA TypeParts ==
    WavesTypeOK <=>
        /\ at \in {"rollin", "schedule", "window", "reroll", "fight"}
        /\ outcome \in {"Playing", "Won", "Lost"} /\ field \in BOOLEAN /\ bong \in BOOLEAN
        /\ wave \in WaveRecord /\ director \in DirectorRecord
        /\ tank \in [Slots -> TankRecord] /\ seat \in [Seats -> SeatRecord]
BY DEF WavesTypeOK, WaveRecord, DirectorRecord, TankRecord, SeatRecord

LEMMA Limits ==
    /\ {Gap, Timeout, NextWhenAlive, Stagger, MaxAlive, Relax, BreatherMin, BreatherMax, CalmRate} \subseteq Nat
    /\ BreatherMin <= BreatherMax /\ Timeout > 0 /\ BreatherMax > 0 /\ CalmRate > 0
    /\ None \notin Int /\ None \notin Roles /\ None \notin Gates /\ Busy \notin Gates /\ NoGate \notin Gates
    /\ Waves \in Nat /\ Waves > 0 /\ TanksOf[Waves] \in Nat /\ TanksOf[0] = 0
    /\ Longest \in Nat /\ Gap <= Longest /\ Relax <= Longest /\ BreatherMax <= Longest
<1>1. TanksOf[Waves] \in Nat
    BY TanksAdd, Plan
<1>2. /\ {Gap, Timeout, NextWhenAlive, Stagger, MaxAlive, Relax, BreatherMin, BreatherMax, CalmRate} \subseteq Nat
      /\ BreatherMin <= BreatherMax /\ Timeout > 0 /\ BreatherMax > 0 /\ CalmRate > 0
    BY WavesAssumption
<1>3. None \notin Int /\ None \notin Roles /\ None \notin Gates /\ Busy \notin Gates /\ NoGate \notin Gates
    BY WavesAssumption
<1>4. Longest \in Nat /\ Gap <= Longest /\ Relax <= Longest /\ BreatherMax <= Longest
    BY <1>2 DEF Longest, Larger
<1> QED
    BY <1>1, <1>2, <1>3, <1>4, TanksAdd, Plan

LEMMA WavesInvInit == WavesInit => WavesInv
<1> SUFFICES ASSUME WavesInit PROVE WavesInv
    OBVIOUS
<1>1. /\ wave.called = 0 /\ wave.elapsed = 0 /\ wave.gap = None /\ wave.pending = 0
      /\ wave.stagger = 0 /\ wave.next_slot = 1 /\ wave.returning = <<>>
    BY DEF WavesInit
<1>2. wave \in WaveRecord
    BY Limits DEF WavesInit, WaveRecord
<1>3. WavesTypeOK
    BY <1>2, TypeParts, Limits DEF WavesInit, DirectorRecord, TankRecord, SeatRecord
<1>4. \A s \in Slots : tank[s].where = "out" /\ s >= 1
    BY DEF WavesInit, Slots
<1>5. Supply
    BY <1>1, <1>4, Limits DEF Supply, TanksIn
<1>6. Running
    BY <1>1, Limits DEF Running, IsInjective
<1>7. LaneExclusive /\ WonMeansCleared
    BY <1>4 DEF WavesInit, LaneExclusive, WonMeansCleared, TanksIn, SeatsIn
<1> QED
    BY <1>3, <1>5, <1>6, <1>7 DEF WavesInv

----------------------------------------------------------------------------
(***************************************************************************)
(* The lanes: tanks and seats that come, go and roll in.                   *)
(***************************************************************************)

\* A round that is on is not won yet.
LEMMA NotYetWon == outcome' = "Playing" => WonMeansCleared'
BY DEF WonMeansCleared

\* One tank that was out of its lane, or was in it, leaves the lanes as they
\* are; if it starts down a lane, the lane was free.
LEMMA TankLanes ==
    ASSUME tank \in [Slots -> TankRecord], LaneExclusive, NEW s, NEW r \in TankRecord,
           tank' = [tank EXCEPT ![s] = r], seat' = seat,
           r.where = "rolling" => r.gate \in FreeLanes
    PROVE  LaneExclusive' /\ tank' \in [Slots -> TankRecord]
<1>1. \A t \in Slots : tank'[t] = IF t = s THEN r ELSE tank[t]
    OBVIOUS
<1>2. tank' \in [Slots -> TankRecord]
    OBVIOUS
<1>3. \A t \in Slots : t \in TanksIn("rolling")' <=> tank'[t].where = "rolling"
    BY <1>2 DEF TanksIn
<1>4. SeatsIn("rolling")' = SeatsIn("rolling")
    BY DEF SeatsIn
<1>5. r.where = "rolling" => /\ \A t \in TanksIn("rolling") : tank[t].gate # r.gate
                             /\ \A p \in SeatsIn("rolling") : seat[p].gate # r.gate
    BY DEF FreeLanes
<1>6. \A t \in TanksIn("rolling")' : t \in Slots /\ (t # s => t \in TanksIn("rolling") /\ tank'[t] = tank[t])
    BY <1>1 DEF TanksIn
<1>7. s \in TanksIn("rolling")' => tank'[s] = r /\ r.where = "rolling"
    BY <1>1 DEF TanksIn
<1> QED
    BY <1>2, <1>4, <1>5, <1>6, <1>7 DEF LaneExclusive

LEMMA SeatLanes ==
    ASSUME seat \in [Seats -> SeatRecord], LaneExclusive, NEW p, NEW r \in SeatRecord,
           seat' = [seat EXCEPT ![p] = r], tank' = tank,
           r.where = "rolling" => r.gate \in FreeLanes
    PROVE  LaneExclusive' /\ seat' \in [Seats -> SeatRecord]
<1>1. \A q \in Seats : seat'[q] = IF q = p THEN r ELSE seat[q]
    OBVIOUS
<1>2. seat' \in [Seats -> SeatRecord]
    OBVIOUS
<1>3. TanksIn("rolling")' = TanksIn("rolling")
    BY DEF TanksIn
<1>4. r.where = "rolling" => /\ \A t \in TanksIn("rolling") : tank[t].gate # r.gate
                             /\ \A q \in SeatsIn("rolling") : seat[q].gate # r.gate
    BY DEF FreeLanes
<1>5. \A q \in SeatsIn("rolling")' : q \in Seats /\ (q # p => q \in SeatsIn("rolling") /\ seat'[q] = seat[q])
    BY <1>1 DEF SeatsIn
<1>6. p \in SeatsIn("rolling")' => seat'[p] = r /\ r.where = "rolling"
    BY <1>1 DEF SeatsIn
<1> QED
    BY <1>2, <1>3, <1>4, <1>5, <1>6 DEF LaneExclusive

\* A tank that has come already changes; the queue and the slots stay.
LEMMA TankChanges ==
    ASSUME WavesInv, outcome = "Playing", at' \in {"rollin", "schedule", "window", "reroll", "fight"},
           NEW s \in Slots, tank[s].where # "out", NEW r \in TankRecord, r.where # "out",
           tank' = [tank EXCEPT ![s] = r],
           r.where = "rolling" => r.gate \in FreeLanes,
           UNCHANGED <<field, outcome, wave, director, seat, bong>>
    PROVE  WavesInv'
<1>1. /\ tank \in [Slots -> TankRecord] /\ LaneExclusive
      /\ seat \in [Seats -> SeatRecord] /\ wave \in WaveRecord /\ director \in DirectorRecord
      /\ field \in BOOLEAN /\ bong \in BOOLEAN
    BY TypeParts DEF WavesInv
<1>2. LaneExclusive' /\ tank' \in [Slots -> TankRecord]
    BY <1>1, TankLanes
<1>3. WavesTypeOK'
    <2>1. at' \in {"rollin", "schedule", "window", "reroll", "fight"} /\ outcome' = "Playing"
        OBVIOUS
    <2> QED
        BY <1>1, <1>2, <2>1 DEF WavesTypeOK, WaveRecord, DirectorRecord, TankRecord, SeatRecord
<1>4. TanksIn("out")' = TanksIn("out")
    BY <1>1 DEF TanksIn
<1>5. Supply' /\ Running'
    BY <1>4 DEF WavesInv, Supply, Running
<1> QED
    BY <1>2, <1>3, <1>5, NotYetWon DEF WavesInv

\* A seat changes its place; who is queued may change with it.
LEMMA SeatChanges ==
    ASSUME WavesInv, outcome = "Playing", at' \in {"rollin", "schedule", "window", "reroll", "fight"},
           NEW p, NEW r \in SeatRecord,
           seat' = [seat EXCEPT ![p] = r],
           r.where = "rolling" => r.gate \in FreeLanes,
           NEW q \in Seq(Seats), IsInjective(q), NEW d \in 0..Stagger,
           wave' = [wave EXCEPT !.returning = q, !.stagger = d],
           UNCHANGED <<field, outcome, director, tank, bong>>
    PROVE  WavesInv'
<1>1. /\ tank \in [Slots -> TankRecord] /\ LaneExclusive
      /\ seat \in [Seats -> SeatRecord] /\ wave \in WaveRecord /\ director \in DirectorRecord
      /\ field \in BOOLEAN /\ bong \in BOOLEAN
    BY TypeParts DEF WavesInv
<1>2. LaneExclusive' /\ seat' \in [Seats -> SeatRecord]
    BY <1>1, SeatLanes
<1>3. /\ wave' \in WaveRecord /\ wave'.returning = q
      /\ wave'.called = wave.called /\ wave'.elapsed = wave.elapsed /\ wave'.gap = wave.gap
      /\ wave'.pending = wave.pending /\ wave'.next_slot = wave.next_slot
    BY <1>1 DEF WaveRecord
<1>4. WavesTypeOK'
    <2>1. at' \in {"rollin", "schedule", "window", "reroll", "fight"} /\ outcome' = "Playing"
        OBVIOUS
    <2> QED
        BY <1>1, <1>2, <1>3, <2>1 DEF WavesTypeOK, WaveRecord, DirectorRecord, TankRecord, SeatRecord
<1>5. Supply' /\ Running'
    BY <1>3 DEF WavesInv, Supply, Running, TanksIn
<1> QED
    BY <1>2, <1>4, <1>5, NotYetWon DEF WavesInv

----------------------------------------------------------------------------
(***************************************************************************)
(* The scheduler.                                                          *)
(***************************************************************************)

\* The director after a frame: its rest in its range, the breather as it was.
LEMMA ObservedDirector ==
    ASSUME director \in DirectorRecord, NEW team \in Pressures
    PROVE  Observed(team) \in DirectorRecord /\ Observed(team).breather = director.breather
BY Limits DEF Observed, DirectorRecord, Larger

\* A breather is no shorter than its minimum on a field map.
LEMMA BreatherStarts ==
    ASSUME NEW d \in DirectorRecord, field \in BOOLEAN
    PROVE  /\ BreatherLength(d) \in 0..Longest
           /\ field => BreatherLength(d) >= BreatherMin
           /\ ~field => BreatherLength(d) = Gap
<1>1. d.relax \in 0..Relax /\ Larger(Gap, d.relax) \in Nat /\ Larger(Gap, d.relax) <= Longest
    BY Limits DEF DirectorRecord, Larger
<1> DEFINE g == Larger(Gap, d.relax)
<1>2. BreatherLength(d) = IF field THEN Smaller(Larger(g, BreatherMin), BreatherMax) ELSE Gap
    BY DEF BreatherLength
<1> HIDE DEF g
<1>3. g \in Nat /\ g <= Longest
    BY <1>1 DEF g
<1> QED
    BY <1>2, <1>3, Limits DEF Larger, Smaller

\* What is left of it stays in its range.
LEMMA PacedLeft ==
    ASSUME NEW left \in 0..Longest, NEW team \in Pressures, NEW d,
           d.relax \in 0..Relax, d.breather \in Nat
    PROVE  /\ Paced(left, team, d) \in 0..Longest
           /\ d.breather >= BreatherMax => Paced(left, team, d) = 0
           /\ d.breather < BreatherMax => /\ Paced(left, team, d) >= d.relax
                                          /\ left >= BreatherMin - (d.breather - 1) =>
                                               Paced(left, team, d) >= BreatherMin - d.breather
                                          /\ Paced(left, team, d) = 0 =>
                                               d.relax = 0 /\ (team = "peak" => left = 0)
<1>1. /\ Paced(left, team, d) =
          LET rate == IF d.relax = 0 /\ team = "calm" THEN CalmRate ELSE 1
          IN  IF d.breather >= BreatherMax THEN 0
              ELSE IF team = "peak" THEN Larger(left, d.relax)
              ELSE Larger(Larger(left - rate, d.relax), Larger(BreatherMin - d.breather, 0))
    BY DEF Paced
<1>2. BreatherMin <= Longest
    BY Limits
<1>3. CASE d.breather >= BreatherMax
    BY <1>1, <1>3, Limits
<1>4. CASE d.breather < BreatherMax /\ team = "peak"
    BY <1>1, <1>4, Limits DEF Larger
<1>5. CASE d.breather < BreatherMax /\ team # "peak"
    <2> DEFINE rate == IF d.relax = 0 /\ team = "calm" THEN CalmRate ELSE 1
    <2>1. rate \in Nat
        BY Limits
    <2>2. Paced(left, team, d) = Larger(Larger(left - rate, d.relax), Larger(BreatherMin - d.breather, 0))
        BY <1>1, <1>5, Limits
    <2> HIDE DEF rate
    <2> QED
        BY <1>2, <1>5, <2>1, <2>2, Limits DEF Larger
<1> QED
    BY <1>3, <1>4, <1>5, Limits

\* The next wave's tanks and seats are queued behind the last one's.
LEMMA QueuedSeats ==
    ASSUME wave.returning \in Seq(Seats), IsInjective(wave.returning)
    PROVE  /\ Queued \in Seq(Seats) /\ IsInjective(Queued)
           /\ Range(Queued) = IF Cardinality(Seats) < 2 THEN Range(wave.returning)
                              ELSE Range(wave.returning) \cup SeatsIn("wreck")
<1> DEFINE r == wave.returning
<1>1. Fallen \subseteq Seats /\ Fallen \cap Range(r) = {} /\ Range(r) \cup Fallen = Range(r) \cup SeatsIn("wreck")
    BY DEF Fallen, SeatsIn
<1>2. CASE Cardinality(Seats) < 2
    BY <1>2 DEF Queued
<1>3. CASE ~(Cardinality(Seats) < 2)
    <2>1. Queued = r \o InOrder(Fallen)
        BY <1>3 DEF Queued
    <2> HIDE DEF r
    <2>2. r \in Seq(Seats) /\ IsInjective(r)
        BY DEF r
    <2> QED
        BY <1>1, <1>3, <2>1, <2>2, QueuedBehind DEF r
<1> QED
    BY <1>2, <1>3

LEMMA WaveCalled ==
    ASSUME WavesInv, wave.called < Waves, CallWave, tank' = tank,
           director'.breather \in 0..BreatherMax
    PROVE  /\ wave' \in WaveRecord /\ Supply' /\ Running'
           /\ wave'.called = wave.called + 1 /\ wave'.elapsed = 0 /\ wave'.gap = None
           /\ wave'.returning = Queued
<1>1. wave \in WaveRecord
    BY TypeParts DEF WavesInv
<1>2. Queued \in Seq(Seats) /\ IsInjective(Queued)
    BY <1>1, QueuedSeats DEF WavesInv, Running, WaveRecord
<1>3. /\ wave.called \in 0..Waves /\ wave.called + 1 \in 1..Waves
      /\ WaveSizes[wave.called + 1] \in Nat
      /\ wave.pending \in Nat /\ wave.next_slot \in Nat \ {0}
    <2>1. wave.called \in 0..Waves /\ wave.pending \in Nat /\ wave.next_slot \in Nat \ {0}
        BY <1>1, Limits DEF WaveRecord
    <2>2. wave.called + 1 \in 1..Waves
        BY <2>1, Limits
    <2> QED
        BY <2>1, <2>2, Plan
<1>4. TanksOf[wave.called + 1] = TanksOf[wave.called] + WaveSizes[wave.called + 1]
    <2>1. wave.called + 1 - 1 = wave.called
        BY <1>3
    <2> QED
        BY <1>3, <2>1, TanksAdd
<1>5. /\ TanksOf[wave.called + 1] <= TanksOf[Waves] /\ TanksOf[wave.called] \in Nat
      /\ TanksOf[wave.called + 1] \in Nat
    <2>1. wave.called \in 0..Waves /\ wave.called + 1 \in 0..Waves /\ Waves \in 0..Waves /\ wave.called + 1 <= Waves
        BY <1>3, Limits
    <2> QED
        BY <2>1, TanksGrow, TanksAdd
<1>6. wave.pending + wave.next_slot - 1 = TanksOf[wave.called]
    BY DEF WavesInv, Supply
<1>7. /\ wave'.called = wave.called + 1 /\ wave'.elapsed = 0 /\ wave'.gap = None
      /\ wave'.pending = wave.pending + WaveSizes[wave.called + 1]
      /\ wave'.stagger = 0 /\ wave'.next_slot = wave.next_slot /\ wave'.returning = Queued
    BY <1>1 DEF CallWave, WaveRecord
<1>8. wave'.pending \in 0..TanksOf[Waves]
    BY <1>3, <1>4, <1>5, <1>6, <1>7, Limits
<1>9. wave' \in WaveRecord
    <2>1. wave' = [called |-> wave.called + 1, elapsed |-> 0, gap |-> None, pending |-> wave'.pending,
                   stagger |-> 0, next_slot |-> wave.next_slot, returning |-> Queued]
        BY <1>1, <1>7 DEF CallWave, WaveRecord
    <2>2. wave.called + 1 \in 0..Waves /\ 0 \in 0..Timeout /\ 0 \in 0..Stagger
        BY <1>3, Limits
    <2>3. wave.next_slot \in 1..(TanksOf[Waves] + 1)
        BY <1>1 DEF WaveRecord
    <2> QED
        BY <1>2, <1>8, <2>1, <2>2, <2>3 DEF WaveRecord
<1>10. Supply'
    <2>1. wave'.pending + wave'.next_slot - 1 = TanksOf[wave'.called]
        BY <1>3, <1>4, <1>5, <1>6, <1>7
    <2>2. TanksIn("out")' = TanksIn("out") /\ TanksIn("out") = {s \in Slots : s >= wave.next_slot}
        BY DEF WavesInv, Supply, TanksIn
    <2> QED
        BY <1>7, <2>1, <2>2 DEF Supply
<1>11. Running'
    BY <1>2, <1>7, Limits DEF Running
<1> QED
    BY <1>7, <1>9, <1>10, <1>11

\* The director counts the breather and reads the team.
LEMMA CountedDirector ==
    ASSUME WavesInv, NEW team \in Pressures, wave.gap # None, field
    PROVE  /\ [Observed(team) EXCEPT !.breather = @ + 1] \in DirectorRecord
           /\ [Observed(team) EXCEPT !.breather = @ + 1].relax = Observed(team).relax
           /\ [Observed(team) EXCEPT !.breather = @ + 1].breather = director.breather + 1
<1>1. director \in DirectorRecord /\ director.breather < BreatherMax
    BY TypeParts DEF WavesInv, Running
<1>2. Observed(team) \in DirectorRecord /\ Observed(team).breather = director.breather
    BY <1>1, ObservedDirector
<1> QED
    BY <1>1, <1>2, Limits DEF DirectorRecord

\* The queue and the waves called are as they were.
SameQueue ==
    /\ wave'.called = wave.called /\ wave'.pending = wave.pending
    /\ wave'.next_slot = wave.next_slot /\ wave'.returning = wave.returning

\* A frame of a wave that is fought.
LEMMA WaveRunsTo ==
    ASSUME wave \in WaveRecord, wave.elapsed < Timeout, NEW g \in 0..Longest \cup {None},
           wave' = [wave EXCEPT !.elapsed = @ + 1, !.gap = g]
    PROVE  wave' \in WaveRecord /\ wave'.gap = g /\ wave'.elapsed = wave.elapsed + 1 /\ SameQueue
<1>1. wave'.gap = g /\ wave'.elapsed = wave.elapsed + 1 /\ SameQueue
    BY DEF WaveRecord, SameQueue
<1>2. wave.elapsed + 1 \in 0..Timeout
    <2>1. wave.elapsed \in 0..Timeout
        BY DEF WaveRecord
    <2> QED
        BY <2>1, Limits
<1>3. wave' = [called |-> wave.called, elapsed |-> wave.elapsed + 1, gap |-> g, pending |-> wave.pending,
               stagger |-> wave.stagger, next_slot |-> wave.next_slot, returning |-> wave.returning]
    BY DEF WaveRecord
<1>4. wave' \in WaveRecord
    BY <1>2, <1>3 DEF WaveRecord
<1> QED
    BY <1>1, <1>4

LEMMA WaveRuns ==
    ASSUME wave \in WaveRecord, wave.elapsed < Timeout, wave.gap = None,
           wave' = [wave EXCEPT !.elapsed = @ + 1]
    PROVE  wave' \in WaveRecord /\ wave'.gap = None /\ wave'.elapsed = wave.elapsed + 1 /\ SameQueue
<1>1. wave' = [wave EXCEPT !.elapsed = @ + 1, !.gap = None]
    BY DEF WaveRecord
<1> QED
    BY <1>1, WaveRunsTo

LEMMA ScheduleKeeps ==
    ASSUME WavesInv, NEW team \in Pressures, Schedule(team)
    PROVE  WavesInv'
<1>1. /\ tank \in [Slots -> TankRecord] /\ seat \in [Seats -> SeatRecord]
      /\ wave \in WaveRecord /\ director \in DirectorRecord
      /\ field \in BOOLEAN /\ bong \in BOOLEAN /\ outcome = "Playing"
    BY TypeParts DEF WavesInv, Schedule, Phase
<1>2. at' = "window" /\ UNCHANGED <<field, outcome, tank, seat, bong>>
    BY DEF Schedule, NextIs
<1>3. /\ wave.called \in 0..Waves /\ wave.elapsed \in 0..Timeout
      /\ wave.gap \in 0..Longest \cup {None}
    BY <1>1 DEF WaveRecord
<1>4. Observed(team) \in DirectorRecord /\ Observed(team).breather = director.breather
    BY <1>1, ObservedDirector
<1>5. wave' \in WaveRecord /\ director' \in DirectorRecord /\ Supply' /\ Running'
    <2>1. CASE FirstWave(team)
        <3>1. wave.called < Waves /\ CallWave /\ director' \in DirectorRecord
            BY <1>4, <2>1, Limits DEF FirstWave
        <3>2. director'.breather \in 0..BreatherMax
            BY <3>1 DEF DirectorRecord
        <3> QED
            BY <1>2, <3>1, <3>2, WaveCalled
    <2>2. CASE Breather(team)
        <3> DEFINE counted == IF field THEN [Observed(team) EXCEPT !.breather = @ + 1] ELSE director
                   left == IF field THEN Paced(wave.gap, team, counted) ELSE Larger(wave.gap - 1, 0)
        <3>1. /\ wave.gap # None /\ wave.gap \in 0..Longest /\ wave.called < Waves
              /\ director.breather < BreatherMax
            BY <1>3, <2>2, Limits DEF Breather, WavesInv, Running
        <3>2. counted \in DirectorRecord /\ (field => counted.breather = director.breather + 1)
            BY <1>1, <3>1, CountedDirector
        <3>3. counted.relax \in 0..Relax /\ counted.breather \in 0..BreatherMax /\ counted.breather \in Nat
            BY <3>2, Limits DEF DirectorRecord
        <3>4. director' = counted /\ IF left = 0 THEN CallWave ELSE wave' = [wave EXCEPT !.gap = left]
            BY <2>2 DEF Breather
        <3> HIDE DEF counted
        <3>5. left \in 0..Longest /\ (field /\ counted.breather >= BreatherMax => left = 0)
            BY <3>1, <3>3, PacedLeft, Limits DEF Larger
        <3> HIDE DEF left
        <3>6. CASE left = 0
            BY <1>2, <3>1, <3>2, <3>3, <3>4, <3>6, WaveCalled
        <3>7. CASE left # 0
            <4>1. /\ wave' \in WaveRecord /\ wave'.gap = left /\ wave'.called = wave.called
                  /\ wave'.pending = wave.pending /\ wave'.next_slot = wave.next_slot
                  /\ wave'.returning = wave.returning /\ wave'.elapsed = wave.elapsed
                BY <1>1, <3>4, <3>5, <3>7 DEF WaveRecord
            <4>2. Supply'
                BY <1>2, <4>1 DEF WavesInv, Supply, TanksIn
            <4>3. director'.breather < BreatherMax
                <5>1. CASE field
                    BY <3>3, <3>4, <3>5, <3>7, <5>1, Limits
                <5>2. CASE ~field
                    BY <3>1, <3>4, <5>2 DEF counted
                <5> QED
                    BY <5>1, <5>2
            <4>4. left # None
                BY <3>5, Limits
            <4>5. Running'
                BY <3>1, <4>1, <4>3, <4>4 DEF WavesInv, Running
            <4> QED
                BY <3>2, <3>4, <4>1, <4>2, <4>5
        <3> QED
            BY <3>6, <3>7
    <2>3. CASE Fought(team)
        <3>1. wave.gap = None /\ wave.elapsed < Timeout
            BY <2>3 DEF Fought, WavesInv, Running
        <3>2. CASE director' = Observed(team) /\ wave' = wave
            BY <1>2, <1>4, <1>1, <3>1, <3>2 DEF WavesInv, Supply, Running, TanksIn
        <3>3. CASE /\ wave.called < Waves /\ ~Over(wave.elapsed + 1)
                   /\ director' = Observed(team) /\ wave' = [wave EXCEPT !.elapsed = @ + 1]
            <4>1. wave.elapsed + 1 < Timeout
                BY <1>3, <3>3, Limits DEF Over
            <4>2. wave' \in WaveRecord /\ wave'.gap = None /\ wave'.elapsed = wave.elapsed + 1 /\ SameQueue
                BY <1>1, <1>3, <3>1, <3>3, WaveRuns
            <4>3. Supply'
                BY <1>2, <4>2 DEF WavesInv, Supply, TanksIn, SameQueue
            <4>4. Running'
                BY <4>1, <4>2 DEF WavesInv, Running, SameQueue
            <4> QED
                BY <1>4, <3>3, <4>2, <4>3, <4>4
        <3>4. CASE /\ wave.called < Waves /\ Over(wave.elapsed + 1)
                   /\ director' = [Observed(team) EXCEPT !.breather = 0]
                   /\ wave' = [wave EXCEPT !.elapsed = @ + 1, !.gap = BreatherLength(Observed(team))]
            <4>1. BreatherLength(Observed(team)) \in 0..Longest
                BY <1>1, <1>4, BreatherStarts
            <4>2. /\ wave' \in WaveRecord /\ wave'.gap = BreatherLength(Observed(team))
                  /\ wave'.elapsed = wave.elapsed + 1 /\ SameQueue
                <5> DEFINE g == BreatherLength(Observed(team))
                <5>1. g \in 0..Longest \cup {None} /\ wave' = [wave EXCEPT !.elapsed = @ + 1, !.gap = g]
                    BY <3>4, <4>1
                <5> HIDE DEF g
                <5>2. wave' \in WaveRecord /\ wave'.gap = g /\ wave'.elapsed = wave.elapsed + 1 /\ SameQueue
                    BY <1>1, <3>1, <5>1, WaveRunsTo
                <5> QED
                    BY <5>2 DEF g
            <4>3. director' \in DirectorRecord /\ director'.breather = 0
                BY <1>4, <3>4, Limits DEF DirectorRecord
            <4>4. wave.called \in 1..Waves - 1
                BY <1>3, <2>3, <3>4, Limits DEF Fought
            <4>5. wave'.gap # None
                BY <4>1, <4>2, Limits
            <4>6. Supply'
                BY <1>2, <4>2 DEF WavesInv, Supply, TanksIn, SameQueue
            <4>7. Running'
                BY <4>2, <4>3, <4>4, <4>5, Limits DEF WavesInv, Running, SameQueue
            <4> QED
                BY <4>2, <4>3, <4>6, <4>7
        <3> QED
            BY <2>3, <3>2, <3>3, <3>4 DEF Fought
    <2> QED
        BY <2>1, <2>2, <2>3 DEF Schedule
<1>6. WavesTypeOK'
    <2>1. at' \in {"rollin", "schedule", "window", "reroll", "fight"} /\ outcome' = "Playing"
        BY <1>1, <1>2
    <2> QED
        BY <1>1, <1>2, <1>5, <2>1 DEF WavesTypeOK, WaveRecord, DirectorRecord, TankRecord, SeatRecord
<1>7. LaneExclusive'
    BY <1>2 DEF WavesInv, LaneExclusive, TanksIn, SeatsIn
<1> QED
    BY <1>1, <1>2, <1>5, <1>6, <1>7, NotYetWon DEF WavesInv

----------------------------------------------------------------------------
(***************************************************************************)
(* The window a tank or a seat starts down a lane in.                      *)
(***************************************************************************)

\* The window is left shut for a while, and the queue is where it was.
LEMMA NobodyKeeps ==
    ASSUME WavesInv, outcome = "Playing", at' \in {"rollin", "schedule", "window", "reroll", "fight"},
           NEW pick, NobodyStarts(pick),
           UNCHANGED <<field, outcome, director, bong>>
    PROVE  WavesInv'
<1>1. /\ tank \in [Slots -> TankRecord] /\ LaneExclusive
      /\ seat \in [Seats -> SeatRecord] /\ wave \in WaveRecord /\ director \in DirectorRecord
      /\ field \in BOOLEAN /\ bong \in BOOLEAN
    BY TypeParts DEF WavesInv
<1>2. wave' = [wave EXCEPT !.stagger = Staggered] /\ tank' = tank /\ seat' = seat
    BY DEF NobodyStarts
<1>3. Staggered \in 0..Stagger
    BY <1>1, Limits DEF Staggered, Larger, WaveRecord
<1>4. wave' \in WaveRecord /\ wave'.elapsed = wave.elapsed /\ wave'.gap = wave.gap /\ SameQueue
    BY <1>1, <1>2, <1>3 DEF WaveRecord, SameQueue
<1>5. Supply' /\ Running'
    BY <1>2, <1>4 DEF WavesInv, Supply, Running, TanksIn, SameQueue
<1>6. WavesTypeOK'
    <2>1. at' \in {"rollin", "schedule", "window", "reroll", "fight"} /\ outcome' = "Playing"
        OBVIOUS
    <2> QED
        BY <1>1, <1>2, <1>4, <2>1 DEF WavesTypeOK, WaveRecord, DirectorRecord, TankRecord, SeatRecord
<1>7. LaneExclusive'
    BY <1>2 DEF WavesInv, LaneExclusive, TanksIn, SeatsIn
<1> QED
    BY <1>5, <1>6, <1>7, NotYetWon DEF WavesInv

\* A seat comes back: the first that is queued, along a free lane.
LEMMA ReturnKeeps ==
    ASSUME WavesInv, outcome = "Playing", at' \in {"rollin", "schedule", "window", "reroll", "fight"},
           NEW pick \in Picks, SeatReturns(pick),
           UNCHANGED <<field, outcome, director, bong>>
    PROVE  WavesInv'
<1>1. wave \in WaveRecord /\ IsInjective(wave.returning) /\ wave.returning # <<>>
    BY TypeParts DEF WavesInv, Running, SeatReturns
<1>2. wave.returning \in Seq(Seats)
    BY <1>1 DEF WaveRecord
<1>3. Tail(wave.returning) \in Seq(Seats) /\ IsInjective(Tail(wave.returning))
    BY <1>1, <1>2, FirstLeaves
<1>4. pick \in FreeLanes /\ pick \in Gates
    BY Limits DEF SeatReturns, Picks
<1> DEFINE p == Head(wave.returning)
           r == [where |-> "rolling", gate |-> pick]
           q == Tail(wave.returning)
<1>5. r \in SeatRecord /\ (r.where = "rolling" => r.gate \in FreeLanes)
    BY <1>4 DEF SeatRecord
<1>6. seat' = [seat EXCEPT ![p] = r] /\ wave' = [wave EXCEPT !.returning = q, !.stagger = Stagger] /\ tank' = tank
    BY DEF SeatReturns
<1>7. Stagger \in 0..Stagger
    BY Limits
<1> HIDE DEF p, r
<1> QED
    BY <1>3, <1>5, <1>6, <1>7, SeatChanges

\* A tank takes the next slot, which nobody had.
LEMMA SpawnKeeps ==
    ASSUME WavesInv, outcome = "Playing", at' \in {"rollin", "schedule", "window", "reroll", "fight"},
           NEW pick \in Picks, SpawnWaveTank(pick),
           UNCHANGED <<field, outcome, director, bong>>
    PROVE  WavesInv'
<1>1. /\ tank \in [Slots -> TankRecord] /\ LaneExclusive
      /\ seat \in [Seats -> SeatRecord] /\ wave \in WaveRecord /\ director \in DirectorRecord
      /\ field \in BOOLEAN /\ bong \in BOOLEAN
    BY TypeParts DEF WavesInv
<1>2. /\ wave.called \in 0..Waves /\ wave.pending \in 0..TanksOf[Waves]
      /\ wave.next_slot \in 1..(TanksOf[Waves] + 1) /\ wave.pending > 0
    BY <1>1 DEF WaveRecord, SpawnWaveTank, MaySpawn
<1>3. TanksOf[wave.called] <= TanksOf[Waves] /\ TanksOf[wave.called] \in Nat
    <2>1. Waves \in 0..Waves /\ wave.called <= Waves
        BY <1>2, Limits
    <2> QED
        BY <1>2, <2>1, TanksGrow, TanksAdd
<1>4. wave.pending + wave.next_slot - 1 = TanksOf[wave.called]
    BY DEF WavesInv, Supply
<1>5. Slot \in Slots /\ wave.next_slot + 1 \in 1..(TanksOf[Waves] + 1) /\ wave.pending - 1 \in 0..TanksOf[Waves]
    BY <1>2, <1>3, <1>4, Limits DEF Slot, Slots
<1>6. PICK r \in TankRecord : /\ tank' = [tank EXCEPT ![Slot] = r] /\ r.where # "out"
                              /\ r.where = "rolling" => r.gate \in FreeLanes
    <2>1. CASE pick \in Gates /\ tank' = [tank EXCEPT ![Slot] = [where |-> "rolling", role |-> None, gate |-> pick]]
        <3>1. pick \in FreeLanes
            BY <2>1, Limits DEF Picks
        <3>2. [where |-> "rolling", role |-> None, gate |-> pick] \in TankRecord
            BY <2>1 DEF TankRecord
        <3> QED
            BY <2>1, <3>1, <3>2
    <2>2. ASSUME NEW role \in Roles, tank' = [tank EXCEPT ![Slot] = [where |-> "field", role |-> role, gate |-> None]]
          PROVE  \E r \in TankRecord : /\ tank' = [tank EXCEPT ![Slot] = r] /\ r.where # "out"
                                       /\ r.where = "rolling" => r.gate \in FreeLanes
        <3>1. [where |-> "field", role |-> role, gate |-> None] \in TankRecord
            BY DEF TankRecord
        <3> QED
            BY <2>2, <3>1
    <2> QED
        BY <2>1, <2>2 DEF SpawnWaveTank
<1>7. wave' = [wave EXCEPT !.pending = @ - 1, !.next_slot = @ + 1, !.stagger = Stagger] /\ seat' = seat
    BY DEF SpawnWaveTank
<1>8. /\ wave'.called = wave.called /\ wave'.elapsed = wave.elapsed /\ wave'.gap = wave.gap
      /\ wave'.returning = wave.returning
      /\ wave'.pending = wave.pending - 1 /\ wave'.next_slot = wave.next_slot + 1
    BY <1>1, <1>7 DEF WaveRecord
<1>9. wave' \in WaveRecord
    <2>1. wave' = [called |-> wave.called, elapsed |-> wave.elapsed, gap |-> wave.gap,
                   pending |-> wave.pending - 1, stagger |-> Stagger,
                   next_slot |-> wave.next_slot + 1, returning |-> wave.returning]
        BY <1>1, <1>7 DEF WaveRecord
    <2>2. Stagger \in 0..Stagger
        BY Limits
    <2> QED
        BY <1>1, <1>5, <2>1, <2>2 DEF WaveRecord
<1>10. LaneExclusive' /\ tank' \in [Slots -> TankRecord]
    BY <1>1, <1>6, <1>7, TankLanes
<1>11. WavesTypeOK'
    <2>1. at' \in {"rollin", "schedule", "window", "reroll", "fight"} /\ outcome' = "Playing"
        OBVIOUS
    <2> QED
        BY <1>1, <1>7, <1>9, <1>10, <2>1 DEF WavesTypeOK, WaveRecord, DirectorRecord, TankRecord, SeatRecord
<1>12. Supply'
    <2>1. wave'.pending + wave'.next_slot - 1 = TanksOf[wave'.called]
        BY <1>2, <1>3, <1>4, <1>8
    <2>2. \A s \in Slots : tank[s].where = "out" <=> s >= Slot
        BY DEF WavesInv, Supply, TanksIn, Slot
    <2>3. \A s \in Slots : tank'[s] = IF s = Slot THEN r ELSE tank[s]
        BY <1>1, <1>5, <1>6
    <2>4. \A s \in Slots : s >= Slot /\ s # Slot <=> s >= Slot + 1
        BY <1>5 DEF Slots
    <2>5. \A s \in Slots : tank'[s].where = "out" <=> s >= Slot + 1
        BY <1>6, <2>2, <2>3, <2>4
    <2> QED
        BY <1>8, <2>1, <2>5 DEF Supply, TanksIn, Slot
<1>13. Running'
    BY <1>8 DEF WavesInv, Running
<1> QED
    BY <1>10, <1>11, <1>12, <1>13, NotYetWon DEF WavesInv

LEMMA WindowKeeps == WavesInv /\ Window => WavesInv'
<1> SUFFICES ASSUME WavesInv, Window PROVE WavesInv'
    OBVIOUS
<1>1. outcome = "Playing" /\ at' \in {"rollin", "schedule", "window", "reroll", "fight"}
    BY DEF Window, Phase, NextIs
<1>2. PICK pick \in Picks : SeatReturns(pick) \/ SpawnWaveTank(pick) \/ NobodyStarts(pick)
    BY DEF Window
<1>3. UNCHANGED <<field, outcome, director, bong>>
    BY DEF Window
<1> QED
    BY <1>1, <1>2, <1>3, ReturnKeeps, SpawnKeeps, NobodyKeeps

----------------------------------------------------------------------------
(***************************************************************************)
(* The other phases.                                                       *)
(***************************************************************************)

\* Tanks and seats that reach the end of their lanes, roll in again, fall or
\* are taken away.
LEMMA TankStep ==
    WavesInv /\ (TankEnters \/ Reroll \/ TankWrecked \/ WreckGone) => WavesInv'
<1> SUFFICES ASSUME WavesInv, TankEnters \/ Reroll \/ TankWrecked \/ WreckGone
             PROVE  WavesInv'
    OBVIOUS
<1>1. tank \in [Slots -> TankRecord]
    BY TypeParts DEF WavesInv
<1>2. /\ outcome = "Playing" /\ at' \in {"rollin", "schedule", "window", "reroll", "fight"}
      /\ UNCHANGED <<field, outcome, wave, director, seat, bong>>
    BY DEF TankEnters, Reroll, TankWrecked, WreckGone, Phase
<1>3. PICK s \in Slots, r \in TankRecord :
          /\ tank[s].where # "out" /\ r.where # "out" /\ tank' = [tank EXCEPT ![s] = r]
          /\ r.where = "rolling" => r.gate \in FreeLanes
    <2>1. CASE TankEnters
        <3>1. PICK s \in TanksIn("rolling") : \E role \in RolesOf(s) :
                  tank' = [tank EXCEPT ![s] = [where |-> "field", role |-> role, gate |-> None]]
            BY <2>1 DEF TankEnters
        <3> PICK role \in RolesOf(s) : tank' = [tank EXCEPT ![s] = [where |-> "field", role |-> role, gate |-> None]]
            BY <3>1
        <3>2. s \in Slots /\ tank[s].where = "rolling" /\ tank[s] \in TankRecord
            BY <1>1, <3>1 DEF TanksIn
        <3>3. [where |-> "field", role |-> role, gate |-> None] \in TankRecord
            BY <3>1, <3>2 DEF RolesOf, TankRecord
        <3> QED
            BY <3>1, <3>2, <3>3
    <2>2. CASE Reroll
        <3>1. PICK s \in TanksIn("field"), gate \in FreeLanes :
                  tank' = [tank EXCEPT ![s] = [where |-> "rolling", role |-> tank[s].role, gate |-> gate]]
            BY <2>2 DEF Reroll
        <3>2. s \in Slots /\ tank[s].where = "field" /\ tank[s] \in TankRecord /\ gate \in Gates
            BY <1>1, <3>1 DEF TanksIn, FreeLanes
        <3>3. [where |-> "rolling", role |-> tank[s].role, gate |-> gate] \in TankRecord
            BY <3>2 DEF TankRecord
        <3> QED
            BY <3>1, <3>2, <3>3
    <2>3. CASE TankWrecked \/ WreckGone
        <3>1. PICK s \in TanksIn("field") \cup TanksIn("wreck"), w \in {"wreck", "gone"} :
                  tank' = [tank EXCEPT ![s].where = w]
            BY <2>3 DEF TankWrecked, WreckGone
        <3>2. s \in Slots /\ tank[s].where # "out" /\ tank[s] \in TankRecord
            BY <1>1, <3>1 DEF TanksIn
        <3> DEFINE r == [tank[s] EXCEPT !.where = w]
        <3>3. r \in TankRecord /\ r.where = w
            BY <3>2 DEF TankRecord
        <3>4. tank' = [tank EXCEPT ![s] = r]
            BY <1>1, <3>1, <3>2
        <3> HIDE DEF r
        <3> QED
            BY <3>2, <3>3, <3>4
    <2> QED
        BY <2>1, <2>2, <2>3
<1> QED
    BY <1>2, <1>3, TankChanges

LEMMA SeatStep ==
    WavesInv /\ (SeatEnters \/ SeatWrecked) => WavesInv'
<1> SUFFICES ASSUME WavesInv, SeatEnters \/ SeatWrecked PROVE WavesInv'
    OBVIOUS
<1>1. /\ seat \in [Seats -> SeatRecord] /\ wave \in WaveRecord /\ IsInjective(wave.returning)
    BY TypeParts DEF WavesInv, Running
<1>2. /\ outcome = "Playing" /\ at' \in {"rollin", "schedule", "window", "reroll", "fight"}
      /\ UNCHANGED <<field, outcome, wave, director, tank, bong>>
    BY DEF SeatEnters, SeatWrecked, Phase
<1>3. PICK p \in Seats, r \in SeatRecord :
          seat' = [seat EXCEPT ![p] = r] /\ r.where # "rolling"
    <2>1. CASE SeatEnters
        <3>1. PICK p \in SeatsIn("rolling") : seat' = [seat EXCEPT ![p] = [where |-> "field", gate |-> None]]
            BY <2>1 DEF SeatEnters
        <3>2. p \in Seats /\ [where |-> "field", gate |-> None] \in SeatRecord
            BY <3>1 DEF SeatsIn, SeatRecord
        <3> QED
            BY <3>1, <3>2
    <2>2. CASE SeatWrecked
        <3>1. PICK p \in SeatsIn("field") : seat' = [seat EXCEPT ![p].where = "wreck"]
            BY <2>2 DEF SeatWrecked
        <3>2. p \in Seats /\ seat[p] \in SeatRecord
            BY <1>1, <3>1 DEF SeatsIn
        <3> DEFINE r == [seat[p] EXCEPT !.where = "wreck"]
        <3>3. r \in SeatRecord /\ r.where = "wreck"
            BY <3>2 DEF SeatRecord
        <3>4. seat' = [seat EXCEPT ![p] = r]
            BY <1>1, <3>1, <3>2
        <3> HIDE DEF r
        <3> QED
            BY <3>2, <3>3, <3>4
    <2> QED
        BY <2>1, <2>2
<1>4. /\ wave.returning \in Seq(Seats) /\ wave.stagger \in 0..Stagger
      /\ wave' = [wave EXCEPT !.returning = wave.returning, !.stagger = wave.stagger]
    BY <1>1, <1>2 DEF WaveRecord
<1> QED
    BY <1>1, <1>2, <1>3, <1>4, SeatChanges

\* A round is won once its last wave has come and nobody is left of it.
LEMMA EndKeeps == WavesInv /\ CheckRoundEnd => WavesInv'
<1> SUFFICES ASSUME WavesInv, CheckRoundEnd PROVE WavesInv'
    OBVIOUS
<1>1. /\ at' = "rollin" /\ UNCHANGED <<field, wave, director, tank, seat, bong>>
      /\ outcome' = IF Lost THEN "Lost" ELSE IF Won THEN "Won" ELSE "Playing"
    BY DEF CheckRoundEnd, NextIs
<1>2. WavesTypeOK'
    <2>1. at' \in {"rollin", "schedule", "window", "reroll", "fight"} /\ outcome' \in {"Playing", "Won", "Lost"}
        BY <1>1
    <2> QED
        BY <1>1, <2>1, TypeParts DEF WavesInv, WavesTypeOK
<1>3. Supply' /\ Running' /\ LaneExclusive'
    BY <1>1 DEF WavesInv, Supply, Running, LaneExclusive, TanksIn, SeatsIn
<1>4. WonMeansCleared'
    <2> SUFFICES ASSUME outcome' = "Won"
                 PROVE  /\ wave.called = Waves /\ wave.pending = 0 /\ Alive = 0
                        /\ SeatsIn("wreck") # Seats /\ bong
        BY <1>1 DEF WonMeansCleared, Alive, TanksIn, SeatsIn
    <2>1. Won /\ ~Lost
        BY <1>1
    <2>2. wave.called \in 0..Waves
        BY TypeParts DEF WavesInv, WaveRecord
    <2>3. TanksIn("field") \cup TanksIn("rolling") = {}
        BY <2>1 DEF Won, WavesFinished
    <2>4. Alive = 0
        BY <2>3, FS_EmptySet DEF Alive
    <2> QED
        BY <2>1, <2>2, <2>4, Limits DEF Won, Lost, WavesFinished
<1> QED
    BY <1>2, <1>3, <1>4 DEF WavesInv

\* A step that moves on, or takes the bong, leaves the rest.
LEMMA MoveKeeps == WavesInv /\ (RollinDone \/ RerollDone \/ BongFalls \/ UNCHANGED wavesVars) => WavesInv'
<1> SUFFICES ASSUME WavesInv, RollinDone \/ RerollDone \/ BongFalls \/ UNCHANGED wavesVars PROVE WavesInv'
    OBVIOUS
<1>1. /\ UNCHANGED <<field, outcome, wave, director, tank, seat>>
      /\ at' \in {"rollin", "schedule", "window", "reroll", "fight"} /\ bong' \in BOOLEAN
      /\ outcome = "Playing" \/ bong' = bong
    <2>1. at \in {"rollin", "schedule", "window", "reroll", "fight"} /\ bong \in BOOLEAN
        BY TypeParts DEF WavesInv
    <2> QED
        BY <2>1 DEF RollinDone, RerollDone, BongFalls, wavesVars, Phase, NextIs
<1>2. WavesTypeOK'
    <2>1. WavesTypeOK
        BY DEF WavesInv
    <2>2. {field', bong'} \subseteq BOOLEAN
        BY <1>1, <2>1 DEF WavesTypeOK
    <2> QED
        BY <1>1, <2>1, <2>2 DEF WavesTypeOK
<1>3. Supply' /\ Running' /\ LaneExclusive'
    BY <1>1 DEF WavesInv, Supply, Running, LaneExclusive, TanksIn, SeatsIn
<1>4. WonMeansCleared'
    BY <1>1 DEF WavesInv, WonMeansCleared, Alive, TanksIn, SeatsIn
<1> QED
    BY <1>2, <1>3, <1>4 DEF WavesInv

LEMMA WavesInvStep == WavesInv /\ [WavesNext]_wavesVars => WavesInv'
<1> SUFFICES ASSUME WavesInv, [WavesNext]_wavesVars PROVE WavesInv'
    OBVIOUS
<1>1. ASSUME NEW team \in Pressures, Schedule(team) PROVE WavesInv'
    BY <1>1, ScheduleKeeps
<1>2. CASE Window
    BY <1>2, WindowKeeps
<1>3. CASE TankEnters \/ Reroll \/ TankWrecked \/ WreckGone
    BY <1>3, TankStep
<1>4. CASE SeatEnters \/ SeatWrecked
    BY <1>4, SeatStep
<1>5. CASE CheckRoundEnd
    BY <1>5, EndKeeps
<1>6. CASE RollinDone \/ RerollDone \/ BongFalls \/ UNCHANGED wavesVars
    BY <1>6, MoveKeeps
<1> QED
    BY <1>1, <1>2, <1>3, <1>4, <1>5, <1>6 DEF WavesNext

LEMMA WavesInvariant == WavesSpec => []WavesInv
BY WavesInvInit, WavesInvStep, PTL DEF WavesSpec

\* Every tank of every wave called comes onto the field once: it is queued
\* still, or holds one of the slots given out (src/simulation/waves.rs,
\* call_wave and take_slot).
THEOREM NoTankLost == WavesSpec => []NoneLost
<1>1. WavesInv => NoneLost
    BY DEF WavesInv, Supply, NoneLost
<1> QED
    BY <1>1, WavesInvariant, PTL

\* No lane ever has two in it (src/simulation/waves.rs, free_lanes).
THEOREM LanesAreExclusive == WavesSpec => []LaneExclusive
<1>1. WavesInv => LaneExclusive
    BY DEF WavesInv
<1> QED
    BY <1>1, WavesInvariant, PTL

\* A won round is cleared (src/simulation/mod.rs, check_round_end).
THEOREM WonIsCleared == WavesSpec => []WonMeansCleared
<1>1. WavesInv => WonMeansCleared
    BY DEF WavesInv
<1> QED
    BY <1>1, WavesInvariant, PTL

----------------------------------------------------------------------------
(***************************************************************************)
(* With the round's past (MCWaves): who waits, and for how long.           *)
(***************************************************************************)

\* The seats queued are the wrecks of before the last wave.
Waiting ==
    /\ fell \in [Seats -> Nat] /\ \A p \in Seats : fell[p] <= wave.called
    /\ Range(wave.returning) = {p \in SeatsIn("wreck") : Cardinality(Seats) > 1 /\ fell[p] < wave.called}

\* What a breather has left against how long it has run, and what the
\* director owes against when the team was last at its peak.
Breathing ==
    /\ since <= wave.elapsed + rested
    /\ field => rested = director.breather /\ wave.gap >= BreatherMin - rested
    /\ ~field => rested + wave.gap = Gap /\ (wave.gap = 0 => rested = 0)

Clock ==
    /\ quiet \in 0..Relax /\ {rested, since} \subseteq Nat
    /\ field => director.relax = Relax - quiet
    /\ wave.gap = None => since <= wave.elapsed
    /\ wave.gap # None => Breathing

PastInv == WavesInv /\ Waiting /\ Clock

\* A step is the scheduler's, or leaves the wave's clock and the director.
Untimed ==
    /\ wave'.called = wave.called /\ wave'.elapsed = wave.elapsed /\ wave'.gap = wave.gap
    /\ UNCHANGED <<field, director, quiet, rested, since>>

LEMMA WaitingInit == MCInit => Waiting /\ Clock
<1> SUFFICES ASSUME MCInit PROVE Waiting /\ Clock
    OBVIOUS
<1>1. /\ wave.called = 0 /\ wave.elapsed = 0 /\ wave.gap = None /\ wave.returning = <<>>
      /\ director.relax = 0 /\ fell = [p \in Seats |-> 0] /\ quiet = Relax /\ rested = 0 /\ since = 0
    BY DEF MCInit, WavesInit
<1>2. SeatsIn("wreck") = {}
    BY DEF MCInit, WavesInit, SeatsIn
<1>3. Range(wave.returning) = {}
    BY <1>1 DEF Range
<1> QED
    BY <1>1, <1>2, <1>3, Limits DEF Waiting, Clock

LEMMA PastStep ==
    MCNext => \/ \E team \in Pressures : Schedule(team) /\ NoteSchedule(team)
              \/ SeatWrecked /\ NoteFall
              \/ /\ TankEnters \/ SeatEnters \/ RollinDone \/ Window \/ Reroll \/ RerollDone
                    \/ TankWrecked \/ BongFalls \/ WreckGone \/ CheckRoundEnd
                 /\ UNCHANGED <<fell, quiet, rested, since>>
BY DEF MCNext, history

LEMMA PastIsWaves == [MCNext]_<<wavesVars, history>> => [WavesNext]_wavesVars
BY PastStep DEF WavesNext

\* Queueing the wrecks: a wave that is called queues every wreck there is.
LEMMA CallQueues ==
    ASSUME WavesInv, Waiting, wave.called \in Nat,
           wave'.called = wave.called + 1, wave'.returning = Queued,
           UNCHANGED <<fell, seat>>
    PROVE  Waiting'
<1>1. wave.returning \in Seq(Seats) /\ IsInjective(wave.returning)
    BY TypeParts DEF WavesInv, Running, WaveRecord
<1>2. Range(Queued) = IF Cardinality(Seats) < 2 THEN Range(wave.returning)
                      ELSE Range(wave.returning) \cup SeatsIn("wreck")
    BY <1>1, QueuedSeats
<1>3. Cardinality(Seats) \in Nat
    BY WavesAssumption, FS_CardinalityType
<1>4. \A p \in Seats : fell[p] \in Nat /\ fell[p] <= wave.called /\ fell[p] < wave.called + 1
    BY DEF Waiting
<1>5. SeatsIn("wreck")' = SeatsIn("wreck") /\ SeatsIn("wreck") \subseteq Seats
    BY DEF SeatsIn
<1>6. Range(wave'.returning) = {p \in SeatsIn("wreck") : Cardinality(Seats) > 1 /\ fell[p] < wave.called + 1}
    <2>1. CASE Cardinality(Seats) < 2
        <3>1. ~(Cardinality(Seats) > 1)
            BY <1>3, <2>1
        <3> QED
            BY <1>2, <2>1, <3>1 DEF Waiting
    <2>2. CASE ~(Cardinality(Seats) < 2)
        <3>1. Cardinality(Seats) > 1
            BY <1>3, <2>2
        <3> QED
            BY <1>2, <1>4, <1>5, <2>2, <3>1 DEF Waiting
    <2> QED
        BY <2>1, <2>2
<1> QED
    BY <1>4, <1>5, <1>6 DEF Waiting

\* Nothing that decides who waits changes.
LEMMA WaitingStays ==
    ASSUME Waiting, wave'.called = wave.called, wave'.returning = wave.returning, fell' = fell,
           SeatsIn("wreck")' = SeatsIn("wreck")
    PROVE  Waiting'
BY DEF Waiting

LEMMA ScheduleWaiting ==
    ASSUME WavesInv, Waiting, NEW team \in Pressures, Schedule(team), fell' = fell
    PROVE  Waiting'
<1>1. wave \in WaveRecord /\ wave.called \in Nat
    BY TypeParts, Limits DEF WavesInv, WaveRecord
<1>2. seat' = seat /\ SeatsIn("wreck")' = SeatsIn("wreck")
    BY DEF Schedule, SeatsIn
<1>3. CASE CallWave
    <2>1. wave'.called = wave.called + 1 /\ wave'.returning = Queued
        BY <1>1, <1>3 DEF CallWave, WaveRecord
    <2> QED
        BY <1>1, <1>2, <2>1, CallQueues
<1>4. CASE ~CallWave
    <2>1. wave'.called = wave.called /\ wave'.returning = wave.returning
        BY <1>1, <1>4 DEF Schedule, FirstWave, Breather, Fought, WaveRecord
    <2> QED
        BY <1>2, <2>1, WaitingStays
<1> QED
    BY <1>3, <1>4

LEMMA WindowWaiting ==
    ASSUME WavesInv, Waiting, Window, fell' = fell
    PROVE  Waiting' /\ wave'.called = wave.called /\ wave'.elapsed = wave.elapsed /\ wave'.gap = wave.gap
<1>1. /\ wave \in WaveRecord /\ IsInjective(wave.returning) /\ wave.returning \in Seq(Seats)
      /\ seat \in [Seats -> SeatRecord]
    BY TypeParts DEF WavesInv, Running, WaveRecord
<1>2. PICK pick \in Picks : SeatReturns(pick) \/ SpawnWaveTank(pick) \/ NobodyStarts(pick)
    BY DEF Window
<1>3. CASE SeatReturns(pick)
    <2> DEFINE p == Head(wave.returning)
               r == [where |-> "rolling", gate |-> pick]
    <2>1. wave.returning # <<>> /\ seat' = [seat EXCEPT ![p] = r] /\ r.where = "rolling"
        BY <1>3 DEF SeatReturns
    <2>2. /\ wave'.called = wave.called /\ wave'.elapsed = wave.elapsed /\ wave'.gap = wave.gap
          /\ wave'.returning = Tail(wave.returning)
        BY <1>1, <1>3 DEF SeatReturns, WaveRecord
    <2>3. p \in Range(wave.returning) /\ Range(Tail(wave.returning)) = Range(wave.returning) \ {p}
        BY <1>1, <2>1, FirstLeaves
    <2> HIDE DEF p, r
    <2>4. SeatsIn("wreck")' = SeatsIn("wreck") \ {p}
        BY <1>1, <2>1 DEF SeatsIn
    <2>5. Waiting'
        BY <2>2, <2>3, <2>4 DEF Waiting
    <2> QED
        BY <2>2, <2>5
<1>4. CASE SpawnWaveTank(pick) \/ NobodyStarts(pick)
    <2>1. /\ wave'.called = wave.called /\ wave'.elapsed = wave.elapsed /\ wave'.gap = wave.gap
          /\ wave'.returning = wave.returning /\ seat' = seat
        BY <1>1, <1>4 DEF SpawnWaveTank, NobodyStarts, WaveRecord
    <2>2. SeatsIn("wreck")' = SeatsIn("wreck")
        BY <2>1 DEF SeatsIn
    <2> QED
        BY <2>1, <2>2, WaitingStays
<1> QED
    BY <1>2, <1>3, <1>4

LEMMA FallWaiting ==
    ASSUME WavesInv, Waiting, SeatWrecked, NoteFall
    PROVE  Waiting'
<1>1. seat \in [Seats -> SeatRecord] /\ wave.called \in Nat
    BY TypeParts, Limits DEF WavesInv, WaveRecord
<1>2. PICK p \in SeatsIn("field") : seat' = [seat EXCEPT ![p].where = "wreck"]
    BY DEF SeatWrecked
<1>3. wave' = wave
    BY DEF SeatWrecked
<1>4. p \in Seats /\ seat[p].where = "field" /\ seat'[p].where = "wreck"
    BY <1>1, <1>2 DEF SeatsIn, SeatRecord
<1>5. \A q \in Seats : q # p => seat'[q] = seat[q]
    BY <1>1, <1>2
<1>6. SeatsIn("wreck")' = SeatsIn("wreck") \cup {p} /\ p \notin SeatsIn("wreck")
    BY <1>4, <1>5 DEF SeatsIn
<1>7. /\ fell' \in [Seats -> Nat] /\ fell'[p] = wave.called
      /\ \A q \in Seats : q # p => fell'[q] = fell[q]
    BY <1>1, <1>4, <1>5 DEF NoteFall, Waiting
<1>8. \A q \in Seats : fell'[q] <= wave.called
    BY <1>1, <1>7 DEF Waiting
<1>9. Range(wave.returning) = {q \in SeatsIn("wreck")' : Cardinality(Seats) > 1 /\ fell'[q] < wave.called}
    <2>1. ~(fell'[p] < wave.called)
        BY <1>1, <1>7
    <2>2. \A q \in SeatsIn("wreck") : q \in Seats /\ q # p
        BY <1>6 DEF SeatsIn
    <2> QED
        BY <1>6, <1>7, <2>1, <2>2 DEF Waiting
<1> QED
    BY <1>3, <1>7, <1>8, <1>9 DEF Waiting

\* Every step but the scheduler's.
LEMMA OtherSteps ==
    ASSUME WavesInv, Waiting,
           \/ SeatWrecked /\ NoteFall
           \/ /\ TankEnters \/ SeatEnters \/ RollinDone \/ Window \/ Reroll \/ RerollDone
                 \/ TankWrecked \/ BongFalls \/ WreckGone \/ CheckRoundEnd
              /\ UNCHANGED <<fell, quiet, rested, since>>
           \/ UNCHANGED <<wavesVars, history>>
    PROVE  Waiting' /\ Untimed
<1>1. CASE SeatWrecked /\ NoteFall
    BY <1>1, FallWaiting DEF SeatWrecked, NoteFall, Untimed
<1>2. CASE Window /\ UNCHANGED <<fell, quiet, rested, since>>
    <2>1. UNCHANGED <<field, director>>
        BY <1>2 DEF Window
    <2> QED
        BY <1>2, <2>1, WindowWaiting DEF Untimed
<1>3. CASE SeatEnters /\ UNCHANGED <<fell, quiet, rested, since>>
    <2>1. seat \in [Seats -> SeatRecord]
        BY TypeParts DEF WavesInv
    <2>2. PICK p \in SeatsIn("rolling") : seat' = [seat EXCEPT ![p] = [where |-> "field", gate |-> None]]
        BY <1>3 DEF SeatEnters
    <2>3. p \in Seats /\ seat[p].where = "rolling" /\ seat'[p].where = "field"
          /\ \A q \in Seats : q # p => seat'[q] = seat[q]
        BY <2>1, <2>2 DEF SeatsIn
    <2>4. SeatsIn("wreck")' = SeatsIn("wreck")
        BY <2>3 DEF SeatsIn
    <2>5. UNCHANGED <<field, wave, director>>
        BY <1>3 DEF SeatEnters
    <2> QED
        BY <1>3, <2>4, <2>5, WaitingStays DEF Untimed
<1>4. CASE /\ TankEnters \/ RollinDone \/ Reroll \/ RerollDone \/ TankWrecked \/ BongFalls
              \/ WreckGone \/ CheckRoundEnd
           /\ UNCHANGED <<fell, quiet, rested, since>>
    <2>1. UNCHANGED <<field, wave, director, seat>>
        BY <1>4 DEF TankEnters, RollinDone, Reroll, RerollDone, TankWrecked, BongFalls, WreckGone, CheckRoundEnd
    <2>2. SeatsIn("wreck")' = SeatsIn("wreck")
        BY <2>1 DEF SeatsIn
    <2> QED
        BY <1>4, <2>1, <2>2, WaitingStays DEF Untimed
<1>5. CASE UNCHANGED <<wavesVars, history>>
    <2>1. UNCHANGED <<field, wave, director, seat, fell, quiet, rested, since>>
        BY <1>5 DEF wavesVars, history
    <2>2. SeatsIn("wreck")' = SeatsIn("wreck")
        BY <2>1 DEF SeatsIn
    <2> QED
        BY <2>1, <2>2, WaitingStays DEF Untimed
<1> QED
    BY <1>1, <1>2, <1>3, <1>4, <1>5

\* The director's rest, against the frames since the team's last peak.
LEMMA RestOwed ==
    ASSUME director \in DirectorRecord, quiet \in 0..Relax, field, director.relax = Relax - quiet,
           NEW team \in Pressures,
           quiet' = IF team = "peak" THEN 0 ELSE Smaller(quiet + 1, Relax)
    PROVE  Observed(team).relax = Relax - quiet'
<1>1. director.relax \in 0..Relax
    BY DEF DirectorRecord
<1>2. Observed(team).relax = IF team = "peak" THEN Relax ELSE Larger(director.relax - 1, 0)
    BY DEF Observed, DirectorRecord
<1> QED
    BY <1>1, <1>2, Limits DEF Larger, Smaller

\* A breather that is over has lasted as long as it should.
PaceStep ==
    wave.gap # None /\ wave'.gap = None =>
        IF field THEN /\ rested' \in BreatherMin..BreatherMax
                      /\ quiet' >= Relax \/ rested' = BreatherMax
        ELSE rested' = Larger(Gap, 1)

LEMMA ScheduleClock ==
    ASSUME WavesInv, Clock, NEW team \in Pressures, Schedule(team), NoteSchedule(team)
    PROVE  Clock' /\ PaceStep
<1>1. wave \in WaveRecord /\ director \in DirectorRecord /\ field \in BOOLEAN
    BY TypeParts DEF WavesInv
<1>2. /\ wave.called \in 0..Waves /\ wave.elapsed \in 0..Timeout /\ wave.gap \in 0..Longest \cup {None}
      /\ director.relax \in 0..Relax /\ director.breather \in 0..BreatherMax
      /\ quiet \in 0..Relax /\ rested \in Nat /\ since \in Nat
    BY <1>1 DEF WaveRecord, DirectorRecord, Clock
<1>3. field' = field
    BY DEF Schedule
<1>4. /\ quiet' = IF team = "peak" THEN 0 ELSE Smaller(quiet + 1, Relax)
      /\ rested' = IF wave.gap = None THEN 0 ELSE rested + 1
      /\ since' = IF wave'.called # wave.called \/ wave.called = Waves THEN 0 ELSE since + 1
    BY DEF NoteSchedule
<1>5. quiet' \in 0..Relax /\ {rested', since'} \subseteq Nat
    BY <1>2, <1>4, Limits DEF Smaller
<1>6. /\ Observed(team) \in DirectorRecord /\ Observed(team).breather = director.breather
      /\ field => Observed(team).relax = Relax - quiet'
    BY <1>1, <1>2, <1>4, ObservedDirector, RestOwed DEF Clock
<1>7. CASE FirstWave(team)
    <2>1. wave.gap = None
        BY <1>7, Limits DEF FirstWave, WavesInv, Running
    <2>2. wave'.called = wave.called + 1 /\ wave'.elapsed = 0 /\ wave'.gap = None /\ director' = Observed(team)
        BY <1>1, <1>7 DEF FirstWave, CallWave, WaveRecord
    <2>3. since' = 0
        BY <1>2, <1>4, <2>2
    <2> QED
        BY <1>3, <1>5, <1>6, <2>1, <2>2, <2>3 DEF Clock, PaceStep
<1>8. CASE Breather(team)
    <2> DEFINE counted == IF field THEN [Observed(team) EXCEPT !.breather = @ + 1] ELSE director
               left == IF field THEN Paced(wave.gap, team, counted) ELSE Larger(wave.gap - 1, 0)
    <2>1. /\ wave.gap # None /\ wave.gap \in 0..Longest /\ wave.called \in 1..Waves - 1
          /\ director.breather < BreatherMax /\ Breathing
        BY <1>2, <1>8 DEF Breather, WavesInv, Running, Clock
    <2>2. counted \in DirectorRecord
          /\ (field => counted.breather = rested' /\ counted.relax = Relax - quiet')
        BY <1>1, <1>4, <1>6, <2>1, CountedDirector DEF Breathing
    <2>3. director' = counted /\ IF left = 0 THEN CallWave ELSE wave' = [wave EXCEPT !.gap = left]
        BY <1>8 DEF Breather
    <2> HIDE DEF counted
    <2>4. counted.relax \in 0..Relax /\ counted.breather \in Nat
        BY <2>2, Limits DEF DirectorRecord
    <2>5. rested' = rested + 1
        BY <1>4, <2>1
    <2>6. field => /\ wave.gap >= BreatherMin - (rested' - 1)
                   /\ counted.breather = rested' /\ rested' <= BreatherMax
        BY <1>2, <2>1, <2>2, <2>5, Limits DEF Breathing
    <2>7. field => /\ left = 0 => rested' >= BreatherMin /\ (rested' = BreatherMax \/ quiet' = Relax)
                   /\ left # 0 => left >= BreatherMin - rested'
        <3> SUFFICES ASSUME field PROVE /\ left = 0 => rested' >= BreatherMin /\ (rested' = BreatherMax \/ quiet' = Relax)
                                        /\ left # 0 => left >= BreatherMin - rested'
            OBVIOUS
        <3>1. left = Paced(wave.gap, team, counted)
            OBVIOUS
        <3> HIDE DEF left
        <3>2. rested' \in Nat /\ quiet' \in 0..Relax /\ left \in 0..Longest
            BY <1>5, <2>1, <2>4, <3>1, PacedLeft
        <3>3. CASE counted.breather >= BreatherMax
            <4>1. left = 0
                BY <2>1, <2>4, <3>1, <3>3, PacedLeft
            <4> QED
                BY <2>6, <3>2, <3>3, <4>1, Limits
        <3>4. CASE counted.breather < BreatherMax
            <4>1. left >= BreatherMin - rested' /\ (left = 0 => counted.relax = 0)
                BY <2>1, <2>4, <2>6, <3>1, <3>4, PacedLeft
            <4> QED
                BY <2>2, <3>2, <4>1, Limits
        <3> QED
            BY <2>4, <3>3, <3>4, Limits
    <2>8. left \in 0..Longest
        BY <2>1, <2>4, PacedLeft, Limits DEF Larger
    <2>9. ~field => /\ left = 0 => rested' = Larger(Gap, 1)
                    /\ left # 0 => rested' + left = Gap
        BY <1>2, <2>1, <2>5, Limits DEF Larger, Breathing
    <2> HIDE DEF left
    <2>10. CASE left = 0
        <3>1. wave'.called = wave.called + 1 /\ wave'.elapsed = 0 /\ wave'.gap = None
            BY <1>1, <2>3, <2>10 DEF CallWave, WaveRecord
        <3>2. since' = 0
            BY <1>2, <1>4, <3>1
        <3>3. Clock'
            BY <1>3, <1>5, <2>2, <2>3, <3>1, <3>2 DEF Clock
        <3>4. PaceStep
            BY <1>5, <2>1, <2>6, <2>7, <2>9, <2>10, Limits DEF PaceStep
        <3> QED
            BY <3>3, <3>4
    <2>11. CASE left # 0
        <3>1. /\ wave'.called = wave.called /\ wave'.elapsed = wave.elapsed /\ wave'.gap = left
            BY <1>1, <2>3, <2>11 DEF WaveRecord
        <3>2. since' <= wave.elapsed + rested'
            BY <1>2, <1>4, <2>1, <2>5, <3>1, Limits DEF Breathing
        <3>3. Breathing'
            BY <1>3, <2>2, <2>3, <2>7, <2>9, <2>11, <3>1, <3>2 DEF Breathing
        <3>4. left # None
            BY <2>8, Limits
        <3> QED
            BY <1>3, <1>5, <2>2, <2>3, <3>1, <3>3, <3>4 DEF Clock, PaceStep
    <2> QED
        BY <2>10, <2>11
<1>9. CASE Fought(team)
    <2>1. wave.gap = None /\ wave.elapsed < Timeout /\ since <= wave.elapsed /\ rested' = 0
        BY <1>4, <1>9 DEF Fought, WavesInv, Running, Clock
    <2>2. PaceStep
        BY <2>1 DEF PaceStep
    <2>3. CASE wave.called = Waves /\ director' = Observed(team) /\ wave' = wave
        <3>1. since' = 0
            BY <1>4, <2>3
        <3> QED
            BY <1>2, <1>3, <1>5, <1>6, <2>1, <2>2, <2>3, <3>1 DEF Clock
    <2>4. CASE /\ wave.called < Waves /\ ~Over(wave.elapsed + 1)
               /\ director' = Observed(team) /\ wave' = [wave EXCEPT !.elapsed = @ + 1]
        <3>1. wave'.gap = None /\ wave'.elapsed = wave.elapsed + 1 /\ SameQueue
            BY <1>1, <2>1, <2>4, WaveRuns
        <3>2. since' = since + 1
            BY <1>2, <1>4, <2>4, <3>1, Limits DEF SameQueue
        <3> QED
            BY <1>2, <1>3, <1>5, <1>6, <2>1, <2>2, <2>4, <3>1, <3>2 DEF Clock
    <2>5. CASE /\ wave.called < Waves /\ Over(wave.elapsed + 1)
               /\ director' = [Observed(team) EXCEPT !.breather = 0]
               /\ wave' = [wave EXCEPT !.elapsed = @ + 1, !.gap = BreatherLength(Observed(team))]
        <3> DEFINE g == BreatherLength(Observed(team))
        <3>1. g \in 0..Longest /\ (field => g >= BreatherMin) /\ (~field => g = Gap)
            BY <1>1, <1>6, BreatherStarts
        <3>2. wave' = [wave EXCEPT !.elapsed = @ + 1, !.gap = g]
            BY <2>5
        <3> HIDE DEF g
        <3>3. wave'.gap = g /\ wave'.elapsed = wave.elapsed + 1 /\ SameQueue
            BY <1>1, <2>1, <3>1, <3>2, WaveRunsTo
        <3>4. since' = since + 1
            BY <1>2, <1>4, <2>5, <3>3, Limits DEF SameQueue
        <3>5. director'.breather = 0 /\ director'.relax = Observed(team).relax
            BY <1>6, <2>5 DEF DirectorRecord
        <3>6. Breathing'
            BY <1>2, <1>3, <2>1, <3>1, <3>3, <3>4, <3>5, Limits DEF Breathing
        <3>7. g # None
            BY <3>1, Limits
        <3> QED
            BY <1>3, <1>5, <1>6, <2>2, <3>3, <3>5, <3>6, <3>7 DEF Clock
    <2> QED
        BY <1>9, <2>3, <2>4, <2>5 DEF Fought
<1> QED
    BY <1>7, <1>8, <1>9 DEF Schedule

LEMMA UntimedClock ==
    ASSUME Clock, Untimed
    PROVE  Clock' /\ PaceStep
BY DEF Clock, Untimed, PaceStep, Breathing

LEMMA PastInvStep ==
    PastInv /\ [MCNext]_<<wavesVars, history>> => PastInv' /\ PaceStep
<1> SUFFICES ASSUME PastInv, [MCNext]_<<wavesVars, history>> PROVE PastInv' /\ PaceStep
    OBVIOUS
<1>1. WavesInv'
    BY PastIsWaves, WavesInvStep DEF PastInv
<1>2. ASSUME NEW team \in Pressures, Schedule(team), NoteSchedule(team)
      PROVE  Waiting' /\ Clock' /\ PaceStep
    <2>1. fell' = fell
        BY <1>2 DEF NoteSchedule
    <2> QED
        BY <1>2, <2>1, ScheduleWaiting, ScheduleClock DEF PastInv
<1>3. CASE ~ \E team \in Pressures : Schedule(team) /\ NoteSchedule(team)
    <2>1. Waiting' /\ Untimed
        BY <1>3, PastStep, OtherSteps DEF PastInv
    <2> QED
        BY <1>1, <2>1, UntimedClock DEF PastInv
<1> QED
    BY <1>1, <1>2, <1>3 DEF PastInv

\* Not later than a wave's timeout and the longest breather.
LEMMA InTime == PastInv => since <= Timeout + Larger(Gap, BreatherMax)
<1> SUFFICES ASSUME PastInv PROVE since <= Timeout + Larger(Gap, BreatherMax)
    OBVIOUS
<1>1. /\ wave.elapsed \in 0..Timeout /\ wave.gap \in 0..Longest \cup {None} /\ rested \in Nat /\ since \in Nat
      /\ director.breather \in 0..BreatherMax
    BY TypeParts DEF PastInv, WavesInv, Clock, WaveRecord, DirectorRecord
<1>2. CASE wave.gap = None
    BY <1>1, <1>2, Limits DEF PastInv, Clock, Larger
<1>3. CASE wave.gap # None
    <2>1. Breathing /\ wave.gap \in Nat
        BY <1>1, <1>3, Limits DEF PastInv, Clock
    <2> QED
        BY <1>1, <2>1, Limits DEF Breathing, Larger
<1> QED
    BY <1>2, <1>3

\* The seats waiting to come back are the wrecks of before the last wave, each
\* once (src/simulation/waves.rs, queue_returning_seats and seat_returns).
THEOREM SeatsAreQueued == MCSpec => []SeatsQueued
<1>1. MCInit => PastInv
    BY WaitingInit, WavesInvInit DEF MCInit, PastInv
<1>2. PastInv => SeatsQueued
    BY DEF PastInv, WavesInv, Running, Waiting, SeatsQueued
<1> QED
    BY <1>1, <1>2, PastInvStep, PTL DEF MCSpec

\* The next wave is never late, and a breather never too short or too long,
\* whatever the team does (src/simulation/director.rs, pace_breather).
THEOREM PaceIsKept == MCSpec => PaceKept
<1>1. MCInit => PastInv
    BY WaitingInit, WavesInvInit DEF MCInit, PastInv
<1> QED
    BY <1>1, InTime, PastInvStep, PTL DEF MCSpec, PaceKept, PaceStep
=============================================================================
