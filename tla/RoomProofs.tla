----------------------------- MODULE RoomProofs -----------------------------
(***************************************************************************)
(* The clock's invariants, the room's, and the room's refinement of the    *)
(* clock rules, for any devices, connections, seats, limits and lateness   *)
(* of the loop.                                                            *)
(*                                                                         *)
(* The count of connected seats is a number kept by hand: that it is right *)
(* needs the seats to be right - one per device, one per connection, each  *)
(* connection attached - and a seat without a socket to be stamped with    *)
(* the moment it lost it.  Each handler's change of the seat vector has a  *)
(* lemma that says what becomes of the seats; the steps then add what it   *)
(* does to the clock.                                                      *)
(***************************************************************************)
EXTENDS Room, MCLifecycle, FiniteSetTheorems, TLAPS

----------------------------------------------------------------------------
(***************************************************************************)
(* The clock, for every number of seats, every set of time limits and      *)
(* however late the room loop runs.                                        *)
(*                                                                         *)
(* RoundBounded and DrainBounded are not inductive: a pause, a resume and  *)
(* an end hand the bound over from one phase's instant to another's.       *)
(* LifeInv adds where each instant stands relative to the others.          *)
(***************************************************************************)

\* No instant the clock remembers is ahead of the present.
PastInstants ==
    /\ since <= now
    /\ round_started <= now
    /\ drain_at <= now

\* What a drain leaves of each phase: how late each one may have begun.
DrainStages ==
    open /\ Draining =>
        /\ phase = "Waiting" => now <= drain_at + Lag
        /\ InRound => round_started <= drain_at + Lag
        /\ phase = "Ended" =>
              /\ since <= drain_at + RoundMax + 2 * Lag
              /\ now <= since + DrainEndedTtl + Lag \/ now <= drain_at + Lag

LifeInv ==
    /\ LifeTypeOK
    /\ PastInstants
    /\ RoundHasClock
    /\ PausedWhenEmpty
    /\ RoundBounded
    /\ DrainStages

\* The clock of a new room: it waits, empty, from now on.
LEMMA LifeInvInit == LifeInit => LifeInv
BY TtlAssumption
DEF LifeInit, LifeInv, LifeTypeOK, PastInstants, RoundHasClock, PausedWhenEmpty,
    RoundBounded, DrainStages, Draining, InRound, Instants, Phases, NoTime

\* Every method, called as the room calls it, and the passing of time keep
\* the clock's invariant.
LEMMA LifeInvStep == LifeInv /\ [LifeNext]_lifeVars => LifeInv'
<1> SUFFICES ASSUME LifeInv, [LifeNext]_lifeVars PROVE LifeInv'
  OBVIOUS
<1> USE TtlAssumption
<1> USE DEF LifeInv, LifeTypeOK, PastInstants, RoundHasClock, PausedWhenEmpty,
    RoundBounded, DrainStages, Draining, InRound, Instants, Phases, NoTime
<1>1. CASE connected < SeatsPlayable /\ Connect
  BY <1>1 DEF Connect
<1>2. CASE connected > 0 /\ Disconnect
  BY <1>2 DEF Disconnect
<1>3. CASE MayStart /\ connected > 0 /\ Start
  BY <1>3 DEF MayStart, Start
<1>4. CASE open /\ (phase = "Playing" \/ ExpiredEndRound) /\ End
  BY <1>4 DEF End, ExpiredEndRound
<1>5. CASE ExpiredReap /\ Reap
  BY <1>5 DEF Reap
<1>6. CASE Drain
  BY <1>6 DEF Drain
<1>7. CASE open /\ Pass
  <2>1. RoundEnds = {round_started + RoundMax} \/ ~InRound
    BY DEF RoundEnds
  <2>2. InRound => now < round_started + RoundMax + Lag
    BY <1>7, <2>1 DEF Pass, OwnDeadlines
  <2>3. Draining /\ phase = "Waiting" => now < drain_at + Lag
    BY <1>7 DEF Pass, DrainDeadlines
  <2>4. Draining /\ phase = "Ended" => now < since + DrainEndedTtl + Lag \/ now < drain_at + Lag
    BY <1>7 DEF Pass, DrainDeadlines
  <2>5. now' = now + 1 /\ now' \in Instants /\ UNCHANGED <<phase, since, round_started, connected, drain_at, open>>
    BY <1>7 DEF Pass
  <2> QED
    BY <2>2, <2>3, <2>4, <2>5
<1>8. CASE UNCHANGED lifeVars
  BY <1>8 DEF lifeVars
<1> QED
  BY <1>1, <1>2, <1>3, <1>4, <1>5, <1>6, <1>7, <1>8 DEF LifeNext, ExpiredEndRound

\* The invariant holds of every behaviour of the clock.
THEOREM LifeInvariant == LifeSpec => []LifeInv
<1>1. LifeInv /\ [LifeNext]_lifeVars => LifeInv'
  BY LifeInvStep
<1> QED
  BY LifeInvInit, <1>1, PTL DEF LifeSpec

\* Every instant and counter of the clock stays in its range.
THEOREM LifeTypeCorrect == LifeSpec => []LifeTypeOK
<1>1. LifeInv => LifeTypeOK
  BY DEF LifeInv
<1> QED
  BY LifeInvariant, <1>1, PTL

\* However the seats come and go, a round is paused exactly while nobody is
\* connected to it.
THEOREM RoundPausedWhenEmpty == LifeSpec => []PausedWhenEmpty
<1>1. LifeInv => PausedWhenEmpty
  BY DEF LifeInv
<1> QED
  BY LifeInvariant, <1>1, PTL

\* A room has a round's clock exactly while it is in a round.
THEOREM RoundAlwaysHasClock == LifeSpec => []RoundHasClock
<1>1. LifeInv => RoundHasClock
  BY DEF LifeInv
<1> QED
  BY LifeInvariant, <1>1, PTL

\* No sequence of pauses, resumes and drains lengthens a round past its
\* limit.
THEOREM RoundStaysBounded == LifeSpec => []RoundBounded
<1>1. LifeInv => RoundBounded
  BY DEF LifeInv
<1> QED
  BY LifeInvariant, <1>1, PTL

\* A draining room is gone within a round, an end screen and the loop's
\* lateness.
THEOREM DrainStaysBounded == LifeSpec => []DrainBounded
<1>1. LifeInv => DrainBounded
  BY TtlAssumption
  DEF LifeInv, LifeTypeOK, PastInstants, RoundHasClock, RoundBounded, DrainStages,
      DrainBounded, Draining, InRound, Instants, Phases, NoTime
<1> QED
  BY LifeInvariant, <1>1, PTL

----------------------------------------------------------------------------
(***************************************************************************)
(* A room nobody is in, with the instant it was left (MCLifecycle).        *)
(***************************************************************************)

\* How late each phase may be while the room is open, and how the clock of an
\* empty room's phase lies to the instant the room was left: a round that ran
\* out while it was paused has started the end screen's anew.
EmptyStages ==
    /\ emptied_at \in 0..now
    /\ open => /\ phase = "Waiting" /\ connected = 0 => now <= since + WaitingTtl + Lag
               /\ phase = "Paused" => now <= since + EmptyTtl + Lag
               /\ phase = "Ended" => now <= since + EndedTtl + Lag
    /\ connected = 0 => /\ phase \in {"Waiting", "Paused"} => since = emptied_at
                        /\ open /\ phase = "Ended" => since <= emptied_at + EmptyTtl + Lag

LEMMA EmptyStagesStep ==
    LifeInv /\ EmptyStages /\ [MCNext]_<<lifeVars, emptied_at>> => EmptyStages'
<1> SUFFICES ASSUME LifeInv, EmptyStages, [MCNext]_<<lifeVars, emptied_at>> PROVE EmptyStages'
  OBVIOUS
<1> USE TtlAssumption
<1> USE DEF EmptyStages
<1>1. /\ now \in Nat /\ since \in Nat /\ since <= now /\ connected \in Nat /\ open \in BOOLEAN
      /\ phase \in Phases /\ (InRound => (phase = "Paused" <=> connected = 0))
  BY DEF LifeInv, LifeTypeOK, PastInstants, PausedWhenEmpty, Instants
<1>2. CASE UNCHANGED <<lifeVars, emptied_at>>
  BY <1>2 DEF lifeVars
<1>3. CASE MCNext
  <2>1. open /\ emptied_at' = IF connected > 0 /\ connected' = 0 THEN now ELSE emptied_at
    BY <1>3 DEF MCNext, LifeNext
  <2>2. CASE connected < SeatsPlayable /\ Connect
    BY <1>1, <2>1, <2>2 DEF Connect, Phases
  <2>3. CASE connected > 0 /\ Disconnect
    BY <1>1, <2>1, <2>3 DEF Disconnect, Phases, InRound
  <2>4. CASE MayStart /\ connected > 0 /\ Start
    BY <1>1, <2>1, <2>4 DEF Start
  <2>5. CASE phase \in {"Playing", "Paused"} /\ End
    BY <1>1, <2>1, <2>5 DEF End, InRound
  <2>6. CASE ExpiredReap /\ Reap
    BY <1>1, <2>1, <2>6 DEF Reap
  <2>7. CASE Drain
    BY <1>1, <2>1, <2>7 DEF Drain
  <2>8. CASE Pass
    <3>1. /\ phase = "Waiting" /\ connected = 0 => now < since + WaitingTtl + Lag
          /\ phase = "Paused" => now < since + EmptyTtl + Lag
          /\ phase = "Ended" => now < since + EndedTtl + Lag
      BY <2>8 DEF Pass, OwnDeadlines
    <3> QED
      BY <1>1, <2>1, <2>8, <3>1 DEF Pass
  <2> QED
    BY <1>3, <2>2, <2>3, <2>4, <2>5, <2>6, <2>7, <2>8 DEF MCNext, LifeNext, ExpiredEndRound
<1> QED
  BY <1>2, <1>3

\* A room left by everybody is reaped within its time, through whichever
\* phases its deadlines still take it (server/src/room.rs,
\* Lifecycle::deadline).
THEOREM EmptyRoomIsReaped == MCSpec => []EmptyRoomReaped
<1>1. MCInit => LifeInv /\ EmptyStages
  BY LifeInvInit, TtlAssumption DEF MCInit, LifeInit, EmptyStages
<1>2. LifeInv /\ EmptyStages /\ [MCNext]_<<lifeVars, emptied_at>> => (LifeInv /\ EmptyStages)'
  <2>1. [MCNext]_<<lifeVars, emptied_at>> => [LifeNext]_lifeVars
    BY DEF MCNext, lifeVars
  <2> QED
    BY <2>1, LifeInvStep, EmptyStagesStep
<1>3. LifeInv /\ EmptyStages => EmptyRoomReaped
  <2> SUFFICES ASSUME LifeInv, EmptyStages, open, connected = 0
               PROVE  now <= emptied_at + Longest + Lag
    BY DEF EmptyRoomReaped
  <2>1. /\ now \in Nat /\ since \in Nat /\ emptied_at \in Nat
        /\ phase \in Phases /\ phase # "Playing"
    BY DEF LifeInv, LifeTypeOK, PausedWhenEmpty, InRound, Instants, EmptyStages
  <2> QED
    BY <2>1, TtlAssumption DEF EmptyStages, Longest, Phases
<1> QED
  BY <1>1, <1>2, <1>3, PTL DEF MCSpec

----------------------------------------------------------------------------
(***************************************************************************)
(* The room's invariant.                                                   *)
(***************************************************************************)

SeatVectors == Seq(Seat \cup {Vacant})

\* One seat per device and per connection, none for a kicked device; who has
\* a socket is attached and not away.
GoodSeats(s, gone, links) ==
    /\ \A i, j \in Occupied(s) :
         i # j => s[i].token # s[j].token /\ (s[i].conn = s[j].conn => s[i].conn = NoConn)
    /\ \A i \in Occupied(s) : s[i].token \notin gone
    /\ \A i \in Occupied(s) : s[i].conn # NoConn => links[s[i].conn] = "in" /\ s[i].away = NoTime

\* A seat without a socket is stamped, and in a waiting room its grace runs.
Stamped(s, time, waiting) ==
    \A i \in Occupied(s) : s[i].conn = NoConn =>
        /\ s[i].away # NoTime
        /\ waiting => time <= s[i].away + SeatGrace + Lag

SeatInv ==
    /\ seats \in SeatVectors
    /\ kicked \in SUBSET Tokens
    /\ link \in [Conns -> {"new", "in", "over"}]
    /\ world \in {"none", "fresh", "running"}
    /\ hub_draining \in BOOLEAN
    /\ GoodSeats(seats, kicked, link)
    /\ open => Stamped(seats, now, phase = "Waiting")
    /\ ConnectedCount
    /\ WaitingDense
    /\ Len(seats) <= SeatsPlayable
    /\ Draining => hub_draining

RoomInv == LifeInv /\ SeatInv

----------------------------------------------------------------------------
(***************************************************************************)
(* Sets of seats.                                                          *)
(***************************************************************************)

LEMMA Limits ==
    /\ SeatGrace \in Nat /\ SeatGrace > 0
    /\ SeatsPlayable \in Nat /\ Lag \in Nat /\ Horizon \in Nat
    /\ NoConn \notin Conns
    /\ Vacant \notin Seat
    /\ NoTime \in Int /\ NoTime < 0
BY RoomAssumption, TtlAssumption DEF Seat, Instants, NoTime

LEMMA CountTo ==
    ASSUME NEW n \in Nat
    PROVE  IsFiniteSet(1..n) /\ Cardinality(1..n) = n
<1>1. IsFiniteSet(1..n) /\ Cardinality(1..n) = IF 1 > n THEN 0 ELSE n - 1 + 1
    <2>1. 1 \in Int /\ n \in Int
        OBVIOUS
    <2> QED
        BY <2>1, FS_Interval, Zenon
<1> QED
    BY <1>1

\* The seats of a vector: finitely many, each a record of a seat.
LEMMA OccupiedSeats ==
    ASSUME NEW s \in SeatVectors
    PROVE  /\ Len(s) \in Nat /\ DOMAIN s = 1..Len(s) /\ IsFiniteSet(DOMAIN s)
           /\ Cardinality(DOMAIN s) = Len(s)
           /\ Occupied(s) \subseteq DOMAIN s /\ Online(s) \subseteq Occupied(s)
           /\ IsFiniteSet(Occupied(s)) /\ IsFiniteSet(Online(s))
           /\ Cardinality(Occupied(s)) \in Nat /\ Cardinality(Online(s)) \in Nat
           /\ Cardinality(Online(s)) <= Cardinality(Occupied(s))
           /\ Cardinality(Occupied(s)) <= Len(s)
           /\ \A i \in Occupied(s) : s[i] \in Seat
<1>1. Len(s) \in Nat /\ DOMAIN s = 1..Len(s)
    BY DEF SeatVectors
<1>2. IsFiniteSet(DOMAIN s) /\ Cardinality(DOMAIN s) = Len(s)
    BY <1>1, CountTo
<1>3. Occupied(s) \subseteq DOMAIN s /\ Online(s) \subseteq Occupied(s)
    BY DEF Occupied, Online
<1>4. /\ IsFiniteSet(Occupied(s)) /\ IsFiniteSet(Online(s))
      /\ Cardinality(Online(s)) <= Cardinality(Occupied(s))
      /\ Cardinality(Occupied(s)) <= Len(s)
    BY <1>2, <1>3, FS_Subset
<1>5. \A i \in Occupied(s) : s[i] \in Seat
    BY <1>1 DEF Occupied, SeatVectors
<1> QED
    BY <1>1, <1>2, <1>3, <1>4, <1>5, FS_CardinalityType

\* The taken seats are numbered from 1 in the order of their places.
LEMMA Numbered ==
    ASSUME NEW s \in SeatVectors
    PROVE  /\ \A k \in 1..Cardinality(Occupied(s)) : Nth(s, k) \in Occupied(s)
           /\ \A k, l \in 1..Cardinality(Occupied(s)) : k # l => Nth(s, k) # Nth(s, l)
           /\ \A i \in Occupied(s) : \E k \in 1..Cardinality(Occupied(s)) : Nth(s, k) = i
           /\ \A k \in 1..Cardinality(Occupied(s)) : Cardinality({j \in Occupied(s) : j <= Nth(s, k)}) = k
<1> DEFINE I == Occupied(s)
           n == Cardinality(I)
           Upto(i) == {j \in I : j <= i}
           rank == [i \in I |-> Cardinality(Upto(i))]
<1>1. IsFiniteSet(I) /\ n \in Nat /\ I \subseteq Nat
    BY OccupiedSeats
<1>2. \A i \in I : IsFiniteSet(Upto(i)) /\ Cardinality(Upto(i)) \in 1..n
    <2> TAKE i \in I
    <2>1. Upto(i) \subseteq I /\ i \in Upto(i)
        BY <1>1
    <2>2. IsFiniteSet(Upto(i)) /\ Cardinality(Upto(i)) <= n /\ Cardinality(Upto(i)) \in Nat
        BY <1>1, <2>1, FS_Subset, FS_CardinalityType
    <2>3. Cardinality(Upto(i)) # 0
        BY <2>1, <2>2, FS_EmptySet
    <2> QED
        BY <1>1, <2>2, <2>3
<1>3. \A i, j \in I : i # j => rank[i] # rank[j]
    <2>1. ASSUME NEW i \in I, NEW j \in I, i < j PROVE rank[i] # rank[j]
        <3>1. Upto(i) \subseteq Upto(j) /\ j \in Upto(j) /\ j \notin Upto(i)
            BY <1>1, <2>1
        <3>2. Cardinality(Upto(i)) # Cardinality(Upto(j))
            BY <1>2, <3>1, FS_Subset
        <3> QED
            BY <3>2
    <2> TAKE i, j \in I
    <2>2. i < j \/ j < i \/ i = j
        BY <1>1
    <2> QED
        BY <2>1, <2>2
<1>4. rank \in Injection(I, 1..n)
    BY <1>2, <1>3 DEF Injection, IsInjective
<1>5. IsFiniteSet(1..n) /\ Cardinality(1..n) = n
    BY <1>1, CountTo
<1>6. rank \in Surjection(I, 1..n)
    BY <1>1, <1>4, <1>5, FS_Injection
<1>7. \A k \in 1..n : \E i \in I : Cardinality(Upto(i)) = k
    BY <1>6 DEF Surjection
<1>8. \A k \in 1..n : Nth(s, k) \in I /\ rank[Nth(s, k)] = k
    BY <1>7 DEF Nth
<1>9. \A k, l \in 1..n : k # l => Nth(s, k) # Nth(s, l)
    BY <1>8
<1>10. \A i \in I : rank[i] \in 1..n /\ Nth(s, rank[i]) = i
    BY <1>2, <1>3, <1>8
<1>11. \A k \in 1..n : Cardinality({j \in I : j <= Nth(s, k)}) = k
    BY <1>8
<1> HIDE DEF rank
<1> QED
    BY <1>8, <1>9, <1>10, <1>11

----------------------------------------------------------------------------
(***************************************************************************)
(* What becomes of the seats.                                              *)
(***************************************************************************)

\* u holds the seats K of s, each once, in whatever places.
Carries(u, s, K) ==
    \E m \in Bijection(Occupied(u), K) : \A k \in Occupied(u) : u[k] = s[m[k]]

\* Seats that are carried over stay good, and as many of them are connected.
LEMMA CarriedOver ==
    ASSUME NEW s \in SeatVectors, NEW u \in SeatVectors,
           NEW K \in SUBSET Occupied(s), Carries(u, s, K)
    PROVE  /\ Cardinality(Occupied(u)) = Cardinality(K)
           /\ Cardinality(Online(u)) = Cardinality(Online(s) \cap K)
           /\ \A gone, links : GoodSeats(s, gone, links) => GoodSeats(u, gone, links)
           /\ \A time, waiting : Stamped(s, time, waiting) => Stamped(u, time, waiting)
<1>1. PICK m \in Bijection(Occupied(u), K) : \A k \in Occupied(u) : u[k] = s[m[k]]
    BY DEF Carries
<1>2. /\ m \in [Occupied(u) -> K]
      /\ \A k, l \in Occupied(u) : m[k] = m[l] => k = l
      /\ \A i \in K : \E k \in Occupied(u) : m[k] = i
    BY DEF Bijection, Injection, IsInjective, Surjection
<1>3. IsFiniteSet(Occupied(u)) /\ IsFiniteSet(Online(u))
    BY OccupiedSeats
<1>4. Cardinality(K) = Cardinality(Occupied(u))
    BY <1>3, FS_Bijection DEF ExistsBijection
<1>5. Cardinality(Online(s) \cap K) = Cardinality(Online(u))
    <2> DEFINE f == [k \in Online(u) |-> m[k]]
    <2>1. \A k \in Occupied(u) : k \in Online(u) <=> m[k] \in Online(s)
        BY <1>1, <1>2 DEF Online
    <2>2. Online(u) \subseteq Occupied(u)
        BY DEF Online
    <2>3. f \in [Online(u) -> Online(s) \cap K]
        BY <1>2, <2>1, <2>2
    <2>4. \A k, l \in Online(u) : f[k] = f[l] => k = l
        BY <1>2, <2>2
    <2>5. \A i \in Online(s) \cap K : \E k \in Online(u) : f[k] = i
        BY <1>2, <2>1
    <2> HIDE DEF f
    <2>6. f \in Bijection(Online(u), Online(s) \cap K)
        BY <2>3, <2>4, <2>5 DEF Bijection, Injection, IsInjective, Surjection
    <2> QED
        BY <1>3, <2>6, FS_Bijection DEF ExistsBijection
<1>6. \A gone, links : GoodSeats(s, gone, links) => GoodSeats(u, gone, links)
    BY <1>1, <1>2 DEF GoodSeats
<1>7. \A time, waiting : Stamped(s, time, waiting) => Stamped(u, time, waiting)
    BY <1>1, <1>2 DEF Stamped
<1> QED
    BY <1>4, <1>5, <1>6, <1>7

\* Closing up keeps every taken seat and leaves no vacant one.
LEMMA ClosesUp ==
    ASSUME NEW s \in SeatVectors
    PROVE  /\ ClosedUp(s) \in SeatVectors
           /\ Len(ClosedUp(s)) = Cardinality(Occupied(s))
           /\ Occupied(ClosedUp(s)) = DOMAIN ClosedUp(s)
           /\ Carries(ClosedUp(s), s, Occupied(s))
<1> DEFINE n == Cardinality(Occupied(s))
           u == ClosedUp(s)
           m == [k \in 1..n |-> Nth(s, k)]
<1>1. n \in Nat /\ \A i \in Occupied(s) : s[i] \in Seat
    BY OccupiedSeats
<1>2. u = [k \in 1..n |-> s[Nth(s, k)]]
    BY DEF ClosedUp
<1>3. \A k \in 1..n : Nth(s, k) \in Occupied(s)
    BY Numbered
<1>4. u \in [1..n -> Seat]
    BY <1>1, <1>2, <1>3
<1>5. u \in SeatVectors /\ Len(u) = n /\ DOMAIN u = 1..n
    BY <1>1, <1>4 DEF SeatVectors
<1>6. Occupied(u) = 1..n
    BY <1>4, <1>5, Limits DEF Occupied
<1>7. m \in Bijection(Occupied(u), Occupied(s))
    BY <1>3, <1>6, Numbered DEF Bijection, Injection, IsInjective, Surjection
<1>8. \A k \in Occupied(u) : u[k] = s[m[k]]
    BY <1>2, <1>6
<1> HIDE DEF m
<1>9. Carries(u, s, Occupied(s))
    BY <1>7, <1>8 DEF Carries
<1> QED
    BY <1>5, <1>6, <1>9

\* Seats that leave are vacated, and a waiting room closes up over them.
LEMMA SeatsLeave ==
    ASSUME NEW s \in SeatVectors, s = seats, NEW I
    PROVE  /\ Without(I) \in SeatVectors
           /\ Len(Without(I)) <= Len(s)
           /\ phase = "Waiting" => Occupied(Without(I)) = DOMAIN Without(I)
           /\ Carries(Without(I), s, Occupied(s) \ I)
<1> DEFINE v == [i \in DOMAIN s |-> IF i \in I THEN Vacant ELSE s[i]]
<1>1. v \in SeatVectors /\ Len(v) = Len(s)
    BY DEF SeatVectors
<1>2. Occupied(v) = Occupied(s) \ I /\ \A i \in Occupied(v) : v[i] = s[i]
    BY DEF Occupied
<1>3. Without(I) = IF phase = "Waiting" THEN ClosedUp(v) ELSE v
    BY DEF Without, Settled
<1> HIDE DEF v
<1>4. Carries(v, s, Occupied(s) \ I)
    <2> DEFINE id == [i \in Occupied(v) |-> i]
    <2>1. id \in Bijection(Occupied(v), Occupied(s) \ I)
        BY <1>2 DEF Bijection, Injection, IsInjective, Surjection
    <2>2. \A i \in Occupied(v) : v[i] = s[id[i]]
        BY <1>2
    <2> HIDE DEF id
    <2> QED
        BY <2>1, <2>2 DEF Carries
<1>5. Carries(ClosedUp(v), s, Occupied(s) \ I)
    <2>1. PICK m \in Bijection(Occupied(ClosedUp(v)), Occupied(v)) :
             \A k \in Occupied(ClosedUp(v)) : ClosedUp(v)[k] = v[m[k]]
        BY <1>1, ClosesUp DEF Carries
    <2>2. m \in [Occupied(ClosedUp(v)) -> Occupied(v)]
        BY DEF Bijection, Injection
    <2>3. \A k \in Occupied(ClosedUp(v)) : ClosedUp(v)[k] = s[m[k]]
        BY <1>2, <2>1, <2>2
    <2> QED
        BY <1>2, <2>3 DEF Carries
<1>6. Cardinality(Occupied(v)) <= Len(v)
    BY <1>1, OccupiedSeats
<1>7. /\ ClosedUp(v) \in SeatVectors /\ Len(ClosedUp(v)) = Cardinality(Occupied(v))
      /\ Occupied(ClosedUp(v)) = DOMAIN ClosedUp(v)
    BY <1>1, ClosesUp
<1>8. Len(s) \in Nat
    BY OccupiedSeats
<1> QED
    BY <1>1, <1>3, <1>4, <1>5, <1>6, <1>7, <1>8

\* One seat changes, and stays taken.
Put(s, i, r) == [s EXCEPT ![i] = r]

LEMMA SeatChanges ==
    ASSUME NEW s \in SeatVectors, NEW i \in Occupied(s), NEW r \in Seat,
           NEW u, u = Put(s, i, r)
    PROVE  /\ u \in SeatVectors /\ Len(u) = Len(s) /\ DOMAIN u = DOMAIN s
           /\ Occupied(u) = Occupied(s)
           /\ u[i] = r /\ \A j \in Occupied(s) : j # i => u[j] = s[j]
           /\ Online(u) = IF r.conn = NoConn THEN Online(s) \ {i} ELSE Online(s) \cup {i}
<1> USE DEF Put
<1>1. i \in DOMAIN s /\ r # Vacant
    BY Limits DEF Occupied
<1>2. u \in SeatVectors /\ Len(u) = Len(s) /\ DOMAIN u = DOMAIN s
    BY <1>1 DEF SeatVectors
<1>3. u[i] = r /\ \A j \in DOMAIN s : j # i => u[j] = s[j]
    BY <1>1
<1>4. Occupied(u) = Occupied(s)
    BY <1>1, <1>2, <1>3 DEF Occupied
<1>5. Online(u) = IF r.conn = NoConn THEN Online(s) \ {i} ELSE Online(s) \cup {i}
    BY <1>1, <1>3, <1>4 DEF Online, Occupied
<1> QED
    BY <1>1, <1>2, <1>3, <1>4, <1>5 DEF Occupied

\* A newcomer sits at the end.
Seated(s, r) == Append(s, r)

LEMMA SeatAdded ==
    ASSUME NEW s \in SeatVectors, NEW r \in Seat, NEW u, u = Seated(s, r)
    PROVE  /\ u \in SeatVectors /\ Len(u) = Len(s) + 1
           /\ Occupied(u) = Occupied(s) \cup {Len(u)} /\ Len(u) \notin Occupied(s)
           /\ u[Len(u)] = r /\ \A j \in Occupied(s) : u[j] = s[j]
           /\ Online(u) = IF r.conn = NoConn THEN Online(s) ELSE Online(s) \cup {Len(u)}
           /\ Occupied(s) = DOMAIN s => Occupied(u) = DOMAIN u
<1> USE DEF Seated
<1>1. Len(s) \in Nat /\ DOMAIN s = 1..Len(s) /\ r # Vacant
    BY OccupiedSeats, Limits
<1>2. /\ u \in SeatVectors /\ Len(u) = Len(s) + 1 /\ DOMAIN u = 1..Len(s) + 1
      /\ u[Len(u)] = r /\ \A j \in DOMAIN s : u[j] = s[j]
    BY <1>1 DEF SeatVectors
<1>3. DOMAIN u = DOMAIN s \cup {Len(u)} /\ Len(u) \notin DOMAIN s
    BY <1>1, <1>2
<1>4. Occupied(u) = Occupied(s) \cup {Len(u)} /\ Len(u) \notin Occupied(s)
    BY <1>1, <1>2, <1>3 DEF Occupied
<1>5. Online(u) = IF r.conn = NoConn THEN Online(s) ELSE Online(s) \cup {Len(u)}
    BY <1>2, <1>3, <1>4 DEF Online, Occupied
<1> QED
    BY <1>2, <1>3, <1>4, <1>5 DEF Occupied

\* Every taken seat is touched, and none moves.
LEMMA SeatsTouched ==
    ASSUME NEW s \in SeatVectors, NEW u \in SeatVectors,
           Len(u) = Len(s), Occupied(u) = Occupied(s),
           \A i \in Occupied(s) : u[i].token = s[i].token /\ u[i].conn = s[i].conn /\ u[i].away = s[i].away
    PROVE  /\ Online(u) = Online(s)
           /\ \A gone, links : GoodSeats(s, gone, links) => GoodSeats(u, gone, links)
           /\ \A time, waiting : Stamped(s, time, waiting) => Stamped(u, time, waiting)
<1>1. Online(u) = Online(s)
    BY DEF Online
<1>2. \A gone, links : GoodSeats(s, gone, links) => GoodSeats(u, gone, links)
    BY DEF GoodSeats
<1>3. \A time, waiting : Stamped(s, time, waiting) => Stamped(u, time, waiting)
    BY DEF Stamped
<1> QED
    BY <1>1, <1>2, <1>3

----------------------------------------------------------------------------
(***************************************************************************)
(* The steps.                                                              *)
(***************************************************************************)

LEMMA RoomInvInit == RoomInit => RoomInv
<1> SUFFICES ASSUME RoomInit PROVE RoomInv
    OBVIOUS
<1>1. LifeInv
    BY LifeInvInit DEF RoomInit
<1>2. seats \in SeatVectors /\ Len(seats) = 0 /\ DOMAIN seats = {} /\ Occupied(seats) = {} /\ Online(seats) = {}
    BY DEF RoomInit, SeatVectors, Occupied, Online
<1>3. GoodSeats(seats, kicked, link) /\ Stamped(seats, now, phase = "Waiting")
    BY <1>2 DEF GoodSeats, Stamped
<1>4. ConnectedCount /\ WaitingDense
    BY <1>2, FS_EmptySet DEF RoomInit, LifeInit, ConnectedCount, WaitingDense
<1>5. ~Draining
    BY DEF RoomInit, LifeInit, Draining
<1>6. kicked \in SUBSET Tokens /\ link \in [Conns -> {"new", "in", "over"}]
      /\ world \in {"none", "fresh", "running"} /\ hub_draining \in BOOLEAN
    BY DEF RoomInit
<1>7. Len(seats) <= SeatsPlayable
    BY <1>2, Limits
<1> QED
    BY <1>1, <1>2, <1>3, <1>4, <1>5, <1>6, <1>7 DEF RoomInv, SeatInv

\* What the invariant gives a step of an open room.
LEMMA OpenRoom ==
    ASSUME RoomInv, open
    PROVE  /\ connected = Cardinality(Online(seats)) /\ connected \in Nat
           /\ Cardinality(Occupied(seats)) <= SeatsPlayable
           /\ \A i \in Occupied(seats) : seats[i] \in Seat
           /\ IsFiniteSet(Online(seats)) /\ IsFiniteSet(Occupied(seats))
           /\ \A i \in Online(seats) : connected > 0 /\ Cardinality(Online(seats) \ {i}) = connected - 1
           /\ \A i : i \notin Online(seats) => Cardinality(Online(seats) \cup {i}) = connected + 1
           /\ \A i \in Occupied(seats) : i \notin Online(seats) => connected < SeatsPlayable
<1>1. connected = Cardinality(Online(seats))
    BY DEF RoomInv, SeatInv, ConnectedCount
<1>2. seats \in SeatVectors /\ Len(seats) <= SeatsPlayable
    BY DEF RoomInv, SeatInv
<1>3. /\ connected \in Nat /\ Cardinality(Occupied(seats)) <= Len(seats)
      /\ Cardinality(Occupied(seats)) \in Nat /\ Len(seats) \in Nat
      /\ \A i \in Occupied(seats) : seats[i] \in Seat
      /\ IsFiniteSet(Online(seats)) /\ IsFiniteSet(Occupied(seats)) /\ Online(seats) \subseteq Occupied(seats)
    BY <1>1, <1>2, OccupiedSeats
<1>4. \A i \in Online(seats) : Cardinality(Online(seats) \ {i}) = connected - 1
    BY <1>1, <1>3, FS_RemoveElement
<1>5. \A i \in Online(seats) : connected > 0
    <2> TAKE i \in Online(seats)
    <2>1. IsFiniteSet(Online(seats) \ {i})
        BY <1>3, FS_RemoveElement
    <2>2. Cardinality(Online(seats) \ {i}) \in Nat
        BY <2>1, FS_CardinalityType
    <2>3. Cardinality(Online(seats) \ {i}) = connected - 1
        BY <1>4
    <2> QED
        BY <1>3, <2>2, <2>3
<1>6. \A i : i \notin Online(seats) => Cardinality(Online(seats) \cup {i}) = connected + 1
    BY <1>1, <1>3, FS_AddElement
<1>7. \A i \in Occupied(seats) : i \notin Online(seats) => connected < SeatsPlayable
    <2> TAKE i \in Occupied(seats)
    <2> HAVE i \notin Online(seats)
    <2>1. Online(seats) \cup {i} \subseteq Occupied(seats)
        BY <1>3
    <2>2. Cardinality(Online(seats) \cup {i}) <= Cardinality(Occupied(seats))
        BY <1>3, <2>1, FS_Subset
    <2> QED
        BY <1>2, <1>3, <1>6, <2>2, Limits
<1> QED
    BY <1>1, <1>2, <1>3, <1>4, <1>5, <1>6, <1>7, Limits

\* A step that leaves the seats and the devices alone.
LEMMA SeatsStay ==
    ASSUME RoomInv, open, UNCHANGED <<seats, kicked, link>>,
           world' \in {"none", "fresh", "running"}, hub_draining' \in BOOLEAN,
           hub_draining => hub_draining',
           connected' = connected, phase' = "Waiting" => phase = "Waiting",
           open' => Stamped(seats, now', phase' = "Waiting"),
           Draining' => hub_draining'
    PROVE  SeatInv'
<1>1. SeatInv
    BY DEF RoomInv
<1> QED
    BY <1>1 DEF SeatInv, ConnectedCount, WaitingDense, Occupied, Online, GoodSeats, Stamped

\* A refused join, a refused lobby message, a tick, the end of a round and
\* the drain.
LEMMA QuietSteps ==
    ASSUME RoomInv, open,
           \/ \E c \in Conns, t \in Tokens : JoinRefused(c, t)
           \/ \E i, why : Refuse(i, why)
           \/ Tick
           \/ (phase = "Playing" \/ ExpiredEndRound) /\ EndRound
           \/ HubDrain
           \/ BeginDrain
    PROVE  [LifeNext]_lifeVars /\ SeatInv'
<1>1. Stamped(seats, now, phase = "Waiting") /\ SeatInv /\ (Draining => hub_draining)
    BY DEF RoomInv, SeatInv
<1>2. world \in {"none", "fresh", "running"} /\ hub_draining \in BOOLEAN
    BY <1>1 DEF SeatInv
<1>3. CASE UNCHANGED <<lifeVars, seats, kicked, link>> /\ world' \in {"none", "fresh", "running"}
           /\ hub_draining' \in BOOLEAN /\ (hub_draining => hub_draining')
    <2>1. UNCHANGED <<connected, phase, now, drain_at, open>>
        BY <1>3 DEF lifeVars
    <2>2. Draining' => hub_draining'
        BY <1>1, <1>3, <2>1 DEF Draining
    <2>3. SeatInv'
        BY <1>1, <1>3, <2>1, <2>2, SeatsStay
    <2> QED
        BY <1>3, <2>3
<1>4. CASE (phase = "Playing" \/ ExpiredEndRound) /\ EndRound
    <2>1. LifeNext
        BY <1>4 DEF EndRound, LifeNext
    <2>2. /\ UNCHANGED <<seats, kicked, link, world, hub_draining, connected, drain_at>>
          /\ phase' = "Ended"
        BY <1>4 DEF EndRound, End
    <2>3. Stamped(seats, now', phase' = "Waiting")
        BY <1>1, <2>2 DEF Stamped
    <2>4. Draining' => hub_draining'
        BY <1>1, <2>2 DEF Draining
    <2>5. SeatInv'
        BY <1>2, <2>2, <2>3, <2>4, SeatsStay
    <2> QED
        BY <2>1, <2>5
<1>5. CASE BeginDrain
    <2>1. LifeNext
        BY <1>5 DEF BeginDrain, LifeNext
    <2>2. UNCHANGED <<seats, kicked, link, world, hub_draining, connected, phase, now>> /\ hub_draining
        BY <1>5 DEF BeginDrain, Drain
    <2>3. SeatInv'
        BY <1>1, <1>2, <2>2, SeatsStay
    <2> QED
        BY <2>1, <2>3
<1> QED
    BY <1>2, <1>3, <1>4, <1>5 DEF JoinRefused, Refuse, Tick, HubDrain

\* Time passes: every grace that runs is served in time.
LEMMA PassStep ==
    ASSUME RoomInv, open, RoomPass
    PROVE  [LifeNext]_lifeVars /\ SeatInv'
<1>1. SeatInv /\ Stamped(seats, now, phase = "Waiting") /\ now \in Nat
    BY DEF RoomInv, SeatInv, LifeInv, LifeTypeOK, Instants
<1>2. /\ UNCHANGED <<seats, kicked, link, world, hub_draining, connected, phase, drain_at, open>>
      /\ now' = now + 1
    BY DEF RoomPass, Pass
<1>3. \A i \in Occupied(seats) : seats[i] \in Seat
    BY OpenRoom
<1>4. Stamped(seats, now', phase' = "Waiting")
    <2> SUFFICES ASSUME NEW i \in Occupied(seats), seats[i].conn = NoConn, phase = "Waiting"
                 PROVE  now + 1 <= seats[i].away + SeatGrace + Lag
        BY <1>1, <1>2 DEF Stamped
    <2>1. seats[i].away # NoTime
        BY <1>1 DEF Stamped
    <2>2. now < seats[i].away + SeatGrace + Lag
        BY <2>1 DEF RoomPass
    <2>3. seats[i].away \in Int
        BY <1>3, Limits DEF Seat, Instants
    <2> QED
        BY <1>1, <2>2, <2>3, Limits
<1>5. SeatInv'
    BY <1>1, <1>2, <1>4, SeatsStay DEF SeatInv, Draining
<1> QED
    BY <1>5 DEF RoomPass, LifeNext

----------------------------------------------------------------------------
\* A new device: its connection was new, so it sat nowhere.
LEMMA JoinNewStep ==
    ASSUME RoomInv, open, NEW c \in Conns, NEW t \in Tokens, JoinNew(c, t)
    PROVE  [LifeNext]_lifeVars /\ SeatInv'
<1> DEFINE r == [token |-> t, ready |-> FALSE, conn |-> c, away |-> NoTime]
<1>1. SeatInv /\ Stamped(seats, now, phase = "Waiting") /\ GoodSeats(seats, kicked, link)
    BY DEF RoomInv, SeatInv
<1>2. /\ t \notin kicked /\ Owned(t) = {} /\ phase = "Waiting"
      /\ ~(Cardinality(Occupied(seats)) >= SeatsPlayable)
    BY DEF JoinNew, JoinRefusal
<1>3. r \in Seat /\ r.conn = c /\ r.token = t /\ r.away = NoTime /\ c # NoConn
    BY Limits DEF Seat
<1>4. /\ seats \in SeatVectors /\ Occupied(seats) = DOMAIN seats
      /\ Cardinality(DOMAIN seats) = Len(seats) /\ Len(seats) \in Nat
    BY <1>1, <1>2, OccupiedSeats DEF SeatInv, WaitingDense
<1>5. Len(seats) < SeatsPlayable
    BY <1>2, <1>4, Limits
<1> HIDE DEF r
<1> PICK u : u = Seated(seats, r)
    OBVIOUS
<1>6. /\ seats' = u /\ link' = [link EXCEPT ![c] = "in"] /\ link[c] = "new" /\ Connect
      /\ UNCHANGED <<kicked, world, hub_draining>>
    BY DEF JoinNew, Seated, r
<1>7. UNCHANGED <<now, phase, drain_at, open>> /\ connected' = connected + 1
    BY <1>2, <1>6 DEF Connect
<1>8. /\ u \in SeatVectors /\ Len(u) = Len(seats) + 1
      /\ Occupied(u) = Occupied(seats) \cup {Len(u)} /\ Len(u) \notin Occupied(seats)
      /\ u[Len(u)] = r /\ \A j \in Occupied(seats) : u[j] = seats[j]
      /\ Online(u) = Online(seats) \cup {Len(u)} /\ Occupied(u) = DOMAIN u
    BY <1>3, <1>4, SeatAdded
<1>9. connected' = Cardinality(Online(u))
    BY <1>7, <1>8, OpenRoom DEF Online
<1>10. LifeNext
    <2>1. Cardinality(Online(seats)) <= Len(seats) /\ connected = Cardinality(Online(seats)) /\ connected \in Nat
        BY <1>4, OpenRoom, OccupiedSeats
    <2>2. connected < SeatsPlayable
        BY <1>4, <1>5, <2>1, Limits
    <2> QED
        BY <1>6, <2>2 DEF LifeNext
<1>11. \A i \in Occupied(seats) : seats[i].token # t /\ seats[i].conn # c
    BY <1>1, <1>2, <1>3, <1>6 DEF Owned, GoodSeats
<1>12. GoodSeats(u, kicked, link')
    <2>1. link \in [Conns -> {"new", "in", "over"}] /\ \A i \in Occupied(seats) : seats[i] \in Seat
        BY <1>1, OpenRoom DEF SeatInv
    <2>2. link'[c] = "in" /\ \A i \in Occupied(seats) : seats[i].conn # NoConn => link'[seats[i].conn] = "in"
        BY <1>1, <1>6, <1>11, <2>1 DEF Seat, GoodSeats
    <2> QED
        BY <1>1, <1>2, <1>3, <1>8, <1>11, <2>2 DEF GoodSeats
<1>13. Stamped(u, now, phase = "Waiting")
    BY <1>1, <1>3, <1>8 DEF Stamped
<1>14. link' \in [Conns -> {"new", "in", "over"}]
    BY <1>1, <1>6 DEF SeatInv
<1>15. Len(u) <= SeatsPlayable
    BY <1>4, <1>5, <1>8, Limits
<1>16. SeatInv'
    BY <1>1, <1>6, <1>7, <1>8, <1>9, <1>12, <1>13, <1>14, <1>15
    DEF SeatInv, ConnectedCount, WaitingDense, Draining
<1> QED
    BY <1>10, <1>16

\* A seat changes its connection, or loses it: what every step that does
\* so has in common.
LEMMA SeatStep ==
    ASSUME RoomInv, open, NEW i \in Occupied(seats), NEW r \in Seat,
           seats' = Put(seats, i, r),
           r.token = seats[i].token,
           link' \in [Conns -> {"new", "in", "over"}],
           \A j \in Occupied(seats) : j # i /\ seats[j].conn # NoConn => link'[seats[j].conn] = "in",
           r.conn # NoConn => r.away = NoTime /\ link'[r.conn] = "in"
                              /\ \A j \in Occupied(seats) : j # i => seats[j].conn # r.conn,
           r.conn = NoConn => r.away = now,
           UNCHANGED <<kicked, world, hub_draining>>,
           UNCHANGED <<now, drain_at, open>>, phase' = "Waiting" => phase = "Waiting",
           connected' = Cardinality(IF r.conn = NoConn THEN Online(seats) \ {i} ELSE Online(seats) \cup {i})
    PROVE  SeatInv'
<1>1. /\ SeatInv /\ Stamped(seats, now, phase = "Waiting") /\ GoodSeats(seats, kicked, link)
      /\ now \in Instants
    BY DEF RoomInv, SeatInv, LifeInv, LifeTypeOK
<1> PICK u : u = Put(seats, i, r)
    OBVIOUS
<1>2. /\ u \in SeatVectors /\ Len(u) = Len(seats) /\ DOMAIN u = DOMAIN seats
      /\ Occupied(u) = Occupied(seats) /\ u[i] = r /\ \A j \in Occupied(seats) : j # i => u[j] = seats[j]
      /\ Online(u) = IF r.conn = NoConn THEN Online(seats) \ {i} ELSE Online(seats) \cup {i}
    BY <1>1, SeatChanges DEF SeatInv
<1>3. seats' = u
    OBVIOUS
<1>4. GoodSeats(u, kicked, link')
    BY <1>1, <1>2 DEF GoodSeats
<1>5. Stamped(u, now, phase' = "Waiting")
    <2>1. now # NoTime /\ now <= now + SeatGrace + Lag
        BY <1>1, Limits DEF Instants, NoTime
    <2> QED
        BY <1>1, <1>2, <2>1 DEF Stamped
<1>6. WaitingDense'
    BY <1>1, <1>2, <1>3 DEF SeatInv, WaitingDense
<1>7. ConnectedCount'
    BY <1>2, <1>3 DEF ConnectedCount
<1> QED
    BY <1>1, <1>2, <1>3, <1>4, <1>5, <1>6, <1>7 DEF SeatInv, Draining

\* A socket takes an owned seat: an away seat counts again, a live one was
\* counted.
LEMMA ReclaimStep ==
    ASSUME RoomInv, open, NEW c \in Conns, NEW t \in Tokens, Reclaim(c, t)
    PROVE  [LifeNext]_lifeVars /\ SeatInv'
<1>1. PICK i \in Owned(t) : seats' = Reclaimed(i, c) /\ ReclaimCount(i)
    BY DEF Reclaim
<1>2. /\ SeatInv /\ GoodSeats(seats, kicked, link) /\ seats \in SeatVectors
      /\ link \in [Conns -> {"new", "in", "over"}]
    BY DEF RoomInv, SeatInv
<1>3. /\ link[c] = "new" /\ link' = [link EXCEPT ![c] = "in"] /\ UNCHANGED <<kicked, world, hub_draining>>
    BY DEF Reclaim
<1>4. i \in Occupied(seats) /\ seats[i].token = t /\ \A j \in Occupied(seats) : seats[j] \in Seat
    BY OpenRoom DEF Owned
<1> DEFINE r == [seats[i] EXCEPT !.conn = c, !.away = NoTime]
<1>5. r \in Seat /\ r.conn = c /\ r.away = NoTime /\ r.token = seats[i].token /\ c # NoConn
    BY <1>4, Limits DEF Seat
<1>6. seats' = Put(seats, i, r)
    BY <1>1, <1>2, <1>4 DEF Reclaimed, Put, Occupied, SeatVectors
<1> HIDE DEF r
<1>7. \A j \in Occupied(seats) : seats[j].conn # c
    BY <1>2, <1>3, Limits DEF GoodSeats
<1>8. link' \in [Conns -> {"new", "in", "over"}] /\ link'[c] = "in"
    BY <1>2, <1>3
<1>9. \A j \in Occupied(seats) : seats[j].conn # NoConn => link'[seats[j].conn] = "in"
    BY <1>2, <1>3, <1>4, <1>7 DEF GoodSeats, Seat
<1>10. [LifeNext]_lifeVars /\ UNCHANGED <<now, drain_at, open>> /\ (phase' = "Waiting" => phase = "Waiting")
       /\ connected' = Cardinality(Online(seats) \cup {i})
    <2>1. CASE seats[i].conn = NoConn
        <3>1. i \notin Online(seats) /\ Connect
            BY <1>1, <2>1 DEF Online, ReclaimCount
        <3>2. connected < SeatsPlayable
            BY <1>4, <3>1, OpenRoom
        <3>3. LifeNext
            BY <3>1, <3>2 DEF LifeNext
        <3>4. Cardinality(Online(seats) \cup {i}) = connected + 1
            BY <3>1, OpenRoom
        <3> QED
            BY <3>1, <3>3, <3>4 DEF Connect
    <2>2. CASE seats[i].conn # NoConn
        <3>1. Online(seats) \cup {i} = Online(seats) /\ UNCHANGED lifeVars
            BY <1>1, <1>4, <2>2 DEF Online, ReclaimCount
        <3> QED
            BY <3>1, OpenRoom DEF lifeVars
    <2> QED
        BY <2>1, <2>2
<1>11. SeatInv'
    BY <1>3, <1>4, <1>5, <1>6, <1>7, <1>8, <1>9, <1>10, SeatStep
<1> QED
    BY <1>10, <1>11

\* A socket closes: its seat, when it still has one, goes away from now.
LEMMA DisconnectedStep ==
    ASSUME RoomInv, open, NEW c \in Conns, Disconnected(c)
    PROVE  [LifeNext]_lifeVars /\ SeatInv'
<1>1. /\ SeatInv /\ GoodSeats(seats, kicked, link) /\ seats \in SeatVectors
      /\ Stamped(seats, now, phase = "Waiting")
      /\ link \in [Conns -> {"new", "in", "over"}] /\ now \in Instants
    BY DEF RoomInv, SeatInv, LifeInv, LifeTypeOK
<1>2. link' = [link EXCEPT ![c] = "over"] /\ UNCHANGED <<kicked, world, hub_draining>>
    BY DEF Disconnected
<1>3. link' \in [Conns -> {"new", "in", "over"}]
    BY <1>1, <1>2
<1>4. c # NoConn /\ \A j \in Occupied(seats) : seats[j] \in Seat
    BY Limits, OpenRoom
<1>5. \A j \in Occupied(seats) : seats[j].conn # NoConn /\ seats[j].conn # c => link'[seats[j].conn] = "in"
    BY <1>1, <1>2, <1>4 DEF GoodSeats, Seat
<1>6. CASE SeatOf(c) = {} /\ UNCHANGED <<lifeVars, seats>>
    <2>1. \A j \in Occupied(seats) : seats[j].conn # c
        BY <1>6 DEF SeatOf
    <2>2. GoodSeats(seats, kicked, link')
        BY <1>1, <1>5, <2>1 DEF GoodSeats
    <2>3. SeatInv'
        BY <1>1, <1>2, <1>3, <1>6, <2>2
        DEF SeatInv, ConnectedCount, WaitingDense, Draining, Online, Occupied, lifeVars, Stamped, GoodSeats
    <2> QED
        BY <1>6, <2>3
<1>7. ASSUME NEW i \in SeatOf(c), seats' = Dropped(i), Disconnect
      PROVE  [LifeNext]_lifeVars /\ SeatInv'
    <2>1. i \in Occupied(seats) /\ seats[i].conn = c /\ i \in Online(seats)
        BY <1>4 DEF SeatOf, Online
    <2> DEFINE r == [seats[i] EXCEPT !.conn = NoConn, !.away = now]
    <2>2. r \in Seat /\ r.conn = NoConn /\ r.away = now /\ r.token = seats[i].token
        BY <1>1, <1>4, <2>1 DEF Seat
    <2>3. seats' = Put(seats, i, r)
        BY <1>1, <1>4, <1>7, <2>1 DEF Dropped, Put, Occupied, SeatVectors
    <2> HIDE DEF r
    <2>4. connected > 0 /\ connected \in Nat /\ connected - 1 = Cardinality(Online(seats) \ {i})
        BY <2>1, OpenRoom
    <2>5. LifeNext
        BY <1>7, <2>4 DEF LifeNext
    <2>6. /\ connected' = Cardinality(Online(seats) \ {i}) /\ UNCHANGED <<now, drain_at, open>>
          /\ (phase' = "Waiting" => phase = "Waiting")
        BY <1>7, <2>4 DEF Disconnect
    <2>7. \A j \in Occupied(seats) : j # i /\ seats[j].conn # NoConn => link'[seats[j].conn] = "in"
        BY <1>1, <1>4, <1>5, <2>1 DEF GoodSeats
    <2>8. SeatInv'
        BY <1>2, <1>3, <2>1, <2>2, <2>3, <2>6, <2>7, SeatStep
    <2> QED
        BY <2>5, <2>8
<1> QED
    BY <1>6, <1>7 DEF Disconnected

\* READY: only a flag changes.
LEMMA ReadyStep ==
    ASSUME RoomInv, open, NEW i \in Occupied(seats), Ready(i)
    PROVE  [LifeNext]_lifeVars /\ SeatInv'
<1>1. /\ SeatInv /\ GoodSeats(seats, kicked, link) /\ seats \in SeatVectors
      /\ Stamped(seats, now, phase = "Waiting") /\ \A j \in Occupied(seats) : seats[j] \in Seat
    BY OpenRoom DEF RoomInv, SeatInv
<1> DEFINE r == [seats[i] EXCEPT !.ready = TRUE]
<1>2. r \in Seat /\ r.token = seats[i].token /\ r.conn = seats[i].conn /\ r.away = seats[i].away
    BY <1>1 DEF Seat
<1>3. UNCHANGED <<lifeVars, kicked, link, world, hub_draining>> /\ seats' = Put(seats, i, r)
    BY <1>1 DEF Ready, Put, Occupied, SeatVectors
<1> HIDE DEF r
<1> PICK u : u = Put(seats, i, r)
    OBVIOUS
<1>4. /\ u \in SeatVectors /\ Len(u) = Len(seats) /\ DOMAIN u = DOMAIN seats
      /\ Occupied(u) = Occupied(seats)
      /\ u[i] = r /\ \A j \in Occupied(seats) : j # i => u[j] = seats[j]
    <2>1. seats \in SeatVectors /\ r \in Seat
        BY <1>1, <1>2
    <2> QED
        BY <2>1, SeatChanges
<1>5. \A j \in Occupied(seats) : u[j].token = seats[j].token /\ u[j].conn = seats[j].conn /\ u[j].away = seats[j].away
    BY <1>2, <1>4
<1>6. Online(u) = Online(seats) /\ GoodSeats(u, kicked, link) /\ Stamped(u, now, phase = "Waiting")
    BY <1>1, <1>4, <1>5, SeatsTouched
<1>7. seats' = u
    BY <1>3
<1>8. SeatInv'
    BY <1>1, <1>3, <1>4, <1>6, <1>7 DEF SeatInv, ConnectedCount, WaitingDense, Draining, lifeVars
<1> QED
    BY <1>3, <1>8

\* The seats that a step frees: who is left stays as good as it was.
LEMMA SeatsFreed ==
    ASSUME RoomInv, open, NEW I \in SUBSET Occupied(seats),
           seats' = Without(I),
           kicked' \in SUBSET Tokens,
           \A i \in Occupied(seats) \ I : seats[i].token \notin kicked',
           UNCHANGED <<link, world, hub_draining>>,
           UNCHANGED <<now, drain_at, open>>, phase' = "Waiting" => phase = "Waiting",
           connected' = Cardinality(Online(seats) \ I)
    PROVE  SeatInv'
<1>1. /\ SeatInv /\ GoodSeats(seats, kicked, link) /\ seats \in SeatVectors
      /\ Stamped(seats, now, phase = "Waiting") /\ Len(seats) <= SeatsPlayable /\ Len(seats) \in Nat
    BY OccupiedSeats DEF RoomInv, SeatInv
<1> PICK u : u = Without(I)
    OBVIOUS
<1> DEFINE K == Occupied(seats) \ I
<1>2. /\ u \in SeatVectors /\ Len(u) <= Len(seats)
      /\ phase = "Waiting" => Occupied(u) = DOMAIN u
      /\ Carries(u, seats, K)
    BY <1>1, SeatsLeave
<1>3. K \in SUBSET Occupied(seats) /\ Online(seats) \cap K = Online(seats) \ I
    BY DEF Online
<1> HIDE DEF K
<1>4. /\ Cardinality(Online(u)) = Cardinality(Online(seats) \cap K)
      /\ \A gone, links : GoodSeats(seats, gone, links) => GoodSeats(u, gone, links)
      /\ \A time, waiting : Stamped(seats, time, waiting) => Stamped(u, time, waiting)
    <2>1. seats \in SeatVectors /\ u \in SeatVectors
        BY <1>1, <1>2
    <2> QED
        BY <1>2, <1>3, <2>1, CarriedOver
<1>5. \A k \in Occupied(u) : u[k].token \notin kicked'
    <2>1. PICK m \in Bijection(Occupied(u), K) : \A k \in Occupied(u) : u[k] = seats[m[k]]
        BY <1>2 DEF Carries
    <2>2. \A k \in Occupied(u) : m[k] \in K
        BY DEF Bijection, Injection
    <2> QED
        BY <2>1, <2>2 DEF K
<1>6. GoodSeats(u, kicked', link)
    <2>1. GoodSeats(u, kicked, link)
        BY <1>1, <1>4
    <2> QED
        BY <1>5, <2>1 DEF GoodSeats
<1>7. seats' = u /\ Len(u) \in Nat
    BY <1>2, OccupiedSeats
<1>8. Len(u) <= SeatsPlayable
    BY <1>1, <1>2, <1>7, Limits
<1>9. Stamped(u, now, phase' = "Waiting")
    BY <1>1, <1>4 DEF Stamped
<1>10. connected' = Cardinality(Online(u))
    BY <1>3, <1>4
<1> QED
    BY <1>1, <1>2, <1>6, <1>7, <1>8, <1>9, <1>10 DEF SeatInv, ConnectedCount, WaitingDense, Draining

\* remove_seat: a seat that has a socket is counted out.
LEMMA RemovedStep ==
    ASSUME RoomInv, open, NEW i \in Occupied(seats), NEW why, RemoveSeat(i, why),
           kicked' = kicked \/ kicked' = kicked \cup {seats[i].token}
    PROVE  [LifeNext]_lifeVars /\ SeatInv'
<1>1. SeatInv /\ GoodSeats(seats, kicked, link) /\ kicked \in SUBSET Tokens /\ seats[i] \in Seat
    BY OpenRoom DEF RoomInv, SeatInv
<1>2. kicked' \in SUBSET Tokens
    BY <1>1 DEF Seat
<1>3. \A j \in Occupied(seats) \ {i} : seats[j].token \notin kicked'
    BY <1>1 DEF GoodSeats
<1>4. /\ [LifeNext]_lifeVars /\ UNCHANGED <<now, drain_at, open>> /\ (phase' = "Waiting" => phase = "Waiting")
      /\ connected' = Cardinality(Online(seats) \ {i})
    <2>1. CASE seats[i].conn = NoConn
        <3>1. UNCHANGED lifeVars /\ Online(seats) \ {i} = Online(seats)
            BY <2>1 DEF RemoveSeat, Removed, Online
        <3> QED
            BY <3>1, OpenRoom DEF lifeVars
    <2>2. CASE seats[i].conn # NoConn
        <3>1. Disconnect /\ i \in Online(seats)
            BY <2>2 DEF RemoveSeat, Removed, Online
        <3>2. connected > 0 /\ connected \in Nat /\ connected - 1 = Cardinality(Online(seats) \ {i})
            BY <3>1, OpenRoom
        <3>3. LifeNext
            BY <3>1, <3>2 DEF LifeNext
        <3> QED
            BY <3>1, <3>2, <3>3 DEF Disconnect
    <2> QED
        BY <2>1, <2>2
<1>5. seats' = Without({i}) /\ UNCHANGED <<link, world, hub_draining>>
    BY DEF RemoveSeat
<1>6. SeatInv'
    BY <1>2, <1>3, <1>4, <1>5, SeatsFreed
<1> QED
    BY <1>4, <1>6

\* START: the room's host is connected, and a drain refuses it a rematch.
LEMMA StartStep ==
    ASSUME RoomInv, open, NEW i \in Online(seats), StartRefusal(i) = {}, StartRound(i)
    PROVE  [LifeNext]_lifeVars /\ SeatInv'
<1> DEFINE s == Settled(seats)
           v == [j \in DOMAIN s |-> IF s[j] = Vacant THEN Vacant ELSE [s[j] EXCEPT !.ready = FALSE]]
<1>1. /\ SeatInv /\ GoodSeats(seats, kicked, link) /\ seats \in SeatVectors
      /\ Stamped(seats, now, phase = "Waiting") /\ Len(seats) <= SeatsPlayable /\ Len(seats) \in Nat
      /\ Cardinality(Occupied(seats)) <= Len(seats) /\ Cardinality(Occupied(seats)) \in Nat
      /\ phase \in Phases /\ (Draining => hub_draining)
    BY OccupiedSeats DEF RoomInv, SeatInv, LifeInv, LifeTypeOK
<1>2. IsHost(i) /\ ~InRound /\ ~(phase = "Ended" /\ hub_draining)
    BY DEF StartRefusal
<1>3. /\ seats' = v /\ Start /\ world' = "fresh" /\ UNCHANGED <<kicked, link, hub_draining>>
    BY DEF StartRound
<1>4. connected > 0
    BY OpenRoom
<1>5. MayStart
    BY <1>1, <1>2 DEF MayStart, InRound, Phases
<1>6. LifeNext
    BY <1>3, <1>4, <1>5 DEF LifeNext
<1>7. /\ UNCHANGED <<now, connected, drain_at, open>> /\ phase' # "Waiting"
    BY <1>3 DEF Start
<1>8. /\ s \in SeatVectors /\ Len(s) <= SeatsPlayable
      /\ Cardinality(Online(s)) = Cardinality(Online(seats))
      /\ GoodSeats(s, kicked, link) /\ Stamped(s, now, phase = "Waiting")
    <2>1. CASE phase = "Waiting"
        <3>1. s = ClosedUp(seats)
            BY <2>1 DEF Settled
        <3> HIDE DEF s
        <3>2. s \in SeatVectors /\ Len(s) = Cardinality(Occupied(seats)) /\ Carries(s, seats, Occupied(seats))
            BY <1>1, <3>1, ClosesUp
        <3>3. Occupied(seats) \in SUBSET Occupied(seats) /\ Online(seats) \cap Occupied(seats) = Online(seats)
            BY DEF Online
        <3>4. /\ Cardinality(Online(s)) = Cardinality(Online(seats) \cap Occupied(seats))
              /\ \A gone, links : GoodSeats(seats, gone, links) => GoodSeats(s, gone, links)
              /\ \A time, waiting : Stamped(seats, time, waiting) => Stamped(s, time, waiting)
            BY <1>1, <3>2, <3>3, CarriedOver
        <3>5. Len(s) <= SeatsPlayable
            BY <1>1, <3>2, Limits
        <3> QED
            BY <1>1, <3>2, <3>3, <3>4, <3>5
    <2>2. CASE phase # "Waiting"
        <3>1. s = seats
            BY <2>2 DEF Settled
        <3> QED
            BY <1>1, <3>1
    <2> QED
        BY <2>1, <2>2
<1> HIDE DEF s
<1>9. /\ Len(s) \in Nat /\ DOMAIN s = 1..Len(s) /\ \A j \in Occupied(s) : s[j] \in Seat
      /\ \A j \in DOMAIN s : s[j] # Vacant => j \in Occupied(s)
    BY <1>8, OccupiedSeats DEF Occupied
<1>10. \A j \in Occupied(s) : [s[j] EXCEPT !.ready = FALSE] \in Seat
    BY <1>9 DEF Seat
<1>11. v \in SeatVectors /\ Len(v) = Len(s) /\ DOMAIN v = DOMAIN s
    BY <1>9, <1>10 DEF SeatVectors
<1>12. Occupied(v) = Occupied(s)
    BY <1>10, <1>9, <1>11, Limits DEF Occupied
<1>13. \A j \in Occupied(s) : v[j].token = s[j].token /\ v[j].conn = s[j].conn /\ v[j].away = s[j].away
    BY <1>9, <1>10 DEF Occupied, Seat
<1> PICK u : u = v
    OBVIOUS
<1>14. /\ Online(u) = Online(s)
       /\ \A gone, links : GoodSeats(s, gone, links) => GoodSeats(u, gone, links)
       /\ \A time, waiting : Stamped(s, time, waiting) => Stamped(u, time, waiting)
    <2> HIDE DEF v
    <2> QED
        BY <1>8, <1>11, <1>12, <1>13, SeatsTouched
<1>15. u \in SeatVectors /\ Len(u) = Len(s) /\ seats' = u
    BY <1>3, <1>11
<1> HIDE DEF v
<1>16. GoodSeats(u, kicked, link) /\ Stamped(u, now, phase = "Waiting")
    BY <1>8, <1>14
<1>17. Stamped(u, now, phase' = "Waiting")
    BY <1>7, <1>16 DEF Stamped
<1>18. connected' = Cardinality(Online(u)) \/ ~open
    BY <1>7, <1>8, <1>14, OpenRoom
<1>19. SeatInv'
    BY <1>1, <1>3, <1>7, <1>8, <1>15, <1>16, <1>17, <1>18 DEF SeatInv, ConnectedCount, WaitingDense, Draining
<1> QED
    BY <1>6, <1>19

\* The loop's end: nobody is connected to a room that is gone.
LEMMA ReapStep ==
    ASSUME RoomInv, open, ExpiredReap, ReapRoom
    PROVE  [LifeNext]_lifeVars /\ SeatInv'
<1> DEFINE v == [i \in DOMAIN seats |-> IF seats[i] = Vacant THEN Vacant ELSE [seats[i] EXCEPT !.conn = NoConn]]
<1>1. /\ SeatInv /\ GoodSeats(seats, kicked, link) /\ seats \in SeatVectors
      /\ Len(seats) \in Nat /\ DOMAIN seats = 1..Len(seats)
    BY OccupiedSeats DEF RoomInv, SeatInv
<1>2. seats' = v /\ Reap /\ UNCHANGED <<kicked, link, world, hub_draining>>
    BY DEF ReapRoom
<1>3. UNCHANGED <<now, phase, connected, drain_at>> /\ ~open'
    BY <1>2 DEF Reap
<1>4. LifeNext
    BY <1>2 DEF LifeNext
<1>5. /\ \A j \in Occupied(seats) : [seats[j] EXCEPT !.conn = NoConn] \in Seat /\ seats[j] \in Seat
      /\ \A j \in DOMAIN seats : seats[j] # Vacant => j \in Occupied(seats)
    BY OpenRoom DEF Seat, Occupied
<1>6. v \in SeatVectors /\ Len(v) = Len(seats) /\ DOMAIN v = DOMAIN seats
    BY <1>1, <1>5 DEF SeatVectors
<1>7. Occupied(v) = Occupied(seats)
    BY <1>5, <1>6, Limits DEF Occupied
<1>8. \A j \in Occupied(seats) : v[j].token = seats[j].token /\ v[j].conn = NoConn
    BY <1>5 DEF Occupied, Seat
<1> PICK u : u = v
    OBVIOUS
<1>9. seats' = u /\ u \in SeatVectors /\ Len(u) = Len(seats) /\ DOMAIN u = DOMAIN seats /\ Occupied(u) = Occupied(seats)
      /\ \A j \in Occupied(seats) : u[j].token = seats[j].token /\ u[j].conn = NoConn
    BY <1>2, <1>6, <1>7, <1>8
<1> HIDE DEF v
<1>10. GoodSeats(u, kicked, link)
    BY <1>1, <1>9 DEF GoodSeats
<1>11. SeatInv'
    BY <1>1, <1>2, <1>3, <1>9, <1>10 DEF SeatInv, ConnectedCount, WaitingDense, Draining
<1> QED
    BY <1>4, <1>11

\* A grace frees only seats that are away.
LEMMA GraceStep ==
    ASSUME RoomInv, open, ExpireGraces
    PROVE  [LifeNext]_lifeVars /\ SeatInv'
<1>1. GoodSeats(seats, kicked, link) /\ kicked \in SUBSET Tokens
    BY DEF RoomInv, SeatInv
<1>2. GraceOver \in SUBSET Occupied(seats)
    BY DEF GraceOver, PastGrace, Occupied
<1>3. Online(seats) \ GraceOver = Online(seats)
    BY <1>1 DEF GraceOver, PastGrace, Online, GoodSeats
<1>4. /\ seats' = Without(GraceOver) /\ UNCHANGED <<link, world, hub_draining, kicked>> /\ UNCHANGED lifeVars
    BY DEF ExpireGraces
<1>5. UNCHANGED <<now, drain_at, open, connected, phase>>
    BY <1>4 DEF lifeVars
<1>6. \A i \in Occupied(seats) \ GraceOver : seats[i].token \notin kicked'
    BY <1>1, <1>4 DEF GoodSeats
<1>7. connected' = Cardinality(Online(seats) \ GraceOver)
    BY <1>3, <1>5, OpenRoom
<1>8. SeatInv'
    BY <1>1, <1>2, <1>4, <1>5, <1>6, <1>7, SeatsFreed
<1> QED
    BY <1>4, <1>8

----------------------------------------------------------------------------
(***************************************************************************)
(* The theorems.                                                           *)
(***************************************************************************)

\* Every turn of the room is a step of its clock, and keeps the seats.
LEMMA RoomStepKeeps == RoomInv /\ [RoomNext]_roomVars => [LifeNext]_lifeVars /\ SeatInv'
<1> SUFFICES ASSUME RoomInv, [RoomNext]_roomVars PROVE [LifeNext]_lifeVars /\ SeatInv'
    OBVIOUS
<1>1. CASE UNCHANGED roomVars
    BY <1>1
    DEF roomVars, seatVars, lifeVars, RoomInv, SeatInv, ConnectedCount, WaitingDense, Draining,
        Online, Occupied, Stamped, GoodSeats
<1>2. ASSUME open, RoomStep PROVE [LifeNext]_lifeVars /\ SeatInv'
    <2> USE <1>2
    <2>1. CASE \E c \in Conns, t \in Tokens : JoinRefused(c, t)
        BY <2>1, QuietSteps
    <2>2. CASE \E c \in Conns, t \in Tokens : JoinNew(c, t)
        BY <2>2, JoinNewStep
    <2>3. CASE \E c \in Conns, t \in Tokens : Reclaim(c, t)
        BY <2>3, ReclaimStep
    <2>4. CASE \E c \in Conns : Disconnected(c)
        BY <2>4, DisconnectedStep
    <2>5. ASSUME NEW c \in Conns, LobbyCommand(c) PROVE [LifeNext]_lifeVars /\ SeatInv'
        <3>1. PICK i \in SeatOf(c) :
                 \/ Ready(i) \/ Leave(i) \/ StartRound(i)
                 \/ \E target \in 1..SeatsPlayable : Kick(i, target)
            BY <2>5 DEF LobbyCommand
        <3>2. i \in Occupied(seats) /\ i \in Online(seats)
            BY Limits DEF SeatOf, Online
        <3>3. CASE Ready(i)
            BY <3>2, <3>3, ReadyStep
        <3>4. CASE Leave(i)
            <4>1. RemoveSeat(i, "LeftRoom") /\ kicked' = kicked
                BY <3>4 DEF Leave
            <4> QED
                BY <3>2, <4>1, RemovedStep
        <3>5. CASE StartRound(i)
            <4>1. CASE StartRefusal(i) = {}
                BY <3>2, <3>5, <4>1, StartStep
            <4>2. CASE StartRefusal(i) # {}
                <5>1. \E why : Refuse(i, why)
                    BY <3>5, <4>2 DEF StartRound
                <5> QED
                    BY <5>1, QuietSteps
            <4> QED
                BY <4>1, <4>2
        <3>6. ASSUME NEW target \in 1..SeatsPlayable, Kick(i, target)
              PROVE  [LifeNext]_lifeVars /\ SeatInv'
            <4>1. CASE \E why : Refuse(i, why)
                BY <4>1, QuietSteps
            <4>2. CASE /\ KickRefusal(i, target) = {} /\ kicked' = kicked \cup {seats[target].token}
                       /\ RemoveSeat(target, "Kicked")
                <5>1. target \in Occupied(seats)
                    BY <4>2 DEF KickRefusal
                <5> QED
                    BY <4>2, <5>1, RemovedStep
            <4> QED
                BY <3>6, <4>1, <4>2 DEF Kick
        <3> QED
            BY <3>1, <3>3, <3>4, <3>5, <3>6
    <2>6. CASE Tick
        BY <2>6, QuietSteps
    <2>7. CASE RoundDecided
        BY <2>7, QuietSteps DEF RoundDecided
    <2>8. CASE OnDeadline
        <3>1. CASE ExpiredReap /\ ReapRoom
            BY <3>1, ReapStep
        <3>2. CASE ExpiredEndRound /\ EndRound
            BY <3>2, QuietSteps
        <3>3. CASE ExpireGraces
            BY <3>3, GraceStep
        <3> QED
            BY <2>8, <3>1, <3>2, <3>3 DEF OnDeadline
    <2>9. CASE HubDrain
        BY <2>9, QuietSteps
    <2>10. CASE BeginDrain
        BY <2>10, QuietSteps
    <2>11. CASE RoomPass
        BY <2>11, PassStep
    <2> QED
        BY <2>1, <2>2, <2>3, <2>4, <2>5, <2>6, <2>7, <2>8, <2>9, <2>10, <2>11 DEF RoomStep
<1> QED
    BY <1>1, <1>2 DEF RoomNext

\* The invariant holds of every behaviour of a room.
THEOREM RoomInvariant == RoomSpec => []RoomInv
<1>1. RoomInv /\ [RoomNext]_roomVars => RoomInv'
    BY RoomStepKeeps, LifeInvStep DEF RoomInv
<1> QED
    BY RoomInvInit, <1>1, PTL DEF RoomSpec

\* The room keeps to its clock: whatever its handlers do - and each of them
\* calls the clock's methods by hand - it calls them as their rules demand.
THEOREM RoomImplementsLife == RoomSpec => LifeSpec
<1>1. RoomInit => LifeInit
    BY DEF RoomInit
<1>2. RoomInv /\ [RoomNext]_roomVars => [LifeNext]_lifeVars
    BY RoomStepKeeps
<1> QED
    BY RoomInvariant, <1>1, <1>2, PTL DEF RoomSpec, LifeSpec

\* Every seat, flag and connection state stays in its range.
THEOREM RoomTypeCorrect == RoomSpec => []RoomTypeOK
<1>1. RoomInv => RoomTypeOK
    BY DEF RoomInv, SeatInv, LifeInv, RoomTypeOK, SeatVectors
<1> QED
    BY RoomInvariant, <1>1, PTL

\* The count of connected seats is the number of seats on a socket, whatever
\* joins, reclaims, kicks and stale disconnects come in whatever order.
THEOREM CountAlwaysRight == RoomSpec => []ConnectedCount
<1>1. RoomInv => ConnectedCount
    BY DEF RoomInv, SeatInv
<1> QED
    BY RoomInvariant, <1>1, PTL

\* A device never has two seats, a connection never sits on two, and a kicked
\* device has none.
THEOREM SeatsAlwaysOwned == RoomSpec => []SeatsOwned
<1>1. RoomInv => SeatsOwned
    BY DEF RoomInv, SeatInv, SeatsOwned, GoodSeats
<1> QED
    BY RoomInvariant, <1>1, PTL

\* A waiting room never has a vacant seat, so its vector is within the cap.
THEOREM WaitingAlwaysDense == RoomSpec => []WaitingDense
<1>1. RoomInv => WaitingDense
    BY DEF RoomInv, SeatInv
<1> QED
    BY RoomInvariant, <1>1, PTL

\* An away seat of a waiting room is freed within its grace and the loop's
\* lateness.
THEOREM GraceAlwaysBounded == RoomSpec => []GraceBounded
<1>1. RoomInv => GraceBounded
    BY DEF RoomInv, SeatInv, GraceBounded, Stamped
<1> QED
    BY RoomInvariant, <1>1, PTL

----------------------------------------------------------------------------
(***************************************************************************)
(* What a step may never do to the seats.                                  *)
(***************************************************************************)

\* A deadline frees no seat that has a socket: one whose grace is over has
\* none.
LEMMA SparedStep ==
    ASSUME RoomInv, OnDeadline, open', NEW i \in Online(seats)
    PROVE  \E j \in Occupied(seats') : seats'[j] = seats[i]
<1>1. /\ seats \in SeatVectors /\ GoodSeats(seats, kicked, link)
      /\ i \in Occupied(seats) /\ seats[i].conn # NoConn
    BY DEF RoomInv, SeatInv, Online
<1>2. CASE ExpiredReap /\ ReapRoom
    BY <1>2 DEF ReapRoom, Reap
<1>3. CASE EndRound
    BY <1>1, <1>3 DEF EndRound
<1>4. CASE ExpireGraces
    <2>1. i \in Occupied(seats) \ GraceOver
        BY <1>1 DEF GraceOver, PastGrace, GoodSeats
    <2>2. Carries(Without(GraceOver), seats, Occupied(seats) \ GraceOver)
        BY <1>1, SeatsLeave
    <2>3. PICK m \in Bijection(Occupied(Without(GraceOver)), Occupied(seats) \ GraceOver) :
              \A k \in Occupied(Without(GraceOver)) : Without(GraceOver)[k] = seats[m[k]]
        BY <2>2 DEF Carries
    <2>4. \E k \in Occupied(Without(GraceOver)) : m[k] = i
        BY <2>1 DEF Bijection, Surjection
    <2>5. seats' = Without(GraceOver)
        BY <1>4 DEF ExpireGraces
    <2> QED
        BY <2>3, <2>4, <2>5
<1> QED
    BY <1>2, <1>3, <1>4 DEF OnDeadline

\* The seats of a round stay where they are, each its device's; one that is
\* away goes with a kick only.
SeatsStayPut ==
    /\ \A j \in Occupied(seats') : j \in Occupied(seats) /\ seats'[j].token = seats[j].token
    /\ \A i \in Occupied(seats) \ Online(seats) : i \in Occupied(seats') \/ seats[i].token \in kicked'

\* A seat is freed, past the waiting phase: the others keep their places.
LEMMA VacatedStep ==
    ASSUME RoomInv, phase # "Waiting", NEW i \in Occupied(seats), seats' = Without({i}),
           i \in Online(seats) \/ seats[i].token \in kicked'
    PROVE  SeatsStayPut
<1>1. Without({i}) = [j \in DOMAIN seats |-> IF j \in {i} THEN Vacant ELSE seats[j]]
    BY DEF Without, Settled
<1>2. \A j \in DOMAIN seats : seats'[j] = IF j = i THEN Vacant ELSE seats[j]
    BY <1>1
<1>3. DOMAIN seats' = DOMAIN seats
    BY <1>1
<1> QED
    BY <1>2, <1>3 DEF SeatsStayPut, Occupied

\* A seat is given another record of the same device.
LEMMA RestatedStep ==
    ASSUME RoomInv, NEW i \in Occupied(seats), NEW r \in Seat, r.token = seats[i].token,
           seats' = Put(seats, i, r)
    PROVE  SeatsStayPut
<1>1. seats \in SeatVectors
    BY DEF RoomInv, SeatInv
<1>2. PICK u : u = Put(seats, i, r)
    OBVIOUS
<1>3. /\ Occupied(u) = Occupied(seats) /\ u[i] = r
      /\ \A j \in Occupied(seats) : j # i => u[j] = seats[j]
    BY <1>1, <1>2, SeatChanges
<1>4. seats' = u
    BY <1>2
<1> QED
    BY <1>3, <1>4 DEF SeatsStayPut

LEMMA KeptStep == RoomInv /\ [RoomNext]_roomVars /\ phase # "Waiting" => SeatsStayPut
<1> SUFFICES ASSUME RoomInv, [RoomNext]_roomVars, phase # "Waiting" PROVE SeatsStayPut
    OBVIOUS
<1>1. seats \in SeatVectors /\ \A i \in Occupied(seats) : seats[i] \in Seat
    BY OccupiedSeats DEF RoomInv, SeatInv
<1>2. CASE seats' = seats
    BY <1>2 DEF SeatsStayPut
<1>3. CASE \E c \in Conns, t \in Tokens : JoinNew(c, t)
    BY <1>3 DEF JoinNew, JoinRefusal
<1>4. ASSUME NEW c \in Conns, NEW t \in Tokens, Reclaim(c, t) PROVE SeatsStayPut
    <2>1. PICK i \in Owned(t) : seats' = Reclaimed(i, c)
        BY <1>4 DEF Reclaim
    <2>2. i \in Occupied(seats) /\ seats[i] \in Seat
        BY <1>1, <2>1 DEF Owned
    <2> DEFINE r == [seats[i] EXCEPT !.conn = c, !.away = NoTime]
    <2>3. r \in Seat /\ r.token = seats[i].token
        BY <2>2 DEF Seat
    <2>4. seats' = Put(seats, i, r)
        BY <1>1, <2>1, <2>2 DEF Reclaimed, Put, Occupied, SeatVectors
    <2> HIDE DEF r
    <2> QED
        BY <2>2, <2>3, <2>4, RestatedStep
<1>5. ASSUME NEW c \in Conns, Disconnected(c), seats' # seats PROVE SeatsStayPut
    <2>1. PICK i \in SeatOf(c) : seats' = Dropped(i)
        BY <1>5 DEF Disconnected
    <2>2. i \in Occupied(seats) /\ seats[i] \in Seat
        BY <1>1, <2>1 DEF SeatOf
    <2> DEFINE r == [seats[i] EXCEPT !.conn = NoConn, !.away = now]
    <2>3. r \in Seat /\ r.token = seats[i].token
        BY <2>2 DEF Seat, RoomInv, LifeInv, LifeTypeOK
    <2>4. seats' = Put(seats, i, r)
        BY <1>1, <2>1, <2>2 DEF Dropped, Put, Occupied, SeatVectors
    <2> HIDE DEF r
    <2> QED
        BY <2>2, <2>3, <2>4, RestatedStep
<1>6. ASSUME NEW c \in Conns, LobbyCommand(c), seats' # seats PROVE SeatsStayPut
    <2>1. PICK i \in SeatOf(c) :
             \/ Ready(i) \/ Leave(i) \/ StartRound(i)
             \/ \E target \in 1..SeatsPlayable : Kick(i, target)
        BY <1>6 DEF LobbyCommand
    <2>2. i \in Occupied(seats) /\ i \in Online(seats) /\ seats[i] \in Seat
        BY <1>1, Limits DEF SeatOf, Online
    <2>3. CASE Ready(i)
        <3> DEFINE r == [seats[i] EXCEPT !.ready = TRUE]
        <3>1. r \in Seat /\ r.token = seats[i].token
            BY <2>2 DEF Seat
        <3>2. seats' = Put(seats, i, r)
            BY <1>1, <2>2, <2>3 DEF Ready, Put, Occupied, SeatVectors
        <3> HIDE DEF r
        <3> QED
            BY <2>2, <3>1, <3>2, RestatedStep
    <2>4. CASE Leave(i)
        BY <2>2, <2>4, VacatedStep DEF Leave, RemoveSeat
    <2>5. CASE StartRound(i)
        <3>1. seats' = [j \in DOMAIN seats |-> IF seats[j] = Vacant THEN Vacant
                                               ELSE [seats[j] EXCEPT !.ready = FALSE]]
            BY <1>6, <2>5 DEF StartRound, Refuse, Settled
        <3>2. \A j \in Occupied(seats) : [seats[j] EXCEPT !.ready = FALSE] \in Seat
                                         /\ [seats[j] EXCEPT !.ready = FALSE].token = seats[j].token
            BY <1>1 DEF Seat
        <3>3. DOMAIN seats' = DOMAIN seats
            BY <3>1
        <3>4. \A j \in DOMAIN seats : seats'[j] = IF seats[j] = Vacant THEN Vacant
                                                  ELSE [seats[j] EXCEPT !.ready = FALSE]
            BY <3>1
        <3> QED
            BY <3>2, <3>3, <3>4, Limits DEF SeatsStayPut, Occupied
    <2>6. ASSUME NEW target \in 1..SeatsPlayable, Kick(i, target) PROVE SeatsStayPut
        <3>1. /\ target \in Occupied(seats) /\ seats' = Without({target})
              /\ seats[target].token \in kicked'
            BY <1>6, <2>6 DEF Kick, Refuse, KickRefusal, RemoveSeat
        <3> QED
            BY <3>1, VacatedStep
    <2> QED
        BY <2>1, <2>3, <2>4, <2>5, <2>6
<1>7. CASE ReapRoom
    <2>1. seats' = [i \in DOMAIN seats |-> IF seats[i] = Vacant THEN Vacant
                                           ELSE [seats[i] EXCEPT !.conn = NoConn]]
        BY <1>7 DEF ReapRoom
    <2>2. \A j \in Occupied(seats) : [seats[j] EXCEPT !.conn = NoConn] \in Seat
                                     /\ [seats[j] EXCEPT !.conn = NoConn].token = seats[j].token
        BY <1>1 DEF Seat
    <2>3. DOMAIN seats' = DOMAIN seats
        BY <2>1
    <2>4. \A j \in DOMAIN seats : seats'[j] = IF seats[j] = Vacant THEN Vacant
                                              ELSE [seats[j] EXCEPT !.conn = NoConn]
        BY <2>1
    <2> QED
        BY <2>2, <2>3, <2>4, Limits DEF SeatsStayPut, Occupied
<1>8. CASE OnDeadline /\ ~ReapRoom
    <2>1. GraceOver = {}
        BY DEF GraceOver
    <2>2. seats' = seats
        BY <1>8, <2>1 DEF OnDeadline, EndRound, ExpireGraces
    <2> QED
        BY <1>2, <2>2
<1>9. CASE \/ \E c \in Conns, t \in Tokens : JoinRefused(c, t)
           \/ Tick \/ RoundDecided \/ HubDrain \/ BeginDrain \/ RoomPass \/ UNCHANGED roomVars
    <2>1. seats' = seats
        BY <1>9 DEF JoinRefused, Tick, RoundDecided, EndRound, HubDrain, BeginDrain, RoomPass, roomVars, seatVars
    <2> QED
        BY <1>2, <2>1
<1> QED
    BY <1>2, <1>3, <1>4, <1>5, <1>6, <1>7, <1>8, <1>9 DEF RoomNext, RoomStep

\* No deadline ever frees a seat that has a socket, whatever it had been away
\* for before.
THEOREM DeadlinesSpareConnected == RoomSpec => DeadlineSparesConnected
<1>1. RoomInv /\ [RoomNext]_roomVars =>
          [OnDeadline /\ open' =>
             \A i \in Online(seats) : \E j \in Occupied(seats') : seats'[j] = seats[i]]_roomVars
    BY SparedStep
<1> QED
    BY RoomInvariant, <1>1, PTL DEF RoomSpec, DeadlineSparesConnected

\* From a round's start to the last rematch no seat moves or changes hands,
\* and one that is away is taken by a kick only.
THEOREM SeatsAreKept == RoomSpec => SeatKept
<1>1. RoomInv /\ [RoomNext]_roomVars =>
          [phase # "Waiting" =>
             /\ \A j \in Occupied(seats') : j \in Occupied(seats) /\ seats'[j].token = seats[j].token
             /\ \A i \in Occupied(seats) \ Online(seats) :
                  i \in Occupied(seats') \/ seats[i].token \in kicked']_roomVars
    BY KeptStep DEF SeatsStayPut
<1> QED
    BY RoomInvariant, <1>1, PTL DEF RoomSpec, SeatKept
=============================================================================
