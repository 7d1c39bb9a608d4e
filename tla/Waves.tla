------------------------------- MODULE Waves -------------------------------
(***************************************************************************)
(* A round of waves (src/simulation/waves.rs): the scheduler that calls    *)
(* them, the pacing director that times the breather between two of them   *)
(* on a field map (src/simulation/director.rs), the gate lanes their tanks *)
(* roll in through, the seats that fell and drive back in with the next    *)
(* wave, the stragglers that are taken off the field and rolled in again,  *)
(* and how the round ends (src/simulation/mod.rs, check_round_end).        *)
(*                                                                         *)
(* Game::update runs the phases of a frame in a fixed order, each an       *)
(* action here.  Who is hit, how hard the team is pressed, which lanes the *)
(* map offers and whether somebody stands in one, how long a tank takes    *)
(* through its lane and which tank is a straggler is the fight's choice;   *)
(* chassis, positions, the lanes' preferences and the Hunt mission's enemy *)
(* bong are left out.                                                      *)
(*                                                                         *)
(* The unit of time is one frame.                                          *)
(***************************************************************************)
EXTENDS Integers, Sequences, FiniteSets, Functions

CONSTANTS
    Seats, Gates, Roles, None,
    WaveSizes,     \* SpawnPlan::wave_size, wave by wave
    Gap,           \* wave_gap_seconds
    Timeout,       \* wave_timeout_seconds
    NextWhenAlive, \* wave_next_when_alive
    Stagger,       \* wave_stagger_seconds
    MaxAlive,      \* wave_max_alive
    Relax,         \* director_relax_seconds
    BreatherMin,   \* director_breather_min_seconds
    BreatherMax,   \* director_breather_max_seconds
    CalmRate,      \* director_calm_rate
    Busy, NoGate   \* GatePick, where it is not a lane

Waves == Len(WaveSizes)

\* How many tanks the first n waves have.
TanksOf[n \in 0..Waves] == IF n = 0 THEN 0 ELSE TanksOf[n - 1] + WaveSizes[n]

\* Enough owner slots for every wave's tanks.
Slots == 1..TanksOf[Waves]

ASSUME WavesAssumption ==
    /\ WaveSizes \in Seq(Nat \ {0}) /\ WaveSizes # <<>>
    /\ {Gap, Timeout, NextWhenAlive, Stagger, MaxAlive, Relax, BreatherMin, BreatherMax, CalmRate} \subseteq Nat
    /\ BreatherMin <= BreatherMax /\ {Timeout, MaxAlive, CalmRate, BreatherMax} \subseteq Nat \ {0}
    /\ Seats \subseteq Nat /\ IsFiniteSet(Seats) /\ Seats # {}
    /\ {Busy, NoGate, None} \cap Gates = {} /\ None \notin Roles \cup Int

VARIABLES
    at,       \* the phase of the frame that comes next
    field,    \* whether the map is a field map, paced by the director
    outcome,
    wave,     \* WaveState
    director, \* Director
    tank,     \* by owner slot, every wave tank so far and to come
    seat,     \* by seat, where its tank is
    bong      \* whether the players' bong stands

wavesVars == <<at, field, outcome, wave, director, tank, seat, bong>>

Larger(a, b) == IF a > b THEN a ELSE b
Smaller(a, b) == IF a < b THEN a ELSE b

----------------------------------------------------------------------------
(***************************************************************************)
(* What the phases read off the field.                                     *)
(***************************************************************************)

TanksIn(where) == {s \in Slots : tank[s].where = where}
SeatsIn(where) == {p \in Seats : seat[p].where = where}

\* live_enemy_count: on the field or rolling in.
Alive == Cardinality(TanksIn("field") \cup TanksIn("rolling"))

\* Mutant: a seat in a lane leaves it free.
FreeLanesOfTanks == Gates \ {tank[s].gate : s \in TanksIn("rolling")}

\* free_lanes: nobody is still rolling along it.
FreeLanes == Gates \ ({tank[s].gate : s \in TanksIn("rolling")} \cup {seat[p].gate : p \in SeatsIn("rolling")})

\* What pick_gate and pick_return_gate may find: a lane, every lane busy - or
\* blocked by who stands at its end -, or no lane at all.
Picks == FreeLanes \cup {Busy, NoGate}

\* Mutant: who is still to come is what is still queued.
WavesFinishedOfQueue == wave.called >= Waves /\ wave.pending = 0

\* waves_finished
WavesFinished == wave.called >= Waves /\ wave.pending = 0 /\ TanksIn("rolling") = {}

NextIs(phase) == at' = phase

Phase(phase) == outcome = "Playing" /\ at = phase

----------------------------------------------------------------------------
(***************************************************************************)
(* rollin_phase: tanks reach the end of their lanes.  An enemy that had a  *)
(* role - a straggler's Rejoin - keeps it; any other rolls one.            *)
(***************************************************************************)

RolesOf(s) == IF tank[s].role = None THEN Roles ELSE {tank[s].role}

TankEnters ==
    /\ Phase("rollin")
    /\ \E s \in TanksIn("rolling") : \E role \in RolesOf(s) :
        tank' = [tank EXCEPT ![s] = [where |-> "field", role |-> role, gate |-> None]]
    /\ UNCHANGED <<at, field, outcome, wave, director, seat, bong>>

SeatEnters ==
    /\ Phase("rollin")
    /\ \E p \in SeatsIn("rolling") : seat' = [seat EXCEPT ![p] = [where |-> "field", gate |-> None]]
    /\ UNCHANGED <<at, field, outcome, wave, director, tank, bong>>

RollinDone ==
    /\ Phase("rollin") /\ NextIs("schedule")
    /\ UNCHANGED <<field, outcome, wave, director, tank, seat, bong>>

----------------------------------------------------------------------------
(***************************************************************************)
(* wave_phase, its first half: the scheduler and the director.             *)
(***************************************************************************)

Pressures == {"calm", "even", "peak"}

\* Director::observe: a peak owes the team its rest.
Observed(team) ==
    IF ~field THEN director
    ELSE [director EXCEPT !.relax = IF team = "peak" THEN Relax ELSE Larger(@ - 1, 0)]

\* breather_length, or the arena's wave_gap_seconds.
BreatherLength(d) ==
    IF field THEN Smaller(Larger(Larger(Gap, d.relax), BreatherMin), BreatherMax) ELSE Gap

\* Mutant: a calm team is sent the next wave, rested or not.
PacedUnrested(left, team, d) ==
    IF d.breather >= BreatherMax THEN 0
    ELSE IF team = "peak" THEN Larger(left, d.relax)
    ELSE Larger(left - (IF team = "calm" THEN CalmRate ELSE 1), 0)

\* pace_breather: the time left after a frame, d's breather counting it.
Paced(left, team, d) ==
    LET rate == IF d.relax = 0 /\ team = "calm" THEN CalmRate ELSE 1
    IN  IF d.breather >= BreatherMax THEN 0
        ELSE IF team = "peak" THEN Larger(left, d.relax)
        ELSE Larger(Larger(left - rate, d.relax), Larger(BreatherMin - d.breather, 0))

\* Seats that are wrecks and not queued yet, in seat order.
Fallen == {p \in SeatsIn("wreck") : p \notin Range(wave.returning)}

\* Some seats, from the lowest on.
InOrder(S) == [n \in 1..Cardinality(S) |-> CHOOSE p \in S : Cardinality({q \in S : q <= p}) = n]

\* Mutant: a wave queues every wreck, queued already or not.
QueuedAgain == IF Cardinality(Seats) < 2 THEN wave.returning
               ELSE wave.returning \o InOrder(SeatsIn("wreck"))

\* queue_returning_seats
Queued == IF Cardinality(Seats) < 2 THEN wave.returning
          ELSE wave.returning \o InOrder(Fallen)

\* Mutant: the wave before's tanks that never rolled in are forgotten.
CallWaveAnew ==
    wave' = [wave EXCEPT !.called = @ + 1, !.pending = WaveSizes[wave.called + 1],
                         !.elapsed = 0, !.gap = None, !.stagger = 0, !.returning = Queued]

\* call_wave
CallWave ==
    wave' = [wave EXCEPT !.called = @ + 1, !.pending = @ + WaveSizes[wave.called + 1],
                         !.elapsed = 0, !.gap = None, !.stagger = 0, !.returning = Queued]

FirstWave(team) ==
    /\ wave.called = 0
    /\ CallWave
    /\ director' = Observed(team)

\* The breather runs, and the next wave is called once it is over.
Breather(team) ==
    /\ wave.called > 0 /\ wave.gap # None
    /\ LET counted == IF field THEN [Observed(team) EXCEPT !.breather = @ + 1] ELSE director
           left == IF field THEN Paced(wave.gap, team, counted) ELSE Larger(wave.gap - 1, 0)
       IN  /\ director' = counted
           /\ IF left = 0 THEN CallWave ELSE wave' = [wave EXCEPT !.gap = left]

\* Cleared, or timed out.
Over(elapsed) == (Alive <= NextWhenAlive /\ wave.pending = 0) \/ elapsed >= Timeout

\* The wave is fought; a breather follows it unless it is the last.
Fought(team) ==
    /\ wave.called > 0 /\ wave.gap = None
    /\ \/ wave.called = Waves /\ director' = Observed(team) /\ UNCHANGED wave
       \/ /\ wave.called < Waves /\ ~Over(wave.elapsed + 1)
          /\ director' = Observed(team)
          /\ wave' = [wave EXCEPT !.elapsed = @ + 1]
       \/ /\ wave.called < Waves /\ Over(wave.elapsed + 1)
          /\ director' = [Observed(team) EXCEPT !.breather = 0]
          /\ wave' = [wave EXCEPT !.elapsed = @ + 1, !.gap = BreatherLength(Observed(team))]

Schedule(team) ==
    /\ Phase("schedule") /\ NextIs("window")
    /\ FirstWave(team) \/ Breather(team) \/ Fought(team)
    /\ UNCHANGED <<field, outcome, tank, seat, bong>>

----------------------------------------------------------------------------
(***************************************************************************)
(* wave_phase, its second half: one tank at most starts down a lane.       *)
(***************************************************************************)

\* A tank may leave the queue.
MaySpawn == wave.pending > 0 /\ Alive < MaxAlive

\* stagger, counted down.
Staggered == Larger(wave.stagger - 1, 0)

\* A seat coming back takes the lane first.
SeatReturns(pick) ==
    /\ wave.returning # <<>> /\ pick \in Gates
    /\ seat' = [seat EXCEPT ![Head(wave.returning)] = [where |-> "rolling", gate |-> pick]]
    /\ wave' = [wave EXCEPT !.returning = Tail(@), !.stagger = Stagger]
    /\ UNCHANGED tank

\* take_slot
Slot == wave.next_slot

\* spawn_wave_tank: down the lane, or into the spawn band of a map with none.
SpawnWaveTank(pick) ==
    /\ ~(wave.returning # <<>> /\ pick \in Gates)
    /\ MaySpawn /\ pick # Busy
    /\ \/ /\ pick \in Gates
          /\ tank' = [tank EXCEPT ![Slot] = [where |-> "rolling", role |-> None, gate |-> pick]]
       \/ /\ pick = NoGate
          /\ \E role \in Roles : tank' = [tank EXCEPT ![Slot] = [where |-> "field", role |-> role, gate |-> None]]
    /\ wave' = [wave EXCEPT !.pending = @ - 1, !.next_slot = @ + 1, !.stagger = Stagger]
    /\ UNCHANGED seat

\* The window is shut, or nobody could use it.
NobodyStarts(pick) ==
    /\ \/ Staggered > 0
       \/ ~MaySpawn /\ (wave.returning = <<>> \/ pick \notin Gates)
       \/ pick = Busy
    /\ wave' = [wave EXCEPT !.stagger = Staggered]
    /\ UNCHANGED <<tank, seat>>

Window ==
    /\ Phase("window") /\ NextIs("reroll")
    /\ \E pick \in Picks :
        \/ Staggered = 0 /\ (SeatReturns(pick) \/ SpawnWaveTank(pick))
        \/ NobodyStarts(pick)
    /\ UNCHANGED <<field, outcome, director, bong>>

\* reroll_stragglers: off the field and down a lane again, on a field map.
Reroll ==
    /\ Phase("reroll") /\ field
    /\ \E s \in TanksIn("field") : \E gate \in FreeLanes :
        tank' = [tank EXCEPT ![s] = [where |-> "rolling", role |-> tank[s].role, gate |-> gate]]
    /\ UNCHANGED <<at, field, outcome, wave, director, seat, bong>>

RerollDone ==
    /\ Phase("reroll") /\ NextIs("fight")
    /\ UNCHANGED <<field, outcome, wave, director, tank, seat, bong>>

----------------------------------------------------------------------------
(***************************************************************************)
(* The fight: only what stands on the field is hit.                        *)
(***************************************************************************)

TankWrecked ==
    /\ Phase("fight")
    /\ \E s \in TanksIn("field") : tank' = [tank EXCEPT ![s].where = "wreck"]
    /\ UNCHANGED <<at, field, outcome, wave, director, seat, bong>>

SeatWrecked ==
    /\ Phase("fight")
    /\ \E p \in SeatsIn("field") : seat' = [seat EXCEPT ![p].where = "wreck"]
    /\ UNCHANGED <<at, field, outcome, wave, director, tank, bong>>

BongFalls ==
    /\ Phase("fight") /\ bong /\ bong' = FALSE
    /\ UNCHANGED <<at, field, outcome, wave, director, tank, seat>>

\* despawn_wrecks: an enemy's wreck goes in its time.
WreckGone ==
    /\ Phase("fight")
    /\ \E s \in TanksIn("wreck") : tank' = [tank EXCEPT ![s].where = "gone"]
    /\ UNCHANGED <<at, field, outcome, wave, director, seat, bong>>

\* Losing takes precedence.
Lost == SeatsIn("wreck") = Seats \/ ~bong
Won == WavesFinished /\ TanksIn("field") = {}

\* check_round_end
CheckRoundEnd ==
    /\ Phase("fight") /\ NextIs("rollin")
    /\ outcome' = IF Lost THEN "Lost" ELSE IF Won THEN "Won" ELSE "Playing"
    /\ UNCHANGED <<field, wave, director, tank, seat, bong>>

WavesInit ==
    /\ at = "rollin" /\ field \in BOOLEAN /\ outcome = "Playing" /\ bong = TRUE
    /\ wave = [called |-> 0, elapsed |-> 0, gap |-> None, pending |-> 0, stagger |-> 0,
               next_slot |-> 1, returning |-> <<>>]
    /\ director = [relax |-> 0, breather |-> 0]
    /\ tank = [s \in Slots |-> [where |-> "out", role |-> None, gate |-> None]]
    /\ seat = [p \in Seats |-> [where |-> "field", gate |-> None]]

WavesNext ==
    \/ TankEnters \/ SeatEnters \/ RollinDone
    \/ (\E team \in Pressures : Schedule(team)) \/ Window \/ Reroll \/ RerollDone
    \/ TankWrecked \/ SeatWrecked \/ BongFalls \/ WreckGone \/ CheckRoundEnd

WavesSpec == WavesInit /\ [][WavesNext]_wavesVars

----------------------------------------------------------------------------
(***************************************************************************)
(* What the round promises.                                                *)
(***************************************************************************)

\* No breather ever has longer left.
Longest == Larger(Larger(Gap, Relax), BreatherMax)

WavesTypeOK ==
    /\ at \in {"rollin", "schedule", "window", "reroll", "fight"}
    /\ outcome \in {"Playing", "Won", "Lost"} /\ {field, bong} \subseteq BOOLEAN
    /\ wave \in [called : 0..Waves, elapsed : 0..Timeout, gap : 0..Longest \cup {None},
                 pending : 0..TanksOf[Waves], stagger : 0..Stagger,
                 next_slot : 1..(TanksOf[Waves] + 1), returning : Seq(Seats)]
    /\ director \in [relax : 0..Relax, breather : 0..BreatherMax]
    /\ tank \in [Slots -> [where : {"out", "rolling", "field", "wreck", "gone"},
                           role : Roles \cup {None}, gate : Gates \cup {None}]]
    /\ seat \in [Seats -> [where : {"field", "wreck", "rolling"}, gate : Gates \cup {None}]]

\* Every tank of every wave called comes onto the field once, in the order of
\* its slot: it is still queued, or it holds one of the slots given out
\* (src/simulation/waves.rs, call_wave and take_slot).
NoneLost ==
    /\ WavesTypeOK
    /\ wave.pending + wave.next_slot - 1 = TanksOf[wave.called]
    /\ TanksIn("out") = {s \in Slots : s >= wave.next_slot}

\* No lane has two tanks in it, whoever they are: a wave's, a seat coming back
\* or a straggler rolling in again (src/simulation/waves.rs, free_lanes).
LaneExclusive ==
    /\ \A s \in TanksIn("rolling") : \A t \in TanksIn("rolling") \ {s} : tank[s].gate # tank[t].gate
    /\ \A p \in SeatsIn("rolling") : \A q \in SeatsIn("rolling") \ {p} : seat[p].gate # seat[q].gate
    /\ \A s \in TanksIn("rolling"), p \in SeatsIn("rolling") : tank[s].gate # seat[p].gate

\* A won round has nobody left to fight - none queued, none in a lane with no
\* Ai yet or any more, none on the field - and somebody left to have won it
\* (src/simulation/mod.rs, check_round_end).
WonMeansCleared ==
    outcome = "Won" => /\ wave.called = Waves /\ wave.pending = 0 /\ Alive = 0
                       /\ SeatsIn("wreck") # Seats /\ bong
=============================================================================
