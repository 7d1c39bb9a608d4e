------------------------------ MODULE MCWaves ------------------------------
(***************************************************************************)
(* Waves for TLC, with the round's past kept as history variables.         *)
(***************************************************************************)
EXTENDS Waves

MCWaveSizes == <<1, 1, 1>>

VARIABLES
    fell,   \* the waves called when each seat last fell
    quiet,  \* the frames since the team was last at its peak, up to Relax
    rested, \* the frames the breather has run
    since   \* the frames since a wave was called

history == <<fell, quiet, rested, since>>

MCInit == WavesInit /\ fell = [p \in Seats |-> 0] /\ quiet = Relax /\ rested = 0 /\ since = 0

NoteSchedule(team) ==
    /\ quiet' = IF team = "peak" THEN 0 ELSE Smaller(quiet + 1, Relax)
    /\ rested' = IF wave.gap = None THEN 0 ELSE rested + 1
    /\ since' = IF wave'.called # wave.called \/ wave.called = Waves THEN 0 ELSE since + 1
    /\ UNCHANGED fell

NoteFall ==
    /\ fell' = [p \in Seats |-> IF seat[p].where = "field" /\ seat'[p].where = "wreck" THEN wave.called ELSE fell[p]]
    /\ UNCHANGED <<quiet, rested, since>>

MCNext ==
    \/ \E team \in Pressures : Schedule(team) /\ NoteSchedule(team)
    \/ SeatWrecked /\ NoteFall
    \/ /\ TankEnters \/ SeatEnters \/ RollinDone \/ Window \/ Reroll \/ RerollDone
          \/ TankWrecked \/ BongFalls \/ WreckGone \/ CheckRoundEnd
       /\ UNCHANGED history

MCSpec == MCInit /\ [][MCNext]_<<wavesVars, history>>

\* The seats waiting to come back are the wrecks that were there when the last
\* wave was called, each once: none is forgotten, none leaves before its wave,
\* and none that is back is taken off the field again
\* (src/simulation/waves.rs, queue_returning_seats and seat_returns).
SeatsQueued ==
    /\ IsInjective(wave.returning)
    /\ Range(wave.returning) = {p \in SeatsIn("wreck") : Cardinality(Seats) > 1 /\ fell[p] < wave.called}

\* Whatever the team does, the next wave comes within the timeout and the
\* longest breather; and a breather on a field map lasts no less than its
\* minimum and, holds included, no more than its maximum, and no wave is called
\* before a peak's rest is paid unless the maximum is reached; an arena's
\* lasts its gap (src/simulation/director.rs, Bounds and pace_breather).
PaceKept ==
    /\ [](since <= Timeout + Larger(Gap, BreatherMax))
    /\ [][wave.gap # None /\ wave'.gap = None =>
            IF field THEN /\ rested' \in BreatherMin..BreatherMax
                          /\ quiet' >= Relax \/ rested' = BreatherMax
            ELSE rested' = Larger(Gap, 1)]_<<wavesVars, history>>
=============================================================================
