---------------------------- MODULE MCLifecycle ----------------------------
(***************************************************************************)
(* Lifecycle for TLC, with the instant the room was last left empty kept   *)
(* as a history variable: the clock rules keep it only in some phases.     *)
(***************************************************************************)
EXTENDS Lifecycle

VARIABLE emptied_at \* when the last connected seat left, or the room began

MCInit == LifeInit /\ emptied_at = 0

MCNext ==
    /\ LifeNext
    /\ emptied_at' = IF connected > 0 /\ connected' = 0 THEN now ELSE emptied_at

MCSpec == MCInit /\ [][MCNext]_<<lifeVars, emptied_at>>

Longest == IF WaitingTtl < EmptyTtl + EndedTtl + Lag THEN EmptyTtl + EndedTtl + Lag ELSE WaitingTtl

\* A room nobody is connected to is always reaped, and in bounded time,
\* whichever phase it was left in and whichever phases its deadlines still
\* take it through (a paused round that hits its limit becomes an ended room
\* with a deadline of its own).  server/src/room.rs, Lifecycle::deadline.
EmptyRoomReaped == open /\ connected = 0 => now <= emptied_at + Longest + Lag
============================================================================
