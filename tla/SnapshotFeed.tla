---------------------------- MODULE SnapshotFeed ----------------------------
(***************************************************************************)
(* What the snapshot stream promises one client of a room                  *)
(* (docs/online-coop-prd.md 4.2, 4.7): the world moves on, and the client  *)
(* sees states the world was in, each as it was, never an earlier one      *)
(* after a later one, and now and then none of those in between.           *)
(***************************************************************************)
EXTENDS Integers

CONSTANT Nothing \* the client has no world to show

VARIABLES
    newest, \* the newest state of the world: its round and its frame
    shown   \* the state the client holds, or Nothing

feedVars == <<newest, shown>>

Moments == [round : Nat, frame : Nat]

\* a is not after b.
NotAfter(a, b) == a.round < b.round \/ (a.round = b.round /\ a.frame <= b.frame)

FeedInit == newest = [round |-> 0, frame |-> 0] /\ shown = Nothing

\* A tick, or the first moment of the next round.
Advance ==
    /\ \/ newest' = [newest EXCEPT !.frame = @ + 1]
       \/ newest' = [round |-> newest.round + 1, frame |-> 0]
    /\ UNCHANGED shown

\* The client catches up, to the newest state or to one on the way there.
Show ==
    /\ shown' \in Moments
    /\ NotAfter(shown', newest)
    /\ shown # Nothing => NotAfter(shown, shown')
    /\ UNCHANGED newest

\* The connection is given up, or the client starts over on another.
Lose == shown' = Nothing /\ UNCHANGED newest

FeedNext == Advance \/ Show \/ Lose

FeedSpec == FeedInit /\ [][FeedNext]_feedVars
=============================================================================
