------------------------------- MODULE MCRoom -------------------------------
(***************************************************************************)
(* Room for TLC.  Devices and connections are interchangeable; what a step *)
(* queued on the outboxes does not matter to any later step.               *)
(***************************************************************************)
EXTENDS Room, TLC

Interchangeable == Permutations(Tokens) \cup Permutations(Conns)

Unsent == <<lifeVars, seats, kicked, link, world, hub_draining>>
=============================================================================
