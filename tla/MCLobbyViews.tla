---------------------------- MODULE MCLobbyViews ----------------------------
(***************************************************************************)
(* LobbyViews for TLC.  Devices and connections are interchangeable; what  *)
(* a step queued is on the channels already.                               *)
(***************************************************************************)
EXTENDS LobbyViews, TLC

Interchangeable == Permutations(Tokens) \cup Permutations(Conns)

Unsent == <<lifeVars, seats, kicked, link, world, hub_draining, viewVars>>
=============================================================================
