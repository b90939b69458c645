------------------------ MODULE MCEpisodeStateMachine ------------------------
(***************************************************************************)
(* EpisodeStateMachine for TLC: no action tells one node from another, so  *)
(* the nodes are interchangeable.                                          *)
(***************************************************************************)
EXTENDS EpisodeStateMachine, TLC

Symmetry == Permutations(Nodes)
=============================================================================
