------------------------- MODULE MCActivityPipeline -------------------------
(* An instance of ActivityPipeline for TLC. *)
EXTENDS ActivityPipeline, TLC

CONSTANTS tick, resume
EventSymmetry == Permutations(Event)
=============================================================================
