----------------------------- MODULE MCCapture ------------------------------
(* An instance of Capture for TLC: the watcher has the code's own times. *)
EXTENDS Capture, TLC

CONSTANTS a, b
MCApp == {a, b}
AppSymmetry == Permutations(MCApp)
=============================================================================
