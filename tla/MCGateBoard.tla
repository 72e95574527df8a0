---------------------------- MODULE MCGateBoard -----------------------------
(* The small instance of GateBoard: two gates on pages of one, a journal of *)
(* three events over a truncation, and a view that restarts.                *)
EXTENDS GateBoard, TLC

CONSTANTS g1, g2

MCGates == {g1, g2}
MCSymmetry == Permutations(MCGates)
=============================================================================
