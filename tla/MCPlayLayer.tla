---------------------------- MODULE MCPlayLayer ----------------------------
(* Values of PlayLayer's constants for TLC.                                *)
EXTENDS PlayLayerProperties, TLC

CONSTANTS p1, p2

OnePlayer == {p1}
TwoPlayers == {p1, p2}

PlayerSymmetry == Permutations(Players)
=============================================================================
