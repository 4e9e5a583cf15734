--------------------------- MODULE MCTrackerPool ---------------------------
(* Small instances of TrackerPool for TLC.                                  *)
EXTENDS TrackerPool, TLC

CONSTANTS magenta, cyan, yellow, white, black, a, b, c, d, none

MCPresets == <<magenta, cyan, yellow>>
MCCustom == {white}
MCMoves == {a, b, c, d}

\* The controllers are interchangeable: handles are only compared.
MCSymmetry == Permutations(MCMoves)
=============================================================================
