--------------------------- MODULE MCMovedDaemon ---------------------------
(* Small instances of MovedDaemon for TLC.                                  *)
EXTENDS MovedIds

CONSTANTS o1, none
MCPaths == {1, 2, 3}
MCTwoPaths == {1, 2}
MCOutputs == {o1}
=============================================================================
