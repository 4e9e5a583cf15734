--------------------------- MODULE MCMovedClient ---------------------------
(* Small instances of MovedClient for TLC.                                  *)
EXTENDS MovedClient

CONSTANTS attic, cellar, red, blue, nothing, garbage

MCHostFile == <<attic, cellar>>
MCControllers == {red, blue}
=============================================================================
