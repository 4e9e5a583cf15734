----------------------------- MODULE MCPairing -----------------------------
(* Two processes, a controller and some other device for TLC.              *)
EXTENDS Pairing

CONSTANTS p1, p2, c1, Other

MCProcesses == {p1, p2}
MCControllers == {c1}
MCEntries == {Good, Other}
=============================================================================
