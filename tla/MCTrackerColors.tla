-------------------------- MODULE MCTrackerColors --------------------------
(* A small instance of TrackerColors for TLC.                               *)
EXTENDS TrackerColors

CONSTANTS magenta, cyan, bright, pale, unknown, zero

\* Two colours under one dimming factor.
MCKeys == {magenta, cyan}
MCViews == {bright, pale}
=============================================================================
