-------------------------- MODULE MCTrackerSearch --------------------------
(* A small instance of TrackerSearch for TLC: 3 x 2 tiles of 24 pixels,     *)
(* ROIs of 24, 16, 11 and 7.                                                *)
EXTENDS TrackerSearch

CONSTANT hidden

\* Not set.
MCEnvSize == -1

\* In each tile and across their borders, and at four distances; at the
\* farthest the sphere is too small.
MCSpots ==
  [x : {3, 22}, y : {1, 26}, d : {4}] \cup
  {[x |-> 54, y |-> 26, d |-> 4], [x |-> 17, y |-> 14, d |-> 4],
   [x |-> 5, y |-> 6, d |-> 2], [x |-> 33, y |-> 2, d |-> 6], [x |-> 50, y |-> 40, d |-> 8]}
=============================================================================
