------------------------------ MODULE MovedIds ------------------------------
(***************************************************************************)
(* The loop of moved_get_next_id (src/Lab5/src/utils/moved.c), against its *)
(* purpose, the smallest id that is free (FreeId in MovedDaemon).          *)
(***************************************************************************)
EXTENDS MovedDaemon

\* One pass over the list: each device that has the candidate raises it, and
\* the pass goes on with the raised candidate.
Pass(n, list) ==
  LET next_id[i \in 0 .. Len(list)] ==
        IF i = 0 THEN n
        ELSE IF list[i].assigned_id = next_id[i - 1] THEN next_id[i - 1] + 1
                                                     ELSE next_id[i - 1]
  IN  next_id[Len(list)]

\* As moved_get_next_id, but one pass has to do.
OnePass(list) == Pass(0, list)

\* Passes are repeated until one raises nothing.
moved_get_next_id(list) ==
  LET from[n \in Nat] == IF Pass(n, list) = n THEN n ELSE from[Pass(n, list)]
  IN  from[0]

\* The loop finds the smallest free id on every list the daemon can reach,
\* although it raises its candidate in the middle of a pass.
LoopFindsFreeId == FreeId(moved_get_next_id(devs), devs)
=============================================================================
