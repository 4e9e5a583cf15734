------------------------------ MODULE IdTable ------------------------------
(***************************************************************************)
(* What the move daemon's device list promises its clients: a table from   *)
(* ids to devices, in which a device that connects gets the smallest free  *)
(* id, keeps it until it disconnects, and no other entry is touched.       *)
(* MovedDaemon implements it with a linked list and a search for the id.   *)
(***************************************************************************)
EXTENDS Naturals

CONSTANT Moves    \* what an entry may be open on

VARIABLE table    \* [ids in use -> Moves]

Init == table = [n \in {} |-> 0]

Connect(id, move) ==
  /\ id \notin DOMAIN table
  /\ \A n \in 0 .. (id - 1) : n \in DOMAIN table
  /\ table' = [n \in DOMAIN table \cup {id} |->
                 IF n = id THEN move ELSE table[n]]

Disconnect(id) ==
  /\ id \in DOMAIN table
  /\ table' = [n \in DOMAIN table \ {id} |-> table[n]]

\* An id that is smallest among the free ones is the new entry's: it lies in
\* the new domain, so the choice ranges over that only.
Next ==
  \/ \E id \in DOMAIN table', move \in Moves : Connect(id, move)
  \/ \E id \in DOMAIN table : Disconnect(id)

Spec == Init /\ [][Next]_table
=============================================================================
