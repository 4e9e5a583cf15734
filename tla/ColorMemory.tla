---------------------------- MODULE ColorMemory ----------------------------
(***************************************************************************)
(* What the tracker's colour mapping promises: a memory of the most recent *)
(* calibrations, across sessions.  Looking a key (a sphere colour and the  *)
(* dimming) up answers with the latest calibration of that key, if it is   *)
(* still remembered.  Saving may fail, and an old file is not restored.    *)
(***************************************************************************)
EXTENDS Naturals, Sequences

CONSTANTS
  Keys,     \* sphere colours, each with a dimming factor
  Views,    \* what the camera sees
  Unknown,  \* the answer when nothing is remembered
  Depth     \* how many calibrations are remembered

VARIABLES
  memory,   \* the calibrations, oldest first
  saved,    \* what the next session can restore
  answer    \* what the last lookup has found

vars == <<memory, saved, answer>>

Recent(s) == IF Len(s) > Depth THEN Tail(s) ELSE s

Latest(s, key) ==
  LET at == {i \in 1 .. Len(s) : s[i].key = key}
  IN  IF at = {} THEN Unknown
      ELSE s[CHOOSE i \in at : \A j \in at : j <= i].to

Init == memory = <<>> /\ saved = <<>> /\ answer = Unknown

Remember(key, to) ==
  /\ memory' = Recent(Append(memory, [key |-> key, to |-> to]))
  /\ saved' \in {memory', saved, <<>>}
  /\ UNCHANGED answer

Lookup(key) ==
  /\ answer' = Latest(memory, key)
  /\ UNCHANGED <<memory, saved>>

NewSession ==
  /\ memory' \in {saved, <<>>}
  /\ answer' = Unknown
  /\ UNCHANGED saved

Next ==
  \/ \E key \in Keys, to \in Views : Remember(key, to)
  \/ \E key \in Keys : Lookup(key)
  \/ NewSession

Spec == Init /\ [][Next]_vars
=============================================================================
