--------------------------- MODULE TrackerColors ---------------------------
(***************************************************************************)
(* The colour mapping of the tracker, src/Lab5/src/tracker/psmove_tracker.c *)
(* (struct ColorMappingRingBuffer): what each sphere colour looked like in *)
(* the camera, for a dimming factor, in a ring of slots whose index wraps  *)
(* as an unsigned char; written to colormapping.dat after each change and  *)
(* restored by the next session.                                           *)
(***************************************************************************)
EXTENDS Naturals, Sequences, FiniteSets

CONSTANTS
  Keys,      \* pairs of a colour and a dimming factor (`from', `dimming')
  Views,     \* values of the controller in the camera (`to')
  Unknown,   \* psmove_tracker_lookup_color returns 0
  Zero,      \* the key and the value of a slot that calloc has cleared
  RingSize   \* COLOR_MAPPING_RING_BUFFER_SIZE, where next_slot wraps

ASSUME ColorsAssumption ==
  /\ Zero \notin Keys
  /\ Unknown \notin Views
  /\ RingSize \in Nat \ {0}

Slots == 0 .. (RingSize - 1)
Mapping == [key : Keys \cup {Zero}, to : Views \cup {Zero}]
Ring == [map : [Slots -> Mapping], next_slot : Slots]

NoMapping == [key |-> Zero, to |-> Zero]
EmptyRing == [map |-> [s \in Slots |-> NoMapping], next_slot |-> 0]

VARIABLES
  ring,    \* tracker->color_mapping
  file,    \* colormapping.dat; a file that cannot be read counts as empty
  answer   \* what the last psmove_tracker_lookup_color has found

vars == <<ring, file, answer>>

Init == ring = EmptyRing /\ file = EmptyRing /\ answer = Unknown

-----------------------------------------------------------------------------
\* Faulty variant of Put: next_slot is wider than the ring.
PutNoWrap(key, to) ==
  [map |-> [ring.map EXCEPT ![ring.next_slot] = [key |-> key, to |-> to]],
   next_slot |-> ring.next_slot + 1]

Put(key, to) ==
  [map |-> [ring.map EXCEPT ![ring.next_slot] = [key |-> key, to |-> to]],
   next_slot |-> (ring.next_slot + 1) % RingSize]

\* psmove_tracker_remember_color: the file is replaced, or cannot be opened,
\* or is truncated by opening it and then not written.
RememberColor(key, to) ==
  /\ ring' = Put(key, to)
  /\ file' \in {ring', file, EmptyRing}
  /\ UNCHANGED answer

\* psmove_tracker_lookup_color walks from the slot before next_slot
\* backwards, and stops when it has come round to next_slot.
Before(r, n) == (r.next_slot + RingSize - n) % RingSize

\* Faulty variant of Steps: the walk begins at next_slot itself.
StepsFromNext(key) == {n \in 0 .. (RingSize - 2) : ring.map[Before(ring, n)].key = key}

Steps(key) == {n \in 1 .. (RingSize - 1) : ring.map[Before(ring, n)].key = key}

LookupColor(key) ==
  /\ \/ Steps(key) = {} /\ answer' = Unknown
     \/ \E n \in Steps(key) : /\ \A k \in Steps(key) : n <= k
                              /\ answer' = ring.map[Before(ring, n)].to
  /\ UNCHANGED <<ring, file>>

\* A tracker is freed, or its process ends, and a new one is created.
NewTracker ==
  /\ ring' \in {file, EmptyRing}     \* EmptyRing when the file is too old
  /\ answer' = Unknown
  /\ UNCHANGED file

Next ==
  \/ \E key \in Keys, to \in Views : RememberColor(key, to)
  \/ \E key \in Keys : LookupColor(key)
  \/ NewTracker

Spec == Init /\ [][Next]_vars

-----------------------------------------------------------------------------
(* Properties.                                                              *)

\* The values of the variables.
TypeOK == ring \in Ring /\ file \in Ring /\ answer \in Views \cup {Unknown}

\* The ring implements a memory of the RingSize - 1 most recent calibrations:
\* however often next_slot has wrapped, a lookup finds the latest calibration
\* of its colour and dimming, also when it was made by an earlier session.
\* (The oldest of the RingSize mappings is stored, but never looked at.)
Held(r) ==
  Cardinality({n \in 1 .. (RingSize - 1) : r.map[Before(r, n)] # NoMapping})
InOrder(r) == [i \in 1 .. Held(r) |-> r.map[Before(r, Held(r) + 1 - i)]]

Memory == INSTANCE ColorMemory WITH
  Depth <- RingSize - 1, memory <- InOrder(ring), saved <- InOrder(file)

ImplementsMemory == Memory!Spec
=============================================================================
