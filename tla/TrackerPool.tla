---------------------------- MODULE TrackerPool ----------------------------
(***************************************************************************)
(* The controllers of a tracker, src/Lab5/src/tracker/psmove_tracker.c:    *)
(* a fixed number of slots, each with the sphere colour and the position   *)
(* filter of its controller; the preset colours that controllers are given *)
(* so that no two look alike; and the dimming they share.                  *)
(*                                                                         *)
(* Whether a sphere is recognised is the camera's choice.  What an old     *)
(* colour mapping answers is left open as well (TrackerColors models it),  *)
(* and so are the LEDs, which follow the colours and the dimming.          *)
(***************************************************************************)
EXTENDS Naturals, Sequences

CONSTANTS
  MaxControllers,  \* PSMOVE_TRACKER_MAX_CONTROLLERS
  Presets,         \* preset_colors, from index 0 on
  Custom,          \* colours for psmove_tracker_enable_with_color
  Black,           \* the colour of a cleared slot
  Moves,           \* controller handles
  NoMove,          \* NULL
  StartInd,        \* settings.color_list_start_ind
  Full             \* dimming steps: 0 is 0.0, Full is 1.0, each 0.3 of the next

N == Len(Presets)
Preset(i) == Presets[(i % N) + 1]
PresetColors == {Presets[i] : i \in DOMAIN Presets}
Colors == PresetColors \cup Custom

ASSUME PoolAssumption ==
  /\ MaxControllers \in Nat
  /\ Presets \in Seq(PresetColors)
  /\ \A i, j \in DOMAIN Presets : Presets[i] = Presets[j] => i = j
  /\ N > 0 /\ N >= MaxControllers
  /\ Black \notin Colors
  /\ NoMove \notin Moves
  /\ StartInd \in Nat
  /\ Full \in Nat \ {0}

Slots == 1 .. MaxControllers
Smoothing == {"none", "lowpass", "kalman"}

VARIABLES
  move,       \* [slot -> its controller, or NoMove]
  color,      \* [slot -> its sphere colour]
  filter,     \* [slot -> what position_filter points to]
  smoothing,  \* tracker->smoothing_type
  dimming,    \* settings.dimming_factor
  result      \* of the last call, if that was an attempt to enable

vars == <<move, color, filter, smoothing, dimming, result>>

NoResult == [move |-> NoMove, status |-> "none"]

\* psmove_tracker_find_controller: the first slot with the controller.
Slot(m) == {s \in Slots : move[s] = m /\ \A t \in 1 .. (s - 1) : move[t] # m}
Enabled(m) == Slot(m) # {}
ColorUsed(c) == \E s \in Slots : move[s] # NoMove /\ color[s] = c

\* The loops that look for a preset colour that is not used: the colour, and
\* the index at which the loop ends.
FirstUnused(from) ==
  {i \in from .. (from + N - 1) :
     ~ColorUsed(Preset(i)) /\ \A j \in from .. (i - 1) : ColorUsed(Preset(j))}
PresetsUsedUp == \A c \in PresetColors : ColorUsed(c)

\* Faulty variant of NewFilter: no smoothing is stored like a filter.
NewFilterAlways(type, old) == type

\* The filter that is made for a smoothing type; none leaves the pointer.
NewFilter(type, old) == IF type = "none" THEN old ELSE type

Init ==
  /\ move = [s \in Slots |-> NoMove]
  /\ color = [s \in Slots |-> Black]
  /\ smoothing \in Smoothing
  /\ filter = [s \in Slots |-> NewFilter(smoothing, "null")]
  /\ dimming \in {0, Full}
  /\ result = NoResult

-----------------------------------------------------------------------------
(* Enabling.                                                                *)

\* How saturated the sphere looks: 0 up to 32, 3 above 128.
Saturations == 0 .. 3

\* The rounds of the loop of psmove_tracker_blinking_calibration, with sat[i]
\* measured in the i-th one: it begins with the dimming that is set, or with
\* 1.0, and goes on with the next smaller one.
Tried(factor, i) == (IF factor > 0 THEN factor ELSE Full) - (i - 1)
LessThanLast(sat, i) == i > 1 /\ sat[i] < sat[i - 1] /\ sat[i] > 0

\* Faulty variant of GoesOn: a dimming that is set is determined again.
GoesOnAlways(factor, sat, i) ==
  ~LessThanLast(sat, i) /\ sat[i] <= 2 /\ Tried(factor, i) > 1

GoesOn(factor, sat, i) ==
  ~LessThanLast(sat, i) /\ factor = 0 /\ sat[i] <= 2 /\ Tried(factor, i) > 1

Rounds(factor, n) ==
  {sat \in [1 .. n -> Saturations] :
     (\A i \in 1 .. (n - 1) : GoesOn(factor, sat, i)) /\ ~GoesOn(factor, sat, n)}

\* The dimming after the last round: the one before if that was better, the
\* last one if it is good and none was set, or the one there was.
Determined(factor, sat, n) ==
  IF LessThanLast(sat, n) THEN Tried(factor, n - 1)
  ELSE IF factor = 0 /\ sat[n] > 2 THEN Tried(factor, n)
                                  ELSE factor

\* The dimming after psmove_tracker_blinking_calibration, from that before.
\* (PSMOVE_TRACKER_COLOR is not set; then it would stay as it is.)
Blinked == [factor \in 0 .. Full |->
  UNION {{Determined(factor, sat, n) : sat \in Rounds(factor, n)} : n \in 1 .. Full}]

\* psmove_tracker_old_color_is_tracked gives the controller a slot and runs
\* psmove_tracker_update, which filters the position once it is found.
OldColorTracked(m, c) ==
  \E s \in Slot(NoMove) :
    /\ move' = [move EXCEPT ![s] = m]
    /\ color' = [color EXCEPT ![s] = c]
    /\ filter' \in {filter, [filter EXCEPT ![s] =
                               IF @ = "null" THEN NewFilter(smoothing, @) ELSE @]}
    /\ UNCHANGED dimming

\* After that has failed the slot is cleared, filter included.
FiltersAfterTry ==
  {filter} \cup {[filter EXCEPT ![s] = "null"] : s \in Slot(NoMove)}

\* Faulty variant of BlinkCalibrated: the slot of the try is not cleared.
BlinkCalibratedBoth(m, c) ==
  /\ \E s \in Slot(NoMove), t \in Slots :
       /\ move[t] = NoMove
       /\ move' = [move EXCEPT ![s] = m, ![t] = m]
       /\ color' = [color EXCEPT ![s] = c, ![t] = c]
  /\ filter' \in FiltersAfterTry
  /\ dimming' \in Blinked[dimming]

BlinkCalibrated(m, c) ==
  /\ \E s \in Slot(NoMove) :
       /\ move' = [move EXCEPT ![s] = m]
       /\ color' = [color EXCEPT ![s] = c]
  /\ filter' \in FiltersAfterTry
  /\ dimming' \in Blinked[dimming]

\* Faulty variant of BlinkFailed: the slot of the try is not cleared.
BlinkFailedOccupied(m, c) ==
  /\ \E s \in Slot(NoMove) :
       /\ move' = [move EXCEPT ![s] = m]
       /\ color' = [color EXCEPT ![s] = c]
  /\ filter' = filter
  /\ dimming' \in Blinked[dimming]

\* The sphere is not found, or there is no slot left.
BlinkFailed(m, c) ==
  /\ filter' \in FiltersAfterTry
  /\ dimming' \in Blinked[dimming]
  /\ UNCHANGED <<move, color>>

Told(m, status) == result' = [move |-> m, status |-> status]

\* psmove_tracker_enable_with_color_internal.
EnableInternal(m, c) ==
  \/ /\ Enabled(m)
     /\ Told(m, "calibrated")
     /\ UNCHANGED <<move, color, filter, dimming>>
  \/ /\ ~Enabled(m)
     /\ ColorUsed(c)
     /\ Told(m, "error")
     /\ UNCHANGED <<move, color, filter, dimming>>
  \/ /\ ~Enabled(m)
     /\ ~ColorUsed(c)
     /\ \/ OldColorTracked(m, c) /\ Told(m, "calibrated")
        \/ BlinkCalibrated(m, c) /\ Told(m, "calibrated")
        \/ BlinkFailed(m, c) /\ Told(m, "error")

EnableWithColor(m, c) == EnableInternal(m, c) /\ UNCHANGED smoothing

Enable(m) ==
  /\ \/ \E i \in FirstUnused(StartInd) : EnableInternal(m, Preset(i))
     \/ /\ PresetsUsedUp
        /\ Told(m, "error")
        /\ UNCHANGED <<move, color, filter, dimming>>
  /\ UNCHANGED smoothing

\* psmove_tracker_disable clears the slot with memset.
Disable(m) ==
  /\ \E s \in Slot(m) :
       /\ move' = [move EXCEPT ![s] = NoMove]
       /\ color' = [color EXCEPT ![s] = Black]
       /\ filter' = [filter EXCEPT ![s] = "null"]
  /\ result' = NoResult
  /\ UNCHANGED <<smoothing, dimming>>

-----------------------------------------------------------------------------
(* Other colours.                                                           *)

\* psmove_tracker_use_color_at_index calibrates with the dimming set to 0;
\* the search for an unused preset ends at its last index in any case.
Ends(req) == IF PresetsUsedUp THEN {req + N - 1} ELSE FirstUnused(req)

UseColorAtIndex(m, req) ==
  /\ \E s \in Slot(m), i \in Ends(req) :
       color' \in {color, [color EXCEPT ![s] = Preset(i)]}
  /\ dimming' \in Blinked[0]
  /\ result' = NoResult
  /\ UNCHANGED <<move, filter, smoothing>>

\* Faulty variant of NextIndex: the search begins at the current index.
NextIndexSame(s) ==
  IF color[s] \in PresetColors
    THEN (CHOOSE i \in 0 .. (N - 1) : Preset(i) = color[s]) % N
    ELSE N % N

\* psmove_tracker_cycle_color: the index after the current one; the loop ends
\* at N for a custom colour.
NextIndex(s) ==
  IF color[s] \in PresetColors
    THEN ((CHOOSE i \in 0 .. (N - 1) : Preset(i) = color[s]) + 1) % N
    ELSE (N + 1) % N

CycleColor(m) == \E s \in Slot(m) : UseColorAtIndex(m, NextIndex(s))

\* psmove_tracker_set_dimming; the application is not modelled to set 0.
SetDimming(d) ==
  /\ dimming' = d
  /\ result' = NoResult
  /\ UNCHANGED <<move, color, filter, smoothing>>

-----------------------------------------------------------------------------
(* The position filters.                                                    *)

\* psmove_tracker_filter_3d makes a filter for a slot that has none.
FilterPosition(s) ==
  /\ move[s] # NoMove
  /\ filter[s] = "null"
  /\ filter' = [filter EXCEPT ![s] = NewFilter(smoothing, @)]
  /\ result' = NoResult
  /\ UNCHANGED <<move, color, smoothing, dimming>>

\* psmove_tracker_set_smoothing_type frees the filters of the old type, and
\* overwrites the pointers unless the new type is Smoothing_None.
Freed(s) == IF filter[s] = "null" \/ smoothing = "none" THEN filter[s] ELSE "freed"

\* Faulty variant of SetSmoothingType: only missing filters are made.
SetSmoothingTypeLazy(type) ==
  /\ type # smoothing
  /\ smoothing' = type
  /\ filter' = [s \in Slots |-> IF filter[s] = "null" THEN NewFilter(type, "null")
                                                      ELSE Freed(s)]
  /\ result' = NoResult
  /\ UNCHANGED <<move, color, dimming>>

SetSmoothingType(type) ==
  /\ type # smoothing
  /\ smoothing' = type
  /\ filter' = [s \in Slots |-> NewFilter(type, Freed(s))]
  /\ result' = NoResult
  /\ UNCHANGED <<move, color, dimming>>

-----------------------------------------------------------------------------
Next ==
  \/ \E m \in Moves, c \in Colors : EnableWithColor(m, c)
  \/ \E m \in Moves : Enable(m) \/ Disable(m) \/ CycleColor(m)
  \/ \E m \in Moves, req \in 0 .. (N - 1) : UseColorAtIndex(m, req)
  \/ \E d \in 1 .. Full : SetDimming(d)
  \/ \E s \in Slots : FilterPosition(s)
  \/ \E type \in Smoothing : SetSmoothingType(type)

Spec == Init /\ [][Next]_vars

-----------------------------------------------------------------------------
(* Properties.                                                              *)

\* The values of the variables.
TypeOK ==
  /\ move \in [Slots -> Moves \cup {NoMove}]
  /\ color \in [Slots -> Colors \cup {Black}]
  /\ filter \in [Slots -> {"null", "lowpass", "kalman", "freed"}]
  /\ smoothing \in Smoothing
  /\ dimming \in 0 .. Full
  /\ result \in [move : Moves \cup {NoMove}, status : {"none", "calibrated", "error"}]

\* A controller is in one slot at most: an attempt with its old colour that
\* fails leaves no slot behind that psmove_tracker_disable would not reach.
OneSlotEach ==
  \A s, t \in Slots : move[s] # NoMove /\ move[s] = move[t] => s = t

\* What psmove_tracker_enable tells about the controller is true afterwards.
\* (With all presets used it is an error even for an enabled controller.)
ToldTrue ==
  /\ result.status = "calibrated" => Enabled(result.move)
  /\ result.status = "error" => ~Enabled(result.move) \/ PresetsUsedUp

\* A position filter is used, and freed, as what it is: with smoothing there
\* is none or one of the tracker's type, and pointers to freed filters only
\* remain while there is no smoothing and nothing looks at them.
FilterFits ==
  \A s \in Slots :
    filter[s] \in {"null"} \cup
                  (IF smoothing = "none" THEN {"freed"} ELSE {smoothing})

\* "Cannot use the same color for two different controllers": it only comes
\* to that when every preset is used and psmove_tracker_use_color_at_index
\* is asked for one of them; psmove_tracker_cycle_color then keeps its own.
ColorsDistinct ==
  \A s, t \in Slots :
    move[s] # NoMove /\ move[t] # NoMove /\ color[s] = color[t] => s = t
ClashOnlyByIndex ==
  [][ColorsDistinct /\ ~ColorsDistinct' =>
       PresetsUsedUp /\ \A m \in Moves : ~CycleColor(m)]_vars

\* Enabling a controller does not change the dimming once there is one, though
\* the calibration runs the loop that determines it: the colours of the others
\* were measured, and are remembered, with it.
DimmingKept ==
  [][dimming > 0 /\ dimming' # dimming => result' = NoResult]_vars
=============================================================================
