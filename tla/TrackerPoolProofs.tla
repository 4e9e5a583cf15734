------------------------- MODULE TrackerPoolProofs -------------------------
(***************************************************************************)
(* Theorems about TrackerPool, for any number of slots and controllers and *)
(* any preset colours.                                                     *)
(***************************************************************************)
EXTENDS TrackerPool, FiniteSetTheorems, WellFoundedInduction, TLAPS

-----------------------------------------------------------------------------
(* The search for a slot.                                                   *)

\* A loop that counts up to what it looks for finds it if it is there.
LEMMA Smallest ==
  ASSUME NEW T \in SUBSET Nat, T # {}
  PROVE  \E n \in T : \A k \in T : n <= k
<1> DEFINE Less == {ss \in Nat \X Nat : ss[1] < ss[2]}
<1>1. IsWellFoundedOn(Less, Nat)
  BY NatLessThanWellFounded, Zenon DEF OpToRel
<1>2. PICK n \in T : \A k \in T : ~ (<<k, n>> \in Less)
  <2> HIDE DEF Less
  <2> QED
    BY <1>1, WFMin
<1>3. ASSUME NEW k \in T PROVE n <= k
  <2>1. k \in Nat /\ n \in Nat
    OBVIOUS
  <2>2. k < n => <<k, n>> \in Less
    BY <2>1
  <2>3. <<k, n>> \notin Less
    <3> HIDE DEF Less
    <3> QED
      BY <1>2
  <2> QED
    BY ONLY <2>1, <2>2, <2>3, SMT
<1> QED
  BY <1>3

\* psmove_tracker_find_controller finds a slot if any has the controller.
LEMMA FirstSlot ==
  ASSUME NEW f, NEW m, NEW t \in Slots, f[t] = m
  PROVE  \E s \in Slots : f[s] = m /\ \A k \in 1 .. (s - 1) : f[k] # m
<1> DEFINE T == {s \in Slots : f[s] = m}
<1>1. T \in SUBSET Nat /\ T # {}
  BY PoolAssumption DEF PoolAssumption, Slots
<1> HIDE DEF T
<1>2. PICK s \in T : \A k \in T : s <= k
  BY <1>1, Smallest
<1>3. s \in Slots /\ f[s] = m
  BY DEF T
<1>4. ASSUME NEW k \in 1 .. (s - 1) PROVE f[k] # m
  <2>1. k \in Slots /\ k < s
    BY <1>3, PoolAssumption DEF PoolAssumption, Slots
  <2>2. k \notin T
    BY <2>1, <1>2, <1>3, PoolAssumption DEF PoolAssumption, Slots
  <2> QED
    BY <2>1, <2>2 DEF T
<1> QED
  BY <1>3, <1>4

LEMMA FindsController ==
  ASSUME NEW m
  PROVE  Enabled(m) <=> \E s \in Slots : move[s] = m
<1>1. Enabled(m) => \E s \in Slots : move[s] = m
  BY DEF Enabled, Slot
<1>2. ASSUME NEW t \in Slots, move[t] = m PROVE Enabled(m)
  BY <1>2, FirstSlot DEF Enabled, Slot
<1> QED
  BY <1>1, <1>2

LEMMA FindsControllerNext ==
  ASSUME NEW m
  PROVE  Enabled(m)' <=> \E s \in Slots : move'[s] = m
<1>1. Enabled(m)' => \E s \in Slots : move'[s] = m
  BY DEF Enabled, Slot
<1>2. ASSUME NEW t \in Slots, move'[t] = m PROVE Enabled(m)'
  BY <1>2, FirstSlot DEF Enabled, Slot
<1> QED
  BY <1>1, <1>2

-----------------------------------------------------------------------------
(* What one attempt to enable does to the slots.                            *)

PoolInv == TypeOK /\ OneSlotEach /\ FilterFits

\* A sphere colour of the presets.
LEMMA PresetInColors ==
  ASSUME NEW i \in Nat
  PROVE  Preset(i) \in Colors
<1>1. N \in Nat /\ N > 0 /\ DOMAIN Presets = 1 .. N
  BY PoolAssumption DEF PoolAssumption, N
<1>2. (i % N) + 1 \in 1 .. N
  BY <1>1
<1> QED
  BY <1>1, <1>2 DEF Preset, Colors, PresetColors

\* The indices at which the search for a preset ends.
LEMMA EndsInNat ==
  ASSUME NEW req \in Nat, NEW i \in Ends(req)
  PROVE  i \in Nat
<1>1. N \in Nat /\ N > 0
  BY PoolAssumption DEF PoolAssumption, N
<1> QED
  BY <1>1 DEF Ends, FirstUnused

LEMMA NextIndexInNat ==
  ASSUME NEW s
  PROVE  NextIndex(s) \in Nat
<1>1. N \in Nat /\ N > 0 /\ DOMAIN Presets = 1 .. N
  BY PoolAssumption DEF PoolAssumption, N
<1>2. CASE color[s] \in PresetColors
  <2>1. PICK n \in 1 .. N : color[s] = Presets[n]
    BY <1>1, <1>2 DEF PresetColors
  <2>2. n - 1 \in 0 .. (N - 1) /\ Preset(n - 1) = color[s]
    <3>1. n - 1 \in 0 .. (N - 1) /\ (n - 1) % N = n - 1 /\ (n - 1) + 1 = n
      BY <1>1
    <3> QED
      BY <2>1, <3>1 DEF Preset
  <2> DEFINE i == CHOOSE i \in 0 .. (N - 1) : Preset(i) = color[s]
  <2>3. i \in 0 .. (N - 1)
    BY <2>2
  <2> HIDE DEF i
  <2>4. (i + 1) % N \in Nat
    BY <1>1, <2>3
  <2> QED
    BY <1>2, <2>4 DEF NextIndex, i
<1>3. CASE color[s] \notin PresetColors
  BY <1>1, <1>3 DEF NextIndex
<1> QED
  BY <1>2, <1>3

\* A slot that gets a controller without one, and a colour.
LEMMA SlotTaken ==
  ASSUME PoolInv, NEW m \in Moves, NEW c \in Colors, ~Enabled(m),
         NEW s \in Slots,
         move' = [move EXCEPT ![s] = m], color' = [color EXCEPT ![s] = c]
  PROVE  /\ move' \in [Slots -> Moves \cup {NoMove}]
         /\ color' \in [Slots -> Colors \cup {Black}]
         /\ OneSlotEach'
         /\ Enabled(m)'
<1>1. \A t \in Slots : move[t] # m
  BY FindsController
<1>2. move' \in [Slots -> Moves \cup {NoMove}] /\ move'[s] = m
  BY DEF PoolInv, TypeOK
<1>3. color' \in [Slots -> Colors \cup {Black}]
  BY DEF PoolInv, TypeOK
<1>4. OneSlotEach'
  BY <1>1 DEF PoolInv, TypeOK, OneSlotEach
<1>5. Enabled(m)'
  BY <1>2, FindsControllerNext
<1> QED
  BY <1>2, <1>3, <1>4, <1>5

\* A filter is made for a slot that has none, or a slot is cleared.
LEMMA FiltersFit ==
  ASSUME PoolInv, smoothing' = smoothing, NEW s \in Slots,
         NEW new \in {"null", NewFilter(smoothing, "null")},
         filter' \in {filter, [filter EXCEPT ![s] = new]}
  PROVE  /\ filter' \in [Slots -> {"null", "lowpass", "kalman", "freed"}]
         /\ FilterFits'
  BY DEF PoolInv, TypeOK, FilterFits, NewFilter, Smoothing

LEMMA FiltersFitAfterTry ==
  ASSUME PoolInv, smoothing' = smoothing, filter' \in FiltersAfterTry
  PROVE  /\ filter' \in [Slots -> {"null", "lowpass", "kalman", "freed"}]
         /\ FilterFits'
<1>1. CASE filter' = filter
  BY <1>1 DEF PoolInv, TypeOK, FilterFits
<1>2. ASSUME NEW s \in Slots, filter' = [filter EXCEPT ![s] = "null"]
      PROVE  /\ filter' \in [Slots -> {"null", "lowpass", "kalman", "freed"}]
             /\ FilterFits'
  BY <1>2, FiltersFit
<1> QED
  BY <1>1, <1>2 DEF FiltersAfterTry, Slot

\* Every round of the calibration but the last one goes on, so that what it
\* tries is a dimming, and so is what it ends with.
LEMMA BlinkedBounds ==
  ASSUME NEW factor \in 0 .. Full
  PROVE  /\ Blinked[factor] \subseteq 0 .. Full
         /\ factor > 0 => Blinked[factor] \subseteq {factor}
<1> SUFFICES ASSUME NEW n \in 1 .. Full, NEW sat \in Rounds(factor, n)
             PROVE  /\ Determined(factor, sat, n) \in 0 .. Full
                    /\ factor > 0 => Determined(factor, sat, n) = factor
  BY DEF Blinked
<1>1. Full \in Nat \ {0} /\ factor \in Nat /\ n \in Nat \ {0}
  BY PoolAssumption
<1>2. CASE n = 1
  <2>1. ~LessThanLast(sat, n)
    BY <1>2 DEF LessThanLast
  <2>2. Tried(factor, n) = IF factor > 0 THEN factor ELSE Full
    BY <1>1, <1>2 DEF Tried
  <2> QED
    BY <1>1, <2>1, <2>2 DEF Determined
<1>3. CASE n > 1
  <2>1. n - 1 \in 1 .. (n - 1) /\ 1 \in 1 .. (n - 1)
    BY <1>1, <1>3
  <2>2. GoesOn(factor, sat, n - 1)
    BY <2>1 DEF Rounds
  <2>3. factor = 0 /\ Tried(factor, n - 1) > 1
    BY <2>2 DEF GoesOn
  <2>4. Tried(factor, n - 1) \in 1 .. Full /\ Tried(factor, n) \in 0 .. Full
    BY <1>1, <1>3, <2>3 DEF Tried
  <2> QED
    BY <1>1, <2>3, <2>4 DEF Determined
<1> QED
  BY <1>1, <1>2, <1>3

\* psmove_tracker_enable_with_color_internal keeps the invariant, and tells
\* the truth.
LEMMA EnableInternalKeeps ==
  ASSUME PoolInv, smoothing' = smoothing,
         NEW m \in Moves, NEW c \in Colors, EnableInternal(m, c)
  PROVE  /\ PoolInv'
         /\ \/ Told(m, "calibrated") /\ Enabled(m)'
            \/ Told(m, "error") /\ ~Enabled(m)'
<1> DEFINE Fine == /\ PoolInv'
                   /\ \/ Told(m, "calibrated") /\ Enabled(m)'
                      \/ Told(m, "error") /\ ~Enabled(m)'
<1> SUFFICES Fine
  OBVIOUS
<1>1. ASSUME UNCHANGED <<move, color, filter, dimming>>,
             NEW status \in {"calibrated", "error"}, Told(m, status),
             Enabled(m) <=> status = "calibrated"
      PROVE  Fine
  <2>1. PoolInv'
    BY <1>1 DEF Told, PoolInv, TypeOK, OneSlotEach, FilterFits
  <2>2. Enabled(m)' <=> Enabled(m)
    BY <1>1, FindsController, FindsControllerNext
  <2> QED
    BY <1>1, <2>1, <2>2 DEF Told
<1>2. ASSUME ~Enabled(m), Told(m, "calibrated"), dimming' \in 0 .. Full,
             NEW s \in Slots,
             move' = [move EXCEPT ![s] = m], color' = [color EXCEPT ![s] = c],
             filter' \in [Slots -> {"null", "lowpass", "kalman", "freed"}],
             FilterFits'
      PROVE  Fine
  <2>1. /\ move' \in [Slots -> Moves \cup {NoMove}]
        /\ color' \in [Slots -> Colors \cup {Black}]
        /\ OneSlotEach' /\ Enabled(m)'
    BY <1>2, SlotTaken
  <2> QED
    BY <1>2, <2>1 DEF Told, PoolInv, TypeOK
<1>3. Blinked[dimming] \subseteq 0 .. Full
  BY BlinkedBounds DEF PoolInv, TypeOK
<1>4. CASE ~Enabled(m) /\ OldColorTracked(m, c) /\ Told(m, "calibrated")
  <2>1. PICK s \in Slots :
               /\ move' = [move EXCEPT ![s] = m]
               /\ color' = [color EXCEPT ![s] = c]
               /\ filter' \in {filter, [filter EXCEPT ![s] =
                                   IF @ = "null" THEN NewFilter(smoothing, @)
                                                 ELSE @]}
               /\ UNCHANGED dimming
    BY <1>4 DEF OldColorTracked, Slot
  <2>2. \/ filter' = filter
        \/ filter' = [filter EXCEPT ![s] = NewFilter(smoothing, "null")]
    BY <2>1 DEF PoolInv, TypeOK
  <2>3. /\ filter' \in [Slots -> {"null", "lowpass", "kalman", "freed"}]
        /\ FilterFits'
    BY <2>2, FiltersFit
  <2>4. dimming' \in 0 .. Full
    BY <2>1 DEF PoolInv, TypeOK
  <2> QED
    BY <1>2, <1>4, <2>1, <2>3, <2>4
<1>5. CASE ~Enabled(m) /\ BlinkCalibrated(m, c) /\ Told(m, "calibrated")
  <2>1. PICK s \in Slots : /\ move' = [move EXCEPT ![s] = m]
                           /\ color' = [color EXCEPT ![s] = c]
    BY <1>5 DEF BlinkCalibrated, Slot
  <2>2. /\ filter' \in [Slots -> {"null", "lowpass", "kalman", "freed"}]
        /\ FilterFits'
    BY <1>5, FiltersFitAfterTry DEF BlinkCalibrated
  <2>3. dimming' \in 0 .. Full
    BY <1>3, <1>5 DEF BlinkCalibrated
  <2> QED
    BY <1>2, <1>5, <2>1, <2>2, <2>3
<1>6. CASE ~Enabled(m) /\ BlinkFailed(m, c) /\ Told(m, "error")
  <2>1. /\ filter' \in [Slots -> {"null", "lowpass", "kalman", "freed"}]
        /\ FilterFits'
    BY <1>6, FiltersFitAfterTry DEF BlinkFailed
  <2>2. dimming' \in 0 .. Full /\ UNCHANGED <<move, color>>
    BY <1>3, <1>6 DEF BlinkFailed
  <2>3. ~Enabled(m)'
    BY <1>6, <2>2, FindsController, FindsControllerNext
  <2> QED
    BY <1>6, <2>1, <2>2, <2>3 DEF Told, PoolInv, TypeOK, OneSlotEach
<1>7. CASE /\ Enabled(m) /\ Told(m, "calibrated")
           /\ UNCHANGED <<move, color, filter, dimming>>
  BY <1>1, <1>7
<1>8. CASE /\ ~Enabled(m) /\ Told(m, "error")
           /\ UNCHANGED <<move, color, filter, dimming>>
  BY <1>1, <1>8
<1> QED
  <2> HIDE DEF Fine
  <2> QED
    BY <1>4, <1>5, <1>6, <1>7, <1>8 DEF EnableInternal

-----------------------------------------------------------------------------
(* Every step keeps the invariant.                                          *)

LEMMA EnableKeeps ==
  ASSUME PoolInv, NEW m \in Moves, Enable(m)
  PROVE  PoolInv'
<1>1. StartInd \in Nat /\ N \in Nat
  BY PoolAssumption DEF PoolAssumption, N
<1>2. ASSUME NEW i \in FirstUnused(StartInd), EnableInternal(m, Preset(i))
      PROVE  PoolInv'
  <2>1. Preset(i) \in Colors
    BY <1>1, PresetInColors DEF FirstUnused
  <2> QED
    BY <1>2, <2>1, EnableInternalKeeps DEF Enable
<1>3. CASE /\ Told(m, "error")
           /\ UNCHANGED <<move, color, filter, dimming>>
  BY <1>3 DEF Enable, Told, PoolInv, TypeOK, OneSlotEach, FilterFits
<1> QED
  BY <1>2, <1>3 DEF Enable

LEMMA UseColorAtIndexKeeps ==
  ASSUME PoolInv, NEW m, NEW req \in Nat, UseColorAtIndex(m, req)
  PROVE  PoolInv'
<1>1. PICK s \in Slots, i \in Ends(req) :
             color' \in {color, [color EXCEPT ![s] = Preset(i)]}
  BY DEF UseColorAtIndex, Slot
<1>2. Preset(i) \in Colors
  BY EndsInNat, PresetInColors
<1>3. color' \in [Slots -> Colors \cup {Black}]
  BY <1>1, <1>2 DEF PoolInv, TypeOK
<1>4. dimming' \in 0 .. Full
  <2>1. 0 \in 0 .. Full
    BY PoolAssumption
  <2> QED
    BY <2>1, BlinkedBounds DEF UseColorAtIndex
<1> QED
  BY <1>3, <1>4
  DEF UseColorAtIndex, NoResult, PoolInv, TypeOK, OneSlotEach, FilterFits

LEMMA PoolStep == PoolInv /\ [Next]_vars => PoolInv'
<1> SUFFICES ASSUME PoolInv, [Next]_vars
             PROVE  PoolInv'
  OBVIOUS
<1> USE DEF NoResult
<1>1. ASSUME NEW m \in Moves, NEW c \in Colors, EnableWithColor(m, c)
      PROVE  PoolInv'
  BY <1>1, EnableInternalKeeps DEF EnableWithColor
<1>2. ASSUME NEW m \in Moves, Enable(m) PROVE PoolInv'
  BY <1>2, EnableKeeps
<1>3. ASSUME NEW m \in Moves, Disable(m) PROVE PoolInv'
  <2>1. PICK s \in Slots : /\ move' = [move EXCEPT ![s] = NoMove]
                           /\ color' = [color EXCEPT ![s] = Black]
                           /\ filter' = [filter EXCEPT ![s] = "null"]
    BY <1>3 DEF Disable, Slot
  <2>2. FilterFits' /\ filter' \in [Slots -> {"null", "lowpass", "kalman", "freed"}]
    BY <1>3, <2>1, FiltersFit DEF Disable
  <2>3. OneSlotEach'
    BY <2>1 DEF PoolInv, TypeOK, OneSlotEach
  <2>4. /\ move' \in [Slots -> Moves \cup {NoMove}]
        /\ color' \in [Slots -> Colors \cup {Black}]
    BY <2>1 DEF PoolInv, TypeOK
  <2> QED
    BY <1>3, <2>2, <2>3, <2>4 DEF Disable, PoolInv, TypeOK
<1>4. ASSUME NEW m \in Moves, CycleColor(m) PROVE PoolInv'
  BY <1>4, NextIndexInNat, UseColorAtIndexKeeps DEF CycleColor
<1>5. ASSUME NEW m \in Moves, NEW req \in 0 .. (N - 1), UseColorAtIndex(m, req)
      PROVE  PoolInv'
  BY <1>5, UseColorAtIndexKeeps, PoolAssumption DEF PoolAssumption, N
<1>6. ASSUME NEW d \in 1 .. Full, SetDimming(d) PROVE PoolInv'
  BY <1>6, PoolAssumption
     DEF PoolAssumption, SetDimming, PoolInv, TypeOK, OneSlotEach, FilterFits
<1>7. ASSUME NEW s \in Slots, FilterPosition(s) PROVE PoolInv'
  <2>1. filter' = [filter EXCEPT ![s] = NewFilter(smoothing, "null")]
    BY <1>7 DEF FilterPosition
  <2>2. FilterFits' /\ filter' \in [Slots -> {"null", "lowpass", "kalman", "freed"}]
    BY <1>7, <2>1, FiltersFit DEF FilterPosition
  <2> QED
    BY <1>7, <2>2 DEF FilterPosition, PoolInv, TypeOK, OneSlotEach
<1>8. ASSUME NEW type \in Smoothing, SetSmoothingType(type) PROVE PoolInv'
  <2>1. \A s \in Slots : filter'[s] = NewFilter(type, Freed(s))
    BY <1>8 DEF SetSmoothingType
  <2>2. filter' \in [Slots -> {"null", "lowpass", "kalman", "freed"}]
    BY <1>8 DEF SetSmoothingType, NewFilter, Freed, Smoothing, PoolInv, TypeOK
  <2>3. FilterFits'
    BY <1>8, <2>1 DEF SetSmoothingType, NewFilter, Freed, FilterFits, PoolInv
  <2> QED
    BY <1>8, <2>2, <2>3 DEF SetSmoothingType, PoolInv, TypeOK, OneSlotEach
<1>9. CASE UNCHANGED vars
  BY <1>9 DEF vars, PoolInv, TypeOK, OneSlotEach, FilterFits
<1> QED
  BY <1>1, <1>2, <1>3, <1>4, <1>5, <1>6, <1>7, <1>8, <1>9 DEF Next

LEMMA PoolInit == Init => PoolInv
<1> SUFFICES ASSUME Init PROVE PoolInv
  OBVIOUS
<1>1. dimming \in 0 .. Full
  BY PoolAssumption DEF PoolAssumption, Init
<1>2. filter \in [Slots -> {"null", "lowpass", "kalman", "freed"}] /\ FilterFits
  BY DEF Init, NewFilter, Smoothing, FilterFits
<1> QED
  BY <1>1, <1>2 DEF Init, NoResult, PoolInv, TypeOK, OneSlotEach

LEMMA PoolInvariance == Spec => []PoolInv
<1>1. Init => PoolInv
  BY PoolInit
<1>2. PoolInv /\ [Next]_vars => PoolInv'
  BY PoolStep
<1>3. QED
  BY <1>1, <1>2, PTL DEF Spec

(* The slots, colours, filters and the dimming keep their types.            *)
THEOREM TypeCorrect == Spec => []TypeOK
  BY PoolInvariance, PTL DEF PoolInv

(* No controller comes to be in two slots, whichever attempts to enable it  *)
(* fail halfway: psmove_tracker_old_color_is_tracked against                *)
(* psmove_tracker_enable_with_color_internal.                               *)
THEOREM ControllersOnce == Spec => []OneSlotEach
  BY PoolInvariance, PTL DEF PoolInv

(* psmove_tracker_filter_3d and psmove_tracker_set_smoothing_type never see *)
(* a position filter of another type, nor one that was freed.               *)
THEOREM FiltersOfTheirType == Spec => []FilterFits
  BY PoolInvariance, PTL DEF PoolInv

-----------------------------------------------------------------------------
(* What the calls tell, and the dimming.                                    *)

LEMMA ToldTruth ==
  ASSUME NEW m,
         \/ Told(m, "calibrated") /\ Enabled(m)'
         \/ Told(m, "error") /\ (~Enabled(m)' \/ PresetsUsedUp')
  PROVE  ToldTrue'
<1>1. CASE Told(m, "calibrated") /\ Enabled(m)'
  BY <1>1 DEF Told, ToldTrue, Enabled, Slot
<1>2. CASE Told(m, "error") /\ ~Enabled(m)'
  BY <1>2 DEF Told, ToldTrue, Enabled, Slot
<1>3. CASE Told(m, "error") /\ PresetsUsedUp'
  BY <1>3 DEF Told, ToldTrue
<1> QED
  BY <1>1, <1>2, <1>3

\* Only attempts to enable leave a result behind.
LEMMA OthersTellNothing ==
  ASSUME [Next]_vars
  PROVE  \/ \E m \in Moves, c \in Colors : EnableWithColor(m, c)
         \/ \E m \in Moves : Enable(m)
         \/ result' = NoResult
         \/ UNCHANGED vars
  BY DEF Next, Disable, CycleColor, UseColorAtIndex, SetDimming, FilterPosition,
         SetSmoothingType

LEMMA ToldStep == PoolInv /\ ToldTrue /\ [Next]_vars => ToldTrue'
<1> SUFFICES ASSUME PoolInv, ToldTrue, [Next]_vars
             PROVE  ToldTrue'
  OBVIOUS
<1>1. ASSUME NEW m \in Moves, NEW c \in Colors, EnableWithColor(m, c)
      PROVE  ToldTrue'
  BY <1>1, EnableInternalKeeps, ToldTruth DEF EnableWithColor
<1>2. ASSUME NEW m \in Moves, Enable(m)
      PROVE  ToldTrue'
  <2>1. ASSUME NEW i \in FirstUnused(StartInd), EnableInternal(m, Preset(i))
        PROVE  ToldTrue'
    <3>1. i \in Nat
      BY PoolAssumption DEF PoolAssumption, FirstUnused
    <3> QED
      BY <1>2, <2>1, <3>1, PresetInColors, EnableInternalKeeps, ToldTruth DEF Enable
  <2>2. CASE /\ PresetsUsedUp
             /\ Told(m, "error")
             /\ UNCHANGED <<move, color, filter, dimming>>
    <3>1. PresetsUsedUp'
      BY <2>2 DEF PresetsUsedUp, ColorUsed
    <3> QED
      BY <2>2, <3>1, ToldTruth
  <2> QED
    BY <1>2, <2>1, <2>2 DEF Enable
<1>3. CASE result' = NoResult
  BY <1>3 DEF NoResult, ToldTrue
<1>4. CASE UNCHANGED vars
  BY <1>4 DEF vars, ToldTrue, Enabled, Slot, PresetsUsedUp, ColorUsed
<1> QED
  BY <1>1, <1>2, <1>3, <1>4, OthersTellNothing

(* What psmove_tracker_enable tells is true, however often the attempt with *)
(* the old colour and the calibration have taken and cleared a slot.        *)
THEOREM ToldTheTruth == Spec => []ToldTrue
<1>1. Init => ToldTrue
  BY DEF Init, NoResult, ToldTrue
<1>2. PoolInv /\ ToldTrue /\ [Next]_vars => ToldTrue'
  BY ToldStep
<1>3. QED
  BY <1>1, <1>2, PoolInvariance, PTL DEF Spec

\* An attempt to enable leaves a dimming that is set alone: the calibration
\* ends in its first round, and saves nothing.
LEMMA EnableKeepsDimming ==
  ASSUME NEW m, NEW c, EnableInternal(m, c), dimming \in 0 .. Full, dimming > 0
  PROVE  dimming' = dimming
<1>1. Blinked[dimming] \subseteq {dimming}
  BY BlinkedBounds
<1> QED
  BY <1>1 DEF EnableInternal, OldColorTracked, BlinkCalibrated, BlinkFailed

(* psmove_tracker_blinking_calibration determines the dimming only once, so *)
(* that enabling a controller does not darken the spheres of the others.    *)
THEOREM EnablingKeepsDimming == Spec => DimmingKept
<1>1. ASSUME PoolInv, [Next]_vars, dimming > 0, dimming' # dimming
      PROVE  result' = NoResult
  <2>1. dimming \in 0 .. Full
    BY <1>1 DEF PoolInv, TypeOK
  <2> QED
    BY <1>1, <2>1, EnableKeepsDimming, OthersTellNothing
       DEF EnableWithColor, Enable, vars
<1>2. PoolInv /\ [Next]_vars =>
        [dimming > 0 /\ dimming' # dimming => result' = NoResult]_vars
  BY <1>1
<1>3. QED
  BY <1>2, PoolInvariance, PTL DEF Spec, DimmingKept

-----------------------------------------------------------------------------
(* Colours.                                                                 *)

\* No step but a new colour by index makes two controllers look alike, and
\* that only if there is no other preset left.
LEMMA ClashByIndex ==
  ASSUME PoolInv, [Next]_vars, ColorsDistinct, ~ColorsDistinct'
  PROVE  /\ PresetsUsedUp
         /\ \E s \in Slots, i \in Nat :
              color' = [color EXCEPT ![s] = Preset(i)] /\ UNCHANGED move
<1> USE DEF PoolInv, TypeOK
<1>1. ASSUME NEW s \in Slots, NEW c, ~ColorUsed(c), NEW m \in Moves \cup {NoMove},
             color' = [color EXCEPT ![s] = c], move' = [move EXCEPT ![s] = m]
      PROVE  FALSE
  BY <1>1 DEF ColorsDistinct, ColorUsed
<1>2. ~(UNCHANGED <<move, color>>)
  BY DEF ColorsDistinct
<1>3. ASSUME NEW m \in Moves, NEW c, EnableInternal(m, c) PROVE FALSE
  BY <1>1, <1>2, <1>3
  DEF EnableInternal, OldColorTracked, BlinkCalibrated, BlinkFailed, Slot
<1>4. ASSUME NEW m \in Moves, Disable(m) PROVE FALSE
  <2>1. PICK s \in Slots : /\ move' = [move EXCEPT ![s] = NoMove]
                           /\ color' = [color EXCEPT ![s] = Black]
    BY <1>4 DEF Disable, Slot
  <2> QED
    BY <2>1 DEF ColorsDistinct
<1>5. ASSUME NEW m, NEW req \in Nat, UseColorAtIndex(m, req)
      PROVE  /\ PresetsUsedUp
             /\ \E s \in Slots, i \in Nat :
                  color' = [color EXCEPT ![s] = Preset(i)] /\ UNCHANGED move
  <2>1. PICK s \in Slots, i \in Ends(req) :
               color' \in {color, [color EXCEPT ![s] = Preset(i)]}
    BY <1>5 DEF UseColorAtIndex, Slot
  <2>2. i \in Nat /\ UNCHANGED move
    BY <1>5, EndsInNat DEF UseColorAtIndex
  <2>3. color' = [color EXCEPT ![s] = Preset(i)]
    BY <1>2, <2>1, <2>2
  <2>4. PresetsUsedUp
    <3>1. SUFFICES ASSUME ~PresetsUsedUp PROVE FALSE
      OBVIOUS
    <3>2. ~ColorUsed(Preset(i))
      BY <2>1, <3>1 DEF Ends, FirstUnused
    <3>3. move' = [move EXCEPT ![s] = move[s]]
      BY <2>2
    <3> QED
      BY <1>1, <2>3, <3>2, <3>3
  <2> QED
    BY <2>2, <2>3, <2>4
<1>6. ASSUME NEW m \in Moves, Enable(m) PROVE FALSE
  BY <1>2, <1>3, <1>6 DEF Enable
<1>7. ASSUME NEW m \in Moves, NEW c \in Colors, EnableWithColor(m, c) PROVE FALSE
  BY <1>3, <1>7 DEF EnableWithColor
<1>8. ASSUME NEW m \in Moves, CycleColor(m)
      PROVE  \E req \in Nat : UseColorAtIndex(m, req)
  BY <1>8, NextIndexInNat DEF CycleColor
<1>9. 0 .. (N - 1) \subseteq Nat
  BY PoolAssumption DEF N
<1> QED
  BY <1>2, <1>4, <1>5, <1>6, <1>7, <1>8, <1>9
  DEF Next, SetDimming, FilterPosition, SetSmoothingType, vars

\* With all presets used every controller has one of them, as there are no
\* fewer presets than slots.
LEMMA AllHavePresets ==
  ASSUME PresetsUsedUp, NEW s \in Slots
  PROVE  color[s] \in PresetColors
<1> DEFINE f == [i \in 1 .. N |->
                   CHOOSE t \in Slots : move[t] # NoMove /\ color[t] = Presets[i]]
<1>1. N \in Nat /\ MaxControllers \in Nat /\ DOMAIN Presets = 1 .. N
      /\ N >= MaxControllers
      /\ \A i, j \in 1 .. N : Presets[i] = Presets[j] => i = j
  BY PoolAssumption DEF N
<1>2. ASSUME NEW i \in 1 .. N PROVE f[i] \in Slots /\ color[f[i]] = Presets[i]
  <2>1. Presets[i] \in PresetColors
    BY <1>1 DEF PresetColors
  <2>2. \E t \in Slots : move[t] # NoMove /\ color[t] = Presets[i]
    BY <2>1 DEF PresetsUsedUp, ColorUsed
  <2> QED
    BY <2>2
<1>3. f \in [1 .. N -> Slots]
  BY <1>2
<1> HIDE DEF f
<1>4. f \in Injection(1 .. N, Slots)
  BY <1>1, <1>2, <1>3 DEF Injection, IsInjective
<1>5. /\ IsFiniteSet(Slots) /\ Cardinality(Slots) = MaxControllers
      /\ Cardinality(1 .. N) = N
  BY <1>1, FS_Interval DEF Slots
<1>6. f \in Surjection(1 .. N, Slots)
  <2>1. Cardinality(1 .. N) <= Cardinality(Slots)
    BY <1>4, <1>5, FS_Injection
  <2>2. Cardinality(1 .. N) = Cardinality(Slots)
    BY <1>1, <1>5, <2>1
  <2> QED
    BY <1>4, <1>5, <2>2, FS_Injection
<1>7. PICK i \in 1 .. N : f[i] = s
  BY <1>6 DEF Surjection
<1> QED
  BY <1>1, <1>2, <1>7 DEF PresetColors

\* The search that goes round all the presets ends where it has begun.
LEMMA RoundTrip ==
  ASSUME NEW k \in 0 .. (N - 1)
  PROVE  (((k + 1) % N) + N - 1) % N = k
<1>1. N \in Nat /\ N > 0
  BY PoolAssumption DEF N
<1>2. CASE k + 1 < N
  <2>1. (k + 1) % N = k + 1
    BY <1>1, <1>2
  <2>2. (k + N) % N = k
    BY <1>1, <1>2
  <2> QED
    BY <1>1, <2>1, <2>2
<1>3. CASE k + 1 = N
  BY <1>1, <1>3
<1> QED
  BY <1>1, <1>2, <1>3

LEMMA CycleKeepsColor ==
  ASSUME PoolInv, PresetsUsedUp, NEW m, CycleColor(m)
  PROVE  color' = color
<1>1. PICK s \in Slots : \E i \in Ends(NextIndex(s)) :
               color' \in {color, [color EXCEPT ![s] = Preset(i)]}
  <2>1. PICK s \in Slot(m) : UseColorAtIndex(m, NextIndex(s))
    BY DEF CycleColor
  <2>2. PICK t \in Slot(m), i \in Ends(NextIndex(s)) :
               color' \in {color, [color EXCEPT ![t] = Preset(i)]}
    BY <2>1 DEF UseColorAtIndex
  <2>3. s \in Slots /\ t \in Slots /\ move[s] = m /\ move[t] = m
        /\ (\A n \in 1 .. (s - 1) : move[n] # m)
        /\ (\A n \in 1 .. (t - 1) : move[n] # m)
    BY DEF Slot
  <2>4. s = t
    <3>1. s \in Nat \ {0} /\ t \in Nat \ {0}
      BY <2>3, PoolAssumption DEF Slots
    <3>2. ~(s < t) /\ ~(t < s)
      BY <2>3, <3>1
    <3> QED
      BY <3>1, <3>2
  <2> QED
    BY <2>2, <2>3, <2>4
<1> DEFINE k == CHOOSE i \in 0 .. (N - 1) : Preset(i) = color[s]
<1>2. color[s] \in PresetColors
  BY AllHavePresets
<1>3. k \in 0 .. (N - 1) /\ Preset(k) = color[s]
  <2>1. PICK n \in DOMAIN Presets : color[s] = Presets[n]
    BY <1>2 DEF PresetColors
  <2>2. N \in Nat /\ N > 0 /\ n \in 1 .. N
    BY PoolAssumption DEF N
  <2>3. n - 1 \in 0 .. (N - 1) /\ (n - 1) % N = n - 1 /\ (n - 1) + 1 = n
    BY <2>2
  <2>4. Preset(n - 1) = color[s]
    BY <2>1, <2>3 DEF Preset
  <2> QED
    BY <2>3, <2>4
<1>4. NextIndex(s) = (k + 1) % N
  BY <1>2 DEF NextIndex
<1> HIDE DEF k
<1>5. Ends(NextIndex(s)) = {((k + 1) % N) + N - 1}
  BY <1>4 DEF Ends
<1>6. Preset(((k + 1) % N) + N - 1) = Preset(k)
  <2>1. k % N = k
    BY <1>3, PoolAssumption DEF N
  <2> QED
    BY <1>3, <2>1, RoundTrip DEF Preset
<1> QED
  BY <1>1, <1>3, <1>5, <1>6 DEF PoolInv, TypeOK

(* Two controllers only come to have the same colour when all presets are   *)
(* used and psmove_tracker_use_color_at_index asks for one of them.         *)
THEOREM ClashesByIndexOnly == Spec => ClashOnlyByIndex
<1>1. ASSUME PoolInv, [Next]_vars, ColorsDistinct, ~ColorsDistinct'
      PROVE  PresetsUsedUp /\ \A m \in Moves : ~CycleColor(m)
  <2>1. PresetsUsedUp
    BY <1>1, ClashByIndex
  <2>2. ASSUME NEW m \in Moves, CycleColor(m) PROVE FALSE
    <3>1. color' = color /\ UNCHANGED move
      BY <1>1, <2>1, <2>2, CycleKeepsColor DEF CycleColor, UseColorAtIndex
    <3> QED
      BY <1>1, <3>1 DEF ColorsDistinct
  <2> QED
    BY <2>1, <2>2
<1>2. PoolInv /\ [Next]_vars =>
        [ColorsDistinct /\ ~ColorsDistinct' =>
           PresetsUsedUp /\ \A m \in Moves : ~CycleColor(m)]_vars
  BY <1>1
<1>3. QED
  BY <1>2, PoolInvariance, PTL DEF Spec, ClashOnlyByIndex
=============================================================================
