-------------------------- MODULE PSMoveLedsProofs --------------------------
(***************************************************************************)
(* Theorems about PSMoveLeds, for any number of fields and values and any  *)
(* timing constants.  The inductive invariant says how far the writer has  *)
(* got in assuring itself that nothing newer than its copy exists: a field *)
(* memcmp has passed may only differ if the difference is owed, that is    *)
(* recorded in a call in progress, in leds_dirty or in write_queued.       *)
(***************************************************************************)
EXTENDS PSMoveLeds, FiniteSetTheorems, TLAPS

\* A field memcmp has found equal has changed since only if that is owed.
ComparedOrOwed ==
  wpc = "compare" => Owed \/ \A f \in Fields \ left : local[f] = leds[f]

LedsInv == TypeOK /\ ComparedOrOwed /\ NoUpdateForgotten

\* The writer's way out: either a wakeup ends it while the handle is in use,
\* or psmove_disconnect does with nothing queued.
ExitOnlyToClose ==
  /\ wpc = "exited" /\ ~stopped => apc \in {"closing", "closed"} /\ ~queued
  /\ stopped => wpc = "exited"
  /\ apc = "closed" => wpc = "exited"

-----------------------------------------------------------------------------
(* Every variable keeps its type.  (psmove.c: the handle's fields and the   *)
(* positions of the two threads in their procedures.)                       *)
THEOREM TypeCorrect == Spec => []TypeOK
<1>1. Init => TypeOK
  <2> SUFFICES ASSUME Init PROVE TypeOK
    OBVIOUS
  <2>1. leds \in Reports /\ target \in Reports
    BY LedsAssumption DEF LedsAssumption, Init, Reports
  <2>2. local \in [Fields -> Values \cup {Garbage}]
    BY DEF Init
  <2>3. elapsed \in 0 .. MaxInhibit
    BY LedsAssumption DEF LedsAssumption, Init
  <2>4. window \in [Fields -> SUBSET Values]
    BY LedsAssumption DEF LedsAssumption, Init
  <2>5. QED
    BY <2>1, <2>2, <2>3, <2>4 DEF Init, TypeOK
<1>2. TypeOK /\ [Next]_vars => TypeOK'
  <2> SUFFICES ASSUME TypeOK, [Next]_vars
               PROVE  TypeOK'
    OBVIOUS
  <2> USE LedsAssumption DEF LedsAssumption, TypeOK, vars, appVars, writerVars
  <2>1. ASSUME NEW v, NEW next \in {"idle", "update"}, NEW S \in SUBSET Fields,
               v \in [S -> Values], BeginStore(v, next)
        PROVE  TypeOK'
    <3>1. pending' \subseteq Fields
      BY <2>1 DEF BeginStore, Changed
    <3>2. target' \in Reports
      BY <2>1 DEF BeginStore, Reports
    <3>3. QED
      BY <2>1, <3>1, <3>2 DEF BeginStore
  <2>2. CASE SetLeds
    BY <2>1, <2>2 DEF SetLeds, Fields
  <2>3. CASE SetRumble
    BY <2>1, <2>3 DEF SetRumble, Fields
  <2>4. CASE WriteData
    BY <2>1, <2>4 DEF WriteData, Reports
  <2>5. ASSUME NEW f \in Fields, StoreField(f)
        PROVE  TypeOK'
    <3>1. leds' \in Reports
      BY <2>5 DEF StoreField, Reports
    <3>2. pending' \subseteq Fields
      BY <2>5 DEF StoreField
    <3>3. window' \in [Fields -> SUBSET Values]
      <4>1. target[f] \in Values
        BY DEF Reports
      <4>2. QED
        BY <2>5, <4>1 DEF StoreField
    <3>4. QED
      BY <2>5, <3>1, <3>2, <3>3 DEF StoreField
  <2>6. CASE MarkDirty
    BY <2>6 DEF MarkDirty
  <2>7. ASSUME NEW enabled \in {"on", "off"}, SetRateLimiting(enabled)
        PROVE  TypeOK'
    BY <2>7 DEF SetRateLimiting
  <2>8. CASE UpdateIgnored \/ Disconnect \/ JoinDone
    BY <2>8 DEF UpdateIgnored, Disconnect, JoinDone
  <2>9. CASE UpdateAccepted
    <3>1. elapsed' \in 0 .. MaxInhibit
      BY <2>9 DEF UpdateAccepted
    <3>2. QED
      BY <2>9, <3>1 DEF UpdateAccepted
  <2>10. CASE UpdateQueued
    BY <2>10 DEF UpdateQueued, Signal
  <2>11. CASE JoinBusy
    BY <2>11 DEF JoinBusy, Signal
  <2>12. CASE EnterWait \/ SpuriousWakeup \/ CompareDone
    BY <2>12 DEF EnterWait, SpuriousWakeup, CompareDone
  <2>20. CASE WakeToExit
    <3>1. stopped' \in BOOLEAN
      <4>1. stopped' = (apc # "closing")
        BY <2>20, Zenon DEF WakeToExit
      <4>2. QED
        BY <4>1, Zenon
    <3>2. QED
      BY <2>20, <3>1 DEF WakeToExit
  <2>13. CASE WakeToWrite
    BY <2>13 DEF WakeToWrite
  <2>14. ASSUME NEW f \in Fields, CopyField(f)
         PROVE  TypeOK'
    BY <2>14 DEF CopyField, Reports
  <2>15. CASE ClearQueued
    BY <2>15 DEF ClearQueued
  <2>16. ASSUME NEW ok \in BOOLEAN, HidWrite(ok)
         PROVE  TypeOK'
    <3>1. window' \in [Fields -> SUBSET Values]
      BY <2>16 DEF HidWrite, Reports
    <3>2. QED
      BY <2>16, <3>1 DEF HidWrite
  <2>17. ASSUME NEW f \in Fields, CompareField(f)
         PROVE  TypeOK'
    BY <2>17 DEF CompareField
  <2>18. CASE Tick
    BY <2>18 DEF Tick
  <2>19. CASE UNCHANGED vars
    BY <2>19
  <2>21. QED
    BY <2>2, <2>3, <2>4, <2>5, <2>6, <2>7, <2>8, <2>9, <2>10, <2>11, <2>12,
       <2>13, <2>14, <2>15, <2>16, <2>17, <2>18, <2>19, <2>20
    DEF Next, Application, Writer
<1>3. QED
  BY <1>1, <1>2, PTL DEF Spec

-----------------------------------------------------------------------------
(* The steps of the application thread leave the writer's conclusions true: *)
(* what they change they record as owed.                                    *)
LEMMA ApplicationKeepsOwed ==
  ASSUME LedsInv, Application
  PROVE  ComparedOrOwed' /\ NoUpdateForgotten'
<1> USE DEF LedsInv, ComparedOrOwed, NoUpdateForgotten, Owed, appVars, writerVars
<1>1. ASSUME NEW v, NEW next, BeginStore(v, next)
      PROVE  ComparedOrOwed' /\ NoUpdateForgotten'
  BY <1>1 DEF BeginStore
<1>2. CASE SetLeds \/ SetRumble
  BY <1>1, <1>2 DEF SetLeds, SetRumble
<1>3. CASE WriteData
  BY <1>1, <1>3 DEF WriteData
<1>4. ASSUME NEW f \in Fields, StoreField(f)
      PROVE  ComparedOrOwed' /\ NoUpdateForgotten'
  BY <1>4 DEF StoreField
<1>5. CASE MarkDirty
  BY <1>5 DEF MarkDirty
<1>6. ASSUME NEW enabled, SetRateLimiting(enabled)
      PROVE  ComparedOrOwed' /\ NoUpdateForgotten'
  BY <1>6 DEF SetRateLimiting
<1>7. CASE UpdateIgnored \/ Disconnect \/ JoinDone
  BY <1>7 DEF UpdateIgnored, Disconnect, JoinDone
<1>8. CASE UpdateAccepted
  BY <1>8 DEF UpdateAccepted
<1>9. CASE UpdateQueued
  BY <1>9 DEF UpdateQueued
<1>10. CASE JoinBusy
  BY <1>10 DEF JoinBusy, Signal
<1>11. QED
  BY <1>2, <1>3, <1>4, <1>5, <1>6, <1>7, <1>8, <1>9, <1>10 DEF Application

(* The writer comes to rest only through memcmp, which either finds every   *)
(* field equal or sends it back to copying.                                 *)
LEMMA WriterKeepsOwed ==
  ASSUME LedsInv, Writer \/ SpuriousWakeup \/ Tick
  PROVE  ComparedOrOwed' /\ NoUpdateForgotten'
<1> USE DEF LedsInv, ComparedOrOwed, NoUpdateForgotten, Owed, appVars, writerVars
<1>1. CASE EnterWait \/ SpuriousWakeup \/ WakeToExit \/ Tick
  BY <1>1 DEF EnterWait, SpuriousWakeup, WakeToExit, Tick
<1>2. CASE WakeToWrite
  BY <1>2 DEF WakeToWrite
<1>3. ASSUME NEW f \in Fields, CopyField(f)
      PROVE  ComparedOrOwed' /\ NoUpdateForgotten'
  BY <1>3 DEF CopyField
<1>4. CASE ClearQueued
  BY <1>4 DEF ClearQueued
<1>5. ASSUME NEW ok, HidWrite(ok)
      PROVE  ComparedOrOwed' /\ NoUpdateForgotten'
  BY <1>5 DEF HidWrite
<1>6. ASSUME NEW f \in Fields, CompareField(f)
      PROVE  ComparedOrOwed' /\ NoUpdateForgotten'
  BY <1>6 DEF CompareField
<1>7. CASE CompareDone
  <2>1. Owed \/ local = leds
    <3> SUFFICES ASSUME ~Owed PROVE local = leds
      OBVIOUS
    <3>1. \A f \in Fields : local[f] = leds[f]
      BY <1>7 DEF CompareDone
    <3>2. QED
      BY <3>1 DEF TypeOK, Reports
  <2>2. QED
    BY <1>7, <2>1 DEF CompareDone
<1>8. QED
  BY <1>1, <1>2, <1>3, <1>4, <1>5, <1>6, <1>7 DEF Writer

(* The inductive invariant.                                                 *)
LEMMA LedsInvariance == Spec => []LedsInv
<1>1. Init => ComparedOrOwed /\ NoUpdateForgotten
  BY DEF Init, ComparedOrOwed, NoUpdateForgotten
<1>2. LedsInv /\ [Next]_vars => ComparedOrOwed' /\ NoUpdateForgotten'
  <2>1. CASE UNCHANGED vars
    BY <2>1 DEF LedsInv, ComparedOrOwed, NoUpdateForgotten, Owed,
                vars, appVars, writerVars
  <2>2. QED
    BY <2>1, ApplicationKeepsOwed, WriterKeepsOwed DEF Next
<1>3. QED
  BY <1>1, <1>2, TypeCorrect, PTL DEF Spec, LedsInv

(* No update is forgotten, whatever the reports and however the two threads *)
(* interleave: psmove_update_leds against _psmove_led_write_thread_proc.     *)
THEOREM NothingForgotten == Spec => []NoUpdateForgotten
BY LedsInvariance, PTL DEF LedsInv

-----------------------------------------------------------------------------
(* What the writer has copied of a report is not older than its last write. *)
CopiedSince ==
  /\ \A f \in Fields : leds[f] \in window[f]
  /\ wpc = "copy" => \A f \in Fields \ left : local[f] \in window[f]
  /\ FreshReports

LEMMA CopiedSinceStep ==
  ASSUME TypeOK, CopiedSince, [Next]_vars
  PROVE  CopiedSince'
<1> USE DEF TypeOK, CopiedSince, FreshReports, appVars, writerVars
<1>1. ASSUME NEW v, NEW next, BeginStore(v, next)
      PROVE  CopiedSince'
  BY <1>1 DEF BeginStore
<1>2. CASE SetLeds \/ SetRumble \/ WriteData
  BY <1>1, <1>2 DEF SetLeds, SetRumble, WriteData
<1>3. ASSUME NEW f \in Fields, StoreField(f)
      PROVE  CopiedSince'
  <2>1. \A g \in Fields : leds'[g] \in window'[g] /\ window[g] \subseteq window'[g]
    BY <1>3 DEF StoreField, Reports
  <2>2. UNCHANGED <<wpc, local, left>>
    BY <1>3 DEF StoreField
  <2>3. QED
    BY <2>1, <2>2
<1>4. CASE MarkDirty \/ UpdateIgnored \/ UpdateAccepted \/ Disconnect \/ JoinDone
  BY <1>4 DEF MarkDirty, UpdateIgnored, UpdateAccepted, Disconnect, JoinDone
<1>5. ASSUME NEW enabled, SetRateLimiting(enabled)
      PROVE  CopiedSince'
  BY <1>5 DEF SetRateLimiting
<1>6. CASE UpdateQueued \/ JoinBusy
  BY <1>6 DEF UpdateQueued, JoinBusy, Signal
<1>7. CASE EnterWait \/ SpuriousWakeup \/ WakeToExit \/ CompareDone \/ Tick
  BY <1>7 DEF EnterWait, SpuriousWakeup, WakeToExit, CompareDone, Tick
<1>8. CASE WakeToWrite
  BY <1>8 DEF WakeToWrite
<1>9. ASSUME NEW f \in Fields, CopyField(f)
      PROVE  CopiedSince'
  BY <1>9 DEF CopyField
<1>10. CASE ClearQueued
  BY <1>10 DEF ClearQueued
<1>11. ASSUME NEW ok, HidWrite(ok)
       PROVE  CopiedSince'
  BY <1>11 DEF HidWrite
<1>12. ASSUME NEW f \in Fields, CompareField(f)
       PROVE  CopiedSince'
  BY <1>12 DEF CompareField
<1>13. CASE UNCHANGED vars
  BY <1>13 DEF vars
<1>14. QED
  BY <1>2, <1>3, <1>4, <1>5, <1>6, <1>7, <1>8, <1>9, <1>10, <1>11, <1>12, <1>13
  DEF Next, Application, Writer

(* Writes do not go back in time, however the copies are torn: the copy is  *)
(* taken anew before every hid_write.                                       *)
THEOREM WritesAreFresh == Spec => []FreshReports
<1>1. Init => CopiedSince
  BY DEF Init, CopiedSince, FreshReports
<1>2. TypeOK /\ CopiedSince /\ [Next]_vars => CopiedSince'
  BY CopiedSinceStep
<1>3. QED
  BY <1>1, <1>2, TypeCorrect, PTL DEF Spec, CopiedSince

-----------------------------------------------------------------------------
(* The writer leaves its loop either too early, from which on `stopped'     *)
(* holds, or for psmove_disconnect and with nothing queued.                 *)
LEMMA WriterExit == Spec => []ExitOnlyToClose
<1>1. Init => ExitOnlyToClose
  BY DEF Init, ExitOnlyToClose
<1>2. TypeOK /\ ExitOnlyToClose /\ [Next]_vars => ExitOnlyToClose'
  <2> SUFFICES ASSUME TypeOK, ExitOnlyToClose, [Next]_vars
               PROVE  ExitOnlyToClose'
    OBVIOUS
  <2> USE DEF ExitOnlyToClose, vars, appVars, writerVars
  <2>1. ASSUME NEW v, NEW next, BeginStore(v, next)
        PROVE  ExitOnlyToClose'
    BY <2>1 DEF BeginStore
  <2>2. CASE SetLeds \/ SetRumble \/ WriteData
    BY <2>1, <2>2 DEF SetLeds, SetRumble, WriteData
  <2>3. ASSUME NEW f \in Fields, StoreField(f) \/ CopyField(f) \/ CompareField(f)
        PROVE  ExitOnlyToClose'
    BY <2>3 DEF StoreField, CopyField, CompareField
  <2>4. CASE MarkDirty
    BY <2>4 DEF MarkDirty, TypeOK
  <2>5. ASSUME NEW enabled, SetRateLimiting(enabled)
        PROVE  ExitOnlyToClose'
    BY <2>5 DEF SetRateLimiting
  <2>6. CASE UpdateIgnored \/ UpdateAccepted
    BY <2>6 DEF UpdateIgnored, UpdateAccepted
  <2>7. CASE UpdateQueued
    BY <2>7 DEF UpdateQueued, Signal
  <2>8. CASE Disconnect \/ JoinBusy \/ JoinDone
    BY <2>8 DEF Disconnect, JoinBusy, JoinDone, Signal
  <2>9. CASE EnterWait \/ SpuriousWakeup \/ WakeToWrite
    BY <2>9 DEF EnterWait, SpuriousWakeup, WakeToWrite
  <2>14. CASE WakeToExit
    <3>1. apc # "closing" => stopped'
      BY <2>14, Zenon DEF WakeToExit
    <3>2. apc # "closed" /\ ~stopped
      BY <2>14 DEF WakeToExit
    <3>3. apc' = apc /\ wpc' = "exited" /\ ~queued'
      BY <2>14 DEF WakeToExit
    <3>4. QED
      BY <3>1, <3>2, <3>3
  <2>10. CASE ClearQueued \/ CompareDone \/ Tick
    BY <2>10 DEF ClearQueued, CompareDone, Tick
  <2>11. ASSUME NEW ok, HidWrite(ok)
         PROVE  ExitOnlyToClose'
    BY <2>11 DEF HidWrite
  <2>12. CASE UNCHANGED vars
    BY <2>12
  <2>13. QED
    BY <2>2, <2>3, <2>4, <2>5, <2>6, <2>7, <2>8, <2>9, <2>10, <2>11, <2>12,
       <2>14
    DEF Next, Application, Writer
<1>3. QED
  BY <1>1, <1>2, TypeCorrect, PTL DEF Spec

(* psmove_disconnect flushes every accepted update, unless a spurious       *)
(* wakeup has ended the writer before.                                      *)
THEOREM DisconnectFlushes == Spec => []FlushedAtClose
<1>1. LedsInv /\ ExitOnlyToClose => FlushedAtClose
  BY DEF LedsInv, NoUpdateForgotten, ExitOnlyToClose, FlushedAtClose, Owed
<1>2. QED
  BY <1>1, LedsInvariance, WriterExit, PTL

-----------------------------------------------------------------------------
(* The two threads implement the write-behind cache: a store is a Change, an *)
(* accepted update a Commit, a step of memcpy a Show, the early end of the   *)
(* writer a Stop, the join a Close, and every other step of the code is      *)
(* invisible to the caller.                                                  *)
THEOREM LedsRefinement == Spec => ImplementsWriteBehind
<1> USE DEF WB!Init, WB!Next, WB!vars, WB!Change, WB!Commit, WB!Show, WB!Stop,
            WB!Close
<1>1. Init => WB!Init
  <2> SUFFICES ASSUME Init PROVE WB!Init
    OBVIOUS
  <2>1. leds \in Reports
    BY LedsAssumption DEF LedsAssumption, Init, Reports
  <2>2. local \in [Fields -> Values \cup {Garbage}]
    BY DEF Init
  <2>3. QED
    BY <2>1, <2>2 DEF Init
<1>2. LedsInv /\ LedsInv' /\ ExitOnlyToClose /\ [Next]_vars => [WB!Next]_(WB!vars)
  <2> SUFFICES ASSUME LedsInv, LedsInv', ExitOnlyToClose, [Next]_vars
               PROVE  [WB!Next]_(WB!vars)
    OBVIOUS
  <2> USE DEF vars, appVars, writerVars
  <2>1. ASSUME NEW v, NEW next, BeginStore(v, next)
        PROVE  [WB!Next]_(WB!vars)
    BY <2>1 DEF BeginStore, LedsInv, TypeOK
  <2>2. CASE SetLeds \/ SetRumble
    BY <2>1, <2>2 DEF SetLeds, SetRumble
  <2>3. CASE WriteData
    <3>1. CASE \E v \in Reports : BeginStore(v, "update")
      BY <2>1, <3>1
    <3>2. CASE ~\E v \in Reports : BeginStore(v, "update")
      <4>1. apc = "idle" /\ apc' = "update" 
              /\ UNCHANGED <<leds, dirty, accepted, local, stopped>>
        BY <2>3, <3>2 DEF WriteData
      <4>2. QED
        BY <4>1
    <3>3. QED
      BY <3>1, <3>2
  <2>4. ASSUME NEW f \in Fields, StoreField(f)
        PROVE  [WB!Next]_(WB!vars)
    BY <2>4 DEF StoreField, LedsInv, TypeOK
  <2>5. CASE MarkDirty
    <3>1. (dirty \/ apc = "store") = TRUE /\ (dirty \/ apc = "store")' = TRUE
      BY <2>5 DEF MarkDirty
    <3>2. apc # "closed" /\ apc' # "closed"
      BY <2>5 DEF MarkDirty, LedsInv, TypeOK
    <3>3. QED
      BY <2>5, <3>1, <3>2 DEF MarkDirty
  <2>6. ASSUME NEW enabled, SetRateLimiting(enabled)
        PROVE  [WB!Next]_(WB!vars)
    BY <2>6 DEF SetRateLimiting
  <2>7. CASE UpdateIgnored \/ UpdateQueued \/ Disconnect \/ JoinBusy
    BY <2>7 DEF UpdateIgnored, UpdateQueued, Disconnect, JoinBusy
  <2>8. CASE UpdateAccepted
    BY <2>8 DEF UpdateAccepted
  <2>9. CASE JoinDone
    <3>1. accepted /\ ~dirty /\ ~stopped => local = leds
      BY <2>9 DEF JoinDone, LedsInv, NoUpdateForgotten, Owed, ExitOnlyToClose
    <3>2. QED
      BY <2>9, <3>1 DEF JoinDone
  <2>10. CASE EnterWait \/ SpuriousWakeup \/ WakeToWrite
    BY <2>10 DEF EnterWait, SpuriousWakeup, WakeToWrite
  <2>17. CASE WakeToExit
    <3>1. stopped = FALSE /\ apc # "closed"
      BY <2>17 DEF WakeToExit, ExitOnlyToClose, LedsInv, TypeOK
    <3>2. stopped' = FALSE \/ stopped' = TRUE
      BY DEF LedsInv, TypeOK
    <3>3. UNCHANGED <<leds, dirty, accepted, local, apc>>
      BY <2>17 DEF WakeToExit
    <3>4. CASE stopped' = FALSE
      BY <3>1, <3>3, <3>4
    <3>5. CASE stopped' = TRUE
      BY <3>1, <3>3, <3>5
    <3>6. QED
      BY <3>2, <3>4, <3>5
  <2>11. ASSUME NEW f \in Fields, CopyField(f)
         PROVE  [WB!Next]_(WB!vars)
    BY <2>11 DEF CopyField, ExitOnlyToClose, LedsInv, TypeOK
  <2>12. ASSUME NEW f \in Fields, CompareField(f)
         PROVE  [WB!Next]_(WB!vars)
    BY <2>12 DEF CompareField
  <2>13. ASSUME NEW ok, HidWrite(ok)
         PROVE  [WB!Next]_(WB!vars)
    BY <2>13 DEF HidWrite
  <2>14. CASE ClearQueued \/ CompareDone \/ Tick
    BY <2>14 DEF ClearQueued, CompareDone, Tick
  <2>15. CASE UNCHANGED vars
    BY <2>15
  <2>16. QED
    BY <2>2, <2>3, <2>4, <2>5, <2>6, <2>7, <2>8, <2>9, <2>10, <2>11, <2>12,
       <2>13, <2>14, <2>15, <2>17
    DEF Next, Application, Writer
<1>3. QED
  BY <1>1, <1>2, LedsInvariance, WriterExit, PTL
  DEF Spec, ImplementsWriteBehind, WB!Spec

-----------------------------------------------------------------------------
(* The handle cannot be closing for ever.                                   *)

\* A copy that is already known to be torn, or overtaken: the writer will have
\* to go back and copy again.
Torn ==
  \/ wpc = "copy" /\ \E f \in Fields \ left : local[f] # leds[f]
  \/ wpc \in {"write", "compare"} /\ local # leds

Visits == Cardinality(left)
MaxVisits == Cardinality(Fields)
Round == 2 * MaxVisits + 7

\* How far the writer is from its exit, if it does not go back.
Place ==
  CASE wpc = "exited"  -> 0
    [] wpc = "woken"   -> 1
    [] wpc = "waiting" -> 2
    [] wpc = "enter"   -> 3
    [] wpc = "compare" -> 4 + Visits
    [] wpc = "write"   -> 5 + MaxVisits
    [] wpc = "copy"    -> 6 + MaxVisits + Visits

\* The steps before the writer has ended: one more round for a torn copy, and
\* one for an update that is queued and not just being copied.
StepsToExit ==
  Place + (IF Torn THEN Round ELSE 0)
        + (IF queued /\ wpc # "copy" THEN Round ELSE 0)

CloseBounded == StepsToExit \in 0 .. (3 * Round)
CloseShrinks ==
  apc = "closing" /\ apc' = "closing" /\ <<wpc, left>>' # <<wpc, left>>
    => StepsToExit' < StepsToExit

LEMMA VisitNumbers ==
  ASSUME TypeOK
  PROVE  /\ MaxVisits \in Nat /\ Visits \in 0 .. MaxVisits
         /\ IsFiniteSet(left) /\ left \subseteq Fields
         /\ Visits = 0 <=> left = {}
         /\ \A f \in left : Visits = Cardinality(left \ {f}) + 1
                            /\ Cardinality(left \ {f}) \in Nat
<1>1. IsFiniteSet(Fields) /\ left \subseteq Fields
  BY LedsAssumption DEF LedsAssumption, TypeOK
<1>2. IsFiniteSet(left) /\ Cardinality(left) <= Cardinality(Fields)
  BY <1>1, FS_Subset
<1>3. Cardinality(left) \in Nat /\ Cardinality(Fields) \in Nat
  BY <1>1, <1>2, FS_CardinalityType
<1>4. Cardinality(left) = 0 <=> left = {}
  BY <1>2, FS_EmptySet
<1>5. ASSUME NEW f \in left
      PROVE  /\ Cardinality(left) = Cardinality(left \ {f}) + 1
             /\ Cardinality(left \ {f}) \in Nat
  <2>1. /\ Cardinality(left \ {f}) = Cardinality(left) - 1
        /\ IsFiniteSet(left \ {f})
    BY <1>2, <1>5, FS_RemoveElement
  <2>2. Cardinality(left \ {f}) \in Nat
    BY <2>1, FS_CardinalityType
  <2> QED
    BY <1>3, <2>1, <2>2
<1> QED
  BY <1>1, <1>2, <1>3, <1>4, <1>5 DEF Visits, MaxVisits

LEMMA CloseNumbers == TypeOK => CloseBounded
<1> SUFFICES ASSUME TypeOK PROVE CloseBounded
  OBVIOUS
<1>1. MaxVisits \in Nat /\ Visits \in 0 .. MaxVisits
  BY VisitNumbers
<1>2. Place \in 0 .. (6 + 2 * MaxVisits)
  <2> HIDE DEF Visits, MaxVisits
  <2> QED
    BY <1>1 DEF Place, TypeOK
<1> DEFINE a == IF Torn THEN Round ELSE 0
           b == IF queued /\ wpc # "copy" THEN Round ELSE 0
<1>3. StepsToExit = Place + a + b
  BY DEF StepsToExit
<1>4. Round \in Nat /\ Place \in Nat /\ Place <= Round
      /\ a \in {0, Round} /\ b \in {0, Round}
  BY <1>1, <1>2 DEF Round
<1> HIDE DEF a, b, Round, Place
<1> QED
  BY <1>3, <1>4 DEF CloseBounded

LEMMA StepCloses == TypeOK /\ TypeOK' /\ [Next]_vars => [CloseShrinks]_vars
<1> SUFFICES ASSUME TypeOK, TypeOK', Next, apc = "closing", apc' = "closing",
                    <<wpc, left>>' # <<wpc, left>>
             PROVE  StepsToExit' < StepsToExit
  BY DEF CloseShrinks
<1> DEFINE N == MaxVisits
           t == IF Torn THEN Round ELSE 0
           q == IF queued /\ wpc # "copy" THEN Round ELSE 0
           tt == IF Torn' THEN Round ELSE 0
           qq == IF queued' /\ wpc' # "copy" THEN Round ELSE 0
<1> USE DEF appVars, writerVars
<1>1. /\ N \in Nat /\ Visits \in 0 .. N /\ Round = 2 * N + 7
      /\ Visits = 0 <=> left = {}
      /\ {t, q, tt, qq} \subseteq {0, Round}
  BY VisitNumbers DEF Round
<1>2. /\ StepsToExit = Place + t + q
      /\ StepsToExit' = Place' + tt + qq
  BY DEF StepsToExit, Round, MaxVisits
<1>3. left' = Fields => Visits' = N
  BY DEF Visits, MaxVisits
<1>4. UNCHANGED leds /\ (UNCHANGED queued \/ ClearQueued)
  BY DEF Next, Application, Writer, SetLeds, SetRumble, WriteData, BeginStore,
         StoreField, MarkDirty, SetRateLimiting, UpdateIgnored, UpdateAccepted,
         UpdateQueued, Disconnect, JoinBusy, JoinDone, EnterWait, WakeToWrite,
         WakeToExit, CopyField, ClearQueued, HidWrite, CompareField,
         CompareDone, SpuriousWakeup, Tick
<1> HIDE DEF N
<1>5. CASE JoinBusy \/ SpuriousWakeup \/ EnterWait
  <2>1. /\ UNCHANGED <<leds, queued, local, left>>
        /\ \/ wpc = "waiting" /\ wpc' = "woken"
           \/ wpc = "enter" /\ wpc' = "waiting"
    BY <1>5 DEF JoinBusy, SpuriousWakeup, EnterWait, Signal
  <2>2. t = 0 /\ tt = 0 /\ qq = q
    BY <2>1 DEF Torn
  <2>3. Place' < Place /\ Place \in Nat /\ Place' \in Nat
    BY <2>1 DEF Place
  <2> HIDE DEF t, q, tt, qq
  <2> QED
    BY <1>1, <1>2, <2>2, <2>3
<1>6. CASE WakeToWrite
  <2>1. /\ wpc = "woken" /\ wpc' = "copy" /\ queued /\ queued' /\ left' = Fields
    BY <1>6 DEF WakeToWrite
  <2>2. t = 0 /\ tt = 0 /\ q = Round /\ qq = 0
    BY <2>1 DEF Torn
  <2>3. Place = 1 /\ Place' = 6 + N + N
    BY <1>3, <2>1 DEF Place, N, MaxVisits
  <2> HIDE DEF t, q, tt, qq
  <2> QED
    BY <1>1, <1>2, <2>2, <2>3
<1>7. CASE WakeToExit
  <2>1. wpc = "woken" /\ wpc' = "exited" /\ UNCHANGED queued
    BY <1>7 DEF WakeToExit
  <2>2. t = 0 /\ tt = 0 /\ qq = q
    BY <2>1 DEF Torn
  <2>3. Place = 1 /\ Place' = 0
    BY <2>1 DEF Place
  <2> HIDE DEF t, q, tt, qq
  <2> QED
    BY <1>1, <1>2, <2>2, <2>3
<1>8. ASSUME NEW f \in Fields, CopyField(f)
      PROVE  StepsToExit' < StepsToExit
  <2>1. /\ wpc = "copy" /\ wpc' = "copy" /\ f \in left
        /\ local' = [local EXCEPT ![f] = leds[f]] /\ left' = left \ {f}
        /\ UNCHANGED <<leds, queued>>
    BY <1>8 DEF CopyField
  <2>2. q = 0 /\ qq = 0
    BY <2>1
  <2>3. Torn' => Torn
    BY <2>1 DEF Torn, TypeOK
  <2>4. Visits = Visits' + 1 /\ Visits' \in Nat
    BY <2>1, VisitNumbers DEF Visits
  <2>5. Place = 6 + N + Visits /\ Place' = 6 + N + Visits'
    BY <2>1 DEF Place, N, MaxVisits
  <2>6. tt <= t
    BY <1>1, <2>3
  <2> HIDE DEF t, q, tt, qq
  <2> QED
    BY <1>1, <1>2, <2>2, <2>4, <2>5, <2>6
<1>9. CASE ClearQueued
  <2>1. /\ wpc = "copy" /\ wpc' = "write" /\ left = {} /\ ~queued'
        /\ UNCHANGED <<leds, local>>
    BY <1>9 DEF ClearQueued
  <2>2. q = 0 /\ qq = 0
    BY <2>1
  <2>3. Torn' => Torn
    <3>1. local # leds => \E f \in Fields : local[f] # leds[f]
      BY DEF TypeOK, Reports
    <3> QED
      BY <2>1, <3>1 DEF Torn
  <2>4. Place = 6 + N /\ Place' = 5 + N
    BY <1>1, <2>1 DEF Place, N, MaxVisits
  <2>5. tt <= t
    BY <1>1, <2>3
  <2> HIDE DEF t, q, tt, qq
  <2> QED
    BY <1>1, <1>2, <2>2, <2>4, <2>5
<1>10. ASSUME NEW ok \in BOOLEAN, HidWrite(ok)
       PROVE  StepsToExit' < StepsToExit
  <2>1. /\ wpc = "write" /\ wpc' = "compare" /\ left' = Fields
        /\ UNCHANGED <<leds, local, queued>>
    BY <1>10 DEF HidWrite
  <2>2. qq = q /\ tt = t
    BY <2>1 DEF Torn
  <2>3. Place = 5 + N /\ Place' = 4 + N
    BY <1>3, <2>1 DEF Place, N, MaxVisits
  <2> HIDE DEF t, q, tt, qq
  <2> QED
    BY <1>1, <1>2, <2>2, <2>3
<1>11. ASSUME NEW f \in Fields, CompareField(f), leds[f] = local[f]
       PROVE  StepsToExit' < StepsToExit
  <2>1. /\ wpc = "compare" /\ wpc' = "compare" /\ f \in left
        /\ left' = left \ {f} /\ UNCHANGED <<leds, local, queued>>
    BY <1>11 DEF CompareField
  <2>2. qq = q /\ tt = t
    BY <2>1 DEF Torn
  <2>3. Visits = Visits' + 1 /\ Visits' \in Nat
    BY <2>1, VisitNumbers DEF Visits
  <2>4. Place = 4 + Visits /\ Place' = 4 + Visits'
    BY <2>1 DEF Place
  <2> HIDE DEF t, q, tt, qq
  <2> QED
    BY <1>1, <1>2, <2>2, <2>3, <2>4
<1>12. ASSUME NEW f \in Fields, CompareField(f), leds[f] # local[f]
       PROVE  StepsToExit' < StepsToExit
  <2>1. /\ wpc = "compare" /\ wpc' = "copy" /\ left' = Fields
        /\ UNCHANGED <<leds, local, queued>>
    BY <1>12 DEF CompareField
  <2>2. t = Round /\ tt = 0 /\ qq = 0
    BY <1>12, <2>1 DEF Torn
  <2>3. Place = 4 + Visits /\ Place' = 6 + N + N
    BY <1>3, <2>1 DEF Place, N, MaxVisits
  <2> HIDE DEF t, q, tt, qq
  <2> QED
    BY <1>1, <1>2, <2>2, <2>3
<1>13. CASE CompareDone
  <2>1. /\ wpc = "compare" /\ wpc' = "enter" /\ left = {}
        /\ UNCHANGED <<leds, local, queued>>
    BY <1>13 DEF CompareDone
  <2>2. tt = 0 /\ qq = q
    BY <2>1 DEF Torn
  <2>3. Place = 4 /\ Place' = 3
    BY <1>1, <2>1 DEF Place
  <2> HIDE DEF t, q, tt, qq
  <2> QED
    BY <1>1, <1>2, <2>2, <2>3
<1>14. CASE Application /\ ~JoinBusy
  BY <1>14 DEF Application, SetLeds, SetRumble, WriteData, BeginStore,
         StoreField, MarkDirty, SetRateLimiting, UpdateIgnored, UpdateAccepted,
         UpdateQueued, Disconnect, JoinDone
<1>15. CASE Tick
  BY <1>15 DEF Tick
<1> QED
  BY <1>5, <1>6, <1>7, <1>8, <1>9, <1>10, <1>11, <1>12, <1>13, <1>14, <1>15
  DEF Next, Writer

\* psmove_disconnect gets the writer out in a number of steps that depends on
\* the size of the report only: while the handle is closing, every step of the
\* writer, and every signal that wakes it, leaves it fewer to make, although
\* a torn copy sends it back and a queued update makes it write once more.
THEOREM CloseIsBounded == Spec => []CloseBounded /\ [][CloseShrinks]_vars
BY TypeCorrect, CloseNumbers, StepCloses, PTL DEF Spec
=============================================================================
