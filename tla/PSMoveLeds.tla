----------------------------- MODULE PSMoveLeds -----------------------------
(***************************************************************************)
(* The LED and rumble output path of one local (hidapi) controller handle  *)
(* of the PS Move API, src/Lab5/src/psmove.c, in the Linux build           *)
(* (PSMOVE_USE_PTHREADS): the application thread that calls the library    *)
(* and the background thread that psmove_connect_internal starts for the   *)
(* handle, which copies the report and hands it to hid_write.              *)
(*                                                                         *)
(* The report `move->leds' is shared without a lock.  It is modelled field *)
(* by field: the stores of psmove_set_leds, the loads of memcpy and those  *)
(* of memcmp are single steps in any order, so a copy may be torn.  The    *)
(* mutex protects only `lock; queued = 1; signal; unlock' and `lock; wait; *)
(* unlock'; nothing else needs it, so each of them is one step.            *)
(***************************************************************************)
EXTENDS Naturals, FiniteSets

CONSTANTS
  ColorFields,      \* fields of the report psmove_set_leds assigns (r, g, b)
  RumbleFields,     \* fields of the report psmove_set_rumble assigns
  Values,           \* the byte values the fields are given
  Off,              \* the value calloc gives every field
  Garbage,          \* what the writer's stack copy holds before the first copy
  MinWait,          \* PSMOVE_MIN_LED_UPDATE_WAIT_MS, in ticks
  MaxInhibit        \* PSMOVE_MAX_LED_INHIBIT_MS, in ticks

Fields == ColorFields \cup RumbleFields
Reports == [Fields -> Values]

ASSUME LedsAssumption ==
  /\ IsFiniteSet(Fields)
  /\ Off \in Values
  /\ Garbage \notin Values
  /\ MinWait \in Nat
  /\ MaxInhibit \in Nat
  /\ MinWait < MaxInhibit

VARIABLES
  apc,       \* where the application thread is in the library
  target,    \* the report the call in progress is storing
  pending,   \* the fields it still has to store
  thenCall,  \* what follows the stores: "idle" or "update" (_psmove_write_data)
  leds,      \* move->leds
  dirty,     \* move->leds_dirty
  limiting,  \* move->leds_rate_limiting
  elapsed,   \* ticks since move->last_leds_update, saturating at MaxInhibit
  accepted,  \* history: psmove_update_leds has accepted an update
  queued,    \* move->led_write_thread_write_queued
  lastOk,    \* move->led_write_last_result = Update_Success
  wpc,       \* where the writer thread is
  local,     \* the writer's copy `leds' on its stack
  left,      \* the fields memcpy or memcmp has still to visit
  stopped,   \* history: the writer has ended before psmove_disconnect
  window     \* history: the values each field has had since the last hid_write

appVars == <<apc, target, pending, thenCall, dirty, limiting, elapsed, accepted>>
writerVars == <<lastOk, local, left, stopped>>
vars == <<appVars, leds, queued, wpc, writerVars, window>>

-----------------------------------------------------------------------------
(* psmove_connect_internal: a zeroed handle, the last update one inhibit    *)
(* period ago, the first write assumed to succeed, the writer just created. *)

\* Faulty variant: the last update lies an inhibit period ahead.
InitFuture ==
  /\ apc = "idle"
  /\ leds = [f \in Fields |-> Off]
  /\ target = leds
  /\ pending = {}
  /\ thenCall = "idle"
  /\ dirty = FALSE
  /\ limiting = "off"
  /\ elapsed = 0 - MaxInhibit
  /\ accepted = FALSE
  /\ queued = FALSE
  /\ lastOk = TRUE
  /\ wpc = "enter"
  /\ local = [f \in Fields |-> Garbage]
  /\ left = {}
  /\ stopped = FALSE
  /\ window = [f \in Fields |-> {Off}]

Init ==
  /\ apc = "idle"
  /\ leds = [f \in Fields |-> Off]
  /\ target = leds
  /\ pending = {}
  /\ thenCall = "idle"
  /\ dirty = FALSE
  /\ limiting = "off"
  /\ elapsed = MaxInhibit
  /\ accepted = FALSE
  /\ queued = FALSE
  /\ lastOk = TRUE
  /\ wpc = "enter"
  /\ local = [f \in Fields |-> Garbage]
  /\ left = {}
  /\ stopped = FALSE
  /\ window = [f \in Fields |-> {Off}]

-----------------------------------------------------------------------------
(* The application thread.                                                  *)

\* The fields of the report that the assignment v changes.  Storing a value
\* a field already has cannot be observed, so only these are stored.
Changed(v) == {f \in DOMAIN v : v[f] # leds[f]}

BeginStore(v, next) ==
  /\ apc = "idle"
  /\ Changed(v) # {}
  /\ apc' = "store"
  /\ target' = [f \in Fields |-> IF f \in DOMAIN v THEN v[f] ELSE leds[f]]
  /\ pending' = Changed(v)
  /\ thenCall' = next
  /\ UNCHANGED <<leds, dirty, limiting, elapsed, accepted, queued, wpc,
                 writerVars, window>>

\* psmove_set_leds and psmove_set_rumble return at once when nothing changes.
SetLeds == \E v \in [ColorFields -> Values] : BeginStore(v, "idle")
SetRumble == \E v \in [RumbleFields -> Values] : BeginStore(v, "idle")

\* _psmove_write_data, the moved daemon's way to set a whole report: store it
\* when it differs, and in any case go on to psmove_update_leds.
WriteData ==
  \/ \E v \in Reports : BeginStore(v, "update")
  \/ /\ apc = "idle"
     /\ apc' = "update"
     /\ UNCHANGED <<target, pending, thenCall, leds, dirty, limiting, elapsed,
                    accepted, queued, wpc, writerVars, window>>

StoreField(f) ==
  /\ apc = "store"
  /\ f \in pending
  /\ leds' = [leds EXCEPT ![f] = target[f]]
  /\ pending' = pending \ {f}
  /\ window' = [window EXCEPT ![f] = @ \cup {target[f]}]
  /\ UNCHANGED <<apc, target, thenCall, dirty, limiting, elapsed, accepted,
                 queued, wpc, writerVars>>

MarkDirty ==
  /\ apc = "store"
  /\ pending = {}
  /\ dirty' = TRUE
  /\ apc' = thenCall
  /\ thenCall' = "idle"
  /\ UNCHANGED <<target, pending, leds, limiting, elapsed, accepted, queued,
                 wpc, writerVars, window>>

SetRateLimiting(enabled) ==
  /\ apc = "idle"
  /\ limiting' = enabled
  /\ UNCHANGED <<apc, target, pending, thenCall, leds, dirty, elapsed,
                 accepted, queued, wpc, writerVars, window>>

\* The two early returns of psmove_update_leds.
TooManyUpdates == limiting = "on" /\ dirty /\ elapsed < MinWait
\* Faulty variant: an unchanged report is never sent again.
NothingToSendNoRefresh == ~dirty

NothingToSend == ~dirty /\ elapsed < MaxInhibit
Ignored == TooManyUpdates \/ NothingToSend

UpdateIgnored ==
  /\ apc \in {"idle", "update"}
  /\ Ignored
  /\ apc' = "idle"
  /\ UNCHANGED <<target, pending, thenCall, leds, dirty, limiting, elapsed,
                 accepted, queued, wpc, writerVars, window>>

UpdateAccepted ==
  /\ apc \in {"idle", "update"}
  /\ ~Ignored
  /\ apc' = "queue"
  /\ dirty' = FALSE
  /\ elapsed' = 0
  /\ accepted' = TRUE
  /\ UNCHANGED <<target, pending, thenCall, leds, limiting, queued, wpc,
                 writerVars, window>>

\* pthread_cond_signal: wakes the writer if it waits, and is lost otherwise.
Signal == wpc' = IF wpc = "waiting" THEN "woken" ELSE wpc

UpdateQueued ==
  /\ apc = "queue"
  /\ apc' = "idle"
  /\ queued' = TRUE
  /\ Signal
  /\ UNCHANGED <<target, pending, thenCall, leds, dirty, limiting, elapsed,
                 accepted, writerVars, window>>

\* psmove_disconnect: try to join the writer, signalling it while it runs.
Disconnect ==
  /\ apc = "idle"
  /\ apc' = "closing"
  /\ UNCHANGED <<target, pending, thenCall, leds, dirty, limiting, elapsed,
                 accepted, queued, wpc, writerVars, window>>

\* Faulty variant: the loop polls the writer without signalling it.
JoinBusySilent ==
  /\ apc = "closing"
  /\ wpc # "exited"
  /\ UNCHANGED vars

JoinBusy ==
  /\ apc = "closing"
  /\ wpc # "exited"
  /\ Signal
  /\ UNCHANGED <<appVars, leds, queued, writerVars, window>>

\* Faulty variant: the handle is torn down without joining the writer.
JoinDoneEarly ==
  /\ apc = "closing"
  /\ apc' = "closed"
  /\ UNCHANGED <<target, pending, thenCall, leds, dirty, limiting, elapsed,
                 accepted, queued, wpc, writerVars, window>>

JoinDone ==
  /\ apc = "closing"
  /\ wpc = "exited"
  /\ apc' = "closed"
  /\ UNCHANGED <<target, pending, thenCall, leds, dirty, limiting, elapsed,
                 accepted, queued, wpc, writerVars, window>>

Tick ==
  /\ elapsed < MaxInhibit
  /\ elapsed' = elapsed + 1
  /\ UNCHANGED <<apc, target, pending, thenCall, leds, dirty, limiting,
                 accepted, queued, wpc, writerVars, window>>

-----------------------------------------------------------------------------
(* The writer thread, _psmove_led_write_thread_proc.                        *)

EnterWait ==
  /\ wpc = "enter"
  /\ wpc' = "waiting"
  /\ UNCHANGED <<appVars, leds, queued, writerVars, window>>

\* pthread_cond_wait may return without a signal.
SpuriousWakeup ==
  /\ wpc = "waiting"
  /\ wpc' = "woken"
  /\ UNCHANGED <<appVars, leds, queued, writerVars, window>>

WakeToWrite ==
  /\ wpc = "woken"
  /\ queued
  /\ wpc' = "copy"
  /\ left' = Fields
  /\ UNCHANGED <<appVars, leds, queued, lastOk, local, stopped, window>>

\* Faulty variant: the writer leaves at the first wakeup of a closing handle
\* without looking at write_queued.
WakeToExitUnchecked ==
  /\ wpc = "woken"
  /\ ~queued \/ apc = "closing"
  /\ wpc' = "exited"
  /\ stopped' = (apc # "closing")
  /\ UNCHANGED <<appVars, leds, queued, lastOk, local, left, window>>

WakeToExit ==
  /\ wpc = "woken"
  /\ ~queued
  /\ wpc' = "exited"
  /\ stopped' = (apc # "closing")
  /\ UNCHANGED <<appVars, leds, queued, lastOk, local, left, window>>

CopyField(f) ==
  /\ wpc = "copy"
  /\ f \in left
  /\ local' = [local EXCEPT ![f] = leds[f]]
  /\ left' = left \ {f}
  /\ UNCHANGED <<appVars, leds, queued, wpc, lastOk, stopped, window>>

ClearQueued ==
  /\ wpc = "copy"
  /\ left = {}
  /\ queued' = FALSE
  /\ wpc' = "write"
  /\ UNCHANGED <<appVars, leds, writerVars, window>>

\* Faulty variant: after a write the writer waits without comparing.
HidWriteNoCompare(ok) ==
  /\ wpc = "write"
  /\ lastOk' = ok
  /\ wpc' = "enter"
  /\ left' = Fields
  /\ window' = [f \in Fields |-> {leds[f]}]
  /\ UNCHANGED <<appVars, leds, queued, local, stopped>>

HidWrite(ok) ==
  /\ wpc = "write"
  /\ lastOk' = ok
  /\ wpc' = "compare"
  /\ left' = Fields
  /\ window' = [f \in Fields |-> {leds[f]}]
  /\ UNCHANGED <<appVars, leds, queued, local, stopped>>

\* Faulty variant: memcpy stands before the loop and is not repeated.
CompareFieldNoRecopy(f) ==
  /\ wpc = "compare"
  /\ f \in left
  /\ \/ /\ leds[f] = local[f]
        /\ left' = left \ {f}
        /\ wpc' = wpc
     \/ /\ leds[f] # local[f]
        /\ left' = {}
        /\ wpc' = "copy"
  /\ UNCHANGED <<appVars, leds, queued, lastOk, local, stopped, window>>

CompareField(f) ==
  /\ wpc = "compare"
  /\ f \in left
  /\ \/ /\ leds[f] = local[f]
        /\ left' = left \ {f}
        /\ wpc' = wpc
     \/ /\ leds[f] # local[f]
        /\ left' = Fields
        /\ wpc' = "copy"
  /\ UNCHANGED <<appVars, leds, queued, lastOk, local, stopped, window>>

CompareDone ==
  /\ wpc = "compare"
  /\ left = {}
  /\ wpc' = "enter"
  /\ UNCHANGED <<appVars, leds, queued, writerVars, window>>

-----------------------------------------------------------------------------
Application ==
  \/ SetLeds
  \/ SetRumble
  \/ WriteData
  \/ \E f \in Fields : StoreField(f)
  \/ MarkDirty
  \/ \E enabled \in {"on", "off"} : SetRateLimiting(enabled)
  \/ UpdateIgnored
  \/ UpdateAccepted
  \/ UpdateQueued
  \/ Disconnect
  \/ JoinBusy
  \/ JoinDone

Writer ==
  \/ EnterWait
  \/ WakeToWrite
  \/ WakeToExit
  \/ \E f \in Fields : CopyField(f)
  \/ ClearQueued
  \/ \E ok \in BOOLEAN : HidWrite(ok)
  \/ \E f \in Fields : CompareField(f)
  \/ CompareDone

Next == Application \/ Writer \/ SpuriousWakeup \/ Tick

Spec == Init /\ [][Next]_vars

(* Fairness.  A library call that has begun goes on: it only blocks on a    *)
(* mutex that is never held for long.  The writer is scheduled and hid_write *)
(* returns.  Neither says that the application ever calls the library again. *)
CallsFinish ==
  /\ \A f \in Fields : WF_vars(StoreField(f))
  /\ WF_vars(MarkDirty)
  /\ WF_vars(UpdateQueued)
  /\ WF_vars(apc = "update" /\ (UpdateIgnored \/ UpdateAccepted))
  /\ WF_vars(JoinBusy)
  /\ WF_vars(JoinDone)

WriterRuns == WF_vars(Writer)

(* psmove.h asks the application to call psmove_update_leds regularly.      *)
UpdatesRegularly == WF_vars(UpdateAccepted) /\ WF_vars(Tick)

(* The radio link is not down for good.                                     *)
LinkRecovers == SF_vars(HidWrite(TRUE))

FairSpec == Spec /\ CallsFinish /\ WriterRuns /\ UpdatesRegularly

-----------------------------------------------------------------------------
(* Properties.                                                              *)

TypeOK ==
  /\ apc \in {"idle", "store", "update", "queue", "closing", "closed"}
  /\ target \in Reports
  /\ pending \subseteq Fields
  /\ thenCall \in {"idle", "update"}
  /\ leds \in Reports
  /\ dirty \in BOOLEAN
  /\ limiting \in {"on", "off"}
  /\ elapsed \in 0 .. MaxInhibit
  /\ accepted \in BOOLEAN
  /\ queued \in BOOLEAN
  /\ lastOk \in BOOLEAN
  /\ wpc \in {"enter", "waiting", "woken", "copy", "write", "compare", "exited"}
  /\ local \in [Fields -> Values \cup {Garbage}]
  /\ left \subseteq Fields
  /\ stopped \in BOOLEAN
  /\ window \in [Fields -> SUBSET Values]

\* Somebody is still going to cause another write of the report.
Owed == apc \in {"store", "queue"} \/ dirty \/ queued

\* No update is forgotten: whenever the writer is between two writes, either
\* the report it wrote last is the current one, or the difference is still
\* recorded somewhere (a call in progress, leds_dirty, write_queued).  The
\* write_queued flag is cleared outside the mutex, after a copy that may be
\* torn; what saves the update is the memcmp that follows hid_write.
NoUpdateForgotten ==
  wpc \in {"enter", "waiting", "woken", "exited"} /\ accepted
    => local = leds \/ Owed

\* Writes do not go back in time: every field of a report handed to
\* hid_write is a value the field has had since the previous hid_write, so
\* a report overtaken by another one is never sent after it.
FreshReports == wpc = "write" => \A f \in Fields : local[f] \in window[f]

\* psmove_disconnect flushes: once it has joined the writer, an update that
\* was accepted has been handed to hid_write, although the join loop does no
\* more than signal the thread; unless a spurious wakeup has ended the thread
\* before.  The daemon's "pair, set green, update, disconnect" (moved.c)
\* relies on it.
FlushedAtClose ==
  apc = "closed" /\ accepted /\ ~dirty /\ ~stopped
    => wpc = "exited" /\ local = leds

\* The two threads together implement the write-behind cache: no step of the
\* writer changes what the caller wants, nothing is shown through a closed
\* handle or after the writer has ended, and the handle closes only when every
\* accepted update was written.
WB == INSTANCE WriteBehind WITH
  Reports <- Reports,
  Shown <- [Fields -> Values \cup {Garbage}],
  wanted <- leds,
  uncommitted <- (dirty \/ apc = "store"),
  used <- accepted,
  shown <- local,
  open <- (apc # "closed"),
  stopped <- stopped

ImplementsWriteBehind == WB!Spec

\* psmove_disconnect terminates: its loop of signals gets the writer out of
\* its wait, through a last write if one is queued.
DisconnectTerminates == apc = "closing" ~> apc = "closed"

\* The controller catches up: if the application keeps calling
\* psmove_update_leds, then unless it goes on changing the report for ever
\* the report last written is the current one, in spite of lost wakeups.
CatchesUp ==
  []<>(\/ local = leds
       \/ ~accepted \/ stopped
       \/ apc = "store"
       \/ apc = "closed" /\ dirty)

\* The same with failing writes: a failed hid_write is not retried by the
\* writer, but the periodic refresh repeats it, so on an open handle the
\* current report is in the end written successfully if the link recovers.
\* Only a writer that a spurious wakeup has ended is excused.
CatchesUpAfterFailure ==
  LinkRecovers =>
  []<>(\/ local = leds /\ lastOk
       \/ ~accepted \/ stopped
       \/ apc \in {"store", "closing", "closed"})

\* psmove.h: psmove_update_leds returns "Update_Success on success".  Where
\* it returns Update_Success there is a writer left to send the update.
SuccessMeansWriter ==
  [][apc = "queue" /\ apc' # apc /\ lastOk => wpc # "exited"]_vars
=============================================================================
