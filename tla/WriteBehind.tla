---------------------------- MODULE WriteBehind ----------------------------
(***************************************************************************)
(* What the LED path of a controller handle promises its caller: it is a   *)
(* one-entry write-behind cache.  The caller changes the wanted report and *)
(* commits it; the device is shown reports behind the caller's back; and   *)
(* the handle closes only when a committed report has been shown; unless   *)
(* the device has stopped, from where on it is shown nothing any more.     *)
(***************************************************************************)
CONSTANTS
  Reports,  \* the reports a caller can want
  Shown     \* what can be shown: torn copies of reports, or nothing yet

VARIABLES
  wanted,       \* the report the caller wants
  uncommitted,  \* it may have changed since the last commit
  used,         \* the caller has committed at least once
  shown,        \* what the device was shown last
  open,         \* the handle is open
  stopped       \* nothing is shown any more

vars == <<wanted, uncommitted, used, shown, open, stopped>>

Init ==
  /\ wanted \in Reports
  /\ uncommitted = FALSE
  /\ used = FALSE
  /\ shown \in Shown
  /\ open = TRUE
  /\ stopped = FALSE

Change ==
  /\ open
  /\ wanted' \in Reports
  /\ uncommitted' = TRUE
  /\ UNCHANGED <<used, shown, open, stopped>>

Commit ==
  /\ open
  /\ uncommitted' = FALSE
  /\ used' = TRUE
  /\ UNCHANGED <<wanted, shown, open, stopped>>

Show ==
  /\ open
  /\ ~stopped
  /\ shown' \in Shown
  /\ UNCHANGED <<wanted, uncommitted, used, open, stopped>>

Stop ==
  /\ open
  /\ stopped' = TRUE
  /\ UNCHANGED <<wanted, uncommitted, used, shown, open>>

\* Nothing committed is lost by closing.
Close ==
  /\ open
  /\ used /\ ~uncommitted /\ ~stopped => shown = wanted
  /\ open' = FALSE
  /\ UNCHANGED <<wanted, uncommitted, used, shown, stopped>>

Next == Change \/ Commit \/ Show \/ Stop \/ Close

Spec == Init /\ [][Next]_vars
=============================================================================
