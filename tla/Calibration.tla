---------------------------- MODULE Calibration ----------------------------
(***************************************************************************)
(* The calibration of a controller,                                        *)
(* src/Lab5/src/psmove_calibration.c.  Each handle that a process opens    *)
(* loads the calibration from a file named after the controller; over USB  *)
(* it is read from the controller, in three blocks, when there is no file  *)
(* that can be used, and saved for the handles to come.  Several processes *)
(* (the daemons of moved and psmovepair, an application) do so at a time,  *)
(* some as root, and may end between any two steps.                        *)
(***************************************************************************)
EXTENDS Naturals

CONSTANTS
  Processes,
  Controllers,   \* controllers, which stand for their addresses as well
  Names,         \* addresses that a file may be named after
  WorkDirs,      \* directories with calibration files in them that a process
                 \* may be started in
  Junk,          \* a block of memory that was never written
  Absent,        \* no file
  Unusable,      \* a calibration without CalibrationFlag_HaveUSB: a handle's, or
                 \* that of a file, which may also be too short
  MaxFaults      \* bound: calls of the controller or of the file system that
                 \* fail, and processes that end while they open a handle

ASSUME CalibrationAssumption ==
  /\ Controllers \subseteq Names
  /\ WorkDirs \cap {"user", "root"} = {}
  /\ Junk \notin Controllers \X (0 .. 2)
  /\ Absent # Unusable
  /\ MaxFaults \in Nat

Blocks == 0 .. 2
Whole(c) == [b \in Blocks |-> <<c, b>>]
Uninitialised == [b \in Blocks |-> Junk]
Blob == [Blocks -> (Controllers \X Blocks) \cup {Junk}]

ASSUME NoBlobAssumption == Absent \notin Blob /\ Unusable \notin Blob

Homes == {"user", "root"}   \* the home directory; /etc/psmoveapi
Locations == Homes \cup WorkDirs

VARIABLES
  file,       \* the calibration files
  next,       \* the block each controller will send next
  handle,     \* the handle of each process, and how far its opening is
  faults,
  misnamed,   \* history: names of files that another controller has used
  mixed,      \* history: controllers that two processes read at a time
  overtaken,  \* history: processes that found no file, where there is one now
  stored      \* history: what handles over USB have provided for

hidden == <<misnamed, mixed, overtaken, stored>>
vars == <<file, next, handle, faults, hidden>>

\* A handle that a process is opening: who, name are the controller and whose
\* file it uses; usb, at the connection and where that file is; buf, n the
\* blocks read so far; failed says that a call has failed.
Opening ==
  [pc : {"read", "open", "close"}, who : Controllers, name : Names,
   usb : BOOLEAN, at : Locations, cal : Blob \cup {Unusable},
   buf : Blob, n : Blocks, failed : BOOLEAN]
Open ==
  [pc : {"done"}, who : Controllers, name : Names, cal : Blob \cup {Unusable}]
NoHandle == [pc |-> "idle"]

TypeOK ==
  /\ file \in [Locations -> [Names -> Blob \cup {Absent, Unusable}]]
  /\ next \in [Controllers -> Blocks]
  /\ handle \in [Processes -> Opening \cup Open \cup {NoHandle}]
  /\ faults \in 0 .. MaxFaults
  /\ misnamed \subseteq Names
  /\ mixed \subseteq Controllers
  /\ overtaken \subseteq Processes
  /\ stored \subseteq Locations \X Names

\* A disk with calibration files in working directories only, copied there
\* from elsewhere.
Copies ==
  \E unusable \in SUBSET (WorkDirs \X Names), whole \in SUBSET (WorkDirs \X Controllers) :
    file = [l \in Locations |-> [n \in Names |->
              CASE <<l, n>> \in whole -> Whole(n)
                [] <<l, n>> \in unusable \ whole -> Unusable
                [] OTHER -> Absent]]

Init ==
  /\ Copies
  /\ next = [c \in Controllers |-> 0]
  /\ handle = [p \in Processes |-> NoHandle]
  /\ faults = 0
  /\ misnamed = {} /\ mixed = {} /\ overtaken = {} /\ stored = {}

-----------------------------------------------------------------------------
At(p, pc) == handle[p].pc = pc
Fault == faults < MaxFaults /\ faults' = faults + 1

\* What is left of a handle when the blocks have been read or not, and when
\* it is open.
HasRead(h, cal) ==
  [h EXCEPT !.pc = "open", !.cal = cal, !.buf = Uninitialised, !.n = 0]
Opened(h, cal) ==
  [pc |-> "done", who |-> h.who, name |-> h.name, cal |-> cal]

\* A handle over USB that ends well has provided for those that follow.
Provided(h) == IF h.usb /\ ~h.failed THEN {<<h.at, h.name>>} ELSE {}

\* psmove_util_get_file_path: where the file of a process is, which has been
\* started in dir.  A file that is there is preferred to that of its home.
FilePath(home, dir, n) == IF file[dir][n] # Absent THEN dir ELSE home

\* psmove_calibration_load opens the file of the system only when it cannot
\* open the local one, which is the same one for root.
Found(l, n) ==
  IF file[l][n] # Absent THEN file[l][n] ELSE file["root"][n]

\* Faulty variant: a file that is not there counts as a calibration.
LoadedAnyway(f) == f

\* The calibration in a file, which psmove_calibration_supported looks at.
Loaded(f) == IF f = Absent THEN Unusable ELSE f

\* Faulty variant: the calibration is read from the controller every time.
MustReadAlways(usb, cal) == usb

\* psmove_calibration_new reads it from the controller only when it must.
MustRead(usb, cal) == usb /\ cal = Unusable

\* The address that the file is named after: that of the controller, or,
\* when reading it over USB once more fails, whatever the stack holds.
Named(c, usb, n, failed) ==
  \/ n = c /\ ~failed /\ UNCHANGED faults
  \/ usb /\ failed /\ Fault

\* psmove_connect_internal and psmove_calibration_new up to where the file
\* has been loaded.  No handle comes of it, and nothing has changed, if the
\* address cannot be read in psmove_connect_internal.
Connect(p) ==
  /\ At(p, "idle")
  /\ \E c \in Controllers, n \in Names, usb, failed \in BOOLEAN,
        home \in Homes, dir \in Locations :
       LET l == FilePath(home, dir, n)
           cal == Loaded(Found(l, n))
           h == [pc |-> "read", who |-> c, name |-> n, usb |-> usb, at |-> l,
                 cal |-> cal, buf |-> Uninitialised, n |-> 0,
                 failed |-> failed] IN
       /\ Named(c, usb, n, failed)
       /\ misnamed' = misnamed \cup ({n} \ {c})
       /\ IF MustRead(usb, cal)
          THEN handle' = [handle EXCEPT ![p] = h] /\ UNCHANGED stored
          ELSE /\ handle' = [handle EXCEPT ![p] = Opened(h, cal)]
               /\ stored' = stored \cup Provided(h)
  /\ UNCHANGED <<file, next, mixed, overtaken>>

-----------------------------------------------------------------------------
\* The controller answers a feature report with its next block; a report
\* that fails may have reached the controller or not (external).
Answered(c) == next' = [next EXCEPT ![c] = (@ + 1) % 3]

\* Processes that are between the blocks of a controller.
Between(c) == {q \in Processes : /\ At(q, "read")
                                 /\ handle[q].who = c /\ handle[q].n > 0}

\* Faulty variant: the blocks are stored in the order they arrive.
PlaceInOrder(block, n) == n

\* A block tells its place itself.
Place(block, n) == block

\* A turn of the loop of _psmove_get_calibration_blob, which assembles the
\* blocks in memory that it has not cleared.  psmove_calibration_read_from_usb
\* leaves the calibration alone when a turn fails, and goes unheeded.
ReadBlock(p) ==
  LET h == handle[p]
      b == next[h.who]
      buf == [h.buf EXCEPT ![Place(b, h.n)] = <<h.who, b>>] IN
  /\ At(p, "read")
  /\ \/ /\ Answered(h.who)
        /\ handle' = [handle EXCEPT ![p] =
             IF h.n < 2
             THEN [h EXCEPT !.buf = buf, !.n = @ + 1]
             ELSE HasRead(h, buf)]
        /\ UNCHANGED faults
     \/ /\ Fault
        /\ Answered(h.who) \/ UNCHANGED next
        /\ handle' = [handle EXCEPT ![p] =
             [HasRead(h, h.cal) EXCEPT !.failed = TRUE]]
  /\ mixed' = IF Between(h.who) \ {p} = {} THEN mixed ELSE mixed \cup {h.who}
  /\ UNCHANGED <<file, misnamed, overtaken, stored>>

-----------------------------------------------------------------------------
\* What a process may damage that found no file where there is one now: a
\* file of its own hides that of the system, which serves all locations.
Damaged(p) ==
  IF p \in overtaken
  THEN {s \in stored : /\ s[2] = handle[p].name
                        /\ handle[p].at \in {s[1], "root"}}
  ELSE {}

\* Those who looked for the file that p writes before it was there.
Overtakes(p) ==
  {q \in Processes \ {p} : /\ handle[q].pc \in {"read", "open", "close"}
                          /\ handle[q].name = handle[p].name
                          /\ handle[p].at \in {handle[q].at, "root"}}

\* psmove_calibration_save; opening the file truncates it.
OpenFile(p) ==
  LET h == handle[p] IN
  /\ At(p, "open")
  /\ file' = [file EXCEPT ![h.at][h.name] = Unusable]
  /\ handle' = [handle EXCEPT ![p].pc = "close"]
  /\ stored' = stored \ Damaged(p)
  /\ UNCHANGED <<next, faults, misnamed, mixed, overtaken>>

\* Both parts of the file are in the buffer of the stream until it is closed.
CloseFile(p) ==
  LET h == handle[p] IN
  /\ At(p, "close")
  /\ file' = [file EXCEPT ![h.at][h.name] = h.cal]
  /\ handle' = [handle EXCEPT ![p] = Opened(h, h.cal)]
  /\ stored' = (stored \ Damaged(p)) \cup Provided(h)
  /\ overtaken' = (overtaken \ {p}) \cup Overtakes(p)
  /\ UNCHANGED <<next, faults, misnamed, mixed>>

\* The file cannot be opened, or the disk is full; the handle is open all the
\* same, with what was read.
SaveFails(p) ==
  /\ At(p, "open") \/ At(p, "close")
  /\ Fault
  /\ handle' = [handle EXCEPT ![p] = Opened(handle[p], handle[p].cal)]
  /\ overtaken' = overtaken \ {p}
  /\ UNCHANGED <<file, next, misnamed, mixed, stored>>

\* psmove_disconnect.
Disconnect(p) ==
  /\ At(p, "done")
  /\ handle' = [handle EXCEPT ![p] = NoHandle]
  /\ UNCHANGED <<file, next, faults, hidden>>

\* The process ends; what it has sent and written stays.
Crash(p) ==
  /\ ~At(p, "idle") /\ ~At(p, "done")
  /\ Fault
  /\ handle' = [handle EXCEPT ![p] = NoHandle]
  /\ overtaken' = overtaken \ {p}
  /\ UNCHANGED <<file, next, misnamed, mixed, stored>>

Step(p) ==
  \/ Connect(p) \/ ReadBlock(p) \/ OpenFile(p) \/ CloseFile(p)
  \/ SaveFails(p) \/ Disconnect(p) \/ Crash(p)

Next == \E p \in Processes : Step(p)

Spec == Init /\ [][Next]_vars

-----------------------------------------------------------------------------
\* A handle that says it has a calibration (psmove_has_calibration) has all
\* of it, and its own controller's, whatever failed or ended before, unless
\* two processes have read the blocks of that controller at a time, or the
\* file was used by another controller.
OwnCalibration ==
  \A p \in Processes :
    LET h == handle[p] IN
    At(p, "done") /\ h.cal # Unusable
      => h.cal = Whole(h.who) \/ h.who \in mixed \/ h.name \in misnamed

\* Once a handle over USB has been opened without a failure, the handles
\* that follow and use the same location (that of its home, or the working
\* directory if there is a file in it), over Bluetooth too, find a calibration:
\* no failure and no process that ends takes it away, except one that had
\* looked for it before it was there.
StoredIsFound ==
  \A s \in stored : Loaded(Found(s[1], s[2])) # Unusable
=============================================================================
