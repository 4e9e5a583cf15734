------------------------------ MODULE Pairing ------------------------------
(***************************************************************************)
(* The registration of a controller with Bluez that psmove_pair makes,     *)
(* src/Lab5/src/platform/psmove_linuxsupport.c: bluetoothd is stopped, its *)
(* files are changed, and it is started again.  Bluez 4 has files with a   *)
(* line for each device; Bluez 5 has a directory for each device, and a    *)
(* file in a directory that serves as a cache.  moved and psmovepair may   *)
(* pair at the same time, and may fail or end at any step.                 *)
(***************************************************************************)
EXTENDS Naturals, Sequences, SequencesExt

CONSTANTS
  Processes,
  Controllers,
  Device,       \* some other device that is paired with the host
  Files,        \* number of files of Bluez 4: classes, did, features, ...
  Entries,      \* what a line may say about a device
  Good,         \* what psmove_pair writes about a controller
  MaxFaults,    \* bound: calls that fail, and processes that end
  MaxUpdates    \* bound: changes that bluetoothd makes to its files

ASSUME PairingAssumption ==
  /\ Device \notin Controllers
  /\ Files \in Nat \ {0}
  /\ Good \in Entries
  /\ MaxFaults \in Nat /\ MaxUpdates \in Nat

Addresses == Controllers \cup {Device}
Line == [addr : Addresses, entry : Entries]
States == {"absent", "broken", "whole"}   \* of a file of Bluez 5

VARIABLES
  bluez,       \* the version of Bluez the program was built for
  running,     \* bluetoothd runs
  file,        \* Bluez 4: the lines of each file; none if there is no file
  info,        \* Bluez 5: the info file; "broken" is a directory without it
  cacheDir,    \* Bluez 5: the directory of the cache exists
  cache,       \* Bluez 5: the file in the cache
  proc,        \* the processes that pair a controller
  updates, faults,
  kept,        \* history: lines that bluetoothd and pairings have provided
  registered,  \* history: controllers that a pairing has registered
  cut,         \* history: a file of these will stay as it is, unfinished
  down         \* history: nobody is left who would start bluetoothd

disk == <<file, info, cacheDir, cache>>
hidden == <<kept, registered, cut, down>>
vars == <<bluez, running, disk, proc, updates, faults, hidden>>

\* c: the controller; i: the next file of Bluez 4; list: its lines as they
\* were read; errors: the check has found something to be set; stopped:
\* linux_info.bluetoothd_stopped; failed: something was not written, or has
\* changed since it was checked; alone: no other process, no bluetoothd that
\* could not be stopped, and no list that could not be read has been in the way.
Pairing4 == {"check", "stop", "read", "open", "write"}
Pairing5 == {"info", "mkinfo", "putinfo", "cachedir", "mkcache", "cache",
             "opencache", "putcache"}
Process ==
  [pc : Pairing4 \cup Pairing5 \cup {"start"}, c : Controllers,
   i : 1 .. Files, list : Seq(Line), errors : BOOLEAN, stopped : BOOLEAN,
   failed : BOOLEAN, alone : BOOLEAN]
NoProcess == [pc |-> "idle"]

TypeOK ==
  /\ bluez \in {4, 5} /\ running \in BOOLEAN
  /\ file \in [1 .. Files -> Seq(Line)]
  /\ info \in [Controllers -> States] /\ cache \in [Controllers -> States]
  /\ cacheDir \in BOOLEAN
  /\ proc \in [Processes -> Process \cup {NoProcess}]
  /\ updates \in 0 .. MaxUpdates /\ faults \in 0 .. MaxFaults
  /\ kept \subseteq (1 .. Files) \X Line
  /\ registered \subseteq Controllers /\ cut \subseteq Controllers
  /\ down \in BOOLEAN

\* The first line about a device is the one that counts.
Says(lines, x) ==
  \E k \in 1 .. Len(lines) : /\ lines[k] = x
                             /\ \A j \in 1 .. k - 1 : lines[j].addr # x.addr

\* The last file does not exist; the others have a line about the other
\* device, and perhaps an older one about a controller.
Init ==
  /\ bluez \in {4, 5} /\ running = TRUE
  /\ \E a \in Addresses, e \in Entries \ {Good} :
       LET other == [addr |-> Device, entry |-> e]
           old == [addr |-> a, entry |-> e] IN
       /\ file = [f \in 1 .. Files |->
            IF bluez = 5 \/ f = Files THEN <<>>
            ELSE IF a = Device THEN <<other>> ELSE <<other, old>>]
       /\ kept = {x \in (1 .. Files) \X Line : Says(file[x[1]], x[2])}
  /\ info = [c \in Controllers |-> "absent"]
  /\ cache = [c \in Controllers |-> "absent"] /\ cacheDir \in {FALSE, bluez = 5}
  /\ proc = [p \in Processes |-> NoProcess]
  /\ updates = 0 /\ faults = 0
  /\ registered = {} /\ cut = {} /\ down = FALSE

-----------------------------------------------------------------------------
At(p, pc) == proc[p].pc = pc
Active(p) == ~At(p, "idle")
Fault == faults < MaxFaults /\ faults' = faults + 1
GoodLine(c) == [addr |-> c, entry |-> Good]

\* set_entry_list replaces the first entry of the controller that differs, or
\* adds one if there is none.
\* Faulty variant: it adds one although there is another.
SetEntryAdds(list, c) ==
  IF GoodLine(c) \in ToSet(list) THEN list ELSE Append(list, GoodLine(c))
SetEntry(list, c) ==
  LET own == {k \in 1 .. Len(list) : list[k].addr = c}
      wrong == {k \in own : list[k].entry # Good} IN
  IF wrong # {}
  THEN [list EXCEPT ![CHOOSE k \in wrong : \A j \in wrong : k <= j] = GoodLine(c)]
  ELSE IF own # {} THEN list ELSE Append(list, GoodLine(c))

\* read_entry_list puts each line before those it has read.  A list that it
\* cannot open, for whatever reason, counts as one that does not exist.
ReadList(f, ok) == IF ok THEN Reverse(file[f]) ELSE <<>>
Wants(f, c, ok) == SetEntry(ReadList(f, ok), c) # ReadList(f, ok)
Opens(ok) == \/ ok /\ UNCHANGED faults
             \/ ~ok /\ Fault

\* Whether a file is being written, and is empty until that is done.
Writing(p, f) == At(p, "write") /\ proc[p].i = f

Move(p, h) == proc' = [proc EXCEPT ![p] = h]

\* p does not start bluetoothd again; who else would?
Forsaken(p) ==
  ~running /\ ~\E q \in Processes \ {p} : Active(q) /\ proc[q].stopped

\* psmove_pair, once the controller knows the address of the host.  Before,
\* it may return PSMove_False, and nothing is registered; afterwards it
\* returns PSMove_True, whatever comes of the registration.
Pair(p) ==
  LET others == {q \in Processes : Active(q)} IN
  /\ ~Active(p)
  /\ \E c \in Controllers :
       proc' = [q \in Processes |->
         IF q = p
         THEN [pc |-> IF bluez = 4 THEN "check" ELSE "info", c |-> c, i |-> 1,
               list |-> <<>>, errors |-> FALSE, stopped |-> FALSE,
               failed |-> FALSE, alone |-> others = {}]
         ELSE IF q \in others THEN [proc[q] EXCEPT !.alone = FALSE] ELSE proc[q]]
  /\ UNCHANGED <<bluez, running, disk, updates, faults, hidden>>

\* What a pairing has provided for when it ends: nothing, if it has failed or
\* was not alone, or if a file was left unfinished before.
Provided(h) ==
  IF h.failed \/ ~h.alone
  THEN UNCHANGED <<kept, registered>>
  ELSE IF bluez = 4
  THEN /\ kept' = {x \in kept : x[2].addr # h.c}
                    \cup {<<f, GoodLine(h.c)>> : f \in 1 .. Files}
       /\ UNCHANGED registered
  ELSE /\ registered' = registered \cup ({h.c} \ cut)
       /\ UNCHANGED kept

-----------------------------------------------------------------------------
\* linux_bluetoothd_control(info, 0): a command that fails is only logged.
Stop(h, ok) ==
  \/ ok /\ running' = (running /\ h.stopped) /\ UNCHANGED faults
  \/ ~ok /\ ~h.stopped /\ Fault /\ UNCHANGED running

\* Faulty variant: the structure does not say that bluetoothd was stopped.
AfterStopForgets(h, ok) == [h EXCEPT !.alone = @ /\ ok]
AfterStop(h, ok) == [h EXCEPT !.stopped = TRUE, !.alone = @ /\ ok]

\* for_all_entries(check_entry_in_file, ...)
CheckEntry(p) ==
  /\ At(p, "check")
  /\ \E ok \in BOOLEAN :
       LET h == proc[p]
           errors == h.errors \/ Wants(h.i, h.c, ok) IN
       /\ Opens(ok)
       /\ IF h.i < Files
          THEN /\ Move(p, [h EXCEPT !.i = @ + 1, !.errors = errors])
               /\ UNCHANGED <<kept, registered>>
          ELSE IF errors
          THEN /\ Move(p, [h EXCEPT !.pc = "stop", !.i = 1, !.errors = FALSE])
               /\ UNCHANGED <<kept, registered>>
          ELSE Move(p, NoProcess) /\ Provided(h)
  /\ UNCHANGED <<bluez, running, disk, updates, cut, down>>

StopBluetoothd(p) ==
  /\ At(p, "stop")
  /\ \E ok \in BOOLEAN :
       /\ Stop(proc[p], ok)
       /\ Move(p, [AfterStop(proc[p], ok) EXCEPT !.pc = "read"])
  /\ UNCHANGED <<bluez, disk, updates, hidden>>

\* for_all_entries goes on to the next file, or is done.
\* Faulty variant: it takes the last file for one more.
AfterFileOn(h) == [h EXCEPT !.pc = "read", !.i = @ + 1, !.list = <<>>]
AfterFile(h) ==
  IF h.i < Files
  THEN [h EXCEPT !.pc = "read", !.i = @ + 1, !.list = <<>>]
  ELSE [h EXCEPT !.pc = "start", !.list = <<>>, !.i = 1]

\* for_all_entries(write_entry_to_file, ...): a file is read and changed,
ReadEntries(p) ==
  LET h == proc[p] IN
  /\ At(p, "read")
  /\ \E ok \in BOOLEAN :
       /\ Opens(ok)
       /\ Move(p, IF Wants(h.i, h.c, ok)
                  THEN [h EXCEPT !.pc = "open", !.alone = @ /\ ok,
                                 !.list = SetEntry(ReadList(h.i, ok), h.c)]
                  ELSE AfterFile(h))
  /\ UNCHANGED <<bluez, running, disk, updates, hidden>>

\* truncated by opening it in write_entry_list, or cannot be opened,
OpenEntries(p) ==
  LET h == proc[p] IN
  /\ At(p, "open")
  /\ \/ /\ file' = [file EXCEPT ![h.i] = <<>>]
        /\ Move(p, [h EXCEPT !.pc = "write"])
        /\ UNCHANGED faults
     \/ /\ Fault
        /\ Move(p, AfterFile([h EXCEPT !.failed = TRUE]))
        /\ UNCHANGED file
  /\ UNCHANGED <<bluez, running, info, cacheDir, cache, updates, hidden>>

\* and written, as far as there is room: nobody looks whether it was.  Whoever
\* was in the way meanwhile has worked in vain.
WriteEntries(p) ==
  LET h == proc[p] IN
  /\ At(p, "write")
  /\ \/ /\ file' = [file EXCEPT ![h.i] = h.list]
        /\ kept' = {x \in kept : x[1] = h.i => \/ h.alone /\ x[2].addr # h.c
                                              \/ Says(h.list, x[2])}
        /\ Move(p, AfterFile(h))
        /\ UNCHANGED faults
     \/ /\ Fault
        /\ \E n \in 0 .. (Len(h.list) - 1) :
             /\ file' = [file EXCEPT ![h.i] = SubSeq(h.list, 1, n)]
             /\ kept' = {x \in kept : x[1] = h.i => Says(SubSeq(h.list, 1, n), x[2])}
        /\ Move(p, AfterFile([h EXCEPT !.failed = TRUE]))
  /\ UNCHANGED <<bluez, running, info, cacheDir, cache, updates, registered,
                 cut, down>>

\* linux_bluetoothd_control(info, 1), at the end of both ways.
StartBluetoothd(p) ==
  LET h == proc[p] IN
  /\ At(p, "start")
  /\ Move(p, NoProcess)
  /\ \/ /\ running' = (running \/ h.stopped)
        /\ down' = (down /\ ~running')
        /\ UNCHANGED faults
     \/ /\ h.stopped /\ Fault
        /\ down' = (down \/ Forsaken(p))
        /\ UNCHANGED running
  /\ Provided(h)
  /\ UNCHANGED <<bluez, disk, updates, cut>>

-----------------------------------------------------------------------------
\* linux_bluez5_register_psmove: is there a directory for the device?
\* Faulty variant: a device that has one is taken for registered.
AfterKnownDone(h) == [h EXCEPT !.pc = "start"]
AfterKnown(h) == [h EXCEPT !.pc = "cachedir"]

Info(p) ==
  LET h == proc[p] IN
  /\ At(p, "info")
  /\ IF info[h.c] # "absent"
     THEN Move(p, AfterKnown(h)) /\ UNCHANGED <<running, faults>>
     ELSE \E ok \in BOOLEAN :
            Stop(h, ok) /\ Move(p, [AfterStop(h, ok) EXCEPT !.pc = "mkinfo"])
  /\ UNCHANGED <<bluez, disk, updates, hidden>>

\* mkdir has failed: goto cleanup, past the start of bluetoothd.
Abandon(p) ==
  /\ Move(p, NoProcess)
  /\ down' = (down \/ Forsaken(p))

MakeInfoDir(p) ==
  LET h == proc[p] IN
  /\ At(p, "mkinfo")
  /\ \/ /\ info[h.c] = "absent"
        /\ info' = [info EXCEPT ![h.c] = "broken"]
        /\ Move(p, [h EXCEPT !.pc = "putinfo"])
        /\ UNCHANGED <<faults, down>>
     \/ /\ (info[h.c] # "absent" /\ UNCHANGED faults) \/ Fault
        /\ Abandon(p)
        /\ UNCHANGED info
  /\ UNCHANGED <<bluez, running, file, cacheDir, cache, updates, kept,
                 registered, cut>>

\* linux_bluez5_write_info; the next pairing will find the directory.
PutInfo(p) ==
  LET h == proc[p] IN
  /\ At(p, "putinfo")
  /\ \/ /\ info' = [info EXCEPT ![h.c] = "whole"]
        /\ Move(p, [h EXCEPT !.pc = "cachedir"])
        /\ UNCHANGED <<faults, cut>>
     \/ /\ Fault
        /\ Move(p, [h EXCEPT !.pc = "cachedir", !.failed = TRUE])
        /\ cut' = cut \cup {h.c}
        /\ UNCHANGED info
  /\ UNCHANGED <<bluez, running, file, cacheDir, cache, updates, kept,
                 registered, down>>

CacheDir(p) ==
  LET h == proc[p] IN
  /\ At(p, "cachedir")
  /\ IF cacheDir
     THEN Move(p, [h EXCEPT !.pc = "cache"]) /\ UNCHANGED <<running, faults>>
     ELSE \E ok \in BOOLEAN :
            Stop(h, ok) /\ Move(p, [AfterStop(h, ok) EXCEPT !.pc = "mkcache"])
  /\ UNCHANGED <<bluez, disk, updates, hidden>>

MakeCacheDir(p) ==
  LET h == proc[p] IN
  /\ At(p, "mkcache")
  /\ \/ /\ ~cacheDir /\ cacheDir' = TRUE
        /\ Move(p, [h EXCEPT !.pc = "cache"])
        /\ UNCHANGED <<faults, down>>
     \/ /\ (cacheDir /\ UNCHANGED faults) \/ Fault
        /\ Abandon(p)
        /\ UNCHANGED cacheDir
  /\ UNCHANGED <<bluez, running, file, info, cache, updates, kept,
                 registered, cut>>

\* linux_bluez5_write_cache: a file that exists is left alone.
Cache(p) ==
  LET h == proc[p] IN
  /\ At(p, "cache")
  /\ IF cache[h.c] # "absent"
     THEN Move(p, [h EXCEPT !.pc = "start"]) /\ UNCHANGED <<running, faults>>
     ELSE \E ok \in BOOLEAN :
            Stop(h, ok) /\ Move(p, [AfterStop(h, ok) EXCEPT !.pc = "opencache"])
  /\ UNCHANGED <<bluez, disk, updates, hidden>>

OpenCache(p) ==
  LET h == proc[p] IN
  /\ At(p, "opencache")
  /\ \/ /\ cache' = [cache EXCEPT ![h.c] = "broken"]
        /\ Move(p, [h EXCEPT !.pc = "putcache"])
        /\ UNCHANGED faults
     \/ /\ Fault
        /\ Move(p, [h EXCEPT !.pc = "start", !.failed = TRUE])
        /\ UNCHANGED cache
  /\ UNCHANGED <<bluez, running, file, info, cacheDir, updates, hidden>>

\* A file that was not written to its end is not looked at again either.
PutCache(p) ==
  LET h == proc[p] IN
  /\ At(p, "putcache")
  /\ \/ /\ cache' = [cache EXCEPT ![h.c] = "whole"]
        /\ Move(p, [h EXCEPT !.pc = "start"])
        /\ UNCHANGED <<faults, cut>>
     \/ /\ Fault
        /\ Move(p, [h EXCEPT !.pc = "start", !.failed = TRUE])
        /\ cut' = cut \cup {h.c}
        /\ UNCHANGED cache
  /\ UNCHANGED <<bluez, running, file, info, cacheDir, updates, kept,
                 registered, down>>

-----------------------------------------------------------------------------
\* The process ends, and an open file stays as it is; or it never gets out of
\* read_entry_list, which goes on until the end of the file though it cannot be
\* read, and does nothing any more.
Crash(p) ==
  LET h == proc[p] IN
  /\ Active(p) /\ Fault
  /\ Move(p, NoProcess)
  /\ kept' = {x \in kept : ~Writing(p, x[1])}
  /\ cut' = IF h.pc \in {"putinfo", "putcache"} THEN cut \cup {h.c} ELSE cut
  /\ down' = (down \/ Forsaken(p))
  /\ UNCHANGED <<bluez, running, disk, updates, registered>>

\* bluetoothd sets the line of a device in a file (external).
SetLine(lines, x) ==
  LET own == {k \in 1 .. Len(lines) : lines[k].addr = x.addr} IN
  IF own = {} THEN Append(lines, x)
  ELSE [lines EXCEPT ![CHOOSE k \in own : \A j \in own : k <= j] = x]

Bluetoothd ==
  /\ bluez = 4 /\ running
  /\ updates < MaxUpdates /\ updates' = updates + 1
  /\ \E f \in 1 .. Files, x \in Line :
       /\ file' = [file EXCEPT ![f] = SetLine(@, x)]
       /\ kept' = {y \in kept : y[1] = f => y[2].addr # x.addr} \cup {<<f, x>>}
       /\ proc' = [p \in Processes |->
            IF At(p, "check") /\ proc[p].c = x.addr
            THEN [proc[p] EXCEPT !.failed = TRUE] ELSE proc[p]]
  /\ UNCHANGED <<bluez, running, info, cacheDir, cache, faults, registered, cut,
                 down>>

Step4(p) ==
  \/ CheckEntry(p) \/ StopBluetoothd(p) \/ ReadEntries(p)
  \/ OpenEntries(p) \/ WriteEntries(p)
Step5(p) ==
  \/ Info(p) \/ MakeInfoDir(p) \/ PutInfo(p) \/ CacheDir(p)
  \/ MakeCacheDir(p) \/ Cache(p) \/ OpenCache(p) \/ PutCache(p)
Step(p) == Step4(p) \/ Step5(p) \/ StartBluetoothd(p)

Next == Bluetoothd \/ \E p \in Processes : Pair(p) \/ Step(p) \/ Crash(p)

Spec == Init /\ [][Next]_vars

\* A process that pairs a controller goes on.
FairSpec == Spec /\ \A p \in Processes : WF_vars(Step(p))

-----------------------------------------------------------------------------
\* Bluez 4: what bluetoothd has noted about any device, and what a pairing
\* that was not disturbed has, stays in the files.  Pairings do not lose it,
\* except from a file that they could not read or write, or while writing which
\* they ended, or by getting in each other's way.
LinesKept ==
  \A x \in kept :
    Says(file[x[1]], x[2]) \/ \E p \in Processes : Writing(p, x[1])

\* Bluez 5: a pairing without failures has registered the controller, though
\* earlier ones have failed, unless one of them left an unfinished file.
Registered ==
  \A c \in registered : info[c] = "whole" /\ cache[c] = "whole"

\* When a pairing has stopped bluetoothd, it runs again in the end, unless the
\* process ends, or the command to start it or mkdir fails.
RunsAgain == ~running ~> running \/ down
=============================================================================
