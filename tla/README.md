# Specifications of the PS Move API

The repository is the material of a university course on industrial virtual
and augmented reality. Eleven of its twelve directories hold short MATLAB and
Python exercises with third-party toolboxes. The one program with state,
threads, processes and failures of its own is `src/Lab5`: the **PS Move API**,
a C library for the PlayStation Move motion controller with a background
writer, a daemon, a UDP protocol and a camera tracker. These specifications
are about it, in its Linux build (pthreads, udev, Bluez). Paths below are
relative to `src/Lab5`.

- [1. The system](#1-the-system)
- [2. Modules](#2-modules)
- [3. Runs, bounds and what they show](#3-runs-bounds-and-what-they-show)
- [4. Fairness](#4-fairness)
- [5. Proofs](#5-proofs)
- [6. Where the code and its documentation disagree](#6-where-the-code-and-its-documentation-disagree)
- [7. What is left out](#7-what-is-left-out)
- [8. Plan](#8-plan)

## 1. The system

| component | state it keeps | operations | talks to |
|---|---|---|---|
| LED and rumble output (`src/psmove.c`) | the report, `leds_dirty`, time of the last update, `write_queued`, a thread per handle | `psmove_set_leds`, `psmove_set_rumble`, `psmove_update_leds`, `psmove_set_rate_limiting`, `psmove_disconnect`, the writer thread | the application thread and the writer thread share the report without a lock; `hid_write` |
| handles and enumeration (`src/psmove.c`) | open handles, list of remote hosts | `psmove_init`, `psmove_count_connected`, `psmove_connect_by_id`, `psmove_disconnect` | hidapi, the remote client |
| buttons and polling (`src/psmove.c`) | the last input report, last button state | `psmove_poll`, `psmove_get_button_events` | hidapi or the remote client |
| move daemon (`src/utils/moved.c`, `src/daemon/moved_monitor.c`) | list of devices with ids, their number, the udev queue, a socket | start-up enumeration, connection and disconnection, COUNT, SERIAL, READ and WRITE requests | udev, hidapi, UDP clients |
| remote client (`src/daemon/moved_client.c`) | a socket per host, retries, the list of hosts | `moved_client_send` under counting, connecting, polling and updating | the daemons of other hosts, over UDP |
| tracker: colours (`src/tracker/psmove_tracker.c`) | ring of colour mappings, `colormapping.dat` | remember, look up, restore at start | calibration by blinking |
| tracker: controllers (same file) | five slots, colours, dimming, position filters | enable, disable, change colour, dimming, smoothing | LEDs, camera |
| tracker: search (same file) | region of interest, search tile, last position and radius | `psmove_tracker_update_controller` | camera image |
| calibration (`src/psmove_calibration.c`) | the calibration of each handle, files of the user and of the system | load, fall back to the system, read three blocks over USB, save | files, USB, other processes |
| pairing (`src/platform/psmove_linuxsupport.c`, `src/utils/psmovepair.c`) | files of Bluez 4 and 5, whether `bluetoothd` runs and who has stopped it | register a controller with the host | Bluez, USB, other processes |
| orientation, fusion, filters, mathematics | floating-point values | numerical | each other |

How they interact: the application calls the library; the library answers from
local handles (hidapi) or, through the remote client, from daemons. A daemon is
itself an application of the library: it opens each controller with a local
handle, whose LED reports go through that handle's writer thread. The tracker
is an application as well; it blinks and lights the spheres of the controllers
and looks for them in the camera image.

What is hard, and what must hold:

- **Output.** The writer copies the report while the application changes it, it
  clears `write_queued` after the copy and outside the mutex, the signal can be
  lost, and `hid_write` can fail. No accepted update may be forgotten, the
  device must not be shown an older value after a newer one, closing must flush
  and terminate.
- **Daemon.** Nodes come and go faster than the daemon handles their events,
  and connections fail. Ids must be unique and stable, the list must mirror the
  nodes.
- **Remote client.** Datagrams are lost or late and nothing in an answer says
  what it answers. Answers must match while nothing was late, ids must name
  the same controller between two calls, handles must keep their controller,
  calls must return.
- **Colours.** An unsigned index that wraps, a file that is truncated before it
  is written. A lookup must find the latest calibration of its key, in this
  session or an earlier one.
- **Controllers.** Attempts to enable fail halfway, with a slot already taken; a
  filter is a `void *` whose type is that of the tracker. Slots, colours, dimming
  and filters must fit together.
- **Search.** The region of interest is moved, enlarged and recentred in a loop.
  It must stay inside the image, the loop must end, and a visible sphere must be
  found and kept.
- **Calibration.** Several processes use one file without a lock, the controller
  sends its blocks in turn to whoever asks, reads and writes fail, processes end.
  A handle must have the whole calibration of its own controller or none, and
  what was saved must be found.
- **Pairing.** Files of another program are truncated and rewritten while that
  program is stopped, by processes that fail or end. No pairing of another
  device may be lost, a success must be one, `bluetoothd` must run again.

`PROJECT.json` lists each hazard with its line and the properties that cover it.

## 2. Modules

| module | models | proofs |
|---|---|---|
| `WriteBehind` | abstract: what the output path promises its caller | |
| `PSMoveLeds` | application thread and writer thread on one handle | `PSMoveLedsProofs` |
| `IdTable` | abstract: the table of ids that clients of the daemon see | |
| `MovedDaemon` | the daemon's list under hotplugging | `MovedDaemonProofs` |
| `MovedIds` | the loop of `moved_get_next_id` against its purpose | `MovedDaemonProofs` |
| `MovedClient` | client, network and daemons (each an `IdTable`) | `MovedClientProofs` |
| `ColorMemory` | abstract: a memory of the most recent calibrations | |
| `TrackerColors` | the ring of colour mappings and its file | `TrackerColorsProofs` |
| `TrackerPool` | slots, colours, dimming, filters | `TrackerPoolProofs` |
| `TrackerSearch` | the search for one sphere | `TrackerSearchProofs` |
| `Calibration` | the handles of several processes and the files they share | `CalibrationProofs` |
| `Pairing` | the registration with Bluez 4 and 5, by several processes | `PairingProofs` |
| `MC*` | constants for TLC | |

A definition with the comment *Faulty variant* (or *As ..., but*) is not part of the model. It
is the definition after it with a plausible mistake in it; substituting it must
break the property it stands beside in `PROJECT.json`, which shows that the
property depends on that piece of code.

**PSMoveLeds.** `leds`, `dirty`, `limiting`, `elapsed`, `queued` and `lastOk` are
the fields of `struct _PSMove`; `apc` and `wpc` are where the two threads are.
Stores, the loads of `memcpy` and those of `memcmp` are single steps per field,
in any order, so copies may be torn. Each critical section (`queued = 1; signal`
and `wait`) is one step, as nothing else takes the mutex. `psmove_set_leds` is
`BeginStore`, a `StoreField` for each field that changes, and `MarkDirty`;
`psmove_update_leds` is `UpdateIgnored`, or `UpdateAccepted` and `UpdateQueued`;
`psmove_disconnect` is `Disconnect`, `JoinBusy` for every turn of its loop of
signals, and `JoinDone`. The history variables `accepted`, `window` and
`stopped` (a spurious wakeup has ended the writer) only serve the properties. Time is counted in ticks; `elapsed` stops at the inhibit period,
beyond which the code no longer distinguishes it. The bytes are shared without
a lock, which C leaves undefined; the model takes them as atomic bytes under
sequential consistency.

**MovedDaemon.** `devs` is the linked list, newest first; `plugged` is the world
(each plug a controller of its own, so that a replaced controller can be told
from the old one), `events` the udev monitor's queue. `phase` follows `main`:
count, connect so many times by index, then loop. A device whose connection
failed is listed with `NoMove`, the NULL handle; dereferencing it leads to
`crashed`. While the daemon has not caught up with a node, or counts along the
enumeration, a change overtakes it; `MaxOvertakes` bounds how often, and
`missed` remembers which nodes it may have a wrong picture of. The loop
of `moved_get_next_id` is `FreeId` here, what it is for; `MovedIds` defines the
loop itself, as two recursive functions (a pass, and its repetition), and states
that it computes that on every list the daemon can reach; it is proved for
every list whatever.

**MovedClient.** A library call is a sequence of requests: `call` holds what it
has found so far, `pc` and `retry` are those of `moved_client_send`. Channels are
FIFO per host, without duplication (one socket per host, one network path), and
may lose; an early `Expire` is a late answer, which stays in the channel and is
read by the next `recv`. An answer to another kind of request is `Garbage`
except for the byte that a COUNT reads; of a READ that is the result of polling,
0 or the `Sequence` number of the report. Daemons are reduced to `IdTable`, whose
implementation by the list is proved, and each connection and disconnection
here is a step of an instance of it.

**TrackerColors.** `ring.map`, `ring.next_slot` and `colormapping.dat`. A key is a
colour with a dimming factor. Saving may fail in either of two ways: the file
cannot be opened, or is truncated and not written. The refinement maps a ring to
the sequence of its mappings, oldest first, without the slot that is
overwritten next: the walk of `psmove_tracker_lookup_color` never looks at it,
so the ring of 256 remembers 255.

**TrackerPool.** One variable for each field of a slot. The camera is a choice:
whether the old colour is tracked, whether blinking finds the sphere, whether
it looks saturated, and how much. The loop of `psmove_tracker_blinking_calibration` that
determines the dimming is a set of sequences of measurements (`Rounds`): with the
code's conditions for a further round (`GoesOn`) and for what it leaves as the
dimming (`Determined`). `PSMOVE_TRACKER_COLOR` is not set. A pointer to a filter
is `null`, a type, or `freed`. The
colour mapping is left open (TrackerColors models it), LEDs follow from colour
and dimming.

**TrackerSearch.** One action for each way through the loop of
`psmove_tracker_update_controller`. The sphere is a square of pixels that moves
only between updates. What floating point decides is a choice where the outcome
is open: the smoothed radius lies anywhere between the old and the measured one,
the shape of a contour that is cut off may come out either way. The position
that is stored is not the centre that is checked for a jump but the middle of the
two points farthest apart, the centre of mass or a smoothed value: any place
`Around` that centre, `Lag` pixels off at most (`use_fitEllipse`, off by default,
is off). A contour is the sphere only if its shape is good, its radius has not
changed too much, and it is larger than `tracker_quality_t3` (`MinSize`).
`EnvSize` is `PSMOVE_TRACKER_ROI_SIZE`, which nobody compares with the image: what
`psmove_tracker_new` accepts may be too large, and an update then ends the program
inside OpenCV. `Update` therefore needs `Fits`, and the properties name it.

**Calibration.** `Connect` is the opening of a handle up to the point where
`psmove_calibration_new` has tried the file of the user, then that of the system;
`ReadBlock` one turn of the loop that asks for a block; `OpenFile` the `fopen`
that truncates, `CloseFile` the `fclose` that writes what was buffered. A block
is the pair of its controller and its number, so that blocks of two controllers,
or three times the same, can be told from a calibration. `file` maps the home
directory, `/etc/psmoveapi` and the working directories of processes (`WorkDirs`)
to what each holds; for root the first two are the same. `FilePath` is
`psmove_util_get_file_path`: a file that lies in the working directory is preferred
for loading and for saving, so a location is that of one handle. `StoredIsFound`
therefore speaks of handles that look in the same location, and what is found or
saved in a working directory says nothing about the others. (The tracker's
`colormapping.dat` takes the same way; TrackerColors is about one place.)
The histories `misnamed`, `mixed` and `overtaken` record what the properties
excuse, because the code does nothing against it; `stored` what was saved.

**Pairing.** A process has the position, the list in memory and the flag
`bluetoothd_stopped` of the code. `Step4` has one action for each access to a
file of Bluez 4 (check, read, truncate, write), `Step5` one for each directory
and file of Bluez 5. A list that cannot be opened for reading counts as empty, as in
the code (`ReadList`), and is then written with the one line of the controller; a
write may stop anywhere in the list (`WriteEntries`, `PutCache`), which the code
does not look at. `read_entry_list` never leaves its loop if reading fails for
good: such a process is taken for one that has ended. A process may end at any step; calls fail while `MaxFaults`
allows it. `bluetoothd`, while it runs, changes a line now and then. `kept` is
what must be in the lists: lines that `bluetoothd` or an undisturbed pairing has
provided, in lists that no process has failed to read or write since; `registered`, `cut` and `down` record successes, files left
unfinished, and a `bluetoothd` that nobody will start again.

## 3. Runs, bounds and what they show

| run | distinct states | properties |
|---|---|---|
| `leds` | 256,222 | `TypeOK`, `NoUpdateForgotten`, `FreshReports`, `FlushedAtClose`, `ImplementsWriteBehind`, `DisconnectTerminates`, `CatchesUp`, `CatchesUpAfterFailure` |
| `daemon` | 243,880 | `TypeOK`, `UniqueIds`, `LoopFindsFreeId`, `InSync`, `ImplementsIdTable`, `SettlesInSync` |
| `client` | 421,932 | `TypeOK`, `AnswersOwed`, `AnswersMatch`, `FixedOrder`, `OwnData`, `CallsReturn` |
| `tracker_colors` | 133,125 | `TypeOK`, `ImplementsMemory` |
| `tracker_pool` | 42,240 | `TypeOK`, `OneSlotEach`, `ToldTrue`, `FilterFits`, `DimmingKept`, `ClashOnlyByIndex` |
| `tracker_search` | 279,223 | `TypeOK`, `RoiInImage`, `UpdateEnds`, `FindsSphere`, `LosesSmall` |
| `calibration` | 1,609,869 | `TypeOK`, `OwnCalibration`, `StoredIsFound` |
| `pairing` | 316,742 | `TypeOK`, `LinesKept`, `Registered`, `RunsAgain` |
| `leds_spurious` | violated | `SuccessMeansWriter` |
| `daemon_index` | violated | `IndexNamesDevice` |
| `daemon_null` | violated | `HandlesValid` |
| `client_down` | violated | `CallsGiveUp` |

- **leds** (one colour field, one rumble field, two values, spurious wakeups,
  fairness). The application may store, mark and queue while the writer is
  anywhere. A difference between the report and what was written last is always
  still recorded (`NoUpdateForgotten`), and no write goes back in time
  (`FreshReports`). The two threads are a write-behind cache; disconnecting
  terminates and flushes, and regular updates get the current report out in
  spite of lost signals and, if the link recovers, of failed writes; all of this
  until a spurious wakeup ends the writer. Two fields suffice for a torn copy,
  two values for a change and its undoing; the proofs drop both bounds. The wait
  of one tick and the inhibit period of two give each early return of
  `psmove_update_leds` its own moment.
- **leds_spurious.** One spurious wakeup, which POSIX allows, ends the writer;
  `psmove_update_leds` goes on returning `Update_Success`.
- **daemon** (three nodes, four plugs, one overtaking). Connections fail, nodes
  vanish and return under the daemon's hands; ids stay unique, the search finds
  the smallest free one, and the list implements the table. Each node of which
  the daemon has missed nothing is mirrored, and the list settles, whatever it
  has missed of the others. Three nodes let the one in the middle go and come
  back with a smaller id than its neighbours.
- **daemon_index**, **daemon_null.** After a removal the ids are no longer
  `0 .. count - 1`; a controller that vanishes before it is opened is listed
  with a NULL handle.
- **client** (two hosts, two controllers, three calls, two faults, one hotplug,
  two tries per request instead of five, sequence numbers up to 2 instead of 16).
  Three calls are the shortest sequence count, connect, poll. Two faults are a loss
  and a late answer, and `MaxRetries = 2` makes giving up reachable by faults alone. Answers lag behind
  by no more than `recv` has timed out; while it has not, they match. An
  undisturbed id names the same controller in `psmove_count_connected` and in
  `psmove_connect_by_id`, and a handle its own controller until one is removed.
- **client_down.** A `sendto` that fails is not counted as a retry; with the
  network down a call never returns.
- **tracker_colors** (two keys, two views, a ring of three instead of 256). The
  ring wraps, with both parities of overwritten keys; the behaviour depends on
  positions relative to `next_slot` only.
- **tracker_pool** (three slots, three presets, a custom colour, four
  controllers, three dimming steps; the code has five, 1.0 to 0.0081). Three are
  the fewest with which the loop of the calibration goes round, gets worse, and takes
  back a step that is not the first. As in the code there are as many presets as
  slots, and one controller more than fits. Controllers are symmetric: they are
  only compared. `ClashOnlyByIndex` rests on `PoolAssumption`: the presets differ,
  and are at least as many as the slots, as five and five are.
- **tracker_search** (image of 60 x 48, regions of 24, 16, 11 and 7, six tiles
  made seven, nine places for the sphere, no size asked for). The places lie inside
  tiles, across their borders and in the corners, at four distances, so that every
  level of region occurs; at the farthest the sphere is smaller than `MinSize` but
  no junk (`MinArea` 4), so that it is seen and must not be tracked. The stored
  position is up to a pixel off the centre (`Lag`). The region sizes follow from the
  image by the code's own arithmetic. `MaxJump` 16 is to a region of 24 what 400
  pixels are to the 540-pixel region of an HD image; in a 640 x 480 image the region
  is 240 pixels wide and the jump could never be seen. `FindsSphere` is for a sphere
  at rest inside one tile: one across a border is seen whole from neither tile and
  may look like junk in both. `LosesSmall` is for one anywhere, that comes to rest
  after whatever was tracked before: the smoothed radius first has to come down to
  it.
- **calibration** (two processes, two controllers, one working directory with files,
  two failures or crashes). Two failures let a process end while it writes and the
  next one fail to read. Once blocks were mixed up by two readers, only one mixture
  without a failure is followed further (`MixedAlone`), as the properties excuse
  what comes of it. The working directory holds a file of one controller, whole or
  unusable, or none; with one there is one failure at most (`OneCopy`).
- **pairing** (two processes, one controller and another device, two files, the
  second of which does not exist, two failures or crashes, one change by
  `bluetoothd`). Two processes truncate each other's files and start `bluetoothd`
  under each other; lists cannot be read or are written in part; two failures let
  one pairing leave a file unfinished and the repairing one fail as well. The proofs
  are for any number of everything.

Where deadlock checking is off the system really stops: a closed handle, a
daemon with no more plugs, an application with no more calls.

## 4. Fairness

- `CallsFinish`: a library call that has begun goes on; it waits only for a
  mutex that is never held for long. `WriterRuns`: the thread is scheduled and
  `hid_write` returns.
- `UpdatesRegularly`: `include/psmove.h` asks the application to call
  `psmove_update_leds` regularly. It is assumed for `CatchesUp` and
  `CatchesUpAfterFailure`, never that the application calls anything else.
- `LinkRecovers`: strong fairness of a successful write, a premise of
  `CatchesUpAfterFailure` only; a link may fail any number of times in between.
- Daemon: `select` reports the monitor as long as it has events, and each round
  of the loop polls it before serving a request, so requests cannot starve it.
- Client: the application thread runs, `recv` times out by itself, daemons serve
  what reaches them. Nothing is assumed of the network.
- Pairing: a process that pairs goes on until it ends or crashes (one that hangs
  in `read_entry_list` counts as crashed); nothing is
  assumed of failures, which are bounded by `MaxFaults` only.
- Search: the application goes on calling `psmove_tracker_update`.

## 5. Proofs

The theorems hold for every value of the constants that satisfies the named
assumption of the module; TLC evaluates the assumptions in every run.

**PSMoveLedsProofs** (any fields, values and timing; `LedsAssumption`: among
others, a report has finitely many fields).

- `TypeCorrect`.
- `NothingForgotten`: `Spec => []NoUpdateForgotten`. The property speaks of a
  writer at rest and is not inductive: the writer comes to rest through a
  comparison that takes several steps while the application stores.
  `ComparedOrOwed` adds what holds in between: a field `memcmp` has passed may
  differ only if the difference is owed, that is recorded in a call in progress,
  in `leds_dirty` or in `write_queued`. Application steps that change the report
  are owed by construction; the only step that stops owing without handing over
  is `ClearQueued`, from which the writer reaches its rest only through a
  comparison of every field.
- `WritesAreFresh`: `[]FreshReports`, from `CopiedSince` (what has been copied
  so far lies in the window since the last write; a failed comparison restarts
  the copy of all the fields).
- `DisconnectFlushes`, `LedsRefinement`: `psmove_disconnect` flushes unless a
  spurious wakeup has ended the writer before, and the threads implement
  `WriteBehind`, whose `Stop` is that end. Both need `ExitOnlyToClose`: a writer
  woken with nothing queued was woken by `psmove_disconnect`, or spuriously.
- `CloseIsBounded`: once `psmove_disconnect` has begun, `StepsToExit` is a number
  below a bound in the size of the report, and every step of the writer makes
  it smaller. It is not the length of the way to the exit alone: a torn copy
  costs one more round, and so does an update that is queued and not being
  copied; after `psmove_disconnect` nothing can add either again.

**MovedDaemonProofs** (any nodes, any plugs; `DaemonAssumption`).

- `TypeCorrect`, with the count equal to the length of the list.
- `IdsUnique`: `[]UniqueIds`, from two lemmas, on a list to which a device with
  a free id is prepended and on one from which a device is removed.
- `ListImplementsTable`: `Spec => Table!Spec`; connection and removal map to
  `Connect` and `Disconnect`, all else to stuttering. It rests on `UniqueIds`,
  without which the table would not be a function of the list.
- `ListMirrorsNodes`: `[]InSync`. The property speaks of nodes whose events have
  been handled; `SyncInv` says what the list must be before. What waits for a
  node that the daemon has not missed is nothing, one event, or a removal and
  then an addition, and the list mirrors the node up to these (`LoopInv`).
  At the start, with nothing missed, the list holds the first nodes of the
  enumeration (`EnumerateInv`), and the index reaches each node (`RankOnto`: an
  injection between finite sets of the same size).
- `LoopIsCorrect`, `LoopHolds`, `ListsByLoop`: the loop of `moved_get_next_id` ends
  with the smallest free id of any list, so `[]LoopFindsFreeId`, and `ListDevice`
  of the model, which asks for the smallest free id, is what the loop does. A pass
  that raises its candidate never skips a free id (`PassTowards`), so the
  repetition ends at the first one (`RepeatsEnd`, by induction on the distance to
  it), which is at most the length of the list (`IdsFitList`: more ids do not fit
  into it). The two recursions have solutions (`PassesExist`, `RepeatsExist`).

**MovedClientProofs** (any hosts, controllers, calls, faults and retries;
`ClientAssumption`: `moved_hosts.txt` lists each host once).

- `TypeCorrect`: with the types, `Typed` carries what a call in progress has found
  and which requests and answers belong to which kind of call.
- `AnswersAreOwed`: `[]AnswersOwed` is inductive; its steps count the requests
  under way that ask for an answer.
- `AnswersAreMatched`: `[]AnswersMatch`. `MatchInv`: as long as no `recv` has timed
  out early, every datagram under way belongs to the request in progress, so
  what `recv` takes is its answer.
- `OwnDataHolds`: `[]OwnData`. `OwnInv` holds until a controller is removed or an
  answer is late: the ids of each host are dense, a call in progress, an answer
  under way and a handle tell the truth about their host.
- `OrderIsFixed`, `ConnectSucceeds`: `[]FixedOrder`, and that connecting to a number
  below the last count never comes to the end of the hosts. `CountInv`: a call
  in progress has added up the controllers of the hosts before the one it asks,
  what it looks for is at this one or further on, and a handle has the number of
  its controller along the hosts. The sum over the hosts is a recursive
  function; `BeforeAdds` says that it is one, and is monotone.
- `CallIsBounded`: while a call is in progress, `Budget` counts the requests it may
  still send and the timeouts it may still wait for: at most `MaxRetries` for each
  host, and for a serial number. Every step of the call makes it smaller, except
  a `sendto` that fails, which changes nothing (`client_down`).

**TrackerPoolProofs** (any slots, presets, controllers; `PoolAssumption`).

- `TypeCorrect`, `ControllersOnce`, `FiltersOfTheirType`: the conjunction
  `PoolInv` of the three is inductive. An attempt to enable passes the check that
  the controller has no slot, `FirstSlot` shows that the search would have found
  one, and each of its outcomes fills or clears one slot. `FirstSlot` needs the
  least number principle, which is taken from the library's theorem that `<` is
  well-founded on the naturals.
- `ToldTheTruth`: from `PoolInv`, and that only attempts to enable leave a result.
- `EnablingKeepsDimming`: `DimmingKept`. `BlinkedBounds` is about the loop of the
  calibration, for any measurements: with a dimming set there is no second round,
  so the comparison with the round before does not apply, and what the first one
  measures leaves the dimming alone.
- `ClashesByIndexOnly`: `ClashOnlyByIndex`. Where no colour is free, by the
  pigeonhole principle the slots hold exactly the presets (`AllHavePresets`), so
  that an attempt to enable finds no slot; and cycling goes round all the presets
  to the colour it started from (`RoundTrip`).

**TrackerColorsProofs** (any ring; `ColorsAssumption`).

- `TypeCorrect`, from `ColorsInv`: a slot of the ring or of the file is either
  cleared or holds a whole mapping, so no lookup answers with a cleared one.
- `RingIsMemory`: `Spec => ImplementsMemory`, for any size of the ring. `MemoryInv`:
  the mappings of the ring, and of the file, lie without a gap behind
  `next_slot`, so that walking backwards one meets them all and then cleared slots
  only. `PutHolds` shows that remembering a calibration is an append to the
  memory, or an append that drops the oldest; `LookupFinds` that the walk stops
  at the latest calibration of its key.

**TrackerSearchProofs** (any image, any places and sizes of the sphere;
`SearchAssumption`).

- `TypeCorrect`, `RoiStaysInImage`: `SearchInv`, the conjunction of `TypeOK` and
  `RoiInv`, is inductive. `RoiSizes` shows that the recursive definition of the
  sizes of the regions has a solution, `RoiSizeBounds` that none is larger than
  the first, which is no larger than the image if `Fits`: always when no size is
  asked for (`LargestFits`), else by assumption of the property. The rest is linear
  arithmetic on the clamping of the region.
- `UpdateIsBounded`: an update goes round its loop 16 times at most. `StepsLeft` is
  the larger regions still to come, twice over until the region has been
  recentred, and one retry at each of them.
- `SphereIsKept`, `SearchComesRound`: the argument for `FindsSphere`, but for what is
  said below. `Locked`: the region shows the whole of a sphere that is no junk and is
  larger than the threshold.
  While the sphere rests it stays locked (recentring may shrink the region and
  the edge of the image push it aside), each update finds it, and the smoothed
  radius comes closer until it has passed the threshold and the check against the
  last one lets it pass for good. The stored position is too close to the centre of a
  resting sphere for a jump (`SquareBound`, `AroundBounds`).
  A search that finds nothing has `Turns` still to go until it comes to the tile of
  the sphere, one fewer after each update, as the tiles are odd in number; that
  tile locks the sphere.

**CalibrationProofs** (any processes, controllers, names and failures;
`CalibrationAssumption`, `NoBlobAssumption`).

- `TypeCorrect`.
- `OwnCalibrationHolds`: `[]OwnCalibration`. The invariant `OwnInv` says that a
  calibration in a file or a handle is the whole one of its controller, and that
  a process that has read `n` blocks has the `n` that precede the one the
  controller will send next; so three turns, wherever they begin, yield each
  block once. All of it up to what `mixed` and `misnamed` excuse.
- `StoredFilesStay`: `[]StoredIsFound`, for each location on its own, the working
  directories included. `StoreInv` adds that a process that has yet to save would find no calibration if it looked again, unless
  `overtaken` names it, and that it has one itself if nothing has failed.

**PairingProofs** (any files, controllers, processes, failures;
`PairingAssumption`).

- `TypeCorrect`, from lemmas on `SetEntry`, `SetLine` and the reversal of lists.
- `SomeoneStartsHolds`: while `bluetoothd` is stopped and not forsaken, an active
  process has the flag `stopped`: the safety half of `RunsAgain`. The inductive
  invariant `QuietInv` adds the course of the two registrations (`CourseOK`), that
  a process alone is the only one (`AloneOK`), and that one alone that has stopped
  `bluetoothd` knows it stopped (`QuietOK`).
- `RegisteredHolds`: `[]Registered`, from `RegInv`: an unfinished file belongs to a
  process that is writing it or to a controller in `cut` (`BrokenOK`, `OpenOK`),
  and a process alone that has come past a file without failing leaves it whole
  (`AheadOK`).
- `LinesKeptHolds`: `[]LinesKept`, from `LineInv`: no list has two lines about one
  device (`UniqueOK`), a process alone holds the file's own lines with its own
  replaced (`ListOK`), and has its line in every file it has done (`DoneOK`).
  `ReadOutcome` and `WriteOutcome` say what may have become of a list when it could
  not be read, or was written in part. The property promises nothing for the one list
  that a process could not read, could not write or was writing when it ended, nor
  for those rewritten by processes that overlap.

- `PairingIsBounded`: a pairing has at most `4 * Files + 5` steps left, fewer after
  each of its own, and no other process and no `bluetoothd` adds to them.

Induction over data. The library's induction theorems take an operator as a
parameter, which the installed provers cannot instantiate. Where a proof needs
induction, on the length of a list or the distance to a value, it takes the
least counterexample: `Smallest` and `First` obtain it from the library's theorem
that `<` is well-founded on the naturals.

Only model-checked: liveness, as the proof system has no rules for `ENABLED` and
fairness here. Of `DisconnectTerminates`, `CallsReturn`, `UpdateEnds` and
`RunsAgain` the arguments are proved, a variant that every step makes smaller
(`CloseIsBounded`, `CallIsBounded`, `UpdateIsBounded`, `PairingIsBounded`); what
TLC adds is that these steps are taken. Of `FindsSphere` it adds as well that a
sphere of which the region shows a part only does not go on being found with a
bad shape. `LosesSmall`, `CatchesUp`, `CatchesUpAfterFailure` and `SettlesInSync` are
model-checked only.

## 6. Where the code and its documentation disagree

With a run: `leds_spurious`, `daemon_index`, `daemon_null`, `client_down` (see
`PROJECT.json`, "findings").

Met while reading, without a run of their own:

- Rate limiting is off for a new handle; `include/psmove.h:444` says that it is
  enabled by default (`src/psmove.c:1326`).
- Hosts are tried from the last line of `moved_hosts.txt` to the first
  (`src/daemon/moved_client.c:74`), which matters for the numbering of remote
  controllers. The model has the order of the code.
- A controller that appears between the creation of the daemon's monitor and
  its enumeration is listed twice, with two ids, and its removal removes one
  (`src/utils/moved.c:80`). `daemon` lets hotplugging overtake the start-up; `InSync`
  excuses the nodes in `missed`.
- An answer that arrives after `recv` has timed out shifts all later answers of
  that host by one, for ever (`src/daemon/moved_client.c:193`). A repeated READ
  consumes another input report (`src/utils/moved.c:208`).
- `PSMOVE_TRACKER_ROI_SIZE` (`include/psmove_tracker.h:53`) is not compared with the
  image: a region larger than it ends the program, 0 makes the count of the tiles
  divide by zero (`src/tracker/psmove_tracker.c:935`). And
  `psmove_util_set_env_int` stores the number 132, whatever it is given
  (`src/psmove_file.c:118`).
- A calibration by blinking that got worse goes back to the dimming of the round
  before, but keeps the colour measured with the smaller one
  (`src/tracker/psmove_tracker.c:1288`).
- `psmove_tracker_use_color_at_index` and `psmove_tracker_cycle_color` set the
  dimming to 0 to have it determined again; if the colour never saturates it
  stays 0 for all the controllers (`src/tracker/psmove_tracker.c:1564`).
- With all presets in use, `psmove_tracker_use_color_at_index` gives a controller
  a colour that another one has (`:1558`), and `psmove_tracker_enable` reports an
  error for a controller that is enabled (`:1056`).
- `search_tile` is "reset to 0 if found" (`:167`) but is not; the check of the
  radius then stays switched off (`:2040`).
- `psmove_tracker_set_settings` overwrites the number of search tiles that
  `psmove_tracker_new` has computed; with default settings the next search
  divides by zero (`:467`).
- The filter of the position looks at a status that is two updates old (`:2070`).
- A colour mapping is filed under the dimming of before the calibration that has
  lowered it; disabling a controller, and freeing the tracker, leaks filters.
- The Bluez 5 registration returns 1 for success, which its caller takes for the
  number of errors (`src/platform/psmove_linuxsupport.c:431`), and `psmove_pair`
  ignores the result of the registration: it returns `PSMove_True` "if the
  pairing was successful" (`include/psmove.h:415`) even when nothing was
  registered.
- `write_entry_list` rewrites a file in place although the comment above it asks
  for a backup (`src/platform/psmove_linuxsupport.c:188`); a crash in between
  loses the list, which is what `LinesKept` excuses. An info file of Bluez 5
  that a crash left out is never written later (`:515`), which is what
  `Registered` excuses, and a failing `mkdir` leaves `bluetoothd` stopped (`:523`).
- A list that cannot be opened for reading, for lack of rights or of file
  descriptors, counts as an empty one and is overwritten (`:107`); the results of
  writing it are ignored (`:199`, `:468`); if reading fails, the loop does not
  end (`:112`). The cache file of Bluez 5 is no more repaired than the info file
  (`:494`).
- A file in the working directory is preferred to that of the home directory, for
  saving as well (`src/psmove_file.c:150`): what a process has stored there is not
  found by one that is started elsewhere.
- The results of reading the addresses and the blocks over USB are ignored
  (`src/psmove_calibration.c:259`, `:293`); the file may be named after another
  controller, which is what `OwnCalibration` excuses.

## 7. What is left out

- Inside the modelled components: the format of reports and datagrams, log
  output, the pairing of a controller that the daemon sees on USB (it leaves the
  list as it was), colour adaptation and everything measured in centimetres,
  duplicated or reordered datagrams, a tracker with 0 as the dimming that the
  application sets, several spheres in one image.
- Of the calibration: the values computed from the blocks (arithmetic on
  floating-point numbers), and three blocks of which the controller sends one
  twice. Of the pairing: the content of the entries, parsing and formatting of
  addresses, the kind of init system, lines longer than the buffer of
  `read_entry_list`, a reading that fails within a list and then goes on, and a
  `stat` that fails for a file that is there. Both treat whatever happens before a file is touched as a
  choice of whether it is.
- `psmove_reinit` and the count of open handles, and the edges of
  `psmove_get_button_events`: a few lines each, with properties that would only
  restate them.
- Windows and OS X support, camera drivers: other platforms and device I/O.
- Orientation, fusion, Kalman and low-pass filters, vectors and matrices:
  floating-point arithmetic without control that outlives a call.
- Bindings, examples, vendored code, build files, the laboratory scripts of the
  other directories: users of the library, generated, or without state.

## 8. Plan

Done, in this order: output path, daemon, client, the three tracker modules,
calibration, pairing; proofs of every invariant, action property and refinement
the runs check, and the safety half of five of the eight liveness properties.

Left, where somebody goes on:

1. Composition: the daemon's WRITE requests with the writer thread of the local
   handle, so that a remote `psmove_update_leds` is a commit of `WriteBehind`.
2. The safety half of the other liveness properties: variants for the events the
   daemon has still to handle (`SettlesInSync`) and for the writer's next round
   (`CatchesUp`), and what becomes of a sphere that the region cuts off.
3. The handles of Windows, which are opened twice, and the twofold use of one
   controller by an application and a daemon.
