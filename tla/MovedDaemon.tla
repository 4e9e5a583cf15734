---------------------------- MODULE MovedDaemon ----------------------------
(***************************************************************************)
(* The device list of the move daemon, src/Lab5/src/utils/moved.c, under   *)
(* hotplugging: the udev monitor queues an event for every device node     *)
(* that comes or goes (daemon/moved_monitor.c), main enumerates what is    *)
(* plugged in after the monitor has been started, and the main loop        *)
(* handles one event and one client request at a time.                     *)
(*                                                                         *)
(* A device node is a path; `plugged' says which controller, if any, is    *)
(* behind it, each plug being a controller of its own.  A daemon device    *)
(* whose connection failed has a NULL handle, here the controller NoMove;  *)
(* dereferencing it ends the daemon.                                       *)
(***************************************************************************)
EXTENDS Naturals, Sequences, FiniteSets

CONSTANTS
  Paths,      \* hidraw device nodes, numbers in the order of enumeration
  Outputs,    \* LED and rumble reports of the clients
  NoOutput,   \* a device to which no report was written yet
  MaxPlugs,   \* bound: how many times something is plugged in
  MaxOvertakes  \* bound: how often hotplugging overtakes the daemon

ASSUME DaemonAssumption ==
  /\ Paths \subseteq Nat \ {0}
  /\ IsFiniteSet(Paths)
  /\ NoOutput \notin Outputs
  /\ MaxPlugs \in Nat
  /\ MaxOvertakes \in Nat

VARIABLES
  phase,     \* "start", "enumerate", "loop", or "crashed"
  plugged,   \* [path -> number of the controller behind it, 0 for none]
  plugs,     \* how many controllers have been plugged in
  events,    \* the udev monitor's queue
  todo,      \* devices the start-up loop has still to connect
  devs,      \* moved->devs, a list with the newest device first
  count,     \* moved->count
  overtakes, \* how often hotplugging has overtaken the daemon
  missed     \* history: the nodes the daemon may have a wrong picture of

hist == <<overtakes, missed>>
vars == <<phase, plugged, plugs, events, todo, devs, count, hist>>

NoMove == 0                   \* dev->move = NULL
Controllers == 1 .. MaxPlugs

Event == [action : {"add", "remove"}, path : Paths]
Device == [path : Paths \cup {NoMove}, move : Controllers \cup {NoMove},
           assigned_id : Nat, output : Outputs \cup {NoOutput}]

Plugged == {p \in Paths : plugged[p] # 0}
Ids(list) == {list[i].assigned_id : i \in DOMAIN list}

\* As FreeId, but the next id is taken from the length of the list.
FreeIdByLength(id, list) == id = Len(list)

\* moved_get_next_id looks for the smallest id that no device has.
FreeId(id, list) ==
  /\ id \notin Ids(list)
  /\ \A n \in 0 .. (id - 1) : n \in Ids(list)

-----------------------------------------------------------------------------
Init ==
  /\ phase = "start"
  /\ \E S \in SUBSET Paths :
       /\ Cardinality(S) <= MaxPlugs
       /\ plugged = [p \in Paths |->
                       IF p \in S THEN Cardinality({q \in S : q <= p}) ELSE 0]
       /\ plugs = Cardinality(S)
  /\ events = <<>>
  /\ todo = 0
  /\ devs = <<>>
  /\ count = 0
  /\ overtakes = 0
  /\ missed = {}

-----------------------------------------------------------------------------
(* The environment.                                                         *)

\* No event of the node waits in the monitor's queue.
CaughtUp(p) == \A i \in DOMAIN events : events[i].path # p

\* A change the daemon does not see in time.  While it counts along the
\* enumeration, a change of one node shifts the others.
Overtake(p) ==
  /\ overtakes < MaxOvertakes
  /\ overtakes' = overtakes + 1
  /\ missed' = missed \cup (IF phase = "enumerate" THEN Paths ELSE {p})

Plug(p) ==
  /\ phase # "crashed"
  /\ plugged[p] = 0
  /\ plugs < MaxPlugs
  /\ plugs' = plugs + 1
  /\ plugged' = [plugged EXCEPT ![p] = plugs + 1]
  /\ events' = Append(events, [action |-> "add", path |-> p])
  /\ IF phase = "loop" THEN UNCHANGED hist ELSE Overtake(p)
  /\ UNCHANGED <<phase, todo, devs, count>>

Unplug(p) ==
  /\ phase # "crashed"
  /\ plugged[p] # 0
  /\ plugged' = [plugged EXCEPT ![p] = 0]
  /\ events' = Append(events, [action |-> "remove", path |-> p])
  /\ IF phase = "loop" /\ CaughtUp(p) THEN UNCHANGED hist ELSE Overtake(p)
  /\ UNCHANGED <<phase, plugs, todo, devs, count>>

-----------------------------------------------------------------------------
(* The daemon.                                                              *)

\* moved_handle_connection after psmove_connect_internal or
\* psmove_connect_by_id: the device is listed even if the handle is NULL.
ListDevice(path, move) ==
  /\ \E id \in 0 .. Len(devs) :
       /\ FreeId(id, devs)
       /\ devs' = <<[path |-> path, move |-> move, assigned_id |-> id,
                     output |-> NoOutput]>> \o devs
  /\ count' = count + 1

\* psmove_connect_internal opens what is behind the path now; it fails when
\* that has just vanished (which comes to a failing call before the Unplug).
ConnectPath(p) ==
  \/ ListDevice(p, plugged[p]) /\ UNCHANGED hist
  \/ ListDevice(NoMove, NoMove) /\ Overtake(p)

\* psmove_connect_by_id(moved->count) counts along a new enumeration.
NodeAt(n) == {p \in Plugged : Cardinality({q \in Plugged : q < p}) = n}
ConnectIndexFrom1(n) ==   \* as ConnectIndex, counting from one
  \/ \E p \in NodeAt(n + 1) : ConnectPath(p)
  \/ NodeAt(n + 1) = {} /\ ListDevice(NoMove, NoMove) /\ UNCHANGED hist
ConnectIndex(n) ==
  \/ \E p \in NodeAt(n) : ConnectPath(p)
  \/ NodeAt(n) = {} /\ ListDevice(NoMove, NoMove) /\ UNCHANGED hist

\* main: psmove_count_connected, then one connection for each of the count.
StartCount ==
  /\ phase = "start"
  /\ phase' = "enumerate"
  /\ todo' = Cardinality(Plugged)
  /\ UNCHANGED <<plugged, plugs, events, devs, count, hist>>

StartConnect ==
  /\ phase = "enumerate"
  /\ todo > 0
  /\ ConnectIndex(count)
  /\ todo' = todo - 1
  /\ UNCHANGED <<phase, plugged, plugs, events>>

StartLoop ==
  /\ phase = "enumerate"
  /\ todo = 0
  /\ phase' = "loop"
  /\ UNCHANGED <<plugged, plugs, events, todo, devs, count, hist>>

\* An added device is connected by its path, unless udev no longer knows its
\* HID parent.  (One on USB is first connected, paired and disconnected again,
\* which leaves the list as it is.)
HandleAdded ==
  /\ phase = "loop"
  /\ events # <<>>
  /\ Head(events).action = "add"
  /\ \/ Head(events).path \in Plugged /\ ConnectPath(Head(events).path)
     \/ Head(events).path \notin Plugged /\ UNCHANGED <<devs, count, hist>>
  /\ events' = Tail(events)
  /\ UNCHANGED <<phase, plugged, plugs, todo>>

\* moved_handle_disconnect drops the first device of the list that has the
\* path; strcmp on the path of a NULL handle that comes earlier crashes.
Matching(p) == {i \in DOMAIN devs : devs[i].path = p}
Broken == {i \in DOMAIN devs : devs[i].move = NoMove}
\* As Without, but the head pointer is overwritten and not prev->next.
WithoutPrefix(list, i) == SubSeq(list, i + 1, Len(list))
\* As Without, but the ids above the removed one move down.
WithoutGap(list, i) ==
  [j \in 1 .. (Len(list) - 1) |->
     LET dev == list[IF j < i THEN j ELSE j + 1]
     IN  [dev EXCEPT !.assigned_id =
            IF @ > list[i].assigned_id THEN @ - 1 ELSE @]]
Without(list, i) == SubSeq(list, 1, i - 1) \o SubSeq(list, i + 1, Len(list))

\* As HandleRemoved, but psmove_dev_destroy leaves moved->count alone.
HandleRemovedUncounted ==
  /\ phase = "loop"
  /\ events # <<>>
  /\ Head(events).action = "remove"
  /\ events' = Tail(events)
  /\ LET found == Matching(Head(events).path)
         crash == \E b \in Broken : \A i \in found : b < i
     IN \/ /\ crash
           /\ phase' = "crashed"
           /\ UNCHANGED <<devs, count>>
        \/ /\ ~crash
           /\ \E i \in found :
                /\ \A j \in found : i <= j
                /\ devs' = Without(devs, i)
           /\ count' = count
           /\ phase' = phase
        \/ /\ ~crash
           /\ found = {}
           /\ UNCHANGED <<phase, devs, count>>
  /\ UNCHANGED <<plugged, plugs, todo, hist>>

HandleRemoved ==
  /\ phase = "loop"
  /\ events # <<>>
  /\ Head(events).action = "remove"
  /\ events' = Tail(events)
  /\ LET found == Matching(Head(events).path)
         crash == \E b \in Broken : \A i \in found : b < i
     IN \/ /\ crash
           /\ phase' = "crashed"
           /\ UNCHANGED <<devs, count>>
        \/ /\ ~crash
           /\ \E i \in found :
                /\ \A j \in found : i <= j
                /\ devs' = Without(devs, i)
           /\ count' = count - 1
           /\ phase' = phase
        \/ /\ ~crash
           /\ found = {}
           /\ UNCHANGED <<phase, devs, count>>
  /\ UNCHANGED <<plugged, plugs, todo, hist>>

\* A WRITE request finds its device by the assigned id; the report is written
\* to the controller by moved_write_reports in the same round of the loop.
\* Nothing happens when no device has the id.
HandleWrite(id, output) ==
  /\ phase = "loop"
  /\ \E i \in DOMAIN devs :
       /\ devs[i].assigned_id = id
       /\ \A j \in 1 .. (i - 1) : devs[j].assigned_id # id
       /\ \/ /\ devs[i].move # NoMove
             /\ devs' = [devs EXCEPT ![i].output = output]
             /\ phase' = phase
          \/ /\ devs[i].move = NoMove
             /\ phase' = "crashed"
             /\ devs' = devs
  /\ UNCHANGED <<plugged, plugs, events, todo, count, hist>>

\* READ and SERIAL requests dereference the handle without changing the list.
HandleQuery(id) ==
  /\ phase = "loop"
  /\ \E i \in Broken :
       /\ devs[i].assigned_id = id
       /\ \A j \in 1 .. (i - 1) : devs[j].assigned_id # id
  /\ phase' = "crashed"
  /\ UNCHANGED <<plugged, plugs, events, todo, devs, count, hist>>

Startup == StartCount \/ StartConnect \/ StartLoop
PollMonitor == HandleAdded \/ HandleRemoved
Requests ==
  \/ \E id \in 0 .. MaxPlugs, output \in Outputs : HandleWrite(id, output)
  \/ \E id \in 0 .. MaxPlugs : HandleQuery(id)

Next ==
  \/ Startup
  \/ PollMonitor
  \/ Requests
  \/ \E p \in Paths : Plug(p) \/ Unplug(p)

Spec == Init /\ [][Next]_vars

(* select reports the monitor's descriptor as long as it has events, and    *)
(* each round of the loop polls the monitor before it serves a request.     *)
FairSpec == Spec /\ WF_vars(Startup) /\ WF_vars(PollMonitor)

-----------------------------------------------------------------------------
(* Properties.                                                              *)

\* The values of the variables; what COUNT answers is the length of the list.
TypeOK ==
  /\ phase \in {"start", "enumerate", "loop", "crashed"}
  /\ plugged \in [Paths -> 0 .. MaxPlugs]
  /\ plugs \in 0 .. MaxPlugs
  /\ events \in Seq(Event)
  /\ todo \in Nat
  /\ devs \in Seq(Device)
  /\ count = Len(devs)
  /\ overtakes \in 0 .. MaxOvertakes
  /\ missed \subseteq Paths

\* Requests address one device at most: no id is assigned twice, however
\* devices come and go (moved_get_next_id against moved_handle_disconnect).
UniqueIds ==
  \A i, j \in DOMAIN devs : devs[i].assigned_id = devs[j].assigned_id => i = j

\* The list mirrors the device nodes: as soon as the events of a node have
\* been handled it has exactly one device, open on the controller behind it,
\* or none if nothing is plugged in; unless the daemon missed a change of that
\* very node, or one that shifted the enumeration at the start.
MirrorsNode(p) ==
  /\ \A i \in Matching(p) : devs[i].move = plugged[p]
  /\ Cardinality(Matching(p)) = IF plugged[p] = 0 THEN 0 ELSE 1
InSync ==
  phase = "loop" => \A p \in Paths \ missed : CaughtUp(p) => MirrorsNode(p)

\* When hotplugging stops, the list comes to mirror what is plugged in, unless
\* a NULL handle has ended the daemon.
Settled ==
  /\ phase = "loop"
  /\ events = <<>>
  /\ \A p \in Paths \ missed : MirrorsNode(p)
SettlesInSync == <>[](phase = "crashed" \/ Settled)

\* To its clients the list is the table of ids: a device that connects gets
\* the smallest free id, keeps it while it is listed, and no connection or
\* disconnection moves another device to a new id or out of the table.
WithId(list, n) == CHOOSE i \in DOMAIN list : list[i].assigned_id = n
TableOf(list) == [n \in Ids(list) |-> list[WithId(list, n)].move]
Table == INSTANCE IdTable WITH
  Moves <- Controllers \cup {NoMove}, table <- TableOf(devs)

ImplementsIdTable == Table!Spec

\* psmove.h: psmove_connect_by_id takes a "zero-based index of the controller
\* (0 .. psmove_count_connected() - 1)".  The client sends it, less the
\* controllers before, as the id of its requests, and compares it with what
\* COUNT answers; so there must be a device for every id below the count.
IndexNamesDevice == phase = "loop" => \A n \in 0 .. (count - 1) : n \in Ids(devs)

\* psmove.h: the argument of psmove_set_rate_limiting is "a valid PSMove
\* handle"; psmove_dev_create passes it the handle of every new device.
HandlesValid == \A i \in DOMAIN devs : devs[i].move # NoMove
=============================================================================
