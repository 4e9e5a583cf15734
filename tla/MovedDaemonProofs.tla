------------------------- MODULE MovedDaemonProofs -------------------------
(***************************************************************************)
(* Theorems about the move daemon's device list, for any device nodes and  *)
(* any hotplugging: the types, that no id is assigned twice, that the list *)
(* implements the table of ids, that it mirrors the device nodes, and that *)
(* the loop of moved_get_next_id finds the smallest free id.               *)
(***************************************************************************)
EXTENDS MovedIds, FiniteSetTheorems, SequenceTheorems, WellFoundedInduction,
        TLAPS

-----------------------------------------------------------------------------
(* The two operations on the list.                                          *)

\* Prepending: moved_handle_connection.
LEMMA Prepend ==
  ASSUME NEW S, NEW s \in Seq(S), NEW x \in S
  PROVE  /\ <<x>> \o s \in Seq(S)
         /\ Len(<<x>> \o s) = Len(s) + 1
         /\ (<<x>> \o s)[1] = x
         /\ \A j \in 2 .. (Len(s) + 1) : (<<x>> \o s)[j] = s[j - 1]
  OBVIOUS

\* Removing one element: moved_handle_disconnect.
LEMMA Removal ==
  ASSUME NEW S, NEW s \in Seq(S), NEW i \in 1 .. Len(s)
  PROVE  /\ Without(s, i) \in Seq(S)
         /\ Len(Without(s, i)) = Len(s) - 1
         /\ \A j \in 1 .. (Len(s) - 1) :
              Without(s, i)[j] = s[IF j < i THEN j ELSE j + 1]
<1> DEFINE a == SubSeq(s, 1, i - 1)
           b == SubSeq(s, i + 1, Len(s))
<1>1. /\ a \in Seq(S) /\ Len(a) = i - 1
      /\ \A j \in 1 .. (i - 1) : a[j] = s[j]
  OBVIOUS
<1>2. /\ b \in Seq(S) /\ Len(b) = Len(s) - i
      /\ \A j \in 1 .. (Len(s) - i) : b[j] = s[i + j]
  OBVIOUS
<1>3. /\ a \o b \in Seq(S) /\ Len(a \o b) = Len(s) - 1
      /\ \A j \in 1 .. (Len(s) - 1) :
           (a \o b)[j] = IF j < i THEN a[j] ELSE b[j - (i - 1)]
  <2> HIDE DEF a, b
  <2>1. /\ a \o b \in Seq(S)
        /\ Len(a \o b) = Len(a) + Len(b)
        /\ \A j \in 1 .. (Len(a) + Len(b)) :
             (a \o b)[j] = IF j <= Len(a) THEN a[j] ELSE b[j - Len(a)]
    BY <1>1, <1>2, ConcatProperties, Zenon
  <2>2. Len(a) + Len(b) = Len(s) - 1
    BY <1>1, <1>2
  <2>3. ASSUME NEW j \in 1 .. (Len(s) - 1)
        PROVE  (a \o b)[j] = IF j < i THEN a[j] ELSE b[j - (i - 1)]
    <3>1. Len(a) = i - 1 /\ (j <= Len(a) <=> j < i)
      BY <1>1
    <3>2. (a \o b)[j] = IF j <= Len(a) THEN a[j] ELSE b[j - Len(a)]
      BY <2>1, <2>2
    <3> QED BY <3>1, <3>2, Zenon
  <2> QED BY <2>1, <2>2, <2>3
<1>4. ASSUME NEW j \in 1 .. (Len(s) - 1)
      PROVE  (a \o b)[j] = s[IF j < i THEN j ELSE j + 1]
  <2> HIDE DEF a, b
  <2>1. CASE j < i
    BY <2>1, <1>1, <1>3
  <2>2. CASE ~(j < i)
    <3>1. j - (i - 1) \in 1 .. (Len(s) - i) /\ i + (j - (i - 1)) = j + 1
      BY <2>2
    <3> QED BY <2>2, <3>1, <1>2, <1>3
  <2> QED BY <2>1, <2>2
<1> QED BY <1>3, <1>4 DEF Without

-----------------------------------------------------------------------------
(* Type correctness.                                                        *)

LEMMA PluggedFinite ==
  IsFiniteSet(Plugged) /\ Cardinality(Plugged) \in Nat
  BY FS_Subset, FS_CardinalityType, DaemonAssumption DEF Plugged

\* ListDevice with a path and a controller, or with neither.
LEMMA ListDeviceTyped ==
  ASSUME TypeOK, NEW path \in Paths \cup {NoMove},
         NEW move \in Controllers \cup {NoMove}, ListDevice(path, move)
  PROVE  devs' \in Seq(Device) /\ count' = Len(devs')
<1>1. PICK id \in 0 .. Len(devs) :
        devs' = <<[path |-> path, move |-> move, assigned_id |-> id,
                   output |-> NoOutput]>> \o devs
  BY DEF ListDevice
<1>2. devs \in Seq(Device) /\ count = Len(devs)
  BY DEF TypeOK
<1> DEFINE dev == [path |-> path, move |-> move, assigned_id |-> id,
                   output |-> NoOutput]
<1>3. dev \in Device
  BY <1>2 DEF Device
<1>4. devs' = <<dev>> \o devs
  BY <1>1
<1>5. <<dev>> \o devs \in Seq(Device) /\ Len(<<dev>> \o devs) = Len(devs) + 1
  <2> HIDE DEF dev
  <2> QED BY <1>2, <1>3, Prepend
<1>6. count' = count + 1
  BY DEF ListDevice
<1> QED
  <2> HIDE DEF dev
  <2> QED BY <1>2, <1>4, <1>5, <1>6

LEMMA ConnectPathTyped ==
  ASSUME TypeOK, NEW p \in Plugged, ConnectPath(p)
  PROVE  devs' \in Seq(Device) /\ count' = Len(devs')
<1>1. p \in Paths /\ plugged[p] \in Controllers
  BY DaemonAssumption DEF TypeOK, Plugged, Controllers
<1>2. CASE ListDevice(p, plugged[p])
  BY <1>1, <1>2, ListDeviceTyped
<1>3. CASE ListDevice(NoMove, NoMove)
  BY <1>3, ListDeviceTyped
<1> QED BY <1>2, <1>3 DEF ConnectPath

\* The history of what the daemon missed.
LEMMA HistTyped ==
  ASSUME TypeOK, NEW p \in Paths, UNCHANGED hist \/ Overtake(p)
  PROVE  overtakes' \in 0 .. MaxOvertakes /\ missed' \subseteq Paths
<1>1. CASE UNCHANGED hist
  BY <1>1 DEF hist, TypeOK
<1>2. CASE Overtake(p)
  BY <1>2, DaemonAssumption DEF Overtake, TypeOK
<1> QED BY <1>1, <1>2

LEMMA InitTyped == Init => TypeOK
<1> SUFFICES ASSUME Init PROVE TypeOK
  OBVIOUS
<1>1. PICK S \in SUBSET Paths :
        /\ Cardinality(S) <= MaxPlugs
        /\ plugged = [p \in Paths |->
                        IF p \in S THEN Cardinality({q \in S : q <= p}) ELSE 0]
        /\ plugs = Cardinality(S)
  BY DEF Init
<1>2. IsFiniteSet(S) /\ Cardinality(S) \in Nat
  BY FS_Subset, FS_CardinalityType, DaemonAssumption
<1>3. ASSUME NEW p \in Paths
      PROVE  Cardinality({q \in S : q <= p}) \in 0 .. MaxPlugs
  <2>1. /\ IsFiniteSet({q \in S : q <= p})
        /\ Cardinality({q \in S : q <= p}) <= Cardinality(S)
    BY <1>2, FS_Subset
  <2>2. Cardinality({q \in S : q <= p}) \in Nat
    BY <2>1, FS_CardinalityType
  <2> QED BY <1>1, <1>2, <2>1, <2>2, DaemonAssumption
<1>4. plugged \in [Paths -> 0 .. MaxPlugs]
  BY <1>1, <1>3, DaemonAssumption
<1>5. plugs \in 0 .. MaxPlugs
  BY <1>1, <1>2, DaemonAssumption
<1> QED BY <1>4, <1>5, DaemonAssumption DEF Init, TypeOK

LEMMA StepTyped == TypeOK /\ [Next]_vars => TypeOK'
<1> SUFFICES ASSUME TypeOK, [Next]_vars PROVE TypeOK'
  OBVIOUS
<1> USE DEF TypeOK, hist
<1>1. CASE StartCount
  BY <1>1, PluggedFinite DEF StartCount
<1>2. CASE StartConnect
  <2>1. devs' \in Seq(Device) /\ count' = Len(devs')
    <3>1. ASSUME NEW p \in NodeAt(count), ConnectPath(p)
          PROVE  devs' \in Seq(Device) /\ count' = Len(devs')
      BY <3>1, ConnectPathTyped DEF NodeAt
    <3>2. ASSUME ListDevice(NoMove, NoMove)
          PROVE  devs' \in Seq(Device) /\ count' = Len(devs')
      BY <3>2, ListDeviceTyped
    <3> QED BY <1>2, <3>1, <3>2 DEF StartConnect, ConnectIndex
  <2>2. todo' \in Nat
    BY <1>2 DEF StartConnect
  <2>3. overtakes' \in 0 .. MaxOvertakes /\ missed' \subseteq Paths
    <3>1. UNCHANGED hist \/ \E p \in Paths : Overtake(p)
      BY <1>2 DEF StartConnect, ConnectIndex, ConnectPath, NodeAt, Plugged
    <3> QED BY <3>1, HistTyped
  <2> QED BY <1>2, <2>1, <2>2, <2>3 DEF StartConnect
<1>3. CASE StartLoop
  BY <1>3 DEF StartLoop
<1>4. CASE HandleAdded
  <2>1. devs' \in Seq(Device) /\ count' = Len(devs')
    BY <1>4, ConnectPathTyped DEF HandleAdded
  <2>2. events' \in Seq(Event)
    BY <1>4 DEF HandleAdded
  <2>3. overtakes' \in 0 .. MaxOvertakes /\ missed' \subseteq Paths
    <3>1. UNCHANGED hist \/ \E p \in Paths : Overtake(p)
      BY <1>4 DEF HandleAdded, ConnectPath, Plugged
    <3> QED BY <3>1, HistTyped
  <2> QED BY <1>4, <2>1, <2>2, <2>3 DEF HandleAdded
<1>5. CASE HandleRemoved
  <2>1. devs' \in Seq(Device) /\ count' = Len(devs')
    <3>1. ASSUME NEW i \in DOMAIN devs, devs' = Without(devs, i),
                 count' = count - 1
          PROVE  devs' \in Seq(Device) /\ count' = Len(devs')
      BY <3>1, Removal
    <3>2. CASE UNCHANGED <<devs, count>>
      BY <3>2
    <3> QED BY <1>5, <3>1, <3>2 DEF HandleRemoved, Matching
  <2>2. events' \in Seq(Event) /\ phase' \in {"start", "enumerate", "loop", "crashed"}
    BY <1>5 DEF HandleRemoved
  <2> QED BY <1>5, <2>1, <2>2 DEF HandleRemoved
<1>6. ASSUME NEW id \in 0 .. MaxPlugs, NEW output \in Outputs,
             HandleWrite(id, output)
      PROVE  TypeOK'
  <2>1. PICK i \in DOMAIN devs :
          \/ devs' = [devs EXCEPT ![i].output = output] /\ phase' = phase
          \/ phase' = "crashed" /\ devs' = devs
    BY <1>6 DEF HandleWrite
  <2>2. devs' \in Seq(Device) /\ Len(devs') = Len(devs)
    <3>1. [devs[i] EXCEPT !.output = output] \in Device
      <4>1. devs[i] \in Device
        OBVIOUS
      <4> QED BY <4>1 DEF Device
    <3> DEFINE dev == [devs[i] EXCEPT !.output = output]
    <3>2. [devs EXCEPT ![i] = dev] \in Seq(Device)
          /\ Len([devs EXCEPT ![i] = dev]) = Len(devs)
      <4>1. dev \in Device
        BY <3>1
      <4> HIDE DEF dev
      <4> QED BY <4>1
    <3> QED BY <2>1, <3>2
  <2> QED BY <1>6, <2>1, <2>2 DEF HandleWrite
<1>7. ASSUME NEW id \in 0 .. MaxPlugs, HandleQuery(id)
      PROVE  TypeOK'
  BY <1>7 DEF HandleQuery
<1>8. ASSUME NEW p \in Paths, Plug(p)
      PROVE  TypeOK'
  <2>1. plugs + 1 \in 0 .. MaxPlugs
    BY <1>8, DaemonAssumption DEF Plug
  <2>2. events' \in Seq(Event)
    BY <1>8 DEF Plug, Event
  <2>3. overtakes' \in 0 .. MaxOvertakes /\ missed' \subseteq Paths
    BY <1>8, HistTyped DEF Plug
  <2> QED BY <1>8, <2>1, <2>2, <2>3 DEF Plug
<1>9. ASSUME NEW p \in Paths, Unplug(p)
      PROVE  TypeOK'
  <2>1. events' \in Seq(Event)
    BY <1>9 DEF Unplug, Event
  <2>2. overtakes' \in 0 .. MaxOvertakes /\ missed' \subseteq Paths
    BY <1>9, HistTyped DEF Unplug
  <2> QED BY <1>9, <2>1, <2>2, DaemonAssumption DEF Unplug
<1>10. CASE UNCHANGED vars
  BY <1>10 DEF vars
<1> QED BY <1>1, <1>2, <1>3, <1>4, <1>5, <1>6, <1>7, <1>8, <1>9, <1>10
        DEF Next, Startup, PollMonitor, Requests

\* The daemon's variables keep their types, and moved->count is the length of
\* the list after every connection and disconnection.
THEOREM TypeCorrect == Spec => []TypeOK
<1>1. Init => TypeOK
  BY InitTyped
<1>2. TypeOK /\ [Next]_vars => TypeOK'
  BY StepTyped
<1> QED BY <1>1, <1>2, PTL DEF Spec

-----------------------------------------------------------------------------
(* Ids.                                                                     *)

\* No device has the id that ListDevice gives to the new one.
LEMMA ListDeviceUnique ==
  ASSUME TypeOK, UniqueIds, NEW path \in Paths \cup {NoMove},
         NEW move \in Controllers \cup {NoMove}, ListDevice(path, move)
  PROVE  UniqueIds'
<1>1. PICK id \in 0 .. Len(devs) :
        /\ FreeId(id, devs)
        /\ devs' = <<[path |-> path, move |-> move, assigned_id |-> id,
                      output |-> NoOutput]>> \o devs
  BY DEF ListDevice
<1>2. devs \in Seq(Device)
  BY DEF TypeOK
<1> DEFINE dev == [path |-> path, move |-> move, assigned_id |-> id,
                   output |-> NoOutput]
<1>3. dev \in Device /\ dev.assigned_id = id
  BY <1>2 DEF Device
<1>4. /\ devs' \in Seq(Device)
      /\ Len(devs') = Len(devs) + 1
      /\ devs'[1] = dev
      /\ \A j \in 2 .. (Len(devs) + 1) : devs'[j] = devs[j - 1]
  <2>1. devs' = <<dev>> \o devs
    BY <1>1
  <2> HIDE DEF dev
  <2> QED BY <2>1, <1>2, <1>3, Prepend
<1>5. \A j \in 1 .. Len(devs) : devs[j].assigned_id # id
  BY <1>1, <1>2 DEF FreeId, Ids
<1>6. ASSUME NEW i \in DOMAIN devs', NEW j \in DOMAIN devs',
             devs'[i].assigned_id = devs'[j].assigned_id
      PROVE  i = j
  <2>1. i \in 1 .. (Len(devs) + 1) /\ j \in 1 .. (Len(devs) + 1)
    BY <1>4
  <2>2. CASE i = 1 /\ j = 1
    BY <2>2
  <2>3. CASE i = 1 /\ j # 1
    <3>1. j - 1 \in 1 .. Len(devs) /\ devs'[j] = devs[j - 1]
      BY <2>1, <2>3, <1>2, <1>4
    <3> QED BY <3>1, <2>3, <1>3, <1>4, <1>5, <1>6
  <2>4. CASE i # 1 /\ j = 1
    <3>1. i - 1 \in 1 .. Len(devs) /\ devs'[i] = devs[i - 1]
      BY <2>1, <2>4, <1>2, <1>4
    <3> QED BY <3>1, <2>4, <1>3, <1>4, <1>5, <1>6
  <2>5. CASE i # 1 /\ j # 1
    <3>1. /\ i - 1 \in DOMAIN devs /\ devs'[i] = devs[i - 1]
          /\ j - 1 \in DOMAIN devs /\ devs'[j] = devs[j - 1]
      BY <2>1, <2>5, <1>2, <1>4
    <3>2. i - 1 = j - 1
      BY <3>1, <1>6 DEF UniqueIds
    <3> QED BY <3>2, <2>1
  <2> QED BY <2>2, <2>3, <2>4, <2>5
<1> QED BY <1>6 DEF UniqueIds

LEMMA ConnectPathUnique ==
  ASSUME TypeOK, UniqueIds, NEW p \in Plugged, ConnectPath(p)
  PROVE  UniqueIds'
<1>1. p \in Paths /\ plugged[p] \in Controllers
  BY DaemonAssumption DEF TypeOK, Plugged, Controllers
<1>2. CASE ListDevice(p, plugged[p])
  BY <1>1, <1>2, ListDeviceUnique
<1>3. CASE ListDevice(NoMove, NoMove)
  BY <1>3, ListDeviceUnique
<1> QED BY <1>2, <1>3 DEF ConnectPath

\* What is left after a removal keeps its ids.
LEMMA RemovalUnique ==
  ASSUME TypeOK, UniqueIds, NEW k \in DOMAIN devs, devs' = Without(devs, k)
  PROVE  UniqueIds'
<1>1. devs \in Seq(Device) /\ k \in 1 .. Len(devs)
  BY DEF TypeOK
<1>2. /\ devs' \in Seq(Device)
      /\ Len(devs') = Len(devs) - 1
      /\ \A j \in 1 .. (Len(devs) - 1) :
           devs'[j] = devs[IF j < k THEN j ELSE j + 1]
  BY <1>1, Removal
<1>3. ASSUME NEW i \in DOMAIN devs', NEW j \in DOMAIN devs',
             devs'[i].assigned_id = devs'[j].assigned_id
      PROVE  i = j
  <2> DEFINE at(n) == IF n < k THEN n ELSE n + 1
  <2>1. i \in 1 .. (Len(devs) - 1) /\ j \in 1 .. (Len(devs) - 1)
    BY <1>1, <1>2
  <2>2. at(i) \in DOMAIN devs /\ at(j) \in DOMAIN devs
    BY <2>1, <1>1
  <2>3. devs'[i] = devs[at(i)] /\ devs'[j] = devs[at(j)]
    BY <2>1, <1>2
  <2>4. at(i) = at(j)
    <3> HIDE DEF at
    <3> QED BY <2>2, <2>3, <1>3 DEF UniqueIds
  <2> QED BY <2>1, <2>4, <1>1
<1> QED BY <1>3 DEF UniqueIds

LEMMA SameListUnique ==
  ASSUME UniqueIds, devs' = devs
  PROVE  UniqueIds'
  BY DEF UniqueIds

LEMMA StepUnique == TypeOK /\ UniqueIds /\ [Next]_vars => UniqueIds'
<1> SUFFICES ASSUME TypeOK, UniqueIds, [Next]_vars PROVE UniqueIds'
  OBVIOUS
<1>1. CASE StartCount
  BY <1>1, SameListUnique DEF StartCount
<1>2. CASE StartConnect
  <2>1. ASSUME NEW p \in NodeAt(count), ConnectPath(p)
        PROVE  UniqueIds'
    BY <2>1, ConnectPathUnique DEF NodeAt
  <2>2. ASSUME ListDevice(NoMove, NoMove)
        PROVE  UniqueIds'
    BY <2>2, ListDeviceUnique
  <2> QED BY <1>2, <2>1, <2>2 DEF StartConnect, ConnectIndex
<1>3. CASE StartLoop
  BY <1>3, SameListUnique DEF StartLoop
<1>4. CASE HandleAdded
  BY <1>4, ConnectPathUnique, SameListUnique DEF HandleAdded
<1>5. CASE HandleRemoved
  BY <1>5, RemovalUnique, SameListUnique DEF HandleRemoved, Matching
<1>6. ASSUME NEW id \in 0 .. MaxPlugs, NEW output \in Outputs,
             HandleWrite(id, output)
      PROVE  UniqueIds'
  <2>1. PICK i \in DOMAIN devs :
          devs' = [devs EXCEPT ![i].output = output] \/ devs' = devs
    BY <1>6 DEF HandleWrite
  <2>2. /\ DOMAIN devs' = DOMAIN devs
        /\ \A j \in DOMAIN devs : devs'[j].assigned_id = devs[j].assigned_id
    <3> DEFINE dev == [devs[i] EXCEPT !.output = output]
    <3>1. devs \in Seq(Device) /\ devs[i] \in Device
      BY DEF TypeOK
    <3>2. dev.assigned_id = devs[i].assigned_id
      BY <3>1 DEF Device
    <3>3. ASSUME devs' = [devs EXCEPT ![i] = dev]
          PROVE  /\ DOMAIN devs' = DOMAIN devs
                 /\ \A j \in DOMAIN devs :
                      devs'[j].assigned_id = devs[j].assigned_id
      <4> HIDE DEF dev
      <4> QED BY <3>1, <3>2, <3>3
    <3> QED BY <2>1, <3>3
  <2> QED BY <2>2 DEF UniqueIds
<1>7. ASSUME NEW id \in 0 .. MaxPlugs, HandleQuery(id)
      PROVE  UniqueIds'
  BY <1>7, SameListUnique DEF HandleQuery
<1>8. ASSUME NEW p \in Paths, Plug(p) \/ Unplug(p)
      PROVE  UniqueIds'
  BY <1>8, SameListUnique DEF Plug, Unplug
<1>9. CASE UNCHANGED vars
  BY <1>9, SameListUnique DEF vars
<1> QED BY <1>1, <1>2, <1>3, <1>4, <1>5, <1>6, <1>7, <1>8, <1>9
        DEF Next, Startup, PollMonitor, Requests

\* No two listed devices have the same id, whatever is plugged in and out and
\* whenever: a request never has a choice of devices.
THEOREM IdsUnique == Spec => []UniqueIds
<1>1. Init => UniqueIds
  BY DEF Init, UniqueIds
<1>2. TypeOK /\ UniqueIds /\ [Next]_vars => UniqueIds'
  BY StepUnique
<1> QED BY <1>1, <1>2, TypeCorrect, PTL DEF Spec

-----------------------------------------------------------------------------
(* The list implements the table of ids.                                    *)

Unique(list) ==
  \A i, j \in DOMAIN list : list[i].assigned_id = list[j].assigned_id => i = j

\* The entry of a listed device is that device.
LEMMA Entry ==
  ASSUME NEW list \in Seq(Device), Unique(list), NEW i \in DOMAIN list
  PROVE  /\ list[i].assigned_id \in Ids(list)
         /\ WithId(list, list[i].assigned_id) = i
         /\ TableOf(list)[list[i].assigned_id] = list[i].move
<1> DEFINE n == list[i].assigned_id
<1>1. n \in Ids(list)
  BY DEF Ids
<1>2. \A j \in DOMAIN list : list[j].assigned_id = n => j = i
  BY DEF Unique
<1>3. WithId(list, n) = i
  BY <1>2 DEF WithId
<1> QED BY <1>1, <1>3 DEF TableOf

\* Two lists that agree on ids and controllers have the same table.
LEMMA TableSame ==
  ASSUME NEW s \in Seq(Device), NEW t \in Seq(Device), Unique(s), Unique(t),
         DOMAIN t = DOMAIN s,
         \A i \in DOMAIN s : /\ t[i].assigned_id = s[i].assigned_id
                             /\ t[i].move = s[i].move
  PROVE  TableOf(t) = TableOf(s)
<1>1. Ids(t) = Ids(s)
  BY DEF Ids
<1>2. ASSUME NEW n \in Ids(s)
      PROVE  TableOf(t)[n] = TableOf(s)[n]
  <2>1. PICK i \in DOMAIN s : s[i].assigned_id = n
    BY DEF Ids
  <2> QED BY <2>1, Entry
<1>3. /\ TableOf(t) = [n \in Ids(s) |-> TableOf(t)[n]]
      /\ TableOf(s) = [n \in Ids(s) |-> TableOf(s)[n]]
  BY <1>1 DEF TableOf
<1> QED BY <1>2, <1>3

\* A new device adds its entry.
LEMMA TablePrepend ==
  ASSUME NEW s \in Seq(Device), NEW dev \in Device, Unique(s),
         dev.assigned_id \notin Ids(s), Unique(<<dev>> \o s)
  PROVE  TableOf(<<dev>> \o s) =
           [n \in Ids(s) \cup {dev.assigned_id} |->
              IF n = dev.assigned_id THEN dev.move ELSE TableOf(s)[n]]
<1> DEFINE t == <<dev>> \o s
<1>1. /\ t \in Seq(Device)
      /\ Len(t) = Len(s) + 1
      /\ t[1] = dev
      /\ \A j \in 2 .. (Len(s) + 1) : t[j] = s[j - 1]
  BY Prepend
<1> HIDE DEF t
<1>2. ASSUME NEW i \in DOMAIN s
      PROVE  i + 1 \in DOMAIN t /\ t[i + 1] = s[i]
  BY <1>1
<1>3. Ids(t) = Ids(s) \cup {dev.assigned_id}
  <2>1. ASSUME NEW j \in DOMAIN t
        PROVE  t[j].assigned_id \in Ids(s) \cup {dev.assigned_id}
    <3>1. CASE j = 1
      BY <3>1, <1>1
    <3>2. CASE j # 1
      <4>1. j - 1 \in DOMAIN s /\ t[j] = s[j - 1]
        BY <3>2, <1>1
      <4> QED BY <4>1 DEF Ids
    <3> QED BY <3>1, <3>2
  <2>2. dev.assigned_id \in Ids(t)
    <3>1. 1 \in DOMAIN t
      BY <1>1
    <3> QED BY <3>1, <1>1 DEF Ids
  <2>3. ASSUME NEW i \in DOMAIN s
        PROVE  s[i].assigned_id \in Ids(t)
    BY <2>3, <1>2 DEF Ids
  <2> QED BY <2>1, <2>2, <2>3 DEF Ids
<1>4. Unique(t)
  BY DEF t
<1>5. TableOf(t)[dev.assigned_id] = dev.move
  <2>1. 1 \in DOMAIN t
    BY <1>1
  <2> QED BY <2>1, <1>1, <1>4, Entry
<1>6. ASSUME NEW n \in Ids(s)
      PROVE  n # dev.assigned_id /\ TableOf(t)[n] = TableOf(s)[n]
  <2>1. PICK i \in DOMAIN s : s[i].assigned_id = n
    BY DEF Ids
  <2>2. TableOf(s)[n] = s[i].move
    BY <2>1, Entry
  <2>3. TableOf(t)[n] = s[i].move
    <3>1. i + 1 \in DOMAIN t /\ t[i + 1] = s[i]
      BY <1>2
    <3>2. TableOf(t)[t[i + 1].assigned_id] = t[i + 1].move
      BY <3>1, <1>1, <1>4, Entry
    <3> QED BY <3>1, <3>2, <2>1
  <2> QED BY <2>2, <2>3
<1>7. TableOf(t) = [n \in Ids(s) \cup {dev.assigned_id} |-> TableOf(t)[n]]
  BY <1>3 DEF TableOf
<1> QED BY <1>5, <1>6, <1>7 DEF t

\* A removed device takes its entry along, and no other.
LEMMA TableRemoval ==
  ASSUME NEW s \in Seq(Device), NEW k \in 1 .. Len(s), Unique(s),
         Unique(Without(s, k))
  PROVE  TableOf(Without(s, k)) =
           [n \in Ids(s) \ {s[k].assigned_id} |-> TableOf(s)[n]]
<1> DEFINE t == Without(s, k)
           at(j) == IF j < k THEN j ELSE j + 1
<1>1. /\ t \in Seq(Device)
      /\ Len(t) = Len(s) - 1
      /\ \A j \in 1 .. (Len(s) - 1) : t[j] = s[at(j)]
  BY Removal
<1> HIDE DEF t
<1>2. ASSUME NEW j \in DOMAIN t
      PROVE  at(j) \in DOMAIN s /\ at(j) # k /\ t[j] = s[at(j)]
  BY <1>1
<1>3. ASSUME NEW i \in DOMAIN s, i # k
      PROVE  \E j \in DOMAIN t : t[j] = s[i]
  <2>1. CASE i < k
    <3>1. i \in DOMAIN t /\ t[i] = s[i]
      BY <2>1, <1>1
    <3> QED BY <3>1
  <2>2. CASE i > k
    <3>1. i - 1 \in DOMAIN t /\ at(i - 1) = i
      BY <2>2, <1>1
    <3>2. t[i - 1] = s[i]
      BY <3>1, <1>2
    <3> QED BY <3>1, <3>2
  <2> QED BY <1>3, <2>1, <2>2
<1>4. Unique(t)
  BY DEF t
<1>5. Ids(t) = Ids(s) \ {s[k].assigned_id}
  <2>1. ASSUME NEW j \in DOMAIN t
        PROVE  t[j].assigned_id \in Ids(s) \ {s[k].assigned_id}
    <3>1. s[at(j)].assigned_id # s[k].assigned_id
      BY <1>2 DEF Unique
    <3> HIDE DEF at
    <3> QED BY <3>1, <1>2 DEF Ids
  <2>2. ASSUME NEW i \in DOMAIN s, s[i].assigned_id # s[k].assigned_id
        PROVE  s[i].assigned_id \in Ids(t)
    <3>1. PICK j \in DOMAIN t : t[j] = s[i]
      BY <2>2, <1>3
    <3> QED BY <3>1 DEF Ids
  <2> QED BY <2>1, <2>2 DEF Ids
<1>6. ASSUME NEW n \in Ids(t)
      PROVE  TableOf(t)[n] = TableOf(s)[n]
  <2>1. PICK j \in DOMAIN t : t[j].assigned_id = n
    BY DEF Ids
  <2>2. TableOf(t)[n] = t[j].move
    BY <2>1, <1>1, <1>4, Entry
  <2>3. TableOf(s)[n] = s[at(j)].move
    <3> HIDE DEF at
    <3> QED BY <2>1, <1>2, Entry
  <2> QED BY <2>2, <2>3, <1>2
<1>7. TableOf(t) = [n \in Ids(t) |-> TableOf(t)[n]]
  BY DEF TableOf
<1> QED BY <1>5, <1>6, <1>7 DEF t

\* Adding a device is a connection of the table.
LEMMA ListDeviceConnects ==
  ASSUME TypeOK, UniqueIds, UniqueIds', NEW path \in Paths \cup {NoMove},
         NEW move \in Controllers \cup {NoMove}, ListDevice(path, move)
  PROVE  Table!Next
<1>1. PICK id \in 0 .. Len(devs) :
        /\ FreeId(id, devs)
        /\ devs' = <<[path |-> path, move |-> move, assigned_id |-> id,
                      output |-> NoOutput]>> \o devs
  BY DEF ListDevice
<1>2. devs \in Seq(Device)
  BY DEF TypeOK
<1> DEFINE dev == [path |-> path, move |-> move, assigned_id |-> id,
                   output |-> NoOutput]
<1>3. dev \in Device /\ dev.assigned_id = id /\ dev.move = move
  BY <1>2 DEF Device
<1>4. devs' = <<dev>> \o devs
  BY <1>1
<1> HIDE DEF dev
<1>5. Unique(devs) /\ Unique(<<dev>> \o devs)
  BY <1>4 DEF UniqueIds, Unique
<1>6. id \notin Ids(devs) /\ \A n \in 0 .. (id - 1) : n \in Ids(devs)
  BY <1>1 DEF FreeId
<1>7. TableOf(devs') = [n \in Ids(devs) \cup {id} |->
                          IF n = id THEN move ELSE TableOf(devs)[n]]
  <2>1. dev.assigned_id \notin Ids(devs)
    BY <1>3, <1>6
  <2>2. TableOf(<<dev>> \o devs) =
          [n \in Ids(devs) \cup {dev.assigned_id} |->
             IF n = dev.assigned_id THEN dev.move ELSE TableOf(devs)[n]]
    BY <2>1, <1>2, <1>3, <1>5, TablePrepend, Zenon
  <2> QED BY <2>2, <1>3, <1>4, Zenon
<1>8. DOMAIN TableOf(devs) = Ids(devs) /\ id \in DOMAIN TableOf(devs')
  BY <1>7 DEF TableOf
<1>9. Table!Connect(id, move)
  BY <1>6, <1>7, <1>8 DEF Table!Connect
<1> QED BY <1>8, <1>9 DEF Table!Next

LEMMA ConnectPathConnects ==
  ASSUME TypeOK, UniqueIds, UniqueIds', NEW p \in Plugged, ConnectPath(p)
  PROVE  Table!Next
<1>1. p \in Paths /\ plugged[p] \in Controllers
  BY DaemonAssumption DEF TypeOK, Plugged, Controllers
<1>2. CASE ListDevice(p, plugged[p])
  BY <1>1, <1>2, ListDeviceConnects
<1>3. CASE ListDevice(NoMove, NoMove)
  BY <1>3, ListDeviceConnects
<1> QED BY <1>2, <1>3 DEF ConnectPath

\* Removing a device is a disconnection of the table.
LEMMA RemovalDisconnects ==
  ASSUME TypeOK, UniqueIds, UniqueIds', NEW k \in DOMAIN devs,
         devs' = Without(devs, k)
  PROVE  Table!Next
<1>1. devs \in Seq(Device) /\ k \in 1 .. Len(devs)
  BY DEF TypeOK
<1>2. Unique(devs) /\ Unique(Without(devs, k))
  BY DEF UniqueIds, Unique
<1>3. TableOf(devs') =
        [n \in Ids(devs) \ {devs[k].assigned_id} |-> TableOf(devs)[n]]
  BY <1>1, <1>2, TableRemoval
<1>4. /\ DOMAIN TableOf(devs) = Ids(devs)
      /\ devs[k].assigned_id \in Ids(devs)
  BY DEF TableOf, Ids
<1>5. Table!Disconnect(devs[k].assigned_id)
  BY <1>3, <1>4 DEF Table!Disconnect
<1> QED BY <1>4, <1>5 DEF Table!Next

LEMMA SameListSameTable ==
  ASSUME devs' = devs
  PROVE  UNCHANGED TableOf(devs)
  OBVIOUS

\* A report written to a device leaves ids and controllers alone.
LEMMA WriteKeepsTable ==
  ASSUME TypeOK, UniqueIds, TypeOK', UniqueIds',
         NEW id \in 0 .. MaxPlugs, NEW output \in Outputs,
         HandleWrite(id, output)
  PROVE  UNCHANGED TableOf(devs)
<1>1. PICK i \in DOMAIN devs :
        devs' = [devs EXCEPT ![i].output = output] \/ devs' = devs
  BY DEF HandleWrite
<1>2. devs \in Seq(Device) /\ devs' \in Seq(Device) /\ devs[i] \in Device
  BY DEF TypeOK
<1> DEFINE dev == [devs[i] EXCEPT !.output = output]
<1>3. dev.assigned_id = devs[i].assigned_id /\ dev.move = devs[i].move
  BY <1>2 DEF Device
<1>4. CASE devs' = [devs EXCEPT ![i] = dev]
  <2>1. /\ DOMAIN devs' = DOMAIN devs
        /\ \A j \in DOMAIN devs : /\ devs'[j].assigned_id = devs[j].assigned_id
                                  /\ devs'[j].move = devs[j].move
    <3> HIDE DEF dev
    <3> QED BY <1>2, <1>3, <1>4
  <2>2. Unique(devs) /\ Unique(devs')
    BY DEF UniqueIds, Unique
  <2> QED BY <1>2, <2>1, <2>2, TableSame
<1> QED BY <1>1, <1>4, SameListSameTable

LEMMA StepTable ==
  TypeOK /\ UniqueIds /\ TypeOK' /\ UniqueIds' /\ [Next]_vars
    => [Table!Next]_(TableOf(devs))
<1> SUFFICES ASSUME TypeOK, UniqueIds, TypeOK', UniqueIds', [Next]_vars
             PROVE  Table!Next \/ UNCHANGED TableOf(devs)
  OBVIOUS
<1>1. CASE StartCount
  BY <1>1, SameListSameTable DEF StartCount
<1>2. CASE StartConnect
  <2>1. ASSUME NEW p \in NodeAt(count), ConnectPath(p)
        PROVE  Table!Next
    BY <2>1, ConnectPathConnects DEF NodeAt
  <2>2. ASSUME ListDevice(NoMove, NoMove)
        PROVE  Table!Next
    BY <2>2, ListDeviceConnects
  <2> QED BY <1>2, <2>1, <2>2 DEF StartConnect, ConnectIndex
<1>3. CASE StartLoop
  BY <1>3, SameListSameTable DEF StartLoop
<1>4. CASE HandleAdded
  BY <1>4, ConnectPathConnects, SameListSameTable DEF HandleAdded
<1>5. CASE HandleRemoved
  BY <1>5, RemovalDisconnects, SameListSameTable DEF HandleRemoved, Matching
<1>6. ASSUME NEW id \in 0 .. MaxPlugs, NEW output \in Outputs,
             HandleWrite(id, output)
      PROVE  UNCHANGED TableOf(devs)
  BY <1>6, WriteKeepsTable
<1>7. ASSUME NEW id \in 0 .. MaxPlugs, HandleQuery(id)
      PROVE  UNCHANGED TableOf(devs)
  BY <1>7, SameListSameTable DEF HandleQuery
<1>8. ASSUME NEW p \in Paths, Plug(p) \/ Unplug(p)
      PROVE  UNCHANGED TableOf(devs)
  BY <1>8, SameListSameTable DEF Plug, Unplug
<1>9. CASE UNCHANGED vars
  BY <1>9, SameListSameTable DEF vars
<1> QED BY <1>1, <1>2, <1>3, <1>4, <1>5, <1>6, <1>7, <1>8, <1>9
        DEF Next, Startup, PollMonitor, Requests

\* The linked list and its search for an id implement the table of ids: a
\* device gets the smallest free id and keeps it, whatever the others do.
THEOREM ListImplementsTable == Spec => ImplementsIdTable
<1>1. Init => Table!Init
  BY DEF Init, Table!Init, TableOf, Ids
<1>2. TypeOK /\ UniqueIds /\ TypeOK' /\ UniqueIds' /\ [Next]_vars
        => [Table!Next]_(TableOf(devs))
  BY StepTable
<1> QED BY <1>1, <1>2, TypeCorrect, IdsUnique, PTL
        DEF Spec, ImplementsIdTable, Table!Spec

-----------------------------------------------------------------------------
(* The list mirrors the nodes.                                              *)

\* No device of a list, or just one, which is open on c, has the path p.
None(list, p) == \A i \in DOMAIN list : list[i].path # p
Sole(list, p, c) ==
  \E i \in DOMAIN list : /\ list[i].path = p /\ list[i].move = c
                         /\ \A j \in DOMAIN list : list[j].path = p => j = i

LEMMA PrependList ==
  ASSUME NEW list \in Seq(Device), NEW dev \in Device, NEW p
  PROVE  /\ dev.path # p /\ None(list, p) => None(<<dev>> \o list, p)
         /\ \A c : dev.path # p /\ Sole(list, p, c) => Sole(<<dev>> \o list, p, c)
         /\ dev.path = p /\ None(list, p) => Sole(<<dev>> \o list, p, dev.move)
<1> DEFINE l == <<dev>> \o list
<1>1. /\ DOMAIN l = 1 .. (Len(list) + 1) /\ DOMAIN list = 1 .. Len(list)
      /\ Len(list) \in Nat /\ l[1] = dev
      /\ \A j \in 2 .. (Len(list) + 1) : l[j] = list[j - 1]
  BY Prepend
<1> HIDE DEF l
<1>2. ASSUME NEW j \in DOMAIN l, j # 1
      PROVE  j - 1 \in DOMAIN list /\ l[j] = list[j - 1]
  <2>1. j \in 2 .. (Len(list) + 1)
    BY <1>1, <1>2
  <2> QED
    BY <1>1, <2>1
<1>3. ASSUME dev.path # p, None(list, p) PROVE None(l, p)
  BY <1>1, <1>2, <1>3 DEF None
<1>4. ASSUME NEW c, dev.path # p, Sole(list, p, c) PROVE Sole(l, p, c)
  <2>1. PICK i \in DOMAIN list :
          /\ list[i].path = p /\ list[i].move = c
          /\ \A j \in DOMAIN list : list[j].path = p => j = i
    BY <1>4 DEF Sole
  <2>2. i + 1 \in DOMAIN l /\ l[i + 1] = list[i]
    BY <1>1
  <2>3. \A j \in DOMAIN l : l[j].path = p => j = i + 1
    BY <1>1, <1>2, <1>4, <2>1
  <2> QED
    BY <2>1, <2>2, <2>3 DEF Sole
<1>5. ASSUME dev.path = p, None(list, p) PROVE Sole(l, p, dev.move)
  <2>1. \A j \in DOMAIN l : l[j].path = p => j = 1
    BY <1>1, <1>2, <1>5 DEF None
  <2>2. 1 \in DOMAIN l
    BY <1>1
  <2> QED
    BY <1>1, <1>5, <2>1, <2>2 DEF Sole
<1> QED
  BY <1>3, <1>4, <1>5 DEF l

LEMMA RemoveList ==
  ASSUME NEW list \in Seq(Device), NEW k \in DOMAIN list, NEW p
  PROVE  /\ None(list, p) => None(Without(list, k), p)
         /\ \A c : list[k].path # p /\ Sole(list, p, c) =>
              Sole(Without(list, k), p, c)
         /\ \A c : list[k].path = p /\ Sole(list, p, c) =>
              None(Without(list, k), p)
<1> DEFINE l == Without(list, k)
           at(j) == IF j < k THEN j ELSE j + 1
<1>1. /\ DOMAIN l = 1 .. (Len(list) - 1) /\ DOMAIN list = 1 .. Len(list)
      /\ Len(list) \in Nat /\ k \in 1 .. Len(list)
      /\ \A j \in 1 .. (Len(list) - 1) : l[j] = list[at(j)]
  <2>1. k \in 1 .. Len(list)
    OBVIOUS
  <2>2. /\ l \in Seq(Device) /\ Len(l) = Len(list) - 1
        /\ \A j \in 1 .. (Len(list) - 1) : l[j] = list[at(j)]
    BY <2>1, Removal
  <2> HIDE DEF l, at
  <2> QED
    BY <2>1, <2>2
<1> HIDE DEF l
<1>2. \A j \in DOMAIN l : at(j) \in DOMAIN list /\ at(j) # k /\ l[j] = list[at(j)]
  BY <1>1
<1>3. ASSUME None(list, p) PROVE None(l, p)
  BY <1>2, <1>3 DEF None
<1>4. ASSUME NEW c, list[k].path # p, Sole(list, p, c) PROVE Sole(l, p, c)
  <2>1. PICK i \in DOMAIN list :
          /\ list[i].path = p /\ list[i].move = c
          /\ \A j \in DOMAIN list : list[j].path = p => j = i
    BY <1>4 DEF Sole
  <2>2. i # k
    BY <1>4, <2>1
  <2> DEFINE m == IF i < k THEN i ELSE i - 1
  <2>3. m \in DOMAIN l /\ at(m) = i
    BY <1>1, <2>1, <2>2
  <2>4. \A j \in DOMAIN l : at(j) = i => j = m
    BY <1>1, <2>2
  <2>5. l[m] = list[i]
    BY <1>2, <2>3
  <2> HIDE DEF m, at
  <2>6. \A j \in DOMAIN l : l[j].path = p => j = m
    BY <1>2, <2>1, <2>4
  <2> QED
    BY <2>1, <2>3, <2>5, <2>6 DEF Sole
<1>5. ASSUME NEW c, list[k].path = p, Sole(list, p, c) PROVE None(l, p)
  <2>1. \A j \in DOMAIN list : list[j].path = p => j = k
    BY <1>5 DEF Sole
  <2> HIDE DEF at
  <2> QED
    BY <1>2, <2>1 DEF None
<1> QED
  BY <1>3, <1>4, <1>5 DEF l

-----------------------------------------------------------------------------
(* The events of a node that wait: none, one, or a removal and an addition. *)

Silent(s, p) == \A i \in DOMAIN s : s[i].path # p
Single(s, p, a) ==
  \E i \in DOMAIN s : /\ s[i].path = p /\ s[i].action = a
                      /\ \A j \in DOMAIN s : s[j].path = p => j = i
Swap(s, p) ==
  \E i, k \in DOMAIN s :
    /\ i < k
    /\ s[i].path = p /\ s[i].action = "remove"
    /\ s[k].path = p /\ s[k].action = "add"
    /\ \A j \in DOMAIN s : s[j].path = p => j \in {i, k}

LEMMA AppendEvent ==
  ASSUME NEW s \in Seq(Event), NEW e \in Event, NEW p
  PROVE  /\ e.path # p /\ Silent(s, p) => Silent(Append(s, e), p)
         /\ \A a : e.path # p /\ Single(s, p, a) => Single(Append(s, e), p, a)
         /\ e.path # p /\ Swap(s, p) => Swap(Append(s, e), p)
         /\ e.path = p /\ Silent(s, p) => Single(Append(s, e), p, e.action)
         /\ e = [action |-> "add", path |-> p] /\ Single(s, p, "remove") =>
              Swap(Append(s, e), p)
<1> DEFINE t == Append(s, e)
           n == Len(s) + 1
<1>1. /\ DOMAIN t = 1 .. n /\ DOMAIN s = 1 .. Len(s) /\ Len(s) \in Nat /\ t[n] = e
      /\ \A i \in 1 .. Len(s) : t[i] = s[i]
  OBVIOUS
<1> HIDE DEF t
<1>2. /\ \A i \in DOMAIN s : i \in DOMAIN t /\ t[i] = s[i] /\ i < n
      /\ \A i \in DOMAIN t : i = n \/ i \in DOMAIN s
      /\ n \in DOMAIN t
  BY <1>1
<1> HIDE DEF n
<1>3. ASSUME e.path # p, Silent(s, p) PROVE Silent(t, p)
  BY <1>1, <1>2, <1>3 DEF Silent
<1>4. ASSUME NEW a, e.path # p, Single(s, p, a) PROVE Single(t, p, a)
  BY <1>1, <1>2, <1>4 DEF Single
<1>5. ASSUME e.path # p, Swap(s, p) PROVE Swap(t, p)
  <2>1. PICK i, k \in DOMAIN s :
          /\ i < k
          /\ s[i].path = p /\ s[i].action = "remove"
          /\ s[k].path = p /\ s[k].action = "add"
          /\ \A j \in DOMAIN s : s[j].path = p => j \in {i, k}
    BY <1>5 DEF Swap
  <2>2. \A j \in DOMAIN t : t[j].path = p => j \in {i, k}
    BY <1>1, <1>2, <1>5, <2>1
  <2> QED
    BY <1>2, <2>1, <2>2 DEF Swap
<1>6. ASSUME e.path = p, Silent(s, p) PROVE Single(t, p, e.action)
  BY <1>1, <1>2, <1>6 DEF Single, Silent
<1>7. ASSUME e = [action |-> "add", path |-> p], Single(s, p, "remove")
      PROVE  Swap(t, p)
  <2>1. PICK i \in DOMAIN s :
          /\ s[i].path = p /\ s[i].action = "remove"
          /\ \A j \in DOMAIN s : s[j].path = p => j = i
    BY <1>7 DEF Single
  <2>2. \A j \in DOMAIN t : t[j].path = p => j \in {i, n}
    BY <1>1, <1>2, <2>1
  <2>3. t[n].path = p /\ t[n].action = "add"
    BY <1>1, <1>7
  <2> QED
    BY <1>2, <2>1, <2>2, <2>3 DEF Swap
<1> QED
  BY <1>3, <1>4, <1>5, <1>6, <1>7 DEF t

LEMMA TailEvent ==
  ASSUME NEW s \in Seq(Event), s # <<>>, NEW p
  PROVE  /\ Silent(s, p) => Head(s).path # p /\ Silent(Tail(s), p)
         /\ \A a : Head(s).path # p /\ Single(s, p, a) => Single(Tail(s), p, a)
         /\ Head(s).path # p /\ Swap(s, p) => Swap(Tail(s), p)
         /\ \A a : Head(s).path = p /\ Single(s, p, a) =>
              Head(s).action = a /\ Silent(Tail(s), p)
         /\ Head(s).path = p /\ Swap(s, p) =>
              Head(s).action = "remove" /\ Single(Tail(s), p, "add")
<1> DEFINE t == Tail(s)
           h == Head(s)
<1>1. /\ DOMAIN t = 1 .. (Len(s) - 1) /\ DOMAIN s = 1 .. Len(s)
      /\ Len(s) \in Nat \ {0} /\ s[1] = h
      /\ \A i \in 1 .. (Len(s) - 1) : t[i] = s[i + 1]
  OBVIOUS
<1> HIDE DEF t, h
<1>2. /\ \A i \in DOMAIN s : i # 1 => i - 1 \in DOMAIN t /\ t[i - 1] = s[i]
      /\ \A i \in DOMAIN t : i + 1 \in DOMAIN s /\ i + 1 # 1 /\ t[i] = s[i + 1]
      /\ 1 \in DOMAIN s
  BY <1>1
<1>3. ASSUME Silent(s, p) PROVE h.path # p /\ Silent(t, p)
  BY <1>1, <1>2, <1>3 DEF Silent
<1>4. ASSUME NEW a, h.path # p, Single(s, p, a) PROVE Single(t, p, a)
  <2>1. PICK i \in DOMAIN s :
          /\ s[i].path = p /\ s[i].action = a
          /\ \A j \in DOMAIN s : s[j].path = p => j = i
    BY <1>4 DEF Single
  <2>2. i - 1 \in DOMAIN t /\ t[i - 1] = s[i]
    BY <1>1, <1>2, <1>4, <2>1
  <2>3. \A j \in DOMAIN t : t[j].path = p => j = i - 1
    BY <1>1, <1>2, <2>1
  <2> QED
    BY <2>1, <2>2, <2>3 DEF Single
<1>5. ASSUME Swap(s, p)
      PROVE  \E i, k \in DOMAIN s :
               /\ i < k
               /\ s[i].path = p /\ s[i].action = "remove"
               /\ s[k].path = p /\ s[k].action = "add"
               /\ \A j \in DOMAIN s : s[j].path = p => j \in {i, k}
  BY <1>5 DEF Swap
<1>6. ASSUME h.path # p, Swap(s, p) PROVE Swap(t, p)
  <2>1. PICK i, k \in DOMAIN s :
          /\ i < k
          /\ s[i].path = p /\ s[i].action = "remove"
          /\ s[k].path = p /\ s[k].action = "add"
          /\ \A j \in DOMAIN s : s[j].path = p => j \in {i, k}
    BY <1>5, <1>6
  <2>2. /\ i - 1 \in DOMAIN t /\ t[i - 1] = s[i]
        /\ k - 1 \in DOMAIN t /\ t[k - 1] = s[k] /\ i - 1 < k - 1
    BY <1>1, <1>2, <1>6, <2>1
  <2>3. ASSUME NEW j \in DOMAIN t, t[j].path = p PROVE j \in {i - 1, k - 1}
    <3>1. j + 1 \in {i, k}
      BY <1>2, <2>1, <2>3
    <3>2. j \in Nat /\ i \in Nat /\ k \in Nat
      BY <1>1, <2>1
    <3> QED
      BY <3>1, <3>2
  <2> QED
    BY <2>1, <2>2, <2>3 DEF Swap
<1>7. ASSUME NEW a, h.path = p, Single(s, p, a)
      PROVE  h.action = a /\ Silent(t, p)
  <2>1. PICK i \in DOMAIN s :
          /\ s[i].path = p /\ s[i].action = a
          /\ \A j \in DOMAIN s : s[j].path = p => j = i
    BY <1>7 DEF Single
  <2>2. i = 1
    BY <1>1, <1>2, <1>7, <2>1
  <2> QED
    BY <1>1, <1>2, <2>1, <2>2 DEF Silent
<1>8. ASSUME h.path = p, Swap(s, p)
      PROVE  h.action = "remove" /\ Single(t, p, "add")
  <2>1. PICK i, k \in DOMAIN s :
          /\ i < k
          /\ s[i].path = p /\ s[i].action = "remove"
          /\ s[k].path = p /\ s[k].action = "add"
          /\ \A j \in DOMAIN s : s[j].path = p => j \in {i, k}
    BY <1>5, <1>8
  <2>2. i = 1
    BY <1>1, <1>2, <1>8, <2>1
  <2>3. k - 1 \in DOMAIN t /\ t[k - 1] = s[k]
    BY <1>1, <1>2, <2>1, <2>2
  <2>4. \A j \in DOMAIN t : t[j].path = p => j = k - 1
    BY <1>1, <1>2, <2>1, <2>2
  <2> QED
    BY <1>1, <2>1, <2>2, <2>3, <2>4 DEF Single
<1> QED
  BY <1>3, <1>4, <1>6, <1>7, <1>8 DEF t, h

-----------------------------------------------------------------------------
(* The enumeration counts along the nodes.                                  *)

Rank(p) == Cardinality({q \in Plugged : q < p})

LEMMA RankMonotone ==
  ASSUME NEW p \in Plugged
  PROVE  /\ Rank(p) \in 0 .. (Cardinality(Plugged) - 1)
         /\ \A q \in Plugged : q < p => Rank(q) < Rank(p)
<1> DEFINE Below(q) == {r \in Plugged : r < q}
<1>1. ASSUME NEW q \in Plugged
      PROVE  IsFiniteSet(Below(q)) /\ Cardinality(Below(q)) \in Nat
  BY PluggedFinite, FS_Subset, FS_CardinalityType
<1>2. Plugged \subseteq Nat
  BY DaemonAssumption DEF Plugged
<1>3. Cardinality(Below(p)) <= Cardinality(Plugged) - 1
  <2>1. /\ IsFiniteSet(Plugged \ {p})
        /\ Cardinality(Plugged \ {p}) = Cardinality(Plugged) - 1
    BY PluggedFinite, FS_RemoveElement
  <2>2. Below(p) \in SUBSET (Plugged \ {p})
    BY <1>2
  <2> QED
    BY <2>1, <2>2, FS_Subset
<1>4. ASSUME NEW q \in Plugged, q < p
      PROVE  Cardinality(Below(q)) < Cardinality(Below(p))
  <2>1. q \notin Below(q) /\ Below(q) \cup {q} \in SUBSET Below(p)
    <3>1. p \in Nat /\ q \in Nat /\ \A r \in Below(q) : r \in Nat /\ r < q
      BY <1>2
    <3>2. \A r \in Below(q) : r < p
      BY <1>4, <3>1
    <3>3. q \notin Below(q)
      BY <3>1
    <3>4. q \in Below(p)
      BY <1>4
    <3>5. \A r \in Below(q) : r \in Below(p)
      BY <3>2
    <3> QED
      BY <3>3, <3>4, <3>5
  <2>2. Cardinality(Below(q) \cup {q}) = Cardinality(Below(q)) + 1
    BY <1>1, <2>1, FS_AddElement
  <2>3. Cardinality(Below(q) \cup {q}) <= Cardinality(Below(p))
    BY <1>1, <2>1, FS_Subset
  <2> HIDE DEF Below
  <2> QED
    BY <1>1, <2>2, <2>3
<1> QED
  BY <1>1, <1>3, <1>4, PluggedFinite DEF Rank

LEMMA RankOnto ==
  ASSUME NEW n \in Nat, n < Cardinality(Plugged)
  PROVE  \E p \in Plugged : NodeAt(n) = {p} /\ Rank(p) = n
<1> DEFINE c == Cardinality(Plugged)
           rank == [p \in Plugged |-> Rank(p)]
<1>1. \A p, q \in Plugged : Rank(p) = Rank(q) => p = q
  <2>1. \A p, q \in Plugged : p < q \/ q < p \/ p = q
    BY DaemonAssumption DEF Plugged
  <2>2. \A p \in Plugged : Rank(p) \in Int
    BY RankMonotone
  <2> QED
    BY <2>1, <2>2, RankMonotone
<1>2. rank \in Injection(Plugged, 0 .. (c - 1))
  BY <1>1, RankMonotone DEF Injection, IsInjective
<1>3. IsFiniteSet(0 .. (c - 1)) /\ Cardinality(0 .. (c - 1)) = c
  <2>1. c \in Nat
    BY PluggedFinite
  <2> HIDE DEF c
  <2>2. 0 \in Int /\ c - 1 \in Int
    BY <2>1
  <2> QED
    BY <2>1, <2>2, FS_Interval
<1>4. rank \in Surjection(Plugged, 0 .. (c - 1))
  BY <1>2, <1>3, FS_Injection
<1>5. PICK p \in Plugged : rank[p] = n
  <2>1. n \in 0 .. (c - 1)
    BY PluggedFinite
  <2> HIDE DEF rank, c
  <2> QED
    BY <1>4, <2>1 DEF Surjection
<1> QED
  BY <1>1, <1>5 DEF NodeAt, Rank

-----------------------------------------------------------------------------
(* The invariant: what the list, the nodes and the events have in common.   *)

\* In the loop the list follows a node, its events still to come included.
Follows(p) ==
  \/ /\ Silent(events, p)
     /\ IF plugged[p] = 0 THEN None(devs, p) ELSE Sole(devs, p, plugged[p])
  \/ Single(events, p, "add") /\ plugged[p] # 0 /\ None(devs, p)
  \/ /\ Single(events, p, "remove") /\ plugged[p] = 0
     /\ \E c : Sole(devs, p, c)
  \/ /\ Swap(events, p) /\ plugged[p] # 0
     /\ \E c : Sole(devs, p, c)

StartInv ==
  phase = "start" =>
    devs = <<>> /\ \A p \in Paths \ missed : Silent(events, p)

\* While nothing changes, the enumeration lists the nodes one after the other.
EnumerateInv ==
  phase = "enumerate" /\ missed # Paths =>
    /\ todo + count = Cardinality(Plugged)
    /\ \A p \in Paths : IF p \in Plugged /\ Rank(p) < count
                          THEN Sole(devs, p, plugged[p]) ELSE None(devs, p)
    /\ \A p \in Paths \ missed : Silent(events, p)

LoopInv == phase = "loop" => \A p \in Paths \ missed : Follows(p)

SyncInv == StartInv /\ EnumerateInv /\ LoopInv

LEMMA ListDeviceForm ==
  ASSUME TypeOK, NEW path \in Paths \cup {NoMove},
         NEW move \in Controllers \cup {NoMove}, ListDevice(path, move)
  PROVE  /\ count' = count + 1
         /\ \A p : /\ path # p /\ None(devs, p) => None(devs', p)
                   /\ \A c : path # p /\ Sole(devs, p, c) => Sole(devs', p, c)
                   /\ path = p /\ None(devs, p) => Sole(devs', p, move)
<1>1. PICK id \in 0 .. Len(devs) :
        devs' = <<[path |-> path, move |-> move, assigned_id |-> id,
                   output |-> NoOutput]>> \o devs
  BY DEF ListDevice
<1>2. devs \in Seq(Device)
  BY DEF TypeOK
<1> DEFINE dev == [path |-> path, move |-> move, assigned_id |-> id,
                   output |-> NoOutput]
<1>3. dev \in Device /\ dev.path = path /\ dev.move = move
  BY <1>2 DEF Device
<1>4. devs' = <<dev>> \o devs
  BY <1>1
<1> HIDE DEF dev
<1> QED
  BY <1>2, <1>3, <1>4, PrependList DEF ListDevice

\* Every connection that does not overtake lists the controller of its node.
LEMMA ConnectPathForm ==
  ASSUME TypeOK, NEW p \in Plugged, ConnectPath(p)
  PROVE  /\ count' = count + 1 /\ p \in Paths
         /\ \/ UNCHANGED hist /\ (None(devs, p) => Sole(devs', p, plugged[p]))
            \/ Overtake(p)
         /\ \A q \in Paths \ {p} : /\ None(devs, q) => None(devs', q)
                                   /\ \A c : Sole(devs, q, c) => Sole(devs', q, c)
<1>1. p \in Paths /\ plugged[p] \in Controllers /\ NoMove \notin Paths
  BY DaemonAssumption DEF TypeOK, Plugged, Controllers, NoMove
<1>2. CASE ListDevice(p, plugged[p]) /\ UNCHANGED hist
  BY <1>1, <1>2, ListDeviceForm
<1>3. CASE ListDevice(NoMove, NoMove) /\ Overtake(p)
  BY <1>1, <1>3, ListDeviceForm
<1> QED
  BY <1>2, <1>3 DEF ConnectPath

\* A report that is written changes neither paths nor handles.
LEMMA WriteForm ==
  ASSUME TypeOK, NEW i \in DOMAIN devs, NEW output,
         devs' = [devs EXCEPT ![i].output = output], NEW p
  PROVE  /\ None(devs, p) => None(devs', p)
         /\ \A c : Sole(devs, p, c) => Sole(devs', p, c)
<1>1. devs[i] \in Device /\ DOMAIN devs' = DOMAIN devs
  BY DEF TypeOK
<1>2. /\ devs'[i] = [devs[i] EXCEPT !.output = output]
      /\ \A j \in DOMAIN devs : j # i => devs'[j] = devs[j]
  OBVIOUS
<1>3. devs'[i].path = devs[i].path /\ devs'[i].move = devs[i].move
  BY <1>1, <1>2 DEF Device
<1>4. \A j \in DOMAIN devs : devs'[j].path = devs[j].path
                             /\ devs'[j].move = devs[j].move
  BY <1>2, <1>3
<1> QED
  BY <1>1, <1>4 DEF None, Sole

\* A change of one node, and its event, leave the others as they were.
LEMMA OthersFollow ==
  ASSUME TypeOK, NEW p \in Paths, NEW q \in Paths \ {p}, Follows(q),
         NEW e \in Event, e.path = p, events' = Append(events, e),
         NEW v, plugged' = [plugged EXCEPT ![p] = v], UNCHANGED devs
  PROVE  Follows(q)'
<1>1. plugged'[q] = plugged[q] /\ events \in Seq(Event) /\ e.path # q
  BY DEF TypeOK
<1>2. /\ Silent(events, q) => Silent(events', q)
      /\ \A a : Single(events, q, a) => Single(events', q, a)
      /\ Swap(events, q) => Swap(events', q)
  BY <1>1, AppendEvent
<1> QED
  BY <1>1, <1>2 DEF Follows

LEMMA PlugSync ==
  ASSUME TypeOK, SyncInv, NEW p \in Paths, Plug(p)
  PROVE  SyncInv'
<1> DEFINE e == [action |-> "add", path |-> p]
<1>1. /\ plugged[p] = 0 /\ plugged' = [plugged EXCEPT ![p] = plugs + 1]
      /\ events' = Append(events, e) /\ UNCHANGED <<phase, todo, devs, count>>
      /\ IF phase = "loop" THEN UNCHANGED hist ELSE Overtake(p)
  BY DEF Plug
<1>2. e \in Event /\ e.path = p /\ e.action = "add" /\ events \in Seq(Event)
      /\ missed \subseteq Paths
  BY DEF Event, TypeOK
<1> HIDE DEF e
<1>3. StartInv'
  BY <1>1, <1>2, AppendEvent DEF SyncInv, StartInv, Overtake
<1>4. EnumerateInv'
  BY <1>1, <1>2 DEF EnumerateInv, Overtake
<1>5. LoopInv'
  <2> SUFFICES ASSUME phase = "loop", NEW q \in Paths \ missed
               PROVE  Follows(q)'
    BY <1>1 DEF LoopInv, hist
  <2>1. Follows(q)
    BY DEF SyncInv, LoopInv
  <2>2. CASE q # p
    BY <1>1, <1>2, <2>1, <2>2, OthersFollow
  <2>3. CASE q = p
    <3>1. plugged'[p] # 0
      BY <1>1 DEF TypeOK
    <3>2. CASE Silent(events, p) /\ None(devs, p)
      BY <1>1, <1>2, <2>3, <3>1, <3>2, AppendEvent DEF Follows
    <3>3. CASE Single(events, p, "remove") /\ \E c : Sole(devs, p, c)
      <4>1. Swap(events', p)
        BY <1>1, <1>2, <3>3, AppendEvent DEF e
      <4> QED
        BY <1>1, <2>3, <3>1, <3>3, <4>1 DEF Follows
    <3> QED
      BY <1>1, <2>1, <2>3, <3>2, <3>3 DEF Follows
  <2> QED
    BY <2>2, <2>3
<1> QED
  BY <1>3, <1>4, <1>5 DEF SyncInv

LEMMA UnplugSync ==
  ASSUME TypeOK, SyncInv, NEW p \in Paths, Unplug(p)
  PROVE  SyncInv'
<1> DEFINE e == [action |-> "remove", path |-> p]
<1>1. /\ plugged[p] # 0 /\ plugged' = [plugged EXCEPT ![p] = 0]
      /\ events' = Append(events, e) /\ UNCHANGED <<phase, todo, devs, count>>
      /\ IF phase = "loop" /\ CaughtUp(p) THEN UNCHANGED hist ELSE Overtake(p)
  BY DEF Unplug
<1>2. e \in Event /\ e.path = p /\ e.action = "remove" /\ events \in Seq(Event)
      /\ missed \subseteq Paths
  BY DEF Event, TypeOK
<1> HIDE DEF e
<1>3. StartInv'
  BY <1>1, <1>2, AppendEvent DEF SyncInv, StartInv, Overtake
<1>4. EnumerateInv'
  BY <1>1, <1>2 DEF EnumerateInv, Overtake
<1>5. LoopInv'
  <2> SUFFICES ASSUME phase = "loop", NEW q \in Paths \ missed'
               PROVE  Follows(q)'
    BY <1>1 DEF LoopInv
  <2>1. Follows(q)
    BY <1>1 DEF SyncInv, LoopInv, hist, Overtake
  <2>2. CASE q # p
    BY <1>1, <1>2, <2>1, <2>2, OthersFollow
  <2>3. CASE q = p
    <3>1. Silent(events, p)
      BY <1>1, <2>3 DEF CaughtUp, Silent, Overtake
    <3>2. Sole(devs, p, plugged[p])
      BY <1>1, <2>1, <2>3, <3>1 DEF Follows, Silent, Single, Swap
    <3>3. plugged'[p] = 0 /\ Single(events', p, "remove")
      BY <1>1, <1>2, <3>1, AppendEvent DEF TypeOK
    <3> QED
      BY <1>1, <2>3, <3>2, <3>3 DEF Follows
  <2> QED
    BY <2>2, <2>3
<1> QED
  BY <1>3, <1>4, <1>5 DEF SyncInv

LEMMA StartupSync ==
  ASSUME TypeOK, SyncInv, Startup
  PROVE  SyncInv'
<1>1. CASE StartCount
  <2>1. /\ phase = "start" /\ phase' = "enumerate"
        /\ todo' = Cardinality(Plugged)
        /\ UNCHANGED <<plugged, plugs, events, devs, count, hist>>
    BY <1>1 DEF StartCount
  <2>2. devs = <<>> /\ count = 0 /\ \A p \in Paths \ missed : Silent(events, p)
    BY <2>1 DEF SyncInv, StartInv, TypeOK
  <2>3. \A p \in Plugged : ~(Rank(p) < 0)
    BY RankMonotone
  <2>4. Plugged' = Plugged /\ \A p : Rank(p)' = Rank(p)
    BY <2>1 DEF Plugged, Rank
  <2>5. EnumerateInv'
    BY <2>1, <2>2, <2>3, <2>4, PluggedFinite DEF EnumerateInv, None, hist
  <2> QED
    BY <2>1, <2>5 DEF SyncInv, StartInv, LoopInv
<1>2. CASE StartConnect
  <2>1. /\ phase = "enumerate" /\ todo > 0 /\ todo' = todo - 1
        /\ ConnectIndex(count) /\ UNCHANGED <<phase, plugged, plugs, events>>
    BY <1>2 DEF StartConnect
  <2>2. Plugged' = Plugged /\ \A p : Rank(p)' = Rank(p)
    BY <2>1 DEF Plugged, Rank
  <2>3. EnumerateInv'
    <3> SUFFICES ASSUME missed' # Paths
                 PROVE  /\ todo' + count' = Cardinality(Plugged)
                        /\ \A q \in Paths : IF q \in Plugged /\ Rank(q) < count'
                             THEN Sole(devs', q, plugged[q]) ELSE None(devs', q)
                        /\ \A q \in Paths \ missed' : Silent(events, q)
      BY <2>1, <2>2 DEF EnumerateInv
    <3>1. missed' = missed
      <4>1. UNCHANGED hist \/ \E p \in Plugged : Overtake(p)
        BY <2>1 DEF ConnectIndex, ConnectPath, NodeAt
      <4> QED
        BY <2>1, <4>1 DEF Overtake, hist, TypeOK
    <3>2. /\ todo + count = Cardinality(Plugged)
          /\ \A q \in Paths : IF q \in Plugged /\ Rank(q) < count
                                THEN Sole(devs, q, plugged[q]) ELSE None(devs, q)
          /\ \A q \in Paths \ missed : Silent(events, q)
      BY <2>1, <3>1 DEF SyncInv, EnumerateInv
    <3>3. count \in Nat /\ todo \in Nat
      BY DEF TypeOK
    <3>4. PICK p \in Plugged : NodeAt(count) = {p} /\ Rank(p) = count
      BY <2>1, <3>2, <3>3, RankOnto
    <3>5. ConnectPath(p)
      BY <2>1, <3>4 DEF ConnectIndex
    <3>6. ~Overtake(p)
      BY <2>1, <3>1 DEF Overtake, TypeOK
    <3>7. /\ count' = count + 1 /\ p \in Paths
          /\ None(devs, p) => Sole(devs', p, plugged[p])
          /\ \A q \in Paths \ {p} : /\ None(devs, q) => None(devs', q)
                                    /\ \A c : Sole(devs, q, c) => Sole(devs', q, c)
      BY <3>5, <3>6, ConnectPathForm
    <3>8. \A q \in Plugged : Rank(q) \in Int /\ (Rank(q) = count => q = p)
      BY <3>4, RankMonotone DEF NodeAt, Rank
    <3>9. Sole(devs', p, plugged[p])
      BY <3>2, <3>3, <3>4, <3>7
    <3>10. ASSUME NEW q \in Paths
           PROVE  IF q \in Plugged /\ Rank(q) < count'
                    THEN Sole(devs', q, plugged[q]) ELSE None(devs', q)
      <4>1. CASE q = p
        BY <3>3, <3>4, <3>7, <3>9, <4>1
      <4>2. CASE q # p
        <5>1. q \in Plugged => (Rank(q) < count' <=> Rank(q) < count)
          BY <3>3, <3>7, <3>8, <4>2
        <5> QED
          BY <3>2, <3>7, <4>2, <5>1
      <4> QED
        BY <4>1, <4>2
    <3> QED
      BY <2>1, <3>1, <3>2, <3>3, <3>7, <3>10
  <2> QED
    BY <2>1, <2>3 DEF SyncInv, StartInv, LoopInv
<1>3. CASE StartLoop
  <2>1. /\ phase = "enumerate" /\ phase' = "loop" /\ todo = 0
        /\ UNCHANGED <<plugged, plugs, events, todo, devs, count, hist>>
    BY <1>3 DEF StartLoop
  <2>2. ASSUME NEW p \in Paths \ missed PROVE Follows(p)
    <3>1. /\ todo + count = Cardinality(Plugged) /\ Silent(events, p)
          /\ IF p \in Plugged /\ Rank(p) < count
               THEN Sole(devs, p, plugged[p]) ELSE None(devs, p)
      BY <2>1, <2>2 DEF SyncInv, EnumerateInv
    <3>2. count = Cardinality(Plugged)
      BY <2>1, <3>1 DEF TypeOK
    <3>3. p \in Plugged => Rank(p) < count
      BY <3>2, RankMonotone, PluggedFinite
    <3> QED
      BY <3>1, <3>3 DEF Follows, Plugged
  <2>3. LoopInv'
    BY <2>1, <2>2 DEF LoopInv, Follows, hist
  <2> QED
    BY <2>1, <2>3 DEF SyncInv, StartInv, EnumerateInv
<1> QED
  BY <1>1, <1>2, <1>3 DEF Startup

LEMMA AddedSync ==
  ASSUME TypeOK, SyncInv, HandleAdded
  PROVE  SyncInv'
<1> DEFINE p == Head(events).path
<1>1. /\ phase = "loop" /\ events # <<>> /\ Head(events).action = "add"
      /\ \/ p \in Plugged /\ ConnectPath(p)
         \/ p \notin Plugged /\ UNCHANGED <<devs, count, hist>>
      /\ events' = Tail(events) /\ UNCHANGED <<phase, plugged, plugs, todo>>
  BY DEF HandleAdded
<1>2. p \in Paths /\ events \in Seq(Event) /\ missed \subseteq Paths
  <2>1. events \in Seq(Event) /\ Head(events) \in Event /\ missed \subseteq Paths
    BY <1>1 DEF TypeOK
  <2> QED
    BY <2>1 DEF Event
<1>3. missed' = missed \/ missed' = missed \cup {p}
  BY <1>1, ConnectPathForm DEF hist, Overtake
<1> SUFFICES ASSUME NEW q \in Paths \ missed' PROVE Follows(q)'
  BY <1>1 DEF SyncInv, StartInv, EnumerateInv, LoopInv
<1>4. Follows(q) /\ q \in Paths \ missed
  BY <1>1, <1>3 DEF SyncInv, LoopInv
<1> HIDE DEF p
<1>5. CASE q # p
  <2>1. /\ None(devs, q) => None(devs', q)
        /\ \A c : Sole(devs, q, c) => Sole(devs', q, c)
    BY <1>1, <1>4, <1>5, ConnectPathForm
  <2>2. /\ Silent(events, q) => Silent(events', q)
        /\ \A a : Single(events, q, a) => Single(events', q, a)
        /\ Swap(events, q) => Swap(events', q)
    BY <1>1, <1>2, <1>5, TailEvent DEF p
  <2> QED
    BY <1>1, <1>4, <2>1, <2>2 DEF Follows
<1>6. CASE q = p
  <2>1. /\ ~Silent(events, p) /\ ~Swap(events, p)
        /\ \A a : Single(events, p, a) => a = "add" /\ Silent(events', p)
    BY <1>1, <1>2, TailEvent DEF p
  <2>2. Silent(events', p) /\ plugged[p] # 0 /\ None(devs, p)
    BY <1>4, <1>6, <2>1 DEF Follows
  <2>3. ConnectPath(p) /\ p \in Plugged
    BY <1>1, <1>2, <2>2 DEF Plugged
  <2>4. Sole(devs', p, plugged[p])
    BY <1>6, <2>2, <2>3, ConnectPathForm DEF Overtake
  <2> QED
    BY <1>1, <1>6, <2>2, <2>4 DEF Follows
<1> QED
  BY <1>5, <1>6

LEMMA RemovedSync ==
  ASSUME TypeOK, SyncInv, HandleRemoved
  PROVE  SyncInv'
<1> DEFINE p == Head(events).path
<1>1. /\ phase = "loop" /\ events # <<>> /\ Head(events).action = "remove"
      /\ events' = Tail(events) /\ UNCHANGED <<plugged, plugs, todo, hist>>
      /\ \/ phase' = "crashed"
         \/ phase' = phase /\ \E i \in Matching(p) : devs' = Without(devs, i)
         \/ phase' = phase /\ Matching(p) = {} /\ devs' = devs
  BY DEF HandleRemoved
<1>2. p \in Paths /\ events \in Seq(Event) /\ devs \in Seq(Device)
  <2>1. events \in Seq(Event) /\ Head(events) \in Event /\ devs \in Seq(Device)
    BY <1>1 DEF TypeOK
  <2> QED
    BY <2>1 DEF Event
<1> SUFFICES ASSUME phase' = "loop", NEW q \in Paths \ missed PROVE Follows(q)'
  BY <1>1 DEF SyncInv, StartInv, EnumerateInv, LoopInv, hist
<1>3. Follows(q)
  BY <1>1 DEF SyncInv, LoopInv
<1> HIDE DEF p
<1>4. CASE q # p
  <2>1. /\ None(devs, q) => None(devs', q)
        /\ \A c : Sole(devs, q, c) => Sole(devs', q, c)
    <3>1. ASSUME NEW i \in Matching(p), devs' = Without(devs, i)
          PROVE  /\ None(devs, q) => None(devs', q)
                 /\ \A c : Sole(devs, q, c) => Sole(devs', q, c)
      BY <1>2, <1>4, <3>1, RemoveList DEF Matching
    <3> QED
      BY <1>1, <3>1
  <2>2. /\ Silent(events, q) => Silent(events', q)
        /\ \A a : Single(events, q, a) => Single(events', q, a)
        /\ Swap(events, q) => Swap(events', q)
    BY <1>1, <1>2, <1>4, TailEvent DEF p
  <2> QED
    BY <1>1, <1>3, <2>1, <2>2 DEF Follows
<1>5. CASE q = p
  <2>1. /\ ~Silent(events, p)
        /\ \A a : Single(events, p, a) => a = "remove" /\ Silent(events', p)
        /\ Swap(events, p) => Single(events', p, "add")
    BY <1>1, <1>2, TailEvent DEF p
  <2>2. PICK c : Sole(devs, p, c)
    BY <1>3, <1>5, <2>1 DEF Follows
  <2>3. Matching(p) # {}
    BY <2>2 DEF Sole, Matching
  <2>4. PICK i \in Matching(p) : devs' = Without(devs, i)
    BY <1>1, <2>3
  <2>5. None(devs', p)
    BY <1>2, <2>2, <2>4, RemoveList DEF Matching
  <2>6. CASE Single(events, p, "remove") /\ plugged[p] = 0
    BY <1>1, <1>5, <2>1, <2>5, <2>6 DEF Follows
  <2>7. CASE Swap(events, p) /\ plugged[p] # 0
    BY <1>1, <1>5, <2>1, <2>5, <2>7 DEF Follows
  <2> QED
    BY <1>3, <1>5, <2>1, <2>6, <2>7 DEF Follows
<1> QED
  BY <1>4, <1>5

LEMMA WriteSync ==
  ASSUME TypeOK, SyncInv, NEW id, NEW output, HandleWrite(id, output)
  PROVE  SyncInv'
<1>1. /\ phase = "loop" /\ UNCHANGED <<plugged, plugs, events, todo, count, hist>>
      /\ \E i \in DOMAIN devs :
           \/ devs' = [devs EXCEPT ![i].output = output] /\ phase' = phase
           \/ phase' = "crashed"
  BY DEF HandleWrite
<1>2. SUFFICES ASSUME phase' = "loop", NEW q \in Paths \ missed PROVE Follows(q)'
  BY <1>1 DEF SyncInv, StartInv, EnumerateInv, LoopInv, hist
<1>3. /\ None(devs, q) => None(devs', q)
      /\ \A c : Sole(devs, q, c) => Sole(devs', q, c)
  BY <1>1, <1>2, WriteForm
<1> QED
  BY <1>1, <1>3 DEF SyncInv, LoopInv, Follows

LEMMA StepSync == TypeOK /\ SyncInv /\ [Next]_vars => SyncInv'
<1> SUFFICES ASSUME TypeOK, SyncInv, [Next]_vars PROVE SyncInv'
  OBVIOUS
<1>1. ASSUME NEW id, HandleQuery(id) PROVE SyncInv'
  BY <1>1 DEF HandleQuery, SyncInv, StartInv, EnumerateInv, LoopInv
<1>2. CASE UNCHANGED vars
  BY <1>2 DEF vars, hist, SyncInv, StartInv, EnumerateInv, LoopInv, Follows,
     Plugged, Rank
<1> QED
  BY <1>1, <1>2, StartupSync, AddedSync, RemovedSync, WriteSync, PlugSync,
     UnplugSync DEF Next, PollMonitor, Requests

\* As soon as the events of a node have been handled the list has exactly one
\* device for it, open on what is plugged in, or none; unless the daemon missed
\* a change of it.
THEOREM ListMirrorsNodes == Spec => []InSync
<1>1. Init => SyncInv
  BY DEF Init, SyncInv, StartInv, EnumerateInv, LoopInv, Silent
<1>2. TypeOK /\ SyncInv => InSync
  <2> SUFFICES ASSUME TypeOK, SyncInv, phase = "loop", NEW p \in Paths \ missed,
                      CaughtUp(p)
               PROVE  MirrorsNode(p)
    BY DEF InSync
  <2>1. Silent(events, p) /\ Follows(p)
    BY DEF SyncInv, LoopInv, CaughtUp, Silent
  <2>2. IF plugged[p] = 0 THEN None(devs, p) ELSE Sole(devs, p, plugged[p])
    BY <2>1 DEF Follows, Silent, Single, Swap
  <2>3. CASE plugged[p] = 0
    <3>1. Matching(p) = {}
      BY <2>2, <2>3 DEF None, Matching
    <3> QED
      BY <2>3, <3>1, FS_EmptySet DEF MirrorsNode
  <2>4. CASE plugged[p] # 0
    <3>1. PICK i \in DOMAIN devs : Matching(p) = {i} /\ devs[i].move = plugged[p]
      BY <2>2, <2>4 DEF Sole, Matching
    <3> QED
      BY <2>4, <3>1, FS_Singleton DEF MirrorsNode
  <2> QED
    BY <2>3, <2>4
<1> QED
  BY <1>1, <1>2, InitTyped, StepTyped, StepSync, PTL DEF Spec

-----------------------------------------------------------------------------
(* The loop of moved_get_next_id.                                           *)

\* What is true of any number is true of a smallest one.
LEMMA Smallest ==
  ASSUME NEW T \in SUBSET Nat, T # {}
  PROVE  \E n \in T : \A k \in T : n <= k
<1> DEFINE Less == {ss \in Nat \X Nat : ss[1] < ss[2]}
<1>1. IsWellFoundedOn(Less, Nat)
  BY NatLessThanWellFounded, Zenon DEF OpToRel
<1>2. PICK n \in T : \A k \in T : ~ (<<k, n>> \in Less)
  <2> HIDE DEF Less
  <2> QED
    BY <1>1, WFMin
<1>3. ASSUME NEW k \in T PROVE n <= k
  <2>1. k \in Nat /\ n \in Nat
    OBVIOUS
  <2>2. k < n => <<k, n>> \in Less
    BY <2>1
  <2>3. <<k, n>> \notin Less
    <3> HIDE DEF Less
    <3> QED
      BY <1>2
  <2> QED
    BY ONLY <2>1, <2>2, <2>3, SMT
<1> QED
  BY <1>3

\* One pass, as the values of its candidate after each of the first k devices.
Passes(g, n, list, k) ==
  g = [i \in 0 .. k |->
         IF i = 0 THEN n
         ELSE IF list[i].assigned_id = g[i - 1] THEN g[i - 1] + 1 ELSE g[i - 1]]

LEMMA PassesExist ==
  ASSUME NEW n, NEW list, NEW l \in Nat
  PROVE  \E g : Passes(g, n, list, l)
<1> DEFINE T == {k \in Nat : ~ \E g : Passes(g, n, list, k)}
<1> SUFFICES ASSUME T # {} PROVE FALSE
  OBVIOUS
<1> HIDE DEF T
<1>1. PICK k \in T : \A j \in T : k <= j
  BY Smallest DEF T
<1>2. k \in Nat /\ ~ \E g : Passes(g, n, list, k)
  BY DEF T
<1>3. CASE k = 0
  <2> DEFINE g == [i \in 0 .. 0 |-> n]
  <2>1. g = [i \in 0 .. 0 |->
               IF i = 0 THEN n
               ELSE IF list[i].assigned_id = g[i - 1] THEN g[i - 1] + 1
                                                      ELSE g[i - 1]]
    OBVIOUS
  <2> HIDE DEF g
  <2> QED
    BY <1>2, <1>3, <2>1 DEF Passes
<1>4. CASE k # 0
  <2>1. PICK g : Passes(g, n, list, k - 1)
    <3>1. k - 1 \in Nat /\ k - 1 \notin T
      BY <1>1, <1>2, <1>4
    <3> QED
      BY <3>1 DEF T
  <2> DEFINE Next1(f, i) ==
        IF i = 0 THEN n
        ELSE IF list[i].assigned_id = f[i - 1] THEN f[i - 1] + 1 ELSE f[i - 1]
      h == [i \in 0 .. k |-> Next1(g, i)]
  <2>2. \A i \in 0 .. (k - 1) : h[i] = g[i]
    BY <1>2, <1>4, <2>1 DEF Passes
  <2>3. \A i \in 0 .. k : i # 0 => i - 1 \in 0 .. (k - 1)
    BY <1>2, <1>4
  <2>4. \A i \in 0 .. k : Next1(g, i) = Next1(h, i)
    <3> HIDE DEF h
    <3> QED
      BY <2>2, <2>3
  <2>5. h = [i \in 0 .. k |-> Next1(h, i)]
    BY <2>4
  <2> HIDE DEF h
  <2> QED
    BY <1>2, <2>5 DEF Passes
<1> QED
  BY <1>3, <1>4

\* A pass from n ends above all the ids it has met on its way up.
LEMMA PassResult ==
  ASSUME NEW list \in Seq(Device), NEW n \in Nat
  PROVE  /\ Pass(n, list) \in Nat /\ n <= Pass(n, list)
         /\ \A m \in n .. (Pass(n, list) - 1) : m \in Ids(list)
         /\ n \in Ids(list) => n < Pass(n, list)
<1> DEFINE l == Len(list)
           f == CHOOSE g : Passes(g, n, list, l)
<1>1. l \in Nat /\ DOMAIN list = 1 .. l
      /\ \A i \in 1 .. l : list[i].assigned_id \in Nat
  <2>1. l \in Nat /\ DOMAIN list = 1 .. l /\ \A i \in 1 .. l : list[i] \in Device
    OBVIOUS
  <2> HIDE DEF l
  <2> QED
    BY <2>1 DEF Device
<1>2. Passes(f, n, list, l)
  <2> HIDE DEF l
  <2> QED
    BY <1>1, PassesExist
<1>3. Pass(n, list) = f[l]
  BY DEF Pass, Passes
<1> HIDE DEF l, f
<1>4. /\ f[0] = n
      /\ \A i \in 1 .. l :
           f[i] = IF list[i].assigned_id = f[i - 1] THEN f[i - 1] + 1
                                                    ELSE f[i - 1]
  BY <1>1, <1>2 DEF Passes
<1> DEFINE Good(i) ==
      /\ f[i] \in Nat /\ n <= f[i]
      /\ \A m \in n .. (f[i] - 1) : m \in Ids(list)
      /\ \A j \in 1 .. i : list[j].assigned_id = n => n < f[i]
<1>5. Good(0)
  BY <1>4
<1>6. ASSUME NEW i \in 1 .. l, Good(i - 1) PROVE Good(i)
  <2>1. CASE list[i].assigned_id = f[i - 1]
    <3>1. f[i] = f[i - 1] + 1
      BY <1>4, <2>1
    <3>2. f[i - 1] \in Ids(list)
      BY <1>1, <2>1 DEF Ids
    <3>3. \A m \in n .. (f[i] - 1) : m = f[i - 1] \/ m \in n .. (f[i - 1] - 1)
      BY <1>6, <3>1
    <3> QED
      BY <1>6, <3>1, <3>2, <3>3
  <2>2. CASE list[i].assigned_id # f[i - 1]
    <3>1. f[i] = f[i - 1]
      BY <1>4, <2>2
    <3>2. \A j \in 1 .. i : j = i \/ j \in 1 .. (i - 1)
      BY <1>1
    <3>3. list[i].assigned_id = n => n < f[i]
      BY <1>6, <2>2, <3>1
    <3> QED
      BY <1>6, <3>1, <3>2, <3>3
  <2> QED
    BY <2>1, <2>2
<1>7. \A i \in 0 .. l : Good(i)
  <2> DEFINE T == {i \in 0 .. l : ~Good(i)}
  <2> SUFFICES ASSUME T # {} PROVE FALSE
    BY Zenon
  <2>1. T \in SUBSET Nat
    BY <1>1
  <2> HIDE DEF T
  <2>2. PICK i \in T : \A j \in T : i <= j
    BY <2>1, Smallest
  <2>3. i \in 0 .. l /\ ~Good(i)
    BY DEF T
  <2> HIDE DEF Good
  <2>4. i # 0
    BY <1>5, <2>3
  <2>5. i \in 1 .. l /\ i - 1 \in 0 .. l /\ ~(i <= i - 1)
    BY <1>1, <2>3, <2>4
  <2>6. i - 1 \notin T
    BY <2>2, <2>5
  <2>7. Good(i - 1)
    BY <2>5, <2>6 DEF T
  <2> QED
    BY <1>6, <2>3, <2>5, <2>7
<1>8. Good(l)
  BY <1>1, <1>7
<1>9. n \in Ids(list) => \E j \in 1 .. l : list[j].assigned_id = n
  BY <1>1 DEF Ids
<1> QED
  BY <1>3, <1>8, <1>9

\* The pigeonhole principle: a list has no more ids than devices.
LEMMA IdsFitList ==
  ASSUME NEW list \in Seq(Device), NEW n \in Nat, NEW m \in Nat,
         \A k \in n .. (n + m - 1) : k \in Ids(list)
  PROVE  m <= Len(list)
<1> DEFINE l == Len(list)
           K == n .. (n + m - 1)
           f == [k \in K |-> CHOOSE i \in 1 .. l : list[i].assigned_id = k]
<1>1. l \in Nat /\ DOMAIN list = 1 .. l
  OBVIOUS
<1>2. \A k \in K : f[k] \in 1 .. l /\ list[f[k]].assigned_id = k
  <2> SUFFICES ASSUME NEW k \in K PROVE f[k] \in 1 .. l /\ list[f[k]].assigned_id = k
    OBVIOUS
  <2>1. \E i \in 1 .. l : list[i].assigned_id = k
    BY <1>1 DEF Ids
  <2> QED
    BY <2>1
<1>3. f \in [K -> 1 .. l] /\ \A j, k \in K : f[j] = f[k] => j = k
  BY <1>2, Zenon
<1>4. IsFiniteSet(1 .. l) /\ Cardinality(1 .. l) = l
  <2> HIDE DEF l
  <2>1. 1 \in Int /\ l \in Int /\ (1 > l => l = 0)
    BY <1>1
  <2>2. /\ IsFiniteSet(1 .. l)
        /\ Cardinality(1 .. l) = IF 1 > l THEN 0 ELSE l - 1 + 1
    BY <2>1, FS_Interval
  <2> QED
    BY <1>1, <2>1, <2>2
<1>5. Cardinality(K) = m
  <2>1. n \in Int /\ n + m - 1 \in Int
    OBVIOUS
  <2> QED
    BY <2>1, FS_Interval
<1> HIDE DEF l, K, f
<1>6. f \in Injection(K, 1 .. l)
  BY <1>3 DEF Injection, IsInjective
<1>7. Cardinality(K) <= Cardinality(1 .. l)
  BY <1>4, <1>6, FS_Injection
<1> QED
  BY <1>4, <1>5, <1>7 DEF l

\* The smallest free number from n on.
IsNextFree(m, n, list) ==
  /\ m \in Nat /\ n <= m /\ m \notin Ids(list)
  /\ \A k \in n .. (m - 1) : k \in Ids(list)
NextFree(n, list) == CHOOSE m : IsNextFree(m, n, list)

LEMMA NextFreeExists ==
  ASSUME NEW list \in Seq(Device), NEW n \in Nat
  PROVE  /\ IsNextFree(NextFree(n, list), n, list)
         /\ \A m : IsNextFree(m, n, list) => m = NextFree(n, list)
<1> DEFINE T == {m \in Nat : n <= m /\ m \notin Ids(list)}
<1>1. T # {}
  <2> SUFFICES ASSUME \A m \in Nat : n <= m => m \in Ids(list) PROVE FALSE
    OBVIOUS
  <2>1. Len(list) \in Nat
    OBVIOUS
  <2>2. \A k \in n .. (n + (Len(list) + 1) - 1) : k \in Ids(list)
    BY <2>1
  <2>3. Len(list) + 1 <= Len(list)
    <3>1. Len(list) + 1 \in Nat
      BY <2>1
    <3> QED
      BY <2>2, <3>1, IdsFitList
  <2> QED
    BY <2>1, <2>3
<1>2. PICK m \in T : \A k \in T : m <= k
  <2>1. T \in SUBSET Nat
    OBVIOUS
  <2> HIDE DEF T
  <2> QED
    BY <1>1, <2>1, Smallest
<1>3. IsNextFree(m, n, list)
  BY <1>2 DEF IsNextFree
<1>4. \A j, k : IsNextFree(j, n, list) /\ IsNextFree(k, n, list) => j = k
  <2> SUFFICES ASSUME NEW j, NEW k, IsNextFree(j, n, list), IsNextFree(k, n, list),
                      j # k
               PROVE  FALSE
    OBVIOUS
  <2>1. j \in Nat /\ k \in Nat /\ n <= j /\ n <= k
    BY DEF IsNextFree
  <2>2. CASE j < k
    BY <2>1, <2>2 DEF IsNextFree
  <2>3. CASE k < j
    BY <2>1, <2>3 DEF IsNextFree
  <2> QED
    BY <2>1, <2>2, <2>3
<1> QED
  BY <1>3, <1>4 DEF NextFree

\* A pass does not go past the smallest free number.
LEMMA PassTowards ==
  ASSUME NEW list \in Seq(Device), NEW n \in Nat
  PROVE  /\ n \notin Ids(list) => Pass(n, list) = n /\ NextFree(n, list) = n
         /\ n \in Ids(list) =>
              /\ Pass(n, list) \in Nat /\ n < Pass(n, list)
              /\ NextFree(Pass(n, list), list) = NextFree(n, list)
              /\ Pass(n, list) <= NextFree(n, list)
<1> DEFINE p == Pass(n, list)
           m == NextFree(n, list)
<1>1. /\ p \in Nat /\ n <= p
      /\ \A k \in n .. (p - 1) : k \in Ids(list)
      /\ n \in Ids(list) => n < p
  BY PassResult
<1>2. IsNextFree(m, n, list)
  BY NextFreeExists
<1> HIDE DEF p, m
<1>3. CASE n \notin Ids(list)
  <2>1. p = n
    BY <1>1, <1>3
  <2>2. IsNextFree(n, n, list)
    BY <1>3 DEF IsNextFree
  <2> QED
    BY <1>3, <2>1, <2>2, NextFreeExists DEF p
<1>4. CASE n \in Ids(list)
  <2>1. p <= m
    BY <1>1, <1>2 DEF IsNextFree
  <2>2. IsNextFree(m, p, list)
    BY <1>1, <1>2, <2>1 DEF IsNextFree
  <2>3. m = NextFree(p, list)
    BY <1>1, <2>2, NextFreeExists
  <2> QED
    BY <1>1, <1>4, <2>1, <2>3 DEF p, m
<1> QED
  BY <1>3, <1>4

\* Repeated passes end at the smallest free number, from wherever they begin.
Repeats(f, list) ==
  f = [n \in Nat |-> IF Pass(n, list) = n THEN n ELSE f[Pass(n, list)]]

LEMMA RepeatsExist ==
  ASSUME NEW list \in Seq(Device)
  PROVE  \E f : Repeats(f, list)
<1> DEFINE f == [n \in Nat |-> NextFree(n, list)]
<1>1. \A n \in Nat :
        f[n] = IF Pass(n, list) = n THEN n ELSE f[Pass(n, list)]
  <2> SUFFICES ASSUME NEW n \in Nat
               PROVE  f[n] = IF Pass(n, list) = n THEN n ELSE f[Pass(n, list)]
    OBVIOUS
  <2>1. f[n] = NextFree(n, list)
    OBVIOUS
  <2>2. Pass(n, list) \in Nat => f[Pass(n, list)] = NextFree(Pass(n, list), list)
    OBVIOUS
  <2> HIDE DEF f
  <2> QED
    BY <2>1, <2>2, PassTowards
<1>2. f = [n \in Nat |-> IF Pass(n, list) = n THEN n ELSE f[Pass(n, list)]]
  BY <1>1
<1> HIDE DEF f
<1> QED
  BY <1>2 DEF Repeats

LEMMA RepeatsEnd ==
  ASSUME NEW list \in Seq(Device), NEW f, Repeats(f, list)
  PROVE  \A n \in Nat : f[n] = NextFree(n, list)
<1> DEFINE T == {d \in Nat : \E n \in Nat : /\ NextFree(n, list) = n + d
                                            /\ f[n] # NextFree(n, list)}
<1>1. \A n \in Nat : f[n] = IF Pass(n, list) = n THEN n ELSE f[Pass(n, list)]
  BY DEF Repeats
<1>2. T = {}
  <2> SUFFICES ASSUME T # {} PROVE FALSE
    OBVIOUS
  <2>1. T \in SUBSET Nat
    OBVIOUS
  <2> HIDE DEF T
  <2>2. PICK d \in T : \A e \in T : d <= e
    BY <2>1, Smallest
  <2>3. PICK n \in Nat : NextFree(n, list) = n + d /\ f[n] # NextFree(n, list)
    BY <2>2 DEF T
  <2>4. d \in Nat
    BY <2>1, <2>2
  <2>5. CASE n \notin Ids(list)
    BY <1>1, <2>3, <2>5, PassTowards
  <2>6. CASE n \in Ids(list)
    <3> DEFINE p == Pass(n, list)
    <3>1. /\ p \in Nat /\ n < p /\ NextFree(p, list) = NextFree(n, list)
          /\ p <= n + d
      BY <2>3, <2>6, PassTowards
    <3>2. f[n] = f[p]
      BY <1>1, <3>1
    <3> HIDE DEF p
    <3>3. n + d - p \in Nat /\ p + (n + d - p) = n + d /\ ~(d <= n + d - p)
      BY <2>4, <3>1
    <3>4. n + d - p \in T
      BY <2>3, <3>1, <3>2, <3>3 DEF T
    <3> QED
      BY <2>2, <3>3, <3>4
  <2> QED
    BY <2>5, <2>6
<1>3. ASSUME NEW n \in Nat, f[n] # NextFree(n, list) PROVE FALSE
  <2>1. NextFree(n, list) \in Nat /\ n <= NextFree(n, list)
    BY NextFreeExists DEF IsNextFree
  <2>2. NextFree(n, list) - n \in Nat
        /\ NextFree(n, list) = n + (NextFree(n, list) - n)
    BY <2>1
  <2>3. NextFree(n, list) - n \in T
    BY <1>3, <2>2
  <2> QED
    BY <1>2, <2>3
<1> QED
  BY <1>3

\* The loop ends with the smallest free id of any list, although it raises its
\* candidate in the middle of a pass.
THEOREM LoopIsCorrect ==
  ASSUME NEW list \in Seq(Device)
  PROVE  /\ FreeId(moved_get_next_id(list), list)
         /\ moved_get_next_id(list) \in 0 .. Len(list)
<1> DEFINE f == CHOOSE g : Repeats(g, list)
           id == NextFree(0, list)
<1>1. Repeats(f, list)
  BY RepeatsExist
<1>2. moved_get_next_id(list) = f[0]
  BY DEF moved_get_next_id, Repeats
<1> HIDE DEF f
<1>3. f[0] = id /\ IsNextFree(id, 0, list)
  BY <1>1, RepeatsEnd, NextFreeExists
<1> HIDE DEF id
<1>4. id <= Len(list)
  <2>1. id \in Nat /\ \A k \in 0 .. (0 + id - 1) : k \in Ids(list)
    BY <1>3 DEF IsNextFree
  <2> QED
    BY <2>1, IdsFitList
<1> QED
  BY <1>2, <1>3, <1>4 DEF IsNextFree, FreeId

\* moved_get_next_id finds the smallest free id on every list that the daemon
\* gets by connecting and disconnecting.
THEOREM LoopHolds == Spec => []LoopFindsFreeId
<1>1. TypeOK => LoopFindsFreeId
  BY LoopIsCorrect DEF TypeOK, LoopFindsFreeId
<1> QED
  BY <1>1, TypeCorrect, PTL

\* So a device is listed with the id that the loop finds, and always is.
THEOREM ListsByLoop ==
  ASSUME TypeOK, NEW path, NEW move
  PROVE  ListDevice(path, move) <=>
           /\ devs' = <<[path |-> path, move |-> move,
                         assigned_id |-> moved_get_next_id(devs),
                         output |-> NoOutput]>> \o devs
           /\ count' = count + 1
<1>1. /\ FreeId(moved_get_next_id(devs), devs)
      /\ moved_get_next_id(devs) \in 0 .. Len(devs)
  BY LoopIsCorrect DEF TypeOK
<1>2. ASSUME NEW id \in 0 .. Len(devs), FreeId(id, devs)
      PROVE  id = moved_get_next_id(devs)
  <2> DEFINE n == moved_get_next_id(devs)
  <2>1. n \in Nat /\ id \in Nat
    BY <1>1, <1>2 DEF TypeOK
  <2> HIDE DEF n
  <2>2. FreeId(n, devs)
    BY <1>1 DEF n
  <2>3. n = id
    BY <1>2, <2>1, <2>2 DEF FreeId
  <2> QED
    BY <2>3 DEF n
<1> QED
  BY <1>1, <1>2 DEF ListDevice
=============================================================================
