------------------------ MODULE TrackerColorsProofs ------------------------
(***************************************************************************)
(* Proofs about TrackerColors, for any colours, values and ring size: the  *)
(* types, and that the ring with its file is a memory of the most recent   *)
(* calibrations (ColorMemory).                                             *)
(***************************************************************************)
EXTENDS TrackerColors, FiniteSetTheorems, TLAPS

\* A slot is either cleared or holds a whole calibration, so that what a
\* lookup finds under a colour is never the Zero of a cleared slot.
Whole(r) ==
  /\ r \in Ring
  /\ \A s \in Slots : r.map[s].key \in Keys => r.map[s].to \in Views

ColorsInv == Whole(ring) /\ Whole(file) /\ answer \in Views \cup {Unknown}

LEMMA SlotNumbers ==
  /\ 0 \in Slots
  /\ \A s \in Slots : (s + 1) % RingSize \in Slots
  /\ \A s \in Slots : \A n \in 1 .. (RingSize - 1) :
       (s + RingSize - n) % RingSize \in Slots
BY ColorsAssumption DEF Slots

LEMMA EmptyWhole == Whole(EmptyRing)
<1>1. NoMapping \in Mapping /\ NoMapping.key \notin Keys
  BY ColorsAssumption DEF NoMapping, Mapping
<1>2. [s \in Slots |-> NoMapping] \in [Slots -> Mapping]
  BY <1>1
<1> QED
  BY <1>1, <1>2, SlotNumbers DEF Whole, EmptyRing, Ring

LEMMA PutWhole ==
  ASSUME Whole(ring), NEW key \in Keys, NEW to \in Views
  PROVE  Whole(Put(key, to))
<1> DEFINE new == [key |-> key, to |-> to]
           map == [ring.map EXCEPT ![ring.next_slot] = new]
<1>1. /\ ring.map \in [Slots -> Mapping] /\ ring.next_slot \in Slots
      /\ \A s \in Slots : ring.map[s].key \in Keys => ring.map[s].to \in Views
  BY DEF Whole, Ring
<1>2. new \in Mapping /\ new.to \in Views
  BY DEF Mapping
<1>3. Put(key, to) = [map |-> map, next_slot |-> (ring.next_slot + 1) % RingSize]
  BY DEF Put
<1> HIDE DEF new
<1>4. /\ map \in [Slots -> Mapping]
      /\ \A s \in Slots : map[s] = IF s = ring.next_slot THEN new ELSE ring.map[s]
  BY <1>1, <1>2
<1> HIDE DEF map
<1>5. \A s \in Slots : map[s].key \in Keys => map[s].to \in Views
  BY <1>1, <1>2, <1>4
<1> QED
  BY <1>1, <1>3, <1>4, <1>5, SlotNumbers DEF Whole, Ring

LEMMA StepColors == ColorsInv /\ [Next]_vars => ColorsInv'
<1> SUFFICES ASSUME ColorsInv, [Next]_vars PROVE ColorsInv'
  OBVIOUS
<1>1. ASSUME NEW key \in Keys, NEW to \in Views, RememberColor(key, to)
      PROVE  ColorsInv'
  <2>1. Whole(ring')
    BY <1>1, PutWhole DEF RememberColor, ColorsInv
  <2>2. Whole(file')
    BY <1>1, <2>1, EmptyWhole DEF RememberColor, ColorsInv
  <2> QED
    BY <1>1, <2>1, <2>2 DEF RememberColor, ColorsInv, Whole
<1>2. ASSUME NEW key \in Keys, LookupColor(key)
      PROVE  ColorsInv'
  <2>1. ASSUME NEW n \in Steps(key)
        PROVE  ring.map[Before(ring, n)].to \in Views
    <3>1. n \in 1 .. (RingSize - 1) /\ ring.map[Before(ring, n)].key = key
      BY DEF Steps
    <3>2. Before(ring, n) \in Slots
      BY <3>1, SlotNumbers DEF Before, ColorsInv, Whole, Ring
    <3> QED
      BY <3>1, <3>2 DEF ColorsInv, Whole
  <2>2. answer' \in Views \cup {Unknown}
    BY <1>2, <2>1 DEF LookupColor
  <2> QED
    BY <1>2, <2>2 DEF LookupColor, ColorsInv, Whole
<1>3. CASE NewTracker
  BY <1>3, EmptyWhole DEF NewTracker, ColorsInv, Whole
<1>4. CASE UNCHANGED vars
  BY <1>4 DEF vars, ColorsInv, Whole
<1> QED
  BY <1>1, <1>2, <1>3, <1>4 DEF Next

\* The ring and the file keep their types, next_slot stays inside the ring
\* however often it wraps, and a lookup answers with a calibrated value or
\* with nothing, never with what is in a cleared slot.
THEOREM TypeCorrect == Spec => []TypeOK
<1>1. Init => ColorsInv
  BY EmptyWhole DEF Init, ColorsInv
<1>2. ColorsInv => TypeOK
  BY DEF ColorsInv, Whole, TypeOK
<1> QED
  BY <1>1, <1>2, StepColors, PTL DEF Spec

-----------------------------------------------------------------------------
(* The ring as a memory.                                                    *)

\* The mappings lie without a gap behind next_slot: walking backwards one meets
\* h of them, and then cleared slots only.
Holds(r, h) ==
  /\ h \in 0 .. (RingSize - 1)
  /\ \A n \in 1 .. (RingSize - 1) :
       r.map[Before(r, n)] # NoMapping <=> n <= h
Gapless(r) == r \in Ring /\ \E h \in 0 .. (RingSize - 1) : Holds(r, h)

MemoryInv == Gapless(ring) /\ Gapless(file)

\* The walk leads backwards, round the end of the ring, never to next_slot.
LEMMA WalkBack ==
  ASSUME NEW r \in Ring, NEW n \in 1 .. (RingSize - 1)
  PROVE  /\ Before(r, n) \in Slots /\ Before(r, n) # r.next_slot
         /\ Before(r, n) = IF n <= r.next_slot THEN r.next_slot - n
                           ELSE r.next_slot + RingSize - n
<1> DEFINE s == r.next_slot
           R == RingSize
<1>1. R \in Nat \ {0} /\ s \in 0 .. (R - 1)
  BY ColorsAssumption DEF Ring, Slots
<1>2. Before(r, n) = (s + R - n) % R
  BY DEF Before
<1> HIDE DEF s, R
<1>3. CASE n <= s
  <2>1. (s + R - n) % R = s - n
    BY <1>1, <1>3
  <2> QED
    BY <1>1, <1>2, <1>3, <2>1 DEF s, R, Slots
<1>4. CASE ~(n <= s)
  <2>1. (s + R - n) % R = s + R - n
    BY <1>1, <1>4 DEF R
  <2> QED
    BY <1>1, <1>2, <1>4, <2>1 DEF s, R, Slots
<1> QED
  BY <1>3, <1>4

\* The number of mappings is what the definition counts.
LEMMA HeldIs ==
  ASSUME NEW r, NEW h, Holds(r, h)
  PROVE  Held(r) = h
<1> DEFINE S == {n \in 1 .. (RingSize - 1) : r.map[Before(r, n)] # NoMapping}
<1>1. h \in Nat /\ h <= RingSize - 1 /\ RingSize \in Nat
  BY ColorsAssumption DEF Holds
<1>2. S = 1 .. h
  BY <1>1 DEF Holds
<1>3. Cardinality(1 .. h) = h
  <2>1. 1 \in Int /\ h \in Int /\ (1 > h => h = 0)
    BY <1>1
  <2>2. Cardinality(1 .. h) = IF 1 > h THEN 0 ELSE h - 1 + 1
    BY <2>1, FS_Interval
  <2> QED
    BY <1>1, <2>1, <2>2
<1> QED
  BY <1>2, <1>3 DEF Held

\* A ring in order: its length, and its i-th mapping.
LEMMA OrderIs ==
  ASSUME NEW r \in Ring, NEW h, Holds(r, h)
  PROVE  /\ h \in Nat /\ InOrder(r) \in Seq(Mapping) /\ Len(InOrder(r)) = h
         /\ \A i \in 1 .. h : /\ h + 1 - i \in 1 .. (RingSize - 1)
                              /\ InOrder(r)[i] = r.map[Before(r, h + 1 - i)]
<1>1. h \in Nat /\ h <= RingSize - 1 /\ RingSize \in Nat
  BY ColorsAssumption DEF Holds
<1>2. InOrder(r) = [i \in 1 .. h |-> r.map[Before(r, h + 1 - i)]]
  BY HeldIs DEF InOrder
<1>3. \A i \in 1 .. h : h + 1 - i \in 1 .. (RingSize - 1)
  BY <1>1
<1>4. \A i \in 1 .. h : r.map[Before(r, h + 1 - i)] \in Mapping
  BY <1>3, WalkBack DEF Ring
<1> QED
  BY <1>1, <1>2, <1>3, <1>4

LEMMA EmptyHolds ==
  /\ EmptyRing \in Ring /\ Holds(EmptyRing, 0) /\ InOrder(EmptyRing) = <<>>
<1>1. EmptyRing \in Ring
  BY EmptyWhole DEF Whole
<1>2. Holds(EmptyRing, 0)
  <2>1. 0 \in 0 .. (RingSize - 1)
    BY ColorsAssumption
  <2>2. ASSUME NEW n \in 1 .. (RingSize - 1)
        PROVE  EmptyRing.map[Before(EmptyRing, n)] = NoMapping
    BY <1>1, WalkBack DEF EmptyRing
  <2>3. \A n \in 1 .. (RingSize - 1) : ~(n <= 0)
    BY ColorsAssumption
  <2> QED
    BY <2>1, <2>2, <2>3 DEF Holds
<1>3. InOrder(EmptyRing) \in Seq(Mapping) /\ Len(InOrder(EmptyRing)) = 0
  BY <1>1, <1>2, OrderIs
<1> QED
  BY <1>1, <1>2, <1>3

\* A mapping is put in front of the others, over the oldest one if the ring is
\* full.
LEMMA PutHolds ==
  ASSUME Whole(ring), NEW key \in Keys, NEW to \in Views,
         NEW h, Holds(ring, h)
  PROVE  LET new == Put(key, to)
         IN  /\ Holds(new, IF h = RingSize - 1 THEN h ELSE h + 1)
             /\ InOrder(new) = Memory!Recent(Append(InOrder(ring),
                                               [key |-> key, to |-> to]))
<1> DEFINE e == [key |-> key, to |-> to]
           s == ring.next_slot
           new == Put(key, to)
           g == IF h = RingSize - 1 THEN h ELSE h + 1
<1>1. /\ RingSize \in Nat \ {0} /\ s \in 0 .. (RingSize - 1)
      /\ h \in 0 .. (RingSize - 1) /\ ring \in Ring
  BY ColorsAssumption DEF Whole, Ring, Slots, Holds
<1>2. new \in Ring
  BY PutWhole DEF Whole
<1>3. e # NoMapping /\ e \in Mapping
  BY ColorsAssumption DEF NoMapping, Mapping
<1>4. /\ new.map = [ring.map EXCEPT ![s] = e]
      /\ new.next_slot = (s + 1) % RingSize
  BY DEF Put
<1>5. /\ DOMAIN ring.map = Slots /\ s \in Slots
  BY <1>1 DEF Ring
<1> HIDE DEF new, e
<1>6. new.next_slot = IF s + 1 = RingSize THEN 0 ELSE s + 1
  <2> HIDE DEF s
  <2>1. CASE s + 1 = RingSize
    BY <1>1, <1>4, <2>1
  <2>2. CASE s + 1 # RingSize
    <3>1. (s + 1) % RingSize = s + 1
      BY <1>1, <2>2
    <3> QED
      BY <1>4, <2>2, <3>1
  <2> QED
    BY <2>1, <2>2
<1>7. ASSUME 1 <= RingSize - 1
      PROVE  new.map[Before(new, 1)] = e
  <2>1. 1 \in 1 .. (RingSize - 1)
    BY <1>1, <1>7
  <2>2. Before(new, 1) = s
    BY <1>1, <1>2, <1>6, <2>1, WalkBack
  <2> QED
    BY <1>4, <1>5, <2>2
<1>8. ASSUME NEW n \in 1 .. (RingSize - 1), n + 1 <= RingSize - 1
      PROVE  new.map[Before(new, n + 1)] = ring.map[Before(ring, n)]
  <2>1. n + 1 \in 1 .. (RingSize - 1)
    BY <1>1, <1>8
  <2>2. Before(new, n + 1) = Before(ring, n)
    <3>1. Before(new, n + 1) = IF n + 1 <= new.next_slot
                                 THEN new.next_slot - (n + 1)
                                 ELSE new.next_slot + RingSize - (n + 1)
      BY <1>2, <2>1, WalkBack
    <3>2. Before(ring, n) = IF n <= s THEN s - n ELSE s + RingSize - n
      BY <1>1, WalkBack
    <3> HIDE DEF s
    <3> QED
      BY <1>1, <1>6, <1>8, <3>1, <3>2
  <2>3. Before(ring, n) \in Slots /\ Before(ring, n) # s
    BY <1>1, WalkBack
  <2> QED
    BY <1>4, <1>5, <2>2, <2>3
<1>9. Holds(new, g)
  <2>1. g \in 0 .. (RingSize - 1)
    BY <1>1
  <2>2. ASSUME NEW n \in 1 .. (RingSize - 1)
        PROVE  new.map[Before(new, n)] # NoMapping <=> n <= g
    <3>1. CASE n = 1
      <4>1. new.map[Before(new, n)] = e
        BY <1>1, <1>7, <3>1
      <4>2. n <= g
        BY <1>1, <3>1
      <4> QED
        BY <1>3, <4>1, <4>2
    <3>2. CASE n # 1
      <4>1. n - 1 \in 1 .. (RingSize - 1) /\ (n - 1) + 1 = n
        BY <1>1, <3>2
      <4>2. new.map[Before(new, n)] = ring.map[Before(ring, n - 1)]
        BY <1>1, <1>8, <4>1
      <4>3. ring.map[Before(ring, n - 1)] # NoMapping <=> n - 1 <= h
        BY <4>1 DEF Holds
      <4>4. n - 1 <= h <=> n <= g
        BY <1>1
      <4> QED
        BY <4>2, <4>3, <4>4
    <3> QED
      BY <3>1, <3>2
  <2> HIDE DEF g
  <2> QED
    BY <2>1, <2>2 DEF Holds
<1> DEFINE o == InOrder(ring)
           p == InOrder(new)
<1>10. /\ o \in Seq(Mapping) /\ Len(o) = h
       /\ \A i \in 1 .. h : /\ h + 1 - i \in 1 .. (RingSize - 1)
                            /\ o[i] = ring.map[Before(ring, h + 1 - i)]
  BY <1>1, OrderIs
<1>11. /\ p \in Seq(Mapping) /\ Len(p) = g
       /\ \A i \in 1 .. g : /\ g + 1 - i \in 1 .. (RingSize - 1)
                            /\ p[i] = new.map[Before(new, g + 1 - i)]
  BY <1>2, <1>9, OrderIs
<1> HIDE DEF o, p
<1>12. \A i \in 1 .. g : p[i] = IF i = g THEN e ELSE o[i + h + 1 - g]
  <2> SUFFICES ASSUME NEW i \in 1 .. g
               PROVE  p[i] = IF i = g THEN e ELSE o[i + h + 1 - g]
    OBVIOUS
  <2>1. CASE i = g
    <3>1. g + 1 - i = 1 /\ 1 <= RingSize - 1
      BY <1>1, <1>11, <2>1
    <3> QED
      BY <1>7, <1>11, <2>1, <3>1
  <2>2. CASE i # g
    <3> DEFINE n == g - i
    <3>1. /\ n \in 1 .. (RingSize - 1) /\ n + 1 <= RingSize - 1
          /\ n + 1 = g + 1 - i
          /\ i + h + 1 - g \in 1 .. h /\ h + 1 - (i + h + 1 - g) = n
      BY <1>1, <2>2
    <3> HIDE DEF n
    <3>2. p[i] = new.map[Before(new, n + 1)]
      BY <1>11, <3>1
    <3>3. o[i + h + 1 - g] = ring.map[Before(ring, n)]
      BY <1>10, <3>1
    <3> QED
      BY <1>8, <2>2, <3>1, <3>2, <3>3
  <2> QED
    BY <2>1, <2>2
<1>13. p = Memory!Recent(Append(o, e))
  <2> DEFINE a == Append(o, e)
  <2>1. /\ a \in Seq(Mapping) /\ Len(a) = h + 1
        /\ \A i \in 1 .. h : a[i] = o[i]
        /\ a[h + 1] = e
    BY <1>3, <1>10
  <2> HIDE DEF a
  <2>2. CASE h = RingSize - 1
    <3>1. Memory!Recent(a) = Tail(a)
      BY <1>1, <2>1, <2>2 DEF Memory!Recent
    <3>2. /\ Tail(a) \in Seq(Mapping) /\ Len(Tail(a)) = h
          /\ \A i \in 1 .. h : Tail(a)[i] = a[i + 1]
      BY <1>1, <2>1
    <3>3. \A i \in 1 .. h : p[i] = Tail(a)[i]
      BY <1>1, <1>12, <2>1, <2>2, <3>2
    <3>4. p = Tail(a)
      BY <1>11, <2>2, <3>2, <3>3
    <3> QED
      BY <3>1, <3>4 DEF a
  <2>3. CASE h # RingSize - 1
    <3>1. Memory!Recent(a) = a
      BY <1>1, <2>1, <2>3 DEF Memory!Recent
    <3>2. \A i \in 1 .. (h + 1) : p[i] = a[i]
      BY <1>1, <1>12, <2>1, <2>3
    <3>3. p = a
      BY <1>1, <1>11, <2>1, <2>3, <3>2
    <3> QED
      BY <3>1, <3>3 DEF a
  <2> QED
    BY <2>2, <2>3
<1> QED
  BY <1>9, <1>13 DEF o, p, new, e

\* The first step of the walk that meets a key leads to its latest mapping.
LEMMA LookupFinds ==
  ASSUME Whole(ring), NEW h, Holds(ring, h), NEW key \in Keys, LookupColor(key)
  PROVE  answer' = Memory!Latest(InOrder(ring), key)
<1> DEFINE o == InOrder(ring)
           at == {i \in 1 .. Len(o) : o[i].key = key}
<1>1. RingSize \in Nat /\ h \in 0 .. (RingSize - 1) /\ ring \in Ring
  BY ColorsAssumption DEF Whole, Holds
<1>2. /\ Len(o) = h
      /\ \A i \in 1 .. h : /\ h + 1 - i \in 1 .. (RingSize - 1)
                           /\ o[i] = ring.map[Before(ring, h + 1 - i)]
  BY <1>1, OrderIs
<1>3. Memory!Latest(o, key) = IF at = {} THEN Unknown
                              ELSE o[CHOOSE i \in at : \A j \in at : j <= i].to
  BY DEF Memory!Latest
<1> HIDE DEF o
<1>4. \A n \in Steps(key) : n \in 1 .. (RingSize - 1) /\ n <= h
  <2> SUFFICES ASSUME NEW n \in Steps(key)
               PROVE  n \in 1 .. (RingSize - 1) /\ n <= h
    OBVIOUS
  <2>1. n \in 1 .. (RingSize - 1) /\ ring.map[Before(ring, n)].key = key
    BY DEF Steps
  <2>2. ring.map[Before(ring, n)] # NoMapping
    BY <2>1, ColorsAssumption DEF NoMapping
  <2> QED
    BY <2>1, <2>2 DEF Holds
<1>5. \A n \in Steps(key) : h + 1 - n \in at
  <2> SUFFICES ASSUME NEW n \in Steps(key) PROVE h + 1 - n \in at
    OBVIOUS
  <2>1. h + 1 - n \in 1 .. h /\ h + 1 - (h + 1 - n) = n
    BY <1>1, <1>4
  <2>2. ring.map[Before(ring, n)].key = key
    BY DEF Steps
  <2> QED
    BY <1>2, <2>1, <2>2
<1>6. \A i \in at : i \in 1 .. h /\ h + 1 - i \in Steps(key)
  BY <1>2 DEF Steps
<1>7. CASE Steps(key) = {}
  BY <1>3, <1>6, <1>7 DEF LookupColor, o
<1>8. CASE Steps(key) # {}
  <2>1. PICK n \in Steps(key) : /\ \A k \in Steps(key) : n <= k
                                /\ answer' = ring.map[Before(ring, n)].to
    BY <1>8 DEF LookupColor
  <2> DEFINE i == h + 1 - n
  <2>2. /\ i \in at /\ i \in 1 .. h /\ h + 1 - i = n
        /\ \A j \in at : j <= i
    <3>1. i \in at /\ i \in 1 .. h /\ h + 1 - i = n
      BY <1>1, <1>4, <1>5
    <3>2. ASSUME NEW j \in at PROVE j <= i
      <4>1. n <= h + 1 - j /\ j \in 1 .. h
        BY <1>6, <2>1
      <4> QED
        BY <1>1, <1>4, <4>1
    <3> QED
      BY <3>1, <3>2
  <2>3. \A j \in at : (\A l \in at : l <= j) => j = i
    <3>1. \A j \in at : j \in Int
      BY <1>1, <1>6
    <3> HIDE DEF at, i
    <3> QED
      BY <2>2, <3>1
  <2> HIDE DEF at, i
  <2>4. (CHOOSE l \in at : \A j \in at : j <= l) = i
    BY <2>2, <2>3
  <2>5. o[i] = ring.map[Before(ring, n)]
    BY <1>2, <2>2
  <2>6. at # {}
    BY <2>2
  <2> QED
    BY <1>3, <2>1, <2>4, <2>5, <2>6 DEF o
<1> QED
  BY <1>7, <1>8

\* What is proved by induction: whole slots, without a gap between them.
LEMMA StepMemory ==
  ColorsInv /\ MemoryInv /\ [Next]_vars
    => MemoryInv' /\ [Memory!Next]_(Memory!vars)
<1> SUFFICES ASSUME ColorsInv, MemoryInv, [Next]_vars
             PROVE  MemoryInv' /\ [Memory!Next]_(Memory!vars)
  OBVIOUS
<1> USE DEF ColorsInv, MemoryInv
<1>0. Gapless(EmptyRing)
  BY EmptyHolds, ColorsAssumption DEF Gapless, Holds
<1>1. ASSUME NEW key \in Keys, NEW to \in Views, RememberColor(key, to)
      PROVE  MemoryInv' /\ Memory!Next
  <2>1. PICK h \in 0 .. (RingSize - 1) : Holds(ring, h)
    BY DEF Gapless
  <2>2. /\ ring' = Put(key, to)
        /\ file' = ring' \/ file' = file \/ file' = EmptyRing
        /\ answer' = answer
    BY <1>1 DEF RememberColor
  <2>3. /\ Holds(ring', IF h = RingSize - 1 THEN h ELSE h + 1)
        /\ InOrder(ring') = Memory!Recent(Append(InOrder(ring),
                                            [key |-> key, to |-> to]))
    BY <2>1, <2>2, PutHolds
  <2>4. ring' \in Ring
    BY <2>2, PutWhole DEF Whole
  <2>5. Gapless(ring')
    BY <2>3, <2>4 DEF Gapless, Holds
  <2>6. Gapless(file')
    BY <1>0, <2>2, <2>5
  <2>7. InOrder(file') \in {InOrder(ring'), InOrder(file), <<>>}
    BY <2>2, EmptyHolds
  <2>8. Memory!Remember(key, to)
    BY <2>2, <2>3, <2>7 DEF Memory!Remember
  <2> QED
    BY <2>5, <2>6, <2>8 DEF Memory!Next
<1>2. ASSUME NEW key \in Keys, LookupColor(key)
      PROVE  MemoryInv' /\ Memory!Next
  <2>1. PICK h \in 0 .. (RingSize - 1) : Holds(ring, h)
    BY DEF Gapless
  <2>2. ring' = ring /\ file' = file
    BY <1>2 DEF LookupColor
  <2>3. answer' = Memory!Latest(InOrder(ring), key)
    BY <1>2, <2>1, LookupFinds
  <2>4. Memory!Lookup(key)
    BY <2>2, <2>3 DEF Memory!Lookup
  <2> QED
    BY <2>2, <2>4 DEF Memory!Next
<1>3. ASSUME NewTracker
      PROVE  MemoryInv' /\ Memory!Next
  <2>1. /\ ring' = file \/ ring' = EmptyRing
        /\ answer' = Unknown /\ file' = file
    BY <1>3 DEF NewTracker
  <2>2. Gapless(ring') /\ Gapless(file')
    BY <1>0, <2>1
  <2>3. InOrder(ring') \in {InOrder(file), <<>>}
    BY <2>1, EmptyHolds
  <2>4. Memory!NewSession
    BY <2>1, <2>3 DEF Memory!NewSession
  <2> QED
    BY <2>2, <2>4 DEF Memory!Next
<1>4. CASE UNCHANGED vars
  BY <1>4 DEF vars, Memory!vars
<1> QED
  BY <1>1, <1>2, <1>3, <1>4 DEF Next

\* The ring is a memory of the RingSize - 1 most recent calibrations, in this
\* session and the next ones: a lookup finds the latest calibration of its
\* colour and dimming among them, however often next_slot has wrapped.
THEOREM RingIsMemory == Spec => ImplementsMemory
<1>1. Init => ColorsInv /\ MemoryInv /\ Memory!Init
  <2> SUFFICES ASSUME Init PROVE ColorsInv /\ MemoryInv /\ Memory!Init
    OBVIOUS
  <2>1. ring = EmptyRing /\ file = EmptyRing /\ answer = Unknown
    BY DEF Init
  <2>2. ColorsInv
    BY <2>1, EmptyWhole DEF ColorsInv
  <2>3. MemoryInv
    BY <2>1, EmptyHolds, ColorsAssumption DEF MemoryInv, Gapless, Holds
  <2>4. Memory!Init
    BY <2>1, EmptyHolds DEF Memory!Init
  <2> QED
    BY <2>2, <2>3, <2>4
<1>2. ColorsInv /\ [Next]_vars => ColorsInv'
  BY StepColors
<1>3. ColorsInv /\ MemoryInv /\ [Next]_vars
        => MemoryInv' /\ [Memory!Next]_(Memory!vars)
  BY StepMemory
<1> QED
  BY <1>1, <1>2, <1>3, PTL DEF Spec, ImplementsMemory, Memory!Spec
=============================================================================
