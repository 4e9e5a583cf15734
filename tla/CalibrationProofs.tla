------------------------- MODULE CalibrationProofs -------------------------
(***************************************************************************)
(* Proofs about Calibration, for any processes, controllers and numbers of *)
(* failures.                                                               *)
(***************************************************************************)
EXTENDS Calibration, TLAPS

Usable == Blob \cup {Unusable}

\* Mixing a block of a controller into what was read keeps a blob.
LEMMA BlockPlaced ==
  ASSUME NEW buf \in Blob, NEW c \in Controllers, NEW b \in Blocks
  PROVE  [buf EXCEPT ![b] = <<c, b>>] \in Blob
BY DEF Blob

LEMMA NoBlocksRead == Uninitialised \in Blob
BY DEF Uninitialised, Blob

\* A file that may be used holds a blob, one that may not counts as nothing.
LEMMA LoadedType ==
  ASSUME TypeOK, NEW l \in Locations, NEW n \in Names
  PROVE  Loaded(Found(l, n)) \in Usable
BY DEF TypeOK, Loaded, Found, Usable, Locations, Homes

\* Wherever a process is started, its file is in one of the locations.
LEMMA ConnectForm ==
  ASSUME NEW p \in Processes, Connect(p)
  PROVE  \E c \in Controllers, n \in Names, usb \in BOOLEAN,
            failed \in BOOLEAN, l \in Locations :
         LET cal == Loaded(Found(l, n))
             h == [pc |-> "read", who |-> c, name |-> n, usb |-> usb, at |-> l,
                   cal |-> cal, buf |-> Uninitialised, n |-> 0,
                   failed |-> failed] IN
         /\ Named(c, usb, n, failed)
         /\ misnamed' = misnamed \cup ({n} \ {c})
         /\ IF MustRead(usb, cal)
            THEN handle' = [handle EXCEPT ![p] = h] /\ UNCHANGED stored
            ELSE /\ handle' = [handle EXCEPT ![p] = Opened(h, cal)]
                 /\ stored' = stored \cup Provided(h)
<1>1. \A home \in Homes, dir \in Locations, n \in Names :
        FilePath(home, dir, n) \in Locations
  BY DEF FilePath, Locations
<1> QED
  BY <1>1 DEF Connect

\* In which form the handle of a process is.
LEMMA Forms ==
  ASSUME TypeOK, NEW p \in Processes
  PROVE  /\ handle[p].pc \in {"read", "open", "close"} <=> handle[p] \in Opening
         /\ handle[p].pc = "done" <=> handle[p] \in Open
         /\ handle[p].pc = "idle" <=> handle[p] = NoHandle
BY DEF TypeOK, Opening, Open, NoHandle

\* The form of a handle that has read what it can, and of one that is open.
LEMMA NewForms ==
  ASSUME NEW h \in Opening, NEW cal \in Usable
  PROVE  /\ HasRead(h, cal) \in Opening
         /\ [HasRead(h, cal) EXCEPT !.failed = TRUE] \in Opening
         /\ Opened(h, cal) \in Open
<1>1. Uninitialised \in Blob /\ 0 \in Blocks
  BY NoBlocksRead DEF Blocks
<1>2. HasRead(h, cal) \in Opening
  BY <1>1 DEF HasRead, Opening, Usable
<1>3. ASSUME NEW g \in Opening PROVE [g EXCEPT !.failed = TRUE] \in Opening
  BY DEF Opening
<1>4. Opened(h, cal) \in Open
  BY DEF Opened, Opening, Open, Usable
<1> QED
  BY <1>2, <1>3, <1>4

\* What lies in the working directories at first is the controller's own.
LEMMA InitFiles ==
  ASSUME Init, NEW l \in Locations, NEW n \in Names
  PROVE  /\ file[l][n] \in Blob \cup {Absent, Unusable}
         /\ file[l][n] \in {Absent, Unusable} \/
              (n \in Controllers /\ file[l][n] = Whole(n))
<1>1. PICK unusable \in SUBSET (WorkDirs \X Names),
           whole \in SUBSET (WorkDirs \X Controllers) :
        file = [m \in Locations |-> [k \in Names |->
                  CASE <<m, k>> \in whole -> Whole(k)
                    [] <<m, k>> \in unusable \ whole -> Unusable
                    [] OTHER -> Absent]]
  BY DEF Init, Copies
<1>2. <<l, n>> \in whole => n \in Controllers
  OBVIOUS
<1>3. ASSUME NEW c \in Controllers PROVE Whole(c) \in Blob
  BY DEF Whole, Blob
<1> QED
  BY <1>1, <1>2, <1>3

LEMMA InitTyped == Init => TypeOK
<1> SUFFICES ASSUME Init PROVE TypeOK
  OBVIOUS
<1>1. \A l \in Locations, n \in Names :
        file[l][n] \in Blob \cup {Absent, Unusable}
  BY InitFiles
<1>2. PICK unusable \in SUBSET (WorkDirs \X Names),
           whole \in SUBSET (WorkDirs \X Controllers) :
        file = [m \in Locations |-> [k \in Names |->
                  CASE <<m, k>> \in whole -> Whole(k)
                    [] <<m, k>> \in unusable \ whole -> Unusable
                    [] OTHER -> Absent]]
  BY DEF Init, Copies
<1>3. file \in [Locations -> [Names -> Blob \cup {Absent, Unusable}]]
  <2>1. /\ file = [m \in Locations |-> file[m]]
        /\ \A m \in Locations : file[m] = [k \in Names |-> file[m][k]]
    BY <1>2
  <2>2. \A m \in Locations : file[m] \in [Names -> Blob \cup {Absent, Unusable}]
    BY <1>1, <2>1
  <2> QED
    BY <2>1, <2>2
<1> QED
  BY <1>3, CalibrationAssumption DEF Init, TypeOK, Blocks, NoHandle

LEMMA StepTyped == TypeOK /\ [Next]_vars => TypeOK'
<1> SUFFICES ASSUME TypeOK, [Next]_vars PROVE TypeOK'
  OBVIOUS
<1> USE CalibrationAssumption
<1>1. ASSUME NEW p \in Processes, Connect(p) PROVE TypeOK'
  <2>1. PICK c \in Controllers, n \in Names, usb \in BOOLEAN,
             failed \in BOOLEAN, l \in Locations :
          LET cal == Loaded(Found(l, n))
              h == [pc |-> "read", who |-> c, name |-> n, usb |-> usb, at |-> l,
                    cal |-> cal, buf |-> Uninitialised, n |-> 0,
                    failed |-> failed] IN
          /\ Named(c, usb, n, failed)
          /\ misnamed' = misnamed \cup ({n} \ {c})
          /\ IF MustRead(usb, cal)
             THEN handle' = [handle EXCEPT ![p] = h] /\ UNCHANGED stored
             ELSE /\ handle' = [handle EXCEPT ![p] = Opened(h, cal)]
                  /\ stored' = stored \cup Provided(h)
    BY <1>1, ConnectForm
  <2> DEFINE cal == Loaded(Found(l, n))
             h == [pc |-> "read", who |-> c, name |-> n, usb |-> usb, at |-> l,
                   cal |-> cal, buf |-> Uninitialised, n |-> 0,
                   failed |-> failed]
  <2>2. cal \in Usable
    BY LoadedType
  <2>3. h \in Opening
    BY <2>2, NoBlocksRead DEF Opening, Usable, Blocks
  <2>4. Opened(h, cal) \in Open
    BY <2>2, <2>3, NewForms
  <2>5. Provided(h) \subseteq Locations \X Names
    BY DEF Provided
  <2>6. faults' \in 0 .. MaxFaults
    BY <2>1 DEF Named, Fault, TypeOK
  <2> HIDE DEF h, cal
  <2>7. /\ handle' \in [Processes -> Opening \cup Open \cup {NoHandle}]
        /\ stored' \subseteq Locations \X Names
    BY <2>1, <2>3, <2>4, <2>5 DEF TypeOK, h, cal
  <2> QED
    BY <1>1, <2>1, <2>6, <2>7 DEF Connect, TypeOK
<1>2. ASSUME NEW p \in Processes, ReadBlock(p) PROVE TypeOK'
  <2> DEFINE h == handle[p]
             b == next[h.who]
             buf == [h.buf EXCEPT ![Place(b, h.n)] = <<h.who, b>>]
  <2>1. h \in Opening
    BY <1>2, Forms DEF ReadBlock, At
  <2>2. h.who \in Controllers /\ b \in Blocks /\ h.cal \in Usable
    BY <2>1 DEF Opening, TypeOK, Usable
  <2>3. buf \in Blob
    BY <2>1, <2>2, BlockPlaced DEF Opening, Place
  <2>4. HasRead(h, buf) \in Opening
    BY <2>1, <2>3, NewForms DEF Usable
  <2>5. [HasRead(h, h.cal) EXCEPT !.failed = TRUE] \in Opening
    BY <2>1, <2>2, NewForms
  <2>6. h.n < 2 => [h EXCEPT !.buf = buf, !.n = @ + 1] \in Opening
    <3>1. ASSUME NEW g \in Blob, NEW k \in Blocks
          PROVE  [h EXCEPT !.buf = g, !.n = k] \in Opening
      BY <2>1 DEF Opening
    <3>2. h.n < 2 => h.n + 1 \in Blocks
      BY <2>1 DEF Opening, Blocks
    <3> HIDE DEF h, buf
    <3> QED
      BY <2>3, <3>1, <3>2
  <2>7. next' \in [Controllers -> Blocks]
    BY <1>2, <2>2 DEF ReadBlock, Answered, TypeOK, Blocks
  <2>8. mixed' \subseteq Controllers
    BY <1>2, <2>2 DEF ReadBlock, TypeOK
  <2>9. faults' \in 0 .. MaxFaults
    BY <1>2 DEF ReadBlock, Fault, TypeOK
  <2> HIDE DEF buf
  <2>10. handle' \in [Processes -> Opening \cup Open \cup {NoHandle}]
    BY <1>2, <2>4, <2>5, <2>6 DEF ReadBlock, TypeOK, buf
  <2> QED
    BY <1>2, <2>7, <2>8, <2>9, <2>10 DEF ReadBlock, TypeOK
<1>3. ASSUME NEW p \in Processes, OpenFile(p) PROVE TypeOK'
  <2>1. handle[p] \in Opening
    BY <1>3, Forms DEF OpenFile, At
  <2>2. [handle[p] EXCEPT !.pc = "close"] \in Opening
    BY <2>1 DEF Opening
  <2>3. handle' \in [Processes -> Opening \cup Open \cup {NoHandle}]
    BY <1>3, <2>2 DEF OpenFile, TypeOK
  <2>4. file' \in [Locations -> [Names -> Blob \cup {Absent, Unusable}]]
    BY <1>3, <2>1 DEF OpenFile, TypeOK, Opening
  <2> QED
    BY <1>3, <2>3, <2>4 DEF OpenFile, TypeOK
<1>4. ASSUME NEW p \in Processes, CloseFile(p) PROVE TypeOK'
  <2> DEFINE h == handle[p]
  <2>1. h \in Opening
    BY <1>4, Forms DEF CloseFile, At
  <2>2. h.cal \in Usable /\ h.at \in Locations /\ h.name \in Names
    BY <2>1 DEF Opening, Usable
  <2>3. Opened(h, h.cal) \in Open
    BY <2>1, <2>2, NewForms
  <2>4. handle' \in [Processes -> Opening \cup Open \cup {NoHandle}]
    BY <1>4, <2>3 DEF CloseFile, TypeOK
  <2>5. file' \in [Locations -> [Names -> Blob \cup {Absent, Unusable}]]
    BY <1>4, <2>2 DEF CloseFile, TypeOK, Usable
  <2>6. stored' \subseteq Locations \X Names
    BY <1>4, <2>2 DEF CloseFile, TypeOK, Provided
  <2>7. overtaken' \subseteq Processes
    BY <1>4 DEF CloseFile, TypeOK, Overtakes
  <2> QED
    BY <1>4, <2>4, <2>5, <2>6, <2>7 DEF CloseFile, TypeOK
<1>5. ASSUME NEW p \in Processes, SaveFails(p) PROVE TypeOK'
  <2>1. handle[p] \in Opening
    BY <1>5, Forms DEF SaveFails, At
  <2>2. Opened(handle[p], handle[p].cal) \in Open
    BY <2>1, NewForms DEF Opening, Usable
  <2>3. faults' \in 0 .. MaxFaults
    BY <1>5 DEF SaveFails, Fault, TypeOK
  <2> QED
    BY <1>5, <2>2, <2>3 DEF SaveFails, TypeOK
<1>6. ASSUME NEW p \in Processes, Disconnect(p) PROVE TypeOK'
  BY <1>6 DEF Disconnect, TypeOK, hidden
<1>7. ASSUME NEW p \in Processes, Crash(p) PROVE TypeOK'
  <2>1. faults' \in 0 .. MaxFaults
    BY <1>7 DEF Crash, Fault, TypeOK
  <2> QED
    BY <1>7, <2>1 DEF Crash, TypeOK
<1>8. CASE UNCHANGED vars
  BY <1>8 DEF vars, hidden, TypeOK
<1> QED
  BY <1>1, <1>2, <1>3, <1>4, <1>5, <1>6, <1>7, <1>8 DEF Next, Step

\* The files, handles and what has been read keep their types.
THEOREM TypeCorrect == Spec => []TypeOK
<1>1. Init => TypeOK
  BY InitTyped
<1>2. TypeOK /\ [Next]_vars => TypeOK'
  BY StepTyped
<1> QED
  BY <1>1, <1>2, PTL DEF Spec

-----------------------------------------------------------------------------
\* A handle whose file another controller has not used goes by its own name.
NameRight ==
  \A p \in Processes : ~At(p, "idle")
    => handle[p].name = handle[p].who \/ handle[p].name \in misnamed

FilesOwn ==
  \A l \in Locations, c \in Controllers :
    c \in mixed \/ c \in misnamed \/ file[l][c] \in {Absent, Unusable, Whole(c)}

CalsOwn ==
  \A p \in Processes : ~At(p, "idle")
    => \/ handle[p].who \in mixed \/ handle[p].name \in misnamed
       \/ handle[p].cal \in {Unusable, Whole(handle[p].who)}

\* The last n blocks that the controller has sent are those that a process
\* has read, if no other was reading from it.
BlocksOwn ==
  \A p \in Processes : At(p, "read")
    => \/ handle[p].who \in mixed
       \/ \A b \in Blocks :
            ((next[handle[p].who] + 2 - b) % 3) < handle[p].n
              => handle[p].buf[b] = <<handle[p].who, b>>

OwnInv == NameRight /\ FilesOwn /\ CalsOwn /\ BlocksOwn

\* A block more: it is the last one now, and the others are one further back.
LEMMA NextBlock ==
  ASSUME NEW x \in Blocks, NEW b \in Blocks, b # x, NEW n \in Blocks,
         (((x + 1) % 3) + 2 - b) % 3 < n + 1
  PROVE  (x + 2 - b) % 3 < n
BY DEF Blocks

\* Whatever process moves, the others' handles stay as they are.
LEMMA OthersKept ==
  ASSUME NEW p \in Processes, NEW q \in Processes, q # p, TypeOK, Step(p)
  PROVE  handle'[q] = handle[q]
<1> USE DEF TypeOK
<1>1. CASE Connect(p)
  BY <1>1 DEF Connect
<1>2. CASE ReadBlock(p)
  BY <1>2 DEF ReadBlock
<1>3. CASE OpenFile(p)
  BY <1>3 DEF OpenFile
<1>4. CASE CloseFile(p)
  BY <1>4 DEF CloseFile
<1>5. CASE SaveFails(p)
  BY <1>5 DEF SaveFails
<1>6. CASE Disconnect(p) \/ Crash(p)
  BY <1>6 DEF Disconnect, Crash
<1> QED
  BY <1>1, <1>2, <1>3, <1>4, <1>5, <1>6 DEF Step

\* What a turn of the loop over the blocks makes of a handle.
LEMMA ReadOutcome ==
  ASSUME TypeOK, NEW p \in Processes, ReadBlock(p)
  PROVE  LET h == handle[p]
             b == next[h.who]
             buf == [h.buf EXCEPT ![b] = <<h.who, b>>]
             g == handle'[p] IN
         /\ g.who = h.who /\ g.name = h.name /\ g.at = h.at
         /\ \/ /\ h.n < 2 /\ g.pc = "read" /\ g.buf = buf /\ g.n = h.n + 1
               /\ g.cal = h.cal /\ g.failed = h.failed /\ Answered(h.who)
            \/ h.n = 2 /\ g.pc = "open" /\ g.cal = buf /\ g.failed = h.failed
            \/ g.pc = "open" /\ g.cal = h.cal /\ g.failed = TRUE
<1> DEFINE h == handle[p]
           b == next[h.who]
           buf == [h.buf EXCEPT ![b] = <<h.who, b>>]
<1>1. h \in Opening
  BY Forms DEF ReadBlock, At
<1>2. \/ /\ h.n < 2 /\ Answered(h.who)
         /\ handle'[p] = [h EXCEPT !.buf = buf, !.n = h.n + 1]
      \/ ~(h.n < 2) /\ handle'[p] = HasRead(h, buf)
      \/ handle'[p] = [HasRead(h, h.cal) EXCEPT !.failed = TRUE]
  BY DEF ReadBlock, Place, TypeOK
<1>3. h.n \in Blocks /\ h.pc = "read"
  BY <1>1 DEF Opening, ReadBlock, At
<1>4. ASSUME NEW c, NEW k
      PROVE  LET g == [h EXCEPT !.buf = c, !.n = k] IN
             /\ g.who = h.who /\ g.name = h.name /\ g.at = h.at
             /\ g.pc = h.pc /\ g.buf = c /\ g.n = k
             /\ g.cal = h.cal /\ g.failed = h.failed
  BY <1>1 DEF Opening
<1>5. ASSUME NEW c
      PROVE  LET g == HasRead(h, c) IN
             /\ g.who = h.who /\ g.name = h.name /\ g.at = h.at
             /\ g.pc = "open" /\ g.cal = c /\ g.failed = h.failed
  BY <1>1 DEF Opening, HasRead
<1>6. LET g == [HasRead(h, h.cal) EXCEPT !.failed = TRUE] IN
      /\ g.who = h.who /\ g.name = h.name /\ g.at = h.at
      /\ g.pc = "open" /\ g.cal = h.cal /\ g.failed = TRUE
  BY <1>1 DEF Opening, HasRead
<1> HIDE DEF h, buf
<1>7. CASE h.n < 2 /\ Answered(h.who)
             /\ handle'[p] = [h EXCEPT !.buf = buf, !.n = h.n + 1]
  BY <1>3, <1>4, <1>7 DEF h, buf
<1>8. CASE ~(h.n < 2) /\ handle'[p] = HasRead(h, buf)
  BY <1>3, <1>5, <1>8 DEF h, buf, Blocks
<1>9. CASE handle'[p] = [HasRead(h, h.cal) EXCEPT !.failed = TRUE]
  BY <1>6, <1>9 DEF h, buf
<1> QED
  BY <1>2, <1>7, <1>8, <1>9

\* What the steps that save the calibration make of a handle.
LEMMA SaveOutcome ==
  ASSUME TypeOK, NEW p \in Processes,
         OpenFile(p) \/ CloseFile(p) \/ SaveFails(p)
  PROVE  /\ handle[p] \in Opening
         /\ handle'[p].who = handle[p].who
         /\ handle'[p].name = handle[p].name
         /\ handle'[p].cal = handle[p].cal
         /\ OpenFile(p) => /\ handle'[p].pc = "close"
                           /\ handle'[p].at = handle[p].at
                           /\ handle'[p].failed = handle[p].failed
         /\ CloseFile(p) \/ SaveFails(p) => handle'[p].pc = "done"
<1>1. handle[p] \in Opening
  BY Forms DEF OpenFile, CloseFile, SaveFails, At
<1>2. CASE OpenFile(p)
  <2>1. handle'[p] = [handle[p] EXCEPT !.pc = "close"] /\ handle[p].pc = "open"
    BY <1>2 DEF OpenFile, TypeOK, At
  <2>2. ~CloseFile(p) /\ ~SaveFails(p)
    BY <1>1, <2>1 DEF CloseFile, SaveFails, At, Opened, TypeOK, Opening
  <2> QED
    BY <1>1, <1>2, <2>1, <2>2 DEF Opening
<1>3. CASE CloseFile(p) \/ SaveFails(p)
  <2>1. handle'[p] = Opened(handle[p], handle[p].cal)
    BY <1>3 DEF CloseFile, SaveFails, TypeOK
  <2>2. ~OpenFile(p)
    BY <2>1, <1>1 DEF OpenFile, Opened, TypeOK, Opening
  <2> QED
    BY <1>1, <2>1, <2>2 DEF Opened
<1> QED
  BY <1>2, <1>3

\* The excuses only grow.
LEMMA ExcusesKept ==
  ASSUME NEW p \in Processes, Step(p)
  PROVE  mixed \subseteq mixed' /\ misnamed \subseteq misnamed'
<1>1. CASE Connect(p)
  BY <1>1 DEF Connect
<1>2. CASE ReadBlock(p)
  BY <1>2 DEF ReadBlock
<1>3. CASE ~Connect(p) /\ ~ReadBlock(p)
  BY <1>3 DEF Step, OpenFile, CloseFile, SaveFails, Disconnect, Crash, hidden
<1> QED
  BY <1>1, <1>2, <1>3

LEMMA NameRightStep ==
  ASSUME TypeOK, NameRight, NEW p \in Processes, Step(p)
  PROVE  NameRight'
<1> SUFFICES ASSUME NEW q \in Processes, handle'[q].pc # "idle"
             PROVE  \/ handle'[q].name = handle'[q].who
                    \/ handle'[q].name \in misnamed'
  BY DEF NameRight, At
<1>1. CASE q # p
  BY <1>1, OthersKept, ExcusesKept DEF NameRight, At
<1>2. CASE q = p /\ Connect(p)
  <2>1. PICK c \in Controllers, n \in Names :
          /\ misnamed' = misnamed \cup ({n} \ {c})
          /\ handle'[p].who = c /\ handle'[p].name = n
    BY <1>2 DEF Connect, Opened, TypeOK
  <2> QED
    BY <1>2, <2>1
<1>3. CASE q = p /\ ~Connect(p)
  <2>1. /\ handle[p].pc # "idle"
        /\ handle'[p].who = handle[p].who /\ handle'[p].name = handle[p].name
    <3>1. CASE ReadBlock(p)
      <4>1. handle[p] \in Opening
        BY <3>1, Forms DEF ReadBlock, At
      <4> QED
        BY <3>1, <4>1, ReadOutcome DEF ReadBlock, At
    <3>2. CASE OpenFile(p) \/ CloseFile(p) \/ SaveFails(p)
      BY <3>2, SaveOutcome DEF OpenFile, CloseFile, SaveFails, At
    <3>3. CASE Disconnect(p) \/ Crash(p)
      BY <1>3, <3>3 DEF Disconnect, Crash, NoHandle, TypeOK
    <3> QED
      BY <1>3, <3>1, <3>2, <3>3 DEF Step
  <2> QED
    BY <1>3, <2>1, ExcusesKept DEF NameRight, At
<1> QED
  BY <1>1, <1>2, <1>3

\* What a handle is when it has named and loaded its file.
LEMMA ConnectOutcome ==
  ASSUME TypeOK, NEW p \in Processes, Connect(p)
  PROVE  \E c \in Controllers, n \in Names, usb, failed \in BOOLEAN,
            l \in Locations :
         LET cal == Loaded(Found(l, n))
             g == handle'[p] IN
         /\ misnamed' = misnamed \cup ({n} \ {c})
         /\ g.who = c /\ g.name = n /\ g.cal = cal
         /\ \/ /\ usb /\ cal = Unusable /\ UNCHANGED stored
               /\ g.pc = "read" /\ g.at = l /\ g.n = 0
            \/ /\ g.pc = "done"
               /\ \/ UNCHANGED stored
                  \/ cal # Unusable /\ stored' = stored \cup {<<l, n>>}
<1>1. PICK c \in Controllers, n \in Names, usb \in BOOLEAN,
           failed \in BOOLEAN, l \in Locations :
        LET cal == Loaded(Found(l, n))
            h == [pc |-> "read", who |-> c, name |-> n, usb |-> usb, at |-> l,
                  cal |-> cal, buf |-> Uninitialised, n |-> 0,
                  failed |-> failed] IN
        /\ Named(c, usb, n, failed)
        /\ misnamed' = misnamed \cup ({n} \ {c})
        /\ IF MustRead(usb, cal)
           THEN handle' = [handle EXCEPT ![p] = h] /\ UNCHANGED stored
           ELSE /\ handle' = [handle EXCEPT ![p] = Opened(h, cal)]
                /\ stored' = stored \cup Provided(h)
  BY ConnectForm
<1> DEFINE cal == Loaded(Found(l, n))
           h == [pc |-> "read", who |-> c, name |-> n, usb |-> usb, at |-> l,
                 cal |-> cal, buf |-> Uninitialised, n |-> 0,
                 failed |-> failed]
<1>2. /\ h.who = c /\ h.name = n /\ h.cal = cal /\ h.pc = "read"
      /\ h.at = l /\ h.n = 0 /\ h.usb = usb
      /\ Opened(h, cal).who = c /\ Opened(h, cal).name = n
      /\ Opened(h, cal).cal = cal /\ Opened(h, cal).pc = "done"
  BY DEF Opened
<1>3. Provided(h) \in {{}, {<<l, n>>}} /\ (Provided(h) # {} => usb)
  BY DEF Provided
<1> HIDE DEF h
<1>4. CASE MustRead(usb, cal)
  <2>1. handle'[p] = h /\ UNCHANGED stored
    BY <1>1, <1>4 DEF h, TypeOK
  <2> QED
    BY <1>1, <1>2, <1>4, <2>1 DEF MustRead
<1>5. CASE ~MustRead(usb, cal)
  <2>1. handle'[p] = Opened(h, cal) /\ stored' = stored \cup Provided(h)
    BY <1>1, <1>5 DEF h, TypeOK
  <2>2. UNCHANGED stored \/ (cal # Unusable /\ stored' = stored \cup {<<l, n>>})
    BY <1>3, <1>5, <2>1 DEF MustRead
  <2> QED
    BY <1>1, <1>2, <2>1, <2>2
<1> QED
  BY <1>4, <1>5

LEMMA CalsOwnStep ==
  ASSUME TypeOK, OwnInv, NEW p \in Processes, Step(p)
  PROVE  CalsOwn'
<1> SUFFICES ASSUME NEW q \in Processes, handle'[q].pc # "idle",
                    handle'[q].who \notin mixed', handle'[q].name \notin misnamed'
             PROVE  handle'[q].cal \in {Unusable, Whole(handle'[q].who)}
  BY DEF CalsOwn, At
<1>1. CASE q # p
  BY <1>1, OthersKept, ExcusesKept DEF OwnInv, CalsOwn, At
<1>2. CASE q = p /\ Connect(p)
  <2>1. PICK c \in Controllers, n \in Names, l \in Locations :
          /\ misnamed' = misnamed \cup ({n} \ {c})
          /\ handle'[p].who = c /\ handle'[p].name = n
          /\ handle'[p].cal = Loaded(Found(l, n))
    BY <1>2, ConnectOutcome
  <2>2. n = c /\ c \notin misnamed /\ c \notin mixed
    BY <1>2, <2>1 DEF Connect
  <2> QED
    BY <1>2, <2>1, <2>2 DEF OwnInv, FilesOwn, Loaded, Found,
                                 Locations, Homes
<1>3. CASE q = p /\ ReadBlock(p)
  <2>1. /\ handle[p] \in Opening /\ next[handle[p].who] \in Blocks
        /\ handle[p].pc = "read"
    BY <1>3, Forms DEF ReadBlock, At, Opening, TypeOK
  <2>2. CASE handle'[p].cal = handle[p].cal
    BY <1>3, <2>1, <2>2, ReadOutcome, ExcusesKept DEF OwnInv, CalsOwn, At
  <2>3. CASE /\ handle[p].n = 2
             /\ handle'[p].cal = [handle[p].buf EXCEPT ![next[handle[p].who]]
                                    = <<handle[p].who, next[handle[p].who]>>]
    <3>1. handle'[p].who = handle[p].who /\ handle[p].who \notin mixed
      BY <1>3, ReadOutcome, ExcusesKept
    <3>2. ASSUME NEW b \in Blocks, b # next[handle[p].who]
          PROVE  handle[p].buf[b] = <<handle[p].who, b>>
      <4>1. (next[handle[p].who] + 2 - b) % 3 < 2
        BY <2>1, <3>2 DEF Blocks
      <4> QED
        BY <1>3, <2>1, <2>3, <3>1, <4>1 DEF OwnInv, BlocksOwn, At
    <3>3. handle[p].buf \in Blob
      BY <2>1 DEF Opening
    <3>4. handle'[p].cal = Whole(handle[p].who)
      BY <2>1, <2>3, <3>2, <3>3 DEF Blob, Whole
    <3> QED
      BY <1>3, <3>1, <3>4
  <2> QED
    BY <1>3, <2>2, <2>3, ReadOutcome
<1>4. CASE q = p /\ (OpenFile(p) \/ CloseFile(p) \/ SaveFails(p))
  BY <1>4, SaveOutcome, ExcusesKept
     DEF OwnInv, CalsOwn, At, OpenFile, CloseFile, SaveFails
<1>5. CASE q = p /\ (Disconnect(p) \/ Crash(p))
  BY <1>5 DEF Disconnect, Crash, NoHandle, TypeOK
<1> QED
  BY <1>1, <1>2, <1>3, <1>4, <1>5 DEF Step

LEMMA BlocksOwnStep ==
  ASSUME TypeOK, OwnInv, NEW p \in Processes, Step(p)
  PROVE  BlocksOwn'
<1> SUFFICES ASSUME NEW q \in Processes, handle'[q].pc = "read",
                    handle'[q].who \notin mixed', NEW b \in Blocks,
                    (next'[handle'[q].who] + 2 - b) % 3 < handle'[q].n
             PROVE  handle'[q].buf[b] = <<handle'[q].who, b>>
  BY DEF BlocksOwn, At
<1>1. CASE q # p /\ ReadBlock(p) /\ handle[q].who = handle[p].who
  <2>1. handle'[q] = handle[q] /\ handle[q].pc = "read" /\ handle[q] \in Opening
    BY <1>1, OthersKept, Forms
  <2>2. q \notin Between(handle[p].who)
    BY <1>1, <2>1 DEF ReadBlock
  <2>3. handle[q].n = 0
    BY <1>1, <2>1, <2>2 DEF Between, At, Opening, Blocks
  <2>4. next'[handle[q].who] \in Blocks
    BY <2>1, StepTyped DEF TypeOK, Opening, Next
  <2> QED
    BY <2>1, <2>3, <2>4 DEF Blocks
<1>2. CASE q # p /\ ~(ReadBlock(p) /\ handle[q].who = handle[p].who)
  <2>1. handle'[q] = handle[q] /\ handle[q] \in Opening
    BY <1>2, OthersKept, Forms
  <2>2. next'[handle[q].who] = next[handle[q].who]
    <3>1. CASE ReadBlock(p)
      BY <1>2, <2>1, <3>1 DEF ReadBlock, Answered, TypeOK, Opening
    <3>2. CASE ~ReadBlock(p)
      BY <3>2 DEF Step, Connect, OpenFile, CloseFile, SaveFails, Disconnect,
                  Crash
    <3> QED
      BY <3>1, <3>2
  <2> QED
    BY <2>1, <2>2, ExcusesKept DEF OwnInv, BlocksOwn, At
<1>3. CASE q = p /\ ReadBlock(p)
  <2> DEFINE h == handle[p]
             x == next[h.who]
  <2>1. h \in Opening /\ x \in Blocks /\ h.pc = "read"
    BY <1>3, Forms DEF ReadBlock, At, Opening, TypeOK
  <2>2. /\ handle'[p].who = h.who /\ handle'[p].n = h.n + 1
        /\ handle'[p].buf = [h.buf EXCEPT ![x] = <<h.who, x>>]
        /\ next' = [next EXCEPT ![h.who] = (@ + 1) % 3]
    BY <1>3, ReadOutcome DEF Answered
  <2>3. h.who \in Controllers /\ h.n \in Blocks /\ h.buf \in Blob
    BY <2>1 DEF Opening
  <2>4. next'[h.who] = (x + 1) % 3 /\ h.who \notin mixed
    BY <1>3, <2>2, <2>3, ExcusesKept DEF TypeOK
  <2>5. CASE b = x
    BY <1>3, <2>2, <2>3, <2>5 DEF Blob
  <2>6. CASE b # x
    <3>1. (((x + 1) % 3) + 2 - b) % 3 < h.n + 1
      BY <1>3, <2>2, <2>4
    <3> HIDE DEF h, x
    <3>2. (x + 2 - b) % 3 < h.n
      BY <2>1, <2>3, <2>6, <3>1, NextBlock
    <3>3. h.buf[b] = <<h.who, b>>
      BY <2>1, <2>4, <3>2 DEF OwnInv, BlocksOwn, At, h, x
    <3> QED
      BY <1>3, <2>2, <2>3, <2>6, <3>3 DEF Blob
  <2> QED
    BY <2>5, <2>6
<1>4. CASE q = p /\ Connect(p)
  <2>1. handle'[p].n = 0 /\ handle'[p].who \in Controllers
    BY <1>4, ConnectOutcome
  <2>2. next'[handle'[p].who] \in Blocks
    BY <2>1, StepTyped DEF TypeOK, Next
  <2> QED
    BY <1>4, <2>1, <2>2 DEF Blocks
<1>5. CASE q = p /\ (OpenFile(p) \/ CloseFile(p) \/ SaveFails(p))
  BY <1>5, SaveOutcome
<1>6. CASE q = p /\ (Disconnect(p) \/ Crash(p))
  BY <1>6 DEF Disconnect, Crash, NoHandle, TypeOK
<1> QED
  BY <1>1, <1>2, <1>3, <1>4, <1>5, <1>6 DEF Step

LEMMA FilesOwnStep ==
  ASSUME TypeOK, OwnInv, NEW p \in Processes, Step(p)
  PROVE  FilesOwn'
<1> SUFFICES ASSUME NEW l \in Locations, NEW c \in Controllers,
                    c \notin mixed', c \notin misnamed'
             PROVE  file'[l][c] \in {Absent, Unusable, Whole(c)}
  BY DEF FilesOwn
<1>1. file[l][c] \in {Absent, Unusable, Whole(c)}
  BY ExcusesKept DEF OwnInv, FilesOwn
<1>2. CASE OpenFile(p)
  <2>1. handle[p] \in Opening
    BY <1>2, SaveOutcome
  <2> QED
    BY <1>1, <1>2, <2>1 DEF OpenFile, TypeOK, Opening
<1>3. CASE CloseFile(p)
  <2>1. handle[p] \in Opening /\ handle[p].pc # "idle"
    BY <1>3, SaveOutcome DEF CloseFile, At
  <2>2. handle[p].name = c => handle[p].cal \in {Unusable, Whole(c)}
    BY <2>1, ExcusesKept DEF OwnInv, NameRight, CalsOwn, At
  <2>3. file'[l][c] = IF l = handle[p].at /\ c = handle[p].name
                      THEN handle[p].cal ELSE file[l][c]
    BY <1>3, <2>1, CalibrationAssumption DEF CloseFile, TypeOK, Opening
  <2> QED
    BY <1>1, <2>2, <2>3
<1>4. CASE ~OpenFile(p) /\ ~CloseFile(p)
  BY <1>1, <1>4 DEF Step, Connect, ReadBlock, SaveFails, Disconnect, Crash
<1> QED
  BY <1>2, <1>3, <1>4

\* A handle that says it has a calibration has all of it, and its own
\* controller's, unless the blocks or the names of files have been mixed up.
THEOREM OwnCalibrationHolds == Spec => []OwnCalibration
<1>1. Init => OwnInv
  <2>1. Init => FilesOwn
    <3> SUFFICES ASSUME Init, NEW l \in Locations, NEW c \in Controllers
                 PROVE  file[l][c] \in {Absent, Unusable, Whole(c)}
      BY DEF FilesOwn
    <3> QED
      BY InitFiles, CalibrationAssumption
  <2> QED
    BY <2>1 DEF Init, OwnInv, NameRight, CalsOwn, BlocksOwn, At, NoHandle
<1>2. TypeOK /\ OwnInv /\ [Next]_vars => OwnInv'
  <2>1. ASSUME TypeOK, OwnInv, NEW p \in Processes, Step(p) PROVE OwnInv'
    BY <2>1, NameRightStep, CalsOwnStep, BlocksOwnStep, FilesOwnStep DEF OwnInv
  <2>2. ASSUME OwnInv, UNCHANGED vars PROVE OwnInv'
    BY <2>2 DEF vars, hidden, OwnInv, NameRight, FilesOwn, CalsOwn, BlocksOwn, At
  <2> QED
    BY <2>1, <2>2 DEF Next
<1>3. OwnInv => OwnCalibration
  BY DEF OwnInv, CalsOwn, OwnCalibration, At
<1> QED
  BY <1>1, <1>2, <1>3, TypeCorrect, PTL DEF Spec

-----------------------------------------------------------------------------
\* A process that is to save finds no calibration yet, unless another one has
\* saved one since it looked; it has got one itself, if nothing has failed.
Unserved ==
  \A p \in Processes :
    /\ (handle[p].pc \in {"read", "open", "close"} /\ p \notin overtaken)
         => Loaded(Found(handle[p].at, handle[p].name)) = Unusable
    /\ (handle[p].pc \in {"open", "close"} /\ ~handle[p].failed)
         => handle[p].cal # Unusable

StoreInv == StoredIsFound /\ Unserved

\* What saving does to the files, and to what is provided for.
LEMMA SaveEffect ==
  ASSUME TypeOK, Unserved, NEW p \in Processes, OpenFile(p) \/ CloseFile(p)
  PROVE  \E v \in Usable :
           /\ \A l \in Locations, n \in Names :
                file'[l][n] = IF l = handle[p].at /\ n = handle[p].name
                              THEN v ELSE file[l][n]
           /\ \/ stored' = stored \ Damaged(p)
              \/ /\ v # Unusable
                 /\ stored' = (stored \ Damaged(p))
                                 \cup {<<handle[p].at, handle[p].name>>}
           /\ OpenFile(p) => v = Unusable
<1>1. /\ handle[p] \in Opening
      /\ handle[p].at \in Locations /\ handle[p].name \in Names
      /\ handle[p].cal \in Usable
  BY SaveOutcome DEF Opening, Usable
<1>2. CASE OpenFile(p)
  <2>1. stored' = stored \ Damaged(p)
    BY <1>2 DEF OpenFile
  <2>2. \A l \in Locations, n \in Names :
          file'[l][n] = IF l = handle[p].at /\ n = handle[p].name
                        THEN Unusable ELSE file[l][n]
    BY <1>1, <1>2 DEF OpenFile, TypeOK
  <2> QED
    BY <2>1, <2>2 DEF Usable
<1>3. CASE CloseFile(p)
  <2>1. ~OpenFile(p) /\ handle[p].pc = "close"
    BY <1>3, SaveOutcome DEF CloseFile, At, OpenFile
  <2>2. \A l \in Locations, n \in Names :
          file'[l][n] = IF l = handle[p].at /\ n = handle[p].name
                        THEN handle[p].cal ELSE file[l][n]
    BY <1>1, <1>3 DEF CloseFile, TypeOK
  <2>3. \/ stored' = stored \ Damaged(p)
        \/ /\ handle[p].cal # Unusable
           /\ stored' = (stored \ Damaged(p))
                           \cup {<<handle[p].at, handle[p].name>>}
    BY <1>3, <2>1 DEF CloseFile, Provided, Unserved
  <2> QED
    BY <1>1, <2>1, <2>2, <2>3
<1> QED
  BY <1>2, <1>3

LEMMA StoredStep ==
  ASSUME TypeOK, TypeOK', StoreInv, NEW p \in Processes, Step(p)
  PROVE  StoredIsFound'
<1> USE NoBlobAssumption
<1> SUFFICES ASSUME NEW s \in stored'
             PROVE  Loaded(Found(s[1], s[2]))' # Unusable
  BY DEF StoredIsFound
<1>1. s[1] \in Locations /\ s[2] \in Names /\ s = <<s[1], s[2]>>
  BY DEF TypeOK
<1>2. s \in stored => Loaded(Found(s[1], s[2])) # Unusable
  BY DEF StoreInv, StoredIsFound
<1>3. CASE OpenFile(p) \/ CloseFile(p)
  <2> DEFINE at == handle[p].at
             name == handle[p].name
  <2>1. PICK v \in Usable :
          /\ \A l \in Locations, n \in Names :
               file'[l][n] = IF l = at /\ n = name THEN v ELSE file[l][n]
          /\ \/ stored' = stored \ Damaged(p)
             \/ v # Unusable /\ stored' = (stored \ Damaged(p)) \cup {<<at, name>>}
    BY <1>3, SaveEffect DEF StoreInv
  <2>2. /\ handle[p].pc \in {"open", "close"}
        /\ at \in Locations /\ name \in Names
    BY <1>3, SaveOutcome DEF OpenFile, CloseFile, At, Opening
  <2>3. /\ file'[s[1]][s[2]] = IF s = <<at, name>> THEN v ELSE file[s[1]][s[2]]
        /\ file'["root"][s[2]] = IF <<"root", s[2]>> = <<at, name>>
                                 THEN v ELSE file["root"][s[2]]
    BY <1>1, <2>1 DEF Locations, Homes
  <2>4. v # Absent
    BY CalibrationAssumption DEF Usable
  <2> HIDE DEF at, name
  <2>5. CASE v # Unusable
    BY <1>2, <2>1, <2>3, <2>4, <2>5 DEF Found, Loaded
  <2>6. CASE v = Unusable
    <3>1. s \in stored /\ s \notin Damaged(p)
      BY <2>1, <2>6
    <3>2. CASE name # s[2] \/ at \notin {s[1], "root"}
      BY <1>2, <2>3, <3>1, <3>2 DEF Found, Loaded
    <3>3. CASE name = s[2] /\ at \in {s[1], "root"}
      <4>1. p \notin overtaken
        BY <3>1, <3>3 DEF Damaged, at, name
      <4>2. Loaded(Found(at, name)) = Unusable
        BY <2>2, <4>1 DEF StoreInv, Unserved, at, name
      <4>3. s[1] # at /\ at = "root"
        BY <1>2, <3>1, <3>3, <4>2
      <4> QED
        BY <1>2, <2>3, <3>1, <3>3, <4>2, <4>3 DEF Found, Loaded
    <3> QED
      BY <3>2, <3>3
  <2> QED
    BY <2>5, <2>6
<1>4. CASE Connect(p)
  <2>1. file' = file
    BY <1>4 DEF Connect
  <2>2. PICK l \in Locations, n \in Names :
          \/ UNCHANGED stored
          \/ /\ Loaded(Found(l, n)) # Unusable
             /\ stored' = stored \cup {<<l, n>>}
    BY <1>4, ConnectOutcome
  <2> QED
    BY <1>1, <1>2, <2>1, <2>2 DEF Found, Loaded
<1>5. CASE ~OpenFile(p) /\ ~CloseFile(p) /\ ~Connect(p)
  <2>1. UNCHANGED <<file, stored>>
    BY <1>5 DEF Step, ReadBlock, SaveFails, Disconnect, Crash, hidden
  <2> QED
    BY <1>2, <2>1 DEF Found, Loaded
<1> QED
  BY <1>3, <1>4, <1>5

LEMMA UnservedStep ==
  ASSUME TypeOK, StoreInv, NEW p \in Processes, Step(p)
  PROVE  Unserved'
<1> USE NoBlobAssumption
<1>1. ASSUME NEW q \in Processes,
             handle'[q].pc \in {"open", "close"}, ~handle'[q].failed
      PROVE  handle'[q].cal # Unusable
  <2>1. CASE q # p
    BY <1>1, <2>1, OthersKept DEF StoreInv, Unserved
  <2>2. CASE q = p /\ Connect(p)
    BY <1>1, <2>2, ConnectOutcome
  <2>3. CASE q = p /\ ReadBlock(p)
    <3>1. handle[p] \in Opening /\ next[handle[p].who] \in Blocks
      BY <2>3, Forms DEF ReadBlock, At, Opening, TypeOK
    <3>2. [handle[p].buf EXCEPT ![next[handle[p].who]]
             = <<handle[p].who, next[handle[p].who]>>] \in Blob
      BY <3>1, BlockPlaced DEF Opening
    <3> QED
      BY <1>1, <2>3, <3>2, ReadOutcome
  <2>4. CASE q = p /\ (OpenFile(p) \/ CloseFile(p) \/ SaveFails(p))
    BY <1>1, <2>4, SaveOutcome DEF StoreInv, Unserved, OpenFile, At
  <2>5. CASE q = p /\ (Disconnect(p) \/ Crash(p))
    BY <1>1, <2>5 DEF Disconnect, Crash, NoHandle, TypeOK
  <2> QED
    BY <2>1, <2>2, <2>3, <2>4, <2>5 DEF Step
<1>2. ASSUME NEW q \in Processes, q \notin overtaken',
             handle'[q].pc \in {"read", "open", "close"}
      PROVE  Loaded(Found(handle[q].at, handle[q].name))' = Unusable
  <2>1. CASE OpenFile(p) \/ CloseFile(p)
    <3>1. PICK v \in Usable :
            /\ \A l \in Locations, n \in Names :
                 file'[l][n] = IF l = handle[p].at /\ n = handle[p].name
                               THEN v ELSE file[l][n]
            /\ OpenFile(p) => v = Unusable
      BY <2>1, SaveEffect DEF StoreInv
    <3>2. /\ q # p \/ OpenFile(p)
          /\ handle'[q].at = handle[q].at /\ handle'[q].name = handle[q].name
          /\ handle[q].pc \in {"read", "open", "close"}
      BY <1>2, <2>1, OthersKept, SaveOutcome DEF OpenFile, At
    <3>3. handle[q].at \in Locations /\ handle[q].name \in Names
      BY <3>2, Forms DEF Opening
    <3>4. q \notin overtaken
      BY <1>2, <2>1, <3>2 DEF OpenFile, CloseFile
    <3>5. Loaded(Found(handle[q].at, handle[q].name)) = Unusable
      BY <3>2, <3>4 DEF StoreInv, Unserved
    <3>6. \/ v = Unusable
          \/ handle[q].name # handle[p].name
          \/ handle[p].at \notin {handle[q].at, "root"}
      <4>1. CASE OpenFile(p)
        BY <3>1, <4>1
      <4>2. CASE ~OpenFile(p)
        BY <1>2, <2>1, <3>2, <4>2 DEF CloseFile, Overtakes
      <4> QED
        BY <4>1, <4>2
    <3>7. /\ file'[handle[q].at][handle[q].name] =
               IF handle[q].at = handle[p].at /\ handle[q].name = handle[p].name
               THEN v ELSE file[handle[q].at][handle[q].name]
          /\ file'["root"][handle[q].name] =
               IF "root" = handle[p].at /\ handle[q].name = handle[p].name
               THEN v ELSE file["root"][handle[q].name]
      BY <3>1, <3>3 DEF Locations, Homes
    <3> QED
      BY <3>2, <3>5, <3>6, <3>7 DEF Found, Loaded
  <2>2. CASE ~OpenFile(p) /\ ~CloseFile(p)
    <3>1. file' = file
      BY <2>2 DEF Step, Connect, ReadBlock, SaveFails, Disconnect, Crash
    <3>2. CASE q = p /\ Connect(p)
      BY <1>2, <3>1, <3>2, ConnectOutcome DEF Found, Loaded
    <3>3. CASE q # p \/ ~Connect(p)
      <4>1. /\ handle'[q].at = handle[q].at /\ handle'[q].name = handle[q].name
            /\ handle[q].pc \in {"read", "open", "close"}
        <5>1. CASE q # p
          BY <1>2, <5>1, OthersKept
        <5>2. CASE q = p /\ ReadBlock(p)
          BY <5>2, ReadOutcome DEF ReadBlock, At
        <5>3. CASE q = p /\ SaveFails(p)
          BY <1>2, <5>3, SaveOutcome
        <5>4. CASE q = p /\ (Disconnect(p) \/ Crash(p))
          BY <1>2, <5>4 DEF Disconnect, Crash, NoHandle, TypeOK
        <5> QED
          BY <2>2, <3>3, <5>1, <5>2, <5>3, <5>4 DEF Step
      <4>2. q \notin overtaken
        <5>1. CASE q = p /\ ReadBlock(p)
          BY <1>2, <5>1 DEF ReadBlock
        <5>2. CASE q = p /\ SaveFails(p)
          BY <1>2, <5>2, SaveOutcome
        <5>3. CASE q = p /\ (Disconnect(p) \/ Crash(p))
          BY <1>2, <5>3 DEF Disconnect, Crash, NoHandle, TypeOK
        <5>4. CASE q # p
          <6>1. overtaken \ {p} \subseteq overtaken'
            BY <2>2 DEF Step, Connect, ReadBlock, SaveFails, Disconnect,
                        Crash, hidden
          <6> QED
            BY <1>2, <5>4, <6>1
        <5> QED
          BY <2>2, <3>3, <5>1, <5>2, <5>3, <5>4 DEF Step
      <4> QED
        BY <3>1, <4>1, <4>2 DEF StoreInv, Unserved, Found, Loaded
    <3> QED
      BY <3>2, <3>3
  <2> QED
    BY <2>1, <2>2
<1> QED
  BY <1>1, <1>2 DEF Unserved

\* What a handle over USB has stored is found by those that follow it.
THEOREM StoredFilesStay == Spec => []StoredIsFound
<1>1. Init => StoreInv
  BY DEF Init, StoreInv, StoredIsFound, Unserved, NoHandle
<1>2. TypeOK /\ TypeOK' /\ StoreInv /\ [Next]_vars => StoreInv'
  <2>1. ASSUME TypeOK, TypeOK', StoreInv, NEW p \in Processes, Step(p)
        PROVE  StoreInv'
    BY <2>1, StoredStep, UnservedStep DEF StoreInv
  <2>2. ASSUME StoreInv, UNCHANGED vars PROVE StoreInv'
    BY <2>2 DEF vars, hidden, StoreInv, StoredIsFound, Unserved, Found, Loaded
  <2> QED
    BY <2>1, <2>2 DEF Next
<1>3. StoreInv => StoredIsFound
  BY DEF StoreInv
<1> QED
  BY <1>1, <1>2, <1>3, TypeCorrect, PTL DEF Spec
=============================================================================
