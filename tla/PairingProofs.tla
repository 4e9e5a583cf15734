--------------------------- MODULE PairingProofs ---------------------------
(***************************************************************************)
(* Proofs about Pairing, for any processes, controllers and files, and any *)
(* number of failures and changes.                                         *)
(***************************************************************************)
EXTENDS Pairing, TLAPS, NaturalsInduction, WellFoundedInduction,
        SequenceTheorems

-----------------------------------------------------------------------------
(* Lists of lines.                                                          *)

In(lines, x) == \E k \in 1 .. Len(lines) : lines[k] = x
Unique(lines) ==
  \A j, k \in 1 .. Len(lines) : lines[j].addr = lines[k].addr => j = k

\* A set of positions that is not empty has a first one.
LEMMA First ==
  ASSUME NEW T \in SUBSET Nat, T # {}
  PROVE  LET k == CHOOSE k \in T : \A j \in T : k <= j IN
         k \in T /\ \A j \in T : k <= j
<1> DEFINE Less == {ss \in Nat \X Nat : ss[1] < ss[2]}
<1>1. IsWellFoundedOn(Less, Nat)
  BY NatLessThanWellFounded, Zenon DEF OpToRel
<1>2. PICK n \in T : \A k \in T : ~ (<<k, n>> \in Less)
  <2> HIDE DEF Less
  <2> QED
    BY <1>1, WFMin
<1>3. ASSUME NEW k \in T PROVE n <= k
  <2>1. k \in Nat /\ n \in Nat
    OBVIOUS
  <2>2. k < n => <<k, n>> \in Less
    BY <2>1
  <2>3. <<k, n>> \notin Less
    BY <1>2
  <2> QED
    BY <2>1, <2>2, <2>3
<1> QED
  BY <1>3

LEMMA GoodIsLine ==
  ASSUME NEW c \in Controllers
  PROVE  GoodLine(c) \in Line
BY PairingAssumption DEF GoodLine, Line, Addresses

LEMMA LineForm ==
  ASSUME NEW x \in Line, NEW c, x.addr = c, x.entry = Good
  PROVE  x = GoodLine(c)
BY DEF Line, GoodLine

\* With one line for each device, the line that counts is the only one.
LEMMA SaysIn ==
  ASSUME NEW s \in Seq(Line), NEW x
  PROVE  /\ Says(s, x) => In(s, x)
         /\ Unique(s) /\ In(s, x) => Says(s, x)
<1>1. Says(s, x) => In(s, x)
  BY DEF Says, In
<1>2. ASSUME Unique(s), In(s, x) PROVE Says(s, x)
  <2>1. PICK k \in 1 .. Len(s) : s[k] = x
    BY <1>2 DEF In
  <2>2. Len(s) \in Nat
    BY LenProperties
  <2>3. ASSUME NEW j \in 1 .. k - 1 PROVE s[j].addr # x.addr
    <3>1. j \in 1 .. Len(s) /\ j # k
      BY <2>1, <2>2
    <3> QED
      BY <1>2, <2>1, <3>1 DEF Unique
  <2> QED
    BY <2>1, <2>3 DEF Says
<1> QED
  BY <1>1, <1>2

LEMMA ReverseKeeps ==
  ASSUME NEW s \in Seq(Line)
  PROVE  /\ Reverse(s) \in Seq(Line)
         /\ Unique(s) => Unique(Reverse(s))
         /\ \A x : In(s, x) <=> In(Reverse(s), x)
<1> DEFINE n == Len(s)
<1>1. n \in Nat /\ \A k \in 1 .. n : s[k] \in Line
  BY LenProperties, ElementOfSeq
<1>2. Reverse(s) \in Seq(Line) /\ Len(Reverse(s)) = n
  <2>1. Reverse(s) \in [1 .. n -> Line]
    BY <1>1 DEF Reverse
  <2> QED
    BY <1>1, <2>1
<1>3. \A k \in 1 .. n : Reverse(s)[k] = s[n - k + 1]
  BY <1>1 DEF Reverse
<1>4. ASSUME Unique(s) PROVE Unique(Reverse(s))
  <2> SUFFICES ASSUME NEW j \in 1 .. n, NEW k \in 1 .. n,
                      Reverse(s)[j].addr = Reverse(s)[k].addr
               PROVE  j = k
    BY <1>2 DEF Unique
  <2>1. n - j + 1 \in 1 .. n /\ n - k + 1 \in 1 .. n
    BY <1>1
  <2>2. n - j + 1 = n - k + 1
    BY <1>3, <1>4, <2>1 DEF Unique
  <2> QED
    BY <1>1, <2>2
<1>5. ASSUME NEW x, In(s, x) PROVE In(Reverse(s), x)
  <2>1. PICK k \in 1 .. n : s[k] = x
    BY <1>5 DEF In
  <2>2. n - k + 1 \in 1 .. n /\ n - (n - k + 1) + 1 = k
    BY <1>1
  <2> QED
    BY <1>2, <1>3, <2>1, <2>2 DEF In
<1>6. ASSUME NEW x, In(Reverse(s), x) PROVE In(s, x)
  <2>1. PICK k \in 1 .. n : Reverse(s)[k] = x
    BY <1>2, <1>6 DEF In
  <2>2. n - k + 1 \in 1 .. n
    BY <1>1
  <2> QED
    BY <1>3, <2>1, <2>2 DEF In
<1> QED
  BY <1>2, <1>4, <1>5, <1>6

\* Replacing the line of a device, or adding one for a device without any.
LEMMA ReplaceKeeps ==
  ASSUME NEW s \in Seq(Line), NEW k \in 1 .. Len(s), NEW y \in Line,
         s[k].addr = y.addr
  PROVE  LET t == [s EXCEPT ![k] = y] IN
         /\ t \in Seq(Line)
         /\ In(t, y)
         /\ Unique(s) => Unique(t)
         /\ \A x : In(s, x) /\ x.addr # y.addr => In(t, x)
<1> DEFINE t == [s EXCEPT ![k] = y]
<1>1. /\ t \in Seq(Line) /\ Len(t) = Len(s)
      /\ \A j \in 1 .. Len(s) : t[j] = IF j = k THEN y ELSE s[j]
  BY ExceptSeq
<1>2. In(t, y)
  BY <1>1 DEF In
<1>3. Unique(s) => Unique(t)
  BY <1>1 DEF Unique
<1>4. \A x : In(s, x) /\ x.addr # y.addr => In(t, x)
  BY <1>1 DEF In
<1> QED
  BY <1>1, <1>2, <1>3, <1>4

LEMMA AppendKeeps ==
  ASSUME NEW s \in Seq(Line), NEW y \in Line,
         \A k \in 1 .. Len(s) : s[k].addr # y.addr
  PROVE  LET t == Append(s, y) IN
         /\ t \in Seq(Line)
         /\ In(t, y)
         /\ Unique(s) => Unique(t)
         /\ \A x : In(s, x) => In(t, x)
<1> DEFINE t == Append(s, y)
<1>1. /\ t \in Seq(Line) /\ Len(t) = Len(s) + 1 /\ Len(s) \in Nat
      /\ t[Len(s) + 1] = y
      /\ \A j \in 1 .. Len(s) : t[j] = s[j]
  BY LenProperties
<1> HIDE DEF t
<1>2. In(t, y)
  BY <1>1 DEF In
<1>3. Unique(s) => Unique(t)
  <2> SUFFICES ASSUME Unique(s), NEW i \in 1 .. Len(t), NEW j \in 1 .. Len(t),
                      t[i].addr = t[j].addr
               PROVE  i = j
    BY DEF Unique
  <2>1. /\ i \in 1 .. Len(s) \/ i = Len(s) + 1
        /\ j \in 1 .. Len(s) \/ j = Len(s) + 1
    BY <1>1
  <2>2. CASE i \in 1 .. Len(s) /\ j \in 1 .. Len(s)
    BY <1>1, <2>2 DEF Unique
  <2>3. CASE i = Len(s) + 1 /\ j \in 1 .. Len(s)
    BY <1>1, <2>3
  <2>4. CASE j = Len(s) + 1 /\ i \in 1 .. Len(s)
    BY <1>1, <2>4
  <2> QED
    BY <2>1, <2>2, <2>3, <2>4
<1>4. \A x : In(s, x) => In(t, x)
  BY <1>1 DEF In
<1> QED
  BY <1>1, <1>2, <1>3, <1>4 DEF t

\* set_entry_list: the controller has a good line, and the other devices
\* keep theirs.
LEMMA SetEntryKeeps ==
  ASSUME NEW s \in Seq(Line), NEW c \in Controllers
  PROVE  /\ SetEntry(s, c) \in Seq(Line)
         /\ In(SetEntry(s, c), GoodLine(c))
         /\ Unique(s) => Unique(SetEntry(s, c))
         /\ \A x : In(s, x) /\ x.addr # c => In(SetEntry(s, c), x)
<1> DEFINE own == {k \in 1 .. Len(s) : s[k].addr = c}
           wrong == {k \in own : s[k].entry # Good}
           k0 == CHOOSE k \in wrong : \A j \in wrong : k <= j
<1>1. GoodLine(c) \in Line /\ GoodLine(c).addr = c
  BY GoodIsLine DEF GoodLine
<1>2. CASE wrong # {}
  <2>1. wrong \in SUBSET Nat
    OBVIOUS
  <2>2. k0 \in wrong
    <3> HIDE DEF wrong
    <3> QED
      BY <1>2, <2>1, First
  <2>3. SetEntry(s, c) = [s EXCEPT ![k0] = GoodLine(c)]
    BY <1>2 DEF SetEntry
  <2>4. k0 \in 1 .. Len(s) /\ s[k0].addr = GoodLine(c).addr
    BY <1>1, <2>2
  <2> HIDE DEF k0, own, wrong
  <2> DEFINE t == [s EXCEPT ![k0] = GoodLine(c)]
  <2>5. /\ t \in Seq(Line) /\ In(t, GoodLine(c))
        /\ Unique(s) => Unique(t)
        /\ \A x : In(s, x) /\ x.addr # GoodLine(c).addr => In(t, x)
    BY <1>1, <2>4, ReplaceKeeps
  <2> HIDE DEF t
  <2> QED
    BY <1>1, <2>3, <2>5 DEF t
<1>3. CASE wrong = {} /\ own # {}
  <2>1. SetEntry(s, c) = s
    BY <1>3 DEF SetEntry
  <2>2. PICK k \in own : s[k].entry = Good
    BY <1>3
  <2>3. s[k] = GoodLine(c)
    BY <2>2, ElementOfSeq, LineForm
  <2> QED
    BY <2>1, <2>2, <2>3 DEF In
<1>4. CASE own = {}
  <2>1. wrong = {}
    BY <1>4
  <2>2. SetEntry(s, c) = Append(s, GoodLine(c))
    BY <1>4, <2>1 DEF SetEntry
  <2> QED
    BY <1>1, <1>4, <2>2, AppendKeeps
<1> QED
  BY <1>2, <1>3, <1>4

\* bluetoothd does the same for any line.
LEMMA SetLineKeeps ==
  ASSUME NEW s \in Seq(Line), NEW y \in Line
  PROVE  /\ SetLine(s, y) \in Seq(Line)
         /\ In(SetLine(s, y), y)
         /\ Unique(s) => Unique(SetLine(s, y))
         /\ \A x : In(s, x) /\ x.addr # y.addr => In(SetLine(s, y), x)
<1> DEFINE own == {k \in 1 .. Len(s) : s[k].addr = y.addr}
           k0 == CHOOSE k \in own : \A j \in own : k <= j
<1>1. CASE own # {}
  <2>1. own \in SUBSET Nat
    OBVIOUS
  <2>2. k0 \in own
    <3> HIDE DEF own
    <3> QED
      BY <1>1, <2>1, First
  <2>3. SetLine(s, y) = [s EXCEPT ![k0] = y]
    BY <1>1 DEF SetLine
  <2>4. k0 \in 1 .. Len(s) /\ s[k0].addr = y.addr
    BY <2>2
  <2> HIDE DEF k0, own
  <2> DEFINE t == [s EXCEPT ![k0] = y]
  <2>5. /\ t \in Seq(Line) /\ In(t, y)
        /\ Unique(s) => Unique(t)
        /\ \A x : In(s, x) /\ x.addr # y.addr => In(t, x)
    BY <2>4, ReplaceKeeps
  <2> HIDE DEF t
  <2> QED
    BY <2>3, <2>5 DEF t
<1>2. CASE own = {}
  <2>1. SetLine(s, y) = Append(s, y)
    BY <1>2 DEF SetLine
  <2> QED
    BY <1>2, <2>1, AppendKeeps
<1> QED
  BY <1>1, <1>2

\* What a pairing makes of a file: its list, with a good line.
Changed(f, c) == SetEntry(ReadList(f, TRUE), c)

LEMMA ChangedKeeps ==
  ASSUME TypeOK, NEW f \in 1 .. Files, NEW c \in Controllers
  PROVE  /\ Changed(f, c) \in Seq(Line)
         /\ In(Changed(f, c), GoodLine(c))
         /\ Unique(file[f]) => Unique(Changed(f, c))
         /\ \A x : In(file[f], x) /\ x.addr # c => In(Changed(f, c), x)
         /\ ~Wants(f, c, TRUE) => In(file[f], GoodLine(c))
<1>1. file[f] \in Seq(Line)
  BY DEF TypeOK
<1>2. /\ ReadList(f, TRUE) \in Seq(Line)
      /\ Unique(file[f]) => Unique(ReadList(f, TRUE))
      /\ \A x : In(file[f], x) <=> In(ReadList(f, TRUE), x)
  BY <1>1, ReverseKeeps DEF ReadList
<1>3. ~Wants(f, c, TRUE) => Changed(f, c) = ReadList(f, TRUE)
  BY DEF Wants, Changed
<1> QED
  BY <1>2, <1>3, SetEntryKeeps DEF Changed

\* A list that cannot be read always lacks the line.
LEMMA Misread ==
  ASSUME NEW f, NEW c \in Controllers
  PROVE  /\ SetEntry(ReadList(f, FALSE), c) \in Seq(Line)
         /\ In(SetEntry(ReadList(f, FALSE), c), GoodLine(c))
         /\ Unique(SetEntry(ReadList(f, FALSE), c))
         /\ Wants(f, c, FALSE)
<1>1. ReadList(f, FALSE) = <<>> /\ <<>> \in Seq(Line)
  BY DEF ReadList
<1>2. Unique(<<>>) /\ ~In(<<>>, GoodLine(c))
  BY DEF Unique, In
<1>3. /\ SetEntry(<<>>, c) \in Seq(Line)
      /\ In(SetEntry(<<>>, c), GoodLine(c))
      /\ Unique(SetEntry(<<>>, c))
  BY <1>1, <1>2, SetEntryKeeps
<1>4. SetEntry(<<>>, c) # <<>>
  BY <1>2, <1>3
<1> QED
  BY <1>1, <1>3, <1>4 DEF Wants

\* The beginning of a list.
LEMMA PrefixKeeps ==
  ASSUME NEW s \in Seq(Line), NEW n \in 0 .. (Len(s) - 1)
  PROVE  LET t == SubSeq(s, 1, n) IN
         /\ t \in Seq(Line)
         /\ Unique(s) => Unique(t)
<1> DEFINE t == SubSeq(s, 1, n)
<1>1. Len(s) \in Nat /\ n \in Nat /\ n <= Len(s)
  BY LenProperties
<1>2. /\ t \in Seq(Line) /\ Len(t) = n
      /\ \A j \in 1 .. n : t[j] = s[j]
  BY <1>1
<1> HIDE DEF t
<1>3. Unique(s) => Unique(t)
  BY <1>1, <1>2 DEF Unique
<1> QED
  BY <1>2, <1>3 DEF t

-----------------------------------------------------------------------------
(* Types.                                                                   *)

Pcs == Pairing4 \cup Pairing5 \cup {"start"}

\* An active process is a record of a pairing.
LEMMA Forms ==
  ASSUME TypeOK, NEW p \in Processes
  PROVE  /\ Active(p) <=> proc[p] \in Process
         /\ ~Active(p) <=> proc[p] = NoProcess
         /\ Active(p) <=> proc[p].pc \in Pcs
BY DEF TypeOK, Active, At, Process, NoProcess, Pcs, Pairing4, Pairing5

\* The forms in which a pairing goes on.
LEMMA Forward ==
  ASSUME NEW h \in Process, NEW pc \in Pcs
  PROVE  /\ [h EXCEPT !.pc = pc] \in Process
         /\ \A i \in 1 .. Files, e \in BOOLEAN :
              /\ [h EXCEPT !.i = i, !.errors = e] \in Process
              /\ [h EXCEPT !.pc = pc, !.i = i, !.errors = e] \in Process
         /\ \A l \in Seq(Line) :
              /\ \A b \in BOOLEAN :
                   [h EXCEPT !.pc = pc, !.alone = b, !.list = l] \in Process
              /\ \A i \in 1 .. Files :
                   [h EXCEPT !.pc = pc, !.i = i, !.list = l] \in Process
         /\ \A b \in BOOLEAN :
              [h EXCEPT !.stopped = TRUE, !.alone = b] \in Process
         /\ [h EXCEPT !.failed = TRUE] \in Process
         /\ [h EXCEPT !.pc = pc, !.failed = TRUE] \in Process
         /\ [h EXCEPT !.alone = FALSE] \in Process
BY DEF Process, Pcs

LEMMA AfterFileType ==
  ASSUME NEW h \in Process
  PROVE  AfterFile(h) \in Process
<1>1. h.i \in 1 .. Files /\ (h.i < Files => h.i + 1 \in 1 .. Files)
      /\ 1 \in 1 .. Files
  BY PairingAssumption DEF Process
<1>2. <<>> \in Seq(Line) /\ "read" \in Pcs /\ "start" \in Pcs
  BY DEF Pcs, Pairing4
<1>3. ASSUME NEW i \in 1 .. Files, NEW pc \in Pcs
      PROVE  [h EXCEPT !.pc = pc, !.i = i, !.list = <<>>] \in Process
  BY <1>2 DEF Process, Pcs
<1>4. h.i < Files =>
        [h EXCEPT !.pc = "read", !.i = h.i + 1, !.list = <<>>] \in Process
  BY <1>1, <1>2, <1>3
<1>5. [h EXCEPT !.pc = "start", !.list = <<>>, !.i = 1] \in Process
  BY <1>1, <1>2 DEF Process, Pcs
<1> QED
  BY <1>4, <1>5 DEF AfterFile

LEMMA AfterStopType ==
  ASSUME NEW h \in Process, NEW ok \in BOOLEAN, NEW pc \in Pcs
  PROVE  [AfterStop(h, ok) EXCEPT !.pc = pc] \in Process
<1>1. h.alone \in BOOLEAN
  BY DEF Process
<1>2. (h.alone /\ ok) \in BOOLEAN
  OBVIOUS
<1>3. AfterStop(h, ok) \in Process
  BY <1>1, <1>2, Forward DEF AfterStop
<1> QED
  BY <1>3, Forward

LEMMA InitTyped == Init => TypeOK
<1> SUFFICES ASSUME Init PROVE TypeOK
  OBVIOUS
<1>1. PICK a \in Addresses, e \in Entries \ {Good} :
        LET other == [addr |-> Device, entry |-> e]
            old == [addr |-> a, entry |-> e] IN
        /\ file = [f \in 1 .. Files |->
             IF bluez = 5 \/ f = Files THEN <<>>
             ELSE IF a = Device THEN <<other>> ELSE <<other, old>>]
        /\ kept = {x \in (1 .. Files) \X Line : Says(file[x[1]], x[2])}
  BY DEF Init
<1> DEFINE other == [addr |-> Device, entry |-> e]
           old == [addr |-> a, entry |-> e]
<1>2. other \in Line /\ old \in Line
  BY DEF Line, Addresses
<1> HIDE DEF other, old
<1>3. <<other>> \in Seq(Line) /\ <<other, old>> \in Seq(Line)
      /\ <<>> \in Seq(Line)
  BY <1>2
<1>4. file \in [1 .. Files -> Seq(Line)]
  BY <1>1, <1>3 DEF other, old
<1>5. kept \subseteq (1 .. Files) \X Line
  BY <1>1
<1>6. cacheDir \in BOOLEAN
  <2>1. (bluez = 5) \in BOOLEAN
    OBVIOUS
  <2>2. cacheDir \in {FALSE, bluez = 5}
    BY DEF Init
  <2> QED
    BY <2>1, <2>2, Zenon
<1>7. /\ proc \in [Processes -> Process \cup {NoProcess}]
      /\ info \in [Controllers -> States] /\ cache \in [Controllers -> States]
  BY DEF Init, States
<1>8. /\ bluez \in {4, 5} /\ running = TRUE /\ updates = 0 /\ faults = 0
      /\ registered = {} /\ cut = {} /\ down = FALSE
  BY Zenon DEF Init
<1>9. updates \in 0 .. MaxUpdates /\ faults \in 0 .. MaxFaults
  BY <1>8, PairingAssumption
<1>10. running \in BOOLEAN /\ down \in BOOLEAN
  BY <1>8, Zenon
<1> QED
  BY <1>4, <1>5, <1>6, <1>7, <1>8, <1>9, <1>10, Zenon DEF TypeOK

\* An action gives the process that takes it a new form.
LEMMA Moves ==
  ASSUME TypeOK, NEW p \in Processes, NEW h, Move(p, h),
         h \in Process \/ h = NoProcess
  PROVE  proc' \in [Processes -> Process \cup {NoProcess}]
BY DEF TypeOK, Move

LEMMA FaultType == ASSUME TypeOK, Fault PROVE faults' \in 0 .. MaxFaults
BY PairingAssumption DEF TypeOK, Fault

LEMMA StopType ==
  ASSUME TypeOK, NEW h \in Process, NEW ok \in BOOLEAN, Stop(h, ok)
  PROVE  running' \in BOOLEAN /\ faults' \in 0 .. MaxFaults
<1>1. (running /\ h.stopped) \in BOOLEAN
  OBVIOUS
<1> QED
  BY <1>1, FaultType DEF Stop, TypeOK

LEMMA ProvidedType ==
  ASSUME TypeOK, NEW h \in Process, Provided(h)
  PROVE  kept' \subseteq (1 .. Files) \X Line /\ registered' \subseteq Controllers
<1>1. h.c \in Controllers /\ GoodLine(h.c) \in Line
  BY GoodIsLine DEF Process
<1> QED
  BY <1>1 DEF Provided, TypeOK

\* What becomes of a file that a pairing reads.
LEMMA ReadOutcome ==
  ASSUME TypeOK, NEW p \in Processes, ReadEntries(p)
  PROVE  LET h == proc[p] IN
         /\ h \in Process /\ h.pc = "read" /\ faults' \in 0 .. MaxFaults
         /\ \/ Move(p, AfterFile(h)) /\ ~Wants(h.i, h.c, TRUE)
            \/ \E l \in Seq(Line), a \in BOOLEAN :
                 /\ Move(p, [h EXCEPT !.pc = "open", !.alone = a, !.list = l])
                 /\ a => h.alone /\ l = Changed(h.i, h.c)
                 /\ In(l, GoodLine(h.c))
                 /\ Unique(file[h.i]) => Unique(l)
<1> DEFINE h == proc[p]
<1>1. h \in Process /\ h.pc = "read" /\ h.i \in 1 .. Files /\ h.c \in Controllers
  BY Forms DEF ReadEntries, At, Active, Process
<1>2. PICK ok \in BOOLEAN :
        /\ Opens(ok)
        /\ Move(p, IF Wants(h.i, h.c, ok)
                   THEN [h EXCEPT !.pc = "open", !.alone = h.alone /\ ok,
                                  !.list = SetEntry(ReadList(h.i, ok), h.c)]
                   ELSE AfterFile(h))
  BY DEF ReadEntries
<1>3. faults' \in 0 .. MaxFaults
  BY <1>2, FaultType DEF Opens, TypeOK
<1> DEFINE a == h.alone /\ ok
           l == SetEntry(ReadList(h.i, ok), h.c)
<1>4. a \in BOOLEAN /\ (a => h.alone /\ ok)
  OBVIOUS
<1>5. CASE Wants(h.i, h.c, ok)
  <2>1. Move(p, [h EXCEPT !.pc = "open", !.alone = a, !.list = l])
    BY <1>2, <1>5
  <2>2. /\ l \in Seq(Line) /\ In(l, GoodLine(h.c))
        /\ Unique(file[h.i]) => Unique(l)
    BY <1>1, ChangedKeeps, Misread DEF Changed
  <2>3. ok => l = Changed(h.i, h.c)
    BY DEF Changed
  <2> HIDE DEF a, l
  <2> QED
    BY <1>1, <1>3, <1>4, <2>1, <2>2, <2>3
<1>6. CASE ~Wants(h.i, h.c, ok)
  <2>1. ok
    BY <1>1, <1>6, Misread
  <2>2. ~Wants(h.i, h.c, TRUE)
    BY <1>6, <2>1
  <2> QED
    BY <1>1, <1>2, <1>3, <1>6, <2>2
<1> QED
  BY <1>5, <1>6

\* What becomes of a file that a pairing writes.
LEMMA WriteOutcome ==
  ASSUME TypeOK, NEW p \in Processes, WriteEntries(p)
  PROVE  LET h == proc[p] IN
         /\ h \in Process /\ h.pc = "write" /\ faults' \in 0 .. MaxFaults
         /\ \E l \in Seq(Line), g \in Process :
              /\ file' = [file EXCEPT ![h.i] = l]
              /\ Unique(h.list) => Unique(l)
              /\ Move(p, AfterFile(g))
              /\ \/ g = h /\ l = h.list
                    /\ kept' = {x \in kept : x[1] = h.i =>
                                  \/ h.alone /\ x[2].addr # h.c
                                  \/ Says(l, x[2])}
                 \/ g = [h EXCEPT !.failed = TRUE]
                    /\ kept' = {x \in kept : x[1] = h.i => Says(l, x[2])}
<1> DEFINE h == proc[p]
<1>1. h \in Process /\ h.pc = "write" /\ h.list \in Seq(Line)
      /\ [h EXCEPT !.failed = TRUE] \in Process
  <2>1. h \in Process /\ h.pc = "write"
    BY Forms DEF WriteEntries, At, Active
  <2> QED
    BY <2>1 DEF Process
<1>2. CASE /\ file' = [file EXCEPT ![h.i] = h.list]
           /\ kept' = {x \in kept : x[1] = h.i =>
                         (h.alone /\ x[2].addr # h.c) \/ Says(h.list, x[2])}
           /\ Move(p, AfterFile(h))
           /\ UNCHANGED faults
  BY <1>1, <1>2 DEF TypeOK
<1>3. CASE /\ Fault
           /\ \E n \in 0 .. (Len(h.list) - 1) :
                /\ file' = [file EXCEPT ![h.i] = SubSeq(h.list, 1, n)]
                /\ kept' = {x \in kept :
                             x[1] = h.i => Says(SubSeq(h.list, 1, n), x[2])}
           /\ Move(p, AfterFile([h EXCEPT !.failed = TRUE]))
  <2>1. PICK n \in 0 .. (Len(h.list) - 1) :
          /\ file' = [file EXCEPT ![h.i] = SubSeq(h.list, 1, n)]
          /\ kept' = {x \in kept :
                       x[1] = h.i => Says(SubSeq(h.list, 1, n), x[2])}
    BY <1>3
  <2> DEFINE l == SubSeq(h.list, 1, n)
  <2>2. l \in Seq(Line) /\ (Unique(h.list) => Unique(l))
    BY <1>1, PrefixKeeps
  <2>3. faults' \in 0 .. MaxFaults
    BY <1>3, FaultType
  <2>4. /\ file' = [file EXCEPT ![h.i] = l]
        /\ kept' = {x \in kept : x[1] = h.i => Says(l, x[2])}
    BY <2>1
  <2> HIDE DEF l
  <2> QED
    BY <1>1, <1>3, <2>2, <2>3, <2>4
<1> QED
  BY <1>2, <1>3 DEF WriteEntries

\* A file that is checked, with or without success in reading it.
CheckedAs(p, ok) ==
  LET h == proc[p]
      errors == h.errors \/ Wants(h.i, h.c, ok) IN
  /\ Opens(ok)
  /\ \/ h.i < Files /\ UNCHANGED <<kept, registered>>
          /\ Move(p, [h EXCEPT !.i = h.i + 1, !.errors = errors])
     \/ ~(h.i < Files) /\ errors /\ UNCHANGED <<kept, registered>>
          /\ Move(p, [h EXCEPT !.pc = "stop", !.i = 1, !.errors = FALSE])
     \/ ~(h.i < Files) /\ ~errors /\ Move(p, NoProcess) /\ Provided(h)

LEMMA Checked ==
  ASSUME NEW p \in Processes, CheckEntry(p)
  PROVE  \E ok \in BOOLEAN : CheckedAs(p, ok)
BY DEF CheckEntry, CheckedAs

LEMMA StepTyped == TypeOK /\ [Next]_vars => TypeOK'
<1> SUFFICES ASSUME TypeOK, [Next]_vars PROVE TypeOK'
  OBVIOUS
<1>19. \A p \in Processes : Active(p) => proc[p] \in Process
  BY Forms
<1>20. /\ {"read", "stop", "open", "write", "start", "mkinfo", "putinfo",
           "cachedir", "mkcache", "cache", "opencache", "putcache"}
            \subseteq Pcs
       /\ 1 \in 1 .. Files /\ <<>> \in Seq(Line)
       /\ {"absent", "broken", "whole"} = States
  BY PairingAssumption DEF Pcs, Pairing4, Pairing5, States
<1>1. ASSUME NEW p \in Processes, Pair(p) PROVE TypeOK'
  <2>1. PICK c \in Controllers :
          proc' = [q \in Processes |->
            IF q = p
            THEN [pc |-> IF bluez = 4 THEN "check" ELSE "info", c |-> c,
                  i |-> 1, list |-> <<>>, errors |-> FALSE, stopped |-> FALSE,
                  failed |-> FALSE,
                  alone |-> {r \in Processes : Active(r)} = {}]
            ELSE IF q \in {r \in Processes : Active(r)}
            THEN [proc[q] EXCEPT !.alone = FALSE] ELSE proc[q]]
    BY <1>1 DEF Pair
  <2>2. ({r \in Processes : Active(r)} = {}) \in BOOLEAN
    OBVIOUS
  <2>3. ASSUME NEW b \in BOOLEAN
        PROVE  [pc |-> IF bluez = 4 THEN "check" ELSE "info", c |-> c, i |-> 1,
                list |-> <<>>, errors |-> FALSE, stopped |-> FALSE,
                failed |-> FALSE, alone |-> b] \in Process
    BY <1>20 DEF Process, Pairing4, Pairing5
  <2>4. \A q \in Processes : Active(q) =>
          [proc[q] EXCEPT !.alone = FALSE] \in Process
    BY <1>19, <1>20, Forward
  <2>5. proc' \in [Processes -> Process \cup {NoProcess}]
    BY <2>1, <2>2, <2>3, <2>4 DEF TypeOK
  <2> QED
    BY <1>1, <2>5 DEF Pair, TypeOK, disk, hidden
<1>2. ASSUME NEW p \in Processes, CheckEntry(p) PROVE TypeOK'
  <2> DEFINE h == proc[p]
  <2>0. PICK ok \in BOOLEAN : CheckedAs(p, ok)
    BY <1>2, Checked
  <2> DEFINE errors == h.errors \/ Wants(h.i, h.c, ok)
  <2>1. h \in Process /\ h.i \in 1 .. Files /\ (h.i < Files => h.i + 1 \in 1 .. Files)
    BY <1>19, <1>2, PairingAssumption DEF CheckEntry, At, Active, Process
  <2>2. errors \in BOOLEAN
    OBVIOUS
  <2> HIDE DEF errors
  <2>3. /\ h.i < Files => [h EXCEPT !.i = h.i + 1, !.errors = errors] \in Process
        /\ [h EXCEPT !.pc = "stop", !.i = 1, !.errors = FALSE] \in Process
    BY <1>20, <2>1, <2>2, Forward
  <2>4. /\ proc' \in [Processes -> Process \cup {NoProcess}]
        /\ (UNCHANGED <<kept, registered>> \/ Provided(h))
        /\ faults' \in 0 .. MaxFaults
    BY <2>0, <2>3, FaultType, Moves DEF CheckedAs, Opens, TypeOK, errors
  <2>5. kept' \subseteq (1 .. Files) \X Line /\ registered' \subseteq Controllers
    BY <2>1, <2>4, ProvidedType DEF TypeOK
  <2> QED
    BY <1>2, <2>4, <2>5 DEF CheckEntry, TypeOK, disk
<1>3. ASSUME NEW p \in Processes, StopBluetoothd(p) PROVE TypeOK'
  <2>1. PICK ok \in BOOLEAN :
          /\ Stop(proc[p], ok)
          /\ Move(p, [AfterStop(proc[p], ok) EXCEPT !.pc = "read"])
    BY <1>3 DEF StopBluetoothd
  <2>2. proc[p] \in Process
    BY <1>19, <1>3 DEF StopBluetoothd, At, Active
  <2>3. running' \in BOOLEAN /\ faults' \in 0 .. MaxFaults
    BY <2>1, <2>2, StopType
  <2>4. proc' \in [Processes -> Process \cup {NoProcess}]
    BY <1>20, <2>1, <2>2, AfterStopType, Moves
  <2> QED
    BY <1>3, <2>3, <2>4 DEF StopBluetoothd, TypeOK, disk, hidden
<1>4. ASSUME NEW p \in Processes, ReadEntries(p) PROVE TypeOK'
  <2>1. faults' \in 0 .. MaxFaults /\ proc[p] \in Process
    BY <1>4, ReadOutcome
  <2>2. proc' \in [Processes -> Process \cup {NoProcess}]
    BY <1>20, <1>4, <2>1, ReadOutcome, Forward, AfterFileType, Moves
  <2> QED
    BY <1>4, <2>1, <2>2 DEF ReadEntries, TypeOK, disk, hidden
<1>5. ASSUME NEW p \in Processes, OpenEntries(p) PROVE TypeOK'
  <2>1. proc[p] \in Process
    BY <1>19, <1>5 DEF OpenEntries, At, Active
  <2>2. proc' \in [Processes -> Process \cup {NoProcess}]
    BY <1>20, <1>5, <2>1, Forward, AfterFileType, Moves DEF OpenEntries
  <2>3. file' \in [1 .. Files -> Seq(Line)] /\ faults' \in 0 .. MaxFaults
    BY <1>20, <1>5, <2>1, FaultType DEF OpenEntries, TypeOK
  <2> QED
    BY <1>5, <2>2, <2>3 DEF OpenEntries, TypeOK, hidden
<1>6. ASSUME NEW p \in Processes, WriteEntries(p) PROVE TypeOK'
  <2>1. faults' \in 0 .. MaxFaults /\ proc[p] \in Process
    BY <1>6, WriteOutcome
  <2>2. PICK l \in Seq(Line), g \in Process :
          /\ file' = [file EXCEPT ![proc[p].i] = l] /\ Move(p, AfterFile(g))
          /\ kept' \subseteq kept
    BY <1>6, WriteOutcome
  <2>3. proc' \in [Processes -> Process \cup {NoProcess}]
    BY <2>2, AfterFileType, Moves
  <2>4. file' \in [1 .. Files -> Seq(Line)] /\ kept' \subseteq (1 .. Files) \X Line
    BY <2>2 DEF TypeOK
  <2> QED
    BY <1>6, <2>1, <2>3, <2>4 DEF WriteEntries, TypeOK
<1>7. ASSUME NEW p \in Processes, StartBluetoothd(p) PROVE TypeOK'
  <2>1. proc[p] \in Process /\ proc[p].stopped \in BOOLEAN
    BY <1>19, <1>7 DEF StartBluetoothd, At, Active, Process
  <2>2. proc' \in [Processes -> Process \cup {NoProcess}]
    BY <1>7, Moves DEF StartBluetoothd
  <2>3. kept' \subseteq (1 .. Files) \X Line /\ registered' \subseteq Controllers
    BY <1>7, <2>1, ProvidedType DEF StartBluetoothd
  <2>4. /\ (running \/ proc[p].stopped) \in BOOLEAN
        /\ (down /\ ~running') \in BOOLEAN /\ (down \/ Forsaken(p)) \in BOOLEAN
    OBVIOUS
  <2>5. running' \in BOOLEAN /\ down' \in BOOLEAN /\ faults' \in 0 .. MaxFaults
    BY <1>7, <2>4, FaultType DEF StartBluetoothd, TypeOK
  <2> QED
    BY <1>7, <2>2, <2>3, <2>5 DEF StartBluetoothd, TypeOK, disk
<1>8. ASSUME NEW p \in Processes, Info(p) PROVE TypeOK'
  <2>1. proc[p] \in Process
    BY <1>19, <1>8 DEF Info, At, Active
  <2>2. AfterKnown(proc[p]) \in Process
    BY <1>20, <2>1, Forward DEF AfterKnown
  <2>3. /\ proc' \in [Processes -> Process \cup {NoProcess}]
        /\ running' \in BOOLEAN /\ faults' \in 0 .. MaxFaults
    BY <1>20, <1>8, <2>1, <2>2, AfterStopType, StopType, Moves DEF Info, TypeOK
  <2> QED
    BY <1>8, <2>3 DEF Info, TypeOK, disk, hidden
<1>9. ASSUME NEW p \in Processes, MakeInfoDir(p) PROVE TypeOK'
  <2>1. proc[p] \in Process /\ proc[p].c \in Controllers
    BY <1>19, <1>9 DEF MakeInfoDir, At, Active, Process
  <2>2. /\ proc' \in [Processes -> Process \cup {NoProcess}]
        /\ faults' \in 0 .. MaxFaults
    BY <1>20, <1>9, <2>1, Forward, FaultType, Moves
    DEF MakeInfoDir, Abandon, TypeOK
  <2>3. info' \in [Controllers -> States]
    BY <1>20, <1>9, <2>1 DEF MakeInfoDir, TypeOK
  <2>4. (down \/ Forsaken(p)) \in BOOLEAN
    OBVIOUS
  <2>5. down' \in BOOLEAN
    BY <1>9, <2>4 DEF MakeInfoDir, Abandon, TypeOK
  <2> QED
    BY <1>9, <2>2, <2>3, <2>5 DEF MakeInfoDir, TypeOK
<1>10. ASSUME NEW p \in Processes, PutInfo(p) PROVE TypeOK'
  <2>1. proc[p] \in Process /\ proc[p].c \in Controllers
    BY <1>19, <1>10 DEF PutInfo, At, Active, Process
  <2>2. /\ proc' \in [Processes -> Process \cup {NoProcess}]
        /\ faults' \in 0 .. MaxFaults
    BY <1>20, <1>10, <2>1, Forward, FaultType, Moves DEF PutInfo, TypeOK
  <2>3. info' \in [Controllers -> States] /\ cut' \subseteq Controllers
    BY <1>20, <1>10, <2>1 DEF PutInfo, TypeOK
  <2> QED
    BY <1>10, <2>2, <2>3 DEF PutInfo, TypeOK
<1>11. ASSUME NEW p \in Processes, CacheDir(p) PROVE TypeOK'
  <2>1. proc[p] \in Process
    BY <1>19, <1>11 DEF CacheDir, At, Active
  <2>2. /\ proc' \in [Processes -> Process \cup {NoProcess}]
        /\ running' \in BOOLEAN /\ faults' \in 0 .. MaxFaults
    BY <1>20, <1>11, <2>1, Forward, AfterStopType, StopType, Moves
    DEF CacheDir, TypeOK
  <2> QED
    BY <1>11, <2>2 DEF CacheDir, TypeOK, disk, hidden
<1>12. ASSUME NEW p \in Processes, MakeCacheDir(p) PROVE TypeOK'
  <2>1. proc[p] \in Process
    BY <1>19, <1>12 DEF MakeCacheDir, At, Active
  <2>2. /\ proc' \in [Processes -> Process \cup {NoProcess}]
        /\ faults' \in 0 .. MaxFaults /\ cacheDir' \in BOOLEAN
    BY <1>20, <1>12, <2>1, Forward, FaultType, Moves
    DEF MakeCacheDir, Abandon, TypeOK
  <2>3. (down \/ Forsaken(p)) \in BOOLEAN
    OBVIOUS
  <2>4. down' \in BOOLEAN
    BY <1>12, <2>3 DEF MakeCacheDir, Abandon, TypeOK
  <2> QED
    BY <1>12, <2>2, <2>4 DEF MakeCacheDir, TypeOK
<1>13. ASSUME NEW p \in Processes, Cache(p) PROVE TypeOK'
  <2>1. proc[p] \in Process
    BY <1>19, <1>13 DEF Cache, At, Active
  <2>2. /\ proc' \in [Processes -> Process \cup {NoProcess}]
        /\ running' \in BOOLEAN /\ faults' \in 0 .. MaxFaults
    BY <1>20, <1>13, <2>1, Forward, AfterStopType, StopType, Moves
    DEF Cache, TypeOK
  <2> QED
    BY <1>13, <2>2 DEF Cache, TypeOK, disk, hidden
<1>14. ASSUME NEW p \in Processes, OpenCache(p) PROVE TypeOK'
  <2>1. proc[p] \in Process /\ proc[p].c \in Controllers
    BY <1>19, <1>14 DEF OpenCache, At, Active, Process
  <2>2. /\ proc' \in [Processes -> Process \cup {NoProcess}]
        /\ faults' \in 0 .. MaxFaults
    BY <1>20, <1>14, <2>1, Forward, FaultType, Moves DEF OpenCache, TypeOK
  <2>3. cache' \in [Controllers -> States]
    BY <1>20, <1>14, <2>1 DEF OpenCache, TypeOK
  <2> QED
    BY <1>14, <2>2, <2>3 DEF OpenCache, TypeOK, hidden
<1>15. ASSUME NEW p \in Processes, PutCache(p) PROVE TypeOK'
  <2>1. proc[p] \in Process /\ proc[p].c \in Controllers
    BY <1>19, <1>15 DEF PutCache, At, Active, Process
  <2>2. /\ proc' \in [Processes -> Process \cup {NoProcess}]
        /\ faults' \in 0 .. MaxFaults
    BY <1>20, <1>15, <2>1, Forward, FaultType, Moves DEF PutCache, TypeOK
  <2>3. cache' \in [Controllers -> States] /\ cut' \subseteq Controllers
    BY <1>20, <1>15, <2>1 DEF PutCache, TypeOK
  <2> QED
    BY <1>15, <2>2, <2>3 DEF PutCache, TypeOK
<1>16. ASSUME NEW p \in Processes, Crash(p) PROVE TypeOK'
  <2>1. proc[p].c \in Controllers
    BY <1>19, <1>16 DEF Crash, Process
  <2>2. /\ proc' \in [Processes -> Process \cup {NoProcess}]
        /\ faults' \in 0 .. MaxFaults
    BY <1>16, FaultType, Moves DEF Crash
  <2>3. kept' \subseteq (1 .. Files) \X Line /\ cut' \subseteq Controllers
    BY <1>16, <2>1 DEF Crash, TypeOK
  <2>4. (down \/ Forsaken(p)) \in BOOLEAN
    OBVIOUS
  <2>5. down' \in BOOLEAN
    BY <1>16, <2>4 DEF Crash
  <2> QED
    BY <1>16, <2>2, <2>3, <2>5 DEF Crash, TypeOK, disk
<1>17. ASSUME Bluetoothd PROVE TypeOK'
  <2>1. PICK f \in 1 .. Files, x \in Line :
          /\ file' = [file EXCEPT ![f] = SetLine(@, x)]
          /\ kept' = {y \in kept : y[1] = f => y[2].addr # x.addr}
                       \cup {<<f, x>>}
          /\ proc' = [p \in Processes |->
               IF At(p, "check") /\ proc[p].c = x.addr
               THEN [proc[p] EXCEPT !.failed = TRUE] ELSE proc[p]]
    BY <1>17 DEF Bluetoothd
  <2>2. SetLine(file[f], x) \in Seq(Line)
    BY SetLineKeeps DEF TypeOK
  <2>3. file' \in [1 .. Files -> Seq(Line)]
    BY <2>1, <2>2 DEF TypeOK
  <2>4. kept' \subseteq (1 .. Files) \X Line
    BY <2>1 DEF TypeOK
  <2>5. \A p \in Processes : At(p, "check") =>
          [proc[p] EXCEPT !.failed = TRUE] \in Process
    BY <1>19, <1>20, Forward DEF At, Active
  <2>6. proc' \in [Processes -> Process \cup {NoProcess}]
    BY <2>1, <2>5 DEF TypeOK
  <2>7. updates' \in 0 .. MaxUpdates
    BY <1>17, PairingAssumption DEF Bluetoothd, TypeOK
  <2> QED
    BY <1>17, <2>3, <2>4, <2>6, <2>7 DEF Bluetoothd, TypeOK
<1>18. ASSUME UNCHANGED vars PROVE TypeOK'
  BY <1>18 DEF vars, disk, hidden, TypeOK
<1> QED
  BY <1>1, <1>2, <1>3, <1>4, <1>5, <1>6, <1>7, <1>8, <1>9, <1>10, <1>11,
     <1>12, <1>13, <1>14, <1>15, <1>16, <1>17, <1>18
  DEF Next, Step, Step4, Step5

\* The files, the processes and the histories keep their types.
THEOREM TypeCorrect == Spec => []TypeOK
BY InitTyped, StepTyped, PTL DEF Spec

-----------------------------------------------------------------------------
(* How a pairing goes on.                                                   *)

\* bluetoothd has been told to stop before the files are changed.
Stopping == {"read", "open", "write", "mkinfo", "putinfo", "mkcache",
             "opencache", "putcache"}

\* The next form of a pairing that has not ended.
Follows(h, g) ==
  /\ g.c = h.c
  /\ g.alone => h.alone
  /\ h.failed => g.failed
  /\ h.stopped => g.stopped
  /\ h.pc = "check" => /\ g.pc \in {"check", "stop"} /\ ~(g.stopped /\ ~h.stopped)
                       /\ g.pc = "stop" => g.i = 1
  /\ h.pc = "stop" => g.pc = "read" /\ g.stopped /\ g.i = h.i
  /\ h.pc \in {"read", "open", "write"} =>
       g.pc \in {"read", "open", "write", "start"}
  /\ h.pc \in Pairing5 => g.pc \in Pairing5 \cup {"start"}
  /\ g.pc \in {"mkinfo", "mkcache", "opencache"} => g.stopped
  /\ g.pc = "putinfo" => h.pc = "mkinfo"
  /\ g.pc = "putcache" => h.pc = "opencache"
  /\ h.pc # "start"

\* What becomes of bluetoothd then.
Leaves(h, g) ==
  /\ h.stopped \/ ~g.stopped => running' = running
  /\ g.stopped /\ ~h.stopped /\ g.alone => ~running'
  /\ down' = down

Same(h, g) ==
  /\ g.c = h.c /\ g.stopped = h.stopped /\ g.alone = h.alone
  /\ g.failed = h.failed

LEMMA AfterFileForm ==
  ASSUME NEW h \in Process
  PROVE  LET g == AfterFile(h) IN
         /\ Same(h, g)
         /\ h.i < Files => g.pc = "read" /\ g.i = h.i + 1
         /\ ~(h.i < Files) => g.pc = "start"
BY DEF Process, AfterFile, Same

\* A pairing that has told bluetoothd to stop goes on at pc.
StopsAt(h, ok, pc) == [AfterStop(h, ok) EXCEPT !.pc = pc]

LEMMA AfterStopForm ==
  ASSUME NEW h \in Process, NEW ok \in BOOLEAN, NEW pc \in Pcs
  PROVE  LET g == StopsAt(h, ok, pc) IN
         /\ g.pc = pc /\ g.stopped /\ g.c = h.c /\ g.i = h.i
         /\ g.failed = h.failed /\ g.errors = h.errors
         /\ g.alone => h.alone /\ ok
         /\ ok => g.alone = h.alone
<1>1. h.alone \in BOOLEAN
  BY DEF Process
<1>2. ASSUME NEW b \in BOOLEAN
      PROVE  LET g == [[h EXCEPT !.stopped = TRUE, !.alone = b]
                          EXCEPT !.pc = pc] IN
             /\ g.pc = pc /\ g.stopped /\ g.c = h.c /\ g.i = h.i
             /\ g.failed = h.failed /\ g.errors = h.errors
             /\ g.alone = b
  BY DEF Process
<1>3. (h.alone /\ ok) \in BOOLEAN
  OBVIOUS
<1>4. (ok => (h.alone /\ ok) = h.alone) /\ ((h.alone /\ ok) => h.alone /\ ok)
  BY <1>1
<1> QED
  BY <1>2, <1>3, <1>4 DEF AfterStop, StopsAt

LEMMA Moved ==
  ASSUME TypeOK, NEW p \in Processes, NEW h, Move(p, h)
  PROVE  proc'[p] = h /\ \A q \in Processes \ {p} : proc'[q] = proc[q]
BY DEF TypeOK, Move

LEMMA StopLeaves ==
  ASSUME TypeOK, NEW p \in Processes, NEW ok \in BOOLEAN, NEW pc \in Pcs,
         proc[p] \in Process, Stop(proc[p], ok), UNCHANGED down,
         proc'[p] = StopsAt(proc[p], ok, pc)
  PROVE  Leaves(proc[p], proc'[p])
<1> DEFINE h == proc[p]
           g == proc'[p]
<1>1. g.stopped /\ (g.alone => ok)
  BY AfterStopForm
<1>2. h.stopped \in BOOLEAN /\ running \in BOOLEAN
  BY DEF TypeOK, Process
<1>3. CASE ok
  <2>1. running' = (running /\ h.stopped)
    BY <1>3 DEF Stop
  <2>2. h.stopped => running' = running
    BY <1>2, <2>1
  <2>3. ~h.stopped => ~running'
    BY <2>1
  <2> QED
    BY <1>1, <2>2, <2>3 DEF Leaves
<1>4. CASE ~ok
  BY <1>1, <1>4 DEF Stop, Leaves
<1> QED
  BY <1>3, <1>4

LEMMA CheckCourse ==
  ASSUME TypeOK, NEW p \in Processes, CheckEntry(p), proc'[p] # NoProcess
  PROVE  /\ Same(proc[p], proc'[p]) /\ UNCHANGED <<running, down>>
         /\ Follows(proc[p], proc'[p])
<1> DEFINE h == proc[p]
<1>0. PICK ok \in BOOLEAN : CheckedAs(p, ok)
  BY Checked
<1> DEFINE errors == h.errors \/ Wants(h.i, h.c, ok)
<1>1. h \in Process /\ h.pc = "check"
  BY Forms DEF CheckEntry, At, Active
<1>2. errors \in BOOLEAN
  OBVIOUS
<1> HIDE DEF errors
<1>3. proc'[p] \in {[h EXCEPT !.i = h.i + 1, !.errors = errors],
                    [h EXCEPT !.pc = "stop", !.i = 1, !.errors = FALSE]}
  BY <1>0, Moved DEF CheckedAs, errors
<1>4. ASSUME NEW i PROVE LET g == [h EXCEPT !.i = i, !.errors = errors] IN
        g.pc = "check" /\ Same(h, g)
  BY <1>1 DEF Process, Same
<1>5. LET g == [h EXCEPT !.pc = "stop", !.i = 1, !.errors = FALSE] IN
        g.pc = "stop" /\ g.i = 1 /\ Same(h, g)
  BY <1>1 DEF Process, Same
<1>6. /\ Same(h, proc'[p]) /\ proc'[p].pc \in {"check", "stop"}
      /\ proc'[p].pc = "stop" => proc'[p].i = 1
  BY <1>3, <1>4, <1>5
<1>7. UNCHANGED <<running, down>>
  BY DEF CheckEntry
<1> QED
  BY <1>1, <1>6, <1>7 DEF Same, Follows, Pairing5

LEMMA FilesCourse ==
  ASSUME TypeOK, NEW p \in Processes,
         ReadEntries(p) \/ OpenEntries(p) \/ WriteEntries(p)
  PROVE  /\ Follows(proc[p], proc'[p]) /\ UNCHANGED <<running, down>>
         /\ proc'[p].stopped = proc[p].stopped
<1> DEFINE h == proc[p]
<1>1. h \in Process /\ h.pc \in {"read", "open", "write"}
  BY Forms DEF ReadEntries, OpenEntries, WriteEntries, At, Active
<1>2. UNCHANGED <<running, down>>
  BY DEF ReadEntries, OpenEntries, WriteEntries, hidden
<1>3. \/ proc'[p] = AfterFile(h)
      \/ proc'[p] = AfterFile([h EXCEPT !.failed = TRUE])
      \/ \E l \in Seq(Line), a \in BOOLEAN :
           /\ proc'[p] = [h EXCEPT !.pc = "open", !.alone = a, !.list = l]
           /\ a => h.alone
      \/ proc'[p] = [h EXCEPT !.pc = "write"]
  <2>1. CASE ReadEntries(p)
    <3>1. CASE Move(p, AfterFile(h))
      BY <3>1, Moved
    <3>2. ASSUME NEW l \in Seq(Line), NEW a \in BOOLEAN, a => h.alone,
                 Move(p, [h EXCEPT !.pc = "open", !.alone = a, !.list = l])
          PROVE  proc'[p] = [h EXCEPT !.pc = "open", !.alone = a, !.list = l]
      BY <3>2, Moved
    <3> QED
      BY <2>1, <3>1, <3>2, ReadOutcome
  <2>2. CASE OpenEntries(p)
    BY <2>2, Moved DEF OpenEntries
  <2>3. CASE WriteEntries(p)
    BY <2>3, WriteOutcome, Moved
  <2> QED
    BY <2>1, <2>2, <2>3
<1>4. ASSUME NEW g, g.c = h.c, g.stopped = h.stopped, g.alone => h.alone,
             h.failed => g.failed,
             g.pc \in {"read", "open", "write", "start"}
      PROVE  Follows(h, g) /\ g.stopped = h.stopped
  BY <1>1, <1>4 DEF Follows, Pairing5
<1>5. CASE proc'[p] = AfterFile(h)
  BY <1>1, <1>2, <1>4, <1>5, AfterFileForm DEF Same
<1>6. CASE proc'[p] = AfterFile([h EXCEPT !.failed = TRUE])
  <2> DEFINE g == [h EXCEPT !.failed = TRUE]
  <2>1. g \in Process /\ g.c = h.c /\ g.stopped = h.stopped
        /\ g.alone = h.alone /\ g.failed = TRUE
    BY <1>1 DEF Process
  <2> HIDE DEF g
  <2>2. Same(g, AfterFile(g)) /\ AfterFile(g).pc \in {"read", "start"}
    BY <2>1, AfterFileForm
  <2>3. proc'[p] = AfterFile(g)
    BY <1>6 DEF g
  <2> QED
    BY <1>2, <1>4, <2>1, <2>2, <2>3 DEF Same
<1>7. ASSUME NEW l \in Seq(Line), NEW a \in BOOLEAN, a => h.alone,
             proc'[p] = [h EXCEPT !.pc = "open", !.alone = a, !.list = l]
      PROVE  Follows(h, proc'[p]) /\ proc'[p].stopped = h.stopped
  <2>1. LET g == proc'[p] IN
        /\ g.pc = "open" /\ g.c = h.c /\ g.stopped = h.stopped
        /\ g.alone = a /\ g.failed = h.failed
    BY <1>1, <1>7 DEF Process
  <2> QED
    BY <1>4, <1>7, <2>1
<1>8. CASE proc'[p] = [h EXCEPT !.pc = "write"]
  <2>1. Same(h, proc'[p]) /\ proc'[p].pc = "write"
    BY <1>1, <1>8 DEF Process, Same
  <2> QED
    BY <1>2, <1>4, <2>1 DEF Same
<1> QED
  BY <1>2, <1>3, <1>4, <1>5, <1>6, <1>7, <1>8

LEMMA Step5Course ==
  ASSUME TypeOK, NEW p \in Processes, Step5(p), proc'[p] # NoProcess
  PROVE  Follows(proc[p], proc'[p]) /\ Leaves(proc[p], proc'[p])
<1> DEFINE h == proc[p]
           g == proc'[p]
<1> USE Forms DEF At, Active
<1>1. h \in Process /\ h.pc \in Pairing5
  BY DEF Step5, Info, MakeInfoDir, PutInfo, CacheDir, MakeCacheDir, Cache,
         OpenCache, PutCache, Pairing5
<1>2. ASSUME NEW ok \in BOOLEAN, NEW pc \in {"mkinfo", "mkcache", "opencache"},
             Stop(h, ok), g = StopsAt(h, ok, pc),
             UNCHANGED down
      PROVE  Follows(h, g) /\ Leaves(h, g)
  <2>1. pc \in Pcs
    BY DEF Pcs, Pairing5
  <2>2. /\ g.pc = pc /\ g.stopped /\ g.c = h.c /\ g.failed = h.failed
        /\ g.alone => h.alone
    BY <1>1, <1>2, <2>1, AfterStopForm
  <2>3. Leaves(h, g)
    BY <1>1, <1>2, <2>1, StopLeaves
  <2> QED
    BY <1>1, <2>2, <2>3 DEF Follows, Pairing5
<1>3. ASSUME NEW pc \in {"cachedir", "cache", "start", "putinfo", "putcache"},
             g = [h EXCEPT !.pc = pc] \/ g = [h EXCEPT !.pc = pc, !.failed = TRUE],
             pc = "putinfo" => h.pc = "mkinfo",
             pc = "putcache" => h.pc = "opencache",
             UNCHANGED <<running, down>>
      PROVE  Follows(h, g) /\ Leaves(h, g)
  <2>1. /\ g.pc = pc /\ g.c = h.c /\ g.stopped = h.stopped
        /\ g.alone = h.alone /\ (h.failed => g.failed)
    BY <1>1, <1>3 DEF Process
  <2> QED
    BY <1>1, <1>3, <2>1 DEF Follows, Leaves, Pairing5
<1>4. CASE Info(p)
  <2>1. UNCHANGED down
    BY <1>4 DEF Info, hidden
  <2>2. CASE info[h.c] # "absent"
    <3>1. g = [h EXCEPT !.pc = "cachedir"] /\ UNCHANGED running
      BY <1>4, <2>2, Moved DEF Info, AfterKnown
    <3> QED
      BY <1>3, <2>1, <3>1
  <2>3. CASE ~(info[h.c] # "absent")
    BY <1>2, <1>4, <2>1, <2>3, Moved DEF Info, StopsAt
  <2> QED
    BY <2>2, <2>3
<1>5. CASE MakeInfoDir(p)
  BY <1>3, <1>5, Moved DEF MakeInfoDir, Abandon
<1>6. CASE PutInfo(p)
  BY <1>3, <1>6, Moved DEF PutInfo
<1>7. CASE CacheDir(p)
  <2>1. UNCHANGED down
    BY <1>7 DEF CacheDir, hidden
  <2>2. CASE cacheDir
    <3>1. g = [h EXCEPT !.pc = "cache"] /\ UNCHANGED running
      BY <1>7, <2>2, Moved DEF CacheDir
    <3> QED
      BY <1>3, <2>1, <3>1
  <2>3. CASE ~cacheDir
    BY <1>2, <1>7, <2>1, <2>3, Moved DEF CacheDir, StopsAt
  <2> QED
    BY <2>2, <2>3
<1>8. CASE MakeCacheDir(p)
  BY <1>3, <1>8, Moved DEF MakeCacheDir, Abandon
<1>9. CASE Cache(p)
  <2>1. UNCHANGED down
    BY <1>9 DEF Cache, hidden
  <2>2. CASE cache[h.c] # "absent"
    <3>1. g = [h EXCEPT !.pc = "start"] /\ UNCHANGED running
      BY <1>9, <2>2, Moved DEF Cache
    <3> QED
      BY <1>3, <2>1, <3>1
  <2>3. CASE ~(cache[h.c] # "absent")
    BY <1>2, <1>9, <2>1, <2>3, Moved DEF Cache, StopsAt
  <2> QED
    BY <2>2, <2>3
<1>10. CASE OpenCache(p)
  BY <1>3, <1>10, Moved DEF OpenCache, hidden
<1>11. CASE PutCache(p)
  BY <1>3, <1>11, Moved DEF PutCache
<1> QED
  BY <1>4, <1>5, <1>6, <1>7, <1>8, <1>9, <1>10, <1>11 DEF Step5

\* The others stay as they are.
LEMMA OthersKept ==
  ASSUME TypeOK, NEW p \in Processes, Step(p) \/ Crash(p),
         NEW q \in Processes \ {p}
  PROVE  proc'[q] = proc[q]
<1>1. ASSUME NEW h, Move(p, h) PROVE proc'[q] = proc[q]
  BY <1>1, Moved
<1>2. CASE Step4(p)
  BY <1>1, <1>2 DEF Step4, CheckEntry, StopBluetoothd, ReadEntries,
                    OpenEntries, WriteEntries
<1>3. CASE Step5(p)
  BY <1>1, <1>3 DEF Step5, Info, MakeInfoDir, PutInfo, CacheDir, MakeCacheDir,
                    Cache, OpenCache, PutCache, Abandon
<1>4. CASE StartBluetoothd(p) \/ Crash(p)
  BY <1>1, <1>4 DEF StartBluetoothd, Crash
<1> QED
  BY <1>2, <1>3, <1>4 DEF Step

\* All the steps by which a pairing does not end.
LEMMA Course ==
  ASSUME TypeOK, NEW p \in Processes, Step(p), proc'[p] # NoProcess
  PROVE  Follows(proc[p], proc'[p]) /\ Leaves(proc[p], proc'[p])
<1> DEFINE h == proc[p]
           g == proc'[p]
<1>1. CASE CheckEntry(p)
  BY <1>1, CheckCourse DEF Same, Leaves
<1>2. CASE StopBluetoothd(p)
  <2>1. PICK ok \in BOOLEAN :
          Stop(h, ok) /\ Move(p, [AfterStop(h, ok) EXCEPT !.pc = "read"])
    BY <1>2 DEF StopBluetoothd
  <2>2. h \in Process /\ h.pc = "stop" /\ "read" \in Pcs /\ UNCHANGED down
    BY <1>2, Forms DEF StopBluetoothd, At, Active, Pcs, Pairing4, hidden
  <2>3. g = StopsAt(h, ok, "read")
    BY <2>1, Moved DEF StopsAt
  <2>4. /\ g.pc = "read" /\ g.stopped /\ g.c = h.c /\ g.i = h.i
        /\ g.failed = h.failed /\ (g.alone => h.alone)
    BY <2>2, <2>3, AfterStopForm
  <2>5. Leaves(h, g)
    BY <2>1, <2>2, <2>3, StopLeaves
  <2> QED
    BY <2>2, <2>4, <2>5 DEF Follows, Pairing5
<1>3. CASE ReadEntries(p) \/ OpenEntries(p) \/ WriteEntries(p)
  BY <1>3, FilesCourse DEF Leaves
<1>4. CASE Step5(p)
  BY <1>4, Step5Course
<1>5. CASE StartBluetoothd(p)
  BY <1>5, Moved DEF StartBluetoothd
<1> QED
  BY <1>1, <1>2, <1>3, <1>4, <1>5 DEF Step, Step4

-----------------------------------------------------------------------------
(* Who has stopped bluetoothd, and who will start it.                       *)

CourseOK ==
  \A p \in Processes : Active(p) =>
    /\ bluez = 4 => proc[p].pc \in Pairing4 \cup {"start"}
    /\ bluez = 5 => proc[p].pc \in Pairing5 \cup {"start"}
    /\ proc[p].pc \in {"check", "stop"} => ~proc[p].stopped
    /\ proc[p].pc = "stop" => proc[p].i = 1
    /\ proc[p].pc \in Stopping => proc[p].stopped
    /\ bluez = 4 /\ proc[p].pc = "start" => proc[p].stopped

\* Who is alone shares the files with nobody, and with no bluetoothd that it
\* has stopped.
AloneOK ==
  \A p, q \in Processes : Active(p) /\ Active(q) /\ proc[p].alone => p = q
QuietOK ==
  \A p \in Processes :
    Active(p) /\ proc[p].alone /\ proc[p].stopped => ~running

\* While bluetoothd does not run, one of the processes that pair has stopped
\* it, and will start it, unless a process has ended, or could not start it.
SomeoneStarts ==
  ~running => down \/ \E p \in Processes : Active(p) /\ proc[p].stopped

QuietInv == CourseOK /\ AloneOK /\ QuietOK /\ SomeoneStarts

LEMMA InitQuiet == Init => QuietInv
<1> SUFFICES ASSUME Init PROVE QuietInv
  OBVIOUS
<1>1. \A p \in Processes : ~Active(p)
  BY DEF Init, Active, At, NoProcess
<1>2. running
  BY DEF Init
<1> QED
  BY <1>1, <1>2 DEF QuietInv, CourseOK, AloneOK, QuietOK, SomeoneStarts

LEMMA BluezKept == ASSUME [Next]_vars PROVE UNCHANGED bluez
<1>1. CASE Next
  BY <1>1 DEF Next, Step, Step4, Step5, Pair, CheckEntry, StopBluetoothd,
     ReadEntries, OpenEntries, WriteEntries, StartBluetoothd, Info,
     MakeInfoDir, PutInfo, CacheDir, MakeCacheDir, Cache, OpenCache, PutCache,
     Crash, Bluetoothd
<1> QED
  BY <1>1 DEF vars

\* A process that begins is alone if no other is active.
LEMMA Begins ==
  ASSUME TypeOK, NEW p \in Processes, Pair(p)
  PROVE  LET g == proc'[p] IN
         /\ ~Active(p)
         /\ g \in Process /\ g.pc = IF bluez = 4 THEN "check" ELSE "info"
         /\ g.i = 1 /\ ~g.stopped /\ ~g.failed /\ ~g.errors
         /\ \A q \in Processes \ {p} :
              /\ ~Active(q) => proc'[q] = proc[q]
              /\ Active(q) => /\ proc'[q] = [proc[q] EXCEPT !.alone = FALSE]
                              /\ ~g.alone
<1>1. PICK c \in Controllers :
        proc' = [q \in Processes |->
          IF q = p
          THEN [pc |-> IF bluez = 4 THEN "check" ELSE "info", c |-> c,
                i |-> 1, list |-> <<>>, errors |-> FALSE, stopped |-> FALSE,
                failed |-> FALSE,
                alone |-> {r \in Processes : Active(r)} = {}]
          ELSE IF q \in {r \in Processes : Active(r)}
          THEN [proc[q] EXCEPT !.alone = FALSE] ELSE proc[q]]
  BY DEF Pair
<1> DEFINE b == {r \in Processes : Active(r)} = {}
<1>2. b \in BOOLEAN /\ \A q \in Processes : Active(q) => ~b
  OBVIOUS
<1>3. /\ 1 \in 1 .. Files /\ <<>> \in Seq(Line)
      /\ {"check", "info"} \subseteq Pcs
  BY PairingAssumption DEF Pcs, Pairing4, Pairing5
<1>4. proc'[p] = [pc |-> IF bluez = 4 THEN "check" ELSE "info", c |-> c,
                  i |-> 1, list |-> <<>>, errors |-> FALSE, stopped |-> FALSE,
                  failed |-> FALSE, alone |-> b]
  BY <1>1
<1>5. \A q \in Processes \ {p} :
        proc'[q] = IF Active(q) THEN [proc[q] EXCEPT !.alone = FALSE] ELSE proc[q]
  BY <1>1
<1> HIDE DEF b
<1>6. proc'[p] \in Process
  BY <1>2, <1>3, <1>4 DEF Process, Pcs
<1> QED
  BY <1>2, <1>4, <1>5, <1>6 DEF Pair

\* What a process keeps when another begins.
LEMMA Joined ==
  ASSUME NEW h \in Process
  PROVE  LET g == [h EXCEPT !.alone = FALSE] IN
         /\ g.pc = h.pc /\ g.c = h.c /\ g.i = h.i /\ g.list = h.list
         /\ g.errors = h.errors /\ g.stopped = h.stopped
         /\ g.failed = h.failed /\ ~g.alone
BY DEF Process

\* Nor does a change by bluetoothd matter here.
LEMMA Disturbed ==
  ASSUME TypeOK, Bluetoothd, NEW p \in Processes
  PROVE  LET h == proc[p]
             g == proc'[p] IN
         /\ Active(p) <=> Active(p)'
         /\ ~Active(p) => g = h
         /\ Active(p) => /\ g.pc = h.pc /\ g.c = h.c /\ g.i = h.i
                         /\ g.list = h.list /\ g.errors = h.errors
                         /\ g.stopped = h.stopped /\ g.alone = h.alone
                         /\ h.failed => g.failed
<1>1. PICK x \in Line :
        proc' = [q \in Processes |->
          IF At(q, "check") /\ proc[q].c = x.addr
          THEN [proc[q] EXCEPT !.failed = TRUE] ELSE proc[q]]
  BY DEF Bluetoothd
<1>2. ASSUME Active(p), proc'[p] = [proc[p] EXCEPT !.failed = TRUE]
      PROVE  LET h == proc[p]
                 g == proc'[p] IN
             /\ g.pc = h.pc /\ g.c = h.c /\ g.i = h.i
             /\ g.list = h.list /\ g.errors = h.errors
             /\ g.stopped = h.stopped /\ g.alone = h.alone
             /\ g.failed
  BY <1>2, Forms DEF Process
<1>3. CASE At(p, "check") /\ proc[p].c = x.addr
  <2>1. Active(p)
    BY <1>3 DEF At, Active
  <2>2. proc'[p] = [proc[p] EXCEPT !.failed = TRUE]
    BY <1>1, <1>3
  <2> QED
    BY <1>2, <2>1, <2>2 DEF At, Active
<1>4. CASE ~(At(p, "check") /\ proc[p].c = x.addr)
  <2>1. proc'[p] = proc[p]
    BY <1>1, <1>4
  <2> QED
    BY <2>1 DEF At, Active
<1> QED
  BY <1>3, <1>4

\* Where a pairing ends.
LEMMA Ends ==
  ASSUME TypeOK, CourseOK, NEW p \in Processes, Step(p) \/ Crash(p),
         proc'[p] = NoProcess, SomeoneStarts
  PROVE  SomeoneStarts'
<1> DEFINE h == proc[p]
<1>1. h \in Process /\ Active(p)
  BY Forms DEF Step, Step4, Step5, CheckEntry, StopBluetoothd, ReadEntries,
     OpenEntries, WriteEntries, StartBluetoothd, Info, MakeInfoDir, PutInfo,
     CacheDir, MakeCacheDir, Cache, OpenCache, PutCache, Crash, At, Active
<1>2. \A q \in Processes \ {p} : proc'[q] = proc[q]
  BY OthersKept
<1>3. ASSUME NEW q \in Processes \ {p}, Active(q), proc[q].stopped
      PROVE  Active(q)' /\ proc'[q].stopped
  BY <1>2, <1>3 DEF Active, At
<1>4. ASSUME UNCHANGED running, down' = (down \/ Forsaken(p))
      PROVE  SomeoneStarts'
  BY <1>3, <1>4 DEF SomeoneStarts, Forsaken
<1>5. ASSUME UNCHANGED <<running, down>>, ~h.stopped
      PROVE  SomeoneStarts'
  BY <1>3, <1>5 DEF SomeoneStarts
<1>6. CASE StartBluetoothd(p)
  <2>1. CASE running' = (running \/ h.stopped) /\ down' = (down /\ ~running')
    <3>1. CASE running'
      BY <3>1 DEF SomeoneStarts
    <3>2. CASE ~running'
      <4>1. ~running /\ ~h.stopped /\ (down => down')
        BY <2>1, <3>2
      <4> QED
        BY <1>3, <4>1 DEF SomeoneStarts
    <3> QED
      BY <3>1, <3>2
  <2>2. CASE down' = (down \/ Forsaken(p)) /\ UNCHANGED running
    BY <1>4, <2>2
  <2> QED
    BY <1>6, <2>1, <2>2 DEF StartBluetoothd
<1>7. CASE Crash(p)
  BY <1>4, <1>7 DEF Crash
<1>8. CASE CheckEntry(p)
  BY <1>1, <1>5, <1>8 DEF CheckEntry, CourseOK, At
<1>9. CASE StopBluetoothd(p) \/ ReadEntries(p) \/ OpenEntries(p)
           \/ WriteEntries(p)
  <2>1. CASE StopBluetoothd(p)
    <3>1. PICK ok \in BOOLEAN : Move(p, StopsAt(h, ok, "read"))
      BY <2>1 DEF StopBluetoothd, StopsAt
    <3>2. proc'[p].pc = "read"
      BY <1>1, <3>1, Moved, AfterStopForm DEF Pcs, Pairing4
    <3> QED
      BY <3>2 DEF NoProcess
  <2>2. CASE ReadEntries(p) \/ OpenEntries(p) \/ WriteEntries(p)
    <3>1. h.pc \in {"read", "open", "write"}
      BY <2>2 DEF ReadEntries, OpenEntries, WriteEntries, At
    <3>2. proc'[p].pc \in {"read", "open", "write", "start"}
      BY <2>2, <3>1, FilesCourse DEF Follows
    <3> QED
      BY <3>2 DEF NoProcess
  <2> QED
    BY <1>9, <2>1, <2>2
<1>10. CASE Step5(p)
  <2>1. ASSUME NEW pc \in Pcs, \/ proc'[p] = [h EXCEPT !.pc = pc]
                               \/ proc'[p] = [h EXCEPT !.pc = pc, !.failed = TRUE]
                               \/ \E ok \in BOOLEAN : proc'[p] = StopsAt(h, ok, pc)
        PROVE  FALSE
    <3>1. [h EXCEPT !.pc = pc].pc = pc /\ [h EXCEPT !.pc = pc, !.failed = TRUE].pc = pc
      BY <1>1 DEF Process
    <3>2. \A ok \in BOOLEAN : StopsAt(h, ok, pc).pc = pc
      BY <1>1, AfterStopForm
    <3>3. proc'[p].pc = pc
      BY <2>1, <3>1, <3>2
    <3> QED
      BY <3>3 DEF NoProcess, Pcs, Pairing4, Pairing5
  <2>2. Pairing5 \subseteq Pcs /\ "start" \in Pcs
    BY DEF Pcs
  <2>3. CASE Info(p) \/ PutInfo(p) \/ CacheDir(p) \/ Cache(p) \/ OpenCache(p)
             \/ PutCache(p)
    BY <2>1, <2>2, <2>3, Moved DEF Info, PutInfo, CacheDir, Cache, OpenCache,
       PutCache, AfterKnown, StopsAt, Pairing5
  <2>4. CASE MakeInfoDir(p)
    BY <1>4, <2>1, <2>2, <2>4, Moved DEF MakeInfoDir, Abandon, Pairing5
  <2>5. CASE MakeCacheDir(p)
    BY <1>4, <2>1, <2>2, <2>5, Moved DEF MakeCacheDir, Abandon, Pairing5
  <2> QED
    BY <1>10, <2>3, <2>4, <2>5 DEF Step5
<1> QED
  BY <1>6, <1>7, <1>8, <1>9, <1>10 DEF Step, Step4

LEMMA StepQuiet == TypeOK /\ QuietInv /\ [Next]_vars => QuietInv'
<1> SUFFICES ASSUME TypeOK, QuietInv, [Next]_vars PROVE QuietInv'
  OBVIOUS
<1> USE DEF QuietInv
<1>1. UNCHANGED bluez /\ TypeOK'
  BY BluezKept, StepTyped
<1>2. \A p \in Processes : Active(p) => proc[p] \in Process
  BY Forms
<1>3. ASSUME NEW p \in Processes, Pair(p) PROVE QuietInv'
  <2>1. UNCHANGED <<running, down>>
    BY <1>3 DEF Pair, hidden
  <2>2. ASSUME NEW q \in Processes \ {p}, Active(q)
        PROVE  /\ Active(q)' /\ proc'[q].pc = proc[q].pc
               /\ proc'[q].i = proc[q].i
               /\ proc'[q].stopped = proc[q].stopped /\ ~proc'[q].alone
    <3>1. proc'[q] = [proc[q] EXCEPT !.alone = FALSE] /\ proc[q] \in Process
      BY <1>2, <1>3, <2>2, Begins
    <3>2. /\ proc'[q].pc = proc[q].pc /\ proc'[q].i = proc[q].i
          /\ proc'[q].stopped = proc[q].stopped /\ ~proc'[q].alone
      BY <3>1, Joined
    <3> QED
      BY <2>2, <3>2 DEF Active, At
  <2>3. ASSUME NEW q \in Processes \ {p}, ~Active(q)
        PROVE  ~Active(q)'
    BY <1>3, <2>3, Begins DEF Active, At
  <2>4. /\ ~Active(p) /\ ~proc'[p].stopped
        /\ proc'[p].pc = IF bluez = 4 THEN "check" ELSE "info"
        /\ \A q \in Processes \ {p} : Active(q) => ~proc'[p].alone
    BY <1>3, Begins
  <2>5. CourseOK'
    BY <1>1, <2>2, <2>3, <2>4
    DEF CourseOK, Stopping, Pairing4, Pairing5, TypeOK
  <2>6. AloneOK'
    BY <2>2, <2>3, <2>4 DEF AloneOK
  <2>7. QuietOK'
    BY <2>1, <2>2, <2>3, <2>4 DEF QuietOK
  <2>8. SomeoneStarts'
    BY <2>1, <2>2, <2>4 DEF SomeoneStarts
  <2> QED
    BY <2>5, <2>6, <2>7, <2>8
<1>4. ASSUME NEW p \in Processes, Step(p) \/ Crash(p) PROVE QuietInv'
  <2> DEFINE h == proc[p]
             g == proc'[p]
  <2>1. \A q \in Processes \ {p} : proc'[q] = proc[q]
    BY <1>4, OthersKept
  <2>2. h \in Process /\ Active(p)
    BY <1>4, Forms DEF Step, Step4, Step5, CheckEntry, StopBluetoothd,
     ReadEntries, OpenEntries, WriteEntries, StartBluetoothd, Info,
     MakeInfoDir, PutInfo, CacheDir, MakeCacheDir, Cache, OpenCache, PutCache,
     Crash, At, Active
  <2>3. \A q \in Processes \ {p} : Active(q)' <=> Active(q)
    BY <2>1 DEF Active, At
  <2>4. CASE g = NoProcess
    <3>1. ~Active(p)'
      BY <2>4 DEF Active, At, NoProcess
    <3>2. CourseOK'
      BY <1>1, <2>1, <2>3, <3>1 DEF CourseOK
    <3>3. AloneOK'
      BY <2>1, <2>3, <3>1 DEF AloneOK
    <3>4. QuietOK'
      BY <2>1, <2>2, <2>3, <3>1 DEF QuietOK, AloneOK
    <3>5. SomeoneStarts'
      BY <1>4, <2>4, Ends
    <3> QED
      BY <3>2, <3>3, <3>4, <3>5
  <2>5. CASE g # NoProcess
    <3>1. Step(p)
      <4>1. ~Crash(p)
        BY <2>5, Moved DEF Crash
      <4> QED
        BY <1>4, <4>1
    <3>2. Follows(h, g) /\ Leaves(h, g)
      BY <2>5, <3>1, Course
    <3>3. g \in Process /\ Active(p)'
      BY <1>1, <2>5 DEF TypeOK, Process, Active, At, Pairing4, Pairing5
    <3>4. g.stopped \in BOOLEAN /\ h.stopped \in BOOLEAN
      BY <2>2, <3>3 DEF Process
    <3>5. CourseOK'
      <4>1. h.pc \in Stopping => h.stopped
        BY <2>2 DEF CourseOK
      <4>2. g.pc \in {"check", "stop"} => ~g.stopped
        BY <2>2, <3>2, <3>4 DEF Follows, CourseOK, Process, Pairing4, Pairing5
      <4>3. g.pc = "stop" => g.i = 1
        BY <2>2, <3>2 DEF Follows, Process, Pairing4, Pairing5
      <4>4. g.pc \in Stopping => g.stopped
        BY <2>2, <3>2, <4>1 DEF Follows, Process, Pairing4, Pairing5, Stopping
      <4>5. bluez = 4 => g.pc \in Pairing4 \cup {"start"}
        BY <2>2, <3>2 DEF Follows, CourseOK, Pairing4, Process
      <4>6. bluez = 5 => g.pc \in Pairing5 \cup {"start"}
        BY <2>2, <3>2 DEF Follows, CourseOK, Process, Pairing5
      <4>7. bluez = 4 /\ g.pc = "start" => g.stopped
        BY <2>2, <3>2, <4>1 DEF Follows, CourseOK, Pairing4, Stopping
      <4> QED
        BY <1>1, <2>1, <2>3, <4>2, <4>3, <4>4, <4>5, <4>6, <4>7 DEF CourseOK
    <3>6. AloneOK'
      BY <2>1, <2>2, <2>3, <3>2 DEF AloneOK, Follows
    <3>7. QuietOK'
      <4>1. ASSUME NEW q \in Processes \ {p}, Active(q)
            PROVE  ~proc[q].alone
        BY <2>2, <4>1 DEF AloneOK
      <4>2. g.alone /\ g.stopped => ~running'
        BY <2>2, <3>2, <3>4 DEF QuietOK, Follows, Leaves
      <4> QED
        BY <2>1, <2>3, <4>1, <4>2 DEF QuietOK
    <3>8. SomeoneStarts'
      <4>1. CASE g.stopped
        BY <3>3, <4>1 DEF SomeoneStarts
      <4>2. CASE ~g.stopped
        <5>1. running' = running /\ down' = down /\ ~h.stopped
          BY <3>2, <4>2 DEF Follows, Leaves
        <5> QED
          BY <2>1, <2>3, <5>1 DEF SomeoneStarts
      <4> QED
        BY <4>1, <4>2
    <3> QED
      BY <3>5, <3>6, <3>7, <3>8
  <2> QED
    BY <2>4, <2>5
<1>5. ASSUME Bluetoothd PROVE QuietInv'
  <2>1. UNCHANGED <<running, down>>
    BY <1>5 DEF Bluetoothd
  <2>2. \A q \in Processes :
          /\ Active(q) <=> Active(q)'
          /\ Active(q) => /\ proc'[q].pc = proc[q].pc /\ proc'[q].i = proc[q].i
                          /\ proc'[q].stopped = proc[q].stopped
                          /\ proc'[q].alone = proc[q].alone
    BY <1>5, Disturbed
  <2>3. CourseOK'
    BY <1>1, <2>2 DEF CourseOK
  <2>4. AloneOK'
    BY <2>2 DEF AloneOK
  <2>5. QuietOK' /\ SomeoneStarts'
    BY <2>1, <2>2 DEF QuietOK, SomeoneStarts
  <2> QED
    BY <2>3, <2>4, <2>5
<1>6. ASSUME UNCHANGED vars PROVE QuietInv'
  <2>1. UNCHANGED <<bluez, running, proc, down>>
    BY <1>6 DEF vars, hidden
  <2>2. CourseOK'
    BY <2>1 DEF CourseOK, Active, At
  <2>3. AloneOK'
    BY <2>1 DEF AloneOK, Active, At
  <2>4. QuietOK'
    BY <2>1 DEF QuietOK, Active, At
  <2>5. SomeoneStarts'
    BY <2>1 DEF SomeoneStarts, Active, At
  <2> QED
    BY <2>2, <2>3, <2>4, <2>5
<1> QED
  BY <1>3, <1>4, <1>5, <1>6 DEF Next

\* As long as bluetoothd is stopped a process is there that will start it,
\* whoever pairs and whatever fails, unless one has ended before, or has
\* tried and failed.
THEOREM SomeoneStartsHolds == Spec => []SomeoneStarts
<1>1. Init => TypeOK /\ QuietInv
  BY InitTyped, InitQuiet
<1>2. (TypeOK /\ QuietInv) /\ [Next]_vars => (TypeOK /\ QuietInv)'
  BY StepTyped, StepQuiet
<1>3. QuietInv => SomeoneStarts
  BY DEF QuietInv
<1> QED
  BY <1>1, <1>2, <1>3, PTL DEF Spec

-----------------------------------------------------------------------------
(* Bluez 5: what has been registered.                                       *)

\* Only a process that is writing a file, or one that has failed to finish
\* it, leaves it unfinished.
BrokenOK ==
  \A c \in Controllers :
    /\ info[c] = "broken" =>
         c \in cut \/ \E p \in Processes : At(p, "putinfo") /\ proc[p].c = c
    /\ cache[c] = "broken" =>
         c \in cut \/ \E p \in Processes : At(p, "putcache") /\ proc[p].c = c

\* Nobody truncates the file of a controller that has been registered.
OpenOK ==
  \A p \in Processes : proc[p].pc \in {"opencache", "putcache"}
                         => proc[p].c \notin registered

\* What a pairing without failures has done so far.
AheadOK ==
  \A p \in Processes :
    bluez = 5 /\ Active(p) /\ proc[p].alone /\ ~proc[p].failed
              /\ proc[p].c \notin cut
    => /\ proc[p].pc \in {"cachedir", "mkcache", "cache", "opencache",
                          "putcache", "start"} => info[proc[p].c] = "whole"
       /\ proc[p].pc = "start" => cache[proc[p].c] = "whole"

RegInv == Registered /\ BrokenOK /\ OpenOK /\ AheadOK

LEMMA InitReg == Init => RegInv
<1> SUFFICES ASSUME Init PROVE RegInv
  OBVIOUS
<1>1. \A p \in Processes : proc[p].pc = "idle"
  BY DEF Init, NoProcess
<1>2. \A c \in Controllers : info[c] = "absent" /\ cache[c] = "absent"
  BY DEF Init
<1>3. registered = {}
  BY DEF Init
<1> QED
  BY <1>1, <1>2, <1>3
  DEF RegInv, Registered, BrokenOK, OpenOK, AheadOK, Active, At

\* The steps of a pairing with Bluez 5.
From(p, from, to) ==
  /\ proc[p].pc = from /\ proc'[p].pc = to /\ proc'[p].c = proc[p].c
  /\ proc'[p].alone => proc[p].alone
  /\ proc[p].failed => proc'[p].failed

LEMMA Outcome5 ==
  ASSUME TypeOK, NEW p \in Processes, Step5(p), proc'[p] # NoProcess
  PROVE  LET c == proc[p].c IN
    /\ UNCHANGED registered
    /\ \/ From(p, "info", "cachedir") /\ info[c] # "absent"
            /\ UNCHANGED <<info, cache, cut>>
       \/ From(p, "info", "mkinfo") /\ UNCHANGED <<info, cache, cut>>
       \/ From(p, "mkinfo", "putinfo") /\ info[c] = "absent"
            /\ info' = [info EXCEPT ![c] = "broken"] /\ UNCHANGED <<cache, cut>>
       \/ From(p, "putinfo", "cachedir")
            /\ info' = [info EXCEPT ![c] = "whole"] /\ UNCHANGED <<cache, cut>>
       \/ From(p, "putinfo", "cachedir") /\ proc'[p].failed
            /\ cut' = cut \cup {c} /\ UNCHANGED <<info, cache>>
       \/ From(p, "cachedir", "cache") /\ UNCHANGED <<info, cache, cut>>
       \/ From(p, "cachedir", "mkcache") /\ UNCHANGED <<info, cache, cut>>
       \/ From(p, "mkcache", "cache") /\ UNCHANGED <<info, cache, cut>>
       \/ From(p, "cache", "start") /\ cache[c] # "absent"
            /\ UNCHANGED <<info, cache, cut>>
       \/ From(p, "cache", "opencache") /\ cache[c] = "absent"
            /\ UNCHANGED <<info, cache, cut>>
       \/ From(p, "opencache", "putcache")
            /\ cache' = [cache EXCEPT ![c] = "broken"] /\ UNCHANGED <<info, cut>>
       \/ From(p, "opencache", "start") /\ proc'[p].failed
            /\ UNCHANGED <<info, cache, cut>>
       \/ From(p, "putcache", "start")
            /\ cache' = [cache EXCEPT ![c] = "whole"] /\ UNCHANGED <<info, cut>>
       \/ From(p, "putcache", "start") /\ proc'[p].failed
            /\ cut' = cut \cup {c} /\ UNCHANGED <<info, cache>>
<1> DEFINE h == proc[p]
           g == proc'[p]
<1>1. h \in Process
  BY Forms DEF Step5, Info, MakeInfoDir, PutInfo, CacheDir, MakeCacheDir, Cache,
         OpenCache, PutCache, At, Active
<1>2. ASSUME NEW pc \in Pcs, g = [h EXCEPT !.pc = pc] PROVE From(p, h.pc, pc)
  BY <1>1, <1>2 DEF Process, From
<1>3. ASSUME NEW pc \in Pcs, g = [h EXCEPT !.pc = pc, !.failed = TRUE]
      PROVE  From(p, h.pc, pc) /\ g.failed
  BY <1>1, <1>3 DEF Process, From
<1>4. ASSUME NEW pc \in Pcs, NEW ok \in BOOLEAN, g = StopsAt(h, ok, pc)
      PROVE  From(p, h.pc, pc)
  <2>1. /\ g.pc = pc /\ g.c = h.c /\ g.failed = h.failed
        /\ g.alone => h.alone
    BY <1>1, <1>4, AfterStopForm
  <2> QED
    BY <2>1 DEF From
<1>5. {"info", "mkinfo", "putinfo", "cachedir", "mkcache", "cache",
       "opencache", "putcache", "start"} \subseteq Pcs
  BY DEF Pcs, Pairing5
<1>6. CASE Info(p)
  <2>1. h.pc = "info" /\ UNCHANGED <<info, cache, cut, registered>>
    BY <1>6 DEF Info, At, disk, hidden
  <2>2. \/ info[h.c] # "absent" /\ g = [h EXCEPT !.pc = "cachedir"]
        \/ \E ok \in BOOLEAN : g = StopsAt(h, ok, "mkinfo")
    BY <1>6, Moved DEF Info, AfterKnown, StopsAt
  <2>3. \/ info[h.c] # "absent" /\ From(p, h.pc, "cachedir")
        \/ From(p, h.pc, "mkinfo")
    BY <1>2, <1>4, <1>5, <2>2
  <2> QED
    BY <2>1, <2>3
<1>7. CASE MakeInfoDir(p)
  <2>1. h.pc = "mkinfo" /\ UNCHANGED <<cache, cut, registered>>
    BY <1>7 DEF MakeInfoDir, At
  <2>2. /\ g = [h EXCEPT !.pc = "putinfo"] /\ info[h.c] = "absent"
        /\ info' = [info EXCEPT ![h.c] = "broken"]
    BY <1>7, Moved DEF MakeInfoDir, Abandon
  <2> QED
    BY <1>2, <1>5, <2>1, <2>2
<1>8. CASE PutInfo(p)
  <2>1. h.pc = "putinfo" /\ UNCHANGED <<cache, registered>>
    BY <1>8 DEF PutInfo, At
  <2>2. \/ /\ g = [h EXCEPT !.pc = "cachedir"] /\ UNCHANGED cut
           /\ info' = [info EXCEPT ![h.c] = "whole"]
        \/ /\ g = [h EXCEPT !.pc = "cachedir", !.failed = TRUE]
           /\ cut' = cut \cup {h.c} /\ UNCHANGED info
    BY <1>8, Moved DEF PutInfo
  <2> QED
    BY <1>2, <1>3, <1>5, <2>1, <2>2
<1>9. CASE CacheDir(p)
  <2>1. h.pc = "cachedir" /\ UNCHANGED <<info, cache, cut, registered>>
    BY <1>9 DEF CacheDir, At, disk, hidden
  <2>2. \/ g = [h EXCEPT !.pc = "cache"]
        \/ \E ok \in BOOLEAN : g = StopsAt(h, ok, "mkcache")
    BY <1>9, Moved DEF CacheDir, StopsAt
  <2>3. From(p, h.pc, "cache") \/ From(p, h.pc, "mkcache")
    BY <1>2, <1>4, <1>5, <2>2
  <2> QED
    BY <2>1, <2>3
<1>10. CASE MakeCacheDir(p)
  <2>1. h.pc = "mkcache" /\ UNCHANGED <<info, cache, cut, registered>>
    BY <1>10 DEF MakeCacheDir, At
  <2>2. g = [h EXCEPT !.pc = "cache"]
    BY <1>10, Moved DEF MakeCacheDir, Abandon
  <2> QED
    BY <1>2, <1>5, <2>1, <2>2
<1>11. CASE Cache(p)
  <2>1. h.pc = "cache" /\ UNCHANGED <<info, cache, cut, registered>>
    BY <1>11 DEF Cache, At, disk, hidden
  <2>2. \/ cache[h.c] # "absent" /\ g = [h EXCEPT !.pc = "start"]
        \/ cache[h.c] = "absent"
             /\ \E ok \in BOOLEAN : g = StopsAt(h, ok, "opencache")
    BY <1>11, Moved DEF Cache, StopsAt
  <2>3. \/ cache[h.c] # "absent" /\ From(p, h.pc, "start")
        \/ cache[h.c] = "absent" /\ From(p, h.pc, "opencache")
    BY <1>2, <1>4, <1>5, <2>2
  <2> QED
    BY <2>1, <2>3
<1>12. CASE OpenCache(p)
  <2>1. h.pc = "opencache" /\ UNCHANGED <<info, cut, registered>>
    BY <1>12 DEF OpenCache, At, hidden
  <2>2. \/ /\ g = [h EXCEPT !.pc = "putcache"]
           /\ cache' = [cache EXCEPT ![h.c] = "broken"]
        \/ /\ g = [h EXCEPT !.pc = "start", !.failed = TRUE]
           /\ UNCHANGED cache
    BY <1>12, Moved DEF OpenCache
  <2> QED
    BY <1>2, <1>3, <1>5, <2>1, <2>2
<1>13. CASE PutCache(p)
  <2>1. h.pc = "putcache" /\ UNCHANGED <<info, registered>>
    BY <1>13 DEF PutCache, At
  <2>2. \/ /\ g = [h EXCEPT !.pc = "start"] /\ UNCHANGED cut
           /\ cache' = [cache EXCEPT ![h.c] = "whole"]
        \/ /\ g = [h EXCEPT !.pc = "start", !.failed = TRUE]
           /\ cut' = cut \cup {h.c} /\ UNCHANGED cache
    BY <1>13, Moved DEF PutCache
  <2> QED
    BY <1>2, <1>3, <1>5, <2>1, <2>2
<1> QED
  BY <1>6, <1>7, <1>8, <1>9, <1>10, <1>11, <1>12, <1>13 DEF Step5

\* A process that stays where it is, or that goes where nothing is promised.
Stays(q) ==
  /\ proc'[q].pc = proc[q].pc /\ proc'[q].c = proc[q].c
  /\ proc'[q].alone => proc[q].alone
  /\ proc[q].failed => proc'[q].failed
Promised == {"cachedir", "mkcache", "cache", "opencache", "putcache", "start"}
Harmless(q) ==
  /\ proc[q].pc \notin {"putinfo", "putcache"}
  /\ \/ proc'[q].pc \notin Promised
     \/ bluez = 4 /\ proc'[q].pc \notin {"opencache", "putcache"}

LEMMA Undisturbed ==
  ASSUME TypeOK, RegInv, UNCHANGED <<bluez, info, cache, cut, registered>>,
         \A q \in Processes : (Active(q) /\ Stays(q)) \/ Harmless(q)
  PROVE  RegInv'
<1> USE DEF RegInv
<1>1. Registered'
  BY DEF Registered
<1>2. BrokenOK'
  BY DEF BrokenOK, Stays, Harmless, At
<1>3. OpenOK'
  BY DEF OpenOK, Stays, Harmless, Promised
<1>4. AheadOK'
  <2> SUFFICES ASSUME NEW q \in Processes, bluez = 5, Active(q)',
                      proc'[q].alone, ~proc'[q].failed, proc'[q].c \notin cut
               PROVE  /\ proc'[q].pc \in Promised => info[proc'[q].c] = "whole"
                      /\ proc'[q].pc = "start" => cache[proc'[q].c] = "whole"
    BY DEF AheadOK, Promised
  <2>1. CASE Active(q) /\ Stays(q)
    BY <2>1 DEF AheadOK, Stays, Promised
  <2>2. CASE Harmless(q)
    BY <2>2 DEF Harmless, Promised
  <2> QED
    BY <2>1, <2>2
<1> QED
  BY <1>1, <1>2, <1>3, <1>4

LEMMA Step5Reg ==
  ASSUME TypeOK, TypeOK', CourseOK, AloneOK, RegInv, NEW p \in Processes,
         Step5(p), proc'[p] # NoProcess, UNCHANGED bluez
  PROVE  RegInv'
<1> USE DEF RegInv
<1> DEFINE h == proc[p]
           g == proc'[p]
           c == h.c
<1>1. h \in Process /\ Active(p) /\ h.c \in Controllers
  BY Forms DEF Step5, Info, MakeInfoDir, PutInfo, CacheDir, MakeCacheDir, Cache,
         OpenCache, PutCache, At, Active, Process
<1>2. \A q \in Processes \ {p} : proc'[q] = proc[q]
  BY OthersKept DEF Step
<1>3. \A q \in Processes \ {p} : ~Active(q) \/ (~h.alone /\ ~proc[q].alone)
  BY <1>1 DEF AloneOK
<1>4. registered' = registered
  BY Outcome5
<1> DEFINE Hidden == UNCHANGED <<info, cache, cut>>
<1>5. CASE From(p, "info", "cachedir") /\ info[c] # "absent" /\ Hidden
  <2>1. info[c] = "whole" \/ c \in cut \/ ~h.alone
    <3>1. info[c] \in {"absent", "broken", "whole"}
      BY <1>1 DEF TypeOK, States
    <3>2. info[c] = "broken" => c \in cut \/ ~h.alone
      <4>1. ASSUME NEW q \in Processes, At(q, "putinfo") PROVE ~h.alone
        BY <1>3, <1>5, <4>1 DEF At, Active, From
      <4> QED
        BY <1>1, <4>1 DEF BrokenOK
    <3> QED
      BY <1>5, <3>1, <3>2
  <2>2. Registered' /\ OpenOK'
    BY <1>2, <1>4, <1>5 DEF Registered, OpenOK, From
  <2>3. BrokenOK'
    BY <1>2, <1>5 DEF BrokenOK, From, At
  <2>4. AheadOK'
    BY <1>2, <1>5, <2>1 DEF AheadOK, From, Active, At
  <2> QED
    BY <2>2, <2>3, <2>4
<1>6. CASE From(p, "info", "mkinfo") /\ Hidden
  <2>1. Harmless(p)
    BY <1>6 DEF Harmless, From, Promised
  <2>2. \A q \in Processes \ {p} : (Active(q) /\ Stays(q)) \/ Harmless(q)
    BY <1>2 DEF Stays, Harmless, Active, At, Promised
  <2> QED
    BY <1>4, <1>6, <2>1, <2>2, Undisturbed
<1>7. CASE From(p, "mkinfo", "putinfo") /\ info[c] = "absent"
            /\ info' = [info EXCEPT ![c] = "broken"] /\ UNCHANGED <<cache, cut>>
  <2>1. c \notin registered
    BY <1>1, <1>7 DEF Registered
  <2>2. /\ info'[c] = "broken"
        /\ \A d \in Controllers \ {c} : info'[d] = info[d]
    BY <1>1, <1>7 DEF TypeOK
  <2>3. Registered' /\ OpenOK'
    BY <1>2, <1>4, <1>7, <2>1, <2>2 DEF Registered, OpenOK, From, TypeOK
  <2>4. BrokenOK'
    BY <1>2, <1>7, <2>2 DEF BrokenOK, From, At
  <2>5. AheadOK'
    BY <1>2, <1>3, <1>7 DEF AheadOK, From, Active, At
  <2> QED
    BY <2>3, <2>4, <2>5
<1>8. CASE From(p, "putinfo", "cachedir")
            /\ info' = [info EXCEPT ![c] = "whole"] /\ UNCHANGED <<cache, cut>>
  <2>1. /\ info'[c] = "whole"
        /\ \A d \in Controllers \ {c} : info'[d] = info[d]
    BY <1>1, <1>8 DEF TypeOK
  <2>2. Registered' /\ OpenOK'
    BY <1>2, <1>4, <1>8, <2>1 DEF Registered, OpenOK, From, TypeOK
  <2>3. BrokenOK'
    BY <1>2, <1>8, <2>1 DEF BrokenOK, From, At
  <2>4. AheadOK'
    BY <1>2, <1>3, <1>8, <2>1 DEF AheadOK, From, Active, At
  <2> QED
    BY <2>2, <2>3, <2>4
<1>9. CASE From(p, "putinfo", "cachedir") /\ g.failed
            /\ cut' = cut \cup {c} /\ UNCHANGED <<info, cache>>
  <2>1. Registered' /\ OpenOK'
    BY <1>2, <1>4, <1>9 DEF Registered, OpenOK, From
  <2>2. BrokenOK'
    BY <1>2, <1>9 DEF BrokenOK, From, At
  <2>3. AheadOK'
    BY <1>2, <1>3, <1>9 DEF AheadOK, From, Active, At
  <2> QED
    BY <2>1, <2>2, <2>3
<1>10. CASE \/ From(p, "cachedir", "cache") \/ From(p, "cachedir", "mkcache")
            \/ From(p, "mkcache", "cache")
  <2>1. Hidden
    BY <1>10, Outcome5 DEF From
  <2>2. Registered' /\ OpenOK'
    BY <1>2, <1>4, <1>10, <2>1 DEF Registered, OpenOK, From
  <2>3. BrokenOK'
    BY <1>2, <1>10, <2>1 DEF BrokenOK, From, At
  <2>4. AheadOK'
    BY <1>1, <1>2, <1>10, <2>1 DEF AheadOK, From, Active, At
  <2> QED
    BY <2>2, <2>3, <2>4
<1>11. CASE From(p, "cache", "start") /\ cache[c] # "absent" /\ Hidden
  <2>1. cache[c] = "whole" \/ c \in cut \/ ~h.alone
    <3>1. cache[c] \in {"absent", "broken", "whole"}
      BY <1>1 DEF TypeOK, States
    <3>2. cache[c] = "broken" => c \in cut \/ ~h.alone
      <4>1. ASSUME NEW q \in Processes, At(q, "putcache") PROVE ~h.alone
        BY <1>3, <1>11, <4>1 DEF At, Active, From
      <4> QED
        BY <1>1, <4>1 DEF BrokenOK
    <3> QED
      BY <1>11, <3>1, <3>2
  <2>2. Registered' /\ OpenOK'
    BY <1>2, <1>4, <1>11 DEF Registered, OpenOK, From
  <2>3. BrokenOK'
    BY <1>2, <1>11 DEF BrokenOK, From, At
  <2>4. AheadOK'
    BY <1>1, <1>2, <1>11, <2>1 DEF AheadOK, From, Active, At
  <2> QED
    BY <2>2, <2>3, <2>4
<1>12. CASE From(p, "cache", "opencache") /\ cache[c] = "absent" /\ Hidden
  <2>1. c \notin registered
    BY <1>1, <1>12 DEF Registered
  <2>2. Registered' /\ OpenOK'
    BY <1>2, <1>4, <1>12, <2>1 DEF Registered, OpenOK, From
  <2>3. BrokenOK'
    BY <1>2, <1>12 DEF BrokenOK, From, At
  <2>4. AheadOK'
    BY <1>1, <1>2, <1>12 DEF AheadOK, From, Active, At
  <2> QED
    BY <2>2, <2>3, <2>4
<1>13. CASE From(p, "opencache", "putcache")
            /\ cache' = [cache EXCEPT ![c] = "broken"] /\ UNCHANGED <<info, cut>>
  <2>1. c \notin registered
    BY <1>13 DEF OpenOK, From
  <2>2. /\ cache'[c] = "broken"
        /\ \A d \in Controllers \ {c} : cache'[d] = cache[d]
    BY <1>1, <1>13 DEF TypeOK
  <2>3. Registered' /\ OpenOK'
    BY <1>2, <1>4, <1>13, <2>1, <2>2 DEF Registered, OpenOK, From, TypeOK
  <2>4. BrokenOK'
    BY <1>2, <1>13, <2>2 DEF BrokenOK, From, At
  <2>5. AheadOK'
    BY <1>1, <1>2, <1>3, <1>13 DEF AheadOK, From, Active, At
  <2> QED
    BY <2>3, <2>4, <2>5
<1>14. CASE From(p, "opencache", "start") /\ g.failed /\ Hidden
  <2>1. Registered' /\ OpenOK'
    BY <1>2, <1>4, <1>14 DEF Registered, OpenOK, From
  <2>2. BrokenOK'
    BY <1>2, <1>14 DEF BrokenOK, From, At
  <2>3. AheadOK'
    BY <1>2, <1>14 DEF AheadOK, From, Active, At
  <2> QED
    BY <2>1, <2>2, <2>3
<1>15. CASE From(p, "putcache", "start")
            /\ cache' = [cache EXCEPT ![c] = "whole"] /\ UNCHANGED <<info, cut>>
  <2>1. /\ cache'[c] = "whole"
        /\ \A d \in Controllers \ {c} : cache'[d] = cache[d]
    BY <1>1, <1>15 DEF TypeOK
  <2>2. Registered' /\ OpenOK'
    BY <1>2, <1>4, <1>15, <2>1 DEF Registered, OpenOK, From, TypeOK
  <2>3. BrokenOK'
    BY <1>2, <1>15, <2>1 DEF BrokenOK, From, At
  <2>4. AheadOK'
    BY <1>1, <1>2, <1>3, <1>15, <2>1 DEF AheadOK, From, Active, At
  <2> QED
    BY <2>2, <2>3, <2>4
<1>16. CASE From(p, "putcache", "start") /\ g.failed
             /\ cut' = cut \cup {c} /\ UNCHANGED <<info, cache>>
  <2>1. Registered' /\ OpenOK'
    BY <1>2, <1>4, <1>16 DEF Registered, OpenOK, From
  <2>2. BrokenOK'
    BY <1>2, <1>16 DEF BrokenOK, From, At
  <2>3. AheadOK'
    BY <1>2, <1>3, <1>16 DEF AheadOK, From, Active, At
  <2> QED
    BY <2>1, <2>2, <2>3
<1> QED
  BY <1>5, <1>6, <1>7, <1>8, <1>9, <1>10, <1>11, <1>12, <1>13, <1>14, <1>15,
     <1>16, Outcome5

LEMMA StepReg ==
  TypeOK /\ QuietInv /\ RegInv /\ [Next]_vars => RegInv'
<1> SUFFICES ASSUME TypeOK, QuietInv, RegInv, [Next]_vars PROVE RegInv'
  OBVIOUS
<1>1. UNCHANGED bluez /\ TypeOK' /\ CourseOK /\ AloneOK
  BY BluezKept, StepTyped DEF QuietInv
<1>2. ASSUME NEW p \in Processes, Pair(p) PROVE RegInv'
  <2>1. UNCHANGED <<info, cache, cut, registered>>
    BY <1>2 DEF Pair, disk, hidden
  <2>2. Harmless(p)
    <3>1. ~Active(p) /\ proc'[p].pc \in {"check", "info"}
      BY <1>2, Begins
    <3> QED
      BY <3>1 DEF Harmless, Promised, Active, At
  <2>3. ASSUME NEW q \in Processes \ {p}, Active(q)
        PROVE  Stays(q)
    <3>1. proc'[q] = [proc[q] EXCEPT !.alone = FALSE] /\ proc[q] \in Process
      BY <1>2, <2>3, Begins, Forms
    <3>2. /\ proc'[q].pc = proc[q].pc /\ proc'[q].c = proc[q].c
          /\ proc'[q].failed = proc[q].failed /\ ~proc'[q].alone
      BY <3>1, Joined
    <3> QED
      BY <3>2 DEF Stays
  <2>4. ASSUME NEW q \in Processes \ {p}, ~Active(q)
        PROVE  Harmless(q)
    BY <1>2, <2>4, Begins DEF Harmless, Promised, Active, At
  <2> QED
    BY <1>1, <2>1, <2>2, <2>3, <2>4, Undisturbed
<1>3. ASSUME NEW p \in Processes, Step(p) \/ Crash(p)
      PROVE  \A q \in Processes \ {p} : (Active(q) /\ Stays(q)) \/ Harmless(q)
  BY <1>3, OthersKept DEF Stays, Harmless, Active, At, Promised
<1>4. ASSUME NEW p \in Processes, Step4(p) PROVE RegInv'
  <2>1. proc[p].pc \in Pairing4 /\ Active(p)
    BY <1>4 DEF Step4, CheckEntry, StopBluetoothd, ReadEntries, OpenEntries,
                WriteEntries, At, Active, Pairing4
  <2>2. bluez = 4
    BY <1>1, <2>1 DEF CourseOK, TypeOK, Pairing4, Pairing5
  <2>3. UNCHANGED <<info, cache, cut, registered>>
    BY <1>4, <2>2 DEF Step4, CheckEntry, StopBluetoothd, ReadEntries,
       OpenEntries, WriteEntries, Provided, disk, hidden
  <2>4. proc'[p].pc \notin {"opencache", "putcache"}
    <3>1. CASE proc'[p] = NoProcess
      BY <3>1 DEF NoProcess
    <3>2. CASE proc'[p] # NoProcess
      <4>1. Follows(proc[p], proc'[p])
        BY <1>4, <3>2, Course DEF Step
      <4> QED
        BY <2>1, <4>1 DEF Follows, Pairing4
    <3> QED
      BY <3>1, <3>2
  <2>5. Harmless(p)
    BY <2>1, <2>2, <2>4 DEF Harmless, Pairing4
  <2> QED
    BY <1>1, <1>3, <1>4, <2>3, <2>5, Undisturbed DEF Step
<1>5. ASSUME NEW p \in Processes, Step5(p), proc'[p] = NoProcess PROVE RegInv'
  <2> DEFINE h == proc[p]
  <2>1. ASSUME NEW g, Move(p, g) PROVE g = NoProcess
    BY <1>5, <2>1, Moved
  <2>2. h \in Process
    BY <1>5, Forms DEF Step5, Info, MakeInfoDir, PutInfo, CacheDir,
         MakeCacheDir, Cache, OpenCache, PutCache, At, Active
  <2>3. \A pc \in Pairing5 \cup {"start"} :
          /\ [h EXCEPT !.pc = pc] # NoProcess
          /\ [h EXCEPT !.pc = pc, !.failed = TRUE] # NoProcess
          /\ \A ok \in BOOLEAN : StopsAt(h, ok, pc) # NoProcess
    <3> SUFFICES ASSUME NEW pc \in Pairing5 \cup {"start"}
                 PROVE  /\ [h EXCEPT !.pc = pc] # NoProcess
                        /\ [h EXCEPT !.pc = pc, !.failed = TRUE] # NoProcess
                        /\ \A ok \in BOOLEAN : StopsAt(h, ok, pc) # NoProcess
      OBVIOUS
    <3>1. pc # "idle" /\ pc \in Pcs
      BY DEF Pairing5, Pcs
    <3>2. /\ [h EXCEPT !.pc = pc].pc = pc
          /\ [h EXCEPT !.pc = pc, !.failed = TRUE].pc = pc
      BY <2>2 DEF Process
    <3>3. \A ok \in BOOLEAN : StopsAt(h, ok, pc).pc = pc
      BY <2>2, <3>1, AfterStopForm
    <3>4. NoProcess.pc = "idle"
      BY DEF NoProcess
    <3> QED
      BY <3>1, <3>2, <3>3, <3>4, Zenon
  <2>4. ~(Info(p) \/ PutInfo(p) \/ CacheDir(p) \/ Cache(p) \/ OpenCache(p)
             \/ PutCache(p))
    BY <2>1, <2>3 DEF Info, PutInfo, CacheDir, Cache, OpenCache,
       PutCache, AfterKnown, StopsAt, Pairing5
  <2>5. CASE MakeInfoDir(p)
    <3>1. UNCHANGED <<info, cache, cut, registered>> /\ h.pc = "mkinfo"
      BY <2>1, <2>3, <2>5 DEF MakeInfoDir, At, Pairing5
    <3>2. Harmless(p)
      BY <1>5, <3>1 DEF Harmless, Promised, NoProcess
    <3> QED
      BY <1>1, <1>3, <1>5, <3>1, <3>2, Undisturbed DEF Step
  <2>6. CASE MakeCacheDir(p)
    <3>1. UNCHANGED <<info, cache, cut, registered>> /\ h.pc = "mkcache"
      BY <2>6 DEF MakeCacheDir, At
    <3>2. Harmless(p)
      BY <1>5, <3>1 DEF Harmless, Promised, NoProcess
    <3> QED
      BY <1>1, <1>3, <1>5, <3>1, <3>2, Undisturbed DEF Step
  <2> QED
    BY <1>5, <2>4, <2>5, <2>6 DEF Step5
<1>6. ASSUME NEW p \in Processes, StartBluetoothd(p) PROVE RegInv'
  <2> DEFINE h == proc[p]
  <2>1. h \in Process /\ Active(p) /\ h.pc = "start" /\ h.c \in Controllers
    BY <1>6, Forms DEF StartBluetoothd, At, Active, Process
  <2>2. proc'[p] = NoProcess /\ \A q \in Processes \ {p} : proc'[q] = proc[q]
    BY <1>6, Moved DEF StartBluetoothd
  <2>3. UNCHANGED <<info, cache, cut>>
    BY <1>6 DEF StartBluetoothd, disk
  <2>4. \/ UNCHANGED registered
        \/ /\ registered' = registered \cup ({h.c} \ cut)
           /\ bluez = 5 /\ h.alone /\ ~h.failed
    BY <1>6 DEF StartBluetoothd, Provided, TypeOK
  <2>5. BrokenOK'
    BY <2>1, <2>2, <2>3 DEF RegInv, BrokenOK, At
  <2>6. AheadOK'
    BY <1>1, <2>2, <2>3 DEF RegInv, AheadOK, Active, At, NoProcess
  <2>7. CASE UNCHANGED registered
    <3>1. Registered' /\ OpenOK'
      BY <2>2, <2>3, <2>7 DEF RegInv, Registered, OpenOK, NoProcess
    <3> QED
      BY <2>5, <2>6, <3>1 DEF RegInv
  <2>8. CASE /\ registered' = registered \cup ({h.c} \ cut)
             /\ bluez = 5 /\ h.alone /\ ~h.failed
    <3>1. h.c \notin cut => info[h.c] = "whole" /\ cache[h.c] = "whole"
      BY <2>1, <2>8 DEF RegInv, AheadOK
    <3>2. Registered'
      BY <2>3, <2>8, <3>1 DEF RegInv, Registered
    <3>3. \A q \in Processes \ {p} : ~Active(q)
      BY <1>1, <2>1, <2>8 DEF AloneOK
    <3>4. OpenOK'
      BY <2>2, <3>3 DEF OpenOK, NoProcess, Active, At
    <3> QED
      BY <2>5, <2>6, <3>2, <3>4 DEF RegInv
  <2> QED
    BY <2>4, <2>7, <2>8
<1>7. ASSUME NEW p \in Processes, Crash(p) PROVE RegInv'
  <2> DEFINE h == proc[p]
  <2>1. h \in Process /\ Active(p) /\ h.c \in Controllers
    BY <1>7, Forms DEF Crash, Process
  <2>2. proc'[p] = NoProcess /\ \A q \in Processes \ {p} : proc'[q] = proc[q]
    BY <1>7, Moved DEF Crash
  <2>3. UNCHANGED <<info, cache, registered>>
    BY <1>7 DEF Crash, disk
  <2>4. cut \subseteq cut' /\ (h.pc \in {"putinfo", "putcache"} => h.c \in cut')
    BY <1>7 DEF Crash
  <2>5. Registered' /\ OpenOK'
    BY <2>2, <2>3 DEF RegInv, Registered, OpenOK, NoProcess
  <2>6. BrokenOK'
    BY <2>2, <2>3, <2>4 DEF RegInv, BrokenOK, At
  <2>7. AheadOK'
    BY <1>1, <2>2, <2>3, <2>4 DEF RegInv, AheadOK, Active, At, NoProcess
  <2> QED
    BY <2>5, <2>6, <2>7 DEF RegInv
<1>8. ASSUME Bluetoothd PROVE RegInv'
  <2>1. UNCHANGED <<info, cache, cut, registered>>
    BY <1>8 DEF Bluetoothd
  <2>2. \A q \in Processes : (Active(q) /\ Stays(q)) \/ Harmless(q)
    BY <1>8, Disturbed DEF Stays, Harmless, Promised, Active, At
  <2> QED
    BY <1>1, <2>1, <2>2, Undisturbed
<1>9. ASSUME UNCHANGED vars PROVE RegInv'
  <2>1. UNCHANGED <<proc, info, cache, cut, registered>>
    BY <1>9 DEF vars, disk, hidden
  <2>2. \A q \in Processes : (Active(q) /\ Stays(q)) \/ Harmless(q)
    BY <2>1 DEF Stays, Harmless, Promised, Active, At
  <2> QED
    BY <1>1, <2>1, <2>2, Undisturbed
<1>10. ASSUME NEW p \in Processes, Step5(p), proc'[p] # NoProcess PROVE RegInv'
  BY <1>1, <1>10, Step5Reg
<1> QED
  BY <1>2, <1>4, <1>5, <1>6, <1>7, <1>8, <1>9, <1>10 DEF Next, Step

\* A pairing without failures has registered the controller.
THEOREM RegisteredHolds == Spec => []Registered
<1>1. Init => TypeOK /\ QuietInv /\ RegInv
  BY InitTyped, InitQuiet, InitReg
<1>2. (TypeOK /\ QuietInv /\ RegInv) /\ [Next]_vars
        => (TypeOK /\ QuietInv /\ RegInv)'
  BY StepTyped, StepQuiet, StepReg
<1>3. RegInv => Registered
  BY DEF RegInv
<1> QED
  BY <1>1, <1>2, <1>3, PTL DEF Spec

-----------------------------------------------------------------------------
(* Bluez 4: which lines stay.                                               *)

UniqueOK ==
  /\ \A f \in 1 .. Files : Unique(file[f])
  /\ \A p \in Processes : proc[p].pc \in {"open", "write"} =>
       Unique(proc[p].list) /\ In(proc[p].list, GoodLine(proc[p].c))

\* The list of a process that is alone is not older than its file.
ListOK ==
  \A p \in Processes : proc[p].pc \in {"open", "write"} /\ proc[p].alone =>
    \A x \in kept : x[1] = proc[p].i /\ x[2].addr # proc[p].c
                      => In(proc[p].list, x[2])

\* The files that a pairing has done have a good line.
Has(f, c) == In(file[f], GoodLine(c))
Doing(h) == \/ h.pc = "check" /\ ~h.errors
            \/ h.pc \in {"read", "open", "write"}
DoneOK ==
  \A p \in Processes :
    bluez = 4 /\ Active(p) /\ proc[p].alone /\ ~proc[p].failed =>
      /\ Doing(proc[p])
           => \A f \in 1 .. Files : f < proc[p].i => Has(f, proc[p].c)
      /\ proc[p].pc = "start" => \A f \in 1 .. Files : Has(f, proc[p].c)

KeptOK ==
  \A x \in kept :
    In(file[x[1]], x[2]) \/ \E p \in Processes : Writing(p, x[1])

LineInv == UniqueOK /\ ListOK /\ DoneOK /\ KeptOK

LEMMA LinesStay == TypeOK /\ LineInv => LinesKept
<1> SUFFICES ASSUME TypeOK, LineInv, NEW x \in kept
             PROVE  \/ Says(file[x[1]], x[2])
                    \/ \E p \in Processes : Writing(p, x[1])
  BY DEF LinesKept
<1>1. x[1] \in 1 .. Files /\ file[x[1]] \in Seq(Line) /\ Unique(file[x[1]])
  BY DEF TypeOK, LineInv, UniqueOK
<1>2. In(file[x[1]], x[2]) => Says(file[x[1]], x[2])
  BY <1>1, SaysIn
<1> QED
  BY <1>2 DEF LineInv, KeptOK

LEMMA InitLines == Init => LineInv
<1> SUFFICES ASSUME Init PROVE LineInv
  OBVIOUS
<1>1. \A p \in Processes : proc[p].pc = "idle"
  BY DEF Init, NoProcess
<1>2. PICK a \in Addresses, e \in Entries \ {Good} :
        LET other == [addr |-> Device, entry |-> e]
            old == [addr |-> a, entry |-> e] IN
        /\ file = [f \in 1 .. Files |->
             IF bluez = 5 \/ f = Files THEN <<>>
             ELSE IF a = Device THEN <<other>> ELSE <<other, old>>]
        /\ kept = {x \in (1 .. Files) \X Line : Says(file[x[1]], x[2])}
  BY DEF Init
<1> DEFINE other == [addr |-> Device, entry |-> e]
           old == [addr |-> a, entry |-> e]
<1>3. Unique(<<>>) /\ Unique(<<other>>)
  BY DEF Unique
<1>4. a # Device => Unique(<<other, old>>)
  <2>1. other.addr = Device /\ old.addr = a
    OBVIOUS
  <2> HIDE DEF other, old
  <2> QED
    BY <2>1 DEF Unique
<1> HIDE DEF other, old
<1>5. \A f \in 1 .. Files : Unique(file[f])
  BY <1>2, <1>3, <1>4 DEF other, old
<1>6. UniqueOK
  BY <1>1, <1>5 DEF UniqueOK
<1>7. KeptOK
  BY <1>2 DEF KeptOK, Says, In
<1>8. ListOK /\ DoneOK
  BY <1>1 DEF ListOK, DoneOK, Active, At
<1> QED
  BY <1>6, <1>7, <1>8 DEF LineInv

\* A process that stays where it is, or that goes where nothing is promised.
Rests(q) ==
  /\ proc'[q].pc = proc[q].pc /\ proc'[q].c = proc[q].c
  /\ proc'[q].i = proc[q].i /\ proc'[q].list = proc[q].list
  /\ proc'[q].errors = proc[q].errors
  /\ proc'[q].alone => proc[q].alone
  /\ proc[q].failed => proc'[q].failed
Idles(q) ==
  /\ proc[q].pc # "write" /\ proc'[q].pc \notin {"open", "write"}
  /\ \/ bluez = 5
     \/ proc'[q].pc \in {"idle", "stop"}
     \/ proc'[q].pc \in {"check", "read"} /\ proc'[q].i = 1

LEMMA Unstirred ==
  ASSUME TypeOK, LineInv, UNCHANGED <<bluez, file>>, kept' \subseteq kept,
         \A q \in Processes : (Active(q) /\ Rests(q)) \/ Idles(q)
  PROVE  LineInv'
<1> USE DEF LineInv
<1>1. UniqueOK'
  BY DEF UniqueOK, Rests, Idles
<1>2. ListOK'
  BY DEF ListOK, Rests, Idles
<1>3. DoneOK'
  <2> SUFFICES ASSUME NEW q \in Processes, bluez = 4, Active(q)',
                      proc'[q].alone, ~proc'[q].failed
               PROVE  /\ Doing(proc'[q]) =>
                           \A f \in 1 .. Files :
                             f < proc'[q].i => Has(f, proc'[q].c)
                      /\ proc'[q].pc = "start" =>
                           \A f \in 1 .. Files : Has(f, proc'[q].c)
    BY DEF DoneOK, Has
  <2>1. CASE Active(q) /\ Rests(q)
    <3>1. proc[q].alone /\ ~proc[q].failed
      BY <2>1 DEF Rests
    <3>2. /\ Doing(proc[q])
               => \A f \in 1 .. Files : f < proc[q].i => Has(f, proc[q].c)
          /\ proc[q].pc = "start" => \A f \in 1 .. Files : Has(f, proc[q].c)
      BY <2>1, <3>1 DEF DoneOK
    <3>3. Doing(proc'[q]) => Doing(proc[q])
      BY <2>1 DEF Rests, Doing
    <3> QED
      BY <2>1, <3>2, <3>3 DEF Rests
  <2>2. CASE Idles(q)
    BY <2>2 DEF Idles, Doing
  <2> QED
    BY <2>1, <2>2
<1>4. KeptOK'
  BY DEF KeptOK, Rests, Idles, Writing, At
<1> QED
  BY <1>1, <1>2, <1>3, <1>4

\* What a pairing provides for is in the files.
LEMMA Provides ==
  ASSUME TypeOK, AloneOK, LineInv, NEW p \in Processes, Active(p),
         bluez = 4, UNCHANGED <<bluez, file>>, Provided(proc[p]),
         Move(p, NoProcess), proc[p].pc # "write",
         proc[p].alone /\ ~proc[p].failed =>
           \A f \in 1 .. Files : Has(f, proc[p].c)
  PROVE  LineInv'
<1> DEFINE h == proc[p]
<1>1. proc'[p] = NoProcess /\ \A q \in Processes \ {p} : proc'[q] = proc[q]
  BY Moved
<1>2. CASE h.failed \/ ~h.alone
  <2>1. kept' \subseteq kept
    BY <1>2 DEF Provided
  <2>2. \A q \in Processes : (Active(q) /\ Rests(q)) \/ Idles(q)
    BY <1>1 DEF Rests, Idles, Active, At, NoProcess
  <2> QED
    BY <2>1, <2>2, Unstirred
<1>3. CASE ~(h.failed \/ ~h.alone)
  <2>1. \A q \in Processes : ~Active(q)'
    BY <1>1, <1>3 DEF AloneOK, Active, At, NoProcess
  <2>2. kept' = {x \in kept : x[2].addr # h.c}
                  \cup {<<f, GoodLine(h.c)>> : f \in 1 .. Files}
    BY <1>3 DEF Provided
  <2>4. KeptOK'
    <3>1. \A x \in kept, q \in Processes : Writing(q, x[1]) => q # p
      BY DEF Writing, At
    <3>2. \A q \in Processes \ {p} : ~Active(q)
      BY <1>3 DEF AloneOK
    <3>3. \A x \in kept : In(file[x[1]], x[2])
      BY <3>1, <3>2 DEF LineInv, KeptOK, Writing, At, Active
    <3>4. \A f \in 1 .. Files : In(file[f], GoodLine(h.c))
      BY <1>3 DEF Has
    <3>5. \A x \in kept' : In(file[x[1]], x[2])
      BY <2>2, <3>3, <3>4
    <3> QED
      BY <3>5 DEF KeptOK
  <2>5. UniqueOK' /\ ListOK' /\ DoneOK'
    BY <2>1 DEF LineInv, UniqueOK, ListOK, DoneOK, Active, At
  <2> QED
    BY <2>4, <2>5 DEF LineInv
<1> QED
  BY <1>2, <1>3

\* Going on to the next file, or to the end, with the ones before done.
LEMMA GoesOn ==
  ASSUME NEW h \in Process, NEW g, g = AfterFile(h)
  PROVE  /\ Same(h, g) /\ g.pc \in {"read", "start"}
         /\ g.pc = "read" => \A f \in 1 .. Files : f < g.i => f <= h.i
         /\ g.pc = "start" => \A f \in 1 .. Files : f <= h.i
<1>1. h.i \in 1 .. Files
  BY DEF Process
<1> QED
  BY <1>1, AfterFileForm, PairingAssumption

LEMMA Bluez4Only ==
  ASSUME TypeOK, CourseOK, NEW p \in Processes, Step4(p)
  PROVE  bluez = 4 /\ Active(p) /\ proc[p] \in Process
<1>1. proc[p].pc \in Pairing4 /\ Active(p)
  BY DEF Step4, CheckEntry, StopBluetoothd, ReadEntries, OpenEntries,
         WriteEntries, At, Active, Pairing4
<1> QED
  BY <1>1, Forms DEF CourseOK, TypeOK, Pairing4, Pairing5

LEMMA CheckLines ==
  ASSUME TypeOK, CourseOK, AloneOK, LineInv, NEW p \in Processes,
         CheckEntry(p), UNCHANGED bluez
  PROVE  LineInv'
<1> DEFINE h == proc[p]
<1>0. PICK ok \in BOOLEAN : CheckedAs(p, ok)
  BY Checked
<1> DEFINE errors == h.errors \/ Wants(h.i, h.c, ok)
<1>1. bluez = 4 /\ Active(p) /\ h \in Process /\ h.pc = "check"
      /\ UNCHANGED file
  BY Bluez4Only DEF Step4, CheckEntry, At, disk
<1>2. \A q \in Processes \ {p} : (Active(q) /\ Rests(q)) \/ Idles(q)
  BY OthersKept DEF Step, Step4, Rests, Idles, Active, At
<1>3. h.i \in 1 .. Files /\ h.c \in Controllers
  BY <1>1 DEF Process
<1>4. ~Wants(h.i, h.c, ok) => Has(h.i, h.c)
  <2>1. ASSUME ~Wants(h.i, h.c, ok) PROVE ok
    BY <1>3, <2>1, Misread
  <2>2. ~Wants(h.i, h.c, TRUE) => Has(h.i, h.c)
    BY <1>3, ChangedKeeps DEF Has
  <2> QED
    BY <2>1, <2>2
<1>5. h.alone /\ ~h.failed /\ ~errors
        => \A f \in 1 .. Files : f <= h.i => Has(f, h.c)
  <2> SUFFICES ASSUME h.alone, ~h.failed, ~errors, NEW f \in 1 .. Files, f <= h.i
               PROVE  Has(f, h.c)
    OBVIOUS
  <2>1. ~h.errors /\ ~Wants(h.i, h.c, ok)
    OBVIOUS
  <2>2. f < h.i => Has(f, h.c)
    BY <1>1, <2>1 DEF LineInv, DoneOK, Doing
  <2> QED
    BY <1>3, <1>4, <2>1, <2>2
<1>6. errors \in BOOLEAN
  OBVIOUS
<1> HIDE DEF errors
<1>7. CASE h.i < Files
  <2> DEFINE g == [h EXCEPT !.i = h.i + 1, !.errors = errors]
  <2>1. proc'[p] = g /\ UNCHANGED kept
    BY <1>0, <1>7, Moved DEF CheckedAs, errors
  <2>2. /\ g.pc = "check" /\ g.c = h.c /\ g.i = h.i + 1 /\ g.errors = errors
        /\ g.alone = h.alone /\ g.failed = h.failed
    BY <1>1, <1>6 DEF Process
  <2> HIDE DEF g
  <2>3. \A q \in Processes \ {p} : proc'[q] = proc[q]
    BY OthersKept DEF Step, Step4
  <2>4. UniqueOK' /\ ListOK'
    BY <1>1, <2>1, <2>2, <2>3 DEF LineInv, UniqueOK, ListOK
  <2>5. KeptOK'
    BY <1>1, <2>1, <2>2, <2>3 DEF LineInv, KeptOK, Writing, At
  <2>6. DoneOK'
    <3> SUFFICES ASSUME h.alone, ~h.failed, ~errors, NEW f \in 1 .. Files,
                        f < h.i + 1
                 PROVE  Has(f, h.c)
      <4>1. \A f, c : Has(f, c)' <=> Has(f, c)
        BY <1>1 DEF Has
      <4>2. \A q \in Processes \ {p} : ~Active(q) \/ ~proc[q].alone
        BY <1>1 DEF AloneOK
      <4> QED
        BY <1>1, <2>1, <2>2, <2>3, <4>1, <4>2 DEF DoneOK, Doing, Active, At
    <3> QED
      BY <1>3, <1>5
  <2> QED
    BY <2>4, <2>5, <2>6 DEF LineInv
<1>8. CASE ~(h.i < Files) /\ errors
  <2> DEFINE g == [h EXCEPT !.pc = "stop", !.i = 1, !.errors = FALSE]
  <2>1. proc'[p] = g /\ UNCHANGED kept
    BY <1>0, <1>8, Moved DEF CheckedAs, errors
  <2>2. g.pc = "stop"
    BY <1>1 DEF Process
  <2> HIDE DEF g
  <2>3. Idles(p)
    BY <1>1, <2>1, <2>2 DEF Idles
  <2> QED
    BY <1>1, <1>2, <2>1, <2>3, Unstirred
<1>9. CASE ~(h.i < Files) /\ ~errors
  <2>1. Move(p, NoProcess) /\ Provided(h)
    BY <1>0, <1>9 DEF CheckedAs, errors
  <2>2. \A f \in 1 .. Files : f <= h.i
    BY <1>3, <1>9, PairingAssumption
  <2>3. h.alone /\ ~h.failed => \A f \in 1 .. Files : Has(f, h.c)
    BY <1>5, <1>9, <2>2
  <2> QED
    BY <1>1, <2>1, <2>3, Provides
<1> QED
  BY <1>7, <1>8, <1>9

\* The common part of the steps that change the files: the others do not
\* count, as they are not alone.
LEMMA NotAlone ==
  ASSUME AloneOK, NEW p \in Processes, Active(p), NEW q \in Processes \ {p}
  PROVE  Active(q) => ~proc[q].alone
BY DEF AloneOK

LEMMA ReadLines ==
  ASSUME TypeOK, CourseOK, AloneOK, LineInv, NEW p \in Processes,
         ReadEntries(p), UNCHANGED bluez
  PROVE  LineInv'
<1> DEFINE h == proc[p]
           g == proc'[p]
<1>1. bluez = 4 /\ Active(p) /\ h \in Process /\ h.pc = "read"
      /\ UNCHANGED <<file, kept>>
  BY Bluez4Only DEF Step4, ReadEntries, At, disk, hidden
<1>2. \A q \in Processes \ {p} : proc'[q] = proc[q]
  BY OthersKept DEF Step, Step4
<1>3. h.i \in 1 .. Files /\ h.c \in Controllers
  BY <1>1 DEF Process
<1>4. \A f, c : Has(f, c)' <=> Has(f, c)
  BY <1>1 DEF Has
<1>5. KeptOK'
  BY <1>1, <1>2 DEF LineInv, KeptOK, Writing, At
<1>6. ASSUME NEW l \in Seq(Line), NEW a \in BOOLEAN,
             Move(p, [h EXCEPT !.pc = "open", !.alone = a, !.list = l]),
             a => h.alone /\ l = Changed(h.i, h.c),
             In(l, GoodLine(h.c)), Unique(file[h.i]) => Unique(l)
      PROVE  LineInv'
  <2>1. g = [h EXCEPT !.pc = "open", !.alone = a, !.list = l]
    BY <1>6, Moved
  <2>2. /\ g.pc = "open" /\ g.i = h.i /\ g.c = h.c
        /\ g.list = l /\ g.alone = a /\ g.failed = h.failed
    BY <1>1, <2>1 DEF Process
  <2>3. UniqueOK'
    <3>1. Unique(l)
      BY <1>3, <1>6 DEF LineInv, UniqueOK
    <3> QED
      BY <1>1, <1>2, <1>6, <2>2, <3>1 DEF LineInv, UniqueOK
  <2>4. ListOK'
    <3>1. ASSUME h.alone, NEW x \in kept, x[1] = h.i, x[2].addr # h.c
          PROVE  In(Changed(h.i, h.c), x[2])
      <4>1. \A q \in Processes : ~Writing(q, x[1])
        BY <1>1, <3>1, NotAlone DEF AloneOK, Writing, At, Active
      <4>2. In(file[h.i], x[2])
        BY <3>1, <4>1 DEF LineInv, KeptOK
      <4>3. \A y : In(file[h.i], y) /\ y.addr # h.c => In(Changed(h.i, h.c), y)
        BY <1>3, ChangedKeeps
      <4> QED
        BY <3>1, <4>2, <4>3
    <3>2. a => h.alone /\ l = Changed(h.i, h.c)
      BY <1>6
    <3> QED
      BY <1>1, <1>2, <2>2, <3>1, <3>2 DEF LineInv, ListOK
  <2>5. DoneOK'
    <3>1. \A q \in Processes \ {p} : Active(q) => ~proc[q].alone
      BY <1>1, NotAlone
    <3> QED
      BY <1>1, <1>2, <1>4, <1>6, <2>2, <3>1
      DEF LineInv, DoneOK, Doing, Active, At
  <2> QED
    BY <1>5, <2>3, <2>4, <2>5 DEF LineInv
<1>7. CASE Move(p, AfterFile(h)) /\ ~Wants(h.i, h.c, TRUE)
  <2>1. g = AfterFile(h)
    BY <1>7, Moved
  <2>2. /\ Same(h, g) /\ g.pc \in {"read", "start"}
        /\ g.pc = "read" => \A f \in 1 .. Files : f < g.i => f <= h.i
        /\ g.pc = "start" => \A f \in 1 .. Files : f <= h.i
    BY <1>1, <2>1, GoesOn
  <2>3. UniqueOK' /\ ListOK'
    BY <1>1, <1>2, <2>2 DEF LineInv, UniqueOK, ListOK
  <2>4. DoneOK'
    <3>1. \A q \in Processes \ {p} : Active(q) => ~proc[q].alone
      BY <1>1, NotAlone
    <3>2. Has(h.i, h.c)
      BY <1>3, <1>7, ChangedKeeps DEF Has
    <3>3. h.alone /\ ~h.failed => \A f \in 1 .. Files : f <= h.i => Has(f, h.c)
      BY <1>1, <1>3, <3>2 DEF LineInv, DoneOK, Doing
    <3> QED
      BY <1>1, <1>2, <1>4, <2>2, <3>1, <3>3 DEF DoneOK, Doing, Active, At, Same
  <2> QED
    BY <1>5, <2>3, <2>4 DEF LineInv
<1> QED
  BY <1>6, <1>7, ReadOutcome

LEMMA OpenLines ==
  ASSUME TypeOK, CourseOK, AloneOK, LineInv, NEW p \in Processes,
         OpenEntries(p), UNCHANGED bluez
  PROVE  LineInv'
<1> DEFINE h == proc[p]
           g == proc'[p]
<1>1. bluez = 4 /\ Active(p) /\ h \in Process /\ h.pc = "open"
      /\ UNCHANGED kept
  BY Bluez4Only DEF Step4, OpenEntries, At, hidden
<1>2. \A q \in Processes \ {p} : proc'[q] = proc[q]
  BY OthersKept DEF Step, Step4
<1>3. h.i \in 1 .. Files /\ h.c \in Controllers
  BY <1>1 DEF Process
<1>4. \A q \in Processes \ {p} : Active(q) => ~proc[q].alone
  BY <1>1, NotAlone
<1>5. CASE file' = [file EXCEPT ![h.i] = <<>>] /\ Move(p, [h EXCEPT !.pc = "write"])
  <2>1. g = [h EXCEPT !.pc = "write"]
    BY <1>5, Moved
  <2>2. g.pc = "write" /\ Same(h, g) /\ g.i = h.i /\ g.list = h.list
    BY <1>1, <2>1 DEF Process, Same
  <2>3. /\ file'[h.i] = <<>>
        /\ \A f \in 1 .. Files : f # h.i => file'[f] = file[f]
    BY <1>3, <1>5 DEF TypeOK
  <2>4. UniqueOK'
    <3>1. Unique(<<>>)
      BY DEF Unique
    <3> QED
      BY <1>1, <1>2, <2>2, <2>3, <3>1 DEF LineInv, UniqueOK, Same
  <2>5. ListOK'
    BY <1>1, <1>2, <2>2 DEF LineInv, ListOK, Same
  <2>6. DoneOK'
    <3>1. \A f \in 1 .. Files : f < h.i => (Has(f, h.c)' <=> Has(f, h.c))
      BY <1>3, <2>2, <2>3 DEF Has, Same
    <3> QED
      BY <1>1, <1>2, <1>4, <2>2, <2>3, <3>1
      DEF LineInv, DoneOK, Doing, Active, At, Same, Has
  <2>7. KeptOK'
    <3> SUFFICES ASSUME NEW x \in kept
                 PROVE  \/ In(file'[x[1]], x[2])
                        \/ \E q \in Processes : Writing(q, x[1])'
      BY <1>1 DEF KeptOK
    <3>1. x[1] \in 1 .. Files
      BY DEF TypeOK
    <3>2. CASE x[1] = h.i
      BY <2>2, <3>2 DEF Writing, At
    <3>3. CASE x[1] # h.i
      BY <1>1, <1>2, <2>3, <3>1, <3>3 DEF LineInv, KeptOK, Writing, At
    <3> QED
      BY <3>2, <3>3
  <2> QED
    BY <2>4, <2>5, <2>6, <2>7 DEF LineInv
<1>6. CASE UNCHANGED file /\ Move(p, AfterFile([h EXCEPT !.failed = TRUE]))
  <2> DEFINE k == [h EXCEPT !.failed = TRUE]
  <2>1. k \in Process /\ k.failed
    BY <1>1 DEF Process
  <2>2. g = AfterFile(k)
    BY <1>6, Moved
  <2> HIDE DEF k
  <2>3. g.failed /\ g.pc \in {"read", "start"}
    BY <2>1, <2>2, GoesOn DEF Same
  <2>4. UniqueOK' /\ ListOK'
    BY <1>1, <1>2, <1>6, <2>3 DEF LineInv, UniqueOK, ListOK
  <2>5. DoneOK'
    BY <1>2, <1>4, <2>3 DEF DoneOK, Doing, Active, At
  <2>6. KeptOK'
    BY <1>1, <1>2, <1>6 DEF LineInv, KeptOK, Writing, At
  <2> QED
    BY <2>4, <2>5, <2>6 DEF LineInv
<1> QED
  BY <1>5, <1>6 DEF OpenEntries

LEMMA WriteLines ==
  ASSUME TypeOK, CourseOK, AloneOK, LineInv, NEW p \in Processes,
         WriteEntries(p), UNCHANGED bluez
  PROVE  LineInv'
<1> DEFINE h == proc[p]
           g == proc'[p]
<1>1. bluez = 4 /\ Active(p) /\ h \in Process /\ h.pc = "write"
  BY Bluez4Only DEF Step4, WriteEntries, At
<1>2. \A q \in Processes \ {p} : proc'[q] = proc[q]
  BY OthersKept DEF Step, Step4
<1>3. h.i \in 1 .. Files /\ h.c \in Controllers
  BY <1>1 DEF Process
<1>4. \A q \in Processes \ {p} : Active(q) => ~proc[q].alone
  BY <1>1, NotAlone
<1>5. PICK l \in Seq(Line), k \in Process :
        /\ file' = [file EXCEPT ![h.i] = l]
        /\ Unique(h.list) => Unique(l)
        /\ Move(p, AfterFile(k))
        /\ \/ k = h /\ l = h.list
              /\ kept' = {x \in kept : x[1] = h.i =>
                            \/ h.alone /\ x[2].addr # h.c
                            \/ Says(l, x[2])}
           \/ k = [h EXCEPT !.failed = TRUE]
              /\ kept' = {x \in kept : x[1] = h.i => Says(l, x[2])}
  BY WriteOutcome
<1>6. /\ file'[h.i] = l
      /\ \A f \in 1 .. Files : f # h.i => file'[f] = file[f]
  BY <1>3, <1>5 DEF TypeOK
<1>7. k.i = h.i /\ k.c = h.c /\ k.alone = h.alone
      /\ (~k.failed => ~h.failed /\ l = h.list)
  BY <1>1, <1>5 DEF Process
<1>8. /\ Same(k, g) /\ g.pc \in {"read", "start"}
      /\ g.pc = "read" => \A f \in 1 .. Files : f < g.i => f <= h.i
      /\ g.pc = "start" => \A f \in 1 .. Files : f <= h.i
  <2>1. g = AfterFile(k)
    BY <1>5, Moved
  <2> QED
    BY <1>7, <2>1, GoesOn
<1>9. UniqueOK'
  BY <1>1, <1>2, <1>5, <1>6, <1>8 DEF LineInv, UniqueOK
<1>10. ListOK'
  BY <1>2, <1>4, <1>8 DEF ListOK, Active, At
<1>11. DoneOK'
  <2>1. ~k.failed => In(file'[h.i], GoodLine(h.c))
    BY <1>1, <1>6, <1>7 DEF LineInv, UniqueOK
  <2>2. \A f \in 1 .. Files :
          f # h.i => (In(file'[f], GoodLine(h.c)) <=> Has(f, h.c))
    BY <1>6 DEF Has
  <2>3. h.alone /\ ~h.failed => \A f \in 1 .. Files : f < h.i => Has(f, h.c)
    BY <1>1 DEF LineInv, DoneOK, Doing
  <2>4. h.alone /\ ~k.failed =>
          \A f \in 1 .. Files : f <= h.i => In(file'[f], GoodLine(h.c))
    BY <1>3, <1>7, <2>1, <2>2, <2>3
  <2> QED
    BY <1>1, <1>2, <1>4, <1>7, <1>8, <2>4 DEF DoneOK, Doing, Active, At, Same, Has
<1>12. KeptOK'
  <2> SUFFICES ASSUME NEW x \in kept'
               PROVE  \/ In(file'[x[1]], x[2])
                      \/ \E q \in Processes : Writing(q, x[1])'
    BY DEF KeptOK
  <2>1. /\ x \in kept /\ x[1] \in 1 .. Files
        /\ x[1] = h.i => \/ l = h.list /\ h.alone /\ x[2].addr # h.c
                         \/ Says(l, x[2])
    BY <1>5 DEF TypeOK
  <2>2. CASE x[1] = h.i
    <3>1. In(l, x[2])
      BY <1>1, <2>1, <2>2 DEF LineInv, ListOK, Says, In
    <3> QED
      BY <1>6, <2>2, <3>1
  <2>3. CASE x[1] # h.i
    BY <1>2, <1>6, <2>1, <2>3 DEF LineInv, KeptOK, Writing, At
  <2> QED
    BY <2>2, <2>3
<1> QED
  BY <1>9, <1>10, <1>11, <1>12 DEF LineInv

LEMMA CrashLines ==
  ASSUME TypeOK, AloneOK, LineInv, NEW p \in Processes,
         Crash(p), UNCHANGED bluez
  PROVE  LineInv'
<1> DEFINE h == proc[p]
<1>1. /\ Active(p) /\ UNCHANGED file /\ proc'[p] = NoProcess
      /\ kept' = {x \in kept : ~Writing(p, x[1])}
  BY Moved DEF Crash, disk
<1>2. \A q \in Processes \ {p} : proc'[q] = proc[q]
  BY OthersKept
<1>3. \A q \in Processes \ {p} : Active(q) => ~proc[q].alone
  BY <1>1, NotAlone
<1>4. UniqueOK'
  BY <1>1, <1>2 DEF LineInv, UniqueOK, NoProcess
<1>5. ListOK' /\ DoneOK'
  BY <1>1, <1>2, <1>3 DEF ListOK, DoneOK, Active, At, NoProcess
<1>6. KeptOK'
  BY <1>1, <1>2 DEF LineInv, KeptOK, Writing, At
<1> QED
  BY <1>4, <1>5, <1>6 DEF LineInv

LEMMA BluetoothdLines ==
  ASSUME TypeOK, QuietInv, LineInv, Bluetoothd, UNCHANGED bluez
  PROVE  LineInv'
<1>1. PICK f \in 1 .. Files, x \in Line :
        /\ file' = [file EXCEPT ![f] = SetLine(@, x)]
        /\ kept' = {y \in kept : y[1] = f => y[2].addr # x.addr} \cup {<<f, x>>}
        /\ proc' = [p \in Processes |->
             IF At(p, "check") /\ proc[p].c = x.addr
             THEN [proc[p] EXCEPT !.failed = TRUE] ELSE proc[p]]
  BY DEF Bluetoothd
<1>2. running
  BY DEF Bluetoothd
<1>3. \A p \in Processes : Active(p) /\ proc[p].alone => ~proc[p].stopped
  BY <1>2 DEF QuietInv, QuietOK
<1>4. /\ SetLine(file[f], x) \in Seq(Line)
      /\ In(SetLine(file[f], x), x)
      /\ Unique(file[f]) => Unique(SetLine(file[f], x))
      /\ \A y : In(file[f], y) /\ y.addr # x.addr => In(SetLine(file[f], x), y)
  BY SetLineKeeps DEF TypeOK
<1>5. /\ file'[f] = SetLine(file[f], x)
      /\ \A e \in 1 .. Files : e # f => file'[e] = file[e]
  BY <1>1 DEF TypeOK
<1>6. \A p \in Processes :
        /\ Active(p) <=> Active(p)'
        /\ ~Active(p) => proc'[p] = proc[p]
        /\ Active(p) => /\ proc'[p].pc = proc[p].pc /\ proc'[p].c = proc[p].c
                        /\ proc'[p].i = proc[p].i /\ proc'[p].list = proc[p].list
                        /\ proc'[p].errors = proc[p].errors
                        /\ proc'[p].alone = proc[p].alone
                        /\ proc[p].failed => proc'[p].failed
  BY Disturbed
<1>7. \A p \in Processes : proc'[p].pc = proc[p].pc
  BY <1>6
<1>8. UniqueOK'
  BY <1>4, <1>5, <1>6 DEF LineInv, UniqueOK, Active, At
<1>9. ListOK'
  <2> SUFFICES ASSUME NEW p \in Processes, proc'[p].pc \in {"open", "write"},
                      proc'[p].alone
               PROVE  FALSE
    BY DEF ListOK
  <2>1. Active(p) /\ proc[p].pc \in Stopping /\ proc[p].alone
    BY <1>6, <1>7 DEF Active, At, Stopping
  <2> QED
    BY <1>3, <2>1 DEF QuietInv, CourseOK
<1>10. DoneOK'
  <2> SUFFICES ASSUME NEW p \in Processes, bluez = 4, Active(p)',
                      proc'[p].alone, ~proc'[p].failed
               PROVE  /\ Doing(proc'[p]) =>
                           \A e \in 1 .. Files :
                             e < proc'[p].i =>
                               In(file'[e], GoodLine(proc'[p].c))
                      /\ proc'[p].pc # "start"
    BY DEF DoneOK, Has
  <2>1. /\ Active(p) /\ proc[p].alone /\ ~proc[p].failed
        /\ proc'[p].pc = proc[p].pc /\ proc'[p].c = proc[p].c
        /\ proc'[p].i = proc[p].i /\ proc'[p].errors = proc[p].errors
    BY <1>6
  <2>2. proc[p].pc \notin Stopping \cup {"start"}
    BY <1>3, <2>1 DEF QuietInv, CourseOK
  <2>3. ASSUME Doing(proc'[p]), NEW e \in 1 .. Files, e < proc[p].i
        PROVE  In(file'[e], GoodLine(proc[p].c))
    <3>1. proc[p].pc = "check" /\ Doing(proc[p])
      BY <2>1, <2>2, <2>3 DEF Doing, Stopping
    <3>2. Has(e, proc[p].c)
      BY <2>1, <2>3, <3>1 DEF LineInv, DoneOK
    <3>3. proc[p].c # x.addr
      <4>1. proc[p] \in Process
        BY <2>1, Forms
      <4>2. [proc[p] EXCEPT !.failed = TRUE].failed
        BY <4>1 DEF Process
      <4> QED
        BY <1>1, <3>1, <4>2 DEF At
    <3>4. GoodLine(proc[p].c).addr = proc[p].c
      BY DEF GoodLine
    <3> QED
      BY <1>4, <1>5, <3>2, <3>3, <3>4 DEF Has
  <2> QED
    BY <2>1, <2>2, <2>3
<1>11. KeptOK'
  <2> SUFFICES ASSUME NEW y \in kept'
               PROVE  \/ In(file'[y[1]], y[2])
                      \/ \E p \in Processes : Writing(p, y[1])'
    BY DEF KeptOK
  <2>1. CASE y = <<f, x>>
    BY <1>4, <1>5, <2>1
  <2>2. CASE y # <<f, x>>
    <3>1. /\ y \in kept /\ y[1] \in 1 .. Files
          /\ y[1] = f => y[2].addr # x.addr
      BY <1>1, <2>2 DEF TypeOK
    <3>2. CASE In(file[y[1]], y[2])
      BY <1>4, <1>5, <3>1, <3>2
    <3>3. CASE \E p \in Processes : Writing(p, y[1])
      BY <1>6, <3>3 DEF Writing, At, Active
    <3> QED
      BY <3>1, <3>2, <3>3 DEF LineInv, KeptOK
  <2> QED
    BY <2>1, <2>2
<1> QED
  BY <1>8, <1>9, <1>10, <1>11 DEF LineInv

LEMMA StepLines ==
  TypeOK /\ QuietInv /\ LineInv /\ [Next]_vars => LineInv'
<1> SUFFICES ASSUME TypeOK, QuietInv, LineInv, [Next]_vars PROVE LineInv'
  OBVIOUS
<1>1. UNCHANGED bluez /\ CourseOK /\ AloneOK
  BY BluezKept DEF QuietInv
<1>2. ASSUME NEW p \in Processes, Pair(p) PROVE LineInv'
  <2>1. UNCHANGED <<file, kept>>
    BY <1>2 DEF Pair, disk, hidden
  <2>2. Idles(p)
    <3>1. /\ ~Active(p) /\ proc'[p].i = 1
          /\ proc'[p].pc = IF bluez = 4 THEN "check" ELSE "info"
      BY <1>2, Begins
    <3> QED
      BY <3>1 DEF Idles, Active, At, TypeOK
  <2>3. ASSUME NEW q \in Processes \ {p}, Active(q)
        PROVE  Rests(q)
    <3>1. proc'[q] = [proc[q] EXCEPT !.alone = FALSE] /\ proc[q] \in Process
      BY <1>2, <2>3, Begins, Forms
    <3>2. /\ proc'[q].pc = proc[q].pc /\ proc'[q].c = proc[q].c
          /\ proc'[q].i = proc[q].i /\ proc'[q].list = proc[q].list
          /\ proc'[q].errors = proc[q].errors
          /\ proc'[q].failed = proc[q].failed /\ ~proc'[q].alone
      BY <3>1, Joined
    <3> QED
      BY <3>2 DEF Rests
  <2>4. ASSUME NEW q \in Processes \ {p}, ~Active(q)
        PROVE  Idles(q)
    BY <1>2, <2>4, Begins DEF Idles, Active, At
  <2> QED
    BY <1>1, <2>1, <2>2, <2>3, <2>4, Unstirred
<1>3. ASSUME NEW p \in Processes, Step(p)
      PROVE  \A q \in Processes \ {p} : (Active(q) /\ Rests(q)) \/ Idles(q)
  BY <1>3, OthersKept DEF Rests, Idles, Active, At
<1>4. ASSUME NEW p \in Processes, StopBluetoothd(p) PROVE LineInv'
  <2> DEFINE h == proc[p]
  <2>1. UNCHANGED <<file, kept>> /\ h.pc = "stop" /\ Active(p) /\ h \in Process
    BY <1>4, Forms DEF StopBluetoothd, disk, hidden, At, Active
  <2>2. PICK ok \in BOOLEAN : Move(p, StopsAt(h, ok, "read"))
    BY <1>4 DEF StopBluetoothd, StopsAt
  <2>3. proc'[p].pc = "read" /\ proc'[p].i = h.i
    BY <2>1, <2>2, Moved, AfterStopForm DEF Pcs, Pairing4
  <2>4. h.i = 1
    BY <1>1, <2>1 DEF CourseOK
  <2>5. Idles(p)
    BY <2>1, <2>3, <2>4 DEF Idles
  <2> QED
    BY <1>1, <1>3, <1>4, <2>1, <2>5, Unstirred DEF Step, Step4
<1>5. ASSUME NEW p \in Processes, Step5(p) PROVE LineInv'
  <2>1. UNCHANGED <<file, kept>>
    BY <1>5 DEF Step5, Info, MakeInfoDir, PutInfo, CacheDir, MakeCacheDir,
       Cache, OpenCache, PutCache, disk, hidden
  <2>2. proc[p].pc \in Pairing5 /\ Active(p)
    BY <1>5 DEF Step5, Info, MakeInfoDir, PutInfo, CacheDir, MakeCacheDir,
       Cache, OpenCache, PutCache, Pairing5, At, Active
  <2>3. bluez = 5
    BY <1>1, <2>2 DEF CourseOK, TypeOK, Pairing4, Pairing5
  <2>4. proc'[p].pc \notin {"open", "write"}
    <3>1. CASE proc'[p] = NoProcess
      BY <3>1 DEF NoProcess
    <3>2. CASE proc'[p] # NoProcess
      <4>1. Follows(proc[p], proc'[p])
        BY <1>5, <3>2, Course DEF Step
      <4> QED
        BY <2>2, <4>1 DEF Follows, Pairing5
    <3> QED
      BY <3>1, <3>2
  <2>5. Idles(p)
    BY <2>2, <2>3, <2>4 DEF Idles, Pairing5
  <2> QED
    BY <1>1, <1>3, <1>5, <2>1, <2>5, Unstirred DEF Step
<1>6. ASSUME NEW p \in Processes, StartBluetoothd(p) PROVE LineInv'
  <2> DEFINE h == proc[p]
  <2>1. /\ h.pc = "start" /\ Active(p) /\ UNCHANGED file
        /\ Move(p, NoProcess) /\ Provided(h)
    BY <1>6 DEF StartBluetoothd, At, Active, disk
  <2>2. CASE bluez = 4
    <3>1. h.alone /\ ~h.failed => \A f \in 1 .. Files : Has(f, h.c)
      BY <2>1, <2>2 DEF LineInv, DoneOK
    <3> QED
      BY <1>1, <2>1, <2>2, <3>1, Provides
  <2>3. CASE bluez = 5
    <3>1. UNCHANGED kept
      BY <2>1, <2>3 DEF Provided
    <3>2. proc'[p] = NoProcess
      BY <2>1, Moved
    <3>3. Idles(p)
      BY <2>1, <2>3, <3>2 DEF Idles, NoProcess
    <3> QED
      BY <1>1, <1>3, <1>6, <2>1, <3>1, <3>3, Unstirred DEF Step
  <2> QED
    BY <2>2, <2>3 DEF TypeOK
<1>7. ASSUME UNCHANGED vars PROVE LineInv'
  <2>1. UNCHANGED <<proc, file, kept>>
    BY <1>7 DEF vars, disk, hidden
  <2>2. \A q \in Processes : (Active(q) /\ Rests(q)) \/ Idles(q)
    BY <2>1 DEF Rests, Idles, Active, At
  <2> QED
    BY <1>1, <2>1, <2>2, Unstirred
<1>8. ASSUME NEW p \in Processes, CheckEntry(p) PROVE LineInv'
  BY <1>1, <1>8, CheckLines
<1>9. ASSUME NEW p \in Processes, ReadEntries(p) PROVE LineInv'
  BY <1>1, <1>9, ReadLines
<1>10. ASSUME NEW p \in Processes, OpenEntries(p) PROVE LineInv'
  BY <1>1, <1>10, OpenLines
<1>11. ASSUME NEW p \in Processes, WriteEntries(p) PROVE LineInv'
  BY <1>1, <1>11, WriteLines
<1>12. ASSUME NEW p \in Processes, Crash(p) PROVE LineInv'
  BY <1>1, <1>12, CrashLines
<1>13. ASSUME Bluetoothd PROVE LineInv'
  BY <1>1, <1>13, BluetoothdLines
<1> QED
  BY <1>2, <1>4, <1>5, <1>6, <1>7, <1>8, <1>9, <1>10, <1>11, <1>12, <1>13
  DEF Next, Step, Step4

\* No pairing loses a line, whether of another device or its own, except from
\* a file that it could not read or write, or while writing which it ended, or
\* by getting in another's way.
THEOREM LinesKeptHolds == Spec => []LinesKept
<1>1. Init => TypeOK /\ QuietInv /\ LineInv
  BY InitTyped, InitQuiet, InitLines
<1>2. (TypeOK /\ QuietInv /\ LineInv) /\ [Next]_vars
        => (TypeOK /\ QuietInv /\ LineInv)'
  BY StepTyped, StepQuiet, StepLines
<1>3. TypeOK /\ LineInv => LinesKept
  BY LinesStay
<1> QED
  BY <1>1, <1>2, <1>3, PTL DEF Spec

-----------------------------------------------------------------------------
(* A pairing cannot go on for ever.                                         *)

\* How many steps a pairing has still to make, at most.
ToGo(h) ==
  CASE h.pc = "check" -> 4 * Files + 3 - h.i
    [] h.pc = "stop"  -> 3 * (Files - h.i) + 5
    [] h.pc = "read"  -> 3 * (Files - h.i) + 4
    [] h.pc = "open"  -> 3 * (Files - h.i) + 3
    [] h.pc = "write" -> 3 * (Files - h.i) + 2
    [] h.pc = "info"      -> 9
    [] h.pc = "mkinfo"    -> 8
    [] h.pc = "putinfo"   -> 7
    [] h.pc = "cachedir"  -> 6
    [] h.pc = "mkcache"   -> 5
    [] h.pc = "cache"     -> 4
    [] h.pc = "opencache" -> 3
    [] h.pc = "putcache"  -> 2
    [] h.pc = "start"     -> 1

PairingBounded ==
  \A p \in Processes : Active(p) => ToGo(proc[p]) \in 1 .. (4 * Files + 5)
PairingShrinks ==
  \A p \in Processes : Active(p) /\ Active(p)' =>
    /\ Step(p) => ToGo(proc'[p]) < ToGo(proc[p])
    /\ ~Step(p) => ToGo(proc'[p]) = ToGo(proc[p])

LEMMA ToGoNumber ==
  ASSUME NEW h \in Process
  PROVE  ToGo(h) \in 1 .. (4 * Files + 5)
<1>1. /\ Files \in Nat \ {0} /\ h.i \in 1 .. Files
      /\ h.pc \in Pairing4 \cup Pairing5 \cup {"start"}
  BY PairingAssumption DEF Process
<1>2. CASE h.pc \in Pairing4
  <2>1. ToGo(h) \in {4 * Files + 3 - h.i} \cup
                    {3 * (Files - h.i) + k : k \in 2 .. 5}
    BY <1>2 DEF ToGo, Pairing4
  <2>2. /\ 4 * Files + 3 - h.i \in 1 .. (4 * Files + 5)
        /\ \A k \in 2 .. 5 : 3 * (Files - h.i) + k \in 1 .. (4 * Files + 5)
    BY <1>1
  <2> QED
    BY <2>1, <2>2
<1>3. CASE h.pc \in Pairing5 \cup {"start"}
  <2>1. ToGo(h) \in 1 .. 9
    BY <1>3 DEF ToGo, Pairing5
  <2>2. \A k \in 1 .. 9 : k \in 1 .. (4 * Files + 5)
    BY <1>1
  <2> QED
    BY <2>1, <2>2
<1> QED
  BY <1>1, <1>2, <1>3

LEMMA BoundedPairing == TypeOK => PairingBounded
BY Forms, ToGoNumber DEF PairingBounded

\* The way of Bluez 4, with its two passes over the files.
LEMMA Step4Shrinks ==
  ASSUME TypeOK, NEW p \in Processes, Step4(p), proc'[p] # NoProcess
  PROVE  ToGo(proc'[p]) < ToGo(proc[p])
<1> DEFINE h == proc[p]
           g == proc'[p]
<1>1. h \in Process /\ h.i \in 1 .. Files /\ Files \in Nat \ {0}
  BY Forms, PairingAssumption
  DEF Step4, CheckEntry, StopBluetoothd, ReadEntries, OpenEntries,
      WriteEntries, At, Active, Process
<1>2. CASE CheckEntry(p)
  <2>0. PICK ok \in BOOLEAN : CheckedAs(p, ok)
    BY <1>2, Checked
  <2> DEFINE errors == h.errors \/ Wants(h.i, h.c, ok)
  <2>1. /\ h.pc = "check"
        /\ \/ h.i < Files /\ g = [h EXCEPT !.i = h.i + 1, !.errors = errors]
           \/ h.i = Files /\ g = [h EXCEPT !.pc = "stop", !.i = 1, !.errors = FALSE]
    BY <1>1, <1>2, <2>0, Moved DEF CheckEntry, CheckedAs, At
  <2> HIDE DEF errors
  <2>2. CASE h.i < Files /\ g = [h EXCEPT !.i = h.i + 1, !.errors = errors]
    <3>1. g.pc = "check" /\ g.i = h.i + 1
      BY <1>1, <2>1, <2>2 DEF Process
    <3> QED
      BY <1>1, <2>1, <3>1 DEF ToGo
  <2>3. CASE h.i = Files /\ g = [h EXCEPT !.pc = "stop", !.i = 1, !.errors = FALSE]
    <3>1. g.pc = "stop" /\ g.i = 1
      BY <1>1, <2>1, <2>3 DEF Process
    <3> QED
      BY <1>1, <2>1, <2>3, <3>1 DEF ToGo
  <2> QED
    BY <2>1, <2>2, <2>3
<1>3. CASE StopBluetoothd(p)
  <2>1. PICK ok \in BOOLEAN : Move(p, [AfterStop(h, ok) EXCEPT !.pc = "read"])
    BY <1>3 DEF StopBluetoothd
  <2>2. h.pc = "stop" /\ g = StopsAt(h, ok, "read") /\ "read" \in Pcs
    BY <1>3, <2>1, Moved DEF StopBluetoothd, At, StopsAt, Pcs, Pairing4
  <2>3. g.pc = "read" /\ g.i = h.i
    BY <1>1, <2>2, AfterStopForm
  <2> QED
    BY <1>1, <2>2, <2>3 DEF ToGo
<1>4. CASE ReadEntries(p) \/ OpenEntries(p) \/ WriteEntries(p)
  <2>1. ASSUME NEW k \in Process, k.i = h.i, g = AfterFile(k),
               h.pc \in {"read", "open", "write"}
        PROVE  ToGo(g) < ToGo(h)
    <3>1. CASE h.i < Files
      <4>1. g.pc = "read" /\ g.i = h.i + 1
        BY <2>1, <3>1, AfterFileForm
      <4> QED
        BY <1>1, <2>1, <4>1 DEF ToGo
    <3>2. CASE ~(h.i < Files)
      <4>1. g.pc = "start"
        BY <2>1, <3>2, AfterFileForm
      <4> QED
        BY <1>1, <2>1, <4>1 DEF ToGo
    <3> QED
      BY <3>1, <3>2
  <2>2. CASE ReadEntries(p)
    <3>1. CASE Move(p, AfterFile(h))
      BY <1>1, <2>1, <2>2, <3>1, Moved DEF ReadEntries, At
    <3>2. ASSUME NEW l \in Seq(Line), NEW a \in BOOLEAN,
                 Move(p, [h EXCEPT !.pc = "open", !.alone = a, !.list = l])
          PROVE  ToGo(g) < ToGo(h)
      <4>1. h.pc = "read" /\ g = [h EXCEPT !.pc = "open", !.alone = a, !.list = l]
        BY <2>2, <3>2, Moved DEF ReadEntries, At
      <4>2. g.pc = "open" /\ g.i = h.i
        BY <1>1, <4>1 DEF Process
      <4> QED
        BY <1>1, <4>1, <4>2 DEF ToGo
    <3> QED
      BY <2>2, <3>1, <3>2, ReadOutcome
  <2>3. CASE OpenEntries(p)
    <3>1. /\ h.pc = "open"
          /\ \/ g = [h EXCEPT !.pc = "write"]
             \/ g = AfterFile([h EXCEPT !.failed = TRUE])
      BY <2>3, Moved DEF OpenEntries, At
    <3>2. CASE g = [h EXCEPT !.pc = "write"]
      <4>1. g.pc = "write" /\ g.i = h.i
        BY <1>1, <3>2 DEF Process
      <4> QED
        BY <1>1, <3>1, <4>1 DEF ToGo
    <3>3. CASE g = AfterFile([h EXCEPT !.failed = TRUE])
      <4>1. [h EXCEPT !.failed = TRUE] \in Process
            /\ [h EXCEPT !.failed = TRUE].i = h.i
        BY <1>1 DEF Process
      <4> QED
        BY <2>1, <3>1, <3>3, <4>1
    <3> QED
      BY <3>1, <3>2, <3>3
  <2>4. CASE WriteEntries(p)
    <3>1. PICK k \in Process : /\ Move(p, AfterFile(k))
                               /\ k = h \/ k = [h EXCEPT !.failed = TRUE]
      BY <2>4, WriteOutcome
    <3>2. h.pc = "write" /\ k.i = h.i /\ g = AfterFile(k)
      BY <1>1, <2>4, <3>1, Moved DEF WriteEntries, At, Process
    <3> QED
      BY <2>1, <3>2
  <2> QED
    BY <1>4, <2>2, <2>3, <2>4
<1> QED
  BY <1>2, <1>3, <1>4 DEF Step4

\* The way of Bluez 5.
LEMMA Step5Shrinks ==
  ASSUME TypeOK, NEW p \in Processes, Step5(p), proc'[p] # NoProcess
  PROVE  ToGo(proc'[p]) < ToGo(proc[p])
<1> DEFINE h == proc[p]
           g == proc'[p]
<1>1. h \in Process
  BY Forms DEF Step5, Info, MakeInfoDir, PutInfo, CacheDir, MakeCacheDir,
               Cache, OpenCache, PutCache, At, Active
<1>2. ASSUME NEW pc \in Pcs,
             \/ g = [h EXCEPT !.pc = pc]
             \/ g = [h EXCEPT !.pc = pc, !.failed = TRUE]
             \/ \E ok \in BOOLEAN : g = StopsAt(h, ok, pc)
      PROVE  g.pc = pc
  <2>1. ASSUME NEW ok \in BOOLEAN, g = StopsAt(h, ok, pc) PROVE g.pc = pc
    BY <1>1, <2>1, AfterStopForm
  <2> QED
    BY <1>1, <1>2, <2>1 DEF Process
<1>3. {"mkinfo", "putinfo", "cachedir", "mkcache", "cache", "opencache",
       "putcache", "start"} \subseteq Pcs
  BY DEF Pcs, Pairing5
<1>4. CASE Info(p)
  <2>1. h.pc = "info" /\ g.pc \in {"cachedir", "mkinfo"}
    BY <1>2, <1>3, <1>4, Moved DEF Info, AfterKnown, StopsAt, At
  <2> QED
    BY <2>1 DEF ToGo
<1>5. CASE MakeInfoDir(p)
  <2>1. h.pc = "mkinfo" /\ g = [h EXCEPT !.pc = "putinfo"]
    BY <1>5, Moved DEF MakeInfoDir, Abandon, At
  <2>2. g.pc = "putinfo"
    BY <1>2, <1>3, <2>1
  <2> QED
    BY <2>1, <2>2 DEF ToGo
<1>6. CASE PutInfo(p)
  <2>1. h.pc = "putinfo" /\ g.pc = "cachedir"
    BY <1>2, <1>3, <1>6, Moved DEF PutInfo, At
  <2> QED
    BY <2>1 DEF ToGo
<1>7. CASE CacheDir(p)
  <2>1. h.pc = "cachedir" /\ g.pc \in {"cache", "mkcache"}
    BY <1>2, <1>3, <1>7, Moved DEF CacheDir, StopsAt, At
  <2> QED
    BY <2>1 DEF ToGo
<1>8. CASE MakeCacheDir(p)
  <2>1. h.pc = "mkcache" /\ g.pc = "cache"
    BY <1>2, <1>3, <1>8, Moved DEF MakeCacheDir, Abandon, At
  <2> QED
    BY <2>1 DEF ToGo
<1>9. CASE Cache(p)
  <2>1. h.pc = "cache" /\ g.pc \in {"start", "opencache"}
    BY <1>2, <1>3, <1>9, Moved DEF Cache, StopsAt, At
  <2> QED
    BY <2>1 DEF ToGo
<1>10. CASE OpenCache(p)
  <2>1. h.pc = "opencache" /\ g.pc \in {"putcache", "start"}
    BY <1>2, <1>3, <1>10, Moved DEF OpenCache, At
  <2> QED
    BY <2>1 DEF ToGo
<1>11. CASE PutCache(p)
  <2>1. h.pc = "putcache" /\ g.pc = "start"
    BY <1>2, <1>3, <1>11, Moved DEF PutCache, At
  <2> QED
    BY <2>1 DEF ToGo
<1> QED
  BY <1>4, <1>5, <1>6, <1>7, <1>8, <1>9, <1>10, <1>11 DEF Step5

LEMMA StepShrinks == TypeOK /\ [Next]_vars => [PairingShrinks]_vars
<1> SUFFICES ASSUME TypeOK, Next, NEW p \in Processes, Active(p), Active(p)'
             PROVE  /\ Step(p) => ToGo(proc'[p]) < ToGo(proc[p])
                    /\ ~Step(p) => ToGo(proc'[p]) = ToGo(proc[p])
  BY DEF PairingShrinks
<1>0. proc'[p] # NoProcess
  BY DEF Active, At, NoProcess
<1>1. ASSUME Step(p) PROVE ToGo(proc'[p]) < ToGo(proc[p])
  <2>1. ~StartBluetoothd(p)
    BY <1>0, Moved DEF StartBluetoothd
  <2> QED
    BY <1>0, <1>1, <2>1, Step4Shrinks, Step5Shrinks DEF Step
<1>2. ASSUME proc'[p].pc = proc[p].pc, proc'[p].i = proc[p].i
      PROVE  ToGo(proc'[p]) = ToGo(proc[p])
  BY <1>2 DEF ToGo
<1>3. ASSUME NEW q \in Processes \ {p}, Step(q) \/ Crash(q)
      PROVE  ToGo(proc'[p]) = ToGo(proc[p])
  BY <1>3, OthersKept
<1>4. ASSUME NEW q \in Processes \ {p}, Pair(q)
      PROVE  ToGo(proc'[p]) = ToGo(proc[p])
  <2>1. proc[p] \in Process
    BY Forms
  <2>2. proc'[p] = [proc[p] EXCEPT !.alone = FALSE]
    BY <1>4, Begins
  <2> QED
    BY <1>2, <2>1, <2>2, Joined
<1>5. ~Pair(p) /\ ~Crash(p)
  BY <1>0, Moved DEF Pair, Crash
<1>6. CASE Bluetoothd
  BY <1>1, <1>2, <1>6, Disturbed
<1> QED
  BY <1>1, <1>3, <1>4, <1>5, <1>6 DEF Next

\* A pairing ends by itself, and starts bluetoothd again if it can: each of
\* its steps leaves it fewer to make, 4 for each file of Bluez 4 and a few
\* more at most, and no other process nor bluetoothd sends it back.
THEOREM PairingIsBounded == Spec => []PairingBounded /\ [][PairingShrinks]_vars
BY InitTyped, StepTyped, BoundedPairing, StepShrinks, PTL DEF Spec
=============================================================================
