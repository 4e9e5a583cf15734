------------------------- MODULE MovedClientProofs -------------------------
(***************************************************************************)
(* Proofs about MovedClient, for any hosts, controllers, numbers of calls, *)
(* faults and retries: the types, which answer recv gets, that ids and     *)
(* handles name the controller they were given for, and that a call cannot *)
(* go on for ever.                                                         *)
(***************************************************************************)
EXTENDS MovedClient, FiniteSetTheorems, WellFoundedInduction, TLAPS

-----------------------------------------------------------------------------
(* Datagrams that are owed an answer.                                       *)

Asking(s) == {i \in DOMAIN s : Expects(s[i])}
Asks(s) == Cardinality(Asking(s))

LEMMA AskingFinite ==
  ASSUME NEW s \in Seq(Request)
  PROVE  /\ IsFiniteSet(Asking(s)) /\ Asks(s) \in Nat
         /\ Asks(s) = 0 <=> \A i \in DOMAIN s : ~Expects(s[i])
<1>1. IsFiniteSet(1 .. Len(s))
  BY FS_Interval
<1>2. Asking(s) \in SUBSET (1 .. Len(s))
  BY DEF Asking
<1>3. IsFiniteSet(Asking(s))
  BY <1>1, <1>2, FS_Subset
<1>4. Asks(s) = 0 <=> Asking(s) = {}
  BY <1>3, FS_EmptySet DEF Asks
<1> QED
  BY <1>3, <1>4, FS_CardinalityType DEF Asks, Asking

\* A request is sent.
LEMMA AsksMore ==
  ASSUME NEW s \in Seq(Request), NEW r \in Request
  PROVE  Asks(Append(s, r)) = Asks(s) + IF Expects(r) THEN 1 ELSE 0
<1> DEFINE last == Len(s) + 1
<1>1. /\ DOMAIN Append(s, r) = DOMAIN s \cup {last} /\ last \notin DOMAIN s
      /\ Append(s, r)[last] = r
      /\ \A i \in DOMAIN s : Append(s, r)[i] = s[i]
  OBVIOUS
<1>2. IsFiniteSet(Asking(s)) /\ last \notin Asking(s)
  BY <1>1, AskingFinite DEF Asking
<1>3. CASE Expects(r)
  <2>1. Asking(Append(s, r)) = Asking(s) \cup {last}
    BY <1>1, <1>3 DEF Asking
  <2> QED
    BY <1>2, <1>3, <2>1, FS_AddElement DEF Asks
<1>4. CASE ~Expects(r)
  <2>1. Asking(Append(s, r)) = Asking(s)
    BY <1>1, <1>4 DEF Asking
  <2> QED
    BY <1>4, <2>1, AskingFinite DEF Asks
<1> QED
  BY <1>3, <1>4

\* The first request is taken, or lost.
LEMMA AsksLess ==
  ASSUME NEW s \in Seq(Request), s # <<>>
  PROVE  Asks(s) = Asks(Tail(s)) + IF Expects(Head(s)) THEN 1 ELSE 0
<1> DEFINE t == Tail(s)
           later == Asking(s) \ {1}
           up == [i \in Asking(t) |-> i + 1]
<1>1. /\ t \in Seq(Request) /\ DOMAIN t = 1 .. (Len(s) - 1)
      /\ DOMAIN s = 1 .. Len(s) /\ Len(s) \in Nat \ {0}
      /\ \A i \in 1 .. (Len(s) - 1) : t[i] = s[i + 1]
  OBVIOUS
<1> HIDE DEF t
<1>2. up \in Bijection(Asking(t), later)
  <2>1. \A i \in Asking(t) : i \in 1 .. (Len(s) - 1) /\ i + 1 \in later
    BY <1>1 DEF Asking
  <2>2. up \in Injection(Asking(t), later)
    BY <2>1 DEF Injection, IsInjective
  <2>3. \A j \in later : j - 1 \in Asking(t) /\ up[j - 1] = j
    BY <1>1 DEF Asking
  <2>4. up \in Surjection(Asking(t), later)
    BY <2>1, <2>3 DEF Surjection
  <2> QED
    BY <2>2, <2>4 DEF Bijection
<1>3. Cardinality(later) = Asks(t) /\ IsFiniteSet(later)
  BY <1>1, <1>2, AskingFinite, FS_Bijection DEF ExistsBijection, Asks
<1>4. Asks(t) \in Nat
  BY <1>1, AskingFinite
<1>5. CASE Expects(Head(s))
  <2>1. Asking(s) = later \cup {1}
    BY <1>1, <1>5 DEF Asking
  <2>2. 1 \notin later
    OBVIOUS
  <2> QED
    BY <1>3, <1>4, <1>5, <2>1, <2>2, FS_AddElement DEF Asks, t
<1>6. CASE ~Expects(Head(s))
  <2>1. Asking(s) = later
    BY <1>1, <1>6 DEF Asking
  <2>2. Asks(s) = Asks(t)
    BY <1>3, <2>1 DEF Asks
  <2> QED
    BY <1>4, <1>6, <2>2 DEF t
<1> QED
  BY <1>5, <1>6

-----------------------------------------------------------------------------
(* Types.                                                                   *)

Ops == {"none", "count", "find", "serial", "read", "write"}

\* The call in progress is about a host of the list, or an open handle, and
\* its controller has no smaller number than those of the hosts before.
CallOK ==
  /\ call \in [op : Ops, arg : Nat, at : Nat, total : Nat]
  /\ pc = "idle" <=> call.op = "none"
  /\ call.op \in {"count", "find", "serial"} => call.at \in 1 .. Len(Clients)
  /\ call.op \in {"find", "serial"} => call.total <= call.arg
  /\ call.op \in {"read", "write"} => call.arg \in DOMAIN handles

Shapes ==
  /\ inbox \in [Hosts -> Seq(Request)]
  /\ replies \in [Hosts -> Seq(Answer)]
  /\ expired \in [Hosts -> Nat]
  /\ DOMAIN table = Hosts
  /\ \A h \in Hosts : IsFiniteSet(DOMAIN table[h])

Typed == TypeOK /\ CallOK /\ Shapes

LEMMA ClientsList ==
  /\ Len(Clients) \in Nat \ {0} /\ DOMAIN Clients = 1 .. Len(Clients)
  /\ \A i \in 1 .. Len(Clients) : Clients[i] \in Hosts
<1> DEFINE n == Len(HostFile)
<1>1. n \in Nat \ {0} /\ DOMAIN HostFile = 1 .. n
  BY ClientAssumption
<1>2. \A i \in 1 .. n : n + 1 - i \in 1 .. n
  BY <1>1
<1>3. Clients = [i \in 1 .. n |-> HostFile[n + 1 - i]]
  BY <1>1 DEF Clients
<1>4. \A i \in 1 .. n : HostFile[n + 1 - i] \in Hosts
  BY <1>1, <1>2 DEF Hosts
<1> HIDE DEF n
<1>5. Len(Clients) = n /\ DOMAIN Clients = 1 .. n
  BY <1>1, <1>3
<1> QED
  BY <1>1, <1>3, <1>4, <1>5

\* What is sent, and to whom.
LEMMA CurrentForm ==
  ASSUME Typed, pc # "idle"
  PROVE  /\ Host \in Hosts /\ Current \in Request
         /\ Current.type = "COUNT" <=> call.op \in {"count", "find"}
         /\ Current.type = "SERIAL" <=> call.op = "serial"
         /\ Current.type = "READ" <=> call.op = "read"
         /\ Current.type = "WRITE" <=> call.op = "write"
         /\ call.op = "serial" => /\ Current.id = call.arg - call.total
                                  /\ Host = Clients[call.at]
         /\ call.op = "read" => /\ Current.id = handles[call.arg].remote
                                /\ Host = handles[call.arg].host
<1>1. call.op \in Ops \ {"none"}
  BY DEF Typed, CallOK
<1>2. CASE call.op \in {"count", "find"}
  <2>1. Current = [type |-> "COUNT", id |-> 0] /\ Host = Clients[call.at]
    BY <1>2 DEF Current, Host
  <2> QED
    BY <1>2, <2>1, ClientsList DEF Typed, CallOK, Request
<1>3. CASE call.op = "serial"
  <2>1. /\ Current = [type |-> "SERIAL", id |-> call.arg - call.total]
        /\ Host = Clients[call.at]
    BY <1>3 DEF Current, Host
  <2>2. call.arg - call.total \in Nat
    BY <1>3 DEF Typed, CallOK
  <2> QED
    BY <1>3, <2>1, <2>2, ClientsList DEF Typed, CallOK, Request
<1>4. ASSUME call.op \in {"read", "write"}
      PROVE  handles[call.arg] \in Handle
  BY <1>4 DEF Typed, CallOK, TypeOK
<1>5. CASE call.op = "read"
  <2>1. /\ Current = [type |-> "READ", id |-> handles[call.arg].remote]
        /\ Host = handles[call.arg].host
    BY <1>5 DEF Current, Host
  <2> QED
    BY <1>4, <1>5, <2>1 DEF Request, Handle
<1>6. CASE call.op = "write"
  <2>1. /\ Current = [type |-> "WRITE", id |-> handles[call.arg].remote]
        /\ Host = handles[call.arg].host
    BY <1>6 DEF Current, Host
  <2> QED
    BY <1>4, <1>6, <2>1 DEF Request, Handle
<1> QED
  BY <1>1, <1>2, <1>3, <1>5, <1>6 DEF Ops

\* What the calls do with an answer.
LEMMA CountOutcome ==
  ASSUME Typed, Current.type = "COUNT", pc # "idle", NEW n \in Nat,
         CountReturned(n), UNCHANGED handles
  PROVE  /\ CallOK' /\ pc' \in {"idle", "send"} /\ retry' = 0 /\ counted' \in Nat
         /\ call'.op = "serial" =>
              /\ call'.at = call.at /\ call'.arg = call.arg
              /\ call'.total = call.total /\ call.total <= call.arg
              /\ call.arg - call.total < n
<1>1. /\ call \in [op : Ops, arg : Nat, at : Nat, total : Nat]
      /\ call.op \in {"count", "find"} /\ call.at \in 1 .. Len(Clients)
      /\ call.op = "find" => call.total <= call.arg
      /\ Len(Clients) \in Nat /\ counted \in Nat
  BY CurrentForm, ClientsList DEF Typed, CallOK, TypeOK
<1>2. CASE call.op = "find" /\ call.arg - call.total < n
  <2>1. /\ call' = [call EXCEPT !.op = "serial"] /\ pc' = "send"
        /\ retry' = 0 /\ counted' = counted
    BY <1>2 DEF CountReturned, GoOn
  <2>2. /\ call' \in [op : Ops, arg : Nat, at : Nat, total : Nat]
        /\ call'.op = "serial" /\ call'.at = call.at /\ call'.arg = call.arg
        /\ call'.total = call.total
    BY <1>1, <2>1 DEF Ops
  <2> QED
    BY <1>1, <1>2, <2>1, <2>2 DEF CallOK, Clients
<1>3. CASE ~(call.op = "find" /\ call.arg - call.total < n) /\ call.at < Len(Clients)
  <2>1. /\ call' = [call EXCEPT !.at = @ + 1, !.total = @ + n] /\ pc' = "send"
        /\ retry' = 0 /\ counted' = counted
    BY <1>3 DEF CountReturned, GoOn
  <2>2. /\ call' \in [op : Ops, arg : Nat, at : Nat, total : Nat]
        /\ call'.op = call.op /\ call'.at = call.at + 1 /\ call'.arg = call.arg
        /\ call'.total = call.total + n
    <3>1. call.at + 1 \in Nat /\ call.total + n \in Nat
      BY <1>1
    <3> QED
      BY <1>1, <2>1, <3>1
  <2>3. call'.at \in 1 .. Len(Clients)
    BY <1>1, <1>3, <2>2
  <2>4. call.op = "find" => call'.total <= call'.arg
    BY <1>1, <1>3, <2>2
  <2> QED
    BY <1>1, <2>1, <2>2, <2>3, <2>4 DEF CallOK, Clients
<1>4. CASE ~(call.op = "find" /\ call.arg - call.total < n) /\ ~(call.at < Len(Clients))
  <2>1. /\ call' = NoCall /\ pc' = "idle" /\ retry' = 0
        /\ counted' = IF call.op = "count" THEN call.total + n ELSE counted
    BY <1>4 DEF CountReturned, Return
  <2> QED
    BY <1>1, <2>1 DEF CallOK, NoCall, Ops
<1> QED
  BY <1>2, <1>3, <1>4

LEMMA Returned ==
  ASSUME Return
  PROVE  CallOK' /\ pc' = "idle" /\ retry' = 0 /\ call'.op = "none"
BY DEF Return, CallOK, NoCall, Ops

LEMMA SerialOutcome ==
  ASSUME Typed, Current.type = "SERIAL", pc # "idle",
         NEW serial \in Controllers \cup {Nothing, Garbage},
         SerialReturned(serial)
  PROVE  /\ CallOK' /\ pc' = "idle" /\ retry' = 0 /\ call'.op = "none"
         /\ handles' \in Seq(Handle) /\ Len(handles') = Len(handles) + 1
         /\ \A n \in DOMAIN handles : handles'[n] = handles[n]
         /\ handles'[Len(handles) + 1] =
              [id |-> call.arg, host |-> Host, remote |-> Current.id,
               serial |-> serial, input |-> Nothing]
<1> DEFINE g == [id |-> call.arg, host |-> Host, remote |-> Current.id,
                 serial |-> serial, input |-> Nothing]
<1>1. g \in Handle
  BY CurrentForm DEF Handle, Request, Typed, CallOK
<1>2. handles' = Append(handles, g) /\ handles \in Seq(Handle) /\ Return
  BY DEF SerialReturned, Typed, TypeOK
<1> HIDE DEF g
<1>3. /\ handles' \in Seq(Handle) /\ Len(handles') = Len(handles) + 1
      /\ \A n \in DOMAIN handles : handles'[n] = handles[n]
      /\ handles'[Len(handles) + 1] = g
  BY <1>1, <1>2
<1> QED
  BY <1>2, <1>3, Returned DEF g

LEMMA ReadOutcome ==
  ASSUME Typed, Current.type = "READ", pc # "idle",
         NEW input \in Controllers \cup {Nothing, Garbage},
         ReadReturned(input)
  PROVE  /\ CallOK' /\ pc' = "idle" /\ retry' = 0 /\ call'.op = "none"
         /\ call.arg \in DOMAIN handles
         /\ handles' \in Seq(Handle) /\ DOMAIN handles' = DOMAIN handles
         /\ handles'[call.arg] = [handles[call.arg] EXCEPT !.input = input]
         /\ \A n \in DOMAIN handles : n # call.arg => handles'[n] = handles[n]
<1>1. call.arg \in DOMAIN handles /\ handles \in Seq(Handle)
  BY CurrentForm DEF Typed, CallOK, TypeOK
<1>2. /\ handles' = [handles EXCEPT ![call.arg] =
                       [handles[call.arg] EXCEPT !.input = input]]
      /\ Return
  BY <1>1 DEF ReadReturned
<1>3. handles[call.arg] \in Handle
  BY <1>1
<1>4. [handles[call.arg] EXCEPT !.input = input] \in Handle
  BY <1>3 DEF Handle
<1> QED
  BY <1>1, <1>2, <1>4, Returned

\* A datagram: its sender and what it may carry.
LEMMA AnswerForm ==
  ASSUME Typed, NEW h \in Hosts, inbox[h] # <<>>,
         NEW first \in FirstByte(h, Head(inbox[h])), Expects(Head(inbox[h]))
  PROVE  [req |-> Head(inbox[h]), device |-> Device(h, Head(inbox[h]).id),
          first |-> first] \in Answer
<1>1. Head(inbox[h]) \in Request
  BY DEF Typed, TypeOK
<1>2. Size(h) \in Nat
  BY FS_CardinalityType DEF Typed, Shapes, Size
<1>3. first \in Nat
  BY <1>1, <1>2, ClientAssumption DEF FirstByte, Request, Expects
<1>4. Device(h, Head(inbox[h]).id) \in Controllers \cup {Nothing}
  BY DEF Device, Typed, TypeOK
<1> QED
  BY <1>1, <1>3, <1>4 DEF Answer

LEMMA DataForm ==
  ASSUME Typed, NEW h \in Hosts, replies[h] # <<>>
  PROVE  /\ Head(replies[h]) \in Answer /\ Head(replies[h]).first \in Nat
         /\ Head(replies[h]).device \in Controllers \cup {Nothing}
<1>1. Head(replies[h]) \in Answer
  BY DEF Typed, TypeOK
<1> QED
  BY <1>1 DEF Answer

-----------------------------------------------------------------------------
(* Every step keeps the types.                                              *)

LEMMA InitTyped == Init => Typed
<1> SUFFICES ASSUME Init PROVE Typed
  OBVIOUS
<1>1. \A h \in Hosts : DOMAIN table[h] \in {{}, {0}}
                       /\ \A id \in DOMAIN table[h] : table[h][id] \in Controllers
  BY DEF Init
<1>2. Shapes
  BY <1>1, FS_EmptySet, FS_Singleton DEF Init, Shapes
<1>3. TypeOK
  BY <1>1, <1>2, ClientAssumption DEF Init, TypeOK, Shapes, NoCall
<1>4. CallOK
  BY DEF Init, CallOK, NoCall, Ops
<1> QED
  BY <1>2, <1>3, <1>4 DEF Typed

\* What a step of the client must see to.
LEMMA ClientTyped ==
  ASSUME Typed, CallOK', UNCHANGED <<table, inbox, sendable, moves, removals>>,
         replies' \in [Hosts -> Seq(Answer)], expired' \in [Hosts -> Nat],
         pc' \in {"idle", "send", "recv"}, retry' \in 0 .. (MaxRetries - 1),
         counted' \in Nat, handles' \in Seq(Handle),
         calls' \in 0 .. MaxCalls, faults' \in 0 .. MaxFaults
  PROVE  Typed'
<1>1. Shapes'
  BY DEF Typed, Shapes
<1>2. call'.op \in Ops
  BY DEF CallOK
<1>3. TypeOK'
  BY <1>2 DEF Typed, TypeOK, Shapes, Ops
<1> QED
  BY <1>1, <1>3 DEF Typed

\* What a step of the network, or of a daemon, must see to.
LEMMA NetTyped ==
  ASSUME Typed, UNCHANGED <<table, clientVars, expired, moves, removals>>,
         inbox' \in [Hosts -> Seq(Request)], replies' \in [Hosts -> Seq(Answer)],
         sendable' \in BOOLEAN, faults' \in 0 .. MaxFaults
  PROVE  Typed'
<1>1. Shapes' /\ CallOK'
  BY DEF Typed, Shapes, CallOK, clientVars, Clients
<1>2. TypeOK'
  BY DEF Typed, TypeOK, Shapes, clientVars
<1> QED
  BY <1>1, <1>2 DEF Typed

\* What the hotplugging of a host must see to.
LEMMA TableTyped ==
  ASSUME Typed, UNCHANGED <<netVars, sendable, clientVars, expired, faults>>,
         NEW h \in Hosts, NEW t, table' = [table EXCEPT ![h] = t],
         DOMAIN t \subseteq Nat, IsFiniteSet(DOMAIN t),
         \A id \in DOMAIN t : t[id] \in Controllers,
         moves' \in 0 .. MaxMoves, removals' \in 0 .. moves'
  PROVE  Typed'
<1>1. \A g \in Hosts : table'[g] = IF g = h THEN t ELSE table[g]
  BY DEF Typed, Shapes
<1>2. Shapes' /\ CallOK'
  BY <1>1 DEF Typed, Shapes, CallOK, clientVars, netVars, Clients
<1>3. TypeOK'
  BY <1>1 DEF Typed, TypeOK, Shapes, clientVars, netVars
<1> QED
  BY <1>2, <1>3 DEF Typed

LEMMA CallTyped ==
  ASSUME Typed, NEW op \in Ops \ {"none"}, NEW arg \in Nat, NEW at \in Nat,
         Begin(op, arg, at),
         op \in {"count", "find", "serial"} => at = 1,
         op \in {"read", "write"} => arg \in DOMAIN handles
  PROVE  Typed'
<1>1. /\ call' = [op |-> op, arg |-> arg, at |-> at, total |-> 0]
      /\ pc' = "send" /\ retry' = 0
      /\ UNCHANGED <<table, netVars, sendable, counted, handles, expired,
                     faults, moves, removals>>
      /\ calls < MaxCalls /\ calls' = calls + 1
  BY DEF Begin
<1>2. 1 \in 1 .. Len(Clients)
  BY ClientsList
<1>3. CallOK'
  BY <1>1, <1>2 DEF CallOK, Ops, Clients
<1>4. calls' \in 0 .. MaxCalls /\ retry' \in 0 .. (MaxRetries - 1)
  BY <1>1, ClientAssumption DEF Typed, TypeOK
<1> QED
  BY <1>1, <1>3, <1>4, ClientTyped DEF netVars, Typed, TypeOK, Shapes

LEMMA SendTyped ==
  ASSUME Typed, SendRequest
  PROVE  Typed'
<1>1. /\ inbox' = [inbox EXCEPT ![Host] = Append(@, Current)] /\ pc = "send"
      /\ UNCHANGED <<table, replies, sendable, counted, handles, expired,
                     calls, faults, moves, removals>>
  BY DEF SendRequest
<1>2. Host \in Hosts /\ Current \in Request
  BY <1>1, CurrentForm
<1>3. inbox' \in [Hosts -> Seq(Request)]
  BY <1>1, <1>2 DEF Typed, Shapes
<1>4. /\ CallOK' /\ pc' \in {"idle", "recv"} /\ retry' \in 0 .. (MaxRetries - 1)
  <2>1. CASE pc' = "recv" /\ UNCHANGED <<call, retry>>
    BY <1>1, <2>1 DEF Typed, TypeOK, CallOK, Clients
  <2>2. CASE Return
    BY <2>2, Returned, ClientAssumption
  <2> QED
    BY <2>1, <2>2 DEF SendRequest
<1>5. Shapes'
  BY <1>1, <1>3 DEF Typed, Shapes
<1>6. call'.op \in Ops
  BY <1>4 DEF CallOK
<1>7. TypeOK'
  BY <1>1, <1>3, <1>4, <1>6 DEF Typed, TypeOK, Shapes, Ops
<1> QED
  BY <1>4, <1>5, <1>7 DEF Typed

LEMMA RecvTyped ==
  ASSUME Typed, Recv
  PROVE  Typed'
<1> DEFINE answer == Head(replies[Host])
           data == IF answer.req.type = Current.type THEN answer.device
                                                     ELSE Garbage
<1>1. /\ pc = "recv" /\ replies[Host] # <<>>
      /\ replies' = [replies EXCEPT ![Host] = Tail(@)]
      /\ UNCHANGED <<table, inbox, sendable, expired, calls, faults, moves,
                     removals>>
  BY DEF Recv, Dequeue
<1>2. Host \in Hosts
  BY <1>1, CurrentForm
<1>3. replies' \in [Hosts -> Seq(Answer)]
  BY <1>1, <1>2 DEF Typed, Shapes
<1>4. answer.first \in Nat /\ data \in Controllers \cup {Nothing, Garbage}
  BY <1>1, <1>2, DataForm
<1>5. /\ CallOK' /\ pc' \in {"idle", "send"} /\ retry' = 0
      /\ counted' \in Nat /\ handles' \in Seq(Handle)
  <2>1. CASE /\ Current.type = "COUNT" /\ CountReturned(answer.first)
             /\ UNCHANGED handles
    BY <1>1, <1>4, <2>1, CountOutcome DEF Typed, TypeOK
  <2>2. CASE /\ Current.type = "SERIAL" /\ SerialReturned(data)
             /\ UNCHANGED counted
    BY <1>1, <1>4, <2>2, SerialOutcome DEF Typed, TypeOK
  <2>3. CASE /\ Current.type = "READ" /\ ReadReturned(data)
             /\ UNCHANGED counted
    BY <1>1, <1>4, <2>3, ReadOutcome DEF Typed, TypeOK
  <2> QED
    BY <2>1, <2>2, <2>3 DEF Recv
<1>6. /\ expired' \in [Hosts -> Nat] /\ calls' \in 0 .. MaxCalls
      /\ faults' \in 0 .. MaxFaults
  BY <1>1 DEF Typed, TypeOK, Shapes
<1>7. retry' \in 0 .. (MaxRetries - 1)
  BY <1>5, ClientAssumption
<1> QED
  BY <1>1, <1>3, <1>5, <1>6, <1>7, ClientTyped

\* A timeout, and what comes of it.
LEMMA ExpireForm ==
  ASSUME Typed, Expire
  PROVE  /\ pc = "recv" /\ Host \in Hosts /\ faults' \in 0 .. MaxFaults
         /\ expired' \in [Hosts -> Nat]
         /\ expired'[Host] = expired[Host] + 1
         /\ \A h \in Hosts : h # Host => expired'[h] = expired[h]
<1>1. pc = "recv" /\ expired' = [expired EXCEPT ![Host] = @ + 1]
  BY DEF Expire
<1>2. Host \in Hosts
  BY <1>1, CurrentForm
<1>3. faults' \in 0 .. MaxFaults
  BY ClientAssumption DEF Expire, Typed, TypeOK
<1> QED
  BY <1>1, <1>2, <1>3 DEF Typed, Shapes

LEMMA GiveUpOutcome ==
  ASSUME Typed, TimeoutGiveUp
  PROVE  /\ CallOK' /\ pc' \in {"idle", "send"} /\ retry' = 0
         /\ counted' \in Nat /\ handles' \in Seq(Handle)
<1>1. pc = "recv"
  BY DEF TimeoutGiveUp, Expire
<1>2. CASE /\ Current.type = "COUNT" /\ CountReturned(0) /\ UNCHANGED handles
  BY <1>1, <1>2, CountOutcome DEF Typed, TypeOK
<1>3. CASE /\ Current.type = "SERIAL" /\ SerialReturned(Nothing)
           /\ UNCHANGED counted
  BY <1>1, <1>3, SerialOutcome DEF Typed, TypeOK
<1>4. CASE /\ Current.type = "READ" /\ Return /\ UNCHANGED <<counted, handles>>
  BY <1>4, Returned DEF Typed, TypeOK
<1> QED
  BY <1>2, <1>3, <1>4 DEF TimeoutGiveUp

LEMMA TimeoutTyped ==
  ASSUME Typed, TimeoutRetry \/ TimeoutGiveUp
  PROVE  Typed'
<1>1. CASE TimeoutRetry
  <2>1. /\ pc' = "send" /\ retry' = retry + 1 /\ retry + 1 < MaxRetries /\ Expire
        /\ UNCHANGED <<table, netVars, sendable, call, counted, handles, calls,
                       moves, removals>>
    BY <1>1 DEF TimeoutRetry
  <2>2. pc = "recv" /\ faults' \in 0 .. MaxFaults /\ expired' \in [Hosts -> Nat]
    BY <2>1, ExpireForm
  <2>3. CallOK'
    BY <2>1, <2>2 DEF Typed, CallOK, Clients
  <2>4. retry' \in 0 .. (MaxRetries - 1)
    BY <2>1, ClientAssumption DEF Typed, TypeOK
  <2> QED
    BY <2>1, <2>2, <2>3, <2>4, ClientTyped DEF Typed, TypeOK, Shapes, netVars
<1>2. CASE TimeoutGiveUp
  <2>1. Expire /\ UNCHANGED <<table, netVars, sendable, calls, moves, removals>>
    BY <1>2 DEF TimeoutGiveUp
  <2>2. /\ UNCHANGED <<table, inbox, sendable, moves, removals>>
        /\ replies' \in [Hosts -> Seq(Answer)] /\ calls' \in 0 .. MaxCalls
    BY <2>1 DEF Typed, TypeOK, Shapes, netVars
  <2>3. expired' \in [Hosts -> Nat] /\ faults' \in 0 .. MaxFaults
    BY <2>1, ExpireForm
  <2>4. /\ CallOK' /\ pc' \in {"idle", "send"} /\ retry' = 0
        /\ counted' \in Nat /\ handles' \in Seq(Handle)
    BY <1>2, GiveUpOutcome
  <2>5. retry' \in 0 .. (MaxRetries - 1)
    BY <2>4, ClientAssumption
  <2> QED
    BY <2>2, <2>3, <2>4, <2>5, ClientTyped
<1> QED
  BY <1>1, <1>2

LEMMA DaemonTyped ==
  ASSUME Typed, NEW h \in Hosts, HandleRequest(h)
  PROVE  Typed'
<1>1. /\ inbox[h] # <<>> /\ inbox' = [inbox EXCEPT ![h] = Tail(@)]
      /\ UNCHANGED <<table, sendable, clientVars, expired, faults, moves, removals>>
  BY DEF HandleRequest
<1>2. inbox' \in [Hosts -> Seq(Request)]
  BY <1>1 DEF Typed, Shapes
<1>3. replies' \in [Hosts -> Seq(Answer)]
  <2>1. CASE replies' = replies
    BY <2>1 DEF Typed, Shapes
  <2>2. CASE replies' # replies
    <3>1. PICK first \in FirstByte(h, Head(inbox[h])) :
            /\ Expects(Head(inbox[h]))
            /\ replies' = [replies EXCEPT ![h] = Append(@,
                 [req |-> Head(inbox[h]), device |-> Device(h, Head(inbox[h]).id),
                  first |-> first])]
      BY <2>2 DEF HandleRequest
    <3> DEFINE a == [req |-> Head(inbox[h]),
                     device |-> Device(h, Head(inbox[h]).id), first |-> first]
    <3>2. a \in Answer
      BY <1>1, <3>1, AnswerForm
    <3> HIDE DEF a
    <3>3. replies' = [replies EXCEPT ![h] = Append(@, a)]
      BY <3>1 DEF a
    <3> QED
      BY <3>2, <3>3 DEF Typed, Shapes
  <2> QED
    BY <2>1, <2>2
<1>4. sendable' \in BOOLEAN /\ faults' \in 0 .. MaxFaults
  BY <1>1 DEF Typed, TypeOK
<1> QED
  BY <1>1, <1>2, <1>3, <1>4, NetTyped

\* What a daemon does with a request.
LEMMA Handled ==
  ASSUME Typed, NEW h \in Hosts, HandleRequest(h)
  PROVE  LET req == Head(inbox[h]) IN
         /\ inbox[h] # <<>> /\ inbox' = [inbox EXCEPT ![h] = Tail(@)]
         /\ UNCHANGED <<table, sendable, clientVars, expired, faults, moves,
                        removals>>
         /\ \/ ~Expects(req) /\ replies' = replies
            \/ /\ Expects(req)
               /\ \E a \in Answer :
                    /\ a.req = req /\ a.device = Device(h, req.id)
                    /\ a.first \in FirstByte(h, req)
                    /\ replies' = [replies EXCEPT ![h] = Append(@, a)]
<1>1. /\ inbox[h] # <<>> /\ inbox' = [inbox EXCEPT ![h] = Tail(@)]
      /\ UNCHANGED <<table, sendable, clientVars, expired, faults, moves, removals>>
  BY DEF HandleRequest
<1>2. CASE ~Expects(Head(inbox[h])) /\ replies' = replies
  BY <1>1, <1>2
<1>3. CASE Expects(Head(inbox[h]))
  <2>1. PICK first \in FirstByte(h, Head(inbox[h])) :
          replies' = [replies EXCEPT ![h] = Append(@,
            [req |-> Head(inbox[h]), device |-> Device(h, Head(inbox[h]).id),
             first |-> first])]
    BY <1>3 DEF HandleRequest
  <2> DEFINE a == [req |-> Head(inbox[h]),
                   device |-> Device(h, Head(inbox[h]).id), first |-> first]
  <2>2. /\ a \in Answer /\ a.req = Head(inbox[h])
        /\ a.device = Device(h, Head(inbox[h]).id)
        /\ a.first \in FirstByte(h, Head(inbox[h]))
    BY <1>1, <1>3, AnswerForm
  <2>3. replies' = [replies EXCEPT ![h] = Append(@, a)]
    BY <2>1
  <2> HIDE DEF a
  <2> QED
    BY <1>1, <1>3, <2>2, <2>3
<1> QED
  BY <1>2, <1>3 DEF HandleRequest

LEMMA NetworkTyped ==
  ASSUME Typed, Network
  PROVE  Typed'
<1>1. ASSUME NEW h \in Hosts, LoseRequest(h) PROVE Typed'
  <2>1. /\ inbox[h] # <<>> /\ inbox' = [inbox EXCEPT ![h] = Tail(@)]
        /\ faults < MaxFaults /\ faults' = faults + 1
        /\ UNCHANGED <<table, replies, sendable, clientVars, expired, moves, removals>>
    BY <1>1 DEF LoseRequest
  <2>2. inbox' \in [Hosts -> Seq(Request)] /\ replies' \in [Hosts -> Seq(Answer)]
    BY <2>1 DEF Typed, Shapes
  <2>3. sendable' \in BOOLEAN /\ faults' \in 0 .. MaxFaults
    BY <2>1, ClientAssumption DEF Typed, TypeOK
  <2> QED
    BY <2>1, <2>2, <2>3, NetTyped
<1>2. ASSUME NEW h \in Hosts, LoseAnswer(h) PROVE Typed'
  <2>1. /\ replies[h] # <<>> /\ replies' = [replies EXCEPT ![h] = Tail(@)]
        /\ faults < MaxFaults /\ faults' = faults + 1
        /\ UNCHANGED <<table, inbox, sendable, clientVars, expired, moves, removals>>
    BY <1>2 DEF LoseAnswer
  <2>2. inbox' \in [Hosts -> Seq(Request)] /\ replies' \in [Hosts -> Seq(Answer)]
    BY <2>1 DEF Typed, Shapes
  <2>3. sendable' \in BOOLEAN /\ faults' \in 0 .. MaxFaults
    BY <2>1, ClientAssumption DEF Typed, TypeOK
  <2> QED
    BY <2>1, <2>2, <2>3, NetTyped
<1>3. ASSUME NetworkGoesDown PROVE Typed'
  <2>1. /\ sendable' = FALSE
        /\ UNCHANGED <<table, netVars, clientVars, expired, faults, moves, removals>>
    BY <1>3 DEF NetworkGoesDown
  <2>2. inbox' \in [Hosts -> Seq(Request)] /\ replies' \in [Hosts -> Seq(Answer)]
    BY <2>1 DEF Typed, Shapes, netVars
  <2>3. sendable' \in BOOLEAN /\ faults' \in 0 .. MaxFaults
    BY <2>1 DEF Typed, TypeOK
  <2> QED
    BY <2>1, <2>2, <2>3, NetTyped
<1> QED
  BY <1>1, <1>2, <1>3 DEF Network

\* Hotplugging changes one table in one place.
LEMMA ComesForm ==
  ASSUME Typed, NEW h \in Hosts, NEW c \in Controllers, ControllerComes(h, c)
  PROVE  \E id \in 0 .. Size(h) :
           /\ id \notin DOMAIN table[h]
           /\ \A n \in 0 .. (id - 1) : n \in DOMAIN table[h]
           /\ table' = [table EXCEPT ![h] = [n \in DOMAIN table[h] \cup {id} |->
                          IF n = id THEN c ELSE table[h][n]]]
           /\ moves < MaxMoves /\ moves' = moves + 1
           /\ UNCHANGED <<netVars, sendable, clientVars, expired, faults, removals>>
<1>1. PICK id \in 0 .. Size(h) :
        /\ table' = [table EXCEPT ![h] =
                       [n \in DOMAIN @ \cup {id} |-> IF n = id THEN c ELSE @[n]]]
        /\ Table(h)!Connect(id, c)
  BY DEF ControllerComes
<1>2. /\ id \notin DOMAIN table[h]
      /\ \A n \in 0 .. (id - 1) : n \in DOMAIN table[h]
  BY <1>1 DEF Table!Connect
<1> QED
  BY <1>1, <1>2 DEF ControllerComes, Typed, Shapes

LEMMA HotplugTyped ==
  ASSUME Typed, Hotplug
  PROVE  Typed'
<1>1. ASSUME NEW h \in Hosts, NEW c \in Controllers, ControllerComes(h, c)
      PROVE  Typed'
  <2>1. PICK id \in 0 .. Size(h) :
           /\ table' = [table EXCEPT ![h] = [n \in DOMAIN table[h] \cup {id} |->
                          IF n = id THEN c ELSE table[h][n]]]
           /\ moves < MaxMoves /\ moves' = moves + 1
           /\ UNCHANGED <<netVars, sendable, clientVars, expired, faults, removals>>
    BY <1>1, ComesForm
  <2> DEFINE t == [n \in DOMAIN table[h] \cup {id} |->
                     IF n = id THEN c ELSE table[h][n]]
  <2>2. DOMAIN t \subseteq Nat /\ IsFiniteSet(DOMAIN t)
    <3>1. Size(h) \in Nat
      BY FS_CardinalityType DEF Size, Typed, Shapes
    <3>2. IsFiniteSet(DOMAIN table[h] \cup {id})
      BY FS_AddElement DEF Typed, Shapes
    <3>3. id \in Nat /\ DOMAIN table[h] \subseteq Nat
      BY <3>1 DEF Typed, TypeOK
    <3> QED
      BY <3>2, <3>3
  <2>3. \A n \in DOMAIN t : t[n] \in Controllers
    BY DEF Typed, TypeOK
  <2>4. moves' \in 0 .. MaxMoves /\ removals' \in 0 .. moves'
    <3>1. moves \in 0 .. MaxMoves /\ removals \in 0 .. moves /\ MaxMoves \in Nat
      BY ClientAssumption DEF Typed, TypeOK
    <3> HIDE DEF t
    <3> QED
      BY <2>1, <3>1
  <2> HIDE DEF t
  <2>5. table' = [table EXCEPT ![h] = t]
    BY <2>1 DEF t
  <2> QED
    BY <2>1, <2>2, <2>3, <2>4, <2>5, TableTyped
<1>2. ASSUME NEW h \in Hosts, NEW id \in DOMAIN table[h], ControllerGoes(h, id)
      PROVE  Typed'
  <2> DEFINE t == [n \in DOMAIN table[h] \ {id} |-> table[h][n]]
  <2>1. /\ table' = [table EXCEPT ![h] = t]
        /\ moves < MaxMoves /\ moves' = moves + 1 /\ removals' = removals + 1
        /\ UNCHANGED <<netVars, sendable, clientVars, expired, faults>>
    BY <1>2 DEF ControllerGoes, Typed, Shapes
  <2>2. DOMAIN t \subseteq Nat /\ IsFiniteSet(DOMAIN t)
    BY FS_RemoveElement DEF Typed, TypeOK, Shapes
  <2>3. \A n \in DOMAIN t : t[n] \in Controllers
    BY DEF Typed, TypeOK
  <2>4. moves' \in 0 .. MaxMoves /\ removals' \in 0 .. moves'
    <3>1. moves \in 0 .. MaxMoves /\ removals \in 0 .. moves /\ MaxMoves \in Nat
      BY ClientAssumption DEF Typed, TypeOK
    <3> HIDE DEF t
    <3> QED
      BY <2>1, <3>1
  <2> HIDE DEF t
  <2> QED
    BY <2>1, <2>2, <2>3, <2>4, TableTyped
<1> QED
  BY <1>1, <1>2 DEF Hotplug

LEMMA StutterTyped ==
  ASSUME Typed, UNCHANGED vars
  PROVE  Typed'
<1>1. UNCHANGED <<table, clientVars, expired, moves, removals, inbox, replies,
                  sendable, faults>>
  BY DEF vars, netVars
<1>2. /\ inbox' \in [Hosts -> Seq(Request)] /\ replies' \in [Hosts -> Seq(Answer)]
      /\ sendable' \in BOOLEAN /\ faults' \in 0 .. MaxFaults
  BY <1>1 DEF Typed, TypeOK, Shapes
<1> QED
  BY <1>1, <1>2, NetTyped

LEMMA StepTyped == Typed /\ [Next]_vars => Typed'
<1> SUFFICES ASSUME Typed, [Next]_vars PROVE Typed'
  OBVIOUS
<1>1. CASE Calls
  <2>1. CASE CountConnected
    BY <2>1, CallTyped DEF CountConnected, Ops
  <2>2. ASSUME NEW id \in 0 .. (counted - 1), ConnectById(id) PROVE Typed'
    <3>1. id \in Nat
      BY DEF Typed, TypeOK
    <3> QED
      BY <2>2, <3>1, CallTyped DEF ConnectById, Ops
  <2>3. ASSUME NEW n \in DOMAIN handles, Poll(n) \/ UpdateLeds(n) PROVE Typed'
    <3>1. n \in Nat
      BY DEF Typed, TypeOK
    <3> QED
      BY <2>3, <3>1, CallTyped DEF Poll, UpdateLeds, Ops
  <2> QED
    BY <1>1, <2>1, <2>2, <2>3 DEF Calls
<1>2. CASE Sending
  BY <1>2, SendTyped, RecvTyped, TimeoutTyped, StutterTyped DEF Sending, SendFails
<1>3. ASSUME NEW h \in Hosts, HandleRequest(h) PROVE Typed'
  BY <1>3, DaemonTyped
<1> QED
  BY <1>1, <1>2, <1>3, NetworkTyped, HotplugTyped, StutterTyped DEF Next

\* The state of the client, of the network and of the daemons keeps its types.
THEOREM TypeCorrect == Spec => []TypeOK
<1>1. Typed => TypeOK
  BY DEF Typed
<1> QED
  BY <1>1, InitTyped, StepTyped, PTL DEF Spec

-----------------------------------------------------------------------------
(* Answers are owed.                                                        *)

\* Nothing is under way to a host, and back, of which nothing is owed.
LEMMA NothingOwed ==
  ASSUME Typed, AnswersOwed, NEW h \in Hosts, Owed(h) = 0
  PROVE  /\ replies[h] = <<>>
         /\ \A i \in DOMAIN inbox[h] : ~Expects(inbox[h][i])
<1>1. inbox[h] \in Seq(Request) /\ replies[h] \in Seq(Answer)
  BY DEF Typed, TypeOK
<1>2. Asks(inbox[h]) \in Nat /\ Len(replies[h]) \in Nat
  BY <1>1, AskingFinite
<1>3. Asks(inbox[h]) + Len(replies[h]) <= 0
  BY DEF AnswersOwed, Outstanding, Asks, Asking
<1>4. Asks(inbox[h]) = 0 /\ Len(replies[h]) = 0
  BY <1>2, <1>3
<1> QED
  BY <1>1, <1>4, AskingFinite

\* What a step leaves under way, for one host.
Under(h) == Asks(inbox[h]) + Len(replies[h])

LEMMA UnderForm ==
  ASSUME NEW h PROVE Outstanding(h) = Under(h)
BY DEF Outstanding, Under, Asks, Asking

LEMMA OwedForm ==
  ASSUME Typed, AnswersOwed, NEW h \in Hosts
  PROVE  /\ Asks(inbox[h]) \in Nat /\ Len(replies[h]) \in Nat
         /\ expired[h] \in Nat /\ Under(h) <= Owed(h)
BY AskingFinite, UnderForm DEF Typed, TypeOK, AnswersOwed

LEMMA InitOwed == Init => AnswersOwed
<1> SUFFICES ASSUME Init, NEW h \in Hosts PROVE Outstanding(h) <= Owed(h)
  BY DEF AnswersOwed
<1>1. inbox[h] = <<>> /\ replies[h] = <<>> /\ expired[h] = 0 /\ pc = "idle"
  BY DEF Init
<1>2. Asks(<<>>) = 0
  <2>1. <<>> \in Seq(Request) /\ DOMAIN <<>> = {}
    OBVIOUS
  <2> QED
    BY <2>1, AskingFinite
<1> QED
  BY <1>1, <1>2, UnderForm DEF Under, Owed

LEMMA StepOwed == Typed /\ AnswersOwed /\ [Next]_vars => AnswersOwed'
<1> SUFFICES ASSUME Typed, AnswersOwed, [Next]_vars, NEW h \in Hosts
             PROVE  Under(h)' <= Owed(h)'
  BY UnderForm DEF AnswersOwed, Outstanding, Under, Asks, Asking
<1>1. /\ Asks(inbox[h]) \in Nat /\ Len(replies[h]) \in Nat
      /\ expired[h] \in Nat /\ Under(h) <= Owed(h)
      /\ inbox \in [Hosts -> Seq(Request)] /\ replies \in [Hosts -> Seq(Answer)]
  BY OwedForm DEF Typed, Shapes
<1>2. ASSUME UNCHANGED <<inbox, replies, expired, pc, call, handles>>
      PROVE  Under(h)' <= Owed(h)'
  <2>1. Under(h)' = Under(h) /\ Owed(h)' = Owed(h)
    BY <1>2 DEF Under, Owed, Host, Clients
  <2> QED
    BY <1>1, <2>1
<1>3. ASSUME UNCHANGED <<inbox, replies, expired>>, pc # "recv", pc' # "recv"
      PROVE  Under(h)' <= Owed(h)'
  <2>1. Under(h)' = Under(h) /\ Owed(h)' = expired[h] /\ Owed(h) = expired[h]
    BY <1>1, <1>3 DEF Under, Owed
  <2> QED
    BY <1>1, <2>1
<1>4. CASE Calls
  BY <1>3, <1>4
  DEF Calls, CountConnected, ConnectById, Poll, UpdateLeds, Begin, netVars
<1>5. CASE SendRequest
  <2>1. /\ inbox' = [inbox EXCEPT ![Host] = Append(@, Current)]
        /\ UNCHANGED <<replies, expired, handles>> /\ pc = "send"
        /\ Host \in Hosts /\ Current \in Request
    BY <1>5, CurrentForm DEF SendRequest
  <2>2. CASE h # Host
    <3>1. Under(h)' = Under(h) /\ Owed(h) = expired[h] /\ Owed(h)' >= expired[h]
      BY <1>1, <2>1, <2>2 DEF Under, Owed
    <3>2. Owed(h)' \in Nat
      BY <1>1, <2>1 DEF Owed
    <3> QED
      BY <1>1, <3>1, <3>2 DEF Under
  <2>3. CASE h = Host
    <3>1. Under(h)' = Under(h) + IF Expects(Current) THEN 1 ELSE 0
      <4>1. Asks(Append(inbox[h], Current)) =
              Asks(inbox[h]) + IF Expects(Current) THEN 1 ELSE 0
        BY <1>1, <2>1, AsksMore
      <4>2. inbox'[h] = Append(inbox[h], Current) /\ replies'[h] = replies[h]
        BY <1>1, <2>1, <2>3
      <4> QED
        BY <1>1, <4>1, <4>2 DEF Under
    <3>2. Owed(h) = expired[h]
      BY <1>1, <2>1 DEF Owed
    <3>3. Owed(h)' = expired[h] + IF Expects(Current) THEN 1 ELSE 0
      <4>1. CASE Expects(Current)
        <5>1. pc' = "recv" /\ UNCHANGED <<call, handles>>
          BY <1>5, <4>1 DEF SendRequest
        <5>2. Host' = Host
          BY <5>1 DEF Host, Clients
        <5> QED
          BY <2>1, <2>3, <4>1, <5>1, <5>2 DEF Owed
      <4>2. CASE ~Expects(Current)
        <5>1. pc' = "idle"
          BY <1>5, <4>2 DEF SendRequest, Return
        <5> QED
          BY <1>1, <2>1, <4>2, <5>1 DEF Owed
      <4> QED
        BY <4>1, <4>2
    <3> QED
      BY <1>1, <3>1, <3>2, <3>3 DEF Under
  <2> QED
    BY <2>2, <2>3
<1>6. CASE Recv
  <2>1. /\ pc = "recv" /\ replies[Host] # <<>> /\ Host \in Hosts
        /\ replies' = [replies EXCEPT ![Host] = Tail(@)]
        /\ UNCHANGED <<inbox, expired>>
    BY <1>6, CurrentForm DEF Recv, Dequeue
  <2>2. pc' # "recv"
    BY <1>6 DEF Recv, CountReturned, SerialReturned, ReadReturned, GoOn, Return
  <2>3. Owed(h)' = expired[h]
    BY <1>1, <2>1, <2>2 DEF Owed
  <2>4. CASE h = Host
    <3>1. Under(h)' = Under(h) - 1 /\ Owed(h) = expired[h] + 1
      BY <1>1, <2>1, <2>4 DEF Under, Owed
    <3> QED
      BY <1>1, <2>3, <3>1 DEF Under
  <2>5. CASE h # Host
    <3>1. Under(h)' = Under(h) /\ Owed(h) = expired[h]
      BY <1>1, <2>1, <2>5 DEF Under, Owed
    <3> QED
      BY <1>1, <2>3, <3>1 DEF Under
  <2> QED
    BY <2>4, <2>5
<1>7. CASE TimeoutRetry \/ TimeoutGiveUp
  <2>1. UNCHANGED <<inbox, replies>> /\ Expire
    BY <1>7 DEF TimeoutRetry, TimeoutGiveUp, netVars
  <2>2. /\ pc = "recv" /\ expired'[Host] = expired[Host] + 1
        /\ h # Host => expired'[h] = expired[h]
    BY <2>1, ExpireForm
  <2>3. pc' # "recv"
    BY <1>7 DEF TimeoutRetry, TimeoutGiveUp, CountReturned, SerialReturned,
       GoOn, Return
  <2>4. Owed(h)' = expired'[h] /\ Owed(h) = expired'[h]
    BY <1>1, <2>2, <2>3 DEF Owed
  <2> QED
    BY <1>1, <2>1, <2>4 DEF Under
<1>8. ASSUME NEW g \in Hosts, HandleRequest(g) PROVE Under(h)' <= Owed(h)'
  <2>1. /\ inbox[g] # <<>> /\ inbox' = [inbox EXCEPT ![g] = Tail(@)]
        /\ UNCHANGED <<expired, pc, call, handles>>
    BY <1>8 DEF HandleRequest, clientVars
  <2>2. Owed(h)' = Owed(h)
    BY <2>1 DEF Owed, Host, Clients
  <2>3. Asks(inbox[g]) = Asks(Tail(inbox[g]))
                           + IF Expects(Head(inbox[g])) THEN 1 ELSE 0
    BY <1>1, <2>1, AsksLess
  <2>4. Asks(Tail(inbox[g])) \in Nat
    <3>1. Tail(inbox[g]) \in Seq(Request)
      BY <1>1, <2>1
    <3> QED
      BY <3>1, AskingFinite
  <2>5. Len(replies'[g]) = Len(replies[g])
                             + IF Expects(Head(inbox[g])) THEN 1 ELSE 0
    BY <1>1, <1>8, Handled
  <2>6. CASE h = g
    <3>1. Under(h)' = Under(h)
      <4>1. Asks(inbox'[h]) \in Nat /\ inbox'[h] = Tail(inbox[h])
        BY <1>1, <2>1, <2>4, <2>6
      <4>2. CASE Expects(Head(inbox[h]))
        <5>1. Asks(inbox[h]) = Asks(inbox'[h]) + 1
          BY <2>3, <2>6, <4>1, <4>2
        <5>2. Len(replies'[h]) = Len(replies[h]) + 1
          BY <2>5, <2>6, <4>2
        <5> QED
          BY <1>1, <4>1, <5>1, <5>2 DEF Under
      <4>3. CASE ~Expects(Head(inbox[h]))
        <5>1. Asks(inbox[h]) = Asks(inbox'[h]) + 0
          BY <2>3, <2>6, <4>1, <4>3
        <5>2. Len(replies'[h]) = Len(replies[h]) + 0
          BY <2>5, <2>6, <4>3
        <5> QED
          BY <1>1, <4>1, <5>1, <5>2 DEF Under
      <4> QED
        BY <4>2, <4>3
    <3> QED
      BY <1>1, <2>2, <3>1
  <2>7. CASE h # g
    <3>1. Under(h)' = Under(h)
      BY <1>1, <1>8, <2>1, <2>7 DEF Under, HandleRequest
    <3> QED
      BY <1>1, <2>2, <3>1
  <2> QED
    BY <2>6, <2>7
<1>9. ASSUME NEW g \in Hosts, LoseRequest(g) PROVE Under(h)' <= Owed(h)'
  <2>1. /\ inbox[g] # <<>> /\ inbox' = [inbox EXCEPT ![g] = Tail(@)]
        /\ UNCHANGED <<replies, expired, pc, call, handles>>
    BY <1>9 DEF LoseRequest, clientVars
  <2>2. Owed(h)' = Owed(h)
    BY <2>1 DEF Owed, Host, Clients
  <2>3. Asks(inbox[g]) = Asks(Tail(inbox[g]))
                           + IF Expects(Head(inbox[g])) THEN 1 ELSE 0
    BY <1>1, <2>1, AsksLess
  <2>4. Asks(Tail(inbox[g])) \in Nat
    <3>1. Tail(inbox[g]) \in Seq(Request)
      BY <1>1, <2>1
    <3> QED
      BY <3>1, AskingFinite
  <2>5. Under(h)' <= Under(h) /\ Under(h)' \in Nat
    BY <1>1, <2>1, <2>3, <2>4 DEF Under
  <2>6. Owed(h) \in Nat
    BY <1>1 DEF Owed
  <2> QED
    BY <1>1, <2>2, <2>5, <2>6 DEF Under
<1>10. ASSUME NEW g \in Hosts, LoseAnswer(g) PROVE Under(h)' <= Owed(h)'
  <2>1. /\ replies[g] # <<>> /\ replies' = [replies EXCEPT ![g] = Tail(@)]
        /\ UNCHANGED <<inbox, expired, pc, call, handles>>
    BY <1>10 DEF LoseAnswer, clientVars
  <2>2. Owed(h)' = Owed(h)
    BY <2>1 DEF Owed, Host, Clients
  <2>3. Under(h)' <= Under(h) /\ Under(h)' \in Nat
    BY <1>1, <2>1 DEF Under
  <2>4. Owed(h) \in Nat
    BY <1>1 DEF Owed
  <2> QED
    BY <1>1, <2>2, <2>3, <2>4 DEF Under
<1>11. CASE NetworkGoesDown
  BY <1>2, <1>11 DEF NetworkGoesDown, netVars, clientVars
<1>12. CASE Hotplug
  BY <1>2, <1>12 DEF Hotplug, ControllerComes, ControllerGoes, netVars, clientVars
<1>13. CASE UNCHANGED vars
  BY <1>2, <1>13 DEF vars, netVars, clientVars
<1> QED
  BY <1>4, <1>5, <1>6, <1>7, <1>8, <1>9, <1>10, <1>11, <1>12, <1>13
  DEF Next, Sending, SendFails, Network

\* The answers to come are never more than the timeouts there have been, plus
\* the one that is waited for.
THEOREM AnswersAreOwed == Spec => []AnswersOwed
BY InitTyped, StepTyped, InitOwed, StepOwed, PTL DEF Spec

-----------------------------------------------------------------------------
(* Answers match.                                                           *)

\* Of a host that has not let recv time out there is only what belongs to the
\* request that is waited for.
AllCurrent ==
  pc = "recv" /\ expired[Host] = 0 =>
    /\ \A i \in DOMAIN inbox[Host] :
         Expects(inbox[Host][i]) => inbox[Host][i] = Current
    /\ \A i \in DOMAIN replies[Host] : replies[Host][i].req = Current

MatchInv == AnswersOwed /\ AllCurrent

\* Of any other such host there is nothing.
LEMMA OnlyCurrent ==
  ASSUME Typed, MatchInv, NEW h \in Hosts, expired[h] = 0
  PROVE  /\ \A i \in DOMAIN inbox[h] : Expects(inbox[h][i]) =>
              pc = "recv" /\ Host = h /\ inbox[h][i] = Current
         /\ \A i \in DOMAIN replies[h] :
              pc = "recv" /\ Host = h /\ replies[h][i].req = Current
<1>1. CASE pc = "recv" /\ Host = h
  BY <1>1 DEF MatchInv, AllCurrent
<1>2. CASE ~(pc = "recv" /\ Host = h)
  <2>1. Owed(h) = 0
    BY <1>2 DEF Owed
  <2>2. replies[h] = <<>> /\ \A i \in DOMAIN inbox[h] : ~Expects(inbox[h][i])
    BY <2>1, NothingOwed DEF MatchInv
  <2> QED
    BY <2>2
<1> QED
  BY <1>1, <1>2

LEMMA StepMatch == Typed /\ MatchInv /\ [Next]_vars => AllCurrent'
<1> SUFFICES ASSUME Typed, MatchInv, [Next]_vars, pc' = "recv"
             PROVE  expired'[Host'] = 0 =>
                      /\ \A i \in DOMAIN inbox'[Host'] :
                           Expects(inbox'[Host'][i]) => inbox'[Host'][i] = Current'
                      /\ \A i \in DOMAIN replies'[Host'] :
                           replies'[Host'][i].req = Current'
  BY DEF AllCurrent, Expects
<1>1. ASSUME UNCHANGED <<pc, call, handles>>
      PROVE  Host' = Host /\ Current' = Current
  BY <1>1 DEF Host, Current, Clients
<1>2. ASSUME UNCHANGED <<inbox, replies, expired, pc, call, handles>>
      PROVE  expired'[Host'] = 0 =>
               /\ \A i \in DOMAIN inbox'[Host'] :
                    Expects(inbox'[Host'][i]) => inbox'[Host'][i] = Current'
               /\ \A i \in DOMAIN replies'[Host'] :
                    replies'[Host'][i].req = Current'
  BY <1>1, <1>2 DEF MatchInv, AllCurrent
<1>3. CASE Calls
  BY <1>3 DEF Calls, CountConnected, ConnectById, Poll, UpdateLeds, Begin
<1>4. CASE SendRequest
  <2>1. /\ inbox' = [inbox EXCEPT ![Host] = Append(@, Current)]
        /\ UNCHANGED <<replies, expired, handles, call>> /\ pc = "send"
        /\ Host \in Hosts /\ Current \in Request
    BY <1>4, CurrentForm DEF SendRequest, Return
  <2>2. Host' = Host /\ Current' = Current
    BY <2>1 DEF Host, Current, Clients
  <2>3. SUFFICES ASSUME expired[Host] = 0
                 PROVE  /\ \A i \in DOMAIN inbox'[Host] :
                             Expects(inbox'[Host][i]) => inbox'[Host][i] = Current
                        /\ \A i \in DOMAIN replies[Host] :
                             replies[Host][i].req = Current
    BY <2>1, <2>2
  <2>4. /\ \A i \in DOMAIN inbox[Host] : ~Expects(inbox[Host][i])
        /\ \A i \in DOMAIN replies[Host] : FALSE
    BY <2>1, <2>3, OnlyCurrent
  <2>5. inbox[Host] \in Seq(Request) /\ inbox'[Host] = Append(inbox[Host], Current)
    BY <2>1 DEF Typed, Shapes
  <2>6. \A i \in DOMAIN inbox'[Host] :
          \/ i \in DOMAIN inbox[Host] /\ inbox'[Host][i] = inbox[Host][i]
          \/ inbox'[Host][i] = Current
    BY <2>1, <2>5
  <2> QED
    BY <2>4, <2>6
<1>5. CASE Recv \/ TimeoutRetry \/ TimeoutGiveUp
  BY <1>5 DEF Recv, TimeoutRetry, TimeoutGiveUp, CountReturned, SerialReturned,
     ReadReturned, GoOn, Return
<1>6. ASSUME NEW h \in Hosts, HandleRequest(h)
      PROVE  expired'[Host'] = 0 =>
               /\ \A i \in DOMAIN inbox'[Host'] :
                    Expects(inbox'[Host'][i]) => inbox'[Host'][i] = Current'
               /\ \A i \in DOMAIN replies'[Host'] :
                    replies'[Host'][i].req = Current'
  <2>1. /\ inbox[h] # <<>> /\ inbox' = [inbox EXCEPT ![h] = Tail(@)]
        /\ UNCHANGED <<expired, pc, call, handles>>
    BY <1>6, Handled DEF clientVars
  <2>2. Host' = Host /\ Current' = Current /\ Host \in Hosts
    BY <1>1, <2>1, CurrentForm
  <2>3. SUFFICES ASSUME expired[Host] = 0
                 PROVE  /\ \A i \in DOMAIN inbox'[Host] :
                             Expects(inbox'[Host][i]) => inbox'[Host][i] = Current
                        /\ \A i \in DOMAIN replies'[Host] :
                             replies'[Host][i].req = Current
    BY <2>1, <2>2
  <2>4. /\ \A i \in DOMAIN inbox[Host] :
             Expects(inbox[Host][i]) => inbox[Host][i] = Current
        /\ \A i \in DOMAIN replies[Host] : replies[Host][i].req = Current
    BY <2>2, <2>3, OnlyCurrent
  <2>5. /\ inbox[Host] \in Seq(Request) /\ inbox \in [Hosts -> Seq(Request)]
        /\ replies[Host] \in Seq(Answer) /\ replies \in [Hosts -> Seq(Answer)]
    BY <2>2 DEF Typed, Shapes
  <2>6. \A i \in DOMAIN inbox'[Host] :
          \E j \in DOMAIN inbox[Host] : inbox'[Host][i] = inbox[Host][j]
    <3>1. CASE h = Host
      <4>1. /\ inbox'[Host] = Tail(inbox[Host]) /\ inbox[Host] # <<>>
        BY <2>1, <2>2, <2>5, <3>1
      <4>2. \A i \in DOMAIN inbox'[Host] :
              i + 1 \in DOMAIN inbox[Host] /\ inbox'[Host][i] = inbox[Host][i + 1]
        BY <2>5, <4>1
      <4> QED
        BY <4>2
    <3>2. CASE h # Host
      BY <2>1, <2>2, <2>5, <3>2
    <3> QED
      BY <3>1, <3>2
  <2>7. \A i \in DOMAIN replies'[Host] : replies'[Host][i].req = Current
    <3>1. CASE h = Host /\ Expects(Head(inbox[h]))
      <4>1. PICK a \in Answer :
              /\ a.req = Head(inbox[h])
              /\ replies' = [replies EXCEPT ![h] = Append(@, a)]
        BY <1>6, <3>1, Handled
      <4>2. a.req = Current
        <5>1. 1 \in DOMAIN inbox[Host] /\ Head(inbox[Host]) = inbox[Host][1]
          BY <2>1, <2>5, <3>1
        <5> QED
          BY <2>4, <3>1, <4>1, <5>1
      <4>3. replies'[Host] = Append(replies[Host], a)
        BY <2>5, <3>1, <4>1
      <4> QED
        BY <2>4, <2>5, <4>2, <4>3
    <3>2. CASE ~(h = Host /\ Expects(Head(inbox[h])))
      <4>1. replies'[Host] = replies[Host]
        BY <1>6, <2>2, <2>5, <3>2, Handled
      <4> QED
        BY <2>4, <4>1
    <3> QED
      BY <3>1, <3>2
  <2> QED
    BY <2>4, <2>6, <2>7 DEF Expects
<1>7. ASSUME NEW h \in Hosts, LoseRequest(h) \/ LoseAnswer(h)
      PROVE  expired'[Host'] = 0 =>
               /\ \A i \in DOMAIN inbox'[Host'] :
                    Expects(inbox'[Host'][i]) => inbox'[Host'][i] = Current'
               /\ \A i \in DOMAIN replies'[Host'] :
                    replies'[Host'][i].req = Current'
  <2>1. /\ \/ /\ inbox[h] # <<>> /\ inbox' = [inbox EXCEPT ![h] = Tail(@)]
              /\ UNCHANGED replies
           \/ /\ replies[h] # <<>> /\ replies' = [replies EXCEPT ![h] = Tail(@)]
              /\ UNCHANGED inbox
        /\ UNCHANGED <<expired, pc, call, handles>>
    BY <1>7 DEF LoseRequest, LoseAnswer, clientVars
  <2>2. Host' = Host /\ Current' = Current /\ Host \in Hosts
    BY <1>1, <2>1, CurrentForm
  <2>3. SUFFICES ASSUME expired[Host] = 0
                 PROVE  /\ \A i \in DOMAIN inbox'[Host] :
                             Expects(inbox'[Host][i]) => inbox'[Host][i] = Current
                        /\ \A i \in DOMAIN replies'[Host] :
                             replies'[Host][i].req = Current
    BY <2>1, <2>2
  <2>4. /\ \A i \in DOMAIN inbox[Host] :
             Expects(inbox[Host][i]) => inbox[Host][i] = Current
        /\ \A i \in DOMAIN replies[Host] : replies[Host][i].req = Current
    BY <2>2, <2>3, OnlyCurrent
  <2>5. /\ inbox[Host] \in Seq(Request) /\ inbox \in [Hosts -> Seq(Request)]
        /\ replies[Host] \in Seq(Answer) /\ replies \in [Hosts -> Seq(Answer)]
    BY <2>2 DEF Typed, Shapes
  <2>6. \/ inbox'[Host] = inbox[Host]
        \/ inbox'[Host] = Tail(inbox[Host]) /\ inbox[Host] # <<>>
    BY <2>1, <2>2, <2>5
  <2>7. \/ replies'[Host] = replies[Host]
        \/ replies'[Host] = Tail(replies[Host]) /\ replies[Host] # <<>>
    BY <2>1, <2>2, <2>5
  <2>8. \A i \in DOMAIN inbox'[Host] :
          \E j \in DOMAIN inbox[Host] : inbox'[Host][i] = inbox[Host][j]
    <3>1. CASE inbox'[Host] = inbox[Host]
      BY <3>1
    <3>2. CASE inbox'[Host] = Tail(inbox[Host]) /\ inbox[Host] # <<>>
      <4>1. \A i \in DOMAIN inbox'[Host] :
              i + 1 \in DOMAIN inbox[Host] /\ inbox'[Host][i] = inbox[Host][i + 1]
        BY <2>5, <3>2
      <4> QED
        BY <4>1
    <3> QED
      BY <2>6, <3>1, <3>2
  <2>9. \A i \in DOMAIN replies'[Host] :
          \E j \in DOMAIN replies[Host] : replies'[Host][i] = replies[Host][j]
    <3>1. CASE replies'[Host] = replies[Host]
      BY <3>1
    <3>2. CASE replies'[Host] = Tail(replies[Host]) /\ replies[Host] # <<>>
      <4>1. \A i \in DOMAIN replies'[Host] :
              i + 1 \in DOMAIN replies[Host] /\ replies'[Host][i] = replies[Host][i + 1]
        BY <2>5, <3>2
      <4> QED
        BY <4>1
    <3> QED
      BY <2>7, <3>1, <3>2
  <2> QED
    BY <2>4, <2>8, <2>9 DEF Expects
<1>8. CASE NetworkGoesDown \/ Hotplug \/ UNCHANGED vars
  BY <1>2, <1>8 DEF NetworkGoesDown, Hotplug, ControllerComes, ControllerGoes,
     netVars, clientVars, vars
<1> QED
  BY <1>3, <1>4, <1>5, <1>6, <1>7, <1>8 DEF Next, Sending, SendFails, Network

LEMMA InitMatch == Init => MatchInv
BY InitOwed DEF Init, MatchInv, AllCurrent

\* As long as recv has not timed out on a host, what it gets from it is the
\* answer to the request that was sent.
THEOREM AnswersAreMatched == Spec => []AnswersMatch
<1>1. Typed /\ MatchInv /\ [Next]_vars => MatchInv'
  BY StepOwed, StepMatch DEF MatchInv
<1>2. Typed /\ MatchInv => AnswersMatch
  <2> SUFFICES ASSUME Typed, MatchInv, pc = "recv", expired[Host] = 0,
                      replies[Host] # <<>>
               PROVE  Head(replies[Host]).req = Current
    BY DEF AnswersMatch
  <2>1. replies[Host] \in Seq(Answer)
    BY CurrentForm DEF Typed, Shapes
  <2>2. 1 \in DOMAIN replies[Host] /\ Head(replies[Host]) = replies[Host][1]
    BY <2>1
  <2> QED
    BY <2>2 DEF MatchInv, AllCurrent
<1> QED
  BY <1>1, <1>2, InitTyped, StepTyped, InitMatch, PTL DEF Spec

-----------------------------------------------------------------------------
(* Own data.                                                                *)

Quiet == removals = 0 /\ \A h \in Hosts : expired[h] = 0

\* The ids of a host in use are the numbers below its count.
Dense == \A h \in Hosts : DOMAIN table[h] = 0 .. (Size(h) - 1)

\* The id whose serial number is asked for is in use.
Found ==
  call.op = "serial" => call.arg - call.total \in DOMAIN table[Clients[call.at]]

HandlesOwn ==
  \A n \in DOMAIN handles :
    /\ handles[n].remote \in DOMAIN table[handles[n].host]
    /\ handles[n].serial = table[handles[n].host][handles[n].remote]
    /\ handles[n].input \in {Nothing, handles[n].serial}

\* An answer is true of the host it comes from.
Truthful(h, a) ==
  IF a.req.type = "COUNT" THEN a.first <= Size(h)
  ELSE a.req.id \in DOMAIN table[h] /\ a.device = table[h][a.req.id]
RepliesOwn ==
  \A h \in Hosts : \A i \in DOMAIN replies[h] : Truthful(h, replies[h][i])

AllOwn == Dense /\ Found /\ HandlesOwn /\ RepliesOwn
OwnInv == Quiet => AllOwn

\* Neither a removal nor a timeout is ever forgotten.
LEMMA QuietBefore ==
  ASSUME Typed, [Next]_vars, Quiet'
  PROVE  /\ Quiet /\ ~TimeoutRetry /\ ~TimeoutGiveUp
         /\ \A h \in Hosts : \A id \in DOMAIN table[h] : ~ControllerGoes(h, id)
<1>1. ASSUME Expire PROVE FALSE
  <2>1. Host \in Hosts /\ expired'[Host] = expired[Host] + 1
    BY <1>1, ExpireForm
  <2> QED
    BY <2>1 DEF Typed, Shapes, Quiet
<1>2. ASSUME NEW h \in Hosts, NEW id \in DOMAIN table[h], ControllerGoes(h, id)
      PROVE  FALSE
  BY <1>2 DEF ControllerGoes, Quiet, Typed, TypeOK
<1>3. ~TimeoutRetry /\ ~TimeoutGiveUp
  BY <1>1 DEF TimeoutRetry, TimeoutGiveUp
<1>4. UNCHANGED <<removals, expired>>
  BY <1>2, <1>3 DEF Next, Calls, CountConnected, ConnectById, Poll, UpdateLeds,
     Begin, Sending, SendRequest, SendFails, Recv, HandleRequest, Network,
     LoseRequest, LoseAnswer, NetworkGoesDown, Hotplug, ControllerComes, vars
<1> QED
  BY <1>2, <1>3, <1>4 DEF Quiet

\* What is true of a host stays true when a controller joins it.
LEMMA JoinedOwn ==
  ASSUME Typed, AllOwn, NEW h \in Hosts, NEW c \in Controllers,
         ControllerComes(h, c)
  PROVE  AllOwn'
<1>1. PICK id \in 0 .. Size(h) :
        /\ id \notin DOMAIN table[h]
        /\ \A n \in 0 .. (id - 1) : n \in DOMAIN table[h]
        /\ table' = [table EXCEPT ![h] = [n \in DOMAIN table[h] \cup {id} |->
                       IF n = id THEN c ELSE table[h][n]]]
        /\ UNCHANGED <<netVars, sendable, clientVars, expired, faults, removals>>
  BY ComesForm
<1> DEFINE t == [n \in DOMAIN table[h] \cup {id} |->
                   IF n = id THEN c ELSE table[h][n]]
<1>2. Size(h) \in Nat /\ \A g \in Hosts : Size(g) \in Nat
  BY FS_CardinalityType DEF Size, Typed, Shapes
<1>3. /\ table'[h] = t
      /\ \A g \in Hosts : g # h => table'[g] = table[g]
  BY <1>1 DEF Typed, Shapes
<1>4. id = Size(h) /\ DOMAIN table[h] = 0 .. (Size(h) - 1)
  BY <1>1, <1>2 DEF AllOwn, Dense
<1>5. DOMAIN t = 0 .. Size(h)
  BY <1>2, <1>4
<1>6. Size(h)' = Size(h) + 1
  <2>1. Cardinality(0 .. Size(h)) = Size(h) - 0 + 1
    BY <1>2, FS_Interval
  <2>2. Size(h)' = Cardinality(DOMAIN t)
    BY <1>3 DEF Size
  <2> HIDE DEF t
  <2> QED
    BY <1>2, <1>5, <2>1, <2>2
<1>7. \A g \in Hosts : g # h => Size(g)' = Size(g)
  BY <1>3 DEF Size
<1>8. Dense'
  <2>1. DOMAIN table'[h] = 0 .. (Size(h)' - 1)
    BY <1>2, <1>3, <1>5, <1>6
  <2>2. \A g \in Hosts : g # h => DOMAIN table'[g] = 0 .. (Size(g)' - 1)
    BY <1>3, <1>7 DEF AllOwn, Dense
  <2> QED
    BY <2>1, <2>2 DEF Dense
<1>9. \A g \in Hosts : \A n \in DOMAIN table[g] :
        n \in DOMAIN table'[g] /\ table'[g][n] = table[g][n]
  BY <1>1, <1>3
<1>10. UNCHANGED <<call, handles, replies>>
  BY <1>1 DEF netVars, clientVars
<1> HIDE DEF t
<1>11. Found'
  <2>1. SUFFICES ASSUME call.op = "serial"
                 PROVE  call.arg - call.total \in DOMAIN table'[Clients[call.at]]
    BY <1>10 DEF Found, Clients
  <2>2. Clients[call.at] \in Hosts
    BY <2>1, ClientsList DEF Typed, CallOK
  <2> QED
    BY <1>9, <2>1, <2>2 DEF AllOwn, Found
<1>12. HandlesOwn'
  <2>1. \A n \in DOMAIN handles : handles[n] \in Handle
    BY DEF Typed, TypeOK
  <2>2. \A n \in DOMAIN handles : handles[n].host \in Hosts
    BY <2>1 DEF Handle
  <2> QED
    BY <1>9, <1>10, <2>2 DEF AllOwn, HandlesOwn
<1>13. RepliesOwn'
  <2>1. SUFFICES ASSUME NEW g \in Hosts, NEW i \in DOMAIN replies[g]
                 PROVE  Truthful(g, replies[g][i])'
    BY <1>10 DEF RepliesOwn
  <2>2. Truthful(g, replies[g][i]) /\ replies[g][i].first \in Nat
    <3>1. replies[g][i] \in Answer
      BY <2>1 DEF Typed, TypeOK
    <3> QED
      BY <2>1, <3>1 DEF AllOwn, RepliesOwn, Answer
  <2>3. Size(g) <= Size(g)'
    BY <1>2, <1>6, <1>7
  <2>4. Size(g)' \in Nat
    BY <1>2, <1>6, <1>7
  <2> QED
    BY <1>2, <1>9, <1>10, <2>1, <2>2, <2>3, <2>4 DEF Truthful
<1> QED
  BY <1>8, <1>11, <1>12, <1>13 DEF AllOwn

\* While the tables stand, a step must see to the call, the handles and the
\* answers.
LEMMA StandingOwn ==
  ASSUME AllOwn, UNCHANGED table, Found', HandlesOwn',
         \A h \in Hosts : \A i \in DOMAIN replies'[h] : Truthful(h, replies'[h][i])
  PROVE  AllOwn'
BY DEF AllOwn, Dense, Size, RepliesOwn, Truthful

\* What recv takes from a queue leaves the rest of it.
LEMMA FewerReplies ==
  ASSUME Typed, RepliesOwn, NEW h \in Hosts, replies[h] # <<>>,
         replies' = [replies EXCEPT ![h] = Tail(@)]
  PROVE  /\ Truthful(h, Head(replies[h]))
         /\ \A g \in Hosts : \A i \in DOMAIN replies'[g] : Truthful(g, replies'[g][i])
<1>1. replies \in [Hosts -> Seq(Answer)] /\ replies[h] \in Seq(Answer)
  BY DEF Typed, Shapes
<1>2. 1 \in DOMAIN replies[h] /\ Head(replies[h]) = replies[h][1]
  BY <1>1
<1>3. replies'[h] = Tail(replies[h])
  BY <1>1
<1>4. \A i \in DOMAIN replies'[h] :
        i + 1 \in DOMAIN replies[h] /\ replies'[h][i] = replies[h][i + 1]
  BY <1>1, <1>3
<1>5. \A g \in Hosts : g # h => replies'[g] = replies[g]
  BY <1>1
<1> QED
  BY <1>2, <1>4, <1>5 DEF RepliesOwn

LEMMA RecvOwn ==
  ASSUME Typed, MatchInv, Quiet, AllOwn, Recv
  PROVE  AllOwn'
<1> DEFINE answer == Head(replies[Host])
           data == IF answer.req.type = Current.type THEN answer.device
                                                     ELSE Garbage
<1>1. /\ pc = "recv" /\ replies[Host] # <<>> /\ Host \in Hosts
      /\ replies' = [replies EXCEPT ![Host] = Tail(@)]
      /\ UNCHANGED table
  BY CurrentForm DEF Recv, Dequeue
<1>2. /\ Truthful(Host, answer)
      /\ \A g \in Hosts : \A i \in DOMAIN replies'[g] : Truthful(g, replies'[g][i])
  BY <1>1, FewerReplies DEF AllOwn
<1>3. answer.req = Current
  <2>1. 1 \in DOMAIN replies[Host] /\ answer = replies[Host][1]
    BY <1>1 DEF Typed, Shapes
  <2> QED
    BY <1>1, <2>1, OnlyCurrent DEF Quiet
<1>4. answer.first \in Nat /\ data \in Controllers \cup {Nothing, Garbage}
  BY <1>1, DataForm
<1>5. Current.type # "COUNT" =>
        Current.id \in DOMAIN table[Host] /\ data = table[Host][Current.id]
  BY <1>2, <1>3 DEF Truthful
<1> HIDE DEF data
<1>6. Found' /\ HandlesOwn'
  <2>1. CASE /\ Current.type = "COUNT" /\ CountReturned(answer.first)
             /\ UNCHANGED handles
    <3>1. HandlesOwn'
      BY <1>1, <2>1 DEF AllOwn, HandlesOwn
    <3>2. ASSUME call'.op = "serial"
          PROVE  call'.arg - call'.total \in DOMAIN table[Clients[call'.at]]
      <4>1. /\ call'.at = call.at /\ call'.arg = call.arg
            /\ call'.total = call.total /\ call.total <= call.arg
            /\ call.arg - call.total < answer.first
        BY <1>1, <1>4, <2>1, <3>2, CountOutcome
      <4>2. Host = Clients[call.at]
        BY <1>1, <2>1, CurrentForm DEF Host
      <4>3. answer.first <= Size(Host)
        BY <1>2, <1>3, <2>1 DEF Truthful
      <4>4. DOMAIN table[Host] = 0 .. (Size(Host) - 1) /\ Size(Host) \in Nat
        BY <1>1, FS_CardinalityType DEF AllOwn, Dense, Size, Typed, Shapes
      <4>5. call.arg \in Nat /\ call.total \in Nat
        BY DEF Typed, CallOK
      <4> HIDE DEF answer
      <4>6. call.arg - call.total \in 0 .. (Size(Host) - 1)
        BY <1>4, <4>1, <4>3, <4>4, <4>5
      <4> QED
        BY <4>1, <4>2, <4>4, <4>6
    <3> QED
      BY <1>1, <3>1, <3>2 DEF Found, Clients
  <2>2. CASE /\ Current.type = "SERIAL" /\ SerialReturned(data)
             /\ UNCHANGED counted
    <3>1. /\ call'.op = "none" /\ handles' \in Seq(Handle)
          /\ Len(handles') = Len(handles) + 1
          /\ \A n \in DOMAIN handles : handles'[n] = handles[n]
          /\ handles'[Len(handles) + 1] =
               [id |-> call.arg, host |-> Host, remote |-> Current.id,
                serial |-> data, input |-> Nothing]
      BY <1>1, <1>4, <2>2, SerialOutcome
    <3>2. \A n \in DOMAIN handles' : n \in DOMAIN handles \/ n = Len(handles) + 1
      BY <3>1 DEF Typed, TypeOK
    <3>3. HandlesOwn'
      BY <1>1, <1>5, <2>2, <3>1, <3>2 DEF AllOwn, HandlesOwn
    <3> QED
      BY <3>1, <3>3 DEF Found
  <2>3. CASE /\ Current.type = "READ" /\ ReadReturned(data)
             /\ UNCHANGED counted
    <3>1. /\ call'.op = "none" /\ call.arg \in DOMAIN handles
          /\ DOMAIN handles' = DOMAIN handles
          /\ handles'[call.arg] = [handles[call.arg] EXCEPT !.input = data]
          /\ \A n \in DOMAIN handles : n # call.arg => handles'[n] = handles[n]
      BY <1>1, <1>4, <2>3, ReadOutcome
    <3>2. handles[call.arg] \in Handle
      BY <3>1 DEF Typed, TypeOK
    <3>3. /\ handles'[call.arg].remote = handles[call.arg].remote
          /\ handles'[call.arg].host = handles[call.arg].host
          /\ handles'[call.arg].serial = handles[call.arg].serial
          /\ handles'[call.arg].input = data
      BY <3>1, <3>2 DEF Handle
    <3>4. data = handles[call.arg].serial
      <4>1. /\ Current.id = handles[call.arg].remote
            /\ Host = handles[call.arg].host
        BY <1>1, <2>3, CurrentForm
      <4> QED
        BY <1>5, <2>3, <3>1, <4>1 DEF AllOwn, HandlesOwn
    <3>5. HandlesOwn'
      <4> SUFFICES ASSUME NEW n \in DOMAIN handles
                   PROVE  /\ handles'[n].remote \in DOMAIN table[handles'[n].host]
                          /\ handles'[n].serial =
                               table[handles'[n].host][handles'[n].remote]
                          /\ handles'[n].input \in {Nothing, handles'[n].serial}
        BY <1>1, <3>1 DEF HandlesOwn
      <4>1. CASE n = call.arg
        BY <3>1, <3>3, <3>4, <4>1 DEF AllOwn, HandlesOwn
      <4>2. CASE n # call.arg
        BY <3>1, <4>2 DEF AllOwn, HandlesOwn
      <4> QED
        BY <4>1, <4>2
    <3> QED
      BY <3>1, <3>5 DEF Found
  <2> QED
    BY <2>1, <2>2, <2>3 DEF Recv, data
<1> QED
  BY <1>1, <1>2, <1>6, StandingOwn

LEMMA HandleOwn ==
  ASSUME Typed, MatchInv, Quiet, AllOwn, NEW h \in Hosts, HandleRequest(h)
  PROVE  AllOwn'
<1> DEFINE req == Head(inbox[h])
<1>1. /\ inbox[h] # <<>> /\ UNCHANGED <<table, clientVars>>
      /\ inbox[h] \in Seq(Request)
      /\ replies[h] \in Seq(Answer) /\ replies \in [Hosts -> Seq(Answer)]
  BY Handled DEF Typed, Shapes
<1>2. Found' /\ HandlesOwn'
  BY <1>1 DEF AllOwn, Found, HandlesOwn, clientVars, Clients
<1>3. CASE ~Expects(req) /\ replies' = replies
  BY <1>1, <1>2, <1>3, StandingOwn DEF AllOwn, RepliesOwn
<1>4. CASE Expects(req)
  <2>1. PICK a \in Answer :
          /\ a.req = req /\ a.device = Device(h, req.id)
          /\ a.first \in FirstByte(h, req)
          /\ replies' = [replies EXCEPT ![h] = Append(@, a)]
    BY <1>4, Handled
  <2>2. pc = "recv" /\ Host = h /\ req = Current
    <3>1. 1 \in DOMAIN inbox[h] /\ req = inbox[h][1]
      BY <1>1
    <3> QED
      BY <1>4, <3>1, OnlyCurrent DEF Quiet
  <2>3. Truthful(h, a)
    <3>1. Size(h) \in Nat
      BY FS_CardinalityType DEF Size, Typed, Shapes
    <3>2. CASE req.type = "COUNT"
      <4>1. a.first = Size(h)
        BY <2>1, <3>2 DEF FirstByte
      <4> QED
        BY <2>1, <3>1, <3>2, <4>1 DEF Truthful
    <3>3. CASE call.op \in {"serial", "read"}
      <4>1. req.id \in DOMAIN table[h]
        BY <2>2, <3>3, CurrentForm DEF AllOwn, Found, HandlesOwn, Typed, CallOK
      <4>2. req.type # "COUNT" /\ a.device = table[h][req.id]
        BY <2>1, <2>2, <3>3, <4>1, CurrentForm DEF Device
      <4> QED
        BY <2>1, <4>1, <4>2 DEF Truthful
    <3> QED
      BY <1>4, <2>2, <3>2, <3>3, CurrentForm DEF Expects, Typed, CallOK, Ops
  <2>4. replies'[h] = Append(replies[h], a)
        /\ \A g \in Hosts : g # h => replies'[g] = replies[g]
    BY <1>1, <2>1
  <2>5. \A i \in DOMAIN replies'[h] :
          \/ i \in DOMAIN replies[h] /\ replies'[h][i] = replies[h][i]
          \/ replies'[h][i] = a
    BY <1>1, <2>4
  <2>6. \A g \in Hosts : \A i \in DOMAIN replies'[g] : Truthful(g, replies'[g][i])
    BY <2>3, <2>4, <2>5 DEF AllOwn, RepliesOwn
  <2> QED
    BY <1>1, <1>2, <2>6, StandingOwn
<1> QED
  BY <1>3, <1>4, Handled

LEMMA StepOwn == Typed /\ MatchInv /\ OwnInv /\ [Next]_vars => OwnInv'
<1> SUFFICES ASSUME Typed, MatchInv, OwnInv, [Next]_vars, Quiet' PROVE AllOwn'
  BY DEF OwnInv
<1>1. /\ Quiet /\ ~TimeoutRetry /\ ~TimeoutGiveUp /\ AllOwn
      /\ \A h \in Hosts : \A id \in DOMAIN table[h] : ~ControllerGoes(h, id)
  BY QuietBefore DEF OwnInv
<1>2. ASSUME UNCHANGED <<table, replies, handles>>, call' = call \/ call'.op # "serial"
      PROVE  AllOwn'
  <2>1. Found' /\ HandlesOwn'
    BY <1>1, <1>2 DEF AllOwn, Found, HandlesOwn, Clients
  <2> QED
    BY <1>1, <1>2, <2>1, StandingOwn DEF AllOwn, RepliesOwn
<1>3. CASE Calls
  <2>1. PICK op \in {"count", "find", "read", "write"} : \E arg, at : Begin(op, arg, at)
    BY <1>3 DEF Calls, CountConnected, ConnectById, Poll, UpdateLeds
  <2>2. call'.op # "serial" /\ UNCHANGED <<table, replies, handles>>
    BY <2>1 DEF Begin, netVars
  <2> QED
    BY <1>2, <2>2
<1>4. CASE SendRequest
  BY <1>2, <1>4 DEF SendRequest, Return, NoCall
<1>5. CASE Recv
  BY <1>1, <1>5, RecvOwn
<1>6. ASSUME NEW h \in Hosts, HandleRequest(h) PROVE AllOwn'
  BY <1>1, <1>6, HandleOwn
<1>7. ASSUME NEW h \in Hosts, LoseAnswer(h) PROVE AllOwn'
  <2>1. /\ replies[h] # <<>> /\ replies' = [replies EXCEPT ![h] = Tail(@)]
        /\ UNCHANGED <<table, clientVars>>
    BY <1>7 DEF LoseAnswer
  <2>2. Found' /\ HandlesOwn'
    BY <1>1, <2>1 DEF AllOwn, Found, HandlesOwn, clientVars, Clients
  <2> QED
    BY <1>1, <2>1, <2>2, FewerReplies, StandingOwn DEF AllOwn
<1>8. ASSUME NEW h \in Hosts, LoseRequest(h) PROVE AllOwn'
  BY <1>2, <1>8 DEF LoseRequest, clientVars
<1>9. ASSUME NEW h \in Hosts, NEW c \in Controllers, ControllerComes(h, c)
      PROVE  AllOwn'
  BY <1>1, <1>9, JoinedOwn
<1>10. CASE NetworkGoesDown \/ UNCHANGED vars
  BY <1>2, <1>10 DEF NetworkGoesDown, vars, netVars, clientVars
<1> QED
  BY <1>1, <1>3, <1>4, <1>5, <1>6, <1>7, <1>8, <1>9, <1>10
  DEF Next, Sending, SendFails, Network, Hotplug

LEMMA InitOwn == Init => OwnInv
<1> SUFFICES ASSUME Init PROVE AllOwn
  BY DEF OwnInv
<1>1. ASSUME NEW h \in Hosts PROVE DOMAIN table[h] = 0 .. (Size(h) - 1)
  <2>1. DOMAIN table[h] \in {{}, {0}}
    BY DEF Init
  <2>2. CASE DOMAIN table[h] = {}
    <3>1. Size(h) = 0
      BY <2>2, FS_EmptySet DEF Size
    <3> QED
      BY <2>2, <3>1
  <2>3. CASE DOMAIN table[h] = {0}
    <3>1. Size(h) = 1
      BY <2>3, FS_Singleton DEF Size
    <3> QED
      BY <2>3, <3>1
  <2> QED
    BY <2>1, <2>2, <2>3
<1>2. /\ handles = <<>> /\ call.op = "none" /\ \A h \in Hosts : replies[h] = <<>>
  BY DEF Init, NoCall
<1> QED
  BY <1>1, <1>2 DEF AllOwn, Dense, Found, HandlesOwn, RepliesOwn

\* Unless controllers are removed or recv times out, the data of a handle come
\* from the controller whose serial number it has.
THEOREM OwnDataHolds == Spec => []OwnData
<1>1. Typed /\ MatchInv /\ [Next]_vars => MatchInv'
  BY StepOwed, StepMatch DEF MatchInv
<1>2. Typed /\ OwnInv => OwnData
  <2> SUFFICES ASSUME Typed, OwnInv, Quiet, NEW n \in DOMAIN handles
               PROVE  /\ handles[n].serial \in Controllers
                      /\ handles[n].input \in {Nothing, handles[n].serial}
    BY DEF OwnData, Quiet
  <2>1. handles[n] \in Handle
    BY DEF Typed, TypeOK
  <2>2. handles[n].host \in Hosts
    BY <2>1 DEF Handle
  <2> QED
    BY <2>2 DEF OwnInv, AllOwn, HandlesOwn, Typed, TypeOK
<1> QED
  BY <1>1, <1>2, InitTyped, StepTyped, InitMatch, InitOwn, StepOwn, PTL DEF Spec

-----------------------------------------------------------------------------
(* Numbers along the list of hosts.                                         *)

\* What is true of no smallest number is true of none.
LEMMA Smallest ==
  ASSUME NEW T \in SUBSET Nat, T # {}
  PROVE  \E n \in T : \A k \in T : n <= k
<1> DEFINE Less == {ss \in Nat \X Nat : ss[1] < ss[2]}
<1>1. IsWellFoundedOn(Less, Nat)
  BY NatLessThanWellFounded, Zenon DEF OpToRel
<1>2. PICK n \in T : \A k \in T : ~ (<<k, n>> \in Less)
  <2> HIDE DEF Less
  <2> QED
    BY <1>1, WFMin
<1>3. ASSUME NEW k \in T PROVE n <= k
  <2>1. k \in Nat /\ n \in Nat
    OBVIOUS
  <2>2. k < n => <<k, n>> \in Less
    BY <2>1
  <2>3. <<k, n>> \notin Less
    <3> HIDE DEF Less
    <3> QED
      BY <1>2
  <2> QED
    BY ONLY <2>1, <2>2, <2>3, SMT
<1> QED
  BY <1>3

\* The sums over the hosts that come first, in a list of n hosts: they exist.
Adds(g, list, n) ==
  g = [i \in 1 .. n |-> IF i = 1 THEN 0 ELSE g[i - 1] + Size(list[i - 1])]

LEMMA SumsExist ==
  ASSUME NEW list, NEW n \in Nat
  PROVE  \E g : Adds(g, list, n)
<1> DEFINE T == {k \in Nat : ~ \E g : Adds(g, list, k)}
<1> SUFFICES ASSUME T # {} PROVE FALSE
  OBVIOUS
<1> HIDE DEF T
<1>1. PICK k \in T : \A j \in T : k <= j
  BY Smallest DEF T
<1>2. k \in Nat /\ ~ \E g : Adds(g, list, k)
  BY DEF T
<1>3. CASE k = 0
  <2> DEFINE g == [i \in 1 .. 0 |-> 0]
  <2>1. g = [i \in 1 .. 0 |-> IF i = 1 THEN 0 ELSE g[i - 1] + Size(list[i - 1])]
    OBVIOUS
  <2> QED
    BY <1>2, <1>3, <2>1 DEF Adds
<1>4. CASE k # 0
  <2>1. PICK g : Adds(g, list, k - 1)
    <3>1. k - 1 \in Nat /\ k - 1 \notin T
      BY <1>1, <1>2, <1>4
    <3> QED
      BY <3>1 DEF T
  <2> DEFINE h == [i \in 1 .. k |->
                     IF i = 1 THEN 0 ELSE g[i - 1] + Size(list[i - 1])]
  <2>2. \A i \in 1 .. (k - 1) : h[i] = g[i]
    BY <1>2, <1>4, <2>1 DEF Adds
  <2>3. \A i \in 1 .. k : i # 1 => i - 1 \in 1 .. (k - 1)
    BY <1>2, <1>4
  <2>4. h = [i \in 1 .. k |-> IF i = 1 THEN 0 ELSE h[i - 1] + Size(list[i - 1])]
    BY <2>2, <2>3
  <2> HIDE DEF h
  <2> QED
    BY <1>2, <2>4 DEF Adds
<1> QED
  BY <1>3, <1>4

\* Before satisfies the equations it is defined by.
LEMMA BeforeAdds ==
  ASSUME NEW list \in Seq(Hosts)
  PROVE  /\ list # <<>> => Before(list, 1) = 0
         /\ \A a \in 1 .. (Len(list) - 1) :
              Before(list, a + 1) = Before(list, a) + Size(list[a])
<1> DEFINE n == Len(list)
           sum == CHOOSE g : Adds(g, list, n)
<1>1. n \in Nat /\ DOMAIN list = 1 .. n
  OBVIOUS
<1>2. Adds(sum, list, n)
  <2> HIDE DEF n
  <2> QED
    BY <1>1, SumsExist
<1>3. \A a : Before(list, a) = sum[a]
  BY <1>1 DEF Before, Adds
<1> HIDE DEF n, sum
<1>4. \A i \in 1 .. n :
        sum[i] = IF i = 1 THEN 0 ELSE sum[i - 1] + Size(list[i - 1])
  BY <1>2 DEF Adds
<1>5. \A a \in 1 .. (n - 1) : a + 1 \in 1 .. n /\ a + 1 # 1 /\ (a + 1) - 1 = a
  BY <1>1
<1>6. list # <<>> => 1 \in 1 .. n
  BY DEF n
<1> QED
  BY <1>3, <1>4, <1>5, <1>6 DEF n

LEMMA BeforeSame ==
  ASSUME UNCHANGED table
  PROVE  \A list, a : Before(list, a)' = Before(list, a)
BY DEF Before, Size

\* The hosts in the order of the code, and how many controllers they have.
Offset(a) == Before(Clients, a)
Total == Offset(Len(Clients)) + Size(Clients[Len(Clients)])

LEMMA Offsets ==
  ASSUME Typed
  PROVE  /\ Offset(1) = 0
         /\ \A a \in 1 .. (Len(Clients) - 1) :
              Offset(a + 1) = Offset(a) + Size(Clients[a])
         /\ \A a \in 1 .. Len(Clients) : Size(Clients[a]) \in Nat
<1>1. Clients \in Seq(Hosts) /\ Clients # <<>>
  <2>1. HostFile \in Seq(Hosts) /\ HostFile # <<>>
    BY ClientAssumption
  <2>2. Clients = [i \in 1 .. Len(HostFile) |-> HostFile[Len(HostFile) + 1 - i]]
    BY <2>1 DEF Clients
  <2>3. \A i \in 1 .. Len(HostFile) : HostFile[Len(HostFile) + 1 - i] \in Hosts
    BY <2>1
  <2> QED
    BY <2>1, <2>2, <2>3
<1>2. \A h \in Hosts : Size(h) \in Nat
  BY FS_CardinalityType DEF Size, Typed, Shapes
<1> QED
  BY <1>1, <1>2, BeforeAdds, ClientsList DEF Offset

\* While nothing has disturbed the counting, a call has added up the hosts it
\* has asked, what it looks for is still ahead of it, a COUNT is exact, and
\* every handle has the number of its controller.
Ahead ==
  /\ call.op \in {"count", "find", "serial"} => call.total = Offset(call.at)
  /\ call.op = "find" => call.arg < Total
Exact ==
  \A h \in Hosts : \A i \in DOMAIN replies[h] :
    replies[h][i].req.type = "COUNT" => replies[h][i].first = Size(h)
Numbered ==
  \A n \in DOMAIN handles :
    \E a \in DOMAIN Clients : /\ Clients[a] = handles[n].host
                              /\ handles[n].id = Offset(a) + handles[n].remote
AllCounted == Ahead /\ Exact /\ Numbered /\ counted \in {0, Total}
CountInv == Undisturbed => AllCounted

LEMMA UndisturbedBefore ==
  ASSUME Typed, [Next]_vars, Undisturbed'
  PROVE  /\ Undisturbed /\ UNCHANGED table /\ Quiet
         /\ ~TimeoutRetry /\ ~TimeoutGiveUp /\ ~Hotplug
<1>1. removals' = 0
  <2>1. Typed'
    BY StepTyped
  <2>2. removals' \in 0 .. moves'
    BY <2>1 DEF Typed, TypeOK
  <2> QED
    BY <2>2 DEF Undisturbed
<1>2. Quiet /\ ~TimeoutRetry /\ ~TimeoutGiveUp
  BY <1>1, QuietBefore DEF Quiet, Undisturbed
<1>3. ~Hotplug
  <2>1. Hotplug => moves' = moves + 1
    BY DEF Hotplug, ControllerComes, ControllerGoes
  <2>2. moves \in Nat /\ moves' = 0
    BY ClientAssumption DEF Undisturbed, Typed, TypeOK
  <2> QED
    BY <2>1, <2>2
<1>4. UNCHANGED <<moves, expired, table>>
  BY <1>2, <1>3 DEF Next, Calls, CountConnected, ConnectById, Poll, UpdateLeds,
     Begin, Sending, SendRequest, SendFails, Recv, HandleRequest, Network,
     LoseRequest, LoseAnswer, NetworkGoesDown, vars
<1> QED
  BY <1>2, <1>3, <1>4 DEF Undisturbed

\* The tables stand, so a step must see to the rest.
LEMMA StandingCounted ==
  ASSUME AllCounted, UNCHANGED table
  PROVE  /\ UNCHANGED handles => Numbered'
         /\ UNCHANGED replies => Exact'
         /\ UNCHANGED counted => (counted \in {0, Total})'
         /\ UNCHANGED call => Ahead'
         /\ call'.op \notin {"count", "find", "serial"} => Ahead'
         /\ Total' = Total /\ \A a : Offset(a)' = Offset(a)
         /\ \A h \in Hosts : Size(h)' = Size(h)
<1>1. /\ \A a : Offset(a)' = Offset(a)
      /\ \A h : Size(h)' = Size(h)
  BY BeforeSame DEF Offset, Size, Clients
<1>2. Total' = Total
  BY <1>1 DEF Total, Clients
<1> QED
  BY <1>1, <1>2 DEF AllCounted, Numbered, Exact, Ahead, Clients

LEMMA InitCounted == Init => CountInv
<1> SUFFICES ASSUME Init PROVE AllCounted
  BY DEF CountInv
<1>1. /\ handles = <<>> /\ call.op = "none" /\ counted = 0
      /\ \A h \in Hosts : replies[h] = <<>>
  BY DEF Init, NoCall
<1> QED
  BY <1>1 DEF AllCounted, Ahead, Exact, Numbered

\* COUNT has been answered: the sum goes on, or comes to an end.
LEMMA SumGoesOn ==
  ASSUME Typed, AllCounted, pc = "recv", Current.type = "COUNT",
         CountReturned(Size(Host)), UNCHANGED table
  PROVE  /\ Ahead' /\ counted' \in {0, Total}
         /\ call.op = "find" => call'.op \in {"find", "serial"}
<1>1. /\ call \in [op : Ops, arg : Nat, at : Nat, total : Nat]
      /\ call.op \in {"count", "find"} /\ call.at \in 1 .. Len(Clients)
      /\ Host = Clients[call.at] /\ Len(Clients) \in Nat
  BY CurrentForm, ClientsList DEF Typed, CallOK, Host
<1>2. /\ call.total = Offset(call.at) /\ counted \in {0, Total}
      /\ call.op = "find" => call.arg < Total
  BY <1>1 DEF AllCounted, Ahead
<1>3. Total' = Total /\ \A a : Offset(a)' = Offset(a)
  BY StandingCounted
<1>4. call.total \in Nat /\ call.arg \in Nat /\ Size(Host) \in Nat
  BY <1>1, Offsets
<1>5. Clients' = Clients
  BY DEF Clients
<1>6. CASE call.op = "find" /\ call.arg - call.total < Size(Host)
  <2>1. call' = [call EXCEPT !.op = "serial"] /\ counted' = counted
    BY <1>6 DEF CountReturned, GoOn
  <2>2. call'.op = "serial" /\ call'.total = call.total /\ call'.at = call.at
    BY <1>1, <2>1
  <2> QED
    BY <1>2, <1>3, <2>1, <2>2 DEF Ahead
<1>7. CASE /\ ~(call.op = "find" /\ call.arg - call.total < Size(Host))
           /\ call.at < Len(Clients)
  <2>1. /\ call' = [call EXCEPT !.at = @ + 1, !.total = @ + Size(Host)]
        /\ counted' = counted
    BY <1>7 DEF CountReturned, GoOn
  <2>2. /\ call'.op = call.op /\ call'.arg = call.arg
        /\ call'.at = call.at + 1 /\ call'.total = call.total + Size(Host)
    BY <1>1, <2>1
  <2>3. Offset(call.at + 1) = call.total + Size(Host)
    <3>1. call.at \in 1 .. (Len(Clients) - 1)
      BY <1>1, <1>7
    <3> QED
      BY <1>1, <1>2, <3>1, Offsets
  <2> QED
    BY <1>1, <1>2, <1>3, <2>1, <2>2, <2>3 DEF Ahead
<1>8. CASE /\ ~(call.op = "find" /\ call.arg - call.total < Size(Host))
           /\ ~(call.at < Len(Clients))
  <2>1. call.at = Len(Clients)
    BY <1>1, <1>8
  <2>2. Total = call.total + Size(Host)
    BY <1>1, <1>2, <2>1 DEF Total
  <2>3. call.op # "find"
    BY <1>2, <1>4, <1>8, <2>2
  <2>4. call' = NoCall /\ counted' = call.total + Size(Host)
    BY <1>1, <1>8, <2>3 DEF CountReturned, Return
  <2> QED
    BY <2>2, <2>3, <2>4 DEF Ahead, NoCall
<1> QED
  BY <1>6, <1>7, <1>8

LEMMA RecvCounted ==
  ASSUME Typed, MatchInv, Quiet, AllOwn, AllCounted, Recv
  PROVE  /\ AllCounted'
         /\ call.op = "find" => call'.op \in {"find", "serial"}
<1> DEFINE answer == Head(replies[Host])
           data == IF answer.req.type = Current.type THEN answer.device
                                                     ELSE Garbage
<1>1. /\ pc = "recv" /\ replies[Host] # <<>> /\ Host \in Hosts
      /\ replies' = [replies EXCEPT ![Host] = Tail(@)]
      /\ UNCHANGED table
  BY CurrentForm DEF Recv, Dequeue
<1>2. /\ 1 \in DOMAIN replies[Host] /\ answer = replies[Host][1]
      /\ replies[Host] \in Seq(Answer) /\ replies \in [Hosts -> Seq(Answer)]
  BY <1>1 DEF Typed, Shapes
<1>3. answer.req = Current
  BY <1>1, <1>2, OnlyCurrent DEF Quiet
<1>4. data \in Controllers \cup {Nothing, Garbage}
  BY <1>1, DataForm
<1>5. Current.type = "COUNT" => answer.first = Size(Host)
  BY <1>1, <1>2, <1>3 DEF AllCounted, Exact
<1>6. Exact'
  <2>1. \A i \in DOMAIN replies'[Host] :
          i + 1 \in DOMAIN replies[Host] /\ replies'[Host][i] = replies[Host][i + 1]
    BY <1>1, <1>2
  <2>2. \A g \in Hosts : g # Host => replies'[g] = replies[g]
    BY <1>1, <1>2
  <2>3. \A g \in Hosts : Size(g)' = Size(g)
    BY <1>1 DEF Size
  <2> HIDE DEF answer, data
  <2> QED
    BY <2>1, <2>2, <2>3 DEF AllCounted, Exact
<1> HIDE DEF data
<1>same. /\ \A a : Offset(a)' = Offset(a)
         /\ Clients' = Clients
  BY <1>1, StandingCounted DEF Clients
<1>7. CASE /\ Current.type = "COUNT" /\ CountReturned(answer.first)
           /\ UNCHANGED handles
  <2>1. CountReturned(Size(Host))
    BY <1>5, <1>7
  <2> QED
    BY <1>1, <1>6, <1>7, <2>1, SumGoesOn, StandingCounted DEF AllCounted
<1>8. CASE /\ Current.type = "SERIAL" /\ SerialReturned(data)
           /\ UNCHANGED counted
  <2>1. /\ call'.op = "none" /\ handles' \in Seq(Handle)
        /\ Len(handles') = Len(handles) + 1
        /\ \A n \in DOMAIN handles : handles'[n] = handles[n]
        /\ handles'[Len(handles) + 1] =
             [id |-> call.arg, host |-> Host, remote |-> Current.id,
              serial |-> data, input |-> Nothing]
    BY <1>1, <1>4, <1>8, SerialOutcome
  <2>2. \A n \in DOMAIN handles' : n \in DOMAIN handles \/ n = Len(handles) + 1
    BY <2>1 DEF Typed, TypeOK
  <2>3. /\ call.op = "serial" /\ call.at \in DOMAIN Clients
        /\ Host = Clients[call.at] /\ Current.id = call.arg - call.total
        /\ call.arg \in Nat /\ call.total \in Nat
    BY <1>1, <1>8, CurrentForm, ClientsList DEF Typed, CallOK
  <2>4. call.arg = Offset(call.at) + Current.id
    BY <2>3 DEF AllCounted, Ahead
  <2>5. Numbered'
    <3>1. \A n \in DOMAIN handles : handles'[n] = handles[n]
      BY <2>1
    <3>2. handles'[Len(handles) + 1].id = Offset(call.at) + Current.id
      BY <2>1, <2>4
    <3>3. /\ handles'[Len(handles) + 1].host = Clients[call.at]
          /\ handles'[Len(handles) + 1].remote = Current.id
      BY <2>1, <2>3
    <3> QED
      BY <1>same, <2>2, <2>3, <3>1, <3>2, <3>3 DEF AllCounted, Numbered
  <2> QED
    BY <1>1, <1>6, <1>8, <2>1, <2>3, <2>5, StandingCounted DEF AllCounted
<1>9. CASE /\ Current.type = "READ" /\ ReadReturned(data)
           /\ UNCHANGED counted
  <2>1. /\ call'.op = "none" /\ call.arg \in DOMAIN handles
        /\ DOMAIN handles' = DOMAIN handles
        /\ handles'[call.arg] = [handles[call.arg] EXCEPT !.input = data]
        /\ \A n \in DOMAIN handles : n # call.arg => handles'[n] = handles[n]
    BY <1>1, <1>4, <1>9, ReadOutcome
  <2>2. handles[call.arg] \in Handle
    BY <2>1 DEF Typed, TypeOK
  <2>3. \A n \in DOMAIN handles' : /\ handles'[n].id = handles[n].id
                                   /\ handles'[n].host = handles[n].host
                                   /\ handles'[n].remote = handles[n].remote
    BY <2>1, <2>2 DEF Handle
  <2>4. Numbered'
    BY <1>same, <2>1, <2>3 DEF AllCounted, Numbered
  <2> QED
    BY <1>1, <1>6, <1>9, <2>1, <2>4, StandingCounted, CurrentForm DEF AllCounted
<1> QED
  BY <1>7, <1>8, <1>9 DEF Recv, data

LEMMA HandleCounted ==
  ASSUME Typed, AllCounted, NEW h \in Hosts, HandleRequest(h)
  PROVE  AllCounted'
<1> DEFINE req == Head(inbox[h])
<1>1. /\ UNCHANGED <<table, clientVars>>
      /\ replies[h] \in Seq(Answer) /\ replies \in [Hosts -> Seq(Answer)]
  BY Handled DEF Typed, Shapes
<1>2. /\ Ahead' /\ Numbered' /\ (counted \in {0, Total})'
      /\ \A g \in Hosts : Size(g)' = Size(g)
  BY <1>1, StandingCounted DEF clientVars
<1>3. CASE replies' = replies
  BY <1>1, <1>2, <1>3, StandingCounted DEF AllCounted
<1>4. CASE Expects(req)
  <2>1. PICK a \in Answer :
          /\ a.req = req /\ a.first \in FirstByte(h, req)
          /\ replies' = [replies EXCEPT ![h] = Append(@, a)]
    BY <1>4, Handled
  <2>2. a.req.type = "COUNT" => a.first = Size(h)
    BY <2>1 DEF FirstByte
  <2>3. replies'[h] = Append(replies[h], a)
        /\ \A g \in Hosts : g # h => replies'[g] = replies[g]
    BY <1>1, <2>1
  <2>4. \A i \in DOMAIN replies'[h] :
          \/ i \in DOMAIN replies[h] /\ replies'[h][i] = replies[h][i]
          \/ replies'[h][i] = a
    BY <1>1, <2>3
  <2>5. Exact'
    BY <1>2, <2>2, <2>3, <2>4 DEF AllCounted, Exact
  <2> QED
    BY <1>2, <2>5 DEF AllCounted
<1> QED
  BY <1>3, <1>4, Handled

\* While nothing disturbs the counting, psmove_connect_by_id of a number below
\* the last count never returns NULL: it asks on, or asks for a serial number.
ConnectGoesOn ==
  Undisturbed' /\ call.op = "find" => call' = call \/ call'.op \in {"find", "serial"}

LEMMA StepCounted ==
  Typed /\ MatchInv /\ OwnInv /\ CountInv /\ [Next]_vars
    => CountInv' /\ ConnectGoesOn
<1> SUFFICES ASSUME Typed, MatchInv, OwnInv, CountInv, [Next]_vars, Undisturbed'
             PROVE  AllCounted' /\ ConnectGoesOn
  BY DEF CountInv, ConnectGoesOn
<1>1. /\ UNCHANGED table /\ Quiet /\ AllCounted /\ AllOwn
      /\ ~TimeoutRetry /\ ~TimeoutGiveUp /\ ~Hotplug
  BY UndisturbedBefore DEF CountInv, OwnInv
<1>2. ASSUME UNCHANGED <<call, counted, handles, replies>>
      PROVE  AllCounted' /\ ConnectGoesOn
  BY <1>1, <1>2, StandingCounted DEF AllCounted, ConnectGoesOn
<1>3. CASE Calls
  <2>1. PICK op \in {"count", "find", "read", "write"} :
          \E arg, at :
            /\ Begin(op, arg, at)
            /\ op \in {"count", "find"} => at = 1
            /\ op = "find" => arg \in 0 .. (counted - 1)
    BY <1>3 DEF Calls, CountConnected, ConnectById, Poll, UpdateLeds
  <2>2. PICK arg, at :
          /\ Begin(op, arg, at)
          /\ op \in {"count", "find"} => at = 1
          /\ op = "find" => arg \in 0 .. (counted - 1)
    BY <2>1
  <2>3. /\ call' = [op |-> op, arg |-> arg, at |-> at, total |-> 0]
        /\ call.op = "none"
        /\ UNCHANGED <<replies, handles, counted>>
    BY <2>2 DEF Begin, netVars, Typed, CallOK
  <2>4. call'.op = op /\ call'.arg = arg /\ call'.at = at /\ call'.total = 0
    BY <2>3
  <2>5. op = "find" => arg < Total
    BY <1>1, <2>2 DEF AllCounted, Typed, TypeOK
  <2>6. Offset(1)' = 0 /\ Total' = Total
    BY <1>1, Offsets, StandingCounted
  <2>7. Ahead'
    <3>1. op \in {"count", "find"} => (call.total = Offset(call.at))'
      BY <2>2, <2>4, <2>6
    <3>2. call'.op = "find" => (call.arg < Total)'
      BY <2>4, <2>5, <2>6
    <3> QED
      BY <2>4, <3>1, <3>2 DEF Ahead
  <2> QED
    BY <1>1, <2>3, <2>7, StandingCounted DEF AllCounted, ConnectGoesOn
<1>4. CASE SendRequest
  <2>1. UNCHANGED <<counted, handles, replies>>
        /\ \/ call' = call
           \/ call'.op = "none" /\ call.op # "find"
    <3>1. pc = "send" /\ (Current.type = "WRITE" => call.op = "write")
      BY <1>4, CurrentForm DEF SendRequest
    <3> QED
      BY <1>4, <3>1 DEF SendRequest, Return, NoCall, Expects
  <2> QED
    BY <1>1, <2>1, StandingCounted DEF AllCounted, ConnectGoesOn
<1>5. CASE Recv
  BY <1>1, <1>5, RecvCounted DEF ConnectGoesOn
<1>6. ASSUME NEW h \in Hosts, HandleRequest(h)
      PROVE  AllCounted' /\ ConnectGoesOn
  BY <1>1, <1>6, HandleCounted DEF HandleRequest, clientVars, ConnectGoesOn
<1>7. ASSUME NEW h \in Hosts, LoseAnswer(h)
      PROVE  AllCounted' /\ ConnectGoesOn
  <2>1. /\ replies[h] # <<>> /\ replies' = [replies EXCEPT ![h] = Tail(@)]
        /\ UNCHANGED clientVars
    BY <1>7 DEF LoseAnswer
  <2>2. /\ replies[h] \in Seq(Answer) /\ replies \in [Hosts -> Seq(Answer)]
    BY DEF Typed, Shapes
  <2>3. \A i \in DOMAIN replies'[h] :
          i + 1 \in DOMAIN replies[h] /\ replies'[h][i] = replies[h][i + 1]
    BY <2>1, <2>2
  <2>4. \A g \in Hosts : g # h => replies'[g] = replies[g]
    BY <2>1, <2>2
  <2>5. Exact'
    BY <1>1, <2>3, <2>4, StandingCounted DEF AllCounted, Exact
  <2> QED
    BY <1>1, <2>1, <2>5, StandingCounted
    DEF AllCounted, clientVars, ConnectGoesOn
<1>8. ASSUME NEW h \in Hosts, LoseRequest(h)
      PROVE  AllCounted' /\ ConnectGoesOn
  BY <1>2, <1>8 DEF LoseRequest, clientVars
<1>9. CASE NetworkGoesDown \/ UNCHANGED vars
  BY <1>2, <1>9 DEF NetworkGoesDown, vars, netVars, clientVars
<1> QED
  BY <1>1, <1>3, <1>4, <1>5, <1>6, <1>7, <1>8, <1>9
  DEF Next, Sending, SendFails, Network

\* An id names the same controller whenever it is used, the one that has this
\* number along the hosts, for any number of hosts and controllers, if nothing
\* comes or goes and recv does not time out meanwhile.
THEOREM OrderIsFixed == Spec => []FixedOrder
<1>1. Typed /\ MatchInv /\ [Next]_vars => MatchInv'
  BY StepOwed, StepMatch DEF MatchInv
<1>2. Typed /\ OwnInv /\ CountInv => FixedOrder
  <2> SUFFICES ASSUME Typed, OwnInv, CountInv, Undisturbed, NEW n \in DOMAIN handles
               PROVE  IsNumber(Clients, handles[n].id, handles[n].host,
                               handles[n].remote)
    BY DEF FixedOrder, NumberedAlong
  <2>1. AllCounted /\ AllOwn
    BY DEF CountInv, OwnInv, Undisturbed, Quiet, Typed, TypeOK
  <2>2. PICK a \in DOMAIN Clients :
          /\ Clients[a] = handles[n].host
          /\ handles[n].id = Offset(a) + handles[n].remote
    BY <2>1 DEF AllCounted, Numbered
  <2>3. Clients[a] \in Hosts /\ Size(Clients[a]) \in Nat
    BY ClientsList, Offsets
  <2>4. handles[n].remote < Size(handles[n].host)
    BY <2>1, <2>2, <2>3 DEF AllOwn, HandlesOwn, Dense
  <2> QED
    BY <2>2, <2>4 DEF IsNumber, Offset
<1>3. Typed /\ MatchInv /\ OwnInv /\ CountInv /\ [Next]_vars => CountInv'
  BY StepCounted
<1> QED
  BY <1>1, <1>2, <1>3, InitTyped, StepTyped, InitMatch, InitOwn, StepOwn,
     InitCounted, PTL DEF Spec

\* As long as nothing comes or goes and recv does not time out, connecting to
\* a controller below the last count succeeds.
THEOREM ConnectSucceeds == Spec => [][ConnectGoesOn]_vars
<1>1. Typed /\ MatchInv /\ [Next]_vars => MatchInv'
  BY StepOwed, StepMatch DEF MatchInv
<1>2. Typed /\ MatchInv /\ OwnInv /\ CountInv /\ [Next]_vars
        => CountInv' /\ [ConnectGoesOn]_vars
  BY StepCounted
<1> QED
  BY <1>1, <1>2, InitTyped, StepTyped, InitMatch, InitOwn, StepOwn,
     InitCounted, PTL DEF Spec

-----------------------------------------------------------------------------
(* A call cannot go on for ever.                                            *)

\* The requests a call may still have to make after the one in progress: one
\* for each host left in the list, and one for the serial number.
Stages ==
  IF call.op \in {"count", "find"} THEN Len(Clients) + 1 - call.at ELSE 0

\* The datagrams and the timeouts that may still come.
Budget ==
  2 * (MaxRetries * Stages) + 2 * (MaxRetries - 1 - retry)
    + (IF pc = "send" THEN 1 ELSE 0)
MaxBudget == 2 * (MaxRetries * (Len(HostFile) + 1)) - 1

BudgetOK == pc # "idle" => Budget \in 0 .. MaxBudget
CallShrinks ==
  pc # "idle" /\ pc' # "idle" /\ <<call, pc, retry>>' # <<call, pc, retry>>
    => Budget' < Budget

LEMMA BudgetNumbers ==
  ASSUME Typed, pc # "idle"
  PROVE  /\ MaxRetries \in Nat \ {0} /\ retry \in 0 .. (MaxRetries - 1)
         /\ Stages \in 0 .. Len(HostFile) /\ Len(HostFile) \in Nat
         /\ MaxRetries * Stages \in Nat
         /\ MaxRetries * Stages <= MaxRetries * Len(HostFile)
         /\ MaxRetries * (Len(HostFile) + 1)
              = MaxRetries * Len(HostFile) + MaxRetries
         /\ MaxRetries * Len(HostFile) \in Nat
<1>1. /\ MaxRetries \in Nat \ {0} /\ retry \in 0 .. (MaxRetries - 1)
      /\ Len(HostFile) \in Nat
  BY ClientAssumption DEF Typed, TypeOK
<1>2. Len(Clients) = Len(HostFile)
  BY <1>1, ClientAssumption DEF Clients
<1>3. Stages \in 0 .. Len(HostFile)
  BY <1>1, <1>2, ClientsList DEF Stages, Typed, CallOK
<1> HIDE DEF Stages
<1>4. \A m \in Nat, a, b \in Nat : a <= b => m * a <= m * b
  OBVIOUS
<1>5. \A m \in Nat, a \in Nat : m * a \in Nat /\ m * (a + 1) = m * a + m
  OBVIOUS
<1>6. Stages \in Nat /\ Stages <= Len(HostFile)
  BY <1>1, <1>3
<1> QED
  BY <1>1, <1>3, <1>4, <1>5, <1>6

LEMMA BudgetBounded == Typed => BudgetOK
<1> SUFFICES ASSUME Typed, pc # "idle" PROVE Budget \in 0 .. MaxBudget
  BY DEF BudgetOK
<1> DEFINE a == MaxRetries * Stages
           b == MaxRetries * Len(HostFile)
<1>1. /\ MaxRetries \in Nat \ {0} /\ retry \in 0 .. (MaxRetries - 1)
      /\ a \in Nat /\ b \in Nat /\ a <= b /\ MaxBudget = 2 * (b + MaxRetries) - 1
  BY BudgetNumbers DEF MaxBudget
<1>2. Budget = 2 * a + 2 * (MaxRetries - 1 - retry) + (IF pc = "send" THEN 1 ELSE 0)
  BY DEF Budget
<1> HIDE DEF a, b
<1> QED
  BY <1>1, <1>2

\* The next request is made when the answer to this one is there, or has not
\* come.
LEMMA NextStage ==
  ASSUME Typed, Typed', pc # "idle", pc' # "idle",
         retry' = 0, Stages' < Stages
  PROVE  Budget' < Budget
<1> DEFINE a == MaxRetries * Stages
           b == MaxRetries * Stages'
<1>1. /\ MaxRetries \in Nat \ {0} /\ retry \in 0 .. (MaxRetries - 1)
      /\ Stages \in Nat /\ a \in Nat
  BY BudgetNumbers
<1>2. Stages' \in Nat
  BY ClientsList DEF Stages, Typed, CallOK, Clients
<1> HIDE DEF Stages
<1>3. b \in Nat /\ b + MaxRetries <= a
  <2>1. \A m \in Nat, s, t \in Nat : t < s => m * t \in Nat /\ m * t + m <= m * s
    <3>1. \A m \in Nat, s, t \in Nat : t < s => t + 1 <= s
      OBVIOUS
    <3>2. \A m \in Nat, s, t \in Nat : t <= s => m * t <= m * s
      OBVIOUS
    <3>3. \A m \in Nat, t \in Nat : m * t \in Nat /\ m * (t + 1) = m * t + m
      OBVIOUS
    <3> QED
      BY <3>1, <3>2, <3>3
  <2> QED
    BY <1>1, <1>2, <2>1
<1>4. /\ Budget = 2 * a + 2 * (MaxRetries - 1 - retry)
                    + (IF pc = "send" THEN 1 ELSE 0)
      /\ Budget' = 2 * b + 2 * (MaxRetries - 1 - 0)
                    + (IF pc' = "send" THEN 1 ELSE 0)
  BY DEF Budget
<1> HIDE DEF a, b
<1> QED
  BY <1>1, <1>3, <1>4

\* Both an answer and a timeout lead from one request to the next like this.
LEMMA CountShrinks ==
  ASSUME Typed, Typed', Current.type = "COUNT", pc # "idle", pc' # "idle",
         NEW n \in Nat, CountReturned(n)
  PROVE  Budget' < Budget
<1>1. /\ call.op \in {"count", "find"} /\ call.at \in 1 .. Len(Clients)
      /\ Len(Clients) \in Nat
      /\ call \in [op : Ops, arg : Nat, at : Nat, total : Nat]
  BY CurrentForm, ClientsList DEF Typed, CallOK
<1>2. CASE call' = [call EXCEPT !.op = "serial"] /\ retry' = 0
  <2>1. Stages' = 0 /\ Stages > 0
    BY <1>1, <1>2 DEF Stages, Clients
  <2> QED
    BY <1>2, <2>1, NextStage
<1>3. CASE call' = [call EXCEPT !.at = @ + 1, !.total = @ + n] /\ retry' = 0
  <2>1. call'.op = call.op /\ call'.at = call.at + 1
    BY <1>1, <1>3
  <2>2. Stages' < Stages
    BY <1>1, <2>1 DEF Stages, Clients
  <2> QED
    BY <1>3, <2>2, NextStage
<1> QED
  BY <1>2, <1>3 DEF CountReturned, GoOn, Return

LEMMA StepShrinks == Typed /\ [Next]_vars => [CallShrinks]_vars
<1> SUFFICES ASSUME Typed, Typed', Next, pc # "idle", pc' # "idle",
                    <<call, pc, retry>>' # <<call, pc, retry>>
             PROVE  Budget' < Budget
  BY StepTyped DEF CallShrinks
<1> USE DEF clientVars, netVars
<1>1. MaxRetries \in Nat \ {0} /\ retry \in 0 .. (MaxRetries - 1)
  BY BudgetNumbers
<1>2. CASE SendRequest
  <2>1. pc = "send" /\ pc' = "recv" /\ call' = call /\ retry' = retry
    BY <1>2 DEF SendRequest, Return
  <2>2. Stages' = Stages /\ MaxRetries * Stages \in Nat
    BY <2>1, BudgetNumbers DEF Stages, Clients
  <2> QED
    BY <1>1, <2>1, <2>2 DEF Budget
<1>3. CASE Recv
  <2>1. PICK h \in Hosts : Host = h /\ replies[h] # <<>>
    BY <1>3, CurrentForm DEF Recv
  <2>2. Head(replies[Host]).first \in Nat
    BY <2>1, DataForm
  <2>3. Current.type = "COUNT" /\ CountReturned(Head(replies[Host]).first)
    BY <1>3 DEF Recv, SerialReturned, ReadReturned, Return
  <2> QED
    BY <2>2, <2>3, CountShrinks
<1>4. CASE TimeoutRetry
  <2>1. /\ pc = "recv" /\ pc' = "send" /\ call' = call /\ retry' = retry + 1
    BY <1>4 DEF TimeoutRetry, Expire
  <2>2. Stages' = Stages /\ MaxRetries * Stages \in Nat
    BY <2>1, BudgetNumbers DEF Stages, Clients
  <2> QED
    BY <1>1, <2>1, <2>2 DEF Budget
<1>5. CASE TimeoutGiveUp
  <2>1. Current.type = "COUNT" /\ CountReturned(0)
    BY <1>5 DEF TimeoutGiveUp, SerialReturned, Return
  <2> QED
    BY <2>1, CountShrinks
<1>6. CASE SendFails
  BY <1>6 DEF SendFails, vars
<1>7. CASE Calls
  BY <1>7 DEF Calls, CountConnected, ConnectById, Poll, UpdateLeds, Begin
<1>8. CASE \E h \in Hosts : HandleRequest(h)
  BY <1>8 DEF HandleRequest
<1>9. CASE Network
  BY <1>9 DEF Network, LoseRequest, LoseAnswer, NetworkGoesDown
<1>10. CASE Hotplug
  BY <1>10 DEF Hotplug, ControllerComes, ControllerGoes
<1> QED
  BY <1>2, <1>3, <1>4, <1>5, <1>6, <1>7, <1>8, <1>9, <1>10 DEF Next, Sending

\* A call sends at most MAX_RETRIES datagrams for each host of the list, and as
\* many for a serial number: whatever the network and the daemons do, each
\* step that a call makes leaves it fewer to make, but for a sendto that fails.
THEOREM CallIsBounded == Spec => []BudgetOK /\ [][CallShrinks]_vars
BY InitTyped, StepTyped, BudgetBounded, StepShrinks, PTL DEF Spec
=============================================================================
