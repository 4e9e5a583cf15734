---------------------------- MODULE MovedClient ----------------------------
(***************************************************************************)
(* Remote controllers: an application that uses controllers exported by    *)
(* move daemons on other hosts, over UDP.  moved_client_send in            *)
(* src/Lab5/src/daemon/moved_client.c repeats a request until a datagram   *)
(* comes back; psmove_count_connected, psmove_connect_by_id, psmove_poll   *)
(* and psmove_update_leds in src/Lab5/src/psmove.c are built on it; and    *)
(* moved_server_handle_request in src/Lab5/src/utils/moved.c answers.      *)
(*                                                                         *)
(* The daemon of a host is reduced to the table of ids that MovedDaemon    *)
(* implements (module IdTable).  Datagrams between a client socket and its *)
(* host keep their order, but may be lost or arrive after recv has timed   *)
(* out.  There is no local controller (PSMove_OnlyRemote).                 *)
(***************************************************************************)
EXTENDS Naturals, Sequences, FiniteSets

CONSTANTS
  HostFile,     \* the hosts of moved_hosts.txt, from the first line on
  Controllers,  \* what may be connected to the hosts
  Nothing,      \* the zeros of an answer about a device that is not there
  Garbage,      \* bytes of an answer to some other request
  SerialByte,   \* the first character of a serial number, as a count
  Sequence,     \* how many sequence numbers input reports have: 16
  MaxRetries,   \* MOVED_MAX_RETRIES
  MaxCalls,     \* bound: calls of the library
  MaxFaults,    \* bound: lost datagrams and timeouts that come too early
  MaxMoves,     \* bound: controllers connected or disconnected
  NetworkFails  \* may sendto start to fail?

Hosts == {HostFile[i] : i \in DOMAIN HostFile}

ASSUME ClientAssumption ==
  /\ HostFile \in Seq(Hosts) /\ HostFile # <<>>
  /\ \A i, j \in DOMAIN HostFile : HostFile[i] = HostFile[j] => i = j
  /\ Nothing \notin Controllers
  /\ Garbage \notin Controllers \cup {Nothing}
  /\ SerialByte \in Nat /\ Sequence \in Nat
  /\ MaxRetries \in Nat \ {0}
  /\ MaxCalls \in Nat /\ MaxFaults \in Nat /\ MaxMoves \in Nat
  /\ NetworkFails \in BOOLEAN

VARIABLES
  table,    \* [host -> the table of ids of its daemon]
  inbox,    \* [host -> requests on their way to, or at, the daemon's socket]
  replies,  \* [host -> answers on their way to, or at, the client's socket]
  sendable, \* does sendto succeed?
  call,     \* the library call in progress
  pc,       \* "idle", "send" or "recv", in moved_client_send
  retry,    \* retry_count
  counted,  \* what the last psmove_count_connected returned
  handles,  \* the open handles, oldest first
  expired,  \* history: [host -> number of times recv timed out]
  calls, faults, moves, removals  \* history: what has happened so far

clientVars == <<call, pc, retry, counted, handles, calls>>
netVars == <<inbox, replies>>
vars == <<table, netVars, sendable, clientVars, expired, faults, moves, removals>>

-----------------------------------------------------------------------------
\* moved_client_list_open inserts each host at the head of the list.
Clients == [i \in DOMAIN HostFile |-> HostFile[Len(HostFile) + 1 - i]]

Request == [type : {"COUNT", "SERIAL", "READ", "WRITE"}, id : Nat]
Answer == [req : Request, device : Controllers \cup {Nothing}, first : Nat]
Handle == [id : Nat, host : Hosts, remote : Nat,
           serial : Controllers \cup {Nothing, Garbage},
           input : Controllers \cup {Nothing, Garbage}]

NoCall == [op |-> "none", arg |-> 0, at |-> 0, total |-> 0]

\* The host and the request of the call in progress.
Host == IF call.op \in {"read", "write"} THEN handles[call.arg].host
        ELSE Clients[call.at]
Current ==
  CASE call.op \in {"count", "find"} -> [type |-> "COUNT", id |-> 0]
    [] call.op = "serial" -> [type |-> "SERIAL", id |-> call.arg - call.total]
    [] call.op = "read"   -> [type |-> "READ", id |-> handles[call.arg].remote]
    [] call.op = "write"  -> [type |-> "WRITE", id |-> handles[call.arg].remote]

Expects(req) == req.type # "WRITE"

Init ==
  /\ table \in [Hosts -> {[n \in {} |-> Nothing]} \cup
                         {[n \in {0} |-> c] : c \in Controllers}]
  /\ \A g, h \in Hosts : 0 \in DOMAIN table[g] /\ 0 \in DOMAIN table[h] =>
       g = h \/ table[g][0] # table[h][0]
  /\ inbox = [h \in Hosts |-> <<>>]
  /\ replies = [h \in Hosts |-> <<>>]
  /\ sendable = TRUE
  /\ call = NoCall
  /\ pc = "idle"
  /\ retry = 0
  /\ counted = 0
  /\ handles = <<>>
  /\ expired = [h \in Hosts |-> 0]
  /\ calls = 0 /\ faults = 0 /\ moves = 0 /\ removals = 0

-----------------------------------------------------------------------------
(* The application calls the library.                                       *)

Begin(op, arg, at) ==
  /\ pc = "idle"
  /\ calls < MaxCalls
  /\ calls' = calls + 1
  /\ pc' = "send"
  /\ retry' = 0
  /\ call' = [op |-> op, arg |-> arg, at |-> at, total |-> 0]
  /\ UNCHANGED <<table, netVars, sendable, counted, handles, expired, faults,
                 moves, removals>>

CountConnected == Begin("count", 0, 1)
ConnectById(id) == id < counted /\ Begin("find", id, 1)
Poll(n) == Begin("read", n, 0)
UpdateLeds(n) == Begin("write", n, 0)

\* What the calls do with the value that moved_client_send returns.
Return == pc' = "idle" /\ call' = NoCall /\ retry' = 0
GoOn(next) == pc' = "send" /\ call' = next /\ retry' = 0

\* Faulty variant of CountReturned: the offset counts hosts, not controllers.
CountReturnedHosts(n) ==
  IF call.op = "find" /\ call.arg - call.total < n
    THEN GoOn([call EXCEPT !.op = "serial"]) /\ UNCHANGED counted
  ELSE IF call.at < Len(Clients)
    THEN GoOn([call EXCEPT !.at = @ + 1, !.total = @ + 1]) /\ UNCHANGED counted
  ELSE Return /\ counted' = IF call.op = "count" THEN call.total + n ELSE counted

\* psmove_count_connected adds the counts up; psmove_connect_by_id looks for
\* the host of its controller, and returns NULL when the hosts have run out.
CountReturned(n) ==
  IF call.op = "find" /\ call.arg - call.total < n
    THEN GoOn([call EXCEPT !.op = "serial"]) /\ UNCHANGED counted
  ELSE IF call.at < Len(Clients)
    THEN GoOn([call EXCEPT !.at = @ + 1, !.total = @ + n]) /\ UNCHANGED counted
  ELSE Return /\ counted' = IF call.op = "count" THEN call.total + n ELSE counted

\* psmove_connect_remote_by_id makes a handle even without a serial number.
SerialReturned(serial) ==
  /\ handles' = Append(handles,
                  [id |-> call.arg, host |-> Host, remote |-> Current.id,
                   serial |-> serial, input |-> Nothing])
  /\ Return

\* psmove_poll copies whatever is in the buffer.
ReadReturned(input) ==
  /\ handles' = [handles EXCEPT ![call.arg].input = input]
  /\ Return

-----------------------------------------------------------------------------
(* moved_client_send.                                                       *)

SendRequest ==
  /\ pc = "send"
  /\ sendable
  /\ inbox' = [inbox EXCEPT ![Host] = Append(@, Current)]
  /\ IF Expects(Current) THEN pc' = "recv" /\ UNCHANGED <<call, retry>>
                         ELSE Return
  /\ UNCHANGED <<table, replies, sendable, counted, handles, expired, calls,
                 faults, moves, removals>>

\* A sendto that fails is repeated at once; it does not count as a retry.
SendFails ==
  /\ pc = "send"
  /\ ~sendable
  /\ UNCHANGED vars

\* Faulty variant of Dequeue: recv with MSG_PEEK.
DequeuePeek == UNCHANGED replies
Dequeue == replies' = [replies EXCEPT ![Host] = Tail(@)]

\* recv takes the next datagram, whichever request it answers.
Recv ==
  /\ pc = "recv"
  /\ replies[Host] # <<>>
  /\ Dequeue
  /\ LET answer == Head(replies[Host])
         data == IF answer.req.type = Current.type THEN answer.device
                                                   ELSE Garbage
     IN \/ /\ Current.type = "COUNT"
           /\ CountReturned(answer.first)
           /\ UNCHANGED handles
        \/ /\ Current.type = "SERIAL"
           /\ SerialReturned(data)
           /\ UNCHANGED counted
        \/ /\ Current.type = "READ"
           /\ ReadReturned(data)
           /\ UNCHANGED counted
  /\ UNCHANGED <<table, inbox, sendable, expired, calls, faults, moves, removals>>

\* recv has waited MOVED_TIMEOUT_MS.  While a datagram is still under way, that
\* is too early, and counts as a fault.
Outstanding(h) ==
  Cardinality({i \in DOMAIN inbox[h] : Expects(inbox[h][i])}) + Len(replies[h])

\* Faulty variant of Expire: the socket was not given a timeout.
ExpireNever == pc = "recv" /\ FALSE

Expire ==
  /\ pc = "recv"
  /\ \/ Outstanding(Host) = 0 /\ faults' = faults
     \/ Outstanding(Host) > 0 /\ faults < MaxFaults /\ faults' = faults + 1
  /\ expired' = [expired EXCEPT ![Host] = @ + 1]

\* Faulty variant of TimeoutRetry: one retry more than MOVED_MAX_RETRIES.
TimeoutRetryMore ==
  /\ Expire
  /\ retry < MaxRetries
  /\ retry' = retry + 1
  /\ pc' = "send"
  /\ UNCHANGED <<table, netVars, sendable, call, counted, handles, calls, moves,
                 removals>>

TimeoutRetry ==
  /\ Expire
  /\ retry + 1 < MaxRetries
  /\ retry' = retry + 1
  /\ pc' = "send"
  /\ UNCHANGED <<table, netVars, sendable, call, counted, handles, calls, moves,
                 removals>>

TimeoutGiveUp ==
  /\ Expire
  /\ retry + 1 = MaxRetries
  /\ \/ /\ Current.type = "COUNT"
        /\ CountReturned(0)
        /\ UNCHANGED handles
     \/ /\ Current.type = "SERIAL"
        /\ SerialReturned(Nothing)
        /\ UNCHANGED counted
     \/ /\ Current.type = "READ"
        /\ Return
        /\ UNCHANGED <<counted, handles>>
  /\ UNCHANGED <<table, netVars, sendable, calls, moves, removals>>

-----------------------------------------------------------------------------
(* The daemons, and the network.                                            *)

\* What COUNT answers.
Size(h) == Cardinality(DOMAIN table[h])

\* Faulty variant of Device: the id is taken for a position in the list,
\* which has the newest device first.
DeviceAt(h, id) ==
  IF id < Size(h) /\ Size(h) - 1 - id \in DOMAIN table[h]
    THEN table[h][Size(h) - 1 - id] ELSE Nothing

Device(h, id) == IF id \in DOMAIN table[h] THEN table[h][id] ELSE Nothing

\* The byte of the answer that a COUNT would read: the first character of the
\* serial number, or the result of the daemon's psmove_poll, which is 0, or one
\* more than the sequence number of the input report.
FirstByte(h, req) ==
  CASE req.type = "COUNT"  -> {Size(h)}
    [] req.type = "SERIAL" -> {IF Device(h, req.id) = Nothing THEN 0 ELSE SerialByte}
    [] req.type = "READ"   -> IF Device(h, req.id) = Nothing THEN {0} ELSE 0 .. Sequence

\* Faulty variant of HandleRequest: WRITE requests are answered as well.
HandleRequestAll(h) ==
  /\ inbox[h] # <<>>
  /\ inbox' = [inbox EXCEPT ![h] = Tail(@)]
  /\ LET req == Head(inbox[h])
     IN \E first \in IF Expects(req) THEN FirstByte(h, req) ELSE {0} :
            replies' = [replies EXCEPT ![h] = Append(@,
                          [req |-> req, device |-> Device(h, req.id),
                           first |-> first])]
  /\ UNCHANGED <<table, sendable, clientVars, expired, faults, moves, removals>>

HandleRequest(h) ==
  /\ inbox[h] # <<>>
  /\ inbox' = [inbox EXCEPT ![h] = Tail(@)]
  /\ LET req == Head(inbox[h])
     IN \/ ~Expects(req) /\ replies' = replies
        \/ /\ Expects(req)
           /\ \E first \in FirstByte(h, req) :
                replies' = [replies EXCEPT ![h] = Append(@,
                              [req |-> req, device |-> Device(h, req.id),
                               first |-> first])]
  /\ UNCHANGED <<table, sendable, clientVars, expired, faults, moves, removals>>

LoseRequest(h) ==
  /\ inbox[h] # <<>>
  /\ faults < MaxFaults
  /\ faults' = faults + 1
  /\ inbox' = [inbox EXCEPT ![h] = Tail(@)]
  /\ UNCHANGED <<table, replies, sendable, clientVars, expired, moves, removals>>

LoseAnswer(h) ==
  /\ replies[h] # <<>>
  /\ faults < MaxFaults
  /\ faults' = faults + 1
  /\ replies' = [replies EXCEPT ![h] = Tail(@)]
  /\ UNCHANGED <<table, inbox, sendable, clientVars, expired, moves, removals>>

NetworkGoesDown ==
  /\ NetworkFails
  /\ sendable
  /\ sendable' = FALSE
  /\ UNCHANGED <<table, netVars, clientVars, expired, faults, moves, removals>>

\* What MovedDaemon does to a list, IdTable does to the table of its host.
Table(h) == INSTANCE IdTable WITH Moves <- Controllers, table <- table[h]

Connected(c) == \E h \in Hosts : \E id \in DOMAIN table[h] : table[h][id] = c

ControllerComes(h, c) ==
  /\ moves < MaxMoves
  /\ moves' = moves + 1
  /\ ~Connected(c)
  /\ \E id \in 0 .. Size(h) :
       /\ table' = [table EXCEPT ![h] =
                      [n \in DOMAIN @ \cup {id} |-> IF n = id THEN c ELSE @[n]]]
       /\ Table(h)!Connect(id, c)
  /\ UNCHANGED <<netVars, sendable, clientVars, expired, faults, removals>>

ControllerGoes(h, id) ==
  /\ moves < MaxMoves
  /\ moves' = moves + 1
  /\ removals' = removals + 1
  /\ table' = [table EXCEPT ![h] = [n \in DOMAIN @ \ {id} |-> @[n]]]
  /\ Table(h)!Disconnect(id)
  /\ UNCHANGED <<netVars, sendable, clientVars, expired, faults>>

-----------------------------------------------------------------------------
Calls ==
  \/ CountConnected
  \/ \E id \in 0 .. (counted - 1) : ConnectById(id)
  \/ \E n \in DOMAIN handles : Poll(n) \/ UpdateLeds(n)

Sending == SendRequest \/ SendFails \/ Recv \/ TimeoutRetry \/ TimeoutGiveUp

Network ==
  \/ \E h \in Hosts : LoseRequest(h) \/ LoseAnswer(h)
  \/ NetworkGoesDown

Hotplug ==
  \/ \E h \in Hosts, c \in Controllers : ControllerComes(h, c)
  \/ \E h \in Hosts : \E id \in DOMAIN table[h] : ControllerGoes(h, id)

Next ==
  \/ Calls
  \/ Sending
  \/ \E h \in Hosts : HandleRequest(h)
  \/ Network
  \/ Hotplug

Spec == Init /\ [][Next]_vars

(* A call that has begun goes on, recv times out by itself, and a daemon    *)
(* serves the requests that reach it.                                       *)
FairSpec ==
  Spec /\ WF_vars(Sending) /\ \A h \in Hosts : WF_vars(HandleRequest(h))

-----------------------------------------------------------------------------
(* Properties.                                                              *)

\* The values of the variables.
TypeOK ==
  /\ \A h \in Hosts : /\ DOMAIN table[h] \subseteq Nat
                      /\ \A id \in DOMAIN table[h] : table[h][id] \in Controllers
                      /\ inbox[h] \in Seq(Request)
                      /\ replies[h] \in Seq(Answer)
                      /\ expired[h] \in Nat
  /\ sendable \in BOOLEAN
  /\ call.op \in {"none", "count", "find", "serial", "read", "write"}
  /\ pc \in {"idle", "send", "recv"}
  /\ retry \in 0 .. (MaxRetries - 1)
  /\ counted \in Nat
  /\ handles \in Seq(Handle)
  /\ calls \in 0 .. MaxCalls /\ faults \in 0 .. MaxFaults
  /\ moves \in 0 .. MaxMoves /\ removals \in 0 .. moves

\* Answers and requests are only matched by their number.  There are never
\* more answers to come than recv has timed out, plus the one it waits for.
Owed(h) == expired[h] + IF pc = "recv" /\ Host = h THEN 1 ELSE 0
AnswersOwed == \A h \in Hosts : Outstanding(h) <= Owed(h)

\* So as long as recv has not timed out on a host, what it gets is the answer
\* to the request that was sent, although nothing in a datagram says so.
AnswersMatch ==
  pc = "recv" /\ expired[Host] = 0 /\ replies[Host] # <<>>
    => Head(replies[Host]).req = Current

\* The controllers in the order in which a list of hosts is tried.
Before(list, a) ==
  LET sum[i \in DOMAIN list] ==
        IF i = 1 THEN 0 ELSE sum[i - 1] + Size(list[i - 1])
  IN  sum[a]
IsNumber(list, id, h, remote) ==
  \E a \in DOMAIN list : /\ list[a] = h
                         /\ remote < Size(h)
                         /\ id = Before(list, a) + remote

Undisturbed == moves = 0 /\ \A h \in Hosts : expired[h] = 0
NumberedAlong(list) ==
  Undisturbed => \A n \in DOMAIN handles :
                   IsNumber(list, handles[n].id, handles[n].host, handles[n].remote)

\* psmove_connect_by_id asks every host for its count again, after
\* psmove_count_connected has done so.  If no controller comes or goes and
\* nothing times out meanwhile, an id names the same controller each time,
\* the one that has this number along the list of hosts.
FixedOrder == NumberedAlong(Clients)

\* A handle is bound to a host and an id of its daemon.  Unless controllers
\* are removed or answers are late, its data come from the controller whose
\* serial number it has, however many controllers join.
OwnData ==
  removals = 0 /\ (\A h \in Hosts : expired[h] = 0) =>
    \A n \in DOMAIN handles :
      /\ handles[n].serial \in Controllers
      /\ handles[n].input \in {Nothing, handles[n].serial}

\* Every call returns, whatever the network loses or delays, as long as
\* datagrams can be sent.
CallsReturn == pc # "idle" ~> pc = "idle" \/ ~sendable

\* psmove_moved_protocol.h calls MOVED_MAX_RETRIES the "maximum number of
\* retries for client requests": every call gives up at some time.
CallsGiveUp == pc # "idle" ~> pc = "idle"
=============================================================================
