------------------------------- MODULE Network -------------------------------
(***************************************************************************)
(* Several nodes that run the program: their routing tables and the        *)
(* messages that keep them up to date (src/protocol.c, src/main.c).        *)
(*                                                                         *)
(* A handler is one step: what its calls of routingTable.c do is TableOps. *)
(* What a node sends to another one arrives in the order in which it was   *)
(* queued, unless the receiver is gone, and a name stands for the address  *)
(* of the node that carries it.  Chat messages change no table (module     *)
(* Chat), nor does a HEARTRESPONSE; the heartbeat thread (module           *)
(* HeartBeat) is its HEARTs and its alarm here, which may come at any time *)
(* but within a handler, where it makes a difference for a LOGIN alone:    *)
(* see SendHeart.  Every message is read whole and by itself, and no queue *)
(* is full (module Chat has both).                                         *)
(*                                                                         *)
(* Nodes log in to one other node when they start: as long as nobody       *)
(* starts a second time, the network is a forest.                          *)
(***************************************************************************)
EXTENDS Naturals, Sequences, FiniteSets

CONSTANTS
  Node,       \* the chat names
  NoName,     \* the empty string
  NumSlots,   \* slots of a routing table
  MaxUpsets,  \* bound: how many nodes leave or crash, and false alarms
  MaxReturns, \* bound: how often nodes that have stopped start again
  MaxSignals  \* bound: how many HEARTs the heartbeat threads send

ASSUME NodesAssumption == NoName \notin Node
\* A name has at most NAME_LEN bytes.
ASSUME FiniteAssumption == IsFiniteSet(Node)
ASSUME SizesAssumption ==
  NumSlots \in Nat \ {0} /\ MaxUpsets \in Nat /\ MaxReturns \in Nat /\ MaxSignals \in Nat

VARIABLES
  state,    \* node -> "off" before its first start, "on", "stopped"
  table,    \* node -> its routing table
  chan,     \* <<m, n>> -> what m has sent to n and n has not read yet
  upsets,   \* counter for MaxUpsets
  returns,  \* counter for MaxReturns
  signals,  \* counter for MaxSignals
  links,    \* history: the pairs {m, n} of which one has logged in to the other
  calm      \* history: has every start, stop and alarm found the network at rest?

vars == <<state, table, chan, upsets, returns, signals, links, calm>>

INSTANCE TableOps

Link == {l \in Node \X Node : l[1] # l[2]}
On == {n \in Node : state[n] = "on"}

-----------------------------------------------------------------------------
\* push_send and the sender thread: m goes to those of dests that are there.
\* getRouting's -1 (NoName) is nobody's address: what is sent to it is lost.
Post(queues, n, dests, m) ==
  [l \in Link |-> IF l[1] = n /\ l[2] \in dests \cap On THEN Append(queues[l], m) ELSE queues[l]]

\* send_to_all_neighboors, each neighbour at the address getRouting gives.
SendToAll(queues, n, t, skip, m) ==
  Post(queues, n, {GetRouting(t, x) : x \in HopsOneAway(t) \ {skip}}, m)

\* Mutant of SendRoute: the neighbour the news came from is told, too.
SendRouteBack(queues, n, t, skip) ==
  SendToAll(queues, n, t, NoName, [type |-> "ROUTE", from |-> n, entries |-> TableToCharArray(t)])

\* A ROUTE message with the whole table.
SendRoute(queues, n, t, skip) ==
  SendToAll(queues, n, t, skip, [type |-> "ROUTE", from |-> n, entries |-> TableToCharArray(t)])

\* What a node that stops has not read is lost.
Unread(queues, n) == [l \in Link |-> IF l[2] = n THEN <<>> ELSE queues[l]]

Init ==
  /\ state = [n \in Node |-> "off"]
  /\ table = [n \in Node |-> InitTable(n)]
  /\ chan = [l \in Link |-> <<>>]
  /\ upsets = 0
  /\ returns = 0
  /\ signals = 0
  /\ links = {}
  /\ calm = TRUE

\* Nothing to be read, and nobody to be found silent.
Rest ==
  /\ \A l \in Link : chan[l] = <<>>
  /\ \A n \in On : HopsOneAway(table[n]) \subseteq On

-----------------------------------------------------------------------------
\* do_login: name and address of the new node.
LoginMessage(n) == [type |-> "LOGIN", from |-> n]

\* main: initTable, then do_login at the node given with -t, if any, which
\* is there to accept the connection.
Start(n, to) ==
  /\ \/ state[n] = "off" /\ UNCHANGED returns
     \/ state[n] = "stopped" /\ returns < MaxReturns /\ returns' = returns + 1
  /\ to \in On \cup {NoName}
  /\ state' = [state EXCEPT ![n] = "on"]
  /\ chan' = Post(chan, n, {to}, LoginMessage(n))
  /\ links' = links \cup {{n, m} : m \in {to} \ {NoName}}
  /\ calm' = (calm /\ Rest)
  /\ UNCHANGED <<table, upsets, signals>>

Stop(n) ==
  /\ n \in On
  /\ upsets < MaxUpsets
  /\ upsets' = upsets + 1
  /\ state' = [state EXCEPT ![n] = "stopped"]
  /\ table' = [table EXCEPT ![n] = InitTable(n)]
  /\ links' = {k \in links : n \notin k}
  /\ calm' = (calm /\ Rest)
  /\ UNCHANGED <<returns, signals>>

\* cleanup: do_logout tells the neighbours.
DoLogout(n) ==
  /\ Stop(n)
  /\ chan' = Unread(SendToAll(chan, n, table[n], NoName, [type |-> "LOGOUT", from |-> n]), n)

\* The process ends in any other way.
Crash(n) == Stop(n) /\ chan' = Unread(chan, n)

-----------------------------------------------------------------------------
\* protocol_handle_msg: the server of n reads what x has sent.
Reads(n, x, type) ==
  /\ n \in On
  /\ chan[<<x, n>>] # <<>>
  /\ Head(chan[<<x, n>>]).type = type

Read(n, x) == [chan EXCEPT ![<<x, n>>] = Tail(@)]

\* What msg_login makes of a LOGIN: one entry, the new neighbour's.
LoginRow(x) == <<[chatName |-> x, nextChatName |-> x, hopCount |-> 0]>>

\* Mutant of MsgLogin: HEART overtakes ROUTE.
MsgLoginHeartFirst(n, x) ==
  /\ Reads(n, x, "LOGIN")
  /\ \E t \in TableUpdate(table[n], LoginRow(x)) :
       /\ table' = [table EXCEPT ![n] = t]
       /\ chan' = SendRoute(Post(Read(n, x), n, {GetRouting(t, x)}, [type |-> "HEART", from |-> n]),
                            n, t, NoName)
  /\ UNCHANGED <<state, upsets, returns, signals, links, calm>>

MsgLogin(n, x) ==
  /\ Reads(n, x, "LOGIN")
  /\ \E t \in TableUpdate(table[n], LoginRow(x)) :
       /\ table' = [table EXCEPT ![n] = t]
       /\ chan' = Post(SendRoute(Read(n, x), n, t, NoName), n, {GetRouting(t, x)},
                       [type |-> "HEART", from |-> n])
  /\ UNCHANGED <<state, upsets, returns, signals, links, calm>>

MsgRoute(n, x) ==
  /\ Reads(n, x, "ROUTE")
  /\ \E t \in TableUpdate(table[n], Head(chan[<<x, n>>]).entries) :
       /\ table' = [table EXCEPT ![n] = t]
       /\ chan' = SendRoute(Read(n, x), n, t, x)
  /\ UNCHANGED <<state, upsets, returns, signals, links, calm>>

MsgLogout(n, x) ==
  /\ Reads(n, x, "LOGOUT")
  /\ LET t == DeleteFromTable(table[n], x)
     IN  /\ table' = [table EXCEPT ![n] = t]
         /\ chan' = SendRoute(Read(n, x), n, t, NoName)
  /\ UNCHANGED <<state, upsets, returns, signals, links, calm>>

MsgHeart(n, x) ==
  /\ Reads(n, x, "HEART")
  /\ chan' = Post(Read(n, x), n, {GetRouting(table[n], x)}, [type |-> "HEARTRESPONSE", from |-> n])
  /\ UNCHANGED <<state, table, upsets, returns, signals, links, calm>>

MsgHeartResponse(n, x) ==
  /\ Reads(n, x, "HEARTRESPONSE")
  /\ chan' = Read(n, x)
  /\ UNCHANGED <<state, table, upsets, returns, signals, links, calm>>

\* sendHeartbeatSignal: a HEART for one of the neighbours.  If it comes while
\* the server handles a LOGIN, the table may have the new neighbour although
\* his ROUTE and HEART are still to be sent: the step MsgLogin stands for
\* the moment at which they are.
SendHeart(n, x) ==
  /\ n \in On
  /\ signals < MaxSignals
  /\ signals' = signals + 1
  /\ \E t \in {table[n]} \cup (IF Reads(n, x, "LOGIN") THEN TableUpdate(table[n], LoginRow(x)) ELSE {}) :
       /\ x \in HopsOneAway(t)
       /\ chan' = Post(chan, n, {GetRouting(t, x)}, [type |-> "HEART", from |-> n])
  /\ UNCHANGED <<state, table, upsets, returns, links, calm>>

\* heartBeatFunction removes the neighbour x and tells the others.
Alarm(n, x) ==
  /\ n \in On
  /\ x \in HopsOneAway(table[n])
  /\ LET t == DeleteFromTable(table[n], x)
     IN  /\ table' = [table EXCEPT ![n] = t]
         /\ chan' = SendRoute(chan, n, t, NoName)
  /\ UNCHANGED <<state, returns, signals, links>>

Timeout(n, x) == x \notin On /\ Alarm(n, x) /\ UNCHANGED <<upsets, calm>>

\* The flags of the list stand beside other names: see HeartBeat.
FalseAlarm(n, x) ==
  /\ x \in On
  /\ upsets < MaxUpsets
  /\ upsets' = upsets + 1
  /\ calm' = FALSE
  /\ Alarm(n, x)

Handle(n, x) ==
  \/ MsgLogin(n, x) \/ MsgRoute(n, x) \/ MsgLogout(n, x)
  \/ MsgHeart(n, x) \/ MsgHeartResponse(n, x) \/ Timeout(n, x)

Next ==
  \/ \E n \in Node : DoLogout(n) \/ Crash(n) \/ \E to \in Node \cup {NoName} : Start(n, to)
  \/ \E l \in Link : Handle(l[1], l[2]) \/ SendHeart(l[1], l[2]) \/ FalseAlarm(l[1], l[2])

Spec == Init /\ [][Next]_vars

\* The servers and the heartbeat threads of the nodes that run get along
\* with what there is to do; nobody has to start or to stop.
FairSpec == Spec /\ WF_vars(\E l \in Link : Handle(l[1], l[2]))
-----------------------------------------------------------------------------
Routes == [chatName : Node, nextChatName : Node, hopCount : Nat]

\* Types of the variables: a table holds names of nodes with distances, and
\* a message carries the name of the node that has sent it.
TypeOK ==
  /\ state \in [Node -> {"off", "on", "stopped"}]
  /\ \A n \in Node : /\ table[n].slots \in [Slot -> Routes \cup {Null}]
                     /\ table[n].records \in [Slot -> [chatName : Node \cup {NoName},
                                                       reachable : BOOLEAN]]
  /\ \A l \in Link : \A k \in DOMAIN chan[l] :
       LET m == chan[l][k]
       IN  /\ m.from = l[1]
           /\ m.type \in {"LOGIN", "LOGOUT", "ROUTE", "HEART", "HEARTRESPONSE"}
           /\ m.type = "ROUTE" => m.entries \in Seq(Routes)
  /\ <<upsets, returns, signals>> \in (0 .. MaxUpsets) \X (0 .. MaxReturns) \X (0 .. MaxSignals)

\* What module RoutingTable assumes of an announcement of x to n.
Announces(m, x, n) ==
  /\ m # <<>>
  /\ \A k \in DOMAIN m : /\ m[k].nextChatName = x
                         /\ m[k].hopCount = 0 <=> m[k].chatName = x
  /\ Len(m) > 1 => \E k \in DOMAIN m : m[k].chatName = n

\* Every ROUTE on its way is what its receiver relies on, whatever has
\* happened since: it leads through its sender alone, and who it is sent to
\* finds himself in it, also after LOGOUT, crash and false alarm.  It closes
\* the circle of RoutingTable, which assumes it and shows AdvertisementOK.
RoutesAnnounce ==
  \A l \in Link : \A k \in DOMAIN chan[l] :
    chan[l][k].type = "ROUTE" => Announces(chan[l][k].entries, l[1], l[2])

\* What a table knows: the names with their distance.
Known(t) == [x \in {t.slots[i].chatName : i \in Used(t)} |-> t.slots[Least(SlotsOf(t, x))].hopCount]

\* The nodes linked with n, directly or through others, and their distance.
Component(n) ==
  LET near[k \in 0 .. Cardinality(Node)] ==
        IF k = 0 THEN [x \in {n} |-> 0]
        ELSE LET new == {x \in Node \ DOMAIN near[k - 1] :
                           \E y \in DOMAIN near[k - 1] : {x, y} \in links}
             IN  [x \in DOMAIN near[k - 1] \cup new |-> IF x \in new THEN k ELSE near[k - 1][x]]
  IN  near[Cardinality(Node)]

\* The tables settle: when every login, logout and crash has found the
\* network at rest and it is at rest again, each node knows exactly the
\* nodes it can reach, at their true distance.
Settled == returns = 0 /\ calm /\ Rest => \A n \in On : Known(table[n]) = Component(n)

\* A HEART of x is on its way to n behind the ROUTE that makes x known to n.
AskedLater(n, x) ==
  \E i, k \in DOMAIN chan[<<x, n>>] :
    i < k /\ chan[<<x, n>>][i].type = "ROUTE" /\ chan[<<x, n>>][k].type = "HEART"

\* Whoever receives a HEART can answer it, the case the TODO of msg_heart
\* leaves open, or is asked again when he can: a HEART of the heartbeat
\* thread may overtake the ROUTE that answers a LOGIN, and then that ROUTE
\* and the HEART of msg_login come behind it.  No cleanUp on the way forgets
\* the sender.
HeartsAnswered ==
  calm /\ returns = 0 =>
    \A l \in Link : Reads(l[1], l[2], "HEART") =>
      \/ GetRouting(table[l[1]], l[2]) # NoName
      \/ Reads(l[2], l[1], "LOGIN")
      \/ AskedLater(l[1], l[2])

\* Where a message of n for x that forward hands on from node to node comes
\* to a halt: at x, at a node that is gone or has no route, or nowhere.
Target(n, x) ==
  LET f[k \in 0 .. Cardinality(Node)] ==
        IF k = 0 THEN n
        ELSE IF f[k - 1] \in On \ {x} THEN GetRouting(table[f[k - 1]], x)
        ELSE f[k - 1]
  IN  f[Cardinality(Node)]

\* As long as nodes only join, each of them when the network is at rest, no
\* message is handed round in a circle, at no moment, although every node
\* changes its table on its own.
NoLoop == calm /\ upsets = 0 => \A l \in Link : Target(l[1], l[2]) \notin On \ {l[2]}

\* Distances do not count up: a name that has left may come back as the echo
\* of an own announcement, but not further away than the network is wide.
HopsBounded ==
  returns = 0 =>
    \A n \in On : \A x \in DOMAIN Known(table[n]) : Known(table[n])[x] < Cardinality(Node)

\* The announcements end: msg_route passes every ROUTE on, changed or not,
\* but not back; as long as no node starts a second time the links have no
\* cycle, every series of ROUTEs runs out, and who is gone is found out.
TrafficEnds == [](returns = 0) => <>[]Rest
=============================================================================
