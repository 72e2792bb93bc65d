# A verification of the RN_Praktikum_3 chat node

The program is a node of a peer-to-peer chat. Nodes log in to each other over TCP, tell each other
whom they can reach and over how many hops (distance-vector routing), forward messages, and watch
their neighbours with heartbeats. This directory holds TLA+ models of the node's parts, the
configurations that check them with TLC, and proofs for TLAPS.

## 1. Inventory

A node is one process with four threads: `main`, which becomes the user interface; the **server**
(`server.c`), which waits in epoll and handles one received message after the other; the **sender**
(`sender.c`), which empties the send queue; and the **heartbeat** (`heartBeat.c`). They share the
routing table, two queues, the connection list and the list of watched neighbours.

| part | state | operations | used by |
|---|---|---|---|
| routing table, `routingTable.c` | `routingTable`, `reachbleTable`, `freeEntries`, `tableLock` | `initTable`, `tableUpdate` with `cleanUp`, `deleteFromTable`, `getRouting`, `tableToCharArray`, `getHopsOneAway`, sizes | server, heartbeat; lookups by all |
| heartbeat, `heartBeat.c` | `users.oneHopaway` (50 places), `users.lock` | `heartBeatFunction`, `sendHeartbeatSignal`, `receiveHeartbeatResponse` | heartbeat, server |
| protocol, `protocol.c` | list of names in a series of messages | `protocol_handle_msg` and one `msg_*` per type, `forward`, `do_login`, `do_chat`, `do_logout` | server, user interface |
| queues, `queue.c` | two linked lists, a mutex each, at most 100 messages | `push_*`, `pop_*` | all threads |
| connections, `sender.c` | linked list address -> descriptor, `con_mutex` | `get_con`, `remove_con`, `remove_con_fd` | sender, server, heartbeat |
| server, `server.c` | the epoll set | accept, dispatch, drop | server |
| framing, `tcp_con.c` | none | `send_tcp`, `read_tcp`, connect, listen, close | sender, server |
| header, `protocol_header.c` | none | `getName`, `setName`, `protocol_create_header`, `msglen` | all |
| user interface, `ui.c` | tabs with messages | `add_foreign_message`, `add_own_message`, drawing, keys | main |

How they interact: a received LOGIN or ROUTE is merged into the table by the server, which then
queues its own table for its neighbours; LOGOUT deletes; HEART is answered; HEARTRESPONSE marks the
sender in the heartbeat's list. The heartbeat thread deletes who did not answer and announces that.
Deleting a name closes its connection. CHAT for another node is queued for the next hop.

What is hard, and what makes each part correct:

- *Table.* Two threads change it and `deleteFromTable` gives the lock away in the middle. It must stay a
  map (one entry per name), its two parallel arrays must agree, hop counts and next hops must fit
  together, what is announced must be what a neighbour may rely on, and every call must return.
- *Heartbeat.* The list is addressed by position while the table changes under it. Nobody who answers
  should be removed, who stops should be, and the remaining neighbours must hear of it.
- *Several nodes.* Announcements are merged without saying from whom a mark came, and always announced
  again. Correct would be: after the last change the tables agree with the network and traffic ends.
- *Queues and connections.* Bounded, first in first out, nothing lost silently; an entry of the list is an open connection of its
  peer; no connection is used after it was freed.
- *Framing.* A message goes in and the same message comes out, however TCP cuts the stream.

`PROJECT.json` lists every hazard of this kind at its line, with the properties that cover it or the
reason why none does yet.

## 2. Plan

1. `RoutingTable` with `RouteMap` as its abstract specification, and the proofs about it. *Done.*
2. `HeartBeat`, and the proofs of its safety properties. *Done.*
3. `MessageQueue`: the linked list as an implementation of `BoundedQueue`, and its proof. *Done.*
4. `Connections`: the connection list, descriptors that are used again, epoll, and the threads that
   use them; its safety invariants proved. *Done.*
5. `TableOps`, the calls of the table as functions, tied to `RoutingTable` by `CallsAtomic`, which is proved as well as `NextHopKnown`; `Network`, several
   nodes that run them and send each other LOGIN, ROUTE, LOGOUT and HEART; its types, `RoutesAnnounce`, `HeartsAnswered` and `NoLoop` proved, and `Settled` as long as nodes only join. *Done.*
6. `Chat`: framing, `forward` with its list, the tabs of the user interface; its types, `InOrder` and `Accounted` proved. *Done.*
7. `LoginFormat`: name fields, `msglen` and table entries byte by byte; its invariants proved. *Done.*
8. Left: inductive invariants for `Settled` and `HeartsAnswered` after departures and for `HopsBounded` of `Network`.

## 3. The models

### RoutingTable

One node's table. Variables `routingTable`, `reachbleTable`, `freeEntries`, `tableLock` are the C
globals; the other variables are the program counters and the locals of the calls in progress. An unused
slot is `Null` (the null pointer). A next hop is name, address and port in the C struct; they are
always written together, so the name stands for the three. Names are model values: they have at
most 31 characters here.

| action | code |
|---|---|
| `TableUpdate`, `Login`, `UpdateLock` | a ROUTE or LOGIN arrives; `tableUpdate` up to its lock |
| `AddEntry`, `RefreshEntry` | one turn of its loop: a new name, a known name |
| `UpdateEnd`, `CleanUpSlot`, `Unreachable`, `CleanUpEnd` | the end of `tableUpdate`, one turn of `cleanUp`'s loop before and after its call of `deleteFromTable` |
| `GetRouting`, `GetRoutingLock`, `GetRoutingReturn` | `getRouting`, on its own and within `deleteFromTable` |
| `Logout`, `HeartBeatTimeout`, `DeleteLock`, `DeleteScan`, `DeleteRemove`, `DeleteReturn` | `deleteFromTable`, called by the server and by the heartbeat |

`tableLock` is a Boolean, for that is what the code makes of it: `deleteFromTable` unlocks it more often
than it locks it, and with the default mutex of the GNU library an unlock by whoever does not hold
it opens it (formally undefined; this is what the build does). A step of the model is one slot or one
entry. Since the lock does not exclude anybody after the first removal, two such steps can overlap in the
program: that finer interleaving, which is a data race in C, is not modelled, nor that `freeEntries++`
of two threads may count once.

`Routes` is the set of announcements a neighbour may send. `RoutesAssumption` says what they look like
(`Announces`): they lead through one neighbour, only he is at distance 0, and, but for a table of a single
entry, the receiver is in them. This is an assumption on other nodes running the same program, and
`AdvertisementOK` states the first two about what this node announces: the guarantee that answers it. The third holds by the way recipients are chosen: they are names of the table
that is serialised. All of this speaks of one moment; the code lists the recipients and serialises the table one after the other.

`AddEntry` looks for the name (`checkNameInTable`) and for a free slot in one step. Only the server thread adds entries, so what may come between the
two is a deletion by the heartbeat thread. It only empties slots: the name is not found after it either, so that the outcome is the one of a deletion that comes
before both. (A deletion in the middle of the search is below the step of a slot or an entry.) `RefreshEntry` is different: a deletion between the look-up and the use of the slot is a use of a null pointer, one of the data races named above.

`RouteMap` is what a caller may think the table is: a map from names to routes in which a
name is learned, a route shortened, a name forgotten. `RoutesOfTable` maps the slots to it.

`MCRoutingTable` adds two questions about calls that nothing disturbs: besides the behaviours in which calls overlap it has, if `Alone` is
TRUE, those in which a call begins when all others have returned. There the variable `expected` holds what `TableOps`
says the call will make of the table, and `CallsAtomic` compares it with what the steps have made of it
at its end: this is what allows `Network` to take a handler as one step. `NextHopKnown`
asks whether the neighbour behind a route is in the table.

### HeartBeat

One node's heartbeat thread, the server thread as far as it touches the same list, and the neighbours,
which answer a HEART, answer late, or stop. Of the table only the direct neighbours in slot order
are kept; that the slots and names behave like that is the subject of `RoutingTable`.
`oneHopaway` is the C array: a position keeps its flag when `getHopsOneAway` writes another name
there. The field is called `notResponded` as in the code and is 1 when the user *has* responded.
`Collect`, `Clear`, `Recollect`, `SendHeartbeatSignal`, `WakeUp`, `Check`, `Remove`, `Announce`, `Tell` and `Told` are the
statements of `heartBeatFunction` in order. `Announce` brings the list up to date after a removal (`heartBeat.c:67`), `Tell` is one turn of the loop that sends the
table to its users, `Told` its end. The limit of that loop is the size of the table, read anew on every turn, and the server thread may delete and add entries between two
turns: `TableSizes` are the sizes the table may have with the neighbours there are. `audience` and `left` are history variables: the neighbours when the loop began, and how many the server has deleted since. `ReceiveHeartbeatResponse` and `Mark` are the locked stretch
of `receiveHeartbeatResponse`, in two steps because `Clear` and `Recollect` run without the lock.
Sleeping is not measured: an answer may come at any time, so both a timeout that is too short and
one that is not are among the behaviours. `answered` and `disturbed` are history variables. The array the table is written into is measured before it is
filled (`heartBeat.c:68`-`70`): that a neighbour who enters between the two does not fit into it is not modelled, as the content of announcements is not. A user that is deleted between
its place in the list and its turn is told in the model; in the code `getRouting` has no address for it, and what is pushed for it goes nowhere.

### MessageQueue

One of the two queues; `push_ui` and `pop_ui` are the code of `push_send` and `pop_send` for other
contents. `head` is the C pointer, `msg` and `next` are the fields of the cells, `allocated` says which are
not free. `Push` and `Pop` are the calls up to the lock, `Lock` takes `queue_mutex`, `PushFirst`, `PushWalk`, `Walk`
(one turn of the loop, with its count) and `PushLast` are the branches of `push_send`, `PopNothing` and
`PopHead` those of `pop_send`. Every return unlocks. `order` is a history variable: the cells in the order they
were linked. A cell that is freed is reset, and malloc does not fail: there is one cell more than the queue
may hold, so that a queue that is too long is possible.

`BoundedQueue` is what callers may think the queue is: a sequence, to which a call appends if it
has room, or from which it takes the first. A call takes effect at one point between its
beginning and its return; for a push that is the step that links its cell. The code needs `MaxSize` to be at least 2: with 1 it
would not refuse the second message.

### Connections

One node's connection list, its sender and server threads, the descriptors of the kernel and the peers.

| action | code |
|---|---|
| `GetConKnown`, `GetConConnect`, `Connected`, `ConnectFailed` | `get_con`: a known address, or `CLIENT_connect_to` with `con_mutex` held and its two ends |
| `ReturnHead` | `return con_head` after the unlock, for the first entry of the list |
| `LoadFd`, `SendTcp` | `con->socket_fd` in `sender_loop`, `send_tcp` |
| `RemoveCon` | `remove_con`, called by `deleteFromTable` on the server and the heartbeat thread |
| `EpollCreate`, `EpollWait` | the start of `server_loop`, one `epoll_wait` |
| `RemoveConFd`, `Accept`, `HandleMsg` | the three branches for an event |
| `Read`, `ReadError` | `read_tcp` within `protocol_handle_msg`, and its error |
| `PeerConnects`, `PeerSends`, `PeerCloses`, `PeerResets` | the other ends |

`socket` says for every descriptor what is behind it, and in which state. Descriptors are
numbers: a new one is the lowest that is free, so they are used again at once. What the kernel
reports for a closed, reset or never connected socket (`Error`, `Readable`, the outcomes of `SendTcp`, `Read` and
`ReadError`) is how Linux behaves. `events` is what is left of the last `epoll_wait`: it is not renewed while connections are
closed and opened, which is what makes this part hard. There are fewer descriptors than `MAX_EVENTS`.

Where the program reads freed memory (`LoadFd` after the entry has gone) the descriptor may be any. Where
`read_tcp` frees a pointer into the stack (`tcp_con.c:100`) the process ends: the place is not
aligned as a heap block would be, and the GNU library aborts. A write to a socket that is gone ends it with
SIGPIPE, for which there is no handler, and `con_head` may have become `NULL` when `get_con` returns it;
`process` says which of these it was. A process that has ended does nothing, so deadlock is not checked.

### TableOps and Network

`TableOps` has the calls of `routingTable.c` as functions from a table to a table: `PutEntry` is a round of `tableUpdate`'s
loop, `CleanUpSlot` one of `cleanUp`'s, `DeleteFromTable`, `GetRouting`, `HopsOneAway` and `TableToCharArray` are the
functions of these names. Their loops are recursive functions over the rounds, not folds, so that something can be
proved about them. The two arrays stay separate, for a record that is left in an old slot is what makes the
difference between the right table and the wrong one.

`Network` composes several of them. A handler is one step: the server is a single thread. The heartbeat thread can run within a handler; the one place where this
changes what the others see in a way the rest of the model does not have already is a LOGIN, see `SendHeart`.

| action | code |
|---|---|
| `Start` | `main`: `initTable`, `do_login` at one other node or none |
| `MsgLogin`, `MsgRoute`, `MsgLogout`, `MsgHeart`, `MsgHeartResponse` | the handlers of these names in `protocol.c`, with everything they send |
| `SendHeart` | `sendHeartbeatSignal` for one neighbour; while a LOGIN is at the head of a channel, also for the node that logs in, for the heartbeat thread may get the table between the unlock of `tableUpdate` (`protocol.c:181`) and the ROUTE (193). `MsgLogin` stands for the moment at which ROUTE and HEART are queued |
| `DoLogout`, `Crash` | `do_logout` at the end of the user interface, and any other end |
| `Timeout`, `FalseAlarm` | the removal in `heartBeatFunction` of a node that is gone, or of one that is not |

`chan` holds what one node has sent to another and the other has not read: a TCP connection keeps the order. Messages to
a node that is gone are lost, and so is what a node that stops has not read. A name stands for its address. `links` and `calm` are
history variables: who has logged in to whom, and whether every login, stop and alarm so far found the network at rest.

Three limits of this model bear on what its properties mean:

- Every message is read whole and by itself, and every push is accepted. The program takes one read for one message (`protocol.c:272`), so a ROUTE that arrives together with another
  message is lost, and so is one that is pushed to a full queue (`queue.c:96`); neither is sent again. `Settled`, `HeartsAnswered` and `TrafficEnds` are about networks in which this does not happen. `Chat`
  has both.
- An alarm is one step, as a handler is. A HEART of the heartbeat thread may come within the handling of a LOGIN; an alarm may not come within a handler, nor a handler within an alarm. What these do to
  the table of one node is the subject of `RoutingTable`.
- `DoLogout` sends the LOGOUT and stops the node in one step. `ui.c:277`-`278` sleeps for a second between the two, in which the other threads go on; what they send then
  comes behind the LOGOUT.

### Chat

The way of a text from one user to another. The routes stand still.

| action | code |
|---|---|
| `Enter`, `SwitchTab`, `AddForeignMessage` | the keys of `start_ui` with `add_own_message` and `do_chat`, and the emptying of the queue before each key |
| `Send` | `sender_loop`: `pop_send`, `send_tcp`, which writes EOT behind the message |
| `Read` | one `read` of `read_tcp`, and, when it is the last one, `protocol_handle_msg` |
| `MsgChat`, `Forward`, `Misread` | what the handler makes of the bytes: for this node, for another one, or neither |

A stream is a sequence of units: the first half of a header, its second half with the names, parts of the text, EOT.
A read may bring any number of them; the program takes one read for one message. If it cuts a message, the rest
is not a message of its own and is lost. If it brings two, the second one is lost. If `forward` gets a piece without EOT,
`msglen` takes the whole buffer, and the message goes on with zeros to its full size. If a read fills the buffer, the next one
waits on the same connection until more comes, and with it the only server thread: a text of the greatest length is read at once and
handled when the sender writes the next one, and so are two messages that arrive together and fill the buffer. A rest that begins with the bytes of another message type would be handled
as such; texts are typed, so this does not happen for text, and it is not modelled for the
end of a header. `content[msglen(content)] = 0` writes behind the buffer when nothing in it is EOT; the model
assumes this harmless. `intact` is a history variable: no read has cut or merged, no queue or tab was full, no route was missing.

### LoginFormat

A LOGIN, the entry made of it, and the ROUTE that announces it, on bytes. `SetName`, `GetName`, `Header`, `MsgLen` are the functions of
`protocol_header.c`; `DoLogin`, `MsgLogin` and `MsgRoute` the handlers. An entry is a packed struct: what `strcmp` reads
of a name that fills its field is the name and the address behind it (`NameIn`). Addresses and ports are octets in the order
of the wire; `initTable` swaps the octets of `inet_addr` for this, which is not modelled again.

## 4. What the runs show

| run | question | result |
|---|---|---|
| `table` | `UniqueNames`, `RecordsMatch`, `DirectIffOneHop`, `AdvertisementOK`, `ImplementsRouteMap`, `CallsReturn` with the server and the heartbeat thread overlapping; `CallsAtomic` and `NextHopKnown` for calls that do not | hold |
| `lock` | does `tableLock` exclude? | **no**: `deleteFromTable` unlocks it in its loop |
| `unreachable` | is a name reported as unreachable really not announced? | **no**: a record left in an old slot removes the name from its new one, even with one call at a time |
| `heartbeat` | `FirstAlarmJustified`, `RemovalAnnounced` with logins, logouts and late responses | hold, the latter with at most one deletion during the announcement |
| `network` | `RoutesAnnounce`, `Settled`, `HeartsAnswered`, `NoLoop`, `HopsBounded`, `TrafficEnds`: do the tables of several nodes settle, and what may be relied on meanwhile? | hold, under the conditions stated in them |
| `chat` | `InOrder`, `Accounted`, `Delivered`: what arrives of what is typed? | what arrives is in order; texts are lost to bad reads, full queues and missing routes only |
| `login` | `ShortNameFound`, `AddressArrives`, `RouteWhole`: is a node entered as it announces itself? | yes, for names below 32 characters and addresses that are not cut |
| `stopped` | is a stopped neighbour removed? | yes, if removed neighbours do not keep coming back |
| `queue` | `ListOK`, `ImplementsFifo`, `CallsReturn`, `Delivered`: is the list a bounded FIFO queue, does every call return and every accepted message come out? | yes |
| `connections` | `ConnectionsOpen`, `SocketsKnown`, `ResetRemoved`: do list, descriptors and epoll set fit together while connections come and go? | yes |
| `can_be_read` | is there something to read when the server reads because of an event? | **no**: events of connections that have been closed are handled for those that have got their descriptors |
| `not_responding` | is who is told to be "not responding" really so? | **no**: flags stay by position when the names move |

`FirstAlarmJustified` is the part of the last question that does hold: as long as the table has not
changed since the list was emptied. The first removal of a round is such a change, and so is every
login and logout. With three neighbours of which two come back in every round the loop can skip
a stopped one for ever (one removal moves it to the place just visited); `QuietSpec` of `MCHeartBeat`
therefore lets neighbours enter only while the list is empty.

`RemovalAnnounced` is about the comment at `heartBeat.c:66`, by which the updated table goes to all neighbours after a removal. The limit of the loop that sends it is the size of
the table, this node's own entry among it, at each turn. A deletion by the server thread lowers the limit: after one it is still the number of users listed, thanks to the own entry. After two, with nobody
further away in the table, it is one less, the loop ends early, and the last user listed is not told though he is still a neighbour: with `left <= 2` in place of `left <= 1` TLC shows it, for
three users of whom two log out. So the comment's promise is kept up to one deletion, which is what the property and the theorem say.

`ResetRemoved` promises less than it seems: only what is registered is watched. An entry is registered if it
was the only one when it was made and the server had created its epoll set by then, although the comment at
`sender.c:44` wants them all registered; a second peer, or a login that is sent before the server
thread has come to `epoll_create1`, shows the contrary. And the promise ends when the
process ends: `ConnectionsOpen` holds up to then. A peer that closes and resets a connection before the sender's next
write ends the process (`send_tcp` is documented to return -1, `tcp_con.h:39`), and so does an event for a
descriptor that has been closed (`read_tcp`, `tcp_con.h:49`). If the wrong `free` in `read_tcp` were mended and nothing else, the
`close_tcp` of `protocol.c:275` would close connections that stay in the list, and messages would reach
the wrong peer: the mutant `ReadErrorCloses` is that program, and `ConnectionsOpen` fails for it.
No property is about an entry that is removed between `get_con` and `send_tcp` (`sender.c:140`). The model has these steps: the sender uses whatever it
finds in the freed memory, or a descriptor that has been closed and given to another peer, and writes to the wrong one. Nothing in the code says that this should not be, other than that it
must not happen; `ConnectionsOpen` is what holds of the entries that are in the list.

The properties of `Network` state under which conditions the protocol works, and each condition is needed. The links made
by logins form a forest as long as nobody starts twice, and an announcement is never sent back: that is why
the announcements end (`TrafficEnds`). A node that starts again within its neighbours' timeout can close a cycle, and
ROUTEs then go round for ever. `Settled` needs logins that find the network at rest (`calm`): a LOGIN handled before the
node has heard of its own neighbours is never announced to them, and in a line of three that is the end state.
`HeartsAnswered` is about the case that the TODO at `protocol.c:262` leaves open, a HEART whose sender is not in the table. It does occur, with a HEART of the heartbeat thread that overtakes the
ROUTE of a LOGIN, and then nothing is answered; the property says that it is made good: the LOGIN is still being handled, or the ROUTE is on its way with another HEART behind it. It needs `calm`, too: in a line of
four with overlapping logins a `cleanUp` on the way deletes the sender of a HEART. `NoLoop` holds while nodes only join, each when the network is at rest: with five nodes and overlapping logins,
a `cleanUp` that forgets a name and an announcement that brings it back can leave two nodes that for a while name each other as the next hop; and
after a logout the name comes back as the echo of an announcement with the same effect. `HopsBounded` says that this echo does not count up.
All of them speak of networks where nobody has started twice; with two stops and a return a record left in an old slot
lets a node delete a name that has come back, which is the network's view of run `unreachable`.

`Accounted` says where a text is at every moment, and so what can lose it: nothing but a cut or merged read, a full queue or tab and a missing route.
`Delivered` speaks of texts that are typed while nothing has gone wrong and no server stays in a read: if one message or several fill the buffer to its end, `read_tcp` waits for
more (`tcp_con.c:96`), nothing is lost, and nothing is shown until somebody writes again on the same connection. In the run this happens with one long text and with two short ones.
Not stated as a property is what `queue.h:11`-`14` and `protocol.c:159`-`161` say of a series of forwarded messages, that the last one gets the mark DOWN and takes its
target off the list. The code never does this: `forward` looks for EOT in a length that excludes it, so every message after the first gets KEEP and a target stays on the list
until the process ends. Nothing reads the marks, so that no text is lost by it.

`ShortNameFound` and `AddressArrives` say under which conditions a login works, and both conditions are needed. A name of 32 characters, which
`main.c:76` allows, fills `chatName` without a terminating zero: `strcmp` reads on into the address, and the node is entered but never found. And `msglen`
measures a LOGIN up to its first byte 4: of an address such as 10.4.0.1, or a port from 1024 to 1279, the rest is lost, and the node is entered,
and announced, with an address where it does not listen. Without its condition each property fails in a state in which the name is full or an octet is 4.

The loops of `routingTable.c` visit 10 of the 100 slots (they divide by 80), while `freeEntries` starts at 99: the eleventh name is dropped
without the message for a full table. The model has both numbers (`NumSlots`, `TableSize`), and its table is full at `NumSlots`.

Every property has a mutant in `PROJECT.json`: a plausible slip in one of the modelled functions that
the run detects.

### Bounds

- Names: the node and two neighbours; three slots, so that the array can be full, and two where
  a third thread takes part. `TableSize` is one or two more, as the array
  has more slots than the loops visit.
- `MaxHop` 2 (1 in some runs): new announcements carry hop counts up to this, so entries are 1 to 3 hops away and routes
  can be shortened twice.
- `OverlapHop` 1 (0 in run `unreachable`): the same bound in the behaviours in which calls overlap; `MaxHop` is for those in which they
  do not.
- `MaxFree`: `freeEntries` is counted up without limit when deletions meet; new messages and
  timeouts come only while it is at most `MaxFree`. It lies at or above the value a single update starts from, so
  the drift itself is reached.
- Announcements: everything two neighbours can say of themselves, of this node and of each other; a third
  party behaves like the one of the two that is not the sender.
- Heartbeat: three neighbours and three slots, so that two deletions can meet an announcement to two users. `FewMessages` bounds the HEARTs and responses that are on their way once the table has changed since the list
  was emptied; before, which is what `FirstAlarmJustified` is about, all may be. `NumSlots` of `HeartBeat` is the number of slots neighbours can have: a full table and, for `NotResponding`, two of each. The list's last
  position is never filled, as with 50 places and at most 9 neighbours in the program.
- Queue: two producers, three messages at most (a first, a middle and a last one), four cells. A third
  producer and a fourth place were checked for the safety properties with the same result.
- Connections: two peers and two descriptors, so that a descriptor that is closed goes to the other peer or
  to a connection that is accepted, and all descriptors can be in use; `MaxInbound` 1. The safety
  properties were also checked with three descriptors.
- Network: five nodes, in every forest of logins, one stop, crash or false alarm, one return; six slots, so that the table never
  is full. Nodes start in the order of their names, as names are interchangeable; the fifth only while every
  change finds the network at rest, and the fourth not at all once somebody has started again (`Small`). The heartbeat threads send one HEART (`MaxSignals`), in behaviours that are
  calm. Four nodes are the least with which two
  logins far from each other overlap and an echo can travel; the fifth gives `Settled` and `NoLoop` a network with a longer way.
- Chat: two users, one node between one of them and the third, and a name that has left, to which there is no route. A buffer of eight units:
  two messages with a text of one unit fill it, as does one message with a text of five (`Lengths` of `MCChat`). Two reads at most, queues of two, three messages per tab, two texts typed, two reads that cut or merge (`MaxFaults`).
- LoginFormat: fields of three bytes, addresses and ports of two octets out of 0, 4 and another one, names of one to three
  characters; the neighbour's address and port contain a 4. Every function treats bytes one by one, and these are all the kinds it tells apart.
- `CHECK_DEADLOCK` is off for `Connections`, where the process may end, for `Network` and `Chat`, which come to rest when nobody starts
  or types any more, and for `LoginFormat`, whose exchange ends.

### Fairness

`FairSpec` of `RoutingTable` assumes `SF` of each thread's steps: a running thread is scheduled, and one
that waits for a mutex that is released again and again gets it, which the kernel's futex queue gives in
practice. Calls have no fairness: nothing forces a message to arrive. `QuietSpec` assumes `SF` of the heartbeat
thread for the same reason and `WF` of `Mark`, which only finishes a locked stretch. Nothing is
assumed of the neighbours and of the user. In `MessageQueue` the steps of a call have `SF` for the same reason, and the
consumer's next pop `WF`: the sender and the user interface pop in a loop. That the sender comes back to its
loop needs `send_tcp` and `connect` to end. In `Connections` the server has `SF` (it waits for `con_mutex`, which the sender takes
again and again), and the sender `WF`: a connect ends by its timeout. In `Network` there is `WF` of the handlers taken together: some node with something to
read gets along. `MCNetwork` states it without `ENABLED`: a handler is enabled exactly when the network is not at rest, and the handlers are
the steps that leave `state` and `upsets` alone. In `Chat` each thread of each node has `WF`, and `MCChat` states it in the same
way: a queue or stream that is not empty gets shorter in the end. The server has no fairness beyond that, so a read that waits for more may wait for ever.

## 5. What is proved

`RoutingTableProofs` proves for every set of names, every number of slots, any number of threads that look
up, and every set of announcements that satisfies the assumptions:

| theorem | statement |
|---|---|
| `TypeCorrect` | `Spec => []TypeOK` |
| `NoTwoEntries` | `Spec => []UniqueNames` |
| `ParallelTablesAgree` | `Spec => []RecordsMatch` |
| `HopCountsSound` | `Spec => []DirectIffOneHop` |
| `AnnouncementsSound` | `Spec => [](OwnEntryKept /\ AdvertisementOK)` |
| `TableIsRouteMap` | `Spec => ImplementsRouteMap`: the table implements `RouteMap` |

`CallsProofs` proves of `MCRoutingTable`, under the same assumptions, for the calls that no other thread meets:

| theorem | statement |
|---|---|
| `CallsAreAtomic` | `MCSpec => []CallsAtomic`: the steps of a call leave the table `TableOps` gives for it |
| `NextHopsStayKnown` | `MCSpec => []NextHopKnown`, if `Name` has no more names than there are slots and every announcement contains its sender |

`MessageQueueProofs` proves for every number of producers and consumers, every set of messages and every `MaxSize`
from 2:

| theorem | statement |
|---|---|
| `QueueTypes` | `Spec => []TypeOK` |
| `QueueIntact` | `Spec => []ListOK` |
| `QueueIsFifo` | `Spec => ImplementsFifo`: the linked list implements `BoundedQueue` |

`ConnectionsProofs` proves for every set of peers, every number of descriptors and every `MaxInbound`:

| theorem | statement |
|---|---|
| `ConnectionTypes` | `Spec => []TypeOK` |
| `EntriesOpen` | `Spec => []ConnectionsOpen` |
| `NoSocketForgotten` | `Spec => []SocketsKnown` |

`HeartBeatProofs` proves for every finite set of neighbours, mortal or not, and every number of slots:

| theorem | statement |
|---|---|
| `HeartBeatTypes` | `Spec => []TypeOK` |
| `AlarmJustified` | `Spec => []FirstAlarmJustified` |
| `AllToldOfRemoval` | `Spec => RemovalAnnounced` |

`NetworkProofs` proves for every set of nodes, every number of slots and any number of starts, stops, crashes and false alarms:

| theorem | statement |
|---|---|
| `TablesSound` | `Spec => []IInv`: each table is sound (own entry in slot 0, one entry per name, hop count 1 exactly for direct neighbours), and so is every message |
| `NetworkTypes` | `Spec => []TypeOK` |
| `RoutesAnnounceAlways` | `Spec => []RoutesAnnounce` |
| `HeartsAlwaysAnswered` | `Spec => [](upsets = 0 => HeartsAnswered)`: `HeartsAnswered` as long as nodes only join |
| `NoLoops` | `Spec => []NoLoop` |
| `SettlesAfterJoins` | `Spec => [](upsets = 0 /\ Cardinality(Node) <= NumSlots => Settled)`: `Settled` as long as nodes only join and a table has a slot for each of them |

`ChatProofs` proves for every set of nodes and users, every assignment of routes, and all sizes of buffers, queues and tabs that satisfy the assumptions:

| theorem | statement |
|---|---|
| `ChatTypes` | `Spec => []TypeOK` |
| `TextsInOrder` | `Spec => []InOrder` |
| `TextsAccounted` | `Spec => []Accounted` |

`LoginFormatProofs` proves for fields of any length, and for every name, address and port, the neighbour's among them:

| theorem | statement |
|---|---|
| `LoginTypes` | `Spec => []TypeOK` |
| `ShortNamesFound` | `Spec => []ShortNameFound` |
| `AddressesArrive` | `Spec => []AddressArrives` |
| `RoutesReadWhole` | `Spec => []RouteWhole` |

Assumed are the named ASSUMEs of the modules: the names, sizes and bounds are what they are in the code, and, in `RoutingTable`,
neighbours announce what this program announces (which `RoutesAnnounceAlways` shows of networks of such nodes). `Chat` assumes that no node lists itself among
those it can reach or has a route through itself, that there are no more names than tabs, and that the notices of the logins at the start fit into the queue of the user interface. In `Network` the set of nodes is finite (`FiniteAssumption`), as a name has at most `NAME_LEN` bytes; only `NoLoop` and `Settled` need it. In `LoginFormat` the neighbour's
name is shorter than its field: one that fills it is read with the address behind it even in the neighbour's own entry.

The inductive invariant `IInv` has three parts. `TypeInv` adds to the types which labels a thread can be
at and when the locals of a call are in range (a deletion that has an entry to remove has not left the array). It
is inductive by itself. `TableInv` holds of the table: the properties above and `OwnRecord`, that no slot but the first has
a record with the node's own name. `ThreadInv` is what makes them inductive. That the own entry is
never deleted does not follow from the table: the entry is lost if `cleanUp` finds its record
unmarked. `Merging` says that until `cleanUp` has passed slot 0 the mark is there or the part of
the announcement that is still to come names this node, which is what the assumption on announcements is needed
for; `Cleaning` carries it through the loop; `OthersDeleted` says that the argument of every deletion in progress is
another node. No part mentions the lock: the theorems hold although it does not exclude.

The proof of each part has one step per action. TLC checked `IInv` on the instance of the run
`table` before it was proved.

For the queue the invariant is: `Mutex` (at most one thread is past the lock, and then it is locked), `Calls` (a call in progress has its argument and its result is
pending), `Walking` (the cell a push looks at is the one it has counted to in `order`), `Bounded` and
`Filled` (at most `MaxSize` cells, each with a message), and `ListOK` (the pointers lead through `order`). Because of `Walking` a
push that finds no next cell is at the end of `order` with fewer than `MaxSize` cells, and one that gives up
has seen that the queue is full: these are the steps of the abstract queue. Here, unlike in the
table, the proof rests on the lock.

That the table implements `RouteMap` follows action by action: a step writes one slot or one record, and because no name has
two entries (`UniqueNames`) a change of one slot is a change of the route of one name. An entry that is put in an empty slot
learns its name, for the scan before has not found it and only the server adds; one that is refreshed shortens the route; one that is deleted forgets it. The own
entry is kept by the invariant above.

For the calls the invariant, `CallInv`, looks backwards from the end: in the loop of `tableUpdate` or `cleanUp` the table expected is what the rounds that
are left make of the table there is (`InMerge`, `InClean`), in a deletion the table is one of which the slots behind the loop have been cleared and the others
have not (`InDelete`, `Passed`), and `expected` belongs to the table the deletion began with. `TableOps` has the loops as recursive functions; that they exist and
satisfy their equations is shown by induction over the rounds (`MergeUnrolled`, `CleanUnrolled`). `Counted` says that `freeEntries` is the number of unused slots, plus those the loops
never visit, so that a free slot is never refused for the counter's sake; it holds as long as calls do not overlap, and needs `Removing`: the entry found by the scan is still the
one that is removed. For the next hops `HopsKnown` allows two exceptions while a call runs: the sender's own entry is still to come in the announcement, or the entry leads through the
name that is being deleted and the loop has not come to it. A direct neighbour's entry is never replaced (`DirectStays`), so once there it is there until it is deleted, and with it goes all
that leads through it. The two conditions of the theorem are what the property needs: a table that is full drops the sender as it drops anybody. That an
announcement contains its sender follows of nodes running this program from `OwnEntryKept`.

For the connections it is `TypeInv` (the types, and which locals go with which label), `Connecting` (while the sender
connects, its address is not in the list and nobody else has its descriptor), and the two properties themselves. They hold
each other up: an entry can only go wrong when its descriptor is closed or handed out again; a descriptor is closed with
its entry alone, and handed out only if nothing is behind it. `Connecting` rests on `con_mutex`, which the sender
keeps over its connect. A set of descriptors has a least one by well-founded induction over the numbers, which the
library has as a theorem.

For the heartbeat it is `OneSlotEach` (no neighbour has two slots), `Control` (who holds `users.lock`, where the counters are, and that the last
place of the list is empty), `NamesAsInTable` and `AnsweredFlagged`. The third is the reason for the second half of the property: while the
table has not changed since the list was emptied, each name stands at the place of its slot, or nowhere yet, so that a
flag belongs to its name; then whose response was handled has the flag until the loop has passed. That `getHopsOneAway` fills the
places without a gap is counted in `HolderExists`: the rank of a slot among those in use is an injection between finite sets
of the same size.
`AudienceListed` is the invariant behind `RemovalAnnounced`: while the users are told, each name of `audience` stands at one of the first places of the list, as many as there are names, all of these are filled, and `Direct`
has lost at most `left` names since. With one lost the limit is still the number of places, so that the loop ends behind all of them; `NobodyLeftYet` says that the count begins at 0.

For the network it is `Sound` of every table, which is what `TableInv` is of one, and `Queues`: every message has its
sender's name, and a ROUTE is an announcement to its receiver. The two need each other. That the own entry survives every `cleanUp` follows
from the receiver being named in every announcement of more than one entry; and he is named because a ROUTE goes to the names with hop
count 1 in the very table that is serialised. That `tableToCharArray` lists each entry, and what a merge leaves, is proved by induction over the rounds.
The prover cannot instantiate the library's induction theorem, which takes the property as an operator; `Induction` has it as a set of numbers
and follows from the well-foundedness of `<`.

`NoLoop` rests on `LoopInv`, which speaks of the behaviours in which nodes only join, each when the network is at rest. Its first half, `Joined`, is the reason why nothing
circles: every entry of another node leads to a neighbour, and that neighbour knows the name as nearer (`Down`). A circle would be a way on which distances fall for ever; it
is excluded by counting, as |Node| + 1 stations with falling distances would be |Node| + 1 different nodes (`NoCircle`). That `Down` holds at every moment depends
on `cleanUp`: should one neighbour forget a name, the entries that lead through it lead nowhere, or back. So the second half, `Doing`, says what can be on its way, apart from HEARTs and their responses, which
change no table and may be anywhere (`Beats`):

- nothing, and all who know of each other know the same nodes, being neighbours is mutual (`Calmed`);
- one LOGIN, of a node nobody knows (`Asking`); that nobody has heard of a node that has not started is `Fresh`;
- the news that a node `x` and those it knows have become one set `D` of nodes (`Spreading`). `Knowing` says who of `D` has heard of all of it already, and
  that whoever has not knows `x` or is its neighbour; `NewsMail` that every ROUTE is sent by one that knows all of `D`, names
  exactly `D`, and its distances are none that its sender has since got further from; `Telling` that whoever knows all of `D` has a ROUTE on its way to each neighbour that does not.

An announcement that names all of `D` marks every record, so `cleanUp` removes nothing (`CleanUpIdle`) and tables only grow and get nearer (`Grown`), which is what keeps `Down`. That there is a slot
for each name of `D` is not assumed, it follows: they fit into the table of `x`, which has as many slots (`Room`). When the network is at rest again nobody is left to be told, and by induction over the distance
to `x` all of `D` know all of `D` (`RestKnows`): it is calm, and the next node may start. The size of the tables does not matter: a login for which there is no slot leaves the table as it was.

`HeartsAnswered` rests on `LoopInv`, too. `HeartInv` says for every pair of nodes that, if there is a HEART of `u` anywhere on its way to `v`, then `v` is `Welcome`: it knows `u`, or a ROUTE of `u` is on its way with a HEART behind it, or it is
the one whose LOGIN `u` has not handled yet, and there is room for it. The last case becomes the second when the LOGIN is handled (`LoginWelcome`), and the second becomes the first when the ROUTE is read (`RouteWelcome`): the announcement names all nodes of `D`,
`u` among them, which fit into the table of `v` (`Room`), and `cleanUp` takes none of them out. Nobody is forgotten (`Grown`). A heartbeat thread sends a HEART to neighbours only, or to the node whose LOGIN is being handled, and being neighbours is mutual but for a node that still
waits for its first ROUTE (`Mutual`, `Knowing`, `Greeted`).

`Settled` adds what the nodes know of distances. `SettleInv` has two parts. `Linked` says that neighbours are linked, and linked nodes are neighbours, except while one of them asks the
other. `Passed` says that what a node knows its neighbours know as well, no more than a hop further away, unless a ROUTE that says so is on its way to them. It holds for every ROUTE that is read
because the receiver tells all its neighbours what it knows now, but for the sender; and the sender knows it, for what is new came from there, and what is old has been
passed on before. At rest nothing is on its way, and `Passed` and `Down` together fix the distances (`Level`): who knows a name at a distance of `k` is known to it at `k`, too (`LevelSymmetric`, by
induction along the way); every distance up to that of a name occurs on the way to it, so none reaches the number of nodes (`FewHops`, by counting); and the names within `k` hops are those
that `Component` has found after `k` rounds (`SphereWidens`). That a LOGIN finds a slot is counted in `LoginFits`: this is what the size of the tables is needed for.

The type invariant of the chat rests on the *pipe* of a connection, what the
server has read so far and what it has not: a pipe is a stretch of messages in which a header half is followed by its other half, and by as many parts of text at most as were
typed; cutting it anywhere leaves two such stretches, the second of which begins
with a header or is not taken for one.

`InOrder` is about texts that are in several places of several nodes at once, which is why it is not inductive. `OrderInv` puts these places in
one line: for a user `x`, a receiver `n` and every way along the routes (`Walk`), the tab of `x` at `n`, then the queue of its user interface, then
for each node back along the way the pipe from it and its send queue. `WaysOK` says that headers stand only where the routes lead. `LinesOK` says that along each line the
numbers of the texts rise backwards. Every step does one of three things to a line (`Moves`): it takes the head of one place to
the end of the place before it, it loses something, or it appends the next number at the far end. Each of them keeps a sorted line sorted, however long it is.

`Accounted` says that every text is in one place. That none is in two (`Once`) follows from the same moves: each takes what is in one place to one place,
whatever has gone wrong before. That none is in no place (`Present`) needs more, and only holds as long as nothing has gone wrong: `WholeInv` says that then
what stands in every pipe and every send queue is whole messages, from a header through as many parts of text as were typed to EOT, and that whatever waits for
the user or is shown is a whole text. A read that brings one message then takes the first of a pipe and leaves whole messages behind it, and a node
hands on or shows what it has read. With the types, which say at which node a text can be shown, the places that `Accounted` counts are those of the invariant (`PlacesAt`, `AtPlaces`). Two
more facts are needed: nobody has written to himself (`NotSelf`), and a server reads what others have sent (`ReadsOthers`).

For the login the invariant, `Inv`, says what has been sent at each step: a LOGIN up to its first EOT, which lies behind the names (`CutWire`), then a ROUTE
of two rows (`RouteWire`), and for both what the receiver has made of it. The rest are lemmas about the functions on bytes. `GetNameFrom` says what `getName` skips, `ShortNameRead` and
`LongNameRead` what `strcmp` reads of a field and what lies behind it: a name that fills its field is read as something longer, so it is never taken for the
neighbour's, whose name is short. `LoginRead` says that what is cut off reads as zeros, `RowRead` that the six fields of a row come back from its place in a
message. A ROUTE has two rows here, as many as the exchange gives it; that longer ones are taken row by row is in `TableToCharArray` and `PutAll`, not in these theorems.

Every inductive invariant was checked by TLC before it was proved. Only model-checked are

- `Settled` and `HeartsAnswered` after departures, and `HopsBounded`, of `Network`. `LoopInv` and `SettleInv` do not carry them: when nodes have left or crashed tables shrink, and an announcement can be the echo of one's own;
  `HopsBounded` also goes on while logins overlap. Where a table is full `Settled` is false, so more nodes than slots are left out of the theorem as of the run;
- `CallsReturn`, `Delivered`, `StoppedRemoved`, `ResetRemoved` and `TrafficEnds`: liveness is beyond the prover.

## 6. What is not modelled

- Drawing, the terminal and the editing of the input line (`ui.c`), and the text of the printed table. `first_visible_message` is part of it: with the body of its
  first `if` commented out, the test for the height applies to `visible > 1` only.
- Parsing of the arguments but for the length of a name, and the manual test programs.
- Messages of type ERROR, which nothing sends; `getChatName` and `checkNameNotInMessage`, which nobody calls.
- Data races below the step of a slot or an entry, and what a write behind a buffer or a field does to other memory.
- A node that changes its address, or two nodes with the same name.
- Overflow of the 32-bit hop count, which needs four billion hops.
- More names than tabs: `add_foreign_message` would write to `tabs[-1]`; `TabsAssumption` excludes it.
