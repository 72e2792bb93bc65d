---------------------------- MODULE Connections ----------------------------
(***************************************************************************)
(* The connections of one node: the list of src/sender.c with the          *)
(* descriptors in it, the sender thread that opens and uses them, the      *)
(* server thread of src/server.c that waits for events and reads, and      *)
(* every deletion of a route, by which a connection is closed.  The peers  *)
(* connect, send, close and reset as they like.                            *)
(*                                                                         *)
(* Descriptors are numbers that the kernel hands out again, the lowest     *)
(* first.  What a peer sends is one piece of data, read at once.           *)
(***************************************************************************)
EXTENDS Integers, Sequences, SequencesExt

CONSTANTS
  Addr,        \* addr_port of the peers
  NumFds,      \* descriptors the process can have for connections
  MaxInbound,  \* connections that peers open, at most
  NULL         \* no address

Fd == 1 .. NumFds
NoFd == -1
Listen == 0  \* server_socket

ASSUME BoundsAssumption == NumFds \in Nat /\ MaxInbound \in Nat
ASSUME NullAssumption == NULL \notin Addr

VARIABLES
  connections,  \* the list behind con_head: [addr, fd], fd is NoFd if connect failed
  socket,       \* what is behind every descriptor
  registered,   \* the descriptors in the epoll set
  backlog,      \* peers that wait for accept
  epoll,        \* has epoll_create1 been called?
  server,       \* label of the server thread, descriptor it reads
  events,       \* what is left of the events of epoll_wait
  sender,       \* label of the sender thread, its dest_addr and socket_fd
  process       \* "running", or what ended it

kernel == <<socket, registered, backlog>>
vars == <<connections, kernel, epoll, server, events, sender, process>>

-----------------------------------------------------------------------------
(* Descriptors and sockets *)

\* A socket leads "to" a peer, or came "from" one.  One that is "leaked" was made
\* for a connect that failed.  "fin": the peer has closed; "reset": and that is an
\* error the next call reports; "broken": that error has been reported, or "fin" came first.
Closed == [kind |-> "closed", peer |-> NULL, state |-> "none", data |-> FALSE]
Socket(kind, peer, state) == [kind |-> kind, peer |-> peer, state |-> state, data |-> FALSE]

Sockets ==
  [kind : {"closed", "connecting", "leaked", "to", "from"}, peer : Addr \cup {NULL},
   state : {"none", "open", "fin", "reset", "broken"}, data : BOOLEAN]

\* socket() and accept() take the lowest free number, or fail.
Free == {fd \in Fd : socket[fd] = Closed}
NewFd == IF Free = {} THEN NoFd ELSE CHOOSE fd \in Free : \A other \in Free : fd <= other

SetSocket(fd, s) == socket' = IF fd = NoFd THEN socket ELSE [socket EXCEPT ![fd] = s]

\* A descriptor that is closed leaves the epoll set by itself.
CloseTcp(fd) ==
  /\ SetSocket(fd, Closed)
  /\ registered' = registered \ {fd}

\* Mutant: the descriptor -1 of a failed connect is put into the epoll set.
RegisterUnchecked(fd) == registered' = registered \cup {fd}

\* epoll_ctl: fails without a descriptor or before epoll_create1.
Register(fd) ==
  registered' = IF epoll /\ fd # NoFd THEN registered \cup {fd} ELSE registered

Error(fd) == socket[fd].state \in {"reset", "broken"}
Readable(fd) == \/ socket[fd].data
                \/ socket[fd].state \in {"fin", "reset", "broken"}
                \/ socket[fd].kind \in {"closed", "leaked"}

Init ==
  /\ connections = <<>>
  /\ socket = [fd \in Fd |-> Closed]
  /\ registered = {}
  /\ backlog = {}
  /\ epoll = FALSE
  /\ server = [pc |-> "start", fd |-> NoFd]
  /\ events = <<>>
  /\ sender = [pc |-> "pop", dest |-> NULL, fd |-> NoFd]
  /\ process = "running"

Running == process = "running"
Die(cause) == process' = cause

\* con_mutex is held over a step only while the sender waits for connect.
MutexFree == sender.pc # "connecting"

-----------------------------------------------------------------------------
(* The list *)

Has(a) == \E i \in DOMAIN connections : connections[i].addr = a
Entry(a) == connections[SelectInSeq(connections, LAMBDA c : c.addr = a)]

\* Unlinks entry i and closes its descriptor; 0 if the search has found none.
RemoveEntry(i) ==
  IF i = 0
    THEN UNCHANGED <<connections, socket, registered>>
    ELSE /\ connections' = RemoveAt(connections, i)
         /\ CloseTcp(connections[i].fd)

\* Mutant: the entry is unlinked and its socket stays open.
RemoveConUnlink(a) ==
  /\ Running /\ MutexFree /\ Has(a)
  /\ connections' = RemoveFirst(connections, Entry(a))
  /\ UNCHANGED <<kernel, epoll, server, events, sender, process>>

\* deleteFromTable, called by the server for a LOGOUT or ROUTE and by the heartbeat thread.
RemoveCon(a) ==
  /\ Running /\ MutexFree /\ Has(a)
  /\ RemoveEntry(SelectInSeq(connections, LAMBDA c : c.addr = a))
  /\ UNCHANGED <<backlog, epoll, server, events, sender, process>>

-----------------------------------------------------------------------------
(* The sender *)

GetConKnown(a) ==
  /\ Running /\ sender.pc = "pop" /\ Has(a)
  /\ sender' = [sender EXCEPT !.pc = "found", !.dest = a]
  /\ UNCHANGED <<connections, kernel, epoll, server, events, process>>

\* No entry: socket(), and connect with con_mutex held.
GetConConnect(a) ==
  /\ Running /\ sender.pc = "pop" /\ ~Has(a)
  /\ SetSocket(NewFd, Socket("connecting", a, "none"))
  /\ sender' = [pc |-> "connecting", dest |-> a, fd |-> NewFd]
  /\ UNCHANGED <<connections, registered, backlog, epoll, server, events, process>>

\* The first entry is registered, and returned as con_head after con_mutex is released.
AddCon(fd) ==
  /\ connections' = Append(connections, [addr |-> sender.dest, fd |-> fd])
  /\ IF connections = <<>> THEN Register(fd) ELSE UNCHANGED registered
  /\ sender' = [sender EXCEPT !.pc = IF connections = <<>> THEN "head" ELSE "found", !.fd = NoFd]

Connected ==
  /\ Running /\ sender.pc = "connecting" /\ sender.fd # NoFd
  /\ SetSocket(sender.fd, Socket("to", sender.dest, "open"))
  /\ AddCon(sender.fd)
  /\ UNCHANGED <<backlog, epoll, server, events, process>>

\* CLIENT_connect_to returns -1 and does not close its socket.
ConnectFailed ==
  /\ Running /\ sender.pc = "connecting"
  /\ SetSocket(sender.fd, Socket("leaked", NULL, "none"))
  /\ AddCon(NoFd)
  /\ UNCHANGED <<backlog, epoll, server, events, process>>

\* Only the sender adds entries: con_head is the new one, or NULL, which it dereferences.
ReturnHead ==
  /\ Running /\ sender.pc = "head"
  /\ IF connections = <<>>
       THEN Die("null con_head") /\ UNCHANGED sender
       ELSE sender' = [sender EXCEPT !.pc = "found"] /\ UNCHANGED process
  /\ UNCHANGED <<connections, kernel, epoll, server, events>>

\* con->socket_fd; of an entry that has been freed it may be any number.
LoadFd ==
  /\ Running /\ sender.pc = "found"
  /\ \E fd \in IF Has(sender.dest) THEN {Entry(sender.dest).fd} ELSE Fd \cup {NoFd} :
       sender' = [sender EXCEPT !.pc = "write", !.fd = fd]
  /\ UNCHANGED <<connections, kernel, epoll, server, events, process>>

\* send_tcp: an error of write is not seen, and SIGPIPE is not handled.
SendTcp ==
  /\ Running /\ sender.pc = "write"
  /\ LET fd == sender.fd
         s == IF fd = NoFd THEN Closed ELSE socket[fd]
     IN  /\ IF s.kind = "leaked" \/ s.state = "broken" THEN Die("SIGPIPE") ELSE UNCHANGED process
         /\ IF s.state = "reset" THEN SetSocket(fd, [s EXCEPT !.state = "broken"]) ELSE UNCHANGED socket
  /\ sender' = [pc |-> "pop", dest |-> NULL, fd |-> NoFd]
  /\ UNCHANGED <<connections, registered, backlog, epoll, server, events>>

-----------------------------------------------------------------------------
(* The server *)

EpollCreate ==
  /\ Running /\ server.pc = "start"
  /\ epoll' = TRUE
  /\ server' = [server EXCEPT !.pc = "wait"]
  /\ UNCHANGED <<connections, kernel, events, sender, process>>

Ready == {fd \in registered : Error(fd) \/ Readable(fd)} \cup (IF backlog = {} THEN {} ELSE {Listen})

EpollWait ==
  /\ Running /\ server.pc = "wait" /\ Ready # {}
  /\ events' = [fd \in Ready |-> IF fd # Listen /\ Error(fd) THEN "error" ELSE "in"]
  /\ server' = [server EXCEPT !.pc = "dispatch"]
  /\ UNCHANGED <<connections, kernel, epoll, sender, process>>

\* The next turn of the loop over the events, or of the loop around it.
NextEvent(fd) ==
  /\ events' = [other \in DOMAIN events \ {fd} |-> events[other]]
  /\ server' = [pc |-> IF DOMAIN events = {fd} THEN "wait" ELSE "dispatch", fd |-> NoFd]

\* Mutant: remove_con_fd starts behind the head of the list.
RemoveConFdBehindHead(fd) ==
  /\ Running /\ server.pc = "dispatch" /\ fd \in DOMAIN events /\ events[fd] = "error"
  /\ MutexFree
  /\ RemoveEntry(SelectInSeq(connections, LAMBDA c : c.fd = fd /\ c # connections[1]))
  /\ NextEvent(fd)
  /\ UNCHANGED <<backlog, epoll, sender, process>>

RemoveConFd(fd) ==
  /\ Running /\ server.pc = "dispatch" /\ fd \in DOMAIN events /\ events[fd] = "error"
  /\ MutexFree
  /\ RemoveEntry(SelectInSeq(connections, LAMBDA c : c.fd = fd))
  /\ NextEvent(fd)
  /\ UNCHANGED <<backlog, epoll, sender, process>>

Accept ==
  /\ Running /\ server.pc = "dispatch" /\ Listen \in DOMAIN events
  /\ IF NewFd = NoFd
       THEN UNCHANGED kernel
       ELSE \E a \in backlog :
              /\ backlog' = backlog \ {a}
              /\ SetSocket(NewFd, Socket("from", a, "open"))
              /\ Register(NewFd)
  /\ NextEvent(Listen)
  /\ UNCHANGED <<connections, epoll, sender, process>>

\* The call of protocol_handle_msg.
HandleMsg(fd) ==
  /\ Running /\ server.pc = "dispatch" /\ fd \in DOMAIN events \ {Listen} /\ events[fd] = "in"
  /\ server' = [pc |-> "read", fd |-> fd]
  /\ UNCHANGED <<connections, kernel, epoll, events, sender, process>>

\* It reads, and handles what it has read.  At the end of the stream it does nothing.
Read ==
  LET s == socket[server.fd]
  IN  /\ Running /\ server.pc = "read"
      /\ s.data \/ s.state \in {"fin", "broken"}
      /\ SetSocket(server.fd, [s EXCEPT !.data = FALSE])
      /\ NextEvent(server.fd)
      /\ UNCHANGED <<connections, registered, backlog, epoll, sender, process>>

\* Mutant: read_tcp returns -1, and protocol_handle_msg closes the descriptor.
ReadErrorCloses ==
  LET s == socket[server.fd]
  IN  /\ Running /\ server.pc = "read"
      /\ ~s.data
      /\ s.state = "reset" \/ s.kind \in {"closed", "leaked"}
      /\ CloseTcp(server.fd)
      /\ NextEvent(server.fd)
      /\ UNCHANGED <<connections, backlog, epoll, sender, process>>

\* read_tcp frees its parameter, a place on the stack: the C library ends the process.
ReadError ==
  LET s == socket[server.fd]
  IN  /\ Running /\ server.pc = "read"
      /\ ~s.data
      /\ s.state = "reset" \/ s.kind \in {"closed", "leaked"}
      /\ Die("abort")
      /\ UNCHANGED <<connections, kernel, epoll, server, events, sender>>

-----------------------------------------------------------------------------
(* The peers *)

Inbound == Cardinality(backlog) + Cardinality({fd \in Fd : socket[fd].kind = "from"})

PeerConnects(a) ==
  /\ Running /\ epoll
  /\ a \notin backlog /\ Inbound < MaxInbound
  /\ backlog' = backlog \cup {a}
  /\ UNCHANGED <<connections, socket, registered, epoll, server, events, sender, process>>

Peer(fd, s) ==
  /\ Running
  /\ SetSocket(fd, s)
  /\ UNCHANGED <<connections, registered, backlog, epoll, server, events, sender, process>>

PeerSends(fd) == socket[fd].state = "open" /\ ~socket[fd].data /\ Peer(fd, [socket[fd] EXCEPT !.data = TRUE])
PeerCloses(fd) == socket[fd].state = "open" /\ Peer(fd, [socket[fd] EXCEPT !.state = "fin"])
PeerResets(fd) ==
  /\ socket[fd].state \in {"open", "fin"}
  /\ Peer(fd, [socket[fd] EXCEPT !.state = IF @ = "open" THEN "reset" ELSE "broken"])

-----------------------------------------------------------------------------
Next ==
  \/ \E a \in Addr : RemoveCon(a) \/ GetConKnown(a) \/ GetConConnect(a) \/ PeerConnects(a)
  \/ Connected \/ ConnectFailed \/ ReturnHead \/ LoadFd \/ SendTcp
  \/ EpollCreate \/ EpollWait \/ Accept \/ Read \/ ReadError
  \/ \E fd \in Fd : RemoveConFd(fd) \/ HandleMsg(fd) \/ PeerSends(fd) \/ PeerCloses(fd) \/ PeerResets(fd)

Spec == Init /\ [][Next]_vars

(***************************************************************************)
(* Threads go on, and the server gets con_mutex in the end although the    *)
(* sender takes it again and again; a connect ends by itself.  Nothing is  *)
(* assumed of the peers, and nobody has to send or to delete a route.      *)
(***************************************************************************)
ServerStep ==
  \/ EpollCreate \/ EpollWait \/ Accept \/ Read \/ ReadError
  \/ \E fd \in Fd : RemoveConFd(fd) \/ HandleMsg(fd)
SenderStep == Connected \/ ConnectFailed \/ ReturnHead \/ LoadFd \/ SendTcp

FairSpec == Spec /\ SF_vars(ServerStep) /\ WF_vars(SenderStep)

-----------------------------------------------------------------------------
(* Properties *)

\* Every variable keeps its type; only descriptors are in the epoll set.
TypeOK ==
  /\ connections \in Seq([addr : Addr, fd : Fd \cup {NoFd}])
  /\ socket \in [Fd -> Sockets]
  /\ registered \subseteq Fd
  /\ backlog \subseteq Addr
  /\ epoll \in BOOLEAN
  /\ server \in [pc : {"start", "wait", "dispatch", "read"}, fd : Fd \cup {NoFd}]
  /\ DOMAIN events \subseteq Fd \cup {Listen}
  /\ \A fd \in DOMAIN events : events[fd] \in {"in", "error"}
  /\ sender \in [pc : {"pop", "connecting", "head", "found", "write"}, dest : Addr \cup {NULL}, fd : Fd \cup {NoFd}]
  /\ process \in {"running", "null con_head", "SIGPIPE", "abort"}

\* The list has one entry for an address, and what is behind its descriptor is a socket
\* connected to that address, whoever closes connections meanwhile (sender.c:33-128): no
\* entry keeps the number of a descriptor that was closed and given to another connection.
ConnectionsOpen ==
  /\ \A i, j \in DOMAIN connections : connections[i].addr = connections[j].addr => i = j
  /\ \A i \in DOMAIN connections :
       LET c == connections[i]
       IN  c.fd # NoFd => socket[c.fd].kind = "to" /\ socket[c.fd].peer = c.addr

\* No open socket is lost: one that the sender has opened is in the list, where a
\* deletion finds it, and one that a peer has opened is in the epoll set, where it is read.
SocketsKnown ==
  \A fd \in Fd :
    /\ socket[fd].kind = "to" => \E i \in DOMAIN connections : connections[i].fd = fd
    /\ socket[fd].kind = "from" => fd \in registered

\* When the server reads because of an event there is something to read (server.c:81).
CanBeRead == Running /\ server.pc = "read" => Readable(server.fd)

\* A registered connection that its peer has reset is taken from the list (server.c:59),
\* unless the process has ended or its server thread waits for data (see CanBeRead).
Broken(fd) == fd \in registered /\ socket[fd].kind = "to" /\ Error(fd)
Blocked == server.pc = "read" /\ ~Readable(server.fd)
ResetRemoved ==
  \A fd \in Fd : Broken(fd) ~> (~Broken(fd) \/ ~Running \/ Blocked)
=============================================================================
