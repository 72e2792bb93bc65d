-------------------------- MODULE ConnectionsProofs --------------------------
(***************************************************************************)
(* Proofs that the safety invariants of Connections hold for every set of  *)
(* peers and every number of descriptors.                                  *)
(*                                                                         *)
(* They hang together: an entry can only go wrong when its descriptor is   *)
(* closed or handed out again, and a descriptor is closed with its entry   *)
(* alone and handed out only if nothing is behind it.  The entry the       *)
(* sender is about to add is not there yet, for it keeps con_mutex.        *)
(***************************************************************************)
EXTENDS Connections, TLAPS, WellFoundedInduction

\* Labels and locals go together; the server waits on an epoll set only.
Control ==
  /\ server.pc = "read" => server.fd \in Fd
  /\ server.pc # "start" => epoll
  /\ sender.pc # "pop" => sender.dest \in Addr

\* While the sender connects, its address is not in the list and nobody
\* else has its descriptor.
Connecting ==
  sender.pc = "connecting" =>
    /\ ~Has(sender.dest)
    /\ sender.fd # NoFd => socket[sender.fd].kind = "connecting"

TypeInv == TypeOK /\ Control
ListInv == Connecting /\ ConnectionsOpen /\ SocketsKnown
IInv == TypeInv /\ ListInv

Con == [addr : Addr, fd : Fd \cup {NoFd}]

\* The searches of remove_con and get_con, and of remove_con_fd.
AddrAt(a) == SelectInSeq(connections, LAMBDA c : c.addr = a)
FdAt(fd) == SelectInSeq(connections, LAMBDA c : c.fd = fd)

-----------------------------------------------------------------------------
LEMMA FdsAreNumbers == Fd \subseteq Nat /\ NoFd \notin Fd /\ Listen \notin Fd /\ NoFd \notin Nat
  BY BoundsAssumption DEF Fd, NoFd, Listen

\* A set of numbers that is not empty has a least one.
LEMMA LeastNumber ==
  ASSUME NEW S \in SUBSET Nat, S # {}
  PROVE  \E i \in S : \A j \in S : i <= j
<1>1. PICK i \in S : \A j \in S : ~ (<<j, i>> \in OpToRel(<, Nat))
  BY NatLessThanWellFounded, WFMin, Zenon
<1>2. \A j \in S : ~ (j < i)
  BY <1>1 DEF OpToRel
<1> QED
  BY <1>2

LEMMA LeastIsIn ==
  ASSUME NEW S \in SUBSET Nat, S # {}
  PROVE  Min(S) \in S
<1>1. \E i \in S : \A j \in S : i <= j
  BY LeastNumber
<1> QED
  BY <1>1, Zenon DEF Min

\* A new descriptor is a free one, if there is one.
LEMMA NewFdFree ==
  /\ NewFd \in Fd \cup {NoFd}
  /\ NewFd \in Fd => socket[NewFd] = Closed
<1>1. CASE Free = {}
  BY <1>1, FdsAreNumbers DEF NewFd
<1>2. CASE Free # {}
  <2>1. Free \in SUBSET Nat
    BY FdsAreNumbers DEF Free
  <2>2. \E fd \in Free : \A other \in Free : fd <= other
    BY <1>2, <2>1, LeastNumber
  <2>3. NewFd \in Free
    BY <1>2, <2>2, Zenon DEF NewFd
  <2> QED
    BY <2>3 DEF Free
<1> QED
  BY <1>1, <1>2

\* What the two searches of the list find.
LEMMA FindAddr ==
  ASSUME TypeOK, NEW a
  PROVE  /\ ~Has(a) => AddrAt(a) = 0
         /\ Has(a) => AddrAt(a) \in DOMAIN connections /\ connections[AddrAt(a)].addr = a
<1> DEFINE I == {i \in 1 .. Len(connections) : connections[i].addr = a}
<1>1. AddrAt(a) = IF I # {} THEN Min(I) ELSE 0
  BY DEF AddrAt, SelectInSeq
<1>2. DOMAIN connections = 1 .. Len(connections) /\ Len(connections) \in Nat
  <2>1. connections \in Seq(Con)
    BY DEF TypeOK, Con
  <2> QED
    BY <2>1
<1>3. Has(a) <=> I # {}
  BY <1>2 DEF Has
<1>4. I \in SUBSET Nat
  BY <1>2
<1>5. I # {} => Min(I) \in I
  BY <1>4, LeastIsIn
<1> QED
  BY <1>1, <1>2, <1>3, <1>5

LEMMA FoundEntry ==
  ASSUME TypeOK, NEW a, Has(a)
  PROVE  /\ Entry(a) \in Con
         /\ \E i \in DOMAIN connections : Entry(a) = connections[i] /\ connections[i].addr = a
<1>1. AddrAt(a) \in DOMAIN connections /\ connections[AddrAt(a)].addr = a
  BY FindAddr
<1>2. Entry(a) = connections[AddrAt(a)]
  BY DEF Entry, AddrAt
<1>3. connections \in Seq(Con)
  BY DEF TypeOK, Con
<1> QED
  BY <1>1, <1>2, <1>3

LEMMA FindFd ==
  ASSUME TypeOK, NEW fd
  PROVE  FdAt(fd) = 0 \/ (FdAt(fd) \in DOMAIN connections /\ connections[FdAt(fd)].fd = fd)
<1> DEFINE I == {i \in 1 .. Len(connections) : connections[i].fd = fd}
<1>1. FdAt(fd) = IF I # {} THEN Min(I) ELSE 0
  BY DEF FdAt, SelectInSeq
<1>2. DOMAIN connections = 1 .. Len(connections) /\ Len(connections) \in Nat
  <2>1. connections \in Seq(Con)
    BY DEF TypeOK, Con
  <2> QED
    BY <2>1
<1>4. I \in SUBSET Nat
  BY <1>2
<1>5. I # {} => Min(I) \in I
  BY <1>4, LeastIsIn
<1> QED
  BY <1>1, <1>2, <1>5

\* The entries that are left when one is unlinked.
LEMMA Unlinked ==
  ASSUME NEW s \in Seq(Con), NEW i \in DOMAIN s
  PROVE  /\ RemoveAt(s, i) \in Seq(Con)
         /\ \A j \in DOMAIN RemoveAt(s, i) :
              \E k \in DOMAIN s : k # i /\ k = (IF j < i THEN j ELSE j + 1) /\ RemoveAt(s, i)[j] = s[k]
         /\ \A k \in DOMAIN s : k # i => \E j \in DOMAIN RemoveAt(s, i) : RemoveAt(s, i)[j] = s[k]
<1> DEFINE t == RemoveAt(s, i)
<1>0. Len(s) \in Nat /\ DOMAIN s = 1 .. Len(s) /\ i \in 1 .. Len(s)
  OBVIOUS
<1>1. t \in Seq(Con) /\ Len(t) = Len(s) - 1 /\ DOMAIN t = 1 .. Len(s) - 1
  BY <1>0 DEF RemoveAt
<1>2. \A j \in 1 .. Len(s) - 1 : t[j] = s[IF j < i THEN j ELSE j + 1]
  <2> DEFINE u == SubSeq(s, 1, i - 1)
             v == SubSeq(s, i + 1, Len(s))
  <2>1. /\ u \in Seq(Con) /\ Len(u) = i - 1 /\ \A j \in 1 .. i - 1 : u[j] = s[j]
        /\ v \in Seq(Con) /\ Len(v) = Len(s) - i /\ \A j \in 1 .. Len(s) - i : v[j] = s[i + j]
    BY <1>0
  <2>2. \A j \in 1 .. Len(u) + Len(v) : (u \o v)[j] = IF j <= Len(u) THEN u[j] ELSE v[j - Len(u)]
    BY <2>1
  <2>3. ASSUME NEW j \in 1 .. Len(s) - 1 PROVE (u \o v)[j] = s[IF j < i THEN j ELSE j + 1]
    <3>1. CASE j < i
      BY <1>0, <2>1, <2>2, <3>1
    <3>2. CASE ~(j < i)
      <4>1. j - (i - 1) \in 1 .. Len(s) - i /\ i + (j - (i - 1)) = j + 1 /\ ~(j <= i - 1)
        BY <1>0, <3>2
      <4>2. j \in 1 .. Len(u) + Len(v)
        BY <1>0, <2>1
      <4> HIDE DEF u, v
      <4> QED
        BY <2>1, <2>2, <3>2, <4>1, <4>2
    <3> QED
      BY <3>1, <3>2
  <2> QED
    BY <2>3 DEF RemoveAt
<1>3. ASSUME NEW j \in DOMAIN t
      PROVE  \E k \in DOMAIN s : k # i /\ k = (IF j < i THEN j ELSE j + 1) /\ t[j] = s[k]
  BY <1>0, <1>1, <1>2
<1>4. ASSUME NEW k \in DOMAIN s, k # i PROVE \E j \in DOMAIN t : t[j] = s[k]
  <2>1. CASE k < i
    BY <1>0, <1>1, <1>2, <2>1
  <2>2. CASE k > i
    <3>1. k - 1 \in 1 .. Len(s) - 1 /\ ~(k - 1 < i) /\ (k - 1) + 1 = k
      BY <1>0, <2>2
    <3>2. t[k - 1] = s[k]
      BY <1>2, <3>1
    <3> QED
      BY <1>1, <3>1, <3>2
  <2> QED
    BY <1>0, <1>4, <2>1, <2>2
<1> QED
  BY <1>1, <1>3, <1>4

-----------------------------------------------------------------------------
(***************************************************************************)
(* Types and control.                                                      *)
(***************************************************************************)
LEMMA SocketTypes ==
  /\ Closed \in Sockets
  /\ \A kind \in {"connecting", "leaked", "to", "from"}, peer \in Addr \cup {NULL},
        state \in {"none", "open"} : Socket(kind, peer, state) \in Sockets
  /\ \A s \in Sockets : /\ [s EXCEPT !.data = TRUE] \in Sockets
                        /\ [s EXCEPT !.data = FALSE] \in Sockets
                        /\ \A state \in {"fin", "reset", "broken"} : [s EXCEPT !.state = state] \in Sockets
  BY DEF Closed, Socket, Sockets

LEMMA SetSocketType ==
  ASSUME TypeOK, NEW fd, NEW s \in Sockets, SetSocket(fd, s)
  PROVE  socket' \in [Fd -> Sockets]
  BY DEF SetSocket, TypeOK

LEMMA NextEventType ==
  ASSUME TypeOK, NEW fd, NextEvent(fd)
  PROVE  /\ DOMAIN events' \subseteq Fd \cup {Listen}
         /\ \A e \in DOMAIN events' : events'[e] \in {"in", "error"}
         /\ server' \in [pc : {"start", "wait", "dispatch", "read"}, fd : Fd \cup {NoFd}]
         /\ server'.pc \in {"wait", "dispatch"}
  BY DEF NextEvent, TypeOK

\* The tail of get_con puts a new entry into the list.
LEMMA AddConType ==
  ASSUME TypeInv, sender.pc = "connecting", NEW fd \in Fd \cup {NoFd}, AddCon(fd)
  PROVE  /\ connections' \in Seq(Con)
         /\ connections' = Append(connections, [addr |-> sender.dest, fd |-> fd])
         /\ registered' \in SUBSET Fd /\ registered \subseteq registered'
         /\ sender' \in [pc : {"pop", "connecting", "head", "found", "write"},
                         dest : Addr \cup {NULL}, fd : Fd \cup {NoFd}]
         /\ sender'.dest = sender.dest /\ sender'.pc \in {"head", "found"}
<1>1. connections \in Seq(Con) /\ [addr |-> sender.dest, fd |-> fd] \in Con
  BY DEF TypeInv, TypeOK, Control, Con
<1>2. connections' \in Seq(Con) /\ connections' = Append(connections, [addr |-> sender.dest, fd |-> fd])
  BY <1>1 DEF AddCon
<1>3. registered' \in SUBSET Fd /\ registered \subseteq registered'
  BY DEF AddCon, Register, TypeInv, TypeOK
<1>4. /\ sender' \in [pc : {"pop", "connecting", "head", "found", "write"},
                      dest : Addr \cup {NULL}, fd : Fd \cup {NoFd}]
      /\ sender'.dest = sender.dest /\ sender'.pc \in {"head", "found"}
  BY DEF AddCon, TypeInv, TypeOK
<1> QED
  BY <1>2, <1>3, <1>4

LEMMA RemoveEntryType ==
  ASSUME TypeOK, NEW i, i = 0 \/ i \in DOMAIN connections, RemoveEntry(i)
  PROVE  connections' \in Seq(Con) /\ socket' \in [Fd -> Sockets] /\ registered' \in SUBSET Fd
<1>1. connections \in Seq(Con) /\ socket \in [Fd -> Sockets] /\ registered \subseteq Fd
  BY DEF TypeOK, Con
<1>2. CASE i = 0
  BY <1>1, <1>2 DEF RemoveEntry
<1>3. CASE i # 0
  <2>1. connections' = RemoveAt(connections, i) /\ CloseTcp(connections[i].fd) /\ i \in DOMAIN connections
    BY <1>3 DEF RemoveEntry
  <2>2. connections' \in Seq(Con)
    BY <1>1, <2>1, Unlinked
  <2>3. socket' \in [Fd -> Sockets]
    BY <2>1, SocketTypes, SetSocketType DEF CloseTcp
  <2>4. registered' \in SUBSET Fd
    BY <1>1, <2>1 DEF CloseTcp
  <2> QED
    BY <2>2, <2>3, <2>4
<1> QED
  BY <1>2, <1>3

LEMMA TypeInit == Init => TypeInv
<1> SUFFICES ASSUME Init PROVE TypeInv
  OBVIOUS
<1>1. connections = <<>> /\ connections \in Seq([addr : Addr, fd : Fd \cup {NoFd}])
  BY DEF Init
<1>2. socket \in [Fd -> Sockets]
  BY SocketTypes DEF Init
<1>3. DOMAIN events = {}
  BY DEF Init
<1> QED
  BY <1>1, <1>2, <1>3 DEF Init, TypeInv, TypeOK, Control

LEMMA TypeNext == TypeInv /\ [Next]_vars => TypeInv'
<1> SUFFICES ASSUME TypeInv, [Next]_vars PROVE TypeInv'
  OBVIOUS
<1>t. TypeOK /\ Control
  BY DEF TypeInv
<1>l. /\ connections \in Seq(Con) /\ registered \subseteq Fd
      /\ Con = [addr : Addr, fd : Fd \cup {NoFd}]
  BY <1>t DEF TypeOK, Con
<1>f. NewFd \in Fd \cup {NoFd}
  BY NewFdFree
<1> USE DEF TypeInv
<1>1. ASSUME NEW a \in Addr, RemoveCon(a) PROVE TypeInv'
  <2>1. AddrAt(a) \in DOMAIN connections
    BY <1>t, <1>1, FindAddr DEF RemoveCon
  <2>2. RemoveEntry(AddrAt(a))
    BY <1>1 DEF RemoveCon, AddrAt
  <2>3. connections' \in Seq(Con) /\ socket' \in [Fd -> Sockets] /\ registered' \in SUBSET Fd
    BY <1>t, <2>1, <2>2, RemoveEntryType
  <2> QED
    BY <1>t, <1>l, <1>1, <2>3 DEF RemoveCon, TypeOK, Control
<1>2. ASSUME NEW a \in Addr, GetConKnown(a) PROVE TypeInv'
  BY <1>t, <1>2 DEF GetConKnown, TypeOK, Control, kernel
<1>3. ASSUME NEW a \in Addr, GetConConnect(a) PROVE TypeInv'
  <2>1. socket' \in [Fd -> Sockets]
    BY <1>t, <1>3, SocketTypes, SetSocketType DEF GetConConnect
  <2> QED
    BY <1>t, <1>f, <1>3, <2>1 DEF GetConConnect, TypeOK, Control
<1>4. ASSUME NEW a \in Addr, PeerConnects(a) PROVE TypeInv'
  BY <1>t, <1>4 DEF PeerConnects, TypeOK, Control
<1>5. ASSUME NEW fd \in Fd \cup {NoFd}, NEW s \in Sockets, sender.pc = "connecting",
             SetSocket(sender.fd, s), AddCon(fd), UNCHANGED <<backlog, epoll, server, events, process>>
      PROVE  TypeInv'
  <2>1. socket' \in [Fd -> Sockets]
    BY <1>t, <1>5, SetSocketType
  <2>2. /\ connections' \in Seq(Con) /\ registered' \in SUBSET Fd
        /\ sender' \in [pc : {"pop", "connecting", "head", "found", "write"},
                        dest : Addr \cup {NULL}, fd : Fd \cup {NoFd}]
        /\ sender'.dest = sender.dest
    BY <1>5, AddConType
  <2> QED
    BY <1>t, <1>l, <1>5, <2>1, <2>2 DEF TypeOK, Control
<1>6. CASE Connected
  <2>1. sender.dest \in Addr /\ sender.fd \in Fd \cup {NoFd}
    BY <1>t, <1>6 DEF Connected, Control, TypeOK
  <2>2. Socket("to", sender.dest, "open") \in Sockets
    BY <2>1, SocketTypes
  <2> QED
    BY <1>5, <1>6, <2>1, <2>2 DEF Connected
<1>7. CASE ConnectFailed
  <2>1. Socket("leaked", NULL, "none") \in Sockets
    BY SocketTypes
  <2> QED
    BY <1>5, <1>7, <2>1 DEF ConnectFailed
<1>8. CASE ReturnHead
  BY <1>t, <1>8 DEF ReturnHead, Die, TypeOK, Control, kernel
<1>9. CASE LoadFd
  <2>1. PICK fd \in Fd \cup {NoFd} : sender' = [sender EXCEPT !.pc = "write", !.fd = fd]
    <3>1. PICK fd \in IF Has(sender.dest) THEN {Entry(sender.dest).fd} ELSE Fd \cup {NoFd} :
            sender' = [sender EXCEPT !.pc = "write", !.fd = fd]
      BY <1>9 DEF LoadFd
    <3>2. Has(sender.dest) => Entry(sender.dest) \in Con
      BY <1>t, FoundEntry
    <3> QED
      BY <3>1, <3>2 DEF Con
  <2> QED
    BY <1>t, <1>9, <2>1 DEF LoadFd, TypeOK, Control, kernel
<1>10. CASE SendTcp
  <2>1. socket' \in [Fd -> Sockets]
    <3> DEFINE s == IF sender.fd = NoFd THEN Closed ELSE socket[sender.fd]
    <3>1. s \in Sockets
      BY <1>t, SocketTypes DEF TypeOK
    <3>2. SetSocket(sender.fd, [s EXCEPT !.state = "broken"]) \/ UNCHANGED socket
      BY <1>10 DEF SendTcp
    <3>3. [s EXCEPT !.state = "broken"] \in Sockets
      BY <3>1, SocketTypes
    <3> QED
      BY <1>t, <3>2, <3>3, SetSocketType DEF TypeOK
  <2> QED
    BY <1>t, <1>10, <2>1 DEF SendTcp, Die, TypeOK, Control
<1>11. CASE EpollCreate
  BY <1>t, <1>11 DEF EpollCreate, TypeOK, Control, kernel
<1>12. CASE EpollWait
  <2>1. Ready \subseteq Fd \cup {Listen}
    BY <1>t DEF Ready, TypeOK
  <2> QED
    BY <1>t, <1>12, <2>1 DEF EpollWait, TypeOK, Control, kernel
<1>13. CASE Accept
  <2>1. CASE NewFd = NoFd
    BY <1>t, <1>13, <2>1, NextEventType DEF Accept, TypeOK, Control, kernel
  <2>2. CASE NewFd # NoFd
    <3>1. PICK a \in backlog : /\ backlog' = backlog \ {a}
                               /\ SetSocket(NewFd, Socket("from", a, "open"))
                               /\ Register(NewFd)
      BY <1>13, <2>2 DEF Accept
    <3>2. socket' \in [Fd -> Sockets]
      <4>1. Socket("from", a, "open") \in Sockets
        BY <1>t, SocketTypes DEF TypeOK
      <4> QED
        BY <1>t, <3>1, <4>1, SetSocketType
    <3>3. registered' \subseteq Fd
      BY <1>l, <1>f, <2>2, <3>1 DEF Register
    <3> QED
      BY <1>t, <1>13, <3>1, <3>2, <3>3, NextEventType DEF Accept, TypeOK, Control
  <2> QED
    BY <2>1, <2>2
<1>14. CASE Read
  <2>1. server.fd \in Fd /\ socket[server.fd] \in Sockets
    BY <1>t, <1>14 DEF Read, Control, TypeOK
  <2>2. socket' \in [Fd -> Sockets]
    BY <1>t, <1>14, <2>1, SocketTypes, SetSocketType DEF Read
  <2> QED
    BY <1>t, <1>14, <2>2, NextEventType DEF Read, TypeOK, Control
<1>15. CASE ReadError
  BY <1>t, <1>15 DEF ReadError, Die, TypeOK, Control, kernel
<1>16. ASSUME NEW fd \in Fd, RemoveConFd(fd) PROVE TypeInv'
  <2>1. FdAt(fd) = 0 \/ FdAt(fd) \in DOMAIN connections
    BY <1>t, FindFd
  <2>2. RemoveEntry(FdAt(fd))
    BY <1>16 DEF RemoveConFd, FdAt
  <2>3. connections' \in Seq(Con) /\ socket' \in [Fd -> Sockets] /\ registered' \in SUBSET Fd
    BY <1>t, <2>1, <2>2, RemoveEntryType
  <2> QED
    BY <1>t, <1>l, <1>16, <2>3, NextEventType DEF RemoveConFd, TypeOK, Control
<1>17. ASSUME NEW fd \in Fd, HandleMsg(fd) PROVE TypeInv'
  BY <1>t, <1>17 DEF HandleMsg, TypeOK, Control, kernel
<1>18. ASSUME NEW fd \in Fd, PeerSends(fd) \/ PeerCloses(fd) \/ PeerResets(fd) PROVE TypeInv'
  <2>1. PICK s \in Sockets : Peer(fd, s)
    <3>1. socket[fd] \in Sockets
      BY <1>t DEF TypeOK
    <3> QED
      BY <1>18, <3>1, SocketTypes DEF PeerSends, PeerCloses, PeerResets
  <2>2. socket' \in [Fd -> Sockets]
    BY <1>t, <2>1, SetSocketType DEF Peer
  <2> QED
    BY <1>t, <2>1, <2>2 DEF Peer, TypeOK, Control
<1>19. CASE UNCHANGED vars
  BY <1>t, <1>19 DEF vars, kernel, TypeOK, Control
<1> QED
  BY <1>1, <1>2, <1>3, <1>4, <1>6, <1>7, <1>8, <1>9, <1>10, <1>11, <1>12, <1>13, <1>14, <1>15,
     <1>16, <1>17, <1>18, <1>19 DEF Next

-----------------------------------------------------------------------------
(***************************************************************************)
(* The list, the sockets behind it and the sender.                         *)
(***************************************************************************)
LEMMA ListInit == Init => ListInv
<1> SUFFICES ASSUME Init PROVE ListInv
  OBVIOUS
<1>1. connections = <<>> /\ DOMAIN connections = {} /\ sender.pc = "pop"
  BY DEF Init
<1>2. \A fd \in Fd : socket[fd].kind = "closed"
  BY DEF Init, Closed
<1> QED
  BY <1>1, <1>2 DEF ListInv, Connecting, ConnectionsOpen, SocketsKnown, Has

\* Data and state of a socket may change: what matters is where it leads.
SameEnd(fd) == socket'[fd].kind = socket[fd].kind /\ socket'[fd].peer = socket[fd].peer

LEMMA EndsKept ==
  ASSUME TypeOK, ListInv, UNCHANGED connections, registered \subseteq registered',
         \A fd \in Fd : SameEnd(fd)
  PROVE  /\ ConnectionsOpen' /\ SocketsKnown'
         /\ UNCHANGED sender => ListInv'
         /\ sender'.pc \in {"pop", "head", "found"} => ListInv'
<1>1. connections \in Seq(Con) /\ sender.fd \in Fd \cup {NoFd}
  BY DEF TypeOK, Con
<1>2. ConnectionsOpen'
  <2>1. \A i \in DOMAIN connections : connections[i].fd \in Fd \cup {NoFd}
    <3>1. \A i \in DOMAIN connections : connections[i] \in Con
      BY <1>1
    <3> QED
      BY <3>1 DEF Con
  <2> QED
    BY <2>1 DEF ListInv, ConnectionsOpen, SameEnd
<1>3. SocketsKnown'
  BY DEF ListInv, SocketsKnown, SameEnd
<1>4. ASSUME UNCHANGED sender PROVE Connecting'
  BY <1>1, <1>4 DEF ListInv, Connecting, SameEnd, Has
<1>5. ASSUME sender'.pc \in {"pop", "head", "found"} PROVE Connecting'
  BY <1>5 DEF Connecting
<1> QED
  BY <1>2, <1>3, <1>4, <1>5 DEF ListInv

\* A step that touches neither the list nor the sockets nor the sender.
LEMMA ListKept ==
  ASSUME TypeOK, ListInv, UNCHANGED <<connections, socket, registered>>
  PROVE  /\ UNCHANGED sender => ListInv'
         /\ sender'.pc \in {"pop", "head", "found"} => ListInv'
  BY EndsKept DEF SameEnd

\* What SetSocket does to the sockets.
LEMMA SocketSet ==
  ASSUME TypeOK, NEW fd \in Fd \cup {NoFd}, NEW s, SetSocket(fd, s)
  PROVE  \A g \in Fd : socket'[g] = IF g = fd THEN s ELSE socket[g]
  BY FdsAreNumbers DEF SetSocket, TypeOK

\* An entry is unlinked and its descriptor closed, with con_mutex held.
LEMMA EntryGone ==
  ASSUME TypeOK, ListInv, MutexFree, UNCHANGED sender,
         NEW i, i = 0 \/ i \in DOMAIN connections, RemoveEntry(i)
  PROVE  ListInv'
<1>1. CASE i = 0
  BY <1>1, ListKept DEF RemoveEntry
<1>2. CASE i # 0
  <2> DEFINE c == connections[i]
  <2>l. connections \in Seq(Con) /\ sender.fd \in Fd \cup {NoFd}
    BY DEF TypeOK, Con
  <2>1. /\ i \in DOMAIN connections
        /\ connections' = RemoveAt(connections, i)
        /\ SetSocket(c.fd, Closed) /\ registered' = registered \ {c.fd}
    BY <1>2 DEF RemoveEntry, CloseTcp
  <2>2. i \in Nat /\ DOMAIN connections \subseteq Nat /\ DOMAIN connections' \subseteq Nat
    <3>1. connections' \in Seq(Con)
      BY <2>l, <2>1, Unlinked
    <3> QED
      BY <2>l, <2>1, <3>1
  <2>3. \A k \in DOMAIN connections : connections[k] \in Con
    BY <2>l
  <2>4. \A fd \in Fd : socket'[fd] = IF fd = c.fd THEN Closed ELSE socket[fd]
    BY <2>1, <2>3, SocketSet DEF Con
  <2>5. \A j \in DOMAIN connections' :
          \E k \in DOMAIN connections : /\ k # i /\ k = (IF j < i THEN j ELSE j + 1)
                                        /\ connections'[j] = connections[k]
    BY <2>l, <2>1, Unlinked
  <2>6. \A k \in DOMAIN connections : k # i => \E j \in DOMAIN connections' : connections'[j] = connections[k]
    BY <2>l, <2>1, Unlinked
  <2>7. \A k \in DOMAIN connections :
          k # i => connections[k].addr # c.addr /\ (connections[k].fd # NoFd => connections[k].fd # c.fd)
    BY <2>1 DEF ListInv, ConnectionsOpen
  <2>8. ConnectionsOpen'
    <3>1. ASSUME NEW j \in DOMAIN connections', NEW m \in DOMAIN connections',
                 connections'[j].addr = connections'[m].addr
          PROVE  j = m
      <4>1. PICK k \in DOMAIN connections : k = (IF j < i THEN j ELSE j + 1) /\ connections'[j] = connections[k]
        BY <2>5
      <4>2. PICK l \in DOMAIN connections : l = (IF m < i THEN m ELSE m + 1) /\ connections'[m] = connections[l]
        BY <2>5
      <4>3. k = l
        BY <3>1, <4>1, <4>2 DEF ListInv, ConnectionsOpen
      <4> QED
        BY <2>2, <4>1, <4>2, <4>3
    <3>2. ASSUME NEW j \in DOMAIN connections', connections'[j].fd # NoFd
          PROVE  LET e == connections'[j] IN socket'[e.fd].kind = "to" /\ socket'[e.fd].peer = e.addr
      <4>1. PICK k \in DOMAIN connections : k # i /\ connections'[j] = connections[k]
        BY <2>5
      <4>2. connections[k].fd \in Fd /\ connections[k].fd # c.fd
        BY <2>3, <2>7, <3>2, <4>1 DEF Con
      <4> QED
        BY <2>4, <3>2, <4>1, <4>2 DEF ListInv, ConnectionsOpen
    <3> QED
      BY <3>1, <3>2 DEF ConnectionsOpen
  <2>9. SocketsKnown'
    <3>1. ASSUME NEW fd \in Fd, socket'[fd].kind = "to"
          PROVE  \E j \in DOMAIN connections' : connections'[j].fd = fd
      <4>1. fd # c.fd /\ socket[fd].kind = "to"
        BY <2>4, <3>1 DEF Closed
      <4>2. PICK k \in DOMAIN connections : connections[k].fd = fd
        BY <4>1 DEF ListInv, SocketsKnown
      <4> QED
        BY <2>6, <4>1, <4>2
    <3>2. ASSUME NEW fd \in Fd, socket'[fd].kind = "from" PROVE fd \in registered'
      <4>1. fd # c.fd /\ socket[fd].kind = "from"
        BY <2>4, <3>2 DEF Closed
      <4> QED
        BY <2>1, <4>1 DEF ListInv, SocketsKnown
    <3> QED
      BY <3>1, <3>2 DEF SocketsKnown
  <2>10. Connecting'
    BY DEF MutexFree, Connecting
  <2> QED
    BY <2>8, <2>9, <2>10 DEF ListInv
<1> QED
  BY <1>1, <1>2

\* An entry is appended: with the descriptor of the connection, or with none.
LEMMA EntryAdded ==
  ASSUME TypeInv, ListInv, sender.pc = "connecting", NEW fd \in {sender.fd, NoFd}, NEW s,
         SetSocket(sender.fd, s), AddCon(fd),
         s.kind = (IF fd = NoFd THEN "leaked" ELSE "to"), s.kind = "to" => s.peer = sender.dest
  PROVE  ListInv'
<1> DEFINE n == Len(connections) + 1
           c == [addr |-> sender.dest, fd |-> fd]
<1>1. /\ connections \in Seq(Con) /\ fd \in Fd \cup {NoFd} /\ sender.fd \in Fd \cup {NoFd}
      /\ sender.dest \in Addr
  BY DEF TypeInv, TypeOK, Control, Con
<1>2. /\ connections' = Append(connections, c) /\ c \in Con
      /\ registered \subseteq registered' /\ sender'.pc \in {"head", "found"}
  BY <1>1, AddConType DEF Con
<1>3. /\ DOMAIN connections' = DOMAIN connections \cup {n} /\ n \notin DOMAIN connections
      /\ connections'[n] = c
      /\ \A k \in DOMAIN connections : connections'[k] = connections[k] /\ connections[k] \in Con
  BY <1>1, <1>2
<1>4. \A g \in Fd : socket'[g] = IF g = sender.fd THEN s ELSE socket[g]
  BY <1>1, SocketSet DEF TypeInv
<1>5. /\ \A k \in DOMAIN connections : connections[k].addr # sender.dest
      /\ sender.fd # NoFd => socket[sender.fd].kind = "connecting"
  BY DEF ListInv, Connecting, Has
<1> HIDE DEF n, c
<1>6. ConnectionsOpen'
  <2>1. ASSUME NEW k \in DOMAIN connections, connections[k].fd # NoFd
        PROVE  /\ socket'[connections[k].fd].kind = "to"
               /\ socket'[connections[k].fd].peer = connections[k].addr
    <3>1. connections[k].fd \in Fd
      BY <1>3, <2>1 DEF Con
    <3>2. socket[connections[k].fd].kind = "to" /\ socket[connections[k].fd].peer = connections[k].addr
      BY <2>1 DEF ListInv, ConnectionsOpen
    <3> QED
      BY <1>4, <1>5, <2>1, <3>1, <3>2
  <2>2. c.addr = sender.dest /\ (c.fd # NoFd => socket'[c.fd].kind = "to" /\ socket'[c.fd].peer = c.addr)
    <3>1. c.addr = sender.dest /\ c.fd = fd
      BY DEF c
    <3>2. ASSUME fd # NoFd PROVE socket'[fd] = s /\ s.kind = "to"
      BY <1>1, <1>4, <3>2
    <3> QED
      BY <3>1, <3>2
  <2>3. \A k, m \in DOMAIN connections' : connections'[k].addr = connections'[m].addr => k = m
    BY <1>3, <1>5, <2>2 DEF ListInv, ConnectionsOpen
  <2> QED
    BY <1>3, <2>1, <2>2, <2>3 DEF ConnectionsOpen
<1>7. SocketsKnown'
  BY <1>2, <1>3, <1>4 DEF ListInv, SocketsKnown, c
<1>8. Connecting'
  BY <1>2 DEF Connecting
<1> QED
  BY <1>6, <1>7, <1>8 DEF ListInv

LEMMA ListNext == IInv /\ [Next]_vars => ListInv'
<1> SUFFICES ASSUME IInv, [Next]_vars PROVE ListInv'
  OBVIOUS
<1>t. TypeInv /\ TypeOK /\ Control /\ ListInv
  BY DEF IInv, TypeInv
<1>f. /\ NewFd \in Fd \cup {NoFd}
      /\ NewFd # NoFd => NewFd \in Fd /\ socket[NewFd].kind = "closed"
  BY NewFdFree DEF Closed
<1>l. /\ \A i \in DOMAIN connections : connections[i] \in Con
      /\ sender.fd \in Fd \cup {NoFd}
  <2>1. connections \in Seq(Con) /\ sender.fd \in Fd \cup {NoFd}
    BY <1>t DEF TypeOK, Con
  <2> QED
    BY <2>1
<1>1. ASSUME NEW a \in Addr, RemoveCon(a) PROVE ListInv'
  <2>1. AddrAt(a) \in DOMAIN connections
    BY <1>t, <1>1, FindAddr DEF RemoveCon
  <2>2. RemoveEntry(AddrAt(a)) /\ MutexFree /\ UNCHANGED sender
    BY <1>1 DEF RemoveCon, AddrAt
  <2> QED
    BY <1>t, <2>1, <2>2, EntryGone
<1>2. ASSUME NEW a \in Addr, GetConKnown(a) PROVE ListInv'
  <2>1. sender'.pc = "found" /\ UNCHANGED <<connections, socket, registered>>
    BY <1>t, <1>2 DEF GetConKnown, kernel, TypeOK
  <2> QED
    BY <1>t, <2>1, ListKept
<1>3. ASSUME NEW a \in Addr, GetConConnect(a) PROVE ListInv'
  <2>1. \A fd \in Fd : socket'[fd] = IF fd = NewFd THEN Socket("connecting", a, "none") ELSE socket[fd]
    BY <1>t, <1>f, <1>3, SocketSet DEF GetConConnect
  <2>2. Socket("connecting", a, "none").kind = "connecting"
    BY DEF Socket
  <2>3. UNCHANGED <<connections, registered>>
    BY <1>3 DEF GetConConnect
  <2>4. ConnectionsOpen'
    <3>1. ASSUME NEW i \in DOMAIN connections, connections[i].fd # NoFd
          PROVE  connections[i].fd \in Fd /\ connections[i].fd # NewFd
      BY <1>t, <1>f, <1>l, <3>1 DEF ListInv, ConnectionsOpen, Con
    <3> QED
      BY <1>t, <2>1, <2>3, <3>1 DEF ListInv, ConnectionsOpen
  <2>5. SocketsKnown'
    BY <1>t, <2>1, <2>2, <2>3 DEF ListInv, SocketsKnown
  <2>6. Connecting'
    <3>1. sender' = [pc |-> "connecting", dest |-> a, fd |-> NewFd] /\ ~Has(a)
      BY <1>3 DEF GetConConnect
    <3>2. NewFd # NoFd => socket'[NewFd].kind = "connecting"
      BY <1>f, <2>1, <2>2
    <3>3. sender'.pc = "connecting" /\ sender'.dest = a /\ sender'.fd = NewFd
      BY <3>1
    <3> QED
      BY <2>3, <3>1, <3>2, <3>3 DEF Connecting, Has
  <2> QED
    BY <2>4, <2>5, <2>6 DEF ListInv
<1>4. CASE Connected
  <2>1. Socket("to", sender.dest, "open").kind = "to" /\ Socket("to", sender.dest, "open").peer = sender.dest
    BY DEF Socket
  <2> QED
    BY <1>t, <1>4, <2>1, EntryAdded DEF Connected
<1>5. CASE ConnectFailed
  <2>1. Socket("leaked", NULL, "none").kind = "leaked"
    BY DEF Socket
  <2> QED
    BY <1>t, <1>5, <2>1, EntryAdded DEF ConnectFailed
<1>6. CASE ReturnHead
  <2>1. sender'.pc \in {"head", "found"} /\ UNCHANGED <<connections, socket, registered>>
    BY <1>t, <1>6 DEF ReturnHead, kernel, TypeOK
  <2> QED
    BY <1>t, <2>1, ListKept
<1>7. CASE LoadFd
  <2>1. PICK fd \in IF Has(sender.dest) THEN {Entry(sender.dest).fd} ELSE Fd \cup {NoFd} :
          sender' = [sender EXCEPT !.pc = "write", !.fd = fd]
    BY <1>7 DEF LoadFd
  <2>2. /\ sender'.pc = "write" /\ sender'.fd = fd /\ sender'.dest = sender.dest
        /\ UNCHANGED <<connections, socket, registered>>
    BY <1>t, <1>7, <2>1 DEF LoadFd, kernel, TypeOK
  <2>3. ConnectionsOpen' /\ SocketsKnown'
    BY <1>t, <2>2, EndsKept DEF SameEnd
  <2>4. Connecting'
    BY <2>2 DEF Connecting
  <2> QED
    BY <2>3, <2>4 DEF ListInv
<1>8. CASE SendTcp
  <2>1. sender'.pc = "pop" /\ UNCHANGED <<connections, registered>>
    BY <1>8 DEF SendTcp
  <2>2. \A fd \in Fd : SameEnd(fd)
    <3> DEFINE s == IF sender.fd = NoFd THEN Closed ELSE socket[sender.fd]
    <3>1. CASE UNCHANGED socket
      BY <3>1 DEF SameEnd
    <3>2. CASE SetSocket(sender.fd, [s EXCEPT !.state = "broken"]) /\ sender.fd # NoFd
      <4>1. \A fd \in Fd : socket'[fd] = IF fd = sender.fd THEN [s EXCEPT !.state = "broken"] ELSE socket[fd]
        BY <1>t, <1>l, <3>2, SocketSet
      <4>2. s = socket[sender.fd] /\ s \in Sockets
        BY <1>t, <1>l, <3>2 DEF TypeOK
      <4>3. [s EXCEPT !.state = "broken"].kind = s.kind /\ [s EXCEPT !.state = "broken"].peer = s.peer
        BY <4>2 DEF Sockets
      <4> QED
        BY <4>1, <4>2, <4>3 DEF SameEnd
    <3>3. sender.fd = NoFd => UNCHANGED socket
      BY <1>8 DEF SendTcp, Closed, SetSocket
    <3> QED
      BY <1>8, <3>1, <3>2, <3>3 DEF SendTcp
  <2> QED
    BY <1>t, <2>1, <2>2, EndsKept
<1>9. CASE Accept
  <2>1. CASE NewFd = NoFd
    BY <1>t, <1>9, <2>1, ListKept DEF Accept, kernel
  <2>2. CASE NewFd # NoFd
    <3>1. PICK a \in backlog : SetSocket(NewFd, Socket("from", a, "open")) /\ Register(NewFd)
      BY <1>9, <2>2 DEF Accept
    <3>2. /\ \A fd \in Fd : socket'[fd] = IF fd = NewFd THEN Socket("from", a, "open") ELSE socket[fd]
          /\ Socket("from", a, "open").kind = "from"
      BY <1>t, <1>f, <3>1, SocketSet DEF Socket
    <3>3. /\ registered' = registered \cup {NewFd}
          /\ UNCHANGED <<connections, sender>>
      BY <1>t, <1>9, <2>2, <3>1 DEF Accept, Register, Control
    <3>4. ConnectionsOpen'
      <4>1. ASSUME NEW i \in DOMAIN connections, connections[i].fd # NoFd
            PROVE  connections[i].fd \in Fd /\ connections[i].fd # NewFd
        BY <1>t, <1>f, <1>l, <4>1 DEF ListInv, ConnectionsOpen, Con
      <4> QED
        BY <1>t, <3>2, <3>3, <4>1 DEF ListInv, ConnectionsOpen
    <3>5. SocketsKnown'
      BY <1>t, <3>2, <3>3 DEF ListInv, SocketsKnown
    <3>6. Connecting'
      BY <1>t, <1>f, <1>l, <2>2, <3>2, <3>3 DEF ListInv, Connecting, Has
    <3> QED
      BY <3>4, <3>5, <3>6 DEF ListInv
  <2> QED
    BY <2>1, <2>2
<1>10. CASE Read
  <2>1. server.fd \in Fd /\ socket[server.fd] \in Sockets
    BY <1>t, <1>10 DEF Read, Control, TypeOK
  <2>2. \A fd \in Fd : socket'[fd] = IF fd = server.fd THEN [socket[server.fd] EXCEPT !.data = FALSE] ELSE socket[fd]
    BY <1>t, <1>10, <2>1, SocketSet DEF Read
  <2>3. \A fd \in Fd : SameEnd(fd)
    BY <2>1, <2>2 DEF SameEnd, Sockets
  <2> QED
    BY <1>t, <1>10, <2>3, EndsKept DEF Read
<1>11. ASSUME NEW fd \in Fd, RemoveConFd(fd) PROVE ListInv'
  <2>1. FdAt(fd) = 0 \/ FdAt(fd) \in DOMAIN connections
    BY <1>t, FindFd
  <2>2. RemoveEntry(FdAt(fd)) /\ MutexFree /\ UNCHANGED sender
    BY <1>11 DEF RemoveConFd, FdAt
  <2> QED
    BY <1>t, <2>1, <2>2, EntryGone
<1>12. ASSUME NEW fd \in Fd, PeerSends(fd) \/ PeerCloses(fd) \/ PeerResets(fd) PROVE ListInv'
  <2>1. socket[fd] \in Sockets
    BY <1>t DEF TypeOK
  <2>2. PICK s : Peer(fd, s) /\ s.kind = socket[fd].kind /\ s.peer = socket[fd].peer
    BY <1>12, <2>1 DEF PeerSends, PeerCloses, PeerResets, Sockets
  <2>3. \A g \in Fd : SameEnd(g)
    BY <1>t, <2>2, SocketSet DEF Peer, SameEnd
  <2> QED
    BY <1>t, <2>2, <2>3, EndsKept DEF Peer
<1>13. ASSUME UNCHANGED <<connections, socket, registered, sender>> PROVE ListInv'
  BY <1>t, <1>13, ListKept
<1> QED
  BY <1>1, <1>2, <1>3, <1>4, <1>5, <1>6, <1>7, <1>8, <1>9, <1>10, <1>11, <1>12, <1>13
  DEF Next, vars, kernel, PeerConnects, EpollCreate, EpollWait, ReadError, HandleMsg

-----------------------------------------------------------------------------
(***************************************************************************)
(* The theorems.                                                           *)
(***************************************************************************)
LEMMA Invariance == Spec => []IInv
<1>1. Init => IInv
  BY TypeInit, ListInit DEF IInv
<1>2. IInv /\ [Next]_vars => IInv'
  BY TypeNext, ListNext DEF IInv
<1> QED
  BY <1>1, <1>2, PTL DEF Spec

\* Types of the variables, for every reachable state.
THEOREM ConnectionTypes == Spec => []TypeOK
<1>1. IInv => TypeOK
  BY DEF IInv, TypeInv
<1> QED
  BY Invariance, <1>1, PTL

\* Whoever opens, closes, resets or deletes: every entry of the list has the
\* connection to its address behind it.
THEOREM EntriesOpen == Spec => []ConnectionsOpen
<1>1. IInv => ConnectionsOpen
  BY DEF IInv, ListInv
<1> QED
  BY Invariance, <1>1, PTL

\* No open socket is lost: what the sender has opened is in the list, where
\* a deletion finds it, and what a peer has opened is in the epoll set.
THEOREM NoSocketForgotten == Spec => []SocketsKnown
<1>1. IInv => SocketsKnown
  BY DEF IInv, ListInv
<1> QED
  BY Invariance, <1>1, PTL
=============================================================================
