----------------------------- MODULE LoginFormat -----------------------------
(***************************************************************************)
(* What a LOGIN and the ROUTE that follows it say, byte by byte: the name  *)
(* fields (src/protocol_header.c), the messages (src/protocol.c) and the   *)
(* entries made of them (src/routingTable.c).  A node logs in, its         *)
(* neighbour enters it and announces it to a third node.                   *)
(*                                                                         *)
(* Every message is read as a whole (module Chat has the other reads), hop *)
(* counts are left out (module Network has them), and getName's            *)
(* terminating zero behind a field of 32 bytes falls on memory that is     *)
(* written again before it is read, as the build lays it out.              *)
(***************************************************************************)
EXTENDS Naturals, Sequences, SequencesExt, FiniteSetsExt

CONSTANTS
  NameLen,   \* NAME_LEN
  AddrLen,   \* octets of an address
  PortLen,   \* octets of a port
  Chars,     \* the bytes of names
  Octets,    \* the bytes of addresses and ports
  Neighbour  \* name, addr and port of the node that is logged in to

Byte == 0 .. 255
EOT == 4
LOGIN == 1
ROUTE == 4

\* parse_args: one to 32 characters.
Names == SeqOf(Chars, NameLen) \ {<<>>}
Nodes == [name : Names, addr : TupleOf(Octets, AddrLen), port : TupleOf(Octets, PortLen)]

ASSUME SizesAssumption == {NameLen, AddrLen, PortLen} \subseteq Nat
ASSUME BytesAssumption ==
  /\ Chars \subseteq Byte \ {0, EOT}
  /\ Octets \subseteq Byte
ASSUME NeighbourAssumption == Neighbour \in Nodes /\ Len(Neighbour.name) < NameLen

VARIABLES
  step,    \* "start", then what is on the wire: "login", "route", or "done"
  node,    \* who logs in
  wire,    \* the bytes of the message on its way
  sender,  \* the name that the neighbour has read in the header of the LOGIN
  table,   \* its entries, its own first
  far      \* what the third node makes of the neighbour's ROUTE

vars == <<step, node, wire, sender, table, far>>

-----------------------------------------------------------------------------
Zeros(k) == [i \in 1 .. k |-> 0]

\* A string ends at the first zero, wherever its field ends.
CString(bytes) ==
  LET zeros == {k \in DOMAIN bytes : bytes[k] = 0}
  IN  IF zeros = {} THEN bytes ELSE SubSeq(bytes, 1, Min(zeros) - 1)

SetName(name) == Zeros(NameLen - Len(name)) \o name

\* Mutant of GetName: leading zeros are not skipped.
GetNameKeep(field) == field

\* getName, to memory that is zero: without the zeros the field begins with.
GetName(field) ==
  LET rest == SelectInSeq(field, LAMBDA c : c # 0)
      skip == IF rest = 0 THEN NameLen ELSE rest - 1
  IN  SubSeq(field, skip + 1, NameLen) \o Zeros(skip)

\* Mutant of Header: the names change places.
HeaderSwapped(type, from, to) == <<type, 1>> \o SetName(to) \o SetName(from)

\* protocol_create_header
Header(type, from, to) == <<type, 1>> \o SetName(from) \o SetName(to)
HeaderLen == 2 + 2 * NameLen

\* Mutant of MsgLen: one less.
MsgLenShort(msg) == SelectInSeq(msg, LAMBDA c : c = EOT) - 2

\* msglen: up to the first EOT, which every message it is used for has.
MsgLen(msg) == SelectInSeq(msg, LAMBDA c : c = EOT) - 1

\* read_tcp's buffer is zero behind what has been read.
Field(buf, at, len) == [k \in 1 .. len |-> IF at + k <= Len(buf) THEN buf[at + k] ELSE 0]

\* send_tcp, with or without a length found by msglen.
SendTcp(msg) == Append(msg, EOT)

\* Mutant of SendAll: like do_chat and do_login.
SendUpToEot(msg) == SendTcp(SubSeq(msg, 1, MsgLen(msg)))
SendAll(msg) == SendTcp(msg)

-----------------------------------------------------------------------------
Entry(name, addr, port, nextName, nextAddr, nextPort) ==
  [chatName |-> name, addr |-> addr, port |-> port,
   nextChatName |-> nextName, nextAddr |-> nextAddr, nextPort |-> nextPort]

\* initTable: the node's own entry.
OwnEntry(n) ==
  LET name == n.name \o Zeros(NameLen - Len(n.name))
  IN  Entry(name, n.addr, n.port, name, n.addr, n.port)

\* An entry is packed, and its numbers begin with their last octet: this is
\* what strcmp reads of it.
NameIn(e) == CString(e.chatName \o Reverse(e.addr) \o Reverse(e.port) \o e.nextChatName)

Found(t, name) == \E k \in DOMAIN t : NameIn(t[k]) = name

\* tableUpdate with one announced entry; charName2 lies behind charName.
PutEntry(t, e) ==
  LET new == [e EXCEPT !.chatName = GetName(@), !.nextChatName = GetName(@)]
  IN  IF Found(t, CString(new.chatName \o new.nextChatName)) THEN t ELSE Append(t, new)

EntryLen == 2 * (NameLen + AddrLen + PortLen)

\* The entry at a place of a message: name, address, port, and the same of
\* the next hop; 4 more bytes hold the hop count.
EntryAt(buf, at) ==
  LET next == at + NameLen + AddrLen + PortLen
  IN  Entry(Field(buf, at, NameLen), Field(buf, at + NameLen, AddrLen),
            Field(buf, at + NameLen + AddrLen, PortLen),
            Field(buf, next, NameLen), Field(buf, next + NameLen, AddrLen),
            Field(buf, next + NameLen + AddrLen, PortLen))

Row(e, first) == e.chatName \o e.addr \o e.port
                 \o first.nextChatName \o first.nextAddr \o first.nextPort

\* tableToCharArray: every entry with the next hop of the first one.
TableToCharArray(t) ==
  LET rows[k \in 0 .. Len(t)] == IF k = 0 THEN <<>> ELSE rows[k - 1] \o Row(t[k], t[1])
  IN  rows[Len(t)]

\* The loop of tableUpdate over as many entries as buf has bytes for.
PutAll(t, buf) ==
  LET count == (Len(buf) - HeaderLen - 1) \div EntryLen
      after[k \in 0 .. count] ==
        IF k = 0 THEN t ELSE PutEntry(after[k - 1], EntryAt(buf, HeaderLen + (k - 1) * EntryLen))
  IN  after[count]

-----------------------------------------------------------------------------
Init ==
  /\ step = "start"
  /\ node \in {n \in Nodes : n.name # Neighbour.name}
  /\ wire = <<>>
  /\ sender = <<>>
  /\ table = <<OwnEntry(Neighbour)>>
  /\ far = <<>>

\* do_login: name, address and port, as far as msglen takes them.
DoLogin ==
  /\ step = "start"
  /\ step' = "login"
  /\ LET msg == Header(LOGIN, node.name, <<>>) \o GetName(node.name \o Zeros(NameLen - Len(node.name)))
                \o node.addr \o node.port \o <<EOT>>
     IN  wire' = SendTcp(SubSeq(msg, 1, MsgLen(msg)))
  /\ UNCHANGED <<node, sender, table, far>>

\* protocol_handle_msg and msg_login: the sender is its own next hop.
MsgLogin ==
  /\ step = "login"
  /\ Len(wire) >= HeaderLen
  /\ step' = "route"
  /\ sender' = CString(GetName(Field(wire, 2, NameLen)))
  /\ LET name == GetName(Field(wire, HeaderLen, NameLen))
         addr == Field(wire, HeaderLen + NameLen, AddrLen)
         port == Field(wire, HeaderLen + NameLen + AddrLen, PortLen)
     IN  table' = PutEntry(table, Entry(name, addr, port, name, addr, port))
  /\ wire' = SendAll(Header(ROUTE, Neighbour.name, <<>>) \o TableToCharArray(table'))
  /\ UNCHANGED <<node, far>>

\* protocol_handle_msg and msg_route
MsgRoute ==
  /\ step = "route"
  /\ step' = "done"
  /\ far' = IF Len(wire) < HeaderLen THEN far ELSE PutAll(far, wire)
  /\ UNCHANGED <<node, wire, sender, table>>

Next == DoLogin \/ MsgLogin \/ MsgRoute

Spec == Init /\ [][Next]_vars
-----------------------------------------------------------------------------
IsBytes(s, len) == Len(s) = len /\ \A k \in DOMAIN s : s[k] \in Byte
IsEntry(e) ==
  /\ IsBytes(e.chatName, NameLen) /\ IsBytes(e.nextChatName, NameLen)
  /\ IsBytes(e.addr, AddrLen) /\ IsBytes(e.nextAddr, AddrLen)
  /\ IsBytes(e.port, PortLen) /\ IsBytes(e.nextPort, PortLen)

\* Types of the variables: who logs in is read as somebody with a name.
TypeOK ==
  /\ step \in {"start", "login", "route", "done"}
  /\ node \in Nodes
  /\ IsBytes(wire, Len(wire))
  /\ step \in {"route", "done"} => sender \in Names
  /\ \A k \in DOMAIN table : IsEntry(table[k])
  /\ \A k \in DOMAIN far : IsEntry(far[k])

\* A name that leaves room for its terminating zero arrives, and is found:
\* header and content have it on different sides of their fields, and both
\* nodes look for the name from the header (HEART) in an entry made of the
\* content.
ShortNameFound ==
  step \in {"route", "done"} /\ Len(node.name) < NameLen =>
    /\ sender = node.name
    /\ Found(table, sender)
    /\ step = "done" => Found(far, sender)

\* The entry of who has logged in.
Entered == table[2].addr = node.addr /\ table[2].port = node.port

\* Nothing but zeros behind the first octet that looks like EOT.
CutHarmless ==
  LET octets == node.addr \o node.port
  IN  \A j, k \in DOMAIN octets : j < k /\ octets[j] = EOT => octets[k] = 0

\* The address under which the new node can be reached arrives, if msglen
\* does not cut off more than zeros.
AddressArrives == step \in {"route", "done"} /\ CutHarmless => Entered

\* A ROUTE loses nothing, though it begins with its type, which is EOT, and
\* may contain more: the third node has the neighbour's entries, in their
\* order, with the neighbour as next hop.
RouteWhole ==
  step = "done" =>
    far = [k \in DOMAIN table |->
             [table[k] EXCEPT !.nextChatName = OwnEntry(Neighbour).nextChatName,
                              !.nextAddr = Neighbour.addr, !.nextPort = Neighbour.port]]
=============================================================================
