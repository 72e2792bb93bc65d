-------------------------------- MODULE Chat --------------------------------
(***************************************************************************)
(* The way of a chat message: from the keyboard (src/ui.c) through do_chat *)
(* and the send queue, as bytes over TCP connections (src/tcp_con.c),      *)
(* through forward of the nodes on its way (src/protocol.c) and the queue  *)
(* of the user interface (src/queue.c) to a tab of the receiver.           *)
(*                                                                         *)
(* The routes stand still (module Network has them move) and connections   *)
(* hold (module Connections).  A stream is a sequence of units: the two    *)
(* halves of a header, parts of a text, EOT.  One read of the server is    *)
(* taken for one message, whatever it brings.                              *)
(***************************************************************************)
EXTENDS Naturals, Sequences, FiniteSets, SequencesExt, FiniteSetsExt

CONSTANTS
  Node,      \* the chat names
  NoName,    \* what getRouting gives for -1: nobody's address
  System,    \* the name of the first tab
  NextHop,   \* getRouting of every node: Node -> names -> Node or NoName
  Users,     \* the nodes whose users press keys
  BufSize,   \* BUF_SIZE and MSG_SIZE in units
  MaxRead,   \* MAX_READ
  MaxQueue,  \* MAX_QUEUE_SIZE
  MaxMsgs,   \* MAX_MSGS
  MaxTabs,   \* MAX_TABS
  MaxTyped,  \* bound: texts typed in all
  MaxFaults  \* bound: reads that bring anything but one message

\* Who can be written to: the names of the tables, and those who have left.
Names == Node \cup UNION {DOMAIN NextHop[n] : n \in Node}

\* No node lists itself among those it can reach, or has a route through itself.
ASSUME NamesAssumption ==
  /\ {NoName, System} \cap Names = {} /\ NoName # System /\ Users \subseteq Node
  /\ \A n \in Node : /\ n \notin DOMAIN NextHop[n]
                     /\ \A x \in DOMAIN NextHop[n] : NextHop[n][x] \in (Node \ {n}) \cup {NoName}
\* More names than tabs would make add_foreign_message write to tabs[-1]; the
\* first tab is in the place of the node's own name.
ASSUME TabsAssumption == IsFiniteSet(Names) /\ Cardinality(Names) <= MaxTabs
\* The table of every node is smaller than the queue of its user interface.
ASSUME QueueAssumption == \A n \in Node : Cardinality(DOMAIN NextHop[n]) <= MaxQueue
ASSUME SizesAssumption ==
  /\ {BufSize, MaxRead, MaxQueue, MaxMsgs, MaxTabs, MaxTyped, MaxFaults} \subseteq Nat
  /\ BufSize > 3 /\ MaxRead > 0 /\ MaxQueue > 1 /\ MaxMsgs > 0

VARIABLES
  typed,    \* history: <<n, x>> -> the lengths of the texts n has typed for x
  sendq,    \* node -> its send queue: messages without EOT and where to
  stream,   \* <<m, n>> -> the units that m has written and n has not read
  server,   \* node -> what read_tcp has read so far, in how many reads, of whom
  series,   \* node -> list_head: the targets of series of forwarded messages
  uiq,      \* node -> the queue of the user interface
  tabs,     \* node -> its tabs
  active,   \* node -> index of the tab that is shown
  faults,   \* counter for MaxFaults
  intact    \* history: has every read brought one message, and was there a
            \* route and room for it?

wires == <<sendq, stream, server, series>>
screens == <<uiq, tabs, active>>
vars == <<typed, wires, screens, faults, intact>>

Link == {l \in Node \X Node : l[1] # l[2]}

\* getRouting, and the names whose login has been reported.
GetRouting(n, x) == IF x \in DOMAIN NextHop[n] THEN NextHop[n][x] ELSE NoName
KnownTo(n) == SetToSeq(DOMAIN NextHop[n])

\* The server thread waits for a connection to become readable.
Ready == [from |-> NoName, buf |-> <<>>, reads |-> 0]

-----------------------------------------------------------------------------
\* Units carry the sender, the target and the number of their text.
Unit(kind, id) == [kind |-> kind, id |-> id]
Pad == Unit("zero", <<>>)
Eot == Unit("EOT", <<>>)

\* do_chat: header and text; protocol_create_header enters the names.
Message(id, len) ==
  <<Unit("type", id), Unit("names", id)>> \o [k \in 1 .. len |-> Unit("text", id)]

FirstEot(msg) ==
  LET ends == {k \in DOMAIN msg : k < BufSize /\ msg[k] = Eot}
  IN  IF ends = {} THEN BufSize ELSE Min(ends)

\* Mutant of MsgLen: the unit before EOT is not counted.
MsgLenShort(msg) == FirstEot(msg) - 2

\* msglen: up to the first EOT, or the whole buffer but its last byte.
MsgLen(msg) == FirstEot(msg) - 1

\* A queue refuses what would be too much; no caller looks at the result.
HasRoom(q) == Len(q) < MaxQueue

\* Mutant of Push: the walk counts one too many.
PushEarly(q, x) == IF Len(q) < MaxQueue - 1 THEN Append(q, x) ELSE q

Push(q, x) == IF HasRoom(q) THEN Append(q, x) ELSE q

\* What a user reads: parts of a text, or a notice of the program.
Text(id, parts) == [id |-> id, parts |-> parts]
Notice == Text(<<>>, 0)

Init ==
  /\ typed = [p \in Node \X (Names \cup {System}) |-> <<>>]
  /\ sendq = [n \in Node |-> <<>>]
  /\ stream = [l \in Link |-> <<>>]
  /\ server = [n \in Node |-> Ready]
  /\ series = [n \in Node |-> {}]
  /\ uiq = [n \in Node |-> [k \in DOMAIN KnownTo(n) |-> [name |-> KnownTo(n)[k], text |-> Notice]]]
  /\ tabs = [n \in Node |-> <<[user |-> System, msgs |-> <<Notice>>, unread |-> FALSE]>>]
  /\ active = [n \in Node |-> 1]
  /\ faults = 0
  /\ intact = TRUE

-----------------------------------------------------------------------------
(***************************************************************************)
(* The user interface: a round of start_ui empties its queue before it     *)
(* obeys the key.                                                          *)
(***************************************************************************)
FindTab(ts, user) == {i \in DOMAIN ts : ts[i].user = user}

\* Mutant of AddMessage: without the limit, like add_message of ui.c.
AddMessageAlways(tab, text) == [tab EXCEPT !.msgs = Append(@, text)]

\* add_message_internal drops what comes when the tab is full.
AddMessage(tab, text) ==
  IF Len(tab.msgs) < MaxMsgs THEN [tab EXCEPT !.msgs = Append(@, text)] ELSE tab

PopUi(n) == uiq[n] # <<>> /\ uiq' = [uiq EXCEPT ![n] = Tail(@)]

\* A name without a tab gets the next one.
Opened(ts, user) ==
  IF FindTab(ts, user) # {} THEN ts ELSE Append(ts, [user |-> user, msgs |-> <<>>, unread |-> FALSE])

\* add_foreign_message
AddForeignMessage(n) ==
  /\ uiq[n] # <<>>
  /\ LET u == Head(uiq[n])
         all == Opened(tabs[n], u.name)
         i == Min(FindTab(all, u.name))
         tab == AddMessage(all[i], u.text)
     IN  /\ tabs' = [tabs EXCEPT ![n] = [all EXCEPT ![i] = [tab EXCEPT !.unread = @ \/ i # active[n]]]]
         /\ intact' = (intact /\ (u.text = Notice \/ Len(all[i].msgs) < MaxMsgs))
  /\ PopUi(n)
  /\ UNCHANGED <<typed, wires, active, faults>>

Key(n) == n \in Users /\ uiq[n] = <<>>

\* ESC [ C and ESC [ D
SwitchTab(n) ==
  /\ Key(n)
  /\ \E i \in {active[n] - 1, active[n] + 1} \cap DOMAIN tabs[n] :
       /\ active' = [active EXCEPT ![n] = i]
       /\ LET tab == [tabs[n][i] EXCEPT !.unread = FALSE]
          IN  tabs' = [tabs EXCEPT ![n] = [tabs[n] EXCEPT ![i] = tab]]
  /\ UNCHANGED <<typed, wires, uiq, faults, intact>>

\* Enter: add_own_message and do_chat.  In the first tab nothing is sent,
\* but "routing" asks for the table, whose lines are one notice here.
Enter(n, len) ==
  LET i == active[n]
      x == tabs[n][i].user
      id == <<n, x, Len(typed[<<n, x>>]) + 1>>
      tab == AddMessage(tabs[n][i], Text(id, len))
  IN  /\ Key(n)
      /\ MapThenSumSet(LAMBDA p : Len(typed[p]), DOMAIN typed) < MaxTyped
      /\ typed' = [typed EXCEPT ![<<n, x>>] = Append(@, len)]
      /\ tabs' = [tabs EXCEPT ![n] = [tabs[n] EXCEPT ![i] = tab]]
      /\ \/ /\ x = System
            /\ uiq' \in {uiq, [uiq EXCEPT ![n] = Push(@, [name |-> System, text |-> Notice])]}
            /\ UNCHANGED <<sendq, intact>>
         \/ /\ x # System
            /\ sendq' = [sendq EXCEPT ![n] =
                           Push(@, [to |-> GetRouting(n, x), msg |-> Message(id, len)])]
            /\ intact' = (intact /\ HasRoom(sendq[n]) /\ GetRouting(n, x) # NoName)
            /\ UNCHANGED uiq
      /\ UNCHANGED <<stream, server, series, active, faults>>

-----------------------------------------------------------------------------
\* sender_loop: pop_send and send_tcp, which writes EOT behind the message.
Send(n) ==
  /\ sendq[n] # <<>>
  /\ LET q == Head(sendq[n])
     IN  stream' = [l \in Link |-> IF l = <<n, q.to>> THEN stream[l] \o Append(q.msg, Eot)
                                   ELSE stream[l]]
  /\ sendq' = [sendq EXCEPT ![n] = Tail(@)]
  /\ UNCHANGED <<typed, server, series, screens, faults, intact>>

Headed(piece) == Len(piece) > 1 /\ piece[1].kind = "type"

Whole(piece) == Headed(piece) /\ \A k \in DOMAIN piece : piece[k].kind = "EOT" <=> k = Len(piece)

PushUi(n, name, text) == uiq' = [uiq EXCEPT ![n] = Push(@, [name |-> name, text |-> text])]
PushSend(n, to, msg) == sendq' = [sendq EXCEPT ![n] = Push(@, [to |-> to, msg |-> msg])]

\* Mutant of Parts: the text goes on behind EOT.
PartsAll(piece) == Cardinality({k \in DOMAIN piece : piece[k].kind = "text"})

\* The text of a piece ends at EOT, or at a zero.
Parts(piece) == Cardinality({k \in DOMAIN piece : k <= MsgLen(piece) /\ piece[k].kind = "text"})

MsgChat(n, piece) ==
  LET id == piece[2].id
  IN  /\ id[2] = n
      /\ PushUi(n, id[1], Text(id, Parts(piece)))
      /\ intact' = (intact /\ Whole(piece) /\ HasRoom(uiq[n]))
      /\ UNCHANGED <<sendq, series>>

\* add_list and remove_list: the target is entered with the first message of
\* a series and would be taken out by one that contains EOT.
ListAfter(list, x, last) == IF x \in list /\ last THEN list \ {x} ELSE list \cup {x}

\* forward: the message without EOT, and filled up with zeros if it has none.
Forward(n, piece) ==
  LET x == piece[2].id[2]
      msg == [k \in 1 .. MsgLen(piece) |-> IF k <= Len(piece) THEN piece[k] ELSE Pad]
  IN  /\ x # n
      /\ PushSend(n, GetRouting(n, x), msg)
      /\ series' = [series EXCEPT ![n] = ListAfter(@, x, Eot \in Range(msg))]
      /\ intact' = (intact /\ Whole(piece) /\ HasRoom(sendq[n]) /\ GetRouting(n, x) # NoName)
      /\ UNCHANGED uiq

\* What does not begin with a header: too few bytes for one, or bytes that
\* name no known type, or no known target: forward sends them to nobody.
Misread(n, piece) ==
  /\ \/ PushUi(n, System, Notice) /\ UNCHANGED sendq
     \/ Len(piece) > 1 /\ PushSend(n, NoName, <<Pad>>) /\ UNCHANGED uiq
  /\ intact' = FALSE
  /\ UNCHANGED series

\* protocol_handle_msg, once read_tcp is back.
Handle(n, piece) ==
  \/ Headed(piece) /\ (MsgChat(n, piece) \/ Forward(n, piece))
  \/ ~Headed(piece) /\ Misread(n, piece)

\* read_tcp: one read if it does not fill the buffer, else up to MAX_READ.
Read(n, m) ==
  /\ server[n].from \in {NoName, m}
  /\ stream[<<m, n>>] # <<>>
  /\ \E k \in 1 .. Len(stream[<<m, n>>]) :
       LET piece == server[n].buf \o SubSeq(stream[<<m, n>>], 1, k)
           reads == server[n].reads + 1
       IN  /\ k <= BufSize
           /\ stream' = [stream EXCEPT ![<<m, n>>] = SubSeq(@, k + 1, Len(@))]
           /\ IF k = BufSize /\ reads < MaxRead
              THEN /\ server' = [server EXCEPT ![n] = [from |-> m, buf |-> piece, reads |-> reads]]
                   /\ UNCHANGED <<sendq, series, uiq, faults, intact>>
              ELSE /\ server' = [server EXCEPT ![n] = Ready]
                   /\ faults' = faults + (IF Whole(piece) THEN 0 ELSE 1)
                   /\ faults' <= MaxFaults
                   /\ Handle(n, piece)
  /\ UNCHANGED <<typed, tabs, active>>

Next ==
  \E n \in Node :
    \/ AddForeignMessage(n) \/ SwitchTab(n)
    \/ \E len \in 1 .. BufSize - 3 : Enter(n, len)
    \/ Send(n)
    \/ \E m \in Node \ {n} : Read(n, m)

Spec == Init /\ [][Next]_vars

\* The three threads of every node run; nobody has to type.
FairSpec ==
  /\ Spec
  /\ \A n \in Node : WF_vars(AddForeignMessage(n)) /\ WF_vars(Send(n))
  /\ \A l \in Link : WF_vars(Read(l[2], l[1]))
-----------------------------------------------------------------------------
Kinds == {"type", "names", "text", "zero", "EOT"}
IsUnits(units) == \A k \in DOMAIN units : units[k].kind \in Kinds

\* Types of the variables, and the limits of queues, buffers and tabs; no
\* user has two tabs.
TypeOK ==
  /\ typed \in [Node \X (Names \cup {System}) -> Seq(1 .. BufSize - 3)]
  /\ \A l \in Link : IsUnits(stream[l])
  /\ \A n \in Node :
       /\ Len(sendq[n]) <= MaxQueue
       /\ \A k \in DOMAIN sendq[n] : /\ sendq[n][k].to \in Node \cup {NoName}
                                     /\ IsUnits(sendq[n][k].msg)
                                     /\ Len(sendq[n][k].msg) < BufSize
       /\ server[n].reads \in 0 .. MaxRead - 1
       /\ Len(server[n].buf) = server[n].reads * BufSize
       /\ IsUnits(server[n].buf)
       /\ series[n] \subseteq Names
       /\ Len(uiq[n]) <= MaxQueue
       /\ active[n] \in DOMAIN tabs[n]
       /\ Len(tabs[n]) <= MaxTabs
       /\ \A i \in DOMAIN tabs[n] : /\ tabs[n][i].user \in Names \cup {System}
                                    /\ Len(tabs[n][i].msgs) <= MaxMsgs
                                    /\ tabs[n][i].unread \in BOOLEAN
       /\ \A i, j \in DOMAIN tabs[n] : tabs[n][i].user = tabs[n][j].user => i = j
  /\ faults \in 0 .. MaxFaults
  /\ intact \in BOOLEAN

\* The texts of x in one of the tabs.
From(x, tab) == {k \in DOMAIN tab.msgs : tab.msgs[k] # Notice /\ tab.msgs[k].id[1] = x}

\* However reads cut and merge what is sent, n finds in the tab of x what x
\* has typed for n, what it has typed for x and nothing else; the former are
\* beginnings of the texts of x, in their order, none of them twice.
InOrder ==
  \A n \in Node : \A i \in DOMAIN tabs[n] :
    LET x == tabs[n][i].user
        s == tabs[n][i].msgs
    IN  /\ \A k \in DOMAIN s : \/ s[k] = Notice
                               \/ <<s[k].id[1], s[k].id[2]>> \in {<<n, x>>, <<x, n>>}
        /\ \A k \in From(x, tabs[n][i]) :
             /\ s[k].id[3] \in DOMAIN typed[<<x, n>>]
             /\ s[k].parts <= typed[<<x, n>>][s[k].id[3]]
             /\ \A j \in From(x, tabs[n][i]) : j < k => s[j].id[3] < s[k].id[3]

\* Where the texts of x are that n has been shown.
Shown(n, x) == UNION {{<<i, k>> : k \in From(x, tabs[n][i])} : i \in FindTab(tabs[n], x)}

\* The places of a text: its header in queues and streams, and the whole of
\* it before and behind the user interface of the receiver.
Places(id) ==
  LET head == Unit("type", id)
      text == Text(id, typed[<<id[1], id[2]>>][id[3]])
      heads(q) == {k \in DOMAIN q : q[k] = head}
  IN  (UNION { {<<"sendq", n, k>> : k \in {i \in DOMAIN sendq[n] : sendq[n][i].msg[1] = head}} \cup
              {<<"server", n, k>> : k \in heads(server[n].buf)} \cup
              {<<"uiq", n, k>> : k \in {i \in DOMAIN uiq[n] : uiq[n][i].text = text}} \cup
              {<<"tab", n, p>> : p \in {s \in Shown(n, id[1]) :
                                          n # id[1] /\ tabs[n][s[1]].msgs[s[2]] = text}}
            : n \in Node })
      \cup (UNION { {<<"stream", l, k>> : k \in heads(stream[l])} : l \in Link })

\* Only a read that cuts or merges, a full queue or tab and a missing route
\* lose a text: until one of them happens every text is in one place.
Accounted ==
  intact => \A p \in Node \X Names : \A k \in DOMAIN typed[p] :
              Cardinality(Places(<<p[1], p[2], k>>)) = 1

\* Texts arrive as long as nothing of this happens and no read fills the
\* buffer, after which read_tcp waits for more.
Delivered ==
  [](intact /\ \A n \in Node : server[n] = Ready)
  => \A x \in Users : \A n \in Node \cap DOMAIN NextHop[x] : \A k \in 1 .. MaxTyped :
       (Len(typed[<<x, n>>]) >= k) ~> (Cardinality(Shown(n, x)) >= k)
=============================================================================
