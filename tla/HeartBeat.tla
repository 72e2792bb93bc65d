------------------------------ MODULE HeartBeat ------------------------------
(***************************************************************************)
(* The heartbeat of one node (src/heartBeat.c): a thread asks the          *)
(* neighbours for a sign of life, waits, and removes from the routing      *)
(* table who has not answered, while the server thread handles the         *)
(* answers, logins and logouts.                                            *)
(*                                                                         *)
(* Of the routing table only the names one hop away matter, in the order   *)
(* of their slots.  The list of users is indexed by position: when the     *)
(* table changes, getHopsOneAway writes other names beside the flags that  *)
(* are already there.  How long the thread sleeps is left open: an answer  *)
(* may come at any time, or never.                                         *)
(***************************************************************************)
EXTENDS Integers, FiniteSets

CONSTANTS
  User,      \* the names of the neighbours
  Mortal,    \* those that may stop for good
  NoName,    \* the empty string
  NumSlots   \* slots of the routing table neighbours may occupy

ASSUME UserAssumption == NoName \notin User /\ IsFiniteSet(User)
ASSUME SlotsAssumption == NumSlots \in Nat \ {0}

Slot == 0 .. NumSlots - 1
Position == 0 .. NumSlots     \* one more than names can be listed

Unused == [chatName |-> NoName, notResponded |-> FALSE]

VARIABLES
  table,       \* slot -> the neighbour it holds, or NoName
  oneHopaway,  \* position -> name, and notResponded: it HAS responded
  lock,        \* users.lock: who holds it
  pc,          \* label of the heartbeat thread
  index,       \* its loop counter
  turn,        \* that of its inner loop, which tells the users of a removal
  response,    \* the name whose response the server is handling, or NoName
  hearts,      \* HEART messages on their way to neighbours
  replies,     \* their responses on the way back
  alive,       \* the neighbours that are running
  answered,    \* history: whose response was handled since the last HEART
  disturbed,   \* history: did the table change since the list was emptied?
  audience,    \* history: the neighbours when the inner loop began
  left         \* history: how many the server has deleted since, up to 2

history == <<answered, disturbed>>
telling == <<turn, audience, left>>
messages == <<hearts, replies, alive>>
vars == <<table, oneHopaway, lock, pc, index, response, messages, history, telling>>

Direct == {table[s] : s \in Slot} \ {NoName}

\* Mutant of GetHopsOneAway: a name is written together with a new flag.
GetHopsOneAwayFresh(list) ==
  LET used == {s \in Slot : table[s] # NoName}
      Rank(s) == Cardinality({r \in used : r < s})
  IN  [p \in Position |->
         IF p < Cardinality(used)
         THEN [Unused EXCEPT !.chatName = table[CHOOSE s \in used : Rank(s) = p]]
         ELSE list[p]]

\* getHopsOneAway: the names move up, the flags stay where they are, and
\* what lies behind the last name is left as it was.
GetHopsOneAway(list) ==
  LET used == {s \in Slot : table[s] # NoName}
      Rank(s) == Cardinality({r \in used : r < s})
  IN  [p \in Position |->
         IF p < Cardinality(used)
         THEN [list[p] EXCEPT !.chatName = table[CHOOSE s \in used : Rank(s) = p]]
         ELSE list[p]]

\* The loops over the list end at the first empty name.
Listed(list) ==
  {list[p].chatName : p \in {q \in Position : \A r \in 0 .. q : list[r].chatName # NoName}}

Init ==
  /\ table = [s \in Slot |-> NoName]
  /\ oneHopaway = [p \in Position |-> Unused]
  /\ lock = "free"
  /\ pc = "collect"
  /\ index = 0
  /\ response = NoName
  /\ hearts = {} /\ replies = {} /\ alive = User
  /\ answered = {} /\ disturbed = TRUE
  /\ turn = 0 /\ audience = {} /\ left = 0

-----------------------------------------------------------------------------
(***************************************************************************)
(* heartBeatFunction                                                       *)
(***************************************************************************)
\* With nobody in the list, sleep for a second and look again.
Collect ==
  /\ pc = "collect"
  /\ lock = "free"
  /\ oneHopaway' = GetHopsOneAway(oneHopaway)
  /\ pc' = IF oneHopaway'[0].chatName = NoName THEN "collect" ELSE "clear"
  /\ UNCHANGED <<table, lock, index, response, messages, history, telling>>

\* The list is emptied and filled again without the lock.
Clear ==
  /\ pc = "clear"
  /\ oneHopaway' = [p \in Position |-> Unused]
  /\ disturbed' = FALSE
  /\ pc' = "recollect"
  /\ UNCHANGED <<table, lock, index, response, messages, answered, telling>>

Recollect ==
  /\ pc = "recollect"
  /\ oneHopaway' = GetHopsOneAway(oneHopaway)
  /\ pc' = "signal"
  /\ UNCHANGED <<table, lock, index, response, messages, history, telling>>

\* sendHeartbeatSignal: who is no longer in the table has no address.
SendHeartbeatSignal ==
  /\ pc = "signal"
  /\ lock = "free"
  /\ hearts' = hearts \cup (Listed(oneHopaway) \cap Direct)
  /\ pc' = "wait"
  /\ UNCHANGED <<table, oneHopaway, lock, index, response, replies, alive, history, telling>>

WakeUp ==
  /\ pc = "wait"
  /\ lock = "free"
  /\ lock' = "heartbeat"
  /\ pc' = "check"
  /\ UNCHANGED <<table, oneHopaway, index, response, messages, history, telling>>

\* The loop goes on to the next position, takes a flag back, or has found
\* somebody to remove.
Check ==
  /\ pc = "check"
  /\ LET u == oneHopaway[index]
     IN  \/ /\ u.chatName = NoName
            /\ lock' = "free"
            /\ pc' = "collect"
            /\ answered' = {} /\ disturbed' = TRUE
            /\ index' = 0
            /\ UNCHANGED oneHopaway
         \/ /\ u.chatName # NoName
            /\ u.notResponded
            /\ oneHopaway' = [oneHopaway EXCEPT ![index].notResponded = FALSE]
            /\ index' = index + 1
            /\ UNCHANGED <<lock, pc, history>>
         \/ /\ u.chatName # NoName
            /\ ~u.notResponded
            /\ pc' = "remove"
            /\ UNCHANGED <<oneHopaway, lock, index, history>>
  /\ UNCHANGED <<table, response, messages, telling>>

Without(n) == [s \in Slot |-> IF table[s] = n THEN NoName ELSE table[s]]

\* Mutant of Remove: the place in the list is emptied before its name is
\* passed to deleteFromTable.
RemoveEmptied ==
  /\ pc = "remove"
  /\ table' = Without(NoName)
  /\ oneHopaway' = [oneHopaway EXCEPT ![index] = Unused]
  /\ disturbed' = TRUE
  /\ pc' = "announce"
  /\ UNCHANGED <<lock, index, response, messages, answered, telling>>

Remove ==
  /\ pc = "remove"
  /\ table' = Without(oneHopaway[index].chatName)
  /\ oneHopaway' = [oneHopaway EXCEPT ![index] = Unused]
  /\ disturbed' = TRUE
  /\ pc' = "announce"
  /\ UNCHANGED <<lock, index, response, messages, answered, telling>>

\* Mutant of Announce: the list keeps the gap the removed user left.
AnnounceWithGap ==
  /\ pc = "announce"
  /\ audience' = Direct
  /\ pc' = "tell"
  /\ UNCHANGED <<table, oneHopaway, lock, index, turn, left, response, messages, history>>

\* After a removal the list is brought up to date, and the table is written
\* down for its users.
Announce ==
  /\ pc = "announce"
  /\ oneHopaway' = GetHopsOneAway(oneHopaway)
  /\ audience' = Direct
  /\ pc' = "tell"
  /\ UNCHANGED <<table, lock, index, turn, left, response, messages, history>>

\* Mutant of TableSizes: this node's own entry does not count.
NeighbourCounts == Cardinality(Direct) .. NumSlots + 1

\* How many entries the table may have: this node's own, the neighbours,
\* and names further away in any of the other slots.  There are never
\* fewer than the first two.
TableSizes == Cardinality(Direct) + 1 .. NumSlots + 1

\* One turn of the loop that sends the table.  Its limit is read on every
\* turn, while the server thread may change the table.
Tell ==
  /\ pc = "tell"
  /\ oneHopaway[turn].chatName # NoName
  /\ \E size \in TableSizes : turn < size
  /\ turn' = turn + 1
  /\ UNCHANGED <<table, oneHopaway, lock, pc, index, audience, left, response, messages, history>>

\* Mutant of Told: the loop over the list goes back.
ToldStepBack ==
  /\ pc = "tell"
  /\ oneHopaway[turn].chatName = NoName \/ \E size \in TableSizes : turn >= size
  /\ turn' = 0 /\ audience' = {} /\ left' = 0
  /\ index' = index - 1
  /\ pc' = "check"
  /\ UNCHANGED <<table, oneHopaway, lock, response, messages, history>>

\* The loop ends at the first empty name or at its limit, and the outer one
\* goes on to the next position.
Told ==
  /\ pc = "tell"
  /\ oneHopaway[turn].chatName = NoName \/ \E size \in TableSizes : turn >= size
  /\ turn' = 0 /\ audience' = {} /\ left' = 0
  /\ index' = index + 1
  /\ pc' = "check"
  /\ UNCHANGED <<table, oneHopaway, lock, response, messages, history>>

HeartBeatStep ==
  \/ Collect \/ Clear \/ Recollect \/ SendHeartbeatSignal
  \/ WakeUp \/ Check \/ Remove \/ Announce \/ Tell \/ Told

-----------------------------------------------------------------------------
(***************************************************************************)
(* The server thread.                                                      *)
(***************************************************************************)
\* receiveHeartbeatResponse: refresh the list, then mark the sender in it.
ReceiveHeartbeatResponse(n) ==
  /\ response = NoName
  /\ n \in replies
  /\ lock = "free"
  /\ lock' = "server"
  /\ replies' = replies \ {n}
  /\ response' = n
  /\ oneHopaway' = GetHopsOneAway(oneHopaway)
  /\ UNCHANGED <<table, pc, index, hearts, alive, history, telling>>

First(S) == CHOOSE p \in S : \A q \in S : p <= q

Mark ==
  /\ response # NoName
  /\ LET found == {p \in Position : oneHopaway[p].chatName = response}
     IN  oneHopaway' = IF found = {} THEN oneHopaway
                       ELSE [oneHopaway EXCEPT ![First(found)].notResponded = TRUE]
  /\ answered' = IF pc = "wait" THEN answered \cup {response} ELSE answered
  /\ response' = NoName
  /\ lock' = "free"
  /\ UNCHANGED <<table, pc, index, messages, disturbed, telling>>

\* A neighbour becomes known by a LOGIN, which is answered with a HEART, or
\* by an announcement of its own.  Names further away may hold any of the
\* other slots: so it may take any of them, as a new name or as one of
\* those, or none if the table is full.
Enter(n) ==
  /\ response = NoName
  /\ n \in alive
  /\ \/ UNCHANGED <<table, disturbed>>
     \/ /\ n \notin Direct
        /\ \E s \in Slot : table[s] = NoName /\ table' = [table EXCEPT ![s] = n]
        /\ disturbed' = TRUE
  /\ UNCHANGED <<oneHopaway, lock, pc, index, response, replies, alive, answered, telling>>

Login(n) == Enter(n) /\ hearts' = IF n \in {table'[s] : s \in Slot} THEN hearts \cup {n} ELSE hearts
Route(n) == Enter(n) /\ UNCHANGED hearts

\* A LOGOUT, or an announcement of another neighbour that does not name it.
Leave(n) ==
  /\ response = NoName
  /\ n \in Direct
  /\ table' = Without(n)
  /\ disturbed' = TRUE
  /\ left' = IF pc = "tell" /\ left < 2 THEN left + 1 ELSE left
  /\ UNCHANGED <<oneHopaway, lock, pc, index, turn, audience, response, messages, answered>>

\* The neighbours: a HEART is answered, or the neighbour stops.
Answer(n) ==
  /\ n \in hearts \cap alive
  /\ hearts' = hearts \ {n}
  /\ replies' = replies \cup {n}
  /\ UNCHANGED <<table, oneHopaway, lock, pc, index, response, alive, history, telling>>

Stop(n) ==
  /\ n \in alive \cap Mortal
  /\ alive' = alive \ {n}
  /\ UNCHANGED <<table, oneHopaway, lock, pc, index, response, hearts, replies, history, telling>>

ServerStep ==
  \/ Mark
  \/ \E n \in User : ReceiveHeartbeatResponse(n) \/ Login(n) \/ Route(n) \/ Leave(n)

Next ==
  \/ HeartBeatStep
  \/ ServerStep
  \/ \E n \in User : Answer(n) \/ Stop(n)

Spec == Init /\ [][Next]_vars

\* The thread runs, and it gets users.lock if that is released again and
\* again, which the server does as soon as it has marked the sender.
FairSpec == Spec /\ SF_vars(HeartBeatStep) /\ WF_vars(Mark)
-----------------------------------------------------------------------------
TypeOK ==
  /\ table \in [Slot -> User \cup {NoName}]
  /\ oneHopaway \in [Position -> [chatName : User \cup {NoName}, notResponded : BOOLEAN]]
  /\ lock \in {"free", "heartbeat", "server"}
  /\ pc \in {"collect", "clear", "recollect", "signal", "wait", "check", "remove", "announce", "tell"}
  /\ index \in Position /\ turn \in Position
  /\ response \in User \cup {NoName}
  /\ {hearts, replies, alive, answered, audience} \subseteq SUBSET User
  /\ disturbed \in BOOLEAN
  /\ left \in 0 .. 2

Removing(n) == pc = "remove" /\ oneHopaway[index].chatName = n

\* Unless the table has changed since the list was emptied, nobody is
\* removed whose response to this round's HEART was handled: responses to
\* an earlier round, and those that fall between emptying and filling the
\* list, included.
FirstAlarmJustified == \A n \in Direct : Removing(n) /\ ~disturbed => n \notin answered

\* "After deletion, send updated ROUTE messages to all one-hop-away users":
\* who was a neighbour when the loop began, and still is when it ends, has
\* had his turn, although the server thread may have deleted one of the
\* others meanwhile and the limit has fallen.  The own entry, which counts
\* for the limit, makes up for one deletion; after two, somebody may be
\* left out.
RemovalAnnounced ==
  [][pc = "tell" /\ pc' = "check" /\ left <= 1
     => audience \cap Direct \subseteq {oneHopaway[p].chatName : p \in 0 .. turn - 1}]_vars

\* "User %s is not responding": it did not respond to the last HEART.
NotResponding == \A n \in User : Removing(n) => n \notin answered

\* A neighbour that has stopped does not stay in the table for ever,
\* although a removal before it makes the loop skip a user.
StoppedRemoved == \A n \in User : n \in Direct \ alive ~> n \notin Direct
=============================================================================
