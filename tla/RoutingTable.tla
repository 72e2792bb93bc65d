---------------------------- MODULE RoutingTable ----------------------------
(***************************************************************************)
(* The routing table of one node (src/routingTable.c): the entries, the    *)
(* parallel table of "still announced" records, the counter of free        *)
(* entries and the mutex tableLock, used by three kinds of threads:        *)
(*                                                                         *)
(*   Server     handles LOGIN and ROUTE messages (tableUpdate, which ends  *)
(*              with cleanUp) and LOGOUT messages (deleteFromTable);       *)
(*   HeartBeat  removes neighbours that did not answer (deleteFromTable);  *)
(*   Readers    only look up next hops (getRouting), as all threads do.    *)
(*                                                                         *)
(* A thread's label in pc names the line it is about to execute.  A next   *)
(* hop's name, address and port are always written together, so            *)
(* nextChatName stands for the three of them, and a name for the address   *)
(* of the node that carries it.                                            *)
(***************************************************************************)
EXTENDS Integers, Sequences, FiniteSets

CONSTANTS
  Name,       \* the chat names
  Own,        \* the name of this node
  NoName,     \* the empty string
  Routes,     \* the contents of the ROUTE messages neighbours may send
  NumSlots,   \* slots the loops visit: sizeof(routingTable) / 80
  TableSize,  \* slots the array has
  Readers,    \* threads that only look routes up: the user interface
  MaxFree     \* bound: new messages and timeouts only up to this freeEntries

Server == "server"
HeartBeat == "heartbeat"
Deleters == {Server, HeartBeat}
Threads == Deleters \cup Readers

Slot == 0 .. NumSlots - 1
Entry == [chatName : Name, nextChatName : Name, hopCount : Nat]
Record == [chatName : Name \cup {NoName}, reachable : BOOLEAN]

\* An unused slot of routingTable is a null pointer.
Null == [chatName |-> NoName, nextChatName |-> NoName, hopCount |-> 0]

\* What a LOGIN message of n is turned into before tableUpdate sees it.
LoginEntry(n) == [chatName |-> n, nextChatName |-> n, hopCount |-> 0]

(***************************************************************************)
(* What a neighbour running this program announces: all entries lead       *)
(* through the neighbour, only its own has hop count 0, and the receiver   *)
(* is among them unless the message has a single entry.  The invariant     *)
(* AdvertisementOK below is the guarantee every node gives in return.      *)
(***************************************************************************)
Announces(m, x) ==
  /\ m \in Seq(Entry)
  /\ Len(m) > 0
  /\ \A k \in DOMAIN m : /\ m[k].nextChatName = x
                         /\ m[k].hopCount = 0 <=> m[k].chatName = x
  /\ Len(m) > 1 => \E k \in DOMAIN m : m[k].chatName = Own

ASSUME NamesAssumption ==
  /\ Own \in Name
  /\ NoName \notin Name

ASSUME SizesAssumption ==
  /\ NumSlots \in Nat \ {0}
  /\ TableSize \in Nat
  /\ NumSlots <= TableSize
  /\ MaxFree \in Nat

ASSUME RoutesAssumption == \A m \in Routes : \E x \in Name \ {Own} : Announces(m, x)

ASSUME ReadersAssumption == Readers \cap Deleters = {}

-----------------------------------------------------------------------------
VARIABLES
  routingTable,   \* Slot -> Entry or Null
  reachbleTable,  \* Slot -> Record
  freeEntries,    \* the program's count of unused slots
  tableLock,      \* is the mutex locked?  Whoever unlocks it, it is free
  pc,             \* label of every thread
  message,        \* argument of tableUpdate
  entryIndex,     \* its loop counter: the next entry of message
  cleanSlot,      \* loop counter of cleanUp, NumSlots outside of it
  victim,         \* argument of deleteFromTable, per calling thread
  scanSlot        \* its loop counter, per calling thread

tables == <<routingTable, reachbleTable, freeEntries>>
updateLocals == <<message, entryIndex, cleanSlot>>
deleteLocals == <<victim, scanSlot>>
vars == <<tables, tableLock, pc, updateLocals, deleteLocals>>

Labels == {"idle", "update", "entry", "cleanUp", "unreachable",
           "route", "lookup", "delRoute", "delLookup", "delete", "scan", "remove"}

Goto(t, l) == pc' = [pc EXCEPT ![t] = l]
Acquire == tableLock = FALSE /\ tableLock' = TRUE
Release == tableLock' = FALSE

Used == {i \in Slot : routingTable[i] # Null}
\* Mutant of SlotsOf: the loop compares the wrong one of the two names.
SlotsOfNextHop(n) == {i \in Slot : routingTable[i].nextChatName = n}

SlotsOf(n) == {i \in Slot : routingTable[i].chatName = n}
Least(S) == CHOOSE i \in S : \A j \in S : i <= j

Init ==
  /\ routingTable = [i \in Slot |-> IF i = 0 THEN LoginEntry(Own) ELSE Null]
  /\ reachbleTable = [i \in Slot |-> [chatName |-> IF i = 0 THEN Own ELSE NoName,
                                      reachable |-> i = 0]]
  /\ freeEntries = TableSize - 1
  /\ tableLock = FALSE
  /\ pc = [t \in Threads |-> "idle"]
  /\ message = <<>>
  /\ entryIndex = 1
  /\ cleanSlot = NumSlots
  /\ victim = [t \in Deleters |-> NoName]
  /\ scanSlot = [t \in Deleters |-> 0]

-----------------------------------------------------------------------------
(***************************************************************************)
(* tableUpdate: the server thread merges an announcement into the table.   *)
(***************************************************************************)
TableUpdate(m) ==
  /\ pc[Server] = "idle"
  /\ freeEntries <= MaxFree
  /\ message' = m
  /\ Goto(Server, "update")
  /\ UNCHANGED <<tables, tableLock, entryIndex, cleanSlot, deleteLocals>>

Login(n) == TableUpdate(<<LoginEntry(n)>>)

UpdateLock ==
  /\ pc[Server] = "update"
  /\ Acquire
  /\ Goto(Server, "entry")
  /\ UNCHANGED <<tables, updateLocals, deleteLocals>>

\* Mutants of Offered: the hop is forgotten, or taken off.
OfferedUnchanged == message[entryIndex]
OfferedLess == [message[entryIndex] EXCEPT !.hopCount = @ - 1]

\* The entry of message under the loop counter, with the hop to its sender.
Offered == [message[entryIndex] EXCEPT !.hopCount = @ + 1]

NextEntry ==
  /\ pc[Server] = "entry"
  /\ entryIndex <= Len(message)
  /\ entryIndex' = entryIndex + 1
  /\ UNCHANGED <<tableLock, pc, message, cleanSlot, deleteLocals>>

\* Mutant of FillSlot: the record keeps the name it had.
FillSlotOnly(j, e) ==
  /\ routingTable' = [routingTable EXCEPT ![j] = e]
  /\ reachbleTable' = [reachbleTable EXCEPT ![j].reachable = TRUE]
  /\ freeEntries' = freeEntries - 1

FillSlot(j, e) ==
  /\ routingTable' = [routingTable EXCEPT ![j] = e]
  /\ reachbleTable' = [reachbleTable EXCEPT ![j] = [chatName |-> e.chatName, reachable |-> TRUE]]
  /\ freeEntries' = freeEntries - 1

\* Mutant of Shorter: the comparison is the wrong way round.
Longer(e, i) == routingTable[i].hopCount < e.hopCount

Shorter(e, i) == routingTable[i].hopCount > e.hopCount

\* A new name goes to the first unused slot the loop reaches; if it reaches
\* none, or if freeEntries says there is none, the entry is dropped.  That
\* checkNameInTable comes before the search for a slot makes no difference:
\* a deletion between the two only empties slots, so the name is not found
\* after it either, and it may as well come before both.
AddEntry ==
  /\ NextEntry
  /\ SlotsOf(Offered.chatName) = {}
  /\ IF freeEntries > 0 /\ Slot \ Used # {}
     THEN FillSlot(Least(Slot \ Used), Offered)
     ELSE UNCHANGED tables

\* A known name is marked as announced, and rerouted if that is shorter.
RefreshEntry ==
  /\ NextEntry
  /\ SlotsOf(Offered.chatName) # {}
  /\ LET i == Least(SlotsOf(Offered.chatName))
     IN  /\ reachbleTable' = [reachbleTable EXCEPT ![i].reachable = TRUE]
         /\ routingTable' = IF Shorter(Offered, i)
                            THEN [routingTable EXCEPT ![i] = Offered]
                            ELSE routingTable
  /\ UNCHANGED freeEntries

\* An announcement of exactly one entry (length == 80) skips cleanUp.
UpdateEnd ==
  /\ pc[Server] = "entry"
  /\ entryIndex > Len(message)
  /\ entryIndex' = 1
  /\ IF Len(message) = 1
     THEN /\ Release
          /\ Goto(Server, "idle")
          /\ message' = <<>>
          /\ UNCHANGED cleanSlot
     ELSE /\ Goto(Server, "cleanUp")
          /\ cleanSlot' = 0
          /\ UNCHANGED <<tableLock, message>>
  /\ UNCHANGED <<tables, deleteLocals>>

(***************************************************************************)
(* cleanUp: names whose record was not marked since the last call are      *)
(* deleted, with tableLock released around the call; marks are taken back. *)
(***************************************************************************)
CleanUpSlot ==
  /\ pc[Server] = "cleanUp"
  /\ cleanSlot < NumSlots
  /\ LET r == reachbleTable[cleanSlot]
     IN  \/ /\ r.chatName = NoName
            /\ cleanSlot' = cleanSlot + 1
            /\ UNCHANGED <<reachbleTable, tableLock, pc, victim>>
         \/ /\ r.chatName # NoName
            /\ r.reachable
            /\ reachbleTable' = [reachbleTable EXCEPT ![cleanSlot].reachable = FALSE]
            /\ cleanSlot' = cleanSlot + 1
            /\ UNCHANGED <<tableLock, pc, victim>>
         \/ /\ r.chatName # NoName
            /\ ~r.reachable
            /\ Release
            /\ victim' = [victim EXCEPT ![Server] = r.chatName]
            /\ Goto(Server, "delRoute")
            /\ UNCHANGED <<reachbleTable, cleanSlot>>
  /\ UNCHANGED <<routingTable, freeEntries, message, entryIndex, scanSlot>>

\* Back from deleteFromTable: tell the user, forget the record, lock again.
\* Only the server reads the records, so the two writes are one step.
Unreachable ==
  /\ pc[Server] = "unreachable"
  /\ Acquire
  /\ reachbleTable' = [reachbleTable EXCEPT ![cleanSlot].chatName = NoName]
  /\ cleanSlot' = cleanSlot + 1
  /\ Goto(Server, "cleanUp")
  /\ UNCHANGED <<routingTable, freeEntries, message, entryIndex, deleteLocals>>

CleanUpEnd ==
  /\ pc[Server] = "cleanUp"
  /\ cleanSlot = NumSlots
  /\ Release
  /\ message' = <<>>
  /\ Goto(Server, "idle")
  /\ UNCHANGED <<tables, entryIndex, cleanSlot, deleteLocals>>

-----------------------------------------------------------------------------
(***************************************************************************)
(* getRouting, as called on its own (route, lookup) and by                 *)
(* deleteFromTable (delRoute, delLookup).  It changes nothing; lookup is   *)
(* the time it holds tableLock.                                            *)
(***************************************************************************)
GetRouting(t) ==
  /\ pc[t] = "idle"
  /\ Goto(t, "route")
  /\ UNCHANGED <<tables, tableLock, updateLocals, deleteLocals>>

GetRoutingLock(t) ==
  /\ Acquire
  /\ \/ pc[t] = "route" /\ Goto(t, "lookup")
     \/ pc[t] = "delRoute" /\ Goto(t, "delLookup")
  /\ UNCHANGED <<tables, updateLocals, deleteLocals>>

\* Mutant of GetRoutingReturn: a found name returns without unlocking.
GetRoutingReturnLocked(t) ==
  /\ UNCHANGED tableLock
  /\ \/ pc[t] = "lookup" /\ Goto(t, "idle")
     \/ pc[t] = "delLookup" /\ Goto(t, "delete")
  /\ UNCHANGED <<tables, updateLocals, deleteLocals>>

GetRoutingReturn(t) ==
  /\ Release
  /\ \/ pc[t] = "lookup" /\ Goto(t, "idle")
     \/ pc[t] = "delLookup" /\ Goto(t, "delete")
  /\ UNCHANGED <<tables, updateLocals, deleteLocals>>

-----------------------------------------------------------------------------
(***************************************************************************)
(* deleteFromTable: removes the entry of a name and the entries that lead  *)
(* through it.  Every removal unlocks tableLock and so does the end.       *)
(***************************************************************************)
DeleteFromTable(t, n) ==
  /\ pc[t] = "idle"
  /\ freeEntries <= MaxFree
  /\ victim' = [victim EXCEPT ![t] = n]
  /\ Goto(t, "delRoute")
  /\ UNCHANGED <<tables, tableLock, updateLocals, scanSlot>>

Logout(n) == DeleteFromTable(Server, n)
HeartBeatTimeout(n) == DeleteFromTable(HeartBeat, n)

DeleteLock(t) ==
  /\ pc[t] = "delete"
  /\ Acquire
  /\ Goto(t, "scan")
  /\ UNCHANGED <<tables, updateLocals, deleteLocals>>

\* Mutant of DeleteScan: entries that lead through the name stay.
DeleteScanName(t) ==
  /\ pc[t] = "scan"
  /\ scanSlot[t] < NumSlots
  /\ IF victim[t] = routingTable[scanSlot[t]].chatName
     THEN Goto(t, "remove") /\ UNCHANGED scanSlot
     ELSE scanSlot' = [scanSlot EXCEPT ![t] = @ + 1] /\ UNCHANGED pc
  /\ UNCHANGED <<tables, tableLock, updateLocals, victim>>

\* Reads the slot: an entry that matches is removed by the next step.
DeleteScan(t) ==
  /\ pc[t] = "scan"
  /\ scanSlot[t] < NumSlots
  /\ IF victim[t] \in {routingTable[scanSlot[t]].chatName, routingTable[scanSlot[t]].nextChatName}
     THEN Goto(t, "remove") /\ UNCHANGED scanSlot
     ELSE scanSlot' = [scanSlot EXCEPT ![t] = @ + 1] /\ UNCHANGED pc
  /\ UNCHANGED <<tables, tableLock, updateLocals, victim>>

\* free, null, count, unlock; should another thread have removed the entry
\* since the scan, free(NULL) does nothing and the entry is counted again.
DeleteRemove(t) ==
  /\ pc[t] = "remove"
  /\ routingTable' = [routingTable EXCEPT ![scanSlot[t]] = Null]
  /\ reachbleTable' = [reachbleTable EXCEPT ![scanSlot[t]].reachable = FALSE]
  /\ freeEntries' = freeEntries + 1
  /\ Release
  /\ scanSlot' = [scanSlot EXCEPT ![t] = @ + 1]
  /\ Goto(t, "scan")
  /\ UNCHANGED <<updateLocals, victim>>

DeleteReturn(t) ==
  /\ pc[t] = "scan"
  /\ scanSlot[t] = NumSlots
  /\ Release
  /\ victim' = [victim EXCEPT ![t] = NoName]
  /\ scanSlot' = [scanSlot EXCEPT ![t] = 0]
  /\ Goto(t, IF t = Server /\ cleanSlot < NumSlots THEN "unreachable" ELSE "idle")
  /\ UNCHANGED <<tables, updateLocals>>

-----------------------------------------------------------------------------
\* The steps with which the thread that executes a call carries it on.
ServerStep ==
  \/ UpdateLock \/ AddEntry \/ RefreshEntry \/ UpdateEnd
  \/ CleanUpSlot \/ Unreachable \/ CleanUpEnd
DeleteStep(t) == DeleteLock(t) \/ DeleteScan(t) \/ DeleteRemove(t) \/ DeleteReturn(t)
GetRoutingStep(t) == GetRoutingLock(t) \/ GetRoutingReturn(t)
Step(t) ==
  \/ t = Server /\ ServerStep
  \/ t \in Deleters /\ DeleteStep(t)
  \/ GetRoutingStep(t)

\* The calls: messages that arrive, timeouts, lookups.  LOGOUT and timeouts
\* concern other nodes; anybody may try to log in under any name.
Call ==
  \/ \E n \in Name : Login(n)
  \/ \E m \in Routes : TableUpdate(m)
  \/ \E n \in Name \ {Own} : Logout(n) \/ HeartBeatTimeout(n)
  \/ \E t \in Threads : GetRouting(t)

Next == Call \/ \E t \in Threads : Step(t)

Spec == Init /\ [][Next]_vars

\* Running threads are scheduled, and a thread that waits for tableLock
\* gets it if it is released again and again; calls need not happen.
FairSpec == Spec /\ \A t \in Threads : SF_vars(Step(t))
-----------------------------------------------------------------------------
\* Types of the variables (the sizes, offsets and widths of routingTable.h).
TypeOK ==
  /\ routingTable \in [Slot -> Entry \cup {Null}]
  /\ reachbleTable \in [Slot -> Record]
  /\ freeEntries \in Int
  /\ tableLock \in BOOLEAN
  /\ pc \in [Threads -> Labels]
  /\ message \in Seq(Entry)
  /\ entryIndex \in Nat \ {0}
  /\ cleanSlot \in 0 .. NumSlots
  /\ victim \in [Deleters -> Name \cup {NoName}]
  /\ scanSlot \in [Deleters -> 0 .. NumSlots]

\* No name has two entries, whatever deletions overlap with an update:
\* checkNameInTable and getRouting stop at the first match, so a second
\* entry would never be refreshed, rerouted or looked up.
UniqueNames ==
  \A i, j \in Used : routingTable[i].chatName = routingTable[j].chatName => i = j

\* The two parallel arrays agree: the record that decides whether cleanUp
\* deletes the entry of a slot carries the name of that entry.
RecordsMatch ==
  \A i \in Used : reachbleTable[i].chatName = routingTable[i].chatName

\* The node's own entry stays in slot 0, where tableToCharArray reads the
\* next hop of everything it announces without looking for a null pointer.
OwnEntryKept == routingTable[0] = LoginEntry(Own)

\* The neighbours getHopsOneAway lists (hop count 1), and nobody else, are
\* reached directly; nobody is reached through this node itself.
DirectIffOneHop ==
  \A i \in Used :
    LET e == routingTable[i]
    IN  e.chatName # Own => /\ e.hopCount > 0
                            /\ e.hopCount = 1 <=> e.nextChatName = e.chatName
                            /\ e.nextChatName # Own

\* Mutant of Advertised: every entry keeps its own next hop.
AdvertisedAsStored == {routingTable[i] : i \in Used}

\* tableToCharArray: what the node announces to its neighbours.
Advertised == {[routingTable[i] EXCEPT !.nextChatName = routingTable[0].nextChatName] : i \in Used}

\* At every moment, also in the middle of an update or a deletion of another
\* thread, the announcement is what this module assumes of its neighbours:
\* it leads through this node, and only this node is at distance 0.
AdvertisementOK ==
  \A e \in Advertised : /\ e.nextChatName = Own
                        /\ (e.hopCount = 0 <=> e.chatName = Own)

\* The map the table stands for.
RoutesOfTable ==
  [n \in {routingTable[i].chatName : i \in Used} |->
     LET e == routingTable[Least(SlotsOf(n))]
     IN  [nextChatName |-> e.nextChatName, hopCount |-> e.hopCount]]

Map == INSTANCE RouteMap WITH routes <- RoutesOfTable

\* The table is a route map: overlapping updates and deletions of several
\* threads, duplicate announcements and a full array included, each step
\* learns, shortens or forgets one name, or changes no route.
ImplementsRouteMap == Map!Spec

\* Every call returns: no thread waits for tableLock forever, in particular
\* not cleanUp for a lock its own thread holds.
CallsReturn == \A t \in Threads : pc[t] # "idle" ~> pc[t] = "idle"

-----------------------------------------------------------------------------
(***************************************************************************)
(* What the code says of itself and does not keep.                         *)
(***************************************************************************)

\* The stretches of the calls between pthread_mutex_lock(&tableLock) and the
\* last pthread_mutex_unlock(&tableLock) before it is locked again.
UsesTable(t) == pc[t] \in {"entry", "cleanUp", "lookup", "delLookup", "scan", "remove"}

\* tableLock protects the table: two threads never use it at the same time.
\* deleteFromTable unlocks once per removed entry and once more at its end.
MutualExclusion == \A t, u \in Threads : UsesTable(t) /\ UsesTable(u) => t = u

\* Whoever the user is told is "nicht erreichbar, aus Routing Tabelle
\* entfernt" was not announced by the very message that is being handled.
UnreachableNotAnnounced ==
  pc[Server] = "unreachable" =>
    \A k \in DOMAIN message : message[k].chatName # reachbleTable[cleanSlot].chatName
=============================================================================
