------------------------- MODULE RoutingTableProofs -------------------------
(***************************************************************************)
(* Proofs that the safety invariants of RoutingTable hold for every set of *)
(* names, every table size, any number of readers and all announcements    *)
(* that satisfy RoutesAssumption.                                          *)
(*                                                                         *)
(* Types and control are inductive by themselves.  The rest hangs together *)
(* and is proved as one inductive invariant: cleanUp may forget a record   *)
(* because deleteFromTable has emptied its slot, and it never deletes the  *)
(* node's own entry because a neighbour's announcement of several entries  *)
(* names the node, which marks slot 0 before cleanUp reads it.  At the     *)
(* end: the table implements RouteMap.                                     *)
(***************************************************************************)
EXTENDS RoutingTable, TLAPS, WellFoundedInduction

Deleting == {"delRoute", "delLookup", "delete", "scan", "remove"}

\* Loop counters and labels go together.
Control ==
  /\ pc[Server] # "entry" => entryIndex = 1
  /\ cleanSlot < NumSlots => pc[Server] \in Deleting \cup {"cleanUp", "unreachable"}
  /\ pc[Server] = "unreachable" => cleanSlot < NumSlots
  /\ \A t \in Deleters : /\ pc[t] = "remove" => scanSlot[t] < NumSlots
                         /\ pc[t] \notin {"scan", "remove"} => scanSlot[t] = 0

TypeInv == TypeOK /\ Control

\* Deletions are never about this node.
OthersDeleted ==
  \A t \in Deleters : victim[t] # Own /\ (pc[t] = "remove" => scanSlot[t] # 0)

\* An announcement tells its sender from the rest by hop count 0, and names
\* this node unless it has a single entry.
Direct(m) ==
  \A k \in DOMAIN m : /\ m[k].hopCount = 0 <=> m[k].chatName = m[k].nextChatName
                      /\ m[k].nextChatName = Own => m[k].chatName = Own
NamesOwn(m) == Len(m) # 1 => \E k \in DOMAIN m : m[k].chatName = Own

\* What is being merged is a login or an announcement, and once the entry
\* of this node has had its turn, slot 0 is marked.
Merging ==
  /\ Direct(message)
  /\ pc[Server] \in {"update", "entry"} => NamesOwn(message)
  /\ pc[Server] = "entry" =>
       \A k \in DOMAIN message :
         k < entryIndex /\ message[k].chatName = Own => reachbleTable[0].reachable

\* cleanUp finds slot 0 marked, deletes the name of the record it has come
\* to, and the slot is empty as soon as the deletion has passed it.
Cleaning ==
  /\ cleanSlot = 0 => pc[Server] = "cleanUp" /\ reachbleTable[0].reachable
  /\ cleanSlot < NumSlots /\ pc[Server] \in Deleting =>
       /\ victim[Server] = reachbleTable[cleanSlot].chatName
       /\ scanSlot[Server] > cleanSlot => routingTable[cleanSlot] = Null
  /\ pc[Server] = "unreachable" => routingTable[cleanSlot] = Null

OwnRecord == \A i \in Slot : reachbleTable[i].chatName = Own => i = 0

TableInv ==
  /\ UniqueNames
  /\ RecordsMatch
  /\ OwnEntryKept
  /\ DirectIffOneHop
  /\ OwnRecord

ThreadInv ==
  /\ OthersDeleted
  /\ Merging
  /\ Cleaning

IInv == TypeInv /\ TableInv /\ ThreadInv

-----------------------------------------------------------------------------
(***************************************************************************)
(* Facts about the state functions the actions are built from.             *)
(***************************************************************************)

\* A loop over the slots finds the first one of a nonempty set.
LEMMA LeastOf ==
  ASSUME NEW S \in SUBSET Slot, S # {}
  PROVE  /\ Least(S) \in S
         /\ \A j \in S : Least(S) <= j
<1>1. S \subseteq Nat
  BY SizesAssumption DEF Slot
<1>2. PICK i \in S : \A j \in S : ~ (<<j, i>> \in OpToRel(<, Nat))
  BY <1>1, NatLessThanWellFounded, WFMin, Zenon
<1>3. \A j \in S : ~ (j < i)
  BY <1>1, <1>2 DEF OpToRel
<1>4. \A j \in S : i <= j
  BY <1>1, <1>3
<1>5. QED
  BY <1>4, Zenon DEF Least

\* An entry is never mistaken for a null pointer.
LEMMA EntryNotNull ==
  /\ Null \notin Entry
  /\ \A e \in Entry : e.chatName \in Name /\ e.nextChatName \in Name /\ e.hopCount \in Nat
  /\ Null.chatName = NoName
  /\ NoName \notin Name
  BY NamesAssumption DEF Null, Entry

\* Marking a record, taking the mark back and forgetting the name.
LEMMA RecordChanges ==
  ASSUME NEW r \in Record
  PROVE  /\ [r EXCEPT !.reachable = TRUE] \in Record
         /\ [r EXCEPT !.reachable = FALSE] \in Record
         /\ [r EXCEPT !.chatName = NoName] \in Record
  BY DEF Record

LEMMA LoginIsEntry == \A n \in Name : LoginEntry(n) \in Entry
  BY DEF LoginEntry, Entry

\* The entry that is merged is one of the message, a hop further away.
LEMMA OfferedIsEntry ==
  ASSUME TypeOK, entryIndex <= Len(message)
  PROVE  /\ entryIndex \in DOMAIN message
         /\ message[entryIndex] \in Entry
         /\ Offered \in Entry
         /\ Offered.chatName = message[entryIndex].chatName
         /\ Offered.nextChatName = message[entryIndex].nextChatName
         /\ Offered.hopCount = message[entryIndex].hopCount + 1
<1>1. entryIndex \in DOMAIN message /\ message[entryIndex] \in Entry
  BY DEF TypeOK
<1>2. QED
  BY <1>1 DEF Offered, Entry

LEMMA SlotsOfName ==
  ASSUME TypeOK, NEW n \in Name
  PROVE  /\ SlotsOf(n) \in SUBSET Slot
         /\ \A i \in Slot : i \in SlotsOf(n) <=> i \in Used /\ routingTable[i].chatName = n
  BY EntryNotNull DEF SlotsOf, Used, TypeOK

-----------------------------------------------------------------------------
(***************************************************************************)
(* Types and control.                                                      *)
(***************************************************************************)
LEMMA TypeInit == Init => TypeInv
<1> SUFFICES ASSUME Init PROVE TypeInv
  OBVIOUS
<1>1. routingTable \in [Slot -> Entry \cup {Null}]
  BY LoginIsEntry, NamesAssumption DEF Init
<1>2. reachbleTable \in [Slot -> Record]
  BY NamesAssumption DEF Init, Record
<1>3. /\ freeEntries \in Int
      /\ entryIndex \in Nat \ {0}
      /\ cleanSlot \in 0 .. NumSlots
  <2>1. freeEntries = TableSize - 1 /\ entryIndex = 1 /\ cleanSlot = NumSlots
    BY DEF Init
  <2>2. QED
    BY <2>1, SizesAssumption
<1>4. tableLock \in BOOLEAN
  BY DEF Init
<1>9. message \in Seq(Entry)
  <2>1. message = <<>>
    BY DEF Init
  <2>2. QED
    BY <2>1
<1>5. /\ pc \in [Threads -> Labels]
      /\ victim \in [Deleters -> Name \cup {NoName}]
      /\ scanSlot \in [Deleters -> 0 .. NumSlots]
  BY SizesAssumption DEF Init, Labels
<1>6. TypeOK
  BY <1>1, <1>2, <1>3, <1>4, <1>9, <1>5 DEF TypeOK
<1>7. Control
  BY SizesAssumption, ReadersAssumption DEF Init, Control, Threads, Deleters, Server
<1>8. QED
  BY <1>6, <1>7 DEF TypeInv

LEMMA ServerIsThread ==
  /\ Server \in Deleters /\ HeartBeat \in Deleters /\ Server # HeartBeat
  /\ Deleters \subseteq Threads
  BY DEF Server, HeartBeat, Deleters, Threads

LEMMA ReleaseType == Release => tableLock' \in BOOLEAN
  BY DEF Release

LEMMA TypeNext == TypeInv /\ [Next]_vars => TypeInv'
<1> SUFFICES ASSUME TypeInv, [Next]_vars PROVE TypeInv'
  OBVIOUS
<1> USE ServerIsThread, ReleaseType, SizesAssumption, NamesAssumption
    DEF TypeInv, TypeOK, Control, Goto, Acquire, Labels, Deleting,
        tables, updateLocals, deleteLocals
<1>1. ASSUME NEW m \in Seq(Entry), TableUpdate(m) PROVE TypeInv'
  BY <1>1 DEF TableUpdate
<1>2. CASE UpdateLock
  BY <1>2 DEF UpdateLock
<1>3. CASE AddEntry
  <2> DEFINE j == Least(Slot \ Used)
  <2>1. Offered \in Entry
    BY <1>3, OfferedIsEntry DEF AddEntry, NextEntry
  <2>2. routingTable' \in [Slot -> Entry \cup {Null}]
    <3>1. CASE freeEntries > 0 /\ Slot \ Used # {}
      BY <1>3, <2>1, <3>1, LeastOf DEF AddEntry, FillSlot
    <3>2. CASE ~(freeEntries > 0 /\ Slot \ Used # {})
      BY <1>3, <3>2 DEF AddEntry
    <3>3. QED
      BY <3>1, <3>2
  <2>3. reachbleTable' \in [Slot -> Record] /\ freeEntries' \in Int
    <3>1. CASE freeEntries > 0 /\ Slot \ Used # {}
      <4>1. j \in Slot
        BY <3>1, LeastOf
      <4>2. [chatName |-> Offered.chatName, reachable |-> TRUE] \in Record
        BY <2>1 DEF Record, Entry
      <4>3. /\ reachbleTable' = [reachbleTable EXCEPT ![j] = [chatName |-> Offered.chatName, reachable |-> TRUE]]
            /\ freeEntries' = freeEntries - 1
        BY <1>3, <3>1 DEF AddEntry, FillSlot
      <4>4. reachbleTable' \in [Slot -> Record]
        BY <4>1, <4>2, <4>3, Zenon
      <4>5. QED
        BY <4>3, <4>4
    <3>2. CASE ~(freeEntries > 0 /\ Slot \ Used # {})
      BY <1>3, <3>2 DEF AddEntry
    <3>3. QED
      BY <3>1, <3>2
  <2>4. QED
    BY <1>3, <2>2, <2>3 DEF AddEntry, NextEntry
<1>4. CASE RefreshEntry
  <2> DEFINE i == Least(SlotsOf(Offered.chatName))
  <2>1. Offered \in Entry
    BY <1>4, OfferedIsEntry DEF RefreshEntry, NextEntry
  <2>2. i \in Slot
    BY <1>4, LeastOf DEF RefreshEntry, SlotsOf
  <2>3. routingTable' \in [Slot -> Entry \cup {Null}]
    BY <1>4, <2>1, <2>2 DEF RefreshEntry
  <2>4. reachbleTable' \in [Slot -> Record]
    <3>1. [reachbleTable[i] EXCEPT !.reachable = TRUE] \in Record
      BY <2>2, RecordChanges
    <3>2. QED
      BY <1>4, <2>2, <3>1 DEF RefreshEntry
  <2>5. QED
    BY <1>4, <2>3, <2>4 DEF RefreshEntry, NextEntry
<1>5. CASE UpdateEnd
  <2>1. CASE Len(message) = 1
    BY <1>5, <2>1 DEF UpdateEnd
  <2>2. CASE Len(message) # 1
    <3>1. /\ pc' = [pc EXCEPT ![Server] = "cleanUp"] /\ pc[Server] = "entry"
          /\ entryIndex' = 1 /\ cleanSlot' = 0
          /\ UNCHANGED <<routingTable, reachbleTable, freeEntries, tableLock, message, victim, scanSlot>>
      BY <1>5, <2>2 DEF UpdateEnd
    <3>2. TypeOK'
      BY <3>1
    <3>3. Control'
      BY <3>1
    <3>4. QED
      BY <3>2, <3>3
  <2>3. QED
    BY <2>1, <2>2
<1>6. CASE CleanUpSlot
  <2> DEFINE r == reachbleTable[cleanSlot]
  <2>1. cleanSlot \in Slot /\ pc[Server] = "cleanUp" /\ r \in Record
    BY <1>6 DEF CleanUpSlot, Slot
  <2>2. CASE r.chatName = NoName
    BY <1>6, <2>1, <2>2 DEF CleanUpSlot
  <2>3. CASE r.chatName # NoName /\ r.reachable
    <3>1. reachbleTable' \in [Slot -> Record]
      <4>1. [r EXCEPT !.reachable = FALSE] \in Record
        BY <2>1, RecordChanges
      <4>2. QED
        BY <1>6, <2>1, <2>3, <4>1 DEF CleanUpSlot
    <3>2. QED
      BY <1>6, <2>1, <2>3, <3>1 DEF CleanUpSlot
  <2>4. CASE r.chatName # NoName /\ ~r.reachable
    <3>1. r.chatName \in Name \cup {NoName}
      BY <2>1 DEF Record
    <3>2. QED
      BY <1>6, <2>1, <2>4, <3>1 DEF CleanUpSlot
  <2>5. QED
    BY <2>2, <2>3, <2>4
<1>7. CASE Unreachable
  <2>1. cleanSlot \in Slot /\ cleanSlot + 1 \in 0 .. NumSlots
    BY <1>7 DEF Unreachable, Slot
  <2>2. reachbleTable' \in [Slot -> Record]
    BY <1>7, <2>1, RecordChanges DEF Unreachable
  <2>3. QED
    BY <1>7, <2>1, <2>2 DEF Unreachable
<1>8. CASE CleanUpEnd
  <2>1. <<>> \in Seq(Entry)
    OBVIOUS
  <2>2. QED
    BY <1>8, <2>1 DEF CleanUpEnd
<1>9. ASSUME NEW t \in Threads, GetRouting(t) PROVE TypeInv'
  BY <1>9 DEF GetRouting
<1>10. ASSUME NEW t \in Threads, GetRoutingLock(t) PROVE TypeInv'
  BY <1>10 DEF GetRoutingLock
<1>11. ASSUME NEW t \in Threads, GetRoutingReturn(t) PROVE TypeInv'
  <2>1. CASE pc[t] = "lookup" /\ Goto(t, "idle")
    BY <1>11, <2>1 DEF GetRoutingReturn
  <2>2. CASE pc[t] = "delLookup" /\ Goto(t, "delete")
    BY <1>11, <2>2 DEF GetRoutingReturn
  <2>3. QED
    BY <1>11, <2>1, <2>2 DEF GetRoutingReturn
<1>12. ASSUME NEW t \in Deleters, NEW n \in Name, DeleteFromTable(t, n) PROVE TypeInv'
  BY <1>12 DEF DeleteFromTable
<1>13. ASSUME NEW t \in Deleters, DeleteLock(t) PROVE TypeInv'
  BY <1>13 DEF DeleteLock
<1>14. ASSUME NEW t \in Deleters, DeleteScan(t) PROVE TypeInv'
  <2>1. pc[t] = "scan" /\ scanSlot[t] < NumSlots /\ scanSlot[t] \in 0 .. NumSlots
    BY <1>14 DEF DeleteScan
  <2>2. CASE Goto(t, "remove") /\ UNCHANGED scanSlot
    BY <1>14, <2>1, <2>2 DEF DeleteScan
  <2>3. CASE scanSlot' = [scanSlot EXCEPT ![t] = @ + 1] /\ UNCHANGED pc
    BY <1>14, <2>1, <2>3 DEF DeleteScan
  <2>4. QED
    BY <1>14, <2>2, <2>3 DEF DeleteScan
<1>15. ASSUME NEW t \in Deleters, DeleteRemove(t) PROVE TypeInv'
  <2>1. scanSlot[t] \in Slot /\ scanSlot[t] + 1 \in 0 .. NumSlots
    BY <1>15 DEF DeleteRemove, Slot
  <2>2. routingTable' \in [Slot -> Entry \cup {Null}]
    BY <1>15, <2>1 DEF DeleteRemove
  <2>3. reachbleTable' \in [Slot -> Record]
    BY <1>15, <2>1, RecordChanges DEF DeleteRemove
  <2>4. QED
    BY <1>15, <2>1, <2>2, <2>3 DEF DeleteRemove
<1>16. ASSUME NEW t \in Deleters, DeleteReturn(t) PROVE TypeInv'
  <2>1. CASE t = Server /\ cleanSlot < NumSlots
    BY <1>16, <2>1 DEF DeleteReturn
  <2>2. CASE ~(t = Server /\ cleanSlot < NumSlots)
    BY <1>16, <2>2 DEF DeleteReturn
  <2>3. QED
    BY <2>1, <2>2
<1>17. CASE UNCHANGED vars
  BY <1>17 DEF vars
<1>18. ASSUME NEW n \in Name, Login(n) PROVE TypeInv'
  <2>1. <<LoginEntry(n)>> \in Seq(Entry)
    BY LoginIsEntry
  <2>2. QED
    BY <1>1, <1>18, <2>1 DEF Login
<1>19. ASSUME NEW m \in Routes, TableUpdate(m) PROVE TypeInv'
  BY <1>1, <1>19, RoutesAssumption DEF Announces
<1>20. ASSUME Call PROVE TypeInv'
  BY <1>9, <1>12, <1>18, <1>19, <1>20 DEF Call, Logout, HeartBeatTimeout
<1>21. ASSUME NEW t \in Threads, Step(t) PROVE TypeInv'
  BY <1>2, <1>3, <1>4, <1>5, <1>6, <1>7, <1>8, <1>10, <1>11, <1>13, <1>14, <1>15,
     <1>16, <1>21 DEF Step, ServerStep, DeleteStep, GetRoutingStep
<1>22. QED
  BY <1>17, <1>20, <1>21 DEF Next

\* Types of the variables, for every reachable state.
THEOREM TypeCorrect == Spec => []TypeOK
<1>1. TypeInv => TypeOK
  BY DEF TypeInv
<1>2. QED
  BY TypeInit, TypeNext, <1>1, PTL DEF Spec

-----------------------------------------------------------------------------
(***************************************************************************)
(* The table: names, records, the own entry and the hop counts.            *)
(***************************************************************************)
LEMMA TableInit == Init => TableInv
<1> SUFFICES ASSUME Init PROVE TableInv
  OBVIOUS
<1>1. /\ \A i \in Slot : routingTable[i] = IF i = 0 THEN LoginEntry(Own) ELSE Null
      /\ \A i \in Slot : reachbleTable[i].chatName = IF i = 0 THEN Own ELSE NoName
  BY DEF Init
<1>2. /\ 0 \in Slot
      /\ Used \subseteq {0}
      /\ LoginEntry(Own).chatName = Own
  BY <1>1, SizesAssumption DEF Slot, Used, LoginEntry
<1>3. QED
  BY <1>1, <1>2, NamesAssumption
     DEF TableInv, UniqueNames, RecordsMatch, OwnEntryKept, DirectIffOneHop, OwnRecord, Used

LEMMA TableNext == IInv /\ [Next]_vars => TableInv'
<1> SUFFICES ASSUME IInv, [Next]_vars PROVE TableInv'
  OBVIOUS
<1> USE DEF TableInv, UniqueNames, RecordsMatch, OwnEntryKept, DirectIffOneHop, OwnRecord
<1>t. TypeOK /\ TypeInv /\ TableInv /\ ThreadInv
  BY DEF IInv, TypeInv
<1>0. 0 \in Slot
  BY SizesAssumption DEF Slot
<1>1. ASSUME UNCHANGED routingTable, \A i \in Slot : reachbleTable'[i].chatName = reachbleTable[i].chatName
      PROVE  TableInv'
  BY <1>t, <1>1 DEF Used
<1>2. CASE AddEntry
  <2>1. CASE ~(freeEntries > 0 /\ Slot \ Used # {})
    BY <1>1, <1>2, <2>1 DEF AddEntry, tables
  <2>2. CASE freeEntries > 0 /\ Slot \ Used # {}
    <3> DEFINE j == Least(Slot \ Used)
    <3>1. j \in Slot /\ routingTable[j] = Null
      BY <2>2, LeastOf DEF Used
    <3>2. PICK e \in Entry : /\ e = Offered
                             /\ e.chatName = message[entryIndex].chatName
                             /\ e.nextChatName = message[entryIndex].nextChatName
                             /\ e.hopCount = message[entryIndex].hopCount + 1
                             /\ entryIndex \in DOMAIN message
                             /\ message[entryIndex].hopCount \in Nat
      BY <1>t, <1>2, OfferedIsEntry, EntryNotNull DEF AddEntry, NextEntry
    <3>3. PICK k \in Slot : /\ routingTable[k] = Null
                            /\ \A i \in Slot : routingTable'[i] = IF i = k THEN e ELSE routingTable[i]
                            /\ \A i \in Slot : reachbleTable'[i].chatName =
                                                 IF i = k THEN e.chatName ELSE reachbleTable[i].chatName
      <4>1. /\ routingTable' = [routingTable EXCEPT ![j] = e]
            /\ reachbleTable' = [reachbleTable EXCEPT ![j] = [chatName |-> e.chatName, reachable |-> TRUE]]
        BY <1>2, <2>2, <3>2 DEF AddEntry, FillSlot
      <4>2. QED
        BY <1>t, <3>1, <4>1 DEF TypeOK
    <3>4. \A i \in Used : routingTable[i].chatName # e.chatName
      BY <1>t, <1>2, <3>2 DEF AddEntry, SlotsOf, Used
    <3>5. Used' = Used \cup {k} /\ k \notin Used /\ e # Null
      BY <3>3, EntryNotNull DEF Used
    <3>6. e.chatName # Own /\ k # 0
      BY <1>t, <1>0, <3>3, <3>4, <3>5, EntryNotNull, LoginIsEntry, NamesAssumption DEF LoginEntry, Used
    <3>7. DirectIffOneHop'
      <4>1. /\ e.hopCount > 0
            /\ e.hopCount = 1 <=> e.nextChatName = e.chatName
            /\ e.nextChatName # Own
        BY <1>t, <3>2, <3>6 DEF ThreadInv, Merging, Direct
      <4>2. QED
        BY <1>t, <3>3, <3>5, <4>1 DEF Used
    <3>8. QED
      BY <1>t, <1>0, <3>3, <3>4, <3>5, <3>6, <3>7 DEF Used
  <2>3. QED
    BY <2>1, <2>2
<1>3. CASE RefreshEntry
  <2> DEFINE i == Least(SlotsOf(Offered.chatName))
  <2>1. /\ Offered \in Entry
        /\ Offered.nextChatName = message[entryIndex].nextChatName
        /\ Offered.hopCount = message[entryIndex].hopCount + 1
        /\ Offered.chatName = message[entryIndex].chatName
        /\ entryIndex \in DOMAIN message
        /\ message[entryIndex] \in Entry
    BY <1>t, <1>3, OfferedIsEntry DEF RefreshEntry, NextEntry
  <2>2. i \in Slot /\ i \in Used /\ routingTable[i].chatName = Offered.chatName
    <3>1. i \in SlotsOf(Offered.chatName)
      BY <1>3, LeastOf DEF RefreshEntry, SlotsOf
    <3>2. QED
      BY <1>t, <2>1, <3>1, SlotsOfName, EntryNotNull
  <2>3. \A k \in Slot : reachbleTable'[k].chatName = reachbleTable[k].chatName
    BY <1>t, <1>3, <2>2 DEF RefreshEntry, TypeOK, Record
  <2>4. CASE ~Shorter(Offered, i)
    BY <1>1, <1>3, <2>3, <2>4 DEF RefreshEntry
  <2>5. CASE Shorter(Offered, i)
    <3>1. PICK e \in Entry : /\ e.chatName = routingTable[i].chatName
                             /\ e.chatName = message[entryIndex].chatName
                             /\ e.nextChatName = message[entryIndex].nextChatName
                             /\ e.hopCount = message[entryIndex].hopCount + 1
                             /\ routingTable' = [routingTable EXCEPT ![i] = e]
                             /\ routingTable[i].hopCount > e.hopCount
      BY <1>3, <2>1, <2>2, <2>5 DEF RefreshEntry, Shorter
    <3>2. PICK k \in Slot : /\ k \in Used
                            /\ e.chatName = routingTable[k].chatName
                            /\ routingTable[k].hopCount > e.hopCount
                            /\ \A l \in Slot : routingTable'[l] = IF l = k THEN e ELSE routingTable[l]
      BY <1>t, <2>2, <3>1 DEF TypeOK
    <3>3. Used' = Used
      BY <3>2, EntryNotNull DEF Used
    <3>4. k # 0 /\ e.chatName # Own
      <4>1. e.hopCount \in Nat /\ LoginEntry(Own).hopCount = 0 /\ LoginEntry(Own).chatName = Own
        BY EntryNotNull DEF LoginEntry
      <4>2. 0 \in Used
        BY <1>t, <1>0, LoginIsEntry, EntryNotNull, NamesAssumption DEF Used
      <4>3. QED
        BY <1>t, <3>2, <4>1, <4>2
    <3>5. /\ e.hopCount > 0
          /\ e.hopCount = 1 <=> e.nextChatName = e.chatName
          /\ e.nextChatName # Own
      BY <1>t, <2>1, <3>1, <3>4, EntryNotNull DEF ThreadInv, Merging, Direct
    <3>6. DirectIffOneHop'
      BY <1>t, <3>2, <3>3, <3>5 DEF Used
    <3>7. UniqueNames' /\ RecordsMatch' /\ OwnEntryKept' /\ OwnRecord'
      BY <1>t, <1>0, <2>3, <3>2, <3>3, <3>4 DEF Used
    <3>8. QED
      BY <3>6, <3>7
  <2>6. QED
    BY <2>4, <2>5
<1>4. CASE CleanUpSlot
  BY <1>t, <1>1, <1>4 DEF CleanUpSlot, TypeOK, Record
<1>5. CASE Unreachable
  <2>1. /\ cleanSlot \in Slot /\ routingTable[cleanSlot] = Null
        /\ UNCHANGED routingTable
        /\ \A i \in Slot : reachbleTable'[i].chatName =
                             IF i = cleanSlot THEN NoName ELSE reachbleTable[i].chatName
    BY <1>t, <1>5, SizesAssumption
       DEF Unreachable, ThreadInv, Cleaning, TypeInv, TypeOK, Control, Record, Slot
  <2>2. QED
    BY <1>t, <2>1, NamesAssumption DEF Used
<1>6. ASSUME NEW t \in Deleters, DeleteRemove(t) PROVE TableInv'
  <2> DEFINE s == scanSlot[t]
  <2>1. /\ s \in Slot /\ s # 0
        /\ \A i \in Slot : routingTable'[i] = IF i = s THEN Null ELSE routingTable[i]
        /\ \A i \in Slot : reachbleTable'[i].chatName = reachbleTable[i].chatName
    BY <1>t, <1>6, SizesAssumption
       DEF DeleteRemove, ThreadInv, OthersDeleted, TypeInv, TypeOK, Control, Record, Slot
  <2>2. Used' = Used \ {s}
    BY <2>1 DEF Used
  <2>3. QED
    BY <1>t, <1>0, <2>1, <2>2 DEF Used
<1>7. ASSUME UNCHANGED tables PROVE TableInv'
  BY <1>1, <1>7 DEF tables
<1>8. ASSUME Call PROVE TableInv'
  BY <1>7, <1>8 DEF Call, Login, TableUpdate, Logout, HeartBeatTimeout, DeleteFromTable, GetRouting
<1>9. ASSUME NEW t \in Threads, Step(t) PROVE TableInv'
  <2>1. CASE ServerStep
    BY <1>2, <1>3, <1>4, <1>5, <1>7, <2>1 DEF ServerStep, UpdateLock, UpdateEnd, CleanUpEnd
  <2>2. CASE t \in Deleters /\ DeleteStep(t)
    BY <1>6, <1>7, <2>2 DEF DeleteStep, DeleteLock, DeleteScan, DeleteReturn
  <2>3. CASE GetRoutingStep(t)
    BY <1>7, <2>3 DEF GetRoutingStep, GetRoutingLock, GetRoutingReturn
  <2>4. QED
    BY <1>9, <2>1, <2>2, <2>3 DEF Step
<1>10. QED
  BY <1>7, <1>8, <1>9 DEF Next, vars

-----------------------------------------------------------------------------
(***************************************************************************)
(* The threads: what is deleted, what is merged, how far cleanUp is.       *)
(***************************************************************************)
LEMMA ThreadInit == Init => ThreadInv
<1> SUFFICES ASSUME Init PROVE ThreadInv
  OBVIOUS
<1>1. /\ \A t \in Deleters : victim[t] = NoName /\ pc[t] = "idle"
      /\ pc[Server] = "idle" /\ cleanSlot = NumSlots
  BY ServerIsThread DEF Init
<1>2. message = <<>>
  BY DEF Init
<1>3. OthersDeleted
  BY <1>1, NamesAssumption DEF OthersDeleted
<1>4. Merging
  BY <1>1, <1>2 DEF Merging, Direct, NamesOwn
<1>5. Cleaning
  BY <1>1, SizesAssumption DEF Cleaning
<1>6. QED
  BY <1>3, <1>4, <1>5 DEF ThreadInv

\* Slot 0 is marked as long as nobody removes its entry.
LEMMA MarkKept ==
  ASSUME IInv, NEW t \in Deleters, DeleteRemove(t)
  PROVE  /\ reachbleTable'[0].reachable = reachbleTable[0].reachable
         /\ \A i \in Slot : reachbleTable'[i].chatName = reachbleTable[i].chatName
         /\ \A i \in Slot : routingTable[i] = Null => routingTable'[i] = Null
         /\ routingTable'[scanSlot[t]] = Null
<1>1. /\ scanSlot[t] \in Slot /\ scanSlot[t] # 0 /\ 0 \in Slot
      /\ routingTable \in [Slot -> Entry \cup {Null}]
      /\ reachbleTable \in [Slot -> Record]
  BY SizesAssumption
     DEF IInv, TypeInv, TypeOK, Control, ThreadInv, OthersDeleted, DeleteRemove, Slot
<1>2. QED
  BY <1>1 DEF DeleteRemove, Record

\* Only the thread that takes a step changes its label.
LEMMA LabelsKept ==
  ASSUME TypeOK, NEW t \in Threads, NEW l, Goto(t, l)
  PROVE  pc'[t] = l /\ \A u \in Threads \ {t} : pc'[u] = pc[u]
  BY DEF TypeOK, Goto

LEMMA OthersDeletedNext == IInv /\ [Next]_vars => OthersDeleted'
<1> SUFFICES ASSUME IInv, [Next]_vars PROVE OthersDeleted'
  OBVIOUS
<1> USE ServerIsThread DEF OthersDeleted
<1>t. /\ TypeOK /\ Control /\ OthersDeleted /\ Cleaning /\ OwnEntryKept /\ OwnRecord
      /\ pc \in [Threads -> Labels] /\ victim \in [Deleters -> Name \cup {NoName}]
      /\ scanSlot \in [Deleters -> 0 .. NumSlots]
  BY DEF IInv, TypeInv, TypeOK, TableInv, ThreadInv
<1>1. ASSUME UNCHANGED <<victim, scanSlot>>,
             NEW t \in Threads, NEW l \in Labels \ {"remove"}, Goto(t, l) \/ UNCHANGED pc
      PROVE  OthersDeleted'
  BY <1>t, <1>1 DEF Goto
<1>2. ASSUME NEW t \in Deleters, NEW n \in Name \ {Own}, DeleteFromTable(t, n) PROVE OthersDeleted'
  BY <1>t, <1>2 DEF DeleteFromTable, Goto
<1>3. CASE CleanUpSlot
  <2>1. \/ UNCHANGED <<pc, victim, scanSlot>>
        \/ /\ pc' = [pc EXCEPT ![Server] = "delRoute"]
           /\ victim' = [victim EXCEPT ![Server] = reachbleTable[cleanSlot].chatName]
           /\ UNCHANGED scanSlot
           /\ ~reachbleTable[cleanSlot].reachable
    BY <1>3 DEF CleanUpSlot, Goto
  <2>2. cleanSlot \in Slot
    BY <1>t, <1>3, SizesAssumption DEF CleanUpSlot, TypeOK, Slot
  <2>3. ~reachbleTable[cleanSlot].reachable => reachbleTable[cleanSlot].chatName # Own
    BY <1>t, <2>2 DEF Cleaning, OwnRecord
  <2>4. QED
    BY <1>t, <2>1, <2>3
<1>4. ASSUME NEW t \in Deleters, DeleteScan(t) PROVE OthersDeleted'
  <2>1. CASE /\ victim[t] \in {routingTable[scanSlot[t]].chatName, routingTable[scanSlot[t]].nextChatName}
             /\ Goto(t, "remove") /\ UNCHANGED <<victim, scanSlot>>
    <3>1. scanSlot[t] # 0
      BY <1>t, <2>1 DEF OwnEntryKept, LoginEntry
    <3>2. QED
      BY <1>t, <2>1, <3>1 DEF Goto
  <2>2. CASE UNCHANGED <<pc, victim>> /\ pc[t] = "scan" /\ scanSlot' = [scanSlot EXCEPT ![t] = @ + 1]
    BY <1>t, <2>2
  <2>3. QED
    BY <1>4, <2>1, <2>2 DEF DeleteScan
<1>5. ASSUME NEW t \in Deleters, DeleteRemove(t) PROVE OthersDeleted'
  BY <1>t, <1>5 DEF DeleteRemove, Goto
<1>6. ASSUME NEW t \in Deleters, DeleteReturn(t) PROVE OthersDeleted'
  <2>1. PICK l \in {"unreachable", "idle"} : Goto(t, l)
    BY <1>6 DEF DeleteReturn
  <2>2. QED
    BY <1>t, <1>6, <2>1, NamesAssumption DEF DeleteReturn, Goto
<1>7. ASSUME Call PROVE OthersDeleted'
  BY <1>1, <1>2, <1>7
     DEF Call, Login, TableUpdate, Logout, HeartBeatTimeout, GetRouting, deleteLocals, Labels
<1>8. CASE ServerStep
  BY <1>1, <1>3, <1>8
     DEF ServerStep, UpdateLock, AddEntry, RefreshEntry, NextEntry, UpdateEnd, Unreachable,
         CleanUpEnd, deleteLocals, Labels
<1>9. ASSUME NEW t \in Threads, Step(t) PROVE OthersDeleted'
  BY <1>1, <1>4, <1>5, <1>6, <1>8, <1>9
     DEF Step, DeleteStep, DeleteLock, GetRoutingStep, GetRoutingLock, GetRoutingReturn,
         deleteLocals, Labels
<1>10. QED
  BY <1>1, <1>7, <1>8, <1>9 DEF Next, vars, deleteLocals, Labels

\* Every announcement, and every login, is something that can be merged.
LEMMA Mergeable ==
  ASSUME NEW m, m \in Routes \/ \E n \in Name : m = <<LoginEntry(n)>>
  PROVE  Direct(m) /\ NamesOwn(m)
<1>1. CASE m \in Routes
  <2>1. PICK x \in Name \ {Own} : Announces(m, x)
    BY <1>1, RoutesAssumption
  <2>2. Len(m) \in Nat /\ Len(m) > 0
    BY <2>1 DEF Announces
  <2>3. Direct(m)
    BY <2>1, Zenon DEF Announces, Direct
  <2>4. NamesOwn(m)
    <3>1. Len(m) > 1 => \E k \in DOMAIN m : m[k].chatName = Own
      BY <2>1 DEF Announces
    <3>2. Len(m) # 1 => Len(m) > 1
      <4>1. \A n \in Nat : n > 0 /\ n # 1 => n > 1
        OBVIOUS
      <4>2. QED
        BY <2>2, <4>1, Zenon
    <3>3. QED
      BY <3>1, <3>2, Zenon DEF NamesOwn
  <2>5. QED
    BY <2>3, <2>4
<1>2. ASSUME NEW n \in Name, m = <<LoginEntry(n)>> PROVE Direct(m) /\ NamesOwn(m)
  <2>1. Len(m) = 1 /\ DOMAIN m = {1} /\ m[1] = LoginEntry(n)
    BY <1>2
  <2>2. QED
    BY <2>1 DEF LoginEntry, Direct, NamesOwn
<1>3. QED
  BY <1>1, <1>2

LEMMA MergingNext == IInv /\ [Next]_vars => Merging'
<1> SUFFICES ASSUME IInv, [Next]_vars PROVE Merging'
  OBVIOUS
<1> USE ServerIsThread
<1>t. /\ TypeOK /\ Control /\ Merging /\ TableInv
      /\ pc \in [Threads -> Labels] /\ pc[Server] # "entry" => entryIndex = 1
      /\ message \in Seq(Entry) /\ entryIndex \in Nat \ {0}
  BY DEF IInv, TypeInv, TypeOK, Control, ThreadInv
<1>0. /\ 0 \in Slot /\ 0 \in Used
      /\ routingTable \in [Slot -> Entry \cup {Null}]
      /\ reachbleTable \in [Slot -> Record]
  BY <1>t, SizesAssumption, LoginIsEntry, EntryNotNull, NamesAssumption
     DEF Slot, TypeOK, TableInv, OwnEntryKept, Used
<1>1. ASSUME UNCHANGED <<message, entryIndex>>,
             pc'[Server] = "entry" => pc[Server] = "entry" /\ reachbleTable'[0].reachable = reachbleTable[0].reachable,
             pc'[Server] = "update" => pc[Server] = "update"
      PROVE  Merging'
  BY <1>t, <1>1 DEF Merging
<1>2. ASSUME message' = <<>>, pc'[Server] \notin {"update", "entry"} PROVE Merging'
  BY <1>2 DEF Merging, Direct
<1>3. ASSUME NEW m, m \in Routes \/ \E n \in Name : m = <<LoginEntry(n)>>, TableUpdate(m)
      PROVE  Merging'
  BY <1>t, <1>3, Mergeable, LabelsKept DEF Merging, NamesOwn, TableUpdate
<1>4. CASE UpdateLock
  <2>1. pc[Server] = "update" /\ entryIndex = 1 /\ UNCHANGED <<message, entryIndex>>
    BY <1>t, <1>4 DEF UpdateLock, updateLocals, Control
  <2>2. QED
    BY <1>t, <2>1 DEF Merging
<1>5. ASSUME NextEntry,
             reachbleTable[0].reachable => reachbleTable'[0].reachable,
             message[entryIndex].chatName = Own => reachbleTable'[0].reachable
      PROVE  Merging'
  BY <1>t, <1>5 DEF Merging, NextEntry
<1>6. CASE AddEntry
  <2>1. message[entryIndex].chatName # Own
    <3>1. Offered.chatName = message[entryIndex].chatName /\ Offered.chatName \in Name
      BY <1>t, <1>6, OfferedIsEntry, EntryNotNull DEF AddEntry, NextEntry
    <3>2. 0 \notin SlotsOf(Offered.chatName)
      BY <1>6 DEF AddEntry
    <3>3. routingTable[0].chatName = Own
      BY <1>t DEF TableInv, OwnEntryKept, LoginEntry
    <3>4. QED
      BY <1>0, <3>1, <3>2, <3>3 DEF SlotsOf
  <2>2. reachbleTable'[0].reachable = reachbleTable[0].reachable
    <3>1. CASE freeEntries > 0 /\ Slot \ Used # {}
      <4>1. PICK j \in Slot \ Used : FillSlot(j, Offered)
        BY <1>6, <3>1, LeastOf DEF AddEntry
      <4>2. QED
        BY <1>0, <4>1 DEF FillSlot
    <3>2. CASE ~(freeEntries > 0 /\ Slot \ Used # {})
      BY <1>6, <3>2 DEF AddEntry, tables
    <3>3. QED
      BY <3>1, <3>2
  <2>3. QED
    BY <1>5, <1>6, <2>1, <2>2 DEF AddEntry
<1>7. CASE RefreshEntry
  <2> DEFINE i == Least(SlotsOf(Offered.chatName))
  <2>1. reachbleTable' = [reachbleTable EXCEPT ![i].reachable = TRUE]
    BY <1>7 DEF RefreshEntry
  <2>2. Offered.chatName = message[entryIndex].chatName
    BY <1>t, <1>7, OfferedIsEntry DEF RefreshEntry, NextEntry
  <2>3. i \in SlotsOf(Offered.chatName) /\ i \in Slot
    BY <1>7, LeastOf DEF RefreshEntry, SlotsOf
  <2>4. message[entryIndex].chatName = Own => i = 0
    BY <1>t, <1>0, <2>2, <2>3, SlotsOfName, NamesAssumption
       DEF TableInv, OwnEntryKept, LoginEntry, UniqueNames
  <2>5. QED
    BY <1>0, <1>5, <1>7, <2>1, <2>3, <2>4 DEF RefreshEntry, Record
<1>8. CASE UpdateEnd
  <2>1. CASE Len(message) = 1
    BY <1>t, <1>2, <1>8, <2>1, LabelsKept DEF UpdateEnd
  <2>2. CASE Len(message) # 1
    <3>1. Goto(Server, "cleanUp") /\ UNCHANGED message
      BY <1>8, <2>2 DEF UpdateEnd
    <3>2. pc'[Server] = "cleanUp"
      BY <1>t, <3>1, LabelsKept
    <3>3. QED
      BY <1>t, <3>1, <3>2 DEF Merging
  <2>3. QED
    BY <2>1, <2>2
<1>9. CASE CleanUpSlot
  <2>1. UNCHANGED <<message, entryIndex>> /\ (UNCHANGED pc \/ Goto(Server, "delRoute")) /\ pc[Server] = "cleanUp"
    BY <1>9 DEF CleanUpSlot
  <2>2. QED
    BY <1>t, <1>1, <2>1, LabelsKept
<1>10. CASE Unreachable
  BY <1>t, <1>1, <1>10, LabelsKept DEF Unreachable
<1>11. CASE CleanUpEnd
  BY <1>t, <1>2, <1>11, LabelsKept DEF CleanUpEnd
<1>12. ASSUME UNCHANGED <<message, entryIndex, reachbleTable>>, NEW t \in Threads,
              NEW l \in Labels \ {"update", "entry"}, Goto(t, l)
       PROVE  Merging'
  <2>1. pc'[Server] = l \/ pc'[Server] = pc[Server]
    BY <1>t, <1>12, LabelsKept
  <2>2. QED
    BY <1>1, <1>12, <2>1
<1>13. ASSUME NEW t \in Deleters, DeleteStep(t) PROVE Merging'
  <2>1. CASE DeleteRemove(t)
    <3>1. UNCHANGED <<message, entryIndex>> /\ Goto(t, "scan")
      BY <2>1 DEF DeleteRemove, updateLocals
    <3>2. pc'[Server] = "scan" \/ pc'[Server] = pc[Server]
      BY <1>t, <3>1, LabelsKept
    <3>3. QED
      BY <1>1, <2>1, <3>1, <3>2, MarkKept
  <2>2. CASE DeleteScan(t)
    <3>1. /\ UNCHANGED <<message, entryIndex, reachbleTable>>
          /\ Goto(t, "remove") \/ UNCHANGED pc
      BY <2>2 DEF DeleteScan, updateLocals, tables
    <3>2. QED
      BY <1>1, <1>12, <3>1 DEF Labels
  <2>3. CASE DeleteReturn(t)
    <3>1. PICK l \in {"unreachable", "idle"} : Goto(t, l)
      BY <2>3 DEF DeleteReturn
    <3>2. QED
      BY <1>12, <2>3, <3>1 DEF DeleteReturn, updateLocals, tables, Labels
  <2>4. CASE DeleteLock(t)
    BY <1>12, <2>4 DEF DeleteLock, updateLocals, tables, Labels
  <2>5. QED
    BY <1>13, <2>1, <2>2, <2>3, <2>4 DEF DeleteStep
<1>14. ASSUME Call PROVE Merging'
  BY <1>3, <1>12, <1>14
     DEF Call, Login, Logout, HeartBeatTimeout, DeleteFromTable, GetRouting, updateLocals, tables, Labels
<1>15. ASSUME NEW t \in Threads, Step(t) PROVE Merging'
  BY <1>4, <1>6, <1>7, <1>8, <1>9, <1>10, <1>11, <1>12, <1>13, <1>15
     DEF Step, ServerStep, GetRoutingStep, GetRoutingLock, GetRoutingReturn, updateLocals, tables, Labels
<1>16. QED
  BY <1>1, <1>14, <1>15 DEF Next, vars, updateLocals, tables

LEMMA CleaningNext == IInv /\ [Next]_vars => Cleaning'
<1> SUFFICES ASSUME IInv, [Next]_vars PROVE Cleaning'
  OBVIOUS
<1> USE ServerIsThread, SizesAssumption
<1>t. /\ TypeOK /\ Control /\ Cleaning /\ TableInv /\ Merging
      /\ pc \in [Threads -> Labels] /\ cleanSlot \in 0 .. NumSlots
      /\ victim \in [Deleters -> Name \cup {NoName}]
      /\ scanSlot \in [Deleters -> 0 .. NumSlots]
      /\ message \in Seq(Entry) /\ entryIndex \in Nat \ {0}
      /\ routingTable \in [Slot -> Entry \cup {Null}] /\ reachbleTable \in [Slot -> Record]
  BY DEF IInv, TypeInv, TypeOK, ThreadInv
<1>0. 0 \in Slot
  BY DEF Slot
<1>1. ASSUME cleanSlot = NumSlots, cleanSlot' = NumSlots, pc'[Server] # "unreachable"
      PROVE  Cleaning'
  BY <1>1 DEF Cleaning
<1>2. ASSUME UNCHANGED <<routingTable, reachbleTable, cleanSlot>>, pc'[Server] = pc[Server],
             victim'[Server] = victim[Server], scanSlot'[Server] = scanSlot[Server]
      PROVE  Cleaning'
  BY <1>t, <1>2 DEF Cleaning
<1>3. ASSUME pc[Server] \in {"idle", "route", "lookup", "update", "entry"} PROVE cleanSlot = NumSlots
  BY <1>t, <1>3 DEF Control, Deleting
<1>4. ASSUME NEW m, TableUpdate(m) PROVE Cleaning'
  BY <1>t, <1>1, <1>3, <1>4, LabelsKept DEF TableUpdate
<1>5. CASE UpdateLock
  BY <1>t, <1>1, <1>3, <1>5, LabelsKept DEF UpdateLock, updateLocals
<1>6. CASE AddEntry \/ RefreshEntry
  BY <1>t, <1>1, <1>3, <1>6 DEF AddEntry, RefreshEntry, NextEntry
<1>7. CASE UpdateEnd
  <2>1. CASE Len(message) = 1
    BY <1>t, <1>1, <1>3, <1>7, <2>1, LabelsKept DEF UpdateEnd
  <2>2. CASE Len(message) # 1
    <3>1. /\ pc[Server] = "entry" /\ Goto(Server, "cleanUp") /\ cleanSlot' = 0
          /\ entryIndex > Len(message) /\ UNCHANGED reachbleTable
      BY <1>7, <2>2 DEF UpdateEnd, tables
    <3>2. pc'[Server] = "cleanUp"
      BY <1>t, <3>1, LabelsKept
    <3>3. PICK k \in DOMAIN message : message[k].chatName = Own
      BY <1>t, <2>2, <3>1 DEF Merging, NamesOwn
    <3>4. k < entryIndex
      BY <1>t, <3>1
    <3>5. reachbleTable'[0].reachable
      BY <1>t, <3>1, <3>3, <3>4 DEF Merging
    <3>6. QED
      BY <3>1, <3>2, <3>5 DEF Cleaning, Deleting
  <2>3. QED
    BY <2>1, <2>2
<1>8. CASE CleanUpSlot
  <2> DEFINE r == reachbleTable[cleanSlot]
  <2>1. cleanSlot \in Slot /\ pc[Server] = "cleanUp"
    BY <1>t, <1>8 DEF CleanUpSlot, Slot
  <2>2. CASE cleanSlot' = cleanSlot + 1 /\ UNCHANGED pc
    BY <1>t, <2>1, <2>2 DEF Cleaning, Deleting
  <2>3. CASE /\ ~r.reachable /\ Goto(Server, "delRoute")
             /\ victim' = [victim EXCEPT ![Server] = r.chatName]
             /\ UNCHANGED <<reachbleTable, cleanSlot, scanSlot>>
    <3>1. pc'[Server] = "delRoute" /\ victim'[Server] = r.chatName /\ scanSlot'[Server] = 0
      BY <1>t, <2>1, <2>3, LabelsKept DEF Control
    <3>2. cleanSlot # 0 /\ cleanSlot \in Nat
      BY <1>t, <2>3 DEF Cleaning
    <3>3. QED
      BY <2>3, <3>1, <3>2 DEF Cleaning
  <2>4. QED
    BY <1>8, <2>2, <2>3 DEF CleanUpSlot
<1>9. CASE Unreachable
  <2>1. cleanSlot' = cleanSlot + 1 /\ Goto(Server, "cleanUp")
    BY <1>9 DEF Unreachable
  <2>2. pc'[Server] = "cleanUp"
    BY <1>t, <2>1, LabelsKept
  <2>3. QED
    BY <1>t, <2>1, <2>2 DEF Cleaning, Deleting
<1>10. CASE CleanUpEnd
  BY <1>t, <1>1, <1>10, LabelsKept DEF CleanUpEnd
<1>11. ASSUME NEW n, DeleteFromTable(Server, n) PROVE Cleaning'
  BY <1>t, <1>1, <1>3, <1>11, LabelsKept DEF DeleteFromTable, updateLocals
<1>12. ASSUME NEW n, DeleteFromTable(HeartBeat, n) PROVE Cleaning'
  BY <1>t, <1>2, <1>12, LabelsKept DEF DeleteFromTable, updateLocals, tables
<1>13. ASSUME NEW t \in Threads \ {Server}, NEW l, Goto(t, l), scanSlot'[Server] = scanSlot[Server],
              victim'[Server] = victim[Server], UNCHANGED <<tables, updateLocals>>
       PROVE  Cleaning'
  BY <1>t, <1>2, <1>13, LabelsKept DEF tables, updateLocals
<1>14. ASSUME pc[Server] \in Deleting, NEW l \in Deleting, Goto(Server, l),
              UNCHANGED <<tables, updateLocals, deleteLocals>>
       PROVE  Cleaning'
  <2>1. pc'[Server] = l
    BY <1>t, <1>14, LabelsKept
  <2>2. QED
    BY <1>t, <1>14, <2>1 DEF Cleaning, Deleting, tables, updateLocals, deleteLocals
<1>15. ASSUME NEW t \in Threads, GetRouting(t) \/ GetRoutingStep(t) PROVE Cleaning'
  <2>1. CASE t # Server
    BY <1>13, <1>15, <2>1
       DEF GetRouting, GetRoutingStep, GetRoutingLock, GetRoutingReturn, deleteLocals
  <2>2. CASE t = Server
    <3>1. PICK l : /\ Goto(Server, l) /\ UNCHANGED <<tables, updateLocals, deleteLocals>>
                   /\ \/ pc[Server] \in {"idle", "route", "lookup"} /\ l \in {"route", "lookup", "idle"}
                      \/ pc[Server] \in Deleting /\ l \in Deleting
      BY <1>15, <2>2 DEF GetRouting, GetRoutingStep, GetRoutingLock, GetRoutingReturn, Deleting
    <3>2. CASE pc[Server] \in {"idle", "route", "lookup"} /\ l \in {"route", "lookup", "idle"}
      <4>1. pc'[Server] # "unreachable" /\ cleanSlot = NumSlots /\ cleanSlot' = NumSlots
        BY <1>t, <1>3, <3>1, <3>2, LabelsKept DEF updateLocals
      <4>2. QED
        BY <1>1, <4>1
    <3>3. QED
      BY <1>14, <3>1, <3>2
  <2>3. QED
    BY <2>1, <2>2
<1>16. ASSUME NEW t \in Deleters, DeleteLock(t) PROVE Cleaning'
  BY <1>13, <1>14, <1>16 DEF DeleteLock, Deleting, deleteLocals
<1>17. ASSUME NEW t \in Deleters, DeleteScan(t) PROVE Cleaning'
  <2>1. CASE t # Server
    BY <1>t, <1>2, <1>17, <2>1, LabelsKept DEF DeleteScan, tables, updateLocals
  <2>2. CASE t = Server /\ Goto(Server, "remove") /\ UNCHANGED <<victim, scanSlot>>
    BY <1>14, <1>17, <2>2 DEF DeleteScan, Deleting, deleteLocals
  <2>3. CASE /\ t = Server /\ UNCHANGED <<pc, victim, tables, updateLocals>>
             /\ victim[Server] # routingTable[scanSlot[Server]].chatName
             /\ scanSlot' = [scanSlot EXCEPT ![Server] = @ + 1]
    <3>1. pc[Server] = "scan" /\ scanSlot[Server] \in Slot /\ scanSlot'[Server] = scanSlot[Server] + 1
      BY <1>t, <1>17, <2>3 DEF DeleteScan, Slot
    <3>2. cleanSlot = scanSlot[Server] => routingTable[cleanSlot] = Null
      BY <1>t, <2>3, <3>1 DEF Cleaning, Deleting, TableInv, RecordsMatch, Used, Slot
    <3>3. QED
      BY <1>t, <2>3, <3>1, <3>2 DEF Cleaning, tables, updateLocals, Slot
  <2>4. QED
    BY <1>17, <2>1, <2>2, <2>3 DEF DeleteScan, tables, updateLocals
<1>18. ASSUME NEW t \in Deleters, DeleteRemove(t) PROVE Cleaning'
  <2>1. /\ pc[t] = "remove" /\ pc'[t] = "scan" /\ \A u \in Threads \ {t} : pc'[u] = pc[u]
        /\ scanSlot' = [scanSlot EXCEPT ![t] = @ + 1] /\ UNCHANGED <<victim, cleanSlot>>
    BY <1>t, <1>18, LabelsKept DEF DeleteRemove, updateLocals
  <2>2. cleanSlot # NumSlots => cleanSlot \in Slot
    BY <1>t DEF Slot
  <2>3. CASE t # Server
    BY <1>t, <1>18, <2>1, <2>2, <2>3, MarkKept DEF Cleaning, Deleting, Control
  <2>4. CASE t = Server
    BY <1>t, <1>18, <2>1, <2>2, <2>4, MarkKept DEF Cleaning, Deleting
  <2>5. QED
    BY <2>3, <2>4
<1>19. ASSUME NEW t \in Deleters, DeleteReturn(t) PROVE Cleaning'
  <2>1. CASE t # Server
    BY <1>t, <1>2, <1>19, <2>1, LabelsKept DEF DeleteReturn, tables, updateLocals
  <2>2. CASE t = Server /\ cleanSlot < NumSlots
    <3>1. /\ pc[Server] = "scan" /\ scanSlot[Server] = NumSlots /\ Goto(Server, "unreachable")
          /\ UNCHANGED <<routingTable, reachbleTable, cleanSlot>>
      BY <1>19, <2>2 DEF DeleteReturn, tables, updateLocals
    <3>2. pc'[Server] = "unreachable"
      BY <1>t, <3>1, LabelsKept
    <3>3. QED
      BY <1>t, <2>2, <3>1, <3>2 DEF Cleaning, Deleting
  <2>3. CASE t = Server /\ cleanSlot = NumSlots
    BY <1>t, <1>1, <1>19, <2>3, LabelsKept DEF DeleteReturn, updateLocals
  <2>4. QED
    BY <1>t, <2>1, <2>2, <2>3
<1>20. ASSUME Call PROVE Cleaning'
  BY <1>4, <1>11, <1>12, <1>15, <1>20 DEF Call, Login, Logout, HeartBeatTimeout
<1>21. ASSUME NEW t \in Threads, Step(t) PROVE Cleaning'
  BY <1>5, <1>6, <1>7, <1>8, <1>9, <1>10, <1>15, <1>16, <1>17, <1>18, <1>19, <1>21
     DEF Step, ServerStep, DeleteStep
<1>22. CASE UNCHANGED vars
  BY <1>2, <1>22 DEF vars, tables, updateLocals, deleteLocals
<1>23. QED
  BY <1>20, <1>21, <1>22 DEF Next

-----------------------------------------------------------------------------
(***************************************************************************)
(* The theorems.                                                           *)
(***************************************************************************)
LEMMA Invariance == Spec => []IInv
<1>1. Init => IInv
  BY TypeInit, TableInit, ThreadInit DEF IInv
<1>2. IInv /\ [Next]_vars => IInv'
  BY TypeNext, TableNext, OthersDeletedNext, MergingNext, CleaningNext DEF IInv, ThreadInv
<1>3. QED
  BY <1>1, <1>2, PTL DEF Spec

\* No interleaving of updates and deletions gives a name two entries.
THEOREM NoTwoEntries == Spec => []UniqueNames
<1>1. IInv => UniqueNames
  BY DEF IInv, TableInv
<1>2. QED
  BY Invariance, <1>1, PTL

\* The record cleanUp decides by always belongs to the entry of its slot.
THEOREM ParallelTablesAgree == Spec => []RecordsMatch
<1>1. IInv => RecordsMatch
  BY DEF IInv, TableInv
<1>2. QED
  BY Invariance, <1>1, PTL

\* Being one hop away and being reached directly are the same thing.
THEOREM HopCountsSound == Spec => []DirectIffOneHop
<1>1. IInv => DirectIffOneHop
  BY DEF IInv, TableInv
<1>2. QED
  BY Invariance, <1>1, PTL

\* The own entry survives, so slot 0 can be read without a null check, and
\* what the node announces is what RoutesAssumption asks of the neighbours.
THEOREM AnnouncementsSound == Spec => [](OwnEntryKept /\ AdvertisementOK)
<1>1. IInv => OwnEntryKept /\ AdvertisementOK
  <2> SUFFICES ASSUME IInv PROVE OwnEntryKept /\ AdvertisementOK
    OBVIOUS
  <2>1. /\ UniqueNames /\ OwnEntryKept /\ DirectIffOneHop
        /\ routingTable \in [Slot -> Entry \cup {Null}]
    BY DEF IInv, TableInv, TypeInv, TypeOK
  <2>2. /\ 0 \in Used /\ routingTable[0].chatName = Own
        /\ routingTable[0].nextChatName = Own /\ routingTable[0].hopCount = 0
    BY <2>1, SizesAssumption, LoginIsEntry, EntryNotNull, NamesAssumption
       DEF OwnEntryKept, LoginEntry, Used, Slot
  <2>3. ASSUME NEW i \in Used
        PROVE  LET e == [routingTable[i] EXCEPT !.nextChatName = routingTable[0].nextChatName]
               IN  /\ e.nextChatName = Own
                   /\ e.hopCount = 0 <=> e.chatName = Own
    <3>1. routingTable[i] \in Entry
      BY <2>1 DEF Used
    <3>2. routingTable[i].hopCount = 0 <=> routingTable[i].chatName = Own
      BY <2>1, <2>2 DEF UniqueNames, DirectIffOneHop
    <3>3. QED
      BY <2>2, <3>1, <3>2 DEF Entry
  <2>4. AdvertisementOK
    BY <2>3 DEF AdvertisementOK, Advertised
  <2>5. QED
    BY <2>1, <2>4
<1>2. QED
  BY Invariance, <1>1, PTL

-----------------------------------------------------------------------------
(***************************************************************************)
(* The map of an array of slots, and how it changes with one slot.         *)
(***************************************************************************)
UsedIn(tab) == {i \in Slot : tab[i] # Null}
NamesIn(tab) == {tab[i].chatName : i \in UsedIn(tab)}
RouteOf(e) == [nextChatName |-> e.nextChatName, hopCount |-> e.hopCount]

\* An array of slots in which no name has two entries.
UniqueIn(tab) ==
  /\ tab \in [Slot -> Entry \cup {Null}]
  /\ \A i, j \in UsedIn(tab) : tab[i].chatName = tab[j].chatName => i = j

\* f is the map that tab stands for.
IsMap(f, tab) ==
  /\ f = [n \in DOMAIN f |-> f[n]]
  /\ DOMAIN f = NamesIn(tab)
  /\ \A i \in UsedIn(tab) : f[tab[i].chatName] = RouteOf(tab[i])

\* A table without double names has one map.
LEMMA MapOfTable ==
  ASSUME NEW tab, UniqueIn(tab)
  PROVE  IsMap([n \in NamesIn(tab) |-> RouteOf(tab[Least({i \in Slot : tab[i].chatName = n})])], tab)
<1> DEFINE f == [n \in NamesIn(tab) |-> RouteOf(tab[Least({i \in Slot : tab[i].chatName = n})])]
<1>1. ASSUME NEW i \in UsedIn(tab) PROVE f[tab[i].chatName] = RouteOf(tab[i])
  <2> DEFINE S == {j \in Slot : tab[j].chatName = tab[i].chatName}
  <2>1. i \in Slot /\ tab[i] \in Entry
    BY <1>1 DEF UniqueIn, UsedIn
  <2>2. \A j \in S : j \in UsedIn(tab)
    BY <2>1, EntryNotNull DEF UsedIn
  <2>3. S = {i}
    BY <1>1, <2>1, <2>2 DEF UniqueIn
  <2>4. Least(S) \in S
    BY <2>1, <2>3, LeastOf
  <2>5. Least(S) = i
    BY <2>3, <2>4
  <2>6. tab[i].chatName \in NamesIn(tab)
    BY <1>1 DEF NamesIn
  <2> QED
    BY <2>5, <2>6
<1> QED
  BY <1>1 DEF IsMap

\* The state function of RoutingTable is that map.
LEMMA RoutesOfState ==
  /\ UsedIn(routingTable) = Used
  /\ RoutesOfTable = [n \in NamesIn(routingTable) |->
                        RouteOf(routingTable[Least({i \in Slot : routingTable[i].chatName = n})])]
  /\ UsedIn(routingTable') = Used'
  /\ RoutesOfTable' = [n \in NamesIn(routingTable') |->
                         RouteOf(routingTable'[Least({i \in Slot : routingTable'[i].chatName = n})])]
  BY DEF RoutesOfTable, Used, UsedIn, NamesIn, RouteOf, SlotsOf

LEMMA RoutesAreMap ==
  ASSUME TypeOK, UniqueNames, TypeOK', UniqueNames'
  PROVE  /\ UniqueIn(routingTable) /\ IsMap(RoutesOfTable, routingTable)
         /\ UniqueIn(routingTable') /\ IsMap(RoutesOfTable', routingTable')
<1>1. UniqueIn(routingTable) /\ UniqueIn(routingTable')
  BY RoutesOfState DEF UniqueIn, TypeOK, UniqueNames
<1> QED
  BY <1>1, RoutesOfState, MapOfTable

\* A free slot is filled with a name that is not in the table.
LEMMA Filled ==
  ASSUME NEW tab, UniqueIn(tab), NEW f, IsMap(f, tab),
         NEW new, UniqueIn(new), NEW g, IsMap(g, new),
         NEW k \in Slot, NEW e \in Entry, tab[k] = Null,
         \A i \in Slot : new[i] = IF i = k THEN e ELSE tab[i],
         e.chatName \notin NamesIn(tab)
  PROVE  g = [n \in DOMAIN f \cup {e.chatName} |-> IF n = e.chatName THEN RouteOf(e) ELSE f[n]]
<1>1. UsedIn(new) = UsedIn(tab) \cup {k} /\ k \notin UsedIn(tab) /\ new[k] = e
  BY EntryNotNull DEF UsedIn
<1>2. \A i \in UsedIn(tab) : new[i] = tab[i]
  BY <1>1 DEF UsedIn
<1>3. DOMAIN g = DOMAIN f \cup {e.chatName}
  BY <1>1, <1>2 DEF IsMap, NamesIn
<1>4. g[e.chatName] = RouteOf(e)
  BY <1>1 DEF IsMap
<1>5. ASSUME NEW n \in DOMAIN f PROVE g[n] = f[n] /\ n # e.chatName
  <2>1. PICK i \in UsedIn(tab) : n = tab[i].chatName
    BY <1>5 DEF IsMap, NamesIn
  <2> QED
    BY <1>1, <1>2, <2>1 DEF IsMap, NamesIn
<1> QED
  BY <1>3, <1>4, <1>5 DEF IsMap

\* The route of an entry is exchanged.
LEMMA Replaced ==
  ASSUME NEW tab, UniqueIn(tab), NEW f, IsMap(f, tab),
         NEW new, UniqueIn(new), NEW g, IsMap(g, new),
         NEW k \in UsedIn(tab), NEW e \in Entry, e.chatName = tab[k].chatName,
         \A i \in Slot : new[i] = IF i = k THEN e ELSE tab[i]
  PROVE  g = [f EXCEPT ![e.chatName] = RouteOf(e)]
<1>1. UsedIn(new) = UsedIn(tab) /\ k \in Slot /\ new[k] = e
  BY EntryNotNull DEF UsedIn
<1>2. \A i \in UsedIn(tab) : new[i].chatName = tab[i].chatName
  BY <1>1 DEF UsedIn
<1>3. DOMAIN g = DOMAIN f
  BY <1>1, <1>2 DEF IsMap, NamesIn
<1>4. g[e.chatName] = RouteOf(e)
  BY <1>1 DEF IsMap
<1>5. ASSUME NEW n \in DOMAIN f, n # e.chatName PROVE g[n] = f[n]
  <2>1. PICK i \in UsedIn(tab) : n = tab[i].chatName
    BY <1>5 DEF IsMap, NamesIn
  <2>2. new[i] = tab[i]
    BY <1>5, <2>1 DEF UsedIn
  <2> QED
    BY <1>1, <2>1, <2>2 DEF IsMap
<1> QED
  BY <1>3, <1>4, <1>5 DEF IsMap

\* An entry is removed.
LEMMA Removed ==
  ASSUME NEW tab, UniqueIn(tab), NEW f, IsMap(f, tab),
         NEW new, UniqueIn(new), NEW g, IsMap(g, new),
         NEW k \in UsedIn(tab), NEW e, e = Null,
         \A i \in Slot : new[i] = IF i = k THEN e ELSE tab[i]
  PROVE  /\ DOMAIN g = DOMAIN f \ {tab[k].chatName}
         /\ \A n \in DOMAIN g : g[n] = f[n]
<1>1. UsedIn(new) = UsedIn(tab) \ {k}
  BY DEF UsedIn
<1>2. \A i \in UsedIn(new) : new[i] = tab[i]
  BY <1>1 DEF UsedIn
<1>3. \A i \in UsedIn(new) : tab[i].chatName # tab[k].chatName
  BY <1>1 DEF UniqueIn
<1>4. DOMAIN g = DOMAIN f \ {tab[k].chatName}
  <2>1. NamesIn(new) = NamesIn(tab) \ {tab[k].chatName}
    BY <1>1, <1>2, <1>3 DEF NamesIn
  <2> QED
    BY <2>1 DEF IsMap
<1>5. ASSUME NEW n \in DOMAIN g PROVE g[n] = f[n]
  <2>1. PICK i \in UsedIn(new) : n = new[i].chatName
    BY <1>5 DEF IsMap, NamesIn
  <2> QED
    BY <1>1, <1>2, <2>1 DEF IsMap
<1> QED
  BY <1>4, <1>5

-----------------------------------------------------------------------------
LEMMA MapInit == Init => Map!Init
<1> SUFFICES ASSUME Init PROVE RoutesOfTable = [n \in {Own} |-> [nextChatName |-> Own, hopCount |-> 0]]
  BY DEF Map!Init
<1>1. TypeOK /\ UniqueNames /\ OwnEntryKept
  BY TypeInit, TableInit DEF TypeInv, TableInv
<1>2. UniqueIn(routingTable)
  BY <1>1, RoutesOfState DEF UniqueIn, TypeOK, UniqueNames
<1>3. IsMap(RoutesOfTable, routingTable)
  BY <1>2, RoutesOfState, MapOfTable
<1>4. UsedIn(routingTable) = {0} /\ routingTable[0].chatName = Own
      /\ RouteOf(routingTable[0]) = [nextChatName |-> Own, hopCount |-> 0]
  <2>1. routingTable[0] = LoginEntry(Own) /\ 0 \in Slot /\ LoginEntry(Own) # Null
    BY <1>1, SizesAssumption, LoginIsEntry, EntryNotNull, NamesAssumption DEF OwnEntryKept, Slot
  <2>2. \A i \in Slot : i # 0 => routingTable[i] = Null
    BY DEF Init
  <2> QED
    BY <2>1, <2>2 DEF UsedIn, RouteOf, LoginEntry
<1>5. NamesIn(routingTable) = {Own}
  BY <1>4 DEF NamesIn
<1> QED
  BY <1>3, <1>4, <1>5 DEF IsMap

\* What an entry of the table says of a name is a route to it.
LEMMA EntryIsRoute ==
  ASSUME TypeOK, DirectIffOneHop, NEW i \in Used, routingTable[i].chatName # Own
  PROVE  /\ routingTable[i].chatName \in Name \ {Own}
         /\ RouteOf(routingTable[i]) \in Map!Route(routingTable[i].chatName)
<1>1. routingTable[i] \in Entry /\ i \in Slot
  BY DEF TypeOK, Used
<1>2. PICK e \in Entry : e = routingTable[i]
  BY <1>1
<1> QED
  BY <1>2, EntryNotNull DEF DirectIffOneHop, RouteOf, Map!Route

LEMMA MapNext == IInv /\ IInv' /\ [Next]_vars => [Map!Next]_RoutesOfTable
<1> SUFFICES ASSUME IInv, IInv', [Next]_vars PROVE [Map!Next]_RoutesOfTable
  OBVIOUS
<1>t. /\ TypeOK /\ UniqueNames /\ OwnEntryKept /\ DirectIffOneHop
      /\ TypeOK' /\ UniqueNames' /\ OwnEntryKept' /\ DirectIffOneHop'
      /\ 0 \in Slot
  BY SizesAssumption DEF IInv, TypeInv, TableInv, Slot
<1>m. /\ UniqueIn(routingTable) /\ IsMap(RoutesOfTable, routingTable)
      /\ UniqueIn(routingTable') /\ IsMap(RoutesOfTable', routingTable')
  BY <1>t, RoutesAreMap
<1>n. UsedIn(routingTable) = Used /\ UsedIn(routingTable') = Used'
  BY RoutesOfState
<1>o. 0 \in Used /\ routingTable[0].chatName = Own /\ RoutesOfTable[Own].hopCount = 0
      /\ 0 \in Used' /\ routingTable'[0].chatName = Own
  <2>1. LoginEntry(Own).chatName = Own /\ LoginEntry(Own).hopCount = 0 /\ LoginEntry(Own) # Null
    BY LoginIsEntry, EntryNotNull, NamesAssumption DEF LoginEntry
  <2>2. 0 \in Used /\ 0 \in Used' /\ routingTable[0].chatName = Own /\ routingTable'[0].chatName = Own
    BY <1>t, <2>1 DEF OwnEntryKept, Used
  <2>3. RoutesOfTable[Own] = RouteOf(LoginEntry(Own))
    BY <1>t, <1>m, <1>n, <2>2 DEF IsMap, OwnEntryKept
  <2> QED
    BY <2>1, <2>2, <2>3 DEF RouteOf
<1>e. ASSUME NEW k \in Used', routingTable'[k].chatName # Own
      PROVE  /\ routingTable'[k].chatName \in Name \ {Own}
             /\ RouteOf(routingTable'[k]) \in Map!Route(routingTable'[k].chatName)
             /\ routingTable'[k] \in Entry
  <2>1. routingTable'[k] \in Entry /\ k \in Slot
    BY <1>t, <1>e DEF TypeOK, Used
  <2>2. PICK e \in Entry : e = routingTable'[k]
    BY <2>1
  <2> QED
    BY <1>t, <1>e, <2>1, <2>2, EntryNotNull DEF DirectIffOneHop, RouteOf, Map!Route
<1>1. ASSUME UNCHANGED routingTable PROVE UNCHANGED RoutesOfTable
  BY <1>1, RoutesOfState
<1>2. CASE AddEntry
  <2>1. CASE ~(freeEntries > 0 /\ Slot \ Used # {})
    BY <1>1, <1>2, <2>1 DEF AddEntry, tables
  <2>2. CASE freeEntries > 0 /\ Slot \ Used # {}
    <3> DEFINE j == Least(Slot \ Used)
    <3>1. j \in Slot /\ routingTable[j] = Null
      BY <2>2, LeastOf DEF Used
    <3>2. PICK e \in Entry : e = Offered
      BY <1>t, <1>2, OfferedIsEntry DEF AddEntry, NextEntry
    <3>3. PICK k \in Slot : /\ routingTable[k] = Null
                            /\ \A i \in Slot : routingTable'[i] = IF i = k THEN e ELSE routingTable[i]
      <4>1. routingTable' = [routingTable EXCEPT ![j] = e]
        BY <1>2, <2>2, <3>2 DEF AddEntry, FillSlot
      <4> QED
        BY <1>t, <3>1, <4>1 DEF TypeOK
    <3>4. e.chatName \notin NamesIn(routingTable)
      BY <1>t, <1>2, <1>n, <3>2 DEF AddEntry, SlotsOf, Used, NamesIn
    <3>5. RoutesOfTable' = [n \in DOMAIN RoutesOfTable \cup {e.chatName} |->
                              IF n = e.chatName THEN RouteOf(e) ELSE RoutesOfTable[n]]
      BY <1>m, <3>3, <3>4, Filled
    <3>6. k \in Used' /\ routingTable'[k] = e
      BY <3>3, EntryNotNull DEF Used
    <3>7. e.chatName # Own
      BY <1>o, <1>n, <3>4 DEF NamesIn
    <3>8. e.chatName \in Name \ {Own} /\ RouteOf(e) \in Map!Route(e.chatName)
      BY <1>e, <3>6, <3>7
    <3>9. /\ e.chatName \in DOMAIN RoutesOfTable' /\ RoutesOfTable'[e.chatName] = RouteOf(e)
          /\ e.chatName \notin DOMAIN RoutesOfTable
      BY <1>m, <3>4, <3>5 DEF IsMap
    <3>10. Map!Learn(e.chatName, RoutesOfTable'[e.chatName])
      BY <3>5, <3>8, <3>9 DEF Map!Learn, Map!Known
    <3> QED
      BY <3>8, <3>9, <3>10 DEF Map!Next
  <2> QED
    BY <2>1, <2>2
<1>3. CASE RefreshEntry
  <2> DEFINE i == Least(SlotsOf(Offered.chatName))
  <2>1. Offered \in Entry
    BY <1>t, <1>3, OfferedIsEntry DEF RefreshEntry, NextEntry
  <2>2. i \in Slot /\ i \in Used /\ routingTable[i].chatName = Offered.chatName
    <3>1. i \in SlotsOf(Offered.chatName)
      BY <1>3, LeastOf DEF RefreshEntry, SlotsOf
    <3> QED
      BY <1>t, <2>1, <3>1, SlotsOfName, EntryNotNull
  <2>3. CASE ~Shorter(Offered, i)
    BY <1>1, <1>3, <2>3 DEF RefreshEntry
  <2>4. CASE Shorter(Offered, i)
    <3>1. PICK e \in Entry : /\ e.chatName = routingTable[i].chatName
                             /\ routingTable' = [routingTable EXCEPT ![i] = e]
                             /\ routingTable[i].hopCount > e.hopCount
      BY <1>3, <2>1, <2>2, <2>4 DEF RefreshEntry, Shorter
    <3>2. PICK k \in Used : /\ e.chatName = routingTable[k].chatName
                            /\ routingTable[k].hopCount > e.hopCount
                            /\ \A l \in Slot : routingTable'[l] = IF l = k THEN e ELSE routingTable[l]
      BY <1>t, <2>2, <3>1 DEF TypeOK
    <3>3. RoutesOfTable' = [RoutesOfTable EXCEPT ![e.chatName] = RouteOf(e)]
      BY <1>m, <1>n, <3>2, Replaced
    <3>4. k \in Slot /\ k \in Used' /\ routingTable'[k] = e
      BY <3>2, EntryNotNull DEF Used
    <3>5. RoutesOfTable[e.chatName] = RouteOf(routingTable[k]) /\ e.chatName \in DOMAIN RoutesOfTable
      BY <1>m, <1>n, <3>2 DEF IsMap, NamesIn
    <3>6. RouteOf(e).hopCount < RoutesOfTable[e.chatName].hopCount
      <4>1. e.hopCount \in Nat /\ routingTable[k].hopCount \in Nat
        BY <1>t, <3>2, EntryNotNull DEF TypeOK, Used
      <4> QED
        BY <3>2, <3>5, <4>1 DEF RouteOf
    <3>7. e.chatName # Own
      <4>1. e.hopCount \in Nat /\ RouteOf(e).hopCount = e.hopCount
        BY EntryNotNull DEF RouteOf
      <4> QED
        BY <1>o, <3>6, <4>1
    <3>8. e.chatName \in Name \ {Own} /\ RouteOf(e) \in Map!Route(e.chatName)
      BY <1>e, <3>4, <3>7
    <3>9. e.chatName \in DOMAIN RoutesOfTable' /\ RoutesOfTable'[e.chatName] = RouteOf(e)
      BY <3>3, <3>5
    <3>10. Map!Shorten(e.chatName, RoutesOfTable'[e.chatName])
      BY <3>3, <3>5, <3>6, <3>8, <3>9 DEF Map!Shorten, Map!Known
    <3> QED
      BY <3>8, <3>9, <3>10 DEF Map!Next
  <2> QED
    BY <2>3, <2>4
<1>4. ASSUME NEW t \in Deleters, DeleteRemove(t) PROVE [Map!Next]_RoutesOfTable
  <2> DEFINE s == scanSlot[t]
  <2>1. /\ s \in Slot /\ s # 0
        /\ routingTable' = [routingTable EXCEPT ![s] = Null]
    <3>1. /\ pc[t] = "remove"
          /\ routingTable' = [routingTable EXCEPT ![s] = Null]
      BY <1>4 DEF DeleteRemove
    <3>2. s # 0
      BY <1>4, <3>1 DEF IInv, ThreadInv, OthersDeleted
    <3>3. s < NumSlots
      BY <1>4, <3>1 DEF IInv, TypeInv, Control
    <3>4. s \in 0 .. NumSlots
      BY <1>4 DEF IInv, TypeInv, TypeOK
    <3> QED
      BY <3>1, <3>2, <3>3, <3>4, SizesAssumption DEF Slot
  <2>2. CASE s \notin Used
    <3>1. UNCHANGED routingTable
      BY <1>t, <2>1, <2>2 DEF Used, TypeOK
    <3> QED
      BY <1>1, <3>1
  <2>3. CASE s \in Used
    <3>e. PICK e : e = Null
      OBVIOUS
    <3>1. PICK k \in Used : k # 0 /\ \A i \in Slot : routingTable'[i] = IF i = k THEN e ELSE routingTable[i]
      BY <1>t, <2>1, <2>3, <3>e DEF TypeOK
    <3>2. RoutesOfTable' = [n \in DOMAIN RoutesOfTable \ {routingTable[k].chatName} |-> RoutesOfTable[n]]
      <4>1. /\ DOMAIN RoutesOfTable' = DOMAIN RoutesOfTable \ {routingTable[k].chatName}
            /\ \A n \in DOMAIN RoutesOfTable' : RoutesOfTable'[n] = RoutesOfTable[n]
        BY <1>m, <1>n, <3>e, <3>1, Removed
      <4> QED
        BY <1>m, <4>1 DEF IsMap
    <3>3. routingTable[k].chatName \in Name \ {Own}
      <4>1. routingTable[k].chatName # Own
        BY <1>t, <1>o, <3>1 DEF UniqueNames
      <4> QED
        BY <1>t, <3>1, <4>1, EntryIsRoute
    <3>4. routingTable[k].chatName \in DOMAIN RoutesOfTable
      BY <1>m, <1>n DEF IsMap, NamesIn
    <3>5. Map!Forget(routingTable[k].chatName)
      BY <3>2, <3>3, <3>4 DEF Map!Forget, Map!Known
    <3> QED
      BY <3>3, <3>5 DEF Map!Next
  <2> QED
    BY <2>2, <2>3
<1>5. ASSUME Call PROVE UNCHANGED routingTable
  BY <1>5 DEF Call, Login, TableUpdate, Logout, HeartBeatTimeout, DeleteFromTable, GetRouting, tables
<1>6. ASSUME NEW t \in Threads, Step(t) PROVE [Map!Next]_RoutesOfTable
  <2>1. CASE ServerStep
    BY <1>1, <1>2, <1>3, <2>1
       DEF ServerStep, UpdateLock, UpdateEnd, CleanUpSlot, Unreachable, CleanUpEnd, tables
  <2>2. CASE t \in Deleters /\ DeleteStep(t)
    BY <1>1, <1>4, <2>2 DEF DeleteStep, DeleteLock, DeleteScan, DeleteReturn, tables
  <2>3. CASE GetRoutingStep(t)
    BY <1>1, <2>3 DEF GetRoutingStep, GetRoutingLock, GetRoutingReturn, tables
  <2> QED
    BY <1>6, <2>1, <2>2, <2>3 DEF Step
<1>7. CASE UNCHANGED vars
  BY <1>1, <1>7 DEF vars, tables
<1> QED
  BY <1>1, <1>5, <1>6, <1>7 DEF Next

\* Updates and deletions of several threads, at any point of each other,
\* leave the table a route map: each step learns, shortens or forgets one
\* name, or changes no route, and the node's own entry stays.
THEOREM TableIsRouteMap == Spec => ImplementsRouteMap
<1>1. Init => Map!Init
  BY MapInit
<1>2. IInv /\ IInv' /\ [Next]_vars => [Map!Next]_RoutesOfTable
  BY MapNext
<1> QED
  BY <1>1, <1>2, Invariance, PTL DEF Spec, Map!Spec, ImplementsRouteMap
=============================================================================
