------------------------------ MODULE TableOps ------------------------------
(***************************************************************************)
(* The calls of src/routingTable.c as functions from a table to a table:   *)
(* what one call does when no other thread interrupts it.  A table is a    *)
(* record of the two arrays.  RoutingTable has the same calls step by step *)
(* with their lock; MCRoutingTable checks that an undisturbed call ends    *)
(* with the table that is given here.  freeEntries is left out: it starts  *)
(* above the number of slots the loops visit and stays above zero.         *)
(***************************************************************************)
EXTENDS Naturals, Sequences

CONSTANTS
  NoName,     \* the empty string
  NumSlots    \* slots the loops visit

Slot == 0 .. NumSlots - 1

Null == [chatName |-> NoName, nextChatName |-> NoName, hopCount |-> 0]

\* initTable: the node's own entry in slot 0.
InitTable(own) ==
  [slots |-> [i \in Slot |-> IF i = 0 THEN [Null EXCEPT !.chatName = own, !.nextChatName = own]
                             ELSE Null],
   records |-> [i \in Slot |-> [chatName |-> IF i = 0 THEN own ELSE NoName,
                                reachable |-> i = 0]]]

Used(t) == {i \in Slot : t.slots[i] # Null}
SlotsOf(t, n) == {i \in Slot : t.slots[i].chatName = n}
Least(S) == CHOOSE i \in S : \A j \in S : i <= j

\* Mutant of PutEntry: every announcement replaces the route.
PutEntryNewest(t, entry) ==
  LET e == [entry EXCEPT !.hopCount = @ + 1]
      i == Least(IF SlotsOf(t, e.chatName) # {} THEN SlotsOf(t, e.chatName) ELSE Slot \ Used(t))
  IN  [slots |-> [t.slots EXCEPT ![i] = e],
       records |-> [t.records EXCEPT ![i] = [chatName |-> e.chatName, reachable |-> TRUE]]]

\* Mutant of PutEntry: the hop is taken off.
PutEntryLess(t, entry) ==
  LET e == [entry EXCEPT !.hopCount = @ - 1]
      i == Least(IF SlotsOf(t, e.chatName) # {} THEN SlotsOf(t, e.chatName) ELSE Slot \ Used(t))
  IN  [slots |-> [t.slots EXCEPT ![i] = e],
       records |-> [t.records EXCEPT ![i] = [chatName |-> e.chatName, reachable |-> TRUE]]]

\* One round of the loop of tableUpdate, with the hop to the sender added.
PutEntry(t, entry) ==
  LET e == [entry EXCEPT !.hopCount = @ + 1]
      known == SlotsOf(t, e.chatName)
      unused == Slot \ Used(t)
      i == Least(IF known # {} THEN known ELSE unused)
      better == known # {} => t.slots[i].hopCount > e.hopCount
  IN  IF known \cup unused = {} THEN t
      ELSE [slots |-> IF better THEN [t.slots EXCEPT ![i] = e] ELSE t.slots,
            records |-> [t.records EXCEPT ![i] = [chatName |-> e.chatName, reachable |-> TRUE]]]

\* Mutant of DeleteFromTable: what is reached through the name stays.
DeleteName(t, n) ==
  [slots |-> [i \in Slot |-> IF i \in SlotsOf(t, n) THEN Null ELSE t.slots[i]],
   records |-> [i \in Slot |-> [t.records[i] EXCEPT !.reachable = @ /\ i \notin SlotsOf(t, n)]]]

\* deleteFromTable: the name, and what is reached through it.  The names in
\* the records stay.
DeleteFromTable(t, n) ==
  LET gone == {i \in Slot : n \in {t.slots[i].chatName, t.slots[i].nextChatName}}
  IN  [slots |-> [i \in Slot |-> IF i \in gone THEN Null ELSE t.slots[i]],
       records |-> [i \in Slot |-> IF i \in gone THEN [t.records[i] EXCEPT !.reachable = FALSE]
                                   ELSE t.records[i]]]

\* One round of the loop of cleanUp.
CleanUpSlot(t, i) ==
  LET r == t.records[i]
      d == DeleteFromTable(t, r.chatName)
      unmarked(name) == [chatName |-> name, reachable |-> FALSE]
  IN  IF r.chatName = NoName THEN t
      ELSE IF r.reachable
           THEN [slots |-> t.slots, records |-> [t.records EXCEPT ![i] = unmarked(r.chatName)]]
      ELSE [slots |-> d.slots, records |-> [d.records EXCEPT ![i] = unmarked(NoName)]]

\* The rounds of both loops one after the other.  What is left after a round
\* is a set with the one table in it, so that each round is evaluated once
\* and not wherever the next one mentions its table.
CleanUp(T) ==
  LET after[i \in 0 .. NumSlots] ==
        IF i = 0 THEN T ELSE {CleanUpSlot(t, i - 1) : t \in after[i - 1]}
  IN  after[NumSlots]

Merge(t, m) ==
  LET after[k \in 0 .. Len(m)] ==
        IF k = 0 THEN {t} ELSE {PutEntry(v, m[k]) : v \in after[k - 1]}
  IN  after[Len(m)]

\* Mutant of TableUpdate: without cleanUp.
TableUpdateOnly(t, m) == Merge(t, m)

\* tableUpdate: an announcement of one entry skips cleanUp.
TableUpdate(t, m) == IF Len(m) = 1 THEN Merge(t, m) ELSE CleanUp(Merge(t, m))

\* getRouting; NoName stands for -1.
GetRouting(t, n) ==
  IF SlotsOf(t, n) = {} THEN NoName ELSE t.slots[Least(SlotsOf(t, n))].nextChatName

\* getHopsOneAway: the direct neighbours.
HopsOneAway(t) == {t.slots[i].chatName : i \in {j \in Used(t) : t.slots[j].hopCount = 1}}

\* Mutant of TableToCharArray: every entry keeps its own next hop.
TableToCharArrayStored(t) ==
  LET rows[i \in 0 .. NumSlots] ==
        IF i = 0 THEN <<>>
        ELSE IF i - 1 \in Used(t) THEN Append(rows[i - 1], t.slots[i - 1]) ELSE rows[i - 1]
  IN  rows[NumSlots]

\* tableToCharArray: all entries in the order of the slots, all of them
\* with the next hop of slot 0.
TableToCharArray(t) ==
  LET rows[i \in 0 .. NumSlots] ==
        IF i = 0 THEN <<>>
        ELSE IF i - 1 \in Used(t)
             THEN Append(rows[i - 1],
                         [t.slots[i - 1] EXCEPT !.nextChatName = t.slots[0].nextChatName])
        ELSE rows[i - 1]
  IN  rows[NumSlots]
=============================================================================
