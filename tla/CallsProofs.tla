----------------------------- MODULE CallsProofs -----------------------------
(***************************************************************************)
(* What a call that no other thread meets makes of the table of            *)
(* RoutingTable: exactly what module TableOps says, for every number of    *)
(* names and slots and every announcement.  And, as long as announcements  *)
(* contain their senders and the array has a slot for every name, that     *)
(* such calls leave no route through a name that is not in the table.      *)
(*                                                                         *)
(* The invariant looks backwards from the call's end: the table expected   *)
(* is the one the remaining rounds of the loops make of the table there    *)
(* is.  A round of a loop is a step or, in cleanUp, a whole deletion, and  *)
(* the table in the middle of a deletion is Passed(t, v, k).               *)
(***************************************************************************)
EXTENDS MCRoutingTable, RoutingTableProofs, FiniteSetTheorems

Tables == [slots : [Slot -> Entry \cup {Null}], records : [Slot -> Record]]

\* The tables after each round of the loops of tableUpdate and cleanUp.
MergeRounds(after, t, m) ==
  /\ after[0] = {t}
  /\ \A k \in 1 .. Len(m) : after[k] = {Ops!PutEntry(v, m[k]) : v \in after[k - 1]}
CleanRounds(after, T) ==
  /\ after[0] = T
  /\ \A i \in 1 .. NumSlots : after[i] = {Ops!CleanUpSlot(t, i - 1) : t \in after[i - 1]}

\* The table t when deleteFromTable(v) has come to slot k.
Passed(t, v, k) ==
  LET d == Ops!DeleteFromTable(t, v)
  IN  [slots |-> [i \in Slot |-> IF i < k THEN d.slots[i] ELSE t.slots[i]],
       records |-> [i \in Slot |-> IF i < k THEN d.records[i] ELSE t.records[i]]]

\* Where the calls are on their way to the expected table: in the loop of
\* tableUpdate at entry k, in the loop of cleanUp at slot c, in a deletion at
\* slot k, back from the deletion in cleanUp; t is the table they have.
InMerge(E, m, k, t) ==
  \E first, after :
    /\ MergeRounds(after, first, m)
    /\ E = IF Len(m) = 1 THEN after[Len(m)] ELSE Ops!CleanUp(after[Len(m)])
    /\ k <= Len(m) + 1
    /\ after[k - 1] = {t}
InClean(E, c, t) ==
  \E T, after : CleanRounds(after, T) /\ E = after[NumSlots] /\ after[c] = {t}
InDelete(E, v, k, c, t) ==
  \E u \in Tables :
    /\ t = Passed(u, v, k)
    /\ IF c < NumSlots
       THEN InClean(E, c, u) /\ u.records[c] = [chatName |-> v, reachable |-> FALSE]
       ELSE E = {Ops!DeleteFromTable(u, v)}
InReport(E, c, t) ==
  \E u \in Tables :
    /\ InClean(E, c, u)
    /\ u.records[c].chatName # NoName
    /\ ~u.records[c].reachable
    /\ t = Ops!DeleteFromTable(u, u.records[c].chatName)

\* Between calls the arguments are empty, and readers delete nothing.
Arguments ==
  /\ \A t \in Deleters : victim[t] = NoName <=> pc[t] \notin Deleting
  /\ \A t \in Threads \ Deleters : pc[t] \notin Deleting
  /\ message # <<>> => \/ pc[Server] \in {"update", "entry", "cleanUp", "unreachable"}
                       \/ cleanSlot < NumSlots

\* freeEntries counts the unused slots, and those the loops never visit.
Counted == freeEntries = TableSize - NumSlots + Cardinality(Slot \ Used)

OneCall == \A t, u \in Threads : pc[t] # "idle" /\ pc[u] # "idle" => t = u

Removing ==
  \A t \in Deleters :
    pc[t] = "remove" =>
      victim[t] \in {routingTable[scanSlot[t]].chatName, routingTable[scanSlot[t]].nextChatName}

Cleaned(t) == IF t = Server THEN cleanSlot ELSE NumSlots

OnTheWay ==
  /\ Idle => expected = {Table}
  /\ \A t \in Threads : pc[t] \in {"route", "lookup"} => expected = {Table}
  /\ pc[Server] \in {"update", "entry"} => InMerge(expected, message, entryIndex, Table)
  /\ pc[Server] = "cleanUp" => InClean(expected, cleanSlot, Table)
  /\ \A t \in Deleters :
       pc[t] \in Deleting => InDelete(expected, victim[t], scanSlot[t], Cleaned(t), Table)
  /\ pc[Server] = "unreachable" => InReport(expected, cleanSlot, Table)

OneByOne == Counted /\ OneCall /\ Removing /\ OnTheWay
AloneInv == expected # {} => OneByOne
CallInv == IInv /\ Arguments /\ AloneInv

-----------------------------------------------------------------------------
LEMMA Induction ==
  ASSUME NEW S \in SUBSET Nat, 0 \in S, \A n \in S : n + 1 \in S
  PROVE  S = Nat
<1>1. SUFFICES ASSUME Nat \ S # {} PROVE FALSE
  OBVIOUS
<1>2. IsWellFoundedOn(OpToRel(<, Nat), Nat)
  BY NatLessThanWellFounded, Zenon
<1>3. PICK m \in Nat \ S : \A n \in Nat \ S : ~ (<<n, m>> \in OpToRel(<, Nat))
  <2>1. Nat \ S \subseteq Nat
    OBVIOUS
  <2> QED BY <1>1, <1>2, <2>1, WFMin, Zenon
<1>4. ASSUME NEW n \in Nat \ S PROVE ~(n < m)
  <2>1. ~ (<<n, m>> \in {ss \in Nat \X Nat : ss[1] < ss[2]})
    BY <1>3, <1>4 DEF OpToRel
  <2> QED BY <2>1
<1>5. m # 0 /\ m - 1 \in Nat
  OBVIOUS
<1>6. m - 1 \in S
  BY <1>4, <1>5
<1> QED BY <1>5, <1>6

Merged(f, t, m) ==
  f = [k \in 0 .. Len(m) |-> IF k = 0 THEN {t} ELSE {Ops!PutEntry(v, m[k]) : v \in f[k - 1]}]

LEMMA MergeExists ==
  ASSUME NEW t, NEW m, Len(m) \in Nat
  PROVE  \E f : Merged(f, t, m)
<1> DEFINE Round(T, k) == {Ops!PutEntry(v, m[k]) : v \in T}
           Good(f, k) == f = [j \in 0 .. k |-> IF j = 0 THEN {t} ELSE Round(f[j - 1], j)]
           S == {k \in Nat : \E f : Good(f, k)}
<1> HIDE DEF Round, Good
<1>1. 0 \in S
  <2> DEFINE f == [j \in 0 .. 0 |-> {t}]
  <2>1. \A j \in 0 .. 0 : f[j] = IF j = 0 THEN {t} ELSE Round(f[j - 1], j)
    OBVIOUS
  <2>2. Good(f, 0)
    BY <2>1 DEF Good
  <2> QED BY <2>2
<1>2. \A k \in S : k + 1 \in S
  <2> SUFFICES ASSUME NEW k \in Nat, NEW f, Good(f, k) PROVE \E g : Good(g, k + 1)
    OBVIOUS
  <2>1. \A j \in 0 .. k : f[j] = IF j = 0 THEN {t} ELSE Round(f[j - 1], j)
    BY DEF Good
  <2> DEFINE g == [j \in 0 .. k + 1 |-> IF j = k + 1 THEN Round(f[k], j) ELSE f[j]]
  <2>2. ASSUME NEW j \in 0 .. k + 1
        PROVE  g[j] = IF j = 0 THEN {t} ELSE Round(g[j - 1], j)
    <3>1. CASE j = k + 1
      <4>1. g[j] = Round(f[k], j) /\ g[j - 1] = f[k] /\ j # 0
        BY <3>1
      <4> QED BY <4>1
    <3>2. CASE j \in 0 .. k
      <4>1. g[j] = f[j] /\ (j # 0 => g[j - 1] = f[j - 1])
        BY <3>2
      <4> QED BY <2>1, <3>2, <4>1
    <3> QED BY <3>1, <3>2
  <2>3. Good(g, k + 1)
    <3> DEFINE G == [j \in 0 .. k + 1 |-> IF j = 0 THEN {t} ELSE Round(g[j - 1], j)]
    <3>1. g = G
      BY <2>2
    <3> QED BY <3>1, Zenon DEF Good
  <2> QED BY <2>3
<1>3. S = Nat
  <2> HIDE DEF S
  <2>1. S \in SUBSET Nat
    BY DEF S
  <2> QED BY <1>1, <1>2, <2>1, Induction
<1>4. Len(m) \in S
  BY <1>3
<1> QED BY <1>4 DEF Merged, Round, Good

\* The loop of tableUpdate, unrolled.
LEMMA MergeUnrolled ==
  ASSUME NEW t, NEW m, Len(m) \in Nat
  PROVE  \E after : MergeRounds(after, t, m) /\ Ops!Merge(t, m) = after[Len(m)]
<1> DEFINE after == CHOOSE f : Merged(f, t, m)
           Round(T, k) == {Ops!PutEntry(v, m[k]) : v \in T}
<1>1. Merged(after, t, m)
  BY MergeExists, Zenon
<1>2. Ops!Merge(t, m) = after[Len(m)]
  BY Zenon DEF Ops!Merge, Merged
<1> HIDE DEF after, Round
<1>3. after = [k \in 0 .. Len(m) |-> IF k = 0 THEN {t} ELSE Round(after[k - 1], k)]
  BY <1>1 DEF Merged, Round
<1>4. /\ after[0] = {t}
      /\ \A k \in 1 .. Len(m) : after[k] = Round(after[k - 1], k)
  BY <1>3
<1> QED BY <1>2, <1>4, Zenon DEF Round, MergeRounds

LEMMA CleanExists ==
  ASSUME NEW T
  PROVE  \E f : f = [i \in 0 .. NumSlots |->
                       IF i = 0 THEN T ELSE {Ops!CleanUpSlot(t, i - 1) : t \in f[i - 1]}]
<1> DEFINE Round(U, k) == {Ops!CleanUpSlot(t, k - 1) : t \in U}
           Good(f, k) == f = [j \in 0 .. k |-> IF j = 0 THEN T ELSE Round(f[j - 1], j)]
           S == {k \in Nat : \E f : Good(f, k)}
<1> HIDE DEF Round, Good
<1>1. 0 \in S
  <2> DEFINE f == [j \in 0 .. 0 |-> T]
  <2>1. \A j \in 0 .. 0 : f[j] = IF j = 0 THEN T ELSE Round(f[j - 1], j)
    OBVIOUS
  <2>2. Good(f, 0)
    BY <2>1 DEF Good
  <2> QED BY <2>2
<1>2. \A k \in S : k + 1 \in S
  <2> SUFFICES ASSUME NEW k \in Nat, NEW f, Good(f, k) PROVE \E g : Good(g, k + 1)
    OBVIOUS
  <2>1. \A j \in 0 .. k : f[j] = IF j = 0 THEN T ELSE Round(f[j - 1], j)
    BY DEF Good
  <2> DEFINE g == [j \in 0 .. k + 1 |-> IF j = k + 1 THEN Round(f[k], j) ELSE f[j]]
  <2>2. ASSUME NEW j \in 0 .. k + 1
        PROVE  g[j] = IF j = 0 THEN T ELSE Round(g[j - 1], j)
    <3>1. CASE j = k + 1
      <4>1. g[j] = Round(f[k], j) /\ g[j - 1] = f[k] /\ j # 0
        BY <3>1
      <4> QED BY <4>1
    <3>2. CASE j \in 0 .. k
      <4>1. g[j] = f[j] /\ (j # 0 => g[j - 1] = f[j - 1])
        BY <3>2
      <4> QED BY <2>1, <3>2, <4>1
    <3> QED BY <3>1, <3>2
  <2>3. Good(g, k + 1)
    <3> DEFINE G == [j \in 0 .. k + 1 |-> IF j = 0 THEN T ELSE Round(g[j - 1], j)]
    <3>1. g = G
      BY <2>2
    <3> QED BY <3>1, Zenon DEF Good
  <2> QED BY <2>3
<1>3. S = Nat
  <2> HIDE DEF S
  <2>1. S \in SUBSET Nat
    BY DEF S
  <2> QED BY <1>1, <1>2, <2>1, Induction
<1>4. NumSlots \in S
  BY <1>3, SizesAssumption
<1> QED BY <1>4 DEF Round, Good

\* The loop of cleanUp, unrolled.
LEMMA CleanUnrolled ==
  ASSUME NEW T
  PROVE  \E after : CleanRounds(after, T) /\ Ops!CleanUp(T) = after[NumSlots]
<1> DEFINE Rounds(f) == f = [i \in 0 .. NumSlots |->
                                IF i = 0 THEN T ELSE {Ops!CleanUpSlot(t, i - 1) : t \in f[i - 1]}]
           after == CHOOSE f : Rounds(f)
           Round(U, k) == {Ops!CleanUpSlot(t, k - 1) : t \in U}
<1>1. Rounds(after)
  BY CleanExists, Zenon
<1>2. Ops!CleanUp(T) = after[NumSlots]
  BY Zenon DEF Ops!CleanUp
<1> HIDE DEF after, Round
<1>3. after = [k \in 0 .. NumSlots |-> IF k = 0 THEN T ELSE Round(after[k - 1], k)]
  BY <1>1 DEF Round
<1>4. /\ after[0] = T
      /\ \A k \in 1 .. NumSlots : after[k] = Round(after[k - 1], k)
  BY <1>3, SizesAssumption
<1> QED BY <1>2, <1>4, Zenon DEF Round, CleanRounds

-----------------------------------------------------------------------------
(***************************************************************************)
(* The steps of RoutingTable as rounds of TableOps.                        *)
(***************************************************************************)
LEMMA OpsFacts ==
  /\ Ops!Slot = Slot /\ Ops!Null = Null
  /\ \A S : Ops!Least(S) = Least(S)
  /\ Ops!Used(Table) = Used
  /\ \A n : Ops!SlotsOf(Table, n) = SlotsOf(n)
BY DEF Ops!Slot, Slot, Ops!Null, Null, Ops!Least, Least, Ops!Used, Used, Ops!SlotsOf, SlotsOf, Table

LEMMA SlotFacts == /\ 0 \in Slot /\ Slot \subseteq Nat /\ NumSlots \notin Slot
                   /\ \A i \in Slot : i + 1 \in 1 .. NumSlots /\ i + 1 - 1 = i
                   /\ \A i \in 0 .. NumSlots : i \in Slot <=> i < NumSlots
BY SizesAssumption DEF Slot

LEMMA TableTypes == ASSUME TypeOK PROVE Table \in Tables
BY DEF TypeOK, Table, Tables

\* deleteFromTable before its first slot and behind its last one.
LEMMA PassedEnds ==
  ASSUME NEW t \in Tables, NEW v
  PROVE  /\ Passed(t, v, 0) = t
         /\ Passed(t, v, NumSlots) = Ops!DeleteFromTable(t, v)
<1> DEFINE gone == {i \in Slot : v \in {t.slots[i].chatName, t.slots[i].nextChatName}}
           ds == [i \in Slot |-> IF i \in gone THEN Null ELSE t.slots[i]]
           dr == [i \in Slot |-> IF i \in gone THEN [t.records[i] EXCEPT !.reachable = FALSE]
                                 ELSE t.records[i]]
           d == Ops!DeleteFromTable(t, v)
<1>1. d = [slots |-> ds, records |-> dr]
  BY OpsFacts DEF Ops!DeleteFromTable
<1> HIDE DEF gone, d
<1>2. \A i \in Slot : ~(i < 0) /\ i < NumSlots
  BY SizesAssumption DEF Slot
<1>3. [i \in Slot |-> IF i < 0 THEN d.slots[i] ELSE t.slots[i]] = t.slots
  BY <1>2 DEF Tables
<1>4. [i \in Slot |-> IF i < 0 THEN d.records[i] ELSE t.records[i]] = t.records
  BY <1>2 DEF Tables
<1>5. [i \in Slot |-> IF i < NumSlots THEN d.slots[i] ELSE t.slots[i]] = ds
  BY <1>1, <1>2
<1>6. [i \in Slot |-> IF i < NumSlots THEN d.records[i] ELSE t.records[i]] = dr
  BY <1>1, <1>2
<1>7. t = [slots |-> t.slots, records |-> t.records]
  BY DEF Tables
<1> HIDE DEF ds, dr
<1>8. Passed(t, v, 0) = t
  BY <1>3, <1>4, <1>7 DEF Passed, d
<1>9. Passed(t, v, NumSlots) = d
  BY <1>1, <1>5, <1>6 DEF Passed, d
<1> QED BY <1>8, <1>9 DEF d

\* One slot of it.
LEMMA PassedNext ==
  ASSUME NEW t \in Tables, NEW v, NEW k \in Slot
  PROVE  LET p == Passed(t, v, k)
         IN  IF v \in {p.slots[k].chatName, p.slots[k].nextChatName}
             THEN Passed(t, v, k + 1) =
                    [slots |-> [p.slots EXCEPT ![k] = Null],
                     records |-> [p.records EXCEPT ![k] = [p.records[k] EXCEPT !.reachable = FALSE]]]
             ELSE Passed(t, v, k + 1) = p
<1> DEFINE gone == {i \in Slot : v \in {t.slots[i].chatName, t.slots[i].nextChatName}}
           ds == [i \in Slot |-> IF i \in gone THEN Null ELSE t.slots[i]]
           dr == [i \in Slot |-> IF i \in gone THEN [t.records[i] EXCEPT !.reachable = FALSE]
                                 ELSE t.records[i]]
           s(j) == [i \in Slot |-> IF i < j THEN ds[i] ELSE t.slots[i]]
           r(j) == [i \in Slot |-> IF i < j THEN dr[i] ELSE t.records[i]]
<1>1. Ops!DeleteFromTable(t, v) = [slots |-> ds, records |-> dr]
  BY OpsFacts DEF Ops!DeleteFromTable
<1> HIDE DEF ds, dr
<1>2. \A j : Passed(t, v, j) = [slots |-> s(j), records |-> r(j)]
  BY <1>1 DEF Passed
<1>3. \A i \in Slot : (i < k + 1 <=> i < k \/ i = k) /\ ~(k < k)
  BY SlotFacts
<1>4. s(k)[k] = t.slots[k] /\ r(k)[k] = t.records[k]
  BY <1>3
<1>5. CASE k \in gone
  <2>1. ds[k] = Null /\ dr[k] = [t.records[k] EXCEPT !.reachable = FALSE]
    BY <1>5 DEF ds, dr
  <2>2. s(k + 1) = [s(k) EXCEPT ![k] = Null]
    BY <1>3, <2>1
  <2>3. r(k + 1) = [r(k) EXCEPT ![k] = [t.records[k] EXCEPT !.reachable = FALSE]]
    BY <1>3, <2>1
  <2>4. v \in {t.slots[k].chatName, t.slots[k].nextChatName}
    BY <1>5
  <2> HIDE DEF gone, s, r
  <2> DEFINE p == Passed(t, v, k)
  <2>5. p.slots = s(k) /\ p.records = r(k)
    BY <1>2
  <2>6. Passed(t, v, k + 1) = [slots |-> s(k + 1), records |-> r(k + 1)]
    BY <1>2
  <2> HIDE DEF p
  <2>7. Passed(t, v, k + 1) =
          [slots |-> [p.slots EXCEPT ![k] = Null],
           records |-> [p.records EXCEPT ![k] = [p.records[k] EXCEPT !.reachable = FALSE]]]
    BY <1>4, <2>2, <2>3, <2>5, <2>6
  <2>8. v \in {p.slots[k].chatName, p.slots[k].nextChatName}
    BY <1>4, <2>4, <2>5
  <2> QED BY <2>7, <2>8 DEF p
<1>6. CASE k \notin gone
  <2>1. ds[k] = t.slots[k] /\ dr[k] = t.records[k]
    BY <1>6 DEF ds, dr
  <2>2. s(k + 1) = s(k) /\ r(k + 1) = r(k)
    BY <1>3, <2>1
  <2>3. v \notin {t.slots[k].chatName, t.slots[k].nextChatName}
    BY <1>6
  <2> HIDE DEF gone, s, r
  <2> QED BY <1>2, <1>4, <2>2, <2>3
<1> QED BY <1>5, <1>6

\* A deletion leaves the names in the records, and sets no mark.
LEMMA DeletedFacts ==
  ASSUME NEW t \in Tables, NEW v
  PROVE  /\ Ops!DeleteFromTable(t, v) \in Tables
         /\ \A i \in Slot : LET d == Ops!DeleteFromTable(t, v)
                            IN  /\ d.records[i].chatName = t.records[i].chatName
                                /\ ~t.records[i].reachable => ~d.records[i].reachable
<1> DEFINE gone == {i \in Slot : v \in {t.slots[i].chatName, t.slots[i].nextChatName}}
           ds == [i \in Slot |-> IF i \in gone THEN Null ELSE t.slots[i]]
           dr == [i \in Slot |-> IF i \in gone THEN [t.records[i] EXCEPT !.reachable = FALSE]
                                 ELSE t.records[i]]
<1>1. Ops!DeleteFromTable(t, v) = [slots |-> ds, records |-> dr]
  BY OpsFacts DEF Ops!DeleteFromTable
<1>2. ds \in [Slot -> Entry \cup {Null}]
  BY DEF Tables
<1>3. dr \in [Slot -> Record]
  BY RecordChanges DEF Tables
<1>4. \A i \in Slot : /\ dr[i].chatName = t.records[i].chatName
                      /\ ~t.records[i].reachable => ~dr[i].reachable
  BY DEF Tables, Record
<1> HIDE DEF ds, dr
<1> QED BY <1>1, <1>2, <1>3, <1>4 DEF Tables

-----------------------------------------------------------------------------
(***************************************************************************)
(* freeEntries.                                                            *)
(***************************************************************************)
LEMMA SlotFinite == IsFiniteSet(Slot) /\ Cardinality(Slot) = NumSlots
<1>1. 0 \in Int /\ NumSlots - 1 \in Int
  BY SizesAssumption
<1>2. IsFiniteSet(0 .. NumSlots - 1)
      /\ Cardinality(0 .. NumSlots - 1) = IF 0 > NumSlots - 1 THEN 0 ELSE NumSlots - 1 - 0 + 1
  BY <1>1, FS_Interval
<1> QED BY <1>2, SizesAssumption DEF Slot

LEMMA FreeFacts ==
  ASSUME NEW S \in SUBSET Slot
  PROVE  /\ IsFiniteSet(S) /\ Cardinality(S) \in Nat
         /\ S # {} => Cardinality(S) > 0
         /\ \A k \in S : Cardinality(S \ {k}) = Cardinality(S) - 1
         /\ \A k \in Slot \ S : Cardinality(S \cup {k}) = Cardinality(S) + 1
<1>1. IsFiniteSet(S)
  BY SlotFinite, FS_Subset
<1>2. Cardinality(S) \in Nat
  BY <1>1, FS_CardinalityType
<1>3. S # {} => Cardinality(S) # 0
  BY <1>1, FS_EmptySet
<1>4. \A k \in S : Cardinality(S \ {k}) = Cardinality(S) - 1
  BY <1>1, FS_RemoveElement
<1>5. \A k \in Slot \ S : Cardinality(S \cup {k}) = Cardinality(S) + 1
  BY <1>1, FS_AddElement
<1> QED BY <1>1, <1>2, <1>3, <1>4, <1>5

\* With an unused slot there is a free entry.
LEMMA RoomCounted ==
  ASSUME Counted, Slot \ Used # {}
  PROVE  freeEntries > 0
<1>1. Cardinality(Slot \ Used) \in Nat /\ Cardinality(Slot \ Used) > 0
  BY FreeFacts
<1> QED BY <1>1, SizesAssumption DEF Counted

LEMMA FillCounted ==
  ASSUME TypeOK, Counted, NEW k \in Slot \ Used, NEW e \in Entry, FillSlot(k, e)
  PROVE  Counted'
<1>1. Used' = Used \cup {k}
  BY EntryNotNull DEF Used, FillSlot, TypeOK
<1>2. Slot \ Used' = (Slot \ Used) \ {k}
  BY <1>1
<1>3. Cardinality(Slot \ Used') = Cardinality(Slot \ Used) - 1
  BY <1>2, FreeFacts
<1>4. Cardinality(Slot \ Used) \in Nat
  BY FreeFacts
<1> QED BY <1>3, <1>4, SizesAssumption DEF Counted, FillSlot

LEMMA RemoveCounted ==
  ASSUME TypeOK, Control, Counted, Removing, Arguments, NEW t \in Deleters, DeleteRemove(t)
  PROVE  Counted'
<1> DEFINE k == scanSlot[t]
<1>1. t \in Threads /\ pc[t] = "remove" /\ victim[t] # NoName
  BY DEF DeleteRemove, Arguments, Deleting, Threads
<1>2. victim[t] \in {routingTable[k].chatName, routingTable[k].nextChatName}
  BY <1>1 DEF Removing
<1>3. routingTable[k] # Null
  BY <1>1, <1>2 DEF Null
<1>4. k \in Slot
  BY <1>1, SlotFacts DEF TypeOK, Control
<1>5. Slot \ Used' = (Slot \ Used) \cup {k} /\ k \notin Slot \ Used
  BY <1>3, <1>4 DEF Used, DeleteRemove, TypeOK
<1>6. Cardinality(Slot \ Used') = Cardinality(Slot \ Used) + 1
  BY <1>4, <1>5, FreeFacts
<1>7. Cardinality(Slot \ Used) \in Nat
  BY FreeFacts
<1> QED BY <1>6, <1>7, SizesAssumption DEF Counted, DeleteRemove

-----------------------------------------------------------------------------
(***************************************************************************)
(* The rounds of the loops.                                                *)
(***************************************************************************)
LEMMA MarkedRecord ==
  ASSUME NEW r \in Record, NEW b
  PROVE  [r EXCEPT !.reachable = b] = [chatName |-> r.chatName, reachable |-> b]
<1>1. r = [chatName |-> r.chatName, reachable |-> r.reachable]
  BY DEF Record
<1> DEFINE n == r.chatName
           old == r.reachable
<1> HIDE DEF n, old
<1>2. [[chatName |-> n, reachable |-> old] EXCEPT !.reachable = b] = [chatName |-> n, reachable |-> b]
  OBVIOUS
<1> QED BY <1>1, <1>2 DEF n, old

LEMMA ForgottenRecord ==
  ASSUME NEW r \in Record, ~r.reachable
  PROVE  [r EXCEPT !.chatName = NoName] = [chatName |-> NoName, reachable |-> FALSE]
<1>1. r = [chatName |-> r.chatName, reachable |-> FALSE]
  BY DEF Record
<1> DEFINE n == r.chatName
           b == r.reachable
           old == [chatName |-> n, reachable |-> b]
<1>2. r = old /\ b = FALSE
  BY <1>1
<1> HIDE DEF n, b
<1>3. [old EXCEPT !.chatName = NoName] = [chatName |-> NoName, reachable |-> b]
  OBVIOUS
<1> HIDE DEF old
<1> QED BY <1>2, <1>3

LEMMA AddPuts ==
  ASSUME TypeOK, Counted, AddEntry
  PROVE  Table' = Ops!PutEntry(Table, message[entryIndex]) /\ Counted'
<1> DEFINE e == Offered
           free == Slot \ Used
           i == Least(free)
           r == [chatName |-> e.chatName, reachable |-> TRUE]
<1>1. /\ SlotsOf(e.chatName) = {} /\ e \in Entry /\ e = [message[entryIndex] EXCEPT !.hopCount = @ + 1]
  BY OfferedIsEntry DEF AddEntry, NextEntry, Offered
<1>2. CASE free = {}
  <2>1. UNCHANGED tables
    BY <1>2 DEF AddEntry
  <2>2. Table' = Table /\ Counted'
    BY <2>1 DEF tables, Table, Counted, Used
  <2>3. Ops!PutEntry(Table, message[entryIndex]) = Table
    BY <1>1, <1>2, OpsFacts DEF Ops!PutEntry
  <2> QED BY <2>2, <2>3
<1>3. CASE free # {}
  <2>1. i \in free
    BY <1>3, LeastOf
  <2>2. FillSlot(i, e)
    BY <1>3, RoomCounted DEF AddEntry
  <2>3. Counted'
    BY <1>1, <2>1, <2>2, FillCounted
  <2>4. Table' = [slots |-> [Table.slots EXCEPT ![i] = e], records |-> [Table.records EXCEPT ![i] = r]]
    BY <2>2 DEF FillSlot, Table
  <2>5. Ops!PutEntry(Table, message[entryIndex]) =
          [slots |-> [Table.slots EXCEPT ![i] = e], records |-> [Table.records EXCEPT ![i] = r]]
    <3> HIDE DEF e, i, r
    <3>1. Ops!SlotsOf(Table, e.chatName) = {} /\ Ops!Slot \ Ops!Used(Table) = free
      BY <1>1, OpsFacts
    <3>2. Ops!Least(free) = i
      BY OpsFacts DEF i
    <3> HIDE DEF free
    <3> QED BY <1>1, <1>3, <3>1, <3>2 DEF Ops!PutEntry, r
  <2> QED BY <2>3, <2>4, <2>5
<1> QED BY <1>2, <1>3

LEMMA RefreshPuts ==
  ASSUME TypeOK, RecordsMatch, Counted, RefreshEntry
  PROVE  Table' = Ops!PutEntry(Table, message[entryIndex]) /\ Counted'
<1> DEFINE e == Offered
           known == SlotsOf(e.chatName)
           i == Least(known)
           r == [chatName |-> e.chatName, reachable |-> TRUE]
<1>1. /\ known # {} /\ e \in Entry /\ e = [message[entryIndex] EXCEPT !.hopCount = @ + 1]
  BY OfferedIsEntry DEF RefreshEntry, NextEntry, Offered
<1>2. i \in known /\ i \in Slot /\ i \in Used /\ routingTable[i].chatName = e.chatName
  <2>1. known \in SUBSET Slot
    BY DEF SlotsOf
  <2>2. i \in known
    BY <1>1, <2>1, LeastOf
  <2>3. e.chatName \in Name
    BY <1>1, EntryNotNull
  <2> QED BY <2>1, <2>2, <2>3, SlotsOfName
<1>3. reachbleTable' = [reachbleTable EXCEPT ![i] = r]
  <2>1. reachbleTable[i].chatName = e.chatName /\ reachbleTable[i] \in Record
    BY <1>2 DEF RecordsMatch, TypeOK
  <2>2. [reachbleTable[i] EXCEPT !.reachable = TRUE] = r
    BY <2>1, MarkedRecord
  <2>3. reachbleTable' = [reachbleTable EXCEPT ![i] = [reachbleTable[i] EXCEPT !.reachable = TRUE]]
    BY DEF RefreshEntry
  <2> QED BY <2>2, <2>3
<1> DEFINE slots == IF routingTable[i].hopCount > e.hopCount
                    THEN [routingTable EXCEPT ![i] = e] ELSE routingTable
<1>4. routingTable' = slots
  BY DEF RefreshEntry, Shorter
<1>5. Used' = Used
  BY <1>1, <1>2, <1>4, EntryNotNull DEF Used, TypeOK
<1>6. Counted'
  BY <1>5 DEF Counted, RefreshEntry
<1>7. Table' = [slots |-> slots, records |-> [reachbleTable EXCEPT ![i] = r]]
  BY <1>3, <1>4 DEF Table
<1>8. Ops!PutEntry(Table, message[entryIndex]) =
        [slots |-> slots, records |-> [reachbleTable EXCEPT ![i] = r]]
  <2> HIDE DEF e, i, r
  <2>1. Ops!SlotsOf(Table, e.chatName) = known
    BY OpsFacts
  <2>2. Ops!Least(known) = i
    BY OpsFacts DEF i
  <2>3. Table.slots = routingTable /\ Table.records = reachbleTable
    BY DEF Table
  <2> DEFINE put(k, free) ==
        LET i2 == Ops!Least(IF k # {} THEN k ELSE free)
            better == k # {} => routingTable[i2].hopCount > e.hopCount
        IN  IF k \cup free = {} THEN Table
            ELSE [slots |-> IF better THEN [routingTable EXCEPT ![i2] = e] ELSE routingTable,
                  records |-> [reachbleTable EXCEPT ![i2] = [chatName |-> e.chatName, reachable |-> TRUE]]]
  <2>4. Ops!PutEntry(Table, message[entryIndex]) =
          put(Ops!SlotsOf(Table, e.chatName), Ops!Slot \ Ops!Used(Table))
    BY <1>1, <2>3 DEF Ops!PutEntry
  <2> HIDE DEF known
  <2>5. ASSUME NEW free
        PROVE  put(known, free) = [slots |-> slots, records |-> [reachbleTable EXCEPT ![i] = r]]
    BY <1>1, <2>2 DEF r
  <2> HIDE DEF put, slots
  <2> QED BY <2>1, <2>4, <2>5
<1> QED BY <1>6, <1>7, <1>8

LEMMA CleanFacts ==
  ASSUME NEW t \in Tables, NEW c \in Slot
  PROVE  LET r == t.records[c]
             d == Ops!DeleteFromTable(t, r.chatName)
         IN  Ops!CleanUpSlot(t, c) =
               IF r.chatName = NoName THEN t
               ELSE IF r.reachable
                    THEN [slots |-> t.slots,
                          records |-> [t.records EXCEPT ![c] = [r EXCEPT !.reachable = FALSE]]]
               ELSE [slots |-> d.slots,
                     records |-> [d.records EXCEPT ![c] = [chatName |-> NoName, reachable |-> FALSE]]]
<1> DEFINE r == t.records[c]
<1>1. r \in Record
  BY DEF Tables
<1>2. [r EXCEPT !.reachable = FALSE] = [chatName |-> r.chatName, reachable |-> FALSE]
  BY <1>1, MarkedRecord
<1> HIDE DEF r
<1> QED BY <1>2 DEF Ops!CleanUpSlot, r

\* From a round to the next one.
LEMMA CleanNext ==
  ASSUME NEW E, NEW c \in Slot, NEW t, InClean(E, c, t)
  PROVE  InClean(E, c + 1, Ops!CleanUpSlot(t, c))
<1>1. PICK T, after : CleanRounds(after, T) /\ E = after[NumSlots] /\ after[c] = {t}
  BY DEF InClean
<1>2. after[c + 1] = {Ops!CleanUpSlot(v, c + 1 - 1) : v \in after[c]} /\ c + 1 - 1 = c
  BY <1>1, SlotFacts DEF CleanRounds
<1>3. after[c + 1] = {Ops!CleanUpSlot(t, c)}
  BY <1>1, <1>2
<1> QED BY <1>1, <1>3 DEF InClean

LEMMA CleanStart ==
  ASSUME NEW t
  PROVE  InClean(Ops!CleanUp({t}), 0, t)
<1>1. PICK after : CleanRounds(after, {t}) /\ Ops!CleanUp({t}) = after[NumSlots]
  BY CleanUnrolled
<1> QED BY <1>1 DEF InClean, CleanRounds

LEMMA CleanDone == ASSUME NEW E, NEW t, InClean(E, NumSlots, t) PROVE E = {t}
BY DEF InClean

LEMMA MergeStart ==
  ASSUME NEW t, NEW m, Len(m) \in Nat
  PROVE  InMerge(Ops!TableUpdate(t, m), m, 1, t)
<1>1. PICK after : MergeRounds(after, t, m) /\ Ops!Merge(t, m) = after[Len(m)]
  BY MergeUnrolled
<1>2. Ops!TableUpdate(t, m) = IF Len(m) = 1 THEN after[Len(m)] ELSE Ops!CleanUp(after[Len(m)])
  BY <1>1 DEF Ops!TableUpdate
<1>3. after[1 - 1] = {t} /\ 1 <= Len(m) + 1
  BY <1>1 DEF MergeRounds
<1> QED BY <1>1, <1>2, <1>3 DEF InMerge

LEMMA MergeNext ==
  ASSUME NEW E, NEW m, Len(m) \in Nat, NEW k \in 1 .. Len(m), NEW t, InMerge(E, m, k, t)
  PROVE  InMerge(E, m, k + 1, Ops!PutEntry(t, m[k]))
<1>1. PICK first, after :
        /\ MergeRounds(after, first, m)
        /\ E = IF Len(m) = 1 THEN after[Len(m)] ELSE Ops!CleanUp(after[Len(m)])
        /\ after[k - 1] = {t}
  BY DEF InMerge
<1>2. after[k] = {Ops!PutEntry(v, m[k]) : v \in after[k - 1]} /\ k + 1 - 1 = k /\ k + 1 <= Len(m) + 1
  BY <1>1 DEF MergeRounds
<1>3. after[k + 1 - 1] = {Ops!PutEntry(t, m[k])}
  BY <1>1, <1>2
<1> QED BY <1>1, <1>2, <1>3 DEF InMerge

\* The end of tableUpdate's loop.
LEMMA MergeDone ==
  ASSUME NEW E, NEW m, Len(m) \in Nat, NEW k \in Nat, k > Len(m), NEW t, InMerge(E, m, k, t)
  PROVE  IF Len(m) = 1 THEN E = {t} ELSE InClean(E, 0, t)
<1>1. PICK first, after :
        /\ E = IF Len(m) = 1 THEN after[Len(m)] ELSE Ops!CleanUp(after[Len(m)])
        /\ k <= Len(m) + 1
        /\ after[k - 1] = {t}
  BY DEF InMerge
<1>2. k - 1 = Len(m)
  BY <1>1
<1>3. after[Len(m)] = {t}
  BY <1>1, <1>2
<1>4. IF Len(m) = 1 THEN E = {t} ELSE E = Ops!CleanUp({t})
  BY <1>1, <1>3
<1> QED BY <1>4, CleanStart

LEMMA DeleteStart ==
  ASSUME NEW t \in Tables, NEW v
  PROVE  InDelete({Ops!DeleteFromTable(t, v)}, v, 0, NumSlots, t)
<1>1. ~(NumSlots < NumSlots)
  BY SizesAssumption
<1> QED BY <1>1, PassedEnds DEF InDelete

LEMMA CleanDeletes ==
  ASSUME NEW t \in Tables, NEW E, NEW c \in Slot, InClean(E, c, t), ~t.records[c].reachable
  PROVE  InDelete(E, t.records[c].chatName, 0, c, t)
<1>1. c < NumSlots
  BY SizesAssumption DEF Slot
<1>2. t.records[c] = [chatName |-> t.records[c].chatName, reachable |-> FALSE]
  BY DEF Tables, Record
<1> DEFINE v == t.records[c].chatName
<1>3. t = Passed(t, v, 0)
  BY PassedEnds
<1>4. t.records[c] = [chatName |-> v, reachable |-> FALSE]
  BY <1>2
<1> HIDE DEF v
<1>5. InDelete(E, v, 0, c, t)
  BY <1>1, <1>3, <1>4 DEF InDelete
<1> QED BY <1>5 DEF v

LEMMA DeleteNext ==
  ASSUME NEW E, NEW v, NEW k \in Slot, NEW c, NEW t, InDelete(E, v, k, c, t)
  PROVE  IF v \in {t.slots[k].chatName, t.slots[k].nextChatName}
         THEN InDelete(E, v, k + 1, c,
                       [slots |-> [t.slots EXCEPT ![k] = Null],
                        records |-> [t.records EXCEPT ![k] = [t.records[k] EXCEPT !.reachable = FALSE]]])
         ELSE InDelete(E, v, k + 1, c, t)
<1>1. PICK u \in Tables :
        /\ t = Passed(u, v, k)
        /\ IF c < NumSlots
           THEN InClean(E, c, u) /\ u.records[c] = [chatName |-> v, reachable |-> FALSE]
           ELSE E = {Ops!DeleteFromTable(u, v)}
  BY DEF InDelete
<1>2. InDelete(E, v, k + 1, c, Passed(u, v, k + 1))
  BY <1>1 DEF InDelete
<1>3. IF v \in {t.slots[k].chatName, t.slots[k].nextChatName}
      THEN Passed(u, v, k + 1) =
             [slots |-> [t.slots EXCEPT ![k] = Null],
              records |-> [t.records EXCEPT ![k] = [t.records[k] EXCEPT !.reachable = FALSE]]]
      ELSE Passed(u, v, k + 1) = t
  BY <1>1, PassedNext
<1> QED BY <1>2, <1>3

LEMMA DeleteDone ==
  ASSUME NEW E, NEW v, v # NoName, NEW c, NEW t, InDelete(E, v, NumSlots, c, t)
  PROVE  IF c < NumSlots THEN InReport(E, c, t) ELSE E = {t}
<1>1. PICK u \in Tables :
        /\ t = Passed(u, v, NumSlots)
        /\ IF c < NumSlots
           THEN InClean(E, c, u) /\ u.records[c] = [chatName |-> v, reachable |-> FALSE]
           ELSE E = {Ops!DeleteFromTable(u, v)}
  BY DEF InDelete
<1>2. t = Ops!DeleteFromTable(u, v)
  BY <1>1, PassedEnds
<1>3. CASE c < NumSlots
  <2>1. u.records[c].chatName = v /\ u.records[c].reachable = FALSE
    BY <1>1, <1>3
  <2> QED BY <1>1, <1>2, <1>3, <2>1 DEF InReport
<1> QED BY <1>1, <1>2, <1>3

LEMMA ReportDone ==
  ASSUME NEW E, NEW c \in Slot, NEW t, InReport(E, c, t)
  PROVE  InClean(E, c + 1, [slots |-> t.slots,
                            records |-> [t.records EXCEPT ![c] = [t.records[c] EXCEPT !.chatName = NoName]]])
<1>1. PICK u \in Tables :
        /\ InClean(E, c, u)
        /\ u.records[c].chatName # NoName
        /\ ~u.records[c].reachable
        /\ t = Ops!DeleteFromTable(u, u.records[c].chatName)
  BY DEF InReport
<1>2. Ops!CleanUpSlot(u, c) =
        [slots |-> t.slots, records |-> [t.records EXCEPT ![c] = [chatName |-> NoName, reachable |-> FALSE]]]
  BY <1>1, CleanFacts
<1>3. t.records[c] \in Record /\ ~t.records[c].reachable
  BY <1>1, DeletedFacts DEF Tables
<1>4. [t.records[c] EXCEPT !.chatName = NoName] = [chatName |-> NoName, reachable |-> FALSE]
  BY <1>3, ForgottenRecord
<1>5. InClean(E, c + 1, Ops!CleanUpSlot(u, c))
  BY <1>1, CleanNext
<1> QED BY <1>2, <1>4, <1>5

-----------------------------------------------------------------------------
(***************************************************************************)
(* The arguments of the calls.                                             *)
(***************************************************************************)
LEMMA LabelKinds ==
  /\ \A l \in {"idle", "update", "entry", "cleanUp", "unreachable", "route", "lookup"} : l \notin Deleting
  /\ \A l \in Deleting : l \notin {"idle", "update", "entry", "cleanUp", "unreachable", "route", "lookup"}
BY DEF Deleting

LEMMA ArgumentsInit == Init => Arguments
BY LabelKinds, ServerIsThread DEF Init, Arguments

LEMMA ArgumentsNext ==
  ASSUME TypeOK, Control, Arguments, [Next]_vars
  PROVE  Arguments'
<1> USE ServerIsThread DEF Arguments
<1>t. /\ pc \in [Threads -> Labels] /\ victim \in [Deleters -> Name \cup {NoName}]
      /\ Server \in Threads
  BY DEF TypeOK
<1>1. ASSUME UNCHANGED <<message, cleanSlot, victim>>,
             NEW t \in Threads, NEW l, Goto(t, l),
             l \in Deleting <=> pc[t] \in Deleting,
             t = Server /\ pc[t] \in {"update", "entry", "cleanUp", "unreachable"} =>
               l \in {"update", "entry", "cleanUp", "unreachable"}
      PROVE  Arguments'
  BY <1>t, <1>1, LabelsKept, ServerIsThread
<1>2. ASSUME UNCHANGED <<message, pc, victim>>, pc[Server] \in {"entry", "cleanUp"} \/ UNCHANGED cleanSlot
      PROVE  Arguments'
  BY <1>2
<1>3. ASSUME NEW m, TableUpdate(m) PROVE Arguments'
  BY <1>t, <1>3, LabelsKept, LabelKinds, ServerIsThread DEF TableUpdate, deleteLocals
<1>4. CASE UpdateLock
  BY <1>1, <1>4, LabelKinds, ServerIsThread DEF UpdateLock, updateLocals, deleteLocals
<1>5. ASSUME NextEntry PROVE Arguments'
  BY <1>2, <1>5 DEF NextEntry, deleteLocals
<1>6. CASE UpdateEnd
  <2>1. PICK l \in {"idle", "cleanUp"} : Goto(Server, l) /\ (l = "idle" => message' = <<>>)
    BY <1>6 DEF UpdateEnd
  <2>2. pc[Server] = "entry" /\ UNCHANGED victim
    BY <1>6 DEF UpdateEnd, deleteLocals
  <2>3. message' = <<>> \/ pc'[Server] = "cleanUp"
    BY <1>t, <2>1, LabelsKept
  <2> QED BY <1>t, <2>1, <2>2, <2>3, LabelsKept, LabelKinds, ServerIsThread
<1>7. CASE CleanUpSlot
  <2>1. CASE UNCHANGED <<pc, victim>>
    BY <1>2, <1>7, <2>1 DEF CleanUpSlot
  <2>2. CASE /\ victim' = [victim EXCEPT ![Server] = reachbleTable[cleanSlot].chatName]
             /\ reachbleTable[cleanSlot].chatName # NoName
             /\ Goto(Server, "delRoute") /\ UNCHANGED <<message, cleanSlot>> /\ cleanSlot < NumSlots
    <3>1. "delRoute" \in Deleting /\ pc'[Server] = "delRoute" /\ \A u \in Threads \ {Server} : pc'[u] = pc[u]
      BY <1>t, <2>2, LabelsKept DEF Deleting
    <3>2. victim'[Server] # NoName /\ \A u \in Deleters \ {Server} : victim'[u] = victim[u]
      BY <1>t, <2>2
    <3> QED BY <2>2, <3>1, <3>2, ServerIsThread
  <2> QED BY <1>7, <2>1, <2>2 DEF CleanUpSlot
<1>8. CASE Unreachable
  <2>1. UNCHANGED <<message, victim>> /\ Goto(Server, "cleanUp") /\ pc[Server] = "unreachable"
    BY <1>8 DEF Unreachable, deleteLocals
  <2> QED BY <1>t, <2>1, LabelsKept, LabelKinds, ServerIsThread
<1>9. CASE CleanUpEnd
  <2>1. message' = <<>> /\ UNCHANGED victim /\ Goto(Server, "idle") /\ pc[Server] = "cleanUp"
    BY <1>9 DEF CleanUpEnd, deleteLocals
  <2> QED BY <1>t, <2>1, LabelsKept, LabelKinds, ServerIsThread
<1>10. ASSUME NEW t \in Threads, GetRouting(t) PROVE Arguments'
  BY <1>1, <1>10, LabelKinds DEF GetRouting, updateLocals, deleteLocals
<1>11. ASSUME NEW t \in Threads, GetRoutingLock(t) \/ GetRoutingReturn(t) PROVE Arguments'
  <2>1. UNCHANGED <<message, cleanSlot, victim>>
    BY <1>11 DEF GetRoutingLock, GetRoutingReturn, updateLocals, deleteLocals
  <2>2. \/ pc[t] = "route" /\ Goto(t, "lookup")
        \/ pc[t] = "delRoute" /\ Goto(t, "delLookup")
        \/ pc[t] = "lookup" /\ Goto(t, "idle")
        \/ pc[t] = "delLookup" /\ Goto(t, "delete")
    BY <1>11 DEF GetRoutingLock, GetRoutingReturn
  <2>3. {"delRoute", "delLookup", "delete"} \subseteq Deleting
    BY DEF Deleting
  <2> QED BY <1>1, <2>1, <2>2, <2>3, LabelKinds
<1>12. ASSUME NEW t \in Deleters, NEW n \in Name, DeleteFromTable(t, n) PROVE Arguments'
  <2>1. /\ victim' = [victim EXCEPT ![t] = n] /\ Goto(t, "delRoute") /\ UNCHANGED <<message, cleanSlot>>
        /\ pc[t] = "idle"
    BY <1>12 DEF DeleteFromTable, updateLocals
  <2>2. "delRoute" \in Deleting /\ pc'[t] = "delRoute" /\ \A u \in Threads \ {t} : pc'[u] = pc[u]
    BY <1>t, <2>1, LabelsKept, ServerIsThread DEF Deleting
  <2>3. victim'[t] # NoName /\ \A u \in Deleters \ {t} : victim'[u] = victim[u]
    BY <1>t, <2>1, NamesAssumption
  <2> QED BY <2>1, <2>2, <2>3, ServerIsThread
<1>13. ASSUME NEW t \in Deleters, DeleteLock(t) \/ DeleteScan(t) \/ DeleteRemove(t) PROVE Arguments'
  <2>1. UNCHANGED <<message, cleanSlot, victim>>
    BY <1>13 DEF DeleteLock, DeleteScan, DeleteRemove, updateLocals, deleteLocals
  <2>2. \/ pc[t] \in {"delete", "scan", "remove"} /\ \E l \in {"scan", "remove"} : Goto(t, l)
        \/ UNCHANGED pc
    BY <1>13 DEF DeleteLock, DeleteScan, DeleteRemove
  <2>3. {"delete", "scan", "remove"} \subseteq Deleting
    BY DEF Deleting
  <2> QED BY <1>1, <1>2, <2>1, <2>2, <2>3, LabelKinds, ServerIsThread
<1>14. ASSUME NEW t \in Deleters, DeleteReturn(t) PROVE Arguments'
  <2>1. PICK l \in {"unreachable", "idle"} : Goto(t, l)
    BY <1>14 DEF DeleteReturn
  <2>2. victim' = [victim EXCEPT ![t] = NoName] /\ UNCHANGED <<message, cleanSlot>> /\ pc[t] = "scan"
    BY <1>14 DEF DeleteReturn, updateLocals
  <2>3. pc'[t] = l /\ l \notin Deleting /\ \A u \in Threads \ {t} : pc'[u] = pc[u]
    BY <1>t, <2>1, LabelsKept, LabelKinds, ServerIsThread
  <2>4. victim'[t] = NoName /\ \A u \in Deleters \ {t} : victim'[u] = victim[u]
    BY <1>t, <2>2
  <2> QED BY <2>2, <2>3, <2>4, ServerIsThread
<1>15. CASE UNCHANGED vars
  BY <1>15 DEF vars, updateLocals, deleteLocals
<1>16. ASSUME Call PROVE Arguments'
  BY <1>3, <1>10, <1>12, <1>16, ServerIsThread DEF Call, Login, Logout, HeartBeatTimeout
<1>17. ASSUME NEW t \in Threads, Step(t) PROVE Arguments'
  BY <1>4, <1>5, <1>6, <1>7, <1>8, <1>9, <1>11, <1>13, <1>14, <1>17
     DEF Step, ServerStep, AddEntry, RefreshEntry, DeleteStep, GetRoutingStep
<1> QED BY <1>15, <1>16, <1>17 DEF Next

-----------------------------------------------------------------------------
(***************************************************************************)
(* One call at a time: where each step leads.                              *)
(***************************************************************************)
Context == TypeOK /\ Control /\ RecordsMatch /\ Arguments /\ OneByOne

LEMMA Landing ==
  ASSUME NEW t \in Threads,
         \A u \in Threads \ {t} : pc'[u] = "idle",
         \/ pc'[t] \in {"idle", "route", "lookup"} /\ expected' = {Table'}
         \/ t = Server /\ pc'[t] \in {"update", "entry"} /\ InMerge(expected', message', entryIndex', Table')
         \/ t = Server /\ pc'[t] = "cleanUp" /\ InClean(expected', cleanSlot', Table')
         \/ /\ t \in Deleters /\ pc'[t] \in Deleting
            /\ InDelete(expected', victim'[t], scanSlot'[t], IF t = Server THEN cleanSlot' ELSE NumSlots, Table')
         \/ t = Server /\ pc'[t] = "unreachable" /\ InReport(expected', cleanSlot', Table')
  PROVE  OneCall' /\ OnTheWay'
<1> USE ServerIsThread
<1>1. OneCall'
  BY DEF OneCall
<1>2. Idle' => expected' = {Table'}
  BY LabelKinds DEF Idle
<1>3. \A u \in Threads : pc'[u] \in {"route", "lookup"} => expected' = {Table'}
  BY LabelKinds
<1>4. pc'[Server] \in {"update", "entry"} => InMerge(expected', message', entryIndex', Table')
  BY LabelKinds
<1>5. pc'[Server] = "cleanUp" => InClean(expected', cleanSlot', Table')
  BY LabelKinds
<1>6. ASSUME NEW u \in Deleters, pc'[u] \in Deleting
      PROVE  InDelete(expected', victim'[u], scanSlot'[u], Cleaned(u)', Table')
  <2>1. u = t
    BY <1>6, LabelKinds
  <2> QED BY <1>6, <2>1, LabelKinds DEF Cleaned
<1>7. pc'[Server] = "unreachable" => InReport(expected', cleanSlot', Table')
  BY LabelKinds
<1> QED BY <1>1, <1>2, <1>3, <1>4, <1>5, <1>6, <1>7 DEF OnTheWay

\* The thread that takes a step is the one that executes the call.
LEMMA OthersIdle ==
  ASSUME Context, NEW t \in Threads, pc[t] # "idle", NEW l, Goto(t, l) \/ (UNCHANGED pc /\ l = pc[t])
  PROVE  pc'[t] = l /\ \A u \in Threads \ {t} : pc'[u] = "idle"
BY LabelsKept DEF Context, OneByOne, OneCall

\* Steps that lead to a label without a removal behind it.
LEMMA CountedKept ==
  ASSUME Counted, UNCHANGED <<routingTable, freeEntries>> PROVE Counted'
BY DEF Counted, Used

LEMMA TableKept == ASSUME UNCHANGED <<routingTable, reachbleTable>> PROVE Table' = Table
BY DEF Table

LEMMA NotRemoving ==
  ASSUME NEW t \in Threads, \A u \in Threads \ {t} : pc'[u] = "idle", pc'[t] # "remove"
  PROVE  Removing'
BY ServerIsThread DEF Removing

LEMMA CallBegins ==
  ASSUME IInv, Arguments, OneByOne, Idle, Call, expected' = Result
  PROVE  OneByOne'
<1> USE ServerIsThread
<1>t. /\ TypeOK /\ Control /\ RecordsMatch /\ Context /\ message = <<>> /\ Table \in Tables
      /\ victim = [u \in Deleters |-> NoName] /\ entryIndex = 1 /\ cleanSlot = NumSlots
      /\ scanSlot = [u \in Deleters |-> 0] /\ Server \in Threads
  <2>1. TypeOK /\ Control /\ RecordsMatch
    BY DEF IInv, TypeInv, TableInv
  <2>2. \A u \in Threads : pc[u] = "idle"
    BY DEF Idle
  <2>3. \A u \in Deleters : victim[u] = NoName /\ scanSlot[u] = 0
    BY <2>1, <2>2, LabelKinds DEF Arguments, Control
  <2>4. entryIndex = 1 /\ cleanSlot = NumSlots
    <3>1. pc[Server] = "idle" /\ pc[Server] \notin Deleting \cup {"cleanUp", "unreachable"}
      BY <2>2, LabelKinds
    <3> QED BY <2>1, <3>1, SizesAssumption DEF TypeOK, Control
  <2>5. message = <<>>
    BY <2>2, <2>4, SizesAssumption DEF Arguments
  <2>6. victim = [u \in Deleters |-> NoName] /\ scanSlot = [u \in Deleters |-> 0]
    BY <2>1, <2>3 DEF TypeOK
  <2> QED BY <2>1, <2>4, <2>5, <2>6, TableTypes DEF Context
<1>1. ASSUME NEW m \in Seq(Entry), m # <<>>, TableUpdate(m) PROVE OneByOne'
  <2>1. /\ message' = m /\ Goto(Server, "update") /\ UNCHANGED tables /\ entryIndex' = 1
    BY <1>t, <1>1 DEF TableUpdate
  <2>2. pc'[Server] = "update" /\ \A u \in Threads \ {Server} : pc'[u] = "idle"
    BY <1>t, <2>1, LabelsKept DEF Idle
  <2>3. Table' = Table
    BY <2>1, TableKept DEF tables
  <2>4. expected' = Ops!TableUpdate(Table, m)
    BY <1>1, <2>1 DEF Result
  <2>5. InMerge(expected', message', entryIndex', Table')
    BY <2>1, <2>3, <2>4, MergeStart
  <2>6. Counted'
    BY <2>1, CountedKept DEF tables, OneByOne
  <2>7. OneCall' /\ OnTheWay'
    BY <1>t, <2>2, <2>5, Landing
  <2> QED BY <1>t, <2>2, <2>6, <2>7, NotRemoving DEF OneByOne
<1>2. ASSUME NEW t \in Deleters, NEW n \in Name, DeleteFromTable(t, n) PROVE OneByOne'
  <2>1. /\ victim' = [victim EXCEPT ![t] = n] /\ Goto(t, "delRoute")
        /\ UNCHANGED tables /\ message' = <<>> /\ cleanSlot' = NumSlots /\ scanSlot'[t] = 0
    BY <1>t, <1>2 DEF DeleteFromTable, updateLocals
  <2>2. pc'[t] = "delRoute" /\ \A u \in Threads \ {t} : pc'[u] = "idle"
    BY <1>t, <2>1, LabelsKept DEF Idle
  <2>3. Table' = Table
    BY <2>1, TableKept DEF tables
  <2>4. /\ victim' # victim /\ victim'[t] = n
        /\ {u \in Deleters : victim'[u] # NoName} = {t}
    BY <1>t, <2>1, NamesAssumption
  <2>5. expected' = {Ops!DeleteFromTable(Table, n)}
    BY <2>1, <2>4 DEF Result
  <2>6. InDelete(expected', victim'[t], scanSlot'[t], IF t = Server THEN cleanSlot' ELSE NumSlots, Table')
    BY <1>t, <2>1, <2>3, <2>4, <2>5, DeleteStart
  <2>7. Counted'
    BY <2>1, CountedKept DEF tables, OneByOne
  <2>8. OneCall' /\ OnTheWay'
    BY <2>2, <2>6, Landing DEF Deleting
  <2> QED BY <2>2, <2>7, <2>8, NotRemoving DEF OneByOne
<1>3. ASSUME NEW t \in Threads, GetRouting(t) PROVE OneByOne'
  <2>1. Goto(t, "route") /\ UNCHANGED tables /\ message' = <<>> /\ victim' = victim
    BY <1>t, <1>3 DEF GetRouting, updateLocals, deleteLocals
  <2>2. pc'[t] = "route" /\ \A u \in Threads \ {t} : pc'[u] = "idle"
    BY <1>t, <2>1, LabelsKept DEF Idle
  <2>3. Table' = Table
    BY <2>1, TableKept DEF tables
  <2>4. expected' = {Table'}
    BY <2>1, <2>3 DEF Result
  <2>5. Counted'
    BY <2>1, CountedKept DEF tables, OneByOne
  <2>6. OneCall' /\ OnTheWay'
    BY <2>2, <2>4, Landing
  <2> QED BY <2>2, <2>5, <2>6, NotRemoving DEF OneByOne
<1>4. ASSUME NEW n \in Name, Login(n) PROVE OneByOne'
  <2>1. <<LoginEntry(n)>> \in Seq(Entry) /\ <<LoginEntry(n)>> # <<>>
    BY LoginIsEntry
  <2> QED BY <1>1, <1>4, <2>1 DEF Login
<1>5. ASSUME NEW m \in Routes, TableUpdate(m) PROVE OneByOne'
  <2>1. PICK x \in Name \ {Own} : Announces(m, x)
    BY RoutesAssumption
  <2>2. m \in Seq(Entry) /\ m # <<>>
    BY <2>1 DEF Announces
  <2> QED BY <1>1, <1>5, <2>2
<1> QED BY <1>2, <1>3, <1>4, <1>5 DEF Call, Logout, HeartBeatTimeout

LEMMA MergeSteps ==
  ASSUME IInv, Context, UNCHANGED expected, UpdateLock \/ AddEntry \/ RefreshEntry \/ UpdateEnd
  PROVE  OneByOne'
<1> USE ServerIsThread
<1>t. /\ TypeOK /\ RecordsMatch /\ Counted /\ message \in Seq(Entry) /\ entryIndex \in Nat \ {0}
      /\ Server \in Threads /\ pc[Server] # "idle"
      /\ InMerge(expected, message, entryIndex, Table)
  BY DEF Context, OneByOne, OnTheWay, TypeOK, UpdateLock, AddEntry, RefreshEntry, NextEntry, UpdateEnd
<1>1. CASE UpdateLock
  <2>1. Goto(Server, "entry") /\ UNCHANGED <<tables, message, entryIndex>>
    BY <1>1 DEF UpdateLock, updateLocals
  <2>2. pc'[Server] = "entry" /\ \A u \in Threads \ {Server} : pc'[u] = "idle"
    BY <1>t, <2>1, OthersIdle
  <2>3. Counted' /\ Table' = Table
    BY <1>t, <2>1, CountedKept, TableKept DEF tables
  <2>4. OneCall' /\ OnTheWay'
    BY <1>t, <2>1, <2>2, <2>3, Landing
  <2> QED BY <1>t, <2>2, <2>3, <2>4, NotRemoving DEF OneByOne
<1>2. CASE AddEntry \/ RefreshEntry
  <2>1. NextEntry
    BY <1>2 DEF AddEntry, RefreshEntry
  <2>2. Table' = Ops!PutEntry(Table, message[entryIndex]) /\ Counted'
    BY <1>t, <1>2, AddPuts, RefreshPuts
  <2>3. /\ entryIndex \in 1 .. Len(message) /\ Len(message) \in Nat
        /\ entryIndex' = entryIndex + 1 /\ UNCHANGED <<pc, message>> /\ pc[Server] = "entry"
    BY <1>t, <2>1 DEF NextEntry
  <2>4. InMerge(expected', message', entryIndex', Table')
    BY <1>t, <2>2, <2>3, MergeNext
  <2>5. pc'[Server] = "entry" /\ \A u \in Threads \ {Server} : pc'[u] = "idle"
    BY <1>t, <2>3, OthersIdle
  <2>6. OneCall' /\ OnTheWay'
    BY <1>t, <2>4, <2>5, Landing
  <2> QED BY <1>t, <2>2, <2>5, <2>6, NotRemoving DEF OneByOne
<1>3. CASE UpdateEnd
  <2>1. /\ UNCHANGED tables /\ entryIndex > Len(message) /\ Len(message) \in Nat
        /\ IF Len(message) = 1 THEN Goto(Server, "idle") ELSE Goto(Server, "cleanUp") /\ cleanSlot' = 0
    BY <1>t, <1>3 DEF UpdateEnd
  <2>2. Counted' /\ Table' = Table
    BY <1>t, <2>1, CountedKept, TableKept DEF tables
  <2>3. IF Len(message) = 1 THEN expected = {Table} ELSE InClean(expected, 0, Table)
    BY <1>t, <2>1, MergeDone
  <2>4. PICK l \in {"idle", "cleanUp"} : Goto(Server, l) /\ IF l = "idle" THEN expected' = {Table'}
                                                           ELSE InClean(expected', cleanSlot', Table')
    BY <2>1, <2>2, <2>3
  <2>5. pc'[Server] = l /\ \A u \in Threads \ {Server} : pc'[u] = "idle"
    BY <1>t, <2>4, OthersIdle
  <2>6. OneCall' /\ OnTheWay'
    BY <1>t, <2>4, <2>5, Landing
  <2> QED BY <1>t, <2>2, <2>5, <2>6, NotRemoving DEF OneByOne
<1> QED BY <1>1, <1>2, <1>3

LEMMA CleanSteps ==
  ASSUME IInv, Context, UNCHANGED expected, CleanUpSlot \/ Unreachable \/ CleanUpEnd
  PROVE  OneByOne'
<1> USE ServerIsThread
<1>t. /\ Counted /\ Server \in Threads /\ pc[Server] # "idle" /\ Table \in Tables
      /\ reachbleTable \in [Slot -> Record] /\ cleanSlot \in 0 .. NumSlots /\ TypeOK /\ Control
  BY TableTypes DEF Context, OneByOne, TypeOK, CleanUpSlot, Unreachable, CleanUpEnd
<1>s. Table.slots = routingTable /\ Table.records = reachbleTable
  BY DEF Table
<1>1. CASE CleanUpSlot
  <2> DEFINE r == reachbleTable[cleanSlot]
  <2>1. /\ pc[Server] = "cleanUp" /\ cleanSlot \in Slot /\ r \in Record
        /\ UNCHANGED <<routingTable, freeEntries, scanSlot>>
    BY <1>t, <1>1, SlotFacts DEF CleanUpSlot
  <2>2. InClean(expected, cleanSlot, Table)
    BY <2>1 DEF Context, OneByOne, OnTheWay
  <2>3. InClean(expected, cleanSlot + 1, Ops!CleanUpSlot(Table, cleanSlot))
    BY <2>1, <2>2, CleanNext
  <2>4. Counted'
    BY <1>t, <2>1, CountedKept
  <2>5. CASE cleanSlot' = cleanSlot + 1 /\ UNCHANGED pc /\ Table' = Ops!CleanUpSlot(Table, cleanSlot)
    <3>1. pc'[Server] = "cleanUp" /\ \A u \in Threads \ {Server} : pc'[u] = "idle"
      BY <1>t, <2>1, <2>5, OthersIdle
    <3>2. InClean(expected', cleanSlot', Table')
      BY <2>3, <2>5
    <3>3. OneCall' /\ OnTheWay'
      BY <1>t, <3>1, <3>2, Landing
    <3> QED BY <1>t, <2>4, <3>1, <3>3, NotRemoving DEF OneByOne
  <2>6. CASE r.chatName = NoName /\ cleanSlot' = cleanSlot + 1 /\ UNCHANGED <<reachbleTable, pc>>
    <3>1. Ops!CleanUpSlot(Table, cleanSlot) = Table
      BY <1>t, <1>s, <2>1, <2>6, CleanFacts
    <3> QED BY <2>1, <2>5, <2>6, <3>1, TableKept
  <2>7. CASE /\ r.chatName # NoName /\ r.reachable
             /\ reachbleTable' = [reachbleTable EXCEPT ![cleanSlot].reachable = FALSE]
             /\ cleanSlot' = cleanSlot + 1 /\ UNCHANGED pc
    <3> DEFINE mark == [reachbleTable EXCEPT ![cleanSlot] = [r EXCEPT !.reachable = FALSE]]
    <3>1. Ops!CleanUpSlot(Table, cleanSlot) = [slots |-> routingTable, records |-> mark]
      BY <1>t, <1>s, <2>1, <2>7, CleanFacts
    <3>2. reachbleTable' = mark
      BY <2>7
    <3>3. Table' = [slots |-> routingTable, records |-> mark]
      BY <2>1, <3>2 DEF Table
    <3> QED BY <2>5, <2>7, <3>1, <3>3
  <2>8. CASE /\ r.chatName # NoName /\ ~r.reachable
             /\ victim' = [victim EXCEPT ![Server] = r.chatName]
             /\ Goto(Server, "delRoute") /\ UNCHANGED <<reachbleTable, cleanSlot>>
    <3>1. pc'[Server] = "delRoute" /\ \A u \in Threads \ {Server} : pc'[u] = "idle"
      BY <1>t, <2>8, OthersIdle
    <3>2. scanSlot'[Server] = 0 /\ victim'[Server] = r.chatName /\ cleanSlot' = cleanSlot
      BY <1>t, <2>1, <2>8 DEF Control, TypeOK
    <3>3. Table' = Table
      BY <2>1, <2>8, TableKept
    <3>4. InDelete(expected, r.chatName, 0, cleanSlot, Table)
      BY <1>t, <1>s, <2>1, <2>2, <2>8, CleanDeletes
    <3>5. InDelete(expected', victim'[Server], scanSlot'[Server],
                   IF Server = Server THEN cleanSlot' ELSE NumSlots, Table')
      BY <3>2, <3>3, <3>4
    <3>6. OneCall' /\ OnTheWay'
      BY <1>t, <3>1, <3>5, Landing DEF Deleting
    <3> QED BY <1>t, <2>4, <3>1, <3>6, NotRemoving DEF OneByOne
  <2> QED BY <1>1, <2>6, <2>7, <2>8 DEF CleanUpSlot
<1>2. CASE Unreachable
  <2>1. /\ pc[Server] = "unreachable" /\ cleanSlot \in Slot
        /\ reachbleTable' = [reachbleTable EXCEPT ![cleanSlot] = [reachbleTable[cleanSlot] EXCEPT !.chatName = NoName]]
        /\ cleanSlot' = cleanSlot + 1 /\ Goto(Server, "cleanUp")
        /\ UNCHANGED <<routingTable, freeEntries>>
    BY <1>t, <1>2, SlotFacts DEF Unreachable, Control
  <2>2. InReport(expected, cleanSlot, Table)
    BY <2>1 DEF Context, OneByOne, OnTheWay
  <2>3. InClean(expected, cleanSlot + 1, Table')
    <3>1. Table' = [slots |-> Table.slots,
                    records |-> [Table.records EXCEPT ![cleanSlot] = [Table.records[cleanSlot] EXCEPT !.chatName = NoName]]]
      BY <2>1 DEF Table
    <3> QED BY <2>1, <2>2, <3>1, ReportDone
  <2>4. pc'[Server] = "cleanUp" /\ \A u \in Threads \ {Server} : pc'[u] = "idle"
    BY <1>t, <2>1, OthersIdle
  <2>5. OneCall' /\ OnTheWay'
    BY <1>t, <2>1, <2>3, <2>4, Landing
  <2> QED BY <1>t, <2>1, <2>4, <2>5, CountedKept, NotRemoving DEF OneByOne
<1>3. CASE CleanUpEnd
  <2>1. pc[Server] = "cleanUp" /\ cleanSlot = NumSlots /\ UNCHANGED tables /\ Goto(Server, "idle")
    BY <1>3 DEF CleanUpEnd
  <2>2. InClean(expected, cleanSlot, Table)
    BY <2>1 DEF Context, OneByOne, OnTheWay
  <2>3. Counted' /\ Table' = Table
    BY <1>t, <2>1, CountedKept, TableKept DEF tables
  <2>4. expected' = {Table'}
    BY <2>1, <2>2, <2>3, CleanDone
  <2>5. pc'[Server] = "idle" /\ \A u \in Threads \ {Server} : pc'[u] = "idle"
    BY <1>t, <2>1, OthersIdle
  <2>6. OneCall' /\ OnTheWay'
    BY <1>t, <2>4, <2>5, Landing
  <2> QED BY <1>t, <2>3, <2>5, <2>6, NotRemoving DEF OneByOne
<1> QED BY <1>1, <1>2, <1>3

LEMMA DeleteSteps ==
  ASSUME IInv, Context, UNCHANGED expected, NEW t \in Deleters, DeleteStep(t)
  PROVE  OneByOne'
<1> USE ServerIsThread
<1>t. /\ TypeOK /\ Control /\ Arguments /\ Counted /\ Removing
      /\ t \in Threads /\ pc[t] # "idle" /\ pc[t] \in Deleting
      /\ scanSlot \in [Deleters -> 0 .. NumSlots] /\ victim[t] # NoName
  BY DEF Context, OneByOne, Arguments, DeleteStep, DeleteLock, DeleteScan, DeleteRemove, DeleteReturn,
         Deleting, TypeOK
<1>s. Table.slots = routingTable /\ Table.records = reachbleTable
  BY DEF Table
<1> DEFINE v == victim[t]
           k == scanSlot[t]
           c == IF t = Server THEN cleanSlot ELSE NumSlots
<1>1. InDelete(expected, v, k, c, Table)
  BY <1>t DEF Context, OneByOne, OnTheWay, Cleaned
<1>2. ASSUME NEW l \in Deleting, Goto(t, l), UNCHANGED <<expected, victim, scanSlot, cleanSlot, tables>>,
             l = "remove" => v \in {routingTable[k].chatName, routingTable[k].nextChatName}
      PROVE  OneByOne'
  <2>1. pc'[t] = l /\ \A u \in Threads \ {t} : pc'[u] = "idle"
    BY <1>t, <1>2, OthersIdle
  <2>2. Counted' /\ Table' = Table
    BY <1>t, <1>2, CountedKept, TableKept DEF tables
  <2>3. InDelete(expected', victim'[t], scanSlot'[t], IF t = Server THEN cleanSlot' ELSE NumSlots, Table')
    BY <1>1, <1>2, <2>2
  <2>4. OneCall' /\ OnTheWay'
    BY <1>t, <2>1, <2>3, Landing
  <2>5. Removing'
    BY <1>2, <2>1 DEF Removing, tables
  <2> QED BY <2>2, <2>4, <2>5 DEF OneByOne
<1>3. CASE DeleteLock(t)
  BY <1>2, <1>3 DEF DeleteLock, Deleting, updateLocals, deleteLocals
<1>4. CASE DeleteScan(t)
  <2>1. /\ pc[t] = "scan" /\ k \in Slot /\ UNCHANGED <<tables, cleanSlot, victim>>
    BY <1>t, <1>4, SlotFacts DEF DeleteScan, updateLocals
  <2>2. CASE v \in {routingTable[k].chatName, routingTable[k].nextChatName}
    BY <1>2, <1>4, <2>1, <2>2 DEF DeleteScan, Deleting
  <2>3. CASE v \notin {routingTable[k].chatName, routingTable[k].nextChatName}
    <3>1. scanSlot' = [scanSlot EXCEPT ![t] = k + 1] /\ UNCHANGED pc
      BY <1>4, <2>3 DEF DeleteScan
    <3>2. Counted' /\ Table' = Table
      BY <1>t, <2>1, CountedKept, TableKept DEF tables
    <3>3. pc'[t] = "scan" /\ \A u \in Threads \ {t} : pc'[u] = "idle"
      BY <1>t, <2>1, <3>1, OthersIdle
    <3>4. InDelete(expected, v, k + 1, c, Table)
      BY <1>1, <1>s, <2>1, <2>3, DeleteNext
    <3>5. scanSlot'[t] = k + 1
      BY <1>t, <3>1
    <3>6. InDelete(expected', victim'[t], scanSlot'[t], IF t = Server THEN cleanSlot' ELSE NumSlots, Table')
      BY <2>1, <3>2, <3>4, <3>5
    <3>7. OneCall' /\ OnTheWay'
      BY <1>t, <3>3, <3>6, Landing DEF Deleting
    <3> QED BY <1>t, <3>2, <3>3, <3>7, NotRemoving DEF OneByOne
  <2> QED BY <2>2, <2>3
<1>5. CASE DeleteRemove(t)
  <2>1. /\ pc[t] = "remove" /\ k \in Slot /\ UNCHANGED <<cleanSlot, victim>>
        /\ Goto(t, "scan") /\ scanSlot'[t] = k + 1
    BY <1>t, <1>5, SlotFacts DEF DeleteRemove, Control, updateLocals
  <2>2. v \in {Table.slots[k].chatName, Table.slots[k].nextChatName}
    BY <1>t, <1>s, <2>1 DEF Removing
  <2>3. Table' = [slots |-> [Table.slots EXCEPT ![k] = Null],
                  records |-> [Table.records EXCEPT ![k] = [Table.records[k] EXCEPT !.reachable = FALSE]]]
    BY <1>5 DEF DeleteRemove, Table
  <2>4. InDelete(expected, v, k + 1, c, Table')
    BY <1>1, <2>1, <2>2, <2>3, DeleteNext
  <2>5. InDelete(expected', victim'[t], scanSlot'[t], IF t = Server THEN cleanSlot' ELSE NumSlots, Table')
    BY <2>1, <2>4
  <2>6. pc'[t] = "scan" /\ \A u \in Threads \ {t} : pc'[u] = "idle"
    BY <1>t, <2>1, OthersIdle
  <2>7. Counted'
    BY <1>t, <1>5, RemoveCounted
  <2>8. OneCall' /\ OnTheWay'
    BY <1>t, <2>5, <2>6, Landing DEF Deleting
  <2> QED BY <1>t, <2>6, <2>7, <2>8, NotRemoving DEF OneByOne
<1>6. CASE DeleteReturn(t)
  <2>1. /\ pc[t] = "scan" /\ k = NumSlots /\ UNCHANGED <<tables, cleanSlot>>
        /\ Goto(t, IF t = Server /\ cleanSlot < NumSlots THEN "unreachable" ELSE "idle")
    BY <1>6 DEF DeleteReturn, updateLocals
  <2>2. IF c < NumSlots THEN InReport(expected, c, Table) ELSE expected = {Table}
    BY <1>t, <1>1, <2>1, DeleteDone
  <2>3. Counted' /\ Table' = Table
    BY <1>t, <2>1, CountedKept, TableKept DEF tables
  <2>4. CASE t = Server /\ cleanSlot < NumSlots
    <3>1. pc'[t] = "unreachable" /\ \A u \in Threads \ {t} : pc'[u] = "idle"
      BY <1>t, <2>1, <2>4, OthersIdle
    <3>2. InReport(expected', cleanSlot', Table')
      BY <2>1, <2>2, <2>3, <2>4
    <3>3. OneCall' /\ OnTheWay'
      BY <1>t, <2>4, <3>1, <3>2, Landing
    <3> QED BY <1>t, <2>3, <3>1, <3>3, NotRemoving DEF OneByOne
  <2>5. CASE ~(t = Server /\ cleanSlot < NumSlots)
    <3>1. pc'[t] = "idle" /\ \A u \in Threads \ {t} : pc'[u] = "idle"
      BY <1>t, <2>1, <2>5, OthersIdle
    <3>2. expected' = {Table'}
      BY <2>2, <2>3, <2>5, SizesAssumption
    <3>3. OneCall' /\ OnTheWay'
      BY <1>t, <3>1, <3>2, Landing
    <3> QED BY <1>t, <2>3, <3>1, <3>3, NotRemoving DEF OneByOne
  <2> QED BY <2>4, <2>5
<1> QED BY <1>3, <1>4, <1>5, <1>6 DEF DeleteStep

LEMMA GetRoutingSteps ==
  ASSUME IInv, Context, UNCHANGED expected, NEW t \in Threads, GetRoutingStep(t)
  PROVE  OneByOne'
<1> USE ServerIsThread
<1>t. Counted /\ Arguments /\ pc[t] # "idle"
  BY DEF Context, OneByOne, GetRoutingStep, GetRoutingLock, GetRoutingReturn
<1>1. Counted' /\ Table' = Table /\ UNCHANGED <<victim, scanSlot, cleanSlot>>
  BY <1>t, CountedKept, TableKept
     DEF GetRoutingStep, GetRoutingLock, GetRoutingReturn, tables, updateLocals, deleteLocals
<1>2. PICK l \in {"lookup", "idle", "delLookup", "delete"} :
        /\ Goto(t, l)
        /\ l \in {"lookup", "idle"} => pc[t] \in {"route", "lookup"}
        /\ l \in {"delLookup", "delete"} => pc[t] \in {"delRoute", "delLookup"}
  BY DEF GetRoutingStep, GetRoutingLock, GetRoutingReturn
<1>3. pc'[t] = l /\ \A u \in Threads \ {t} : pc'[u] = "idle"
  BY <1>t, <1>2, OthersIdle
<1>4. CASE l \in {"lookup", "idle"}
  <2>1. expected' = {Table'}
    BY <1>1, <1>2, <1>4 DEF Context, OneByOne, OnTheWay
  <2>2. OneCall' /\ OnTheWay'
    BY <1>3, <1>4, <2>1, Landing
  <2> QED BY <1>1, <1>3, <2>2, NotRemoving DEF OneByOne
<1>5. CASE l \in {"delLookup", "delete"}
  <2>1. t \in Deleters /\ pc[t] \in Deleting /\ l \in Deleting
    BY <1>t, <1>2, <1>5 DEF Arguments, Deleting
  <2>2. InDelete(expected', victim'[t], scanSlot'[t], IF t = Server THEN cleanSlot' ELSE NumSlots, Table')
    BY <1>1, <2>1 DEF Context, OneByOne, OnTheWay, Cleaned
  <2>3. OneCall' /\ OnTheWay'
    BY <1>3, <2>1, <2>2, Landing
  <2> QED BY <1>1, <1>3, <2>3, NotRemoving DEF OneByOne
<1> QED BY <1>4, <1>5

-----------------------------------------------------------------------------
LEMMA CallInit == MCInit => CallInv
<1> SUFFICES ASSUME MCInit PROVE CallInv
  OBVIOUS
<1>1. Init /\ IInv /\ Arguments
  BY TypeInit, TableInit, ThreadInit, ArgumentsInit DEF MCInit, IInv
<1>2. \A t \in Threads : pc[t] = "idle"
  BY <1>1 DEF Init
<1>3. OneCall /\ Removing
  BY <1>2, ServerIsThread DEF OneCall, Removing
<1>4. expected # {} => OnTheWay
  <2>1. expected # {} => expected = {Table}
    BY DEF MCInit
  <2> QED BY <1>2, <2>1, LabelKinds, ServerIsThread DEF OnTheWay
<1>5. Counted
  <2>1. \A i \in Slot : routingTable[i] = IF i = 0 THEN LoginEntry(Own) ELSE Null
    BY <1>1 DEF Init
  <2>2. Slot \ Used = Slot \ {0}
    BY <2>1, LoginIsEntry, EntryNotNull, NamesAssumption DEF Used
  <2>3. Cardinality(Slot \ {0}) = NumSlots - 1
    BY SlotFacts, SlotFinite, FreeFacts
  <2>4. freeEntries = TableSize - 1
    BY <1>1 DEF Init
  <2> QED BY <2>2, <2>3, <2>4, SizesAssumption DEF Counted
<1> QED BY <1>1, <1>3, <1>4, <1>5 DEF CallInv, AloneInv, OneByOne

LEMMA CallNext == CallInv /\ [MCNext]_<<vars, expected>> => CallInv'
<1> SUFFICES ASSUME CallInv, [MCNext]_<<vars, expected>> PROVE CallInv'
  OBVIOUS
<1>1. [Next]_vars
  BY DEF MCNext, Next
<1>2. IInv'
  BY <1>1, TypeNext, TableNext, OthersDeletedNext, MergingNext, CleaningNext
     DEF CallInv, IInv, ThreadInv
<1>3. Arguments'
  BY <1>1, ArgumentsNext DEF CallInv, IInv, TypeInv
<1>4. ASSUME expected = {}, UNCHANGED expected PROVE AloneInv'
  BY <1>4 DEF AloneInv
<1>5. ASSUME expected # {}, Idle, Call, expected' = Result PROVE AloneInv'
  BY <1>5, CallBegins DEF CallInv, AloneInv
<1>6. ASSUME expected # {}, UNCHANGED expected, NEW t \in Threads, Step(t) PROVE AloneInv'
  <2>1. IInv /\ Context
    BY <1>6 DEF CallInv, AloneInv, Context, IInv, TypeInv, TableInv
  <2>2. OneByOne'
    BY <1>6, <2>1, MergeSteps, CleanSteps, DeleteSteps, GetRoutingSteps DEF Step, ServerStep
  <2> QED BY <2>2 DEF AloneInv
<1>7. ASSUME UNCHANGED <<vars, expected>> PROVE AloneInv'
  <2>1. /\ UNCHANGED <<expected, pc, message, entryIndex, cleanSlot, victim, scanSlot>>
        /\ UNCHANGED <<routingTable, freeEntries>> /\ Table' = Table
    BY <1>7 DEF vars, tables, updateLocals, deleteLocals, Table
  <2>2. SUFFICES ASSUME OneByOne PROVE OneByOne'
    BY <2>1 DEF CallInv, AloneInv
  <2>3. Counted' /\ OneCall' /\ Removing'
    BY <2>1, <2>2, CountedKept DEF OneByOne, OneCall, Removing
  <2>4. Idle' => expected' = {Table'}
    BY <2>1, <2>2 DEF OneByOne, OnTheWay, Idle
  <2>5. \A t \in Deleters :
          pc'[t] \in Deleting => InDelete(expected', victim'[t], scanSlot'[t], Cleaned(t)', Table')
    BY <2>1, <2>2 DEF OneByOne, OnTheWay, Cleaned
  <2>6. /\ \A t \in Threads : pc'[t] \in {"route", "lookup"} => expected' = {Table'}
        /\ pc'[Server] \in {"update", "entry"} => InMerge(expected', message', entryIndex', Table')
        /\ pc'[Server] = "cleanUp" => InClean(expected', cleanSlot', Table')
        /\ pc'[Server] = "unreachable" => InReport(expected', cleanSlot', Table')
    BY <2>1, <2>2 DEF OneByOne, OnTheWay
  <2>7. OnTheWay'
    BY <2>4, <2>5, <2>6 DEF OnTheWay
  <2> QED BY <2>3, <2>7 DEF OneByOne
<1>8. AloneInv'
  <2>1. CASE MCNext
    <3>1. CASE expected = {} /\ UNCHANGED expected
      BY <1>4, <3>1
    <3>2. CASE expected # {} /\ Idle /\ Call /\ expected' = Result
      BY <1>5, <3>2
    <3>3. CASE expected # {} /\ \E t \in Threads : Step(t) /\ UNCHANGED expected
      BY <1>6, <3>3
    <3> QED BY <2>1, <3>1, <3>2, <3>3 DEF MCNext
  <2> QED BY <1>7, <2>1
<1> QED BY <1>2, <1>3, <1>8 DEF CallInv

\* A call that no other thread meets leaves the table TableOps gives for it.
THEOREM CallsAreAtomic == MCSpec => []CallsAtomic
<1>1. CallInv => CallsAtomic
  BY DEF CallInv, AloneInv, OneByOne, OnTheWay, CallsAtomic
<1> QED BY CallInit, CallNext, <1>1, PTL DEF MCSpec

-----------------------------------------------------------------------------
(***************************************************************************)
(* Next hops.  Every entry leads through a neighbour of the table, through *)
(* a sender whose own entry the loop has still to merge, or through the    *)
(* name whose entries the running deletion has still to reach.             *)
(***************************************************************************)

\* Who sends an announcement is in it.
SendersNamed(m) ==
  \A k \in DOMAIN m : \E j \in DOMAIN m :
    m[j].chatName = m[k].nextChatName /\ m[j].nextChatName = m[k].nextChatName

Neighbour(slots, n) == \E j \in Slot : slots[j].chatName = n /\ slots[j].nextChatName = n

Scanning(t) == pc[t] \in {"scan", "remove"}

HopsKnown ==
  /\ \A i \in Used :
       \/ Neighbour(routingTable, routingTable[i].nextChatName)
       \/ /\ pc[Server] = "entry"
          /\ \E k \in DOMAIN message : /\ k >= entryIndex
                                       /\ message[k].chatName = routingTable[i].nextChatName
                                       /\ message[k].nextChatName = routingTable[i].nextChatName
       \/ \E t \in Deleters : Scanning(t) /\ scanSlot[t] <= i /\ victim[t] = routingTable[i].nextChatName
  /\ pc[Server] = "entry" =>
       \A k \in DOMAIN message :
         k < entryIndex /\ message[k].chatName = message[k].nextChatName => Neighbour(routingTable, message[k].chatName)
  /\ \A t \in Deleters : Scanning(t) =>
       \A i \in Used : i < scanSlot[t] => routingTable[i].nextChatName # victim[t]

HopInv == CallInv /\ SendersNamed(message) /\ (expected # {} => HopsKnown)

AllKnown == \A i \in Used : Neighbour(routingTable, routingTable[i].nextChatName)

\* With a slot for every name, a new name finds one.
LEMMA RoomForName ==
  ASSUME IsFiniteSet(Name), Cardinality(Name) <= NumSlots,
         TypeOK, UniqueNames, NEW n \in Name, SlotsOf(n) = {}
  PROVE  Slot \ Used # {}
<1> SUFFICES ASSUME Used = Slot PROVE FALSE
  BY DEF Used
<1> DEFINE f == [i \in Slot |-> routingTable[i].chatName]
<1>1. \A i \in Slot : routingTable[i] \in Entry
  BY DEF Used, TypeOK
<1>2. f \in [Slot -> Name \ {n}]
  BY <1>1, EntryNotNull DEF SlotsOf
<1>3. /\ IsFiniteSet(Name \ {n}) /\ Cardinality(Name \ {n}) = Cardinality(Name) - 1
      /\ Cardinality(Name) \in Nat
  BY FS_RemoveElement, FS_CardinalityType
<1>4. Cardinality(Name \ {n}) < Cardinality(Slot)
  BY <1>3, SlotFinite, SizesAssumption
<1> HIDE DEF f
<1>5. \E i, j \in Slot : i # j /\ f[i] = f[j]
  BY <1>2, <1>3, <1>4, SlotFinite, FS_PigeonHole
<1> QED BY <1>5 DEF f, UniqueNames

\* A direct neighbour is not given a longer way.
LEMMA DirectStays ==
  ASSUME TypeOK, TableInv, NEW i \in Used, routingTable[i].chatName = routingTable[i].nextChatName,
         NEW e \in Entry, e.hopCount > 0
  PROVE  ~(routingTable[i].hopCount > e.hopCount)
<1>1. CASE routingTable[i].chatName = Own
  <2>1. 0 \in Used /\ routingTable[0].chatName = Own /\ routingTable[0].hopCount = 0
    BY SlotFacts, LoginIsEntry, EntryNotNull, NamesAssumption
       DEF TableInv, OwnEntryKept, LoginEntry, Used
  <2>2. i = 0
    BY <1>1, <2>1 DEF TableInv, UniqueNames
  <2> QED BY <2>1, <2>2, EntryNotNull
<1>2. CASE routingTable[i].chatName # Own
  <2>1. routingTable[i].hopCount = 1
    BY <1>2 DEF TableInv, DirectIffOneHop
  <2> QED BY <2>1, EntryNotNull
<1> QED BY <1>1, <1>2

LEMMA NobodyElse ==
  ASSUME OneCall, NEW t \in Threads, pc[t] # "idle"
  PROVE  /\ \A u \in Deleters : u # t => ~Scanning(u)
         /\ t # Server => pc[Server] # "entry"
BY ServerIsThread DEF OneCall, Scanning

\* One round of the loop of tableUpdate.
LEMMA MergeKeepsHops ==
  ASSUME TypeOK, OneCall, HopsKnown, SendersNamed(message), NextEntry,
         NEW i \in Slot, NEW e,
         e.nextChatName = message[entryIndex].nextChatName,
         \A l \in Slot : routingTable'[l] \in {routingTable[l], IF l = i THEN e ELSE routingTable[l]},
         \A n \in Name : Neighbour(routingTable, n) => Neighbour(routingTable', n),
         message[entryIndex].chatName = message[entryIndex].nextChatName
           => Neighbour(routingTable', message[entryIndex].chatName)
  PROVE  HopsKnown'
<1>1. /\ pc[Server] = "entry" /\ pc' = pc /\ message' = message /\ entryIndex' = entryIndex + 1
      /\ entryIndex \in DOMAIN message /\ DOMAIN message \subseteq Nat /\ entryIndex \in Nat
      /\ \A k \in DOMAIN message : message[k].chatName \in Name /\ message[k].nextChatName \in Name
  BY EntryNotNull DEF NextEntry, TypeOK
<1>2. \A t \in Deleters : ~Scanning(t) /\ ~Scanning(t)'
  BY <1>1, NobodyElse, ServerIsThread DEF Scanning
<1>3. ASSUME NEW k \in DOMAIN message, message[k].chatName = message[k].nextChatName, k < entryIndex + 1
      PROVE  Neighbour(routingTable', message[k].chatName)
  <2>1. CASE k < entryIndex
    <3>1. Neighbour(routingTable, message[k].chatName)
      BY <1>1, <1>3, <2>1, Zenon DEF HopsKnown
    <3> QED BY <1>1, <3>1, Zenon
  <2>2. CASE k = entryIndex
    BY <1>3, <2>2
  <2> QED BY <1>1, <1>3, <2>1, <2>2
<1>4. ASSUME NEW x \in Name,
             NEW k \in DOMAIN message, message[k].chatName = x, message[k].nextChatName = x
      PROVE  \/ Neighbour(routingTable', x)
             \/ k >= entryIndex + 1
  BY <1>1, <1>3, <1>4
<1>5. ASSUME NEW l \in Used'
      PROVE  \/ Neighbour(routingTable', routingTable'[l].nextChatName)
             \/ \E k \in DOMAIN message : /\ k >= entryIndex + 1
                                          /\ message[k].chatName = routingTable'[l].nextChatName
                                          /\ message[k].nextChatName = routingTable'[l].nextChatName
  <2> DEFINE x == routingTable'[l].nextChatName
  <2>1. l \in Slot /\ routingTable'[l] # Null
    BY <1>5 DEF Used
  <2>2. CASE routingTable'[l] = routingTable[l]
    <3>1. l \in Used /\ x = routingTable[l].nextChatName /\ x \in Name
      BY <2>1, <2>2, EntryNotNull DEF Used, TypeOK
    <3> HIDE DEF x
    <3>2. Neighbour(routingTable, x) \/ \E k \in DOMAIN message : message[k].chatName = x /\ message[k].nextChatName = x
      BY <1>2, <3>1 DEF HopsKnown
    <3>3. Neighbour(routingTable, x) => Neighbour(routingTable', x)
      BY <3>1, Zenon
    <3> QED BY <1>4, <3>1, <3>2, <3>3, Zenon DEF x
  <2>3. CASE routingTable'[l] = e
    <3>1. x = message[entryIndex].nextChatName /\ x \in Name
      BY <1>1, <2>3
    <3> HIDE DEF x
    <3>2. PICK k \in DOMAIN message : message[k].chatName = x /\ message[k].nextChatName = x
      BY <1>1, <3>1 DEF SendersNamed
    <3> QED BY <1>4, <3>1, <3>2, Zenon DEF x
  <2> QED BY <2>1, <2>2, <2>3
<1>6. pc'[Server] = "entry" => \A k \in DOMAIN message' :
        k < entryIndex' /\ message'[k].chatName = message'[k].nextChatName => Neighbour(routingTable', message'[k].chatName)
  BY <1>1, <1>3
<1>7. \A l \in Used' :
        \/ Neighbour(routingTable', routingTable'[l].nextChatName)
        \/ /\ pc'[Server] = "entry"
           /\ \E k \in DOMAIN message' : /\ k >= entryIndex'
                                         /\ message'[k].chatName = routingTable'[l].nextChatName
                                         /\ message'[k].nextChatName = routingTable'[l].nextChatName
  BY <1>1, <1>5
<1> QED BY <1>2, <1>6, <1>7, Zenon DEF HopsKnown

LEMMA AddKeepsHops ==
  ASSUME IsFiniteSet(Name), Cardinality(Name) <= NumSlots,
         IInv, Counted, OneCall, HopsKnown, SendersNamed(message), AddEntry
  PROVE  HopsKnown'
<1> DEFINE i == Least(Slot \ Used)
           e == Offered
<1>1. TypeOK /\ UniqueNames /\ NextEntry
  BY DEF IInv, TypeInv, TableInv, AddEntry
<1>2. /\ e \in Entry /\ e.chatName = message[entryIndex].chatName
      /\ e.nextChatName = message[entryIndex].nextChatName
  BY <1>1, OfferedIsEntry DEF NextEntry
<1>3. Slot \ Used # {}
  BY <1>1, <1>2, RoomForName, EntryNotNull DEF AddEntry
<1>4. FillSlot(i, e) /\ i \in Slot \ Used
  BY <1>3, RoomCounted, LeastOf DEF AddEntry
<1> HIDE DEF i, e
<1>5. /\ i \in Slot /\ routingTable' = [routingTable EXCEPT ![i] = e]
      /\ \A l \in Slot : routingTable'[l] = IF l = i THEN e ELSE routingTable[l]
  BY <1>1, <1>4 DEF FillSlot, TypeOK
<1>6. ASSUME NEW n \in Name, Neighbour(routingTable, n) PROVE Neighbour(routingTable', n)
  <2>1. PICK j \in Slot : routingTable[j].chatName = n /\ routingTable[j].nextChatName = n
    BY <1>6 DEF Neighbour
  <2>2. j # i
    BY <1>4, <2>1, NamesAssumption, EntryNotNull DEF Used
  <2> QED BY <1>5, <2>1, <2>2 DEF Neighbour
<1>7. message[entryIndex].chatName = message[entryIndex].nextChatName
        => Neighbour(routingTable', message[entryIndex].chatName)
  BY <1>2, <1>5 DEF Neighbour
<1> QED BY <1>1, <1>2, <1>5, <1>6, <1>7, MergeKeepsHops

LEMMA RefreshKeepsHops ==
  ASSUME IInv, OneCall, HopsKnown, SendersNamed(message), RefreshEntry
  PROVE  HopsKnown'
<1> DEFINE i == Least(SlotsOf(Offered.chatName))
           e == Offered
<1>1. TypeOK /\ TableInv /\ Merging /\ NextEntry
  BY DEF IInv, TypeInv, ThreadInv, RefreshEntry
<1>2. /\ e \in Entry /\ e.chatName = message[entryIndex].chatName
      /\ e.nextChatName = message[entryIndex].nextChatName
      /\ e.hopCount = message[entryIndex].hopCount + 1
      /\ message[entryIndex] \in Entry /\ entryIndex \in DOMAIN message
  BY <1>1, OfferedIsEntry DEF NextEntry
<1>3. i \in SlotsOf(e.chatName)
  BY LeastOf DEF RefreshEntry, SlotsOf
<1>4. i \in Used /\ i \in Slot /\ routingTable[i].chatName = e.chatName
  BY <1>1, <1>2, <1>3, SlotsOfName, EntryNotNull
<1>5. routingTable' = IF routingTable[i].hopCount > e.hopCount
                      THEN [routingTable EXCEPT ![i] = e] ELSE routingTable
  BY DEF RefreshEntry, Shorter
<1> HIDE DEF i, e
<1>6. /\ \A l \in Slot : routingTable'[l] \in {routingTable[l], IF l = i THEN e ELSE routingTable[l]}
      /\ routingTable[i].hopCount > e.hopCount => routingTable'[i] = e
      /\ ~(routingTable[i].hopCount > e.hopCount) => routingTable' = routingTable
      /\ \A l \in Slot \ {i} : routingTable'[l] = routingTable[l]
  BY <1>1, <1>4, <1>5 DEF TypeOK
<1>7. e.hopCount > 0
  BY <1>2, EntryNotNull
<1>8. ASSUME NEW n \in Name, Neighbour(routingTable, n) PROVE Neighbour(routingTable', n)
  <2>1. PICK j \in Slot : routingTable[j].chatName = n /\ routingTable[j].nextChatName = n
    BY <1>8 DEF Neighbour
  <2>2. routingTable'[j] = routingTable[j]
    <3>1. CASE j = i
      BY <1>1, <1>2, <1>4, <1>6, <1>7, <2>1, <3>1, DirectStays
    <3>2. CASE j # i
      BY <1>6, <3>2
    <3> QED BY <3>1, <3>2
  <2> QED BY <2>1, <2>2 DEF Neighbour
<1>9. ASSUME message[entryIndex].chatName = message[entryIndex].nextChatName
      PROVE  Neighbour(routingTable', message[entryIndex].chatName)
  <2>1. e.hopCount = 1
    BY <1>1, <1>2, <1>9, EntryNotNull DEF Merging, Direct
  <2>2. CASE routingTable[i].hopCount > e.hopCount
    BY <1>2, <1>4, <1>6, <1>9, <2>2 DEF Neighbour
  <2>3. CASE ~(routingTable[i].hopCount > e.hopCount)
    <3>1. routingTable' = routingTable
      BY <1>6, <2>3
    <3>2. routingTable[i].nextChatName = routingTable[i].chatName
      <4>1. CASE routingTable[i].chatName = Own
        <5>1. 0 \in Used /\ routingTable[0].chatName = Own /\ routingTable[0].nextChatName = Own
          BY <1>1, SlotFacts, LoginIsEntry, EntryNotNull, NamesAssumption
             DEF TableInv, OwnEntryKept, LoginEntry, Used
        <5>2. i = 0
          BY <1>1, <1>4, <4>1, <5>1 DEF TableInv, UniqueNames
        <5> QED BY <5>1, <5>2
      <4>2. CASE routingTable[i].chatName # Own
        <5>1. /\ routingTable[i].hopCount > 0
              /\ routingTable[i].hopCount = 1 <=> routingTable[i].nextChatName = routingTable[i].chatName
          BY <1>1, <1>4, <4>2 DEF TableInv, DirectIffOneHop
        <5>2. routingTable[i] \in Entry
          BY <1>1, <1>4 DEF TypeOK, Used
        <5>3. routingTable[i].hopCount \in Nat
          BY <5>2, EntryNotNull
        <5> QED BY <2>1, <2>3, <5>1, <5>3
      <4> QED BY <4>1, <4>2
    <3> QED BY <1>2, <1>4, <3>1, <3>2 DEF Neighbour
  <2> QED BY <2>2, <2>3
<1> QED BY <1>1, <1>2, <1>4, <1>6, <1>8, <1>9, MergeKeepsHops

\* Between the loops all next hops are known.
LEMMA AllKnownThen ==
  ASSUME HopsKnown,
         pc[Server] = "entry" => \A k \in DOMAIN message : ~(k >= entryIndex),
         \A t \in Deleters : Scanning(t) => scanSlot[t] = NumSlots
  PROVE  AllKnown
<1>1. \A i \in Slot : ~(NumSlots <= i)
  BY SizesAssumption DEF Slot
<1> SUFFICES ASSUME NEW i \in Used PROVE Neighbour(routingTable, routingTable[i].nextChatName)
  BY DEF AllKnown
<1>2. i \in Slot
  BY DEF Used
<1> QED BY <1>1, <1>2, Zenon DEF HopsKnown

LEMMA StillKnown ==
  ASSUME AllKnown, UNCHANGED routingTable,
         pc'[Server] = "entry" => entryIndex' = 1 /\ DOMAIN message' \subseteq Nat \ {0},
         \A t \in Deleters : Scanning(t)' => scanSlot'[t] = 0
  PROVE  HopsKnown'
<1>1. \A i \in Slot : ~(i < 0)
  BY SlotFacts
<1>2. \A i \in Used' : i \in Slot /\ Neighbour(routingTable', routingTable'[i].nextChatName)
  BY DEF AllKnown, Used
<1>3. \A t \in Deleters : Scanning(t)' =>
        \A i \in Used' : i < scanSlot'[t] => routingTable'[i].nextChatName # victim'[t]
  BY <1>1, <1>2
<1>4. pc'[Server] = "entry" => \A k \in DOMAIN message' : ~(k < entryIndex')
  OBVIOUS
<1> QED BY <1>2, <1>3, <1>4, Zenon DEF HopsKnown

\* A step with which no deletion begins to remove entries and no merge begins
\* or goes on, except at its first entry.
LEMMA QuietStep ==
  ASSUME TypeOK, OneCall, HopsKnown, UNCHANGED routingTable,
         NEW t \in Threads, pc[t] \notin {"idle", "scan", "remove"},
         pc[t] = "entry" => t = Server /\ entryIndex > Len(message),
         NEW l \in Labels \ {"remove"}, Goto(t, l) \/ (UNCHANGED pc /\ l = pc[t]),
         l = "entry" => entryIndex' = 1 /\ message' = message,
         l = "scan" => scanSlot'[t] = 0
  PROVE  HopsKnown'
<1> USE ServerIsThread
<1>1. pc'[t] = l /\ \A u \in Threads \ {t} : pc'[u] = "idle"
  BY LabelsKept DEF OneCall
<1>2. \A u \in Deleters : ~Scanning(u)
  BY NobodyElse DEF Scanning
<1>3. pc[Server] = "entry" => \A k \in DOMAIN message : ~(k >= entryIndex)
  BY NobodyElse DEF TypeOK
<1>4. AllKnown
  BY <1>2, <1>3, AllKnownThen
<1>5. \A u \in Deleters : Scanning(u)' => scanSlot'[u] = 0
  BY <1>1 DEF Scanning
<1>6. pc'[Server] = "entry" => entryIndex' = 1 /\ DOMAIN message' \subseteq Nat \ {0}
  BY <1>1 DEF TypeOK
<1> QED BY <1>4, <1>5, <1>6, StillKnown

LEMMA ServerKeepsHops ==
  ASSUME IInv, OneCall, HopsKnown, UpdateLock \/ UpdateEnd \/ CleanUpSlot \/ Unreachable \/ CleanUpEnd
  PROVE  HopsKnown'
<1> USE ServerIsThread DEF Labels
<1>t. TypeOK /\ Control /\ Server \in Threads
  BY DEF IInv, TypeInv
<1>1. CASE UpdateLock
  <2>1. /\ pc[Server] = "update" /\ Goto(Server, "entry") /\ UNCHANGED <<routingTable, message>>
        /\ entryIndex' = 1
    BY <1>t, <1>1 DEF UpdateLock, tables, updateLocals, Control
  <2> QED BY <1>t, <2>1, QuietStep
<1>2. CASE UpdateEnd
  <2>1. /\ pc[Server] = "entry" /\ entryIndex > Len(message) /\ UNCHANGED routingTable
        /\ \E l \in {"idle", "cleanUp"} : Goto(Server, l)
    BY <1>2 DEF UpdateEnd, tables
  <2> QED BY <1>t, <2>1, QuietStep
<1>3. CASE CleanUpSlot
  <2>1. /\ pc[Server] = "cleanUp" /\ UNCHANGED routingTable
        /\ Goto(Server, "delRoute") \/ UNCHANGED pc
    BY <1>3 DEF CleanUpSlot
  <2> QED BY <1>t, <2>1, QuietStep
<1>4. CASE Unreachable
  <2>1. pc[Server] = "unreachable" /\ UNCHANGED routingTable /\ Goto(Server, "cleanUp")
    BY <1>4 DEF Unreachable
  <2> QED BY <1>t, <2>1, QuietStep
<1>5. CASE CleanUpEnd
  <2>1. pc[Server] = "cleanUp" /\ UNCHANGED routingTable /\ Goto(Server, "idle")
    BY <1>5 DEF CleanUpEnd, tables
  <2> QED BY <1>t, <2>1, QuietStep
<1> QED BY <1>1, <1>2, <1>3, <1>4, <1>5

LEMMA LookupKeepsHops ==
  ASSUME TypeOK, OneCall, HopsKnown, NEW t \in Threads, GetRoutingStep(t)
  PROVE  HopsKnown'
<1>1. /\ UNCHANGED routingTable
      /\ pc[t] \in {"route", "delRoute", "lookup", "delLookup"}
      /\ \E l \in {"lookup", "delLookup", "idle", "delete"} : Goto(t, l)
  BY DEF GetRoutingStep, GetRoutingLock, GetRoutingReturn, tables
<1> QED BY <1>1, QuietStep DEF Labels

LEMMA DeleteKeepsHops ==
  ASSUME TypeOK, Control, Arguments, Removing, OneCall, HopsKnown, NEW t \in Deleters, DeleteStep(t)
  PROVE  HopsKnown'
<1> USE ServerIsThread
<1> DEFINE k == scanSlot[t]
           v == victim[t]
<1>t. /\ t \in Threads /\ pc[t] \in {"delete", "scan", "remove"} /\ v # NoName
      /\ scanSlot \in [Deleters -> 0 .. NumSlots] /\ k \in 0 .. NumSlots
  BY LabelKinds
     DEF DeleteStep, DeleteLock, DeleteScan, DeleteRemove, DeleteReturn, TypeOK, Arguments, Deleting
<1>n. /\ \A u \in Deleters : u # t => ~Scanning(u)
      /\ pc[Server] # "entry"
  BY <1>t, NobodyElse
<1>1. CASE DeleteLock(t)
  <2>1. pc[t] = "delete" /\ UNCHANGED <<routingTable, scanSlot>> /\ Goto(t, "scan") /\ k = 0
    BY <1>1 DEF DeleteLock, tables, deleteLocals, Control
  <2> QED BY <1>t, <2>1, QuietStep DEF Labels
<1>2. ASSUME NEW l \in {"scan", "remove"}, Goto(t, l) \/ (UNCHANGED pc /\ l = pc[t]),
             pc[t] \in {"scan", "remove"}, victim' = victim
      PROVE  /\ pc'[Server] # "entry" /\ Scanning(t) /\ Scanning(t)'
             /\ \A u \in Deleters : u # t => ~Scanning(u)'
  BY <1>t, <1>n, <1>2, LabelsKept DEF Scanning
<1>3. \A i \in Used : \/ Neighbour(routingTable, routingTable[i].nextChatName)
                      \/ Scanning(t) /\ k <= i /\ v = routingTable[i].nextChatName
  BY <1>n DEF HopsKnown
<1>4. Scanning(t) => \A i \in Used : i < k => routingTable[i].nextChatName # v
  BY DEF HopsKnown
<1>5. ASSUME victim' = victim, pc'[Server] # "entry", Scanning(t)',
             \A u \in Deleters : u # t => ~Scanning(u)',
             \A i \in Used' : /\ \/ Neighbour(routingTable', routingTable'[i].nextChatName)
                                 \/ scanSlot'[t] <= i /\ v = routingTable'[i].nextChatName
                              /\ i < scanSlot'[t] => routingTable'[i].nextChatName # v
      PROVE  HopsKnown'
  BY <1>5 DEF HopsKnown
<1>6. CASE DeleteScan(t)
  <2>1. pc[t] = "scan" /\ k < NumSlots /\ UNCHANGED <<routingTable, victim>> /\ Used' = Used
    BY <1>6 DEF DeleteScan, tables, Used
  <2>2. CASE Goto(t, "remove") /\ UNCHANGED scanSlot
    <3>1. /\ pc'[Server] # "entry" /\ Scanning(t) /\ Scanning(t)'
          /\ \A u \in Deleters : u # t => ~Scanning(u)'
      BY <1>2, <2>1, <2>2
    <3> QED BY <1>3, <1>4, <1>5, <2>1, <2>2, <3>1
  <2>3. CASE /\ v \notin {routingTable[k].chatName, routingTable[k].nextChatName}
             /\ scanSlot' = [scanSlot EXCEPT ![t] = k + 1] /\ UNCHANGED pc
    <3>1. /\ pc'[Server] # "entry" /\ Scanning(t) /\ Scanning(t)'
          /\ \A u \in Deleters : u # t => ~Scanning(u)'
      BY <1>2, <2>1, <2>3
    <3>2. scanSlot'[t] = k + 1
      BY <1>t, <2>3
    <3>3. \A i \in Used : i \in Int /\ (v = routingTable[i].nextChatName => i # k)
      BY <2>3, SlotFacts DEF Used
    <3>4. \A i \in Used : /\ \/ Neighbour(routingTable, routingTable[i].nextChatName)
                             \/ k + 1 <= i /\ v = routingTable[i].nextChatName
                          /\ i < k + 1 => routingTable[i].nextChatName # v
      BY <1>t, <1>3, <1>4, <3>1, <3>3
    <3> QED BY <1>5, <2>1, <3>1, <3>2, <3>4
  <2> QED BY <1>6, <2>2, <2>3 DEF DeleteScan
<1>7. CASE DeleteRemove(t)
  <2>1. /\ pc[t] = "remove" /\ k \in Slot /\ UNCHANGED victim /\ Goto(t, "scan") /\ scanSlot'[t] = k + 1
        /\ v \in {routingTable[k].chatName, routingTable[k].nextChatName}
        /\ \A i \in Slot : routingTable'[i] = IF i = k THEN Null ELSE routingTable[i]
    BY <1>t, <1>7, SlotFacts DEF DeleteRemove, Control, TypeOK, Removing
  <2>2. /\ pc'[Server] # "entry" /\ Scanning(t) /\ Scanning(t)'
        /\ \A u \in Deleters : u # t => ~Scanning(u)'
    BY <1>2, <2>1
  <2>3. ASSUME NEW i \in Used'
        PROVE  /\ \/ Neighbour(routingTable', routingTable[i].nextChatName)
                  \/ k + 1 <= i /\ v = routingTable[i].nextChatName
               /\ i < k + 1 => routingTable[i].nextChatName # v
               /\ routingTable'[i] = routingTable[i]
    <3>1. i \in Used /\ i # k /\ i \in Nat /\ routingTable'[i] = routingTable[i]
      BY <2>1, SlotFacts DEF Used
    <3>2. k \in Nat /\ (i < k + 1 => i < k) /\ (k <= i => k + 1 <= i)
      BY <1>t, <3>1
    <3>3. i < k + 1 => routingTable[i].nextChatName # v
      BY <1>4, <2>2, <3>1, <3>2
    <3>4. CASE v = routingTable[i].nextChatName
      BY <3>1, <3>2, <3>3, <3>4
    <3>5. CASE v # routingTable[i].nextChatName
      <4>1. PICK j \in Slot : /\ routingTable[j].chatName = routingTable[i].nextChatName
                              /\ routingTable[j].nextChatName = routingTable[i].nextChatName
        BY <1>3, <3>1, <3>5 DEF Neighbour
      <4>2. j # k
        BY <2>1, <3>5, <4>1
      <4> QED BY <2>1, <3>1, <3>3, <4>1, <4>2 DEF Neighbour
    <3> QED BY <3>4, <3>5
  <2> QED BY <1>5, <2>1, <2>2, <2>3
<1>8. CASE DeleteReturn(t)
  <2>1. /\ pc[t] = "scan" /\ k = NumSlots /\ UNCHANGED routingTable
        /\ \E l \in {"unreachable", "idle"} : Goto(t, l)
    BY <1>8 DEF DeleteReturn, tables
  <2>2. AllKnown
    BY <1>n, <2>1, AllKnownThen
  <2>3. pc'[Server] # "entry" /\ \A u \in Deleters : ~Scanning(u)'
    BY <1>t, <1>n, <2>1, LabelsKept DEF Scanning
  <2> QED BY <2>1, <2>2, <2>3, StillKnown
<1> QED BY <1>1, <1>6, <1>7, <1>8 DEF DeleteStep

LEMMA CallKeepsHops ==
  ASSUME TypeOK, Idle, HopsKnown, Call
  PROVE  HopsKnown'
<1> USE ServerIsThread
<1>1. \A u \in Threads : pc[u] = "idle"
  BY DEF Idle
<1>2. AllKnown
  BY <1>1, AllKnownThen DEF Scanning
<1>3. /\ UNCHANGED routingTable
      /\ \E t \in Threads, l \in {"update", "route", "delRoute"} : Goto(t, l)
  BY DEF Call, Login, TableUpdate, Logout, HeartBeatTimeout, DeleteFromTable, GetRouting, tables
<1>4. pc'[Server] # "entry" /\ \A u \in Deleters : ~Scanning(u)'
  BY <1>1, <1>3, LabelsKept DEF Scanning
<1> QED BY <1>2, <1>3, <1>4, StillKnown

LEMMA SendersNamedNext ==
  ASSUME \A m \in Routes : SendersNamed(m), SendersNamed(message), [Next]_vars
  PROVE  SendersNamed(message')
<1>1. SendersNamed(<<>>) /\ \A n \in Name : SendersNamed(<<LoginEntry(n)>>)
  BY DEF SendersNamed, LoginEntry
<1>2. \/ message' = message \/ message' = <<>> \/ message' \in Routes
      \/ \E n \in Name : message' = <<LoginEntry(n)>>
  <2>1. CASE Call
    BY <2>1 DEF Call, Login, TableUpdate, Logout, HeartBeatTimeout, DeleteFromTable, GetRouting,
                updateLocals
  <2>2. ASSUME NEW t \in Threads, Step(t) PROVE message' = message \/ message' = <<>>
    BY <2>2 DEF Step, ServerStep, UpdateLock, AddEntry, RefreshEntry, NextEntry, UpdateEnd,
                CleanUpSlot, Unreachable, CleanUpEnd, DeleteStep, DeleteLock, DeleteScan,
                DeleteRemove, DeleteReturn, GetRoutingStep, GetRoutingLock, GetRoutingReturn,
                updateLocals
  <2>3. CASE UNCHANGED vars
    BY <2>3 DEF vars, updateLocals
  <2> QED BY <2>1, <2>2, <2>3 DEF Next
<1> QED BY <1>1, <1>2

\* With a slot for every name and announcements that contain their senders,
\* calls that do not overlap leave no route through an unknown node.
THEOREM NextHopsStayKnown ==
  ASSUME IsFiniteSet(Name), Cardinality(Name) <= NumSlots,
         \A m \in Routes : SendersNamed(m)
  PROVE  MCSpec => []NextHopKnown
<1>1. MCInit => HopInv
  <2> SUFFICES ASSUME MCInit PROVE HopInv
    OBVIOUS
  <2>1. CallInv /\ Init
    BY CallInit DEF MCInit
  <2>2. SendersNamed(message)
    BY <2>1 DEF Init, SendersNamed
  <2>3. /\ \A i \in Slot : routingTable[i] = IF i = 0 THEN LoginEntry(Own) ELSE Null
        /\ \A t \in Threads : pc[t] = "idle"
    BY <2>1 DEF Init
  <2>4. AllKnown
    BY <2>3, SlotFacts DEF AllKnown, Neighbour, Used, LoginEntry
  <2>5. HopsKnown
    BY <2>3, <2>4, ServerIsThread DEF AllKnown, HopsKnown, Scanning
  <2> QED BY <2>1, <2>2, <2>5 DEF HopInv
<1>2. HopInv /\ [MCNext]_<<vars, expected>> => HopInv'
  <2> SUFFICES ASSUME HopInv, [MCNext]_<<vars, expected>> PROVE HopInv'
    OBVIOUS
  <2>1. CallInv' /\ CallInv /\ [Next]_vars
    BY CallNext DEF HopInv, MCNext, Next
  <2>2. SendersNamed(message')
    BY <2>1, SendersNamedNext DEF HopInv
  <2>3. IInv /\ TypeOK /\ Control /\ Arguments
    BY <2>1 DEF CallInv, IInv, TypeInv
  <2>4. ASSUME expected # {}, Idle, Call PROVE HopsKnown'
    BY <2>3, <2>4, CallKeepsHops DEF HopInv
  <2>5. ASSUME expected # {}, NEW t \in Threads, Step(t) PROVE HopsKnown'
    <3>1. HopsKnown /\ SendersNamed(message) /\ Counted /\ OneCall /\ Removing
      BY <2>1, <2>5 DEF HopInv, CallInv, AloneInv, OneByOne
    <3> QED BY <2>3, <2>5, <3>1, AddKeepsHops, RefreshKeepsHops, ServerKeepsHops, DeleteKeepsHops,
               LookupKeepsHops DEF Step, ServerStep
  <2>6. ASSUME expected # {}, UNCHANGED <<vars, expected>> PROVE HopsKnown'
    <3>1. HopsKnown
      BY <2>6 DEF HopInv
    <3>2. UNCHANGED <<routingTable, pc, message, entryIndex, victim, scanSlot>>
      BY <2>6 DEF vars, tables, updateLocals, deleteLocals
    <3> QED BY <3>1, <3>2 DEF HopsKnown, Scanning, Used
  <2>7. expected' # {} => HopsKnown'
    <3>1. CASE expected = {} /\ UNCHANGED expected
      BY <3>1
    <3>2. CASE expected # {} /\ Idle /\ Call
      BY <2>4, <3>2
    <3>3. CASE expected # {} /\ \E t \in Threads : Step(t)
      BY <2>5, <3>3
    <3>4. CASE UNCHANGED <<vars, expected>>
      BY <2>6, <3>4
    <3> QED BY <3>1, <3>2, <3>3, <3>4 DEF MCNext
  <2> QED BY <2>1, <2>2, <2>7 DEF HopInv
<1>3. HopInv => NextHopKnown
  <2> SUFFICES ASSUME HopInv, expected # {}, Idle, NEW i \in Used
               PROVE  SlotsOf(routingTable[i].nextChatName) # {}
    BY DEF NextHopKnown
  <2>1. AllKnown
    BY AllKnownThen, ServerIsThread DEF HopInv, Idle, Scanning
  <2> QED BY <2>1 DEF AllKnown, Neighbour, SlotsOf
<1> QED BY <1>1, <1>2, <1>3, PTL DEF MCSpec
=============================================================================
