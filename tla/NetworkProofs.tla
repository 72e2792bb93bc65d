---------------------------- MODULE NetworkProofs ----------------------------
(***************************************************************************)
(* What module Network is proved to guarantee for any number of nodes and  *)
(* slots: its type invariant, that every ROUTE is what its receiver relies *)
(* on, that a node which joins can answer the HEART it is sent, and, as    *)
(* long as nodes only join, that no message circles and that the tables    *)
(* settle.                                                                 *)
(*                                                                         *)
(* The loops of tableUpdate, cleanUp and tableToCharArray are recursive    *)
(* functions, and so are the way of a message from node to node and the    *)
(* nodes that are linked with one.  That these exist, and what holds of    *)
(* their last value, is proved by induction on the rounds, in the form of  *)
(* lemma Induction: a set of numbers with 0 and the successor of each      *)
(* member is Nat.                                                          *)
(***************************************************************************)
EXTENDS Network, WellFoundedInduction, FiniteSetTheorems, TLAPS

-----------------------------------------------------------------------------
\* Induction without an operator for the property: it is a set here.
LEMMA LeastElement ==
  ASSUME NEW S \in SUBSET Nat, S # {}
  PROVE  \E m \in S : \A n \in S : m <= n
<1>1. IsWellFoundedOn(OpToRel(<, Nat), Nat)
  BY NatLessThanWellFounded, Zenon
<1>2. PICK m \in S : \A n \in S : ~ (<<n, m>> \in OpToRel(<, Nat))
  BY <1>1, WFMin, Zenon
<1>3. \A n \in S : ~(n < m)
  <2> SUFFICES ASSUME NEW n \in S PROVE ~(n < m)
    OBVIOUS
  <2>1. ~ (<<n, m>> \in {ss \in Nat \X Nat : ss[1] < ss[2]})
    BY <1>2 DEF OpToRel
  <2> QED BY <2>1
<1> QED BY <1>3

LEMMA Induction ==
  ASSUME NEW S \in SUBSET Nat, 0 \in S, \A n \in S : n + 1 \in S
  PROVE  S = Nat
<1>1. SUFFICES ASSUME Nat \ S # {} PROVE FALSE
  OBVIOUS
<1>2. PICK m \in Nat \ S : \A n \in Nat \ S : m <= n
  BY <1>1, LeastElement
<1>3. m # 0 /\ m - 1 \in Nat
  BY <1>2
<1>4. m - 1 \in S
  BY <1>2, <1>3
<1> QED BY <1>2, <1>3, <1>4

-----------------------------------------------------------------------------
LEMMA LeastSlot ==
  ASSUME NEW S \in SUBSET Slot, S # {}
  PROVE  Least(S) \in S
<1>1. S \in SUBSET Nat
  BY SizesAssumption DEF Slot
<1>2. \E i \in S : \A j \in S : i <= j
  BY <1>1, LeastElement
<1> QED BY <1>2 DEF Least

Tables == [slots : [Slot -> Routes \cup {Null}],
           records : [Slot -> [chatName : Node \cup {NoName}, reachable : BOOLEAN]]]

\* An entry of another node in the table of n: its hop count is 1 exactly if
\* it is reached directly, and never 0.
Foreign(e, n) ==
  /\ e.chatName # n
  /\ e.hopCount > 0
  /\ e.hopCount = 1 <=> e.nextChatName = e.chatName

\* The table of n: slot 0 is n's own and the only one with its name.
Sound(t, n) ==
  /\ t \in Tables
  /\ t.slots[0] = [chatName |-> n, nextChatName |-> n, hopCount |-> 0]
  /\ t.records[0].chatName = n
  /\ \A i \in Slot \ {0} : /\ t.records[i].chatName # n
                           /\ t.slots[i] # Null => Foreign(t.slots[i], n)
  /\ \A i, j \in Slot :
       t.slots[i] # Null /\ t.slots[i].chatName = t.slots[j].chatName => i = j

LEMMA SlotFacts == /\ 0 \in Slot /\ Slot \subseteq Nat
                   /\ \A i \in Slot : i + 1 \in 1 .. NumSlots
                   /\ \A i \in 1 .. NumSlots : i - 1 \in Slot
BY SizesAssumption DEF Slot

LEMMA NullFacts == Null \notin Routes /\ Null.chatName = NoName
BY NodesAssumption DEF Null, Routes

LEMMA InitSound == ASSUME NEW n \in Node PROVE Sound(InitTable(n), n)
BY SlotFacts, NodesAssumption DEF InitTable, Sound, Tables, Null, Routes, Foreign

\* One round of tableUpdate, with an entry announced by x.
LEMMA PutSound ==
  ASSUME NEW n \in Node, NEW x \in Node \ {n}, NEW t, Sound(t, n), NEW entry \in Routes,
         entry.nextChatName = x, entry.hopCount = 0 <=> entry.chatName = x
  PROVE  /\ Sound(PutEntry(t, entry), n)
         /\ t.records[0].reachable \/ entry.chatName = n =>
              PutEntry(t, entry).records[0].reachable
<1> DEFINE e == [entry EXCEPT !.hopCount = @ + 1]
           known == SlotsOf(t, e.chatName)
           unused == Slot \ Used(t)
           i == Least(IF known # {} THEN known ELSE unused)
           better == known # {} => t.slots[i].hopCount > e.hopCount
           r == [chatName |-> e.chatName, reachable |-> TRUE]
           new == [slots |-> IF better THEN [t.slots EXCEPT ![i] = e] ELSE t.slots,
                   records |-> [t.records EXCEPT ![i] = r]]
<1>0. PutEntry(t, entry) = IF known \cup unused = {} THEN t ELSE new
  BY DEF PutEntry
<1>1. /\ e \in Routes /\ e.chatName = entry.chatName /\ e.nextChatName = x
      /\ e.hopCount \in Nat /\ e.hopCount > 0 /\ (e.hopCount = 1 <=> e.nextChatName = e.chatName)
  BY DEF Routes
<1>2. /\ t.slots \in [Slot -> Routes \cup {Null}]
      /\ t.records \in [Slot -> [chatName : Node \cup {NoName}, reachable : BOOLEAN]]
      /\ t = [slots |-> t.slots, records |-> t.records]
  BY DEF Sound, Tables
<1> HIDE DEF e
<1>3. \A j \in Slot : t.slots[j].chatName = n <=> j = 0
  <2> SUFFICES ASSUME NEW j \in Slot \ {0} PROVE t.slots[j].chatName # n
    BY SlotFacts DEF Sound
  <2> QED BY NullFacts, NodesAssumption DEF Sound, Foreign
<1>4. CASE known \cup unused = {}
  <2>1. e.chatName # n
    BY <1>3, <1>4, SlotFacts DEF SlotsOf
  <2> QED BY <1>0, <1>1, <1>4, <2>1
<1>5. CASE known \cup unused # {} /\ e.chatName = n
  <2>1. known = {0}
    BY <1>3, <1>5, SlotFacts DEF SlotsOf
  <2>2. i = 0
    BY <2>1, LeastSlot, SlotFacts
  <2>3. ~better
    <3>1. t.slots[0].hopCount = 0
      BY DEF Sound
    <3> QED BY <1>1, <2>1, <2>2, <3>1
  <2> DEFINE put == [slots |-> t.slots, records |-> [t.records EXCEPT ![0] = r]]
  <2>4. new = put
    BY <2>2, <2>3
  <2>5. put \in Tables /\ put.records[0] = r /\ \A j \in Slot \ {0} : put.records[j] = t.records[j]
    BY <1>1, <1>2, <1>5, SlotFacts DEF Tables, Routes
  <2>6. Sound(put, n)
    BY <1>5, <2>5 DEF Sound
  <2> HIDE DEF new, put
  <2> QED BY <1>0, <1>5, <2>4, <2>5, <2>6
<1>6. CASE known \cup unused # {} /\ e.chatName # n
  <2>1. 0 \notin known /\ 0 \notin unused
    BY <1>3, <1>6, SlotFacts, NullFacts, NodesAssumption DEF SlotsOf, Used
  <2>2. i \in Slot \ {0} /\ (IF known # {} THEN i \in known ELSE i \in unused)
    BY <1>6, <2>1, LeastSlot DEF SlotsOf
  <2> HIDE DEF i
  <2>3. new.records[0] = t.records[0] /\ new.slots[0] = t.slots[0]
    BY <1>2, <2>2, SlotFacts
  <2>4. new \in Tables
    BY <1>1, <1>2, <2>2 DEF Tables, Routes
  <2>5. \A j \in Slot \ {0} : /\ new.records[j].chatName # n
                              /\ new.slots[j] # Null => Foreign(new.slots[j], n)
    <3> SUFFICES ASSUME NEW j \in Slot \ {0}
                 PROVE  /\ new.records[j].chatName # n
                        /\ new.slots[j] # Null => Foreign(new.slots[j], n)
      OBVIOUS
    <3>1. new.records[j] \in {r, t.records[j]} /\ new.slots[j] \in {e, t.slots[j]}
      BY <1>2, <2>2
    <3>2. Foreign(e, n)
      BY <1>1, <1>6 DEF Foreign
    <3> QED BY <1>6, <3>1, <3>2 DEF Sound
  <2>6. \A j, k \in Slot :
          new.slots[j] # Null /\ new.slots[j].chatName = new.slots[k].chatName => j = k
    <3>1. CASE known # {}
      <4>1. t.slots[i].chatName = e.chatName /\ t.slots[i] # Null
        BY <1>1, <2>2, <3>1, NullFacts, NodesAssumption DEF SlotsOf, Routes
      <4>2. \A j \in Slot : /\ new.slots[j].chatName = t.slots[j].chatName
                            /\ new.slots[j] # Null => t.slots[j] # Null
        BY <1>2, <2>2, <4>1
      <4> QED BY <4>2 DEF Sound
    <3>2. CASE known = {}
      <4>1. new.slots = [t.slots EXCEPT ![i] = e] /\ t.slots[i] = Null
        BY <2>2, <3>2 DEF Used
      <4>2. \A j \in Slot : t.slots[j].chatName # e.chatName
        BY <3>2 DEF SlotsOf
      <4> QED BY <1>2, <2>2, <4>1, <4>2 DEF Sound
    <3> QED BY <3>1, <3>2
  <2>7. Sound(new, n)
    BY <2>3, <2>4, <2>5, <2>6 DEF Sound
  <2> QED BY <1>0, <1>1, <1>6, <2>3, <2>7
<1> QED BY <1>4, <1>5, <1>6

\* deleteFromTable with the name of another node, or of nobody.
LEMMA DeleteSound ==
  ASSUME NEW n \in Node, NEW t, Sound(t, n), NEW x, x # n
  PROVE  /\ Sound(DeleteFromTable(t, x), n)
         /\ DeleteFromTable(t, x).records[0] = t.records[0]
<1> DEFINE gone == {i \in Slot : x \in {t.slots[i].chatName, t.slots[i].nextChatName}}
           d == [slots |-> [i \in Slot |-> IF i \in gone THEN Null ELSE t.slots[i]],
                 records |-> [i \in Slot |-> IF i \in gone
                                             THEN [t.records[i] EXCEPT !.reachable = FALSE]
                                             ELSE t.records[i]]]
<1>1. DeleteFromTable(t, x) = d
  BY DEF DeleteFromTable
<1>2. 0 \in Slot /\ 0 \notin gone
  BY SlotFacts DEF Sound
<1>3. \A i \in Slot : /\ d.slots[i] \in {Null, t.slots[i]}
                      /\ d.records[i].chatName = t.records[i].chatName
                      /\ d.records[i] \in [chatName : Node \cup {NoName}, reachable : BOOLEAN]
  BY DEF Sound, Tables
<1>4. d \in Tables
  BY <1>3 DEF Sound, Tables
<1>5. d.slots[0] = t.slots[0] /\ d.records[0] = t.records[0]
  BY <1>2
<1>6. \A i, j \in Slot :
        d.slots[i] # Null /\ d.slots[i].chatName = d.slots[j].chatName => i = j
  <2> SUFFICES ASSUME NEW i \in Slot, NEW j \in Slot, d.slots[i] # Null,
                      d.slots[i].chatName = d.slots[j].chatName
               PROVE  i = j
    BY Zenon
  <2>1. d.slots[i] = t.slots[i] /\ t.slots[i] \in Routes
    BY <1>3 DEF Sound, Tables
  <2>2. d.slots[j] # Null
    BY <2>1, NullFacts, NodesAssumption DEF Routes
  <2> QED BY <1>3, <2>1, <2>2 DEF Sound
<1> HIDE DEF d
<1> QED BY <1>1, <1>3, <1>4, <1>5, <1>6 DEF Sound

LEMMA RecordsSound ==
  ASSUME NEW n \in Node, NEW t, Sound(t, n), NEW q,
         [slots |-> t.slots, records |-> q] \in Tables,
         q[0].chatName = n, \A j \in Slot \ {0} : q[j].chatName \in {t.records[j].chatName, NoName}
  PROVE  Sound([slots |-> t.slots, records |-> q], n)
<1> DEFINE u == [slots |-> t.slots, records |-> q]
<1>1. u.slots = t.slots /\ u.records = q
  OBVIOUS
<1>2. \A j \in Slot \ {0} : u.records[j].chatName # n
  BY <1>1, NodesAssumption DEF Sound
<1> HIDE DEF u
<1>3. Sound(u, n)
  BY <1>1, <1>2 DEF u, Sound
<1> QED BY <1>3 DEF u

\* One round of cleanUp; n's own record is marked when its turn comes.
LEMMA CleanUpSlotSound ==
  ASSUME NEW n \in Node, NEW t, Sound(t, n), NEW i \in Slot,
         i = 0 => t.records[0].reachable
  PROVE  Sound(CleanUpSlot(t, i), n)
<1> DEFINE r == t.records[i]
           d == DeleteFromTable(t, r.chatName)
<1>1. t.records \in [Slot -> [chatName : Node \cup {NoName}, reachable : BOOLEAN]]
  BY DEF Sound, Tables
<1>2. CASE r.chatName = NoName
  BY <1>2 DEF CleanUpSlot
<1>3. CASE r.chatName # NoName /\ r.reachable
  <2> DEFINE q == [t.records EXCEPT ![i] = [chatName |-> r.chatName, reachable |-> FALSE]]
             u == [slots |-> t.slots, records |-> q]
  <2>1. CleanUpSlot(t, i) = u
    BY <1>3 DEF CleanUpSlot
  <2>2. u \in Tables
    BY <1>1 DEF Sound, Tables
  <2>3. \A j \in Slot : q[j].chatName = t.records[j].chatName
    BY <1>1
  <2>4. q[0].chatName = n
    BY <2>3, SlotFacts DEF Sound
  <2> HIDE DEF q
  <2> QED BY <2>1, <2>2, <2>3, <2>4, RecordsSound
<1>4. CASE r.chatName # NoName /\ ~r.reachable
  <2> DEFINE q == [d.records EXCEPT ![i] = [chatName |-> NoName, reachable |-> FALSE]]
             u == [slots |-> d.slots, records |-> q]
  <2>1. CleanUpSlot(t, i) = u
    BY <1>4 DEF CleanUpSlot
  <2>2. i # 0 /\ r.chatName # n
    BY <1>4 DEF Sound
  <2>3. Sound(d, n)
    BY <2>2, DeleteSound
  <2> HIDE DEF d
  <2>4. d.records \in [Slot -> [chatName : Node \cup {NoName}, reachable : BOOLEAN]]
    BY <2>3 DEF Sound, Tables
  <2>5. u \in Tables
    BY <2>3, <2>4 DEF Sound, Tables
  <2>6. \A j \in Slot : q[j].chatName = IF j = i THEN NoName ELSE d.records[j].chatName
    BY <2>4
  <2>7. q[0].chatName = n
    BY <2>2, <2>3, <2>6, SlotFacts DEF Sound
  <2> HIDE DEF q
  <2> QED BY <2>1, <2>3, <2>5, <2>6, <2>7, RecordsSound
<1> QED BY <1>1, <1>2, <1>3, <1>4

-----------------------------------------------------------------------------
\* What a ROUTE or LOGIN of x says to the table of n.
Told(m, x, n) ==
  /\ m \in Seq(Routes)
  /\ \A k \in DOMAIN m : m[k].nextChatName = x /\ (m[k].hopCount = 0 <=> m[k].chatName = x)

\* The tables after each round of tableUpdate.
Merged(after, t, m) ==
  after = [k \in 0 .. Len(m) |->
             IF k = 0 THEN {t} ELSE {PutEntry(v, m[k]) : v \in after[k - 1]}]

LEMMA MergedExists ==
  ASSUME NEW t, NEW m, Len(m) \in Nat
  PROVE  \E after : Merged(after, t, m)
<1> DEFINE Round(T, k) == {PutEntry(v, m[k]) : v \in T}
           Good(f, k) == f = [j \in 0 .. k |-> IF j = 0 THEN {t} ELSE Round(f[j - 1], j)]
           S == {k \in Nat : \E f : Good(f, k)}
<1> HIDE DEF Round, Good
<1>1. 0 \in S
  <2> DEFINE f == [j \in 0 .. 0 |-> {t}]
  <2>1. \A j \in 0 .. 0 : f[j] = IF j = 0 THEN {t} ELSE Round(f[j - 1], j)
    OBVIOUS
  <2>2. Good(f, 0)
    BY <2>1 DEF Good
  <2> QED BY <2>2
<1>2. \A k \in S : k + 1 \in S
  <2> SUFFICES ASSUME NEW k \in Nat, NEW f, Good(f, k) PROVE \E g : Good(g, k + 1)
    OBVIOUS
  <2>1. \A j \in 0 .. k : f[j] = IF j = 0 THEN {t} ELSE Round(f[j - 1], j)
    BY DEF Good
  <2> DEFINE g == [j \in 0 .. k + 1 |-> IF j = k + 1 THEN Round(f[k], j) ELSE f[j]]
  <2>2. ASSUME NEW j \in 0 .. k + 1
        PROVE  g[j] = IF j = 0 THEN {t} ELSE Round(g[j - 1], j)
    <3>1. CASE j = k + 1
      <4>1. g[j] = Round(f[k], j) /\ g[j - 1] = f[k] /\ j # 0
        BY <3>1
      <4> QED BY <4>1
    <3>2. CASE j \in 0 .. k
      <4>1. g[j] = f[j] /\ (j # 0 => g[j - 1] = f[j - 1])
        BY <3>2
      <4> QED BY <2>1, <3>2, <4>1
    <3> QED BY <3>1, <3>2
  <2>3. Good(g, k + 1)
    <3> DEFINE G == [j \in 0 .. k + 1 |-> IF j = 0 THEN {t} ELSE Round(g[j - 1], j)]
    <3>1. g = G
      BY <2>2
    <3> QED BY <3>1, Zenon DEF Good
  <2> QED BY <2>3
<1>3. S = Nat
  <2> HIDE DEF S
  <2>1. S \in SUBSET Nat
    BY DEF S
  <2> QED BY <1>1, <1>2, <2>1, Induction
<1>4. Len(m) \in S
  BY <1>3
<1> QED BY <1>4 DEF Merged, Round, Good

MergeRounds(after, t, m) ==
  /\ Merge(t, m) = after[Len(m)]
  /\ after[0] = {t}
  /\ \A k \in 1 .. Len(m) : after[k] = {PutEntry(v, m[k]) : v \in after[k - 1]}

LEMMA MergeUnrolled ==
  ASSUME NEW t, NEW m, Len(m) \in Nat
  PROVE  \E after : MergeRounds(after, t, m)
<1> DEFINE after == CHOOSE f : Merged(f, t, m)
           Round(T, k) == {PutEntry(v, m[k]) : v \in T}
<1>1. Merged(after, t, m)
  BY MergedExists, Zenon
<1>2. Merge(t, m) = after[Len(m)]
  BY Zenon DEF Merge, Merged
<1> HIDE DEF after, Round
<1>3. after = [k \in 0 .. Len(m) |-> IF k = 0 THEN {t} ELSE Round(after[k - 1], k)]
  BY <1>1 DEF Merged, Round
<1>4. /\ after[0] = {t}
      /\ \A k \in 1 .. Len(m) : after[k] = Round(after[k - 1], k)
  BY <1>3
<1> QED BY <1>2, <1>4, Zenon DEF Round, MergeRounds

\* tableUpdate without cleanUp: n's own record is marked if it was before or
\* if n is announced.
LEMMA MergeSound ==
  ASSUME NEW n \in Node, NEW x \in Node \ {n}, NEW t, Sound(t, n), NEW m, Told(m, x, n),
         NEW u \in Merge(t, m)
  PROVE  /\ Sound(u, n)
         /\ \A k \in DOMAIN m : m[k].chatName = n => u.records[0].reachable
<1>1. Len(m) \in Nat /\ DOMAIN m = 1 .. Len(m) /\ \A k \in 1 .. Len(m) : m[k] \in Routes
  BY DEF Told
<1>2. PICK after : MergeRounds(after, t, m)
  BY <1>1, MergeUnrolled
<1> DEFINE Good(k) == \A v \in after[k] :
                        /\ Sound(v, n)
                        /\ \A h \in 1 .. k : m[h].chatName = n => v.records[0].reachable
           S == {k \in Nat : k <= Len(m) => Good(k)}
<1>3. 0 \in S
  BY <1>2 DEF MergeRounds
<1>4. ASSUME NEW k \in Nat, k + 1 <= Len(m), Good(k)
      PROVE  Good(k + 1)
  <2> SUFFICES ASSUME NEW v \in after[k], NEW w, w = PutEntry(v, m[k + 1])
               PROVE  /\ Sound(w, n)
                      /\ \A h \in 1 .. k + 1 : m[h].chatName = n => w.records[0].reachable
    <3>1. k + 1 \in 1 .. Len(m) /\ k + 1 - 1 = k
      BY <1>1, <1>4
    <3>2. after[k + 1] = {PutEntry(v, m[k + 1]) : v \in after[k]}
      BY <1>2, <3>1 DEF MergeRounds
    <3> QED BY <3>2
  <2>1. /\ m[k + 1] \in Routes /\ m[k + 1].nextChatName = x
        /\ m[k + 1].hopCount = 0 <=> m[k + 1].chatName = x
    BY <1>1, <1>4 DEF Told
  <2>2. Sound(v, n) /\ \A h \in 1 .. k : m[h].chatName = n => v.records[0].reachable
    BY <1>4
  <2>3. Sound(w, n) /\ (v.records[0].reachable \/ m[k + 1].chatName = n => w.records[0].reachable)
    BY <2>1, <2>2, PutSound
  <2> QED BY <2>2, <2>3
<1>5. S = Nat
  <2> HIDE DEF Good
  <2>1. \A k \in S : k + 1 \in S
    <3> SUFFICES ASSUME NEW k \in Nat, k <= Len(m) => Good(k), k + 1 <= Len(m)
                 PROVE  Good(k + 1)
      OBVIOUS
    <3>1. k <= Len(m)
      BY <1>1
    <3> QED BY <1>4, <3>1
  <2> HIDE DEF S
  <2>2. S \in SUBSET Nat
    BY DEF S
  <2> QED BY <1>3, <2>1, <2>2, Induction
<1>6. Good(Len(m))
  BY <1>1, <1>5
<1> QED BY <1>1, <1>2, <1>6 DEF MergeRounds

-----------------------------------------------------------------------------
\* The tables after each round of cleanUp.
Cleaned(after, T) ==
  after = [i \in 0 .. NumSlots |->
             IF i = 0 THEN T ELSE {CleanUpSlot(t, i - 1) : t \in after[i - 1]}]

LEMMA CleanedExists ==
  ASSUME NEW T
  PROVE  \E after : Cleaned(after, T)
<1> DEFINE Round(U, k) == {CleanUpSlot(t, k - 1) : t \in U}
           Good(f, k) == f = [j \in 0 .. k |-> IF j = 0 THEN T ELSE Round(f[j - 1], j)]
           S == {k \in Nat : \E f : Good(f, k)}
<1> HIDE DEF Round, Good
<1>1. 0 \in S
  <2> DEFINE f == [j \in 0 .. 0 |-> T]
  <2>1. \A j \in 0 .. 0 : f[j] = IF j = 0 THEN T ELSE Round(f[j - 1], j)
    OBVIOUS
  <2>2. Good(f, 0)
    BY <2>1 DEF Good
  <2> QED BY <2>2
<1>2. \A k \in S : k + 1 \in S
  <2> SUFFICES ASSUME NEW k \in Nat, NEW f, Good(f, k) PROVE \E g : Good(g, k + 1)
    OBVIOUS
  <2>1. \A j \in 0 .. k : f[j] = IF j = 0 THEN T ELSE Round(f[j - 1], j)
    BY DEF Good
  <2> DEFINE g == [j \in 0 .. k + 1 |-> IF j = k + 1 THEN Round(f[k], j) ELSE f[j]]
  <2>2. ASSUME NEW j \in 0 .. k + 1
        PROVE  g[j] = IF j = 0 THEN T ELSE Round(g[j - 1], j)
    <3>1. CASE j = k + 1
      <4>1. g[j] = Round(f[k], j) /\ g[j - 1] = f[k] /\ j # 0
        BY <3>1
      <4> QED BY <4>1
    <3>2. CASE j \in 0 .. k
      <4>1. g[j] = f[j] /\ (j # 0 => g[j - 1] = f[j - 1])
        BY <3>2
      <4> QED BY <2>1, <3>2, <4>1
    <3> QED BY <3>1, <3>2
  <2>3. Good(g, k + 1)
    <3> DEFINE G == [j \in 0 .. k + 1 |-> IF j = 0 THEN T ELSE Round(g[j - 1], j)]
    <3>1. g = G
      BY <2>2
    <3> QED BY <3>1, Zenon DEF Good
  <2> QED BY <2>3
<1>3. S = Nat
  <2> HIDE DEF S
  <2>1. S \in SUBSET Nat
    BY DEF S
  <2> QED BY <1>1, <1>2, <2>1, Induction
<1>4. NumSlots \in S
  BY <1>3, SizesAssumption
<1> QED BY <1>4 DEF Cleaned, Round, Good

LEMMA CleanUpUnrolled ==
  ASSUME NEW T
  PROVE  \E after :
           /\ CleanUp(T) = after[NumSlots]
           /\ after[0] = T
           /\ \A i \in 1 .. NumSlots : after[i] = {CleanUpSlot(t, i - 1) : t \in after[i - 1]}
<1> DEFINE after == CHOOSE f : Cleaned(f, T)
           Round(U, k) == {CleanUpSlot(t, k - 1) : t \in U}
<1>1. Cleaned(after, T)
  BY CleanedExists, Zenon
<1>2. CleanUp(T) = after[NumSlots]
  BY Zenon DEF CleanUp, Cleaned
<1> HIDE DEF after, Round
<1>3. after = [k \in 0 .. NumSlots |-> IF k = 0 THEN T ELSE Round(after[k - 1], k)]
  BY <1>1 DEF Cleaned, Round
<1>4. /\ after[0] = T
      /\ \A k \in 1 .. NumSlots : after[k] = Round(after[k - 1], k)
  BY <1>3, SizesAssumption
<1> QED BY <1>2, <1>4, Zenon DEF Round

\* cleanUp keeps n's own entry, which the message has marked.
LEMMA CleanUpSound ==
  ASSUME NEW n \in Node, NEW T, \A t \in T : Sound(t, n) /\ t.records[0].reachable,
         NEW u \in CleanUp(T)
  PROVE  Sound(u, n)
<1>1. PICK after :
        /\ CleanUp(T) = after[NumSlots]
        /\ after[0] = T
        /\ \A i \in 1 .. NumSlots : after[i] = {CleanUpSlot(t, i - 1) : t \in after[i - 1]}
  BY CleanUpUnrolled, Zenon
<1> DEFINE Good(k) == \A v \in after[k] : Sound(v, n) /\ (k = 0 => v.records[0].reachable)
           S == {k \in Nat : k <= NumSlots => Good(k)}
<1>2. 0 \in S
  BY <1>1
<1>3. ASSUME NEW k \in Nat, k + 1 <= NumSlots, Good(k)
      PROVE  Good(k + 1)
  <2>1. k + 1 \in 1 .. NumSlots /\ k \in Slot /\ k + 1 - 1 = k /\ k + 1 # 0
    BY <1>3, SizesAssumption DEF Slot
  <2>2. after[k + 1] = {CleanUpSlot(v, k) : v \in after[k]}
    BY <1>1, <2>1
  <2>3. \A v \in after[k] : Sound(CleanUpSlot(v, k), n)
    BY <1>3, <2>1, CleanUpSlotSound
  <2> QED BY <2>1, <2>2, <2>3
<1>4. S = Nat
  <2> HIDE DEF Good
  <2>1. \A k \in S : k + 1 \in S
    <3> SUFFICES ASSUME NEW k \in Nat, k <= NumSlots => Good(k), k + 1 <= NumSlots
                 PROVE  Good(k + 1)
      OBVIOUS
    <3>1. k <= NumSlots
      BY SizesAssumption
    <3> QED BY <1>3, <3>1
  <2> HIDE DEF S
  <2>2. S \in SUBSET Nat
    BY DEF S
  <2> QED BY <1>2, <2>1, <2>2, Induction
<1>5. Good(NumSlots)
  BY <1>4, SizesAssumption
<1> QED BY <1>1, <1>5

\* tableUpdate with what x announces to n.
LEMMA UpdateSound ==
  ASSUME NEW n \in Node, NEW x \in Node \ {n}, NEW t, Sound(t, n), NEW m, Told(m, x, n),
         Len(m) # 1 => \E k \in DOMAIN m : m[k].chatName = n,
         NEW u \in TableUpdate(t, m)
  PROVE  Sound(u, n)
<1>1. \A v \in Merge(t, m) : Sound(v, n) /\ (Len(m) # 1 => v.records[0].reachable)
  BY MergeSound
<1> QED BY <1>1, CleanUpSound DEF TableUpdate

-----------------------------------------------------------------------------
\* The message after each round of tableToCharArray.
Row(t, i) == [t.slots[i] EXCEPT !.nextChatName = t.slots[0].nextChatName]

Rows(rows, t) ==
  rows = [i \in 0 .. NumSlots |->
            IF i = 0 THEN <<>>
            ELSE IF i - 1 \in Used(t) THEN Append(rows[i - 1], Row(t, i - 1)) ELSE rows[i - 1]]

LEMMA RowsExist ==
  ASSUME NEW t
  PROVE  \E rows : Rows(rows, t)
<1> DEFINE Round(s, k) == IF k - 1 \in Used(t) THEN Append(s, Row(t, k - 1)) ELSE s
           Good(f, k) == f = [j \in 0 .. k |-> IF j = 0 THEN <<>> ELSE Round(f[j - 1], j)]
           S == {k \in Nat : \E f : Good(f, k)}
<1> HIDE DEF Round, Good
<1>1. 0 \in S
  <2> DEFINE f == [j \in 0 .. 0 |-> <<>>]
  <2>1. \A j \in 0 .. 0 : f[j] = IF j = 0 THEN <<>> ELSE Round(f[j - 1], j)
    OBVIOUS
  <2>2. Good(f, 0)
    BY <2>1 DEF Good
  <2> QED BY <2>2
<1>2. \A k \in S : k + 1 \in S
  <2> SUFFICES ASSUME NEW k \in Nat, NEW f, Good(f, k) PROVE \E g : Good(g, k + 1)
    OBVIOUS
  <2>1. \A j \in 0 .. k : f[j] = IF j = 0 THEN <<>> ELSE Round(f[j - 1], j)
    BY DEF Good
  <2> DEFINE g == [j \in 0 .. k + 1 |-> IF j = k + 1 THEN Round(f[k], j) ELSE f[j]]
  <2>2. ASSUME NEW j \in 0 .. k + 1
        PROVE  g[j] = IF j = 0 THEN <<>> ELSE Round(g[j - 1], j)
    <3>1. CASE j = k + 1
      <4>1. g[j] = Round(f[k], j) /\ g[j - 1] = f[k] /\ j # 0
        BY <3>1
      <4> QED BY <4>1
    <3>2. CASE j \in 0 .. k
      <4>1. g[j] = f[j] /\ (j # 0 => g[j - 1] = f[j - 1])
        BY <3>2
      <4> QED BY <2>1, <3>2, <4>1
    <3> QED BY <3>1, <3>2
  <2>3. Good(g, k + 1)
    <3> DEFINE G == [j \in 0 .. k + 1 |-> IF j = 0 THEN <<>> ELSE Round(g[j - 1], j)]
    <3>1. g = G
      BY <2>2
    <3> QED BY <3>1, Zenon DEF Good
  <2> QED BY <2>3
<1>3. S = Nat
  <2> HIDE DEF S
  <2>1. S \in SUBSET Nat
    BY DEF S
  <2> QED BY <1>1, <1>2, <2>1, Induction
<1>4. NumSlots \in S
  BY <1>3, SizesAssumption
<1> QED BY <1>4 DEF Rows, Round, Good

LEMMA RowsUnrolled ==
  ASSUME NEW t
  PROVE  \E rows :
           /\ TableToCharArray(t) = rows[NumSlots]
           /\ rows[0] = <<>>
           /\ \A i \in 1 .. NumSlots :
                rows[i] = IF i - 1 \in Used(t) THEN Append(rows[i - 1], Row(t, i - 1))
                          ELSE rows[i - 1]
<1> DEFINE rows == CHOOSE f : Rows(f, t)
           Round(s, k) == IF k - 1 \in Used(t) THEN Append(s, Row(t, k - 1)) ELSE s
<1>1. Rows(rows, t)
  BY RowsExist, Zenon
<1>2. TableToCharArray(t) = rows[NumSlots]
  BY Zenon DEF TableToCharArray, Rows, Row
<1> HIDE DEF rows, Round
<1>3. rows = [i \in 0 .. NumSlots |-> IF i = 0 THEN <<>> ELSE Round(rows[i - 1], i)]
  BY <1>1 DEF Rows, Round
<1>4. /\ rows[0] = <<>>
      /\ \A i \in 1 .. NumSlots : rows[i] = Round(rows[i - 1], i)
  BY <1>3, SizesAssumption
<1> QED BY <1>2, <1>4, Zenon DEF Round

LEMMA ZeroUsed == ASSUME NEW n \in Node, NEW t, Sound(t, n) PROVE 0 \in Used(t)
BY SlotFacts, NodesAssumption DEF Sound, Used, Null

\* What n announces leads through n, begins with n and has exactly the names
\* that n knows.
LEMMA RowsTold ==
  ASSUME NEW n \in Node, NEW t, Sound(t, n)
  PROVE  LET m == TableToCharArray(t)
         IN  /\ m \in Seq(Routes)
             /\ \A h \in DOMAIN m : m[h].nextChatName = n /\ (m[h].hopCount = 0 <=> m[h].chatName = n)
             /\ \A i \in Used(t) : \E h \in DOMAIN m : m[h].chatName = t.slots[i].chatName
             /\ \A h \in DOMAIN m : \E i \in Used(t) : m[h] = Row(t, i)
             /\ m # <<>> /\ m[1].chatName = n
<1>1. PICK rows :
        /\ TableToCharArray(t) = rows[NumSlots]
        /\ rows[0] = <<>>
        /\ \A i \in 1 .. NumSlots :
             rows[i] = IF i - 1 \in Used(t) THEN Append(rows[i - 1], Row(t, i - 1))
                       ELSE rows[i - 1]
  BY RowsUnrolled, Zenon
<1> DEFINE Good(k) ==
             /\ rows[k] \in Seq(Routes)
             /\ \A h \in DOMAIN rows[k] : /\ rows[k][h].nextChatName = n
                                          /\ rows[k][h].hopCount = 0 <=> rows[k][h].chatName = n
             /\ \A i \in Used(t) : i < k =>
                  \E h \in DOMAIN rows[k] : rows[k][h].chatName = t.slots[i].chatName
             /\ \A h \in DOMAIN rows[k] : \E i \in Used(t) : rows[k][h] = Row(t, i)
             /\ IF k = 0 THEN rows[k] = <<>> ELSE 1 \in DOMAIN rows[k] /\ rows[k][1].chatName = n
           S == {k \in Nat : k <= NumSlots => Good(k)}
<1>2. 0 \in S
  <2>1. \A i \in Used(t) : ~(i < 0)
    BY SizesAssumption DEF Used, Slot
  <2>2. rows[0] \in Seq(Routes) /\ DOMAIN rows[0] = {} /\ rows[0] = <<>>
    BY <1>1
  <2>3. Good(0)
    BY <2>1, <2>2
  <2> HIDE DEF Good
  <2> QED BY <2>3
<1>3. ASSUME NEW k \in Nat, k + 1 <= NumSlots, Good(k)
      PROVE  Good(k + 1)
  <2>1. k + 1 \in 1 .. NumSlots /\ k \in Slot /\ k + 1 - 1 = k
    BY <1>3, SizesAssumption DEF Slot
  <2>2. rows[k + 1] = IF k \in Used(t) THEN Append(rows[k], Row(t, k)) ELSE rows[k]
    BY <1>1, <2>1
  <2>3. \A i \in Used(t) : i < k + 1 => i < k \/ i = k
    BY SizesAssumption DEF Used, Slot
  <2>4. CASE k \notin Used(t)
    <3>1. rows[k + 1] = rows[k]
      BY <2>2, <2>4
    <3>2. \A i \in Used(t) : i < k + 1 => i < k
      BY <2>3, <2>4
    <3>3. k # 0 /\ k + 1 # 0
      BY <2>4, ZeroUsed
    <3> QED BY <1>3, <3>1, <3>2, <3>3
  <2>5. CASE k \in Used(t)
    <3> DEFINE s == rows[k]
               r == Row(t, k)
    <3>1. /\ r \in Routes /\ r.chatName = t.slots[k].chatName /\ r.nextChatName = n
          /\ r.hopCount = 0 <=> r.chatName = n
      <4>1. t.slots[k] \in Routes /\ t.slots[0].nextChatName = n
        BY <2>1, <2>5 DEF Used, Sound, Tables
      <4>2. t.slots[k].hopCount = 0 <=> t.slots[k].chatName = n
        BY <2>1, <2>5, <4>1, SlotFacts DEF Used, Sound, Foreign
      <4> QED BY <4>1, <4>2 DEF Row, Routes
    <3>8. r = Row(t, k) /\ (k = 0 => r.chatName = n)
      BY <3>1 DEF Sound
    <3> HIDE DEF r
    <3>2. rows[k + 1] = Append(s, r) /\ s \in Seq(Routes)
      BY <1>3, <2>2, <2>5 DEF r
    <3> HIDE DEF s
    <3> DEFINE a == Append(s, r)
    <3>3. /\ a \in Seq(Routes)
          /\ DOMAIN a = 1 .. Len(s) + 1 /\ DOMAIN s = 1 .. Len(s) /\ Len(s) \in Nat
          /\ a[Len(s) + 1] = r
          /\ \A h \in 1 .. Len(s) : a[h] = s[h]
      BY <3>1, <3>2
    <3> HIDE DEF a
    <3>4. \A h \in DOMAIN a : h = Len(s) + 1 \/ h \in DOMAIN s
      BY <3>3
    <3>5. /\ \A h \in DOMAIN s : s[h].nextChatName = n /\ (s[h].hopCount = 0 <=> s[h].chatName = n)
          /\ \A i \in Used(t) : i < k => \E h \in DOMAIN s : s[h].chatName = t.slots[i].chatName
      BY <1>3 DEF s
    <3>6. \A h \in DOMAIN a : a[h].nextChatName = n /\ (a[h].hopCount = 0 <=> a[h].chatName = n)
      BY <3>1, <3>3, <3>4, <3>5
    <3>7. ASSUME NEW i \in Used(t), i < k + 1
          PROVE  \E h \in DOMAIN a : a[h].chatName = t.slots[i].chatName
      <4>1. CASE i = k
        BY <3>1, <3>3, <4>1
      <4>2. CASE i < k
        BY <3>3, <3>5, <4>2
      <4> QED BY <2>3, <3>7, <4>1, <4>2
    <3>9. \A h \in DOMAIN a : \E i \in Used(t) : a[h] = Row(t, i)
      <4>1. \A h \in DOMAIN s : \E i \in Used(t) : s[h] = Row(t, i)
        BY <1>3 DEF s
      <4> QED BY <2>5, <3>3, <3>4, <3>8, <4>1
    <3>10. 1 \in DOMAIN a /\ a[1].chatName = n
      <4>1. CASE k = 0
        <5>1. s = <<>>
          BY <1>3, <4>1 DEF s
        <5>2. Len(s) = 0
          BY <5>1
        <5> QED BY <3>3, <3>8, <4>1, <5>2
      <4>2. CASE k # 0
        <5>1. 1 \in DOMAIN s /\ s[1].chatName = n
          BY <1>3, <4>2 DEF s
        <5> QED BY <3>3, <5>1
      <4> QED BY <4>1, <4>2
    <3>11. k + 1 # 0
      BY <1>3
    <3> QED BY <3>2, <3>3, <3>6, <3>7, <3>9, <3>10, <3>11 DEF a
  <2> QED BY <2>4, <2>5
<1>4. S = Nat
  <2> HIDE DEF Good
  <2>1. \A k \in S : k + 1 \in S
    <3> SUFFICES ASSUME NEW k \in Nat, k <= NumSlots => Good(k), k + 1 <= NumSlots
                 PROVE  Good(k + 1)
      OBVIOUS
    <3>1. k <= NumSlots
      BY SizesAssumption
    <3> QED BY <1>3, <3>1
  <2> HIDE DEF S
  <2>2. S \in SUBSET Nat
    BY DEF S
  <2> QED BY <1>2, <2>1, <2>2, Induction
<1>5. Good(NumSlots)
  BY <1>4, SizesAssumption
<1>6. NumSlots # 0 /\ \A i \in Used(t) : i < NumSlots
  BY SizesAssumption DEF Used, Slot
<1>7. rows[NumSlots] # <<>>
  BY <1>5, <1>6
<1> QED BY <1>1, <1>5, <1>6, <1>7

-----------------------------------------------------------------------------
\* A direct neighbour is its own next hop, and it is not n.
LEMMA NeighbourFacts ==
  ASSUME NEW n \in Node, NEW t, Sound(t, n), NEW x \in HopsOneAway(t)
  PROVE  x \in Node \ {n} /\ GetRouting(t, x) = x /\ \E i \in Used(t) : t.slots[i].chatName = x
<1>1. PICK i \in Used(t) : t.slots[i].hopCount = 1 /\ t.slots[i].chatName = x
  BY DEF HopsOneAway
<1>2. i \in Slot /\ t.slots[i] # Null /\ t.slots[i] \in Routes
  BY DEF Used, Sound, Tables
<1>3. i # 0
  <2>1. t.slots[0].hopCount = 0
    BY DEF Sound
  <2> QED BY <1>1, <2>1
<1>4. Foreign(t.slots[i], n)
  BY <1>2, <1>3 DEF Sound
<1>5. x \in Node \ {n} /\ t.slots[i].nextChatName = x
  BY <1>1, <1>2, <1>4 DEF Foreign, Routes
<1>6. SlotsOf(t, x) = {i}
  BY <1>1, <1>2 DEF SlotsOf, Sound
<1>7. Least(SlotsOf(t, x)) = i
  BY <1>2, <1>6, LeastSlot
<1> QED BY <1>1, <1>5, <1>6, <1>7 DEF GetRouting

Message == [type : {"LOGIN", "LOGOUT", "HEART", "HEARTRESPONSE"}, from : Node]
           \cup [type : {"ROUTE"}, from : Node, entries : Seq(Routes)]

\* What is on its way to l[2] from l[1].
Sent(m, l) ==
  /\ m.from = l[1]
  /\ m.type = "ROUTE" => m.entries \in Seq(Routes) /\ Announces(m.entries, l[1], l[2])

Queues(q) ==
  /\ q \in [Link -> Seq(Message)]
  /\ \A l \in Link : \A k \in DOMAIN q[l] : Sent(q[l][k], l)

LEMMA PostQueues ==
  ASSUME NEW n \in Node, NEW q, Queues(q), NEW dests, NEW m \in Message,
         \A x \in dests \cap Node : x # n => Sent(m, <<n, x>>)
  PROVE  Queues(Post(q, n, dests, m))
<1> DEFINE p == Post(q, n, dests, m)
<1>1. ASSUME NEW l \in Link
      PROVE  p[l] \in Seq(Message) /\ \A k \in DOMAIN p[l] : Sent(p[l][k], l)
  <2>1. q[l] \in Seq(Message) /\ \A k \in DOMAIN q[l] : Sent(q[l][k], l)
    BY DEF Queues
  <2>2. CASE l[1] = n /\ l[2] \in dests \cap On
    <3>1. l = <<n, l[2]>> /\ l[2] \in dests \cap Node /\ l[2] # n
      BY <2>2 DEF Link, On
    <3>2. Sent(m, l)
      BY <3>1
    <3>3. p[l] = Append(q[l], m)
      BY <2>2 DEF Post
    <3> DEFINE s == q[l]
    <3> HIDE DEF s, p
    <3>4. s \in Seq(Message) /\ p[l] = Append(s, m) /\ \A k \in DOMAIN s : Sent(s[k], l)
      BY <2>1, <3>3 DEF s
    <3>5. /\ p[l] \in Seq(Message)
          /\ \A k \in DOMAIN p[l] : (k \in DOMAIN s /\ p[l][k] = s[k]) \/ p[l][k] = m
      BY <3>4
    <3> QED BY <3>2, <3>4, <3>5
  <2>3. CASE ~(l[1] = n /\ l[2] \in dests \cap On)
    <3>1. p[l] = q[l]
      BY <2>3 DEF Post
    <3> QED BY <2>1, <3>1
  <2> QED BY <2>2, <2>3
<1>2. p \in [Link -> Seq(Message)]
  <2>1. DOMAIN p = Link /\ p = [l \in Link |-> p[l]]
    BY DEF Post
  <2> HIDE DEF p
  <2> QED BY <1>1, <2>1
<1> HIDE DEF p
<1>3. Queues(p)
  BY <1>1, <1>2 DEF Queues
<1> QED BY <1>3 DEF p

LEMMA RouteQueues ==
  ASSUME NEW n \in Node, NEW q, Queues(q), NEW t, Sound(t, n), NEW skip
  PROVE  Queues(SendRoute(q, n, t, skip))
<1> DEFINE rows == TableToCharArray(t)
           m == [type |-> "ROUTE", from |-> n, entries |-> rows]
           dests == {GetRouting(t, x) : x \in HopsOneAway(t) \ {skip}}
<1>1. /\ rows \in Seq(Routes)
      /\ \A h \in DOMAIN rows : rows[h].nextChatName = n /\ (rows[h].hopCount = 0 <=> rows[h].chatName = n)
      /\ \A i \in Used(t) : \E h \in DOMAIN rows : rows[h].chatName = t.slots[i].chatName
  BY RowsTold
<1> HIDE DEF rows
<1>2. m \in Message
  BY <1>1 DEF Message
<1>3. ASSUME NEW x \in dests
      PROVE  Sent(m, <<n, x>>)
  <2>1. \E i \in Used(t) : t.slots[i].chatName = x
    BY NeighbourFacts
  <2>2. \E h \in DOMAIN rows : rows[h].chatName = x
    BY <1>1, <2>1
  <2>3. Announces(rows, n, x)
    BY <1>1, <2>2 DEF Announces
  <2> QED BY <1>1, <2>3 DEF Sent
<1> HIDE DEF m, dests
<1>4. Queues(Post(q, n, dests, m))
  BY <1>2, <1>3, PostQueues
<1> QED BY <1>4 DEF SendRoute, SendToAll, m, dests, rows

\* What carries nothing but the name of its sender.
LEMMA PlainQueues ==
  ASSUME NEW n \in Node, NEW q, Queues(q), NEW dests,
         NEW type \in {"LOGIN", "LOGOUT", "HEART", "HEARTRESPONSE"}
  PROVE  Queues(Post(q, n, dests, [type |-> type, from |-> n]))
<1> DEFINE m == [type |-> type, from |-> n]
<1>1. m \in Message /\ \A x : Sent(m, <<n, x>>)
  BY DEF Message, Sent
<1> HIDE DEF m
<1>2. Queues(Post(q, n, dests, m))
  BY <1>1, PostQueues
<1> QED BY <1>2 DEF m

LEMMA UnreadQueues ==
  ASSUME NEW n \in Node, NEW q, Queues(q)
  PROVE  Queues(Unread(q, n))
BY DEF Queues, Unread

LEMMA ReadQueues ==
  ASSUME Queues(chan), NEW n \in Node, NEW x \in Node \ {n}, NEW type, Reads(n, x, type)
  PROVE  /\ Queues(Read(n, x))
         /\ Sent(Head(chan[<<x, n>>]), <<x, n>>)
         /\ Head(chan[<<x, n>>]).type = type
<1> DEFINE l == <<x, n>>
           s == chan[l]
<1>1. l \in Link /\ s \in Seq(Message) /\ s # <<>> /\ \A k \in DOMAIN s : Sent(s[k], l)
  BY DEF Queues, Reads, Link
<1> HIDE DEF s
<1>2. Sent(Head(s), l)
  BY <1>1
<1>3. Tail(s) \in Seq(Message) /\ \A k \in DOMAIN Tail(s) : Sent(Tail(s)[k], l)
  BY <1>1
<1>4. Queues([chan EXCEPT ![l] = Tail(s)])
  BY <1>1, <1>3 DEF Queues
<1> QED BY <1>2, <1>4 DEF Reads, Read, s

-----------------------------------------------------------------------------
\* The inductive invariant: the tables are sound, and so is what is sent.
IInv ==
  /\ state \in [Node -> {"off", "on", "stopped"}]
  /\ table \in [Node -> Tables]
  /\ \A n \in Node : Sound(table[n], n)
  /\ Queues(chan)
  /\ upsets \in 0 .. MaxUpsets
  /\ returns \in 0 .. MaxReturns
  /\ signals \in 0 .. MaxSignals

LEMMA InitIInv == Init => IInv
<1> SUFFICES ASSUME Init PROVE IInv
  OBVIOUS
<1>1. \A n \in Node : Sound(table[n], n) /\ table[n] \in Tables
  <2>1. \A n \in Node : Sound(table[n], n)
    BY InitSound DEF Init
  <2> QED BY <2>1 DEF Sound
<1>2. Queues(chan)
  BY DEF Init, Queues
<1>3. state \in [Node -> {"off", "on", "stopped"}] /\ table \in [Node -> Tables]
  BY <1>1 DEF Init
<1>4. 0 \in 0 .. MaxUpsets /\ 0 \in 0 .. MaxReturns /\ 0 \in 0 .. MaxSignals
  BY SizesAssumption
<1> QED BY <1>1, <1>2, <1>3, <1>4 DEF Init, IInv

\* What leaves table[n] sound leaves all of them sound.
LEMMA TableStep ==
  ASSUME IInv, NEW n \in Node, NEW t, Sound(t, n), table' = [table EXCEPT ![n] = t]
  PROVE  table' \in [Node -> Tables] /\ \A k \in Node : Sound(table'[k], k)
<1>1. t \in Tables
  BY DEF Sound
<1> QED BY <1>1 DEF IInv

LEMMA StartStep == ASSUME IInv, NEW n \in Node, NEW to \in Node \cup {NoName}, Start(n, to) PROVE IInv'
<1>1. Queues(chan')
  <2>1. chan' = Post(chan, n, {to}, [type |-> "LOGIN", from |-> n])
    BY DEF Start, LoginMessage
  <2>2. Queues(Post(chan, n, {to}, [type |-> "LOGIN", from |-> n]))
    BY PlainQueues DEF IInv
  <2> QED BY <2>1, <2>2
<1>2. returns' \in 0 .. MaxReturns /\ signals' \in 0 .. MaxSignals
  BY SizesAssumption DEF Start, IInv
<1> QED BY <1>1, <1>2 DEF IInv, Start, Queues

LEMMA StopStep == ASSUME IInv, NEW n \in Node, DoLogout(n) \/ Crash(n) PROVE IInv'
<1>1. Stop(n)
  BY DEF DoLogout, Crash
<1>2. Queues(chan)'
  <2>1. PICK q : Queues(q) /\ chan' = Unread(q, n)
    <3>1. CASE Crash(n)
      BY <3>1 DEF Crash, IInv
    <3>2. CASE DoLogout(n)
      <4> DEFINE q == SendToAll(chan, n, table[n], NoName, [type |-> "LOGOUT", from |-> n])
      <4>1. Queues(q)
        BY PlainQueues DEF SendToAll, IInv
      <4> QED BY <3>2, <4>1 DEF DoLogout
    <3> QED BY <3>1, <3>2
  <2>2. Queues(Unread(q, n))
    BY <2>1, UnreadQueues
  <2> QED BY <2>1, <2>2 DEF Queues
<1>3. table' \in [Node -> Tables] /\ \A k \in Node : Sound(table'[k], k)
  BY <1>1, InitSound, TableStep DEF Stop
<1>4. state' \in [Node -> {"off", "on", "stopped"}] /\ upsets' \in 0 .. MaxUpsets
      /\ returns' = returns /\ signals' = signals
  BY <1>1, SizesAssumption DEF Stop, IInv
<1> QED BY <1>2, <1>3, <1>4 DEF IInv

\* A LOGIN of x says that x is next door.
LEMMA LoginTold ==
  ASSUME NEW n \in Node, NEW x \in Node \ {n}
  PROVE  LET m == LoginRow(x) IN Told(m, x, n) /\ Len(m) = 1 /\ \A k \in DOMAIN m : m[k].chatName = x
BY DEF Told, Routes, LoginRow

LEMMA LoginStep == ASSUME IInv, NEW n \in Node, NEW x \in Node \ {n}, MsgLogin(n, x) PROVE IInv'
<1> DEFINE m == LoginRow(x)
<1>1. PICK t \in TableUpdate(table[n], m) :
        /\ table' = [table EXCEPT ![n] = t]
        /\ chan' = Post(SendRoute(Read(n, x), n, t, NoName), n, {GetRouting(t, x)},
                        [type |-> "HEART", from |-> n])
  BY DEF MsgLogin
<1>2. Told(m, x, n) /\ Len(m) = 1
  BY LoginTold
<1> HIDE DEF m
<1>3. Sound(t, n)
  BY <1>2, UpdateSound DEF IInv
<1>4. Queues(Read(n, x))
  BY ReadQueues DEF IInv, MsgLogin
<1>5. Queues(SendRoute(Read(n, x), n, t, NoName))
  BY <1>3, <1>4, RouteQueues
<1>6. Queues(chan')
  BY <1>1, <1>5, PlainQueues
<1>7. table' \in [Node -> Tables] /\ \A k \in Node : Sound(table'[k], k)
  BY <1>1, <1>3, TableStep
<1> QED BY <1>6, <1>7 DEF MsgLogin, IInv, Queues

\* What a ROUTE says is what tableUpdate relies on.
LEMMA RouteIsTold ==
  ASSUME IInv, NEW n \in Node, NEW x \in Node \ {n}, Reads(n, x, "ROUTE"),
         NEW m, m = Head(chan[<<x, n>>]).entries
  PROVE  /\ Told(m, x, n)
         /\ Len(m) # 1 => \E k \in DOMAIN m : m[k].chatName = n
<1>1. m \in Seq(Routes) /\ Announces(m, x, n)
  BY ReadQueues DEF IInv, Sent
<1>2. Len(m) \in Nat /\ Len(m) # 0
  BY <1>1 DEF Announces
<1>3. Told(m, x, n)
  BY <1>1 DEF Told, Announces
<1>4. Len(m) # 1 => Len(m) > 1
  <2>1. \A l \in Nat : l # 0 /\ l # 1 => l > 1
    OBVIOUS
  <2> QED BY <1>2, <2>1
<1>5. Len(m) # 1 => \E k \in DOMAIN m : m[k].chatName = n
  BY <1>1, <1>4 DEF Announces
<1> QED BY <1>3, <1>5

LEMMA RouteStep == ASSUME IInv, NEW n \in Node, NEW x \in Node \ {n}, MsgRoute(n, x) PROVE IInv'
<1> DEFINE m == Head(chan[<<x, n>>]).entries
<1>1. PICK t \in TableUpdate(table[n], m) :
        table' = [table EXCEPT ![n] = t] /\ chan' = SendRoute(Read(n, x), n, t, x)
  BY DEF MsgRoute
<1>2. Queues(Read(n, x))
  BY ReadQueues DEF IInv, MsgRoute
<1>3. Told(m, x, n) /\ (Len(m) # 1 => \E k \in DOMAIN m : m[k].chatName = n)
  BY RouteIsTold DEF MsgRoute
<1> HIDE DEF m
<1>4. Sound(t, n)
  BY <1>3, UpdateSound DEF IInv
<1>5. Queues(chan')
  BY <1>1, <1>2, <1>4, RouteQueues
<1>6. table' \in [Node -> Tables] /\ \A k \in Node : Sound(table'[k], k)
  BY <1>1, <1>4, TableStep
<1> QED BY <1>5, <1>6 DEF MsgRoute, IInv, Queues

LEMMA LogoutStep == ASSUME IInv, NEW n \in Node, NEW x \in Node \ {n}, MsgLogout(n, x) PROVE IInv'
<1> DEFINE t == DeleteFromTable(table[n], x)
<1>1. table' = [table EXCEPT ![n] = t] /\ chan' = SendRoute(Read(n, x), n, t, NoName)
  BY DEF MsgLogout
<1>2. Sound(t, n)
  BY DeleteSound DEF IInv
<1> HIDE DEF t
<1>3. Queues(Read(n, x))
  BY ReadQueues DEF IInv, MsgLogout
<1>4. Queues(chan')
  BY <1>1, <1>2, <1>3, RouteQueues
<1>5. table' \in [Node -> Tables] /\ \A k \in Node : Sound(table'[k], k)
  BY <1>1, <1>2, TableStep
<1> QED BY <1>4, <1>5 DEF MsgLogout, IInv, Queues

LEMMA HeartStep ==
  ASSUME IInv, NEW n \in Node, NEW x \in Node \ {n}, MsgHeart(n, x) \/ MsgHeartResponse(n, x)
  PROVE  IInv'
<1>1. Queues(Read(n, x))
  BY ReadQueues DEF IInv, MsgHeart, MsgHeartResponse
<1>2. Queues(Post(Read(n, x), n, {GetRouting(table[n], x)}, [type |-> "HEARTRESPONSE", from |-> n]))
  BY <1>1, PlainQueues
<1>3. Queues(chan')
  BY <1>1, <1>2 DEF MsgHeart, MsgHeartResponse
<1> QED BY <1>3 DEF MsgHeart, MsgHeartResponse, IInv, Queues

LEMMA SignalStep == ASSUME IInv, NEW n \in Node, NEW x \in Node \ {n}, SendHeart(n, x) PROVE IInv'
<1>1. PICK dests : chan' = Post(chan, n, dests, [type |-> "HEART", from |-> n])
  BY DEF SendHeart
<1>2. Queues(chan')
  BY <1>1, PlainQueues DEF IInv
<1>3. signals' \in 0 .. MaxSignals
  BY SizesAssumption DEF SendHeart, IInv
<1> QED BY <1>2, <1>3 DEF SendHeart, IInv, Queues

LEMMA AlarmStep ==
  ASSUME IInv, NEW n \in Node, NEW x \in Node \ {n}, Timeout(n, x) \/ FalseAlarm(n, x)
  PROVE  IInv'
<1> DEFINE t == DeleteFromTable(table[n], x)
<1>1. /\ table' = [table EXCEPT ![n] = t] /\ chan' = SendRoute(chan, n, t, NoName)
      /\ UNCHANGED <<state, returns, signals>>
  BY DEF Timeout, FalseAlarm, Alarm
<1>2. Sound(t, n)
  BY DeleteSound DEF IInv
<1> HIDE DEF t
<1>3. Queues(chan')
  BY <1>1, <1>2, RouteQueues DEF IInv
<1>4. table' \in [Node -> Tables] /\ \A k \in Node : Sound(table'[k], k)
  BY <1>1, <1>2, TableStep
<1>5. upsets' \in 0 .. MaxUpsets
  BY SizesAssumption DEF Timeout, FalseAlarm, IInv
<1> QED BY <1>1, <1>3, <1>4, <1>5 DEF IInv, Queues

LEMMA NextIInv == IInv /\ [Next]_vars => IInv'
<1> SUFFICES ASSUME IInv, [Next]_vars PROVE IInv'
  OBVIOUS
<1>1. CASE UNCHANGED vars
  BY <1>1 DEF IInv, vars, Queues
<1>2. ASSUME NEW n \in Node, DoLogout(n) \/ Crash(n) PROVE IInv'
  BY <1>2, StopStep
<1>3. ASSUME NEW n \in Node, NEW to \in Node \cup {NoName}, Start(n, to) PROVE IInv'
  BY <1>3, StartStep
<1>4. ASSUME NEW n \in Node, NEW x \in Node \ {n}, Handle(n, x) \/ SendHeart(n, x) \/ FalseAlarm(n, x)
      PROVE  IInv'
  BY <1>4, LoginStep, RouteStep, LogoutStep, HeartStep, SignalStep, AlarmStep DEF Handle
<1>5. \A l \in Link : l[1] \in Node /\ l[2] \in Node \ {l[1]}
  BY DEF Link
<1> QED BY <1>1, <1>2, <1>3, <1>4, <1>5 DEF Next

\* At every moment every table has its owner in slot 0 and nowhere else, and
\* no name twice, whatever the network goes through: the loops of
\* routingTable.c never take the own entry out.
THEOREM TablesSound == Spec => []IInv
BY InitIInv, NextIInv, PTL DEF Spec

\* The type invariant: tables hold names of nodes with distances, messages
\* the name of their sender (protocol.c, routingTable.c).
THEOREM NetworkTypes == Spec => []TypeOK
<1>1. IInv => TypeOK
  <2> SUFFICES ASSUME IInv PROVE TypeOK
    OBVIOUS
  <2>1. ASSUME NEW l \in Link, NEW k \in DOMAIN chan[l]
        PROVE  LET m == chan[l][k]
               IN  /\ m.from = l[1]
                   /\ m.type \in {"LOGIN", "LOGOUT", "ROUTE", "HEART", "HEARTRESPONSE"}
                   /\ m.type = "ROUTE" => m.entries \in Seq(Routes)
    <3>1. chan[l][k] \in Message /\ Sent(chan[l][k], l)
      BY DEF IInv, Queues
    <3> QED BY <3>1 DEF Message, Sent
  <2> QED BY <2>1 DEF IInv, TypeOK, Tables
<1> QED BY <1>1, TablesSound, PTL

\* Every ROUTE is what its receiver relies on: all its entries lead through
\* the sender, and whoever it is sent to finds himself in it, so that his
\* cleanUp does not take his own entry out (tableToCharArray, cleanUp).
THEOREM RoutesAnnounceAlways == Spec => []RoutesAnnounce
<1>1. IInv => RoutesAnnounce
  BY DEF IInv, Queues, Sent, RoutesAnnounce
<1> QED BY <1>1, TablesSound, PTL

-----------------------------------------------------------------------------
\* An announced entry with the hop to its sender.
Farther(e) == [chatName |-> e.chatName, nextChatName |-> e.nextChatName, hopCount |-> e.hopCount + 1]

\* u is t after entry e has been put into slot i.
Placed(u, t, e, i) ==
  /\ IF SlotsOf(t, e.chatName) = {} THEN t.slots[i] = Null ELSE t.slots[i].chatName = e.chatName
  /\ u.records[i] = [chatName |-> e.chatName, reachable |-> TRUE]
  /\ \A j \in Slot \ {i} : u.slots[j] = t.slots[j] /\ u.records[j] = t.records[j]
  /\ u.slots[i] = IF t.slots[i] # Null /\ t.slots[i].hopCount <= e.hopCount + 1
                  THEN t.slots[i] ELSE Farther(e)

\* One round of tableUpdate puts the entry into one slot, or drops it.
LEMMA PutPlaces ==
  ASSUME NEW t \in Tables, NEW entry \in Routes
  PROVE  \/ /\ SlotsOf(t, entry.chatName) = {} /\ Used(t) = Slot
            /\ PutEntry(t, entry) = t
         \/ \E i \in Slot : Placed(PutEntry(t, entry), t, entry, i)
<1> DEFINE e == [entry EXCEPT !.hopCount = @ + 1]
           known == SlotsOf(t, e.chatName)
           unused == Slot \ Used(t)
           i == Least(IF known # {} THEN known ELSE unused)
           better == known # {} => t.slots[i].hopCount > e.hopCount
           r == [chatName |-> e.chatName, reachable |-> TRUE]
           new == [slots |-> IF better THEN [t.slots EXCEPT ![i] = e] ELSE t.slots,
                   records |-> [t.records EXCEPT ![i] = r]]
<1>0. PutEntry(t, entry) = IF known \cup unused = {} THEN t ELSE new
  BY Zenon DEF PutEntry
<1>1. e = Farther(entry) /\ e.chatName = entry.chatName /\ e.hopCount = entry.hopCount + 1
  BY DEF Routes, Farther
<1>2. /\ t.slots \in [Slot -> Routes \cup {Null}]
      /\ t.records \in [Slot -> [chatName : Node \cup {NoName}, reachable : BOOLEAN]]
  BY DEF Tables
<1> HIDE DEF e
<1>3. CASE known \cup unused = {}
  BY <1>0, <1>1, <1>3 DEF Used
<1>4. CASE known \cup unused # {}
  <2>1. i \in Slot /\ (IF known # {} THEN i \in known ELSE i \in unused)
    BY <1>4, LeastSlot DEF SlotsOf
  <2>2. /\ known = SlotsOf(t, entry.chatName)
        /\ known # {} => t.slots[i].chatName = entry.chatName /\ t.slots[i] \in Routes
        /\ known = {} => t.slots[i] = Null
    BY <1>1, <1>2, <2>1, NullFacts, NodesAssumption DEF SlotsOf, Used, Routes
  <2> HIDE DEF i, known
  <2>3. /\ new.records[i] = [chatName |-> entry.chatName, reachable |-> TRUE]
        /\ \A j \in Slot \ {i} : new.slots[j] = t.slots[j] /\ new.records[j] = t.records[j]
    BY <1>1, <1>2, <2>1
  <2>4. new.slots[i] = IF t.slots[i] # Null /\ t.slots[i].hopCount <= entry.hopCount + 1
                       THEN t.slots[i] ELSE Farther(entry)
    <3>1. new.slots[i] = IF better THEN Farther(entry) ELSE t.slots[i]
      BY <1>1, <1>2, <2>1
    <3>2. CASE known = {}
      BY <2>2, <3>1, <3>2
    <3>3. CASE known # {}
      <4>1. better <=> ~(t.slots[i].hopCount <= entry.hopCount + 1)
        BY <1>1, <2>2, <3>3 DEF Routes
      <4>2. t.slots[i] # Null
        BY <2>2, <3>3, NullFacts
      <4> HIDE DEF better
      <4> QED BY <3>1, <4>1, <4>2
    <3> QED BY <3>2, <3>3
  <2>5. PutEntry(t, entry) = new
    BY <1>0, <1>4 DEF known
  <2> HIDE DEF new
  <2>6. Placed(new, t, entry, i)
    BY <2>2, <2>3, <2>4 DEF Placed
  <2> QED BY <2>1, <2>5, <2>6
<1> QED BY <1>3, <1>4

-----------------------------------------------------------------------------
\* Every slot of u is as it was in t, empty, or has an entry of m.
Stems(u, t, m) ==
  \A i \in Slot : \/ u.slots[i] \in {Null, t.slots[i]}
                  \/ \E k \in DOMAIN m : u.slots[i] = Farther(m[k])

LEMMA PutStems ==
  ASSUME NEW t, NEW v \in Tables, NEW m \in Seq(Routes), Stems(v, t, m), NEW k \in DOMAIN m
  PROVE  Stems(PutEntry(v, m[k]), t, m)
<1>1. m[k] \in Routes
  OBVIOUS
<1>2. PutEntry(v, m[k]) = v \/ \E i \in Slot : Placed(PutEntry(v, m[k]), v, m[k], i)
  BY <1>1, PutPlaces
<1>3. ASSUME NEW i \in Slot, Placed(PutEntry(v, m[k]), v, m[k], i)
      PROVE  Stems(PutEntry(v, m[k]), t, m)
  BY <1>3 DEF Placed, Stems
<1> QED BY <1>2, <1>3

\* tableUpdate without cleanUp: where the entries come from.
LEMMA MergeStems ==
  ASSUME NEW n \in Node, NEW x \in Node \ {n}, NEW t, Sound(t, n), NEW m, Told(m, x, n),
         NEW u \in Merge(t, m)
  PROVE  Stems(u, t, m)
<1>1. Len(m) \in Nat /\ DOMAIN m = 1 .. Len(m) /\ m \in Seq(Routes)
  BY DEF Told
<1>2. PICK after : MergeRounds(after, t, m)
  BY <1>1, MergeUnrolled
<1> DEFINE Good(k) == \A v \in after[k] : Sound(v, n) /\ Stems(v, t, m)
           S == {k \in Nat : k <= Len(m) => Good(k)}
<1>3. 0 \in S
  <2>1. Stems(t, t, m)
    BY DEF Stems
  <2>2. after[0] = {t}
    BY <1>2 DEF MergeRounds
  <2>3. Good(0)
    BY <2>1, <2>2
  <2> HIDE DEF Good
  <2> QED BY <2>3
<1>4. ASSUME NEW k \in Nat, k + 1 <= Len(m), Good(k)
      PROVE  Good(k + 1)
  <2>1. k + 1 \in DOMAIN m /\ m[k + 1] \in Routes /\ after[k + 1] = {PutEntry(v, m[k + 1]) : v \in after[k]}
    <3>1. k + 1 \in 1 .. Len(m) /\ k + 1 - 1 = k
      BY <1>1, <1>4
    <3> QED BY <1>1, <1>2, <3>1 DEF MergeRounds
  <2>2. m[k + 1].nextChatName = x /\ (m[k + 1].hopCount = 0 <=> m[k + 1].chatName = x)
    BY <2>1 DEF Told
  <2>3. ASSUME NEW v \in after[k]
        PROVE  Sound(PutEntry(v, m[k + 1]), n) /\ Stems(PutEntry(v, m[k + 1]), t, m)
    <3>1. Sound(v, n) /\ Stems(v, t, m) /\ v \in Tables
      BY <1>4 DEF Sound
    <3>2. Sound(PutEntry(v, m[k + 1]), n)
      BY <2>1, <2>2, <3>1, PutSound
    <3>3. Stems(PutEntry(v, m[k + 1]), t, m)
      BY <1>1, <2>1, <3>1, PutStems
    <3> QED BY <3>2, <3>3
  <2> QED BY <2>1, <2>3
<1>5. S = Nat
  <2> HIDE DEF Good
  <2>1. \A k \in S : k + 1 \in S
    <3> SUFFICES ASSUME NEW k \in Nat, k <= Len(m) => Good(k), k + 1 <= Len(m)
                 PROVE  Good(k + 1)
      OBVIOUS
    <3>1. k <= Len(m)
      BY <1>1
    <3> QED BY <1>4, <3>1
  <2> HIDE DEF S
  <2>2. S \in SUBSET Nat
    BY DEF S
  <2> QED BY <1>3, <2>1, <2>2, Induction
<1>6. Good(Len(m)) /\ u \in after[Len(m)]
  BY <1>1, <1>2, <1>5 DEF MergeRounds
<1> QED BY <1>6

-----------------------------------------------------------------------------
LEMMA DeleteSlots ==
  ASSUME NEW t, NEW x, NEW i \in Slot
  PROVE  DeleteFromTable(t, x).slots[i] \in {Null, t.slots[i]}
BY DEF DeleteFromTable

LEMMA CleanUpSlots ==
  ASSUME NEW t, NEW j, NEW i \in Slot
  PROVE  CleanUpSlot(t, j).slots[i] \in {Null, t.slots[i]}
<1> DEFINE d == DeleteFromTable(t, t.records[j].chatName)
<1>1. d.slots[i] \in {Null, t.slots[i]}
  BY DeleteSlots
<1>2. CleanUpSlot(t, j).slots \in {t.slots, d.slots}
  BY DEF CleanUpSlot
<1> HIDE DEF d
<1> QED BY <1>1, <1>2

\* cleanUp empties slots and fills none.
LEMMA CleanUpKept ==
  ASSUME NEW T, NEW u \in CleanUp(T)
  PROVE  \E t \in T : \A i \in Slot : u.slots[i] \in {Null, t.slots[i]}
<1>1. PICK after :
        /\ CleanUp(T) = after[NumSlots]
        /\ after[0] = T
        /\ \A i \in 1 .. NumSlots : after[i] = {CleanUpSlot(t, i - 1) : t \in after[i - 1]}
  BY CleanUpUnrolled, Zenon
<1> DEFINE Good(k) == \A v \in after[k] : \E t \in T : \A i \in Slot : v.slots[i] \in {Null, t.slots[i]}
           S == {k \in Nat : k <= NumSlots => Good(k)}
<1>2. 0 \in S
  BY <1>1
<1>3. ASSUME NEW k \in Nat, k + 1 <= NumSlots, Good(k)
      PROVE  Good(k + 1)
  <2>1. k + 1 \in 1 .. NumSlots /\ k + 1 - 1 = k
    BY <1>3, SizesAssumption
  <2>2. after[k + 1] = {CleanUpSlot(v, k) : v \in after[k]}
    BY <1>1, <2>1
  <2>3. ASSUME NEW v \in after[k]
        PROVE  \E t \in T : \A i \in Slot : CleanUpSlot(v, k).slots[i] \in {Null, t.slots[i]}
    <3>1. PICK t \in T : \A i \in Slot : v.slots[i] \in {Null, t.slots[i]}
      BY <1>3
    <3>2. \A i \in Slot : CleanUpSlot(v, k).slots[i] \in {Null, v.slots[i]}
      BY CleanUpSlots
    <3> QED BY <3>1, <3>2
  <2> QED BY <2>2, <2>3
<1>4. S = Nat
  <2> HIDE DEF Good
  <2>1. \A k \in S : k + 1 \in S
    <3> SUFFICES ASSUME NEW k \in Nat, k <= NumSlots => Good(k), k + 1 <= NumSlots
                 PROVE  Good(k + 1)
      OBVIOUS
    <3>1. k <= NumSlots
      BY SizesAssumption
    <3> QED BY <1>3, <3>1
  <2> HIDE DEF S
  <2>2. S \in SUBSET Nat
    BY DEF S
  <2> QED BY <1>2, <2>1, <2>2, Induction
<1>5. Good(NumSlots)
  BY <1>4, SizesAssumption
<1> QED BY <1>1, <1>5

\* tableUpdate with what x announces to n: every entry is old or from the
\* announcement.
LEMMA UpdateStems ==
  ASSUME NEW n \in Node, NEW x \in Node \ {n}, NEW t, Sound(t, n), NEW m, Told(m, x, n),
         Len(m) # 1 => \E k \in DOMAIN m : m[k].chatName = n,
         NEW u \in TableUpdate(t, m)
  PROVE  Sound(u, n) /\ Stems(u, t, m)
<1>1. Sound(u, n)
  BY UpdateSound
<1>2. \A v \in Merge(t, m) : Stems(v, t, m)
  BY MergeStems
<1>3. CASE Len(m) = 1
  BY <1>1, <1>2, <1>3 DEF TableUpdate
<1>4. CASE Len(m) # 1
  <2>1. u \in CleanUp(Merge(t, m))
    BY <1>4 DEF TableUpdate
  <2>2. PICK v \in Merge(t, m) : \A i \in Slot : u.slots[i] \in {Null, v.slots[i]}
    BY <2>1, CleanUpKept
  <2>3. Stems(u, t, m)
    BY <1>2, <2>2 DEF Stems
  <2> QED BY <1>1, <2>3
<1> QED BY <1>3, <1>4

\* Of an update from x only x can be a new neighbour.
LEMMA UpdateNeighbours ==
  ASSUME NEW n \in Node, NEW x \in Node \ {n}, NEW m, Told(m, x, n), NEW t, NEW u, Stems(u, t, m)
  PROVE  HopsOneAway(u) \subseteq HopsOneAway(t) \cup {x}
<1> SUFFICES ASSUME NEW i \in Used(u), u.slots[i].hopCount = 1
             PROVE  u.slots[i].chatName \in HopsOneAway(t) \cup {x}
  BY DEF HopsOneAway
<1>1. i \in Slot /\ u.slots[i] # Null
  BY DEF Used
<1>2. CASE u.slots[i] = t.slots[i]
  BY <1>1, <1>2 DEF HopsOneAway, Used
<1>3. ASSUME NEW k \in DOMAIN m, u.slots[i] = Farther(m[k])
      PROVE  u.slots[i].chatName = x
  <2>1. m[k] \in Routes
    BY DEF Told
  <2>2. m[k].hopCount + 1 = 1
    BY <1>3 DEF Farther
  <2>3. m[k].hopCount = 0
    BY <2>1, <2>2 DEF Routes
  <2> QED BY <1>3, <2>3 DEF Told, Farther
<1> QED BY <1>1, <1>2, <1>3 DEF Stems

\* tableUpdate for a LOGIN is one round of its loop.
LoginEntry(x) == [chatName |-> x, nextChatName |-> x, hopCount |-> 0]

LEMMA LoginPuts ==
  ASSUME NEW x \in Node, NEW t, NEW u \in TableUpdate(t, LoginRow(x))
  PROVE  u = PutEntry(t, LoginEntry(x))
<1> DEFINE m == LoginRow(x)
<1>1. Len(m) = 1 /\ Len(m) \in Nat /\ m[1] = LoginEntry(x)
  BY DEF LoginRow, LoginEntry
<1> HIDE DEF m
<1>2. u \in Merge(t, m)
  BY <1>1 DEF TableUpdate, m
<1>3. PICK after : MergeRounds(after, t, m)
  BY <1>1, MergeUnrolled
<1>4. after[1] = {PutEntry(v, LoginEntry(x)) : v \in after[0]} /\ after[0] = {t} /\ u \in after[1]
  BY <1>1, <1>2, <1>3 DEF MergeRounds
<1> QED BY <1>4

-----------------------------------------------------------------------------
\* Of every channel l only messages of A[l] are on their way.
Carries(q, A) == \A l \in Link : \A k \in DOMAIN q[l] : q[l][k] \in A[l]

LEMMA LinkFacts ==
  /\ \A l \in Link : l[1] \in Node /\ l[2] \in Node /\ l[1] # l[2] /\ l = <<l[1], l[2]>>
  /\ \A n, x \in Node : n # x => <<n, x>> \in Link
BY DEF Link

\* What Post does to one channel.
LEMMA PostChannel ==
  ASSUME NEW q, NEW n, NEW dests, NEW m, NEW l \in Link
  PROVE  Post(q, n, dests, m)[l] = IF l[1] = n /\ l[2] \in dests \cap On THEN Append(q[l], m) ELSE q[l]
BY DEF Post

LEMMA PostCarries ==
  ASSUME NEW n \in Node, NEW q, q \in [Link -> Seq(Message)], NEW A, Carries(q, A), NEW dests,
         NEW m \in Message, \A z \in dests \cap On : z # n => m \in A[<<n, z>>]
  PROVE  Carries(Post(q, n, dests, m), A)
<1> DEFINE p == Post(q, n, dests, m)
<1>1. ASSUME NEW l \in Link, NEW k \in DOMAIN p[l]
      PROVE  p[l][k] \in A[l]
  <2>1. CASE l[1] = n /\ l[2] \in dests \cap On
    <3>1. p[l] = Append(q[l], m)
      <4>1. p[l] = IF l[1] = n /\ l[2] \in dests \cap On THEN Append(q[l], m) ELSE q[l]
        BY PostChannel
      <4> HIDE DEF p
      <4> QED BY <2>1, <4>1, Zenon
    <3>2. m \in A[l]
      BY <2>1, LinkFacts
    <3> DEFINE s == q[l]
    <3> HIDE DEF p, s
    <3>3. p[l] = Append(s, m) /\ s \in Seq(Message) /\ k \in DOMAIN p[l]
      BY <1>1, <3>1 DEF s
    <3>4. (k \in DOMAIN s /\ p[l][k] = s[k]) \/ p[l][k] = m
      BY <3>3
    <3> QED BY <3>2, <3>4 DEF Carries, s
  <2>2. CASE ~(l[1] = n /\ l[2] \in dests \cap On)
    BY <2>2, PostChannel DEF Carries
  <2> QED BY <2>1, <2>2
<1> HIDE DEF p
<1>2. Carries(p, A)
  BY <1>1 DEF Carries
<1> QED BY <1>2 DEF p

RouteOf(n, t) == [type |-> "ROUTE", from |-> n, entries |-> TableToCharArray(t)]

\* SendRoute reaches the direct neighbours only.
RouteDests(t, skip) == {GetRouting(t, x) : x \in HopsOneAway(t) \ {skip}}

LEMMA RouteFacts ==
  ASSUME NEW n \in Node, NEW t, Sound(t, n), NEW skip, NEW q
  PROVE  /\ RouteDests(t, skip) = HopsOneAway(t) \ {skip}
         /\ SendRoute(q, n, t, skip) = Post(q, n, RouteDests(t, skip), RouteOf(n, t))
         /\ RouteOf(n, t) \in Message
<1>1. RouteDests(t, skip) = HopsOneAway(t) \ {skip}
  BY NeighbourFacts DEF RouteDests
<1>2. SendRoute(q, n, t, skip) = Post(q, n, RouteDests(t, skip), RouteOf(n, t))
  BY DEF SendRoute, SendToAll, RouteDests, RouteOf
<1>3. RouteOf(n, t) \in Message
  BY RowsTold DEF RouteOf, Message
<1> QED BY <1>1, <1>2, <1>3

LEMMA RouteCarries ==
  ASSUME NEW n \in Node, NEW q, q \in [Link -> Seq(Message)], NEW A, Carries(q, A),
         NEW t, Sound(t, n), NEW skip,
         \A z \in HopsOneAway(t) \ {skip} : z \in On => RouteOf(n, t) \in A[<<n, z>>]
  PROVE  Carries(SendRoute(q, n, t, skip), A)
BY RouteFacts, PostCarries

LEMMA ReadCarries ==
  ASSUME Queues(chan), NEW A, Carries(chan, A), NEW n \in Node, NEW x \in Node \ {n}, NEW type,
         Reads(n, x, type)
  PROVE  /\ Carries(Read(n, x), A)
         /\ Head(chan[<<x, n>>]) \in A[<<x, n>>]
         /\ Head(chan[<<x, n>>]) = chan[<<x, n>>][1] /\ 1 \in DOMAIN chan[<<x, n>>]
<1> DEFINE l == <<x, n>>
           s == chan[l]
<1>1. l \in Link /\ s \in Seq(Message) /\ s # <<>> /\ \A k \in DOMAIN s : s[k] \in A[l]
  BY DEF Queues, Reads, Link, Carries
<1>2. Read(n, x) = [chan EXCEPT ![l] = Tail(s)] /\ chan \in [Link -> Seq(Message)]
  BY DEF Read, Queues
<1> HIDE DEF s
<1>3. Head(s) = s[1] /\ 1 \in DOMAIN s
  BY <1>1
<1>4. \A k \in DOMAIN Tail(s) : Tail(s)[k] \in A[l]
  BY <1>1
<1> HIDE DEF l
<1>5. Carries(Read(n, x), A)
  BY <1>1, <1>2, <1>4 DEF Carries
<1> QED BY <1>1, <1>3, <1>5 DEF s, l

-----------------------------------------------------------------------------
Started == {n \in Node : state[n] # "off"}

\* Who sends has started, and a ROUTE names only nodes of S, those who have.
FreshMail(S) ==
  [l \in Link |-> {m \in Message :
     /\ l[1] \in S
     /\ m.type = "ROUTE" => \A h \in DOMAIN m.entries : m.entries[h].chatName \in S}]

\* The names that t knows are of S.
Speaks(t, S) == \A i \in Used(t) : t.slots[i].chatName \in S

\* Nobody has heard of a node that has not started.
Fresh ==
  /\ \A n \in Node : /\ state[n] = "off" => table[n] = InitTable(n)
                     /\ Speaks(table[n], Started \cup {n})
  /\ Carries(chan, FreshMail(Started))

FreshInv == IInv /\ Fresh

-----------------------------------------------------------------------------
LEMMA InitTableFacts ==
  ASSUME NEW n \in Node
  PROVE  /\ Used(InitTable(n)) = {0} /\ InitTable(n).slots[0].chatName = n
         /\ HopsOneAway(InitTable(n)) = {}
<1>1. \A i \in Slot : InitTable(n).slots[i] = IF i = 0
                                              THEN [chatName |-> n, nextChatName |-> n, hopCount |-> 0]
                                              ELSE Null
  <2>1. InitTable(n).slots[0] = [chatName |-> n, nextChatName |-> n, hopCount |-> 0]
    BY InitSound DEF Sound
  <2>2. \A i \in Slot : i # 0 => InitTable(n).slots[i] = Null
    BY DEF InitTable
  <2> QED BY <2>1, <2>2
<1>2. Used(InitTable(n)) = {0}
  <2>1. [chatName |-> n, nextChatName |-> n, hopCount |-> 0] # Null
    BY NodesAssumption DEF Null
  <2>2. \A i \in Slot : i \in Used(InitTable(n)) <=> i = 0
    BY <1>1, <2>1 DEF Used
  <2> QED BY <2>2, SlotFacts DEF Used
<1>3. InitTable(n).slots[0].chatName = n /\ InitTable(n).slots[0].hopCount = 0
  BY <1>1, SlotFacts
<1>4. HopsOneAway(InitTable(n)) = {}
  BY <1>2, <1>3 DEF HopsOneAway
<1> QED BY <1>2, <1>3, <1>4

\* What n announces speaks of whom its table speaks of.
LEMMA RouteSpeaks ==
  ASSUME NEW n \in Node, NEW t, Sound(t, n), NEW S, Speaks(t, S), n \in S, NEW l \in Link, l[1] = n
  PROVE  RouteOf(n, t) \in FreshMail(S)[l]
<1> DEFINE m == TableToCharArray(t)
<1>1. \A h \in DOMAIN m : \E i \in Used(t) : m[h] = Row(t, i)
  BY RowsTold
<1> HIDE DEF m
<1>2. \A i \in Used(t) : Row(t, i).chatName = t.slots[i].chatName
  BY DEF Row, Used, Sound, Tables, Routes
<1>3. \A h \in DOMAIN m : m[h].chatName \in S
  BY <1>1, <1>2 DEF Speaks
<1>4. RouteOf(n, t) \in Message
  BY RouteFacts
<1>5. RouteOf(n, t).entries = m
  BY DEF RouteOf, m
<1> QED BY <1>1, <1>3, <1>4, <1>5 DEF FreshMail

LEMMA StemsSpeak ==
  ASSUME NEW S, NEW t, Speaks(t, S), NEW m, \A k \in DOMAIN m : m[k].chatName \in S,
         NEW u, Stems(u, t, m)
  PROVE  Speaks(u, S)
<1> SUFFICES ASSUME NEW i \in Used(u) PROVE u.slots[i].chatName \in S
  BY DEF Speaks
<1>1. i \in Slot /\ u.slots[i] # Null
  BY DEF Used
<1>2. CASE u.slots[i] = t.slots[i]
  BY <1>1, <1>2 DEF Speaks, Used
<1>3. ASSUME NEW k \in DOMAIN m, u.slots[i] = Farther(m[k]) PROVE u.slots[i].chatName \in S
  BY <1>3 DEF Farther
<1> QED BY <1>1, <1>2, <1>3 DEF Stems

LEMMA DeleteSpeaks ==
  ASSUME NEW S, NEW t, Speaks(t, S), NEW x
  PROVE  /\ Speaks(DeleteFromTable(t, x), S)
         /\ HopsOneAway(DeleteFromTable(t, x)) \subseteq HopsOneAway(t)
<1> DEFINE d == DeleteFromTable(t, x)
<1>1. \A i \in Used(d) : i \in Used(t) /\ d.slots[i] = t.slots[i]
  BY DeleteSlots DEF Used
<1> HIDE DEF d
<1>2. Speaks(d, S) /\ HopsOneAway(d) \subseteq HopsOneAway(t)
  BY <1>1 DEF Speaks, HopsOneAway
<1> QED BY <1>2 DEF d

LEMMA FreshGrows ==
  ASSUME NEW q, NEW S, NEW R, S \subseteq R, Carries(q, FreshMail(S))
  PROVE  Carries(q, FreshMail(R))
BY DEF Carries, FreshMail
-----------------------------------------------------------------------------
\* What a thread of a has done to its table and to the queues.
LEMMA FreshHandled ==
  ASSUME IInv, Fresh, NEW a \in On, NEW t, Speaks(t, Started), state' = state,
         table' = [table EXCEPT ![a] = t], Carries(chan', FreshMail(Started))
  PROVE  Fresh'
<1>1. a \in Node /\ state[a] # "off" /\ a \in Started /\ Started' = Started
  BY DEF On, Started
<1>2. \A n \in Node : table'[n] = IF n = a THEN t ELSE table[n]
  BY DEF IInv
<1>3. Carries(chan', FreshMail(Started'))
  BY <1>1
<1>4. ASSUME NEW n \in Node
      PROVE  /\ state'[n] = "off" => table'[n] = InitTable(n)
             /\ Speaks(table'[n], Started' \cup {n})
  <2>1. CASE n = a
    BY <1>1, <1>2, <2>1 DEF Speaks
  <2>2. CASE n # a
    BY <1>1, <1>2, <2>2 DEF Fresh
  <2> QED BY <2>1, <2>2
<1> QED BY <1>3, <1>4 DEF Fresh

\* The ROUTE of a to its neighbours speaks of whom its table speaks of.
LEMMA RouteFresh ==
  ASSUME IInv, Fresh, NEW a \in On, NEW t, Sound(t, a), Speaks(t, Started),
         NEW q, q \in [Link -> Seq(Message)], Carries(q, FreshMail(Started)), NEW skip
  PROVE  Carries(SendRoute(q, a, t, skip), FreshMail(Started))
<1>1. a \in Node /\ a \in Started
  BY DEF On, Started
<1>2. ASSUME NEW z \in HopsOneAway(t) \ {skip}
      PROVE  RouteOf(a, t) \in FreshMail(Started)[<<a, z>>]
  <2>1. <<a, z>> \in Link /\ <<a, z>>[1] = a
    BY <1>1, NeighbourFacts, LinkFacts
  <2> QED BY <1>1, <2>1, RouteSpeaks
<1> QED BY <1>1, <1>2, RouteCarries

\* So does anything that is not a ROUTE.
LEMMA PlainFresh ==
  ASSUME NEW a \in Started, a \in Node, NEW q, q \in [Link -> Seq(Message)],
         Carries(q, FreshMail(Started)), NEW dests, NEW type \in {"LOGIN", "LOGOUT", "HEART", "HEARTRESPONSE"}
  PROVE  Carries(Post(q, a, dests, [type |-> type, from |-> a]), FreshMail(Started))
<1> DEFINE m == [type |-> type, from |-> a]
<1>1. m \in Message /\ m.type # "ROUTE"
  BY DEF Message
<1> HIDE DEF m
<1>2. \A z \in dests \cap On : z # a => m \in FreshMail(Started)[<<a, z>>]
  <2> SUFFICES ASSUME NEW z \in On, z # a PROVE m \in FreshMail(Started)[<<a, z>>]
    OBVIOUS
  <2>1. <<a, z>> \in Link /\ <<a, z>>[1] = a
    BY LinkFacts DEF On
  <2> QED BY <1>1, <2>1 DEF FreshMail
<1>3. Carries(Post(q, a, dests, m), FreshMail(Started))
  BY <1>1, <1>2, PostCarries
<1> QED BY <1>3 DEF m

\* Who reads something has started, and what is left to be read is fresh.
LEMMA ReadFresh ==
  ASSUME IInv, Fresh, NEW a \in Node, NEW b \in Node \ {a}, NEW type, Reads(a, b, type)
  PROVE  /\ a \in On /\ a \in Started /\ b \in Started /\ Speaks(table[a], Started)
         /\ Read(a, b) \in [Link -> Seq(Message)] /\ Carries(Read(a, b), FreshMail(Started))
         /\ Head(chan[<<b, a>>]) \in FreshMail(Started)[<<b, a>>]
<1>1. a \in On /\ a \in Started
  BY DEF Reads, On, Started
<1>2. Speaks(table[a], Started)
  BY <1>1 DEF Fresh, Speaks
<1>3. Carries(Read(a, b), FreshMail(Started)) /\ Head(chan[<<b, a>>]) \in FreshMail(Started)[<<b, a>>]
  BY ReadCarries DEF Fresh, IInv
<1>4. Read(a, b) \in [Link -> Seq(Message)]
  BY ReadQueues DEF IInv, Queues
<1>5. b \in Started
  <2>1. <<b, a>> \in Link /\ <<b, a>>[1] = b
    BY LinkFacts
  <2> QED BY <1>3, <2>1 DEF FreshMail
<1> QED BY <1>1, <1>2, <1>3, <1>4, <1>5

LEMMA LoginFresh ==
  ASSUME IInv, Fresh, NEW a \in Node, NEW b \in Node \ {a}, MsgLogin(a, b)
  PROVE  Fresh'
<1> DEFINE m == LoginRow(b)
           q == Read(a, b)
<1>1. PICK t \in TableUpdate(table[a], m) :
        /\ table' = [table EXCEPT ![a] = t]
        /\ chan' = Post(SendRoute(q, a, t, NoName), a, {GetRouting(t, b)}, [type |-> "HEART", from |-> a])
  BY DEF MsgLogin
<1>2. Reads(a, b, "LOGIN") /\ state' = state /\ Sound(table[a], a)
  BY DEF MsgLogin, IInv
<1>3. /\ a \in On /\ a \in Started /\ b \in Started /\ Speaks(table[a], Started)
      /\ Queues(q) /\ q \in [Link -> Seq(Message)] /\ Carries(q, FreshMail(Started))
  BY <1>2, ReadFresh, ReadQueues DEF IInv
<1>4. Told(m, b, a) /\ Len(m) = 1 /\ \A k \in DOMAIN m : m[k].chatName = b
  BY LoginTold
<1> HIDE DEF m, q
<1>5. Sound(t, a) /\ Stems(t, table[a], m)
  BY <1>2, <1>4, UpdateStems
<1>6. Speaks(t, Started)
  BY <1>3, <1>4, <1>5, StemsSpeak
<1> DEFINE r == SendRoute(q, a, t, NoName)
<1>7. Carries(r, FreshMail(Started)) /\ r \in [Link -> Seq(Message)]
  BY <1>3, <1>5, <1>6, RouteFresh, RouteQueues DEF Queues
<1> HIDE DEF r
<1>8. Carries(chan', FreshMail(Started))
  BY <1>1, <1>3, <1>7, PlainFresh DEF r
<1> QED BY <1>1, <1>2, <1>3, <1>6, <1>8, FreshHandled

LEMMA RouteReadFresh ==
  ASSUME IInv, Fresh, NEW a \in Node, NEW b \in Node \ {a}, MsgRoute(a, b)
  PROVE  Fresh'
<1> DEFINE m == Head(chan[<<b, a>>]).entries
           q == Read(a, b)
<1>1. PICK t \in TableUpdate(table[a], m) :
        table' = [table EXCEPT ![a] = t] /\ chan' = SendRoute(q, a, t, b)
  BY DEF MsgRoute
<1>2. Reads(a, b, "ROUTE") /\ state' = state /\ Sound(table[a], a)
  BY DEF MsgRoute, IInv
<1>3. /\ a \in On /\ a \in Started /\ Speaks(table[a], Started)
      /\ q \in [Link -> Seq(Message)] /\ Carries(q, FreshMail(Started))
      /\ Head(chan[<<b, a>>]) \in FreshMail(Started)[<<b, a>>]
  BY <1>2, ReadFresh
<1>4. Told(m, b, a) /\ (Len(m) # 1 => \E k \in DOMAIN m : m[k].chatName = a)
  BY <1>2, RouteIsTold
<1>5. \A h \in DOMAIN m : m[h].chatName \in Started
  <2>1. <<b, a>> \in Link /\ Head(chan[<<b, a>>]).type = "ROUTE"
    BY <1>2, LinkFacts DEF Reads
  <2> QED BY <1>3, <2>1 DEF FreshMail
<1> HIDE DEF m, q
<1>6. Sound(t, a) /\ Stems(t, table[a], m)
  BY <1>2, <1>4, UpdateStems
<1>7. Speaks(t, Started)
  BY <1>3, <1>5, <1>6, StemsSpeak
<1>8. Carries(chan', FreshMail(Started))
  BY <1>1, <1>3, <1>6, <1>7, RouteFresh
<1> QED BY <1>1, <1>2, <1>3, <1>7, <1>8, FreshHandled

LEMMA LogoutFresh ==
  ASSUME IInv, Fresh, NEW a \in Node, NEW b \in Node \ {a}, MsgLogout(a, b)
  PROVE  Fresh'
<1> DEFINE t == DeleteFromTable(table[a], b)
           q == Read(a, b)
<1>1. /\ table' = [table EXCEPT ![a] = t] /\ chan' = SendRoute(q, a, t, NoName) /\ state' = state
      /\ Reads(a, b, "LOGOUT")
  BY DEF MsgLogout
<1>2. /\ a \in On /\ Speaks(table[a], Started)
      /\ q \in [Link -> Seq(Message)] /\ Carries(q, FreshMail(Started))
  BY <1>1, ReadFresh
<1>3. Sound(t, a) /\ Speaks(t, Started)
  BY <1>2, DeleteSound, DeleteSpeaks DEF IInv
<1> HIDE DEF t, q
<1>4. Carries(chan', FreshMail(Started))
  BY <1>1, <1>2, <1>3, RouteFresh
<1> QED BY <1>1, <1>2, <1>3, <1>4, FreshHandled

LEMMA HeartFresh ==
  ASSUME IInv, Fresh, NEW a \in Node, NEW b \in Node \ {a},
         MsgHeart(a, b) \/ MsgHeartResponse(a, b) \/ SendHeart(a, b)
  PROVE  Fresh'
<1>1. state' = state /\ table' = table
  BY DEF MsgHeart, MsgHeartResponse, SendHeart
<1>2. a \in On /\ a \in Started /\ Speaks(table[a], Started) /\ table' = [table EXCEPT ![a] = table[a]]
  <2>1. a \in On /\ a \in Started
    BY DEF MsgHeart, MsgHeartResponse, SendHeart, Reads, On, Started
  <2>2. Speaks(table[a], Started)
    BY <2>1 DEF Fresh, Speaks
  <2> QED BY <1>1, <2>1, <2>2 DEF IInv
<1>3. CASE MsgHeart(a, b) \/ MsgHeartResponse(a, b)
  <2> DEFINE q == Read(a, b)
  <2>1. q \in [Link -> Seq(Message)] /\ Carries(q, FreshMail(Started))
    BY <1>3, ReadFresh DEF MsgHeart, MsgHeartResponse
  <2>2. PICK dests : chan' \in {q, Post(q, a, dests, [type |-> "HEARTRESPONSE", from |-> a])}
    BY <1>3 DEF MsgHeart, MsgHeartResponse
  <2> HIDE DEF q
  <2>3. Carries(chan', FreshMail(Started))
    BY <1>2, <2>1, <2>2, PlainFresh
  <2> QED BY <1>1, <1>2, <2>3, FreshHandled
<1>4. CASE SendHeart(a, b)
  <2>1. PICK dests : chan' = Post(chan, a, dests, [type |-> "HEART", from |-> a])
    BY <1>4 DEF SendHeart
  <2>2. chan \in [Link -> Seq(Message)] /\ Carries(chan, FreshMail(Started))
    BY DEF IInv, Queues, Fresh
  <2>3. Carries(chan', FreshMail(Started))
    BY <1>2, <2>1, <2>2, PlainFresh
  <2> QED BY <1>1, <1>2, <2>3, FreshHandled
<1> QED BY <1>3, <1>4

LEMMA AlarmFresh ==
  ASSUME IInv, Fresh, NEW a \in Node, NEW b \in Node \ {a}, Alarm(a, b)
  PROVE  Fresh'
<1> DEFINE t == DeleteFromTable(table[a], b)
<1>1. /\ table' = [table EXCEPT ![a] = t] /\ chan' = SendRoute(chan, a, t, NoName) /\ state' = state
      /\ a \in On
  BY DEF Alarm
<1>2. Speaks(table[a], Started) /\ chan \in [Link -> Seq(Message)] /\ Carries(chan, FreshMail(Started))
  <2>1. a \in Started
    BY <1>1 DEF On, Started
  <2> QED BY <2>1 DEF Fresh, Speaks, IInv, Queues
<1>3. Sound(t, a) /\ Speaks(t, Started)
  BY <1>2, DeleteSound, DeleteSpeaks DEF IInv
<1> HIDE DEF t
<1>4. Carries(chan', FreshMail(Started))
  BY <1>1, <1>2, <1>3, RouteFresh
<1> QED BY <1>1, <1>2, <1>3, <1>4, FreshHandled

LEMMA StartFresh ==
  ASSUME IInv, Fresh, NEW n \in Node, NEW to \in Node \cup {NoName}, Start(n, to)
  PROVE  Fresh'
<1> DEFINE m == [type |-> "LOGIN", from |-> n]
<1>1. /\ chan' = Post(chan, n, {to}, m) /\ table' = table /\ state' = [state EXCEPT ![n] = "on"]
  BY DEF Start, LoginMessage
<1>2. m \in Message /\ m.type = "LOGIN"
  BY DEF Message
<1>3. chan \in [Link -> Seq(Message)] /\ state \in [Node -> {"off", "on", "stopped"}]
  BY DEF IInv, Queues
<1>4. Started' = Started \cup {n}
  BY <1>1, <1>3 DEF Started
<1> HIDE DEF m
<1>5. Carries(chan, FreshMail(Started'))
  BY <1>4, FreshGrows DEF Fresh
<1>6. \A z \in Node : z # n => m \in FreshMail(Started')[<<n, z>>]
  BY <1>2, <1>4, LinkFacts DEF FreshMail
<1>7. Carries(chan', FreshMail(Started'))
  BY <1>1, <1>2, <1>3, <1>5, <1>6, PostCarries DEF On
<1>8. \A k \in Node : /\ state'[k] = "off" => table'[k] = InitTable(k)
                      /\ Speaks(table'[k], Started' \cup {k})
  BY <1>1, <1>3, <1>4 DEF Fresh, Speaks
<1> QED BY <1>7, <1>8 DEF Fresh

LEMMA StopFresh ==
  ASSUME IInv, Fresh, NEW n \in Node, DoLogout(n) \/ Crash(n)
  PROVE  Fresh'
<1>1. /\ n \in On /\ state' = [state EXCEPT ![n] = "stopped"]
      /\ table' = [table EXCEPT ![n] = InitTable(n)]
  BY DEF DoLogout, Crash, Stop
<1>2. PICK dests : \/ chan' = Unread(chan, n)
                   \/ chan' = Unread(Post(chan, n, dests, [type |-> "LOGOUT", from |-> n]), n)
  BY DEF DoLogout, Crash, SendToAll
<1>3. /\ chan \in [Link -> Seq(Message)] /\ state \in [Node -> {"off", "on", "stopped"}]
      /\ table \in [Node -> Tables]
  BY DEF IInv, Queues
<1>4. Started' = Started /\ n \in Started
  BY <1>1, <1>3 DEF Started, On
<1>5. Carries(chan', FreshMail(Started))
  <2>1. /\ Carries(chan, FreshMail(Started))
        /\ Carries(Post(chan, n, dests, [type |-> "LOGOUT", from |-> n]), FreshMail(Started))
    BY <1>3, <1>4, PlainFresh DEF Fresh
  <2>2. \A q, A : Carries(q, A) => Carries(Unread(q, n), A)
    BY DEF Carries, Unread
  <2> QED BY <1>2, <2>1, <2>2
<1>6. Speaks(InitTable(n), Started \cup {n})
  BY InitTableFacts DEF Speaks
<1>7. \A k \in Node : /\ state'[k] = "off" => table'[k] = InitTable(k)
                      /\ Speaks(table'[k], Started' \cup {k})
  BY <1>1, <1>3, <1>4, <1>6 DEF Fresh
<1> QED BY <1>4, <1>5, <1>7 DEF Fresh

LEMMA InitFresh == Init => FreshInv
<1> SUFFICES ASSUME Init PROVE Fresh
  BY InitIInv DEF FreshInv
<1>1. \A A : Carries(chan, A)
  BY DEF Init, Carries
<1> QED BY <1>1, InitTableFacts DEF Init, Fresh, Speaks

LEMMA NextFresh == FreshInv /\ [Next]_vars => FreshInv'
<1> SUFFICES ASSUME IInv, Fresh, [Next]_vars PROVE Fresh'
  BY NextIInv DEF FreshInv
<1>1. CASE UNCHANGED vars
  BY <1>1 DEF vars, Fresh, Started
<1>2. ASSUME NEW n \in Node, DoLogout(n) \/ Crash(n) PROVE Fresh'
  BY <1>2, StopFresh
<1>3. ASSUME NEW n \in Node, NEW to \in Node \cup {NoName}, Start(n, to) PROVE Fresh'
  BY <1>3, StartFresh
<1>4. ASSUME NEW n \in Node, NEW x \in Node \ {n}, Handle(n, x) \/ SendHeart(n, x) \/ FalseAlarm(n, x)
      PROVE  Fresh'
  BY <1>4, LoginFresh, RouteReadFresh, LogoutFresh, HeartFresh, AlarmFresh
     DEF Handle, Timeout, FalseAlarm
<1>5. \A l \in Link : l[1] \in Node /\ l[2] \in Node \ {l[1]}
  BY DEF Link
<1> QED BY <1>1, <1>2, <1>3, <1>4, <1>5 DEF Next

-----------------------------------------------------------------------------
\* The entries of a table, and the names it knows.
Entries(t) == {t.slots[i] : i \in Used(t)}
Names(t) == {e.chatName : e \in Entries(t)}

\* t knows p, at a distance of at most h.
Within(t, p, h) == \E e \in Entries(t) : e.chatName = p /\ e.hopCount <= h

\* Each record has the name of the entry beside it.
Aligned(t) == \A j \in Slot : t.records[j].chatName = t.slots[j].chatName

LEMMA EntryFacts ==
  ASSUME NEW n \in Node, NEW t, Sound(t, n)
  PROVE  /\ Entries(t) \subseteq Routes
         /\ \A e, f \in Entries(t) : e.chatName = f.chatName => e = f
         /\ \A e \in Entries(t) : e.chatName # n => Foreign(e, n)
         /\ [chatName |-> n, nextChatName |-> n, hopCount |-> 0] \in Entries(t)
         /\ \A e \in Entries(t) : e.chatName = n => e.hopCount = 0
         /\ n \in Names(t) /\ Names(t) \subseteq Node
         /\ \A p \in Names(t) : \E e \in Entries(t) : e.chatName = p
         /\ \A e \in Entries(t) : e.chatName \in Names(t)
         /\ \A p \in Node : p \in Names(t) <=> SlotsOf(t, p) # {}
<1> DEFINE own == [chatName |-> n, nextChatName |-> n, hopCount |-> 0]
<1>1. \A e \in Entries(t) : \E i \in Slot : t.slots[i] = e /\ e # Null
  BY DEF Entries, Used
<1>2. \A i \in Slot : t.slots[i] # Null => t.slots[i] \in Entries(t) /\ t.slots[i] \in Routes
  BY DEF Entries, Used, Sound, Tables
<1>3. Entries(t) \subseteq Routes
  BY <1>1, <1>2
<1>4. \A e, f \in Entries(t) : e.chatName = f.chatName => e = f
  BY <1>1 DEF Sound
<1>5. own \in Entries(t) /\ t.slots[0] = own /\ 0 \in Slot
  <2>1. own # Null
    BY NodesAssumption DEF Null
  <2> QED BY <1>2, <2>1, SlotFacts DEF Sound
<1>6. \A e \in Entries(t) : e.chatName # n => Foreign(e, n)
  BY <1>1, <1>5 DEF Sound
<1>7. \A e \in Entries(t) : e.chatName = n => e.hopCount = 0
  BY <1>4, <1>5
<1>8. n \in Names(t)
  BY <1>5 DEF Names
<1>9. Names(t) \subseteq Node
  BY <1>3 DEF Names, Routes
<1>10. ASSUME NEW p \in Node PROVE p \in Names(t) <=> SlotsOf(t, p) # {}
  <2>1. p \in Names(t) => SlotsOf(t, p) # {}
    BY <1>1 DEF Names, SlotsOf
  <2>2. SlotsOf(t, p) # {} => p \in Names(t)
    <3>1. SlotsOf(t, p) # {} => \E i \in Slot : t.slots[i].chatName = p /\ t.slots[i] # Null
      BY NullFacts, NodesAssumption DEF SlotsOf
    <3> QED BY <1>2, <3>1 DEF Names
  <2> QED BY <2>1, <2>2
<1> HIDE DEF own
<1> QED BY <1>3, <1>4, <1>5, <1>6, <1>7, <1>8, <1>9, <1>10 DEF Names, own

\* As many names as fit into one table fit into any other.
LEMMA Room ==
  ASSUME NEW n \in Node, NEW t, Sound(t, n), NEW k \in Node, NEW v, Sound(v, k),
         Names(v) \subseteq Names(t), NEW p \in Names(t), p \notin Names(v)
  PROVE  Used(v) # Slot
<1> DEFINE At(q) == CHOOSE i \in Slot : t.slots[i] # Null /\ t.slots[i].chatName = q
           h == [j \in Slot |-> At(v.slots[j].chatName)]
<1>1. ASSUME NEW q \in Names(t)
      PROVE  At(q) \in Slot /\ t.slots[At(q)].chatName = q
  <2>1. \E i \in Slot : t.slots[i] # Null /\ t.slots[i].chatName = q
    BY DEF Names, Entries, Used
  <2> QED BY <2>1
<1> SUFFICES ASSUME Used(v) = Slot PROVE FALSE
  OBVIOUS
<1>2. \A j \in Slot : v.slots[j].chatName \in Names(t) /\ v.slots[j].chatName # p /\ v.slots[j] # Null
  BY DEF Names, Entries, Used
<1> HIDE DEF At
<1>3. h \in [Slot -> Slot \ {At(p)}]
  BY <1>1, <1>2
<1>4. IsFiniteSet(Slot) /\ Cardinality(Slot) = NumSlots
  <2>1. 0 \in Int /\ NumSlots - 1 \in Int /\ ~(0 > NumSlots - 1) /\ NumSlots - 1 - 0 + 1 = NumSlots
    BY SizesAssumption
  <2> QED BY <2>1, FS_Interval DEF Slot
<1>5. IsFiniteSet(Slot \ {At(p)}) /\ Cardinality(Slot \ {At(p)}) < Cardinality(Slot)
  <2>1. IsFiniteSet(Slot \ {At(p)}) /\ Cardinality(Slot \ {At(p)}) = Cardinality(Slot) - 1
    BY <1>1, <1>4, FS_RemoveElement
  <2> QED BY <1>4, <2>1, SizesAssumption
<1>6. PICK a, b \in Slot : a # b /\ h[a] = h[b]
  <2> DEFINE A == Slot
             B == Slot \ {At(p)}
             f == h
  <2>1. f \in [A -> B] /\ IsFiniteSet(A) /\ IsFiniteSet(B) /\ Cardinality(B) < Cardinality(A)
    BY <1>3, <1>4, <1>5
  <2> HIDE DEF A, B, f
  <2>2. \E a, b \in A : a # b /\ f[a] = f[b]
    BY <2>1, FS_PigeonHole
  <2> QED BY <2>2 DEF A, f
<1>7. v.slots[a].chatName = v.slots[b].chatName
  BY <1>1, <1>2, <1>6
<1> QED BY <1>2, <1>6, <1>7 DEF Sound

\* What one round of tableUpdate makes of v, if there is room for the entry.
PutInto(w, v, e) ==
  /\ \A p : \A h \in Nat : Within(v, p, h) => Within(w, p, h)
  /\ Within(w, e.chatName, e.hopCount + 1)
  /\ Aligned(v) => Aligned(w)
  /\ Names(w) = Names(v) \cup {e.chatName}
  /\ \A j \in Slot : v.records[j].reachable \/ w.slots[j].chatName = e.chatName
                     => w.records[j].reachable
  /\ \A j \in Slot : w.slots[j] # v.slots[j] => w.slots[j].chatName = e.chatName

LEMMA PutWithin ==
  ASSUME NEW n \in Node, NEW v, Sound(v, n), NEW e \in Routes, SlotsOf(v, e.chatName) # {} \/ Used(v) # Slot,
         NEW w, w = PutEntry(v, e)
  PROVE  PutInto(w, v, e)
<1>1. PICK i \in Slot : Placed(w, v, e, i)
  <2>1. v \in Tables
    BY DEF Sound
  <2> QED BY <2>1, PutPlaces
<1>2. /\ w.records[i] = [chatName |-> e.chatName, reachable |-> TRUE]
      /\ \A j \in Slot \ {i} : w.slots[j] = v.slots[j] /\ w.records[j] = v.records[j]
      /\ w.slots[i] = IF v.slots[i] # Null /\ v.slots[i].hopCount <= e.hopCount + 1
                      THEN v.slots[i] ELSE Farther(e)
      /\ v.slots[i] = Null \/ v.slots[i].chatName = e.chatName
      /\ SlotsOf(v, e.chatName) # {} => v.slots[i].chatName = e.chatName
  BY <1>1 DEF Placed
<1>3. /\ Farther(e).chatName = e.chatName /\ Farther(e).hopCount = e.hopCount + 1
      /\ e.chatName # NoName /\ e.hopCount \in Nat
  BY NodesAssumption DEF Farther, Routes
<1> HIDE DEF Farther
<1>4. w.slots[i].chatName = e.chatName /\ w.slots[i] # Null /\ w.slots[i].hopCount <= e.hopCount + 1
  BY <1>2, <1>3, NullFacts
<1>5. \A j \in Slot : w.slots[j] # v.slots[j] => w.slots[j].chatName = e.chatName
  BY <1>2, <1>4
<1>6. Within(w, e.chatName, e.hopCount + 1)
  BY <1>4 DEF Within, Entries, Used
<1>7. ASSUME NEW p, NEW h \in Nat, Within(v, p, h)
      PROVE  Within(w, p, h)
  <2>1. PICK j \in Slot : v.slots[j] # Null /\ v.slots[j].chatName = p /\ v.slots[j].hopCount <= h
    BY <1>7 DEF Within, Entries, Used
  <2>2. CASE w.slots[j] = v.slots[j]
    BY <2>1, <2>2 DEF Within, Entries, Used
  <2>3. CASE w.slots[j] # v.slots[j]
    <3>1. j = i /\ w.slots[i] = Farther(e) /\ ~(v.slots[i].hopCount <= e.hopCount + 1)
      BY <1>2, <2>1, <2>3
    <3>2. p = e.chatName
      BY <1>2, <2>1, <3>1
    <3>3. v.slots[i].hopCount \in Nat
      BY <2>1, <3>1 DEF Sound, Tables, Routes
    <3>4. e.hopCount + 1 <= h
      BY <1>3, <2>1, <3>1, <3>3
    <3>5. w.slots[i].hopCount = e.hopCount + 1
      BY <1>3, <3>1
    <3> QED BY <1>4, <3>2, <3>4, <3>5 DEF Within, Entries, Used
  <2> QED BY <2>2, <2>3
<1>8. Aligned(v) => Aligned(w)
  BY <1>2, <1>4 DEF Aligned
<1>9. Names(w) = Names(v) \cup {e.chatName}
  <2>1. \A t : \A p : p \in Names(t) <=> \E j \in Slot : t.slots[j] # Null /\ t.slots[j].chatName = p
    BY DEF Names, Entries, Used
  <2>2. \A p : (\E j \in Slot : w.slots[j] # Null /\ w.slots[j].chatName = p) <=>
               (\E j \in Slot : v.slots[j] # Null /\ v.slots[j].chatName = p) \/ p = e.chatName
    BY <1>2, <1>4
  <2>3. ASSUME NEW p PROVE p \in Names(w) <=> p \in Names(v) \/ p = e.chatName
    <3>1. p \in Names(w) <=> \E j \in Slot : w.slots[j] # Null /\ w.slots[j].chatName = p
      BY <2>1
    <3>2. p \in Names(v) <=> \E j \in Slot : v.slots[j] # Null /\ v.slots[j].chatName = p
      BY <2>1
    <3> QED BY <2>2, <3>1, <3>2
  <2> HIDE DEF Farther
  <2> QED BY <2>3
<1>10. \A j \in Slot : v.records[j].reachable \/ w.slots[j].chatName = e.chatName => w.records[j].reachable
  <2> SUFFICES ASSUME NEW j \in Slot, v.records[j].reachable \/ w.slots[j].chatName = e.chatName
               PROVE  w.records[j].reachable
    OBVIOUS
  <2>1. CASE j = i
    BY <1>2, <2>1
  <2>2. CASE j # i
    <3>1. w.records[j] = v.records[j] /\ w.slots[j] = v.slots[j]
      BY <1>2, <2>2
    <3>2. w.slots[j].chatName # e.chatName
      <4> SUFFICES ASSUME v.slots[j].chatName = e.chatName PROVE FALSE
        BY <3>1
      <4>1. v.slots[j] # Null
        BY <1>3, NullFacts
      <4>2. j \in SlotsOf(v, e.chatName)
        BY <4>1 DEF SlotsOf, Used
      <4>3. v.slots[i].chatName = e.chatName
        BY <1>2, <4>2
      <4>4. v.slots[i] # Null
        BY <1>3, <4>3, NullFacts
      <4> QED BY <2>2, <4>1, <4>3, <4>4 DEF Sound
    <3> QED BY <3>1, <3>2
  <2> QED BY <2>1, <2>2
<1> QED BY <1>5, <1>6, <1>7, <1>8, <1>9, <1>10 DEF PutInto

\* The names in D fit into a table: v has no others.
Fits(v, D) ==
  /\ Names(v) \subseteq D
  /\ \A p \in D \ Names(v) : Used(v) # Slot

LEMMA NamesFit ==
  ASSUME NEW n \in Node, NEW t, Sound(t, n), NEW k \in Node, NEW v, Sound(v, k),
         Names(v) \subseteq Names(t)
  PROVE  Fits(v, Names(t))
BY Room DEF Fits

\* v has got the first k entries of m: it knows their names, no further away
\* than announced, has marked their records, and has forgotten nothing of t.
Absorbed(v, t, m, k) ==
  /\ \A p : \A h \in Nat : Within(t, p, h) => Within(v, p, h)
  /\ Aligned(t) => Aligned(v)
  /\ \A i \in 1 .. k : Within(v, m[i].chatName, m[i].hopCount + 1)
  /\ \A i \in 1 .. k, j \in Slot : v.slots[j].chatName = m[i].chatName => v.records[j].reachable

LEMMA PutAbsorbs ==
  ASSUME NEW n \in Node, NEW v, Sound(v, n), NEW t, NEW m, NEW k \in Nat, Absorbed(v, t, m, k), m[k + 1] \in Routes,
         SlotsOf(v, m[k + 1].chatName) # {} \/ Used(v) # Slot, \A i \in 1 .. k : m[i].hopCount \in Nat
  PROVE  Absorbed(PutEntry(v, m[k + 1]), t, m, k + 1)
<1> DEFINE e == m[k + 1]
           w == PutEntry(v, e)
<1>1. PutInto(w, v, e)
  BY PutWithin
<1>2. \A i \in 1 .. k + 1 : i \in 1 .. k \/ m[i] = e
  OBVIOUS
<1> HIDE DEF e, w
<1>3. \A i \in 1 .. k + 1 : Within(w, m[i].chatName, m[i].hopCount + 1)
  <2> SUFFICES ASSUME NEW i \in 1 .. k + 1
               PROVE  Within(w, m[i].chatName, m[i].hopCount + 1)
    OBVIOUS
  <2>1. CASE i \in 1 .. k
    <3>1. Within(v, m[i].chatName, m[i].hopCount + 1)
      BY <2>1 DEF Absorbed
    <3>2. m[i].hopCount + 1 \in Nat
      BY <2>1
    <3> QED BY <1>1, <3>1, <3>2 DEF PutInto
  <2>2. CASE m[i] = e
    BY <1>1, <2>2 DEF PutInto
  <2> QED BY <1>2, <2>1, <2>2
<1>4. \A i \in 1 .. k + 1, j \in Slot : w.slots[j].chatName = m[i].chatName => w.records[j].reachable
  <2> SUFFICES ASSUME NEW i \in 1 .. k + 1, NEW j \in Slot, w.slots[j].chatName = m[i].chatName
               PROVE  w.records[j].reachable
    OBVIOUS
  <2>1. CASE m[i] = e \/ w.slots[j] # v.slots[j]
    BY <1>1, <2>1 DEF PutInto
  <2>2. CASE i \in 1 .. k /\ w.slots[j] = v.slots[j]
    <3>1. v.records[j].reachable
      BY <2>2 DEF Absorbed
    <3> QED BY <1>1, <3>1 DEF PutInto
  <2> QED BY <1>2, <2>1, <2>2
<1>5. (\A p : \A h \in Nat : Within(t, p, h) => Within(w, p, h)) /\ (Aligned(t) => Aligned(w))
  BY <1>1 DEF PutInto, Absorbed
<1>6. Absorbed(w, t, m, k + 1)
  BY <1>3, <1>4, <1>5 DEF Absorbed
<1> QED BY <1>6 DEF w, e

\* tableUpdate without cleanUp, of names that fit into the table.
LEMMA MergeAbsorbs ==
  ASSUME NEW n \in Node, NEW x \in Node \ {n}, NEW t, Sound(t, n), NEW m, Told(m, x, n),
         NEW D, \A i \in DOMAIN m : m[i].chatName \in D, Names(t) \subseteq D,
         \A v : Sound(v, n) /\ Names(v) \subseteq D => Fits(v, D),
         NEW u \in Merge(t, m)
  PROVE  Absorbed(u, t, m, Len(m)) /\ Names(u) \subseteq D
<1>1. Len(m) \in Nat /\ DOMAIN m = 1 .. Len(m) /\ m \in Seq(Routes)
  BY DEF Told
<1>2. PICK after : MergeRounds(after, t, m)
  BY <1>1, MergeUnrolled
<1> DEFINE Good(k) == \A v \in after[k] :
                        Sound(v, n) /\ Absorbed(v, t, m, k) /\ Names(v) \subseteq D
           S == {k \in Nat : k <= Len(m) => Good(k)}
<1>3. 0 \in S
  <2>1. Absorbed(t, t, m, 0)
    BY DEF Absorbed
  <2>2. after[0] = {t}
    BY <1>2 DEF MergeRounds
  <2>3. Good(0)
    BY <2>1, <2>2
  <2> HIDE DEF Good
  <2> QED BY <2>3
<1>4. ASSUME NEW k \in Nat, k + 1 <= Len(m), Good(k)
      PROVE  Good(k + 1)
  <2>1. k + 1 \in DOMAIN m /\ m[k + 1] \in Routes /\ after[k + 1] = {PutEntry(v, m[k + 1]) : v \in after[k]}
    <3>1. k + 1 \in 1 .. Len(m) /\ k + 1 - 1 = k
      BY <1>1, <1>4
    <3> QED BY <1>1, <1>2, <3>1 DEF MergeRounds
  <2>2. m[k + 1].nextChatName = x /\ (m[k + 1].hopCount = 0 <=> m[k + 1].chatName = x)
    BY <2>1 DEF Told
  <2> SUFFICES ASSUME NEW v \in after[k]
               PROVE  LET w == PutEntry(v, m[k + 1])
                      IN  Sound(w, n) /\ Absorbed(w, t, m, k + 1) /\ Names(w) \subseteq D
    BY <2>1
  <2> DEFINE w == PutEntry(v, m[k + 1])
  <2>3. Sound(v, n) /\ Absorbed(v, t, m, k) /\ Names(v) \subseteq D /\ Fits(v, D)
    BY <1>4
  <2>4. v \in Tables
    BY <2>3 DEF Sound
  <2>5. Sound(w, n)
    BY <2>1, <2>2, <2>3, PutSound
  <2>6. SlotsOf(v, m[k + 1].chatName) # {} \/ Used(v) # Slot
    <3>1. m[k + 1].chatName \in D /\ m[k + 1].chatName \in Node
      BY <2>1 DEF Routes
    <3>2. CASE m[k + 1].chatName \in Names(v)
      <4>1. \A p \in Node : p \in Names(v) <=> SlotsOf(v, p) # {}
        BY <2>3, EntryFacts
      <4> QED BY <3>1, <3>2, <4>1
    <3>3. CASE m[k + 1].chatName \notin Names(v)
      BY <2>3, <3>1, <3>3 DEF Fits
    <3> QED BY <3>2, <3>3
  <2>7. Absorbed(w, t, m, k + 1)
    <3>1. \A i \in 1 .. k : m[i].hopCount \in Nat
      <4> SUFFICES ASSUME NEW i \in 1 .. k PROVE m[i].hopCount \in Nat
        OBVIOUS
      <4>1. i \in 1 .. Len(m)
        BY <1>1, <1>4
      <4>2. m[i] \in Routes
        BY <1>1, <4>1
      <4> QED BY <4>2 DEF Routes
    <3> QED BY <2>1, <2>3, <2>6, <3>1, PutAbsorbs
  <2>8. Names(w) = Names(v) \cup {m[k + 1].chatName}
    <3>1. PutInto(w, v, m[k + 1])
      BY <2>1, <2>3, <2>6, PutWithin
    <3> QED BY <3>1 DEF PutInto
  <2>9. Names(w) \subseteq D
    BY <2>1, <2>3, <2>8
  <2> QED BY <2>5, <2>7, <2>9
<1>5. S = Nat
  <2> HIDE DEF Good
  <2>1. \A k \in S : k + 1 \in S
    <3> SUFFICES ASSUME NEW k \in Nat, k <= Len(m) => Good(k), k + 1 <= Len(m)
                 PROVE  Good(k + 1)
      OBVIOUS
    <3>1. k <= Len(m)
      BY <1>1
    <3> QED BY <1>4, <3>1
  <2> HIDE DEF S
  <2>2. S \in SUBSET Nat
    BY DEF S
  <2> QED BY <1>3, <2>1, <2>2, Induction
<1>6. Good(Len(m)) /\ u \in after[Len(m)]
  BY <1>1, <1>2, <1>5 DEF MergeRounds
<1> QED BY <1>6

\* cleanUp does nothing but take the marks back if all entries are marked.
Marked(t) == Aligned(t) /\ \A j \in Slot : t.slots[j] # Null => t.records[j].reachable

LEMMA CleanUpIdle ==
  ASSUME NEW T, \A t \in T : t \in Tables /\ Marked(t), NEW u \in CleanUp(T)
  PROVE  \E t \in T : u.slots = t.slots /\ Aligned(u)
<1>1. PICK after :
        /\ CleanUp(T) = after[NumSlots]
        /\ after[0] = T
        /\ \A i \in 1 .. NumSlots : after[i] = {CleanUpSlot(t, i - 1) : t \in after[i - 1]}
  BY CleanUpUnrolled, Zenon
<1> DEFINE From(v, t, k) ==
             /\ v.slots = t.slots
             /\ v.records \in [Slot -> [chatName : Node \cup {NoName}, reachable : BOOLEAN]]
             /\ \A j \in Slot : v.records[j].chatName = t.records[j].chatName
             /\ \A j \in Slot : j >= k => v.records[j] = t.records[j]
           Good(k) == \A v \in after[k] : \E t \in T : From(v, t, k)
           S == {k \in Nat : k <= NumSlots => Good(k)}
<1>2. 0 \in S
  <2>1. \A t \in T : From(t, t, 0)
    BY DEF Tables
  <2> HIDE DEF From
  <2> QED BY <1>1, <2>1
<1>3. ASSUME NEW k \in Nat, k + 1 <= NumSlots, Good(k)
      PROVE  Good(k + 1)
  <2>1. k + 1 \in 1 .. NumSlots /\ k \in Slot /\ k + 1 - 1 = k /\ k + 1 # 0
    BY <1>3, SizesAssumption DEF Slot
  <2>2. after[k + 1] = {CleanUpSlot(v, k) : v \in after[k]}
    BY <1>1, <2>1
  <2>3. ASSUME NEW v \in after[k]
        PROVE  \E t \in T : From(CleanUpSlot(v, k), t, k + 1)
    <3>1. PICK t \in T : From(v, t, k)
      BY <1>3
    <3> DEFINE r == v.records[k]
               c == CleanUpSlot(v, k)
    <3>2. \A j \in Slot : j >= k + 1 => j >= k /\ j # k
      BY SlotFacts
    <3>3. r = t.records[k]
      BY <2>1, <3>1
    <3>4. CASE r.chatName = NoName
      <4>1. c = v
        BY <3>4 DEF CleanUpSlot
      <4> HIDE DEF c
      <4>2. From(c, t, k + 1)
        BY <3>1, <3>2, <4>1
      <4> QED BY <4>2 DEF c
    <3>5. CASE r.chatName # NoName
      <4>1. r.reachable
        <5>1. t.slots[k].chatName # NoName
          BY <2>1, <3>3, <3>5 DEF Marked, Aligned
        <5>2. t.slots[k] # Null
          BY <5>1, NullFacts
        <5> QED BY <2>1, <3>3, <5>2 DEF Marked
      <4> DEFINE q == [v.records EXCEPT ![k] = [chatName |-> r.chatName, reachable |-> FALSE]]
      <4>2. c = [slots |-> v.slots, records |-> q]
        BY <3>5, <4>1 DEF CleanUpSlot
      <4>3. /\ \A j \in Slot : q[j].chatName = v.records[j].chatName
            /\ \A j \in Slot : j # k => q[j] = v.records[j]
            /\ q \in [Slot -> [chatName : Node \cup {NoName}, reachable : BOOLEAN]]
        BY <2>1, <3>1
      <4> HIDE DEF c, q
      <4>4. c.slots = v.slots /\ c.records = q
        BY <4>2
      <4>5. From(c, t, k + 1)
        BY <3>1, <3>2, <4>3, <4>4
      <4> QED BY <4>5 DEF c
    <3> QED BY <3>4, <3>5
  <2> HIDE DEF From
  <2> QED BY <2>1, <2>2, <2>3
<1>4. S = Nat
  <2> HIDE DEF Good
  <2>1. \A k \in S : k + 1 \in S
    <3> SUFFICES ASSUME NEW k \in Nat, k <= NumSlots => Good(k), k + 1 <= NumSlots
                 PROVE  Good(k + 1)
      OBVIOUS
    <3>1. k <= NumSlots
      BY SizesAssumption
    <3> QED BY <1>3, <3>1
  <2> HIDE DEF S
  <2>2. S \in SUBSET Nat
    BY DEF S
  <2> QED BY <1>2, <2>1, <2>2, Induction
<1>5. Good(NumSlots)
  BY <1>4, SizesAssumption
<1>6. PICK t \in T : From(u, t, NumSlots)
  BY <1>1, <1>5
<1>7. Aligned(u)
  BY <1>6 DEF Aligned, Marked
<1> QED BY <1>6, <1>7

\* u is t after an announcement of the names D, all of t among them.
Learned(u, t, m, D) ==
  /\ Aligned(u)
  /\ Names(u) = D
  /\ \A p : \A h \in Nat : Within(t, p, h) => Within(u, p, h)
  /\ \A i \in DOMAIN m : Within(u, m[i].chatName, m[i].hopCount + 1)

LEMMA SameSlots ==
  ASSUME NEW u, NEW v, u.slots = v.slots
  PROVE  Entries(u) = Entries(v) /\ Names(u) = Names(v) /\ \A p : \A h \in Nat : Within(v, p, h) => Within(u, p, h)
BY DEF Within, Names, Entries, Used

LEMMA UpdateLearns ==
  ASSUME NEW n \in Node, NEW x \in Node \ {n}, NEW t, Sound(t, n), Aligned(t), NEW m, Told(m, x, n),
         Len(m) # 1 => \E k \in DOMAIN m : m[k].chatName = n,
         NEW D, D = {m[i].chatName : i \in DOMAIN m}, Names(t) \subseteq D,
         \A v : Sound(v, n) /\ Names(v) \subseteq D => Fits(v, D),
         NEW u \in TableUpdate(t, m)
  PROVE  Learned(u, t, m, D)
<1>1. DOMAIN m = 1 .. Len(m)
  BY DEF Told
<1>2. \A i \in DOMAIN m : m[i].chatName \in D
  OBVIOUS
<1>3. ASSUME NEW v \in Merge(t, m)
      PROVE  Learned(v, t, m, D) /\ Marked(v) /\ v \in Tables
  <2>1. Absorbed(v, t, m, Len(m)) /\ Names(v) \subseteq D
    BY <1>2, MergeAbsorbs
  <2>2. Sound(v, n)
    BY MergeSound
  <2>3. /\ Aligned(v)
        /\ \A p : \A h \in Nat : Within(t, p, h) => Within(v, p, h)
        /\ \A i \in DOMAIN m : Within(v, m[i].chatName, m[i].hopCount + 1)
        /\ \A i \in DOMAIN m, j \in Slot : v.slots[j].chatName = m[i].chatName => v.records[j].reachable
    BY <1>1, <2>1 DEF Absorbed
  <2>4. \A i \in DOMAIN m : m[i].chatName \in Names(v)
    BY <2>3 DEF Within, Names
  <2>5. Names(v) = D
    BY <2>1, <2>4
  <2>6. ASSUME NEW j \in Slot, v.slots[j] # Null
        PROVE  v.records[j].reachable
    <3>1. v.slots[j].chatName \in D
      BY <2>1, <2>6 DEF Names, Entries, Used
    <3> QED BY <2>3, <3>1
  <2> QED BY <2>2, <2>3, <2>5, <2>6 DEF Learned, Marked, Sound
<1>4. CASE Len(m) = 1
  BY <1>3, <1>4 DEF TableUpdate
<1>5. CASE Len(m) # 1
  <2>1. u \in CleanUp(Merge(t, m))
    BY <1>5 DEF TableUpdate
  <2>2. PICK v \in Merge(t, m) : u.slots = v.slots /\ Aligned(u)
    BY <1>3, <2>1, CleanUpIdle
  <2>3. Names(u) = Names(v) /\ \A p : \A h \in Nat : Within(v, p, h) => Within(u, p, h)
    BY <2>2, SameSlots
  <2>4. ASSUME NEW i \in DOMAIN m PROVE m[i].hopCount + 1 \in Nat
    <3>1. m[i] \in Routes
      BY DEF Told
    <3> QED BY <3>1 DEF Routes
  <2> QED BY <1>3, <2>2, <2>3, <2>4 DEF Learned
<1> QED BY <1>4, <1>5

\* Who logs in is known next door, or the table is full and stays as it is.
LEMMA LoginLearns ==
  ASSUME NEW n \in Node, NEW x \in Node \ {n}, NEW t, Sound(t, n), Aligned(t), x \notin Names(t),
         NEW u \in TableUpdate(t, LoginRow(x))
  PROVE  (u = t /\ Used(t) = Slot) \/ Learned(u, t, LoginRow(x), Names(t) \cup {x})
<1> DEFINE e == LoginEntry(x)
<1>1. e \in Routes /\ e.chatName = x /\ e.hopCount = 0 /\ t \in Tables
  BY DEF Routes, LoginEntry, Sound
<1> HIDE DEF e
<1>2. u = PutEntry(t, e)
  BY LoginPuts DEF e
<1>3. CASE SlotsOf(t, x) # {} \/ Used(t) # Slot
  <2>1. PutInto(u, t, e)
    BY <1>1, <1>2, <1>3, PutWithin
  <2>2. DOMAIN <<e>> = {1} /\ <<e>>[1] = e
    OBVIOUS
  <2>3. Learned(u, t, <<e>>, Names(t) \cup {x})
    BY <1>1, <2>1, <2>2 DEF PutInto, Learned
  <2>4. LoginRow(x) = <<e>>
    BY DEF LoginRow, LoginEntry, e
  <2> QED BY <2>3, <2>4
<1>4. CASE ~(SlotsOf(t, x) # {} \/ Used(t) # Slot)
  <2>1. \A i \in Slot : ~Placed(u, t, e, i)
    BY <1>1, <1>4, NullFacts DEF Placed, Used
  <2> QED BY <1>1, <1>2, <2>1, PutPlaces
<1> QED BY <1>3, <1>4

-----------------------------------------------------------------------------
LEMMA NearFacts ==
  ASSUME NEW n \in Node, NEW t, Sound(t, n)
  PROVE  /\ \A p \in Node : p \in HopsOneAway(t) <=> p # n /\ Within(t, p, 1)
         /\ HopsOneAway(t) \subseteq Names(t) \ {n}
<1>1. \A p : p \in HopsOneAway(t) <=> \E e \in Entries(t) : e.chatName = p /\ e.hopCount = 1
  BY DEF HopsOneAway, Entries, Used
<1>2. /\ \A e \in Entries(t) : e \in Routes
      /\ \A e \in Entries(t) : e.chatName # n => Foreign(e, n)
      /\ \A e \in Entries(t) : e.chatName = n => e.hopCount = 0
  BY EntryFacts
<1>3. HopsOneAway(t) \subseteq Names(t) \ {n}
  BY <1>1, <1>2 DEF Names
<1>4. ASSUME NEW p \in Node
      PROVE  p \in HopsOneAway(t) <=> p # n /\ Within(t, p, 1)
  <2>1. ASSUME p \in HopsOneAway(t)
        PROVE  p # n /\ Within(t, p, 1)
    BY <1>1, <1>3, <2>1 DEF Within
  <2>2. ASSUME p # n, Within(t, p, 1)
        PROVE  p \in HopsOneAway(t)
    <3>1. PICK e \in Entries(t) : e.chatName = p /\ e.hopCount <= 1
      BY <2>2 DEF Within
    <3>2. e.hopCount \in Nat /\ e.hopCount > 0
      BY <1>2, <2>2, <3>1 DEF Foreign, Routes
    <3>3. e.hopCount = 1
      BY <3>1, <3>2
    <3> QED BY <1>1, <3>1, <3>3
  <2> QED BY <2>1, <2>2
<1> QED BY <1>3, <1>4

\* What n announces: the names it knows, at the distance it knows.
LEMMA RouteTells ==
  ASSUME NEW n \in Node, NEW t, Sound(t, n)
  PROVE  LET m == RouteOf(n, t).entries
         IN  /\ {m[h].chatName : h \in DOMAIN m} = Names(t)
             /\ \A h \in DOMAIN m : Within(t, m[h].chatName, m[h].hopCount)
<1> DEFINE m == TableToCharArray(t)
<1>1. /\ \A i \in Used(t) : \E h \in DOMAIN m : m[h].chatName = t.slots[i].chatName
      /\ \A h \in DOMAIN m : \E i \in Used(t) : m[h] = Row(t, i)
  BY RowsTold
<1>2. \A i \in Used(t) : t.slots[i] \in Routes
  BY DEF Sound, Tables, Used
<1>3. \A i \in Used(t) : Row(t, i).chatName = t.slots[i].chatName /\ Row(t, i).hopCount = t.slots[i].hopCount
  BY <1>2 DEF Row, Routes
<1>4. RouteOf(n, t).entries = m
  BY DEF RouteOf
<1> HIDE DEF m
<1>5. {m[h].chatName : h \in DOMAIN m} = Names(t)
  BY <1>1, <1>3 DEF Names, Entries
<1>6. \A i \in Used(t) : t.slots[i].hopCount <= t.slots[i].hopCount
  BY <1>2 DEF Routes
<1>7. \A h \in DOMAIN m : Within(t, m[h].chatName, m[h].hopCount)
  BY <1>1, <1>3, <1>6 DEF Within, Entries
<1> QED BY <1>4, <1>5, <1>7

\* The next hop for p is that of p's entry.
LEMMA RoutingEntry ==
  ASSUME NEW n \in Node, NEW t, Sound(t, n), NEW p \in Node, GetRouting(t, p) # NoName
  PROVE  \E e \in Entries(t) : e.chatName = p /\ e.nextChatName = GetRouting(t, p)
<1>1. SlotsOf(t, p) # {} /\ SlotsOf(t, p) \in SUBSET Slot
  BY DEF GetRouting, SlotsOf
<1>2. Least(SlotsOf(t, p)) \in SlotsOf(t, p)
  BY <1>1, LeastSlot
<1>3. PICK i \in Slot : i = Least(SlotsOf(t, p)) /\ t.slots[i].chatName = p
  BY <1>2 DEF SlotsOf
<1>4. t.slots[i] # Null
  BY <1>3, NullFacts, NodesAssumption
<1> QED BY <1>1, <1>3, <1>4 DEF GetRouting, Entries, Used

-----------------------------------------------------------------------------
\* A ROUTE is on its way from u to v.
Tells(q, u, v) == \E k \in DOMAIN q[<<u, v>>] : q[<<u, v>>][k].type = "ROUTE"

LEMMA PostTells ==
  ASSUME NEW q, q \in [Link -> Seq(Message)], NEW u \in Node, NEW v \in Node \ {u}, NEW n, NEW dests,
         NEW m \in Message, Tells(q, u, v) \/ (m.type = "ROUTE" /\ u = n /\ v \in dests \cap On)
  PROVE  Tells(Post(q, n, dests, m), u, v)
<1> DEFINE l == <<u, v>>
           p == Post(q, n, dests, m)
           s == q[l]
<1>1. l \in Link /\ l[1] = u /\ l[2] = v
  BY LinkFacts
<1>2. p[l] = IF l[1] = n /\ l[2] \in dests \cap On THEN Append(s, m) ELSE s
  BY <1>1, PostChannel
<1>3. s \in Seq(Message)
  BY <1>1
<1> HIDE DEF l, p, s
<1>4. CASE l[1] = n /\ l[2] \in dests \cap On
  <2>1. p[l] = Append(s, m)
    BY <1>2, <1>4
  <2>2. /\ DOMAIN Append(s, m) = 1 .. Len(s) + 1 /\ DOMAIN s = 1 .. Len(s) /\ Len(s) \in Nat
        /\ Append(s, m)[Len(s) + 1] = m
        /\ \A k \in 1 .. Len(s) : Append(s, m)[k] = s[k]
    BY <1>3
  <2>3. CASE Tells(q, u, v)
    <3>1. PICK k \in DOMAIN s : s[k].type = "ROUTE"
      BY <2>3 DEF Tells, s, l
    <3>2. k \in DOMAIN Append(s, m) /\ Append(s, m)[k] = s[k]
      BY <2>2
    <3> QED BY <2>1, <3>1, <3>2 DEF Tells, p, l
  <2>4. CASE m.type = "ROUTE"
    <3>1. Len(s) + 1 \in DOMAIN Append(s, m)
      BY <2>2
    <3> QED BY <2>1, <2>2, <2>4, <3>1 DEF Tells, p, l
  <2> QED BY <2>3, <2>4
<1>5. CASE ~(l[1] = n /\ l[2] \in dests \cap On)
  <2>1. p[l] = s
    BY <1>2, <1>5
  <2>2. Tells(q, u, v)
    BY <1>1, <1>5
  <2> QED BY <2>1, <2>2 DEF Tells, p, l, s
<1> QED BY <1>4, <1>5

LEMMA ReadTells ==
  ASSUME Queues(chan), NEW n \in Node, NEW x \in Node \ {n}, NEW type, Reads(n, x, type),
         NEW u \in Node, NEW v \in Node \ {u}, Tells(chan, u, v),
         <<u, v>> # <<x, n>> \/ type # "ROUTE"
  PROVE  Tells(Read(n, x), u, v)
<1> DEFINE l == <<u, v>>
           s == chan[l]
<1>1. l \in Link /\ <<x, n>> \in Link
  BY LinkFacts
<1>2. chan \in [Link -> Seq(Message)] /\ s \in Seq(Message)
  BY <1>1 DEF Queues
<1>3. CASE l # <<x, n>>
  <2>1. Read(n, x)[l] = s
    BY <1>1, <1>2, <1>3 DEF Read
  <2> HIDE DEF s
  <2> QED BY <2>1 DEF Tells, s
<1>4. CASE l = <<x, n>>
  <2>1. Read(n, x)[l] = Tail(s) /\ s # <<>> /\ Head(s).type # "ROUTE"
    BY <1>1, <1>2, <1>4 DEF Read, Reads
  <2>2. PICK k \in DOMAIN s : s[k].type = "ROUTE"
    BY DEF Tells
  <2> HIDE DEF s, l
  <2>3. Head(s) = s[1] /\ DOMAIN s = 1 .. Len(s) /\ Len(s) \in Nat
    BY <1>2, <2>1
  <2>4. k # 1 /\ k \in Nat /\ k <= Len(s) /\ k >= 1
    BY <2>1, <2>2, <2>3
  <2>5. k - 1 \in 1 .. Len(s) - 1
    BY <2>3, <2>4
  <2>6. DOMAIN Tail(s) = 1 .. Len(s) - 1 /\ Tail(s)[k - 1] = s[k]
    <3>1. DOMAIN Tail(s) = 1 .. Len(s) - 1 /\ \A i \in 1 .. Len(s) - 1 : Tail(s)[i] = s[i + 1]
      BY <1>2, <2>1
    <3>2. k - 1 + 1 = k
      BY <2>4
    <3> QED BY <2>5, <3>1, <3>2
  <2> QED BY <2>1, <2>2, <2>5, <2>6 DEF Tells, l
<1> QED BY <1>3, <1>4

-----------------------------------------------------------------------------
\* Every entry leads to a neighbour that knows the name as nearer.
Down ==
  \A z \in Node : \A e \in Entries(table[z]) : e.chatName # z =>
    /\ e.nextChatName \in HopsOneAway(table[z])
    /\ e.nextChatName # e.chatName => Within(table[e.nextChatName], e.chatName, e.hopCount - 1)

\* Whoever is known to a node of S is in S and knows the same nodes.
Agreed(S) ==
  \A y \in S : /\ Names(table[y]) \subseteq S
               /\ \A z \in Names(table[y]) : Names(table[z]) = Names(table[y])

Mutual == \A y, z \in Node : z \in HopsOneAway(table[y]) => y \in HopsOneAway(table[z])

\* What comes and goes at any time and changes no table.
Beats == {m \in Message : m.type \in {"HEART", "HEARTRESPONSE"}}
BeatMail == [l \in Link |-> Beats]
AskMail(n, x) == [l \in Link |-> IF l = <<n, x>> THEN {LoginMessage(n)} ELSE Beats]

\* n has asked x to let it in, and no tables are on their way.
Asking(n, x) ==
  /\ n \in On /\ x \in On /\ n # x /\ {n, x} \in links
  /\ chan[<<n, x>>] = <<LoginMessage(n)>> /\ Carries(chan, AskMail(n, x))
  /\ Names(table[n]) = {n}
  /\ \A y \in Node \ {n} : n \notin Names(table[y])

\* What is on its way while the nodes of D hear of each other: a ROUTE goes
\* from who has heard of all of them to a neighbour, and its sender has not
\* got further away from anybody since.
NewsMail(D, T) ==
  [l \in Link |-> {m \in Message :
     /\ m.type \notin {"LOGIN", "LOGOUT"}
     /\ m.type = "ROUTE" =>
          /\ l[1] \in D /\ Names(T[l[1]]) = D /\ l[2] \in HopsOneAway(T[l[1]])
          /\ {m.entries[h].chatName : h \in DOMAIN m.entries} = D
          /\ \A h \in DOMAIN m.entries : Within(T[l[1]], m.entries[h].chatName, m.entries[h].hopCount)}]

\* Who the nodes of D know while what x has learned spreads among them.
Knowing(D, x) ==
  /\ D \subseteq On /\ x \in D /\ Agreed(Node \ D) /\ Names(table[x]) = D
  /\ \A y \in D : Names(table[y]) \subseteq D
  /\ \A y \in D : Names(table[y]) # D => x \in Names(table[y]) \/ y \in HopsOneAway(table[x])
  /\ \A y, z \in Node : z \in HopsOneAway(table[y]) =>
       y \in HopsOneAway(table[z]) \/ (y = x /\ Names(table[z]) = {z})

\* Whoever has heard of all nodes of D tells its neighbours.
Telling(D, q, T) ==
  \A u \in D : \A v \in HopsOneAway(T[u]) :
    Names(T[u]) = D /\ Names(T[v]) # D => Tells(q, u, v)

Spreading(D, x) == Knowing(D, x) /\ Carries(chan, NewsMail(D, table)) /\ Telling(D, chan, table)

\* As long as nodes only join: the tables are in order, ...
Joined ==
  /\ \A n \in Node : state[n] # "stopped" /\ Aligned(table[n])
  /\ Down

\* ... all who know of each other know the same nodes, ...
Calmed == Agreed(Node) /\ Mutual

\* ... except while the last of them is being made known.
Doing ==
  \/ Calmed /\ Carries(chan, BeatMail)
  \/ Calmed /\ \E n, x \in Node : Asking(n, x)
  \/ \E D \in SUBSET Node : \E x \in D : Spreading(D, x)

LoopInv == calm /\ upsets = 0 => Joined /\ Doing

-----------------------------------------------------------------------------
\* t knows all that s knows, and no further away.
Grown(t, s) == \A p : \A h \in Nat : Within(s, p, h) => Within(t, p, h)

LEMMA GrownKnows ==
  ASSUME NEW n \in Node, NEW s, Sound(s, n), NEW t, Sound(t, n), Grown(t, s)
  PROVE  HopsOneAway(s) \subseteq HopsOneAway(t) /\ Names(s) \subseteq Names(t)
<1>1. HopsOneAway(s) \subseteq HopsOneAway(t)
  <2>1. HopsOneAway(s) \subseteq Node
    BY NeighbourFacts
  <2>2. \A p \in Node : p \in HopsOneAway(s) <=> p # n /\ Within(s, p, 1)
    BY NearFacts
  <2>3. \A p \in Node : p \in HopsOneAway(t) <=> p # n /\ Within(t, p, 1)
    BY NearFacts
  <2> QED BY <2>1, <2>2, <2>3 DEF Grown
<1>2. ASSUME NEW p \in Names(s) PROVE p \in Names(t)
  <2>1. PICK e \in Entries(s) : e.chatName = p
    BY DEF Names
  <2>2. e.hopCount \in Nat
    BY EntryFacts DEF Routes
  <2>3. e.hopCount <= e.hopCount
    BY <2>2
  <2>4. Within(s, p, e.hopCount)
    BY <2>1, <2>3 DEF Within
  <2> QED BY <2>2, <2>4 DEF Grown, Within, Names
<1> QED BY <1>1, <1>2

\* n's table becomes t, which it grows into.
Grows(n, t) ==
  /\ table' = [table EXCEPT ![n] = t]
  /\ Sound(t, n)
  /\ Grown(t, table[n])
  /\ state' = state

LEMMA GrowsFacts ==
  ASSUME IInv, NEW n \in Node, NEW t, Grows(n, t)
  PROVE  /\ table'[n] = t /\ \A k \in Node \ {n} : table'[k] = table[k]
         /\ \A k \in Node : Sound(table[k], k) /\ Sound(table'[k], k) /\ Grown(table'[k], table[k])
         /\ \A k \in Node : /\ HopsOneAway(table[k]) \subseteq HopsOneAway(table'[k])
                            /\ Names(table[k]) \subseteq Names(table'[k])
                            /\ HopsOneAway(table[k]) \subseteq Node \ {k}
                            /\ HopsOneAway(table[k]) \subseteq Names(table[k])
                            /\ HopsOneAway(table'[k]) \subseteq Node \ {k}
                            /\ HopsOneAway(table'[k]) \subseteq Names(table'[k])
         /\ On' = On
<1>1. table'[n] = t /\ \A k \in Node \ {n} : table'[k] = table[k]
  BY DEF IInv, Grows
<1>2. \A k \in Node : Sound(table[k], k) /\ Sound(table'[k], k) /\ Grown(table'[k], table[k])
  BY <1>1 DEF IInv, Grows, Grown
<1>3. ASSUME NEW k \in Node
      PROVE  /\ HopsOneAway(table[k]) \subseteq HopsOneAway(table'[k])
             /\ Names(table[k]) \subseteq Names(table'[k])
             /\ HopsOneAway(table[k]) \subseteq Node \ {k}
             /\ HopsOneAway(table[k]) \subseteq Names(table[k])
             /\ HopsOneAway(table'[k]) \subseteq Node \ {k}
             /\ HopsOneAway(table'[k]) \subseteq Names(table'[k])
  <2> DEFINE s == table[k]
             u == table'[k]
  <2>1. Sound(s, k) /\ Sound(u, k) /\ Grown(u, s)
    BY <1>2
  <2> HIDE DEF s, u
  <2>2. HopsOneAway(s) \subseteq HopsOneAway(u) /\ Names(s) \subseteq Names(u)
    BY <2>1, GrownKnows
  <2>3. HopsOneAway(s) \subseteq Names(s) \ {k} /\ HopsOneAway(u) \subseteq Names(u) \ {k}
    BY <2>1, NearFacts
  <2>4. HopsOneAway(s) \subseteq Node /\ HopsOneAway(u) \subseteq Node
    BY <2>1, NeighbourFacts
  <2> QED BY <2>2, <2>3, <2>4 DEF s, u
<1> QED BY <1>1, <1>2, <1>3 DEF On, Grows

\* What is new in t leads to the neighbour x that has told it.
LEMMA DownGrows ==
  ASSUME IInv, Down, NEW n \in Node, NEW t, Grows(n, t), NEW x \in HopsOneAway(t),
         \A e \in Entries(t) : \/ e \in Entries(table[n])
                               \/ /\ e.nextChatName = x
                                  /\ e.chatName # x => Within(table[x], e.chatName, e.hopCount - 1)
  PROVE  Down'
<1> SUFFICES ASSUME NEW z \in Node, NEW e \in Entries(table'[z]), e.chatName # z
             PROVE  /\ e.nextChatName \in HopsOneAway(table'[z])
                    /\ e.nextChatName # e.chatName =>
                         Within(table'[e.nextChatName], e.chatName, e.hopCount - 1)
  BY DEF Down
<1>1. /\ table'[n] = t /\ \A k \in Node \ {n} : table'[k] = table[k]
      /\ \A k \in Node : Grown(table'[k], table[k])
      /\ \A k \in Node : HopsOneAway(table[k]) \subseteq HopsOneAway(table'[k])
      /\ \A k \in Node : HopsOneAway(table[k]) \subseteq Node \ {k}
      /\ \A k \in Node : HopsOneAway(table'[k]) \subseteq Node \ {k}
  BY GrowsFacts
<1>2. CASE e \in Entries(table[z])
  <2>1. /\ e.nextChatName \in HopsOneAway(table[z])
        /\ e.nextChatName # e.chatName => Within(table[e.nextChatName], e.chatName, e.hopCount - 1)
    BY <1>2 DEF Down
  <2>2. e.hopCount - 1 \in Nat
    <3>1. Sound(table[z], z)
      BY DEF IInv
    <3>2. e \in Routes /\ Foreign(e, z)
      BY <1>2, <3>1, EntryFacts
    <3> QED BY <3>2 DEF Foreign, Routes
  <2> QED BY <1>1, <2>1, <2>2 DEF Grown
<1>3. CASE e \notin Entries(table[z])
  <2>1. z = n
    BY <1>1, <1>3
  <2>2. e.nextChatName = x /\ (e.chatName # x => Within(table[x], e.chatName, e.hopCount - 1))
    BY <1>1, <1>3, <2>1
  <2> QED BY <1>1, <2>1, <2>2 DEF Grown
<1> QED BY <1>2, <1>3

\* What was on its way may stay so, if the sender's table has grown.
LEMMA NewsGrows ==
  ASSUME IInv, NEW n \in Node, NEW t, Grows(n, t), NEW D, Names(t) \subseteq D,
         NEW q, Carries(q, NewsMail(D, table))
  PROVE  Carries(q, NewsMail(D, table'))
<1>1. \A k \in Node : /\ Grown(table'[k], table[k])
                      /\ HopsOneAway(table[k]) \subseteq HopsOneAway(table'[k])
  BY GrowsFacts
<1>2. \A k \in Node : Names(table[k]) = D => Names(table'[k]) = D
  <2>1. \A k \in Node : Names(table[k]) \subseteq Names(table'[k])
    BY GrowsFacts
  <2>2. table'[n] = t /\ \A k \in Node \ {n} : table'[k] = table[k]
    BY GrowsFacts
  <2> QED BY <2>1, <2>2
<1>3. ASSUME NEW l \in Link, NEW m \in NewsMail(D, table)[l]
      PROVE  m \in NewsMail(D, table')[l]
  <2>1. l[1] \in Node
    BY LinkFacts
  <2> DEFINE a == table[l[1]]
             b == table'[l[1]]
  <2>2. Grown(b, a) /\ HopsOneAway(a) \subseteq HopsOneAway(b) /\ (Names(a) = D => Names(b) = D)
    BY <1>1, <1>2, <2>1
  <2>3. /\ m \in Message /\ m.type \notin {"LOGIN", "LOGOUT"}
        /\ m.type = "ROUTE" =>
             /\ l[1] \in D /\ Names(a) = D /\ l[2] \in HopsOneAway(a)
             /\ {m.entries[h].chatName : h \in DOMAIN m.entries} = D
             /\ \A h \in DOMAIN m.entries : Within(a, m.entries[h].chatName, m.entries[h].hopCount)
    BY DEF NewsMail
  <2> HIDE DEF a, b
  <2>4. /\ m \in Message /\ m.type \notin {"LOGIN", "LOGOUT"}
        /\ m.type = "ROUTE" =>
             /\ l[1] \in D /\ Names(b) = D /\ l[2] \in HopsOneAway(b)
             /\ {m.entries[h].chatName : h \in DOMAIN m.entries} = D
             /\ \A h \in DOMAIN m.entries : Within(b, m.entries[h].chatName, m.entries[h].hopCount)
    <3>1. ASSUME m.type = "ROUTE", NEW h \in DOMAIN m.entries PROVE m.entries[h].hopCount \in Nat
      <4>1. m.entries \in Seq(Routes)
        BY <2>3, <3>1 DEF Message
      <4>2. m.entries[h] \in Routes
        BY <3>1, <4>1
      <4> QED BY <4>2 DEF Routes
    <3> QED BY <2>2, <2>3, <3>1 DEF Grown
  <2> QED BY <2>4 DEF NewsMail, b
<1> QED BY <1>3 DEF Carries

\* What n announces when it has heard of all nodes of D.
LEMMA RouteNews ==
  ASSUME NEW n \in Node, NEW T, Sound(T[n], n), NEW D, Names(T[n]) = D, n \in D,
         NEW z \in HopsOneAway(T[n])
  PROVE  RouteOf(n, T[n]) \in NewsMail(D, T)[<<n, z>>]
<1> DEFINE l == <<n, z>>
           m == RouteOf(n, T[n])
           s == m.entries
<1>1. l \in Link /\ l[1] = n /\ l[2] = z
  BY NeighbourFacts, LinkFacts
<1>2. m \in Message
  BY RouteFacts
<1>3. /\ {s[h].chatName : h \in DOMAIN s} = D
      /\ \A h \in DOMAIN s : Within(T[n], s[h].chatName, s[h].hopCount)
  BY RouteTells
<1>4. m.type = "ROUTE"
  BY DEF RouteOf
<1> HIDE DEF l, m
<1>5. m \in NewsMail(D, T)[l]
  BY <1>1, <1>2, <1>3, <1>4 DEF NewsMail
<1> QED BY <1>5 DEF l, m

LEMMA PlainNews ==
  ASSUME NEW n \in Node, NEW z \in Node \ {n}, NEW T, NEW D, NEW type \in {"HEART", "HEARTRESPONSE"}
  PROVE  [type |-> type, from |-> n] \in NewsMail(D, T)[<<n, z>>]
<1> DEFINE m == [type |-> type, from |-> n]
<1>1. <<n, z>> \in Link /\ m \in Message /\ m.type \notin {"LOGIN", "LOGOUT", "ROUTE"}
  BY LinkFacts DEF Message
<1> HIDE DEF m
<1>2. m \in NewsMail(D, T)[<<n, z>>]
  BY <1>1 DEF NewsMail
<1> QED BY <1>2 DEF m

LEMMA KnowingGrows ==
  ASSUME IInv, NEW D, NEW x, Knowing(D, x), NEW n \in D, NEW y \in D, NEW t, Grows(n, t),
         Names(t) = D, y \in HopsOneAway(t), HopsOneAway(t) \subseteq HopsOneAway(table[n]) \cup {y},
         n \in HopsOneAway(table[y])
  PROVE  Knowing(D, x)'
<1>1. /\ table'[n] = t /\ \A k \in Node \ {n} : table'[k] = table[k]
      /\ \A k \in Node : HopsOneAway(table[k]) \subseteq HopsOneAway(table'[k])
      /\ \A k \in Node : HopsOneAway(table[k]) \subseteq Node \ {k}
      /\ \A k \in Node : HopsOneAway(table[k]) \subseteq Names(table[k])
      /\ \A k \in Node : HopsOneAway(table'[k]) \subseteq Node \ {k}
      /\ On' = On
  BY GrowsFacts DEF Knowing, On
<1>2. D \subseteq Node /\ x \in D /\ n \in Node /\ y \in Node
  BY DEF Knowing, On
<1>3. Agreed(Node \ D)'
  <2> SUFFICES ASSUME NEW w \in Node \ D
               PROVE  /\ Names(table'[w]) \subseteq Node \ D
                      /\ \A z \in Names(table'[w]) : Names(table'[z]) = Names(table'[w])
    BY DEF Agreed
  <2>1. table'[w] = table[w] /\ \A z \in Node \ D : table'[z] = table[z]
    BY <1>1
  <2>2. /\ Names(table[w]) \subseteq Node \ D
        /\ \A z \in Names(table[w]) : Names(table[z]) = Names(table[w])
    BY DEF Knowing, Agreed
  <2> QED BY <2>1, <2>2
<1>4. Names(table'[x]) = D
  BY <1>1, <1>2 DEF Knowing
<1>5. \A w \in D : Names(table'[w]) \subseteq D
  BY <1>1, <1>2 DEF Knowing
<1>6. \A w \in D : Names(table'[w]) # D => x \in Names(table'[w]) \/ w \in HopsOneAway(table'[x])
  <2> SUFFICES ASSUME NEW w \in D, Names(table'[w]) # D
               PROVE  x \in Names(table'[w]) \/ w \in HopsOneAway(table'[x])
    OBVIOUS
  <2>1. w # n /\ table'[w] = table[w]
    BY <1>1, <1>2
  <2> QED BY <1>1, <1>2, <2>1 DEF Knowing
<1>7. ASSUME NEW a \in Node, NEW b \in Node, b \in HopsOneAway(table'[a])
      PROVE  a \in HopsOneAway(table'[b]) \/ (a = x /\ Names(table'[b]) = {b})
  <2>1. CASE b \in HopsOneAway(table[a])
    <3>1. a \in HopsOneAway(table[b]) \/ (a = x /\ Names(table[b]) = {b})
      BY <2>1 DEF Knowing
    <3>2. CASE a \in HopsOneAway(table[b])
      BY <1>1, <3>2
    <3>3. CASE a = x /\ Names(table[b]) = {b}
      <4>1. CASE b # n
        BY <1>1, <3>3, <4>1
      <4>2. CASE b = n
        <5>1. y \notin HopsOneAway(table[n])
          BY <1>1, <1>2, <3>3, <4>2
        <5>2. y = x
          BY <1>2, <5>1 DEF Knowing
        <5> QED BY <1>1, <3>3, <4>2, <5>2
      <4> QED BY <4>1, <4>2
    <3> QED BY <3>1, <3>2, <3>3
  <2>2. CASE b \notin HopsOneAway(table[a])
    <3>1. a = n /\ b = y
      BY <1>1, <1>7, <2>2
    <3> QED BY <1>1, <1>2, <3>1
  <2> QED BY <2>1, <2>2
<1>8. D \subseteq On'
  BY <1>1 DEF Knowing
<1> QED BY <1>2, <1>3, <1>4, <1>5, <1>6, <1>7, <1>8 DEF Knowing

LEMMA TellingSent ==
  ASSUME NEW T, \A k \in Node : Sound(T[k], k), NEW D \in SUBSET On, NEW n \in D, NEW skip,
         skip \in Node => Names(T[skip]) = D, NEW q, q \in [Link -> Seq(Message)],
         \A u \in D \ {n} : \A v \in HopsOneAway(T[u]) :
           Names(T[u]) = D /\ Names(T[v]) # D => Tells(q, u, v)
  PROVE  Telling(D, SendRoute(q, n, T[n], skip), T)
<1> SUFFICES ASSUME NEW u \in D, NEW v \in HopsOneAway(T[u]), Names(T[u]) = D, Names(T[v]) # D
             PROVE  Tells(SendRoute(q, n, T[n], skip), u, v)
  BY DEF Telling
<1>1. u \in Node /\ n \in Node /\ Sound(T[u], u) /\ Sound(T[n], n)
  BY DEF On
<1>2. v \in Node \ {u} /\ v \in D
  BY <1>1, NeighbourFacts, NearFacts
<1>3. /\ RouteDests(T[n], skip) = HopsOneAway(T[n]) \ {skip}
      /\ SendRoute(q, n, T[n], skip) = Post(q, n, RouteDests(T[n], skip), RouteOf(n, T[n]))
      /\ RouteOf(n, T[n]) \in Message
  BY <1>1, RouteFacts
<1>4. RouteOf(n, T[n]).type = "ROUTE"
  BY DEF RouteOf
<1>5. Tells(q, u, v) \/ (u = n /\ v \in RouteDests(T[n], skip) \cap On)
  <2>1. CASE u = n
    BY <1>2, <1>3, <2>1
  <2>2. CASE u # n
    BY <2>2
  <2> QED BY <2>1, <2>2
<1>6. Tells(Post(q, n, RouteDests(T[n], skip), RouteOf(n, T[n])), u, v)
  BY <1>1, <1>2, <1>3, <1>4, <1>5, PostTells
<1> QED BY <1>3, <1>6

\* Reading or sending anything but a ROUTE leaves the news on their way.
LEMMA TellingPost ==
  ASSUME NEW T, \A k \in Node : Sound(T[k], k), NEW D \in SUBSET Node, NEW q,
         q \in [Link -> Seq(Message)], Telling(D, q, T), NEW n, NEW dests, NEW m \in Message
  PROVE  Telling(D, Post(q, n, dests, m), T)
<1> SUFFICES ASSUME NEW u \in D, NEW v \in HopsOneAway(T[u]), Names(T[u]) = D, Names(T[v]) # D
             PROVE  Tells(Post(q, n, dests, m), u, v)
  BY DEF Telling
<1>1. Tells(q, u, v)
  BY DEF Telling
<1>2. u \in Node /\ v \in Node \ {u}
  BY NeighbourFacts
<1> QED BY <1>1, <1>2, PostTells

LEMMA TellingRead ==
  ASSUME IInv, NEW D \in SUBSET Node, Telling(D, chan, table), NEW n \in Node, NEW x \in Node \ {n},
         NEW type, type # "ROUTE", Reads(n, x, type)
  PROVE  Telling(D, Read(n, x), table)
<1> SUFFICES ASSUME NEW u \in D, NEW v \in HopsOneAway(table[u]), Names(table[u]) = D, Names(table[v]) # D
             PROVE  Tells(Read(n, x), u, v)
  BY DEF Telling
<1>1. Tells(chan, u, v)
  BY DEF Telling
<1>2. u \in Node /\ v \in Node \ {u}
  BY NeighbourFacts DEF IInv
<1> QED BY <1>1, <1>2, ReadTells DEF IInv

-----------------------------------------------------------------------------
\* A step that sends or reads HEARTs and their answers.
Beat(n, x) == MsgHeart(n, x) \/ MsgHeartResponse(n, x) \/ SendHeart(n, x)

\* n takes x for a neighbour, or is about to.
Greets(n, x) ==
  \/ x \in HopsOneAway(table[n])
  \/ Reads(n, x, "LOGIN") /\ \E t \in TableUpdate(table[n], LoginRow(x)) : x \in HopsOneAway(t)

\* It makes q of the channels and sends a message to d then, if at all.
Beaten(n, x, q, d, type) ==
  /\ type \in {"HEART", "HEARTRESPONSE"}
  /\ \/ q = chan
     \/ q = Read(n, x) /\ (Reads(n, x, "HEART") \/ Reads(n, x, "HEARTRESPONSE"))
  /\ chan' = q \/ chan' = Post(q, n, {d}, [type |-> type, from |-> n])
  /\ type = "HEART" => d = x /\ Greets(n, x)
  /\ type = "HEARTRESPONSE" => d = GetRouting(table[n], x)

LEMMA BeatShape ==
  ASSUME IInv, NEW n \in Node, NEW x \in Node \ {n}, Beat(n, x)
  PROVE  /\ UNCHANGED <<table, state, links, upsets, calm>>
         /\ \E q, d, type : Beaten(n, x, q, d, type)
<1>1. CASE MsgHeart(n, x)
  <2>1. Beaten(n, x, Read(n, x), GetRouting(table[n], x), "HEARTRESPONSE")
    BY <1>1 DEF MsgHeart, Beaten
  <2> QED BY <1>1, <2>1 DEF MsgHeart
<1>2. CASE MsgHeartResponse(n, x)
  <2>1. Beaten(n, x, Read(n, x), GetRouting(table[n], x), "HEARTRESPONSE")
    BY <1>2 DEF MsgHeartResponse, Beaten
  <2> QED BY <1>2, <2>1 DEF MsgHeartResponse
<1>3. CASE SendHeart(n, x)
  <2>1. PICK t \in {table[n]} \cup (IF Reads(n, x, "LOGIN") THEN TableUpdate(table[n], LoginRow(x)) ELSE {}) :
          x \in HopsOneAway(t) /\ chan' = Post(chan, n, {GetRouting(t, x)}, [type |-> "HEART", from |-> n])
    BY <1>3 DEF SendHeart
  <2>2. Sound(t, n)
    <3>1. CASE t = table[n]
      BY <3>1 DEF IInv
    <3>2. CASE Reads(n, x, "LOGIN") /\ t \in TableUpdate(table[n], LoginRow(x))
      <4>1. Told(LoginRow(x), x, n) /\ Len(LoginRow(x)) = 1
        BY LoginTold
      <4> QED BY <3>2, <4>1, UpdateSound DEF IInv
    <3> QED BY <2>1, <3>1, <3>2
  <2>3. GetRouting(t, x) = x
    BY <2>1, <2>2, NeighbourFacts
  <2>4. Greets(n, x)
    BY <2>1 DEF Greets
  <2>5. Beaten(n, x, chan, x, "HEART")
    BY <2>1, <2>3, <2>4 DEF Beaten
  <2> QED BY <1>3, <2>5 DEF SendHeart
<1> QED BY <1>1, <1>2, <1>3 DEF Beat

\* What has been taken from the channels leaves what was on its way.
LEMMA BeatenCarries ==
  ASSUME IInv, NEW n \in Node, NEW x \in Node \ {n}, NEW q, NEW d, NEW type, Beaten(n, x, q, d, type),
         NEW A, Carries(chan, A)
  PROVE  q \in [Link -> Seq(Message)] /\ Carries(q, A)
<1>1. CASE q = chan
  BY <1>1 DEF IInv, Queues
<1>2. CASE q = Read(n, x) /\ (Reads(n, x, "HEART") \/ Reads(n, x, "HEARTRESPONSE"))
  BY <1>2, ReadCarries, ReadQueues DEF IInv, Queues
<1> QED BY <1>1, <1>2 DEF Beaten

LEMMA BeatCarries ==
  ASSUME IInv, NEW n \in Node, NEW x \in Node \ {n}, Beat(n, x), NEW A, Carries(chan, A),
         \A z \in Node \ {n} : Beats \subseteq A[<<n, z>>]
  PROVE  Carries(chan', A)
<1>1. PICK q, d, type : Beaten(n, x, q, d, type)
  BY BeatShape
<1> DEFINE m == [type |-> type, from |-> n]
<1>2. q \in [Link -> Seq(Message)] /\ Carries(q, A)
  BY <1>1, BeatenCarries
<1>3. m \in Message /\ m \in Beats
  BY <1>1 DEF Beaten, Message, Beats
<1>4. chan' = q \/ chan' = Post(q, n, {d}, m)
  BY <1>1 DEF Beaten
<1>5. \A z \in {d} \cap On : z # n => m \in A[<<n, z>>]
  BY <1>3 DEF On
<1> HIDE DEF m
<1>6. Carries(Post(q, n, {d}, m), A)
  BY <1>2, <1>3, <1>5, PostCarries
<1> QED BY <1>2, <1>4, <1>6

\* HEARTs may be on their way while the news spread.
LEMMA BeatsAreNews ==
  ASSUME NEW D, NEW T, NEW l \in Link
  PROVE  Beats \subseteq NewsMail(D, T)[l]
BY DEF Beats, NewsMail

LEMMA BeatSpreads ==
  ASSUME IInv, NEW n \in Node, NEW y \in Node \ {n}, Beat(n, y),
         NEW D \in SUBSET Node, NEW x \in D, Spreading(D, x)
  PROVE  Spreading(D, x)'
<1>1. table' = table /\ state' = state
  BY BeatShape
<1>2. Knowing(D, x)'
  BY <1>1 DEF Spreading, Knowing, Agreed, On
<1>3. Carries(chan', NewsMail(D, table))
  <2> DEFINE A == NewsMail(D, table)
  <2>1. \A z \in Node \ {n} : Beats \subseteq A[<<n, z>>]
    BY BeatsAreNews, LinkFacts
  <2>2. Carries(chan, A)
    BY DEF Spreading
  <2> HIDE DEF A
  <2>3. Carries(chan', A)
    BY <2>1, <2>2, BeatCarries
  <2> QED BY <2>3 DEF A
<1>4. Telling(D, chan', table)
  <2>1. PICK q, d, type : Beaten(n, y, q, d, type)
    BY BeatShape
  <2> DEFINE m == [type |-> type, from |-> n]
  <2>2. m \in Message /\ (chan' = q \/ chan' = Post(q, n, {d}, m))
    BY <2>1 DEF Beaten, Message
  <2>3. q \in [Link -> Seq(Message)]
    BY <2>1, BeatenCarries DEF Spreading
  <2>4. Telling(D, q, table)
    <3>1. CASE q = chan
      BY <3>1 DEF Spreading
    <3>2. CASE q = Read(n, y) /\ (Reads(n, y, "HEART") \/ Reads(n, y, "HEARTRESPONSE"))
      BY <3>2, TellingRead DEF Spreading
    <3> QED BY <2>1, <3>1, <3>2 DEF Beaten
  <2>5. \A k \in Node : Sound(table[k], k)
    BY DEF IInv
  <2> HIDE DEF m
  <2> QED BY <2>2, <2>3, <2>4, <2>5, TellingPost
<1> QED BY <1>1, <1>2, <1>3, <1>4 DEF Spreading

\* What a ROUTE of y makes of the table of n while the news spread in D.
Heard(n, y, D, t) ==
  /\ Reads(n, y, "ROUTE") /\ chan' = SendRoute(Read(n, y), n, t, y)
  /\ Grows(n, t) /\ Aligned(t) /\ Names(t) = D
  /\ n \in D /\ y \in D /\ Names(table[y]) = D /\ n \in HopsOneAway(table[y])
  /\ y \in HopsOneAway(t) /\ HopsOneAway(t) \subseteq HopsOneAway(table[n]) \cup {y}
  /\ LET m == Head(chan[<<y, n>>]).entries
     IN  m \in Seq(Routes) /\ \A h \in DOMAIN m : Within(t, m[h].chatName, m[h].hopCount + 1)
  /\ \A e \in Entries(t) : \/ e \in Entries(table[n])
                           \/ /\ e.nextChatName = y
                              /\ e.chatName # y => Within(table[y], e.chatName, e.hopCount - 1)

LEMMA RouteHeard ==
  ASSUME IInv, NEW n \in Node, NEW y \in Node \ {n}, MsgRoute(n, y),
         NEW D \in SUBSET Node, NEW x \in D, Spreading(D, x), Aligned(table[n])
  PROVE  \E t : Heard(n, y, D, t)
<1> DEFINE m == Head(chan[<<y, n>>]).entries
           A == NewsMail(D, table)
<1>1. PICK t \in TableUpdate(table[n], m) :
        table' = [table EXCEPT ![n] = t] /\ chan' = SendRoute(Read(n, y), n, t, y)
  BY DEF MsgRoute
<1>2. Reads(n, y, "ROUTE") /\ state' = state
  BY DEF MsgRoute
<1>3. Told(m, y, n) /\ (Len(m) # 1 => \E k \in DOMAIN m : m[k].chatName = n)
  BY <1>2, RouteIsTold
<1>4. Carries(Read(n, y), A) /\ Head(chan[<<y, n>>]) \in A[<<y, n>>]
  BY <1>2, ReadCarries DEF Spreading, IInv
<1>5. /\ y \in D /\ Names(table[y]) = D /\ n \in HopsOneAway(table[y])
      /\ D = {m[h].chatName : h \in DOMAIN m}
      /\ \A h \in DOMAIN m : Within(table[y], m[h].chatName, m[h].hopCount)
  <2>1. <<y, n>> \in Link
    BY LinkFacts
  <2>2. Head(chan[<<y, n>>]).type = "ROUTE"
    BY <1>2 DEF Reads
  <2> QED BY <1>4, <2>1, <2>2 DEF NewsMail
<1> HIDE DEF m, A
<1>6. \A k \in Node : Sound(table[k], k)
  BY DEF IInv
<1>7. n \in D
  BY <1>5, <1>6, NearFacts
<1>8. Names(table[x]) = D /\ Names(table[n]) \subseteq D /\ D \subseteq On
  BY <1>7 DEF Spreading, Knowing
<1>9. \A v : Sound(v, n) /\ Names(v) \subseteq D => Fits(v, D)
  BY <1>6, <1>8, NamesFit
<1>10. Learned(t, table[n], m, D)
  BY <1>1, <1>3, <1>5, <1>6, <1>8, <1>9, UpdateLearns
<1>11. Sound(t, n) /\ Stems(t, table[n], m)
  BY <1>1, <1>3, <1>6, UpdateStems
<1>12. Grows(n, t)
  BY <1>1, <1>2, <1>10, <1>11 DEF Grows, Grown, Learned
<1>13. y \in HopsOneAway(t)
  <2>1. PICK h \in DOMAIN m : m[h].chatName = y
    BY <1>5
  <2>2. m[h].hopCount + 1 = 1
    BY <1>3, <2>1 DEF Told
  <2>3. Within(t, y, 1)
    BY <1>10, <2>1, <2>2 DEF Learned
  <2> QED BY <1>11, <2>3, NearFacts
<1>14. HopsOneAway(t) \subseteq HopsOneAway(table[n]) \cup {y}
  BY <1>3, <1>11, UpdateNeighbours
<1>15. Names(t) = D
  BY <1>10 DEF Learned
<1>16. ASSUME NEW e \in Entries(t), e \notin Entries(table[n])
       PROVE  /\ e.nextChatName = y
              /\ e.chatName # y => Within(table[y], e.chatName, e.hopCount - 1)
  <2>1. PICK i \in Slot : e = t.slots[i] /\ e # Null
    BY DEF Entries, Used
  <2>2. e # table[n].slots[i]
    BY <1>16, <2>1 DEF Entries, Used
  <2>3. PICK k \in DOMAIN m : e = Farther(m[k])
    BY <1>11, <2>1, <2>2 DEF Stems
  <2>4. m[k] \in Routes /\ m[k].nextChatName = y
    BY <1>3 DEF Told
  <2>5. e.chatName = m[k].chatName /\ e.nextChatName = y /\ e.hopCount = m[k].hopCount + 1
    BY <2>3, <2>4 DEF Farther
  <2>6. e.hopCount - 1 = m[k].hopCount
    BY <2>4, <2>5 DEF Routes
  <2> QED BY <1>5, <2>5, <2>6
<1> QED BY <1>1, <1>2, <1>3, <1>5, <1>7, <1>10, <1>12, <1>13, <1>14, <1>15, <1>16 DEF Heard, Learned, Told, m

LEMMA RouteSpreads ==
  ASSUME IInv, NEW n \in Node, NEW y \in Node \ {n}, MsgRoute(n, y),
         NEW D \in SUBSET Node, NEW x \in D, Spreading(D, x), Down, Aligned(table[n])
  PROVE  Spreading(D, x)' /\ Down' /\ Aligned(table'[n]) /\ \A k \in Node \ {n} : table'[k] = table[k]
<1>1. PICK t : Heard(n, y, D, t)
  BY RouteHeard
<1>2. /\ Reads(n, y, "ROUTE") /\ chan' = SendRoute(Read(n, y), n, t, y)
      /\ Grows(n, t) /\ Sound(t, n) /\ Aligned(t) /\ Names(t) = D
      /\ n \in D /\ y \in D /\ Names(table[y]) = D /\ n \in HopsOneAway(table[y])
      /\ y \in HopsOneAway(t) /\ HopsOneAway(t) \subseteq HopsOneAway(table[n]) \cup {y}
  BY <1>1 DEF Heard, Grows
<1>3. D \subseteq On
  BY DEF Spreading, Knowing
<1>4. Knowing(D, x)'
  BY <1>2, KnowingGrows DEF Spreading
<1>5. Down'
  <2>1. \A e \in Entries(t) : \/ e \in Entries(table[n])
                              \/ /\ e.nextChatName = y
                                 /\ e.chatName # y => Within(table[y], e.chatName, e.hopCount - 1)
    BY <1>1 DEF Heard
  <2> QED BY <1>2, <2>1, DownGrows
<1>6. /\ table'[n] = t /\ \A k \in Node \ {n} : table'[k] = table[k]
      /\ \A k \in Node : Sound(table'[k], k)
  BY <1>2, GrowsFacts
<1>7. Carries(chan', NewsMail(D, table'))
  <2>1. Carries(Read(n, y), NewsMail(D, table'))
    <3>1. Carries(Read(n, y), NewsMail(D, table))
      BY <1>2, ReadCarries DEF Spreading, IInv
    <3> QED BY <1>2, <3>1, NewsGrows
  <2>2. \A z \in HopsOneAway(t) \ {y} : RouteOf(n, t) \in NewsMail(D, table')[<<n, z>>]
    BY <1>2, <1>6, RouteNews
  <2>3. Read(n, y) \in [Link -> Seq(Message)]
    BY <1>2, ReadQueues DEF IInv, Queues
  <2> QED BY <1>2, <2>1, <2>2, <2>3, RouteCarries
<1>8. Telling(D, chan', table')
  <2>1. \A u \in D \ {n} : \A v \in HopsOneAway(table'[u]) :
          Names(table'[u]) = D /\ Names(table'[v]) # D => Tells(Read(n, y), u, v)
    <3> SUFFICES ASSUME NEW u \in D \ {n}, NEW v \in HopsOneAway(table'[u]),
                        Names(table'[u]) = D, Names(table'[v]) # D
                 PROVE  Tells(Read(n, y), u, v)
      OBVIOUS
    <3>1. u \in Node /\ v \in Node \ {u} /\ v # n
      BY <1>2, <1>6, NeighbourFacts
    <3>2. Tells(chan, u, v)
      BY <1>6, <3>1 DEF Spreading, Telling
    <3>3. <<u, v>> # <<y, n>>
      BY <3>1
    <3> QED BY <1>2, <3>1, <3>2, <3>3, ReadTells DEF IInv
  <2>2. y \in Node => Names(table'[y]) = D
    BY <1>2, <1>6
  <2>3. Read(n, y) \in [Link -> Seq(Message)]
    BY <1>2, ReadQueues DEF IInv, Queues
  <2>4. Telling(D, SendRoute(Read(n, y), n, table'[n], y), table')
    BY <1>2, <1>3, <1>6, <2>1, <2>2, <2>3, TellingSent
  <2> QED BY <1>2, <1>6, <2>4
<1>9. Aligned(table'[n])
  BY <1>2, <1>6
<1> QED BY <1>4, <1>5, <1>6, <1>7, <1>8, <1>9 DEF Spreading

\* Who runs, if nobody has stopped, knows only who runs.
LEMMA NamesRun ==
  ASSUME IInv, Fresh, \A k \in Node : state[k] # "stopped", NEW n \in Node
  PROVE  Names(table[n]) \subseteq On \cup {n}
<1>1. Started = On
  BY DEF IInv, Started, On
<1>2. \A i \in Used(table[n]) : table[n].slots[i].chatName \in On \cup {n}
  BY <1>1 DEF Fresh, Speaks
<1> QED BY <1>2 DEF Names, Entries

\* What a LOGIN of x makes of the table of n.
LEMMA LoginGrows ==
  ASSUME NEW n \in Node, NEW x \in Node \ {n}, NEW s, Sound(s, n), Aligned(s), x \notin Names(s),
         NEW t \in TableUpdate(s, LoginRow(x))
  PROVE  /\ Sound(t, n) /\ Grown(t, s) /\ Aligned(t)
         /\ HopsOneAway(t) \subseteq HopsOneAway(s) \cup {x}
         /\ \A e \in Entries(t) : e \in Entries(s) \/ (e.nextChatName = x /\ e.chatName = x)
         /\ (t = s /\ Used(s) = Slot) \/ (Names(t) = Names(s) \cup {x} /\ x \in HopsOneAway(t))
<1> DEFINE m == LoginRow(x)
<1>1. /\ LoginEntry(x) \in Routes /\ LoginEntry(x).nextChatName = x
      /\ LoginEntry(x).chatName = x /\ LoginEntry(x).hopCount = 0
  BY DEF LoginEntry, Routes
<1>2. /\ m \in Seq(Routes) /\ Len(m) = 1 /\ \A k \in DOMAIN m : m[k] = LoginEntry(x)
      /\ 1 \in DOMAIN m
  <2>1. m = <<LoginEntry(x)>>
    BY DEF LoginRow, LoginEntry
  <2> HIDE DEF m
  <2> QED BY <1>1, <2>1
<1> HIDE DEF m
<1>3. Told(m, x, n)
  BY <1>1, <1>2 DEF Told
<1>4. Sound(t, n) /\ Stems(t, s, m)
  BY <1>2, <1>3, UpdateStems DEF m
<1>5. HopsOneAway(t) \subseteq HopsOneAway(s) \cup {x}
  BY <1>3, <1>4, UpdateNeighbours
<1>6. ASSUME NEW e \in Entries(t)
      PROVE  e \in Entries(s) \/ (e.nextChatName = x /\ e.chatName = x)
  <2>1. PICK i \in Slot : e = t.slots[i] /\ e # Null
    BY DEF Entries, Used
  <2>2. CASE e = s.slots[i]
    <3>1. s.slots[i] \in Entries(s)
      BY <2>1, <2>2 DEF Entries, Used
    <3> QED BY <2>2, <3>1
  <2>3. CASE e # s.slots[i]
    <3>1. PICK k \in DOMAIN m : e = Farther(m[k])
      BY <1>4, <2>1, <2>3 DEF Stems
    <3>2. e = Farther(LoginEntry(x))
      BY <1>2, <3>1
    <3> QED BY <1>1, <3>2 DEF Farther
  <2> QED BY <2>2, <2>3
<1>7. (t = s /\ Used(s) = Slot) \/ Learned(t, s, m, Names(s) \cup {x})
  BY LoginLearns DEF m
<1>8. CASE t = s /\ Used(s) = Slot
  BY <1>4, <1>5, <1>6, <1>8 DEF Grown
<1>9. CASE Learned(t, s, m, Names(s) \cup {x})
  <2>1. Within(t, x, 1)
    <3>1. m[1].chatName = x /\ m[1].hopCount + 1 = 1
      BY <1>1, <1>2
    <3> QED BY <1>2, <1>9, <3>1 DEF Learned
  <2>2. x \in HopsOneAway(t)
    BY <1>4, <2>1, NearFacts
  <2> QED BY <1>4, <1>5, <1>6, <1>9, <2>2 DEF Learned, Grown
<1> QED BY <1>7, <1>8, <1>9

\* The LOGIN is read: from now on the news spread.
LEMMA LoginKnowing ==
  ASSUME IInv, Agreed(Node), Mutual, NEW n \in Node, NEW x \in Node \ {n}, Asking(x, n),
         NEW t, Grows(n, t), HopsOneAway(t) \subseteq HopsOneAway(table[n]) \cup {x},
         t = table[n] \/ (Names(t) = Names(table[n]) \cup {x} /\ x \in HopsOneAway(t)),
         Names(table[n]) \subseteq On
  PROVE  Knowing(Names(t), n)'
<1> DEFINE D == Names(t)
           C == Names(table[n])
<1>1. /\ table'[n] = t /\ \A k \in Node \ {n} : table'[k] = table[k]
      /\ \A k \in Node : Sound(table[k], k)
      /\ \A k \in Node : HopsOneAway(table[k]) \subseteq HopsOneAway(table'[k])
      /\ On' = On
  BY GrowsFacts
<1>2. n \in C /\ C \subseteq D
  BY <1>1, EntryFacts
<1>3. Names(table[x]) = {x} /\ x \in On /\ \A y \in Node \ {x} : x \notin Names(table[y])
  BY DEF Asking
<1>4. \A y \in C : Names(table[y]) = C
  BY DEF Agreed
<1>5. \A y \in D : y \in C \/ (y = x /\ x \in HopsOneAway(t))
  OBVIOUS
<1>6. C \subseteq On /\ D \subseteq On /\ On \subseteq Node
  BY <1>3, <1>5 DEF On
<1>7. \A y \in Node : y \in Names(table[y])
  BY <1>1, EntryFacts
<1>8. Names(table'[n]) = D
  BY <1>1
<1> HIDE DEF D, C
<1>9. Agreed(Node \ D)'
  <2> SUFFICES ASSUME NEW w \in Node \ D
               PROVE  /\ Names(table'[w]) \subseteq Node \ D
                      /\ \A z \in Names(table'[w]) : Names(table'[z]) = Names(table'[w])
    BY DEF Agreed
  <2>1. table'[w] = table[w] /\ w # n
    BY <1>1, <1>2
  <2>2. /\ Names(table[w]) \subseteq Node
        /\ \A z \in Names(table[w]) : Names(table[z]) = Names(table[w])
    BY DEF Agreed
  <2>3. \A z \in Names(table[w]) : z \notin D
    <3> SUFFICES ASSUME NEW z \in Names(table[w]), z \in D PROVE FALSE
      OBVIOUS
    <3>1. CASE z \in C
      <4>1. Names(table[w]) = C
        BY <1>4, <2>2, <3>1
      <4> QED BY <1>2, <1>7, <4>1
    <3>2. CASE z = x
      BY <1>3, <3>2
    <3> QED BY <1>5, <3>1, <3>2
  <2>4. \A z \in Names(table[w]) : table'[z] = table[z]
    BY <1>1, <1>2, <2>2, <2>3
  <2> QED BY <2>1, <2>2, <2>3, <2>4
<1>10. \A y \in D : Names(table'[y]) \subseteq D
  <2> SUFFICES ASSUME NEW y \in D PROVE Names(table'[y]) \subseteq D
    OBVIOUS
  <2>1. CASE y = n
    BY <1>8, <2>1
  <2>2. CASE y # n
    <3>1. table'[y] = table[y]
      BY <1>1, <1>6, <2>2
    <3>2. CASE y \in C
      BY <1>2, <1>4, <3>1, <3>2
    <3>3. CASE y = x
      BY <1>3, <3>1, <3>3
    <3> QED BY <1>5, <3>2, <3>3
  <2> QED BY <2>1, <2>2
<1>11. \A y \in D : Names(table'[y]) # D => n \in Names(table'[y]) \/ y \in HopsOneAway(table'[n])
  <2> SUFFICES ASSUME NEW y \in D, Names(table'[y]) # D
               PROVE  n \in Names(table'[y]) \/ y \in HopsOneAway(table'[n])
    OBVIOUS
  <2>1. CASE y \in C
    <3>1. y # n /\ table'[y] = table[y]
      BY <1>1, <1>6, <1>8
    <3> QED BY <1>2, <1>4, <2>1, <3>1
  <2>2. CASE y = x /\ x \in HopsOneAway(t)
    BY <1>1, <2>2
  <2> QED BY <1>5, <2>1, <2>2
<1>12. ASSUME NEW a \in Node, NEW b \in Node, b \in HopsOneAway(table'[a])
       PROVE  a \in HopsOneAway(table'[b]) \/ (a = n /\ Names(table'[b]) = {b})
  <2>1. CASE b \in HopsOneAway(table[a])
    BY <1>1, <2>1 DEF Mutual
  <2>2. CASE b \notin HopsOneAway(table[a])
    <3>1. a = n /\ b = x
      BY <1>1, <1>12, <2>2
    <3> QED BY <1>1, <1>3, <3>1
  <2> QED BY <2>1, <2>2
<1>13. D \subseteq On'
  BY <1>1, <1>6
<1>14. Knowing(D, n)'
  BY <1>2, <1>8, <1>9, <1>10, <1>11, <1>12, <1>13 DEF Knowing
<1> QED BY <1>14 DEF D

\* What the LOGIN of x makes of the table of n when nothing else goes on.
Asked(n, x, t) ==
  /\ Reads(n, x, "LOGIN") /\ t \in TableUpdate(table[n], LoginRow(x))
  /\ chan' = Post(SendRoute(Read(n, x), n, t, NoName), n, {GetRouting(t, x)},
                  [type |-> "HEART", from |-> n])
  /\ Grows(n, t) /\ Aligned(t)
  /\ HopsOneAway(t) \subseteq HopsOneAway(table[n]) \cup {x}
  /\ \A e \in Entries(t) : e \in Entries(table[n]) \/ (e.nextChatName = x /\ e.chatName = x)
  /\ \/ t = table[n] /\ Used(t) = Slot
     \/ Names(t) = Names(table[n]) \cup {x} /\ x \in HopsOneAway(t)

LEMMA LoginHeard ==
  ASSUME IInv, NEW n \in Node, NEW x \in Node \ {n}, Aligned(table[n]), Asking(x, n), MsgLogin(n, x)
  PROVE  \E t : Asked(n, x, t)
<1>1. PICK t \in TableUpdate(table[n], LoginRow(x)) :
        /\ table' = [table EXCEPT ![n] = t]
        /\ chan' = Post(SendRoute(Read(n, x), n, t, NoName), n, {GetRouting(t, x)},
                        [type |-> "HEART", from |-> n])
  BY DEF MsgLogin
<1>2. Reads(n, x, "LOGIN") /\ state' = state
  BY DEF MsgLogin
<1>3. \A k \in Node : Sound(table[k], k)
  BY DEF IInv
<1>4. x \notin Names(table[n])
  BY DEF Asking
<1>5. /\ Sound(t, n) /\ Grown(t, table[n]) /\ Aligned(t)
      /\ HopsOneAway(t) \subseteq HopsOneAway(table[n]) \cup {x}
      /\ \A e \in Entries(t) : e \in Entries(table[n]) \/ (e.nextChatName = x /\ e.chatName = x)
      /\ (t = table[n] /\ Used(t) = Slot) \/ (Names(t) = Names(table[n]) \cup {x} /\ x \in HopsOneAway(t))
  BY <1>1, <1>3, <1>4, LoginGrows
<1>6. Grows(n, t)
  BY <1>1, <1>2, <1>5 DEF Grows
<1> QED BY <1>1, <1>2, <1>5, <1>6 DEF Asked

LEMMA LoginSpreads ==
  ASSUME IInv, Fresh, \A k \in Node : state[k] # "stopped", Agreed(Node), Mutual, Down,
         NEW n \in Node, NEW x \in Node \ {n}, Aligned(table[n]), Asking(x, n), MsgLogin(n, x)
  PROVE  /\ \E D \in SUBSET Node : \E y \in D : Spreading(D, y)'
         /\ Down' /\ Aligned(table'[n]) /\ \A k \in Node \ {n} : table'[k] = table[k]
<1>1. PICK t : Asked(n, x, t)
  BY LoginHeard
<1>2. /\ chan' = Post(SendRoute(Read(n, x), n, t, NoName), n, {GetRouting(t, x)},
                      [type |-> "HEART", from |-> n])
      /\ Reads(n, x, "LOGIN") /\ state' = state
  BY <1>1 DEF Asked, Grows
<1>3. \A k \in Node : Sound(table[k], k)
  BY DEF IInv
<1>4. x \notin Names(table[n]) /\ Names(table[x]) = {x} /\ \A y \in Node \ {x} : x \notin Names(table[y])
  BY DEF Asking
<1>5. /\ Sound(t, n) /\ Grown(t, table[n]) /\ Aligned(t)
      /\ HopsOneAway(t) \subseteq HopsOneAway(table[n]) \cup {x}
      /\ \A e \in Entries(t) : e \in Entries(table[n]) \/ (e.nextChatName = x /\ e.chatName = x)
      /\ t = table[n] \/ (Names(t) = Names(table[n]) \cup {x} /\ x \in HopsOneAway(t))
  BY <1>1 DEF Asked, Grows
<1>6. Grows(n, t)
  BY <1>1 DEF Asked
<1>7. /\ table'[n] = t /\ \A k \in Node \ {n} : table'[k] = table[k]
      /\ \A k \in Node : Sound(table'[k], k)
      /\ \A k \in Node : HopsOneAway(table[k]) \subseteq Names(table[k])
  BY <1>6, GrowsFacts
<1>8. Names(table[n]) \subseteq On
  <2>1. n \in On
    BY DEF Asking
  <2> QED BY <2>1, NamesRun
<1>9. Knowing(Names(t), n)'
  BY <1>5, <1>6, <1>8, LoginKnowing
<1>10. Down'
  <2>1. CASE t = table[n]
    <3>1. table' = table
      BY <1>6, <2>1 DEF IInv, Grows
    <3> QED BY <3>1 DEF Down
  <2>2. CASE x \in HopsOneAway(t)
    BY <1>5, <1>6, <2>2, DownGrows
  <2> QED BY <1>5, <2>1, <2>2
<1> DEFINE D == Names(t)
           A == NewsMail(D, table')
           q == Read(n, x)
           r == SendRoute(q, n, t, NoName)
           m == [type |-> "HEART", from |-> n]
           dests == {GetRouting(t, x)}
<1>11. D \in SUBSET Node /\ D \in SUBSET On /\ n \in D /\ Names(table'[n]) = D
  <2>1. D \subseteq On'
    BY <1>9 DEF Knowing
  <2>2. On' = On
    BY <1>2 DEF On
  <2>3. n \in D
    BY <1>5, EntryFacts
  <2> QED BY <1>7, <2>1, <2>2, <2>3 DEF On
<1>12. Queues(q) /\ q \in [Link -> Seq(Message)]
  BY <1>2, ReadQueues DEF IInv, Queues
<1>13. q[<<x, n>>] = <<>> /\ \A l \in Link : l # <<x, n>> => q[l] = chan[l]
  <2>1. chan[<<x, n>>] = <<LoginMessage(x)>>
    BY DEF Asking
  <2>2. chan \in [Link -> Seq(Message)] /\ <<x, n>> \in Link
    BY LinkFacts DEF IInv, Queues
  <2>3. Tail(<<LoginMessage(x)>>) = <<>>
    OBVIOUS
  <2>4. q[<<x, n>>] = Tail(chan[<<x, n>>]) /\ \A l \in Link : l # <<x, n>> => q[l] = chan[l]
    BY <2>2 DEF Read
  <2> HIDE DEF q
  <2> QED BY <2>1, <2>2, <2>3, <2>4
<1>14. Carries(q, A)
  <2>1. \A l \in Link : l # <<x, n>> => \A k \in DOMAIN chan[l] : chan[l][k] \in Beats
    BY DEF Asking, Carries, AskMail
  <2>2. \A l \in Link : Beats \subseteq A[l]
    BY BeatsAreNews
  <2> HIDE DEF A, q
  <2> QED BY <1>13, <2>1, <2>2 DEF Carries
<1>15. Carries(r, A)
  <2>1. \A z \in HopsOneAway(t) \ {NoName} : RouteOf(n, t) \in A[<<n, z>>]
    BY <1>7, <1>11, RouteNews
  <2> HIDE DEF A, q
  <2> QED BY <1>5, <1>12, <1>14, <2>1, RouteCarries
<1>16. Telling(D, r, table')
  <2>1. ASSUME NEW u \in D \ {n}, NEW v \in HopsOneAway(table'[u]),
               Names(table'[u]) = D, Names(table'[v]) # D
        PROVE  FALSE
    <3>1. u \in Node /\ table'[u] = table[u]
      BY <1>7, <1>11
    <3>2. CASE t = table[n]
      <4>1. v \in Names(table[u])
        BY <1>7, <2>1, <3>1
      <4>2. Names(table[v]) = D /\ v \in Node
        BY <2>1, <3>1, <4>1 DEF Agreed
      <4>3. table'[v] = table[v]
        BY <1>7, <3>2, <4>2
      <4> QED BY <2>1, <4>2, <4>3
    <3>3. CASE Names(t) = Names(table[n]) \cup {x}
      <4>1. x \in Names(table[u])
        BY <2>1, <3>1, <3>3
      <4>2. u = x
        BY <1>4, <3>1, <4>1
      <4> QED BY <1>4, <1>11, <2>1, <3>1, <4>2
    <3> QED BY <1>5, <3>2, <3>3
  <2>2. NoName \in Node => Names(table'[NoName]) = D
    BY NodesAssumption
  <2> HIDE DEF D, q
  <2>3. Telling(D, SendRoute(q, n, table'[n], NoName), table')
    BY <1>7, <1>11, <1>12, <2>1, <2>2, TellingSent
  <2> QED BY <1>7, <2>3
<1>17. r \in [Link -> Seq(Message)]
  <2> HIDE DEF q
  <2>1. Queues(SendRoute(q, n, t, NoName))
    BY <1>5, <1>12, RouteQueues
  <2> QED BY <2>1 DEF Queues
<1>18. m \in Message
  BY DEF Message
<1>19. \A z \in dests \cap On : z # n => m \in A[<<n, z>>]
  BY PlainNews DEF On
<1>20. Carries(Post(r, n, dests, m), A)
  <2> HIDE DEF A, r, m, dests
  <2> QED BY <1>15, <1>17, <1>18, <1>19, PostCarries
<1>21. Telling(D, Post(r, n, dests, m), table')
  <2> HIDE DEF D, r, m, dests
  <2> QED BY <1>7, <1>11, <1>16, <1>17, <1>18, TellingPost
<1>22. Carries(chan', A) /\ Telling(D, chan', table')
  BY <1>2, <1>20, <1>21
<1>23. Spreading(D, n)'
  BY <1>9, <1>22 DEF Spreading
<1> QED BY <1>5, <1>7, <1>10, <1>11, <1>23

-----------------------------------------------------------------------------
\* At rest everybody in D has heard of all of D.
LEMMA RestKnows ==
  ASSUME IInv, NEW D \in SUBSET Node, NEW x \in D, Knowing(D, x), Telling(D, chan, table), Down,
         \A l \in Link : chan[l] = <<>>
  PROVE  \A y \in D : Names(table[y]) = D
<1>1. \A k \in Node : Sound(table[k], k)
  BY DEF IInv
<1>2. ASSUME NEW u \in D, NEW y \in HopsOneAway(table[u]), Names(table[u]) = D
      PROVE  Names(table[y]) = D
  <2>1. u \in Node /\ y \in Node \ {u}
    BY <1>1, NeighbourFacts
  <2>2. chan[<<u, y>>] = <<>>
    BY <2>1, LinkFacts
  <2>3. ~Tells(chan, u, y)
    BY <2>2 DEF Tells
  <2> QED BY <1>2, <2>3 DEF Telling
<1>3. ASSUME NEW y \in D, NEW w \in HopsOneAway(table[y]), Names(table[w]) = D
      PROVE  Names(table[y]) = D
  <2>1. w \in D /\ y \in Node /\ w \in Node
    <3>1. w \in Names(table[y])
      BY <1>1, NearFacts
    <3> QED BY <3>1 DEF Knowing
  <2>2. y \in HopsOneAway(table[w]) \/ y = x
    BY <2>1 DEF Knowing
  <2>3. CASE y \in HopsOneAway(table[w])
    BY <1>2, <1>3, <2>1, <2>3
  <2>4. CASE y = x
    BY <2>4 DEF Knowing
  <2> QED BY <2>2, <2>3, <2>4
<1> DEFINE Good(h) == \A y \in D : Within(table[y], x, h) => Names(table[y]) = D
           S == {h \in Nat : Good(h)}
<1>4. \A y \in D : \A e \in Entries(table[y]) :
        e.chatName = x => e.hopCount \in Nat /\ (y # x => e.hopCount > 0)
  <2> SUFFICES ASSUME NEW y \in D, NEW e \in Entries(table[y]), e.chatName = x
               PROVE  e.hopCount \in Nat /\ (y # x => e.hopCount > 0)
    OBVIOUS
  <2>1. e \in Routes /\ (e.chatName # y => Foreign(e, y))
    BY <1>1, EntryFacts
  <2> QED BY <2>1 DEF Routes, Foreign
<1>5. 0 \in S
  <2> SUFFICES ASSUME NEW y \in D, Within(table[y], x, 0) PROVE Names(table[y]) = D
    OBVIOUS
  <2>1. PICK e \in Entries(table[y]) : e.chatName = x /\ e.hopCount <= 0
    BY DEF Within
  <2>2. y = x
    BY <1>4, <2>1
  <2> QED BY <2>2 DEF Knowing
<1>6. \A h \in S : h + 1 \in S
  <2> SUFFICES ASSUME NEW h \in Nat, Good(h), NEW y \in D, Within(table[y], x, h + 1)
               PROVE  Names(table[y]) = D
    OBVIOUS
  <2>1. PICK e \in Entries(table[y]) : e.chatName = x /\ e.hopCount <= h + 1
    BY DEF Within
  <2>2. CASE y = x
    BY <2>2 DEF Knowing
  <2>3. CASE y # x
    <3> DEFINE w == e.nextChatName
    <3>1. w \in HopsOneAway(table[y]) /\ (w # x => Within(table[w], x, e.hopCount - 1))
      BY <2>1, <2>3 DEF Down
    <3>2. w \in D
      <4>1. w \in Names(table[y])
        BY <1>1, <3>1, NearFacts
      <4> QED BY <4>1 DEF Knowing
    <3> HIDE DEF w
    <3>3. Names(table[w]) = D
      <4>1. CASE w = x
        BY <4>1 DEF Knowing
      <4>2. CASE w # x
        <5>1. PICK f \in Entries(table[w]) : f.chatName = x /\ f.hopCount <= e.hopCount - 1
          BY <3>1, <4>2 DEF Within
        <5>2. f.hopCount \in Nat /\ e.hopCount \in Nat
          BY <1>4, <2>1, <3>2, <5>1
        <5>3. f.hopCount <= h
          BY <2>1, <5>1, <5>2
        <5>4. Within(table[w], x, h)
          BY <5>1, <5>3 DEF Within
        <5> QED BY <3>2, <5>4
      <4> QED BY <4>1, <4>2
    <3> QED BY <1>3, <3>1, <3>3
  <2> QED BY <2>2, <2>3
<1>7. S = Nat
  <2> HIDE DEF S
  <2>1. S \in SUBSET Nat
    BY DEF S
  <2> QED BY <1>5, <1>6, <2>1, Induction
<1>8. ASSUME NEW y \in D, x \in Names(table[y]) PROVE Names(table[y]) = D
  <2>1. PICK e \in Entries(table[y]) : e.chatName = x
    BY <1>8 DEF Names
  <2>2. e.hopCount \in Nat
    BY <1>4, <2>1
  <2>3. Within(table[y], x, e.hopCount)
    BY <2>1, <2>2 DEF Within
  <2> QED BY <1>7, <2>2, <2>3
<1>9. ASSUME NEW y \in D, y \in HopsOneAway(table[x]) PROVE Names(table[y]) = D
  BY <1>2, <1>9 DEF Knowing
<1> QED BY <1>8, <1>9 DEF Knowing

LEMMA RestAgrees ==
  ASSUME IInv, NEW D \in SUBSET Node, NEW x \in D, Spreading(D, x), Down, Rest
  PROVE  Agreed(Node) /\ Mutual
<1>1. Knowing(D, x) /\ Telling(D, chan, table) /\ \A l \in Link : chan[l] = <<>>
  BY DEF Spreading, Rest
<1>2. \A y \in D : Names(table[y]) = D
  BY <1>1, RestKnows
<1>3. Agreed(Node)
  <2>1. Agreed(Node \ D)
    BY <1>1 DEF Knowing
  <2> QED BY <1>2, <2>1 DEF Agreed
<1>4. ASSUME NEW y \in Node, NEW z \in HopsOneAway(table[y]) PROVE y \in HopsOneAway(table[z])
  <2>1. z \in Node \ {y} /\ z \in Names(table[y])
    BY NeighbourFacts, NearFacts DEF IInv
  <2>2. y \in HopsOneAway(table[z]) \/ (y = x /\ Names(table[z]) = {z})
    BY <1>1, <2>1 DEF Knowing
  <2>3. CASE y = x /\ Names(table[z]) = {z}
    <3>1. z \in D
      BY <1>2, <2>1, <2>3
    <3>2. Names(table[z]) = D
      BY <1>2, <3>1
    <3> QED BY <2>1, <2>3, <3>2
  <2> QED BY <2>2, <2>3
<1>5. Mutual
  BY <1>4, NeighbourFacts DEF Mutual, IInv
<1> QED BY <1>3, <1>5

-----------------------------------------------------------------------------
\* What goes down N times has been at N + 1 places.
LEMMA Descends ==
  ASSUME NEW N \in Nat, NEW g,
         \A k \in Nat : k < N => g[k] \in Nat /\ g[k + 1] \in Nat /\ g[k + 1] < g[k]
  PROVE  \A a, b \in 0 .. N : a < b => g[a] # g[b]
<1> DEFINE Good(k) == \A a \in Nat : a < k => g[k] < g[a]
           S == {k \in Nat : k <= N => Good(k)}
<1>1. 0 \in S
  OBVIOUS
<1>2. \A k \in S : k + 1 \in S
  <2> SUFFICES ASSUME NEW k \in Nat, k <= N => Good(k), k + 1 <= N, NEW a \in Nat, a < k + 1
               PROVE  g[k + 1] < g[a]
    OBVIOUS
  <2>1. k < N /\ k <= N
    OBVIOUS
  <2>2. g[k] \in Nat /\ g[k + 1] \in Nat /\ g[k + 1] < g[k]
    BY <2>1
  <2>3. CASE a = k
    BY <2>2, <2>3
  <2>4. CASE a < k
    <3>1. g[k] < g[a]
      BY <2>1, <2>4
    <3>2. g[a] \in Nat
      BY <2>1, <2>4
    <3> QED BY <2>2, <3>1, <3>2
  <2> QED BY <2>3, <2>4
<1>3. S = Nat
  <2> HIDE DEF S
  <2>1. S \in SUBSET Nat
    BY DEF S
  <2> QED BY <1>1, <1>2, <2>1, Induction
<1> SUFFICES ASSUME NEW a \in 0 .. N, NEW b \in 0 .. N, a < b PROVE g[a] # g[b]
  OBVIOUS
<1>4. b \in Nat /\ a \in Nat /\ b <= N /\ a < N
  OBVIOUS
<1>5. g[b] < g[a]
  BY <1>3, <1>4
<1>6. g[a] \in Nat
  BY <1>4
<1> QED BY <1>5, <1>6

\* One hop of a message for x that is at v.
HopTo(v, x) == IF v \in On \ {x} THEN GetRouting(table[v], x) ELSE v

\* Where the message is after each hop.
Handed(f, n, x, N) ==
  f = [k \in 0 .. N |-> IF k = 0 THEN n
                       ELSE IF f[k - 1] \in On \ {x} THEN GetRouting(table[f[k - 1]], x)
                       ELSE f[k - 1]]

LEMMA TargetExists ==
  ASSUME NEW n, NEW x, NEW N \in Nat
  PROVE  \E f : Handed(f, n, x, N)
<1> DEFINE Good(f, k) == f = [j \in 0 .. k |-> IF j = 0 THEN n ELSE HopTo(f[j - 1], x)]
           S == {k \in Nat : \E f : Good(f, k)}
<1> HIDE DEF Good
<1>1. 0 \in S
  <2> DEFINE f == [j \in 0 .. 0 |-> n]
  <2>1. \A j \in 0 .. 0 : f[j] = IF j = 0 THEN n ELSE HopTo(f[j - 1], x)
    OBVIOUS
  <2>2. Good(f, 0)
    BY <2>1 DEF Good
  <2> QED BY <2>2
<1>2. \A k \in S : k + 1 \in S
  <2> SUFFICES ASSUME NEW k \in Nat, NEW f, Good(f, k) PROVE \E g : Good(g, k + 1)
    OBVIOUS
  <2>1. \A j \in 0 .. k : f[j] = IF j = 0 THEN n ELSE HopTo(f[j - 1], x)
    BY DEF Good
  <2> DEFINE g == [j \in 0 .. k + 1 |-> IF j = k + 1 THEN HopTo(f[k], x) ELSE f[j]]
  <2>2. ASSUME NEW j \in 0 .. k + 1
        PROVE  g[j] = IF j = 0 THEN n ELSE HopTo(g[j - 1], x)
    <3>1. CASE j = k + 1
      <4>1. g[j] = HopTo(f[k], x) /\ g[j - 1] = f[k] /\ j # 0
        BY <3>1
      <4> QED BY <4>1
    <3>2. CASE j \in 0 .. k
      <4>1. g[j] = f[j] /\ (j # 0 => g[j - 1] = f[j - 1])
        BY <3>2
      <4> QED BY <2>1, <3>2, <4>1
    <3> QED BY <3>1, <3>2
  <2>3. Good(g, k + 1)
    <3> DEFINE G == [j \in 0 .. k + 1 |-> IF j = 0 THEN n ELSE HopTo(g[j - 1], x)]
    <3>1. g = G
      BY <2>2
    <3> QED BY <3>1, Zenon DEF Good
  <2> QED BY <2>3
<1>3. S = Nat
  <2> HIDE DEF S
  <2>1. S \in SUBSET Nat
    BY DEF S
  <2> QED BY <1>1, <1>2, <2>1, Induction
<1>4. N \in S
  BY <1>3
<1> QED BY <1>4 DEF Handed, HopTo, Good

LEMMA TargetUnrolled ==
  ASSUME NEW n, NEW x, Cardinality(Node) \in Nat
  PROVE  \E f : /\ Target(n, x) = f[Cardinality(Node)]
                /\ f[0] = n
                /\ \A k \in 1 .. Cardinality(Node) : f[k] = HopTo(f[k - 1], x)
<1> DEFINE N == Cardinality(Node)
           f == CHOOSE g : Handed(g, n, x, N)
<1>1. Target(n, x) = f[N]
  BY Zenon DEF Target, Handed
<1>2. Handed(f, n, x, N)
  BY TargetExists, Zenon
<1> HIDE DEF f
<1>3. f = [k \in 0 .. N |-> IF k = 0 THEN n ELSE HopTo(f[k - 1], x)]
  BY <1>2 DEF Handed, HopTo
<1> HIDE DEF N
<1>4. f[0] = n /\ \A k \in 1 .. N : f[k] = HopTo(f[k - 1], x)
  BY <1>3 DEF N
<1> QED BY <1>1, <1>4 DEF N

\* A message that goes down comes to a halt.
LEMMA NoCircle ==
  ASSUME IInv, Down, NEW n \in Node, NEW x \in Node \ {n}
  PROVE  Target(n, x) \notin On \ {x}
<1> DEFINE N == Cardinality(Node)
           Way == On \ {x}
<1>1. N \in Nat
  BY FiniteAssumption, FS_CardinalityType
<1>2. PICK f : /\ Target(n, x) = f[N]
               /\ f[0] = n
               /\ \A k \in 1 .. N : f[k] = HopTo(f[k - 1], x)
  BY <1>1, TargetUnrolled
<1> SUFFICES ASSUME f[N] \in Way PROVE FALSE
  BY <1>2
<1>3. \A k \in Nat : k < N => f[k + 1] = HopTo(f[k], x)
  <2> SUFFICES ASSUME NEW k \in Nat, k < N PROVE f[k + 1] = HopTo(f[k], x)
    OBVIOUS
  <2>1. k + 1 \in 1 .. N /\ k + 1 - 1 = k
    BY <1>1
  <2> QED BY <1>2, <2>1
<1>4. ASSUME NEW i \in 0 .. N
      PROVE  f[i] \in Way
  <2> SUFFICES ASSUME f[i] \notin Way PROVE FALSE
    OBVIOUS
  <2> DEFINE S == {k \in Nat : i <= k /\ k <= N => f[k] = f[i]}
  <2>1. 0 \in S
    OBVIOUS
  <2>2. \A k \in S : k + 1 \in S
    <3> SUFFICES ASSUME NEW k \in Nat, i <= k /\ k <= N => f[k] = f[i], i <= k + 1, k + 1 <= N
                 PROVE  f[k + 1] = f[i]
      OBVIOUS
    <3>1. CASE i = k + 1
      BY <3>1
    <3>2. CASE i <= k
      <4>1. k < N /\ f[k] = f[i]
        BY <1>1, <3>2
      <4> QED BY <1>3, <4>1 DEF HopTo
    <3> QED BY <3>1, <3>2
  <2>3. S = Nat
    <3> HIDE DEF S
    <3>1. S \in SUBSET Nat
      BY DEF S
    <3> QED BY <2>1, <2>2, <3>1, Induction
  <2>4. f[N] = f[i]
    BY <1>1, <2>3
  <2> QED BY <2>4
<1> DEFINE d(v) == CHOOSE h : \E e \in Entries(table[v]) : e.chatName = x /\ e.hopCount = h
           g == [k \in Nat |-> d(f[k])]
<1>5. ASSUME NEW v \in Node, NEW e \in Entries(table[v]), e.chatName = x
      PROVE  d(v) = e.hopCount /\ e.hopCount \in Nat
  <2>1. /\ \A a, b \in Entries(table[v]) : a.chatName = b.chatName => a = b
        /\ e \in Routes
    BY EntryFacts DEF IInv
  <2>2. \E a \in Entries(table[v]) : a.chatName = x /\ a.hopCount = d(v)
    BY <1>5
  <2> QED BY <1>5, <2>1, <2>2 DEF Routes
<1> HIDE DEF d
<1>6. ASSUME NEW k \in Nat, k < N
      PROVE  g[k] \in Nat /\ g[k + 1] \in Nat /\ g[k + 1] < g[k]
  <2> DEFINE v == f[k]
             w == f[k + 1]
  <2>1. v \in On \ {x} /\ w \in On \ {x}
    BY <1>1, <1>4, <1>6
  <2>2. w = GetRouting(table[v], x)
    BY <1>3, <1>6, <2>1 DEF HopTo
  <2> HIDE DEF v, w
  <2>3. v \in Node /\ w \in Node /\ w # NoName
    BY <2>1, NodesAssumption DEF On
  <2>4. PICK e \in Entries(table[v]) : e.chatName = x /\ e.nextChatName = w
    BY <2>2, <2>3, RoutingEntry DEF IInv
  <2>5. Within(table[w], x, e.hopCount - 1)
    BY <2>1, <2>3, <2>4 DEF Down
  <2>6. PICK a \in Entries(table[w]) : a.chatName = x /\ a.hopCount <= e.hopCount - 1
    BY <2>5 DEF Within
  <2>7. d(v) = e.hopCount /\ d(w) = a.hopCount /\ e.hopCount \in Nat /\ a.hopCount \in Nat
    BY <1>5, <2>3, <2>4, <2>6
  <2>8. d(v) \in Nat /\ d(w) \in Nat /\ d(w) < d(v)
    BY <2>6, <2>7
  <2>9. g[k] = d(v) /\ g[k + 1] = d(w)
    BY DEF v, w
  <2> QED BY <2>8, <2>9
<1>7. \A a, b \in 0 .. N : a < b => f[a] # f[b]
  <2>1. \A a, b \in 0 .. N : a < b => g[a] # g[b]
    <3> HIDE DEF g, N
    <3> QED BY <1>1, <1>6, Descends
  <2> QED BY <2>1
<1>8. IsFiniteSet(0 .. N) /\ Cardinality(Node) < Cardinality(0 .. N)
  <2> HIDE DEF N
  <2>1. 0 \in Int /\ N \in Int /\ ~(0 > N) /\ N - 0 + 1 = N + 1
    BY <1>1
  <2>2. IsFiniteSet(0 .. N) /\ Cardinality(0 .. N) = N + 1
    BY <2>1, FS_Interval
  <2> QED BY <1>1, <2>2 DEF N
<1>9. \E a, b \in 0 .. N : a # b /\ f[a] = f[b]
  <2> DEFINE A == 0 .. N
             h == [k \in A |-> f[k]]
  <2>1. \A k \in A : f[k] \in Node
    BY <1>4 DEF On
  <2> HIDE DEF A
  <2>2. h \in [A -> Node]
    BY <2>1
  <2>3. IsFiniteSet(A) /\ Cardinality(Node) < Cardinality(A)
    BY <1>8 DEF A
  <2>4. \A k \in A : h[k] = f[k]
    OBVIOUS
  <2> HIDE DEF h
  <2>5. \E a, b \in A : a # b /\ h[a] = h[b]
    BY <2>2, <2>3, FiniteAssumption, FS_PigeonHole
  <2> QED BY <2>4, <2>5 DEF A
<1>10. \A a, b \in 0 .. N : a # b => a < b \/ b < a
  BY <1>1
<1> QED BY <1>7, <1>9, <1>10

-----------------------------------------------------------------------------
LEMMA InitNames ==
  ASSUME NEW n \in Node
  PROVE  /\ Entries(InitTable(n)) = {[chatName |-> n, nextChatName |-> n, hopCount |-> 0]}
         /\ Names(InitTable(n)) = {n} /\ Aligned(InitTable(n))
<1> DEFINE own == [chatName |-> n, nextChatName |-> n, hopCount |-> 0]
           t == InitTable(n)
<1>1. t.slots[0] = own
  BY InitSound DEF Sound
<1>2. Used(t) = {0}
  BY InitTableFacts
<1>3. \A i \in Slot : /\ t.slots[i].chatName = IF i = 0 THEN n ELSE NoName
                      /\ t.records[i].chatName = IF i = 0 THEN n ELSE NoName
  <2>1. \A i \in Slot : i # 0 => t.slots[i] = Null
    BY DEF InitTable
  <2>2. \A i \in Slot : t.records[i].chatName = IF i = 0 THEN n ELSE NoName
    BY DEF InitTable
  <2> HIDE DEF t
  <2> QED BY <1>1, <2>1, <2>2, NullFacts
<1> HIDE DEF t
<1>4. Entries(t) = {own}
  BY <1>1, <1>2 DEF Entries
<1>5. Names(t) = {n}
  BY <1>4 DEF Names
<1>6. Aligned(t)
  BY <1>3 DEF Aligned
<1> QED BY <1>4, <1>5, <1>6 DEF t

LEMMA InitLoop == Init => LoopInv
<1> SUFFICES ASSUME Init PROVE LoopInv
  OBVIOUS
<1>1. /\ \A n \in Node : table[n] = InitTable(n) /\ state[n] = "off"
      /\ \A l \in Link : chan[l] = <<>>
  BY DEF Init
<1>2. \A n \in Node : Aligned(table[n]) /\ Names(table[n]) = {n}
  BY <1>1, InitNames
<1>3. Down
  <2> SUFFICES ASSUME NEW z \in Node, NEW e \in Entries(table[z]) PROVE e.chatName = z
    BY DEF Down
  <2>1. Entries(table[z]) = {[chatName |-> z, nextChatName |-> z, hopCount |-> 0]}
    BY <1>1, InitNames
  <2> QED BY <2>1
<1>4. Agreed(Node)
  BY <1>2 DEF Agreed
<1>5. Mutual
  BY <1>1, InitTableFacts DEF Mutual
<1>6. Carries(chan, BeatMail)
  BY <1>1 DEF Carries
<1> QED BY <1>1, <1>2, <1>3, <1>4, <1>5, <1>6 DEF LoopInv, Joined, Doing, Calmed

\* At rest the next node may ask.
LEMMA StartAsks ==
  ASSUME IInv, Fresh, Joined, Calmed, Rest, NEW n \in Node, NEW to \in Node \cup {NoName}, Start(n, to)
  PROVE  /\ Joined' /\ Calmed'
         /\ IF to = NoName THEN \A l \in Link : chan'[l] = <<>> ELSE to \in On \ {n} /\ Asking(n, to)'
<1>1. /\ state[n] = "off" /\ to \in On \cup {NoName}
      /\ state' = [state EXCEPT ![n] = "on"] /\ table' = table
      /\ chan' = Post(chan, n, {to}, LoginMessage(n))
      /\ links' = links \cup {{n, m} : m \in {to} \ {NoName}}
  BY DEF Start, Joined
<1>2. On' = On \cup {n} /\ n \notin On /\ \A k \in Node : state'[k] # "stopped"
  BY <1>1 DEF On, IInv, Joined
<1>3. Joined' /\ Calmed'
  <2>1. Down'
    BY <1>1 DEF Joined, Down
  <2>2. Agreed(Node)' /\ Mutual'
    BY <1>1 DEF Calmed, Agreed, Mutual
  <2>3. \A k \in Node : Aligned(table'[k])
    BY <1>1 DEF Joined
  <2> QED BY <1>2, <2>1, <2>2, <2>3 DEF Joined, Calmed
<1>4. \A l \in Link : chan'[l] = IF l[1] = n /\ l[2] \in {to} \cap On
                                THEN Append(chan[l], LoginMessage(n)) ELSE chan[l]
  BY <1>1, PostChannel
<1>5. \A l \in Link : chan[l] = <<>>
  BY DEF Rest
<1>6. CASE to = NoName
  <2>1. to \notin On
    BY <1>6, NodesAssumption DEF On
  <2> QED BY <1>3, <1>4, <1>5, <1>6, <2>1
<1>7. CASE to # NoName
  <2>1. to \in On /\ to \in Node \ {n} /\ n \in On' /\ to \in On'
    BY <1>1, <1>2, <1>7 DEF On
  <2>2. ASSUME NEW l \in Link
        PROVE  chan'[l] = IF l = <<n, to>> THEN <<LoginMessage(n)>> ELSE <<>>
    <3>1. l = <<n, to>> <=> l[1] = n /\ l[2] \in {to} \cap On
      BY <2>1, LinkFacts
    <3>2. Append(<<>>, LoginMessage(n)) = <<LoginMessage(n)>>
      OBVIOUS
    <3> QED BY <1>4, <1>5, <3>1, <3>2
  <2>3. Names(table'[n]) = {n}
    BY <1>1, InitNames DEF Fresh
  <2>4. \A y \in Node \ {n} : n \notin Names(table'[y])
    BY <1>1, <1>2, NamesRun DEF Joined
  <2>5. chan'[<<n, to>>] = <<LoginMessage(n)>> /\ Carries(chan', AskMail(n, to))
    <3>1. <<n, to>> \in Link
      BY <2>1, LinkFacts
    <3>2. \A k \in DOMAIN <<LoginMessage(n)>> : <<LoginMessage(n)>>[k] = LoginMessage(n)
      OBVIOUS
    <3> QED BY <2>2, <3>1, <3>2 DEF Carries, AskMail
  <2>6. {n, to} \in links'
    BY <1>1, <1>7
  <2>7. Asking(n, to)'
    BY <2>1, <2>3, <2>4, <2>5, <2>6 DEF Asking
  <2> QED BY <1>3, <1>7, <2>1, <2>7
<1> QED BY <1>6, <1>7

\* What is read while k asks y: the LOGIN, or what changes nothing.
LEMMA AskingReads ==
  ASSUME IInv, NEW k \in Node, NEW y \in Node, Asking(k, y), NEW n \in Node, NEW x \in Node \ {n},
         NEW type, Reads(n, x, type)
  PROVE  IF x = k /\ n = y THEN type = "LOGIN" ELSE type \in {"HEART", "HEARTRESPONSE"}
<1>1. <<x, n>> \in Link
  BY LinkFacts
<1>2. Head(chan[<<x, n>>]) \in AskMail(k, y)[<<x, n>>] /\ Head(chan[<<x, n>>]).type = type
  BY ReadCarries DEF Asking, IInv, Reads
<1>3. CASE x = k /\ n = y
  BY <1>1, <1>2, <1>3 DEF AskMail, LoginMessage
<1>4. CASE ~(x = k /\ n = y)
  BY <1>1, <1>2, <1>4 DEF AskMail, Beats
<1> QED BY <1>3, <1>4

\* One node at a time asks.
LEMMA AsksAlone ==
  ASSUME NEW k \in Node, NEW y \in Node, Asking(k, y), NEW u \in Node, NEW v \in Node, Asking(u, v)
  PROVE  u = k /\ v = y
<1> SUFFICES ASSUME <<u, v>> # <<k, y>> PROVE FALSE
  OBVIOUS
<1>1. <<u, v>> \in Link
  BY DEF Asking, Link
<1>2. chan[<<u, v>>] = <<LoginMessage(u)>>
  BY DEF Asking
<1>3. 1 \in DOMAIN <<LoginMessage(u)>> /\ <<LoginMessage(u)>>[1] = LoginMessage(u)
  OBVIOUS
<1>4. LoginMessage(u) \in AskMail(k, y)[<<u, v>>]
  BY <1>1, <1>2, <1>3 DEF Asking, Carries
<1> QED BY <1>1, <1>4 DEF AskMail, Beats, LoginMessage

\* Who asks neither sends nor answers a HEART.
LEMMA AskingSilent ==
  ASSUME IInv, NEW k \in Node, NEW y \in Node, Asking(k, y), NEW x \in Node \ {k}, NEW q, NEW d, NEW type,
         Beaten(k, x, q, d, type), q \in [Link -> Seq(Message)]
  PROVE  chan' = q
<1>1. Names(table[k]) = {k} /\ k # y
  BY DEF Asking
<1>2. ~Greets(k, x)
  <2>1. x \notin HopsOneAway(table[k])
    BY <1>1, NearFacts DEF IInv
  <2>2. ~Reads(k, x, "LOGIN")
    BY <1>1, AskingReads
  <2> QED BY <2>1, <2>2 DEF Greets
<1>3. GetRouting(table[k], x) = NoName
  <2>1. \A e \in Entries(table[k]) : e.chatName # x
    BY <1>1 DEF Names
  <2> QED BY <2>1, RoutingEntry DEF IInv
<1>4. d \notin On
  BY <1>2, <1>3, NodesAssumption DEF Beaten, On
<1> DEFINE m == [type |-> type, from |-> k]
<1>5. Post(q, k, {d}, m) = [l \in Link |-> q[l]]
  BY <1>4 DEF Post
<1>6. [l \in Link |-> q[l]] = q
  OBVIOUS
<1> QED BY <1>5, <1>6 DEF Beaten

\* A HEART that comes or goes does not disturb who asks.
LEMMA AskingBeats ==
  ASSUME IInv, NEW k \in Node, NEW y \in Node, Asking(k, y), NEW n \in Node, NEW x \in Node \ {n}, Beat(n, x)
  PROVE  Asking(k, y)'
<1>1. UNCHANGED <<table, state, links>>
  BY BeatShape
<1>2. PICK q, d, type : Beaten(n, x, q, d, type)
  BY BeatShape
<1> DEFINE A == AskMail(k, y)
           m == [type |-> type, from |-> n]
<1>3. q \in [Link -> Seq(Message)] /\ Carries(q, A)
  BY <1>2, BeatenCarries DEF Asking
<1>4. <<k, y>> \in Link
  BY DEF Asking, Link
<1>5. q[<<k, y>>] = <<LoginMessage(k)>>
  <2>1. CASE q = chan
    BY <2>1 DEF Asking
  <2>2. CASE q = Read(n, x) /\ (Reads(n, x, "HEART") \/ Reads(n, x, "HEARTRESPONSE"))
    <3>1. <<x, n>> # <<k, y>>
      BY <2>2, AskingReads
    <3>2. chan \in [Link -> Seq(Message)]
      BY DEF IInv, Queues
    <3>3. q[<<k, y>>] = chan[<<k, y>>]
      BY <1>4, <2>2, <3>1, <3>2 DEF Read
    <3> QED BY <3>3 DEF Asking
  <2> QED BY <1>2, <2>1, <2>2 DEF Beaten
<1>6. chan'[<<k, y>>] = <<LoginMessage(k)>> /\ Carries(chan', A)
  <2>1. CASE n = k
    <3>1. chan' = q
      BY <1>2, <1>3, <2>1, AskingSilent
    <3> QED BY <1>3, <1>5, <3>1
  <2>2. CASE n # k
    <3>1. Carries(chan, A) /\ \A z \in Node \ {n} : Beats \subseteq A[<<n, z>>]
      BY <2>2, LinkFacts DEF Asking, AskMail
    <3> HIDE DEF A
    <3>2. Carries(chan', A)
      BY <3>1, BeatCarries
    <3>3. Post(q, n, {d}, m)[<<k, y>>] = q[<<k, y>>]
      BY <1>4, <2>2, PostChannel
    <3>4. chan' = q \/ chan' = Post(q, n, {d}, m)
      BY <1>2 DEF Beaten
    <3> QED BY <1>5, <3>2, <3>3, <3>4
  <2> QED BY <2>1, <2>2
<1>7. On' = On
  BY <1>1 DEF On
<1> QED BY <1>1, <1>6, <1>7 DEF Asking

LEMMA NewsReads ==
  ASSUME IInv, NEW D, NEW y, Spreading(D, y), NEW n \in Node, NEW x \in Node \ {n}, NEW type,
         Reads(n, x, type)
  PROVE  type \notin {"LOGIN", "LOGOUT"}
<1>1. Head(chan[<<x, n>>]) \in NewsMail(D, table)[<<x, n>>]
  BY ReadCarries DEF Spreading, IInv
<1>2. <<x, n>> \in Link
  BY LinkFacts
<1> QED BY <1>1, <1>2 DEF NewsMail, Reads

LEMMA NobodySilent ==
  ASSUME IInv, Fresh, Joined, NEW n \in Node, NEW x \in Node \ {n}
  PROVE  ~Timeout(n, x)
<1> SUFFICES ASSUME n \in On, x \in HopsOneAway(table[n]), x \notin On PROVE FALSE
  BY DEF Timeout, Alarm
<1>1. x \in Names(table[n])
  BY NearFacts DEF IInv
<1> QED BY <1>1, NamesRun DEF Joined

\* What there is to be read.
LEMMA DoingReads ==
  ASSUME IInv, Doing, NEW n \in Node, NEW x \in Node \ {n}, NEW type, Reads(n, x, type)
  PROVE  /\ type # "LOGOUT"
         /\ type = "LOGIN" => Calmed /\ Asking(x, n)
         /\ type = "ROUTE" => \E D \in SUBSET Node : \E y \in D : Spreading(D, y)
<1>1. CASE Carries(chan, BeatMail)
  <2>1. <<x, n>> \in Link
    BY LinkFacts
  <2>2. Head(chan[<<x, n>>]) \in BeatMail[<<x, n>>]
    BY <1>1, ReadCarries DEF IInv
  <2> QED BY <2>1, <2>2 DEF BeatMail, Beats, Reads
<1>2. ASSUME Calmed, NEW k \in Node, NEW y \in Node, Asking(k, y)
      PROVE  type \in {"HEART", "HEARTRESPONSE"} \/ (type = "LOGIN" /\ Asking(x, n))
  BY <1>2, AskingReads
<1>3. ASSUME NEW D \in SUBSET Node, NEW y \in D, Spreading(D, y)
      PROVE  type \notin {"LOGIN", "LOGOUT"}
  BY <1>3, NewsReads
<1> QED BY <1>1, <1>2, <1>3 DEF Doing

\* What a handler can be.
LEMMA DoingHandles ==
  ASSUME IInv, Fresh, Joined, Doing, NEW n \in Node, NEW x \in Node \ {n}, Handle(n, x)
  PROVE  \/ Beat(n, x)
         \/ MsgLogin(n, x) /\ Calmed /\ Asking(x, n)
         \/ MsgRoute(n, x) /\ \E D \in SUBSET Node : \E y \in D : Spreading(D, y)
<1>1. ~Timeout(n, x)
  BY NobodySilent
<1>2. ~MsgLogout(n, x)
  BY DoingReads DEF MsgLogout
<1>3. MsgLogin(n, x) => Calmed /\ Asking(x, n)
  BY DoingReads DEF MsgLogin
<1>4. MsgRoute(n, x) => \E D \in SUBSET Node : \E y \in D : Spreading(D, y)
  BY DoingReads DEF MsgRoute
<1> QED BY <1>1, <1>2, <1>3, <1>4 DEF Handle, Beat

\* HEARTs leave everything as it is.
LEMMA BeatLoop ==
  ASSUME IInv, Joined, Doing, NEW n \in Node, NEW x \in Node \ {n}, Beat(n, x)
  PROVE  Joined' /\ Doing'
<1>1. table' = table /\ state' = state
  BY BeatShape
<1>2. Joined'
  BY <1>1 DEF Joined, Down
<1>3. Calmed => Calmed'
  BY <1>1 DEF Calmed, Agreed, Mutual
<1>4. CASE Calmed /\ Carries(chan, BeatMail)
  <2>1. \A z \in Node \ {n} : Beats \subseteq BeatMail[<<n, z>>]
    BY LinkFacts DEF BeatMail
  <2>2. Carries(chan', BeatMail)
    BY <1>4, <2>1, BeatCarries
  <2> QED BY <1>2, <1>3, <1>4, <2>2 DEF Doing
<1>5. ASSUME Calmed, NEW k \in Node, NEW y \in Node, Asking(k, y)
      PROVE  Joined' /\ Doing'
  <2>1. Asking(k, y)'
    BY <1>5, AskingBeats
  <2> QED BY <1>2, <1>3, <1>5, <2>1 DEF Doing
<1>6. ASSUME NEW D \in SUBSET Node, NEW y \in D, Spreading(D, y)
      PROVE  Joined' /\ Doing'
  <2>1. Spreading(D, y)'
    BY <1>6, BeatSpreads
  <2> QED BY <1>2, <2>1 DEF Doing
<1> QED BY <1>4, <1>5, <1>6 DEF Doing

\* A handler leaves the tables in order and the news on their way.
LEMMA HandleLoop ==
  ASSUME IInv, Fresh, Joined, NEW n \in Node, NEW x \in Node \ {n}, Doing, Handle(n, x)
  PROVE  Joined' /\ Doing'
<1>1. state' = state
  BY DEF Handle, MsgLogin, MsgRoute, MsgLogout, MsgHeart, MsgHeartResponse, Timeout, Alarm
<1>2. CASE MsgLogin(n, x) /\ Calmed /\ Asking(x, n)
  <2>1. /\ \E D \in SUBSET Node : \E z \in D : Spreading(D, z)'
        /\ Down' /\ Aligned(table'[n]) /\ \A j \in Node \ {n} : table'[j] = table[j]
    BY <1>2, LoginSpreads DEF Joined, Calmed
  <2> QED BY <1>1, <2>1 DEF Joined, Doing
<1>3. ASSUME MsgRoute(n, x), NEW D \in SUBSET Node, NEW y \in D, Spreading(D, y)
      PROVE  Joined' /\ Doing'
  <2>1. Spreading(D, y)' /\ Down' /\ Aligned(table'[n]) /\ \A j \in Node \ {n} : table'[j] = table[j]
    BY <1>3, RouteSpreads DEF Joined
  <2> QED BY <1>1, <2>1 DEF Joined, Doing
<1> QED BY <1>2, <1>3, BeatLoop, DoingHandles

LEMMA RestCalmed == ASSUME IInv, Joined, Doing, Rest PROVE Calmed
<1>1. ASSUME NEW D \in SUBSET Node, NEW x \in D, Spreading(D, x) PROVE Calmed
  BY <1>1, RestAgrees DEF Joined, Calmed
<1> QED BY <1>1 DEF Doing

LEMMA NextLoop == FreshInv /\ LoopInv /\ [Next]_vars => LoopInv'
<1> SUFFICES ASSUME IInv, Fresh, LoopInv, [Next]_vars, calm', upsets' = 0
             PROVE  Joined' /\ Doing'
  BY DEF FreshInv, LoopInv
<1>1. calm /\ upsets = 0 => Joined /\ Doing
  BY DEF LoopInv
<1>2. CASE UNCHANGED vars
  <2>1. Joined /\ Doing
    BY <1>1, <1>2 DEF vars
  <2>2. Joined'
    BY <1>2, <2>1 DEF vars, Joined, Down
  <2>3. Calmed => Calmed'
    BY <1>2 DEF vars, Calmed, Agreed, Mutual
  <2>4. \A n, x \in Node : Asking(n, x) => Asking(n, x)'
    BY <1>2 DEF vars, Asking, On
  <2>5. ASSUME NEW D \in SUBSET Node, NEW x \in D, Spreading(D, x) PROVE Spreading(D, x)'
    BY <1>2, <2>5 DEF vars, Spreading, Knowing, Agreed, On
  <2>6. chan' = chan
    BY <1>2 DEF vars
  <2> QED BY <2>1, <2>2, <2>3, <2>4, <2>5, <2>6 DEF Doing
<1>3. ASSUME NEW n \in Node, DoLogout(n) \/ Crash(n) PROVE FALSE
  <2>1. upsets' = upsets + 1
    BY <1>3 DEF DoLogout, Crash, Stop
  <2>2. upsets \in Nat
    BY SizesAssumption DEF IInv
  <2> QED BY <2>1, <2>2
<1>4. ASSUME NEW n \in Node, NEW to \in Node \cup {NoName}, Start(n, to)
      PROVE  Joined' /\ Doing'
  <2>1. calm /\ Rest /\ upsets = 0
    BY <1>4 DEF Start
  <2>2. Joined /\ Calmed
    BY <1>1, <2>1, RestCalmed
  <2>3. /\ Joined' /\ Calmed'
        /\ IF to = NoName THEN \A l \in Link : chan'[l] = <<>> ELSE to \in On \ {n} /\ Asking(n, to)'
    BY <1>4, <2>1, <2>2, StartAsks
  <2>4. (\A l \in Link : chan'[l] = <<>>) => Carries(chan', BeatMail)
    BY DEF Carries
  <2> QED BY <2>3, <2>4 DEF Doing
<1>5. ASSUME NEW n \in Node, NEW x \in Node \ {n}, Handle(n, x)
      PROVE  Joined' /\ Doing'
  <2>1. calm /\ upsets = 0
    BY <1>5 DEF Handle, MsgLogin, MsgRoute, MsgLogout, MsgHeart, MsgHeartResponse, Timeout, Alarm
  <2> QED BY <1>1, <1>5, <2>1, HandleLoop
<1>6. ASSUME NEW n \in Node, NEW x \in Node \ {n}, SendHeart(n, x)
      PROVE  Joined' /\ Doing'
  <2>1. calm /\ upsets = 0
    BY <1>6 DEF SendHeart
  <2> QED BY <1>1, <1>6, <2>1, BeatLoop DEF Beat
<1>7. ASSUME NEW n \in Node, NEW x \in Node \ {n}, FalseAlarm(n, x) PROVE FALSE
  BY <1>7 DEF FalseAlarm
<1>8. \A l \in Link : l[1] \in Node /\ l[2] \in Node \ {l[1]}
  BY DEF Link
<1>9. \/ UNCHANGED vars
      \/ \E n \in Node : DoLogout(n) \/ Crash(n)
      \/ \E n \in Node : \E to \in Node \cup {NoName} : Start(n, to)
      \/ \E n \in Node : \E x \in Node \ {n} : Handle(n, x) \/ SendHeart(n, x) \/ FalseAlarm(n, x)
  BY <1>8 DEF Next
<1> QED BY <1>2, <1>3, <1>4, <1>5, <1>6, <1>7, <1>9

LEMMA LoopFree == IInv /\ LoopInv => NoLoop
<1> SUFFICES ASSUME IInv, LoopInv, calm, upsets = 0, NEW l \in Link
             PROVE  Target(l[1], l[2]) \notin On \ {l[2]}
  BY DEF NoLoop
<1>1. l[1] \in Node /\ l[2] \in Node \ {l[1]}
  BY LinkFacts
<1>2. Down
  BY DEF LoopInv, Joined
<1> QED BY <1>1, <1>2, NoCircle

\* No message is handed round in a circle as long as nodes only join, each of
\* them when the network is at rest: every entry of every table leads to a
\* neighbour that knows the name as nearer, at every moment in which the news
\* of the last node are still on their way.
THEOREM NoLoops == Spec => []NoLoop
<1>1. FreshInv => IInv
  BY DEF FreshInv
<1> QED BY <1>1, InitFresh, NextFresh, InitLoop, NextLoop, LoopFree, PTL DEF Spec

-----------------------------------------------------------------------------
\* How the tables settle: a message of A is on its way along l.
Says(q, l, A) == \E k \in DOMAIN q[l] : q[l][k] \in A

\* The ROUTEs that bring p, from a distance of at most h.
Bringing(p, h) ==
  {m \in Message : /\ m.type = "ROUTE"
                   /\ \E k \in DOMAIN m.entries : m.entries[k].chatName = p /\ m.entries[k].hopCount <= h}

\* What a node knows its neighbours know, no more than a hop further away, or
\* a ROUTE brings it to them.
Passed(q, T) ==
  \A u \in Node : \A v \in HopsOneAway(T[u]) : \A p \in Node : \A h \in Nat :
    Within(T[u], p, h) => Within(T[v], p, h + 1) \/ Says(q, <<u, v>>, Bringing(p, h))

\* Neighbours are linked, and linked nodes are neighbours, except while one
\* of them asks the other.
Linked ==
  /\ \A u \in Node : \A v \in HopsOneAway(table[u]) : {u, v} \in links
  /\ \A u, v \in Node : {u, v} \in links /\ u # v =>
       v \in HopsOneAway(table[u]) \/ u \in HopsOneAway(table[v]) \/ Asking(u, v) \/ Asking(v, u)

SettleInv ==
  calm /\ upsets = 0 /\ Cardinality(Node) <= NumSlots => Passed(chan, table) /\ Linked

-----------------------------------------------------------------------------
\* Who is known within h hops is known within more of them.
LEMMA WithinMore ==
  ASSUME NEW n \in Node, NEW T, Sound(T, n), NEW p, NEW h \in Int, Within(T, p, h), NEW k \in Int, h <= k
  PROVE  Within(T, p, k)
<1>1. PICK e \in Entries(T) : e.chatName = p /\ e.hopCount <= h
  BY DEF Within
<1>2. e.hopCount \in Nat
  BY EntryFacts DEF Routes
<1>3. e.hopCount <= k
  BY <1>1, <1>2
<1> QED BY <1>1, <1>3 DEF Within

\* Who knows x, at a distance of k, is reached from x in k hops: what x
\* knows he knows, too, k hops further away at most.
LEMMA KnowsAlong ==
  ASSUME IInv, Down, Mutual,
         \A u \in Node : \A v \in HopsOneAway(table[u]) : \A p \in Node : \A h \in Nat :
           Within(table[u], p, h) => Within(table[v], p, h + 1)
  PROVE  \A k \in Nat : \A n, x \in Node : Within(table[n], x, k) =>
           \A p \in Node : \A h \in Nat : Within(table[n], p, h) => Within(table[x], p, h + k)
<1> DEFINE Good(k) == \A n, x \in Node : Within(table[n], x, k) =>
                        \A p \in Node : \A h \in Nat : Within(table[n], p, h) => Within(table[x], p, h + k)
           S == {k \in Nat : Good(k)}
<1>1. \A k \in Node : Sound(table[k], k)
  BY DEF IInv
<1>3. 0 \in S
  <2> SUFFICES ASSUME NEW n \in Node, NEW x \in Node, Within(table[n], x, 0),
                      NEW p \in Node, NEW h \in Nat, Within(table[n], p, h)
               PROVE  Within(table[x], p, h + 0)
    OBVIOUS
  <2>1. PICK e \in Entries(table[n]) : e.chatName = x /\ e.hopCount <= 0
    BY DEF Within
  <2>2. x = n
    <3>1. e \in Routes /\ (x # n => Foreign(e, n))
      BY <1>1, <2>1, EntryFacts
    <3> QED BY <2>1, <3>1 DEF Foreign, Routes
  <2>3. h + 0 = h
    OBVIOUS
  <2> QED BY <2>2, <2>3
<1>4. ASSUME NEW k \in Nat, Good(k) PROVE Good(k + 1)
  <2> SUFFICES ASSUME NEW n \in Node, NEW x \in Node, Within(table[n], x, k + 1),
                      NEW p \in Node, NEW h \in Nat, Within(table[n], p, h)
               PROVE  Within(table[x], p, h + (k + 1))
    OBVIOUS
  <2>1. CASE x = n
    <3>1. h + (k + 1) \in Nat /\ h <= h + (k + 1)
      OBVIOUS
    <3> QED BY <1>1, <2>1, <3>1, WithinMore
  <2>2. CASE x # n
    <3>1. PICK e \in Entries(table[n]) : e.chatName = x /\ e.hopCount <= k + 1
      BY DEF Within
    <3>2. e.hopCount \in Nat /\ e.hopCount > 0
      <4>1. e \in Routes /\ Foreign(e, n)
        BY <1>1, <2>2, <3>1, EntryFacts
      <4> QED BY <4>1 DEF Foreign, Routes
    <3> DEFINE w == e.nextChatName
    <3>3. w \in HopsOneAway(table[n]) /\ (w # x => Within(table[w], x, e.hopCount - 1))
      BY <2>2, <3>1 DEF Down
    <3>4. w \in Node
      BY <1>1, <3>3, NeighbourFacts
    <3> HIDE DEF w
    <3>5. Within(table[w], x, k)
      <4>1. CASE w = x
        <5>1. [chatName |-> x, nextChatName |-> x, hopCount |-> 0] \in Entries(table[x])
          BY <1>1, EntryFacts
        <5>2. Within(table[x], x, k)
          BY <5>1 DEF Within
        <5> QED BY <4>1, <5>2
      <4>2. CASE w # x
        <5>1. e.hopCount - 1 \in Nat /\ e.hopCount - 1 <= k
          BY <3>1, <3>2
        <5> QED BY <1>1, <3>3, <3>4, <4>2, <5>1, WithinMore
      <4> QED BY <4>1, <4>2
    <3>6. Within(table[w], p, h + 1)
      BY <3>3
    <3>7. Within(table[x], p, (h + 1) + k)
      BY <1>4, <3>4, <3>5, <3>6
    <3>8. (h + 1) + k = h + (k + 1)
      OBVIOUS
    <3> QED BY <3>7, <3>8
  <2> QED BY <2>1, <2>2
<1>5. S = Nat
  <2> HIDE DEF Good
  <2>1. \A k \in S : k + 1 \in S
    BY <1>4
  <2> QED BY <1>3, <2>1, Induction
<1> QED BY <1>5

LEMMA KnownFacts ==
  ASSUME NEW n \in Node, NEW t, Sound(t, n)
  PROVE  /\ Known(t) = [x \in Names(t) |-> Known(t)[x]]
         /\ \A e \in Entries(t) : Known(t)[e.chatName] = e.hopCount
<1>1. Names(t) = {t.slots[i].chatName : i \in Used(t)}
  BY DEF Names, Entries
<1>2. Known(t) = [x \in Names(t) |-> t.slots[Least(SlotsOf(t, x))].hopCount]
  BY <1>1 DEF Known
<1>3. ASSUME NEW e \in Entries(t) PROVE t.slots[Least(SlotsOf(t, e.chatName))] = e
  <2>1. PICK i \in Slot : t.slots[i] = e /\ e # Null
    BY DEF Entries, Used
  <2>2. SlotsOf(t, e.chatName) = {i}
    BY <2>1 DEF SlotsOf, Sound
  <2>3. Least({i}) = i
    BY <2>1, LeastSlot
  <2> QED BY <2>1, <2>2, <2>3
<1>4. \A e \in Entries(t) : e.chatName \in Names(t)
  BY DEF Names
<1> QED BY <1>2, <1>3, <1>4

\* At rest, as long as nodes only join.
Level ==
  /\ IInv /\ Down /\ Mutual
  /\ \A u \in Node : \A v \in HopsOneAway(table[u]) : \A p \in Node : \A h \in Nat :
       Within(table[u], p, h) => Within(table[v], p, h + 1)
  /\ \A u, v \in Node : u # v => (v \in HopsOneAway(table[u]) <=> {u, v} \in links)

LEMMA LevelSymmetric ==
  ASSUME Level, NEW n \in Node, NEW x \in Node, NEW k \in Nat, Within(table[n], x, k)
  PROVE  Within(table[x], n, k)
<1>1. Within(table[n], n, 0)
  <2>1. [chatName |-> n, nextChatName |-> n, hopCount |-> 0] \in Entries(table[n])
    BY EntryFacts DEF Level, IInv
  <2> QED BY <2>1 DEF Within
<1>2. Within(table[x], n, 0 + k)
  BY <1>1, KnowsAlong DEF Level
<1>3. 0 + k = k
  OBVIOUS
<1> QED BY <1>2, <1>3

\* On the way to x every distance occurs, so there are more nodes than hops.
LEMMA FewHops ==
  ASSUME Level, NEW n \in Node, NEW e \in Entries(table[n])
  PROVE  e.hopCount \in Nat /\ e.hopCount < Cardinality(Node)
<1> DEFINE x == e.chatName
           K == e.hopCount
           N == Cardinality(Node)
           At(z, j) == \E a \in Entries(table[z]) : a.chatName = x /\ a.hopCount = j
           Good(i) == \E z \in Node : At(z, K - i)
           S == {i \in Nat : i <= K => Good(i)}
<1>1. /\ \A z \in Node : Sound(table[z], z)
      /\ \A z \in Node : /\ Entries(table[z]) \subseteq Routes
                         /\ \A a, b \in Entries(table[z]) : a.chatName = b.chatName => a = b
                         /\ \A a \in Entries(table[z]) : a.chatName # z => Foreign(a, z)
                         /\ \A a \in Entries(table[z]) : a.chatName = z => a.hopCount = 0
                         /\ [chatName |-> z, nextChatName |-> z, hopCount |-> 0] \in Entries(table[z])
  BY EntryFacts DEF Level, IInv
<1>2. x \in Node /\ K \in Nat
  BY <1>1 DEF Routes
<1>3. N \in Nat
  BY FiniteAssumption, FS_CardinalityType
<1>4. 0 \in S
  BY <1>2
<1>5. ASSUME NEW i \in Nat, i + 1 <= K, Good(i) PROVE Good(i + 1)
  <2> DEFINE j == K - (i + 1)
  <2>1. j \in Nat /\ K - i = j + 1
    BY <1>2, <1>5
  <2> HIDE DEF j
  <2>2. PICK z \in Node : \E a \in Entries(table[z]) : a.chatName = x /\ a.hopCount = j + 1
    BY <1>5, <2>1
  <2>3. PICK a \in Entries(table[z]) : a.chatName = x /\ a.hopCount = j + 1
    BY <2>2
  <2>4. z # x
    <3>1. z = x => a.hopCount = 0
      BY <1>1, <2>3
    <3> QED BY <2>1, <2>3, <3>1
  <2> DEFINE w == a.nextChatName
  <2>5. w \in HopsOneAway(table[z]) /\ (w # x => Within(table[w], x, j))
    <3>1. a.hopCount - 1 = j
      BY <2>1, <2>3
    <3> QED BY <2>3, <2>4, <3>1 DEF Level, Down
  <2>6. w \in Node
    BY <1>1, <2>5, NeighbourFacts
  <2>7. CASE w = x
    <3>1. a.hopCount = 1
      BY <1>1, <2>3, <2>4, <2>7 DEF Foreign
    <3>2. j = 0
      BY <2>1, <2>3, <3>1
    <3>3. At(x, 0)
      BY <1>1, <1>2
    <3> QED BY <1>2, <3>2, <3>3 DEF j
  <2>8. CASE w # x
    <3> HIDE DEF w
    <3>1. PICK b \in Entries(table[w]) : b.chatName = x /\ b.hopCount <= j
      BY <2>5, <2>8 DEF Within
    <3>2. b.hopCount \in Nat
      BY <1>1, <2>6 DEF Routes
    <3>3. Within(table[w], x, b.hopCount)
      BY <3>1, <3>2 DEF Within
    <3>4. z \in HopsOneAway(table[w])
      BY <2>5, <2>6 DEF Level, Mutual
    <3>5. Within(table[z], x, b.hopCount + 1)
      BY <1>2, <2>6, <3>2, <3>3, <3>4 DEF Level
    <3>6. PICK c \in Entries(table[z]) : c.chatName = x /\ c.hopCount <= b.hopCount + 1
      BY <3>5 DEF Within
    <3>7. c = a
      BY <1>1, <2>3, <3>6
    <3>8. b.hopCount = j
      BY <2>1, <2>3, <3>1, <3>2, <3>6, <3>7
    <3> QED BY <2>6, <3>1, <3>8 DEF j
  <2> QED BY <2>7, <2>8
<1>6. S = Nat
  <2> HIDE DEF Good, K
  <2>1. \A i \in S : i + 1 \in S
    <3> SUFFICES ASSUME NEW i \in Nat, i <= K => Good(i), i + 1 <= K PROVE Good(i + 1)
      OBVIOUS
    <3>1. i <= K
      BY <1>2
    <3> QED BY <1>5, <3>1
  <2> HIDE DEF S
  <2>2. S \in SUBSET Nat
    BY DEF S
  <2> QED BY <1>4, <2>1, <2>2, Induction
<1>7. \A j \in 0 .. K : \E z \in Node : At(z, j)
  <2> SUFFICES ASSUME NEW j \in 0 .. K PROVE \E z \in Node : At(z, j)
    OBVIOUS
  <2>1. K - j \in Nat /\ K - j <= K /\ K - (K - j) = j
    BY <1>2
  <2> HIDE DEF K, At
  <2> QED BY <1>6, <2>1
<1> SUFFICES ASSUME N <= K PROVE FALSE
  BY <1>2, <1>3
<1> DEFINE A == 0 .. K
           f == [j \in A |-> CHOOSE z \in Node : At(z, j)]
<1>8. IsFiniteSet(A) /\ N < Cardinality(A)
  <2> HIDE DEF K, N
  <2>1. 0 \in Int /\ K \in Int /\ ~(0 > K) /\ K - 0 + 1 = K + 1 /\ N < K + 1
    BY <1>2, <1>3
  <2> QED BY <2>1, FS_Interval
<1>9. \A j \in A : f[j] \in Node /\ At(f[j], j)
  <2> HIDE DEF K, At
  <2> QED BY <1>7
<1>10. f \in [A -> Node]
  <2>1. \A j \in A : (CHOOSE z \in Node : At(z, j)) \in Node
    BY <1>9
  <2> HIDE DEF A, At
  <2> QED BY <2>1
<1> HIDE DEF f
<1>11. \E a, b \in A : a # b /\ f[a] = f[b]
  <2> HIDE DEF A
  <2> QED BY <1>8, <1>10, FiniteAssumption, FS_PigeonHole
<1>12. PICK a, b \in A : a # b /\ f[a] = f[b]
  BY <1>11
<1>13. f[a] \in Node /\ At(f[a], a) /\ At(f[a], b)
  BY <1>9, <1>12
<1> DEFINE z == f[a]
<1>14. PICK c \in Entries(table[z]) : c.chatName = x /\ c.hopCount = a
  BY <1>13
<1>15. PICK d \in Entries(table[z]) : d.chatName = x /\ d.hopCount = b
  BY <1>13
<1>16. c = d
  <2>1. z \in Node
    BY <1>13
  <2> HIDE DEF z
  <2> QED BY <1>1, <1>14, <1>15, <2>1
<1> QED BY <1>12, <1>14, <1>15, <1>16

\* The distances from n after each round of Component.
Nearing(f, n, N) ==
  f = [k \in 0 .. N |->
        IF k = 0 THEN [x \in {n} |-> 0]
        ELSE LET new == {x \in Node \ DOMAIN f[k - 1] :
                           \E y \in DOMAIN f[k - 1] : {x, y} \in links}
             IN  [x \in DOMAIN f[k - 1] \cup new |-> IF x \in new THEN k ELSE f[k - 1][x]]]

New(g) == {x \in Node \ DOMAIN g : \E y \in DOMAIN g : {x, y} \in links}
Widened(g, k) == [x \in DOMAIN g \cup New(g) |-> IF x \in New(g) THEN k ELSE g[x]]

LEMMA NearingRounds ==
  ASSUME NEW f, NEW n, NEW N \in Nat
  PROVE  Nearing(f, n, N) <=> f = [k \in 0 .. N |-> IF k = 0 THEN [x \in {n} |-> 0] ELSE Widened(f[k - 1], k)]
BY DEF Nearing, Widened, New

\* Whom n knows within k hops, and how far away.
Sphere(n, k) == [x \in {x \in Node : Within(table[n], x, k)} |-> Known(table[n])[x]]

LEMMA SphereStart ==
  ASSUME Level, NEW n \in Node
  PROVE  Sphere(n, 0) = [x \in {n} |-> 0]
<1>1. Sound(table[n], n)
  BY DEF Level, IInv
<1> DEFINE own == [chatName |-> n, nextChatName |-> n, hopCount |-> 0]
<1>2. /\ own \in Entries(table[n])
      /\ \A e \in Entries(table[n]) : e \in Routes /\ (e.chatName # n => Foreign(e, n))
  BY <1>1, EntryFacts
<1>3. own.chatName = n /\ own.hopCount = 0
  OBVIOUS
<1> HIDE DEF own
<1>4. \A x \in Node : Within(table[n], x, 0) <=> x = n
  <2>1. Within(table[n], n, 0)
    BY <1>2, <1>3 DEF Within
  <2>2. ASSUME NEW x \in Node, Within(table[n], x, 0) PROVE x = n
    <3>1. PICK e \in Entries(table[n]) : e.chatName = x /\ e.hopCount <= 0
      BY <2>2 DEF Within
    <3>2. e \in Routes /\ (x # n => Foreign(e, n))
      BY <1>2, <3>1
    <3> QED BY <3>1, <3>2 DEF Foreign, Routes
  <2> QED BY <2>1, <2>2
<1>5. Known(table[n])[n] = 0
  BY <1>1, <1>2, <1>3, KnownFacts
<1>6. {x \in Node : Within(table[n], x, 0)} = {n}
  BY <1>4
<1> QED BY <1>5, <1>6 DEF Sphere

LEMMA SphereWidens ==
  ASSUME Level, NEW n \in Node, NEW k \in Nat
  PROVE  Sphere(n, k + 1) = Widened(Sphere(n, k), k + 1)
<1> DEFINE W(j) == {x \in Node : Within(table[n], x, j)}
<1>1. \A z \in Node : Sound(table[z], z)
  BY DEF Level, IInv
<1>2. ASSUME NEW x \in Node, Within(table[n], x, k) PROVE Within(table[n], x, k + 1)
  <2>1. PICK e \in Entries(table[n]) : e.chatName = x /\ e.hopCount <= k
    BY <1>2 DEF Within
  <2>2. e \in Routes
    BY <1>1, EntryFacts
  <2>3. e.hopCount <= k + 1
    BY <2>1, <2>2 DEF Routes
  <2> QED BY <2>1, <2>3 DEF Within
<1>3. ASSUME NEW x \in Node, ~Within(table[n], x, k), NEW y \in Node, Within(table[n], y, k), {x, y} \in links
      PROVE  Within(table[n], x, k + 1)
  <2>1. x # y
    BY <1>3
  <2>2. {y, x} = {x, y}
    OBVIOUS
  <2>3. x \in HopsOneAway(table[y])
    BY <1>3, <2>1, <2>2 DEF Level
  <2>4. Within(table[y], n, k)
    BY <1>3, LevelSymmetric
  <2>5. Within(table[x], n, k + 1)
    BY <2>3, <2>4 DEF Level
  <2> QED BY <2>5, LevelSymmetric
<1>4. ASSUME NEW x \in Node, Within(table[n], x, k + 1), ~Within(table[n], x, k)
      PROVE  /\ \E y \in Node : Within(table[n], y, k) /\ {x, y} \in links
             /\ Known(table[n])[x] = k + 1
  <2>1. PICK e \in Entries(table[n]) : e.chatName = x /\ e.hopCount <= k + 1
    BY <1>4 DEF Within
  <2>2. e \in Routes /\ ~(e.hopCount <= k)
    BY <1>1, <1>4, <2>1, EntryFacts DEF Within
  <2>3. Known(table[n])[x] = k + 1
    <3>1. e.hopCount = k + 1
      BY <2>1, <2>2 DEF Routes
    <3> QED BY <1>1, <2>1, <3>1, KnownFacts
  <2>4. [chatName |-> n, nextChatName |-> n, hopCount |-> 0] \in Entries(table[n])
    BY <1>1, EntryFacts
  <2>5. Within(table[n], n, k)
    BY <2>4 DEF Within
  <2>6. x # n
    BY <1>4, <2>5
  <2>7. Within(table[x], n, k + 1)
    BY <1>4, LevelSymmetric
  <2>8. PICK a \in Entries(table[x]) : a.chatName = n /\ a.hopCount <= k + 1
    BY <2>7 DEF Within
  <2>9. a \in Routes /\ Foreign(a, x)
    BY <1>1, <2>6, <2>8, EntryFacts
  <2> DEFINE y == a.nextChatName
  <2>10. y \in HopsOneAway(table[x]) /\ (y # n => Within(table[y], n, a.hopCount - 1))
    BY <2>6, <2>8 DEF Level, Down
  <2>11. y \in Node \ {x}
    BY <1>1, <2>10, NeighbourFacts
  <2> HIDE DEF y
  <2>12. {x, y} \in links
    BY <2>10, <2>11 DEF Level
  <2>13. CASE y = n
    BY <2>3, <2>5, <2>11, <2>12, <2>13
  <2>14. CASE y # n
    <3>1. a.hopCount - 1 \in Nat /\ a.hopCount - 1 <= k
      BY <2>8, <2>9 DEF Foreign, Routes
    <3>2. Within(table[n], y, a.hopCount - 1)
      BY <2>10, <2>11, <2>14, <3>1, LevelSymmetric
    <3>3. PICK b \in Entries(table[n]) : b.chatName = y /\ b.hopCount <= a.hopCount - 1
      BY <3>2 DEF Within
    <3>4. b \in Routes
      BY <1>1, EntryFacts
    <3>5. b.hopCount <= k
      BY <3>1, <3>3, <3>4 DEF Routes
    <3>6. Within(table[n], y, k)
      BY <3>3, <3>5 DEF Within
    <3> QED BY <2>3, <2>11, <2>12, <3>6
  <2> QED BY <2>13, <2>14
<1> DEFINE g == Sphere(n, k)
<1>5. /\ DOMAIN g = W(k) /\ \A x \in W(k) : g[x] = Known(table[n])[x]
  BY DEF Sphere
<1>6. New(g) = W(k + 1) \ W(k) /\ W(k) \subseteq W(k + 1)
  <2> HIDE DEF g
  <2>1. \A x \in Node : x \in W(k) <=> Within(table[n], x, k)
    OBVIOUS
  <2>2. New(g) = {x \in Node \ W(k) : \E y \in W(k) : {x, y} \in links}
    BY <1>5 DEF New
  <2> QED BY <1>2, <1>3, <1>4, <2>2
<1>7. \A x \in New(g) : Known(table[n])[x] = k + 1
  <2> HIDE DEF g
  <2> QED BY <1>4, <1>6
<1>8. Widened(g, k + 1) = [x \in W(k + 1) |-> Known(table[n])[x]]
  <2> HIDE DEF g
  <2>1. DOMAIN g \cup New(g) = W(k + 1)
    BY <1>5, <1>6
  <2> DEFINE V == W(k + 1)
             K == Known(table[n])
  <2>2. \A x \in V : (IF x \in New(g) THEN k + 1 ELSE g[x]) = K[x]
    BY <1>5, <1>6, <1>7
  <2> HIDE DEF V, K
  <2>3. Widened(g, k + 1) = [x \in V |-> K[x]]
    BY <2>1, <2>2 DEF Widened, V
  <2> QED BY <2>3 DEF V, K
<1> QED BY <1>8 DEF Sphere

LEMMA LevelSettled ==
  ASSUME Level, NEW n \in Node
  PROVE  Known(table[n]) = Component(n)
<1> DEFINE N == Cardinality(Node)
           near == CHOOSE f : Nearing(f, n, N)
           F == [k \in 0 .. N |-> Sphere(n, k)]
<1>1. N \in Nat
  BY FiniteAssumption, FS_CardinalityType
<1>2. Component(n) = near[N]
  BY Zenon DEF Component, Nearing
<1>3. Nearing(F, n, N)
  <2> HIDE DEF N
  <2>1. ASSUME NEW k \in 0 .. N
        PROVE  Sphere(n, k) = IF k = 0 THEN [x \in {n} |-> 0] ELSE Widened(F[k - 1], k)
    <3>1. CASE k = 0
      BY <3>1, SphereStart
    <3>2. CASE k # 0
      <4>1. k - 1 \in Nat /\ k - 1 \in 0 .. N /\ k - 1 + 1 = k
        BY <1>1, <3>2
      <4>2. F[k - 1] = Sphere(n, k - 1)
        BY <4>1
      <4>3. Sphere(n, k - 1 + 1) = Widened(Sphere(n, k - 1), k - 1 + 1)
        BY <4>1, SphereWidens
      <4> QED BY <3>2, <4>1, <4>2, <4>3
    <3> QED BY <3>1, <3>2
  <2> DEFINE G == [k \in 0 .. N |-> IF k = 0 THEN [x \in {n} |-> 0] ELSE Widened(F[k - 1], k)]
  <2>2. F = G
    BY <2>1
  <2> HIDE DEF F
  <2> QED BY <1>1, <2>2, NearingRounds
<1>4. Nearing(near, n, N)
  BY <1>3, Zenon
<1> HIDE DEF near
<1>5. near = [k \in 0 .. N |-> IF k = 0 THEN [x \in {n} |-> 0] ELSE Widened(near[k - 1], k)]
  BY <1>1, <1>4, NearingRounds
<1> DEFINE S == {k \in Nat : k <= N => near[k] = Sphere(n, k)}
<1>6. 0 \in S
  <2>1. 0 \in 0 .. N
    BY <1>1
  <2>2. near[0] = [x \in {n} |-> 0]
    BY <1>5, <2>1
  <2> QED BY <2>2, SphereStart
<1>7. \A k \in S : k + 1 \in S
  <2> HIDE DEF N
  <2> SUFFICES ASSUME NEW k \in Nat, k <= N => near[k] = Sphere(n, k), k + 1 <= N
               PROVE  near[k + 1] = Sphere(n, k + 1)
    OBVIOUS
  <2>1. k + 1 \in 0 .. N /\ k + 1 # 0 /\ k + 1 - 1 = k /\ k <= N
    BY <1>1
  <2>2. near[k + 1] = Widened(near[k], k + 1)
    BY <1>5, <2>1
  <2> QED BY <2>1, <2>2, SphereWidens
<1>8. S = Nat
  <2> HIDE DEF S
  <2>1. S \in SUBSET Nat
    BY DEF S
  <2> QED BY <1>6, <1>7, <2>1, Induction
<1>9. near[N] = Sphere(n, N)
  BY <1>1, <1>8
<1>10. {x \in Node : Within(table[n], x, N)} = Names(table[n])
  <2>1. Names(table[n]) \subseteq Node
    BY EntryFacts DEF Level, IInv
  <2>2. \A e \in Entries(table[n]) : e.hopCount <= N
    <3>1. \A e \in Entries(table[n]) : e.hopCount \in Nat /\ e.hopCount < N
      BY FewHops
    <3> HIDE DEF N
    <3> QED BY <1>1, <3>1
  <2> HIDE DEF N
  <2> QED BY <2>1, <2>2 DEF Within, Names
<1>11. Known(table[n]) = [x \in Names(table[n]) |-> Known(table[n])[x]]
  BY KnownFacts DEF Level, IInv
<1> QED BY <1>2, <1>9, <1>10, <1>11 DEF Sphere

-----------------------------------------------------------------------------
LEMMA PostSays ==
  ASSUME NEW q, q \in [Link -> Seq(Message)], NEW l \in Link, NEW A, NEW n, NEW dests, NEW m \in Message,
         Says(q, l, A) \/ (m \in A /\ l[1] = n /\ l[2] \in dests \cap On)
  PROVE  Says(Post(q, n, dests, m), l, A)
<1> DEFINE p == Post(q, n, dests, m)
           s == q[l]
<1>1. p[l] = IF l[1] = n /\ l[2] \in dests \cap On THEN Append(s, m) ELSE s
  BY PostChannel
<1>2. s \in Seq(Message)
  OBVIOUS
<1>3. Says(q, l, A) <=> \E k \in DOMAIN s : s[k] \in A
  BY DEF Says
<1> HIDE DEF p, s
<1>4. CASE l[1] = n /\ l[2] \in dests \cap On
  <2>1. p[l] = Append(s, m)
    BY <1>1, <1>4
  <2>2. /\ DOMAIN Append(s, m) = 1 .. Len(s) + 1 /\ DOMAIN s = 1 .. Len(s) /\ Len(s) \in Nat
        /\ Append(s, m)[Len(s) + 1] = m
        /\ \A k \in 1 .. Len(s) : Append(s, m)[k] = s[k]
    BY <1>2
  <2>3. CASE Says(q, l, A)
    <3>1. PICK k \in DOMAIN s : s[k] \in A
      BY <1>3, <2>3
    <3>2. k \in DOMAIN Append(s, m) /\ Append(s, m)[k] = s[k]
      BY <2>2
    <3> QED BY <2>1, <3>1, <3>2 DEF Says, p
  <2>4. CASE m \in A
    <3>1. Len(s) + 1 \in DOMAIN Append(s, m)
      BY <2>2
    <3> QED BY <2>1, <2>2, <2>4, <3>1 DEF Says, p
  <2> QED BY <2>3, <2>4
<1>5. CASE ~(l[1] = n /\ l[2] \in dests \cap On)
  <2>1. p[l] = s
    BY <1>1, <1>5
  <2>2. \E k \in DOMAIN s : s[k] \in A
    BY <1>3, <1>5
  <2> QED BY <2>1, <2>2 DEF Says, p
<1> QED BY <1>4, <1>5

LEMMA ReadSays ==
  ASSUME Queues(chan), NEW n \in Node, NEW x \in Node \ {n}, NEW type, Reads(n, x, type),
         NEW l \in Link, NEW A, Says(chan, l, A), l # <<x, n>> \/ Head(chan[l]) \notin A
  PROVE  Says(Read(n, x), l, A)
<1> DEFINE s == chan[l]
<1>1. <<x, n>> \in Link /\ chan \in [Link -> Seq(Message)] /\ s \in Seq(Message)
  BY LinkFacts DEF Queues
<1>2. CASE l # <<x, n>>
  <2>1. Read(n, x)[l] = s
    BY <1>1, <1>2 DEF Read
  <2> HIDE DEF s
  <2> QED BY <2>1 DEF Says, s
<1>3. CASE l = <<x, n>>
  <2>1. Read(n, x)[l] = Tail(s) /\ s # <<>> /\ Head(s) \notin A
    BY <1>1, <1>3 DEF Read, Reads
  <2>2. PICK k \in DOMAIN s : s[k] \in A
    BY DEF Says
  <2> HIDE DEF s
  <2>3. Head(s) = s[1] /\ DOMAIN s = 1 .. Len(s) /\ Len(s) \in Nat
    BY <1>1, <2>1
  <2>4. k # 1 /\ k \in Nat /\ k <= Len(s) /\ k >= 1
    BY <2>1, <2>2, <2>3
  <2>5. k - 1 \in 1 .. Len(s) - 1
    BY <2>3, <2>4
  <2>6. DOMAIN Tail(s) = 1 .. Len(s) - 1 /\ Tail(s)[k - 1] = s[k]
    <3>1. DOMAIN Tail(s) = 1 .. Len(s) - 1 /\ \A i \in 1 .. Len(s) - 1 : Tail(s)[i] = s[i + 1]
      BY <1>1, <2>1
    <3>2. k - 1 + 1 = k
      BY <2>4
    <3> QED BY <2>5, <3>1, <3>2
  <2> QED BY <2>1, <2>2, <2>5, <2>6 DEF Says
<1> QED BY <1>2, <1>3

\* What n knows is in what it announces.
LEMMA RouteBrings ==
  ASSUME NEW n \in Node, NEW t, Sound(t, n), NEW p, NEW h, Within(t, p, h)
  PROVE  RouteOf(n, t) \in Bringing(p, h)
<1> DEFINE m == TableToCharArray(t)
<1>1. PICK i \in Slot : t.slots[i] # Null /\ t.slots[i].chatName = p /\ t.slots[i].hopCount <= h
  BY DEF Within, Entries, Used
<1>2. /\ \A j \in Used(t) : \E k \in DOMAIN m : m[k].chatName = t.slots[j].chatName
      /\ \A k \in DOMAIN m : \E j \in Used(t) : m[k] = Row(t, j)
  BY RowsTold
<1>3. \A j \in Used(t) : Row(t, j).chatName = t.slots[j].chatName /\ Row(t, j).hopCount = t.slots[j].hopCount
  <2>1. \A j \in Used(t) : t.slots[j] \in Routes
    BY DEF Sound, Tables, Used
  <2> QED BY <2>1 DEF Row, Routes
<1>4. RouteOf(n, t) \in Message /\ RouteOf(n, t).type = "ROUTE" /\ RouteOf(n, t).entries = m
  BY RouteFacts DEF RouteOf
<1> HIDE DEF m
<1>5. PICK k \in DOMAIN m : m[k].chatName = p
  BY <1>1, <1>2 DEF Used
<1>6. PICK j \in Used(t) : m[k] = Row(t, j)
  BY <1>2
<1>7. j = i
  BY <1>1, <1>3, <1>5, <1>6 DEF Sound, Used
<1>8. m[k].hopCount <= h
  BY <1>1, <1>3, <1>6, <1>7
<1> QED BY <1>4, <1>5, <1>8 DEF Bringing

LEMMA PassedPost ==
  ASSUME NEW T, \A z \in Node : Sound(T[z], z), NEW q, q \in [Link -> Seq(Message)], Passed(q, T),
         NEW n, NEW dests, NEW m \in Message
  PROVE  Passed(Post(q, n, dests, m), T)
<1> SUFFICES ASSUME NEW u \in Node, NEW v \in HopsOneAway(T[u]), NEW p \in Node, NEW h \in Nat,
                    Says(q, <<u, v>>, Bringing(p, h))
             PROVE  Says(Post(q, n, dests, m), <<u, v>>, Bringing(p, h))
  BY DEF Passed
<1>1. <<u, v>> \in Link
  BY NeighbourFacts, LinkFacts
<1> QED BY <1>1, PostSays

\* Whatever is read, except if its sender and its reader are the two.
LEMMA PassedRead ==
  ASSUME IInv, NEW n \in Node, NEW x \in Node \ {n}, NEW type, Reads(n, x, type),
         NEW u \in Node, NEW v \in HopsOneAway(table[u]), NEW p \in Node, NEW h \in Nat,
         Says(chan, <<u, v>>, Bringing(p, h)), type # "ROUTE" \/ <<u, v>> # <<x, n>>
  PROVE  Says(Read(n, x), <<u, v>>, Bringing(p, h))
<1>1. <<u, v>> \in Link
  BY NeighbourFacts, LinkFacts DEF IInv
<1>2. <<u, v>> = <<x, n>> => Head(chan[<<u, v>>]) \notin Bringing(p, h)
  BY DEF Reads, Bringing
<1> QED BY <1>1, <1>2, ReadSays DEF IInv

\* n sends its table to all neighbours but skip.
LEMMA PassedSent ==
  ASSUME NEW T, \A z \in Node : Sound(T[z], z), NEW n \in Node, HopsOneAway(T[n]) \subseteq On, NEW skip,
         NEW q, q \in [Link -> Seq(Message)],
         \A u \in Node : \A v \in HopsOneAway(T[u]) : \A p \in Node : \A h \in Nat :
           Within(T[u], p, h) /\ (u # n \/ v = skip) =>
             Within(T[v], p, h + 1) \/ Says(q, <<u, v>>, Bringing(p, h))
  PROVE  Passed(SendRoute(q, n, T[n], skip), T)
<1> DEFINE dests == RouteDests(T[n], skip)
           m == RouteOf(n, T[n])
<1>1. /\ dests = HopsOneAway(T[n]) \ {skip}
      /\ SendRoute(q, n, T[n], skip) = Post(q, n, dests, m)
      /\ m \in Message
  BY RouteFacts
<1> SUFFICES ASSUME NEW u \in Node, NEW v \in HopsOneAway(T[u]), NEW p \in Node, NEW h \in Nat,
                    Within(T[u], p, h), ~Within(T[v], p, h + 1)
             PROVE  Says(SendRoute(q, n, T[n], skip), <<u, v>>, Bringing(p, h))
  BY DEF Passed
<1>2. <<u, v>> \in Link
  BY NeighbourFacts, LinkFacts
<1>3. CASE u # n \/ v = skip
  <2>1. Says(q, <<u, v>>, Bringing(p, h))
    BY <1>3
  <2> HIDE DEF dests, m
  <2> QED BY <1>1, <1>2, <2>1, PostSays
<1>4. CASE u = n /\ v # skip
  <2>1. m \in Bringing(p, h)
    BY <1>4, RouteBrings
  <2>2. v \in dests \cap On
    BY <1>1, <1>4
  <2> HIDE DEF dests, m
  <2> QED BY <1>1, <1>2, <1>4, <2>1, <2>2, PostSays
<1> QED BY <1>3, <1>4

LEMMA BeatPasses ==
  ASSUME IInv, Passed(chan, table), NEW n \in Node, NEW y \in Node \ {n}, Beat(n, y)
  PROVE  Passed(chan', table')
<1>1. PICK q, d, type : Beaten(n, y, q, d, type)
  BY BeatShape
<1> DEFINE m == [type |-> type, from |-> n]
<1>2. Passed(q, table) /\ q \in [Link -> Seq(Message)]
  <2>1. CASE q = chan
    BY <2>1 DEF IInv, Queues
  <2>2. CASE q = Read(n, y) /\ (Reads(n, y, "HEART") \/ Reads(n, y, "HEARTRESPONSE"))
    <3>1. q \in [Link -> Seq(Message)]
      BY <2>2, ReadQueues DEF IInv, Queues
    <3>2. Passed(Read(n, y), table)
      BY <2>2, PassedRead DEF Passed
    <3> QED BY <2>2, <3>1, <3>2
  <2> QED BY <1>1, <2>1, <2>2 DEF Beaten
<1>3. \A z \in Node : Sound(table[z], z)
  BY DEF IInv
<1>4. m \in Message /\ (chan' = q \/ chan' = Post(q, n, {d}, m))
  BY <1>1 DEF Message, Beaten
<1>5. table' = table
  BY BeatShape
<1> HIDE DEF m
<1> QED BY <1>2, <1>3, <1>4, <1>5, PassedPost

-----------------------------------------------------------------------------
\* The ROUTE of y is read while the news spread.
LEMMA RoutePasses ==
  ASSUME IInv, NEW n \in Node, NEW y \in Node \ {n}, MsgRoute(n, y), NEW D \in SUBSET Node, NEW x \in D,
         Spreading(D, x), Aligned(table[n]), Passed(chan, table)
  PROVE  Passed(chan', table')
<1>1. PICK t : Heard(n, y, D, t)
  BY RouteHeard
<1> DEFINE m == Head(chan[<<y, n>>])
           q == Read(n, y)
<1>2. /\ Reads(n, y, "ROUTE") /\ chan' = SendRoute(q, n, t, y)
      /\ Grows(n, t) /\ Sound(t, n) /\ Names(t) = D
      /\ n \in HopsOneAway(table[y])
      /\ m.entries \in Seq(Routes)
      /\ \A k \in DOMAIN m.entries : Within(t, m.entries[k].chatName, m.entries[k].hopCount + 1)
  BY <1>1 DEF Heard, Grows
<1>3. /\ table'[n] = t /\ \A k \in Node \ {n} : table'[k] = table[k]
      /\ \A k \in Node : Sound(table[k], k) /\ Sound(table'[k], k) /\ Grown(table'[k], table[k])
  BY <1>2, GrowsFacts
<1>4. HopsOneAway(t) \subseteq On
  <2>1. HopsOneAway(t) \subseteq D
    BY <1>2, NearFacts
  <2> QED BY <2>1 DEF Spreading, Knowing
<1>5. q \in [Link -> Seq(Message)]
  BY <1>2, ReadQueues DEF IInv, Queues
<1>6. ASSUME NEW u \in Node \ {n}, NEW v \in HopsOneAway(table[u]), NEW p \in Node, NEW h \in Nat,
             Within(table[u], p, h)
      PROVE  Within(table'[v], p, h + 1) \/ Says(q, <<u, v>>, Bringing(p, h))
  <2>1. v \in Node \ {u}
    BY <1>3, NeighbourFacts
  <2>2. CASE Within(table[v], p, h + 1)
    BY <1>3, <2>1, <2>2 DEF Grown
  <2>3. CASE Says(chan, <<u, v>>, Bringing(p, h)) /\ <<u, v>> # <<y, n>>
    BY <1>2, <2>3, PassedRead
  <2>4. CASE Says(chan, <<u, v>>, Bringing(p, h)) /\ <<u, v>> = <<y, n>> /\ m \in Bringing(p, h)
    <3>1. PICK k \in DOMAIN m.entries : m.entries[k].chatName = p /\ m.entries[k].hopCount <= h
      BY <2>4 DEF Bringing
    <3>2. m.entries[k] \in Routes
      BY <1>2
    <3> HIDE DEF m
    <3>3. m.entries[k].hopCount \in Nat
      BY <3>2 DEF Routes
    <3>4. Within(t, p, m.entries[k].hopCount + 1)
      BY <1>2, <3>1
    <3>5. m.entries[k].hopCount + 1 \in Int /\ m.entries[k].hopCount + 1 <= h + 1
      BY <3>1, <3>3
    <3>6. Within(t, p, h + 1)
      BY <1>2, <3>4, <3>5, WithinMore
    <3> QED BY <1>3, <2>4, <3>6
  <2>5. CASE Says(chan, <<u, v>>, Bringing(p, h)) /\ <<u, v>> = <<y, n>> /\ m \notin Bringing(p, h)
    <3>1. <<u, v>> \in Link
      BY <2>1, LinkFacts
    <3> QED BY <1>2, <2>5, <3>1, ReadSays DEF IInv
  <2>6. Within(table[v], p, h + 1) \/ Says(chan, <<u, v>>, Bringing(p, h))
    BY <1>6 DEF Passed
  <2> QED BY <2>2, <2>3, <2>4, <2>5, <2>6
<1>7. ASSUME y \in HopsOneAway(t), NEW p \in Node, NEW h \in Nat, Within(t, p, h)
      PROVE  Within(table[y], p, h + 1) \/ Says(q, <<n, y>>, Bringing(p, h))
  <2>1. PICK e \in Entries(t) : e.chatName = p /\ e.hopCount <= h
    BY <1>7 DEF Within
  <2>2. e.hopCount \in Nat
    <3>1. e \in Routes
      BY <1>2, EntryFacts
    <3> QED BY <3>1 DEF Routes
  <2>3. CASE e \in Entries(table[n]) /\ y \in HopsOneAway(table[n])
    <3>1. Within(table[n], p, h)
      BY <2>1, <2>3 DEF Within
    <3>2. Within(table[y], p, h + 1) \/ Says(chan, <<n, y>>, Bringing(p, h))
      BY <2>3, <3>1 DEF Passed
    <3>3. <<n, y>> # <<y, n>>
      OBVIOUS
    <3> HIDE DEF q
    <3> QED BY <1>2, <2>3, <3>2, <3>3, PassedRead DEF q
  <2>4. CASE e \in Entries(table[n]) /\ y \notin HopsOneAway(table[n])
    <3>1. Names(table[n]) = {n}
      BY <1>2, <2>4 DEF Spreading, Knowing
    <3>2. p = n
      BY <2>1, <2>4, <3>1 DEF Names
    <3>3. Within(table[y], n, 1)
      BY <1>2, <1>3, NearFacts
    <3>4. 1 <= h + 1
      OBVIOUS
    <3>5. Within(table[y], n, h + 1)
      BY <1>3, <3>3, <3>4, WithinMore
    <3> QED BY <3>2, <3>5
  <2>5. CASE e \notin Entries(table[n])
    <3>1. p # y => Within(table[y], p, e.hopCount - 1)
      BY <1>1, <2>1, <2>5 DEF Heard
    <3>2. e.hopCount - 1 \in Int /\ e.hopCount - 1 <= h + 1 /\ 0 <= h + 1
      BY <2>1, <2>2
    <3>3. CASE p = y
      <4>1. [chatName |-> y, nextChatName |-> y, hopCount |-> 0] \in Entries(table[y])
        BY <1>3, EntryFacts
      <4>2. Within(table[y], y, h + 1)
        BY <3>2, <4>1 DEF Within
      <4> QED BY <3>3, <4>2
    <3>4. CASE p # y
      BY <1>3, <3>1, <3>2, <3>4, WithinMore
    <3> QED BY <3>3, <3>4
  <2> QED BY <2>3, <2>4, <2>5
<1> HIDE DEF q
<1>8. \A u \in Node : \A v \in HopsOneAway(table'[u]) : \A p \in Node : \A h \in Nat :
        Within(table'[u], p, h) /\ (u # n \/ v = y) =>
          Within(table'[v], p, h + 1) \/ Says(q, <<u, v>>, Bringing(p, h))
  BY <1>3, <1>6, <1>7
<1>9. Passed(SendRoute(q, n, table'[n], y), table')
  BY <1>3, <1>4, <1>5, <1>8, PassedSent
<1> QED BY <1>2, <1>3, <1>9

\* In a table as long as the network is large there is room for another name.
LEMMA LoginFits ==
  ASSUME Cardinality(Node) <= NumSlots, NEW n \in Node, NEW t, Sound(t, n), NEW x \in Node, x \notin Names(t)
  PROVE  Used(t) # Slot
<1> SUFFICES ASSUME Used(t) = Slot PROVE FALSE
  OBVIOUS
<1> DEFINE A == Slot
           B == Node \ {x}
           f == [j \in A |-> t.slots[j].chatName]
<1>1. \A j \in Slot : t.slots[j] # Null /\ t.slots[j].chatName \in Node /\ t.slots[j].chatName # x
  <2>1. \A j \in Slot : t.slots[j] \in Entries(t) /\ t.slots[j] # Null
    BY DEF Entries, Used
  <2>2. (\A e \in Entries(t) : e.chatName \in Names(t)) /\ Names(t) \subseteq Node
    BY EntryFacts
  <2> HIDE DEF A, B, f
  <2> QED BY <2>1, <2>2
<1>2. f \in [A -> B]
  BY <1>1
<1>3. IsFiniteSet(A) /\ Cardinality(A) = NumSlots
  <2>1. 0 \in Int /\ NumSlots - 1 \in Int /\ ~(0 > NumSlots - 1) /\ NumSlots - 1 - 0 + 1 = NumSlots
    BY SizesAssumption
  <2> QED BY <2>1, FS_Interval DEF Slot
<1>4. IsFiniteSet(B) /\ Cardinality(B) < Cardinality(A)
  <2>1. IsFiniteSet(B) /\ Cardinality(B) = Cardinality(Node) - 1
    BY FiniteAssumption, FS_RemoveElement
  <2>2. Cardinality(Node) \in Nat
    BY FiniteAssumption, FS_CardinalityType
  <2> QED BY <1>3, <2>1, <2>2, SizesAssumption
<1>5. \E a, b \in A : a # b /\ f[a] = f[b]
  <2> HIDE DEF A, B, f
  <2> QED BY <1>2, <1>3, <1>4, FS_PigeonHole
<1>6. PICK a, b \in Slot : a # b /\ t.slots[a].chatName = t.slots[b].chatName
  BY <1>5
<1> QED BY <1>1, <1>6 DEF Sound

\* The LOGIN of x is read.
LEMMA LoginPasses ==
  ASSUME IInv, Fresh, \A k \in Node : state[k] # "stopped", Cardinality(Node) <= NumSlots,
         NEW n \in Node, NEW x \in Node \ {n}, Aligned(table[n]), Asking(x, n), MsgLogin(n, x),
         Passed(chan, table)
  PROVE  Passed(chan', table') /\ \E t : Asked(n, x, t) /\ x \in HopsOneAway(t)
<1>1. PICK t : Asked(n, x, t)
  BY LoginHeard
<1> DEFINE q == Read(n, x)
           r == SendRoute(q, n, t, NoName)
           m == [type |-> "HEART", from |-> n]
           dests == {GetRouting(t, x)}
<1>2. /\ Reads(n, x, "LOGIN") /\ chan' = Post(r, n, dests, m)
      /\ Grows(n, t) /\ Sound(t, n)
      /\ HopsOneAway(t) \subseteq HopsOneAway(table[n]) \cup {x}
  BY <1>1 DEF Asked, Grows
<1>3. /\ table'[n] = t /\ \A k \in Node \ {n} : table'[k] = table[k]
      /\ \A k \in Node : Sound(table[k], k) /\ Sound(table'[k], k) /\ Grown(table'[k], table[k])
      /\ HopsOneAway(table[n]) \subseteq Names(table[n])
  BY <1>2, GrowsFacts
<1>4. x \in HopsOneAway(t)
  <2>1. t # table[n] \/ Used(t) # Slot
    BY <1>3, LoginFits DEF Asking
  <2> QED BY <1>1, <2>1 DEF Asked
<1>5. HopsOneAway(t) \subseteq On
  <2>1. x \in On /\ n \in On
    BY DEF Asking
  <2> QED BY <1>2, <1>3, <2>1, NamesRun
<1>6. Queues(q) /\ q \in [Link -> Seq(Message)]
  BY <1>2, ReadQueues DEF IInv, Queues
<1>7. ASSUME NEW u \in Node \ {n}, NEW v \in HopsOneAway(table[u]), NEW p \in Node, NEW h \in Nat,
             Within(table[u], p, h)
      PROVE  Within(table'[v], p, h + 1) \/ Says(q, <<u, v>>, Bringing(p, h))
  <2>1. v \in Node
    BY <1>3, NeighbourFacts
  <2>2. CASE Within(table[v], p, h + 1)
    BY <1>3, <2>1, <2>2 DEF Grown
  <2>3. CASE Says(chan, <<u, v>>, Bringing(p, h))
    BY <1>2, <2>3, PassedRead
  <2> QED BY <1>7, <2>2, <2>3 DEF Passed
<1>8. \A v \in HopsOneAway(t) : v # NoName
  BY <1>5, NodesAssumption DEF On
<1> HIDE DEF q
<1>9. \A u \in Node : \A v \in HopsOneAway(table'[u]) : \A p \in Node : \A h \in Nat :
        Within(table'[u], p, h) /\ (u # n \/ v = NoName) =>
          Within(table'[v], p, h + 1) \/ Says(q, <<u, v>>, Bringing(p, h))
  BY <1>3, <1>7, <1>8
<1>10. Passed(r, table')
  <2>1. Passed(SendRoute(q, n, table'[n], NoName), table')
    BY <1>3, <1>5, <1>6, <1>9, PassedSent
  <2> QED BY <1>3, <2>1
<1>11. r \in [Link -> Seq(Message)]
  <2>1. Queues(SendRoute(q, n, t, NoName))
    BY <1>2, <1>6, RouteQueues
  <2> QED BY <2>1 DEF Queues
<1>12. m \in Message
  BY DEF Message
<1>13. Passed(Post(r, n, dests, m), table')
  <2> HIDE DEF r, m, dests
  <2> QED BY <1>3, <1>10, <1>11, <1>12, PassedPost
<1> QED BY <1>1, <1>2, <1>4, <1>13

-----------------------------------------------------------------------------
\* While the news spread nobody asks.
LEMMA NobodyAsks ==
  ASSUME NEW D, NEW y, Spreading(D, y), NEW u \in Node, NEW v \in Node
  PROVE  ~Asking(u, v)
<1> SUFFICES ASSUME Asking(u, v) PROVE FALSE
  OBVIOUS
<1>1. <<u, v>> \in Link /\ chan[<<u, v>>] = <<LoginMessage(u)>>
  BY DEF Asking, Link
<1>2. 1 \in DOMAIN <<LoginMessage(u)>> /\ <<LoginMessage(u)>>[1] = LoginMessage(u)
  OBVIOUS
<1>3. LoginMessage(u) \in NewsMail(D, table)[<<u, v>>]
  BY <1>1, <1>2 DEF Spreading, Carries
<1> QED BY <1>1, <1>3 DEF NewsMail, LoginMessage

\* n has one new neighbour at most, to which it is linked.
LEMMA LinkedGrows ==
  ASSUME IInv, Linked, NEW n \in Node, NEW t, Grows(n, t), links' = links,
         NEW y \in Node, {n, y} \in links, HopsOneAway(t) \subseteq HopsOneAway(table[n]) \cup {y},
         \A u, v \in Node : Asking(u, v) => u \in HopsOneAway(table'[v])
  PROVE  Linked'
<1>1. /\ table'[n] = t /\ \A k \in Node \ {n} : table'[k] = table[k]
      /\ \A k \in Node : HopsOneAway(table[k]) \subseteq HopsOneAway(table'[k])
  BY GrowsFacts
<1>2. ASSUME NEW u \in Node, NEW v \in HopsOneAway(table'[u]) PROVE {u, v} \in links'
  <2>1. CASE v \in HopsOneAway(table[u])
    BY <2>1 DEF Linked
  <2>2. CASE v \notin HopsOneAway(table[u])
    <3>1. u = n /\ v = y
      BY <1>1, <1>2, <2>2
    <3> QED BY <3>1
  <2> QED BY <2>1, <2>2
<1>3. ASSUME NEW u \in Node, NEW v \in Node, {u, v} \in links, u # v
      PROVE  v \in HopsOneAway(table'[u]) \/ u \in HopsOneAway(table'[v])
  <2>1. \/ v \in HopsOneAway(table[u]) \/ u \in HopsOneAway(table[v])
        \/ Asking(u, v) \/ Asking(v, u)
    BY <1>3 DEF Linked
  <2> QED BY <1>1, <2>1
<1> QED BY <1>2, <1>3 DEF Linked

\* HEARTs change neither tables nor links.
LEMMA BeatSettle ==
  ASSUME IInv, Passed(chan, table), Linked, NEW n \in Node, NEW x \in Node \ {n}, Beat(n, x)
  PROVE  Passed(chan', table') /\ Linked'
<1>1. table' = table /\ links' = links
  BY BeatShape
<1>2. \A u, v \in Node : Asking(u, v) => Asking(u, v)'
  BY AskingBeats
<1>3. Linked'
  BY <1>1, <1>2 DEF Linked
<1> QED BY <1>3, BeatPasses

\* A handler passes on what has become known, and links nobody.
LEMMA HandleSettle ==
  ASSUME IInv, Fresh, Joined, Doing, Cardinality(Node) <= NumSlots, Passed(chan, table), Linked,
         NEW n \in Node, NEW x \in Node \ {n}, Handle(n, x)
  PROVE  Passed(chan', table') /\ Linked'
<1>1. links' = links
  BY DEF Handle, MsgLogin, MsgRoute, MsgLogout, MsgHeart, MsgHeartResponse, Timeout, Alarm
<1>2. CASE MsgLogin(n, x) /\ Calmed /\ Asking(x, n)
  <2>1. Passed(chan', table') /\ \E t : Asked(n, x, t) /\ x \in HopsOneAway(t)
    BY <1>2, LoginPasses DEF Joined
  <2>2. PICK t : Asked(n, x, t) /\ x \in HopsOneAway(t)
    BY <2>1
  <2>3. Grows(n, t) /\ HopsOneAway(t) \subseteq HopsOneAway(table[n]) \cup {x}
    BY <2>2 DEF Asked
  <2>4. {n, x} \in links
    <3>1. {n, x} = {x, n}
      OBVIOUS
    <3> QED BY <1>2, <3>1 DEF Asking
  <2>5. \A u, v \in Node : Asking(u, v) => u \in HopsOneAway(table'[v])
    <3>1. \A u, v \in Node : Asking(u, v) => u = x /\ v = n
      BY <1>2, AsksAlone
    <3>2. table'[n] = t
      BY <2>3, GrowsFacts
    <3> QED BY <2>2, <3>1, <3>2
  <2>6. Linked'
    BY <1>1, <2>3, <2>4, <2>5, LinkedGrows
  <2> QED BY <2>1, <2>6
<1>3. ASSUME MsgRoute(n, x), NEW D \in SUBSET Node, NEW y \in D, Spreading(D, y)
      PROVE  Passed(chan', table') /\ Linked'
  <2>1. Passed(chan', table')
    BY <1>3, RoutePasses DEF Joined
  <2>2. PICK t : Heard(n, x, D, t)
    BY <1>3, RouteHeard DEF Joined
  <2>3. /\ Grows(n, t) /\ n \in HopsOneAway(table[x])
        /\ HopsOneAway(t) \subseteq HopsOneAway(table[n]) \cup {x}
    BY <2>2 DEF Heard
  <2>4. {n, x} \in links
    <3>1. {n, x} = {x, n}
      OBVIOUS
    <3> QED BY <2>3, <3>1 DEF Linked
  <2>5. \A u, v \in Node : ~Asking(u, v)
    BY <1>3, NobodyAsks
  <2>6. Linked'
    BY <1>1, <2>3, <2>4, <2>5, LinkedGrows
  <2> QED BY <2>1, <2>6
<1> QED BY <1>2, <1>3, BeatSettle, DoingHandles

\* At rest the next node links itself with the one it asks.
LEMMA StartSettle ==
  ASSUME IInv, Fresh, Joined, Calmed, Rest, Passed(chan, table), Linked,
         NEW n \in Node, NEW to \in Node \cup {NoName}, Start(n, to)
  PROVE  Passed(chan', table') /\ Linked'
<1>1. /\ to \in On \cup {NoName} /\ table' = table
      /\ state[n] # "on"
      /\ chan' = Post(chan, n, {to}, LoginMessage(n))
      /\ links' = links \cup {{n, m} : m \in {to} \ {NoName}}
  BY DEF Start
<1>2. \A l \in Link : chan[l] = <<>>
  BY DEF Rest
<1>3. Passed(chan', table')
  <2>1. LoginMessage(n) \in Message
    BY DEF LoginMessage, Message
  <2>2. chan \in [Link -> Seq(Message)] /\ \A z \in Node : Sound(table[z], z)
    BY DEF IInv, Queues
  <2> QED BY <1>1, <2>1, <2>2, PassedPost
<1>4. \A u, v \in Node : ~Asking(u, v)
  <2> SUFFICES ASSUME NEW u \in Node, NEW v \in Node, Asking(u, v) PROVE FALSE
    OBVIOUS
  <2>1. <<u, v>> \in Link
    BY DEF Asking, Link
  <2> QED BY <1>2, <2>1 DEF Asking
<1>5. ASSUME to \in On PROVE Asking(n, to)'
  <2>1. to # NoName
    BY <1>5, NodesAssumption DEF On
  <2> QED BY <2>1, StartAsks
<1>6. \A u \in Node : \A v \in HopsOneAway(table'[u]) : {u, v} \in links'
  BY <1>1 DEF Linked
<1>7. ASSUME NEW u \in Node, NEW v \in Node, {u, v} \in links', u # v
      PROVE  v \in HopsOneAway(table'[u]) \/ u \in HopsOneAway(table'[v]) \/ Asking(u, v)' \/ Asking(v, u)'
  <2>1. CASE {u, v} \in links
    BY <1>1, <1>4, <1>7, <2>1 DEF Linked
  <2>2. CASE {u, v} \notin links
    <3>1. to \in On /\ {u, v} = {n, to}
      BY <1>1, <1>7, <2>2
    <3>2. (u = n /\ v = to) \/ (u = to /\ v = n)
      BY <1>7, <3>1
    <3> QED BY <1>5, <3>1, <3>2
  <2> QED BY <2>1, <2>2
<1>8. Linked'
  BY <1>6, <1>7 DEF Linked
<1> QED BY <1>3, <1>8

LEMMA InitSettle == Init => SettleInv
<1> SUFFICES ASSUME Init PROVE Passed(chan, table) /\ Linked
  BY DEF SettleInv
<1>1. /\ \A n \in Node : HopsOneAway(table[n]) = {}
      /\ \A l \in Link : chan[l] = <<>>
      /\ links = {}
  BY InitTableFacts DEF Init
<1>2. \A u, v \in Node : ~Asking(u, v)
  BY <1>1 DEF Asking, Init, On
<1> QED BY <1>1, <1>2 DEF Passed, Linked

LEMMA NextSettle == FreshInv /\ LoopInv /\ SettleInv /\ [Next]_vars => SettleInv'
<1> SUFFICES ASSUME IInv, Fresh, LoopInv, SettleInv, [Next]_vars,
                    calm', upsets' = 0, Cardinality(Node) <= NumSlots
             PROVE  Passed(chan', table') /\ Linked'
  BY DEF FreshInv, SettleInv
<1>1. calm /\ upsets = 0 => Joined /\ Doing /\ Passed(chan, table) /\ Linked
  BY DEF LoopInv, SettleInv
<1>2. CASE UNCHANGED vars
  <2>1. Passed(chan, table) /\ Linked
    BY <1>1, <1>2 DEF vars
  <2>2. table' = table /\ chan' = chan /\ links' = links
    BY <1>2 DEF vars
  <2>3. \A u, v \in Node : Asking(u, v)' <=> Asking(u, v)
    BY <1>2 DEF vars, Asking, On
  <2>4. Linked'
    BY <2>1, <2>2, <2>3 DEF Linked
  <2> QED BY <2>1, <2>2, <2>4
<1>3. ASSUME NEW n \in Node, DoLogout(n) \/ Crash(n) PROVE FALSE
  <2>1. upsets' = upsets + 1
    BY <1>3 DEF DoLogout, Crash, Stop
  <2>2. upsets \in Nat
    BY SizesAssumption DEF IInv
  <2> QED BY <2>1, <2>2
<1>4. ASSUME NEW n \in Node, NEW to \in Node \cup {NoName}, Start(n, to)
      PROVE  Passed(chan', table') /\ Linked'
  <2>1. calm /\ Rest /\ upsets = 0
    BY <1>4 DEF Start
  <2>2. Joined /\ Doing /\ Passed(chan, table) /\ Linked
    BY <1>1, <2>1
  <2>3. Calmed
    BY <2>1, <2>2, RestCalmed
  <2> QED BY <1>4, <2>1, <2>2, <2>3, StartSettle
<1>5. ASSUME NEW n \in Node, NEW x \in Node \ {n}, Handle(n, x)
      PROVE  Passed(chan', table') /\ Linked'
  <2>1. calm /\ upsets = 0
    BY <1>5 DEF Handle, MsgLogin, MsgRoute, MsgLogout, MsgHeart, MsgHeartResponse, Timeout, Alarm
  <2> QED BY <1>1, <1>5, <2>1, HandleSettle
<1>6. ASSUME NEW n \in Node, NEW x \in Node \ {n}, SendHeart(n, x)
      PROVE  Passed(chan', table') /\ Linked'
  <2>1. calm /\ upsets = 0
    BY <1>6 DEF SendHeart
  <2> QED BY <1>1, <1>6, <2>1, BeatSettle DEF Beat
<1>7. ASSUME NEW n \in Node, NEW x \in Node \ {n}, FalseAlarm(n, x) PROVE FALSE
  BY <1>7 DEF FalseAlarm
<1>8. \A l \in Link : l[1] \in Node /\ l[2] \in Node \ {l[1]}
  BY DEF Link
<1>9. \/ UNCHANGED vars
      \/ \E n \in Node : DoLogout(n) \/ Crash(n)
      \/ \E n \in Node : \E to \in Node \cup {NoName} : Start(n, to)
      \/ \E n \in Node : \E x \in Node \ {n} : Handle(n, x) \/ SendHeart(n, x) \/ FalseAlarm(n, x)
  BY <1>8 DEF Next
<1> QED BY <1>2, <1>3, <1>4, <1>5, <1>6, <1>7, <1>9

LEMMA SettleHolds ==
  FreshInv /\ LoopInv /\ SettleInv => (upsets = 0 /\ Cardinality(Node) <= NumSlots => Settled)
<1> SUFFICES ASSUME IInv, LoopInv, SettleInv, upsets = 0, Cardinality(Node) <= NumSlots, calm, Rest,
                    NEW n \in On
             PROVE  Known(table[n]) = Component(n)
  BY DEF FreshInv, Settled
<1>1. Joined /\ Doing /\ Passed(chan, table) /\ Linked
  BY DEF LoopInv, SettleInv
<1>2. \A l \in Link : chan[l] = <<>>
  BY DEF Rest
<1>3. Agreed(Node) /\ Mutual
  BY <1>1, RestCalmed DEF Calmed
<1>4. \A u \in Node : \A v \in HopsOneAway(table[u]) : v \in Node \ {u}
  BY NeighbourFacts DEF IInv
<1>5. ASSUME NEW u \in Node, NEW v \in HopsOneAway(table[u]), NEW p \in Node, NEW h \in Nat,
             Within(table[u], p, h)
      PROVE  Within(table[v], p, h + 1)
  <2>1. chan[<<u, v>>] = <<>>
    BY <1>2, <1>4, LinkFacts
  <2>2. ~Says(chan, <<u, v>>, Bringing(p, h))
    BY <2>1 DEF Says
  <2> QED BY <1>1, <1>5, <2>2 DEF Passed
<1>6. \A u, v \in Node : ~Asking(u, v)
  <2> SUFFICES ASSUME NEW u \in Node, NEW v \in Node, Asking(u, v) PROVE FALSE
    OBVIOUS
  <2>1. <<u, v>> \in Link
    BY DEF Asking, Link
  <2> QED BY <1>2, <2>1 DEF Asking
<1>7. \A u, v \in Node : u # v => (v \in HopsOneAway(table[u]) <=> {u, v} \in links)
  BY <1>1, <1>3, <1>6 DEF Linked, Mutual
<1>8. Level
  BY <1>1, <1>3, <1>5, <1>7 DEF Level, Joined
<1> QED BY <1>8, LevelSettled DEF On

\* As long as nodes only join, each of them when the network is at rest, the
\* tables settle, if they are long enough for all names: whenever the network
\* is at rest again, each node knows exactly the nodes it is linked with,
\* directly or through others, at their true distance.
THEOREM SettlesAfterJoins ==
  Spec => [](upsets = 0 /\ Cardinality(Node) <= NumSlots => Settled)
BY InitFresh, NextFresh, InitLoop, NextLoop, InitSettle, NextSettle, SettleHolds, PTL DEF Spec

-----------------------------------------------------------------------------
\* Who is asked for a sign of life.
Hearts == {m \in Message : m.type = "HEART"}

\* A HEART is on its way from u to v behind a ROUTE.
Later(q, u, v) ==
  \E i, k \in DOMAIN q[<<u, v>>] : i < k /\ q[<<u, v>>][i].type = "ROUTE" /\ q[<<u, v>>][k].type = "HEART"

\* The receiver of a HEART knows the sender, or is asked again behind a ROUTE,
\* or has a LOGIN on its way that will make the sender send both.
Welcome(u, v) ==
  \/ u \in Names(table[v])
  \/ Later(chan, u, v)
  \/ Asking(v, u) /\ \A t \in TableUpdate(table[u], LoginRow(v)) : v \in HopsOneAway(t)

HeartInv ==
  calm /\ upsets = 0 => \A u \in Node : \A v \in Node \ {u} : Says(chan, <<u, v>>, Hearts) => Welcome(u, v)

LEMMA PostLater ==
  ASSUME NEW q, q \in [Link -> Seq(Message)], NEW u \in Node, NEW v \in Node \ {u}, NEW n, NEW dests,
         NEW m \in Message,
         \/ Later(q, u, v)
         \/ Tells(q, u, v) /\ m.type = "HEART" /\ u = n /\ v \in dests \cap On
  PROVE  Later(Post(q, n, dests, m), u, v)
<1> DEFINE l == <<u, v>>
           p == Post(q, n, dests, m)
           s == q[l]
<1>1. l \in Link /\ l[1] = u /\ l[2] = v
  BY LinkFacts
<1>2. p[l] = IF u = n /\ v \in dests \cap On THEN Append(s, m) ELSE s
  BY <1>1, PostChannel
<1>3. s \in Seq(Message)
  BY <1>1
<1>4. /\ Later(q, u, v) <=> \E i, k \in DOMAIN s : i < k /\ s[i].type = "ROUTE" /\ s[k].type = "HEART"
      /\ Later(p, u, v) <=> \E i, k \in DOMAIN p[l] : i < k /\ p[l][i].type = "ROUTE" /\ p[l][k].type = "HEART"
      /\ Tells(q, u, v) <=> \E i \in DOMAIN s : s[i].type = "ROUTE"
  BY DEF Later, Tells
<1> SUFFICES Later(p, u, v)
  OBVIOUS
<1> HIDE DEF l, p, s
<1>5. CASE u = n /\ v \in dests \cap On
  <2>1. p[l] = Append(s, m)
    BY <1>2, <1>5
  <2>2. /\ DOMAIN Append(s, m) = 1 .. Len(s) + 1 /\ DOMAIN s = 1 .. Len(s) /\ Len(s) \in Nat
        /\ Append(s, m)[Len(s) + 1] = m
        /\ \A k \in 1 .. Len(s) : Append(s, m)[k] = s[k]
    BY <1>3
  <2>3. CASE Later(q, u, v)
    <3>1. PICK i, k \in DOMAIN s : i < k /\ s[i].type = "ROUTE" /\ s[k].type = "HEART"
      BY <1>4, <2>3
    <3>2. i \in DOMAIN Append(s, m) /\ Append(s, m)[i] = s[i]
      BY <2>2
    <3>3. k \in DOMAIN Append(s, m) /\ Append(s, m)[k] = s[k]
      BY <2>2
    <3> QED BY <1>4, <2>1, <3>1, <3>2, <3>3
  <2>4. CASE Tells(q, u, v) /\ m.type = "HEART"
    <3>1. PICK i \in DOMAIN s : s[i].type = "ROUTE"
      BY <1>4, <2>4
    <3>2. i \in DOMAIN Append(s, m) /\ Append(s, m)[i] = s[i] /\ i < Len(s) + 1
      BY <2>2
    <3>3. Len(s) + 1 \in DOMAIN Append(s, m) /\ Append(s, m)[Len(s) + 1].type = "HEART"
      BY <2>2, <2>4
    <3> QED BY <1>4, <2>1, <3>1, <3>2, <3>3
  <2> QED BY <2>3, <2>4
<1>6. CASE ~(u = n /\ v \in dests \cap On)
  <2>1. p[l] = s
    BY <1>2, <1>6
  <2> QED BY <1>4, <1>6, <2>1
<1> QED BY <1>5, <1>6

LEMMA ReadLater ==
  ASSUME IInv, NEW n \in Node, NEW x \in Node \ {n}, NEW type, Reads(n, x, type),
         NEW u \in Node, NEW v \in Node \ {u}, Later(chan, u, v), <<u, v>> # <<x, n>> \/ type # "ROUTE"
  PROVE  Later(Read(n, x), u, v)
<1> DEFINE l == <<u, v>>
           s == chan[l]
<1>1. l \in Link /\ <<x, n>> \in Link /\ chan \in [Link -> Seq(Message)] /\ s \in Seq(Message)
  BY LinkFacts DEF IInv, Queues
<1>2. CASE l # <<x, n>>
  <2>1. Read(n, x)[l] = s
    BY <1>1, <1>2 DEF Read
  <2> HIDE DEF s
  <2> QED BY <2>1 DEF Later, s
<1>3. CASE l = <<x, n>>
  <2>1. Read(n, x)[l] = Tail(s) /\ s # <<>> /\ Head(s).type # "ROUTE"
    BY <1>1, <1>3 DEF Read, Reads
  <2>2. PICK i, k \in DOMAIN s : i < k /\ s[i].type = "ROUTE" /\ s[k].type = "HEART"
    BY DEF Later
  <2> HIDE DEF s, l
  <2>3. /\ Head(s) = s[1] /\ DOMAIN s = 1 .. Len(s) /\ Len(s) \in Nat
        /\ DOMAIN Tail(s) = 1 .. Len(s) - 1 /\ \A j \in 1 .. Len(s) - 1 : Tail(s)[j] = s[j + 1]
    BY <1>1, <2>1
  <2>4. i # 1 /\ i \in 1 .. Len(s) /\ k \in 1 .. Len(s)
    BY <2>1, <2>2, <2>3
  <2>5. /\ i - 1 \in 1 .. Len(s) - 1 /\ k - 1 \in 1 .. Len(s) - 1 /\ i - 1 < k - 1
        /\ i - 1 + 1 = i /\ k - 1 + 1 = k
    BY <2>2, <2>3, <2>4
  <2>6. Tail(s)[i - 1] = s[i] /\ Tail(s)[k - 1] = s[k]
    BY <2>3, <2>5
  <2> QED BY <2>1, <2>2, <2>3, <2>5, <2>6 DEF Later, l
<1> QED BY <1>2, <1>3

\* What is on its way after a message has been sent, or one has been read.
LEMMA PostedOrThere ==
  ASSUME NEW q, q \in [Link -> Seq(Message)], NEW l \in Link, NEW A, NEW n, NEW dests, NEW m \in Message,
         Says(Post(q, n, dests, m), l, A)
  PROVE  Says(q, l, A) \/ (m \in A /\ l[1] = n /\ l[2] \in dests \cap On)
<1> DEFINE p == Post(q, n, dests, m)
           s == q[l]
<1>1. p[l] = IF l[1] = n /\ l[2] \in dests \cap On THEN Append(s, m) ELSE s
  BY PostChannel
<1>2. s \in Seq(Message)
  OBVIOUS
<1>3. PICK k \in DOMAIN p[l] : p[l][k] \in A
  BY DEF Says
<1>4. (\E j \in DOMAIN s : s[j] \in A) => Says(q, l, A)
  BY DEF Says
<1> HIDE DEF p, s
<1>5. CASE l[1] = n /\ l[2] \in dests \cap On
  <2>1. p[l] = Append(s, m)
    BY <1>1, <1>5
  <2>2. (k \in DOMAIN s /\ p[l][k] = s[k]) \/ p[l][k] = m
    BY <1>2, <1>3, <2>1
  <2> QED BY <1>3, <1>4, <1>5, <2>2
<1>6. CASE ~(l[1] = n /\ l[2] \in dests \cap On)
  BY <1>1, <1>3, <1>4, <1>6
<1> QED BY <1>5, <1>6

LEMMA ReadWasThere ==
  ASSUME IInv, NEW n \in Node, NEW x \in Node \ {n}, NEW type, Reads(n, x, type), NEW l \in Link, NEW A,
         Says(Read(n, x), l, A)
  PROVE  Says(chan, l, A)
<1> DEFINE s == chan[l]
<1>1. <<x, n>> \in Link /\ chan \in [Link -> Seq(Message)] /\ s \in Seq(Message)
  BY LinkFacts DEF IInv, Queues
<1>2. CASE l # <<x, n>>
  <2>1. Read(n, x)[l] = s
    BY <1>1, <1>2 DEF Read
  <2> QED BY <2>1 DEF Says
<1>3. CASE l = <<x, n>>
  <2>1. Read(n, x)[l] = Tail(s) /\ s # <<>>
    BY <1>1, <1>3 DEF Read, Reads
  <2>2. PICK k \in DOMAIN Tail(s) : Tail(s)[k] \in A
    BY <2>1 DEF Says
  <2> HIDE DEF s
  <2>3. k + 1 \in DOMAIN s /\ s[k + 1] = Tail(s)[k]
    BY <1>1, <2>1, <2>2
  <2> QED BY <2>2, <2>3 DEF Says, s
<1> QED BY <1>2, <1>3

-----------------------------------------------------------------------------
\* A HEART is sent to somebody by whom the sender is known, or will be.
LEMMA Greeted ==
  ASSUME IInv, Doing, NEW n \in Node, NEW x \in Node \ {n}, Greets(n, x)
  PROVE  \/ n \in Names(table[x])
         \/ Tells(chan, n, x)
         \/ Asking(x, n) /\ \A t \in TableUpdate(table[n], LoginRow(x)) : x \in HopsOneAway(t)
<1>1. HopsOneAway(table[x]) \subseteq Names(table[x])
  BY NearFacts DEF IInv
<1>2. CASE x \in HopsOneAway(table[n])
  <2>1. CASE Calmed
    BY <1>1, <1>2, <2>1 DEF Calmed, Mutual
  <2>2. ASSUME NEW D \in SUBSET Node, NEW z \in D, Spreading(D, z), n \notin HopsOneAway(table[x])
        PROVE  Tells(chan, n, x)
    <3>1. n = z /\ Names(table[x]) = {x} /\ Names(table[z]) = D
      BY <1>2, <2>2 DEF Spreading, Knowing
    <3>2. Names(table[x]) # D
      BY <3>1
    <3> QED BY <1>2, <2>2, <3>1, <3>2 DEF Spreading, Telling
  <2> QED BY <1>1, <2>1, <2>2 DEF Doing
<1>3. ASSUME Reads(n, x, "LOGIN"), NEW t \in TableUpdate(table[n], LoginRow(x)), x \in HopsOneAway(t)
      PROVE  Asking(x, n) /\ \A u \in TableUpdate(table[n], LoginRow(x)) : x \in HopsOneAway(u)
  <2>1. Asking(x, n)
    BY <1>3, DoingReads
  <2>2. \A u \in TableUpdate(table[n], LoginRow(x)) : u = t
    BY LoginPuts
  <2> QED BY <1>3, <2>1, <2>2
<1> QED BY <1>2, <1>3 DEF Greets

LEMMA BeatWelcome ==
  ASSUME IInv, Doing, \A u \in Node : \A v \in Node \ {u} : Says(chan, <<u, v>>, Hearts) => Welcome(u, v),
         NEW n \in Node, NEW x \in Node \ {n}, Beat(n, x),
         NEW u \in Node, NEW v \in Node \ {u}, Says(chan', <<u, v>>, Hearts)
  PROVE  Welcome(u, v)'
<1>1. PICK q, d, type : Beaten(n, x, q, d, type)
  BY BeatShape
<1> DEFINE m == [type |-> type, from |-> n]
           l == <<u, v>>
<1>2. table' = table /\ l \in Link /\ l[1] = u /\ l[2] = v
  BY BeatShape, LinkFacts
<1>3. m \in Message /\ m.type = type
  BY <1>1 DEF Beaten, Message
<1>4. chan' = q \/ chan' = Post(q, n, {d}, m)
  BY <1>1 DEF Beaten
<1>5. /\ q \in [Link -> Seq(Message)]
      /\ Says(q, l, Hearts) => Says(chan, l, Hearts)
      /\ Later(chan, u, v) => Later(q, u, v)
      /\ Tells(chan, u, v) => Tells(q, u, v)
  <2>1. CASE q = chan
    BY <2>1 DEF IInv, Queues
  <2>2. ASSUME q = Read(n, x), NEW ty \in {"HEART", "HEARTRESPONSE"}, Reads(n, x, ty)
        PROVE  /\ q \in [Link -> Seq(Message)]
               /\ Says(q, l, Hearts) => Says(chan, l, Hearts)
               /\ Later(chan, u, v) => Later(q, u, v)
               /\ Tells(chan, u, v) => Tells(q, u, v)
    <3>1. Queues(chan) /\ ty # "ROUTE"
      BY DEF IInv
    <3>2. q \in [Link -> Seq(Message)]
      BY <2>2, <3>1, ReadQueues DEF Queues
    <3> HIDE DEF l
    <3>3. Says(q, l, Hearts) => Says(chan, l, Hearts)
      BY <1>2, <2>2, ReadWasThere
    <3>4. Later(chan, u, v) => Later(q, u, v)
      BY <2>2, <3>1, ReadLater
    <3>5. Tells(chan, u, v) => Tells(q, u, v)
      BY <2>2, <3>1, ReadTells
    <3> QED BY <3>2, <3>3, <3>4, <3>5
  <2> QED BY <1>1, <2>1, <2>2 DEF Beaten
<1>6. Asking(v, u) => Asking(v, u)'
  BY AskingBeats
<1> HIDE DEF m, l
<1>7. CASE Says(chan, l, Hearts)
  <2>1. Welcome(u, v)
    BY <1>7 DEF l
  <2>2. Later(q, u, v) => Later(chan', u, v)
    BY <1>3, <1>4, <1>5, PostLater
  <2> QED BY <1>2, <1>5, <1>6, <2>1, <2>2 DEF Welcome
<1>8. CASE ~Says(chan, l, Hearts)
  <2>1. chan' = Post(q, n, {d}, m) /\ m \in Hearts /\ u = n /\ v \in {d} \cap On
    <3>1. Says(chan', l, Hearts) /\ ~Says(q, l, Hearts)
      BY <1>5, <1>8 DEF l
    <3>2. chan' = Post(q, n, {d}, m)
      BY <1>4, <3>1
    <3> QED BY <1>2, <1>3, <1>5, <3>1, <3>2, PostedOrThere
  <2>2. type = "HEART"
    BY <1>3, <2>1 DEF Hearts
  <2>3. v = x /\ Greets(n, x)
    BY <1>1, <2>1, <2>2 DEF Beaten
  <2>4. \/ n \in Names(table[x])
        \/ Tells(chan, n, x)
        \/ Asking(x, n) /\ \A t \in TableUpdate(table[n], LoginRow(x)) : x \in HopsOneAway(t)
    BY <2>3, Greeted
  <2>5. Tells(chan, n, x) => Later(chan', u, v)
    BY <1>3, <1>5, <2>1, <2>2, <2>3, PostLater
  <2> QED BY <1>2, <1>6, <2>1, <2>3, <2>4, <2>5 DEF Welcome
<1> QED BY <1>7, <1>8

\* While x asks n no ROUTE is on its way.
LEMMA NothingLater ==
  ASSUME NEW x \in Node, NEW n \in Node, Asking(x, n), NEW u \in Node, NEW v \in Node \ {u}
  PROVE  ~Later(chan, u, v)
<1> SUFFICES ASSUME NEW i \in DOMAIN chan[<<u, v>>], chan[<<u, v>>][i].type = "ROUTE" PROVE FALSE
  BY DEF Later
<1>1. <<u, v>> \in Link
  BY LinkFacts
<1>2. chan[<<u, v>>][i] \in AskMail(x, n)[<<u, v>>]
  BY <1>1 DEF Asking, Carries
<1> QED BY <1>1, <1>2 DEF AskMail, Beats, LoginMessage

\* The HEART of msg_login comes behind its ROUTE.
LEMMA LoginLater ==
  ASSUME IInv, NEW n \in Node, NEW x \in Node \ {n}, NEW type, Reads(n, x, type), NEW t, Sound(t, n),
         x \in HopsOneAway(t), x \in On
  PROVE  Later(Post(SendRoute(Read(n, x), n, t, NoName), n, {GetRouting(t, x)}, [type |-> "HEART", from |-> n]), n, x)
<1> DEFINE q == Read(n, x)
           r == SendRoute(q, n, t, NoName)
           m == [type |-> "HEART", from |-> n]
           dests == {GetRouting(t, x)}
<1>1. Queues(q) /\ q \in [Link -> Seq(Message)]
  BY ReadQueues DEF IInv, Queues
<1>2. r = Post(q, n, HopsOneAway(t) \ {NoName}, RouteOf(n, t)) /\ RouteOf(n, t) \in Message
  BY RouteFacts
<1>3. RouteOf(n, t).type = "ROUTE" /\ m.type = "HEART" /\ m \in Message
  BY DEF RouteOf, Message
<1>4. x # NoName /\ x \in dests \cap On
  BY NeighbourFacts, NodesAssumption
<1> HIDE DEF q, m, dests
<1>5. Tells(r, n, x)
  BY <1>1, <1>2, <1>3, <1>4, PostTells
<1>6. r \in [Link -> Seq(Message)]
  BY <1>1, RouteQueues DEF Queues
<1> HIDE DEF r
<1>7. Later(Post(r, n, dests, m), n, x)
  BY <1>3, <1>4, <1>5, <1>6, PostLater
<1> QED BY <1>7 DEF q, r, m, dests

LEMMA LoginWelcome ==
  ASSUME IInv, Fresh, Joined, \A u \in Node : \A v \in Node \ {u} : Says(chan, <<u, v>>, Hearts) => Welcome(u, v),
         NEW n \in Node, NEW x \in Node \ {n}, MsgLogin(n, x), Asking(x, n),
         NEW u \in Node, NEW v \in Node \ {u}, Says(chan', <<u, v>>, Hearts)
  PROVE  Welcome(u, v)'
<1>1. PICK t : Asked(n, x, t) /\ t \in TableUpdate(table[n], LoginRow(x))
  BY LoginHeard DEF Joined, Asked
<1> DEFINE q == Read(n, x)
           r == SendRoute(q, n, t, NoName)
           m == [type |-> "HEART", from |-> n]
           l == <<u, v>>
<1>2. /\ Reads(n, x, "LOGIN") /\ chan' = Post(r, n, {GetRouting(t, x)}, m)
      /\ Grows(n, t) /\ Sound(t, n)
      /\ HopsOneAway(t) \subseteq HopsOneAway(table[n]) \cup {x}
      /\ t = table[n] \/ x \in HopsOneAway(t)
  BY <1>1 DEF Asked, Grows
<1>3. /\ table'[n] = t /\ \A k \in Node \ {n} : table'[k] = table[k]
      /\ \A k \in Node : Names(table[k]) \subseteq Names(table'[k])
  BY <1>2, GrowsFacts
<1>4. Queues(q) /\ q \in [Link -> Seq(Message)] /\ r \in [Link -> Seq(Message)] /\ m \in Message
  <2>1. Queues(q)
    BY <1>2, ReadQueues DEF IInv
  <2>2. Queues(r)
    <3> HIDE DEF q
    <3> QED BY <1>2, <2>1, RouteQueues
  <2> QED BY <2>1, <2>2 DEF Queues, Message
<1>5. l \in Link /\ l[1] = u /\ l[2] = v
  BY LinkFacts
<1>6. r = Post(q, n, HopsOneAway(t) \ {NoName}, RouteOf(n, t)) /\ RouteOf(n, t) \in Message
  BY <1>2, RouteFacts
<1>7. RouteOf(n, t) \notin Hearts /\ RouteOf(n, t).type = "ROUTE" /\ m.type = "HEART"
  BY DEF RouteOf, Hearts
<1> HIDE DEF q, r, m, l
<1>8. CASE Says(chan, l, Hearts)
  <2>1. Welcome(u, v)
    BY <1>8 DEF l
  <2>2. u \in Names(table[v]) \/ (v = x /\ u = n /\ x \in HopsOneAway(t))
    BY <1>1, <2>1, NothingLater, AsksAlone DEF Welcome
  <2>3. CASE u \in Names(table[v])
    BY <1>3, <2>3 DEF Welcome
  <2>4. CASE v = x /\ u = n /\ x \in HopsOneAway(t)
    <3>1. x \in On
      BY DEF Asking
    <3>2. Later(chan', n, x)
      BY <1>2, <2>4, <3>1, LoginLater DEF q, r, m
    <3> QED BY <2>4, <3>2 DEF Welcome
  <2> QED BY <2>2, <2>3, <2>4
<1>9. CASE ~Says(chan, l, Hearts)
  <2>1. ~Says(q, l, Hearts)
    BY <1>2, <1>5, <1>9, ReadWasThere DEF q
  <2>2. ~Says(r, l, Hearts)
    BY <1>4, <1>5, <1>6, <1>7, <2>1, PostedOrThere
  <2>3. u = n /\ v \in {GetRouting(t, x)} \cap On
    <3>1. Says(Post(r, n, {GetRouting(t, x)}, m), l, Hearts)
      BY <1>2 DEF l
    <3> QED BY <1>4, <1>5, <2>2, <3>1, PostedOrThere
  <2>4. x \in HopsOneAway(t)
    <3> SUFFICES ASSUME t = table[n] PROVE FALSE
      BY <1>2
    <3>1. x \notin Names(t)
      BY DEF Asking
    <3>2. GetRouting(t, x) # NoName
      BY <2>3, NodesAssumption DEF On
    <3>3. \E e \in Entries(t) : e.chatName = x
      BY <1>2, <3>2, RoutingEntry
    <3> QED BY <3>1, <3>3 DEF Names
  <2>5. GetRouting(t, x) = x
    BY <1>2, <2>4, NeighbourFacts
  <2>6. Later(chan', n, x)
    BY <1>2, <2>3, <2>4, <2>5, LoginLater DEF q, r, m
  <2> QED BY <2>3, <2>5, <2>6 DEF Welcome
<1> QED BY <1>8, <1>9

LEMMA RouteWelcome ==
  ASSUME IInv, Fresh, Joined, \A u \in Node : \A v \in Node \ {u} : Says(chan, <<u, v>>, Hearts) => Welcome(u, v),
         NEW n \in Node, NEW y \in Node \ {n}, MsgRoute(n, y), NEW D \in SUBSET Node, NEW z \in D, Spreading(D, z),
         NEW u \in Node, NEW v \in Node \ {u}, Says(chan', <<u, v>>, Hearts)
  PROVE  Welcome(u, v)'
<1>1. PICK t : Heard(n, y, D, t)
  BY RouteHeard DEF Joined
<1> DEFINE q == Read(n, y)
           l == <<u, v>>
<1>2. /\ Reads(n, y, "ROUTE") /\ chan' = SendRoute(q, n, t, y)
      /\ Grows(n, t) /\ Sound(t, n) /\ y \in HopsOneAway(t)
  BY <1>1 DEF Heard, Grows
<1>3. /\ table'[n] = t /\ \A k \in Node \ {n} : table'[k] = table[k]
      /\ \A k \in Node : Names(table[k]) \subseteq Names(table'[k])
  BY <1>2, GrowsFacts
<1>4. q \in [Link -> Seq(Message)]
  BY <1>2, ReadQueues DEF IInv, Queues
<1>5. l \in Link /\ l[1] = u /\ l[2] = v
  BY LinkFacts
<1>6. chan' = Post(q, n, HopsOneAway(t) \ {y}, RouteOf(n, t)) /\ RouteOf(n, t) \in Message
  BY <1>2, RouteFacts
<1>7. RouteOf(n, t) \notin Hearts
  BY DEF RouteOf, Hearts
<1> HIDE DEF q, l
<1>8. Says(chan, l, Hearts)
  <2>1. Says(q, l, Hearts)
    <3>1. Says(chan', l, Hearts)
      BY DEF l
    <3> QED BY <1>4, <1>5, <1>6, <1>7, <3>1, PostedOrThere
  <2> QED BY <1>2, <1>5, <2>1, ReadWasThere DEF q
<1>9. Welcome(u, v) /\ ~Asking(v, u)
  BY <1>8, NobodyAsks DEF l
<1>10. CASE u \in Names(table[v])
  BY <1>3, <1>10 DEF Welcome
<1>11. CASE Later(chan, u, v) /\ <<u, v>> # <<y, n>>
  <2>1. Later(q, u, v)
    BY <1>2, <1>11, ReadLater DEF q
  <2>2. Later(chan', u, v)
    BY <1>4, <1>6, <2>1, PostLater
  <2> QED BY <2>2 DEF Welcome
<1>12. CASE <<u, v>> = <<y, n>>
  <2>1. y \in Names(t)
    BY <1>2, NearFacts
  <2> QED BY <1>3, <1>12, <2>1 DEF Welcome
<1> QED BY <1>9, <1>10, <1>11, <1>12 DEF Welcome

LEMMA InitHeart == Init => HeartInv
<1> SUFFICES ASSUME Init, NEW u \in Node, NEW v \in Node \ {u} PROVE ~Says(chan, <<u, v>>, Hearts)
  BY DEF HeartInv
<1>1. chan[<<u, v>>] = <<>>
  BY LinkFacts DEF Init
<1> QED BY <1>1 DEF Says

LEMMA NextHeart == FreshInv /\ LoopInv /\ HeartInv /\ [Next]_vars => HeartInv'
<1> SUFFICES ASSUME IInv, Fresh, LoopInv, HeartInv, [Next]_vars, calm', upsets' = 0,
                    NEW u \in Node, NEW v \in Node \ {u}, Says(chan', <<u, v>>, Hearts)
             PROVE  Welcome(u, v)'
  BY DEF FreshInv, HeartInv
<1> DEFINE Welcomed == \A a \in Node : \A b \in Node \ {a} : Says(chan, <<a, b>>, Hearts) => Welcome(a, b)
<1>1. calm /\ upsets = 0 => Joined /\ Doing /\ Welcomed
  BY DEF LoopInv, HeartInv
<1>2. CASE UNCHANGED vars
  <2>1. Welcome(u, v)
    BY <1>1, <1>2 DEF vars
  <2>2. /\ table' = table /\ chan' = chan
        /\ Asking(v, u) => Asking(v, u)'
    BY <1>2 DEF vars, Asking, On
  <2> QED BY <2>1, <2>2 DEF Welcome
<1>3. ASSUME NEW n \in Node, DoLogout(n) \/ Crash(n) PROVE FALSE
  <2>1. upsets' = upsets + 1
    BY <1>3 DEF DoLogout, Crash, Stop
  <2>2. upsets \in Nat
    BY SizesAssumption DEF IInv
  <2> QED BY <2>1, <2>2
<1>4. ASSUME NEW n \in Node, NEW to \in Node \cup {NoName}, Start(n, to) PROVE FALSE
  <2>1. Rest /\ chan' = Post(chan, n, {to}, LoginMessage(n))
    BY <1>4 DEF Start
  <2>2. <<u, v>> \in Link /\ chan[<<u, v>>] = <<>>
    BY <2>1, LinkFacts DEF Rest
  <2>3. ~Says(chan, <<u, v>>, Hearts)
    BY <2>2 DEF Says
  <2>4. LoginMessage(n) \in Message /\ LoginMessage(n) \notin Hearts
    BY DEF LoginMessage, Message, Hearts
  <2>5. chan \in [Link -> Seq(Message)]
    BY DEF IInv, Queues
  <2> QED BY <2>1, <2>2, <2>3, <2>4, <2>5, PostedOrThere
<1>5. ASSUME NEW n \in Node, NEW x \in Node \ {n}, Handle(n, x)
      PROVE  Welcome(u, v)'
  <2>1. calm /\ upsets = 0
    BY <1>5 DEF Handle, MsgLogin, MsgRoute, MsgLogout, MsgHeart, MsgHeartResponse, Timeout, Alarm
  <2>2. Joined /\ Doing /\ Welcomed
    BY <1>1, <2>1
  <2>3. CASE Beat(n, x)
    BY <2>2, <2>3, BeatWelcome
  <2>4. CASE MsgLogin(n, x) /\ Calmed /\ Asking(x, n)
    BY <2>2, <2>4, LoginWelcome
  <2>5. ASSUME MsgRoute(n, x), NEW D \in SUBSET Node, NEW y \in D, Spreading(D, y) PROVE Welcome(u, v)'
    BY <2>2, <2>5, RouteWelcome
  <2> QED BY <1>5, <2>2, <2>3, <2>4, <2>5, DoingHandles
<1>6. ASSUME NEW n \in Node, NEW x \in Node \ {n}, SendHeart(n, x)
      PROVE  Welcome(u, v)'
  <2>1. calm /\ upsets = 0 /\ Beat(n, x)
    BY <1>6 DEF SendHeart, Beat
  <2> QED BY <1>1, <2>1, BeatWelcome
<1>7. ASSUME NEW n \in Node, NEW x \in Node \ {n}, FalseAlarm(n, x) PROVE FALSE
  BY <1>7 DEF FalseAlarm
<1>8. \A l \in Link : l[1] \in Node /\ l[2] \in Node \ {l[1]}
  BY DEF Link
<1>9. \/ UNCHANGED vars
      \/ \E n \in Node : DoLogout(n) \/ Crash(n)
      \/ \E n \in Node : \E to \in Node \cup {NoName} : Start(n, to)
      \/ \E n \in Node : \E x \in Node \ {n} : Handle(n, x) \/ SendHeart(n, x) \/ FalseAlarm(n, x)
  BY <1>8 DEF Next
<1> QED BY <1>2, <1>3, <1>4, <1>5, <1>6, <1>7, <1>9

LEMMA HeartHolds == FreshInv /\ HeartInv => (upsets = 0 => HeartsAnswered)
<1> SUFFICES ASSUME IInv, HeartInv, upsets = 0, calm, NEW n \in Node, NEW x \in Node \ {n}, Reads(n, x, "HEART"),
                    GetRouting(table[n], x) = NoName
             PROVE  Reads(x, n, "LOGIN") \/ AskedLater(n, x)
  BY LinkFacts DEF FreshInv, HeartsAnswered
<1>1. <<x, n>> \in Link /\ chan[<<x, n>>] \in Seq(Message) /\ chan[<<x, n>>] # <<>>
  BY LinkFacts DEF IInv, Queues, Reads
<1>2. /\ Head(chan[<<x, n>>]) = chan[<<x, n>>][1] /\ 1 \in DOMAIN chan[<<x, n>>]
      /\ chan[<<x, n>>][1] \in Message
  BY <1>1
<1>3. Says(chan, <<x, n>>, Hearts)
  BY <1>2 DEF Says, Hearts, Reads
<1>4. Welcome(x, n)
  BY <1>3 DEF HeartInv
<1>5. x \notin Names(table[n])
  <2> SUFFICES ASSUME NEW i \in Slot, table[n].slots[i] # Null, table[n].slots[i].chatName = x PROVE FALSE
    BY DEF Names, Entries, Used
  <2>1. SlotsOf(table[n], x) # {} /\ SlotsOf(table[n], x) \in SUBSET Slot
    BY DEF SlotsOf
  <2>2. Least(SlotsOf(table[n], x)) \in SlotsOf(table[n], x)
    BY <2>1, LeastSlot
  <2>3. PICK j \in Slot : j = Least(SlotsOf(table[n], x)) /\ table[n].slots[j].chatName = x
    BY <2>2 DEF SlotsOf
  <2>4. table[n].slots[j] # Null
    BY <2>3, NullFacts, NodesAssumption
  <2>5. table[n].slots[j] \in Routes
    BY <2>4 DEF IInv, Sound, Tables
  <2>6. table[n].slots[j].nextChatName \in Node
    BY <2>5 DEF Routes
  <2> QED BY <2>1, <2>3, <2>6, NodesAssumption DEF GetRouting
<1>6. CASE Later(chan, x, n)
  BY <1>6 DEF Later, AskedLater
<1>7. CASE Asking(n, x)
  <2>1. chan[<<n, x>>] = <<LoginMessage(n)>> /\ x \in On
    BY <1>7 DEF Asking
  <2>2. <<LoginMessage(n)>> # <<>> /\ Head(<<LoginMessage(n)>>).type = "LOGIN"
    BY DEF LoginMessage
  <2> QED BY <2>1, <2>2 DEF Reads
<1> QED BY <1>4, <1>5, <1>6, <1>7 DEF Welcome

\* As long as nodes only join, each of them when the network is at rest,
\* whoever receives a HEART can answer it or is asked again behind the ROUTE
\* with which he can: the case that the TODO of msg_heart leaves open comes
\* before that ROUTE alone, while a LOGIN is handled.
THEOREM HeartsAlwaysAnswered == Spec => [](upsets = 0 => HeartsAnswered)
BY InitFresh, NextFresh, InitLoop, NextLoop, InitHeart, NextHeart, HeartHolds, PTL DEF Spec
=============================================================================
