--------------------------- MODULE HeartBeatProofs ---------------------------
(***************************************************************************)
(* Proofs that the safety properties of HeartBeat hold for every set of    *)
(* neighbours and every number of slots.                                   *)
(*                                                                         *)
(* As long as the table has not changed since the list was emptied, the    *)
(* names stand in the list as they stand in the table, each of them once:  *)
(* that is why the flag of a response then belongs to its sender.          *)
(***************************************************************************)
EXTENDS HeartBeat, FiniteSetTheorems, TLAPS

\* The slots in use, their place among them, and who has which place.
Used == {s \in Slot : table[s] # NoName}
Rank(s) == Cardinality({r \in Used : r < s})
Holder(p) == CHOOSE s \in Used : Rank(s) = p
Count == Cardinality(Used)

\* No neighbour has two slots.
OneSlotEach == \A s, t \in Slot : table[s] = table[t] /\ table[s] # NoName => s = t

\* Who holds users.lock, where the loop counter is, and what the last place
\* of the list holds: nobody, for there are fewer slots than places.
Control ==
  /\ pc \in {"check", "remove", "announce", "tell"} <=> lock = "heartbeat"
  /\ response # NoName <=> lock = "server"
  /\ pc \in {"remove", "announce", "tell"} => index < NumSlots
  /\ pc \notin {"check", "remove", "announce", "tell"} => index = 0
  /\ pc \notin {"wait", "check", "remove", "announce", "tell"} => answered = {}
  /\ pc = "remove" => ~oneHopaway[index].notResponded
  /\ oneHopaway[NumSlots].chatName = NoName

\* While the table stays as it is, the list has its names, or none yet.
Fresh == ~disturbed /\ pc \notin {"collect", "clear"}

NamesAsInTable ==
  Fresh =>
    \A p \in Position :
      /\ p >= Count => oneHopaway[p].chatName = NoName
      /\ p < Count /\ pc # "recollect" => oneHopaway[p].chatName = table[Holder(p)]

\* And then whose response has been handled has his flag, until the loop
\* has passed him.
AnsweredFlagged ==
  Fresh =>
    \A p \in Position : p >= index /\ oneHopaway[p].chatName \in answered
                        => oneHopaway[p].notResponded

\* While the users are told of a removal, the first places of the list are
\* those of the neighbours there were when the loop began, and there is at
\* most one neighbour less for each the server thread has deleted since.
AudienceListed ==
  pc = "tell" =>
    /\ \A p \in Position : p < Cardinality(audience) => oneHopaway[p].chatName # NoName
    /\ \A n \in audience :
         \E p \in Position : p < Cardinality(audience) /\ oneHopaway[p].chatName = n
    /\ left < 2 => Cardinality(Direct) + left >= Cardinality(audience)

NobodyLeftYet == pc # "tell" => left = 0

TypeInv == TypeOK /\ OneSlotEach /\ Control
IInv == /\ TypeInv /\ NamesAsInTable /\ AnsweredFlagged
        /\ NobodyLeftYet /\ AudienceListed

-----------------------------------------------------------------------------
LEMMA Slots == /\ Slot \subseteq Nat /\ IsFiniteSet(Slot) /\ Cardinality(Slot) = NumSlots
               /\ Position \subseteq Nat /\ Slot \subseteq Position /\ NumSlots \in Position
<1>1. IsFiniteSet(0 .. NumSlots - 1) /\ Cardinality(0 .. NumSlots - 1) = NumSlots
  BY SlotsAssumption, FS_Interval
<1> QED
  BY <1>1, SlotsAssumption DEF Slot, Position

\* There are no more slots in use than slots.
LEMMA CountBound == /\ IsFiniteSet(Used) /\ Count \in Nat /\ Count <= NumSlots
                    /\ Count = 0 <=> Used = {}
<1>1. Used \in SUBSET Slot
  BY DEF Used
<1> QED
  BY <1>1, Slots, FS_Subset, FS_CardinalityType, FS_EmptySet DEF Count

LEMMA RankBound ==
  ASSUME NEW s \in Used
  PROVE  Rank(s) \in 0 .. Count - 1
<1> DEFINE Below == {r \in Used : r < s}
<1>1. Below \in SUBSET Used /\ s \notin Below /\ s \in Nat
  BY Slots DEF Used
<1>2. IsFiniteSet(Below) /\ Cardinality(Below) \in Nat /\ Cardinality(Below) <= Count
      /\ (Cardinality(Below) = Count => Below = Used)
  BY <1>1, CountBound, FS_Subset, FS_CardinalityType DEF Count
<1>3. Cardinality(Below) < Count
  BY <1>1, <1>2, CountBound
<1>4. Cardinality(Below) \in 0 .. Count - 1
  BY <1>2, <1>3, CountBound
<1> QED
  BY <1>4 DEF Rank

LEMMA RankGrows ==
  ASSUME NEW s \in Used, NEW t \in Used, s < t
  PROVE  Rank(s) < Rank(t)
<1> DEFINE Below(x) == {r \in Used : r < x}
<1>1. s \in Nat /\ t \in Nat /\ Used \subseteq Nat
  BY Slots DEF Used
<1>2. IsFiniteSet(Below(s)) /\ IsFiniteSet(Below(t))
  <2>1. Below(s) \in SUBSET Used /\ Below(t) \in SUBSET Used
    OBVIOUS
  <2> QED
    BY <2>1, CountBound, FS_Subset
<1>3. Cardinality(Below(s) \cup {s}) = Cardinality(Below(s)) + 1 /\ IsFiniteSet(Below(s) \cup {s})
  <2>1. s \notin Below(s)
    BY <1>1
  <2> QED
    BY <2>1, <1>2, FS_AddElement
<1>4. Cardinality(Below(s) \cup {s}) <= Cardinality(Below(t))
  <2>1. \A r \in Below(s) : r \in Used /\ r \in Nat /\ r < t
    BY <1>1
  <2>2. Below(s) \cup {s} \in SUBSET Below(t)
    BY <2>1, Zenon
  <2> QED
    BY <2>2, <1>2, FS_Subset
<1>5. Cardinality(Below(s)) \in Nat /\ Cardinality(Below(t)) \in Nat
  BY <1>2, FS_CardinalityType
<1>6. Cardinality(Below(s)) < Cardinality(Below(t))
  BY <1>3, <1>4, <1>5
<1> QED
  BY <1>6 DEF Rank

\* Every place below Count has a holder.
LEMMA HolderExists ==
  ASSUME NEW p \in 0 .. Count - 1
  PROVE  Holder(p) \in Used /\ Rank(Holder(p)) = p
<1> DEFINE f == [s \in Used |-> Rank(s)]
           P == 0 .. Count - 1
<1>1. IsFiniteSet(P) /\ Cardinality(P) = Count
  BY CountBound, FS_Interval
<1>2. f \in Injection(Used, P)
  <2>1. f \in [Used -> P]
    BY RankBound
  <2>2. ASSUME NEW s \in Used, NEW t \in Used, f[s] = f[t] PROVE s = t
    <3>1. s \in Nat /\ t \in Nat
      BY Slots DEF Used
    <3>2. ~(s < t) /\ ~(t < s)
      <4>1. Rank(s) = Rank(t) /\ Rank(s) \in 0 .. Count - 1 /\ Rank(t) \in 0 .. Count - 1
        BY <2>2, RankBound
      <4>2. s < t => Rank(s) < Rank(t)
        BY RankGrows
      <4>3. t < s => Rank(t) < Rank(s)
        BY RankGrows
      <4> QED
        BY <4>1, <4>2, <4>3, CountBound
    <3> QED
      BY <3>1, <3>2
  <2> QED
    BY <2>1, <2>2, Zenon DEF Injection, IsInjective
<1>3. f \in Surjection(Used, P)
  BY <1>1, <1>2, FS_Injection DEF Count
<1>4. \E s \in Used : f[s] = p
  BY <1>3 DEF Surjection
<1>5. \E s \in Used : Rank(s) = p
  BY <1>4
<1> QED
  BY <1>5, Zenon DEF Holder

\* Two places have two names.
LEMMA HolderUnique ==
  ASSUME OneSlotEach, NEW p \in 0 .. Count - 1, NEW q \in 0 .. Count - 1,
         table[Holder(p)] = table[Holder(q)]
  PROVE  p = q
<1>1. Holder(p) \in Used /\ Holder(q) \in Used /\ Rank(Holder(p)) = p /\ Rank(Holder(q)) = q
  BY HolderExists
<1>2. Holder(p) = Holder(q)
  BY <1>1 DEF OneSlotEach, Used
<1> QED
  BY <1>1, <1>2, Zenon

\* Every slot in use has a place.
LEMMA HolderOf ==
  ASSUME OneSlotEach, NEW s \in Used
  PROVE  Rank(s) \in 0 .. Count - 1 /\ Holder(Rank(s)) = s
<1>1. Rank(s) \in 0 .. Count - 1
  BY RankBound
<1>2. Holder(Rank(s)) \in Used /\ Rank(Holder(Rank(s))) = Rank(s)
  BY <1>1, HolderExists
<1>3. ASSUME NEW t \in Used, Rank(t) = Rank(s) PROVE t = s
  <2>1. s \in Nat /\ t \in Nat /\ Rank(s) \in Nat
    BY <1>1, CountBound, Slots DEF Used
  <2>2. s < t => Rank(s) < Rank(t)
    BY RankGrows
  <2>3. t < s => Rank(t) < Rank(s)
    BY RankGrows
  <2> QED
    BY <1>3, <2>1, <2>2, <2>3
<1> QED
  BY <1>1, <1>2, <1>3

-----------------------------------------------------------------------------
Entry == [chatName : User \cup {NoName}, notResponded : BOOLEAN]
UserList == [Position -> Entry]

\* What getHopsOneAway makes of a list: the names of the table with the
\* flags of the list, and behind them what was there.
LEMMA Listing ==
  ASSUME TypeOK, NEW list \in UserList
  PROVE  /\ GetHopsOneAway(list) \in UserList
         /\ \A p \in Position :
              /\ GetHopsOneAway(list)[p].notResponded = list[p].notResponded
              /\ p < Count => /\ GetHopsOneAway(list)[p].chatName = table[Holder(p)]
                              /\ GetHopsOneAway(list)[p].chatName # NoName
              /\ p >= Count => GetHopsOneAway(list)[p] = list[p]
<1>1. GetHopsOneAway(list) =
        [p \in Position |-> IF p < Count
                            THEN [list[p] EXCEPT !.chatName = table[Holder(p)]] ELSE list[p]]
  BY Zenon DEF GetHopsOneAway, Used, Rank, Holder, Count
<1>2. ASSUME NEW p \in Position, p < Count
      PROVE  table[Holder(p)] \in User \cup {NoName} /\ table[Holder(p)] # NoName
  <2>1. p \in 0 .. Count - 1
    BY <1>2, Slots, CountBound
  <2>2. Holder(p) \in Used
    BY <2>1, HolderExists
  <2> QED
    BY <2>2 DEF Used, TypeOK
<1>3. ASSUME NEW p \in Position
      PROVE  IF p < Count THEN [list[p] EXCEPT !.chatName = table[Holder(p)]] \in Entry
                          ELSE list[p] \in Entry
  BY <1>2 DEF Entry, UserList
<1>4. ASSUME NEW p \in Position, p < Count
      PROVE  /\ GetHopsOneAway(list)[p].chatName = table[Holder(p)]
             /\ GetHopsOneAway(list)[p].notResponded = list[p].notResponded
  BY <1>1, <1>4 DEF Entry, UserList
<1>5. ASSUME NEW p \in Position, ~(p < Count)
      PROVE  GetHopsOneAway(list)[p] = list[p]
  BY <1>1, <1>5
<1>6. \A p \in Position : p >= Count <=> ~(p < Count)
  BY Slots, CountBound
<1> QED
  BY <1>1, <1>2, <1>3, <1>4, <1>5, <1>6 DEF UserList

\* The place behind the last slot stays empty.
LEMMA LastPlace ==
  ASSUME TypeOK, NEW list \in UserList, list[NumSlots].chatName = NoName
  PROVE  GetHopsOneAway(list)[NumSlots].chatName = NoName
<1>1. NumSlots \in Position /\ NumSlots >= Count
  BY Slots, CountBound, SlotsAssumption
<1> QED
  BY <1>1, Listing

LEMMA EmptyList ==
  /\ [p \in Position |-> Unused] \in UserList
  /\ Unused.chatName = NoName /\ Unused.notResponded = FALSE /\ Unused \in Entry
  BY DEF Unused, Entry, UserList

\* The least of a set of places is in it.
LEMMA FirstIsIn ==
  ASSUME NEW S \in SUBSET Position, S # {}
  PROVE  First(S) \in S
<1>1. S \in SUBSET Nat
  BY Slots
<1>2. PICK i \in S : \A j \in S : ~ (<<j, i>> \in OpToRel(<, Nat))
  BY <1>1, NatLessThanWellFounded, WFMin, Zenon
<1>3. \A j \in S : ~ (j < i)
  BY <1>1, <1>2 DEF OpToRel
<1>4. \A j \in S : i <= j
  BY <1>1, <1>3
<1> QED
  BY <1>4, Zenon DEF First

\* A flag that is set or taken back changes no name.
LEMMA FlagOnly ==
  ASSUME NEW list \in UserList, NEW p \in Position, NEW b \in BOOLEAN
  PROVE  LET new == [list EXCEPT ![p].notResponded = b]
         IN  /\ new \in UserList
             /\ \A q \in Position : /\ new[q].chatName = list[q].chatName
                                    /\ new[q].notResponded =
                                         (IF q = p THEN b ELSE list[q].notResponded)
  BY DEF Entry, UserList

\* What a response does to the list: the names stay, no flag is taken back,
\* and if the sender is listed it has its flag at one place.
LEMMA MarkSets ==
  ASSUME Mark, oneHopaway \in UserList
  PROVE  /\ oneHopaway' \in UserList
         /\ \A p \in Position : /\ oneHopaway'[p].chatName = oneHopaway[p].chatName
                                /\ oneHopaway[p].notResponded => oneHopaway'[p].notResponded
         /\ (\E p \in Position : oneHopaway[p].chatName = response) =>
              \E q \in Position : oneHopaway[q].chatName = response /\ oneHopaway'[q].notResponded
<1> DEFINE found == {p \in Position : oneHopaway[p].chatName = response}
           q == First(found)
<1>1. oneHopaway' = IF found = {} THEN oneHopaway ELSE [oneHopaway EXCEPT ![q].notResponded = TRUE]
  BY DEF Mark
<1>2. CASE found = {}
  BY <1>1, <1>2
<1>3. CASE found # {}
  <2>1. found \in SUBSET Position
    OBVIOUS
  <2>2. q \in found
    BY <1>3, <2>1, FirstIsIn
  <2>3. q \in Position /\ oneHopaway[q].chatName = response
    BY <2>2
  <2>4. oneHopaway' = [oneHopaway EXCEPT ![q].notResponded = TRUE]
    BY <1>1, <1>3
  <2> HIDE DEF q, found
  <2>5. /\ oneHopaway' \in UserList
        /\ \A p \in Position : /\ oneHopaway'[p].chatName = oneHopaway[p].chatName
                               /\ oneHopaway'[p].notResponded =
                                    (IF p = q THEN TRUE ELSE oneHopaway[p].notResponded)
    BY <2>3, <2>4 DEF UserList, Entry
  <2> QED
    BY <2>3, <2>5
<1> QED
  BY <1>2, <1>3

LEMMA InitInv == Init => IInv
<1>1. SUFFICES ASSUME Init PROVE IInv
  OBVIOUS
<1>2. TypeOK
  BY <1>1, UserAssumption, Slots, EmptyList, SlotsAssumption
  DEF Init, TypeOK, Entry, UserList, Position
<1>3. OneSlotEach /\ Control
  BY <1>1, Slots, EmptyList DEF Init, OneSlotEach, Control
<1> QED
  BY <1>1, <1>2, <1>3
  DEF Init, IInv, TypeInv, NamesAsInTable, AnsweredFlagged, Fresh, AudienceListed, NobodyLeftYet

\* The types, the lock and the counter, action by action.
LEMMA TypeNext == TypeInv /\ [Next]_vars => TypeInv'
<1>1. SUFFICES ASSUME TypeInv, [Next]_vars PROVE TypeInv'
  OBVIOUS
<1> USE <1>1 DEF TypeInv
<1>2. oneHopaway \in UserList
  BY DEF TypeOK, UserList, Entry
<1>3. index \in Nat /\ Position = 0 .. NumSlots /\ NumSlots \in Nat /\ 0 \in Position
  BY SlotsAssumption DEF TypeOK, Position
<1>4. CASE Collect
  BY <1>2, <1>4, Listing, LastPlace DEF Collect, TypeOK, OneSlotEach, Control, messages, history, telling, UserList, Entry
<1>5. CASE Clear
  BY <1>3, <1>5, EmptyList, Slots DEF Clear, TypeOK, OneSlotEach, Control, messages, telling, UserList, Entry
<1>6. CASE Recollect
  BY <1>2, <1>6, Listing, LastPlace DEF Recollect, TypeOK, OneSlotEach, Control, messages, history, telling, UserList, Entry
<1>7. CASE SendHeartbeatSignal
  <2>1. Direct \subseteq User
    BY DEF Direct, TypeOK
  <2> QED
    BY <1>7, <2>1 DEF SendHeartbeatSignal, TypeOK, OneSlotEach, Control, history, telling
<1>8. CASE WakeUp
  BY <1>8 DEF WakeUp, TypeOK, OneSlotEach, Control, messages, history, telling
<1>9. CASE Check
  <2>1. CASE oneHopaway[index].chatName = NoName
    BY <1>3, <1>9, <2>1 DEF Check, TypeOK, OneSlotEach, Control, messages, history, telling
  <2>2. CASE oneHopaway[index].chatName # NoName
    <3>1. index < NumSlots /\ index + 1 \in Position
      BY <1>3, <2>2 DEF Control, TypeOK
    <3>2. CASE oneHopaway[index].notResponded
      <4>1. oneHopaway' = [oneHopaway EXCEPT ![index].notResponded = FALSE] /\ index' = index + 1
            /\ UNCHANGED <<table, lock, pc, response, hearts, replies, alive, answered, disturbed>>
            /\ UNCHANGED <<turn, audience, left>>
        BY <1>9, <2>2, <3>2 DEF Check, messages, history, telling
      <4>2. oneHopaway' \in UserList
            /\ \A p \in Position : oneHopaway'[p].chatName = oneHopaway[p].chatName
        BY <1>2, <4>1, FlagOnly DEF TypeOK
      <4>3. pc = "check"
        BY <1>9 DEF Check
      <4> QED
        BY <3>1, <4>1, <4>2, <4>3, Slots DEF TypeOK, OneSlotEach, Control, UserList, Entry
    <3>3. CASE ~oneHopaway[index].notResponded
      BY <1>3, <1>9, <2>2, <3>1, <3>3
      DEF Check, TypeOK, OneSlotEach, Control, messages, history, telling
    <3> QED
      BY <3>2, <3>3
  <2> QED
    BY <2>1, <2>2
<1>10. CASE Remove
  <2>1. index < NumSlots /\ index \in Position
    BY <1>10 DEF Remove, Control, TypeOK
  <2>2. oneHopaway' \in UserList
    BY <1>2, <1>10, EmptyList DEF Remove, UserList
  <2>3. oneHopaway'[NumSlots].chatName = NoName
    BY <1>2, <1>3, <1>10, <2>1, Slots DEF Remove, UserList, Control
  <2>4. table' \in [Slot -> User \cup {NoName}] /\ OneSlotEach'
    BY <1>10 DEF Remove, Without, TypeOK, OneSlotEach
  <2> QED
    BY <1>10, <2>1, <2>2, <2>3, <2>4 DEF Remove, TypeOK, Control, messages, telling, UserList, Entry
<1>11. CASE Announce
  <2>1. Direct \subseteq User
    BY DEF Direct, TypeOK
  <2>2. oneHopaway' \in UserList /\ oneHopaway'[NumSlots].chatName = NoName
    BY <1>2, <1>11, Listing, LastPlace DEF Announce, Control
  <2> QED
    BY <1>11, <2>1, <2>2
    DEF Announce, TypeOK, OneSlotEach, Control, messages, history, telling, UserList, Entry
<1>12. CASE Mark
  <2>1. oneHopaway' \in UserList
        /\ \A p \in Position : oneHopaway'[p].chatName = oneHopaway[p].chatName
    BY <1>2, <1>12, MarkSets
  <2>2. pc # "remove"
    BY <1>12 DEF Mark, Control
  <2>3. answered' \in SUBSET User
    BY <1>12 DEF Mark, TypeOK
  <2>4. lock = "server" /\ lock' = "free" /\ response' = NoName
        /\ UNCHANGED <<table, pc, index, hearts, replies, alive, disturbed, turn, audience, left>>
        /\ (pc # "wait" => answered' = answered)
    BY <1>12 DEF Mark, messages, telling, Control
  <2>5. TypeOK' /\ OneSlotEach'
    BY <2>1, <2>3, <2>4 DEF TypeOK, OneSlotEach, UserList, Entry
  <2>6. Control'
    BY <2>1, <2>2, <2>4, Slots DEF Control
  <2> QED
    BY <2>5, <2>6
<1>13. ASSUME NEW n \in User, ReceiveHeartbeatResponse(n) PROVE TypeInv'
  <2>1. n # NoName /\ pc # "remove"
    BY <1>13, UserAssumption DEF ReceiveHeartbeatResponse, Control
  <2> QED
    BY <1>2, <1>13, <2>1, Listing, LastPlace
    DEF ReceiveHeartbeatResponse, TypeOK, OneSlotEach, Control, history, telling, UserList, Entry
<1>14. ASSUME NEW n \in User, Enter(n), hearts' \in SUBSET User PROVE TypeInv'
  <2>1. table' \in [Slot -> User \cup {NoName}] /\ disturbed' \in BOOLEAN /\ OneSlotEach'
    <3>1. CASE UNCHANGED <<table, disturbed>>
      BY <3>1 DEF TypeOK, OneSlotEach
    <3>2. CASE ~(UNCHANGED <<table, disturbed>>)
      <4>1. PICK s \in Slot : table[s] = NoName /\ table' = [table EXCEPT ![s] = n]
        BY <1>14, <3>2 DEF Enter
      <4>2. n \notin Direct /\ disturbed' = TRUE
        BY <1>14, <3>2 DEF Enter
      <4>3. \A t \in Slot : table[t] # n
        BY <4>2, UserAssumption DEF Direct
      <4> QED
        BY <4>1, <4>2, <4>3 DEF TypeOK, OneSlotEach
    <3> QED
      BY <3>1, <3>2
  <2> QED
    BY <1>14, <2>1 DEF Enter, TypeOK, Control, telling
<1>15. ASSUME NEW n \in User, Login(n) PROVE TypeInv'
  BY <1>14, <1>15 DEF Login, TypeOK
<1>16. ASSUME NEW n \in User, Route(n) PROVE TypeInv'
  BY <1>14, <1>16 DEF Route, TypeOK
<1>17. ASSUME NEW n \in User, Leave(n) PROVE TypeInv'
  BY <1>17 DEF Leave, Without, TypeOK, OneSlotEach, Control, messages
<1>18. ASSUME NEW n \in User, Answer(n) PROVE TypeInv'
  BY <1>18 DEF Answer, TypeOK, OneSlotEach, Control, history, telling
<1>19. ASSUME NEW n \in User, Stop(n) PROVE TypeInv'
  BY <1>19 DEF Stop, TypeOK, OneSlotEach, Control, history, telling
<1>20. CASE Tell
  <2>1. turn < NumSlots /\ turn + 1 \in Position
    BY <1>3, <1>20 DEF Tell, Control, TypeOK
  <2> QED
    BY <1>20, <2>1 DEF Tell, TypeOK, OneSlotEach, Control, messages, history
<1>21. CASE Told
  <2>1. index + 1 \in Position
    BY <1>3, <1>21 DEF Told, Control, TypeOK
  <2> QED
    BY <1>3, <1>21, <2>1 DEF Told, TypeOK, OneSlotEach, Control, messages, history
<1>22. CASE UNCHANGED vars
  BY <1>22 DEF vars, messages, history, telling, TypeOK, OneSlotEach, Control
<1> QED
  BY <1>1, <1>4, <1>5, <1>6, <1>7, <1>8, <1>9, <1>10, <1>11, <1>12, <1>13, <1>15, <1>16,
     <1>17, <1>18, <1>19, <1>20, <1>21, <1>22
  DEF Next, HeartBeatStep, ServerStep

LEMMA TableKept ==
  ASSUME UNCHANGED table
  PROVE  Count' = Count /\ \A p : Holder(p)' = Holder(p)
  BY Zenon DEF Count, Holder, Rank, Used

\* The list, action by action.  Whatever changes the table sets disturbed.
LEMMA ListNext == IInv /\ [Next]_vars => (NamesAsInTable /\ AnsweredFlagged)'
<1>1. SUFFICES ASSUME IInv, [Next]_vars PROVE (NamesAsInTable /\ AnsweredFlagged)'
  OBVIOUS
<1> USE <1>1 DEF IInv
<1>2. /\ oneHopaway \in UserList
      /\ index \in Nat /\ Position \subseteq Nat
      /\ Count \in Nat
      /\ disturbed \in BOOLEAN
  BY CountBound, Slots DEF TypeInv, TypeOK, UserList, Entry
<1>3. UNCHANGED table => Count' = Count /\ \A p : Holder(p)' = Holder(p)
  BY TableKept
<1>4. TypeInv /\ TypeOK /\ OneSlotEach /\ Control
  BY DEF TypeInv
\* Steps that leave table, list and answers alone.
<1>5. ASSUME UNCHANGED <<table, oneHopaway, answered>>, Fresh' => Fresh, index' = index,
             (Fresh' /\ pc = "recollect") => pc' = "recollect"
      PROVE  (NamesAsInTable /\ AnsweredFlagged)'
  BY <1>3, <1>5 DEF NamesAsInTable, AnsweredFlagged
<1>6. CASE ~Fresh'
  BY <1>6 DEF NamesAsInTable, AnsweredFlagged
<1>7. CASE Collect
  BY <1>6, <1>7 DEF Collect, Fresh
<1>8. CASE Clear
  <2>1. \A p \in Position : oneHopaway'[p].chatName = NoName
    BY <1>8, EmptyList DEF Clear
  <2>2. pc' = "recollect" /\ answered' = {}
    BY <1>4, <1>8 DEF Clear, Control
  <2> QED
    BY <2>1, <2>2 DEF NamesAsInTable, AnsweredFlagged
<1>9. CASE Recollect
  <2>1. \A p \in Position :
           /\ p < Count => oneHopaway'[p].chatName = table[Holder(p)]
           /\ p >= Count => oneHopaway'[p] = oneHopaway[p]
    BY <1>2, <1>4, <1>9, Listing DEF Recollect
  <2>2. pc = "recollect" /\ UNCHANGED <<table, answered, disturbed>> /\ answered = {}
    BY <1>4, <1>9 DEF Recollect, history, Control
  <2>3. Fresh' => Fresh
    BY <2>2 DEF Fresh
  <2>4. NamesAsInTable'
    BY <1>3, <2>1, <2>2, <2>3 DEF NamesAsInTable
  <2> QED
    BY <2>2, <2>4 DEF AnsweredFlagged
<1>10. CASE SendHeartbeatSignal
  BY <1>5, <1>10 DEF SendHeartbeatSignal, Fresh, history
<1>11. CASE WakeUp
  BY <1>5, <1>11 DEF WakeUp, Fresh, history
<1>12. CASE Check
  <2>1. CASE oneHopaway[index].chatName = NoName
    BY <1>6, <1>12, <2>1 DEF Check, Fresh
  <2>2. CASE oneHopaway[index].chatName # NoName /\ oneHopaway[index].notResponded
    <3>1. oneHopaway' = [oneHopaway EXCEPT ![index].notResponded = FALSE] /\ index' = index + 1
          /\ UNCHANGED <<table, pc, answered, disturbed>> /\ pc = "check"
      BY <1>12, <2>2 DEF Check, messages, history
    <3>2. \A p \in Position :
             /\ oneHopaway'[p].chatName = oneHopaway[p].chatName
             /\ p # index => oneHopaway'[p].notResponded = oneHopaway[p].notResponded
      BY <1>2, <1>4, <3>1, FlagOnly DEF TypeOK
    <3>3. NamesAsInTable'
      BY <1>3, <3>1, <3>2 DEF NamesAsInTable, Fresh
    <3>4. \A p \in Position : p >= index + 1 => p # index /\ p >= index
      BY <1>2
    <3>5. AnsweredFlagged'
      BY <3>1, <3>2, <3>4 DEF AnsweredFlagged, Fresh
    <3> QED
      BY <3>3, <3>5
  <2>3. CASE oneHopaway[index].chatName # NoName /\ ~oneHopaway[index].notResponded
    BY <1>5, <1>12, <2>3 DEF Check, Fresh, history
  <2> QED
    BY <2>1, <2>2, <2>3
<1>13. CASE Remove
  BY <1>6, <1>13 DEF Remove, Fresh
\* The names are written again as they stand there; the flags stay.
<1>14. ASSUME oneHopaway' = GetHopsOneAway(oneHopaway), index' \in Nat, index' >= index,
              UNCHANGED <<table, answered, disturbed>>, Fresh' => Fresh,
              pc' # pc => pc # "recollect"
       PROVE  (NamesAsInTable /\ AnsweredFlagged)'
  <2>1. \A p \in Position :
           /\ p < Count => oneHopaway'[p].chatName = table[Holder(p)]
           /\ p >= Count => oneHopaway'[p] = oneHopaway[p]
           /\ oneHopaway'[p].notResponded = oneHopaway[p].notResponded
    BY <1>2, <1>4, <1>14, Listing
  <2>2. NamesAsInTable'
    BY <1>3, <1>14, <2>1 DEF NamesAsInTable
  <2>3. ASSUME Fresh', NEW p \in Position, p >= index', oneHopaway'[p].chatName \in answered
        PROVE  oneHopaway'[p].notResponded
    <3>1. pc \in {"wait", "check", "remove", "announce", "tell"}
      BY <1>4, <2>3 DEF Control
    <3>2. oneHopaway[p].chatName = oneHopaway'[p].chatName
      BY <1>2, <1>14, <2>1, <2>3, <3>1 DEF NamesAsInTable
    <3>3. p >= index
      BY <1>2, <1>14, <2>3
    <3> QED
      BY <1>14, <2>1, <2>3, <3>2, <3>3 DEF AnsweredFlagged
  <2>4. AnsweredFlagged'
    BY <1>14, <2>3 DEF AnsweredFlagged
  <2> QED
    BY <2>2, <2>4
<1>15. CASE Announce
  <2>1. index >= index
    BY <1>2
  <2> QED
    BY <1>2, <1>14, <1>15, <2>1 DEF Announce, Fresh, history
<1>16. ASSUME NEW n \in User, ReceiveHeartbeatResponse(n) PROVE (NamesAsInTable /\ AnsweredFlagged)'
  <2>1. index >= index
    BY <1>2
  <2> QED
    BY <1>2, <1>14, <1>16, <2>1 DEF ReceiveHeartbeatResponse, Fresh, history
<1>17. CASE Mark
  <2>1. \A p \in Position : /\ oneHopaway'[p].chatName = oneHopaway[p].chatName
                            /\ oneHopaway[p].notResponded => oneHopaway'[p].notResponded
    BY <1>2, <1>17, MarkSets
  <2>2. UNCHANGED <<table, pc, index, disturbed>> /\ response # NoName
    BY <1>17 DEF Mark
  <2>3. NamesAsInTable'
    BY <1>3, <2>1, <2>2 DEF NamesAsInTable, Fresh
  <2>4. ASSUME Fresh', NEW p \in Position, p >= index', oneHopaway'[p].chatName \in answered'
        PROVE  oneHopaway'[p].notResponded
    <3>1. CASE oneHopaway[p].chatName \in answered
      BY <2>1, <2>2, <2>4, <3>1 DEF AnsweredFlagged, Fresh
    <3>2. CASE oneHopaway[p].chatName \notin answered
      <4>1. oneHopaway[p].chatName = response /\ pc = "wait"
        BY <1>17, <2>1, <2>4, <3>2 DEF Mark
      <4>2. PICK q \in Position : oneHopaway[q].chatName = response /\ oneHopaway'[q].notResponded
        BY <1>2, <1>17, <4>1, MarkSets
      <4>3. p < Count /\ q < Count
        BY <1>2, <2>2, <2>4, <4>1, <4>2 DEF NamesAsInTable, Fresh
      <4>4. table[Holder(p)] = table[Holder(q)]
        BY <2>2, <2>4, <4>1, <4>2, <4>3 DEF NamesAsInTable, Fresh
      <4>5. p \in 0 .. Count - 1 /\ q \in 0 .. Count - 1
        BY <1>2, <4>3
      <4>6. p = q
        BY <1>4, <4>4, <4>5, HolderUnique
      <4> QED
        BY <4>2, <4>6
    <3> QED
      BY <3>1, <3>2
  <2>5. AnsweredFlagged'
    BY <2>4 DEF AnsweredFlagged
  <2> QED
    BY <2>3, <2>5
<1>18. ASSUME NEW n \in User, Enter(n) PROVE (NamesAsInTable /\ AnsweredFlagged)'
  <2>1. CASE UNCHANGED <<table, disturbed>>
    BY <1>5, <1>18, <2>1 DEF Enter, Fresh
  <2>2. CASE ~(UNCHANGED <<table, disturbed>>)
    BY <1>6, <1>18, <2>2 DEF Enter, Fresh
  <2> QED
    BY <2>1, <2>2
<1>19. ASSUME NEW n \in User, Leave(n) PROVE (NamesAsInTable /\ AnsweredFlagged)'
  BY <1>6, <1>19 DEF Leave, Fresh
<1>20. ASSUME NEW n \in User, Answer(n) \/ Stop(n) PROVE (NamesAsInTable /\ AnsweredFlagged)'
  BY <1>5, <1>20 DEF Answer, Stop, Fresh, history
<1>21. CASE Tell
  BY <1>5, <1>21 DEF Tell, Fresh, history
<1>22. CASE Told
  <2>1. UNCHANGED <<table, oneHopaway, answered, disturbed>> /\ index' = index + 1
        /\ pc = "tell" /\ pc' = "check"
    BY <1>22 DEF Told, history
  <2>2. NamesAsInTable'
    BY <1>3, <2>1 DEF NamesAsInTable, Fresh
  <2>3. \A p \in Position : p >= index + 1 => p >= index
    BY <1>2
  <2>4. AnsweredFlagged'
    BY <2>1, <2>3 DEF AnsweredFlagged, Fresh
  <2> QED
    BY <2>2, <2>4
<1>23. CASE UNCHANGED vars
  BY <1>5, <1>23 DEF vars, messages, history, Fresh
<1> QED
  BY <1>1, <1>7, <1>8, <1>9, <1>10, <1>11, <1>12, <1>13, <1>15, <1>16, <1>17, <1>18, <1>19,
     <1>20, <1>21, <1>22, <1>23
  DEF Next, HeartBeatStep, ServerStep, Login, Route

\* There are as many neighbours as slots in use.
LEMMA DirectCount ==
  ASSUME OneSlotEach
  PROVE  Cardinality(Direct) = Count
<1> DEFINE f == [s \in Used |-> table[s]]
<1>1. f \in [Used -> Direct]
  BY DEF Used, Direct
<1>2. \A s, t \in Used : f[s] = f[t] => s = t
  BY DEF Used, OneSlotEach
<1>3. \A n \in Direct : \E s \in Used : f[s] = n
  BY DEF Used, Direct
<1>4. f \in Bijection(Used, Direct)
  BY <1>1, <1>2, <1>3, Zenon DEF Bijection, Injection, Surjection, IsInjective
<1>5. ExistsBijection(Used, Direct)
  BY <1>4, Zenon DEF ExistsBijection
<1> QED
  BY <1>5, CountBound, FS_Bijection DEF Count

\* How many neighbours there are, before and after one is added or deleted.
LEMMA DirectFinite ==
  ASSUME TypeOK
  PROVE  IsFiniteSet(Direct) /\ Direct \subseteq User /\ Cardinality(Direct) \in Nat
<1>1. Direct \in SUBSET User
  BY DEF Direct, TypeOK
<1> QED
  BY <1>1, UserAssumption, FS_Subset, FS_CardinalityType

\* The neighbours while the users are told of a removal.
LEMMA AudienceNext ==
  ASSUME IInv, [Next]_vars
  PROVE  (NobodyLeftYet /\ AudienceListed)'
<1>1. TypeOK /\ TypeInv /\ OneSlotEach /\ Control /\ NobodyLeftYet /\ AudienceListed
  BY DEF IInv, TypeInv
<1>2. /\ oneHopaway \in UserList /\ turn \in Nat /\ left \in 0 .. 2
      /\ IsFiniteSet(Direct) /\ Cardinality(Direct) \in Nat /\ Cardinality(Direct) = Count
  BY <1>1, DirectFinite, DirectCount, Slots DEF TypeOK, UserList, Entry
<1>3. Cardinality(audience) \in Nat
  BY <1>1, UserAssumption, FS_Subset, FS_CardinalityType DEF TypeOK
<1>4. TypeInv'
  BY <1>1, TypeNext
<1>5. ASSUME pc' # "tell", left' = 0 PROVE (NobodyLeftYet /\ AudienceListed)'
  BY <1>5 DEF NobodyLeftYet, AudienceListed
\* Steps in which nobody is deleted, and the list stays as it is.
<1>6. ASSUME UNCHANGED <<oneHopaway, audience, left, pc>>,
             Cardinality(Direct') \in Nat, Cardinality(Direct') >= Cardinality(Direct)
      PROVE  (NobodyLeftYet /\ AudienceListed)'
  BY <1>1, <1>2, <1>3, <1>6 DEF NobodyLeftYet, AudienceListed
<1>7. UNCHANGED table => Cardinality(Direct') \in Nat /\ Cardinality(Direct') >= Cardinality(Direct)
  BY <1>2 DEF Direct
<1>8. CASE pc # "tell" /\ pc' # "tell"
  <2>1. left' = left
    BY <1>8 DEF Next, HeartBeatStep, ServerStep, Collect, Clear, Recollect, SendHeartbeatSignal,
                WakeUp, Check, Remove, Announce, Tell, Told, Mark, ReceiveHeartbeatResponse,
                Login, Route, Enter, Leave, Answer, Stop, vars, telling
  <2> QED
    BY <1>1, <1>5, <1>8, <2>1 DEF NobodyLeftYet
<1>9. CASE Announce
  <2>1. \A p \in Position : p < Count => /\ oneHopaway'[p].chatName = table[Holder(p)]
                                         /\ oneHopaway'[p].chatName # NoName
    BY <1>1, <1>2, <1>9, Listing DEF Announce
  <2>2. audience' = Direct /\ Direct' = Direct /\ left' = 0 /\ pc' = "tell"
    BY <1>1, <1>9 DEF Announce, Direct, NobodyLeftYet
  <2>3. ASSUME NEW n \in Direct
        PROVE  \E p \in Position : p < Count /\ oneHopaway'[p].chatName = n
    <3>1. PICK s \in Slot : table[s] = n /\ n # NoName
      BY DEF Direct
    <3>2. s \in Used
      BY <3>1 DEF Used
    <3>3. Rank(s) \in 0 .. Count - 1 /\ Holder(Rank(s)) = s
      BY <1>1, <3>2, HolderOf
    <3>4. Rank(s) \in Position /\ Rank(s) < Count
      BY <3>3, CountBound, SlotsAssumption DEF Position
    <3>5. oneHopaway'[Rank(s)].chatName = n
      BY <2>1, <3>1, <3>3, <3>4
    <3> QED
      BY <3>4, <3>5
  <2>4. Cardinality(Direct') + left' >= Cardinality(audience')
    BY <1>2, <2>2
  <2> QED
    BY <1>2, <2>1, <2>2, <2>3, <2>4 DEF NobodyLeftYet, AudienceListed
<1>10. CASE Tell
  BY <1>6, <1>7, <1>10 DEF Tell
<1>11. CASE Told
  BY <1>5, <1>11 DEF Told
<1>12. ASSUME NEW n \in User, Enter(n) PROVE (NobodyLeftYet /\ AudienceListed)'
  <2>1. Direct \in SUBSET Direct'
    <3>1. \A s \in Slot : table[s] # NoName => table'[s] = table[s]
      BY <1>1, <1>12 DEF Enter, TypeOK
    <3> QED
      BY <3>1 DEF Direct
  <2>2. IsFiniteSet(Direct') /\ Cardinality(Direct') \in Nat
    <3>1. Direct' \in SUBSET User
      BY <1>4 DEF Direct, TypeInv, TypeOK
    <3> QED
      BY <3>1, UserAssumption, FS_Subset, FS_CardinalityType
  <2>3. Cardinality(Direct') >= Cardinality(Direct)
    BY <1>2, <2>1, <2>2, FS_Subset
  <2> QED
    BY <1>6, <1>12, <2>2, <2>3 DEF Enter, telling
<1>13. ASSUME NEW n \in User, Leave(n), pc = "tell" PROVE (NobodyLeftYet /\ AudienceListed)'
  <2>1. Direct' = Direct \ {n} /\ n \in Direct
    BY <1>1, <1>13 DEF Leave, Without, Direct, TypeOK
  <2>2. Cardinality(Direct') = Cardinality(Direct) - 1
    BY <1>2, <2>1, FS_RemoveElement
  <2>3. left < 2 => left' = left + 1
    BY <1>13 DEF Leave
  <2>4. left' < 2 => left < 2
    BY <1>2, <1>13 DEF Leave
  <2>5. UNCHANGED <<oneHopaway, audience, pc>>
    BY <1>13 DEF Leave
  <2>6. ASSUME left' < 2 PROVE Cardinality(Direct') + left' >= Cardinality(audience)
    <3>1. Cardinality(Direct) + left >= Cardinality(audience)
      BY <1>1, <1>13, <2>4, <2>6 DEF AudienceListed
    <3>2. Cardinality(Direct') + left' = Cardinality(Direct) + left
      BY <1>2, <2>2, <2>3, <2>4, <2>6
    <3> QED
      BY <3>1, <3>2
  <2> QED
    BY <1>1, <1>13, <2>5, <2>6 DEF AudienceListed, NobodyLeftYet
<1>14. ASSUME NEW n \in User, Answer(n) \/ Stop(n) PROVE (NobodyLeftYet /\ AudienceListed)'
  BY <1>6, <1>7, <1>14 DEF Answer, Stop, telling
<1>15. CASE UNCHANGED vars
  BY <1>6, <1>7, <1>15 DEF vars, telling
\* The other steps of the two threads need the lock, or another place of
\* the heartbeat thread.
<1>16. CASE pc = "tell"
  <2>1. ~Mark /\ \A n \in User : ~ReceiveHeartbeatResponse(n)
    BY <1>1, <1>16 DEF Control, Mark, ReceiveHeartbeatResponse
  <2> QED
    BY <1>10, <1>11, <1>12, <1>13, <1>14, <1>15, <1>16, <2>1
    DEF Next, HeartBeatStep, ServerStep, Collect, Clear, Recollect, SendHeartbeatSignal, WakeUp,
        Check, Remove, Announce, Login, Route
<1>17. CASE pc # "tell" /\ pc' = "tell"
  <2>1. Announce
    BY <1>17 DEF Next, HeartBeatStep, ServerStep, Collect, Clear, Recollect, SendHeartbeatSignal,
                 WakeUp, Check, Remove, Tell, Told, Mark, ReceiveHeartbeatResponse, Login, Route,
                 Enter, Leave, Answer, Stop, vars
  <2> QED
    BY <1>9, <2>1
<1> QED
  BY <1>8, <1>16, <1>17

LEMMA Invariance == Spec => []IInv
<1>1. IInv /\ [Next]_vars => IInv'
  BY TypeNext, ListNext, AudienceNext DEF IInv
<1> QED
  BY InitInv, <1>1, PTL DEF Spec

\* Types of the variables, for every reachable state; in particular the
\* loop over the list ends within it.
THEOREM HeartBeatTypes == Spec => []TypeOK
<1>1. IInv => TypeOK
  BY DEF IInv, TypeInv
<1> QED
  BY Invariance, <1>1, PTL

\* Nobody whose response to this round's HEART was handled is removed, as
\* long as the table has not changed since the list was emptied.
THEOREM AlarmJustified == Spec => []FirstAlarmJustified
<1>1. IInv => FirstAlarmJustified
  <2>1. SUFFICES ASSUME IInv, NEW n \in Direct, Removing(n), ~disturbed, n \in answered
                 PROVE  FALSE
    BY DEF FirstAlarmJustified
  <2>2. pc = "remove" /\ oneHopaway[index].chatName = n /\ ~oneHopaway[index].notResponded
    BY <2>1 DEF Removing, IInv, TypeInv, Control
  <2>3. index \in Position /\ index >= index
    BY <2>1, Slots DEF IInv, TypeInv, TypeOK
  <2> QED
    BY <2>1, <2>2, <2>3 DEF IInv, AnsweredFlagged, Fresh
<1> QED
  BY Invariance, <1>1, PTL

\* After every removal all neighbours that remain have been told of it, as
\* long as the server thread has deleted no more than one in the meantime:
\* the list has no gap, and the own entry makes up for that one.
THEOREM AllToldOfRemoval == Spec => RemovalAnnounced
<1> DEFINE ToldSoFar == {oneHopaway[p].chatName : p \in 0 .. turn - 1}
<1>1. IInv /\ [Next]_vars =>
        [pc = "tell" /\ pc' = "check" /\ left <= 1 => audience \cap Direct \subseteq ToldSoFar]_vars
  <2>1. SUFFICES ASSUME IInv, Next, pc = "tell", pc' = "check", left <= 1, NEW n \in audience
                 PROVE  n \in ToldSoFar
    OBVIOUS
  <2>2. TypeOK /\ OneSlotEach /\ Control /\ AudienceListed
    BY <2>1 DEF IInv, TypeInv
  <2>3. Told
    BY <2>1, <2>2
    DEF Next, HeartBeatStep, ServerStep, Collect, Clear, Recollect, SendHeartbeatSignal, WakeUp,
        Check, Remove, Announce, Tell, Mark, ReceiveHeartbeatResponse, Login, Route, Enter, Leave,
        Answer, Stop
  <2>4. /\ turn \in Position /\ Position \subseteq Nat /\ left \in 0 .. 2
        /\ Cardinality(Direct) \in Nat /\ Cardinality(audience) \in Nat
    <3>1. audience \in SUBSET User
      BY <2>2 DEF TypeOK
    <3> QED
      BY <2>2, <3>1, DirectFinite, Slots, UserAssumption, FS_Subset, FS_CardinalityType DEF TypeOK
  <2>5. turn >= Cardinality(audience)
    <3>1. CASE oneHopaway[turn].chatName = NoName
      BY <2>1, <2>2, <2>4, <3>1 DEF AudienceListed
    <3>2. CASE \E size \in TableSizes : turn >= size
      <4>1. PICK size \in TableSizes : turn >= size
        BY <3>2
      <4>2. size \in Int /\ size >= Cardinality(Direct) + 1
        BY <2>4, SlotsAssumption DEF TableSizes
      <4>3. Cardinality(Direct) + left >= Cardinality(audience)
        BY <2>1, <2>2, <2>4 DEF AudienceListed
      <4> QED
        BY <2>1, <2>4, <4>1, <4>2, <4>3
    <3> QED
      BY <2>3, <3>1, <3>2 DEF Told
  <2>6. PICK p \in Position : p < Cardinality(audience) /\ oneHopaway[p].chatName = n
    BY <2>1, <2>2 DEF AudienceListed
  <2>7. p \in 0 .. turn - 1
    BY <2>4, <2>5, <2>6
  <2> QED
    BY <2>6, <2>7
<1> QED
  BY Invariance, <1>1, PTL DEF Spec, RemovalAnnounced

=============================================================================
