--------------------------- MODULE MCRoutingTable ---------------------------
(***************************************************************************)
(* RoutingTable for TLC: every announcement two neighbours can make about  *)
(* each other and about this node, with hop counts up to MaxHop.           *)
(***************************************************************************)
EXTENDS RoutingTable

CONSTANTS
  MaxHop,     \* the largest hop count announced when calls do not overlap
  OverlapHop, \* and when they do
  Alone       \* are there behaviours in which calls do not overlap?

Neighbours == Name \ {Own}

EntryVia(x, n, h) == [chatName |-> n, nextChatName |-> x, hopCount |-> h]

MCRoutes ==
  UNION { LET self == EntryVia(x, x, 0)
              us == EntryVia(x, Own, 1)
          IN  {<<self>>, <<self, us>>} \cup
              { <<self, us, EntryVia(x, n, h)>> : n \in Neighbours \ {x}, h \in 1 .. MaxHop }
        : x \in Neighbours }

VARIABLE
  expected    \* {} if calls may overlap; if they do not, the table the
              \* current call has to end with, alone in a set

Ops == INSTANCE TableOps

Table == [slots |-> routingTable, records |-> reachbleTable]
Idle == \A t \in Threads : pc[t] = "idle"

MCInit == Init /\ expected \in {{}} \cup (IF Alone THEN {{Table}} ELSE {})

\* What TableOps gives for the call that begins.
Result ==
  IF message' # <<>> THEN Ops!TableUpdate(Table, message')
  ELSE IF victim' # victim
       THEN {Ops!DeleteFromTable(Table, victim'[t]) : t \in {u \in Deleters : victim'[u] # NoName}}
       ELSE {Table}

MCNext ==
  \/ /\ expected = {}
     /\ Next
     /\ \A k \in DOMAIN message' : message'[k].hopCount <= OverlapHop
     /\ UNCHANGED expected
  \/ expected # {} /\ Idle /\ Call /\ expected' = Result
  \/ expected # {} /\ \E t \in Threads : Step(t) /\ UNCHANGED expected

MCSpec == MCInit /\ [][MCNext]_<<vars, expected>> /\ \A t \in Threads : SF_vars(Step(t))

\* A call that no other thread meets does to the table what module TableOps
\* says of it, for every table such calls lead to: the messages of module
\* Network are handled with the tables of this one.
CallsAtomic == expected # {} /\ Idle => Table \in expected

\* As long as calls do not overlap and the array has room, the neighbour an
\* entry leads through is itself in the table between calls, so that its
\* silence is noticed and takes the entry away with it.
NextHopKnown ==
  expected # {} /\ Idle => \A i \in Used : SlotsOf(routingTable[i].nextChatName) # {}
=============================================================================
