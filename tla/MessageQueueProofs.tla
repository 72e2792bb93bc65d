------------------------- MODULE MessageQueueProofs -------------------------
(***************************************************************************)
(* Proofs that the linked list stays intact and implements BoundedQueue,   *)
(* for any number of threads, any set of messages and any MaxSize from 2.  *)
(***************************************************************************)
EXTENDS MessageQueue, TLAPS, SequenceTheorems

InCall == {"push", "walk", "pop"}

\* The mutex is locked exactly while a thread is between lock and unlock,
\* and there is one such thread at most.
Mutex ==
  /\ queue_mutex = TRUE <=> \E t \in Threads : pc[t] \in InCall
  /\ \A t, u \in Threads : pc[t] \in InCall /\ pc[u] \in InCall => t = u

\* Who pushes, who pops, and with what.
Calls ==
  /\ \A p \in Producers : pc[p] # "pop" /\ (pc[p] # "idle" => arg[p] \in Msg)
  /\ \A t \in Consumers : pc[t] \notin {"push", "walk"}
  /\ \A t \in Threads : pc[t] = "idle" <=> result[t] # Fifo!Pending

\* A producer that walks has counted the cells up to the one it is at.
Walking ==
  \A p \in Producers :
    pc[p] = "walk" => /\ size[p] \in 1 .. MaxSize - 1
                      /\ size[p] <= Len(order)
                      /\ current[p] = order[size[p]]

Bounded == Len(order) <= MaxSize
Filled == \A k \in DOMAIN order : msg[order[k]] \in Msg

IInv == TypeOK /\ Mutex /\ Calls /\ Walking /\ Bounded /\ Filled /\ ListOK

-----------------------------------------------------------------------------
LEMMA ResultTypes ==
  /\ Fifo!Pending # Fifo!Done
  /\ Fifo!Pending # Fifo!Failed
  /\ \A m : Fifo!Pending # Fifo!Popped(m)
  /\ {Fifo!Pending, Fifo!Done, Fifo!Failed} \subseteq Fifo!Results
  /\ \A m \in Msg : Fifo!Popped(m) \in Fifo!Results
BY DEF Fifo!Results, Fifo!Pending, Fifo!Done, Fifo!Failed, Fifo!Popped

LEMMA InitInv == Init => IInv
<1> SUFFICES ASSUME Init PROVE IInv
  OBVIOUS
<1> USE DEF Init
<1>1. TypeOK
  <2>1. result \in [Threads -> Fifo!Results]
    BY ResultTypes
  <2>2. /\ size \in [Producers -> 0 .. MaxSize]
        /\ order \in Seq(Cell)
    BY MaxSizeAssumption
  <2> QED
    BY <2>1, <2>2 DEF TypeOK
<1>2. Mutex /\ Calls /\ Walking
  BY ResultTypes DEF Mutex, Calls, Walking, InCall, Threads
<1>3. Bounded /\ Filled /\ ListOK
  BY MaxSizeAssumption DEF Bounded, Filled, ListOK
<1> QED
  BY <1>1, <1>2, <1>3 DEF IInv

\* What a thread that has the mutex may do to the program counters.
LEMMA MutexKept ==
  ASSUME Mutex, pc \in [Threads -> {"idle", "lock", "push", "walk", "pop"}],
         NEW t \in Threads, pc[t] \in InCall,
         NEW l \in {"idle", "walk"},
         Goto(t, l),
         queue_mutex' = (l = "walk")
  PROVE  Mutex'
BY DEF Mutex, InCall, Goto

LEMMA LockInv ==
  ASSUME IInv, NEW t \in Threads, Lock(t)
  PROVE  IInv'
<1> USE DEF Lock, Goto
<1>1. TypeOK'
  BY DEF IInv, TypeOK, heap, locals
<1>2. Mutex'
  BY DEF IInv, TypeOK, Mutex, InCall
<1>3. Calls'
  BY ThreadsAssumption DEF IInv, TypeOK, Calls, Threads, locals
<1>4. Walking'
  BY DEF IInv, TypeOK, Walking, locals, Threads
<1>5. Bounded' /\ Filled' /\ ListOK'
  BY DEF IInv, Bounded, Filled, ListOK, heap
<1> QED
  BY <1>1, <1>2, <1>3, <1>4, <1>5 DEF IInv

LEMMA PushInv ==
  ASSUME IInv, NEW p \in Producers, NEW m \in Msg, Push(p, m)
  PROVE  IInv'
<1> USE DEF Push, Goto
<1>1. TypeOK'
  BY ResultTypes DEF IInv, TypeOK, Threads, heap
<1>2. Mutex'
  BY DEF IInv, TypeOK, Mutex, InCall
<1>3. Calls'
  BY ThreadsAssumption DEF IInv, TypeOK, Calls, Threads
<1>4. Walking'
  BY DEF IInv, TypeOK, Walking, Threads
<1>5. Bounded' /\ Filled' /\ ListOK'
  BY DEF IInv, Bounded, Filled, ListOK, heap
<1> QED
  BY <1>1, <1>2, <1>3, <1>4, <1>5 DEF IInv

LEMMA PopInv ==
  ASSUME IInv, NEW t \in Consumers, Pop(t)
  PROVE  IInv'
<1> USE DEF Pop, Goto
<1>1. TypeOK'
  BY ResultTypes DEF IInv, TypeOK, Threads, heap, locals
<1>2. Mutex'
  BY DEF IInv, TypeOK, Mutex, InCall
<1>3. Calls'
  BY ThreadsAssumption DEF IInv, TypeOK, Calls, Threads, locals
<1>4. Walking'
  BY ThreadsAssumption DEF IInv, TypeOK, Walking, Threads, locals
<1>5. Bounded' /\ Filled' /\ ListOK'
  BY DEF IInv, Bounded, Filled, ListOK, heap
<1> QED
  BY <1>1, <1>2, <1>3, <1>4, <1>5 DEF IInv

LEMMA PopNothingInv ==
  ASSUME IInv, NEW t \in Consumers, PopNothing(t)
  PROVE  IInv'
<1> USE DEF PopNothing, Return, Goto
<1>1. TypeOK'
  BY ResultTypes DEF IInv, TypeOK, Threads, heap, locals
<1>2. Mutex'
  BY DEF IInv, TypeOK, Mutex, InCall, Threads
<1>3. Calls'
  BY ThreadsAssumption, ResultTypes DEF IInv, TypeOK, Calls, Threads, locals
<1>4. Walking'
  BY ThreadsAssumption DEF IInv, TypeOK, Walking, Threads, locals
<1>5. Bounded' /\ Filled' /\ ListOK'
  BY DEF IInv, Bounded, Filled, ListOK, heap
<1> QED
  BY <1>1, <1>2, <1>3, <1>4, <1>5 DEF IInv

LEMMA PushWalkInv ==
  ASSUME IInv, NEW p \in Producers, PushWalk(p)
  PROVE  IInv'
<1> USE DEF PushWalk, Goto
<1>1. TypeOK'
  BY MaxSizeAssumption DEF IInv, TypeOK, Threads, heap
<1>2. Mutex'
  BY DEF IInv, TypeOK, Mutex, InCall, Threads
<1>3. Calls'
  BY ThreadsAssumption DEF IInv, TypeOK, Calls, Threads
<1>4. Walking'
  <2>1. order # <<>> /\ head = order[1] /\ Len(order) >= 1
    BY DEF IInv, TypeOK, ListOK
  <2> QED
    BY <2>1, MaxSizeAssumption DEF IInv, TypeOK, Walking, Threads
<1>5. Bounded' /\ Filled' /\ ListOK'
  BY DEF IInv, Bounded, Filled, ListOK, heap
<1> QED
  BY <1>1, <1>2, <1>3, <1>4, <1>5 DEF IInv

\* The walk has reached the last cell exactly when it has counted them all.
LEMMA AtTheEnd ==
  ASSUME IInv, NEW p \in Producers, pc[p] = "walk"
  PROVE  /\ size[p] \in DOMAIN order
         /\ next[current[p]] = NULL <=> size[p] = Len(order)
         /\ size[p] < Len(order) => next[current[p]] = order[size[p] + 1]
<1>1. /\ size[p] \in 1 .. Len(order)
      /\ current[p] = order[size[p]]
  BY MaxSizeAssumption DEF IInv, TypeOK, Walking
<1>2. next[current[p]] = IF size[p] < Len(order) THEN order[size[p] + 1] ELSE NULL
  BY <1>1 DEF IInv, TypeOK, ListOK
<1>3. size[p] < Len(order) => order[size[p] + 1] # NULL
  BY <1>1, NullAssumption DEF IInv, TypeOK
<1> QED
  BY <1>1, <1>2, <1>3 DEF IInv, TypeOK

\* What the return of a push leaves behind, whatever it did to the list.
LEMMA ReturnPushKept ==
  ASSUME IInv, NEW p \in Producers, pc[p] \in {"push", "walk"},
         NEW r \in {Fifo!Done, Fifo!Failed}, ReturnPush(p, r)
  PROVE  /\ pc' \in [Threads -> {"idle", "lock", "push", "walk", "pop"}]
         /\ queue_mutex' \in BOOLEAN
         /\ arg' \in [Producers -> Msg \cup {NULL}]
         /\ current' \in [Producers -> Cell \cup {NULL}]
         /\ size' \in [Producers -> 0 .. MaxSize]
         /\ result' \in [Threads -> Fifo!Results]
         /\ Mutex' /\ Calls'
         /\ \A q \in Producers : pc'[q] # "walk"
<1> USE DEF ReturnPush, Return, Goto
<1>1. /\ pc' \in [Threads -> {"idle", "lock", "push", "walk", "pop"}]
      /\ queue_mutex' \in BOOLEAN
      /\ result' \in [Threads -> Fifo!Results]
  BY ResultTypes DEF IInv, TypeOK, Threads
<1>2. /\ arg' \in [Producers -> Msg \cup {NULL}]
      /\ current' \in [Producers -> Cell \cup {NULL}]
  BY DEF IInv, TypeOK
<1>3. size' \in [Producers -> 0 .. MaxSize]
  <2>1. 0 \in 0 .. MaxSize
    BY MaxSizeAssumption
  <2> QED
    BY <2>1 DEF IInv, TypeOK
<1>4. Mutex' /\ \A q \in Producers : pc'[q] # "walk"
  BY DEF IInv, TypeOK, Mutex, InCall, Threads
<1>5. \A q \in Producers : pc'[q] # "pop" /\ (pc'[q] # "idle" => arg'[q] \in Msg)
  BY DEF IInv, TypeOK, Calls, Threads
<1>6. \A t \in Consumers : pc'[t] \notin {"push", "walk"}
  BY DEF IInv, TypeOK, Calls, Threads
<1>7. \A t \in Threads : pc'[t] = "idle" <=> result'[t] # Fifo!Pending
  BY ResultTypes DEF IInv, TypeOK, Calls, Threads
<1> QED
  BY <1>1, <1>2, <1>3, <1>4, <1>5, <1>6, <1>7 DEF Calls

LEMMA WalkInv ==
  ASSUME IInv, NEW p \in Producers, Walk(p)
  PROVE  IInv'
<1> USE DEF Walk
<1>0. /\ size[p] \in 1 .. Len(order) /\ size[p] < Len(order)
      /\ next[current[p]] = order[size[p] + 1]
      /\ next[current[p]] \in Cell
  BY AtTheEnd DEF IInv, TypeOK
<1>1. Bounded' /\ Filled' /\ ListOK'
  BY DEF IInv, Bounded, Filled, ListOK, heap
<1>2. CASE size[p] + 1 >= MaxSize
  <2>1. ReturnPush(p, Fifo!Failed) /\ pc[p] \in {"push", "walk"}
    BY <1>2
  <2>2. TypeOK' /\ Mutex' /\ Calls' /\ Walking'
    BY <2>1, ReturnPushKept DEF IInv, TypeOK, Walking, heap
  <2> QED
    BY <1>1, <2>2 DEF IInv
<1>3. CASE ~(size[p] + 1 >= MaxSize)
  <2>1. TypeOK'
    <3>1. size' \in [Producers -> 0 .. MaxSize]
      BY <1>3, MaxSizeAssumption DEF IInv, TypeOK
    <3>2. current' \in [Producers -> Cell \cup {NULL}]
      BY <1>0, <1>3 DEF IInv, TypeOK
    <3> QED
      BY <1>3, <3>1, <3>2 DEF IInv, TypeOK, heap
  <2>2. Mutex' /\ Calls'
    BY <1>3 DEF IInv, Mutex, InCall, Calls
  <2>3. Walking'
    BY <1>0, <1>3, MaxSizeAssumption DEF IInv, TypeOK, Walking, Threads
  <2> QED
    BY <1>1, <2>1, <2>2, <2>3 DEF IInv
<1> QED
  BY <1>2, <1>3

\* The list as it is with a new cell at its end.
LEMMA CellAppended ==
  ASSUME IInv, NEW c \in Cell, NEW m \in Msg, NewCell(c, m),
         Len(order) < MaxSize,
         next' = [x \in Cell |-> IF x = c THEN NULL
                                 ELSE IF order # <<>> /\ x = order[Len(order)] THEN c
                                 ELSE next[x]],
         head' = IF order = <<>> THEN c ELSE head
  PROVE  /\ head' \in Cell \cup {NULL}
         /\ msg' \in [Cell -> Msg \cup {NULL}]
         /\ next' \in [Cell -> Cell \cup {NULL}]
         /\ allocated' \subseteq Cell
         /\ order' \in Seq(Cell)
         /\ Bounded' /\ Filled' /\ ListOK'
<1> USE DEF NewCell
<1>1. /\ order' \in Seq(Cell)
      /\ Len(order') = Len(order) + 1
      /\ \A k \in DOMAIN order : order'[k] = order[k]
      /\ order'[Len(order) + 1] = c
      /\ DOMAIN order' = DOMAIN order \cup {Len(order) + 1}
  BY DEF IInv, TypeOK
<1>2. /\ Len(order) \in Nat
      /\ DOMAIN order = 1 .. Len(order)
      /\ \A k \in DOMAIN order : order[k] \in allocated /\ order[k] # c /\ order[k] \in Cell
  BY DEF IInv, TypeOK, ListOK
<1>3. /\ head' \in Cell \cup {NULL}
      /\ msg' \in [Cell -> Msg \cup {NULL}]
      /\ next' \in [Cell -> Cell \cup {NULL}]
      /\ allocated' \subseteq Cell
  BY DEF IInv, TypeOK
<1>4. Bounded'
  BY <1>1, <1>2, MaxSizeAssumption DEF Bounded
<1>5. Filled'
  BY <1>1, <1>2 DEF IInv, TypeOK, Filled
<1>6. head' = IF order' = <<>> THEN NULL ELSE order'[1]
  BY <1>1, <1>2 DEF IInv, TypeOK, ListOK
<1>7. \A j, k \in DOMAIN order' : order'[j] = order'[k] => j = k
  BY <1>1, <1>2 DEF IInv, ListOK
<1>8. allocated' = {order'[k] : k \in DOMAIN order'}
  BY <1>1, <1>2 DEF IInv, ListOK
<1>9. ASSUME NEW k \in DOMAIN order'
      PROVE  next'[order'[k]] = IF k < Len(order') THEN order'[k + 1] ELSE NULL
  <2>1. CASE k = Len(order) + 1
    BY <1>1, <1>2, <2>1
  <2>2. CASE k = Len(order) /\ k \in DOMAIN order
    <3>1. order'[k] = order[k] /\ order[k] \in Cell /\ order[k] # c
      BY <1>1, <1>2, <2>2
    <3>2. order # <<>>
      BY <1>2, <2>2
    <3>3. next'[order[k]] = c
      BY <2>2, <3>1, <3>2
    <3>4. k < Len(order')
      <4>1. Len(order) < Len(order')
        BY <1>1, <1>2
      <4> QED
        BY <2>2, <4>1
    <3>5. order'[k + 1] = c
      BY <1>1, <2>2, Zenon
    <3> QED
      BY <3>1, <3>3, <3>4, <3>5
  <2>3. CASE k < Len(order) /\ k \in DOMAIN order
    <3>1. order[k] # order[Len(order)] /\ k + 1 \in DOMAIN order
      BY <1>2, <2>3 DEF IInv, ListOK
    <3>2. next[order[k]] = order[k + 1]
      BY <2>3 DEF IInv, ListOK
    <3> QED
      BY <1>1, <1>2, <2>3, <3>1, <3>2
  <2> QED
    BY <1>1, <1>2, <2>1, <2>2, <2>3
<1> QED
  BY <1>1, <1>3, <1>4, <1>5, <1>6, <1>7, <1>8, <1>9 DEF ListOK

LEMMA PushFirstInv ==
  ASSUME IInv, NEW p \in Producers, PushFirst(p)
  PROVE  IInv'
<1>1. /\ order = <<>> /\ Len(order) < MaxSize
      /\ arg[p] \in Msg
  BY MaxSizeAssumption, NullAssumption DEF PushFirst, IInv, TypeOK, ListOK, Calls
<1>2. PICK c \in Cell : NewCell(c, arg[p]) /\ next' = [next EXCEPT ![c] = NULL] /\ head' = c
  BY DEF PushFirst
<1>3. next' = [x \in Cell |-> IF x = c THEN NULL
                              ELSE IF order # <<>> /\ x = order[Len(order)] THEN c
                              ELSE next[x]]
  BY <1>1, <1>2 DEF IInv, TypeOK
<1>4. /\ head' \in Cell \cup {NULL}
      /\ msg' \in [Cell -> Msg \cup {NULL}]
      /\ next' \in [Cell -> Cell \cup {NULL}]
      /\ allocated' \subseteq Cell
      /\ order' \in Seq(Cell)
      /\ Bounded' /\ Filled' /\ ListOK'
  BY <1>1, <1>2, <1>3, CellAppended
<1>5. ReturnPush(p, Fifo!Done) /\ pc[p] \in {"push", "walk"}
  BY DEF PushFirst
<1>6. TypeOK' /\ Mutex' /\ Calls' /\ Walking'
  BY <1>4, <1>5, ReturnPushKept DEF TypeOK, Walking
<1> QED
  BY <1>4, <1>6 DEF IInv

LEMMA PushLastInv ==
  ASSUME IInv, NEW p \in Producers, PushLast(p)
  PROVE  IInv'
<1>1. /\ size[p] \in 1 .. MaxSize - 1
      /\ size[p] = Len(order) /\ order # <<>> /\ Len(order) < MaxSize
      /\ current[p] = order[Len(order)]
      /\ arg[p] \in Msg
  BY AtTheEnd, MaxSizeAssumption DEF PushLast, IInv, TypeOK, Calls, Walking
<1>2. PICK c \in Cell : /\ NewCell(c, arg[p])
                        /\ next' = [next EXCEPT ![c] = NULL, ![current[p]] = c]
  BY DEF PushLast
<1>3. current[p] \in allocated /\ current[p] # c /\ current[p] \in Cell
  BY <1>1, <1>2 DEF IInv, TypeOK, ListOK, NewCell
<1>4. next' = [x \in Cell |-> IF x = c THEN NULL
                              ELSE IF order # <<>> /\ x = order[Len(order)] THEN c
                              ELSE next[x]]
  BY <1>1, <1>2, <1>3 DEF IInv, TypeOK
<1>5. head' = head
  BY DEF PushLast
<1>6. /\ head' \in Cell \cup {NULL}
      /\ msg' \in [Cell -> Msg \cup {NULL}]
      /\ next' \in [Cell -> Cell \cup {NULL}]
      /\ allocated' \subseteq Cell
      /\ order' \in Seq(Cell)
      /\ Bounded' /\ Filled' /\ ListOK'
  BY <1>1, <1>2, <1>4, <1>5, CellAppended
<1>7. ReturnPush(p, Fifo!Done) /\ pc[p] \in {"push", "walk"}
  BY DEF PushLast
<1>8. TypeOK' /\ Mutex' /\ Calls' /\ Walking'
  BY <1>6, <1>7, ReturnPushKept DEF TypeOK, Walking
<1> QED
  BY <1>6, <1>8 DEF IInv

LEMMA PopHeadInv ==
  ASSUME IInv, NEW t \in Consumers, PopHead(t)
  PROVE  IInv'
<1> USE DEF PopHead, Return, Goto
<1>1. /\ order # <<>> /\ head = order[1]
      /\ Len(order) \in Nat \ {0} /\ DOMAIN order = 1 .. Len(order)
      /\ \A k \in DOMAIN order : order[k] \in Cell
  BY DEF IInv, TypeOK, ListOK
<1>2. /\ order' \in Seq(Cell)
      /\ Len(order') = Len(order) - 1
      /\ DOMAIN order' = 1 .. Len(order) - 1
      /\ \A k \in DOMAIN order' : order'[k] = order[k + 1]
  BY <1>1 DEF IInv, TypeOK
<1>3. \A k \in DOMAIN order' : k + 1 \in DOMAIN order /\ order[k + 1] # head
  BY <1>1, <1>2 DEF IInv, ListOK
<1>4. TypeOK'
  <2>1. msg[head] \in Msg
    BY <1>1 DEF IInv, Filled
  <2>2. result' \in [Threads -> Fifo!Results]
    BY <2>1, ResultTypes DEF IInv, TypeOK, Threads
  <2>3. /\ head' \in Cell \cup {NULL}
        /\ msg' \in [Cell -> Msg \cup {NULL}]
        /\ next' \in [Cell -> Cell \cup {NULL}]
        /\ allocated' \subseteq Cell
    BY <1>1 DEF IInv, TypeOK
  <2>4. pc' \in [Threads -> {"idle", "lock", "push", "walk", "pop"}] /\ queue_mutex' \in BOOLEAN
    BY DEF IInv, TypeOK, Threads
  <2> QED
    BY <1>2, <2>2, <2>3, <2>4 DEF IInv, TypeOK, locals
<1>5. Mutex'
  BY DEF IInv, TypeOK, Mutex, InCall, Threads
<1>6. Calls'
  <2>1. \A p \in Producers : pc'[p] = pc[p]
    BY ThreadsAssumption DEF IInv, TypeOK, Threads
  <2>2. \A u \in Consumers : pc'[u] \notin {"push", "walk"}
    BY DEF IInv, TypeOK, Calls, Threads
  <2>3. \A u \in Threads : pc'[u] = "idle" <=> result'[u] # Fifo!Pending
    BY ResultTypes DEF IInv, TypeOK, Calls, Threads
  <2> QED
    BY <2>1, <2>2, <2>3 DEF IInv, Calls, locals
<1>7. Walking'
  <2>1. \A p \in Producers : pc[p] # "walk" /\ pc'[p] = pc[p]
    BY ThreadsAssumption DEF IInv, TypeOK, Mutex, InCall, Threads
  <2> QED
    BY <2>1 DEF Walking
<1>8. Bounded'
  BY <1>1, <1>2, MaxSizeAssumption DEF IInv, Bounded
<1>9. Filled'
  BY <1>1, <1>2, <1>3 DEF IInv, TypeOK, Filled
<1>10. ListOK'
  <2>1. head' = IF order' = <<>> THEN NULL ELSE order'[1]
    BY <1>1, <1>2 DEF IInv, ListOK
  <2>2. ASSUME NEW k \in DOMAIN order'
        PROVE  next'[order'[k]] = IF k < Len(order') THEN order'[k + 1] ELSE NULL
    <3>1. next'[order'[k]] = next[order[k + 1]]
      BY <1>1, <1>2, <1>3 DEF IInv, TypeOK
    <3> QED
      BY <1>1, <1>2, <1>3, <3>1 DEF IInv, ListOK
  <2>3. \A j, k \in DOMAIN order' : order'[j] = order'[k] => j = k
    BY <1>1, <1>2, <1>3 DEF IInv, ListOK
  <2>4. allocated' = {order'[k] : k \in DOMAIN order'}
    <3>1. \A x \in allocated' : \E k \in DOMAIN order : x = order[k] /\ k # 1
      BY <1>1 DEF IInv, ListOK
    <3>2. \A x \in allocated' : \E k \in DOMAIN order' : x = order'[k]
      <4> TAKE x \in allocated'
      <4>1. PICK k \in DOMAIN order : x = order[k] /\ k # 1
        BY <3>1
      <4>2. k - 1 \in DOMAIN order' /\ order'[k - 1] = x
        BY <1>1, <1>2, <4>1
      <4> QED
        BY <4>2
    <3>3. \A k \in DOMAIN order' : order'[k] \in allocated'
      BY <1>1, <1>2, <1>3 DEF IInv, ListOK
    <3> QED
      BY <3>2, <3>3
  <2> QED
    BY <2>1, <2>2, <2>3, <2>4 DEF ListOK
<1> QED
  BY <1>4, <1>5, <1>6, <1>7, <1>8, <1>9, <1>10 DEF IInv

LEMMA NextInv == IInv /\ [Next]_vars => IInv'
<1> SUFFICES ASSUME IInv, [Next]_vars PROVE IInv'
  OBVIOUS
<1>1. ASSUME NEW p \in Producers, PushStep(p) PROVE IInv'
  BY <1>1, LockInv, PushFirstInv, PushWalkInv, WalkInv, PushLastInv DEF PushStep, Threads
<1>2. ASSUME NEW p \in Producers, NEW m \in Msg, Push(p, m) PROVE IInv'
  BY <1>2, PushInv
<1>3. ASSUME NEW t \in Consumers, PopStep(t) PROVE IInv'
  BY <1>3, LockInv, PopNothingInv, PopHeadInv DEF PopStep, Threads
<1>4. ASSUME NEW t \in Consumers, Pop(t) PROVE IInv'
  BY <1>4, PopInv
<1>5. CASE UNCHANGED vars
  BY <1>5 DEF IInv, TypeOK, Mutex, Calls, Walking, Bounded, Filled, ListOK, vars, heap, locals
<1> QED
  BY <1>1, <1>2, <1>3, <1>4, <1>5 DEF Next

LEMMA Invariance == Spec => []IInv
<1>1. Init => IInv
  BY InitInv
<1>2. IInv /\ [Next]_vars => IInv'
  BY NextInv
<1> QED
  BY <1>1, <1>2, PTL DEF Spec

\* Types of the list, the threads and what push and pop return (queue.c).
THEOREM QueueTypes == Spec => []TypeOK
<1>1. IInv => TypeOK
  BY DEF IInv
<1> QED
  BY <1>1, Invariance, PTL

\* Whatever threads push and pop, the list of queue.c is intact: no message
\* is lost, none is in it twice, and no cell is used after it was freed.
THEOREM QueueIntact == Spec => []ListOK
<1>1. IInv => ListOK
  BY DEF IInv
<1> QED
  BY <1>1, Invariance, PTL

-----------------------------------------------------------------------------
(***************************************************************************)
(* The list is a queue: what BoundedQueue calls queue is the sequence of   *)
(* the messages in its cells.                                              *)
(***************************************************************************)
Queue == [k \in DOMAIN order |-> msg[order[k]]]

LEMMA MessagesOfCells ==
  ASSUME NEW o \in Seq(Cell), NEW m, \A k \in DOMAIN o : m[o[k]] \in Msg
  PROVE  /\ [k \in DOMAIN o |-> m[o[k]]] \in Seq(Msg)
         /\ Len([k \in DOMAIN o |-> m[o[k]]]) = Len(o)
<1> DEFINE q == [k \in DOMAIN o |-> m[o[k]]]
<1>1. Len(o) \in Nat /\ DOMAIN o = 1 .. Len(o)
  OBVIOUS
<1>2. q \in [1 .. Len(o) -> Msg]
  BY <1>1
<1>3. q \in Seq(Msg)
  BY <1>1, <1>2, SeqDef
<1> HIDE DEF q
<1>4. Len(q) = Len(o)
  BY <1>1, <1>2, <1>3, LenProperties
<1> QED
  BY <1>3, <1>4 DEF q

LEMMA QueueOfList ==
  /\ IInv => /\ Queue \in Seq(Msg)
             /\ Len(Queue) = Len(order)
             /\ Len(order) \in Nat
             /\ \A k \in 1 .. Len(order) : Queue[k] = msg[order[k]]
  /\ IInv' => /\ Queue' \in Seq(Msg)
              /\ Len(Queue') = Len(order')
              /\ Len(order') \in Nat
              /\ \A k \in 1 .. Len(order') : Queue'[k] = msg'[order'[k]]
<1>1. ASSUME IInv
      PROVE  /\ Queue \in Seq(Msg)
             /\ Len(Queue) = Len(order)
             /\ Len(order) \in Nat
             /\ \A k \in 1 .. Len(order) : Queue[k] = msg[order[k]]
  <2>1. order \in Seq(Cell) /\ \A k \in DOMAIN order : msg[order[k]] \in Msg
    BY <1>1 DEF IInv, TypeOK, Filled
  <2>2. Queue \in Seq(Msg) /\ Len(Queue) = Len(order)
    BY <2>1, MessagesOfCells DEF Queue
  <2> QED
    BY <2>1, <2>2 DEF Queue
<1>2. ASSUME IInv'
      PROVE  /\ Queue' \in Seq(Msg)
             /\ Len(Queue') = Len(order')
             /\ Len(order') \in Nat
             /\ \A k \in 1 .. Len(order') : Queue'[k] = msg'[order'[k]]
  <2>1. order' \in Seq(Cell) /\ \A k \in DOMAIN order' : msg'[order'[k]] \in Msg
    BY <1>2 DEF IInv, TypeOK, Filled
  <2>2. Queue' \in Seq(Msg) /\ Len(Queue') = Len(order')
    BY <2>1, MessagesOfCells DEF Queue
  <2> QED
    BY <2>1, <2>2 DEF Queue
<1> QED
  BY <1>1, <1>2

LEMMA CellIsPush ==
  ASSUME IInv, IInv', NEW p \in Producers, NEW c \in Cell, NewCell(c, arg[p]),
         result[p] = Fifo!Pending, arg[p] \in Msg, Len(order) < MaxSize,
         result' = [result EXCEPT ![p] = Fifo!Done]
  PROVE  Fifo!Push(p, arg[p])
<1>1. order \in Seq(Cell) /\ order' = Append(order, c)
  BY DEF IInv, TypeOK, NewCell
<1>2. /\ Len(order') = Len(order) + 1
      /\ \A k \in 1 .. Len(order) : order'[k] = order[k] /\ order[k] # c
      /\ order'[Len(order) + 1] = c
  BY <1>1 DEF IInv, ListOK, NewCell
<1>3. /\ \A k \in 1 .. Len(order) : msg'[order[k]] = msg[order[k]]
      /\ msg'[c] = arg[p]
  BY <1>1, <1>2 DEF IInv, TypeOK, NewCell
<1>4. Queue' \in Seq(Msg) /\ Len(Queue') = Len(order')
      /\ \A k \in 1 .. Len(order') : Queue'[k] = msg'[order'[k]]
  BY QueueOfList
<1>5. Append(Queue, arg[p]) \in Seq(Msg)
      /\ Len(Append(Queue, arg[p])) = Len(order) + 1
      /\ \A k \in 1 .. Len(order) : Append(Queue, arg[p])[k] = Queue[k]
      /\ Append(Queue, arg[p])[Len(order) + 1] = arg[p]
  BY QueueOfList
<1>6. ASSUME NEW k \in 1 .. Len(Queue')
      PROVE  Queue'[k] = Append(Queue, arg[p])[k]
  <2>1. CASE k \in 1 .. Len(order)
    BY <1>2, <1>3, <1>4, <1>5, <2>1, QueueOfList
  <2>2. CASE k = Len(order) + 1
    BY <1>2, <1>3, <1>4, <1>5, <2>2, QueueOfList
  <2> QED
    BY <1>2, <1>4, <2>1, <2>2, QueueOfList
<1>7. Queue' = Append(Queue, arg[p])
  BY <1>2, <1>4, <1>5, <1>6, SeqEqual
<1> QED
  BY <1>7, QueueOfList DEF Fifo!Push, Fifo!Returns, Queue

LEMMA PopIsPop ==
  ASSUME IInv, IInv', NEW t \in Consumers, PopHead(t)
  PROVE  Fifo!Pop(t)
<1>1. /\ order \in Seq(Cell) /\ order # <<>> /\ head = order[1]
      /\ order' = Tail(order)
      /\ result[t] = Fifo!Pending
  BY DEF IInv, TypeOK, ListOK, Calls, PopHead, Threads
<1>2. /\ Len(order) \in Nat \ {0}
      /\ Len(order') = Len(order) - 1
      /\ \A k \in 1 .. Len(order') : order'[k] = order[k + 1]
  BY <1>1
<1>3. \A k \in 1 .. Len(order') : msg'[order'[k]] = msg[order[k + 1]]
  <2> TAKE k \in 1 .. Len(order')
  <2>1. k + 1 \in DOMAIN order /\ 1 \in DOMAIN order /\ k + 1 # 1
    BY <1>1, <1>2
  <2>2. order[k + 1] # head /\ order[k + 1] \in Cell
    BY <1>1, <2>1 DEF IInv, ListOK
  <2> QED
    BY <1>2, <2>2 DEF IInv, TypeOK, PopHead
<1>4. Queue # <<>> /\ Head(Queue) = msg[head]
  BY <1>1, <1>2, QueueOfList
<1>5. /\ Tail(Queue) \in Seq(Msg)
      /\ Len(Tail(Queue)) = Len(order')
      /\ \A k \in 1 .. Len(order') : Tail(Queue)[k] = Queue[k + 1]
  BY <1>2, <1>4, QueueOfList
<1>6. ASSUME NEW k \in 1 .. Len(Queue')
      PROVE  Queue'[k] = Tail(Queue)[k]
  <2>1. k \in 1 .. Len(order') /\ k + 1 \in 1 .. Len(order)
    BY <1>2, QueueOfList
  <2> QED
    BY <1>3, <1>5, <2>1, QueueOfList
<1>7. Queue' = Tail(Queue)
  BY <1>5, <1>6, QueueOfList, SeqEqual
<1>8. result' = [result EXCEPT ![t] = Fifo!Popped(Head(Queue))]
  BY <1>4 DEF PopHead, Return
<1> QED
  BY <1>1, <1>4, <1>7, <1>8 DEF Fifo!Pop, Fifo!Returns, Queue

LEMMA FifoInit == Init => Fifo!Init
<1> SUFFICES ASSUME Init PROVE Fifo!Init
  OBVIOUS
<1>1. [k \in DOMAIN order |-> msg[order[k]]] = <<>>
  BY DEF Init
<1> QED
  BY <1>1 DEF Init, Fifo!Init, Threads, Fifo!Threads

\* A push takes effect when its cell is linked, a pop when its cell is
\* taken; a call that fails finds the queue full or empty at that moment.
LEMMA FifoNext == IInv /\ IInv' /\ [Next]_vars => [Fifo!Next]_(Fifo!vars)
<1> SUFFICES ASSUME IInv, IInv', [Next]_vars
             PROVE  Fifo!Next \/ UNCHANGED Fifo!vars
  OBVIOUS
<1> USE DEF Fifo!vars
<1>1. ASSUME NEW t \in Threads, Lock(t) PROVE UNCHANGED Fifo!vars
  BY <1>1 DEF Lock, heap
<1>2. ASSUME NEW p \in Producers, PushWalk(p) PROVE UNCHANGED Fifo!vars
  BY <1>2 DEF PushWalk, heap
<1>3. ASSUME NEW p \in Producers, Walk(p) PROVE Fifo!Next \/ UNCHANGED Fifo!vars
  <2>1. CASE size[p] + 1 >= MaxSize
    <3>1. Len(order) = MaxSize
      BY <1>3, <2>1, AtTheEnd, MaxSizeAssumption DEF Walk, IInv, TypeOK, Bounded
    <3>2. result[p] = Fifo!Pending
      BY <1>3 DEF IInv, Calls, Threads, Walk
    <3>3. Fifo!Refuse(p)
      BY <1>3, <2>1, <3>1, <3>2, QueueOfList
      DEF Walk, ReturnPush, Return, heap, Fifo!Refuse, Fifo!Returns, Queue
    <3> QED
      BY <3>3 DEF Fifo!Next
  <2>2. CASE ~(size[p] + 1 >= MaxSize)
    BY <1>3, <2>2 DEF Walk, heap
  <2> QED
    BY <2>1, <2>2
<1>4. ASSUME NEW p \in Producers, PushFirst(p) PROVE Fifo!Next
  <2>1. /\ Len(order) < MaxSize /\ arg[p] \in Msg /\ result[p] = Fifo!Pending
    BY <1>4, MaxSizeAssumption, NullAssumption
    DEF PushFirst, IInv, TypeOK, ListOK, Calls, Threads
  <2>2. PICK c \in Cell : NewCell(c, arg[p])
    BY <1>4 DEF PushFirst
  <2>3. Fifo!Push(p, arg[p])
    BY <1>4, <2>1, <2>2, CellIsPush DEF PushFirst, ReturnPush, Return
  <2>4. \E m \in Msg : Fifo!Push(p, m)
    BY <2>1, <2>3 DEF Fifo!Push
  <2> QED
    BY <2>4 DEF Fifo!Next
<1>5. ASSUME NEW p \in Producers, PushLast(p) PROVE Fifo!Next
  <2>1. /\ Len(order) < MaxSize /\ arg[p] \in Msg /\ result[p] = Fifo!Pending
    BY <1>5, AtTheEnd, MaxSizeAssumption
    DEF PushLast, IInv, TypeOK, Walking, Calls, Threads
  <2>2. PICK c \in Cell : NewCell(c, arg[p])
    BY <1>5 DEF PushLast
  <2>3. Fifo!Push(p, arg[p])
    BY <1>5, <2>1, <2>2, CellIsPush DEF PushLast, ReturnPush, Return
  <2>4. \E m \in Msg : Fifo!Push(p, m)
    BY <2>1, <2>3 DEF Fifo!Push
  <2> QED
    BY <2>4 DEF Fifo!Next
<1>6. ASSUME NEW p \in Producers, NEW m \in Msg, Push(p, m) PROVE Fifo!Next
  <2>1. Fifo!Call(p)
    BY <1>6 DEF IInv, Calls, Threads, Push, heap, Fifo!Call, Fifo!Returns
  <2> QED
    BY <2>1 DEF Fifo!Next, Fifo!Threads
<1>7. ASSUME NEW t \in Consumers, Pop(t) PROVE Fifo!Next
  <2>1. Fifo!Call(t)
    BY <1>7 DEF IInv, Calls, Threads, Pop, heap, Fifo!Call, Fifo!Returns
  <2> QED
    BY <2>1 DEF Fifo!Next, Fifo!Threads
<1>8. ASSUME NEW t \in Consumers, PopNothing(t) PROVE Fifo!Next
  <2>1. order = <<>> /\ result[t] = Fifo!Pending
    BY <1>8, NullAssumption DEF IInv, TypeOK, ListOK, Calls, Threads, PopNothing
  <2>2. [k \in DOMAIN order |-> msg[order[k]]] = <<>>
    BY <2>1
  <2>3. Fifo!FindNothing(t)
    BY <1>8, <2>1, <2>2 DEF PopNothing, Return, heap, Fifo!FindNothing, Fifo!Returns
  <2> QED
    BY <2>3 DEF Fifo!Next
<1>9. ASSUME NEW t \in Consumers, PopHead(t) PROVE Fifo!Next
  BY <1>9, PopIsPop DEF Fifo!Next
<1>10. CASE UNCHANGED vars
  BY <1>10 DEF vars, heap
<1> QED
  BY <1>1, <1>2, <1>3, <1>4, <1>5, <1>6, <1>7, <1>8, <1>9, <1>10
  DEF Next, PushStep, PopStep, Threads

\* push and pop of queue.c implement a bounded queue, first in, first out,
\* for any number of threads: what is accepted comes out once and in order,
\* and only a full queue refuses.
THEOREM QueueIsFifo == Spec => ImplementsFifo
<1>1. Init => Fifo!Init
  BY FifoInit
<1>2. IInv /\ IInv' /\ [Next]_vars => [Fifo!Next]_(Fifo!vars)
  BY FifoNext
<1> QED
  BY <1>1, <1>2, Invariance, PTL DEF Spec, Fifo!Spec, ImplementsFifo
=============================================================================
