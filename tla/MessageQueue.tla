---------------------------- MODULE MessageQueue ----------------------------
(***************************************************************************)
(* One of the two queues of src/queue.c: a linked list between the threads *)
(* that produce messages and the one that consumes them.  push_send and    *)
(* pop_send are the same code as push_ui and pop_ui, for other contents.   *)
(*                                                                         *)
(* The list lives in a heap of cells.  A push walks to its end and counts  *)
(* the messages on the way.                                                *)
(***************************************************************************)
EXTENDS Integers, Sequences

CONSTANTS
  Msg,        \* the messages
  Producers,  \* threads that push
  Consumers,  \* threads that pop: the sender, or the user interface
  MaxSize,    \* MAX_QUEUE_SIZE
  Cell,       \* heap cells of the size of a QueueMessage
  NULL        \* the null pointer

Threads == Producers \cup Consumers

ASSUME ThreadsAssumption == Producers \cap Consumers = {}
ASSUME NullAssumption == NULL \notin Cell \cup Msg

\* With a maximum of 1 the code would not refuse the second message.
ASSUME MaxSizeAssumption == MaxSize \in Nat /\ MaxSize >= 2

VARIABLES
  head,         \* first cell of the list, or NULL
  msg, next,    \* the fields of the cells
  allocated,    \* the cells in use
  queue_mutex,  \* is it locked?
  pc,           \* label of every thread
  arg,          \* what a producer pushes
  current,      \* where it is in the list
  size,         \* how many cells it has counted
  result,       \* what the last call of a thread returned
  order         \* history: the cells of the list, in the order they came

heap == <<msg, next, allocated>>
locals == <<arg, current, size>>
vars == <<head, heap, queue_mutex, pc, locals, result, order>>

Fifo == INSTANCE BoundedQueue WITH queue <- [k \in DOMAIN order |-> msg[order[k]]]

Init ==
  /\ head = NULL
  /\ msg = [c \in Cell |-> NULL]
  /\ next = [c \in Cell |-> NULL]
  /\ allocated = {}
  /\ queue_mutex = FALSE
  /\ pc = [t \in Threads |-> "idle"]
  /\ arg = [p \in Producers |-> NULL]
  /\ current = [p \in Producers |-> NULL]
  /\ size = [p \in Producers |-> 0]
  /\ result = [t \in Threads |-> Fifo!Done]
  /\ order = <<>>

Goto(t, l) == pc' = [pc EXCEPT ![t] = l]

Lock(t) ==
  /\ pc[t] = "lock"
  /\ queue_mutex = FALSE
  /\ queue_mutex' = TRUE
  /\ Goto(t, IF t \in Producers THEN "push" ELSE "pop")
  /\ UNCHANGED <<head, heap, locals, result, order>>

\* Every return: unlock and say how it went.
Return(t, r) ==
  /\ queue_mutex' = FALSE
  /\ result' = [result EXCEPT ![t] = r]
  /\ Goto(t, "idle")

\* The locals of a push are gone when it returns.
ReturnPush(p, r) ==
  /\ Return(p, r)
  /\ arg' = [arg EXCEPT ![p] = NULL]
  /\ current' = [current EXCEPT ![p] = NULL]
  /\ size' = [size EXCEPT ![p] = 0]

-----------------------------------------------------------------------------
(***************************************************************************)
(* push_send, push_ui                                                      *)
(***************************************************************************)
Push(p, m) ==
  /\ pc[p] = "idle"
  /\ arg' = [arg EXCEPT ![p] = m]
  /\ result' = [result EXCEPT ![p] = Fifo!Pending]
  /\ Goto(p, "lock")
  /\ UNCHANGED <<head, heap, queue_mutex, current, size, order>>

\* Mutant of NewCell: the message is not copied.
NewCellBlank(c, m) ==
  /\ c \notin allocated
  /\ allocated' = allocated \cup {c}
  /\ UNCHANGED msg
  /\ order' = Append(order, c)

\* malloc and fill a cell.
NewCell(c, m) ==
  /\ c \notin allocated
  /\ allocated' = allocated \cup {c}
  /\ msg' = [msg EXCEPT ![c] = m]
  /\ order' = Append(order, c)

PushFirst(p) ==
  /\ pc[p] = "push"
  /\ head = NULL
  /\ \E c \in Cell :
       /\ NewCell(c, arg[p])
       /\ next' = [next EXCEPT ![c] = NULL]
       /\ head' = c
  /\ ReturnPush(p, Fifo!Done)

PushWalk(p) ==
  /\ pc[p] = "push"
  /\ head # NULL
  /\ current' = [current EXCEPT ![p] = head]
  /\ size' = [size EXCEPT ![p] = 1]
  /\ Goto(p, "walk")
  /\ UNCHANGED <<head, heap, queue_mutex, arg, result, order>>

\* Mutants of Walk: one message more is accepted, or a full queue is left
\* without unlocking it.
WalkLate(p) ==
  /\ pc[p] = "walk"
  /\ next[current[p]] # NULL
  /\ IF size[p] >= MaxSize
     THEN ReturnPush(p, Fifo!Failed)
     ELSE /\ current' = [current EXCEPT ![p] = next[@]]
          /\ size' = [size EXCEPT ![p] = @ + 1]
          /\ UNCHANGED <<queue_mutex, result, pc, arg>>
  /\ UNCHANGED <<head, heap, order>>

WalkLocked(p) ==
  /\ pc[p] = "walk"
  /\ next[current[p]] # NULL
  /\ UNCHANGED queue_mutex
  /\ IF size[p] + 1 >= MaxSize
     THEN /\ Goto(p, "idle")
          /\ result' = [result EXCEPT ![p] = Fifo!Failed]
          /\ UNCHANGED locals
     ELSE /\ current' = [current EXCEPT ![p] = next[@]]
          /\ size' = [size EXCEPT ![p] = @ + 1]
          /\ UNCHANGED <<result, pc, arg>>
  /\ UNCHANGED <<head, heap, order>>

\* One cell further; the queue is full if that makes MaxSize cells.
Walk(p) ==
  /\ pc[p] = "walk"
  /\ next[current[p]] # NULL
  /\ IF size[p] + 1 >= MaxSize
     THEN ReturnPush(p, Fifo!Failed)
     ELSE /\ current' = [current EXCEPT ![p] = next[@]]
          /\ size' = [size EXCEPT ![p] = @ + 1]
          /\ UNCHANGED <<queue_mutex, result, pc, arg>>
  /\ UNCHANGED <<head, heap, order>>

\* Mutant of PushLast: the new cell is linked to the head instead of the last one.
PushSecond(p) ==
  /\ pc[p] = "walk"
  /\ next[current[p]] = NULL
  /\ \E c \in Cell :
       /\ NewCell(c, arg[p])
       /\ next' = [next EXCEPT ![c] = NULL, ![head] = c]
  /\ ReturnPush(p, Fifo!Done)
  /\ UNCHANGED head

PushLast(p) ==
  /\ pc[p] = "walk"
  /\ next[current[p]] = NULL
  /\ \E c \in Cell :
       /\ NewCell(c, arg[p])
       /\ next' = [next EXCEPT ![c] = NULL, ![current[p]] = c]
  /\ ReturnPush(p, Fifo!Done)
  /\ UNCHANGED head

-----------------------------------------------------------------------------
(***************************************************************************)
(* pop_send, pop_ui                                                        *)
(***************************************************************************)
Pop(t) ==
  /\ pc[t] = "idle"
  /\ result' = [result EXCEPT ![t] = Fifo!Pending]
  /\ Goto(t, "lock")
  /\ UNCHANGED <<head, heap, queue_mutex, locals, order>>

PopNothing(t) ==
  /\ pc[t] = "pop"
  /\ head = NULL
  /\ Return(t, Fifo!Failed)
  /\ UNCHANGED <<head, heap, locals, order>>

\* Mutant of PopHead: the message is returned and stays in the list.
PopHeadKept(t) ==
  /\ pc[t] = "pop"
  /\ head # NULL
  /\ Return(t, Fifo!Popped(msg[head]))
  /\ UNCHANGED <<head, heap, locals, order>>

PopHead(t) ==
  /\ pc[t] = "pop"
  /\ head # NULL
  /\ Return(t, Fifo!Popped(msg[head]))
  /\ head' = next[head]
  /\ allocated' = allocated \ {head}
  /\ msg' = [msg EXCEPT ![head] = NULL]
  /\ next' = [next EXCEPT ![head] = NULL]
  /\ order' = Tail(order)
  /\ UNCHANGED locals

PushStep(p) == Lock(p) \/ PushFirst(p) \/ PushWalk(p) \/ Walk(p) \/ PushLast(p)
PopStep(t) == Lock(t) \/ PopNothing(t) \/ PopHead(t)

Next ==
  \/ \E p \in Producers : PushStep(p) \/ \E m \in Msg : Push(p, m)
  \/ \E t \in Consumers : PopStep(t) \/ Pop(t)

Spec == Init /\ [][Next]_vars

\* Threads that wait for the mutex get it in the end, and the consumers
\* pop in a loop; nobody needs to push.
FairSpec ==
  /\ Spec
  /\ \A p \in Producers : SF_vars(PushStep(p))
  /\ \A t \in Consumers : SF_vars(PopStep(t)) /\ WF_vars(Pop(t))
-----------------------------------------------------------------------------
TypeOK ==
  /\ head \in Cell \cup {NULL}
  /\ msg \in [Cell -> Msg \cup {NULL}]
  /\ next \in [Cell -> Cell \cup {NULL}]
  /\ allocated \subseteq Cell
  /\ queue_mutex \in BOOLEAN
  /\ pc \in [Threads -> {"idle", "lock", "push", "walk", "pop"}]
  /\ arg \in [Producers -> Msg \cup {NULL}]
  /\ current \in [Producers -> Cell \cup {NULL}]
  /\ size \in [Producers -> 0 .. MaxSize]
  /\ result \in [Threads -> Fifo!Results]
  /\ order \in Seq(Cell)

\* The list is intact while several threads push and pop: it leads through
\* the messages in the order they came and ends, no cell is in it twice, and
\* every cell in use is in it, so none is lost and none used after free.
ListOK ==
  /\ head = IF order = <<>> THEN NULL ELSE order[1]
  /\ \A k \in DOMAIN order :
       next[order[k]] = IF k < Len(order) THEN order[k + 1] ELSE NULL
  /\ \A j, k \in DOMAIN order : order[j] = order[k] => j = k
  /\ allocated = {order[k] : k \in DOMAIN order}

\* The list is a queue of at most MaxSize messages, first in, first out,
\* which refuses a message only when it is full.
ImplementsFifo == Fifo!Spec

\* Every call returns: no return, early or not, keeps the mutex.
CallsReturn == \A t \in Threads : pc[t] # "idle" ~> pc[t] = "idle"

\* A message that was accepted is handed out in the end, whatever the
\* producers go on to push.
Delivered ==
  \A c \in Cell : c \in allocated ~> c \notin allocated
=============================================================================
