---------------------------- MODULE BoundedQueue ----------------------------
(***************************************************************************)
(* What a message queue promises its callers: a sequence of at most        *)
(* MaxSize messages, first in, first out.  A push is refused only when it  *)
(* is full, a pop finds nothing only when it is empty.                     *)
(***************************************************************************)
EXTENDS Naturals, Sequences

CONSTANTS Msg, Producers, Consumers, MaxSize

VARIABLES
  queue,    \* the messages
  result    \* what the last call of every thread returned, if it has

vars == <<queue, result>>

Threads == Producers \cup Consumers
Pending == [state |-> "pending"]
Done == [state |-> "done"]
Failed == [state |-> "failed"]
Popped(m) == [state |-> "popped", msg |-> m]

Results == {Pending, Done, Failed} \cup {Popped(m) : m \in Msg}

Returns(t, r) == result' = [result EXCEPT ![t] = r]

Init == queue = <<>> /\ result = [t \in Threads |-> Done]

Call(t) ==
  /\ result[t] # Pending
  /\ Returns(t, Pending)
  /\ UNCHANGED queue

Push(p, m) ==
  /\ result[p] = Pending
  /\ Len(queue) < MaxSize
  /\ queue' = Append(queue, m)
  /\ Returns(p, Done)

Refuse(p) ==
  /\ result[p] = Pending
  /\ Len(queue) = MaxSize
  /\ Returns(p, Failed)
  /\ UNCHANGED queue

Pop(c) ==
  /\ result[c] = Pending
  /\ queue # <<>>
  /\ queue' = Tail(queue)
  /\ Returns(c, Popped(Head(queue)))

FindNothing(c) ==
  /\ result[c] = Pending
  /\ queue = <<>>
  /\ Returns(c, Failed)
  /\ UNCHANGED queue

Next ==
  \/ \E t \in Threads : Call(t)
  \/ \E p \in Producers : Refuse(p) \/ \E m \in Msg : Push(p, m)
  \/ \E c \in Consumers : Pop(c) \/ FindNothing(c)

Spec == Init /\ [][Next]_vars
=============================================================================
