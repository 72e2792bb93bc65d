------------------------------- MODULE MCChat -------------------------------
(***************************************************************************)
(* Chat for TLC: a and r write to b, a through r; gone has left.           *)
(***************************************************************************)
EXTENDS Chat, TLC

CONSTANTS a, r, b, gone

MCNextHop == a :> (b :> r) @@ r :> (b :> b @@ gone :> NoName) @@ b :> (a :> r @@ r :> r)

\* The fairness of FairSpec, with what enables a step and what it alone does
\* in place of ENABLED, which is slow to evaluate.
Shorter(q, old) == Len(q) < Len(old)
Progress ==
  /\ \A n \in Node :
       /\ []<>(uiq[n] = <<>>) \/ []<><<Shorter(uiq'[n], uiq[n])>>_vars
       /\ []<>(sendq[n] = <<>>) \/ []<><<Shorter(sendq'[n], sendq[n])>>_vars
  /\ \A l \in Link :
       \/ []<>(stream[l] = <<>> \/ server[l[2]].from \notin {NoName, l[1]})
       \/ []<><<Shorter(stream'[l], stream[l])>>_vars

\* Bound of the run: how long the texts are.  Two messages with a text of
\* the first length fill the buffer, as does one with a text of the second.
Lengths(n) == IF n = a THEN {1, 5} ELSE {1}
MCNext ==
  /\ Next
  /\ \A p \in DOMAIN typed : \A k \in DOMAIN typed'[p] : typed'[p][k] \in Lengths(p[1])

MCSpec == Init /\ [][MCNext]_vars /\ Progress
=============================================================================
