------------------------------ MODULE RouteMap ------------------------------
(***************************************************************************)
(* What a routing table promises its callers, without slots, records,      *)
(* locks or threads: a map from names to routes.  A name is learned with a *)
(* route, a route is exchanged for a shorter one only, and names other     *)
(* than the node's own are forgotten one at a time.                        *)
(***************************************************************************)
EXTENDS Naturals

CONSTANTS Name, Own

VARIABLE routes   \* the known names -> [nextChatName, hopCount]

Known == DOMAIN routes

\* One hop away is who is reached without going through anybody else.
Route(n) == {r \in [nextChatName : Name \ {Own}, hopCount : Nat \ {0}] :
               r.hopCount = 1 <=> r.nextChatName = n}

Init == routes = [n \in {Own} |-> [nextChatName |-> Own, hopCount |-> 0]]

Learn(n, r) ==
  /\ n \notin Known
  /\ r \in Route(n)
  /\ routes' = [k \in Known \cup {n} |-> IF k = n THEN r ELSE routes[k]]

Shorten(n, r) ==
  /\ n \in Known \ {Own}
  /\ r \in Route(n)
  /\ r.hopCount < routes[n].hopCount
  /\ routes' = [routes EXCEPT ![n] = r]

Forget(n) ==
  /\ n \in Known \ {Own}
  /\ routes' = [k \in Known \ {n} |-> routes[k]]

\* The route involved is that of the next state, so nothing is enumerated.
Next ==
  \E n \in Name \ {Own} :
    \/ n \in DOMAIN routes' /\ (Learn(n, routes'[n]) \/ Shorten(n, routes'[n]))
    \/ Forget(n)

Spec == Init /\ [][Next]_routes
=============================================================================
