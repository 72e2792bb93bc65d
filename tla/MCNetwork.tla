----------------------------- MODULE MCNetwork -----------------------------
(***************************************************************************)
(* Network for TLC, with numbers as names: nodes start in their order, the *)
(* last but one not at all once another one has started again, and the     *)
(* last one only while every change finds the network at rest.  HEARTs of  *)
(* the heartbeat threads, which change no table, are sent while nodes join *)
(* and leave a network at rest, by fewer nodes if one leaves.              *)
(***************************************************************************)
EXTENDS Network

InOrder ==
  \A m, n \in Node : m < n /\ state[n] = "off" /\ state'[n] # "off" => state[m] # "off"

Last == CHOOSE n \in Node : \A m \in Node : m <= n
Small == /\ returns' > 0 => state'[Last - 1] = "off"
         /\ calm' \/ state'[Last] = "off"
         /\ signals' > 0 => calm' /\ returns' = 0 /\ (upsets' = 0 \/ state'[Last] = "off")

\* The fairness of FairSpec in a form that TLC need not enumerate the
\* handlers for: some step of Handle is enabled exactly when Rest is false,
\* and the steps of Handle are those that leave state and the counters alone.
Progress == []<>Rest \/ []<><<UNCHANGED <<state, upsets, signals>> >>_vars

MCSpec == Init /\ [][Next /\ InOrder /\ Small]_vars /\ Progress
=============================================================================
