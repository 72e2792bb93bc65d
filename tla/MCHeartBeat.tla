---------------------------- MODULE MCHeartBeat ----------------------------
(***************************************************************************)
(* HeartBeat for TLC: the neighbours are interchangeable.                  *)
(***************************************************************************)
EXTENDS HeartBeat, TLC

Symmetry == Permutations(User)

\* Bound of the run on safety: all neighbours' messages may be on their way
\* while the table is as it was when the list was emptied; once it has
\* changed only steps from states with one message or none are followed.
FewMessages == disturbed => Cardinality(hearts) + Cardinality(replies) <= 1

\* Neighbours become known only while the thread has nobody to ask: with
\* three neighbours, two that are removed and come back in every round make
\* the loop skip the third one for ever.
QuietNext ==
  \/ HeartBeatStep
  \/ Mark
  \/ \E n \in User : ReceiveHeartbeatResponse(n) \/ Answer(n) \/ Stop(n)
  \/ /\ pc = "collect"
     /\ Listed(oneHopaway) = {}
     /\ \E n \in User : Route(n)

QuietSpec == Init /\ [][QuietNext]_vars /\ SF_vars(HeartBeatStep) /\ WF_vars(Mark)
=============================================================================
