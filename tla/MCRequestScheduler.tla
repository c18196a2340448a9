-------------------------- MODULE MCRequestScheduler --------------------------
(* Small instances of RequestScheduler for TLC.                            *)
EXTENDS RequestScheduler

CONSTANT MaxLive    \* how many elements are in use at a time

\* The elements the scheduler or its caller knows.
Live == {e \in Elem : state[e] # "FREE"} \cup granted \cup bypassed

\* The scheduler with at most MaxLive elements, of whatever kinds.
FewNext == Next /\ Cardinality(Live') <= MaxLive
FewSpec == Init /\ [][FewNext]_vars /\ Fairness
=============================================================================
