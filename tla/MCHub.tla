------------------------------- MODULE MCHub -------------------------------
(* Small instances of Hub: every stream and every id is for the one node n1. *)
EXTENDS Hub, TLC

CONSTANTS n1, c1, c2, r1, s1

AllOnOne == [c \in Conns |-> n1]
AimAtOne == [i \in Ids |-> n1]

\* Streams of one node are interchangeable (used by the safety run only).
AnyStream == Permutations(Conns)

\* The liveness run takes one story at a time: a call, a terminal, or agents that report.
\* The steps this cuts off are those of users and agents, of which FairSpec assumes nothing.
OneStory ==
  Cardinality({i \in Ids : kpc[i] # "idle"}) + (IF \E c \in Conns : greeted[c] THEN 1 ELSE 0) <= 1

=============================================================================
