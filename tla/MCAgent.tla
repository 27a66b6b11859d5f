------------------------------ MODULE MCAgent ------------------------------
(* Small instances of AgentSession. *)
EXTENDS AgentSession, TLC

CONSTANTS j1, j2, t1

\* A behaviour is about two scripts, sent in one order, or about a script and a terminal: what is
\* held back are choices of the panel's, of which Fairness assumes nothing.
Met(i) == i \in given \cup working \cup cached
OneStory ==
  /\ j2 \in given => j1 \in given
  /\ Met(j2) => \A t \in Terms : ~Met(t) /\ pump[t] = "none"

StorySpec == Init /\ [][Next /\ OneStory']_vars /\ Fairness

=============================================================================
