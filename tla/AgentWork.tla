----------------------------- MODULE AgentWork -----------------------------
(***************************************************************************)
(* What the node agent promises of scripts and installs, seen from outside *)
(* (docs/agent-features.md, "serial execution" and "idempotence"): the     *)
(* machine runs one at a time, and a request id whose result is remembered *)
(* is not run again.  Cluster.tla takes this for granted when it lets a    *)
(* node work off its scripts one after the other; AgentSession.tla shows   *)
(* that the agent's goroutines provide it across lost connections.         *)
(***************************************************************************)
CONSTANT Jobs  \* request ids of exec and install frames

VARIABLES
  working,  \* the scripts and installs running on the machine
  cached    \* the ids whose result is remembered

Init == working = {} /\ cached = {}

Begin(i) ==
  /\ working = {}
  /\ i \notin cached
  /\ working' = {i}
  /\ UNCHANGED cached

End(i) ==
  /\ i \in working
  /\ working' = working \ {i}
  /\ cached' = cached \cup {i}

\* A result is forgotten: ten minutes later, or with the agent's process.
Forget == cached' \subseteq cached /\ UNCHANGED working

\* The machine's processes are killed.
Die == working' = {} /\ cached' = {}

Next == (\E i \in Jobs : Begin(i) \/ End(i)) \/ Forget \/ Die

Spec == Init /\ [][Next]_<<working, cached>>

OneAtATime == \A i, j \in working : i = j

=============================================================================
