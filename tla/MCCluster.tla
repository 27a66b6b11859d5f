----------------------------- MODULE MCCluster -----------------------------
(* Small instances of Cluster. *)
EXTENDS Cluster, TLC

CONSTANTS k1, k2, n1, n2, q1, q2

\* Machines are interchangeable, and so are the clusters of an instance (used by safety
\* runs only).
Alike == Permutations(Nodes) \cup Permutations(Clusters) \cup Permutations(Callers)

=============================================================================
