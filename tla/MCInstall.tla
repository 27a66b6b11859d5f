----------------------------- MODULE MCInstall -----------------------------
(* One machine, two clusters: a bundle and an online one. *)
EXTENDS Install

CONSTANTS k1, k2

S(k, role, mode, isVip, sum) ==
  [k |-> k, role |-> role, mode |-> mode, vip |-> isVip, addons |-> isVip, summed |-> sum, sound |-> TRUE]

Mixed ==
  {S(k1, "first-master", "bundle", TRUE, TRUE), S(k1, "worker", "bundle", FALSE, FALSE),
   S(k2, "join-master", "online", TRUE, TRUE), S(k2, "worker", "online", FALSE, TRUE),
   [S(k1, "join-master", "bundle", FALSE, TRUE) EXCEPT !.sound = FALSE]}

=============================================================================
