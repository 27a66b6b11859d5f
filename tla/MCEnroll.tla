------------------------------ MODULE MCEnroll ------------------------------
(* Two machines: both with a machine-id, or one of them without. *)
EXTENDS Enroll

CONSTANTS m1, m2, x1, x2, a1, a2

TwoHomes == [m \in Machines |-> IF m = m1 THEN a1 ELSE a2]
Pairs == {[m \in Machines |-> IF m = m1 THEN x1 ELSE x2], [m \in Machines |-> IF m = m1 THEN x1 ELSE Anon]}

=============================================================================
