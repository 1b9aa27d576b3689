--------------------------- MODULE MCLamportClock ---------------------------
(* Instances of LamportClock for TLC: a ring of two, on which a message for *)
(* the node that sends it is sent on by the other one.                      *)
EXTENDS LamportClock, TLC

CONSTANTS n1, n2, t1, t2

TwoRing == n1 :> n2 @@ n2 :> n1

Tasks == Permutations(Task)
=============================================================================
