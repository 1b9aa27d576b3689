---------------------------- MODULE MCResources ----------------------------
(* Instances of Resources for TLC. *)
EXTENDS Resources, TLC

CONSTANTS n1, n2, n3, t1, t2, r1, r2

ThreeNodes == {n1, n2, n3}
ThreeRing == n1 :> n2 @@ n2 :> n3 @@ n3 :> n1

\* n1 owns r1, nobody owns r2.
OneOwned == r1 :> n1 @@ r2 :> NoNode
TwoForOwned == r1 :> 2 @@ r2 :> 1
=============================================================================
