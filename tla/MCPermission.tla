---------------------------- MODULE MCPermission ----------------------------
(* Instances of Permission for TLC. *)
EXTENDS Permission, TLC

CONSTANTS n1, n2, n3, t1, t2

ThreeNodes == {n1, n2, n3}
ThreeRing == n1 :> n2 @@ n2 :> n3 @@ n3 :> n1
WaitsForOthers == {w \in Node \X Node : w[1] # w[2]}
OneWaitsForItself == WaitsForOthers \cup {<< n1, n1 >>}
=============================================================================
