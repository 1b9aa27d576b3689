-------------------------------- MODULE MCCmh --------------------------------
(* Instances of Cmh for TLC. *)
EXTENDS Cmh, TLC

CONSTANTS n1, n2, n3, t1, t2

ThreeNodes == {n1, n2, n3}
ThreeRing == n1 :> n2 @@ n2 :> n3 @@ n3 :> n1
WaitsForOthers == {w \in Node \X Node : w[1] # w[2]}
WaitsOfOne == {<< n2, n1 >>, << n2, n3 >>}

\* Every node is passive, n1 waits for the other two and they for it: n2 and n3
\* were set passive, and then each of the four waits was asked for and refused.
KnotInit ==
  /\ DetectionInit
  /\ isActive = [n \in Node |-> FALSE]
  /\ waitingFrom = n1 :> {n2, n3} @@ n2 :> {n1} @@ n3 :> {n1}
  /\ permissionQueue = waitingFrom
  /\ changes = 0
  /\ knotted = {}

\* A test of one request meets the changes of another.
KnotNext ==
  /\ StartTest(t1) \/ StartChange(t2) \/ \E t \in Task : CmhStep(t)
  /\ Observe
KnotSpec == KnotInit /\ [][KnotNext]_cmhVars /\ CmhFairness
=============================================================================
