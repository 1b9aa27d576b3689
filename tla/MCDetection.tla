---------------------------- MODULE MCDetection ----------------------------
(* Instances of Detection for TLC. *)
EXTENDS Detection, TLC

CONSTANTS n1, n2, n3, t1, t2

ThreeNodes == {n1, n2, n3}
ThreeRing == n1 :> n2 @@ n2 :> n3 @@ n3 :> n1

\* No node waits for itself: an eighth of the graphs.
OthersInit == DetectionInit /\ \A n \in Node : n \notin waitingFrom[n]

\* Tests of n1 and of n2 at the same time.  It makes no difference which task
\* runs which.
PairNext ==
  \/ StartDetection(t1, n1) \/ StartDetection(t2, n2)
  \/ \E t \in Task : RequestStep(t)
PairSpec == OthersInit /\ [][PairNext]_detectionVars /\ Fairness
=============================================================================
