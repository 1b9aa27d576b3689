-------------------------- MODULE MCRingResources ---------------------------
(* Instances of RingResources for TLC: a ring of three that is formed. *)
EXTENDS RingResources, TLC

CONSTANTS n1, n2, n3, t1, r1

Owners == r1 :> n2

Circle == n1 :> n2 @@ n2 :> n3 @@ n3 :> n1

\* n2 has joined n1, and n3 has joined n2.
FormedInit ==
  /\ calls = [t \in Task |-> << >>]
  /\ alive = Node
  /\ clients = [n \in Node |-> [o \in Node |->
                  IF << n, o >> \in {<< n1, n1 >>, << n2, n1 >>, << n3, n2 >>}
                    THEN "open" ELSE "none"]]
  /\ info = [n \in Node |->
               [next |-> Circle[n], nnext |-> Circle[Circle[n]],
                prev |-> Circle[Circle[n]]]]
  /\ currentUser = [r \in Resource |-> NoNode]
  /\ requestQueue = [r \in Resource |-> << >>]
  /\ used = [n \in Node |-> {}]

FormedSpec ==
  /\ FormedInit /\ [][ReviveNext]_ringResourcesVars
  /\ \A t \in Task :
       /\ WF_ringResourcesVars(RingResourcesStep(t))
       /\ SF_ringResourcesVars(MessageUnanswered(t))
       /\ SF_ringResourcesVars(RepairUnanswered(t) /\ UNCHANGED resourceVars)

\* Bound: one node is down at a time.  Once it has been missed and cannot come
\* back, what is left is a smaller ring, and is not looked into.
OneNodeDown ==
  /\ Cardinality(Node \ alive) <= 1
  /\ (\A t \in Task : Idle(t)) =>
       \A n \in Node \ alive : n \in Member \/ ~HasStrayConnection(n)
=============================================================================
