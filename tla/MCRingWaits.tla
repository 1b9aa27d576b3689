---------------------------- MODULE MCRingWaits -----------------------------
(* Instances of RingWaits for TLC: a ring of three that is formed. *)
EXTENDS RingWaits, TLC

CONSTANTS n1, n2, n3, t1

Circle == n1 :> n2 @@ n2 :> n3 @@ n3 :> n1

\* n2 has joined n1, and n3 has joined n2.
FormedInit ==
  /\ calls = [t \in Task |-> << >>]
  /\ alive = Node
  /\ clients = [n \in Node |-> [o \in Node |->
                  IF << n, o >> \in {<< n1, n1 >>, << n2, n1 >>, << n3, n2 >>}
                    THEN "open" ELSE "none"]]
  /\ info = [n \in Node |->
               [next |-> Circle[n], nnext |-> Circle[Circle[n]],
                prev |-> Circle[Circle[n]]]]
  /\ isActive = [n \in Node |-> TRUE]
  /\ waitingFrom = [n \in Node |-> {}]
  /\ permissionQueue = [n \in Node |-> {}]

FormedSpec ==
  FormedInit /\ [][RingWaitsNext]_ringWaitsVars /\ WaitsFairness

\* Nodes n2 and n3 wait for each other.
WaitsOnEachOther == n1 :> {} @@ n2 :> {n3} @@ n3 :> {n2}

\* Bound: one node is down at a time.  Once it has been missed and cannot come
\* back, what is left is a smaller ring, and is not looked into.
OneNodeDown ==
  /\ Cardinality(Node \ alive) <= 1
  /\ (\A t \in Task : Idle(t)) =>
       \A n \in Node \ alive : n \in Member \/ ~HasStrayConnection(n)
=============================================================================
