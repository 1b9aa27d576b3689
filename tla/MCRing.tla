------------------------------- MODULE MCRing -------------------------------
(* Instances of Ring for TLC. *)
EXTENDS Ring, TLC

CONSTANTS n1, n2, n3, n4, t1, t2

\* n2 has joined n1, n3 has joined n2 and n4, if it is a node, has joined n3.
Circle ==
  IF n4 \in Node
    THEN n1 :> n2 @@ n2 :> n3 @@ n3 :> n4 @@ n4 :> n1
    ELSE n1 :> n2 @@ n2 :> n3 @@ n3 :> n1

FormedClients ==
  {<< n1, n1 >>, << n2, n1 >>, << n3, n2 >>}
    \cup IF n4 \in Node THEN {<< n3, n1 >>, << n4, n3 >>} ELSE {}

FormedInit ==
  /\ calls = [t \in Task |-> << >>]
  /\ alive = Node
  /\ clients = [n \in Node |-> [o \in Node |->
                  IF << n, o >> \in FormedClients THEN "open" ELSE "none"]]
  /\ info = [n \in Node |->
               [next |-> Circle[n], nnext |-> Circle[Circle[n]],
                prev |-> CHOOSE m \in Node : Circle[m] = n]]

\* From then on a node stops, and queries find it.
CrashNext ==
  \/ \E t \in Task : (\E n \in Node : StartQuery(t, n)) \/ RingStep(t)
  \/ alive = Node /\ \E n \in Node : Kill(n)
CrashSpec == FormedInit /\ [][CrashNext]_ringVars /\ Fairness

NodeSymmetry == Permutations(Node)

\* Bound: one node is down at a time.  Once it has been missed and cannot come
\* back, what is left is a smaller ring, and is not looked into.
OneNodeDown ==
  /\ Cardinality(Node \ alive) <= 1
  /\ (\A t \in Task : Idle(t)) =>
       \A n \in Node \ alive : n \in Member \/ ~HasStrayConnection(n)
=============================================================================
