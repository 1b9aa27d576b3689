------------------------------ MODULE RingOrder ------------------------------
(***************************************************************************)
(* What join, leave, repair_topology and revive promise to the messages    *)
(* that go round: at each moment the nodes form rings, and a ring changes  *)
(* by one node at a time, although a change sets up to six fields of four  *)
(* nodes in as many calls.  Only a node that joins comes in, and only a    *)
(* node that leaves, is down or comes back is taken out.                   *)
(***************************************************************************)
CONSTANT Node

VARIABLES
  succ,     \* the node that the messages of each node go to
  gone      \* nodes that are down, or are about to join or to leave

orderVars == << succ, gone >>

\* Every node is the next of exactly one.
Circles ==
  {f \in [Node -> Node] : \A m \in Node : \E n \in Node :
     f[n] = m /\ \A o \in Node : f[o] = m => o = n}

OrderInit ==
  /\ succ \in Circles
  /\ gone = {}

\* n stops, or asks to join or to leave.
Go(n) ==
  /\ gone' = gone \cup {n}
  /\ UNCHANGED succ

\* n has left, or comes back to a ring that has not missed it.
Stay(n) ==
  /\ gone' = gone \ {n}
  /\ UNCHANGED succ

\* n, which is on its own, comes after m.
Insert(n, m) ==
  /\ n \in gone
  /\ m \notin gone
  /\ succ[n] = n
  /\ succ' = [succ EXCEPT ![m] = n, ![n] = succ[m]]
  /\ gone' = gone \ {n}

\* n, which comes after m, is taken out.
Remove(n, m) ==
  /\ n \in gone
  /\ m # n
  /\ succ[m] = n
  /\ succ' = [succ EXCEPT ![m] = succ[n], ![n] = n]
  /\ UNCHANGED gone

OrderNext ==
  \/ \E n \in Node : Go(n) \/ Stay(n)
  \/ \E n, m \in Node : Insert(n, m) \/ Remove(n, m)

OrderSpec == OrderInit /\ [][OrderNext]_orderVars

\* No two nodes send to the same node, and every node is sent to: no node is
\* cut off from the messages, and each comes back to the node it is from.
OrderIsCircles == succ \in Circles
=============================================================================
