------------------------------ MODULE NodeCalls ------------------------------
(***************************************************************************)
(* How a message reaches its addressee.  A node can only call its next     *)
(* node: send_cmh_msg and send_resource_msg hand the message to it, and a  *)
(* node that the message is not addressed to sends it on to its own next   *)
(* node.  The frame of a message has pc = "hop" while it goes round,       *)
(*   at  the node that has just received it,                               *)
(*   to  the node it is addressed to.                                      *)
(***************************************************************************)
EXTENDS Calls

CONSTANT
  Succ      \* neighbor_info.next of each node: the ring does not change here

\* The ring is closed: a set of nodes that contains the next node of each of
\* its members contains every node.
ASSUME RingAssumption ==
  /\ Succ \in [Node -> Node]
  /\ \A S \in SUBSET Node :
       S # {} /\ (\A n \in S : Succ[n] \in S) => S = Node

\* Request t has reached the addressee of the message fn.
Received(t, fn) == At(t, fn, "hop") /\ Top(t).at = Top(t).to

\* Variant for a check: the node sends it to itself.
ForwardToItself(t) ==
  /\ ~Idle(t)
  /\ Top(t).pc = "hop"
  /\ Top(t).at # Top(t).to
  /\ Goto(t, Top(t))

\* A node that a message is not addressed to sends it to its next node.
Forward(t) ==
  /\ ~Idle(t)
  /\ Top(t).pc = "hop"
  /\ Top(t).at # Top(t).to
  /\ Goto(t, [Top(t) EXCEPT !.at = Succ[@]])
=============================================================================
