---------------------------- MODULE ResourceLock ----------------------------
(***************************************************************************)
(* What the nodes promise about resources: a resource has one user at a    *)
(* time, and a node becomes its user once for each request it made.        *)
(* Module Resources implements this specification.                         *)
(***************************************************************************)
EXTENDS Naturals

CONSTANTS
  Node,       \* nodes
  Resource,   \* resources
  Task,       \* slots for requests that run at the same time
  NoNode      \* the resource has no user

VARIABLES
  user,      \* user[r]: the node that uses r, or NoNode
  asking,    \* asking[t]: <<n, r>> while request t, of n for r, has no answer
  backlog    \* backlog[r][n]: requests of n for r that were put off

lockVars == << user, asking, backlog >>

NoRequest == << >>

Ask(t, n, r) ==
  /\ asking[t] = NoRequest
  /\ asking' = [asking EXCEPT ![t] = << n, r >>]
  /\ UNCHANGED << user, backlog >>

\* A resource that nobody uses goes to a node that asks for it.
Serve(t, n, r) ==
  /\ asking[t] = << n, r >>
  /\ user[r] = NoNode
  /\ asking' = [asking EXCEPT ![t] = NoRequest]
  /\ user' = [user EXCEPT ![r] = n]
  /\ UNCHANGED backlog

PutOff(t, n, r) ==
  /\ asking[t] = << n, r >>
  /\ asking' = [asking EXCEPT ![t] = NoRequest]
  /\ backlog' = [backlog EXCEPT ![r][n] = @ + 1]
  /\ UNCHANGED user

ServeBacklog(n, r) ==
  /\ backlog[r][n] > 0
  /\ user[r] = NoNode
  /\ backlog' = [backlog EXCEPT ![r][n] = @ - 1]
  /\ user' = [user EXCEPT ![r] = n]
  /\ UNCHANGED asking

GiveBack(r) ==
  /\ user[r] # NoNode
  /\ user' = [user EXCEPT ![r] = NoNode]
  /\ UNCHANGED << asking, backlog >>

LockInit ==
  /\ user = [r \in Resource |-> NoNode]
  /\ asking = [t \in Task |-> NoRequest]
  /\ backlog = [r \in Resource |-> [n \in Node |-> 0]]

LockNext ==
  \E r \in Resource :
    \/ GiveBack(r)
    \/ \E n \in Node :
         \/ ServeBacklog(n, r)
         \/ \E t \in Task : Ask(t, n, r) \/ Serve(t, n, r) \/ PutOff(t, n, r)

LockSpec == LockInit /\ [][LockNext]_lockVars
=============================================================================
