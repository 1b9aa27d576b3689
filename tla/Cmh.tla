--------------------------------- MODULE Cmh ---------------------------------
(***************************************************************************)
(* src/node_base/cmh_funcs.rs as a whole: Detection and Permission on the  *)
(* same nodes.  The waits that a test follows change while it runs and     *)
(* between two tests, and a node keeps what an earlier test left in        *)
(* last_test, wait_status, parent_nodes and probe_count.                   *)
(***************************************************************************)
EXTENDS Detection

CONSTANTS
  Waits,        \* bound: <<n, o>>, the waits that the operator asks for
  MaxChanges    \* bound: requests that change waits or states

ASSUME CmhAssumption == Waits \subseteq Node \X Node /\ MaxChanges \in Nat

VARIABLES
  permissionQueue,  \* permission_queue of each node
  changes,          \* requests made so far that change waits or states
  knotted           \* nodes in a lasting knot ever since their test began

cmhVars == << detectionVars, permissionQueue, changes, knotted >>

P == INSTANCE Permission

-----------------------------------------------------------------------------
(* Requests and their steps.                                               *)

\* Node k is in a knot no node of which loses a wait with this step.
KnotLasts(k) ==
  \E S \in SUBSET Node :
    /\ k \in S
    /\ \A n \in S :
         /\ ~isActive'[n] /\ waitingFrom'[n] # {} /\ waitingFrom'[n] \subseteq S
         /\ TestRuns(k) => waitingFrom[n] \subseteq waitingFrom'[n]

\* What the properties need to know of the past.
Observe ==
  knotted' = {k \in Node : KnotLasts(k) /\ (TestRuns(k) => k \in knotted)}

\* A request of the operator that changes waits or states.
StartChange(t) ==
  /\ changes < MaxChanges
  /\ changes' = changes + 1
  /\ \/ \E w \in Waits : P!StartWait(t, w[1], w[2])
     \/ \E n \in Node : P!StartSetActive(t, n)
     \/ \E n \in Node : Idle(t) /\ P!SetPassive(n)
  /\ UNCHANGED << probeVars, declared >>

StartTest(t) ==
  /\ \E n \in Initiator : StartDetection(t, n)
  /\ UNCHANGED << permissionQueue, changes >>

\* One step of a request in progress.
CmhStep(t) ==
  /\ \/ RequestStep(t) /\ UNCHANGED permissionQueue
     \/ P!PermissionStep(t) /\ UNCHANGED << probeVars, declared >>
  /\ UNCHANGED changes

CmhInit ==
  /\ DetectionInit
  /\ P!PermissionInit
  /\ changes = 0
  /\ knotted = {}

CmhNext ==
  /\ \E t \in Task : StartChange(t) \/ StartTest(t) \/ CmhStep(t)
  /\ Observe

CmhSpec == CmhInit /\ [][CmhNext]_cmhVars

\* tokio polls a task that can run: an accepted request takes its next step.
CmhFairness == \A t \in Task : WF_cmhVars(CmhStep(t) /\ Observe)

-----------------------------------------------------------------------------
(* What detection promises while waits change.                             *)

\* The executing frame of t logs DEADLOCK DETECTED with its next step.
Verdict(t) == LastAnswer(t) /\ Top(t).k = Top(t).at

\* No false alarm by leftovers, as long as requests come one after the other:
\* a node that logs DEADLOCK DETECTED waits, at that moment, on or towards a
\* cycle, whatever counts, parents and wait_status the nodes have kept from
\* tests of other waits (handle_probe resets them only at nodes that the new
\* test reaches while they are passive).
VerdictIsDeadlock == \A t \in Task : Verdict(t) => CycleDeadlocked(Top(t).at)

\* No missed knot: a test of a node that was in a knot all the time logs the
\* deadlock by its end, although other nodes resume and new waits are added
\* while it runs (start_detection and handle_probe go through copies of
\* waiting_messages_from).  The nodes of the knot must have lost no wait in that
\* time, as they do when a grant arrives that a node sent before it joined the
\* knot.
LastingKnotIsDeclared ==
  \A t \in Task :
    At(t, "start", "loop") /\ Top(t).todo = {} /\ Top(t).at \in knotted
      => << Top(t).at, Top(t).m >> \in declared

\* Every request returns: a cascade of grants that meets a test on the same
\* nodes keeps neither of them from ending.
CmhRequestsReturn == \A t \in Task : ~Idle(t) ~> Idle(t)
=============================================================================
