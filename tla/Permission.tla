----------------------------- MODULE Permission -----------------------------
(***************************************************************************)
(* Who waits for whom, src/node_base/cmh_funcs.rs: set_active, set_passive,*)
(* handle_waiting_for, handle_permission_from, and the part of             *)
(* handle_cmh_message that delivers their messages.                        *)
(*                                                                         *)
(* The operator makes a node wait for another one.  An active node grants  *)
(* the permission in its reply.  A passive one denies it, remembers the    *)
(* waiting node, and sends it a grant when it becomes active.              *)
(*                                                                         *)
(* A step is a stretch of code in which the node takes its locks once.     *)
(***************************************************************************)
EXTENDS NodeCalls

CONSTANT Waits    \* bound: <<n, o>>, the waits that the operator asks for

ASSUME PermissionAssumption == Waits \subseteq Node \X Node

VARIABLES
  isActive,          \* is_active of each node
  waitingFrom,       \* waiting_messages_from of each node
  permissionQueue    \* permission_queue of each node

permissionVars == << calls, isActive, waitingFrom, permissionQueue >>

-----------------------------------------------------------------------------
(* Frames.  In a wait, peer is the node waited for.  In the handler of a   *)
(* message it is the node that sent the message.                           *)

WaitFrame(n, o) ==
  [fn |-> "wait", pc |-> "passive", at |-> n, to |-> n, peer |-> o,
   todo |-> {}]

SetActiveFrame(n) ==
  [fn |-> "setActive", pc |-> "active", at |-> n, to |-> n, peer |-> n,
   todo |-> {}]

\* A message of node n to node o, received by the next node first.
PermissionMessage(kind, n, o) ==
  [fn |-> kind, pc |-> "hop", at |-> Succ[n], to |-> o, peer |-> n,
   todo |-> {}]

PermissionFrame ==
  [fn : {"wait", "request", "grant", "setActive"},
   pc : {"passive", "send", "reply", "granted", "denied", "resume", "hop",
         "queue", "test", "done", "active", "clear", "list", "loop"},
   at : Node, to : Node, peer : Node, todo : SUBSET Node]

-----------------------------------------------------------------------------
(* Requests of the operator.                                               *)

StartWait(t, n, o) ==
  /\ Idle(t)
  /\ Begin(t, WaitFrame(n, o))
  /\ UNCHANGED << isActive, waitingFrom, permissionQueue >>

StartSetActive(t, n) ==
  /\ Idle(t)
  /\ Begin(t, SetActiveFrame(n))
  /\ UNCHANGED << isActive, waitingFrom, permissionQueue >>

SetPassive(n) ==
  /\ isActive' = [isActive EXCEPT ![n] = FALSE]
  /\ UNCHANGED << calls, waitingFrom, permissionQueue >>

-----------------------------------------------------------------------------
(* handle_waiting_for                                                      *)

BecomePassive(t) ==
  /\ At(t, "wait", "passive")
  /\ isActive' = [isActive EXCEPT ![Top(t).at] = FALSE]
  /\ Goto(t, [Top(t) EXCEPT !.pc = "send"])
  /\ UNCHANGED << waitingFrom, permissionQueue >>

RequestPermission(t) ==
  /\ At(t, "wait", "send")
  /\ LET f == Top(t) IN
       /\ waitingFrom' = [waitingFrom EXCEPT ![f.at] = @ \cup {f.peer}]
       /\ Call(t, [f EXCEPT !.pc = "reply"],
               PermissionMessage("request", f.at, f.peer))
  /\ UNCHANGED << isActive, permissionQueue >>

\* The reply is a grant: the wait is over and the node resumes.
PermissionGranted(t) ==
  /\ At(t, "wait", "granted")
  /\ LET f == Top(t) IN
       waitingFrom' = [waitingFrom EXCEPT ![f.at] = @ \ {f.peer}]
  /\ Goto(t, [Top(t) EXCEPT !.pc = "resume"])
  /\ UNCHANGED << isActive, permissionQueue >>

Resume(t) ==
  /\ At(t, "wait", "resume")
  /\ isActive' = [isActive EXCEPT ![Top(t).at] = TRUE]
  /\ Return(t)
  /\ UNCHANGED << waitingFrom, permissionQueue >>

PermissionDenied(t) ==
  /\ At(t, "wait", "denied")
  /\ Return(t)
  /\ UNCHANGED << isActive, waitingFrom, permissionQueue >>

-----------------------------------------------------------------------------
(* RequestPermission at its addressee.                                     *)

ReplyToRequest(t, answer) == ReturnTo(t, [Caller(t) EXCEPT !.pc = answer])

ReceiveRequest(t) ==
  /\ Received(t, "request")
  /\ IF isActive[Top(t).at]
       THEN ReplyToRequest(t, "granted")
       ELSE Goto(t, [Top(t) EXCEPT !.pc = "queue"])
  /\ UNCHANGED << isActive, waitingFrom, permissionQueue >>

\* Variant for a check: the queue keeps the message, not its sender.
QueueMessage(t) ==
  /\ At(t, "request", "queue")
  /\ LET f == Top(t) IN
       permissionQueue' = [permissionQueue EXCEPT ![f.at] = @ \cup {f}]
  /\ ReplyToRequest(t, "denied")
  /\ UNCHANGED << isActive, waitingFrom >>

\* Variant for a check: the queue keeps the addressee, not the sender.
QueueAddressee(t) ==
  /\ At(t, "request", "queue")
  /\ LET f == Top(t) IN
       permissionQueue' = [permissionQueue EXCEPT ![f.at] = @ \cup {f.to}]
  /\ ReplyToRequest(t, "denied")
  /\ UNCHANGED << isActive, waitingFrom >>

QueueRequest(t) ==
  /\ At(t, "request", "queue")
  /\ LET f == Top(t) IN
       permissionQueue' = [permissionQueue EXCEPT ![f.at] = @ \cup {f.peer}]
  /\ ReplyToRequest(t, "denied")
  /\ UNCHANGED << isActive, waitingFrom >>

-----------------------------------------------------------------------------
(* set_active                                                              *)

BecomeActive(t) ==
  /\ At(t, "setActive", "active")
  /\ isActive' = [isActive EXCEPT ![Top(t).at] = TRUE]
  /\ Goto(t, [Top(t) EXCEPT !.pc = "clear"])
  /\ UNCHANGED << waitingFrom, permissionQueue >>

ClearWaits(t) ==
  /\ At(t, "setActive", "clear")
  /\ waitingFrom' = [waitingFrom EXCEPT ![Top(t).at] = {}]
  /\ Goto(t, [Top(t) EXCEPT !.pc = "list"])
  /\ UNCHANGED << isActive, permissionQueue >>

ListWaiters(t) ==
  /\ At(t, "setActive", "list")
  /\ LET f == Top(t) IN
       Goto(t, [f EXCEPT !.pc = "loop", !.todo = permissionQueue[f.at]])
  /\ UNCHANGED << isActive, waitingFrom, permissionQueue >>

\* Variant for a check: a waiter stays in the list of those to be granted.
SendGrantRepeated(t, n) ==
  /\ At(t, "setActive", "loop")
  /\ n \in Top(t).todo
  /\ LET f == Top(t) IN
       /\ permissionQueue' = [permissionQueue EXCEPT ![f.at] = @ \ {n}]
       /\ Call(t, f, PermissionMessage("grant", f.at, n))
  /\ UNCHANGED << isActive, waitingFrom >>

\* The waiting nodes get their grants in the order of a HashSet.
SendGrant(t, n) ==
  /\ At(t, "setActive", "loop")
  /\ n \in Top(t).todo
  /\ LET f == Top(t) IN
       /\ permissionQueue' = [permissionQueue EXCEPT ![f.at] = @ \ {n}]
       /\ Call(t, [f EXCEPT !.todo = @ \ {n}],
               PermissionMessage("grant", f.at, n))
  /\ UNCHANGED << isActive, waitingFrom >>

\* The queue is cleared once more after the last reply.
EndSetActive(t) ==
  /\ At(t, "setActive", "loop")
  /\ Top(t).todo = {}
  /\ permissionQueue' = [permissionQueue EXCEPT ![Top(t).at] = {}]
  /\ Return(t)
  /\ UNCHANGED << isActive, waitingFrom >>

-----------------------------------------------------------------------------
(* handle_permission_from                                                  *)

\* Variant for a check: the node removes itself, not the sender.
ReceiveGrantFromItself(t) ==
  /\ Received(t, "grant")
  /\ LET f == Top(t) IN
       waitingFrom' = [waitingFrom EXCEPT ![f.at] = @ \ {f.at}]
  /\ Goto(t, [Top(t) EXCEPT !.pc = "test"])
  /\ UNCHANGED << isActive, permissionQueue >>

ReceiveGrant(t) ==
  /\ Received(t, "grant")
  /\ LET f == Top(t) IN
       waitingFrom' = [waitingFrom EXCEPT ![f.at] = @ \ {f.peer}]
  /\ Goto(t, [Top(t) EXCEPT !.pc = "test"])
  /\ UNCHANGED << isActive, permissionQueue >>

\* A node becomes active with the last grant that it waits for.
TestLastGrant(t) ==
  /\ At(t, "grant", "test")
  /\ LET f == Top(t) IN
       IF waitingFrom[f.at] = {}
         THEN Call(t, [f EXCEPT !.pc = "done"], SetActiveFrame(f.at))
         ELSE Return(t)
  /\ UNCHANGED << isActive, waitingFrom, permissionQueue >>

EndGrant(t) ==
  /\ At(t, "grant", "done")
  /\ Return(t)
  /\ UNCHANGED << isActive, waitingFrom, permissionQueue >>

-----------------------------------------------------------------------------
(* The specification.                                                      *)

ForwardPermission(t) ==
  /\ Forward(t)
  /\ UNCHANGED << isActive, waitingFrom, permissionQueue >>

\* One step of a request in progress.
PermissionStep(t) ==
  \/ BecomePassive(t) \/ RequestPermission(t) \/ PermissionGranted(t)
  \/ Resume(t) \/ PermissionDenied(t)
  \/ ReceiveRequest(t) \/ QueueRequest(t)
  \/ BecomeActive(t) \/ ClearWaits(t) \/ ListWaiters(t)
  \/ \E n \in Node : SendGrant(t, n)
  \/ EndSetActive(t)
  \/ ReceiveGrant(t) \/ TestLastGrant(t) \/ EndGrant(t)
  \/ ForwardPermission(t)

\* A node starts active and waits for nobody.
PermissionInit ==
  /\ calls = [t \in Task |-> << >>]
  /\ isActive = [n \in Node |-> TRUE]
  /\ waitingFrom = [n \in Node |-> {}]
  /\ permissionQueue = [n \in Node |-> {}]

PermissionNext ==
  \/ \E t \in Task :
       \/ \E w \in Waits : StartWait(t, w[1], w[2])
       \/ \E n \in Node : StartSetActive(t, n)
       \/ PermissionStep(t)
  \/ \E n \in Node : SetPassive(n)

PermissionSpec == PermissionInit /\ [][PermissionNext]_permissionVars

\* tokio polls a task that can run: an accepted request takes its next step.
FairPermissionSpec ==
  PermissionSpec /\ \A t \in Task : WF_permissionVars(PermissionStep(t))
-----------------------------------------------------------------------------
(* What the exchange of permissions promises.                              *)

\* Type invariant.
PermissionTypeOK ==
  /\ calls \in [Task -> Seq(PermissionFrame)]
  /\ isActive \in [Node -> BOOLEAN]
  /\ waitingFrom \in [Node -> SUBSET Node]
  /\ permissionQueue \in [Node -> SUBSET Node]

\* A node that waits for another one is in the permission_queue of that node,
\* as long as requests come one after the other: whatever grants, refusals
\* and nested set_active calls came before, the grant will find the waiter.
\* Requests that overlap lose waiters.
WaiterRegistered ==
  (\A t \in Task : Idle(t)) =>
    \A n \in Node : \A o \in waitingFrom[n] : n \in permissionQueue[o]

\* set_active wakes everybody who waits for the node (the comment at
\* cmh_funcs.rs:80): when its last grant has been acknowledged no node waits
\* for it, although the grants set off other set_active calls, on the same
\* node too, that take their own copies of the queue.
SetActiveWakesAll ==
  \A t \in Task :
    At(t, "setActive", "loop") /\ Top(t).todo = {} =>
      \A n \in Node : Top(t).at \notin waitingFrom[n]

\* A node that becomes active sends its grants (the comment at
\* cmh_funcs.rs:80): between requests no node waits for an active one.
NoForgottenWaiter ==
  (\A t \in Task : Idle(t)) =>
    \A n \in Node : \A o \in waitingFrom[n] : ~isActive[o]

\* Every request returns: the cascade of grants ends, on cyclic waits too.
CallsReturn == \A t \in Task : ~Idle(t) ~> Idle(t)
=============================================================================
