------------------------------ MODULE RingWaits ------------------------------
(***************************************************************************)
(* Waits and permissions on a ring that changes: what leave, revive and    *)
(* delete_dependencies in src/node_base/node.rs do to them, and what a     *)
(* lost RequestPermission or GrantPermission leaves behind.                *)
(*                                                                         *)
(* Module Permission has every interleaving of the handlers on a ring that *)
(* does not change.  Here a step is what a node does between two messages. *)
(***************************************************************************)
EXTENDS Ring

CONSTANTS
  Waits    \* bound: Waits[n] are the nodes that n is asked to wait for

ASSUME WaitsBound == Waits \in [Node -> SUBSET Node]

VARIABLES
  isActive,          \* is_active of each node
  waitingFrom,       \* waiting_messages_from of each node
  permissionQueue    \* permission_queue of each node

waitVars == << isActive, waitingFrom, permissionQueue >>
ringWaitsVars == << ringVars, waitVars >>

-----------------------------------------------------------------------------
(* Frames: a wait or a set_active of node n, and the messages they send.   *)

WaitsFrame(fn, pc, n, o, todo) ==
  [fn |-> fn, pc |-> pc, at |-> n, from |-> n, to |-> o, next |-> n,
   path |-> << n >>, todo |-> todo]

Message(kind, n, o) == WaitsFrame(kind, "send", n, o, {})

WaitFrame ==
  [fn : {"wait", "request", "grant", "setActive"},
   pc : {"reply", "granted", "denied", "lost", "loop", "done", "send",
         "deliver", "receive", "failed", "repaired"},
   at : Node, from : Node, to : Node, next : Node, path : Seq(Node),
   todo : SUBSET Node]

Reply(t, answer) == ReturnTo(t, [Caller(t) EXCEPT !.pc = answer])

SendOn(t) == Goto(t, [Top(t) EXCEPT !.pc = "send"])

MayAsk(t, n) == Idle(t) /\ n \in alive

-----------------------------------------------------------------------------
(* handle_waiting_for and RequestPermission                                *)

SetPassive(n) ==
  /\ n \in alive
  /\ isActive' = [isActive EXCEPT ![n] = FALSE]
  /\ UNCHANGED << ringVars, waitingFrom, permissionQueue >>

StartWait(t, n, o) ==
  /\ MayAsk(t, n)
  /\ isActive' = [isActive EXCEPT ![n] = FALSE]
  /\ waitingFrom' = [waitingFrom EXCEPT ![n] = @ \cup {o}]
  /\ calls' = [calls EXCEPT ![t] =
                 << WaitsFrame("wait", "reply", n, o, {}), Message("request", n, o) >>]
  /\ UNCHANGED << info, alive, clients, permissionQueue >>

\* Variant for a check: the queue keeps the message, not its sender.
ReceiveRequestQueueMessage(t) ==
  /\ At(t, "request", "receive")
  /\ LET f == Top(t) IN
       IF f.at # f.to THEN SendOn(t) /\ UNCHANGED permissionQueue
       ELSE IF isActive[f.at] THEN Reply(t, "granted") /\ UNCHANGED permissionQueue
       ELSE /\ permissionQueue' = [permissionQueue EXCEPT ![f.at] = @ \cup {f}]
            /\ Reply(t, "denied")
  /\ UNCHANGED << info, alive, clients, isActive, waitingFrom >>

ReceiveRequest(t) ==
  /\ At(t, "request", "receive")
  /\ LET f == Top(t) IN
       IF f.at # f.to THEN SendOn(t) /\ UNCHANGED permissionQueue
       ELSE IF isActive[f.at] THEN Reply(t, "granted") /\ UNCHANGED permissionQueue
       ELSE /\ permissionQueue' =
                 [permissionQueue EXCEPT ![f.at] = @ \cup {f.from}]
            /\ Reply(t, "denied")
  /\ UNCHANGED << info, alive, clients, isActive, waitingFrom >>

\* A grant ends the wait.  One that is denied, or lost, goes on.
EndWait(t) ==
  /\ ~Idle(t)
  /\ Top(t).fn = "wait"
  /\ LET f == Top(t) IN
       IF f.pc = "granted"
         THEN /\ waitingFrom' = [waitingFrom EXCEPT ![f.at] = @ \ {f.to}]
              /\ isActive' = [isActive EXCEPT ![f.at] = TRUE]
         ELSE UNCHANGED << isActive, waitingFrom >>
  /\ Return(t)
  /\ UNCHANGED << info, alive, clients, permissionQueue >>

-----------------------------------------------------------------------------
(* set_active and GrantPermission                                          *)

\* What set_active does before its loop.
BecomeActive(n) ==
  /\ isActive' = [isActive EXCEPT ![n] = TRUE]
  /\ waitingFrom' = [waitingFrom EXCEPT ![n] = {}]

StartSetActive(t, n) ==
  /\ MayAsk(t, n)
  /\ BecomeActive(n)
  /\ Begin(t, WaitsFrame("setActive", "loop", n, n, permissionQueue[n]))
  /\ UNCHANGED << info, alive, clients, permissionQueue >>

\* Variant for a check: a waiter stays in the list of those to be granted.
SendGrantRepeated(t, n) ==
  /\ At(t, "setActive", "loop")
  /\ n \in Top(t).todo
  /\ LET f == Top(t) IN
       /\ permissionQueue' = [permissionQueue EXCEPT ![f.at] = @ \ {n}]
       /\ Call(t, f, Message("grant", f.at, n))
  /\ UNCHANGED << info, alive, clients, isActive, waitingFrom >>

SendGrant(t, n) ==
  /\ At(t, "setActive", "loop")
  /\ n \in Top(t).todo
  /\ LET f == Top(t) IN
       /\ permissionQueue' = [permissionQueue EXCEPT ![f.at] = @ \ {n}]
       /\ Call(t, [f EXCEPT !.todo = @ \ {n}], Message("grant", f.at, n))
  /\ UNCHANGED << info, alive, clients, isActive, waitingFrom >>

EndSetActive(t) ==
  /\ At(t, "setActive", "loop")
  /\ Top(t).todo = {}
  /\ permissionQueue' = [permissionQueue EXCEPT ![Top(t).at] = {}]
  /\ Return(t)
  /\ UNCHANGED << info, alive, clients, isActive, waitingFrom >>

\* The last grant makes the node active.
ReceiveGrant(t) ==
  /\ At(t, "grant", "receive")
  /\ LET f == Top(t)
         waits == waitingFrom[f.at] \ {f.from}
     IN  IF f.at # f.to THEN SendOn(t) /\ UNCHANGED << isActive, waitingFrom >>
         ELSE IF waits = {}
           THEN /\ BecomeActive(f.at)
                /\ Call(t, [f EXCEPT !.pc = "done"],
                        WaitsFrame("setActive", "loop", f.at, f.at,
                                   permissionQueue[f.at]))
           ELSE /\ waitingFrom' = [waitingFrom EXCEPT ![f.at] = waits]
                /\ Return(t)
                /\ UNCHANGED isActive
  /\ UNCHANGED << info, alive, clients, permissionQueue >>

EndGrant(t) ==
  /\ At(t, "grant", "done")
  /\ Return(t)
  /\ UNCHANGED << info, alive, clients, waitVars >>

-----------------------------------------------------------------------------
(* Messages that are lost or given up.                                     *)

EndLostMessage(t) ==
  /\ ~Idle(t)
  /\ Top(t).pc = "repaired"
  /\ Top(t).fn \in {"request", "grant"}
  /\ IF Top(t).fn = "request" THEN Reply(t, "lost") ELSE Return(t)
  /\ UNCHANGED << info, alive, clients, waitVars >>

\* The deadline of the first message of the request.
MessageUnanswered(t) ==
  /\ ~Idle(t)
  /\ Top(t).fn \in {"request", "grant"}
  /\ Overdue(t, {Top(t).to})
  /\ GiveUp(t, 2)
  /\ UNCHANGED waitVars

-----------------------------------------------------------------------------
(* What leave, revive and delete_dependencies do to the waits.             *)

ForgetWaits(n) ==
  /\ isActive' = [isActive EXCEPT ![n] = TRUE]
  /\ waitingFrom' = [waitingFrom EXCEPT ![n] = {}]
  /\ permissionQueue' = [permissionQueue EXCEPT ![n] = {}]

Leave(t, n) == StartLeave(t, n) /\ ForgetWaits(n)

ReviveNode(t, n) == Revive(t, n) /\ ForgetWaits(n)

\* Variant for a check: only the node before the missing one deletes it.
DeleteDependenciesOfPrev(n, missing) ==
  LET waits == IF info[n].next = missing THEN waitingFrom[n] \ {missing}
                                         ELSE waitingFrom[n]
  IN  /\ waitingFrom' = [waitingFrom EXCEPT ![n] = waits]
      /\ isActive' = [isActive EXCEPT ![n] = @ \/ waits = {}]
      /\ permissionQueue' = [permissionQueue EXCEPT ![n] = @ \ {missing}]

DeleteDependencies(n, missing) ==
  LET waits == waitingFrom[n] \ {missing} IN
    /\ waitingFrom' = [waitingFrom EXCEPT ![n] = waits]
    /\ isActive' = [isActive EXCEPT ![n] = @ \/ waits = {}]
    /\ permissionQueue' = [permissionQueue EXCEPT ![n] = @ \ {missing}]

\* missing_node deletes the dependencies unless it has come round.
Missing(t) ==
  /\ EnterMissing(t)
  /\ LET f == Top(t) IN
       IF f.at = f.from /\ info[f.at].next # f.arg
         THEN UNCHANGED waitVars
         ELSE DeleteDependencies(f.at, f.arg)

-----------------------------------------------------------------------------
(* The specification.                                                      *)

RingPart(t) ==
  /\ \/ TellNeighbor(t)
     \/ CallJoining(t) \/ EnterJoining(t) \/ RepairBeforeJoin(t)
     \/ CopyNeighbors(t) \/ InsertNext(t) \/ InstallNeighbors(t)
     \/ CallLeaving(t) \/ CopyLeaving(t) \/ EndLeaving(t) \/ BecomeAlone(t)
     \/ ForgetMissing(t) \/ Unlink(t)
     \/ Relink(t) \/ Linked(t) \/ PassMissing(t) \/ RepairUnanswered(t)
     \/ CopyNext(t) \/ SendMessage(t) \/ RepairAfterFailure(t)
  /\ UNCHANGED waitVars

RingWaitsStep(t) ==
  \/ ReceiveRequest(t) \/ EndWait(t)
  \/ \E n \in Node : SendGrant(t, n)
  \/ EndSetActive(t) \/ ReceiveGrant(t) \/ EndGrant(t)
  \/ EndLostMessage(t) \/ MessageUnanswered(t)
  \/ Missing(t) \/ RingPart(t)

\* The requests of the operator: a node is asked to wait only for nodes of its
\* ring, and only nodes that are down are revived.
RingWaitsNext ==
  \/ \E t \in Task :
       \/ \E n \in Node : \E o \in Waits[n] \cap RingOf(n) : StartWait(t, n, o)
       \/ \E n \in Node : StartSetActive(t, n) \/ Leave(t, n)
       \/ \E n \in Node \ alive : ReviveNode(t, n)
       \/ RingWaitsStep(t)
  \/ \E n \in Node : SetPassive(n)
  \/ (\E n \in Node : Kill(n)) /\ UNCHANGED waitVars

\* tokio polls a task that can run, and a deadline passes.
WaitsFairness ==
  \A t \in Task :
    /\ WF_ringWaitsVars(RingWaitsStep(t))
    /\ SF_ringWaitsVars(MessageUnanswered(t))
    /\ SF_ringWaitsVars(RepairUnanswered(t) /\ UNCHANGED waitVars)

-----------------------------------------------------------------------------
(* What is left of the promises of permissions.                            *)

\* Type invariant.
RingWaitsTypeOK ==
  /\ calls \in [Task -> Seq(RingFrame \cup WaitFrame)]
  /\ isActive \in [Node -> BOOLEAN]
  /\ waitingFrom \in [Node -> SUBSET Node]
  /\ permissionQueue \in [Node -> SUBSET Node]

\* A repair tells the other nodes about the missing one, "so that they can
\* remove from dependency" (server.rs:202): once missing_node has come round, no
\* node of the ring waits for a node that is down or keeps it in its queue.  A
\* revived node, which has lost its queue (node.rs:288), relies on it.
MissingIsForgotten ==
  \A t \in Task :
    /\ At(t, "missing", "enter")
    /\ Top(t).at = Top(t).from
    /\ info[Top(t).at].next # Top(t).arg
    /\ Top(t).arg \notin alive
    => \A m \in RingOf(Top(t).at) :
         Top(t).arg \notin waitingFrom[m] \cup permissionQueue[m]

\* Every wait and every cascade of grants ends, on a ring that loses messages,
\* takes nodes out and repairs itself in the middle of the cascade.
RingWaitsReturn == \A t \in Task : ~Idle(t) ~> Idle(t)
=============================================================================
