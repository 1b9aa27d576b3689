---------------------------- MODULE RingResources ----------------------------
(***************************************************************************)
(* Resources on a ring that fails: the requests of module Resources, whose *)
(* messages go round the ring of module Ring, get lost when a node stops,  *)
(* and are given up when their deadline passes.                            *)
(*                                                                         *)
(* waiting_for and blocked_processes are left out: only print_status reads *)
(* the one, nothing the other.                                             *)
(***************************************************************************)
EXTENDS Ring, SequencesExt

CONSTANTS
  Resource,     \* names of resources
  NoNode,       \* current_user is None
  Owner,        \* the node to which main assigned each resource
  MaxQueue      \* bound: requests for a resource that are queued

ASSUME RingResourcesAssumption ==
  /\ NoNode \notin Node
  /\ Owner \in [Resource -> Node]
  /\ MaxQueue \in Nat

VARIABLES
  currentUser,    \* current_user of each resource, at its owner
  requestQueue,   \* request_queue of each resource, at its owner
  used            \* used[n]: keys of used_resources of node n

resourceVars == << currentUser, requestQueue, used >>
ringResourcesVars == << ringVars, resourceVars >>

-----------------------------------------------------------------------------
(* Frames: the operator's request, and the messages that it sends.         *)

RequestFrame(fn, pc, n, r) ==
  [fn |-> fn, pc |-> pc, at |-> n, from |-> n, to |-> n, r |-> r,
   next |-> n, path |-> << n >>]

\* A message about r that node n is about to send, in a grant to node o.
Message(kind, n, o, r) ==
  [RequestFrame(kind, "send", n, r) EXCEPT !.to = o]

ResourceFrame ==
  [fn : {"acquireResource", "releaseResource", "ownerQuery", "acquire",
         "release", "granted"},
   pc : {"find", "request", "await", "check", "remove", "granted", "queued",
         "unknown", "owner", "done", "send", "deliver", "receive", "failed",
         "repaired"},
   at : Node, from : Node, to : Node, r : Resource, next : Node,
   path : Seq(Node)]

\* A reply ends the message and is what the request goes on with.
Reply(t, answer) == ReturnTo(t, [Caller(t) EXCEPT !.pc = answer])

SendOn(t) == Goto(t, [Top(t) EXCEPT !.pc = "send"])

StartRequest(t, n, fn, pc, r) ==
  /\ Idle(t)
  /\ n \in alive
  /\ Begin(t, RequestFrame(fn, pc, n, r))
  /\ UNCHANGED << info, alive, clients, resourceVars >>

-----------------------------------------------------------------------------
(* acquire_resource, find_resource_owner and process_resource_request      *)

StartAcquire(t, n, r) ==
  /\ Len(requestQueue[r]) < MaxQueue
  /\ StartRequest(t, n, "acquireResource", "find", r)

FindOwner(t) ==
  /\ At(t, "acquireResource", "find")
  /\ LET f == Top(t) IN
       IF Owner[f.r] = f.at
         THEN Goto(t, [f EXCEPT !.pc = "request"])
         ELSE Call(t, [f EXCEPT !.pc = "await"],
                   Message("ownerQuery", f.at, f.at, f.r))
  /\ UNCHANGED << info, alive, clients, resourceVars >>

\* Variant for a check: the last node of the ring sends the query on.
ReceiveOwnerQueryEndlessly(t) ==
  /\ At(t, "ownerQuery", "receive")
  /\ LET f == Top(t) IN
       IF Owner[f.r] = f.at THEN Reply(t, "request") ELSE SendOn(t)
  /\ UNCHANGED << info, alive, clients, resourceVars >>

ReceiveOwnerQuery(t) ==
  /\ At(t, "ownerQuery", "receive")
  /\ LET f == Top(t) IN
       IF Owner[f.r] = f.at THEN Reply(t, "request")
       ELSE IF info[f.at].next = f.from THEN Reply(t, "unknown")
       ELSE SendOn(t)
  /\ UNCHANGED << info, alive, clients, resourceVars >>

RequestResource(t) ==
  /\ At(t, "acquireResource", "request")
  /\ LET f == Top(t) IN
       Call(t, [f EXCEPT !.pc = "await"], Message("acquire", f.at, f.at, f.r))
  /\ UNCHANGED << info, alive, clients, resourceVars >>

\* Variant for a check: the queue keeps the message, not its sender.
ReceiveAcquireQueueMessage(t) ==
  /\ At(t, "acquire", "receive")
  /\ LET f == Top(t) IN
       IF Owner[f.r] # f.at THEN SendOn(t) /\ UNCHANGED resourceVars
       ELSE IF currentUser[f.r] = NoNode
         THEN /\ Goto(t, [f EXCEPT !.pc = "granted"])
              /\ currentUser' = [currentUser EXCEPT ![f.r] = f.from]
              /\ UNCHANGED << requestQueue, used >>
         ELSE /\ Goto(t, [f EXCEPT !.pc = "queued"])
              /\ requestQueue' = [requestQueue EXCEPT ![f.r] = Append(@, f)]
              /\ UNCHANGED << currentUser, used >>
  /\ UNCHANGED << info, alive, clients >>

ReceiveAcquire(t) ==
  /\ At(t, "acquire", "receive")
  /\ LET f == Top(t) IN
       IF Owner[f.r] # f.at THEN SendOn(t) /\ UNCHANGED resourceVars
       ELSE IF currentUser[f.r] = NoNode
         THEN /\ Goto(t, [f EXCEPT !.pc = "granted"])
              /\ currentUser' = [currentUser EXCEPT ![f.r] = f.from]
              /\ UNCHANGED << requestQueue, used >>
         ELSE /\ Goto(t, [f EXCEPT !.pc = "queued"])
              /\ requestQueue' =
                   [requestQueue EXCEPT ![f.r] = Append(@, f.from)]
              /\ UNCHANGED << currentUser, used >>
  /\ UNCHANGED << info, alive, clients >>

\* The reply of the owner comes back along the path of the message.
ReturnAnswer(t) ==
  /\ At(t, "acquire", "granted") \/ At(t, "acquire", "queued")
  /\ Reply(t, Top(t).pc)
  /\ UNCHANGED << info, alive, clients, resourceVars >>

\* use_resource
UseResource(t) ==
  /\ At(t, "acquireResource", "granted")
  /\ used' = [used EXCEPT ![Top(t).at] = @ \cup {Top(t).r}]
  /\ Return(t)
  /\ UNCHANGED << info, alive, clients, currentUser, requestQueue >>

EndAcquire(t) ==
  /\ At(t, "acquireResource", "queued") \/ At(t, "acquireResource", "unknown")
  /\ Return(t)
  /\ UNCHANGED << info, alive, clients, resourceVars >>

-----------------------------------------------------------------------------
(* release_resource and process_resource_release                           *)

StartRelease(t, n, r) == StartRequest(t, n, "releaseResource", "check", r)

CheckUsed(t) ==
  /\ At(t, "releaseResource", "check")
  /\ LET f == Top(t) IN
       IF f.r \in used[f.at]
         THEN Goto(t, [f EXCEPT !.pc = "remove"])
         ELSE Return(t)
  /\ UNCHANGED << info, alive, clients, resourceVars >>

\* The unwrap of a missing entry panics: the request takes no further step.
RemoveUsed(t) ==
  /\ At(t, "releaseResource", "remove")
  /\ LET f == Top(t) IN
       /\ f.r \in used[f.at]
       /\ used' = [used EXCEPT ![f.at] = @ \ {f.r}]
       /\ Call(t, [f EXCEPT !.pc = "done"],
               Message("release", f.at, f.at, f.r))
  /\ UNCHANGED << info, alive, clients, currentUser, requestQueue >>

\* The owner frees the resource, or notes the node that was queued last as its
\* user and sends it the grant.  Every other node sends the release on, and so
\* does the owner when the sender is not the user.
ReceiveRelease(t) ==
  /\ At(t, "release", "receive")
  /\ LET f == Top(t)
         q == requestQueue[f.r]
         next == q[Len(q)]
     IN  IF Owner[f.r] # f.at \/ currentUser[f.r] # f.from
           THEN SendOn(t) /\ UNCHANGED << currentUser, requestQueue >>
         ELSE IF q = << >>
           THEN /\ currentUser' = [currentUser EXCEPT ![f.r] = NoNode]
                /\ Return(t)
                /\ UNCHANGED requestQueue
           ELSE /\ currentUser' = [currentUser EXCEPT ![f.r] = next]
                /\ requestQueue' = [requestQueue EXCEPT ![f.r] = Front(@)]
                /\ Call(t, [f EXCEPT !.pc = "done"],
                        Message("granted", f.at, next, f.r))
  /\ UNCHANGED << info, alive, clients, used >>

ReceiveGranted(t) ==
  /\ At(t, "granted", "receive")
  /\ LET f == Top(t) IN
       IF f.to = f.at
         THEN /\ used' = [used EXCEPT ![f.at] = @ \cup {f.r}]
              /\ Return(t)
         ELSE SendOn(t) /\ UNCHANGED used
  /\ UNCHANGED << info, alive, clients, currentUser, requestQueue >>

EndRelease(t) ==
  /\ At(t, "release", "done") \/ At(t, "releaseResource", "done")
  /\ Return(t)
  /\ UNCHANGED << info, alive, clients, resourceVars >>

-----------------------------------------------------------------------------
(* Messages that are lost.  A query or an acquire that fails ends the      *)
(* request, a release or a grant that fails is not noticed.                *)

\* Variant for a check: a node whose release fails goes on using the resource.
EndLostMessageUsing(t) ==
  /\ ~Idle(t)
  /\ Top(t).pc = "repaired"
  /\ LET f == Top(t) IN
       /\ IF f.fn \in {"ownerQuery", "acquire"}
            THEN Reply(t, "unknown")
            ELSE Return(t)
       /\ used' = IF f.fn = "release" /\ f.at = f.from
                    THEN [used EXCEPT ![f.at] = @ \cup {f.r}]
                    ELSE used
  /\ UNCHANGED << info, alive, clients, currentUser, requestQueue >>

EndLostMessage(t) ==
  /\ ~Idle(t)
  /\ Top(t).pc = "repaired"
  /\ IF Top(t).fn \in {"ownerQuery", "acquire"}
       THEN Reply(t, "unknown")
       ELSE Return(t)
  /\ UNCHANGED << info, alive, clients, resourceVars >>

\* The nodes that would not send the message f on.
Ends(f) ==
  CASE f.fn = "ownerQuery" -> {Owner[f.r]} \cup {m \in Node : info[m].next = f.from}
    [] f.fn = "acquire" -> {Owner[f.r]}
    [] f.fn = "release" -> IF currentUser[f.r] = f.from THEN {Owner[f.r]} ELSE {}
    [] f.fn = "granted" -> {f.to}

MessageUnanswered(t) ==
  /\ ~Idle(t)
  /\ Top(t).pc = "deliver"
  /\ Overdue(t, Ends(Top(t)))
  /\ GiveUp(t, 2)
  /\ UNCHANGED resourceVars

-----------------------------------------------------------------------------
(* The specification.                                                      *)

RingPart(t) ==
  /\ \/ TellNeighbor(t)
     \/ CallJoining(t) \/ EnterJoining(t) \/ RepairBeforeJoin(t)
     \/ CopyNeighbors(t) \/ InsertNext(t) \/ InstallNeighbors(t)
     \/ EnterMissing(t) \/ ForgetMissing(t) \/ Unlink(t)
     \/ Relink(t) \/ Linked(t) \/ PassMissing(t)
     \/ RepairUnanswered(t) \/ CopyNext(t) \/ SendMessage(t) \/ RepairAfterFailure(t)
  /\ UNCHANGED resourceVars

RingResourcesStep(t) ==
  \/ FindOwner(t) \/ ReceiveOwnerQuery(t) \/ RequestResource(t)
  \/ ReceiveAcquire(t) \/ ReturnAnswer(t) \/ UseResource(t) \/ EndAcquire(t)
  \/ CheckUsed(t) \/ RemoveUsed(t) \/ ReceiveRelease(t)
  \/ ReceiveGranted(t) \/ EndRelease(t)
  \/ EndLostMessage(t) \/ MessageUnanswered(t)
  \/ RingPart(t)

\* Nodes stop, and requests find it.
RingResourcesNext ==
  \/ \E t \in Task :
       \/ \E n \in Node, r \in Resource :
            StartAcquire(t, n, r) \/ StartRelease(t, n, r)
       \/ RingResourcesStep(t)
  \/ (\E n \in Node : Kill(n)) /\ UNCHANGED resourceVars

\* And those that are down are revived.
ReviveNext ==
  \/ RingResourcesNext
  \/ (\E t \in Task, n \in Node \ alive : Revive(t, n)) /\ UNCHANGED resourceVars

-----------------------------------------------------------------------------
(* What is left of the promises of resources.                              *)

\* Type invariant.
RingResourcesTypeOK ==
  /\ calls \in [Task -> Seq(RingFrame \cup ResourceFrame)]
  /\ currentUser \in [Resource -> Node \cup {NoNode}]
  /\ requestQueue \in [Resource -> Seq(Node)]
  /\ used \in [Node -> SUBSET Resource]

\* Whatever is lost, delayed or stopped, a node uses only a resource of which
\* its owner says that it is the user: two nodes never use one resource.
UserIsNoted ==
  \A n \in Node : \A r \in used[n] : currentUser[r] = n

\* Every request returns, when messages are lost and nobody is there to
\* receive them.
RingResourcesReturn == \A t \in Task : ~Idle(t) ~> Idle(t)
=============================================================================
