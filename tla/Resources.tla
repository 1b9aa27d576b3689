----------------------------- MODULE Resources ------------------------------
(***************************************************************************)
(* Exclusive use of resources, src/node_base/resources.rs.  The owner of a *)
(* resource keeps its user and a queue.  acquire_resource looks for the    *)
(* owner, then asks it.  release_resource tells the owner, which hands the *)
(* resource on to a queued node.                                           *)
(*                                                                         *)
(* A step is a stretch of code in which the node takes its locks once.     *)
(***************************************************************************)
EXTENDS NodeCalls, FiniteSets

CONSTANTS
  Resource,          \* names of resources, known and unknown ones
  NoNode,            \* current_user is None, or nobody owns the resource
  Owner,             \* the node to which main assigned each resource
  MaxRequests,       \* bound: requests for each resource, running and queued
  OneRequestPerNode  \* TRUE: a node's operator awaits the reply to a request
                     \* before sending that node the next, as control.sh does

ASSUME ResourcesAssumption ==
  /\ NoNode \notin Node
  /\ Owner \in [Resource -> Node \cup {NoNode}]
  /\ MaxRequests \in [Resource -> Nat]
  /\ OneRequestPerNode \in BOOLEAN

VARIABLES
  currentUser,    \* current_user of each resource, at its owner
  requestQueue,   \* request_queue of each resource, at its owner
  used,           \* used[n]: keys of used_resources of node n
  waitingFor      \* waitingFor[n]: keys of waiting_for of node n

ownerVars == << currentUser, requestQueue >>
userVars == << used, waitingFor >>
resourceVars == << calls, ownerVars, userVars >>

-----------------------------------------------------------------------------
(* Frames.  The operator's request and the messages have different names:  *)
(* acquireResource sends "query" and "acquire", releaseResource "release". *)

RequestFrame(fn, pc, n, r) ==
  [fn |-> fn, pc |-> pc, at |-> n, to |-> n, from |-> n, r |-> r]

\* A message about r from node n to node o, received by the next node first.
ResourceMessage(kind, n, o, r) ==
  [fn |-> kind, pc |-> "hop", at |-> Succ[n], to |-> o, from |-> n, r |-> r]

ResourceFrame ==
  [fn : {"acquireResource", "releaseResource", "query", "acquire", "release",
         "granted"},
   pc : {"find", "unknown", "send", "await", "hop", "granted", "queued",
         "check", "remove", "done"},
   at : Node, to : Node, from : Node, r : Resource]

-----------------------------------------------------------------------------
(* Requests of the operator.                                               *)

FreeToStart(t, n) ==
  /\ Idle(t)
  /\ OneRequestPerNode => \A u \in Task : ~Idle(u) => calls[u][1].at # n

\* Requests for r that run.
Acquiring(r) ==
  {t \in Task : /\ ~Idle(t)
                /\ calls[t][1].fn = "acquireResource"
                /\ calls[t][1].r = r}

StartAcquire(t, n, r) ==
  /\ FreeToStart(t, n)
  /\ Len(requestQueue[r]) + Cardinality(Acquiring(r)) < MaxRequests[r]
  /\ Begin(t, RequestFrame("acquireResource", "find", n, r))
  /\ UNCHANGED << ownerVars, userVars >>

StartRelease(t, n, r) ==
  /\ FreeToStart(t, n)
  /\ Begin(t, RequestFrame("releaseResource", "check", n, r))
  /\ UNCHANGED << ownerVars, userVars >>

-----------------------------------------------------------------------------
(* find_resource_owner                                                     *)

\* The node at which a query of node n ends: the owner, or the last node of
\* the ring, whose next node is n.
QueryEnd(n, r) ==
  IF Owner[r] # NoNode THEN Owner[r] ELSE CHOOSE p \in Node : Succ[p] = n

FindOwner(t) ==
  /\ At(t, "acquireResource", "find")
  /\ LET f == Top(t) IN
       IF Owner[f.r] = f.at
         THEN Goto(t, [f EXCEPT !.pc = "send"])
         ELSE Call(t, [f EXCEPT !.pc = "await"],
                   ResourceMessage("query", f.at, QueryEnd(f.at, f.r), f.r))
  /\ UNCHANGED << ownerVars, userVars >>

Reply(t, answer) == ReturnTo(t, [Caller(t) EXCEPT !.pc = answer])

ReceiveQuery(t) ==
  /\ Received(t, "query")
  /\ Reply(t, IF Owner[Top(t).r] = Top(t).at THEN "send" ELSE "unknown")
  /\ UNCHANGED << ownerVars, userVars >>

ResourceNotFound(t) ==
  /\ At(t, "acquireResource", "unknown")
  /\ Return(t)
  /\ UNCHANGED << ownerVars, userVars >>

-----------------------------------------------------------------------------
(* acquire_resource and process_resource_request                           *)

SendAcquire(t) ==
  /\ At(t, "acquireResource", "send")
  /\ LET f == Top(t) IN
       Call(t, [f EXCEPT !.pc = "await"],
            ResourceMessage("acquire", f.at, Owner[f.r], f.r))
  /\ UNCHANGED << ownerVars, userVars >>

\* Variant for a check: the queue keeps the message, not its sender.
ReceiveAcquireQueueMessage(t) ==
  /\ Received(t, "acquire")
  /\ LET f == Top(t) IN
       IF currentUser[f.r] = NoNode
         THEN /\ currentUser' = [currentUser EXCEPT ![f.r] = f.from]
              /\ Reply(t, "granted")
              /\ UNCHANGED requestQueue
         ELSE /\ requestQueue' = [requestQueue EXCEPT ![f.r] = Append(@, f)]
              /\ Reply(t, "queued")
              /\ UNCHANGED currentUser
  /\ UNCHANGED userVars

\* The owner grants a free resource and queues the node for one in use.
ReceiveAcquire(t) ==
  /\ Received(t, "acquire")
  /\ LET f == Top(t) IN
       IF currentUser[f.r] = NoNode
         THEN /\ currentUser' = [currentUser EXCEPT ![f.r] = f.from]
              /\ Reply(t, "granted")
              /\ UNCHANGED requestQueue
         ELSE /\ requestQueue' =
                   [requestQueue EXCEPT ![f.r] = Append(@, f.from)]
              /\ Reply(t, "queued")
              /\ UNCHANGED currentUser
  /\ UNCHANGED userVars

\* use_resource
Use(n, r) ==
  /\ waitingFor' = [waitingFor EXCEPT ![n] = @ \ {r}]
  /\ used' = [used EXCEPT ![n] = @ \cup {r}]

UseResource(t) ==
  /\ At(t, "acquireResource", "granted")
  /\ Use(Top(t).at, Top(t).r)
  /\ Return(t)
  /\ UNCHANGED ownerVars

WaitForResource(t) ==
  /\ At(t, "acquireResource", "queued")
  /\ LET f == Top(t) IN
       waitingFor' = [waitingFor EXCEPT ![f.at] = @ \cup {f.r}]
  /\ Return(t)
  /\ UNCHANGED << ownerVars, used >>

-----------------------------------------------------------------------------
(* release_resource and process_resource_release                           *)

\* A node that does not use the resource ignores the request.
CheckUsed(t) ==
  /\ At(t, "releaseResource", "check")
  /\ LET f == Top(t) IN
       IF f.r \in used[f.at] THEN Goto(t, [f EXCEPT !.pc = "remove"])
                             ELSE Return(t)
  /\ UNCHANGED << ownerVars, userVars >>

\* The unwrap of a missing entry panics: the request takes no further step.
RemoveUsed(t) ==
  /\ At(t, "releaseResource", "remove")
  /\ LET f == Top(t) IN
       /\ f.r \in used[f.at]
       /\ used' = [used EXCEPT ![f.at] = @ \ {f.r}]
  /\ Goto(t, [Top(t) EXCEPT !.pc = "send"])
  /\ UNCHANGED << ownerVars, waitingFor >>

SendRelease(t) ==
  /\ At(t, "releaseResource", "send")
  /\ LET f == Top(t) IN
       Call(t, [f EXCEPT !.pc = "done"],
            ResourceMessage("release", f.at, Owner[f.r], f.r))
  /\ UNCHANGED << ownerVars, userVars >>

\* Variant for a check: the owner does not note the new user.
PassOnUnnoted(t, f) ==
  LET q == requestQueue[f.r] IN
    /\ currentUser' = [currentUser EXCEPT ![f.r] = NoNode]
    /\ IF q = << >>
         THEN Return(t) /\ UNCHANGED requestQueue
         ELSE /\ requestQueue' =
                   [requestQueue EXCEPT ![f.r] = SubSeq(@, 1, Len(@) - 1)]
              /\ Call(t, [f EXCEPT !.pc = "done"],
                      ResourceMessage("granted", f.at, q[Len(q)], f.r))

\* Variant for a check: the new user does not hear of it.
PassOnSilently(t, f) ==
  LET q == requestQueue[f.r] IN
    /\ Return(t)
    /\ IF q = << >>
         THEN /\ currentUser' = [currentUser EXCEPT ![f.r] = NoNode]
              /\ UNCHANGED requestQueue
         ELSE /\ currentUser' = [currentUser EXCEPT ![f.r] = q[Len(q)]]
              /\ requestQueue' =
                   [requestQueue EXCEPT ![f.r] = SubSeq(@, 1, Len(@) - 1)]

\* Variant for a check: the resource becomes free for the next request.
PassOnToNobody(t, f) ==
  /\ currentUser' = [currentUser EXCEPT ![f.r] = NoNode]
  /\ Return(t)
  /\ UNCHANGED requestQueue

\* Variant for a check: the new user stays in the queue.
PassOnUnpopped(t, f) ==
  LET q == requestQueue[f.r] IN
    /\ IF q = << >>
         THEN /\ currentUser' = [currentUser EXCEPT ![f.r] = NoNode]
              /\ Return(t)
         ELSE /\ currentUser' = [currentUser EXCEPT ![f.r] = q[Len(q)]]
              /\ Call(t, [f EXCEPT !.pc = "done"],
                      ResourceMessage("granted", f.at, q[Len(q)], f.r))
    /\ UNCHANGED requestQueue

\* The resource f.r becomes free, or goes on to a queued node, to which the
\* owner sends the grant.  Vec::pop takes the node that was queued last.
PassOn(t, f) ==
  LET q == requestQueue[f.r]
      next == q[Len(q)]
  IN  IF q = << >>
        THEN /\ currentUser' = [currentUser EXCEPT ![f.r] = NoNode]
             /\ Return(t)
             /\ UNCHANGED requestQueue
        ELSE /\ currentUser' = [currentUser EXCEPT ![f.r] = next]
             /\ requestQueue' =
                  [requestQueue EXCEPT ![f.r] = SubSeq(@, 1, Len(@) - 1)]
             /\ Call(t, [f EXCEPT !.pc = "done"],
                     ResourceMessage("granted", f.at, next, f.r))

\* Variant for a check: releases by the user circulate too.
ReceiveReleaseNever(t) ==
  /\ Received(t, "release")
  /\ Goto(t, [Top(t) EXCEPT !.at = Succ[@]])
  /\ UNCHANGED << ownerVars, userVars >>

\* The owner does not handle the release of another node than the user, and
\* sends it round the ring again.
ReceiveRelease(t) ==
  /\ Received(t, "release")
  /\ LET f == Top(t) IN
       IF currentUser[f.r] = f.from
         THEN PassOn(t, f)
         ELSE /\ Goto(t, [f EXCEPT !.at = Succ[@]])
              /\ UNCHANGED ownerVars
  /\ UNCHANGED userVars

ReceiveGranted(t) ==
  /\ Received(t, "granted")
  /\ Use(Top(t).at, Top(t).r)
  /\ Return(t)
  /\ UNCHANGED ownerVars

EndRelease(t) ==
  /\ At(t, "release", "done") \/ At(t, "releaseResource", "done")
  /\ Return(t)
  /\ UNCHANGED << ownerVars, userVars >>

-----------------------------------------------------------------------------
(* The specification.                                                      *)

ForwardResource(t) == Forward(t) /\ UNCHANGED << ownerVars, userVars >>

\* One step of a request in progress.
ResourceStep(t) ==
  \/ FindOwner(t) \/ ReceiveQuery(t) \/ ResourceNotFound(t)
  \/ SendAcquire(t) \/ ReceiveAcquire(t)
  \/ UseResource(t) \/ WaitForResource(t)
  \/ CheckUsed(t) \/ RemoveUsed(t) \/ SendRelease(t)
  \/ ReceiveRelease(t) \/ ReceiveGranted(t) \/ EndRelease(t)
  \/ ForwardResource(t)

ResourcesInit ==
  /\ calls = [t \in Task |-> << >>]
  /\ currentUser = [r \in Resource |-> NoNode]
  /\ requestQueue = [r \in Resource |-> << >>]
  /\ used = [n \in Node |-> {}]
  /\ waitingFor = [n \in Node |-> {}]

ResourcesNext ==
  \E t \in Task :
    \/ \E n \in Node, r \in Resource :
         StartAcquire(t, n, r) \/ StartRelease(t, n, r)
    \/ ResourceStep(t)

ResourcesSpec == ResourcesInit /\ [][ResourcesNext]_resourceVars

\* tokio polls a task that can run: an accepted request takes its next step.
FairResourcesSpec ==
  ResourcesSpec /\ \A t \in Task : WF_resourceVars(ResourceStep(t))
-----------------------------------------------------------------------------
(* What the nodes promise about resources.                                 *)

\* Type invariant.
ResourcesTypeOK ==
  /\ calls \in [Task -> Seq(ResourceFrame)]
  /\ currentUser \in [Resource -> Node \cup {NoNode}]
  /\ requestQueue \in [Resource -> Seq(Node)]
  /\ used \in [Node -> SUBSET Resource]
  /\ waitingFor \in [Node -> SUBSET Resource]

\* Two nodes never use a resource at the same time, whatever grants and
\* releases are under way (use_resource adds the entry when the reply or the
\* message arrives, long after the owner has decided).
MutualExclusion ==
  \A r \in Resource : \A n, o \in Node :
    r \in used[n] /\ r \in used[o] => n = o

\* Node n is about to use r: the grant is on its way.
GrantUnderWay(n, r) ==
  \E t \in Task :
    /\ ~Idle(t)
    /\ Top(t).r = r
    /\ \/ At(t, "acquireResource", "granted") /\ Top(t).at = n
       \/ At(t, "granted", "hop") /\ Top(t).to = n

\* Node n has stopped using r and its owner is about to know.
ReleaseUnderWay(n, r) ==
  \E t \in Task :
    /\ ~Idle(t)
    /\ Top(t).r = r
    /\ At(t, "releaseResource", "send") \/ At(t, "release", "hop")
    /\ Top(t).from = n

\* A resource is not lost: the node that its owner believes to be the user
\* uses it, or the grant or the release is under way, and exactly one of the
\* three (process_resource_request and process_resource_release update the
\* owner before, and after, the user's own entry).
UserIsAccounted ==
  \A r \in Resource : \A n \in Node :
    IF currentUser[r] = n
      THEN \/ r \in used[n] /\ ~GrantUnderWay(n, r) /\ ~ReleaseUnderWay(n, r)
           \/ r \notin used[n] /\ GrantUnderWay(n, r) /\ ~ReleaseUnderWay(n, r)
           \/ r \notin used[n] /\ ~GrantUnderWay(n, r) /\ ReleaseUnderWay(n, r)
      ELSE r \notin used[n] /\ ~GrantUnderWay(n, r) /\ ~ReleaseUnderWay(n, r)

\* No node is stranded in the queue of a free resource.
FreeHasNoQueue ==
  \A r \in Resource : currentUser[r] = NoNode => requestQueue[r] = << >>

\* Every request of the operator returns: no query, release or grant goes
\* round the ring for ever.
RequestsReturn == \A t \in Task : ~Idle(t) ~> Idle(t)

-----------------------------------------------------------------------------
(* Resources implements ResourceLock: the user of a resource is the node   *)
(* that has it in used_resources, a request asks once it knows the owner,  *)
(* and it is put off when the owner queues it.                             *)

UserOf(r) ==
  IF \E n \in Node : r \in used[n]
    THEN CHOOSE n \in Node : r \in used[n]
    ELSE NoNode

\* What request t asks for and has not got, neither the resource nor a place
\* in the queue.
AskingOf(t) ==
  IF \/ At(t, "acquireResource", "send") \/ At(t, "acquireResource", "granted")
     \/ At(t, "acquire", "hop")
    THEN << calls[t][1].at, calls[t][1].r >>
    ELSE << >>

\* Requests of node n for r that are queued or have left the queue as a
\* granted message.
BacklogOf(n, r) ==
  Cardinality({i \in DOMAIN requestQueue[r] : requestQueue[r][i] = n})
    + Cardinality({t \in Task : /\ At(t, "granted", "hop")
                                /\ Top(t).to = n /\ Top(t).r = r})

Lock == INSTANCE ResourceLock WITH
          user <- [r \in Resource |-> UserOf(r)],
          asking <- [t \in Task |-> AskingOf(t)],
          backlog <- [r \in Resource |-> [n \in Node |-> BacklogOf(n, r)]]

\* A node uses a resource that nobody else uses, and once for each request
\* that it made: no grant is lost, sent twice, or sent to another node, with
\* any replies and granted messages under way.
LockRefined == Lock!LockSpec
=============================================================================
