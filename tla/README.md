# tarpc-distributed-system: verification

TLA+ modules, TLC runs and TLAPS proofs for the distributed system in
`src/`: nodes on a ring that share resources, exchange permissions, detect
deadlocks, and repair the ring when a node stops. Paths below are relative to
the root of the repository.

## The system

A node is one process with an RPC server (port N), a REST server (port N+1) and
a `Node` struct whose fields each have a lock of their own. Every request
arrives at the REST server of some node, sent by `control.sh`. A node can only
send to its next node on the ring; a message for another node is sent on by each
node in between. Every send is a remote call that is awaited, so a request is
one chain of handlers, on several nodes, of which the last one runs and the
others wait. The chain often comes back to a node that is already in it.

| Component | State | Operations | Talks to |
|---|---|---|---|
| Ring topology (`node.rs`, `rpc_base/server.rs`) | `neighbor_info`: next, nnext, prev | join, leave, kill, revive, `missing_node`, `change_next`, `change_nnext`, `change_prev`, `change_nnext_of_prev` | neighbors, by direct calls; every send error starts a repair |
| Client cache (`rpc_client_manager.rs`) | `clients` | `get_client`, `delete_client` | every send |
| RPC server (`rpc_base/server.rs` `serve_rpc`) | whether it listens | start, stop signal | kill and revive |
| Waits and permissions (`cmh_funcs.rs` 77-166) | `is_active`, `waiting_messages_from`, `permission_queue` | `handle_waiting_for`, `set_active`, `set_passive`, `handle_permission_from` | RequestPermission and GrantPermission round the ring |
| Deadlock detection (`cmh_funcs.rs` 32-73, 167-315) | `last_test`, `wait_status`, `parent_nodes`, `probe_count` | `start_detection`, `handle_probe`, `handle_probe_answer` | ProbeRequest and ProbeAnswer round the ring; reads the waits |
| Resources (`resources.rs`) | `owned_resources` (user and queue), `used_resources`, `waiting_for`, `blocked_processes` | acquire, release | ResourceQuery, Acquire, Release, Granted round the ring |
| Lamport clock (`node.rs` 93-101) | `lamport_time` | increment, update | travels with CMH messages and their Success replies; no decision reads it |
| REST API (`api.rs`), `main.rs`, `control.sh` | none | routes; a new node and its one resource; a menu that sends one request and awaits the reply | |

What makes each part correct:

- **ring**: between requests the neighbors of every node agree, in rings of
  any size, after any series of joins, leaves, crashes, repairs and revivals;
  after a repair the next node runs; nothing goes round for ever;
- **waits**: whoever waits is in the queue of the node it waits for; a node
  that becomes active wakes everybody who waits for it; cascades of grants end;
  nobody waits for a node that is missing or has lost its queue;
- **detection**: no deadlock is declared where there is none, a deadlock is
  declared by each test of a node in it, once, and every test ends;
- **resources**: one user at a time, no grant lost or doubled, no node stranded
  in the queue of a free resource, every request ends; with messages that are
  lost, nobody uses what the owner has not noted for it;
- **clock**: times grow along each chain of messages.

What makes it hard: handlers that give up a lock and rely on what they read
under it; recursion through remote calls, so that a node changes under a handler
that waits; loops over a copy of a `HashSet` in any order; grants and replies
that cross; crashes that are noticed only by the next send; connections that are
kept when the other end has gone; a deadline of 10 s that makes a slow node, or
the node behind which a message circulates, look like one that is down; repairs
that take several calls and cross joins, leaves, revivals and other repairs. `PROJECT.json` lists these as hazards, each at
its line, with the properties that cover it or the reason why none does.

## Modules

| Module | Models |
|---|---|
| `Calls` | a request as a stack of frames: begin, next step, call, return |
| `NodeCalls` | a ring that does not change, and how a message reaches its addressee on it |
| `Detection` | `start_detection`, `handle_probe`, `handle_probe_answer` |
| `Permission` | `handle_waiting_for`, `set_active`, `set_passive`, `handle_permission_from` |
| `Resources` | `acquire_resource`, `release_resource`, `process_resource_request`, `process_resource_release`, `use_resource` |
| `ResourceLock` | the abstract specification of Resources: a lock with a backlog |
| `Cmh` | `Detection` and `Permission` on the same nodes: waits change during and between tests |
| `Ring` | join, leave, repair, kill, revive, the client cache, deadlines and slow nodes |
| `RingOrder` | the abstract specification of Ring: rings that change by one node at a time |
| `RingResources` | the requests of `Resources` on the ring of `Ring`: lost messages, crashes, deadlines |
| `RingWaits` | the same for the requests of `Permission`, with `delete_dependencies` and what leave and revive do to waits |
| `LamportClock` | `increment_lamport`, `update_clock` and the messages and replies that carry times |
| `MCDetection`, `MCPermission`, `MCCmh`, `MCResources`, `MCRing`, `MCRingResources`, `MCRingWaits`, `MCLamportClock` | instances for TLC |
| `Calls_proofs`, `Detection_proofs`, `Permission_proofs`, `Resources_proofs`, `Ring_proofs`, `RingResources_proofs`, `RingWaits_proofs`, `LamportClock_proofs` | lemmas and theorems; those about `Cmh` are in `Detection_proofs` |

`Detection`, `Permission`, `Resources` and `LamportClock` extend `NodeCalls`;
`Cmh` extends the first and instantiates the second on the same variables;
`RingResources` and `RingWaits` extend `Ring`, which supplies the steps of their
messages and the repairs that their failures set off.

**Stacks.** `calls[t]` is request `t`: a sequence of frames, the REST handler
first, each with the function `fn`, the step `pc` it is about to take, and the
node `at` which it executes. Only the last frame takes steps. A message is a
frame with `pc = "hop"` until it is at the node `to`: forwarding handlers wait
for the same reply, so one frame stands for all of them. A handler that ends its
caller's wait with a value gives the caller's frame its next step
(`ReturnTo`). The members of `Task` are the slots for requests at the same time.

**Steps.** In `Detection`, `Permission` and `Resources` a step is a stretch of
code in which the node takes its locks once. Where the code reads under one lock
and writes under another there are two steps, and requests interleave between
them; a read that meets the write under one lock is one step. In `Ring` a step is
what a handler does between two of its awaits, with the `change_*` call that ends
it. `missing_node` has an await before the test whether the missing node comes next
(the lock of the connections, in `delete_dependencies`) and one before it writes
`next` (`delete_client`), so its entry is three steps: `EnterMissing` reads
`next`, `ForgetMissing` tests and reads `nnext` and `prev`, `Unlink` writes. Two
repairs at one node interleave between them.

**Detection.** `isActive` and `waitingFrom` are constant during a run and start
as any graph. `lastTest`, `waitStatus`, `parent`, `probeCount` are the maps of
the same names, with the value that `unwrap_or` gives to a missing entry.
`probeCount` wraps at `CountModulus`, for the u32 of the release build. `todo` of
a frame is what remains of the copied `HashSet`, from which any member comes
next. `declared` records the log line DEADLOCK DETECTED.

**Permission.** A wait goes BecomePassive, RequestPermission, then
PermissionGranted and Resume, or PermissionDenied. A set_active goes
BecomeActive, ClearWaits, ListWaiters, SendGrant for each member of the copy,
EndSetActive. A grant that is a node's last calls set_active on that node, in the
same chain of calls.

**Resources.** `Owner` is what `main` assigned; `currentUser` and `requestQueue`
are kept at the owner, `used` and `waitingFor` at the user. A query that finds no
owner ends at the node before the one that asked. A release that the owner does
not accept goes round the ring for as long as the owner does not accept it.

**Detection with changing waits.** `Cmh` takes the actions of `Detection` and
`Permission` as they are. `knotted` is a history variable: the nodes that have been
in a knot ever since their test began, no node of which has lost a wait since
(`KnotLasts`). The second condition matters only when requests overlap: see
*Where the promises end*. `KnotSpec` of `MCCmh` starts in a knot of all nodes, a
state that six requests one after the other lead to; one request then is a test,
another one changes the waits, so that a wait may be added to a node that the test
has come through, and a cascade of grants run through the nodes of the test.

**Ring.** `info` is `neighbor_info`, `alive` the nodes whose RPC server runs,
`clients[n][o]` the connection that n keeps to o: none, open, or closed because o
was stopped. `Reaches` says whether a call gets through. `todo` of a frame lists
the fields of other nodes that a join, a leave or a repair has still to set. A
handler that panics (`unwrap` of a failed call) ends the chain of calls (`Fail`)
except where a caller goes on after an error. `repair_topology` ignores a call of
missing_node that fails, and panics when its own node cannot be connected to
(`RepairTopology`). `Member` are the nodes that run and those that are down and not
missed yet (`Unmissed`). The query that `/msg` sends is what
finds that the next node is down.

A message is one frame that moves: `path` has the node it is from and those that
have sent it on and await the reply. When a node on the path is killed, or the
deadline of its call passes, the frame is cut back to the sender before it
(`FailedAt`), which repairs the ring. A deadline passes (`Unanswered`,
`MessageUnanswered`) when the message is held by a node in
`Slow`, whose `message_delay` exceeds 10 s, or would go round for ever
(`Endless`). The deadline of a repair passes in the runs with a slow node, that
of a query in `ring_crash`. `revive` may also be asked of a node that runs, which then joins its
prev again.

`SuccInOrder` and `Gone` map the ring to `RingOrder`. `Gone` are the nodes that are
down, or ask to join, leave or come back. The order is `next` as the code has left
it, for every node that is not gone and for each that such a node has as its next;
a node that has been inserted goes to the next node that the reply names, before
it has installed it (`NextInOrder`). Only a node that is gone, and is nobody's
next, counts as a ring of its own, whatever its memory says. So a node that is cut
off, or two that send to one, would show.

**Resources and waits on that ring.** `RingResources` and `RingWaits` have their
own request frames and add the kinds of messages of their component to the
frames of `Ring`. A step is what a node does between two messages: the
interleavings within a handler are in `Resources` and `Permission`. A release is
two steps as in the code (`CheckUsed`, `RemoveUsed`), since the theorem about
`RingResources` is for any number of requests. `Missing` of
`RingWaits` is the entry of `missing_node` with `delete_dependencies`.

**LamportClock.** What messages say is left out: a handler sends any number of
messages, each of which the next node handles or sends on, and returns Success
with its time or any other reply. `increment_lamport` adds in one step and reads
in the next. `lastSent` and `sentBefore` are history variables: the time of the
last message of a node, and what it was when a request added its tick.

## Runs

| Run | Instance | Shows |
|---|---|---|
| `detection` | 3 nodes, every wait graph without self-waits, a test of n1 and a test of n2 interleaved | DeclaredIsDeadlock, KnotIsDeclared, ProbeTree, TestsEnd: tests that meet on shared nodes are kept apart |
| `cmh` | 3 nodes, two tests of n1, waits and states that change before and between them | VerdictIsDeadlock, LastingKnotIsDeclared, OneVerdictPerTest: what a test leaves behind does no harm to the next |
| `cmh_overlap` | 3 nodes that are all in a knot; a test of one request, waits and states that another one changes meanwhile | LastingKnotIsDeclared, NoCountUnderflow, CmhRequestsReturn, when a cascade of grants meets a test |
| `permission` | 3 nodes, any waits of one node for another, and one node for itself | WaiterRegistered, SetActiveWakesAll, CallsReturn |
| `resources` | 3 nodes, one owned and one unknown resource, two requests at once | MutualExclusion, UserIsAccounted, FreeHasNoQueue, LockRefined, RequestsReturn |
| `ring` | 4 nodes from their start; joins, leaves, crashes of any node, queries, revivals, one node down at a time | RingAgrees, RepairHeals, OnlyDownIsMissed, OrderRefined |
| `ring_crash` | a formed ring of 4, two queries at once, a node stops under them | RingAgrees, RepairHeals, OrderRefined (which also says that only nodes that are down are taken out) and RingRequestsReturn, when two repairs of one node overlap, at the node before it too |
| `ring_resources` | a formed ring of 3, one slower than the deadline, one down at a time and revived, one resource | UserIsNoted, RingResourcesReturn |
| `ring_waits` | a formed ring of 3, one slower than the deadline; nodes stop, leave and are revived while two of them may wait for each other | MissingIsForgotten, RingWaitsReturn |
| `clock` | 2 nodes, two requests at once, messages sent on | TimesGrow, TimeIsNew |

The type invariant of each component is checked by one of them (of `Cmh`, those of
its two parts). Two runs show a
disagreement with what the repository says; `PROJECT.json` quotes the lines under
findings.

| Run | Violated | In short |
|---|---|---|
| `permission_forgotten` | NoForgottenWaiter | an immediate grant makes a node active without waking its waiters |
| `ring_reconnect` | RepairHeals | kept connections to a node that was killed and revived prevent the repair |

### Where the promises end

The runs that pass say what the code guarantees under the conditions named by
their constants. With each of these changes to the configuration of the module
(for `Ring`, to `MCRing.cfg`) TLC finds a violation, which says what the code
does not handle:

| Module | Change | Violated | In short |
|---|---|---|---|
| `Detection` | one initiator, two tasks, `OneTestAtATime = FALSE` | DeclaredIsDeadlock | two requests on one node share a test number (`cmh_funcs.rs` 50) |
| `Cmh` | `MCCmhOverlap.cfg` with VerdictIsDeadlock | VerdictIsDeadlock | a wait that was ended while its test ran is counted (`cmh_funcs.rs` 265) |
| `Cmh` | `MCCmhOverlap.cfg` with `MaxChanges = 3`, changes in both slots, and `KnotDeadlocked(k)'` in the place of `KnotLasts(k)` | LastingKnotIsDeclared | a grant that was sent before the test began ends a wait that the test follows; the node it was for resumes, and the probe to it is not answered (`cmh_funcs.rs` 217) |
| `Permission` | `Task = {t1, t2}` | WaiterRegistered | a wait that is queued while the other node becomes active is wiped out of the queue (`cmh_funcs.rs` 143, 88) |
| `Resources` | `OneRequestPerNode = FALSE` | RequestsReturn | of two releases at once the second finds the entry gone and panics (`resources.rs` 100) |
| `Ring` | `Slow = {n2}` | OnlyDownIsMissed | a slow node, and the live node behind which it is, are expelled (`node.rs` 166) |
| `Ring` | `ChangeWhileDown = TRUE` | RingAgrees | a leave next to a node that is down and not yet missed panics half way (`server.rs` 106) |
| `Ring` | two tasks, `RingSpec` | RingAgrees | two joins at one node lose a node (`server.rs` 71) |
| `Ring` | `MaxDown = 2` | RingAgrees | the next and the nnext of a node are down, and its repair panics (`server.rs` 192) |
| `Ring` | `KillBetween = FALSE` | RepairHeals | a node that is stopped under its own request cannot repair the ring (`node.rs` 221) |
| `Ring` | `Rejoin = TRUE` | RingAgrees | a node that joins another ring cuts off the nodes of its own (`node.rs` 145) |

The queue of a resource is a stack (`resources.rs` 151): the model has it so, and
no property says otherwise.

### Which promises of detection hold

In the terms of the program a node resumes when the last of its waits has been
granted. A node that waits for a member of a set of passive nodes, each of
which waits for a member of the set, never resumes: that is `CycleDeadlocked`.
`KnotDeadlocked` is the narrower case in which nothing that the node waits for,
directly or not, is active or waits for nobody. A declaration implies
`CycleDeadlocked`; `KnotDeadlocked` implies a declaration. Between the two the
verdict depends on the order in which waits are probed.

### Bounds

- Three nodes contain every shape that the probes can meet: a node that waits
  for two, two that wait for one, cycles of two and three, and a way that leads
  to a cycle. Two tests by one node (`cmh`) show what the first leaves behind;
  `MaxTest` bounds tests and is the only counter of `Detection`.
- `CountModulus` is 4: larger than any count that one test of three nodes
  reaches, so wrapping is seen only where the code would wrap.
- `Waits` of `Permission` has every pair and one self-wait: a request of a node
  for its own permission goes round the whole ring.
- `MaxRequests` bounds the queue of a resource together with the acquires that
  run. Two for the owned resource, with two at once, are enough for a queue, a
  grant that leaves it, and a release that crosses them. `MaxQueue` is the same
  bound in `RingResources`.
- Four nodes are the least on which `leave_topology` takes its last branch, in
  which prev, next, nnext and prev of prev all matter. Nodes are symmetric in
  `ring`.
- `MaxDown` is 1: at most one node is down that has not been missed. nnext lets a
  node repair one missing neighbor; with two neighbors down the repair panics
  (`server.rs` 192). The constraint `OneNodeDown` of the runs looks no further
  once a second node is down, although the first has been missed, nor once a
  node that has been missed cannot come back: what is left is a smaller ring of
  the kind that the run has as well. The theorems have no such bound.
- `ChangeWhileDown` is FALSE: no join, leave or revival of a running node begins
  while a crash has gone unnoticed, and a node comes back when the node that it
  rejoins runs. `Rejoin` is FALSE: only lone nodes join.
- `StrayConnections` is FALSE: any node may be killed, but a node is not revived
  while a closed connection to it is kept that the repair would not delete: by
  itself, or by a node that missing_node does not come to. `ring_reconnect` shows
  what happens otherwise. It is TRUE in `ring_crash`, where nobody is revived.
- `KillBetween` is TRUE in `ring` and `ring_waits`: nodes stop between requests,
  as by `control.sh`. It is FALSE in `ring_crash` and `ring_resources`: nodes
  stop while messages, and no join, leave or repair, are under way.
- `Slow` is one node in the runs that have deadlines. Of the calls of a request
  the first deadline to pass is modelled, that of the sender; the handlers it
  awaited are cancelled with it, as tarpc cancels them.
- The operator asks only nodes that run; a node that is down is only revived.
- The runs about crashes, resources and waits start from a ring that is formed,
  with the connections that its joins have left. `ring` forms every ring of up to
  four nodes.
- `Waits` of `RingWaits` are a cycle of two (`WaitsOnEachOther`). Nodes
  wait only for members of their ring: a request to any other is forwarded until
  the sender's deadline expels a live node.
- `MaxChanges` of `Cmh` bounds the requests that change waits or states: six
  are enough to close a cycle, open it and close another one before the second
  test. From a knot of all nodes (`cmh_overlap`) two let a node be resumed and
  wait again while a test runs, for either of the others (`WaitsOfOne`).
- `MaxTime` bounds the clocks: no message is sent by a node whose clock is there.
  Replies and receipts go on, so the times that meet exceed it. Three are what a
  message needs that is sent, received, sent on and answered; the theorems hold
  for rings of any size.
- One request at a time (`Task` of one member, `OneTestAtATime`,
  `OneRequestPerNode`, `KillBetween`) is the regime of `control.sh`, which awaits
  each reply. The runs with two tasks leave it, for operators with a script each.
- Deadlock is not checked where the bounds leave nothing more to start; that
  every request ends is checked as a liveness property instead.

### Fairness

`WF` of the steps of each request that is under way: tokio polls every task that
can run. In the modules on `Ring` also `SF` of the deadlines: tarpc gives up a
call after 10 s, so a message that goes round for ever is not sent on for ever,
although the step that gives it up is enabled only while it is between two nodes.
The requests of the operator, crashes and revivals have no fairness. Nothing more
is assumed; within one request the choice of the next member of a `HashSet` is
not fair either.

## Proofs

`Calls_proofs` has, for frames of any set, what each stack operation does to
the stack it changes and that it leaves the others alone. The theorems about a
component follow from these lemmas and from one inductive invariant, which TLC
has checked before on the instance of the component's run.

| Theorem | States | Besides the module's assumptions |
|---|---|---|
| `DetectionTypeCorrect` | DetectionTypeOK | |
| `TestNumbersAgree` | TestNumbers | OneTestAtATime |
| `RequestsAreChains` | Chains | OneTestAtATime, SmallRing |
| `CountNeverUnderflows` | NoCountUnderflow | the same |
| `ProbesFormTree` | ProbeTree | the same |
| `NoSecondVerdict` | OneVerdictPerTest | the same |
| `VerdictsAreRight` | DeclaredIsDeadlock | the same |
| `KnotsAreFound` | KnotIsDeclared | the same |
| `VerdictsHold` | VerdictIsDeadlock | OneTask, OneTestAtATime, SmallRing |
| `LastingKnotsAreFound` | LastingKnotIsDeclared | the same |
| `OneVerdictWhileWaitsChange` | OneVerdictPerTest, in `Cmh` | the same |
| `PermissionTypes` | PermissionTypeOK | |
| `WaitersAreRegistered` | WaiterRegistered | OneRequest |
| `SetActiveWakesEverybody` | SetActiveWakesAll | OneRequest |
| `ResourcesTypeCorrect`, `MutualExclusionHolds`, `UserIsAccountedHolds`, `FreeHasNoQueueHolds` | the properties of the run `resources` | |
| `LockIsRefined` | LockRefined | |
| `RingResourcesTypes`, `UsersAreNoted` | RingResourcesTypeOK, UserIsNoted | |
| `RingTypes` | RingTypeOK | |
| `RingWaitsTypes` | RingWaitsTypeOK | |
| `MissingIsAlwaysForgotten` | MissingIsForgotten | OneAtATime of `RingWaits_proofs` |
| `NeighborsAgree` | RingAgrees | OneRequest of `Ring_proofs` |
| `RepairsHeal` | RepairHeals | the same |
| `OnlyDownIsTakenOut` | OnlyDownIsMissed | the same |
| `OrderIsRefined` | OrderRefined | the same |
| `RingAlwaysCircles` | OrderIsCircles, for the order of `Ring` | the same |
| `ClockTypeCorrect`, `TimesGrowHolds`, `TimesAreNew` | the properties of the run `clock` | |

### Detection

`Detection_proofs`, for any ring, any number of requests at once and tests
without bound:

- `DetectionTypeCorrect`: one lemma for each group of handlers; the step that
  matters is the answer to a parent, which `CountDown` sends only if there is one.
- `TestNumbersAgree`: the invariant `TestNumbers`
  says that at most one request is a test of node k, that each frame past
  `ReadTest` carries the number that `lastTest[k][k]` holds, and that no node has
  a larger number for k: so the step that stores a number, which was compared
  under another lock, cannot overwrite a larger one.

`OneTestAtATime` is the regime of the run: several tests overlap, but not two of
one node. Without it DeclaredIsDeadlock is false (see *Where the promises end*).
`SmallRing` says that there are finitely many nodes, fewer than a `u32` counts:
with more of them `probe_count` wraps.

The rest of the module proves what a test in progress looks like. `Chains`: of a
stack of n frames the first d probe, each called by a probe of the one before;
the others handle answers, the first of them on the node of handler d - 1, the
next on that of d - 2, and so on (`Shape`). Two probing handlers in their loops
are on two nodes; a handler in its loop takes part in the test and has the one
before it as its parent (`Nodes`). The count of a node on the chain is the number
of probes that its loop has sent, until the last of these is answered
(`Counts`): answers to earlier probes are lost to the count when the loop
overwrites it. From there:

- `CountNeverUnderflows`: an answer that is accepted comes to a node whose loop
  has sent a probe and whose count has not been taken down yet.
- `ProbesFormTree`: a node stores its parent when it enters the test, and the
  parent is the handler before it on the chain.

What a test finds:

- `NoSecondVerdict`, by `OneVerdict`: once the verdict of the current test has
  been logged the last frame is about to clear `wait_status` of the initiator, or
  has cleared it, and no frame below it can count down to zero again.
- `VerdictsAreRight`, by `FreshTests` (a new test has a number that no node has
  seen) and `SoundChains`: unless the initiator is on or towards a cycle, a node
  that has left the chain leaves a handler in its loop with an answer to spare,
  and before an answer reaches the initiator it comes to such a handler, whose
  count it cannot take to zero (`Spare`). A probe that comes to a node of its own
  chain has found a cycle (`ProbeOnCycle`).
- `KnotsAreFound`, by `KnotChains`: as long as the verdict of a test in knot S
  is open, its chain stays in S, each of its handlers has sent exactly one probe
  and no node of the test has been answered to the end (`Stays`), so the first
  probe that comes back to the chain is answered, and the answers run along it to
  the initiator. `OpenTests` says that a test without a verdict is the last one
  and still runs.

### Detection while waits change

The last part of `Detection_proofs`, for any ring, any waits and any number of
tests and of changes between them: `VerdictsHold`, `LastingKnotsAreFound` and
`OneVerdictWhileWaitsChange`, assuming `OneTask`, which says that requests come
one after the other, as in the run `cmh` and with `control.sh`. With two tasks
VerdictIsDeadlock is false.

A request is then either a test, during which the waits stay as they are, or a
change, during which last_test, wait_status, parent_nodes and probe_count stay as
they are. `CmhInv` says that of every state: `Tests`, the invariant of
the parts before, or `Changes`, which says only that the request is a wait or a
set_active; and what holds of both, `TablesOK`. What a test leaves behind is
arbitrary there but for the numbers: nobody has a larger number of a test of k than k
itself, and no verdict is noted for a test that has not begun. That is enough to
begin the next test (`NothingRuns`), since each node that a test reaches for the
first time is fresh by its number, whatever its count and its parent are. The
lemmas about a test are therefore stated for one step, `SoundChainsStep`
and `KnotChainsStep` among them, with the waits fixed in that step and
not for good, and the facts about the verdict (`LastIsSound`, `OpenVerdict`,
`KnotTestGoesOn`) for one state. They apply to `Cmh` as they are
(`TestGoesOn`). What remains is that no step of `Permission` can be taken by a
test, except to send its message on (`TestsOnly`), and none of `Detection` by a
change (`ChangesOnly`).

### Permission

`Permission_proofs`, for any ring and any set of waits:

- `PermissionTypes`, for any number of requests at once. `Stacks` says that a
  wait is alone on its stack or below the request it sent, and that any other
  stack consists of set_active calls and grants.
- `WaitersAreRegistered` and `SetActiveWakesEverybody`, assuming `OneRequest`:
  no two requests overlap, as in the run and with `control.sh`. Without it
  WaiterRegistered is false.

Neither is inductive: between requests waiters are registered only because each
was, or was about to be, all along. `WaitersKnown` therefore says of every state:
whoever waits is in the queue of the node it waits for, unless the executing
frame is about to decide (`Registered`, `Decides`: a request or a grant on its
way, or a positive reply); and whoever waits for the node of a set_active that
sends its grants is in the copy of the queue that this set_active goes through,
however deep the frame is in the stack, unless its grant is on the way
(`Copied`). The last one is why EndSetActive may clear the queue: new waiters
cannot have come, and those that a nested set_active of the same node has granted
do not wait any longer.

### Resources

`Resources_proofs` proves for any ring, any owners, any number of requests at
once, also of one node, and queues of any length:

- `ResourcesTypeCorrect`, `MutualExclusionHolds`, `UserIsAccountedHolds` and
  `FreeHasNoQueueHolds`: `ResourcesSpec => []P` for the type invariant and the
  three safety properties of the run `resources`.
- `LockIsRefined`: `ResourcesSpec => LockRefined`.

None of the first three is inductive: a grant is given by the owner in one step
and taken up by the user several steps later, in another frame of another node.
`ResourcesInv` therefore says where the right to use a resource is. `Token(t, n,
r)` is the executing frame of request t carrying it: an acquire that has been
granted, a granted message to n, a release that n has begun or sent. `OneToken`
says that the node the owner notes as the user uses the resource or is named by a
token, that a node with either is the noted one, that no node has both, and that
no two requests carry a token of one resource. `Shapes` gives the frames that a
stack can consist of, so that a reply finds the acquire that waits for it and a
return uncovers no second token. `UsersOwned` says that a resource with a user
has an owner, to whom a release can be addressed. Each step then leaves the token
where it is (`KeepsToken`) or makes, uses, takes back or passes on one
(`GrantsToken`, `UsesToken`, `TakesToken`, `PassesToken`).

For `LockIsRefined` each step is mapped to a step of `ResourceLock` or to a
stutter. What the lock calls asking is a function of the stack of a request
(`AskedBy`); its backlog is the number of places of a node in the queue of the
owner and of granted messages on their way to it (`BacklogIsCounted`), so that a
grant that leaves the queue changes neither, and two messages for one node count
twice. That a served resource has no user is `MutualExclusion` together with the
token.

### Requests on a ring that changes

`RingResources` and `RingWaits` take over the steps of `Ring`. What these do to a
stack of calls is therefore proved once, in the first part of `Ring_proofs`, for
any set of frames that is closed under what messages and repairs make of a frame
(`FrameSet`). `RingFrame`, and the frames of either module, are such sets.
`Forms` says what a stack of handlers looks like (`StackForm`): which function
called which, that each frame but the last awaits a reply (`Awaits`), and how many
nodes await each message (`FrameForm`). `FormOfCut` and `FormOfPrefix` say that a
stack keeps its form when it is cut back anywhere, `FormOfCall` when it grows. From
these each action of `Ring` keeps the form (`Kept`), and so do the crash of a node
under any number of requests (`KillKeeps`) and a deadline (`GiveUpKeeps`,
`MessageUnansweredKeeps`). No neighbors need agree for that, and any number of
nodes may be slow or stop at once, with every choice of the constants of `Ring`.
The first result is `RingTypes`: `RingSpec => []RingTypeOK`.

**Resources.** `RingResources_proofs` proves `RingResourcesTypes` and
`UsersAreNoted`: `AnyRingSpec => []P` for the type invariant and the safety
property of the run `ring_resources`, for any number of requests at once. `AnyRing`
is any state of the ring between requests, whole or not (neighbors, running nodes
and connections are any), in which all resources are free; the formed ring of the
run is one of them. The steps are those of the run, `ReviveNext`.

UserIsNoted says that what a node uses is noted for it at the owner, never more:
the converse is false, since a grant may be lost. It is not inductive, because
the owner notes the user several steps before the user knows, and because a crash
or a deadline cuts a chain of calls at any height, whereupon a caller that was
waiting goes on. The invariant `RRInv` consists of `Forms`, UserIsNoted itself,
the types of the resources, and `OneToken`: the right to use a resource is carried
by at most one request, as a frame that is about to grant, use or give back
(`IsToken`), only while the owner notes its `Holder`, and not while that node uses
the resource. A frame that a cut uncovers awaits a reply and is no token
(`AwaitsNoToken`), so that failures can lose a token and never make one: every
action of `Ring` only lets tokens fade (`TokenFades`, `TokensFade`). The actions
of the resources that make, use or take back a token have a lemma each
(`TokenStep` and those after it).

**Waits.** `RingWaits_proofs` proves `AnyWaitsSpec => []P` for both invariants of
the run `ring_waits`. `AnyWaits` is any state between requests in which no node
keeps an open connection to one that is down: neighbors, waits and queues are any,
so the rings are whole or not, and the formed ring of the run is one of them.

- `RingWaitsTypes`, for any number of requests at once.
- `MissingIsAlwaysForgotten`, assuming `OneAtATime`: one request at a time, and
  nodes stop between requests. With a second request a node may start to wait
  for the missing one after missing_node has passed it; and the invariant speaks of
  the nodes that run, which must not change under a request.

MissingIsForgotten speaks of the moment at which missing_node is back at the node
that sent it, about a ring that it went round step by step. Nothing like `RingInv`
holds on the way: a slow node is expelled while it runs, and so is the node behind
which a grant to a node that has left goes round until its deadline. After that
neighbors need not agree. So the invariant `WaitsInv` says nothing of neighbors but where
missing_node has been. `WentPast(d, n, o)`: there is a set of nodes, n among them,
of which nobody depends on d, and whose next nodes are in the set too or are o.
While missing_node goes from n to o (`GoesPast`), the node that it leaves joins the
set; the one assignment to `next` in a repair, at the node before the missing
one, leads to the node to which missing_node goes next. `Forgot` says the same of
the two steps between, in which the node has forgotten the missing one and has
not gone on yet. When o is n, the set is
closed under `next` and contains `RingOf` the sender. That the nodes which handle
a message run, that a node found missing is the next node of one that sends to
it or runs (`TopOK`), and that a connection is open only to a node that runs, is
what the other steps need. TLC has checked `WaitsInv` on the instance of the run.

MissingIsForgotten is about a missing_node that has come round. When neighbors
do not agree, which takes four nodes one of which has been expelled, a repair may
panic on its way (`Relink`): then it never comes round, and not every node is
told.

### Ring

`Ring_proofs` proves for rings of any finite size, after any series of joins,
leaves, crashes, repairs and revivals, that the neighbors agree between requests
(`NeighborsAgree`), that a repair heals the ring (`RepairsHeal`) and that it takes
out nobody who runs (`OnlyDownIsTakenOut`). All of them, and the theorems about the
order below, are under `OneRequest`, the instance of the run `ring` for any finite
set of nodes. The code ensures none of its parts; each is needed:

| Part of `OneRequest` | Without it |
|---|---|
| one request at a time | two joins at one node lose a node |
| `MaxDown <= 1` | nnext may be down too, and the repair panics |
| `KillBetween` | a node that is stopped under its own request cannot repair the ring |
| not `ChangeWhileDown` | a leave next to a node that is down panics half way |
| not `StrayConnections`: a node is not revived while a closed connection to it is kept that the repair would not delete | the closed connection is taken for a node that is down (`ring_reconnect`) |
| not `Rejoin` | a node that joins another ring cuts off the nodes of its own |
| `Slow = {}` | a slow node, or the one behind which it is, is expelled |
| finitely many nodes | a message need not come back to its sender |

A join sets six fields of four nodes, a leave and a repair as many, one call
after another, so no invariant can say that the neighbors agree while a request
is under way. `RingInv` says instead what they will be. `After(info, todo)` are
the neighbors when all that a handler has still to set has been set, and in each
phase of a request (`Querying`, `Joining`, `JoinedBy`, `Leaving`, `LeftBy`,
`Repairing`) these, with what the next steps add, are `Proper`: the neighbors of
all nodes that run agree. That a whole join, leave or repair leads from proper
rings to proper rings is a fact about neighbors alone (`JoinIsProper`,
`LeaveIsProper` with the three branches of leave_topology, `RepairIsProper`);
that a handler gets through all its calls is the other half, for which the
phases say that the nodes it calls run (`Addressed`) and which connections may be
closed. Within missing_node, what `EnterMissing` and `ForgetMissing` have read is
still true when `Unlink` writes: no other request can have changed it, which is
where `ring_crash` goes further. TLC has checked `RingInv`, and `Ordered` below, on
the instance of the run `ring` with three nodes.

Connections are what makes the repair delicate. Any node may be killed, and
anybody may keep a closed connection to it, but between requests none leads to a
node that runs (`Sound`, `Unnoticed`). A node that comes back to a ring that has
not missed it finds closed connections to it, and what `StrayConnections` leaves
are those of the ring (`WillForget`). `missing_node` deletes one at each node that
it comes to, and when it is back all must have been deleted: `ClosedTo(alive,
clients, d, Upto(info, n, z))` says that only nodes that missing_node has yet to
come to, from n on and before it is at z again, keep one;
`Upto` shrinks by the node that is left behind (`UptoNext`). It starts as the ring
without the missing node (`UptoOfRing`). For this the message must come to the
node before the missing one, and to everyone: in a finite ring whose neighbors
agree it does (`ComesBack`: next is an injection of the nodes that a message
comes to into themselves, so it is onto, and they are closed under prev).

A repair is also what a join of a revived node starts if its ring has not missed
it; then the node that is taken out runs, and only waits to be inserted. This is
why OnlyDownIsMissed is about the repairs that a failed message starts, and why
`Remembers` is part of `RingInv`: a node that is down is on its own or has another
one before it, whom revive asks.

Each action of `RingStep` has a lemma that ends in `Steady`, the phase in which
it leaves the request.

### Ring order and clock

`OrderIsRefined` in `Ring_proofs` proves that `Ring` implements `OrderSpec`, under
`OneRequest`. Of all steps only two change the order: the `next` of the node
before is set to the next node of the one that leaves (`set_neighbor` of a leave)
or of the one that is missing (`missing_node` at its prev), which takes a node
out; and `InsertNext` of a join, which brings one in. All other assignments,
those to `prev` and `nnext` among them, leave it. The argument has three parts:

- What the order is. `OrderBy(P, g)` is g on the nodes of P, which are not gone, and
  on their next nodes, and each other node on its own. If g leads from a set A
  into A, and each member of A that is not in P is the next of a member of P, or
  its own, then the order is g on A (`OrderOfCircle`). So one node of a ring may
  go, or be there again, and the order does not change (`OrderWithout`). That g is
  a circle on A (`Circle`) is not given by this definition: it is what
  `ProperCircles` has to find in what `RingInv` says of neighbors.
- How it changes: `TakenOut`, `BroughtIn` and `LeftAlone` compare the orders before
  and after for the three kinds of steps.
- Where it changes. `RingInv` knows what the neighbors will be once a handler is
  through, not which of them is set first. `Ordered` adds that: a join has set all
  next nodes before it tells others of theirs, a leave has still to set one, and
  while it has, the nodes that run are a circle.

What implements `OrderSpec` consists of circles (`OrderAlwaysCircles`), since to
insert a node and to take one out are both an exchange of the next nodes of two
nodes (`Exchanged`). With `OrderIsRefined` that gives `RingAlwaysCircles`: at each
moment of a request, half-way through a join or a repair too, no two nodes send to
the same node and every node is sent to.
With two requests at once `OrderRefined` is checked in `ring_crash`.

`LamportClock_proofs` proves for any ring and times without bound:

- `ClockTypeCorrect` and `TimesGrowHolds`, for any number of requests at once.
  The invariant is `ClockInv`: along each stack, the time of a frame that awaits
  a reply is at most the clock of its node, and is exceeded by every frame above
  it once that has received the message (`Chain`). Clocks only grow, so what
  other requests do to a clock cannot break a chain.
- `TimesAreNew`, for any number of requests too: `SentInv` adds that no clock is
  behind the last time that its node sent, and that it is ahead of what the node
  had sent when `increment_lamport` added its tick. Two calls that overlap may
  both add before both read, and then two messages do carry one time.

### Assumptions, and what is only model-checked

The assumptions are those the modules name: `RingAssumption` (Succ is one closed
ring; `EachHasPrevious` derives from it that a query for an unowned resource has
an end), `DetectionAssumption`, `PermissionAssumption`, `ResourcesAssumption` and
`RingResourcesAssumption` (the constants have their types, NoNode is no node),
and `ClockBound` (`MaxTime` is a natural number); and those of the table, which
are hypotheses of the theorems. Each of these holds in the instance of the component's run.

Only model-checked:

- every liveness property (TestsEnd, CallsReturn, RequestsReturn and the like),
  which is beyond the prover;
- LastingKnotIsDeclared and NoCountUnderflow while waits change under a test
  (`cmh_overlap`): the graph that a proof would follow along the chain moves
  under it;
- RingAgrees, RepairHeals and OrderRefined when nodes stop under two requests
  (`ring_crash`), where two repairs of one node overlap and no node can be named
  whose fields are the ones still to be set.

## Not modelled

The limit of ten connections that a server handles (`buffer_unordered(10)`),
which rings of three or four nodes do not meet; the lock that `get_client` holds
while it connects; `blocked_processes` (written, never read) and, in
`RingResources`, `waiting_for` (read only by `print_status`); a `message_delay`
that changes while a message is under way (`/delay` is the constant `Slow`);
`/health`, `/status`, logging; requests to the REST server of a node whose RPC
server is down, other than revive; crashes during a join or a leave; tests
(`start_detection`) on a ring that changes. A crash loses no memory: `kill` stops
the RPC server and nothing else.

## Plan

Done: all modules above and the proofs above.

Left:

1. Proofs: the ring when a node stops under two requests (`ring_crash`); which
   knots a test finds while waits change under it.
2. Tests on a ring that changes: `Detection` on `Ring`, where a probe or an
   answer is lost or expels a node.
3. The limit of connections, as a bound on the joins at one node.
