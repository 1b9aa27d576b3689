------------------------------ MODULE Detection ------------------------------
(***************************************************************************)
(* Deadlock detection by probes, src/node_base/cmh_funcs.rs: the functions *)
(* start_detection, handle_probe and handle_probe_answer of every node and *)
(* the part of handle_cmh_message that delivers their messages.            *)
(*                                                                         *)
(* A step is a stretch of code in which the node takes its locks once: two *)
(* requests on one node interleave wherever the code releases a lock it    *)
(* relies on later.  Who waits for whom (isActive, waitingFrom) is only    *)
(* read here.  Module Permission changes it.                               *)
(***************************************************************************)
EXTENDS NodeCalls, FiniteSets

CONSTANTS
  NoNode,         \* parent_nodes has no entry
  CountModulus,   \* probe_count holds u32 values, arithmetic is modulo 2^32
  Initiator,      \* bound: nodes that are asked to start a test
  MaxTest,        \* bound: tests one node may start
  OneTestAtATime  \* TRUE: a node's operator awaits the reply to a detection
                  \* before asking the same node for the next, as control.sh

ASSUME DetectionAssumption ==
  /\ NoNode \notin Node
  /\ CountModulus \in Nat \ {0}
  /\ Initiator \subseteq Node
  /\ MaxTest \in Nat
  /\ OneTestAtATime \in BOOLEAN

VARIABLES
  isActive,       \* is_active of each node
  waitingFrom,    \* waiting_messages_from of each node
  lastTest,       \* last_test[n][k]: 0 when the map has no entry for k
  waitStatus,     \* wait_status[n][k]: FALSE when it has none
  parent,         \* parent_nodes[n][k]
  probeCount,     \* probe_count[n][k]: 0 when it has none
  declared        \* <<k, m>>: node k logged DEADLOCK DETECTED in test m

waitGraph == << isActive, waitingFrom >>
probeVars == << lastTest, waitStatus, parent, probeCount >>
detectionVars == << calls, waitGraph, probeVars, declared >>

-----------------------------------------------------------------------------
(* Frames.                                                                 *)

\* start_detection running on node n.
StartFrame(n) ==
  [fn |-> "start", pc |-> "mark", at |-> n, to |-> n, k |-> n, m |-> 0,
   from |-> n, todo |-> {}, count |-> 0]

\* A message that frame f sends to node n, received by the next node first.
Message(f, kind, n) ==
  [fn |-> kind, pc |-> "hop", at |-> Succ[f.at], to |-> n, k |-> f.k,
   m |-> f.m, from |-> f.at, todo |-> {}, count |-> 0]

DetectionFrame ==
  [fn : {"start", "probe", "answer"},
   pc : {"mark", "read", "hop", "test", "engage", "again", "loop", "check",
         "countdown", "clear", "done"},
   at : Node, to : Node, k : Node, m : Nat, from : Node,
   todo : SUBSET Node, count : Nat]

-----------------------------------------------------------------------------
(* start_detection                                                         *)

\* Requests that have been admitted by node n and have not yet counted.
Unmarked(n) == {t \in Task : At(t, "start", "mark") /\ Top(t).k = n}

TestRuns(n) ==
  \E t \in Task : ~Idle(t) /\ calls[t][1].fn = "start" /\ calls[t][1].k = n

\* A passive node accepts the request, an active one refuses it.
StartDetection(t, n) ==
  /\ Idle(t)
  /\ ~isActive[n]
  /\ lastTest[n][n] + Cardinality(Unmarked(n)) < MaxTest
  /\ OneTestAtATime => ~TestRuns(n)
  /\ Begin(t, StartFrame(n))
  /\ UNCHANGED << waitGraph, probeVars, declared >>

\* Variant for a check: the node does not mark itself as waiting for answers.
MarkTestWithoutWait(t) ==
  /\ At(t, "start", "mark")
  /\ LET n == Top(t).at IN
       lastTest' = [lastTest EXCEPT ![n][n] = @ + 1]
  /\ Goto(t, [Top(t) EXCEPT !.pc = "read"])
  /\ UNCHANGED << waitGraph, waitStatus, parent, probeCount, declared >>

\* Variant for a check: the number is stored, not incremented.
MarkTestSameNumber(t) ==
  /\ At(t, "start", "mark")
  /\ LET n == Top(t).at IN
       /\ lastTest' = [lastTest EXCEPT ![n][n] = 1]
       /\ waitStatus' = [waitStatus EXCEPT ![n][n] = TRUE]
  /\ Goto(t, [Top(t) EXCEPT !.pc = "read"])
  /\ UNCHANGED << waitGraph, parent, probeCount, declared >>

MarkTest(t) ==
  /\ At(t, "start", "mark")
  /\ LET n == Top(t).at IN
       /\ lastTest' = [lastTest EXCEPT ![n][n] = @ + 1]
       /\ waitStatus' = [waitStatus EXCEPT ![n][n] = TRUE]
  /\ Goto(t, [Top(t) EXCEPT !.pc = "read"])
  /\ UNCHANGED << waitGraph, parent, probeCount, declared >>

\* The number of the test is read again after the lock was released.
ReadTest(t) ==
  /\ At(t, "start", "read")
  /\ LET n == Top(t).at IN
       Goto(t, [Top(t) EXCEPT !.pc = "loop", !.m = lastTest[n][n],
                              !.todo = waitingFrom[n]])
  /\ UNCHANGED << waitGraph, probeVars, declared >>

-----------------------------------------------------------------------------
(* The loop that probes each node waited for, in the order of a HashSet.   *)

\* Variant for a check: probe_count is stored only after the last reply.
SendProbeUncounted(t, n) ==
  /\ At(t, "start", "loop") \/ At(t, "probe", "loop")
  /\ n \in Top(t).todo
  /\ LET f == [Top(t) EXCEPT !.todo = @ \ {n}, !.count = @ + 1] IN
       Call(t, f, Message(f, "probe", n))
  /\ UNCHANGED << waitGraph, probeVars, declared >>

\* Variant for a check: the probes are counted by the waits, as they are now,
\* less those that remain to be probed.
SendProbeCountsWaits(t, n) ==
  /\ At(t, "start", "loop") \/ At(t, "probe", "loop")
  /\ n \in Top(t).todo
  /\ LET f == [Top(t) EXCEPT !.todo = @ \ {n}, !.count = @ + 1] IN
       /\ probeCount' =
            [probeCount EXCEPT ![f.at][f.k] =
               (Cardinality(waitingFrom[f.at]) - Cardinality(f.todo)) % CountModulus]
       /\ Call(t, f, Message(f, "probe", n))
  /\ UNCHANGED << waitGraph, lastTest, waitStatus, parent, declared >>

\* Variant for a check: a probed node stays in the list of nodes to probe.
SendProbeRepeated(t, n) ==
  /\ At(t, "start", "loop") \/ At(t, "probe", "loop")
  /\ n \in Top(t).todo
  /\ LET f == Top(t) IN
       /\ probeCount' = [probeCount EXCEPT ![f.at][f.k] = 1]
       /\ Call(t, f, Message(f, "probe", n))
  /\ UNCHANGED << waitGraph, lastTest, waitStatus, parent, declared >>

\* Variant for a check: one probe_count per node, not one per initiator.
SendProbeSharedCount(t, n) ==
  /\ At(t, "start", "loop") \/ At(t, "probe", "loop")
  /\ n \in Top(t).todo
  /\ LET f == [Top(t) EXCEPT !.todo = @ \ {n}, !.count = @ + 1] IN
       /\ probeCount' = [probeCount EXCEPT
                            ![f.at] = [k \in Node |-> f.count % CountModulus]]
       /\ Call(t, f, Message(f, "probe", n))
  /\ UNCHANGED << waitGraph, lastTest, waitStatus, parent, declared >>

SendProbe(t, n) ==
  /\ At(t, "start", "loop") \/ At(t, "probe", "loop")
  /\ n \in Top(t).todo
  /\ LET f == [Top(t) EXCEPT !.todo = @ \ {n}, !.count = @ + 1] IN
       /\ probeCount' =
            [probeCount EXCEPT ![f.at][f.k] = f.count % CountModulus]
       /\ Call(t, f, Message(f, "probe", n))
  /\ UNCHANGED << waitGraph, lastTest, waitStatus, parent, declared >>

EndStart(t) ==
  /\ At(t, "start", "loop")
  /\ Top(t).todo = {}
  /\ Return(t)
  /\ UNCHANGED << waitGraph, probeVars, declared >>

\* handle_probe stores the number of probes once more after the last reply.
EndProbe(t) ==
  /\ At(t, "probe", "loop")
  /\ Top(t).todo = {}
  /\ LET f == Top(t) IN
       probeCount' =
         [probeCount EXCEPT ![f.at][f.k] = f.count % CountModulus]
  /\ Return(t)
  /\ UNCHANGED << waitGraph, lastTest, waitStatus, parent, declared >>

-----------------------------------------------------------------------------
(* handle_probe                                                            *)

\* An active node ignores the probe.
ReceiveProbe(t) ==
  /\ Received(t, "probe")
  /\ IF isActive[Top(t).at]
       THEN Return(t)
       ELSE Goto(t, [Top(t) EXCEPT !.pc = "test"])
  /\ UNCHANGED << waitGraph, probeVars, declared >>

\* The probe is of a newer test than the node knows, of the same, or older.
TestProbe(t) ==
  /\ At(t, "probe", "test")
  /\ LET f == Top(t)
         known == lastTest[f.at][f.k]
     IN  \/ f.m > known /\ Goto(t, [f EXCEPT !.pc = "engage"])
         \/ f.m = known /\ Goto(t, [f EXCEPT !.pc = "again"])
         \/ f.m < known /\ Return(t)
  /\ UNCHANGED << waitGraph, probeVars, declared >>

\* Variant for a check: a node that waits for nobody answers its prober.
EngageAndAnswer(t) ==
  /\ At(t, "probe", "engage")
  /\ LET f == Top(t) IN
       /\ lastTest' = [lastTest EXCEPT ![f.at][f.k] = f.m]
       /\ waitStatus' = [waitStatus EXCEPT ![f.at][f.k] = TRUE]
       /\ parent' = [parent EXCEPT ![f.at][f.k] = f.from]
       /\ IF waitingFrom[f.at] = {}
            THEN Goto(t, [f EXCEPT !.pc = "again"])
            ELSE Goto(t, [f EXCEPT !.pc = "loop", !.todo = waitingFrom[f.at]])
  /\ UNCHANGED << waitGraph, probeCount, declared >>

\* Variant for a check: one parent per node, not one per initiator.
EngageSharedParent(t) ==
  /\ At(t, "probe", "engage")
  /\ LET f == Top(t) IN
       /\ lastTest' = [lastTest EXCEPT ![f.at][f.k] = f.m]
       /\ waitStatus' = [waitStatus EXCEPT ![f.at][f.k] = TRUE]
       /\ parent' = [parent EXCEPT ![f.at] = [k \in Node |-> f.from]]
       /\ Goto(t, [f EXCEPT !.pc = "loop", !.todo = waitingFrom[f.at]])
  /\ UNCHANGED << waitGraph, probeCount, declared >>

Engage(t) ==
  /\ At(t, "probe", "engage")
  /\ LET f == Top(t) IN
       /\ lastTest' = [lastTest EXCEPT ![f.at][f.k] = f.m]
       /\ waitStatus' = [waitStatus EXCEPT ![f.at][f.k] = TRUE]
       /\ parent' = [parent EXCEPT ![f.at][f.k] = f.from]
       /\ Goto(t, [f EXCEPT !.pc = "loop", !.todo = waitingFrom[f.at]])
  /\ UNCHANGED << waitGraph, probeCount, declared >>

\* Variant for a check: the answer goes to the parent, not to the prober.
AnswerParentAgain(t) ==
  /\ At(t, "probe", "again")
  /\ LET f == Top(t) IN
       IF waitStatus[f.at][f.k]
         THEN Call(t, [f EXCEPT !.pc = "done"],
                   Message(f, "answer", parent[f.at][f.k]))
         ELSE Return(t)
  /\ UNCHANGED << waitGraph, probeVars, declared >>

\* A node that already takes part in the test answers the prober at once.
AnswerAgain(t) ==
  /\ At(t, "probe", "again")
  /\ LET f == Top(t) IN
       IF waitStatus[f.at][f.k]
         THEN Call(t, [f EXCEPT !.pc = "done"], Message(f, "answer", f.from))
         ELSE Return(t)
  /\ UNCHANGED << waitGraph, probeVars, declared >>

EndAgain(t) ==
  /\ At(t, "probe", "done")
  /\ Return(t)
  /\ UNCHANGED << waitGraph, probeVars, declared >>

-----------------------------------------------------------------------------
(* handle_probe_answer                                                     *)

ReceiveAnswer(t) ==
  /\ Received(t, "answer")
  /\ IF isActive[Top(t).at]
       THEN Return(t)
       ELSE Goto(t, [Top(t) EXCEPT !.pc = "check"])
  /\ UNCHANGED << waitGraph, probeVars, declared >>

\* Answers of another test, or to a node that has answered, are dropped.
CheckAnswer(t) ==
  /\ At(t, "answer", "check")
  /\ LET f == Top(t) IN
       IF f.m = lastTest[f.at][f.k] /\ waitStatus[f.at][f.k]
         THEN Goto(t, [f EXCEPT !.pc = "countdown"])
         ELSE Return(t)
  /\ UNCHANGED << waitGraph, probeVars, declared >>

\* *n -= 1 on a u32, as the release build computes it.
Decremented(c) == (c + CountModulus - 1) % CountModulus

\* The answer that t handles is the last that the node waits for.
LastAnswer(t) ==
  /\ At(t, "answer", "countdown")
  /\ Decremented(probeCount[Top(t).at][Top(t).k]) = 0

\* The initiator logs DEADLOCK DETECTED when its count is zero, another node
\* answers its own prober.
CountDown(t) ==
  /\ At(t, "answer", "countdown")
  /\ LET f == Top(t)
         p == parent[f.at][f.k]
         resolved == [f EXCEPT !.pc = "clear"]
     IN  /\ probeCount' = [probeCount EXCEPT ![f.at][f.k] = Decremented(@)]
         /\ declared' = IF LastAnswer(t) /\ f.k = f.at
                          THEN declared \cup {<< f.k, f.m >>} ELSE declared
         /\ IF ~LastAnswer(t) THEN Return(t)
            ELSE IF f.k # f.at /\ p # NoNode
                   THEN Call(t, resolved, Message(f, "answer", p))
                   ELSE Goto(t, resolved)
  /\ UNCHANGED << waitGraph, lastTest, waitStatus, parent >>

\* wait_status is cleared only after the answer to the parent has returned.
ClearWait(t) ==
  /\ At(t, "answer", "clear")
  /\ LET f == Top(t) IN
       waitStatus' = [waitStatus EXCEPT ![f.at][f.k] = FALSE]
  /\ Return(t)
  /\ UNCHANGED << waitGraph, lastTest, parent, probeCount, declared >>

-----------------------------------------------------------------------------
(* The specification.                                                      *)

ForwardMessage(t) ==
  Forward(t) /\ UNCHANGED << waitGraph, probeVars, declared >>

\* One step of a request in progress.
RequestStep(t) ==
  \/ MarkTest(t) \/ ReadTest(t)
  \/ \E n \in Node : SendProbe(t, n)
  \/ EndStart(t) \/ EndProbe(t)
  \/ ReceiveProbe(t) \/ TestProbe(t) \/ Engage(t)
  \/ AnswerAgain(t) \/ EndAgain(t)
  \/ ReceiveAnswer(t) \/ CheckAnswer(t) \/ CountDown(t) \/ ClearWait(t)
  \/ ForwardMessage(t)

\* No node has taken part in a test.  The nodes wait for each other in any
\* way: waits and setPassive requests can build every such graph.
DetectionInit ==
  /\ calls = [t \in Task |-> << >>]
  /\ isActive \in [Node -> BOOLEAN]
  /\ waitingFrom \in [Node -> SUBSET Node]
  /\ lastTest = [n \in Node |-> [k \in Node |-> 0]]
  /\ waitStatus = [n \in Node |-> [k \in Node |-> FALSE]]
  /\ parent = [n \in Node |-> [k \in Node |-> NoNode]]
  /\ probeCount = [n \in Node |-> [k \in Node |-> 0]]
  /\ declared = {}

DetectionNext ==
  \E t \in Task :
    \/ \E n \in Initiator : StartDetection(t, n)
    \/ RequestStep(t)

DetectionSpec == DetectionInit /\ [][DetectionNext]_detectionVars

\* tokio polls a task that can run: an accepted request takes its next step.
Fairness == \A t \in Task : WF_detectionVars(RequestStep(t))

-----------------------------------------------------------------------------
(* What detection promises.                                                *)

\* The operator has started test m of node k and has the reply.
Finished(k, m) == m \in 1 .. lastTest[k][k] /\ ~TestRuns(k)

\* Node k waits on a cycle, or on the way to one: it belongs to a set of
\* passive nodes each of which waits for a member of the set.  A node leaves
\* a wait when all its grants have arrived, and none of these ever does.
CycleDeadlocked(k) ==
  \E S \in SUBSET Node :
    /\ k \in S
    /\ \A n \in S : ~isActive[n] /\ waitingFrom[n] \cap S # {}

\* Node k is in a knot: no node that it waits for, directly or through other
\* nodes, is active or waits for nobody.
KnotDeadlocked(k) ==
  \E S \in SUBSET Node :
    /\ k \in S
    /\ \A n \in S :
         ~isActive[n] /\ waitingFrom[n] # {} /\ waitingFrom[n] \subseteq S

\* Type invariant.
DetectionTypeOK ==
  /\ calls \in [Task -> Seq(DetectionFrame)]
  /\ isActive \in [Node -> BOOLEAN]
  /\ waitingFrom \in [Node -> SUBSET Node]
  /\ lastTest \in [Node -> [Node -> Nat]]
  /\ waitStatus \in [Node -> [Node -> BOOLEAN]]
  /\ parent \in [Node -> [Node -> Node \cup {NoNode}]]
  /\ probeCount \in [Node -> [Node -> 0 .. CountModulus - 1]]
  /\ declared \in SUBSET (Node \X Nat)

\* No false alarm: a node that logs DEADLOCK DETECTED waits on or towards a
\* cycle of passive nodes (handle_probe answers only when the node already
\* takes part in the same test).
DeclaredIsDeadlock == \A d \in declared : CycleDeadlocked(d[1])

\* No missed knot: every finished test of a node in a knot has logged the
\* deadlock, whatever the order in which the nodes probe the nodes they wait
\* for and although they overwrite probe_count while answers come in.
KnotIsDeclared ==
  \A k \in Node : \A m \in 1 .. lastTest[k][k] :
    Finished(k, m) /\ KnotDeadlocked(k) => << k, m >> \in declared

\* The u32 in probe_count does not wrap: an answer that handle_probe_answer
\* has accepted finds a count of at least one.
NoCountUnderflow ==
  \A t \in Task :
    At(t, "answer", "countdown") => probeCount[Top(t).at][Top(t).k] >= 1

\* Nodes other than k that take part in the current test of k.
Engaged(k) ==
  {n \in Node \ {k} : lastTest[k][k] > 0 /\ lastTest[n][k] = lastTest[k][k]}

\* The nodes that take part in a test of k form a tree rooted at k, along
\* which the answers travel: each parent waits for its child and takes part
\* itself, and following parents never runs in a circle.
ProbeTree ==
  \A k \in Node :
    /\ \A n \in Engaged(k) :
         /\ parent[n][k] \in Engaged(k) \cup {k}
         /\ n \in waitingFrom[parent[n][k]]
    /\ \A S \in SUBSET Engaged(k) :
         S # {} => \E n \in S : parent[n][k] \notin S

\* A test has one verdict: no answer makes a node log DEADLOCK DETECTED again
\* in a test in which it has logged it.
OneVerdictPerTest ==
  \A t \in Task :
    LastAnswer(t) /\ Top(t).k = Top(t).at
      => << Top(t).k, Top(t).m >> \notin declared

\* Every call of a test returns: probing stops although the waits are cyclic.
TestsEnd == \A t \in Task : ~Idle(t) ~> Idle(t)
=============================================================================
