-------------------------- MODULE Detection_proofs --------------------------
(***************************************************************************)
(* Theorems about Detection, for every ring, every wait graph, any number  *)
(* of requests at the same time and any number of tests: the types, the    *)
(* numbers of tests, what a test in progress is, and its verdict.          *)
(*                                                                         *)
(* The handlers of a test form a chain.  The REST handler and the handlers *)
(* of probes come first, each called by the one before it; the last of     *)
(* them may answer its prober, and from there the handlers of answers go   *)
(* back along the chain, the first one on the node of the handler before   *)
(* the last, the next one on the node before that.  It follows that no     *)
(* count of a test underflows and that the nodes that take part in it form *)
(* a tree.                                                                 *)
(*                                                                         *)
(* The verdicts follow from what the chain is between the probes that have *)
(* been sent and the answers that are on their way back: a test has one, a *)
(* verdict is no false alarm, and no knot is missed.                       *)
(*                                                                         *)
(* The last part is about Cmh, where the waits change between the tests:   *)
(* it builds on what the first part proves of the tests themselves.        *)
(***************************************************************************)
EXTENDS Cmh, Calls_proofs, FiniteSetTheorems

-----------------------------------------------------------------------------
(* Type correctness.                                                       *)

\* A message that a frame sends is a frame.
LEMMA MessageIsFrame ==
  ASSUME NEW f \in DetectionFrame, NEW n \in Node,
         NEW kind \in {"probe", "answer"}
  PROVE  Message(f, kind, n) \in DetectionFrame
BY RingAssumption DEF Message, DetectionFrame

\* A frame that has moved on is a frame.
LEMMA MovedIsFrame ==
  ASSUME NEW f \in DetectionFrame,
         NEW pc \in {"mark", "read", "hop", "test", "engage", "again", "loop",
                     "check", "countdown", "clear", "done"}
  PROVE  [f EXCEPT !.pc = pc] \in DetectionFrame
BY DEF DetectionFrame

\* So is a frame that starts to probe, and one that has sent a probe.
LEMMA LoopIsFrame ==
  ASSUME NEW f \in DetectionFrame, NEW m \in Nat, NEW todo \in SUBSET Node,
         NEW count \in Nat
  PROVE  /\ [f EXCEPT !.pc = "loop", !.todo = todo] \in DetectionFrame
         /\ [f EXCEPT !.pc = "loop", !.m = m, !.todo = todo] \in DetectionFrame
         /\ [f EXCEPT !.todo = todo, !.count = count] \in DetectionFrame
BY DEF DetectionFrame

\* Storing one entry of a table that has an entry for each node and initiator.
LEMMA TableUpdate ==
  ASSUME NEW V, NEW table \in [Node -> [Node -> V]],
         NEW n \in Node, NEW k \in Node, NEW v \in V
  PROVE  [table EXCEPT ![n][k] = v] \in [Node -> [Node -> V]]
OBVIOUS

\* u32 arithmetic stays in range.
LEMMA CountInRange ==
  ASSUME NEW c \in Nat
  PROVE  /\ c % CountModulus \in 0 .. CountModulus - 1
         /\ Decremented(c) \in 0 .. CountModulus - 1
BY DetectionAssumption DEF Decremented

\* The initial states are well typed.
LEMMA DetectionInitType == DetectionInit => DetectionTypeOK
BY DetectionAssumption DEF DetectionInit, DetectionTypeOK

\* Every step of a request and every new request preserves the types.
LEMMA DetectionTypeStep ==
  DetectionTypeOK /\ [DetectionNext]_detectionVars => DetectionTypeOK'
<1> SUFFICES ASSUME DetectionTypeOK, [DetectionNext]_detectionVars
             PROVE  DetectionTypeOK'
  OBVIOUS
<1> USE DEF waitGraph, probeVars
<1>a. calls \in [Task -> Seq(DetectionFrame)]
  BY DEF DetectionTypeOK
<1>b. waitingFrom \in [Node -> SUBSET Node]
  BY DEF DetectionTypeOK
<1>c. lastTest \in [Node -> [Node -> Nat]]
  BY DEF DetectionTypeOK
<1>d. waitStatus \in [Node -> [Node -> BOOLEAN]]
  BY DEF DetectionTypeOK
<1>e. parent \in [Node -> [Node -> Node \cup {NoNode}]]
  BY DEF DetectionTypeOK
<1>f. probeCount \in [Node -> [Node -> 0 .. CountModulus - 1]]
  BY DEF DetectionTypeOK
<1>g. declared \in SUBSET (Node \X Nat)
  BY DEF DetectionTypeOK
<1>1. CASE UNCHANGED detectionVars
  BY <1>1 DEF detectionVars, DetectionTypeOK
<1>2. ASSUME NEW t \in Task, NEW n \in Initiator, StartDetection(t, n)
      PROVE  DetectionTypeOK'
  <2>1. StartFrame(n) \in DetectionFrame
    BY DetectionAssumption DEF StartFrame, DetectionFrame
  <2>2. calls' \in [Task -> Seq(DetectionFrame)]
    BY <1>a, <1>2, <2>1, BeginEffect DEF StartDetection
  <2>3. QED
    BY <1>2, <2>2 DEF StartDetection, DetectionTypeOK
<1>3. ASSUME NEW t \in Task, RequestStep(t)
      PROVE  DetectionTypeOK'
  <2> DEFINE f == Top(t)
  <2>1. ~Idle(t)
    BY <1>3 DEF RequestStep, MarkTest, ReadTest, SendProbe, EndStart, EndProbe,
         ReceiveProbe, TestProbe, Engage, AnswerAgain, EndAgain, ReceiveAnswer,
         CheckAnswer, CountDown, ClearWait, ForwardMessage, Forward, Received, At
  <2>2. f \in DetectionFrame
    BY <1>a, <2>1, TopIsFrame
  <2>3. /\ f.at \in Node /\ f.to \in Node /\ f.k \in Node /\ f.from \in Node
        /\ f.m \in Nat /\ f.count \in Nat /\ f.todo \in SUBSET Node
    BY <2>2 DEF DetectionFrame
  <2> HIDE DEF f
  <2>a. CASE MarkTest(t)
    <3>1. /\ Goto(t, [f EXCEPT !.pc = "read"])
          /\ lastTest' = [lastTest EXCEPT ![f.at][f.at] = @ + 1]
          /\ waitStatus' = [waitStatus EXCEPT ![f.at][f.at] = TRUE]
      BY <2>a DEF MarkTest, f
    <3>2. calls' \in [Task -> Seq(DetectionFrame)]
      BY <1>a, <3>1, <2>1, <2>2, MovedIsFrame, GotoEffect
    <3>3. lastTest[f.at][f.at] + 1 \in Nat
      BY <1>c, <2>3
    <3>4. /\ lastTest' \in [Node -> [Node -> Nat]]
          /\ waitStatus' \in [Node -> [Node -> BOOLEAN]]
      BY <1>c, <1>d, <3>1, <3>3, <2>3, TableUpdate
    <3>5. QED
      BY <2>a, <3>2, <3>4 DEF MarkTest, DetectionTypeOK
  <2>b. CASE ReadTest(t)
    <3> DEFINE g == [f EXCEPT !.pc = "loop", !.m = lastTest[f.at][f.at],
                              !.todo = waitingFrom[f.at]]
    <3>1. lastTest[f.at][f.at] \in Nat /\ waitingFrom[f.at] \in SUBSET Node
      BY <1>b, <1>c, <2>3
    <3>2. g \in DetectionFrame
      BY <3>1, <2>2, LoopIsFrame
    <3>3. Goto(t, g)
      BY <2>b DEF ReadTest, f
    <3> HIDE DEF g
    <3>4. calls' \in [Task -> Seq(DetectionFrame)]
      BY <1>a, <3>2, <3>3, <2>1, GotoEffect
    <3>5. QED
      BY <2>b, <3>4 DEF ReadTest, DetectionTypeOK
  <2>c. ASSUME NEW n \in Node, SendProbe(t, n)
        PROVE  DetectionTypeOK'
    <3> DEFINE g == [f EXCEPT !.todo = f.todo \ {n}, !.count = f.count + 1]
    <3>1. f.todo \ {n} \in SUBSET Node /\ f.count + 1 \in Nat
      BY <2>3
    <3>2. g \in DetectionFrame
      BY <3>1, <2>2, LoopIsFrame
    <3>3. Message(g, "probe", n) \in DetectionFrame
      BY <3>2, MessageIsFrame
    <3>4. /\ Call(t, g, Message(g, "probe", n))
          /\ probeCount' =
               [probeCount EXCEPT ![g.at][g.k] = g.count % CountModulus]
      BY <2>c DEF SendProbe, f
    <3>5. g.count \in Nat /\ g.at \in Node /\ g.k \in Node
      BY <3>2 DEF DetectionFrame
    <3> HIDE DEF g
    <3>6. calls' \in [Task -> Seq(DetectionFrame)]
      BY <1>a, <3>2, <3>3, <3>4, <2>1, CallEffect
    <3>7. probeCount' \in [Node -> [Node -> 0 .. CountModulus - 1]]
      BY <1>f, <3>4, <3>5, CountInRange, TableUpdate
    <3>8. QED
      BY <2>c, <3>6, <3>7 DEF SendProbe, DetectionTypeOK
  <2>d. CASE EndStart(t) \/ EndAgain(t)
    <3>1. calls' \in [Task -> Seq(DetectionFrame)]
      BY <1>a, <2>d, <2>1, ReturnEffect DEF EndStart, EndAgain
    <3>2. QED
      BY <2>d, <3>1 DEF EndStart, EndAgain, DetectionTypeOK
  <2>e. CASE EndProbe(t)
    <3>1. /\ Return(t)
          /\ probeCount' =
               [probeCount EXCEPT ![f.at][f.k] = f.count % CountModulus]
      BY <2>e DEF EndProbe, f
    <3>2. probeCount' \in [Node -> [Node -> 0 .. CountModulus - 1]]
      BY <1>f, <3>1, <2>3, CountInRange, TableUpdate
    <3>3. calls' \in [Task -> Seq(DetectionFrame)]
      BY <1>a, <3>1, <2>1, ReturnEffect
    <3>4. QED
      BY <2>e, <3>2, <3>3 DEF EndProbe, DetectionTypeOK
  <2>f. CASE ReceiveProbe(t) \/ ReceiveAnswer(t) \/ TestProbe(t)
             \/ CheckAnswer(t)
    <3>1. \/ Return(t)
          \/ \E pc \in {"test", "check", "engage", "again", "countdown"} :
               Goto(t, [f EXCEPT !.pc = pc])
      BY <2>f DEF ReceiveProbe, ReceiveAnswer, TestProbe, CheckAnswer, f
    <3>2. calls' \in [Task -> Seq(DetectionFrame)]
      BY <1>a, <3>1, <2>1, <2>2, MovedIsFrame, GotoEffect, ReturnEffect
    <3>3. QED
      BY <2>f, <3>2 DEF ReceiveProbe, ReceiveAnswer, TestProbe, CheckAnswer,
                        DetectionTypeOK
  <2>g. CASE Engage(t)
    <3>1. /\ lastTest' = [lastTest EXCEPT ![f.at][f.k] = f.m]
          /\ waitStatus' = [waitStatus EXCEPT ![f.at][f.k] = TRUE]
          /\ parent' = [parent EXCEPT ![f.at][f.k] = f.from]
          /\ Goto(t, [f EXCEPT !.pc = "loop", !.todo = waitingFrom[f.at]])
      BY <2>g DEF Engage, f
    <3>2. waitingFrom[f.at] \in SUBSET Node
      BY <1>b, <2>3
    <3>3. [f EXCEPT !.pc = "loop", !.todo = waitingFrom[f.at]]
            \in DetectionFrame
      BY <2>2, <3>2, LoopIsFrame
    <3>4. calls' \in [Task -> Seq(DetectionFrame)]
      BY <1>a, <3>1, <3>3, <2>1, GotoEffect
    <3>5. f.from \in Node \cup {NoNode}
      BY <2>3
    <3>6. /\ lastTest' \in [Node -> [Node -> Nat]]
          /\ waitStatus' \in [Node -> [Node -> BOOLEAN]]
          /\ parent' \in [Node -> [Node -> Node \cup {NoNode}]]
      BY <1>c, <1>d, <1>e, <3>1, <3>5, <2>3, TableUpdate
    <3>7. QED
      BY <2>g, <3>4, <3>6 DEF Engage, DetectionTypeOK
  <2>h. CASE AnswerAgain(t)
    <3>1. /\ [f EXCEPT !.pc = "done"] \in DetectionFrame
          /\ Message(f, "answer", f.from) \in DetectionFrame
      BY <2>2, <2>3, MovedIsFrame, MessageIsFrame
    <3>2. \/ Return(t)
          \/ Call(t, [f EXCEPT !.pc = "done"], Message(f, "answer", f.from))
      BY <2>h DEF AnswerAgain, f
    <3>3. calls' \in [Task -> Seq(DetectionFrame)]
      BY <1>a, <3>1, <3>2, <2>1, CallEffect, ReturnEffect
    <3>4. QED
      BY <2>h, <3>3 DEF AnswerAgain, DetectionTypeOK
  <2>i. CASE CountDown(t)
    <3> DEFINE p == parent[f.at][f.k]
               g == [f EXCEPT !.pc = "clear"]
    <3>1. g \in DetectionFrame
      BY <2>2, MovedIsFrame
    <3>2. p \in Node \cup {NoNode}
      BY <1>e, <2>3
    <3>3. p # NoNode => Message(f, "answer", p) \in DetectionFrame
      BY <3>2, <2>2, MessageIsFrame
    <3>4. /\ probeCount' = [probeCount EXCEPT
               ![f.at][f.k] = Decremented(probeCount[f.at][f.k])]
          /\ declared' = IF LastAnswer(t) /\ f.k = f.at
                           THEN declared \cup {<< f.k, f.m >>} ELSE declared
          /\ IF ~LastAnswer(t) THEN Return(t)
             ELSE IF f.k # f.at /\ p # NoNode
               THEN Call(t, g, Message(f, "answer", p)) ELSE Goto(t, g)
      BY <2>i DEF CountDown, f
    <3> HIDE DEF g, p
    <3>5. calls' \in [Task -> Seq(DetectionFrame)]
      <4>1. CASE Return(t)
        BY <1>a, <4>1, <2>1, ReturnEffect
      <4>2. CASE Goto(t, g)
        BY <1>a, <4>2, <3>1, <2>1, GotoEffect
      <4>3. CASE p # NoNode /\ Call(t, g, Message(f, "answer", p))
        BY <1>a, <4>3, <3>1, <3>3, <2>1, CallEffect
      <4>4. QED
        BY <3>4, <4>1, <4>2, <4>3, Zenon
    <3>6. probeCount' \in [Node -> [Node -> 0 .. CountModulus - 1]]
      <4>1. probeCount[f.at][f.k] \in Nat
        BY <1>f, <2>3
      <4>2. Decremented(probeCount[f.at][f.k]) \in 0 .. CountModulus - 1
        BY <4>1, CountInRange
      <4>3. QED
        BY <1>f, <3>4, <4>2, <2>3, TableUpdate
    <3>7. declared' \in SUBSET (Node \X Nat)
      <4>1. << f.k, f.m >> \in Node \X Nat
        BY <2>3
      <4>2. QED
        BY <1>g, <3>4, <4>1
    <3>8. QED
      BY <2>i, <3>5, <3>6, <3>7 DEF CountDown, DetectionTypeOK
  <2>j. CASE ClearWait(t)
    <3>1. /\ Return(t)
          /\ waitStatus' = [waitStatus EXCEPT ![f.at][f.k] = FALSE]
      BY <2>j DEF ClearWait, f
    <3>2. waitStatus' \in [Node -> [Node -> BOOLEAN]]
      BY <1>d, <3>1, <2>3, TableUpdate
    <3>3. calls' \in [Task -> Seq(DetectionFrame)]
      BY <1>a, <3>1, <2>1, ReturnEffect
    <3>4. QED
      BY <2>j, <3>2, <3>3 DEF ClearWait, DetectionTypeOK
  <2>k. CASE ForwardMessage(t)
    <3>1. Succ[f.at] \in Node
      BY <2>3, RingAssumption
    <3>2. [f EXCEPT !.at = Succ[f.at]] \in DetectionFrame
      BY <2>2, <3>1 DEF DetectionFrame
    <3>3. Goto(t, [f EXCEPT !.at = Succ[f.at]])
      BY <2>k DEF ForwardMessage, Forward, f
    <3>4. calls' \in [Task -> Seq(DetectionFrame)]
      BY <1>a, <3>2, <3>3, <2>1, GotoEffect
    <3>5. QED
      BY <2>k, <3>4 DEF ForwardMessage, DetectionTypeOK
  <2>q. QED
    BY <1>3, <2>a, <2>b, <2>c, <2>d, <2>e, <2>f, <2>g, <2>h, <2>i, <2>j, <2>k
    DEF RequestStep
<1>4. QED
  BY <1>1, <1>2, <1>3 DEF DetectionNext

\* Every reachable state is well typed: each message is addressed to a node,
\* in particular the answer to a parent, and counts stay in u32.
THEOREM DetectionTypeCorrect == DetectionSpec => []DetectionTypeOK
BY DetectionInitType, DetectionTypeStep, PTL DEF DetectionSpec

-----------------------------------------------------------------------------
(* Test numbers.  With one test of a node at a time, every message of a    *)
(* test carries the number that its initiator holds, and no node holds a   *)
(* larger one.                                                             *)

\* The REST handler of a test of node f.k, whose current number is m.
RootFrame(f, m) ==
  /\ f.fn = "start" /\ f.at = f.k
  /\ f.pc \in {"mark", "read", "loop"}
  /\ f.pc = "loop" => f.m = m

\* A handler of a message of test m of node k.
TestFrame(f, k, m) == f.fn \in {"probe", "answer"} /\ f.k = k /\ f.m = m

\* The stack of a request is one handler of a test and handlers of messages
\* of that test, where last[k][k] is the number of the current test of k.
OneTestStack(s, last) ==
  s # << >> =>
    LET k == s[1].k IN
      /\ RootFrame(s[1], last[k][k])
      /\ s[1].pc # "loop" => Len(s) = 1
      /\ \A i \in 2 .. Len(s) : TestFrame(s[i], k, last[k][k])

TestNumbers ==
  /\ \A t \in Task : OneTestStack(calls[t], lastTest)
  /\ \A t, u \in Task :
       t # u /\ ~Idle(t) /\ ~Idle(u) => calls[t][1].k # calls[u][1].k
  /\ \A n, k \in Node : lastTest[n][k] <= lastTest[k][k]

\* A stack depends on the table only through the number of its own test.
LEMMA SameNumber ==
  ASSUME NEW s, NEW last, NEW next, OneTestStack(s, last),
         s # << >> => next[s[1].k][s[1].k] = last[s[1].k][s[1].k]
  PROVE  OneTestStack(s, next)
BY DEF OneTestStack

\* What a return, a step and a call leave of a stack.
LEMMA ReturnStack ==
  ASSUME NEW s \in Seq(DetectionFrame), NEW r \in Seq(DetectionFrame),
         NEW last, OneTestStack(s, last), s # << >>,
         Len(r) = Len(s) - 1, \A i \in 1 .. Len(s) - 1 : r[i] = s[i]
  PROVE  /\ OneTestStack(r, last)
         /\ r # << >> => r[1].k = s[1].k
<1> SUFFICES ASSUME r # << >>
             PROVE  OneTestStack(r, last) /\ r[1].k = s[1].k
  BY DEF OneTestStack
<1>1. Len(r) \in Nat /\ Len(r) >= 1 /\ Len(s) = Len(r) + 1
  OBVIOUS
<1>2. r[1] = s[1] /\ \A i \in 2 .. Len(r) : i \in 2 .. Len(s) /\ r[i] = s[i]
  BY <1>1
<1>3. s[1].pc = "loop"
  BY <1>1 DEF OneTestStack
<1>4. QED
  BY <1>2, <1>3 DEF OneTestStack

LEMMA GotoStack ==
  ASSUME NEW s \in Seq(DetectionFrame), NEW r \in Seq(DetectionFrame),
         NEW last, NEW next, NEW f, s # << >>, OneTestStack(s, last),
         next[s[1].k][s[1].k] = last[s[1].k][s[1].k],
         Len(r) = Len(s), r[Len(s)] = f,
         \A i \in 1 .. Len(s) - 1 : r[i] = s[i],
         Len(s) > 1 => TestFrame(f, s[1].k, last[s[1].k][s[1].k])
  PROVE  Len(s) > 1 => OneTestStack(r, next) /\ r[1].k = s[1].k
<1> SUFFICES ASSUME Len(s) > 1
             PROVE  OneTestStack(r, next) /\ r[1].k = s[1].k
  OBVIOUS
<1>1. r[1] = s[1]
  OBVIOUS
<1>2. s[1].pc = "loop"
  BY DEF OneTestStack
<1>3. ASSUME NEW i \in 2 .. Len(r)
      PROVE  TestFrame(r[i], s[1].k, last[s[1].k][s[1].k])
  <2>1. CASE i = Len(s)
    BY <2>1
  <2>2. CASE i # Len(s)
    <3>1. i \in 2 .. Len(s) /\ r[i] = s[i]
      BY <2>2
    <3>2. QED
      BY <3>1 DEF OneTestStack
  <2>3. QED
    BY <2>1, <2>2
<1>4. QED
  BY <1>1, <1>2, <1>3 DEF OneTestStack

LEMMA CallStack ==
  ASSUME NEW s \in Seq(DetectionFrame), NEW r \in Seq(DetectionFrame),
         NEW last, NEW f, NEW g, s # << >>, OneTestStack(s, last),
         Len(r) = Len(s) + 1, r[Len(s)] = f, r[Len(s) + 1] = g,
         \A i \in 1 .. Len(s) - 1 : r[i] = s[i],
         TestFrame(g, s[1].k, last[s[1].k][s[1].k]),
         Len(s) > 1 => TestFrame(f, s[1].k, last[s[1].k][s[1].k]),
         Len(s) = 1 => /\ RootFrame(f, last[s[1].k][s[1].k])
                       /\ f.pc = "loop" /\ f.k = s[1].k
  PROVE  OneTestStack(r, last) /\ r[1].k = s[1].k
<1>1. Len(s) = 1 \/ Len(s) > 1
  BY OneOrMore
<1>2. CASE Len(s) = 1
  <2>1. r[1] = f /\ r[2] = g /\ Len(r) = 2
    BY <1>2
  <2>2. QED
    BY <1>2, <2>1 DEF OneTestStack
<1>3. CASE Len(s) > 1
  <2>1. r[1] = s[1] /\ s[1].pc = "loop"
    BY <1>3 DEF OneTestStack
  <2>2. ASSUME NEW i \in 2 .. Len(r)
        PROVE  TestFrame(r[i], s[1].k, last[s[1].k][s[1].k])
    <3>1. CASE i = Len(s)
      BY <3>1, <1>3
    <3>2. CASE i = Len(s) + 1
      BY <3>2
    <3>3. CASE i < Len(s)
      <4>1. i \in 2 .. Len(s) /\ r[i] = s[i]
        BY <3>3
      <4>2. QED
        BY <4>1 DEF OneTestStack
    <3>4. QED
      BY <3>1, <3>2, <3>3
  <2>3. QED
    BY <2>1, <2>2 DEF OneTestStack
<1>4. QED
  BY <1>1, <1>2, <1>3, Zenon

\* The executing frame of a request belongs to the test of its REST handler.
LEMMA TopOfTest ==
  ASSUME DetectionTypeOK, TestNumbers, NEW t \in Task, ~Idle(t)
  PROVE  LET k == calls[t][1].k IN
           /\ k \in Node
           /\ Top(t).k = k
           /\ Top(t).fn = "start" =>
                /\ Len(calls[t]) = 1 /\ Top(t).at = k
                /\ RootFrame(Top(t), lastTest[k][k])
           /\ Top(t).fn # "start" =>
                /\ Len(calls[t]) > 1
                /\ TestFrame(Top(t), k, lastTest[k][k])
<1> DEFINE s == calls[t]
<1>1. s \in Seq(DetectionFrame) /\ Len(s) \in Nat \ {0} /\ s # << >>
  BY DEF DetectionTypeOK, Idle
<1>2. s[1] \in DetectionFrame
  BY <1>1
<1>3. OneTestStack(s, lastTest)
  BY DEF TestNumbers
<1>4. Top(t) = s[Len(s)]
  BY DEF Top
<1>8. Len(s) = 1 \/ Len(s) > 1
  BY <1>1, OneOrMore
<1> HIDE DEF s
<1>5. CASE Len(s) = 1
  BY <1>1, <1>2, <1>3, <1>4, <1>5
  DEF OneTestStack, RootFrame, DetectionFrame, s
<1>6. CASE Len(s) > 1
  BY <1>1, <1>2, <1>3, <1>4, <1>6
  DEF OneTestStack, TestFrame, DetectionFrame, s
<1>7. QED
  BY <1>8, <1>5, <1>6, Zenon

\* A step of one request preserves the invariant if its own stack stays in
\* order and it changes no number of the test of another request.
LEMMA OtherTests ==
  ASSUME TestNumbers, NEW t \in Task, ~Idle(t),
         \A u \in Task \ {t} : calls'[u] = calls[u],
         \A u \in Task \ {t} :
           ~Idle(u) => lastTest'[calls[u][1].k][calls[u][1].k]
                         = lastTest[calls[u][1].k][calls[u][1].k],
         OneTestStack(calls'[t], lastTest'),
         calls'[t] # << >> => calls'[t][1].k = calls[t][1].k,
         \A n, k \in Node : lastTest'[n][k] <= lastTest'[k][k]
  PROVE  TestNumbers'
<1>1. ASSUME NEW u \in Task
      PROVE  OneTestStack(calls[u], lastTest)'
  <2>1. CASE u = t
    BY <2>1
  <2>2. CASE u # t
    <3>1. OneTestStack(calls[u], lastTest)
      BY DEF TestNumbers
    <3>2. QED
      BY <2>2, <3>1, SameNumber DEF Idle
  <2>3. QED
    BY <2>1, <2>2
<1>2. ASSUME NEW u \in Task, NEW v \in Task, u # v, ~Idle(u)', ~Idle(v)'
      PROVE  calls'[u][1].k # calls'[v][1].k
  BY <1>2 DEF TestNumbers, Idle
<1>3. QED
  BY <1>1, <1>2 DEF TestNumbers

\* The initial states satisfy the invariant.
LEMMA TestNumbersInit == DetectionInit => TestNumbers
BY DEF DetectionInit, TestNumbers, OneTestStack, Idle

\* A new test begins only when no request tests the same node.
LEMMA TestNumbersStart ==
  ASSUME OneTestAtATime, DetectionTypeOK, TestNumbers,
         NEW t \in Task, NEW n \in Initiator, StartDetection(t, n)
  PROVE  TestNumbers'
<1>1. /\ Idle(t) /\ ~TestRuns(n) /\ Begin(t, StartFrame(n))
      /\ lastTest' = lastTest
  BY DEF StartDetection, probeVars
<1>2. StartFrame(n) \in DetectionFrame
  BY DetectionAssumption DEF StartFrame, DetectionFrame
<1>3. /\ calls'[t] = << StartFrame(n) >>
      /\ \A u \in Task \ {t} : calls'[u] = calls[u]
  BY <1>1, <1>2, BeginEffect DEF DetectionTypeOK
<1>4. OneTestStack(calls'[t], lastTest')
  <2>1. /\ Len(calls'[t]) = 1 /\ calls'[t][1] = StartFrame(n)
        /\ StartFrame(n).fn = "start" /\ StartFrame(n).pc = "mark"
        /\ StartFrame(n).at = n /\ StartFrame(n).k = n
    BY <1>3 DEF StartFrame
  <2>2. QED
    BY <2>1 DEF OneTestStack, RootFrame
<1>5. \A u \in Task : OneTestStack(calls[u], lastTest)'
  BY <1>1, <1>3, <1>4 DEF TestNumbers
<1>6. ASSUME NEW u \in Task, NEW v \in Task, u # v, ~Idle(u)', ~Idle(v)'
      PROVE  calls'[u][1].k # calls'[v][1].k
  <2>1. calls'[t][1].k = n
    BY <1>3 DEF StartFrame
  <2>2. \A w \in Task \ {t} : ~Idle(w)' => ~Idle(w) /\ calls'[w][1].k # n
    <3>1. \A w \in Task : ~Idle(w) => calls[w][1].fn = "start"
      BY DEF TestNumbers, OneTestStack, RootFrame, Idle
    <3>2. QED
      BY <1>1, <1>3, <3>1 DEF TestRuns, Idle
  <2>3. CASE u # t /\ v # t
    BY <2>2, <2>3, <1>3, <1>6 DEF TestNumbers, Idle
  <2>4. CASE u = t \/ v = t
    BY <2>1, <2>2, <2>4, <1>6
  <2>5. QED
    BY <2>3, <2>4
<1>7. QED
  BY <1>1, <1>5, <1>6 DEF TestNumbers

\* Marking a new test gives it a number above those that the nodes know.
LEMMA TestNumbersMark ==
  ASSUME DetectionTypeOK, TestNumbers, NEW t \in Task, MarkTest(t)
  PROVE  /\ TestNumbers'
         /\ \A n, k \in Node : lastTest'[n][k] >= lastTest[n][k]
<1> DEFINE s == calls[t]
           k == s[1].k
           f == Top(t)
           g == [f EXCEPT !.pc = "read"]
           c == lastTest[k][k]
<1>1. ~Idle(t) /\ f.fn = "start"
  BY DEF MarkTest, At
<1>2. /\ k \in Node /\ f.k = k /\ f.at = k /\ Len(s) = 1
      /\ RootFrame(f, c) /\ f \in DetectionFrame
  BY <1>1, TopOfTest, TopIsFrame DEF DetectionTypeOK
<1>3. Goto(t, g) /\ lastTest' = [lastTest EXCEPT ![f.at][f.at] = @ + 1]
  BY DEF MarkTest
<1>4. g \in DetectionFrame /\ RootFrame(g, c + 1) /\ g.k = k /\ g.pc = "read"
  <2> HIDE DEF f, k, c
  <2>1. g \in DetectionFrame
    BY <1>2, MovedIsFrame
  <2>2. /\ g.pc = "read" /\ g.fn = f.fn /\ g.at = f.at /\ g.k = f.k
    BY <1>2 DEF DetectionFrame
  <2>3. QED
    BY <1>1, <1>2, <2>1, <2>2 DEF RootFrame
<1>5. c \in Nat /\ \A n, i \in Node : lastTest[n][i] \in Nat
  BY <1>2 DEF DetectionTypeOK
<1>6. /\ lastTest'[k][k] = c + 1
      /\ \A n, i \in Node :
           n # k \/ i # k => lastTest'[n][i] = lastTest[n][i]
  <2>1. lastTest \in [Node -> [Node -> Nat]]
    BY DEF DetectionTypeOK
  <2> HIDE DEF k, f
  <2>2. lastTest' = [lastTest EXCEPT ![k][k] = @ + 1]
    BY <1>2, <1>3
  <2>3. QED
    BY <1>2, <2>1, <2>2
<1>7. /\ Len(calls'[t]) = 1 /\ calls'[t][1] = g
      /\ \A u \in Task \ {t} : calls'[u] = calls[u]
  <2>1. calls \in [Task -> Seq(DetectionFrame)]
    BY DEF DetectionTypeOK
  <2> HIDE DEF g
  <2>2. /\ Len(calls'[t]) = Len(s) /\ calls'[t][Len(s)] = g
        /\ \A u \in Task \ {t} : calls'[u] = calls[u]
    BY <1>1, <1>3, <1>4, <2>1, GotoEffect
  <2> HIDE DEF s
  <2>3. QED
    BY <1>2, <2>2
<1> HIDE DEF g, f, c, k, s
<1>8. OneTestStack(calls'[t], lastTest')
  BY <1>4, <1>6, <1>7 DEF OneTestStack
<1>9. \A u \in Task \ {t} :
         ~Idle(u) => lastTest'[calls[u][1].k][calls[u][1].k]
                       = lastTest[calls[u][1].k][calls[u][1].k]
  <2> SUFFICES ASSUME NEW u \in Task \ {t}, ~Idle(u)
               PROVE  lastTest'[calls[u][1].k][calls[u][1].k]
                        = lastTest[calls[u][1].k][calls[u][1].k]
    OBVIOUS
  <2>1. calls[u][1].k \in Node
    BY TopOfTest
  <2>2. calls[u][1].k # k
    BY <1>1 DEF TestNumbers, k, s
  <2>3. QED
    BY <1>6, <2>1, <2>2
<1>10. \A n, i \in Node : lastTest'[n][i] <= lastTest'[i][i]
  <2> SUFFICES ASSUME NEW n \in Node, NEW i \in Node
               PROVE  lastTest'[n][i] <= lastTest'[i][i]
    OBVIOUS
  <2>1. lastTest[n][i] <= lastTest[i][i]
    BY DEF TestNumbers
  <2>2. CASE i # k
    BY <2>1, <2>2, <1>6
  <2>3. CASE i = k /\ n # k
    BY <2>1, <2>3, <1>2, <1>5, <1>6 DEF c
  <2>4. CASE i = k /\ n = k
    BY <2>4, <1>5, <1>6
  <2>5. QED
    BY <2>2, <2>3, <2>4
<1>11. TestNumbers'
  BY <1>1, <1>4, <1>7, <1>8, <1>9, <1>10, OtherTests DEF k, s
<1>12. ASSUME NEW n \in Node, NEW i \in Node
       PROVE  lastTest'[n][i] >= lastTest[n][i]
  <2>1. CASE n = k /\ i = k
    BY <2>1, <1>5, <1>6 DEF c
  <2>2. CASE n # k \/ i # k
    BY <2>2, <1>5, <1>6
  <2>3. QED
    BY <2>1, <2>2
<1>13. QED
  BY <1>11, <1>12

\* A node takes part in a test under the number that its initiator holds.
LEMMA TestNumbersEngage ==
  ASSUME DetectionTypeOK, TestNumbers, NEW t \in Task, Engage(t)
  PROVE  /\ TestNumbers'
         /\ \A n, k \in Node : lastTest'[n][k] >= lastTest[n][k]
<1> DEFINE s == calls[t]
           k == s[1].k
           f == Top(t)
           g == [f EXCEPT !.pc = "loop", !.todo = waitingFrom[f.at]]
           c == lastTest[k][k]
<1>1. ~Idle(t) /\ f.fn = "probe"
  BY DEF Engage, At
<1>2. /\ k \in Node /\ f.k = k /\ Len(s) > 1 /\ TestFrame(f, k, c)
      /\ f \in DetectionFrame
  BY <1>1, TopOfTest, TopIsFrame DEF DetectionTypeOK
<1>3. f.at \in Node /\ f.m = c
  BY <1>2 DEF DetectionFrame, TestFrame
<1>4. Goto(t, g) /\ lastTest' = [lastTest EXCEPT ![f.at][f.k] = f.m]
  BY DEF Engage
<1>5. g \in DetectionFrame
  <2>1. waitingFrom[f.at] \in SUBSET Node
    BY <1>3 DEF DetectionTypeOK
  <2>2. QED
    BY <1>2, <2>1, LoopIsFrame
<1>6. TestFrame(g, k, c)
  BY <1>2 DEF TestFrame, DetectionFrame
<1>7. /\ lastTest'[k][k] = c /\ lastTest'[f.at][k] = c
      /\ \A n, i \in Node :
           n # f.at \/ i # k => lastTest'[n][i] = lastTest[n][i]
  <2>1. lastTest \in [Node -> [Node -> Nat]]
    BY DEF DetectionTypeOK
  <2> HIDE DEF f, k
  <2>2. lastTest' = [lastTest EXCEPT ![f.at][k] = c]
    BY <1>2, <1>3, <1>4
  <2>3. QED
    BY <1>2, <1>3, <2>1, <2>2
<1>8. /\ calls'[t] \in Seq(DetectionFrame)
      /\ Len(calls'[t]) = Len(s)
      /\ \A i \in 1 .. Len(s) - 1 : calls'[t][i] = s[i]
      /\ calls'[t][Len(s)] = g
      /\ \A u \in Task \ {t} : calls'[u] = calls[u]
  <2>1. calls \in [Task -> Seq(DetectionFrame)]
    BY DEF DetectionTypeOK
  <2> HIDE DEF g
  <2>2. QED
    BY <1>1, <1>4, <1>5, <2>1, GotoEffect
<1>9. s \in Seq(DetectionFrame) /\ s # << >> /\ OneTestStack(s, lastTest)
  BY <1>1 DEF DetectionTypeOK, TestNumbers, Idle
<1> HIDE DEF g, f, s
<1>10. OneTestStack(calls'[t], lastTest') /\ calls'[t][1].k = k
  BY <1>2, <1>6, <1>7, <1>8, <1>9, GotoStack
<1> HIDE DEF c, k
<1>11. ASSUME NEW u \in Task \ {t}, ~Idle(u)
       PROVE  lastTest'[calls[u][1].k][calls[u][1].k]
                = lastTest[calls[u][1].k][calls[u][1].k]
  <2>1. calls[u][1].k \in Node
    BY <1>11, TopOfTest
  <2>2. calls[u][1].k # k
    BY <1>1, <1>11 DEF TestNumbers, k, s
  <2>3. QED
    BY <1>7, <2>1, <2>2
<1>12. \A n, i \in Node : lastTest[n][i] \in Nat /\ lastTest[n][i] <= lastTest[i][i]
  BY DEF TestNumbers, DetectionTypeOK
<1>13. ASSUME NEW n \in Node, NEW i \in Node
       PROVE  /\ lastTest'[n][i] <= lastTest'[i][i]
              /\ lastTest'[n][i] >= lastTest[n][i]
  <2>1. CASE i = k /\ n = f.at
    BY <2>1, <1>2, <1>7, <1>12 DEF c
  <2>2. CASE i = k /\ n # f.at
    BY <2>2, <1>2, <1>7, <1>12 DEF c
  <2>3. CASE i # k
    BY <2>3, <1>7, <1>12
  <2>4. QED
    BY <2>1, <2>2, <2>3
<1>14. TestNumbers'
  BY <1>1, <1>8, <1>10, <1>11, <1>13, OtherTests DEF k, s
<1>15. QED
  BY <1>13, <1>14

\* A step that stores no test number preserves the invariant when the stack
\* of its request stays in order.
LEMMA QuietStep ==
  ASSUME DetectionTypeOK, TestNumbers, NEW t \in Task, ~Idle(t),
         lastTest' = lastTest,
         \A u \in Task \ {t} : calls'[u] = calls[u],
         OneTestStack(calls'[t], lastTest),
         calls'[t] # << >> => calls'[t][1].k = calls[t][1].k
  PROVE  TestNumbers'
<1>1. \A n, k \in Node : lastTest'[n][k] <= lastTest'[k][k]
  BY DEF TestNumbers
<1>2. QED
  BY <1>1, OtherTests

\* Returns, moves of a handler of a message, and calls are such steps.
LEMMA QuietReturn ==
  ASSUME DetectionTypeOK, TestNumbers, NEW t \in Task, ~Idle(t),
         lastTest' = lastTest, Return(t)
  PROVE  TestNumbers'
<1> DEFINE s == calls[t]
<1>1. s \in Seq(DetectionFrame) /\ s # << >> /\ OneTestStack(s, lastTest)
  BY DEF DetectionTypeOK, TestNumbers, Idle
<1>2. /\ calls'[t] \in Seq(DetectionFrame)
      /\ Len(calls'[t]) = Len(s) - 1
      /\ \A i \in 1 .. Len(s) - 1 : calls'[t][i] = s[i]
      /\ \A u \in Task \ {t} : calls'[u] = calls[u]
  BY ReturnEffect DEF DetectionTypeOK
<1> HIDE DEF s
<1>3. /\ OneTestStack(calls'[t], lastTest)
      /\ calls'[t] # << >> => calls'[t][1].k = s[1].k
  BY <1>1, <1>2, ReturnStack
<1>4. QED
  BY <1>2, <1>3, QuietStep DEF s

LEMMA QuietGoto ==
  ASSUME DetectionTypeOK, TestNumbers, NEW t \in Task, ~Idle(t),
         lastTest' = lastTest, Top(t).fn # "start",
         NEW g \in DetectionFrame, Goto(t, g),
         g.fn = Top(t).fn, g.k = Top(t).k, g.m = Top(t).m
  PROVE  TestNumbers'
<1> DEFINE s == calls[t]
           k == s[1].k
<1>1. s \in Seq(DetectionFrame) /\ s # << >> /\ OneTestStack(s, lastTest)
  BY DEF DetectionTypeOK, TestNumbers, Idle
<1>2. /\ calls'[t] \in Seq(DetectionFrame)
      /\ Len(calls'[t]) = Len(s)
      /\ \A i \in 1 .. Len(s) - 1 : calls'[t][i] = s[i]
      /\ calls'[t][Len(s)] = g
      /\ \A u \in Task \ {t} : calls'[u] = calls[u]
  <2>1. calls \in [Task -> Seq(DetectionFrame)]
    BY DEF DetectionTypeOK
  <2>2. calls' \in [Task -> Seq(DetectionFrame)]
    BY <2>1, GotoEffect
  <2>3. /\ Len(calls'[t]) = Len(s)
        /\ \A i \in 1 .. Len(s) - 1 : calls'[t][i] = s[i]
        /\ calls'[t][Len(s)] = g
        /\ \A u \in Task \ {t} : calls'[u] = calls[u]
    BY <2>1, GotoEffect
  <2>4. calls'[t] \in Seq(DetectionFrame)
    BY <2>2
  <2>5. QED
    BY <2>3, <2>4
<1>3. Len(s) > 1 /\ TestFrame(g, k, lastTest[k][k])
  BY TopOfTest DEF TestFrame
<1> HIDE DEF s
<1>4. OneTestStack(calls'[t], lastTest) /\ calls'[t][1].k = s[1].k
  BY <1>1, <1>2, <1>3, GotoStack
<1>5. QED
  BY <1>2, <1>4, QuietStep DEF s

LEMMA QuietCall ==
  ASSUME DetectionTypeOK, TestNumbers, NEW t \in Task, ~Idle(t),
         lastTest' = lastTest,
         NEW f \in DetectionFrame, NEW g \in DetectionFrame, Call(t, f, g),
         f.fn = Top(t).fn, f.k = Top(t).k, f.m = Top(t).m, f.at = Top(t).at,
         f.fn = "start" => f.pc = "loop" /\ Top(t).pc = "loop",
         g.fn \in {"probe", "answer"}, g.k = f.k, g.m = f.m
  PROVE  TestNumbers'
<1> DEFINE s == calls[t]
           k == s[1].k
           c == lastTest[k][k]
<1>1. s \in Seq(DetectionFrame) /\ s # << >> /\ OneTestStack(s, lastTest)
  BY DEF DetectionTypeOK, TestNumbers, Idle
<1>2. /\ calls'[t] \in Seq(DetectionFrame)
      /\ Len(calls'[t]) = Len(s) + 1
      /\ \A i \in 1 .. Len(s) - 1 : calls'[t][i] = s[i]
      /\ calls'[t][Len(s)] = f
      /\ calls'[t][Len(s) + 1] = g
      /\ \A u \in Task \ {t} : calls'[u] = calls[u]
  BY CallEffect DEF DetectionTypeOK
<1>3. /\ f.fn = "start" => /\ Len(s) = 1 /\ f.k = k
                          /\ RootFrame(f, c) /\ f.m = c
      /\ f.fn # "start" => Len(s) > 1 /\ TestFrame(f, k, c)
  BY TopOfTest DEF RootFrame, TestFrame
<1> HIDE DEF s, c
<1>4. /\ TestFrame(g, s[1].k, c)
      /\ Len(s) > 1 => TestFrame(f, s[1].k, c)
      /\ Len(s) = 1 => RootFrame(f, c) /\ f.pc = "loop" /\ f.k = s[1].k
  <2> HIDE DEF k
  <2>1. f.k = k /\ f.m = c
    BY <1>3 DEF TestFrame
  <2>2. TestFrame(g, k, c)
    BY <2>1 DEF TestFrame
  <2>3. Len(s) = 1 => ~(Len(s) > 1)
    OBVIOUS
  <2>4. Len(s) > 1 => TestFrame(f, k, c)
    BY <1>3, <2>3, Zenon
  <2>5. Len(s) = 1 => RootFrame(f, c) /\ f.pc = "loop"
    BY <1>3, <2>3, Zenon
  <2>6. QED
    BY <2>1, <2>2, <2>4, <2>5 DEF k
<1>5. OneTestStack(calls'[t], lastTest) /\ calls'[t][1].k = s[1].k
  <2> DEFINE r == calls'[t]
  <2>1. /\ r \in Seq(DetectionFrame) /\ Len(r) = Len(s) + 1
        /\ r[Len(s)] = f /\ r[Len(s) + 1] = g
        /\ \A i \in 1 .. Len(s) - 1 : r[i] = s[i]
    BY <1>2
  <2>2. /\ TestFrame(g, s[1].k, lastTest[s[1].k][s[1].k])
        /\ Len(s) > 1 => TestFrame(f, s[1].k, lastTest[s[1].k][s[1].k])
        /\ Len(s) = 1 => /\ RootFrame(f, lastTest[s[1].k][s[1].k])
                         /\ f.pc = "loop" /\ f.k = s[1].k
    BY <1>4 DEF c
  <2> HIDE DEF r
  <2>3. OneTestStack(r, lastTest) /\ r[1].k = s[1].k
    BY <1>1, <2>1, <2>2, CallStack
  <2>4. QED
    BY <2>3 DEF r
<1>6. QED
  BY <1>2, <1>5, QuietStep DEF s

\* Reading the number of a new test finds the number just stored.
LEMMA TestNumbersRead ==
  ASSUME DetectionTypeOK, TestNumbers, NEW t \in Task, ReadTest(t)
  PROVE  TestNumbers'
<1> DEFINE s == calls[t]
           f == Top(t)
           g == [f EXCEPT !.pc = "loop", !.m = lastTest[f.at][f.at],
                          !.todo = waitingFrom[f.at]]
           c == lastTest[f.at][f.at]
<1>1. /\ ~Idle(t) /\ f.fn = "start" /\ Goto(t, g) /\ lastTest' = lastTest
  BY DEF ReadTest, At, probeVars
<1>2. /\ f \in DetectionFrame /\ Len(s) = 1 /\ f.k = s[1].k /\ f.at = s[1].k
      /\ s[1].k \in Node
  BY <1>1, TopOfTest, TopIsFrame DEF DetectionTypeOK
<1>3. c \in Nat /\ waitingFrom[f.at] \in SUBSET Node
  BY <1>2 DEF DetectionTypeOK
<1>4. g \in DetectionFrame
  BY <1>2, <1>3, LoopIsFrame
<1>5. g.fn = "start" /\ g.pc = "loop" /\ g.m = c /\ g.k = f.k /\ g.at = f.at
  <2> HIDE DEF f, c
  <2>1. QED
    BY <1>1, <1>2 DEF DetectionFrame, c
<1>6. /\ Len(calls'[t]) = Len(s) /\ calls'[t][Len(s)] = g
      /\ \A u \in Task \ {t} : calls'[u] = calls[u]
  <2> HIDE DEF g
  <2>1. QED
    BY <1>1, <1>4, GotoEffect DEF DetectionTypeOK
<1> HIDE DEF g, s, f
<1>7. Len(calls'[t]) = 1 /\ calls'[t][1] = g
  BY <1>2, <1>6
<1>8. OneTestStack(calls'[t], lastTest) /\ calls'[t][1].k = s[1].k
  BY <1>2, <1>5, <1>7 DEF OneTestStack, RootFrame
<1>9. QED
  BY <1>1, <1>6, <1>8, QuietStep DEF s

\* Every step preserves the invariant, and no step stores a smaller number.
LEMMA TestNumbersStep ==
  ASSUME OneTestAtATime, DetectionTypeOK, TestNumbers,
         [DetectionNext]_detectionVars
  PROVE  /\ TestNumbers'
         /\ \A n, k \in Node : lastTest'[n][k] >= lastTest[n][k]
<1> USE DEF probeVars
<1>1. \A n, k \in Node : lastTest[n][k] >= lastTest[n][k]
  BY DEF DetectionTypeOK
<1>2. CASE UNCHANGED detectionVars
  BY <1>1, <1>2 DEF detectionVars, TestNumbers, Idle
<1>3. ASSUME NEW t \in Task, NEW n \in Initiator, StartDetection(t, n)
      PROVE  TestNumbers' /\ lastTest' = lastTest
  BY <1>3, TestNumbersStart DEF StartDetection
<1>4. ASSUME NEW t \in Task, RequestStep(t), ~MarkTest(t), ~Engage(t)
      PROVE  TestNumbers' /\ lastTest' = lastTest
  <2> DEFINE f == Top(t)
  <2>1. ~Idle(t) /\ lastTest' = lastTest
    BY <1>4 DEF RequestStep, ReadTest, SendProbe, EndStart, EndProbe,
         ReceiveProbe, TestProbe, AnswerAgain, EndAgain, ReceiveAnswer,
         CheckAnswer, CountDown, ClearWait, ForwardMessage, Forward, Received, At
  <2> SUFFICES TestNumbers'
    BY <2>1
  <2>2. f \in DetectionFrame
    BY <2>1, TopIsFrame DEF DetectionTypeOK
  <2>3. /\ f.at \in Node /\ f.from \in Node /\ f.m \in Nat
        /\ f.count \in Nat /\ f.todo \in SUBSET Node
    BY <2>2 DEF DetectionFrame
  <2>a. CASE ReadTest(t)
    BY <2>1, <2>a, TestNumbersRead
  <2>b. CASE Return(t)
    BY <2>1, <2>b, QuietReturn
  <2>c. ASSUME NEW n \in Node, SendProbe(t, n)
        PROVE  TestNumbers'
    <3> DEFINE h == [f EXCEPT !.todo = f.todo \ {n}, !.count = f.count + 1]
    <3>1. f.todo \ {n} \in SUBSET Node /\ f.count + 1 \in Nat
      BY <2>3
    <3>2. h \in DetectionFrame /\ Message(h, "probe", n) \in DetectionFrame
      BY <3>1, <2>2, LoopIsFrame, MessageIsFrame
    <3>3. f.pc = "loop" /\ Call(t, h, Message(h, "probe", n))
      BY <2>c DEF SendProbe, At
    <3>4. /\ h.fn = f.fn /\ h.k = f.k /\ h.m = f.m /\ h.at = f.at
          /\ h.pc = f.pc
      <4> HIDE DEF f
      <4>1. QED
        BY <2>2 DEF DetectionFrame
    <3> HIDE DEF h
    <3>5. /\ Message(h, "probe", n).fn = "probe"
          /\ Message(h, "probe", n).k = h.k /\ Message(h, "probe", n).m = h.m
      BY DEF Message
    <3>6. QED
      BY <2>1, <3>2, <3>3, <3>4, <3>5, QuietCall
  <2>d. ASSUME NEW pc \in {"test", "engage", "again", "check", "countdown",
                           "clear"},
               Goto(t, [f EXCEPT !.pc = pc]), f.fn # "start"
        PROVE  TestNumbers'
    <3> DEFINE g == [f EXCEPT !.pc = pc]
    <3>1. g \in DetectionFrame
      BY <2>2, MovedIsFrame
    <3>2. g.fn = f.fn /\ g.k = f.k /\ g.m = f.m
      <4> HIDE DEF f
      <4>1. QED
        BY <2>2 DEF DetectionFrame
    <3>3. Goto(t, g)
      BY <2>d
    <3> HIDE DEF g
    <3>4. QED
      BY <2>1, <2>d, <3>1, <3>2, <3>3, QuietGoto
  <2>e. ASSUME NEW pc \in {"done", "clear"}, NEW p \in Node, f.fn # "start",
               Call(t, [f EXCEPT !.pc = pc], Message(f, "answer", p))
        PROVE  TestNumbers'
    <3> DEFINE h == [f EXCEPT !.pc = pc]
               g == Message(f, "answer", p)
    <3>1. h \in DetectionFrame /\ g \in DetectionFrame
      BY <2>2, MovedIsFrame, MessageIsFrame
    <3>2. h.fn = f.fn /\ h.k = f.k /\ h.m = f.m /\ h.at = f.at
      <4> HIDE DEF f
      <4>1. QED
        BY <2>2 DEF DetectionFrame
    <3>3. g.fn = "answer" /\ g.k = f.k /\ g.m = f.m
      BY DEF Message
    <3>4. Call(t, h, g)
      BY <2>e
    <3> HIDE DEF g, h
    <3>5. QED
      BY <2>1, <2>e, <3>1, <3>2, <3>3, <3>4, QuietCall
  <2>f. CASE EndStart(t) \/ EndProbe(t) \/ EndAgain(t) \/ ClearWait(t)
    BY <2>f, <2>b DEF EndStart, EndProbe, EndAgain, ClearWait
  <2>g. CASE ReceiveProbe(t) \/ TestProbe(t) \/ ReceiveAnswer(t)
             \/ CheckAnswer(t)
    BY <2>g, <2>b, <2>d DEF ReceiveProbe, TestProbe, ReceiveAnswer, CheckAnswer,
                            Received, At
  <2>h. CASE AnswerAgain(t)
    <3>1. /\ f.fn # "start"
          /\ \/ Return(t)
             \/ Call(t, [f EXCEPT !.pc = "done"], Message(f, "answer", f.from))
      BY <2>h DEF AnswerAgain, At
    <3> HIDE DEF f
    <3>2. CASE Return(t)
      BY <3>2, <2>b
    <3>3. CASE Call(t, [f EXCEPT !.pc = "done"], Message(f, "answer", f.from))
      <4>1. "done" \in {"done", "clear"}
        OBVIOUS
      <4>2. QED
        BY <3>1, <3>3, <4>1, <2>e, <2>3, Zenon
    <3>4. QED
      BY <3>1, <3>2, <3>3, Zenon
  <2>i. CASE CountDown(t)
    <3> DEFINE p == parent[f.at][f.k]
    <3>1. f.fn # "start"
      BY <2>i DEF CountDown, At
    <3>2. IF ~LastAnswer(t) THEN Return(t)
          ELSE IF f.k # f.at /\ p # NoNode
            THEN Call(t, [f EXCEPT !.pc = "clear"], Message(f, "answer", p))
            ELSE Goto(t, [f EXCEPT !.pc = "clear"])
      BY <2>i DEF CountDown
    <3>3. p # NoNode => p \in Node
      BY <2>2, <2>3 DEF DetectionTypeOK, DetectionFrame
    <3> HIDE DEF p, f
    <3>4. CASE Return(t)
      BY <3>4, <2>b
    <3>5. CASE /\ p # NoNode
               /\ Call(t, [f EXCEPT !.pc = "clear"], Message(f, "answer", p))
      <4>1. "clear" \in {"done", "clear"}
        OBVIOUS
      <4>2. QED
        BY <3>1, <3>3, <3>5, <4>1, <2>e, Zenon
    <3>6. CASE Goto(t, [f EXCEPT !.pc = "clear"])
      <4>1. "clear" \in {"test", "engage", "again", "check", "countdown",
                         "clear"}
        OBVIOUS
      <4>2. QED
        BY <3>1, <3>6, <4>1, <2>d, Zenon
    <3>7. QED
      BY <3>2, <3>4, <3>5, <3>6, Zenon
  <2>j. CASE ForwardMessage(t)
    <3> DEFINE g == [f EXCEPT !.at = Succ[f.at]]
    <3>1. g \in DetectionFrame
      <4>1. Succ[f.at] \in Node
        BY <2>3, RingAssumption
      <4> HIDE DEF f
      <4>2. QED
        BY <2>2, <4>1 DEF DetectionFrame
    <3>2. Goto(t, g) /\ f.pc = "hop"
      BY <2>j DEF ForwardMessage, Forward
    <3>3. f.fn # "start"
      BY <2>1, <3>2, TopOfTest DEF RootFrame
    <3>4. g.fn = f.fn /\ g.k = f.k /\ g.m = f.m
      <4> HIDE DEF f
      <4>1. QED
        BY <2>2 DEF DetectionFrame
    <3> HIDE DEF g
    <3>5. QED
      BY <2>1, <3>1, <3>2, <3>3, <3>4, QuietGoto
  <2>k. QED
    BY <1>4, <2>a, <2>c, <2>f, <2>g, <2>h, <2>i, <2>j DEF RequestStep
<1>5. CASE \E t \in Task : MarkTest(t) \/ Engage(t)
  BY <1>5, TestNumbersMark, TestNumbersEngage
<1>6. QED
  BY <1>1, <1>2, <1>3, <1>4, <1>5 DEF DetectionNext

\* With one test of a node at a time, every message of a test carries the
\* number that its initiator holds and no node knows a larger one.
THEOREM TestNumbersAgree ==
  ASSUME OneTestAtATime
  PROVE  DetectionSpec => [](DetectionTypeOK /\ TestNumbers)
<1>1. DetectionInit => DetectionTypeOK /\ TestNumbers
  BY DetectionInitType, TestNumbersInit
<1>2. DetectionTypeOK /\ TestNumbers /\ [DetectionNext]_detectionVars
        => (DetectionTypeOK /\ TestNumbers)'
  BY DetectionTypeStep, TestNumbersStep
<1>3. QED
  BY <1>1, <1>2, PTL DEF DetectionSpec

-----------------------------------------------------------------------------
(* The chain of a request.                                                 *)

\* Handler f waits for the reply to a probe, whose handler is g.
Probes(f, g) ==
  /\ f.pc = "loop" /\ f.count >= 1
  /\ g.from = f.at /\ g.to \in waitingFrom[f.at]

\* Handler g handles an answer to the node of handler f.
Mirrors(f, g) ==
  /\ g.fn = "answer" /\ g.to = f.at
  /\ g.pc # "hop" => g.at = g.to

\* Of the n handlers of stack s the first d probe.  The ones before the last
\* wait for a probe to return.  Handlers of answers mirror them.
Shape(s, n, d) ==
  /\ n \in Nat /\ d \in 1 .. n /\ n < 2 * d
  /\ \A i \in 1 .. d :
       /\ s[i].fn # "answer"
       /\ i > 1 /\ s[i].pc # "hop" => s[i].at = s[i].to
  /\ \A i \in 1 .. d - 1 : Probes(s[i], s[i + 1])
  /\ d < n => s[d].pc = "done"
  /\ \A i \in d + 1 .. n : Mirrors(s[2 * d - i], s[i])
  /\ \A i \in d + 1 .. n - 1 : s[i].pc = "clear"

\* Stacks s and r agree below their n-th handler.
Below(s, r, n) == \A i \in 1 .. n - 1 : r[i] = s[i]

\* Handler g is handler f at another step.
Same(f, g) ==
  /\ g.fn = f.fn /\ g.at = f.at /\ g.to = f.to /\ g.from = f.from

-----------------------------------------------------------------------------
(* The shape of a stack after its last handler has returned, gone on or    *)
(* called another one.                                                     *)

\* The last handler that probes returns.
LEMMA ShapePop ==
  ASSUME NEW s, NEW r, NEW d, Shape(s, d, d), Below(s, r, d), d > 1
  PROVE  Shape(r, d - 1, d - 1)
<1>1. d \in Nat /\ \A i \in 1 .. d - 1 : r[i] = s[i]
  BY DEF Below, Shape
<1>2. \A i \in 1 .. d - 2 : Probes(r[i], r[i + 1])
  <2>1. \A i \in 1 .. d - 2 : i + 1 \in 1 .. d - 1 /\ i \in 1 .. d - 1
    BY <1>1
  <2>2. QED
    BY <1>1, <2>1 DEF Shape
<1>3. QED
  BY <1>1, <1>2 DEF Shape

\* The last handler that probes goes on.
LEMMA ShapeMove ==
  ASSUME NEW s, NEW r, NEW d, Shape(s, d, d), Below(s, r, d),
         r[d].fn = s[d].fn, r[d].from = s[d].from, r[d].to = s[d].to,
         d > 1 /\ r[d].pc # "hop" => r[d].at = r[d].to
  PROVE  Shape(r, d, d)
<1>1. d \in Nat /\ d >= 1 /\ \A i \in 1 .. d - 1 : r[i] = s[i]
  BY DEF Below, Shape
<1>2. ASSUME NEW i \in 1 .. d - 1
      PROVE  Probes(r[i], r[i + 1])
  <2>1. Probes(s[i], s[i + 1]) /\ r[i] = s[i]
    BY <1>1 DEF Shape
  <2>2. CASE i = d - 1
    <3>1. i + 1 = d
      BY <2>2, <1>1
    <3>2. QED
      BY <2>1, <3>1 DEF Probes
  <2>3. CASE i # d - 1
    <3>1. i + 1 \in 1 .. d - 1
      BY <2>3, <1>1
    <3>2. QED
      BY <1>1, <2>1, <3>1
  <2>4. QED
    BY <2>2, <2>3
<1>3. \A i \in 1 .. d :
        /\ r[i].fn # "answer"
        /\ i > 1 /\ r[i].pc # "hop" => r[i].at = r[i].to
  BY <1>1 DEF Shape
<1>4. QED
  BY <1>1, <1>2, <1>3 DEF Shape

\* The last handler sends a probe.
LEMMA ShapeProbe ==
  ASSUME NEW s, NEW r, NEW d, Shape(s, d, d), Below(s, r, d),
         Same(s[d], r[d]), s[d].pc = "loop", r[d].pc = "loop",
         r[d].count >= 1, r[d + 1].fn = "probe", r[d + 1].pc = "hop",
         r[d + 1].from = s[d].at, r[d + 1].to \in waitingFrom[s[d].at]
  PROVE  Shape(r, d + 1, d + 1)
<1>1. d \in Nat /\ d >= 1 /\ \A i \in 1 .. d - 1 : r[i] = s[i]
  BY DEF Below, Shape
<1>2. ASSUME NEW i \in 1 .. d
      PROVE  Probes(r[i], r[i + 1])
  <2>1. CASE i = d
    BY <2>1, <1>1 DEF Probes, Same
  <2>2. CASE i = d - 1
    <3>1. i \in 1 .. d - 1 /\ i + 1 = d
      BY <2>2, <1>1
    <3>2. Probes(s[i], s[d]) /\ r[i] = s[i]
      BY <3>1, <1>1 DEF Shape
    <3>3. QED
      BY <3>1, <3>2 DEF Probes, Same
  <2>3. CASE i < d - 1
    <3>1. i \in 1 .. d - 1 /\ i + 1 \in 1 .. d - 1
      BY <2>3, <1>1
    <3>2. Probes(s[i], s[i + 1])
      BY <3>1 DEF Shape
    <3>3. QED
      BY <1>1, <3>1, <3>2
  <2>4. QED
    BY <2>1, <2>2, <2>3, <1>1
<1>3. ASSUME NEW i \in 1 .. d + 1
      PROVE  /\ r[i].fn # "answer"
             /\ i > 1 /\ r[i].pc # "hop" => r[i].at = r[i].to
  <2>1. CASE i = d + 1
    BY <2>1, <1>1
  <2>2. CASE i = d
    <3>1. /\ s[d].fn # "answer"
          /\ i > 1 /\ s[d].pc # "hop" => s[d].at = s[d].to
      BY <1>1, <2>2 DEF Shape
    <3>2. QED
      BY <2>2, <3>1 DEF Same
  <2>3. CASE i < d
    BY <1>1, <2>3 DEF Shape
  <2>4. QED
    BY <2>1, <2>2, <2>3, <1>1
<1>4. QED
  BY <1>1, <1>2, <1>3 DEF Shape

\* The last handler, or the handler of an answer, sends an answer.
LEMMA ShapeAnswer ==
  ASSUME NEW s, NEW r, NEW n, NEW d, Shape(s, n, d), Below(s, r, n),
         Same(s[n], r[n]), s[n].pc # "hop", n + 1 < 2 * d,
         n = d => r[n].pc = "done", n > d => r[n].pc = "clear",
         r[n + 1].fn = "answer", r[n + 1].pc = "hop",
         r[n + 1].to = s[2 * d - (n + 1)].at
  PROVE  Shape(r, n + 1, d)
<1>1. /\ n \in Nat /\ n >= 1 /\ d \in 1 .. n
      /\ \A i \in 1 .. n - 1 : r[i] = s[i]
  BY DEF Below, Shape
<1>2. ASSUME NEW i \in 1 .. d - 1
      PROVE  Probes(r[i], r[i + 1])
  <2>1. Probes(s[i], s[i + 1]) /\ r[i] = s[i]
    BY <1>1 DEF Shape
  <2>2. CASE i + 1 = n
    BY <2>1, <2>2 DEF Probes, Same
  <2>3. CASE i + 1 # n
    <3>1. i + 1 \in 1 .. n - 1
      BY <2>3, <1>1
    <3>2. QED
      BY <1>1, <2>1, <3>1
  <2>4. QED
    BY <2>2, <2>3
<1>3. ASSUME NEW i \in 1 .. d
      PROVE  /\ r[i].fn # "answer"
             /\ i > 1 /\ r[i].pc # "hop" => r[i].at = r[i].to
  <2>1. /\ s[i].fn # "answer"
        /\ i > 1 /\ s[i].pc # "hop" => s[i].at = s[i].to
    BY <1>1 DEF Shape
  <2>2. CASE i = n
    BY <2>1, <2>2 DEF Same
  <2>3. CASE i # n
    <3>1. r[i] = s[i]
      BY <2>3, <1>1
    <3>2. QED
      BY <2>1, <3>1
  <2>4. QED
    BY <2>2, <2>3
<1>4. ASSUME NEW i \in d + 1 .. n + 1
      PROVE  Mirrors(r[2 * d - i], r[i])
  <2> DEFINE j == 2 * d - i
  <2>1. j \in 1 .. n - 1
    BY <1>1
  <2>2. r[j] = s[j]
    BY <1>1, <2>1
  <2> HIDE DEF j
  <2>3. CASE i = n + 1
    <3>1. j = 2 * d - (n + 1)
      BY <2>3 DEF j
    <3>2. Mirrors(r[j], r[i])
      BY <2>2, <2>3, <3>1 DEF Mirrors
    <3>3. QED
      BY <3>2 DEF j
  <2>4. CASE i = n
    <3>1. Mirrors(s[j], s[n])
      BY <2>4, <1>1 DEF Shape, j
    <3>2. Mirrors(r[j], r[i])
      BY <2>2, <2>4, <3>1 DEF Mirrors, Same
    <3>3. QED
      BY <3>2 DEF j
  <2>5. CASE i < n
    <3>1. i \in d + 1 .. n /\ i \in 1 .. n - 1
      BY <2>5, <1>1
    <3>2. Mirrors(s[j], s[i])
      BY <3>1 DEF Shape, j
    <3>3. Mirrors(r[j], r[i])
      BY <1>1, <2>2, <3>1, <3>2
    <3>4. QED
      BY <3>3 DEF j
  <2>6. QED
    BY <2>3, <2>4, <2>5, <1>1
<1>5. ASSUME NEW i \in d + 1 .. n
      PROVE  r[i].pc = "clear"
  <2>1. CASE i = n
    BY <2>1, <1>1
  <2>2. CASE i < n
    BY <2>2, <1>1 DEF Shape
  <2>3. QED
    BY <2>1, <2>2, <1>1
<1>6. r[d].pc = "done"
  <2>1. CASE n = d
    BY <2>1
  <2>2. CASE n > d
    BY <2>2, <1>1 DEF Shape
  <2>3. QED
    BY <2>1, <2>2, <1>1
<1>7. QED
  BY <1>1, <1>2, <1>3, <1>4, <1>5, <1>6 DEF Shape

\* The handler of an answer goes on.
LEMMA ShapeMoveAnswer ==
  ASSUME NEW s, NEW r, NEW n, NEW d, Shape(s, n, d), d < n, Below(s, r, n),
         r[n].fn = s[n].fn, r[n].to = s[n].to,
         r[n].pc # "hop" => r[n].at = r[n].to
  PROVE  Shape(r, n, d)
<1>1. /\ n \in Nat /\ d \in 1 .. n - 1
      /\ \A i \in 1 .. n - 1 : r[i] = s[i]
  BY DEF Below, Shape
<1>2. \A i \in 1 .. d - 1 : Probes(r[i], r[i + 1])
  <2>1. \A i \in 1 .. d - 1 : i \in 1 .. n - 1 /\ i + 1 \in 1 .. n - 1
    BY <1>1
  <2>2. QED
    BY <1>1, <2>1 DEF Shape
<1>3. ASSUME NEW i \in d + 1 .. n
      PROVE  Mirrors(r[2 * d - i], r[i])
  <2> DEFINE j == 2 * d - i
  <2>1. j \in 1 .. n - 1
    BY <1>1 DEF Shape
  <2>2. Mirrors(s[j], s[i]) /\ r[j] = s[j]
    BY <1>1, <2>1 DEF Shape
  <2> HIDE DEF j
  <2>3. CASE i = n
    <3>1. Mirrors(r[j], r[i])
      BY <2>2, <2>3 DEF Mirrors
    <3>2. QED
      BY <3>1 DEF j
  <2>4. CASE i < n
    <3>1. Mirrors(r[j], r[i])
      BY <2>2, <2>4, <1>1
    <3>2. QED
      BY <3>1 DEF j
  <2>5. QED
    BY <2>3, <2>4, <1>1
<1>4. QED
  BY <1>1, <1>2, <1>3 DEF Shape

\* The handler of an answer returns.
LEMMA ShapePopAnswer ==
  ASSUME NEW s, NEW r, NEW n, NEW d, Shape(s, n, d), d < n, Below(s, r, n)
  PROVE  Shape(r, n - 1, d)
<1>1. /\ n \in Nat /\ d \in 1 .. n - 1
      /\ \A i \in 1 .. n - 1 : r[i] = s[i]
  BY DEF Below, Shape
<1>2. \A i \in 1 .. d - 1 : Probes(r[i], r[i + 1])
  <2>1. \A i \in 1 .. d - 1 : i \in 1 .. n - 1 /\ i + 1 \in 1 .. n - 1
    BY <1>1
  <2>2. QED
    BY <1>1, <2>1 DEF Shape
<1>3. ASSUME NEW i \in d + 1 .. n - 1
      PROVE  Mirrors(r[2 * d - i], r[i])
  <2>1. 2 * d - i \in 1 .. n - 1
    BY <1>1 DEF Shape
  <2>2. Mirrors(s[2 * d - i], s[i]) /\ r[2 * d - i] = s[2 * d - i]
    BY <1>1, <2>1 DEF Shape
  <2>3. QED
    BY <1>1, <2>2
<1>4. QED
  BY <1>1, <1>2, <1>3 DEF Shape

-----------------------------------------------------------------------------
(* The nodes of a chain.                                                   *)

\* The node of handler f is passive.  Once it probes it takes part in the
\* test of k, its parent is the node that probed it, and it has still to
\* probe the rest of the nodes it waits for.
TakesPart(f, k, last, par) ==
  /\ f.pc # "hop" => ~isActive[f.at]
  /\ f.pc \in {"again", "done", "loop"} => last[f.at][k] = last[k][k]
  /\ f.pc = "engage" => last[f.at][k] < last[k][k]
  /\ f.pc = "loop" =>
       /\ f.todo \subseteq waitingFrom[f.at]
       /\ f.count + Cardinality(f.todo) = Cardinality(waitingFrom[f.at])
       /\ f.fn = "probe" => par[f.at][k] = f.from
  /\ f.pc # "loop" => f.count = 0

\* No node probes in two handlers of the chain.
Nodes(s, d, k, last, par) ==
  /\ \A i \in 1 .. d : TakesPart(s[i], k, last, par)
  /\ \A i, j \in 1 .. d :
       i < j /\ s[i].pc = "loop" /\ s[j].pc = "loop" => s[i].at # s[j].at

\* The nodes after a return or a step of an answer, a step of the last
\* handler that probes, a new probe, and when a node enters the test.
LEMMA NodesBelow ==
  ASSUME NEW s, NEW r, NEW k, NEW last, NEW par, NEW d \in Nat, NEW n \in Nat,
         Nodes(s, d, k, last, par), Below(s, r, n)
  PROVE  /\ d < n => Nodes(r, d, k, last, par)
         /\ d = n => Nodes(r, d - 1, k, last, par)
BY DEF Nodes, Below

\* The last handler goes on without entering the test.
LEMMA NodesMove ==
  ASSUME NEW s, NEW r, NEW k, NEW last, NEW par, NEW d \in Nat,
         Nodes(s, d, k, last, par), Below(s, r, d),
         TakesPart(r[d], k, last, par),
         r[d].pc = "loop" => s[d].pc = "loop" /\ r[d].at = s[d].at
  PROVE  Nodes(r, d, k, last, par)
<1>1. \A i \in 1 .. d - 1 : r[i] = s[i]
  BY DEF Below
<1>2. \A i \in 1 .. d : TakesPart(r[i], k, last, par)
  BY <1>1 DEF Nodes
<1>3. ASSUME NEW i \in 1 .. d, NEW j \in 1 .. d, i < j,
             r[i].pc = "loop", r[j].pc = "loop"
      PROVE  r[i].at # r[j].at
  <2>1. i \in 1 .. d - 1 /\ r[i] = s[i]
    BY <1>1, <1>3
  <2>2. s[j].pc = "loop" /\ r[j].at = s[j].at
    <3>1. CASE j = d
      BY <3>1, <1>3
    <3>2. CASE j # d
      BY <3>2, <1>1, <1>3
    <3>3. QED
      BY <3>1, <3>2
  <2>3. QED
    BY <2>1, <2>2, <1>3 DEF Nodes
<1>4. QED
  BY <1>2, <1>3 DEF Nodes

\* A probe has been sent.
LEMMA NodesProbe ==
  ASSUME NEW s, NEW k, NEW last, NEW par, NEW d \in Nat,
         Nodes(s, d, k, last, par),
         s[d + 1].pc = "hop", s[d + 1].count = 0
  PROVE  Nodes(s, d + 1, k, last, par)
<1>1. \A i \in 1 .. d + 1 : i = d + 1 \/ i \in 1 .. d
  OBVIOUS
<1>2. TakesPart(s[d + 1], k, last, par)
  BY DEF TakesPart
<1>3. QED
  BY <1>1, <1>2 DEF Nodes

\* The node of the last handler enters the test.
LEMMA NodesEngage ==
  ASSUME NEW s, NEW r, NEW k, NEW last, NEW par, NEW d \in Nat, d >= 1,
         NEW last2, NEW par2,
         Nodes(s, d, k, last, par), Below(s, r, d), s[d].pc = "engage",
         \A i \in 1 .. d - 1 : s[i].pc = "loop",
         last[s[d].at][k] # last[k][k],
         last2[k][k] = last[k][k],
         \A i \in 1 .. d - 1 : s[i].at # s[d].at =>
           last2[s[i].at][k] = last[s[i].at][k] /\ par2[s[i].at][k] = par[s[i].at][k],
         TakesPart(r[d], k, last2, par2), r[d].at = s[d].at
  PROVE  Nodes(r, d, k, last2, par2)
<1>1. \A i \in 1 .. d - 1 : r[i] = s[i]
  BY DEF Below
<1>2. ASSUME NEW i \in 1 .. d - 1
      PROVE  s[i].at # s[d].at /\ TakesPart(r[i], k, last2, par2)
  <2>1. TakesPart(s[i], k, last, par) /\ s[i].pc = "loop"
    BY DEF Nodes
  <2>2. s[i].at # s[d].at
    BY <2>1 DEF TakesPart
  <2>3. QED
    BY <1>1, <2>1, <2>2 DEF TakesPart
<1>3. \A i \in 1 .. d : TakesPart(r[i], k, last2, par2)
  BY <1>2
<1>4. ASSUME NEW i \in 1 .. d, NEW j \in 1 .. d, i < j
      PROVE  r[i].at # r[j].at
  <2>1. i \in 1 .. d - 1 /\ r[i] = s[i]
    BY <1>1, <1>4
  <2>2. CASE j = d
    BY <2>1, <2>2, <1>2
  <2>3. CASE j # d
    <3>1. j \in 1 .. d - 1 /\ r[j] = s[j]
      BY <2>3, <1>1
    <3>2. QED
      BY <2>1, <3>1, <1>4 DEF Nodes
  <2>4. QED
    BY <2>2, <2>3
<1>5. QED
  BY <1>3, <1>4 DEF Nodes

-----------------------------------------------------------------------------
(* The counts of the nodes of a chain.                                     *)

\* The j-th handler of the chain has answered the one before it.
Answered(s, n, d, k, wait, j) ==
  \/ s[j].pc = "loop" /\ ~wait[s[j].at][k]
  \/ 2 * d - j <= n /\ s[2 * d - j].pc \in {"clear", "done"}

\* The count of a node is the number of its probes until the last of them is
\* answered, in particular while that answer is not counted yet.
Counts(s, n, d, k, wait, cnt) ==
  /\ \A i \in 1 .. d - 1 :
       cnt[s[i].at][k] = s[i].count \/ Answered(s, n, d, k, wait, i + 1)
  /\ d < n /\ s[n].pc # "clear" =>
       cnt[s[2 * d - n].at][k] = s[2 * d - n].count
  /\ d < n /\ s[n].pc = "countdown" => wait[s[2 * d - n].at][k]

\* Tables that agree on the nodes of the chain below the last handler.
AgreeBelow(s, d, k, v, w) == \A i \in 1 .. d - 1 : w[s[i].at][k] = v[s[i].at][k]

\* The counts after a return of the last handler that probes.
LEMMA CountsPop ==
  ASSUME NEW s, NEW r, NEW k, NEW wait, NEW cnt, NEW d \in Nat,
         NEW wait2, NEW cnt2, Below(s, r, d), Counts(s, d, d, k, wait, cnt),
         AgreeBelow(s, d, k, wait, wait2), AgreeBelow(s, d, k, cnt, cnt2)
  PROVE  Counts(r, d - 1, d - 1, k, wait2, cnt2)
<1>1. \A i \in 1 .. d - 1 : r[i] = s[i]
  BY DEF Below
<1>2. ASSUME NEW i \in 1 .. d - 2
      PROVE  \/ cnt2[r[i].at][k] = r[i].count
             \/ Answered(r, d - 1, d - 1, k, wait2, i + 1)
  <2>1. i \in 1 .. d - 1 /\ i + 1 \in 1 .. d - 1
    OBVIOUS
  <2>2. cnt[s[i].at][k] = s[i].count \/ Answered(s, d, d, k, wait, i + 1)
    BY <2>1 DEF Counts
  <2>3. ~(2 * d - (i + 1) <= d)
    BY <2>1
  <2>4. \/ cnt[s[i].at][k] = s[i].count
        \/ s[i + 1].pc = "loop" /\ ~wait[s[i + 1].at][k]
    BY <2>2, <2>3 DEF Answered
  <2>5. cnt2[s[i].at][k] = cnt[s[i].at][k]
    BY <2>1 DEF AgreeBelow
  <2>6. wait2[s[i + 1].at][k] = wait[s[i + 1].at][k]
    BY <2>1 DEF AgreeBelow
  <2>7. r[i] = s[i] /\ r[i + 1] = s[i + 1]
    BY <1>1, <2>1
  <2>8. QED
    BY <2>4, <2>5, <2>6, <2>7 DEF Answered
<1>3. QED
  BY <1>2 DEF Counts

\* The counts after a step of it.
LEMMA CountsMove ==
  ASSUME NEW s, NEW r, NEW k, NEW wait, NEW cnt, NEW d \in Nat,
         NEW wait2, Below(s, r, d), Counts(s, d, d, k, wait, cnt),
         AgreeBelow(s, d, k, wait, wait2),
         s[d].pc \notin {"loop", "clear", "done"}
  PROVE  Counts(r, d, d, k, wait2, cnt)
<1>1. \A i \in 1 .. d - 1 : r[i] = s[i]
  BY DEF Below
<1>2. ASSUME NEW i \in 1 .. d - 1
      PROVE  \/ cnt[r[i].at][k] = r[i].count
             \/ Answered(r, d, d, k, wait2, i + 1)
  <2>1. cnt[s[i].at][k] = s[i].count \/ Answered(s, d, d, k, wait, i + 1)
    BY DEF Counts
  <2>2. CASE i + 1 = d
    <3>1. ~Answered(s, d, d, k, wait, d)
      <4>1. 2 * d - d = d
        OBVIOUS
      <4>2. QED
        BY <4>1 DEF Answered
    <3>2. QED
      BY <1>1, <2>1, <2>2, <3>1
  <2>3. CASE i + 1 # d
    <3>1. i + 1 \in 1 .. d - 1 /\ ~(2 * d - (i + 1) <= d)
      BY <2>3
    <3>2. wait2[s[i + 1].at][k] = wait[s[i + 1].at][k]
      BY <3>1 DEF AgreeBelow
    <3>3. r[i] = s[i] /\ r[i + 1] = s[i + 1]
      BY <1>1, <3>1
    <3>4. QED
      BY <2>1, <3>1, <3>2, <3>3 DEF Answered
  <2>4. QED
    BY <2>2, <2>3
<1>3. QED
  BY <1>2 DEF Counts

\* The counts after a probe has been sent.
LEMMA CountsProbe ==
  ASSUME NEW s, NEW r, NEW k, NEW wait, NEW cnt, NEW d \in Nat,
         NEW cnt2, Below(s, r, d), Counts(s, d, d, k, wait, cnt),
         AgreeBelow(s, d, k, cnt, cnt2),
         s[d].pc = "loop", r[d].pc = "loop", r[d].at = s[d].at,
         cnt2[r[d].at][k] = r[d].count
  PROVE  Counts(r, d + 1, d + 1, k, wait, cnt2)
<1>1. \A i \in 1 .. d - 1 : r[i] = s[i]
  BY DEF Below
<1>2. ASSUME NEW i \in 1 .. d
      PROVE  \/ cnt2[r[i].at][k] = r[i].count
             \/ Answered(r, d + 1, d + 1, k, wait, i + 1)
  <2>1. CASE i = d
    BY <2>1
  <2>2. CASE i # d
    <3>1. i \in 1 .. d - 1 /\ i + 1 \in 1 .. d
      BY <2>2
    <3>2. cnt[s[i].at][k] = s[i].count \/ Answered(s, d, d, k, wait, i + 1)
      BY <3>1 DEF Counts
    <3>3. cnt2[s[i].at][k] = cnt[s[i].at][k] /\ r[i] = s[i]
      BY <1>1, <3>1 DEF AgreeBelow
    <3>4. CASE i + 1 = d
      <4>1. 2 * d - d = d
        OBVIOUS
      <4>2. Answered(s, d, d, k, wait, d) => ~wait[s[d].at][k]
        BY <4>1 DEF Answered
      <4>3. QED
        BY <3>2, <3>3, <3>4, <4>2 DEF Answered
    <3>5. CASE i + 1 # d
      <4>1. i + 1 \in 1 .. d - 1 /\ ~(2 * d - (i + 1) <= d)
        BY <3>1, <3>5
      <4>2. r[i + 1] = s[i + 1]
        BY <1>1, <4>1
      <4>3. QED
        BY <3>2, <3>3, <4>1, <4>2 DEF Answered
    <3>6. QED
      BY <3>4, <3>5
  <2>3. QED
    BY <2>1, <2>2
<1>3. QED
  BY <1>2 DEF Counts

\* The first answer of a chain.
LEMMA CountsAnswer ==
  ASSUME NEW s, NEW r, NEW k, NEW wait, NEW cnt, NEW d \in Nat, d > 1,
         Below(s, r, d), Counts(s, d, d, k, wait, cnt),
         s[d].pc \notin {"loop", "clear", "done"}, r[d].pc = "done",
         r[d + 1].pc = "hop"
  PROVE  Counts(r, d + 1, d, k, wait, cnt)
<1>1. \A i \in 1 .. d - 1 : r[i] = s[i]
  BY DEF Below
<1>2. 2 * d - d = d /\ 2 * d - (d + 1) = d - 1 /\ d - 1 \in 1 .. d - 1
      /\ d - 1 + 1 = d
  OBVIOUS
<1>3. cnt[s[d - 1].at][k] = s[d - 1].count
  BY <1>2 DEF Counts, Answered
<1>4. ASSUME NEW i \in 1 .. d - 1
      PROVE  \/ cnt[r[i].at][k] = r[i].count
             \/ Answered(r, d + 1, d, k, wait, i + 1)
  <2>1. CASE i = d - 1
    BY <2>1, <1>1, <1>3
  <2>2. CASE i # d - 1
    <3>1. i + 1 \in 1 .. d - 1 /\ ~(2 * d - (i + 1) <= d)
      BY <2>2
    <3>2. cnt[s[i].at][k] = s[i].count \/ Answered(s, d, d, k, wait, i + 1)
      BY DEF Counts
    <3>3. r[i] = s[i] /\ r[i + 1] = s[i + 1]
      BY <1>1, <3>1
    <3>4. QED
      BY <3>1, <3>2, <3>3 DEF Answered
  <2>3. QED
    BY <2>1, <2>2
<1>5. cnt[r[2 * d - (d + 1)].at][k] = r[2 * d - (d + 1)].count
  BY <1>1, <1>2, <1>3
<1>6. QED
  BY <1>4, <1>5 DEF Counts

\* An answer on its way.
LEMMA CountsMoveAnswer ==
  ASSUME NEW s, NEW r, NEW k, NEW wait, NEW cnt, NEW d \in Nat, NEW n \in Nat,
         d < n, n < 2 * d, Below(s, r, n), Counts(s, n, d, k, wait, cnt),
         s[n].pc # "clear", r[n].pc # "clear",
         s[n].pc # "done",
         r[n].pc = "countdown" => wait[s[2 * d - n].at][k]
  PROVE  Counts(r, n, d, k, wait, cnt)
<1>1. \A i \in 1 .. n - 1 : r[i] = s[i]
  BY DEF Below
<1>2. ASSUME NEW i \in 1 .. d - 1
      PROVE  \/ cnt[r[i].at][k] = r[i].count
             \/ Answered(r, n, d, k, wait, i + 1)
  <2>1. cnt[s[i].at][k] = s[i].count \/ Answered(s, n, d, k, wait, i + 1)
    BY DEF Counts
  <2>2. r[i] = s[i] /\ r[i + 1] = s[i + 1]
    BY <1>1
  <2>3. CASE 2 * d - (i + 1) = n
    BY <2>1, <2>2, <2>3 DEF Answered
  <2>4. CASE 2 * d - (i + 1) < n
    <3>1. 2 * d - (i + 1) \in 1 .. n - 1
      BY <2>4
    <3>2. r[2 * d - (i + 1)] = s[2 * d - (i + 1)]
      BY <1>1, <3>1
    <3>3. QED
      BY <2>1, <2>2, <3>2 DEF Answered
  <2>5. CASE 2 * d - (i + 1) > n
    BY <2>1, <2>2, <2>5 DEF Answered
  <2>6. QED
    BY <2>3, <2>4, <2>5
<1>3. 2 * d - n \in 1 .. n - 1
  OBVIOUS
<1>4. r[2 * d - n] = s[2 * d - n]
  BY <1>1, <1>3
<1>5. cnt[s[2 * d - n].at][k] = s[2 * d - n].count
  BY DEF Counts
<1>6. QED
  BY <1>2, <1>4, <1>5 DEF Counts

\* The node at position j of the chain drops an answer or counts it: its
\* count may change, for its prober has been answered.
LEMMA CountsDrop ==
  ASSUME NEW s, NEW r, NEW k, NEW wait, NEW cnt, NEW d \in Nat, NEW n \in Nat,
         NEW cnt2, Shape(s, n, d), d < n, Below(s, r, n),
         Counts(s, n, d, k, wait, cnt), s[n].pc \notin {"clear", "done"},
         \A i \in 1 .. d - 1 :
           i # 2 * d - n => cnt2[s[i].at][k] = cnt[s[i].at][k]
  PROVE  Counts(r, n - 1, d, k, wait, cnt2)
<1>1. /\ \A i \in 1 .. n - 1 : r[i] = s[i]
      /\ n < 2 * d /\ \A i \in d + 1 .. n - 1 : s[i].pc = "clear"
      /\ s[d].pc = "done"
  BY DEF Below, Shape
<1>2. ASSUME NEW i \in 1 .. d - 1
      PROVE  \/ cnt2[r[i].at][k] = r[i].count
             \/ Answered(r, n - 1, d, k, wait, i + 1)
  <2> DEFINE m == 2 * d - (i + 1)
  <2>1. cnt[s[i].at][k] = s[i].count \/ Answered(s, n, d, k, wait, i + 1)
    BY DEF Counts
  <2>2. r[i] = s[i] /\ r[i + 1] = s[i + 1]
    BY <1>1
  <2>3. CASE m = n - 1
    <3>1. r[m].pc \in {"clear", "done"}
      BY <1>1, <2>3
    <3>2. QED
      BY <2>3, <3>1 DEF Answered
  <2>4. CASE m < n - 1
    <3>1. m \in 1 .. n - 1 /\ r[m] = s[m] /\ i # 2 * d - n
      BY <2>4, <1>1
    <3>2. QED
      BY <2>1, <2>2, <2>4, <3>1 DEF Answered
  <2>5. CASE m > n - 1
    <3>1. i # 2 * d - n
      BY <2>5
    <3>2. ~(m <= n /\ s[m].pc \in {"clear", "done"})
      BY <2>5
    <3>3. QED
      BY <2>1, <2>2, <3>1, <3>2 DEF Answered
  <2>6. QED
    BY <2>3, <2>4, <2>5
<1>3. d < n - 1 => r[n - 1].pc = "clear"
  BY <1>1
<1>4. QED
  BY <1>2, <1>3 DEF Counts

\* The node at position j counts its last answer and answers its prober.
LEMMA CountsResolve ==
  ASSUME NEW s, NEW r, NEW k, NEW wait, NEW cnt, NEW d \in Nat, NEW n \in Nat,
         NEW cnt2, NEW m, m = n \/ m = n + 1,
         Shape(s, n, d), d < n, Below(s, r, n),
         Counts(s, n, d, k, wait, cnt), s[n].pc = "countdown",
         r[n].pc = "clear", m = n + 1 => r[m].pc = "hop" /\ m < 2 * d,
         \A i \in 1 .. d - 1 :
           i # 2 * d - n => cnt2[s[i].at][k] = cnt[s[i].at][k]
  PROVE  Counts(r, m, d, k, wait, cnt2)
<1>1. /\ \A i \in 1 .. n - 1 : r[i] = s[i]
      /\ n < 2 * d /\ \A i \in d + 1 .. n - 1 : s[i].pc = "clear"
      /\ s[d].pc = "done" /\ m \in Nat
  BY DEF Below, Shape
<1>2. ASSUME NEW i \in 1 .. d - 1
      PROVE  \/ cnt2[r[i].at][k] = r[i].count
             \/ Answered(r, m, d, k, wait, i + 1)
  <2> DEFINE p == 2 * d - (i + 1)
  <2>1. cnt[s[i].at][k] = s[i].count \/ Answered(s, n, d, k, wait, i + 1)
    BY DEF Counts
  <2>2. r[i] = s[i] /\ r[i + 1] = s[i + 1]
    BY <1>1
  <2>3. CASE p = n
    <3>1. p <= m
      BY <2>3
    <3>2. QED
      BY <2>3, <3>1 DEF Answered
  <2>4. CASE p = n - 1
    <3>1. r[p].pc \in {"clear", "done"} /\ p <= m
      BY <1>1, <2>4
    <3>2. QED
      BY <3>1 DEF Answered
  <2>5. CASE p < n - 1
    <3>1. p \in 1 .. n - 1 /\ r[p] = s[p] /\ i # 2 * d - n /\ p <= m /\ p <= n
      BY <2>5, <1>1
    <3>2. QED
      BY <2>1, <2>2, <3>1 DEF Answered
  <2>6. CASE p > n
    <3>1. i # 2 * d - n /\ ~(p <= n)
      BY <2>6
    <3>2. QED
      BY <2>1, <2>2, <3>1 DEF Answered
  <2>7. QED
    BY <2>3, <2>4, <2>5, <2>6
<1>3. ASSUME m = n + 1
      PROVE  cnt2[r[2 * d - m].at][k] = r[2 * d - m].count
  <2> DEFINE i == 2 * d - m
  <2>1. i \in 1 .. d - 1 /\ i + 1 = 2 * d - n /\ 2 * d - (i + 1) = n
        /\ i # 2 * d - n /\ i + 1 \in 1 .. d - 1
    BY <1>1, <1>3
  <2>2. wait[s[i + 1].at][k]
    BY <2>1 DEF Counts
  <2> HIDE DEF i
  <2>3. ~Answered(s, n, d, k, wait, i + 1)
    BY <2>1, <2>2 DEF Answered
  <2>4. cnt[s[i].at][k] = s[i].count
    BY <2>1, <2>3 DEF Counts
  <2>5. r[i] = s[i] /\ cnt2[s[i].at][k] = cnt[s[i].at][k]
    BY <1>1, <2>1
  <2>6. QED
    BY <2>4, <2>5 DEF i
<1>4. QED
  BY <1>1, <1>2, <1>3 DEF Counts

\* A node that has answered no longer waits for answers.
LEMMA CountsClear ==
  ASSUME NEW s, NEW r, NEW k, NEW wait, NEW cnt, NEW d \in Nat, NEW n \in Nat,
         NEW wait2, Shape(s, n, d), d < n, Below(s, r, n),
         Counts(s, n, d, k, wait, cnt), ~wait2[s[2 * d - n].at][k],
         \A i \in 1 .. d : ~wait[s[i].at][k] => ~wait2[s[i].at][k]
  PROVE  Counts(r, n - 1, d, k, wait2, cnt)
<1>1. /\ \A i \in 1 .. n - 1 : r[i] = s[i]
      /\ n < 2 * d /\ \A i \in d + 1 .. n - 1 : s[i].pc = "clear"
      /\ \A i \in 1 .. d - 1 : s[i].pc = "loop"
  BY DEF Below, Shape, Probes
<1>2. ASSUME NEW i \in 1 .. d - 1
      PROVE  \/ cnt[r[i].at][k] = r[i].count
             \/ Answered(r, n - 1, d, k, wait2, i + 1)
  <2> DEFINE m == 2 * d - (i + 1)
  <2>1. cnt[s[i].at][k] = s[i].count \/ Answered(s, n, d, k, wait, i + 1)
    BY DEF Counts
  <2>2. r[i] = s[i] /\ r[i + 1] = s[i + 1]
    BY <1>1
  <2>3. CASE m = n
    <3>1. i + 1 = 2 * d - n /\ i + 1 \in 1 .. d - 1
      BY <2>3
    <3>2. s[i + 1].pc = "loop" /\ ~wait2[s[i + 1].at][k]
      BY <1>1, <3>1
    <3>3. QED
      BY <2>2, <3>2 DEF Answered
  <2>4. CASE m < n
    <3>1. m \in 1 .. n - 1 /\ r[m] = s[m] /\ m <= n - 1
      BY <2>4, <1>1
    <3>2. ~wait[s[i + 1].at][k] => ~wait2[s[i + 1].at][k]
      OBVIOUS
    <3>3. QED
      BY <2>1, <2>2, <3>1, <3>2 DEF Answered
  <2>5. CASE m > n
    <3>1. ~wait[s[i + 1].at][k] => ~wait2[s[i + 1].at][k]
      OBVIOUS
    <3>2. ~(m <= n)
      BY <2>5
    <3>3. QED
      BY <2>1, <2>2, <3>1, <3>2 DEF Answered
  <2>6. QED
    BY <2>3, <2>4, <2>5
<1>3. d < n - 1 => r[n - 1].pc = "clear"
  BY <1>1
<1>4. QED
  BY <1>2, <1>3 DEF Counts

-----------------------------------------------------------------------------
(* What the steps of a handler do to the stack of its request.             *)

\* The parts of a handler that a step keeps which does not probe.
Kept(f, g) == Same(f, g) /\ g.k = f.k /\ g.count = f.count /\ g.todo = f.todo

\* The handler that executes is the last of a nonempty stack.
LEMMA TopOfStack ==
  ASSUME DetectionTypeOK, NEW t \in Task, ~Idle(t)
  PROVE  LET s == calls[t]
             n == Len(s)
         IN  /\ s \in Seq(DetectionFrame) /\ s # << >>
             /\ n \in Nat /\ n >= 1
             /\ Top(t) = s[n] /\ s[n] \in DetectionFrame
             /\ \A i \in 1 .. n : s[i] \in DetectionFrame
BY DEF DetectionTypeOK, Idle, Top

\* A return removes the last handler.
LEMMA EffectOfReturn ==
  ASSUME DetectionTypeOK, NEW t \in Task, ~Idle(t), Return(t)
  PROVE  LET s == calls[t]
             r == calls'[t]
             n == Len(s)
         IN  /\ Len(r) = n - 1 /\ Below(s, r, n)
             /\ \A u \in Task \ {t} : calls'[u] = calls[u]
BY ReturnEffect DEF DetectionTypeOK, Below

\* A step replaces the last handler.
LEMMA EffectOfGoto ==
  ASSUME DetectionTypeOK, NEW t \in Task, ~Idle(t),
         NEW g \in DetectionFrame, Goto(t, g)
  PROVE  LET s == calls[t]
             r == calls'[t]
             n == Len(s)
         IN  /\ Len(r) = n /\ Below(s, r, n) /\ r[n] = g
             /\ \A u \in Task \ {t} : calls'[u] = calls[u]
BY GotoEffect DEF DetectionTypeOK, Below

\* A step that changes only where the handler is.
LEMMA EffectOfMove ==
  ASSUME DetectionTypeOK, NEW t \in Task, ~Idle(t),
         NEW pc \in {"mark", "read", "hop", "test", "engage", "again", "loop",
                     "check", "countdown", "clear", "done"},
         Goto(t, [Top(t) EXCEPT !.pc = pc])
  PROVE  LET s == calls[t]
             r == calls'[t]
             n == Len(s)
         IN  /\ Len(r) = n /\ Below(s, r, n)
             /\ Kept(s[n], r[n]) /\ r[n].pc = pc
             /\ \A u \in Task \ {t} : calls'[u] = calls[u]
<1> DEFINE f == Top(t)
           g == [f EXCEPT !.pc = pc]
<1>1. f \in DetectionFrame /\ f = calls[t][Len(calls[t])]
  BY TopOfStack
<1> HIDE DEF f
<1>2. g \in DetectionFrame
  BY <1>1, MovedIsFrame
<1>3. Kept(f, g) /\ g.pc = pc
  BY <1>1 DEF DetectionFrame, Kept, Same
<1>4. Goto(t, g)
  BY DEF f
<1> HIDE DEF g
<1>5. QED
  BY <1>1, <1>2, <1>3, <1>4, EffectOfGoto

\* A message that is passed on stays the message it is.
LEMMA EffectOfForward ==
  ASSUME DetectionTypeOK, NEW t \in Task, ForwardMessage(t)
  PROVE  LET s == calls[t]
             r == calls'[t]
             n == Len(s)
         IN  /\ ~Idle(t) /\ s[n].pc = "hop"
             /\ Len(r) = n /\ Below(s, r, n)
             /\ r[n].pc = "hop" /\ r[n].fn = s[n].fn /\ r[n].k = s[n].k
             /\ r[n].from = s[n].from /\ r[n].to = s[n].to
             /\ r[n].count = s[n].count
             /\ \A u \in Task \ {t} : calls'[u] = calls[u]
<1> DEFINE f == Top(t)
           g == [f EXCEPT !.at = Succ[f.at]]
<1>0. ~Idle(t) /\ f.pc = "hop" /\ Goto(t, g)
  BY DEF ForwardMessage, Forward
<1>1. f \in DetectionFrame /\ f = calls[t][Len(calls[t])]
  BY <1>0, TopOfStack
<1> HIDE DEF f
<1>2. Succ[f.at] \in Node
  BY <1>1, RingAssumption DEF DetectionFrame
<1>3. /\ g \in DetectionFrame /\ g.pc = f.pc /\ g.fn = f.fn /\ g.k = f.k
      /\ g.from = f.from /\ g.to = f.to /\ g.count = f.count
  BY <1>1, <1>2 DEF DetectionFrame
<1> HIDE DEF g
<1>4. QED
  BY <1>0, <1>1, <1>3, EffectOfGoto

\* A call adds the handler of a message.
LEMMA EffectOfCall ==
  ASSUME DetectionTypeOK, NEW t \in Task, ~Idle(t), NEW kind \in {"probe", "answer"},
         NEW g \in DetectionFrame, NEW n \in Node, Call(t, g, Message(g, kind, n))
  PROVE  LET s == calls[t]
             r == calls'[t]
             l == Len(s)
         IN  /\ Len(r) = l + 1 /\ Below(s, r, l) /\ r[l] = g
             /\ r[l + 1].fn = kind /\ r[l + 1].pc = "hop"
             /\ r[l + 1].from = g.at /\ r[l + 1].to = n /\ r[l + 1].count = 0
             /\ \A u \in Task \ {t} : calls'[u] = calls[u]
<1> DEFINE h == Message(g, kind, n)
<1>1. h \in DetectionFrame
  BY MessageIsFrame
<1>2. /\ h.fn = kind /\ h.pc = "hop" /\ h.from = g.at /\ h.to = n
      /\ h.count = 0
  BY DEF Message
<1> HIDE DEF h
<1>3. Call(t, g, h)
  BY DEF h
<1>4. calls \in [Task -> Seq(DetectionFrame)]
  BY DEF DetectionTypeOK
<1>5. /\ Len(calls'[t]) = Len(calls[t]) + 1
      /\ \A i \in 1 .. Len(calls[t]) - 1 : calls'[t][i] = calls[t][i]
      /\ calls'[t][Len(calls[t])] = g
      /\ calls'[t][Len(calls[t]) + 1] = h
      /\ \A u \in Task \ {t} : calls'[u] = calls[u]
  BY <1>1, <1>3, <1>4, CallEffect
<1>6. QED
  BY <1>2, <1>5 DEF Below

\* An answer adds its handler and leaves the caller as it is.
LEMMA EffectOfAnswer ==
  ASSUME DetectionTypeOK, NEW t \in Task, ~Idle(t), NEW pc \in {"done", "clear"},
         NEW n \in Node,
         Call(t, [Top(t) EXCEPT !.pc = pc], Message(Top(t), "answer", n))
  PROVE  LET s == calls[t]
             r == calls'[t]
             l == Len(s)
         IN  /\ Len(r) = l + 1 /\ Below(s, r, l)
             /\ Kept(s[l], r[l]) /\ r[l].pc = pc
             /\ r[l + 1].fn = "answer" /\ r[l + 1].pc = "hop"
             /\ r[l + 1].to = n
             /\ \A u \in Task \ {t} : calls'[u] = calls[u]
<1> DEFINE f == Top(t)
           g == [f EXCEPT !.pc = pc]
<1>1. f \in DetectionFrame /\ f = calls[t][Len(calls[t])]
  BY TopOfStack
<1> HIDE DEF f
<1>2. g \in DetectionFrame
  BY <1>1, MovedIsFrame
<1>3. Kept(f, g) /\ g.pc = pc /\ g.at = f.at /\ g.k = f.k /\ g.m = f.m
  BY <1>1 DEF DetectionFrame, Kept, Same
<1>4. Message(f, "answer", n) = Message(g, "answer", n)
  BY <1>3 DEF Message
<1>5. Call(t, g, Message(g, "answer", n))
  BY <1>4 DEF f
<1> HIDE DEF g
<1>6. QED
  BY <1>1, <1>2, <1>3, <1>5, EffectOfCall

\* A probe is counted, and its handler is added.
LEMMA EffectOfSendProbe ==
  ASSUME DetectionTypeOK, NEW t \in Task, NEW n \in Node, SendProbe(t, n)
  PROVE  LET s == calls[t]
             r == calls'[t]
             l == Len(s)
         IN  /\ ~Idle(t) /\ s[l].pc = "loop" /\ s[l].fn \in {"start", "probe"}
             /\ n \in s[l].todo
             /\ Len(r) = l + 1 /\ Below(s, r, l)
             /\ Same(s[l], r[l]) /\ r[l].k = s[l].k /\ r[l].pc = "loop"
             /\ r[l].todo = s[l].todo \ {n} /\ r[l].count = s[l].count + 1
             /\ r[l + 1].fn = "probe" /\ r[l + 1].pc = "hop"
             /\ r[l + 1].from = s[l].at /\ r[l + 1].to = n /\ r[l + 1].count = 0
             /\ probeCount' = [probeCount EXCEPT
                  ![s[l].at][s[l].k] = (s[l].count + 1) % CountModulus]
             /\ \A u \in Task \ {t} : calls'[u] = calls[u]
<1> DEFINE f == Top(t)
           g == [f EXCEPT !.todo = @ \ {n}, !.count = @ + 1]
<1>0. /\ ~Idle(t) /\ f.pc = "loop" /\ f.fn \in {"start", "probe"}
      /\ n \in f.todo /\ Call(t, g, Message(g, "probe", n))
      /\ probeCount' = [probeCount EXCEPT ![g.at][g.k] = g.count % CountModulus]
  BY DEF SendProbe, At
<1>1. f \in DetectionFrame /\ f = calls[t][Len(calls[t])]
  BY <1>0, TopOfStack
<1> HIDE DEF f
<1>2. f.todo \ {n} \in SUBSET Node /\ f.count + 1 \in Nat
  BY <1>1 DEF DetectionFrame
<1>3. g \in DetectionFrame
  BY <1>1, <1>2, LoopIsFrame
<1>4. /\ Same(f, g) /\ g.pc = f.pc /\ g.k = f.k /\ g.todo = f.todo \ {n}
      /\ g.count = f.count + 1
  BY <1>1 DEF DetectionFrame, Same
<1> HIDE DEF g
<1>5. QED
  BY <1>0, <1>1, <1>3, <1>4, EffectOfCall DEF Same

\* A node enters the test and has every probe still to send.
LEMMA EffectOfEngage ==
  ASSUME DetectionTypeOK, NEW t \in Task, Engage(t)
  PROVE  LET s == calls[t]
             r == calls'[t]
             n == Len(s)
         IN  /\ ~Idle(t) /\ s[n].pc = "engage" /\ s[n].fn = "probe"
             /\ Len(r) = n /\ Below(s, r, n)
             /\ Same(s[n], r[n]) /\ r[n].k = s[n].k /\ r[n].pc = "loop"
             /\ r[n].todo = waitingFrom[s[n].at] /\ r[n].count = s[n].count
             /\ lastTest' = [lastTest EXCEPT ![s[n].at][s[n].k] = s[n].m]
             /\ waitStatus' = [waitStatus EXCEPT ![s[n].at][s[n].k] = TRUE]
             /\ parent' = [parent EXCEPT ![s[n].at][s[n].k] = s[n].from]
             /\ \A u \in Task \ {t} : calls'[u] = calls[u]
<1> DEFINE f == Top(t)
           g == [f EXCEPT !.pc = "loop", !.todo = waitingFrom[f.at]]
<1>0. /\ ~Idle(t) /\ f.pc = "engage" /\ f.fn = "probe" /\ Goto(t, g)
      /\ lastTest' = [lastTest EXCEPT ![f.at][f.k] = f.m]
      /\ waitStatus' = [waitStatus EXCEPT ![f.at][f.k] = TRUE]
      /\ parent' = [parent EXCEPT ![f.at][f.k] = f.from]
  BY DEF Engage, At
<1>1. f \in DetectionFrame /\ f = calls[t][Len(calls[t])]
  BY <1>0, TopOfStack
<1> HIDE DEF f
<1>2. waitingFrom[f.at] \in SUBSET Node
  BY <1>1 DEF DetectionTypeOK, DetectionFrame
<1>3. g \in DetectionFrame
  BY <1>1, <1>2, LoopIsFrame
<1>4. /\ Same(f, g) /\ g.pc = "loop" /\ g.k = f.k
      /\ g.todo = waitingFrom[f.at] /\ g.count = f.count
  BY <1>1 DEF DetectionFrame, Same
<1> HIDE DEF g
<1>5. QED
  BY <1>0, <1>1, <1>3, <1>4, EffectOfGoto

\* The REST handler starts to probe.
LEMMA EffectOfRead ==
  ASSUME DetectionTypeOK, NEW t \in Task, ReadTest(t)
  PROVE  LET s == calls[t]
             r == calls'[t]
             n == Len(s)
         IN  /\ ~Idle(t) /\ s[n].pc = "read" /\ s[n].fn = "start"
             /\ Len(r) = n /\ Below(s, r, n)
             /\ Same(s[n], r[n]) /\ r[n].k = s[n].k /\ r[n].pc = "loop"
             /\ r[n].todo = waitingFrom[s[n].at] /\ r[n].count = s[n].count
             /\ \A u \in Task \ {t} : calls'[u] = calls[u]
<1> DEFINE f == Top(t)
           m == lastTest[f.at][f.at]
           g == [f EXCEPT !.pc = "loop", !.m = m, !.todo = waitingFrom[f.at]]
<1>0. ~Idle(t) /\ f.pc = "read" /\ f.fn = "start" /\ Goto(t, g)
  BY DEF ReadTest, At
<1>1. f \in DetectionFrame /\ f = calls[t][Len(calls[t])]
  BY <1>0, TopOfStack
<1> HIDE DEF f
<1>2. waitingFrom[f.at] \in SUBSET Node /\ m \in Nat
  <2>1. f.at \in Node
    BY <1>1 DEF DetectionFrame
  <2>2. QED
    BY <2>1 DEF DetectionTypeOK
<1> HIDE DEF m
<1>3. g \in DetectionFrame
  BY <1>1, <1>2, LoopIsFrame
<1>4. /\ Same(f, g) /\ g.pc = "loop" /\ g.k = f.k
      /\ g.todo = waitingFrom[f.at] /\ g.count = f.count
  BY <1>1 DEF DetectionFrame, Same
<1> HIDE DEF g
<1>5. QED
  BY <1>0, <1>1, <1>3, <1>4, EffectOfGoto

-----------------------------------------------------------------------------
(* The chain of a request stays in order.                                  *)

\* The ring has fewer nodes than a u32 can count.
SmallRing == IsFiniteSet(Node) /\ Cardinality(Node) < CountModulus

\* A node waits for finitely many nodes.
LEMMA WaitsAreCounted ==
  ASSUME SmallRing, NEW S, S \subseteq Node
  PROVE  Cardinality(S) \in Nat
BY FS_Subset, FS_CardinalityType DEF SmallRing

\* The first d handlers of stack s probe, in order.
Chain(s, d, last, par, wait, cnt) ==
  /\ Shape(s, Len(s), d)
  /\ Nodes(s, d, s[1].k, last, par)
  /\ Counts(s, Len(s), d, s[1].k, wait, cnt)

\* Request t runs, with its first d handlers probing.
OnChain(t, d) ==
  ~Idle(t) /\ Chain(calls[t], d, lastTest, parent, waitStatus, probeCount)

\* A step of a handler of a probe is one of the last handler that probes, a
\* step of a handler of an answer belongs to the node of an earlier one.
LEMMA TopOfChain ==
  ASSUME DetectionTypeOK, TestNumbers, NEW t \in Task, NEW d, OnChain(t, d)
  PROVE  LET s == calls[t]
             n == Len(s)
             k == s[1].k
             j == 2 * d - n
         IN  /\ n \in Nat /\ n >= 1 /\ d \in 1 .. n
             /\ k \in Node /\ s[n].k = k /\ Top(t) = s[n]
             /\ \A i \in 1 .. n : s[i] \in DetectionFrame /\ s[i].at \in Node
             /\ s[1].fn = "start" /\ s[1].at = k
             /\ \A i \in 2 .. n : s[i].fn # "start" /\ s[i].m = lastTest[k][k]
             /\ s[n].fn = "start" => n = 1
             /\ s[n].fn # "answer" => d = n
             /\ s[n].fn = "probe" => n > 1
             /\ s[n].fn = "answer" =>
                  /\ d < n /\ j \in 1 .. d - 1 /\ s[j].pc = "loop"
                  /\ s[n].to = s[j].at
                  /\ s[n].pc # "hop" => s[n].at = s[j].at
<1> DEFINE s == calls[t]
           n == Len(s)
           k == s[1].k
           j == 2 * d - n
<1>1. ~Idle(t) /\ Shape(s, n, d)
  BY DEF OnChain, Chain
<1>2. /\ s \in Seq(DetectionFrame) /\ s # << >> /\ n \in Nat /\ n >= 1
      /\ Top(t) = s[n] /\ s[n] \in DetectionFrame
      /\ \A i \in 1 .. n : s[i] \in DetectionFrame
  BY <1>1, TopOfStack
<1>3. \A i \in 1 .. n : s[i].at \in Node
  BY <1>2 DEF DetectionFrame
<1>4. OneTestStack(s, lastTest)
  BY DEF TestNumbers
<1>5. /\ k \in Node /\ s[n].k = k
      /\ s[n].fn = "start" => n = 1
      /\ s[n].fn # "start" => n > 1
  BY <1>1, <1>2, TopOfTest
<1> HIDE DEF n, s, k
<1>6. /\ s[1].fn = "start" /\ s[1].at = k
      /\ \A i \in 2 .. n : s[i].fn # "start" /\ s[i].m = lastTest[k][k]
  BY <1>2, <1>4 DEF OneTestStack, RootFrame, TestFrame, k, n
<1>7. /\ d \in 1 .. n /\ n < 2 * d
      /\ \A i \in 1 .. d : s[i].fn # "answer"
      /\ \A i \in d + 1 .. n : Mirrors(s[2 * d - i], s[i])
      /\ \A i \in 1 .. d - 1 : s[i].pc = "loop"
  BY <1>1 DEF Shape, Probes
<1>8. s[n].fn # "answer" => d = n
  <2>1. d < n => n \in d + 1 .. n
    BY <1>2, <1>7
  <2>2. d < n => s[n].fn = "answer"
    BY <1>7, <2>1 DEF Mirrors
  <2>3. QED
    BY <1>2, <1>7, <2>2
<1>9. ASSUME s[n].fn = "answer"
      PROVE  /\ d < n /\ j \in 1 .. d - 1 /\ s[j].pc = "loop"
             /\ s[n].to = s[j].at
             /\ s[n].pc # "hop" => s[n].at = s[j].at
  <2>1. d < n
    <3>1. d # n
      BY <1>7, <1>9
    <3>2. QED
      BY <1>2, <1>7, <3>1
  <2>2. j \in 1 .. d - 1 /\ n \in d + 1 .. n
    BY <1>2, <1>7, <2>1
  <2>3. Mirrors(s[j], s[n])
    BY <1>7, <2>2
  <2> HIDE DEF j
  <2>4. s[j].pc = "loop"
    BY <1>7, <2>2
  <2>5. QED
    BY <2>1, <2>2, <2>3, <2>4 DEF Mirrors
<1>10. QED
  BY <1>2, <1>3, <1>5, <1>6, <1>7, <1>8, <1>9 DEF n, s, k, j

\* A handler of a probe, or the REST handler, returns.
LEMMA ChainPop ==
  ASSUME DetectionTypeOK, TestNumbers, NEW t \in Task, NEW d, OnChain(t, d),
         Return(t), Top(t).fn # "answer", Len(calls[t]) > 1,
         lastTest' = lastTest, parent' = parent, waitStatus' = waitStatus,
         AgreeBelow(calls[t], d, calls[t][1].k, probeCount, probeCount')
  PROVE  Chain(calls'[t], d - 1, lastTest', parent', waitStatus', probeCount')
<1> DEFINE s == calls[t]
           r == calls'[t]
           k == s[1].k
<1>1. /\ Len(s) = d /\ d \in Nat /\ d > 1
      /\ Len(r) = d - 1 /\ Below(s, r, d)
  <2>1. Len(s) = d /\ d \in Nat /\ d > 1
    BY TopOfChain
  <2>2. ~Idle(t)
    BY DEF OnChain
  <2>3. Len(r) = Len(s) - 1 /\ Below(s, r, Len(s))
    BY <2>2, EffectOfReturn
  <2>4. QED
    BY <2>1, <2>3
<1>2. /\ Shape(s, d, d) /\ Nodes(s, d, k, lastTest, parent)
      /\ Counts(s, d, d, k, waitStatus, probeCount)
  BY <1>1 DEF OnChain, Chain
<1>3. r[1].k = k
  BY <1>1 DEF Below
<1> HIDE DEF s, r
<1>4. Shape(r, d - 1, d - 1)
  BY <1>1, <1>2, ShapePop
<1>5. Nodes(r, d - 1, k, lastTest, parent)
  BY <1>1, <1>2, NodesBelow
<1>6. Counts(r, d - 1, d - 1, k, waitStatus, probeCount')
  <2>1. /\ AgreeBelow(s, d, k, waitStatus, waitStatus)
        /\ AgreeBelow(s, d, k, probeCount, probeCount')
    BY DEF AgreeBelow, s
  <2>2. QED
    BY <1>1, <1>2, <2>1, CountsPop
<1>7. QED
  BY <1>1, <1>3, <1>4, <1>5, <1>6 DEF Chain, r

\* The last handler that probes goes on.
LEMMA ChainMove ==
  ASSUME DetectionTypeOK, TestNumbers, NEW t \in Task, NEW d, OnChain(t, d),
         Len(calls[t]) = d, Len(calls'[t]) = d, Below(calls[t], calls'[t], d),
         calls[t][d].pc \notin {"loop", "clear", "done"},
         calls'[t][d].fn = calls[t][d].fn, calls'[t][d].k = calls[t][d].k,
         calls'[t][d].from = calls[t][d].from,
         calls'[t][d].to = calls[t][d].to, calls'[t][d].pc # "loop",
         d > 1 /\ calls'[t][d].pc # "hop" => calls'[t][d].at = calls'[t][d].to,
         TakesPart(calls'[t][d], calls[t][1].k, lastTest, parent),
         lastTest' = lastTest, parent' = parent, waitStatus' = waitStatus,
         probeCount' = probeCount
  PROVE  Chain(calls'[t], d, lastTest', parent', waitStatus', probeCount')
<1> DEFINE s == calls[t]
           r == calls'[t]
           k == s[1].k
<1>1. d \in Nat /\ d >= 1
  BY TopOfChain
<1>2. /\ Shape(s, d, d) /\ Nodes(s, d, k, lastTest, parent)
      /\ Counts(s, d, d, k, waitStatus, probeCount)
  BY DEF OnChain, Chain
<1>3. r[1].k = k
  <2>1. CASE d = 1
    BY <2>1
  <2>2. CASE d > 1
    BY <2>2, <1>1 DEF Below
  <2>3. QED
    BY <2>1, <2>2, <1>1
<1>4. /\ Below(s, r, d) /\ Len(r) = d
      /\ r[d].fn = s[d].fn /\ r[d].from = s[d].from /\ r[d].to = s[d].to
      /\ r[d].pc # "loop" /\ s[d].pc \notin {"loop", "clear", "done"}
      /\ d > 1 /\ r[d].pc # "hop" => r[d].at = r[d].to
      /\ TakesPart(r[d], k, lastTest, parent)
  OBVIOUS
<1> HIDE DEF s, r, k
<1>5. Shape(r, d, d)
  BY <1>2, <1>4, ShapeMove
<1>6. Nodes(r, d, k, lastTest, parent)
  BY <1>1, <1>2, <1>4, NodesMove
<1>7. Counts(r, d, d, k, waitStatus, probeCount)
  <2>1. AgreeBelow(s, d, k, waitStatus, waitStatus)
    BY DEF AgreeBelow
  <2>2. QED
    BY <1>1, <1>2, <1>4, <2>1, CountsMove
<1>8. QED
  BY <1>3, <1>4, <1>5, <1>6, <1>7 DEF Chain, r

\* A handler sends a probe.
LEMMA ChainProbe ==
  ASSUME SmallRing, DetectionTypeOK, TestNumbers,
         NEW t \in Task, NEW d, OnChain(t, d), NEW n \in Node, SendProbe(t, n)
  PROVE  /\ d = Len(calls[t])
         /\ Chain(calls'[t], d + 1, lastTest', parent', waitStatus', probeCount')
<1> DEFINE s == calls[t]
           r == calls'[t]
           k == s[1].k
           x == s[d].at
           c == s[d].count + 1
<1>1. /\ Len(s) = d /\ d \in Nat /\ d >= 1 /\ k \in Node /\ s[d].k = k
      /\ \A i \in 1 .. d : s[i] \in DetectionFrame /\ s[i].at \in Node
  <2>1. s[Len(s)].fn \in {"start", "probe"}
    BY EffectOfSendProbe
  <2>2. QED
    BY <2>1, TopOfChain
<1>2. /\ s[d].pc = "loop" /\ n \in s[d].todo
      /\ Len(r) = d + 1 /\ Below(s, r, d)
      /\ Same(s[d], r[d]) /\ r[d].k = s[d].k /\ r[d].pc = "loop"
      /\ r[d].todo = s[d].todo \ {n} /\ r[d].count = c
      /\ r[d + 1].fn = "probe" /\ r[d + 1].pc = "hop"
      /\ r[d + 1].from = x /\ r[d + 1].to = n /\ r[d + 1].count = 0
  BY <1>1, EffectOfSendProbe
<1>3. probeCount' = [probeCount EXCEPT ![x][k] = c % CountModulus]
  <2>1. probeCount' = [probeCount EXCEPT
          ![s[Len(s)].at][s[Len(s)].k] = (s[Len(s)].count + 1) % CountModulus]
    BY EffectOfSendProbe
  <2> HIDE DEF s
  <2>2. QED
    BY <1>1, <2>1
<1>4. UNCHANGED << lastTest, waitStatus, parent >>
  BY DEF SendProbe
<1>5. /\ Shape(s, d, d) /\ Nodes(s, d, k, lastTest, parent)
      /\ Counts(s, d, d, k, waitStatus, probeCount)
  BY <1>1 DEF OnChain, Chain
<1>6. r[1].k = k
  <2>1. CASE d = 1
    BY <2>1, <1>2
  <2>2. CASE d > 1
    <3>1. 1 \in 1 .. d - 1
      BY <2>2, <1>1
    <3>2. r[1] = s[1]
      BY <3>1, <1>2 DEF Below
    <3>3. QED
      BY <3>2
  <2>3. QED
    BY <2>1, <2>2, <1>1
<1>7. probeCount \in [Node -> [Node -> 0 .. CountModulus - 1]]
  BY DEF DetectionTypeOK
<1>8. /\ s[d].todo \in SUBSET Node /\ s[d].count \in Nat /\ x \in Node
      /\ waitingFrom[x] \in SUBSET Node
  <2>1. s[d] \in DetectionFrame /\ x \in Node
    BY <1>1
  <2>2. s[d].todo \in SUBSET Node /\ s[d].count \in Nat
    BY <2>1 DEF DetectionFrame
  <2>3. QED
    BY <2>1, <2>2 DEF DetectionTypeOK
<1> HIDE DEF s, r, k, c
<1>9. TakesPart(s[d], k, lastTest, parent)
  BY <1>1, <1>5 DEF Nodes
<1>10. /\ n \in waitingFrom[x]
       /\ s[d].count + Cardinality(s[d].todo) = Cardinality(waitingFrom[x])
  BY <1>2, <1>9 DEF TakesPart
<1>11. /\ c + Cardinality(s[d].todo \ {n}) = Cardinality(waitingFrom[x])
       /\ c < CountModulus /\ c >= 1 /\ c \in Nat
  <2>1. /\ IsFiniteSet(s[d].todo) /\ IsFiniteSet(waitingFrom[x])
        /\ Cardinality(waitingFrom[x]) <= Cardinality(Node)
        /\ IsFiniteSet(Node)
    BY <1>8, FS_Subset DEF SmallRing
  <2>2. /\ Cardinality(s[d].todo \ {n}) = Cardinality(s[d].todo) - 1
        /\ IsFiniteSet(s[d].todo \ {n})
    BY <2>1, <1>2, FS_RemoveElement
  <2>3. /\ Cardinality(s[d].todo) \in Nat /\ Cardinality(Node) \in Nat
        /\ Cardinality(waitingFrom[x]) \in Nat
        /\ Cardinality(s[d].todo \ {n}) \in Nat
    BY <2>1, <2>2, FS_CardinalityType
  <2>4. Cardinality(Node) < CountModulus /\ CountModulus \in Nat
    BY DetectionAssumption DEF SmallRing
  <2>5. QED
    BY <2>1, <2>2, <2>3, <2>4, <1>8, <1>10 DEF c
<1>12. c % CountModulus = c
  BY <1>11, DetectionAssumption
<1>13. TakesPart(r[d], k, lastTest, parent)
  BY <1>2, <1>9, <1>11 DEF TakesPart, Same
<1>14. Shape(r, d + 1, d + 1)
  BY <1>2, <1>5, <1>10, <1>11, ShapeProbe
<1>15. Nodes(r, d + 1, k, lastTest, parent)
  <2>1. Nodes(r, d, k, lastTest, parent)
    BY <1>1, <1>2, <1>5, <1>13, NodesMove DEF Same
  <2>2. QED
    BY <1>1, <1>2, <2>1, NodesProbe
<1>16. Counts(r, d + 1, d + 1, k, waitStatus, probeCount')
  <2>1. probeCount'[x][k] = c
    BY <1>1, <1>3, <1>7, <1>8, <1>12
  <2>2. AgreeBelow(s, d, k, probeCount, probeCount')
    <3> SUFFICES ASSUME NEW i \in 1 .. d - 1
                 PROVE  probeCount'[s[i].at][k] = probeCount[s[i].at][k]
      BY DEF AgreeBelow
    <3>1. i \in 1 .. d /\ d \in 1 .. d /\ i < d /\ s[i].pc = "loop"
      BY <1>1, <1>5 DEF Shape, Probes
    <3>2. s[i].at # x
      BY <1>2, <1>5, <3>1 DEF Nodes
    <3>3. s[i].at \in Node
      BY <1>1, <3>1
    <3>4. QED
      BY <1>1, <1>3, <1>7, <1>8, <3>2, <3>3
  <2>3. r[d].at = x
    BY <1>2 DEF Same
  <2>4. QED
    BY <1>1, <1>2, <1>5, <2>1, <2>2, <2>3, CountsProbe
<1>17. QED
  BY <1>1, <1>2, <1>4, <1>6, <1>14, <1>15, <1>16 DEF Chain, r, s

\* The REST handler starts to probe.
LEMMA ChainRead ==
  ASSUME SmallRing, DetectionTypeOK, TestNumbers,
         NEW t \in Task, NEW d, OnChain(t, d),
         ReadTest(t)
  PROVE  /\ d = 1 /\ Len(calls[t]) = 1 /\ Len(calls'[t]) = 1
         /\ Chain(calls'[t], 1, lastTest', parent', waitStatus', probeCount')
<1> DEFINE s == calls[t]
           r == calls'[t]
           k == s[1].k
<1>1. /\ Len(s) = 1 /\ d = 1 /\ k \in Node /\ s[1].at = k
      /\ s[1] \in DetectionFrame
  <2>1. s[Len(s)].fn = "start"
    BY EffectOfRead
  <2>2. QED
    BY <2>1, TopOfChain
<1>2. /\ s[1].pc = "read" /\ s[1].fn = "start"
      /\ Len(r) = 1 /\ Same(s[1], r[1]) /\ r[1].k = k /\ r[1].pc = "loop"
      /\ r[1].todo = waitingFrom[k] /\ r[1].count = s[1].count
  BY <1>1, EffectOfRead
<1>3. Shape(s, 1, 1) /\ Nodes(s, 1, k, lastTest, parent)
  BY <1>1 DEF OnChain, Chain
<1>4. UNCHANGED << lastTest, parent >>
  BY DEF ReadTest, probeVars
<1>5. waitingFrom[k] \subseteq Node
  BY <1>1 DEF DetectionTypeOK
<1> HIDE DEF s, r, k
<1>6. ~isActive[k] /\ s[1].count = 0
  <2>1. TakesPart(s[1], k, lastTest, parent)
    BY <1>3 DEF Nodes
  <2>2. QED
    BY <1>1, <1>2, <2>1 DEF TakesPart
<1>7. Shape(r, 1, 1)
  <2>1. Below(s, r, 1)
    BY DEF Below
  <2>2. QED
    BY <1>2, <1>3, <2>1, ShapeMove DEF Same
<1>8. TakesPart(r[1], k, lastTest, parent)
  <2>1. r[1].at = k /\ r[1].fn = "start" /\ r[1].count = 0
    BY <1>1, <1>2, <1>6 DEF Same
  <2>2. r[1].count + Cardinality(r[1].todo) = Cardinality(waitingFrom[k])
    <3>1. Cardinality(waitingFrom[k]) \in Nat
      BY <1>5, WaitsAreCounted
    <3>2. QED
      BY <1>2, <2>1, <3>1
  <2>3. QED
    BY <1>2, <1>6, <2>1, <2>2 DEF TakesPart
<1>9. Nodes(r, 1, k, lastTest, parent)
  BY <1>8 DEF Nodes
<1>10. Counts(r, 1, 1, k, waitStatus', probeCount')
  BY DEF Counts
<1>11. QED
  BY <1>1, <1>2, <1>4, <1>7, <1>9, <1>10 DEF Chain, r, s

\* A node enters the test.
LEMMA ChainEngage ==
  ASSUME SmallRing, DetectionTypeOK, TestNumbers,
         NEW t \in Task, NEW d, OnChain(t, d),
         Engage(t)
  PROVE  /\ d = Len(calls[t]) /\ Len(calls'[t]) = d
         /\ Chain(calls'[t], d, lastTest', parent', waitStatus', probeCount')
<1> DEFINE s == calls[t]
           r == calls'[t]
           k == s[1].k
           x == s[d].at
           m == lastTest[k][k]
<1>1. /\ Len(s) = d /\ d \in Nat /\ d > 1 /\ k \in Node /\ s[d].k = k
      /\ \A i \in 1 .. d : s[i] \in DetectionFrame /\ s[i].at \in Node
      /\ s[d].m = m
  <2>1. s[Len(s)].fn = "probe"
    BY EffectOfEngage
  <2>2. QED
    BY <2>1, TopOfChain
<1>2. /\ s[d].pc = "engage" /\ s[d].fn = "probe"
      /\ Len(r) = d /\ Below(s, r, d)
      /\ Same(s[d], r[d]) /\ r[d].k = s[d].k /\ r[d].pc = "loop"
      /\ r[d].todo = waitingFrom[x] /\ r[d].count = s[d].count
  BY <1>1, EffectOfEngage
<1>3. /\ lastTest' = [lastTest EXCEPT ![x][k] = m]
      /\ waitStatus' = [waitStatus EXCEPT ![x][k] = TRUE]
      /\ parent' = [parent EXCEPT ![x][k] = s[d].from]
  <2>1. /\ lastTest' = [lastTest EXCEPT
             ![s[Len(s)].at][s[Len(s)].k] = s[Len(s)].m]
        /\ waitStatus' = [waitStatus EXCEPT ![s[Len(s)].at][s[Len(s)].k] = TRUE]
        /\ parent' = [parent EXCEPT
             ![s[Len(s)].at][s[Len(s)].k] = s[Len(s)].from]
    BY EffectOfEngage
  <2> HIDE DEF s
  <2>2. QED
    BY <1>1, <2>1
<1>4. probeCount' = probeCount
  BY DEF Engage
<1>5. /\ Shape(s, d, d) /\ Nodes(s, d, k, lastTest, parent)
      /\ Counts(s, d, d, k, waitStatus, probeCount)
  BY <1>1 DEF OnChain, Chain
<1>6. r[1].k = k
  BY <1>1, <1>2 DEF Below
<1>7. /\ lastTest \in [Node -> [Node -> Nat]]
      /\ waitStatus \in [Node -> [Node -> BOOLEAN]]
      /\ parent \in [Node -> [Node -> Node \cup {NoNode}]]
      /\ waitingFrom[x] \subseteq Node /\ x \in Node
  BY <1>1 DEF DetectionTypeOK
<1> HIDE DEF s, r, k, m, x
<1>8. TakesPart(s[d], k, lastTest, parent)
  BY <1>1, <1>5 DEF Nodes
<1>9. /\ lastTest[x][k] < m /\ ~isActive[x] /\ s[d].count = 0
      /\ lastTest[x][k] \in Nat /\ m \in Nat
  BY <1>1, <1>2, <1>7, <1>8 DEF TakesPart, m, x
<1>10. x # k
  BY <1>9 DEF m
<1>11. /\ lastTest'[x][k] = m /\ lastTest'[k][k] = m
       /\ parent'[x][k] = s[d].from
       /\ \A n \in Node \ {x} :
            /\ lastTest'[n][k] = lastTest[n][k]
            /\ parent'[n][k] = parent[n][k]
            /\ waitStatus'[n][k] = waitStatus[n][k]
  BY <1>1, <1>3, <1>7, <1>10 DEF m
<1>12. \A i \in 1 .. d - 1 : s[i].pc = "loop" /\ s[i].at \in Node
  BY <1>1, <1>5 DEF Shape, Probes
<1>13. TakesPart(r[d], k, lastTest', parent')
  <2>1. r[d].at = x /\ r[d].from = s[d].from /\ r[d].count = 0
    BY <1>2, <1>9 DEF Same, x
  <2>2. r[d].count + Cardinality(r[d].todo) = Cardinality(waitingFrom[x])
    <3>1. Cardinality(waitingFrom[x]) \in Nat
      BY <1>7, WaitsAreCounted
    <3>2. QED
      BY <1>2, <2>1, <3>1
  <2>3. QED
    BY <1>2, <1>9, <1>11, <2>1, <2>2 DEF TakesPart
<1>14. \A i \in 1 .. d - 1 : s[i].at # x
  <2> SUFFICES ASSUME NEW i \in 1 .. d - 1
               PROVE  s[i].at # x
    OBVIOUS
  <2>1. TakesPart(s[i], k, lastTest, parent)
    BY <1>1, <1>5 DEF Nodes
  <2>2. lastTest[s[i].at][k] = m
    BY <1>12, <2>1 DEF TakesPart, m
  <2>3. QED
    BY <1>9, <2>2
<1>15. Nodes(r, d, k, lastTest', parent')
  <2>1. \A i \in 1 .. d - 1 : s[i].at # s[d].at =>
          /\ lastTest'[s[i].at][k] = lastTest[s[i].at][k]
          /\ parent'[s[i].at][k] = parent[s[i].at][k]
    BY <1>11, <1>12 DEF x
  <2>2. /\ lastTest[s[d].at][k] # lastTest[k][k] /\ r[d].at = s[d].at
        /\ lastTest'[k][k] = lastTest[k][k] /\ \A i \in 1 .. d - 1 : s[i].pc = "loop"
    BY <1>2, <1>9, <1>11, <1>12 DEF m, x, Same
  <2>3. QED
    BY <1>1, <1>2, <1>5, <1>13, <2>1, <2>2, NodesEngage
<1>16. Shape(r, d, d)
  <2>1. r[d].at = r[d].to
    <3>1. d \in 1 .. d /\ s[d].pc # "hop" /\ d > 1
      BY <1>1, <1>2
    <3>2. s[d].at = s[d].to
      BY <1>5, <3>1 DEF Shape
    <3>3. QED
      BY <1>2, <3>2 DEF Same
  <2>2. QED
    BY <1>2, <1>5, <2>1, ShapeMove DEF Same
<1>17. Counts(r, d, d, k, waitStatus', probeCount)
  <2>1. AgreeBelow(s, d, k, waitStatus, waitStatus')
    BY <1>11, <1>12, <1>14 DEF AgreeBelow
  <2>2. QED
    BY <1>1, <1>2, <1>5, <2>1, CountsMove
<1>18. QED
  BY <1>1, <1>2, <1>4, <1>6, <1>15, <1>16, <1>17 DEF Chain, r, s

\* A node that takes part already answers its prober.
LEMMA ChainAnswer ==
  ASSUME DetectionTypeOK, TestNumbers, NEW t \in Task, NEW d, OnChain(t, d),
         AnswerAgain(t), waitStatus[Top(t).at][Top(t).k]
  PROVE  /\ d = Len(calls[t]) /\ Len(calls'[t]) = d + 1 /\ d > 1
         /\ calls[t][d].pc = "again" /\ calls'[t][d].pc = "done"
         /\ Below(calls[t], calls'[t], d)
         /\ calls'[t][d].at = calls[t][d].at /\ calls'[t][d].to = calls[t][d].to
         /\ calls'[t][d + 1].pc = "hop"
         /\ waitStatus[calls[t][d].at][calls[t][1].k]
         /\ Chain(calls'[t], d, lastTest', parent', waitStatus', probeCount')
<1> DEFINE s == calls[t]
           r == calls'[t]
           k == s[1].k
<1>1. /\ Top(t).fn = "probe" /\ Top(t).pc = "again"
      /\ waitStatus[Top(t).at][Top(t).k]
      /\ Call(t, [Top(t) EXCEPT !.pc = "done"],
              Message(Top(t), "answer", Top(t).from))
      /\ UNCHANGED << lastTest, parent, waitStatus, probeCount >>
  BY DEF AnswerAgain, At, probeVars
<1>2. /\ Len(s) = d /\ d \in Nat /\ d > 1 /\ k \in Node /\ s[d].k = k
      /\ Top(t) = s[d] /\ s[d] \in DetectionFrame
  BY <1>1, TopOfChain
<1>3. /\ Len(r) = d + 1 /\ Below(s, r, d)
      /\ Kept(s[d], r[d]) /\ r[d].pc = "done"
      /\ r[d + 1].fn = "answer" /\ r[d + 1].pc = "hop"
      /\ r[d + 1].to = s[d].from
  <2>1. s[d].from \in Node
    BY <1>2 DEF DetectionFrame
  <2>2. ~Idle(t)
    BY DEF OnChain
  <2>3. "done" \in {"done", "clear"}
    OBVIOUS
  <2>4. QED
    BY <1>1, <1>2, <2>1, <2>2, <2>3, EffectOfAnswer
<1>4. /\ Shape(s, d, d) /\ Nodes(s, d, k, lastTest, parent)
      /\ Counts(s, d, d, k, waitStatus, probeCount)
  BY <1>2 DEF OnChain, Chain
<1>5. r[1].k = k
  BY <1>2, <1>3 DEF Below
<1>6. s[d].pc = "again" /\ waitStatus[s[d].at][k]
  BY <1>1, <1>2
<1>7. r[d].at = s[d].at /\ r[d].to = s[d].to /\ r[d].count = s[d].count
  BY <1>3 DEF Kept, Same
<1> HIDE DEF s, r, k
<1>8. Shape(r, d + 1, d)
  <2>1. 2 * d - (d + 1) = d - 1 /\ d - 1 \in 1 .. d - 1 /\ d - 1 + 1 = d
        /\ d + 1 < 2 * d
    BY <1>2
  <2>2. Probes(s[d - 1], s[d])
    BY <1>4, <2>1 DEF Shape
  <2>3. r[d + 1].to = s[2 * d - (d + 1)].at
    BY <1>3, <2>1, <2>2 DEF Probes
  <2>4. s[d].pc # "hop" /\ Same(s[d], r[d]) /\ ~(d > d)
    BY <1>2, <1>3, <1>6 DEF Kept
  <2>5. QED
    BY <1>3, <1>4, <2>1, <2>3, <2>4, ShapeAnswer
<1>9. Nodes(r, d, k, lastTest, parent)
  <2>1. TakesPart(s[d], k, lastTest, parent)
    BY <1>2, <1>4 DEF Nodes
  <2>2. TakesPart(r[d], k, lastTest, parent)
    BY <1>3, <1>6, <1>7, <2>1 DEF TakesPart
  <2>3. QED
    BY <1>2, <1>3, <1>4, <2>2, NodesMove
<1>10. Counts(r, d + 1, d, k, waitStatus, probeCount)
  BY <1>2, <1>3, <1>4, <1>6, CountsAnswer
<1>11. QED
  BY <1>1, <1>2, <1>3, <1>5, <1>6, <1>7, <1>8, <1>9, <1>10 DEF Chain, r, s, k

\* A handler of an answer goes on.
LEMMA ChainMoveAnswer ==
  ASSUME DetectionTypeOK, TestNumbers, NEW t \in Task, NEW d, OnChain(t, d),
         NEW n, n = Len(calls[t]), calls[t][n].fn = "answer",
         Len(calls'[t]) = n, Below(calls[t], calls'[t], n),
         calls[t][n].pc \notin {"clear", "done"},
         calls'[t][n].pc # "clear", calls'[t][n].fn = calls[t][n].fn,
         calls'[t][n].to = calls[t][n].to,
         calls'[t][n].pc # "hop" => calls'[t][n].at = calls'[t][n].to,
         calls'[t][n].pc = "countdown" =>
           waitStatus[calls'[t][n].at][calls[t][1].k],
         lastTest' = lastTest, parent' = parent, waitStatus' = waitStatus,
         probeCount' = probeCount
  PROVE  Chain(calls'[t], d, lastTest', parent', waitStatus', probeCount')
<1> DEFINE s == calls[t]
           r == calls'[t]
           k == s[1].k
           j == 2 * d - n
<1>1. /\ n \in Nat /\ d \in 1 .. n - 1 /\ d \in Nat /\ d < n
      /\ j \in 1 .. d - 1 /\ 1 \in 1 .. n - 1
      /\ s[n].to = s[j].at
  BY TopOfChain
<1>2. /\ Shape(s, n, d) /\ Nodes(s, d, k, lastTest, parent)
      /\ Counts(s, n, d, k, waitStatus, probeCount)
  BY DEF OnChain, Chain
<1>3. r[1].k = k
  BY <1>1 DEF Below
<1>4. /\ Len(r) = n /\ Below(s, r, n) /\ r[n].fn = s[n].fn
      /\ r[n].to = s[n].to
      /\ r[n].pc # "hop" => r[n].at = r[n].to
      /\ s[n].pc # "clear" /\ s[n].pc # "done" /\ r[n].pc # "clear"
      /\ r[n].pc = "countdown" => waitStatus[r[n].at][k]
  OBVIOUS
<1> HIDE DEF s, r, k, j
<1>5. Shape(r, n, d)
  BY <1>1, <1>2, <1>4, ShapeMoveAnswer
<1>6. Nodes(r, d, k, lastTest, parent)
  BY <1>1, <1>2, <1>4, NodesBelow
<1>7. Counts(r, n, d, k, waitStatus, probeCount)
  <2>1. r[n].pc = "countdown" => waitStatus[s[2 * d - n].at][k]
    BY <1>1, <1>4 DEF j
  <2>2. n < 2 * d
    BY <1>2 DEF Shape
  <2>3. QED
    BY <1>1, <1>2, <1>4, <2>1, <2>2, CountsMoveAnswer
<1>8. QED
  BY <1>3, <1>4, <1>5, <1>6, <1>7 DEF Chain, r

\* A node drops an answer, or counts one that is not its last.
LEMMA ChainDrop ==
  ASSUME DetectionTypeOK, TestNumbers, NEW t \in Task, NEW d, OnChain(t, d),
         NEW n, n = Len(calls[t]), calls[t][n].fn = "answer", Return(t),
         calls[t][n].pc \notin {"clear", "done"},
         lastTest' = lastTest, parent' = parent, waitStatus' = waitStatus,
         \A i \in 1 .. d - 1 : i # 2 * d - n =>
           probeCount'[calls[t][i].at][calls[t][1].k]
             = probeCount[calls[t][i].at][calls[t][1].k]
  PROVE  /\ Len(calls'[t]) = n - 1
         /\ Chain(calls'[t], d, lastTest', parent', waitStatus', probeCount')
<1> DEFINE s == calls[t]
           r == calls'[t]
           k == s[1].k
<1>1. n \in Nat /\ d \in 1 .. n - 1 /\ d \in Nat /\ d < n /\ ~Idle(t)
  BY TopOfChain DEF OnChain
<1>2. /\ Shape(s, n, d) /\ Nodes(s, d, k, lastTest, parent)
      /\ Counts(s, n, d, k, waitStatus, probeCount)
  BY DEF OnChain, Chain
<1>3. Len(r) = n - 1 /\ Below(s, r, n)
  BY <1>1, EffectOfReturn
<1>4. r[1].k = k
  BY <1>1, <1>3 DEF Below
<1>5. /\ s[n].pc \notin {"clear", "done"}
      /\ \A i \in 1 .. d - 1 : i # 2 * d - n =>
           probeCount'[s[i].at][k] = probeCount[s[i].at][k]
  OBVIOUS
<1> HIDE DEF s, r, k
<1>6. Shape(r, n - 1, d)
  BY <1>1, <1>2, <1>3, ShapePopAnswer
<1>7. Nodes(r, d, k, lastTest, parent)
  BY <1>1, <1>2, <1>3, NodesBelow
<1>8. Counts(r, n - 1, d, k, waitStatus, probeCount')
  BY <1>1, <1>2, <1>3, <1>5, CountsDrop
<1>9. QED
  BY <1>3, <1>4, <1>6, <1>7, <1>8 DEF Chain, r

\* The node that counts an answer has the number of its probes as its count,
\* so the answer is the last one exactly if it has sent one probe.
LEMMA CountOfAnswer ==
  ASSUME DetectionTypeOK, TestNumbers, NEW t \in Task, NEW d, OnChain(t, d),
         At(t, "answer", "countdown")
  PROVE  LET s == calls[t]
             n == Len(s)
             j == 2 * d - n
             k == s[1].k
         IN  /\ d < n /\ j \in 1 .. d - 1 /\ Top(t) = s[n]
             /\ Top(t).at = s[j].at /\ Top(t).k = k
             /\ s[j].at \in Node /\ k \in Node /\ waitStatus[s[j].at][k]
             /\ probeCount[s[j].at][k] = s[j].count
             /\ s[j].count \in Nat /\ s[j].count >= 1
             /\ Decremented(probeCount[s[j].at][k]) = s[j].count - 1
             /\ LastAnswer(t) <=> s[j].count = 1
<1> DEFINE s == calls[t]
           n == Len(s)
           j == 2 * d - n
           k == s[1].k
           x == s[j].at
           c == probeCount[x][k]
<1>1. /\ n \in Nat /\ d \in 1 .. n /\ k \in Node /\ s[n].k = k /\ Top(t) = s[n]
      /\ \A i \in 1 .. n : s[i].at \in Node
  BY TopOfChain
<1>2. s[n].fn = "answer" /\ s[n].pc = "countdown"
  BY <1>1 DEF At
<1>3. /\ d < n /\ j \in 1 .. d - 1 /\ s[n].at = s[j].at
  BY <1>2, TopOfChain
<1>4. /\ Shape(s, n, d) /\ Counts(s, n, d, k, waitStatus, probeCount)
  BY DEF OnChain, Chain
<1>5. x \in Node /\ c \in 0 .. CountModulus - 1
  <2>1. x \in Node
    BY <1>1, <1>3
  <2>2. QED
    BY <1>1, <2>1 DEF DetectionTypeOK
<1> HIDE DEF s, n, k, x
<1>6. c = s[j].count /\ waitStatus[x][k]
  BY <1>2, <1>3, <1>4 DEF Counts, x
<1>7. c >= 1
  BY <1>3, <1>4, <1>6 DEF Shape, Probes
<1> HIDE DEF c, j
<1>8. Decremented(c) = c - 1
  <2>1. CountModulus \in Nat /\ c \in Nat /\ c - 1 \in Nat /\ c - 1 < CountModulus
    BY <1>5, <1>7, DetectionAssumption
  <2>2. c + CountModulus - 1 = CountModulus + (c - 1)
    BY <2>1
  <2>3. (CountModulus + (c - 1)) % CountModulus = c - 1
    BY <2>1
  <2>4. QED
    BY <2>2, <2>3 DEF Decremented
<1>9. LastAnswer(t) <=> c = 1
  <2>1. LastAnswer(t) <=> Decremented(c) = 0
    BY <1>1, <1>3 DEF LastAnswer, c, x
  <2>2. QED
    BY <1>5, <1>7, <1>8, <2>1
<1>10. QED
  BY <1>1, <1>3, <1>5, <1>6, <1>7, <1>8, <1>9 DEF s, n, j, k, x, c

\* Only the count of the node that handles an answer changes.
LEMMA OthersCounted ==
  ASSUME DetectionTypeOK, TestNumbers, NEW t \in Task, NEW d, OnChain(t, d),
         CountDown(t)
  PROVE  LET s == calls[t]
             j == 2 * d - Len(s)
             k == s[1].k
         IN  /\ probeCount'[s[j].at][k] = s[j].count - 1
             /\ \A i \in 1 .. d - 1 : i # j =>
                  /\ s[i].at # s[j].at
                  /\ probeCount'[s[i].at][k] = probeCount[s[i].at][k]
<1> DEFINE s == calls[t]
           j == 2 * d - Len(s)
           k == s[1].k
           x == s[j].at
           c == Decremented(probeCount[x][k])
<1>1. At(t, "answer", "countdown")
  BY DEF CountDown
<1>2. /\ d < Len(s) /\ j \in 1 .. d - 1 /\ Top(t).at = x /\ Top(t).k = k
      /\ x \in Node /\ k \in Node /\ c = s[j].count - 1
  BY <1>1, CountOfAnswer
<1>3. /\ d \in 1 .. Len(s) /\ Len(s) \in Nat
      /\ \A i \in 1 .. Len(s) : s[i].at \in Node
  BY TopOfChain
<1>4. /\ Shape(s, Len(s), d) /\ Nodes(s, d, k, lastTest, parent)
  BY DEF OnChain, Chain
<1>5. probeCount' = [probeCount EXCEPT ![x][k] = c]
  <2>1. probeCount' = [probeCount EXCEPT ![Top(t).at][Top(t).k] = Decremented(@)]
    BY DEF CountDown
  <2> HIDE DEF s, j
  <2>2. QED
    BY <1>2, <2>1
<1>6. probeCount \in [Node -> [Node -> 0 .. CountModulus - 1]]
  BY DEF DetectionTypeOK
<1> HIDE DEF s, k, x, j, c
<1>7. ASSUME NEW i \in 1 .. d - 1, i # j
      PROVE  /\ s[i].at # s[j].at
             /\ probeCount'[s[i].at][k] = probeCount[s[i].at][k]
  <2>1. s[i].pc = "loop" /\ s[j].pc = "loop"
    BY <1>2, <1>4 DEF Shape, Probes
  <2>2. i \in 1 .. d /\ j \in 1 .. d /\ i \in 1 .. Len(s) /\ (i < j \/ j < i)
    BY <1>2, <1>3, <1>7
  <2>3. s[i].at # s[j].at
    BY <1>4, <2>1, <2>2 DEF Nodes
  <2>4. s[i].at \in Node
    BY <1>3, <2>2
  <2>5. QED
    BY <1>2, <1>5, <1>6, <2>3, <2>4 DEF x
<1>8. probeCount'[x][k] = c
  BY <1>2, <1>5, <1>6
<1>9. QED
  BY <1>2, <1>7, <1>8 DEF s, k, x, j

\* A node counts its last answer: it has sent one probe.
LEMMA ChainResolve ==
  ASSUME DetectionTypeOK, TestNumbers, NEW t \in Task, NEW d, OnChain(t, d),
         CountDown(t), LastAnswer(t)
  PROVE  LET s == calls[t]
             r == calls'[t]
             n == Len(s)
             m == Len(r)
         IN  /\ Below(s, r, n) /\ Kept(s[n], r[n]) /\ r[n].pc = "clear"
             /\ m = IF 2 * d - n = 1 THEN n ELSE n + 1
             /\ m = n + 1 => r[m].pc = "hop"
             /\ Chain(r, d, lastTest', parent', waitStatus', probeCount')
<1> DEFINE s == calls[t]
           r == calls'[t]
           n == Len(s)
           m == Len(r)
           j == 2 * d - n
           k == s[1].k
           x == s[j].at
           p == parent[x][k]
<1>1. At(t, "answer", "countdown") /\ ~Idle(t)
  BY DEF CountDown, OnChain
<1>2. /\ d < n /\ j \in 1 .. d - 1 /\ Top(t) = s[n]
      /\ s[n].at = x /\ s[n].k = k
      /\ x \in Node /\ k \in Node
  BY <1>1, CountOfAnswer
<1>3. /\ n \in Nat /\ d \in 1 .. n /\ s[1].at = k
      /\ \A i \in 1 .. n : s[i] \in DetectionFrame
      /\ \A i \in 2 .. n : s[i].fn # "start"
  BY TopOfChain
<1>4. /\ Shape(s, n, d) /\ Nodes(s, d, k, lastTest, parent)
      /\ Counts(s, n, d, k, waitStatus, probeCount)
  BY DEF OnChain, Chain
<1>5. \A i \in 1 .. d - 1 : i # j =>
        /\ s[i].at # x /\ probeCount'[s[i].at][k] = probeCount[s[i].at][k]
  BY OthersCounted
<1>6. j = 1 <=> x = k
  <2> HIDE DEF k, s, n, x
  <2>1. j = 1 => x = k
    BY <1>3 DEF x
  <2> HIDE DEF j
  <2>2. j # 1 => 1 \in 1 .. d - 1
    BY <1>2, <1>3
  <2>3. j # 1 => s[1].at # x
    BY <1>5, <2>2
  <2>4. QED
    BY <1>3, <2>1, <2>3
<1>7. ASSUME j # 1
      PROVE  p \in Node /\ p # NoNode /\ p = s[j - 1].at
  <2> HIDE DEF k, s, n, j
  <2>1. /\ j \in 1 .. d /\ j \in 2 .. n /\ j - 1 \in 1 .. d - 1 /\ j - 1 + 1 = j
        /\ j - 1 \in 1 .. n
    BY <1>2, <1>3, <1>7
  <2>2. TakesPart(s[j], k, lastTest, parent) /\ s[j].pc = "loop"
    BY <1>2, <1>4, <2>1 DEF Nodes, Shape, Probes
  <2>3. s[j].fn = "probe"
    <3>1. s[j].fn # "answer" /\ s[j].fn # "start" /\ s[j] \in DetectionFrame
      BY <1>3, <1>4, <2>1 DEF Shape
    <3>2. QED
      BY <3>1 DEF DetectionFrame
  <2>4. p = s[j].from
    BY <2>2, <2>3 DEF TakesPart
  <2>5. Probes(s[j - 1], s[j])
    BY <1>4, <2>1 DEF Shape
  <2>6. s[j - 1].at \in Node
    BY <1>3, <2>1 DEF DetectionFrame
  <2>7. QED
    BY <2>4, <2>5, <2>6, DetectionAssumption DEF Probes
<1>8. /\ IF x # k /\ p # NoNode
           THEN Call(t, [Top(t) EXCEPT !.pc = "clear"],
                     Message(Top(t), "answer", p))
           ELSE Goto(t, [Top(t) EXCEPT !.pc = "clear"])
      /\ UNCHANGED << lastTest, waitStatus, parent >>
  <2> HIDE DEF j
  <2>1. Top(t).at = x /\ Top(t).k = k
    BY <1>2
  <2> HIDE DEF x, k
  <2>2. QED
    BY <2>1 DEF CountDown
<1>9. /\ Below(s, r, n) /\ Kept(s[n], r[n]) /\ r[n].pc = "clear"
      /\ m = IF j = 1 THEN n ELSE n + 1
      /\ j # 1 => /\ r[n + 1].fn = "answer" /\ r[n + 1].pc = "hop"
                  /\ r[n + 1].to = p
  <2> HIDE DEF p, j, x, k
  <2>0. "clear" \in {"done", "clear"}
    OBVIOUS
  <2>1. CASE j = 1
    <3>1. Goto(t, [Top(t) EXCEPT !.pc = "clear"])
      BY <1>6, <1>8, <2>1
    <3>2. QED
      BY <1>1, <2>1, <3>1, EffectOfMove
  <2>2. CASE j # 1
    <3>1. Call(t, [Top(t) EXCEPT !.pc = "clear"],
               Message(Top(t), "answer", p))
      BY <1>6, <1>7, <1>8, <2>2
    <3>2. QED
      BY <1>1, <1>7, <2>0, <2>2, <3>1, EffectOfAnswer
  <2>3. QED
    BY <2>1, <2>2
<1>10. s[n].fn = "answer" /\ s[n].pc = "countdown" /\ r[1].k = k
  <2>1. s[n].fn = "answer" /\ s[n].pc = "countdown"
    BY <1>1, <1>2 DEF At
  <2>2. 1 \in 1 .. n - 1
    BY <1>2, <1>3
  <2>3. QED
    BY <1>9, <2>1, <2>2 DEF Below
<1> HIDE DEF s, r, n, k, p, x, m
<1>11. /\ r[n].fn = s[n].fn /\ r[n].to = s[n].to /\ r[n].at = s[n].at
       /\ Same(s[n], r[n])
  BY <1>9 DEF Kept, Same
<1>12. s[n].at = s[n].to
  <2>1. n \in d + 1 .. n
    BY <1>2, <1>3
  <2>2. Mirrors(s[2 * d - n], s[n])
    BY <1>4, <2>1 DEF Shape
  <2>3. QED
    BY <1>10, <2>2 DEF Mirrors
<1>13. Shape(r, m, d) /\ (m = n + 1 => m < 2 * d)
  <2>1. CASE j = 1
    <3>1. Shape(r, n, d) /\ m = n
      BY <1>2, <1>4, <1>9, <1>11, <1>12, <2>1, ShapeMoveAnswer
    <3>2. QED
      BY <1>3, <3>1
  <2>2. CASE j # 1
    <3>1. n + 1 < 2 * d /\ 2 * d - (n + 1) = j - 1 /\ m = n + 1 /\ n # d
          /\ n > d
      BY <1>2, <1>3, <1>9, <2>2
    <3>2. r[n + 1].to = s[2 * d - (n + 1)].at
      BY <1>7, <1>9, <2>2, <3>1
    <3>3. s[n].pc # "hop"
      BY <1>10
    <3>4. Shape(r, n + 1, d)
      BY <1>4, <1>9, <1>11, <2>2, <3>1, <3>2, <3>3, ShapeAnswer
    <3>5. QED
      BY <3>1, <3>4
  <2>3. QED
    BY <2>1, <2>2
<1>14. Nodes(r, d, k, lastTest, parent)
  BY <1>2, <1>3, <1>4, <1>9, NodesBelow
<1>15. Counts(r, m, d, k, waitStatus, probeCount')
  <2>1. m = n \/ m = n + 1
    BY <1>9
  <2>2. m = n + 1 => r[m].pc = "hop" /\ m < 2 * d
    <3>1. m = n + 1 => j # 1
      BY <1>3, <1>9
    <3>2. QED
      BY <1>9, <1>13, <3>1
  <2>3. \A i \in 1 .. d - 1 :
          i # 2 * d - n => probeCount'[s[i].at][k] = probeCount[s[i].at][k]
    BY <1>5 DEF j
  <2>4. d \in Nat /\ n \in Nat /\ d < n
    BY <1>2, <1>3
  <2>5. QED
    BY <1>4, <1>9, <1>10, <2>1, <2>2, <2>3, <2>4, CountsResolve
<1>16. m = n + 1 => r[m].pc = "hop"
  BY <1>3, <1>9
<1>17. Chain(r, d, lastTest', parent', waitStatus', probeCount')
  BY <1>8, <1>10, <1>13, <1>14, <1>15 DEF Chain, m
<1>18. QED
  BY <1>9, <1>16, <1>17 DEF s, r, n, m, j

\* A node has answered, or the initiator has its verdict.
LEMMA ChainClear ==
  ASSUME DetectionTypeOK, TestNumbers, NEW t \in Task, NEW d, OnChain(t, d),
         ClearWait(t)
  PROVE  LET s == calls[t]
             r == calls'[t]
             n == Len(s)
         IN  /\ d < n /\ s[n].fn = "answer" /\ s[n].pc = "clear"
             /\ 2 * d - n \in 1 .. d - 1 /\ s[n].at = s[2 * d - n].at
             /\ Len(r) = n - 1 /\ Below(s, r, n)
             /\ waitStatus' =
                  [waitStatus EXCEPT ![s[2 * d - n].at][s[1].k] = FALSE]
             /\ Chain(r, d, lastTest', parent', waitStatus', probeCount')
<1> DEFINE s == calls[t]
           r == calls'[t]
           n == Len(s)
           j == 2 * d - n
           k == s[1].k
           x == s[j].at
<1>1. ~Idle(t) /\ Top(t).fn = "answer" /\ Top(t).pc = "clear" /\ Return(t)
  BY DEF ClearWait, At
<1>2. /\ n \in Nat /\ d \in 1 .. n /\ d \in Nat /\ k \in Node /\ s[n].k = k
      /\ Top(t) = s[n] /\ \A i \in 1 .. n : s[i].at \in Node
  BY TopOfChain
<1>3. s[n].fn = "answer" /\ s[n].pc = "clear"
  BY <1>1, <1>2
<1>4. d < n /\ j \in 1 .. d - 1 /\ s[n].at = x
  BY <1>3, TopOfChain
<1>5. /\ Shape(s, n, d) /\ Nodes(s, d, k, lastTest, parent)
      /\ Counts(s, n, d, k, waitStatus, probeCount)
  BY DEF OnChain, Chain
<1>6. Len(r) = n - 1 /\ Below(s, r, n)
  BY <1>1, EffectOfReturn
<1>7. /\ waitStatus' = [waitStatus EXCEPT ![x][k] = FALSE]
      /\ UNCHANGED << lastTest, parent, probeCount >>
  <2>1. /\ waitStatus' = [waitStatus EXCEPT ![Top(t).at][Top(t).k] = FALSE]
        /\ UNCHANGED << lastTest, parent, probeCount >>
    BY DEF ClearWait
  <2>2. Top(t).at = x /\ Top(t).k = k
    BY <1>2, <1>4
  <2> HIDE DEF x, k
  <2>3. QED
    BY <2>1, <2>2
<1>8. waitStatus \in [Node -> [Node -> BOOLEAN]]
  BY DEF DetectionTypeOK
<1>9. r[1].k = k
  <2>1. 1 \in 1 .. n - 1
    BY <1>2, <1>4
  <2>2. QED
    BY <1>6, <2>1 DEF Below
<1> HIDE DEF s, r, k, n, j
<1>10. Shape(r, n - 1, d)
  BY <1>2, <1>3, <1>4, <1>5, <1>6, ShapePopAnswer
<1>11. Nodes(r, d, k, lastTest, parent)
  BY <1>2, <1>4, <1>5, <1>6, NodesBelow
<1>12. x \in Node
  BY <1>2, <1>4
<1>13. Counts(r, n - 1, d, k, waitStatus', probeCount)
  <2>1. ~waitStatus'[s[2 * d - n].at][k]
    BY <1>2, <1>7, <1>8, <1>12 DEF j
  <2>2. ASSUME NEW i \in 1 .. d, ~waitStatus[s[i].at][k]
        PROVE  ~waitStatus'[s[i].at][k]
    <3>1. s[i].at \in Node
      BY <1>2
    <3> HIDE DEF x
    <3>2. QED
      BY <1>2, <1>7, <1>8, <1>12, <2>2, <3>1
  <2>3. QED
    BY <1>2, <1>4, <1>5, <1>6, <2>1, <2>2, CountsClear
<1>14. Chain(r, d, lastTest', parent', waitStatus', probeCount')
  <2>1. Len(r) = n - 1
    BY <1>6
  <2>2. QED
    BY <1>7, <1>9, <1>10, <1>11, <1>13, <2>1 DEF Chain
<1>15. QED
  BY <1>3, <1>4, <1>6, <1>7, <1>14 DEF s, r, n, j, k

\* A new request, and its first step.
LEMMA ChainOfOne ==
  ASSUME NEW s, NEW last, NEW par, NEW wait, NEW cnt,
         Len(s) = 1, s[1].fn = "start", s[1].pc \in {"mark", "read"},
         s[1].count = 0, ~isActive[s[1].at]
  PROVE  Chain(s, 1, last, par, wait, cnt)
<1>1. Shape(s, 1, 1)
  BY DEF Shape
<1>2. Nodes(s, 1, s[1].k, last, par)
  BY DEF Nodes, TakesPart
<1>3. Counts(s, 1, 1, s[1].k, wait, cnt)
  BY DEF Counts
<1>4. QED
  BY <1>1, <1>2, <1>3 DEF Chain

\* An accepted request is a chain of one handler.
LEMMA ChainStart ==
  ASSUME DetectionTypeOK, NEW t \in Task, NEW n \in Initiator,
         StartDetection(t, n)
  PROVE  /\ calls'[t] = << StartFrame(n) >>
         /\ \A u \in Task \ {t} : calls'[u] = calls[u]
         /\ Chain(calls'[t], 1, lastTest', parent', waitStatus', probeCount')
<1>1. StartFrame(n) \in DetectionFrame
  BY DetectionAssumption DEF StartFrame, DetectionFrame
<1>2. /\ calls'[t] = << StartFrame(n) >>
      /\ \A u \in Task \ {t} : calls'[u] = calls[u]
  BY <1>1, BeginEffect DEF DetectionTypeOK, StartDetection
<1>3. ~isActive[n]
  BY DEF StartDetection
<1>4. /\ Len(calls'[t]) = 1 /\ calls'[t][1].fn = "start"
      /\ calls'[t][1].pc = "mark" /\ calls'[t][1].count = 0
      /\ calls'[t][1].at = n
  BY <1>2 DEF StartFrame
<1>5. Chain(calls'[t], 1, lastTest', parent', waitStatus', probeCount')
  BY <1>3, <1>4, ChainOfOne
<1>6. QED
  BY <1>2, <1>5

\* The REST handler counts the new test.
LEMMA ChainMark ==
  ASSUME DetectionTypeOK, TestNumbers, NEW t \in Task, NEW d, OnChain(t, d),
         MarkTest(t)
  PROVE  /\ d = 1 /\ Len(calls[t]) = 1 /\ calls[t][1].pc = "mark"
         /\ Len(calls'[t]) = 1 /\ calls'[t][1].pc = "read"
         /\ Kept(calls[t][1], calls'[t][1])
         /\ LET k == calls[t][1].k IN
              /\ lastTest' = [lastTest EXCEPT ![k][k] = @ + 1]
              /\ waitStatus' = [waitStatus EXCEPT ![k][k] = TRUE]
              /\ UNCHANGED << parent, probeCount, declared >>
         /\ Chain(calls'[t], 1, lastTest', parent', waitStatus', probeCount')
<1> DEFINE s == calls[t]
           r == calls'[t]
           k == s[1].k
<1>1. /\ ~Idle(t) /\ Top(t).fn = "start" /\ Top(t).pc = "mark"
      /\ Goto(t, [Top(t) EXCEPT !.pc = "read"])
  BY DEF MarkTest, At
<1>2. /\ Len(s) = 1 /\ d = 1 /\ k \in Node /\ s[1].at = k /\ Top(t) = s[1]
      /\ s[1].fn = "start"
  <2>1. s[Len(s)].fn = "start"
    BY <1>1, TopOfChain
  <2>2. QED
    BY <2>1, TopOfChain
<1>3. Len(r) = 1 /\ Kept(s[1], r[1]) /\ r[1].pc = "read"
  BY <1>1, <1>2, EffectOfMove
<1>4. /\ lastTest' = [lastTest EXCEPT ![k][k] = @ + 1]
      /\ waitStatus' = [waitStatus EXCEPT ![k][k] = TRUE]
      /\ UNCHANGED << parent, probeCount, declared >>
  <2>1. /\ lastTest' = [lastTest EXCEPT ![Top(t).at][Top(t).at] = @ + 1]
        /\ waitStatus' = [waitStatus EXCEPT ![Top(t).at][Top(t).at] = TRUE]
        /\ UNCHANGED << parent, probeCount, declared >>
    BY DEF MarkTest
  <2>2. Top(t).at = k
    BY <1>2
  <2> HIDE DEF k
  <2>3. QED
    BY <2>1, <2>2
<1>5. Nodes(s, 1, k, lastTest, parent)
  BY <1>2 DEF OnChain, Chain
<1>6. s[1].pc = "mark"
  BY <1>1, <1>2
<1> HIDE DEF s, r, k
<1>7. ~isActive[s[1].at] /\ s[1].count = 0
  <2>1. TakesPart(s[1], k, lastTest, parent)
    BY <1>5 DEF Nodes
  <2>2. QED
    BY <1>6, <2>1 DEF TakesPart
<1>8. /\ r[1].fn = "start" /\ r[1].count = 0 /\ r[1].at = s[1].at
  BY <1>2, <1>3, <1>7 DEF Kept, Same
<1>9. Chain(r, 1, lastTest', parent', waitStatus', probeCount')
  BY <1>3, <1>7, <1>8, ChainOfOne
<1>10. QED
  BY <1>2, <1>3, <1>4, <1>6, <1>9 DEF s, r, k

\* What the steps of a request do to its chain, one lemma for each group of
\* steps: a handler of a probe goes on or returns, one of an answer goes on,
\* returns without the last answer, or has the last answer.

\* The steps of a probe before its node takes part, or answers.
LEMMA ProbeMoves ==
  ASSUME DetectionTypeOK, TestNumbers, NEW t \in Task, NEW d, OnChain(t, d),
         \/ ReceiveProbe(t) /\ ~isActive[Top(t).at]
         \/ TestProbe(t)
         \/ ForwardMessage(t) /\ Top(t).fn = "probe"
  PROVE  LET s == calls[t]
             r == calls'[t]
         IN  /\ d > 1 /\ Len(s) = d /\ Len(r) = d /\ Below(s, r, d)
             /\ s[d].pc \in {"hop", "test"} /\ r[d].to = s[d].to
             /\ r[d].pc \in {"hop", "test", "engage", "again"}
             /\ UNCHANGED << lastTest, waitStatus, parent, probeCount, declared >>
             /\ Chain(r, d, lastTest', parent', waitStatus', probeCount')
<1> DEFINE s == calls[t]
           r == calls'[t]
           k == s[1].k
<1>1. ~Idle(t) /\ Top(t).fn = "probe"
  BY DEF ReceiveProbe, TestProbe, ForwardMessage, Forward, Received, At
<1>2. /\ Len(s) = d /\ d \in Nat /\ d > 1 /\ k \in Node /\ s[d].k = k
      /\ Top(t) = s[d] /\ s[d] \in DetectionFrame /\ s[d].m = lastTest[k][k]
      /\ s[d].fn = "probe"
  BY <1>1, TopOfChain
<1>3. UNCHANGED << lastTest, waitStatus, parent, probeCount, declared >>
  BY DEF ReceiveProbe, TestProbe, ForwardMessage, probeVars
<1>4. Shape(s, d, d) /\ Nodes(s, d, k, lastTest, parent)
  BY <1>2 DEF OnChain, Chain
<1>5. s[d].pc = "hop" \/ s[d].at = s[d].to
  <2> HIDE DEF s
  <2>1. d \in 1 .. d /\ d > 1
    BY <1>2
  <2>2. QED
    BY <1>4, <2>1 DEF Shape
<1>6. TakesPart(s[d], k, lastTest, parent)
  <2>1. d \in 1 .. d
    BY <1>2
  <2>2. QED
    BY <1>4, <2>1 DEF Nodes
<1>7. lastTest[s[d].at][k] <= lastTest[k][k]
  BY <1>2 DEF TestNumbers, DetectionFrame
<1>8. /\ Len(r) = d /\ Below(s, r, d)
      /\ s[d].pc \in {"hop", "test"}
      /\ r[d].pc \in {"hop", "test", "engage", "again"}
      /\ r[d].fn = s[d].fn /\ r[d].k = s[d].k /\ r[d].from = s[d].from
      /\ r[d].to = s[d].to /\ r[d].count = s[d].count
      /\ r[d].pc # "hop" => r[d].at = r[d].to /\ ~isActive[r[d].at]
      /\ r[d].pc = "again" => lastTest[r[d].at][k] = lastTest[k][k]
      /\ r[d].pc = "engage" => lastTest[r[d].at][k] < lastTest[k][k]
  <2>1. CASE ReceiveProbe(t) /\ ~isActive[Top(t).at]
    <3>1. /\ Goto(t, [Top(t) EXCEPT !.pc = "test"]) /\ Top(t).pc = "hop"
          /\ Top(t).at = Top(t).to
      BY <2>1 DEF ReceiveProbe, Received, At
    <3>2. Len(r) = d /\ Below(s, r, d) /\ Kept(s[d], r[d]) /\ r[d].pc = "test"
      BY <1>1, <1>2, <3>1, EffectOfMove
    <3> HIDE DEF s, r
    <3>3. QED
      BY <2>1, <3>1, <3>2, <1>2 DEF Kept, Same
  <2>2. CASE TestProbe(t)
    <3>1. /\ s[d].pc = "test"
          /\ \/ /\ lastTest[s[d].at][k] < lastTest[k][k]
                /\ Goto(t, [Top(t) EXCEPT !.pc = "engage"])
             \/ /\ lastTest[s[d].at][k] = lastTest[k][k]
                /\ Goto(t, [Top(t) EXCEPT !.pc = "again"])
      <4>1. /\ s[d].pc = "test"
            /\ \/ /\ s[d].m > lastTest[s[d].at][s[d].k]
                  /\ Goto(t, [Top(t) EXCEPT !.pc = "engage"])
               \/ /\ s[d].m = lastTest[s[d].at][s[d].k]
                  /\ Goto(t, [Top(t) EXCEPT !.pc = "again"])
               \/ s[d].m < lastTest[s[d].at][s[d].k]
        BY <1>2, <2>2 DEF TestProbe, At
      <4>2. lastTest[s[d].at][k] \in Nat /\ lastTest[k][k] \in Nat
        <5>1. s[d].at \in Node /\ lastTest \in [Node -> [Node -> Nat]]
          BY <1>2 DEF DetectionTypeOK, DetectionFrame
        <5> HIDE DEF s, k
        <5>2. QED
          BY <1>2, <5>1
      <4> HIDE DEF s
      <4>3. QED
        BY <1>2, <1>7, <4>1, <4>2
    <3>2. PICK pc \in {"engage", "again"} :
            /\ Goto(t, [Top(t) EXCEPT !.pc = pc])
            /\ pc = "engage" => lastTest[s[d].at][k] < lastTest[k][k]
            /\ pc = "again" => lastTest[s[d].at][k] = lastTest[k][k]
      BY <3>1
    <3>3. /\ Len(r) = d /\ Below(s, r, d) /\ Kept(s[d], r[d])
          /\ r[d].pc \in {"engage", "again"}
          /\ r[d].pc = pc
      BY <1>1, <1>2, <3>2, EffectOfMove
    <3> HIDE DEF s, r, k
    <3>4. ~isActive[s[d].at]
      BY <1>6, <3>1 DEF TakesPart
    <3>5. QED
      BY <1>5, <3>1, <3>2, <3>3, <3>4 DEF Kept, Same
  <2>3. CASE ForwardMessage(t)
    <3>1. /\ s[d].pc = "hop" /\ Len(r) = d /\ Below(s, r, d)
          /\ r[d].pc = "hop" /\ r[d].fn = s[d].fn /\ r[d].k = s[d].k
          /\ r[d].from = s[d].from /\ r[d].to = s[d].to
          /\ r[d].count = s[d].count
      BY <1>2, <2>3, EffectOfForward
    <3> HIDE DEF s, r
    <3>2. QED
      BY <3>1
  <2>4. QED
    BY <2>1, <2>2, <2>3
<1>9. TakesPart(r[d], k, lastTest, parent)
  <2> HIDE DEF s, r, k
  <2>1. s[d].count = 0
    BY <1>6, <1>8 DEF TakesPart
  <2>2. QED
    BY <1>8, <2>1 DEF TakesPart
<1>10. Chain(r, d, lastTest', parent', waitStatus', probeCount')
  <2>1. /\ s[d].pc \notin {"loop", "clear", "done"} /\ r[d].pc # "loop"
        /\ d > 1 /\ r[d].pc # "hop" => r[d].at = r[d].to
    BY <1>8
  <2>2. QED
    BY <1>2, <1>3, <1>8, <1>9, <2>1, ChainMove
<1>11. QED
  BY <1>2, <1>3, <1>8, <1>10

\* The steps with which the handler of a probe returns.
LEMMA ProbeReturns ==
  ASSUME DetectionTypeOK, TestNumbers, NEW t \in Task, NEW d, OnChain(t, d),
         \/ ReceiveProbe(t) /\ isActive[Top(t).at]
         \/ EndProbe(t) \/ EndAgain(t)
         \/ AnswerAgain(t) /\ ~waitStatus[Top(t).at][Top(t).k]
  PROVE  LET s == calls[t]
             r == calls'[t]
         IN  /\ d > 1 /\ Len(s) = d /\ Len(r) = d - 1 /\ Below(s, r, d)
             /\ \/ s[d].pc = "hop" /\ isActive[s[d].to]
                \/ s[d].pc = "loop" /\ s[d].todo = {}
                \/ s[d].pc = "again" /\ ~waitStatus[s[d].at][s[1].k]
                \/ s[d].pc = "done"
             /\ UNCHANGED << lastTest, waitStatus, parent, declared >>
             /\ Chain(r, d - 1, lastTest', parent', waitStatus', probeCount')
<1> DEFINE s == calls[t]
           r == calls'[t]
           k == s[1].k
<1>1. ~Idle(t) /\ Top(t).fn = "probe" /\ Return(t)
  BY DEF ReceiveProbe, EndProbe, EndAgain, AnswerAgain, Received, At
<1>2. /\ Len(s) = d /\ d \in Nat /\ d > 1 /\ k \in Node /\ s[d].k = k
      /\ Top(t) = s[d]
      /\ \A i \in 1 .. d : s[i].at \in Node
  BY <1>1, TopOfChain
<1>3. UNCHANGED << lastTest, waitStatus, parent, declared >>
  BY DEF ReceiveProbe, EndProbe, EndAgain, AnswerAgain, probeVars
<1>4. /\ Shape(s, d, d) /\ Nodes(s, d, k, lastTest, parent)
  BY <1>2 DEF OnChain, Chain
<1>5. Len(r) = d - 1 /\ Below(s, r, d)
  BY <1>1, <1>2, EffectOfReturn
<1>6. \/ s[d].pc = "hop" /\ isActive[s[d].to]
      \/ s[d].pc = "loop" /\ s[d].todo = {}
      \/ s[d].pc = "again" /\ ~waitStatus[s[d].at][s[1].k]
      \/ s[d].pc = "done"
  BY <1>2 DEF ReceiveProbe, EndProbe, EndAgain, AnswerAgain, Received, At
<1>7. AgreeBelow(s, d, k, probeCount, probeCount')
  <2>1. CASE EndProbe(t)
    <3> DEFINE c == s[d].count % CountModulus
               x == s[d].at
    <3>1. s[d].pc = "loop" /\ probeCount' = [probeCount EXCEPT ![x][k] = c]
      <4>1. s[d].pc = "loop" /\ probeCount' = [probeCount EXCEPT ![x][s[d].k] = c]
        BY <1>2, <2>1 DEF EndProbe, At
      <4> HIDE DEF s, c, x
      <4>2. QED
        BY <4>1, <1>2
    <3>2. probeCount \in [Node -> [Node -> 0 .. CountModulus - 1]]
      BY DEF DetectionTypeOK
    <3> HIDE DEF s, k, c
    <3> SUFFICES ASSUME NEW i \in 1 .. d - 1
                 PROVE  probeCount'[s[i].at][k] = probeCount[s[i].at][k]
      BY DEF AgreeBelow
    <3>3. i \in 1 .. d /\ d \in 1 .. d /\ i < d /\ s[i].pc = "loop"
      BY <1>2, <1>4 DEF Shape, Probes
    <3>4. s[i].at # x /\ s[i].at \in Node /\ x \in Node
      BY <1>2, <1>4, <3>1, <3>3 DEF Nodes
    <3> HIDE DEF x
    <3>5. QED
      BY <1>2, <3>1, <3>2, <3>4
  <2>2. CASE ~EndProbe(t)
    <3>1. probeCount' = probeCount
      BY <2>2 DEF ReceiveProbe, EndAgain, AnswerAgain, probeVars
    <3>2. QED
      BY <3>1 DEF AgreeBelow
  <2>3. QED
    BY <2>1, <2>2
<1>8. Chain(r, d - 1, lastTest', parent', waitStatus', probeCount')
  <2>1. Top(t).fn # "answer" /\ Len(calls[t]) > 1
    BY <1>1, <1>2
  <2>2. QED
    BY <1>1, <1>3, <1>7, <2>1, ChainPop
<1>9. QED
  BY <1>2, <1>3, <1>5, <1>6, <1>8

\* The steps of an answer before it is counted.
LEMMA AnswerMoves ==
  ASSUME DetectionTypeOK, TestNumbers, NEW t \in Task, NEW d, OnChain(t, d),
         \/ ReceiveAnswer(t) /\ ~isActive[Top(t).at]
         \/ CheckAnswer(t) /\ waitStatus[Top(t).at][Top(t).k]
         \/ ForwardMessage(t) /\ Top(t).fn = "answer"
  PROVE  LET s == calls[t]
             r == calls'[t]
             n == Len(s)
         IN  /\ d < n /\ Len(r) = n /\ Below(s, r, n)
             /\ s[n].pc \in {"hop", "check"}
             /\ r[n].pc \in {"hop", "check", "countdown"}
             /\ UNCHANGED << lastTest, waitStatus, parent, probeCount, declared >>
             /\ Chain(r, d, lastTest', parent', waitStatus', probeCount')
<1> DEFINE s == calls[t]
           r == calls'[t]
           n == Len(s)
           k == s[1].k
           j == 2 * d - n
<1>1. ~Idle(t) /\ Top(t).fn = "answer"
  BY DEF ReceiveAnswer, CheckAnswer, ForwardMessage, Forward, Received, At
<1>2. /\ n \in Nat /\ d < n /\ k \in Node /\ s[n].k = k /\ d \in Nat
      /\ Top(t) = s[n] /\ s[n] \in DetectionFrame /\ s[n].m = lastTest[k][k]
      /\ s[n].fn = "answer" /\ d \in 1 .. n - 1
      /\ j \in 1 .. d - 1 /\ s[n].to = s[j].at
      /\ s[n].pc # "hop" => s[n].at = s[n].to
  BY <1>1, TopOfChain
<1>3. UNCHANGED << lastTest, waitStatus, parent, probeCount, declared >>
  BY DEF ReceiveAnswer, CheckAnswer, ForwardMessage, probeVars
<1>4. /\ Len(r) = n /\ Below(s, r, n)
      /\ s[n].pc \in {"hop", "check"}
      /\ r[n].pc \in {"hop", "check", "countdown"}
      /\ r[n].fn = s[n].fn /\ r[n].to = s[n].to
      /\ r[n].pc # "hop" => r[n].at = r[n].to
      /\ r[n].pc = "countdown" => waitStatus[r[n].at][k]
  <2>1. CASE ReceiveAnswer(t) /\ ~isActive[Top(t).at]
    <3>1. /\ Goto(t, [Top(t) EXCEPT !.pc = "check"]) /\ Top(t).pc = "hop"
          /\ Top(t).at = Top(t).to
      BY <2>1 DEF ReceiveAnswer, Received, At
    <3>2. Len(r) = n /\ Below(s, r, n) /\ Kept(s[n], r[n]) /\ r[n].pc = "check"
      BY <1>1, <3>1, EffectOfMove
    <3> HIDE DEF s, r, n
    <3>3. QED
      BY <3>1, <3>2, <1>2 DEF Kept, Same
  <2>2. CASE CheckAnswer(t) /\ waitStatus[Top(t).at][Top(t).k]
    <3>1. \/ Goto(t, [Top(t) EXCEPT !.pc = "countdown"])
          \/ Return(t)
      BY <2>2 DEF CheckAnswer
    <3>2. Top(t).pc = "check"
      BY <2>2 DEF CheckAnswer, At
    <3>3. lastTest[s[n].at][k] = lastTest[k][k]
      <4> HIDE DEF s, n, j, k
      <4>1. j \in 1 .. d /\ s[j].pc = "loop" /\ s[n].at = s[j].at
        <5>1. Shape(s, n, d)
          BY DEF OnChain, Chain, s, n
        <5>2. QED
          BY <1>2, <3>2, <5>1 DEF Shape, Probes
      <4>2. Nodes(s, d, k, lastTest, parent)
        BY DEF OnChain, Chain, s, k
      <4>3. TakesPart(s[j], k, lastTest, parent)
        BY <4>1, <4>2 DEF Nodes
      <4>4. QED
        BY <4>1, <4>3 DEF TakesPart
    <3>4. Goto(t, [Top(t) EXCEPT !.pc = "countdown"])
      <4>1. Top(t).m = lastTest[Top(t).at][Top(t).k]
        <5> HIDE DEF s, n, k
        <5>1. QED
          BY <1>2, <3>3
      <4>2. QED
        BY <2>2, <4>1 DEF CheckAnswer
    <3>5. /\ Len(r) = n /\ Below(s, r, n) /\ Kept(s[n], r[n])
          /\ r[n].pc = "countdown"
      BY <1>1, <3>4, EffectOfMove
    <3>6. waitStatus[s[n].at][k] /\ s[n].pc = "check"
      <4> HIDE DEF s, n, k
      <4>1. QED
        BY <1>2, <2>2, <3>2
    <3> HIDE DEF s, r, n, k
    <3>7. QED
      BY <3>5, <3>6, <1>2 DEF Kept, Same
  <2>3. CASE ForwardMessage(t)
    <3>1. /\ s[n].pc = "hop" /\ Len(r) = n /\ Below(s, r, n)
          /\ r[n].pc = "hop" /\ r[n].fn = s[n].fn /\ r[n].to = s[n].to
      BY <2>3, EffectOfForward
    <3> HIDE DEF s, r, n
    <3>2. QED
      BY <3>1
  <2>4. QED
    BY <2>1, <2>2, <2>3
<1>5. Chain(r, d, lastTest', parent', waitStatus', probeCount')
  <2>1. /\ s[n].pc \notin {"clear", "done"} /\ r[n].pc # "clear"
    BY <1>4
  <2>2. QED
    BY <1>2, <1>3, <1>4, <2>1, ChainMoveAnswer
<1>6. QED
  BY <1>2, <1>3, <1>4, <1>5

\* The addressee of an answer probes, so it is passive and takes the answer.
LEMMA AnswerIsTaken ==
  ASSUME DetectionTypeOK, TestNumbers, NEW t \in Task, NEW d, OnChain(t, d),
         ReceiveAnswer(t)
  PROVE  ~isActive[Top(t).at]
<1> DEFINE s == calls[t]
           n == Len(s)
           k == s[1].k
           j == 2 * d - n
<1>1. ~Idle(t) /\ Top(t).fn = "answer" /\ Top(t).at = Top(t).to
  BY DEF ReceiveAnswer, Received, At
<1>2. /\ j \in 1 .. d - 1 /\ d \in Nat /\ Top(t) = s[n] /\ s[n].to = s[j].at
      /\ s[j].pc = "loop"
  <2>1. Top(t) = s[n] /\ d \in 1 .. n /\ n \in Nat
    BY <1>1, TopOfChain
  <2>2. s[n].fn = "answer"
    BY <1>1, <2>1
  <2>3. QED
    BY <2>1, <2>2, TopOfChain
<1>3. Nodes(s, d, k, lastTest, parent)
  BY DEF OnChain, Chain
<1> HIDE DEF s, n, k, j
<1>4. j \in 1 .. d
  BY <1>2
<1>5. TakesPart(s[j], k, lastTest, parent)
  BY <1>3, <1>4 DEF Nodes
<1>6. QED
  BY <1>1, <1>2, <1>5 DEF TakesPart

\* The steps with which the handler of an answer returns and answers nobody.
LEMMA AnswerDropped ==
  ASSUME DetectionTypeOK, TestNumbers, NEW t \in Task, NEW d, OnChain(t, d),
         \/ CheckAnswer(t) /\ ~waitStatus[Top(t).at][Top(t).k]
         \/ CountDown(t) /\ ~LastAnswer(t)
  PROVE  LET s == calls[t]
             r == calls'[t]
             n == Len(s)
             j == 2 * d - n
         IN  /\ d < n /\ Len(r) = n - 1 /\ Below(s, r, n)
             /\ s[n].pc \in {"check", "countdown"}
             /\ j \in 1 .. d - 1
             /\ s[j].count >= 2 \/ ~waitStatus[s[j].at][s[1].k]
             /\ UNCHANGED << lastTest, waitStatus, parent, declared >>
             /\ Chain(r, d, lastTest', parent', waitStatus', probeCount')
<1> DEFINE s == calls[t]
           r == calls'[t]
           n == Len(s)
           k == s[1].k
           j == 2 * d - n
<1>1. ~Idle(t) /\ Top(t).fn = "answer" /\ Return(t)
  BY DEF CheckAnswer, CountDown, At
<1>2. /\ n \in Nat /\ d < n /\ d \in Nat /\ d \in 1 .. n
      /\ Top(t) = s[n] /\ s[n].k = k /\ s[n].fn = "answer"
      /\ j \in 1 .. d - 1
      /\ s[n].pc # "hop" => s[n].at = s[j].at
  BY <1>1, TopOfChain
<1>3. UNCHANGED << lastTest, waitStatus, parent, declared >>
  BY DEF CheckAnswer, CountDown, probeVars
<1>4. s[n].pc \in {"check", "countdown"}
  BY <1>2 DEF CheckAnswer, CountDown, At
<1>5. /\ s[j].count >= 2 \/ ~waitStatus[s[j].at][k]
      /\ \A i \in 1 .. d - 1 : i # j =>
           probeCount'[s[i].at][k] = probeCount[s[i].at][k]
  <2>1. CASE CheckAnswer(t) /\ ~waitStatus[Top(t).at][Top(t).k]
    <3>1. probeCount' = probeCount
      BY <2>1 DEF CheckAnswer, probeVars
    <3>2. ~waitStatus[s[j].at][k]
      <4>1. Top(t).at = s[j].at /\ Top(t).k = k
        BY <1>2, <1>4
      <4> HIDE DEF s, k, j
      <4>2. QED
        BY <2>1, <4>1
    <3>3. QED
      BY <3>1, <3>2
  <2>2. CASE CountDown(t) /\ ~LastAnswer(t)
    <3>1. At(t, "answer", "countdown")
      BY <2>2 DEF CountDown
    <3>2. s[j].count \in Nat /\ s[j].count >= 1 /\ s[j].count # 1
      BY <2>2, <3>1, CountOfAnswer
    <3>3. \A i \in 1 .. d - 1 : i # j =>
            probeCount'[s[i].at][k] = probeCount[s[i].at][k]
      BY <2>2, OthersCounted
    <3> HIDE DEF s, j, k
    <3>4. QED
      BY <3>2, <3>3
  <2>3. QED
    BY <2>1, <2>2
<1>6. /\ Len(r) = n - 1
      /\ Chain(r, d, lastTest', parent', waitStatus', probeCount')
  <2>1. s[n].pc \notin {"clear", "done"}
    BY <1>4
  <2>2. QED
    BY <1>1, <1>2, <1>3, <1>5, <2>1, ChainDrop
<1>7. Below(s, r, n)
  BY <1>1, EffectOfReturn
<1>8. QED
  BY <1>2, <1>3, <1>4, <1>5, <1>6, <1>7

\* The reply to the operator.
LEMMA TestReturns ==
  ASSUME DetectionTypeOK, TestNumbers, NEW t \in Task, NEW d, OnChain(t, d),
         EndStart(t)
  PROVE  /\ d = 1 /\ Len(calls[t]) = 1 /\ calls'[t] = << >>
         /\ calls[t][1].pc = "loop" /\ calls[t][1].todo = {}
         /\ UNCHANGED << lastTest, waitStatus, parent, probeCount, declared >>
<1>1. ~Idle(t) /\ Top(t).fn = "start" /\ Top(t).pc = "loop"
      /\ Top(t).todo = {} /\ Return(t)
  BY DEF EndStart, At
<1>2. Len(calls[t]) = 1 /\ d = 1 /\ Top(t) = calls[t][1]
  BY <1>1, TopOfChain
<1>3. Len(calls'[t]) = 0 /\ calls'[t] \in Seq(DetectionFrame)
  <2>1. Len(calls'[t]) = Len(calls[t]) - 1
    BY <1>1, EffectOfReturn
  <2>2. calls' \in [Task -> Seq(DetectionFrame)]
    BY <1>1, ReturnEffect DEF DetectionTypeOK
  <2>3. QED
    BY <1>2, <2>1, <2>2
<1>4. calls'[t] = << >>
  BY <1>3
<1>5. QED
  BY <1>1, <1>2, <1>4 DEF EndStart, probeVars

\* A message that goes round is one of a test.
LEMMA ForwardedIsMessage ==
  ASSUME DetectionTypeOK, TestNumbers, NEW t \in Task, ForwardMessage(t)
  PROVE  Top(t).fn \in {"probe", "answer"}
<1>1. ~Idle(t) /\ Top(t).pc = "hop"
  BY DEF ForwardMessage, Forward
<1>2. Top(t) \in DetectionFrame
  BY <1>1, TopOfStack
<1>3. Top(t).fn # "start"
  BY <1>1, TopOfTest DEF RootFrame
<1>4. QED
  BY <1>2, <1>3 DEF DetectionFrame

\* Each step of a request is one of these.
LEMMA StepKinds ==
  ASSUME NEW t \in Task, RequestStep(t)
  PROVE  \/ MarkTest(t)
         \/ ReadTest(t)
         \/ \E n \in Node : SendProbe(t, n)
         \/ EndStart(t)
         \/ \/ ReceiveProbe(t) /\ ~isActive[Top(t).at]
            \/ TestProbe(t)
            \/ ForwardMessage(t) /\ Top(t).fn = "probe"
         \/ \/ ReceiveProbe(t) /\ isActive[Top(t).at]
            \/ EndProbe(t) \/ EndAgain(t)
            \/ AnswerAgain(t) /\ ~waitStatus[Top(t).at][Top(t).k]
         \/ Engage(t)
         \/ AnswerAgain(t) /\ waitStatus[Top(t).at][Top(t).k]
         \/ ReceiveAnswer(t)
         \/ CheckAnswer(t) /\ waitStatus[Top(t).at][Top(t).k]
         \/ ForwardMessage(t) /\ Top(t).fn # "probe"
         \/ \/ CheckAnswer(t) /\ ~waitStatus[Top(t).at][Top(t).k]
            \/ CountDown(t) /\ ~LastAnswer(t)
         \/ CountDown(t) /\ LastAnswer(t)
         \/ ClearWait(t)
BY DEF RequestStep

\* A request does not touch what the tests of other nodes keep.
LEMMA OthersKept ==
  ASSUME DetectionTypeOK, TestNumbers, NEW t \in Task, RequestStep(t)
  PROVE  /\ ~Idle(t)
         /\ \A u \in Task \ {t} : calls'[u] = calls[u]
         /\ \A n \in Node, k \in Node \ {calls[t][1].k} :
              /\ lastTest'[n][k] = lastTest[n][k]
              /\ waitStatus'[n][k] = waitStatus[n][k]
              /\ parent'[n][k] = parent[n][k]
              /\ probeCount'[n][k] = probeCount[n][k]
         /\ UNCHANGED waitGraph
<1> DEFINE r == calls[t][1].k
           f == Top(t)
<1>1. ~Idle(t)
  BY DEF RequestStep, MarkTest, ReadTest, SendProbe, EndStart, EndProbe,
     ReceiveProbe, TestProbe, Engage, AnswerAgain, EndAgain, ReceiveAnswer,
     CheckAnswer, CountDown, ClearWait, ForwardMessage, Forward, Received, At
<1>2. f.k = r /\ r \in Node /\ f.at \in Node
      /\ (f.fn = "start" => f.at = r)
  <2>1. f \in DetectionFrame
    BY <1>1, TopOfStack
  <2>2. QED
    BY <1>1, <2>1, TopOfTest DEF DetectionFrame
<1>3. \A u \in Task \ {t} : calls'[u] = calls[u]
  BY DEF RequestStep, MarkTest, ReadTest, SendProbe, EndStart, EndProbe,
     ReceiveProbe, TestProbe, Engage, AnswerAgain, EndAgain, ReceiveAnswer,
     CheckAnswer, CountDown, ClearWait, ForwardMessage, Forward,
     Goto, Call, Return, DetectionTypeOK
<1> HIDE DEF r, f
<1>4. /\ lastTest \in [Node -> [Node -> Nat]]
      /\ waitStatus \in [Node -> [Node -> BOOLEAN]]
      /\ parent \in [Node -> [Node -> Node \cup {NoNode}]]
      /\ probeCount \in [Node -> [Node -> 0 .. CountModulus - 1]]
  BY DEF DetectionTypeOK
<1>5. /\ \/ lastTest' = lastTest
         \/ \E v : lastTest' = [lastTest EXCEPT ![f.at][r] = v]
      /\ \/ waitStatus' = waitStatus
         \/ \E v : waitStatus' = [waitStatus EXCEPT ![f.at][r] = v]
      /\ \/ parent' = parent
         \/ \E v : parent' = [parent EXCEPT ![f.at][r] = v]
      /\ \/ probeCount' = probeCount
         \/ \E v : probeCount' = [probeCount EXCEPT ![f.at][r] = v]
      /\ UNCHANGED waitGraph
  <2>1. CASE MarkTest(t)
    <3>1. f.fn = "start" /\ f.at = r
      BY <2>1, <1>2 DEF MarkTest, At, f
    <3>2. /\ lastTest' = [lastTest EXCEPT ![f.at][f.at] = lastTest[f.at][f.at] + 1]
          /\ waitStatus' = [waitStatus EXCEPT ![f.at][f.at] = TRUE]
          /\ UNCHANGED << waitGraph, parent, probeCount >>
      BY <2>1 DEF MarkTest, f
    <3>3. QED
      BY <3>1, <3>2
  <2>2. CASE ReadTest(t) \/ EndStart(t) \/ ReceiveProbe(t) \/ TestProbe(t)
             \/ AnswerAgain(t) \/ EndAgain(t) \/ ReceiveAnswer(t)
             \/ CheckAnswer(t) \/ ForwardMessage(t)
    BY <2>2 DEF ReadTest, EndStart, ReceiveProbe, TestProbe, AnswerAgain,
       EndAgain, ReceiveAnswer, CheckAnswer, ForwardMessage, probeVars
  <2>3. ASSUME NEW n \in Node, SendProbe(t, n)
        PROVE  /\ \E v : probeCount' = [probeCount EXCEPT ![f.at][r] = v]
               /\ UNCHANGED << waitGraph, lastTest, waitStatus, parent >>
    <3>1. probeCount' = [probeCount EXCEPT
                           ![f.at][f.k] = (f.count + 1) % CountModulus]
      <4>1. f = calls[t][Len(calls[t])]
        BY <1>1, TopOfStack DEF f
      <4>2. probeCount' = [probeCount EXCEPT
              ![calls[t][Len(calls[t])].at][calls[t][Len(calls[t])].k] =
                (calls[t][Len(calls[t])].count + 1) % CountModulus]
        BY <2>3, EffectOfSendProbe
      <4>3. QED
        BY <4>1, <4>2
    <3>2. QED
      BY <2>3, <3>1, <1>2 DEF SendProbe
  <2>4. CASE EndProbe(t)
    <3>1. probeCount' = [probeCount EXCEPT ![f.at][f.k] = f.count % CountModulus]
      BY <2>4 DEF EndProbe, f
    <3>2. QED
      BY <2>4, <3>1, <1>2 DEF EndProbe
  <2>5. CASE Engage(t)
    <3>1. /\ lastTest' = [lastTest EXCEPT ![f.at][f.k] = f.m]
          /\ waitStatus' = [waitStatus EXCEPT ![f.at][f.k] = TRUE]
          /\ parent' = [parent EXCEPT ![f.at][f.k] = f.from]
          /\ UNCHANGED << waitGraph, probeCount >>
      BY <2>5 DEF Engage, f
    <3>2. QED
      BY <3>1, <1>2
  <2>6. CASE CountDown(t)
    <3>1. /\ probeCount' = [probeCount EXCEPT
               ![f.at][f.k] = Decremented(probeCount[f.at][f.k])]
          /\ UNCHANGED << waitGraph, lastTest, waitStatus, parent >>
      BY <2>6 DEF CountDown, f
    <3>2. QED
      BY <3>1, <1>2
  <2>7. CASE ClearWait(t)
    <3>1. /\ waitStatus' = [waitStatus EXCEPT ![f.at][f.k] = FALSE]
          /\ UNCHANGED << waitGraph, lastTest, parent, probeCount >>
      BY <2>7 DEF ClearWait, f
    <3>2. QED
      BY <3>1, <1>2
  <2>8. QED
    BY <2>1, <2>2, <2>3, <2>4, <2>5, <2>6, <2>7 DEF RequestStep
<1>6. \A n \in Node, k \in Node \ {r} :
        /\ lastTest'[n][k] = lastTest[n][k]
        /\ waitStatus'[n][k] = waitStatus[n][k]
        /\ parent'[n][k] = parent[n][k]
        /\ probeCount'[n][k] = probeCount[n][k]
  <2>2. TAKE n \in Node, k \in Node \ {r}
  <2>3. lastTest'[n][k] = lastTest[n][k]
    <3>1. CASE lastTest' = lastTest
      BY <3>1
    <3>2. CASE lastTest' # lastTest
      <4>1. PICK v : lastTest' = [lastTest EXCEPT ![f.at][r] = v]
        BY <1>5, <3>2
      <4>2. QED
        BY <1>2, <1>4, <4>1
    <3>3. QED
      BY <3>1, <3>2
  <2>4. waitStatus'[n][k] = waitStatus[n][k]
    <3>1. CASE waitStatus' = waitStatus
      BY <3>1
    <3>2. CASE waitStatus' # waitStatus
      <4>1. PICK v : waitStatus' = [waitStatus EXCEPT ![f.at][r] = v]
        BY <1>5, <3>2
      <4>2. QED
        BY <1>2, <1>4, <4>1
    <3>3. QED
      BY <3>1, <3>2
  <2>5. parent'[n][k] = parent[n][k]
    <3>1. CASE parent' = parent
      BY <3>1
    <3>2. CASE parent' # parent
      <4>1. PICK v : parent' = [parent EXCEPT ![f.at][r] = v]
        BY <1>5, <3>2
      <4>2. QED
        BY <1>2, <1>4, <4>1
    <3>3. QED
      BY <3>1, <3>2
  <2>6. probeCount'[n][k] = probeCount[n][k]
    <3>1. CASE probeCount' = probeCount
      BY <3>1
    <3>2. CASE probeCount' # probeCount
      <4>1. PICK v : probeCount' = [probeCount EXCEPT ![f.at][r] = v]
        BY <1>5, <3>2
      <4>2. QED
        BY <1>2, <1>4, <4>1
    <3>3. QED
      BY <3>1, <3>2
  <2>7. QED
    BY <2>3, <2>4, <2>5, <2>6
<1>7. QED
  BY <1>1, <1>3, <1>5, <1>6 DEF r

\* A chain depends only on the entries of its own test.
LEMMA ChainAgree ==
  ASSUME NEW s, NEW d, NEW last, NEW par, NEW wait, NEW cnt,
         NEW last2, NEW par2, NEW wait2, NEW cnt2,
         Chain(s, d, last, par, wait, cnt), s[1].k \in Node,
         \A i \in 1 .. Len(s) : s[i].at \in Node,
         \A n \in Node :
           /\ last2[n][s[1].k] = last[n][s[1].k]
           /\ wait2[n][s[1].k] = wait[n][s[1].k]
           /\ par2[n][s[1].k] = par[n][s[1].k]
           /\ cnt2[n][s[1].k] = cnt[n][s[1].k]
  PROVE  Chain(s, d, last2, par2, wait2, cnt2)
<1> DEFINE n == Len(s)
           k == s[1].k
<1>1. /\ Shape(s, n, d) /\ Nodes(s, d, k, last, par)
      /\ Counts(s, n, d, k, wait, cnt)
  BY DEF Chain
<1>2. n \in Nat /\ d \in 1 .. n /\ n < 2 * d /\ k \in Node
  BY <1>1 DEF Shape
<1>3. \A i \in 1 .. n :
        /\ last2[s[i].at][k] = last[s[i].at][k]
        /\ wait2[s[i].at][k] = wait[s[i].at][k]
        /\ par2[s[i].at][k] = par[s[i].at][k]
        /\ cnt2[s[i].at][k] = cnt[s[i].at][k]
  OBVIOUS
<1>4. last2[k][k] = last[k][k]
  BY <1>2
<1> HIDE DEF n, k
<1>5. \A i \in 1 .. d : TakesPart(s[i], k, last2, par2)
  <2> SUFFICES ASSUME NEW i \in 1 .. d
               PROVE  TakesPart(s[i], k, last2, par2)
    OBVIOUS
  <2>1. TakesPart(s[i], k, last, par) /\ i \in 1 .. n
    BY <1>1, <1>2 DEF Nodes
  <2>2. QED
    BY <1>3, <1>4, <2>1 DEF TakesPart
<1>6. Nodes(s, d, k, last2, par2)
  BY <1>1, <1>5 DEF Nodes
<1>7. ASSUME NEW i \in 1 .. d - 1
      PROVE  \/ cnt2[s[i].at][k] = s[i].count
             \/ Answered(s, n, d, k, wait2, i + 1)
  <2>1. i \in 1 .. n /\ i + 1 \in 1 .. n
    BY <1>2
  <2>2. cnt[s[i].at][k] = s[i].count \/ Answered(s, n, d, k, wait, i + 1)
    BY <1>1 DEF Counts
  <2>3. QED
    BY <1>3, <2>1, <2>2 DEF Answered
<1>8. Counts(s, n, d, k, wait2, cnt2)
  <2>1. d < n => 2 * d - n \in 1 .. n
    BY <1>2
  <2>2. /\ d < n /\ s[n].pc # "clear" =>
             cnt2[s[2 * d - n].at][k] = s[2 * d - n].count
        /\ d < n /\ s[n].pc = "countdown" => wait2[s[2 * d - n].at][k]
    BY <1>1, <1>3, <2>1 DEF Counts
  <2>3. QED
    BY <1>7, <2>2 DEF Counts
<1>9. QED
  BY <1>1, <1>6, <1>8 DEF Chain, n, k

\* The requests in progress are chains.
Chains == \A t \in Task : ~Idle(t) => \E d \in Nat : OnChain(t, d)

\* A chain after a step that leaves who waits for whom alone.
LEMMA ChainNext ==
  ASSUME UNCHANGED waitGraph, NEW t \in Task, NEW d,
         Chain(calls'[t], d, lastTest', parent', waitStatus', probeCount')
  PROVE  OnChain(t, d)' /\ d \in Nat
<1>1. /\ isActive' = isActive /\ waitingFrom' = waitingFrom
      /\ Shape(calls'[t], Len(calls'[t]), d)
  BY DEF waitGraph, Chain
<1>2. Len(calls'[t]) \in Nat /\ d \in 1 .. Len(calls'[t]) /\ d \in Nat
  BY <1>1 DEF Shape
<1>3. calls'[t] # << >>
  <2>1. Len(calls'[t]) # 0
    BY <1>2
  <2>2. QED
    BY <2>1
<1>4. Chain(calls[t], d, lastTest, parent, waitStatus, probeCount)'
  BY <1>1 DEF Chain, Shape, Probes, Nodes, TakesPart
<1>5. QED
  BY <1>2, <1>3, <1>4 DEF OnChain, Idle

\* The chain of the request that takes a step.
LEMMA ChainOfStep ==
  ASSUME SmallRing, DetectionTypeOK, TestNumbers,
         NEW t \in Task, NEW d, OnChain(t, d), RequestStep(t), ~Idle(t)'
  PROVE  \E e : Chain(calls'[t], e, lastTest', parent', waitStatus', probeCount')
<1>1. CASE MarkTest(t)
  BY <1>1, ChainMark
<1>2. CASE ReadTest(t)
  BY <1>2, ChainRead
<1>3. CASE \E n \in Node : SendProbe(t, n)
  BY <1>3, ChainProbe
<1>4. CASE EndStart(t)
  BY <1>4, TestReturns DEF Idle
<1>5. CASE \/ ReceiveProbe(t) /\ ~isActive[Top(t).at]
           \/ TestProbe(t)
           \/ ForwardMessage(t) /\ Top(t).fn = "probe"
  BY <1>5, ProbeMoves
<1>6. CASE \/ ReceiveProbe(t) /\ isActive[Top(t).at]
           \/ EndProbe(t) \/ EndAgain(t)
           \/ AnswerAgain(t) /\ ~waitStatus[Top(t).at][Top(t).k]
  BY <1>6, ProbeReturns
<1>7. CASE Engage(t)
  BY <1>7, ChainEngage
<1>8. CASE AnswerAgain(t) /\ waitStatus[Top(t).at][Top(t).k]
  BY <1>8, ChainAnswer
<1>9. CASE ReceiveAnswer(t)
  BY <1>9, AnswerIsTaken, AnswerMoves
<1>10. CASE CheckAnswer(t) /\ waitStatus[Top(t).at][Top(t).k]
  BY <1>10, AnswerMoves
<1>11. CASE ForwardMessage(t) /\ Top(t).fn # "probe"
  <2>1. Top(t).fn = "answer"
    BY <1>11, ForwardedIsMessage
  <2>2. QED
    BY <1>11, <2>1, AnswerMoves
<1>12. CASE \/ CheckAnswer(t) /\ ~waitStatus[Top(t).at][Top(t).k]
            \/ CountDown(t) /\ ~LastAnswer(t)
  BY <1>12, AnswerDropped
<1>13. CASE CountDown(t) /\ LastAnswer(t)
  BY <1>13, ChainResolve
<1>14. CASE ClearWait(t)
  BY <1>14, ChainClear
<1>15. QED
  BY StepKinds, <1>1, <1>2, <1>3, <1>4, <1>5, <1>6, <1>7, <1>8, <1>9, <1>10,
     <1>11, <1>12, <1>13, <1>14

\* Requests stay chains.
LEMMA ChainsStep ==
  ASSUME SmallRing, DetectionTypeOK, TestNumbers, Chains,
         [DetectionNext]_detectionVars
  PROVE  Chains'
<1>1. CASE UNCHANGED detectionVars
  <2>1. UNCHANGED << calls, waitGraph, probeVars >>
    BY <1>1 DEF detectionVars
  <2> SUFFICES ASSUME NEW u \in Task, ~Idle(u)'
               PROVE  \E d \in Nat : OnChain(u, d)'
    BY DEF Chains
  <2>2. PICK d \in Nat : OnChain(u, d)
    BY <2>1 DEF Chains, Idle
  <2>3. Chain(calls'[u], d, lastTest', parent', waitStatus', probeCount')
    BY <2>1, <2>2 DEF OnChain, probeVars
  <2>4. QED
    BY <2>1, <2>3, ChainNext
<1>2. ASSUME NEW t \in Task, NEW n \in Initiator, StartDetection(t, n)
      PROVE  Chains'
  <2>1. UNCHANGED << waitGraph, probeVars >>
    BY <1>2 DEF StartDetection
  <2> SUFFICES ASSUME NEW u \in Task, ~Idle(u)'
               PROVE  \E d \in Nat : OnChain(u, d)'
    BY DEF Chains
  <2>2. CASE u = t
    BY <1>2, <2>1, <2>2, ChainStart, ChainNext
  <2>3. CASE u # t
    <3>1. calls'[u] = calls[u]
      BY <1>2, <2>3, ChainStart
    <3>2. PICK d \in Nat : OnChain(u, d)
      BY <3>1 DEF Chains, Idle
    <3>3. Chain(calls'[u], d, lastTest', parent', waitStatus', probeCount')
      BY <2>1, <3>1, <3>2 DEF OnChain, probeVars
    <3>4. QED
      BY <2>1, <3>3, ChainNext
  <2>4. QED
    BY <2>2, <2>3
<1>3. ASSUME NEW t \in Task, RequestStep(t)
      PROVE  Chains'
  <2>1. /\ ~Idle(t) /\ UNCHANGED waitGraph
        /\ \A u \in Task \ {t} : calls'[u] = calls[u]
    BY <1>3, OthersKept
  <2> SUFFICES ASSUME NEW u \in Task, ~Idle(u)'
               PROVE  \E d \in Nat : OnChain(u, d)'
    BY DEF Chains
  <2>2. CASE u = t
    <3>1. PICK d \in Nat : OnChain(t, d)
      BY <2>1 DEF Chains
    <3>2. \E e : Chain(calls'[t], e, lastTest', parent', waitStatus', probeCount')
      BY <1>3, <2>2, <3>1, ChainOfStep
    <3>3. QED
      BY <2>1, <2>2, <3>2, ChainNext
  <2>3. CASE u # t
    <3>1. calls'[u] = calls[u] /\ ~Idle(u)
      BY <2>1, <2>3 DEF Idle
    <3>2. PICK d \in Nat : OnChain(u, d)
      BY <3>1 DEF Chains
    <3>3. Chain(calls[u], d, lastTest', parent', waitStatus', probeCount')
      <4>1. /\ calls[u][1].k \in Node /\ calls[u][1].k # calls[t][1].k
            /\ \A i \in 1 .. Len(calls[u]) : calls[u][i].at \in Node
        BY <2>1, <2>3, <3>1, <3>2, TopOfChain DEF TestNumbers
      <4>2. \A n \in Node :
              /\ lastTest'[n][calls[u][1].k] = lastTest[n][calls[u][1].k]
              /\ waitStatus'[n][calls[u][1].k] = waitStatus[n][calls[u][1].k]
              /\ parent'[n][calls[u][1].k] = parent[n][calls[u][1].k]
              /\ probeCount'[n][calls[u][1].k] = probeCount[n][calls[u][1].k]
        BY <1>3, <4>1, OthersKept
      <4>3. Chain(calls[u], d, lastTest, parent, waitStatus, probeCount)
        BY <3>2 DEF OnChain
      <4>4. QED
        BY <4>1, <4>2, <4>3, ChainAgree
    <3>4. QED
      BY <2>1, <3>1, <3>3, ChainNext
  <2>4. QED
    BY <2>2, <2>3
<1>4. QED
  BY <1>1, <1>2, <1>3 DEF DetectionNext

\* The handlers of a test form a chain, out along the probes of handle_probe
\* and back along the answers of handle_probe_answer, for one test of a node
\* at a time and fewer nodes than a u32 counts.
THEOREM RequestsAreChains ==
  ASSUME OneTestAtATime, SmallRing
  PROVE  DetectionSpec => [](DetectionTypeOK /\ TestNumbers /\ Chains)
<1>1. DetectionInit => Chains
  BY DEF DetectionInit, Chains, Idle
<1>2. DetectionTypeOK /\ TestNumbers /\ Chains /\ [DetectionNext]_detectionVars
        => Chains'
  BY ChainsStep
<1>3. QED
  BY <1>1, <1>2, TestNumbersAgree, PTL DEF DetectionSpec

\* The decrement of probe_count in handle_probe_answer never wraps, although
\* handle_probe overwrites the count with the probes it has sent while the
\* answers to these come in.
THEOREM CountNeverUnderflows ==
  ASSUME OneTestAtATime, SmallRing
  PROVE  DetectionSpec => []NoCountUnderflow
<1>1. DetectionTypeOK /\ TestNumbers /\ Chains => NoCountUnderflow
  <2> SUFFICES ASSUME DetectionTypeOK, TestNumbers, Chains,
                      NEW t \in Task, At(t, "answer", "countdown")
               PROVE  probeCount[Top(t).at][Top(t).k] >= 1
    BY DEF NoCountUnderflow
  <2>1. PICK d \in Nat : OnChain(t, d)
    BY DEF Chains, At
  <2>2. QED
    BY <2>1, CountOfAnswer
<1>2. QED
  BY <1>1, RequestsAreChains, PTL

-----------------------------------------------------------------------------
(* The tree of a test.                                                     *)

\* A node enters a test after its prober, who waits for it.
LEMMA NodeEnters ==
  ASSUME DetectionTypeOK, TestNumbers, NEW t \in Task, NEW d, OnChain(t, d),
         Engage(t)
  PROVE  LET s == calls[t]
             k == s[1].k
             x == s[d].at
             p == s[d - 1].at
         IN  /\ d = Len(s) /\ d \in Nat /\ d > 1
             /\ x \in Node /\ k \in Node /\ p \in Node
             /\ lastTest[x][k] < lastTest[k][k]
             /\ lastTest[p][k] = lastTest[k][k]
             /\ x \in waitingFrom[p]
             /\ lastTest' = [lastTest EXCEPT ![x][k] = lastTest[k][k]]
             /\ parent' = [parent EXCEPT ![x][k] = p]
             /\ waitStatus' = [waitStatus EXCEPT ![x][k] = TRUE]
<1> DEFINE s == calls[t]
           k == s[1].k
           x == s[d].at
           p == s[d - 1].at
           m == lastTest[k][k]
<1>1. ~Idle(t) /\ s[Len(s)].fn = "probe"
  BY EffectOfEngage
<1>2. /\ d = Len(s) /\ d \in Nat /\ d > 1 /\ k \in Node /\ s[d].k = k
      /\ \A i \in 1 .. d : s[i].at \in Node
      /\ s[d].m = m
  BY <1>1, TopOfChain
<1>3. s[d].pc = "engage"
  BY <1>2, EffectOfEngage
<1>4. Shape(s, d, d) /\ Nodes(s, d, k, lastTest, parent)
  BY <1>2 DEF OnChain, Chain
<1>5. /\ lastTest' = [lastTest EXCEPT ![s[Len(s)].at][s[Len(s)].k] = s[Len(s)].m]
      /\ waitStatus' = [waitStatus EXCEPT ![s[Len(s)].at][s[Len(s)].k] = TRUE]
      /\ parent' = [parent EXCEPT ![s[Len(s)].at][s[Len(s)].k] = s[Len(s)].from]
  BY EffectOfEngage
<1> HIDE DEF s, k, m
<1>6. /\ d - 1 \in 1 .. d - 1 /\ d - 1 \in 1 .. d /\ d \in 1 .. d
      /\ d - 1 + 1 = d
  BY <1>2
<1>7. /\ Probes(s[d - 1], s[d]) /\ s[d].at = s[d].to
  BY <1>2, <1>3, <1>4, <1>6 DEF Shape
<1>8. TakesPart(s[d], k, lastTest, parent) /\ TakesPart(s[d - 1], k, lastTest, parent)
  BY <1>4, <1>6 DEF Nodes
<1>9. /\ lastTest[x][k] < m /\ lastTest[p][k] = m
      /\ s[d].from = p /\ x \in waitingFrom[p]
  BY <1>3, <1>7, <1>8 DEF Probes, TakesPart, m
<1>10. x \in Node /\ p \in Node
  BY <1>2, <1>6
<1> HIDE DEF p
<1>11. /\ lastTest' = [lastTest EXCEPT ![x][k] = m]
       /\ parent' = [parent EXCEPT ![x][k] = p]
       /\ waitStatus' = [waitStatus EXCEPT ![x][k] = TRUE]
  BY <1>2, <1>5, <1>9
<1>12. QED
  BY <1>2, <1>9, <1>10, <1>11 DEF s, k, p, m

\* The nodes in the test of k after that, and after the start of a new test.
LEMMA EngagedGrows ==
  ASSUME DetectionTypeOK, NEW x \in Node, NEW k \in Node,
         lastTest[x][k] < lastTest[k][k],
         lastTest' = [lastTest EXCEPT ![x][k] = lastTest[k][k]]
  PROVE  /\ x # k /\ x \notin Engaged(k)
         /\ Engaged(k)' = Engaged(k) \cup {x}
<1>1. lastTest[x][k] \in Nat /\ lastTest[k][k] \in Nat
  BY DEF DetectionTypeOK
<1>2. x # k /\ lastTest[k][k] > 0
  BY <1>1
<1>3. /\ lastTest'[k][k] = lastTest[k][k] /\ lastTest'[x][k] = lastTest[k][k]
      /\ \A n \in Node \ {x} : lastTest'[n][k] = lastTest[n][k]
  BY <1>2 DEF DetectionTypeOK
<1>4. QED
  BY <1>1, <1>2, <1>3 DEF Engaged

\* A new test has no nodes but its initiator.
LEMMA EngagedEmptied ==
  ASSUME DetectionTypeOK, TestNumbers, NEW k \in Node,
         lastTest' = [lastTest EXCEPT ![k][k] = @ + 1]
  PROVE  Engaged(k)' = {}
<1>1. \A n \in Node : /\ lastTest[n][k] \in Nat /\ lastTest[k][k] \in Nat
                      /\ lastTest[n][k] <= lastTest[k][k]
  BY DEF DetectionTypeOK, TestNumbers
<1>2. /\ lastTest'[k][k] = lastTest[k][k] + 1
      /\ \A n \in Node \ {k} : lastTest'[n][k] = lastTest[n][k]
  BY DEF DetectionTypeOK
<1>3. \A n \in Node \ {k} : lastTest'[n][k] # lastTest'[k][k]
  BY <1>1, <1>2
<1>4. QED
  BY <1>3 DEF Engaged

\* The tree of one initiator.
TreeOf(k) ==
  /\ \A n \in Engaged(k) :
       /\ parent[n][k] \in Engaged(k) \cup {k}
       /\ n \in waitingFrom[parent[n][k]]
  /\ \A S \in SUBSET Engaged(k) :
       S # {} => \E n \in S : parent[n][k] \notin S

\* The other steps change no tree.
LEMMA TreeKept ==
  ASSUME NEW k \in Node, TreeOf(k), UNCHANGED waitGraph,
         \A n \in Node : /\ lastTest'[n][k] = lastTest[n][k]
                         /\ parent'[n][k] = parent[n][k]
  PROVE  TreeOf(k)'
<1>1. Engaged(k)' = Engaged(k) /\ Engaged(k) \subseteq Node
  BY DEF Engaged
<1>2. waitingFrom' = waitingFrom
  BY DEF waitGraph
<1>3. \A n \in Engaged(k) : parent'[n][k] = parent[n][k]
  BY <1>1
<1>4. \A n \in Engaged(k)' :
        /\ parent'[n][k] \in Engaged(k)' \cup {k}
        /\ n \in waitingFrom'[parent'[n][k]]
  BY <1>1, <1>2, <1>3 DEF TreeOf
<1>5. ASSUME NEW S \in SUBSET Engaged(k), S # {}
      PROVE  \E n \in S : parent'[n][k] \notin S
  BY <1>3, <1>5 DEF TreeOf
<1>6. QED
  BY <1>1, <1>4, <1>5 DEF TreeOf

\* A tree of which a node becomes a leaf.
LEMMA TreeGrows ==
  ASSUME DetectionTypeOK, TestNumbers, NEW k \in Node, TreeOf(k),
         UNCHANGED waitGraph, NEW x \in Node, NEW p \in Node,
         lastTest[x][k] < lastTest[k][k], lastTest[p][k] = lastTest[k][k],
         x \in waitingFrom[p],
         lastTest' = [lastTest EXCEPT ![x][k] = lastTest[k][k]],
         parent' = [parent EXCEPT ![x][k] = p]
  PROVE  TreeOf(k)'
<1> DEFINE E == Engaged(k)
<1>1. /\ x # k /\ x \notin E /\ Engaged(k)' = E \cup {x} /\ E \subseteq Node
  BY EngagedGrows DEF Engaged
<1>2. p \in E \cup {k} /\ p # x
  <2>1. lastTest[x][k] \in Nat /\ lastTest[k][k] \in Nat
    BY DEF DetectionTypeOK
  <2>2. QED
    BY <2>1 DEF Engaged
<1>3. /\ waitingFrom' = waitingFrom /\ parent'[x][k] = p
      /\ \A n \in E : parent'[n][k] = parent[n][k]
  BY <1>1 DEF waitGraph, DetectionTypeOK
<1>4. /\ \A n \in E : parent[n][k] \in E \cup {k} /\ n \in waitingFrom[parent[n][k]]
      /\ \A S \in SUBSET E : S # {} => \E n \in S : parent[n][k] \notin S
  BY DEF TreeOf
<1> HIDE DEF E
<1>5. ASSUME NEW n \in E \cup {x}
      PROVE  /\ parent'[n][k] \in E \cup {x} \cup {k}
             /\ n \in waitingFrom'[parent'[n][k]]
  BY <1>2, <1>3, <1>4
<1>6. ASSUME NEW S \in SUBSET (E \cup {x}), S # {}
      PROVE  \E n \in S : parent'[n][k] \notin S
  <2>1. CASE S \ {x} = {}
    BY <1>2, <1>3, <1>6, <2>1
  <2>2. CASE S \ {x} # {}
    <3>1. PICK n \in S \ {x} : parent[n][k] \notin S \ {x}
      BY <1>4, <2>2
    <3>2. n \in E
      BY <3>1
    <3>3. parent[n][k] # x
      BY <1>1, <1>4, <3>2
    <3>4. QED
      BY <1>3, <3>1, <3>2, <3>3
  <2>3. QED
    BY <2>1, <2>2
<1>7. QED
  BY <1>1, <1>5, <1>6 DEF TreeOf

\* Each step keeps the nodes of every test a tree.
LEMMA ProbeTreeStep ==
  ASSUME DetectionTypeOK, TestNumbers, Chains, ProbeTree,
         [DetectionNext]_detectionVars
  PROVE  ProbeTree'
<1>0. \A k \in Node : TreeOf(k)
  BY DEF ProbeTree, TreeOf
<1> SUFFICES ASSUME NEW k \in Node
             PROVE  TreeOf(k)'
  BY DEF ProbeTree, TreeOf
<1>1. CASE UNCHANGED << waitGraph, lastTest, parent >>
  BY <1>0, <1>1, TreeKept
<1>2. CASE UNCHANGED detectionVars
  BY <1>1, <1>2 DEF detectionVars, probeVars
<1>3. ASSUME NEW t \in Task, NEW n \in Initiator, StartDetection(t, n)
      PROVE  TreeOf(k)'
  BY <1>1, <1>3 DEF StartDetection, probeVars
<1>4. ASSUME NEW t \in Task, RequestStep(t)
      PROVE  TreeOf(k)'
  <2>1. /\ ~Idle(t) /\ UNCHANGED waitGraph
        /\ \A n \in Node, q \in Node \ {calls[t][1].k} :
              lastTest'[n][q] = lastTest[n][q] /\ parent'[n][q] = parent[n][q]
    BY <1>4, OthersKept
  <2>2. PICK d \in Nat : OnChain(t, d)
    BY <2>1 DEF Chains
  <2>3. CASE k # calls[t][1].k
    BY <1>0, <2>1, <2>3, TreeKept
  <2>4. CASE MarkTest(t) /\ k = calls[t][1].k
    <3>1. lastTest' = [lastTest EXCEPT ![k][k] = @ + 1]
      BY <2>2, <2>4, ChainMark
    <3>2. Engaged(k)' = {}
      BY <3>1, EngagedEmptied
    <3>3. QED
      BY <3>2 DEF TreeOf
  <2>5. CASE Engage(t) /\ k = calls[t][1].k
    BY <1>0, <2>1, <2>2, <2>5, NodeEnters, TreeGrows
  <2>6. CASE ~MarkTest(t) /\ ~Engage(t)
    BY <1>1, <1>4, <2>1, <2>6 DEF RequestStep, ReadTest, SendProbe, EndStart,
       EndProbe, ReceiveProbe, TestProbe, AnswerAgain, EndAgain,
       ReceiveAnswer, CheckAnswer, CountDown, ClearWait, ForwardMessage, probeVars
  <2>7. QED
    BY <2>3, <2>4, <2>5, <2>6
<1>5. QED
  BY <1>2, <1>3, <1>4 DEF DetectionNext

\* The nodes that take part in a test form a tree, by the parent_nodes that
\* handle_probe stores and handle_probe_answer sends its answer to, whatever
\* the order in which the nodes probe each other.
THEOREM ProbesFormTree ==
  ASSUME OneTestAtATime, SmallRing
  PROVE  DetectionSpec => []ProbeTree
<1>1. DetectionInit => ProbeTree
  BY DEF DetectionInit, ProbeTree, Engaged
<1>2. DetectionTypeOK /\ TestNumbers /\ Chains /\ ProbeTree
        /\ [DetectionNext]_detectionVars => ProbeTree'
  BY ProbeTreeStep
<1>3. QED
  BY <1>1, <1>2, RequestsAreChains, PTL DEF DetectionSpec

-----------------------------------------------------------------------------
(* One verdict.                                                            *)

\* Once the initiator has logged the verdict of its current test, the last
\* handler of the chain is about to clear its wait status, or has cleared it.
Once(s, d, last, wait, decl) ==
  LET k == s[1].k IN
    << k, last[k][k] >> \in decl =>
      /\ s[1].pc # "read"
      /\ s[1].pc = "loop" => Answered(s, Len(s), d, k, wait, 1)

\* No test has a verdict before it has begun.
VerdictsBegun ==
  \A v \in declared : v[2] <= lastTest[v[1]][v[1]]

OneVerdict ==
  /\ VerdictsBegun
  /\ \A t \in Task : ~Idle(t) =>
       \E d \in Nat : OnChain(t, d)
                      /\ Once(calls[t], d, lastTest, waitStatus, declared)

\* A step that leaves the wait status of the initiator alone, unless the last
\* handler was about to clear it.
LEMMA OnceKept ==
  ASSUME NEW s, NEW r, NEW d, NEW e, NEW last, NEW wait, NEW wait2, NEW decl,
         Shape(s, Len(s), d), Once(s, d, last, wait, decl), s[1].pc = "loop",
         ~(Len(s) = 2 * d - 1 /\ s[Len(s)].pc \in {"clear", "done"}),
         r[1].pc = "loop", r[1].at = s[1].at, r[1].k = s[1].k,
         ~wait[s[1].at][s[1].k] => ~wait2[s[1].at][s[1].k]
  PROVE  Once(r, e, last, wait2, decl)
<1> DEFINE n == Len(s)
           k == s[1].k
<1>1. n \in Nat /\ d \in 1 .. n /\ n < 2 * d
  BY DEF Shape
<1> SUFFICES ASSUME << k, last[k][k] >> \in decl
             PROVE  ~wait2[r[1].at][k]
  BY DEF Once, Answered
<1>2. Answered(s, n, d, k, wait, 1)
  BY DEF Once
<1>3. 2 * d - 1 <= n => n = 2 * d - 1
  BY <1>1
<1>4. ~(2 * d - 1 <= n /\ s[2 * d - 1].pc \in {"clear", "done"})
  BY <1>3
<1>5. ~wait[s[1].at][k]
  BY <1>2, <1>4 DEF Answered
<1>6. QED
  BY <1>5

\* The REST handler of a chain that has more handlers.
LEMMA FirstOfChain ==
  ASSUME NEW s, NEW r, NEW m, NEW l, Shape(s, Len(s), m), Len(s) > 1,
         Below(s, r, l), l = Len(s) \/ l = m
  PROVE  s[1].pc = "loop" /\ r[1] = s[1] /\ m > 1
<1>1. /\ Len(s) \in Nat /\ m \in 1 .. Len(s) /\ Len(s) < 2 * m
      /\ \A i \in 1 .. m - 1 : s[i].pc = "loop"
  BY DEF Shape, Probes
<1>2. m > 1 /\ 1 \in 1 .. m - 1 /\ 1 \in 1 .. l - 1
  BY <1>1
<1>3. QED
  BY <1>1, <1>2 DEF Below

\* A step of the request whose initiator has its verdict.
LEMMA OnceOfStep ==
  ASSUME SmallRing, DetectionTypeOK, TestNumbers, VerdictsBegun,
         NEW t \in Task, NEW d, OnChain(t, d),
         Once(calls[t], d, lastTest, waitStatus, declared),
         RequestStep(t), ~Idle(t)'
  PROVE  \E e :
           /\ Chain(calls'[t], e, lastTest', parent', waitStatus', probeCount')
           /\ Once(calls'[t], e, lastTest', waitStatus', declared')
<1> DEFINE s == calls[t]
           r == calls'[t]
           n == Len(s)
           k == s[1].k
           Goal == \E e :
             /\ Chain(r, e, lastTest', parent', waitStatus', probeCount')
             /\ Once(r, e, lastTest', waitStatus', declared')
<1> SUFFICES Goal
  OBVIOUS
<1>1. /\ Shape(s, n, d) /\ n \in Nat /\ n >= 1 /\ d \in 1 .. n /\ k \in Node
      /\ s[1].at = k /\ s[1].fn = "start" /\ Top(t) = s[n]
  BY TopOfChain DEF OnChain, Chain
<1>2. CASE MarkTest(t)
  <2>1. /\ lastTest' = [lastTest EXCEPT ![k][k] = lastTest[k][k] + 1]
        /\ declared' = declared /\ r[1].k = k
        /\ Chain(r, 1, lastTest', parent', waitStatus', probeCount')
    BY <1>2, ChainMark DEF Kept
  <2> HIDE DEF r, k
  <2>2. /\ lastTest'[k][k] = lastTest[k][k] + 1 /\ lastTest[k][k] \in Nat
    BY <1>1, <2>1 DEF DetectionTypeOK
  <2>3. << k, lastTest'[k][k] >> \notin declared
    <3>1. << k, lastTest'[k][k] >> \in declared
            => lastTest'[k][k] <= lastTest[k][k]
      BY DEF VerdictsBegun
    <3>2. QED
      BY <2>2, <3>1
  <2>4. Once(r, 1, lastTest', waitStatus', declared')
    BY <2>1, <2>3 DEF Once
  <2>5. QED
    BY <2>1, <2>4 DEF r
<1>3. CASE ReadTest(t)
  <2>1. /\ n = 1 /\ Chain(r, 1, lastTest', parent', waitStatus', probeCount')
    BY <1>3, ChainRead
  <2>2. s[1].pc = "read" /\ r[1].k = k
    BY <1>3, <2>1, EffectOfRead
  <2>3. lastTest' = lastTest /\ declared' = declared
    BY <1>3 DEF ReadTest, probeVars
  <2>4. << k, lastTest[k][k] >> \notin declared
    BY <2>2 DEF Once
  <2>5. Once(r, 1, lastTest', waitStatus', declared')
    BY <2>2, <2>3, <2>4 DEF Once
  <2>6. QED
    BY <2>1, <2>5
<1>4. ASSUME NEW q \in Node, SendProbe(t, q)
      PROVE  Goal
  <2>1. d = n /\ Chain(r, d + 1, lastTest', parent', waitStatus', probeCount')
    BY <1>4, ChainProbe
  <2>2. /\ s[n].pc = "loop" /\ Below(s, r, n) /\ Same(s[n], r[n])
        /\ r[n].k = s[n].k /\ r[n].pc = "loop"
        /\ UNCHANGED << lastTest, waitStatus, declared >>
    BY <1>4, EffectOfSendProbe DEF SendProbe
  <2>3. s[1].pc = "loop" /\ r[1].pc = "loop" /\ r[1].at = s[1].at /\ r[1].k = k
    <3> HIDE DEF s, r, n
    <3>1. CASE n = 1
      BY <2>2, <3>1 DEF Same
    <3>2. CASE n > 1
      <4>1. Shape(s, Len(s), d) /\ Len(s) > 1 /\ Below(s, r, Len(s))
        BY <1>1, <2>2, <3>2 DEF n
      <4>2. s[1].pc = "loop" /\ r[1] = s[1]
        BY <4>1, FirstOfChain
      <4>3. QED
        BY <1>1, <4>2
    <3>3. QED
      BY <1>1, <3>1, <3>2
  <2>4. ~(n = 2 * d - 1 /\ s[n].pc \in {"clear", "done"})
    BY <2>2
  <2>5. Once(r, d + 1, lastTest, waitStatus, declared)
    BY <1>1, <2>3, <2>4, OnceKept
  <2>6. QED
    BY <2>1, <2>2, <2>5
<1>5. CASE EndStart(t)
  BY <1>5, TestReturns DEF Idle
\* The steps after which the initiator has neither its verdict nor cleared
\* its wait status.
<1>6. ASSUME NEW e, Chain(r, e, lastTest', parent', waitStatus', probeCount'),
             NEW l, Below(s, r, l), l = n \/ l = d, n > 1,
             ~(n = 2 * d - 1 /\ s[n].pc \in {"clear", "done"}),
             lastTest'[k][k] = lastTest[k][k], declared' = declared,
             waitStatus'[k][k] = waitStatus[k][k] \/ ~waitStatus'[k][k]
      PROVE  Goal
  <2>1. s[1].pc = "loop" /\ r[1] = s[1]
    BY <1>1, <1>6, FirstOfChain
  <2>2. ~waitStatus[s[1].at][s[1].k] => ~waitStatus'[s[1].at][s[1].k]
    BY <1>1, <1>6
  <2>3. Once(r, e, lastTest, waitStatus', declared)
    BY <1>1, <1>6, <2>1, <2>2, OnceKept
  <2> HIDE DEF s, r, n
  <2>4. Once(r, e, lastTest', waitStatus', declared')
    BY <1>6, <2>1, <2>3 DEF Once, k
  <2>5. QED
    BY <1>6, <2>4
<1>7. CASE \/ ReceiveProbe(t) /\ ~isActive[Top(t).at]
           \/ TestProbe(t)
           \/ ForwardMessage(t) /\ Top(t).fn = "probe"
  <2>1. /\ d > 1 /\ n = d /\ Below(s, r, d)
        /\ UNCHANGED << lastTest, waitStatus, declared >>
        /\ Chain(r, d, lastTest', parent', waitStatus', probeCount')
    BY <1>7, ProbeMoves
  <2> HIDE DEF s, r, n, k, Goal
  <2>2. n # 2 * d - 1
    BY <1>1, <2>1
  <2>3. QED
    BY <1>6, <2>1, <2>2
<1>8. CASE \/ ReceiveProbe(t) /\ isActive[Top(t).at]
           \/ EndProbe(t) \/ EndAgain(t)
           \/ AnswerAgain(t) /\ ~waitStatus[Top(t).at][Top(t).k]
  <2>1. /\ d > 1 /\ n = d /\ Below(s, r, d)
        /\ UNCHANGED << lastTest, waitStatus, declared >>
        /\ Chain(r, d - 1, lastTest', parent', waitStatus', probeCount')
    BY <1>8, ProbeReturns
  <2> HIDE DEF s, r, n, k, Goal
  <2>2. n # 2 * d - 1
    BY <1>1, <2>1
  <2>3. QED
    BY <1>6, <2>1, <2>2
<1>9. CASE Engage(t)
  <2>1. /\ n = d /\ Chain(r, d, lastTest', parent', waitStatus', probeCount')
        /\ Below(s, r, n)
    BY <1>9, ChainEngage, EffectOfEngage
  <2>2. /\ d > 1 /\ s[d].at \in Node
        /\ lastTest[s[d].at][k] < lastTest[k][k]
        /\ lastTest' = [lastTest EXCEPT ![s[d].at][k] = lastTest[k][k]]
        /\ waitStatus' = [waitStatus EXCEPT ![s[d].at][k] = TRUE]
    BY <1>9, NodeEnters
  <2>3. declared' = declared
    BY <1>9 DEF Engage
  <2> HIDE DEF s, r, n, k, Goal
  <2>4. n # 2 * d - 1
    BY <1>1, <2>1, <2>2
  <2>5. s[d].at # k
    BY <1>1, <2>2, EngagedGrows
  <2>6. lastTest'[k][k] = lastTest[k][k] /\ waitStatus'[k][k] = waitStatus[k][k]
    BY <1>1, <2>2, <2>5 DEF DetectionTypeOK
  <2>7. QED
    BY <1>6, <2>1, <2>2, <2>3, <2>4, <2>6
<1>10. CASE AnswerAgain(t) /\ waitStatus[Top(t).at][Top(t).k]
  <2>1. /\ d > 1 /\ n = d /\ Below(s, r, d)
        /\ Chain(r, d, lastTest', parent', waitStatus', probeCount')
    BY <1>10, ChainAnswer
  <2>2. UNCHANGED << lastTest, waitStatus, declared >>
    BY <1>10 DEF AnswerAgain, probeVars
  <2> HIDE DEF s, r, n, k, Goal
  <2>3. n # 2 * d - 1
    BY <1>1, <2>1
  <2>4. QED
    BY <1>6, <2>1, <2>2, <2>3
<1>11. CASE \/ ReceiveAnswer(t)
            \/ CheckAnswer(t) /\ waitStatus[Top(t).at][Top(t).k]
            \/ ForwardMessage(t) /\ Top(t).fn # "probe"
  <2>1. \/ ReceiveAnswer(t) /\ ~isActive[Top(t).at]
        \/ CheckAnswer(t) /\ waitStatus[Top(t).at][Top(t).k]
        \/ ForwardMessage(t) /\ Top(t).fn = "answer"
    BY <1>11, AnswerIsTaken, ForwardedIsMessage
  <2>2. /\ d < n /\ Below(s, r, n) /\ s[n].pc \in {"hop", "check"}
        /\ UNCHANGED << lastTest, waitStatus, declared >>
        /\ Chain(r, d, lastTest', parent', waitStatus', probeCount')
    BY <2>1, AnswerMoves
  <2>3. n > 1
    BY <1>1, <2>2
  <2> HIDE DEF s, r, n, k, Goal
  <2>4. QED
    BY <1>6, <2>2, <2>3
<1>12. CASE \/ CheckAnswer(t) /\ ~waitStatus[Top(t).at][Top(t).k]
            \/ CountDown(t) /\ ~LastAnswer(t)
  <2>1. /\ d < n /\ Below(s, r, n) /\ s[n].pc \in {"check", "countdown"}
        /\ UNCHANGED << lastTest, waitStatus, declared >>
        /\ Chain(r, d, lastTest', parent', waitStatus', probeCount')
    BY <1>12, AnswerDropped
  <2>2. n > 1
    BY <1>1, <2>1
  <2> HIDE DEF s, r, n, k, Goal
  <2>3. QED
    BY <1>6, <2>1, <2>2
<1>13. CASE CountDown(t) /\ LastAnswer(t)
  <2>1. /\ d < n /\ Below(s, r, n) /\ s[n].pc = "countdown" /\ r[n].pc = "clear"
        /\ Len(r) = IF 2 * d - n = 1 THEN n ELSE n + 1
        /\ Chain(r, d, lastTest', parent', waitStatus', probeCount')
        /\ UNCHANGED << lastTest, waitStatus >>
    <3>1. At(t, "answer", "countdown")
      BY <1>13 DEF CountDown
    <3>2. d < n /\ s[n].pc = "countdown"
      BY <1>1, <3>1, CountOfAnswer DEF At
    <3>3. UNCHANGED << lastTest, waitStatus >>
      BY <1>13 DEF CountDown
    <3>4. QED
      BY <1>13, <3>2, <3>3, ChainResolve
  <2>2. n > 1
    BY <1>1, <2>1
  <2>3. CASE 2 * d - n = 1
    <3>1. n = 2 * d - 1 /\ Len(r) = n
      BY <1>1, <2>1, <2>3
    <3>2. s[1].pc = "loop" /\ r[1] = s[1]
      BY <1>1, <2>1, <2>2, FirstOfChain
    <3>3. Answered(r, n, d, k, waitStatus', 1)
      BY <1>1, <2>1, <3>1 DEF Answered
    <3>4. Once(r, d, lastTest', waitStatus', declared')
      BY <3>1, <3>2, <3>3 DEF Once
    <3>5. QED
      BY <2>1, <3>4
  <2>4. CASE 2 * d - n # 1
    <3>1. declared' = declared
      <4>1. At(t, "answer", "countdown")
        BY <1>13 DEF CountDown
      <4>2. /\ Top(t).at = s[2 * d - n].at /\ Top(t).k = k
            /\ 2 * d - n \in 1 .. d - 1
        BY <4>1, CountOfAnswer
      <4>3. /\ Nodes(s, d, k, lastTest, parent)
            /\ \A i \in 1 .. d - 1 : s[i].pc = "loop"
        BY <1>1 DEF OnChain, Chain, Shape, Probes
      <4>4. s[2 * d - n].at # k
        <5> DEFINE j == 2 * d - n
        <5>1. j \in 1 .. d - 1 /\ j # 1 /\ 1 < j
          BY <2>4, <4>2
        <5> HIDE DEF j, s, k, n
        <5>2. j \in 1 .. d /\ 1 \in 1 .. d /\ 1 \in 1 .. d - 1
          BY <1>1, <5>1
        <5>3. s[1].at # s[j].at
          BY <4>3, <5>1, <5>2 DEF Nodes
        <5>4. QED
          BY <1>1, <5>3 DEF j
      <4>5. Top(t).k # Top(t).at
        BY <4>2, <4>4
      <4>6. QED
        BY <1>13, <4>5 DEF CountDown
    <3>2. n # 2 * d - 1
      BY <1>1, <2>4
    <3> HIDE DEF s, r, n, k, Goal
    <3>3. QED
      BY <1>6, <2>1, <2>2, <3>1, <3>2
  <2>5. QED
    BY <2>3, <2>4
<1>14. CASE ClearWait(t)
  <2>1. /\ d < n /\ Below(s, r, n) /\ s[n].pc = "clear"
        /\ 2 * d - n \in 1 .. d - 1
        /\ Len(r) = n - 1
        /\ Chain(r, d, lastTest', parent', waitStatus', probeCount')
        /\ waitStatus' = [waitStatus EXCEPT ![s[2 * d - n].at][k] = FALSE]
    BY <1>14, ChainClear
  <2>2. lastTest' = lastTest /\ declared' = declared
    BY <1>14 DEF ClearWait
  <2>3. n > 1
    BY <1>1, <2>1
  <2>4. s[1].pc = "loop" /\ r[1] = s[1]
    BY <1>1, <2>1, <2>3, FirstOfChain
  <2>5. waitStatus \in [Node -> [Node -> BOOLEAN]]
    BY DEF DetectionTypeOK
  <2>6. s[2 * d - n].at \in Node
    <3>1. 2 * d - n \in 1 .. n
      BY <1>1, <2>1
    <3>2. QED
      BY <3>1, TopOfChain
  <2>7. CASE n = 2 * d - 1
    <3>1. 2 * d - n = 1
      BY <1>1, <2>7
    <3>2. ~waitStatus'[k][k]
      <4>1. waitStatus' = [waitStatus EXCEPT ![k][k] = FALSE]
        BY <1>1, <2>1, <3>1
      <4> HIDE DEF k
      <4>2. QED
        BY <1>1, <2>5, <4>1
    <3>3. Answered(r, Len(r), d, k, waitStatus', 1)
      BY <1>1, <2>4, <3>2 DEF Answered
    <3>4. Once(r, d, lastTest', waitStatus', declared')
      BY <2>4, <3>3 DEF Once
    <3>5. QED
      BY <2>1, <3>4
  <2>8. CASE n # 2 * d - 1
    <3> DEFINE x == s[2 * d - n].at
    <3>0. waitStatus' = [waitStatus EXCEPT ![x][k] = FALSE] /\ x \in Node
      BY <2>1, <2>6
    <3> HIDE DEF s, r, n, k, Goal, x
    <3>1. waitStatus'[k][k] = waitStatus[k][k] \/ ~waitStatus'[k][k]
      BY <1>1, <2>5, <3>0
    <3>2. QED
      BY <1>6, <2>1, <2>2, <2>3, <2>8, <3>1
  <2>9. QED
    BY <2>7, <2>8
<1>15. QED
  BY StepKinds, <1>2, <1>3, <1>4, <1>5, <1>7, <1>8, <1>9, <1>10, <1>11, <1>12,
     <1>13, <1>14

\* Only the last answer to the initiator adds a verdict, on its current test.
LEMMA NewVerdict ==
  ASSUME DetectionTypeOK, TestNumbers, NEW t \in Task, RequestStep(t)
  PROVE  LET k == calls[t][1].k IN
           \/ declared' = declared
           \/ /\ declared' = declared \cup {<< k, lastTest[k][k] >>}
              /\ CountDown(t) /\ LastAnswer(t) /\ Top(t).at = k
<1> DEFINE k == calls[t][1].k
<1>1. CASE CountDown(t)
  <2>1. ~Idle(t) /\ Top(t).fn = "answer"
    BY <1>1 DEF CountDown, At
  <2>2. Top(t).k = k /\ Top(t).m = lastTest[k][k]
    BY <2>1, TopOfTest DEF TestFrame
  <2> HIDE DEF k
  <2>3. declared' = IF LastAnswer(t) /\ Top(t).k = Top(t).at
                      THEN declared \cup {<< Top(t).k, Top(t).m >>} ELSE declared
    BY <1>1 DEF CountDown
  <2>4. QED
    BY <1>1, <2>2, <2>3 DEF k
<1>2. CASE ~CountDown(t)
  BY <1>2 DEF RequestStep, MarkTest, ReadTest, SendProbe, EndStart, EndProbe,
     ReceiveProbe, TestProbe, Engage, AnswerAgain, EndAgain, ReceiveAnswer,
     CheckAnswer, ClearWait, ForwardMessage
<1>3. QED
  BY <1>1, <1>2

\* Test numbers grow, and a verdict is one of the current test.
LEMMA VerdictsBegunStep ==
  ASSUME OneTestAtATime, DetectionTypeOK, TestNumbers, VerdictsBegun,
         [DetectionNext]_detectionVars
  PROVE  VerdictsBegun'
<1>1. \A n, k \in Node : lastTest'[n][k] >= lastTest[n][k]
  BY TestNumbersStep
<1>2. DetectionTypeOK'
  BY DetectionTypeStep
<1>3. ASSUME NEW v \in declared
      PROVE  v[2] <= lastTest'[v[1]][v[1]]
  <2>1. /\ v[1] \in Node /\ v[2] \in Nat /\ lastTest[v[1]][v[1]] \in Nat
        /\ v[2] <= lastTest[v[1]][v[1]]
    BY DEF VerdictsBegun, DetectionTypeOK
  <2>2. lastTest'[v[1]][v[1]] \in Nat
    BY <1>2, <2>1 DEF DetectionTypeOK
  <2>3. QED
    BY <1>1, <2>1, <2>2
<1>4. CASE declared' = declared
  BY <1>3, <1>4 DEF VerdictsBegun
<1>5. ASSUME NEW t \in Task, RequestStep(t), declared' # declared
      PROVE  VerdictsBegun'
  <2> DEFINE k == calls[t][1].k
             m == lastTest[k][k]
  <2>1. declared' = declared \cup {<< k, m >>} /\ CountDown(t)
    BY <1>5, NewVerdict
  <2>2. k \in Node /\ m \in Nat /\ lastTest' = lastTest
    <3>1. ~Idle(t)
      BY <2>1 DEF CountDown, At
    <3>2. k \in Node
      BY <3>1, TopOfTest
    <3>3. QED
      BY <2>1, <3>2 DEF CountDown, DetectionTypeOK
  <2> HIDE DEF k, m
  <2>3. ASSUME NEW v \in declared'
        PROVE  v[2] <= lastTest'[v[1]][v[1]]
    <3>1. CASE v \in declared
      BY <1>3, <3>1
    <3>2. CASE v = << k, m >>
      BY <2>2, <3>2 DEF m
    <3>3. QED
      BY <2>1, <3>1, <3>2
  <2>4. QED
    BY <2>3 DEF VerdictsBegun
<1>6. CASE UNCHANGED detectionVars
  BY <1>4, <1>6 DEF detectionVars
<1>7. ASSUME NEW t \in Task, NEW n \in Initiator, StartDetection(t, n)
      PROVE  VerdictsBegun'
  BY <1>4, <1>7 DEF StartDetection
<1>8. QED
  BY <1>4, <1>5, <1>6, <1>7 DEF DetectionNext

\* No step gives a test a second verdict.
LEMMA OneVerdictStep ==
  ASSUME OneTestAtATime, SmallRing, DetectionTypeOK, TestNumbers, OneVerdict,
         [DetectionNext]_detectionVars
  PROVE  OneVerdict'
<1>1. VerdictsBegun'
  BY VerdictsBegunStep DEF OneVerdict
<1> SUFFICES ASSUME NEW u \in Task, ~Idle(u)'
             PROVE  \E d \in Nat :
                      (OnChain(u, d)
                       /\ Once(calls[u], d, lastTest, waitStatus, declared))'
  BY <1>1 DEF OneVerdict
<1>2. CASE UNCHANGED detectionVars
  <2>1. UNCHANGED << calls, waitGraph, probeVars, declared >>
    BY <1>2 DEF detectionVars
  <2>2. PICK d \in Nat :
          OnChain(u, d) /\ Once(calls[u], d, lastTest, waitStatus, declared)
    BY <2>1 DEF OneVerdict, Idle
  <2>3. /\ Chain(calls'[u], d, lastTest', parent', waitStatus', probeCount')
        /\ Once(calls[u], d, lastTest, waitStatus, declared)'
    BY <2>1, <2>2 DEF OnChain, probeVars
  <2>4. QED
    BY <2>1, <2>3, ChainNext
<1>3. ASSUME NEW t \in Task, NEW n \in Initiator, StartDetection(t, n)
      PROVE  \E d \in Nat :
               (OnChain(u, d)
                /\ Once(calls[u], d, lastTest, waitStatus, declared))'
  <2>1. UNCHANGED << waitGraph, probeVars, declared >>
    BY <1>3 DEF StartDetection
  <2>2. CASE u = t
    <3>1. /\ Chain(calls'[t], 1, lastTest', parent', waitStatus', probeCount')
          /\ calls'[t][1].pc = "mark"
      <4>1. /\ calls'[t] = << StartFrame(n) >>
            /\ Chain(calls'[t], 1, lastTest', parent', waitStatus', probeCount')
        BY <1>3, ChainStart
      <4>2. StartFrame(n).pc = "mark"
        BY DEF StartFrame
      <4>3. QED
        BY <4>1, <4>2
    <3>2. Once(calls[t], 1, lastTest, waitStatus, declared)'
      BY <3>1 DEF Once
    <3>3. QED
      BY <2>1, <2>2, <3>1, <3>2, ChainNext
  <2>3. CASE u # t
    <3>1. calls'[u] = calls[u]
      BY <1>3, <2>3, ChainStart
    <3>2. PICK d \in Nat :
            OnChain(u, d) /\ Once(calls[u], d, lastTest, waitStatus, declared)
      BY <3>1 DEF OneVerdict, Idle
    <3>3. /\ Chain(calls'[u], d, lastTest', parent', waitStatus', probeCount')
          /\ Once(calls[u], d, lastTest, waitStatus, declared)'
      BY <2>1, <3>1, <3>2 DEF OnChain, probeVars
    <3>4. QED
      BY <2>1, <3>3, ChainNext
  <2>4. QED
    BY <2>2, <2>3
<1>4. ASSUME NEW t \in Task, RequestStep(t)
      PROVE  \E d \in Nat :
               (OnChain(u, d)
                /\ Once(calls[u], d, lastTest, waitStatus, declared))'
  <2>1. /\ ~Idle(t) /\ UNCHANGED waitGraph
        /\ \A w \in Task \ {t} : calls'[w] = calls[w]
    BY <1>4, OthersKept
  <2>2. CASE u = t
    <3>1. PICK d \in Nat :
            OnChain(t, d) /\ Once(calls[t], d, lastTest, waitStatus, declared)
      BY <2>1 DEF OneVerdict
    <3>2. PICK e :
            /\ Chain(calls'[t], e, lastTest', parent', waitStatus', probeCount')
            /\ Once(calls'[t], e, lastTest', waitStatus', declared')
      BY <1>4, <2>2, <3>1, OnceOfStep DEF OneVerdict
    <3>3. QED
      BY <2>1, <2>2, <3>2, ChainNext
  <2>3. CASE u # t
    <3> DEFINE k == calls[u][1].k
    <3>1. calls'[u] = calls[u] /\ ~Idle(u)
      BY <2>1, <2>3 DEF Idle
    <3>2. PICK d \in Nat :
            OnChain(u, d) /\ Once(calls[u], d, lastTest, waitStatus, declared)
      BY <3>1 DEF OneVerdict
    <3>3. /\ k \in Node /\ k # calls[t][1].k
          /\ \A i \in 1 .. Len(calls[u]) : calls[u][i].at \in Node
          /\ calls[u][1].at = k
      BY <2>1, <2>3, <3>1, <3>2, TopOfChain DEF TestNumbers
    <3>4. \A n \in Node :
            /\ lastTest'[n][k] = lastTest[n][k]
            /\ waitStatus'[n][k] = waitStatus[n][k]
            /\ parent'[n][k] = parent[n][k]
            /\ probeCount'[n][k] = probeCount[n][k]
      BY <1>4, <3>3, OthersKept
    <3>5. Chain(calls[u], d, lastTest', parent', waitStatus', probeCount')
      <4>1. Chain(calls[u], d, lastTest, parent, waitStatus, probeCount)
        BY <3>2 DEF OnChain
      <4>2. QED
        BY <3>3, <3>4, <4>1, ChainAgree
    <3>6. Once(calls[u], d, lastTest', waitStatus', declared')
      <4>1. << k, lastTest[k][k] >> \in declared'
              => << k, lastTest[k][k] >> \in declared
        BY <1>4, <3>3, NewVerdict
      <4>2. Once(calls[u], d, lastTest, waitStatus, declared)
        BY <3>2
      <4>3. lastTest'[k][k] = lastTest[k][k] /\ waitStatus'[k][k] = waitStatus[k][k]
        BY <3>3, <3>4
      <4>4. QED
        BY <3>3, <4>1, <4>2, <4>3 DEF Once, Answered
    <3>7. QED
      BY <2>1, <3>1, <3>5, <3>6, ChainNext
  <2>4. QED
    BY <2>2, <2>3
<1>5. QED
  BY <1>2, <1>3, <1>4 DEF DetectionNext

\* While the verdict is open no answer gives another.
LEMMA OpenVerdict == DetectionTypeOK /\ TestNumbers /\ OneVerdict => OneVerdictPerTest
<1> SUFFICES ASSUME DetectionTypeOK, TestNumbers, OneVerdict,
                    NEW t \in Task, LastAnswer(t), Top(t).k = Top(t).at,
                    << Top(t).k, Top(t).m >> \in declared
             PROVE  FALSE
  BY DEF OneVerdictPerTest
<1> DEFINE s == calls[t]
           n == Len(s)
           k == s[1].k
<1>1. At(t, "answer", "countdown")
  BY DEF LastAnswer
<1>2. PICK d \in Nat : OnChain(t, d)
                       /\ Once(s, d, lastTest, waitStatus, declared)
  BY <1>1 DEF OneVerdict, At
<1> DEFINE j == 2 * d - n
<1>3. /\ d < n /\ j \in 1 .. d - 1 /\ Top(t) = s[n]
      /\ Top(t).at = s[j].at /\ Top(t).k = k /\ waitStatus[s[j].at][k]
  BY <1>1, <1>2, CountOfAnswer
<1>4. Top(t).m = lastTest[k][k] /\ s[1].at = k /\ n \in Nat
  BY <1>1, <1>2, TopOfChain, TopOfTest DEF TestFrame, At
<1>5. /\ Nodes(s, d, k, lastTest, parent) /\ d \in 1 .. n
      /\ \A i \in 1 .. d - 1 : s[i].pc = "loop"
  BY <1>2 DEF OnChain, Chain, Shape, Probes
<1>6. s[n].pc = "countdown"
  BY <1>1, <1>3 DEF At
<1>a. j \in 1 .. d - 1
  BY <1>3
<1>b. j = 2 * d - n
  OBVIOUS
<1> HIDE DEF j, s, n, k
<1>7. s[j].pc = "loop" /\ s[1].pc = "loop" /\ j \in 1 .. d /\ 1 \in 1 .. d
  BY <1>5, <1>a
<1>8. j = 1
  <2>1. ASSUME j # 1
        PROVE  FALSE
    <3>1. s[1].at # s[j].at
      BY <1>5, <1>7, <1>a, <2>1 DEF Nodes
    <3>2. QED
      BY <1>3, <1>4, <3>1
  <2>2. QED
    BY <2>1
<1>9. n = 2 * d - 1
  BY <1>4, <1>8, <1>b
<1>10. Answered(s, n, d, k, waitStatus, 1)
  <2>1. << k, lastTest[k][k] >> \in declared
    BY <1>3, <1>4
  <2>2. QED
    BY <1>2, <1>7, <2>1 DEF Once, k, n
<1>11. QED
  BY <1>3, <1>6, <1>8, <1>9, <1>10 DEF Answered

\* No answer makes handle_probe_answer log DEADLOCK DETECTED twice in one test:
\* wait_status is cleared before a further answer can end the count again.
THEOREM NoSecondVerdict ==
  ASSUME OneTestAtATime, SmallRing
  PROVE  DetectionSpec => []OneVerdictPerTest
<1>1. DetectionInit => OneVerdict
  BY DEF DetectionInit, OneVerdict, VerdictsBegun, Idle
<1>2. DetectionTypeOK /\ TestNumbers /\ OneVerdict /\ [DetectionNext]_detectionVars
        => OneVerdict'
  BY OneVerdictStep
<1>3. DetectionTypeOK /\ TestNumbers /\ OneVerdict => OneVerdictPerTest
  BY OpenVerdict
<1>4. QED
  BY <1>1, <1>2, <1>3, TestNumbersAgree, PTL DEF DetectionSpec

-----------------------------------------------------------------------------
(* The beginning of a test.                                                *)

\* No step touches the handlers below the one that executes.
LEMMA StepBelow ==
  ASSUME DetectionTypeOK, NEW t \in Task, RequestStep(t), ~Idle(t)
  PROVE  Below(calls[t], calls'[t], Len(calls[t]))
<1> DEFINE s == calls[t]
           r == calls'[t]
           n == Len(s)
<1>1. s \in Seq(DetectionFrame) /\ s # << >> /\ n \in Nat /\ n >= 1
  BY TopOfStack
<1>2. \/ \E f : Goto(t, f)
      \/ \E f, g : Call(t, f, g)
      \/ Return(t)
  BY DEF RequestStep, MarkTest, ReadTest, SendProbe, EndStart, EndProbe,
     ReceiveProbe, TestProbe, Engage, AnswerAgain, EndAgain, ReceiveAnswer,
     CheckAnswer, CountDown, ClearWait, ForwardMessage, Forward
<1>3. calls \in [Task -> Seq(DetectionFrame)]
  BY DEF DetectionTypeOK
<1>4. ASSUME NEW f, Goto(t, f)
      PROVE  Below(s, r, n)
  <2>1. r = [s EXCEPT ![n] = f]
    BY <1>3, <1>4 DEF Goto
  <2> HIDE DEF r, s
  <2>2. \A i \in 1 .. n - 1 : i # n /\ i \in DOMAIN s
    BY <1>1
  <2> HIDE DEF n
  <2>3. QED
    BY <2>1, <2>2 DEF Below
<1>5. ASSUME NEW f, NEW g, Call(t, f, g)
      PROVE  Below(s, r, n)
  <2> DEFINE w == [s EXCEPT ![n] = f]
  <2>1. r = Append(w, g)
    BY <1>3, <1>5 DEF Call
  <2>2. \A i \in 1 .. n - 1 : i # n /\ i \in DOMAIN s /\ i \in 1 .. n + 1
    BY <1>1
  <2>3. w \in Seq(DetectionFrame \cup {f}) /\ Len(w) = n
    BY <1>1
  <2> HIDE DEF r, s
  <2>4. \A i \in 1 .. n - 1 : w[i] = s[i]
    BY <2>2
  <2> HIDE DEF w, n
  <2>5. \A i \in 1 .. Len(w) : r[i] = w[i]
    BY <2>1, <2>3
  <2>6. QED
    BY <1>1, <2>3, <2>4, <2>5 DEF Below
<1>6. CASE Return(t)
  BY <1>6, EffectOfReturn
<1>7. QED
  BY <1>2, <1>4, <1>5, <1>6

\* The REST handler once it probes.
LEMMA FirstGoesOn ==
  ASSUME DetectionTypeOK, TestNumbers, NEW t \in Task, NEW d, OnChain(t, d),
         RequestStep(t), ~MarkTest(t), ~ReadTest(t), ~Idle(t)'
  PROVE  /\ calls[t][1].pc = "loop" /\ calls'[t][1].pc = "loop"
         /\ calls'[t][1].at = calls[t][1].at /\ calls'[t][1].k = calls[t][1].k
<1> DEFINE s == calls[t]
           r == calls'[t]
           n == Len(s)
<1>1. /\ Shape(s, n, d) /\ n \in Nat /\ n >= 1 /\ Top(t) = s[n] /\ ~Idle(t)
      /\ s[1].fn = "start"
  BY TopOfChain DEF OnChain, Chain
<1>2. CASE n > 1
  <2>1. Below(s, r, n)
    BY <1>1, StepBelow
  <2>2. s[1].pc = "loop" /\ r[1] = s[1]
    BY <1>1, <1>2, <2>1, FirstOfChain
  <2>3. QED
    BY <2>2
<1>3. CASE n = 1
  <2>1. Top(t).fn = "start"
    BY <1>1, <1>3
  <2>2. Top(t).pc # "hop"
    BY <1>1, <2>1, TopOfTest DEF RootFrame
  <2>3. EndStart(t) \/ \E q \in Node : SendProbe(t, q)
    BY <2>1, <2>2 DEF RequestStep, EndProbe, ReceiveProbe, TestProbe, Engage,
       AnswerAgain, EndAgain, ReceiveAnswer, CheckAnswer, CountDown, ClearWait,
       ForwardMessage, Forward, Received, At
  <2>4. ~EndStart(t)
    BY TestReturns DEF Idle
  <2>5. PICK q \in Node : SendProbe(t, q)
    BY <2>3, <2>4
  <2>6. /\ s[n].pc = "loop" /\ Same(s[n], r[n]) /\ r[n].k = s[n].k
        /\ r[n].pc = "loop"
    BY <2>5, EffectOfSendProbe
  <2> HIDE DEF s, r, n
  <2>7. QED
    BY <1>3, <2>6 DEF Same, s, r
<1>4. n = 1 \/ n > 1
  BY <1>1, TopOfStack, OneOrMore
<1>5. QED
  BY <1>2, <1>3, <1>4

\* When the initiator has counted its new test, no node takes part in it yet,
\* and it waits for answers.
Fresh(t) ==
  LET k == calls[t][1].k IN
    /\ calls[t][1].pc = "read" => Engaged(k) = {} /\ waitStatus[k][k]
    /\ calls[t][1].pc # "mark" => lastTest[k][k] > 0

FreshTests == \A t \in Task : ~Idle(t) => Fresh(t)

\* A new test is fresh, and stays so until its initiator reads its number.
LEMMA FreshTestsStep ==
  ASSUME OneTestAtATime, DetectionTypeOK, TestNumbers, Chains, FreshTests,
         [DetectionNext]_detectionVars
  PROVE  FreshTests'
<1>1. DetectionTypeOK' /\ \A n, k \in Node : lastTest'[n][k] >= lastTest[n][k]
  BY DetectionTypeStep, TestNumbersStep
<1> SUFFICES ASSUME NEW u \in Task, ~Idle(u)'
             PROVE  Fresh(u)'
  BY DEF FreshTests
<1> DEFINE k == calls[u][1].k
\* A request that takes no step, in a test whose numbers do not change.
<1>2. ASSUME calls'[u] = calls[u], k \in Node, ~Idle(u),
             \A n \in Node : /\ lastTest'[n][k] = lastTest[n][k]
                             /\ waitStatus'[n][k] = waitStatus[n][k]
      PROVE  Fresh(u)'
  <2>1. Fresh(u)
    BY <1>2 DEF FreshTests
  <2>2. Engaged(k)' = {n \in Node \ {k'} : lastTest'[k'][k'] > 0
                                          /\ lastTest'[n][k'] = lastTest'[k'][k']}
    BY DEF Engaged
  <2>3. k' = k
    BY <1>2
  <2> HIDE DEF k
  <2>4. Engaged(k)' = Engaged(k)
    BY <1>2, <2>2, <2>3 DEF Engaged
  <2>5. QED
    BY <1>2, <2>1, <2>3, <2>4 DEF Fresh, k
<1>3. CASE UNCHANGED detectionVars
  BY <1>3 DEF detectionVars, probeVars, FreshTests, Fresh, Engaged, Idle
<1>4. ASSUME NEW t \in Task, NEW n \in Initiator, StartDetection(t, n)
      PROVE  Fresh(u)'
  <2>1. calls'[t] = << StartFrame(n) >> /\ StartFrame(n).pc = "mark"
        /\ \A w \in Task \ {t} : calls'[w] = calls[w]
    BY <1>4, ChainStart DEF StartFrame
  <2>2. UNCHANGED << lastTest, waitStatus >>
    BY <1>4 DEF StartDetection, probeVars
  <2>3. CASE u = t
    <3>1. calls'[u][1].pc = "mark"
      BY <2>1, <2>3
    <3>2. QED
      BY <3>1 DEF Fresh
  <2>4. CASE u # t
    <3>1. calls'[u] = calls[u] /\ ~Idle(u)
      BY <2>1, <2>4 DEF Idle
    <3>2. Fresh(u)
      BY <3>1 DEF FreshTests
    <3>3. QED
      BY <2>2, <3>1, <3>2 DEF Fresh, Engaged
  <2>5. QED
    BY <2>3, <2>4
<1>5. ASSUME NEW t \in Task, RequestStep(t)
      PROVE  Fresh(u)'
  <2>1. /\ ~Idle(t) /\ \A w \in Task \ {t} : calls'[w] = calls[w]
    BY <1>5, OthersKept
  <2>2. CASE u # t
    <3>1. calls'[u] = calls[u] /\ ~Idle(u)
      BY <2>1, <2>2 DEF Idle
    <3>2. k \in Node /\ k # calls[t][1].k
      BY <2>1, <2>2, <3>1, TopOfTest DEF TestNumbers
    <3>3. \A n \in Node : /\ lastTest'[n][k] = lastTest[n][k]
                          /\ waitStatus'[n][k] = waitStatus[n][k]
      BY <1>5, <3>2, OthersKept
    <3>4. QED
      BY <1>2, <3>1, <3>2, <3>3
  <2>3. CASE u = t
    <3>1. PICK d \in Nat : OnChain(u, d)
      BY <2>1, <2>3 DEF Chains
    <3>2. k \in Node
      BY <3>1, TopOfChain
    <3>3. CASE MarkTest(t)
      <4>1. /\ lastTest' = [lastTest EXCEPT ![k][k] = @ + 1]
            /\ waitStatus' = [waitStatus EXCEPT ![k][k] = TRUE]
            /\ k' = k
        BY <2>3, <3>1, <3>3, ChainMark DEF Kept
      <4>2. Engaged(k)' = {n \in Node \ {k'} : lastTest'[k'][k'] > 0
                                /\ lastTest'[n][k'] = lastTest'[k'][k']}
        BY DEF Engaged
      <4> HIDE DEF k
      <4>3. Engaged(k)' = {}
        <5>1. \A n \in Node : /\ lastTest[n][k] \in Nat /\ lastTest[k][k] \in Nat
                              /\ lastTest[n][k] <= lastTest[k][k]
          BY <3>2 DEF DetectionTypeOK, TestNumbers
        <5>2. /\ lastTest'[k][k] = lastTest[k][k] + 1
              /\ \A n \in Node \ {k} : lastTest'[n][k] = lastTest[n][k]
          BY <3>2, <4>1 DEF DetectionTypeOK
        <5>3. \A n \in Node \ {k} : lastTest'[n][k] # lastTest'[k][k]
          BY <5>1, <5>2
        <5>4. QED
          BY <4>1, <4>2, <5>3
      <4>4. waitStatus'[k][k] /\ lastTest'[k][k] > 0
        BY <3>2, <4>1 DEF DetectionTypeOK
      <4>5. QED
        BY <4>1, <4>3, <4>4 DEF Fresh, k
    <3>4. CASE ReadTest(t)
      <4>1. calls[u][1].pc = "read" /\ calls'[u][1].pc = "loop" /\ k' = k
        <5>1. /\ calls[t][Len(calls[t])].pc = "read"
              /\ calls[t][Len(calls[t])].fn = "start"
              /\ Same(calls[t][Len(calls[t])], calls'[t][Len(calls[t])])
              /\ calls'[t][Len(calls[t])].k = calls[t][Len(calls[t])].k
              /\ calls'[t][Len(calls[t])].pc = "loop"
          BY <3>4, EffectOfRead
        <5>2. Len(calls[t]) = 1
          BY <2>3, <3>1, <5>1, TopOfChain
        <5>3. QED
          BY <2>3, <5>1, <5>2
      <4>2. lastTest' = lastTest
        BY <3>4 DEF ReadTest, probeVars
      <4>3. lastTest[k][k] > 0
        BY <2>1, <2>3, <4>1 DEF FreshTests, Fresh
      <4>4. QED
        BY <4>1, <4>2, <4>3 DEF Fresh
    <3>5. CASE ~MarkTest(t) /\ ~ReadTest(t)
      <4>1. calls[u][1].pc = "loop" /\ calls'[u][1].pc = "loop" /\ k' = k
        BY <1>5, <2>3, <3>1, <3>5, FirstGoesOn
      <4>2. lastTest[k][k] > 0
        BY <2>1, <2>3, <4>1 DEF FreshTests, Fresh
      <4>3. lastTest'[k][k] > 0
        <5>1. /\ lastTest[k][k] \in Nat /\ lastTest'[k][k] \in Nat
              /\ lastTest'[k][k] >= lastTest[k][k]
          BY <1>1, <3>2 DEF DetectionTypeOK
        <5>2. QED
          BY <4>2, <5>1
      <4>4. QED
        BY <4>1, <4>3 DEF Fresh
    <3>6. QED
      BY <3>3, <3>4, <3>5
  <2>4. QED
    BY <2>2, <2>3
<1>6. QED
  BY <1>3, <1>4, <1>5 DEF DetectionNext

-----------------------------------------------------------------------------
(* No false alarm.                                                         *)

\* The nodes of the chain that have entered the test.
Loops(s, d) == {s[i].at : i \in {j \in 1 .. d : s[j].pc = "loop"}}

\* Answers have yet to pass the first Reach(n, d) handlers of the chain.
Reach(n, d) == IF n = d THEN d - 1 ELSE 2 * d - n

\* A node that has left the chain leaves a node on it with an answer to spare,
\* and before an answer reaches the initiator it comes to such a node.
Spare(s, d, E) ==
  /\ ~(E \subseteq Loops(s, d)) =>
       \E j \in 1 .. d :
         /\ s[j].pc = "loop" /\ s[j].count >= 1
         /\ j < d => s[j].count >= 2
  /\ s[d].pc \in {"again", "done"} =>
       \E j \in 1 .. Reach(Len(s), d) : s[j].count >= 2

\* Loops after the last handler that probes goes on.
LEMMA LoopsSame ==
  ASSUME NEW s, NEW r, NEW d \in Nat, d >= 1, Below(s, r, d),
         r[d].pc = "loop" <=> s[d].pc = "loop",
         r[d].pc = "loop" => r[d].at = s[d].at
  PROVE  Loops(r, d) = Loops(s, d)
<1>1. \A i \in 1 .. d : /\ r[i].pc = "loop" <=> s[i].pc = "loop"
                        /\ r[i].pc = "loop" => r[i].at = s[i].at
  <2>1. \A i \in 1 .. d : i = d \/ i \in 1 .. d - 1
    OBVIOUS
  <2>2. QED
    BY <2>1 DEF Below
<1>2. QED
  BY <1>1 DEF Loops

\* A probe makes an answer of its sender one to spare.
LEMMA SpareProbe ==
  ASSUME NEW s, NEW r, NEW d \in Nat, d >= 1, NEW E, Spare(s, d, E),
         Below(s, r, d), s[d].pc = "loop", r[d].pc = "loop",
         r[d].at = s[d].at, s[d].count \in Nat, r[d].count = s[d].count + 1,
         r[d + 1].pc = "hop"
  PROVE  Spare(r, d + 1, E)
<1> SUFFICES ASSUME ~(E \subseteq Loops(r, d + 1))
             PROVE  \E j \in 1 .. d + 1 :
                      /\ r[j].pc = "loop" /\ r[j].count >= 1
                      /\ j < d + 1 => r[j].count >= 2
  BY DEF Spare
<1>1. Loops(r, d) = Loops(s, d)
  BY LoopsSame
<1>2. Loops(r, d) \subseteq Loops(r, d + 1)
  BY DEF Loops
<1>3. PICK j \in 1 .. d :
        s[j].pc = "loop" /\ s[j].count >= 1 /\ (j < d => s[j].count >= 2)
  BY <1>1, <1>2 DEF Spare
<1>4. j \in 1 .. d + 1 /\ r[j].pc = "loop" /\ r[j].count >= 2 /\ r[j].count >= 1
  <2>1. CASE j = d
    BY <1>3, <2>1
  <2>2. CASE j < d
    <3>1. r[j] = s[j]
      BY <2>2 DEF Below
    <3>2. s[j].count >= 2 /\ s[j].count >= 1
      BY <1>3, <2>2
    <3>3. QED
      BY <1>3, <3>1, <3>2
  <2>3. QED
    BY <2>1, <2>2
<1>5. QED
  BY <1>4

\* A handler that has probed and lost the probe has an answer to spare.
LEMMA SparePop ==
  ASSUME NEW s, NEW r, NEW d \in Nat, d > 1, NEW E, Below(s, r, d),
         s[d - 1].pc = "loop", s[d - 1].count >= 1
  PROVE  Spare(r, d - 1, E)
<1>1. d - 1 \in 1 .. d - 1 /\ r[d - 1] = s[d - 1] /\ ~(d - 1 < d - 1)
  BY DEF Below
<1>2. QED
  BY <1>1 DEF Spare

\* A probe that finds its node in the test has found a node off the chain.
LEMMA SpareMove ==
  ASSUME NEW s, NEW r, NEW d \in Nat, d > 1, NEW E, Spare(s, d, E),
         Below(s, r, d), Len(r) = d, s[d].pc # "loop", r[d].pc # "loop",
         r[d].pc \in {"again", "done"} => ~(E \subseteq Loops(s, d))
  PROVE  Spare(r, d, E)
<1>1. Loops(r, d) = Loops(s, d)
  BY LoopsSame
<1>2. ASSUME ~(E \subseteq Loops(s, d))
      PROVE  \E j \in 1 .. d - 1 :
               r[j].pc = "loop" /\ r[j].count >= 1 /\ r[j].count >= 2
  <2>1. PICK j \in 1 .. d :
          s[j].pc = "loop" /\ s[j].count >= 1 /\ (j < d => s[j].count >= 2)
    BY <1>2 DEF Spare
  <2>2. j # d
    BY <2>1
  <2>3. j \in 1 .. d - 1 /\ j < d /\ r[j] = s[j]
    BY <2>2 DEF Below
  <2>4. QED
    BY <2>1, <2>3
<1>3. 1 .. d - 1 \subseteq 1 .. d
  OBVIOUS
<1>4. Reach(Len(r), d) = d - 1
  BY DEF Reach
<1>5. QED
  BY <1>1, <1>2, <1>3, <1>4 DEF Spare

\* A node that enters the test is on the chain.
LEMMA SpareEngage ==
  ASSUME NEW s, NEW r, NEW d \in Nat, d > 1, NEW E, NEW E2, Spare(s, d, E),
         Below(s, r, d), s[d].pc # "loop", r[d].pc = "loop",
         E2 = E \cup {r[d].at}
  PROVE  Spare(r, d, E2)
<1> SUFFICES ASSUME ~(E2 \subseteq Loops(r, d))
             PROVE  \E j \in 1 .. d : /\ r[j].pc = "loop" /\ r[j].count >= 1
                                      /\ j < d => r[j].count >= 2
  BY DEF Spare
<1>1. r[d].at \in Loops(r, d)
  BY DEF Loops
<1>2. Loops(s, d) \subseteq Loops(r, d)
  <2>1. \A i \in 1 .. d : s[i].pc = "loop" => i \in 1 .. d - 1
    OBVIOUS
  <2>2. QED
    BY <2>1 DEF Loops, Below
<1>3. PICK j \in 1 .. d :
        s[j].pc = "loop" /\ s[j].count >= 1 /\ (j < d => s[j].count >= 2)
  BY <1>1, <1>2 DEF Spare
<1>4. j \in 1 .. d - 1 /\ r[j] = s[j]
  <2>1. j # d
    BY <1>3
  <2>2. QED
    BY <2>1 DEF Below
<1>5. QED
  BY <1>3, <1>4

\* An answer starts on its way back, goes on, or has passed a handler.
LEMMA SpareAnswers ==
  ASSUME NEW s, NEW r, NEW d \in Nat, d > 1, NEW E, Spare(s, d, E),
         NEW n \in Nat, Below(s, r, n), n >= d, n = Len(s),
         s[d].pc \in {"again", "done"}, r[d].pc \in {"again", "done"},
         \A j \in 1 .. Reach(n, d) : s[j].count >= 2 => j \in 1 .. Reach(Len(r), d),
         Reach(n, d) < d
  PROVE  Spare(r, d, E)
<1>0. \A i \in 1 .. d - 1 : r[i] = s[i]
  BY DEF Below
<1>1. Loops(r, d) = Loops(s, d)
  <2>1. Below(s, r, d)
    BY <1>0 DEF Below
  <2>2. QED
    BY <2>1, LoopsSame
<1>2. PICK j \in 1 .. Reach(n, d) : s[j].count >= 2
  BY DEF Spare
<1>3. j \in 1 .. d - 1 /\ j \in 1 .. Reach(Len(r), d)
  <2>1. Reach(n, d) \in Int
    BY DEF Reach
  <2>2. QED
    BY <1>2, <2>1
<1>4. r[j].count >= 2
  BY <1>0, <1>2, <1>3
<1>5. ASSUME ~(E \subseteq Loops(r, d))
      PROVE  \E i \in 1 .. d : /\ r[i].pc = "loop" /\ r[i].count >= 1
                               /\ i < d => r[i].count >= 2
  <2>1. PICK i \in 1 .. d :
          s[i].pc = "loop" /\ s[i].count >= 1 /\ (i < d => s[i].count >= 2)
    BY <1>1, <1>5 DEF Spare
  <2>2. i # d
    BY <2>1
  <2>3. i \in 1 .. d - 1
    BY <2>2
  <2>4. QED
    BY <1>0, <2>1, <2>3
<1>6. QED
  BY <1>3, <1>4, <1>5 DEF Spare

\* While no cycle is to be found, the chain of a test has answers to spare.
SoundAt(s, d, E) ==
  s[1].pc = "loop" /\ ~CycleDeadlocked(s[1].k) => Spare(s, d, E)

\* A probe that comes to a node of its own chain has found a cycle.
LEMMA ProbeOnCycle ==
  ASSUME DetectionTypeOK, TestNumbers, NEW t \in Task, NEW d, OnChain(t, d),
         Len(calls[t]) = d, d > 1, calls[t][d].pc = "test",
         calls[t][d].at \in Loops(calls[t], d)
  PROVE  CycleDeadlocked(calls[t][1].k)
<1> DEFINE s == calls[t]
           k == s[1].k
           S == {s[i].at : i \in 1 .. d - 1}
<1>1. /\ d \in Nat /\ k \in Node /\ s[1].at = k
      /\ \A i \in 1 .. d : s[i].at \in Node
  BY TopOfChain
<1>2. Shape(s, d, d) /\ Nodes(s, d, k, lastTest, parent)
  BY DEF OnChain, Chain
<1>3. s[d].pc = "test" /\ s[d].at \in Loops(s, d)
  OBVIOUS
<1> HIDE DEF s, k
<1>4. S \subseteq Node /\ k \in S
  <2>1. 1 \in 1 .. d - 1
    BY <1>1
  <2>2. QED
    BY <1>1, <2>1
<1>5. s[d].at \in S
  <2>1. PICK i \in 1 .. d : s[i].pc = "loop" /\ s[d].at = s[i].at
    BY <1>3 DEF Loops
  <2>2. i # d
    BY <1>3, <2>1
  <2>3. i \in 1 .. d - 1
    BY <1>1, <2>2
  <2>4. QED
    BY <2>1, <2>3
<1>6. ASSUME NEW i \in 1 .. d - 1
      PROVE  ~isActive[s[i].at] /\ waitingFrom[s[i].at] \cap S # {}
  <2>1. Probes(s[i], s[i + 1]) /\ i \in 1 .. d /\ i + 1 \in 1 .. d /\ i + 1 > 1
    BY <1>1, <1>2 DEF Shape
  <2>2. TakesPart(s[i], k, lastTest, parent)
    BY <1>2, <2>1 DEF Nodes
  <2>3. ~isActive[s[i].at] /\ s[i + 1].to \in waitingFrom[s[i].at]
    BY <2>1, <2>2 DEF Probes, TakesPart
  <2>4. s[i + 1].pc # "hop" /\ s[i + 1].at \in S
    <3>1. CASE i + 1 = d
      BY <1>3, <1>5, <3>1
    <3>2. CASE i + 1 # d
      <4>1. i + 1 \in 1 .. d - 1
        BY <1>1, <3>2
      <4>2. s[i + 1].pc = "loop"
        BY <1>2, <4>1 DEF Shape, Probes
      <4>3. QED
        BY <4>1, <4>2
    <3>3. QED
      BY <3>1, <3>2
  <2>5. s[i + 1].at = s[i + 1].to
    BY <1>2, <2>1, <2>4 DEF Shape
  <2> HIDE DEF S
  <2>6. QED
    BY <2>3, <2>4, <2>5
<1>7. \A n \in S : ~isActive[n] /\ waitingFrom[n] \cap S # {}
  <2>1. \A n \in S : \E i \in 1 .. d - 1 : n = s[i].at
    OBVIOUS
  <2> HIDE DEF S
  <2>2. QED
    BY <1>6, <2>1
<1> HIDE DEF S
<1>8. QED
  BY <1>4, <1>7 DEF CycleDeadlocked, s, k

\* Engaged(k) as the table of test numbers last has it.
EngagedIn(k, last) ==
  {n \in Node \ {k} : last[k][k] > 0 /\ last[n][k] = last[k][k]}

\* The answer that an initiator counts last has come back on a cycle.
LEMMA LastIsSound ==
  ASSUME DetectionTypeOK, TestNumbers, NEW t \in Task, NEW d, OnChain(t, d),
         NEW E, SoundAt(calls[t], d, E), LastAnswer(t)
  PROVE  LET s == calls[t]
             j == 2 * d - Len(s)
         IN  /\ d < Len(s) /\ j \in 1 .. d - 1 /\ s[j].count = 1
             /\ s[Len(s)].pc = "countdown" /\ s[1].pc = "loop" /\ s[d].pc = "done"
             /\ j = 1 => CycleDeadlocked(s[1].k)
             /\ j # 1 => Top(t).at # s[1].k
             /\ Top(t).k = s[1].k
<1> DEFINE s == calls[t]
           n == Len(s)
           j == 2 * d - n
           k == s[1].k
<1>1. At(t, "answer", "countdown")
  BY DEF LastAnswer
<1>2. /\ d < n /\ j \in 1 .. d - 1 /\ s[j].count = 1 /\ Top(t) = s[n]
      /\ Top(t).at = s[j].at /\ Top(t).k = k
  BY <1>1, CountOfAnswer
<1>3. /\ Shape(s, n, d) /\ Nodes(s, d, k, lastTest, parent) /\ s[1].at = k
      /\ n \in Nat /\ d \in 1 .. n
  BY TopOfChain DEF OnChain, Chain
<1>4. s[n].pc = "countdown"
  BY <1>1, <1>2 DEF At
<1>5. SoundAt(s, d, E) /\ j = 2 * d - n
  OBVIOUS
<1> HIDE DEF j, s, n, k
<1>6. /\ s[d].pc = "done" /\ s[1].pc = "loop" /\ s[j].pc = "loop"
      /\ 1 \in 1 .. d /\ j \in 1 .. d
  <2>1. /\ 1 \in 1 .. d - 1 /\ 1 \in 1 .. d /\ j \in 1 .. d
    BY <1>2, <1>3
  <2>2. QED
    BY <1>2, <1>3, <2>1 DEF Shape, Probes
<1>7. ASSUME j # 1
      PROVE  s[j].at # k
  <2>1. 1 < j
    BY <1>2, <1>7
  <2>2. QED
    BY <1>3, <1>6, <2>1 DEF Nodes
<1>8. ASSUME j = 1, ~CycleDeadlocked(k)
      PROVE  FALSE
  <2>1. Spare(s, d, E)
    BY <1>5, <1>6, <1>8 DEF SoundAt, k
  <2>2. Reach(n, d) = 1
    BY <1>2, <1>3, <1>5, <1>8 DEF Reach
  <2>3. PICK i \in 1 .. 1 : s[i].count >= 2
    BY <1>6, <2>1, <2>2 DEF Spare, n
  <2>4. i = 1
    OBVIOUS
  <2>5. QED
    BY <1>2, <1>8, <2>3, <2>4
<1>9. QED
  BY <1>2, <1>4, <1>6, <1>7, <1>8 DEF s, n, j, k

\* No step of a request uses up an answer that no cycle has sent.
LEMMA SoundOfStep ==
  ASSUME SmallRing, DetectionTypeOK, TestNumbers, NEW t \in Task, Fresh(t),
         NEW d, OnChain(t, d),
         SoundAt(calls[t], d, EngagedIn(calls[t][1].k, lastTest)),
         RequestStep(t), ~Idle(t)'
  PROVE  \E e :
           /\ Chain(calls'[t], e, lastTest', parent', waitStatus', probeCount')
           /\ SoundAt(calls'[t], e, EngagedIn(calls'[t][1].k, lastTest'))
<1> DEFINE s == calls[t]
           r == calls'[t]
           n == Len(s)
           k == s[1].k
           E == EngagedIn(k, lastTest)
           Goal == \E e :
             /\ Chain(r, e, lastTest', parent', waitStatus', probeCount')
             /\ SoundAt(r, e, EngagedIn(r[1].k, lastTest'))
<1> SUFFICES Goal
  OBVIOUS
<1>1. /\ Shape(s, n, d) /\ n \in Nat /\ n >= 1 /\ d \in 1 .. n /\ k \in Node
      /\ s[1].at = k /\ s[1].fn = "start" /\ Top(t) = s[n] /\ d \in Nat /\ d >= 1
      /\ \A i \in 1 .. n : s[i].at \in Node
  BY TopOfChain DEF OnChain, Chain
<1>2. CASE MarkTest(t)
  <2>1. /\ Chain(r, 1, lastTest', parent', waitStatus', probeCount')
        /\ r[1].pc = "read"
    BY <1>2, ChainMark
  <2>2. QED
    BY <2>1 DEF SoundAt
<1>3. CASE ReadTest(t)
  <2>1. n = 1 /\ Chain(r, 1, lastTest', parent', waitStatus', probeCount')
    BY <1>3, ChainRead
  <2>2. s[1].pc = "read" /\ r[1].pc = "loop" /\ r[1].k = k
    BY <1>3, <2>1, EffectOfRead
  <2>3. lastTest' = lastTest
    BY <1>3 DEF ReadTest, probeVars
  <2>4. E = {}
    <3>1. Engaged(k) = {}
      BY <2>2 DEF Fresh
    <3>2. QED
      BY <3>1 DEF Engaged, EngagedIn
  <2>5. Spare(r, 1, E)
    BY <2>2, <2>4 DEF Spare
  <2>6. SoundAt(r, 1, EngagedIn(r[1].k, lastTest'))
    BY <2>2, <2>3, <2>5 DEF SoundAt
  <2>7. QED
    BY <2>1, <2>6
\* The other steps leave the REST handler in its loop.
<1>4. CASE ~MarkTest(t) /\ ~ReadTest(t)
  <2>1. s[1].pc = "loop" /\ r[1].pc = "loop" /\ r[1].k = k
    BY <1>4, FirstGoesOn
  <2> SUFFICES ASSUME ~CycleDeadlocked(k)
               PROVE  \E e :
                 /\ Chain(r, e, lastTest', parent', waitStatus', probeCount')
                 /\ Spare(r, e, EngagedIn(k, lastTest'))
    <3>1. ASSUME CycleDeadlocked(k)
          PROVE  Goal
      <4>1. PICK e : Chain(r, e, lastTest', parent', waitStatus', probeCount')
        BY ChainOfStep
      <4>2. SoundAt(r, e, EngagedIn(r[1].k, lastTest'))
        <5>1. CycleDeadlocked(r[1].k)
          BY <2>1, <3>1
        <5>2. QED
          BY <5>1 DEF SoundAt
      <4>3. QED
        BY <4>1, <4>2
    <3>2. QED
      BY <2>1, <3>1 DEF SoundAt
  <2> HIDE DEF Goal
  <2>2. Spare(s, d, E)
    BY <2>1 DEF SoundAt
  <2>3. ASSUME NEW q \in Node, SendProbe(t, q)
        PROVE  \E e :
                 /\ Chain(r, e, lastTest', parent', waitStatus', probeCount')
                 /\ Spare(r, e, EngagedIn(k, lastTest'))
    <3>1. n = d /\ Chain(r, d + 1, lastTest', parent', waitStatus', probeCount')
      BY <2>3, ChainProbe
    <3>2. /\ s[d].pc = "loop" /\ Below(s, r, d) /\ Same(s[d], r[d])
          /\ r[d].pc = "loop" /\ r[d].count = s[d].count + 1
          /\ r[d + 1].pc = "hop" /\ lastTest' = lastTest
      BY <2>3, <3>1, EffectOfSendProbe DEF SendProbe
    <3>3. s[d].count \in Nat
      <4>1. s[d] \in DetectionFrame
        BY <1>1, <3>1, TopOfChain
      <4>2. QED
        BY <4>1 DEF DetectionFrame
    <3>4. r[d].at = s[d].at
      BY <3>2 DEF Same
    <3> HIDE DEF s, r, n, k, E
    <3>5. Spare(r, d + 1, E)
      BY <1>1, <2>2, <3>2, <3>3, <3>4, SpareProbe
    <3>6. QED
      BY <3>1, <3>2, <3>5 DEF E
  <2>4. ~EndStart(t)
    BY TestReturns DEF Idle
  <2>5. CASE \/ ReceiveProbe(t) /\ ~isActive[Top(t).at]
             \/ TestProbe(t)
             \/ ForwardMessage(t) /\ Top(t).fn = "probe"
    <3>1. /\ d > 1 /\ n = d /\ Len(r) = d /\ Below(s, r, d)
          /\ s[d].pc \in {"hop", "test"} /\ lastTest' = lastTest
          /\ r[d].pc \in {"hop", "test", "engage", "again"}
          /\ Chain(r, d, lastTest', parent', waitStatus', probeCount')
      BY <2>5, ProbeMoves
    <3>2. ASSUME r[d].pc = "again"
          PROVE  ~(E \subseteq Loops(s, d))
      <4>1. s[d].pc = "test" /\ r[d].at = s[d].at
        <5>1. TestProbe(t)
          <6>1. ASSUME ReceiveProbe(t) /\ ~isActive[Top(t).at]
                PROVE  FALSE
            <7>1. ~Idle(t) /\ Goto(t, [Top(t) EXCEPT !.pc = "test"])
              BY <6>1 DEF ReceiveProbe, Received, At
            <7>2. r[n].pc = "test"
              BY <7>1, EffectOfMove
            <7>3. QED
              BY <3>1, <3>2, <7>2
          <6>2. ~ForwardMessage(t)
            BY <3>1, <3>2, EffectOfForward
          <6>3. QED
            BY <2>5, <6>1, <6>2
        <5>2. Top(t).pc = "test"
          BY <5>1 DEF TestProbe, At
        <5>3. s[d].pc = "test" /\ s[d].at = s[d].to
          BY <1>1, <3>1, <5>2 DEF Shape
        <5>4. r[d].at = r[d].to /\ r[d].to = s[d].to
          <6>1. r[d].to = s[d].to
            BY <2>5, ProbeMoves
          <6>2. Shape(r, d, d) /\ d \in 1 .. d
            BY <1>1, <3>1 DEF Chain
          <6> HIDE DEF r, s
          <6>3. QED
            BY <3>1, <3>2, <6>1, <6>2 DEF Shape
        <5>5. QED
          BY <5>3, <5>4
      <4>2. s[d].at \notin Loops(s, d)
        BY <3>1, <4>1, ProbeOnCycle
      <4>3. lastTest[s[d].at][k] = lastTest[k][k]
        <5>1. Nodes(r, d, k, lastTest', parent')
          BY <2>1, <3>1 DEF Chain
        <5>2. d \in 1 .. d
          BY <1>1
        <5> HIDE DEF r, s, k
        <5>3. TakesPart(r[d], k, lastTest', parent')
          BY <5>1, <5>2 DEF Nodes
        <5>4. QED
          BY <3>1, <3>2, <4>1, <5>3 DEF TakesPart
      <4>4. k \in Loops(s, d)
        <5>1. 1 \in 1 .. d
          BY <1>1
        <5> HIDE DEF s, k
        <5>2. QED
          BY <1>1, <2>1, <5>1 DEF Loops
      <4>5. lastTest[k][k] > 0
        BY <2>1 DEF Fresh
      <4>6. s[d].at \in E
        <5>1. s[d].at \in Node /\ s[d].at # k
          BY <1>1, <4>2, <4>4
        <5> HIDE DEF s, k
        <5>2. QED
          BY <4>3, <4>5, <5>1 DEF EngagedIn
      <4>7. QED
        BY <4>2, <4>6
    <3>3. s[d].pc # "loop" /\ r[d].pc # "loop" /\ r[d].pc # "done"
      BY <3>1
    <3> HIDE DEF s, r, n, k, E
    <3>4. Spare(r, d, E)
      BY <1>1, <2>2, <3>1, <3>2, <3>3, SpareMove
    <3>5. QED
      BY <3>1, <3>4 DEF E
  <2>6. CASE \/ ReceiveProbe(t) /\ isActive[Top(t).at]
             \/ EndProbe(t) \/ EndAgain(t)
             \/ AnswerAgain(t) /\ ~waitStatus[Top(t).at][Top(t).k]
    <3>1. /\ d > 1 /\ n = d /\ Below(s, r, d)
          /\ Chain(r, d - 1, lastTest', parent', waitStatus', probeCount')
      BY <2>6, ProbeReturns
    <3> HIDE DEF s, r, n, k, E
    <3>2. s[d - 1].pc = "loop" /\ s[d - 1].count >= 1
      <4>1. d - 1 \in 1 .. d - 1
        BY <1>1, <3>1
      <4>2. QED
        BY <1>1, <4>1 DEF Shape, Probes
    <3>3. Spare(r, d - 1, EngagedIn(k, lastTest'))
      BY <1>1, <3>1, <3>2, SparePop
    <3>4. QED
      BY <3>1, <3>3
  <2>7. CASE Engage(t)
    <3>1. /\ n = d /\ Chain(r, d, lastTest', parent', waitStatus', probeCount')
      BY <2>7, ChainEngage
    <3>2. /\ s[d].pc = "engage" /\ Below(s, r, d) /\ r[d].pc = "loop"
          /\ r[d].at = s[d].at
      BY <2>7, <3>1, EffectOfEngage DEF Same
    <3>3. /\ d > 1 /\ lastTest[s[d].at][k] < lastTest[k][k]
          /\ lastTest' = [lastTest EXCEPT ![s[d].at][k] = lastTest[k][k]]
          /\ s[d].at \in Node
      BY <2>7, NodeEnters
    <3> HIDE DEF s, r, n, k
    <3>4. EngagedIn(k, lastTest') = E \cup {r[d].at}
      <4> DEFINE x == s[d].at
      <4>1. lastTest[x][k] \in Nat /\ lastTest[k][k] \in Nat
        BY <1>1, <3>3 DEF DetectionTypeOK
      <4>2. x # k /\ lastTest[k][k] > 0
        BY <3>3, <4>1
      <4>3. /\ lastTest'[k][k] = lastTest[k][k] /\ lastTest'[x][k] = lastTest[k][k]
            /\ \A y \in Node \ {x} : lastTest'[y][k] = lastTest[y][k]
        BY <1>1, <3>3, <4>2 DEF DetectionTypeOK
      <4>4. x \in Node /\ r[d].at = x
        BY <3>2, <3>3
      <4> HIDE DEF x
      <4>5. QED
        BY <4>2, <4>3, <4>4 DEF EngagedIn
    <3> HIDE DEF E
    <3>5. s[d].pc # "loop"
      BY <3>2
    <3>6. Spare(r, d, EngagedIn(k, lastTest'))
      BY <1>1, <2>2, <3>2, <3>3, <3>4, <3>5, SpareEngage
    <3>7. QED
      BY <3>1, <3>6
\* The steps that take an answer on its way.
  <2>8. ASSUME d > 1, Below(s, r, n), lastTest' = lastTest,
               Chain(r, d, lastTest', parent', waitStatus', probeCount'),
               s[d].pc \in {"again", "done"}, r[d].pc \in {"again", "done"},
               \A j \in 1 .. Reach(n, d) :
                 s[j].count >= 2 => j \in 1 .. Reach(Len(r), d)
        PROVE  \E e :
                 /\ Chain(r, e, lastTest', parent', waitStatus', probeCount')
                 /\ Spare(r, e, EngagedIn(k, lastTest'))
    <3>1. Reach(n, d) < d /\ n >= d
      BY <1>1 DEF Reach
    <3>2. n = Len(s)
      OBVIOUS
    <3> HIDE DEF s, r, n, k, E
    <3>3. Spare(r, d, E)
      BY <1>1, <2>2, <2>8, <3>1, <3>2, SpareAnswers
    <3>4. QED
      BY <2>8, <3>3 DEF E
  <2>9. CASE AnswerAgain(t) /\ waitStatus[Top(t).at][Top(t).k]
    <3>1. /\ d > 1 /\ n = d /\ Len(r) = d + 1 /\ Below(s, r, n)
          /\ s[d].pc = "again" /\ r[d].pc = "done"
          /\ Chain(r, d, lastTest', parent', waitStatus', probeCount')
      BY <2>9, ChainAnswer
    <3>2. lastTest' = lastTest
      BY <2>9 DEF AnswerAgain, probeVars
    <3>3. Reach(n, d) = d - 1 /\ Reach(Len(r), d) = d - 1
      BY <1>1, <3>1 DEF Reach
    <3> HIDE DEF s, r, n, k, E
    <3>4. QED
      BY <2>8, <3>1, <3>2, <3>3
\* A chain of which handlers of answers mirror the last handlers.
  <2>10. ASSUME d < n, Below(s, r, n)
         PROVE  d > 1 /\ s[d].pc = "done" /\ r[d].pc = "done"
    <3>1. d > 1 /\ d \in 1 .. n - 1
      BY <1>1, <2>10 DEF Shape
    <3> HIDE DEF s, r, n
    <3>2. QED
      BY <1>1, <2>10, <3>1 DEF Shape, Below
  <2>11. CASE \/ ReceiveAnswer(t)
              \/ CheckAnswer(t) /\ waitStatus[Top(t).at][Top(t).k]
              \/ ForwardMessage(t) /\ Top(t).fn # "probe"
    <3>1. \/ ReceiveAnswer(t) /\ ~isActive[Top(t).at]
          \/ CheckAnswer(t) /\ waitStatus[Top(t).at][Top(t).k]
          \/ ForwardMessage(t) /\ Top(t).fn = "answer"
      BY <2>11, AnswerIsTaken, ForwardedIsMessage
    <3>2. /\ d < n /\ Len(r) = n /\ Below(s, r, n) /\ lastTest' = lastTest
          /\ Chain(r, d, lastTest', parent', waitStatus', probeCount')
      BY <3>1, AnswerMoves
    <3>3. d > 1 /\ s[d].pc = "done" /\ r[d].pc = "done"
      BY <2>10, <3>2
    <3> HIDE DEF s, r, n, k, E
    <3>4. QED
      BY <2>8, <3>2, <3>3
  <2>12. ASSUME d < n, Below(s, r, n), lastTest' = lastTest, Len(r) = n - 1,
                Chain(r, d, lastTest', parent', waitStatus', probeCount')
         PROVE  \E e :
                 /\ Chain(r, e, lastTest', parent', waitStatus', probeCount')
                 /\ Spare(r, e, EngagedIn(k, lastTest'))
    <3>1. d > 1 /\ s[d].pc = "done" /\ r[d].pc = "done"
      BY <2>10, <2>12
    <3> HIDE DEF s, r, n, k, E
    <3>2. Reach(n, d) \in Int /\ Reach(Len(r), d) \in Int
          /\ Reach(n, d) <= Reach(Len(r), d)
      BY <1>1, <2>12 DEF Reach
    <3>3. \A j \in 1 .. Reach(n, d) : j \in 1 .. Reach(Len(r), d)
      BY <3>2
    <3>4. QED
      BY <2>8, <2>12, <3>1, <3>3
  <2>13. CASE \/ CheckAnswer(t) /\ ~waitStatus[Top(t).at][Top(t).k]
              \/ CountDown(t) /\ ~LastAnswer(t)
    <3>1. /\ d < n /\ Below(s, r, n) /\ Len(r) = n - 1 /\ lastTest' = lastTest
          /\ Chain(r, d, lastTest', parent', waitStatus', probeCount')
      BY <2>13, AnswerDropped
    <3> HIDE DEF s, r, n, k, E
    <3>2. QED
      BY <2>12, <3>1
  <2>14. CASE ClearWait(t)
    <3>1. /\ d < n /\ Below(s, r, n) /\ Len(r) = n - 1
          /\ Chain(r, d, lastTest', parent', waitStatus', probeCount')
      BY <2>14, ChainClear
    <3>2. lastTest' = lastTest
      BY <2>14 DEF ClearWait
    <3> HIDE DEF s, r, n, k, E
    <3>3. QED
      BY <2>12, <3>1, <3>2
  <2>15. CASE CountDown(t) /\ LastAnswer(t)
    <3>1. /\ Below(s, r, n)
          /\ Len(r) = IF 2 * d - n = 1 THEN n ELSE n + 1
          /\ Chain(r, d, lastTest', parent', waitStatus', probeCount')
      BY <2>15, ChainResolve
    <3>2. /\ d < n /\ 2 * d - n \in 1 .. d - 1 /\ s[2 * d - n].count = 1
          /\ 2 * d - n # 1
      BY <2>15, LastIsSound
    <3>3. lastTest' = lastTest
      BY <2>15 DEF CountDown
    <3>4. d > 1 /\ s[d].pc = "done" /\ r[d].pc = "done"
      BY <2>10, <3>1, <3>2
    <3> HIDE DEF s, r, n, k, E
    <3>5. Reach(n, d) = 2 * d - n /\ Reach(Len(r), d) = 2 * d - n - 1
      BY <1>1, <3>1, <3>2 DEF Reach
    <3>6. \A j \in 1 .. Reach(n, d) :
            s[j].count >= 2 => j \in 1 .. Reach(Len(r), d)
      <4> SUFFICES ASSUME NEW j \in 1 .. 2 * d - n, s[j].count >= 2
                   PROVE  j \in 1 .. 2 * d - n - 1
        BY <3>5
      <4>1. j # 2 * d - n
        BY <3>2
      <4>2. QED
        BY <1>1, <4>1
    <3>7. QED
      BY <2>8, <3>1, <3>3, <3>4, <3>6
  <2>16. QED
    BY StepKinds, <1>4, <2>3, <2>4, <2>5, <2>6, <2>7, <2>9, <2>11, <2>13,
       <2>14, <2>15
<1>5. QED
  BY <1>2, <1>3, <1>4

\* What the chain of request t leaves for the initiator is sound.
OnSoundChain(t, d) ==
  /\ OnChain(t, d)
  /\ SoundAt(calls[t], d, EngagedIn(calls[t][1].k, lastTest))

SoundChains == \A t \in Task : ~Idle(t) => \E d \in Nat : OnSoundChain(t, d)

\* A sound chain depends on nothing that stays as it is but its test.
LEMMA SoundNext ==
  ASSUME UNCHANGED waitGraph, NEW t \in Task, NEW d,
         Chain(calls'[t], d, lastTest', parent', waitStatus', probeCount'),
         SoundAt(calls'[t], d, EngagedIn(calls'[t][1].k, lastTest'))
  PROVE  OnSoundChain(t, d)' /\ d \in Nat
<1>1. OnChain(t, d)' /\ d \in Nat
  BY ChainNext
<1>2. isActive' = isActive /\ waitingFrom' = waitingFrom
  BY DEF waitGraph
<1>3. SoundAt(calls[t], d, EngagedIn(calls[t][1].k, lastTest))'
  BY <1>2 DEF SoundAt, CycleDeadlocked
<1>4. QED
  BY <1>1, <1>3 DEF OnSoundChain

\* A new verdict is one of a node that waits on or towards a cycle.
LEMMA DeclaredStep ==
  ASSUME DetectionTypeOK, TestNumbers, SoundChains, DeclaredIsDeadlock,
         [DetectionNext]_detectionVars
  PROVE  DeclaredIsDeadlock'
<1>1. UNCHANGED waitGraph
  <2>1. CASE UNCHANGED detectionVars
    BY <2>1 DEF detectionVars
  <2>2. ASSUME NEW t \in Task, NEW n \in Initiator, StartDetection(t, n)
        PROVE  UNCHANGED waitGraph
    BY <2>2 DEF StartDetection
  <2>3. ASSUME NEW t \in Task, RequestStep(t)
        PROVE  UNCHANGED waitGraph
    BY <2>3, OthersKept
  <2>4. QED
    BY <2>1, <2>2, <2>3 DEF DetectionNext
<1>2. \A k : CycleDeadlocked(k) => CycleDeadlocked(k)'
  BY <1>1 DEF waitGraph, CycleDeadlocked
<1>3. CASE declared' = declared
  BY <1>2, <1>3 DEF DeclaredIsDeadlock
<1>4. ASSUME NEW t \in Task, RequestStep(t), declared' # declared
      PROVE  DeclaredIsDeadlock'
  <2> DEFINE k == calls[t][1].k
  <2>1. /\ declared' = declared \cup {<< k, lastTest[k][k] >>}
        /\ CountDown(t) /\ LastAnswer(t) /\ Top(t).at = k
    BY <1>4, NewVerdict
  <2>2. ~Idle(t)
    BY <2>1 DEF CountDown, At
  <2>3. PICK d \in Nat : OnSoundChain(t, d)
    BY <2>2 DEF SoundChains
  <2>4. CycleDeadlocked(k)
    BY <2>1, <2>3, LastIsSound DEF OnSoundChain
  <2> HIDE DEF k
  <2>5. \A v \in declared' : CycleDeadlocked(v[1])
    BY <2>1, <2>4 DEF DeclaredIsDeadlock
  <2>6. QED
    BY <1>2, <2>5 DEF DeclaredIsDeadlock
<1>5. CASE UNCHANGED detectionVars
  BY <1>3, <1>5 DEF detectionVars
<1>6. ASSUME NEW t \in Task, NEW n \in Initiator, StartDetection(t, n)
      PROVE  DeclaredIsDeadlock'
  BY <1>3, <1>6 DEF StartDetection
<1>7. QED
  BY <1>3, <1>4, <1>5, <1>6 DEF DetectionNext

\* Each step keeps every chain sound.
LEMMA SoundChainsStep ==
  ASSUME OneTestAtATime, SmallRing, DetectionTypeOK, TestNumbers, FreshTests,
         SoundChains, [DetectionNext]_detectionVars
  PROVE  SoundChains'
<1> SUFFICES ASSUME NEW u \in Task, ~Idle(u)'
             PROVE  \E d \in Nat : OnSoundChain(u, d)'
  BY DEF SoundChains
\* A request that takes no step keeps its chain.
<1>2. ASSUME UNCHANGED << waitGraph, probeVars >>, calls'[u] = calls[u]
      PROVE  \E d \in Nat : OnSoundChain(u, d)'
  <2>1. PICK d \in Nat : OnSoundChain(u, d)
    BY <1>2 DEF SoundChains, Idle
  <2>2. /\ Chain(calls'[u], d, lastTest', parent', waitStatus', probeCount')
        /\ SoundAt(calls'[u], d, EngagedIn(calls'[u][1].k, lastTest'))
    BY <1>2, <2>1 DEF OnSoundChain, OnChain, probeVars
  <2>3. QED
    BY <1>2, <2>2, SoundNext
<1>3. CASE UNCHANGED detectionVars
  BY <1>2, <1>3 DEF detectionVars
<1>4. ASSUME NEW t \in Task, NEW n \in Initiator, StartDetection(t, n)
      PROVE  \E d \in Nat : OnSoundChain(u, d)'
  <2>1. UNCHANGED << waitGraph, probeVars >>
    BY <1>4 DEF StartDetection
  <2>2. CASE u = t
    <3>1. /\ Chain(calls'[t], 1, lastTest', parent', waitStatus', probeCount')
          /\ calls'[t][1].pc = "mark"
      <4>1. /\ calls'[t] = << StartFrame(n) >>
            /\ Chain(calls'[t], 1, lastTest', parent', waitStatus', probeCount')
        BY <1>4, ChainStart
      <4>2. StartFrame(n).pc = "mark"
        BY DEF StartFrame
      <4>3. QED
        BY <4>1, <4>2
    <3>2. SoundAt(calls'[t], 1, EngagedIn(calls'[t][1].k, lastTest'))
      BY <3>1 DEF SoundAt
    <3>3. QED
      BY <2>1, <2>2, <3>1, <3>2, SoundNext
  <2>3. CASE u # t
    BY <1>2, <1>4, <2>1, <2>3, ChainStart
  <2>4. QED
    BY <2>2, <2>3
<1>5. ASSUME NEW t \in Task, RequestStep(t)
      PROVE  \E d \in Nat : OnSoundChain(u, d)'
  <2>1. /\ ~Idle(t) /\ UNCHANGED waitGraph
        /\ \A w \in Task \ {t} : calls'[w] = calls[w]
    BY <1>5, OthersKept
  <2>2. CASE u = t
    <3>1. PICK d \in Nat : OnSoundChain(t, d)
      BY <2>1 DEF SoundChains
    <3>2. Fresh(t)
      BY <2>1 DEF FreshTests
    <3>3. PICK e :
            /\ Chain(calls'[t], e, lastTest', parent', waitStatus', probeCount')
            /\ SoundAt(calls'[t], e, EngagedIn(calls'[t][1].k, lastTest'))
      BY <1>5, <2>2, <3>1, <3>2, SoundOfStep DEF OnSoundChain
    <3>4. QED
      BY <2>1, <2>2, <3>3, SoundNext
  <2>3. CASE u # t
    <3> DEFINE k == calls[u][1].k
    <3>1. calls'[u] = calls[u] /\ ~Idle(u)
      BY <2>1, <2>3 DEF Idle
    <3>2. PICK d \in Nat : OnSoundChain(u, d)
      BY <3>1 DEF SoundChains
    <3>3. /\ k \in Node /\ k # calls[t][1].k
          /\ \A i \in 1 .. Len(calls[u]) : calls[u][i].at \in Node
      BY <2>1, <2>3, <3>1, <3>2, TopOfChain DEF OnSoundChain, TestNumbers
    <3>4. \A n \in Node :
            /\ lastTest'[n][k] = lastTest[n][k]
            /\ waitStatus'[n][k] = waitStatus[n][k]
            /\ parent'[n][k] = parent[n][k]
            /\ probeCount'[n][k] = probeCount[n][k]
      BY <1>5, <3>3, OthersKept
    <3>5. Chain(calls[u], d, lastTest', parent', waitStatus', probeCount')
      <4>1. Chain(calls[u], d, lastTest, parent, waitStatus, probeCount)
        BY <3>2 DEF OnSoundChain, OnChain
      <4>2. QED
        BY <3>3, <3>4, <4>1, ChainAgree
    <3>6. EngagedIn(k, lastTest') = EngagedIn(k, lastTest)
      BY <3>3, <3>4 DEF EngagedIn
    <3>7. SoundAt(calls'[u], d, EngagedIn(calls'[u][1].k, lastTest'))
      BY <3>1, <3>2, <3>6 DEF OnSoundChain
    <3>8. QED
      BY <2>1, <3>1, <3>5, <3>7, SoundNext
  <2>4. QED
    BY <2>2, <2>3
<1>6. QED
  BY <1>3, <1>4, <1>5 DEF DetectionNext

\* A node that logs DEADLOCK DETECTED in handle_probe_answer waits on or towards
\* a cycle of passive nodes: no test raises a false alarm.
THEOREM VerdictsAreRight ==
  ASSUME OneTestAtATime, SmallRing
  PROVE  DetectionSpec => []DeclaredIsDeadlock
<1>1. DetectionInit => FreshTests /\ SoundChains /\ DeclaredIsDeadlock
  BY DEF DetectionInit, FreshTests, SoundChains, DeclaredIsDeadlock, Idle
<1>2. DetectionTypeOK /\ TestNumbers /\ Chains /\ FreshTests
        /\ [DetectionNext]_detectionVars => FreshTests'
  BY FreshTestsStep
<1>3. DetectionTypeOK /\ TestNumbers /\ FreshTests /\ SoundChains
        /\ [DetectionNext]_detectionVars => SoundChains'
  BY SoundChainsStep
<1>4. DetectionTypeOK /\ TestNumbers /\ SoundChains /\ DeclaredIsDeadlock
        /\ [DetectionNext]_detectionVars => DeclaredIsDeadlock'
  BY DeclaredStep
<1>5. QED
  BY <1>1, <1>2, <1>3, <1>4, RequestsAreChains, PTL DEF DetectionSpec

-----------------------------------------------------------------------------
(* No missed knot.                                                         *)

\* The nodes of S are passive and wait, all of them for nodes of S.
Knot(S) ==
  \A n \in S : ~isActive[n] /\ waitingFrom[n] # {} /\ waitingFrom[n] \subseteq S

\* The chain of a test of k that has stayed in knot S: every handler has sent
\* one probe, which has not returned, and no node E of the test has answered
\* its prober.
Stays(s, d, k, S, E, wait) ==
  /\ \A i \in 2 .. d : s[i].to \in S
  /\ \A i \in 1 .. d - 1 : s[i].count = 1
  /\ \A n \in E \cup {k} : wait[n][k]
  /\ s[d].pc = "loop" => s[d].count = 0 /\ s[d].todo = waitingFrom[s[d].at]
  /\ s[d].pc = "done" => d < Len(s) /\ s[Len(s)].pc # "clear"

\* The last handler goes on, answers its prober, or its answer travels.
LEMMA StaysSame ==
  ASSUME NEW s, NEW r, NEW d \in Nat, d > 1, NEW k, NEW S, NEW E, NEW wait,
         Stays(s, d, k, S, E, wait), Below(s, r, d), r[d].to = s[d].to,
         r[d].pc # "loop",
         r[d].pc = "done" => d < Len(r) /\ r[Len(r)].pc # "clear"
  PROVE  Stays(r, d, k, S, E, wait)
<1>1. \A i \in 1 .. d - 1 : r[i] = s[i]
  BY DEF Below
<1>2. ASSUME NEW i \in 2 .. d
      PROVE  r[i].to \in S
  <2>1. s[i].to \in S
    BY DEF Stays
  <2>2. CASE i = d
    BY <2>1, <2>2
  <2>3. CASE i # d
    <3>1. i \in 1 .. d - 1
      BY <2>3
    <3>2. QED
      BY <1>1, <2>1, <3>1
  <2>4. QED
    BY <2>2, <2>3
<1>3. QED
  BY <1>1, <1>2 DEF Stays

\* The last handler sends its first probe.
LEMMA StaysProbe ==
  ASSUME NEW s, NEW r, NEW d \in Nat, d >= 1, NEW k, NEW S, NEW E, NEW wait,
         Stays(s, d, k, S, E, wait), Below(s, r, d), r[d].to = s[d].to,
         s[d].pc = "loop", r[d].count = s[d].count + 1,
         r[d + 1].to \in S, r[d + 1].pc = "hop"
  PROVE  Stays(r, d + 1, k, S, E, wait)
<1>1. \A i \in 1 .. d - 1 : r[i] = s[i]
  BY DEF Below
<1>2. ASSUME NEW i \in 2 .. d + 1
      PROVE  r[i].to \in S
  <2>1. CASE i = d + 1
    BY <2>1
  <2>2. CASE i = d
    <3>1. s[d].to \in S
      BY <2>2 DEF Stays
    <3>2. QED
      BY <2>2, <3>1
  <2>3. CASE i < d
    <3>1. i \in 1 .. d - 1 /\ i \in 2 .. d
      BY <2>3
    <3>2. QED
      BY <1>1, <3>1 DEF Stays
  <2>4. QED
    BY <2>1, <2>2, <2>3
<1>3. ASSUME NEW i \in 1 .. d
      PROVE  r[i].count = 1
  <2>1. CASE i = d
    BY <2>1 DEF Stays
  <2>2. CASE i # d
    <3>1. i \in 1 .. d - 1
      BY <2>2
    <3>2. QED
      BY <1>1, <3>1 DEF Stays
  <2>3. QED
    BY <2>1, <2>2
<1>4. QED
  BY <1>2, <1>3 DEF Stays

\* The node of the last handler enters the test.
LEMMA StaysEngage ==
  ASSUME NEW s, NEW r, NEW d \in Nat, d > 1, NEW k, NEW S, NEW E, NEW wait,
         NEW wait2, NEW x,
         Stays(s, d, k, S, E, wait), Below(s, r, d), r[d].to = s[d].to,
         r[d].pc = "loop", r[d].count = 0, r[d].todo = waitingFrom[r[d].at],
         wait2[x][k], \A n \in E \cup {k} : wait[n][k] => wait2[n][k]
  PROVE  Stays(r, d, k, S, E \cup {x}, wait2)
<1>1. \A i \in 1 .. d - 1 : r[i] = s[i]
  BY DEF Below
<1>2. ASSUME NEW i \in 2 .. d
      PROVE  r[i].to \in S
  <2>1. s[i].to \in S
    BY DEF Stays
  <2>2. CASE i = d
    BY <2>1, <2>2
  <2>3. CASE i # d
    <3>1. i \in 1 .. d - 1
      BY <2>3
    <3>2. QED
      BY <1>1, <2>1, <3>1
  <2>4. QED
    BY <2>2, <2>3
<1>3. \A n \in E \cup {x} \cup {k} : wait2[n][k]
  BY DEF Stays
<1>4. QED
  BY <1>1, <1>2, <1>3 DEF Stays

\* A node that probes in the test of k, or has been probed in it again, takes
\* part in it.
LEMMA TakesPartIn ==
  ASSUME NEW f, NEW k, NEW last, NEW par, TakesPart(f, k, last, par),
         f.pc \in {"again", "loop"}, f.at \in Node, last[k][k] > 0
  PROVE  f.at \in EngagedIn(k, last) \cup {k}
BY DEF TakesPart, EngagedIn

\* In a knot no handler of a test returns while the verdict is open.
LEMMA NothingReturns ==
  ASSUME DetectionTypeOK, TestNumbers, NEW t \in Task, Fresh(t),
         NEW d, OnChain(t, d), NEW S, S \subseteq Node, Knot(S),
         calls[t][1].k \in S, calls[t][1].pc = "loop",
         Stays(calls[t], d, calls[t][1].k, S,
               EngagedIn(calls[t][1].k, lastTest), waitStatus)
  PROVE  /\ ~EndStart(t)
         /\ ~(ReceiveProbe(t) /\ isActive[Top(t).at])
         /\ ~EndProbe(t) /\ ~EndAgain(t)
         /\ ~(AnswerAgain(t) /\ ~waitStatus[Top(t).at][Top(t).k])
         /\ ~(CheckAnswer(t) /\ ~waitStatus[Top(t).at][Top(t).k])
         /\ ~(CountDown(t) /\ ~LastAnswer(t))
         /\ ~ClearWait(t)
<1> DEFINE s == calls[t]
           n == Len(s)
           k == s[1].k
           E == EngagedIn(k, lastTest)
<1>1. /\ Shape(s, n, d) /\ Nodes(s, d, k, lastTest, parent)
      /\ n \in Nat /\ d \in 1 .. n /\ k \in Node /\ s[1].at = k
      /\ \A i \in 1 .. n : s[i].at \in Node
  BY TopOfChain DEF OnChain, Chain
<1>2. lastTest[k][k] > 0
  BY DEF Fresh
<1>3. Stays(s, d, k, S, E, waitStatus) /\ k \in S
  OBVIOUS
<1>4. ASSUME NEW i \in 1 .. d, s[i].pc \in {"again", "loop"}
      PROVE  waitStatus[s[i].at][k]
  <2> HIDE DEF s, n, k
  <2>1. TakesPart(s[i], k, lastTest, parent) /\ s[i].at \in Node
    BY <1>1 DEF Nodes
  <2>2. s[i].at \in E \cup {k}
    BY <1>2, <1>4, <2>1, TakesPartIn
  <2> HIDE DEF E
  <2>3. QED
    BY <1>3, <2>2 DEF Stays
<1>5. ~EndStart(t)
  <2>1. ASSUME EndStart(t)
        PROVE  FALSE
    <3>1. d = 1 /\ s[1].pc = "loop" /\ s[1].todo = {}
      BY <2>1, TestReturns
    <3> HIDE DEF s, n, k, E
    <3>2. waitingFrom[k] = {}
      BY <1>1, <1>3, <3>1 DEF Stays
    <3>3. QED
      BY <1>3, <3>2 DEF Knot
  <2>2. QED
    BY <2>1
<1>6. ASSUME \/ ReceiveProbe(t) /\ isActive[Top(t).at]
             \/ EndProbe(t) \/ EndAgain(t)
             \/ AnswerAgain(t) /\ ~waitStatus[Top(t).at][Top(t).k]
      PROVE  FALSE
  <2>1. /\ d > 1 /\ n = d
        /\ \/ s[d].pc = "hop" /\ isActive[s[d].to]
           \/ s[d].pc = "loop" /\ s[d].todo = {}
           \/ s[d].pc = "again" /\ ~waitStatus[s[d].at][k]
           \/ s[d].pc = "done"
    BY <1>6, ProbeReturns
  <2>2. d \in 2 .. d /\ d \in 1 .. d
    BY <1>1, <2>1
  <2> HIDE DEF s, k, E
  <2>3. s[d].to \in S
    BY <1>3, <2>2 DEF Stays
  <2>4. CASE s[d].pc = "hop" /\ isActive[s[d].to]
    BY <2>3, <2>4 DEF Knot
  <2>5. CASE s[d].pc = "loop" /\ s[d].todo = {}
    <3>1. s[d].at = s[d].to
      BY <1>1, <2>1, <2>2, <2>5 DEF Shape
    <3>2. waitingFrom[s[d].to] = {}
      BY <1>3, <2>5, <3>1 DEF Stays
    <3>3. QED
      BY <2>3, <3>2 DEF Knot
  <2>6. CASE s[d].pc = "again" /\ ~waitStatus[s[d].at][k]
    BY <1>4, <2>2, <2>6
  <2>7. CASE s[d].pc = "done"
    <3>1. d < n
      BY <1>3, <2>7 DEF Stays
    <3> HIDE DEF n
    <3>2. QED
      BY <1>1, <2>1, <3>1
  <2>8. QED
    BY <2>1, <2>4, <2>5, <2>6, <2>7
<1>7. ASSUME \/ CheckAnswer(t) /\ ~waitStatus[Top(t).at][Top(t).k]
             \/ CountDown(t) /\ ~LastAnswer(t)
      PROVE  FALSE
  <2> DEFINE j == 2 * d - n
  <2>1. j \in 1 .. d - 1 /\ (s[j].count >= 2 \/ ~waitStatus[s[j].at][k])
    BY <1>7, AnswerDropped
  <2> HIDE DEF s, n, k, E, j
  <2>2. s[j].count = 1 /\ s[j].pc = "loop" /\ j \in 1 .. d
    BY <1>1, <1>3, <2>1 DEF Stays, Shape, Probes
  <2>3. QED
    BY <1>4, <2>1, <2>2
<1>8. ~ClearWait(t)
  <2>1. ASSUME ClearWait(t)
        PROVE  FALSE
    <3>1. d < n /\ s[n].pc = "clear"
      BY <2>1, ChainClear
    <3>2. s[d].pc = "done"
      BY <1>1, <3>1 DEF Shape
    <3>3. s[n].pc # "clear"
      BY <1>3, <3>2 DEF Stays
    <3>4. QED
      BY <3>1, <3>3
  <2>2. QED
    BY <2>1
<1>9. QED
  BY <1>5, <1>6, <1>7, <1>8

\* The chain of a test that starts in knot S stays in it until the initiator
\* has logged its verdict.
StaysAt(s, d, S, last, wait, decl) ==
  LET k == s[1].k IN
    k \in S /\ s[1].pc = "loop" /\ << k, last[k][k] >> \notin decl =>
      Stays(s, d, k, S, EngagedIn(k, last), wait)

\* A step of the request of a test in a knot.
LEMMA StaysOfStep ==
  ASSUME SmallRing, DetectionTypeOK, TestNumbers, NEW t \in Task, Fresh(t),
         NEW d, OnChain(t, d), NEW S, S \subseteq Node, Knot(S),
         StaysAt(calls[t], d, S, lastTest, waitStatus, declared),
         RequestStep(t), ~Idle(t)'
  PROVE  \E e :
           /\ Chain(calls'[t], e, lastTest', parent', waitStatus', probeCount')
           /\ StaysAt(calls'[t], e, S, lastTest', waitStatus', declared')
<1> DEFINE s == calls[t]
           r == calls'[t]
           n == Len(s)
           k == s[1].k
           E == EngagedIn(k, lastTest)
           Goal == \E e :
             /\ Chain(r, e, lastTest', parent', waitStatus', probeCount')
             /\ StaysAt(r, e, S, lastTest', waitStatus', declared')
<1> SUFFICES Goal
  OBVIOUS
<1>1. /\ Shape(s, n, d) /\ n \in Nat /\ n >= 1 /\ d \in 1 .. n /\ k \in Node
      /\ s[1].at = k /\ s[1].fn = "start" /\ Top(t) = s[n] /\ d \in Nat /\ d >= 1
      /\ \A i \in 1 .. n : s[i].at \in Node
      /\ Nodes(s, d, k, lastTest, parent) /\ s[n].k = k
  <2>1. Shape(s, n, d) /\ Nodes(s, d, k, lastTest, parent)
    BY DEF OnChain, Chain
  <2>2. QED
    BY <2>1, TopOfChain
<1>2. CASE MarkTest(t)
  <2>1. /\ Chain(r, 1, lastTest', parent', waitStatus', probeCount')
        /\ r[1].pc = "read"
    BY <1>2, ChainMark
  <2>2. QED
    BY <2>1 DEF StaysAt
<1>3. CASE ReadTest(t)
  <2>1. n = 1 /\ d = 1 /\ Len(r) = 1
        /\ Chain(r, 1, lastTest', parent', waitStatus', probeCount')
    BY <1>3, ChainRead
  <2>2. /\ s[1].pc = "read" /\ r[1].pc = "loop" /\ r[1].k = k
        /\ r[1].todo = waitingFrom[r[1].at] /\ r[1].count = s[1].count
    BY <1>3, <2>1, EffectOfRead DEF Same
  <2>3. lastTest' = lastTest /\ waitStatus' = waitStatus
    BY <1>3 DEF ReadTest, probeVars
  <2>4. E = {} /\ waitStatus[k][k]
    <3>1. Engaged(k) = {} /\ waitStatus[k][k]
      BY <2>2 DEF Fresh
    <3>2. QED
      BY <3>1 DEF Engaged, EngagedIn
  <2>5. s[1].count = 0
    <3> HIDE DEF s, k, n
    <3>1. 1 \in 1 .. d
      BY <1>1
    <3>2. QED
      BY <1>1, <2>2, <3>1 DEF Nodes, TakesPart
  <2>6. Stays(r, 1, k, S, E, waitStatus)
    BY <2>2, <2>4, <2>5 DEF Stays
  <2>7. StaysAt(r, 1, S, lastTest', waitStatus', declared')
    <3> HIDE DEF r, k
    <3>1. QED
      BY <2>2, <2>3, <2>6 DEF StaysAt
  <2>8. QED
    BY <2>1, <2>7
\* The other steps leave the REST handler in its loop.
<1>4. CASE ~MarkTest(t) /\ ~ReadTest(t)
  <2>1. s[1].pc = "loop" /\ r[1].pc = "loop" /\ r[1].k = k
    BY <1>4, FirstGoesOn
  <2>2. declared \subseteq declared'
    BY NewVerdict
  <2> DEFINE Stay(e) ==
        /\ Chain(r, e, lastTest', parent', waitStatus', probeCount')
        /\ Stays(r, e, k, S, EngagedIn(k, lastTest'), waitStatus')
  <2> SUFFICES ASSUME k \in S, << k, lastTest[k][k] >> \notin declared
               PROVE  \/ \E e : Stay(e)
                      \/ << k, lastTest'[k][k] >> \in declared'
    <3>1. lastTest'[k][k] = lastTest[k][k]
      <4>1. CASE Engage(t)
        <5>1. /\ lastTest' = [lastTest EXCEPT
                    ![s[d].at][k] = lastTest[k][k]]
              /\ s[d].at \in Node
          BY <4>1, NodeEnters
        <5> HIDE DEF s, k
        <5>2. QED
          BY <1>1, <5>1 DEF DetectionTypeOK
      <4>2. CASE ~Engage(t)
        BY <1>4, <4>2 DEF RequestStep, SendProbe, EndStart, EndProbe,
           ReceiveProbe, TestProbe, AnswerAgain, EndAgain, ReceiveAnswer,
           CheckAnswer, CountDown, ClearWait, ForwardMessage, probeVars
      <4>3. QED
        BY <4>1, <4>2
    <3>2. PICK e : Chain(r, e, lastTest', parent', waitStatus', probeCount')
      BY ChainOfStep
    <3>3. ASSUME k \notin S \/ << k, lastTest[k][k] >> \in declared
                 \/ << k, lastTest'[k][k] >> \in declared'
          PROVE  Goal
      <4>1. StaysAt(r, e, S, lastTest', waitStatus', declared')
        <5> HIDE DEF r, k
        <5>1. QED
          BY <2>1, <2>2, <3>1, <3>3 DEF StaysAt
      <4>2. QED
        BY <3>2, <4>1
    <3>4. ASSUME NEW a, Stay(a)
          PROVE  Goal
      <4>1. StaysAt(r, a, S, lastTest', waitStatus', declared')
        <5> HIDE DEF r, k
        <5>1. QED
          BY <2>1, <3>4 DEF StaysAt
      <4>2. QED
        BY <3>4, <4>1
    <3> HIDE DEF Goal, Stay
    <3>5. QED
      BY <3>3, <3>4
  <2> DEFINE Open == \/ \E e : Stay(e)
                     \/ << k, lastTest'[k][k] >> \in declared'
  <2> HIDE DEF Goal
  <2>3. Stays(s, d, k, S, E, waitStatus)
    BY <2>1 DEF StaysAt
  <2>4. /\ ~EndStart(t)
        /\ ~(ReceiveProbe(t) /\ isActive[Top(t).at])
        /\ ~EndProbe(t) /\ ~EndAgain(t)
        /\ ~(AnswerAgain(t) /\ ~waitStatus[Top(t).at][Top(t).k])
        /\ ~(CheckAnswer(t) /\ ~waitStatus[Top(t).at][Top(t).k])
        /\ ~(CountDown(t) /\ ~LastAnswer(t))
        /\ ~ClearWait(t)
    BY <2>1, <2>3, NothingReturns
  <2>5. ASSUME NEW q \in Node, SendProbe(t, q)
        PROVE  Open
    <3>1. n = d /\ Chain(r, d + 1, lastTest', parent', waitStatus', probeCount')
      BY <2>5, ChainProbe
    <3>2. /\ s[d].pc = "loop" /\ Below(s, r, d) /\ Same(s[d], r[d])
          /\ r[d].count = s[d].count + 1 /\ q \in s[d].todo
          /\ r[d + 1].to = q /\ r[d + 1].pc = "hop"
          /\ lastTest' = lastTest /\ waitStatus' = waitStatus
      BY <2>5, <3>1, EffectOfSendProbe DEF SendProbe
    <3>3. s[d].at \in S
      <4> HIDE DEF s, n, E
      <4>1. CASE d = 1
        BY <1>1, <4>1 DEF k
      <4>2. CASE d > 1
        <5>1. d \in 2 .. d /\ d \in 1 .. d
          BY <1>1, <4>2
        <5>2. s[d].to \in S /\ s[d].at = s[d].to
          BY <1>1, <2>3, <3>2, <4>2, <5>1 DEF Stays, Shape
        <5>3. QED
          BY <5>2
      <4>3. QED
        BY <1>1, <4>1, <4>2
    <3> HIDE DEF s, r, n, k, E
    <3>4. q \in S
      BY <2>3, <3>2, <3>3 DEF Stays, Knot
    <3>5. Stays(r, d + 1, k, S, E, waitStatus)
      BY <1>1, <2>3, <3>2, <3>4, StaysProbe DEF Same
    <3>6. QED
      BY <3>1, <3>2, <3>5 DEF E
  <2>6. CASE \/ ReceiveProbe(t) /\ ~isActive[Top(t).at]
             \/ TestProbe(t)
             \/ ForwardMessage(t) /\ Top(t).fn = "probe"
    <3>1. /\ d > 1 /\ n = d /\ Below(s, r, d) /\ r[d].to = s[d].to
          /\ r[d].pc # "loop" /\ r[d].pc # "done"
          /\ lastTest' = lastTest /\ waitStatus' = waitStatus
          /\ Chain(r, d, lastTest', parent', waitStatus', probeCount')
      BY <2>6, ProbeMoves
    <3> HIDE DEF s, r, n, k, E
    <3>2. Stays(r, d, k, S, E, waitStatus)
      BY <1>1, <2>3, <3>1, StaysSame
    <3>3. QED
      BY <3>1, <3>2 DEF E
  <2>7. CASE Engage(t)
    <3>1. /\ n = d /\ Chain(r, d, lastTest', parent', waitStatus', probeCount')
      BY <2>7, ChainEngage
    <3>2. /\ s[d].pc = "engage" /\ Below(s, r, d) /\ r[d].pc = "loop"
          /\ r[d].at = s[d].at /\ r[d].to = s[d].to /\ r[d].count = s[d].count
          /\ r[d].todo = waitingFrom[s[d].at]
      BY <2>7, <3>1, EffectOfEngage DEF Same
    <3>3. /\ d > 1 /\ lastTest[s[d].at][k] < lastTest[k][k]
          /\ lastTest' = [lastTest EXCEPT ![s[d].at][k] = lastTest[k][k]]
          /\ waitStatus' = [waitStatus EXCEPT ![s[d].at][k] = TRUE]
          /\ s[d].at \in Node
      BY <2>7, NodeEnters
    <3> HIDE DEF s, r, n, k
    <3> DEFINE x == s[d].at
    <3>4. EngagedIn(k, lastTest') = E \cup {x}
      <4>1. lastTest[x][k] \in Nat /\ lastTest[k][k] \in Nat
        BY <1>1, <3>3 DEF DetectionTypeOK
      <4>2. x # k /\ lastTest[k][k] > 0
        BY <3>3, <4>1
      <4>3. /\ lastTest'[k][k] = lastTest[k][k] /\ lastTest'[x][k] = lastTest[k][k]
            /\ \A y \in Node \ {x} : lastTest'[y][k] = lastTest[y][k]
        BY <1>1, <3>3, <4>2 DEF DetectionTypeOK
      <4>4. x \in Node
        BY <3>3
      <4> HIDE DEF x
      <4>5. QED
        BY <4>2, <4>3, <4>4 DEF EngagedIn
    <3>5. r[d].count = 0
      <4>1. d \in 1 .. d
        BY <1>1
      <4>2. QED
        BY <1>1, <3>2, <4>1 DEF Nodes, TakesPart
    <3>6. /\ waitStatus'[x][k]
          /\ \A y \in E \cup {k} : waitStatus[y][k] => waitStatus'[y][k]
      <4>1. waitStatus \in [Node -> [Node -> BOOLEAN]] /\ E \cup {k} \subseteq Node
        BY <1>1 DEF DetectionTypeOK, EngagedIn
      <4>2. waitStatus' = [waitStatus EXCEPT ![x][k] = TRUE] /\ x \in Node
        BY <3>3
      <4> HIDE DEF x, E
      <4>3. waitStatus'[x][k]
        BY <1>1, <4>1, <4>2
      <4>4. ASSUME NEW y \in E \cup {k}, waitStatus[y][k]
            PROVE  waitStatus'[y][k]
        BY <1>1, <4>1, <4>2, <4>4
      <4>5. QED
        BY <4>3, <4>4
    <3> HIDE DEF E, x
    <3>7. Stays(r, d, k, S, E \cup {x}, waitStatus')
      BY <1>1, <2>3, <3>2, <3>3, <3>5, <3>6, StaysEngage DEF x
    <3>8. QED
      BY <3>1, <3>4, <3>7
\* The steps that take an answer on its way.
  <2>8. ASSUME d > 1, Below(s, r, d), r[d].to = s[d].to, r[d].pc = "done",
               d < Len(r), r[Len(r)].pc # "clear",
               lastTest' = lastTest, waitStatus' = waitStatus,
               Chain(r, d, lastTest', parent', waitStatus', probeCount')
        PROVE  Open
    <3> HIDE DEF s, r, n, k, E
    <3>1. Stays(r, d, k, S, E, waitStatus)
      BY <1>1, <2>3, <2>8, StaysSame
    <3>2. QED
      BY <2>8, <3>1 DEF E
  <2>9. CASE AnswerAgain(t) /\ waitStatus[Top(t).at][Top(t).k]
    <3>1. /\ d > 1 /\ Len(r) = d + 1 /\ Below(s, r, d)
          /\ r[d].to = s[d].to /\ r[d].pc = "done" /\ r[d + 1].pc = "hop"
          /\ Chain(r, d, lastTest', parent', waitStatus', probeCount')
      BY <2>9, ChainAnswer
    <3>2. lastTest' = lastTest /\ waitStatus' = waitStatus
      BY <2>9 DEF AnswerAgain, probeVars
    <3> HIDE DEF s, r, n, k, E
    <3>3. d < Len(r) /\ r[Len(r)].pc # "clear"
      BY <1>1, <3>1
    <3>4. QED
      BY <2>8, <3>1, <3>2, <3>3
\* A chain of which handlers of answers mirror the last handlers.
  <2>10. ASSUME d < n, Below(s, r, n)
         PROVE  d > 1 /\ Below(s, r, d) /\ r[d].to = s[d].to /\ r[d].pc = "done"
    <3>1. d > 1 /\ d \in 1 .. n - 1
      BY <1>1, <2>10 DEF Shape
    <3>2. \A i \in 1 .. d - 1 : i \in 1 .. n - 1
      BY <1>1, <3>1
    <3> HIDE DEF s, r, n
    <3>3. QED
      BY <1>1, <2>10, <3>1, <3>2 DEF Shape, Below
  <2>11. CASE \/ ReceiveAnswer(t)
              \/ CheckAnswer(t) /\ waitStatus[Top(t).at][Top(t).k]
              \/ ForwardMessage(t) /\ Top(t).fn # "probe"
    <3>1. \/ ReceiveAnswer(t) /\ ~isActive[Top(t).at]
          \/ CheckAnswer(t) /\ waitStatus[Top(t).at][Top(t).k]
          \/ ForwardMessage(t) /\ Top(t).fn = "answer"
      BY <2>11, AnswerIsTaken, ForwardedIsMessage
    <3>2. /\ d < n /\ Len(r) = n /\ Below(s, r, n) /\ r[n].pc # "clear"
          /\ lastTest' = lastTest /\ waitStatus' = waitStatus
          /\ Chain(r, d, lastTest', parent', waitStatus', probeCount')
      BY <3>1, AnswerMoves
    <3>3. d > 1 /\ Below(s, r, d) /\ r[d].to = s[d].to /\ r[d].pc = "done"
      BY <2>10, <3>2
    <3> HIDE DEF s, r, n, k, E
    <3>4. QED
      BY <2>8, <3>2, <3>3
  <2>12. CASE CountDown(t) /\ LastAnswer(t)
    <3>1. At(t, "answer", "countdown")
      BY <2>12 DEF CountDown
    <3>2. /\ d < n /\ 2 * d - n \in 1 .. d - 1 /\ Top(t).at = s[2 * d - n].at
          /\ Top(t).k = k
      BY <3>1, CountOfAnswer
    <3>3. /\ Below(s, r, n)
          /\ Len(r) = IF 2 * d - n = 1 THEN n ELSE n + 1
          /\ Len(r) = n + 1 => r[Len(r)].pc = "hop"
          /\ Chain(r, d, lastTest', parent', waitStatus', probeCount')
      BY <2>12, ChainResolve
    <3>4. /\ lastTest' = lastTest /\ waitStatus' = waitStatus
          /\ declared' = IF LastAnswer(t) /\ Top(t).k = Top(t).at
                           THEN declared \cup {<< Top(t).k, Top(t).m >>}
                           ELSE declared
      BY <2>12 DEF CountDown
    <3>5. CASE 2 * d - n = 1
      <4>1. Top(t).k = Top(t).at /\ Top(t).m = lastTest[k][k]
        <5>1. ~Idle(t) /\ Top(t).fn = "answer"
          BY <3>1 DEF At
        <5>2. Top(t).m = lastTest[k][k]
          BY <5>1, TopOfTest DEF TestFrame
        <5>3. Top(t).at = s[1].at
          BY <3>2, <3>5
        <5>4. QED
          BY <1>1, <3>2, <5>2, <5>3
      <4> HIDE DEF k
      <4>2. << k, lastTest'[k][k] >> \in declared'
        BY <2>12, <3>2, <3>4, <4>1
      <4>3. QED
        BY <4>2
    <3>6. CASE 2 * d - n # 1
      <4>1. d > 1 /\ Below(s, r, d) /\ r[d].to = s[d].to /\ r[d].pc = "done"
        BY <2>10, <3>2, <3>3
      <4> HIDE DEF s, r, n, k, E
      <4>2. d < Len(r) /\ r[Len(r)].pc # "clear"
        BY <1>1, <3>2, <3>3, <3>6
      <4>3. QED
        BY <2>8, <3>3, <3>4, <4>1, <4>2
    <3>7. QED
      BY <3>5, <3>6
  <2>13. QED
    BY StepKinds, <1>4, <2>4, <2>5, <2>6, <2>7, <2>9, <2>11, <2>12
<1>5. QED
  BY <1>2, <1>3, <1>4

\* A request ends with the return of its REST handler.
LEMMA EndOfRequest ==
  ASSUME DetectionTypeOK, TestNumbers, NEW t \in Task, RequestStep(t), ~Idle(t),
         Idle(t)'
  PROVE  EndStart(t)
<1> DEFINE s == calls[t]
           n == Len(s)
<1>1. /\ s \in Seq(DetectionFrame) /\ s # << >> /\ n \in Nat /\ n >= 1
      /\ calls \in [Task -> Seq(DetectionFrame)] /\ calls'[t] = << >>
  BY TopOfStack DEF DetectionTypeOK, Idle
<1>2. CASE Return(t)
  <2>1. Len(calls'[t]) = n - 1
    BY <1>2, EffectOfReturn
  <2>2. n = 1
    <3> HIDE DEF n
    <3>1. n - 1 = 0
      BY <1>1, <2>1
    <3>2. QED
      BY <1>1, <3>1
  <2>3. Top(t).fn = "start" /\ Top(t).pc # "hop"
    <3>1. ~(n > 1)
      BY <2>2
    <3>2. Top(t).fn = "start"
      BY <3>1, TopOfTest
    <3>3. Top(t).pc \in {"mark", "read", "loop"}
      BY <3>2, TopOfTest DEF RootFrame
    <3>4. QED
      BY <3>2, <3>3
  <2>4. \/ EndStart(t) \/ MarkTest(t) \/ ReadTest(t)
        \/ \E q \in Node : SendProbe(t, q)
    BY <2>3 DEF RequestStep, EndProbe, ReceiveProbe, TestProbe, Engage,
       AnswerAgain, EndAgain, ReceiveAnswer, CheckAnswer, CountDown, ClearWait,
       ForwardMessage, Forward, Received, At
  <2>5. ~MarkTest(t) /\ ~ReadTest(t) /\ ~\E q \in Node : SendProbe(t, q)
    <3>1. ASSUME NEW q \in Node, SendProbe(t, q)
          PROVE  FALSE
      <4>1. Len(calls'[t]) = n + 1
        BY <3>1, EffectOfSendProbe
      <4>2. QED
        BY <1>1, <4>1
    <3>2. ASSUME NEW f, Goto(t, f)
          PROVE  FALSE
      <4>1. calls'[t] = [s EXCEPT ![n] = f]
        BY <1>1, <3>2 DEF Goto
      <4>2. Len(calls'[t]) = n
        BY <1>1, <4>1
      <4>3. QED
        BY <1>1, <4>2
    <3>3. QED
      BY <3>1, <3>2 DEF MarkTest, ReadTest
  <2>6. QED
    BY <2>4, <2>5
<1>3. ASSUME NEW f, Goto(t, f)
      PROVE  FALSE
  <2>1. calls'[t] = [s EXCEPT ![n] = f]
    BY <1>1, <1>3 DEF Goto
  <2>2. Len(calls'[t]) = n
    BY <1>1, <2>1
  <2>3. QED
    BY <1>1, <2>2
<1>4. ASSUME NEW f, NEW g, Call(t, f, g)
      PROVE  FALSE
  <2> DEFINE w == [s EXCEPT ![n] = f]
  <2>1. calls'[t] = Append(w, g)
    BY <1>1, <1>4 DEF Call
  <2>2. w \in Seq(DetectionFrame \cup {f}) /\ Len(w) = n
    BY <1>1
  <2> HIDE DEF w
  <2>3. Len(Append(w, g)) = n + 1
    BY <2>2
  <2>4. QED
    BY <1>1, <2>1, <2>3
<1>5. \/ \E f : Goto(t, f)
      \/ \E f, g : Call(t, f, g)
      \/ Return(t)
  BY DEF RequestStep, MarkTest, ReadTest, SendProbe, EndStart, EndProbe,
     ReceiveProbe, TestProbe, Engage, AnswerAgain, EndAgain, ReceiveAnswer,
     CheckAnswer, CountDown, ClearWait, ForwardMessage, Forward
<1>6. QED
  BY <1>2, <1>3, <1>4, <1>5

\* Of the tests of a node in a knot only the current one has no verdict, and
\* only while its request runs.
OpenTests ==
  \A k \in Node : \A m \in 1 .. lastTest[k][k] :
    KnotDeadlocked(k) /\ << k, m >> \notin declared =>
      /\ m = lastTest[k][k]
      /\ \E t \in Task : ~Idle(t) /\ calls[t][1].k = k /\ calls[t][1].pc # "mark"

\* The chain of request t stays in knot S while its verdict is open.
StaysOnChain(t, S) ==
  \E d \in Nat :
    OnChain(t, d) /\ StaysAt(calls[t], d, S, lastTest, waitStatus, declared)

KnotChains ==
  \A S \in SUBSET Node : Knot(S) =>
    \A t \in Task : ~Idle(t) => StaysOnChain(t, S)

\* Whether a chain stays in a knot depends on its test only.
LEMMA StaysNext ==
  ASSUME UNCHANGED waitGraph, NEW t \in Task, NEW d, NEW S,
         Chain(calls'[t], d, lastTest', parent', waitStatus', probeCount'),
         StaysAt(calls'[t], d, S, lastTest', waitStatus', declared')
  PROVE  StaysOnChain(t, S)'
<1>1. OnChain(t, d)' /\ d \in Nat
  BY ChainNext
<1>2. isActive' = isActive /\ waitingFrom' = waitingFrom
  BY DEF waitGraph
<1>3. StaysAt(calls[t], d, S, lastTest, waitStatus, declared)'
  BY <1>2 DEF StaysAt, Stays
<1>4. QED
  BY <1>1, <1>3 DEF StaysOnChain

\* A knot's test does not end before its verdict.
LEMMA KnotTestGoesOn ==
  ASSUME DetectionTypeOK, TestNumbers, KnotChains, NEW t \in Task,
         At(t, "start", "loop"), Top(t).todo = {},
         KnotDeadlocked(calls[t][1].k)
  PROVE  LET k == calls[t][1].k IN << k, lastTest[k][k] >> \in declared
<1> DEFINE s == calls[t]
           k == s[1].k
<1>1. PICK S \in SUBSET Node : k \in S /\ Knot(S)
  BY DEF KnotDeadlocked, Knot
<1>2. PICK d \in Nat :
        OnChain(t, d) /\ StaysAt(s, d, S, lastTest, waitStatus, declared)
  BY <1>1 DEF KnotChains, StaysOnChain, At
<1>3. d = 1 /\ s[1].at = k /\ s[1].pc = "loop" /\ s[1].todo = {}
  <2>1. /\ Len(s) = 1 /\ d \in 1 .. Len(s) /\ Top(t) = s[Len(s)]
        /\ s[1].at = k
    BY <1>2, TopOfChain DEF At
  <2>2. QED
    BY <2>1 DEF At
<1>4. ASSUME << k, lastTest[k][k] >> \notin declared
      PROVE  FALSE
  <2>1. Stays(s, d, k, S, EngagedIn(k, lastTest), waitStatus)
    BY <1>1, <1>2, <1>3, <1>4 DEF StaysAt
  <2>2. waitingFrom[k] = {}
    <3> HIDE DEF s, k
    <3>1. QED
      BY <1>3, <2>1 DEF Stays
  <2>3. QED
    BY <1>1, <2>2 DEF Knot
<1>5. QED
  BY <1>4

\* A test of a node in a knot does not end without a verdict.
LEMMA OpenTestsStep ==
  ASSUME OneTestAtATime, SmallRing, DetectionTypeOK, TestNumbers, Chains,
         KnotChains, OpenTests, [DetectionNext]_detectionVars
  PROVE  OpenTests'
<1> SUFFICES ASSUME NEW k \in Node, NEW m \in 1 .. lastTest'[k][k],
                    KnotDeadlocked(k)', << k, m >> \notin declared'
             PROVE  /\ m = lastTest'[k][k]
                    /\ \E t \in Task : /\ ~Idle(t)' /\ calls'[t][1].k = k
                                       /\ calls'[t][1].pc # "mark"
  BY DEF OpenTests
<1> DEFINE Open == /\ m = lastTest'[k][k]
                   /\ \E t \in Task : /\ ~Idle(t)' /\ calls'[t][1].k = k
                                      /\ calls'[t][1].pc # "mark"
<1>1. UNCHANGED waitGraph /\ declared \subseteq declared'
  <2>1. CASE UNCHANGED detectionVars
    BY <2>1 DEF detectionVars
  <2>2. ASSUME NEW t \in Task, NEW n \in Initiator, StartDetection(t, n)
        PROVE  UNCHANGED waitGraph /\ declared \subseteq declared'
    BY <2>2 DEF StartDetection
  <2>3. ASSUME NEW t \in Task, RequestStep(t)
        PROVE  UNCHANGED waitGraph /\ declared \subseteq declared'
    BY <2>3, OthersKept, NewVerdict
  <2>4. QED
    BY <2>1, <2>2, <2>3 DEF DetectionNext
<1>2. KnotDeadlocked(k)
  BY <1>1 DEF waitGraph, KnotDeadlocked
\* The verdict was open before the step, unless the step begins the test.
<1>3. ASSUME m \in 1 .. lastTest[k][k]
      PROVE  /\ m = lastTest[k][k]
             /\ \E t \in Task : ~Idle(t) /\ calls[t][1].k = k
                                /\ calls[t][1].pc # "mark"
  BY <1>1, <1>2, <1>3 DEF OpenTests
<1>4. CASE UNCHANGED detectionVars
  <2>1. calls' = calls /\ lastTest' = lastTest
    BY <1>4 DEF detectionVars, probeVars
  <2>2. QED
    BY <1>3, <2>1 DEF Idle
<1>5. ASSUME NEW t \in Task, NEW n \in Initiator, StartDetection(t, n)
      PROVE  Open
  <2>1. /\ lastTest' = lastTest /\ Idle(t)
        /\ \A w \in Task \ {t} : calls'[w] = calls[w]
    BY <1>5, ChainStart DEF StartDetection, probeVars
  <2>2. PICK u \in Task : ~Idle(u) /\ calls[u][1].k = k /\ calls[u][1].pc # "mark"
    BY <1>3, <2>1
  <2>3. calls'[u] = calls[u]
    BY <2>1, <2>2
  <2>4. QED
    BY <1>3, <2>1, <2>2, <2>3 DEF Idle
<1>6. ASSUME NEW t \in Task, RequestStep(t)
      PROVE  Open
  <2>1. ~Idle(t) /\ \A w \in Task \ {t} : calls'[w] = calls[w]
    BY <1>6, OthersKept
  <2>2. PICK d \in Nat : OnChain(t, d)
    BY <2>1 DEF Chains
  <2>3. CASE calls[t][1].k # k
    <3>1. lastTest'[k][k] = lastTest[k][k]
      BY <1>6, <2>3, OthersKept
    <3>2. PICK u \in Task : ~Idle(u) /\ calls[u][1].k = k /\ calls[u][1].pc # "mark"
      BY <1>3, <3>1
    <3>3. calls'[u] = calls[u]
      BY <2>1, <2>3, <3>2
    <3>4. QED
      BY <1>3, <3>1, <3>2, <3>3 DEF Idle
  <2>4. CASE calls[t][1].k = k
    <3>1. ASSUME NEW u \in Task, ~Idle(u), calls[u][1].k = k
          PROVE  u = t
      BY <2>1, <2>4, <3>1 DEF TestNumbers
    <3>2. CASE MarkTest(t)
      <4>1. /\ lastTest' = [lastTest EXCEPT ![k][k] = @ + 1]
            /\ calls[t][1].pc = "mark"
            /\ Len(calls'[t]) = 1 /\ calls'[t][1].pc = "read"
            /\ Kept(calls[t][1], calls'[t][1])
        BY <2>2, <2>4, <3>2, ChainMark
      <4>2. lastTest'[k][k] = lastTest[k][k] + 1 /\ lastTest[k][k] \in Nat
        BY <4>1 DEF DetectionTypeOK
      <4>3. m = lastTest'[k][k]
        <5>1. ASSUME m # lastTest'[k][k]
              PROVE  FALSE
          <6>1. m \in 1 .. lastTest[k][k]
            BY <4>2, <5>1
          <6>2. QED
            BY <1>3, <3>1, <4>1, <6>1
        <5>2. QED
          BY <5>1
      <4>4. /\ ~Idle(t)' /\ calls'[t][1].k = k /\ calls'[t][1].pc # "mark"
        BY <2>4, <4>1 DEF Idle, Kept
      <4>5. QED
        BY <4>3, <4>4
    <3>3. CASE ~MarkTest(t)
      <4>1. lastTest'[k][k] = lastTest[k][k]
        <5>1. CASE Engage(t)
          <6>1. /\ lastTest' = [lastTest EXCEPT
                    ![calls[t][d].at][k] = lastTest[k][k]]
                /\ calls[t][d].at \in Node
            BY <2>2, <2>4, <5>1, NodeEnters
          <6>2. QED
            BY <6>1 DEF DetectionTypeOK
        <5>2. CASE ~Engage(t)
          BY <1>6, <3>3, <5>2 DEF RequestStep, ReadTest, SendProbe, EndStart,
             EndProbe, ReceiveProbe, TestProbe, AnswerAgain, EndAgain,
             ReceiveAnswer, CheckAnswer, CountDown, ClearWait, ForwardMessage,
             probeVars
        <5>3. QED
          BY <5>1, <5>2
      <4>2. m = lastTest[k][k]
        BY <1>3, <4>1
      <4>3. ~Idle(t)'
        <5>1. ASSUME Idle(t)'
              PROVE  FALSE
          <6>1. EndStart(t)
            BY <1>6, <2>1, <5>1, EndOfRequest
          <6>2. << k, lastTest[k][k] >> \in declared
            BY <1>2, <2>4, <6>1, KnotTestGoesOn DEF EndStart
          <6>3. QED
            BY <1>1, <4>2, <6>2
        <5>2. QED
          BY <5>1
      <4>4. calls'[t][1].k = k /\ calls'[t][1].pc # "mark"
        <5>1. CASE ReadTest(t)
          <6>1. /\ Len(calls[t]) = 1
                /\ LET n == Len(calls[t]) IN
                     calls'[t][n].k = calls[t][n].k /\ calls'[t][n].pc = "loop"
            BY <2>2, <5>1, ChainRead, EffectOfRead
          <6>2. QED
            BY <2>4, <6>1
        <5>2. CASE ~ReadTest(t)
          BY <1>6, <2>2, <2>4, <3>3, <4>3, <5>2, FirstGoesOn
        <5>3. QED
          BY <5>1, <5>2
      <4>5. QED
        BY <4>1, <4>2, <4>3, <4>4
    <3>4. QED
      BY <3>2, <3>3
  <2>5. QED
    BY <2>3, <2>4
<1>7. QED
  BY <1>4, <1>5, <1>6 DEF DetectionNext

\* Each step keeps the chains of a knot in the knot.
LEMMA KnotChainsStep ==
  ASSUME OneTestAtATime, SmallRing, DetectionTypeOK, TestNumbers, FreshTests,
         KnotChains, [DetectionNext]_detectionVars
  PROVE  KnotChains'
<1>2. UNCHANGED waitGraph
  <2>1. CASE UNCHANGED detectionVars
    BY <2>1 DEF detectionVars
  <2>2. ASSUME NEW t \in Task, NEW n \in Initiator, StartDetection(t, n)
        PROVE  UNCHANGED waitGraph
    BY <2>2 DEF StartDetection
  <2>3. ASSUME NEW t \in Task, RequestStep(t)
        PROVE  UNCHANGED waitGraph
    BY <2>3, OthersKept
  <2>4. QED
    BY <2>1, <2>2, <2>3 DEF DetectionNext
<1> SUFFICES ASSUME NEW S \in SUBSET Node, Knot(S),
                    NEW u \in Task, ~Idle(u)'
             PROVE  StaysOnChain(u, S)'
  BY <1>2 DEF KnotChains, Knot, waitGraph
<1>3. \A t \in Task : ~Idle(t) => StaysOnChain(t, S)
  BY DEF KnotChains
\* A request that takes no step keeps its chain.
<1>4. ASSUME UNCHANGED << probeVars, declared >>, calls'[u] = calls[u]
      PROVE  StaysOnChain(u, S)'
  <2>1. PICK d \in Nat :
          /\ OnChain(u, d)
          /\ StaysAt(calls[u], d, S, lastTest, waitStatus, declared)
    BY <1>3, <1>4 DEF StaysOnChain, Idle
  <2>2. /\ Chain(calls'[u], d, lastTest', parent', waitStatus', probeCount')
        /\ StaysAt(calls'[u], d, S, lastTest', waitStatus', declared')
    BY <1>4, <2>1 DEF OnChain, probeVars
  <2>3. QED
    BY <1>2, <2>2, StaysNext
<1>5. CASE UNCHANGED detectionVars
  BY <1>4, <1>5 DEF detectionVars
<1>6. ASSUME NEW t \in Task, NEW n \in Initiator, StartDetection(t, n)
      PROVE  StaysOnChain(u, S)'
  <2>1. UNCHANGED << probeVars, declared >>
    BY <1>6 DEF StartDetection
  <2>2. CASE u = t
    <3>1. /\ Chain(calls'[t], 1, lastTest', parent', waitStatus', probeCount')
          /\ calls'[t][1].pc = "mark"
      <4>1. /\ calls'[t] = << StartFrame(n) >>
            /\ Chain(calls'[t], 1, lastTest', parent', waitStatus', probeCount')
        BY <1>6, ChainStart
      <4>2. StartFrame(n).pc = "mark"
        BY DEF StartFrame
      <4>3. QED
        BY <4>1, <4>2
    <3>2. StaysAt(calls'[t], 1, S, lastTest', waitStatus', declared')
      BY <3>1 DEF StaysAt
    <3>3. QED
      BY <1>2, <2>2, <3>1, <3>2, StaysNext
  <2>3. CASE u # t
    BY <1>4, <1>6, <2>1, <2>3, ChainStart
  <2>4. QED
    BY <2>2, <2>3
<1>7. ASSUME NEW t \in Task, RequestStep(t)
      PROVE  StaysOnChain(u, S)'
  <2>1. ~Idle(t) /\ \A w \in Task \ {t} : calls'[w] = calls[w]
    BY <1>7, OthersKept
  <2>2. CASE u = t
    <3>1. PICK d \in Nat :
            /\ OnChain(t, d)
            /\ StaysAt(calls[t], d, S, lastTest, waitStatus, declared)
      BY <1>3, <2>1 DEF StaysOnChain
    <3>2. Fresh(t)
      BY <2>1 DEF FreshTests
    <3>3. PICK e :
            /\ Chain(calls'[t], e, lastTest', parent', waitStatus', probeCount')
            /\ StaysAt(calls'[t], e, S, lastTest', waitStatus', declared')
      BY <1>7, <2>2, <3>1, <3>2, StaysOfStep
    <3>4. QED
      BY <1>2, <2>2, <3>3, StaysNext
  <2>3. CASE u # t
    <3> DEFINE k == calls[u][1].k
    <3>1. calls'[u] = calls[u] /\ ~Idle(u)
      BY <2>1, <2>3 DEF Idle
    <3>2. PICK d \in Nat :
            /\ OnChain(u, d)
            /\ StaysAt(calls[u], d, S, lastTest, waitStatus, declared)
      BY <1>3, <3>1 DEF StaysOnChain
    <3>3. /\ k \in Node /\ k # calls[t][1].k
          /\ \A i \in 1 .. Len(calls[u]) : calls[u][i].at \in Node
      BY <2>1, <2>3, <3>1, <3>2, TopOfChain DEF TestNumbers
    <3>4. \A n \in Node :
            /\ lastTest'[n][k] = lastTest[n][k]
            /\ waitStatus'[n][k] = waitStatus[n][k]
            /\ parent'[n][k] = parent[n][k]
            /\ probeCount'[n][k] = probeCount[n][k]
      BY <1>7, <3>3, OthersKept
    <3>5. Chain(calls[u], d, lastTest', parent', waitStatus', probeCount')
      <4>1. Chain(calls[u], d, lastTest, parent, waitStatus, probeCount)
        BY <3>2 DEF OnChain
      <4>2. QED
        BY <3>3, <3>4, <4>1, ChainAgree
    <3>6. EngagedIn(k, lastTest') = EngagedIn(k, lastTest)
      BY <3>3, <3>4 DEF EngagedIn
    <3>7. /\ lastTest'[k][k] = lastTest[k][k] /\ declared \subseteq declared'
          /\ \A n \in EngagedIn(k, lastTest) \cup {k} :
               waitStatus'[n][k] = waitStatus[n][k]
      BY <1>7, <3>3, <3>4, NewVerdict DEF EngagedIn
    <3>8. StaysAt(calls[u], d, S, lastTest', waitStatus', declared')
      <4>1. StaysAt(calls[u], d, S, lastTest, waitStatus, declared)
        BY <3>2
      <4>2. QED
        BY <3>6, <3>7, <4>1 DEF StaysAt, Stays
    <3>9. QED
      BY <1>2, <3>1, <3>5, <3>8, StaysNext
  <2>4. QED
    BY <2>2, <2>3
<1>8. QED
  BY <1>5, <1>6, <1>7 DEF DetectionNext

\* A test of a node in a knot that start_detection has finished has logged the
\* deadlock, in whatever order the nodes probe each other.
THEOREM KnotsAreFound ==
  ASSUME OneTestAtATime, SmallRing
  PROVE  DetectionSpec => []KnotIsDeclared
<1>1. DetectionInit => FreshTests /\ KnotChains /\ OpenTests
  BY DEF DetectionInit, FreshTests, KnotChains, OpenTests, Idle
<1>2. DetectionTypeOK /\ TestNumbers /\ Chains /\ FreshTests
        /\ [DetectionNext]_detectionVars => FreshTests'
  BY FreshTestsStep
<1>3. DetectionTypeOK /\ TestNumbers /\ FreshTests /\ KnotChains
        /\ [DetectionNext]_detectionVars => KnotChains'
  BY KnotChainsStep
<1>4. DetectionTypeOK /\ TestNumbers /\ Chains /\ KnotChains /\ OpenTests
        /\ [DetectionNext]_detectionVars => OpenTests'
  BY OpenTestsStep
<1>5. TestNumbers /\ OpenTests => KnotIsDeclared
  <2> SUFFICES ASSUME TestNumbers, OpenTests, NEW k \in Node,
                      NEW m \in 1 .. lastTest[k][k], ~TestRuns(k),
                      KnotDeadlocked(k), << k, m >> \notin declared
               PROVE  FALSE
    BY DEF KnotIsDeclared, Finished
  <2>1. PICK t \in Task : ~Idle(t) /\ calls[t][1].k = k
    BY DEF OpenTests
  <2>2. calls[t][1].fn = "start"
    BY <2>1 DEF TestNumbers, OneTestStack, RootFrame, Idle
  <2>3. QED
    BY <2>1, <2>2 DEF TestRuns
<1>6. QED
  BY <1>1, <1>2, <1>3, <1>4, <1>5, RequestsAreChains, PTL DEF DetectionSpec

-----------------------------------------------------------------------------
(* Tests and changes of the waits (Cmh), for every ring, any waits and any *)
(* number of tests and of changes between them, as long as requests come   *)
(* one after the other.  A request is then a test, during which the waits  *)
(* stay as they are, or a change, during which what the nodes keep of      *)
(* tests stays as it is.  What a test leaves behind is no more than the    *)
(* theorems above allow at the start: numbers that no later test has.      *)

\* Requests come one after the other.
OneTask == \A t, u \in Task : t = u

\* What the nodes keep between requests.
TablesOK ==
  /\ isActive \in [Node -> BOOLEAN]
  /\ waitingFrom \in [Node -> SUBSET Node]
  /\ permissionQueue \in [Node -> SUBSET Node]
  /\ lastTest \in [Node -> [Node -> Nat]]
  /\ waitStatus \in [Node -> [Node -> BOOLEAN]]
  /\ parent \in [Node -> [Node -> Node \cup {NoNode}]]
  /\ probeCount \in [Node -> [Node -> 0 .. CountModulus - 1]]
  /\ declared \in SUBSET (Node \X Nat)
  /\ \A n, k \in Node : lastTest[n][k] <= lastTest[k][k]
  /\ VerdictsBegun

\* A test runs, or nothing.
Tests ==
  /\ DetectionTypeOK
  /\ TestNumbers
  /\ OneVerdict
  /\ FreshTests
  /\ SoundChains
  /\ KnotChains

\* A request that changes waits or states runs, or nothing.
Changes ==
  /\ calls \in [Task -> Seq(P!PermissionFrame)]
  /\ \A t \in Task : ~Idle(t) => calls[t][1].fn \in {"wait", "setActive"}

CmhInv ==
  /\ TablesOK
  /\ \A k \in knotted : KnotDeadlocked(k)
  /\ Tests \/ Changes

-----------------------------------------------------------------------------
(* Between requests.                                                       *)

\* When no request runs either kind may begin.
LEMMA NothingRuns ==
  ASSUME TablesOK, Tests \/ Changes, \A t \in Task : Idle(t)
  PROVE  Tests /\ Changes
<1>1. calls \in [Task -> {<< >>}]
  BY DEF Tests, DetectionTypeOK, Changes, Idle
<1>2. /\ calls \in [Task -> Seq(DetectionFrame)]
      /\ calls \in [Task -> Seq(P!PermissionFrame)]
  <2>1. \A F : {<< >>} \subseteq Seq(F)
    OBVIOUS
  <2>2. \A F : calls \in [Task -> Seq(F)]
    BY <1>1, <2>1
  <2>3. QED
    BY <2>2
<1>3. Changes
  BY <1>2 DEF Changes
<1>4. DetectionTypeOK
  BY <1>2 DEF DetectionTypeOK, TablesOK
<1>5. TestNumbers
  BY DEF TestNumbers, OneTestStack, TablesOK, Idle
<1>6. OneVerdict /\ FreshTests /\ SoundChains /\ KnotChains
  BY DEF OneVerdict, FreshTests, SoundChains, KnotChains, TablesOK
<1>7. QED
  BY <1>3, <1>4, <1>5, <1>6 DEF Tests

-----------------------------------------------------------------------------
(* Tests.                                                                  *)

\* A step of a test leaves a test.
LEMMA TestGoesOn ==
  ASSUME OneTestAtATime, SmallRing, TablesOK, Tests,
         [DetectionNext]_detectionVars, UNCHANGED permissionQueue
  PROVE  TablesOK' /\ Tests'
<1>1. Chains
  BY DEF Tests, OneVerdict, Chains
<1>2. /\ DetectionTypeOK' /\ TestNumbers' /\ OneVerdict' /\ FreshTests'
      /\ SoundChains' /\ KnotChains'
  BY <1>1, DetectionTypeStep, TestNumbersStep, OneVerdictStep, FreshTestsStep,
     SoundChainsStep, KnotChainsStep DEF Tests
<1>3. TablesOK'
  BY <1>2 DEF TablesOK, DetectionTypeOK, TestNumbers, OneVerdict
<1>4. QED
  BY <1>2, <1>3 DEF Tests

\* The only step of a change that a handler of a test could take is to send
\* its message on.
LEMMA TestsOnly ==
  ASSUME DetectionTypeOK, NEW t \in Task, P!PermissionStep(t),
         UNCHANGED << probeVars, declared >>
  PROVE  RequestStep(t) /\ UNCHANGED permissionQueue
<1>1. ~Idle(t) /\ Top(t).fn \in {"start", "probe", "answer"}
  <2>1. ~Idle(t)
    BY DEF P!PermissionStep, P!BecomePassive, P!RequestPermission,
       P!PermissionGranted, P!Resume, P!PermissionDenied, P!ReceiveRequest,
       P!QueueRequest, P!BecomeActive, P!ClearWaits, P!ListWaiters,
       P!SendGrant, P!EndSetActive, P!ReceiveGrant, P!TestLastGrant,
       P!EndGrant, P!ForwardPermission, P!Forward, P!Received, P!At, P!Idle,
       Idle
  <2>2. Top(t) \in DetectionFrame
    BY <2>1, TopIsFrame DEF DetectionTypeOK
  <2>3. QED
    BY <2>1, <2>2 DEF DetectionFrame
<1>2. P!ForwardPermission(t)
  BY <1>1 DEF P!PermissionStep, P!BecomePassive, P!RequestPermission,
     P!PermissionGranted, P!Resume, P!PermissionDenied, P!ReceiveRequest,
     P!QueueRequest, P!BecomeActive, P!ClearWaits, P!ListWaiters,
     P!SendGrant, P!EndSetActive, P!ReceiveGrant, P!TestLastGrant,
     P!EndGrant, P!Received, P!At, P!Top, Top
<1>3. Forward(t)
  BY <1>2 DEF P!ForwardPermission, P!Forward, P!Idle, P!Top, P!Goto,
     Forward, Idle, Top, Goto
<1>4. QED
  BY <1>2, <1>3 DEF P!ForwardPermission, RequestStep, ForwardMessage, waitGraph

-----------------------------------------------------------------------------
(* Changes.                                                                *)

\* The request of a change that is still the same one, or has ended.
LEMMA SameChange ==
  ASSUME Changes, NEW t \in Task, ~Idle(t),
         calls' \in [Task -> Seq(P!PermissionFrame)],
         \A u \in Task \ {t} : calls'[u] = calls[u],
         calls'[t] = << >> \/ calls'[t][1].fn = calls[t][1].fn
  PROVE  Changes'
BY DEF Changes, Idle

\* A stack has one frame, or a first frame below the one that executes.
LEMMA LengthOfChange ==
  ASSUME Changes, NEW t \in Task, ~Idle(t)
  PROVE  /\ calls[t] \in Seq(P!PermissionFrame) /\ Len(calls[t]) \in Nat
         /\ \/ Len(calls[t]) = 1
            \/ Len(calls[t]) > 1 /\ 1 \in 1 .. Len(calls[t]) - 1
<1> DEFINE n == Len(calls[t])
<1>1. calls[t] \in Seq(P!PermissionFrame) /\ n \in Nat
  BY DEF Changes
<1>2. n = 1 \/ n > 1
  BY <1>1, OneOrMore DEF Idle
<1> HIDE DEF n
<1>3. n > 1 => 1 \in 1 .. n - 1
  BY <1>1
<1>4. QED
  BY <1>1, <1>2, <1>3 DEF n

\* What the operations of Calls leave of a change.
LEMMA ChangeMoves ==
  ASSUME Changes, NEW t \in Task, ~Idle(t), NEW f \in P!PermissionFrame,
         Goto(t, f), f.fn = Top(t).fn
  PROVE  Changes'
<1>1. /\ calls' \in [Task -> Seq(P!PermissionFrame)]
      /\ Len(calls'[t]) = Len(calls[t])
      /\ \A i \in 1 .. Len(calls[t]) - 1 : calls'[t][i] = calls[t][i]
      /\ calls'[t][Len(calls[t])] = f
      /\ \A u \in Task \ {t} : calls'[u] = calls[u]
  BY GotoEffect DEF Changes
<1>2. Len(calls[t]) = 1 \/ 1 \in 1 .. Len(calls[t]) - 1
  BY LengthOfChange
<1>3. calls'[t][1].fn = calls[t][1].fn
  BY <1>1, <1>2 DEF Top
<1>4. QED
  BY <1>1, <1>3, SameChange

LEMMA ChangeCalls ==
  ASSUME Changes, NEW t \in Task, ~Idle(t), NEW f \in P!PermissionFrame,
         NEW g \in P!PermissionFrame, Call(t, f, g), f.fn = Top(t).fn
  PROVE  Changes'
<1>1. /\ calls' \in [Task -> Seq(P!PermissionFrame)]
      /\ \A i \in 1 .. Len(calls[t]) - 1 : calls'[t][i] = calls[t][i]
      /\ calls'[t][Len(calls[t])] = f
      /\ \A u \in Task \ {t} : calls'[u] = calls[u]
  BY CallEffect DEF Changes
<1>2. Len(calls[t]) = 1 \/ 1 \in 1 .. Len(calls[t]) - 1
  BY LengthOfChange
<1>3. calls'[t][1].fn = calls[t][1].fn
  BY <1>1, <1>2 DEF Top
<1>4. QED
  BY <1>1, <1>3, SameChange

LEMMA ChangeReturns ==
  ASSUME Changes, NEW t \in Task, ~Idle(t), Return(t)
  PROVE  Changes'
<1>1. /\ calls' \in [Task -> Seq(P!PermissionFrame)]
      /\ Len(calls'[t]) = Len(calls[t]) - 1
      /\ \A i \in 1 .. Len(calls[t]) - 1 : calls'[t][i] = calls[t][i]
      /\ \A u \in Task \ {t} : calls'[u] = calls[u]
  BY ReturnEffect DEF Changes
<1>2. CASE Len(calls[t]) = 1
  <2>1. calls'[t] = << >>
    BY <1>1, <1>2
  <2>2. QED
    BY <1>1, <2>1, SameChange
<1>3. CASE 1 \in 1 .. Len(calls[t]) - 1
  BY <1>1, <1>3, SameChange
<1>4. QED
  BY <1>2, <1>3, LengthOfChange

\* A request for permission is not the first frame, and is answered to its
\* caller.
LEMMA ChangeAnswers ==
  ASSUME Changes, NEW t \in Task, ~Idle(t), Top(t).fn = "request",
         NEW pc \in {"granted", "denied"}, P!ReplyToRequest(t, pc)
  PROVE  Changes'
<1> DEFINE n == Len(calls[t])
           f == [Caller(t) EXCEPT !.pc = pc]
<1>1. n \in Nat /\ calls[t] \in Seq(P!PermissionFrame)
  BY LengthOfChange
<1>2. n > 1
  <2>1. n # 1
    BY DEF Changes, Top
  <2>2. QED
    BY <2>1, LengthOfChange
<1>3. Caller(t) \in P!PermissionFrame /\ Caller(t) = calls[t][n - 1]
  BY <1>1, <1>2 DEF Caller
<1>4. f \in P!PermissionFrame /\ f.fn = Caller(t).fn
  BY <1>3 DEF P!PermissionFrame
<1>5. ReturnTo(t, f)
  BY DEF P!ReplyToRequest, P!ReturnTo, P!Caller, ReturnTo, Caller
<1> HIDE DEF f
<1>6. /\ calls' \in [Task -> Seq(P!PermissionFrame)]
      /\ \A i \in 1 .. n - 2 : calls'[t][i] = calls[t][i]
      /\ calls'[t][n - 1] = f
      /\ \A u \in Task \ {t} : calls'[u] = calls[u]
  BY <1>2, <1>4, <1>5, ReturnToEffect DEF Changes
<1>7. calls'[t][1].fn = calls[t][1].fn
  <2> HIDE DEF n
  <2>1. CASE n - 1 = 1
    BY <1>3, <1>4, <1>6, <2>1
  <2>2. CASE n - 1 # 1
    <3>1. 1 \in 1 .. n - 2
      BY <1>1, <1>2, <2>2
    <3>2. QED
      BY <1>6, <3>1
  <2>3. QED
    BY <2>1, <2>2
<1>8. QED
  BY <1>6, <1>7, SameChange

\* What the nodes keep besides the calls.
Waiting ==
  /\ isActive \in [Node -> BOOLEAN]
  /\ waitingFrom \in [Node -> SUBSET Node]
  /\ permissionQueue \in [Node -> SUBSET Node]

\* A step of a change leaves a change.
LEMMA ChangeGoesOn ==
  ASSUME Waiting, Changes, NEW t \in Task, P!PermissionStep(t)
  PROVE  Waiting' /\ Changes'
<1> USE DEF Waiting, P!At, P!Idle, P!Top
<1> DEFINE f == Top(t)
           Moved(pc) == [f EXCEPT !.pc = pc]
<1>1. ASSUME ~Idle(t)
      PROVE  f \in P!PermissionFrame /\ f.at \in Node /\ f.peer \in Node
  <2>1. f \in P!PermissionFrame
    BY <1>1, TopIsFrame DEF Changes
  <2>2. QED
    BY <2>1 DEF P!PermissionFrame
<1>2. ASSUME ~Idle(t), NEW pc \in {"send", "resume", "queue", "clear", "test"},
             P!Goto(t, Moved(pc))
      PROVE  Changes'
  <2>1. /\ Moved(pc) \in P!PermissionFrame /\ Moved(pc).fn = Top(t).fn
        /\ Goto(t, Moved(pc))
    BY <1>1, <1>2 DEF P!PermissionFrame, P!Goto, Goto
  <2> HIDE DEF Moved, f
  <2>2. QED
    BY <1>2, <2>1, ChangeMoves
<1>3. ASSUME ~Idle(t), P!Return(t)
      PROVE  Changes'
  <2>1. Return(t)
    BY <1>3 DEF P!Return, Return
  <2>2. QED
    BY <1>3, <2>1, ChangeReturns
<1>4. CASE P!BecomePassive(t)
  <2>1. ~Idle(t) /\ P!Goto(t, Moved("send"))
    BY <1>4 DEF P!BecomePassive, Idle, Top
  <2>2. Waiting'
    BY <1>4 DEF P!BecomePassive
  <2>3. QED
    BY <1>2, <2>1, <2>2
<1>5. CASE P!RequestPermission(t)
  <2> DEFINE g == P!PermissionMessage("request", f.at, f.peer)
  <2>1. ~Idle(t) /\ P!Call(t, Moved("reply"), g)
    BY <1>5 DEF P!RequestPermission, Idle, Top
  <2>2. f \in P!PermissionFrame /\ f.at \in Node /\ f.peer \in Node
    BY <1>1, <2>1
  <2>3. /\ Moved("reply") \in P!PermissionFrame /\ Moved("reply").fn = Top(t).fn
        /\ g \in P!PermissionFrame /\ Call(t, Moved("reply"), g)
    BY <2>1, <2>2, RingAssumption
       DEF P!PermissionFrame, P!PermissionMessage, P!Call, Call
  <2>4. Waiting'
    BY <1>5, <2>2 DEF P!RequestPermission, Top
  <2> HIDE DEF Moved, f, g
  <2>5. QED
    BY <2>1, <2>3, <2>4, ChangeCalls
<1>6. CASE P!PermissionGranted(t)
  <2>1. ~Idle(t) /\ P!Goto(t, Moved("resume"))
    BY <1>6 DEF P!PermissionGranted, Idle, Top
  <2>2. Waiting'
    BY <1>6 DEF P!PermissionGranted
  <2>3. QED
    BY <1>2, <2>1, <2>2
<1>7. CASE P!Resume(t) \/ P!PermissionDenied(t) \/ P!EndSetActive(t) \/ P!EndGrant(t)
  <2>1. ~Idle(t) /\ P!Return(t)
    BY <1>7 DEF P!Resume, P!PermissionDenied, P!EndSetActive, P!EndGrant, Idle
  <2>2. Waiting'
    BY <1>7 DEF P!Resume, P!PermissionDenied, P!EndSetActive, P!EndGrant
  <2>3. QED
    BY <1>3, <2>1, <2>2
<1>8. CASE P!ReceiveRequest(t)
  <2>1. /\ ~Idle(t) /\ f.fn = "request"
        /\ P!ReplyToRequest(t, "granted") \/ P!Goto(t, Moved("queue"))
    BY <1>8 DEF P!ReceiveRequest, P!Received, Idle, Top
  <2>2. Waiting'
    BY <1>8 DEF P!ReceiveRequest
  <2>3. QED
    BY <1>2, <2>1, <2>2, ChangeAnswers
<1>9. CASE P!QueueRequest(t)
  <2>1. ~Idle(t) /\ f.fn = "request" /\ P!ReplyToRequest(t, "denied")
    BY <1>9 DEF P!QueueRequest, Idle, Top
  <2>2. f.peer \in Node
    BY <1>1, <2>1
  <2>3. Waiting'
    BY <1>9, <2>2 DEF P!QueueRequest, Top
  <2>4. QED
    BY <2>1, <2>3, ChangeAnswers
<1>10. CASE P!BecomeActive(t)
  <2>1. ~Idle(t) /\ P!Goto(t, Moved("clear"))
    BY <1>10 DEF P!BecomeActive, Idle, Top
  <2>2. Waiting'
    BY <1>10 DEF P!BecomeActive
  <2>3. QED
    BY <1>2, <2>1, <2>2
<1>11. CASE P!ClearWaits(t) \/ P!ListWaiters(t)
  <2> DEFINE g == [f EXCEPT !.pc = "loop", !.todo = permissionQueue[f.at]]
  <2>1. /\ ~Idle(t)
        /\ P!Goto(t, [f EXCEPT !.pc = "list"]) \/ P!Goto(t, g)
    BY <1>11 DEF P!ClearWaits, P!ListWaiters, Idle, Top
  <2>2. f \in P!PermissionFrame /\ f.at \in Node
    BY <1>1, <2>1
  <2>3. /\ Moved("list") \in P!PermissionFrame /\ Moved("list").fn = Top(t).fn
        /\ g \in P!PermissionFrame /\ g.fn = Top(t).fn
        /\ Goto(t, Moved("list")) \/ Goto(t, g)
    BY <2>1, <2>2 DEF P!PermissionFrame, P!Goto, Goto
  <2>4. Waiting'
    BY <1>11 DEF P!ClearWaits, P!ListWaiters
  <2> HIDE DEF Moved, f, g
  <2>5. QED
    BY <2>1, <2>3, <2>4, ChangeMoves
<1>12. ASSUME NEW n \in Node, P!SendGrant(t, n)
       PROVE  Waiting' /\ Changes'
  <2> DEFINE g == P!PermissionMessage("grant", f.at, n)
             h == [f EXCEPT !.todo = @ \ {n}]
  <2>1. ~Idle(t) /\ P!Call(t, h, g)
    BY <1>12 DEF P!SendGrant, Idle, Top
  <2>2. f \in P!PermissionFrame /\ f.at \in Node
    BY <1>1, <2>1
  <2>3. /\ h \in P!PermissionFrame /\ h.fn = Top(t).fn
        /\ g \in P!PermissionFrame /\ Call(t, h, g)
    BY <2>1, <2>2, RingAssumption
       DEF P!PermissionFrame, P!PermissionMessage, P!Call, Call
  <2>4. Waiting'
    BY <1>12 DEF P!SendGrant
  <2> HIDE DEF f, g, h
  <2>5. QED
    BY <2>1, <2>3, <2>4, ChangeCalls
<1>13. CASE P!ReceiveGrant(t)
  <2>1. ~Idle(t) /\ P!Goto(t, Moved("test"))
    BY <1>13 DEF P!ReceiveGrant, P!Received, Idle, Top
  <2>2. Waiting'
    BY <1>13 DEF P!ReceiveGrant
  <2>3. QED
    BY <1>2, <2>1, <2>2
<1>14. CASE P!TestLastGrant(t)
  <2> DEFINE g == P!SetActiveFrame(f.at)
  <2>1. ~Idle(t) /\ (P!Return(t) \/ P!Call(t, Moved("done"), g))
    BY <1>14 DEF P!TestLastGrant, Idle, Top
  <2>2. f \in P!PermissionFrame /\ f.at \in Node
    BY <1>1, <2>1
  <2>3. Waiting'
    BY <1>14 DEF P!TestLastGrant
  <2>4. ASSUME P!Call(t, Moved("done"), g)
        PROVE  Changes'
    <3>1. /\ Moved("done") \in P!PermissionFrame /\ Moved("done").fn = Top(t).fn
          /\ g \in P!PermissionFrame /\ Call(t, Moved("done"), g)
      BY <2>2, <2>4 DEF P!PermissionFrame, P!SetActiveFrame, P!Call, Call
    <3> HIDE DEF Moved, f, g
    <3>2. QED
      BY <2>1, <3>1, ChangeCalls
  <2>5. QED
    BY <1>3, <2>1, <2>3, <2>4
<1>15. CASE P!ForwardPermission(t)
  <2> DEFINE g == [f EXCEPT !.at = Succ[@]]
  <2>1. ~Idle(t) /\ P!Goto(t, g)
    BY <1>15 DEF P!ForwardPermission, P!Forward, Idle, Top
  <2>2. f \in P!PermissionFrame /\ Succ[f.at] \in Node
    BY <1>1, <2>1, RingAssumption
  <2>3. g \in P!PermissionFrame /\ g.fn = Top(t).fn /\ Goto(t, g)
    BY <2>1, <2>2 DEF P!PermissionFrame, P!Goto, Goto
  <2>4. Waiting'
    BY <1>15 DEF P!ForwardPermission
  <2> HIDE DEF f, g
  <2>5. QED
    BY <2>1, <2>3, <2>4, ChangeMoves
<1>16. QED
  BY <1>4, <1>5, <1>6, <1>7, <1>8, <1>9, <1>10, <1>11, <1>12, <1>13, <1>14,
     <1>15 DEF P!PermissionStep

\* A handler of a change takes a step of a test only to send its message on.
LEMMA ChangesOnly ==
  ASSUME Changes, NEW t \in Task, RequestStep(t)
  PROVE  Changes' /\ UNCHANGED << waitGraph, probeVars, declared >>
<1>1. ~Idle(t)
  BY DEF RequestStep, MarkTest, ReadTest, SendProbe, EndStart, EndProbe,
     ReceiveProbe, TestProbe, Engage, AnswerAgain, EndAgain, ReceiveAnswer,
     CheckAnswer, CountDown, ClearWait, ForwardMessage, Forward, Received, At
<1>2. Top(t) \in P!PermissionFrame
  BY <1>1, TopIsFrame DEF Changes
<1>3. Top(t).fn \notin {"start", "probe", "answer"} /\ Top(t).at \in Node
  BY <1>2 DEF P!PermissionFrame
<1>4. ForwardMessage(t)
  BY <1>3 DEF RequestStep, MarkTest, ReadTest, SendProbe, EndStart, EndProbe,
     ReceiveProbe, TestProbe, Engage, AnswerAgain, EndAgain, ReceiveAnswer,
     CheckAnswer, CountDown, ClearWait, Received, At
<1> DEFINE f == [Top(t) EXCEPT !.at = Succ[@]]
<1>5. f \in P!PermissionFrame /\ f.fn = Top(t).fn
  <2>1. Succ[Top(t).at] \in Node
    BY <1>3, RingAssumption
  <2>2. QED
    BY <1>2, <2>1 DEF P!PermissionFrame
<1>6. Goto(t, f)
  BY <1>4 DEF ForwardMessage, Forward
<1> HIDE DEF f
<1>7. Changes'
  BY <1>1, <1>5, <1>6, ChangeMoves
<1>8. QED
  BY <1>4, <1>7 DEF ForwardMessage

\* The operator asks for a change when nothing runs.
LEMMA ChangeBegins ==
  ASSUME OneTask, TablesOK, Tests \/ Changes, NEW t \in Task, StartChange(t)
  PROVE  Waiting' /\ Changes'
<1>1. Waiting
  BY DEF TablesOK, Waiting
<1>2. Idle(t)
  BY DEF StartChange, P!StartWait, P!StartSetActive, P!Idle, Idle
<1>3. Changes
  BY <1>2, NothingRuns DEF OneTask
<1>4. ASSUME NEW f \in P!PermissionFrame, P!Begin(t, f),
             f.fn \in {"wait", "setActive"}
      PROVE  Changes'
  <2>1. Begin(t, f)
    BY <1>4 DEF P!Begin, Begin
  <2>2. /\ calls' \in [Task -> Seq(P!PermissionFrame)]
        /\ calls'[t] = << f >>
        /\ \A u \in Task \ {t} : calls'[u] = calls[u]
    BY <1>3, <2>1, BeginEffect DEF Changes
  <2>3. QED
    BY <1>3, <1>4, <2>2 DEF Changes, Idle
<1>5. ASSUME NEW w \in Waits, P!StartWait(t, w[1], w[2])
      PROVE  Waiting' /\ Changes'
  <2>1. w[1] \in Node /\ w[2] \in Node
    BY CmhAssumption
  <2>2. /\ P!WaitFrame(w[1], w[2]) \in P!PermissionFrame
        /\ P!WaitFrame(w[1], w[2]).fn = "wait"
    BY <2>1 DEF P!WaitFrame, P!PermissionFrame
  <2>3. QED
    BY <1>1, <1>4, <1>5, <2>2 DEF P!StartWait, Waiting
<1>6. ASSUME NEW n \in Node, P!StartSetActive(t, n)
      PROVE  Waiting' /\ Changes'
  <2>1. /\ P!SetActiveFrame(n) \in P!PermissionFrame
        /\ P!SetActiveFrame(n).fn = "setActive"
    BY DEF P!SetActiveFrame, P!PermissionFrame
  <2>2. QED
    BY <1>1, <1>4, <1>6, <2>1 DEF P!StartSetActive, Waiting
<1>7. ASSUME NEW n \in Node, P!SetPassive(n)
      PROVE  Waiting' /\ Changes'
  BY <1>1, <1>3, <1>7 DEF P!SetPassive, Waiting, Changes, Idle
<1>8. QED
  BY <1>5, <1>6, <1>7 DEF StartChange

-----------------------------------------------------------------------------
(* The inductive invariant.                                                *)

LEMMA CmhInitInv == CmhInit => CmhInv
<1> SUFFICES ASSUME CmhInit
             PROVE  CmhInv
  OBVIOUS
<1>1. DetectionInit /\ P!PermissionInit /\ knotted = {}
  BY DEF CmhInit
<1>2. DetectionTypeOK
  BY <1>1, DetectionInitType
<1>3. permissionQueue \in [Node -> SUBSET Node]
  BY <1>1 DEF P!PermissionInit
<1>4. declared = {} /\ \A n, k \in Node : lastTest[n][k] = 0
  BY <1>1 DEF DetectionInit
<1>5. TablesOK
  BY <1>2, <1>3, <1>4 DEF TablesOK, DetectionTypeOK, VerdictsBegun
<1>6. \A t \in Task : Idle(t)
  BY <1>1 DEF DetectionInit, Idle
<1>7. calls \in [Task -> {<< >>}]
  BY <1>1 DEF DetectionInit
<1>8. Changes
  <2>1. {<< >>} \subseteq Seq(P!PermissionFrame)
    OBVIOUS
  <2>2. QED
    BY <1>6, <1>7, <2>1 DEF Changes
<1>9. QED
  BY <1>1, <1>5, <1>8 DEF CmhInv

\* The waits of a lasting knot are those of a knot.
LEMMA LastingIsKnot ==
  ASSUME Observe
  PROVE  \A k \in knotted' : KnotDeadlocked(k)'
BY DEF Observe, KnotLasts, KnotDeadlocked

LEMMA CmhStepInv ==
  ASSUME OneTask, OneTestAtATime, SmallRing, CmhInv, [CmhNext]_cmhVars
  PROVE  CmhInv'
<1> USE DEF CmhInv
<1>1. CASE UNCHANGED cmhVars
  <2>1. UNCHANGED << calls, isActive, waitingFrom, lastTest, waitStatus,
                     parent, probeCount, declared, permissionQueue, knotted >>
    BY <1>1 DEF cmhVars, detectionVars, waitGraph, probeVars
  <2>2. TablesOK'
    BY <2>1 DEF TablesOK, VerdictsBegun
  <2>3. \A k \in knotted' : KnotDeadlocked(k)'
    BY <2>1 DEF KnotDeadlocked
  <2>4. CASE Tests
    <3>1. [DetectionNext]_detectionVars
      BY <1>1 DEF cmhVars
    <3>2. Tests'
      BY <2>1, <2>4, <3>1, TestGoesOn
    <3>3. QED
      BY <2>2, <2>3, <3>2
  <2>5. CASE Changes
    <3>1. Changes'
      BY <2>1, <2>5 DEF Changes, Idle
    <3>2. QED
      BY <2>2, <2>3, <3>1
  <2>6. QED
    BY <2>4, <2>5
<1>2. ASSUME NEW t \in Task, StartChange(t)
      PROVE  TablesOK' /\ (Tests \/ Changes)'
  <2>1. Waiting' /\ Changes'
    BY <1>2, ChangeBegins
  <2>2. UNCHANGED << probeVars, declared >>
    BY <1>2 DEF StartChange
  <2>3. QED
    BY <2>1, <2>2 DEF TablesOK, Waiting, VerdictsBegun, probeVars
<1>3. ASSUME NEW t \in Task, StartTest(t)
      PROVE  TablesOK' /\ (Tests \/ Changes)'
  <2>1. PICK n \in Initiator : StartDetection(t, n)
    BY <1>3 DEF StartTest
  <2>2. Tests
    BY <2>1, NothingRuns DEF StartDetection, OneTask
  <2>3. DetectionNext /\ UNCHANGED permissionQueue
    BY <1>3, <2>1 DEF DetectionNext, StartTest
  <2>4. QED
    BY <2>2, <2>3, TestGoesOn
<1>4. ASSUME NEW t \in Task, CmhStep(t)
      PROVE  TablesOK' /\ (Tests \/ Changes)'
  <2>1. CASE Tests
    <3>1. RequestStep(t) /\ UNCHANGED permissionQueue
      BY <1>4, <2>1, TestsOnly DEF CmhStep, Tests
    <3>2. QED
      BY <2>1, <3>1, TestGoesOn DEF DetectionNext
  <2>2. CASE Changes
    <3>1. Waiting
      BY DEF TablesOK, Waiting
    <3>2. Waiting' /\ Changes' /\ UNCHANGED << probeVars, declared >>
      <4>1. CASE RequestStep(t) /\ UNCHANGED permissionQueue
        BY <2>2, <3>1, <4>1, ChangesOnly DEF Waiting, waitGraph
      <4>2. CASE P!PermissionStep(t) /\ UNCHANGED << probeVars, declared >>
        BY <2>2, <3>1, <4>2, ChangeGoesOn
      <4>3. QED
        BY <1>4, <4>1, <4>2 DEF CmhStep
    <3>3. QED
      BY <3>2 DEF TablesOK, Waiting, VerdictsBegun, probeVars
  <2>3. QED
    BY <2>1, <2>2
<1>5. QED
  BY <1>1, <1>2, <1>3, <1>4, LastingIsKnot DEF CmhNext

\* The tables and the two kinds of requests.
LEMMA CmhAlways ==
  ASSUME OneTask, OneTestAtATime, SmallRing
  PROVE  CmhSpec => []CmhInv
<1>1. CmhInv /\ [CmhNext]_cmhVars => CmhInv'
  BY CmhStepInv
<1>2. QED
  BY <1>1, CmhInitInv, PTL DEF CmhSpec

-----------------------------------------------------------------------------
(* What follows.                                                           *)

\* A change has no handler of a test.
LEMMA NoHandler ==
  ASSUME Changes, NEW t \in Task, NEW fn \in {"start", "answer"}, NEW pc
  PROVE  ~At(t, fn, pc)
<1>1. ASSUME ~Idle(t)
      PROVE  Top(t) \in P!PermissionFrame
  BY <1>1, TopIsFrame DEF Changes
<1>2. QED
  BY <1>1 DEF At, P!PermissionFrame

\* A node that logs DEADLOCK DETECTED in handle_probe_answer waits on or towards
\* a cycle at that moment: what the tests of earlier waits have left in
\* last_test, wait_status, parent_nodes and probe_count raises no false alarm.
THEOREM VerdictsHold ==
  ASSUME OneTask, OneTestAtATime, SmallRing
  PROVE  CmhSpec => []VerdictIsDeadlock
<1>1. CmhInv => VerdictIsDeadlock
  <2> SUFFICES ASSUME CmhInv, NEW t \in Task, Verdict(t)
               PROVE  CycleDeadlocked(Top(t).at)
    BY DEF VerdictIsDeadlock
  <2>1. At(t, "answer", "countdown") /\ LastAnswer(t) /\ Top(t).k = Top(t).at
    BY DEF Verdict, LastAnswer
  <2>2. Tests
    BY <2>1, NoHandler DEF CmhInv
  <2>3. PICK d \in Nat : OnSoundChain(t, d)
    BY <2>1, <2>2 DEF Tests, SoundChains, At
  <2>4. QED
    BY <2>1, <2>2, <2>3, LastIsSound DEF OnSoundChain, Tests
<1>2. QED
  BY <1>1, CmhAlways, PTL

\* A test of a node in a knot logs the deadlock before start_detection returns,
\* whatever earlier tests and waits have left behind.
THEOREM LastingKnotsAreFound ==
  ASSUME OneTask, OneTestAtATime, SmallRing
  PROVE  CmhSpec => []LastingKnotIsDeclared
<1>1. CmhInv => LastingKnotIsDeclared
  <2> SUFFICES ASSUME CmhInv, NEW t \in Task, At(t, "start", "loop"),
                      Top(t).todo = {}, Top(t).at \in knotted
               PROVE  << Top(t).at, Top(t).m >> \in declared
    BY DEF LastingKnotIsDeclared
  <2>1. Tests
    BY NoHandler DEF CmhInv
  <2>2. Len(calls[t]) = 1 /\ Top(t) = calls[t][1]
    BY <2>1, TopOfTest DEF Tests, At, Top
  <2>3. RootFrame(Top(t), lastTest[Top(t).k][Top(t).k])
    BY <2>1, <2>2 DEF Tests, TestNumbers, OneTestStack, At, Idle
  <2>4. /\ Top(t).at = calls[t][1].k
        /\ Top(t).m = lastTest[calls[t][1].k][calls[t][1].k]
    BY <2>2, <2>3 DEF RootFrame, At
  <2>5. KnotDeadlocked(calls[t][1].k)
    BY <2>4 DEF CmhInv
  <2>6. QED
    BY <2>1, <2>4, <2>5, KnotTestGoesOn DEF Tests
<1>2. QED
  BY <1>1, CmhAlways, PTL

\* No test logs the deadlock twice, whatever earlier tests have left behind.
THEOREM OneVerdictWhileWaitsChange ==
  ASSUME OneTask, OneTestAtATime, SmallRing
  PROVE  CmhSpec => []OneVerdictPerTest
<1>1. CmhInv => OneVerdictPerTest
  <2>1. Tests => OneVerdictPerTest
    BY OpenVerdict DEF Tests
  <2>2. Changes => OneVerdictPerTest
    BY NoHandler DEF OneVerdictPerTest, LastAnswer
  <2>3. QED
    BY <2>1, <2>2 DEF CmhInv
<1>2. QED
  BY <1>1, CmhAlways, PTL
=============================================================================
