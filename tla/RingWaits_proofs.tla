-------------------------- MODULE RingWaits_proofs --------------------------
(***************************************************************************)
(* Theorems about RingWaits: its types, and that no node of the ring       *)
(* depends on a missing node once missing_node has come round, for a ring  *)
(* in any state.  The steps of Ring are those of Ring_proofs.              *)
(***************************************************************************)
EXTENDS RingWaits, Ring_proofs

-----------------------------------------------------------------------------
(* Frames.                                                                 *)

\* The frames of a request of RingWaits, in which there is no query of Ring, and
\* whose messages only nodes of A handle.
WaitsFrames(A) ==
  {f \in {g \in RingFrame : g.fn # "query"} \cup WaitFrame :
     \A k \in 2 .. Len(f.path) : f.path[k] \in A}

\* Only nodes of A are reached.
ReachesOnly(A) == \A n, o \in Node : Reaches(n, o) => o \in A

WaitPcs == {"reply", "granted", "denied", "lost", "loop", "done", "send",
            "deliver", "receive", "failed", "repaired"}

LEMMA WaitsFrameSet ==
  ASSUME NEW A \in SUBSET Node, ReachesOnly(A)
  PROVE  FrameSet(WaitsFrames(A))
<1>1. ASSUME NEW f \in WaitFrame, NEW pc \in MessagePcs, NEW a \in Node,
             NEW o \in Node, NEW p \in Seq(Node)
      PROVE  /\ Continues(WaitFrame, f, Moved(f, pc), pc, f.at, f.path)
             /\ Continues(WaitFrame, f, Copied(f, pc, o), pc, f.at, f.path)
             /\ Continues(WaitFrame, f, Sent(f, a, pc, p), pc, a, p)
             /\ Continues(WaitFrame, f, SentBack(f, a, pc, o, p), pc, a, p)
  <2>1. f.fn \notin ResourceFns
    BY DEF WaitFrame, ResourceFns, RequestFns
  <2>2. ASSUME NEW g, g.fn = f.fn
        PROVE  SameMessage(f, g)
    BY <2>1, <2>2 DEF SameMessage
  <2>3. LET g == Moved(f, pc)
        IN  /\ g \in WaitFrame
            /\ g.pc = pc /\ g.at = f.at /\ g.path = f.path /\ g.fn = f.fn
    BY DEF WaitFrame, MessagePcs, Moved
  <2>4. LET g == Copied(f, pc, o)
        IN  /\ g \in WaitFrame
            /\ g.pc = pc /\ g.at = f.at /\ g.path = f.path /\ g.fn = f.fn
    BY DEF WaitFrame, MessagePcs, Copied
  <2>5. LET g == Sent(f, a, pc, p)
        IN  /\ g \in WaitFrame
            /\ g.pc = pc /\ g.at = a /\ g.path = p /\ g.fn = f.fn
    BY DEF WaitFrame, MessagePcs, Sent
  <2>6. LET g == SentBack(f, a, pc, o, p)
        IN  /\ g \in WaitFrame
            /\ g.pc = pc /\ g.at = a /\ g.path = p /\ g.fn = f.fn
    BY DEF WaitFrame, MessagePcs, SentBack
  <2>7. QED
    BY <2>2, <2>3, <2>4, <2>5, <2>6 DEF Continues
<1>2. \A f \in WaitFrame :
        /\ f.at \in Node /\ f.from \in Node /\ f.next \in Node
        /\ f.path \in Seq(Node)
        /\ f.fn \notin {"join", "joining", "leave", "leaving", "missing", "query"}
        /\ f.pc \notin {"call", "install", "enter", "repair", "copy", "tell",
                       "alone", "forget", "unlink", "relink", "linked"}
  BY DEF WaitFrame
<1>3. \A n, o \in Node : Reaches(n, o) => o \in A
  BY DEF ReachesOnly
<1> DEFINE F == WaitsFrames(A)
<1>4. F = {f \in {g \in RingFrame : g.fn # "query"} \cup WaitFrame :
             \A k \in 2 .. Len(f.path) : f.path[k] \in A}
  BY DEF WaitsFrames
<1> HIDE DEF F
<1>5. FrameSet(F)
  BY <1>1, <1>2, <1>3, <1>4, FrameSetWith
<1>6. QED
  BY <1>5 DEF F

\* A frame that goes on in the same function.
LEMMA WaitGoes ==
  ASSUME NEW A \in SUBSET Node, NEW f \in WaitsFrames(A), f \in WaitFrame,
         NEW g \in WaitFrame, g.fn = f.fn, g.path = f.path
  PROVE  g \in WaitsFrames(A) /\ SameMessage(f, g)
<1>1. /\ f.fn \notin ResourceFns
      /\ \A k \in 2 .. Len(f.path) : f.path[k] \in A
  BY DEF WaitFrame, ResourceFns, RequestFns, WaitsFrames
<1>2. QED
  BY <1>1 DEF WaitsFrames, SameMessage

LEMMA WaitMoves ==
  ASSUME NEW A \in SUBSET Node, NEW f \in WaitsFrames(A), f \in WaitFrame,
         NEW pc \in WaitPcs
  PROVE  LET g == Moved(f, pc) IN
           /\ g \in WaitsFrames(A) /\ g \in WaitFrame /\ SameMessage(f, g)
           /\ g.pc = pc /\ g.fn = f.fn /\ g.path = f.path
<1> DEFINE g == Moved(f, pc)
<1>1. g \in WaitFrame /\ g.pc = pc /\ g.fn = f.fn /\ g.path = f.path
  BY DEF Moved, WaitFrame, WaitPcs
<1> HIDE DEF g
<1>2. g \in WaitsFrames(A) /\ SameMessage(f, g)
  BY <1>1, WaitGoes
<1>3. QED
  BY <1>1, <1>2 DEF g

\* A new frame.
LEMMA NewWaitsFrame ==
  ASSUME NEW A \in SUBSET Node, NEW fn \in {"wait", "request", "grant", "setActive"},
         NEW pc \in {"reply", "loop", "send"}, NEW n \in Node, NEW o \in Node,
         NEW todo \in SUBSET Node, fn \in {"wait", "setActive"} => pc # "send"
  PROVE  LET f == WaitsFrame(fn, pc, n, o, todo) IN
           /\ f \in WaitsFrames(A) /\ f \in WaitFrame /\ FrameForm(f)
           /\ f.fn = fn /\ f.pc = pc
<1> DEFINE f == WaitsFrame(fn, pc, n, o, todo)
<1>1. << n >> \in Seq(Node) /\ Len(<< n >>) = 1 /\ 1 >= 1
      /\ \A k \in 2 .. Len(<< n >>) : FALSE
  OBVIOUS
<1>2. f \in WaitFrame /\ f.fn = fn /\ f.pc = pc /\ f.path = << n >>
  BY <1>1 DEF WaitsFrame, WaitFrame
<1> HIDE DEF f
<1>3. FrameForm(f)
  BY <1>1, <1>2 DEF FrameForm, RequestFns, MessageFns, MessagePcs
<1>4. f \in WaitsFrames(A)
  BY <1>1, <1>2 DEF WaitsFrames
<1>5. QED
  BY <1>2, <1>3, <1>4 DEF f
-----------------------------------------------------------------------------
(* The state of a request, and of the nodes.                               *)

WaitsOK ==
  /\ isActive \in [Node -> BOOLEAN]
  /\ waitingFrom \in [Node -> SUBSET Node]
  /\ permissionQueue \in [Node -> SUBSET Node]

\* A state in which a request takes a step.
ReadyToWait(A) == ReachesOnly(A) /\ Ready(WaitsFrames(A)) /\ WaitsOK

\* The executing frame does not look up, send or repair.
Calm(f) ==
  f.pc \notin {"deliver", "failed", "repair", "enter", "forget", "unlink",
               "relink", "linked", "tell"}

\* What a step of t about the waits keeps.
KeptWaits(A, t) ==
  /\ Formed(WaitsFrames(A), t)
  /\ UNCHANGED << info, alive, clients >>
  /\ WaitsOK'
  /\ Idle(t)' \/ Calm(Top(t)')

\* What is known of the executing frame of a request about waits.
LEMMA WaitsTop ==
  ASSUME NEW A \in SUBSET Node, ReadyToWait(A), NEW t \in Task, ~Idle(t)
  PROVE  LET f == Top(t) IN
           /\ f \in WaitsFrames(A) /\ FrameForm(f)
           /\ calls \in [Task -> Seq(WaitsFrames(A))] /\ Forms
           /\ f.fn \in {"wait", "request", "grant", "setActive"} =>
                /\ f \in WaitFrame
                /\ f.at \in Node /\ f.from \in Node /\ f.to \in Node
                /\ f.path \in Seq(Node) /\ f.todo \in SUBSET Node
<1>1. calls \in [Task -> Seq(WaitsFrames(A))] /\ Forms
  BY DEF ReadyToWait, Ready
<1>2. Top(t) \in WaitsFrames(A) /\ FrameForm(Top(t))
  BY <1>1, TopIsFrame, TopForm
<1>3. Top(t).fn \in {"wait", "request", "grant", "setActive"} => Top(t) \in WaitFrame
  BY <1>2 DEF WaitsFrames, RingFrame
<1>4. QED
  BY <1>1, <1>2, <1>3 DEF WaitFrame

\* A message that has reached its node is answered, or sent on.
LEMMA SendOnKeeps ==
  ASSUME NEW A \in SUBSET Node, ReadyToWait(A), NEW t \in Task, ~Idle(t),
         Top(t).fn \in {"request", "grant"}, Top(t).pc = "receive", SendOn(t)
  PROVE  Formed(WaitsFrames(A), t) /\ Calm(Top(t)')
<1> DEFINE f == Top(t)
           g == Moved(f, "send")
           F == WaitsFrames(A)
<1>1. /\ f \in F /\ FrameForm(f) /\ f \in WaitFrame
      /\ calls \in [Task -> Seq(F)] /\ Forms
  BY WaitsTop
<1>2. Goto(t, g)
  BY DEF SendOn, Moved
<1>3. g \in F /\ SameMessage(f, g) /\ g.pc = "send" /\ g.fn = f.fn /\ g.path = f.path
  BY <1>1, WaitMoves DEF WaitPcs
<1> HIDE DEF g, F
<1>4. FrameForm(g)
  BY <1>1, <1>3 DEF FrameForm, RequestFns, MessageFns, MessagePcs
<1>5. Formed(F, t) /\ Top(t)' = g
  BY <1>1, <1>2, <1>3, <1>4, FormedByGoto
<1>6. QED
  BY <1>3, <1>5 DEF F, Calm

\* A message that is answered, or lost, was sent by a wait.
LEMMA ReplyToWait ==
  ASSUME NEW A \in SUBSET Node, ReadyToWait(A), NEW t \in Task, ~Idle(t),
         Top(t).fn = "request", NEW answer \in {"granted", "denied", "lost"},
         Reply(t, answer)
  PROVE  Formed(WaitsFrames(A), t) /\ Calm(Top(t)')
<1> DEFINE f == Top(t)
           c == Caller(t)
           g == Moved(c, answer)
           F == WaitsFrames(A)
<1>1. f \in F /\ calls \in [Task -> Seq(F)] /\ Forms
  BY WaitsTop
<1>2. f.fn \notin FirstFns
  BY DEF FirstFns, RequestFns
<1>3. Len(calls[t]) > 1 /\ c.fn = "wait" /\ FrameForm(c) /\ c \in F
  BY <1>1, <1>2, TopForm DEF CallsOf
<1>4. c \in WaitFrame
  BY <1>3 DEF WaitsFrames, RingFrame
<1>5. ReturnTo(t, g)
  BY DEF Reply, Moved
<1> HIDE DEF c
<1>6. g \in F /\ SameMessage(c, g) /\ g.pc = answer /\ g.fn = c.fn /\ g.path = c.path
  BY <1>3, <1>4, WaitMoves DEF WaitPcs
<1> HIDE DEF g, F
<1>7. FrameForm(g)
  BY <1>3, <1>6 DEF FrameForm, RequestFns, MessageFns, MessagePcs
<1>8. Formed(F, t) /\ Top(t)' = g
  BY <1>1, <1>3, <1>5, <1>6, <1>7, FormedByReturnTo DEF c
<1>9. QED
  BY <1>3, <1>6, <1>8 DEF F, Calm

LEMMA ReturnIsCalm ==
  ASSUME NEW A \in SUBSET Node, ReadyToWait(A), NEW t \in Task, ~Idle(t), Return(t)
  PROVE  Formed(WaitsFrames(A), t) /\ (Idle(t)' \/ Calm(Top(t)'))
<1> DEFINE n == Len(calls[t])
           F == WaitsFrames(A)
<1>1. /\ calls \in [Task -> Seq(F)] /\ Forms
  BY WaitsTop
<1> HIDE DEF F
<1>2. Formed(F, t)
  BY <1>1, KeptByReturn DEF Kept
<1>3. /\ calls' \in [Task -> Seq(F)]
      /\ Len(calls'[t]) = n - 1
      /\ \A i \in 1 .. n - 1 : calls'[t][i] = calls[t][i]
  BY <1>1, ReturnEffect
<1>4. /\ calls'[t] \in Seq(F) /\ n \in Nat /\ n >= 1 /\ StackForm(calls[t])
  BY <1>1, <1>3, TopAgain DEF Forms
<1>5. ASSUME ~Idle(t)'
      PROVE  Calm(Top(t)')
  <2>1. calls'[t] # << >> /\ Top(t)' = calls'[t][n - 1]
    BY <1>3, <1>5 DEF Idle, Top
  <2>2. n - 1 # 0
    <3>1. Len(calls'[t]) # 0
      BY <1>4, <2>1
    <3>2. QED
      BY <1>3, <3>1
  <2> HIDE DEF n
  <2>3. n - 1 \in 1 .. n - 1 /\ n - 1 \in 1 .. n /\ n - 1 < n
    BY <1>4, <2>2
  <2>4. Awaits(calls[t][n - 1])
    BY <1>4, <2>3 DEF StackForm, n
  <2>5. QED
    BY <1>3, <2>1, <2>3, <2>4 DEF Awaits, Calm
<1>6. QED
  BY <1>2, <1>5 DEF F
-----------------------------------------------------------------------------
(* The steps of RingWaits.                                                 *)

LEMMA StartWaitKeeps ==
  ASSUME NEW A \in SUBSET Node, ReadyToWait(A), NEW t \in Task, NEW n \in Node,
         NEW o \in Node, StartWait(t, n, o)
  PROVE  KeptWaits(A, t)
<1> DEFINE f == WaitsFrame("wait", "reply", n, o, {})
           g == Message("request", n, o)
           F == WaitsFrames(A)
           s == << f, g >>
<1>1. /\ calls' = [calls EXCEPT ![t] = s]
      /\ UNCHANGED << info, alive, clients, permissionQueue >>
      /\ isActive' = [isActive EXCEPT ![n] = FALSE]
      /\ waitingFrom' = [waitingFrom EXCEPT ![n] = @ \cup {o}]
  BY DEF StartWait
<1>2. {} \in SUBSET Node
  OBVIOUS
<1>3. f \in F /\ FrameForm(f) /\ f.fn = "wait" /\ f.pc = "reply"
  BY <1>2, NewWaitsFrame
<1>4. g \in F /\ FrameForm(g) /\ g.fn = "request" /\ g.pc = "send"
  BY <1>2, NewWaitsFrame DEF Message
<1> HIDE DEF f, g, F
<1>5. /\ s \in Seq(F) /\ Len(s) = 2 /\ s[1] = f /\ s[2] = g
      /\ \A i \in 1 .. 2 : i = 1 \/ (i = 2 /\ i - 1 = 1)
  BY <1>3, <1>4
<1> HIDE DEF s
<1>6. StackForm(s)
  <2>1. FrameForm(s[1]) /\ s[1].fn \in FirstFns /\ Awaits(s[1])
    BY <1>3, <1>5 DEF FirstFns, Awaits
  <2>2. FrameForm(s[2]) /\ CallsOf(s[1], s[2])
    BY <1>3, <1>4, <1>5 DEF CallsOf, FirstFns, RequestFns
  <2>3. QED
    BY <1>5, <2>1, <2>2 DEF StackForm
<1>7. calls \in [Task -> Seq(F)]
  BY DEF ReadyToWait, Ready, F
<1>8. Formed(F, t) /\ Top(t)' = g
  BY <1>1, <1>5, <1>6, <1>7 DEF Formed, Top
<1>9. WaitsOK'
  BY <1>1 DEF ReadyToWait, WaitsOK
<1>10. QED
  BY <1>1, <1>4, <1>8, <1>9 DEF KeptWaits, Calm, F

LEMMA ReceiveRequestKeeps ==
  ASSUME NEW A \in SUBSET Node, ReadyToWait(A), NEW t \in Task, ReceiveRequest(t)
  PROVE  KeptWaits(A, t)
<1> DEFINE f == Top(t)
<1>1. /\ ~Idle(t) /\ f.fn = "request" /\ f.pc = "receive"
      /\ UNCHANGED << info, alive, clients, isActive, waitingFrom >>
      /\ \/ UNCHANGED permissionQueue
         \/ permissionQueue' = [permissionQueue EXCEPT ![f.at] = @ \cup {f.from}]
      /\ SendOn(t) \/ Reply(t, "granted") \/ Reply(t, "denied")
  BY DEF ReceiveRequest, At
<1>2. f.at \in Node /\ f.from \in Node
  BY <1>1, WaitsTop
<1>3. Formed(WaitsFrames(A), t) /\ Calm(Top(t)')
  BY <1>1, SendOnKeeps, ReplyToWait
<1>4. WaitsOK'
  BY <1>1, <1>2 DEF ReadyToWait, WaitsOK
<1>5. QED
  BY <1>1, <1>3, <1>4 DEF KeptWaits

LEMMA EndWaitKeeps ==
  ASSUME NEW A \in SUBSET Node, ReadyToWait(A), NEW t \in Task, EndWait(t)
  PROVE  KeptWaits(A, t)
<1> DEFINE f == Top(t)
<1>1. /\ ~Idle(t) /\ f.fn = "wait" /\ Return(t)
      /\ UNCHANGED << info, alive, clients, permissionQueue >>
      /\ \/ UNCHANGED << isActive, waitingFrom >>
         \/ /\ waitingFrom' = [waitingFrom EXCEPT ![f.at] = @ \ {f.to}]
            /\ isActive' = [isActive EXCEPT ![f.at] = TRUE]
  BY DEF EndWait
<1>2. f.at \in Node
  BY <1>1, WaitsTop
<1> HIDE DEF f
<1>3. WaitsOK'
  <2>1. CASE UNCHANGED << isActive, waitingFrom >>
    BY <1>1, <2>1 DEF ReadyToWait, WaitsOK
  <2>2. CASE /\ waitingFrom' = [waitingFrom EXCEPT ![f.at] = @ \ {f.to}]
             /\ isActive' = [isActive EXCEPT ![f.at] = TRUE]
    <3>1. waitingFrom' \in [Node -> SUBSET Node]
      BY <1>2, <2>2 DEF ReadyToWait, WaitsOK
    <3>2. isActive' \in [Node -> BOOLEAN]
      BY <1>2, <2>2 DEF ReadyToWait, WaitsOK
    <3>3. QED
      BY <1>1, <3>1, <3>2 DEF ReadyToWait, WaitsOK
  <2>3. QED
    BY <1>1, <2>1, <2>2
<1>4. QED
  BY <1>1, <1>3, ReturnIsCalm DEF KeptWaits

LEMMA StartSetActiveKeeps ==
  ASSUME NEW A \in SUBSET Node, ReadyToWait(A), NEW t \in Task, NEW n \in Node,
         StartSetActive(t, n)
  PROVE  KeptWaits(A, t)
<1> DEFINE f == WaitsFrame("setActive", "loop", n, n, permissionQueue[n])
<1>1. /\ Begin(t, f) /\ UNCHANGED << info, alive, clients, permissionQueue >>
      /\ isActive' = [isActive EXCEPT ![n] = TRUE]
      /\ waitingFrom' = [waitingFrom EXCEPT ![n] = {}]
  BY DEF StartSetActive, BecomeActive
<1>2. permissionQueue[n] \in SUBSET Node
  BY DEF ReadyToWait, WaitsOK
<1>3. f \in WaitsFrames(A) /\ FrameForm(f) /\ f.fn = "setActive" /\ f.pc = "loop"
  BY <1>2, NewWaitsFrame
<1> HIDE DEF f
<1>4. Formed(WaitsFrames(A), t) /\ Top(t)' = f
  <2>1. f.fn \in FirstFns
    BY <1>3 DEF FirstFns
  <2>2. calls \in [Task -> Seq(WaitsFrames(A))]
    BY DEF ReadyToWait, Ready
  <2>3. QED
    BY <1>1, <1>3, <2>1, <2>2, FormedByBegin
<1>5. WaitsOK'
  BY <1>1 DEF ReadyToWait, WaitsOK
<1>6. QED
  BY <1>1, <1>3, <1>4, <1>5 DEF KeptWaits, Calm

LEMMA SendGrantKeeps ==
  ASSUME NEW A \in SUBSET Node, ReadyToWait(A), NEW t \in Task, NEW n \in Node,
         SendGrant(t, n)
  PROVE  KeptWaits(A, t)
<1> DEFINE f == Top(t)
           left == f.todo \ {n}
           g == [f EXCEPT !.todo = left]
           h == Message("grant", f.at, n)
           F == WaitsFrames(A)
<1>1. /\ ~Idle(t) /\ f.fn = "setActive" /\ f.pc = "loop"
      /\ permissionQueue' = [permissionQueue EXCEPT ![f.at] = @ \ {n}]
      /\ Call(t, g, h)
      /\ UNCHANGED << info, alive, clients, isActive, waitingFrom >>
  BY DEF SendGrant, At
<1>2. /\ f \in F /\ FrameForm(f) /\ f \in WaitFrame
      /\ calls \in [Task -> Seq(F)] /\ Forms
      /\ f.at \in Node /\ f.todo \in SUBSET Node
  BY <1>1, WaitsTop
<1>3. left \in SUBSET Node /\ {} \in SUBSET Node
  BY <1>2
<1> HIDE DEF left
<1>4. g \in WaitFrame /\ g.pc = f.pc /\ g.fn = f.fn /\ g.path = f.path
  BY <1>2, <1>3 DEF WaitFrame
<1> HIDE DEF g
<1>5. g \in F /\ SameMessage(f, g)
  BY <1>2, <1>4, WaitGoes
<1>6. h \in F /\ FrameForm(h) /\ h.fn = "grant" /\ h.pc = "send"
  <2> DEFINE m == f.at
  <2>1. m \in Node
    BY <1>2
  <2>2. h = WaitsFrame("grant", "send", m, n, {})
    BY DEF Message
  <2> HIDE DEF h, m
  <2>3. QED
    BY <1>3, <2>1, <2>2, NewWaitsFrame
<1> HIDE DEF h, F
<1>7. FrameForm(g) /\ Awaits(g) /\ CallsOf(g, h)
  BY <1>1, <1>2, <1>4, <1>6
  DEF FrameForm, Awaits, CallsOf, FirstFns, RequestFns, MessageFns, MessagePcs
<1>8. Formed(F, t) /\ Top(t)' = h
  BY <1>1, <1>2, <1>5, <1>6, <1>7, FormedByCall
<1>9. WaitsOK'
  BY <1>1, <1>2 DEF ReadyToWait, WaitsOK
<1>10. QED
  BY <1>1, <1>6, <1>8, <1>9 DEF KeptWaits, Calm, F

LEMMA EndSetActiveKeeps ==
  ASSUME NEW A \in SUBSET Node, ReadyToWait(A), NEW t \in Task, EndSetActive(t)
  PROVE  KeptWaits(A, t)
<1> DEFINE f == Top(t)
<1>1. /\ ~Idle(t) /\ f.fn = "setActive" /\ Return(t)
      /\ permissionQueue' = [permissionQueue EXCEPT ![f.at] = {}]
      /\ UNCHANGED << info, alive, clients, isActive, waitingFrom >>
  BY DEF EndSetActive, At
<1>2. f.at \in Node
  BY <1>1, WaitsTop
<1> HIDE DEF f
<1>3. WaitsOK'
  BY <1>1, <1>2 DEF ReadyToWait, WaitsOK
<1>4. QED
  BY <1>1, <1>3, ReturnIsCalm DEF KeptWaits

LEMMA ReceiveGrantKeeps ==
  ASSUME NEW A \in SUBSET Node, ReadyToWait(A), NEW t \in Task, ReceiveGrant(t)
  PROVE  KeptWaits(A, t)
<1> DEFINE f == Top(t)
           waits == waitingFrom[f.at] \ {f.from}
           todo == permissionQueue[f.at]
           g == Moved(f, "done")
           h == WaitsFrame("setActive", "loop", f.at, f.at, todo)
           F == WaitsFrames(A)
<1>1. /\ ~Idle(t) /\ f.fn = "grant" /\ f.pc = "receive"
      /\ UNCHANGED << info, alive, clients, permissionQueue >>
      /\ \/ SendOn(t) /\ UNCHANGED << isActive, waitingFrom >>
         \/ BecomeActive(f.at) /\ Call(t, g, h)
         \/ /\ waitingFrom' = [waitingFrom EXCEPT ![f.at] = waits]
            /\ Return(t) /\ UNCHANGED isActive
  BY DEF ReceiveGrant, At, Moved
<1>2. /\ f \in F /\ FrameForm(f) /\ f \in WaitFrame
      /\ calls \in [Task -> Seq(F)] /\ Forms
      /\ f.at \in Node /\ f.from \in Node
  BY <1>1, WaitsTop
<1>3. waits \in SUBSET Node /\ todo \in SUBSET Node
  BY <1>2 DEF ReadyToWait, WaitsOK
<1> HIDE DEF waits, todo
<1>4. g \in F /\ SameMessage(f, g) /\ g.pc = "done" /\ g.fn = f.fn /\ g.path = f.path
  BY <1>2, WaitMoves DEF WaitPcs
<1> HIDE DEF g
<1>5. h \in F /\ FrameForm(h) /\ h.fn = "setActive" /\ h.pc = "loop"
  <2> DEFINE m == f.at
  <2>1. m \in Node
    BY <1>2
  <2>2. h = WaitsFrame("setActive", "loop", m, m, todo)
    OBVIOUS
  <2> HIDE DEF h, m
  <2>3. QED
    BY <1>3, <2>1, <2>2, NewWaitsFrame
<1> HIDE DEF h
<1>6. CASE SendOn(t) /\ UNCHANGED << isActive, waitingFrom >>
  <2>1. WaitsOK'
    BY <1>1, <1>6 DEF ReadyToWait, WaitsOK
  <2>2. QED
    BY <1>1, <1>6, <2>1, SendOnKeeps DEF KeptWaits
<1>7. CASE BecomeActive(f.at) /\ Call(t, g, h)
  <2> HIDE DEF f, F
  <2>1. FrameForm(g) /\ Awaits(g) /\ CallsOf(g, h)
    BY <1>1, <1>2, <1>4, <1>5
    DEF FrameForm, Awaits, CallsOf, FirstFns, RequestFns, MessageFns, MessagePcs
  <2>2. Formed(F, t) /\ Top(t)' = h
    BY <1>1, <1>2, <1>4, <1>5, <1>7, <2>1, FormedByCall DEF f
  <2>3. WaitsOK'
    <3>1. waitingFrom' \in [Node -> SUBSET Node]
      BY <1>2, <1>7 DEF ReadyToWait, WaitsOK, BecomeActive
    <3>2. isActive' \in [Node -> BOOLEAN]
      BY <1>2, <1>7 DEF ReadyToWait, WaitsOK, BecomeActive
    <3>3. QED
      BY <1>1, <3>1, <3>2 DEF ReadyToWait, WaitsOK
  <2>4. QED
    BY <1>1, <1>5, <2>2, <2>3 DEF KeptWaits, Calm, F
<1>8. CASE /\ waitingFrom' = [waitingFrom EXCEPT ![f.at] = waits]
           /\ Return(t) /\ UNCHANGED isActive
  <2>1. WaitsOK'
    BY <1>1, <1>2, <1>3, <1>8 DEF ReadyToWait, WaitsOK
  <2>2. QED
    BY <1>1, <1>8, <2>1, ReturnIsCalm DEF KeptWaits
<1>9. QED
  BY <1>1, <1>6, <1>7, <1>8

LEMMA EndsKeep ==
  ASSUME NEW A \in SUBSET Node, ReadyToWait(A), NEW t \in Task,
         EndGrant(t) \/ EndLostMessage(t)
  PROVE  KeptWaits(A, t)
<1>1. /\ ~Idle(t) /\ UNCHANGED << info, alive, clients, waitVars >>
      /\ Return(t) \/ (Top(t).fn = "request" /\ Reply(t, "lost"))
  BY DEF EndGrant, EndLostMessage, At
<1>2. WaitsOK'
  BY <1>1 DEF ReadyToWait, WaitsOK, waitVars
<1>3. QED
  BY <1>1, <1>2, ReturnIsCalm, ReplyToWait DEF KeptWaits


\* A grant is sent by a set_active, which the operator or another grant began.
LEMMA GrantsOnly ==
  ASSUME NEW s, StackForm(s), NEW n \in Nat, n = Len(s), n >= 1,
         s[n].fn = "grant", NEW i \in 1 .. n
  PROVE  s[i].fn \in {"grant", "setActive"}
<1> DEFINE IsGrant(k) == s[k].fn \in {"grant", "setActive"}
           S == {j \in Nat : n - j \in 1 .. n /\ ~IsGrant(n - j)}
<1>1. SUFFICES ASSUME ~IsGrant(i)
               PROVE  FALSE
  OBVIOUS
<1>2. \A k \in 2 .. n : IsGrant(k) => IsGrant(k - 1)
  <2>1. SUFFICES ASSUME NEW k \in 2 .. n, IsGrant(k)
                 PROVE  IsGrant(k - 1)
    OBVIOUS
  <2>2. k \in 1 .. n /\ k > 1
    OBVIOUS
  <2>3. CallsOf(s[k - 1], s[k])
    BY <2>2 DEF StackForm
  <2>4. QED
    BY <2>1, <2>3 DEF CallsOf, FirstFns, RequestFns
<1>3. IsGrant(n)
  OBVIOUS
<1> HIDE DEF IsGrant
<1>4. n - i \in Nat /\ n - (n - i) = i
  OBVIOUS
<1>5. S \in SUBSET Nat /\ S # {}
  BY <1>1, <1>4
<1>6. PICK m \in S : \A l \in S : m <= l
  BY <1>5, LeastOfSet
<1>7. m # 0
  BY <1>3, <1>6
<1>8. m - 1 \in Nat /\ n - m + 1 \in 2 .. n /\ n - (m - 1) = n - m + 1
  BY <1>6, <1>7
<1>9. ~IsGrant(n - m) /\ n - m + 1 - 1 = n - m
  BY <1>6
<1>10. ~IsGrant(n - m + 1)
  BY <1>2, <1>8, <1>9
<1>11. m - 1 \in S
  BY <1>8, <1>10
<1>12. m <= m - 1 /\ m \in Nat
  BY <1>6, <1>11
<1>13. QED
  BY <1>12

\* The first message of the request is what waits the longest.
LEMMA FirstAwaited ==
  ASSUME NEW F, FrameSet(F), Ready(F), NEW t \in Task, ~Idle(t),
         Top(t).fn \in {"request", "grant"}, Awaited(t)
  PROVE  2 \in 1 .. Len(calls[t]) /\ Len(calls[t][2].path) >= 2
<1> DEFINE s == calls[t]
           n == Len(s)
<1>1. /\ n \in Nat /\ n >= 1 /\ n \in 1 .. n /\ Top(t) = s[n] /\ StackForm(s)
      /\ s \in Seq(F)
  BY TopAgain DEF Ready, Forms
<1>2. PICK i \in 1 .. n : Len(s[i].path) > 1
  BY <1>1 DEF Awaited
<1> HIDE DEF s
<1>3. \A j \in 1 .. n : s[j].path \in Seq(Node)
  BY <1>1, FrameIs
<1> HIDE DEF n
<1>4. n = Len(s) /\ s[n].fn \in {"request", "grant"}
  BY <1>1 DEF n, s
<1>5. s[n].fn \notin FirstFns
  BY <1>4 DEF FirstFns, RequestFns
<1>6. n - 1 \in 1 .. n /\ CallsOf(s[n - 1], s[n])
  BY <1>1, <1>4, <1>5, FormAt
<1>7. n >= 2 /\ 1 \in 1 .. n /\ 2 \in 1 .. n
  BY <1>1, <1>6
<1>8. ASSUME s[1].fn \in {"wait", "setActive"}, n = 2
      PROVE  Len(s[2].path) >= 2
  <2>1. Len(s[1].path) = 1
    BY <1>1, <1>4, <1>7, <1>8 DEF StackForm, FrameForm, MessageFns
  <2>2. i = 1 \/ i = 2
    BY <1>8
  <2>3. Len(s[2].path) > 1
    <3>1. ~(1 > 1)
      OBVIOUS
    <3>2. QED
      BY <1>2, <2>1, <2>2, <3>1, Zenon
  <2> DEFINE m == Len(s[2].path)
  <2>4. m \in Nat /\ m > 1
    BY <1>3, <1>7, <2>3
  <2> HIDE DEF m
  <2>5. m >= 2
    BY <2>4
  <2>6. QED
    BY <2>5 DEF m
<1>9. CASE s[n].fn = "request"
  <2>1. s[n - 1].fn = "wait"
    BY <1>6, <1>9 DEF CallsOf
  <2>2. n - 1 = 1
    BY <1>1, <1>4, <1>6, <2>1, FormAt DEF FirstFns
  <2>3. n = 2
    BY <1>1, <2>2
  <2>4. s[1].fn \in {"wait", "setActive"}
    BY <2>1, <2>2
  <2>5. QED
    BY <1>7, <1>8, <2>3, <2>4 DEF n, s
<1>10. CASE s[n].fn = "grant"
  <2>1. \A j \in 1 .. n : s[j].fn \in {"grant", "setActive"}
    BY <1>1, <1>4, <1>10, GrantsOnly
  <2>2. s[1].fn \in FirstFns /\ CallsOf(s[1], s[2])
    <3>1. /\ 1 = 1 => s[1].fn \in FirstFns
          /\ 2 > 1 => CallsOf(s[2 - 1], s[2])
      BY <1>4, <1>7, <1>1 DEF StackForm
    <3>2. QED
      BY <3>1
  <2>3. s[1].fn = "setActive" /\ s[2].fn = "grant"
    BY <1>7, <2>1, <2>2 DEF FirstFns, RequestFns, CallsOf
  <2>4. CASE n = 2
    BY <1>7, <1>8, <2>3, <2>4 DEF n, s
  <2>5. CASE n # 2
    <3>1. 3 \in 1 .. n /\ 3 > 1
      BY <1>1, <1>7, <2>5
    <3>2. CallsOf(s[2], s[3]) /\ FrameForm(s[2])
      <4>1. /\ 3 > 1 => CallsOf(s[3 - 1], s[3])
            /\ FrameForm(s[2])
        BY <1>1, <1>4, <1>7, <3>1 DEF StackForm
      <4>2. QED
        BY <4>1
    <3>3. s[2].pc = "done"
      BY <2>1, <2>3, <3>1, <3>2 DEF CallsOf, FirstFns, RequestFns
    <3>4. Len(s[2].path) >= 2
      BY <2>3, <3>2, <3>3 DEF FrameForm, MessageFns
    <3>5. QED
      BY <1>7, <3>4 DEF n, s
  <2>6. QED
    BY <2>4, <2>5
<1>11. QED
  BY <1>4, <1>9, <1>10

LEMMA MessageUnansweredKeeps ==
  ASSUME NEW A \in SUBSET Node, ReadyToWait(A), NEW t \in Task,
         MessageUnanswered(t)
  PROVE  /\ Formed(WaitsFrames(A), t) /\ NodesOK' /\ WaitsOK'
         /\ UNCHANGED << info, alive, clients >>
         /\ \E f \in WaitsFrames(A) :
              /\ Len(f.path) >= 2
              /\ Top(t)' = FailedAt(f, 1)
<1> DEFINE F == WaitsFrames(A)
           s == calls[t]
           q == Cut(s, 2, FailedAt(s[2], 1))
<1>1. /\ ~Idle(t) /\ Top(t).fn \in {"request", "grant"} /\ Awaited(t)
      /\ GiveUp(t, 2) /\ UNCHANGED waitVars
  BY DEF MessageUnanswered, Overdue
<1>2. FrameSet(F) /\ Ready(F)
  BY WaitsFrameSet DEF ReadyToWait
<1>3. UNCHANGED << info, alive, clients >>
  BY <1>1 DEF GiveUp
<1> HIDE DEF F
<1>4. 2 \in 1 .. Len(calls[t]) /\ Len(calls[t][2].path) >= 2
  BY <1>1, <1>2, FirstAwaited
<1>5. Kept(F, t) /\ NodesOK'
  BY <1>1, <1>2, <1>3, <1>4, GiveUpKeeps
<1>6. WaitsOK'
  BY <1>1 DEF ReadyToWait, WaitsOK, waitVars
<1>7. s \in Seq(F) /\ s[2] \in F
  BY <1>2, <1>4 DEF Ready
<1>8. calls' = [calls EXCEPT ![t] = q]
  BY <1>1 DEF GiveUp, Cut
<1>9. calls'[t] = q
  BY <1>2, <1>8 DEF Ready
<1>10. q[Len(q)] = FailedAt(s[2], 1)
  <2> DEFINE p == SubSeq(s, 1, 2 - 1)
             g == FailedAt(s[2], 1)
  <2>1. q = Append(p, g)
    BY DEF Cut
  <2>2. Len(p) = 1 /\ p \in Seq(F)
    BY <1>4, <1>7
  <2> HIDE DEF p, g, q
  <2>3. q[Len(q)] = g
    BY <2>1, <2>2
  <2>4. QED
    BY <2>3 DEF g
<1>11. Top(t)' = FailedAt(s[2], 1)
  BY <1>9, <1>10 DEF Top
<1>12. QED
  BY <1>3, <1>4, <1>5, <1>6, <1>7, <1>11 DEF Kept, F


-----------------------------------------------------------------------------
(* The steps that RingWaits shares with Ring, and its types.               *)

\* What every step of t keeps.
Keeping(A, t) == Formed(WaitsFrames(A), t) /\ NodesOK' /\ WaitsOK'

LEMMA WaitsStepKeeps ==
  ASSUME NEW A \in SUBSET Node, ReadyToWait(A), NEW t \in Task,
         \/ ReceiveRequest(t) \/ EndWait(t)
         \/ \E n \in Node : SendGrant(t, n) \/ StartSetActive(t, n)
         \/ \E n, o \in Node : StartWait(t, n, o)
         \/ EndSetActive(t) \/ ReceiveGrant(t) \/ EndGrant(t)
         \/ EndLostMessage(t)
  PROVE  KeptWaits(A, t) /\ Keeping(A, t)
<1>1. KeptWaits(A, t)
  BY ReceiveRequestKeeps, EndWaitKeeps, SendGrantKeeps, StartSetActiveKeeps,
     StartWaitKeeps, EndSetActiveKeeps, ReceiveGrantKeeps, EndsKeep
<1>2. NodesOK'
  BY <1>1 DEF KeptWaits, ReadyToWait, Ready, NodesOK
<1>3. QED
  BY <1>1, <1>2 DEF KeptWaits, Keeping

LEMMA RingPartKeeps ==
  ASSUME NEW A \in SUBSET Node, ReadyToWait(A), NEW t \in Task, RingPart(t)
  PROVE  Keeping(A, t)
<1> DEFINE F == WaitsFrames(A)
<1>1. FrameSet(F) /\ Ready(F) /\ UNCHANGED waitVars
  BY WaitsFrameSet DEF ReadyToWait, RingPart
<1> HIDE DEF F
<1>2. Kept(F, t) /\ NodesOK'
  BY <1>1, TellNeighborKeeps, CallJoiningKeeps, EnterJoiningKeeps,
     RepairBeforeJoinKeeps, CopyNeighborsKeeps, InsertNextKeeps,
     InstallNeighborsKeeps, CallLeavingKeeps, CopyLeavingKeeps, EndLeavingKeeps,
     BecomeAloneKeeps, ForgetMissingKeeps, UnlinkKeeps, RelinkKeeps, LinkedKeeps,
     PassMissingKeeps, RepairUnansweredKeeps, CopyNextKeeps, SendMessageKeeps,
     RepairAfterFailureKeeps
  DEF RingPart
<1>3. WaitsOK'
  BY <1>1 DEF ReadyToWait, WaitsOK, waitVars
<1>4. QED
  BY <1>2, <1>3 DEF Kept, Keeping, F

\* What leave and revive do to the waits of a node, and missing_node.
LEMMA WaitsForgotten ==
  ASSUME WaitsOK, NEW n \in Node, NEW o \in Node,
         ForgetWaits(n) \/ DeleteDependencies(n, o)
  PROVE  WaitsOK'
<1> DEFINE waits == waitingFrom[n] \ {o}
<1>1. waits \in SUBSET Node
  BY DEF WaitsOK
<1>2. CASE ForgetWaits(n)
  BY <1>2 DEF ForgetWaits, WaitsOK
<1>3. CASE DeleteDependencies(n, o)
  <2> DEFINE b == waits = {}
  <2>1. /\ waitingFrom' = [waitingFrom EXCEPT ![n] = waits]
        /\ isActive' = [isActive EXCEPT ![n] = @ \/ b]
        /\ permissionQueue' = [permissionQueue EXCEPT ![n] = @ \ {o}]
    BY <1>3 DEF DeleteDependencies
  <2>2. b \in BOOLEAN
    OBVIOUS
  <2> HIDE DEF waits, b
  <2>3. waitingFrom' \in [Node -> SUBSET Node]
    BY <1>1, <2>1 DEF WaitsOK
  <2>4. permissionQueue' \in [Node -> SUBSET Node]
    BY <2>1 DEF WaitsOK
  <2>5. isActive' \in [Node -> BOOLEAN]
    BY <2>1, <2>2 DEF WaitsOK
  <2>6. QED
    BY <2>3, <2>4, <2>5 DEF WaitsOK
<1>4. QED
  BY <1>2, <1>3

LEMMA MissingKeeps ==
  ASSUME NEW A \in SUBSET Node, ReadyToWait(A), NEW t \in Task, Missing(t)
  PROVE  Keeping(A, t)
<1> DEFINE F == WaitsFrames(A)
           f == Top(t)
<1>1. FrameSet(F) /\ Ready(F)
  BY WaitsFrameSet DEF ReadyToWait
<1>2. /\ ~Idle(t) /\ f.fn = "missing" /\ EnterMissing(t)
      /\ UNCHANGED waitVars \/ DeleteDependencies(f.at, f.arg)
  BY DEF Missing, EnterMissing, At
<1> HIDE DEF F
<1>3. f \in RingFrame
  BY <1>1, <1>2, RingTop
<1>4. f.at \in Node /\ f.arg \in Node
  BY <1>3 DEF RingFrame
<1>5. Kept(F, t) /\ NodesOK'
  BY <1>1, <1>2, EnterMissingKeeps
<1>6. WaitsOK'
  <2>1. CASE UNCHANGED waitVars
    BY <2>1 DEF ReadyToWait, WaitsOK, waitVars
  <2>2. CASE DeleteDependencies(f.at, f.arg)
    BY <1>4, <2>2, WaitsForgotten DEF ReadyToWait
  <2>3. QED
    BY <1>2, <2>1, <2>2
<1>7. QED
  BY <1>5, <1>6 DEF Kept, Keeping, F

LEMMA LeaveKeeps ==
  ASSUME NEW A \in SUBSET Node, ReadyToWait(A), NEW t \in Task, NEW n \in Node,
         Leave(t, n)
  PROVE  /\ Keeping(A, t) /\ UNCHANGED << info, alive, clients >>
         /\ Top(t)'.fn = "leave" /\ Top(t)'.pc = "call"
<1> DEFINE F == WaitsFrames(A)
           f == Frame("leave", "call", n, n, n)
<1>1. FrameSet(F) /\ calls \in [Task -> Seq(F)] /\ NodesOK /\ WaitsOK
  BY WaitsFrameSet DEF ReadyToWait, Ready
<1>2. Begin(t, f) /\ UNCHANGED << info, alive, clients >> /\ ForgetWaits(n)
  BY DEF Leave, StartLeave
<1> HIDE DEF F
<1>3. f \in F /\ FrameForm(f) /\ f.fn = "leave" /\ f.pc = "call"
  BY <1>1, NewRingFrame
<1> HIDE DEF f
<1>4. Formed(F, t) /\ Top(t)' = f
  BY <1>1, <1>2, <1>3, FormedByBegin DEF FirstFns
<1>5. NodesOK' /\ WaitsOK'
  BY <1>1, <1>2, WaitsForgotten DEF NodesOK
<1>6. QED
  BY <1>2, <1>3, <1>4, <1>5 DEF Keeping, F

\* Any state in which no request is under way, and every connection that a node
\* keeps is to a node that runs.
AnyWaits ==
  /\ NodesOK /\ WaitsOK /\ OpenIsAlive
  /\ calls = [t \in Task |-> << >>]

AnyWaitsSpec == AnyWaits /\ [][RingWaitsNext]_ringWaitsVars

WaitsReady == Ready(WaitsFrames(Node)) /\ WaitsOK

LEMMA WaitsReadyNext ==
  ASSUME WaitsReady, [RingWaitsNext]_ringWaitsVars
  PROVE  WaitsReady'
<1> DEFINE F == WaitsFrames(Node)
<1>1. ReadyToWait(Node) /\ FrameSet(F) /\ Ready(F) /\ Node \in SUBSET Node
  BY WaitsFrameSet DEF WaitsReady, ReadyToWait, ReachesOnly
<1>2. ASSUME NEW t \in Task, Keeping(Node, t)
      PROVE  WaitsReady'
  <2>1. /\ calls' \in [Task -> Seq(F)] /\ NodesOK' /\ WaitsOK'
        /\ StackForm(calls'[t])
        /\ \A u \in Task \ {t} : calls'[u] = calls[u]
    BY <1>2 DEF Keeping, Formed
  <2>2. Forms /\ F = WaitsFrames(Node)' /\ WaitsReady' = (Ready(WaitsFrames(Node))' /\ WaitsOK')
    BY <1>1 DEF Ready, WaitsReady, WaitsFrames
  <2> HIDE DEF F
  <2>3. Forms'
    BY <2>1, <2>2 DEF Forms
  <2>4. QED
    BY <2>1, <2>2, <2>3 DEF Ready
<1>3. ASSUME NEW t \in Task, RingWaitsStep(t)
      PROVE  WaitsReady'
  BY <1>1, <1>2, <1>3, WaitsStepKeeps, MessageUnansweredKeeps, RingPartKeeps,
     MissingKeeps
  DEF RingWaitsStep, Keeping
<1>4. ASSUME NEW t \in Task, NEW n \in Node,
             (\E o \in Node : StartWait(t, n, o)) \/ StartSetActive(t, n) \/ Leave(t, n)
      PROVE  WaitsReady'
  BY <1>1, <1>2, <1>4, WaitsStepKeeps, LeaveKeeps
<1>5. ASSUME NEW t \in Task, NEW n \in Node, ReviveNode(t, n)
      PROVE  WaitsReady'
  <2>1. Ready(F)' /\ WaitsOK'
    BY <1>1, <1>5, ReviveKeeps, WaitsForgotten DEF ReviveNode, WaitsReady
  <2>2. QED
    BY <2>1 DEF WaitsReady
<1>6. ASSUME NEW n \in Node, Kill(n), UNCHANGED waitVars
      PROVE  WaitsReady'
  <2>1. Ready(F)'
    BY <1>1, <1>6, KillKeeps
  <2>2. QED
    BY <1>6, <2>1 DEF WaitsReady, WaitsOK, waitVars
<1>7. ASSUME NEW n \in Node, SetPassive(n)
      PROVE  WaitsReady'
  <2>1. /\ isActive' = [isActive EXCEPT ![n] = FALSE]
        /\ UNCHANGED << ringVars, waitingFrom, permissionQueue >>
    BY <1>7 DEF SetPassive
  <2>2. Ready(F)'
    BY <1>1, <2>1 DEF ringVars, Ready, NodesOK, Forms
  <2>3. WaitsOK'
    BY <2>1 DEF WaitsReady, WaitsOK
  <2>4. QED
    BY <2>2, <2>3 DEF WaitsReady
<1>8. CASE UNCHANGED ringWaitsVars
  BY <1>8 DEF ringWaitsVars, ringVars, waitVars, WaitsReady, Ready, NodesOK, Forms,
              WaitsOK
<1>9. CASE RingWaitsNext
  <2>1. \A n \in Node : RingOf(n) \subseteq Node
    BY DEF RingOf
  <2>2. \A n \in Node : Waits[n] \cap RingOf(n) \subseteq Node
    BY <2>1
  <2>3. CASE \E t \in Task, n \in Node :
               (\E o \in Node : StartWait(t, n, o))
                 \/ StartSetActive(t, n) \/ Leave(t, n)
    BY <1>4, <2>3
  <2>4. CASE \E t \in Task : (\E n \in Node : ReviveNode(t, n)) \/ RingWaitsStep(t)
    BY <1>3, <1>5, <2>4
  <2>5. CASE \E n \in Node : SetPassive(n) \/ (Kill(n) /\ UNCHANGED waitVars)
    BY <1>6, <1>7, <2>5
  <2>6. QED
    BY <1>9, <2>2, <2>3, <2>4, <2>5, Zenon DEF RingWaitsNext
<1>10. QED
  BY <1>8, <1>9

\* The variables have their types: however many requests are under way, in
\* whatever state the ring is, and whichever nodes stop, come back or are slow.
THEOREM RingWaitsTypes == AnyWaitsSpec => []RingWaitsTypeOK
<1>1. AnyWaits => WaitsReady
  BY DEF AnyWaits, WaitsReady, Ready, Forms, StackForm
<1>2. WaitsReady /\ [RingWaitsNext]_ringWaitsVars => WaitsReady'
  BY WaitsReadyNext
<1>3. WaitsReady => RingWaitsTypeOK
  <2> DEFINE F == WaitsFrames(Node)
  <2>1. F \subseteq RingFrame \cup WaitFrame
    BY DEF WaitsFrames
  <2> HIDE DEF F
  <2>2. Seq(F) \subseteq Seq(RingFrame \cup WaitFrame)
    BY <2>1, SeqMonotonic
  <2>3. QED
    BY <2>2 DEF F, WaitsReady, Ready, WaitsOK, RingWaitsTypeOK
<1>4. QED
  BY <1>1, <1>2, <1>3, PTL DEF AnyWaitsSpec


-----------------------------------------------------------------------------
(* Where missing_node has been: nobody depends on the missing node there.  *)

\* No node depends on d from node n on, as far as node o.
WentPast(d, n, o) ==
  \E V \in SUBSET Node :
    /\ n \in V
    /\ \A v \in V : d \notin waitingFrom[v] \cup permissionQueue[v]
    /\ \A v \in V : info[v].next \in V \cup {o}

\* The node that frame f of missing_node is at does not depend on f.arg, nor
\* does any before it.
Forgot(f) ==
  /\ f.arg \notin waitingFrom[f.at] \cup permissionQueue[f.at]
  /\ f.at = f.from \/ WentPast(f.arg, f.from, f.at)

GoesPast(f) ==
  /\ f.pc = "enter" =>
       \/ f.at = f.from /\ info[f.at].next = f.arg
       \/ WentPast(f.arg, f.from, f.at)
  /\ f.pc = "forget" => Forgot(f) /\ f.next = info[f.at].next
  /\ f.pc = "unlink" => Forgot(f)
  /\ f.pc \in {"relink", "linked"} => WentPast(f.arg, f.from, f.nnext)
  /\ f.pc = "tell" => WentPast(f.arg, f.from, f.next)

\* What is known of the executing frame: only the next node of a node, or one
\* that runs, is ever found missing.
TopOK(f) ==
  /\ f.pc \in {"deliver", "failed"} => f.next \in alive \/ f.next = info[f.at].next
  /\ f.fn = "joining" /\ f.pc = "repair" => f.arg = info[f.at].next
  /\ f.fn = "missing"
     /\ f.pc \in {"enter", "forget", "unlink", "relink", "linked", "tell"} =>
       /\ \A k \in 1 .. Len(f.todo) : f.todo[k].field = "nnext"
       /\ f.arg \notin alive => GoesPast(f)

WaitsInv ==
  /\ Ready(WaitsFrames(alive)) /\ WaitsOK /\ OpenIsAlive
  /\ \A t \in Task : ~Idle(t) => TopOK(Top(t))

\* What a step of t keeps of it.
NextOK(t) == OpenIsAlive' /\ UNCHANGED alive /\ (~Idle(t)' => TopOK(Top(t))')

LEMMA CalmIsOK ==
  ASSUME NEW t \in Task, Calm(Top(t)')
  PROVE  TopOK(Top(t))'
BY DEF Calm, TopOK

LEMMA NewTop ==
  ASSUME NEW F, calls \in [Task -> Seq(F)], NEW t \in Task, NEW g, NEW h
  PROVE  /\ Begin(t, g) => Top(t)' = g
         /\ ~Idle(t) /\ Goto(t, g) => Top(t)' = g
         /\ ~Idle(t) /\ Call(t, g, h) => Top(t)' = h
         /\ Len(calls[t]) > 1 /\ ReturnTo(t, g) => Top(t)' = g
<1> DEFINE G == F \cup {g, h}
<1>1. Seq(F) \subseteq Seq(G)
  BY SeqMonotonic
<1>2. calls \in [Task -> Seq(G)] /\ g \in G /\ h \in G
  BY <1>1
<1> HIDE DEF G
<1>3. Begin(t, g) => Top(t)' = g
  BY <1>2 DEF Begin, Top
<1>4. ASSUME ~Idle(t), Goto(t, g)
      PROVE  Top(t)' = g
  BY <1>2, <1>4, GotoEffect DEF Top
<1>5. ASSUME ~Idle(t), Call(t, g, h)
      PROVE  Top(t)' = h
  BY <1>2, <1>5, CallEffect DEF Top
<1>6. ASSUME Len(calls[t]) > 1, ReturnTo(t, g)
      PROVE  Top(t)' = g
  BY <1>2, <1>6, ReturnToEffect DEF Top
<1>7. QED
  BY <1>3, <1>4, <1>5, <1>6

LEMMA OpenKept ==
  ASSUME NodesOK, OpenIsAlive, UNCHANGED alive, NEW n \in Node, NEW o \in Node,
         \/ Connect(n, o) /\ Reaches(n, o)
         \/ clients' = [clients EXCEPT ![n][o] = "none"]
         \/ UNCHANGED clients
  PROVE  OpenIsAlive'
<1>1. Reaches(n, o) => o \in alive
  BY DEF Reaches, OpenIsAlive
<1>2. clients \in [Node -> [Node -> {"none", "open", "closed"}]]
  BY DEF NodesOK
<1>3. CASE Connect(n, o) /\ Reaches(n, o)
  <2>1. \A m, u \in Node :
          clients'[m][u] = IF m = n /\ u = o THEN "open" ELSE clients[m][u]
    BY <1>2, <1>3 DEF Connect
  <2>2. QED
    BY <1>1, <1>3, <2>1 DEF OpenIsAlive
<1>4. CASE clients' = [clients EXCEPT ![n][o] = "none"]
  <2>1. \A m, u \in Node :
          clients'[m][u] = IF m = n /\ u = o THEN "none" ELSE clients[m][u]
    BY <1>2, <1>4
  <2>2. QED
    BY <2>1 DEF OpenIsAlive
<1>5. CASE UNCHANGED clients
  BY <1>5 DEF OpenIsAlive
<1>6. QED
  BY <1>3, <1>4, <1>5

\* In the invariant a request can take a step.
LEMMA WaitsInvTop ==
  ASSUME WaitsInv, NEW t \in Task, ~Idle(t)
  PROVE  LET f == Top(t) IN
           /\ ReadyToWait(alive) /\ alive \in SUBSET Node
           /\ NodesOK /\ WaitsOK /\ OpenIsAlive /\ TopOK(f)
           /\ calls \in [Task -> Seq(WaitsFrames(alive))] /\ Forms
           /\ f.at \in Node /\ f.next \in Node /\ f.from \in Node
           /\ f.fn \in {"join", "joining", "leave", "leaving", "missing"}
                => f \in RingFrame
           /\ f.pc \in {"tell", "enter", "call"} => f \in RingFrame
<1>1. /\ NodesOK /\ WaitsOK /\ OpenIsAlive /\ TopOK(Top(t))
      /\ calls \in [Task -> Seq(WaitsFrames(alive))] /\ Forms
      /\ Ready(WaitsFrames(alive))
  BY DEF WaitsInv, Ready
<1>2. alive \in SUBSET Node
  BY <1>1 DEF NodesOK
<1>3. ReachesOnly(alive)
  BY <1>1 DEF ReachesOnly, Reaches, OpenIsAlive
<1>4. FrameSet(WaitsFrames(alive))
  BY <1>2, <1>3, WaitsFrameSet
<1> DEFINE F == WaitsFrames(alive)
<1>5. FrameSet(F) /\ Ready(F)
  BY <1>1, <1>4
<1> HIDE DEF F
<1>6. LET f == Top(t) IN
        /\ f.at \in Node /\ f.next \in Node /\ f.from \in Node
        /\ f.fn \in {"join", "joining", "leave", "leaving", "missing"}
             => f \in RingFrame
        /\ f.pc \in {"tell", "enter", "call"} => f \in RingFrame
  BY <1>5, RingTop
<1>7. QED
  BY <1>1, <1>2, <1>3, <1>6 DEF ReadyToWait

LEMMA FailIsCalm ==
  ASSUME NEW A \in SUBSET Node, ReadyToWait(A), NEW t \in Task, ~Idle(t), Fail(t)
  PROVE  /\ Idle(t)' \/ Calm(Top(t)')
         /\ UNCHANGED << info, clients >>
<1>1. CASE Return(t)
  BY <1>1, ReturnIsCalm DEF Fail
<1>2. CASE calls' = [calls EXCEPT ![t] = << >>]
  BY <1>2 DEF Fail, Idle, ReadyToWait, Ready
<1>3. QED
  BY <1>1, <1>2 DEF Fail

\* A step after which the executing frame is calm.
LEMMA CalmStepIsOK ==
  ASSUME WaitsInv, NEW t \in Task, ~Idle(t), UNCHANGED << alive, clients >>,
         Return(t) \/ Fail(t) \/ Calm(Top(t)') \/ Idle(t)'
  PROVE  NextOK(t)
<1>1. ReadyToWait(alive) /\ alive \in SUBSET Node /\ OpenIsAlive
  BY WaitsInvTop
<1>2. Idle(t)' \/ Calm(Top(t)')
  <2> DEFINE A == alive
  <2>1. ReadyToWait(A) /\ A \in SUBSET Node
    BY <1>1
  <2> HIDE DEF A
  <2>2. QED
    BY <2>1, FailIsCalm, ReturnIsCalm
<1>3. OpenIsAlive'
  BY <1>1 DEF OpenIsAlive
<1>4. QED
  BY <1>2, <1>3, CalmIsOK DEF NextOK


\* The steps about waits.
LEMMA WaitsStepOK ==
  ASSUME WaitsInv, NEW t \in Task, KeptWaits(alive, t)
  PROVE  NextOK(t)
<1>1. Idle(t)' \/ Calm(Top(t)')
  BY DEF KeptWaits
<1>2. OpenIsAlive' /\ UNCHANGED alive
  BY DEF KeptWaits, WaitsInv, OpenIsAlive
<1>3. QED
  BY <1>1, <1>2, CalmIsOK DEF NextOK

\* A message that is given up is one to a node that runs.
LEMMA MessageUnansweredOK ==
  ASSUME WaitsInv, NEW t \in Task, MessageUnanswered(t)
  PROVE  NextOK(t)
<1>1. ~Idle(t)
  BY DEF MessageUnanswered
<1> DEFINE A == alive
<1>2. ReadyToWait(A) /\ A \in SUBSET Node /\ OpenIsAlive
  BY <1>1, WaitsInvTop
<1> HIDE DEF A
<1>3. /\ UNCHANGED << info, alive, clients >>
      /\ \E f \in WaitsFrames(A) : Len(f.path) >= 2 /\ Top(t)' = FailedAt(f, 1)
  BY <1>2, MessageUnansweredKeeps
<1>4. PICK f \in WaitsFrames(A) : Len(f.path) >= 2 /\ Top(t)' = FailedAt(f, 1)
  BY <1>3
<1>5. f \in RingFrame \cup WaitFrame /\ \A k \in 2 .. Len(f.path) : f.path[k] \in A
  BY DEF WaitsFrames
<1>6. f.path[2] \in A /\ Top(t)'.pc = "failed" /\ Top(t)'.next = f.path[1 + 1]
  <2>1. f.path \in Seq(Node)
    BY <1>5 DEF RingFrame, WaitFrame
  <2>2. 2 \in 2 .. Len(f.path)
    BY <1>4, <2>1
  <2>3. Top(t)'.pc = "failed" /\ Top(t)'.next = f.path[1 + 1]
    BY <1>4, <1>5 DEF FailedAt, RingFrame, WaitFrame
  <2>4. QED
    BY <1>5, <2>2, <2>3
<1>7. Top(t)'.next \in alive'
  BY <1>3, <1>6 DEF A
<1>8. TopOK(Top(t))'
  BY <1>6, <1>7 DEF TopOK
<1>9. OpenIsAlive'
  BY <1>2, <1>3 DEF OpenIsAlive
<1>10. QED
  BY <1>3, <1>8, <1>9 DEF NextOK

\* A step that changes no neighbors and looks nothing up.
LEMMA OtherIsOK ==
  ASSUME NEW t \in Task, OpenIsAlive', UNCHANGED alive,
         ~Idle(t)' => /\ Top(t)'.pc \notin {"deliver", "failed", "repair"}
                      /\ Top(t)'.fn # "missing"
  PROVE  NextOK(t)
BY DEF NextOK, TopOK

LEMMA CopyNextOK ==
  ASSUME WaitsInv, NEW t \in Task, CopyNext(t)
  PROVE  NextOK(t)
<1> DEFINE f == Top(t)
           o == info[f.at].next
           g == Copied(f, "deliver", o)
           F == WaitsFrames(alive)
<1>1. ~Idle(t) /\ Goto(t, g) /\ UNCHANGED << info, alive, clients >>
  BY DEF CopyNext, Copied
<1>2. Top(t)' = g /\ OpenIsAlive
  BY <1>1, WaitsInvTop, NewTop
<1>3. g.pc = "deliver" /\ g.next = o /\ g.at = f.at
  <2>1. f \in RingFrame \cup WaitFrame
    BY <1>1, WaitsInvTop, TopIsFrame DEF WaitsFrames
  <2> HIDE DEF f, o
  <2>2. QED
    BY <2>1 DEF RingFrame, WaitFrame, Copied
<1> HIDE DEF g, o
<1>4. TopOK(Top(t))'
  BY <1>1, <1>2, <1>3 DEF TopOK, o
<1>5. QED
  BY <1>1, <1>2, <1>4 DEF NextOK, OpenIsAlive

LEMMA SendMessageOK ==
  ASSUME WaitsInv, NEW t \in Task, SendMessage(t)
  PROVE  NextOK(t)
<1> DEFINE f == Top(t)
           g == Sent(f, f.next, "receive", Extended(f.path, f.next))
           h == Moved(f, "failed")
<1>1. /\ ~Idle(t) /\ f.pc = "deliver" /\ UNCHANGED << info, alive >>
      /\ \/ Reaches(f.at, f.next) /\ Connect(f.at, f.next) /\ Goto(t, g)
         \/ Goto(t, h) /\ UNCHANGED clients
  BY DEF SendMessage, Sent, Moved
<1>2. /\ NodesOK /\ OpenIsAlive /\ f.at \in Node /\ f.next \in Node /\ TopOK(f)
      /\ f \in RingFrame \cup WaitFrame
  BY <1>1, WaitsInvTop, TopIsFrame DEF WaitsFrames
<1>3. Goto(t, g) => Top(t)' = g
  BY <1>1, WaitsInvTop, NewTop
<1>4. Goto(t, h) => Top(t)' = h
  BY <1>1, WaitsInvTop, NewTop
<1>5. OpenIsAlive'
  BY <1>1, <1>2, OpenKept
<1>6. CASE Goto(t, g)
  <2>1. g.pc = "receive"
    <3> HIDE DEF f
    <3>1. QED
      BY <1>2 DEF RingFrame, WaitFrame, Sent
  <2> HIDE DEF g
  <2>2. Calm(Top(t)')
    BY <1>3, <1>6, <2>1 DEF Calm
  <2>3. QED
    BY <1>1, <1>5, <2>2, CalmIsOK DEF NextOK
<1>7. CASE Goto(t, h)
  <2>1. h.pc = "failed" /\ h.next = f.next /\ h.at = f.at
    <3> HIDE DEF f
    <3>1. QED
      BY <1>2 DEF RingFrame, WaitFrame, Moved
  <2> HIDE DEF h
  <2>2. TopOK(Top(t))'
    BY <1>1, <1>2, <1>4, <1>7, <2>1 DEF TopOK
  <2>3. QED
    BY <1>1, <1>5, <2>2 DEF NextOK
<1>8. QED
  BY <1>1, <1>6, <1>7

\* The repair of a topology begins at the node that finds its next node missing.
LEMMA RepairBeginsOK ==
  ASSUME WaitsInv, NEW t \in Task, ~Idle(t), NEW g, NEW d \in Node,
         RepairTopology(t, g, d), UNCHANGED << info, alive >>,
         g.at = Top(t).at, g.pc \in {"copy", "repaired"}, g.fn # "missing" \/ g.pc = "repaired",
         d \in alive \/ info[g.at].next = d
  PROVE  NextOK(t)
<1> DEFINE n == g.at
           h == Frame("missing", "enter", n, d, n)
<1>1. n \in Node /\ NodesOK /\ OpenIsAlive
  BY WaitsInvTop
<1>2. /\ Goto(t, g) => Top(t)' = g
      /\ Call(t, g, h) => Top(t)' = h
  BY WaitsInvTop, NewTop
<1>3. \/ Reaches(n, n) /\ Connect(n, n) /\ Call(t, g, h)
      \/ Goto(t, g) /\ UNCHANGED clients
      \/ calls' = [calls EXCEPT ![t] = << >>] /\ UNCHANGED clients
  BY DEF RepairTopology
<1>4. OpenIsAlive'
  BY <1>1, <1>3, OpenKept
<1>5. CASE Call(t, g, h)
  <2>1. h.fn = "missing" /\ h.pc = "enter" /\ h.at = n /\ h.from = n /\ h.arg = d
        /\ h.todo = << >>
    BY DEF Frame
  <2> HIDE DEF h
  <2>2. Len(h.todo) = 0
    BY <2>1
  <2>3. TopOK(Top(t))'
    BY <1>2, <1>5, <2>1, <2>2 DEF TopOK, GoesPast
  <2>4. QED
    BY <1>4, <2>3 DEF NextOK
<1>6. CASE Goto(t, g)
  <2>1. Calm(Top(t)')
    BY <1>2, <1>6 DEF Calm
  <2>2. QED
    BY <1>4, <2>1, CalmIsOK DEF NextOK
<1>7. CASE calls' = [calls EXCEPT ![t] = << >>]
  <2>1. calls'[t] = << >>
    BY <1>7, WaitsInvTop
  <2>2. Idle(t)'
    BY <2>1 DEF Idle
  <2>3. QED
    BY <1>4, <2>2 DEF NextOK
<1>8. QED
  BY <1>3, <1>5, <1>6, <1>7

LEMMA RepairsOK ==
  ASSUME WaitsInv, NEW t \in Task, RepairBeforeJoin(t) \/ RepairAfterFailure(t)
  PROVE  NextOK(t)
<1> DEFINE f == Top(t)
           g == Moved(f, "copy")
           h == Moved(f, "repaired")
<1>1. /\ ~Idle(t) /\ UNCHANGED << info, alive >>
      /\ \/ f.fn = "joining" /\ f.pc = "repair" /\ RepairTopology(t, g, f.arg)
         \/ f.pc = "failed" /\ RepairTopology(t, h, f.next)
  BY DEF RepairBeforeJoin, RepairAfterFailure, At, Moved
<1>2. f \in RingFrame \cup WaitFrame /\ TopOK(f) /\ f.next \in Node
  BY <1>1, WaitsInvTop, TopIsFrame DEF WaitsFrames
<1>3. f.fn = "joining" => f.arg \in Node
  BY <1>1, WaitsInvTop DEF RingFrame
<1>4. /\ g.pc = "copy" /\ g.at = f.at /\ g.fn = f.fn
      /\ h.pc = "repaired" /\ h.at = f.at /\ h.fn = f.fn
  <2> HIDE DEF f
  <2>1. QED
    BY <1>2 DEF RingFrame, WaitFrame, Moved
<1> HIDE DEF g, h
<1>5. CASE f.fn = "joining" /\ f.pc = "repair" /\ RepairTopology(t, g, f.arg)
  <2>1. info[g.at].next = f.arg
    BY <1>2, <1>4, <1>5 DEF TopOK
  <2>2. QED
    BY <1>1, <1>3, <1>4, <1>5, <2>1, RepairBeginsOK
<1>6. CASE f.pc = "failed" /\ RepairTopology(t, h, f.next)
  <2>1. f.next \in alive \/ info[h.at].next = f.next
    BY <1>2, <1>4, <1>6 DEF TopOK
  <2>2. QED
    BY <1>1, <1>2, <1>4, <1>6, <2>1, RepairBeginsOK
<1>7. QED
  BY <1>1, <1>5, <1>6


\* The steps of a join and of a leave.
LEMMA JoinsOK ==
  ASSUME WaitsInv, NEW t \in Task,
         \/ CallJoining(t) \/ EnterJoining(t) \/ CopyNeighbors(t)
         \/ InsertNext(t) \/ InstallNeighbors(t)
  PROVE  NextOK(t)
<1> DEFINE f == Top(t)
           n == f.at
<1>1. ~Idle(t) /\ f.fn \in {"join", "joining"} /\ UNCHANGED alive
  BY DEF CallJoining, EnterJoining, CopyNeighbors, InsertNext, InstallNeighbors,
         Told, At
<1>2. /\ f \in RingFrame /\ NodesOK /\ OpenIsAlive /\ n \in Node
      /\ calls \in [Task -> Seq(WaitsFrames(alive))] /\ Forms
  BY <1>1, WaitsInvTop
<1>3. f.arg \in Node /\ f.from \in Node
  BY <1>2 DEF RingFrame
<1>4. ASSUME UNCHANGED clients
      PROVE  OpenIsAlive'
  BY <1>1, <1>2, <1>4 DEF OpenIsAlive
<1>5. CASE CallJoining(t)
  <2> DEFINE g == [f EXCEPT !.pc = "await"]
             h == Frame("joining", "enter", f.arg, n, n)
  <2>1. \/ Reaches(n, f.arg) /\ Connect(n, f.arg) /\ Call(t, g, h)
        \/ Return(t) /\ UNCHANGED clients
    BY <1>5 DEF CallJoining
  <2>2. CASE Return(t) /\ UNCHANGED clients
    BY <1>1, <2>2, CalmStepIsOK
  <2>3. CASE Reaches(n, f.arg) /\ Connect(n, f.arg) /\ Call(t, g, h)
    <3>1. OpenIsAlive'
      BY <1>1, <1>2, <1>3, <2>3, OpenKept
    <3>2. Top(t)' = h
      BY <1>1, <1>2, <2>3, NewTop
    <3>3. h.pc = "enter" /\ h.fn = "joining"
      BY DEF Frame
    <3>4. QED
      BY <1>1, <3>1, <3>2, <3>3, OtherIsOK
  <2>4. QED
    BY <2>1, <2>2, <2>3
<1>6. CASE EnterJoining(t)
  <2> DEFINE g == [f EXCEPT !.pc = "repair"]
             h == [f EXCEPT !.pc = "copy"]
  <2>1. /\ UNCHANGED info
        /\ \/ /\ info[n].next = f.arg /\ Goto(t, g)
              /\ clients' = [clients EXCEPT ![n][f.arg] = "none"]
           \/ Goto(t, h) /\ UNCHANGED clients
    BY <1>6 DEF EnterJoining
  <2>2. OpenIsAlive'
    BY <1>1, <1>2, <1>3, <2>1, OpenKept
  <2>3. (Goto(t, g) => Top(t)' = g) /\ (Goto(t, h) => Top(t)' = h)
    BY <1>1, <1>2, NewTop
  <2>4. /\ g.pc = "repair" /\ g.fn = f.fn /\ g.at = n /\ g.arg = f.arg
        /\ h.pc = "copy" /\ h.fn = f.fn
    <3> HIDE DEF f
    <3>1. QED
      BY <1>2 DEF RingFrame
  <2> HIDE DEF g, h
  <2>5. CASE info[n].next = f.arg /\ Goto(t, g)
    <3>1. TopOK(Top(t))'
      BY <1>1, <2>1, <2>3, <2>4, <2>5 DEF TopOK
    <3>2. QED
      BY <1>1, <2>2, <3>1 DEF NextOK
  <2>6. CASE Goto(t, h)
    BY <1>1, <2>2, <2>3, <2>4, <2>6, OtherIsOK
  <2>7. QED
    BY <2>1, <2>5, <2>6
<1>7. CASE CopyNeighbors(t)
  <2> DEFINE todo == << Set(n, info[n].next, "prev", f.arg),
                        Set(n, info[n].prev, "nnext", f.arg) >>
             g == [f EXCEPT !.pc = "tell", !.next = info[n].next, !.todo = todo]
  <2>1. f.fn = "joining" /\ Goto(t, g) /\ UNCHANGED clients
    BY <1>7 DEF CopyNeighbors, At
  <2> HIDE DEF todo
  <2>2. Top(t)' = g
    BY <1>1, <1>2, <2>1, NewTop
  <2>3. g.pc = "tell" /\ g.fn = f.fn
    <3> HIDE DEF f
    <3>1. QED
      BY <1>2 DEF RingFrame
  <2> HIDE DEF g
  <2>4. QED
    BY <1>1, <1>4, <2>1, <2>2, <2>3, OtherIsOK
<1>8. CASE InsertNext(t)
  <2> DEFINE c == Caller(t)
             g == [c EXCEPT !.pc = "install", !.next = f.next,
                            !.nnext = info[n].nnext, !.prev = n]
  <2>1. f.fn = "joining" /\ ReturnTo(t, g) /\ UNCHANGED clients
    BY <1>8 DEF InsertNext, Told, At
  <2>2. Len(calls[t]) > 1 /\ c.fn = "join" /\ c \in WaitsFrames(alive)
    <3>1. Len(calls[t]) > 1 /\ CallsOf(c, f) /\ c \in WaitsFrames(alive)
      BY <1>1, <1>2, <2>1, TopForm DEF FirstFns, RequestFns
    <3>2. QED
      BY <2>1, <3>1 DEF CallsOf
  <2>3. c \in RingFrame
    BY <2>2 DEF WaitsFrames, WaitFrame
  <2>4. Top(t)' = g
    BY <1>2, <2>1, <2>2, NewTop
  <2> HIDE DEF c, f
  <2>5. g.pc = "install" /\ g.fn = c.fn
    BY <2>3 DEF RingFrame
  <2> HIDE DEF g
  <2>6. QED
    BY <1>1, <1>4, <2>1, <2>2, <2>4, <2>5, OtherIsOK
<1>9. CASE InstallNeighbors(t)
  BY <1>1, <1>9, CalmStepIsOK DEF InstallNeighbors
<1>10. QED
  BY <1>5, <1>6, <1>7, <1>8, <1>9

LEMMA LeavesOK ==
  ASSUME WaitsInv, NEW t \in Task,
         CallLeaving(t) \/ CopyLeaving(t) \/ EndLeaving(t) \/ BecomeAlone(t)
  PROVE  NextOK(t)
<1> DEFINE f == Top(t)
           n == f.at
<1>1. ~Idle(t) /\ f.fn \in {"leave", "leaving"} /\ UNCHANGED alive
  BY DEF CallLeaving, CopyLeaving, EndLeaving, BecomeAlone, Told, At
<1>2. /\ f \in RingFrame /\ NodesOK /\ OpenIsAlive /\ n \in Node
      /\ calls \in [Task -> Seq(WaitsFrames(alive))] /\ Forms
  BY <1>1, WaitsInvTop
<1>3. ASSUME UNCHANGED clients
      PROVE  OpenIsAlive'
  BY <1>1, <1>2, <1>3 DEF OpenIsAlive
<1>4. CASE CallLeaving(t)
  <2> DEFINE g == [f EXCEPT !.pc = "await"]
             h == Frame("leaving", "copy", n, n, n)
  <2>1. \/ Reaches(n, n) /\ Connect(n, n) /\ Call(t, g, h)
        \/ Return(t) /\ UNCHANGED clients
    BY <1>4 DEF CallLeaving
  <2>2. CASE Return(t) /\ UNCHANGED clients
    BY <1>1, <2>2, CalmStepIsOK
  <2>3. CASE Reaches(n, n) /\ Connect(n, n) /\ Call(t, g, h)
    <3>1. OpenIsAlive'
      BY <1>1, <1>2, <2>3, OpenKept
    <3>2. Top(t)' = h
      BY <1>1, <1>2, <2>3, NewTop
    <3>3. h.pc = "copy" /\ h.fn = "leaving"
      BY DEF Frame
    <3>4. QED
      BY <1>1, <3>1, <3>2, <3>3, OtherIsOK
  <2>4. QED
    BY <2>1, <2>2, <2>3
<1>5. CASE CopyLeaving(t)
  <2> DEFINE todo == LeaveSettings(n, info[n])
             g == [f EXCEPT !.pc = "tell", !.todo = todo]
  <2>1. f.fn = "leaving" /\ Goto(t, g) /\ UNCHANGED clients
    BY <1>5 DEF CopyLeaving, At
  <2> HIDE DEF todo
  <2>2. Top(t)' = g
    BY <1>1, <1>2, <2>1, NewTop
  <2>3. g.pc = "tell" /\ g.fn = f.fn
    <3> HIDE DEF f
    <3>1. QED
      BY <1>2 DEF RingFrame
  <2> HIDE DEF g
  <2>4. QED
    BY <1>1, <1>3, <2>1, <2>2, <2>3, OtherIsOK
<1>6. CASE EndLeaving(t)
  <2> DEFINE c == Caller(t)
             g == [c EXCEPT !.pc = "alone"]
  <2>1. f.fn = "leaving" /\ ReturnTo(t, g) /\ UNCHANGED clients
    BY <1>6 DEF EndLeaving, Told, At
  <2>2. Len(calls[t]) > 1 /\ c.fn = "leave" /\ c \in WaitsFrames(alive)
    <3>1. Len(calls[t]) > 1 /\ CallsOf(c, f) /\ c \in WaitsFrames(alive)
      BY <1>1, <1>2, <2>1, TopForm DEF FirstFns, RequestFns
    <3>2. QED
      BY <2>1, <3>1 DEF CallsOf
  <2>3. c \in RingFrame
    BY <2>2 DEF WaitsFrames, WaitFrame
  <2>4. Top(t)' = g
    BY <1>2, <2>1, <2>2, NewTop
  <2> HIDE DEF c, f
  <2>5. g.pc = "alone" /\ g.fn = c.fn
    BY <2>3 DEF RingFrame
  <2> HIDE DEF g
  <2>6. QED
    BY <1>1, <1>3, <2>1, <2>2, <2>4, <2>5, OtherIsOK
<1>7. CASE BecomeAlone(t)
  BY <1>1, <1>7, CalmStepIsOK DEF BecomeAlone
<1>8. QED
  BY <1>4, <1>5, <1>6, <1>7

\* The steps of missing_node.
LEMMA StillPast ==
  ASSUME UNCHANGED waitVars, \A v \in Node : info'[v].next = info[v].next,
         NEW d, NEW n, NEW o, WentPast(d, n, o)
  PROVE  WentPast(d, n, o)'
BY DEF WentPast, waitVars

\* A step of missing_node after which it has come as far as before.
LEMMA MissingGoesOn ==
  ASSUME UNCHANGED << alive, waitVars >>, OpenIsAlive',
         \A v \in Node : info'[v].next = info[v].next,
         NEW t \in Task, NEW f, NEW g, Top(t)' = g,
         g.fn = "missing", g.pc \in {"linked", "tell", "enter"},
         \A k \in 1 .. Len(g.todo) : g.todo[k].field = "nnext",
         g.from = f.from, g.arg = f.arg, NEW o,
         f.arg \notin alive => WentPast(f.arg, f.from, o),
         g.pc = "linked" => g.nnext = o,
         g.pc = "tell" => g.next = o,
         g.pc = "enter" => g.at = o
  PROVE  NextOK(t)
<1>1. g.arg \notin alive' => WentPast(g.arg, g.from, o)'
  BY StillPast
<1>2. g.arg \notin alive' => GoesPast(g)'
  BY <1>1 DEF GoesPast
<1>3. TopOK(Top(t))'
  BY <1>2 DEF TopOK
<1>4. QED
  BY <1>3 DEF NextOK

LEMMA TellNeighborOK ==
  ASSUME WaitsInv, NEW t \in Task, TellNeighbor(t), UNCHANGED waitVars
  PROVE  NextOK(t)
<1> DEFINE f == Top(t)
           s == Head(f.todo)
           rest == Tail(f.todo)
           first == << Set(s.who, info[s.who].prev, "nnext", s.value) >>
           todo == IF s.field = "nnextOfPrev" THEN first \o rest ELSE rest
           g == [f EXCEPT !.todo = todo]
<1>1. /\ ~Idle(t) /\ f.pc = "tell" /\ f.todo # << >> /\ UNCHANGED alive
      /\ \/ Fail(t)
         \/ /\ Reaches(s.by, s.who) /\ Connect(s.by, s.who) /\ Goto(t, g)
            /\ \/ s.field = "nnextOfPrev"
               \/ info' = [info EXCEPT ![s.who][s.field] = s.value]
  BY DEF TellNeighbor
<1>2. /\ f \in RingFrame /\ NodesOK /\ OpenIsAlive /\ TopOK(f)
      /\ calls \in [Task -> Seq(WaitsFrames(alive))]
  BY <1>1, WaitsInvTop
<1>3. /\ s \in Setting /\ s = f.todo[1] /\ Len(rest) = Len(f.todo) - 1
      /\ \A k \in 1 .. Len(rest) : rest[k] = f.todo[k + 1]
      /\ 1 \in 1 .. Len(f.todo)
      /\ \A k \in 1 .. Len(rest) : k + 1 \in 1 .. Len(f.todo)
  <2>1. f.todo \in Seq(Setting)
    BY <1>2 DEF RingFrame
  <2>2. QED
    BY <1>1, <2>1
<1>4. s.by \in Node /\ s.who \in Node
  BY <1>3 DEF Setting
<1>5. CASE Fail(t)
  BY <1>1, <1>5, CalmStepIsOK DEF Fail
<1>6. CASE /\ Reaches(s.by, s.who) /\ Connect(s.by, s.who) /\ Goto(t, g)
           /\ \/ s.field = "nnextOfPrev"
              \/ info' = [info EXCEPT ![s.who][s.field] = s.value]
  <2>1. OpenIsAlive'
    BY <1>1, <1>2, <1>4, <1>6, OpenKept
  <2>2. Top(t)' = g
    <3> HIDE DEF g, s, todo
    <3>1. QED
      BY <1>1, <1>2, <1>6, NewTop
  <2>3. /\ g.fn = f.fn /\ g.pc = "tell" /\ g.from = f.from /\ g.arg = f.arg
        /\ g.next = f.next /\ g.todo = todo
    <3> HIDE DEF f, todo
    <3>1. QED
      BY <1>1, <1>2 DEF RingFrame
  <2> HIDE DEF g
  <2>4. CASE f.fn # "missing"
    BY <1>1, <2>1, <2>2, <2>3, <2>4, OtherIsOK
  <2>5. CASE f.fn = "missing"
    <3>1. /\ \A k \in 1 .. Len(f.todo) : f.todo[k].field = "nnext"
          /\ f.arg \notin alive => WentPast(f.arg, f.from, f.next)
      BY <1>1, <1>2, <2>5 DEF TopOK, GoesPast
    <3>2. s.field = "nnext"
      BY <1>3, <3>1
    <3>3. info' = [info EXCEPT ![s.who].nnext = s.value]
      BY <1>6, <3>2
    <3>4. \A v \in Node : info'[v].next = info[v].next
      BY <1>2, <3>3 DEF NodesOK
    <3>5. \A k \in 1 .. Len(g.todo) : g.todo[k].field = "nnext"
      <4>1. g.todo = rest
        BY <2>3, <3>2
      <4> HIDE DEF rest
      <4>2. QED
        BY <1>3, <3>1, <4>1
    <3>6. QED
      BY <1>1, <2>1, <2>2, <2>3, <2>5, <3>1, <3>4, <3>5, MissingGoesOn
  <2>6. QED
    BY <2>4, <2>5
<1>7. QED
  BY <1>1, <1>5, <1>6

LEMMA RelinkOK ==
  ASSUME WaitsInv, NEW t \in Task, Relink(t), UNCHANGED waitVars
  PROVE  NextOK(t)
<1> DEFINE f == Top(t)
           r == info[f.nnext].next
           g == [f EXCEPT !.pc = "linked", !.reply = r]
<1>1. /\ ~Idle(t) /\ f.fn = "missing" /\ f.pc = "relink" /\ UNCHANGED alive
      /\ \/ Fail(t)
         \/ /\ Reaches(f.at, f.nnext) /\ Connect(f.at, f.nnext) /\ Goto(t, g)
            /\ info' = [info EXCEPT ![f.nnext].prev = f.at]
  BY DEF Relink, At
<1>2. /\ f \in RingFrame /\ NodesOK /\ OpenIsAlive /\ TopOK(f) /\ f.at \in Node
      /\ calls \in [Task -> Seq(WaitsFrames(alive))]
  BY <1>1, WaitsInvTop
<1>3. f.nnext \in Node
  BY <1>2 DEF RingFrame
<1>4. CASE Fail(t)
  BY <1>1, <1>4, CalmStepIsOK DEF Fail
<1>5. CASE /\ Reaches(f.at, f.nnext) /\ Connect(f.at, f.nnext) /\ Goto(t, g)
           /\ info' = [info EXCEPT ![f.nnext].prev = f.at]
  <2>1. OpenIsAlive'
    BY <1>1, <1>2, <1>3, <1>5, OpenKept
  <2>2. Top(t)' = g
    BY <1>1, <1>2, <1>5, NewTop
  <2>3. \A v \in Node : info'[v].next = info[v].next
    BY <1>2, <1>5 DEF NodesOK
  <2>4. /\ g.fn = f.fn /\ g.pc = "linked" /\ g.from = f.from /\ g.arg = f.arg
        /\ g.nnext = f.nnext /\ g.todo = f.todo
    <3> HIDE DEF f, r
    <3>1. QED
      BY <1>2 DEF RingFrame
  <2> HIDE DEF g
  <2>5. /\ \A k \in 1 .. Len(f.todo) : f.todo[k].field = "nnext"
        /\ f.arg \notin alive => WentPast(f.arg, f.from, f.nnext)
    BY <1>1, <1>2 DEF TopOK, GoesPast
  <2>6. QED
    BY <1>1, <2>1, <2>2, <2>3, <2>4, <2>5, MissingGoesOn
<1>6. QED
  BY <1>1, <1>4, <1>5

LEMMA LinkedOK ==
  ASSUME WaitsInv, NEW t \in Task, Linked(t), UNCHANGED waitVars
  PROVE  NextOK(t)
<1> DEFINE f == Top(t)
           n == f.at
           two == f.prev = f.next
           todo == IF two THEN << >> ELSE << Set(n, f.prev, "nnext", f.nnext) >>
           i == [next |-> info[n].next, nnext |-> f.reply,
                 prev |-> IF two THEN f.nnext ELSE info[n].prev]
           g == [f EXCEPT !.pc = "tell", !.next = f.nnext, !.todo = todo]
<1>1. /\ ~Idle(t) /\ f.fn = "missing" /\ f.pc = "linked"
      /\ UNCHANGED << alive, clients >>
      /\ info' = [info EXCEPT ![n] = i] /\ Goto(t, g)
  BY DEF Linked, At
<1>2. /\ f \in RingFrame /\ NodesOK /\ OpenIsAlive /\ TopOK(f) /\ n \in Node
      /\ calls \in [Task -> Seq(WaitsFrames(alive))]
  BY <1>1, WaitsInvTop
<1>3. \A k \in 1 .. Len(todo) : todo[k].field = "nnext"
  <2>1. CASE two
    BY <2>1
  <2>2. CASE ~two
    <3> DEFINE s == Set(n, f.prev, "nnext", f.nnext)
    <3>1. s.field = "nnext"
      BY DEF Set
    <3>2. todo = << s >>
      BY <2>2
    <3> HIDE DEF s, todo
    <3>3. QED
      BY <3>1, <3>2
  <2>3. QED
    BY <2>1, <2>2
<1> HIDE DEF todo
<1>4. i.next = info[n].next
  OBVIOUS
<1> HIDE DEF i
<1>5. \A v \in Node : info'[v].next = info[v].next
  BY <1>1, <1>2, <1>4 DEF NodesOK
<1>6. Top(t)' = g
  BY <1>1, <1>2, NewTop
<1>7. /\ g.fn = f.fn /\ g.pc = "tell" /\ g.from = f.from /\ g.arg = f.arg
      /\ g.next = f.nnext /\ g.todo = todo
  <2> HIDE DEF f
  <2>1. QED
    BY <1>2 DEF RingFrame
<1> HIDE DEF g
<1>8. f.arg \notin alive => WentPast(f.arg, f.from, f.nnext)
  BY <1>1, <1>2 DEF TopOK, GoesPast
<1>9. OpenIsAlive'
  BY <1>1, <1>2 DEF OpenIsAlive
<1>10. QED
  BY <1>1, <1>3, <1>5, <1>6, <1>7, <1>8, <1>9, MissingGoesOn

LEMMA PassMissingOK ==
  ASSUME WaitsInv, NEW t \in Task, PassMissing(t) \/ RepairUnanswered(t),
         UNCHANGED waitVars
  PROVE  NextOK(t)
<1> DEFINE f == Top(t)
           g == Frame("missing", "enter", f.next, f.arg, f.from)
<1>1. /\ ~Idle(t) /\ f.fn = "missing" /\ f.pc = "tell" /\ UNCHANGED alive
      /\ \/ Fail(t)
         \/ /\ Reaches(f.at, f.next) /\ Connect(f.at, f.next) /\ Goto(t, g)
            /\ UNCHANGED info
  BY DEF PassMissing, RepairUnanswered, Told, At
<1>2. /\ NodesOK /\ OpenIsAlive /\ TopOK(f) /\ f.at \in Node /\ f.next \in Node
      /\ calls \in [Task -> Seq(WaitsFrames(alive))]
  BY <1>1, WaitsInvTop
<1>3. CASE Fail(t)
  BY <1>1, <1>3, CalmStepIsOK DEF Fail
<1>4. CASE /\ Reaches(f.at, f.next) /\ Connect(f.at, f.next) /\ Goto(t, g)
           /\ UNCHANGED info
  <2>1. OpenIsAlive'
    BY <1>1, <1>2, <1>4, OpenKept
  <2>2. Top(t)' = g
    BY <1>1, <1>2, <1>4, NewTop
  <2>3. /\ g.fn = "missing" /\ g.pc = "enter" /\ g.from = f.from /\ g.arg = f.arg
        /\ g.at = f.next /\ g.todo = << >>
    BY DEF Frame
  <2> HIDE DEF g
  <2>4. \A k \in 1 .. Len(g.todo) : g.todo[k].field = "nnext"
    BY <2>3
  <2>5. f.arg \notin alive => WentPast(f.arg, f.from, f.next)
    BY <1>1, <1>2 DEF TopOK, GoesPast
  <2>6. QED
    BY <1>1, <1>4, <2>1, <2>2, <2>3, <2>4, <2>5, MissingGoesOn
<1>5. QED
  BY <1>1, <1>3, <1>4

\* Node n has forgotten the missing one, and missing_node goes on from it.
LEMMA MissingLeaves ==
  ASSUME UNCHANGED alive, OpenIsAlive', NEW n \in Node, NEW t \in Task, NEW g,
         Top(t)' = g, g.fn = "missing", g.pc \in {"relink", "tell"},
         g.from \in Node,
         \A k \in 1 .. Len(g.todo) : g.todo[k].field = "nnext",
         \A v \in Node : waitingFrom'[v] \subseteq waitingFrom[v],
         \A v \in Node : permissionQueue'[v] \subseteq permissionQueue[v],
         \A v \in Node \ {n} : info'[v].next = info[v].next,
         g.arg \notin alive =>
           /\ g.arg \notin waitingFrom'[n] \cup permissionQueue'[n]
           /\ n = g.from \/ WentPast(g.arg, g.from, n)
           /\ g.pc = "relink" => g.nnext = info'[n].next
           /\ g.pc = "tell" => g.next = info'[n].next
  PROVE  NextOK(t)
<1>1. PICK d, from, o : d = g.arg /\ from = g.from /\ o = info'[n].next
  OBVIOUS
<1>2. ASSUME d \notin alive
      PROVE  WentPast(d, from, o)'
  <2>1. PICK V \in SUBSET Node :
          /\ from \in V \cup {n}
          /\ \A v \in V : d \notin waitingFrom[v] \cup permissionQueue[v]
          /\ \A v \in V : info[v].next \in V \cup {n}
    <3>1. CASE n = from
      <4>1. {} \in SUBSET Node /\ \A v \in {} : FALSE
        OBVIOUS
      <4>2. QED
        BY <3>1, <4>1
    <3>2. CASE WentPast(d, from, n)
      BY <3>2 DEF WentPast
    <3>3. QED
      BY <1>1, <1>2, <3>1, <3>2
  <2> DEFINE W == V \cup {n}
  <2>2. W \in SUBSET Node /\ from \in W
    BY <1>1, <2>1
  <2>3. \A v \in W : d \notin waitingFrom'[v] \cup permissionQueue'[v]
    BY <1>1, <1>2, <2>1
  <2>4. \A v \in W : info'[v].next \in W \cup {o}
    BY <1>1, <2>1
  <2> HIDE DEF W
  <2>5. QED
    BY <2>2, <2>3, <2>4 DEF WentPast
<1>3. g.arg \notin alive' => GoesPast(g)'
  BY <1>1, <1>2 DEF GoesPast
<1>4. TopOK(Top(t))'
  BY <1>3 DEF TopOK
<1>5. QED
  BY <1>4 DEF NextOK

\* Node n has forgotten the missing one, and missing_node is still at it.
LEMMA MissingStays ==
  ASSUME UNCHANGED alive, OpenIsAlive', NEW n \in Node, NEW t \in Task, NEW g,
         Top(t)' = g, g.fn = "missing", g.pc \in {"forget", "unlink"}, g.at = n,
         \A k \in 1 .. Len(g.todo) : g.todo[k].field = "nnext",
         \A v \in Node : waitingFrom'[v] \subseteq waitingFrom[v],
         \A v \in Node : permissionQueue'[v] \subseteq permissionQueue[v],
         \A v \in Node : info'[v].next = info[v].next,
         g.arg \notin alive =>
           /\ g.arg \notin waitingFrom'[n] \cup permissionQueue'[n]
           /\ n = g.from \/ WentPast(g.arg, g.from, n)
           /\ g.pc = "forget" => g.next = info'[n].next
  PROVE  NextOK(t)
<1>1. WentPast(g.arg, g.from, n) => WentPast(g.arg, g.from, n)'
  <2> SUFFICES ASSUME WentPast(g.arg, g.from, n)
               PROVE  WentPast(g.arg, g.from, n)'
    OBVIOUS
  <2>1. PICK V \in SUBSET Node :
          /\ g.from \in V
          /\ \A v \in V : g.arg \notin waitingFrom[v] \cup permissionQueue[v]
          /\ \A v \in V : info[v].next \in V \cup {n}
    BY DEF WentPast
  <2>2. /\ \A v \in V : g.arg \notin waitingFrom'[v] \cup permissionQueue'[v]
        /\ \A v \in V : info'[v].next \in V \cup {n}
    BY <2>1
  <2>3. QED
    BY <2>1, <2>2 DEF WentPast
<1>2. g.arg \notin alive' =>
        Forgot(g)' /\ (g.pc = "forget" => g.next = info'[g.at].next)
  BY <1>1 DEF Forgot
<1>3. TopOK(Top(t))'
  BY <1>2 DEF TopOK, GoesPast
<1>4. QED
  BY <1>3 DEF NextOK

LEMMA ForgetMissingOK ==
  ASSUME WaitsInv, NEW t \in Task, ForgetMissing(t), UNCHANGED waitVars
  PROVE  NextOK(t)
<1> DEFINE f == Top(t)
           n == f.at
           d == f.arg
           i == info[n]
           g == [f EXCEPT !.pc = "unlink", !.nnext = i.nnext, !.prev = i.prev]
           h == [f EXCEPT !.pc = "tell"]
<1>1. /\ ~Idle(t) /\ f.fn = "missing" /\ f.pc = "forget"
      /\ UNCHANGED << info, alive >>
      /\ clients' = [clients EXCEPT ![n][d] = "none"]
      /\ Goto(t, g) \/ Goto(t, h)
  BY DEF ForgetMissing, At
<1>2. /\ f \in RingFrame /\ NodesOK /\ OpenIsAlive /\ TopOK(f)
      /\ n \in Node /\ calls \in [Task -> Seq(WaitsFrames(alive))]
  BY <1>1, WaitsInvTop
<1>3. d \in Node /\ f.from \in Node
  BY <1>2 DEF RingFrame
<1>4. OpenIsAlive'
  BY <1>1, <1>2, <1>3, OpenKept
<1>5. /\ g.pc = "unlink" /\ g.fn = f.fn /\ g.from = f.from /\ g.arg = d
      /\ g.at = n /\ g.todo = f.todo
      /\ h.pc = "tell" /\ h.fn = f.fn /\ h.from = f.from /\ h.arg = d
      /\ h.next = f.next /\ h.todo = f.todo
  <2> HIDE DEF f, i
  <2>1. QED
    BY <1>2 DEF RingFrame
<1>6. (Goto(t, g) => Top(t)' = g) /\ (Goto(t, h) => Top(t)' = h)
  BY <1>1, <1>2, NewTop
<1>7. /\ \A k \in 1 .. Len(f.todo) : f.todo[k].field = "nnext"
      /\ d \notin alive => Forgot(f) /\ f.next = i.next
  BY <1>1, <1>2 DEF TopOK, GoesPast
<1> HIDE DEF g, h
<1>8. /\ d \notin alive =>
           /\ d \notin waitingFrom'[n] \cup permissionQueue'[n]
           /\ n = f.from \/ WentPast(d, f.from, n)
           /\ f.next = info'[n].next
      /\ \A v \in Node : /\ waitingFrom'[v] \subseteq waitingFrom[v]
                         /\ permissionQueue'[v] \subseteq permissionQueue[v]
                         /\ info'[v].next = info[v].next
  BY <1>1, <1>7 DEF Forgot, waitVars
<1>9. CASE Goto(t, g)
  <2>1. Top(t)' = g
    BY <1>6, <1>9
  <2>2. /\ g.fn = "missing"
        /\ \A k \in 1 .. Len(g.todo) : g.todo[k].field = "nnext"
        /\ g.arg \notin alive =>
             /\ g.arg \notin waitingFrom'[n] \cup permissionQueue'[n]
             /\ n = g.from \/ WentPast(g.arg, g.from, n)
    BY <1>1, <1>5, <1>7, <1>8
  <2> HIDE DEF f, n, d, i
  <2>3. QED
    BY <1>1, <1>2, <1>4, <1>5, <1>8, <2>1, <2>2, MissingStays
<1>10. CASE Goto(t, h)
  <2>1. Top(t)' = h
    BY <1>6, <1>10
  <2>2. /\ h.fn = "missing" /\ h.from \in Node
        /\ \A k \in 1 .. Len(h.todo) : h.todo[k].field = "nnext"
        /\ h.arg \notin alive =>
             /\ h.arg \notin waitingFrom'[n] \cup permissionQueue'[n]
             /\ n = h.from \/ WentPast(h.arg, h.from, n)
             /\ h.next = info'[n].next
    BY <1>1, <1>3, <1>5, <1>7, <1>8
  <2> HIDE DEF f, n, d, i
  <2>3. QED
    BY <1>1, <1>2, <1>4, <1>5, <1>8, <2>1, <2>2, MissingLeaves
<1>11. QED
  BY <1>1, <1>9, <1>10

LEMMA UnlinkOK ==
  ASSUME WaitsInv, NEW t \in Task, Unlink(t), UNCHANGED waitVars
  PROVE  NextOK(t)
<1> DEFINE f == Top(t)
           n == f.at
           d == f.arg
           g == [f EXCEPT !.pc = "relink"]
<1>1. /\ ~Idle(t) /\ f.fn = "missing" /\ f.pc = "unlink" /\ UNCHANGED alive
      /\ clients' = [clients EXCEPT ![n][d] = "none"]
      /\ info' = [info EXCEPT ![n].next = f.nnext] /\ Goto(t, g)
  BY DEF Unlink, At
<1>2. /\ f \in RingFrame /\ NodesOK /\ OpenIsAlive /\ TopOK(f)
      /\ n \in Node /\ calls \in [Task -> Seq(WaitsFrames(alive))]
  BY <1>1, WaitsInvTop
<1>3. d \in Node /\ f.from \in Node
  BY <1>2 DEF RingFrame
<1>4. OpenIsAlive'
  BY <1>1, <1>2, <1>3, OpenKept
<1>5. /\ g.pc = "relink" /\ g.fn = f.fn /\ g.from = f.from /\ g.arg = d
      /\ g.nnext = f.nnext /\ g.todo = f.todo
  <2> HIDE DEF f
  <2>1. QED
    BY <1>2 DEF RingFrame
<1>6. Top(t)' = g
  BY <1>1, <1>2, NewTop
<1>7. /\ \A k \in 1 .. Len(f.todo) : f.todo[k].field = "nnext"
      /\ d \notin alive => Forgot(f)
  BY <1>1, <1>2 DEF TopOK, GoesPast
<1>8. /\ info'[n].next = f.nnext
      /\ \A v \in Node \ {n} : info'[v].next = info[v].next
  BY <1>1, <1>2 DEF NodesOK
<1>9. \A v \in Node : /\ waitingFrom'[v] \subseteq waitingFrom[v]
                      /\ permissionQueue'[v] \subseteq permissionQueue[v]
  BY DEF waitVars
<1> HIDE DEF g
<1>10. /\ g.fn = "missing" /\ g.from \in Node /\ g.nnext = info'[n].next
       /\ \A k \in 1 .. Len(g.todo) : g.todo[k].field = "nnext"
       /\ g.arg \notin alive =>
            /\ g.arg \notin waitingFrom'[n] \cup permissionQueue'[n]
            /\ n = g.from \/ WentPast(g.arg, g.from, n)
  BY <1>1, <1>3, <1>5, <1>7, <1>8 DEF Forgot, waitVars
<1> HIDE DEF f, n, d
<1>11. QED
  BY <1>1, <1>2, <1>4, <1>5, <1>6, <1>8, <1>9, <1>10, MissingLeaves

LEMMA RingPartOK ==
  ASSUME WaitsInv, NEW t \in Task, RingPart(t)
  PROVE  NextOK(t)
BY TellNeighborOK, JoinsOK, RepairsOK, LeavesOK, ForgetMissingOK, UnlinkOK,
   RelinkOK, LinkedOK, PassMissingOK, CopyNextOK, SendMessageOK
DEF RingPart


\* missing_node enters a node, which forgets the missing one.
LEMMA MissingOK ==
  ASSUME WaitsInv, NEW t \in Task, Missing(t)
  PROVE  NextOK(t)
<1> DEFINE f == Top(t)
           n == f.at
           d == f.arg
           i == info[n]
           g == [f EXCEPT !.pc = "forget", !.next = i.next]
<1>1. /\ ~Idle(t) /\ f.fn = "missing" /\ f.pc = "enter"
      /\ UNCHANGED << info, alive, clients >>
      /\ \/ Return(t)
         \/ /\ ~(n = f.from /\ i.next # d)
            /\ DeleteDependencies(n, d) /\ Goto(t, g)
  BY DEF Missing, EnterMissing, At
<1>2. /\ f \in RingFrame /\ NodesOK /\ WaitsOK /\ OpenIsAlive /\ TopOK(f)
      /\ n \in Node /\ calls \in [Task -> Seq(WaitsFrames(alive))]
  BY <1>1, WaitsInvTop
<1>3. CASE Return(t)
  BY <1>1, <1>3, CalmStepIsOK
<1>4. CASE ~(n = f.from /\ i.next # d) /\ DeleteDependencies(n, d) /\ Goto(t, g)
  <2>1. OpenIsAlive'
    BY <1>1, <1>2 DEF OpenIsAlive
  <2>2. /\ g.pc = "forget" /\ g.fn = f.fn /\ g.from = f.from /\ g.arg = d
        /\ g.at = n /\ g.next = i.next /\ g.todo = f.todo
    <3> HIDE DEF f, i
    <3>1. QED
      BY <1>2 DEF RingFrame
  <2>3. Top(t)' = g
    BY <1>1, <1>2, <1>4, NewTop
  <2>4. /\ \A k \in 1 .. Len(f.todo) : f.todo[k].field = "nnext"
        /\ d \notin alive => n = f.from \/ WentPast(d, f.from, n)
    BY <1>1, <1>2, <1>4 DEF TopOK, GoesPast
  <2>5. /\ waitingFrom' = [waitingFrom EXCEPT ![n] = waitingFrom[n] \ {d}]
        /\ permissionQueue' = [permissionQueue EXCEPT ![n] = @ \ {d}]
    BY <1>4 DEF DeleteDependencies
  <2>6. /\ d \notin waitingFrom'[n] \cup permissionQueue'[n]
        /\ \A v \in Node : /\ waitingFrom'[v] \subseteq waitingFrom[v]
                           /\ permissionQueue'[v] \subseteq permissionQueue[v]
    BY <1>2, <2>5 DEF WaitsOK
  <2> HIDE DEF g
  <2>7. /\ g.fn = "missing" /\ g.next = info'[n].next
        /\ \A k \in 1 .. Len(g.todo) : g.todo[k].field = "nnext"
        /\ g.arg \notin waitingFrom'[n] \cup permissionQueue'[n]
        /\ g.arg \notin alive => n = g.from \/ WentPast(g.arg, g.from, n)
        /\ \A v \in Node : info'[v].next = info[v].next
    BY <1>1, <2>2, <2>4, <2>6
  <2> HIDE DEF f, n, d, i
  <2>8. QED
    BY <1>1, <1>2, <2>1, <2>2, <2>3, <2>6, <2>7, MissingStays
<1>5. QED
  BY <1>1, <1>3, <1>4

-----------------------------------------------------------------------------
(* The invariant, for requests that are made one at a time.                *)

\* One request at a time, and no node is killed while it is under way.
OneAtATime == KillBetween /\ \E t : Task = {t}

LEMMA WaitsInvNext ==
  ASSUME OneAtATime, WaitsInv, [RingWaitsNext]_ringWaitsVars
  PROVE  WaitsInv'
<1>1. /\ Ready(WaitsFrames(alive)) /\ WaitsOK /\ OpenIsAlive /\ alive \in SUBSET Node
      /\ NodesOK
      /\ \A t, u \in Task : t = u
  BY DEF WaitsInv, OneAtATime, Ready, NodesOK
<1>2. ReadyToWait(alive)
  BY <1>1 DEF ReadyToWait, ReachesOnly, Reaches, OpenIsAlive
<1>3. ASSUME NEW t \in Task, Keeping(alive, t), NextOK(t)
      PROVE  WaitsInv'
  <2> DEFINE F == WaitsFrames(alive)
  <2>1. /\ calls' \in [Task -> Seq(F)] /\ NodesOK' /\ WaitsOK'
        /\ StackForm(calls'[t])
    BY <1>3 DEF Keeping, Formed
  <2>2. /\ OpenIsAlive' /\ UNCHANGED alive /\ (~Idle(t)' => TopOK(Top(t))')
        /\ F = WaitsFrames(alive)'
    BY <1>3 DEF NextOK, WaitsFrames
  <2> HIDE DEF F
  <2>3. Forms'
    BY <1>1, <2>1 DEF Forms
  <2>4. Ready(WaitsFrames(alive))'
    BY <2>1, <2>2, <2>3 DEF Ready
  <2>5. (\A u \in Task : ~Idle(u) => TopOK(Top(u)))'
    BY <1>1, <2>2
  <2>6. QED
    BY <2>1, <2>2, <2>4, <2>5 DEF WaitsInv
<1>4. ASSUME NEW n \in Node, Kill(n), UNCHANGED waitVars
      PROVE  WaitsInv'
  <2>1. /\ \A t \in Task : calls[t] = << >>
        /\ alive' = alive \ {n} /\ UNCHANGED info
        /\ clients' = [m \in Node |->
              [clients[m] EXCEPT ![n] = IF @ = "open" THEN "closed" ELSE @]]
        /\ calls' = [t \in Task |-> Interrupted(calls[t], n)]
    BY <1>4 DEF Kill, OneAtATime, Idle
  <2>2. NodesOK'
    BY <1>1, <2>1 DEF NodesOK
  <2>3. OpenIsAlive'
    <3>1. \A m, o \in Node : clients'[m][o] = "open" => o # n /\ clients[m][o] = "open"
      BY <1>1, <2>1 DEF NodesOK
    <3>2. QED
      BY <1>1, <2>1, <3>1 DEF OpenIsAlive
  <2>4. calls' = [t \in Task |-> << >>]
    <3>1. Interrupted(<< >>, n) = << >>
      BY DEF Interrupted
    <3>2. QED
      BY <2>1, <3>1
  <2>5. Ready(WaitsFrames(alive))'
    BY <2>2, <2>4 DEF Ready, Forms, StackForm
  <2>6. WaitsOK'
    BY <1>1, <1>4 DEF WaitsOK, waitVars
  <2>7. (\A t \in Task : ~Idle(t) => TopOK(Top(t)))'
    BY <2>4 DEF Idle
  <2>8. QED
    BY <2>3, <2>5, <2>6, <2>7 DEF WaitsInv
<1>5. ASSUME NEW t \in Task,
             \/ \E n, o \in Node : StartWait(t, n, o)
             \/ \E n \in Node : StartSetActive(t, n) \/ Leave(t, n)
             \/ RingWaitsStep(t)
      PROVE  WaitsInv'
  <2> DEFINE A == alive
  <2>1. ReadyToWait(A) /\ A \in SUBSET Node
    BY <1>1, <1>2
  <2> HIDE DEF A
  <2>2. CASE \/ \E n, o \in Node : StartWait(t, n, o)
             \/ \E n \in Node : StartSetActive(t, n)
             \/ ReceiveRequest(t) \/ EndWait(t)
             \/ \E o \in Node : SendGrant(t, o)
             \/ EndSetActive(t) \/ ReceiveGrant(t) \/ EndGrant(t)
             \/ EndLostMessage(t)
    <3>1. KeptWaits(A, t) /\ Keeping(A, t)
      BY <2>1, <2>2, WaitsStepKeeps
    <3>2. QED
      BY <1>3, <3>1, WaitsStepOK DEF A
  <2>3. CASE MessageUnanswered(t)
    <3>1. Keeping(A, t)
      BY <2>1, <2>3, MessageUnansweredKeeps DEF Keeping
    <3>2. QED
      BY <1>3, <2>3, <3>1, MessageUnansweredOK DEF A
  <2>4. CASE Missing(t)
    BY <1>3, <2>1, <2>4, MissingKeeps, MissingOK DEF A
  <2>5. CASE RingPart(t)
    BY <1>3, <2>1, <2>5, RingPartKeeps, RingPartOK DEF A
  <2>6. CASE \E n \in Node : Leave(t, n)
    <3>1. /\ Keeping(A, t) /\ UNCHANGED << info, alive, clients >>
          /\ Top(t)'.fn = "leave" /\ Top(t)'.pc = "call"
      BY <2>1, <2>6, LeaveKeeps
    <3>2. OpenIsAlive'
      BY <1>1, <3>1 DEF OpenIsAlive
    <3>3. NextOK(t)
      BY <3>1, <3>2, OtherIsOK
    <3>4. QED
      BY <1>3, <3>1, <3>3 DEF A
  <2>7. QED
    BY <1>5, <2>2, <2>3, <2>4, <2>5, <2>6 DEF RingWaitsStep
<1>6. ASSUME NEW t \in Task, NEW n \in Node, ReviveNode(t, n)
      PROVE  WaitsInv'
  <2> DEFINE f == Frame("join", "call", n, info[n].prev, n)
  <2>0. PICK A, B : A = alive /\ B = alive \cup {n}
    OBVIOUS
  <2>1. /\ Idle(t) /\ alive' = B /\ UNCHANGED << info, clients >>
        /\ Revive(t, n) /\ ForgetWaits(n)
        /\ Begin(t, f) \/ UNCHANGED calls
    BY <1>6, <2>0 DEF ReviveNode, Revive
  <2>2. FrameSet(WaitsFrames(A)) /\ Ready(WaitsFrames(A)) /\ Seq(WaitsFrames(A)) \subseteq Seq(WaitsFrames(B))
    <3>1. FrameSet(WaitsFrames(A))
      BY <1>1, <1>2, <2>0, WaitsFrameSet DEF ReadyToWait
    <3>2. WaitsFrames(A) \subseteq WaitsFrames(B)
      BY <2>0 DEF WaitsFrames
    <3> DEFINE F == WaitsFrames(A)
               G == WaitsFrames(B)
    <3> HIDE DEF F, G
    <3>3. Seq(F) \subseteq Seq(G)
      BY <3>2, SeqMonotonic DEF F, G
    <3>4. QED
      BY <1>1, <2>0, <3>1, <3>3 DEF F, G
  <2>3. calls' \in [Task -> Seq(WaitsFrames(B))] /\ NodesOK' /\ Forms'
    <3> DEFINE F == WaitsFrames(A)
    <3>0. Ready(F)' = (calls' \in [Task -> Seq(F)] /\ NodesOK' /\ Forms')
      BY DEF Ready, WaitsFrames
    <3> HIDE DEF F
    <3>1. Ready(F)'
      BY <2>1, <2>2, ReviveKeeps DEF F
    <3>2. calls' \in [Task -> Seq(F)] /\ NodesOK' /\ Forms'
      BY <3>0, <3>1
    <3>3. QED
      BY <2>2, <3>2 DEF F
  <2>4. Ready(WaitsFrames(alive))'
    <3>1. WaitsFrames(B) = WaitsFrames(alive)'
      BY <2>1 DEF WaitsFrames
    <3>2. QED
      BY <2>3, <3>1 DEF Ready
  <2>5. WaitsOK' /\ OpenIsAlive'
    <3>1. WaitsOK'
      BY <1>1, <2>1, WaitsForgotten
    <3>2. OpenIsAlive'
      BY <1>1, <2>0, <2>1 DEF OpenIsAlive
    <3>3. QED
      BY <3>1, <3>2
  <2>6. (\A u \in Task : ~Idle(u) => TopOK(Top(u)))'
    <3>1. CASE Begin(t, f)
      <4>1. Top(t)' = f
        BY <1>1, <3>1, NewTop DEF Ready
      <4>2. f.fn = "join" /\ f.pc = "call"
        BY DEF Frame
      <4> HIDE DEF f
      <4>3. TopOK(Top(t))'
        BY <4>1, <4>2 DEF TopOK
      <4>4. QED
        BY <1>1, <4>3
    <3>2. CASE UNCHANGED calls
      BY <1>1, <2>1, <3>2 DEF Idle
    <3>3. QED
      BY <2>1, <3>1, <3>2
  <2>7. QED
    BY <2>4, <2>5, <2>6 DEF WaitsInv
<1>7. ASSUME NEW n \in Node, SetPassive(n)
      PROVE  WaitsInv'
  <2>1. /\ isActive' = [isActive EXCEPT ![n] = FALSE]
        /\ UNCHANGED << ringVars, waitingFrom, permissionQueue >>
    BY <1>7 DEF SetPassive
  <2>2. WaitsOK'
    BY <1>1, <2>1 DEF WaitsOK
  <2>3. Ready(WaitsFrames(alive))'
    BY <1>1, <2>1 DEF ringVars, Ready, NodesOK, Forms, WaitsFrames
  <2>4. (\A u \in Task : ~Idle(u) => TopOK(Top(u)))'
    BY <2>1 DEF WaitsInv, ringVars, Idle, Top, TopOK, GoesPast, Forgot, WentPast
  <2>5. QED
    BY <1>1, <2>1, <2>2, <2>3, <2>4 DEF WaitsInv, ringVars, OpenIsAlive
<1>8. CASE UNCHANGED ringWaitsVars
  <2>1. UNCHANGED << ringVars, waitVars >>
    BY <1>8 DEF ringWaitsVars
  <2>2. Ready(WaitsFrames(alive))'
    BY <1>1, <2>1 DEF ringVars, Ready, NodesOK, Forms, WaitsFrames
  <2>3. (\A u \in Task : ~Idle(u) => TopOK(Top(u)))'
    BY <2>1 DEF WaitsInv, ringVars, waitVars, Idle, Top, TopOK, GoesPast, Forgot, WentPast
  <2>4. QED
    BY <1>1, <2>1, <2>2, <2>3 DEF WaitsInv, ringVars, waitVars, WaitsOK, OpenIsAlive
<1>9. CASE RingWaitsNext
  <2>1. \A n \in Node : RingOf(n) \subseteq Node
    BY DEF RingOf
  <2>2. \A n \in Node : Waits[n] \cap RingOf(n) \subseteq Node
    BY <2>1
  <2>3. CASE \E t \in Task, n \in Node :
               (\E o \in Node : StartWait(t, n, o))
                 \/ StartSetActive(t, n) \/ Leave(t, n)
    BY <1>5, <2>3
  <2>4. CASE \E t \in Task : RingWaitsStep(t)
    BY <1>5, <2>4
  <2>5. CASE \E t \in Task, n \in Node : ReviveNode(t, n)
    BY <1>6, <2>5
  <2>6. CASE \E n \in Node : SetPassive(n) \/ (Kill(n) /\ UNCHANGED waitVars)
    BY <1>4, <1>7, <2>6
  <2>7. QED
    BY <1>9, <2>2, <2>3, <2>4, <2>5, <2>6, Zenon DEF RingWaitsNext
<1>10. QED
  BY <1>8, <1>9


LEMMA ForgottenInTheRing ==
  ASSUME WaitsInv
  PROVE  MissingIsForgotten
<1> SUFFICES ASSUME NEW t \in Task, At(t, "missing", "enter"),
                    Top(t).at = Top(t).from, info[Top(t).at].next # Top(t).arg,
                    Top(t).arg \notin alive, NEW m \in RingOf(Top(t).at)
             PROVE  Top(t).arg \notin waitingFrom[m] \cup permissionQueue[m]
  BY DEF MissingIsForgotten
<1> DEFINE f == Top(t)
<1>1. ~Idle(t) /\ f.fn = "missing" /\ f.pc = "enter"
  BY DEF At
<1>2. WentPast(f.arg, f.from, f.at)
  BY <1>1 DEF WaitsInv, TopOK, GoesPast
<1>3. PICK V \in SUBSET Node :
        /\ f.at \in V
        /\ \A v \in V : f.arg \notin waitingFrom[v] \cup permissionQueue[v]
        /\ \A v \in V : info[v].next \in V
  BY <1>2 DEF WentPast
<1>4. m \in V
  BY <1>3 DEF RingOf
<1>5. QED
  BY <1>3, <1>4

\* A missing_node that has come round leaves no node of the ring that waits for
\* the missing one or keeps it in its queue: however many nodes there are, down
\* or slow, and in whatever state the ring is when it is repaired.
THEOREM MissingIsAlwaysForgotten ==
  ASSUME OneAtATime
  PROVE  AnyWaitsSpec => []MissingIsForgotten
<1>1. AnyWaits => WaitsInv
  BY DEF AnyWaits, WaitsInv, Ready, Forms, StackForm, Idle
<1>2. WaitsInv /\ [RingWaitsNext]_ringWaitsVars => WaitsInv'
  BY WaitsInvNext
<1>3. WaitsInv => MissingIsForgotten
  BY ForgottenInTheRing
<1>4. QED
  BY <1>1, <1>2, <1>3, PTL DEF AnyWaitsSpec
=============================================================================
