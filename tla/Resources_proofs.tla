-------------------------- MODULE Resources_proofs --------------------------
(***************************************************************************)
(* Theorems about Resources, for every ring, every set of resources, any   *)
(* number of requests at the same time, on one node as well, and queues of *)
(* any length: its invariants, and that it implements ResourceLock.        *)
(***************************************************************************)
EXTENDS Resources, Calls_proofs, FiniteSetTheorems

-----------------------------------------------------------------------------
(* The inductive invariant.                                                *)

\* A request that has reached the point where it asks the owner.
Owned(f) == Owner[f.r] \in Node

RequestOnly(s) ==
  /\ s[1].fn \in {"acquireResource", "releaseResource"}
  /\ s[1].from = s[1].at /\ s[1].pc # "hop"
  /\ s[1].fn = "acquireResource" /\ s[1].pc = "send" => Owned(s[1])

\* The operator's request and the messages that it is waiting for.
AcquireStack(s) ==
  /\ s[1].fn = "acquireResource" /\ s[1].from = s[1].at
  /\ s[2].fn \in {"query", "acquire"} /\ s[2].pc = "hop"
  /\ s[2].from = s[1].at /\ s[2].r = s[1].r
  /\ s[2].fn = "acquire" => Owned(s[2])

ReleaseStack(s) ==
  /\ s[1].fn = "releaseResource" /\ s[1].pc = "done"
  /\ s[1].from = s[1].at
  /\ s[2].fn = "release"

\* What the stack of a request looks like.
Shape(s) ==
  \/ s = << >>
  \/ Len(s) = 1 /\ RequestOnly(s)
  \/ Len(s) = 2 /\ AcquireStack(s)
  \/ Len(s) = 2 /\ ReleaseStack(s) /\ s[2].pc \in {"hop", "done"}
  \/ Len(s) = 3 /\ ReleaseStack(s) /\ s[2].pc = "done"
                /\ s[3].fn = "granted" /\ s[3].pc = "hop"

Shapes == \A t \in Task : Shape(calls[t])

\* Frame f carries the right to use r: the grant to node n, or what n has
\* given back.
Carries(f, n, r) ==
  /\ f.r = r
  /\ \/ f.fn = "acquireResource" /\ f.pc = "granted" /\ f.at = n
     \/ f.fn = "granted" /\ f.pc = "hop" /\ f.to = n
     \/ f.fn = "releaseResource" /\ f.pc = "send" /\ f.from = n
     \/ f.fn = "release" /\ f.pc = "hop" /\ f.from = n

Token(t, n, r) == ~Idle(t) /\ Carries(Top(t), n, r)

\* The right to use r is with a node that uses r or with a request, never with
\* both or with two, and the owner knows the node.
OneTokenOf(r) ==
  /\ \A n \in Node : r \in used[n] => currentUser[r] = n
  /\ \A n \in Node :
       currentUser[r] = n => r \in used[n] \/ \E t \in Task : Token(t, n, r)
  /\ \A t \in Task : \A n \in Node :
       Token(t, n, r) => currentUser[r] = n /\ r \notin used[n]
  /\ \A t, u \in Task : \A n, o \in Node :
       Token(t, n, r) /\ Token(u, o, r) => t = u

OneToken == \A r \in Resource : OneTokenOf(r)

\* A resource that has a user has an owner.
UsersOwned == \A r \in Resource : currentUser[r] \in Node => Owner[r] \in Node

ResourcesInv ==
  ResourcesTypeOK /\ Shapes /\ UsersOwned /\ OneToken /\ FreeHasNoQueue

-----------------------------------------------------------------------------
(* Frames.                                                                 *)

\* Every node is the next node of some node.
LEMMA EachHasPrevious ==
  ASSUME NEW n \in Node
  PROVE  \E p \in Node : Succ[p] = n
<1> SUFFICES ASSUME \A p \in Node : Succ[p] # n PROVE FALSE
  OBVIOUS
<1> DEFINE S == Node \ {n}
<1>1. S \in SUBSET Node /\ S # Node
  OBVIOUS
<1>2. \A p \in S : Succ[p] \in S
  BY RingAssumption
<1>3. Succ[n] \in S
  BY RingAssumption
<1> HIDE DEF S
<1>4. S # {}
  BY <1>3
<1>5. QED
  BY <1>1, <1>2, <1>4, RingAssumption

\* So a query has an end.
LEMMA QueryEndIsNode ==
  ASSUME NEW n \in Node, NEW r \in Resource
  PROVE  QueryEnd(n, r) \in Node
<1>1. Owner[r] # NoNode => Owner[r] \in Node
  BY ResourcesAssumption
<1>2. (CHOOSE p \in Node : Succ[p] = n) \in Node
  BY EachHasPrevious
<1>3. QED
  BY <1>1, <1>2 DEF QueryEnd

\* A message is a frame that is on its way.
LEMMA MessageIsFrame ==
  ASSUME NEW kind \in {"query", "acquire", "release", "granted"},
         NEW n \in Node, NEW o \in Node, NEW r \in Resource
  PROVE  LET g == ResourceMessage(kind, n, o, r) IN
           /\ g \in ResourceFrame
           /\ g.fn = kind /\ g.pc = "hop" /\ g.from = n /\ g.to = o /\ g.r = r
<1>1. Succ[n] \in Node
  BY RingAssumption
<1>2. QED
  BY <1>1 DEF ResourceMessage, ResourceFrame

\* A frame that has moved on is a frame of the same function.
LEMMA MovedIsFrame ==
  ASSUME NEW f \in ResourceFrame,
         NEW pc \in {"find", "unknown", "send", "await", "hop", "granted",
                     "queued", "check", "remove", "done"}
  PROVE  LET g == [f EXCEPT !.pc = pc] IN
           /\ g \in ResourceFrame
           /\ g.fn = f.fn /\ g.pc = pc /\ g.at = f.at /\ g.to = f.to
           /\ g.from = f.from /\ g.r = f.r
BY DEF ResourceFrame

\* So is a message that was sent on to the next node.
LEMMA SentOnIsFrame ==
  ASSUME NEW f \in ResourceFrame
  PROVE  LET g == [f EXCEPT !.at = Succ[f.at]] IN
           /\ g \in ResourceFrame
           /\ g.fn = f.fn /\ g.pc = f.pc /\ g.to = f.to
           /\ g.from = f.from /\ g.r = f.r
<1>1. Succ[f.at] \in Node
  BY RingAssumption DEF ResourceFrame
<1>2. QED
  BY <1>1 DEF ResourceFrame

\* The function of the executing frame tells the stack.
LEMMA TopShape ==
  ASSUME calls \in [Task -> Seq(ResourceFrame)], NEW t \in Task,
         Shape(calls[t]), ~Idle(t)
  PROVE  LET s == calls[t]
             fn == Top(t).fn
         IN  /\ fn \in {"acquireResource", "releaseResource"}
                  => Len(s) = 1 /\ RequestOnly(s) /\ Top(t) = s[1]
             /\ fn \in {"query", "acquire"}
                  => Len(s) = 2 /\ AcquireStack(s) /\ Top(t) = s[2]
             /\ fn = "release"
                  => Len(s) = 2 /\ ReleaseStack(s) /\ Top(t) = s[2]
             /\ fn = "granted"
                  => /\ Len(s) = 3 /\ ReleaseStack(s) /\ s[2].pc = "done"
                     /\ Top(t) = s[3] /\ s[3].pc = "hop"
<1> DEFINE s == calls[t]
<1>1. Top(t) = s[Len(s)] /\ s # << >>
  BY DEF Top, Idle
<1>2. CASE Len(s) = 1 /\ RequestOnly(s)
  BY <1>1, <1>2 DEF RequestOnly
<1>3. CASE Len(s) = 2 /\ AcquireStack(s)
  BY <1>1, <1>3 DEF AcquireStack
<1>4. CASE Len(s) = 2 /\ ReleaseStack(s) /\ s[2].pc \in {"hop", "done"}
  BY <1>1, <1>4 DEF ReleaseStack
<1>5. CASE Len(s) = 3 /\ ReleaseStack(s) /\ s[2].pc = "done"
           /\ s[3].fn = "granted" /\ s[3].pc = "hop"
  BY <1>1, <1>5
<1>6. QED
  BY <1>1, <1>2, <1>3, <1>4, <1>5 DEF Shape

-----------------------------------------------------------------------------
(* The stacks.                                                             *)

\* Every step of a request gives it a stack of the right shape.
LEMMA StepCalls ==
  ASSUME ResourcesInv, NEW t \in Task, ResourceStep(t)
  PROVE  /\ calls' \in [Task -> Seq(ResourceFrame)]
         /\ Shape(calls'[t])
         /\ \A u \in Task \ {t} : calls'[u] = calls[u]
<1> DEFINE f == Top(t)
           s == calls[t]
<1>a. calls \in [Task -> Seq(ResourceFrame)] /\ Shape(s)
  BY DEF ResourcesInv, ResourcesTypeOK, Shapes
<1>b. ~Idle(t)
  BY DEF ResourceStep, FindOwner, ReceiveQuery, ResourceNotFound, SendAcquire,
         ReceiveAcquire, UseResource, WaitForResource, CheckUsed, RemoveUsed,
         SendRelease, ReceiveRelease, ReceiveGranted, EndRelease,
         ForwardResource, Forward, Received, At
<1>c. f \in ResourceFrame
  BY <1>a, <1>b, TopIsFrame
<1>d. f.at \in Node /\ f.from \in Node /\ f.r \in Resource
  BY <1>c DEF ResourceFrame
<1>e. /\ f.fn \in {"acquireResource", "releaseResource"}
           => Len(s) = 1 /\ RequestOnly(s) /\ f = s[1]
      /\ f.fn \in {"query", "acquire"}
           => Len(s) = 2 /\ AcquireStack(s) /\ f = s[2]
      /\ f.fn = "release" => Len(s) = 2 /\ ReleaseStack(s) /\ f = s[2]
      /\ f.fn = "granted"
           => /\ Len(s) = 3 /\ ReleaseStack(s) /\ s[2].pc = "done"
              /\ f = s[3] /\ s[3].pc = "hop"
  BY <1>a, <1>b, TopShape
<1>f. s \in Seq(ResourceFrame)
  BY <1>a
<1> HIDE DEF f, s
<1>1. ASSUME NEW g \in ResourceFrame, Goto(t, g), Len(s) = 1,
             g.fn \in {"acquireResource", "releaseResource"},
             g.from = g.at, g.pc # "hop",
             g.fn = "acquireResource" /\ g.pc = "send" => Owned(g)
      PROVE  /\ calls' \in [Task -> Seq(ResourceFrame)]
             /\ Shape(calls'[t])
             /\ \A u \in Task \ {t} : calls'[u] = calls[u]
  <2>1. /\ calls' \in [Task -> Seq(ResourceFrame)]
        /\ Len(calls'[t]) = 1 /\ calls'[t][1] = g
        /\ \A u \in Task \ {t} : calls'[u] = calls[u]
    BY <1>a, <1>b, <1>1, GotoEffect DEF s
  <2>2. QED
    BY <2>1, <1>1 DEF Shape, RequestOnly
<1>2. ASSUME Return(t), Len(s) = 1
      PROVE  /\ calls' \in [Task -> Seq(ResourceFrame)]
             /\ Shape(calls'[t])
             /\ \A u \in Task \ {t} : calls'[u] = calls[u]
  <2>1. /\ calls' \in [Task -> Seq(ResourceFrame)]
        /\ Len(calls'[t]) = 0
        /\ \A u \in Task \ {t} : calls'[u] = calls[u]
    BY <1>a, <1>b, <1>2, ReturnEffect DEF s
  <2>2. calls'[t] = << >>
    BY <2>1
  <2>3. QED
    BY <2>1, <2>2 DEF Shape
<1>3. ASSUME Received(t, "query") \/ Received(t, "acquire"),
             NEW pc \in {"send", "unknown", "granted", "queued"}, Reply(t, pc),
             pc = "send" => Owned(f)
      PROVE  /\ calls' \in [Task -> Seq(ResourceFrame)]
             /\ Shape(calls'[t])
             /\ \A u \in Task \ {t} : calls'[u] = calls[u]
  <2> DEFINE c == s[1]
             g == [c EXCEPT !.pc = pc]
  <2>1. Len(s) = 2 /\ AcquireStack(s) /\ f = s[2]
    BY <1>3, <1>e DEF Received, At, f
  <2>2. c \in ResourceFrame
    BY <2>1, <1>f
  <2>3. /\ c.fn = "acquireResource" /\ c.from = c.at /\ f.r = c.r
    BY <2>1 DEF AcquireStack
  <2>4. ReturnTo(t, g)
    BY <1>3, <2>1 DEF Reply, Caller, s
  <2> HIDE DEF c
  <2>5. pc \in {"find", "unknown", "send", "await", "hop", "granted",
                "queued", "check", "remove", "done"}
    BY <1>3
  <2>6. /\ g \in ResourceFrame /\ g.fn = c.fn /\ g.pc = pc
        /\ g.at = c.at /\ g.from = c.from /\ g.r = c.r
    BY <2>2, <2>5 DEF ResourceFrame
  <2> HIDE DEF g
  <2>7. /\ calls' \in [Task -> Seq(ResourceFrame)]
        /\ Len(calls'[t]) = 1 /\ calls'[t][1] = g
        /\ \A u \in Task \ {t} : calls'[u] = calls[u]
    <3>1. Len(calls[t]) > 1 /\ Len(calls[t]) - 1 = 1
      BY <2>1 DEF s
    <3>2. g \in ResourceFrame
      BY <2>6
    <3>3. /\ calls' \in [Task -> Seq(ResourceFrame)]
          /\ Len(calls'[t]) = Len(calls[t]) - 1
          /\ calls'[t][Len(calls[t]) - 1] = g
          /\ \A u \in Task \ {t} : calls'[u] = calls[u]
      BY <1>a, <2>4, <3>1, <3>2, ReturnToEffect
    <3>4. QED
      BY <3>1, <3>3
  <2>8. g.pc # "hop" /\ (g.pc = "send" => Owned(g))
    BY <1>3, <2>3, <2>6 DEF Owned
  <2>9. QED
    BY <2>3, <2>6, <2>7, <2>8 DEF Shape, RequestOnly
<1>4. ASSUME NEW g \in ResourceFrame, NEW h \in ResourceFrame, Call(t, g, h),
             Len(s) = 1
      PROVE  /\ calls' \in [Task -> Seq(ResourceFrame)]
             /\ Len(calls'[t]) = 2 /\ calls'[t][1] = g /\ calls'[t][2] = h
             /\ \A u \in Task \ {t} : calls'[u] = calls[u]
  <2>1. Len(calls[t]) = 1 /\ Len(calls[t]) + 1 = 2
    BY <1>4 DEF s
  <2>2. /\ calls' \in [Task -> Seq(ResourceFrame)]
        /\ Len(calls'[t]) = Len(calls[t]) + 1
        /\ calls'[t][Len(calls[t])] = g
        /\ calls'[t][Len(calls[t]) + 1] = h
        /\ \A u \in Task \ {t} : calls'[u] = calls[u]
    BY <1>a, <1>b, <1>4, CallEffect
  <2>3. QED
    BY <2>1, <2>2
<1>5. ASSUME Return(t), Len(s) = 2, ReleaseStack(s)
      PROVE  /\ calls' \in [Task -> Seq(ResourceFrame)]
             /\ Shape(calls'[t])
             /\ \A u \in Task \ {t} : calls'[u] = calls[u]
  <2>1. /\ calls' \in [Task -> Seq(ResourceFrame)]
        /\ Len(calls'[t]) = Len(s) - 1
        /\ \A i \in 1 .. Len(s) - 1 : calls'[t][i] = s[i]
        /\ \A u \in Task \ {t} : calls'[u] = calls[u]
    BY <1>a, <1>b, <1>5, ReturnEffect DEF s
  <2>2. Len(calls'[t]) = 1 /\ calls'[t][1] = s[1]
    BY <1>5, <2>1
  <2>3. RequestOnly(calls'[t])
    BY <1>5, <2>2 DEF ReleaseStack, RequestOnly
  <2>4. QED
    BY <2>1, <2>2, <2>3 DEF Shape
<1>6. ASSUME NEW g \in ResourceFrame, Goto(t, g), f.pc = "hop",
             g.fn = f.fn, g.pc = f.pc, g.from = f.from, g.r = f.r
      PROVE  /\ calls' \in [Task -> Seq(ResourceFrame)]
             /\ Shape(calls'[t])
             /\ \A u \in Task \ {t} : calls'[u] = calls[u]
  <2>1. /\ calls' \in [Task -> Seq(ResourceFrame)]
        /\ Len(calls'[t]) = Len(s)
        /\ \A i \in 1 .. Len(s) - 1 : calls'[t][i] = s[i]
        /\ calls'[t][Len(s)] = g
        /\ \A u \in Task \ {t} : calls'[u] = calls[u]
    BY <1>a, <1>b, <1>6, GotoEffect DEF s
  <2>2. f.fn \in {"query", "acquire", "release", "granted"}
    BY <1>c, <1>e, <1>6 DEF ResourceFrame, RequestOnly
  <2>3. CASE f.fn \in {"query", "acquire"}
    <3>1. Len(s) = 2 /\ AcquireStack(s) /\ f = s[2]
      BY <1>e, <2>3
    <3>2. Len(calls'[t]) = 2 /\ calls'[t][1] = s[1] /\ calls'[t][2] = g
      BY <2>1, <3>1
    <3>3. AcquireStack(calls'[t])
      BY <1>6, <3>1, <3>2 DEF AcquireStack, Owned
    <3>4. QED
      BY <2>1, <3>2, <3>3 DEF Shape
  <2>4. CASE f.fn = "release"
    <3>1. Len(s) = 2 /\ ReleaseStack(s) /\ f = s[2]
      BY <1>e, <2>4
    <3>2. Len(calls'[t]) = 2 /\ calls'[t][1] = s[1] /\ calls'[t][2] = g
      BY <2>1, <3>1
    <3>3. ReleaseStack(calls'[t]) /\ calls'[t][2].pc = "hop"
      BY <1>6, <3>1, <3>2 DEF ReleaseStack
    <3>4. QED
      BY <2>1, <3>2, <3>3 DEF Shape
  <2>5. CASE f.fn = "granted"
    <3>1. Len(s) = 3 /\ ReleaseStack(s) /\ s[2].pc = "done" /\ f = s[3]
      BY <1>e, <2>5
    <3>2. /\ Len(calls'[t]) = 3 /\ calls'[t][1] = s[1]
          /\ calls'[t][2] = s[2] /\ calls'[t][3] = g
      BY <2>1, <3>1
    <3>3. ReleaseStack(calls'[t]) /\ calls'[t][2].pc = "done"
      BY <3>1, <3>2 DEF ReleaseStack
    <3>4. calls'[t][3].fn = "granted" /\ calls'[t][3].pc = "hop"
      BY <1>6, <2>5, <3>2
    <3>5. QED
      BY <2>1, <3>2, <3>3, <3>4 DEF Shape
  <2>6. QED
    BY <2>2, <2>3, <2>4, <2>5
<1>10. CASE FindOwner(t)
  <2>1. f.fn = "acquireResource" /\ Len(s) = 1 /\ RequestOnly(s) /\ f = s[1]
    BY <1>10, <1>e DEF FindOwner, At, f
  <2>2. CASE Owner[f.r] = f.at
    <3> DEFINE g == [f EXCEPT !.pc = "send"]
    <3>1. Goto(t, g)
      BY <1>10, <2>2 DEF FindOwner, f
    <3>2. /\ g \in ResourceFrame /\ g.fn = f.fn /\ g.pc = "send"
          /\ g.at = f.at /\ g.from = f.from /\ g.r = f.r
      BY <1>c, MovedIsFrame
    <3> HIDE DEF g
    <3>3. QED
      BY <1>1, <1>d, <2>1, <2>2, <3>1, <3>2 DEF RequestOnly, Owned
  <2>3. CASE Owner[f.r] # f.at
    <3> DEFINE g == [f EXCEPT !.pc = "await"]
               h == ResourceMessage("query", f.at, QueryEnd(f.at, f.r), f.r)
    <3>1. Call(t, g, h)
      BY <1>10, <2>3 DEF FindOwner, f
    <3>2. /\ g \in ResourceFrame /\ g.fn = f.fn
          /\ g.at = f.at /\ g.from = f.from /\ g.r = f.r
      BY <1>c, MovedIsFrame
    <3>3. /\ h \in ResourceFrame /\ h.fn = "query" /\ h.pc = "hop"
          /\ h.from = f.at /\ h.r = f.r
      BY <1>d, QueryEndIsNode, MessageIsFrame
    <3> HIDE DEF g, h
    <3>4. /\ calls' \in [Task -> Seq(ResourceFrame)]
          /\ Len(calls'[t]) = 2 /\ calls'[t][1] = g /\ calls'[t][2] = h
          /\ \A u \in Task \ {t} : calls'[u] = calls[u]
      BY <1>4, <2>1, <3>1, <3>2, <3>3
    <3>5. AcquireStack(calls'[t])
      BY <2>1, <3>2, <3>3, <3>4 DEF AcquireStack, RequestOnly
    <3>6. QED
      BY <3>4, <3>5 DEF Shape
  <2>4. QED
    BY <2>2, <2>3
<1>11. CASE ReceiveQuery(t)
  <2> DEFINE answer == IF Owner[f.r] = f.at THEN "send" ELSE "unknown"
  <2>1. Received(t, "query") /\ Reply(t, answer)
    BY <1>11 DEF ReceiveQuery, f
  <2>2. answer \in {"send", "unknown", "granted", "queued"}
    OBVIOUS
  <2>3. answer = "send" => Owned(f)
    BY <1>d DEF Owned
  <2> HIDE DEF answer
  <2>4. QED
    BY <1>3, <2>1, <2>2, <2>3
<1>12. CASE ResourceNotFound(t) \/ UseResource(t) \/ WaitForResource(t)
  <2>1. f.fn = "acquireResource" /\ Return(t)
    BY <1>12 DEF ResourceNotFound, UseResource, WaitForResource, At, f
  <2>2. QED
    BY <1>2, <1>e, <2>1
<1>13. CASE SendAcquire(t)
  <2> DEFINE g == [f EXCEPT !.pc = "await"]
             h == ResourceMessage("acquire", f.at, Owner[f.r], f.r)
  <2>1. /\ f.fn = "acquireResource" /\ f.pc = "send"
        /\ Len(s) = 1 /\ RequestOnly(s) /\ f = s[1]
    BY <1>13, <1>e DEF SendAcquire, At, f
  <2>2. Owned(f) /\ f.from = f.at
    BY <2>1 DEF RequestOnly
  <2>3. Call(t, g, h)
    BY <1>13 DEF SendAcquire, f
  <2>4. /\ g \in ResourceFrame /\ g.fn = f.fn
        /\ g.at = f.at /\ g.from = f.from /\ g.r = f.r
    BY <1>c, MovedIsFrame
  <2>5. /\ h \in ResourceFrame /\ h.fn = "acquire" /\ h.pc = "hop"
        /\ h.from = f.at /\ h.r = f.r
    BY <1>d, <2>2, MessageIsFrame DEF Owned
  <2> HIDE DEF g, h
  <2>6. /\ calls' \in [Task -> Seq(ResourceFrame)]
        /\ Len(calls'[t]) = 2 /\ calls'[t][1] = g /\ calls'[t][2] = h
        /\ \A u \in Task \ {t} : calls'[u] = calls[u]
    BY <1>4, <2>1, <2>3, <2>4, <2>5
  <2>7. AcquireStack(calls'[t])
    BY <2>1, <2>2, <2>4, <2>5, <2>6 DEF AcquireStack, Owned
  <2>8. QED
    BY <2>6, <2>7 DEF Shape
<1>14. CASE ReceiveAcquire(t)
  <2>1. Received(t, "acquire")
    BY <1>14 DEF ReceiveAcquire
  <2>2. Reply(t, "granted") \/ Reply(t, "queued")
    BY <1>14 DEF ReceiveAcquire
  <2>3. QED
    BY <1>3, <2>1, <2>2
<1>15. CASE CheckUsed(t) \/ RemoveUsed(t)
  <2>1. f.fn = "releaseResource"
    BY <1>15 DEF CheckUsed, RemoveUsed, At, f
  <2>2. Len(s) = 1 /\ RequestOnly(s) /\ f = s[1]
    BY <1>e, <2>1
  <2>3. \/ Return(t)
        \/ Goto(t, [f EXCEPT !.pc = "remove"])
        \/ Goto(t, [f EXCEPT !.pc = "send"])
    BY <1>15 DEF CheckUsed, RemoveUsed, f
  <2>4. CASE Return(t)
    BY <1>2, <2>2, <2>4
  <2>5. ASSUME NEW pc \in {"remove", "send"}, Goto(t, [f EXCEPT !.pc = pc])
        PROVE  /\ calls' \in [Task -> Seq(ResourceFrame)]
               /\ Shape(calls'[t])
               /\ \A u \in Task \ {t} : calls'[u] = calls[u]
    <3> DEFINE g == [f EXCEPT !.pc = pc]
    <3>1. /\ g \in ResourceFrame /\ g.fn = f.fn /\ g.pc = pc
          /\ g.at = f.at /\ g.from = f.from
      BY <1>c, <2>5 DEF ResourceFrame
    <3>2. Goto(t, g)
      BY <2>5
    <3> HIDE DEF g
    <3>3. QED
      BY <1>1, <2>1, <2>2, <2>5, <3>1, <3>2 DEF RequestOnly
  <2>6. QED
    BY <2>3, <2>4, <2>5
<1>16. CASE SendRelease(t)
  <2> DEFINE g == [f EXCEPT !.pc = "done"]
             h == ResourceMessage("release", f.at, Owner[f.r], f.r)
  <2>1. /\ f.fn = "releaseResource" /\ f.pc = "send"
        /\ Len(s) = 1 /\ RequestOnly(s) /\ f = s[1]
    BY <1>16, <1>e DEF SendRelease, At, f
  <2>2. f.from = f.at
    BY <2>1 DEF RequestOnly
  <2>3. Token(t, f.from, f.r)
    BY <1>b, <2>1 DEF Token, Carries, f
  <2>4. currentUser[f.r] = f.from
    BY <1>d, <2>3 DEF ResourcesInv, OneToken, OneTokenOf
  <2>5. Owner[f.r] \in Node
    BY <1>d, <2>4 DEF ResourcesInv, UsersOwned
  <2>6. Call(t, g, h)
    BY <1>16 DEF SendRelease, f
  <2>7. /\ g \in ResourceFrame /\ g.fn = f.fn /\ g.pc = "done"
        /\ g.at = f.at /\ g.from = f.from /\ g.r = f.r
    BY <1>c, MovedIsFrame
  <2>8. h \in ResourceFrame /\ h.fn = "release" /\ h.pc = "hop"
    BY <1>d, <2>5, MessageIsFrame
  <2> HIDE DEF g, h
  <2>9. /\ calls' \in [Task -> Seq(ResourceFrame)]
        /\ Len(calls'[t]) = 2 /\ calls'[t][1] = g /\ calls'[t][2] = h
        /\ \A u \in Task \ {t} : calls'[u] = calls[u]
    BY <1>4, <2>1, <2>6, <2>7, <2>8
  <2>10. ReleaseStack(calls'[t]) /\ calls'[t][2].pc = "hop"
    BY <2>1, <2>2, <2>7, <2>8, <2>9 DEF ReleaseStack
  <2>11. QED
    BY <2>9, <2>10 DEF Shape
<1>17. CASE ReceiveRelease(t)
  <2>1. f.fn = "release" /\ f.pc = "hop"
    BY <1>17 DEF ReceiveRelease, Received, At, f
  <2>2. Len(s) = 2 /\ ReleaseStack(s) /\ f = s[2]
    BY <1>e, <2>1
  <2>3. CASE Return(t)
    BY <1>5, <2>2, <2>3
  <2>4. CASE Goto(t, [f EXCEPT !.at = Succ[f.at]])
    <3> DEFINE g == [f EXCEPT !.at = Succ[f.at]]
    <3>1. /\ g \in ResourceFrame /\ g.fn = f.fn /\ g.pc = f.pc
          /\ g.from = f.from /\ g.r = f.r
      BY <1>c, SentOnIsFrame
    <3>2. Goto(t, g)
      BY <2>4
    <3> HIDE DEF g
    <3>3. QED
      BY <1>6, <2>1, <3>1, <3>2
  <2>5. ASSUME requestQueue[f.r] # << >>,
               Call(t, [f EXCEPT !.pc = "done"],
                    ResourceMessage("granted", f.at,
                      requestQueue[f.r][Len(requestQueue[f.r])], f.r))
        PROVE  /\ calls' \in [Task -> Seq(ResourceFrame)]
               /\ Shape(calls'[t])
               /\ \A u \in Task \ {t} : calls'[u] = calls[u]
    <3> DEFINE q == requestQueue[f.r]
               next == q[Len(q)]
               g == [f EXCEPT !.pc = "done"]
               h == ResourceMessage("granted", f.at, next, f.r)
    <3>1. q \in Seq(Node)
      BY <1>d DEF ResourcesInv, ResourcesTypeOK
    <3>2. next \in Node
      BY <2>5, <3>1
    <3>3. Call(t, g, h)
      BY <2>5
    <3>4. /\ g \in ResourceFrame /\ g.fn = f.fn /\ g.pc = "done"
      BY <1>c, MovedIsFrame
    <3> HIDE DEF next
    <3>5. h \in ResourceFrame /\ h.fn = "granted" /\ h.pc = "hop"
      BY <1>d, <3>2, MessageIsFrame
    <3> HIDE DEF g, h, q
    <3>6. Len(calls[t]) = 2 /\ calls[t][1] = s[1]
      BY <2>2 DEF s
    <3>7. /\ calls' \in [Task -> Seq(ResourceFrame)]
          /\ Len(calls'[t]) = Len(calls[t]) + 1
          /\ \A i \in 1 .. Len(calls[t]) - 1 : calls'[t][i] = calls[t][i]
          /\ calls'[t][Len(calls[t])] = g
          /\ calls'[t][Len(calls[t]) + 1] = h
          /\ \A u \in Task \ {t} : calls'[u] = calls[u]
      BY <1>a, <1>b, <3>3, <3>4, <3>5, CallEffect
    <3>8. /\ Len(calls'[t]) = 3 /\ calls'[t][1] = s[1]
          /\ calls'[t][2] = g /\ calls'[t][3] = h
      BY <3>6, <3>7
    <3>9. ReleaseStack(calls'[t]) /\ calls'[t][2].pc = "done"
      BY <2>1, <2>2, <3>4, <3>8 DEF ReleaseStack
    <3>10. QED
      BY <3>5, <3>7, <3>8, <3>9 DEF Shape
  <2>6. \/ Return(t)
        \/ Goto(t, [f EXCEPT !.at = Succ[f.at]])
        \/ /\ requestQueue[f.r] # << >>
           /\ Call(t, [f EXCEPT !.pc = "done"],
                   ResourceMessage("granted", f.at,
                     requestQueue[f.r][Len(requestQueue[f.r])], f.r))
    BY <1>17 DEF ReceiveRelease, PassOn, f
  <2>7. QED
    BY <2>3, <2>4, <2>5, <2>6
<1>18. CASE ReceiveGranted(t)
  <2>1. f.fn = "granted" /\ Return(t)
    BY <1>18 DEF ReceiveGranted, Received, At, f
  <2>2. Len(s) = 3 /\ ReleaseStack(s) /\ s[2].pc = "done"
    BY <1>e, <2>1
  <2>3. /\ calls' \in [Task -> Seq(ResourceFrame)]
        /\ Len(calls'[t]) = Len(s) - 1
        /\ \A i \in 1 .. Len(s) - 1 : calls'[t][i] = s[i]
        /\ \A u \in Task \ {t} : calls'[u] = calls[u]
    BY <1>a, <1>b, <2>1, ReturnEffect DEF s
  <2>4. /\ Len(calls'[t]) = 2 /\ calls'[t][1] = s[1] /\ calls'[t][2] = s[2]
    BY <2>2, <2>3
  <2>5. ReleaseStack(calls'[t]) /\ calls'[t][2].pc = "done"
    BY <2>2, <2>4 DEF ReleaseStack
  <2>6. QED
    BY <2>3, <2>4, <2>5 DEF Shape
<1>19. CASE EndRelease(t)
  <2>1. f.fn \in {"release", "releaseResource"} /\ Return(t)
    BY <1>19 DEF EndRelease, At, f
  <2>2. QED
    BY <1>2, <1>5, <1>e, <2>1
<1>20. CASE ForwardResource(t)
  <2> DEFINE g == [f EXCEPT !.at = Succ[f.at]]
  <2>1. f.pc = "hop" /\ Goto(t, g)
    BY <1>20 DEF ForwardResource, Forward, f
  <2>2. /\ g \in ResourceFrame /\ g.fn = f.fn /\ g.pc = f.pc
        /\ g.from = f.from /\ g.r = f.r
    BY <1>c, SentOnIsFrame
  <2> HIDE DEF g
  <2>3. QED
    BY <1>6, <2>1, <2>2
<1>21. QED
  BY <1>10, <1>11, <1>12, <1>13, <1>14, <1>15, <1>16, <1>17, <1>18, <1>19,
     <1>20 DEF ResourceStep

-----------------------------------------------------------------------------
(* What carries the right to use a resource after a step.                  *)

\* The request t that took the step: the frame that executes next.
LEMMA GotoToken ==
  ASSUME calls \in [Task -> Seq(ResourceFrame)], NEW t \in Task, ~Idle(t),
         NEW g \in ResourceFrame, Goto(t, g)
  PROVE  \A n \in Node, r \in Resource : Token(t, n, r)' <=> Carries(g, n, r)
<1>1. /\ Len(calls'[t]) = Len(calls[t])
      /\ calls'[t][Len(calls[t])] = g
      /\ calls' \in [Task -> Seq(ResourceFrame)]
  BY GotoEffect
<1>2. Len(calls[t]) \in Nat \ {0}
  BY TopIsFrame
<1>3. calls'[t] # << >>
  BY <1>1, <1>2
<1>4. Top(t)' = g /\ ~Idle(t)'
  BY <1>1, <1>3 DEF Top, Idle
<1>5. QED
  BY <1>4 DEF Token, Carries

LEMMA CallToken ==
  ASSUME calls \in [Task -> Seq(ResourceFrame)], NEW t \in Task, ~Idle(t),
         NEW g \in ResourceFrame, NEW h \in ResourceFrame, Call(t, g, h)
  PROVE  \A n \in Node, r \in Resource : Token(t, n, r)' <=> Carries(h, n, r)
<1>1. /\ Len(calls'[t]) = Len(calls[t]) + 1
      /\ calls'[t][Len(calls[t]) + 1] = h
      /\ calls' \in [Task -> Seq(ResourceFrame)]
  BY CallEffect
<1>2. Len(calls[t]) \in Nat \ {0}
  BY TopIsFrame
<1>3. calls'[t] # << >>
  BY <1>1, <1>2
<1>4. Top(t)' = h /\ ~Idle(t)'
  BY <1>1, <1>3 DEF Top, Idle
<1>5. QED
  BY <1>4 DEF Token, Carries

LEMMA ReturnToToken ==
  ASSUME calls \in [Task -> Seq(ResourceFrame)], NEW t \in Task,
         Len(calls[t]) > 1, NEW g \in ResourceFrame, ReturnTo(t, g)
  PROVE  \A n \in Node, r \in Resource : Token(t, n, r)' <=> Carries(g, n, r)
<1>1. /\ Len(calls'[t]) = Len(calls[t]) - 1
      /\ calls'[t][Len(calls[t]) - 1] = g
      /\ calls' \in [Task -> Seq(ResourceFrame)]
  BY ReturnToEffect
<1>2. Len(calls[t]) \in Nat
  OBVIOUS
<1>3. calls'[t] # << >>
  BY <1>1, <1>2
<1>4. Top(t)' = g /\ ~Idle(t)'
  BY <1>1, <1>3 DEF Top, Idle
<1>5. QED
  BY <1>4 DEF Token, Carries

\* A function that returns leaves a caller that does not carry the right.
LEMMA ReturnToken ==
  ASSUME calls \in [Task -> Seq(ResourceFrame)], NEW t \in Task, ~Idle(t),
         Return(t),
         \/ Len(calls[t]) = 1
         \/ Len(calls[t]) = 2 /\ ReleaseStack(calls[t])
         \/ Len(calls[t]) = 3 /\ ReleaseStack(calls[t])
            /\ calls[t][2].pc = "done"
  PROVE  \A n \in Node, r \in Resource : ~Token(t, n, r)'
<1> DEFINE s == calls[t]
<1>1. /\ Len(calls'[t]) = Len(s) - 1
      /\ \A i \in 1 .. Len(s) - 1 : calls'[t][i] = s[i]
      /\ calls' \in [Task -> Seq(ResourceFrame)]
  BY ReturnEffect
<1>2. CASE Len(s) = 1
  <2>1. Len(calls'[t]) = 0
    BY <1>1, <1>2
  <2>2. Idle(t)'
    BY <1>1, <2>1 DEF Idle
  <2>3. QED
    BY <2>2 DEF Token
<1>3. CASE Len(s) = 2 /\ ReleaseStack(s)
  <2>1. Len(calls'[t]) = 1 /\ calls'[t][1] = s[1]
    BY <1>1, <1>3
  <2>2. Top(t)' = s[1]
    BY <2>1 DEF Top
  <2>3. s[1].fn = "releaseResource" /\ s[1].pc = "done"
    BY <1>3 DEF ReleaseStack
  <2>4. QED
    BY <2>2, <2>3 DEF Token, Carries
<1>4. CASE Len(s) = 3 /\ ReleaseStack(s) /\ s[2].pc = "done"
  <2>1. Len(calls'[t]) = 2 /\ calls'[t][2] = s[2]
    BY <1>1, <1>4
  <2>2. Top(t)' = s[2]
    BY <2>1 DEF Top
  <2>3. s[2].fn = "release" /\ s[2].pc = "done"
    BY <1>4 DEF ReleaseStack
  <2>4. QED
    BY <2>2, <2>3 DEF Token, Carries
<1>5. QED
  BY <1>2, <1>3, <1>4

\* A request that took no step carries what it carried.
LEMMA OtherToken ==
  ASSUME NEW u \in Task, calls'[u] = calls[u]
  PROVE  \A n \in Node, r \in Resource : Token(u, n, r)' <=> Token(u, n, r)
<1>1. Top(u)' = Top(u) /\ (Idle(u)' <=> Idle(u))
  BY DEF Top, Idle
<1>2. QED
  BY <1>1 DEF Token, Carries

\* A step that leaves the rights to r where they are keeps OneTokenOf(r).
LEMMA KeepsToken ==
  ASSUME NEW t \in Task, NEW r \in Resource, OneTokenOf(r),
         currentUser'[r] = currentUser[r],
         \A n \in Node : r \in used'[n] <=> r \in used[n],
         \A u \in Task \ {t} : calls'[u] = calls[u],
         \A n \in Node : Token(t, n, r)' <=> Token(t, n, r)
  PROVE  OneTokenOf(r)'
<1>1. \A u \in Task : \A n \in Node : Token(u, n, r)' <=> Token(u, n, r)
  BY OtherToken
<1>2. QED
  BY <1>1 DEF OneTokenOf

\* The owner grants a free resource to node m, by the reply to request t.
LEMMA GrantsToken ==
  ASSUME NEW t \in Task, NEW r \in Resource, NEW m \in Node, OneTokenOf(r),
         currentUser[r] = NoNode, currentUser'[r] = m,
         \A n \in Node : r \in used'[n] <=> r \in used[n],
         \A u \in Task \ {t} : calls'[u] = calls[u],
         \A n \in Node : Token(t, n, r)' <=> n = m
  PROVE  OneTokenOf(r)'
<1>1. \A n \in Node : currentUser[r] # n
  BY ResourcesAssumption
<1>2. \A n \in Node : r \notin used'[n]
  BY <1>1 DEF OneTokenOf
<1>3. \A u \in Task \ {t} : \A n \in Node : ~Token(u, n, r)'
  BY <1>1, OtherToken DEF OneTokenOf
<1>4. QED
  BY <1>2, <1>3 DEF OneTokenOf

\* Node m begins to use r, to which request t carried the right.
LEMMA UsesToken ==
  ASSUME NEW t \in Task, NEW r \in Resource, NEW m \in Node, OneTokenOf(r),
         Token(t, m, r), currentUser'[r] = currentUser[r],
         \A n \in Node : r \in used'[n] <=> r \in used[n] \/ n = m,
         \A u \in Task \ {t} : calls'[u] = calls[u],
         \A n \in Node : ~Token(t, n, r)'
  PROVE  OneTokenOf(r)'
<1>1. currentUser'[r] = m
  BY DEF OneTokenOf
<1>2. \A n \in Node : r \in used'[n] <=> n = m
  BY <1>1 DEF OneTokenOf
<1>3. \A u \in Task \ {t} : \A n \in Node : ~Token(u, n, r)'
  BY OtherToken DEF OneTokenOf
<1>4. QED
  BY <1>1, <1>2, <1>3 DEF OneTokenOf

\* Node m stops using r, and request t carries the right back.
LEMMA TakesToken ==
  ASSUME NEW t \in Task, NEW r \in Resource, NEW m \in Node, OneTokenOf(r),
         r \in used[m], currentUser'[r] = currentUser[r],
         \A n \in Node : r \in used'[n] <=> r \in used[n] /\ n # m,
         \A u \in Task \ {t} : calls'[u] = calls[u],
         \A n \in Node : Token(t, n, r)' <=> n = m
  PROVE  OneTokenOf(r)'
<1>1. currentUser'[r] = m
  BY DEF OneTokenOf
<1>2. \A n \in Node : r \notin used'[n]
  BY <1>1 DEF OneTokenOf
<1>3. \A u \in Task \ {t} : \A n \in Node : ~Token(u, n, r)'
  BY <1>1, OtherToken DEF OneTokenOf
<1>4. QED
  BY <1>1, <1>2, <1>3 DEF OneTokenOf

\* The owner has the right back, and passes it on to node o or to nobody.
LEMMA PassesToken ==
  ASSUME NEW t \in Task, NEW r \in Resource, NEW m \in Node, OneTokenOf(r),
         Token(t, m, r), NEW o \in Node \cup {NoNode}, currentUser'[r] = o,
         \A n \in Node : r \in used'[n] <=> r \in used[n],
         \A u \in Task \ {t} : calls'[u] = calls[u],
         \A n \in Node : Token(t, n, r)' <=> n = o
  PROVE  OneTokenOf(r)'
<1>1. currentUser[r] = m
  BY DEF OneTokenOf
<1>2. \A n \in Node : r \notin used'[n]
  BY <1>1 DEF OneTokenOf
<1>3. \A u \in Task \ {t} : \A n \in Node : ~Token(u, n, r)'
  BY OtherToken DEF OneTokenOf
<1>4. \A n \in Node : Token(t, n, r)' => currentUser'[r] = n
  OBVIOUS
<1>5. QED
  BY <1>2, <1>3, <1>4 DEF OneTokenOf

-----------------------------------------------------------------------------
(* Every step keeps the right to each resource in one place.               *)

LEMMA OneTokenStep ==
  ASSUME ResourcesInv, NEW t \in Task, ResourceStep(t)
  PROVE  OneToken'
<1> SUFFICES ASSUME NEW r \in Resource PROVE OneTokenOf(r)'
  BY DEF OneToken
<1> DEFINE f == Top(t)
           s == calls[t]
<1>a. calls \in [Task -> Seq(ResourceFrame)] /\ Shape(s)
  BY DEF ResourcesInv, ResourcesTypeOK, Shapes
<1>b. ~Idle(t)
  BY DEF ResourceStep, FindOwner, ReceiveQuery, ResourceNotFound, SendAcquire,
         ReceiveAcquire, UseResource, WaitForResource, CheckUsed, RemoveUsed,
         SendRelease, ReceiveRelease, ReceiveGranted, EndRelease,
         ForwardResource, Forward, Received, At
<1>c. f \in ResourceFrame
  BY <1>a, <1>b, TopIsFrame
<1>d. f.at \in Node /\ f.from \in Node /\ f.to \in Node /\ f.r \in Resource
  BY <1>c DEF ResourceFrame
<1>e. /\ f.fn \in {"acquireResource", "releaseResource"}
           => Len(s) = 1 /\ RequestOnly(s) /\ f = s[1]
      /\ f.fn \in {"query", "acquire"}
           => Len(s) = 2 /\ AcquireStack(s) /\ f = s[2]
      /\ f.fn = "release" => Len(s) = 2 /\ ReleaseStack(s) /\ f = s[2]
      /\ f.fn = "granted"
           => /\ Len(s) = 3 /\ ReleaseStack(s) /\ s[2].pc = "done"
              /\ f = s[3] /\ s[3].pc = "hop"
  BY <1>a, <1>b, TopShape
<1>f. \A u \in Task \ {t} : calls'[u] = calls[u]
  BY StepCalls
<1>g. \A n \in Node : Token(t, n, r) <=> Carries(f, n, r)
  BY <1>b DEF Token
<1>h. OneTokenOf(r)
  BY DEF ResourcesInv, OneToken
<1>i. /\ currentUser \in [Resource -> Node \cup {NoNode}]
      /\ requestQueue \in [Resource -> Seq(Node)]
      /\ used \in [Node -> SUBSET Resource]
  BY DEF ResourcesInv, ResourcesTypeOK
<1>j. s \in Seq(ResourceFrame)
  BY <1>a
<1>1. ASSUME Return(t), f.fn # "query", f.fn # "acquire"
      PROVE  \A n \in Node : ~Token(t, n, r)'
  <2>1. \/ Len(s) = 1
        \/ Len(s) = 2 /\ ReleaseStack(s)
        \/ Len(s) = 3 /\ ReleaseStack(s) /\ s[2].pc = "done"
    BY <1>c, <1>e, <1>1 DEF ResourceFrame
  <2>2. QED
    BY <1>a, <1>b, <1>1, <2>1, ReturnToken
<1>2. ASSUME Received(t, "query") \/ Received(t, "acquire"),
             NEW pc \in {"send", "unknown", "granted", "queued"}, Reply(t, pc)
      PROVE  \A n \in Node :
               Token(t, n, r)' <=> pc = "granted" /\ f.r = r /\ f.from = n
  <2> DEFINE c == s[1]
             g == [c EXCEPT !.pc = pc]
  <2>1. Len(s) = 2 /\ AcquireStack(s) /\ f = s[2]
    BY <1>2, <1>e DEF Received, At
  <2>2. c \in ResourceFrame
    BY <1>j, <2>1
  <2>3. c.fn = "acquireResource" /\ f.from = c.at /\ f.r = c.r
    BY <2>1 DEF AcquireStack
  <2>4. ReturnTo(t, g)
    BY <1>2, <2>1 DEF Reply, Caller
  <2>5. Len(calls[t]) > 1
    BY <2>1
  <2> HIDE DEF c
  <2>6. pc \in {"find", "unknown", "send", "await", "hop", "granted",
                "queued", "check", "remove", "done"}
    BY <1>2
  <2>7. /\ g \in ResourceFrame /\ g.fn = c.fn /\ g.pc = pc
        /\ g.at = c.at /\ g.r = c.r
    BY <2>2, <2>6 DEF ResourceFrame
  <2> HIDE DEF f, s, g
  <2>8. \A n \in Node : Token(t, n, r)' <=> Carries(g, n, r)
    BY <1>a, <2>4, <2>5, <2>7, ReturnToToken
  <2>9. \A n \in Node :
          Carries(g, n, r) <=> pc = "granted" /\ f.r = r /\ f.from = n
    BY <2>3, <2>7 DEF Carries
  <2>10. QED
    BY <2>8, <2>9
<1>3. ASSUME UNCHANGED << currentUser, used >>,
             \A n \in Node : Token(t, n, r)' <=> Carries(f, n, r)
      PROVE  OneTokenOf(r)'
  BY <1>f, <1>g, <1>h, <1>3, KeepsToken
<1> HIDE DEF f, s
<1>10. CASE FindOwner(t)
  <2>1. f.fn = "acquireResource" /\ f.pc = "find"
    BY <1>10 DEF FindOwner, At, f
  <2>2. CASE Owner[f.r] = f.at
    <3> DEFINE g == [f EXCEPT !.pc = "send"]
    <3>1. Goto(t, g)
      BY <1>10, <2>2 DEF FindOwner, f
    <3>2. g \in ResourceFrame /\ g.fn = f.fn /\ g.pc = "send"
      BY <1>c, MovedIsFrame
    <3> HIDE DEF g
    <3>3. \A n \in Node : Token(t, n, r)' <=> Carries(g, n, r)
      BY <1>a, <1>b, <3>1, <3>2, GotoToken
    <3>4. \A n \in Node : ~Carries(g, n, r) /\ ~Carries(f, n, r)
      BY <2>1, <3>2 DEF Carries
    <3>5. UNCHANGED << currentUser, used >>
      BY <1>10 DEF FindOwner, ownerVars, userVars
    <3>6. QED
      BY <1>3, <3>3, <3>4, <3>5
  <2>3. CASE Owner[f.r] # f.at
    <3> DEFINE g == [f EXCEPT !.pc = "await"]
               h == ResourceMessage("query", f.at, QueryEnd(f.at, f.r), f.r)
    <3>1. Call(t, g, h)
      BY <1>10, <2>3 DEF FindOwner, f
    <3>2. g \in ResourceFrame
      BY <1>c, MovedIsFrame
    <3>0. QueryEnd(f.at, f.r) \in Node
      BY <1>d, QueryEndIsNode
    <3>3. h \in ResourceFrame /\ h.fn = "query"
      BY <1>d, <3>0, MessageIsFrame
    <3> HIDE DEF g, h
    <3>4. \A n \in Node : Token(t, n, r)' <=> Carries(h, n, r)
      BY <1>a, <1>b, <3>1, <3>2, <3>3, CallToken
    <3>5. \A n \in Node : ~Carries(h, n, r) /\ ~Carries(f, n, r)
      BY <2>1, <3>3 DEF Carries
    <3>6. UNCHANGED << currentUser, used >>
      BY <1>10 DEF FindOwner, ownerVars, userVars
    <3>7. QED
      BY <1>3, <3>4, <3>5, <3>6
  <2>4. QED
    BY <2>2, <2>3
<1>11. CASE ReceiveQuery(t)
  <2> DEFINE answer == IF Owner[f.r] = f.at THEN "send" ELSE "unknown"
  <2>1. Received(t, "query") /\ Reply(t, answer)
    BY <1>11 DEF ReceiveQuery, f
  <2>2. answer \in {"send", "unknown", "granted", "queued"}
    OBVIOUS
  <2>3. answer # "granted"
    OBVIOUS
  <2> HIDE DEF answer
  <2>4. \A n \in Node : ~Token(t, n, r)'
    BY <1>2, <2>1, <2>2, <2>3
  <2>5. \A n \in Node : ~Carries(f, n, r)
    BY <2>1 DEF Carries, Received, At, f
  <2>6. UNCHANGED << currentUser, used >>
    BY <1>11 DEF ReceiveQuery, ownerVars, userVars
  <2>7. QED
    BY <1>3, <2>4, <2>5, <2>6
<1>12. CASE ResourceNotFound(t) \/ WaitForResource(t)
  <2>1. /\ f.fn = "acquireResource" /\ f.pc # "granted" /\ Return(t)
        /\ UNCHANGED << currentUser, used >>
    BY <1>12 DEF ResourceNotFound, WaitForResource, At, f, ownerVars, userVars
  <2>2. \A n \in Node : ~Token(t, n, r)'
    BY <1>1, <2>1
  <2>3. \A n \in Node : ~Carries(f, n, r)
    BY <2>1 DEF Carries
  <2>4. QED
    BY <1>3, <2>1, <2>2, <2>3
<1>13. CASE SendAcquire(t)
  <2> DEFINE g == [f EXCEPT !.pc = "await"]
             h == ResourceMessage("acquire", f.at, Owner[f.r], f.r)
  <2>1. f.fn = "acquireResource" /\ f.pc = "send"
    BY <1>13 DEF SendAcquire, At, f
  <2>2. Owned(f)
    BY <1>e, <2>1 DEF RequestOnly
  <2>3. Call(t, g, h)
    BY <1>13 DEF SendAcquire, f
  <2>4. g \in ResourceFrame
    BY <1>c, MovedIsFrame
  <2>5. h \in ResourceFrame /\ h.fn = "acquire"
    BY <1>d, <2>2, MessageIsFrame DEF Owned
  <2> HIDE DEF g, h
  <2>6. \A n \in Node : Token(t, n, r)' <=> Carries(h, n, r)
    BY <1>a, <1>b, <2>3, <2>4, <2>5, CallToken
  <2>7. \A n \in Node : ~Carries(h, n, r) /\ ~Carries(f, n, r)
    BY <2>1, <2>5 DEF Carries
  <2>8. UNCHANGED << currentUser, used >>
    BY <1>13 DEF SendAcquire, ownerVars, userVars
  <2>9. QED
    BY <1>3, <2>6, <2>7, <2>8
<1>14. CASE ReceiveAcquire(t)
  <2>1. Received(t, "acquire") /\ f.fn = "acquire"
    BY <1>14 DEF ReceiveAcquire, Received, At, f
  <2>2. \A n \in Node : ~Carries(f, n, r)
    BY <2>1 DEF Carries
  <2>3. UNCHANGED used
    BY <1>14 DEF ReceiveAcquire, userVars
  <2>4. CASE currentUser[f.r] = NoNode
    <3>1. /\ currentUser' = [currentUser EXCEPT ![f.r] = f.from]
          /\ Reply(t, "granted")
      BY <1>14, <2>4 DEF ReceiveAcquire, f
    <3>2. \A n \in Node : Token(t, n, r)' <=> f.r = r /\ f.from = n
      BY <1>2, <2>1, <3>1
    <3>3. CASE f.r = r
      <4>1. currentUser[r] = NoNode /\ currentUser'[r] = f.from
        BY <1>i, <2>4, <3>1, <3>3
      <4>2. \A n \in Node : Token(t, n, r)' <=> n = f.from
        BY <3>2, <3>3
      <4>3. QED
        BY <1>d, <1>f, <1>h, <2>3, <4>1, <4>2, GrantsToken
    <3>4. CASE f.r # r
      <4>1. currentUser'[r] = currentUser[r]
        BY <1>i, <3>1, <3>4
      <4>2. \A n \in Node : Token(t, n, r)' <=> Token(t, n, r)
        BY <1>g, <2>2, <3>2, <3>4
      <4>3. QED
        BY <1>f, <1>h, <2>3, <4>1, <4>2, KeepsToken
    <3>5. QED
      BY <3>3, <3>4
  <2>5. CASE currentUser[f.r] # NoNode
    <3>1. UNCHANGED currentUser /\ Reply(t, "queued")
      BY <1>14, <2>5 DEF ReceiveAcquire, f
    <3>2. \A n \in Node : ~Token(t, n, r)'
      BY <1>2, <2>1, <3>1
    <3>3. QED
      BY <1>3, <2>2, <2>3, <3>1, <3>2
  <2>6. QED
    BY <2>4, <2>5
<1>4. ASSUME NEW n \in Node, Use(n, f.r), UNCHANGED currentUser,
             \A o \in Node : Carries(f, o, r) <=> f.r = r /\ o = n,
             \A o \in Node : ~Token(t, o, r)'
      PROVE  OneTokenOf(r)'
  <2>1. used' = [used EXCEPT ![n] = used[n] \cup {f.r}]
    BY <1>4 DEF Use
  <2>2. CASE f.r = r
    <3>1. Token(t, n, r)
      BY <1>g, <1>4, <2>2
    <3>2. \A o \in Node : r \in used'[o] <=> r \in used[o] \/ o = n
      BY <1>i, <2>1, <2>2
    <3>3. QED
      BY <1>f, <1>h, <1>4, <3>1, <3>2, UsesToken
  <2>3. CASE f.r # r
    <3>1. \A o \in Node : r \in used'[o] <=> r \in used[o]
      BY <1>i, <2>1, <2>3
    <3>2. \A o \in Node : Token(t, o, r)' <=> Token(t, o, r)
      BY <1>g, <1>4, <2>3
    <3>3. QED
      BY <1>f, <1>h, <1>4, <3>1, <3>2, KeepsToken
  <2>4. QED
    BY <2>2, <2>3
<1>15. CASE UseResource(t)
  <2>1. /\ f.fn = "acquireResource" /\ f.pc = "granted" /\ Return(t)
        /\ Use(f.at, f.r) /\ UNCHANGED currentUser
    BY <1>15 DEF UseResource, At, f, ownerVars
  <2>2. \A o \in Node : ~Token(t, o, r)'
    BY <1>1, <2>1
  <2>3. \A o \in Node : Carries(f, o, r) <=> f.r = r /\ o = f.at
    BY <2>1 DEF Carries
  <2>4. QED
    BY <1>4, <1>d, <2>1, <2>2, <2>3
<1>16. CASE ReceiveGranted(t)
  <2>1. /\ f.fn = "granted" /\ f.pc = "hop" /\ f.at = f.to /\ Return(t)
        /\ Use(f.at, f.r) /\ UNCHANGED currentUser
    BY <1>16 DEF ReceiveGranted, Received, At, f, ownerVars
  <2>2. \A o \in Node : ~Token(t, o, r)'
    BY <1>1, <2>1
  <2>3. \A o \in Node : Carries(f, o, r) <=> f.r = r /\ o = f.at
    BY <2>1 DEF Carries
  <2>4. QED
    BY <1>4, <1>d, <2>1, <2>2, <2>3
<1>17. CASE CheckUsed(t)
  <2>1. f.fn = "releaseResource" /\ f.pc = "check"
    BY <1>17 DEF CheckUsed, At, f
  <2>2. \A n \in Node : ~Carries(f, n, r)
    BY <2>1 DEF Carries
  <2>3. UNCHANGED << currentUser, used >>
    BY <1>17 DEF CheckUsed, ownerVars, userVars
  <2>4. CASE Return(t)
    <3>1. \A n \in Node : ~Token(t, n, r)'
      BY <1>1, <2>1, <2>4
    <3>2. QED
      BY <1>3, <2>2, <2>3, <3>1
  <2>5. CASE Goto(t, [f EXCEPT !.pc = "remove"])
    <3> DEFINE g == [f EXCEPT !.pc = "remove"]
    <3>1. Goto(t, g)
      BY <2>5
    <3>2. g \in ResourceFrame /\ g.fn = f.fn /\ g.pc = "remove"
      BY <1>c, MovedIsFrame
    <3> HIDE DEF g
    <3>3. \A n \in Node : Token(t, n, r)' <=> Carries(g, n, r)
      BY <1>a, <1>b, <3>1, <3>2, GotoToken
    <3>4. \A n \in Node : ~Carries(g, n, r)
      BY <2>1, <3>2 DEF Carries
    <3>5. QED
      BY <1>3, <2>2, <2>3, <3>3, <3>4
  <2>6. QED
    BY <1>17, <2>4, <2>5 DEF CheckUsed, f
<1>18. CASE RemoveUsed(t)
  <2> DEFINE g == [f EXCEPT !.pc = "send"]
  <2>1. f.fn = "releaseResource" /\ f.pc = "remove" /\ f.r \in used[f.at]
    BY <1>18 DEF RemoveUsed, At, f
  <2>2. f.from = f.at
    BY <1>e, <2>1 DEF RequestOnly
  <2>3. Goto(t, g)
    BY <1>18 DEF RemoveUsed, f
  <2>4. /\ g \in ResourceFrame /\ g.fn = f.fn /\ g.pc = "send"
        /\ g.from = f.from /\ g.r = f.r
    BY <1>c, MovedIsFrame
  <2> HIDE DEF g
  <2>5. \A n \in Node : Token(t, n, r)' <=> Carries(g, n, r)
    BY <1>a, <1>b, <2>3, <2>4, GotoToken
  <2>6. \A n \in Node : Token(t, n, r)' <=> f.r = r /\ n = f.at
    BY <2>1, <2>2, <2>4, <2>5 DEF Carries
  <2>7. \A n \in Node : ~Token(t, n, r)
    BY <1>g, <2>1 DEF Carries
  <2>8. used' = [used EXCEPT ![f.at] = used[f.at] \ {f.r}]
    BY <1>18 DEF RemoveUsed, f
  <2>9. UNCHANGED currentUser
    BY <1>18 DEF RemoveUsed, ownerVars
  <2>10. CASE f.r = r
    <3>1. \A n \in Node : r \in used'[n] <=> r \in used[n] /\ n # f.at
      BY <1>i, <2>8, <2>10
    <3>2. \A n \in Node : Token(t, n, r)' <=> n = f.at
      BY <2>6, <2>10
    <3>3. r \in used[f.at]
      BY <2>1, <2>10
    <3>4. QED
      BY <1>d, <1>f, <1>h, <2>9, <3>1, <3>2, <3>3, TakesToken
  <2>11. CASE f.r # r
    <3>1. \A n \in Node : r \in used'[n] <=> r \in used[n]
      BY <1>i, <2>8, <2>11
    <3>2. \A n \in Node : Token(t, n, r)' <=> Token(t, n, r)
      BY <2>6, <2>7, <2>11
    <3>3. QED
      BY <1>f, <1>h, <2>9, <3>1, <3>2, KeepsToken
  <2>12. QED
    BY <2>10, <2>11
<1>19. CASE SendRelease(t)
  <2> DEFINE g == [f EXCEPT !.pc = "done"]
             h == ResourceMessage("release", f.at, Owner[f.r], f.r)
  <2>1. f.fn = "releaseResource" /\ f.pc = "send"
    BY <1>19 DEF SendRelease, At, f
  <2>2. f.from = f.at
    BY <1>e, <2>1 DEF RequestOnly
  <2>3. Carries(f, f.from, f.r)
    BY <2>1 DEF Carries
  <2>4. Token(t, f.from, f.r)
    BY <1>b, <2>3 DEF Token, f
  <2>5. currentUser[f.r] = f.from
    BY <1>d, <2>4 DEF ResourcesInv, OneToken, OneTokenOf
  <2>6. Owner[f.r] \in Node
    BY <1>d, <2>5 DEF ResourcesInv, UsersOwned
  <2>7. Call(t, g, h)
    BY <1>19 DEF SendRelease, f
  <2>8. g \in ResourceFrame
    BY <1>c, MovedIsFrame
  <2>9. /\ h \in ResourceFrame /\ h.fn = "release" /\ h.pc = "hop"
        /\ h.from = f.at /\ h.r = f.r
    BY <1>d, <2>6, MessageIsFrame
  <2> HIDE DEF g, h
  <2>10. \A n \in Node : Token(t, n, r)' <=> Carries(h, n, r)
    BY <1>a, <1>b, <2>7, <2>8, <2>9, CallToken
  <2>11. \A n \in Node : Carries(h, n, r) <=> Carries(f, n, r)
    BY <2>1, <2>2, <2>9 DEF Carries
  <2>12. UNCHANGED << currentUser, used >>
    BY <1>19 DEF SendRelease, ownerVars, userVars
  <2>13. QED
    BY <1>3, <2>10, <2>11, <2>12
<1>5. ASSUME f.pc = "hop", Goto(t, [f EXCEPT !.at = Succ[f.at]]),
             UNCHANGED << currentUser, used >>
      PROVE  OneTokenOf(r)'
  <2> DEFINE g == [f EXCEPT !.at = Succ[f.at]]
  <2>1. Goto(t, g)
    BY <1>5
  <2>2. /\ g \in ResourceFrame /\ g.fn = f.fn /\ g.pc = f.pc
        /\ g.to = f.to /\ g.from = f.from /\ g.r = f.r
    BY <1>c, SentOnIsFrame
  <2> HIDE DEF g
  <2>3. \A n \in Node : Token(t, n, r)' <=> Carries(g, n, r)
    BY <1>a, <1>b, <2>1, <2>2, GotoToken
  <2>4. \A n \in Node : Carries(g, n, r) <=> Carries(f, n, r)
    BY <1>5, <2>2 DEF Carries
  <2>5. QED
    BY <1>3, <1>5, <2>3, <2>4
<1>20. CASE ReceiveRelease(t)
  <2>1. f.fn = "release" /\ f.pc = "hop" /\ UNCHANGED used
    BY <1>20 DEF ReceiveRelease, Received, At, f, userVars
  <2>2. CASE currentUser[f.r] # f.from
    <3>1. /\ Goto(t, [f EXCEPT !.at = Succ[f.at]])
          /\ UNCHANGED currentUser
      BY <1>20, <2>2 DEF ReceiveRelease, f, ownerVars
    <3>2. QED
      BY <1>5, <2>1, <3>1
  <2>3. CASE currentUser[f.r] = f.from
    <3> DEFINE q == requestQueue[f.r]
    <3>1. PassOn(t, f)
      BY <1>20, <2>3 DEF ReceiveRelease, f
    <3>2. ASSUME NEW o \in Node \cup {NoNode},
                 currentUser' = [currentUser EXCEPT ![f.r] = o],
                 \A n \in Node : Token(t, n, r)' <=> f.r = r /\ n = o
          PROVE  OneTokenOf(r)'
      <4>1. CASE f.r = r
        <5>1. Token(t, f.from, r)
          BY <1>d, <1>g, <2>1, <4>1 DEF Carries
        <5>2. currentUser'[r] = o
          BY <1>i, <3>2, <4>1
        <5>3. \A n \in Node : Token(t, n, r)' <=> n = o
          BY <3>2, <4>1
        <5>4. QED
          BY <1>d, <1>f, <1>h, <2>1, <5>1, <5>2, <5>3, PassesToken
      <4>2. CASE f.r # r
        <5>1. currentUser'[r] = currentUser[r]
          BY <1>i, <3>2, <4>2
        <5>2. \A n \in Node : ~Token(t, n, r)
          BY <1>g, <4>2 DEF Carries
        <5>3. \A n \in Node : ~Token(t, n, r)'
          BY <3>2, <4>2
        <5>4. QED
          BY <1>f, <1>h, <2>1, <5>1, <5>2, <5>3, KeepsToken
      <4>3. QED
        BY <4>1, <4>2
    <3>3. CASE q = << >>
      <4>1. /\ currentUser' = [currentUser EXCEPT ![f.r] = NoNode]
            /\ Return(t)
        BY <3>1, <3>3 DEF PassOn
      <4>2. \A n \in Node : ~Token(t, n, r)'
        BY <1>1, <2>1, <4>1
      <4>3. \A n \in Node : n # NoNode
        BY ResourcesAssumption
      <4>4. QED
        BY <3>2, <4>1, <4>2, <4>3
    <3>4. CASE q # << >>
      <4> DEFINE next == q[Len(q)]
                 g == [f EXCEPT !.pc = "done"]
                 h == ResourceMessage("granted", f.at, next, f.r)
      <4>1. q \in Seq(Node)
        BY <1>d, <1>i
      <4>2. next \in Node
        BY <3>4, <4>1
      <4>3. /\ currentUser' = [currentUser EXCEPT ![f.r] = next]
            /\ Call(t, g, h)
        BY <3>1, <3>4 DEF PassOn
      <4>4. g \in ResourceFrame
        BY <1>c, MovedIsFrame
      <4> HIDE DEF next
      <4>5. /\ h \in ResourceFrame /\ h.fn = "granted" /\ h.pc = "hop"
            /\ h.to = next /\ h.r = f.r
        BY <1>d, <4>2, MessageIsFrame
      <4> HIDE DEF g, h
      <4>6. \A n \in Node : Token(t, n, r)' <=> Carries(h, n, r)
        BY <1>a, <1>b, <4>3, <4>4, <4>5, CallToken
      <4>7. \A n \in Node : Token(t, n, r)' <=> f.r = r /\ n = next
        BY <4>5, <4>6 DEF Carries
      <4>8. next \in Node \cup {NoNode}
        BY <4>2
      <4>9. currentUser' = [currentUser EXCEPT ![f.r] = next]
        BY <4>3
      <4>10. QED
        BY <3>2, <4>7, <4>8, <4>9
    <3>5. QED
      BY <3>3, <3>4
  <2>4. QED
    BY <2>2, <2>3
<1>21. CASE EndRelease(t)
  <2>1. /\ f.fn \in {"release", "releaseResource"} /\ f.pc = "done"
        /\ Return(t) /\ UNCHANGED << currentUser, used >>
    BY <1>21 DEF EndRelease, At, f, ownerVars, userVars
  <2>2. \A n \in Node : ~Token(t, n, r)'
    BY <1>1, <2>1
  <2>3. \A n \in Node : ~Carries(f, n, r)
    BY <2>1 DEF Carries
  <2>4. QED
    BY <1>3, <2>1, <2>2, <2>3
<1>22. CASE ForwardResource(t)
  <2>1. /\ f.pc = "hop" /\ Goto(t, [f EXCEPT !.at = Succ[f.at]])
        /\ UNCHANGED << currentUser, used >>
    BY <1>22 DEF ForwardResource, Forward, f, ownerVars, userVars
  <2>2. QED
    BY <1>5, <2>1
<1>23. QED
  BY <1>10, <1>11, <1>12, <1>13, <1>14, <1>15, <1>16, <1>17, <1>18, <1>19,
     <1>20, <1>21, <1>22 DEF ResourceStep

-----------------------------------------------------------------------------
(* The invariant.                                                          *)

\* What the nodes keep has its type, and the owners know who waits.
LEMMA StepData ==
  ASSUME ResourcesInv, NEW t \in Task, ResourceStep(t)
  PROVE  /\ currentUser' \in [Resource -> Node \cup {NoNode}]
         /\ requestQueue' \in [Resource -> Seq(Node)]
         /\ used' \in [Node -> SUBSET Resource]
         /\ waitingFor' \in [Node -> SUBSET Resource]
         /\ UsersOwned' /\ FreeHasNoQueue'
<1> DEFINE f == Top(t)
           s == calls[t]
           Data == /\ currentUser \in [Resource -> Node \cup {NoNode}]
                   /\ requestQueue \in [Resource -> Seq(Node)]
                   /\ used \in [Node -> SUBSET Resource]
                   /\ waitingFor \in [Node -> SUBSET Resource]
           Users == /\ used' \in [Node -> SUBSET Resource]
                    /\ waitingFor' \in [Node -> SUBSET Resource]
<1>a. calls \in [Task -> Seq(ResourceFrame)] /\ Shape(s)
  BY DEF ResourcesInv, ResourcesTypeOK, Shapes
<1>b. ~Idle(t)
  BY DEF ResourceStep, FindOwner, ReceiveQuery, ResourceNotFound, SendAcquire,
         ReceiveAcquire, UseResource, WaitForResource, CheckUsed, RemoveUsed,
         SendRelease, ReceiveRelease, ReceiveGranted, EndRelease,
         ForwardResource, Forward, Received, At
<1>c. f \in ResourceFrame
  BY <1>a, <1>b, TopIsFrame
<1>d. f.at \in Node /\ f.from \in Node /\ f.r \in Resource
  BY <1>c DEF ResourceFrame
<1>e. f.fn = "acquire" => AcquireStack(s) /\ f = s[2]
  BY <1>a, <1>b, TopShape
<1>f. Data /\ UsersOwned /\ FreeHasNoQueue
  BY DEF ResourcesInv, ResourcesTypeOK
<1> DEFINE Goal == /\ Data' /\ UsersOwned' /\ FreeHasNoQueue'
<1>1. ASSUME UNCHANGED ownerVars, Users
      PROVE  Goal
  BY <1>f, <1>1 DEF ownerVars, UsersOwned, FreeHasNoQueue
<1>2. ASSUME NEW n \in Node, Use(n, f.r)
      PROVE  Users
  BY <1>d, <1>f, <1>2 DEF Use
<1> HIDE DEF f, s
<1>3. CASE \/ FindOwner(t) \/ ReceiveQuery(t) \/ ResourceNotFound(t)
           \/ SendAcquire(t) \/ CheckUsed(t) \/ SendRelease(t)
           \/ EndRelease(t) \/ ForwardResource(t)
  <2>1. UNCHANGED << ownerVars, userVars >>
    BY <1>3 DEF FindOwner, ReceiveQuery, ResourceNotFound, SendAcquire,
                CheckUsed, SendRelease, EndRelease, ForwardResource
  <2>2. QED
    BY <1>1, <1>f, <2>1 DEF userVars
<1>4. CASE UseResource(t) \/ ReceiveGranted(t)
  <2>1. UNCHANGED ownerVars /\ Use(f.at, f.r)
    BY <1>4 DEF UseResource, ReceiveGranted, f
  <2>2. QED
    BY <1>1, <1>2, <1>d, <2>1
<1>5. CASE WaitForResource(t)
  <2>1. /\ UNCHANGED << ownerVars, used >>
        /\ waitingFor' = [waitingFor EXCEPT ![f.at] = @ \cup {f.r}]
    BY <1>5 DEF WaitForResource, f
  <2>2. Users
    BY <1>d, <1>f, <2>1
  <2>3. QED
    BY <1>1, <2>1, <2>2
<1>6. CASE RemoveUsed(t)
  <2>1. /\ UNCHANGED << ownerVars, waitingFor >>
        /\ used' = [used EXCEPT ![f.at] = @ \ {f.r}]
    BY <1>6 DEF RemoveUsed, f
  <2>2. Users
    BY <1>d, <1>f, <2>1
  <2>3. QED
    BY <1>1, <2>1, <2>2
<1>7. ASSUME NEW o \in Node \cup {NoNode}, Owner[f.r] \in Node,
             currentUser' = [currentUser EXCEPT ![f.r] = o],
             requestQueue' \in [Resource -> Seq(Node)],
             \A r \in Resource : r # f.r => requestQueue'[r] = requestQueue[r],
             o = NoNode => requestQueue'[f.r] = << >>,
             UNCHANGED userVars
      PROVE  Goal
  <2>1. Data'
    BY <1>d, <1>f, <1>7 DEF userVars
  <2>2. UsersOwned'
    BY <1>d, <1>f, <1>7 DEF UsersOwned
  <2>3. FreeHasNoQueue'
    BY <1>d, <1>f, <1>7 DEF FreeHasNoQueue
  <2>4. QED
    BY <2>1, <2>2, <2>3
<1>8. CASE ReceiveAcquire(t)
  <2>1. f.fn = "acquire" /\ UNCHANGED userVars
    BY <1>8 DEF ReceiveAcquire, Received, At, f
  <2>2. Owner[f.r] \in Node
    BY <1>e, <2>1 DEF AcquireStack, Owned
  <2>3. CASE currentUser[f.r] = NoNode
    <3>1. /\ currentUser' = [currentUser EXCEPT ![f.r] = f.from]
          /\ UNCHANGED requestQueue
      BY <1>8, <2>3 DEF ReceiveAcquire, f
    <3>2. f.from \in Node \cup {NoNode} /\ f.from # NoNode
      BY <1>d, ResourcesAssumption
    <3>3. QED
      BY <1>7, <1>f, <2>1, <2>2, <3>1, <3>2
  <2>4. CASE currentUser[f.r] # NoNode
    <3>1. /\ requestQueue' =
               [requestQueue EXCEPT ![f.r] = Append(requestQueue[f.r], f.from)]
          /\ UNCHANGED currentUser
      BY <1>8, <2>4 DEF ReceiveAcquire, f
    <3>2. Append(requestQueue[f.r], f.from) \in Seq(Node)
      BY <1>d, <1>f
    <3>3. Data'
      BY <1>d, <1>f, <2>1, <3>1, <3>2 DEF userVars
    <3>4. UsersOwned'
      BY <1>f, <3>1 DEF UsersOwned
    <3>5. FreeHasNoQueue'
      BY <1>d, <1>f, <2>4, <3>1 DEF FreeHasNoQueue
    <3>6. QED
      BY <3>3, <3>4, <3>5
  <2>5. QED
    BY <2>3, <2>4
<1>9. CASE ReceiveRelease(t)
  <2>1. UNCHANGED userVars
    BY <1>9 DEF ReceiveRelease
  <2>2. CASE currentUser[f.r] # f.from
    <3>1. UNCHANGED ownerVars
      BY <1>9, <2>2 DEF ReceiveRelease, f
    <3>2. QED
      BY <1>1, <1>f, <2>1, <3>1 DEF userVars
  <2>3. CASE currentUser[f.r] = f.from
    <3> DEFINE q == requestQueue[f.r]
               last == q[Len(q)]
               rest == SubSeq(q, 1, Len(q) - 1)
    <3>1. PassOn(t, f)
      BY <1>9, <2>3 DEF ReceiveRelease, f
    <3>2. Owner[f.r] \in Node
      BY <1>d, <1>f, <2>3 DEF UsersOwned
    <3>3. q \in Seq(Node)
      BY <1>d, <1>f
    <3>4. CASE q = << >>
      <4>1. /\ currentUser' = [currentUser EXCEPT ![f.r] = NoNode]
            /\ UNCHANGED requestQueue
        BY <3>1, <3>4 DEF PassOn
      <4>2. NoNode \in Node \cup {NoNode} /\ requestQueue'[f.r] = << >>
        BY <3>4, <4>1
      <4>3. QED
        BY <1>7, <1>f, <2>1, <3>2, <4>1, <4>2
    <3>5. CASE q # << >>
      <4>1. /\ currentUser' = [currentUser EXCEPT ![f.r] = last]
            /\ requestQueue' = [requestQueue EXCEPT ![f.r] = rest]
        BY <3>1, <3>5 DEF PassOn
      <4>2. last \in Node /\ rest \in Seq(Node)
        BY <3>3, <3>5
      <4> HIDE DEF q, last, rest
      <4>3. last \in Node \cup {NoNode} /\ last # NoNode
        BY <4>2, ResourcesAssumption
      <4>4. /\ requestQueue' \in [Resource -> Seq(Node)]
            /\ \A r \in Resource :
                 r # f.r => requestQueue'[r] = requestQueue[r]
        BY <1>f, <4>1, <4>2
      <4>5. QED
        BY <1>7, <2>1, <3>2, <4>1, <4>3, <4>4
    <3>6. QED
      BY <3>4, <3>5
  <2>4. QED
    BY <2>2, <2>3
<1>10. QED
  BY <1>3, <1>4, <1>5, <1>6, <1>8, <1>9 DEF ResourceStep

\* A request begins without the right to use anything.
LEMMA StartKeepsInv ==
  ASSUME ResourcesInv, NEW t \in Task, NEW n \in Node, NEW r \in Resource,
         StartAcquire(t, n, r) \/ StartRelease(t, n, r)
  PROVE  ResourcesInv'
<1>1. PICK f \in ResourceFrame :
        /\ Begin(t, f) /\ RequestOnly(<< f >>)
        /\ f.pc \in {"find", "check"}
  <2>1. CASE StartAcquire(t, n, r)
    <3> DEFINE f == RequestFrame("acquireResource", "find", n, r)
    <3>1. f \in ResourceFrame /\ RequestOnly(<< f >>) /\ f.pc = "find"
      BY DEF RequestFrame, ResourceFrame, RequestOnly
    <3>2. QED
      BY <2>1, <3>1 DEF StartAcquire
  <2>2. CASE StartRelease(t, n, r)
    <3> DEFINE f == RequestFrame("releaseResource", "check", n, r)
    <3>1. f \in ResourceFrame /\ RequestOnly(<< f >>) /\ f.pc = "check"
      BY DEF RequestFrame, ResourceFrame, RequestOnly
    <3>2. QED
      BY <2>2, <3>1 DEF StartRelease
  <2>3. QED
    BY <2>1, <2>2
<1>2. Idle(t) /\ UNCHANGED << currentUser, requestQueue, used, waitingFor >>
  BY DEF StartAcquire, StartRelease, FreeToStart, ownerVars, userVars
<1>3. calls \in [Task -> Seq(ResourceFrame)]
  BY DEF ResourcesInv, ResourcesTypeOK
<1>4. /\ calls' \in [Task -> Seq(ResourceFrame)]
      /\ calls'[t] = << f >>
      /\ \A u \in Task \ {t} : calls'[u] = calls[u]
  BY <1>1, <1>3, BeginEffect
<1>5. ResourcesTypeOK' /\ UsersOwned' /\ FreeHasNoQueue'
  BY <1>2, <1>4 DEF ResourcesInv, ResourcesTypeOK, UsersOwned, FreeHasNoQueue
<1>6. Shapes'
  <2>1. Shape(calls'[t])
    BY <1>1, <1>4 DEF Shape
  <2>2. QED
    BY <1>4, <2>1 DEF ResourcesInv, Shapes
<1>7. OneToken'
  <2> SUFFICES ASSUME NEW x \in Resource PROVE OneTokenOf(x)'
    BY DEF OneToken
  <2>1. OneTokenOf(x)
    BY DEF ResourcesInv, OneToken
  <2>2. \A o \in Node : ~Token(t, o, x)
    BY <1>2 DEF Token
  <2>3. Top(t)' = f
    BY <1>4 DEF Top
  <2>4. \A o \in Node : ~Token(t, o, x)'
    BY <1>1, <2>3 DEF Token, Carries
  <2>5. QED
    BY <1>2, <1>4, <2>1, <2>2, <2>4, KeepsToken
<1>8. QED
  BY <1>5, <1>6, <1>7 DEF ResourcesInv

\* The invariant holds at the start and survives every step.
LEMMA InitInv ==
  ResourcesInit => ResourcesInv
<1> SUFFICES ASSUME ResourcesInit PROVE ResourcesInv
  OBVIOUS
<1>1. \A t \in Task : calls[t] = << >> /\ Idle(t)
  BY DEF ResourcesInit, Idle
<1>2. ResourcesTypeOK
  BY DEF ResourcesInit, ResourcesTypeOK
<1>3. Shapes
  BY <1>1 DEF Shapes, Shape
<1>4. \A r \in Resource : currentUser[r] \notin Node
  BY ResourcesAssumption DEF ResourcesInit
<1>5. OneToken
  <2>1. \A t \in Task : \A n \in Node, r \in Resource : ~Token(t, n, r)
    BY <1>1 DEF Token
  <2>2. \A n \in Node, r \in Resource : r \notin used[n] /\ currentUser[r] # n
    BY <1>4 DEF ResourcesInit
  <2>3. QED
    BY <2>1, <2>2 DEF OneToken, OneTokenOf
<1>6. UsersOwned /\ FreeHasNoQueue
  BY <1>4 DEF UsersOwned, FreeHasNoQueue, ResourcesInit
<1>7. QED
  BY <1>2, <1>3, <1>5, <1>6 DEF ResourcesInv

LEMMA NextInv ==
  ResourcesInv /\ [ResourcesNext]_resourceVars => ResourcesInv'
<1> SUFFICES ASSUME ResourcesInv, [ResourcesNext]_resourceVars
             PROVE  ResourcesInv'
  OBVIOUS
<1>1. CASE UNCHANGED resourceVars
  BY <1>1 DEF resourceVars, ownerVars, userVars, ResourcesInv,
              ResourcesTypeOK, Shapes, UsersOwned, OneToken, OneTokenOf,
              FreeHasNoQueue, Token, Top, Idle
<1>2. ASSUME NEW t \in Task, ResourceStep(t)
      PROVE  ResourcesInv'
  <2>1. /\ calls' \in [Task -> Seq(ResourceFrame)]
        /\ Shape(calls'[t])
        /\ \A u \in Task \ {t} : calls'[u] = calls[u]
    BY <1>2, StepCalls
  <2>2. Shapes'
    BY <2>1 DEF ResourcesInv, Shapes
  <2>3. ResourcesTypeOK' /\ UsersOwned' /\ FreeHasNoQueue'
    BY <1>2, <2>1, StepData DEF ResourcesTypeOK
  <2>4. OneToken'
    BY <1>2, OneTokenStep
  <2>5. QED
    BY <2>2, <2>3, <2>4 DEF ResourcesInv
<1>3. ASSUME NEW t \in Task, NEW n \in Node, NEW r \in Resource,
             StartAcquire(t, n, r) \/ StartRelease(t, n, r)
      PROVE  ResourcesInv'
  BY <1>3, StartKeepsInv
<1>4. QED
  BY <1>1, <1>2, <1>3 DEF ResourcesNext

LEMMA AlwaysInv ==
  ResourcesSpec => []ResourcesInv
BY InitInv, NextInv, PTL DEF ResourcesSpec

-----------------------------------------------------------------------------
(* What the nodes promise.                                                 *)

\* Every state of Resources has its type: the frames of acquire_resource and
\* release_resource, the owners' and the users' tables.
THEOREM ResourcesTypeCorrect == ResourcesSpec => []ResourcesTypeOK
<1>1. ResourcesInv => ResourcesTypeOK
  BY DEF ResourcesInv
<1>2. QED
  BY <1>1, AlwaysInv, PTL

\* Two nodes never use a resource at the same time, whatever grants and
\* releases are on the ring: use_resource acts on a right that no other node
\* has.
THEOREM MutualExclusionHolds == ResourcesSpec => []MutualExclusion
<1>1. ResourcesInv => MutualExclusion
  BY DEF ResourcesInv, OneToken, OneTokenOf, MutualExclusion
<1>2. QED
  BY <1>1, AlwaysInv, PTL

\* No node is stranded in the queue of a free resource:
\* process_resource_release frees a resource only when nobody waits for it.
THEOREM FreeHasNoQueueHolds == ResourcesSpec => []FreeHasNoQueue
<1>1. ResourcesInv => FreeHasNoQueue
  BY DEF ResourcesInv
<1>2. QED
  BY <1>1, AlwaysInv, PTL

\* A resource is not lost: its user uses it, or exactly one grant or release
\* tells the other side of the change, and no other node has any of these.
THEOREM UserIsAccountedHolds == ResourcesSpec => []UserIsAccounted
<1>1. ASSUME ResourcesInv PROVE UserIsAccounted
  <2> SUFFICES ASSUME NEW r \in Resource, NEW n \in Node
               PROVE  IF currentUser[r] = n
                 THEN \/ /\ r \in used[n]
                         /\ ~GrantUnderWay(n, r) /\ ~ReleaseUnderWay(n, r)
                      \/ /\ r \notin used[n]
                         /\ GrantUnderWay(n, r) /\ ~ReleaseUnderWay(n, r)
                      \/ /\ r \notin used[n]
                         /\ ~GrantUnderWay(n, r) /\ ReleaseUnderWay(n, r)
                 ELSE /\ r \notin used[n]
                      /\ ~GrantUnderWay(n, r) /\ ~ReleaseUnderWay(n, r)
    BY DEF UserIsAccounted
  <2> DEFINE Grants(t) ==
               /\ ~Idle(t) /\ Top(t).r = r
               /\ \/ /\ Top(t).fn = "acquireResource"
                     /\ Top(t).pc = "granted" /\ Top(t).at = n
                  \/ /\ Top(t).fn = "granted"
                     /\ Top(t).pc = "hop" /\ Top(t).to = n
             Releases(t) ==
               /\ ~Idle(t) /\ Top(t).r = r
               /\ \/ Top(t).fn = "releaseResource" /\ Top(t).pc = "send"
                  \/ Top(t).fn = "release" /\ Top(t).pc = "hop"
               /\ Top(t).from = n
  <2>1. GrantUnderWay(n, r) <=> \E t \in Task : Grants(t)
    BY DEF GrantUnderWay, At
  <2>2. ReleaseUnderWay(n, r) <=> \E t \in Task : Releases(t)
    BY DEF ReleaseUnderWay, At
  <2>3. \A t \in Task : Token(t, n, r) <=> Grants(t) \/ Releases(t)
    BY DEF Token, Carries
  <2>4. \A t \in Task : ~(Grants(t) /\ Releases(t))
    OBVIOUS
  <2> HIDE DEF Grants, Releases
  <2>5. OneTokenOf(r)
    BY <1>1 DEF ResourcesInv, OneToken
  <2>6. CASE currentUser[r] # n \/ r \in used[n]
    <3>1. \A t \in Task : ~Token(t, n, r)
      BY <2>5, <2>6 DEF OneTokenOf
    <3>2. currentUser[r] # n => r \notin used[n]
      BY <2>5 DEF OneTokenOf
    <3>3. QED
      BY <2>1, <2>2, <2>3, <2>6, <3>1, <3>2
  <2>7. CASE currentUser[r] = n /\ r \notin used[n]
    <3>1. PICK t \in Task : Token(t, n, r)
      BY <2>5, <2>7 DEF OneTokenOf
    <3>2. \A u \in Task : Token(u, n, r) => u = t
      BY <2>5, <3>1 DEF OneTokenOf
    <3>3. QED
      BY <2>1, <2>2, <2>3, <2>4, <2>7, <3>1, <3>2
  <2>8. QED
    BY <2>6, <2>7
<1>2. QED
  BY <1>1, AlwaysInv, PTL

-----------------------------------------------------------------------------
(* Resources implements ResourceLock.                                       *)
(*                                                                         *)
(* The state of ResourceLock that a state stands for depends on used, on   *)
(* the queues, and on what each stack stands for: the resource that a      *)
(* request asks for, or the resource that it hands over.                   *)

Asks(f) ==
  \/ f.fn = "acquireResource" /\ f.pc \in {"send", "granted"}
  \/ f.fn = "acquire" /\ f.pc = "hop"

Hands(f) == f.fn = "granted" /\ f.pc = "hop"

AskedBy(s) ==
  IF s # << >> /\ Asks(s[Len(s)]) THEN << s[1].at, s[1].r >> ELSE << >>

HandedBy(s) ==
  IF s # << >> /\ Hands(s[Len(s)])
    THEN << s[Len(s)].to, s[Len(s)].r >>
    ELSE << >>

\* Places of node n in queue q, and grants of r on their way to node n.
PlacesOf(q, n) == {i \in DOMAIN q : q[i] = n}
GrantsOf(n, r) == {t \in Task : HandedBy(calls[t]) = << n, r >>}

\* What ResourceLock calls asking is what the stacks of the requests ask for.
LEMMA AskingIsAsked ==
  ASSUME NEW t \in Task
  PROVE  /\ AskingOf(t) = AskedBy(calls[t])
         /\ AskingOf(t)' = AskedBy(calls'[t])
BY DEF AskingOf, AskedBy, Asks, At, Top, Idle

\* What it calls backlog is the places in a queue and the granted messages.
LEMMA BacklogIsCounted ==
  ASSUME NEW n \in Node, NEW r \in Resource
  PROVE  /\ BacklogOf(n, r) = Cardinality(PlacesOf(requestQueue[r], n))
                                + Cardinality(GrantsOf(n, r))
         /\ BacklogOf(n, r)' = Cardinality(PlacesOf(requestQueue[r], n))'
                                 + Cardinality(GrantsOf(n, r))'
<1>1. {t \in Task : /\ At(t, "granted", "hop")
                    /\ Top(t).to = n /\ Top(t).r = r} = GrantsOf(n, r)
  BY DEF GrantsOf, HandedBy, Hands, At, Top, Idle
<1>2. {t \in Task : /\ At(t, "granted", "hop")
                    /\ Top(t).to = n /\ Top(t).r = r}' = GrantsOf(n, r)'
  BY DEF GrantsOf, HandedBy, Hands, At, Top, Idle
<1>3. QED
  BY <1>1, <1>2 DEF BacklogOf, PlacesOf

\* What the executing frame f of a stack says about it.
LEMMA StandsFor ==
  ASSUME NEW s \in Seq(ResourceFrame), Shape(s), s # << >>,
         NEW f, f = s[Len(s)]
  PROVE  /\ AskedBy(s) = IF Asks(f) THEN << f.from, f.r >> ELSE << >>
         /\ HandedBy(s) = IF Hands(f) THEN << f.to, f.r >> ELSE << >>
<1>1. HandedBy(s) = IF Hands(f) THEN << f.to, f.r >> ELSE << >>
  BY DEF HandedBy
<1>2. AskedBy(s) = IF Asks(f) THEN << s[1].at, s[1].r >> ELSE << >>
  BY DEF AskedBy
<1>3. Asks(f) => s[1].at = f.from /\ s[1].r = f.r
  <2>1. CASE Len(s) = 1 /\ RequestOnly(s)
    BY <2>1 DEF RequestOnly
  <2>2. CASE Len(s) = 2 /\ AcquireStack(s)
    BY <2>2 DEF AcquireStack
  <2>3. CASE Len(s) = 2 /\ ReleaseStack(s)
    BY <2>3 DEF ReleaseStack, Asks
  <2>4. CASE Len(s) = 3 /\ s[3].fn = "granted"
    BY <2>4 DEF Asks
  <2>5. QED
    BY <2>1, <2>2, <2>3, <2>4 DEF Shape
<1>4. QED
  BY <1>1, <1>2, <1>3

\* The places of a node in a queue can be counted.
LEMMA PlacesFinite ==
  ASSUME NEW q \in Seq(Node), NEW n \in Node
  PROVE  /\ IsFiniteSet(PlacesOf(q, n))
         /\ Cardinality(PlacesOf(q, n)) \in Nat
<1>1. IsFiniteSet(1 .. Len(q))
  BY FS_Interval
<1>2. PlacesOf(q, n) \in SUBSET (1 .. Len(q))
  BY DEF PlacesOf
<1>3. QED
  BY <1>1, <1>2, FS_Subset, FS_CardinalityType

\* A node that is queued has one place more.
LEMMA PlacesAfterAppend ==
  ASSUME NEW q \in Seq(Node), NEW m \in Node, NEW n \in Node
  PROVE  Cardinality(PlacesOf(Append(q, m), n)) =
           Cardinality(PlacesOf(q, n)) + (IF n = m THEN 1 ELSE 0)
<1> DEFINE k == Len(q)
           a == Append(q, m)
<1>1. /\ k \in Nat /\ Len(a) = k + 1 /\ a \in Seq(Node)
      /\ \A i \in 1 .. k : a[i] = q[i]
      /\ a[k + 1] = m
  OBVIOUS
<1>2. DOMAIN q = 1 .. k /\ DOMAIN a = 1 .. k + 1
  BY <1>1
<1> HIDE DEF k, a
<1>3. PlacesOf(a, n) =
        IF n = m THEN PlacesOf(q, n) \cup {k + 1} ELSE PlacesOf(q, n)
  BY <1>1, <1>2 DEF PlacesOf
<1>4. k + 1 \notin PlacesOf(q, n)
  BY <1>1, <1>2 DEF PlacesOf
<1>5. CASE n = m
  <2>1. Cardinality(PlacesOf(q, n) \cup {k + 1}) =
          Cardinality(PlacesOf(q, n)) + 1
    BY <1>4, PlacesFinite, FS_AddElement
  <2>2. Cardinality(PlacesOf(a, n)) = Cardinality(PlacesOf(q, n)) + 1
    BY <1>3, <1>5, <2>1
  <2>3. QED
    BY <1>5, <2>2 DEF a
<1>6. CASE n # m
  <2>1. Cardinality(PlacesOf(a, n)) = Cardinality(PlacesOf(q, n)) + 0
    BY <1>3, <1>6, PlacesFinite
  <2>2. QED
    BY <1>6, <2>1 DEF a
<1>7. QED
  BY <1>5, <1>6

\* A node that is taken from the end has one place less.
LEMMA PlacesAfterPop ==
  ASSUME NEW q \in Seq(Node), q # << >>, NEW n \in Node
  PROVE  Cardinality(PlacesOf(SubSeq(q, 1, Len(q) - 1), n))
             + (IF n = q[Len(q)] THEN 1 ELSE 0)
           = Cardinality(PlacesOf(q, n))
<1> DEFINE p == SubSeq(q, 1, Len(q) - 1)
           m == q[Len(q)]
           k == Len(q) - 1
<1>1. k \in Nat /\ Len(q) = k + 1 /\ m \in Node /\ q[k + 1] = m
  OBVIOUS
<1>2. p \in Seq(Node) /\ Len(p) = k /\ \A i \in 1 .. k : p[i] = q[i]
  <2>1. \A i \in 1 .. k : q[i] \in Node
    OBVIOUS
  <2>2. /\ p \in Seq(Node) /\ Len(p) = IF 1 <= k THEN k - 1 + 1 ELSE 0
        /\ \A i \in 1 .. k - 1 + 1 : p[i] = q[1 + i - 1]
    BY <1>1, <2>1, SubSeqProperties
  <2> HIDE DEF p, k
  <2>3. QED
    BY <1>1, <2>2
<1> HIDE DEF p, m, k
<1>3. Append(p, m) = q
  <2>1. /\ Append(p, m) \in Seq(Node) /\ Len(Append(p, m)) = k + 1
        /\ \A i \in 1 .. k : Append(p, m)[i] = p[i]
        /\ Append(p, m)[k + 1] = m
    BY <1>1, <1>2
  <2>2. \A i \in 1 .. k + 1 : Append(p, m)[i] = q[i]
    BY <1>1, <1>2, <2>1
  <2>3. QED
    BY <1>1, <2>1, <2>2, SeqEqual
<1>4. Cardinality(PlacesOf(q, n)) =
        Cardinality(PlacesOf(p, n)) + (IF n = m THEN 1 ELSE 0)
  <2>1. Cardinality(PlacesOf(Append(p, m), n)) =
          Cardinality(PlacesOf(p, n)) + (IF n = m THEN 1 ELSE 0)
    BY <1>1, <1>2, PlacesAfterAppend
  <2>2. QED
    BY <1>3, <2>1
<1>5. QED
  BY <1>4 DEF p, m, k

\* The user of r is the node that uses it, when at most one does.
UserIn(us, r) ==
  IF \E n \in Node : r \in us[n] THEN CHOOSE n \in Node : r \in us[n]
                                 ELSE NoNode

\* The CHOOSE in the user of r has only one node to choose.
LEMMA UserIsUnique ==
  ASSUME NEW us, NEW r,
         \A n, o \in Node : r \in us[n] /\ r \in us[o] => n = o
  PROVE  \A n \in Node : /\ r \in us[n] => UserIn(us, r) = n
                         /\ UserIn(us, r) = n => r \in us[n]
<1> SUFFICES ASSUME NEW n \in Node
             PROVE  /\ r \in us[n] => UserIn(us, r) = n
                    /\ UserIn(us, r) = n => r \in us[n]
  OBVIOUS
<1> DEFINE c == CHOOSE o \in Node : r \in us[o]
<1>1. (\E o \in Node : r \in us[o]) => c \in Node /\ r \in us[c]
  OBVIOUS
<1>2. UserIn(us, r) = IF \E o \in Node : r \in us[o] THEN c ELSE NoNode
  BY DEF UserIn
<1> HIDE DEF c
<1>3. QED
  BY <1>1, <1>2, ResourcesAssumption

\* What ResourceLock calls user is the node that uses the resource.
LEMMA UserIsUser ==
  ASSUME NEW r \in Resource
  PROVE  UserOf(r) = UserIn(used, r) /\ UserOf(r)' = UserIn(used', r)
BY DEF UserOf, UserIn

-----------------------------------------------------------------------------
(* What the stack of a request stands for after a step.                    *)

\* A request that goes on in the same function stands for its new frame.
LEMMA GotoStands ==
  ASSUME calls \in [Task -> Seq(ResourceFrame)], NEW t \in Task, ~Idle(t),
         NEW g \in ResourceFrame, Goto(t, g), Shape(calls'[t])
  PROVE  /\ AskedBy(calls'[t]) = IF Asks(g) THEN << g.from, g.r >> ELSE << >>
         /\ HandedBy(calls'[t]) = IF Hands(g) THEN << g.to, g.r >> ELSE << >>
<1>1. /\ Len(calls'[t]) = Len(calls[t])
      /\ calls'[t][Len(calls[t])] = g
      /\ calls' \in [Task -> Seq(ResourceFrame)]
  BY GotoEffect
<1>2. Len(calls[t]) \in Nat \ {0}
  BY TopIsFrame
<1>3. calls'[t] # << >> /\ g = calls'[t][Len(calls'[t])]
  BY <1>1, <1>2
<1>4. calls'[t] \in Seq(ResourceFrame)
  BY <1>1
<1>5. QED
  BY <1>3, <1>4, StandsFor

\* A request that makes a call stands for the frame of the callee.
LEMMA CallStands ==
  ASSUME calls \in [Task -> Seq(ResourceFrame)], NEW t \in Task, ~Idle(t),
         NEW g \in ResourceFrame, NEW h \in ResourceFrame, Call(t, g, h),
         Shape(calls'[t])
  PROVE  /\ AskedBy(calls'[t]) = IF Asks(h) THEN << h.from, h.r >> ELSE << >>
         /\ HandedBy(calls'[t]) = IF Hands(h) THEN << h.to, h.r >> ELSE << >>
<1>1. /\ Len(calls'[t]) = Len(calls[t]) + 1
      /\ calls'[t][Len(calls[t]) + 1] = h
      /\ calls' \in [Task -> Seq(ResourceFrame)]
  BY CallEffect
<1>2. Len(calls[t]) \in Nat \ {0}
  BY TopIsFrame
<1>3. calls'[t] # << >> /\ h = calls'[t][Len(calls'[t])]
  BY <1>1, <1>2
<1>4. calls'[t] \in Seq(ResourceFrame)
  BY <1>1
<1>5. QED
  BY <1>3, <1>4, StandsFor

\* A reply stands for the frame that the caller goes on with.
LEMMA ReturnToStands ==
  ASSUME calls \in [Task -> Seq(ResourceFrame)], NEW t \in Task,
         Len(calls[t]) > 1, NEW g \in ResourceFrame, ReturnTo(t, g),
         Shape(calls'[t])
  PROVE  /\ AskedBy(calls'[t]) = IF Asks(g) THEN << g.from, g.r >> ELSE << >>
         /\ HandedBy(calls'[t]) = IF Hands(g) THEN << g.to, g.r >> ELSE << >>
<1>1. /\ Len(calls'[t]) = Len(calls[t]) - 1
      /\ calls'[t][Len(calls[t]) - 1] = g
      /\ calls' \in [Task -> Seq(ResourceFrame)]
  BY ReturnToEffect
<1>2. Len(calls[t]) \in Nat
  OBVIOUS
<1>3. calls'[t] # << >> /\ g = calls'[t][Len(calls'[t])]
  BY <1>1, <1>2
<1>4. calls'[t] \in Seq(ResourceFrame)
  BY <1>1
<1>5. QED
  BY <1>3, <1>4, StandsFor

\* A caller that ignores the reply neither asks nor hands over.
LEMMA ReturnStands ==
  ASSUME calls \in [Task -> Seq(ResourceFrame)], NEW t \in Task, ~Idle(t),
         Return(t),
         \/ Len(calls[t]) = 1
         \/ Len(calls[t]) = 2 /\ ReleaseStack(calls[t])
         \/ Len(calls[t]) = 3 /\ ReleaseStack(calls[t])
            /\ calls[t][2].pc = "done"
  PROVE  AskedBy(calls'[t]) = << >> /\ HandedBy(calls'[t]) = << >>
<1> DEFINE s == calls[t]
           p == calls'[t]
<1>1. /\ Len(p) = Len(s) - 1
      /\ \A i \in 1 .. Len(s) - 1 : p[i] = s[i]
      /\ p \in Seq(ResourceFrame)
  BY ReturnEffect
<1> HIDE DEF p, s
<1>2. CASE Len(s) = 1
  <2>1. p = << >>
    BY <1>1, <1>2
  <2>2. QED
    BY <2>1 DEF AskedBy, HandedBy, p
<1>3. CASE Len(s) = 2 /\ ReleaseStack(s)
  <2>1. Len(p) = 1 /\ p[1].fn = "releaseResource"
    BY <1>1, <1>3 DEF ReleaseStack
  <2>2. QED
    BY <2>1 DEF AskedBy, HandedBy, Asks, Hands, p
<1>4. CASE Len(s) = 3 /\ ReleaseStack(s) /\ s[2].pc = "done"
  <2>1. Len(p) = 2 /\ p[2].fn = "release"
    BY <1>1, <1>4 DEF ReleaseStack
  <2>2. QED
    BY <2>1 DEF AskedBy, HandedBy, Asks, Hands, p
<1>5. QED
  BY <1>2, <1>3, <1>4 DEF s

-----------------------------------------------------------------------------
(* The steps of ResourceLock, by what changes.                             *)

\* Requests other than t ask for and hand over what they did.
LEMMA OthersAsk ==
  ASSUME NEW t \in Task, \A u \in Task \ {t} : calls'[u] = calls[u]
  PROVE  \A u \in Task \ {t} : AskingOf(u)' = AskingOf(u)
BY AskingIsAsked

\* The backlog depends on the queues and the granted messages only.
LEMMA BacklogKept ==
  ASSUME NEW t \in Task, \A u \in Task \ {t} : calls'[u] = calls[u],
         HandedBy(calls'[t]) = HandedBy(calls[t]),
         requestQueue' = requestQueue
  PROVE  \A r \in Resource, n \in Node : BacklogOf(n, r)' = BacklogOf(n, r)
<1> SUFFICES ASSUME NEW r \in Resource, NEW n \in Node
             PROVE  BacklogOf(n, r)' = BacklogOf(n, r)
  OBVIOUS
<1>1. \A u \in Task : HandedBy(calls'[u]) = HandedBy(calls[u])
  OBVIOUS
<1>2. GrantsOf(n, r)' = GrantsOf(n, r)
  BY <1>1 DEF GrantsOf
<1>3. QED
  BY <1>2, BacklogIsCounted DEF PlacesOf

\* A granted message carries the right to use what it hands over, so there is
\* at most one for each resource.
LEMMA HandedIsToken ==
  ASSUME NEW t \in Task, NEW n \in Node, NEW r \in Resource,
         HandedBy(calls[t]) = << n, r >>
  PROVE  Token(t, n, r)
BY DEF HandedBy, Hands, Token, Carries, Idle, Top

\* So the granted messages to a node about a resource can be counted.
LEMMA GrantsFinite ==
  ASSUME ResourcesInv, NEW n \in Node, NEW r \in Resource
  PROVE  /\ IsFiniteSet(GrantsOf(n, r))
         /\ Cardinality(GrantsOf(n, r)) \in Nat
<1>1. \A t, u \in GrantsOf(n, r) : t = u
  <2>1. OneTokenOf(r)
    BY DEF ResourcesInv, OneToken
  <2>2. QED
    BY <2>1, HandedIsToken DEF GrantsOf, OneTokenOf
<1>2. CASE GrantsOf(n, r) = {}
  BY <1>2, FS_EmptySet
<1>3. CASE GrantsOf(n, r) # {}
  <2>1. PICK t : GrantsOf(n, r) = {t}
    BY <1>1, <1>3
  <2>2. IsFiniteSet({t}) /\ Cardinality({t}) = 1
    BY FS_Singleton
  <2>3. QED
    BY <2>1, <2>2
<1>4. QED
  BY <1>2, <1>3

\* A step that moves a message, or changes what only the owner knows.
LEMMA LockStutters ==
  ASSUME NEW t \in Task, \A u \in Task \ {t} : calls'[u] = calls[u],
         AskedBy(calls'[t]) = AskedBy(calls[t]),
         HandedBy(calls'[t]) = HandedBy(calls[t]),
         used' = used, requestQueue' = requestQueue
  PROVE  UNCHANGED Lock!lockVars
<1>1. \A r \in Resource : UserOf(r)' = UserOf(r)
  BY DEF UserOf
<1>2. \A u \in Task : AskingOf(u)' = AskingOf(u)
  BY AskingIsAsked
<1>3. \A r \in Resource, n \in Node : BacklogOf(n, r)' = BacklogOf(n, r)
  BY BacklogKept
<1>4. QED
  BY <1>1, <1>2, <1>3 DEF Lock!lockVars

\* The request of node n for r learns who the owner is.
LEMMA LockAsks ==
  ASSUME NEW t \in Task, \A u \in Task \ {t} : calls'[u] = calls[u],
         NEW n \in Node, NEW r \in Resource,
         AskedBy(calls[t]) = << >>, AskedBy(calls'[t]) = << n, r >>,
         HandedBy(calls'[t]) = HandedBy(calls[t]),
         used' = used, requestQueue' = requestQueue
  PROVE  Lock!Ask(t, n, r)
<1>1. \A x \in Resource : UserOf(x)' = UserOf(x)
  BY DEF UserOf
<1>2. /\ \A u \in Task \ {t} : AskingOf(u)' = AskingOf(u)
      /\ AskingOf(t) = << >> /\ AskingOf(t)' = << n, r >>
  BY AskingIsAsked, OthersAsk
<1>3. \A x \in Resource, o \in Node : BacklogOf(o, x)' = BacklogOf(o, x)
  BY BacklogKept
<1>4. QED
  BY <1>1, <1>2, <1>3 DEF Lock!Ask, Lock!NoRequest

\* The owner queues node n instead of granting r.
LEMMA LockPutsOff ==
  ASSUME ResourcesInv,
         NEW t \in Task, \A u \in Task \ {t} : calls'[u] = calls[u],
         NEW n \in Node, NEW r \in Resource,
         requestQueue \in [Resource -> Seq(Node)],
         AskedBy(calls[t]) = << n, r >>, AskedBy(calls'[t]) = << >>,
         HandedBy(calls'[t]) = HandedBy(calls[t]), used' = used,
         requestQueue' =
           [requestQueue EXCEPT ![r] = Append(requestQueue[r], n)]
  PROVE  Lock!PutOff(t, n, r)
<1>1. \A x \in Resource : UserOf(x)' = UserOf(x)
  BY DEF UserOf
<1>2. /\ \A u \in Task \ {t} : AskingOf(u)' = AskingOf(u)
      /\ AskingOf(t) = << n, r >> /\ AskingOf(t)' = << >>
  BY AskingIsAsked, OthersAsk
<1>3. ASSUME NEW x \in Resource, NEW o \in Node
      PROVE  BacklogOf(o, x)' = IF x = r /\ o = n THEN BacklogOf(o, x) + 1
                                                  ELSE BacklogOf(o, x)
  <2> DEFINE g == Cardinality(GrantsOf(o, x))
  <2>1. \A u \in Task : HandedBy(calls'[u]) = HandedBy(calls[u])
    OBVIOUS
  <2>2. GrantsOf(o, x)' = GrantsOf(o, x)
    BY <2>1 DEF GrantsOf
  <2> DEFINE p == Cardinality(PlacesOf(requestQueue[x], o))
             q == Cardinality(PlacesOf(requestQueue'[x], o))
  <2>3. BacklogOf(o, x) = p + g /\ BacklogOf(o, x)' = q + g
    BY <2>2, BacklogIsCounted DEF PlacesOf
  <2>4. p \in Nat /\ g \in Nat
    BY PlacesFinite, GrantsFinite
  <2> HIDE DEF g
  <2>5. CASE x = r
    <3>1. requestQueue'[x] = Append(requestQueue[x], n)
      BY <2>5
    <3>2. q = p + IF o = n THEN 1 ELSE 0
      BY <3>1, PlacesAfterAppend
    <3>3. QED
      BY <2>3, <2>4, <2>5, <3>2
  <2>6. CASE x # r
    BY <2>3, <2>6
  <2>7. QED
    BY <2>5, <2>6
<1>4. QED
  BY <1>1, <1>2, <1>3 DEF Lock!PutOff, Lock!NoRequest

\* A step that changes who uses r leaves the users of the others.
LEMMA UserKept ==
  ASSUME used \in [Node -> SUBSET Resource],
         NEW n \in Node, NEW r \in Resource,
         \/ used' = [used EXCEPT ![n] = used[n] \cup {r}]
         \/ used' = [used EXCEPT ![n] = used[n] \ {r}],
         \A x \in Resource, o, p \in Node :
           x \in used[o] /\ x \in used[p] => o = p
  PROVE  \A x \in Resource \ {r} : UserOf(x)' = UserOf(x)
<1> SUFFICES ASSUME NEW x \in Resource, x # r PROVE UserOf(x)' = UserOf(x)
  OBVIOUS
<1>1. \A o \in Node : x \in used'[o] <=> x \in used[o]
  OBVIOUS
<1>2. CASE \E o \in Node : x \in used[o]
  <2>1. PICK o \in Node : x \in used[o]
    BY <1>2
  <2>2. \A p, q \in Node : x \in used'[p] /\ x \in used'[q] => p = q
    BY <1>1
  <2>3. UserIn(used, x) = o
    BY <2>1, UserIsUnique
  <2>4. UserIn(used', x) = o
    BY <1>1, <2>1, <2>2, UserIsUnique
  <2>5. QED
    BY <2>3, <2>4, UserIsUser
<1>3. CASE ~ \E o \in Node : x \in used[o]
  BY <1>1, <1>3 DEF UserOf
<1>4. QED
  BY <1>2, <1>3

\* A node that has the right to use r finds it unused.
LEMMA BeginsToUse ==
  ASSUME ResourcesInv, MutualExclusion',
         NEW t \in Task, NEW n \in Node, NEW r \in Resource, Token(t, n, r),
         used' = [used EXCEPT ![n] = used[n] \cup {r}]
  PROVE  /\ UserOf(r) = NoNode /\ UserOf(r)' = n
         /\ \A x \in Resource \ {r} : UserOf(x)' = UserOf(x)
<1>1. used \in [Node -> SUBSET Resource]
  BY DEF ResourcesInv, ResourcesTypeOK
<1>2. UserOf(r) = NoNode
  <2>1. \A o \in Node : r \notin used[o]
    BY DEF ResourcesInv, OneToken, OneTokenOf
  <2>2. QED
    BY <2>1 DEF UserOf
<1>3. UserOf(r)' = n
  <2>1. r \in used'[n]
    BY <1>1
  <2>2. \A o, p \in Node : r \in used'[o] /\ r \in used'[p] => o = p
    BY DEF MutualExclusion
  <2>3. QED
    BY <2>1, <2>2, UserIsUnique, UserIsUser
<1>4. \A x \in Resource, o, p \in Node :
        x \in used[o] /\ x \in used[p] => o = p
  BY DEF ResourcesInv, OneToken, OneTokenOf
<1>5. QED
  BY <1>1, <1>2, <1>3, <1>4, UserKept

\* The reply with the grant reaches node n, which begins to use r.
LEMMA LockServes ==
  ASSUME ResourcesInv, MutualExclusion',
         NEW t \in Task, \A u \in Task \ {t} : calls'[u] = calls[u],
         NEW n \in Node, NEW r \in Resource, Token(t, n, r),
         AskedBy(calls[t]) = << n, r >>, AskedBy(calls'[t]) = << >>,
         HandedBy(calls'[t]) = HandedBy(calls[t]),
         used' = [used EXCEPT ![n] = used[n] \cup {r}],
         requestQueue' = requestQueue
  PROVE  Lock!Serve(t, n, r)
<1>1. UserOf(r) = NoNode /\ UserOf(r)' = n
  BY BeginsToUse
<1>2. \A x \in Resource \ {r} : UserOf(x)' = UserOf(x)
  BY BeginsToUse
<1>3. /\ \A u \in Task \ {t} : AskingOf(u)' = AskingOf(u)
      /\ AskingOf(t) = << n, r >> /\ AskingOf(t)' = << >>
  BY AskingIsAsked, OthersAsk
<1>4. \A x \in Resource, o \in Node : BacklogOf(o, x)' = BacklogOf(o, x)
  BY BacklogKept
<1>5. QED
  BY <1>1, <1>2, <1>3, <1>4 DEF Lock!Serve, Lock!NoRequest

\* The granted message reaches node n, which begins to use r.
LEMMA LockServesBacklog ==
  ASSUME ResourcesInv, MutualExclusion',
         NEW t \in Task, \A u \in Task \ {t} : calls'[u] = calls[u],
         NEW n \in Node, NEW r \in Resource,
         AskedBy(calls'[t]) = AskedBy(calls[t]),
         HandedBy(calls[t]) = << n, r >>, HandedBy(calls'[t]) = << >>,
         used' = [used EXCEPT ![n] = used[n] \cup {r}],
         requestQueue' = requestQueue
  PROVE  Lock!ServeBacklog(n, r)
<1>0. Token(t, n, r)
  BY HandedIsToken
<1>1. UserOf(r) = NoNode /\ UserOf(r)' = n
  BY <1>0, BeginsToUse
<1>2. \A x \in Resource \ {r} : UserOf(x)' = UserOf(x)
  BY <1>0, BeginsToUse
<1>3. \A u \in Task : AskingOf(u)' = AskingOf(u)
  BY AskingIsAsked, OthersAsk
<1>4. GrantsOf(n, r) = {t} /\ GrantsOf(n, r)' = {}
  <2>1. \A u \in Task : Token(u, n, r) => u = t
    BY <1>0 DEF ResourcesInv, OneToken, OneTokenOf
  <2>2. \A u \in Task : HandedBy(calls[u]) = << n, r >> <=> u = t
    BY <2>1, HandedIsToken
  <2>3. \A u \in Task : HandedBy(calls'[u]) # << n, r >>
    BY <2>2
  <2>4. QED
    BY <2>2, <2>3 DEF GrantsOf
<1>5. ASSUME NEW x \in Resource, NEW o \in Node, x # r \/ o # n
      PROVE  GrantsOf(o, x)' = GrantsOf(o, x)
  <2>1. \A u \in Task : HandedBy(calls'[u]) = << o, x >>
                          <=> HandedBy(calls[u]) = << o, x >>
    BY <1>5
  <2>2. QED
    BY <2>1 DEF GrantsOf
<1>6. BacklogOf(n, r) > 0 /\ BacklogOf(n, r)' = BacklogOf(n, r) - 1
  <2> DEFINE p == Cardinality(PlacesOf(requestQueue[r], n))
  <2>1. Cardinality(GrantsOf(n, r)) = 1 /\ Cardinality(GrantsOf(n, r)') = 0
    BY <1>4, FS_Singleton, FS_EmptySet
  <2>2. BacklogOf(n, r) = p + 1 /\ BacklogOf(n, r)' = p + 0
    BY <2>1, BacklogIsCounted DEF PlacesOf
  <2>3. p \in Nat
    BY PlacesFinite DEF ResourcesInv, ResourcesTypeOK
  <2> HIDE DEF p
  <2>4. QED
    BY <2>2, <2>3
<1>7. ASSUME NEW x \in Resource, NEW o \in Node, x # r \/ o # n
      PROVE  BacklogOf(o, x)' = BacklogOf(o, x)
  <2>1. GrantsOf(o, x)' = GrantsOf(o, x)
    BY <1>5, <1>7
  <2>2. QED
    BY <2>1, BacklogIsCounted DEF PlacesOf
<1>8. QED
  BY <1>1, <1>2, <1>3, <1>6, <1>7 DEF Lock!ServeBacklog

\* Node n removes r from its used_resources.
LEMMA LockGivesBack ==
  ASSUME ResourcesInv, MutualExclusion',
         NEW t \in Task, \A u \in Task \ {t} : calls'[u] = calls[u],
         NEW n \in Node, NEW r \in Resource, r \in used[n],
         AskedBy(calls'[t]) = AskedBy(calls[t]),
         HandedBy(calls'[t]) = HandedBy(calls[t]),
         used' = [used EXCEPT ![n] = used[n] \ {r}],
         requestQueue' = requestQueue
  PROVE  Lock!GiveBack(r)
<1>a. used \in [Node -> SUBSET Resource]
  BY DEF ResourcesInv, ResourcesTypeOK
<1>b. \A x \in Resource, o, p \in Node :
        x \in used[o] /\ x \in used[p] => o = p
  BY DEF ResourcesInv, OneToken, OneTokenOf
<1>1. UserOf(r) = n /\ UserOf(r)' = NoNode
  <2>1. UserOf(r) = n
    BY <1>b, UserIsUnique, UserIsUser
  <2>2. \A o \in Node : r \notin used'[o]
    BY <1>a, <1>b
  <2>3. QED
    BY <2>1, <2>2 DEF UserOf
<1>2. \A x \in Resource \ {r} : UserOf(x)' = UserOf(x)
  BY <1>a, <1>b, UserKept
<1>3. \A u \in Task : AskingOf(u)' = AskingOf(u)
  BY AskingIsAsked, OthersAsk
<1>4. \A x \in Resource, o \in Node : BacklogOf(o, x)' = BacklogOf(o, x)
  BY BacklogKept
<1>5. QED
  <2>1. UserOf(r) # NoNode
    BY <1>1, ResourcesAssumption
  <2>2. [x \in Resource |-> UserOf(x)]' =
          [[x \in Resource |-> UserOf(x)] EXCEPT ![r] = NoNode]
    BY <1>1, <1>2
  <2>3. UNCHANGED << [u \in Task |-> AskingOf(u)],
          [x \in Resource |-> [o \in Node |-> BacklogOf(o, x)]] >>
    BY <1>3, <1>4
  <2>4. QED
    BY <2>1, <2>2, <2>3 DEF Lock!GiveBack

\* The owner takes node n from the end of the queue and sends it r.
LEMMA LockHandsOver ==
  ASSUME ResourcesInv,
         NEW t \in Task, \A u \in Task \ {t} : calls'[u] = calls[u],
         NEW n \in Node, NEW r \in Resource, NEW m \in Node, Token(t, m, r),
         AskedBy(calls'[t]) = AskedBy(calls[t]),
         HandedBy(calls[t]) = << >>, HandedBy(calls'[t]) = << n, r >>,
         used' = used, requestQueue[r] # << >>,
         n = requestQueue[r][Len(requestQueue[r])],
         requestQueue' = [requestQueue EXCEPT ![r] =
           SubSeq(requestQueue[r], 1, Len(requestQueue[r]) - 1)]
  PROVE  UNCHANGED Lock!lockVars
<1>a. requestQueue \in [Resource -> Seq(Node)]
  BY DEF ResourcesInv, ResourcesTypeOK
<1>1. \A x \in Resource : UserOf(x)' = UserOf(x)
  BY DEF UserOf
<1>2. \A u \in Task : AskingOf(u)' = AskingOf(u)
  BY AskingIsAsked, OthersAsk
<1>3. \A o \in Node : GrantsOf(o, r) = {}
  <2>1. \A u \in Task, o \in Node : Token(u, o, r) => u = t
    BY DEF ResourcesInv, OneToken, OneTokenOf
  <2>2. ASSUME NEW u \in Task, NEW o \in Node,
               HandedBy(calls[u]) = << o, r >>
        PROVE  FALSE
    <3>1. u = t
      BY <2>1, <2>2, HandedIsToken
    <3>2. Len(<< o, r >>) = 2 /\ Len(<< >>) = 0
      OBVIOUS
    <3>3. << o, r >> = << >>
      BY <2>2, <3>1
    <3>4. QED
      BY <3>2, <3>3
  <2>3. QED
    BY <2>2 DEF GrantsOf
<1>4. GrantsOf(n, r)' = {t}
  <2>1. \A u \in Task \ {t} : HandedBy(calls'[u]) # << n, r >>
    BY <1>3 DEF GrantsOf
  <2>2. QED
    BY <2>1 DEF GrantsOf
<1>5. ASSUME NEW x \in Resource, NEW o \in Node, x # r \/ o # n
      PROVE  GrantsOf(o, x)' = GrantsOf(o, x)
  <2>1. \A u \in Task : HandedBy(calls'[u]) = << o, x >>
                          <=> HandedBy(calls[u]) = << o, x >>
    BY <1>5
  <2>2. QED
    BY <2>1 DEF GrantsOf
<1>6. ASSUME NEW x \in Resource, NEW o \in Node
      PROVE  BacklogOf(o, x)' = BacklogOf(o, x)
  <2> DEFINE p == Cardinality(PlacesOf(requestQueue[x], o))
             q == Cardinality(PlacesOf(requestQueue'[x], o))
             g == Cardinality(GrantsOf(o, x))
             h == Cardinality(GrantsOf(o, x)')
  <2>1. BacklogOf(o, x) = p + g /\ BacklogOf(o, x)' = q + h
    BY BacklogIsCounted DEF PlacesOf
  <2>2. CASE x # r
    <3>1. g = h /\ p = q
      BY <1>5, <2>2
    <3>2. QED
      BY <2>1, <3>1
  <2>3. CASE x = r
    <3>1. requestQueue'[x] =
            SubSeq(requestQueue[x], 1, Len(requestQueue[x]) - 1)
      BY <1>a, <2>3
    <3>2. q + (IF o = n THEN 1 ELSE 0) = p
      BY <1>a, <2>3, <3>1, PlacesAfterPop
    <3>3. g = 0 /\ h = IF o = n THEN 1 ELSE 0
      BY <1>3, <1>4, <1>5, <2>3, FS_EmptySet, FS_Singleton
    <3>4. p \in Nat
      BY <1>a, PlacesFinite
    <3> HIDE DEF p, q, g, h
    <3>5. QED
      BY <2>1, <3>2, <3>3, <3>4
  <2>4. QED
    BY <2>2, <2>3
<1>7. QED
  BY <1>1, <1>2, <1>6 DEF Lock!lockVars

-----------------------------------------------------------------------------
(* Every step of a request is a step of ResourceLock or changes none of    *)
(* what it speaks of.                                                      *)

\* A step of a request that runs.
LEMMA StepImplements ==
  ASSUME ResourcesInv, NEW t \in Task, ResourceStep(t)
  PROVE  [Lock!LockNext]_(Lock!lockVars)
<1> DEFINE f == Top(t)
           s == calls[t]
           Asked == AskedBy(s)
           Handed == HandedBy(s)
           Asked2 == AskedBy(calls'[t])
           Handed2 == HandedBy(calls'[t])
           Goal == [Lock!LockNext]_(Lock!lockVars)
<1>a. calls \in [Task -> Seq(ResourceFrame)] /\ Shape(s)
  BY DEF ResourcesInv, ResourcesTypeOK, Shapes
<1>b. ~Idle(t)
  BY DEF ResourceStep, FindOwner, ReceiveQuery, ResourceNotFound, SendAcquire,
         ReceiveAcquire, UseResource, WaitForResource, CheckUsed, RemoveUsed,
         SendRelease, ReceiveRelease, ReceiveGranted, EndRelease,
         ForwardResource, Forward, Received, At
<1>c. f \in ResourceFrame
  BY <1>a, <1>b, TopIsFrame
<1>d. f.at \in Node /\ f.from \in Node /\ f.to \in Node /\ f.r \in Resource
  BY <1>c DEF ResourceFrame
<1>e. /\ f.fn \in {"acquireResource", "releaseResource"}
           => Len(s) = 1 /\ RequestOnly(s) /\ f = s[1]
      /\ f.fn \in {"query", "acquire"}
           => Len(s) = 2 /\ AcquireStack(s) /\ f = s[2]
      /\ f.fn = "release" => Len(s) = 2 /\ ReleaseStack(s) /\ f = s[2]
      /\ f.fn = "granted"
           => /\ Len(s) = 3 /\ ReleaseStack(s) /\ s[2].pc = "done"
              /\ f = s[3] /\ s[3].pc = "hop"
  BY <1>a, <1>b, TopShape
<1>f. Shape(calls'[t]) /\ \A u \in Task \ {t} : calls'[u] = calls[u]
  BY StepCalls
<1>g. MutualExclusion'
  BY OneTokenStep DEF OneToken, OneTokenOf, MutualExclusion
<1>h. /\ Asked = IF Asks(f) THEN << f.from, f.r >> ELSE << >>
      /\ Handed = IF Hands(f) THEN << f.to, f.r >> ELSE << >>
  BY <1>a, <1>b, StandsFor DEF Top, Idle
<1>i. s \in Seq(ResourceFrame)
  BY <1>a
<1>j. requestQueue \in [Resource -> Seq(Node)]
  BY DEF ResourcesInv, ResourcesTypeOK
\* What t stands for after each kind of change of its stack.
<1>1. ASSUME Return(t), f.fn # "query", f.fn # "acquire"
      PROVE  Asked2 = << >> /\ Handed2 = << >>
  <2>1. \/ Len(s) = 1
        \/ Len(s) = 2 /\ ReleaseStack(s)
        \/ Len(s) = 3 /\ ReleaseStack(s) /\ s[2].pc = "done"
    BY <1>c, <1>e, <1>1 DEF ResourceFrame
  <2>2. QED
    BY <1>a, <1>b, <1>1, <2>1, ReturnStands
<1>2. ASSUME Received(t, "query") \/ Received(t, "acquire"),
             NEW pc \in {"send", "unknown", "granted", "queued"}, Reply(t, pc)
      PROVE  /\ Handed2 = << >>
             /\ Asked2 = IF pc \in {"send", "granted"}
                           THEN << f.from, f.r >> ELSE << >>
  <2> DEFINE c == s[1]
             g == [c EXCEPT !.pc = pc]
  <2>1. Len(s) = 2 /\ AcquireStack(s) /\ f = s[2]
    BY <1>2, <1>e DEF Received, At
  <2>2. c \in ResourceFrame
    BY <1>i, <2>1
  <2>3. c.fn = "acquireResource" /\ f.from = c.from /\ f.r = c.r
    BY <2>1 DEF AcquireStack
  <2>4. ReturnTo(t, g)
    BY <1>2, <2>1 DEF Reply, Caller
  <2>5. Len(calls[t]) > 1
    BY <2>1
  <2> HIDE DEF c
  <2>6. pc \in {"find", "unknown", "send", "await", "hop", "granted",
                "queued", "check", "remove", "done"}
    BY <1>2
  <2>7. /\ g \in ResourceFrame /\ g.fn = c.fn /\ g.pc = pc
        /\ g.from = c.from /\ g.r = c.r
    BY <2>2, <2>6 DEF ResourceFrame
  <2> HIDE DEF f, s, g
  <2>8. /\ Asked2 = IF Asks(g) THEN << g.from, g.r >> ELSE << >>
        /\ Handed2 = IF Hands(g) THEN << g.to, g.r >> ELSE << >>
    BY <1>a, <1>f, <2>4, <2>5, <2>7, ReturnToStands
  <2>9. QED
    BY <2>3, <2>7, <2>8 DEF Asks, Hands
<1>3. ASSUME NEW g \in ResourceFrame, Goto(t, g)
      PROVE  /\ Asked2 = IF Asks(g) THEN << g.from, g.r >> ELSE << >>
             /\ Handed2 = IF Hands(g) THEN << g.to, g.r >> ELSE << >>
  BY <1>a, <1>b, <1>f, <1>3, GotoStands
<1>4. ASSUME NEW g \in ResourceFrame, NEW h \in ResourceFrame, Call(t, g, h)
      PROVE  /\ Asked2 = IF Asks(h) THEN << h.from, h.r >> ELSE << >>
             /\ Handed2 = IF Hands(h) THEN << h.to, h.r >> ELSE << >>
  BY <1>a, <1>b, <1>f, <1>4, CallStands
<1>5. ASSUME UNCHANGED << used, requestQueue >>,
             Asked2 = Asked, Handed2 = Handed
      PROVE  Goal
  BY <1>f, <1>5, LockStutters
<1> HIDE DEF f, s, Asked2, Handed2, Asked, Handed
<1>10. CASE FindOwner(t)
  <2>1. /\ f.fn = "acquireResource" /\ f.pc = "find"
        /\ UNCHANGED << used, requestQueue >>
    BY <1>10 DEF FindOwner, At, f, ownerVars, userVars
  <2>2. Asked = << >> /\ Handed = << >> /\ f.from = f.at
    BY <1>e, <1>h, <2>1 DEF Asks, Hands, RequestOnly
  <2>3. CASE Owner[f.r] = f.at
    <3> DEFINE g == [f EXCEPT !.pc = "send"]
    <3>1. Goto(t, g)
      BY <1>10, <2>3 DEF FindOwner, f
    <3>2. /\ g \in ResourceFrame /\ g.fn = f.fn /\ g.pc = "send"
          /\ g.from = f.from /\ g.r = f.r
      BY <1>c, MovedIsFrame
    <3> HIDE DEF g
    <3>3. Asked2 = << f.from, f.r >> /\ Handed2 = << >>
      BY <1>3, <2>1, <3>1, <3>2 DEF Asks, Hands
    <3>4. Lock!Ask(t, f.from, f.r)
      BY <1>d, <1>f, <2>1, <2>2, <3>3, LockAsks
         DEF Asked, Asked2, Handed, Handed2, s
    <3>5. QED
      BY <1>d, <3>4 DEF Lock!LockNext
  <2>4. CASE Owner[f.r] # f.at
    <3> DEFINE g == [f EXCEPT !.pc = "await"]
               h == ResourceMessage("query", f.at, QueryEnd(f.at, f.r), f.r)
    <3>1. Call(t, g, h)
      BY <1>10, <2>4 DEF FindOwner, f
    <3>2. g \in ResourceFrame
      BY <1>c, MovedIsFrame
    <3>3. QueryEnd(f.at, f.r) \in Node
      BY <1>d, QueryEndIsNode
    <3>4. h \in ResourceFrame /\ h.fn = "query"
      BY <1>d, <3>3, MessageIsFrame
    <3> HIDE DEF g, h
    <3>5. Asked2 = << >> /\ Handed2 = << >>
      BY <1>4, <3>1, <3>2, <3>4 DEF Asks, Hands
    <3>6. QED
      BY <1>5, <2>1, <2>2, <3>5
  <2>5. QED
    BY <2>3, <2>4
<1>11. CASE ReceiveQuery(t)
  <2> DEFINE answer == IF Owner[f.r] = f.at THEN "send" ELSE "unknown"
  <2>1. /\ Received(t, "query") /\ Reply(t, answer) /\ f.fn = "query"
        /\ UNCHANGED << used, requestQueue >>
    BY <1>11 DEF ReceiveQuery, Received, At, f, ownerVars, userVars
  <2>2. Asked = << >> /\ Handed = << >>
    BY <1>h, <2>1 DEF Asks, Hands
  <2>3. answer \in {"send", "unknown", "granted", "queued"}
    OBVIOUS
  <2>4. answer # "granted"
    OBVIOUS
  <2> HIDE DEF answer
  <2>5. /\ Handed2 = << >>
        /\ Asked2 = IF answer \in {"send", "granted"}
                      THEN << f.from, f.r >> ELSE << >>
    BY <1>2, <2>1, <2>3
  <2>6. CASE answer = "send"
    <3>1. Asked2 = << f.from, f.r >>
      BY <2>5, <2>6
    <3>2. Lock!Ask(t, f.from, f.r)
      BY <1>d, <1>f, <2>1, <2>2, <2>5, <3>1, LockAsks
         DEF Asked, Asked2, Handed, Handed2, s
    <3>3. QED
      BY <1>d, <3>2 DEF Lock!LockNext
  <2>7. CASE answer # "send"
    <3>1. Asked2 = << >>
      BY <2>4, <2>5, <2>7
    <3>2. QED
      BY <1>5, <2>1, <2>2, <2>5, <3>1
  <2>8. QED
    BY <2>6, <2>7
<1>12. CASE ResourceNotFound(t) \/ WaitForResource(t)
  <2>1. /\ f.fn = "acquireResource" /\ f.pc \in {"unknown", "queued"}
        /\ Return(t) /\ UNCHANGED << used, requestQueue >>
    BY <1>12 DEF ResourceNotFound, WaitForResource, At, f, ownerVars, userVars
  <2>2. Asked2 = << >> /\ Handed2 = << >>
    BY <1>1, <2>1
  <2>3. Asked = << >> /\ Handed = << >>
    BY <1>h, <2>1 DEF Asks, Hands
  <2>4. QED
    BY <1>5, <2>1, <2>2, <2>3
<1>13. CASE SendAcquire(t)
  <2> DEFINE g == [f EXCEPT !.pc = "await"]
             h == ResourceMessage("acquire", f.at, Owner[f.r], f.r)
  <2>1. /\ f.fn = "acquireResource" /\ f.pc = "send" /\ Call(t, g, h)
        /\ UNCHANGED << used, requestQueue >>
    BY <1>13 DEF SendAcquire, At, f, ownerVars, userVars
  <2>2. Owned(f) /\ f.from = f.at
    BY <1>e, <2>1 DEF RequestOnly
  <2>3. g \in ResourceFrame
    BY <1>c, MovedIsFrame
  <2>4. /\ h \in ResourceFrame /\ h.fn = "acquire" /\ h.pc = "hop"
        /\ h.from = f.at /\ h.r = f.r
    BY <1>d, <2>2, MessageIsFrame DEF Owned
  <2> HIDE DEF g, h
  <2>5. Asked2 = << f.from, f.r >> /\ Handed2 = << >>
    BY <1>4, <2>1, <2>2, <2>3, <2>4 DEF Asks, Hands
  <2>6. Asked = << f.from, f.r >> /\ Handed = << >>
    BY <1>h, <2>1 DEF Asks, Hands
  <2>7. QED
    BY <1>5, <2>1, <2>5, <2>6
<1>14. CASE ReceiveAcquire(t)
  <2>1. /\ Received(t, "acquire") /\ f.fn = "acquire" /\ f.pc = "hop"
        /\ UNCHANGED used
    BY <1>14 DEF ReceiveAcquire, Received, At, f, userVars
  <2>2. Asked = << f.from, f.r >> /\ Handed = << >>
    BY <1>h, <2>1 DEF Asks, Hands
  <2>3. CASE currentUser[f.r] = NoNode
    <3>1. Reply(t, "granted") /\ UNCHANGED requestQueue
      BY <1>14, <2>3 DEF ReceiveAcquire, f
    <3>2. Asked2 = << f.from, f.r >> /\ Handed2 = << >>
      BY <1>2, <2>1, <3>1
    <3>3. QED
      BY <1>5, <2>1, <2>2, <3>1, <3>2
  <2>4. CASE currentUser[f.r] # NoNode
    <3>1. /\ Reply(t, "queued")
          /\ requestQueue' =
               [requestQueue EXCEPT ![f.r] = Append(requestQueue[f.r], f.from)]
      BY <1>14, <2>4 DEF ReceiveAcquire, f
    <3>2. Asked2 = << >> /\ Handed2 = << >>
      BY <1>2, <2>1, <3>1
    <3>3. Lock!PutOff(t, f.from, f.r)
      BY <1>d, <1>f, <1>j, <2>1, <2>2, <3>1, <3>2, LockPutsOff
         DEF Asked, Asked2, Handed, Handed2, s
    <3>4. QED
      BY <1>d, <3>3 DEF Lock!LockNext
  <2>5. QED
    BY <2>3, <2>4
<1>15. CASE UseResource(t)
  <2>1. /\ f.fn = "acquireResource" /\ f.pc = "granted" /\ Return(t)
        /\ used' = [used EXCEPT ![f.at] = used[f.at] \cup {f.r}]
        /\ UNCHANGED requestQueue
    BY <1>15 DEF UseResource, Use, At, f, ownerVars
  <2>2. Asked2 = << >> /\ Handed2 = << >>
    BY <1>1, <2>1
  <2>3. f.from = f.at
    BY <1>e, <2>1 DEF RequestOnly
  <2>4. Asked = << f.at, f.r >> /\ Handed = << >>
    BY <1>h, <2>1, <2>3 DEF Asks, Hands
  <2>5. Token(t, f.at, f.r)
    BY <1>b, <2>1 DEF Token, Carries, f
  <2>6. Lock!Serve(t, f.at, f.r)
    BY <1>d, <1>f, <1>g, <2>1, <2>2, <2>4, <2>5, LockServes
       DEF Asked, Asked2, Handed, Handed2, s
  <2>7. QED
    BY <1>d, <2>6 DEF Lock!LockNext
<1>16. CASE ReceiveGranted(t)
  <2>1. /\ f.fn = "granted" /\ f.pc = "hop" /\ f.at = f.to /\ Return(t)
        /\ used' = [used EXCEPT ![f.at] = used[f.at] \cup {f.r}]
        /\ UNCHANGED requestQueue
    BY <1>16 DEF ReceiveGranted, Received, Use, At, f, ownerVars
  <2>2. Asked2 = << >> /\ Handed2 = << >>
    BY <1>1, <2>1
  <2>3. Asked = << >> /\ Handed = << f.at, f.r >>
    BY <1>h, <2>1 DEF Asks, Hands
  <2>4. Lock!ServeBacklog(f.at, f.r)
    BY <1>d, <1>f, <1>g, <2>1, <2>2, <2>3, LockServesBacklog
       DEF Asked, Asked2, Handed, Handed2, s
  <2>5. QED
    BY <1>d, <2>4 DEF Lock!LockNext
<1>17. CASE CheckUsed(t)
  <2>1. /\ f.fn = "releaseResource" /\ f.pc = "check"
        /\ UNCHANGED << used, requestQueue >>
    BY <1>17 DEF CheckUsed, At, f, ownerVars, userVars
  <2>2. Asked = << >> /\ Handed = << >>
    BY <1>h, <2>1 DEF Asks, Hands
  <2>3. CASE Return(t)
    <3>1. Asked2 = << >> /\ Handed2 = << >>
      BY <1>1, <2>1, <2>3
    <3>2. QED
      BY <1>5, <2>1, <2>2, <3>1
  <2>4. CASE Goto(t, [f EXCEPT !.pc = "remove"])
    <3> DEFINE g == [f EXCEPT !.pc = "remove"]
    <3>1. g \in ResourceFrame /\ g.fn = f.fn
      BY <1>c, MovedIsFrame
    <3>2. Goto(t, g)
      BY <2>4
    <3> HIDE DEF g
    <3>3. Asked2 = << >> /\ Handed2 = << >>
      BY <1>3, <2>1, <3>1, <3>2 DEF Asks, Hands
    <3>4. QED
      BY <1>5, <2>1, <2>2, <3>3
  <2>5. QED
    BY <1>17, <2>3, <2>4 DEF CheckUsed, f
<1>18. CASE RemoveUsed(t)
  <2> DEFINE g == [f EXCEPT !.pc = "send"]
  <2>1. /\ f.fn = "releaseResource" /\ f.pc = "remove" /\ Goto(t, g)
        /\ f.r \in used[f.at]
        /\ used' = [used EXCEPT ![f.at] = used[f.at] \ {f.r}]
        /\ UNCHANGED requestQueue
    BY <1>18 DEF RemoveUsed, At, f, ownerVars
  <2>2. g \in ResourceFrame /\ g.fn = f.fn
    BY <1>c, MovedIsFrame
  <2> HIDE DEF g
  <2>3. Asked2 = << >> /\ Handed2 = << >>
    BY <1>3, <2>1, <2>2 DEF Asks, Hands
  <2>4. Asked = << >> /\ Handed = << >>
    BY <1>h, <2>1 DEF Asks, Hands
  <2>5. Lock!GiveBack(f.r)
    BY <1>d, <1>f, <1>g, <2>1, <2>3, <2>4, LockGivesBack
       DEF Asked, Asked2, Handed, Handed2, s
  <2>6. QED
    BY <1>d, <2>5 DEF Lock!LockNext
<1>19. CASE SendRelease(t)
  <2> DEFINE g == [f EXCEPT !.pc = "done"]
             h == ResourceMessage("release", f.at, Owner[f.r], f.r)
  <2>1. /\ f.fn = "releaseResource" /\ f.pc = "send" /\ Call(t, g, h)
        /\ UNCHANGED << used, requestQueue >>
    BY <1>19 DEF SendRelease, At, f, ownerVars, userVars
  <2>2. Owner[f.r] \in Node
    <3>1. Token(t, f.from, f.r)
      BY <1>b, <2>1 DEF Token, Carries, f
    <3>2. currentUser[f.r] = f.from
      BY <1>d, <3>1 DEF ResourcesInv, OneToken, OneTokenOf
    <3>3. QED
      BY <1>d, <3>2 DEF ResourcesInv, UsersOwned
  <2>3. g \in ResourceFrame
    BY <1>c, MovedIsFrame
  <2>4. h \in ResourceFrame /\ h.fn = "release"
    BY <1>d, <2>2, MessageIsFrame
  <2> HIDE DEF g, h
  <2>5. Asked2 = << >> /\ Handed2 = << >>
    BY <1>4, <2>1, <2>3, <2>4 DEF Asks, Hands
  <2>6. Asked = << >> /\ Handed = << >>
    BY <1>h, <2>1 DEF Asks, Hands
  <2>7. QED
    BY <1>5, <2>1, <2>5, <2>6
<1>6. ASSUME Goto(t, [f EXCEPT !.at = Succ[f.at]]),
             UNCHANGED << used, requestQueue >>
      PROVE  Goal
  <2> DEFINE g == [f EXCEPT !.at = Succ[f.at]]
  <2>1. /\ g \in ResourceFrame /\ g.fn = f.fn /\ g.pc = f.pc
        /\ g.to = f.to /\ g.from = f.from /\ g.r = f.r
    BY <1>c, SentOnIsFrame
  <2>2. Goto(t, g)
    BY <1>6
  <2> HIDE DEF g
  <2>3. /\ Asked2 = IF Asks(g) THEN << g.from, g.r >> ELSE << >>
        /\ Handed2 = IF Hands(g) THEN << g.to, g.r >> ELSE << >>
    BY <1>3, <2>1, <2>2
  <2>4. (Asks(g) <=> Asks(f)) /\ (Hands(g) <=> Hands(f))
    BY <2>1 DEF Asks, Hands
  <2>5. Asked2 = Asked /\ Handed2 = Handed
    BY <1>h, <2>1, <2>3, <2>4
  <2>6. QED
    BY <1>5, <1>6, <2>5
<1>20. CASE ReceiveRelease(t)
  <2>1. f.fn = "release" /\ f.pc = "hop" /\ UNCHANGED used
    BY <1>20 DEF ReceiveRelease, Received, At, f, userVars
  <2>2. Asked = << >> /\ Handed = << >>
    BY <1>h, <2>1 DEF Asks, Hands
  <2>3. CASE currentUser[f.r] # f.from
    <3>1. /\ Goto(t, [f EXCEPT !.at = Succ[f.at]])
          /\ UNCHANGED requestQueue
      BY <1>20, <2>3 DEF ReceiveRelease, f, ownerVars
    <3>2. QED
      BY <1>6, <2>1, <3>1
  <2>4. CASE currentUser[f.r] = f.from
    <3> DEFINE q == requestQueue[f.r]
               next == q[Len(q)]
    <3>1. PassOn(t, f)
      BY <1>20, <2>4 DEF ReceiveRelease, f
    <3>2. CASE q = << >>
      <4>1. Return(t) /\ UNCHANGED requestQueue
        BY <3>1, <3>2 DEF PassOn
      <4>2. Asked2 = << >> /\ Handed2 = << >>
        BY <1>1, <2>1, <4>1
      <4>3. QED
        BY <1>5, <2>1, <2>2, <4>1, <4>2
    <3>3. CASE q # << >>
      <4> DEFINE g == [f EXCEPT !.pc = "done"]
                 h == ResourceMessage("granted", f.at, next, f.r)
      <4>1. /\ Call(t, g, h)
            /\ requestQueue' =
                 [requestQueue EXCEPT ![f.r] = SubSeq(q, 1, Len(q) - 1)]
        BY <3>1, <3>3 DEF PassOn
      <4>2. next \in Node
        <5>1. q \in Seq(Node)
          BY <1>d, <1>j
        <5>2. QED
          BY <3>3, <5>1
      <4>3. g \in ResourceFrame
        BY <1>c, MovedIsFrame
      <4>4. /\ h \in ResourceFrame /\ h.fn = "granted" /\ h.pc = "hop"
            /\ h.to = next /\ h.r = f.r
        BY <1>d, <4>2, MessageIsFrame
      <4> HIDE DEF g, h
      <4>5. Asked2 = << >> /\ Handed2 = << next, f.r >>
        BY <1>4, <4>1, <4>3, <4>4 DEF Asks, Hands
      <4>6. Token(t, f.from, f.r)
        BY <1>b, <2>1 DEF Token, Carries, f
      <4>7. UNCHANGED Lock!lockVars
        BY <1>d, <1>f, <2>1, <2>2, <3>3, <4>1, <4>2, <4>5, <4>6, LockHandsOver
           DEF Asked, Asked2, Handed, Handed2, s
      <4>8. QED
        BY <4>7
    <3>4. QED
      BY <3>2, <3>3
  <2>5. QED
    BY <2>3, <2>4
<1>21. CASE EndRelease(t)
  <2>1. /\ f.fn \in {"release", "releaseResource"} /\ f.pc = "done"
        /\ Return(t) /\ UNCHANGED << used, requestQueue >>
    BY <1>21 DEF EndRelease, At, f, ownerVars, userVars
  <2>2. Asked2 = << >> /\ Handed2 = << >>
    BY <1>1, <2>1
  <2>3. Asked = << >> /\ Handed = << >>
    BY <1>h, <2>1 DEF Asks, Hands
  <2>4. QED
    BY <1>5, <2>1, <2>2, <2>3
<1>22. CASE ForwardResource(t)
  <2>1. /\ Goto(t, [f EXCEPT !.at = Succ[f.at]])
        /\ UNCHANGED << used, requestQueue >>
    BY <1>22 DEF ForwardResource, Forward, f, ownerVars, userVars
  <2>2. QED
    BY <1>6, <2>1
<1>23. QED
  BY <1>10, <1>11, <1>12, <1>13, <1>14, <1>15, <1>16, <1>17, <1>18, <1>19,
     <1>20, <1>21, <1>22 DEF ResourceStep

\* A request that begins has not asked the owner yet.
LEMMA StartImplements ==
  ASSUME ResourcesInv, NEW t \in Task, NEW n \in Node, NEW r \in Resource,
         StartAcquire(t, n, r) \/ StartRelease(t, n, r)
  PROVE  UNCHANGED Lock!lockVars
<1>1. PICK f \in ResourceFrame : Begin(t, f) /\ f.pc \in {"find", "check"}
  <2>1. CASE StartAcquire(t, n, r)
    <3> DEFINE f == RequestFrame("acquireResource", "find", n, r)
    <3>1. f \in ResourceFrame /\ f.pc = "find"
      BY DEF RequestFrame, ResourceFrame
    <3>2. QED
      BY <2>1, <3>1 DEF StartAcquire
  <2>2. CASE StartRelease(t, n, r)
    <3> DEFINE f == RequestFrame("releaseResource", "check", n, r)
    <3>1. f \in ResourceFrame /\ f.pc = "check"
      BY DEF RequestFrame, ResourceFrame
    <3>2. QED
      BY <2>2, <3>1 DEF StartRelease
  <2>3. QED
    BY <2>1, <2>2
<1>2. calls[t] = << >> /\ UNCHANGED << used, requestQueue >>
  BY DEF StartAcquire, StartRelease, FreeToStart, Idle, ownerVars, userVars
<1>3. calls'[t] = << f >> /\ \A u \in Task \ {t} : calls'[u] = calls[u]
  BY <1>1, BeginEffect DEF ResourcesInv, ResourcesTypeOK
<1>4. AskedBy(calls[t]) = << >> /\ HandedBy(calls[t]) = << >>
  BY <1>2 DEF AskedBy, HandedBy
<1>5. AskedBy(calls'[t]) = << >> /\ HandedBy(calls'[t]) = << >>
  BY <1>1, <1>3 DEF AskedBy, HandedBy, Asks, Hands
<1>6. QED
  BY <1>2, <1>3, <1>4, <1>5, LockStutters

\* Resources implements ResourceLock: a node becomes the user of a resource
\* that nobody uses, and once for each request it made, whatever replies,
\* releases and granted messages are on the ring.
THEOREM LockIsRefined == ResourcesSpec => LockRefined
<1>1. ResourcesInit => Lock!LockInit
  <2> SUFFICES ASSUME ResourcesInit PROVE Lock!LockInit
    OBVIOUS
  <2>1. \A t \in Task : calls[t] = << >>
    BY DEF ResourcesInit
  <2>2. \A r \in Resource : UserOf(r) = NoNode
    BY DEF ResourcesInit, UserOf
  <2>3. \A t \in Task : AskingOf(t) = << >>
    BY <2>1 DEF AskingOf, At, Idle
  <2>4. ASSUME NEW r \in Resource, NEW n \in Node
        PROVE  BacklogOf(n, r) = 0
    <3>1. requestQueue[r] = << >>
      BY DEF ResourcesInit
    <3>2. PlacesOf(requestQueue[r], n) = {}
      BY <3>1 DEF PlacesOf
    <3>3. GrantsOf(n, r) = {}
      BY <2>1 DEF GrantsOf, HandedBy
    <3>4. QED
      BY <3>2, <3>3, BacklogIsCounted, FS_EmptySet
  <2>5. QED
    BY <2>2, <2>3, <2>4 DEF Lock!LockInit, Lock!NoRequest
<1>2. ResourcesInv /\ [ResourcesNext]_resourceVars
        => [Lock!LockNext]_(Lock!lockVars)
  <2> SUFFICES ASSUME ResourcesInv, [ResourcesNext]_resourceVars
               PROVE  [Lock!LockNext]_(Lock!lockVars)
    OBVIOUS
  <2>1. CASE UNCHANGED resourceVars
    BY <2>1 DEF resourceVars, ownerVars, userVars, Lock!lockVars, UserOf,
                AskingOf, BacklogOf, At, Top, Idle
  <2>2. ASSUME NEW t \in Task, ResourceStep(t)
        PROVE  [Lock!LockNext]_(Lock!lockVars)
    BY <2>2, StepImplements
  <2>3. ASSUME NEW t \in Task, NEW n \in Node, NEW r \in Resource,
               StartAcquire(t, n, r) \/ StartRelease(t, n, r)
        PROVE  [Lock!LockNext]_(Lock!lockVars)
    BY <2>3, StartImplements
  <2>4. QED
    BY <2>1, <2>2, <2>3 DEF ResourcesNext
<1>3. QED
  BY <1>1, <1>2, AlwaysInv, PTL DEF ResourcesSpec, LockRefined, Lock!LockSpec
=============================================================================
