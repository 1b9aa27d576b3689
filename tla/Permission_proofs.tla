-------------------------- MODULE Permission_proofs --------------------------
(***************************************************************************)
(* Theorems about Permission, for every ring and every set of waits: the   *)
(* types for any number of requests at the same time, then what becomes of *)
(* the waiters when requests come one after the other.                     *)
(***************************************************************************)
EXTENDS Permission, Calls_proofs

-----------------------------------------------------------------------------
(* The stacks of requests.                                                 *)

\* A wait runs alone or awaits the reply to its RequestPermission.  Any other
\* request consists of set_active calls and the grants that they send.
StackOK(s) ==
  s # << >> =>
    \/ Len(s) = 1 /\ s[1].fn = "wait"
    \/ /\ Len(s) = 2 /\ s[1].fn = "wait" /\ s[2].fn = "request"
       /\ s[2].peer = s[1].at /\ s[2].to = s[1].peer
    \/ \A i \in 1 .. Len(s) : s[i].fn \in {"setActive", "grant"}

Stacks == \A t \in Task : StackOK(calls[t])

\* What the function that executes tells of the stack.
LEMMA TopOfStack ==
  ASSUME NEW s \in Seq(PermissionFrame), s # << >>, StackOK(s),
         NEW n, n = Len(s)
  PROVE  /\ n \in Nat /\ n >= 1
         /\ s[n] \in PermissionFrame /\ s[1] \in PermissionFrame
         /\ s[n].fn = "wait" => n = 1
         /\ s[n].fn = "request" =>
              /\ n = 2 /\ s[1].fn = "wait"
              /\ s[2].peer = s[1].at /\ s[2].to = s[1].peer
         /\ s[n].fn \in {"setActive", "grant"} =>
              \A i \in 1 .. n : s[i].fn \in {"setActive", "grant"}
<1>1. n \in Nat /\ n >= 1 /\ s[n] \in PermissionFrame /\ s[1] \in PermissionFrame
  OBVIOUS
<1>2. CASE n = 1 /\ s[1].fn = "wait"
  BY <1>1, <1>2
<1>3. CASE /\ n = 2 /\ s[1].fn = "wait" /\ s[2].fn = "request"
           /\ s[2].peer = s[1].at /\ s[2].to = s[1].peer
  BY <1>1, <1>3
<1>4. CASE \A i \in 1 .. n : s[i].fn \in {"setActive", "grant"}
  <2>1. n \in 1 .. n
    BY <1>1
  <2>2. s[n].fn \in {"setActive", "grant"}
    BY <1>4, <2>1
  <2>3. s[n].fn # "wait" /\ s[n].fn # "request"
    BY <2>2
  <2>4. QED
    BY <1>1, <1>4, <2>3
<1>5. QED
  BY <1>2, <1>3, <1>4 DEF StackOK

LEMMA TopOfRequest ==
  ASSUME PermissionTypeOK, Stacks, NEW t \in Task, ~Idle(t)
  PROVE  /\ calls \in [Task -> Seq(PermissionFrame)]
         /\ calls[t] \in Seq(PermissionFrame) /\ calls[t] # << >>
         /\ StackOK(calls[t])
         /\ Len(calls[t]) \in Nat /\ Len(calls[t]) >= 1
         /\ Top(t) = calls[t][Len(calls[t])] /\ Top(t) \in PermissionFrame
         /\ calls[t][1] \in PermissionFrame
         /\ Top(t).fn = "wait" => Len(calls[t]) = 1
         /\ Top(t).fn = "request" =>
              /\ Len(calls[t]) = 2 /\ calls[t][1].fn = "wait"
              /\ Top(t).peer = calls[t][1].at /\ Top(t).to = calls[t][1].peer
         /\ Top(t).fn \in {"setActive", "grant"} =>
              \A i \in 1 .. Len(calls[t]) :
                calls[t][i].fn \in {"setActive", "grant"}
<1>1. /\ calls \in [Task -> Seq(PermissionFrame)]
      /\ calls[t] \in Seq(PermissionFrame) /\ calls[t] # << >>
      /\ StackOK(calls[t])
  BY DEF PermissionTypeOK, Stacks, Idle
<1>2. Top(t) = calls[t][Len(calls[t])]
  BY DEF Top
<1> DEFINE s == calls[t]
           n == Len(s)
<1>3. s \in Seq(PermissionFrame) /\ s # << >> /\ StackOK(s)
  BY <1>1
<1> HIDE DEF s
<1>4. /\ n \in Nat /\ n >= 1
      /\ s[n] \in PermissionFrame /\ s[1] \in PermissionFrame
      /\ s[n].fn = "wait" => n = 1
      /\ s[n].fn = "request" =>
           /\ n = 2 /\ s[1].fn = "wait"
           /\ s[2].peer = s[1].at /\ s[2].to = s[1].peer
      /\ s[n].fn \in {"setActive", "grant"} =>
           \A i \in 1 .. n : s[i].fn \in {"setActive", "grant"}
  BY <1>3, TopOfStack
<1>5. QED
  BY <1>1, <1>2, <1>4 DEF s

\* The next step of the same function.
LEMMA RequestMoves ==
  ASSUME PermissionTypeOK, Stacks, NEW t \in Task, ~Idle(t),
         NEW f \in PermissionFrame, Goto(t, f),
         f.fn = Top(t).fn, f.peer = Top(t).peer, f.to = Top(t).to
  PROVE  /\ calls' \in [Task -> Seq(PermissionFrame)]
         /\ Len(calls'[t]) = Len(calls[t])
         /\ \A i \in 1 .. Len(calls[t]) - 1 : calls'[t][i] = calls[t][i]
         /\ calls'[t][Len(calls[t])] = f
         /\ \A u \in Task \ {t} : calls'[u] = calls[u]
         /\ StackOK(calls'[t]) /\ ~Idle(t)' /\ Top(t)' = f
<1> DEFINE s == calls[t]
           r == calls'[t]
           n == Len(s)
<1>1. /\ calls' \in [Task -> Seq(PermissionFrame)]
      /\ Len(r) = n
      /\ \A i \in 1 .. n - 1 : r[i] = s[i]
      /\ r[n] = f
      /\ \A u \in Task \ {t} : calls'[u] = calls[u]
  BY GotoEffect DEF PermissionTypeOK
<1>2. /\ n \in Nat /\ n >= 1 /\ Top(t) = s[n] /\ StackOK(s) /\ s # << >>
  BY TopOfRequest DEF Stacks
<1>3. r # << >> /\ ~Idle(t)' /\ Top(t)' = f
  <2>1. r # << >>
    BY <1>1, <1>2
  <2>2. QED
    BY <1>1, <2>1 DEF Idle, Top
<1>4. f.fn = s[n].fn /\ f.peer = s[n].peer /\ f.to = s[n].to
  BY <1>2
<1> HIDE DEF s, r
<1>5. StackOK(r)
  <2>1. CASE n = 1 /\ s[1].fn = "wait"
    BY <1>1, <1>4, <2>1 DEF StackOK
  <2>2. CASE /\ n = 2 /\ s[1].fn = "wait" /\ s[2].fn = "request"
             /\ s[2].peer = s[1].at /\ s[2].to = s[1].peer
    <3>1. 1 \in 1 .. n - 1
      BY <2>2
    <3>2. r[1] = s[1] /\ r[2] = f /\ Len(r) = 2
      BY <1>1, <2>2, <3>1
    <3>3. QED
      BY <1>4, <2>2, <3>2 DEF StackOK
  <2>3. CASE \A i \in 1 .. n : s[i].fn \in {"setActive", "grant"}
    <3>1. \A i \in 1 .. n : r[i].fn \in {"setActive", "grant"}
      <4> TAKE i \in 1 .. n
      <4>1. CASE i = n
        BY <1>1, <1>4, <2>3, <4>1
      <4>2. CASE i # n
        <5>1. i \in 1 .. n - 1
          BY <1>2, <4>2
        <5>2. QED
          BY <1>1, <2>3, <5>1
      <4>3. QED
        BY <4>1, <4>2
    <3>2. QED
      BY <1>1, <3>1 DEF StackOK
  <2>4. QED
    BY <1>2, <2>1, <2>2, <2>3 DEF StackOK
<1>6. QED
  BY <1>1, <1>3, <1>5 DEF s, r

\* A wait calls the node that it waits for.
LEMMA RequestIsSent ==
  ASSUME PermissionTypeOK, Stacks, NEW t \in Task, ~Idle(t),
         NEW f \in PermissionFrame, NEW g \in PermissionFrame, Call(t, f, g),
         Top(t).fn = "wait", f.fn = "wait", g.fn = "request",
         g.peer = f.at, g.to = f.peer
  PROVE  /\ calls' \in [Task -> Seq(PermissionFrame)]
         /\ Len(calls'[t]) = 2 /\ calls'[t][1] = f /\ calls'[t][2] = g
         /\ \A u \in Task \ {t} : calls'[u] = calls[u]
         /\ StackOK(calls'[t]) /\ ~Idle(t)' /\ Top(t)' = g
<1> DEFINE r == calls'[t]
<1>1. Len(calls[t]) = 1
  BY TopOfRequest
<1>2. /\ calls' \in [Task -> Seq(PermissionFrame)]
      /\ Len(r) = 2 /\ r[1] = f /\ r[2] = g
      /\ \A u \in Task \ {t} : calls'[u] = calls[u]
  <2>1. /\ calls' \in [Task -> Seq(PermissionFrame)]
        /\ Len(r) = Len(calls[t]) + 1
        /\ r[Len(calls[t])] = f /\ r[Len(calls[t]) + 1] = g
        /\ \A u \in Task \ {t} : calls'[u] = calls[u]
    BY CallEffect DEF PermissionTypeOK
  <2>2. QED
    BY <1>1, <2>1
<1> HIDE DEF r
<1>3. r # << >>
  <2>1. Len(r) # 0 /\ Len(<< >>) = 0
    BY <1>2
  <2>2. QED
    BY <2>1, Zenon
<1>4. QED
  BY <1>2, <1>3 DEF StackOK, Idle, Top, r

\* set_active sends a grant, or the handler of a grant calls set_active.
LEMMA GrantIsSent ==
  ASSUME PermissionTypeOK, Stacks, NEW t \in Task, ~Idle(t),
         NEW f \in PermissionFrame, NEW g \in PermissionFrame, Call(t, f, g),
         Top(t).fn \in {"setActive", "grant"}, f.fn \in {"setActive", "grant"},
         g.fn \in {"setActive", "grant"}
  PROVE  /\ calls' \in [Task -> Seq(PermissionFrame)]
         /\ Len(calls'[t]) = Len(calls[t]) + 1
         /\ \A i \in 1 .. Len(calls[t]) - 1 : calls'[t][i] = calls[t][i]
         /\ calls'[t][Len(calls[t])] = f
         /\ calls'[t][Len(calls[t]) + 1] = g
         /\ \A u \in Task \ {t} : calls'[u] = calls[u]
         /\ StackOK(calls'[t]) /\ ~Idle(t)' /\ Top(t)' = g
<1> DEFINE s == calls[t]
           r == calls'[t]
           n == Len(s)
<1>1. /\ calls' \in [Task -> Seq(PermissionFrame)]
      /\ Len(r) = n + 1
      /\ \A i \in 1 .. n - 1 : r[i] = s[i]
      /\ r[n] = f /\ r[n + 1] = g
      /\ \A u \in Task \ {t} : calls'[u] = calls[u]
  BY CallEffect DEF PermissionTypeOK
<1>2. /\ n \in Nat /\ n >= 1
      /\ \A i \in 1 .. n : s[i].fn \in {"setActive", "grant"}
  BY TopOfRequest
<1>3. r # << >>
  BY <1>1, <1>2
<1>4. Top(t)' = g
  BY <1>1 DEF Top
<1> HIDE DEF s, n, r
<1>5. \A i \in 1 .. n + 1 : r[i].fn \in {"setActive", "grant"}
  <2> TAKE i \in 1 .. n + 1
  <2>1. CASE i = n + 1
    BY <1>1, <2>1
  <2>2. CASE i = n
    BY <1>1, <2>2
  <2>3. CASE i < n
    <3>1. i \in 1 .. n - 1 /\ i \in 1 .. n
      BY <1>2, <2>3
    <3>2. QED
      BY <1>1, <1>2, <3>1
  <2>4. QED
    BY <1>2, <2>1, <2>2, <2>3
<1>6. QED
  BY <1>1, <1>3, <1>4, <1>5 DEF StackOK, Idle, s, n, r

\* The reply to a RequestPermission.
LEMMA RequestIsAnswered ==
  ASSUME PermissionTypeOK, Stacks, NEW t \in Task, ~Idle(t),
         Top(t).fn = "request", NEW pc \in {"granted", "denied"},
         ReplyToRequest(t, pc)
  PROVE  /\ calls' \in [Task -> Seq(PermissionFrame)]
         /\ Len(calls'[t]) = 1 /\ calls'[t][1] = [calls[t][1] EXCEPT !.pc = pc]
         /\ calls'[t][1].at = Top(t).peer /\ calls'[t][1].peer = Top(t).to
         /\ \A u \in Task \ {t} : calls'[u] = calls[u]
         /\ StackOK(calls'[t]) /\ ~Idle(t)' /\ Top(t)' = calls'[t][1]
<1> DEFINE s == calls[t]
           r == calls'[t]
           f == [s[1] EXCEPT !.pc = pc]
<1>1. /\ Len(s) = 2 /\ s[1].fn = "wait" /\ s[1] \in PermissionFrame
      /\ Top(t).peer = s[1].at /\ Top(t).to = s[1].peer
      /\ calls \in [Task -> Seq(PermissionFrame)]
  BY TopOfRequest
<1>2. f \in PermissionFrame /\ f.fn = "wait" /\ f.at = s[1].at
      /\ f.peer = s[1].peer
  BY <1>1 DEF PermissionFrame
<1>3. ReturnTo(t, f) /\ Len(s) > 1
  BY <1>1 DEF ReplyToRequest, Caller
<1> HIDE DEF f
<1>4. /\ calls' \in [Task -> Seq(PermissionFrame)]
      /\ Len(r) = Len(s) - 1 /\ r[Len(s) - 1] = f
      /\ \A u \in Task \ {t} : calls'[u] = calls[u]
  <2>1. calls \in [Task -> Seq(PermissionFrame)] /\ Len(calls[t]) > 1
    BY <1>1, <1>3
  <2>2. f \in PermissionFrame /\ ReturnTo(t, f)
    BY <1>2, <1>3
  <2>3. QED
    BY <2>1, <2>2, ReturnToEffect, Zenon
<1>5. Len(r) = 1 /\ r[1] = f
  BY <1>1, <1>4
<1>6. r # << >>
  BY <1>5
<1>7. QED
  BY <1>1, <1>2, <1>4, <1>5, <1>6 DEF StackOK, Idle, Top, f

\* Every other function returns to a caller that ignores its value.
LEMMA RequestReturns ==
  ASSUME PermissionTypeOK, Stacks, NEW t \in Task, ~Idle(t),
         Top(t).fn # "request", Return(t)
  PROVE  /\ calls' \in [Task -> Seq(PermissionFrame)]
         /\ Len(calls'[t]) = Len(calls[t]) - 1
         /\ \A i \in 1 .. Len(calls[t]) - 1 : calls'[t][i] = calls[t][i]
         /\ \A u \in Task \ {t} : calls'[u] = calls[u]
         /\ StackOK(calls'[t])
<1> DEFINE s == calls[t]
           r == calls'[t]
           n == Len(s)
<1>1. /\ calls' \in [Task -> Seq(PermissionFrame)]
      /\ Len(r) = n - 1
      /\ \A i \in 1 .. n - 1 : r[i] = s[i]
      /\ \A u \in Task \ {t} : calls'[u] = calls[u]
  BY ReturnEffect DEF PermissionTypeOK
<1>2. /\ n \in Nat /\ n >= 1 /\ Top(t) = s[n] /\ StackOK(s) /\ s # << >>
  BY TopOfRequest DEF Stacks
<1>3. s[n].fn # "request"
  BY <1>2
<1>4. r \in Seq(PermissionFrame)
  BY <1>1
<1> HIDE DEF s, r
<1>5. CASE n = 1 /\ s[1].fn = "wait"
  <2>1. Len(r) = 0
    BY <1>1, <1>5
  <2>2. r = << >>
    BY <1>4, <2>1
  <2>3. QED
    BY <1>1, <2>2 DEF StackOK, s, r
<1>6. CASE \A i \in 1 .. n : s[i].fn \in {"setActive", "grant"}
  <2>1. \A i \in 1 .. Len(r) : r[i].fn \in {"setActive", "grant"}
    <3>1. \A i \in 1 .. Len(r) : i \in 1 .. n - 1 /\ i \in 1 .. n
      BY <1>1, <1>2
    <3>2. QED
      BY <1>1, <1>6, <3>1
  <2>2. QED
    BY <1>1, <2>1 DEF StackOK, s, r
<1>7. QED
  BY <1>2, <1>3, <1>5, <1>6 DEF StackOK

\* A step of one request leaves the stacks of the others alone.
LEMMA StacksStep ==
  ASSUME Stacks, NEW t \in Task, StackOK(calls'[t]),
         \A u \in Task \ {t} : calls'[u] = calls[u]
  PROVE  Stacks'
<1> SUFFICES ASSUME NEW u \in Task
             PROVE  StackOK(calls'[u])
  BY DEF Stacks
<1>1. QED
  BY DEF Stacks

-----------------------------------------------------------------------------
(* Types.                                                                  *)

\* Every step keeps the types and the form of the stacks.
LEMMA PermissionTypeStep ==
  ASSUME PermissionTypeOK, Stacks, [PermissionNext]_permissionVars
  PROVE  PermissionTypeOK' /\ Stacks'
<1> DEFINE NodesOK == /\ isActive' \in [Node -> BOOLEAN]
                      /\ waitingFrom' \in [Node -> SUBSET Node]
                      /\ permissionQueue' \in [Node -> SUBSET Node]
           CallsOK(t) == /\ calls' \in [Task -> Seq(PermissionFrame)]
                         /\ \A u \in Task \ {t} : calls'[u] = calls[u]
                         /\ StackOK(calls'[t])
           Goal == PermissionTypeOK' /\ Stacks'
<1>1. ASSUME NEW t \in Task, CallsOK(t), NodesOK PROVE Goal
  BY <1>1, StacksStep DEF PermissionTypeOK
<1>2. ASSUME NEW t \in Task, ~Idle(t)
      PROVE  Top(t) \in PermissionFrame
  BY <1>2, TopOfRequest
<1>3. ASSUME NEW t \in Task, NEW f \in PermissionFrame, Idle(t), Begin(t, f),
             f.fn \in {"wait", "setActive"}
      PROVE  CallsOK(t)
  <2>1. /\ calls' \in [Task -> Seq(PermissionFrame)]
        /\ calls'[t] = << f >>
        /\ \A u \in Task \ {t} : calls'[u] = calls[u]
    BY <1>3, BeginEffect DEF PermissionTypeOK
  <2>2. StackOK(<< f >>)
    BY <1>3 DEF StackOK
  <2>3. QED
    BY <2>1, <2>2
<1>4. ASSUME NEW t \in Task, NEW n \in Node, NEW o \in Node, StartWait(t, n, o)
      PROVE  Goal
  <2>1. WaitFrame(n, o) \in PermissionFrame /\ WaitFrame(n, o).fn = "wait"
    BY DEF WaitFrame, PermissionFrame
  <2>2. CallsOK(t)
    BY <1>3, <1>4, <2>1 DEF StartWait
  <2>3. QED
    BY <1>1, <1>4, <2>2 DEF StartWait, PermissionTypeOK
<1>5. ASSUME NEW t \in Task, NEW n \in Node, StartSetActive(t, n) PROVE Goal
  <2>1. SetActiveFrame(n) \in PermissionFrame
        /\ SetActiveFrame(n).fn = "setActive"
    BY DEF SetActiveFrame, PermissionFrame
  <2>2. CallsOK(t)
    BY <1>3, <1>5, <2>1 DEF StartSetActive
  <2>3. QED
    BY <1>1, <1>5, <2>2 DEF StartSetActive, PermissionTypeOK
<1>6. ASSUME NEW n \in Node, SetPassive(n) PROVE Goal
  BY <1>6 DEF SetPassive, PermissionTypeOK, Stacks
<1>7. ASSUME NEW t \in Task, PermissionStep(t) PROVE Goal
  <2>1. CASE BecomePassive(t)
    <3> DEFINE f == [Top(t) EXCEPT !.pc = "send"]
    <3>1. /\ ~Idle(t) /\ f \in PermissionFrame /\ Goto(t, f)
          /\ f.fn = Top(t).fn /\ f.peer = Top(t).peer /\ f.to = Top(t).to
      BY <1>2, <2>1 DEF BecomePassive, At, PermissionFrame
    <3> HIDE DEF f
    <3>2. CallsOK(t)
      BY <3>1, RequestMoves
    <3>3. Top(t).at \in Node
      BY <1>2, <3>1 DEF PermissionFrame
    <3>4. NodesOK
      BY <2>1, <3>3 DEF BecomePassive, PermissionTypeOK
    <3>5. QED
      BY <1>1, <3>2, <3>4
  <2>2. CASE RequestPermission(t)
    <3> DEFINE f == [Top(t) EXCEPT !.pc = "reply"]
               g == PermissionMessage("request", Top(t).at, Top(t).peer)
    <3>1. /\ ~Idle(t) /\ Top(t).fn = "wait" /\ f \in PermissionFrame
          /\ f.fn = "wait" /\ f.at = Top(t).at /\ f.peer = Top(t).peer
          /\ Top(t).at \in Node /\ Top(t).peer \in Node
      BY <1>2, <2>2 DEF RequestPermission, At, PermissionFrame
    <3>2. /\ g \in PermissionFrame /\ g.fn = "request"
          /\ g.peer = f.at /\ g.to = f.peer
      BY <3>1, RingAssumption DEF PermissionMessage, PermissionFrame
    <3>3. Call(t, f, g)
      BY <2>2 DEF RequestPermission
    <3> HIDE DEF f, g
    <3>4. CallsOK(t)
      BY <3>1, <3>2, <3>3, RequestIsSent
    <3>5. NodesOK
      BY <2>2, <3>1 DEF RequestPermission, PermissionTypeOK
    <3>6. QED
      BY <1>1, <3>4, <3>5
  <2>3. CASE PermissionGranted(t)
    <3> DEFINE f == [Top(t) EXCEPT !.pc = "resume"]
    <3>1. /\ ~Idle(t) /\ f \in PermissionFrame /\ Goto(t, f)
          /\ f.fn = Top(t).fn /\ f.peer = Top(t).peer /\ f.to = Top(t).to
      BY <1>2, <2>3 DEF PermissionGranted, At, PermissionFrame
    <3> HIDE DEF f
    <3>2. CallsOK(t)
      BY <3>1, RequestMoves
    <3>3. Top(t).at \in Node
      BY <1>2, <3>1 DEF PermissionFrame
    <3>4. NodesOK
      BY <2>3, <3>3 DEF PermissionGranted, PermissionTypeOK
    <3>5. QED
      BY <1>1, <3>2, <3>4
  <2>4. CASE Resume(t) \/ PermissionDenied(t)
    <3>1. ~Idle(t) /\ Top(t).fn # "request" /\ Return(t)
      BY <2>4 DEF Resume, PermissionDenied, At
    <3>2. CallsOK(t)
      BY <3>1, RequestReturns
    <3>3. Top(t).at \in Node
      BY <1>2, <3>1 DEF PermissionFrame
    <3>4. NodesOK
      BY <2>4, <3>3 DEF Resume, PermissionDenied, PermissionTypeOK
    <3>5. QED
      BY <1>1, <3>2, <3>4
  <2>5. CASE ReceiveRequest(t)
    <3>1. ~Idle(t) /\ Top(t).fn = "request" /\ Top(t) \in PermissionFrame
      BY <1>2, <2>5 DEF ReceiveRequest, Received, At
    <3>2. ASSUME ReplyToRequest(t, "granted")
         PROVE  CallsOK(t)
      BY <3>1, <3>2, RequestIsAnswered
    <3>3. ASSUME Goto(t, [Top(t) EXCEPT !.pc = "queue"])
         PROVE  CallsOK(t)
      <4> DEFINE f == [Top(t) EXCEPT !.pc = "queue"]
      <4>1. /\ f \in PermissionFrame /\ Goto(t, f)
            /\ f.fn = Top(t).fn /\ f.peer = Top(t).peer /\ f.to = Top(t).to
        BY <3>1, <3>3 DEF PermissionFrame
      <4> HIDE DEF f
      <4>2. QED
        BY <3>1, <4>1, RequestMoves
    <3>4. CallsOK(t)
      BY <2>5, <3>2, <3>3 DEF ReceiveRequest
    <3>5. NodesOK
      BY <2>5 DEF ReceiveRequest, PermissionTypeOK
    <3>6. QED
      BY <1>1, <3>4, <3>5
  <2>6. CASE QueueRequest(t)
    <3>1. ~Idle(t) /\ Top(t).fn = "request" /\ ReplyToRequest(t, "denied")
      BY <2>6 DEF QueueRequest, At
    <3>2. CallsOK(t)
      BY <3>1, RequestIsAnswered
    <3>3. Top(t).at \in Node /\ Top(t).peer \in Node
      BY <1>2, <3>1 DEF PermissionFrame
    <3>4. NodesOK
      BY <2>6, <3>3 DEF QueueRequest, PermissionTypeOK
    <3>5. QED
      BY <1>1, <3>2, <3>4
  <2>7. CASE BecomeActive(t)
    <3> DEFINE f == [Top(t) EXCEPT !.pc = "clear"]
    <3>1. /\ ~Idle(t) /\ f \in PermissionFrame /\ Goto(t, f)
          /\ f.fn = Top(t).fn /\ f.peer = Top(t).peer /\ f.to = Top(t).to
      BY <1>2, <2>7 DEF BecomeActive, At, PermissionFrame
    <3> HIDE DEF f
    <3>2. CallsOK(t)
      BY <3>1, RequestMoves
    <3>3. NodesOK
      BY <2>7 DEF BecomeActive, PermissionTypeOK
    <3>4. QED
      BY <1>1, <3>2, <3>3
  <2>8. CASE ClearWaits(t)
    <3> DEFINE f == [Top(t) EXCEPT !.pc = "list"]
    <3>1. /\ ~Idle(t) /\ f \in PermissionFrame /\ Goto(t, f)
          /\ f.fn = Top(t).fn /\ f.peer = Top(t).peer /\ f.to = Top(t).to
      BY <1>2, <2>8 DEF ClearWaits, At, PermissionFrame
    <3> HIDE DEF f
    <3>2. CallsOK(t)
      BY <3>1, RequestMoves
    <3>3. NodesOK
      BY <2>8 DEF ClearWaits, PermissionTypeOK
    <3>4. QED
      BY <1>1, <3>2, <3>3
  <2>9. CASE ListWaiters(t)
    <3> DEFINE f == [Top(t) EXCEPT !.pc = "loop",
                                   !.todo = permissionQueue[Top(t).at]]
    <3>1. ~Idle(t) /\ Top(t) \in PermissionFrame /\ Goto(t, f)
      BY <1>2, <2>9 DEF ListWaiters, At
    <3>2. permissionQueue[Top(t).at] \in SUBSET Node
      BY <3>1 DEF PermissionTypeOK, PermissionFrame
    <3>3. /\ f \in PermissionFrame
          /\ f.fn = Top(t).fn /\ f.peer = Top(t).peer /\ f.to = Top(t).to
      BY <3>1, <3>2 DEF PermissionFrame
    <3> HIDE DEF f
    <3>4. CallsOK(t)
      BY <3>1, <3>3, RequestMoves
    <3>5. NodesOK
      BY <2>9 DEF ListWaiters, PermissionTypeOK
    <3>6. QED
      BY <1>1, <3>4, <3>5
  <2>10. CASE \E n \in Node : SendGrant(t, n)
    <3>1. PICK n \in Node : SendGrant(t, n)
      BY <2>10
    <3> DEFINE f == [Top(t) EXCEPT !.todo = @ \ {n}]
               g == PermissionMessage("grant", Top(t).at, n)
    <3>2. /\ ~Idle(t) /\ Top(t).fn = "setActive" /\ f \in PermissionFrame
          /\ f.fn = "setActive" /\ Top(t).at \in Node
      BY <1>2, <3>1 DEF SendGrant, At, PermissionFrame
    <3>3. g \in PermissionFrame /\ g.fn = "grant"
      BY <3>2, RingAssumption DEF PermissionMessage, PermissionFrame
    <3>4. Call(t, f, g)
      BY <3>1 DEF SendGrant
    <3> HIDE DEF f, g
    <3>5. CallsOK(t)
      BY <3>2, <3>3, <3>4, GrantIsSent
    <3>6. NodesOK
      BY <3>1 DEF SendGrant, PermissionTypeOK
    <3>7. QED
      BY <1>1, <3>5, <3>6
  <2>11. CASE EndSetActive(t)
    <3>1. ~Idle(t) /\ Top(t).fn # "request" /\ Return(t)
      BY <2>11 DEF EndSetActive, At
    <3>2. CallsOK(t)
      BY <3>1, RequestReturns
    <3>3. NodesOK
      BY <2>11 DEF EndSetActive, PermissionTypeOK
    <3>4. QED
      BY <1>1, <3>2, <3>3
  <2>12. CASE ReceiveGrant(t)
    <3> DEFINE f == [Top(t) EXCEPT !.pc = "test"]
    <3>1. /\ ~Idle(t) /\ f \in PermissionFrame /\ Goto(t, f)
          /\ f.fn = Top(t).fn /\ f.peer = Top(t).peer /\ f.to = Top(t).to
      BY <1>2, <2>12 DEF ReceiveGrant, Received, At, PermissionFrame
    <3> HIDE DEF f
    <3>2. CallsOK(t)
      BY <3>1, RequestMoves
    <3>3. NodesOK
      BY <2>12 DEF ReceiveGrant, PermissionTypeOK
    <3>4. QED
      BY <1>1, <3>2, <3>3
  <2>13. CASE TestLastGrant(t)
    <3>1. /\ ~Idle(t) /\ Top(t).fn = "grant" /\ Top(t) \in PermissionFrame
          /\ Top(t).at \in Node
      BY <1>2, <2>13 DEF TestLastGrant, At, PermissionFrame
    <3>2. ASSUME Return(t)
         PROVE  CallsOK(t)
      BY <3>1, <3>2, RequestReturns
    <3>3. ASSUME Call(t, [Top(t) EXCEPT !.pc = "done"], SetActiveFrame(Top(t).at))
         PROVE  CallsOK(t)
      <4> DEFINE f == [Top(t) EXCEPT !.pc = "done"]
                 g == SetActiveFrame(Top(t).at)
      <4>1. f \in PermissionFrame /\ f.fn = "grant"
        BY <3>1 DEF PermissionFrame
      <4>2. g \in PermissionFrame /\ g.fn = "setActive"
        BY <3>1 DEF SetActiveFrame, PermissionFrame
      <4>3. Call(t, f, g)
        BY <3>3
      <4> HIDE DEF f, g
      <4>4. QED
        BY <3>1, <4>1, <4>2, <4>3, GrantIsSent
    <3>4. CallsOK(t)
      BY <2>13, <3>2, <3>3 DEF TestLastGrant
    <3>5. NodesOK
      BY <2>13 DEF TestLastGrant, PermissionTypeOK
    <3>6. QED
      BY <1>1, <3>4, <3>5
  <2>14. CASE EndGrant(t)
    <3>1. ~Idle(t) /\ Top(t).fn # "request" /\ Return(t)
      BY <2>14 DEF EndGrant, At
    <3>2. CallsOK(t)
      BY <3>1, RequestReturns
    <3>3. NodesOK
      BY <2>14 DEF EndGrant, PermissionTypeOK
    <3>4. QED
      BY <1>1, <3>2, <3>3
  <2>15. CASE ForwardPermission(t)
    <3> DEFINE f == [Top(t) EXCEPT !.at = Succ[@]]
    <3>1. ~Idle(t) /\ Top(t) \in PermissionFrame /\ Goto(t, f)
      BY <1>2, <2>15 DEF ForwardPermission, Forward
    <3>2. Succ[Top(t).at] \in Node
      BY <3>1, RingAssumption DEF PermissionFrame
    <3>3. /\ f \in PermissionFrame
          /\ f.fn = Top(t).fn /\ f.peer = Top(t).peer /\ f.to = Top(t).to
      BY <3>1, <3>2 DEF PermissionFrame
    <3> HIDE DEF f
    <3>4. CallsOK(t)
      BY <3>1, <3>3, RequestMoves
    <3>5. NodesOK
      BY <2>15 DEF ForwardPermission, PermissionTypeOK
    <3>6. QED
      BY <1>1, <3>4, <3>5
  <2>16. QED
    BY <1>7, <2>1, <2>2, <2>3, <2>4, <2>5, <2>6, <2>7, <2>8, <2>9, <2>10,
       <2>11, <2>12, <2>13, <2>14, <2>15 DEF PermissionStep
<1>8. CASE UNCHANGED permissionVars
  BY <1>8 DEF permissionVars, PermissionTypeOK, Stacks
<1>9. ASSUME NEW t \in Task, NEW w \in Waits, StartWait(t, w[1], w[2])
      PROVE  Goal
  <2>1. w[1] \in Node /\ w[2] \in Node
    BY PermissionAssumption
  <2>2. QED
    BY <1>4, <1>9, <2>1
<1>10. QED
  BY <1>5, <1>6, <1>7, <1>8, <1>9 DEF PermissionNext

\* The types hold at every step of any number of requests: the frames of the
\* requests, the nodes that wait and the queues (Permission, every operation
\* of cmh_funcs.rs about waits).
THEOREM PermissionTypes == PermissionSpec => []PermissionTypeOK
<1>1. PermissionInit => PermissionTypeOK /\ Stacks
  BY DEF PermissionInit, PermissionTypeOK, Stacks, StackOK
<1>2. PermissionTypeOK /\ Stacks /\ [PermissionNext]_permissionVars
        => PermissionTypeOK' /\ Stacks'
  BY PermissionTypeStep
<1>3. QED
  BY <1>1, <1>2, PTL DEF PermissionSpec

-----------------------------------------------------------------------------
(* One request at a time.  Nothing is said of requests that overlap: they  *)
(* lose waiters.                                                           *)

OneRequest == \A t, u \in Task : t = u

\* The frame f is about to decide whether node n still waits for node o: a
\* request of n on its way to o, its positive reply, or a grant of o on its
\* way to n.
Decides(f, n, o) ==
  \/ f.fn = "request" /\ f.peer = n /\ f.to = o
  \/ f.fn = "wait" /\ f.pc = "granted" /\ f.at = n /\ f.peer = o
  \/ f.fn = "grant" /\ f.pc = "hop" /\ f.to = n /\ f.peer = o

Pending(s, n, o) == s # << >> /\ Decides(s[Len(s)], n, o)

\* Every waiting node is in the queue of the node that it waits for, except
\* while that is being decided.
Registered ==
  \A n \in Node : \A o \in waitingFrom[n] :
    n \in permissionQueue[o] \/ \E t \in Task : Pending(calls[t], n, o)

\* A set_active that sends its grants has all the nodes that wait for its
\* node in its copy of the queue, except the one whose grant is on its way.
Loops(f) == f.fn = "setActive" /\ f.pc = "loop"

CopiesAll(s, waits) ==
  \A i \in 1 .. Len(s) :
    Loops(s[i]) =>
      \A n \in Node :
        s[i].at \in waits[n] => n \in s[i].todo \/ Pending(s, n, s[i].at)

Copied == \A t \in Task : CopiesAll(calls[t], waitingFrom)

\* A request is queued at its addressee.
AtAddressee(f) == f.fn = "request" /\ f.pc = "queue" => f.at = f.to

Arrived == \A t \in Task : \A i \in 1 .. Len(calls[t]) : AtAddressee(calls[t][i])

\* The inductive invariant.
WaitersKnown == Registered /\ Copied /\ Arrived

\* With one request at a time the stack of that request decides.
LEMMA OneStack ==
  ASSUME OneRequest, NEW t \in Task, CopiesAll(calls'[t], waitingFrom'),
         \A i \in 1 .. Len(calls'[t]) : AtAddressee(calls'[t][i]),
         \A n \in Node : \A o \in waitingFrom'[n] :
           n \in permissionQueue'[o] \/ Pending(calls'[t], n, o)
  PROVE  WaitersKnown'
<1>1. \A u \in Task : u = t
  BY DEF OneRequest
<1>2. Registered'
  BY DEF Registered
<1>3. Copied'
  BY <1>1 DEF Copied
<1>4. Arrived'
  BY <1>1 DEF Arrived
<1>5. QED
  BY <1>2, <1>3, <1>4 DEF WaitersKnown

LEMMA OneStackBefore ==
  ASSUME OneRequest, NEW t \in Task, WaitersKnown
  PROVE  /\ CopiesAll(calls[t], waitingFrom)
         /\ \A i \in 1 .. Len(calls[t]) : AtAddressee(calls[t][i])
         /\ \A n \in Node : \A o \in waitingFrom[n] :
              n \in permissionQueue[o] \/ Pending(calls[t], n, o)
<1>1. \A u \in Task : u = t
  BY DEF OneRequest
<1>2. QED
  BY <1>1 DEF WaitersKnown, Registered, Copied, Arrived

\* Copies stay complete while no node begins to wait, whatever is pending
\* stays pending, and no set_active begins to send its grants.
LEMMA CopiesStay ==
  ASSUME NEW s, NEW r, NEW waits, NEW waits2, CopiesAll(s, waits),
         \A n \in Node : \A o \in waits2[n] :
           o \in waits[n] /\ (Pending(s, n, o) => Pending(r, n, o)),
         \A i \in 1 .. Len(r) :
           Loops(r[i]) => i \in 1 .. Len(s) /\ r[i] = s[i]
  PROVE  CopiesAll(r, waits2)
<1> SUFFICES ASSUME NEW i \in 1 .. Len(r), Loops(r[i]),
                    NEW n \in Node, r[i].at \in waits2[n]
             PROVE  n \in r[i].todo \/ Pending(r, n, r[i].at)
  BY DEF CopiesAll
<1>1. i \in 1 .. Len(s) /\ r[i] = s[i]
  OBVIOUS
<1>2. r[i].at \in waits[n]
      /\ (Pending(s, n, r[i].at) => Pending(r, n, r[i].at))
  OBVIOUS
<1>3. n \in s[i].todo \/ Pending(s, n, s[i].at)
  BY <1>1, <1>2 DEF CopiesAll
<1>4. QED
  BY <1>1, <1>2, <1>3

\* The next step of the same function, unless it begins to send grants.
LEMMA MoveKeepsWaiters ==
  ASSUME PermissionTypeOK, Stacks, OneRequest, WaitersKnown,
         NEW t \in Task, ~Idle(t), NEW f \in PermissionFrame, Goto(t, f),
         f.fn = Top(t).fn, f.peer = Top(t).peer, f.to = Top(t).to,
         ~Loops(f), AtAddressee(f),
         permissionQueue' = permissionQueue,
         \A n \in Node : \A o \in waitingFrom'[n] :
           o \in waitingFrom[n] /\ (Decides(Top(t), n, o) => Decides(f, n, o))
  PROVE  WaitersKnown'
<1> DEFINE s == calls[t]
           r == calls'[t]
           k == Len(s)
<1>1. k \in Nat /\ k >= 1 /\ s # << >> /\ Top(t) = s[k]
  BY TopOfRequest
<1>2. /\ Len(r) = k
      /\ \A i \in 1 .. k - 1 : r[i] = s[i]
      /\ r[k] = f
      /\ ~Idle(t)'
  BY RequestMoves
<1>3. r # << >>
  BY <1>2 DEF Idle
<1>4. /\ CopiesAll(s, waitingFrom)
      /\ \A i \in 1 .. k : AtAddressee(s[i])
      /\ \A n \in Node : \A o \in waitingFrom[n] :
           n \in permissionQueue[o] \/ Pending(s, n, o)
  BY OneStackBefore
<1>5. \A n \in Node : \A o \in waitingFrom'[n] :
        o \in waitingFrom[n] /\ (Decides(s[k], n, o) => Decides(f, n, o))
  BY <1>1
<1> HIDE DEF s, r
<1>6. \A n \in Node : \A o \in waitingFrom'[n] :
        o \in waitingFrom[n] /\ (Pending(s, n, o) => Pending(r, n, o))
  BY <1>2, <1>3, <1>5 DEF Pending
<1>7. \A i \in 1 .. Len(r) : i = k \/ i \in 1 .. k - 1
  BY <1>1, <1>2
<1>8. \A i \in 1 .. Len(r) : Loops(r[i]) => i \in 1 .. Len(s) /\ r[i] = s[i]
  BY <1>2, <1>7
<1>9. \A i \in 1 .. Len(r) : AtAddressee(r[i])
  <2>1. \A i \in 1 .. k - 1 : i \in 1 .. k
    BY <1>1
  <2>2. QED
    BY <1>2, <1>4, <1>7, <2>1
<1>10. CopiesAll(r, waitingFrom')
  BY <1>4, <1>6, <1>8, CopiesStay
<1>11. \A n \in Node : \A o \in waitingFrom'[n] :
         n \in permissionQueue'[o] \/ Pending(r, n, o)
  BY <1>4, <1>6
<1>12. QED
  BY <1>9, <1>10, <1>11, OneStack DEF r

\* A return of a function that decides nothing: no node loses its place in a
\* queue as long as it waits.
LEMMA ReturnKeepsWaiters ==
  ASSUME PermissionTypeOK, Stacks, OneRequest, WaitersKnown,
         NEW t \in Task, ~Idle(t), Return(t), Top(t).fn # "request",
         \A n \in Node : \A o \in waitingFrom[n] : ~Decides(Top(t), n, o),
         waitingFrom' = waitingFrom,
         \A n \in Node : \A o \in waitingFrom[n] :
           n \in permissionQueue[o] => n \in permissionQueue'[o]
  PROVE  WaitersKnown'
<1> DEFINE s == calls[t]
           r == calls'[t]
           k == Len(s)
<1>1. k \in Nat /\ k >= 1 /\ s # << >> /\ Top(t) = s[k]
  BY TopOfRequest
<1>2. /\ Len(r) = k - 1
      /\ \A i \in 1 .. k - 1 : r[i] = s[i]
  BY RequestReturns
<1>3. /\ CopiesAll(s, waitingFrom)
      /\ \A i \in 1 .. k : AtAddressee(s[i])
      /\ \A n \in Node : \A o \in waitingFrom[n] :
           n \in permissionQueue[o] \/ Pending(s, n, o)
  BY OneStackBefore
<1>4. \A n \in Node : \A o \in waitingFrom[n] : ~Pending(s, n, o)
  BY <1>1 DEF Pending
<1> HIDE DEF s, r
<1>5. \A i \in 1 .. Len(r) : i \in 1 .. k - 1 /\ i \in 1 .. k
  BY <1>1, <1>2
<1>6. \A i \in 1 .. Len(r) : Loops(r[i]) => i \in 1 .. Len(s) /\ r[i] = s[i]
  BY <1>2, <1>5
<1>7. \A i \in 1 .. Len(r) : AtAddressee(r[i])
  BY <1>2, <1>3, <1>5
<1>8. \A n \in Node : \A o \in waitingFrom'[n] :
        o \in waitingFrom[n] /\ (Pending(s, n, o) => Pending(r, n, o))
  BY <1>4
<1>9. CopiesAll(r, waitingFrom')
  BY <1>3, <1>6, <1>8, CopiesStay
<1>10. \A n \in Node : \A o \in waitingFrom'[n] :
         n \in permissionQueue'[o] \/ Pending(r, n, o)
  BY <1>3, <1>4
<1>11. QED
  BY <1>7, <1>9, <1>10, OneStack DEF r

\* A new request: no other one is in progress.
LEMMA BeginKeepsWaiters ==
  ASSUME PermissionTypeOK, OneRequest, WaitersKnown,
         NEW t \in Task, Idle(t), NEW f \in PermissionFrame, Begin(t, f),
         ~Loops(f), f.fn # "request",
         waitingFrom' = waitingFrom, permissionQueue' = permissionQueue
  PROVE  WaitersKnown'
<1>1. calls'[t] = << f >>
  BY BeginEffect DEF PermissionTypeOK
<1>2. \A n \in Node : \A o \in waitingFrom[n] : n \in permissionQueue[o]
  BY OneStackBefore DEF Pending, Idle
<1>3. CopiesAll(<< f >>, waitingFrom)
  BY DEF CopiesAll
<1>4. \A i \in 1 .. Len(<< f >>) : AtAddressee(<< f >>[i])
  BY DEF AtAddressee
<1>5. QED
  BY <1>1, <1>2, <1>3, <1>4, OneStack

\* handle_waiting_for notes the wait and sends the request.
LEMMA RequestPermissionKeepsWaiters ==
  ASSUME PermissionTypeOK, Stacks, OneRequest, WaitersKnown,
         NEW t \in Task, RequestPermission(t)
  PROVE  WaitersKnown'
<1> DEFINE f == [Top(t) EXCEPT !.pc = "reply"]
           g == PermissionMessage("request", Top(t).at, Top(t).peer)
           r == calls'[t]
<1>1. /\ ~Idle(t) /\ Top(t).fn = "wait" /\ Top(t).pc = "send"
      /\ Top(t) \in PermissionFrame
  BY TopOfRequest DEF RequestPermission, At
<1>2. /\ f \in PermissionFrame /\ f.fn = "wait"
      /\ f.at = Top(t).at /\ f.peer = Top(t).peer
      /\ Top(t).at \in Node /\ Top(t).peer \in Node
  BY <1>1 DEF PermissionFrame
<1>3. /\ g \in PermissionFrame /\ g.fn = "request" /\ g.pc = "hop"
      /\ g.peer = Top(t).at /\ g.to = Top(t).peer
  BY <1>2, RingAssumption DEF PermissionMessage, PermissionFrame
<1>4. Call(t, f, g)
  BY DEF RequestPermission
<1>5. \A n \in Node : \A o \in waitingFrom'[n] :
        o \in waitingFrom[n] \/ (n = Top(t).at /\ o = Top(t).peer)
  BY <1>2 DEF RequestPermission, PermissionTypeOK
<1>6. permissionQueue' = permissionQueue
  BY DEF RequestPermission
<1> HIDE DEF f, g
<1>7. Len(r) = 2 /\ r[1] = f /\ r[2] = g /\ ~Idle(t)'
  BY <1>1, <1>2, <1>3, <1>4, RequestIsSent
<1>8. r # << >>
  BY <1>7 DEF Idle
<1>9. \A n \in Node : \A o \in waitingFrom[n] : n \in permissionQueue[o]
  BY <1>1, OneStackBefore DEF Pending, Decides, Top
<1> HIDE DEF r
<1>10. \A i \in 1 .. Len(r) : r[i] = f \/ r[i] = g
  BY <1>7
<1>11. CopiesAll(r, waitingFrom')
  BY <1>2, <1>3, <1>10 DEF CopiesAll, Loops
<1>12. \A i \in 1 .. Len(r) : AtAddressee(r[i])
  BY <1>2, <1>3, <1>10 DEF AtAddressee
<1>13. Pending(r, Top(t).at, Top(t).peer)
  BY <1>3, <1>7, <1>8 DEF Pending, Decides
<1>14. \A n \in Node : \A o \in waitingFrom'[n] :
         n \in permissionQueue'[o] \/ Pending(r, n, o)
  BY <1>5, <1>6, <1>9, <1>13
<1>15. QED
  BY <1>11, <1>12, <1>14, OneStack DEF r

\* The addressee decides: its reply is a grant, or it has queued the waiter.
LEMMA AnswerKeepsWaiters ==
  ASSUME PermissionTypeOK, Stacks, OneRequest, WaitersKnown,
         NEW t \in Task, ~Idle(t), Top(t).fn = "request",
         NEW pc \in {"granted", "denied"}, ReplyToRequest(t, pc),
         waitingFrom' = waitingFrom,
         \A n \in Node : \A o \in waitingFrom[n] :
           n \in permissionQueue[o] => n \in permissionQueue'[o],
         pc = "denied" => Top(t).peer \in permissionQueue'[Top(t).to]
  PROVE  WaitersKnown'
<1> DEFINE r == calls'[t]
<1>1. /\ Len(r) = 1 /\ r[1] = [calls[t][1] EXCEPT !.pc = pc]
      /\ r[1].at = Top(t).peer /\ r[1].peer = Top(t).to
      /\ calls' \in [Task -> Seq(PermissionFrame)] /\ ~Idle(t)'
  BY RequestIsAnswered
<1>2. calls[t][1] \in PermissionFrame /\ calls[t][1].fn = "wait"
  BY TopOfRequest
<1>3. r[1].fn = "wait" /\ r[1].pc = pc /\ r # << >>
  BY <1>1, <1>2 DEF PermissionFrame, Idle
<1>4. \A n \in Node : \A o \in waitingFrom[n] :
        n \in permissionQueue[o] \/ (Top(t).peer = n /\ Top(t).to = o)
  BY OneStackBefore DEF Pending, Decides, Top
<1> HIDE DEF r
<1>5. \A i \in 1 .. Len(r) : i = 1
  BY <1>1
<1>6. CopiesAll(r, waitingFrom')
  BY <1>3, <1>5 DEF CopiesAll, Loops
<1>7. \A i \in 1 .. Len(r) : AtAddressee(r[i])
  BY <1>3, <1>5 DEF AtAddressee
<1>8. ASSUME pc = "granted"
      PROVE  Pending(r, Top(t).peer, Top(t).to)
  BY <1>1, <1>3, <1>8 DEF Pending, Decides
<1>9. \A n \in Node : \A o \in waitingFrom'[n] :
        n \in permissionQueue'[o] \/ Pending(r, n, o)
  <2> TAKE n \in Node
  <2> TAKE o \in waitingFrom'[n]
  <2>1. CASE n \in permissionQueue[o]
    BY <2>1
  <2>2. CASE Top(t).peer = n /\ Top(t).to = o
    BY <1>8, <2>2
  <2>3. QED
    BY <1>4, <2>1, <2>2
<1>10. QED
  BY <1>6, <1>7, <1>9, OneStack DEF r

\* set_active copies the queue of its node.
LEMMA ListWaitersKeepsWaiters ==
  ASSUME PermissionTypeOK, Stacks, OneRequest, WaitersKnown,
         NEW t \in Task, ListWaiters(t)
  PROVE  WaitersKnown'
<1> DEFINE s == calls[t]
           r == calls'[t]
           k == Len(s)
           f == [Top(t) EXCEPT !.pc = "loop",
                               !.todo = permissionQueue[Top(t).at]]
<1>1. /\ ~Idle(t) /\ Top(t).fn = "setActive" /\ Top(t) \in PermissionFrame
      /\ Goto(t, f)
  BY TopOfRequest DEF ListWaiters, At
<1>2. permissionQueue[Top(t).at] \in SUBSET Node
  BY <1>1 DEF PermissionTypeOK, PermissionFrame
<1>3. /\ f \in PermissionFrame /\ f.fn = "setActive"
      /\ f.fn = Top(t).fn /\ f.peer = Top(t).peer /\ f.to = Top(t).to
      /\ f.at = Top(t).at /\ f.todo = permissionQueue[f.at]
  BY <1>1, <1>2 DEF PermissionFrame
<1> HIDE DEF f
<1>4. k \in Nat /\ k >= 1 /\ s # << >> /\ Top(t) = s[k]
  BY <1>1, TopOfRequest
<1>5. /\ Len(r) = k
      /\ \A i \in 1 .. k - 1 : r[i] = s[i]
      /\ r[k] = f
  BY <1>1, <1>3, RequestMoves
<1>6. /\ CopiesAll(s, waitingFrom)
      /\ \A i \in 1 .. k : AtAddressee(s[i])
      /\ \A n \in Node : \A o \in waitingFrom[n] :
           n \in permissionQueue[o] \/ Pending(s, n, o)
  BY OneStackBefore
<1>7. \A n, o : ~Pending(s, n, o)
  BY <1>1, <1>4 DEF Pending, Decides
<1>8. waitingFrom' = waitingFrom /\ permissionQueue' = permissionQueue
  BY DEF ListWaiters
<1> HIDE DEF s, r
<1>9. \A i \in 1 .. Len(r) : i = k \/ (i \in 1 .. k - 1 /\ i \in 1 .. k)
  BY <1>4, <1>5
<1>10. CopiesAll(r, waitingFrom')
  <2> SUFFICES ASSUME NEW i \in 1 .. Len(r), Loops(r[i]),
                      NEW n \in Node, r[i].at \in waitingFrom'[n]
               PROVE  n \in r[i].todo
    BY DEF CopiesAll
  <2>1. CASE i = k
    BY <1>3, <1>5, <1>6, <1>7, <1>8, <2>1
  <2>2. CASE i \in 1 .. k - 1 /\ i \in 1 .. k
    <3>1. r[i] = s[i]
      BY <1>5, <2>2
    <3>2. QED
      BY <1>6, <1>7, <1>8, <2>2, <3>1 DEF CopiesAll
  <2>3. QED
    BY <1>9, <2>1, <2>2
<1>11. \A i \in 1 .. Len(r) : AtAddressee(r[i])
  <2>1. AtAddressee(f)
    BY <1>3 DEF AtAddressee
  <2>2. QED
    BY <1>5, <1>6, <1>9, <2>1
<1>12. \A n \in Node : \A o \in waitingFrom'[n] :
         n \in permissionQueue'[o] \/ Pending(r, n, o)
  BY <1>6, <1>7, <1>8
<1>13. QED
  BY <1>10, <1>11, <1>12, OneStack DEF r

\* set_active takes a waiter from the queue and sends it a grant.
LEMMA SendGrantKeepsWaiters ==
  ASSUME PermissionTypeOK, Stacks, OneRequest, WaitersKnown,
         NEW t \in Task, NEW m \in Node, SendGrant(t, m)
  PROVE  WaitersKnown'
<1> DEFINE s == calls[t]
           r == calls'[t]
           k == Len(s)
           f == [Top(t) EXCEPT !.todo = @ \ {m}]
           g == PermissionMessage("grant", Top(t).at, m)
<1>1. /\ ~Idle(t) /\ Top(t).fn = "setActive" /\ Top(t).pc = "loop"
      /\ Top(t) \in PermissionFrame /\ Top(t).at \in Node
  BY TopOfRequest DEF SendGrant, At, PermissionFrame
<1>2. /\ f \in PermissionFrame /\ f.fn = "setActive" /\ f.at = Top(t).at
      /\ f.todo = Top(t).todo \ {m}
  BY <1>1 DEF PermissionFrame
<1>3. /\ g \in PermissionFrame /\ g.fn = "grant" /\ g.pc = "hop"
      /\ g.to = m /\ g.peer = Top(t).at
  BY <1>1, RingAssumption DEF PermissionMessage, PermissionFrame
<1>4. Call(t, f, g)
  BY DEF SendGrant
<1> HIDE DEF f, g
<1>5. k \in Nat /\ k >= 1 /\ s # << >> /\ Top(t) = s[k]
  BY <1>1, TopOfRequest
<1>6. /\ Len(r) = k + 1
      /\ \A i \in 1 .. k - 1 : r[i] = s[i]
      /\ r[k] = f /\ r[k + 1] = g /\ ~Idle(t)'
  BY <1>1, <1>2, <1>3, <1>4, GrantIsSent
<1>7. r # << >>
  BY <1>6 DEF Idle
<1>8. /\ CopiesAll(s, waitingFrom)
      /\ \A i \in 1 .. k : AtAddressee(s[i])
      /\ \A n \in Node : \A o \in waitingFrom[n] :
           n \in permissionQueue[o] \/ Pending(s, n, o)
  BY OneStackBefore
<1>9. \A n, o : ~Pending(s, n, o)
  BY <1>1, <1>5 DEF Pending, Decides
<1>10. /\ waitingFrom' = waitingFrom
       /\ \A n \in Node : \A o \in waitingFrom[n] :
            n \in permissionQueue[o] =>
              n \in permissionQueue'[o] \/ (n = m /\ o = Top(t).at)
  BY <1>1 DEF SendGrant, PermissionTypeOK
<1> HIDE DEF s, r
<1>11. Pending(r, m, Top(t).at)
  BY <1>3, <1>5, <1>6, <1>7 DEF Pending, Decides
<1>12. \A i \in 1 .. Len(r) :
         i = k + 1 \/ i = k \/ (i \in 1 .. k - 1 /\ i \in 1 .. k)
  BY <1>5, <1>6
<1>13. k \in 1 .. k
  BY <1>5
<1>14. CopiesAll(r, waitingFrom')
  <2> SUFFICES ASSUME NEW i \in 1 .. Len(r), Loops(r[i]),
                      NEW n \in Node, r[i].at \in waitingFrom'[n]
               PROVE  n \in r[i].todo \/ Pending(r, n, r[i].at)
    BY DEF CopiesAll
  <2>1. CASE i = k + 1
    BY <1>3, <1>6, <2>1 DEF Loops
  <2>2. CASE i = k
    <3>1. n \in s[k].todo
      BY <1>1, <1>2, <1>5, <1>6, <1>8, <1>9, <1>10, <1>13, <2>2
         DEF CopiesAll, Loops
    <3>2. CASE n = m
      BY <1>2, <1>6, <1>11, <2>2, <3>2
    <3>3. CASE n # m
      BY <1>2, <1>5, <1>6, <2>2, <3>1, <3>3
    <3>4. QED
      BY <3>2, <3>3
  <2>3. CASE i \in 1 .. k - 1 /\ i \in 1 .. k
    <3>1. r[i] = s[i]
      BY <1>6, <2>3
    <3>2. QED
      BY <1>8, <1>9, <1>10, <2>3, <3>1 DEF CopiesAll
  <2>4. QED
    BY <1>12, <2>1, <2>2, <2>3
<1>15. \A i \in 1 .. Len(r) : AtAddressee(r[i])
  <2>1. AtAddressee(f) /\ AtAddressee(g)
    BY <1>2, <1>3 DEF AtAddressee
  <2>2. QED
    BY <1>6, <1>8, <1>12, <2>1
<1>16. \A n \in Node : \A o \in waitingFrom'[n] :
         n \in permissionQueue'[o] \/ Pending(r, n, o)
  BY <1>8, <1>9, <1>10, <1>11
<1>17. QED
  BY <1>14, <1>15, <1>16, OneStack DEF r

\* The last grant makes the node active: handle_permission_from calls
\* set_active.
LEMMA LastGrantKeepsWaiters ==
  ASSUME PermissionTypeOK, Stacks, OneRequest, WaitersKnown,
         NEW t \in Task, TestLastGrant(t), waitingFrom[Top(t).at] = {}
  PROVE  WaitersKnown'
<1> DEFINE s == calls[t]
           r == calls'[t]
           k == Len(s)
           f == [Top(t) EXCEPT !.pc = "done"]
           g == SetActiveFrame(Top(t).at)
<1>1. /\ ~Idle(t) /\ Top(t).fn = "grant" /\ Top(t).pc = "test"
      /\ Top(t) \in PermissionFrame /\ Top(t).at \in Node
  BY TopOfRequest DEF TestLastGrant, At, PermissionFrame
<1>2. f \in PermissionFrame /\ f.fn = "grant"
  BY <1>1 DEF PermissionFrame
<1>3. g \in PermissionFrame /\ g.fn = "setActive" /\ g.pc = "active"
  BY <1>1 DEF SetActiveFrame, PermissionFrame
<1>4. Call(t, f, g)
  BY DEF TestLastGrant
<1> HIDE DEF f, g
<1>5. k \in Nat /\ k >= 1 /\ s # << >> /\ Top(t) = s[k]
  BY <1>1, TopOfRequest
<1>6. /\ Len(r) = k + 1
      /\ \A i \in 1 .. k - 1 : r[i] = s[i]
      /\ r[k] = f /\ r[k + 1] = g
  BY <1>1, <1>2, <1>3, <1>4, GrantIsSent
<1>7. /\ CopiesAll(s, waitingFrom)
      /\ \A i \in 1 .. k : AtAddressee(s[i])
      /\ \A n \in Node : \A o \in waitingFrom[n] :
           n \in permissionQueue[o] \/ Pending(s, n, o)
  BY OneStackBefore
<1>8. \A n, o : ~Pending(s, n, o)
  BY <1>1, <1>5 DEF Pending, Decides
<1>9. waitingFrom' = waitingFrom /\ permissionQueue' = permissionQueue
  BY DEF TestLastGrant
<1> HIDE DEF s, r
<1>10. \A i \in 1 .. Len(r) :
         i = k + 1 \/ i = k \/ (i \in 1 .. k - 1 /\ i \in 1 .. k)
  BY <1>5, <1>6
<1>11. ~Loops(f) /\ ~Loops(g) /\ AtAddressee(f) /\ AtAddressee(g)
  BY <1>2, <1>3 DEF Loops, AtAddressee
<1>12. \A i \in 1 .. Len(r) : Loops(r[i]) => i \in 1 .. Len(s) /\ r[i] = s[i]
  BY <1>6, <1>10, <1>11
<1>13. \A i \in 1 .. Len(r) : AtAddressee(r[i])
  BY <1>6, <1>7, <1>10, <1>11
<1>14. \A n \in Node : \A o \in waitingFrom'[n] :
         o \in waitingFrom[n] /\ (Pending(s, n, o) => Pending(r, n, o))
  BY <1>8, <1>9
<1>15. CopiesAll(r, waitingFrom')
  BY <1>7, <1>12, <1>14, CopiesStay
<1>16. \A n \in Node : \A o \in waitingFrom'[n] :
         n \in permissionQueue'[o] \/ Pending(r, n, o)
  BY <1>7, <1>8, <1>9
<1>17. QED
  BY <1>13, <1>15, <1>16, OneStack DEF r

\* set_active has granted to everybody in its copy: when it clears the queue
\* of its node, nobody waits for that node.
LEMMA LoopIsOver ==
  ASSUME PermissionTypeOK, Stacks, OneRequest, WaitersKnown,
         NEW t \in Task, At(t, "setActive", "loop"), Top(t).todo = {}
  PROVE  \A n \in Node : Top(t).at \notin waitingFrom[n]
<1> DEFINE s == calls[t]
           k == Len(s)
<1>1. /\ k \in Nat /\ k >= 1 /\ Top(t) = s[k]
      /\ Top(t).fn = "setActive" /\ Top(t).pc = "loop"
  BY TopOfRequest DEF At
<1>2. CopiesAll(s, waitingFrom)
  BY OneStackBefore
<1> HIDE DEF s
<1>3. k \in 1 .. k
  BY <1>1
<1>4. \A n \in Node : ~Pending(s, n, s[k].at)
  BY <1>1 DEF Pending, Decides
<1>5. QED
  BY <1>1, <1>2, <1>3, <1>4 DEF CopiesAll, Loops

\* Every step keeps the waiters known.
LEMMA WaitersStep ==
  ASSUME PermissionTypeOK, Stacks, OneRequest, WaitersKnown,
         [PermissionNext]_permissionVars
  PROVE  WaitersKnown'
<1> DEFINE Goal == WaitersKnown'
<1> SUFFICES Goal
  OBVIOUS
<1>1. ASSUME NEW t \in Task, ~Idle(t)
      PROVE  Top(t) \in PermissionFrame
  BY <1>1, TopOfRequest
<1>2. ASSUME NEW t \in Task, NEW w \in Waits, StartWait(t, w[1], w[2])
      PROVE  Goal
  <2> DEFINE f == WaitFrame(w[1], w[2])
  <2>1. f \in PermissionFrame /\ f.fn = "wait"
    BY PermissionAssumption DEF WaitFrame, PermissionFrame
  <2>2. Idle(t) /\ Begin(t, f)
    BY <1>2 DEF StartWait
  <2> HIDE DEF f
  <2>3. QED
    BY <1>2, <2>1, <2>2, BeginKeepsWaiters DEF StartWait, Loops
<1>3. ASSUME NEW t \in Task, NEW n \in Node, StartSetActive(t, n) PROVE Goal
  <2> DEFINE f == SetActiveFrame(n)
  <2>1. f \in PermissionFrame /\ f.fn = "setActive" /\ f.pc = "active"
    BY DEF SetActiveFrame, PermissionFrame
  <2>2. Idle(t) /\ Begin(t, f)
    BY <1>3 DEF StartSetActive
  <2> HIDE DEF f
  <2>3. QED
    BY <1>3, <2>1, <2>2, BeginKeepsWaiters DEF StartSetActive, Loops
<1>4. ASSUME NEW n \in Node, SetPassive(n) PROVE Goal
  BY <1>4 DEF SetPassive, WaitersKnown, Registered, Copied, Arrived
<1>5. ASSUME NEW t \in Task, PermissionStep(t) PROVE Goal
  <2> HIDE DEF Goal
  <2>1. CASE BecomePassive(t)
    <3> DEFINE f == [Top(t) EXCEPT !.pc = "send"]
    <3>1. ~Idle(t) /\ Top(t).fn = "wait" /\ Top(t).pc = "passive" /\ Goto(t, f)
      BY <2>1 DEF BecomePassive, At
    <3>2. /\ f \in PermissionFrame /\ f.fn = "wait"
          /\ f.fn = Top(t).fn /\ f.peer = Top(t).peer /\ f.to = Top(t).to
      BY <1>1, <3>1 DEF PermissionFrame
    <3> HIDE DEF f
    <3>3. \A n, o : ~Decides(Top(t), n, o)
      BY <3>1 DEF Decides
    <3>4. QED
      BY <2>1, <3>1, <3>2, <3>3, MoveKeepsWaiters
         DEF BecomePassive, Loops, AtAddressee, Goal
  <2>2. CASE RequestPermission(t)
    BY <2>2, RequestPermissionKeepsWaiters DEF Goal
  <2>3. CASE PermissionGranted(t)
    <3> DEFINE f == [Top(t) EXCEPT !.pc = "resume"]
    <3>1. ~Idle(t) /\ Top(t).fn = "wait" /\ Top(t).pc = "granted" /\ Goto(t, f)
      BY <2>3 DEF PermissionGranted, At
    <3>2. /\ f \in PermissionFrame /\ f.fn = "wait"
          /\ f.fn = Top(t).fn /\ f.peer = Top(t).peer /\ f.to = Top(t).to
          /\ Top(t).at \in Node
      BY <1>1, <3>1 DEF PermissionFrame
    <3> HIDE DEF f
    <3>3. \A n \in Node : \A o \in waitingFrom'[n] :
            o \in waitingFrom[n] /\ ~(n = Top(t).at /\ o = Top(t).peer)
      BY <2>3, <3>2 DEF PermissionGranted, PermissionTypeOK
    <3>4. \A n, o : Decides(Top(t), n, o) => n = Top(t).at /\ o = Top(t).peer
      BY <3>1 DEF Decides
    <3>5. QED
      BY <2>3, <3>1, <3>2, <3>3, <3>4, MoveKeepsWaiters
         DEF PermissionGranted, Loops, AtAddressee, Goal
  <2>4. CASE Resume(t) \/ PermissionDenied(t)
    <3>1. /\ ~Idle(t) /\ Return(t) /\ Top(t).fn = "wait"
          /\ Top(t).pc \in {"resume", "denied"}
          /\ waitingFrom' = waitingFrom /\ permissionQueue' = permissionQueue
      BY <2>4 DEF Resume, PermissionDenied, At
    <3>2. \A n, o : ~Decides(Top(t), n, o)
      BY <3>1 DEF Decides
    <3>3. QED
      BY <3>1, <3>2, ReturnKeepsWaiters DEF Goal
  <2>5. CASE ReceiveRequest(t)
    <3>1. /\ ~Idle(t) /\ Top(t).fn = "request" /\ Top(t).at = Top(t).to
          /\ Top(t) \in PermissionFrame
          /\ waitingFrom' = waitingFrom /\ permissionQueue' = permissionQueue
      BY <1>1, <2>5 DEF ReceiveRequest, Received, At
    <3>2. ASSUME ReplyToRequest(t, "granted")
          PROVE  Goal
      BY <3>1, <3>2, AnswerKeepsWaiters DEF Goal
    <3> DEFINE f == [Top(t) EXCEPT !.pc = "queue"]
    <3>3. ASSUME Goto(t, f)
          PROVE  Goal
      <4>1. /\ f \in PermissionFrame /\ f.fn = "request" /\ f.at = f.to
            /\ f.fn = Top(t).fn /\ f.peer = Top(t).peer /\ f.to = Top(t).to
        BY <3>1 DEF PermissionFrame
      <4>2. Goto(t, f)
        BY <3>3
      <4> HIDE DEF f
      <4>3. \A n, o : Decides(Top(t), n, o) => Decides(f, n, o)
        BY <3>1, <4>1 DEF Decides
      <4>4. QED
        BY <3>1, <4>1, <4>2, <4>3, MoveKeepsWaiters
           DEF Loops, AtAddressee, Goal
    <3>4. QED
      BY <2>5, <3>2, <3>3 DEF ReceiveRequest
  <2>6. CASE QueueRequest(t)
    <3>1. /\ ~Idle(t) /\ Top(t).fn = "request" /\ Top(t).pc = "queue"
          /\ Top(t) \in PermissionFrame /\ ReplyToRequest(t, "denied")
          /\ waitingFrom' = waitingFrom
      BY <1>1, <2>6 DEF QueueRequest, At
    <3>2. Top(t).at = Top(t).to /\ Top(t).to \in Node
      <4>1. Len(calls[t]) \in 1 .. Len(calls[t])
        BY <3>1, TopOfRequest
      <4>2. AtAddressee(Top(t))
        BY <4>1, OneStackBefore DEF Top
      <4>3. QED
        BY <3>1, <4>2 DEF AtAddressee, PermissionFrame
    <3>3. /\ permissionQueue' =
               [permissionQueue EXCEPT ![Top(t).to] = @ \cup {Top(t).peer}]
          /\ permissionQueue \in [Node -> SUBSET Node]
          /\ waitingFrom \in [Node -> SUBSET Node]
      BY <2>6, <3>2 DEF QueueRequest, PermissionTypeOK
    <3>4. /\ Top(t).peer \in permissionQueue'[Top(t).to]
          /\ \A n \in Node : \A o \in waitingFrom[n] :
               n \in permissionQueue[o] => n \in permissionQueue'[o]
      BY <3>2, <3>3
    <3>5. QED
      BY <3>1, <3>4, AnswerKeepsWaiters DEF Goal
  <2>7. CASE BecomeActive(t)
    <3> DEFINE f == [Top(t) EXCEPT !.pc = "clear"]
    <3>1. /\ ~Idle(t) /\ Top(t).fn = "setActive" /\ Goto(t, f)
      BY <2>7 DEF BecomeActive, At
    <3>2. /\ f \in PermissionFrame /\ f.fn = "setActive" /\ f.pc = "clear"
          /\ f.fn = Top(t).fn /\ f.peer = Top(t).peer /\ f.to = Top(t).to
      BY <1>1, <3>1 DEF PermissionFrame
    <3> HIDE DEF f
    <3>3. \A n, o : ~Decides(Top(t), n, o)
      BY <3>1 DEF Decides
    <3>4. QED
      BY <2>7, <3>1, <3>2, <3>3, MoveKeepsWaiters
         DEF BecomeActive, Loops, AtAddressee, Goal
  <2>8. CASE ClearWaits(t)
    <3> DEFINE f == [Top(t) EXCEPT !.pc = "list"]
    <3>1. /\ ~Idle(t) /\ Top(t).fn = "setActive" /\ Goto(t, f)
      BY <2>8 DEF ClearWaits, At
    <3>2. /\ f \in PermissionFrame /\ f.fn = "setActive" /\ f.pc = "list"
          /\ f.fn = Top(t).fn /\ f.peer = Top(t).peer /\ f.to = Top(t).to
          /\ Top(t).at \in Node
      BY <1>1, <3>1 DEF PermissionFrame
    <3> HIDE DEF f
    <3>3. \A n, o : ~Decides(Top(t), n, o)
      BY <3>1 DEF Decides
    <3>4. \A n \in Node : \A o \in waitingFrom'[n] : o \in waitingFrom[n]
      BY <2>8, <3>2 DEF ClearWaits, PermissionTypeOK
    <3>5. QED
      BY <2>8, <3>1, <3>2, <3>3, <3>4, MoveKeepsWaiters
         DEF ClearWaits, Loops, AtAddressee, Goal
  <2>9. CASE ListWaiters(t)
    BY <2>9, ListWaitersKeepsWaiters DEF Goal
  <2>10. CASE \E n \in Node : SendGrant(t, n)
    BY <2>10, SendGrantKeepsWaiters DEF Goal
  <2>11. CASE EndSetActive(t)
    <3>1. /\ ~Idle(t) /\ Top(t).fn = "setActive" /\ Return(t)
          /\ Top(t) \in PermissionFrame /\ Top(t).at \in Node
          /\ waitingFrom' = waitingFrom
      BY <1>1, <2>11 DEF EndSetActive, At, PermissionFrame
    <3>2. \A n, o : ~Decides(Top(t), n, o)
      BY <3>1 DEF Decides
    <3>3. \A n \in Node : Top(t).at \notin waitingFrom[n]
      BY <2>11, LoopIsOver DEF EndSetActive
    <3>4. \A n \in Node : \A o \in waitingFrom[n] :
            n \in permissionQueue[o] => n \in permissionQueue'[o]
      BY <2>11, <3>1, <3>3 DEF EndSetActive, PermissionTypeOK
    <3>5. QED
      BY <3>1, <3>2, <3>4, ReturnKeepsWaiters DEF Goal
  <2>12. CASE ReceiveGrant(t)
    <3> DEFINE f == [Top(t) EXCEPT !.pc = "test"]
    <3>1. /\ ~Idle(t) /\ Top(t).fn = "grant" /\ Top(t).pc = "hop"
          /\ Top(t).at = Top(t).to /\ Goto(t, f)
      BY <2>12 DEF ReceiveGrant, Received, At
    <3>2. /\ f \in PermissionFrame /\ f.fn = "grant"
          /\ f.fn = Top(t).fn /\ f.peer = Top(t).peer /\ f.to = Top(t).to
          /\ Top(t).at \in Node
      BY <1>1, <3>1 DEF PermissionFrame
    <3> HIDE DEF f
    <3>3. \A n \in Node : \A o \in waitingFrom'[n] :
            o \in waitingFrom[n] /\ ~(n = Top(t).at /\ o = Top(t).peer)
      BY <2>12, <3>2 DEF ReceiveGrant, PermissionTypeOK
    <3>4. \A n, o : Decides(Top(t), n, o) => n = Top(t).at /\ o = Top(t).peer
      BY <3>1 DEF Decides
    <3>5. QED
      BY <2>12, <3>1, <3>2, <3>3, <3>4, MoveKeepsWaiters
         DEF ReceiveGrant, Loops, AtAddressee, Goal
  <2>13. CASE TestLastGrant(t)
    <3>1. /\ ~Idle(t) /\ Top(t).fn = "grant" /\ Top(t).pc = "test"
          /\ waitingFrom' = waitingFrom /\ permissionQueue' = permissionQueue
      BY <2>13 DEF TestLastGrant, At
    <3>2. \A n, o : ~Decides(Top(t), n, o)
      BY <3>1 DEF Decides
    <3>3. CASE waitingFrom[Top(t).at] = {}
      BY <2>13, <3>3, LastGrantKeepsWaiters DEF Goal
    <3>4. CASE Return(t)
      BY <3>1, <3>2, <3>4, ReturnKeepsWaiters DEF Goal
    <3>5. QED
      BY <2>13, <3>3, <3>4 DEF TestLastGrant
  <2>14. CASE EndGrant(t)
    <3>1. /\ ~Idle(t) /\ Return(t) /\ Top(t).fn = "grant" /\ Top(t).pc = "done"
          /\ waitingFrom' = waitingFrom /\ permissionQueue' = permissionQueue
      BY <2>14 DEF EndGrant, At
    <3>2. \A n, o : ~Decides(Top(t), n, o)
      BY <3>1 DEF Decides
    <3>3. QED
      BY <3>1, <3>2, ReturnKeepsWaiters DEF Goal
  <2>15. CASE ForwardPermission(t)
    <3> DEFINE f == [Top(t) EXCEPT !.at = Succ[@]]
    <3>1. /\ ~Idle(t) /\ Top(t) \in PermissionFrame /\ Top(t).pc = "hop"
          /\ Goto(t, f)
      BY <1>1, <2>15 DEF ForwardPermission, Forward
    <3>2. Succ[Top(t).at] \in Node
      BY <3>1, RingAssumption DEF PermissionFrame
    <3>3. /\ f \in PermissionFrame /\ f.pc = "hop"
          /\ f.fn = Top(t).fn /\ f.peer = Top(t).peer /\ f.to = Top(t).to
      BY <3>1, <3>2 DEF PermissionFrame
    <3> HIDE DEF f
    <3>4. \A n, o : Decides(Top(t), n, o) => Decides(f, n, o)
      BY <3>1, <3>3 DEF Decides
    <3>5. QED
      BY <2>15, <3>1, <3>3, <3>4, MoveKeepsWaiters
         DEF ForwardPermission, Loops, AtAddressee, Goal
  <2>16. QED
    BY <1>5, <2>1, <2>2, <2>3, <2>4, <2>5, <2>6, <2>7, <2>8, <2>9, <2>10,
       <2>11, <2>12, <2>13, <2>14, <2>15 DEF PermissionStep
<1>6. CASE UNCHANGED permissionVars
  BY <1>6 DEF permissionVars, WaitersKnown, Registered, Copied, Arrived
<1>7. QED
  BY <1>2, <1>3, <1>4, <1>5, <1>6 DEF PermissionNext

\* The inductive invariant holds at every step.
LEMMA WaitersAlways ==
  ASSUME OneRequest
  PROVE  PermissionSpec => [](PermissionTypeOK /\ Stacks /\ WaitersKnown)
<1>1. PermissionInit => PermissionTypeOK /\ Stacks /\ WaitersKnown
  BY DEF PermissionInit, PermissionTypeOK, Stacks, StackOK, WaitersKnown,
         Registered, Copied, CopiesAll, Arrived
<1>2. PermissionTypeOK /\ Stacks /\ WaitersKnown
        /\ [PermissionNext]_permissionVars
        => (PermissionTypeOK /\ Stacks /\ WaitersKnown)'
  BY PermissionTypeStep, WaitersStep
<1>3. QED
  BY <1>1, <1>2, PTL DEF PermissionSpec

\* As long as requests come one after the other, a node that waits for
\* another one is in the permission_queue of that node between requests
\* (handle_waiting_for, handle_permission_from, set_active), on a ring of any
\* number of nodes and after any number of waits, grants and refusals.
THEOREM WaitersAreRegistered ==
  ASSUME OneRequest
  PROVE  PermissionSpec => []WaiterRegistered
<1>1. WaitersKnown => WaiterRegistered
  BY DEF WaitersKnown, Registered, WaiterRegistered, Pending, Idle
<1>2. QED
  BY <1>1, WaitersAlways, PTL

\* A set_active that has sent its last grant leaves nobody waiting for its
\* node (the comment at cmh_funcs.rs:80), however deep it is nested in other
\* set_active calls, on the same node too.
THEOREM SetActiveWakesEverybody ==
  ASSUME OneRequest
  PROVE  PermissionSpec => []SetActiveWakesAll
<1>1. PermissionTypeOK /\ Stacks /\ WaitersKnown => SetActiveWakesAll
  BY LoopIsOver DEF SetActiveWakesAll
<1>2. QED
  BY <1>1, WaitersAlways, PTL
=============================================================================
