------------------------- MODULE LamportClock_proofs -------------------------
(***************************************************************************)
(* Theorems about LamportClock, for every ring, any number of requests at  *)
(* the same time and clocks up to any bound.                               *)
(***************************************************************************)
EXTENDS LamportClock, Calls_proofs

-----------------------------------------------------------------------------
(* The stack of a request when the clocks are c: each frame awaits the     *)
(* next one, which is about to look at its time, or has looked at it.      *)

Linked(f, g, c) ==
  /\ f.pc = "await"
  /\ g.fn = f.fn
  /\ f.fn = "cmh" =>
       /\ g.pc = "receive" => f.time <= g.time
       /\ g.pc # "receive" => f.time < c[g.at]
       /\ g.pc = "await" => f.time < g.time

Chain(s, c) == \A i, j \in DOMAIN s : i < j => Linked(s[i], s[j], c)

ClockInv == ClockTypeOK /\ \A t \in Task : Chain(calls[t], clock)

\* The types of the history.
SentTypeOK == lastSent \in [Node -> Nat] /\ sentBefore \in [Task -> Nat]

\* No clock of d is before that of c.
NotBefore(c, d) == \A n \in Node : c[n] <= d[n]

-----------------------------------------------------------------------------
(* Lemmas about stacks.                                                    *)

\* A link lasts while clocks go on.
LEMMA LinkLasts ==
  ASSUME NEW f \in ClockFrame, NEW g \in ClockFrame, NEW c \in [Node -> Nat],
         NEW d \in [Node -> Nat], NotBefore(c, d), Linked(f, g, c)
  PROVE  Linked(f, g, d)
BY DEF Linked, NotBefore, ClockFrame

\* So does a stack.
LEMMA ChainLasts ==
  ASSUME NEW s \in Seq(ClockFrame), NEW c \in [Node -> Nat],
         NEW d \in [Node -> Nat], NotBefore(c, d), Chain(s, c)
  PROVE  Chain(s, d)
<1>1. \A i \in DOMAIN s : s[i] \in ClockFrame
  OBVIOUS
<1>2. QED
  BY <1>1, LinkLasts DEF Chain

\* A frame goes on to another step, not before it has looked at the time that
\* it was sent.
LEMMA ChainGoes ==
  ASSUME NEW s \in Seq(ClockFrame), NEW r \in Seq(ClockFrame), NEW k \in Nat \ {0},
         k <= Len(s), Len(r) = k, \A i \in 1 .. k - 1 : r[i] = s[i],
         r[k].fn = s[k].fn, r[k].at = s[k].at, r[k].pc \notin {"receive", "await"},
         NEW c \in [Node -> Nat], NEW d \in [Node -> Nat], NotBefore(c, d),
         s[k].pc = "receive" => s[k].time < d[s[k].at],
         Chain(s, c)
  PROVE  Chain(r, d)
<1>1. \A i \in DOMAIN s : s[i] \in ClockFrame
  OBVIOUS
<1>2. SUFFICES ASSUME NEW i \in DOMAIN r, NEW j \in DOMAIN r, i < j
               PROVE  Linked(r[i], r[j], d)
  BY DEF Chain
<1>3. i \in 1 .. k - 1 /\ i \in DOMAIN s /\ j \in DOMAIN s /\ r[i] = s[i]
  BY <1>2
<1>4. Linked(s[i], s[j], d)
  BY <1>1, <1>2, <1>3, LinkLasts DEF Chain
<1>5. CASE j = k
  <2>1. s[i].time \in Nat /\ s[k].time \in Nat /\ s[k].at \in Node
    BY <1>1, <1>3, <1>5 DEF ClockFrame
  <2>2. d[s[k].at] \in Nat
    BY <2>1
  <2>3. QED
    BY <1>3, <1>4, <1>5, <2>1, <2>2 DEF Linked
<1>6. CASE j # k
  <2>1. r[j] = s[j]
    BY <1>2, <1>6
  <2>2. QED
    BY <1>3, <1>4, <2>1
<1>7. QED
  BY <1>5, <1>6

\* A frame sends a message with its clock, or a message without a time.
LEMMA ChainSends ==
  ASSUME NEW s \in Seq(ClockFrame), NEW r \in Seq(ClockFrame), NEW k \in Nat \ {0},
         Len(s) = k, Len(r) = k + 1, \A i \in 1 .. k - 1 : r[i] = s[i],
         r[k].fn = s[k].fn, r[k].at = s[k].at, r[k].pc = "await",
         r[k + 1].fn = s[k].fn, s[k].pc # "receive",
         NEW c \in [Node -> Nat], NEW d \in [Node -> Nat], NotBefore(c, d),
         s[k].fn = "cmh" => /\ r[k].time = d[s[k].at]
                            /\ r[k + 1].time = r[k].time
                            /\ r[k + 1].pc = "receive",
         Chain(s, c)
  PROVE  Chain(r, d)
<1>1. /\ \A i \in DOMAIN s : s[i] \in ClockFrame
      /\ \A i \in DOMAIN r : r[i] \in ClockFrame
  OBVIOUS
<1>2. SUFFICES ASSUME NEW i \in DOMAIN r, NEW j \in DOMAIN r, i < j
               PROVE  Linked(r[i], r[j], d)
  BY DEF Chain
<1>3. CASE j < k
  <2>1. i \in DOMAIN s /\ j \in DOMAIN s /\ r[i] = s[i] /\ r[j] = s[j]
    BY <1>2, <1>3
  <2>2. QED
    BY <1>1, <1>2, <2>1, LinkLasts DEF Chain
<1>4. CASE i < k /\ j >= k
  <2>1. i \in DOMAIN s /\ k \in DOMAIN s /\ r[i] = s[i]
    BY <1>2, <1>4
  <2>2. Linked(s[i], s[k], d)
    BY <1>1, <1>4, <2>1, LinkLasts DEF Chain
  <2>3. j = k \/ j = k + 1
    BY <1>2, <1>4
  <2>4. s[i].time \in Nat /\ d[s[k].at] \in Nat
    BY <1>1, <2>1 DEF ClockFrame
  <2>5. QED
    BY <2>1, <2>2, <2>3, <2>4 DEF Linked
<1>5. CASE i = k
  <2>1. j = k + 1
    BY <1>2, <1>5
  <2>2. s[k].fn = "cmh" => r[k].time \in Nat
    BY <1>1, <1>2, <1>5 DEF ClockFrame
  <2>3. QED
    BY <1>5, <2>1, <2>2 DEF Linked
<1>6. QED
  BY <1>2, <1>3, <1>4, <1>5

-----------------------------------------------------------------------------
(* Lemmas about frames and clocks.                                         *)

\* A frame that changes its step or its times is a frame.
LEMMA ChangedIsFrame ==
  ASSUME NEW f \in ClockFrame, NEW time \in Nat,
         NEW pc \in {"handle", "read", "await", "receive", "update",
                     "answered", "failed"}
  PROVE  /\ [f EXCEPT !.pc = pc] \in ClockFrame
         /\ [f EXCEPT !.pc = pc, !.time = time] \in ClockFrame
         /\ [f EXCEPT !.pc = pc, !.reply = time] \in ClockFrame
BY DEF ClockFrame

\* A new frame is a frame.
LEMMA HandlerIsFrame ==
  ASSUME NEW fn \in {"cmh", "resource"}, NEW pc \in {"handle", "receive"},
         NEW n \in Node, NEW own \in BOOLEAN, NEW time \in Nat
  PROVE  Handler(fn, pc, n, own, time) \in ClockFrame
BY DEF Handler, ClockFrame

\* The time after two others.
LEMMA LaterIsLater ==
  \A a, b \in Nat : /\ Later(a, b) + 1 \in Nat
                    /\ a <= Later(a, b) + 1
                    /\ b < Later(a, b) + 1
BY DEF Later

\* The positions before the last one of a stack of more than one frame.
LEMMA CallerPosition ==
  ASSUME NEW m \in Nat, m > 1
  PROVE  /\ m - 1 \in Nat \ {0} /\ m - 1 <= m /\ m - 1 + 1 = m
         /\ m - 1 - 1 = m - 2 /\ m - 1 \in 1 .. m
OBVIOUS

\* A clock that is set to a later time.
LEMMA ClockIsSet ==
  ASSUME NEW c \in [Node -> Nat], NEW n \in Node, NEW v \in Nat, c[n] <= v
  PROVE  /\ [c EXCEPT ![n] = v] \in [Node -> Nat]
         /\ NotBefore(c, [c EXCEPT ![n] = v])
         /\ [c EXCEPT ![n] = v][n] = v
BY DEF NotBefore

\* No clock is before itself.
LEMMA ClockStays ==
  ASSUME NEW c \in [Node -> Nat]
  PROVE  NotBefore(c, c)
BY DEF NotBefore

-----------------------------------------------------------------------------
(* The invariant is inductive.                                             *)

LEMMA ClockInitInv == ClockInit => ClockInv
BY ClockBound DEF ClockInit, ClockInv, ClockTypeOK, Chain

\* A step that leaves the history alone keeps its type.
LEMMA SentStays == ClockInv /\ UNCHANGED sent => SentTypeOK'
BY DEF ClockInv, ClockTypeOK, SentTypeOK, sent

\* It is enough to look at the request that takes the step.
LEMMA OneStackSuffices ==
  ASSUME ClockInv, NEW t \in Task,
         calls' \in [Task -> Seq(ClockFrame)],
         clock' \in [Node -> Nat], SentTypeOK',
         NotBefore(clock, clock'),
         Chain(calls'[t], clock'),
         \A u \in Task \ {t} : calls'[u] = calls[u]
  PROVE  ClockInv'
<1>1. ASSUME NEW u \in Task \ {t} PROVE Chain(calls'[u], clock')
  BY <1>1, ChainLasts DEF ClockInv, ClockTypeOK
<1>2. QED
  BY <1>1 DEF ClockInv, ClockTypeOK, SentTypeOK

\* The executing frame goes on: f is what it becomes, v what its clock becomes.
LEMMA FrameGoesOn ==
  ASSUME ClockInv, NEW t \in Task, ~Idle(t), NEW f \in ClockFrame, Goto(t, f),
         f.fn = Top(t).fn, f.at = Top(t).at, f.pc \notin {"receive", "await"},
         NEW v \in Nat, clock[f.at] <= v,
         Top(t).pc = "receive" => Top(t).time < v,
         clock' = [clock EXCEPT ![f.at] = v], SentTypeOK'
  PROVE  ClockInv'
<1>a. /\ calls \in [Task -> Seq(ClockFrame)] /\ clock \in [Node -> Nat]
      /\ SentTypeOK /\ Chain(calls[t], clock)
  BY DEF ClockInv, ClockTypeOK, SentTypeOK
<1>1. f.at \in Node
  BY DEF ClockFrame
<1>2. clock' \in [Node -> Nat] /\ NotBefore(clock, clock') /\ clock'[f.at] = v
  BY <1>a, <1>1, ClockIsSet
<1>3. /\ calls' \in [Task -> Seq(ClockFrame)]
      /\ Len(calls'[t]) = Len(calls[t])
      /\ \A i \in 1 .. Len(calls[t]) - 1 : calls'[t][i] = calls[t][i]
      /\ calls'[t][Len(calls[t])] = f
      /\ \A u \in Task \ {t} : calls'[u] = calls[u]
  BY <1>a, GotoEffect
<1>4. Len(calls[t]) \in Nat \ {0}
  BY <1>a, TopIsFrame
<1> DEFINE s == calls[t]
           r == calls'[t]
           k == Len(s)
           d == clock'
<1>5. /\ s \in Seq(ClockFrame) /\ r \in Seq(ClockFrame) /\ k \in Nat \ {0}
      /\ k <= Len(s) /\ Len(r) = k /\ \A i \in 1 .. k - 1 : r[i] = s[i]
      /\ r[k].fn = s[k].fn /\ r[k].at = s[k].at
      /\ r[k].pc \notin {"receive", "await"}
      /\ s[k].pc = "receive" => s[k].time < d[s[k].at]
  BY <1>a, <1>2, <1>3, <1>4 DEF Top
<1>6. d \in [Node -> Nat] /\ NotBefore(clock, d)
  BY <1>2
<1> HIDE DEF s, r, k, d
<1>7. Chain(s, clock)
  BY <1>a DEF s
<1>8. Chain(r, d)
  BY <1>a, <1>5, <1>6, <1>7, ChainGoes
<1>9. QED
  BY <1>a, <1>2, <1>3, <1>8, OneStackSuffices DEF r, d

\* The caller of the executing frame goes on with f.
LEMMA CallerGoesOn ==
  ASSUME ClockInv, NEW t \in Task, Len(calls[t]) > 1, NEW f \in ClockFrame,
         ReturnTo(t, f), f.fn = Caller(t).fn, f.at = Caller(t).at,
         f.pc \notin {"receive", "await"}, UNCHANGED << clock, sent >>
  PROVE  ClockInv'
<1>a. /\ calls \in [Task -> Seq(ClockFrame)] /\ clock \in [Node -> Nat]
      /\ SentTypeOK /\ Chain(calls[t], clock)
  BY DEF ClockInv, ClockTypeOK, SentTypeOK
<1>1. NotBefore(clock, clock)
  BY <1>a, ClockStays
<1>2. /\ calls' \in [Task -> Seq(ClockFrame)]
      /\ Len(calls'[t]) = Len(calls[t]) - 1
      /\ \A i \in 1 .. Len(calls[t]) - 2 : calls'[t][i] = calls[t][i]
      /\ calls'[t][Len(calls[t]) - 1] = f
      /\ \A u \in Task \ {t} : calls'[u] = calls[u]
  BY <1>a, ReturnToEffect
<1> DEFINE s == calls[t]
           r == calls'[t]
           k == Len(s) - 1
<1>3. /\ s \in Seq(ClockFrame) /\ r \in Seq(ClockFrame)
      /\ Len(s) \in Nat /\ Len(s) > 1
  BY <1>a, <1>2
<1>4. k \in Nat \ {0} /\ k <= Len(s) /\ k + 1 = Len(s) /\ k - 1 = Len(s) - 2
  BY <1>3, CallerPosition
<1>5. /\ Len(r) = k /\ \A i \in 1 .. k - 1 : r[i] = s[i]
      /\ r[k].fn = s[k].fn /\ r[k].at = s[k].at
      /\ r[k].pc \notin {"receive", "await"}
  BY <1>2, <1>4 DEF Caller
<1> HIDE DEF s, r, k
<1>6. Chain(s, clock)
  BY <1>a DEF s
<1>7. s[k].pc = "await"
  BY <1>3, <1>4, <1>6 DEF Chain, Linked
<1>8. Chain(r, clock)
  BY <1>a, <1>1, <1>3, <1>4, <1>5, <1>6, <1>7, ChainGoes
<1>9. QED
  BY <1>a, <1>1, <1>2, <1>8, SentStays, OneStackSuffices DEF r

\* The executing frame becomes f and sends the message g.
LEMMA FrameSends ==
  ASSUME ClockInv, NEW t \in Task, ~Idle(t), NEW f \in ClockFrame,
         NEW g \in ClockFrame, Call(t, f, g),
         f.fn = Top(t).fn, f.at = Top(t).at, f.pc = "await",
         g.fn = Top(t).fn, Top(t).pc # "receive",
         NEW v \in Nat, clock[f.at] <= v, clock' = [clock EXCEPT ![f.at] = v],
         f.fn = "cmh" => f.time = v /\ g.time = v /\ g.pc = "receive",
         SentTypeOK'
  PROVE  ClockInv'
<1>a. /\ calls \in [Task -> Seq(ClockFrame)] /\ clock \in [Node -> Nat]
      /\ Chain(calls[t], clock)
  BY DEF ClockInv, ClockTypeOK, SentTypeOK
<1>1. f.at \in Node
  BY DEF ClockFrame
<1>2. clock' \in [Node -> Nat] /\ NotBefore(clock, clock') /\ clock'[f.at] = v
  BY <1>a, <1>1, ClockIsSet
<1>3. /\ calls' \in [Task -> Seq(ClockFrame)]
      /\ Len(calls'[t]) = Len(calls[t]) + 1
      /\ \A i \in 1 .. Len(calls[t]) - 1 : calls'[t][i] = calls[t][i]
      /\ calls'[t][Len(calls[t])] = f
      /\ calls'[t][Len(calls[t]) + 1] = g
      /\ \A u \in Task \ {t} : calls'[u] = calls[u]
  BY <1>a, CallEffect
<1>4. Len(calls[t]) \in Nat \ {0}
  BY <1>a, TopIsFrame
<1> DEFINE s == calls[t]
           r == calls'[t]
           k == Len(s)
           d == clock'
<1>5. /\ s \in Seq(ClockFrame) /\ r \in Seq(ClockFrame) /\ k \in Nat \ {0}
      /\ Len(s) = k /\ Len(r) = k + 1 /\ \A i \in 1 .. k - 1 : r[i] = s[i]
      /\ r[k].fn = s[k].fn /\ r[k].at = s[k].at /\ r[k].pc = "await"
      /\ r[k + 1].fn = s[k].fn /\ s[k].pc # "receive"
      /\ s[k].fn = "cmh" => /\ r[k].time = d[s[k].at]
                            /\ r[k + 1].time = r[k].time
                            /\ r[k + 1].pc = "receive"
  BY <1>a, <1>2, <1>3, <1>4 DEF Top
<1>6. d \in [Node -> Nat] /\ NotBefore(clock, d)
  BY <1>2
<1> HIDE DEF s, r, k, d
<1>7. Chain(s, clock)
  BY <1>a DEF s
<1>8. Chain(r, d)
  BY <1>a, <1>5, <1>6, <1>7, ChainSends
<1>9. QED
  BY <1>2, <1>3, <1>8, OneStackSuffices DEF r, d

\* Every step of a request preserves the invariant.
LEMMA ClockStepInv ==
  ASSUME ClockInv, NEW t \in Task, ClockStep(t)
  PROVE  ClockInv'
<1> DEFINE f == Top(t)
           c == clock[f.at]
<1>a. /\ calls \in [Task -> Seq(ClockFrame)] /\ clock \in [Node -> Nat]
      /\ SentTypeOK /\ Chain(calls[t], clock)
  BY DEF ClockInv, ClockTypeOK, SentTypeOK
<1>b. ~Idle(t)
  BY DEF ClockStep, AddTick, ReceiveTime, SendTime, SendResource, AnswerSuccess,
         UpdateByReply, ForwardReply, AnswerOther, EndRequest, At
<1>c. f \in ClockFrame /\ Len(calls[t]) \in Nat \ {0}
  BY <1>a, <1>b, TopIsFrame
<1>d. /\ f.fn \in {"cmh", "resource"} /\ f.at \in Node /\ f.time \in Nat
      /\ f.reply \in Nat /\ f.own \in BOOLEAN /\ c \in Nat
      /\ Succ[f.at] \in Node
  BY <1>a, <1>c, RingAssumption DEF ClockFrame
<1>e. ASSUME NEW v \in Nat, c <= v, f.pc = "receive" => f.time < v,
             NEW pc \in {"handle", "read", "answered"},
             Goto(t, [f EXCEPT !.pc = pc]),
             clock' = [clock EXCEPT ![f.at] = v], SentTypeOK'
      PROVE  ClockInv'
  <2> DEFINE h == [f EXCEPT !.pc = pc]
  <2>0. h \in ClockFrame
    BY <1>c, <1>d, ChangedIsFrame
  <2>1. h \in ClockFrame /\ h.fn = f.fn /\ h.at = f.at /\ h.pc = pc
    BY <1>c, <2>0 DEF ClockFrame
  <2>2. Goto(t, h) /\ clock[h.at] <= v /\ clock' = [clock EXCEPT ![h.at] = v]
    BY <1>e, <2>1
  <2> HIDE DEF h
  <2>3. QED
    BY <1>b, <1>e, <2>1, <2>2, FrameGoesOn
<1>1. CASE AddTick(t)
  <2>1. c + 1 \in Nat /\ c <= c + 1
    BY <1>d
  <2>2. /\ f.pc = "handle" /\ clock' = [clock EXCEPT ![f.at] = c + 1]
        /\ Goto(t, [f EXCEPT !.pc = "read"])
        /\ sentBefore' = [sentBefore EXCEPT ![t] = lastSent[f.at]]
        /\ UNCHANGED lastSent
    BY <1>1 DEF AddTick, At
  <2>3. SentTypeOK'
    BY <1>a, <1>d, <2>2 DEF SentTypeOK
  <2>4. QED
    BY <1>e, <2>1, <2>2, <2>3
<1>2. CASE ReceiveTime(t)
  <2> DEFINE v == Later(c, f.time) + 1
  <2>1. v \in Nat /\ c <= v /\ f.time < v
    BY <1>d, LaterIsLater
  <2>2. /\ clock' = [clock EXCEPT ![f.at] = v]
        /\ Goto(t, [f EXCEPT !.pc = "handle"]) /\ UNCHANGED sent
    BY <1>2 DEF ReceiveTime
  <2>3. QED
    BY <1>e, <2>1, <2>2, SentStays
<1>3. CASE UpdateByReply(t)
  <2> DEFINE v == Later(c, f.reply) + 1
             pc == IF f.own THEN "handle" ELSE "answered"
  <2>1. v \in Nat /\ c <= v
    BY <1>d, LaterIsLater
  <2>2. /\ clock' = [clock EXCEPT ![f.at] = v] /\ f.pc = "update"
        /\ Goto(t, [f EXCEPT !.pc = pc]) /\ UNCHANGED sent
    BY <1>3 DEF UpdateByReply, At
  <2>3. pc \in {"handle", "read", "answered"}
    OBVIOUS
  <2>4. QED
    BY <1>e, <2>1, <2>2, <2>3, SentStays
<1>4. ASSUME NEW own \in BOOLEAN, SendTime(t, own)
      PROVE  ClockInv'
  <2> DEFINE h == [f EXCEPT !.pc = "await", !.time = c]
             g == Handler("cmh", "receive", Succ[f.at], own, c)
  <2>1. h \in ClockFrame /\ g \in ClockFrame
    BY <1>c, <1>d, ChangedIsFrame, HandlerIsFrame
  <2>2. /\ h.fn = f.fn /\ h.at = f.at /\ h.pc = "await" /\ h.time = c
        /\ g.fn = "cmh" /\ g.time = c /\ g.pc = "receive"
    BY <1>c DEF ClockFrame, Handler
  <2>3. /\ Call(t, h, g) /\ f.fn = "cmh" /\ f.pc = "read" /\ UNCHANGED << clock, sentBefore >>
        /\ lastSent' = [lastSent EXCEPT ![f.at] = c]
    BY <1>4 DEF SendTime, At
  <2>4. clock' = [clock EXCEPT ![h.at] = c] /\ SentTypeOK'
    BY <1>a, <1>d, <2>2, <2>3 DEF SentTypeOK
  <2>5. /\ clock[h.at] <= c /\ c \in Nat /\ f.pc # "receive" /\ g.fn = f.fn
        /\ h.fn = "cmh" => h.time = c /\ g.time = c /\ g.pc = "receive"
    BY <1>d, <2>2, <2>3
  <2> HIDE DEF h, g, c
  <2>6. QED
    BY <1>b, <2>1, <2>2, <2>3, <2>4, <2>5, FrameSends
<1>5. ASSUME NEW own \in BOOLEAN, SendResource(t, own)
      PROVE  ClockInv'
  <2> DEFINE h == [f EXCEPT !.pc = "await"]
             g == Handler("resource", "handle", Succ[f.at], own, 0)
  <2>1. h \in ClockFrame /\ g \in ClockFrame
    BY <1>c, <1>d, ChangedIsFrame, HandlerIsFrame
  <2>2. h.fn = f.fn /\ h.at = f.at /\ h.pc = "await" /\ g.fn = "resource"
    BY <1>c DEF ClockFrame, Handler
  <2>3. /\ Call(t, h, g) /\ f.fn = "resource" /\ f.pc = "handle"
        /\ clock' = [clock EXCEPT ![f.at] = c + 1] /\ UNCHANGED sent
    BY <1>5 DEF SendResource, At
  <2>4. c + 1 \in Nat /\ c <= c + 1
    BY <1>d
  <2>5. /\ clock[h.at] <= c + 1 /\ clock' = [clock EXCEPT ![h.at] = c + 1]
        /\ f.pc # "receive" /\ h.fn # "cmh" /\ SentTypeOK'
    BY <1>a, <2>2, <2>3, <2>4, SentStays
  <2> HIDE DEF h, g
  <2>6. QED
    BY <1>b, <2>1, <2>2, <2>3, <2>4, <2>5, FrameSends
<1>6. ASSUME Len(calls[t]) > 1, NEW time \in Nat,
             NEW pc \in {"handle", "update", "failed"},
             \/ ReturnTo(t, [Caller(t) EXCEPT !.pc = pc])
             \/ ReturnTo(t, [Caller(t) EXCEPT !.pc = pc, !.reply = time]),
             UNCHANGED << clock, sent >>
      PROVE  ClockInv'
  <2>1. Len(calls[t]) - 1 \in 1 .. Len(calls[t])
    BY <1>c, <1>6, CallerPosition
  <2>2. Caller(t) \in ClockFrame
    BY <1>a, <2>1 DEF Caller
  <2>3. /\ [Caller(t) EXCEPT !.pc = pc] \in ClockFrame
        /\ [Caller(t) EXCEPT !.pc = pc, !.reply = time] \in ClockFrame
    BY <1>6, <2>2, ChangedIsFrame
  <2>4. QED
    BY <1>6, <2>2, <2>3, CallerGoesOn DEF ClockFrame
<1>7. CASE AnswerSuccess(t)
  BY <1>6, <1>7, <1>d DEF AnswerSuccess
<1>8. CASE ForwardReply(t)
  BY <1>6, <1>8, <1>d DEF ForwardReply
<1>9. CASE AnswerOther(t)
  <2>1. (IF Caller(t).own THEN "handle" ELSE "failed") \in {"handle", "failed"}
    OBVIOUS
  <2>2. QED
    BY <1>6, <1>9, <2>1 DEF AnswerOther
<1>10. CASE EndRequest(t)
  <2>1. /\ calls' \in [Task -> Seq(ClockFrame)]
        /\ Len(calls'[t]) = Len(calls[t]) - 1
        /\ \A u \in Task \ {t} : calls'[u] = calls[u]
    BY <1>10, <1>a, <1>b, ReturnEffect DEF EndRequest
  <2>2. Len(calls'[t]) = 0
    BY <1>10, <2>1 DEF EndRequest
  <2>3. Chain(calls'[t], clock')
    BY <2>2 DEF Chain
  <2>4. UNCHANGED << clock, sent >>
    BY <1>10 DEF EndRequest
  <2>5. QED
    BY <1>a, <2>1, <2>3, <2>4, ClockStays, SentStays, OneStackSuffices
<1>11. QED
  BY <1>1, <1>2, <1>3, <1>4, <1>5, <1>7, <1>8, <1>9, <1>10 DEF ClockStep

\* So does a new request, and a step that changes nothing.
LEMMA ClockNextInv == ClockInv /\ [ClockNext]_clockVars => ClockInv'
<1> SUFFICES ASSUME ClockInv, [ClockNext]_clockVars
             PROVE  ClockInv'
  OBVIOUS
<1>a. /\ calls \in [Task -> Seq(ClockFrame)] /\ clock \in [Node -> Nat]
      /\ SentTypeOK
  BY DEF ClockInv, ClockTypeOK, SentTypeOK
<1>1. CASE UNCHANGED clockVars
  BY <1>1 DEF clockVars, sent, ClockInv, ClockTypeOK
<1>2. ASSUME NEW t \in Task, NEW n \in Node, NEW fn \in {"cmh", "resource"},
             StartRequest(t, n, fn)
      PROVE  ClockInv'
  <2>1. Handler(fn, "handle", n, TRUE, 0) \in ClockFrame
    BY HandlerIsFrame
  <2>2. /\ calls' \in [Task -> Seq(ClockFrame)]
        /\ calls'[t] = << Handler(fn, "handle", n, TRUE, 0) >>
        /\ \A u \in Task \ {t} : calls'[u] = calls[u]
    BY <1>a, <1>2, <2>1, BeginEffect DEF StartRequest
  <2>3. Chain(calls'[t], clock')
    BY <2>2 DEF Chain
  <2>4. UNCHANGED << clock, sent >>
    BY <1>2 DEF StartRequest
  <2>5. QED
    BY <1>a, <2>2, <2>3, <2>4, ClockStays, SentStays, OneStackSuffices
<1>3. QED
  BY <1>1, <1>2, ClockStepInv DEF ClockNext

\* ClockInv is an invariant.
LEMMA ClockInvHolds == ClockSpec => []ClockInv
BY ClockInitInv, ClockNextInv, PTL DEF ClockSpec

-----------------------------------------------------------------------------
(* Theorems.                                                               *)

\* Type correctness of the clocks.
THEOREM ClockTypeCorrect == ClockSpec => []ClockTypeOK
<1>1. ClockInv => ClockTypeOK
  BY DEF ClockInv
<1>2. QED
  BY <1>1, ClockInvHolds, PTL

\* The times that messages carry grow along each chain of calls, whatever the
\* other requests do to the clocks in between (update_clock).
THEOREM TimesGrowHolds == ClockSpec => []TimesGrow
<1>1. ClockInv => TimesGrow
  BY DEF ClockInv, Chain, Linked, TimesGrow
<1>2. QED
  BY <1>1, ClockInvHolds, PTL

-----------------------------------------------------------------------------
(* What a node has sent.                                                   *)

\* A node has not sent a later time than its clock.
SentInv ==
  /\ \A n \in Node : lastSent[n] <= clock[n]
  /\ TimeIsNew

\* A node that has added one for a message has a later clock than before, and
\* whatever the other requests do it does not lose it.
LEMMA SentNextInv == ClockInv /\ SentInv /\ [ClockNext]_clockVars => SentInv'
<1> SUFFICES ASSUME ClockInv, SentInv, [ClockNext]_clockVars
             PROVE  SentInv'
  OBVIOUS
<1>a. /\ calls \in [Task -> Seq(ClockFrame)] /\ clock \in [Node -> Nat]
      /\ lastSent \in [Node -> Nat]
  BY DEF ClockInv, ClockTypeOK
<1>h. sentBefore \in [Task -> Nat]
  BY DEF ClockInv, ClockTypeOK
<1>b. \A n \in Node : lastSent[n] <= clock[n]
  BY DEF SentInv
<1>c. ASSUME NEW t \in Task, NEW f, calls'[t] # << >> => Top(t)' = f,
             f.pc = "read" => sentBefore'[t] < clock'[f.at],
             \A u \in Task \ {t} : calls'[u] = calls[u] /\ sentBefore'[u] = sentBefore[u],
             clock' \in [Node -> Nat], NotBefore(clock, clock'),
             \A n \in Node : lastSent'[n] <= clock'[n]
      PROVE  SentInv'
  <2>1. ASSUME NEW u \in Task, At(u, "cmh", "read")'
        PROVE  sentBefore'[u] < clock'[Top(u)'.at]
    <3>1. CASE u = t
      BY <1>c, <2>1, <3>1 DEF At, Idle
    <3>2. CASE u # t
      <4>1. /\ At(u, "cmh", "read") /\ Top(u)' = Top(u) /\ ~Idle(u)
            /\ sentBefore'[u] = sentBefore[u]
        BY <1>c, <2>1, <3>2 DEF At, Idle, Top
      <4>2. Top(u) \in ClockFrame
        BY <1>a, <4>1, TopIsFrame
      <4>3. Top(u).at \in Node
        BY <4>2 DEF ClockFrame
      <4>4. /\ sentBefore[u] < clock[Top(u).at]
            /\ clock[Top(u).at] <= clock'[Top(u).at]
        BY <1>c, <4>1, <4>3 DEF SentInv, TimeIsNew, NotBefore
      <4>5. /\ sentBefore[u] \in Nat /\ clock[Top(u).at] \in Nat
            /\ clock'[Top(u).at] \in Nat
        BY <1>a, <1>c, <1>h, <4>3
      <4>6. QED
        BY <4>1, <4>4, <4>5
    <3>3. QED
      BY <3>1, <3>2
  <2>2. QED
    BY <1>c, <2>1 DEF SentInv, TimeIsNew
<1>d. ASSUME NEW n \in Node, NEW v \in Nat, clock[n] <= v,
             clock' = [clock EXCEPT ![n] = v], UNCHANGED lastSent
      PROVE  /\ clock' \in [Node -> Nat] /\ NotBefore(clock, clock')
             /\ \A m \in Node : lastSent'[m] <= clock'[m]
  <2>1. clock' \in [Node -> Nat] /\ NotBefore(clock, clock')
    BY <1>a, <1>d, ClockIsSet
  <2>2. ASSUME NEW m \in Node PROVE lastSent'[m] <= clock'[m]
    <3>1. lastSent'[m] <= clock[m] /\ clock[m] <= clock'[m]
      BY <1>b, <1>d, <2>1 DEF NotBefore
    <3>2. lastSent'[m] \in Nat /\ clock[m] \in Nat /\ clock'[m] \in Nat
      BY <1>a, <1>d, <2>1
    <3>3. QED
      BY <3>1, <3>2
  <2>3. QED
    BY <2>1, <2>2
<1>e. ASSUME NEW t \in Task, ~Idle(t)
      PROVE  /\ Top(t) \in ClockFrame /\ Len(calls[t]) \in Nat \ {0}
             /\ Top(t).at \in Node /\ Top(t).time \in Nat
             /\ Top(t).reply \in Nat /\ clock[Top(t).at] \in Nat
  <2>1. Top(t) \in ClockFrame /\ Len(calls[t]) \in Nat \ {0}
    BY <1>a, <1>e, TopIsFrame
  <2>2. QED
    BY <1>a, <2>1 DEF ClockFrame
<1>f. ASSUME NEW t \in Task, ~Idle(t), NEW pc \in {"read", "handle", "answered"},
             Goto(t, [Top(t) EXCEPT !.pc = pc])
      PROVE  /\ Top(t)' = [Top(t) EXCEPT !.pc = pc] /\ Top(t)'.pc = pc
             /\ \A u \in Task \ {t} : calls'[u] = calls[u]
  <2>1. [Top(t) EXCEPT !.pc = pc] \in ClockFrame
    BY <1>e, <1>f, ChangedIsFrame
  <2> DEFINE g == [Top(t) EXCEPT !.pc = pc]
  <2>0. g \in ClockFrame /\ Goto(t, g)
    BY <1>f, <2>1
  <2> HIDE DEF g
  <2>o. /\ Len(calls'[t]) = Len(calls[t]) /\ calls'[t][Len(calls[t])] = g
        /\ \A u \in Task \ {t} : calls'[u] = calls[u]
    BY <1>a, <1>f, <2>0, GotoEffect
  <2>2. Top(t)' = [Top(t) EXCEPT !.pc = pc]
    BY <2>o DEF Top, g
  <2>3. QED
    BY <1>e, <1>f, <2>2, <2>o DEF ClockFrame
<1>g. ASSUME NEW t \in Task, Len(calls[t]) > 1, NEW time \in Nat,
             NEW pc \in {"handle", "update", "failed"},
             \/ ReturnTo(t, [Caller(t) EXCEPT !.pc = pc])
             \/ ReturnTo(t, [Caller(t) EXCEPT !.pc = pc, !.reply = time]),
             UNCHANGED << clock, sent >>
      PROVE  SentInv'
  <2>1. Len(calls[t]) \in Nat /\ calls[t] \in Seq(ClockFrame)
    BY <1>a
  <2>2. Len(calls[t]) - 1 \in 1 .. Len(calls[t])
    BY <1>g, <2>1, CallerPosition
  <2>3. Caller(t) \in ClockFrame
    BY <2>1, <2>2 DEF Caller
  <2> DEFINE g == [Caller(t) EXCEPT !.pc = pc]
             h == [Caller(t) EXCEPT !.pc = pc, !.reply = time]
  <2>a. g \in ClockFrame /\ h \in ClockFrame
    BY <1>g, <2>3, ChangedIsFrame
  <2>b. g.pc = pc /\ h.pc = pc
    BY <2>3 DEF ClockFrame
  <2>c. ReturnTo(t, g) \/ ReturnTo(t, h)
    BY <1>g
  <2> HIDE DEF g, h
  <2>4. PICK f \in ClockFrame : ReturnTo(t, f) /\ f.pc = pc
    BY <2>a, <2>b, <2>c
  <2>o. /\ Len(calls'[t]) = Len(calls[t]) - 1
        /\ calls'[t][Len(calls[t]) - 1] = f
        /\ \A u \in Task \ {t} : calls'[u] = calls[u]
    BY <1>a, <1>g, <2>4, ReturnToEffect
  <2>5. Top(t)' = f
    BY <2>o DEF Top
  <2>6. UNCHANGED << clock, lastSent, sentBefore >> /\ f.pc # "read"
    BY <1>g, <2>4 DEF sent
  <2>7. QED
    BY <1>a, <1>b, <1>c, <2>5, <2>6, <2>o, ClockStays
<1>1. CASE UNCHANGED clockVars
  BY <1>1 DEF clockVars, sent, SentInv, TimeIsNew, At, Idle, Top
<1>2. ASSUME NEW t \in Task, NEW n \in Node, NEW fn \in {"cmh", "resource"},
             StartRequest(t, n, fn)
      PROVE  SentInv'
  <2> DEFINE f == Handler(fn, "handle", n, TRUE, 0)
  <2>1. f \in ClockFrame /\ f.pc # "read"
    BY HandlerIsFrame DEF Handler
  <2>3. UNCHANGED << clock, lastSent, sentBefore >> /\ Begin(t, f)
    BY <1>2 DEF StartRequest, sent
  <2> HIDE DEF f
  <2>0. calls'[t] = << f >> /\ \A u \in Task \ {t} : calls'[u] = calls[u]
    BY <1>a, <2>1, <2>3, BeginEffect
  <2>2. Top(t)' = f
    BY <2>0 DEF Top
  <2>4. QED
    BY <1>a, <1>b, <1>c, <2>0, <2>1, <2>2, <2>3, ClockStays
<1>3. ASSUME NEW t \in Task, AddTick(t)
      PROVE  SentInv'
  <2> DEFINE n == Top(t).at
  <2>1. /\ ~Idle(t) /\ UNCHANGED lastSent
        /\ sentBefore' = [sentBefore EXCEPT ![t] = lastSent[n]]
        /\ clock' = [clock EXCEPT ![n] = clock[n] + 1]
        /\ Goto(t, [Top(t) EXCEPT !.pc = "read"])
    BY <1>3 DEF AddTick, At
  <2>2. /\ n \in Node /\ clock[n] \in Nat /\ clock[n] + 1 \in Nat
        /\ clock[n] <= clock[n] + 1
    BY <1>e, <2>1
  <2>3. /\ clock' \in [Node -> Nat] /\ NotBefore(clock, clock')
        /\ \A m \in Node : lastSent'[m] <= clock'[m]
    BY <1>d, <2>1, <2>2
  <2> DEFINE f == [Top(t) EXCEPT !.pc = "read"]
  <2>4. Top(t)' = f /\ \A u \in Task \ {t} : calls'[u] = calls[u]
    BY <1>f, <2>1
  <2>5. f.at = n
    BY <1>e, <2>1 DEF ClockFrame
  <2>6. sentBefore'[t] < clock'[n]
    BY <1>a, <1>b, <1>h, <2>1, <2>2
  <2>7. \A u \in Task \ {t} : sentBefore'[u] = sentBefore[u]
    BY <1>h, <2>1
  <2> HIDE DEF f, n
  <2>8. QED
    BY <1>c, <2>3, <2>4, <2>5, <2>6, <2>7
<1>4. ASSUME NEW t \in Task, NEW own \in BOOLEAN, SendTime(t, own)
      PROVE  SentInv'
  <2> DEFINE n == Top(t).at
             h == [Top(t) EXCEPT !.pc = "await", !.time = clock[n]]
             g == Handler("cmh", "receive", Succ[n], own, clock[n])
  <2>1. /\ ~Idle(t) /\ UNCHANGED << clock, sentBefore >>
        /\ lastSent' = [lastSent EXCEPT ![n] = clock[n]]
    BY <1>4 DEF SendTime, At
  <2>2. n \in Node /\ clock[n] \in Nat /\ Succ[n] \in Node
    BY <1>e, <2>1, RingAssumption
  <2>3. h \in ClockFrame /\ g \in ClockFrame /\ g.pc # "read"
    BY <1>e, <2>1, <2>2, ChangedIsFrame, HandlerIsFrame DEF Handler
  <2>4. Call(t, h, g)
    BY <1>4 DEF SendTime
  <2> HIDE DEF h, g
  <2>i. ~Idle(t) /\ h \in ClockFrame /\ g \in ClockFrame /\ calls \in [Task -> Seq(ClockFrame)]
    BY <1>a, <2>1, <2>3
  <2>o. /\ Len(calls'[t]) = Len(calls[t]) + 1
        /\ calls'[t][Len(calls[t]) + 1] = g
        /\ \A u \in Task \ {t} : calls'[u] = calls[u]
    BY <2>i, <2>4, CallEffect
  <2>5. Top(t)' = g
    BY <2>o DEF Top
  <2>6. \A m \in Node : lastSent'[m] <= clock'[m]
    BY <1>a, <1>b, <2>1, <2>2
  <2>7. QED
    BY <1>a, <1>c, <2>1, <2>3, <2>5, <2>6, <2>o, ClockStays
<1>5. ASSUME NEW t \in Task, NEW own \in BOOLEAN, SendResource(t, own)
      PROVE  SentInv'
  <2> DEFINE n == Top(t).at
             h == [Top(t) EXCEPT !.pc = "await"]
             g == Handler("resource", "handle", Succ[n], own, 0)
  <2>1. /\ ~Idle(t) /\ UNCHANGED << lastSent, sentBefore >>
        /\ clock' = [clock EXCEPT ![n] = clock[n] + 1]
    BY <1>5 DEF SendResource, At, sent
  <2>2. /\ n \in Node /\ Succ[n] \in Node /\ clock[n] + 1 \in Nat
        /\ clock[n] <= clock[n] + 1
    BY <1>e, <2>1, RingAssumption
  <2>3. h \in ClockFrame /\ g \in ClockFrame /\ g.pc # "read"
    BY <1>e, <2>1, <2>2, ChangedIsFrame, HandlerIsFrame DEF Handler
  <2>4. Call(t, h, g)
    BY <1>5 DEF SendResource
  <2> HIDE DEF h, g
  <2>i. ~Idle(t) /\ h \in ClockFrame /\ g \in ClockFrame /\ calls \in [Task -> Seq(ClockFrame)]
    BY <1>a, <2>1, <2>3
  <2>o. /\ Len(calls'[t]) = Len(calls[t]) + 1
        /\ calls'[t][Len(calls[t]) + 1] = g
        /\ \A u \in Task \ {t} : calls'[u] = calls[u]
    BY <2>i, <2>4, CallEffect
  <2>5. Top(t)' = g
    BY <2>o DEF Top
  <2>6. QED
    BY <1>c, <1>d, <2>1, <2>2, <2>3, <2>5, <2>o
<1>6. ASSUME NEW t \in Task, ReceiveTime(t) \/ UpdateByReply(t)
      PROVE  SentInv'
  <2> DEFINE n == Top(t).at
             r == IF ReceiveTime(t) THEN Top(t).time ELSE Top(t).reply
             v == Later(clock[n], r) + 1
             pc == IF ReceiveTime(t) \/ Top(t).own THEN "handle" ELSE "answered"
  <2>1. /\ ~Idle(t) /\ UNCHANGED << lastSent, sentBefore >>
        /\ clock' = [clock EXCEPT ![n] = v]
    BY <1>6 DEF ReceiveTime, UpdateByReply, At, sent
  <2>2. n \in Node /\ clock[n] \in Nat /\ r \in Nat
    BY <1>e, <2>1
  <2>3. v \in Nat /\ clock[n] <= v
    BY <2>2, LaterIsLater
  <2>4. pc \in {"read", "handle", "answered"} /\ pc # "read"
    OBVIOUS
  <2>5. Goto(t, [Top(t) EXCEPT !.pc = pc])
    BY <1>6 DEF ReceiveTime, UpdateByReply, At
  <2> HIDE DEF pc, v
  <2>6. QED
    BY <1>c, <1>d, <1>f, <2>1, <2>2, <2>3, <2>4, <2>5
<1>7. ASSUME NEW t \in Task, AnswerSuccess(t) \/ ForwardReply(t) \/ AnswerOther(t)
      PROVE  SentInv'
  <2>1. /\ AnswerSuccess(t) \/ ForwardReply(t) => ~Idle(t)
    BY DEF AnswerSuccess, ForwardReply, At
  <2>2. CASE AnswerSuccess(t)
    BY <1>e, <1>g, <2>1, <2>2 DEF AnswerSuccess
  <2>3. CASE ForwardReply(t)
    BY <1>e, <1>g, <2>1, <2>3 DEF ForwardReply
  <2>4. CASE AnswerOther(t)
    <3>1. (IF Caller(t).own THEN "handle" ELSE "failed") \in {"handle", "failed"}
      OBVIOUS
    <3>2. QED
      BY <1>g, <2>4, <3>1 DEF AnswerOther
  <2>5. QED
    BY <1>7, <2>2, <2>3, <2>4
<1>8. ASSUME NEW t \in Task, EndRequest(t)
      PROVE  SentInv'
  <2>1. /\ ~Idle(t) /\ Return(t) /\ Len(calls[t]) = 1
        /\ UNCHANGED << clock, lastSent, sentBefore >>
    BY <1>8 DEF EndRequest, sent
  <2>o. /\ calls' \in [Task -> Seq(ClockFrame)]
        /\ Len(calls'[t]) = Len(calls[t]) - 1
        /\ \A u \in Task \ {t} : calls'[u] = calls[u]
    BY <1>a, <2>1, ReturnEffect
  <2>2. calls' \in [Task -> Seq(ClockFrame)] /\ Len(calls'[t]) = 0
    BY <2>1, <2>o
  <2>3. calls'[t] = << >>
    BY <2>2
  <2> DEFINE g == Handler("cmh", "handle", Top(t).at, TRUE, 0)
  <2>4. g.pc # "read"
    BY DEF Handler
  <2>5. calls'[t] # << >> => Top(t)' = g
    BY <2>3
  <2> HIDE DEF g
  <2>6. QED
    BY <1>a, <1>b, <1>c, <2>1, <2>4, <2>5, <2>o, ClockStays
<1>9. QED
  BY <1>1, <1>2, <1>3, <1>4, <1>5, <1>6, <1>7, <1>8 DEF ClockNext, ClockStep

\* The time of a message is later than all that its node had sent when
\* increment_lamport added one for it, in spite of its two locks and however many
\* requests there are: only overlapping calls of it read the same time.
THEOREM TimesAreNew == ClockSpec => []TimeIsNew
<1>1. ClockInit => SentInv
  BY DEF ClockInit, SentInv, TimeIsNew, At, Idle
<1>2. ClockInv /\ SentInv /\ [ClockNext]_clockVars => SentInv'
  BY SentNextInv
<1>3. SentInv => TimeIsNew
  BY DEF SentInv
<1>4. QED
  BY <1>1, <1>2, <1>3, ClockInvHolds, PTL DEF ClockSpec
=============================================================================
