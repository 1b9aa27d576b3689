------------------------ MODULE RingResources_proofs ------------------------
(***************************************************************************)
(* Theorems about RingResources: for any ring, in any state, nodes of which*)
(* any number may be slow or stop at the same time, and any number of      *)
(* requests.                                                               *)
(***************************************************************************)
EXTENDS RingResources, Ring_proofs

-----------------------------------------------------------------------------
(* Frames and tokens.                                                      *)

\* The frames of a request of RingResources, in which there is no query of Ring.
NodeFrame == {f \in RingFrame : f.fn # "query"} \cup ResourceFrame

LEMMA NodeFrameSet == FrameSet(NodeFrame)
<1>1. ASSUME NEW f \in ResourceFrame, NEW pc \in MessagePcs, NEW a \in Node,
             NEW o \in Node, NEW p \in Seq(Node)
      PROVE  /\ Continues(ResourceFrame, f, Moved(f, pc), pc, f.at, f.path)
             /\ Continues(ResourceFrame, f, Copied(f, pc, o), pc, f.at, f.path)
             /\ Continues(ResourceFrame, f, Sent(f, a, pc, p), pc, a, p)
             /\ Continues(ResourceFrame, f, SentBack(f, a, pc, o, p), pc, a, p)
  <2>1. Continues(ResourceFrame, f, Moved(f, pc), pc, f.at, f.path)
    BY DEF Continues, SameMessage, ResourceFrame, MessagePcs, Moved
  <2>2. Continues(ResourceFrame, f, Copied(f, pc, o), pc, f.at, f.path)
    BY DEF Continues, SameMessage, ResourceFrame, MessagePcs, Copied
  <2>3. Continues(ResourceFrame, f, Sent(f, a, pc, p), pc, a, p)
    BY DEF Continues, SameMessage, ResourceFrame, MessagePcs, Sent
  <2>4. Continues(ResourceFrame, f, SentBack(f, a, pc, o, p), pc, a, p)
    BY DEF Continues, SameMessage, ResourceFrame, MessagePcs, SentBack
  <2>5. QED
    BY <2>1, <2>2, <2>3, <2>4
<1>2. \A f \in ResourceFrame :
        /\ f.at \in Node /\ f.from \in Node /\ f.next \in Node
        /\ f.path \in Seq(Node)
        /\ f.fn \notin {"join", "joining", "leave", "leaving", "missing", "query"}
        /\ f.pc \notin {"call", "install", "enter", "repair", "copy", "tell",
                       "alone", "forget", "unlink", "relink", "linked"}
  BY DEF ResourceFrame
<1>3. /\ Node \in SUBSET Node /\ \A n, o \in Node : Reaches(n, o) => o \in Node
      /\ NodeFrame = {f \in {g \in RingFrame : g.fn # "query"} \cup ResourceFrame :
                        \A k \in 2 .. Len(f.path) : f.path[k] \in Node}
  <2>1. \A f \in NodeFrame : f.path \in Seq(Node)
    BY DEF NodeFrame, RingFrame, ResourceFrame
  <2>2. \A f \in NodeFrame : \A k \in 2 .. Len(f.path) : f.path[k] \in Node
    BY <2>1
  <2>3. QED
    BY <2>2 DEF NodeFrame
<1>4. QED
  BY <1>1, <1>2, <1>3, FrameSetWith

Carries(t, r) == ~Idle(t) /\ IsToken(Top(t)) /\ Top(t).r = r

\* The right to use r is with a request or with a node that uses r, and the
\* owner knows the node; no two requests have it.
OneToken ==
  \A r \in Resource :
    /\ \A t \in Task : Carries(t, r) =>
         currentUser[r] = Holder(Top(t)) /\ r \notin used[Holder(Top(t))]
    /\ \A t, u \in Task : Carries(t, r) /\ Carries(u, r) => t = u
-----------------------------------------------------------------------------
(* The inductive invariant.                                                *)

RRTypes ==
  /\ currentUser \in [Resource -> Node \cup {NoNode}]
  /\ requestQueue \in [Resource -> Seq(Node)]
  /\ used \in [Node -> SUBSET Resource]

RRInv == Ready(NodeFrame) /\ RRTypes /\ OneToken /\ UserIsNoted

\* A token is a frame of RingResources, for a node and a resource.
LEMMA TokenIs ==
  ASSUME NEW f \in NodeFrame, IsToken(f)
  PROVE  /\ f \in ResourceFrame /\ f.r \in Resource
         /\ Holder(f) \in Node
<1>1. f \in ResourceFrame
  BY DEF NodeFrame, RingFrame, IsToken
<1>2. QED
  BY <1>1 DEF ResourceFrame, Holder

\* What a step that leaves the resources alone does to the tokens.
LEMMA TokensFade ==
  ASSUME RRInv, UNCHANGED resourceVars, \A t \in Task : TokenFades(t)
  PROVE  OneToken' /\ UserIsNoted' /\ RRTypes'
<1>1. UNCHANGED << currentUser, requestQueue, used >>
  BY DEF resourceVars
<1>2. ASSUME NEW t \in Task, NEW r \in Resource, Carries(t, r)'
      PROVE  Carries(t, r) /\ Holder(Top(t)') = Holder(Top(t))
  BY <1>2 DEF Carries, TokenFades
<1>3. OneToken'
  <2> SUFFICES ASSUME NEW r \in Resource
               PROVE  /\ \A t \in Task : Carries(t, r)' =>
                           /\ currentUser'[r] = Holder(Top(t)')
                           /\ r \notin used'[Holder(Top(t)')]
                      /\ \A t, u \in Task :
                           Carries(t, r)' /\ Carries(u, r)' => t = u
    BY DEF OneToken
  <2>1. /\ \A t \in Task : Carries(t, r) =>
             currentUser[r] = Holder(Top(t)) /\ r \notin used[Holder(Top(t))]
        /\ \A t, u \in Task : Carries(t, r) /\ Carries(u, r) => t = u
    BY DEF RRInv, OneToken
  <2>2. QED
    BY <1>1, <1>2, <2>1
<1>4. QED
  BY <1>1, <1>3 DEF RRInv, RRTypes, UserIsNoted

LEMMA KeptInv ==
  ASSUME RRInv, NEW t \in Task, Kept(NodeFrame, t), NodesOK',
         UNCHANGED resourceVars
  PROVE  RRInv'
<1>1. \A u \in Task \ {t} : TokenFades(u)
  BY DEF Kept, Formed, TokenFades, Idle, Top
<1>2. \A u \in Task : TokenFades(u)
  BY <1>1 DEF Kept
<1>3. OneToken' /\ UserIsNoted' /\ RRTypes'
  BY <1>2, TokensFade
<1>4. Ready(NodeFrame)'
  BY DEF Kept, Formed, Ready, Forms, RRInv
<1>5. QED
  BY <1>3, <1>4 DEF RRInv

\* What a step about the token of r, which no other request has, has to do.
LEMMA TokenStep ==
  ASSUME RRInv, NEW t \in Task, NEW r \in Resource,
         Formed(NodeFrame, t), UNCHANGED << info, alive, clients >>, RRTypes',
         \A u \in Task \ {t} : ~Carries(u, r),
         \A q \in Resource \ {r} : currentUser'[q] = currentUser[q],
         \A n \in Node, q \in Resource \ {r} : q \in used'[n] => q \in used[n],
         ~Idle(t)' /\ IsToken(Top(t)') =>
           /\ Top(t)'.r = r
           /\ currentUser'[r] = Holder(Top(t)')
           /\ r \notin used'[Holder(Top(t)')],
         \A n \in Node : r \in used'[n] => currentUser'[r] = n
  PROVE  RRInv'
<1>1. \A u \in Task \ {t} : /\ Idle(u)' <=> Idle(u)
                           /\ Top(u)' = Top(u)
  BY DEF Formed, Idle, Top
<1>2. \A u \in Task \ {t}, q \in Resource : Carries(u, q)' <=> Carries(u, q)
  BY <1>1 DEF Carries
<1>3. \A q \in Resource : Carries(t, q)' => q = r
  BY DEF Carries
<1>4. ASSUME NEW q \in Resource, NEW u \in Task, Carries(u, q)'
      PROVE  currentUser'[q] = Holder(Top(u)') /\ q \notin used'[Holder(Top(u)')]
  <2>1. CASE u = t
    BY <1>3, <1>4, <2>1 DEF Carries
  <2>2. CASE u # t
    <3>1. Carries(u, q) /\ Top(u)' = Top(u) /\ q # r
      BY <1>1, <1>2, <1>4, <2>2
    <3>2. /\ currentUser[q] = Holder(Top(u)) /\ q \notin used[Holder(Top(u))]
      BY <3>1 DEF RRInv, OneToken
    <3>3. Top(u) \in NodeFrame /\ IsToken(Top(u))
      BY <3>1, TopIsFrame DEF RRInv, Ready, Carries
    <3>4. Holder(Top(u)) \in Node
      BY <3>3, TokenIs
    <3>5. QED
      BY <3>1, <3>2, <3>4
  <2>3. QED
    BY <2>1, <2>2
<1>5. ASSUME NEW q \in Resource, NEW u \in Task, NEW v \in Task,
             Carries(u, q)', Carries(v, q)'
      PROVE  u = v
  <2>1. CASE q = r
    BY <1>2, <1>5, <2>1
  <2>2. CASE q # r
    BY <1>2, <1>3, <1>5, <2>2 DEF RRInv, OneToken
  <2>3. QED
    BY <2>1, <2>2
<1>6. OneToken'
  <2>1. \A q \in Resource :
          /\ \A u \in Task : Carries(u, q)' =>
               currentUser'[q] = Holder(Top(u)') /\ q \notin used'[Holder(Top(u)')]
          /\ \A u, v \in Task : Carries(u, q)' /\ Carries(v, q)' => u = v
    BY <1>4, <1>5
  <2>2. QED
    BY <2>1 DEF OneToken
<1>7. UserIsNoted'
  <2> SUFFICES ASSUME NEW n \in Node, NEW q \in used'[n]
               PROVE  currentUser'[q] = n
    BY DEF UserIsNoted
  <2>1. q \in Resource
    BY DEF RRTypes
  <2>2. CASE q = r
    BY <2>2
  <2>3. CASE q # r
    BY <2>1, <2>3 DEF RRInv, UserIsNoted
  <2>4. QED
    BY <2>2, <2>3
<1>8. Ready(NodeFrame)'
  BY DEF Formed, Ready, Forms, NodesOK, RRInv
<1>9. QED
  BY <1>6, <1>7, <1>8 DEF RRInv

\* The owner that frees r, or takes no one for its user, has given no token.
LEMMA NoTokenWhenFree ==
  ASSUME RRInv, NEW r \in Resource, currentUser[r] = NoNode
  PROVE  /\ \A u \in Task : ~Carries(u, r)
         /\ \A n \in Node : r \notin used[n]
<1>1. NoNode \notin Node
  BY RingResourcesAssumption
<1>2. ASSUME NEW u \in Task, Carries(u, r) PROVE FALSE
  <2>1. currentUser[r] = Holder(Top(u))
    BY <1>2 DEF RRInv, OneToken
  <2>2. Top(u) \in NodeFrame /\ IsToken(Top(u))
    BY <1>2, TopIsFrame DEF RRInv, Ready, Carries
  <2>3. Holder(Top(u)) \in Node
    BY <2>2, TokenIs
  <2>4. QED
    BY <1>1, <2>1, <2>3
<1>3. QED
  BY <1>1, <1>2 DEF RRInv, UserIsNoted

\* While a request has the token of r nobody uses r, and no other request has it.
LEMMA OneTokenAlone ==
  ASSUME RRInv, NEW r \in Resource, NEW t \in Task, Carries(t, r)
  PROVE  /\ \A u \in Task \ {t} : ~Carries(u, r)
         /\ \A n \in Node : r \notin used[n]
         /\ currentUser[r] = Holder(Top(t))
<1>1. currentUser[r] = Holder(Top(t)) /\ r \notin used[Holder(Top(t))]
      /\ \A u \in Task : Carries(u, r) => t = u
  BY DEF RRInv, OneToken
<1>2. ASSUME NEW n \in Node, r \in used[n] PROVE FALSE
  <2>1. currentUser[r] = n
    BY <1>2 DEF RRInv, UserIsNoted
  <2>2. QED
    BY <1>1, <1>2, <2>1
<1>3. QED
  BY <1>1, <1>2

\* While a node uses r no request has the token.
LEMMA NoTokenWhenUsed ==
  ASSUME RRInv, NEW r \in Resource, NEW n \in Node, r \in used[n]
  PROVE  /\ \A u \in Task : ~Carries(u, r)
         /\ currentUser[r] = n
BY OneTokenAlone DEF RRInv, UserIsNoted
-----------------------------------------------------------------------------
(* The steps of RingResources.                                             *)

ResourcePcs == {"find", "request", "await", "check", "remove", "granted",
                "queued", "unknown", "owner", "done", "send", "deliver",
                "receive", "failed", "repaired"}

LEMMA MovedIsFrame ==
  ASSUME NEW f \in ResourceFrame, NEW pc \in ResourcePcs
  PROVE  LET g == Moved(f, pc) IN
           /\ g \in ResourceFrame /\ g \in NodeFrame /\ SameMessage(f, g)
           /\ g.pc = pc /\ g.fn = f.fn /\ g.at = f.at /\ g.from = f.from
           /\ g.to = f.to /\ g.r = f.r /\ g.path = f.path
<1> DEFINE g == Moved(f, pc)
<1>1. /\ g \in ResourceFrame
      /\ g.pc = pc /\ g.fn = f.fn /\ g.at = f.at /\ g.from = f.from
      /\ g.to = f.to /\ g.r = f.r /\ g.path = f.path
  BY DEF Moved, ResourceFrame, ResourcePcs
<1> HIDE DEF g
<1>2. QED
  BY <1>1 DEF NodeFrame, SameMessage, g

\* What is known of the executing frame of a request about a resource.
LEMMA ResourceTop ==
  ASSUME RRInv, NEW t \in Task, ~Idle(t)
  PROVE  LET f == Top(t) IN
           /\ f \in NodeFrame /\ FrameForm(f)
           /\ calls \in [Task -> Seq(NodeFrame)] /\ Forms
           /\ f.fn \in ResourceFns =>
                /\ f \in ResourceFrame
                /\ f.at \in Node /\ f.from \in Node /\ f.to \in Node
                /\ f.r \in Resource /\ f.path \in Seq(Node)
<1>1. /\ calls \in [Task -> Seq(NodeFrame)] /\ Forms
  BY DEF RRInv, Ready
<1>2. Top(t) \in NodeFrame /\ FrameForm(Top(t))
  BY <1>1, TopIsFrame, TopForm
<1>3. Top(t).fn \in ResourceFns => Top(t) \in ResourceFrame
  BY <1>2 DEF NodeFrame, RingFrame, ResourceFns, RequestFns
<1>4. QED
  BY <1>1, <1>2, <1>3 DEF ResourceFrame

\* A new request, and a new message.
LEMMA RequestIsFrame ==
  ASSUME NEW fn \in RequestFns, NEW pc \in {"find", "check"}, NEW n \in Node,
         NEW r \in Resource
  PROVE  LET f == RequestFrame(fn, pc, n, r) IN
           f \in NodeFrame /\ FrameForm(f) /\ f.fn = fn /\ f.pc = pc
<1> DEFINE f == RequestFrame(fn, pc, n, r)
<1>1. << n >> \in Seq(Node) /\ Len(<< n >>) = 1
  OBVIOUS
<1>2. /\ f \in ResourceFrame /\ f.fn = fn /\ f.pc = pc /\ f.at = f.from
      /\ f.path = << n >>
  BY <1>1 DEF RequestFrame, ResourceFrame, RequestFns
<1> HIDE DEF f
<1>3. FrameForm(f)
  BY <1>1, <1>2 DEF FrameForm, RequestFns, MessageFns, MessagePcs
<1>4. QED
  BY <1>2, <1>3 DEF NodeFrame, f

LEMMA MessageIsFrame ==
  ASSUME NEW kind \in {"ownerQuery", "acquire", "release", "granted"},
         NEW n \in Node, NEW o \in Node, NEW r \in Resource
  PROVE  LET f == Message(kind, n, o, r) IN
           /\ f \in NodeFrame /\ FrameForm(f) /\ f.fn = kind /\ f.pc = "send"
           /\ f.from = n /\ f.to = o /\ f.r = r
<1> DEFINE f == Message(kind, n, o, r)
<1>1. << n >> \in Seq(Node) /\ Len(<< n >>) = 1 /\ 1 >= 1
  OBVIOUS
<1>2. /\ f \in ResourceFrame /\ f.fn = kind /\ f.pc = "send" /\ f.path = << n >>
      /\ f.from = n /\ f.to = o /\ f.r = r
  BY <1>1 DEF Message, RequestFrame, ResourceFrame
<1> HIDE DEF f
<1>3. FrameForm(f)
  BY <1>1, <1>2 DEF FrameForm, RequestFns, MessageFns
<1>4. QED
  BY <1>2, <1>3 DEF NodeFrame, f

\* A reply ends a query or an acquire; only the grant of an acquire that was
\* granted is one.
LEMMA ReplyKeeps ==
  ASSUME RRInv, NEW t \in Task, ~Idle(t), Top(t).fn \in {"ownerQuery", "acquire"},
         NEW answer \in {"request", "unknown", "granted", "queued"},
         answer = "granted" => IsToken(Top(t)), Reply(t, answer)
  PROVE  Kept(NodeFrame, t)
<1> DEFINE f == Top(t)
           c == Caller(t)
           g == Moved(c, answer)
<1>1. /\ f \in NodeFrame /\ calls \in [Task -> Seq(NodeFrame)] /\ Forms
  BY ResourceTop
<1>2. f.fn \notin FirstFns
  BY DEF FirstFns, RequestFns
<1>3. /\ Len(calls[t]) > 1 /\ c.fn = "acquireResource" /\ FrameForm(c)
      /\ c \in NodeFrame /\ f.from = c.from /\ f.r = c.r
  BY <1>1, <1>2, TopForm DEF CallsOf
<1>4. c \in ResourceFrame
  BY <1>3 DEF NodeFrame, RingFrame
<1>5. ReturnTo(t, g)
  BY DEF Reply, Moved
<1> HIDE DEF c
<1>6. /\ g \in NodeFrame /\ SameMessage(c, g)
      /\ g.pc = answer /\ g.fn = c.fn /\ g.at = c.at /\ g.from = c.from
      /\ g.r = c.r /\ g.path = c.path
  BY <1>4, MovedIsFrame DEF ResourcePcs
<1> HIDE DEF g
<1>7. FrameForm(g)
  BY <1>3, <1>6 DEF FrameForm, RequestFns, MessageFns, MessagePcs
<1>8. Fades(f, g)
  BY <1>3, <1>6 DEF Fades, IsToken, Holder
<1>9. QED
  BY <1>1, <1>3, <1>5, <1>6, <1>7, <1>8, KeptByReturnTo DEF c

\* A message that is for another node.
LEMMA SendOnKeeps ==
  ASSUME RRInv, NEW t \in Task, ~Idle(t),
         Top(t).fn \in {"ownerQuery", "acquire", "release", "granted"},
         Top(t).pc = "receive", SendOn(t)
  PROVE  Kept(NodeFrame, t)
<1> DEFINE f == Top(t)
           g == Moved(f, "send")
<1>1. /\ f \in ResourceFrame /\ FrameForm(f)
      /\ calls \in [Task -> Seq(NodeFrame)] /\ Forms
  BY ResourceTop DEF ResourceFns
<1>2. Goto(t, g)
  BY DEF SendOn, Moved
<1>3. /\ g \in NodeFrame /\ SameMessage(f, g)
      /\ g.pc = "send" /\ g.fn = f.fn /\ g.path = f.path
  BY <1>1, MovedIsFrame DEF ResourcePcs
<1> HIDE DEF g
<1>4. FrameForm(g)
  BY <1>1, <1>3 DEF FrameForm, RequestFns, MessageFns
<1>5. IsToken(g) => IsToken(f)
  BY <1>3 DEF IsToken
<1>6. QED
  BY <1>1, <1>2, <1>3, <1>4, <1>5, KeptByGoto

LEMMA StartKeeps ==
  ASSUME RRInv, NEW t \in Task, NEW n \in Node, NEW r \in Resource,
         StartAcquire(t, n, r) \/ StartRelease(t, n, r)
  PROVE  RRInv'
<1>1. PICK fn \in RequestFns, pc \in {"find", "check"} :
        StartRequest(t, n, fn, pc, r)
  BY DEF StartAcquire, StartRelease, RequestFns
<1> DEFINE f == RequestFrame(fn, pc, n, r)
<1>2. Begin(t, f) /\ UNCHANGED << info, alive, clients, resourceVars >>
  BY <1>1 DEF StartRequest
<1>3. f \in NodeFrame /\ FrameForm(f) /\ f.fn = fn /\ f.pc = pc
  BY RequestIsFrame
<1> HIDE DEF f
<1>4. Kept(NodeFrame, t)
  BY <1>2, <1>3, KeptByBegin DEF RRInv, Ready, FirstFns, RequestFns
<1>5. NodesOK'
  BY <1>2 DEF RRInv, Ready, NodesOK
<1>6. QED
  BY <1>2, <1>4, <1>5, KeptInv

LEMMA FindOwnerKeeps ==
  ASSUME RRInv, NEW t \in Task, FindOwner(t)
  PROVE  RRInv'
<1> DEFINE f == Top(t)
           g == Moved(f, "request")
           h == Moved(f, "await")
           m == Message("ownerQuery", f.at, f.at, f.r)
<1>1. /\ ~Idle(t) /\ f.fn = "acquireResource" /\ f.pc = "find"
      /\ UNCHANGED << info, alive, clients, resourceVars >>
      /\ Goto(t, g) \/ Call(t, h, m)
  BY DEF FindOwner, At, Moved
<1>2. /\ f \in ResourceFrame /\ FrameForm(f) /\ f.at \in Node /\ f.r \in Resource
      /\ calls \in [Task -> Seq(NodeFrame)] /\ Forms
  BY <1>1, ResourceTop DEF ResourceFns, RequestFns
<1>3. /\ g \in NodeFrame /\ SameMessage(f, g)
      /\ g.pc = "request" /\ g.fn = f.fn /\ g.path = f.path
      /\ g.at = f.at /\ g.from = f.from
  BY <1>2, MovedIsFrame DEF ResourcePcs
<1>4. /\ h \in NodeFrame /\ SameMessage(f, h)
      /\ h.pc = "await" /\ h.fn = f.fn /\ h.path = f.path
      /\ h.at = f.at /\ h.from = f.from /\ h.r = f.r
  BY <1>2, MovedIsFrame DEF ResourcePcs
<1>5. /\ m \in NodeFrame /\ FrameForm(m) /\ m.fn = "ownerQuery" /\ m.pc = "send"
      /\ m.from = f.at /\ m.r = f.r
  BY <1>2, MessageIsFrame
<1> HIDE DEF g, h, m
<1>6. FrameForm(g) /\ FrameForm(h) /\ f.at = f.from
  BY <1>1, <1>2, <1>3, <1>4
  DEF FrameForm, RequestFns, MessageFns, MessagePcs
<1>7. /\ ~IsToken(g) /\ ~IsToken(m) /\ Awaits(h) /\ CallsOf(h, m)
  BY <1>1, <1>3, <1>4, <1>5, <1>6
  DEF IsToken, Awaits, CallsOf, FirstFns, RequestFns
<1>8. Kept(NodeFrame, t)
  <2>1. CASE Goto(t, g)
    BY <1>1, <1>2, <1>3, <1>6, <1>7, <2>1, KeptByGoto
  <2>2. CASE Call(t, h, m)
    BY <1>1, <1>2, <1>4, <1>5, <1>6, <1>7, <2>2, KeptByCall
  <2>3. QED
    BY <1>1, <2>1, <2>2
<1>9. NodesOK'
  BY <1>1 DEF RRInv, Ready, NodesOK
<1>10. QED
  BY <1>1, <1>8, <1>9, KeptInv

LEMMA RequestResourceKeeps ==
  ASSUME RRInv, NEW t \in Task, RequestResource(t)
  PROVE  RRInv'
<1> DEFINE f == Top(t)
           h == Moved(f, "await")
           m == Message("acquire", f.at, f.at, f.r)
<1>1. /\ ~Idle(t) /\ f.fn = "acquireResource" /\ f.pc = "request"
      /\ UNCHANGED << info, alive, clients, resourceVars >>
      /\ Call(t, h, m)
  BY DEF RequestResource, At, Moved
<1>2. /\ f \in ResourceFrame /\ FrameForm(f) /\ f.at \in Node /\ f.r \in Resource
      /\ calls \in [Task -> Seq(NodeFrame)] /\ Forms
  BY <1>1, ResourceTop DEF ResourceFns, RequestFns
<1>3. /\ h \in NodeFrame /\ SameMessage(f, h)
      /\ h.pc = "await" /\ h.fn = f.fn /\ h.path = f.path
      /\ h.at = f.at /\ h.from = f.from /\ h.r = f.r
  BY <1>2, MovedIsFrame DEF ResourcePcs
<1>4. /\ m \in NodeFrame /\ FrameForm(m) /\ m.fn = "acquire" /\ m.pc = "send"
      /\ m.from = f.at /\ m.r = f.r
  BY <1>2, MessageIsFrame
<1> HIDE DEF h, m
<1>5. FrameForm(h) /\ f.at = f.from
  BY <1>1, <1>2, <1>3 DEF FrameForm, RequestFns, MessageFns, MessagePcs
<1>6. /\ ~IsToken(m) /\ Awaits(h) /\ CallsOf(h, m)
  BY <1>1, <1>3, <1>4, <1>5
  DEF IsToken, Awaits, CallsOf, FirstFns, RequestFns
<1>7. Kept(NodeFrame, t)
  BY <1>1, <1>2, <1>3, <1>4, <1>5, <1>6, KeptByCall
<1>8. NodesOK'
  BY <1>1 DEF RRInv, Ready, NodesOK
<1>9. QED
  BY <1>1, <1>7, <1>8, KeptInv

LEMMA ReceiveOwnerQueryKeeps ==
  ASSUME RRInv, NEW t \in Task, ReceiveOwnerQuery(t)
  PROVE  RRInv'
<1>1. /\ ~Idle(t) /\ Top(t).fn = "ownerQuery" /\ Top(t).pc = "receive"
      /\ UNCHANGED << info, alive, clients, resourceVars >>
      /\ Reply(t, "request") \/ Reply(t, "unknown") \/ SendOn(t)
  BY DEF ReceiveOwnerQuery, At
<1>2. Kept(NodeFrame, t)
  <2>1. CASE Reply(t, "request")
    BY <1>1, <2>1, ReplyKeeps
  <2>2. CASE Reply(t, "unknown")
    BY <1>1, <2>2, ReplyKeeps
  <2>3. CASE SendOn(t)
    BY <1>1, <2>3, SendOnKeeps
  <2>4. QED
    BY <1>1, <2>1, <2>2, <2>3
<1>3. NodesOK'
  BY <1>1 DEF RRInv, Ready, NodesOK
<1>4. QED
  BY <1>1, <1>2, <1>3, KeptInv

LEMMA ReturnAnswerKeeps ==
  ASSUME RRInv, NEW t \in Task, ReturnAnswer(t)
  PROVE  RRInv'
<1>1. /\ ~Idle(t) /\ Top(t).fn = "acquire" /\ Top(t).pc \in {"granted", "queued"}
      /\ UNCHANGED << info, alive, clients, resourceVars >>
      /\ Reply(t, Top(t).pc)
  BY DEF ReturnAnswer, At
<1>2. Top(t).pc = "granted" => IsToken(Top(t))
  BY <1>1 DEF IsToken
<1>3. Kept(NodeFrame, t)
  BY <1>1, <1>2, ReplyKeeps
<1>4. NodesOK'
  BY <1>1 DEF RRInv, Ready, NodesOK
<1>5. QED
  BY <1>1, <1>3, <1>4, KeptInv

\* Returns that change nothing else.
LEMMA EndKeeps ==
  ASSUME RRInv, NEW t \in Task, EndAcquire(t) \/ EndRelease(t)
  PROVE  RRInv'
<1>1. /\ ~Idle(t) /\ Return(t)
      /\ UNCHANGED << info, alive, clients, resourceVars >>
  BY DEF EndAcquire, EndRelease, At
<1>2. Kept(NodeFrame, t)
  BY <1>1, KeptByReturn DEF RRInv, Ready
<1>3. NodesOK'
  BY <1>1 DEF RRInv, Ready, NodesOK
<1>4. QED
  BY <1>1, <1>2, <1>3, KeptInv

LEMMA EndLostMessageKeeps ==
  ASSUME RRInv, NEW t \in Task, EndLostMessage(t)
  PROVE  RRInv'
<1>1. /\ ~Idle(t)
      /\ UNCHANGED << info, alive, clients, resourceVars >>
      /\ \/ Top(t).fn \in {"ownerQuery", "acquire"} /\ Reply(t, "unknown")
         \/ Return(t)
  BY DEF EndLostMessage
<1>2. Kept(NodeFrame, t)
  <2>1. CASE Return(t)
    BY <1>1, <2>1, KeptByReturn DEF RRInv, Ready
  <2>2. CASE Top(t).fn \in {"ownerQuery", "acquire"} /\ Reply(t, "unknown")
    BY <1>1, <2>2, ReplyKeeps
  <2>3. QED
    BY <1>1, <2>1, <2>2
<1>3. NodesOK'
  BY <1>1 DEF RRInv, Ready, NodesOK
<1>4. QED
  BY <1>1, <1>2, <1>3, KeptInv
-----------------------------------------------------------------------------
(* The steps by which a resource changes hands.                            *)

\* The owner of a free resource makes the sender its user.
LEMMA ReceiveAcquireKeeps ==
  ASSUME RRInv, NEW t \in Task, ReceiveAcquire(t)
  PROVE  RRInv'
<1> DEFINE f == Top(t)
           r == f.r
           g == Moved(f, "granted")
           h == Moved(f, "queued")
<1>1. /\ ~Idle(t) /\ f.fn = "acquire" /\ f.pc = "receive"
      /\ UNCHANGED << info, alive, clients >>
      /\ \/ SendOn(t) /\ UNCHANGED resourceVars
         \/ /\ currentUser[r] = NoNode /\ Goto(t, g)
            /\ currentUser' = [currentUser EXCEPT ![r] = f.from]
            /\ UNCHANGED << requestQueue, used >>
         \/ /\ Goto(t, h)
            /\ requestQueue' = [requestQueue EXCEPT ![r] = Append(@, f.from)]
            /\ UNCHANGED << currentUser, used >>
  BY DEF ReceiveAcquire, At, Moved
<1>2. /\ f \in ResourceFrame /\ FrameForm(f) /\ f.from \in Node /\ r \in Resource
      /\ calls \in [Task -> Seq(NodeFrame)] /\ Forms
  BY <1>1, ResourceTop DEF ResourceFns
<1>3. /\ g \in NodeFrame /\ SameMessage(f, g)
      /\ g.pc = "granted" /\ g.fn = f.fn /\ g.path = f.path
      /\ g.from = f.from /\ g.r = r
  BY <1>2, MovedIsFrame DEF ResourcePcs
<1>4. /\ h \in NodeFrame /\ SameMessage(f, h)
      /\ h.pc = "queued" /\ h.fn = f.fn /\ h.path = f.path
  BY <1>2, MovedIsFrame DEF ResourcePcs
<1> HIDE DEF g, h
<1>5. FrameForm(g) /\ FrameForm(h)
  BY <1>1, <1>2, <1>3, <1>4 DEF FrameForm, RequestFns, MessageFns
<1>6. RRTypes
  BY DEF RRInv
<1>7. NodesOK'
  BY <1>1 DEF RRInv, Ready, NodesOK
<1>8. CASE SendOn(t) /\ UNCHANGED resourceVars
  BY <1>1, <1>7, <1>8, SendOnKeeps, KeptInv
<1>9. CASE /\ currentUser[r] = NoNode /\ Goto(t, g)
           /\ currentUser' = [currentUser EXCEPT ![r] = f.from]
           /\ UNCHANGED << requestQueue, used >>
  <2>1. Formed(NodeFrame, t) /\ Top(t)' = g
    BY <1>1, <1>2, <1>3, <1>5, <1>9, FormedByGoto
  <2>2. /\ \A u \in Task : ~Carries(u, r)
        /\ \A n \in Node : r \notin used[n]
    BY <1>2, <1>9, NoTokenWhenFree
  <2>3. RRTypes'
    BY <1>2, <1>6, <1>9 DEF RRTypes
  <2>4. currentUser'[r] = f.from /\ Holder(g) = f.from
        /\ \A q \in Resource \ {r} : currentUser'[q] = currentUser[q]
    BY <1>1, <1>2, <1>3, <1>6, <1>9 DEF RRTypes, Holder
  <2>5. used' = used
    BY <1>9
  <2>6. QED
    BY <1>1, <1>2, <1>3, <2>1, <2>2, <2>3, <2>4, <2>5, TokenStep
<1>10. CASE /\ Goto(t, h)
            /\ requestQueue' = [requestQueue EXCEPT ![r] = Append(@, f.from)]
            /\ UNCHANGED << currentUser, used >>
  <2>1. Formed(NodeFrame, t) /\ Top(t)' = h
    BY <1>1, <1>2, <1>4, <1>5, <1>10, FormedByGoto
  <2>2. ~IsToken(h)
    BY <1>1, <1>4 DEF IsToken
  <2>3. \A u \in Task : TokenFades(u)
    BY <2>1, <2>2 DEF Formed, TokenFades, Idle, Top
  <2>4. RRTypes'
    <3>1. Append(requestQueue[r], f.from) \in Seq(Node)
      BY <1>2, <1>6 DEF RRTypes
    <3>2. QED
      BY <1>2, <1>6, <1>10, <3>1 DEF RRTypes
  <2>5. \A u \in Task, q \in Resource : Carries(u, q)' =>
          Carries(u, q) /\ Holder(Top(u)') = Holder(Top(u))
    BY <2>3 DEF Carries, TokenFades
  <2>6. OneToken'
    BY <1>10, <2>5 DEF RRInv, OneToken
  <2>7. UserIsNoted'
    BY <1>10 DEF RRInv, UserIsNoted
  <2>8. Ready(NodeFrame)'
    BY <1>7, <2>1 DEF Formed, Ready, Forms, RRInv
  <2>9. QED
    BY <2>4, <2>6, <2>7, <2>8 DEF RRInv
<1>11. QED
  BY <1>1, <1>8, <1>9, <1>10

\* A node that a resource was granted to begins to use it.
LEMMA BeginUse ==
  ASSUME RRInv, NEW t \in Task, NEW r \in Resource, NEW n \in Node,
         Carries(t, r), Holder(Top(t)) = n, Return(t),
         used' = [used EXCEPT ![n] = @ \cup {r}],
         UNCHANGED << info, alive, clients, currentUser, requestQueue >>
  PROVE  RRInv'
<1>1. ~Idle(t)
  BY DEF Carries
<1>2. Formed(NodeFrame, t) /\ (~Idle(t)' => ~IsToken(Top(t)'))
  BY <1>1, KeptByReturn DEF RRInv, Ready, Kept
<1>3. /\ \A u \in Task \ {t} : ~Carries(u, r)
      /\ \A m \in Node : r \notin used[m]
      /\ currentUser[r] = n
  BY OneTokenAlone
<1>4. RRTypes'
  BY DEF RRInv, RRTypes
<1>5. \A m \in Node : r \in used'[m] => m = n
  BY <1>3 DEF RRInv, RRTypes
<1>6. \A m \in Node, q \in Resource \ {r} : q \in used'[m] => q \in used[m]
  BY DEF RRInv, RRTypes
<1>7. QED
  BY <1>2, <1>3, <1>4, <1>5, <1>6, TokenStep

LEMMA UseResourceKeeps ==
  ASSUME RRInv, NEW t \in Task, UseResource(t)
  PROVE  RRInv'
<1> DEFINE f == Top(t)
<1>1. /\ ~Idle(t) /\ f.fn = "acquireResource" /\ f.pc = "granted" /\ Return(t)
      /\ used' = [used EXCEPT ![f.at] = @ \cup {f.r}]
      /\ UNCHANGED << info, alive, clients, currentUser, requestQueue >>
  BY DEF UseResource, At
<1>2. FrameForm(f) /\ f.at \in Node /\ f.r \in Resource
  BY <1>1, ResourceTop DEF ResourceFns, RequestFns
<1>3. Carries(t, f.r) /\ Holder(f) = f.at
  BY <1>1, <1>2 DEF Carries, IsToken, Holder, FrameForm, RequestFns
<1>4. QED
  BY <1>1, <1>2, <1>3, BeginUse

LEMMA ReceiveGrantedKeeps ==
  ASSUME RRInv, NEW t \in Task, ReceiveGranted(t)
  PROVE  RRInv'
<1> DEFINE f == Top(t)
<1>1. /\ ~Idle(t) /\ f.fn = "granted" /\ f.pc = "receive"
      /\ UNCHANGED << info, alive, clients, currentUser, requestQueue >>
      /\ \/ /\ f.to = f.at /\ Return(t)
            /\ used' = [used EXCEPT ![f.at] = @ \cup {f.r}]
         \/ SendOn(t) /\ UNCHANGED used
  BY DEF ReceiveGranted, At
<1>2. f.at \in Node /\ f.r \in Resource
  BY <1>1, ResourceTop DEF ResourceFns
<1>3. CASE /\ f.to = f.at /\ Return(t)
           /\ used' = [used EXCEPT ![f.at] = @ \cup {f.r}]
  <2>1. Carries(t, f.r) /\ Holder(f) = f.at
    BY <1>1, <1>3 DEF Carries, IsToken, Holder
  <2>2. QED
    BY <1>1, <1>2, <1>3, <2>1, BeginUse
<1>4. CASE SendOn(t) /\ UNCHANGED used
  <2>1. Kept(NodeFrame, t)
    BY <1>1, <1>4, SendOnKeeps
  <2>2. NodesOK'
    BY <1>1 DEF RRInv, Ready, NodesOK
  <2>3. QED
    BY <1>1, <1>4, <2>1, <2>2, KeptInv DEF resourceVars
<1>5. QED
  BY <1>1, <1>3, <1>4

LEMMA CheckUsedKeeps ==
  ASSUME RRInv, NEW t \in Task, CheckUsed(t)
  PROVE  RRInv'
<1> DEFINE f == Top(t)
           g == Moved(f, "remove")
<1>1. /\ ~Idle(t) /\ f.fn = "releaseResource"
      /\ UNCHANGED << info, alive, clients, resourceVars >>
      /\ Goto(t, g) \/ Return(t)
  BY DEF CheckUsed, At, Moved
<1>2. /\ f \in ResourceFrame /\ FrameForm(f)
      /\ calls \in [Task -> Seq(NodeFrame)] /\ Forms
  BY <1>1, ResourceTop DEF ResourceFns, RequestFns
<1>3. /\ g \in NodeFrame /\ SameMessage(f, g) /\ g.pc = "remove"
      /\ g.fn = f.fn /\ g.path = f.path /\ g.at = f.at /\ g.from = f.from
  BY <1>2, MovedIsFrame DEF ResourcePcs
<1> HIDE DEF g
<1>4. FrameForm(g) /\ ~IsToken(g)
  BY <1>1, <1>2, <1>3 DEF FrameForm, RequestFns, MessageFns, MessagePcs, IsToken
<1>5. Kept(NodeFrame, t)
  BY <1>1, <1>2, <1>3, <1>4, KeptByGoto, KeptByReturn
<1>6. NodesOK'
  BY <1>1 DEF RRInv, Ready, NodesOK
<1>7. QED
  BY <1>1, <1>5, <1>6, KeptInv

\* A node stops using a resource before it tells the owner.
LEMMA RemoveUsedKeeps ==
  ASSUME RRInv, NEW t \in Task, RemoveUsed(t)
  PROVE  RRInv'
<1> DEFINE f == Top(t)
           h == Moved(f, "done")
           m == Message("release", f.at, f.at, f.r)
<1>1. /\ ~Idle(t) /\ f.fn = "releaseResource" /\ f.pc = "remove"
      /\ UNCHANGED << info, alive, clients, currentUser, requestQueue >>
      /\ f.r \in used[f.at] /\ Call(t, h, m)
      /\ used' = [used EXCEPT ![f.at] = @ \ {f.r}]
  BY DEF RemoveUsed, At, Moved
<1>2. /\ f \in ResourceFrame /\ FrameForm(f) /\ f.at \in Node /\ f.r \in Resource
      /\ calls \in [Task -> Seq(NodeFrame)] /\ Forms
  BY <1>1, ResourceTop DEF ResourceFns, RequestFns
<1>3. /\ h \in NodeFrame /\ SameMessage(f, h)
      /\ h.pc = "done" /\ h.fn = f.fn /\ h.path = f.path
      /\ h.at = f.at /\ h.from = f.from
  BY <1>2, MovedIsFrame DEF ResourcePcs
<1>4. /\ m \in NodeFrame /\ FrameForm(m) /\ m.fn = "release" /\ m.pc = "send"
      /\ m.from = f.at /\ m.r = f.r
  BY <1>2, MessageIsFrame
<1> HIDE DEF h, m
<1>5. FrameForm(h)
  BY <1>1, <1>2, <1>3 DEF FrameForm, RequestFns, MessageFns, MessagePcs
<1>6. Awaits(h) /\ CallsOf(h, m)
  BY <1>1, <1>3, <1>4 DEF Awaits, CallsOf, FirstFns, RequestFns
<1>7. Formed(NodeFrame, t) /\ Top(t)' = m
  BY <1>1, <1>2, <1>3, <1>4, <1>5, <1>6, FormedByCall
<1>8. (\A u \in Task : ~Carries(u, f.r)) /\ currentUser[f.r] = f.at
  BY <1>1, <1>2, NoTokenWhenUsed
<1>9. RRTypes'
  BY <1>1 DEF RRInv, RRTypes
<1>10. /\ f.r \notin used'[f.at]
       /\ \A n \in Node : used'[n] \subseteq used[n]
  BY <1>1, <1>2 DEF RRInv, RRTypes
<1>11. Holder(m) = f.at
  BY <1>4 DEF Holder
<1>12. \A n \in Node : f.r \in used'[n] => currentUser'[f.r] = n
  BY <1>1, <1>10 DEF RRInv, UserIsNoted
<1>13. currentUser' = currentUser
  BY <1>1
<1>14. QED
  BY <1>1, <1>2, <1>4, <1>7, <1>8, <1>9, <1>10, <1>11, <1>12, <1>13, TokenStep

\* The owner frees the resource, or makes a node that was queued its user.
LEMMA ReceiveReleaseKeeps ==
  ASSUME RRInv, NEW t \in Task, ReceiveRelease(t)
  PROVE  RRInv'
<1> DEFINE f == Top(t)
           r == f.r
           q == requestQueue[r]
           next == q[Len(q)]
           h == Moved(f, "done")
           m == Message("granted", f.at, next, r)
<1>1. /\ ~Idle(t) /\ f.fn = "release" /\ f.pc = "receive"
      /\ UNCHANGED << info, alive, clients, used >>
      /\ \/ SendOn(t) /\ UNCHANGED << currentUser, requestQueue >>
         \/ /\ currentUser' = [currentUser EXCEPT ![r] = NoNode]
            /\ Return(t) /\ UNCHANGED requestQueue
         \/ /\ q # << >>
            /\ currentUser' = [currentUser EXCEPT ![r] = next]
            /\ requestQueue' = [requestQueue EXCEPT ![r] = Front(@)]
            /\ Call(t, h, m)
  BY DEF ReceiveRelease, At, Moved
<1>2. /\ f \in ResourceFrame /\ FrameForm(f) /\ f.at \in Node /\ r \in Resource
      /\ calls \in [Task -> Seq(NodeFrame)] /\ Forms
  BY <1>1, ResourceTop DEF ResourceFns
<1>3. RRTypes /\ q \in Seq(Node)
  BY <1>2 DEF RRInv, RRTypes
<1>4. Carries(t, r)
  BY <1>1 DEF Carries, IsToken
<1>5. /\ \A u \in Task \ {t} : ~Carries(u, r)
      /\ \A n \in Node : r \notin used[n]
  BY <1>2, <1>4, OneTokenAlone
<1>6. CASE SendOn(t) /\ UNCHANGED << currentUser, requestQueue >>
  <2>1. Kept(NodeFrame, t)
    BY <1>1, <1>6, SendOnKeeps
  <2>2. NodesOK'
    BY <1>1 DEF RRInv, Ready, NodesOK
  <2>3. QED
    BY <1>1, <1>6, <2>1, <2>2, KeptInv DEF resourceVars
<1>7. CASE /\ currentUser' = [currentUser EXCEPT ![r] = NoNode]
           /\ Return(t) /\ UNCHANGED requestQueue
  <2>1. Formed(NodeFrame, t) /\ (~Idle(t)' => ~IsToken(Top(t)'))
    BY <1>1, <1>2, <1>7, KeptByReturn DEF Kept
  <2>2. RRTypes'
    BY <1>1, <1>3, <1>7 DEF RRTypes
  <2>3. \A p \in Resource \ {r} : currentUser'[p] = currentUser[p]
    BY <1>3, <1>7 DEF RRTypes
  <2>4. used' = used
    BY <1>1
  <2>5. QED
    BY <1>1, <1>2, <1>5, <2>1, <2>2, <2>3, <2>4, TokenStep
<1>8. CASE /\ q # << >>
           /\ currentUser' = [currentUser EXCEPT ![r] = next]
           /\ requestQueue' = [requestQueue EXCEPT ![r] = Front(@)]
           /\ Call(t, h, m)
  <2>1. next \in Node /\ Front(q) \in Seq(Node)
    <3> HIDE DEF q
    <3>1. Len(q) \in 1 .. Len(q) /\ Len(q) \in Nat
      BY <1>3, <1>8
    <3> DEFINE k == Len(q) - 1
    <3>2. /\ \A i \in 1 .. k : q[i] \in Node
          /\ k \in Nat
      BY <1>3, <3>1
    <3>3. Front(q) = SubSeq(q, 1, k)
      BY DEF Front
    <3> HIDE DEF k
    <3>4. SubSeq(q, 1, k) \in Seq(Node)
      BY <1>3, <3>2, SubSeqProperties
    <3>5. QED
      BY <1>3, <3>1, <3>3, <3>4
  <2> HIDE DEF next
  <2>2. /\ h \in NodeFrame /\ SameMessage(f, h)
        /\ h.pc = "done" /\ h.fn = f.fn /\ h.path = f.path
    BY <1>2, MovedIsFrame DEF ResourcePcs
  <2>3. /\ m \in NodeFrame /\ FrameForm(m) /\ m.fn = "granted" /\ m.pc = "send"
        /\ m.to = next /\ m.r = r
    BY <1>2, <2>1, MessageIsFrame
  <2> HIDE DEF h, m
  <2>4. FrameForm(h)
    BY <1>1, <1>2, <2>2 DEF FrameForm, RequestFns, MessageFns
  <2>5. Awaits(h) /\ CallsOf(h, m)
    BY <1>1, <2>2, <2>3 DEF Awaits, CallsOf, FirstFns, RequestFns
  <2>6. Formed(NodeFrame, t) /\ Top(t)' = m
    BY <1>1, <1>2, <1>8, <2>2, <2>3, <2>4, <2>5, FormedByCall
  <2>7. RRTypes'
    BY <1>1, <1>2, <1>3, <1>8, <2>1 DEF RRTypes
  <2>8. /\ currentUser'[r] = next
        /\ \A p \in Resource \ {r} : currentUser'[p] = currentUser[p]
    BY <1>2, <1>3, <1>8 DEF RRTypes
  <2>9. Holder(m) = next
    BY <2>3 DEF Holder
  <2>10. used' = used
    BY <1>1
  <2>11. QED
    BY <1>1, <1>2, <1>5, <2>1, <2>3, <2>6, <2>7, <2>8, <2>9, <2>10, TokenStep
<1>9. QED
  BY <1>1, <1>6, <1>7, <1>8
-----------------------------------------------------------------------------
(* The theorems about RingResources.                                       *)

\* A message that another node awaits: the second frame of the stack is, or
\* has sent, that message.
LEMMA SecondAwaited ==
  ASSUME RRInv, NEW t \in Task, ~Idle(t), Top(t).pc = "deliver", Awaited(t)
  PROVE  2 \in 1 .. Len(calls[t]) /\ Len(calls[t][2].path) >= 2
<1> DEFINE s == calls[t]
           n == Len(s)
<1>1. /\ s \in Seq(NodeFrame) /\ n \in Nat /\ n >= 1 /\ n \in 1 .. n
      /\ Top(t) = s[n] /\ StackForm(s) /\ s[n] \in NodeFrame
  BY TopAgain DEF RRInv, Ready, Forms
<1>2. \E i \in 1 .. n : Len(s[i].path) > 1
  BY <1>1 DEF Awaited
<1>3. s[n].pc = "deliver"
  BY <1>1
<1>4. \A i \in 1 .. n : Len(s[i].path) \in Nat
  BY <1>1, NodeFrameSet, FrameIs
<1> SUFFICES 2 \in 1 .. n /\ Len(s[2].path) >= 2
  OBVIOUS
<1> HIDE DEF s, n
<1>5. n = Len(s)
  BY DEF n
<1>6. s[n].fn \in {"ownerQuery", "acquire", "release", "granted"}
  <2>1. s[n].fn \in MessageFns
    BY <1>1, <1>3, <1>5, FormAt DEF FrameForm, MessagePcs
  <2>2. s[n].fn \notin {"query", "request", "grant"}
    BY <1>1 DEF NodeFrame, RingFrame, ResourceFrame
  <2>3. QED
    BY <2>1, <2>2 DEF MessageFns
<1>7. n - 1 \in 1 .. n /\ CallsOf(s[n - 1], s[n]) /\ n - 1 < n
  <2>1. s[n].fn \notin FirstFns
    BY <1>6 DEF FirstFns, RequestFns
  <2>2. n - 1 \in 1 .. n /\ CallsOf(s[n - 1], s[n])
    BY <1>1, <1>5, <2>1, FormAt
  <2>3. QED
    BY <1>1, <2>2
<1>8. CASE s[n].fn = "granted"
  <2> DEFINE m == n - 1
  <2>1. m \in 1 .. n /\ s[m].fn = "release" /\ s[m].pc = "done"
    BY <1>7, <1>8 DEF CallsOf
  <2>2. FrameForm(s[m])
    BY <1>1, <1>5, <2>1, FormAt
  <2>3. Len(s[m].path) >= 2
    BY <2>1, <2>2 DEF FrameForm, MessageFns
  <2>4. m - 1 \in 1 .. n /\ CallsOf(s[m - 1], s[m])
    <3> HIDE DEF m
    <3>1. s[m].fn \notin FirstFns
      BY <2>1 DEF FirstFns, RequestFns
    <3>2. QED
      BY <1>1, <1>5, <2>1, <3>1, FormAt
  <2> DEFINE l == m - 1
  <2>5. l \in 1 .. n /\ s[l].fn = "releaseResource"
    BY <2>1, <2>4 DEF CallsOf
  <2>6. l = 1
    <3> HIDE DEF l
    <3>1. s[l].fn \in FirstFns
      BY <2>5 DEF FirstFns, RequestFns
    <3>2. QED
      BY <1>1, <1>5, <2>5, <3>1, FormAt
  <2>7. m = 2
    BY <1>1, <2>6
  <2>8. QED
    BY <2>1, <2>3, <2>7
<1>9. CASE s[n].fn # "granted"
  <2> DEFINE m == n - 1
  <2>1. m \in 1 .. n /\ s[m].fn \in RequestFns
    BY <1>6, <1>7, <1>9 DEF CallsOf, RequestFns
  <2>2. m = 1
    <3> HIDE DEF m
    <3>1. s[m].fn \in FirstFns \ {"setActive"}
      BY <2>1 DEF FirstFns, RequestFns
    <3>2. QED
      BY <1>1, <1>5, <2>1, <3>1, FormAt
  <2>3. n = 2
    BY <1>1, <2>2
  <2>4. Len(s[1].path) = 1
    <3>1. 1 \in 1 .. n /\ s[1].fn \in RequestFns
      BY <2>1, <2>2
    <3>2. FrameForm(s[1])
      BY <1>1, <1>5, <3>1, FormAt
    <3>3. QED
      BY <3>1, <3>2 DEF FrameForm, RequestFns, MessageFns
  <2>5. PICK i \in 1 .. n : Len(s[i].path) > 1
    BY <1>2
  <2>6. i = 1 \/ i = 2
    BY <2>3
  <2>7. i = 2
    <3>1. ASSUME i = 1 PROVE FALSE
      <4>1. Len(s[1].path) > 1
        BY <2>5, <3>1, Zenon
      <4>2. QED
        BY <2>4, <4>1
    <3>2. QED
      BY <2>6, <3>1
  <2>8. 2 \in 1 .. n /\ Len(s[2].path) \in Nat /\ Len(s[2].path) > 1
    BY <1>4, <2>5, <2>7
  <2>9. QED
    BY <2>8
<1>10. QED
  BY <1>8, <1>9

LEMMA MessageUnansweredKeeps ==
  ASSUME RRInv, NEW t \in Task, MessageUnanswered(t)
  PROVE  RRInv'
<1>1. /\ ~Idle(t) /\ Top(t).pc = "deliver" /\ Awaited(t) /\ GiveUp(t, 2)
      /\ UNCHANGED resourceVars
  BY DEF MessageUnanswered, Overdue
<1>2. UNCHANGED << alive >>
  BY <1>1 DEF GiveUp
<1>3. 2 \in 1 .. Len(calls[t]) /\ Len(calls[t][2].path) >= 2
  BY <1>1, SecondAwaited
<1>4. Kept(NodeFrame, t) /\ NodesOK'
  <2>1. FrameSet(NodeFrame) /\ Ready(NodeFrame)
    BY NodeFrameSet DEF RRInv
  <2>2. QED
    BY <1>1, <1>2, <1>3, <2>1, GiveUpKeeps
<1>5. QED
  BY <1>1, <1>4, KeptInv

LEMMA RingPartKeeps ==
  ASSUME RRInv, NEW t \in Task, RingPart(t)
  PROVE  RRInv'
<1>1. FrameSet(NodeFrame) /\ Ready(NodeFrame) /\ UNCHANGED resourceVars
  BY NodeFrameSet DEF RRInv, RingPart
<1>2. Kept(NodeFrame, t) /\ NodesOK'
  BY <1>1, TellNeighborKeeps, CallJoiningKeeps, EnterJoiningKeeps,
     RepairBeforeJoinKeeps, CopyNeighborsKeeps, InsertNextKeeps,
     InstallNeighborsKeeps, EnterMissingKeeps, ForgetMissingKeeps, UnlinkKeeps,
     RelinkKeeps, LinkedKeeps, PassMissingKeeps, RepairUnansweredKeeps, CopyNextKeeps, SendMessageKeeps,
     RepairAfterFailureKeeps
  DEF RingPart
<1>3. QED
  BY <1>1, <1>2, KeptInv

\* Requests on a ring in any state, whole or not, whose resources are free.
\* The ring that is formed is one such state.
AnyRing ==
  /\ calls = [t \in Task |-> << >>]
  /\ NodesOK
  /\ currentUser = [r \in Resource |-> NoNode]
  /\ requestQueue = [r \in Resource |-> << >>]
  /\ used = [n \in Node |-> {}]

AnyRingSpec == AnyRing /\ [][ReviveNext]_ringResourcesVars

LEMMA RRInvInit ==
  ASSUME AnyRing
  PROVE  RRInv
<1>1. \A t \in Task : Idle(t) /\ StackForm(calls[t])
  BY DEF AnyRing, Idle, StackForm
<1>2. calls \in [Task -> Seq(NodeFrame)]
  BY DEF AnyRing
<1>3. Ready(NodeFrame)
  BY <1>1, <1>2 DEF AnyRing, Ready, Forms
<1>4. RRTypes
  BY DEF AnyRing, RRTypes
<1>5. OneToken
  BY <1>1 DEF OneToken, Carries
<1>6. UserIsNoted
  BY DEF AnyRing, UserIsNoted
<1>7. QED
  BY <1>3, <1>4, <1>5, <1>6 DEF RRInv

LEMMA RRInvNext ==
  ASSUME RRInv, [ReviveNext]_ringResourcesVars
  PROVE  RRInv'
<1>1. ASSUME NEW t \in Task, NEW n \in Node, NEW r \in Resource,
             StartAcquire(t, n, r) \/ StartRelease(t, n, r)
      PROVE  RRInv'
  BY <1>1, StartKeeps
<1>2. ASSUME NEW t \in Task, RingResourcesStep(t)
      PROVE  RRInv'
  BY <1>2, FindOwnerKeeps, ReceiveOwnerQueryKeeps, RequestResourceKeeps,
     ReceiveAcquireKeeps, ReturnAnswerKeeps, UseResourceKeeps, EndKeeps,
     CheckUsedKeeps, RemoveUsedKeeps, ReceiveReleaseKeeps,
     ReceiveGrantedKeeps, EndLostMessageKeeps, MessageUnansweredKeeps, RingPartKeeps
  DEF RingResourcesStep
<1>3. ASSUME Ready(NodeFrame)', \A t \in Task : TokenFades(t),
             UNCHANGED resourceVars
      PROVE  RRInv'
  BY <1>3, TokensFade DEF RRInv
<1>4. FrameSet(NodeFrame) /\ Ready(NodeFrame)
  BY NodeFrameSet DEF RRInv
<1>5. ASSUME NEW n \in Node, Kill(n), UNCHANGED resourceVars
      PROVE  RRInv'
  BY <1>3, <1>4, <1>5, KillKeeps
<1>6. ASSUME NEW t \in Task, NEW n \in Node, Revive(t, n), UNCHANGED resourceVars
      PROVE  RRInv'
  BY <1>3, <1>4, <1>6, ReviveKeeps
<1>7. CASE UNCHANGED ringResourcesVars
  BY <1>7
  DEF ringResourcesVars, ringVars, resourceVars, RRInv, Ready, NodesOK, Forms,
      RRTypes, OneToken, Carries, Idle, Top, UserIsNoted
<1>8. QED
  BY <1>1, <1>2, <1>5, <1>6, <1>7 DEF ReviveNext, RingResourcesNext

LEMMA RRInvAlways == AnyRingSpec => []RRInv
<1>1. AnyRing => RRInv
  BY RRInvInit
<1>2. RRInv /\ [ReviveNext]_ringResourcesVars => RRInv'
  BY RRInvNext
<1>3. QED
  BY <1>1, <1>2, PTL DEF AnyRingSpec

\* The variables have their types.
THEOREM RingResourcesTypes == AnyRingSpec => []RingResourcesTypeOK
<1>1. RRInv => RingResourcesTypeOK
  <2>1. NodeFrame \subseteq RingFrame \cup ResourceFrame
    BY DEF NodeFrame
  <2> HIDE DEF NodeFrame
  <2>2. Seq(NodeFrame) \subseteq Seq(RingFrame \cup ResourceFrame)
    BY <2>1, SeqMonotonic
  <2>3. QED
    BY <2>2 DEF RRInv, RRTypes, Ready, RingResourcesTypeOK
<1>2. QED
  BY <1>1, RRInvAlways, PTL

\* A node uses a resource only while its owner notes it as the user: however
\* many nodes stop, come back or are slow, in whatever state the ring is, and
\* however many requests are under way.
THEOREM UsersAreNoted == AnyRingSpec => []UserIsNoted
<1>1. RRInv => UserIsNoted
  BY DEF RRInv
<1>2. QED
  BY <1>1, RRInvAlways, PTL
=============================================================================
