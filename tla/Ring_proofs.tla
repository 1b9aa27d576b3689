----------------------------- MODULE Ring_proofs -----------------------------
(***************************************************************************)
(* Theorems about Ring: the neighbors of all nodes agree between requests, *)
(* a repair heals the ring and takes out nobody who runs, and Ring         *)
(* implements RingOrder, for rings of any size that form and change in any *)
(* way.  The first part, up to the types of Ring, is also what             *)
(* RingResources and RingWaits rest on, which take over its steps.         *)
(***************************************************************************)
EXTENDS Ring, Calls_proofs, FiniteSetTheorems, WellFoundedInduction

-----------------------------------------------------------------------------
(* What a stack of handlers looks like.                                    *)

\* The requests of RingResources, and the functions that they call.
RequestFns == {"acquireResource", "releaseResource"}
ResourceFns == RequestFns \cup {"ownerQuery", "acquire", "release", "granted"}

\* The messages that go round the ring: those of RingResources and of RingWaits,
\* and the query of Ring.
MessageFns ==
  {"ownerQuery", "acquire", "release", "granted", "request", "grant", "query"}
MessagePcs == {"send", "deliver", "receive", "failed", "repaired"}

\* What an operator asks for.  A node that is granted its last wait sets itself
\* active too.
FirstFns == RequestFns \cup {"join", "leave", "query", "wait", "setActive"}

\* A message that has reached another node is awaited by two nodes or more.
FrameForm(f) ==
  /\ f.fn \in MessageFns =>
       /\ Len(f.path) >= 1
       /\ f.pc \in {"receive", "granted", "queued", "done"} => Len(f.path) >= 2
  /\ f.fn \notin MessageFns => Len(f.path) = 1 /\ f.pc \notin MessagePcs
  /\ f.fn \in RequestFns => f.at = f.from

\* Frame g was called by frame f.
CallsOf(f, g) ==
  /\ g.fn \in FirstFns => g.fn = "setActive" /\ f.fn = "grant" /\ f.pc = "done"
  /\ g.fn \in {"ownerQuery", "acquire"} =>
       f.fn = "acquireResource" /\ g.from = f.from /\ g.r = f.r
  /\ g.fn = "release" => f.fn = "releaseResource"
  /\ g.fn = "granted" => f.fn = "release" /\ f.pc = "done"
  /\ g.fn = "joining" => f.fn = "join"
  /\ g.fn = "leaving" => f.fn = "leave"
  /\ g.fn = "request" => f.fn = "wait"
  /\ g.fn = "grant" => f.fn = "setActive"

Awaits(f) == f.pc \in {"await", "done", "repaired", "copy", "reply", "loop"}

StackForm(s) ==
  \A i \in 1 .. Len(s) :
    /\ FrameForm(s[i])
    /\ i = 1 => s[i].fn \in FirstFns
    /\ i > 1 => CallsOf(s[i - 1], s[i])
    /\ i < Len(s) => Awaits(s[i])

\* Frame g is a later step of the function of frame f.
SameMessage(f, g) ==
  /\ g.fn = f.fn
  /\ f.fn \in ResourceFns =>
       g.from = f.from /\ g.to = f.to /\ g.r = f.r

\* A stack that is cut back, its last frame going on.
LEMMA FormOfCut ==
  ASSUME NEW F, NEW s \in Seq(F), NEW q \in Seq(F), StackForm(s),
         NEW n, n = Len(q), n \in 1 .. Len(s),
         \A i \in 1 .. n - 1 : q[i] = s[i],
         SameMessage(s[n], q[n]), FrameForm(q[n])
  PROVE  StackForm(q)
<1>1. n \in Nat /\ n >= 1 /\ Len(s) \in Nat /\ n <= Len(s)
  OBVIOUS
<1> SUFFICES ASSUME NEW i \in 1 .. n
             PROVE  /\ FrameForm(q[i])
                    /\ i = 1 => q[i].fn \in FirstFns
                    /\ i > 1 => CallsOf(q[i - 1], q[i])
                    /\ i < n => Awaits(q[i])
  BY DEF StackForm
<1>2. i \in 1 .. Len(s)
  BY <1>1
<1>3. /\ FrameForm(s[i])
      /\ i = 1 => s[i].fn \in FirstFns
      /\ i > 1 => CallsOf(s[i - 1], s[i])
      /\ i < Len(s) => Awaits(s[i])
  BY <1>2 DEF StackForm
<1>4. CASE i # n
  <2>1. i \in 1 .. n - 1 /\ (i > 1 => i - 1 \in 1 .. n - 1) /\ i < Len(s)
    BY <1>1, <1>4
  <2>2. q[i] = s[i] /\ (i > 1 => q[i - 1] = s[i - 1])
    BY <2>1
  <2>3. QED
    BY <1>3, <2>1, <2>2
<1>5. CASE i = n
  <2>1. i > 1 => i - 1 \in 1 .. n - 1
    BY <1>1, <1>5
  <2>2. i > 1 => q[i - 1] = s[i - 1]
    BY <2>1
  <2>3. i = 1 => q[i].fn \in FirstFns
    BY <1>3, <1>5 DEF SameMessage
  <2>4. ASSUME i > 1 PROVE CallsOf(q[i - 1], q[i])
    <3>1. CallsOf(s[i - 1], s[n]) /\ q[i - 1] = s[i - 1]
      BY <1>3, <1>5, <2>2, <2>4
    <3>2. CallsOf(s[i - 1], q[n])
      BY <3>1 DEF CallsOf, SameMessage, FirstFns, RequestFns, ResourceFns,
                   MessageFns
    <3>3. QED
      BY <1>5, <3>1, <3>2
  <2>5. ~(i < n)
    BY <1>1, <1>5
  <2>6. QED
    BY <1>5, <2>3, <2>4, <2>5
<1>6. QED
  BY <1>4, <1>5

\* A stack that is cut back between two frames.
LEMMA FormOfPrefix ==
  ASSUME NEW F, NEW s \in Seq(F), NEW q \in Seq(F), StackForm(s),
         Len(q) <= Len(s), \A i \in 1 .. Len(q) : q[i] = s[i]
  PROVE  StackForm(q)
<1>1. Len(q) \in Nat /\ Len(s) \in Nat
  OBVIOUS
<1> SUFFICES ASSUME NEW i \in 1 .. Len(q)
             PROVE  /\ FrameForm(q[i])
                    /\ i = 1 => q[i].fn \in FirstFns
                    /\ i > 1 => CallsOf(q[i - 1], q[i])
                    /\ i < Len(q) => Awaits(q[i])
  BY DEF StackForm
<1>2. i \in 1 .. Len(s) /\ (i > 1 => i - 1 \in 1 .. Len(q))
      /\ (i < Len(q) => i < Len(s))
  BY <1>1
<1>3. /\ FrameForm(s[i])
      /\ i = 1 => s[i].fn \in FirstFns
      /\ i > 1 => CallsOf(s[i - 1], s[i])
      /\ i < Len(s) => Awaits(s[i])
  BY <1>2 DEF StackForm
<1>4. q[i] = s[i] /\ (i > 1 => q[i - 1] = s[i - 1])
  BY <1>2
<1>5. QED
  BY <1>2, <1>3, <1>4

\* The executing frame becomes g and calls h.
LEMMA FormOfCall ==
  ASSUME NEW F, NEW s \in Seq(F), NEW q \in Seq(F), StackForm(s),
         NEW n, n = Len(s), n >= 1, Len(q) = n + 1,
         \A i \in 1 .. n - 1 : q[i] = s[i],
         SameMessage(s[n], q[n]), FrameForm(q[n]), Awaits(q[n]),
         FrameForm(q[n + 1]), CallsOf(q[n], q[n + 1])
  PROVE  StackForm(q)
<1> DEFINE p == SubSeq(q, 1, n)
<1>1. n \in Nat /\ n >= 1 /\ Len(q) = n + 1 /\ n <= Len(q)
  OBVIOUS
<1>2. p \in Seq(F) /\ Len(p) = n /\ \A i \in 1 .. n : p[i] = q[i]
  <2>1. \A i \in 1 .. n : q[i] \in F
    BY <1>1
  <2>2. p \in Seq(F) /\ Len(p) = (IF 1 <= n THEN n - 1 + 1 ELSE 0)
        /\ \A i \in 1 .. n - 1 + 1 : p[i] = q[1 + i - 1]
    BY <1>1, <2>1, SubSeqProperties
  <2> HIDE DEF p
  <2>3. QED
    BY <1>1, <2>2
<1> HIDE DEF p
<1>3. StackForm(p)
  <2>1. n \in 1 .. n /\ n \in 1 .. Len(s)
    BY <1>1
  <2>2. ASSUME NEW i \in 1 .. n - 1
        PROVE  p[i] = s[i]
    <3>1. i \in 1 .. n
      BY <1>1
    <3>2. QED
      BY <1>2, <3>1
  <2>3. SameMessage(s[n], p[n]) /\ FrameForm(p[n])
    BY <1>2, <2>1
  <2>4. QED
    BY <1>2, <2>1, <2>2, <2>3, FormOfCut
<1> SUFFICES ASSUME NEW i \in 1 .. n + 1
             PROVE  /\ FrameForm(q[i])
                    /\ i = 1 => q[i].fn \in FirstFns
                    /\ i > 1 => CallsOf(q[i - 1], q[i])
                    /\ i < n + 1 => Awaits(q[i])
  BY DEF StackForm
<1>4. CASE i = n + 1
  <2>1. i # 1 /\ i > 1 /\ ~(i < n + 1) /\ i - 1 = n
    BY <1>1, <1>4
  <2>2. QED
    BY <1>4, <2>1
<1>5. CASE i # n + 1
  <2>1. i \in 1 .. n /\ (i > 1 => i - 1 \in 1 .. n) /\ (i # n => i < n)
    BY <1>1, <1>5
  <2>2. /\ FrameForm(p[i])
        /\ i = 1 => p[i].fn \in FirstFns
        /\ i > 1 => CallsOf(p[i - 1], p[i])
        /\ i < n => Awaits(p[i])
    BY <1>2, <1>3, <2>1 DEF StackForm
  <2>3. p[i] = q[i] /\ (i > 1 => p[i - 1] = q[i - 1])
    BY <1>2, <2>1
  <2>4. QED
    BY <2>1, <2>2, <2>3
<1>6. QED
  BY <1>4, <1>5
-----------------------------------------------------------------------------
(* Frames.                                                                 *)

\* Frame g is frame f at step pc, at node a, awaited by the nodes on p.
Continues(F, f, g, pc, a, p) ==
  /\ g \in F /\ SameMessage(f, g)
  /\ g.pc = pc /\ g.at = a /\ g.path = p /\ g.fn = f.fn

Moved(f, pc) == [f EXCEPT !.pc = pc]
Copied(f, pc, o) == [f EXCEPT !.pc = pc, !.next = o]
Sent(f, a, pc, p) == [f EXCEPT !.at = a, !.pc = pc, !.path = p]
SentBack(f, a, pc, o, p) == [f EXCEPT !.pc = pc, !.at = a, !.next = o, !.path = p]

\* The nodes on q that handle the message are on p or in S.
OnPath(p, q, S) ==
  \A k \in 2 .. Len(q) : q[k] \in S \/ \E l \in 2 .. Len(p) : q[k] = p[l]

\* The frames of a module that takes over the steps of Ring: its own, whose
\* messages Ring sends on, and those of the handlers of Ring.
FrameSet(F) ==
  /\ \A f \in F : f.at \in Node /\ f.from \in Node /\ f.next \in Node
                 /\ f.path \in Seq(Node)
  /\ \A f \in RingFrame : f.fn # "query" /\ Len(f.path) = 1 => f \in F
  /\ \A f \in F, g \in RingFrame : g.fn = f.fn /\ g.path = f.path => g \in F
  /\ \A f \in F : f.fn \in {"join", "joining", "leave", "leaving", "missing",
                          "query"} => f \in RingFrame
  /\ \A f \in F : f.pc \in {"call", "install", "enter", "repair", "copy", "tell",
                          "alone", "forget", "unlink", "relink", "linked"}
                   => f \in RingFrame /\ f.fn \notin RequestFns
  /\ \A f \in F, pc \in MessagePcs, a, o \in Node, p \in Seq(Node) :
       /\ Continues(F, f, Moved(f, pc), pc, f.at, f.path)
       /\ Continues(F, f, Copied(f, pc, o), pc, f.at, f.path)
       /\ Reaches(f.at, a) /\ OnPath(f.path, p, {a}) =>
            Continues(F, f, Sent(f, a, pc, p), pc, a, p)
       /\ OnPath(f.path, p, {}) =>
            Continues(F, f, SentBack(f, a, pc, o, p), pc, a, p)

\* What is true of a frame of Ring that goes on.
LEMMA RingFrameContinues ==
  ASSUME NEW f \in RingFrame, NEW pc \in MessagePcs, NEW a \in Node,
         NEW o \in Node, NEW p \in Seq(Node)
  PROVE  /\ Continues(RingFrame, f, Moved(f, pc), pc, f.at, f.path)
         /\ Continues(RingFrame, f, Copied(f, pc, o), pc, f.at, f.path)
         /\ Continues(RingFrame, f, Sent(f, a, pc, p), pc, a, p)
         /\ Continues(RingFrame, f, SentBack(f, a, pc, o, p), pc, a, p)
<1>1. f.fn \notin ResourceFns
  BY DEF RingFrame, ResourceFns, RequestFns
<1>2. ASSUME NEW g, g.fn = f.fn
      PROVE  SameMessage(f, g)
  BY <1>1, <1>2 DEF SameMessage, ResourceFns, RequestFns
<1>3. LET g == Moved(f, pc)
      IN  /\ g \in RingFrame
          /\ g.pc = pc /\ g.at = f.at /\ g.path = f.path /\ g.fn = f.fn
  BY DEF RingFrame, MessagePcs, Moved
<1>4. LET g == Copied(f, pc, o)
      IN  /\ g \in RingFrame
          /\ g.pc = pc /\ g.at = f.at /\ g.path = f.path /\ g.fn = f.fn
  BY DEF RingFrame, MessagePcs, Copied
<1>5. LET g == Sent(f, a, pc, p)
      IN  /\ g \in RingFrame
          /\ g.pc = pc /\ g.at = a /\ g.path = p /\ g.fn = f.fn
  BY DEF RingFrame, MessagePcs, Sent
<1>6. LET g == SentBack(f, a, pc, o, p)
      IN  /\ g \in RingFrame
          /\ g.pc = pc /\ g.at = a /\ g.path = p /\ g.fn = f.fn
  BY DEF RingFrame, MessagePcs, SentBack
<1>7. QED
  BY <1>2, <1>3, <1>4, <1>5, <1>6 DEF Continues

LEMMA RingFrameSet == FrameSet(RingFrame)
<1>1. \A f \in RingFrame, pc \in MessagePcs, a, o \in Node, p \in Seq(Node) :
        /\ Continues(RingFrame, f, Moved(f, pc), pc, f.at, f.path)
        /\ Continues(RingFrame, f, Copied(f, pc, o), pc, f.at, f.path)
        /\ Continues(RingFrame, f, Sent(f, a, pc, p), pc, a, p)
        /\ Continues(RingFrame, f, SentBack(f, a, pc, o, p), pc, a, p)
  BY RingFrameContinues
<1>2. /\ \A f \in RingFrame : f.at \in Node /\ f.from \in Node /\ f.next \in Node
                            /\ f.path \in Seq(Node)
      /\ \A f \in RingFrame : f.fn \notin RequestFns
  BY DEF RingFrame, RequestFns
<1>3. QED
  BY <1>1, <1>2 DEF FrameSet

\* The frames of Ring without its query, with those of another module, which are
\* for messages alone, whose messages only nodes of A handle.
LEMMA FrameSetWith ==
  ASSUME NEW M, NEW A \in SUBSET Node, NEW F,
         F = {f \in {g \in RingFrame : g.fn # "query"} \cup M :
                \A k \in 2 .. Len(f.path) : f.path[k] \in A},
         \A n, o \in Node : Reaches(n, o) => o \in A,
         \A f \in M :
           /\ f.at \in Node /\ f.from \in Node /\ f.next \in Node
           /\ f.path \in Seq(Node)
           /\ f.fn \notin {"join", "joining", "leave", "leaving", "missing", "query"}
           /\ f.pc \notin {"call", "install", "enter", "repair", "copy", "tell",
                          "alone", "forget", "unlink", "relink", "linked"},
         \A f \in M, pc \in MessagePcs, a, o \in Node, p \in Seq(Node) :
           /\ Continues(M, f, Moved(f, pc), pc, f.at, f.path)
           /\ Continues(M, f, Copied(f, pc, o), pc, f.at, f.path)
           /\ Continues(M, f, Sent(f, a, pc, p), pc, a, p)
           /\ Continues(M, f, SentBack(f, a, pc, o, p), pc, a, p)
  PROVE  FrameSet(F)
<1> DEFINE On(p) == \A k \in 2 .. Len(p) : p[k] \in A
<1>1. /\ \A f \in RingFrame :
           /\ f.at \in Node /\ f.from \in Node /\ f.next \in Node
           /\ f.path \in Seq(Node) /\ f.fn \notin RequestFns
           /\ f.fn \in {"join", "joining", "leave", "leaving", "missing", "query"}
      /\ \A f \in F : f \in M \/ (f \in RingFrame /\ f.fn # "query")
      /\ \A f \in F : On(f.path)
      /\ \A f : (f \in M \/ (f \in RingFrame /\ f.fn # "query")) /\ On(f.path) => f \in F
  BY DEF RingFrame, RequestFns
<1>2. ASSUME NEW f \in F, NEW pc \in MessagePcs, NEW a \in Node, NEW o \in Node,
             NEW p \in Seq(Node)
      PROVE  /\ Continues(F, f, Moved(f, pc), pc, f.at, f.path)
             /\ Continues(F, f, Copied(f, pc, o), pc, f.at, f.path)
             /\ Reaches(f.at, a) /\ OnPath(f.path, p, {a}) =>
                  Continues(F, f, Sent(f, a, pc, p), pc, a, p)
             /\ OnPath(f.path, p, {}) =>
                  Continues(F, f, SentBack(f, a, pc, o, p), pc, a, p)
  <2> HIDE DEF On
  <2>1. ASSUME NEW g, NEW b, NEW r, On(r),
               \/ f \in M /\ Continues(M, f, g, pc, b, r)
               \/ f \in RingFrame /\ f.fn # "query" /\ Continues(RingFrame, f, g, pc, b, r)
        PROVE  Continues(F, f, g, pc, b, r)
    BY <1>1, <2>1 DEF Continues
  <2>2. /\ On(f.path)
        /\ Reaches(f.at, a) /\ OnPath(f.path, p, {a}) => On(p)
        /\ OnPath(f.path, p, {}) => On(p)
    <3>1. On(f.path) /\ f.at \in Node
      BY <1>1
    <3>2. ASSUME NEW S \in SUBSET A, OnPath(f.path, p, S)
          PROVE  On(p)
      BY <3>1, <3>2 DEF OnPath, On
    <3>3. Reaches(f.at, a) => {a} \in SUBSET A
      BY <3>1
    <3>4. QED
      BY <3>1, <3>2, <3>3
  <2>3. CASE f \in M
    BY <2>1, <2>2, <2>3
  <2>4. CASE f \in RingFrame /\ f.fn # "query"
    <3>1. /\ Continues(RingFrame, f, Moved(f, pc), pc, f.at, f.path)
          /\ Continues(RingFrame, f, Copied(f, pc, o), pc, f.at, f.path)
          /\ Continues(RingFrame, f, Sent(f, a, pc, p), pc, a, p)
          /\ Continues(RingFrame, f, SentBack(f, a, pc, o, p), pc, a, p)
      BY <2>4, RingFrameContinues
    <3>2. QED
      BY <2>1, <2>2, <2>4, <3>1
  <2>5. QED
    BY <1>1, <2>3, <2>4
<1>3. \A f \in RingFrame : f.fn # "query" /\ Len(f.path) = 1 => f \in F
  <2>1. \A f \in RingFrame : Len(f.path) = 1 => On(f.path)
    OBVIOUS
  <2> HIDE DEF On
  <2>2. QED
    BY <1>1, <2>1
<1> HIDE DEF On
<1>4. \A f \in F, g \in RingFrame : g.fn = f.fn /\ g.path = f.path => g \in F
  BY <1>1
<1>5. \A f \in F : f.fn \in {"join", "joining", "leave", "leaving", "missing",
                           "query"} => f \in RingFrame
  BY <1>1
<1>6. \A f \in F : f.pc \in {"call", "install", "enter", "repair", "copy", "tell",
                           "alone", "forget", "unlink", "relink", "linked"}
                    => f \in RingFrame /\ f.fn \notin RequestFns
  BY <1>1
<1>7. \A f \in F : f.at \in Node /\ f.from \in Node /\ f.next \in Node
                   /\ f.path \in Seq(Node)
  BY <1>1
<1>8. QED
  BY <1>2, <1>3, <1>4, <1>5, <1>6, <1>7 DEF FrameSet

LEMMA FrameIs ==
  ASSUME NEW F, FrameSet(F)
  PROVE  /\ \A f \in RingFrame : f.fn # "query" /\ Len(f.path) = 1 => f \in F
         /\ \A f \in F, g \in RingFrame :
              g.fn = f.fn /\ g.path = f.path => g \in F
         /\ \A f \in F : f.fn \in {"join", "joining", "leave", "leaving",
                                 "missing", "query"} => f \in RingFrame
         /\ \A f \in F : f.pc \in {"call", "install", "enter", "repair", "copy",
                                 "tell", "alone", "forget", "unlink", "relink", "linked"}
                          => f \in RingFrame /\ f.fn \notin RequestFns
         /\ \A f \in F : f.at \in Node /\ f.from \in Node /\ f.next \in Node
                        /\ f.path \in Seq(Node)
BY DEF FrameSet

\* The same message: its next step, with another next node, at another node.
LEMMA FrameContinues ==
  ASSUME NEW F, FrameSet(F), NEW f \in F, NEW pc \in MessagePcs,
         NEW a \in Node, NEW o \in Node, NEW p \in Seq(Node)
  PROVE  /\ Continues(F, f, Moved(f, pc), pc, f.at, f.path)
         /\ Continues(F, f, Copied(f, pc, o), pc, f.at, f.path)
         /\ Reaches(f.at, a) /\ OnPath(f.path, p, {a}) =>
              Continues(F, f, Sent(f, a, pc, p), pc, a, p)
         /\ OnPath(f.path, p, {}) =>
              Continues(F, f, SentBack(f, a, pc, o, p), pc, a, p)
BY Zenon DEF FrameSet

LEMMA StepIsFrame ==
  ASSUME NEW F, FrameSet(F), NEW f \in F, NEW pc \in MessagePcs
  PROVE  LET g == [f EXCEPT !.pc = pc] IN
           /\ g \in F /\ SameMessage(f, g)
           /\ g.pc = pc /\ g.at = f.at /\ g.path = f.path /\ g.fn = f.fn
<1>1. f.at \in Node /\ f.path \in Seq(Node)
  BY FrameIs
<1>2. Continues(F, f, Moved(f, pc), pc, f.at, f.path)
  BY <1>1, FrameContinues
<1>3. QED
  BY <1>2 DEF Continues, Moved

LEMMA CopiedIsFrame ==
  ASSUME NEW F, FrameSet(F), NEW f \in F, NEW pc \in MessagePcs, NEW o \in Node
  PROVE  LET g == Copied(f, pc, o) IN
           /\ g \in F /\ SameMessage(f, g)
           /\ g.pc = pc /\ g.at = f.at /\ g.path = f.path /\ g.fn = f.fn
<1>1. f.at \in Node /\ f.path \in Seq(Node)
  BY FrameIs
<1>2. Continues(F, f, Copied(f, pc, o), pc, f.at, f.path)
  BY <1>1, FrameContinues
<1>3. QED
  BY <1>2 DEF Continues

\* A message whose k-th sender has found that its call failed.
LEMMA FailedIsFrame ==
  ASSUME NEW F, FrameSet(F), NEW f \in F, f.fn \in MessageFns, NEW k \in Nat,
         k >= 1, k + 1 <= Len(f.path)
  PROVE  LET g == FailedAt(f, k) IN
           g \in F /\ SameMessage(f, g) /\ FrameForm(g) /\ g.pc = "failed"
<1> DEFINE p == SubSeq(f.path, 1, k)
           g == FailedAt(f, k)
           a == f.path[k]
           o == f.path[k + 1]
<1>1. f.path \in Seq(Node) /\ Len(f.path) \in Nat
  BY FrameIs
<1>2. /\ k \in 1 .. Len(f.path) /\ k + 1 \in 1 .. Len(f.path)
      /\ \A i \in 1 .. k : i \in 1 .. Len(f.path)
  BY <1>1
<1>3. a \in Node /\ o \in Node /\ \A i \in 1 .. k : f.path[i] \in Node
  BY <1>1, <1>2
<1>4. p \in Seq(Node) /\ Len(p) = k
  <2>1. p \in Seq(Node) /\ Len(p) = (IF 1 <= k THEN k - 1 + 1 ELSE 0)
    BY <1>1, <1>3, SubSeqProperties
  <2>2. QED
    BY <2>1
<1>5. g = SentBack(f, a, "failed", o, p)
  BY DEF FailedAt, SentBack
<1>a. OnPath(f.path, p, {})
  <2>1. \A l \in 2 .. k : l \in 2 .. Len(f.path) /\ p[l] = f.path[l]
    BY <1>1
  <2> HIDE DEF p
  <2>2. QED
    BY <1>4, <2>1 DEF OnPath
<1> HIDE DEF p, g, a, o
<1>6. "failed" \in MessagePcs
  BY DEF MessagePcs
<1>7. Continues(F, f, g, "failed", a, p)
  BY <1>3, <1>4, <1>5, <1>6, <1>a, FrameContinues
<1>8. /\ g \in F /\ SameMessage(f, g)
      /\ g.pc = "failed" /\ g.path = p /\ g.fn = f.fn
  BY <1>7 DEF Continues
<1>9. FrameForm(g)
  BY <1>4, <1>8 DEF FrameForm, RequestFns, MessageFns
<1>10. QED
  BY <1>8, <1>9 DEF g

\* A node that handles the message is added to those that await it.
LEMMA ExtendedPath ==
  ASSUME NEW p \in Seq(Node), Len(p) >= 1, NEW o \in Node
  PROVE  /\ Extended(p, o) \in Seq(Node) /\ Len(Extended(p, o)) >= 2
         /\ OnPath(p, Extended(p, o), {o})
<1>1. CASE \E i \in 2 .. Len(p) : p[i] = o
  BY <1>1 DEF Extended, OnPath
<1>2. CASE ~ \E i \in 2 .. Len(p) : p[i] = o
  <2>1. Extended(p, o) = Append(p, o)
    BY <1>2 DEF Extended
  <2>2. QED
    BY <2>1 DEF OnPath
<1>3. QED
  BY <1>1, <1>2

\* A new handler of Ring, and a field that is to be set.
LEMMA NewRingFrame ==
  ASSUME NEW F, FrameSet(F),
         NEW fn \in {"join", "joining", "leave", "leaving", "missing"},
         NEW pc \in {"call", "enter", "copy"}, NEW n \in Node, NEW o \in Node,
         NEW from \in Node
  PROVE  LET f == Frame(fn, pc, n, o, from) IN
           f \in F /\ f \in RingFrame /\ FrameForm(f) /\ f.fn = fn /\ f.pc = pc
<1> DEFINE f == Frame(fn, pc, n, o, from)
<1>1. << >> \in Seq(Setting) /\ << n >> \in Seq(Node) /\ Len(<< n >>) = 1
  OBVIOUS
<1>2. /\ f \in RingFrame /\ f.fn = fn /\ f.pc = pc /\ f.path = << n >>
  BY <1>1 DEF Frame, RingFrame
<1> HIDE DEF f
<1>3. FrameForm(f)
  BY <1>1, <1>2 DEF FrameForm, RequestFns, MessageFns, MessagePcs
<1>4. QED
  BY <1>2, <1>3, FrameIs DEF f

LEMMA SetIsSetting ==
  ASSUME NEW n \in Node, NEW who \in Node, NEW value \in Node,
         NEW field \in {"next", "nnext", "prev", "nnextOfPrev"}
  PROVE  Set(n, who, field, value) \in Setting
BY DEF Set, Setting
-----------------------------------------------------------------------------
(* Tokens of RingResources, of which the steps of Ring make none.           *)

\* Frame f carries the right to use f.r: the grant to a node, or what a node
\* has given back.
IsToken(f) ==
  \/ f.fn \in {"acquire", "acquireResource"} /\ f.pc = "granted"
  \/ f.fn \in {"release", "granted"} /\ f.pc \in {"send", "deliver", "receive"}

\* The node that the owner takes for the user.
Holder(f) == IF f.fn = "granted" THEN f.to ELSE f.from

\* No token comes into being: the one that t has after a step it had before.
TokenFades(t) ==
  ~Idle(t)' /\ IsToken(Top(t)') =>
    ~Idle(t) /\ IsToken(Top(t))
      /\ Top(t)'.r = Top(t).r /\ Holder(Top(t)') = Holder(Top(t))

Fades(f, g) ==
  IsToken(g) => IsToken(f) /\ g.r = f.r /\ Holder(g) = Holder(f)

\* A frame that awaits a reply is no token.
LEMMA AwaitsNoToken ==
  ASSUME NEW f, Awaits(f) \/ f.pc = "failed"
  PROVE  ~IsToken(f)
BY DEF Awaits, IsToken

\* What is true of a later step of a frame.
LEMMA SameFades ==
  ASSUME NEW f, NEW g, SameMessage(f, g), IsToken(g) => IsToken(f)
  PROVE  Fades(f, g)
BY DEF Fades, SameMessage, IsToken, Holder, ResourceFns, RequestFns

-----------------------------------------------------------------------------
(* Steps of the stack.                                                     *)

Forms == \A t \in Task : StackForm(calls[t])

\* What a step of t keeps of the stacks.
Formed(F, t) ==
  /\ calls' \in [Task -> Seq(F)]
  /\ StackForm(calls'[t])
  /\ \A u \in Task \ {t} : calls'[u] = calls[u]

Kept(F, t) == Formed(F, t) /\ TokenFades(t)

LEMMA TopAgain ==
  ASSUME NEW F, calls \in [Task -> Seq(F)], NEW t \in Task, ~Idle(t)
  PROVE  /\ calls[t] \in Seq(F) /\ Len(calls[t]) \in Nat /\ Len(calls[t]) >= 1
         /\ Len(calls[t]) \in 1 .. Len(calls[t])
         /\ Top(t) = calls[t][Len(calls[t])] /\ Top(t) \in F
<1>1. calls[t] \in Seq(F) /\ Len(calls[t]) \in Nat \ {0} /\ Top(t) \in F
  BY TopIsFrame
<1>2. QED
  BY <1>1 DEF Top

\* What the form of the stack says of the executing frame.
LEMMA TopForm ==
  ASSUME NEW F, calls \in [Task -> Seq(F)], Forms, NEW t \in Task, ~Idle(t)
  PROVE  /\ FrameForm(Top(t))
         /\ Top(t).fn \notin FirstFns => Len(calls[t]) > 1
         /\ Len(calls[t]) > 1 =>
              /\ CallsOf(Caller(t), Top(t)) /\ Awaits(Caller(t))
              /\ FrameForm(Caller(t)) /\ Caller(t) \in F
<1> DEFINE n == Len(calls[t])
<1>1. /\ calls[t] \in Seq(F) /\ n \in Nat /\ n >= 1 /\ n \in 1 .. n
      /\ Top(t) = calls[t][n] /\ StackForm(calls[t])
  BY TopAgain DEF Forms
<1>2. n > 1 => n - 1 \in 1 .. n /\ n - 1 < n
  BY <1>1
<1>3. /\ FrameForm(calls[t][n])
      /\ n = 1 => calls[t][n].fn \in FirstFns
      /\ n > 1 => CallsOf(calls[t][n - 1], calls[t][n])
  BY <1>1 DEF StackForm
<1>4. n > 1 => /\ FrameForm(calls[t][n - 1]) /\ Awaits(calls[t][n - 1])
               /\ calls[t][n - 1] \in F
  BY <1>1, <1>2 DEF StackForm
<1>5. Caller(t) = calls[t][n - 1]
  BY DEF Caller
<1> HIDE DEF n
<1>6. n = 1 \/ n > 1
  BY <1>1
<1>7. QED
  BY <1>1, <1>3, <1>4, <1>5, <1>6 DEF n

\* The frames of a request before frame i.
LEMMA FormAt ==
  ASSUME NEW s, StackForm(s), NEW n \in Nat, n = Len(s), NEW i \in 1 .. n
  PROVE  /\ FrameForm(s[i])
         /\ s[i].fn \in FirstFns \ {"setActive"} => i = 1
         /\ s[i].fn \notin FirstFns => i - 1 \in 1 .. n /\ CallsOf(s[i - 1], s[i])
         /\ i < n => Awaits(s[i])
<1>1. /\ FrameForm(s[i])
      /\ i = 1 => s[i].fn \in FirstFns
      /\ i > 1 => CallsOf(s[i - 1], s[i])
      /\ i < n => Awaits(s[i])
  BY DEF StackForm
<1>2. i = 1 \/ (i > 1 /\ i - 1 \in 1 .. n)
  OBVIOUS
<1>3. i > 1 => s[i].fn \notin FirstFns \ {"setActive"}
  BY <1>1 DEF CallsOf
<1>4. QED
  BY <1>1, <1>2, <1>3

LEMMA FormedByBegin ==
  ASSUME NEW F, calls \in [Task -> Seq(F)], NEW t \in Task, NEW f \in F,
         FrameForm(f), f.fn \in FirstFns, Begin(t, f)
  PROVE  Formed(F, t) /\ Top(t)' = f
<1>1. /\ calls' \in [Task -> Seq(F)]
      /\ calls'[t] = << f >>
      /\ \A u \in Task \ {t} : calls'[u] = calls[u]
  BY BeginEffect
<1>2. StackForm(<< f >>)
  BY DEF StackForm
<1>3. QED
  BY <1>1, <1>2 DEF Formed, Top

LEMMA FormedByGoto ==
  ASSUME NEW F, calls \in [Task -> Seq(F)], Forms, NEW t \in Task, ~Idle(t),
         NEW g \in F, SameMessage(Top(t), g), FrameForm(g), Goto(t, g)
  PROVE  Formed(F, t) /\ Top(t)' = g
<1> DEFINE n == Len(calls[t])
<1>1. /\ calls' \in [Task -> Seq(F)]
      /\ Len(calls'[t]) = n
      /\ \A i \in 1 .. n - 1 : calls'[t][i] = calls[t][i]
      /\ calls'[t][n] = g
      /\ \A u \in Task \ {t} : calls'[u] = calls[u]
  BY GotoEffect
<1>2. /\ calls[t] \in Seq(F) /\ calls'[t] \in Seq(F) /\ n \in 1 .. n
      /\ Top(t) = calls[t][n] /\ StackForm(calls[t])
  BY <1>1, TopAgain DEF Forms
<1>3. SameMessage(calls[t][n], calls'[t][n]) /\ FrameForm(calls'[t][n])
  BY <1>1, <1>2
<1> HIDE DEF n
<1>4. StackForm(calls'[t])
  BY <1>1, <1>2, <1>3, FormOfCut DEF n
<1>5. QED
  BY <1>1, <1>4 DEF Formed, Top

LEMMA FormedByCall ==
  ASSUME NEW F, calls \in [Task -> Seq(F)], Forms, NEW t \in Task, ~Idle(t),
         NEW g \in F, NEW h \in F, SameMessage(Top(t), g), FrameForm(g),
         Awaits(g), FrameForm(h), CallsOf(g, h), Call(t, g, h)
  PROVE  Formed(F, t) /\ Top(t)' = h
<1> DEFINE n == Len(calls[t])
<1>1. /\ calls' \in [Task -> Seq(F)]
      /\ Len(calls'[t]) = n + 1
      /\ \A i \in 1 .. n - 1 : calls'[t][i] = calls[t][i]
      /\ calls'[t][n] = g
      /\ calls'[t][n + 1] = h
      /\ \A u \in Task \ {t} : calls'[u] = calls[u]
  BY CallEffect
<1>2. /\ calls[t] \in Seq(F) /\ calls'[t] \in Seq(F) /\ n >= 1
      /\ Top(t) = calls[t][n] /\ StackForm(calls[t])
  BY <1>1, TopAgain DEF Forms
<1>3. SameMessage(calls[t][n], calls'[t][n]) /\ FrameForm(calls'[t][n])
      /\ Awaits(calls'[t][n]) /\ FrameForm(calls'[t][n + 1])
      /\ CallsOf(calls'[t][n], calls'[t][n + 1])
  BY <1>1, <1>2
<1> HIDE DEF n
<1>4. StackForm(calls'[t])
  BY <1>1, <1>2, <1>3, FormOfCall DEF n
<1>5. QED
  BY <1>1, <1>4 DEF Formed, Top

LEMMA FormedByReturnTo ==
  ASSUME NEW F, calls \in [Task -> Seq(F)], Forms, NEW t \in Task,
         Len(calls[t]) > 1, NEW g \in F, SameMessage(Caller(t), g),
         FrameForm(g), ReturnTo(t, g)
  PROVE  Formed(F, t) /\ Top(t)' = g
<1> DEFINE n == Len(calls[t])
<1>1. /\ calls' \in [Task -> Seq(F)]
      /\ Len(calls'[t]) = n - 1
      /\ \A i \in 1 .. n - 2 : calls'[t][i] = calls[t][i]
      /\ calls'[t][n - 1] = g
      /\ \A u \in Task \ {t} : calls'[u] = calls[u]
  BY ReturnToEffect
<1>2. /\ calls[t] \in Seq(F) /\ calls'[t] \in Seq(F) /\ n \in Nat /\ n > 1
      /\ Caller(t) = calls[t][n - 1] /\ StackForm(calls[t])
  BY <1>1 DEF Forms, Caller
<1>3. SameMessage(calls[t][n - 1], calls'[t][n - 1])
      /\ FrameForm(calls'[t][n - 1])
  BY <1>1, <1>2
<1>4. n - 1 \in 1 .. n /\ (n - 1) - 1 = n - 2
  BY <1>2
<1> HIDE DEF n
<1>5. StackForm(calls'[t])
  BY <1>1, <1>2, <1>3, <1>4, FormOfCut DEF n
<1>6. QED
  BY <1>1, <1>5 DEF Formed, Top

\* A frame to which a function returns awaited the return.
LEMMA KeptByReturn ==
  ASSUME NEW F, calls \in [Task -> Seq(F)], Forms, NEW t \in Task, ~Idle(t),
         Return(t)
  PROVE  Kept(F, t) /\ (~Idle(t)' => ~IsToken(Top(t)'))
<1> DEFINE n == Len(calls[t])
<1>1. /\ calls' \in [Task -> Seq(F)]
      /\ Len(calls'[t]) = n - 1
      /\ \A i \in 1 .. n - 1 : calls'[t][i] = calls[t][i]
      /\ \A u \in Task \ {t} : calls'[u] = calls[u]
  BY ReturnEffect
<1>2. /\ calls[t] \in Seq(F) /\ calls'[t] \in Seq(F) /\ n \in Nat /\ n >= 1
      /\ StackForm(calls[t])
  BY <1>1, TopAgain DEF Forms
<1>3. n - 1 <= n
  BY <1>2
<1>4. StackForm(calls'[t])
  BY <1>1, <1>2, <1>3, FormOfPrefix
<1>5. ASSUME ~Idle(t)'
      PROVE  ~IsToken(Top(t)')
  <2>1. calls'[t] # << >> /\ Top(t)' = calls'[t][n - 1]
    BY <1>1, <1>5 DEF Idle, Top
  <2>2. n - 1 # 0
    BY <1>1, <1>2, <2>1
  <2> HIDE DEF n
  <2>3. n - 1 \in 1 .. n - 1 /\ n - 1 \in 1 .. n /\ n - 1 < n
    BY <1>2, <2>2
  <2>4. Awaits(calls[t][n - 1])
    BY <1>2, <2>3 DEF StackForm, n
  <2>5. Awaits(Top(t)')
    BY <1>1, <2>1, <2>3, <2>4
  <2>6. QED
    BY <2>5, AwaitsNoToken
<1>6. QED
  BY <1>1, <1>4, <1>5 DEF Kept, Formed, TokenFades

\* The same for steps that bring no token.
LEMMA KeptByBegin ==
  ASSUME NEW F, calls \in [Task -> Seq(F)], NEW t \in Task, NEW f \in F,
         FrameForm(f), f.fn \in FirstFns, f.pc # "granted", f.fn # "granted",
         Begin(t, f)
  PROVE  Kept(F, t)
<1>1. Formed(F, t) /\ Top(t)' = f
  BY FormedByBegin
<1>2. ~IsToken(f)
  BY DEF IsToken, FirstFns, RequestFns
<1>3. QED
  BY <1>1, <1>2 DEF Kept, TokenFades

LEMMA KeptByGoto ==
  ASSUME NEW F, calls \in [Task -> Seq(F)], Forms, NEW t \in Task, ~Idle(t),
         NEW g \in F, SameMessage(Top(t), g), FrameForm(g), Goto(t, g),
         IsToken(g) => IsToken(Top(t))
  PROVE  Kept(F, t)
<1>1. Formed(F, t) /\ Top(t)' = g
  BY FormedByGoto
<1>2. Fades(Top(t), g)
  BY SameFades
<1>3. QED
  BY <1>1, <1>2 DEF Kept, TokenFades, Fades

LEMMA KeptByCall ==
  ASSUME NEW F, calls \in [Task -> Seq(F)], Forms, NEW t \in Task, ~Idle(t),
         NEW g \in F, NEW h \in F, SameMessage(Top(t), g), FrameForm(g),
         Awaits(g), FrameForm(h), CallsOf(g, h), Call(t, g, h), ~IsToken(h)
  PROVE  Kept(F, t)
<1>1. Formed(F, t) /\ Top(t)' = h
  BY FormedByCall
<1>2. QED
  BY <1>1 DEF Kept, TokenFades

LEMMA KeptByReturnTo ==
  ASSUME NEW F, calls \in [Task -> Seq(F)], Forms, NEW t \in Task, ~Idle(t),
         Len(calls[t]) > 1, NEW g \in F, SameMessage(Caller(t), g),
         FrameForm(g), ReturnTo(t, g), Fades(Top(t), g)
  PROVE  Kept(F, t)
<1>1. Formed(F, t) /\ Top(t)' = g
  BY FormedByReturnTo
<1>2. QED
  BY <1>1 DEF Kept, TokenFades, Fades

\* A request that ends, with all its calls.
LEMMA KeptByEnd ==
  ASSUME NEW F, calls \in [Task -> Seq(F)], NEW t \in Task,
         calls' = [calls EXCEPT ![t] = << >>]
  PROVE  Kept(F, t) /\ Idle(t)'
<1>1. /\ calls' \in [Task -> Seq(F)] /\ calls'[t] = << >>
      /\ \A u \in Task \ {t} : calls'[u] = calls[u]
  OBVIOUS
<1>2. StackForm(<< >>)
  BY DEF StackForm
<1>3. Idle(t)'
  BY <1>1 DEF Idle
<1>4. QED
  BY <1>1, <1>2, <1>3 DEF Kept, Formed, TokenFades

\* A request that fails.
LEMMA KeptByFail ==
  ASSUME NEW F, calls \in [Task -> Seq(F)], Forms, NEW t \in Task, ~Idle(t),
         Fail(t)
  PROVE  Kept(F, t) /\ UNCHANGED << info, clients >>
<1>1. CASE Return(t)
  BY <1>1, KeptByReturn DEF Fail
<1>2. CASE calls' = [calls EXCEPT ![t] = << >>]
  BY <1>2, KeptByEnd DEF Fail
<1>3. QED
  BY <1>1, <1>2 DEF Fail

-----------------------------------------------------------------------------
(* The steps of Ring.                                                      *)

\* Types of what the nodes keep.
NodesOK ==
  /\ info \in [Node -> [next : Node, nnext : Node, prev : Node]]
  /\ alive \in SUBSET Node
  /\ clients \in [Node -> [Node -> {"none", "open", "closed"}]]

\* A state in which a request takes a step.
Ready(F) == calls \in [Task -> Seq(F)] /\ NodesOK /\ Forms

LEMMA Connected ==
  ASSUME NodesOK, NEW n \in Node, NEW o \in Node, Connect(n, o)
  PROVE  clients' \in [Node -> [Node -> {"none", "open", "closed"}]]
BY DEF NodesOK, Connect

LEMMA Neighbors ==
  ASSUME NodesOK, NEW n \in Node
  PROVE  info[n].next \in Node /\ info[n].nnext \in Node /\ info[n].prev \in Node
BY DEF NodesOK

\* A frame that executes a step of Ring.
LEMMA RingTop ==
  ASSUME NEW F, FrameSet(F), Ready(F), NEW t \in Task, ~Idle(t)
  PROVE  /\ Top(t) \in F /\ FrameForm(Top(t))
         /\ Top(t).at \in Node /\ Top(t).next \in Node /\ Top(t).from \in Node
         /\ Top(t).path \in Seq(Node)
         /\ Top(t).fn \in {"join", "joining", "leave", "leaving", "missing",
                         "query"}
              => Top(t) \in RingFrame
         /\ Top(t).pc \in {"call", "install", "enter", "repair", "copy", "tell",
                         "alone", "forget", "unlink", "relink", "linked"}
              => Top(t) \in RingFrame
BY TopIsFrame, TopForm, FrameIs DEF Ready

\* A message is looked up and sent, or found to have failed.
LEMMA CopyNextKeeps ==
  ASSUME NEW F, FrameSet(F), Ready(F), NEW t \in Task, CopyNext(t)
  PROVE  Kept(F, t) /\ NodesOK'
<1> DEFINE f == Top(t)
           o == info[f.at].next
           g == [f EXCEPT !.pc = "deliver", !.next = o]
<1>1. ~Idle(t) /\ f.pc = "send" /\ Goto(t, g) /\ UNCHANGED << info, alive, clients >>
  BY DEF CopyNext
<1>2. f \in F /\ FrameForm(f) /\ o \in Node
  BY <1>1, RingTop, Neighbors DEF Ready
<1>a. g = Copied(f, "deliver", o) /\ "deliver" \in MessagePcs
  BY DEF MessagePcs, Copied
<1> HIDE DEF f, g, o
<1>3. /\ g \in F /\ SameMessage(f, g)
      /\ g.pc = "deliver" /\ g.at = f.at /\ g.path = f.path /\ g.fn = f.fn
  BY <1>2, <1>a, CopiedIsFrame
<1>4. FrameForm(g) /\ (IsToken(g) => IsToken(f))
  BY <1>1, <1>2, <1>3
  DEF FrameForm, IsToken, RequestFns, MessageFns, MessagePcs
<1>5. Kept(F, t)
  BY <1>1, <1>3, <1>4, KeptByGoto DEF Ready, f
<1>6. NodesOK'
  BY <1>1 DEF Ready, NodesOK
<1>7. QED
  BY <1>5, <1>6

LEMMA SendMessageKeeps ==
  ASSUME NEW F, FrameSet(F), Ready(F), NEW t \in Task, SendMessage(t)
  PROVE  Kept(F, t) /\ NodesOK'
<1> DEFINE f == Top(t)
           p == Extended(f.path, f.next)
           g == [f EXCEPT !.at = f.next, !.pc = "receive", !.path = p]
           h == [f EXCEPT !.pc = "failed"]
<1>1. /\ ~Idle(t) /\ f.pc = "deliver" /\ UNCHANGED << info, alive >>
      /\ \/ Goto(t, g) /\ Connect(f.at, f.next) /\ Reaches(f.at, f.next)
         \/ Goto(t, h) /\ UNCHANGED clients
  BY DEF SendMessage
<1>2. /\ f \in F /\ FrameForm(f) /\ f.path \in Seq(Node)
      /\ f.next \in Node /\ f.at \in Node
  BY <1>1, RingTop
<1>3. f.fn \in MessageFns /\ Len(f.path) >= 1
  BY <1>1, <1>2 DEF FrameForm, MessagePcs
<1>4. p \in Seq(Node) /\ Len(p) >= 2 /\ Len(p) >= 1 /\ OnPath(f.path, p, {f.next})
  <2>1. p \in Seq(Node) /\ Len(p) >= 2 /\ OnPath(f.path, p, {f.next})
    BY <1>2, <1>3, ExtendedPath
  <2> HIDE DEF p
  <2>2. QED
    BY <2>1
<1>a. g = Sent(f, f.next, "receive", p) /\ "receive" \in MessagePcs
  BY DEF MessagePcs, Sent
<1> HIDE DEF f, g, p
<1>5. Reaches(f.at, f.next) =>
        /\ g \in F /\ SameMessage(f, g)
        /\ g.pc = "receive" /\ g.at = f.next /\ g.path = p /\ g.fn = f.fn
  <2> HAVE Reaches(f.at, f.next)
  <2> DEFINE a == f.next
  <2>1. a \in Node /\ Reaches(f.at, a) /\ OnPath(f.path, p, {a})
    BY <1>2, <1>4
  <2>2. g = Sent(f, a, "receive", p) /\ "receive" \in MessagePcs
    BY <1>a
  <2> HIDE DEF a
  <2>3. /\ g \in F /\ SameMessage(f, g)
        /\ g.pc = "receive" /\ g.at = a /\ g.path = p /\ g.fn = f.fn
    <3>1. Continues(F, f, Sent(f, a, "receive", p), "receive", a, p)
      BY <1>2, <1>4, <2>1, <2>2, FrameContinues
    <3>2. QED
      BY <2>2, <3>1 DEF Continues
  <2>4. QED
    BY <2>3 DEF a
<1>6. /\ h \in F /\ SameMessage(f, h)
      /\ h.pc = "failed" /\ h.at = f.at /\ h.path = f.path /\ h.fn = f.fn
  BY <1>2, StepIsFrame DEF MessagePcs
<1> HIDE DEF h
<1>7. Reaches(f.at, f.next) => FrameForm(g) /\ (IsToken(g) => IsToken(f))
  BY <1>1, <1>3, <1>4, <1>5
  DEF FrameForm, IsToken, RequestFns, MessageFns, MessagePcs
<1>8. FrameForm(h) /\ (IsToken(h) => IsToken(f))
  BY <1>1, <1>3, <1>6
  DEF FrameForm, IsToken, RequestFns, MessageFns, MessagePcs
<1>9. Kept(F, t)
  <2>1. CASE Goto(t, g) /\ Reaches(f.at, f.next)
    BY <1>1, <1>5, <1>7, <2>1, KeptByGoto DEF Ready, f
  <2>2. CASE Goto(t, h)
    BY <1>1, <1>6, <1>8, <2>2, KeptByGoto DEF Ready, f
  <2>3. QED
    BY <1>1, <2>1, <2>2
<1>10. clients' \in [Node -> [Node -> {"none", "open", "closed"}]]
  BY <1>1, <1>2, Connected DEF Ready, NodesOK
<1>11. NodesOK'
  BY <1>1, <1>10 DEF Ready, NodesOK
<1>12. QED
  BY <1>9, <1>11

\* The repair that a node begins before it goes on with frame g.
LEMMA RepairKeeps ==
  ASSUME NEW F, FrameSet(F), Ready(F), NEW t \in Task, ~Idle(t),
         NEW g \in F, SameMessage(Top(t), g), FrameForm(g), Awaits(g),
         NEW o \in Node, RepairTopology(t, g, o), UNCHANGED << info, alive >>
  PROVE  Kept(F, t) /\ NodesOK'
<1> DEFINE h == Frame("missing", "enter", g.at, o, g.at)
<1>1. g.at \in Node
  BY FrameIs
<1>2. /\ h \in F /\ FrameForm(h) /\ h.fn = "missing" /\ h.pc = "enter"
  BY <1>1, NewRingFrame
<1>3. \/ Call(t, g, h) /\ Connect(g.at, g.at)
      \/ Goto(t, g) /\ UNCHANGED clients
      \/ calls' = [calls EXCEPT ![t] = << >>] /\ UNCHANGED clients
  BY DEF RepairTopology
<1> HIDE DEF h
<1>4. CallsOf(g, h) /\ ~IsToken(h) /\ ~IsToken(g)
  BY <1>2, AwaitsNoToken DEF CallsOf, IsToken, FirstFns, RequestFns
<1>5. Kept(F, t)
  <2>1. CASE Call(t, g, h)
    BY <1>2, <1>4, <2>1, KeptByCall DEF Ready
  <2>2. CASE Goto(t, g)
    BY <1>4, <2>2, KeptByGoto DEF Ready
  <2>3. CASE calls' = [calls EXCEPT ![t] = << >>]
    BY <2>3, KeptByEnd DEF Ready
  <2>4. QED
    BY <1>3, <2>1, <2>2, <2>3
<1>6. clients' \in [Node -> [Node -> {"none", "open", "closed"}]]
  BY <1>1, <1>3, Connected DEF Ready, NodesOK
<1>7. NodesOK'
  BY <1>6 DEF Ready, NodesOK
<1>8. QED
  BY <1>5, <1>7

LEMMA RepairAfterFailureKeeps ==
  ASSUME NEW F, FrameSet(F), Ready(F), NEW t \in Task, RepairAfterFailure(t)
  PROVE  Kept(F, t) /\ NodesOK'
<1> DEFINE f == Top(t)
           g == [f EXCEPT !.pc = "repaired"]
<1>1. /\ ~Idle(t) /\ f.pc = "failed" /\ RepairTopology(t, g, f.next)
      /\ UNCHANGED << info, alive >>
  BY DEF RepairAfterFailure
<1>2. f \in F /\ FrameForm(f) /\ f.next \in Node
  BY <1>1, RingTop
<1>3. /\ g \in F /\ SameMessage(f, g)
      /\ g.pc = "repaired" /\ g.at = f.at /\ g.path = f.path /\ g.fn = f.fn
  BY <1>2, StepIsFrame DEF MessagePcs
<1> HIDE DEF g
<1>4. FrameForm(g) /\ Awaits(g)
  BY <1>1, <1>2, <1>3
  DEF FrameForm, Awaits, RequestFns, MessageFns, MessagePcs
<1>5. QED
  BY <1>1, <1>2, <1>3, <1>4, RepairKeeps
-----------------------------------------------------------------------------
(* The steps of a join, a leave and a repair.                              *)

\* A step that goes on in the same function of Ring.
LEMMA RingFrameGoes ==
  ASSUME NEW F, FrameSet(F), Ready(F), NEW t \in Task, ~Idle(t),
         Top(t) \in RingFrame, NEW g \in RingFrame, g.fn = Top(t).fn,
         g.path = Top(t).path, g.pc \notin MessagePcs
  PROVE  /\ SameMessage(Top(t), g) /\ FrameForm(g) /\ g \in F
         /\ Goto(t, g) => Kept(F, t)
<1> DEFINE f == Top(t)
<1>1. FrameForm(f) /\ g \in F
  BY RingTop, FrameIs
<1>2. /\ f.fn \in {"join", "joining", "leave", "leaving", "missing", "query"}
      /\ g.pc \notin {"receive", "granted", "queued", "done"}
  BY DEF RingFrame, MessagePcs
<1> HIDE DEF f
<1>3. g.fn = f.fn /\ g.path = f.path
  BY DEF f
<1>4. FrameForm(g)
  BY <1>1, <1>2, <1>3 DEF FrameForm, RequestFns
<1>5. SameMessage(f, g)
  BY <1>2, <1>3 DEF SameMessage, ResourceFns, RequestFns, MessageFns
<1>6. ~IsToken(g)
  BY <1>2, <1>3 DEF IsToken
<1>7. Goto(t, g) => Kept(F, t)
  BY <1>1, <1>4, <1>5, <1>6, KeptByGoto DEF Ready, f
<1>8. QED
  BY <1>1, <1>4, <1>5, <1>7 DEF f

\* A call of another function of Ring.
LEMMA RingFrameCalls ==
  ASSUME NEW F, FrameSet(F), Ready(F), NEW t \in Task, ~Idle(t),
         Top(t) \in RingFrame, NEW g \in RingFrame, g.fn = Top(t).fn,
         g.path = Top(t).path, g.pc \in {"await", "copy"},
         NEW h \in RingFrame, FrameForm(h), CallsOf(g, h), Call(t, g, h)
  PROVE  Kept(F, t)
<1>1. g.pc \notin MessagePcs /\ Awaits(g)
  BY DEF MessagePcs, Awaits
<1>2. /\ SameMessage(Top(t), g) /\ FrameForm(g) /\ g \in F
  BY <1>1, RingFrameGoes
<1>a. /\ h.fn \in {"joining", "leaving", "missing"}
      /\ Len(h.path) = 1
  <2>1. h.fn \in {"joining", "leaving", "missing"}
    BY DEF RingFrame, CallsOf, FirstFns
  <2>2. QED
    BY <2>1 DEF FrameForm, MessageFns
<1>3. h \in F /\ ~IsToken(h)
  BY <1>a, FrameIs DEF IsToken
<1>4. QED
  BY <1>1, <1>2, <1>3, KeptByCall DEF Ready

\* A connection that is forgotten.
LEMMA Disconnected ==
  ASSUME NodesOK, NEW n \in Node, NEW o \in Node,
         clients' = [clients EXCEPT ![n][o] = "none"]
  PROVE  clients' \in [Node -> [Node -> {"none", "open", "closed"}]]
BY DEF NodesOK

\* A field of a node that is set.
LEMMA FieldSet ==
  ASSUME NodesOK, NEW n \in Node, NEW v \in Node,
         NEW field \in {"next", "nnext", "prev"},
         info' = [info EXCEPT ![n][field] = v]
  PROVE  info' \in [Node -> [next : Node, nnext : Node, prev : Node]]
<1>1. info \in [Node -> [next : Node, nnext : Node, prev : Node]]
  BY DEF NodesOK
<1> DEFINE i == [info[n] EXCEPT ![field] = v]
<1>2. info[n] \in [next : Node, nnext : Node, prev : Node]
  BY <1>1
<1>3. i \in [next : Node, nnext : Node, prev : Node]
  <2>1. CASE field = "next"
    BY <1>2, <2>1
  <2>2. CASE field = "nnext"
    BY <1>2, <2>2
  <2>3. CASE field = "prev"
    BY <1>2, <2>3
  <2>4. QED
    BY <2>1, <2>2, <2>3
<1>4. info' = [info EXCEPT ![n] = i]
  OBVIOUS
<1> HIDE DEF i
<1>5. QED
  BY <1>1, <1>3, <1>4

LEMMA TellNeighborKeeps ==
  ASSUME NEW F, FrameSet(F), Ready(F), NEW t \in Task, TellNeighbor(t)
  PROVE  Kept(F, t) /\ NodesOK'
<1> DEFINE f == Top(t)
           s == Head(f.todo)
           rest == Tail(f.todo)
           g == [f EXCEPT !.todo = rest]
           other == << Set(s.who, info[s.who].prev, "nnext", s.value) >> \o rest
           h == [f EXCEPT !.todo = other]
<1>1. ~Idle(t) /\ f.pc = "tell" /\ f.todo # << >> /\ UNCHANGED alive
  BY DEF TellNeighbor
<1>2. f \in RingFrame
  BY <1>1, RingTop
<1>3. f.todo \in Seq(Setting)
  BY <1>2 DEF RingFrame
<1>4. s \in Setting /\ rest \in Seq(Setting)
  BY <1>1, <1>3
<1>5. s.by \in Node /\ s.who \in Node /\ s.value \in Node
      /\ s.field \in {"next", "nnext", "prev", "nnextOfPrev"}
  BY <1>4 DEF Setting
<1>6. other \in Seq(Setting)
  <2>1. info[s.who].prev \in Node
    BY <1>5, Neighbors DEF Ready
  <2> DEFINE e == Set(s.who, info[s.who].prev, "nnext", s.value)
  <2>2. e \in Setting
    BY <1>5, <2>1, SetIsSetting
  <2> HIDE DEF e
  <2>3. << e >> \o rest \in Seq(Setting)
    <3> HIDE DEF rest
    <3>1. QED
      BY <1>4, <2>2
  <2>4. QED
    BY <2>3 DEF e
<1>7. \/ Fail(t)
      \/ /\ Connect(s.by, s.who)
         /\ \/ Goto(t, h) /\ UNCHANGED info
            \/ /\ s.field # "nnextOfPrev" /\ Goto(t, g)
               /\ info' = [info EXCEPT ![s.who][s.field] = s.value]
  BY DEF TellNeighbor
<1> HIDE DEF s, rest, other
<1>8. g \in RingFrame /\ g.fn = f.fn /\ g.path = f.path /\ g.pc = "tell"
  BY <1>1, <1>2, <1>4 DEF RingFrame
<1>9. h \in RingFrame /\ h.fn = f.fn /\ h.path = f.path /\ h.pc = "tell"
  BY <1>1, <1>2, <1>6 DEF RingFrame
<1>10. CASE Fail(t)
  BY <1>1, <1>10, KeptByFail DEF Ready, NodesOK
<1>11. CASE /\ Connect(s.by, s.who)
            /\ \/ Goto(t, h) /\ UNCHANGED info
               \/ /\ s.field # "nnextOfPrev" /\ Goto(t, g)
                  /\ info' = [info EXCEPT ![s.who][s.field] = s.value]
  <2>1. clients' \in [Node -> [Node -> {"none", "open", "closed"}]]
    BY <1>5, <1>11, Connected DEF Ready
  <2>2. info' \in [Node -> [next : Node, nnext : Node, prev : Node]]
    <3>1. CASE UNCHANGED info
      BY <3>1 DEF Ready, NodesOK
    <3>2. CASE /\ s.field # "nnextOfPrev"
               /\ info' = [info EXCEPT ![s.who][s.field] = s.value]
      BY <1>5, <3>2, FieldSet DEF Ready
    <3>3. QED
      BY <1>11, <3>1, <3>2
  <2>3. NodesOK'
    BY <1>1, <2>1, <2>2 DEF Ready, NodesOK
  <2> HIDE DEF g, h
  <2>4. Goto(t, g) \/ Goto(t, h)
    BY <1>11
  <2>5. Kept(F, t)
    BY <1>1, <1>2, <1>8, <1>9, <2>4, RingFrameGoes DEF MessagePcs
  <2>6. QED
    BY <2>3, <2>5
<1>12. QED
  BY <1>7, <1>10, <1>11

\* other_joining and try_join_other.
LEMMA CallJoiningKeeps ==
  ASSUME NEW F, FrameSet(F), Ready(F), NEW t \in Task, CallJoining(t)
  PROVE  Kept(F, t) /\ NodesOK'
<1> DEFINE f == Top(t)
           g == [f EXCEPT !.pc = "await"]
           h == Frame("joining", "enter", f.arg, f.at, f.at)
<1>1. /\ ~Idle(t) /\ f.fn = "join" /\ UNCHANGED << info, alive >>
      /\ \/ Connect(f.at, f.arg) /\ Call(t, g, h)
         \/ Return(t) /\ UNCHANGED clients
  BY DEF CallJoining, At
<1>2. f \in RingFrame
  BY <1>1, RingTop
<1>3. f.at \in Node /\ f.arg \in Node
  BY <1>2 DEF RingFrame
<1>4. h \in RingFrame /\ FrameForm(h) /\ h.fn = "joining"
  BY <1>3, NewRingFrame
<1>5. g \in RingFrame /\ g.fn = f.fn /\ g.path = f.path /\ g.pc = "await"
  BY <1>2 DEF RingFrame
<1> HIDE DEF g, h
<1>6. CallsOf(g, h)
  BY <1>1, <1>4, <1>5 DEF CallsOf, FirstFns, RequestFns
<1>7. Kept(F, t)
  <2>1. CASE Call(t, g, h)
    BY <1>1, <1>2, <1>4, <1>5, <1>6, <2>1, RingFrameCalls
  <2>2. CASE Return(t)
    BY <1>1, <2>2, KeptByReturn DEF Ready
  <2>3. QED
    BY <1>1, <2>1, <2>2
<1>8. clients' \in [Node -> [Node -> {"none", "open", "closed"}]]
  BY <1>1, <1>3, Connected DEF Ready, NodesOK
<1>9. NodesOK'
  BY <1>1, <1>8 DEF Ready, NodesOK
<1>10. QED
  BY <1>7, <1>9

LEMMA EnterJoiningKeeps ==
  ASSUME NEW F, FrameSet(F), Ready(F), NEW t \in Task, EnterJoining(t)
  PROVE  Kept(F, t) /\ NodesOK'
<1> DEFINE f == Top(t)
           g == [f EXCEPT !.pc = "repair"]
           h == [f EXCEPT !.pc = "copy"]
<1>1. /\ ~Idle(t) /\ f.fn = "joining" /\ UNCHANGED << info, alive >>
      /\ \/ Goto(t, g) /\ clients' = [clients EXCEPT ![f.at][f.arg] = "none"]
         \/ Goto(t, h) /\ UNCHANGED clients
  BY DEF EnterJoining, At
<1>2. f \in RingFrame
  BY <1>1, RingTop
<1>3. f.at \in Node /\ f.arg \in Node
  BY <1>2 DEF RingFrame
<1>4. g \in RingFrame /\ g.fn = f.fn /\ g.path = f.path /\ g.pc = "repair"
  BY <1>2 DEF RingFrame
<1>5. h \in RingFrame /\ h.fn = f.fn /\ h.path = f.path /\ h.pc = "copy"
  BY <1>2 DEF RingFrame
<1> HIDE DEF g, h
<1>6. Kept(F, t)
  BY <1>1, <1>2, <1>4, <1>5, RingFrameGoes DEF MessagePcs
<1>7. clients' \in [Node -> [Node -> {"none", "open", "closed"}]]
  BY <1>1, <1>3, Disconnected DEF Ready, NodesOK
<1>8. NodesOK'
  BY <1>1, <1>7 DEF Ready, NodesOK
<1>9. QED
  BY <1>6, <1>8

LEMMA RepairBeforeJoinKeeps ==
  ASSUME NEW F, FrameSet(F), Ready(F), NEW t \in Task, RepairBeforeJoin(t)
  PROVE  Kept(F, t) /\ NodesOK'
<1> DEFINE f == Top(t)
           g == [f EXCEPT !.pc = "copy"]
<1>1. /\ ~Idle(t) /\ f.fn = "joining" /\ UNCHANGED << info, alive >>
      /\ RepairTopology(t, g, f.arg)
  BY DEF RepairBeforeJoin, At
<1>2. f \in RingFrame
  BY <1>1, RingTop
<1>3. f.arg \in Node
  BY <1>2 DEF RingFrame
<1>4. g \in RingFrame /\ g.fn = f.fn /\ g.path = f.path /\ g.pc = "copy"
  BY <1>2 DEF RingFrame
<1> HIDE DEF g
<1>5. SameMessage(f, g) /\ FrameForm(g) /\ g \in F /\ Awaits(g)
  BY <1>1, <1>2, <1>4, RingFrameGoes DEF MessagePcs, Awaits
<1>6. QED
  BY <1>1, <1>3, <1>5, RepairKeeps

LEMMA CopyNeighborsKeeps ==
  ASSUME NEW F, FrameSet(F), Ready(F), NEW t \in Task, CopyNeighbors(t)
  PROVE  Kept(F, t) /\ NodesOK'
<1> DEFINE f == Top(t)
           i == info[f.at]
           todo == << Set(f.at, i.next, "prev", f.arg),
                      Set(f.at, i.prev, "nnext", f.arg) >>
           g == [f EXCEPT !.pc = "tell", !.next = i.next, !.todo = todo]
<1>1. /\ ~Idle(t) /\ f.fn = "joining" /\ UNCHANGED << info, alive, clients >>
      /\ Goto(t, g)
  BY DEF CopyNeighbors, At
<1>2. f \in RingFrame
  BY <1>1, RingTop
<1>3. f.at \in Node /\ f.arg \in Node
  BY <1>2 DEF RingFrame
<1>4. i.next \in Node /\ i.prev \in Node
  BY <1>3, Neighbors DEF Ready
<1>5. todo \in Seq(Setting)
  <2> DEFINE a == Set(f.at, i.next, "prev", f.arg)
             b == Set(f.at, i.prev, "nnext", f.arg)
  <2>1. a \in Setting /\ b \in Setting
    BY <1>3, <1>4, SetIsSetting
  <2> HIDE DEF a, b
  <2>2. << a, b >> \in Seq(Setting)
    BY <2>1
  <2>3. QED
    BY <2>2 DEF a, b
<1> HIDE DEF todo, i
<1>6. g \in RingFrame /\ g.fn = f.fn /\ g.path = f.path /\ g.pc = "tell"
  BY <1>2, <1>4, <1>5 DEF RingFrame
<1> HIDE DEF g
<1>7. Kept(F, t)
  BY <1>1, <1>2, <1>6, RingFrameGoes DEF MessagePcs
<1>8. NodesOK'
  BY <1>1 DEF Ready, NodesOK
<1>9. QED
  BY <1>7, <1>8

LEMMA InsertNextKeeps ==
  ASSUME NEW F, FrameSet(F), Ready(F), NEW t \in Task, InsertNext(t)
  PROVE  Kept(F, t) /\ NodesOK'
<1> DEFINE f == Top(t)
           c == Caller(t)
           nnext == info[f.at].nnext
           g == [c EXCEPT !.pc = "install", !.next = f.next, !.nnext = nnext,
                          !.prev = f.at]
<1>1. /\ ~Idle(t) /\ f.fn = "joining" /\ UNCHANGED << alive, clients >>
      /\ info' = [info EXCEPT ![f.at].nnext = f.next, ![f.at].next = f.arg]
      /\ ReturnTo(t, g)
  BY DEF InsertNext, Told, At
<1>2. f \in RingFrame
  BY <1>1, RingTop
<1>3. f.at \in Node /\ f.arg \in Node /\ f.next \in Node
  BY <1>2 DEF RingFrame
<1>4. nnext \in Node
  BY <1>3, Neighbors DEF Ready
<1>5. /\ Len(calls[t]) > 1 /\ c.fn = "join" /\ FrameForm(c) /\ c \in F
  <2>1. f.fn \notin FirstFns
    BY <1>1 DEF FirstFns, RequestFns
  <2>2. QED
    BY <1>1, <2>1, TopForm DEF CallsOf, Ready
<1>6. c \in RingFrame
  BY <1>5, FrameIs
<1> HIDE DEF c, nnext
<1>7. g \in RingFrame /\ g.fn = c.fn /\ g.path = c.path /\ g.pc = "install"
  BY <1>3, <1>4, <1>6 DEF RingFrame
<1> HIDE DEF g
<1>8. /\ SameMessage(c, g) /\ FrameForm(g) /\ ~IsToken(g) /\ g \in F
  BY <1>5, <1>7, FrameIs
  DEF SameMessage, FrameForm, IsToken, ResourceFns, RequestFns, MessageFns, MessagePcs
<1>9. Kept(F, t)
  BY <1>1, <1>5, <1>8, KeptByReturnTo DEF Ready, Fades, c
<1>10. NodesOK'
  BY <1>1, <1>3 DEF Ready, NodesOK
<1>11. QED
  BY <1>9, <1>10

LEMMA InstallNeighborsKeeps ==
  ASSUME NEW F, FrameSet(F), Ready(F), NEW t \in Task, InstallNeighbors(t)
  PROVE  Kept(F, t) /\ NodesOK'
<1>1. /\ ~Idle(t) /\ Top(t).fn = "join" /\ Return(t)
      /\ UNCHANGED << alive, clients >>
      /\ info' = [info EXCEPT ![Top(t).at] =
                    [next |-> Top(t).next, nnext |-> Top(t).nnext,
                     prev |-> Top(t).prev]]
  BY DEF InstallNeighbors, At
<1>2. Top(t) \in RingFrame
  BY <1>1, RingTop
<1>3. NodesOK'
  BY <1>1, <1>2 DEF Ready, NodesOK, RingFrame
<1>4. QED
  BY <1>1, <1>3, KeptByReturn DEF Ready

\* leave and leave_topology.
LEMMA CallLeavingKeeps ==
  ASSUME NEW F, FrameSet(F), Ready(F), NEW t \in Task, CallLeaving(t)
  PROVE  Kept(F, t) /\ NodesOK'
<1> DEFINE f == Top(t)
           g == [f EXCEPT !.pc = "await"]
           h == Frame("leaving", "copy", f.at, f.at, f.at)
<1>1. /\ ~Idle(t) /\ f.fn = "leave" /\ UNCHANGED << info, alive >>
      /\ \/ Connect(f.at, f.at) /\ Call(t, g, h)
         \/ Return(t) /\ UNCHANGED clients
  BY DEF CallLeaving, At
<1>2. f \in RingFrame /\ f.at \in Node
  BY <1>1, RingTop
<1>3. h \in RingFrame /\ FrameForm(h) /\ h.fn = "leaving"
  BY <1>2, NewRingFrame
<1>4. g \in RingFrame /\ g.fn = f.fn /\ g.path = f.path /\ g.pc = "await"
  BY <1>2 DEF RingFrame
<1> HIDE DEF g, h
<1>5. CallsOf(g, h)
  BY <1>1, <1>3, <1>4 DEF CallsOf, FirstFns, RequestFns
<1>6. Kept(F, t)
  <2>1. CASE Call(t, g, h)
    BY <1>1, <1>2, <1>3, <1>4, <1>5, <2>1, RingFrameCalls
  <2>2. CASE Return(t)
    BY <1>1, <2>2, KeptByReturn DEF Ready
  <2>3. QED
    BY <1>1, <2>1, <2>2
<1>7. clients' \in [Node -> [Node -> {"none", "open", "closed"}]]
  BY <1>1, <1>2, Connected DEF Ready, NodesOK
<1>8. NodesOK'
  BY <1>1, <1>7 DEF Ready, NodesOK
<1>9. QED
  BY <1>6, <1>8

LEMMA LeaveSettingsAre ==
  ASSUME NodesOK, NEW n \in Node
  PROVE  LeaveSettings(n, info[n]) \in Seq(Setting)
<1> DEFINE i == info[n]
<1>1. i.next \in Node /\ i.nnext \in Node /\ i.prev \in Node
  BY Neighbors
<1> HIDE DEF i
<1>2. \A who, v \in Node :
        \A field \in {"next", "nnext", "prev", "nnextOfPrev"} :
          Set(n, who, field, v) \in Setting
  BY SetIsSetting
<1> DEFINE a == Set(n, i.next, "next", i.next)
           b == Set(n, i.next, "prev", i.next)
           c == Set(n, i.next, "prev", i.prev)
           d == Set(n, i.next, "nnext", i.next)
           e == Set(n, i.prev, "next", i.next)
           f == Set(n, i.prev, "nnext", i.nnext)
           g == Set(n, i.prev, "nnextOfPrev", i.next)
<1>3. /\ a \in Setting /\ b \in Setting /\ c \in Setting /\ d \in Setting
      /\ e \in Setting /\ f \in Setting /\ g \in Setting
  BY <1>1, <1>2
<1>4. \/ LeaveSettings(n, i) = << a, b >>
      \/ LeaveSettings(n, i) = << c, d, e, f >>
      \/ LeaveSettings(n, i) = << e, f, g, c >>
  BY DEF LeaveSettings
<1> HIDE DEF a, b, c, d, e, f, g
<1>5. /\ << a, b >> \in Seq(Setting)
      /\ << c, d, e, f >> \in Seq(Setting)
      /\ << e, f, g, c >> \in Seq(Setting)
  BY <1>3
<1>6. LeaveSettings(n, i) \in Seq(Setting)
  BY <1>4, <1>5
<1>7. QED
  BY <1>6 DEF i

LEMMA CopyLeavingKeeps ==
  ASSUME NEW F, FrameSet(F), Ready(F), NEW t \in Task, CopyLeaving(t)
  PROVE  Kept(F, t) /\ NodesOK'
<1> DEFINE f == Top(t)
           todo == LeaveSettings(f.at, info[f.at])
           g == [f EXCEPT !.pc = "tell", !.todo = todo]
<1>1. /\ ~Idle(t) /\ f.fn = "leaving" /\ UNCHANGED << info, alive, clients >>
      /\ Goto(t, g)
  BY DEF CopyLeaving, At
<1>2. f \in RingFrame /\ f.at \in Node
  BY <1>1, RingTop
<1>3. todo \in Seq(Setting)
  BY <1>2, LeaveSettingsAre DEF Ready
<1> HIDE DEF todo
<1>4. g \in RingFrame /\ g.fn = f.fn /\ g.path = f.path /\ g.pc = "tell"
  BY <1>2, <1>3 DEF RingFrame
<1> HIDE DEF g
<1>5. Kept(F, t)
  BY <1>1, <1>2, <1>4, RingFrameGoes DEF MessagePcs
<1>6. NodesOK'
  BY <1>1 DEF Ready, NodesOK
<1>7. QED
  BY <1>5, <1>6

LEMMA EndLeavingKeeps ==
  ASSUME NEW F, FrameSet(F), Ready(F), NEW t \in Task, EndLeaving(t)
  PROVE  Kept(F, t) /\ NodesOK'
<1> DEFINE f == Top(t)
           c == Caller(t)
           g == [c EXCEPT !.pc = "alone"]
<1>1. /\ ~Idle(t) /\ f.fn = "leaving" /\ UNCHANGED << info, alive, clients >>
      /\ ReturnTo(t, g)
  BY DEF EndLeaving, Told, At
<1>2. /\ Len(calls[t]) > 1 /\ c.fn = "leave" /\ FrameForm(c) /\ c \in F
  <2>1. f.fn \notin FirstFns
    BY <1>1 DEF FirstFns, RequestFns
  <2>2. QED
    BY <1>1, <2>1, TopForm DEF CallsOf, Ready
<1>3. c \in RingFrame
  BY <1>2, FrameIs
<1> HIDE DEF c
<1>4. g \in RingFrame /\ g.fn = c.fn /\ g.path = c.path /\ g.pc = "alone"
  BY <1>3 DEF RingFrame
<1> HIDE DEF g
<1>5. /\ SameMessage(c, g) /\ FrameForm(g) /\ ~IsToken(g) /\ g \in F
  BY <1>2, <1>4, FrameIs
  DEF SameMessage, FrameForm, IsToken, ResourceFns, RequestFns, MessageFns, MessagePcs
<1>6. Kept(F, t)
  BY <1>1, <1>2, <1>5, KeptByReturnTo DEF Ready, Fades, c
<1>7. NodesOK'
  BY <1>1 DEF Ready, NodesOK
<1>8. QED
  BY <1>6, <1>7

LEMMA BecomeAloneKeeps ==
  ASSUME NEW F, FrameSet(F), Ready(F), NEW t \in Task, BecomeAlone(t)
  PROVE  Kept(F, t) /\ NodesOK'
<1>1. /\ ~Idle(t) /\ Return(t) /\ UNCHANGED << alive, clients >>
      /\ info' = [info EXCEPT ![Top(t).at] = Alone(Top(t).at)]
  BY DEF BecomeAlone, At
<1>2. Top(t).at \in Node
  BY <1>1, RingTop
<1>3. NodesOK'
  BY <1>1, <1>2 DEF Ready, NodesOK, Alone
<1>4. QED
  BY <1>1, <1>3, KeptByReturn DEF Ready

\* missing_node.
LEMMA EnterMissingKeeps ==
  ASSUME NEW F, FrameSet(F), Ready(F), NEW t \in Task, EnterMissing(t)
  PROVE  Kept(F, t) /\ NodesOK'
<1> DEFINE f == Top(t)
           o == info[f.at].next
           g == [f EXCEPT !.pc = "forget", !.next = o]
<1>1. /\ ~Idle(t) /\ f.fn = "missing" /\ UNCHANGED << info, alive, clients >>
      /\ Return(t) \/ Goto(t, g)
  BY DEF EnterMissing, At
<1>2. f \in RingFrame
  BY <1>1, RingTop
<1>3. f.at \in Node
  BY <1>2 DEF RingFrame
<1>4. o \in Node
  BY <1>3, Neighbors DEF Ready
<1> HIDE DEF o
<1>5. g \in RingFrame /\ g.fn = f.fn /\ g.path = f.path /\ g.pc = "forget"
  BY <1>2, <1>4 DEF RingFrame
<1> HIDE DEF g
<1>6. Kept(F, t)
  <2>1. CASE Return(t)
    BY <1>1, <2>1, KeptByReturn DEF Ready
  <2>2. CASE Goto(t, g)
    BY <1>1, <1>2, <1>5, <2>2, RingFrameGoes DEF MessagePcs
  <2>3. QED
    BY <1>1, <2>1, <2>2
<1>7. QED
  BY <1>1, <1>6 DEF Ready, NodesOK

LEMMA ForgetMissingKeeps ==
  ASSUME NEW F, FrameSet(F), Ready(F), NEW t \in Task, ForgetMissing(t)
  PROVE  Kept(F, t) /\ NodesOK'
<1> DEFINE f == Top(t)
           i == info[f.at]
           g == [f EXCEPT !.pc = "unlink", !.nnext = i.nnext, !.prev = i.prev]
           h == [f EXCEPT !.pc = "tell"]
<1>1. /\ ~Idle(t) /\ f.fn = "missing" /\ UNCHANGED << info, alive >>
      /\ clients' = [clients EXCEPT ![f.at][f.arg] = "none"]
      /\ Goto(t, g) \/ Goto(t, h)
  BY DEF ForgetMissing, At
<1>2. f \in RingFrame
  BY <1>1, RingTop
<1>3. f.at \in Node /\ f.arg \in Node
  BY <1>2 DEF RingFrame
<1>4. i.nnext \in Node /\ i.prev \in Node
  BY <1>3, Neighbors DEF Ready
<1> HIDE DEF i
<1>5. g \in RingFrame /\ g.fn = f.fn /\ g.path = f.path /\ g.pc = "unlink"
  BY <1>2, <1>4 DEF RingFrame
<1>6. h \in RingFrame /\ h.fn = f.fn /\ h.path = f.path /\ h.pc = "tell"
  BY <1>2 DEF RingFrame
<1> HIDE DEF g, h
<1>7. Kept(F, t)
  BY <1>1, <1>2, <1>5, <1>6, RingFrameGoes DEF MessagePcs
<1>8. clients' \in [Node -> [Node -> {"none", "open", "closed"}]]
  BY <1>1, <1>3, Disconnected DEF Ready, NodesOK
<1>9. QED
  BY <1>1, <1>7, <1>8 DEF Ready, NodesOK

LEMMA UnlinkKeeps ==
  ASSUME NEW F, FrameSet(F), Ready(F), NEW t \in Task, Unlink(t)
  PROVE  Kept(F, t) /\ NodesOK'
<1> DEFINE f == Top(t)
           g == [f EXCEPT !.pc = "relink"]
<1>1. /\ ~Idle(t) /\ f.fn = "missing" /\ UNCHANGED alive
      /\ clients' = [clients EXCEPT ![f.at][f.arg] = "none"]
      /\ info' = [info EXCEPT ![f.at].next = f.nnext]
      /\ Goto(t, g)
  BY DEF Unlink, At
<1>2. f \in RingFrame
  BY <1>1, RingTop
<1>3. f.at \in Node /\ f.arg \in Node /\ f.nnext \in Node
  BY <1>2 DEF RingFrame
<1>4. g \in RingFrame /\ g.fn = f.fn /\ g.path = f.path /\ g.pc = "relink"
  BY <1>2 DEF RingFrame
<1> HIDE DEF g
<1>5. Kept(F, t)
  BY <1>1, <1>2, <1>4, RingFrameGoes DEF MessagePcs
<1>6. clients' \in [Node -> [Node -> {"none", "open", "closed"}]]
  BY <1>1, <1>3, Disconnected DEF Ready, NodesOK
<1>7. info' \in [Node -> [next : Node, nnext : Node, prev : Node]]
  BY <1>1, <1>3, FieldSet DEF Ready, NodesOK
<1>8. QED
  BY <1>1, <1>5, <1>6, <1>7 DEF Ready, NodesOK

LEMMA RelinkKeeps ==
  ASSUME NEW F, FrameSet(F), Ready(F), NEW t \in Task, Relink(t)
  PROVE  Kept(F, t) /\ NodesOK'
<1> DEFINE f == Top(t)
           o == info[f.nnext].next
           g == [f EXCEPT !.pc = "linked", !.reply = o]
<1>1. /\ ~Idle(t) /\ f.fn = "missing" /\ UNCHANGED alive
      /\ \/ Fail(t)
         \/ /\ Connect(f.at, f.nnext) /\ Goto(t, g)
            /\ info' = [info EXCEPT ![f.nnext].prev = f.at]
  BY DEF Relink, At
<1>2. f \in RingFrame
  BY <1>1, RingTop
<1>3. f.at \in Node /\ f.nnext \in Node
  BY <1>2 DEF RingFrame
<1>4. o \in Node
  BY <1>3, Neighbors DEF Ready
<1> HIDE DEF o
<1>5. g \in RingFrame /\ g.fn = f.fn /\ g.path = f.path /\ g.pc = "linked"
  BY <1>2, <1>4 DEF RingFrame
<1> HIDE DEF g
<1>6. CASE Fail(t)
  BY <1>1, <1>6, KeptByFail DEF Ready, NodesOK
<1>7. CASE /\ Connect(f.at, f.nnext) /\ Goto(t, g)
           /\ info' = [info EXCEPT ![f.nnext].prev = f.at]
  <2>1. clients' \in [Node -> [Node -> {"none", "open", "closed"}]]
    BY <1>3, <1>7, Connected DEF Ready
  <2>2. info' \in [Node -> [next : Node, nnext : Node, prev : Node]]
    BY <1>3, <1>7, FieldSet DEF Ready
  <2>3. NodesOK'
    BY <1>1, <2>1, <2>2 DEF Ready, NodesOK
  <2>4. Kept(F, t)
    BY <1>1, <1>2, <1>5, <1>7, RingFrameGoes DEF MessagePcs
  <2>5. QED
    BY <2>3, <2>4
<1>8. QED
  BY <1>1, <1>6, <1>7

LEMMA LinkedKeeps ==
  ASSUME NEW F, FrameSet(F), Ready(F), NEW t \in Task, Linked(t)
  PROVE  Kept(F, t) /\ NodesOK'
<1> DEFINE f == Top(t)
           two == f.prev = f.next
           todo == IF two THEN << >>
                   ELSE << Set(f.at, f.prev, "nnext", f.nnext) >>
           g == [f EXCEPT !.pc = "tell", !.next = f.nnext, !.todo = todo]
<1>1. /\ ~Idle(t) /\ f.fn = "missing" /\ UNCHANGED << alive, clients >>
      /\ Goto(t, g)
      /\ info' = [info EXCEPT
                    ![f.at] = [next |-> @.next, nnext |-> f.reply,
                               prev |-> IF two THEN f.nnext ELSE @.prev]]
  BY DEF Linked, At
<1>2. f \in RingFrame
  BY <1>1, RingTop
<1>3. /\ f.at \in Node /\ f.nnext \in Node /\ f.prev \in Node
      /\ f.reply \in Node
  BY <1>2 DEF RingFrame
<1>4. todo \in Seq(Setting)
  <2> DEFINE e == Set(f.at, f.prev, "nnext", f.nnext)
  <2>1. e \in Setting
    BY <1>3, SetIsSetting
  <2> HIDE DEF e
  <2>2. << e >> \in Seq(Setting) /\ << >> \in Seq(Setting)
    BY <2>1
  <2>3. QED
    BY <2>2 DEF e
<1>5. NodesOK'
  BY <1>1, <1>3 DEF Ready, NodesOK
<1> HIDE DEF todo
<1>6. g \in RingFrame /\ g.fn = f.fn /\ g.path = f.path /\ g.pc = "tell"
  BY <1>2, <1>3, <1>4 DEF RingFrame
<1> HIDE DEF g
<1>7. Kept(F, t)
  BY <1>1, <1>2, <1>6, RingFrameGoes DEF MessagePcs
<1>8. QED
  BY <1>5, <1>7

LEMMA PassMissingKeeps ==
  ASSUME NEW F, FrameSet(F), Ready(F), NEW t \in Task, PassMissing(t)
  PROVE  Kept(F, t) /\ NodesOK'
<1> DEFINE f == Top(t)
           g == Frame("missing", "enter", f.next, f.arg, f.from)
<1>1. /\ ~Idle(t) /\ f.fn = "missing" /\ UNCHANGED alive
      /\ \/ Fail(t)
         \/ Connect(f.at, f.next) /\ Goto(t, g) /\ UNCHANGED info
  BY DEF PassMissing, Told, At
<1>2. f \in RingFrame
  BY <1>1, RingTop
<1>3. /\ f.at \in Node /\ f.next \in Node /\ f.arg \in Node
      /\ f.from \in Node
  BY <1>2 DEF RingFrame
<1>4. g \in F /\ FrameForm(g) /\ g.fn = "missing"
  <2> DEFINE n == f.next
             o == f.arg
             from == f.from
  <2>1. n \in Node /\ o \in Node /\ from \in Node
    BY <1>3
  <2>2. g = Frame("missing", "enter", n, o, from)
    OBVIOUS
  <2> HIDE DEF f, g, n, o, from
  <2>3. QED
    BY <2>1, <2>2, NewRingFrame
<1> HIDE DEF g
<1>5. SameMessage(f, g) /\ ~IsToken(g)
  BY <1>1, <1>4 DEF SameMessage, IsToken, ResourceFns, RequestFns, MessageFns
<1>6. CASE Fail(t)
  BY <1>1, <1>6, KeptByFail DEF Ready, NodesOK
<1>7. CASE Connect(f.at, f.next) /\ Goto(t, g) /\ UNCHANGED info
  <2>1. clients' \in [Node -> [Node -> {"none", "open", "closed"}]]
    BY <1>3, <1>7, Connected DEF Ready
  <2>2. NodesOK'
    BY <1>1, <1>7, <2>1 DEF Ready, NodesOK
  <2>3. Kept(F, t)
    BY <1>1, <1>4, <1>5, <1>7, KeptByGoto DEF Ready
  <2>4. QED
    BY <2>2, <2>3
<1>8. QED
  BY <1>1, <1>6, <1>7

LEMMA RepairUnansweredKeeps ==
  ASSUME NEW F, FrameSet(F), Ready(F), NEW t \in Task, RepairUnanswered(t)
  PROVE  Kept(F, t) /\ NodesOK'
<1>1. ~Idle(t) /\ Fail(t) /\ UNCHANGED alive
  BY DEF RepairUnanswered, Told, At
<1>2. QED
  BY <1>1, KeptByFail DEF Ready, NodesOK
-----------------------------------------------------------------------------
(* Messages that are given up, and nodes that stop.                        *)

\* A stack that is cut back to frame i, which goes on with g.
Cut(s, i, g) == Append(SubSeq(s, 1, i - 1), g)

LEMMA CutIsFormed ==
  ASSUME NEW F, NEW s \in Seq(F), StackForm(s), NEW i \in 1 .. Len(s),
         NEW g \in F, SameMessage(s[i], g), FrameForm(g)
  PROVE  LET q == Cut(s, i, g) IN
           q \in Seq(F) /\ StackForm(q) /\ q # << >> /\ q[Len(q)] = g
<1> DEFINE p == SubSeq(s, 1, i - 1)
           q == Append(p, g)
           n == i - 1
<1>1. /\ i \in Nat /\ i >= 1 /\ Len(s) \in Nat /\ i <= Len(s) /\ n \in Nat
      /\ n + 1 = i
      /\ \A j \in 1 .. n : j \in 1 .. Len(s)
  OBVIOUS
<1>2. \A j \in 1 .. n : s[j] \in F
  BY <1>1
<1>3. p = SubSeq(s, 1, n)
  OBVIOUS
<1> HIDE DEF p, n
<1>4. p \in Seq(F) /\ Len(p) = n /\ \A j \in 1 .. n : p[j] = s[j]
  <2>1. /\ p \in Seq(F) /\ Len(p) = (IF 1 <= n THEN n - 1 + 1 ELSE 0)
        /\ \A j \in 1 .. n - 1 + 1 : p[j] = s[1 + j - 1]
    BY <1>1, <1>2, <1>3, SubSeqProperties
  <2>2. QED
    BY <1>1, <2>1
<1>5. /\ q \in Seq(F) /\ Len(q) = n + 1 /\ q[n + 1] = g
      /\ \A j \in 1 .. n : q[j] = p[j]
  BY <1>4
<1> HIDE DEF q
<1>6. /\ q \in Seq(F) /\ Len(q) = i /\ q[i] = g
      /\ \A j \in 1 .. i - 1 : q[j] = s[j]
  BY <1>1, <1>4, <1>5
<1>7. StackForm(q)
  BY <1>6, FormOfCut
<1>8. q # << >>
  <2>1. Len(q) # 0 /\ Len(<< >>) = 0
    BY <1>1, <1>6
  <2>2. QED
    BY <2>1, Zenon
<1>9. QED
  BY <1>6, <1>7, <1>8 DEF q, p, Cut

\* The call that the k-th sender of frame i awaits has failed.
LEMMA FailedCut ==
  ASSUME NEW F, FrameSet(F), NEW s \in Seq(F), StackForm(s),
         NEW i \in 1 .. Len(s), NEW k \in Nat, k >= 1, k + 1 <= Len(s[i].path)
  PROVE  LET q == Cut(s, i, FailedAt(s[i], k)) IN
           /\ q \in Seq(F) /\ StackForm(q) /\ q # << >>
           /\ q[Len(q)].pc = "failed"
<1> DEFINE g == FailedAt(s[i], k)
<1>1. s[i] \in F /\ FrameForm(s[i])
  BY DEF StackForm
<1>2. s[i].path \in Seq(Node)
  BY <1>1, FrameIs
<1>3. Len(s[i].path) # 1
  <2> DEFINE m == Len(s[i].path)
  <2>1. m \in Nat /\ k + 1 <= m
    BY <1>2
  <2> HIDE DEF m
  <2>2. m # 1
    BY <2>1
  <2>3. QED
    BY <2>2 DEF m
<1>4. s[i].fn \in MessageFns
  BY <1>1, <1>3 DEF FrameForm
<1>5. g \in F /\ SameMessage(s[i], g) /\ FrameForm(g) /\ g.pc = "failed"
  BY <1>1, <1>4, FailedIsFrame
<1> HIDE DEF g
<1> DEFINE q == Cut(s, i, g)
<1>6. q \in Seq(F) /\ StackForm(q) /\ q # << >> /\ q[Len(q)] = g
  BY <1>5, CutIsFormed
<1> HIDE DEF q
<1>7. q \in Seq(F) /\ StackForm(q) /\ q # << >> /\ q[Len(q)].pc = "failed"
  BY <1>5, <1>6
<1>8. QED
  BY <1>7 DEF q, g

\* The sender of frame i stops waiting for the reply.
LEMMA GiveUpKeeps ==
  ASSUME NEW F, FrameSet(F), Ready(F), NEW t \in Task,
         NEW i \in 1 .. Len(calls[t]), Len(calls[t][i].path) >= 2,
         GiveUp(t, i), UNCHANGED alive
  PROVE  Kept(F, t) /\ NodesOK'
<1> DEFINE s == calls[t]
           q == Cut(s, i, FailedAt(s[i], 1))
<1>1. s \in Seq(F) /\ StackForm(s)
  BY DEF Ready, Forms
<1>2. /\ \A k \in Nat : k = 1 => k >= 1 /\ k + 1 <= Len(s[i].path)
      /\ 1 \in Nat
  OBVIOUS
<1>3. calls' = [calls EXCEPT ![t] = q] /\ UNCHANGED << info, clients >>
  BY DEF GiveUp, Cut
<1> HIDE DEF s
<1>4. i \in 1 .. Len(s)
  BY DEF s
<1>5. q \in Seq(F) /\ StackForm(q) /\ q # << >> /\ q[Len(q)].pc = "failed"
  BY <1>1, <1>2, <1>4, FailedCut
<1> HIDE DEF q
<1>6. /\ calls' \in [Task -> Seq(F)] /\ calls'[t] = q
      /\ \A u \in Task \ {t} : calls'[u] = calls[u]
  BY <1>3, <1>5 DEF Ready
<1>7. Top(t)'.pc = "failed"
  BY <1>5, <1>6 DEF Top
<1>8. ~IsToken(Top(t)')
  BY <1>7 DEF IsToken
<1>9. NodesOK'
  BY <1>3 DEF Ready, NodesOK
<1>10. QED
  BY <1>5, <1>6, <1>8, <1>9 DEF Kept, Formed, TokenFades

\* The least of a set of numbers.
LEMMA LeastOfSet ==
  ASSUME NEW S \in SUBSET Nat, S # {}
  PROVE  \E m \in S : \A l \in S : m <= l
<1> DEFINE R == OpToRel(<, Nat)
<1>1. IsWellFoundedOn(R, Nat)
  BY NatLessThanWellFounded
<1>2. \A l, m \in Nat : l < m => << l, m >> \in R
  BY DEF OpToRel
<1> HIDE DEF R
<1>3. PICK m \in S : \A l \in S : << l, m >> \notin R
  BY <1>1, WFMin
<1>4. ASSUME NEW l \in S PROVE m <= l
  <2>1. l \in Nat /\ m \in Nat /\ ~(l < m)
    BY <1>2, <1>3
  <2>2. QED
    BY <2>1
<1>5. QED
  BY <1>4

\* A request of which one node stops.
LEMMA InterruptedIsFormed ==
  ASSUME NEW F, FrameSet(F), NEW s \in Seq(F), StackForm(s), NEW n \in Node
  PROVE  LET q == Interrupted(s, n) IN
           /\ q \in Seq(F) /\ StackForm(q)
           /\ q = s \/ (q # << >> /\ q[Len(q)].pc = "failed")
<1>1. CASE ~ \E i \in DOMAIN s : Handles(n, s[i])
  BY <1>1 DEF Interrupted
<1>2. CASE \E i \in DOMAIN s : Handles(n, s[i])
  <2> DEFINE First(j) == /\ Handles(n, s[j])
                         /\ \A l \in 1 .. (j - 1) : ~Handles(n, s[l])
             i == CHOOSE j \in DOMAIN s : First(j)
             IsPlace(l) == s[i].path[l] = n
             k == CHOOSE l \in 2 .. Len(s[i].path) : IsPlace(l)
             q == Cut(s, i, FailedAt(s[i], k - 1))
  <2>1. Interrupted(s, n) = q
    BY <1>2 DEF Interrupted, Cut
  <2>2. DOMAIN s = 1 .. Len(s) /\ Len(s) \in Nat
    OBVIOUS
  <2>3. \E j \in DOMAIN s : First(j)
    <3> DEFINE S == {j \in Nat : j \in DOMAIN s /\ Handles(n, s[j])}
    <3>1. S \in SUBSET Nat /\ S # {}
      BY <1>2, <2>2
    <3>2. PICK m \in S : \A l \in S : m <= l
      BY <3>1, LeastOfSet
    <3>3. ASSUME NEW l \in 1 .. (m - 1), Handles(n, s[l])
          PROVE  FALSE
      <4>1. m \in Nat /\ m \in 1 .. Len(s)
        BY <2>2
      <4>2. l \in Nat /\ l \in 1 .. Len(s) /\ ~(m <= l)
        BY <2>2, <4>1
      <4>3. l \in S
        BY <2>2, <3>3, <4>2
      <4>4. QED
        BY <3>2, <4>2, <4>3
    <3>4. QED
      BY <3>3
  <2> HIDE DEF First
  <2>4. i \in DOMAIN s /\ First(i)
    BY <2>3
  <2>5. i \in 1 .. Len(s) /\ Handles(n, s[i])
    BY <2>2, <2>4 DEF First
  <2> HIDE DEF i
  <2>6. \E l \in 2 .. Len(s[i].path) : IsPlace(l)
    BY <2>5 DEF Handles
  <2> HIDE DEF IsPlace
  <2>7. k \in 2 .. Len(s[i].path)
    BY <2>6
  <2> HIDE DEF k
  <2> DEFINE m == Len(s[i].path)
             l == k - 1
  <2>8. m \in Nat
    BY <2>5, FrameIs
  <2>9. l \in Nat /\ l >= 1 /\ l + 1 <= m
    <3>1. k \in 2 .. m
      BY <2>7
    <3> HIDE DEF m
    <3>2. QED
      BY <2>8, <3>1
  <2>10. q = Cut(s, i, FailedAt(s[i], l))
    OBVIOUS
  <2> HIDE DEF l, q
  <2>11. q \in Seq(F) /\ StackForm(q) /\ q # << >> /\ q[Len(q)].pc = "failed"
    BY <2>5, <2>9, <2>10, FailedCut
  <2>12. QED
    BY <2>1, <2>11
<1>3. QED
  BY <1>1, <1>2

LEMMA KillKeeps ==
  ASSUME NEW F, FrameSet(F), Ready(F), NEW n \in Node, Kill(n)
  PROVE  Ready(F)' /\ \A t \in Task : TokenFades(t)
<1>1. /\ alive' = alive \ {n} /\ UNCHANGED info
      /\ clients' = [m \in Node |->
            [clients[m] EXCEPT ![n] = IF @ = "open" THEN "closed" ELSE @]]
      /\ calls' = [t \in Task |-> Interrupted(calls[t], n)]
  BY DEF Kill
<1>2. NodesOK'
  BY <1>1 DEF Ready, NodesOK
<1>3. \A t \in Task :
        /\ calls'[t] \in Seq(F) /\ StackForm(calls'[t])
        /\ \/ calls'[t] = calls[t]
           \/ calls'[t] # << >> /\ calls'[t][Len(calls'[t])].pc = "failed"
  BY <1>1, InterruptedIsFormed DEF Ready, Forms
<1>4. calls' \in [Task -> Seq(F)]
  BY <1>1, <1>3
<1>5. ASSUME NEW t \in Task PROVE TokenFades(t)
  <2>1. CASE calls'[t] = calls[t]
    BY <2>1 DEF TokenFades, Idle, Top
  <2>2. CASE calls'[t][Len(calls'[t])].pc = "failed"
    <3>1. Top(t)'.pc = "failed"
      BY <2>2 DEF Top
    <3>2. QED
      BY <3>1 DEF TokenFades, IsToken
  <2>3. QED
    BY <1>3, <2>1, <2>2
<1>6. QED
  BY <1>2, <1>3, <1>4, <1>5 DEF Ready, Forms

LEMMA ReviveKeeps ==
  ASSUME NEW F, FrameSet(F), Ready(F), NEW t \in Task, NEW n \in Node,
         Revive(t, n)
  PROVE  Ready(F)' /\ \A u \in Task : TokenFades(u)
<1> DEFINE f == Frame("join", "call", n, info[n].prev, n)
<1>1. /\ alive' = alive \cup {n} /\ UNCHANGED << info, clients >>
      /\ Begin(t, f) \/ UNCHANGED calls
  BY DEF Revive
<1>2. NodesOK'
  BY <1>1 DEF Ready, NodesOK
<1>3. info[n].prev \in Node
  BY Neighbors DEF Ready
<1>4. f \in F /\ FrameForm(f) /\ f.fn = "join" /\ f.pc = "call"
  BY <1>3, NewRingFrame
<1> HIDE DEF f
<1>5. CASE Begin(t, f)
  <2>1. Kept(F, t)
    BY <1>4, <1>5, KeptByBegin DEF Ready, FirstFns
  <2>2. QED
    BY <1>2, <2>1 DEF Kept, Formed, Ready, Forms, TokenFades, Idle, Top
<1>6. CASE UNCHANGED calls
  BY <1>2, <1>6 DEF Ready, Forms, TokenFades, Idle, Top
<1>7. QED
  BY <1>1, <1>5, <1>6
-----------------------------------------------------------------------------
(* The types of Ring.                                                      *)

LEMMA StartKeepsRing ==
  ASSUME Ready(RingFrame), NEW t \in Task, NEW n \in Node, NEW o \in Node,
         StartJoin(t, n, o) \/ StartLeave(t, n) \/ StartQuery(t, n)
  PROVE  Kept(RingFrame, t) /\ NodesOK'
<1> DEFINE f == Frame("join", "call", n, o, n)
           g == Frame("leave", "call", n, n, n)
           h == Frame("query", "send", n, n, n)
<1>1. /\ Begin(t, f) \/ Begin(t, g) \/ Begin(t, h)
      /\ UNCHANGED << info, alive, clients >>
  BY DEF StartJoin, StartLeave, StartQuery
<1>2. FrameSet(RingFrame)
  BY RingFrameSet
<1>3. /\ f \in RingFrame /\ FrameForm(f) /\ f.fn = "join" /\ f.pc = "call"
      /\ g \in RingFrame /\ FrameForm(g) /\ g.fn = "leave" /\ g.pc = "call"
  BY <1>2, NewRingFrame
<1>4. h \in RingFrame /\ FrameForm(h) /\ h.fn = "query" /\ h.pc = "send"
  <2>1. << >> \in Seq(Setting) /\ << n >> \in Seq(Node) /\ Len(<< n >>) = 1
        /\ 1 >= 1
    OBVIOUS
  <2>2. h \in RingFrame /\ h.fn = "query" /\ h.pc = "send" /\ h.path = << n >>
    BY <2>1 DEF Frame, RingFrame
  <2> HIDE DEF h
  <2>3. FrameForm(h)
    BY <2>1, <2>2 DEF FrameForm, RequestFns, MessageFns
  <2>4. QED
    BY <2>2, <2>3
<1> HIDE DEF f, g, h
<1>5. Kept(RingFrame, t)
  BY <1>1, <1>3, <1>4, KeptByBegin DEF Ready, FirstFns
<1>6. NodesOK'
  BY <1>1 DEF Ready, NodesOK
<1>7. QED
  BY <1>5, <1>6

LEMMA ReceiveQueryKeeps ==
  ASSUME Ready(RingFrame), NEW t \in Task, ReceiveQuery(t) \/ EndQuery(t)
  PROVE  Kept(RingFrame, t) /\ NodesOK'
<1> DEFINE f == Top(t)
           g == [f EXCEPT !.pc = "send"]
<1>1. /\ ~Idle(t) /\ UNCHANGED << info, alive, clients >>
      /\ Return(t) \/ (f.fn = "query" /\ Goto(t, g))
  BY DEF ReceiveQuery, EndQuery, At
<1>2. NodesOK'
  BY <1>1 DEF Ready, NodesOK
<1>3. CASE Return(t)
  BY <1>1, <1>2, <1>3, KeptByReturn DEF Ready
<1>4. CASE f.fn = "query" /\ Goto(t, g)
  <2>1. f \in RingFrame /\ FrameForm(f) /\ FrameSet(RingFrame)
    BY <1>1, TopForm, TopIsFrame, RingFrameSet DEF Ready
  <2>2. /\ g \in RingFrame /\ SameMessage(f, g)
        /\ g.pc = "send" /\ g.path = f.path /\ g.fn = f.fn
    <3>1. f.at \in Node /\ f.path \in Seq(Node) /\ "send" \in MessagePcs
      BY <2>1, FrameIs DEF MessagePcs
    <3>2. Continues(RingFrame, f, Moved(f, "send"), "send", f.at, f.path)
      BY <2>1, <3>1, RingFrameContinues
    <3>3. g = Moved(f, "send")
      BY DEF Moved
    <3> HIDE DEF g
    <3>4. QED
      BY <3>2, <3>3 DEF Continues
  <2> HIDE DEF g
  <2>3. FrameForm(g) /\ ~IsToken(g)
    BY <1>4, <2>1, <2>2 DEF FrameForm, IsToken, RequestFns, MessageFns
  <2>4. Kept(RingFrame, t)
    BY <1>1, <1>4, <2>2, <2>3, KeptByGoto DEF Ready
  <2>5. QED
    BY <1>2, <2>4
<1>5. QED
  BY <1>1, <1>3, <1>4

\* A query is the first frame of its request, and the only one whose message
\* two nodes await.
LEMMA QueryUnansweredKeeps ==
  ASSUME Ready(RingFrame), NEW t \in Task, QueryUnanswered(t), UNCHANGED alive
  PROVE  Kept(RingFrame, t) /\ NodesOK'
<1> DEFINE s == calls[t]
           n == Len(s)
<1>1. /\ ~Idle(t) /\ Top(t).fn = "query" /\ Awaited(t) /\ GiveUp(t, n)
  BY DEF QueryUnanswered, At, Overdue
<1>2. /\ n \in Nat /\ n >= 1 /\ n \in 1 .. n /\ Top(t) = s[n] /\ StackForm(s)
      /\ s \in Seq(RingFrame)
  BY <1>1, TopAgain DEF Ready, Forms
<1>3. PICK i \in 1 .. n : Len(s[i].path) > 1
  BY <1>1, <1>2 DEF Awaited
<1> HIDE DEF s, n
<1>4. n = Len(s) /\ s[n].fn = "query"
  BY <1>1, <1>2 DEF n
<1>5. s[n].path \in Seq(Node)
  <2>1. s[n] \in RingFrame
    BY <1>2, <1>4
  <2>2. FrameSet(RingFrame)
    BY RingFrameSet
  <2> QED
    BY <2>1, <2>2, FrameIs
<1>6. n = 1
  BY <1>2, <1>4, FormAt DEF FirstFns
<1>7. i = n
  BY <1>6
<1>8. Len(s[n].path) > 1
  BY <1>3, <1>7, Zenon
<1>9. Len(s[n].path) >= 2
  BY <1>5, <1>8
<1>10. FrameSet(RingFrame)
  BY RingFrameSet
<1>11. QED
  BY <1>1, <1>2, <1>9, <1>10, GiveUpKeeps DEF s, n

LEMMA RingStepKeeps ==
  ASSUME Ready(RingFrame), NEW t \in Task, RingStep(t)
  PROVE  Kept(RingFrame, t) /\ NodesOK'
<1>1. FrameSet(RingFrame)
  BY RingFrameSet
<1>2. ASSUME Unanswered(t)
      PROVE  Kept(RingFrame, t) /\ NodesOK'
  <2>1. CASE QueryUnanswered(t)
    BY <2>1, QueryUnansweredKeeps DEF QueryUnanswered, GiveUp
  <2>2. CASE RepairUnanswered(t)
    BY <1>1, <2>2, RepairUnansweredKeeps
  <2>3. QED
    BY <1>2, <2>1, <2>2 DEF Unanswered
<1>3. QED
  BY <1>1, <1>2, TellNeighborKeeps, CallJoiningKeeps, EnterJoiningKeeps,
     RepairBeforeJoinKeeps, CopyNeighborsKeeps, InsertNextKeeps,
     InstallNeighborsKeeps, CallLeavingKeeps, CopyLeavingKeeps,
     EndLeavingKeeps, BecomeAloneKeeps, EnterMissingKeeps,
     ForgetMissingKeeps, UnlinkKeeps, RelinkKeeps, LinkedKeeps, PassMissingKeeps, CopyNextKeeps, SendMessageKeeps,
     RepairAfterFailureKeeps, ReceiveQueryKeeps
  DEF RingStep

LEMMA RingReadyNext ==
  ASSUME Ready(RingFrame), [RingNext]_ringVars
  PROVE  Ready(RingFrame)'
<1>1. ASSUME NEW t \in Task, Kept(RingFrame, t), NodesOK'
      PROVE  Ready(RingFrame)'
  BY <1>1 DEF Kept, Formed, Ready, Forms
<1>2. ASSUME NEW t \in Task, NEW n \in Node, NEW o \in Node,
             StartJoin(t, n, o) \/ StartLeave(t, n) \/ StartQuery(t, n)
      PROVE  Ready(RingFrame)'
  BY <1>1, <1>2, StartKeepsRing
<1>3. ASSUME NEW t \in Task, RingStep(t)
      PROVE  Ready(RingFrame)'
  BY <1>1, <1>3, RingStepKeeps
<1>4. ASSUME NEW n \in Node, Kill(n) \/ \E t \in Task : Revive(t, n)
      PROVE  Ready(RingFrame)'
  BY <1>4, RingFrameSet, KillKeeps, ReviveKeeps
<1>5. CASE UNCHANGED ringVars
  BY <1>5 DEF ringVars, Ready, NodesOK, Forms
<1>6. QED
  BY <1>2, <1>3, <1>4, <1>5 DEF RingNext

\* The variables of Ring have their types, in any ring.
THEOREM RingTypes == RingSpec => []RingTypeOK
<1>1. RingInit => Ready(RingFrame)
  BY DEF RingInit, Ready, NodesOK, Forms, StackForm, Alone
<1>2. Ready(RingFrame) /\ [RingNext]_ringVars => Ready(RingFrame)'
  BY RingReadyNext
<1>3. Ready(RingFrame) => RingTypeOK
  BY DEF Ready, NodesOK, RingTypeOK
<1>4. QED
  BY <1>1, <1>2, <1>3, PTL DEF RingSpec
-----------------------------------------------------------------------------
(* Rings whose neighbors agree.                                            *)

Neighborhood == [next : Node, nnext : Node, prev : Node]
Infos == [Node -> Neighborhood]

\* The nodes of A form rings: their neighbors are in A and agree.
Proper(A, i) ==
  \A n \in A :
    /\ i[n].next \in A /\ i[n].prev \in A
    /\ i[i[n].next].prev = n
    /\ i[i[n].prev].next = n
    /\ i[n].nnext = i[i[n].next].next

WithNext(i, n, v) == [i EXCEPT ![n].next = v]
WithNnext(i, n, v) == [i EXCEPT ![n].nnext = v]
WithPrev(i, n, v) == [i EXCEPT ![n].prev = v]

\* A field that is set.
Apply(i, s) ==
  IF s.field = "next" THEN WithNext(i, s.who, s.value)
  ELSE IF s.field = "prev" THEN WithPrev(i, s.who, s.value)
  ELSE WithNnext(i, IF s.field = "nnext" THEN s.who ELSE i[s.who].prev, s.value)

\* The neighbors when all that is to do has been done: a handler has up to four
\* fields to set.
After1(i, q) == IF q = << >> THEN i ELSE Apply(i, Head(q))
After2(i, q) == IF q = << >> THEN i ELSE After1(Apply(i, Head(q)), Tail(q))
After3(i, q) == IF q = << >> THEN i ELSE After2(Apply(i, Head(q)), Tail(q))
After(i, q) == IF q = << >> THEN i ELSE After3(Apply(i, Head(q)), Tail(q))

\* i is j but for one field of one node.
Differs(i, j, w, field, v) ==
  /\ i \in Infos
  /\ \A n \in Node :
       /\ i[n].next = IF n = w /\ field = "next" THEN v ELSE j[n].next
       /\ i[n].nnext = IF n = w /\ field = "nnext" THEN v ELSE j[n].nnext
       /\ i[n].prev = IF n = w /\ field = "prev" THEN v ELSE j[n].prev

LEMMA OneField ==
  ASSUME NEW i \in Infos, NEW w \in Node, NEW v \in Node
  PROVE  /\ Differs(WithNext(i, w, v), i, w, "next", v)
         /\ Differs(WithNnext(i, w, v), i, w, "nnext", v)
         /\ Differs(WithPrev(i, w, v), i, w, "prev", v)
BY DEF Differs, Infos, Neighborhood, WithNext, WithNnext, WithPrev

LEMMA Applied ==
  ASSUME NEW i \in Infos, NEW s \in Setting
  PROVE  /\ Apply(i, s) \in Infos
         /\ s.field # "nnextOfPrev" =>
              Differs(Apply(i, s), i, s.who, s.field, s.value)
         /\ s.field = "nnextOfPrev" =>
              Differs(Apply(i, s), i, i[s.who].prev, "nnext", s.value)
<1>1. s.who \in Node /\ s.value \in Node /\ i[s.who].prev \in Node
      /\ s.field \in {"next", "nnext", "prev", "nnextOfPrev"}
  BY DEF Setting, Infos, Neighborhood
<1>2. CASE s.field = "next"
  <2>1. Apply(i, s) = WithNext(i, s.who, s.value)
    BY <1>2 DEF Apply
  <2>2. Differs(Apply(i, s), i, s.who, "next", s.value)
    BY <1>1, <2>1, OneField
  <2>3. Apply(i, s) \in Infos
    BY <2>2 DEF Differs
  <2>4. QED
    BY <1>2, <2>2, <2>3
<1>3. CASE s.field = "nnext"
  <2>1. Apply(i, s) = WithNnext(i, s.who, s.value)
    BY <1>3 DEF Apply
  <2>2. Differs(Apply(i, s), i, s.who, "nnext", s.value)
    BY <1>1, <2>1, OneField
  <2>3. Apply(i, s) \in Infos
    BY <2>2 DEF Differs
  <2>4. QED
    BY <1>3, <2>2, <2>3
<1>4. CASE s.field = "prev"
  <2>1. Apply(i, s) = WithPrev(i, s.who, s.value)
    BY <1>4 DEF Apply
  <2>2. Differs(Apply(i, s), i, s.who, "prev", s.value)
    BY <1>1, <2>1, OneField
  <2>3. Apply(i, s) \in Infos
    BY <2>2 DEF Differs
  <2>4. QED
    BY <1>4, <2>2, <2>3
<1>5. CASE s.field = "nnextOfPrev"
  <2>1. Apply(i, s) = WithNnext(i, i[s.who].prev, s.value)
    BY <1>5 DEF Apply
  <2>2. Differs(Apply(i, s), i, i[s.who].prev, "nnext", s.value)
    BY <1>1, <2>1, OneField
  <2>3. Apply(i, s) \in Infos
    BY <2>2 DEF Differs
  <2>4. QED
    BY <1>5, <2>2, <2>3
<1>6. QED
  BY <1>1, <1>2, <1>3, <1>4, <1>5

\* The first field that remains to be set, and the others.
LEMMA Rest ==
  ASSUME NEW q \in Seq(Setting), q # << >>
  PROVE  /\ Head(q) \in Setting /\ Tail(q) \in Seq(Setting)
         /\ Len(q) \in Nat /\ Len(q) >= 1 /\ Len(Tail(q)) = Len(q) - 1
         /\ Len(q) <= 1 => Tail(q) = << >>
<1>1. /\ Head(q) \in Setting /\ Tail(q) \in Seq(Setting)
      /\ Len(q) \in Nat /\ Len(q) >= 1 /\ Len(Tail(q)) = Len(q) - 1
  OBVIOUS
<1>2. Len(q) <= 1 => Len(Tail(q)) = 0
  BY <1>1
<1>3. Len(q) <= 1 => Tail(q) = << >>
  BY <1>1, <1>2
<1>4. QED
  BY <1>1, <1>3

LEMMA FirstSetting ==
  ASSUME NEW q \in Seq(Setting), Len(q) <= 4, q # << >>, NEW i
  PROVE  /\ Head(q) \in Setting /\ Tail(q) \in Seq(Setting)
         /\ Len(Tail(q)) = Len(q) - 1
         /\ After(i, q) = After(Apply(i, Head(q)), Tail(q))
<1> DEFINE q2 == Tail(q)
           q3 == Tail(q2)
           q4 == Tail(q3)
<1>1. /\ Head(q) \in Setting /\ q2 \in Seq(Setting) /\ Len(q2) = Len(q) - 1
      /\ Len(q) \in Nat
  BY Rest
<1>2. Len(q2) <= 3
  BY <1>1
<1>3. q2 # << >> => q3 \in Seq(Setting) /\ Len(q3) = Len(q2) - 1 /\ Len(q2) \in Nat
  BY <1>1, Rest
<1>4. q2 # << >> /\ q3 # << >> =>
        q4 \in Seq(Setting) /\ Len(q4) = Len(q3) - 1 /\ Len(q3) \in Nat
  BY <1>3, Rest
<1>5. q2 # << >> /\ q3 # << >> /\ q4 # << >> => Tail(q4) = << >>
  <2>1. q2 # << >> /\ q3 # << >> => q4 \in Seq(Setting) /\ Len(q4) <= 1
    <3> HIDE DEF q2, q3, q4
    <3>1. QED
      BY <1>2, <1>3, <1>4
  <2>2. QED
    BY <2>1, Rest
<1> HIDE DEF q2, q3, q4
<1>6. \A j : After1(j, q4) = j \/ q4 # << >>
  BY DEF After1
<1>7. \A j : q2 # << >> /\ q3 # << >> /\ q4 # << >> => After2(j, q4) = After1(j, q4)
  BY <1>5 DEF After1, After2
<1>8. \A j : q2 # << >> /\ q3 # << >> => After2(j, q4) = After1(j, q4)
  BY <1>7 DEF After1, After2
<1>9. \A j : q2 # << >> => After3(j, q3) = After2(j, q3)
  BY <1>8 DEF After2, After3, q4
<1>10. \A j : After(j, q2) = After3(j, q2)
  BY <1>9 DEF After, After3, q3
<1>11. After(i, q) = After3(Apply(i, Head(q)), q2)
  BY DEF After, q2
<1>12. QED
  BY <1>1, <1>10, <1>11 DEF q2

\* Lists of settings.
LEMMA AfterNone ==
  ASSUME NEW i
  PROVE  After(i, << >>) = i
BY DEF After

LEMMA AfterTwo ==
  ASSUME NEW i, NEW a, NEW b
  PROVE  After(i, << a, b >>) = Apply(Apply(i, a), b)
<1>1. /\ << a, b >> # << >> /\ Head(<< a, b >>) = a /\ Tail(<< a, b >>) = << b >>
      /\ << b >> # << >> /\ Head(<< b >>) = b /\ Tail(<< b >>) = << >>
  OBVIOUS
<1>2. After(i, << a, b >>) = After3(Apply(i, a), << b >>)
  BY <1>1 DEF After
<1>3. After3(Apply(i, a), << b >>) = After2(Apply(Apply(i, a), b), << >>)
  BY <1>1 DEF After3
<1>4. QED
  BY <1>2, <1>3 DEF After2

LEMMA AfterOne ==
  ASSUME NEW i, NEW a
  PROVE  After(i, << a >>) = Apply(i, a)
<1>1. << a >> # << >> /\ Head(<< a >>) = a /\ Tail(<< a >>) = << >>
  OBVIOUS
<1>2. After(i, << a >>) = After3(Apply(i, a), << >>)
  BY <1>1 DEF After
<1>3. QED
  BY <1>2 DEF After3

LEMMA AfterFour ==
  ASSUME NEW i, NEW a, NEW b, NEW c, NEW d
  PROVE  After(i, << a, b, c, d >>) = Apply(Apply(Apply(Apply(i, a), b), c), d)
<1> DEFINE q == << a, b, c, d >>
<1>1. /\ q # << >> /\ Head(q) = a /\ Tail(q) = << b, c, d >>
      /\ << b, c, d >> # << >> /\ Head(<< b, c, d >>) = b
      /\ Tail(<< b, c, d >>) = << c, d >>
      /\ << c, d >> # << >> /\ Head(<< c, d >>) = c /\ Tail(<< c, d >>) = << d >>
      /\ << d >> # << >> /\ Head(<< d >>) = d
  OBVIOUS
<1>2. After(i, q) = After3(Apply(i, a), << b, c, d >>)
  BY <1>1 DEF After
<1>3. \A j : After3(j, << b, c, d >>) = After2(Apply(j, b), << c, d >>)
  BY <1>1 DEF After3
<1>4. \A j : After2(j, << c, d >>) = After1(Apply(j, c), << d >>)
  BY <1>1 DEF After2
<1>5. \A j : After1(j, << d >>) = Apply(j, d)
  BY <1>1 DEF After1
<1>6. QED
  BY <1>2, <1>3, <1>4, <1>5

-----------------------------------------------------------------------------
(* A join.                                                                 *)

\* The neighbors when node n has come next to node o, whose next node was s.
Inserted(i, o, n, s) ==
  [i EXCEPT ![o] = [next |-> n, nnext |-> s, prev |-> i[o].prev],
            ![n] = [next |-> s, nnext |-> i[o].nnext, prev |-> o]]

IsInserted(k, i, o, n, s) ==
  /\ k \in Infos
  /\ \A m \in Node :
       /\ k[m].next = IF m = n THEN s ELSE IF m = o THEN n ELSE i[m].next
       /\ k[m].nnext = IF m = n THEN i[o].nnext
                       ELSE IF m = o THEN s ELSE i[m].nnext
       /\ k[m].prev = IF m = n THEN o ELSE i[m].prev

LEMMA InsertedIs ==
  ASSUME NEW i \in Infos, NEW o \in Node, NEW n \in Node, NEW s \in Node, o # n
  PROVE  IsInserted(Inserted(i, o, n, s), i, o, n, s)
BY DEF Inserted, IsInserted, Infos, Neighborhood

\* The ring is proper when the last of the nodes has been told.
LEMMA JoinIsProper ==
  ASSUME NEW A \in SUBSET Node, NEW i \in Infos, Proper(A, i),
         NEW o \in A, NEW n \in Node \ A, NEW s, s = i[o].next
  PROVE  Proper(A \cup {n},
           Inserted(After(i, << Set(o, s, "prev", n),
                                Set(o, i[o].prev, "nnext", n) >>), o, n, s))
<1> DEFINE p == i[o].prev
           a == Set(o, s, "prev", n)
           b == Set(o, p, "nnext", n)
           i1 == Apply(i, a)
           j == Apply(i1, b)
           k == Inserted(j, o, n, s)
<1>1. /\ p \in A /\ s \in A /\ o # n /\ o \in Node /\ n \in Node
      /\ s \in Node /\ p \in Node
  BY DEF Proper
<1>2. a \in Setting /\ b \in Setting
  BY <1>1, SetIsSetting
<1>3. a.who = s /\ a.field = "prev" /\ a.value = n
      /\ b.who = p /\ b.field = "nnext" /\ b.value = n
  BY DEF Set
<1> HIDE DEF a, b
<1>4. Differs(i1, i, s, "prev", n)
  BY <1>2, <1>3, Applied
<1>5. i1 \in Infos
  BY <1>4 DEF Differs
<1> HIDE DEF i1
<1>6. Differs(j, i1, p, "nnext", n)
  BY <1>2, <1>3, <1>5, Applied
<1>7. j \in Infos /\ \A m \in Node :
        /\ j[m].next = i[m].next
        /\ j[m].prev = IF m = s THEN n ELSE i[m].prev
        /\ j[m].nnext = IF m = p THEN n ELSE i[m].nnext
  BY <1>4, <1>6 DEF Differs
<1> HIDE DEF j, p
<1>a. j \in Infos
  BY <1>7
<1>8. IsInserted(k, j, o, n, s)
  BY <1>1, <1>a, InsertedIs
<1> HIDE DEF k
<1>b. p = i[o].prev
  BY DEF p
<1>9. \A m \in A \cup {n} :
        /\ k[m].next = IF m = o THEN n ELSE IF m = n THEN s ELSE i[m].next
        /\ k[m].prev = IF m = n THEN o ELSE IF m = s THEN n ELSE i[m].prev
        /\ k[m].nnext = IF m = o THEN s
                        ELSE IF m = n THEN (IF o = p THEN n ELSE i[o].nnext)
                        ELSE IF m = p THEN n ELSE i[m].nnext
  <2>1. \A m \in A \cup {n} : m \in Node
    BY <1>1
  <2>2. TAKE m \in A \cup {n}
  <2>3. /\ k[m].next = IF m = n THEN s ELSE IF m = o THEN n ELSE j[m].next
        /\ k[m].nnext = IF m = n THEN j[o].nnext
                        ELSE IF m = o THEN s ELSE j[m].nnext
        /\ k[m].prev = IF m = n THEN o ELSE j[m].prev
    BY <1>8, <2>1 DEF IsInserted
  <2>4. /\ j[m].next = i[m].next
        /\ j[m].prev = IF m = s THEN n ELSE i[m].prev
        /\ j[m].nnext = IF m = p THEN n ELSE i[m].nnext
        /\ j[o].nnext = IF o = p THEN n ELSE i[o].nnext
    BY <1>1, <1>7, <2>1
  <2>5. QED
    BY <1>1, <2>3, <2>4
<1>10. Proper(A \cup {n}, k)
  <2> SUFFICES ASSUME NEW m \in A \cup {n}
               PROVE  /\ k[m].next \in A \cup {n} /\ k[m].prev \in A \cup {n}
                      /\ k[k[m].next].prev = m
                      /\ k[k[m].prev].next = m
                      /\ k[m].nnext = k[k[m].next].next
    BY DEF Proper
  <2>1. CASE m = n
    BY <1>1, <1>9, <1>b, <2>1 DEF Proper
  <2>2. CASE m = o
    BY <1>1, <1>9, <1>b, <2>2 DEF Proper
  <2>3. CASE m # n /\ m # o
    <3>1. m \in A
      BY <2>3
    <3>2. i[m].next # s /\ i[m].next \in A /\ i[m].prev \in A
          /\ i[i[m].next].prev = m /\ i[i[m].prev].next = m
          /\ i[m].nnext = i[i[m].next].next
          /\ (i[m].next = o <=> m = p) /\ (i[m].prev = o <=> m = s)
      BY <1>1, <2>3, <1>b, <3>1 DEF Proper
    <3>3. QED
      BY <1>1, <1>9, <2>3, <3>1, <3>2
  <2>4. QED
    BY <2>1, <2>2, <2>3
<1>11. After(i, << a, b >>) = j
  BY AfterTwo DEF j, i1
<1>12. QED
  BY <1>10, <1>11 DEF a, b, p, k

-----------------------------------------------------------------------------
(* A leave.                                                                *)

\* The neighbors when node n is on its own.
Left(i, n) == [i EXCEPT ![n] = Alone(n)]

IsLeft(k, i, n) ==
  /\ k \in Infos
  /\ \A m \in Node :
       /\ k[m].next = IF m = n THEN n ELSE i[m].next
       /\ k[m].nnext = IF m = n THEN n ELSE i[m].nnext
       /\ k[m].prev = IF m = n THEN n ELSE i[m].prev

LEMMA LeftIs ==
  ASSUME NEW i \in Infos, NEW n \in Node
  PROVE  IsLeft(Left(i, n), i, n)
BY DEF Left, IsLeft, Infos, Neighborhood, Alone

\* Two nodes, or one: the other one becomes its own neighbor.
LEMMA LeaveOfTwo ==
  ASSUME NEW A \in SUBSET Node, NEW i \in Infos, Proper(A, i), NEW n \in A,
         i[n].prev = i[n].next
  PROVE  Proper(A, Left(After(i, LeaveSettings(n, i[n])), n))
<1> DEFINE s == i[n].next
           a == Set(n, s, "next", s)
           b == Set(n, s, "prev", s)
           i1 == Apply(i, a)
           j == Apply(i1, b)
           k == Left(j, n)
<1>1. s \in A /\ s \in Node /\ n \in Node
  BY DEF Proper
<1>2. a \in Setting /\ b \in Setting
  BY <1>1, SetIsSetting
<1>3. a.who = s /\ a.field = "next" /\ a.value = s
      /\ b.who = s /\ b.field = "prev" /\ b.value = s
  BY DEF Set
<1>4. LeaveSettings(n, i[n]) = << a, b >>
  BY DEF LeaveSettings
<1>5. After(i, << a, b >>) = j
  BY AfterTwo
<1> HIDE DEF a, b
<1>6. Differs(i1, i, s, "next", s)
  BY <1>2, <1>3, Applied
<1>7. i1 \in Infos
  BY <1>6 DEF Differs
<1> HIDE DEF i1
<1>8. Differs(j, i1, s, "prev", s)
  BY <1>2, <1>3, <1>7, Applied
<1>9. j \in Infos
  BY <1>8 DEF Differs
<1> HIDE DEF j
<1>10. IsLeft(k, j, n)
  BY <1>1, <1>9, LeftIs
<1> HIDE DEF k
<1>11. \A m \in A :
         /\ k[m].next = IF m = n \/ m = s THEN m ELSE i[m].next
         /\ k[m].prev = IF m = n \/ m = s THEN m ELSE i[m].prev
         /\ k[m].nnext = IF m = n THEN n ELSE i[m].nnext
  <2> TAKE m \in A
  <2>1. m \in Node
    OBVIOUS
  <2>2. /\ k[m].next = IF m = n THEN n ELSE j[m].next
        /\ k[m].nnext = IF m = n THEN n ELSE j[m].nnext
        /\ k[m].prev = IF m = n THEN n ELSE j[m].prev
    BY <1>10, <2>1 DEF IsLeft
  <2>3. /\ j[m].next = IF m = s THEN s ELSE i[m].next
        /\ j[m].prev = IF m = s THEN s ELSE i[m].prev
        /\ j[m].nnext = i[m].nnext
    BY <1>6, <1>8, <2>1 DEF Differs
  <2>4. QED
    BY <2>2, <2>3
<1>12. s = i[n].next /\ s = i[n].prev
  OBVIOUS
<1> HIDE DEF s
<1>13. Proper(A, k)
  <2> SUFFICES ASSUME NEW m \in A
               PROVE  /\ k[m].next \in A /\ k[m].prev \in A
                      /\ k[k[m].next].prev = m
                      /\ k[k[m].prev].next = m
                      /\ k[m].nnext = k[k[m].next].next
    BY DEF Proper
  <2>1. i[s].next = n /\ i[s].prev = n /\ i[s].nnext = i[n].next
    BY <1>1, <1>12 DEF Proper
  <2>2. CASE m = n \/ m = s
    BY <1>1, <1>11, <1>12, <2>1, <2>2
  <2>3. CASE m # n /\ m # s
    <3>1. /\ i[m].next \in A /\ i[m].prev \in A
          /\ i[i[m].next].prev = m /\ i[i[m].prev].next = m
          /\ i[m].nnext = i[i[m].next].next
      BY DEF Proper
    <3>2. i[m].next # n /\ i[m].next # s /\ i[m].prev # n /\ i[m].prev # s
      BY <1>12, <2>1, <2>3, <3>1
    <3>3. QED
      BY <1>11, <2>3, <3>1, <3>2
  <2>4. QED
    BY <2>2, <2>3
<1>14. QED
  BY <1>4, <1>5, <1>13 DEF k

\* Three nodes: the other two become a ring of two.
LEMMA LeaveOfThree ==
  ASSUME NEW A \in SUBSET Node, NEW i \in Infos, Proper(A, i), NEW n \in A,
         i[n].prev # i[n].next, i[n].prev = i[n].nnext
  PROVE  Proper(A, Left(After(i, LeaveSettings(n, i[n])), n))
<1> DEFINE s == i[n].next
           p == i[n].prev
           a == Set(n, s, "prev", p)
           b == Set(n, s, "nnext", s)
           c == Set(n, p, "next", s)
           d == Set(n, p, "nnext", p)
           i1 == Apply(i, a)
           i2 == Apply(i1, b)
           i3 == Apply(i2, c)
           j == Apply(i3, d)
           k == Left(j, n)
<1>1. s \in A /\ s \in Node /\ n \in Node /\ p \in A /\ p \in Node
  BY DEF Proper
<1>2. a \in Setting /\ b \in Setting /\ c \in Setting /\ d \in Setting
  BY <1>1, SetIsSetting
<1>3. /\ a.who = s /\ a.field = "prev" /\ a.value = p
      /\ b.who = s /\ b.field = "nnext" /\ b.value = s
      /\ c.who = p /\ c.field = "next" /\ c.value = s
      /\ d.who = p /\ d.field = "nnext" /\ d.value = p
  BY DEF Set
<1>4. LeaveSettings(n, i[n]) = << a, b, c, d >>
  BY DEF LeaveSettings
<1>5. After(i, << a, b, c, d >>) = j
  BY AfterFour
<1> HIDE DEF a, b, c, d
<1>6. Differs(i1, i, s, "prev", p)
  BY <1>2, <1>3, Applied
<1>7. i1 \in Infos
  BY <1>6 DEF Differs
<1> HIDE DEF i1
<1>8. Differs(i2, i1, s, "nnext", s)
  BY <1>2, <1>3, <1>7, Applied
<1>9. i2 \in Infos
  BY <1>8 DEF Differs
<1> HIDE DEF i2
<1>10. Differs(i3, i2, p, "next", s)
  BY <1>2, <1>3, <1>9, Applied
<1>11. i3 \in Infos
  BY <1>10 DEF Differs
<1> HIDE DEF i3
<1>12. Differs(j, i3, p, "nnext", p)
  BY <1>2, <1>3, <1>11, Applied
<1>13. j \in Infos
  BY <1>12 DEF Differs
<1> HIDE DEF j
<1>14. IsLeft(k, j, n)
  BY <1>1, <1>13, LeftIs
<1> HIDE DEF k
<1>15. \A m \in A :
         /\ k[m].next = IF m = n THEN n ELSE IF m = p THEN s ELSE i[m].next
         /\ k[m].prev = IF m = n THEN n ELSE IF m = s THEN p ELSE i[m].prev
         /\ k[m].nnext = IF m = n \/ m = p \/ m = s THEN m ELSE i[m].nnext
  <2> TAKE m \in A
  <2>1. m \in Node
    OBVIOUS
  <2>2. /\ k[m].next = IF m = n THEN n ELSE j[m].next
        /\ k[m].nnext = IF m = n THEN n ELSE j[m].nnext
        /\ k[m].prev = IF m = n THEN n ELSE j[m].prev
    BY <1>14, <2>1 DEF IsLeft
  <2>3. /\ j[m].next = IF m = p THEN s ELSE i[m].next
        /\ j[m].prev = IF m = s THEN p ELSE i[m].prev
    BY <1>6, <1>8, <1>10, <1>12, <2>1 DEF Differs
  <2>4. j[m].nnext = IF m = p THEN p ELSE IF m = s THEN s ELSE i[m].nnext
    BY <1>6, <1>8, <1>10, <1>12, <2>1 DEF Differs
  <2>5. QED
    BY <2>2, <2>3, <2>4
<1>16. s = i[n].next /\ p = i[n].prev /\ p # s /\ p = i[n].nnext
  OBVIOUS
<1> HIDE DEF s, p
<1>17. Proper(A, k)
  <2> SUFFICES ASSUME NEW m \in A
               PROVE  /\ k[m].next \in A /\ k[m].prev \in A
                      /\ k[k[m].next].prev = m
                      /\ k[k[m].prev].next = m
                      /\ k[m].nnext = k[k[m].next].next
    BY DEF Proper
  <2>1. /\ i[s].next = p /\ i[s].prev = n /\ i[p].next = n /\ i[p].prev = s
        /\ n # s /\ n # p
    BY <1>1, <1>16 DEF Proper
  <2>2. CASE m = n \/ m = s \/ m = p
    BY <1>1, <1>15, <1>16, <2>1, <2>2
  <2>3. CASE m # n /\ m # s /\ m # p
    <3>1. /\ i[m].next \in A /\ i[m].prev \in A
          /\ i[i[m].next].prev = m /\ i[i[m].prev].next = m
          /\ i[m].nnext = i[i[m].next].next
      BY DEF Proper
    <3>2. /\ i[m].next # n /\ i[m].next # s /\ i[m].next # p
          /\ i[m].prev # n /\ i[m].prev # s /\ i[m].prev # p
      BY <1>16, <2>1, <2>3, <3>1
    <3>3. QED
      BY <1>15, <2>3, <3>1, <3>2
  <2>4. QED
    BY <2>2, <2>3
<1>18. QED
  BY <1>4, <1>5, <1>17 DEF k

\* More nodes: the node before the previous one has another next-next node.
LEMMA LeaveOfMore ==
  ASSUME NEW A \in SUBSET Node, NEW i \in Infos, Proper(A, i), NEW n \in A,
         i[n].prev # i[n].next, i[n].prev # i[n].nnext
  PROVE  Proper(A, Left(After(i, LeaveSettings(n, i[n])), n))
<1> DEFINE s == i[n].next
           p == i[n].prev
           o == i[p].prev
           q == i[n].nnext
           a == Set(n, p, "next", s)
           b == Set(n, p, "nnext", q)
           c == Set(n, p, "nnextOfPrev", s)
           d == Set(n, s, "prev", p)
           i1 == Apply(i, a)
           i2 == Apply(i1, b)
           i3 == Apply(i2, c)
           j == Apply(i3, d)
           k == Left(j, n)
<1>1. /\ s \in A /\ s \in Node /\ n \in Node /\ p \in A /\ p \in Node
      /\ q \in A /\ q \in Node /\ o \in A /\ o \in Node
  BY DEF Proper
<1>2. a \in Setting /\ b \in Setting /\ c \in Setting /\ d \in Setting
  BY <1>1, SetIsSetting
<1>3. /\ a.who = p /\ a.field = "next" /\ a.value = s
      /\ b.who = p /\ b.field = "nnext" /\ b.value = q
      /\ c.who = p /\ c.field = "nnextOfPrev" /\ c.value = s
      /\ d.who = s /\ d.field = "prev" /\ d.value = p
  BY DEF Set
<1>4. LeaveSettings(n, i[n]) = << a, b, c, d >>
  BY DEF LeaveSettings
<1>5. After(i, << a, b, c, d >>) = j
  BY AfterFour
<1> HIDE DEF a, b, c, d
<1>6. Differs(i1, i, p, "next", s)
  BY <1>2, <1>3, Applied
<1>7. i1 \in Infos
  BY <1>6 DEF Differs
<1> HIDE DEF i1
<1>8. Differs(i2, i1, p, "nnext", q)
  BY <1>2, <1>3, <1>7, Applied
<1>9. i2 \in Infos /\ i2[p].prev = o
  BY <1>1, <1>6, <1>8 DEF Differs
<1> HIDE DEF i2
<1>10. Differs(i3, i2, o, "nnext", s)
  BY <1>2, <1>3, <1>9, Applied
<1>11. i3 \in Infos
  BY <1>10 DEF Differs
<1> HIDE DEF i3
<1>12. Differs(j, i3, s, "prev", p)
  BY <1>2, <1>3, <1>11, Applied
<1>13. j \in Infos
  BY <1>12 DEF Differs
<1> HIDE DEF j
<1>14. IsLeft(k, j, n)
  BY <1>1, <1>13, LeftIs
<1> HIDE DEF k
<1>16. /\ s = i[n].next /\ p = i[n].prev /\ q = i[n].nnext /\ o = i[p].prev
       /\ p # s /\ p # q
  OBVIOUS
<1> HIDE DEF s, p, q, o
<1>20. /\ i[s].next = q /\ i[s].prev = n /\ i[p].next = n /\ i[o].next = p
       /\ n # s /\ n # p /\ o # p /\ o # n /\ o # s /\ q # n
  BY <1>1, <1>16 DEF Proper
<1>15. \A m \in A :
         /\ k[m].next = IF m = n THEN n ELSE IF m = p THEN s ELSE i[m].next
         /\ k[m].prev = IF m = n THEN n ELSE IF m = s THEN p ELSE i[m].prev
         /\ k[m].nnext = IF m = n THEN n ELSE IF m = p THEN q
                         ELSE IF m = o THEN s ELSE i[m].nnext
  <2> TAKE m \in A
  <2>1. m \in Node
    OBVIOUS
  <2>2. /\ k[m].next = IF m = n THEN n ELSE j[m].next
        /\ k[m].nnext = IF m = n THEN n ELSE j[m].nnext
        /\ k[m].prev = IF m = n THEN n ELSE j[m].prev
    BY <1>14, <2>1 DEF IsLeft
  <2>3. /\ j[m].next = IF m = p THEN s ELSE i[m].next
        /\ j[m].prev = IF m = s THEN p ELSE i[m].prev
    BY <1>6, <1>8, <1>10, <1>12, <2>1 DEF Differs
  <2>4. j[m].nnext = IF m = o THEN s ELSE IF m = p THEN q ELSE i[m].nnext
    BY <1>6, <1>8, <1>10, <1>12, <2>1 DEF Differs
  <2>5. QED
    BY <1>20, <2>2, <2>3, <2>4
<1>17. Proper(A, k)
  <2> SUFFICES ASSUME NEW m \in A
               PROVE  /\ k[m].next \in A /\ k[m].prev \in A
                      /\ k[k[m].next].prev = m
                      /\ k[k[m].prev].next = m
                      /\ k[m].nnext = k[k[m].next].next
    BY DEF Proper
  <2>1. CASE m = n
    BY <1>15, <2>1
  <2>2. CASE m = p
    BY <1>1, <1>15, <1>16, <1>20, <2>2
  <2>3. CASE m # n /\ m # p
    <3>1. /\ i[m].next \in A /\ i[m].prev \in A
          /\ i[i[m].next].prev = m /\ i[i[m].prev].next = m
          /\ i[m].nnext = i[i[m].next].next
      BY DEF Proper
    <3>2. /\ i[m].next # n /\ i[m].next # s /\ (i[m].next = p <=> m = o)
          /\ (i[m].prev = n <=> m = s) /\ i[m].prev # p
      BY <1>16, <1>20, <2>3, <3>1
    <3>3. QED
      BY <1>1, <1>15, <1>16, <1>20, <2>3, <3>1, <3>2
  <2>4. QED
    BY <2>1, <2>2, <2>3
<1>18. QED
  BY <1>4, <1>5, <1>17 DEF k

LEMMA LeaveIsProper ==
  ASSUME NEW A \in SUBSET Node, NEW i \in Infos, Proper(A, i), NEW n \in A
  PROVE  Proper(A, Left(After(i, LeaveSettings(n, i[n])), n))
BY LeaveOfTwo, LeaveOfThree, LeaveOfMore

-----------------------------------------------------------------------------
(* A repair.                                                               *)

\* The neighbors when the node after the missing one has been told, when the
\* node before it has set its own fields, and when all is told.
Relinked(i, f) == WithPrev(i, f.nnext, f.at)

SelfLinked(i, f, reply) ==
  [i EXCEPT ![f.at] =
     [next |-> i[f.at].next, nnext |-> reply,
      prev |-> IF f.prev = f.next THEN f.nnext ELSE i[f.at].prev]]

LinkSettings(f) ==
  IF f.prev = f.next THEN << >>
                     ELSE << Set(f.at, f.prev, "nnext", f.nnext) >>

Repaired(i, f, reply) == After(SelfLinked(i, f, reply), LinkSettings(f))

IsSelfLinked(k, i, f, reply) ==
  /\ k \in Infos
  /\ \A m \in Node :
       /\ k[m].next = i[m].next
       /\ k[m].nnext = IF m = f.at THEN reply ELSE i[m].nnext
       /\ k[m].prev = IF m = f.at /\ f.prev = f.next THEN f.nnext
                                                     ELSE i[m].prev

LEMMA SelfLinkedIs ==
  ASSUME NEW i \in Infos, NEW f, f.at \in Node, f.nnext \in Node,
         NEW reply \in Node
  PROVE  IsSelfLinked(SelfLinked(i, f, reply), i, f, reply)
BY DEF SelfLinked, IsSelfLinked, Infos, Neighborhood

\* Node d is taken out by the node before it.
LEMMA RepairIsProper ==
  ASSUME NEW A \in SUBSET Node, NEW d \in Node \ A, NEW i \in Infos,
         Proper(A \cup {d}, i), NEW f, f.at \in A, i[f.at].next = d,
         f.next = d, f.nnext = i[f.at].nnext, f.prev = i[f.at].prev,
         NEW h, h = WithNext(i, f.at, f.nnext)
  PROVE  /\ f.nnext \in A /\ f.prev \in A \cup {d} /\ h[f.at].next = f.nnext
         /\ Proper(A, Repaired(Relinked(h, f), f, h[f.nnext].next))
<1> DEFINE p == f.at
           x == f.nnext
           o == f.prev
           r == h[x].next
           i1 == Relinked(h, f)
           i2 == SelfLinked(i1, f, r)
           k == Repaired(i1, f, r)
<1>1. /\ p \in A /\ p # d /\ i[p].next = d /\ f.at = p
      /\ x = i[p].nnext /\ o = i[p].prev /\ f.next = d /\ f.nnext = x /\ f.prev = o
  OBVIOUS
<1> HIDE DEF p, x, o
<1>2. /\ i[d].prev = p /\ i[d].next = x /\ x # d /\ x \in A /\ x \in Node
      /\ p \in Node /\ o \in A \cup {d} /\ o \in Node
      /\ i[x].prev = d /\ i[o].next = p
      /\ o = d => x = p
  BY <1>1 DEF Proper
<1>3. Differs(h, i, p, "next", x)
  BY <1>1, <1>2, OneField
<1>4. h \in Infos
  BY <1>3 DEF Differs
<1>5. r \in Node /\ h[p].next = x /\ r = IF x = p THEN x ELSE i[x].next
  BY <1>2, <1>3, <1>4 DEF Differs, Infos, Neighborhood
<1>6. Differs(i1, h, x, "prev", p)
  BY <1>1, <1>2, <1>4, OneField DEF Relinked
<1>7. i1 \in Infos
  BY <1>6 DEF Differs
<1> HIDE DEF i1, r
<1>8. IsSelfLinked(i2, i1, f, r)
  BY <1>1, <1>2, <1>5, <1>7, SelfLinkedIs
<1>9. i2 \in Infos
  BY <1>8 DEF IsSelfLinked
<1> HIDE DEF i2
<1>10. IF o = d THEN k = i2 ELSE Differs(k, i2, o, "nnext", x)
  <2>1. CASE o = d
    BY <1>1, <2>1, AfterNone DEF Repaired, LinkSettings, i2
  <2>2. CASE o # d
    <3> DEFINE a == Set(p, o, "nnext", x)
    <3>1. a \in Setting /\ a.who = o /\ a.field = "nnext" /\ a.value = x
      BY <1>2, SetIsSetting DEF Set
    <3>2. k = After(i2, << a >>)
      BY <1>1, <2>2 DEF Repaired, LinkSettings, i2
    <3> HIDE DEF a, k
    <3>3. k = Apply(i2, a)
      BY <3>2, AfterOne
    <3>4. QED
      BY <1>9, <2>2, <3>1, <3>3, Applied
  <2>3. QED
    BY <2>1, <2>2
<1> HIDE DEF k
<1>11. \A m \in A :
         /\ k[m].next = IF m = p THEN x ELSE i[m].next
         /\ k[m].prev = IF m = x THEN p ELSE i[m].prev
         /\ k[m].nnext = IF m = o THEN x ELSE IF m = p THEN r ELSE i[m].nnext
  <2> TAKE m \in A
  <2>1. m \in Node /\ m # d
    OBVIOUS
  <2>2. /\ h[m].next = IF m = p THEN x ELSE i[m].next
        /\ h[m].prev = i[m].prev
        /\ h[m].nnext = i[m].nnext
    BY <1>3, <2>1 DEF Differs
  <2>3. /\ i1[m].next = h[m].next
        /\ i1[m].prev = IF m = x THEN p ELSE h[m].prev
        /\ i1[m].nnext = h[m].nnext
    BY <1>6, <2>1 DEF Differs
  <2>4. /\ i2[m].next = i1[m].next
        /\ i2[m].nnext = IF m = p THEN r ELSE i1[m].nnext
        /\ i2[m].prev = IF m = p /\ o = d THEN x ELSE i1[m].prev
    BY <1>1, <1>8, <2>1 DEF IsSelfLinked
  <2>5. /\ k[m].next = i2[m].next
        /\ k[m].nnext = IF m = o THEN x ELSE i2[m].nnext
        /\ k[m].prev = i2[m].prev
    BY <1>10, <2>1 DEF Differs
  <2>6. QED
    BY <1>2, <2>2, <2>3, <2>4, <2>5
<1>12. Proper(A, k)
  <2> SUFFICES ASSUME NEW m \in A
               PROVE  /\ k[m].next \in A /\ k[m].prev \in A
                      /\ k[k[m].next].prev = m
                      /\ k[k[m].prev].next = m
                      /\ k[m].nnext = k[k[m].next].next
    BY DEF Proper
  <2>1. /\ i[m].next \in A \cup {d} /\ i[m].prev \in A \cup {d}
        /\ i[i[m].next].prev = m /\ i[i[m].prev].next = m
        /\ i[m].nnext = i[i[m].next].next /\ m # d
    BY DEF Proper
  <2>2. /\ (i[m].next = d <=> m = p) /\ (i[m].prev = d <=> m = x)
        /\ (i[m].next = p <=> m = o) /\ (i[m].prev = p => m = d)
        /\ i[m].next # x
    BY <1>1, <1>2, <2>1
  <2>3. o \in A \/ (o = d /\ x = p)
    BY <1>2
  <2>4. CASE m = p
    <3>1. x # p => k[x].next = r
      BY <1>2, <1>5, <1>11
    <3>2. x = p => o = d
      BY <1>1, <1>2, <2>1, <2>2, <2>4
    <3>3. k[p].next = x /\ k[x].prev = p
      BY <1>1, <1>2, <1>11
    <3>4. o # p /\ k[p].nnext = r /\ k[k[p].next].next = r
      BY <1>1, <1>2, <1>5, <1>11, <2>1, <2>4, <3>1, <3>3
    <3>5. k[p].prev \in A /\ k[k[p].prev].next = p
      BY <1>1, <1>2, <1>11, <2>1, <2>2, <2>3, <2>4
    <3>6. QED
      BY <1>2, <2>4, <3>3, <3>4, <3>5
  <2>5. CASE m # p
    <3>1. k[m].next \in A /\ k[m].prev \in A /\ k[k[m].next].prev = m
          /\ k[k[m].prev].next = m
      BY <1>1, <1>2, <1>11, <2>1, <2>2, <2>5
    <3>2. k[m].nnext = k[k[m].next].next
      BY <1>1, <1>2, <1>11, <2>1, <2>2, <2>5
    <3>3. QED
      BY <3>1, <3>2
  <2>6. QED
    BY <2>4, <2>5
<1>13. QED
  BY <1>1, <1>2, <1>5, <1>12 DEF k, r, i1

-----------------------------------------------------------------------------
(* The way of a message.                                                   *)

\* The nodes that a message of node n comes to, and those that one comes to
\* from node a on before it comes to node z.
Reached(i, n) ==
  {m \in Node : \A S \in SUBSET Node :
     n \in S /\ (\A s \in S : i[s].next \in S) => m \in S}

Upto(i, a, z) ==
  {m \in Node : \A S \in SUBSET Node :
     /\ a # z => a \in S
     /\ \A s \in S : i[s].next # z => i[s].next \in S
     => m \in S}

SameNext(i, j) == \A n \in Node : i[n].next = j[n].next

LEMMA ReachedIs ==
  ASSUME NEW i \in Infos, NEW n \in Node
  PROVE  /\ n \in Reached(i, n) /\ Reached(i, n) \in SUBSET Node
         /\ \A m \in Reached(i, n) : i[m].next \in Reached(i, n)
<1>1. \A m \in Node : i[m].next \in Node
  BY DEF Infos, Neighborhood
<1>2. QED
  BY <1>1 DEF Reached

LEMMA ReachedLeast ==
  ASSUME NEW i, NEW n, NEW S \in SUBSET Node, n \in S,
         \A s \in S : i[s].next \in S
  PROVE  Reached(i, n) \subseteq S
BY DEF Reached

LEMMA ReachedSame ==
  ASSUME NEW i, NEW j, SameNext(i, j), NEW n
  PROVE  Reached(i, n) = Reached(j, n)
<1>1. \A S \in SUBSET Node :
        (\A s \in S : i[s].next \in S) <=> (\A s \in S : j[s].next \in S)
  BY DEF SameNext
<1>2. QED
  BY <1>1 DEF Reached

LEMMA UptoSame ==
  ASSUME NEW i, NEW j, SameNext(i, j), NEW a, NEW z
  PROVE  Upto(i, a, z) = Upto(j, a, z)
<1>1. \A S \in SUBSET Node :
        (\A s \in S : i[s].next # z => i[s].next \in S)
          <=> (\A s \in S : j[s].next # z => j[s].next \in S)
  BY DEF SameNext
<1>2. QED
  BY <1>1 DEF Upto

LEMMA UptoLeast ==
  ASSUME NEW i, NEW a, NEW z, NEW S \in SUBSET Node, a # z => a \in S,
         \A s \in S : i[s].next # z => i[s].next \in S
  PROVE  Upto(i, a, z) \subseteq S
BY DEF Upto

LEMMA UptoNone ==
  ASSUME NEW i, NEW z
  PROVE  Upto(i, z, z) = {}
<1>1. {} \in SUBSET Node /\ \A s \in {} : i[s].next # z => i[s].next \in {}
  OBVIOUS
<1>2. \A m \in Upto(i, z, z) : m \in {}
  BY <1>1 DEF Upto
<1>3. QED
  BY <1>2

LEMMA UptoIs ==
  ASSUME NEW i \in Infos, NEW a \in Node, NEW z
  PROVE  /\ Upto(i, a, z) \in SUBSET Node
         /\ a # z => a \in Upto(i, a, z)
         /\ \A m \in Upto(i, a, z) : i[m].next # z => i[m].next \in Upto(i, a, z)
<1>1. \A m \in Node : i[m].next \in Node
  BY DEF Infos, Neighborhood
<1>2. QED
  BY <1>1 DEF Upto

\* The first node on the way.
LEMMA UptoNext ==
  ASSUME NEW i \in Infos, NEW a \in Node, NEW z
  PROVE  Upto(i, a, z) \subseteq {a} \cup Upto(i, i[a].next, z)
<1> DEFINE b == i[a].next
           U == Upto(i, b, z)
           S == {a} \cup U
<1>1. b \in Node
  BY DEF Infos, Neighborhood
<1>2. /\ U \in SUBSET Node
      /\ b # z => b \in U
      /\ \A m \in U : i[m].next # z => i[m].next \in U
  BY <1>1, UptoIs
<1> HIDE DEF U
<1>3. S \in SUBSET Node /\ a \in S /\ \A s \in S : i[s].next # z => i[s].next \in S
  BY <1>2
<1> HIDE DEF S
<1>4. Upto(i, a, z) \subseteq S
  BY <1>3, UptoLeast
<1>5. QED
  BY <1>4 DEF S, U

\* A ring without node d, whose next node its previous node p takes over.
LEMMA UptoOfRing ==
  ASSUME NEW i \in Infos, NEW p \in Node, NEW d \in Node, NEW x \in Node,
         i[p].next = d, i[d].next = x, NEW h \in Infos,
         \A m \in Node : h[m].next = IF m = p THEN x ELSE i[m].next
  PROVE  Reached(i, d) \subseteq {d, p} \cup Upto(h, x, p)
<1> DEFINE U == Upto(h, x, p)
           S == {d, p} \cup U
<1>1. /\ U \in SUBSET Node
      /\ x # p => x \in U
      /\ \A m \in U : h[m].next # p => h[m].next \in U
  BY UptoIs
<1> HIDE DEF U
<1>2. S \in SUBSET Node /\ d \in S /\ \A s \in S : i[s].next \in S
  BY <1>1
<1>3. QED
  BY <1>2, ReachedLeast DEF U

\* In a ring a message comes back, by way of the previous node.
LEMMA ComesBack ==
  ASSUME NEW B \in SUBSET Node, IsFiniteSet(B), NEW i \in Infos, Proper(B, i),
         NEW a \in B, NEW b \in Reached(i, a)
  PROVE  b \in B /\ a \in Reached(i, b) /\ i[a].prev \in Reached(i, b)
<1> DEFINE R == Reached(i, b)
           f == [m \in R |-> i[m].next]
           S == Reached(i, a) \ R
<1>1. \A m \in B : i[m].next \in B /\ i[m].prev \in B
                   /\ i[i[m].next].prev = m /\ i[i[m].prev].next = m
  BY DEF Proper
<1>2. Reached(i, a) \subseteq B
  BY <1>1, ReachedLeast
<1>3. b \in B /\ b \in Node /\ a \in Node
  BY <1>2
<1>4. b \in R /\ R \in SUBSET Node /\ \A m \in R : i[m].next \in R
  BY <1>3, ReachedIs
<1>5. R \subseteq B
  BY <1>1, <1>3, ReachedLeast
<1> HIDE DEF R
<1>6. IsFiniteSet(R)
  BY <1>5, FS_Subset
<1>7. f \in Injection(R, R)
  BY <1>1, <1>4, <1>5 DEF Injection, IsInjective
<1>8. f \in Surjection(R, R)
  BY <1>6, <1>7, FS_Injection
<1>9. \A m \in R : i[m].prev \in R
  <2> TAKE m \in R
  <2>1. PICK o \in R : f[o] = m
    BY <1>8 DEF Surjection
  <2>2. i[o].next = m /\ i[m].prev = o
    BY <1>1, <1>5, <2>1
  <2>3. QED
    BY <2>2
<1>10. a \in R
  <2> SUFFICES ASSUME a \notin R
               PROVE  FALSE
    OBVIOUS
  <2>1. /\ a \in Reached(i, a) /\ Reached(i, a) \in SUBSET Node
        /\ \A m \in Reached(i, a) : i[m].next \in Reached(i, a)
    BY <1>3, ReachedIs
  <2>2. a \in S /\ S \in SUBSET Node
    BY <2>1
  <2>3. \A m \in S : i[m].next \in S
    BY <1>1, <1>2, <1>9, <2>1
  <2>4. Reached(i, a) \subseteq S
    BY <2>2, <2>3, ReachedLeast
  <2>5. QED
    BY <1>4, <2>4
<1>11. QED
  BY <1>3, <1>9, <1>10 DEF R

-----------------------------------------------------------------------------
(* The state of the only request, and what the connections and the         *)
(* neighbors are in the meantime.                                          *)

\* One request at a time, in a ring of finitely many nodes of which one may be
\* down, killed between two requests and joined or left only once its absence
\* has been noticed.
OneRequest ==
  /\ IsFiniteSet(Node)
  /\ \E t : Task = {t}
  /\ MaxDown <= 1
  /\ KillBetween
  /\ ~ChangeWhileDown
  /\ ~StrayConnections
  /\ ~Rejoin
  /\ Slow = {}

\* No connection to a node of A is closed.
NoneClosed(A, c) == \A m \in Node, o \in A : c[m][o] # "closed"

\* Of them only connections to node d are, and only those of nodes of S.
ClosedTo(A, c, d, S) ==
  \A m \in Node, o \in A : c[m][o] = "closed" => o = d /\ m \in S

\* The other nodes of the ring of node d.
RingWithout(i, d) == Reached(i, d) \ {d}

\* Between two requests every node that is not down is in a proper ring, or
\* node d has been killed and its ring has not noticed it.
Sound == Proper(alive, info) /\ NoneClosed(alive, clients)
Unnoticed(d) == Proper(alive \cup {d}, info) /\ NoneClosed(alive, clients)
Quiet == Sound \/ \E d \in Node \ alive : Unnoticed(d)

\* A query is under way, or its sender has repaired the ring.
Querying(f) ==
  /\ f.fn = "query" /\ f.at \in alive
  /\ \/ /\ f.pc \in {"send", "deliver", "receive", "failed"}
        /\ Quiet
        /\ f.from \in alive /\ f.at \in Reached(info, f.from)
        /\ f.pc \in {"deliver", "failed"} => f.next = info[f.at].next
        /\ f.pc = "failed" => f.next \notin alive
     \/ f.pc = "repaired" /\ Sound

\* Node n joins the ring in which it was when it went down, or another one.
Rejoins(n, o) ==
  /\ Proper(alive, info)
  /\ ClosedTo(alive, clients, n, RingWithout(info, n))
  /\ info[n].prev = o
Joins(n) == Proper(alive \ {n}, info) /\ NoneClosed(alive, clients)

Joining(f) ==
  /\ f.fn = "join" /\ f.at \in alive
  /\ \/ /\ f.pc = "call" /\ f.arg # f.at
        /\ \/ Rejoins(f.at, f.arg)
           \/ Joins(f.at) /\ (Proper(alive, info) \/ f.arg \in alive)
     \/ /\ f.pc = "install" /\ NoneClosed(alive, clients)
        /\ Proper(alive, [info EXCEPT ![f.at] = [next |-> f.next,
                            nnext |-> f.nnext, prev |-> f.prev]])

Addressed(A, q) == \A k \in DOMAIN q : q[k].by \in A /\ q[k].who \in A

\* Frame g handles the join of frame f.
JoinedBy(f, g) ==
  /\ f.fn = "join" /\ f.pc = "await" /\ f.at = g.arg
  /\ g.fn = "joining" /\ g.at \in alive /\ g.arg \in alive /\ g.at # g.arg
  /\ \/ g.pc = "enter" /\ (Rejoins(g.arg, g.at) \/ Joins(g.arg))
     \/ g.pc = "repair" /\ Rejoins(g.arg, g.at)
     \/ g.pc = "copy" /\ Joins(g.arg)
     \/ /\ g.pc = "tell" /\ NoneClosed(alive, clients)
        /\ Len(g.todo) <= 2 /\ Addressed(alive, g.todo)
        /\ \A k \in DOMAIN g.todo : g.todo[k].field # "nnextOfPrev"
        /\ Proper(alive, Inserted(After(info, g.todo), g.at, g.arg, g.next))

\* Frame g takes node g.arg out of the ring of node g.from.
Repairing(g) ==
  LET A == alive \ {g.arg} IN
  /\ g.fn = "missing" /\ g.from \in A /\ g.at \in A
  /\ \/ /\ g.pc = "enter" /\ g.at = g.from /\ info[g.at].next = g.arg
        /\ Proper(A \cup {g.arg}, info)
        /\ ClosedTo(alive, clients, g.arg, RingWithout(info, g.arg))
     \/ /\ g.pc \in {"forget", "unlink"} /\ g.at = g.from
        /\ g.next = g.arg /\ info[g.at].next = g.arg
        /\ Proper(A \cup {g.arg}, info)
        /\ ClosedTo(alive, clients, g.arg, RingWithout(info, g.arg))
        /\ g.pc = "unlink" => /\ g.nnext = info[g.at].nnext
                              /\ g.prev = info[g.at].prev
     \/ /\ g.pc \in {"relink", "linked"} /\ g.at = g.from
        /\ g.next = g.arg /\ g.nnext \in A /\ g.prev \in A \cup {g.arg}
        /\ info[g.at].next = g.nnext
        /\ ClosedTo(alive, clients, g.arg, Upto(info, g.nnext, g.from))
        /\ Proper(A, IF g.pc = "relink"
                       THEN Repaired(Relinked(info, g), g, info[g.nnext].next)
                       ELSE Repaired(info, g, g.reply))
     \/ /\ g.pc = "tell"
        /\ Len(g.todo) <= 1 /\ Addressed(A, g.todo)
        /\ \A k \in DOMAIN g.todo : g.todo[k].field = "nnext"
        /\ g.at \in Reached(info, g.from) /\ g.next = info[g.at].next
        /\ Proper(A, After(info, g.todo))
        /\ ClosedTo(alive, clients, g.arg, Upto(info, g.next, g.from))
     \/ /\ g.pc \in {"enter", "forget"} /\ g.todo = << >>
        /\ g.at \in Reached(info, g.from)
        /\ Proper(A, info)
        /\ g.pc = "forget" => g.next = info[g.at].next /\ g.at # g.from
        /\ ClosedTo(alive, clients, g.arg, Upto(info, g.at, g.from))

\* A query, or a join of the missing node, awaits the repair.
AwaitsRepair(s, g) ==
  \/ /\ Len(s) = 2 /\ g.arg \notin alive
     /\ s[1].fn = "query" /\ s[1].pc = "repaired" /\ s[1].at = g.from
  \/ /\ Len(s) = 3 /\ g.arg \in alive
     /\ s[1].fn = "join" /\ s[1].pc = "await" /\ s[1].at = g.arg
     /\ s[2].fn = "joining" /\ s[2].pc = "copy" /\ s[2].at = g.from
     /\ s[2].arg = g.arg

Leaving(f) ==
  /\ f.fn = "leave" /\ f.at \in alive /\ NoneClosed(alive, clients)
  /\ \/ f.pc = "call" /\ Proper(alive, info)
     \/ f.pc = "alone" /\ Proper(alive, Left(info, f.at))

\* Frame g handles the leave of frame f.
LeftBy(f, g) ==
  /\ f.fn = "leave" /\ f.pc = "await" /\ f.at = g.at
  /\ g.fn = "leaving" /\ g.at \in alive /\ NoneClosed(alive, clients)
  /\ \/ g.pc = "copy" /\ Proper(alive, info)
     \/ /\ g.pc = "tell" /\ Len(g.todo) <= 4 /\ Addressed(alive, g.todo)
        /\ \A m \in alive : info[m].prev \in alive
        /\ \A k \in DOMAIN g.todo : g.todo[k].value \in alive
        /\ Proper(alive, Left(After(info, g.todo), g.at))

Phase(s) ==
  \/ s = << >> /\ Quiet
  \/ Len(s) = 1 /\ (Querying(s[1]) \/ Joining(s[1]) \/ Leaving(s[1]))
  \/ Len(s) = 2 /\ (JoinedBy(s[1], s[2]) \/ LeftBy(s[1], s[2]))
  \/ Len(s) = 2 /\ Repairing(s[2]) /\ AwaitsRepair(s, s[2])
  \/ Len(s) = 3 /\ Repairing(s[3]) /\ AwaitsRepair(s, s[3])

OpenIsAlive == \A m, o \in Node : clients[m][o] = "open" => o \in alive

\* A node that is down joins again where it was, if it was not on its own.
Remembers == \A e \in Node \ alive : info[e] = Alone(e) \/ info[e].prev # e

RingInv ==
  /\ OpenIsAlive /\ Remembers
  /\ \A t \in Task : Phase(calls[t])

\* What a step of the request has to show.
Steady(t) ==
  /\ UNCHANGED alive
  /\ \A e \in Node \ alive : info'[e] = info[e]
  /\ OpenIsAlive'
  /\ Phase(calls[t])'

\* A state in which the request takes a step.
Stepping == RingTypeOK /\ RingTypeOK' /\ RingInv /\ OneRequest

LEMMA SteadyKeeps ==
  ASSUME Stepping, NEW t \in Task, Steady(t)
  PROVE  RingInv'
<1>1. \A u \in Task : u = t
  BY DEF Stepping, OneRequest
<1>2. (\A u \in Task : Phase(calls[u]))'
  BY <1>1 DEF Steady
<1>3. Remembers'
  BY DEF Stepping, RingInv, Steady, Remembers
<1>4. QED
  BY <1>2, <1>3 DEF RingInv, Steady

LEMMA Typed ==
  ASSUME RingTypeOK
  PROVE  /\ calls \in [Task -> Seq(RingFrame)]
         /\ info \in Infos
         /\ alive \in SUBSET Node
         /\ clients \in [Node -> [Node -> {"none", "open", "closed"}]]
         /\ NodesOK
BY DEF RingTypeOK, Infos, Neighborhood, NodesOK

LEMMA TypedNext ==
  ASSUME RingTypeOK'
  PROVE  /\ calls' \in [Task -> Seq(RingFrame)]
         /\ info' \in Infos
         /\ alive' \in SUBSET Node
BY DEF RingTypeOK, Infos, Neighborhood

\* A new handler.
LEMMA HandlerIsFrame ==
  \A fn \in {"join", "joining", "leave", "leaving", "missing"},
     pc \in {"call", "enter", "copy"}, n, o, from \in Node :
    Frame(fn, pc, n, o, from) \in RingFrame
<1> TAKE fn \in {"join", "joining", "leave", "leaving", "missing"},
         pc \in {"call", "enter", "copy"}, n, o, from \in Node
<1>1. << >> \in Seq(Setting) /\ << n >> \in Seq(Node)
  OBVIOUS
<1>2. QED
  BY <1>1 DEF Frame, RingFrame

\* The executing frame, and the frames that await it.
LEMMA TopPhase ==
  ASSUME RingTypeOK, RingInv, NEW t \in Task, ~Idle(t)
  PROVE  /\ Top(t) \in RingFrame /\ Top(t) = calls[t][Len(calls[t])]
         /\ Len(calls[t]) \in {1, 2, 3}
         /\ Top(t).fn = "query" => Len(calls[t]) = 1 /\ Querying(Top(t))
         /\ Top(t).fn = "join" => Len(calls[t]) = 1 /\ Joining(Top(t))
         /\ Top(t).fn = "leave" => Len(calls[t]) = 1 /\ Leaving(Top(t))
         /\ Top(t).fn = "joining" =>
              /\ Len(calls[t]) = 2 /\ JoinedBy(calls[t][1], Top(t))
              /\ Caller(t) = calls[t][1] /\ calls[t][1] \in RingFrame
         /\ Top(t).fn = "leaving" =>
              /\ Len(calls[t]) = 2 /\ LeftBy(calls[t][1], Top(t))
              /\ Caller(t) = calls[t][1] /\ calls[t][1] \in RingFrame
         /\ Top(t).fn = "missing" =>
              Repairing(Top(t)) /\ AwaitsRepair(calls[t], Top(t))
<1>1. PICK s \in Seq(RingFrame) : s = calls[t] /\ s # << >>
  BY Typed DEF Idle
<1>2. PICK n \in Nat : n = Len(s)
  BY <1>1
<1>3. Top(t) = s[n] /\ Top(t) \in RingFrame
  BY <1>1, <1>2, TopIsFrame, Typed DEF Top
<1>4. Phase(s)
  BY <1>1 DEF RingInv
<1>5. n \in {1, 2, 3}
  BY <1>1, <1>2, <1>4 DEF Phase
<1>6. n = 2 => Caller(t) = s[1] /\ s[1] \in RingFrame
  BY <1>1, <1>2 DEF Caller
<1>7. CASE n = 1
  <2>1. Querying(s[1]) \/ Joining(s[1]) \/ Leaving(s[1])
    BY <1>1, <1>2, <1>4, <1>7 DEF Phase
  <2>2. QED
    BY <1>1, <1>2, <1>3, <1>7, <2>1 DEF Querying, Joining, Leaving
<1>8. CASE n = 2
  <2>1. \/ JoinedBy(s[1], s[2]) \/ LeftBy(s[1], s[2])
        \/ Repairing(s[2]) /\ AwaitsRepair(s, s[2])
    BY <1>1, <1>2, <1>4, <1>8 DEF Phase
  <2>2. /\ JoinedBy(s[1], s[2]) => s[2].fn = "joining"
        /\ LeftBy(s[1], s[2]) => s[2].fn = "leaving"
        /\ Repairing(s[2]) => s[2].fn = "missing"
    BY DEF JoinedBy, LeftBy, Repairing
  <2>3. s[n] = s[2] /\ calls[t] = s /\ Len(calls[t]) = 2
    BY <1>1, <1>2, <1>8
  <2>4. Top(t) = s[2]
    BY <1>3, <2>3
  <2>5. QED
    BY <1>2, <1>3, <1>6, <1>8, <2>1, <2>2, <2>3, <2>4
<1>9. CASE n = 3
  <2>1. Repairing(s[3]) /\ AwaitsRepair(s, s[3])
    BY <1>1, <1>2, <1>4, <1>9 DEF Phase
  <2>2. QED
    BY <1>1, <1>2, <1>3, <1>9, <2>1 DEF Repairing
<1>10. QED
  BY <1>5, <1>7, <1>8, <1>9

-----------------------------------------------------------------------------
(* Connections.                                                            *)

LEMMA Reaching ==
  ASSUME RingTypeOK, OpenIsAlive, NEW n \in Node, NEW o \in Node
  PROVE  /\ Reaches(n, o) => o \in alive
         /\ o \in alive /\ clients[n][o] # "closed" => Reaches(n, o)
BY DEF Reaches, RingTypeOK, OpenIsAlive

LEMMA Connecting ==
  ASSUME RingTypeOK, OpenIsAlive, NEW n \in Node, NEW o \in Node, o \in alive,
         Connect(n, o), UNCHANGED alive
  PROVE  /\ OpenIsAlive'
         /\ NoneClosed(alive, clients) => NoneClosed(alive, clients')
         /\ \A d, S : ClosedTo(alive, clients, d, S) => ClosedTo(alive, clients', d, S)
<1>1. \A m, u \in Node :
        clients'[m][u] = IF m = n /\ u = o THEN "open" ELSE clients[m][u]
  BY DEF Connect, RingTypeOK
<1>2. OpenIsAlive'
  BY <1>1 DEF OpenIsAlive
<1>a. alive \subseteq Node
  BY DEF RingTypeOK
<1>3. NoneClosed(alive, clients) => NoneClosed(alive, clients')
  BY <1>1, <1>a DEF NoneClosed
<1>4. \A d, S : ClosedTo(alive, clients, d, S) => ClosedTo(alive, clients', d, S)
  BY <1>1, <1>a DEF ClosedTo
<1>5. QED
  BY <1>2, <1>3, <1>4

\* A connection that is removed from the cache.
LEMMA Disconnecting ==
  ASSUME RingTypeOK, OpenIsAlive, NEW n \in Node, NEW o \in Node,
         clients' = [clients EXCEPT ![n][o] = "none"], UNCHANGED alive
  PROVE  /\ OpenIsAlive'
         /\ NoneClosed(alive, clients) => NoneClosed(alive, clients')
         /\ \A S : ClosedTo(alive, clients, o, S) => ClosedTo(alive, clients', o, S \ {n})
<1>1. \A m, u \in Node :
        clients'[m][u] = IF m = n /\ u = o THEN "none" ELSE clients[m][u]
  BY DEF RingTypeOK
<1>2. OpenIsAlive'
  BY <1>1 DEF OpenIsAlive
<1>a. alive \subseteq Node
  BY DEF RingTypeOK
<1>3. NoneClosed(alive, clients) => NoneClosed(alive, clients')
  BY <1>1, <1>a DEF NoneClosed
<1>4. \A S : ClosedTo(alive, clients, o, S) => ClosedTo(alive, clients', o, S \ {n})
  BY <1>1, <1>a DEF ClosedTo
<1>5. QED
  BY <1>2, <1>3, <1>4

LEMMA NothingClosed ==
  ASSUME NEW A, NEW c, NEW d
  PROVE  /\ ClosedTo(A, c, d, {}) => NoneClosed(A, c)
         /\ \A S : NoneClosed(A, c) => ClosedTo(A, c, d, S)
BY DEF ClosedTo, NoneClosed

LEMMA ClosedToLess ==
  ASSUME NEW A, NEW c, NEW d, NEW S, NEW T, ClosedTo(A, c, d, S), S \subseteq T
  PROVE  ClosedTo(A, c, d, T)
BY DEF ClosedTo

-----------------------------------------------------------------------------
(* Phases that follow one another.                                         *)

LEMMA AloneGoes ==
  ASSUME Stepping, NEW t \in Task, ~Idle(t), Len(calls[t]) = 1,
         NEW g \in RingFrame, Goto(t, g),
         Querying(g)' \/ Joining(g)' \/ Leaving(g)'
  PROVE  Phase(calls[t])'
<1>1. Len(calls'[t]) = 1 /\ calls'[t][1] = g
  BY GotoEffect, Typed DEF Stepping
<1>2. QED
  BY <1>1 DEF Phase

LEMMA HandlerGoes ==
  ASSUME Stepping, NEW t \in Task, ~Idle(t), Len(calls[t]) = 2,
         NEW g \in RingFrame, Goto(t, g), NEW f, f = calls[t][1],
         JoinedBy(f, g)' \/ LeftBy(f, g)'
  PROVE  Phase(calls[t])'
<1>1. Len(calls'[t]) = 2 /\ calls'[t][1] = f /\ calls'[t][2] = g
  BY GotoEffect, Typed DEF Stepping
<1>2. QED
  BY <1>1 DEF Phase

LEMMA RepairGoes ==
  ASSUME Stepping, NEW t \in Task, ~Idle(t), AwaitsRepair(calls[t], Top(t)),
         NEW g \in RingFrame, Goto(t, g), g.arg = Top(t).arg,
         g.from = Top(t).from, UNCHANGED alive, Repairing(g)'
  PROVE  Phase(calls[t])'
<1>1. PICK s \in Seq(RingFrame), q \in Seq(RingFrame) : s = calls[t] /\ q = calls'[t]
  BY Typed, TypedNext DEF Stepping
<1>2. PICK n \in {2, 3} : n = Len(s)
  BY <1>1 DEF AwaitsRepair
<1>3. /\ Len(q) = Len(s) /\ q[Len(s)] = g
      /\ \A i \in 1 .. Len(s) - 1 : q[i] = s[i]
  <2>1. calls \in [Task -> Seq(RingFrame)]
    BY Typed DEF Stepping
  <2>2. /\ Len(calls'[t]) = Len(calls[t])
        /\ \A i \in 1 .. Len(calls[t]) - 1 : calls'[t][i] = calls[t][i]
        /\ calls'[t][Len(calls[t])] = g
    BY <2>1, GotoEffect
  <2>3. QED
    BY <1>1, <2>2
<1>4. /\ Len(q) = n /\ q[n] = g
      /\ \A i \in 1 .. n - 1 : q[i] = s[i]
  BY <1>2, <1>3
<1>5. q[1] = s[1] /\ (n = 3 => q[2] = s[2])
  BY <1>4
<1>6. AwaitsRepair(s, Top(t))
  BY <1>1
<1>7. AwaitsRepair(q, g)'
  BY <1>2, <1>4, <1>5, <1>6 DEF AwaitsRepair
<1>8. Phase(q)'
  BY <1>4, <1>7 DEF Phase
<1>9. QED
  BY <1>1, <1>8

LEMMA AloneCalls ==
  ASSUME Stepping, NEW t \in Task, ~Idle(t), Len(calls[t]) = 1,
         NEW f \in RingFrame, NEW g \in RingFrame, Call(t, f, g),
         \/ JoinedBy(f, g)' \/ LeftBy(f, g)'
         \/ /\ Repairing(g)' /\ UNCHANGED alive /\ g.arg \notin alive
            /\ f.fn = "query" /\ f.pc = "repaired" /\ f.at = g.from
  PROVE  Phase(calls[t])'
<1>1. PICK q \in Seq(RingFrame) : q = calls'[t]
  BY TypedNext DEF Stepping
<1>2. /\ Len(q) = Len(calls[t]) + 1 /\ q[Len(calls[t])] = f
      /\ q[Len(calls[t]) + 1] = g
  <2>1. calls \in [Task -> Seq(RingFrame)]
    BY Typed DEF Stepping
  <2>2. ASSUME NEW u \in Task, ~Idle(u), Call(u, f, g)
        PROVE  /\ Len(calls'[u]) = Len(calls[u]) + 1
               /\ calls'[u][Len(calls[u])] = f
               /\ calls'[u][Len(calls[u]) + 1] = g
    BY <2>1, <2>2, CallEffect
  <2>3. QED
    BY <1>1, <2>2
<1>3. Len(q) = 2 /\ q[1] = f /\ q[2] = g
  BY <1>2
<1>4. CASE JoinedBy(f, g)' \/ LeftBy(f, g)'
  BY <1>1, <1>3, <1>4 DEF Phase
<1>5. CASE /\ Repairing(g)' /\ UNCHANGED alive /\ g.arg \notin alive
           /\ f.fn = "query" /\ f.pc = "repaired" /\ f.at = g.from
  <2>1. AwaitsRepair(q, g)'
    BY <1>3, <1>5 DEF AwaitsRepair
  <2>2. Phase(q)'
    BY <1>3, <1>5, <2>1 DEF Phase
  <2>3. QED
    BY <1>1, <2>2
<1>6. QED
  BY <1>4, <1>5

LEMMA CallsFrom ==
  ASSUME RingTypeOK, NEW t \in Task, ~Idle(t), NEW f \in RingFrame,
         NEW g \in RingFrame, Call(t, f, g)
  PROVE  /\ Len(calls'[t]) = Len(calls[t]) + 1
         /\ Len(calls[t]) > 1 => calls'[t][1] = calls[t][1]
         /\ calls'[t][Len(calls[t])] = f
         /\ calls'[t][Len(calls[t]) + 1] = g
<1>1. calls \in [Task -> Seq(RingFrame)]
  BY Typed
<1>2. /\ Len(calls'[t]) = Len(calls[t]) + 1
      /\ \A i \in 1 .. Len(calls[t]) - 1 : calls'[t][i] = calls[t][i]
      /\ calls'[t][Len(calls[t])] = f
      /\ calls'[t][Len(calls[t]) + 1] = g
  BY <1>1, CallEffect
<1>3. Len(calls[t]) > 1 => 1 \in 1 .. Len(calls[t]) - 1
  BY <1>1
<1>4. QED
  BY <1>2, <1>3

\* The handler of a join calls missing_node.
LEMMA HandlerCalls ==
  ASSUME Stepping, NEW t \in Task, ~Idle(t), Len(calls[t]) = 2,
         NEW f \in RingFrame, NEW g \in RingFrame, Call(t, f, g),
         Repairing(g)', UNCHANGED alive, g.arg \in alive,
         calls[t][1].fn = "join", calls[t][1].pc = "await",
         calls[t][1].at = g.arg,
         f.fn = "joining", f.pc = "copy", f.at = g.from, f.arg = g.arg
  PROVE  Phase(calls[t])'
<1>1. PICK s \in Seq(RingFrame), q \in Seq(RingFrame) : s = calls[t] /\ q = calls'[t]
  BY Typed, TypedNext DEF Stepping
<1>2. /\ Len(q) = Len(s) + 1 /\ q[Len(s)] = f /\ q[Len(s) + 1] = g
      /\ Len(s) > 1 => q[1] = s[1]
  <2>1. ASSUME NEW u \in Task, ~Idle(u), Call(u, f, g)
        PROVE  /\ Len(calls'[u]) = Len(calls[u]) + 1
               /\ Len(calls[u]) > 1 => calls'[u][1] = calls[u][1]
               /\ calls'[u][Len(calls[u])] = f
               /\ calls'[u][Len(calls[u]) + 1] = g
    BY <2>1, CallsFrom DEF Stepping
  <2>2. QED
    BY <1>1, <2>1
<1>3. Len(s) = 2
  BY <1>1
<1>4. Len(q) = 3 /\ q[1] = s[1] /\ q[2] = f /\ q[3] = g
  BY <1>2, <1>3
<1>5. s[1].fn = "join" /\ s[1].pc = "await" /\ s[1].at = g.arg
  BY <1>1
<1>6. AwaitsRepair(q, g)'
  BY <1>4, <1>5 DEF AwaitsRepair
<1>7. Phase(q)'
  BY <1>4, <1>6 DEF Phase
<1>8. QED
  BY <1>1, <1>7

LEMMA AloneEnds ==
  ASSUME Stepping, NEW t \in Task, ~Idle(t), Len(calls[t]) = 1, Return(t), Quiet'
  PROVE  Phase(calls[t])'
<1>1. calls'[t] \in Seq(RingFrame) /\ Len(calls'[t]) = 0
  BY ReturnEffect, Typed DEF Stepping
<1>2. calls'[t] = << >>
  BY <1>1
<1>3. QED
  BY <1>2 DEF Phase

\* The caller goes on in the ring without the missing node.
LEMMA RepairEnds ==
  ASSUME Stepping, NEW t \in Task, ~Idle(t), NEW g, g = Top(t),
         AwaitsRepair(calls[t], g), g.from \in alive \ {g.arg},
         Return(t), UNCHANGED alive, Proper(alive \ {g.arg}, info'),
         NoneClosed(alive, clients')
  PROVE  Phase(calls[t])'
<1>1. PICK s \in Seq(RingFrame), q \in Seq(RingFrame) : s = calls[t] /\ q = calls'[t]
  BY Typed, TypedNext DEF Stepping
<1>2. AwaitsRepair(s, g)
  BY <1>1
<1>3. Len(q) = Len(s) - 1 /\ \A i \in 1 .. Len(s) - 1 : q[i] = s[i]
  BY <1>1, ReturnEffect, Typed DEF Stepping
<1>4. CASE Len(s) = 2
  <2>1. Len(q) = 1 /\ q[1] = s[1]
    BY <1>3, <1>4
  <2>2. /\ g.arg \notin alive
        /\ s[1].fn = "query" /\ s[1].pc = "repaired" /\ s[1].at \in alive
    BY <1>2, <1>4 DEF AwaitsRepair
  <2>3. alive \ {g.arg} = alive
    BY <2>2
  <2>4. Querying(q[1])'
    BY <2>1, <2>2, <2>3 DEF Querying, Sound
  <2>5. Phase(q)'
    BY <2>1, <2>4 DEF Phase
  <2>6. QED
    BY <1>1, <2>5
<1>5. CASE Len(s) = 3
  <2>1. Len(q) = 2 /\ q[1] = s[1] /\ q[2] = s[2]
    BY <1>3, <1>5
  <2>2. /\ g.arg \in alive /\ s[1].fn = "join"
        /\ s[1].pc = "await" /\ s[1].at = g.arg
        /\ s[2].fn = "joining" /\ s[2].pc = "copy"
        /\ s[2].at = g.from /\ s[2].arg = g.arg
    BY <1>2, <1>5 DEF AwaitsRepair
  <2>3. Joins(g.arg)'
    BY DEF Joins
  <2>4. JoinedBy(q[1], q[2])'
    BY <2>1, <2>2, <2>3 DEF JoinedBy
  <2>5. Phase(q)'
    BY <2>1, <2>4 DEF Phase
  <2>6. QED
    BY <1>1, <2>5
<1>6. QED
  BY <1>2, <1>4, <1>5 DEF AwaitsRepair

LEMMA HandlerReturns ==
  ASSUME Stepping, NEW t \in Task, ~Idle(t), Len(calls[t]) = 2,
         NEW f \in RingFrame, ReturnTo(t, f), Joining(f)' \/ Leaving(f)'
  PROVE  Phase(calls[t])'
<1>1. PICK q \in Seq(RingFrame) : q = calls'[t]
  BY TypedNext DEF Stepping
<1>2. Len(calls[t]) > 1
  OBVIOUS
<1>3. Len(q) = Len(calls[t]) - 1 /\ q[Len(calls[t]) - 1] = f
  <2>1. calls \in [Task -> Seq(RingFrame)]
    BY Typed DEF Stepping
  <2>2. ASSUME NEW u \in Task, Len(calls[u]) > 1, ReturnTo(u, f)
        PROVE  /\ Len(calls'[u]) = Len(calls[u]) - 1
               /\ calls'[u][Len(calls[u]) - 1] = f
    BY <2>1, <2>2, ReturnToEffect
  <2>3. QED
    BY <1>1, <1>2, <2>2
<1>4. Len(q) = 1 /\ q[1] = f
  BY <1>3
<1>5. QED
  BY <1>1, <1>4 DEF Phase

-----------------------------------------------------------------------------
(* Queries.                                                                *)

\* The steps of a message are those of a query.
LEMMA MessageTop ==
  ASSUME Stepping, NEW t \in Task, ~Idle(t),
         Top(t).pc \in {"send", "deliver", "receive", "failed"}
  PROVE  /\ Len(calls[t]) = 1 /\ Top(t).fn = "query"
         /\ Top(t).at \in alive /\ Quiet /\ Top(t).from \in alive
         /\ Top(t).at \in Reached(info, Top(t).from)
         /\ Top(t).pc \in {"deliver", "failed"} =>
              Top(t).next = info[Top(t).at].next
         /\ Top(t).pc = "failed" => Top(t).next \notin alive
<1>1. PICK f \in RingFrame : f = Top(t)
  BY TopPhase DEF Stepping
<1>2. /\ f.fn = "query" => Len(calls[t]) = 1 /\ Querying(f)
      /\ f.fn = "join" => Joining(f)
      /\ f.fn = "leave" => Leaving(f)
      /\ f.fn = "joining" => JoinedBy(calls[t][1], f)
      /\ f.fn = "leaving" => LeftBy(calls[t][1], f)
      /\ f.fn = "missing" => Repairing(f)
  BY <1>1, TopPhase DEF Stepping
<1>3. /\ Joining(f) => f.pc \in {"call", "install"}
      /\ Leaving(f) => f.pc \in {"call", "alone"}
      /\ JoinedBy(calls[t][1], f) => f.pc \in {"enter", "repair", "copy", "tell"}
      /\ LeftBy(calls[t][1], f) => f.pc \in {"copy", "tell"}
      /\ Repairing(f) =>
           f.pc \in {"enter", "forget", "unlink", "relink", "linked", "tell"}
  BY DEF Joining, Leaving, JoinedBy, LeftBy, Repairing
<1>4. f.fn \in {"join", "joining", "leave", "leaving", "missing", "query"}
  BY DEF RingFrame
<1>5. f.fn = "query"
  BY <1>1, <1>2, <1>3, <1>4
<1>6. Len(calls[t]) = 1 /\ Querying(f)
  BY <1>2, <1>5
<1>7. QED
  BY <1>1, <1>5, <1>6 DEF Querying

\* Nothing but connections to nodes that run has changed.
LEMMA QuietKept ==
  ASSUME Quiet, UNCHANGED << info, alive >>,
         NoneClosed(alive, clients) => NoneClosed(alive, clients'),
         \A d, S : ClosedTo(alive, clients, d, S) => ClosedTo(alive, clients', d, S)
  PROVE  Quiet'
<1>1. CASE Sound
  BY <1>1 DEF Quiet, Sound
<1>2. ASSUME NEW d \in Node \ alive, Unnoticed(d)
      PROVE  Quiet'
  BY <1>2 DEF Quiet, Unnoticed
<1>3. QED
  BY <1>1, <1>2 DEF Quiet

\* The next node of one in a ring.
LEMMA QuietRing ==
  ASSUME RingTypeOK, Quiet
  PROVE  /\ NoneClosed(alive, clients)
         /\ \A n \in alive : info[n].prev \in Node /\ info[info[n].prev].next = n
                            /\ info[info[n].next].prev = n
         /\ \A n \in alive : info[n].next \notin alive => Unnoticed(info[n].next)
<1>1. CASE Sound
  BY <1>1, Typed DEF Sound, Proper
<1>2. ASSUME NEW d \in Node \ alive, Unnoticed(d)
      PROVE  /\ NoneClosed(alive, clients)
             /\ \A n \in alive :
                  /\ info[n].prev \in alive \cup {d}
                  /\ info[n].next \in alive \cup {d}
                  /\ info[info[n].prev].next = n
                  /\ info[info[n].next].prev = n
  BY <1>2 DEF Unnoticed, Proper
<1>3. alive \subseteq Node
  BY Typed
<1>4. QED
  BY <1>1, <1>2, <1>3 DEF Quiet

LEMMA CopyNextSteady ==
  ASSUME Stepping, NEW t \in Task, CopyNext(t)
  PROVE  Steady(t)
<1>1. PICK f \in RingFrame : f = Top(t)
  BY TopPhase DEF Stepping, CopyNext
<1>2. /\ ~Idle(t) /\ f.pc = "send" /\ UNCHANGED << info, alive, clients >>
      /\ Goto(t, [f EXCEPT !.pc = "deliver", !.next = info[f.at].next])
  BY <1>1 DEF CopyNext
<1>3. /\ Len(calls[t]) = 1 /\ f.fn = "query" /\ f.at \in alive /\ Quiet
      /\ f.from \in alive /\ f.at \in Reached(info, f.from)
  BY <1>1, <1>2, MessageTop
<1>4. f.at \in Node /\ info[f.at].next \in Node
  BY Typed DEF Stepping, RingFrame, Infos, Neighborhood
<1>5. PICK g \in RingFrame :
        /\ g = [f EXCEPT !.pc = "deliver", !.next = info[f.at].next]
        /\ g.fn = f.fn /\ g.pc = "deliver" /\ g.at = f.at /\ g.from = f.from
        /\ g.next = info[f.at].next
  <2> DEFINE h == [f EXCEPT !.pc = "deliver", !.next = info[f.at].next]
  <2>1. /\ h \in RingFrame
        /\ h = [f EXCEPT !.pc = "deliver", !.next = info[f.at].next]
        /\ h.fn = f.fn /\ h.pc = "deliver" /\ h.at = f.at /\ h.from = f.from
        /\ h.next = info[f.at].next
    BY <1>4 DEF RingFrame
  <2> HIDE DEF h
  <2>2. QED
    BY <2>1
<1>6. Quiet'
  BY <1>2, <1>3, QuietKept
<1>7. Querying(g)'
  BY <1>2, <1>3, <1>5, <1>6 DEF Querying
<1>8. Phase(calls[t])'
  BY <1>2, <1>3, <1>5, <1>7, AloneGoes
<1>9. OpenIsAlive'
  BY <1>2 DEF Stepping, RingInv, OpenIsAlive
<1>10. QED
  BY <1>2, <1>8, <1>9 DEF Steady

LEMMA SendMessageSteady ==
  ASSUME Stepping, NEW t \in Task, SendMessage(t)
  PROVE  Steady(t)
<1>1. PICK f \in RingFrame : f = Top(t)
  BY TopPhase DEF Stepping, SendMessage
<1>2. /\ ~Idle(t) /\ f.pc = "deliver" /\ UNCHANGED << info, alive >>
      /\ IF Reaches(f.at, f.next)
           THEN /\ Connect(f.at, f.next)
                /\ Goto(t, [f EXCEPT !.at = f.next, !.pc = "receive",
                                     !.path = Extended(f.path, f.next)])
           ELSE /\ Goto(t, [f EXCEPT !.pc = "failed"])
                /\ UNCHANGED clients
  BY <1>1 DEF SendMessage
<1>3. /\ Len(calls[t]) = 1 /\ f.fn = "query" /\ f.at \in alive /\ Quiet
      /\ f.from \in alive /\ f.at \in Reached(info, f.from)
      /\ f.next = info[f.at].next
  BY <1>1, <1>2, MessageTop
<1>4. f.at \in Node /\ f.next \in Node /\ f.path \in Seq(Node) /\ f.from \in Node
  BY DEF RingFrame
<1>5. CASE Reaches(f.at, f.next)
  <2>1. f.next \in alive
    BY <1>4, <1>5, Reaching DEF Stepping, RingInv
  <2>2. Extended(f.path, f.next) \in Seq(Node)
    BY <1>4 DEF Extended
  <2>3. PICK g \in RingFrame :
          /\ g = [f EXCEPT !.at = f.next, !.pc = "receive",
                           !.path = Extended(f.path, f.next)]
          /\ g.fn = f.fn /\ g.pc = "receive" /\ g.at = f.next
          /\ g.from = f.from
    <3> DEFINE h == [f EXCEPT !.at = f.next, !.pc = "receive",
                              !.path = Extended(f.path, f.next)]
    <3>1. /\ h \in RingFrame
          /\ h = [f EXCEPT !.at = f.next, !.pc = "receive",
                           !.path = Extended(f.path, f.next)]
          /\ h.fn = f.fn /\ h.pc = "receive" /\ h.at = f.next
          /\ h.from = f.from
      BY <1>4, <2>2 DEF RingFrame
    <3> HIDE DEF h
    <3>2. QED
      BY <3>1
  <2>4. /\ OpenIsAlive'
        /\ NoneClosed(alive, clients) => NoneClosed(alive, clients')
        /\ \A d, S : ClosedTo(alive, clients, d, S) => ClosedTo(alive, clients', d, S)
    BY <1>2, <1>4, <1>5, <2>1, Connecting DEF Stepping, RingInv
  <2>5. Quiet'
    BY <1>2, <1>3, <2>4, QuietKept
  <2>6. f.next \in Reached(info, f.from)
    BY <1>3, <1>4, ReachedIs, Typed DEF Stepping
  <2>7. Querying(g)'
    BY <1>2, <1>3, <2>1, <2>3, <2>5, <2>6 DEF Querying
  <2>8. Phase(calls[t])'
    BY <1>2, <1>3, <1>5, <2>3, <2>7, AloneGoes
  <2>9. QED
    BY <1>2, <2>4, <2>8 DEF Steady
<1>6. CASE ~Reaches(f.at, f.next)
  <2>1. PICK g \in RingFrame :
          /\ g = [f EXCEPT !.pc = "failed"]
          /\ g.fn = f.fn /\ g.pc = "failed" /\ g.at = f.at /\ g.from = f.from
          /\ g.next = f.next
    <3> DEFINE h == [f EXCEPT !.pc = "failed"]
    <3>1. /\ h \in RingFrame
          /\ h = [f EXCEPT !.pc = "failed"]
          /\ h.fn = f.fn /\ h.pc = "failed" /\ h.at = f.at /\ h.from = f.from
          /\ h.next = f.next
      BY DEF RingFrame
    <3> HIDE DEF h
    <3>2. QED
      BY <3>1
  <2>2. f.next \notin alive
    <3>1. SUFFICES ASSUME f.next \in alive
                   PROVE  FALSE
      OBVIOUS
    <3>2. clients[f.at][f.next] = "closed"
      BY <1>4, <1>6, <3>1, Reaching DEF Stepping, RingInv
    <3>3. NoneClosed(alive, clients)
      BY <1>3, QuietRing DEF Stepping
    <3>4. QED
      BY <1>4, <3>1, <3>2, <3>3 DEF NoneClosed
  <2>3. Quiet'
    BY <1>2, <1>3, <1>6, QuietKept
  <2>4. Querying(g)'
    BY <1>2, <1>3, <2>1, <2>2, <2>3 DEF Querying
  <2>5. Phase(calls[t])'
    BY <1>2, <1>3, <1>6, <2>1, <2>4, AloneGoes
  <2>6. OpenIsAlive'
    BY <1>2, <1>6 DEF Stepping, RingInv, OpenIsAlive
  <2>7. QED
    BY <1>2, <2>5, <2>6 DEF Steady
<1>7. QED
  BY <1>5, <1>6

LEMMA ReceiveQuerySteady ==
  ASSUME Stepping, NEW t \in Task, ReceiveQuery(t)
  PROVE  Steady(t)
<1>1. PICK f \in RingFrame : f = Top(t)
  BY TopPhase DEF Stepping, ReceiveQuery, At
<1>2. /\ ~Idle(t) /\ f.pc = "receive" /\ UNCHANGED << info, alive, clients >>
      /\ Return(t) \/ Goto(t, [f EXCEPT !.pc = "send"])
  BY <1>1 DEF ReceiveQuery, At
<1>3. /\ Len(calls[t]) = 1 /\ f.fn = "query" /\ f.at \in alive /\ Quiet
      /\ f.from \in alive /\ f.at \in Reached(info, f.from)
  BY <1>1, <1>2, MessageTop
<1>4. PICK g \in RingFrame :
        /\ g = [f EXCEPT !.pc = "send"]
        /\ g.fn = f.fn /\ g.pc = "send" /\ g.at = f.at /\ g.from = f.from
  <2> DEFINE h == [f EXCEPT !.pc = "send"]
  <2>1. /\ h \in RingFrame
        /\ h = [f EXCEPT !.pc = "send"]
        /\ h.fn = f.fn /\ h.pc = "send" /\ h.at = f.at /\ h.from = f.from
    BY DEF RingFrame
  <2> HIDE DEF h
  <2>2. QED
    BY <2>1
<1>5. Quiet'
  BY <1>2, <1>3, QuietKept
<1>6. Querying(g)'
  BY <1>2, <1>3, <1>4, <1>5 DEF Querying
<1>7. Phase(calls[t])'
  BY <1>2, <1>3, <1>4, <1>5, <1>6, AloneGoes, AloneEnds
<1>8. OpenIsAlive'
  BY <1>2 DEF Stepping, RingInv, OpenIsAlive
<1>9. QED
  BY <1>2, <1>7, <1>8 DEF Steady

LEMMA EndQuerySteady ==
  ASSUME Stepping, NEW t \in Task, EndQuery(t)
  PROVE  Steady(t)
<1>1. PICK f \in RingFrame : f = Top(t)
  BY TopPhase DEF Stepping, EndQuery, At
<1>2. /\ ~Idle(t) /\ f.fn = "query" /\ f.pc = "repaired" /\ Return(t)
      /\ UNCHANGED << info, alive, clients >>
  BY <1>1 DEF EndQuery, At
<1>3. Len(calls[t]) = 1 /\ Querying(f)
  BY <1>1, <1>2, TopPhase DEF Stepping
<1>4. Quiet
  BY <1>2, <1>3 DEF Querying, Quiet
<1>5. Quiet'
  BY <1>2, <1>4, QuietKept
<1>6. Phase(calls[t])'
  BY <1>2, <1>3, <1>5, AloneEnds
<1>7. OpenIsAlive'
  BY <1>2 DEF Stepping, RingInv, OpenIsAlive
<1>8. QED
  BY <1>2, <1>6, <1>7 DEF Steady

LEMMA RepairAfterFailureSteady ==
  ASSUME Stepping, NEW t \in Task, RepairAfterFailure(t)
  PROVE  Steady(t)
<1>1. PICK f \in RingFrame : f = Top(t)
  BY TopPhase DEF Stepping, RepairAfterFailure
<1>2. /\ ~Idle(t) /\ f.pc = "failed" /\ UNCHANGED << info, alive >>
      /\ RepairTopology(t, [f EXCEPT !.pc = "repaired"], f.next)
  BY <1>1 DEF RepairAfterFailure
<1>3. /\ Len(calls[t]) = 1 /\ f.fn = "query" /\ f.at \in alive /\ Quiet
      /\ f.next = info[f.at].next /\ f.next \notin alive
  BY <1>1, <1>2, MessageTop
<1>4. f.at \in Node /\ f.next \in Node
  BY DEF RingFrame
<1>5. Unnoticed(f.next)
  BY <1>3, QuietRing DEF Stepping, RingInv
<1>6. Reaches(f.at, f.at)
  <2>1. clients[f.at][f.at] # "closed"
    BY <1>3, <1>4, <1>5 DEF Unnoticed, NoneClosed
  <2>2. QED
    BY <1>3, <1>4, <2>1, Reaching DEF Stepping, RingInv
<1>7. PICK h \in RingFrame :
        /\ h = [f EXCEPT !.pc = "repaired"]
        /\ h.fn = "query" /\ h.pc = "repaired" /\ h.at = f.at
  <2> DEFINE h == [f EXCEPT !.pc = "repaired"]
  <2>1. /\ h \in RingFrame
        /\ h = [f EXCEPT !.pc = "repaired"]
        /\ h.fn = "query" /\ h.pc = "repaired" /\ h.at = f.at
    BY <1>3 DEF RingFrame
  <2> HIDE DEF h
  <2>2. QED
    BY <2>1
<1>8. PICK g \in RingFrame : g = Frame("missing", "enter", f.at, f.next, f.at)
  BY <1>4, HandlerIsFrame
<1>9. /\ g.fn = "missing" /\ g.pc = "enter" /\ g.at = f.at /\ g.arg = f.next
      /\ g.from = f.at
  BY <1>8 DEF Frame
<1>10. Connect(f.at, f.at) /\ Call(t, h, g)
  <2>1. RepairTopology(t, h, f.next)
    BY <1>2, <1>7
  <2>2. f.at \in alive /\ clients[f.at][f.at] # "closed" /\ h.at = f.at
    BY <1>3, <1>4, <1>5, <1>7 DEF Unnoticed, NoneClosed
  <2>3. QED
    BY <1>8, <2>1, <2>2 DEF RepairTopology
<1>11. /\ OpenIsAlive'
       /\ \A d, S : ClosedTo(alive, clients, d, S) => ClosedTo(alive, clients', d, S)
  BY <1>2, <1>3, <1>4, <1>10, Connecting DEF Stepping, RingInv
<1>12. Repairing(g)'
  <2>1. (alive \ {f.next}) \cup {f.next} = alive \cup {f.next}
    OBVIOUS
  <2>2. Proper((alive \ {f.next}) \cup {f.next}, info)
    BY <1>5, <2>1 DEF Unnoticed
  <2>3. ClosedTo(alive, clients', f.next, RingWithout(info, f.next))
    BY <1>5, <1>11, NothingClosed DEF Unnoticed
  <2>4. f.at \in alive \ {f.next}
    BY <1>3
  <2>5. QED
    BY <1>2, <1>3, <1>9, <2>2, <2>3, <2>4 DEF Repairing
<1>13. Phase(calls[t])'
  BY <1>2, <1>3, <1>7, <1>9, <1>10, <1>12, AloneCalls
<1>14. QED
  BY <1>2, <1>11, <1>13 DEF Steady

\* A query comes to the node before the one that it is from.
LEMMA QueryAnswered ==
  ASSUME Stepping, NEW t \in Task
  PROVE  ~QueryUnanswered(t)
<1> SUFFICES ASSUME QueryUnanswered(t)
             PROVE  FALSE
  OBVIOUS
<1>1. PICK f \in RingFrame : f = Top(t)
  BY TopPhase DEF Stepping, QueryUnanswered, At
<1>2. /\ ~Idle(t) /\ f.pc = "deliver"
      /\ f.at \in Slow \/ Endless(f.next, {m \in Node : info[m].next = f.from})
  BY <1>1 DEF QueryUnanswered, At, Overdue, Sleeps
<1>3. /\ f.at \in alive /\ Quiet /\ f.from \in alive
      /\ f.at \in Reached(info, f.from) /\ f.next = info[f.at].next
  BY <1>1, <1>2, MessageTop
<1>4. f.from \in Node /\ info \in Infos /\ alive \in SUBSET Node
  BY Typed DEF RingFrame, Stepping
<1>5. f.next \in Reached(info, f.from)
  BY <1>3, <1>4, ReachedIs
<1>6. PICK B \in SUBSET Node : Proper(B, info) /\ f.from \in B
  <2>1. CASE Sound
    BY <1>3, <1>4, <2>1 DEF Sound
  <2>2. ASSUME NEW d \in Node \ alive, Unnoticed(d)
        PROVE  \E B \in SUBSET Node : Proper(B, info) /\ f.from \in B
    <3>1. alive \cup {d} \in SUBSET Node /\ f.from \in alive \cup {d}
      BY <1>3, <1>4
    <3>2. QED
      BY <2>2, <3>1 DEF Unnoticed
  <2>3. QED
    BY <1>3, <2>1, <2>2 DEF Quiet
<1>7. IsFiniteSet(B)
  BY FS_Subset DEF Stepping, OneRequest
<1>8. info[f.from].prev \in Reached(info, f.next)
  BY <1>4, <1>5, <1>6, <1>7, ComesBack
<1>9. info[f.from].prev \in Node /\ info[info[f.from].prev].next = f.from
  BY <1>6 DEF Proper
<1>10. Endless(f.next, {m \in Node : info[m].next = f.from})
  BY <1>2 DEF Stepping, OneRequest
<1>11. RingOf(f.next) = Reached(info, f.next)
  BY DEF RingOf, Reached
<1>12. QED
  BY <1>8, <1>9, <1>10, <1>11 DEF Endless

\* missing_node comes back to the node that began it.
LEMMA RepairAnswered ==
  ASSUME Stepping, NEW t \in Task
  PROVE  ~RepairUnanswered(t)
<1> SUFFICES ASSUME RepairUnanswered(t)
             PROVE  FALSE
  OBVIOUS
<1>1. PICK f \in RingFrame : f = Top(t)
  BY TopPhase DEF Stepping, RepairUnanswered, Told, At
<1>2. /\ ~Idle(t) /\ f.fn = "missing" /\ f.pc = "tell" /\ f.todo = << >>
      /\ Endless(f.next, {m \in {f.from} : {info[m].next, info[m].nnext} # {f.arg}})
  BY <1>1 DEF RepairUnanswered, Told, At
<1>3. Repairing(f)
  BY <1>1, <1>2, TopPhase DEF Stepping
<1> DEFINE A == alive \ {f.arg}
<1>4. /\ f.from \in A /\ f.at \in Reached(info, f.from) /\ f.next = info[f.at].next
      /\ Proper(A, After(info, << >>))
  BY <1>2, <1>3 DEF Repairing
<1>5. Proper(A, info)
  BY <1>4, AfterNone
<1>6. f.from \in Node /\ info \in Infos /\ A \in SUBSET Node
  BY Typed DEF RingFrame, Stepping
<1>7. IsFiniteSet(A)
  BY <1>6, FS_Subset DEF Stepping, OneRequest
<1>8. f.next \in Reached(info, f.from)
  BY <1>4, <1>6, ReachedIs
<1>9. f.from \in Reached(info, f.next)
  <2> HIDE DEF A
  <2>1. QED
    BY <1>4, <1>5, <1>6, <1>7, <1>8, ComesBack
<1>10. info[f.from].next # f.arg
  BY <1>4, <1>5 DEF Proper
<1>11. RingOf(f.next) = Reached(info, f.next)
  BY DEF RingOf, Reached
<1>12. QED
  BY <1>2, <1>9, <1>10, <1>11 DEF Endless

-----------------------------------------------------------------------------
(* Joins.                                                                  *)

LEMMA CallJoiningSteady ==
  ASSUME Stepping, NEW t \in Task, CallJoining(t)
  PROVE  Steady(t)
<1>1. PICK f \in RingFrame : f = Top(t)
  BY TopPhase DEF Stepping, CallJoining, At
<1>2. /\ ~Idle(t) /\ f.fn = "join" /\ f.pc = "call" /\ UNCHANGED << info, alive >>
      /\ IF Reaches(f.at, f.arg)
           THEN /\ Connect(f.at, f.arg)
                /\ Call(t, [f EXCEPT !.pc = "await"],
                        Frame("joining", "enter", f.arg, f.at, f.at))
           ELSE Return(t) /\ UNCHANGED clients
  BY <1>1 DEF CallJoining, At
<1>3. Len(calls[t]) = 1 /\ Joining(f)
  BY <1>1, <1>2, TopPhase DEF Stepping
<1>4. /\ f.at \in alive /\ f.arg # f.at /\ f.at \in Node /\ f.arg \in Node
      /\ \/ Rejoins(f.at, f.arg)
         \/ Joins(f.at) /\ (Proper(alive, info) \/ f.arg \in alive)
  BY <1>2, <1>3 DEF Joining, RingFrame
<1>5. CASE Reaches(f.at, f.arg)
  <2>1. f.arg \in alive
    BY <1>4, <1>5, Reaching DEF Stepping, RingInv
  <2>2. /\ OpenIsAlive'
        /\ NoneClosed(alive, clients) => NoneClosed(alive, clients')
        /\ \A d, S : ClosedTo(alive, clients, d, S) => ClosedTo(alive, clients', d, S)
    BY <1>2, <1>4, <1>5, <2>1, Connecting DEF Stepping, RingInv
  <2>3. PICK h \in RingFrame :
          /\ h = [f EXCEPT !.pc = "await"]
          /\ h.fn = "join" /\ h.pc = "await" /\ h.at = f.at
    <3> DEFINE h == [f EXCEPT !.pc = "await"]
    <3>1. /\ h \in RingFrame
          /\ h = [f EXCEPT !.pc = "await"]
          /\ h.fn = "join" /\ h.pc = "await" /\ h.at = f.at
      BY <1>2 DEF RingFrame
    <3> HIDE DEF h
    <3>2. QED
      BY <3>1
  <2>4. PICK g \in RingFrame : g = Frame("joining", "enter", f.arg, f.at, f.at)
    BY <1>4, HandlerIsFrame
  <2>5. g.fn = "joining" /\ g.pc = "enter" /\ g.at = f.arg /\ g.arg = f.at
    BY <2>4 DEF Frame
  <2>6. (Rejoins(g.arg, g.at) \/ Joins(g.arg))'
    BY <1>2, <1>4, <2>2, <2>5 DEF Rejoins, Joins
  <2>7. JoinedBy(h, g)'
    BY <1>2, <1>4, <2>1, <2>3, <2>5, <2>6 DEF JoinedBy
  <2>8. Phase(calls[t])'
    BY <1>2, <1>3, <1>5, <2>3, <2>4, <2>7, AloneCalls
  <2>9. QED
    BY <1>2, <2>2, <2>8 DEF Steady
<1>6. CASE ~Reaches(f.at, f.arg)
  <2>1. f.arg \in alive => clients[f.at][f.arg] = "closed"
    BY <1>4, <1>6, Reaching DEF Stepping, RingInv
  <2>2. ~Rejoins(f.at, f.arg)
    <3>1. Rejoins(f.at, f.arg) => f.arg \in alive
      BY <1>4 DEF Rejoins, Proper
    <3>2. QED
      BY <1>4, <2>1, <3>1 DEF Rejoins, ClosedTo
  <2>3. Sound
    BY <1>4, <2>1, <2>2 DEF Joins, NoneClosed, Sound
  <2>4. Quiet'
    BY <1>2, <1>6, <2>3, QuietKept DEF Quiet
  <2>5. Phase(calls[t])'
    BY <1>2, <1>3, <1>6, <2>4, AloneEnds
  <2>6. OpenIsAlive'
    BY <1>2, <1>6 DEF Stepping, RingInv, OpenIsAlive
  <2>7. QED
    BY <1>2, <2>5, <2>6 DEF Steady
<1>7. QED
  BY <1>5, <1>6

LEMMA EnterJoiningSteady ==
  ASSUME Stepping, NEW t \in Task, EnterJoining(t)
  PROVE  Steady(t)
<1>1. PICK f \in RingFrame : f = Top(t)
  BY TopPhase DEF Stepping, EnterJoining, At
<1>2. /\ ~Idle(t) /\ f.fn = "joining" /\ f.pc = "enter"
      /\ UNCHANGED << info, alive >>
      /\ IF info[f.at].next = f.arg
           THEN /\ clients' = [clients EXCEPT ![f.at][f.arg] = "none"]
                /\ Goto(t, [f EXCEPT !.pc = "repair"])
           ELSE Goto(t, [f EXCEPT !.pc = "copy"]) /\ UNCHANGED clients
  BY <1>1 DEF EnterJoining, At
<1>3. PICK c \in RingFrame : /\ Len(calls[t]) = 2 /\ c = calls[t][1]
                             /\ JoinedBy(c, f)
  BY <1>1, <1>2, TopPhase DEF Stepping
<1>4. /\ c.fn = "join" /\ c.pc = "await" /\ c.at = f.arg
      /\ f.at \in alive /\ f.arg \in alive /\ f.at # f.arg
      /\ Rejoins(f.arg, f.at) \/ Joins(f.arg)
      /\ f.at \in Node /\ f.arg \in Node
  BY <1>2, <1>3 DEF JoinedBy, RingFrame
<1>5. CASE info[f.at].next = f.arg
  <2>1. Rejoins(f.arg, f.at)
    BY <1>4, <1>5 DEF Joins, Proper
  <2>2. /\ OpenIsAlive'
        /\ \A S : ClosedTo(alive, clients, f.arg, S) => ClosedTo(alive, clients', f.arg, S \ {f.at})
    BY <1>2, <1>4, <1>5, Disconnecting DEF Stepping, RingInv
  <2>3. Rejoins(f.arg, f.at)'
    <3>1. ClosedTo(alive, clients', f.arg, RingWithout(info, f.arg) \ {f.at})
      BY <2>1, <2>2 DEF Rejoins
    <3>2. ClosedTo(alive, clients', f.arg, RingWithout(info, f.arg))
      BY <3>1, ClosedToLess
    <3>3. QED
      BY <1>2, <2>1, <3>2 DEF Rejoins
  <2>4. PICK g \in RingFrame :
          /\ g = [f EXCEPT !.pc = "repair"]
          /\ g.fn = "joining" /\ g.pc = "repair" /\ g.at = f.at
          /\ g.arg = f.arg
    <3> DEFINE h == [f EXCEPT !.pc = "repair"]
    <3>1. /\ h \in RingFrame
          /\ h = [f EXCEPT !.pc = "repair"]
          /\ h.fn = "joining" /\ h.pc = "repair" /\ h.at = f.at
          /\ h.arg = f.arg
      BY <1>2 DEF RingFrame
    <3> HIDE DEF h
    <3>2. QED
      BY <3>1
  <2>5. JoinedBy(c, g)'
    BY <1>2, <1>4, <2>3, <2>4 DEF JoinedBy
  <2>6. Phase(calls[t])'
    BY <1>2, <1>3, <1>5, <2>4, <2>5, HandlerGoes
  <2>7. QED
    BY <1>2, <2>2, <2>6 DEF Steady
<1>6. CASE info[f.at].next # f.arg
  <2>1. Joins(f.arg)
    BY <1>4, <1>6 DEF Rejoins, Proper
  <2>2. Joins(f.arg)'
    BY <1>2, <1>6, <2>1 DEF Joins
  <2>3. PICK g \in RingFrame :
          /\ g = [f EXCEPT !.pc = "copy"]
          /\ g.fn = "joining" /\ g.pc = "copy" /\ g.at = f.at
          /\ g.arg = f.arg
    <3> DEFINE h == [f EXCEPT !.pc = "copy"]
    <3>1. /\ h \in RingFrame
          /\ h = [f EXCEPT !.pc = "copy"]
          /\ h.fn = "joining" /\ h.pc = "copy" /\ h.at = f.at
          /\ h.arg = f.arg
      BY <1>2 DEF RingFrame
    <3> HIDE DEF h
    <3>2. QED
      BY <3>1
  <2>4. JoinedBy(c, g)'
    BY <1>2, <1>4, <2>2, <2>3 DEF JoinedBy
  <2>5. Phase(calls[t])'
    BY <1>2, <1>3, <1>6, <2>3, <2>4, HandlerGoes
  <2>6. OpenIsAlive'
    BY <1>2, <1>6 DEF Stepping, RingInv, OpenIsAlive
  <2>7. QED
    BY <1>2, <2>5, <2>6 DEF Steady
<1>7. QED
  BY <1>5, <1>6

LEMMA RepairBeforeJoinSteady ==
  ASSUME Stepping, NEW t \in Task, RepairBeforeJoin(t)
  PROVE  Steady(t)
<1>1. PICK f \in RingFrame : f = Top(t)
  BY TopPhase DEF Stepping, RepairBeforeJoin, At
<1>2. /\ ~Idle(t) /\ f.fn = "joining" /\ f.pc = "repair"
      /\ UNCHANGED << info, alive >>
      /\ RepairTopology(t, [f EXCEPT !.pc = "copy"], f.arg)
  BY <1>1 DEF RepairBeforeJoin, At
<1>3. PICK c \in RingFrame : /\ Len(calls[t]) = 2 /\ c = calls[t][1]
                             /\ JoinedBy(c, f)
  BY <1>1, <1>2, TopPhase DEF Stepping
<1>4. /\ c.fn = "join" /\ c.pc = "await" /\ c.at = f.arg
      /\ f.at \in alive /\ f.arg \in alive /\ f.at # f.arg
      /\ Rejoins(f.arg, f.at)
      /\ f.at \in Node /\ f.arg \in Node
  BY <1>2, <1>3 DEF JoinedBy, RingFrame
<1>5. Reaches(f.at, f.at)
  <2>1. clients[f.at][f.at] # "closed"
    BY <1>4 DEF Rejoins, ClosedTo
  <2>2. QED
    BY <1>4, <2>1, Reaching DEF Stepping, RingInv
<1>6. PICK h \in RingFrame :
        /\ h = [f EXCEPT !.pc = "copy"]
        /\ h.fn = "joining" /\ h.pc = "copy" /\ h.at = f.at /\ h.arg = f.arg
  <2> DEFINE h == [f EXCEPT !.pc = "copy"]
  <2>1. /\ h \in RingFrame
        /\ h = [f EXCEPT !.pc = "copy"]
        /\ h.fn = "joining" /\ h.pc = "copy" /\ h.at = f.at /\ h.arg = f.arg
    BY <1>2 DEF RingFrame
  <2> HIDE DEF h
  <2>2. QED
    BY <2>1
<1>7. PICK g \in RingFrame : g = Frame("missing", "enter", f.at, f.arg, f.at)
  BY <1>4, HandlerIsFrame
<1>8. /\ g.fn = "missing" /\ g.pc = "enter" /\ g.at = f.at /\ g.arg = f.arg
      /\ g.from = f.at
  BY <1>7 DEF Frame
<1>9. Connect(f.at, f.at) /\ Call(t, h, g)
  <2>1. RepairTopology(t, h, f.arg)
    BY <1>2, <1>6
  <2>2. f.at \in alive /\ clients[f.at][f.at] # "closed" /\ h.at = f.at
    BY <1>4, <1>6 DEF Rejoins, ClosedTo
  <2>3. QED
    BY <1>7, <2>1, <2>2 DEF RepairTopology
<1>10. /\ OpenIsAlive'
       /\ \A d, S : ClosedTo(alive, clients, d, S) => ClosedTo(alive, clients', d, S)
  BY <1>2, <1>4, <1>9, Connecting DEF Stepping, RingInv
<1>11. Repairing(g)'
  <2>1. (alive \ {f.arg}) \cup {f.arg} = alive
    BY <1>4
  <2>2. Proper((alive \ {f.arg}) \cup {f.arg}, info)
    BY <1>4, <2>1 DEF Rejoins
  <2>3. ClosedTo(alive, clients', f.arg, RingWithout(info, f.arg))
    BY <1>4, <1>10 DEF Rejoins
  <2>4. f.at \in alive \ {f.arg} /\ info[f.at].next = f.arg
    BY <1>4 DEF Rejoins, Proper
  <2>5. QED
    BY <1>2, <1>8, <2>2, <2>3, <2>4 DEF Repairing
<1>12. Phase(calls[t])'
  BY <1>2, <1>3, <1>4, <1>6, <1>8, <1>9, <1>11, HandlerCalls
<1>13. QED
  BY <1>2, <1>10, <1>12 DEF Steady

LEMMA CopyNeighborsSteady ==
  ASSUME Stepping, NEW t \in Task, CopyNeighbors(t)
  PROVE  Steady(t)
<1>1. PICK f \in RingFrame : f = Top(t)
  BY TopPhase DEF Stepping, CopyNeighbors, At
<1> DEFINE s == info[f.at].next
           a == Set(f.at, s, "prev", f.arg)
           b == Set(f.at, info[f.at].prev, "nnext", f.arg)
<1>2. /\ ~Idle(t) /\ f.fn = "joining" /\ f.pc = "copy"
      /\ UNCHANGED << info, alive, clients >>
      /\ Goto(t, [f EXCEPT !.pc = "tell", !.next = s, !.todo = << a, b >>])
  BY <1>1 DEF CopyNeighbors, At
<1>3. PICK c \in RingFrame : /\ Len(calls[t]) = 2 /\ c = calls[t][1]
                             /\ JoinedBy(c, f)
  BY <1>1, <1>2, TopPhase DEF Stepping
<1>4. /\ c.fn = "join" /\ c.pc = "await" /\ c.at = f.arg
      /\ f.at \in alive /\ f.arg \in alive /\ f.at # f.arg
      /\ Proper(alive \ {f.arg}, info) /\ NoneClosed(alive, clients)
      /\ f.at \in Node /\ f.arg \in Node /\ s \in Node /\ info[f.at].prev \in Node
      /\ info \in Infos
  BY <1>2, <1>3, Typed DEF JoinedBy, Joins, RingFrame, Stepping, Infos, Neighborhood
<1>5. s \in alive /\ info[f.at].prev \in alive
  BY <1>4 DEF Proper
<1>6. /\ a \in Setting /\ a.by = f.at /\ a.who = s /\ a.field = "prev"
      /\ b \in Setting /\ b.by = f.at /\ b.who = info[f.at].prev
      /\ b.field = "nnext"
  BY <1>4, SetIsSetting DEF Set
<1>7. Proper(alive, Inserted(After(info, << a, b >>), f.at, f.arg, s))
  <2> DEFINE A == alive \ {f.arg}
  <2>1. /\ A \in SUBSET Node /\ Proper(A, info) /\ f.at \in A
        /\ f.arg \in Node \ A /\ A \cup {f.arg} = alive
    BY <1>4, Typed DEF Stepping
  <2> HIDE DEF A
  <2>2. QED
    BY <1>4, <2>1, JoinIsProper
<1> HIDE DEF a, b, s
<1>8. << a, b >> \in Seq(Setting)
  BY <1>6
<1>9. PICK g \in RingFrame :
        /\ g = [f EXCEPT !.pc = "tell", !.next = s, !.todo = << a, b >>]
        /\ g.fn = "joining" /\ g.pc = "tell" /\ g.at = f.at /\ g.arg = f.arg
        /\ g.next = s /\ g.todo = << a, b >>
  <2> DEFINE h == [f EXCEPT !.pc = "tell", !.next = s, !.todo = << a, b >>]
  <2>1. /\ h \in RingFrame
        /\ h = [f EXCEPT !.pc = "tell", !.next = s, !.todo = << a, b >>]
        /\ h.fn = "joining" /\ h.pc = "tell" /\ h.at = f.at /\ h.arg = f.arg
        /\ h.next = s /\ h.todo = << a, b >>
    BY <1>2, <1>4, <1>8 DEF RingFrame
  <2> HIDE DEF h
  <2>2. QED
    BY <2>1
<1>10. /\ Len(<< a, b >>) <= 2 /\ Addressed(alive, << a, b >>)
       /\ \A k \in DOMAIN << a, b >> : << a, b >>[k].field # "nnextOfPrev"
  <2>1. DOMAIN << a, b >> = {1, 2} /\ << a, b >>[1] = a /\ << a, b >>[2] = b
        /\ Len(<< a, b >>) = 2
    OBVIOUS
  <2>2. QED
    BY <1>4, <1>5, <1>6, <2>1 DEF Addressed
<1>11. JoinedBy(c, g)'
  BY <1>2, <1>4, <1>7, <1>9, <1>10 DEF JoinedBy
<1>12. Phase(calls[t])'
  BY <1>2, <1>3, <1>9, <1>11, HandlerGoes
<1>13. OpenIsAlive'
  BY <1>2 DEF Stepping, RingInv, OpenIsAlive
<1>14. QED
  BY <1>2, <1>12, <1>13 DEF Steady

\* The node that is asked to join sets its own fields first.
HalfInserted(i, o, n, s) == [i EXCEPT ![o].nnext = s, ![o].next = n]

LEMMA InsertedInTurn ==
  ASSUME NEW i \in Infos, NEW o \in Node, NEW n \in Node, NEW s \in Node, o # n
  PROVE  /\ [HalfInserted(i, o, n, s) EXCEPT
               ![n] = [next |-> s, nnext |-> i[o].nnext, prev |-> o]]
              = Inserted(i, o, n, s)
         /\ \A m \in Node \ {o} : HalfInserted(i, o, n, s)[m] = i[m]
<1> DEFINE a == [next |-> n, nnext |-> s, prev |-> i[o].prev]
           b == [next |-> s, nnext |-> i[o].nnext, prev |-> o]
           k == HalfInserted(i, o, n, s)
<1>1. i \in [Node -> Neighborhood] /\ i[o] \in Neighborhood
  BY DEF Infos
<1>2. [[i[o] EXCEPT !.nnext = s] EXCEPT !.next = n] = a
  <2> DEFINE x == [i[o] EXCEPT !.nnext = s]
             y == [x EXCEPT !.next = n]
  <2>1. x \in Neighborhood /\ x.nnext = s /\ x.prev = i[o].prev
    BY <1>1 DEF Neighborhood
  <2> HIDE DEF x
  <2>2. y \in Neighborhood /\ y.next = n /\ y.nnext = s /\ y.prev = i[o].prev
    BY <2>1 DEF Neighborhood
  <2> HIDE DEF y
  <2>3. y = a
    BY <2>2 DEF Neighborhood
  <2>4. QED
    BY <2>3 DEF x, y
<1>3. k = [i EXCEPT ![o] = a]
  <2>1. k = [i EXCEPT ![o] = [[i[o] EXCEPT !.nnext = s] EXCEPT !.next = n]]
    <3> DEFINE x == [i[o] EXCEPT !.nnext = s]
               y == [i EXCEPT ![o] = x]
    <3>1. DOMAIN y = Node /\ y[o] = x /\ \A m \in Node \ {o} : y[m] = i[m]
      BY <1>1
    <3>2. k = [y EXCEPT ![o] = [y[o] EXCEPT !.next = n]]
      BY DEF HalfInserted
    <3> HIDE DEF x
    <3>3. k = [i EXCEPT ![o] = [x EXCEPT !.next = n]]
      BY <1>1, <3>1, <3>2
    <3>4. QED
      BY <3>3 DEF x
  <2>2. QED
    BY <1>2, <2>1
<1> HIDE DEF k, a
<1>4. [k EXCEPT ![n] = b] = Inserted(i, o, n, s)
  BY <1>3 DEF Inserted, a
<1>5. \A m \in Node \ {o} : k[m] = i[m]
  BY <1>1, <1>3
<1>6. QED
  BY <1>4, <1>5 DEF k

LEMMA InsertNextSteady ==
  ASSUME Stepping, NEW t \in Task, InsertNext(t)
  PROVE  Steady(t)
<1>1. PICK f \in RingFrame : f = Top(t)
  BY TopPhase DEF Stepping, InsertNext, Told, At
<1>2. /\ ~Idle(t) /\ f.fn = "joining" /\ f.pc = "tell" /\ f.todo = << >>
      /\ UNCHANGED << alive, clients >>
      /\ info' = [info EXCEPT ![f.at].nnext = f.next, ![f.at].next = f.arg]
      /\ ReturnTo(t, [Caller(t) EXCEPT !.pc = "install", !.next = f.next,
                                       !.nnext = info[f.at].nnext,
                                       !.prev = f.at])
  BY <1>1 DEF InsertNext, Told, At
<1>a. info' = HalfInserted(info, f.at, f.arg, f.next)
  BY <1>2 DEF HalfInserted
<1>3. PICK c \in RingFrame : /\ Len(calls[t]) = 2 /\ c = calls[t][1]
                             /\ JoinedBy(c, f) /\ c = Caller(t)
  BY <1>1, <1>2, TopPhase DEF Stepping
<1>4. /\ c.fn = "join" /\ c.pc = "await" /\ c.at = f.arg
      /\ f.at \in alive /\ f.arg \in alive /\ f.at # f.arg
      /\ Proper(alive, Inserted(info, f.at, f.arg, f.next)) /\ NoneClosed(alive, clients)
      /\ f.at \in Node /\ f.arg \in Node /\ f.next \in Node
      /\ info[f.at].nnext \in Node /\ info \in Infos
  BY <1>2, <1>3, AfterNone, Typed
     DEF JoinedBy, RingFrame, Stepping, Infos, Neighborhood
<1>5. PICK g \in RingFrame :
        /\ g = [c EXCEPT !.pc = "install", !.next = f.next,
                         !.nnext = info[f.at].nnext, !.prev = f.at]
        /\ g.fn = "join" /\ g.pc = "install" /\ g.at = f.arg
        /\ g.next = f.next /\ g.nnext = info[f.at].nnext /\ g.prev = f.at
  <2> DEFINE h == [c EXCEPT !.pc = "install", !.next = f.next,
                            !.nnext = info[f.at].nnext, !.prev = f.at]
  <2>1. /\ h \in RingFrame
        /\ h = [c EXCEPT !.pc = "install", !.next = f.next,
                         !.nnext = info[f.at].nnext, !.prev = f.at]
        /\ h.fn = "join" /\ h.pc = "install" /\ h.at = f.arg
        /\ h.next = f.next /\ h.nnext = info[f.at].nnext /\ h.prev = f.at
    BY <1>4 DEF RingFrame
  <2> HIDE DEF h
  <2>2. QED
    BY <2>1
<1>6. Proper(alive, [info' EXCEPT ![g.at] = [next |-> g.next, nnext |-> g.nnext,
                                              prev |-> g.prev]])
  <2>1. PICK k : k = info'
    OBVIOUS
  <2>2. [k EXCEPT ![f.arg] = [next |-> f.next, nnext |-> info[f.at].nnext,
                              prev |-> f.at]]
          = Inserted(info, f.at, f.arg, f.next)
    BY <1>a, <1>4, <2>1, InsertedInTurn
  <2>3. QED
    BY <1>4, <1>5, <2>1, <2>2
<1>7. Joining(g)'
  BY <1>2, <1>4, <1>5, <1>6 DEF Joining
<1>8. Phase(calls[t])'
  BY <1>2, <1>3, <1>5, <1>7, HandlerReturns
<1>9. \A e \in Node \ alive : info'[e] = info[e]
  BY <1>a, <1>4, InsertedInTurn
<1>10. OpenIsAlive'
  BY <1>2 DEF Stepping, RingInv, OpenIsAlive
<1>11. QED
  BY <1>2, <1>8, <1>9, <1>10 DEF Steady

LEMMA InstallNeighborsSteady ==
  ASSUME Stepping, NEW t \in Task, InstallNeighbors(t)
  PROVE  Steady(t)
<1>1. PICK f \in RingFrame : f = Top(t)
  BY TopPhase DEF Stepping, InstallNeighbors, At
<1>2. /\ ~Idle(t) /\ f.fn = "join" /\ f.pc = "install" /\ Return(t)
      /\ UNCHANGED << alive, clients >>
      /\ info' = [info EXCEPT ![f.at] = [next |-> f.next, nnext |-> f.nnext,
                                         prev |-> f.prev]]
  BY <1>1 DEF InstallNeighbors, At
<1>3. Len(calls[t]) = 1 /\ Joining(f)
  BY <1>1, <1>2, TopPhase DEF Stepping
<1>4. /\ f.at \in alive /\ NoneClosed(alive, clients) /\ Proper(alive, info')
  BY <1>2, <1>3 DEF Joining
<1>5. Quiet'
  BY <1>2, <1>4 DEF Quiet, Sound
<1>6. Phase(calls[t])'
  BY <1>2, <1>3, <1>5, AloneEnds
<1>7. \A e \in Node \ alive : info'[e] = info[e]
  BY <1>2, <1>4, Typed DEF Stepping, Infos
<1>8. OpenIsAlive'
  BY <1>2 DEF Stepping, RingInv, OpenIsAlive
<1>9. QED
  BY <1>2, <1>6, <1>7, <1>8 DEF Steady

-----------------------------------------------------------------------------
(* The fields of other nodes.                                              *)

LEMMA FieldIsSet ==
  ASSUME NEW i \in Infos, NEW s \in Setting, s.field # "nnextOfPrev"
  PROVE  [i EXCEPT ![s.who][s.field] = s.value] = Apply(i, s)
<1>1. s.field \in {"next", "nnext", "prev"}
  BY DEF Setting
<1>2. CASE s.field = "next"
  BY <1>2 DEF Apply, WithNext
<1>3. CASE s.field = "nnext"
  BY <1>3 DEF Apply, WithNnext
<1>4. CASE s.field = "prev"
  BY <1>4 DEF Apply, WithPrev
<1>5. QED
  BY <1>1, <1>2, <1>3, <1>4

\* A list of settings with one before it, and without its first one.
LEMMA SettingsBefore ==
  ASSUME NEW e \in Setting, NEW r \in Seq(Setting), NEW q, q = << e >> \o r
  PROVE  /\ q \in Seq(Setting) /\ q # << >> /\ Head(q) = e /\ Tail(q) = r
         /\ Len(q) = Len(r) + 1
         /\ \A k \in DOMAIN q : q[k] = e \/ \E j \in DOMAIN r : q[k] = r[j]
<1>1. q \in Seq(Setting) /\ Len(q) = Len(r) + 1 /\ q[1] = e
      /\ \A k \in 2 .. Len(q) : q[k] = r[k - 1]
  OBVIOUS
<1>2. q # << >> /\ Head(q) = e
  BY <1>1
<1>3. Tail(q) = r
  <2>1. Tail(q) \in Seq(Setting) /\ Len(Tail(q)) = Len(r)
        /\ \A k \in 1 .. Len(r) : Tail(q)[k] = q[k + 1]
    BY <1>1
  <2>2. \A k \in 1 .. Len(r) : Tail(q)[k] = r[k]
    BY <1>1, <2>1
  <2>3. QED
    BY <2>1, <2>2
<1>4. ASSUME NEW k \in DOMAIN q
      PROVE  q[k] = e \/ \E j \in DOMAIN r : q[k] = r[j]
  <2>1. k \in 1 .. Len(r) + 1 /\ Len(r) \in Nat
    BY <1>1
  <2>2. k # 1 => k - 1 \in DOMAIN r /\ k \in 2 .. Len(q)
    BY <1>1, <2>1
  <2>3. QED
    BY <1>1, <2>2
<1>5. QED
  BY <1>1, <1>2, <1>3, <1>4

LEMMA SettingsAfter ==
  ASSUME NEW q \in Seq(Setting), q # << >>
  PROVE  \A k \in DOMAIN Tail(q) : \E j \in DOMAIN q : Tail(q)[k] = q[j]
<1> TAKE k \in DOMAIN Tail(q)
<1>1. k \in 1 .. Len(q) - 1 /\ Len(q) \in Nat
  OBVIOUS
<1>2. k + 1 \in DOMAIN q /\ Tail(q)[k] = q[k + 1]
  BY <1>1
<1>3. QED
  BY <1>2

\* What is still to be set leads to the same neighbors as before.
TellsOn(t, f, s, g) ==
  /\ Goto(t, g) /\ g.fn = f.fn /\ g.pc = "tell" /\ g.at = f.at
  /\ g.arg = f.arg /\ g.from = f.from /\ g.next = f.next
  /\ Len(g.todo) <= Len(f.todo)
  /\ After(info', g.todo) = After(info, f.todo)
  /\ \A k \in DOMAIN g.todo :
       \/ \E j \in DOMAIN f.todo : g.todo[k] = f.todo[j]
       \/ /\ s.field = "nnextOfPrev"
          /\ g.todo[k] = Set(s.who, info[s.who].prev, "nnext", s.value)

LEMMA Telling ==
  ASSUME Stepping, NEW t \in Task, TellNeighbor(t), NEW f \in RingFrame,
         f = Top(t), Len(f.todo) <= 4, NEW s, s = Head(f.todo),
         s.who \in alive, clients[s.by][s.who] # "closed"
  PROVE  /\ UNCHANGED alive /\ OpenIsAlive'
         /\ NoneClosed(alive, clients) => NoneClosed(alive, clients')
         /\ \A d, S : ClosedTo(alive, clients, d, S) => ClosedTo(alive, clients', d, S)
         /\ IF s.field = "nnextOfPrev" THEN UNCHANGED info
                                       ELSE info' = Apply(info, s)
         /\ \E g \in RingFrame : TellsOn(t, f, s, g)
<1> DEFINE e == Set(s.who, info[s.who].prev, "nnext", s.value)
           r == Tail(f.todo)
           q == << e >> \o r
<1>1. /\ ~Idle(t) /\ f.pc = "tell" /\ f.todo # << >> /\ UNCHANGED alive
      /\ IF ~Reaches(s.by, s.who) THEN Fail(t)
         ELSE /\ Connect(s.by, s.who)
              /\ IF s.field = "nnextOfPrev"
                   THEN Goto(t, [f EXCEPT !.todo = q]) /\ UNCHANGED info
                   ELSE /\ Goto(t, [f EXCEPT !.todo = r])
                        /\ info' = [info EXCEPT ![s.who][s.field] = s.value]
  BY DEF TellNeighbor
<1>2. f.todo \in Seq(Setting)
  BY DEF RingFrame
<1>3. /\ s \in Setting /\ r \in Seq(Setting) /\ Len(r) = Len(f.todo) - 1
      /\ After(info, f.todo) = After(Apply(info, s), r) /\ Len(f.todo) \in Nat
      /\ \A k \in DOMAIN r : \E j \in DOMAIN f.todo : r[k] = f.todo[j]
  BY <1>1, <1>2, FirstSetting, SettingsAfter
<1>4. s.by \in Node /\ s.who \in Node /\ s.value \in Node /\ info \in Infos
      /\ info[s.who].prev \in Node
  BY <1>3, Typed DEF Setting, Stepping, Infos, Neighborhood
<1>5. Reaches(s.by, s.who)
  BY <1>4, Reaching DEF Stepping, RingInv
<1>6. /\ OpenIsAlive'
      /\ NoneClosed(alive, clients) => NoneClosed(alive, clients')
      /\ \A d, S : ClosedTo(alive, clients, d, S) => ClosedTo(alive, clients', d, S)
  BY <1>1, <1>4, <1>5, Connecting DEF Stepping, RingInv
<1>7. e \in Setting /\ Apply(info, e) = WithNnext(info, info[s.who].prev, s.value)
  <2>1. e \in Setting /\ e.field = "nnext" /\ e.who = info[s.who].prev
        /\ e.value = s.value
    BY <1>4, SetIsSetting DEF Set
  <2>2. QED
    BY <2>1 DEF Apply
<1> HIDE DEF r, e
<1>8. /\ q \in Seq(Setting) /\ q # << >> /\ Head(q) = e /\ Tail(q) = r
      /\ Len(q) = Len(r) + 1
      /\ \A k \in DOMAIN q : q[k] = e \/ \E j \in DOMAIN r : q[k] = r[j]
  BY <1>3, <1>7, SettingsBefore
<1> HIDE DEF q
<1>9. CASE s.field = "nnextOfPrev"
  <2>1. PICK g \in RingFrame :
          /\ g = [f EXCEPT !.todo = q]
          /\ g.fn = f.fn /\ g.pc = "tell" /\ g.at = f.at /\ g.arg = f.arg
          /\ g.from = f.from /\ g.next = f.next /\ g.todo = q
    <3> DEFINE h == [f EXCEPT !.todo = q]
    <3>1. /\ h \in RingFrame
          /\ h = [f EXCEPT !.todo = q]
          /\ h.fn = f.fn /\ h.pc = "tell" /\ h.at = f.at /\ h.arg = f.arg
          /\ h.from = f.from /\ h.next = f.next /\ h.todo = q
      BY <1>1, <1>8 DEF RingFrame
    <3> HIDE DEF h
    <3>2. QED
      BY <3>1
  <2>2. Goto(t, g) /\ UNCHANGED info
    BY <1>1, <1>5, <1>9, <2>1
  <2>3. After(info, q) = After(info, f.todo)
    <3>1. After(info, q) = After(Apply(info, e), r)
      <4>1. Len(q) <= 4
        BY <1>3, <1>8
      <4>2. QED
        BY <1>8, <4>1, FirstSetting
    <3>2. Apply(info, e) = Apply(info, s)
      BY <1>7, <1>9 DEF Apply
    <3>3. QED
      BY <1>3, <3>1, <3>2
  <2>4. Len(q) <= Len(f.todo)
    BY <1>3, <1>8
  <2>5. \A k \in DOMAIN g.todo :
          (\E j \in DOMAIN f.todo : g.todo[k] = f.todo[j]) \/ g.todo[k] = e
    BY <1>3, <1>8, <2>1
  <2>6. After(info', g.todo) = After(info, f.todo) /\ Len(g.todo) <= Len(f.todo)
    BY <2>1, <2>2, <2>3, <2>4
  <2>7. TellsOn(t, f, s, g)
    BY <1>9, <2>1, <2>2, <2>5, <2>6 DEF TellsOn, e
  <2>8. QED
    BY <1>1, <1>6, <1>9, <2>2, <2>7 DEF e
<1>10. CASE s.field # "nnextOfPrev"
  <2>1. PICK g \in RingFrame :
          /\ g = [f EXCEPT !.todo = r]
          /\ g.fn = f.fn /\ g.pc = "tell" /\ g.at = f.at /\ g.arg = f.arg
          /\ g.from = f.from /\ g.next = f.next /\ g.todo = r
    <3> DEFINE h == [f EXCEPT !.todo = r]
    <3>1. /\ h \in RingFrame
          /\ h = [f EXCEPT !.todo = r]
          /\ h.fn = f.fn /\ h.pc = "tell" /\ h.at = f.at /\ h.arg = f.arg
          /\ h.from = f.from /\ h.next = f.next /\ h.todo = r
      BY <1>1, <1>3 DEF RingFrame
    <3> HIDE DEF h
    <3>2. QED
      BY <3>1
  <2>2. Goto(t, g) /\ info' = Apply(info, s)
    BY <1>1, <1>3, <1>4, <1>5, <1>10, <2>1, FieldIsSet
  <2>3. After(info', r) = After(info, f.todo)
    BY <1>3, <2>2
  <2>4. Len(r) <= Len(f.todo)
    BY <1>3
  <2>5. \A k \in DOMAIN g.todo : \E j \in DOMAIN f.todo : g.todo[k] = f.todo[j]
    BY <1>3, <2>1
  <2>6. After(info', g.todo) = After(info, f.todo) /\ Len(g.todo) <= Len(f.todo)
    BY <2>1, <2>3, <2>4
  <2>7. TellsOn(t, f, s, g)
    BY <1>10, <2>1, <2>2, <2>5, <2>6 DEF TellsOn, e
  <2>8. QED
    BY <1>1, <1>6, <1>10, <2>2, <2>7 DEF e
<1>11. QED
  BY <1>9, <1>10

LEMMA NextKept ==
  ASSUME NEW i, NEW j, NEW w, NEW field, NEW v, Differs(i, j, w, field, v),
         field # "next"
  PROVE  SameNext(i, j)
BY DEF Differs, SameNext

LEMMA OtherNode ==
  ASSUME NEW i, NEW j \in Infos, NEW w, NEW field, NEW v, Differs(i, j, w, field, v),
         NEW e \in Node, e # w
  PROVE  i[e] = j[e]
<1>1. i[e] \in Neighborhood /\ j[e] \in Neighborhood
  BY DEF Differs, Infos
<1>2. i[e].next = j[e].next /\ i[e].nnext = j[e].nnext /\ i[e].prev = j[e].prev
  BY DEF Differs
<1>3. QED
  BY <1>1, <1>2 DEF Neighborhood

\* The field that is set first is that of a node that runs.
LEMMA FirstAddressed ==
  ASSUME RingTypeOK, NEW f \in RingFrame, f.todo # << >>, NEW A, A \subseteq alive,
         Addressed(A, f.todo)
  PROVE  /\ 1 \in DOMAIN f.todo /\ Head(f.todo) = f.todo[1]
         /\ Head(f.todo) \in Setting
         /\ Head(f.todo).by \in A /\ Head(f.todo).who \in A
         /\ Head(f.todo).by \in Node /\ Head(f.todo).who \in Node
         /\ Head(f.todo).field # "nnextOfPrev" =>
              \A e \in Node \ alive : info[e] = Apply(info, Head(f.todo))[e]
<1>1. f.todo \in Seq(Setting)
  BY DEF RingFrame
<1>2. 1 \in DOMAIN f.todo /\ Head(f.todo) = f.todo[1] /\ Head(f.todo) \in Setting
  BY <1>1
<1>3. Head(f.todo).by \in A /\ Head(f.todo).who \in A
  BY <1>2 DEF Addressed
<1>4. Head(f.todo).by \in Node /\ Head(f.todo).who \in Node
  BY <1>2 DEF Setting
<1>5. ASSUME NEW e \in Node \ alive, Head(f.todo).field # "nnextOfPrev"
      PROVE  info[e] = Apply(info, Head(f.todo))[e]
  BY <1>2, <1>3, <1>5, Applied, OtherNode, Typed
<1>6. QED
  BY <1>2, <1>3, <1>4, <1>5

LEMMA TellJoining ==
  ASSUME Stepping, NEW t \in Task, TellNeighbor(t), Top(t).fn = "joining"
  PROVE  Steady(t)
<1>1. PICK f \in RingFrame : f = Top(t)
  BY TopPhase DEF Stepping, TellNeighbor
<1>2. ~Idle(t) /\ f.fn = "joining" /\ f.pc = "tell" /\ f.todo # << >>
  BY <1>1 DEF TellNeighbor
<1>3. PICK c \in RingFrame : /\ Len(calls[t]) = 2 /\ c = calls[t][1]
                             /\ JoinedBy(c, f)
  BY <1>1, <1>2, TopPhase DEF Stepping
<1>4. /\ c.fn = "join" /\ c.pc = "await" /\ c.at = f.arg
      /\ f.at \in alive /\ f.arg \in alive /\ f.at # f.arg
      /\ NoneClosed(alive, clients) /\ Len(f.todo) <= 2 /\ Addressed(alive, f.todo)
      /\ \A k \in DOMAIN f.todo : f.todo[k].field # "nnextOfPrev"
      /\ Proper(alive, Inserted(After(info, f.todo), f.at, f.arg, f.next))
  BY <1>2, <1>3 DEF JoinedBy
<1>5. PICK s : s = Head(f.todo)
  OBVIOUS
<1>6. /\ s.who \in alive /\ clients[s.by][s.who] # "closed"
      /\ s.field # "nnextOfPrev" /\ Len(f.todo) <= 4 /\ Len(f.todo) \in Nat
      /\ \A e \in Node \ alive : info[e] = Apply(info, s)[e]
  <2>1. f.todo \in Seq(Setting)
    BY DEF RingFrame
  <2>2. QED
    BY <1>2, <1>4, <1>5, <2>1, FirstAddressed DEF Stepping, NoneClosed
<1>7. /\ UNCHANGED alive /\ OpenIsAlive'
      /\ NoneClosed(alive, clients) => NoneClosed(alive, clients')
      /\ info' = Apply(info, s)
  BY <1>1, <1>5, <1>6, Telling
<1>8. PICK g \in RingFrame : TellsOn(t, f, s, g)
  BY <1>1, <1>5, <1>6, Telling
<1>9. /\ Addressed(alive, g.todo) /\ Len(g.todo) <= 2
      /\ \A k \in DOMAIN g.todo : g.todo[k].field # "nnextOfPrev"
  <2>1. g.todo \in Seq(Setting) /\ Len(g.todo) \in Nat
    BY DEF RingFrame
  <2>2. QED
    BY <1>4, <1>6, <1>8, <2>1 DEF TellsOn, Addressed
<1>10. JoinedBy(c, g)'
  BY <1>2, <1>4, <1>7, <1>8, <1>9 DEF TellsOn, JoinedBy
<1>11. Phase(calls[t])'
  BY <1>2, <1>3, <1>8, <1>10, HandlerGoes DEF TellsOn
<1>12. QED
  BY <1>6, <1>7, <1>11 DEF Steady

LEMMA TellMissing ==
  ASSUME Stepping, NEW t \in Task, TellNeighbor(t), Top(t).fn = "missing"
  PROVE  Steady(t)
<1>1. PICK f \in RingFrame : f = Top(t)
  BY TopPhase DEF Stepping, TellNeighbor
<1>2. ~Idle(t) /\ f.fn = "missing" /\ f.pc = "tell" /\ f.todo # << >>
  BY <1>1 DEF TellNeighbor
<1>3. Repairing(f) /\ AwaitsRepair(calls[t], f)
  BY <1>1, <1>2, TopPhase DEF Stepping
<1>4. PICK A : A = alive \ {f.arg}
  OBVIOUS
<1>5. /\ f.from \in A /\ f.at \in A /\ Len(f.todo) <= 1 /\ Addressed(A, f.todo)
      /\ \A k \in DOMAIN f.todo : f.todo[k].field = "nnext"
      /\ f.at \in Reached(info, f.from) /\ f.next = info[f.at].next
      /\ Proper(A, After(info, f.todo))
      /\ ClosedTo(alive, clients, f.arg, Upto(info, f.next, f.from))
  BY <1>2, <1>3, <1>4 DEF Repairing
<1>6. PICK s : s = Head(f.todo)
  OBVIOUS
<1>7. /\ s \in Setting /\ s.who \in alive /\ clients[s.by][s.who] # "closed"
      /\ s.field = "nnext" /\ Len(f.todo) <= 4 /\ Len(f.todo) \in Nat
      /\ \A e \in Node \ alive : info[e] = Apply(info, s)[e]
  <2>1. f.todo \in Seq(Setting)
    BY DEF RingFrame
  <2>2. A \subseteq alive /\ f.arg \notin A
    BY <1>4
  <2>3. /\ s \in Setting /\ s.field = "nnext" /\ s.who \in A
        /\ s.who \in Node /\ s.by \in Node
        /\ \A e \in Node \ alive : info[e] = Apply(info, s)[e]
    BY <1>2, <1>5, <1>6, <2>2, FirstAddressed DEF Stepping
  <2>4. clients[s.by][s.who] # "closed"
    BY <1>5, <2>2, <2>3 DEF ClosedTo
  <2>5. QED
    BY <1>5, <2>1, <2>2, <2>3, <2>4
<1>8. /\ UNCHANGED alive /\ OpenIsAlive'
      /\ \A d, S : ClosedTo(alive, clients, d, S) => ClosedTo(alive, clients', d, S)
      /\ info' = Apply(info, s)
  BY <1>1, <1>6, <1>7, Telling
<1>9. PICK g \in RingFrame : TellsOn(t, f, s, g)
  BY <1>1, <1>6, <1>7, Telling
<1>10. /\ Addressed(A, g.todo) /\ Len(g.todo) <= 1
       /\ \A k \in DOMAIN g.todo : g.todo[k].field = "nnext"
  <2>1. g.todo \in Seq(Setting) /\ Len(g.todo) \in Nat
    BY DEF RingFrame
  <2>2. QED
    BY <1>5, <1>7, <1>9, <2>1 DEF TellsOn, Addressed
<1>11. SameNext(info', info)
  <2>1. Differs(info', info, s.who, "nnext", s.value)
    BY <1>7, <1>8, Applied, Typed DEF Stepping
  <2>2. QED
    BY <2>1 DEF Differs, SameNext
<1>12. /\ Reached(info', f.from) = Reached(info, f.from)
       /\ Upto(info', f.next, f.from) = Upto(info, f.next, f.from)
  BY <1>11, ReachedSame, UptoSame
<1>13. info'[f.at].next = info[f.at].next
  BY <1>4, <1>5, <1>11, Typed DEF SameNext, Stepping
<1>14. Repairing(g)'
  BY <1>2, <1>4, <1>5, <1>8, <1>9, <1>10, <1>12, <1>13 DEF TellsOn, Repairing
<1>15. Phase(calls[t])'
  BY <1>1, <1>2, <1>3, <1>8, <1>9, <1>14, RepairGoes DEF TellsOn
<1>16. QED
  BY <1>7, <1>8, <1>15 DEF Steady

\* A field that is set to a node that runs, and so is every other value.
LEMMA TellLeaving ==
  ASSUME Stepping, NEW t \in Task, TellNeighbor(t), Top(t).fn = "leaving"
  PROVE  Steady(t)
<1>1. PICK f \in RingFrame : f = Top(t)
  BY TopPhase DEF Stepping, TellNeighbor
<1>2. ~Idle(t) /\ f.fn = "leaving" /\ f.pc = "tell" /\ f.todo # << >>
  BY <1>1 DEF TellNeighbor
<1>3. PICK c \in RingFrame : /\ Len(calls[t]) = 2 /\ c = calls[t][1]
                             /\ LeftBy(c, f)
  BY <1>1, <1>2, TopPhase DEF Stepping
<1>4. /\ c.fn = "leave" /\ c.pc = "await" /\ c.at = f.at /\ f.at \in alive
      /\ NoneClosed(alive, clients) /\ Len(f.todo) <= 4 /\ Addressed(alive, f.todo)
      /\ \A m \in alive : info[m].prev \in alive
      /\ \A k \in DOMAIN f.todo : f.todo[k].value \in alive
      /\ Proper(alive, Left(After(info, f.todo), f.at))
  BY <1>2, <1>3 DEF LeftBy
<1>5. PICK s : s = Head(f.todo)
  OBVIOUS
<1>6. /\ s \in Setting /\ s.who \in alive /\ clients[s.by][s.who] # "closed"
      /\ s.value \in alive /\ Len(f.todo) \in Nat
      /\ s.field # "nnextOfPrev" =>
           \A e \in Node \ alive : info[e] = Apply(info, s)[e]
  <2>1. f.todo \in Seq(Setting)
    BY DEF RingFrame
  <2>2. QED
    BY <1>2, <1>4, <1>5, <2>1, FirstAddressed DEF Stepping, NoneClosed
<1>7. /\ UNCHANGED alive /\ OpenIsAlive'
      /\ NoneClosed(alive, clients) => NoneClosed(alive, clients')
      /\ IF s.field = "nnextOfPrev" THEN UNCHANGED info
                                    ELSE info' = Apply(info, s)
  BY <1>1, <1>4, <1>5, <1>6, Telling
<1>8. PICK g \in RingFrame : TellsOn(t, f, s, g)
  BY <1>1, <1>4, <1>5, <1>6, Telling
<1>9. Len(g.todo) <= 4
  <2>1. g.todo \in Seq(Setting) /\ Len(g.todo) \in Nat
    BY DEF RingFrame
  <2>2. QED
    BY <1>4, <1>6, <1>8, <2>1 DEF TellsOn
<1>10. ASSUME NEW k \in DOMAIN g.todo
       PROVE  g.todo[k].by \in alive /\ g.todo[k].who \in alive
              /\ g.todo[k].value \in alive
  <2>1. CASE \E j \in DOMAIN f.todo : g.todo[k] = f.todo[j]
    BY <1>4, <2>1 DEF Addressed
  <2>2. CASE g.todo[k] = Set(s.who, info[s.who].prev, "nnext", s.value)
    BY <1>4, <1>6, <2>2 DEF Set
  <2>3. QED
    BY <1>8, <2>1, <2>2 DEF TellsOn
<1>11. \A m \in alive : info'[m].prev \in alive
  <2>1. CASE s.field = "nnextOfPrev"
    BY <1>4, <1>7, <2>1
  <2>2. CASE s.field # "nnextOfPrev"
    <3>1. Differs(info', info, s.who, s.field, s.value)
      BY <1>6, <1>7, <2>2, Applied, Typed DEF Stepping
    <3>2. \A m \in alive : m \in Node
      BY Typed DEF Stepping
    <3>3. QED
      BY <1>4, <1>6, <3>1, <3>2 DEF Differs
  <2>3. QED
    BY <2>1, <2>2
<1>12. LeftBy(c, g)'
  BY <1>2, <1>4, <1>7, <1>8, <1>9, <1>10, <1>11 DEF TellsOn, LeftBy, Addressed
<1>13. Phase(calls[t])'
  BY <1>2, <1>3, <1>8, <1>12, HandlerGoes DEF TellsOn
<1>14. QED
  BY <1>6, <1>7, <1>13 DEF Steady

LEMMA TellNeighborSteady ==
  ASSUME Stepping, NEW t \in Task, TellNeighbor(t)
  PROVE  Steady(t)
<1>1. PICK f \in RingFrame : f = Top(t)
  BY TopPhase DEF Stepping, TellNeighbor
<1>2. ~Idle(t) /\ f.pc = "tell"
  BY <1>1 DEF TellNeighbor
<1>3. f.fn \in {"join", "joining", "leave", "leaving", "missing", "query"}
  BY DEF RingFrame
<1>4. /\ f.fn = "query" => Querying(f)
      /\ f.fn = "join" => Joining(f)
      /\ f.fn = "leave" => Leaving(f)
  BY <1>1, <1>2, TopPhase DEF Stepping
<1>5. f.fn \notin {"query", "join", "leave"}
  BY <1>2, <1>4 DEF Querying, Joining, Leaving
<1>6. QED
  BY <1>1, <1>3, <1>5, TellJoining, TellMissing, TellLeaving

-----------------------------------------------------------------------------
(* Leaves.                                                                 *)

LEMMA CallLeavingSteady ==
  ASSUME Stepping, NEW t \in Task, CallLeaving(t)
  PROVE  Steady(t)
<1>1. PICK f \in RingFrame : f = Top(t)
  BY TopPhase DEF Stepping, CallLeaving, At
<1>2. /\ ~Idle(t) /\ f.fn = "leave" /\ f.pc = "call" /\ UNCHANGED << info, alive >>
      /\ IF Reaches(f.at, f.at)
           THEN /\ Connect(f.at, f.at)
                /\ Call(t, [f EXCEPT !.pc = "await"],
                        Frame("leaving", "copy", f.at, f.at, f.at))
           ELSE Return(t) /\ UNCHANGED clients
  BY <1>1 DEF CallLeaving, At
<1>3. Len(calls[t]) = 1 /\ Leaving(f)
  BY <1>1, <1>2, TopPhase DEF Stepping
<1>4. f.at \in alive /\ f.at \in Node /\ NoneClosed(alive, clients) /\ Proper(alive, info)
  BY <1>2, <1>3 DEF Leaving, RingFrame
<1>5. Reaches(f.at, f.at)
  BY <1>4, Reaching DEF Stepping, RingInv, NoneClosed
<1>6. PICK h \in RingFrame :
        /\ h = [f EXCEPT !.pc = "await"]
        /\ h.fn = "leave" /\ h.pc = "await" /\ h.at = f.at
  <2> DEFINE h == [f EXCEPT !.pc = "await"]
  <2>1. /\ h \in RingFrame
        /\ h = [f EXCEPT !.pc = "await"]
        /\ h.fn = "leave" /\ h.pc = "await" /\ h.at = f.at
    BY <1>2 DEF RingFrame
  <2> HIDE DEF h
  <2>2. QED
    BY <2>1
<1>7. PICK g \in RingFrame : g = Frame("leaving", "copy", f.at, f.at, f.at)
  BY <1>4, HandlerIsFrame
<1>8. g.fn = "leaving" /\ g.pc = "copy" /\ g.at = f.at
  BY <1>7 DEF Frame
<1>9. OpenIsAlive' /\ NoneClosed(alive, clients')
  BY <1>2, <1>4, <1>5, Connecting DEF Stepping, RingInv
<1>10. LeftBy(h, g)'
  BY <1>2, <1>4, <1>6, <1>8, <1>9 DEF LeftBy
<1>11. Phase(calls[t])'
  BY <1>2, <1>3, <1>5, <1>6, <1>7, <1>10, AloneCalls
<1>12. QED
  BY <1>2, <1>9, <1>11 DEF Steady

\* The nodes that a leaving node tells, and those it tells them of.
LEMMA LeaveSettingsIn ==
  ASSUME NEW A \in SUBSET Node, NEW i, NEW n \in A, i[n].next \in A, i[n].prev \in A,
         i[n].nnext \in A, NEW q, q = LeaveSettings(n, i[n])
  PROVE  /\ q \in Seq(Setting) /\ Len(q) <= 4 /\ Addressed(A, q)
         /\ \A k \in DOMAIN q : q[k].value \in A
<1> DEFINE e(a) == /\ a \in Setting /\ a.by \in A /\ a.who \in A /\ a.value \in A
<1>1. \A who \in A, value \in A, field \in {"next", "nnext", "prev", "nnextOfPrev"} :
        e(Set(n, who, field, value))
  BY SetIsSetting DEF Set
<1> HIDE DEF e
<1>2. \A a, b : e(a) /\ e(b) /\ q = << a, b >> =>
        q \in Seq(Setting) /\ Len(q) <= 4 /\ Addressed(A, q)
        /\ \A k \in DOMAIN q : q[k].value \in A
  BY DEF e, Addressed
<1>3. \A a, b, c, d : e(a) /\ e(b) /\ e(c) /\ e(d) /\ q = << a, b, c, d >> =>
        q \in Seq(Setting) /\ Len(q) <= 4 /\ Addressed(A, q)
        /\ \A k \in DOMAIN q : q[k].value \in A
  BY DEF e, Addressed
<1>4. CASE i[n].prev = i[n].next
  BY <1>1, <1>2, <1>4 DEF LeaveSettings
<1>5. CASE i[n].prev # i[n].next /\ i[n].prev = i[n].nnext
  BY <1>1, <1>3, <1>5 DEF LeaveSettings
<1>6. CASE i[n].prev # i[n].next /\ i[n].prev # i[n].nnext
  BY <1>1, <1>3, <1>6 DEF LeaveSettings
<1>7. QED
  BY <1>4, <1>5, <1>6

LEMMA CopyLeavingSteady ==
  ASSUME Stepping, NEW t \in Task, CopyLeaving(t)
  PROVE  Steady(t)
<1>1. PICK f \in RingFrame : f = Top(t)
  BY TopPhase DEF Stepping, CopyLeaving, At
<1>2. PICK q : q = LeaveSettings(f.at, info[f.at])
  OBVIOUS
<1>3. /\ ~Idle(t) /\ f.fn = "leaving" /\ f.pc = "copy"
      /\ UNCHANGED << info, alive, clients >>
      /\ Goto(t, [f EXCEPT !.pc = "tell", !.todo = q])
  BY <1>1, <1>2 DEF CopyLeaving, At
<1>4. PICK c \in RingFrame : /\ Len(calls[t]) = 2 /\ c = calls[t][1]
                             /\ LeftBy(c, f)
  BY <1>1, <1>3, TopPhase DEF Stepping
<1>5. /\ c.fn = "leave" /\ c.pc = "await" /\ c.at = f.at /\ f.at \in alive
      /\ NoneClosed(alive, clients) /\ Proper(alive, info)
      /\ info \in Infos /\ alive \in SUBSET Node
  BY <1>3, <1>4, Typed DEF LeftBy, Stepping
<1>6. /\ q \in Seq(Setting) /\ Len(q) <= 4 /\ Addressed(alive, q)
      /\ \A k \in DOMAIN q : q[k].value \in alive
  <2>1. info[f.at].next \in alive /\ info[f.at].prev \in alive
        /\ info[f.at].nnext \in alive
    BY <1>5 DEF Proper
  <2>2. QED
    BY <1>2, <1>5, <2>1, LeaveSettingsIn
<1>7. Proper(alive, Left(After(info, q), f.at))
  BY <1>2, <1>5, LeaveIsProper
<1>8. PICK g \in RingFrame :
        /\ g = [f EXCEPT !.pc = "tell", !.todo = q]
        /\ g.fn = "leaving" /\ g.pc = "tell" /\ g.at = f.at /\ g.todo = q
  <2> DEFINE h == [f EXCEPT !.pc = "tell", !.todo = q]
  <2>1. /\ h \in RingFrame
        /\ h = [f EXCEPT !.pc = "tell", !.todo = q]
        /\ h.fn = "leaving" /\ h.pc = "tell" /\ h.at = f.at /\ h.todo = q
    BY <1>3, <1>6 DEF RingFrame
  <2> HIDE DEF h
  <2>2. QED
    BY <2>1
<1>9. \A m \in alive : info[m].prev \in alive
  BY <1>5 DEF Proper
<1>10. LeftBy(c, g)'
  BY <1>3, <1>5, <1>6, <1>7, <1>8, <1>9 DEF LeftBy
<1>11. Phase(calls[t])'
  BY <1>3, <1>4, <1>8, <1>10, HandlerGoes
<1>12. OpenIsAlive'
  BY <1>3 DEF Stepping, RingInv, OpenIsAlive
<1>13. QED
  BY <1>3, <1>11, <1>12 DEF Steady

LEMMA EndLeavingSteady ==
  ASSUME Stepping, NEW t \in Task, EndLeaving(t)
  PROVE  Steady(t)
<1>1. PICK f \in RingFrame : f = Top(t)
  BY TopPhase DEF Stepping, EndLeaving, Told, At
<1>2. /\ ~Idle(t) /\ f.fn = "leaving" /\ f.pc = "tell" /\ f.todo = << >>
      /\ UNCHANGED << info, alive, clients >>
      /\ ReturnTo(t, [Caller(t) EXCEPT !.pc = "alone"])
  BY <1>1 DEF EndLeaving, Told, At
<1>3. PICK c \in RingFrame : /\ Len(calls[t]) = 2 /\ c = calls[t][1]
                             /\ LeftBy(c, f) /\ c = Caller(t)
  BY <1>1, <1>2, TopPhase DEF Stepping
<1>4. /\ c.fn = "leave" /\ c.at = f.at /\ f.at \in alive /\ NoneClosed(alive, clients)
      /\ Proper(alive, Left(info, f.at))
  BY <1>2, <1>3, AfterNone DEF LeftBy
<1>5. PICK g \in RingFrame :
        /\ g = [c EXCEPT !.pc = "alone"]
        /\ g.fn = "leave" /\ g.pc = "alone" /\ g.at = f.at
  <2> DEFINE h == [c EXCEPT !.pc = "alone"]
  <2>1. /\ h \in RingFrame
        /\ h = [c EXCEPT !.pc = "alone"]
        /\ h.fn = "leave" /\ h.pc = "alone" /\ h.at = f.at
    BY <1>4 DEF RingFrame
  <2> HIDE DEF h
  <2>2. QED
    BY <2>1
<1>6. Leaving(g)'
  BY <1>2, <1>4, <1>5 DEF Leaving
<1>7. Phase(calls[t])'
  BY <1>2, <1>3, <1>5, <1>6, HandlerReturns
<1>8. OpenIsAlive'
  BY <1>2 DEF Stepping, RingInv, OpenIsAlive
<1>9. QED
  BY <1>2, <1>7, <1>8 DEF Steady

LEMMA BecomeAloneSteady ==
  ASSUME Stepping, NEW t \in Task, BecomeAlone(t)
  PROVE  Steady(t)
<1>1. PICK f \in RingFrame : f = Top(t)
  BY TopPhase DEF Stepping, BecomeAlone, At
<1>2. /\ ~Idle(t) /\ f.fn = "leave" /\ f.pc = "alone" /\ Return(t)
      /\ UNCHANGED << alive, clients >>
      /\ info' = [info EXCEPT ![f.at] = Alone(f.at)]
  BY <1>1 DEF BecomeAlone, At
<1>3. Len(calls[t]) = 1 /\ Leaving(f)
  BY <1>1, <1>2, TopPhase DEF Stepping
<1>4. /\ f.at \in alive /\ NoneClosed(alive, clients) /\ Proper(alive, info')
  BY <1>2, <1>3 DEF Leaving, Left
<1>5. Quiet'
  BY <1>2, <1>4 DEF Quiet, Sound
<1>6. Phase(calls[t])'
  BY <1>2, <1>3, <1>5, AloneEnds
<1>7. \A e \in Node \ alive : info'[e] = info[e]
  BY <1>2, <1>4, Typed DEF Stepping, Infos
<1>8. OpenIsAlive'
  BY <1>2 DEF Stepping, RingInv, OpenIsAlive
<1>9. QED
  BY <1>2, <1>6, <1>7, <1>8 DEF Steady

-----------------------------------------------------------------------------
(* Repairs.                                                                *)

\* The node before the missing one takes it out, the others pass on that it is
\* missing, and the node that began ends the repair when it has come round.
LEMMA EnterMissingSteady ==
  ASSUME Stepping, NEW t \in Task, EnterMissing(t)
  PROVE  Steady(t)
<1>1. PICK f \in RingFrame : f = Top(t)
  BY TopPhase DEF Stepping, EnterMissing, At
<1>2. PICK i \in Infos : i = info
  BY Typed DEF Stepping
<1>3. /\ ~Idle(t) /\ f.fn = "missing" /\ f.pc = "enter"
      /\ UNCHANGED << info, alive, clients >>
      /\ IF f.at = f.from /\ i[f.at].next # f.arg
           THEN Return(t)
           ELSE Goto(t, [f EXCEPT !.pc = "forget", !.next = i[f.at].next])
  BY <1>1, <1>2 DEF EnterMissing, At
<1>4. Repairing(f) /\ AwaitsRepair(calls[t], f)
  BY <1>1, <1>3, TopPhase DEF Stepping
<1>5. PICK A \in SUBSET Node : A = alive \ {f.arg}
  BY Typed DEF Stepping
<1>6. /\ f.from \in A /\ f.at \in A /\ f.at \in alive
      /\ f.from \in Node /\ f.at \in Node /\ f.arg \in Node
      /\ f.arg \in Node \ A /\ i[f.at].next \in Node
      /\ \/ /\ f.at = f.from /\ i[f.at].next = f.arg
            /\ Proper(A \cup {f.arg}, i)
            /\ ClosedTo(alive, clients, f.arg, RingWithout(i, f.arg))
         \/ /\ f.todo = << >> /\ f.at \in Reached(i, f.from) /\ Proper(A, i)
            /\ ClosedTo(alive, clients, f.arg, Upto(i, f.at, f.from))
  BY <1>2, <1>3, <1>4, <1>5 DEF Repairing, RingFrame, Infos, Neighborhood
<1>7. OpenIsAlive'
  BY <1>3 DEF Stepping, RingInv, OpenIsAlive
<1>8. CASE f.at = f.from /\ i[f.at].next # f.arg
  <2>1. Proper(A, i) /\ ClosedTo(alive, clients, f.arg, {})
    BY <1>6, <1>8, UptoNone
  <2>2. NoneClosed(alive, clients')
    BY <1>3, <1>8, <2>1, NothingClosed
  <2>3. Phase(calls[t])'
    BY <1>1, <1>2, <1>3, <1>4, <1>5, <1>6, <1>8, <2>1, <2>2, RepairEnds
  <2>4. QED
    BY <1>3, <1>7, <1>8, <2>3 DEF Steady
<1>9. CASE ~(f.at = f.from /\ i[f.at].next # f.arg)
  <2>1. PICK g \in RingFrame :
          /\ g = [f EXCEPT !.pc = "forget", !.next = i[f.at].next]
          /\ g.fn = "missing" /\ g.pc = "forget" /\ g.at = f.at
          /\ g.arg = f.arg /\ g.from = f.from /\ g.next = i[f.at].next
          /\ g.todo = f.todo
    <3> DEFINE h == [f EXCEPT !.pc = "forget", !.next = i[f.at].next]
    <3>1. /\ h \in RingFrame
          /\ h = [f EXCEPT !.pc = "forget", !.next = i[f.at].next]
          /\ h.fn = "missing" /\ h.pc = "forget" /\ h.at = f.at
          /\ h.arg = f.arg /\ h.from = f.from /\ h.next = i[f.at].next
          /\ h.todo = f.todo
      BY <1>3, <1>6 DEF RingFrame
    <3> HIDE DEF h
    <3>2. QED
      BY <3>1
  <2>2. Goto(t, g)
    BY <1>3, <1>9, <2>1
  <2>3. /\ alive' \ {g.arg} = A /\ g.from \in A /\ g.at \in A
        /\ g.fn = "missing" /\ g.pc = "forget" /\ g.next = i[g.at].next
    BY <1>3, <1>5, <1>6, <2>1
  <2>4. \/ /\ g.at = g.from /\ i[g.at].next = g.arg
           /\ Proper(A \cup {g.arg}, i)
           /\ ClosedTo(alive, clients, g.arg, RingWithout(i, g.arg))
        \/ /\ g.todo = << >> /\ g.at \in Reached(i, g.from) /\ Proper(A, i)
           /\ g.at # g.from
           /\ ClosedTo(alive, clients, g.arg, Upto(i, g.at, g.from))
    <3>1. Proper(A, i) => i[f.at].next # f.arg
      BY <1>6 DEF Proper
    <3>2. QED
      BY <1>6, <1>9, <2>1, <3>1
  <2>5. Repairing(g)'
    BY <1>2, <1>3, <2>3, <2>4 DEF Repairing
  <2>6. Phase(calls[t])'
    BY <1>1, <1>3, <1>4, <2>1, <2>2, <2>5, RepairGoes
  <2>7. QED
    BY <1>3, <1>7, <2>6 DEF Steady
<1>10. QED
  BY <1>8, <1>9

LEMMA ForgetMissingSteady ==
  ASSUME Stepping, NEW t \in Task, ForgetMissing(t)
  PROVE  Steady(t)
<1>1. PICK f \in RingFrame : f = Top(t)
  BY TopPhase DEF Stepping, ForgetMissing, At
<1>2. PICK i \in Infos : i = info
  BY Typed DEF Stepping
<1>3. /\ ~Idle(t) /\ f.fn = "missing" /\ f.pc = "forget"
      /\ UNCHANGED << info, alive >>
      /\ clients' = [clients EXCEPT ![f.at][f.arg] = "none"]
      /\ Goto(t, IF i[f.at].next = f.arg
                   THEN [f EXCEPT !.pc = "unlink", !.nnext = i[f.at].nnext,
                                  !.prev = i[f.at].prev]
                   ELSE [f EXCEPT !.pc = "tell"])
  BY <1>1, <1>2 DEF ForgetMissing, At
<1>4. Repairing(f) /\ AwaitsRepair(calls[t], f)
  BY <1>1, <1>3, TopPhase DEF Stepping
<1>5. PICK A \in SUBSET Node : A = alive \ {f.arg}
  BY Typed DEF Stepping
<1>6. /\ f.from \in A /\ f.at \in A /\ f.at \in alive
      /\ f.from \in Node /\ f.at \in Node /\ f.arg \in Node
      /\ f.arg \in Node \ A /\ f.next = i[f.at].next
      /\ i[f.at].nnext \in Node /\ i[f.at].prev \in Node
      /\ \/ /\ f.at = f.from /\ i[f.at].next = f.arg
            /\ Proper(A \cup {f.arg}, i)
            /\ ClosedTo(alive, clients, f.arg, RingWithout(i, f.arg))
         \/ /\ f.todo = << >> /\ f.at \in Reached(i, f.from) /\ Proper(A, i)
            /\ ClosedTo(alive, clients, f.arg, Upto(i, f.at, f.from))
  BY <1>2, <1>3, <1>4, <1>5 DEF Repairing, RingFrame, Infos, Neighborhood
<1>7. Proper(A, i) => i[f.at].next # f.arg
  BY <1>6 DEF Proper
<1>8. CASE i[f.at].next = f.arg
  <2>1. /\ f.at = f.from /\ Proper(A \cup {f.arg}, i)
        /\ ClosedTo(alive, clients, f.arg, RingWithout(i, f.arg))
    BY <1>6, <1>7, <1>8
  <2>2. /\ OpenIsAlive'
        /\ ClosedTo(alive, clients', f.arg, RingWithout(i, f.arg) \ {f.at})
    BY <1>3, <1>6, <2>1, Disconnecting DEF Stepping, RingInv
  <2>3. ClosedTo(alive, clients', f.arg, RingWithout(i, f.arg))
    BY <2>2, ClosedToLess
  <2>4. PICK g \in RingFrame :
          /\ g = [f EXCEPT !.pc = "unlink", !.nnext = i[f.at].nnext,
                           !.prev = i[f.at].prev]
          /\ g.fn = "missing" /\ g.pc = "unlink" /\ g.at = f.at
          /\ g.arg = f.arg /\ g.from = f.from /\ g.next = f.next
          /\ g.nnext = i[f.at].nnext /\ g.prev = i[f.at].prev
    <3> DEFINE h == [f EXCEPT !.pc = "unlink", !.nnext = i[f.at].nnext,
                              !.prev = i[f.at].prev]
    <3>1. /\ h \in RingFrame
          /\ h = [f EXCEPT !.pc = "unlink", !.nnext = i[f.at].nnext,
                           !.prev = i[f.at].prev]
          /\ h.fn = "missing" /\ h.pc = "unlink" /\ h.at = f.at
          /\ h.arg = f.arg /\ h.from = f.from /\ h.next = f.next
          /\ h.nnext = i[f.at].nnext /\ h.prev = i[f.at].prev
      BY <1>3, <1>6 DEF RingFrame
    <3> HIDE DEF h
    <3>2. QED
      BY <3>1
  <2>5. /\ alive' \ {g.arg} = A /\ g.from \in A /\ g.at \in A
        /\ g.fn = "missing" /\ g.pc = "unlink" /\ g.at = g.from
        /\ g.next = g.arg /\ info'[g.at].next = g.arg
        /\ g.nnext = info'[g.at].nnext /\ g.prev = info'[g.at].prev
    BY <1>2, <1>3, <1>5, <1>6, <1>8, <2>1, <2>4
  <2>6. /\ Proper(A \cup {g.arg}, info')
        /\ ClosedTo(alive', clients', g.arg, RingWithout(info', g.arg))
    BY <1>2, <1>3, <2>1, <2>3, <2>4
  <2>7. Repairing(g)'
    BY <2>5, <2>6 DEF Repairing
  <2>8. Phase(calls[t])'
    BY <1>1, <1>3, <1>4, <1>8, <2>4, <2>7, RepairGoes
  <2>9. QED
    BY <1>3, <2>2, <2>8 DEF Steady
<1>9. CASE i[f.at].next # f.arg
  <2>1. /\ f.todo = << >> /\ f.at \in Reached(i, f.from) /\ Proper(A, i)
        /\ ClosedTo(alive, clients, f.arg, Upto(i, f.at, f.from))
    BY <1>6, <1>9
  <2>2. /\ OpenIsAlive'
        /\ ClosedTo(alive, clients', f.arg, Upto(i, f.at, f.from) \ {f.at})
    BY <1>3, <1>6, <1>9, <2>1, Disconnecting DEF Stepping, RingInv
  <2>3. PICK g \in RingFrame :
          /\ g = [f EXCEPT !.pc = "tell"]
          /\ g.fn = "missing" /\ g.pc = "tell" /\ g.at = f.at
          /\ g.arg = f.arg /\ g.from = f.from /\ g.next = i[f.at].next
          /\ g.todo = f.todo
    <3> DEFINE h == [f EXCEPT !.pc = "tell"]
    <3>1. /\ h \in RingFrame
          /\ h = [f EXCEPT !.pc = "tell"]
          /\ h.fn = "missing" /\ h.pc = "tell" /\ h.at = f.at
          /\ h.arg = f.arg /\ h.from = f.from /\ h.next = i[f.at].next
          /\ h.todo = f.todo
      BY <1>3, <1>6 DEF RingFrame
    <3> HIDE DEF h
    <3>2. QED
      BY <3>1
  <2>4. ClosedTo(alive, clients', f.arg, Upto(i, g.next, f.from))
    <3>1. Upto(i, f.at, f.from) \ {f.at} \subseteq Upto(i, g.next, f.from)
      BY <1>6, <2>3, UptoNext
    <3>2. QED
      BY <2>2, <3>1, ClosedToLess
  <2>5. After(i, g.todo) = i /\ g.todo = << >>
    BY <2>1, <2>3, AfterNone
  <2>6. /\ Len(g.todo) <= 1 /\ Addressed(A, g.todo)
        /\ \A k \in DOMAIN g.todo : g.todo[k].field = "nnext"
    BY <2>5 DEF Addressed
  <2>7. Repairing(g)'
    BY <1>2, <1>3, <1>5, <1>6, <2>1, <2>3, <2>4, <2>5, <2>6 DEF Repairing
  <2>8. Phase(calls[t])'
    BY <1>1, <1>3, <1>4, <1>9, <2>3, <2>7, RepairGoes
  <2>9. QED
    BY <1>3, <2>2, <2>8 DEF Steady
<1>10. QED
  BY <1>8, <1>9

LEMMA UnlinkSteady ==
  ASSUME Stepping, NEW t \in Task, Unlink(t)
  PROVE  Steady(t)
<1>1. PICK f \in RingFrame : f = Top(t)
  BY TopPhase DEF Stepping, Unlink, At
<1>2. PICK i \in Infos : i = info
  BY Typed DEF Stepping
<1>3. /\ ~Idle(t) /\ f.fn = "missing" /\ f.pc = "unlink" /\ UNCHANGED alive
      /\ clients' = [clients EXCEPT ![f.at][f.arg] = "none"]
      /\ info' = WithNext(i, f.at, f.nnext)
      /\ Goto(t, [f EXCEPT !.pc = "relink"])
  BY <1>1, <1>2 DEF Unlink, At, WithNext
<1>4. Repairing(f) /\ AwaitsRepair(calls[t], f)
  BY <1>1, <1>3, TopPhase DEF Stepping
<1>5. PICK A \in SUBSET Node : A = alive \ {f.arg}
  BY Typed DEF Stepping
<1>6. /\ f.from \in A /\ f.at \in A /\ f.at = f.from
      /\ f.at \in Node /\ f.arg \in Node /\ f.arg \in Node \ A
      /\ f.next = f.arg /\ i[f.at].next = f.arg
      /\ f.nnext = i[f.at].nnext /\ f.prev = i[f.at].prev
      /\ f.nnext \in Node
      /\ Proper(A \cup {f.arg}, i)
      /\ ClosedTo(alive, clients, f.arg, RingWithout(i, f.arg))
  BY <1>2, <1>3, <1>4, <1>5 DEF Repairing, RingFrame
<1>7. /\ OpenIsAlive'
      /\ ClosedTo(alive, clients', f.arg, RingWithout(i, f.arg) \ {f.at})
  BY <1>3, <1>6, Disconnecting DEF Stepping, RingInv
<1>8. PICK g \in RingFrame :
        /\ g = [f EXCEPT !.pc = "relink"]
        /\ g.fn = "missing" /\ g.pc = "relink" /\ g.at = f.at
        /\ g.arg = f.arg /\ g.from = f.from /\ g.next = f.arg
        /\ g.nnext = f.nnext /\ g.prev = f.prev
  <2> DEFINE h == [f EXCEPT !.pc = "relink"]
  <2>1. /\ h \in RingFrame
        /\ h = [f EXCEPT !.pc = "relink"]
        /\ h.fn = "missing" /\ h.pc = "relink" /\ h.at = f.at
        /\ h.arg = f.arg /\ h.from = f.from /\ h.next = f.arg
        /\ h.nnext = f.nnext /\ h.prev = f.prev
    BY <1>3, <1>6 DEF RingFrame
  <2> HIDE DEF h
  <2>2. QED
    BY <2>1
<1>9. PICK h : h = info' /\ h = WithNext(i, g.at, g.nnext)
  BY <1>3, <1>8
<1>10. /\ g.nnext \in A /\ g.prev \in A \cup {f.arg} /\ h[g.at].next = g.nnext
       /\ Proper(A, Repaired(Relinked(h, g), g, h[g.nnext].next))
  <2>1. /\ f.arg \in Node \ A /\ Proper(A \cup {f.arg}, i) /\ g.at \in A
        /\ i[g.at].next = f.arg /\ g.next = f.arg /\ g.nnext = i[g.at].nnext
        /\ g.prev = i[g.at].prev /\ h = WithNext(i, g.at, g.nnext)
    BY <1>6, <1>8, <1>9
  <2>2. QED
    BY <2>1, RepairIsProper
<1>11. Differs(h, i, f.at, "next", g.nnext)
  BY <1>6, <1>8, <1>9, OneField
<1>12. ClosedTo(alive, clients', f.arg, Upto(h, g.nnext, f.from))
  <2>1. i[f.arg].next = g.nnext
    BY <1>6, <1>8 DEF Proper
  <2>2. h \in Infos /\ \A m \in Node :
          h[m].next = IF m = f.at THEN g.nnext ELSE i[m].next
    BY <1>11 DEF Differs
  <2>3. Reached(i, f.arg) \subseteq {f.arg, f.at} \cup Upto(h, g.nnext, f.at)
    BY <1>6, <1>8, <2>1, <2>2, UptoOfRing
  <2>4. RingWithout(i, f.arg) \ {f.at} \subseteq Upto(h, g.nnext, f.from)
    BY <1>6, <2>3 DEF RingWithout
  <2>5. QED
    BY <1>7, <2>4, ClosedToLess
<1>13. Repairing(g)'
  <2>1. /\ alive' \ {g.arg} = A /\ g.from \in A /\ g.at \in A
        /\ g.fn = "missing" /\ g.pc = "relink" /\ g.at = g.from
        /\ g.next = g.arg /\ g.nnext \in A /\ g.prev \in A \cup {g.arg}
    BY <1>3, <1>5, <1>6, <1>8, <1>10
  <2>2. /\ info'[g.at].next = g.nnext
        /\ ClosedTo(alive', clients', g.arg, Upto(info', g.nnext, g.from))
        /\ Proper(A, Repaired(Relinked(info', g), g, info'[g.nnext].next))
    BY <1>3, <1>8, <1>9, <1>10, <1>12
  <2>3. QED
    BY <2>1, <2>2 DEF Repairing
<1>14. Phase(calls[t])'
  BY <1>1, <1>3, <1>4, <1>8, <1>13, RepairGoes
<1>15. \A e \in Node \ alive : info'[e] = info[e]
  BY <1>2, <1>5, <1>6, <1>9, <1>11, OtherNode
<1>16. QED
  BY <1>3, <1>7, <1>14, <1>15 DEF Steady

LEMMA RelinkSteady ==
  ASSUME Stepping, NEW t \in Task, Relink(t)
  PROVE  Steady(t)
<1>1. PICK f \in RingFrame : f = Top(t)
  BY TopPhase DEF Stepping, Relink, At
<1>2. PICK i \in Infos : i = info
  BY Typed DEF Stepping
<1>3. /\ ~Idle(t) /\ f.fn = "missing" /\ f.pc = "relink" /\ UNCHANGED alive
      /\ IF Reaches(f.at, f.nnext)
           THEN /\ Connect(f.at, f.nnext)
                /\ info' = Relinked(i, f)
                /\ Goto(t, [f EXCEPT !.pc = "linked", !.reply = i[f.nnext].next])
           ELSE Fail(t)
  BY <1>1, <1>2 DEF Relink, At, Relinked, WithPrev
<1>4. Repairing(f) /\ AwaitsRepair(calls[t], f)
  BY <1>1, <1>3, TopPhase DEF Stepping
<1>5. PICK A \in SUBSET Node : A = alive \ {f.arg}
  BY Typed DEF Stepping
<1>6. /\ f.from \in A /\ f.at \in A /\ f.at = f.from /\ f.next = f.arg
      /\ f.nnext \in A /\ f.prev \in A \cup {f.arg} /\ i[f.at].next = f.nnext
      /\ f.at \in Node /\ f.nnext \in Node /\ f.arg \in Node
      /\ f.nnext \in alive /\ f.nnext # f.arg /\ i[f.nnext].next \in Node
      /\ ClosedTo(alive, clients, f.arg, Upto(i, f.nnext, f.from))
      /\ Proper(A, Repaired(Relinked(i, f), f, i[f.nnext].next))
  BY <1>2, <1>3, <1>4, <1>5 DEF Repairing, RingFrame, Infos, Neighborhood
<1>7. Reaches(f.at, f.nnext)
  BY <1>6, Reaching DEF Stepping, RingInv, ClosedTo
<1>8. /\ OpenIsAlive'
      /\ \A d, S : ClosedTo(alive, clients, d, S) => ClosedTo(alive, clients', d, S)
  BY <1>3, <1>6, <1>7, Connecting DEF Stepping, RingInv
<1>9. PICK g \in RingFrame :
        /\ g = [f EXCEPT !.pc = "linked", !.reply = i[f.nnext].next]
        /\ g.fn = "missing" /\ g.pc = "linked" /\ g.at = f.at
        /\ g.arg = f.arg /\ g.from = f.from /\ g.next = f.next
        /\ g.nnext = f.nnext /\ g.prev = f.prev /\ g.reply = i[f.nnext].next
  <2> DEFINE h == [f EXCEPT !.pc = "linked", !.reply = i[f.nnext].next]
  <2>1. /\ h \in RingFrame
        /\ h = [f EXCEPT !.pc = "linked", !.reply = i[f.nnext].next]
        /\ h.fn = "missing" /\ h.pc = "linked" /\ h.at = f.at
        /\ h.arg = f.arg /\ h.from = f.from /\ h.next = f.next
        /\ h.nnext = f.nnext /\ h.prev = f.prev /\ h.reply = i[f.nnext].next
    BY <1>3, <1>6 DEF RingFrame
  <2> HIDE DEF h
  <2>2. QED
    BY <2>1
<1>10. PICK h : h = info' /\ h = Relinked(i, f)
  BY <1>3, <1>7
<1>11. Differs(h, i, f.nnext, "prev", f.at)
  BY <1>6, <1>10, OneField DEF Relinked
<1>12. SameNext(h, i)
  BY <1>11, NextKept
<1>13. h[g.at].next = g.nnext /\ Upto(h, g.nnext, g.from) = Upto(i, f.nnext, f.from)
  BY <1>6, <1>9, <1>12, UptoSame DEF SameNext
<1>14. Repaired(h, g, g.reply) = Repaired(Relinked(i, f), f, i[f.nnext].next)
  BY <1>9, <1>10 DEF Repaired, SelfLinked, LinkSettings
<1>15. Repairing(g)'
  BY <1>3, <1>5, <1>6, <1>8, <1>9, <1>10, <1>13, <1>14 DEF Repairing
<1>16. Phase(calls[t])'
  BY <1>1, <1>3, <1>4, <1>7, <1>9, <1>15, RepairGoes
<1>17. \A e \in Node \ alive : info'[e] = info[e]
  BY <1>2, <1>6, <1>10, <1>11, OtherNode
<1>18. QED
  BY <1>3, <1>8, <1>16, <1>17 DEF Steady

LEMMA LinkedSteady ==
  ASSUME Stepping, NEW t \in Task, Linked(t)
  PROVE  Steady(t)
<1>1. PICK f \in RingFrame : f = Top(t)
  BY TopPhase DEF Stepping, Linked, At
<1>2. PICK i \in Infos : i = info
  BY Typed DEF Stepping
<1>3. PICK q : q = LinkSettings(f)
  OBVIOUS
<1>4. /\ ~Idle(t) /\ f.fn = "missing" /\ f.pc = "linked"
      /\ UNCHANGED << alive, clients >>
      /\ info' = SelfLinked(i, f, f.reply)
      /\ Goto(t, [f EXCEPT !.pc = "tell", !.next = f.nnext, !.todo = q])
  BY <1>1, <1>2, <1>3 DEF Linked, At, SelfLinked, LinkSettings
<1>5. Repairing(f) /\ AwaitsRepair(calls[t], f)
  BY <1>1, <1>4, TopPhase DEF Stepping
<1>6. PICK A \in SUBSET Node : A = alive \ {f.arg}
  BY Typed DEF Stepping
<1>7. /\ f.from \in A /\ f.at \in A /\ f.at = f.from /\ f.next = f.arg
      /\ f.nnext \in A /\ f.prev \in A \cup {f.arg} /\ i[f.at].next = f.nnext
      /\ f.at \in Node /\ f.nnext \in Node /\ f.reply \in Node /\ f.prev \in Node
      /\ f.from \in Node
      /\ ClosedTo(alive, clients, f.arg, Upto(i, f.nnext, f.from))
      /\ Proper(A, Repaired(i, f, f.reply))
  BY <1>2, <1>4, <1>5, <1>6 DEF Repairing, RingFrame
<1>8. /\ q \in Seq(Setting) /\ Len(q) <= 1 /\ Addressed(A, q)
      /\ \A k \in DOMAIN q : q[k].field = "nnext"
  <2>1. CASE f.prev = f.next
    BY <1>3, <2>1 DEF LinkSettings, Addressed
  <2>2. CASE f.prev # f.next
    <3> DEFINE a == Set(f.at, f.prev, "nnext", f.nnext)
    <3>1. a \in Setting /\ a.by \in A /\ a.who \in A /\ a.field = "nnext"
      BY <1>7, <2>2, SetIsSetting DEF Set
    <3>2. q = << a >>
      BY <1>3, <2>2 DEF LinkSettings
    <3> HIDE DEF a
    <3>3. QED
      BY <3>1, <3>2 DEF Addressed
  <2>3. QED
    BY <2>1, <2>2
<1>9. PICK g \in RingFrame :
        /\ g = [f EXCEPT !.pc = "tell", !.next = f.nnext, !.todo = q]
        /\ g.fn = "missing" /\ g.pc = "tell" /\ g.at = f.at /\ g.arg = f.arg
        /\ g.from = f.from /\ g.next = f.nnext /\ g.todo = q
  <2> DEFINE h == [f EXCEPT !.pc = "tell", !.next = f.nnext, !.todo = q]
  <2>1. /\ h \in RingFrame
        /\ h = [f EXCEPT !.pc = "tell", !.next = f.nnext, !.todo = q]
        /\ h.fn = "missing" /\ h.pc = "tell" /\ h.at = f.at /\ h.arg = f.arg
        /\ h.from = f.from /\ h.next = f.nnext /\ h.todo = q
    BY <1>4, <1>7, <1>8 DEF RingFrame
  <2> HIDE DEF h
  <2>2. QED
    BY <2>1
<1>10. PICK h : h = info' /\ h = SelfLinked(i, f, f.reply)
  BY <1>4
<1>11. IsSelfLinked(h, i, f, f.reply)
  BY <1>7, <1>10, SelfLinkedIs
<1>12. SameNext(h, i) /\ h \in Infos
  BY <1>11 DEF IsSelfLinked, SameNext
<1>13. /\ h[g.at].next = g.next /\ g.at \in Reached(h, g.from)
       /\ Upto(h, g.next, g.from) = Upto(i, f.nnext, f.from)
  BY <1>7, <1>9, <1>12, UptoSame, ReachedIs DEF SameNext
<1>14. After(h, g.todo) = Repaired(i, f, f.reply)
  BY <1>3, <1>9, <1>10 DEF Repaired
<1>15. Repairing(g)'
  BY <1>4, <1>6, <1>7, <1>8, <1>9, <1>10, <1>13, <1>14 DEF Repairing
<1>16. Phase(calls[t])'
  BY <1>1, <1>4, <1>5, <1>9, <1>15, RepairGoes
<1>17. \A e \in Node \ alive : info'[e] = info[e]
  BY <1>2, <1>4, <1>6, <1>7 DEF SelfLinked, Infos
<1>18. OpenIsAlive'
  BY <1>4 DEF Stepping, RingInv, OpenIsAlive
<1>19. QED
  BY <1>4, <1>16, <1>17, <1>18 DEF Steady

LEMMA PassMissingSteady ==
  ASSUME Stepping, NEW t \in Task, PassMissing(t)
  PROVE  Steady(t)
<1>1. PICK f \in RingFrame : f = Top(t)
  BY TopPhase DEF Stepping, PassMissing, Told, At
<1>2. PICK i \in Infos : i = info
  BY Typed DEF Stepping
<1>3. /\ ~Idle(t) /\ f.fn = "missing" /\ f.pc = "tell" /\ f.todo = << >>
      /\ UNCHANGED alive
      /\ IF Reaches(f.at, f.next)
           THEN /\ Connect(f.at, f.next)
                /\ Goto(t, Frame("missing", "enter", f.next, f.arg, f.from))
                /\ UNCHANGED info
           ELSE Fail(t)
  BY <1>1 DEF PassMissing, Told, At
<1>4. Repairing(f) /\ AwaitsRepair(calls[t], f)
  BY <1>1, <1>3, TopPhase DEF Stepping
<1>5. PICK A \in SUBSET Node : A = alive \ {f.arg}
  BY Typed DEF Stepping
<1>6. /\ f.from \in A /\ f.at \in A /\ f.next = i[f.at].next
      /\ f.at \in Reached(i, f.from)
      /\ f.from \in Node /\ f.at \in Node /\ f.next \in Node /\ f.arg \in Node
      /\ ClosedTo(alive, clients, f.arg, Upto(i, f.next, f.from))
      /\ Proper(A, i)
  BY <1>2, <1>3, <1>4, <1>5, AfterNone DEF Repairing, RingFrame
<1>7. f.next \in A /\ f.next \in alive /\ f.next # f.arg
  BY <1>5, <1>6 DEF Proper
<1>8. Reaches(f.at, f.next)
  BY <1>6, <1>7, Reaching DEF Stepping, RingInv, ClosedTo
<1>9. /\ OpenIsAlive'
      /\ \A d, S : ClosedTo(alive, clients, d, S) => ClosedTo(alive, clients', d, S)
  BY <1>3, <1>6, <1>7, <1>8, Connecting DEF Stepping, RingInv
<1>10. PICK g \in RingFrame : g = Frame("missing", "enter", f.next, f.arg, f.from)
  <2>1. f.next \in Node /\ f.arg \in Node /\ f.from \in Node
    BY <1>6
  <2>2. QED
    BY <2>1, HandlerIsFrame
<1>11. /\ g.fn = "missing" /\ g.pc = "enter" /\ g.at = f.next /\ g.arg = f.arg
       /\ g.from = f.from /\ g.todo = << >>
  BY <1>10 DEF Frame
<1>12. f.next \in Reached(i, f.from)
  BY <1>6, ReachedIs
<1>13. Repairing(g)'
  BY <1>2, <1>3, <1>5, <1>6, <1>7, <1>8, <1>9, <1>11, <1>12 DEF Repairing
<1>14. Phase(calls[t])'
  BY <1>1, <1>3, <1>4, <1>8, <1>10, <1>11, <1>13, RepairGoes
<1>15. QED
  BY <1>3, <1>8, <1>9, <1>14 DEF Steady

-----------------------------------------------------------------------------
(* Requests that begin.                                                    *)

LEMMA IdleIsQuiet ==
  ASSUME RingInv, NEW t \in Task, Idle(t)
  PROVE  Quiet
<1>1. Phase(<< >>)
  BY DEF RingInv, Idle
<1>2. Len(<< >>) = 0
  OBVIOUS
<1>3. QED
  BY <1>1, <1>2 DEF Phase

LEMMA Begins ==
  ASSUME Stepping, NEW t \in Task, NEW g \in RingFrame, Begin(t, g),
         Querying(g)' \/ Joining(g)' \/ Leaving(g)'
  PROVE  Phase(calls[t])'
<1>1. PICK q \in Seq(RingFrame) : q = calls'[t]
  BY TypedNext DEF Stepping
<1>2. q = << g >>
  <2>1. calls \in [Task -> Seq(RingFrame)]
    BY Typed DEF Stepping
  <2>2. QED
    BY <1>1, <2>1, BeginEffect
<1>3. Len(q) = 1 /\ q[1] = g
  BY <1>2
<1>4. QED
  BY <1>1, <1>3 DEF Phase

\* A node that is down and on its own, or that nobody has for the next node.
LEMMA SoundWithout ==
  ASSUME RingTypeOK, NEW d \in Node \ alive, Unnoticed(d), d \notin Unmissed
  PROVE  Sound
<1>1. alive \in SUBSET Node
  BY Typed
<1>2. \A m \in alive \cup {d} :
        /\ info[m].next \in alive \cup {d} /\ info[m].prev \in alive \cup {d}
        /\ info[info[m].next].prev = m /\ info[info[m].prev].next = m
        /\ info[m].nnext = info[info[m].next].next
  BY DEF Unnoticed, Proper
<1>3. \A m \in alive : info[m].next # d
  BY DEF Unmissed, Member
<1>4. info[d].prev = d
  BY <1>2, <1>3
<1>5. Proper(alive, info)
  BY <1>2, <1>3, <1>4 DEF Proper
<1>6. QED
  BY <1>5 DEF Sound, Unnoticed

LEMMA SoundWhenMissed ==
  ASSUME RingTypeOK, Quiet
  PROVE  /\ Unmissed = {} => Sound
         /\ \A e : Unmissed \subseteq {e} =>
                  Sound \/ (e \in Node \ alive /\ Unnoticed(e))
BY SoundWithout DEF Quiet

LEMMA StartJoinSteady ==
  ASSUME Stepping, NEW t \in Task, NEW n \in Node, NEW o \in Node,
         StartJoin(t, n, o)
  PROVE  Steady(t)
<1>1. /\ Idle(t) /\ n \in alive /\ Unmissed = {} /\ n # o /\ info[n] = Alone(n)
      /\ Begin(t, Frame("join", "call", n, o, n))
      /\ UNCHANGED << info, alive, clients >>
  BY DEF StartJoin, MayChange, Stepping, OneRequest
<1>2. Sound
  BY <1>1, IdleIsQuiet, SoundWhenMissed DEF Stepping, RingInv
<1>3. PICK g \in RingFrame : g = Frame("join", "call", n, o, n)
  BY HandlerIsFrame
<1>4. g.fn = "join" /\ g.pc = "call" /\ g.at = n /\ g.arg = o
  BY <1>3 DEF Frame
<1>5. Joins(n)
  <2>1. info[n].prev = n
    BY <1>1 DEF Alone
  <2>2. \A m \in alive \ {n} : info[m].next # n /\ info[m].prev # n
    BY <1>1, <1>2, <2>1 DEF Sound, Proper, Alone
  <2>3. QED
    BY <1>2, <2>2 DEF Sound, Proper, Joins
<1>6. Joining(g)'
  BY <1>1, <1>2, <1>4, <1>5 DEF Joining, Joins, Sound
<1>7. Phase(calls[t])'
  BY <1>1, <1>3, <1>6, Begins
<1>8. OpenIsAlive'
  BY <1>1 DEF Stepping, RingInv, OpenIsAlive
<1>9. QED
  BY <1>1, <1>7, <1>8 DEF Steady

LEMMA StartLeaveSteady ==
  ASSUME Stepping, NEW t \in Task, NEW n \in Node, StartLeave(t, n)
  PROVE  Steady(t)
<1>1. /\ Idle(t) /\ n \in alive /\ Unmissed = {}
      /\ Begin(t, Frame("leave", "call", n, n, n))
      /\ UNCHANGED << info, alive, clients >>
  BY DEF StartLeave, MayChange, Stepping, OneRequest
<1>2. Sound
  BY <1>1, IdleIsQuiet, SoundWhenMissed DEF Stepping, RingInv
<1>3. PICK g \in RingFrame : g = Frame("leave", "call", n, n, n)
  BY HandlerIsFrame
<1>4. g.fn = "leave" /\ g.pc = "call" /\ g.at = n
  BY <1>3 DEF Frame
<1>5. Leaving(g)'
  BY <1>1, <1>2, <1>4 DEF Leaving, Sound
<1>6. Phase(calls[t])'
  BY <1>1, <1>3, <1>5, Begins
<1>7. OpenIsAlive'
  BY <1>1 DEF Stepping, RingInv, OpenIsAlive
<1>8. QED
  BY <1>1, <1>6, <1>7 DEF Steady

LEMMA StartQuerySteady ==
  ASSUME Stepping, NEW t \in Task, NEW n \in Node, StartQuery(t, n)
  PROVE  Steady(t)
<1>1. /\ Idle(t) /\ n \in alive
      /\ Begin(t, Frame("query", "send", n, n, n))
      /\ UNCHANGED << info, alive, clients >>
  BY DEF StartQuery
<1>2. Quiet'
  BY <1>1, IdleIsQuiet, QuietKept DEF Stepping
<1>3. PICK g \in RingFrame : g = Frame("query", "send", n, n, n)
  <2>1. << >> \in Seq(Setting) /\ << n >> \in Seq(Node)
    OBVIOUS
  <2>2. Frame("query", "send", n, n, n) \in RingFrame
    BY <2>1 DEF Frame, RingFrame
  <2>3. QED
    BY <2>2
<1>4. g.fn = "query" /\ g.pc = "send" /\ g.at = n /\ g.from = n
  BY <1>3 DEF Frame
<1>5. n \in Reached(info, n)
  BY ReachedIs, Typed DEF Stepping
<1>6. Querying(g)'
  BY <1>1, <1>2, <1>4, <1>5 DEF Querying
<1>7. Phase(calls[t])'
  BY <1>1, <1>3, <1>6, Begins
<1>8. OpenIsAlive'
  BY <1>1 DEF Stepping, RingInv, OpenIsAlive
<1>9. QED
  BY <1>1, <1>7, <1>8 DEF Steady

-----------------------------------------------------------------------------
(* Crashes and revivals.                                                   *)

\* A node that runs joins again where it is.
LEMMA ReviveAlive ==
  ASSUME Stepping, NEW t \in Task, NEW n \in alive, Revive(t, n)
  PROVE  Steady(t)
<1>1. /\ Idle(t) /\ Unmissed = {} /\ UNCHANGED << info, alive, clients >>
      /\ IF info[n].prev # n
           THEN Begin(t, Frame("join", "call", n, info[n].prev, n))
           ELSE UNCHANGED calls
  BY DEF Revive, Unmissed, Stepping, OneRequest
<1>2. Sound
  BY <1>1, IdleIsQuiet, SoundWhenMissed DEF Stepping, RingInv
<1>3. n \in Node /\ info[n].prev \in Node
  BY Typed DEF Stepping, Infos, Neighborhood
<1>4. CASE info[n].prev # n
  <2>1. PICK g \in RingFrame : g = Frame("join", "call", n, info[n].prev, n)
    BY <1>3, HandlerIsFrame
  <2>2. g.fn = "join" /\ g.pc = "call" /\ g.at = n /\ g.arg = info[n].prev
    BY <2>1 DEF Frame
  <2>3. Rejoins(n, info[n].prev)
    BY <1>2, NothingClosed DEF Rejoins, Sound
  <2>4. Joining(g)'
    BY <1>1, <1>4, <2>2, <2>3 DEF Joining, Rejoins
  <2>5. QED
    BY <1>1, <1>4, <2>1, <2>4, Begins
       DEF Steady, Stepping, RingInv, OpenIsAlive
<1>5. CASE info[n].prev = n
  <2>1. Quiet'
    BY <1>1, <1>2, QuietKept DEF Quiet
  <2>2. Phase(calls[t])'
    BY <1>1, <1>5, <2>1 DEF Phase, Idle
  <2>3. QED
    BY <1>1, <2>2 DEF Steady, Stepping, RingInv, OpenIsAlive
<1>6. QED
  BY <1>4, <1>5

\* A node that is down comes back: where it was when nobody has missed it.
LEMMA ReviveDown ==
  ASSUME Stepping, NEW t \in Task, NEW n \in Node \ alive, Revive(t, n)
  PROVE  RingInv'
<1>1. /\ Idle(t) /\ UNCHANGED << info, clients >>
      /\ alive' = alive \cup {n}
      /\ Unmissed \subseteq {n} /\ info[n].prev \in alive \cup {n}
      /\ ~HasStrayConnection(n)
      /\ IF info[n].prev # n
           THEN Begin(t, Frame("join", "call", n, info[n].prev, n))
           ELSE UNCHANGED calls
  BY DEF Revive, Stepping, OneRequest
<1>2. /\ alive \in SUBSET Node /\ RingTypeOK /\ Quiet
      /\ (info[n] = Alone(n) \/ info[n].prev # n)
  BY <1>1, IdleIsQuiet, Typed DEF Stepping, RingInv, Remembers
<1>3. OpenIsAlive' /\ Remembers'
  BY <1>1, <1>2 DEF Stepping, RingInv, OpenIsAlive, Remembers
<1>4. Sound \/ Unnoticed(n)
  BY <1>1, <1>2, SoundWhenMissed
<1>5. /\ alive' \in SUBSET Node /\ alive' \ {n} = alive
      /\ \A m \in Node : clients[m][n] = "closed" => m \in WillForget(n)
  BY <1>1, <1>2 DEF HasStrayConnection
<1>6. ASSUME Sound
      PROVE  Phase(calls[t])'
  <2>1. n \notin Member
    BY <1>6 DEF Member, Sound, Proper
  <2>2. NoneClosed(alive', clients')
    BY <1>1, <1>5, <1>6, <2>1 DEF Sound, NoneClosed, WillForget
  <2>3. CASE info[n].prev # n
    <3>1. info[n].prev \in Node /\ info[n].prev \in alive
      BY <1>1, <1>2, <2>3
    <3>2. PICK g \in RingFrame : g = Frame("join", "call", n, info[n].prev, n)
      BY <3>1, HandlerIsFrame
    <3>3. g.fn = "join" /\ g.pc = "call" /\ g.at = n /\ g.arg = info[n].prev
      BY <3>2 DEF Frame
    <3>4. Joins(n)'
      BY <1>1, <1>5, <1>6, <2>2 DEF Joins, Sound
    <3>5. Joining(g)'
      BY <1>1, <2>3, <3>1, <3>3, <3>4 DEF Joining
    <3>6. QED
      BY <1>1, <2>3, <3>2, <3>5, Begins
  <2>4. CASE info[n].prev = n
    <3>1. info[n].next = n /\ info[n].nnext = n
      BY <1>2, <2>4 DEF Alone
    <3>2. Proper(alive', info')
      BY <1>1, <1>6, <2>4, <3>1 DEF Sound, Proper
    <3>3. Quiet'
      BY <2>2, <3>2 DEF Quiet, Sound
    <3>4. QED
      BY <1>1, <2>4, <3>3 DEF Phase, Idle
  <2>5. QED
    BY <2>3, <2>4
<1>7. ASSUME Unnoticed(n)
      PROVE  Phase(calls[t])'
  <2>1. ClosedTo(alive', clients', n, RingWithout(info, n)) /\ Proper(alive', info')
    <3>1. WillForget(n) \subseteq RingWithout(info, n)
      BY DEF WillForget, RingWithout, RingOf, Reached
    <3>2. QED
      BY <1>1, <1>5, <1>7, <3>1 DEF Unnoticed, NoneClosed, ClosedTo
  <2>2. CASE info[n].prev # n
    <3>1. info[n].prev \in Node
      BY <1>1, <1>2
    <3>2. PICK g \in RingFrame : g = Frame("join", "call", n, info[n].prev, n)
      BY <3>1, HandlerIsFrame
    <3>3. g.fn = "join" /\ g.pc = "call" /\ g.at = n /\ g.arg = info[n].prev
      BY <3>2 DEF Frame
    <3>4. Joining(g)'
      BY <1>1, <2>1, <2>2, <3>3 DEF Joining, Rejoins
    <3>5. QED
      BY <1>1, <2>2, <3>2, <3>4, Begins
  <2>3. CASE info[n].prev = n
    <3>1. info[n].next = n
      BY <1>2, <2>3 DEF Alone
    <3>2. {n} \in SUBSET Node /\ n \in {n} /\ \A s \in {n} : info[s].next \in {n}
      BY <3>1
    <3>3. RingWithout(info, n) = {}
      BY <3>2, ReachedLeast DEF RingWithout
    <3>4. Quiet'
      BY <2>1, <3>3, NothingClosed DEF Quiet, Sound
    <3>5. QED
      BY <1>1, <2>3, <3>4 DEF Phase, Idle
  <2>4. QED
    BY <2>2, <2>3
<1>8. Phase(calls[t])'
  BY <1>4, <1>6, <1>7
<1>9. (\A u \in Task : Phase(calls[u]))'
  <2>1. \A u \in Task : u = t
    BY DEF Stepping, OneRequest
  <2>2. QED
    BY <1>8, <2>1
<1>10. QED
  BY <1>3, <1>9 DEF RingInv

\* While one node at most may be down and not missed, a node is killed only
\* when every node that is down has been missed.
LEMMA NoneUnmissed ==
  ASSUME Stepping, Cardinality(Unmissed) < MaxDown
  PROVE  Unmissed = {}
<1>1. Unmissed \subseteq Node
  BY Typed DEF Unmissed, Member, Stepping, Infos, Neighborhood
<1>2. IsFiniteSet(Unmissed) /\ MaxDown <= 1 /\ MaxDown \in Nat
  BY <1>1, FS_Subset, RingBounds DEF Stepping, OneRequest
<1>3. Cardinality(Unmissed) \in Nat
  BY <1>2, FS_CardinalityType
<1>4. Cardinality(Unmissed) = 0
  BY <1>2, <1>3
<1>5. QED
  BY <1>2, <1>4, FS_EmptySet

\* The connections to a node that is killed are closed, and nobody has noticed
\* it yet.
LEMMA KillKeepsRing ==
  ASSUME Stepping, NEW n \in Node, Kill(n)
  PROVE  RingInv'
<1>1. /\ \A t \in Task : Idle(t)
      /\ n \in alive /\ Cardinality(Unmissed) < MaxDown
      /\ alive' = alive \ {n} /\ UNCHANGED info
      /\ clients' = [m \in Node |->
           [clients[m] EXCEPT ![n] = IF @ = "open" THEN "closed" ELSE @]]
      /\ calls' = [t \in Task |-> Interrupted(calls[t], n)]
  BY DEF Kill, Stepping, OneRequest
<1>2. Unmissed = {}
  BY <1>1, NoneUnmissed
<1>3. PICK t \in Task : \A u \in Task : u = t
  BY DEF Stepping, OneRequest
<1>4. Proper(alive, info) /\ NoneClosed(alive, clients)
  BY <1>1, <1>2, <1>3, IdleIsQuiet, SoundWhenMissed DEF Stepping, Sound
<1>5. \A m, o \in Node :
        clients'[m][o] = IF o = n /\ clients[m][n] = "open" THEN "closed"
                                                            ELSE clients[m][o]
  BY <1>1, Typed DEF Stepping
<1>6. OpenIsAlive'
  BY <1>1, <1>5 DEF Stepping, RingInv, OpenIsAlive
<1>7. Remembers'
  <2>1. info[n] = Alone(n) \/ info[n].prev # n
    <3>1. CASE info[n].prev = n
      <4>1. info[n].next = n /\ info[n].nnext = n /\ info[n] \in Neighborhood
        BY <1>1, <1>4, <3>1, Typed DEF Stepping, Proper, Infos
      <4>2. QED
        BY <3>1, <4>1 DEF Neighborhood, Alone
    <3>2. QED
      BY <3>1
  <2>2. QED
    BY <1>1, <2>1 DEF Remembers, Stepping, RingInv
<1>8. Unnoticed(n)'
  <2>1. alive' \cup {n} = alive /\ alive' \subseteq Node
    BY <1>1, Typed DEF Stepping
  <2>2. NoneClosed(alive', clients')
    BY <1>1, <1>4, <1>5, <2>1 DEF NoneClosed
  <2>3. QED
    BY <1>1, <1>4, <2>1, <2>2 DEF Unnoticed
<1>9. Quiet'
  BY <1>1, <1>8 DEF Quiet
<1>10. (\A u \in Task : Phase(calls[u]))'
  <2>1. \A u \in Task : calls'[u] = << >>
    BY <1>1 DEF Idle, Interrupted
  <2>2. QED
    BY <1>9, <2>1 DEF Phase
<1>11. QED
  BY <1>6, <1>7, <1>10 DEF RingInv

-----------------------------------------------------------------------------
(* The theorems.                                                           *)

LEMMA RingStepSteady ==
  ASSUME Stepping, NEW t \in Task, RingStep(t)
  PROVE  Steady(t)
BY QueryAnswered, RepairAnswered, TellNeighborSteady,
   CallJoiningSteady, EnterJoiningSteady, RepairBeforeJoinSteady,
   CopyNeighborsSteady, InsertNextSteady, InstallNeighborsSteady,
   CallLeavingSteady, CopyLeavingSteady, EndLeavingSteady, BecomeAloneSteady,
   EnterMissingSteady, ForgetMissingSteady, UnlinkSteady, RelinkSteady,
   LinkedSteady, PassMissingSteady,
   CopyNextSteady, SendMessageSteady, RepairAfterFailureSteady,
   ReceiveQuerySteady, EndQuerySteady
   DEF RingStep, Unanswered

LEMMA RingInvNext ==
  ASSUME Stepping, RingNext
  PROVE  RingInv'
<1>1. ASSUME NEW t \in Task, NEW n \in Node, Revive(t, n)
      PROVE  RingInv'
  BY <1>1, ReviveAlive, ReviveDown, SteadyKeeps
<1>2. QED
  BY <1>1, StartJoinSteady, StartLeaveSteady, StartQuerySteady, RingStepSteady,
     KillKeepsRing, SteadyKeeps
     DEF RingNext

LEMMA RingInvInit ==
  ASSUME RingInit
  PROVE  RingInv
<1>1. /\ \A n \in Node : info[n] = Alone(n)
      /\ alive = Node
      /\ \A m, o \in Node : clients[m][o] = "none"
      /\ \A t \in Task : calls[t] = << >>
  BY DEF RingInit
<1>2. Proper(alive, info)
  <2> SUFFICES ASSUME NEW n \in alive
               PROVE  /\ info[n].next \in alive /\ info[n].prev \in alive
                      /\ info[info[n].next].prev = n
                      /\ info[info[n].prev].next = n
                      /\ info[n].nnext = info[info[n].next].next
    BY DEF Proper
  <2>1. info[n] = Alone(n)
    BY <1>1
  <2>2. info[n].next = n /\ info[n].nnext = n /\ info[n].prev = n
    BY <2>1 DEF Alone
  <2>3. QED
    BY <2>2
<1>3. Quiet
  BY <1>1, <1>2 DEF Quiet, Sound, NoneClosed
<1>4. QED
  BY <1>1, <1>3 DEF RingInv, OpenIsAlive, Remembers, Phase

LEMMA RingInvStutters ==
  ASSUME RingInv, UNCHANGED ringVars
  PROVE  RingInv'
<1>1. UNCHANGED << calls, info, alive, clients >>
  BY DEF ringVars
<1>2. OpenIsAlive' /\ Remembers'
  BY <1>1 DEF RingInv, OpenIsAlive, Remembers
<1>3. (Sound => Sound') /\ (Quiet => Quiet')
  BY <1>1 DEF Sound, Quiet, Unnoticed
<1>4. \A f : Querying(f) => Querying(f)'
  BY <1>1, <1>3 DEF Querying
<1>5. \A f : Joining(f) => Joining(f)'
  BY <1>1 DEF Joining, Rejoins, Joins
<1>6. \A f : Leaving(f) => Leaving(f)'
  BY <1>1 DEF Leaving
<1>7. \A f, g : JoinedBy(f, g) => JoinedBy(f, g)'
  BY <1>1 DEF JoinedBy, Rejoins, Joins
<1>8. \A f, g : LeftBy(f, g) => LeftBy(f, g)'
  BY <1>1 DEF LeftBy
<1>9. \A g : Repairing(g) => Repairing(g)'
  BY <1>1 DEF Repairing
<1>10. \A s, g : AwaitsRepair(s, g) => AwaitsRepair(s, g)'
  BY <1>1 DEF AwaitsRepair
<1>11. \A s : Phase(s) => Phase(s)'
  BY <1>3, <1>4, <1>5, <1>6, <1>7, <1>8, <1>9, <1>10 DEF Phase
<1>12. QED
  BY <1>1, <1>2, <1>11 DEF RingInv

\* The neighbors, the connections and the only request fit one another.
LEMMA RingInvAlways ==
  ASSUME OneRequest
  PROVE  RingSpec => [](RingTypeOK /\ RingInv)
<1>1. RingInit => RingInv
  BY RingInvInit
<1>2. RingTypeOK /\ RingTypeOK' /\ RingInv /\ [RingNext]_ringVars => RingInv'
  BY RingInvNext, RingInvStutters DEF Stepping
<1>3. RingSpec => []RingTypeOK
  BY RingTypes
<1>4. QED
  BY <1>1, <1>2, <1>3, PTL DEF RingSpec

\* RingAgrees: between two requests, after any series of joins, leaves, crashes,
\* repairs and revivals in rings of any size, the neighbors agree.
THEOREM NeighborsAgree ==
  ASSUME OneRequest
  PROVE  RingSpec => []RingAgrees
<1>1. RingTypeOK /\ RingInv => RingAgrees
  <2> SUFFICES ASSUME RingTypeOK, RingInv, \A t \in Task : Idle(t)
               PROVE  \A n \in Member :
                        /\ info[info[n].next].prev = n
                        /\ info[info[n].prev].next = n
                        /\ info[n].nnext = info[info[n].next].next
    BY DEF RingAgrees
  <2>1. Quiet
    BY IdleIsQuiet DEF OneRequest
  <2>2. CASE Sound
    <3>1. Member \subseteq alive
      BY <2>2 DEF Member, Sound, Proper
    <3>2. QED
      BY <2>2, <3>1 DEF Sound, Proper
  <2>3. ASSUME NEW d \in Node \ alive, Unnoticed(d)
        PROVE  \A n \in Member :
                 /\ info[info[n].next].prev = n
                 /\ info[info[n].prev].next = n
                 /\ info[n].nnext = info[info[n].next].next
    <3>1. Member \subseteq alive \cup {d}
      BY <2>3 DEF Member, Unnoticed, Proper
    <3>2. QED
      BY <2>3, <3>1 DEF Unnoticed, Proper
  <2>4. QED
    BY <2>1, <2>2, <2>3 DEF Quiet
<1>2. QED
  BY <1>1, RingInvAlways, PTL

\* RepairHeals: when repair_topology has returned to send_resource_msg the next
\* node of the sender runs.
THEOREM RepairsHeal ==
  ASSUME OneRequest
  PROVE  RingSpec => []RepairHeals
<1>1. RingTypeOK /\ RingInv => RepairHeals
  <2> SUFFICES ASSUME RingTypeOK, RingInv, NEW t \in Task,
                      At(t, "query", "repaired")
               PROVE  info[Top(t).at].next \in alive
    BY DEF RepairHeals
  <2>1. ~Idle(t) /\ Top(t).fn = "query" /\ Top(t).pc = "repaired"
    BY DEF At
  <2>2. Querying(Top(t))
    BY <2>1, TopPhase
  <2>3. QED
    BY <2>1, <2>2 DEF Querying, Sound, Proper
<1>2. QED
  BY <1>1, RingInvAlways, PTL

\* OnlyDownIsMissed: missing_node, when a message that failed has led to it, is
\* about a node that is down.
THEOREM OnlyDownIsTakenOut ==
  ASSUME OneRequest
  PROVE  RingSpec => []OnlyDownIsMissed
<1>1. RingTypeOK /\ RingInv => OnlyDownIsMissed
  <2> SUFFICES ASSUME RingTypeOK, RingInv, NEW t \in Task, Len(calls[t]) > 1,
                      Top(t).fn = "missing", Caller(t).pc = "repaired"
               PROVE  Top(t).arg \notin alive
    BY DEF OnlyDownIsMissed
  <2>1. PICK s \in Seq(RingFrame) : s = calls[t]
    BY Typed
  <2>2. ~Idle(t)
    BY <2>1 DEF Idle
  <2>3. PICK g : g = Top(t)
    OBVIOUS
  <2>4. AwaitsRepair(s, g)
    BY <2>1, <2>2, <2>3, TopPhase
  <2>5. Caller(t) = s[Len(s) - 1]
    BY <2>1 DEF Caller
  <2>6. Len(s) # 3
    <3>1. SUFFICES ASSUME Len(s) = 3
                   PROVE  FALSE
      OBVIOUS
    <3>2. Len(s) - 1 = 2
      BY <3>1
    <3>3. s[2].pc = "copy"
      BY <2>4, <3>1 DEF AwaitsRepair
    <3>4. Caller(t) = s[2]
      BY <2>5, <3>2
    <3>5. QED
      BY <3>3, <3>4
  <2>7. QED
    BY <2>3, <2>4, <2>6 DEF AwaitsRepair
<1>2. QED
  BY <1>1, RingInvAlways, PTL

-----------------------------------------------------------------------------
(* The order that next nodes make.                                         *)

\* The nodes of A form rings.
Circle(A, g) == \A m \in A : g[m] \in A /\ \A o \in A : g[o] = g[m] => o = m

\* The nodes of A are in the order, and every other one is on its own.
Ordering(A, g) == [m \in Node |-> IF m \in A THEN g[m] ELSE m]

\* The order that the nodes of P make, and the next nodes of those.
OrderBy(P, g) == Ordering(P \cup {g[m] : m \in P}, g)

\* A node that is gone is the next one of a node that is not, or its own.
LEMMA OrderOfCircle ==
  ASSUME NEW g, NEW A, NEW P \in SUBSET A, \A m \in A : g[m] \in A,
         \A m \in A \ P : g[m] = m \/ \E o \in P : g[o] = m
  PROVE  OrderBy(P, g) = Ordering(A, g)
BY DEF OrderBy, Ordering

LEMMA OrderOfClosed ==
  ASSUME NEW g, NEW P, \A m \in P : g[m] \in P
  PROVE  OrderBy(P, g) = Ordering(P, g)
BY OrderOfCircle

NextsOf(i) == [n \in Node |-> i[n].next]

LEMMA ProperCircles ==
  ASSUME NEW i, NEW A \in SUBSET Node, Proper(A, i)
  PROVE  Circle(A, NextsOf(i))
BY DEF Proper, Circle, NextsOf

\* One node of a ring may go, or be there again.
LEMMA OrderWithout ==
  ASSUME NEW i, NEW A \in SUBSET Node, Proper(A, i), NEW n
  PROVE  OrderBy(A \ {n}, NextsOf(i)) = OrderBy(A, NextsOf(i))
<1> DEFINE g == NextsOf(i)
<1>1. \A m \in A : g[m] \in A /\ i[m].prev \in A /\ g[i[m].prev] = m
  BY DEF Proper, NextsOf
<1> HIDE DEF g
<1>2. OrderBy(A, g) = Ordering(A, g)
  BY <1>1, OrderOfClosed
<1>3. \A m \in A \ (A \ {n}) : g[m] = m \/ \E o \in A \ {n} : g[o] = m
  <2> SUFFICES ASSUME NEW m \in A, m = n
               PROVE  g[m] = m \/ \E o \in A \ {n} : g[o] = m
    OBVIOUS
  <2>1. i[m].prev \in A /\ g[i[m].prev] = m
    BY <1>1
  <2>2. QED
    BY <2>1
<1>4. OrderBy(A \ {n}, g) = Ordering(A, g)
  BY <1>1, <1>3, OrderOfCircle
<1>5. QED
  BY <1>2, <1>4 DEF g

\* So may a node that is on its own.
LEMMA OrderWithAlone ==
  ASSUME NEW g, NEW A, NEW n, g[n] = n
  PROVE  OrderBy(A \cup {n}, g) = OrderBy(A, g)
BY DEF OrderBy, Ordering

-----------------------------------------------------------------------------
(* A ring that one node is taken out of, or comes into.                    *)

\* Order g is order f without node n, which comes after m, or with it.
IsTakenOut(f, g, n, m) == f[m] = n /\ g = [f EXCEPT ![m] = f[n], ![n] = n]
IsBroughtIn(f, g, n, m) == f[n] = n /\ g = [f EXCEPT ![m] = n, ![n] = f[m]]

LEMMA TakenOut ==
  ASSUME NEW g \in [Node -> Node], NEW h \in [Node -> Node],
         NEW A \in SUBSET Node, Circle(A, g),
         NEW n \in A, NEW m \in A, m # n, g[m] = n,
         \A o \in Node : h[o] = IF o = m THEN g[n] ELSE g[o]
  PROVE  IsTakenOut(OrderBy(A \ {n}, g), OrderBy(A \ {n}, h), n, m)
<1> DEFINE B == A \ {n}
<1>1. \A o \in A : g[o] \in A /\ \A u \in A : g[u] = g[o] => u = o
  BY DEF Circle
<1>2. OrderBy(B, g) = Ordering(A, g)
  <2>1. \A o \in A \ B : \E u \in B : g[u] = o
    OBVIOUS
  <2>2. QED
    BY <1>1, <2>1, OrderOfCircle
<1>3. g[n] # n
  BY <1>1
<1>4. \A o \in B : h[o] \in B
  BY <1>1, <1>3
<1>5. OrderBy(B, h) = Ordering(B, h)
  BY <1>4, OrderOfClosed
<1>6. Ordering(B, h) = [Ordering(A, g) EXCEPT ![m] = Ordering(A, g)[n], ![n] = n]
  BY <1>3 DEF Ordering
<1>7. Ordering(A, g)[m] = n
  BY DEF Ordering
<1>8. QED
  BY <1>2, <1>5, <1>6, <1>7 DEF IsTakenOut

LEMMA BroughtIn ==
  ASSUME NEW g \in [Node -> Node], NEW h \in [Node -> Node],
         NEW A \in SUBSET Node, Circle(A, h),
         NEW n \in A, NEW m \in A, m # n, h[m] = n, g[m] = h[n],
         \A o \in Node \ {m, n} : h[o] = g[o]
  PROVE  IsBroughtIn(OrderBy(A \ {n}, g), OrderBy(A, h), n, m)
<1> DEFINE B == A \ {n}
<1>1. \A o \in A : h[o] \in A /\ \A u \in A : h[u] = h[o] => u = o
  BY DEF Circle
<1>2. OrderBy(A, h) = Ordering(A, h)
  BY <1>1, OrderOfClosed
<1>3. h[n] # n
  BY <1>1
<1>4. \A o \in B : g[o] \in B
  <2>1. g[m] \in B
    BY <1>1, <1>3
  <2>2. ASSUME NEW o \in B, o # m
        PROVE  g[o] \in B
    BY <1>1, <2>2
  <2>3. QED
    BY <2>1, <2>2
<1>5. OrderBy(B, g) = Ordering(B, g)
  BY <1>4, OrderOfClosed
<1>6. Ordering(A, h) = [Ordering(B, g) EXCEPT ![m] = n, ![n] = Ordering(B, g)[m]]
  BY <1>3 DEF Ordering
<1>7. Ordering(B, g)[n] = n
  BY DEF Ordering
<1>8. QED
  BY <1>2, <1>5, <1>6, <1>7 DEF IsBroughtIn

\* A node that nobody has for the next one becomes its own next node.
LEMMA LeftAlone ==
  ASSUME NEW g \in [Node -> Node], NEW h \in [Node -> Node],
         NEW A \in SUBSET Node, Circle(A, h),
         NEW n \in A, h[n] = n, \A o \in Node \ {n} : h[o] = g[o]
  PROVE  OrderBy(A, h) = OrderBy(A \ {n}, g)
<1> DEFINE B == A \ {n}
<1>1. \A o \in A : h[o] \in A /\ \A u \in A : h[u] = h[o] => u = o
  BY DEF Circle
<1>2. \A o \in B : g[o] \in B /\ h[o] = g[o]
  BY <1>1
<1>3. OrderBy(B, g) = Ordering(B, g) /\ OrderBy(A, h) = Ordering(A, h)
  BY <1>1, <1>2, OrderOfClosed
<1>4. Ordering(A, h) = Ordering(B, g)
  BY <1>2 DEF Ordering
<1>5. QED
  BY <1>3, <1>4

-----------------------------------------------------------------------------
(* The order and the nodes that are about to change, for the only request. *)

Changes(f) == f.fn = "leave" \/ (f.fn = "join" /\ f.pc # "install")
Changing(s) == {n \in Node : \E i \in DOMAIN s : s[i].at = n /\ Changes(s[i])}

Installs(s) == 1 \in DOMAIN s /\ s[1].fn = "join" /\ s[1].pc = "install"
InOrder(s, i) ==
  [n \in Node |-> IF Installs(s) /\ n = s[1].at THEN s[1].next ELSE i[n].next]

\* A join or a leave is the request of the operator, and the last frame of a
\* join installs the neighbors.
FirstOnly(s) ==
  /\ Len(s) \in {0, 1, 2, 3}
  /\ \A i \in DOMAIN s : s[i].fn \in {"join", "leave"} => i = 1
  /\ Installs(s) => Len(s) = 1

LEMMA OnlyFirst ==
  RingTypeOK /\ RingInv => \A t \in Task : FirstOnly(calls[t])
<1> SUFFICES ASSUME RingTypeOK, RingInv, NEW t \in Task
             PROVE  FirstOnly(calls[t])
  OBVIOUS
<1>1. PICK s \in Seq(RingFrame) : s = calls[t]
  BY Typed
<1>2. Phase(s)
  BY <1>1 DEF RingInv
<1>3. CASE s = << >>
  BY <1>1, <1>3 DEF FirstOnly, Installs
<1>4. CASE Len(s) = 1
  BY <1>1, <1>4 DEF FirstOnly
<1>5. CASE Len(s) = 2
  <2>1. \/ JoinedBy(s[1], s[2]) \/ LeftBy(s[1], s[2])
        \/ Repairing(s[2]) /\ AwaitsRepair(s, s[2])
    BY <1>2, <1>5 DEF Phase
  <2>2. s[2].fn \notin {"join", "leave"} /\ s[1].pc # "install"
    BY <1>5, <2>1 DEF JoinedBy, LeftBy, Repairing, AwaitsRepair
  <2>3. QED
    BY <1>1, <1>5, <2>2 DEF FirstOnly, Installs
<1>6. CASE Len(s) = 3
  <2>1. Repairing(s[3]) /\ AwaitsRepair(s, s[3])
    BY <1>2, <1>6 DEF Phase
  <2>2. /\ s[3].fn \notin {"join", "leave"} /\ s[2].fn \notin {"join", "leave"}
        /\ s[1].pc # "install"
    BY <1>6, <2>1 DEF Repairing, AwaitsRepair
  <2>3. QED
    BY <1>1, <1>6, <2>2 DEF FirstOnly, Installs
<1>7. QED
  BY <1>2, <1>3, <1>4, <1>5, <1>6 DEF Phase

LEMMA OrderIs ==
  RingTypeOK /\ RingInv /\ OneRequest =>
    \A t \in Task :
      /\ SuccInOrder = OrderBy(alive \ Changing(calls[t]), InOrder(calls[t], info))
      /\ Gone = (Node \ alive) \cup Changing(calls[t])
<1> SUFFICES ASSUME RingTypeOK, RingInv, OneRequest, NEW t \in Task
             PROVE  /\ SuccInOrder = OrderBy(alive \ Changing(calls[t]),
                                              InOrder(calls[t], info))
                    /\ Gone = (Node \ alive) \cup Changing(calls[t])
  OBVIOUS
<1>1. \A u \in Task : u = t
  BY DEF OneRequest
<1>2. PICK s \in Seq(RingFrame) : s = calls[t]
  BY Typed
<1>3. FirstOnly(s)
  BY <1>2, OnlyFirst
<1>4. At(t, "join", "install") <=> Installs(s)
  <2>1. CASE s = << >>
    BY <1>2, <2>1 DEF At, Idle, Installs
  <2>2. CASE s # << >>
    <3>1. /\ Len(s) \in DOMAIN s /\ 1 \in DOMAIN s
          /\ Top(t) = s[Len(s)] /\ ~Idle(t)
      BY <1>2, <2>2 DEF Top, Idle
    <3>2. QED
      BY <1>3, <3>1 DEF At, Installs, FirstOnly
  <2>3. QED
    BY <2>1, <2>2
<1>5. Installs(s) => Top(t) = s[1]
  BY <1>2, <1>3 DEF FirstOnly, Top
<1>6. NextInOrder = InOrder(s, info)
  <2>1. CASE Installs(s)
    <3>1. {Top(u) : u \in {u \in Task : At(u, "join", "install")}} = {s[1]}
      BY <1>1, <1>4, <1>5, <2>1
    <3>2. \A n \in Node : n = s[1].at =>
            (CHOOSE f \in {s[1]} : f.at = n) = s[1]
      OBVIOUS
    <3>3. QED
      BY <2>1, <3>1, <3>2 DEF NextInOrder, InOrder
  <2>2. CASE ~Installs(s)
    <3>1. {Top(u) : u \in {u \in Task : At(u, "join", "install")}} = {}
      BY <1>1, <1>4, <2>2
    <3>2. QED
      BY <2>2, <3>1 DEF NextInOrder, InOrder
  <2>3. QED
    BY <2>1, <2>2
<1>7. Gone = (Node \ alive) \cup Changing(s)
  BY <1>1, <1>2 DEF Gone, Changing, Changes
<1>8. Node \ Gone = alive \ Changing(s)
  <2>1. alive \in SUBSET Node
    BY Typed
  <2>2. QED
    BY <1>7, <2>1
<1>9. SuccInOrder = OrderBy(alive \ Changing(s), InOrder(s, info))
  BY <1>6, <1>8 DEF SuccInOrder, OrderBy, Ordering
<1>10. QED
  BY <1>2, <1>7, <1>9

LEMMA OrderIsNext ==
  RingTypeOK' /\ RingInv' /\ OneRequest =>
    \A t \in Task :
      /\ FirstOnly(calls'[t])
      /\ SuccInOrder' = OrderBy(alive' \ Changing(calls'[t]),
                                InOrder(calls'[t], info'))
      /\ Gone' = (Node \ alive') \cup Changing(calls'[t])
<1>1. (RingTypeOK /\ RingInv => \A t \in Task : FirstOnly(calls[t]))'
  BY OnlyFirst, PTL
<1>2. (RingTypeOK /\ RingInv /\ OneRequest =>
         \A t \in Task :
           /\ SuccInOrder = OrderBy(alive \ Changing(calls[t]), InOrder(calls[t], info))
           /\ Gone = (Node \ alive) \cup Changing(calls[t]))'
  BY OrderIs, PTL
<1>3. QED
  BY <1>1, <1>2

LEMMA ChangingIs ==
  ASSUME NEW s \in Seq(RingFrame), FirstOnly(s)
  PROVE  Changing(s) = IF 1 \in DOMAIN s /\ Changes(s[1]) THEN {s[1].at} ELSE {}
<1>1. \A i \in DOMAIN s : s[i].at \in Node
  <2>1. \A f \in RingFrame : f.at \in Node
    BY DEF RingFrame
  <2>2. \A i \in DOMAIN s : s[i] \in RingFrame
    OBVIOUS
  <2>3. QED
    BY <2>1, <2>2
<1>2. \A i \in DOMAIN s : Changes(s[i]) => i = 1
  BY DEF FirstOnly, Changes
<1>3. QED
  BY <1>1, <1>2 DEF Changing

-----------------------------------------------------------------------------
(* Steps of the order.                                                     *)

OrderStep == [Order!OrderNext]_(Order!orderVars)

\* The request goes on, and the operator's part of it stays where it is.
FirstKept(s, q) ==
  /\ 1 \in DOMAIN q =>
       /\ 1 \in DOMAIN s /\ q[1].fn = s[1].fn
       /\ q[1].fn \in {"join", "leave"} => q[1].at = s[1].at
  /\ 1 \in DOMAIN s /\ Changes(s[1]) => 1 \in DOMAIN q

\* At most one node comes to be about to change, or does so no longer.
LEMMA SameSucc ==
  ASSUME UNCHANGED SuccInOrder, NEW n \in Node,
         Gone' \in {Gone, Gone \cup {n}, Gone \ {n}}
  PROVE  OrderStep
<1>1. Order!Go(n) \/ Order!Stay(n) \/ UNCHANGED Order!orderVars
  BY DEF Order!Go, Order!Stay, Order!orderVars
<1>2. QED
  BY <1>1 DEF OrderStep, Order!OrderNext

LEMMA SameOrder ==
  ASSUME Stepping, RingInv', NEW t \in Task, UNCHANGED alive,
         InOrder(calls'[t], info') = InOrder(calls[t], info),
         Changing(calls'[t]) = Changing(calls[t])
  PROVE  OrderStep
<1>1. UNCHANGED << SuccInOrder, Gone >>
  BY OrderIs, OrderIsNext DEF Stepping
<1>2. QED
  BY <1>1 DEF OrderStep, Order!orderVars

LEMMA ChangingKept ==
  ASSUME NEW s \in Seq(RingFrame), NEW q \in Seq(RingFrame), FirstOnly(s),
         FirstOnly(q), FirstKept(s, q), ~Installs(s), ~Installs(q)
  PROVE  Changing(q) = Changing(s)
<1>1. /\ Changing(s) = IF 1 \in DOMAIN s /\ Changes(s[1]) THEN {s[1].at} ELSE {}
      /\ Changing(q) = IF 1 \in DOMAIN q /\ Changes(q[1]) THEN {q[1].at} ELSE {}
  BY ChangingIs
<1>2. 1 \in DOMAIN q => (Changes(q[1]) <=> Changes(s[1]))
  BY DEF FirstKept, Installs, Changes
<1>3. 1 \in DOMAIN q /\ Changes(q[1]) => 1 \in DOMAIN s /\ q[1].at = s[1].at
  BY DEF FirstKept, Changes
<1>4. QED
  BY <1>1, <1>2, <1>3 DEF FirstKept

-----------------------------------------------------------------------------
(* What RingInv does not say of a join and a leave: which next nodes are   *)
(* still to be set.                                                        *)

\* The next node of the node before the one that leaves is still to be set, or
\* is set.
LeavesInOrder(f) ==
  \A k \in DOMAIN f.todo : f.todo[k].field = "next" =>
    /\ f.todo[k].value = info[f.at].next
    /\ \/ info[f.todo[k].who].next = f.at /\ Circle(alive, NextsOf(info))
       \/ info[f.todo[k].who].next = f.todo[k].value

Ordered(s) ==
  /\ 2 \in DOMAIN s /\ s[2].fn = "joining" /\ s[2].pc = "tell" =>
       /\ s[2].next = info[s[2].at].next
       /\ \A k \in DOMAIN s[2].todo : s[2].todo[k].field # "next"
  /\ 2 \in DOMAIN s /\ s[2].fn = "leaving" /\ s[2].pc = "tell" =>
       LeavesInOrder(s[2])

OrderStepping == Stepping /\ RingInv' /\ \A t \in Task : Ordered(calls[t])

\* What a step of the request has to show.
Orderly(t) == OrderStep /\ Ordered(calls[t])'

LEMMA SameNextOrder ==
  ASSUME OrderStepping, NEW t \in Task, UNCHANGED alive, SameNext(info', info),
         ~Installs(calls[t]), ~Installs(calls'[t]), FirstKept(calls[t], calls'[t])
  PROVE  OrderStep
<1>1. PICK s \in Seq(RingFrame), q \in Seq(RingFrame) : s = calls[t] /\ q = calls'[t]
  BY Typed, TypedNext DEF OrderStepping, Stepping
<1>2. FirstOnly(s) /\ FirstOnly(q)
  BY <1>1, OnlyFirst, OrderIsNext DEF OrderStepping, Stepping
<1>3. Changing(q) = Changing(s)
  BY <1>1, <1>2, ChangingKept
<1>4. InOrder(calls'[t], info') = InOrder(calls[t], info)
  BY DEF InOrder, SameNext
<1>5. QED
  BY <1>1, <1>3, <1>4, SameOrder DEF OrderStepping

\* The operator's part of the request goes on, and no handler begins to set
\* the neighbors for a join or a leave.
GoesOn(s, q) ==
  /\ FirstKept(s, q) /\ ~Installs(s) /\ ~Installs(q)
  /\ 2 \in DOMAIN q /\ q[2].fn \in {"joining", "leaving"} /\ q[2].pc = "tell" =>
       2 \in DOMAIN s /\ q[2] = s[2]

LEMMA PlainStep ==
  ASSUME OrderStepping, NEW t \in Task, UNCHANGED alive, SameNext(info', info),
         GoesOn(calls[t], calls'[t])
  PROVE  Orderly(t)
<1>1. PICK s \in Seq(RingFrame), q \in Seq(RingFrame) : s = calls[t] /\ q = calls'[t]
  BY Typed, TypedNext DEF OrderStepping, Stepping
<1>2. Ordered(s) /\ GoesOn(s, q) /\ \A n \in Node : info'[n].next = info[n].next
  BY <1>1 DEF OrderStepping, SameNext
<1>4. OrderStep
  BY <1>1, <1>2, SameNextOrder DEF GoesOn
<1>5. /\ \A f \in RingFrame : f.at \in Node /\ f.todo \in Seq(Setting)
      /\ \A x \in Setting : x.who \in Node
  BY DEF RingFrame, Setting
<1>7. ASSUME 2 \in DOMAIN q, q[2].fn = "joining", q[2].pc = "tell"
      PROVE  /\ q[2].next = info'[q[2].at].next
             /\ \A k \in DOMAIN q[2].todo : q[2].todo[k].field # "next"
  <2>1. 2 \in DOMAIN s /\ q[2] = s[2]
    BY <1>2, <1>7 DEF GoesOn
  <2>2. s[2].at \in Node /\ info'[s[2].at].next = info[s[2].at].next
    BY <1>2, <1>5, <2>1
  <2>3. QED
    BY <1>2, <1>7, <2>1, <2>2 DEF Ordered
<1>8. ASSUME 2 \in DOMAIN q, q[2].fn = "leaving", q[2].pc = "tell"
      PROVE  LeavesInOrder(q[2])'
  <2>1. 2 \in DOMAIN s /\ q[2] = s[2]
    BY <1>2, <1>8 DEF GoesOn
  <2>2. PICK f \in RingFrame : f = s[2]
    BY <2>1
  <2>3. LeavesInOrder(f)
    BY <1>2, <1>8, <2>1, <2>2 DEF Ordered
  <2>4. f.at \in Node /\ \A k \in DOMAIN f.todo : f.todo[k].who \in Node
    BY <1>5
  <2>5. NextsOf(info') = NextsOf(info)
    BY <1>2 DEF NextsOf
  <2>6. LeavesInOrder(f)'
    BY <1>2, <2>3, <2>4, <2>5 DEF LeavesInOrder
  <2>7. QED
    BY <2>1, <2>2, <2>6
<1>9. Ordered(q)'
  BY <1>7, <1>8 DEF Ordered
<1>10. QED
  BY <1>1, <1>4, <1>9 DEF Orderly

\* The next step of a handler.
LEMMA GoesToNext ==
  ASSUME OrderStepping, NEW t \in Task, ~Idle(t), NEW f, Goto(t, f),
         f.fn = Top(t).fn, f.fn # "join", f.fn # "leave",
         f.fn = "missing" \/ f.pc # "tell"
  PROVE  GoesOn(calls[t], calls'[t])
<1>1. PICK s \in Seq(RingFrame), q \in Seq(RingFrame) : s = calls[t] /\ q = calls'[t]
  BY Typed, TypedNext DEF OrderStepping, Stepping
<1>2. FirstOnly(s)
  BY <1>1, OnlyFirst DEF OrderStepping, Stepping
<1>3. PICK n \in Nat : n = Len(s) /\ n # 0
  BY <1>1 DEF Idle
<1>4. DOMAIN q = DOMAIN s /\ \A i \in DOMAIN s : q[i] = IF i = n THEN f ELSE s[i]
  BY <1>1, <1>3, Typed DEF Goto, OrderStepping, Stepping
<1>5. s[n].fn = f.fn /\ n \in DOMAIN s
  BY <1>1, <1>3 DEF Top
<1>6. ~Installs(s) /\ ~Installs(q)
  BY <1>2, <1>3, <1>4, <1>5 DEF Installs, FirstOnly
<1>7. FirstKept(s, q)
  BY <1>4, <1>5 DEF FirstKept
<1>8. 2 \in DOMAIN q /\ q[2].fn \in {"joining", "leaving"} /\ q[2].pc = "tell" =>
        2 \in DOMAIN s /\ q[2] = s[2]
  BY <1>4
<1>9. QED
  BY <1>1, <1>6, <1>7, <1>8 DEF GoesOn

\* A handler that calls another one.
LEMMA GoesToCall ==
  ASSUME OrderStepping, NEW t \in Task, ~Idle(t), NEW f \in RingFrame,
         NEW g \in RingFrame, Call(t, f, g), f.fn = Top(t).fn, f.at = Top(t).at,
         Top(t).pc # "install", f.pc \notin {"install", "tell"}, g.pc # "tell"
  PROVE  GoesOn(calls[t], calls'[t])
<1>1. PICK s \in Seq(RingFrame), q \in Seq(RingFrame) : s = calls[t] /\ q = calls'[t]
  BY Typed, TypedNext DEF OrderStepping, Stepping
<1>2. FirstOnly(s)
  BY <1>1, OnlyFirst DEF OrderStepping, Stepping
<1>3. PICK n \in Nat : n = Len(s) /\ n # 0
  BY <1>1 DEF Idle
<1>4. /\ Len(q) = n + 1 /\ q[n] = f /\ q[n + 1] = g
      /\ \A i \in 1 .. n - 1 : q[i] = s[i]
  <2>1. calls \in [Task -> Seq(RingFrame)]
    BY Typed DEF OrderStepping, Stepping
  <2>2. /\ Len(calls'[t]) = Len(calls[t]) + 1
        /\ calls'[t][Len(calls[t])] = f /\ calls'[t][Len(calls[t]) + 1] = g
        /\ \A i \in 1 .. Len(calls[t]) - 1 : calls'[t][i] = calls[t][i]
    BY <2>1 DEF Call, Idle
  <2>3. QED
    BY <1>1, <1>3, <2>2
<1>5. s[n].fn = f.fn /\ s[n].at = f.at /\ s[n].pc # "install" /\ n \in DOMAIN s
  BY <1>1, <1>3 DEF Top
<1>6. n = 1 \/ (n > 1 /\ 1 \in 1 .. n - 1 /\ q[1] = s[1] /\ 1 \in DOMAIN s)
  BY <1>3, <1>4
<1>7. ~Installs(s) /\ ~Installs(q)
  BY <1>2, <1>3, <1>4, <1>5, <1>6 DEF Installs, FirstOnly
<1>8. FirstKept(s, q)
  BY <1>4, <1>5, <1>6 DEF FirstKept
<1>9. ASSUME 2 \in DOMAIN q, q[2].pc = "tell"
      PROVE  2 \in DOMAIN s /\ q[2] = s[2]
  <2>1. CASE n = 1
    BY <1>4, <1>9, <2>1
  <2>2. CASE n = 2
    BY <1>4, <1>9, <2>2
  <2>3. CASE n > 2
    BY <1>3, <1>4, <2>3
  <2>4. QED
    BY <1>3, <2>1, <2>2, <2>3
<1>10. QED
  BY <1>1, <1>7, <1>8, <1>9 DEF GoesOn

\* A handler that returns.
LEMMA GoesBack ==
  ASSUME OrderStepping, NEW t \in Task, ~Idle(t), Return(t),
         Top(t).fn \in {"missing", "query"}, Top(t).pc # "install"
  PROVE  GoesOn(calls[t], calls'[t])
<1>1. PICK s \in Seq(RingFrame), q \in Seq(RingFrame) : s = calls[t] /\ q = calls'[t]
  BY Typed, TypedNext DEF OrderStepping, Stepping
<1>2. FirstOnly(s)
  BY <1>1, OnlyFirst DEF OrderStepping, Stepping
<1>3. PICK n \in Nat : n = Len(s) /\ n # 0
  BY <1>1 DEF Idle
<1>4. Len(q) = n - 1 /\ \A i \in 1 .. n - 1 : q[i] = s[i]
  BY <1>1, <1>3, Typed, ReturnEffect DEF OrderStepping, Stepping
<1>5. \A i \in DOMAIN q : i \in DOMAIN s /\ q[i] = s[i]
  BY <1>3, <1>4
<1>6. s[n].pc # "install"
  BY <1>1, <1>3 DEF Top
<1>7. ~Installs(s)
  BY <1>2, <1>3, <1>6 DEF Installs, FirstOnly
<1>8. 1 \in DOMAIN s /\ Changes(s[1]) => 1 \in DOMAIN q
  <2>1. s[n].fn \in {"missing", "query"}
    BY <1>1, <1>3 DEF Top
  <2>2. Changes(s[1]) => n # 1
    BY <2>1 DEF Changes
  <2>3. QED
    BY <1>3, <1>4, <2>2
<1>9. QED
  BY <1>1, <1>5, <1>7, <1>8 DEF GoesOn, Installs, FirstKept

\* repair_topology.
LEMMA GoesToRepair ==
  ASSUME OrderStepping, NEW t \in Task, ~Idle(t), NEW f \in RingFrame,
         NEW o \in Node, RepairTopology(t, f, o), f.fn = Top(t).fn,
         f.at = Top(t).at, f.fn \notin {"join", "leave"},
         Top(t).pc # "install", f.pc \notin {"install", "tell"}, f.at \in alive
  PROVE  GoesOn(calls[t], calls'[t])
<1>1. Frame("missing", "enter", f.at, o, f.at) \in RingFrame
  <2>1. f.at \in Node
    BY DEF RingFrame
  <2>2. QED
    BY <2>1, HandlerIsFrame
<1>2. Frame("missing", "enter", f.at, o, f.at).pc # "tell"
  BY DEF Frame
<1>3. QED
  BY <1>1, <1>2, GoesToNext, GoesToCall DEF RepairTopology

-----------------------------------------------------------------------------
(* Steps that change no next node.                                         *)

LEMMA TopIs ==
  ASSUME OrderStepping, NEW t \in Task, ~Idle(t)
  PROVE  Top(t) \in RingFrame
BY TopPhase DEF OrderStepping, Stepping

LEMMA NextUnchanged ==
  ASSUME UNCHANGED info
  PROVE  SameNext(info', info)
BY DEF SameNext

\* Steps of other_joining and of messages.
LEMMA NextStepOrderly ==
  ASSUME OrderStepping, NEW t \in Task,
         EnterJoining(t) \/ CopyNext(t) \/ SendMessage(t)
  PROVE  Orderly(t)
<1>1. PICK f \in RingFrame : f = Top(t) /\ ~Idle(t)
  BY TopIs DEF EnterJoining, CopyNext, SendMessage, At
<1>2. f.pc \in {"send", "deliver"} => f.fn = "query"
  BY <1>1, MessageTop DEF OrderStepping
<1>3. CASE EnterJoining(t)
  <2>1. PICK g : /\ g \in {[f EXCEPT !.pc = "repair"], [f EXCEPT !.pc = "copy"]}
                 /\ Goto(t, g) /\ f.fn = "joining"
                 /\ UNCHANGED << info, alive >>
    BY <1>1, <1>3 DEF EnterJoining, At
  <2>2. g.fn = f.fn /\ g.pc # "tell"
    BY <2>1 DEF RingFrame
  <2>3. GoesOn(calls[t], calls'[t])
    BY <1>1, <2>1, <2>2, GoesToNext
  <2>4. QED
    BY <2>1, <2>3, NextUnchanged, PlainStep
<1>4. CASE CopyNext(t) \/ SendMessage(t)
  <2>1. PICK g : /\ Goto(t, g) /\ g.fn = f.fn /\ g.pc # "tell"
                 /\ f.fn = "query" /\ UNCHANGED << info, alive >>
    <3>1. CASE CopyNext(t)
      <4> DEFINE g == [f EXCEPT !.pc = "deliver", !.next = info[f.at].next]
      <4>1. g.fn = f.fn /\ g.pc # "tell"
        BY DEF RingFrame
      <4>2. Goto(t, g) /\ UNCHANGED << info, alive >> /\ f.pc = "send"
        BY <1>1, <3>1 DEF CopyNext
      <4>3. QED
        BY <1>2, <4>1, <4>2
    <3>2. CASE SendMessage(t)
      <4>1. /\ f.pc = "deliver" /\ UNCHANGED << info, alive >>
            /\ \/ Goto(t, [f EXCEPT !.at = f.next, !.pc = "receive",
                                    !.path = Extended(@, f.next)])
               \/ Goto(t, [f EXCEPT !.pc = "failed"])
        BY <1>1, <3>2 DEF SendMessage
      <4>2. \A n, p : LET g == [f EXCEPT !.at = n, !.pc = "receive", !.path = p]
                      IN  g.fn = f.fn /\ g.pc # "tell"
        BY DEF RingFrame
      <4>3. [f EXCEPT !.pc = "failed"].fn = f.fn /\ [f EXCEPT !.pc = "failed"].pc # "tell"
        BY DEF RingFrame
      <4>4. QED
        BY <1>2, <4>1, <4>2, <4>3
    <3>3. QED
      BY <1>4, <3>1, <3>2
  <2>2. GoesOn(calls[t], calls'[t])
    BY <1>1, <2>1, GoesToNext
  <2>3. QED
    BY <2>1, <2>2, NextUnchanged, PlainStep
<1>5. QED
  BY <1>3, <1>4

LEMMA QueryStepOrderly ==
  ASSUME OrderStepping, NEW t \in Task, ReceiveQuery(t) \/ EndQuery(t)
  PROVE  Orderly(t)
<1>1. PICK f \in RingFrame : f = Top(t) /\ ~Idle(t)
  BY TopIs DEF ReceiveQuery, EndQuery, At
<1>2. f.fn = "query" /\ f.pc # "install" /\ UNCHANGED << info, alive >>
  BY <1>1 DEF ReceiveQuery, EndQuery, At
<1>3. Return(t) \/ Goto(t, [f EXCEPT !.pc = "send"])
  BY <1>1 DEF ReceiveQuery, EndQuery
<1>4. [f EXCEPT !.pc = "send"].fn = f.fn /\ [f EXCEPT !.pc = "send"].pc # "tell"
  BY DEF RingFrame
<1>5. GoesOn(calls[t], calls'[t])
  <2>1. CASE Return(t)
    BY <1>1, <1>2, <2>1, GoesBack
  <2>2. CASE Goto(t, [f EXCEPT !.pc = "send"])
    BY <1>1, <1>2, <1>4, <2>2, GoesToNext
  <2>3. QED
    BY <1>3, <2>1, <2>2
<1>6. QED
  BY <1>2, <1>5, NextUnchanged, PlainStep

\* The request returns.
LEMMA LastFrame ==
  ASSUME OrderStepping, NEW t \in Task, ~Idle(t), Return(t), Len(calls[t]) = 1
  PROVE  calls'[t] = << >> /\ Ordered(calls[t])'
<1>1. Len(calls'[t]) = 0
  <2>1. calls \in [Task -> Seq(RingFrame)]
    BY Typed DEF OrderStepping, Stepping
  <2>2. Len(calls'[t]) = Len(calls[t]) - 1
    BY <2>1, ReturnEffect
  <2>3. QED
    BY <2>2
<1>2. PICK q \in Seq(RingFrame) : q = calls'[t]
  BY TypedNext DEF OrderStepping, Stepping
<1>3. q = << >>
  BY <1>1, <1>2
<1>4. 1 \notin DOMAIN q /\ 2 \notin DOMAIN q
  BY <1>3
<1>5. Ordered(q)'
  BY <1>4 DEF Ordered
<1>6. QED
  BY <1>2, <1>3, <1>5

\* A join or a leave fails before it has changed anything.
LEMMA EndsOrderly ==
  ASSUME OrderStepping, NEW t \in Task, ~Idle(t), Return(t), Len(calls[t]) = 1,
         Changes(Top(t)), Top(t).at \in alive, Proper(alive, info),
         UNCHANGED << info, alive >>
  PROVE  Orderly(t)
<1>1. PICK s \in Seq(RingFrame) : s = calls[t]
  BY Typed DEF OrderStepping, Stepping
<1>2. PICK n \in Node : n = Top(t).at /\ n \in alive
  BY Typed DEF OrderStepping, Stepping
<1>3. 1 \in DOMAIN s /\ Top(t) = s[1] /\ FirstOnly(s)
  BY <1>1, OnlyFirst DEF Top, OrderStepping, Stepping
<1>4. calls'[t] = << >> /\ Ordered(calls[t])'
  BY LastFrame
<1>5. ~Installs(s) /\ Changing(s) = {n}
  BY <1>2, <1>3, ChangingIs DEF Changes, Installs
<1>6. ~Installs(<< >>) /\ Changing(<< >>) = {}
  <2>1. 1 \notin DOMAIN << >>
    OBVIOUS
  <2>2. QED
    BY <2>1 DEF Installs, Changing
<1>8. InOrder(s, info) = NextsOf(info) /\ InOrder(<< >>, info') = NextsOf(info)
  BY <1>5, <1>6 DEF InOrder, NextsOf
<1>9. /\ SuccInOrder = OrderBy(alive \ {n}, NextsOf(info))
      /\ Gone = (Node \ alive) \cup {n}
  BY <1>1, <1>5, <1>8, OrderIs DEF OrderStepping, Stepping
<1>10. /\ SuccInOrder' = OrderBy(alive, NextsOf(info))
       /\ Gone' = Node \ alive
  <2>1. alive \ {} = alive /\ (Node \ alive) \cup {} = Node \ alive
    OBVIOUS
  <2>2. QED
    BY <1>4, <1>6, <1>8, <2>1, OrderIsNext DEF OrderStepping, Stepping
<1>11. OrderBy(alive \ {n}, NextsOf(info)) = OrderBy(alive, NextsOf(info))
  BY OrderWithout, Typed DEF OrderStepping, Stepping
<1>12. UNCHANGED SuccInOrder /\ Gone' = Gone \ {n}
  BY <1>2, <1>9, <1>10, <1>11
<1>13. QED
  BY <1>4, <1>12, SameSucc DEF Orderly

\* The calls of a join and a leave, of other_joining and of leave_topology.
LEMMA CallOrderly ==
  ASSUME OrderStepping, NEW t \in Task, CallJoining(t) \/ CallLeaving(t)
  PROVE  Orderly(t)
<1>1. PICK f \in RingFrame : f = Top(t) /\ ~Idle(t)
  BY TopIs DEF CallJoining, CallLeaving, At
<1>2. /\ f.pc = "call" /\ f.fn \in {"join", "leave"}
      /\ UNCHANGED << info, alive >>
  BY <1>1 DEF CallJoining, CallLeaving, At
<1> DEFINE c == [f EXCEPT !.pc = "await"]
<1>3. c \in RingFrame /\ c.fn = f.fn /\ c.at = f.at /\ c.pc = "await"
  BY DEF RingFrame
<1>4. f.at \in Node /\ f.arg \in Node
  BY DEF RingFrame
<1>5. CASE Return(t) /\ (f.fn = "join" => ~Reaches(f.at, f.arg))
  <2>1. /\ Len(calls[t]) = 1 /\ f.at \in alive
        /\ f.fn = "join" => Joining(f)
        /\ f.fn = "leave" => Leaving(f)
    BY <1>1, <1>2, TopPhase DEF OrderStepping, Stepping, Joining, Leaving
  <2>2. Proper(alive, info)
    <3>1. CASE f.fn = "leave"
      BY <1>2, <2>1, <3>1 DEF Leaving
    <3>2. CASE f.fn = "join"
      <4>1. NoneClosed(alive, clients) => f.arg \notin alive
        BY <1>4, <1>5, <3>2, Reaching
           DEF NoneClosed, OrderStepping, Stepping, RingInv
      <4>2. QED
        BY <1>2, <2>1, <3>2, <4>1 DEF Joining, Rejoins, Joins
    <3>3. QED
      BY <1>2, <3>1, <3>2
  <2>3. Changes(f)
    BY <1>2 DEF Changes
  <2>4. QED
    BY <1>1, <1>2, <1>5, <2>1, <2>2, <2>3, EndsOrderly
<1>6. ASSUME NEW g \in RingFrame, g.pc # "tell", Call(t, c, g)
      PROVE  Orderly(t)
  <2>1. c.pc \notin {"install", "tell"} /\ f.pc # "install"
    BY <1>2, <1>3
  <2> HIDE DEF c
  <2>2. GoesOn(calls[t], calls'[t])
    BY <1>1, <1>3, <1>6, <2>1, GoesToCall
  <2>3. QED
    BY <1>2, <2>2, NextUnchanged, PlainStep
<1>7. \A fn \in {"joining", "leaving"}, pc \in {"enter", "copy"}, n, o, m \in Node :
        Frame(fn, pc, n, o, m) \in RingFrame /\ Frame(fn, pc, n, o, m).pc = pc
  BY HandlerIsFrame DEF Frame
<1>8. \/ Return(t) /\ (f.fn = "join" => ~Reaches(f.at, f.arg))
      \/ Call(t, c, Frame("joining", "enter", f.arg, f.at, f.at))
      \/ Call(t, c, Frame("leaving", "copy", f.at, f.at, f.at))
  BY <1>1 DEF CallJoining, CallLeaving, At
<1> HIDE DEF c
<1>9. QED
  BY <1>4, <1>5, <1>6, <1>7, <1>8

LEMMA RepairOrderly ==
  ASSUME OrderStepping, NEW t \in Task, RepairBeforeJoin(t) \/ RepairAfterFailure(t)
  PROVE  Orderly(t)
<1>1. PICK f \in RingFrame : f = Top(t) /\ ~Idle(t)
  BY TopIs DEF RepairBeforeJoin, RepairAfterFailure, At
<1>2. f.pc = "failed" => f.fn = "query"
  BY <1>1, MessageTop DEF OrderStepping
<1>3. f.pc \in {"failed", "repair"} /\ f.fn \in {"query", "joining"} => f.at \in alive
  BY <1>1, TopPhase DEF OrderStepping, Stepping, Querying, JoinedBy
<1>4. PICK g \in RingFrame, o \in Node :
        /\ RepairTopology(t, g, o) /\ g.fn = f.fn /\ g.at = f.at
        /\ f.fn \notin {"join", "leave"} /\ f.pc # "install"
        /\ g.pc \notin {"install", "tell"} /\ g.at \in alive
        /\ UNCHANGED << info, alive >>
  <2>1. f.arg \in Node /\ f.next \in Node
    BY DEF RingFrame
  <2>2. \A pc \in {"copy", "repaired"} :
          LET g == [f EXCEPT !.pc = pc] IN
            g \in RingFrame /\ g.fn = f.fn /\ g.at = f.at /\ g.pc = pc
    BY DEF RingFrame
  <2>3. /\ UNCHANGED << info, alive >>
        /\ \/ /\ f.fn = "joining" /\ f.pc = "repair"
              /\ RepairTopology(t, [f EXCEPT !.pc = "copy"], f.arg)
           \/ /\ f.pc = "failed"
              /\ RepairTopology(t, [f EXCEPT !.pc = "repaired"], f.next)
    BY <1>1 DEF RepairBeforeJoin, RepairAfterFailure, At
  <2>4. QED
    BY <1>2, <1>3, <2>1, <2>2, <2>3
<1>5. GoesOn(calls[t], calls'[t])
  BY <1>1, <1>4, GoesToRepair
<1>6. QED
  BY <1>4, <1>5, NextUnchanged, PlainStep

\* A repair does not fail: it goes to nodes that run and are not missed.
LEMMA ReachesOthers ==
  ASSUME OrderStepping, NEW g \in RingFrame, Repairing(g), NEW n \in Node,
         NEW o \in alive \ {g.arg}
  PROVE  Reaches(n, o)
<1>1. o \in Node
  BY Typed DEF OrderStepping, Stepping
<1>2. \E S : ClosedTo(alive, clients, g.arg, S)
  BY DEF Repairing
<1>3. clients[n][o] # "closed"
  BY <1>1, <1>2 DEF ClosedTo
<1>4. QED
  BY <1>1, <1>3, Reaching DEF OrderStepping, Stepping, RingInv

\* What missing_node does to the fields other than next, and to its message.
LEMMA PassOrderly ==
  ASSUME OrderStepping, NEW t \in Task, Relink(t) \/ Linked(t) \/ PassMissing(t)
  PROVE  Orderly(t)
<1>1. PICK f \in RingFrame : f = Top(t) /\ ~Idle(t) /\ f.fn = "missing"
  BY TopIs DEF Relink, Linked, PassMissing, Told, At
<1>2. UNCHANGED alive /\ Repairing(f) /\ f.at \in Node
  <2>1. UNCHANGED alive /\ Repairing(f)
    BY <1>1, TopPhase
       DEF Relink, Linked, PassMissing, Told, At, OrderStepping, Stepping
  <2>2. QED
    BY <2>1 DEF RingFrame
<1>3. PICK i \in Infos : i = info
  BY Typed DEF OrderStepping, Stepping
<1>4. (\E g : Goto(t, g) /\ g.fn = "missing") /\ SameNext(info', i)
  <2>1. CASE Relink(t)
    <3>1. f.pc = "relink" /\ f.nnext \in alive \ {f.arg}
      BY <1>1, <1>2, <2>1 DEF Relink, At, Repairing
    <3>2. Reaches(f.at, f.nnext)
      BY <1>2, <3>1, ReachesOthers
    <3>3. /\ Goto(t, [f EXCEPT !.pc = "linked", !.reply = i[f.nnext].next])
          /\ info' = [i EXCEPT ![f.nnext].prev = f.at]
      BY <1>1, <1>3, <2>1, <3>2 DEF Relink
    <3>4. [f EXCEPT !.pc = "linked", !.reply = i[f.nnext].next].fn = "missing"
      BY <1>1 DEF RingFrame
    <3>5. SameNext(info', i)
      BY <3>3 DEF SameNext, Infos, Neighborhood
    <3>6. QED
      BY <3>3, <3>4, <3>5
  <2>2. CASE Linked(t)
    <3>1. PICK v, d :
            /\ Goto(t, [f EXCEPT !.pc = "tell", !.next = f.nnext, !.todo = d])
            /\ info' = [i EXCEPT ![f.at] = [next |-> @.next, nnext |-> f.reply,
                                            prev |-> v]]
      <4> DEFINE d == IF f.prev = f.next THEN << >>
                      ELSE << Set(f.at, f.prev, "nnext", f.nnext) >>
                 v == IF f.prev = f.next THEN f.nnext ELSE i[f.at].prev
      <4>1. Goto(t, [f EXCEPT !.pc = "tell", !.next = f.nnext, !.todo = d])
        BY <1>1, <2>2 DEF Linked
      <4>2. info' = [i EXCEPT ![f.at] = [next |-> @.next, nnext |-> f.reply,
                                         prev |-> v]]
        BY <1>1, <1>3, <2>2 DEF Linked
      <4> HIDE DEF d, v
      <4>3. QED
        BY <4>1, <4>2
    <3>2. [f EXCEPT !.pc = "tell", !.next = f.nnext, !.todo = d].fn = "missing"
      BY <1>1 DEF RingFrame
    <3>3. SameNext(info', i)
      BY <3>1 DEF SameNext, Infos
    <3>4. QED
      BY <3>1, <3>2, <3>3
  <2>3. CASE PassMissing(t)
    <3>1. f.pc = "tell" /\ f.todo = << >>
      BY <1>1, <2>3 DEF PassMissing, Told, At
    <3>2. f.next \in alive \ {f.arg}
      <4>1. /\ f.next = info[f.at].next /\ f.at \in alive \ {f.arg}
            /\ Proper(alive \ {f.arg}, After(info, f.todo))
        BY <1>2, <3>1 DEF Repairing
      <4>2. After(info, f.todo) = info
        BY <3>1, AfterNone
      <4>3. Proper(alive \ {f.arg}, info)
        BY <4>1, <4>2
      <4>4. QED
        BY <4>1, <4>3 DEF Proper
    <3>3. Reaches(f.at, f.next)
      BY <1>2, <3>2, ReachesOthers
    <3>4. /\ Goto(t, Frame("missing", "enter", f.next, f.arg, f.from))
          /\ info' = i
      BY <1>1, <1>3, <2>3, <3>3 DEF PassMissing
    <3>5. QED
      BY <3>4 DEF Frame, SameNext
  <2>4. QED
    BY <2>1, <2>2, <2>3
<1>5. GoesOn(calls[t], calls'[t])
  BY <1>1, <1>4, GoesToNext
<1>6. QED
  BY <1>2, <1>3, <1>4, <1>5, PlainStep

\* The first two steps of missing_node change no neighbors.
LEMMA MissingOrderly ==
  ASSUME OrderStepping, NEW t \in Task, EnterMissing(t) \/ ForgetMissing(t)
  PROVE  Orderly(t)
<1>1. PICK f \in RingFrame : f = Top(t) /\ ~Idle(t) /\ f.fn = "missing"
  BY TopIs DEF EnterMissing, ForgetMissing, At
<1>2. f.pc # "install" /\ UNCHANGED << info, alive >>
  BY <1>1 DEF EnterMissing, ForgetMissing, At
<1>3. PICK i \in Infos : i = info
  BY Typed DEF OrderStepping, Stepping
<1>4. \/ Return(t)
      \/ Goto(t, [f EXCEPT !.pc = "forget", !.next = i[f.at].next])
      \/ Goto(t, [f EXCEPT !.pc = "unlink", !.nnext = i[f.at].nnext,
                           !.prev = i[f.at].prev])
      \/ Goto(t, [f EXCEPT !.pc = "tell"])
  BY <1>1, <1>3 DEF EnterMissing, ForgetMissing
<1>5. \A n, p :
        /\ [f EXCEPT !.pc = "forget", !.next = n].fn = "missing"
        /\ [f EXCEPT !.pc = "unlink", !.nnext = n, !.prev = p].fn = "missing"
        /\ [f EXCEPT !.pc = "tell"].fn = "missing"
  BY <1>1 DEF RingFrame
<1>6. GoesOn(calls[t], calls'[t])
  <2>1. CASE Return(t)
    BY <1>1, <1>2, <2>1, GoesBack
  <2>2. ASSUME NEW g, Goto(t, g), g.fn = "missing"
        PROVE  GoesOn(calls[t], calls'[t])
    BY <1>1, <2>2, GoesToNext
  <2>3. QED
    BY <1>4, <1>5, <2>1, <2>2
<1>7. QED
  BY <1>2, <1>6, NextUnchanged, PlainStep

\* leave_topology has returned.
LEMMA EndLeavingOrderly ==
  ASSUME OrderStepping, NEW t \in Task, EndLeaving(t)
  PROVE  Orderly(t)
<1>1. PICK f \in RingFrame : f = Top(t) /\ ~Idle(t) /\ f.fn = "leaving"
  BY TopIs DEF EndLeaving, Told, At
<1>2. PICK c \in RingFrame : /\ Len(calls[t]) = 2 /\ c = calls[t][1]
                             /\ LeftBy(c, f) /\ c = Caller(t)
  BY <1>1, TopPhase DEF OrderStepping, Stepping
<1> DEFINE g == [c EXCEPT !.pc = "alone"]
<1>3. g \in RingFrame /\ g.fn = c.fn /\ g.at = c.at /\ g.pc = "alone"
  BY DEF RingFrame
<1>4. ReturnTo(t, g) /\ UNCHANGED << info, alive >>
  BY <1>2 DEF EndLeaving
<1> HIDE DEF g
<1>5. PICK s \in Seq(RingFrame), q \in Seq(RingFrame) : s = calls[t] /\ q = calls'[t]
  BY Typed, TypedNext DEF OrderStepping, Stepping
<1>6. Len(q) = 1 /\ q[1] = g
  <2>1. calls \in [Task -> Seq(RingFrame)] /\ Len(calls[t]) > 1
    BY <1>2, Typed DEF OrderStepping, Stepping
  <2>2. /\ Len(calls'[t]) = Len(calls[t]) - 1
        /\ calls'[t][Len(calls[t]) - 1] = g
    BY <1>3, <1>4, <2>1, ReturnToEffect
  <2>3. QED
    BY <1>2, <1>5, <2>2
<1>7. c.fn = "leave" /\ 1 \in DOMAIN s /\ s[1] = c
  <2>1. c.fn = "leave"
    BY <1>2 DEF LeftBy
  <2>2. calls[t] = s /\ Len(calls[t]) = 2 /\ calls[t][1] = c
    BY <1>2, <1>5
  <2>3. Len(s) = 2 /\ s[1] = c
    BY <2>2
  <2>4. 1 \in DOMAIN s
    BY <2>3
  <2>5. QED
    BY <2>1, <2>3, <2>4
<1>8. GoesOn(s, q)
  BY <1>3, <1>6, <1>7 DEF GoesOn, FirstKept, Installs
<1>9. QED
  BY <1>4, <1>5, <1>8, NextUnchanged, PlainStep

-----------------------------------------------------------------------------
(* Handlers that set the neighbors for a join or a leave.                  *)

\* The handler of a join or a leave goes on.
LEMMA HandlerOrdered ==
  ASSUME OrderStepping, NEW t \in Task, ~Idle(t), Len(calls[t]) = 2,
         NEW g \in RingFrame, Goto(t, g), g.fn = Top(t).fn,
         g.fn \in {"joining", "leaving"}, UNCHANGED alive,
         g.fn = "joining" /\ g.pc = "tell" =>
           /\ g.next = info'[g.at].next
           /\ \A k \in DOMAIN g.todo : g.todo[k].field # "next",
         g.fn = "leaving" /\ g.pc = "tell" => LeavesInOrder(g)'
  PROVE  /\ FirstKept(calls[t], calls'[t])
         /\ ~Installs(calls[t]) /\ ~Installs(calls'[t])
         /\ 1 \in DOMAIN calls'[t] /\ 1 \in DOMAIN calls[t]
         /\ calls'[t][1] = calls[t][1]
         /\ Ordered(calls[t])'
<1>1. PICK s \in Seq(RingFrame), q \in Seq(RingFrame) : s = calls[t] /\ q = calls'[t]
  BY Typed, TypedNext DEF OrderStepping, Stepping
<1>2. FirstOnly(s) /\ Len(s) = 2
  BY <1>1, OnlyFirst DEF OrderStepping, Stepping
<1>3. DOMAIN q = DOMAIN s /\ \A i \in DOMAIN s : q[i] = IF i = 2 THEN g ELSE s[i]
  BY <1>1, <1>2, Typed DEF Goto, OrderStepping, Stepping
<1>4. DOMAIN s = {1, 2} /\ q[1] = s[1] /\ q[2] = g
  BY <1>2, <1>3
<1>5. ~Installs(s) /\ ~Installs(q)
  BY <1>2, <1>3, <1>4 DEF Installs, FirstOnly
<1>6. FirstKept(s, q)
  BY <1>3, <1>4 DEF FirstKept
<1>7. Ordered(q)'
  BY <1>1, <1>3, <1>4 DEF Ordered
<1>8. QED
  BY <1>1, <1>3, <1>4, <1>5, <1>6, <1>7

\* ... and changes no next node.
LEMMA HandlerOrderly ==
  ASSUME OrderStepping, NEW t \in Task, ~Idle(t), Len(calls[t]) = 2,
         NEW g \in RingFrame, Goto(t, g), g.fn = Top(t).fn,
         g.fn \in {"joining", "leaving"}, UNCHANGED alive, SameNext(info', info),
         g.fn = "joining" /\ g.pc = "tell" =>
           /\ g.next = info'[g.at].next
           /\ \A k \in DOMAIN g.todo : g.todo[k].field # "next",
         g.fn = "leaving" /\ g.pc = "tell" => LeavesInOrder(g)'
  PROVE  Orderly(t)
<1>1. /\ FirstKept(calls[t], calls'[t])
      /\ ~Installs(calls[t]) /\ ~Installs(calls'[t])
      /\ Ordered(calls[t])'
  BY HandlerOrdered
<1>2. OrderStep
  BY <1>1, SameNextOrder
<1>3. QED
  BY <1>1, <1>2 DEF Orderly

LEMMA CopyNeighborsOrderly ==
  ASSUME OrderStepping, NEW t \in Task, CopyNeighbors(t)
  PROVE  Orderly(t)
<1>1. PICK f \in RingFrame : f = Top(t) /\ ~Idle(t) /\ f.fn = "joining"
  BY TopIs DEF CopyNeighbors, At
<1>2. Len(calls[t]) = 2 /\ JoinedBy(calls[t][1], f)
  BY <1>1, TopPhase DEF OrderStepping, Stepping
<1>3. PICK i \in Infos : i = info
  BY Typed DEF OrderStepping, Stepping
<1> DEFINE a == Set(f.at, i[f.at].next, "prev", f.arg)
           b == Set(f.at, i[f.at].prev, "nnext", f.arg)
           g == [f EXCEPT !.pc = "tell", !.next = i[f.at].next, !.todo = << a, b >>]
<1>4. /\ a \in Setting /\ b \in Setting /\ a.field # "next" /\ b.field # "next"
      /\ i[f.at].next \in Node
  <2>1. /\ f.at \in Node /\ f.arg \in Node
        /\ i[f.at].next \in Node /\ i[f.at].prev \in Node
    BY DEF RingFrame, Infos, Neighborhood
  <2>2. QED
    BY <2>1 DEF Set, Setting
<1>5. Goto(t, g) /\ UNCHANGED << info, alive >>
  BY <1>1, <1>3 DEF CopyNeighbors
<1> HIDE DEF a, b
<1>6. /\ << a, b >> \in Seq(Setting)
      /\ \A k \in DOMAIN << a, b >> : << a, b >>[k].field # "next"
  BY <1>4
<1>7. /\ g \in RingFrame /\ g.fn = f.fn /\ g.at = f.at
      /\ g.next = i[f.at].next /\ g.todo = << a, b >>
  <2>1. PICK q : q = << a, b >>
    OBVIOUS
  <2>2. q \in Seq(Setting)
    BY <1>6, <2>1
  <2>3. LET h == [f EXCEPT !.pc = "tell", !.next = i[f.at].next, !.todo = q] IN
          /\ h \in RingFrame /\ h.fn = f.fn /\ h.at = f.at
          /\ h.next = i[f.at].next /\ h.todo = q
    BY <1>4, <2>2 DEF RingFrame
  <2>4. QED
    BY <2>1, <2>3
<1> HIDE DEF g
<1>8. calls[t][1].fn = "join" /\ calls[t][1].pc = "await"
  BY <1>2 DEF JoinedBy
<1>9. QED
  BY <1>1, <1>2, <1>3, <1>5, <1>6, <1>7, <1>8, NextUnchanged, HandlerOrderly

\* leave_topology will set the next node of one node only, the previous one.
LEMMA LeaveSettingsNext ==
  ASSUME NEW n, NEW i, NEW k \in DOMAIN LeaveSettings(n, i),
         LeaveSettings(n, i)[k].field = "next"
  PROVE  /\ LeaveSettings(n, i)[k].who = i.prev
         /\ LeaveSettings(n, i)[k].value = i.next
<1>1. CASE i.prev = i.next
  BY <1>1 DEF LeaveSettings, Set
<1>2. CASE i.prev # i.next /\ i.prev = i.nnext
  BY <1>2 DEF LeaveSettings, Set
<1>3. CASE i.prev # i.next /\ i.prev # i.nnext
  BY <1>3 DEF LeaveSettings, Set
<1>4. QED
  BY <1>1, <1>2, <1>3

LEMMA CopyLeavingOrderly ==
  ASSUME OrderStepping, NEW t \in Task, CopyLeaving(t)
  PROVE  Orderly(t)
<1>1. PICK f \in RingFrame : f = Top(t) /\ ~Idle(t) /\ f.fn = "leaving" /\ f.pc = "copy"
  BY TopIs DEF CopyLeaving, At
<1>2. Len(calls[t]) = 2 /\ LeftBy(calls[t][1], f)
  BY <1>1, TopPhase DEF OrderStepping, Stepping
<1>3. /\ f.at \in alive /\ Proper(alive, info) /\ calls[t][1].fn = "leave"
      /\ calls[t][1].pc = "await"
  BY <1>1, <1>2 DEF LeftBy
<1>4. info \in Infos /\ alive \in SUBSET Node
  BY Typed DEF OrderStepping, Stepping
<1>5. PICK q : q = LeaveSettings(f.at, info[f.at])
  OBVIOUS
<1>6. q \in Seq(Setting)
  <2>1. /\ info[f.at].next \in alive /\ info[f.at].prev \in alive
        /\ info[f.at].nnext \in alive
    BY <1>3 DEF Proper
  <2>2. QED
    BY <1>3, <1>4, <1>5, <2>1, LeaveSettingsIn
<1>7. UNCHANGED << info, alive >> /\ Goto(t, [f EXCEPT !.pc = "tell", !.todo = q])
  BY <1>1, <1>5 DEF CopyLeaving
<1>8. PICK g \in RingFrame : /\ g = [f EXCEPT !.pc = "tell", !.todo = q]
                             /\ g.fn = f.fn /\ g.at = f.at /\ g.todo = q
  <2>1. LET h == [f EXCEPT !.pc = "tell", !.todo = q] IN
          h \in RingFrame /\ h.fn = f.fn /\ h.at = f.at /\ h.todo = q
    BY <1>6 DEF RingFrame
  <2>2. QED
    BY <2>1
<1>9. LeavesInOrder(g)
  <2> SUFFICES ASSUME NEW k \in DOMAIN q, q[k].field = "next"
               PROVE  /\ q[k].value = info[f.at].next
                      /\ info[q[k].who].next = f.at /\ Circle(alive, NextsOf(info))
    BY <1>8 DEF LeavesInOrder
  <2>1. q[k].who = info[f.at].prev /\ q[k].value = info[f.at].next
    BY <1>5, LeaveSettingsNext
  <2>2. info[info[f.at].prev].next = f.at
    BY <1>3 DEF Proper
  <2>3. Circle(alive, NextsOf(info))
    BY <1>3, <1>4, ProperCircles DEF NextsOf
  <2>4. QED
    BY <2>1, <2>2, <2>3
<1>10. LeavesInOrder(g)'
  BY <1>7, <1>9 DEF LeavesInOrder, NextsOf
<1>11. QED
  BY <1>1, <1>2, <1>3, <1>7, <1>8, <1>10, NextUnchanged, HandlerOrderly

\* A field of another node is set, or the handler fails.
LEMMA TellsOrFails ==
  ASSUME OrderStepping, NEW t \in Task, TellNeighbor(t), NEW f \in RingFrame,
         f = Top(t)
  PROVE  /\ ~Idle(t) /\ f.pc = "tell" /\ UNCHANGED alive
         /\ 1 \in DOMAIN f.todo /\ Head(f.todo) = f.todo[1]
         /\ Head(f.todo) \in Setting
         /\ \/ ~Reaches(Head(f.todo).by, Head(f.todo).who)
            \/ \E g \in RingFrame :
                 /\ Goto(t, g) /\ g.fn = f.fn /\ g.pc = "tell"
                 /\ g.at = f.at /\ g.next = f.next
                 /\ IF Head(f.todo).field = "nnextOfPrev" THEN UNCHANGED info
                    ELSE info' = Apply(info, Head(f.todo))
                 /\ \A k \in DOMAIN g.todo :
                      \/ g.todo[k].field = "nnext"
                      \/ \E j \in DOMAIN f.todo : g.todo[k] = f.todo[j]
<1>1. ~Idle(t) /\ f.pc = "tell" /\ f.todo # << >> /\ UNCHANGED alive
  BY DEF TellNeighbor
<1>2. f.todo \in Seq(Setting)
  BY DEF RingFrame
<1>3. PICK s \in Setting : s = Head(f.todo) /\ s = f.todo[1] /\ 1 \in DOMAIN f.todo
  BY <1>1, <1>2
<1>4. s.who \in Node /\ s.value \in Node /\ info \in Infos
  BY Typed DEF Setting, OrderStepping, Stepping
<1>5. info[s.who].prev \in Node
  BY <1>4 DEF Infos, Neighborhood
<1> DEFINE e == Set(s.who, info[s.who].prev, "nnext", s.value)
           r == Tail(f.todo)
           q == << e >> \o r
<1>6. e \in Setting /\ e.field = "nnext"
  BY <1>4, <1>5, SetIsSetting DEF Set
<1>7. r \in Seq(Setting) /\ \A k \in DOMAIN r : \E j \in DOMAIN f.todo : r[k] = f.todo[j]
  BY <1>1, <1>2, SettingsAfter
<1>8. \/ ~Reaches(s.by, s.who)
      \/ /\ s.field = "nnextOfPrev"
         /\ Goto(t, [f EXCEPT !.todo = q]) /\ UNCHANGED info
      \/ /\ s.field # "nnextOfPrev"
         /\ Goto(t, [f EXCEPT !.todo = r])
         /\ info' = [info EXCEPT ![s.who][s.field] = s.value]
  BY <1>3 DEF TellNeighbor
<1> HIDE DEF e, r
<1>9. q \in Seq(Setting) /\ \A k \in DOMAIN q : q[k] = e \/ \E j \in DOMAIN r : q[k] = r[j]
  BY <1>6, <1>7, SettingsBefore
<1> HIDE DEF q
<1>10. \A d \in Seq(Setting) :
         LET g == [f EXCEPT !.todo = d] IN
           /\ g \in RingFrame /\ g.fn = f.fn /\ g.pc = f.pc /\ g.at = f.at
           /\ g.next = f.next /\ g.todo = d
  BY DEF RingFrame
<1>11. CASE ~Reaches(s.by, s.who)
  BY <1>1, <1>3, <1>11
<1>12. CASE /\ s.field = "nnextOfPrev"
            /\ Goto(t, [f EXCEPT !.todo = q]) /\ UNCHANGED info
  <2>1. \A k \in DOMAIN q : \/ q[k].field = "nnext"
                            \/ \E j \in DOMAIN f.todo : q[k] = f.todo[j]
    BY <1>6, <1>7, <1>9
  <2>2. PICK g \in RingFrame : /\ Goto(t, g) /\ g.fn = f.fn /\ g.pc = f.pc
                               /\ g.at = f.at /\ g.next = f.next /\ g.todo = q
    BY <1>9, <1>10, <1>12
  <2>3. QED
    BY <1>1, <1>3, <1>12, <2>1, <2>2
<1>13. CASE /\ s.field # "nnextOfPrev"
            /\ Goto(t, [f EXCEPT !.todo = r])
            /\ info' = [info EXCEPT ![s.who][s.field] = s.value]
  <2>1. info' = Apply(info, s)
    BY <1>4, <1>13, FieldIsSet
  <2>2. PICK g \in RingFrame : /\ Goto(t, g) /\ g.fn = f.fn /\ g.pc = f.pc
                               /\ g.at = f.at /\ g.next = f.next /\ g.todo = r
    BY <1>7, <1>10, <1>13
  <2>3. QED
    BY <1>1, <1>3, <1>7, <1>13, <2>1, <2>2
<1>14. QED
  BY <1>8, <1>11, <1>12, <1>13

\* Only a next node that is set changes the next nodes.
LEMMA OtherFieldSet ==
  ASSUME OrderStepping, NEW s \in Setting, s.field # "next",
         IF s.field = "nnextOfPrev" THEN UNCHANGED info ELSE info' = Apply(info, s)
  PROVE  SameNext(info', info)
<1>1. CASE s.field = "nnextOfPrev"
  BY <1>1 DEF SameNext
<1>2. CASE s.field # "nnextOfPrev"
  <2>1. Differs(info', info, s.who, s.field, s.value)
    BY <1>2, Applied, Typed DEF OrderStepping, Stepping
  <2>2. QED
    BY <2>1, NextKept
<1>3. QED
  BY <1>1, <1>2

LEMMA TellMissingOrderly ==
  ASSUME OrderStepping, NEW t \in Task, TellNeighbor(t), Top(t).fn = "missing"
  PROVE  Orderly(t)
<1>1. PICK f \in RingFrame : f = Top(t) /\ ~Idle(t) /\ f.fn = "missing"
  BY TopIs DEF TellNeighbor
<1>2. /\ f.pc = "tell" /\ UNCHANGED alive /\ 1 \in DOMAIN f.todo
      /\ Head(f.todo) = f.todo[1] /\ Head(f.todo) \in Setting
  BY <1>1, TellsOrFails
<1>3. Head(f.todo).field = "nnext"
  <2>1. Repairing(f)
    BY <1>1, TopPhase DEF OrderStepping, Stepping
  <2>2. QED
    BY <1>2, <2>1 DEF Repairing
<1>4. Reaches(Head(f.todo).by, Head(f.todo).who)
  <2>1. Repairing(f) /\ Addressed(alive \ {f.arg}, f.todo)
    BY <1>1, <1>2, TopPhase DEF OrderStepping, Stepping, Repairing
  <2>2. Head(f.todo).by \in Node /\ Head(f.todo).who \in alive \ {f.arg}
    BY <1>2, <2>1 DEF Addressed, Setting
  <2>3. QED
    BY <2>1, <2>2, ReachesOthers
<1>5. PICK g \in RingFrame : /\ Goto(t, g) /\ g.fn = f.fn
                             /\ info' = Apply(info, Head(f.todo))
  BY <1>1, <1>3, <1>4, TellsOrFails
<1>6. SameNext(info', info)
  BY <1>2, <1>3, <1>5, OtherFieldSet
<1>7. GoesOn(calls[t], calls'[t])
  BY <1>1, <1>5, GoesToNext
<1>8. QED
  BY <1>2, <1>6, <1>7, PlainStep

\* A join or a leave does not fail either.
LEMMA ReachesAll ==
  ASSUME OrderStepping, NoneClosed(alive, clients), NEW q \in Seq(Setting),
         Addressed(alive, q), 1 \in DOMAIN q
  PROVE  Reaches(q[1].by, q[1].who)
<1>1. q[1].by \in Node /\ q[1].who \in Node /\ q[1].who \in alive
  <2>1. q[1] \in Setting
    OBVIOUS
  <2>2. QED
    BY <2>1 DEF Addressed, Setting
<1>2. QED
  BY <1>1, Reaching DEF NoneClosed, OrderStepping, Stepping, RingInv

LEMMA TellJoiningOrderly ==
  ASSUME OrderStepping, NEW t \in Task, TellNeighbor(t), Top(t).fn = "joining"
  PROVE  Orderly(t)
<1>1. PICK f \in RingFrame : f = Top(t) /\ ~Idle(t) /\ f.fn = "joining"
  BY TopIs DEF TellNeighbor
<1>2. /\ f.pc = "tell" /\ UNCHANGED alive /\ 1 \in DOMAIN f.todo
      /\ Head(f.todo) = f.todo[1] /\ Head(f.todo) \in Setting
  BY <1>1, TellsOrFails
<1>3. /\ Len(calls[t]) = 2 /\ f = calls[t][2]
      /\ NoneClosed(alive, clients) /\ Addressed(alive, f.todo)
  <2>1. Len(calls[t]) = 2 /\ JoinedBy(calls[t][1], f) /\ f = calls[t][Len(calls[t])]
    BY <1>1, TopPhase DEF OrderStepping, Stepping
  <2>2. QED
    BY <1>2, <2>1 DEF JoinedBy
<1>4. /\ f.next = info[f.at].next
      /\ \A k \in DOMAIN f.todo : f.todo[k].field # "next"
  <2>1. 2 \in DOMAIN calls[t]
    <3>1. PICK s \in Seq(RingFrame) : s = calls[t]
      BY Typed DEF OrderStepping, Stepping
    <3>2. QED
      BY <1>3, <3>1
  <2>2. QED
    BY <1>1, <1>2, <1>3, <2>1 DEF OrderStepping, Ordered
<1>5. Reaches(Head(f.todo).by, Head(f.todo).who)
  <2>1. f.todo \in Seq(Setting)
    BY DEF RingFrame
  <2>2. QED
    BY <1>2, <1>3, <2>1, ReachesAll
<1>6. PICK g \in RingFrame :
        /\ Goto(t, g) /\ g.fn = f.fn /\ g.pc = "tell"
        /\ g.at = f.at /\ g.next = f.next
        /\ IF Head(f.todo).field = "nnextOfPrev" THEN UNCHANGED info
           ELSE info' = Apply(info, Head(f.todo))
        /\ \A k \in DOMAIN g.todo :
             \/ g.todo[k].field = "nnext"
             \/ \E j \in DOMAIN f.todo : g.todo[k] = f.todo[j]
  BY <1>1, <1>5, TellsOrFails
<1>7. SameNext(info', info)
  BY <1>2, <1>4, <1>6, OtherFieldSet
<1>8. \A k \in DOMAIN g.todo : g.todo[k].field # "next"
  BY <1>4, <1>6
<1>9. g.next = info'[g.at].next
  <2>1. f.at \in Node
    BY DEF RingFrame
  <2>2. QED
    BY <1>4, <1>6, <1>7, <2>1 DEF SameNext
<1>10. QED
  BY <1>1, <1>2, <1>3, <1>6, <1>7, <1>8, <1>9, HandlerOrderly

\* What leave_topology still has to set, when no next node changes.
LEMMA LeavesOn ==
  ASSUME NEW f \in RingFrame, NEW g \in RingFrame, g.at = f.at, LeavesInOrder(f),
         SameNext(info', info), UNCHANGED alive,
         \A k \in DOMAIN g.todo : \/ g.todo[k].field = "nnext"
                                  \/ \E j \in DOMAIN f.todo : g.todo[k] = f.todo[j]
  PROVE  LeavesInOrder(g)'
<1>1. f.at \in Node /\ \A k \in DOMAIN f.todo : f.todo[k].who \in Node
  <2>1. f.at \in Node /\ f.todo \in Seq(Setting)
    BY DEF RingFrame
  <2>2. \A k \in DOMAIN f.todo : f.todo[k] \in Setting
    BY <2>1
  <2>3. \A x \in Setting : x.who \in Node
    BY DEF Setting
  <2>4. QED
    BY <2>1, <2>2, <2>3
<1>2. NextsOf(info') = NextsOf(info)
  BY DEF NextsOf, SameNext
<1>3. Circle(alive, NextsOf(info)) => Circle(alive, NextsOf(info))'
  BY <1>2 DEF Circle
<1>4. ASSUME NEW k \in DOMAIN g.todo, g.todo[k].field = "next"
      PROVE  /\ g.todo[k].value = info'[g.at].next
             /\ \/ info'[g.todo[k].who].next = g.at /\ Circle(alive, NextsOf(info))'
                \/ info'[g.todo[k].who].next = g.todo[k].value
  <2>1. PICK j \in DOMAIN f.todo : g.todo[k] = f.todo[j]
    BY <1>4
  <2>2. /\ g.todo[k].value = info[f.at].next /\ g.todo[k].who \in Node
        /\ \/ info[g.todo[k].who].next = f.at /\ Circle(alive, NextsOf(info))
           \/ info[g.todo[k].who].next = g.todo[k].value
    BY <1>1, <1>4, <2>1 DEF LeavesInOrder
  <2>3. QED
    BY <1>1, <1>3, <2>2 DEF SameNext
<1>5. QED
  BY <1>4 DEF LeavesInOrder

\* The next nodes, while no join has yet to install them.
LEMMA NextNodes ==
  ASSUME OrderStepping, NEW t \in Task, ~Installs(calls[t]), ~Installs(calls'[t])
  PROVE  \E x, y \in [Node -> Node] :
           /\ SuccInOrder = OrderBy(alive \ Changing(calls[t]), x)
           /\ SuccInOrder' = OrderBy(alive' \ Changing(calls'[t]), y)
           /\ x = NextsOf(info)
           /\ \A n \in Node : x[n] = info[n].next /\ y[n] = info'[n].next
<1>1. /\ SuccInOrder = OrderBy(alive \ Changing(calls[t]), InOrder(calls[t], info))
      /\ SuccInOrder' = OrderBy(alive' \ Changing(calls'[t]),
                                InOrder(calls'[t], info'))
  BY OrderIs, OrderIsNext DEF OrderStepping, Stepping
<1> DEFINE x == [n \in Node |-> info[n].next]
           y == [n \in Node |-> info'[n].next]
<1>2. InOrder(calls[t], info) = x /\ InOrder(calls'[t], info') = y /\ x = NextsOf(info)
  BY DEF InOrder, NextsOf
<1>3. x \in [Node -> Node] /\ y \in [Node -> Node]
  <2>1. \A i \in Infos, n \in Node : i[n].next \in Node
    BY DEF Infos, Neighborhood
  <2>2. info \in Infos /\ info' \in Infos
    BY Typed, TypedNext DEF OrderStepping, Stepping
  <2>3. QED
    BY <2>1, <2>2
<1>4. \A n \in Node : x[n] = info[n].next /\ y[n] = info'[n].next
  OBVIOUS
<1> HIDE DEF x, y
<1>5. QED
  BY <1>1, <1>2, <1>3, <1>4

\* The previous node of the one that leaves takes its next node for the next.
LEMMA LeaveTakesOut ==
  ASSUME OrderStepping, NEW t \in Task, NEW f \in RingFrame, f = Top(t), ~Idle(t),
         Len(calls[t]) = 2, calls[t][1].fn = "leave", calls[t][1].pc = "await",
         calls[t][1].at = f.at, f.at \in alive, f.fn = "leaving",
         LeavesInOrder(f), Addressed(alive, f.todo),
         NEW w \in alive, w # f.at, info[w].next = f.at, Circle(alive, NextsOf(info)),
         NEW g \in RingFrame, Goto(t, g), g.fn = f.fn, g.at = f.at,
         Differs(info', info, w, "next", info[f.at].next), UNCHANGED alive,
         \A k \in DOMAIN g.todo : \/ g.todo[k].field = "nnext"
                                  \/ \E j \in DOMAIN f.todo : g.todo[k] = f.todo[j]
  PROVE  Orderly(t)
<1>1. PICK s \in Seq(RingFrame), q \in Seq(RingFrame) : s = calls[t] /\ q = calls'[t]
  BY Typed, TypedNext DEF OrderStepping, Stepping
<1>2. /\ f.at \in Node /\ w \in Node /\ alive \in SUBSET Node
      /\ info \in Infos /\ info' \in Infos
  BY Typed, TypedNext DEF RingFrame, OrderStepping, Stepping
<1>3. \A n \in Node : info'[n].next = IF n = w THEN info[f.at].next ELSE info[n].next
  BY DEF Differs
<1>4. info'[f.at].next = info[f.at].next /\ info'[w].next = info[f.at].next
  BY <1>2, <1>3
<1>6. LeavesInOrder(g)'
  <2>1. ASSUME NEW k \in DOMAIN g.todo, g.todo[k].field = "next"
        PROVE  /\ g.todo[k].value = info'[g.at].next
               /\ info'[g.todo[k].who].next = g.todo[k].value
    <3>1. PICK j \in DOMAIN f.todo : g.todo[k] = f.todo[j]
      BY <2>1
    <3>2. /\ g.todo[k].value = info[f.at].next /\ g.todo[k].who \in alive
          /\ \/ info[g.todo[k].who].next = f.at
             \/ info[g.todo[k].who].next = g.todo[k].value
      BY <2>1, <3>1 DEF LeavesInOrder, Addressed
    <3>3. info[g.todo[k].who].next = f.at => g.todo[k].who = w
      <4>1. \A u, v \in alive : NextsOf(info)[u] = NextsOf(info)[v] => u = v
        BY DEF Circle
      <4>2. \A u \in alive : NextsOf(info)[u] = info[u].next
        BY <1>2 DEF NextsOf
      <4>3. \A u \in alive : info[u].next = f.at => u = w
        BY <4>1, <4>2
      <4>4. QED
        BY <3>2, <4>3
    <3>4. QED
      BY <1>2, <1>3, <1>4, <3>2, <3>3
  <2>2. QED
    BY <2>1 DEF LeavesInOrder
<1>7. /\ FirstKept(s, q) /\ ~Installs(s) /\ ~Installs(q)
      /\ 1 \in DOMAIN s /\ 1 \in DOMAIN q /\ q[1] = s[1]
      /\ Ordered(calls[t])'
  BY <1>1, <1>6, HandlerOrdered
<1>8. /\ FirstOnly(s) /\ FirstOnly(q)
      /\ Gone = (Node \ alive) \cup Changing(s)
      /\ Gone' = (Node \ alive) \cup Changing(q)
  BY <1>1, OnlyFirst, OrderIs, OrderIsNext DEF OrderStepping, Stepping
<1>9. Changing(q) = {f.at} /\ Changing(s) = {f.at}
  BY <1>1, <1>7, <1>8, ChangingIs DEF Changes
<1>10. PICK x, y \in [Node -> Node] :
         /\ SuccInOrder = OrderBy(alive \ {f.at}, x)
         /\ SuccInOrder' = OrderBy(alive \ {f.at}, y)
         /\ x = NextsOf(info)
         /\ \A n \in Node : x[n] = info[n].next /\ y[n] = info'[n].next
  <2>1. \E x, y \in [Node -> Node] :
          /\ SuccInOrder = OrderBy(alive \ Changing(calls[t]), x)
          /\ SuccInOrder' = OrderBy(alive' \ Changing(calls'[t]), y)
          /\ x = NextsOf(info)
          /\ \A n \in Node : x[n] = info[n].next /\ y[n] = info'[n].next
    BY <1>1, <1>7, NextNodes
  <2>2. QED
    BY <1>1, <1>9, <2>1
<1>11. /\ x[w] = f.at /\ Circle(alive, x)
       /\ \A n \in Node : y[n] = IF n = w THEN x[f.at] ELSE x[n]
  BY <1>2, <1>3, <1>10
<1>12. IsTakenOut(SuccInOrder, SuccInOrder', f.at, w)
  BY <1>2, <1>10, <1>11, TakenOut
<1>13. Order!Remove(f.at, w)
  BY <1>8, <1>9, <1>10, <1>12 DEF Order!Remove, IsTakenOut
<1>14. OrderStep
  BY <1>2, <1>13 DEF OrderStep, Order!OrderNext
<1>15. QED
  BY <1>7, <1>14 DEF Orderly

LEMMA TellLeavingOrderly ==
  ASSUME OrderStepping, NEW t \in Task, TellNeighbor(t), Top(t).fn = "leaving"
  PROVE  Orderly(t)
<1>1. PICK f \in RingFrame : f = Top(t) /\ ~Idle(t) /\ f.fn = "leaving"
  BY TopIs DEF TellNeighbor
<1>2. /\ f.pc = "tell" /\ UNCHANGED alive /\ 1 \in DOMAIN f.todo
      /\ Head(f.todo) = f.todo[1] /\ Head(f.todo) \in Setting
  BY <1>1, TellsOrFails
<1>3. /\ Len(calls[t]) = 2 /\ calls[t][1].fn = "leave" /\ calls[t][1].pc = "await"
      /\ calls[t][1].at = f.at /\ f.at \in alive /\ Addressed(alive, f.todo)
      /\ f = calls[t][2] /\ NoneClosed(alive, clients)
  <2>1. Len(calls[t]) = 2 /\ LeftBy(calls[t][1], f) /\ f = calls[t][Len(calls[t])]
    BY <1>1, TopPhase DEF OrderStepping, Stepping
  <2>2. QED
    BY <1>2, <2>1 DEF LeftBy
<1>4. LeavesInOrder(f)
  <2>1. 2 \in DOMAIN calls[t]
    <3>1. PICK s \in Seq(RingFrame) : s = calls[t]
      BY Typed DEF OrderStepping, Stepping
    <3>2. QED
      BY <1>3, <3>1
  <2>2. QED
    BY <1>1, <1>2, <1>3, <2>1 DEF OrderStepping, Ordered
<1>5. Reaches(Head(f.todo).by, Head(f.todo).who)
  <2>1. f.todo \in Seq(Setting)
    BY DEF RingFrame
  <2>2. QED
    BY <1>2, <1>3, <2>1, ReachesAll
<1>6. PICK s \in Setting : s = Head(f.todo) /\ s = f.todo[1]
  BY <1>2
<1>7. PICK g \in RingFrame :
        /\ Goto(t, g) /\ g.fn = f.fn /\ g.pc = "tell"
        /\ g.at = f.at /\ g.next = f.next
        /\ IF s.field = "nnextOfPrev" THEN UNCHANGED info
           ELSE info' = Apply(info, s)
        /\ \A k \in DOMAIN g.todo :
             \/ g.todo[k].field = "nnext"
             \/ \E j \in DOMAIN f.todo : g.todo[k] = f.todo[j]
  BY <1>1, <1>5, <1>6, TellsOrFails
<1>8. CASE SameNext(info', info)
  <2>1. LeavesInOrder(g)'
    BY <1>2, <1>4, <1>7, <1>8, LeavesOn
  <2>2. QED
    BY <1>1, <1>2, <1>3, <1>7, <1>8, <2>1, HandlerOrderly
<1>9. CASE ~SameNext(info', info)
  <2>1. s.field = "next"
    BY <1>6, <1>7, <1>9, OtherFieldSet
  <2>2. /\ s.who \in alive /\ s.value = info[f.at].next
        /\ \/ info[s.who].next = f.at /\ Circle(alive, NextsOf(info))
           \/ info[s.who].next = s.value
    BY <1>2, <1>3, <1>4, <1>6, <2>1 DEF LeavesInOrder, Addressed
  <2>3. Differs(info', info, s.who, "next", s.value)
    BY <1>6, <1>7, <2>1, Applied, Typed DEF OrderStepping, Stepping
  <2>4. info[s.who].next # s.value
    BY <1>9, <2>3 DEF Differs, SameNext
  <2>5. s.who # f.at /\ info[s.who].next = f.at /\ Circle(alive, NextsOf(info))
    BY <2>2, <2>4
  <2>6. QED
    BY <1>1, <1>2, <1>3, <1>4, <1>7, <2>2, <2>3, <2>5, LeaveTakesOut
<1>10. QED
  BY <1>8, <1>9

LEMMA TellNeighborOrderly ==
  ASSUME OrderStepping, NEW t \in Task, TellNeighbor(t)
  PROVE  Orderly(t)
<1>1. PICK f \in RingFrame : f = Top(t) /\ ~Idle(t) /\ f.pc = "tell"
  BY TopIs DEF TellNeighbor
<1>2. /\ f.fn \in {"join", "joining", "leave", "leaving", "missing", "query"}
      /\ f.fn = "query" => Querying(f)
      /\ f.fn = "join" => Joining(f)
      /\ f.fn = "leave" => Leaving(f)
  BY <1>1, TopPhase DEF RingFrame, OrderStepping, Stepping
<1>3. f.fn \notin {"query", "join", "leave"}
  BY <1>1, <1>2 DEF Querying, Joining, Leaving
<1>4. QED
  BY <1>1, <1>2, <1>3, TellMissingOrderly, TellJoiningOrderly, TellLeavingOrderly

-----------------------------------------------------------------------------
(* Steps that change the order, or end what had to be set.                 *)

\* The node before the missing one takes the node after it for the next.
LEMMA UnlinkOrderly ==
  ASSUME OrderStepping, NEW t \in Task, Unlink(t)
  PROVE  Orderly(t)
<1>1. PICK f \in RingFrame : /\ f = Top(t) /\ ~Idle(t) /\ f.fn = "missing"
                             /\ f.pc = "unlink" /\ UNCHANGED alive
  BY TopIs DEF Unlink, At
<1>2. PICK s \in Seq(RingFrame), q \in Seq(RingFrame) : s = calls[t] /\ q = calls'[t]
  BY Typed, TypedNext DEF OrderStepping, Stepping
<1>3. AwaitsRepair(s, f) /\ Repairing(f)
  BY <1>1, <1>2, TopPhase DEF OrderStepping, Stepping
<1>4. PICK B \in SUBSET Node : B = alive \ {f.arg}
  BY Typed DEF OrderStepping, Stepping
<1>5. PICK A \in SUBSET Node : A = B \cup {f.arg}
  BY DEF RingFrame
<1>6. /\ f.at \in B /\ f.at # f.arg /\ f.arg \in A /\ A \ {f.arg} = B
      /\ info[f.at].next = f.arg /\ Proper(A, info)
      /\ f.nnext = info[f.arg].next
      /\ f.at \in Node /\ f.arg \in Node /\ f.nnext \in Node /\ info \in Infos
  <2>1. /\ f.at \in B /\ info[f.at].next = f.arg /\ Proper(A, info)
        /\ f.nnext = info[f.at].nnext
    BY <1>1, <1>3, <1>4, <1>5 DEF Repairing
  <2>2. info[f.at].nnext = info[f.arg].next
    BY <1>5, <2>1 DEF Proper
  <2>3. QED
    BY <1>4, <1>5, <2>1, <2>2, Typed DEF RingFrame, OrderStepping, Stepping
<1>7. PICK g : Goto(t, g) /\ g.fn = "missing"
  <2>1. Goto(t, [f EXCEPT !.pc = "relink"])
    BY <1>1 DEF Unlink
  <2>2. [f EXCEPT !.pc = "relink"].fn = "missing"
    BY <1>1 DEF RingFrame
  <2>3. QED
    BY <2>1, <2>2
<1>8. GoesOn(s, q)
  BY <1>1, <1>2, <1>7, GoesToNext
<1>9. Changing(q) = Changing(s) /\ FirstOnly(s) /\ FirstOnly(q)
  <2>1. FirstOnly(s) /\ FirstOnly(q)
    BY <1>2, OnlyFirst, OrderIsNext DEF OrderStepping, Stepping
  <2>2. QED
    BY <1>8, <2>1, ChangingKept DEF GoesOn
<1>10. 1 \in DOMAIN s /\ (s[1].fn = "query" \/ Changes(s[1]))
       /\ (f.arg \in alive => Changes(s[1]) /\ s[1].at = f.arg)
       /\ (f.arg \notin alive => s[1].fn = "query")
  <2>1. Len(s) = 2 \/ Len(s) = 3
    BY <1>3 DEF AwaitsRepair
  <2>2. 1 \in DOMAIN s
    BY <2>1
  <2>3. QED
    BY <1>3, <2>2 DEF AwaitsRepair, Changes
<1>11. alive \ Changing(s) = B /\ f.arg \in (Node \ alive) \cup Changing(s)
  <2>1. Changing(s) = IF 1 \in DOMAIN s /\ Changes(s[1]) THEN {s[1].at} ELSE {}
    BY <1>9, ChangingIs
  <2>2. CASE f.arg \in alive
    BY <1>4, <1>10, <2>1, <2>2
  <2>3. CASE f.arg \notin alive
    <3>1. Changing(s) = {}
      BY <1>10, <2>1, <2>3 DEF Changes
    <3>2. QED
      BY <1>4, <1>6, <2>3, <3>1
  <2>4. QED
    BY <2>2, <2>3
<1>12. PICK x, y \in [Node -> Node] :
         /\ SuccInOrder = OrderBy(B, x) /\ SuccInOrder' = OrderBy(B, y)
         /\ x = NextsOf(info)
         /\ \A n \in Node : x[n] = info[n].next /\ y[n] = info'[n].next
  BY <1>1, <1>2, <1>8, <1>9, <1>11, NextNodes DEF GoesOn
<1>13. \A n \in Node : info'[n].next = IF n = f.at THEN f.nnext ELSE info[n].next
  <2>1. info' = WithNext(info, f.at, f.nnext)
    BY <1>1 DEF Unlink, WithNext
  <2>2. Differs(info', info, f.at, "next", f.nnext)
    BY <1>6, <2>1, OneField
  <2>3. QED
    BY <2>2 DEF Differs
<1>14. /\ x[f.at] = f.arg /\ Circle(A, x)
       /\ \A n \in Node : y[n] = IF n = f.at THEN x[f.arg] ELSE x[n]
  <2>1. Circle(A, x)
    BY <1>6, <1>12, ProperCircles
  <2>2. QED
    BY <1>6, <1>12, <1>13, <2>1
<1>15. IsTakenOut(SuccInOrder, SuccInOrder', f.arg, f.at)
  <2>1. f.at \in A
    BY <1>5, <1>6
  <2>2. IsTakenOut(OrderBy(A \ {f.arg}, x), OrderBy(A \ {f.arg}, y), f.arg, f.at)
    BY <1>6, <1>14, <2>1, TakenOut
  <2>3. QED
    BY <1>6, <1>12, <2>2
<1>16. Gone' = Gone /\ f.arg \in Gone
  BY <1>1, <1>2, <1>9, <1>11, OrderIs, OrderIsNext DEF OrderStepping, Stepping
<1>17. Order!Remove(f.arg, f.at)
  BY <1>6, <1>15, <1>16 DEF Order!Remove, IsTakenOut
<1>18. OrderStep
  BY <1>6, <1>17 DEF OrderStep, Order!OrderNext
<1>19. Ordered(q)'
  <2>1. 2 \in DOMAIN q => /\ ~(q[2].fn = "leaving" /\ q[2].pc = "tell")
                          /\ ~(q[2].fn = "joining" /\ q[2].pc = "tell")
    <3>1. Len(q) = Len(s) /\ \A k \in DOMAIN s : q[k] = IF k = Len(s) THEN g ELSE s[k]
      BY <1>1, <1>2, <1>7, Typed DEF Goto, Idle, OrderStepping, Stepping
    <3>2. \/ Len(s) = 2
          \/ Len(s) = 3 /\ s[2].pc = "copy"
      BY <1>3 DEF AwaitsRepair
    <3>3. CASE Len(s) = 2
      BY <1>7, <3>1, <3>3
    <3>4. CASE Len(s) = 3 /\ s[2].pc = "copy"
      <4>1. 2 \in DOMAIN s /\ 2 # Len(s)
        BY <3>4
      <4>2. q[2].pc = "copy"
        BY <3>1, <3>4, <4>1
      <4>3. QED
        BY <4>2
    <3>5. QED
      BY <3>2, <3>3, <3>4
  <2>2. QED
    BY <2>1 DEF Ordered
<1>20. QED
  BY <1>2, <1>18, <1>19 DEF Orderly

\* The new node comes after the one that it has asked.
LEMMA InsertNextOrderly ==
  ASSUME OrderStepping, NEW t \in Task, InsertNext(t)
  PROVE  Orderly(t)
<1>1. PICK f \in RingFrame : /\ f = Top(t) /\ ~Idle(t) /\ f.fn = "joining"
                             /\ f.pc = "tell" /\ f.todo = << >>
  BY TopIs DEF InsertNext, Told, At
<1>2. PICK i \in Infos : i = info
  BY Typed DEF OrderStepping, Stepping
<1>3. PICK c \in RingFrame : /\ Len(calls[t]) = 2 /\ c = calls[t][1]
                             /\ JoinedBy(c, f) /\ c = Caller(t)
                             /\ f = calls[t][2]
  BY <1>1, TopPhase DEF OrderStepping, Stepping
<1>4. /\ c.fn = "join" /\ c.pc = "await" /\ c.at = f.arg
      /\ f.at \in alive /\ f.arg \in alive /\ f.at # f.arg
      /\ Proper(alive, Inserted(i, f.at, f.arg, f.next))
      /\ f.at \in Node /\ f.arg \in Node /\ f.next \in Node /\ i[f.at].nnext \in Node
      /\ alive \in SUBSET Node
  BY <1>1, <1>2, <1>3, AfterNone, Typed
     DEF JoinedBy, RingFrame, OrderStepping, Stepping, Infos, Neighborhood
<1>5. PICK g \in RingFrame :
        /\ g = [c EXCEPT !.pc = "install", !.next = f.next,
                         !.nnext = i[f.at].nnext, !.prev = f.at]
        /\ g.fn = "join" /\ g.pc = "install" /\ g.at = f.arg /\ g.next = f.next
  <2> DEFINE h == [c EXCEPT !.pc = "install", !.next = f.next,
                            !.nnext = i[f.at].nnext, !.prev = f.at]
  <2>1. /\ h \in RingFrame /\ h.fn = "join" /\ h.pc = "install" /\ h.at = f.arg
        /\ h.next = f.next
    BY <1>4 DEF RingFrame
  <2>2. QED
    BY <2>1
<1>6. /\ ReturnTo(t, g) /\ UNCHANGED alive
      /\ info' = HalfInserted(i, f.at, f.arg, f.next)
  BY <1>1, <1>2, <1>3, <1>5 DEF InsertNext, HalfInserted
<1>7. PICK s \in Seq(RingFrame), q \in Seq(RingFrame) : s = calls[t] /\ q = calls'[t]
  BY Typed, TypedNext DEF OrderStepping, Stepping
<1>8. Len(q) = 1 /\ q[1] = g
  <2>1. calls \in [Task -> Seq(RingFrame)] /\ Len(calls[t]) > 1
    BY <1>3, Typed DEF OrderStepping, Stepping
  <2>2. /\ Len(calls'[t]) = Len(calls[t]) - 1
        /\ calls'[t][Len(calls[t]) - 1] = g
    BY <1>6, <2>1, ReturnToEffect
  <2>3. QED
    BY <1>3, <1>7, <2>2
<1>9. Len(s) = 2 /\ s[1] = c /\ s[2] = f
  BY <1>3, <1>7
<1>10. 1 \in DOMAIN s /\ 2 \in DOMAIN s /\ 1 \in DOMAIN q /\ 2 \notin DOMAIN q
  BY <1>8, <1>9
<1>11. f.next = i[f.at].next
  <2>1. Ordered(s)
    BY <1>7 DEF OrderStepping
  <2>2. QED
    BY <1>1, <1>2, <1>4, <1>9, <1>10, <2>1 DEF Ordered
<1>12. ~Installs(s) /\ Installs(q)
  BY <1>4, <1>5, <1>8, <1>9, <1>10 DEF Installs
<1>13. /\ SuccInOrder = OrderBy(alive \ Changing(s), InOrder(s, i))
       /\ SuccInOrder' = OrderBy(alive \ Changing(q), InOrder(q, info'))
       /\ FirstOnly(s) /\ FirstOnly(q)
       /\ Gone = (Node \ alive) \cup Changing(s)
       /\ Gone' = (Node \ alive) \cup Changing(q)
  BY <1>2, <1>6, <1>7, OnlyFirst, OrderIs, OrderIsNext DEF OrderStepping, Stepping
<1>14. Changing(s) = {f.arg} /\ Changing(q) = {}
  BY <1>4, <1>5, <1>8, <1>9, <1>10, <1>13, ChangingIs DEF Changes
<1>15. PICK x, y \in [Node -> Node] :
         /\ x = InOrder(s, i) /\ y = InOrder(q, info')
         /\ \A n \in Node :
              /\ x[n] = i[n].next
              /\ y[n] = IF n = f.arg THEN f.next ELSE IF n = f.at THEN f.arg
                        ELSE i[n].next
  <2> DEFINE x == InOrder(s, i)
             y == InOrder(q, info')
  <2>1. \A n \in Node : i[n].next \in Node
    BY DEF Infos, Neighborhood
  <2>2. \A n \in Node : info'[n].next = IF n = f.at THEN f.arg ELSE i[n].next
    BY <1>4, <1>6 DEF HalfInserted, Infos, Neighborhood
  <2>3. /\ x = [n \in Node |-> i[n].next]
        /\ y = [n \in Node |-> IF n = f.arg THEN f.next ELSE info'[n].next]
    BY <1>5, <1>8, <1>12 DEF InOrder
  <2> HIDE DEF x, y
  <2>4. x \in [Node -> Node] /\ y \in [Node -> Node]
    BY <1>4, <2>1, <2>2, <2>3
  <2>5. \A n \in Node :
          /\ x[n] = i[n].next
          /\ y[n] = IF n = f.arg THEN f.next ELSE IF n = f.at THEN f.arg
                    ELSE i[n].next
    BY <2>2, <2>3
  <2>6. QED
    BY <2>4, <2>5 DEF x, y
<1>16. Circle(alive, y)
  <2>1. PICK k : /\ k = Inserted(i, f.at, f.arg, f.next) /\ Proper(alive, k)
                 /\ IsInserted(k, i, f.at, f.arg, f.next)
    BY <1>4, InsertedIs
  <2>2. \A n \in Node : y[n] = k[n].next
    BY <1>15, <2>1 DEF IsInserted
  <2>3. QED
    BY <1>4, <2>1, <2>2 DEF Proper, Circle
<1>17. IsBroughtIn(SuccInOrder, SuccInOrder', f.arg, f.at)
  <2>1. /\ y[f.at] = f.arg /\ x[f.at] = y[f.arg]
        /\ \A o \in Node \ {f.at, f.arg} : y[o] = x[o]
    BY <1>4, <1>11, <1>15
  <2>2. IsBroughtIn(OrderBy(alive \ {f.arg}, x), OrderBy(alive, y), f.arg, f.at)
    <3>1. PICK A \in SUBSET Node : A = alive
      BY <1>4
    <3>2. IsBroughtIn(OrderBy(A \ {f.arg}, x), OrderBy(A, y), f.arg, f.at)
      BY <1>4, <1>16, <2>1, <3>1, BroughtIn
    <3>3. QED
      BY <3>1, <3>2
  <2>3. alive \ {} = alive
    OBVIOUS
  <2>4. QED
    BY <1>13, <1>14, <1>15, <2>2, <2>3
<1>18. Order!Insert(f.arg, f.at)
  <2>1. f.arg \in Gone /\ f.at \notin Gone /\ Gone' = Gone \ {f.arg}
    BY <1>4, <1>13, <1>14
  <2>2. QED
    BY <1>17, <2>1 DEF Order!Insert, IsBroughtIn
<1>19. OrderStep
  BY <1>4, <1>18 DEF OrderStep, Order!OrderNext
<1>20. Ordered(q)'
  BY <1>5, <1>8, <1>10 DEF Ordered
<1>21. QED
  BY <1>7, <1>19, <1>20 DEF Orderly

LEMMA InstallNeighborsOrderly ==
  ASSUME OrderStepping, NEW t \in Task, InstallNeighbors(t)
  PROVE  Orderly(t)
<1>1. PICK f \in RingFrame : /\ f = Top(t) /\ ~Idle(t) /\ f.fn = "join"
                             /\ f.pc = "install" /\ Return(t) /\ UNCHANGED alive
                             /\ f.at \in Node /\ f.next \in Node
  BY TopIs DEF InstallNeighbors, At, RingFrame
<1>2. PICK i \in Infos : i = info
  BY Typed DEF OrderStepping, Stepping
<1>3. info' = [i EXCEPT ![f.at] = [next |-> f.next, nnext |-> f.nnext, prev |-> f.prev]]
  BY <1>1, <1>2 DEF InstallNeighbors
<1>4. Len(calls[t]) = 1 /\ f = calls[t][1]
  BY <1>1, TopPhase DEF OrderStepping, Stepping
<1>5. calls'[t] = << >> /\ Ordered(calls[t])'
  BY <1>1, <1>4, LastFrame
<1>6. Installs(calls[t]) /\ ~Installs(calls'[t])
  <2>1. PICK s \in Seq(RingFrame) : s = calls[t]
    BY Typed DEF OrderStepping, Stepping
  <2>2. 1 \in DOMAIN s /\ 1 \notin DOMAIN << >>
    BY <1>4, <2>1
  <2>3. QED
    BY <1>1, <1>4, <1>5, <2>1, <2>2 DEF Installs
<1>7. InOrder(calls'[t], info') = InOrder(calls[t], i)
  <2>1. \A n \in Node : info'[n].next = IF n = f.at THEN f.next ELSE i[n].next
    BY <1>1, <1>3 DEF Infos
  <2>2. QED
    BY <1>4, <1>6, <2>1 DEF InOrder
<1>8. Changing(calls'[t]) = Changing(calls[t])
  <2>1. PICK s \in Seq(RingFrame) : s = calls[t]
    BY Typed DEF OrderStepping, Stepping
  <2>2. FirstOnly(s) /\ 1 \notin DOMAIN << >>
    BY <2>1, OnlyFirst DEF OrderStepping, Stepping
  <2>3. ~Changes(s[1])
    BY <1>1, <1>4, <2>1 DEF Changes
  <2>4. Changing(s) = {} /\ Changing(<< >>) = {}
    BY <2>2, <2>3, ChangingIs DEF Changing
  <2>5. QED
    BY <1>5, <2>1, <2>4
<1>9. OrderStep
  BY <1>1, <1>2, <1>7, <1>8, SameOrder DEF OrderStepping
<1>10. QED
  BY <1>5, <1>9 DEF Orderly

LEMMA BecomeAloneOrderly ==
  ASSUME OrderStepping, NEW t \in Task, BecomeAlone(t)
  PROVE  Orderly(t)
<1>1. PICK f \in RingFrame : /\ f = Top(t) /\ ~Idle(t) /\ f.fn = "leave"
                             /\ f.pc = "alone" /\ Return(t) /\ UNCHANGED alive
                             /\ f.at \in Node
  BY TopIs DEF BecomeAlone, At, RingFrame
<1>2. PICK i \in Infos : i = info
  BY Typed DEF OrderStepping, Stepping
<1>3. info' = Left(i, f.at)
  BY <1>1, <1>2 DEF BecomeAlone, Left
<1>4. /\ Len(calls[t]) = 1 /\ f = calls[t][1] /\ f.at \in alive
      /\ Proper(alive, info') /\ alive \in SUBSET Node
  <2>1. Len(calls[t]) = 1 /\ f = calls[t][1] /\ Leaving(f)
    BY <1>1, TopPhase DEF OrderStepping, Stepping
  <2>2. QED
    BY <1>1, <1>2, <1>3, <2>1, Typed DEF Leaving, OrderStepping, Stepping
<1>5. calls'[t] = << >> /\ Ordered(calls[t])'
  BY <1>1, <1>4, LastFrame
<1>6. /\ ~Installs(calls[t]) /\ ~Installs(calls'[t])
      /\ Changing(calls[t]) = {f.at} /\ Changing(calls'[t]) = {}
  <2>1. PICK s \in Seq(RingFrame) : s = calls[t]
    BY Typed DEF OrderStepping, Stepping
  <2>2. 1 \in DOMAIN s /\ 1 \notin DOMAIN << >> /\ FirstOnly(s) /\ f = s[1]
    BY <1>4, <2>1, OnlyFirst DEF OrderStepping, Stepping
  <2>3. Changing(s) = {f.at} /\ Changing(<< >>) = {}
    BY <1>1, <2>2, ChangingIs DEF Changes, Changing
  <2>4. QED
    BY <1>1, <1>4, <1>5, <2>1, <2>2, <2>3 DEF Installs
<1>7. PICK x, y \in [Node -> Node] :
        /\ SuccInOrder = OrderBy(alive \ {f.at}, x)
        /\ SuccInOrder' = OrderBy(alive \ {}, y)
        /\ \A n \in Node : x[n] = i[n].next /\ y[n] = info'[n].next
  <2>1. \E x, y \in [Node -> Node] :
          /\ SuccInOrder = OrderBy(alive \ Changing(calls[t]), x)
          /\ SuccInOrder' = OrderBy(alive' \ Changing(calls'[t]), y)
          /\ \A n \in Node : x[n] = info[n].next /\ y[n] = info'[n].next
    BY <1>6, NextNodes
  <2>2. QED
    BY <1>1, <1>2, <1>6, <2>1
<1>8. Circle(alive, y)
  BY <1>4, <1>7 DEF Proper, Circle
<1>9. /\ y[f.at] = f.at
      /\ \A o \in Node \ {f.at} : y[o] = x[o]
  BY <1>1, <1>3, <1>7 DEF Left, Alone, Infos
<1>10. UNCHANGED SuccInOrder
  <2>1. PICK A \in SUBSET Node : A = alive
    BY <1>4
  <2>2. OrderBy(A, y) = OrderBy(A \ {f.at}, x)
    BY <1>4, <1>8, <1>9, <2>1, LeftAlone
  <2>3. alive \ {} = alive
    OBVIOUS
  <2>4. QED
    BY <1>7, <2>1, <2>2, <2>3
<1>11. Gone' = Gone \ {f.at}
  <2>1. Gone = (Node \ alive) \cup {f.at} /\ Gone' = (Node \ alive) \cup {}
    BY <1>1, <1>6, OrderIs, OrderIsNext DEF OrderStepping, Stepping
  <2>2. QED
    BY <1>4, <2>1
<1>12. QED
  BY <1>1, <1>5, <1>10, <1>11, SameSucc DEF Orderly

-----------------------------------------------------------------------------
(* Requests that begin, crashes and revivals.                              *)

LEMMA IdleGone ==
  ASSUME RingTypeOK, RingInv, OneRequest, NEW t \in Task, Idle(t)
  PROVE  /\ SuccInOrder = OrderBy(alive, NextsOf(info))
         /\ Gone = Node \ alive
<1>1. calls[t] = << >> /\ 1 \notin DOMAIN << >>
  BY DEF Idle
<1>2. ~Installs(<< >>) /\ Changing(<< >>) = {} /\ alive \ {} = alive
  BY <1>1 DEF Installs, Changing
<1>3. InOrder(<< >>, info) = NextsOf(info)
  BY <1>2 DEF InOrder, NextsOf
<1>4. QED
  BY <1>1, <1>2, <1>3, OrderIs

LEMMA IdleGoneNext ==
  ASSUME RingTypeOK', RingInv', OneRequest, NEW t \in Task, calls'[t] = << >>
  PROVE  /\ SuccInOrder' = OrderBy(alive', NextsOf(info'))
         /\ Gone' = Node \ alive'
<1>1. 1 \notin DOMAIN << >>
  OBVIOUS
<1>2. ~Installs(<< >>) /\ Changing(<< >>) = {} /\ alive' \ {} = alive'
  BY <1>1 DEF Installs, Changing
<1>3. InOrder(<< >>, info') = NextsOf(info')
  BY <1>2 DEF InOrder, NextsOf
<1>4. QED
  BY <1>1, <1>2, <1>3, OrderIsNext

\* While no node is missed all that run are in the order, and one may go.
LEMMA OrderOfSound ==
  ASSUME RingTypeOK, Quiet, Unmissed = {}, NEW n
  PROVE  OrderBy(alive \ {n}, NextsOf(info)) = OrderBy(alive, NextsOf(info))
<1>1. alive \in SUBSET Node /\ Proper(alive, info)
  BY Typed, SoundWhenMissed DEF Sound
<1>2. QED
  BY <1>1, OrderWithout

\* A request begins.
LEMMA BeginsOrderly ==
  ASSUME OrderStepping, NEW t \in Task, Idle(t), NEW g \in RingFrame, Begin(t, g),
         UNCHANGED info, g.pc # "install",
         IF Changes(g) THEN \/ UNCHANGED alive /\ g.at \in alive /\ Unmissed = {}
                            \/ g.at \notin alive /\ alive' = alive \cup {g.at}
         ELSE UNCHANGED alive
  PROVE  Orderly(t)
<1>1. PICK q \in Seq(RingFrame) : q = calls'[t]
  BY TypedNext DEF OrderStepping, Stepping
<1>2. q = << g >>
  <2>1. calls \in [Task -> Seq(RingFrame)]
    BY Typed DEF OrderStepping, Stepping
  <2>2. QED
    BY <1>1, <2>1, BeginEffect
<1>3. q[1] = g /\ 1 \in DOMAIN q /\ 2 \notin DOMAIN q /\ g.at \in Node
  BY <1>2 DEF RingFrame
<1>4. ~Installs(q)
  BY <1>3 DEF Installs
<1>5. /\ SuccInOrder = OrderBy(alive, NextsOf(info))
      /\ Gone = Node \ alive
  BY IdleGone DEF OrderStepping, Stepping
<1>6. /\ SuccInOrder' = OrderBy(alive' \ Changing(q), NextsOf(info))
      /\ FirstOnly(q) /\ Gone' = (Node \ alive') \cup Changing(q)
  <2>1. InOrder(q, info') = NextsOf(info)
    BY <1>4 DEF InOrder, NextsOf
  <2>2. QED
    BY <1>1, <2>1, OrderIsNext DEF OrderStepping, Stepping
<1>7. Changing(q) = IF Changes(g) THEN {g.at} ELSE {}
  BY <1>3, <1>6, ChangingIs
<1>8. alive \in SUBSET Node /\ alive \ {} = alive
  BY Typed DEF OrderStepping, Stepping
<1>9. UNCHANGED SuccInOrder /\ Gone' \in {Gone, Gone \cup {g.at}}
  <2>1. CASE ~Changes(g)
    BY <1>5, <1>6, <1>7, <1>8, <2>1
  <2>2. CASE Changes(g) /\ UNCHANGED alive /\ g.at \in alive /\ Unmissed = {}
    <3>1. OrderBy(alive \ {g.at}, NextsOf(info)) = OrderBy(alive, NextsOf(info))
      BY <2>2, IdleIsQuiet, OrderOfSound DEF OrderStepping, Stepping
    <3>2. QED
      BY <1>5, <1>6, <1>7, <2>2, <3>1
  <2>3. CASE Changes(g) /\ g.at \notin alive /\ alive' = alive \cup {g.at}
    <3>1. alive' \ {g.at} = alive /\ (Node \ alive') \cup {g.at} = Node \ alive
      BY <1>3, <1>8, <2>3
    <3>2. QED
      BY <1>5, <1>6, <1>7, <2>3, <3>1
  <2>4. QED
    BY <2>1, <2>2, <2>3
<1>10. OrderStep
  BY <1>3, <1>9, SameSucc
<1>11. Ordered(q)'
  BY <1>3 DEF Ordered
<1>12. QED
  BY <1>1, <1>10, <1>11 DEF Orderly

LEMMA StartOrderly ==
  ASSUME OrderStepping, NEW t \in Task, NEW n \in Node,
         StartLeave(t, n) \/ StartQuery(t, n) \/ \E o \in Node : StartJoin(t, n, o)
  PROVE  Orderly(t)
<1>1. n \in alive /\ Idle(t) /\ UNCHANGED << info, alive >>
  BY DEF StartLeave, StartQuery, StartJoin, MayChange
<1>2. PICK g \in RingFrame :
        /\ Begin(t, g) /\ g.at = n /\ g.pc # "install"
        /\ Changes(g) => Unmissed = {}
  <2>1. CASE StartQuery(t, n)
    <3>1. << >> \in Seq(Setting) /\ << n >> \in Seq(Node)
      OBVIOUS
    <3>2. PICK g \in RingFrame : g = Frame("query", "send", n, n, n)
      BY <3>1 DEF Frame, RingFrame
    <3>3. g.at = n /\ g.pc # "install" /\ ~Changes(g)
      BY <3>2 DEF Frame, Changes
    <3>4. QED
      BY <2>1, <3>2, <3>3 DEF StartQuery
  <2>2. ASSUME NEW o \in Node, StartJoin(t, n, o)
        PROVE  \E g \in RingFrame : /\ Begin(t, g) /\ g.at = n /\ g.pc # "install"
                                    /\ Unmissed = {}
    <3>1. PICK g \in RingFrame : g = Frame("join", "call", n, o, n)
      BY HandlerIsFrame
    <3>2. g.at = n /\ g.pc # "install"
      BY <3>1 DEF Frame
    <3>3. QED
      BY <2>2, <3>1, <3>2
         DEF StartJoin, MayChange, OrderStepping, Stepping, OneRequest
  <2>3. CASE StartLeave(t, n)
    <3>1. PICK g \in RingFrame : g = Frame("leave", "call", n, n, n)
      BY HandlerIsFrame
    <3>2. g.at = n /\ g.pc # "install"
      BY <3>1 DEF Frame
    <3>3. QED
      BY <2>3, <3>1, <3>2
         DEF StartLeave, MayChange, OrderStepping, Stepping, OneRequest
  <2>4. QED
    BY <2>1, <2>2, <2>3
<1>3. QED
  BY <1>1, <1>2, BeginsOrderly

LEMMA ReviveOrderly ==
  ASSUME OrderStepping, NEW t \in Task, NEW n \in Node, Revive(t, n)
  PROVE  Orderly(t)
<1>1. /\ Idle(t) /\ UNCHANGED info /\ alive' = alive \cup {n}
      /\ Unmissed \subseteq {n}
      /\ IF info[n].prev # n
           THEN Begin(t, Frame("join", "call", n, info[n].prev, n))
           ELSE UNCHANGED calls
  BY DEF Revive, OrderStepping, Stepping, OneRequest
<1>2. info \in Infos /\ alive \in SUBSET Node
  BY Typed DEF OrderStepping, Stepping
<1>3. n \in alive => Unmissed = {} /\ UNCHANGED alive
  BY <1>1 DEF Unmissed
<1>4. CASE info[n].prev # n
  <2>1. info[n].prev \in Node
    BY <1>2 DEF Infos, Neighborhood
  <2>2. PICK g \in RingFrame : g = Frame("join", "call", n, info[n].prev, n)
    BY <2>1, HandlerIsFrame
  <2>3. g.at = n /\ g.pc # "install" /\ Changes(g)
    BY <2>2 DEF Frame, Changes
  <2>4. QED
    BY <1>1, <1>3, <1>4, <2>2, <2>3, BeginsOrderly
<1>5. CASE info[n].prev = n
  <2>1. calls'[t] = << >>
    BY <1>1, <1>5 DEF Idle
  <2>2. /\ SuccInOrder = OrderBy(alive, NextsOf(info))
        /\ Gone = Node \ alive
        /\ SuccInOrder' = OrderBy(alive', NextsOf(info))
        /\ Gone' = Node \ alive'
    BY <1>1, <2>1, IdleGone, IdleGoneNext DEF OrderStepping, Stepping
  <2>3. UNCHANGED SuccInOrder
    <3>1. CASE n \in alive
      BY <1>3, <2>2, <3>1
    <3>2. CASE n \notin alive
      <4>1. info[n] = Alone(n)
        BY <1>5, <3>2 DEF OrderStepping, Stepping, RingInv, Remembers
      <4>2. NextsOf(info)[n] = n
        BY <4>1 DEF NextsOf, Alone
      <4>3. OrderBy(alive \cup {n}, NextsOf(info)) = OrderBy(alive, NextsOf(info))
        BY <4>2, OrderWithAlone
      <4>4. QED
        BY <1>1, <2>2, <4>3
    <3>3. QED
      BY <3>1, <3>2
  <2>4. Gone' = Gone \ {n}
    BY <1>1, <2>2
  <2>5. 1 \notin DOMAIN << >> /\ 2 \notin DOMAIN << >>
    OBVIOUS
  <2>6. Ordered(<< >>)'
    BY <2>5 DEF Ordered
  <2>7. QED
    BY <2>1, <2>3, <2>4, <2>6, SameSucc DEF Orderly
<1>6. QED
  BY <1>4, <1>5

LEMMA KillOrderly ==
  ASSUME OrderStepping, NEW n \in Node, Kill(n), NEW t \in Task
  PROVE  Orderly(t)
<1>1. /\ Idle(t) /\ UNCHANGED info /\ alive' = alive \ {n} /\ n \in alive
      /\ calls' = [u \in Task |-> Interrupted(calls[u], n)]
      /\ Unmissed = {}
  <2>1. alive \in SUBSET Node
    BY Typed DEF OrderStepping, Stepping
  <2>2. Unmissed = {}
    BY <2>1, NoneUnmissed DEF OrderStepping, Stepping, Kill
  <2>3. QED
    BY <2>2 DEF Kill, OrderStepping, Stepping, OneRequest
<1>2. calls'[t] = << >>
  BY <1>1 DEF Idle, Interrupted
<1>3. /\ SuccInOrder = OrderBy(alive, NextsOf(info))
      /\ Gone = Node \ alive
      /\ SuccInOrder' = OrderBy(alive \ {n}, NextsOf(info))
      /\ Gone' = Node \ alive'
  BY <1>1, <1>2, IdleGone, IdleGoneNext DEF OrderStepping, Stepping
<1>4. UNCHANGED SuccInOrder
  BY <1>1, <1>3, IdleIsQuiet, OrderOfSound DEF OrderStepping, Stepping
<1>5. Gone' = Gone \cup {n}
  BY <1>1, <1>3
<1>6. 1 \notin DOMAIN << >> /\ 2 \notin DOMAIN << >>
  OBVIOUS
<1>7. Ordered(<< >>)'
  BY <1>6 DEF Ordered
<1>8. QED
  BY <1>2, <1>4, <1>5, <1>7, SameSucc DEF Orderly

-----------------------------------------------------------------------------
(* The refinement.                                                         *)

OrderInv == RingTypeOK /\ RingInv /\ \A t \in Task : Ordered(calls[t])

LEMMA RingStepOrderly ==
  ASSUME OrderStepping, NEW t \in Task, RingStep(t)
  PROVE  Orderly(t)
<1>1. Stepping
  BY DEF OrderStepping
<1>2. QED
  BY <1>1, QueryAnswered, RepairAnswered, TellNeighborOrderly, CallOrderly,
     NextStepOrderly, RepairOrderly, CopyNeighborsOrderly, InsertNextOrderly,
     InstallNeighborsOrderly, CopyLeavingOrderly, EndLeavingOrderly,
     BecomeAloneOrderly, MissingOrderly, UnlinkOrderly, PassOrderly, QueryStepOrderly
     DEF RingStep, Unanswered

LEMMA RingNextOrderly ==
  ASSUME OrderStepping, RingNext
  PROVE  OrderStep /\ (\A t \in Task : Ordered(calls[t]))'
<1>1. PICK t \in Task : \A u \in Task : u = t
  BY DEF OrderStepping, Stepping, OneRequest
<1>2. Orderly(t)
  <2>1. ASSUME NEW n \in Node, Kill(n)
        PROVE  Orderly(t)
    BY <2>1, KillOrderly
  <2>2. ASSUME NEW u \in Task, RingStep(u)
        PROVE  Orderly(u)
    BY <2>2, RingStepOrderly
  <2>3. ASSUME NEW u \in Task, NEW n \in Node, StartLeave(u, n) \/ StartQuery(u, n)
                                 \/ \E o \in Node : StartJoin(u, n, o)
        PROVE  Orderly(u)
    BY <2>3, StartOrderly
  <2>4. ASSUME NEW u \in Task, NEW n \in Node, Revive(u, n)
        PROVE  Orderly(u)
    BY <2>4, ReviveOrderly
  <2>5. \/ \E n \in Node : Kill(n)
        \/ \E u \in Task : RingStep(u)
        \/ \E u \in Task, n \in Node : Revive(u, n)
        \/ \E u \in Task, n \in Node : StartLeave(u, n) \/ StartQuery(u, n)
                                         \/ \E o \in Node : StartJoin(u, n, o)
    BY DEF RingNext
  <2>6. QED
    BY <1>1, <2>1, <2>2, <2>3, <2>4, <2>5
<1>3. (\A u \in Task : Ordered(calls[u]))'
  BY <1>1, <1>2 DEF Orderly
<1>4. QED
  BY <1>2, <1>3 DEF Orderly

LEMMA OrderStutters ==
  ASSUME OrderInv, OrderInv', OneRequest, UNCHANGED ringVars
  PROVE  OrderStep
<1>1. PICK t \in Task : TRUE
  BY DEF OneRequest
<1>2. UNCHANGED << calls, info, alive >>
  BY DEF ringVars
<1>3. /\ SuccInOrder = OrderBy(alive \ Changing(calls[t]), InOrder(calls[t], info))
      /\ Gone = (Node \ alive) \cup Changing(calls[t])
      /\ SuccInOrder' = OrderBy(alive' \ Changing(calls'[t]), InOrder(calls'[t], info'))
      /\ Gone' = (Node \ alive') \cup Changing(calls'[t])
  BY OrderIs, OrderIsNext DEF OrderInv
<1>4. UNCHANGED << SuccInOrder, Gone >>
  BY <1>2, <1>3
<1>5. QED
  BY <1>4 DEF OrderStep, Order!orderVars

LEMMA OrderedStutters ==
  ASSUME \A t \in Task : Ordered(calls[t]), UNCHANGED ringVars
  PROVE  (\A t \in Task : Ordered(calls[t]))'
<1>1. UNCHANGED << calls, info, alive >>
  BY DEF ringVars
<1>2. \A f : LeavesInOrder(f) => LeavesInOrder(f)'
  BY <1>1 DEF LeavesInOrder, Circle, NextsOf
<1>3. \A s : Ordered(s) => Ordered(s)'
  BY <1>1, <1>2 DEF Ordered
<1>4. QED
  BY <1>1, <1>3

LEMMA OrderBegins ==
  ASSUME RingTypeOK, RingInv, OneRequest, RingInit
  PROVE  Order!OrderInit /\ \A t \in Task : Ordered(calls[t])
<1>1. PICK t \in Task : TRUE
  BY DEF OneRequest
<1>2. /\ \A u \in Task : calls[u] = << >>
      /\ \A n \in Node : info[n].next = n
      /\ alive = Node
  BY DEF RingInit, Alone
<1>3. SuccInOrder = OrderBy(Node, NextsOf(info)) /\ Gone = {}
  BY <1>2, IdleGone DEF Idle
<1> DEFINE id == [n \in Node |-> n]
<1>4. NextsOf(info) = id
  BY <1>2 DEF NextsOf
<1>5. OrderBy(Node, id) = id
  BY DEF OrderBy, Ordering
<1>6. id \in Order!Circles
  BY DEF Order!Circles
<1>7. Order!OrderInit
  BY <1>3, <1>4, <1>5, <1>6 DEF Order!OrderInit
<1>8. 1 \notin DOMAIN << >> /\ 2 \notin DOMAIN << >>
  OBVIOUS
<1>9. QED
  BY <1>2, <1>7, <1>8 DEF Ordered

\* OrderRefined: each step of a join, a leave, a repair or a revival leaves the
\* order of the ring as it is, or takes one node out of it that may go, or
\* brings one in that may come, for rings of any size (RingOrder).
THEOREM OrderIsRefined ==
  ASSUME OneRequest
  PROVE  RingSpec => OrderRefined
<1>1. RingTypeOK /\ RingInv /\ RingInit =>
        Order!OrderInit /\ \A t \in Task : Ordered(calls[t])
  BY OrderBegins
<1>2. /\ RingTypeOK /\ RingInv /\ RingTypeOK' /\ RingInv'
      /\ (\A t \in Task : Ordered(calls[t])) /\ [RingNext]_ringVars
      => OrderStep /\ (\A t \in Task : Ordered(calls[t]))'
  <2> SUFFICES ASSUME RingTypeOK, RingInv, RingTypeOK', RingInv',
                      \A t \in Task : Ordered(calls[t]), [RingNext]_ringVars
               PROVE  OrderStep /\ (\A t \in Task : Ordered(calls[t]))'
    OBVIOUS
  <2>1. CASE RingNext
    BY <2>1, RingNextOrderly DEF OrderStepping, Stepping
  <2>2. CASE UNCHANGED ringVars
    BY <2>2, OrderedStutters, OrderStutters DEF OrderInv
  <2>3. QED
    BY <2>1, <2>2
<1>3. QED
  BY <1>1, <1>2, RingInvAlways, PTL
     DEF RingSpec, OrderRefined, Order!OrderSpec, OrderStep

-----------------------------------------------------------------------------
(* A ring that changes as RingOrder allows stays a ring.                  *)

Exchanged(f, a, b) == [f EXCEPT ![a] = f[b], ![b] = f[a]]

\* Two nodes may exchange their next nodes: splitting a ring in two and joining
\* two rings are the same thing.
LEMMA ExchangeKeepsCircles ==
  ASSUME NEW f \in Order!Circles, NEW a \in Node, NEW b \in Node
  PROVE  Exchanged(f, a, b) \in Order!Circles
<1> DEFINE g == Exchanged(f, a, b)
           other(n) == IF n = a THEN b ELSE IF n = b THEN a ELSE n
<1>1. /\ f \in [Node -> Node]
      /\ g \in [Node -> Node]
  BY DEF Order!Circles, Exchanged
<1>2. \A n \in Node : /\ other(n) \in Node
                     /\ g[n] = f[other(n)]
                     /\ other(other(n)) = n
  BY <1>1 DEF Exchanged
<1>3. ASSUME NEW m \in Node
      PROVE  \E n \in Node : g[n] = m /\ \A o \in Node : g[o] = m => o = n
  <2>1. PICK k \in Node : f[k] = m /\ \A o \in Node : f[o] = m => o = k
    BY DEF Order!Circles
  <2> HIDE DEF g, other
  <2>2. other(k) \in Node /\ g[other(k)] = m
    BY <1>2, <2>1
  <2>3. ASSUME NEW o \in Node, g[o] = m
        PROVE  o = other(k)
    <3>1. f[other(o)] = m /\ other(o) \in Node
      BY <1>2, <2>3
    <3>2. other(o) = k
      BY <2>1, <3>1
    <3>3. QED
      BY <1>2, <3>2
  <2>4. QED
    BY <2>2, <2>3
<1>4. QED
  BY <1>1, <1>3 DEF Order!Circles

LEMMA InsertKeepsCircles ==
  ASSUME Order!OrderIsCircles, NEW n \in Node, NEW m \in Node,
         Order!Insert(n, m)
  PROVE  Order!OrderIsCircles'
<1>1. SuccInOrder' = Exchanged(SuccInOrder, m, n)
  BY DEF Order!Insert, Exchanged
<1>2. QED
  BY <1>1, ExchangeKeepsCircles DEF Order!OrderIsCircles

LEMMA RemoveKeepsCircles ==
  ASSUME Order!OrderIsCircles, NEW n \in Node, NEW m \in Node,
         Order!Remove(n, m)
  PROVE  Order!OrderIsCircles'
<1>1. SuccInOrder' = Exchanged(SuccInOrder, m, n)
  BY DEF Order!Remove, Exchanged
<1>2. QED
  BY <1>1, ExchangeKeepsCircles DEF Order!OrderIsCircles

LEMMA CirclesStay ==
  Order!OrderIsCircles /\ [Order!OrderNext]_(Order!orderVars)
  => Order!OrderIsCircles'
<1> SUFFICES ASSUME Order!OrderIsCircles, [Order!OrderNext]_(Order!orderVars)
             PROVE  Order!OrderIsCircles'
  OBVIOUS
<1>1. CASE \E n \in Node : Order!Go(n) \/ Order!Stay(n)
  BY <1>1 DEF Order!Go, Order!Stay, Order!OrderIsCircles
<1>2. ASSUME NEW n \in Node, NEW m \in Node,
             Order!Insert(n, m) \/ Order!Remove(n, m)
      PROVE  Order!OrderIsCircles'
  BY <1>2, InsertKeepsCircles, RemoveKeepsCircles
<1>3. CASE UNCHANGED Order!orderVars
  BY <1>3 DEF Order!orderVars, Order!OrderIsCircles
<1>4. QED
  BY <1>1, <1>2, <1>3 DEF Order!OrderNext

\* Whatever nodes join, leave and are missed, and in whatever order, the next
\* nodes form proper rings.
THEOREM OrderAlwaysCircles == Order!OrderSpec => []Order!OrderIsCircles
<1>1. Order!OrderInit => Order!OrderIsCircles
  BY DEF Order!OrderInit, Order!OrderIsCircles
<1>2. QED
  BY <1>1, CirclesStay, PTL DEF Order!OrderSpec

\* During a join, a leave, a repair or a revival no two nodes send to the same
\* node and every node is sent to: no node is cut off from the messages, and
\* each message comes back to the node it is from.
THEOREM RingAlwaysCircles ==
  ASSUME OneRequest
  PROVE  RingSpec => []Order!OrderIsCircles
<1>1. QED
  BY OrderIsRefined, OrderAlwaysCircles, PTL DEF OrderRefined
=============================================================================
