---------------------------- MODULE Calls_proofs -----------------------------
(***************************************************************************)
(* What the operations of Calls do to the stack of a request and that they *)
(* leave the other stacks alone, for frames of any set F.                  *)
(***************************************************************************)
EXTENDS Calls, SequenceTheorems, TLAPS

\* The executing frame of a request is one of its frames.
LEMMA TopIsFrame ==
  ASSUME NEW F, calls \in [Task -> Seq(F)], NEW t \in Task, ~Idle(t)
  PROVE  /\ Len(calls[t]) \in Nat \ {0}
         /\ Top(t) \in F
BY DEF Idle, Top

\* A stack has one frame or more.
LEMMA OneOrMore ==
  ASSUME NEW F, NEW s \in Seq(F), s # << >>
  PROVE  Len(s) = 1 \/ Len(s) > 1
<1> DEFINE n == Len(s)
<1>1. n \in Nat /\ n # 0
  OBVIOUS
<1> HIDE DEF n
<1>2. n = 1 \/ n > 1
  BY <1>1
<1>3. QED
  BY <1>2 DEF n

\* A new request has one frame.
LEMMA BeginEffect ==
  ASSUME NEW F, calls \in [Task -> Seq(F)], NEW t \in Task, NEW f \in F,
         Begin(t, f)
  PROVE  /\ calls' \in [Task -> Seq(F)]
         /\ calls'[t] = << f >>
         /\ \A u \in Task \ {t} : calls'[u] = calls[u]
BY DEF Begin

\* Going on in the same function replaces the last frame.
LEMMA GotoEffect ==
  ASSUME NEW F, calls \in [Task -> Seq(F)], NEW t \in Task, ~Idle(t),
         NEW f \in F, Goto(t, f)
  PROVE  /\ calls' \in [Task -> Seq(F)]
         /\ Len(calls'[t]) = Len(calls[t])
         /\ \A i \in 1 .. Len(calls[t]) - 1 : calls'[t][i] = calls[t][i]
         /\ calls'[t][Len(calls[t])] = f
         /\ \A u \in Task \ {t} : calls'[u] = calls[u]
BY DEF Goto, Idle

\* A call replaces the last frame and adds the frame of the callee.
LEMMA CallEffect ==
  ASSUME NEW F, calls \in [Task -> Seq(F)], NEW t \in Task, ~Idle(t),
         NEW f \in F, NEW g \in F, Call(t, f, g)
  PROVE  /\ calls' \in [Task -> Seq(F)]
         /\ Len(calls'[t]) = Len(calls[t]) + 1
         /\ \A i \in 1 .. Len(calls[t]) - 1 : calls'[t][i] = calls[t][i]
         /\ calls'[t][Len(calls[t])] = f
         /\ calls'[t][Len(calls[t]) + 1] = g
         /\ \A u \in Task \ {t} : calls'[u] = calls[u]
BY DEF Call, Idle

\* A return drops the last frame.
LEMMA ReturnEffect ==
  ASSUME NEW F, calls \in [Task -> Seq(F)], NEW t \in Task, ~Idle(t),
         Return(t)
  PROVE  /\ calls' \in [Task -> Seq(F)]
         /\ Len(calls'[t]) = Len(calls[t]) - 1
         /\ \A i \in 1 .. Len(calls[t]) - 1 : calls'[t][i] = calls[t][i]
         /\ \A u \in Task \ {t} : calls'[u] = calls[u]
<1> DEFINE s == calls[t]
           n == Len(s) - 1
           r == SubSeq(s, 1, n)
<1>1. /\ s \in Seq(F) /\ n \in Nat
      /\ \A i \in 1 .. n : s[i] \in F
  BY DEF Idle
<1>2. calls' = [calls EXCEPT ![t] = r]
  BY DEF Return
<1> HIDE DEF s, n
<1>3. r \in Seq(F)
  BY <1>1, SubSeqProperties
<1>4. Len(r) = n
  <2>1. Len(r) = IF 1 <= n THEN n - 1 + 1 ELSE 0
    BY <1>1, SubSeqProperties
  <2>2. QED
    BY <1>1, <2>1
<1>5. \A i \in 1 .. n : r[i] = s[i]
  BY <1>1, SubSeqProperties
<1> HIDE DEF r
<1>6. QED
  BY <1>2, <1>3, <1>4, <1>5 DEF s, n

\* A return to a caller that goes on with frame f replaces the last two
\* frames by f.
LEMMA ReturnToEffect ==
  ASSUME NEW F, calls \in [Task -> Seq(F)], NEW t \in Task,
         Len(calls[t]) > 1, NEW f \in F, ReturnTo(t, f)
  PROVE  /\ calls' \in [Task -> Seq(F)]
         /\ Len(calls'[t]) = Len(calls[t]) - 1
         /\ \A i \in 1 .. Len(calls[t]) - 2 : calls'[t][i] = calls[t][i]
         /\ calls'[t][Len(calls[t]) - 1] = f
         /\ \A u \in Task \ {t} : calls'[u] = calls[u]
<1> DEFINE s == calls[t]
           n == Len(s) - 2
           r == SubSeq(s, 1, n)
<1>1. /\ s \in Seq(F) /\ n \in Nat
      /\ \A i \in 1 .. n : s[i] \in F
  OBVIOUS
<1>2. calls' = [calls EXCEPT ![t] = Append(r, f)]
  BY DEF ReturnTo
<1> HIDE DEF s, n
<1>3. r \in Seq(F)
  BY <1>1, SubSeqProperties
<1>4. Len(r) = n
  <2>1. Len(r) = IF 1 <= n THEN n - 1 + 1 ELSE 0
    BY <1>1, SubSeqProperties
  <2>2. QED
    BY <1>1, <2>1
<1>5. \A i \in 1 .. n : r[i] = s[i]
  BY <1>1, SubSeqProperties
<1> HIDE DEF r
<1>6. /\ Append(r, f) \in Seq(F)
      /\ Len(Append(r, f)) = n + 1
      /\ \A i \in 1 .. n : Append(r, f)[i] = s[i]
      /\ Append(r, f)[n + 1] = f
  BY <1>1, <1>3, <1>4, <1>5
<1> DEFINE a == Append(r, f)
<1> HIDE DEF a
<1>7. calls' = [calls EXCEPT ![t] = a]
  BY <1>2 DEF a
<1>8. n + 1 = Len(s) - 1 /\ n = Len(s) - 2
  BY <1>1 DEF n, s
<1>9. QED
  BY <1>6, <1>7, <1>8 DEF s, a
=============================================================================
