---------------------------- MODULE LamportClock ----------------------------
(***************************************************************************)
(* lamport_time of src/node_base/node.rs: what send_resource_msg,          *)
(* send_cmh_msg and the receipt of a message do to the clocks.  What the   *)
(* messages say is left out: a handler sends as many as it likes, and a    *)
(* node that a message is not addressed to sends it on and returns the     *)
(* reply that it gets.                                                     *)
(***************************************************************************)
EXTENDS NodeCalls

CONSTANT
  MaxTime    \* bound: no message is sent by a node whose clock is there

ASSUME ClockBound == MaxTime \in Nat

VARIABLES
  clock,     \* lamport_time of each node
  lastSent,  \* history: the time of the last message that each node sent
  sentBefore \* history: lastSent of the node when each task last added one

sent == << lastSent, sentBefore >>
clockVars == << calls, clock, sent >>

\* A handler, of a CMH or of a resource message.  own says that the message is
\* addressed to its node, time what its last message carries, reply what the
\* reply Success carries.
Handler(fn, pc, n, own, time) ==
  [fn |-> fn, pc |-> pc, at |-> n, own |-> own, time |-> time, reply |-> 0]

ClockFrame ==
  [fn : {"cmh", "resource"},
   pc : {"handle", "read", "await", "receive", "update",
         "answered", "failed"},
   at : Node, own : BOOLEAN, time : Nat, reply : Nat]

Later(a, b) == IF a < b THEN b ELSE a

-----------------------------------------------------------------------------
(* Sending.                                                                *)

StartRequest(t, n, fn) ==
  /\ Idle(t)
  /\ Begin(t, Handler(fn, "handle", n, TRUE, 0))
  /\ UNCHANGED << clock, sent >>

\* Variant for a check: only a message that is sent on is counted.
AddTickOfForwarded(t) ==
  /\ At(t, "cmh", "handle")
  /\ clock[Top(t).at] < MaxTime
  /\ clock' = [clock EXCEPT ![Top(t).at] = IF Top(t).own THEN @ ELSE @ + 1]
  /\ Goto(t, [Top(t) EXCEPT !.pc = "read"])
  /\ sentBefore' = [sentBefore EXCEPT ![t] = lastSent[Top(t).at]]
  /\ UNCHANGED lastSent

\* increment_lamport adds one.  It reads the time in a step of its own.
AddTick(t) ==
  /\ At(t, "cmh", "handle")
  /\ clock[Top(t).at] < MaxTime
  /\ clock' = [clock EXCEPT ![Top(t).at] = @ + 1]
  /\ Goto(t, [Top(t) EXCEPT !.pc = "read"])
  /\ sentBefore' = [sentBefore EXCEPT ![t] = lastSent[Top(t).at]]
  /\ UNCHANGED lastSent

\* The next node handles the message or sends it on.
SendTime(t, own) ==
  /\ At(t, "cmh", "read")
  /\ LET f == Top(t)
         now == clock[f.at]
     IN  /\ Call(t, [f EXCEPT !.pc = "await", !.time = now],
                    Handler("cmh", "receive", Succ[f.at], own, now))
         /\ lastSent' = [lastSent EXCEPT ![f.at] = now]
  /\ UNCHANGED << clock, sentBefore >>

\* A resource message carries no time.
SendResource(t, own) ==
  /\ At(t, "resource", "handle")
  /\ LET f == Top(t) IN
       /\ clock[f.at] < MaxTime
       /\ clock' = [clock EXCEPT ![f.at] = @ + 1]
       /\ Call(t, [f EXCEPT !.pc = "await"],
                  Handler("resource", "handle", Succ[f.at], own, 0))
  /\ UNCHANGED sent

\* Variant for a check: the time that a message carries is not looked at.
ReceiveTimeOfOwn(t) ==
  /\ At(t, "cmh", "receive")
  /\ clock' = [clock EXCEPT ![Top(t).at] = @ + 1]
  /\ Goto(t, [Top(t) EXCEPT !.pc = "handle"])
  /\ UNCHANGED sent

\* update_clock, when a message is received.
ReceiveTime(t) ==
  /\ At(t, "cmh", "receive")
  /\ clock' = [clock EXCEPT ![Top(t).at] = Later(@, Top(t).time) + 1]
  /\ Goto(t, [Top(t) EXCEPT !.pc = "handle"])
  /\ UNCHANGED sent

-----------------------------------------------------------------------------
(* Replies.  Success is the only one that carries a time.                  *)

\* Variant for a check: the reply holds the time that the message was under way.
AnswerSuccessWithDelay(t) ==
  /\ At(t, "cmh", "handle")
  /\ Top(t).own
  /\ Len(calls[t]) > 1
  /\ ReturnTo(t, [Caller(t) EXCEPT !.pc = "update",
                              !.reply = Top(t).time - clock[Top(t).at]])
  /\ UNCHANGED << clock, sent >>

AnswerSuccess(t) ==
  /\ At(t, "cmh", "handle")
  /\ Top(t).own
  /\ Len(calls[t]) > 1
  /\ ReturnTo(t, [Caller(t) EXCEPT !.pc = "update", !.reply = clock[Top(t).at]])
  /\ UNCHANGED << clock, sent >>

\* update_clock, when Success is received.
UpdateByReply(t) ==
  /\ At(t, "cmh", "update")
  /\ clock' = [clock EXCEPT ![Top(t).at] = Later(@, Top(t).reply) + 1]
  /\ Goto(t, [Top(t) EXCEPT !.pc = IF Top(t).own THEN "handle" ELSE "answered"])
  /\ UNCHANGED sent

\* A node that has sent a message on returns the reply as it is.
ForwardReply(t) ==
  /\ At(t, "cmh", "answered")
  /\ Len(calls[t]) > 1
  /\ ReturnTo(t, [Caller(t) EXCEPT !.pc = "update", !.reply = Top(t).reply])
  /\ UNCHANGED << clock, sent >>

\* Any other reply, or the error of a message that is not received: no clock
\* changes.  A node that has sent the message on returns it as it is.
AnswerOther(t) ==
  /\ ~Idle(t)
  /\ Top(t).pc \in {"receive", "handle", "failed"}
  /\ Len(calls[t]) > 1
  /\ ReturnTo(t, [Caller(t) EXCEPT !.pc = IF Caller(t).own THEN "handle" ELSE "failed"])
  /\ UNCHANGED << clock, sent >>

EndRequest(t) ==
  /\ ~Idle(t)
  /\ Top(t).pc = "handle"
  /\ Len(calls[t]) = 1
  /\ Return(t)
  /\ UNCHANGED << clock, sent >>

-----------------------------------------------------------------------------
(* The specification.                                                      *)

ClockStep(t) ==
  \/ AddTick(t) \/ ReceiveTime(t)
  \/ \E own \in BOOLEAN : SendTime(t, own) \/ SendResource(t, own)
  \/ AnswerSuccess(t) \/ UpdateByReply(t) \/ ForwardReply(t)
  \/ AnswerOther(t) \/ EndRequest(t)

ClockInit ==
  /\ calls = [t \in Task |-> << >>]
  /\ clock = [n \in Node |-> 0]
  /\ lastSent = [n \in Node |-> 0]
  /\ sentBefore = [t \in Task |-> 0]

ClockNext ==
  \E t \in Task :
    \/ \E n \in Node, fn \in {"cmh", "resource"} : StartRequest(t, n, fn)
    \/ ClockStep(t)

ClockSpec == ClockInit /\ [][ClockNext]_clockVars

-----------------------------------------------------------------------------
(* What the clocks promise.                                                *)

\* Type invariant.
ClockTypeOK ==
  /\ calls \in [Task -> Seq(ClockFrame)]
  /\ clock \in [Node -> Nat]
  /\ lastSent \in [Node -> Nat]
  /\ sentBefore \in [Task -> Nat]

\* A message that is sent because of another one carries a later time, however
\* many nodes and requests their clocks have counted in between: the times grow
\* along each chain of calls (update_clock and increment_lamport).
TimesGrow ==
  \A t \in Task : \A i, j \in DOMAIN calls[t] :
    /\ i < j
    /\ calls[t][i].fn = "cmh"
    /\ calls[t][j].pc = "await"
    => calls[t][i].time < calls[t][j].time

\* The time that a message is about to carry is later than all that its node had
\* sent when increment_lamport added one for it, although it is read in a second
\* step: two messages of a node carry the same time only if the two calls of
\* increment_lamport overlap.
TimeIsNew ==
  \A t \in Task :
    At(t, "cmh", "read") => sentBefore[t] < clock[Top(t).at]
=============================================================================
