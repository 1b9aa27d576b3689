-------------------------------- MODULE Ring --------------------------------
(***************************************************************************)
(* How the nodes form a ring and repair it: join, leave, kill and revive   *)
(* in src/node_base/node.rs, their messages in src/rpc_base/server.rs, and *)
(* the connections that src/rpc_base/rpc_client_manager.rs keeps.          *)
(*                                                                         *)
(* A step is what a handler does between two of its awaits, together with  *)
(* the call of change_next, change_nnext or change_prev that ends it:      *)
(* these three set one field of the called node and return.                *)
(***************************************************************************)
EXTENDS Calls, FiniteSets

CONSTANTS
  MaxDown,          \* bound: nodes that are down and not missed yet
  KillBetween,      \* TRUE: a node is killed between two requests, as by
                    \* control.sh, which sends one request at a time;
                    \* FALSE: also while messages are under way
  ChangeWhileDown,  \* TRUE: nodes join, leave and are revived while another
                    \* crash is undetected or the node to rejoin is down
  StrayConnections, \* TRUE: a node is revived although it, or a node that will
                    \* not be told of it, keeps a closed connection to it
  Slow,             \* nodes whose message_delay exceeds the 10 s deadline
  Rejoin            \* TRUE: a node is asked to join another one while it
                    \* belongs to a ring; FALSE: only when it is on its own

ASSUME RingBounds ==
  /\ MaxDown \in Nat
  /\ KillBetween \in BOOLEAN
  /\ ChangeWhileDown \in BOOLEAN
  /\ StrayConnections \in BOOLEAN
  /\ Slow \subseteq Node
  /\ Rejoin \in BOOLEAN

VARIABLES
  info,      \* neighbor_info of each node
  alive,     \* nodes whose RPC server runs
  clients    \* clients[n][o]: the connection of n to o that is kept

ringVars == << calls, info, alive, clients >>

-----------------------------------------------------------------------------
(* Frames.  next, nnext and prev are copies of the node's neighbor_info,   *)
(* todo lists the fields of other nodes that remain to be set, path the    *)
(* node that a message is from and those that await the reply or handle it.*)

Frame(fn, pc, n, o, from) ==
  [fn |-> fn, pc |-> pc, at |-> n, arg |-> o, from |-> from,
   next |-> n, nnext |-> n, prev |-> n, reply |-> n, todo |-> << >>,
   path |-> << n >>]

\* Node n asks node who to set a field of its neighbor_info.
Set(n, who, field, value) ==
  [by |-> n, who |-> who, field |-> field, value |-> value]

Setting ==
  [by : Node, who : Node, field : {"next", "nnext", "prev", "nnextOfPrev"},
   value : Node]

RingFrame ==
  [fn : {"join", "joining", "leave", "leaving", "missing", "query"},
   pc : {"call", "await", "install", "enter", "repair", "copy", "tell",
         "alone", "forget", "unlink", "relink", "linked", "send", "deliver",
         "receive", "failed", "repaired"},
   at : Node, arg : Node, from : Node, next : Node, nnext : Node,
   prev : Node, reply : Node, todo : Seq(Setting), path : Seq(Node)]

Alone(n) == [next |-> n, nnext |-> n, prev |-> n]

-----------------------------------------------------------------------------
(* get_client and the call that follows it.  A connection that is kept is  *)
(* used even when the server at its other end has been stopped.            *)

Reaches(n, o) ==
  clients[n][o] = "open" \/ (clients[n][o] = "none" /\ o \in alive)

Connect(n, o) == clients' = [clients EXCEPT ![n][o] = "open"]

\* The nodes that a message of node n comes to.
RingOf(n) ==
  {m \in Node : \A S \in SUBSET Node :
     n \in S /\ (\A s \in S : info[s].next \in S) => m \in S}

\* A message of node n goes round for ever, past none of the nodes that would
\* end it.
Endless(n, ends) ==
  /\ RingOf(n) \cap ends = {}
  /\ \A m \in RingOf(n) : Reaches(m, info[m].next)

\* A handler panics: the call does not return, and when its deadline passes
\* send_resource_msg and other_joining go on, the others fail in their turn.
\* The deadline of a join may pass before other_joining goes on.
Fail(t) ==
  /\ \/ /\ Len(calls[t]) > 1
        /\ Caller(t).pc \in {"copy", "repaired"}
        /\ Return(t)
     \/ /\ Len(calls[t]) > 1 => Caller(t).pc # "repaired"
        /\ calls' = [calls EXCEPT ![t] = << >>]
  /\ UNCHANGED << info, clients >>

\* Variant for a check: repairing is set, and a second repair is not begun.
RepairTopologyOnce(t, f, missing) ==
  IF Reaches(f.at, f.at) /\ \A u \in Task : Idle(u) \/ Top(u).fn # "missing"
    THEN /\ Connect(f.at, f.at)
         /\ Call(t, f, Frame("missing", "enter", f.at, missing, f.at))
    ELSE Goto(t, f) /\ UNCHANGED clients

\* repair_topology calls missing_node of its own node.  A call that fails is
\* ignored.  A node that is down and keeps no connection to itself gets none:
\* the unwrap panics, and with it the request of the operator, the only handler
\* that kill has left running there.
RepairTopology(t, f, missing) ==
  \/ /\ Reaches(f.at, f.at)
     /\ Connect(f.at, f.at)
     /\ Call(t, f, Frame("missing", "enter", f.at, missing, f.at))
  \/ /\ clients[f.at][f.at] = "closed"
     /\ Goto(t, f)
     /\ UNCHANGED clients
  \/ /\ clients[f.at][f.at] = "none" /\ f.at \notin alive
     /\ calls' = [calls EXCEPT ![t] = << >>]
     /\ UNCHANGED clients

\* The next field to be set.  change_nnext_of_prev makes the called node set
\* the field of its prev.
TellNeighbor(t) ==
  /\ ~Idle(t)
  /\ Top(t).pc = "tell"
  /\ Top(t).todo # << >>
  /\ LET f == Top(t)
         s == Head(f.todo)
         rest == Tail(f.todo)
     IN  IF ~Reaches(s.by, s.who) THEN Fail(t)
         ELSE /\ Connect(s.by, s.who)
              /\ IF s.field = "nnextOfPrev"
                   THEN /\ Goto(t, [f EXCEPT !.todo =
                             << Set(s.who, info[s.who].prev, "nnext", s.value) >>
                               \o rest])
                        /\ UNCHANGED info
                   ELSE /\ Goto(t, [f EXCEPT !.todo = rest])
                        /\ info' = [info EXCEPT ![s.who][s.field] = s.value]
  /\ UNCHANGED alive

Told(t, fn) == At(t, fn, "tell") /\ Top(t).todo = << >>

-----------------------------------------------------------------------------
(* Joining: try_join_other at the new node, other_joining at the other.    *)

\* Nodes that run, and nodes that are down and have not been missed yet.
Member == alive \cup {info[n].next : n \in alive}

Unmissed == Member \ alive

MayChange(t, n) ==
  /\ Idle(t)
  /\ n \in alive
  /\ ChangeWhileDown \/ Unmissed = {}

StartJoin(t, n, o) ==
  /\ MayChange(t, n)
  /\ n # o
  /\ Rejoin \/ info[n] = Alone(n)
  /\ Begin(t, Frame("join", "call", n, o, n))
  /\ UNCHANGED << info, alive, clients >>

CallJoining(t) ==
  /\ At(t, "join", "call")
  /\ LET f == Top(t) IN
       IF Reaches(f.at, f.arg)
         THEN /\ Connect(f.at, f.arg)
              /\ Call(t, [f EXCEPT !.pc = "await"],
                      Frame("joining", "enter", f.arg, f.at, f.at))
         ELSE Return(t) /\ UNCHANGED clients
  /\ UNCHANGED << info, alive >>

\* A node that is already the next node has been restarted.
EnterJoining(t) ==
  /\ At(t, "joining", "enter")
  /\ LET f == Top(t) IN
       IF info[f.at].next = f.arg
         THEN /\ clients' = [clients EXCEPT ![f.at][f.arg] = "none"]
              /\ Goto(t, [f EXCEPT !.pc = "repair"])
         ELSE Goto(t, [f EXCEPT !.pc = "copy"]) /\ UNCHANGED clients
  /\ UNCHANGED << info, alive >>

RepairBeforeJoin(t) ==
  /\ At(t, "joining", "repair")
  /\ RepairTopology(t, [Top(t) EXCEPT !.pc = "copy"], Top(t).arg)
  /\ UNCHANGED << info, alive >>

CopyNeighbors(t) ==
  /\ At(t, "joining", "copy")
  /\ LET f == Top(t)
         i == info[f.at]
     IN  Goto(t, [f EXCEPT !.pc = "tell", !.next = i.next,
                           !.todo = << Set(f.at, i.next, "prev", f.arg),
                                       Set(f.at, i.prev, "nnext", f.arg) >>])
  /\ UNCHANGED << info, alive, clients >>

\* Variant for a check: the reply is made when the new node comes next already.
InsertNextThenCopy(t) ==
  /\ Told(t, "joining")
  /\ LET f == Top(t) IN
       /\ info' = [info EXCEPT ![f.at].nnext = f.next, ![f.at].next = f.arg]
       /\ ReturnTo(t, [Caller(t) EXCEPT !.pc = "install", !.next = f.arg,
                                        !.nnext = f.next, !.prev = f.at])
  /\ UNCHANGED << alive, clients >>

\* The new node comes next and learns its neighbors from the reply.
InsertNext(t) ==
  /\ Told(t, "joining")
  /\ LET f == Top(t) IN
       /\ info' = [info EXCEPT ![f.at].nnext = f.next, ![f.at].next = f.arg]
       /\ ReturnTo(t, [Caller(t) EXCEPT !.pc = "install", !.next = f.next,
                                        !.nnext = info[f.at].nnext,
                                        !.prev = f.at])
  /\ UNCHANGED << alive, clients >>

InstallNeighbors(t) ==
  /\ At(t, "join", "install")
  /\ LET f == Top(t) IN
       info' = [info EXCEPT ![f.at] = [next |-> f.next, nnext |-> f.nnext,
                                       prev |-> f.prev]]
  /\ Return(t)
  /\ UNCHANGED << alive, clients >>

-----------------------------------------------------------------------------
(* leave and leave_topology                                                *)

StartLeave(t, n) ==
  /\ MayChange(t, n)
  /\ Begin(t, Frame("leave", "call", n, n, n))
  /\ UNCHANGED << info, alive, clients >>

CallLeaving(t) ==
  /\ At(t, "leave", "call")
  /\ LET f == Top(t) IN
       IF Reaches(f.at, f.at)
         THEN /\ Connect(f.at, f.at)
              /\ Call(t, [f EXCEPT !.pc = "await"],
                      Frame("leaving", "copy", f.at, f.at, f.at))
         ELSE Return(t) /\ UNCHANGED clients
  /\ UNCHANGED << info, alive >>

\* Variant for a check: the prev of the previous node is forgotten.
LeaveSettingsOfNeighbors(n, i) ==
  IF i.prev = i.next
    THEN << Set(n, i.next, "next", i.next), Set(n, i.next, "prev", i.next) >>
  ELSE IF i.prev = i.nnext
    THEN << Set(n, i.next, "prev", i.prev), Set(n, i.next, "nnext", i.next),
            Set(n, i.prev, "next", i.next), Set(n, i.prev, "nnext", i.nnext) >>
    ELSE << Set(n, i.prev, "next", i.next), Set(n, i.prev, "nnext", i.nnext),
            Set(n, i.next, "prev", i.prev) >>

\* The fields that a leaving node n with neighbors i sets: in a ring of two,
\* of three, and of more nodes.
LeaveSettings(n, i) ==
  IF i.prev = i.next
    THEN << Set(n, i.next, "next", i.next), Set(n, i.next, "prev", i.next) >>
  ELSE IF i.prev = i.nnext
    THEN << Set(n, i.next, "prev", i.prev), Set(n, i.next, "nnext", i.next),
            Set(n, i.prev, "next", i.next), Set(n, i.prev, "nnext", i.nnext) >>
    ELSE << Set(n, i.prev, "next", i.next), Set(n, i.prev, "nnext", i.nnext),
            Set(n, i.prev, "nnextOfPrev", i.next),
            Set(n, i.next, "prev", i.prev) >>

CopyLeaving(t) ==
  /\ At(t, "leaving", "copy")
  /\ LET f == Top(t) IN
       Goto(t, [f EXCEPT !.pc = "tell",
                         !.todo = LeaveSettings(f.at, info[f.at])])
  /\ UNCHANGED << info, alive, clients >>

EndLeaving(t) ==
  /\ Told(t, "leaving")
  /\ ReturnTo(t, [Caller(t) EXCEPT !.pc = "alone"])
  /\ UNCHANGED << info, alive, clients >>

\* Variant for a check: the node has no prev when it has left.
BecomeAloneWithoutPrev(t) ==
  /\ At(t, "leave", "alone")
  /\ LET n == Top(t).at IN
       info' = [info EXCEPT ![n] = [next |-> n, nnext |-> n]]
  /\ Return(t)
  /\ UNCHANGED << alive, clients >>

BecomeAlone(t) ==
  /\ At(t, "leave", "alone")
  /\ info' = [info EXCEPT ![Top(t).at] = Alone(Top(t).at)]
  /\ Return(t)
  /\ UNCHANGED << alive, clients >>

-----------------------------------------------------------------------------
(* missing_node goes round the ring.  The node before the missing one      *)
(* takes its next-next node for the next one.  The removal of a connection *)
(* awaits the lock of the connections, twice: after the first await the    *)
(* node reads its neighbors again, and keeps the next one it has read.     *)

\* Variant for a check: the node that began does not stop the message.
EnterMissingEndlessly(t) ==
  /\ At(t, "missing", "enter")
  /\ LET f == Top(t) IN
       Goto(t, [f EXCEPT !.pc = "forget", !.next = info[f.at].next])
  /\ UNCHANGED << info, alive, clients >>

EnterMissing(t) ==
  /\ At(t, "missing", "enter")
  /\ LET f == Top(t)
         next == info[f.at].next
     IN  IF f.at = f.from /\ next # f.arg
           THEN Return(t)
           ELSE Goto(t, [f EXCEPT !.pc = "forget", !.next = next])
  /\ UNCHANGED << info, alive, clients >>

\* Variant for a check: the connection to the missing node is kept.
ForgetMissingKeepsClient(t) ==
  /\ At(t, "missing", "forget")
  /\ LET f == Top(t)
         i == info[f.at]
     IN  Goto(t, IF i.next = f.arg
                   THEN [f EXCEPT !.pc = "unlink", !.nnext = i.nnext,
                                  !.prev = i.prev]
                   ELSE [f EXCEPT !.pc = "tell"])
  /\ UNCHANGED << info, alive, clients >>

\* The end of delete_dependencies.
ForgetMissing(t) ==
  /\ At(t, "missing", "forget")
  /\ LET f == Top(t)
         i == info[f.at]
     IN  /\ clients' = [clients EXCEPT ![f.at][f.arg] = "none"]
         /\ Goto(t, IF i.next = f.arg
                      THEN [f EXCEPT !.pc = "unlink", !.nnext = i.nnext,
                                     !.prev = i.prev]
                      ELSE [f EXCEPT !.pc = "tell"])
  /\ UNCHANGED << info, alive >>

\* Variant for a check: the next-next node is read again after the await.
UnlinkReadAgain(t) ==
  /\ At(t, "missing", "unlink")
  /\ LET f == Top(t)
         nnext == info[f.at].nnext
     IN  /\ clients' = [clients EXCEPT ![f.at][f.arg] = "none"]
         /\ info' = [info EXCEPT ![f.at].next = nnext]
         /\ Goto(t, [f EXCEPT !.pc = "relink", !.nnext = nnext])
  /\ UNCHANGED alive

Unlink(t) ==
  /\ At(t, "missing", "unlink")
  /\ LET f == Top(t) IN
       /\ clients' = [clients EXCEPT ![f.at][f.arg] = "none"]
       /\ info' = [info EXCEPT ![f.at].next = f.nnext]
       /\ Goto(t, [f EXCEPT !.pc = "relink"])
  /\ UNCHANGED alive

\* change_prev, which returns the next node of the called one.
Relink(t) ==
  /\ At(t, "missing", "relink")
  /\ LET f == Top(t) IN
       IF Reaches(f.at, f.nnext)
         THEN /\ Connect(f.at, f.nnext)
              /\ info' = [info EXCEPT ![f.nnext].prev = f.at]
              /\ Goto(t, [f EXCEPT !.pc = "linked",
                                   !.reply = info[f.nnext].next])
         ELSE Fail(t)
  /\ UNCHANGED alive

\* Variant for a check: the node keeps its next-next node.
LinkedWithoutNnext(t) ==
  /\ At(t, "missing", "linked")
  /\ LET f == Top(t)
         two == f.prev = f.next
     IN  /\ info' = [info EXCEPT ![f.at].prev = IF two THEN f.nnext ELSE @]
         /\ Goto(t, [f EXCEPT !.pc = "tell", !.next = f.nnext, !.todo =
                        IF two THEN << >>
                        ELSE << Set(f.at, f.prev, "nnext", f.nnext) >>])
  /\ UNCHANGED << alive, clients >>

\* In a ring of two nodes the one that is left is its own prev.
Linked(t) ==
  /\ At(t, "missing", "linked")
  /\ LET f == Top(t)
         two == f.prev = f.next
     IN  /\ info' = [info EXCEPT
                       ![f.at] = [next |-> @.next, nnext |-> f.reply,
                                  prev |-> IF two THEN f.nnext ELSE @.prev]]
         /\ Goto(t, [f EXCEPT !.pc = "tell", !.next = f.nnext, !.todo =
                        IF two THEN << >>
                        ELSE << Set(f.at, f.prev, "nnext", f.nnext) >>])
  /\ UNCHANGED << alive, clients >>

PassMissing(t) ==
  /\ Told(t, "missing")
  /\ LET f == Top(t) IN
       IF Reaches(f.at, f.next)
         THEN /\ Connect(f.at, f.next)
              /\ Goto(t, Frame("missing", "enter", f.next, f.arg, f.from))
              /\ UNCHANGED info
         ELSE Fail(t)
  /\ UNCHANGED alive

\* The node that began the repair is not on the way of missing_node any more,
\* or it misses itself on a ring of its own: the deadline that the call hands
\* on ends it.
RepairUnanswered(t) ==
  /\ Told(t, "missing")
  /\ LET f == Top(t) IN
       /\ Endless(f.next, {m \in {f.from} : {info[m].next, info[m].nnext} # {f.arg}})
       /\ \A m \in RingOf(f.next) :
            info[m].next = f.arg => info[m].nnext \in RingOf(f.next)
  /\ Fail(t)
  /\ UNCHANGED alive

-----------------------------------------------------------------------------
(* A message round the ring.  The node that it is at sends it on to its    *)
(* next node, which it looks up before it sleeps for its message_delay.    *)

CopyNext(t) ==
  /\ ~Idle(t)
  /\ Top(t).pc = "send"
  /\ Goto(t, [Top(t) EXCEPT !.pc = "deliver", !.next = info[Top(t).at].next])
  /\ UNCHANGED << info, alive, clients >>

\* A node that sleeps does so while another one awaits its reply.
Awaited(t) == \E i \in DOMAIN calls[t] : Len(calls[t][i].path) > 1
Sleeps(t) == Top(t).at \in Slow /\ Awaited(t)

\* The nodes that await a message when o handles it: a second round adds none.
Extended(path, o) ==
  IF \E i \in 2..Len(path) : path[i] = o THEN path ELSE Append(path, o)

SendMessage(t) ==
  /\ ~Idle(t)
  /\ Top(t).pc = "deliver"
  /\ ~Sleeps(t)
  /\ LET f == Top(t) IN
       IF Reaches(f.at, f.next)
         THEN /\ Connect(f.at, f.next)
              /\ Goto(t, [f EXCEPT !.at = f.next, !.pc = "receive",
                                   !.path = Extended(@, f.next)])
         ELSE /\ Goto(t, [f EXCEPT !.pc = "failed"])
              /\ UNCHANGED clients
  /\ UNCHANGED << info, alive >>

\* Variant for a check: the node that is missed is looked up again.
RepairNext(t) ==
  /\ ~Idle(t)
  /\ Top(t).pc = "failed"
  /\ RepairTopology(t, [Top(t) EXCEPT !.pc = "repaired"],
                    info[Top(t).at].next)
  /\ UNCHANGED << info, alive >>

\* A call that fails is lost.  send_resource_msg repairs the ring, and every
\* node on the way returns the error.
RepairAfterFailure(t) ==
  /\ ~Idle(t)
  /\ Top(t).pc = "failed"
  /\ RepairTopology(t, [Top(t) EXCEPT !.pc = "repaired"], Top(t).next)
  /\ UNCHANGED << info, alive >>

\* The call that the k-th node on the path of f awaits has failed.
FailedAt(f, k) ==
  [f EXCEPT !.pc = "failed", !.at = f.path[k], !.next = f.path[k + 1],
            !.path = SubSeq(@, 1, k)]

\* The message of t is not answered within 10 s: it is held by a slow node,
\* or goes round for ever.
Overdue(t, ends) ==
  /\ ~Idle(t)
  /\ Top(t).pc = "deliver"
  /\ Awaited(t)
  /\ Sleeps(t) \/ Endless(Top(t).next, ends)

\* The deadline of the call that sent the i-th frame of t passes, the first of
\* all that are waiting: the call and those it led to are cancelled.
GiveUp(t, i) ==
  /\ calls' = [calls EXCEPT ![t] =
                 Append(SubSeq(@, 1, i - 1), FailedAt(@[i], 1))]
  /\ UNCHANGED << info, alive, clients >>

\* The query that /msg sends.
StartQuery(t, n) ==
  /\ Idle(t)
  /\ n \in alive
  /\ Begin(t, Frame("query", "send", n, n, n))
  /\ UNCHANGED << info, alive, clients >>

\* The owner of the resource answers a query, and so does the last node before
\* the one that it is from.
ReceiveQuery(t) ==
  /\ At(t, "query", "receive")
  /\ \/ Return(t)
     \/ /\ info[Top(t).at].next # Top(t).from
        /\ Goto(t, [Top(t) EXCEPT !.pc = "send"])
  /\ UNCHANGED << info, alive, clients >>

QueryUnanswered(t) ==
  /\ At(t, "query", "deliver")
  /\ Overdue(t, {m \in Node : info[m].next = Top(t).from})
  /\ GiveUp(t, Len(calls[t]))

Unanswered(t) ==
  IF At(t, "query", "deliver") THEN QueryUnanswered(t) ELSE RepairUnanswered(t)

EndQuery(t) ==
  /\ At(t, "query", "repaired")
  /\ Return(t)
  /\ UNCHANGED << info, alive, clients >>

-----------------------------------------------------------------------------
(* kill stops the RPC server, which closes the connections to it.  The     *)
(* node keeps its memory.  revive starts the server, unless it runs, and   *)
(* joins the last node that was before: a node that runs joins again.      *)

\* The nodes that are told of a node that comes back, and delete their
\* connection to it: the others of a ring that has not missed it.
WillForget(n) == IF n \in Member THEN RingOf(n) \ {n} ELSE {}

HasStrayConnection(n) ==
  \E m \in Node \ WillForget(n) : clients[m][n] = "closed"

\* Node n handles the message in frame f.
Handles(n, f) == \E k \in 2..Len(f.path) : f.path[k] = n

\* The stack of a message, after node n has been killed: the node that has
\* called n finds the connection closed, the calls that n awaits are cancelled.
Interrupted(stack, n) ==
  IF \E i \in DOMAIN stack : Handles(n, stack[i])
    THEN LET i == CHOOSE j \in DOMAIN stack :
                    /\ Handles(n, stack[j])
                    /\ \A l \in 1..(j - 1) : ~Handles(n, stack[l])
             k == CHOOSE l \in 2..Len(stack[i].path) : stack[i].path[l] = n
         IN  Append(SubSeq(stack, 1, i - 1), FailedAt(stack[i], k - 1))
    ELSE stack

\* Messages, and no join, leave or repair, are under way.
OnlyMessages ==
  \A t \in Task : ~Idle(t) =>
    /\ Top(t).fn \notin {"join", "joining", "leave", "leaving", "missing"}
    /\ Top(t).pc \notin {"failed", "repaired"}

Kill(n) ==
  /\ IF KillBetween THEN \A t \in Task : Idle(t) ELSE OnlyMessages
  /\ n \in alive
  /\ Cardinality(Unmissed) < MaxDown
  /\ alive' = alive \ {n}
  /\ clients' = [m \in Node |->
                   [clients[m] EXCEPT ![n] = IF @ = "open" THEN "closed" ELSE @]]
  /\ calls' = [t \in Task |-> Interrupted(calls[t], n)]
  /\ UNCHANGED info

Revive(t, n) ==
  /\ Idle(t)
  /\ ChangeWhileDown \/ (Unmissed \subseteq {n} /\ info[n].prev \in alive \cup {n})
  /\ StrayConnections \/ ~HasStrayConnection(n)
  /\ alive' = alive \cup {n}
  /\ IF info[n].prev # n
       THEN Begin(t, Frame("join", "call", n, info[n].prev, n))
       ELSE UNCHANGED calls
  /\ UNCHANGED << info, clients >>

-----------------------------------------------------------------------------
(* The specification.                                                      *)

\* One step of a request in progress.
RingStep(t) ==
  \/ TellNeighbor(t)
  \/ CallJoining(t) \/ EnterJoining(t) \/ RepairBeforeJoin(t)
  \/ CopyNeighbors(t) \/ InsertNext(t) \/ InstallNeighbors(t)
  \/ CallLeaving(t) \/ CopyLeaving(t) \/ EndLeaving(t) \/ BecomeAlone(t)
  \/ EnterMissing(t) \/ ForgetMissing(t) \/ Unlink(t)
  \/ Relink(t) \/ Linked(t) \/ PassMissing(t)
  \/ CopyNext(t) \/ SendMessage(t) \/ RepairAfterFailure(t)
  \/ ReceiveQuery(t) \/ Unanswered(t) \/ EndQuery(t)

\* Every node starts as a ring of its own.
RingInit ==
  /\ calls = [t \in Task |-> << >>]
  /\ info = [n \in Node |-> Alone(n)]
  /\ alive = Node
  /\ clients = [n \in Node |-> [o \in Node |-> "none"]]

RingNext ==
  \/ \E t \in Task :
       \/ \E n, o \in Node : StartJoin(t, n, o)
       \/ \E n \in Node : StartLeave(t, n) \/ StartQuery(t, n) \/ Revive(t, n)
       \/ RingStep(t)
  \/ \E n \in Node : Kill(n)

RingSpec == RingInit /\ [][RingNext]_ringVars

\* tokio polls a task that can run: an accepted request takes its next step.
\* A deadline passes: a message does not go round for ever.
Fairness ==
  \A t \in Task :
    /\ WF_ringVars(RingStep(t))
    /\ SF_ringVars(QueryUnanswered(t))
    /\ SF_ringVars(RepairUnanswered(t))

-----------------------------------------------------------------------------
(* What the ring promises.                                                 *)

\* Type invariant.
RingTypeOK ==
  /\ calls \in [Task -> Seq(RingFrame)]
  /\ info \in [Node -> [next : Node, nnext : Node, prev : Node]]
  /\ alive \in SUBSET Node
  /\ clients \in [Node -> [Node -> {"none", "open", "closed"}]]

\* Between requests the neighbors agree: each node is the prev of its next
\* and the next of its prev, and its nnext is the next of its next.  So they
\* do after any series of joins, leaves, crashes, repairs and revivals, each
\* of which sets the fields of up to four nodes one by one.
RingAgrees ==
  (\A t \in Task : Idle(t)) =>
    \A n \in Member :
      /\ info[info[n].next].prev = n
      /\ info[info[n].prev].next = n
      /\ info[n].nnext = info[info[n].next].next

\* A message that does not reach the next node makes the ring heal itself
\* (README.md:7): after repair_topology the next node is one that runs.
RepairHeals ==
  \A t \in Task : At(t, "query", "repaired") => info[Top(t).at].next \in alive

\* A call that fails tells a node that is down from one that is not
\* (README.md:102, node failure detection): the node that a sender has taken
\* out of the ring does not run, until the repair has gone round.  Connections
\* that were kept, and closed by the other end, are the danger.
OnlyDownIsMissed ==
  \A t \in Task :
    /\ Len(calls[t]) > 1
    /\ Top(t).fn = "missing"
    /\ Caller(t).pc = "repaired"
    => Top(t).arg \notin alive

\* Every request of the operator returns: no missing_node and no query goes
\* round the ring for ever.
RingRequestsReturn == \A t \in Task : ~Idle(t) ~> Idle(t)

-----------------------------------------------------------------------------
(* The order of the ring (RingOrder).                                      *)

\* The next node of each node.  One that has just been inserted learns of its
\* own from the reply of other_joining.
NextInOrder ==
  LET inserted == {Top(t) : t \in {u \in Task : At(u, "join", "install")}}
  IN  [n \in Node |->
         IF \E f \in inserted : f.at = n
           THEN (CHOOSE f \in inserted : f.at = n).next
           ELSE info[n].next]

\* A revived node that joins again is still the one that was down.
Gone ==
  (Node \ alive) \cup
  {n \in Node : \E t \in Task : \E i \in DOMAIN calls[t] :
     /\ calls[t][i].at = n
     /\ calls[t][i].fn = "leave" \/ (calls[t][i].fn = "join"
                                      /\ calls[t][i].pc # "install")}

\* A node that is gone, and is the next of none that is not, is on its own.
SuccInOrder ==
  LET present == Node \ Gone
  IN  [n \in Node |->
         IF n \in present \cup {NextInOrder[m] : m \in present}
           THEN NextInOrder[n]
           ELSE n]

Order == INSTANCE RingOrder WITH succ <- SuccInOrder, gone <- Gone

\* Every state of a join, a leave, a repair or a revival is a proper ring for
\* the messages: the nodes change their neighbors field by field, and yet the
\* ring changes at one step, by one node that may come or go.
OrderRefined == Order!OrderSpec
=============================================================================
