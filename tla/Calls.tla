-------------------------------- MODULE Calls --------------------------------
(***************************************************************************)
(* How a request runs.  A REST handler is a tokio task of one node.  Each  *)
(* message it sends is a tarpc call that it awaits, and the handler of the *)
(* call may await calls of its own, back to the node the request started   *)
(* from.  A request in progress is therefore a stack of suspended          *)
(* handlers, on several nodes, of which only the last one executes.        *)
(*                                                                         *)
(* A frame is a record with at least                                       *)
(*   fn  the function it executes,                                         *)
(*   pc  the step of that function it is about to take,                    *)
(*   at  the node it executes on.                                          *)
(***************************************************************************)
EXTENDS Naturals, Sequences

CONSTANTS
  Node,     \* addresses of the nodes
  Task      \* slots for REST requests that run at the same time

VARIABLE
  calls     \* calls[t]: the frames of request t, the REST handler first

Idle(t) == calls[t] = << >>

\* The frame of t that executes.
Top(t) == calls[t][Len(calls[t])]

\* Request t executes function fn and is about to take step pc.
At(t, fn, pc) == ~Idle(t) /\ Top(t).fn = fn /\ Top(t).pc = pc

\* The ways in which a step changes the stack of t: a new request, the next
\* step f of the same function, a call g after which the function goes on
\* with f, and a return whose value the caller ignores.
Begin(t, f) == calls' = [calls EXCEPT ![t] = << f >>]
Goto(t, f) == calls' = [calls EXCEPT ![t] = [@ EXCEPT ![Len(@)] = f]]
Call(t, f, g) ==
  calls' = [calls EXCEPT ![t] = Append([@ EXCEPT ![Len(@)] = f], g)]
Return(t) == calls' = [calls EXCEPT ![t] = SubSeq(@, 1, Len(@) - 1)]

\* The frame that awaits the executing frame of t, and a return that it goes
\* on from with frame f.
Caller(t) == calls[t][Len(calls[t]) - 1]
ReturnTo(t, f) ==
  calls' = [calls EXCEPT ![t] = Append(SubSeq(@, 1, Len(@) - 2), f)]
=============================================================================
