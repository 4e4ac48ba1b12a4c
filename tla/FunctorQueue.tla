---------------------------- MODULE FunctorQueue ----------------------------
(***************************************************************************)
(* What an EventLoop promises to the code that hands it callbacks, with no *)
(* poller, no lock and no wakeup descriptor:                               *)
(*   - a functor handed over is run exactly once, in hand-over order;      *)
(*   - callbacks run one at a time, a nested one inside its caller;        *)
(*   - as long as the loop is open, a functor that waits is run.           *)
(* The name of a functor may be used again once it has run, so the set     *)
(* Tasks bounds how many exist at a time and not how many there ever are.  *)
(***************************************************************************)
EXTENDS SequencesExt

CONSTANTS
  Tasks,   (* functors                                                     *)
  IO       (* the callback of an I/O channel, never a functor              *)

VARIABLES
  queue,   (* functors handed over and not yet started, in order           *)
  running, (* callbacks on the stack of the loop's thread, outermost first *)
  open     (* the loop has not been left                                   *)

vars == <<queue, running, open>>

Callbacks == Tasks \cup {IO}

Init ==
  /\ queue = <<>>
  /\ running = <<>>
  /\ open = TRUE

Free(t) == t \notin ToSet(queue) \cup ToSet(running)

(* Any thread hands a functor over.                                        *)
Submit(t) ==
  /\ Free(t)
  /\ queue' = Append(queue, t)
  /\ UNCHANGED <<running, open>>

(* The oldest functor starts, on an empty stack.                           *)
Start ==
  /\ open
  /\ running = <<>>
  /\ queue # <<>>
  /\ running' = <<Head(queue)>>
  /\ queue' = Tail(queue)
  /\ UNCHANGED open

(* The loop calls an I/O callback, or a running callback calls another one *)
(* in place: neither passes through the queue.                             *)
Call(t) ==
  /\ open
  /\ Free(t)
  /\ running' = Append(running, t)
  /\ UNCHANGED <<queue, open>>

Return ==
  /\ running # <<>>
  /\ running' = Front(running)
  /\ UNCHANGED <<queue, open>>

(* The loop is left; functors that still wait are never run.               *)
Close ==
  /\ running = <<>>
  /\ open' = FALSE
  /\ UNCHANGED <<queue, running>>

Next ==
  \/ \E t \in Tasks : Submit(t)
  \/ Start
  \/ \E t \in Callbacks : Call(t)
  \/ Return
  \/ Close

Spec == Init /\ [][Next]_vars

(* No functor waits for ever behind a loop that stays open.                *)
Liveness ==
  \A t \in Tasks : t \in ToSet(queue) ~> (t \in ToSet(running) \/ ~open)

=============================================================================
