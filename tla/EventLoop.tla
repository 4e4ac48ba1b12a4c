----------------------------- MODULE EventLoop -----------------------------
(***************************************************************************)
(* One EventLoop (ZEventLoop/event_loop.cpp): the thread that runs loop(), *)
(* and client threads that hand it functors or ask it to quit.             *)
(*                                                                         *)
(* The loop's thread repeats: test quit_; block in poll; dispatch the      *)
(* active channels; drain the pending functors.  Clients append under the  *)
(* mutex and then write to the wakeup eventfd, as two steps that may have  *)
(* anything between them.                                                  *)
(*                                                                         *)
(* Abstracted: the eventfd's counter is "zero or not" (a read resets it);  *)
(* all I/O channels are one level-triggered source, ioReady; the mutex is  *)
(* the atomicity of the append and of the swap.  looping_ is left out, as  *)
(* nothing reads it.                                                       *)
(***************************************************************************)
EXTENDS Naturals, SequencesExt

CONSTANTS
  Clients,            (* threads other than the loop's own                 *)
  Tasks,              (* functors; bounds how many exist at a time         *)
  IO,                 (* the callback of the I/O channels                  *)
  MaxDepth,           (* bound on the nesting of runInLoop calls           *)
  InitCallbackQueues  (* the thread-init callback, which runs on the       *)
                      (* loop's thread before loop(), queues functors      *)

ASSUME EventLoopAssumption ==
  /\ IO \notin Tasks
  /\ MaxDepth \in Nat \ {0}
  /\ InitCallbackQueues \in BOOLEAN

VARIABLES
  pc,        (* where the loop's thread is                                 *)
  quit,      (* quit_                                                      *)
  calling,   (* callingPendingFunctors_                                    *)
  pending,   (* pendingFunctors_                                           *)
  functors,  (* what is left of doPendingFunctors' local vector            *)
  stack,     (* callbacks on the loop thread's stack, outermost first      *)
  wakeupFd,  (* the eventfd's counter is not zero                          *)
  ioReady,   (* some I/O channel is ready                                  *)
  active,    (* activeChannels_ not yet dispatched                         *)
  clientPc   (* where each client is: "idle", or before its wakeup()       *)

vars == <<pc, quit, calling, pending, functors, stack, wakeupFd, ioReady,
          active, clientPc>>

Callbacks == Tasks \cup {IO}

Init ==
  /\ pc = "created"
  /\ quit = FALSE
  /\ calling = FALSE
  /\ pending = <<>>
  /\ functors = <<>>
  /\ stack = <<>>
  /\ wakeupFd = FALSE
  /\ ioReady = FALSE
  /\ active = {}
  /\ clientPc = [c \in Clients |-> "idle"]

(* A functor that is not handed over at the moment.                        *)
Free(t) == t \notin ToSet(functors \o pending) \cup ToSet(stack)

ReadyChannels ==
  {ch \in {"wakeup", "io"} : IF ch = "wakeup" THEN wakeupFd ELSE ioReady}

-----------------------------------------------------------------------------
(* loop(), on the loop's thread.                                           *)

EnterLoop ==
  /\ pc = "created"
  /\ quit' = FALSE
  /\ pc' = "test"
  /\ UNCHANGED <<calling, pending, functors, stack, wakeupFd, ioReady, active,
                 clientPc>>

TestQuit ==
  /\ pc = "test"
  /\ pc' = IF quit THEN "stopped" ELSE "poll"
  /\ UNCHANGED <<quit, calling, pending, functors, stack, wakeupFd, ioReady,
                 active, clientPc>>

PollReturn ==
  /\ pc = "poll"
  /\ ReadyChannels # {}
  /\ active' = ReadyChannels
  /\ pc' = "dispatch"
  /\ UNCHANGED <<quit, calling, pending, functors, stack, wakeupFd, ioReady,
                 clientPc>>

(* KPollTimeMs passes, or a signal interrupts epoll_wait: only while       *)
(* nothing is ready, since epoll_wait reports ready events first.          *)
PollTimeout ==
  /\ pc = "poll"
  /\ ReadyChannels = {}
  /\ pc' = "dispatch"
  /\ UNCHANGED <<quit, calling, pending, functors, stack, wakeupFd, ioReady,
                 active, clientPc>>

(* wakeupChannel_'s read callback.                                         *)
HandleRead ==
  /\ pc = "dispatch"
  /\ stack = <<>>
  /\ "wakeup" \in active
  /\ active' = active \ {"wakeup"}
  /\ wakeupFd' = FALSE
  /\ UNCHANGED <<pc, quit, calling, pending, functors, stack, ioReady, clientPc>>

(* Mutant: the handler is put among the pending functors.                  *)
HandleIODeferred ==
  /\ pc = "dispatch"
  /\ stack = <<>>
  /\ "io" \in active
  /\ active' = active \ {"io"}
  /\ ioReady' = FALSE
  /\ pending' = Append(pending, IO)
  /\ UNCHANGED <<pc, quit, calling, functors, stack, wakeupFd, clientPc>>

(* Any other channel's handleEvent starts; it consumes what was ready.     *)
HandleIO ==
  /\ pc = "dispatch"
  /\ stack = <<>>
  /\ "io" \in active
  /\ active' = active \ {"io"}
  /\ ioReady' = FALSE
  /\ stack' = <<IO>>
  /\ UNCHANGED <<pc, quit, calling, pending, functors, wakeupFd, clientPc>>

BeginPendingFunctors ==
  /\ pc = "dispatch"
  /\ stack = <<>>
  /\ active = {}
  /\ calling' = TRUE
  /\ pc' = "swap"
  /\ UNCHANGED <<quit, pending, functors, stack, wakeupFd, ioReady, active,
                 clientPc>>

(* Mutant: the pending functors are copied and not swapped out.            *)
CopyPendingFunctors ==
  /\ pc = "swap"
  /\ functors' = pending
  /\ pc' = "run"
  /\ UNCHANGED <<quit, calling, pending, stack, wakeupFd, ioReady, active, clientPc>>

SwapPendingFunctors ==
  /\ pc = "swap"
  /\ functors' = pending
  /\ pending' = <<>>
  /\ pc' = "run"
  /\ UNCHANGED <<quit, calling, stack, wakeupFd, ioReady, active, clientPc>>

RunFunctor ==
  /\ pc = "run"
  /\ stack = <<>>
  /\ functors # <<>>
  /\ stack' = <<Head(functors)>>
  /\ functors' = Tail(functors)
  /\ UNCHANGED <<pc, quit, calling, pending, wakeupFd, ioReady, active, clientPc>>

(* The innermost callback on the loop's thread returns.                    *)
Return ==
  /\ stack # <<>>
  /\ stack' = Front(stack)
  /\ UNCHANGED <<pc, quit, calling, pending, functors, wakeupFd, ioReady,
                 active, clientPc>>

(* Mutant: functors queued by the batch are run before polling again.      *)
DrainPendingFunctors ==
  /\ pc = "run"
  /\ stack = <<>>
  /\ functors = <<>>
  /\ calling' = (pending # <<>>)
  /\ pc' = IF pending # <<>> THEN "swap" ELSE "test"
  /\ UNCHANGED <<quit, pending, functors, stack, wakeupFd, ioReady, active,
                 clientPc>>

EndPendingFunctors ==
  /\ pc = "run"
  /\ stack = <<>>
  /\ functors = <<>>
  /\ calling' = FALSE
  /\ pc' = "test"
  /\ UNCHANGED <<quit, pending, functors, stack, wakeupFd, ioReady, active,
                 clientPc>>

-----------------------------------------------------------------------------
(* Calls made by code that runs on the loop's thread: inside a callback,   *)
(* or in the thread-init callback before loop().                           *)

OnLoopThread ==
  \/ stack # <<>>
  \/ pc = "created" /\ InitCallbackQueues

(* Mutant: only other threads wake the loop.                               *)
LoopQueueNoWakeup(t) ==
  /\ OnLoopThread
  /\ Free(t)
  /\ pending' = Append(pending, t)
  /\ UNCHANGED <<pc, quit, calling, functors, stack, wakeupFd, ioReady, active,
                 clientPc>>

(* queueInLLoop: the loop's thread wakes itself only while it is calling.  *)
LoopQueue(t) ==
  /\ OnLoopThread
  /\ Free(t)
  /\ pending' = Append(pending, t)
  /\ wakeupFd' = (wakeupFd \/ calling)
  /\ UNCHANGED <<pc, quit, calling, functors, stack, ioReady, active, clientPc>>

(* runInLoop: called in place.                                             *)
LoopRun(t) ==
  /\ stack # <<>>
  /\ Len(stack) < MaxDepth
  /\ Free(t)
  /\ stack' = Append(stack, t)
  /\ UNCHANGED <<pc, quit, calling, pending, functors, wakeupFd, ioReady,
                 active, clientPc>>

LoopQuit ==
  /\ OnLoopThread
  /\ quit' = TRUE
  /\ UNCHANGED <<pc, calling, pending, functors, stack, wakeupFd, ioReady,
                 active, clientPc>>

-----------------------------------------------------------------------------
(* Calls made by the clients.                                              *)

(* queueInLLoop, and runInLoop from another thread: the locked append.     *)
Push(c, t) ==
  /\ clientPc[c] = "idle"
  /\ Free(t)
  /\ pending' = Append(pending, t)
  /\ clientPc' = [clientPc EXCEPT ![c] = "pushed"]
  /\ UNCHANGED <<pc, quit, calling, functors, stack, wakeupFd, ioReady, active>>

(* Mutant: quit() relies on poll to return by itself.                      *)
QuitNoWakeup(c) ==
  /\ clientPc[c] = "idle"
  /\ quit' = TRUE
  /\ UNCHANGED <<pc, calling, pending, functors, stack, wakeupFd, ioReady, active,
                 clientPc>>

Quit(c) ==
  /\ clientPc[c] = "idle"
  /\ quit' = TRUE
  /\ clientPc' = [clientPc EXCEPT ![c] = "quitting"]
  /\ UNCHANGED <<pc, calling, pending, functors, stack, wakeupFd, ioReady, active>>

(* The wakeup() that ends both calls.                                      *)
Wakeup(c) ==
  /\ clientPc[c] # "idle"
  /\ wakeupFd' = TRUE
  /\ clientPc' = [clientPc EXCEPT ![c] = "idle"]
  /\ UNCHANGED <<pc, quit, calling, pending, functors, stack, ioReady, active>>

(* The peer of some I/O channel makes it ready.                            *)
IOArrives ==
  /\ ~ioReady
  /\ ioReady' = TRUE
  /\ UNCHANGED <<pc, quit, calling, pending, functors, stack, wakeupFd, active,
                 clientPc>>

-----------------------------------------------------------------------------

LoopStep ==
  \/ EnterLoop \/ TestQuit \/ PollReturn \/ HandleRead \/ HandleIO
  \/ BeginPendingFunctors \/ SwapPendingFunctors \/ RunFunctor
  \/ EndPendingFunctors

LoopCall ==
  \/ \E t \in Tasks : LoopQueue(t) \/ LoopRun(t)
  \/ LoopQuit

ClientStep(c) == Wakeup(c) \/ Quit(c) \/ \E t \in Tasks : Push(c, t)

Next ==
  \/ LoopStep
  \/ PollTimeout
  \/ Return
  \/ LoopCall
  \/ \E c \in Clients : ClientStep(c)
  \/ IOArrives

(* The loop's thread is scheduled, every callback returns (strong, because *)
(* a nested call disables the outer return for a while), and a client that *)
(* has appended or set quit_ goes on to its wakeup().  Poll timeouts are   *)
(* not fair: nothing below relies on the ten seconds.                      *)
ReturnOutermost == Len(stack) = 1 /\ Return

Fairness ==
  /\ WF_vars(LoopStep)
  /\ WF_vars(Return)
  /\ SF_vars(ReturnOutermost)
  /\ \A c \in Clients : WF_vars(Wakeup(c))

SafeSpec == Init /\ [][Next]_vars
Spec == SafeSpec /\ Fairness

-----------------------------------------------------------------------------
(* Properties.                                                             *)

(* Every variable keeps its type; in particular the loop's thread runs I/O *)
(* callbacks only as the outermost callback, and clients are only ever     *)
(* between the two halves of queueInLLoop() or quit().                     *)
TypeOK ==
  /\ pc \in {"created", "test", "poll", "dispatch", "swap", "run", "stopped"}
  /\ quit \in BOOLEAN
  /\ calling \in BOOLEAN
  /\ pending \in Seq(Tasks)
  /\ functors \in Seq(Tasks)
  /\ stack \in Seq(Callbacks)
  /\ wakeupFd \in BOOLEAN
  /\ ioReady \in BOOLEAN
  /\ active \subseteq {"wakeup", "io"}
  /\ clientPc \in [Clients -> {"idle", "pushed", "quitting"}]

(* queueInLLoop's promise: poll never sleeps on a pending functor.  While  *)
(* the loop's thread is in poll and a functor is pending, the eventfd is   *)
(* readable or some client is on its way to write it.                      *)
NoLostWakeup ==
  pc = "poll" /\ pending # <<>> =>
    wakeupFd \/ \E c \in Clients : clientPc[c] = "pushed"

(* quit()'s promise: poll never sleeps on a request to quit.               *)
NoLostQuit ==
  pc = "poll" /\ quit =>
    wakeupFd \/ \E c \in Clients : clientPc[c] = "quitting"

(* Functors are run exactly once, in hand-over order and one callback at a *)
(* time: queueInLLoop, runInLoop and doPendingFunctors implement           *)
(* FunctorQueue, under the mapping that joins what is left of the batch    *)
(* with what is pending.                                                   *)
Queue == INSTANCE FunctorQueue WITH
           queue   <- functors \o pending,
           running <- stack,
           open    <- pc # "stopped"

ImplementsFunctorQueue == Queue!Spec

(* Every functor handed to queueInLLoop is run unless the loop stops, with *)
(* no help from the poll timeout.                                          *)
FunctorsRun == Queue!Liveness

(* A quit() made while loop() is running is honoured: the loop stops, even *)
(* if poll has nothing else to report.                                     *)
QuitHonoured == quit /\ pc # "created" ~> pc = "stopped"

(* The swap in doPendingFunctors keeps functors that queue functors from   *)
(* keeping the loop's thread away from its channels: ready I/O is handled, *)
(* however long the functors go on.                                        *)
IoNotStarved == ioReady ~> (~ioReady \/ pc = "stopped")

=============================================================================
