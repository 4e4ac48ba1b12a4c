-------------------------- MODULE EventLoopProofs --------------------------
(***************************************************************************)
(* What EventLoop guarantees for any number of clients and functors.       *)
(***************************************************************************)
EXTENDS EventLoop, SequenceLemmas

(***************************************************************************)
(* Taking the last element off a sequence leaves a sequence.               *)
(***************************************************************************)
LEMMA FrontIsSeq ==
  ASSUME NEW S, NEW s \in Seq(S), s # <<>>
  PROVE  Front(s) \in Seq(S)
BY DEF Front

(* Functors and the I/O callback may both be on the loop thread's stack.   *)
LEMMA CallbackTypes == IO \in Callbacks /\ Tasks \subseteq Callbacks
BY DEF Callbacks

(***************************************************************************)
(* Every step of the loop's thread and of the clients keeps the types: the *)
(* code of event_loop.cpp puts only functors among the pending functors.   *)
(***************************************************************************)
THEOREM TypeCorrect == Spec => []TypeOK
<1>1. Init => TypeOK
  <2>1. <<>> \in Seq(Tasks) /\ <<>> \in Seq(Callbacks)
    BY EmptySeq
  <2>2. QED
    BY <2>1 DEF Init, TypeOK
<1>2. TypeOK /\ [Next]_vars => TypeOK'
  <2> SUFFICES ASSUME TypeOK, [Next]_vars
               PROVE  TypeOK'
    OBVIOUS
  <2> USE DEF TypeOK
  <2>1. CASE EnterLoop
    BY <2>1 DEF EnterLoop
  <2>2. CASE TestQuit
    BY <2>2 DEF TestQuit
  <2>3. CASE PollReturn
    BY <2>3 DEF PollReturn, ReadyChannels
  <2>4. CASE PollTimeout
    BY <2>4 DEF PollTimeout
  <2>5. CASE HandleRead
    BY <2>5 DEF HandleRead
  <2>6. CASE HandleIO
    <3>1. <<IO>> \in Seq(Callbacks)
      BY CallbackTypes
    <3>2. QED
      BY <2>6, <3>1 DEF HandleIO
  <2>7. CASE BeginPendingFunctors
    BY <2>7 DEF BeginPendingFunctors
  <2>8. CASE SwapPendingFunctors
    BY <2>8 DEF SwapPendingFunctors
  <2>9. CASE RunFunctor
    BY <2>9, CallbackTypes DEF RunFunctor
  <2>10. CASE EndPendingFunctors
    BY <2>10 DEF EndPendingFunctors
  <2>11. CASE Return
    BY <2>11, FrontIsSeq DEF Return
  <2>12. CASE LoopCall
    <3>1. ASSUME NEW t \in Tasks, LoopQueue(t)
          PROVE  TypeOK'
      BY <3>1 DEF LoopQueue
    <3>2. ASSUME NEW t \in Tasks, LoopRun(t)
          PROVE  TypeOK'
      BY <3>2, CallbackTypes DEF LoopRun
    <3>3. CASE LoopQuit
      BY <3>3 DEF LoopQuit
    <3>4. QED
      BY <2>12, <3>1, <3>2, <3>3 DEF LoopCall
  <2>13. ASSUME NEW c \in Clients, ClientStep(c)
         PROVE  TypeOK'
    <3>1. CASE Wakeup(c)
      BY <3>1 DEF Wakeup
    <3>2. CASE Quit(c)
      BY <3>2 DEF Quit
    <3>3. ASSUME NEW t \in Tasks, Push(c, t)
          PROVE  TypeOK'
      BY <3>3 DEF Push
    <3>4. QED
      BY <2>13, <3>1, <3>2, <3>3 DEF ClientStep
  <2>14. CASE IOArrives
    BY <2>14 DEF IOArrives
  <2>15. CASE UNCHANGED vars
    BY <2>15 DEF vars
  <2>16. QED
    BY <2>1, <2>2, <2>3, <2>4, <2>5, <2>6, <2>7, <2>8, <2>9, <2>10, <2>11,
       <2>12, <2>13, <2>14, <2>15 DEF Next, LoopStep
<1>3. QED
  BY <1>1, <1>2, PTL DEF Spec, SafeSpec

-----------------------------------------------------------------------------
(***************************************************************************)
(* The inductive strengthening.  Phases ties the local state of the loop's *)
(* thread to its place in loop(): callingPendingFunctors_ is set exactly   *)
(* from the start of doPendingFunctors to its end, callbacks run only      *)
(* while channels are dispatched or functors run, and the local vector is  *)
(* empty everywhere else.  WakeupOwed is what makes the next poll return:  *)
(* from the swap on, up to that poll, a functor in pendingFunctors_ comes  *)
(* with a write to the eventfd, done or about to be done by its client.    *)
(***************************************************************************)
Phases ==
  /\ calling <=> pc \in {"swap", "run"}
  /\ stack # <<>> => pc \in {"dispatch", "run"}
  /\ functors # <<>> => pc = "run"

WakeupOwed ==
  pending # <<>> /\ pc \in {"created", "test", "poll", "run"} =>
    wakeupFd \/ \E c \in Clients : clientPc[c] = "pushed"

(***************************************************************************)
(* The thread that runs loop() goes through its phases in order, whatever  *)
(* callbacks and clients do.                                               *)
(***************************************************************************)
LEMMA PhasesInvariant == Spec => []Phases
<1>1. Init => Phases
  BY DEF Init, Phases
<1>2. Phases /\ [Next]_vars => Phases'
  <2> SUFFICES ASSUME Phases, [Next]_vars
               PROVE  Phases'
    OBVIOUS
  <2> USE DEF Phases
  <2>1. ASSUME LoopStep
        PROVE  Phases'
    BY <2>1 DEF LoopStep, EnterLoop, TestQuit, PollReturn, HandleRead,
       HandleIO, BeginPendingFunctors, SwapPendingFunctors, RunFunctor,
       EndPendingFunctors
  <2>2. CASE PollTimeout
    BY <2>2 DEF PollTimeout
  <2>3. CASE Return
    BY <2>3 DEF Return
  <2>4. CASE LoopCall
    BY <2>4 DEF LoopCall, LoopQueue, LoopRun, LoopQuit
  <2>5. ASSUME NEW c \in Clients, ClientStep(c)
        PROVE  Phases'
    BY <2>5 DEF ClientStep, Wakeup, Quit, Push
  <2>6. CASE IOArrives
    BY <2>6 DEF IOArrives
  <2>7. CASE UNCHANGED vars
    BY <2>7 DEF vars
  <2>8. QED
    BY <2>1, <2>2, <2>3, <2>4, <2>5, <2>6, <2>7 DEF Next
<1>3. QED
  BY <1>1, <1>2, PTL DEF Spec, SafeSpec

(***************************************************************************)
(* queueInLLoop's wakeup is never lost, for any number of client threads:  *)
(* the loop never sleeps in poll on a functor that nobody will wake it     *)
(* for, provided that nothing is queued on the loop's own thread before    *)
(* loop() is entered (without that the claim is false, see MCEventLoopInit). *)
(***************************************************************************)
THEOREM WakeupNotLost == ~InitCallbackQueues => (Spec => []NoLostWakeup)
<1> SUFFICES ASSUME ~InitCallbackQueues
             PROVE  Spec => []NoLostWakeup
  OBVIOUS
<1>1. Init => WakeupOwed
  BY DEF Init, WakeupOwed
<1>2. TypeOK /\ Phases /\ WakeupOwed /\ [Next]_vars => WakeupOwed'
  <2> SUFFICES ASSUME TypeOK, Phases, WakeupOwed, [Next]_vars
               PROVE  WakeupOwed'
    OBVIOUS
  <2> USE DEF WakeupOwed
  <2>1. ASSUME LoopStep
        PROVE  WakeupOwed'
    BY <2>1 DEF LoopStep, EnterLoop, TestQuit, PollReturn, HandleRead,
       HandleIO, BeginPendingFunctors, SwapPendingFunctors, RunFunctor,
       EndPendingFunctors
  <2>2. CASE PollTimeout
    BY <2>2 DEF PollTimeout
  <2>3. CASE Return
    BY <2>3 DEF Return
  <2>4. CASE LoopCall
    BY <2>4 DEF LoopCall, LoopQueue, LoopRun, LoopQuit, OnLoopThread, Phases
  <2>5. ASSUME NEW c \in Clients, ClientStep(c)
        PROVE  WakeupOwed'
    <3>1. CASE Wakeup(c)
      BY <3>1 DEF Wakeup
    <3>2. CASE Quit(c)
      BY <3>2 DEF Quit, TypeOK
    <3>3. ASSUME NEW t \in Tasks, Push(c, t)
          PROVE  WakeupOwed'
      <4>1. clientPc'[c] = "pushed"
        BY <3>3 DEF Push, TypeOK
      <4>2. QED
        BY <4>1
    <3>4. QED
      BY <2>5, <3>1, <3>2, <3>3 DEF ClientStep
  <2>6. CASE IOArrives
    BY <2>6 DEF IOArrives
  <2>7. CASE UNCHANGED vars
    BY <2>7 DEF vars
  <2>8. QED
    BY <2>1, <2>2, <2>3, <2>4, <2>5, <2>6, <2>7 DEF Next
<1>3. WakeupOwed => NoLostWakeup
  BY DEF WakeupOwed, NoLostWakeup
<1>4. QED
  BY <1>1, <1>2, <1>3, TypeCorrect, PhasesInvariant, PTL DEF Spec, SafeSpec

(***************************************************************************)
(* quit() is never slept on: the loop does not block in poll with quit_    *)
(* set unless the eventfd is readable or the client that set it is about   *)
(* to write it.  A callback that quits its own loop needs no wakeup, as    *)
(* loop() tests quit_ before it polls again.                               *)
(***************************************************************************)
THEOREM QuitNotLost == Spec => []NoLostQuit
<1>1. Init => NoLostQuit
  BY DEF Init, NoLostQuit
<1>2. TypeOK /\ Phases /\ NoLostQuit /\ [Next]_vars => NoLostQuit'
  <2> SUFFICES ASSUME TypeOK, Phases, NoLostQuit, [Next]_vars
               PROVE  NoLostQuit'
    OBVIOUS
  <2> USE DEF NoLostQuit
  <2>1. ASSUME LoopStep
        PROVE  NoLostQuit'
    BY <2>1 DEF LoopStep, EnterLoop, TestQuit, PollReturn, HandleRead,
       HandleIO, BeginPendingFunctors, SwapPendingFunctors, RunFunctor,
       EndPendingFunctors
  <2>2. CASE PollTimeout
    BY <2>2 DEF PollTimeout
  <2>3. CASE Return
    BY <2>3 DEF Return
  <2>4. CASE LoopCall
    BY <2>4 DEF LoopCall, LoopQueue, LoopRun, LoopQuit, OnLoopThread, Phases
  <2>5. ASSUME NEW c \in Clients, ClientStep(c)
        PROVE  NoLostQuit'
    <3>1. CASE Wakeup(c)
      BY <3>1 DEF Wakeup
    <3>2. CASE Quit(c)
      <4>1. clientPc'[c] = "quitting"
        BY <3>2 DEF Quit, TypeOK
      <4>2. QED
        BY <4>1
    <3>3. ASSUME NEW t \in Tasks, Push(c, t)
          PROVE  NoLostQuit'
      BY <3>3 DEF Push, TypeOK
    <3>4. QED
      BY <2>5, <3>1, <3>2, <3>3 DEF ClientStep
  <2>6. CASE IOArrives
    BY <2>6 DEF IOArrives
  <2>7. CASE UNCHANGED vars
    BY <2>7 DEF vars
  <2>8. QED
    BY <2>1, <2>2, <2>3, <2>4, <2>5, <2>6, <2>7 DEF Next
<1>3. QED
  BY <1>1, <1>2, TypeCorrect, PhasesInvariant, PTL DEF Spec, SafeSpec

-----------------------------------------------------------------------------
(***************************************************************************)
(* Facts about the joined queue, functors \o pending.                      *)
(***************************************************************************)
(* Every step keeps a functor's claim to be free of the queue in both specs. *)
LEMMA FreeIsQueueFree == \A t : Free(t) <=> Queue!Free(t)
BY DEF Free, Queue!Free, ToSet, Queue!ToSet

(* The I/O callback never waits in the joined queue.                       *)
LEMMA IoNeverQueued ==
  ASSUME TypeOK, stack = <<>>
  PROVE  Queue!Free(IO)
<1>1. functors \o pending \in Seq(Tasks)
  BY ConcatProperties DEF TypeOK
<1>2. IO \notin ToSet(functors \o pending)
  BY <1>1, EventLoopAssumption DEF ToSet
<1>3. IO \notin ToSet(stack)
  BY EmptySeq DEF ToSet
<1>4. QED
  BY <1>2, <1>3, FreeIsQueueFree DEF Free

(***************************************************************************)
(* The steps of the loop and of its clients are FunctorQueue steps: what   *)
(* queueInLLoop, runInLoop and doPendingFunctors do together runs every    *)
(* functor at most once, in hand-over order, one callback at a time.       *)
(***************************************************************************)
THEOREM RefinesFunctorQueue == Spec => ImplementsFunctorQueue
<1>1. Init => Queue!Init
  BY EmptySeq, ConcatEmptySeq DEF Init, Queue!Init
<1>2. TypeOK /\ Phases /\ [Next]_vars => [Queue!Next]_Queue!vars
  <2> SUFFICES ASSUME TypeOK, Phases, [Next]_vars
               PROVE  Queue!Next \/ UNCHANGED Queue!vars
    BY DEF Queue!vars
  <2>1. ASSUME EnterLoop \/ PollReturn \/ PollTimeout \/ HandleRead
               \/ BeginPendingFunctors \/ EndPendingFunctors \/ LoopQuit
               \/ IOArrives \/ UNCHANGED vars
        PROVE  UNCHANGED Queue!vars
    BY <2>1 DEF EnterLoop, PollReturn, PollTimeout, HandleRead,
       BeginPendingFunctors, EndPendingFunctors, LoopQuit, IOArrives, vars,
       Queue!vars
  <2>2. CASE TestQuit
    <3>1. stack = <<>>
      BY <2>2 DEF TestQuit, Phases
    <3>2. CASE quit
      BY <2>2, <3>1, <3>2 DEF TestQuit, Queue!Close, Queue!Next
    <3>3. CASE ~quit
      BY <2>2, <3>3 DEF TestQuit, Queue!vars
    <3>4. QED
      BY <3>2, <3>3
  <2>3. CASE HandleIO
    <3>1. Queue!Free(IO) /\ Append(stack, IO) = <<IO>>
      BY <2>3, IoNeverQueued DEF HandleIO
    <3>2. Queue!Call(IO)
      BY <2>3, <3>1 DEF HandleIO, Queue!Call
    <3>3. QED
      BY <3>2 DEF Queue!Next, Queue!Callbacks
  <2>4. CASE SwapPendingFunctors
    <3>1. functors = <<>>
      BY <2>4 DEF SwapPendingFunctors, Phases
    <3>2. functors' \o pending' = functors \o pending
      BY <2>4, <3>1, ConcatEmptySeq DEF SwapPendingFunctors, TypeOK
    <3>3. QED
      BY <2>4, <3>2 DEF SwapPendingFunctors, Queue!vars
  <2>5. CASE RunFunctor
    <3>1. /\ functors \o pending # <<>>
          /\ Head(functors \o pending) = Head(functors)
          /\ Tail(functors \o pending) = Tail(functors) \o pending
      BY <2>5, HeadOfJoined DEF RunFunctor, TypeOK
    <3>2. Queue!Start
      BY <2>5, <3>1 DEF RunFunctor, Queue!Start
    <3>3. QED
      BY <3>2 DEF Queue!Next
  <2>6. CASE Return
    <3>1. Queue!Return
      BY <2>6 DEF Return, Queue!Return, Front, Queue!Front
    <3>2. QED
      BY <3>1 DEF Queue!Next
  <2>7. ASSUME NEW t \in Tasks, LoopQueue(t) \/ \E c \in Clients : Push(c, t)
        PROVE  Queue!Next
    <3>1. functors \o Append(pending, t) = Append(functors \o pending, t)
      BY AppendToJoined DEF TypeOK
    <3>2. Queue!Submit(t)
      BY <2>7, <3>1, FreeIsQueueFree DEF LoopQueue, Push, Queue!Submit
    <3>3. QED
      BY <3>2 DEF Queue!Next
  <2>8. ASSUME NEW t \in Tasks, LoopRun(t)
        PROVE  Queue!Next
    <3>1. Queue!Call(t)
      BY <2>8, FreeIsQueueFree DEF LoopRun, Queue!Call, Phases
    <3>2. QED
      BY <3>1 DEF Queue!Next, Queue!Callbacks
  <2>9. ASSUME NEW c \in Clients, Wakeup(c) \/ Quit(c)
        PROVE  UNCHANGED Queue!vars
    BY <2>9 DEF Wakeup, Quit, Queue!vars
  <2>10. QED
    BY <2>1, <2>2, <2>3, <2>4, <2>5, <2>6, <2>7, <2>8, <2>9
       DEF Next, LoopStep, LoopCall, ClientStep
<1>3. QED
  BY <1>1, <1>2, TypeCorrect, PhasesInvariant, PTL
     DEF Spec, SafeSpec, ImplementsFunctorQueue, Queue!Spec

=============================================================================
