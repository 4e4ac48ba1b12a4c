---------------------------- MODULE ServerThreads ----------------------------
(***************************************************************************)
(* A TcpServer from start() to the end of ~TcpServer: the main thread,     *)
(* which starts the pool, runs the base loop and accepts connections, and  *)
(* the io threads of the pool (EventLoopThread, Thread_), each of which    *)
(* runs the connections dealt out to it on an EventLoop on its own stack.  *)
(*                                                                         *)
(* Thread 0 is the main thread and its loop the base loop; thread t > 0 is *)
(* the t-th EventLoopThread of the pool.  A loop is taken at the level of  *)
(* FunctorQueue, which EventLoop implements, but keeps the rounds of       *)
(* loop(): what is dispatched, what is in the batch and what comes too     *)
(* late for it.  A connection is its place in the server, its functors and *)
(* its fd; TcpConnection has the rest of its life, EchoStream its bytes.   *)
(*                                                                         *)
(* Left out: poll timeouts (a round that finds nothing to do); the         *)
(* semaphore of Thread_::start, which is posted before the thread comes to *)
(* the loop_ that startLoop waits for in any case; a second start(), which *)
(* does nothing.  Only ~EventLoopThread quits an io loop.                  *)
(***************************************************************************)
EXTENDS Naturals, FiniteSets, SequencesExt

CONSTANTS
  MaxThreads,   (* setThreadNum's argument is at most this                 *)
  MaxConns,     (* bounds how many peers connect                           *)
  FdLimit       (* fds that are left for connections                       *)

ASSUME ServerThreadsAssumption ==
  /\ MaxThreads \in Nat
  /\ MaxConns \in Nat
  /\ FdLimit \in Nat \ {0}

VARIABLES
  numThread,    (* _numThread                                              *)
  loops,        (* _loops holds the loops of the threads 1 .. loops        *)
  next,         (* _next                                                   *)
  joined,       (* EventLoopThreads destroyed: the threads 1 .. joined     *)
  at,           (* where each thread is                                    *)
  quit,         (* quit_ of its loop                                       *)
  queue,        (* pendingFunctors_                                        *)
  batch,        (* doPendingFunctors' local vector, run or not             *)
  ran,          (* how many of batch have been run                         *)
  active,       (* activeChannels_ not yet dispatched                      *)
  listening,    (* the listening channel is enabled                        *)
  arrived,      (* peers 1 .. arrived have connected                       *)
  nextConnId,   (* the connections up to this one have been accepted       *)
  conn,         (* what has become of each connection                      *)
  peer,         (* its peer is "open" or "closed"                          *)
  ioLoop,       (* the loop that serves it                                 *)
  connections   (* TcpServer::connections                                  *)

pool   == <<numThread, loops, next, joined>>
rounds == <<batch, ran, active>>
net    == <<listening, arrived, peer>>
server == <<nextConnId, conn, ioLoop, connections>>
vars   == <<pool, at, quit, queue, rounds, net, server>>

Threads == 1 .. MaxThreads
Loops   == 0 .. MaxThreads
Conns   == 1 .. MaxConns
Acceptor == 0    \* the listening channel, among the channels of connections

InLoop    == {"test", "poll", "dispatch", "functors"}
Published == {"published"} \cup InLoop \cup {"left"}   \* loop_ is not nullptr
Alive     == Published \cup {"cleared"}                \* its EventLoop exists

Init ==
  /\ numThread \in 0 .. MaxThreads    \* setThreadNum, before start()
  /\ loops = 0
  /\ next = 0
  /\ joined = 0
  /\ at = [t \in Loops |-> IF t = 0 THEN "start" ELSE "unborn"]
  /\ quit = [t \in Loops |-> FALSE]
  /\ queue = [t \in Loops |-> <<>>]
  /\ batch = [t \in Loops |-> <<>>]
  /\ ran = [t \in Loops |-> 0]
  /\ active = [t \in Loops |-> {}]
  /\ listening = FALSE
  /\ arrived = 0
  /\ nextConnId = 1
  /\ conn = [c \in Conns |-> "none"]
  /\ peer = [c \in Conns |-> "open"]
  /\ ioLoop = [c \in Conns |-> 0]
  /\ connections = {}

Functor(f, c) == [run |-> f, conn |-> c]

(* queueInLLoop; its wakeup is EventLoop's concern.                        *)
Queued(t, f) == [queue EXCEPT ![t] = Append(@, f)]

(* Somebody has a shared pointer to the connection.  The last one to drop  *)
(* it runs ~TcpConnection, and ~Socket closes its fd.                      *)
Referenced(c) ==
  \/ c \in connections
  \/ \E t \in Loops : \E f \in ToSet(queue[t] \o batch[t]) : f.conn = c

FdFree == Cardinality({c \in Conns : Referenced(c)}) < FdLimit

Waiting == nextConnId <= arrived    \* somebody is in the backlog

-----------------------------------------------------------------------------
(* The main thread: start().                                               *)

(* The pool's loop over its threads is over.                               *)
PoolStarted == loops = numThread

(* Thread_::start: the thread of the next EventLoopThread.                 *)
SpawnThread ==
  /\ at[0] = "start"
  /\ ~PoolStarted
  /\ at' = [at EXCEPT ![0] = "await", ![loops + 1] = "spawned"]
  /\ UNCHANGED <<pool, quit, queue, rounds, net, server>>

(* Mutant: the wait for the condition has no predicate.                    *)
AwaitLoopSpurious ==
  /\ at[0] = "await"
  /\ loops' = loops + 1
  /\ at' = [at EXCEPT ![0] = "start"]
  /\ UNCHANGED <<numThread, next, joined, quit, queue, rounds, net, server>>

(* startLoop's wait for loop_, and the push to _loops.                     *)
AwaitLoop ==
  /\ at[0] = "await"
  /\ at[loops + 1] \in Published
  /\ loops' = loops + 1
  /\ at' = [at EXCEPT ![0] = "start"]
  /\ UNCHANGED <<numThread, next, joined, quit, queue, rounds, net, server>>

(* runInLoop(Acceptor::listen), on the base loop's thread: in place.       *)
Listen ==
  /\ at[0] = "start"
  /\ PoolStarted
  /\ listening' = TRUE
  /\ at' = [at EXCEPT ![0] = "published"]
  /\ UNCHANGED <<pool, quit, queue, rounds, arrived, peer, server>>

-----------------------------------------------------------------------------
(* Every thread: loop().                                                   *)

EnterLoop(t) ==
  /\ at[t] = "published"
  /\ quit' = [quit EXCEPT ![t] = FALSE]
  /\ at' = [at EXCEPT ![t] = "test"]
  /\ UNCHANGED <<pool, queue, rounds, net, server>>

TestQuit(t) ==
  /\ at[t] = "test"
  /\ at' = [at EXCEPT ![t] = IF quit[t] THEN "left" ELSE "poll"]
  /\ UNCHANGED <<pool, quit, queue, rounds, net, server>>

(* The channels that epoll reports, level-triggered.                       *)
Ready(t) ==
  {c \in Conns : ioLoop[c] = t /\ conn[c] = "connected" /\ peer[c] = "closed"}
    \cup (IF t = 0 /\ listening /\ Waiting THEN {Acceptor} ELSE {})

(* The eventfd has been written: for functors, or by quit(), which sets    *)
(* quit_ first.                                                            *)
Woken(t) == queue[t] # <<>> \/ (quit[t] /\ at[0] # "wakeup")

PollReturn(t) ==
  /\ at[t] = "poll"
  /\ Ready(t) # {} \/ Woken(t)
  /\ active' = [active EXCEPT ![t] = Ready(t)]
  /\ at' = [at EXCEPT ![t] = "dispatch"]
  /\ UNCHANGED <<pool, quit, queue, batch, ran, net, server>>

SwapPendingFunctors(t) ==
  /\ at[t] = "dispatch"
  /\ active[t] = {}
  /\ batch' = [batch EXCEPT ![t] = queue[t]]
  /\ queue' = [queue EXCEPT ![t] = <<>>]
  /\ at' = [at EXCEPT ![t] = "functors"]
  /\ UNCHANGED <<pool, quit, ran, active, net, server>>

(* Mutant: the connection stays in the map.                                *)
RemoveConnectionKeepsEntry(c) ==
  /\ queue' = Queued(ioLoop[c], Functor("connectDestroyed", c))
  /\ UNCHANGED connections

RemoveConnectionInPool(c) ==
  /\ connections' = connections \ {c}
  /\ queue' = Queued(ioLoop[c], Functor("connectDestroyed", c))

RunFunctor(t) ==
  /\ at[t] = "functors"
  /\ ran[t] < Len(batch[t])
  /\ ran' = [ran EXCEPT ![t] = @ + 1]
  /\ LET c == batch[t][ran[t] + 1].conn
         f == batch[t][ran[t] + 1].run
     IN  \/ /\ f = "connectEstablished"
            /\ conn' = [conn EXCEPT ![c] = "connected"]
            /\ UNCHANGED <<queue, connections>>
         \/ /\ f = "connectDestroyed"
            /\ conn' = [conn EXCEPT ![c] = "destroyed"]
            /\ UNCHANGED <<queue, connections>>
         \/ /\ f = "removeConnectionInPool"
            /\ RemoveConnectionInPool(c)
            /\ UNCHANGED conn
  /\ UNCHANGED <<pool, at, quit, batch, active, net, nextConnId, ioLoop>>

EndPendingFunctors(t) ==
  /\ at[t] = "functors"
  /\ ran[t] = Len(batch[t])
  /\ batch' = [batch EXCEPT ![t] = <<>>]
  /\ ran' = [ran EXCEPT ![t] = 0]
  /\ at' = [at EXCEPT ![t] = "test"]
  /\ UNCHANGED <<pool, quit, queue, active, net, server>>

(* handleClose and the server's close callback: removeConnection hands the *)
(* connection to the base loop, in place on that loop's own thread.        *)
HandleClose(t, c) ==
  /\ at[t] = "dispatch"
  /\ c \in active[t]
  /\ active' = [active EXCEPT ![t] = @ \ {c}]
  /\ conn' = [conn EXCEPT ![c] = "disconnected"]
  /\ IF t = 0
     THEN RemoveConnectionInPool(c)
     ELSE /\ queue' = Queued(0, Functor("removeConnectionInPool", c))
          /\ UNCHANGED connections
  /\ UNCHANGED <<pool, at, quit, batch, ran, net, nextConnId, ioLoop>>

-----------------------------------------------------------------------------
(* The base loop: Acceptor::handleRead, one accept for each event.         *)

GetNextLoop == IF loops = 0 THEN 0 ELSE next + 1

(* Mutant: the wrap comes one too late.                                    *)
AdvanceNextLate == IF loops = 0 \/ next + 1 > loops THEN 0 ELSE next + 1

(* Mutant: _next stays where it is.                                        *)
AdvanceNextForgotten == next

AdvanceNext == IF loops = 0 \/ next + 1 >= loops THEN 0 ELSE next + 1

AcceptConnection ==
  /\ at[0] = "dispatch"
  /\ Acceptor \in active[0]
  /\ FdFree
  /\ active' = [active EXCEPT ![0] = @ \ {Acceptor}]
  /\ ioLoop' = [ioLoop EXCEPT ![nextConnId] = GetNextLoop]
  /\ next' = AdvanceNext
  /\ connections' = connections \cup {nextConnId}
  /\ nextConnId' = nextConnId + 1
  /\ IF GetNextLoop = 0
     THEN conn' = [conn EXCEPT ![nextConnId] = "connected"] /\ UNCHANGED queue
     ELSE /\ conn' = [conn EXCEPT ![nextConnId] = "connecting"]
          /\ queue' = Queued(GetNextLoop,
                             Functor("connectEstablished", nextConnId))
  /\ UNCHANGED <<numThread, loops, joined, at, quit, batch, ran, net>>

(* Mutant: the listening channel is disabled to stop the spinning.         *)
AcceptFailsDisables ==
  /\ at[0] = "dispatch"
  /\ Acceptor \in active[0]
  /\ ~FdFree
  /\ active' = [active EXCEPT ![0] = @ \ {Acceptor}]
  /\ listening' = FALSE
  /\ UNCHANGED <<pool, at, quit, queue, batch, ran, arrived, peer, server>>

(* EMFILE is logged and the peer stays in the backlog.                     *)
AcceptFails ==
  /\ at[0] = "dispatch"
  /\ Acceptor \in active[0]
  /\ ~FdFree
  /\ active' = [active EXCEPT ![0] = @ \ {Acceptor}]
  /\ UNCHANGED <<pool, at, quit, queue, batch, ran, net, server>>

(* Somebody quits the base loop while it runs.                             *)
QuitBaseLoop ==
  /\ at[0] \in InLoop
  /\ quit' = [quit EXCEPT ![0] = TRUE]
  /\ UNCHANGED <<pool, at, queue, rounds, net, server>>

-----------------------------------------------------------------------------
(* The main thread, when the base loop has returned: ~TcpServer.           *)

(* runInLoop(connectDestroyed), in place for a connection of the base loop. *)
DestroyConnection(c) ==
  /\ at[0] = "left"
  /\ c \in connections
  /\ connections' = connections \ {c}
  /\ IF ioLoop[c] = 0
     THEN conn' = [conn EXCEPT ![c] = "destroyed"] /\ UNCHANGED queue
     ELSE /\ queue' = Queued(ioLoop[c], Functor("connectDestroyed", c))
          /\ UNCHANGED conn
  /\ UNCHANGED <<pool, at, quit, rounds, net, nextConnId, ioLoop>>

(* Mutant: the loop is woken and not told to quit.                         *)
QuitLoopForgets ==
  /\ at[0] = "left"
  /\ connections = {}
  /\ joined < numThread
  /\ at' = [at EXCEPT ![0] = "wakeup"]
  /\ UNCHANGED <<pool, quit, queue, rounds, net, server>>

(* ~EventLoopThread of the next thread finds loop_ set, as it always is by *)
(* LoopsOutliveCallers, and begins quit().                                 *)
QuitLoop ==
  /\ at[0] = "left"
  /\ connections = {}
  /\ joined < numThread
  /\ quit' = [quit EXCEPT ![joined + 1] = TRUE]
  /\ at' = [at EXCEPT ![0] = "wakeup"]
  /\ UNCHANGED <<pool, queue, rounds, net, server>>

(* The end of quit().  The loop may have seen quit_ and be gone already:   *)
(* then the eight bytes go to a closed fd.                                 *)
WakeupLoop ==
  /\ at[0] = "wakeup"
  /\ at' = [at EXCEPT ![0] = "join"]
  /\ UNCHANGED <<pool, quit, queue, rounds, net, server>>

Join ==
  /\ at[0] = "join"
  /\ at[joined + 1] = "ended"
  /\ joined' = joined + 1
  /\ at' = [at EXCEPT ![0] = "left"]
  /\ UNCHANGED <<numThread, loops, next, quit, queue, rounds, net, server>>

(* ~Acceptor, and the base loop's end with what is pending there.          *)
EndServer ==
  /\ at[0] = "left"
  /\ connections = {}
  /\ joined = numThread
  /\ listening' = FALSE
  /\ queue' = [queue EXCEPT ![0] = <<>>]
  /\ at' = [at EXCEPT ![0] = "ended"]
  /\ UNCHANGED <<pool, quit, rounds, arrived, peer, server>>

-----------------------------------------------------------------------------
(* The io threads: threadFunc around loop().                               *)

(* The EventLoop is constructed, the thread-init callback has returned,    *)
(* and loop_ is set under the mutex.                                       *)
PublishLoop(t) ==
  /\ at[t] = "spawned"
  /\ at' = [at EXCEPT ![t] = "published"]
  /\ UNCHANGED <<pool, quit, queue, rounds, net, server>>

ClearLoop(t) ==
  /\ at[t] = "left"
  /\ at' = [at EXCEPT ![t] = "cleared"]
  /\ UNCHANGED <<pool, quit, queue, rounds, net, server>>

(* ~EventLoop: what is pending is never run.                               *)
DestroyLoop(t) ==
  /\ at[t] = "cleared"
  /\ queue' = [queue EXCEPT ![t] = <<>>]
  /\ at' = [at EXCEPT ![t] = "ended"]
  /\ UNCHANGED <<pool, quit, rounds, net, server>>

-----------------------------------------------------------------------------
(* The peers.                                                              *)

PeerConnects ==
  /\ listening
  /\ arrived < MaxConns
  /\ arrived' = arrived + 1
  /\ UNCHANGED <<pool, at, quit, queue, rounds, listening, peer, server>>

PeerCloses(c) ==
  /\ c < nextConnId
  /\ peer[c] = "open"
  /\ peer' = [peer EXCEPT ![c] = "closed"]
  /\ UNCHANGED <<pool, at, quit, queue, rounds, listening, arrived, server>>

-----------------------------------------------------------------------------

LoopStep(t) ==
  \/ EnterLoop(t) \/ TestQuit(t) \/ PollReturn(t)
  \/ SwapPendingFunctors(t) \/ RunFunctor(t) \/ EndPendingFunctors(t)
  \/ \E c \in Conns : HandleClose(t, c)

StartServer == SpawnThread \/ AwaitLoop \/ Listen

DestroyServer ==
  \/ \E c \in Conns : DestroyConnection(c)
  \/ QuitLoop \/ WakeupLoop \/ Join \/ EndServer

MainStep ==
  \/ StartServer
  \/ LoopStep(0) \/ AcceptConnection \/ AcceptFails
  \/ DestroyServer

ThreadStep(t) == PublishLoop(t) \/ LoopStep(t) \/ ClearLoop(t) \/ DestroyLoop(t)

Next ==
  \/ MainStep
  \/ \E t \in Threads : ThreadStep(t)
  \/ QuitBaseLoop
  \/ PeerConnects
  \/ \E c \in Conns : PeerCloses(c)

(* Every thread is scheduled.  Nobody has to connect, to close or to quit. *)
Fairness == WF_vars(MainStep) /\ \A t \in Threads : WF_vars(ThreadStep(t))

SafeSpec == Init /\ [][Next]_vars
Spec == SafeSpec /\ Fairness

-----------------------------------------------------------------------------
(* Properties.                                                             *)

FunctorType ==
  [run  : {"connectEstablished", "connectDestroyed", "removeConnectionInPool"},
   conn : Conns]

(* Every variable keeps its type; _next is always the index of a loop.     *)
TypeOK ==
  /\ numThread \in 0 .. MaxThreads
  /\ loops \in 0 .. numThread
  /\ next \in Nat /\ (next < loops \/ next = 0)
  /\ joined \in 0 .. loops
  /\ at \in [Loops -> Alive \cup {"start", "await", "wakeup", "join",
                                  "unborn", "spawned", "ended"}]
  /\ quit \in [Loops -> BOOLEAN]
  /\ queue \in [Loops -> Seq(FunctorType)]
  /\ batch \in [Loops -> Seq(FunctorType)]
  /\ ran \in [Loops -> Nat]
  /\ active \in [Loops -> SUBSET (Conns \cup {Acceptor})]
  /\ listening \in BOOLEAN
  /\ arrived \in 0 .. MaxConns
  /\ nextConnId \in 1 .. MaxConns + 1
  /\ conn \in [Conns -> {"none", "connecting", "connected", "disconnected",
                         "destroyed"}]
  /\ peer \in [Conns -> {"open", "closed"}]
  /\ ioLoop \in [Conns -> 0 .. loops]
  /\ connections \subseteq Conns

(* Nothing that a thread uses goes before it: the loops in _loops, which   *)
(* newConnection and ~TcpServer hand functors to and ~EventLoopThread      *)
(* quits, exist until their own EventLoopThread is destroyed, and so does  *)
(* the loop_ it reads; and when the server, its pool and the base loop     *)
(* have gone, so has every io thread that could still use them.            *)
LoopsOutliveCallers ==
  /\ \A t \in 1 .. loops :
       \/ t <= joined /\ at[t] = "ended"
       \/ t > joined /\ at[t] \in Published
       \/ t = joined + 1 /\ at[0] \in {"wakeup", "join"}
  /\ at[0] = "ended" => \A t \in Threads : at[t] \in {"unborn", "ended"}

(* What a loop has still to run, in that order.                            *)
ToRun(t) == SubSeq(batch[t], ran[t] + 1, Len(batch[t])) \o queue[t]

(* How often connectDestroyed has been or will be run on c.                *)
Destructions(c) ==
  LET todo == ToRun(ioLoop[c])
  IN  Cardinality({i \in DOMAIN todo : todo[i] = Functor("connectDestroyed", c)})
        + (IF conn[c] = "destroyed" THEN 1 ELSE 0)

(* A connection that is not in the map has been handed to connectDestroyed *)
(* once and only once, by removeConnectionInPool or by ~TcpServer, however *)
(* a peer's close and the end of the server fall together: it has been     *)
(* run, or it is pending, or the loop that should run it was left first.   *)
DestroyedOnce ==
  \A c \in 1 .. nextConnId - 1 :
    /\ Destructions(c) <= 1
    /\ Destructions(c) = 0 <=> c \in connections \/
         (conn[c] # "destroyed" /\ at[ioLoop[c]] = "ended")

(* The io loops share the connections evenly, in whatever order they end.  *)
Balanced ==
  LET Dealt(t) == Cardinality({c \in 1 .. nextConnId - 1 : ioLoop[c] = t})
  IN  \A t, u \in 1 .. loops : Dealt(t) <= Dealt(u) + 1

(* ~TcpServer returns with every io thread joined, if they have all come   *)
(* into loop() by the time it starts (a quit() before that is reset).      *)
StopCompletes ==
  at[0] = "left" /\ (\A t \in 1 .. loops : at[t] # "published") ~> at[0] = "ended"

(* Running out of fds is got over: as soon as there is an fd, or a         *)
(* connection whose peer has closed will give one back, the peer at the    *)
(* head of the backlog is accepted, unless the base loop is left.          *)
HeadOfBacklogAccepted ==
  \A c \in Conns :
    /\ nextConnId = c /\ Waiting
    /\ FdFree \/ \E d \in Conns : Referenced(d) /\ peer[d] = "closed"
    ~> nextConnId > c \/ quit[0] \/ at[0] = "ended"

=============================================================================
