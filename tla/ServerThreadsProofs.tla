------------------------ MODULE ServerThreadsProofs ------------------------
(***************************************************************************)
(* The order in which a TcpServer's threads and loops come and go, for any *)
(* number of io threads, connections and fds.                              *)
(***************************************************************************)
EXTENDS ServerThreads, TLAPS

(* The pool's numbers.                                                     *)
PoolType ==
  /\ numThread \in 0 .. MaxThreads
  /\ loops \in 0 .. numThread
  /\ next \in Nat /\ (next < loops \/ next = 0)
  /\ joined \in 0 .. loops

Places == Alive \cup {"start", "await", "wakeup", "join", "unborn", "spawned", "ended"}

ThreadType == at \in [Loops -> Places] /\ quit \in [Loops -> BOOLEAN]

(* What each loop has.                                                     *)
LoopType ==
  /\ queue \in [Loops -> Seq(FunctorType)]
  /\ batch \in [Loops -> Seq(FunctorType)]
  /\ ran \in [Loops -> Nat]
  /\ active \in [Loops -> SUBSET (Conns \cup {Acceptor})]

ConnState == {"none", "connecting", "connected", "disconnected", "destroyed"}

(* Peers and connections.                                                  *)
ConnType ==
  /\ listening \in BOOLEAN
  /\ arrived \in 0 .. MaxConns
  /\ nextConnId \in 1 .. MaxConns + 1
  /\ conn \in [Conns -> ConnState]
  /\ peer \in [Conns -> {"open", "closed"}]
  /\ ioLoop \in [Conns -> 0 .. loops]
  /\ connections \subseteq Conns

(* An accept event that has not been handled finds somebody in the backlog. *)
AcceptIsFor == Acceptor \in active[0] => nextConnId <= arrived

(* The main thread is where the pool's numbers let it be.                  *)
MainSound ==
  /\ at[0] \in Published \cup {"start", "await", "wakeup", "join", "ended"}
  /\ at[0] = "await" => loops < numThread
  /\ at[0] \notin {"start", "await"} => loops = numThread
  /\ at[0] \in {"wakeup", "join"} => joined < numThread
  /\ at[0] = "ended" => joined = numThread

Running == {"published"} \cup InLoop

(* An io thread is joined, or it runs and has not been asked to quit, or   *)
(* it is the one being stopped, or the one being started, or not born.     *)
ThreadSound(t) ==
  \/ t <= joined /\ at[t] = "ended"
  \/ joined < t /\ t <= loops /\ at[t] \in Running /\ ~quit[t]
  \/ t = joined + 1 /\ at[0] \in {"wakeup", "join"} /\ at[t] \in Alive \cup {"ended"}
  \/ t = loops + 1 /\ at[0] = "await" /\ at[t] \in Running \cup {"spawned"} /\ ~quit[t]
  \/ t > loops /\ ~(t = loops + 1 /\ at[0] = "await") /\ at[t] = "unborn" /\ ~quit[t]

Life == PoolType /\ ThreadType /\ MainSound /\ \A t \in Threads : ThreadSound(t)

IInv == Life /\ LoopType /\ ConnType /\ AcceptIsFor

LEMMA TypeParts == TypeOK <=> PoolType /\ ThreadType /\ LoopType /\ ConnType
BY DEF TypeOK, PoolType, ThreadType, LoopType, ConnType, Places, ConnState

(* The base loop and the loops of the threads are loops.                   *)
LEMMA LoopsNamed ==
  ASSUME PoolType
  PROVE  /\ 0 \in Loops /\ Threads \subseteq Loops
         /\ \A t \in Threads : t \in Nat /\ t # 0
         /\ loops < numThread => loops + 1 \in Threads
         /\ joined < numThread => joined + 1 \in Threads
         /\ 0 .. loops \subseteq Loops
         /\ Loops = {0} \cup Threads
         /\ loops \in Nat /\ joined \in Nat /\ numThread \in Nat /\ joined <= loops
BY ServerThreadsAssumption DEF PoolType, Loops, Threads

(* The state that the constructors leave.                                  *)
LEMMA IInvInit == Init => IInv
<1> SUFFICES ASSUME Init
             PROVE  IInv
  OBVIOUS
<1> USE ServerThreadsAssumption
<1>1. PoolType
  BY DEF Init, PoolType
<1>2. ThreadType /\ MainSound
  BY DEF Init, ThreadType, MainSound, Places, Loops
<1>3. \A t \in Threads : ThreadSound(t)
  BY DEF Init, ThreadSound, Threads, Loops
<1>4. LoopType
  BY DEF Init, LoopType
<1>5. ConnType
  <2>1. ioLoop \in [Conns -> 0 .. loops]
    BY DEF Init
  <2>2. conn \in [Conns -> ConnState] /\ peer \in [Conns -> {"open", "closed"}]
    BY DEF Init, ConnState
  <2>3. /\ listening = FALSE /\ arrived = 0
        /\ nextConnId = 1 /\ connections = {}
    BY DEF Init
  <2>4. 0 \in 0 .. MaxConns /\ 1 \in 1 .. MaxConns + 1
    OBVIOUS
  <2>5. QED
    BY <2>1, <2>2, <2>3, <2>4 DEF ConnType
<1>6. AcceptIsFor
  BY DEF Init, AcceptIsFor, Loops
<1>7. QED
  BY <1>1, <1>2, <1>3, <1>4, <1>5, <1>6 DEF IInv, Life

-----------------------------------------------------------------------------
(***************************************************************************)
(* Life: which thread is where.                                            *)
(***************************************************************************)

(* TcpServer::start creates one thread after the other.                    *)
LEMMA LifeStart == Life /\ StartServer => Life'
<1> SUFFICES ASSUME Life, StartServer
             PROVE  Life'
  OBVIOUS
<1> USE LoopsNamed DEF Life, pool
<1>1. CASE SpawnThread
  <2>1. /\ at' = [at EXCEPT ![0] = "await", ![loops + 1] = "spawned"]
        /\ at[0] = "start" /\ loops < numThread
        /\ UNCHANGED <<pool, quit>>
    BY <1>1 DEF SpawnThread, PoolStarted, PoolType
  <2>2. PoolType' /\ ThreadType' /\ MainSound'
    BY <2>1 DEF PoolType, ThreadType, MainSound, Places
  <2>3. ASSUME NEW t \in Threads
        PROVE  ThreadSound(t)'
    <3>1. ThreadSound(t)
      OBVIOUS
    <3>2. at'[0] = "await" /\ at'[t] = IF t = loops + 1 THEN "spawned" ELSE at[t]
      BY <2>1 DEF ThreadType
    <3>3. QED
      BY <2>1, <3>1, <3>2 DEF ThreadSound
  <2>4. QED
    BY <2>2, <2>3
<1>2. CASE AwaitLoop
  <2>1. /\ at' = [at EXCEPT ![0] = "start"] /\ at[0] = "await"
        /\ loops' = loops + 1 /\ loops < numThread
        /\ at[loops + 1] \in Published
        /\ UNCHANGED <<numThread, next, joined, quit>>
    BY <1>2 DEF AwaitLoop, MainSound
  <2>2. PoolType'
    BY <2>1 DEF PoolType
  <2>3. ThreadType' /\ MainSound'
    BY <2>1 DEF ThreadType, MainSound, Places
  <2>4. ASSUME NEW t \in Threads
        PROVE  ThreadSound(t)'
    <3>1. ThreadSound(t)
      OBVIOUS
    <3>2. at'[0] = "start" /\ at'[t] = at[t]
      BY <2>1 DEF ThreadType
    <3>3. QED
      BY <2>1, <3>1, <3>2 DEF ThreadSound, Published, Running
  <2>5. QED
    BY <2>2, <2>3, <2>4
<1>3. CASE Listen
  <2>1. /\ at' = [at EXCEPT ![0] = "published"] /\ at[0] = "start"
        /\ loops = numThread
        /\ UNCHANGED <<pool, quit>>
    BY <1>3 DEF Listen, PoolStarted
  <2>2. PoolType' /\ ThreadType' /\ MainSound'
    BY <2>1 DEF PoolType, ThreadType, MainSound, Places, Alive, Published
  <2>3. ASSUME NEW t \in Threads
        PROVE  ThreadSound(t)'
    <3>1. ThreadSound(t) /\ at'[0] = "published" /\ at'[t] = at[t]
      BY <2>1 DEF ThreadType
    <3>2. QED
      BY <2>1, <3>1 DEF ThreadSound
  <2>4. QED
    BY <2>2, <2>3
<1>4. QED
  BY <1>1, <1>2, <1>3 DEF StartServer

(* ~TcpServer stops one thread after the other.                            *)
LEMMA LifeDestroy == Life /\ DestroyServer => Life'
<1> SUFFICES ASSUME Life, DestroyServer
             PROVE  Life'
  OBVIOUS
<1> USE LoopsNamed DEF Life, pool
<1>1. CASE \E c \in Conns : DestroyConnection(c)
  <2>1. UNCHANGED <<pool, at, quit>>
    BY <1>1 DEF DestroyConnection
  <2>2. QED
    BY <2>1 DEF PoolType, ThreadType, MainSound, ThreadSound
<1>2. CASE QuitLoop
  <2>1. /\ at' = [at EXCEPT ![0] = "wakeup"] /\ at[0] = "left"
        /\ quit' = [quit EXCEPT ![joined + 1] = TRUE]
        /\ joined < numThread /\ loops = numThread
        /\ UNCHANGED pool
    BY <1>2 DEF QuitLoop, MainSound
  <2>2. PoolType' /\ ThreadType' /\ MainSound'
    BY <2>1 DEF PoolType, ThreadType, MainSound, Places
  <2>3. ASSUME NEW t \in Threads
        PROVE  ThreadSound(t)'
    <3>1. ThreadSound(t)
      OBVIOUS
    <3>2. /\ at'[0] = "wakeup" /\ at'[t] = at[t]
          /\ t # joined + 1 => quit'[t] = quit[t]
      BY <2>1 DEF ThreadType
    <3>3. QED
      BY <2>1, <3>1, <3>2 DEF ThreadSound, Running, Alive, Published
  <2>4. QED
    BY <2>2, <2>3
<1>3. CASE WakeupLoop
  <2>1. /\ at' = [at EXCEPT ![0] = "join"] /\ at[0] = "wakeup"
        /\ UNCHANGED <<pool, quit>>
    BY <1>3 DEF WakeupLoop
  <2>2. PoolType' /\ ThreadType' /\ MainSound'
    BY <2>1 DEF PoolType, ThreadType, MainSound, Places
  <2>3. ASSUME NEW t \in Threads
        PROVE  ThreadSound(t)'
    <3>1. ThreadSound(t) /\ at'[0] = "join" /\ at'[t] = at[t]
      BY <2>1 DEF ThreadType
    <3>2. QED
      BY <2>1, <3>1 DEF ThreadSound
  <2>4. QED
    BY <2>2, <2>3
<1>4. CASE Join
  <2>1. /\ at' = [at EXCEPT ![0] = "left"] /\ at[0] = "join"
        /\ at[joined + 1] = "ended"
        /\ joined' = joined + 1 /\ joined < numThread /\ loops = numThread
        /\ UNCHANGED <<numThread, loops, next, quit>>
    BY <1>4 DEF Join, MainSound
  <2>2. PoolType'
    BY <2>1 DEF PoolType
  <2>3. ThreadType' /\ MainSound'
    BY <2>1 DEF ThreadType, MainSound, Places, Alive, Published
  <2>4. ASSUME NEW t \in Threads
        PROVE  ThreadSound(t)'
    <3>1. ThreadSound(t) /\ at'[0] = "left" /\ at'[t] = at[t]
      BY <2>1 DEF ThreadType
    <3>2. QED
      BY <2>1, <3>1 DEF ThreadSound, Running, InLoop
  <2>5. QED
    BY <2>2, <2>3, <2>4
<1>5. CASE EndServer
  <2>1. /\ at' = [at EXCEPT ![0] = "ended"] /\ at[0] = "left"
        /\ joined = numThread
        /\ UNCHANGED <<pool, quit>>
    BY <1>5 DEF EndServer
  <2>2. PoolType' /\ ThreadType' /\ MainSound'
    BY <2>1 DEF PoolType, ThreadType, MainSound, Places
  <2>3. ASSUME NEW t \in Threads
        PROVE  ThreadSound(t)'
    <3>1. ThreadSound(t) /\ at'[0] = "ended" /\ at'[t] = at[t]
      BY <2>1 DEF ThreadType
    <3>2. QED
      BY <2>1, <3>1 DEF ThreadSound
  <2>4. QED
    BY <2>2, <2>3
<1>6. QED
  BY <1>1, <1>2, <1>3, <1>4, <1>5 DEF DestroyServer

(* A step that moves no thread, changes no number of the pool and sets at  *)
(* most the base loop's quit_.                                             *)
LEMMA LifeFrame ==
  ASSUME Life, UNCHANGED <<pool, at>>,
         quit' = quit \/ quit' = [quit EXCEPT ![0] = TRUE]
  PROVE  Life'
<1> USE LoopsNamed DEF Life, pool
<1>1. quit' \in [Loops -> BOOLEAN] /\ \A t \in Threads : quit'[t] = quit[t]
  BY DEF ThreadType
<1>2. PoolType' /\ ThreadType' /\ MainSound'
  BY <1>1 DEF PoolType, ThreadType, MainSound
<1>3. \A t \in Threads : ThreadSound(t)'
  BY <1>1 DEF ThreadSound
<1>4. QED
  BY <1>2, <1>3

(* The main thread goes on in loop(), or leaves it.                        *)
LEMMA BaseMoves ==
  ASSUME Life, UNCHANGED pool, at[0] \in Running,
         NEW x \in InLoop \cup {"left"}, at' = [at EXCEPT ![0] = x],
         quit' \in [Loops -> BOOLEAN], \A u \in Threads : quit'[u] = quit[u]
  PROVE  Life'
<1> USE LoopsNamed DEF Life, pool
<1>1. x \in Places /\ x \in Published
  BY DEF Places, Alive, Published
<1>2. PoolType' /\ ThreadType' /\ MainSound'
  BY <1>1 DEF PoolType, ThreadType, MainSound, Running, InLoop
<1>3. ASSUME NEW t \in Threads
      PROVE  ThreadSound(t)'
  <2>1. ThreadSound(t) /\ at'[0] = x /\ at'[t] = at[t]
    BY DEF ThreadType
  <2>2. QED
    BY <2>1 DEF ThreadSound, Running, InLoop
<1>4. QED
  BY <1>2, <1>3

(* An io thread goes on: it is published, runs loop(), or, once it has     *)
(* been told to quit, leaves it and ends.                                  *)
LEMMA ThreadMoves ==
  ASSUME Life, UNCHANGED pool, NEW t \in Threads, NEW x,
         \/ at[t] = "spawned" /\ x = "published"
         \/ at[t] \in Running /\ x \in InLoop
         \/ at[t] = "test" /\ quit[t] /\ x = "left"
         \/ at[t] = "left" /\ x = "cleared"
         \/ at[t] = "cleared" /\ x = "ended",
         at' = [at EXCEPT ![t] = x],
         quit' \in [Loops -> BOOLEAN], quit'[t] = quit[t] \/ quit'[t] = FALSE,
         \A u \in Threads : u # t => quit'[u] = quit[u]
  PROVE  Life'
<1> USE LoopsNamed DEF Life, pool
<1>1. x \in Places
  BY DEF Places, Alive, Published
<1>2. at' \in [Loops -> Places] /\ at'[0] = at[0] /\ at'[t] = x
  BY <1>1 DEF ThreadType
<1>3. PoolType' /\ ThreadType' /\ MainSound'
  BY <1>2 DEF PoolType, ThreadType, MainSound
<1>4. ASSUME NEW u \in Threads, u # t
      PROVE  ThreadSound(u)'
  <2>1. ThreadSound(u) /\ at'[u] = at[u] /\ quit'[u] = quit[u]
    BY <1>4 DEF ThreadType
  <2>2. QED
    BY <1>2, <2>1 DEF ThreadSound
<1>5. ThreadSound(t)'
  <2>1. ThreadSound(t) /\ (quit[t] = TRUE \/ quit[t] = FALSE)
    BY DEF ThreadType
  <2>2. CASE t = joined + 1 /\ at[0] \in {"wakeup", "join"} /\ at[t] \in Alive \cup {"ended"}
    BY <1>2, <2>2 DEF ThreadSound, Alive, Published, Running
  <2>3. CASE joined < t /\ t <= loops /\ at[t] \in Running /\ ~quit[t]
    BY <1>2, <2>3 DEF ThreadSound, Running, InLoop
  <2>4. CASE t = loops + 1 /\ at[0] = "await" /\ at[t] \in Running \cup {"spawned"} /\ ~quit[t]
    BY <1>2, <2>4 DEF ThreadSound, Running, InLoop
  <2>5. CASE at[t] \in {"ended", "unborn"}
    BY <2>5 DEF Running, InLoop
  <2>6. QED
    BY <2>1, <2>2, <2>3, <2>4, <2>5 DEF ThreadSound
<1>6. QED
  BY <1>3, <1>4, <1>5

(* What one step of loop() does to the threads.                            *)
LEMMA LoopStepMoves ==
  ASSUME Life, NEW t \in Loops, LoopStep(t)
  PROVE  \/ UNCHANGED <<pool, at, quit>>
         \/ \E x \in InLoop \cup {"left"} :
              /\ UNCHANGED pool
              /\ at[t] \in Running /\ at' = [at EXCEPT ![t] = x]
              /\ x = "left" => at[t] = "test" /\ quit[t]
              /\ quit' \in [Loops -> BOOLEAN]
              /\ quit'[t] = quit[t] \/ quit'[t] = FALSE
              /\ \A u \in Threads : u # t => quit'[u] = quit[u]
<1> USE LoopsNamed DEF Life
<1>1. CASE EnterLoop(t)
  BY <1>1 DEF EnterLoop, ThreadType, Running, InLoop
<1>2. CASE TestQuit(t)
  BY <1>2 DEF TestQuit, ThreadType, Running, InLoop
<1>3. CASE PollReturn(t)
  BY <1>3 DEF PollReturn, ThreadType, Running, InLoop
<1>4. CASE SwapPendingFunctors(t)
  BY <1>4 DEF SwapPendingFunctors, ThreadType, Running, InLoop
<1>5. CASE RunFunctor(t)
  BY <1>5 DEF RunFunctor
<1>6. CASE EndPendingFunctors(t)
  BY <1>6 DEF EndPendingFunctors, ThreadType, Running, InLoop
<1>7. CASE \E c \in Conns : HandleClose(t, c)
  BY <1>7 DEF HandleClose
<1>8. QED
  BY <1>1, <1>2, <1>3, <1>4, <1>5, <1>6, <1>7 DEF LoopStep

LEMMA LifeLoop == ASSUME Life, NEW t \in Loops, LoopStep(t) PROVE Life'
<1>1. CASE UNCHANGED <<pool, at, quit>>
  BY <1>1, LifeFrame
<1>2. ASSUME NEW x \in InLoop \cup {"left"},
             UNCHANGED pool,
             at[t] \in Running, at' = [at EXCEPT ![t] = x],
             x = "left" => at[t] = "test" /\ quit[t],
             quit' \in [Loops -> BOOLEAN],
             quit'[t] = quit[t] \/ quit'[t] = FALSE,
             \A u \in Threads : u # t => quit'[u] = quit[u]
      PROVE  Life'
  <2>1. CASE t = 0
    BY <1>2, <2>1, BaseMoves, LoopsNamed DEF Life
  <2>2. CASE t \in Threads
    BY <1>2, <2>2, ThreadMoves
  <2>3. QED
    BY <2>1, <2>2, LoopsNamed DEF Life
<1>3. QED
  BY <1>1, <1>2, LoopStepMoves

-----------------------------------------------------------------------------
(***************************************************************************)
(* Data: queues, rounds, peers and connections.                            *)
(***************************************************************************)

(* newConnection's choice is a loop that exists, and _next stays an index. *)
LEMMA RoundRobin ==
  ASSUME PoolType
  PROVE  /\ GetNextLoop \in 0 .. loops
         /\ AdvanceNext \in Nat /\ (AdvanceNext < loops \/ AdvanceNext = 0)
BY DEF PoolType, GetNextLoop, AdvanceNext

LEMMA QueuedType ==
  ASSUME LoopType, NEW t \in Loops, NEW c \in Conns,
         NEW f \in {"connectEstablished", "connectDestroyed", "removeConnectionInPool"}
  PROVE  Queued(t, Functor(f, c)) \in [Loops -> Seq(FunctorType)]
<1>1. Functor(f, c) \in FunctorType
  BY DEF Functor, FunctorType
<1>2. Append(queue[t], Functor(f, c)) \in Seq(FunctorType)
  BY <1>1 DEF LoopType
<1>3. QED
  BY <1>2 DEF Queued, LoopType

(* The loop of a connection is one of Loops.                               *)
LEMMA IoLoopIsLoop ==
  ASSUME PoolType, ConnType, NEW c \in Conns
  PROVE  ioLoop[c] \in Loops
BY LoopsNamed DEF ConnType

Data == LoopType /\ ConnType /\ AcceptIsFor

LEMMA DataFrame ==
  Data /\ UNCHANGED <<loops, queue, rounds, net, server>> => Data'
BY DEF Data, LoopType, ConnType, AcceptIsFor, rounds, net, server

LEMMA DataStart == Life /\ Data /\ StartServer => Data'
<1> SUFFICES ASSUME Life, Data, StartServer
             PROVE  Data'
  OBVIOUS
<1>1. CASE SpawnThread
  BY <1>1, DataFrame DEF SpawnThread, pool
<1>2. CASE AwaitLoop
  <2>1. LoopType' /\ AcceptIsFor'
    BY <1>2 DEF AwaitLoop, Data, LoopType, AcceptIsFor, rounds, net, server
  <2>2. 0 .. loops \subseteq 0 .. loops'
    BY <1>2 DEF AwaitLoop, Life, PoolType
  <2>3. ioLoop' \in [Conns -> 0 .. loops']
    BY <1>2, <2>2 DEF AwaitLoop, Data, ConnType, server
  <2>4. ConnType'
    BY <1>2, <2>3 DEF AwaitLoop, Data, ConnType, net, server
  <2>5. QED
    BY <2>1, <2>4 DEF Data
<1>3. CASE Listen
  BY <1>3 DEF Listen, Data, LoopType, ConnType, AcceptIsFor, pool, rounds, net, server
<1>4. QED
  BY <1>1, <1>2, <1>3 DEF StartServer

LEMMA DataDestroy == Life /\ Data /\ DestroyServer => Data'
<1> SUFFICES ASSUME Life, Data, DestroyServer
             PROVE  Data'
  OBVIOUS
<1>1. ASSUME NEW c \in Conns, DestroyConnection(c)
      PROVE  Data'
  <2>1. queue' \in [Loops -> Seq(FunctorType)]
    BY <1>1, QueuedType, IoLoopIsLoop DEF DestroyConnection, Life, Data, LoopType
  <2>2. conn' \in [Conns -> ConnState]
    BY <1>1 DEF DestroyConnection, Data, ConnType, ConnState
  <2>3. /\ connections' \subseteq Conns
        /\ UNCHANGED <<pool, rounds, net, nextConnId, ioLoop>>
    BY <1>1 DEF DestroyConnection, Data, ConnType
  <2>4. QED
    BY <2>1, <2>2, <2>3 DEF Data, LoopType, ConnType, AcceptIsFor, pool, rounds, net
<1>2. CASE QuitLoop
  BY <1>2, DataFrame DEF QuitLoop, pool
<1>3. CASE WakeupLoop
  BY <1>3, DataFrame DEF WakeupLoop, pool
<1>4. CASE Join
  BY <1>4, DataFrame DEF Join
<1>5. CASE EndServer
  <2>1. queue' \in [Loops -> Seq(FunctorType)]
    BY <1>5, LoopsNamed DEF EndServer, Life, Data, LoopType
  <2>2. QED
    BY <1>5, <2>1 DEF EndServer, Data, LoopType, ConnType, AcceptIsFor, pool, rounds, net, server
<1>6. QED
  BY <1>1, <1>2, <1>3, <1>4, <1>5 DEF DestroyServer

LEMMA DataLoop ==
  ASSUME Life, Data, NEW t \in Loops, LoopStep(t)
  PROVE  Data'
<1>1. CASE EnterLoop(t)
  BY <1>1, DataFrame DEF EnterLoop, pool
<1>2. CASE TestQuit(t)
  BY <1>2, DataFrame DEF TestQuit, pool
<1>3. CASE PollReturn(t)
  <2>1. Ready(t) \subseteq Conns \cup {Acceptor}
    BY DEF Ready
  <2>2. active' \in [Loops -> SUBSET (Conns \cup {Acceptor})]
    BY <1>3, <2>1 DEF PollReturn, Data, LoopType
  <2>3. LoopType' /\ ConnType'
    BY <1>3, <2>2 DEF PollReturn, Data, LoopType, ConnType, pool, net, server
  <2>4. Acceptor \in Ready(0) => nextConnId <= arrived
    BY DEF Ready, Waiting, Acceptor, Conns
  <2>5. AcceptIsFor'
    BY <1>3, <2>4 DEF PollReturn, Data, LoopType, AcceptIsFor, net, server
  <2>6. QED
    BY <2>3, <2>5 DEF Data
<1>4. CASE SwapPendingFunctors(t)
  <2>1. LoopType'
    BY <1>4 DEF SwapPendingFunctors, Data, LoopType
  <2>2. QED
    BY <1>4, <2>1 DEF SwapPendingFunctors, Data, ConnType, AcceptIsFor, pool, net, server
<1>5. CASE RunFunctor(t)
  <2> DEFINE head == batch[t][ran[t] + 1]
             c == head.conn
  <2>1. c \in Conns
    <3>1. batch[t] \in Seq(FunctorType) /\ ran[t] + 1 \in 1 .. Len(batch[t])
      BY <1>5 DEF RunFunctor, Data, LoopType
    <3>2. head \in FunctorType
      BY <3>1
    <3>3. QED
      BY <3>2 DEF FunctorType
  <2>2. ran' \in [Loops -> Nat]
    BY <1>5 DEF RunFunctor, Data, LoopType
  <2>3. \/ conn' = [conn EXCEPT ![c] = "connected"] /\ UNCHANGED <<queue, connections>>
        \/ conn' = [conn EXCEPT ![c] = "destroyed"] /\ UNCHANGED <<queue, connections>>
        \/ RemoveConnectionInPool(c) /\ UNCHANGED conn
    BY <1>5 DEF RunFunctor
  <2>4. queue' \in [Loops -> Seq(FunctorType)]
    <3>1. ioLoop[c] \in Loops
      BY <2>1, IoLoopIsLoop DEF Life, Data
    <3>2. Queued(ioLoop[c], Functor("connectDestroyed", c)) \in [Loops -> Seq(FunctorType)]
      BY <2>1, <3>1, QueuedType DEF Data
    <3>3. queue' = queue \/ queue' = Queued(ioLoop[c], Functor("connectDestroyed", c))
      BY <2>3 DEF RemoveConnectionInPool
    <3>4. QED
      BY <3>2, <3>3 DEF Data, LoopType
  <2>5. conn' \in [Conns -> ConnState] /\ connections' \subseteq Conns
    BY <2>3 DEF RemoveConnectionInPool, Data, ConnType, ConnState
  <2>6. UNCHANGED <<pool, batch, active, net, nextConnId, ioLoop>>
    BY <1>5 DEF RunFunctor
  <2>7. QED
    BY <2>2, <2>4, <2>5, <2>6 DEF Data, LoopType, ConnType, AcceptIsFor, pool, net
<1>6. CASE EndPendingFunctors(t)
  <2>1. LoopType'
    BY <1>6 DEF EndPendingFunctors, Data, LoopType
  <2>2. QED
    BY <1>6, <2>1 DEF EndPendingFunctors, Data, ConnType, AcceptIsFor, pool, net, server
<1>7. ASSUME NEW c \in Conns, HandleClose(t, c)
      PROVE  Data'
  <2>1. active' = [active EXCEPT ![t] = @ \ {c}]
    BY <1>7 DEF HandleClose
  <2>2. active' \in [Loops -> SUBSET (Conns \cup {Acceptor})]
    BY <2>1 DEF Data, LoopType
  <2>3. queue' \in [Loops -> Seq(FunctorType)]
    <3>1. ioLoop[c] \in Loops /\ 0 \in Loops
      BY IoLoopIsLoop, LoopsNamed DEF Life, Data
    <3>2. \A l \in Loops :
            /\ Queued(l, Functor("connectDestroyed", c)) \in [Loops -> Seq(FunctorType)]
            /\ Queued(l, Functor("removeConnectionInPool", c)) \in [Loops -> Seq(FunctorType)]
      BY QueuedType DEF Data
    <3>3. \/ queue' = Queued(ioLoop[c], Functor("connectDestroyed", c))
          \/ queue' = Queued(0, Functor("removeConnectionInPool", c))
      BY <1>7 DEF HandleClose, RemoveConnectionInPool
    <3>4. QED
      BY <3>1, <3>2, <3>3
  <2>4. conn' \in [Conns -> ConnState] /\ connections' \subseteq Conns
    BY <1>7 DEF HandleClose, RemoveConnectionInPool, Data, ConnType, ConnState
  <2>5. UNCHANGED <<pool, batch, ran, net, nextConnId, ioLoop>>
    BY <1>7 DEF HandleClose
  <2>6. AcceptIsFor'
    BY <2>1, <2>5 DEF Data, LoopType, AcceptIsFor, net
  <2>7. QED
    BY <2>2, <2>3, <2>4, <2>5, <2>6 DEF Data, LoopType, ConnType, pool, net
<1>8. QED
  BY <1>1, <1>2, <1>3, <1>4, <1>5, <1>6, <1>7 DEF LoopStep

(* newConnection for the peer at the head of the backlog.                  *)
LEMMA AcceptKeepsIInv == IInv /\ AcceptConnection => IInv'
<1> SUFFICES ASSUME IInv, AcceptConnection
             PROVE  IInv'
  OBVIOUS
<1> USE DEF IInv
<1>1. /\ active' = [active EXCEPT ![0] = @ \ {Acceptor}] /\ Acceptor \in active[0]
      /\ ioLoop' = [ioLoop EXCEPT ![nextConnId] = GetNextLoop]
      /\ next' = AdvanceNext
      /\ connections' = connections \cup {nextConnId}
      /\ nextConnId' = nextConnId + 1
      /\ UNCHANGED <<numThread, loops, joined, at, quit, batch, ran, net>>
  BY DEF AcceptConnection
<1>2. /\ PoolType /\ 0 \in Loops
      /\ GetNextLoop \in 0 .. loops /\ GetNextLoop \in Loops
      /\ AdvanceNext \in Nat /\ (AdvanceNext < loops \/ AdvanceNext = 0)
  BY LoopsNamed, RoundRobin DEF Life
<1>3. nextConnId \in Conns
  BY <1>1, ServerThreadsAssumption DEF AcceptIsFor, ConnType, Conns
<1>4. Life'
  BY <1>1, <1>2 DEF Life, PoolType, ThreadType, MainSound, ThreadSound
<1>5. LoopType'
  <2>1. queue' = queue \/
        queue' = Queued(GetNextLoop, Functor("connectEstablished", nextConnId))
    BY DEF AcceptConnection
  <2>2. Queued(GetNextLoop, Functor("connectEstablished", nextConnId))
          \in [Loops -> Seq(FunctorType)]
    BY <1>2, <1>3, QueuedType
  <2>3. queue' \in [Loops -> Seq(FunctorType)]
    BY <2>1, <2>2 DEF LoopType
  <2>4. QED
    BY <1>1, <2>3 DEF LoopType
<1>6. ConnType'
  <2>1. ioLoop' \in [Conns -> 0 .. loops']
    BY <1>1, <1>2 DEF ConnType
  <2>2. conn' \in [Conns -> ConnState]
    BY DEF AcceptConnection, ConnType, ConnState
  <2>3. nextConnId' \in 1 .. MaxConns + 1 /\ connections' \subseteq Conns
    BY <1>1, <1>3, ServerThreadsAssumption DEF ConnType, Conns
  <2>4. QED
    BY <1>1, <2>1, <2>2, <2>3 DEF ConnType, net
<1>7. AcceptIsFor'
  BY <1>1, <1>2 DEF LoopType, AcceptIsFor
<1>8. QED
  BY <1>4, <1>5, <1>6, <1>7

(* threadFunc around loop().                                               *)
LEMMA ThreadKeepsIInv ==
  ASSUME IInv, NEW t \in Threads, ThreadStep(t)
  PROVE  IInv'
<1> USE LoopsNamed DEF IInv
<1>1. t \in Loops /\ Data /\ quit \in [Loops -> BOOLEAN]
  BY DEF Data, Life, ThreadType
<1>2. CASE PublishLoop(t)
  <2>1. Data'
    BY <1>1, <1>2, DataFrame DEF PublishLoop, pool
  <2>2. Life'
    BY <1>1, <1>2, ThreadMoves DEF PublishLoop
  <2>3. QED
    BY <2>1, <2>2 DEF Data
<1>3. CASE LoopStep(t)
  BY <1>1, <1>3, LifeLoop, DataLoop DEF Data
<1>4. CASE ClearLoop(t)
  <2>1. Data'
    BY <1>1, <1>4, DataFrame DEF ClearLoop, pool
  <2>2. Life'
    BY <1>1, <1>4, ThreadMoves DEF ClearLoop
  <2>3. QED
    BY <2>1, <2>2 DEF Data
<1>5. CASE DestroyLoop(t)
  <2>1. LoopType'
    BY <1>1, <1>5 DEF DestroyLoop, LoopType, rounds
  <2>2. ConnType' /\ AcceptIsFor'
    BY <1>5 DEF DestroyLoop, ConnType, AcceptIsFor, pool, rounds, net, server
  <2>3. Life'
    BY <1>1, <1>5, ThreadMoves DEF DestroyLoop
  <2>4. QED
    BY <2>1, <2>2, <2>3
<1>6. QED
  BY <1>2, <1>3, <1>4, <1>5 DEF ThreadStep

(* What comes from outside: a quit() of the base loop, a peer.             *)
LEMMA OutsideKeepsIInv ==
  ASSUME IInv, QuitBaseLoop \/ PeerConnects \/ \E c \in Conns : PeerCloses(c)
  PROVE  IInv'
<1> USE DEF IInv
<1>1. CASE QuitBaseLoop
  <2>1. Life'
    BY <1>1, LifeFrame DEF QuitBaseLoop
  <2>2. QED
    BY <1>1, <2>1, DataFrame DEF QuitBaseLoop, pool, Data
<1>2. CASE PeerConnects
  <2>1. Life'
    BY <1>2, LifeFrame DEF PeerConnects
  <2>2. ConnType' /\ AcceptIsFor'
    BY <1>2, ServerThreadsAssumption
    DEF PeerConnects, ConnType, AcceptIsFor, pool, rounds, server
  <2>3. QED
    BY <1>2, <2>1, <2>2 DEF PeerConnects, LoopType, rounds
<1>3. ASSUME NEW c \in Conns, PeerCloses(c)
      PROVE  IInv'
  <2>1. Life'
    BY <1>3, LifeFrame DEF PeerCloses
  <2>2. ConnType' /\ AcceptIsFor'
    BY <1>3 DEF PeerCloses, ConnType, AcceptIsFor, pool, rounds, server
  <2>3. QED
    BY <1>3, <2>1, <2>2 DEF PeerCloses, LoopType, rounds
<1>4. QED
  BY <1>1, <1>2, <1>3

LEMMA IInvStep == IInv /\ [Next]_vars => IInv'
<1> SUFFICES ASSUME IInv, [Next]_vars
             PROVE  IInv'
  OBVIOUS
<1>1. Life /\ Data /\ 0 \in Loops
  BY LoopsNamed DEF IInv, Data, Life
<1>2. Life' /\ Data' => IInv'
  BY DEF IInv, Data
<1>3. CASE StartServer
  BY <1>1, <1>2, <1>3, LifeStart, DataStart
<1>4. CASE LoopStep(0)
  BY <1>1, <1>2, <1>4, LifeLoop, DataLoop
<1>5. CASE AcceptConnection
  BY <1>5, AcceptKeepsIInv
<1>6. CASE AcceptFails
  <2>1. active' = [active EXCEPT ![0] = @ \ {Acceptor}]
        /\ UNCHANGED <<pool, at, quit, queue, batch, ran, net, server>>
    BY <1>6 DEF AcceptFails
  <2>2. Life'
    BY <1>1, <2>1, LifeFrame
  <2>3. LoopType' /\ AcceptIsFor'
    BY <1>1, <2>1 DEF Data, LoopType, AcceptIsFor
  <2>4. ConnType'
    BY <1>1, <2>1 DEF Data, ConnType, pool, net, server
  <2>5. QED
    BY <2>2, <2>3, <2>4 DEF IInv
<1>7. CASE DestroyServer
  BY <1>1, <1>2, <1>7, LifeDestroy, DataDestroy
<1>8. CASE \E t \in Threads : ThreadStep(t)
  BY <1>8, ThreadKeepsIInv
<1>9. CASE QuitBaseLoop \/ PeerConnects \/ \E c \in Conns : PeerCloses(c)
  BY <1>9, OutsideKeepsIInv
<1>10. CASE UNCHANGED vars
  BY <1>1, <1>2, <1>10, LifeFrame, DataFrame DEF vars, pool
<1>11. QED
  BY <1>3, <1>4, <1>5, <1>6, <1>7, <1>8, <1>9, <1>10 DEF Next, MainStep

-----------------------------------------------------------------------------
(***************************************************************************)
(* The theorems.                                                           *)
(***************************************************************************)

THEOREM Invariance == SafeSpec => []IInv
BY IInvInit, IInvStep, PTL DEF SafeSpec

(* Every variable keeps its type; the round robin index is always that of  *)
(* a loop (getNextLoop).                                                   *)
THEOREM TypeCorrect == Spec => []TypeOK
<1>1. IInv => TypeOK
  BY TypeParts DEF IInv, Life
<1>2. QED
  BY <1>1, Invariance, PTL DEF Spec

(* However many threads the pool has, no loop that start(), newConnection, *)
(* ~TcpServer or ~EventLoopThread uses goes before them, and no io thread  *)
(* outlives the server (startLoop's wait, ~EventLoopThread's join).        *)
THEOREM NothingGoesFirst == Spec => []LoopsOutliveCallers
<1>1. ASSUME IInv PROVE LoopsOutliveCallers
  <2>1. PoolType /\ MainSound /\ at[0] \in Places
    BY <1>1, LoopsNamed DEF IInv, Life, ThreadType
  <2>2. ASSUME NEW t \in 1 .. loops
        PROVE  \/ t <= joined /\ at[t] = "ended"
               \/ t > joined /\ at[t] \in Published
               \/ t = joined + 1 /\ at[0] \in {"wakeup", "join"}
    <3>1. t \in Threads /\ t <= loops /\ t # loops + 1
      BY <2>1, ServerThreadsAssumption DEF PoolType, Threads
    <3>2. ThreadSound(t)
      BY <1>1, <3>1 DEF IInv, Life
    <3>3. QED
      BY <2>1, <3>1, <3>2 DEF ThreadSound, Running, Published, PoolType
  <2>3. ASSUME at[0] = "ended", NEW t \in Threads
        PROVE  at[t] \in {"unborn", "ended"}
    <3>1. joined = loops
      BY <2>1, <2>3 DEF MainSound, PoolType
    <3>2. ThreadSound(t) /\ t \in Nat
      BY <1>1, <2>1, LoopsNamed DEF IInv, Life
    <3>3. QED
      BY <2>1, <2>3, <3>1, <3>2 DEF ThreadSound, PoolType
  <2>4. QED
    BY <2>2, <2>3 DEF LoopsOutliveCallers
<1>2. QED
  BY <1>1, Invariance, PTL DEF Spec

=============================================================================
