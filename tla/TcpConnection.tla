--------------------------- MODULE TcpConnection ---------------------------
(***************************************************************************)
(* The life of connections (ZTcpConnection/TcpConnection.cpp) between the  *)
(* TcpServer that owns them on the base loop, the io loop that serves      *)
(* them, a user thread that keeps shared pointers to them, and their       *)
(* peers.                                                                  *)
(*                                                                         *)
(* Both loops are taken at the level of FunctorQueue, which EventLoop      *)
(* implements, except that the io loop keeps the phases of loop(): poll,   *)
(* dispatch, then the batch of pending functors, which holds its functors, *)
(* and the shared pointers bound in them, until it is over.  Channel and   *)
(* EpollPoller are those of module EpollPoller; a connection's name stands *)
(* for its fd, as ChannelPoller already deals with fds that are used       *)
(* again.                                                                  *)
(*                                                                         *)
(* Abstracted: _outputBuffer is "empty or not"; a message is written in    *)
(* full, in part or not at all, and an append to it may or may not reach   *)
(* the high-water mark.  SIGPIPE is ignored by the program that embeds the *)
(* library.                                                                *)
(***************************************************************************)
EXTENDS Naturals, FiniteSets, SequencesExt

CONSTANTS
  Conns,          (* connections, each accepted at most once               *)
  None,
  OneLoop,        (* setThreadNum(0): the base loop is the io loop         *)
  UserOps,        (* what the user thread calls: "send", "shutdown"        *)
  MaxSends,       (* bound: its calls of send() under way on a connection  *)
  FlowControl,    (* the user sets the high-water and write-complete       *)
                  (* callbacks (main.cpp sets neither)                     *)
  ServerMayStop   (* TcpServer may be destroyed while its loops run        *)

INSTANCE EpollPoller WITH Channels <- Conns, Fds <- Conns

ASSUME TcpConnectionAssumption ==
  /\ None \notin Conns \cup EpollEvent
  /\ OneLoop \in BOOLEAN
  /\ UserOps \subseteq {"send", "shutdown"}
  /\ MaxSends \in Nat
  /\ ServerMayStop \in BOOLEAN
  /\ FlowControl \in BOOLEAN

VARIABLES
  poller,       (* channels and EpollPoller of the io loop                 *)
  state,        (* _state, and "unborn" and "freed" around it              *)
  output,       (* _outputBuffer is not empty                              *)
  net,          (* the kernel's socket and its peer                        *)
  callbacks,    (* how often _connectionCallback said up, and down         *)
  serverUp,     (* ~TcpServer has not run                                  *)
  connections,  (* TcpServer::connections                                  *)
  baseQueue,    (* functors of the base loop                               *)
  ioQueue,      (* pendingFunctors_ of the io loop                         *)
  batch,        (* doPendingFunctors' local vector, run or not             *)
  ran,          (* how many of batch have been run                         *)
  phase,        (* what the io loop's loop() does                          *)
  active,       (* channels in activeChannels_ not yet dispatched          *)
  revents,      (* their revents_                                          *)
  handling,     (* the channel whose handleEvent is running, or None       *)
  userRef,      (* connections the user thread has a shared pointer to     *)
  userPc,       (* "idle", or the call that has tested _state, "stored"    *)
                (* once shutdown() has set it, and has its functor still   *)
                (* to hand over                                            *)
  paused        (* the user's flag, set by the high-water callback and     *)
                (* cleared by the write-complete callback                  *)

server == <<serverUp, connections, baseQueue>>
loop   == <<batch, ran, phase, active, revents, handling>>
user   == <<userRef, userPc, paused>>
vars   == <<poller, state, output, net, callbacks, server, ioQueue, loop, user>>

Init ==
  /\ poller = NewPoller
  /\ state = [c \in Conns |-> "unborn"]
  /\ output = [c \in Conns |-> FALSE]
  /\ net = [c \in Conns |-> [peer |-> "open",  \* "closed" (FIN), "reset"
                             data |-> FALSE,   \* something to read
                             room |-> TRUE,    \* a write is accepted
                             shut |-> FALSE,   \* our side is shut for writing
                             err  |-> FALSE]]  \* SO_ERROR is pending
  /\ callbacks = [c \in Conns |-> [up |-> 0, down |-> 0]]
  /\ serverUp = TRUE
  /\ connections = {}
  /\ baseQueue = <<>>
  /\ ioQueue = <<>>
  /\ batch = <<>>
  /\ ran = 0
  /\ phase = "poll"
  /\ active = {}
  /\ revents = [c \in Conns |-> {}]
  /\ handling = None
  /\ userRef = {}
  /\ userPc = [c \in Conns |-> "idle"]
  /\ paused = {}

Functor(f, c) == [run |-> f, conn |-> c]

(* Those bound to a shared pointer; the others are bound to a bare this.   *)
Strong == {"connectEstablished", "connectDestroyed", "removeConnectionInPool",
           "highWater", "writeComplete"}

(* What the io loop has still to run, in this order.                       *)
ToRun == SubSeq(batch, ran + 1, Len(batch)) \o ioQueue

(* The user thread's calls of send() between the test of _state and the    *)
(* end of sendInLoop.                                                      *)
SendsUnderWay(c) ==
  LET queued == {i \in 1 .. Len(ToRun) : ToRun[i] = Functor("sendInLoop", c)}
  IN  Cardinality(queued) + (IF userPc[c] = "send" THEN 1 ELSE 0)

HeldBy(queue, c) == \E f \in ToSet(queue) : f.run \in Strong /\ f.conn = c

(* The connection's use count is not zero.                                 *)
Referenced(c) ==
  \/ c \in connections \cup userRef
  \/ handling = c    \* the guard in Channel::handleEvent
  \/ HeldBy(ioQueue, c) \/ HeldBy(batch, c) \/ HeldBy(baseQueue, c)

-----------------------------------------------------------------------------
(* TcpConnection, on the io loop's thread.  Each says what becomes of the  *)
(* connection, its channel and its socket.                                 *)

(* The user's connection callback may keep the pointer for the user thread. *)
ConnectEstablished(c) ==
  /\ state' = [state EXCEPT ![c] = "connected"]
  /\ poller' = EnableReading(poller, c)
  /\ callbacks' = [callbacks EXCEPT ![c].up = @ + 1]
  /\ userRef' \in {userRef, userRef \cup {c}}
  /\ UNCHANGED <<output, net>>

(* Mutant: the channel is left as it is.                                   *)
ConnectDestroyedKeepsChannel(c) ==
  /\ IF state[c] = "connected"
     THEN /\ state' = [state EXCEPT ![c] = "disconnected"]
          /\ callbacks' = [callbacks EXCEPT ![c].down = @ + 1]
     ELSE UNCHANGED <<state, callbacks>>
  /\ UNCHANGED <<poller, output, net>>

ConnectDestroyed(c) ==
  /\ IF state[c] = "connected"
     THEN /\ state' = [state EXCEPT ![c] = "disconnected"]
          /\ poller' = RemoveChannel(DisableAll(poller, c), c)
          /\ callbacks' = [callbacks EXCEPT ![c].down = @ + 1]
     ELSE /\ poller' = RemoveChannel(poller, c)
          /\ UNCHANGED <<state, callbacks>>
  /\ UNCHANGED <<output, net>>

(* A callback of the user's that is queued and not called in place.        *)
Notify(c, f) ==
  ioQueue' = IF FlowControl THEN Append(ioQueue, Functor(f, c)) ELSE ioQueue

(* Mutant: the writable event is not asked for.                            *)
SendInLoopUnwatched(c) ==
  /\ output' = [output EXCEPT ![c] = TRUE]
  /\ UNCHANGED <<poller, net, state, callbacks, ioQueue>>

(* It logs "give up writing" on a disconnected connection and goes on.     *)
(* Nothing is written if write() returns -1, which the code takes for a    *)
(* length: that too ends in the output buffer.                             *)
SendInLoop(c) ==
  LET direct == ~IsWriting(poller, c) /\ ~output[c]
  IN  /\ \/ /\ direct /\ net[c].room /\ ~net[c].shut /\ net[c].peer # "reset"
            /\ \E room \in BOOLEAN : net' = [net EXCEPT ![c].room = room]
            /\ Notify(c, "writeComplete")
            /\ UNCHANGED <<poller, output>>
         \/ /\ output' = [output EXCEPT ![c] = TRUE]
            /\ poller' = IF IsWriting(poller, c) THEN poller
                                                 ELSE EnableWriting(poller, c)
            /\ net' = IF direct THEN [net EXCEPT ![c].room = FALSE, ![c].err = FALSE]
                                ELSE net
            /\ Notify(c, "highWater") \/ UNCHANGED ioQueue
      /\ UNCHANGED <<state, callbacks>>

(* Mutant: the output buffer is not waited for.                            *)
ShutdownInLoopAtOnce(c) ==
  /\ net' = [net EXCEPT ![c].shut = TRUE]
  /\ UNCHANGED <<poller, output, callbacks>>

ShutdownInLoop(c) ==
  /\ net' = [net EXCEPT ![c].shut = @ \/ ~IsWriting(poller, c)]
  /\ UNCHANGED <<poller, output, callbacks>>

-----------------------------------------------------------------------------
(* TcpServer, on the base loop.                                            *)

(* Acceptor's new connection.  runInLoop(connectEstablished) is a call in  *)
(* place when there is only one loop, whose thread dispatches the listening *)
(* channel.                                                                *)
NewConnection(c) ==
  /\ serverUp
  /\ state[c] = "unborn"
  /\ connections' = connections \cup {c}
  /\ IF OneLoop
     THEN /\ phase = "dispatch" /\ handling = None
          /\ state' = [state EXCEPT ![c] = "connected"]
          /\ poller' = EnableReading(NewChannel(poller, c, c), c)
          /\ callbacks' = [callbacks EXCEPT ![c].up = @ + 1]
          /\ userRef' \in {userRef, userRef \cup {c}}
          /\ UNCHANGED ioQueue
     ELSE /\ state' = [state EXCEPT ![c] = "connecting"]
          /\ poller' = NewChannel(poller, c, c)
          /\ ioQueue' = Append(ioQueue, Functor("connectEstablished", c))
          /\ UNCHANGED <<callbacks, userRef>>
  /\ UNCHANGED <<output, net, serverUp, baseQueue, loop, userPc, paused>>

(* Mutant: the connection is destroyed before it leaves the map.           *)
RemoveConnectionKeepsEntry(c) ==
  /\ ioQueue' = Append(ioQueue, Functor("connectDestroyed", c))
  /\ UNCHANGED connections

RemoveConnectionInPool(c) ==
  /\ connections' = connections \ {c}
  /\ ioQueue' = Append(ioQueue, Functor("connectDestroyed", c))

(* The close callback: runInLoop on the base loop.                         *)
RemoveConnection(c) ==
  IF OneLoop
  THEN RemoveConnectionInPool(c) /\ UNCHANGED baseQueue
  ELSE /\ baseQueue' = Append(baseQueue, Functor("removeConnectionInPool", c))
       /\ UNCHANGED <<connections, ioQueue>>

(* A functor of the base loop.  One that is left when ~TcpServer has run is *)
(* bound to a server that is gone; what it would do is not modelled.       *)
BaseRunFunctor ==
  /\ serverUp
  /\ baseQueue # <<>>
  /\ RemoveConnectionInPool(Head(baseQueue).conn)
  /\ baseQueue' = Tail(baseQueue)
  /\ UNCHANGED <<poller, state, output, net, callbacks, serverUp, loop, user>>

(* ~TcpServer, on the base loop's thread; the io loop goes on for a while. *)
DestroyServer ==
  /\ ServerMayStop
  /\ serverUp
  /\ ~OneLoop
  /\ serverUp' = FALSE
  /\ connections' = {}
  /\ \E order \in SetToSeqs(connections) :
       ioQueue' = ioQueue \o [i \in DOMAIN order |->
                                Functor("connectDestroyed", order[i])]
  /\ UNCHANGED <<poller, state, output, net, callbacks, baseQueue, loop, user>>

-----------------------------------------------------------------------------
(* The io loop: poll and dispatch.                                         *)

(* What the kernel reports of a registered fd.                             *)
Ready(c) ==
  LET s == net[c]
      wanted(ev) == ev \in poller.interest[c].events
  IN  IF poller.interest[c] = None THEN {}
      ELSE {ev \in {"ERR", "IN", "OUT", "HUP"} :
              \/ ev = "ERR" /\ s.err
              \/ ev = "IN"  /\ wanted("read") /\ (s.data \/ s.peer # "open")
              \/ ev = "OUT" /\ wanted("write") /\ (s.room \/ s.shut \/ s.peer = "reset")
              \/ ev = "HUP" /\ (s.peer = "reset" \/ (s.peer = "closed" /\ s.shut))}

(* With functors pending the eventfd wakes it (EventLoop!NoLostWakeup).    *)
Poll ==
  /\ phase = "poll"
  /\ active' = {c \in Conns : Ready(c) # {}}
  /\ active' # {} \/ ioQueue # <<>> \/ OneLoop
  /\ revents' = [c \in Conns |-> Ready(c)]
  /\ phase' = "dispatch"
  /\ UNCHANGED <<poller, state, output, net, callbacks, server, ioQueue, batch, ran,
                 handling, user>>

(* Channel::handleEvent: the tie is locked, and a hangup counts only when  *)
(* there is nothing to read.                                               *)
HandleEvent(c) ==
  /\ phase = "dispatch"
  /\ handling = None
  /\ c \in active
  /\ active' = active \ {c}
  /\ IF Referenced(c)
     THEN /\ handling' = c
          /\ revents' = [revents EXCEPT ![c] = IF "IN" \in @ THEN @ \ {"HUP"} ELSE @]
     ELSE UNCHANGED <<handling, revents>>
  /\ UNCHANGED <<poller, state, output, net, callbacks, server, ioQueue, batch, ran,
                 phase, user>>

(* The callbacks of c run in this order, one after the other.              *)
Callback(c, ev) ==
  /\ handling = c
  /\ ev \in revents[c]
  /\ \A before \in revents[c] \ {ev} :
       <<ev, before>> \in {<<"ERR", "IN">>, <<"ERR", "OUT">>, <<"ERR", "HUP">>,
                           <<"IN", "OUT">>, <<"IN", "HUP">>, <<"OUT", "HUP">>,
                           <<"MSG", "OUT">>}
  /\ UNCHANGED <<batch, ran, phase, active, handling>>

HandleError(c) ==
  /\ Callback(c, "ERR")
  /\ revents' = [revents EXCEPT ![c] = @ \ {"ERR"}]
  /\ net' = [net EXCEPT ![c].err = FALSE]
  /\ UNCHANGED <<poller, state, output, callbacks, server, ioQueue, user>>

(* Mutant: events_ is cleared without update().                            *)
CloseConnectionNoUpdate(c) ==
  /\ state' = [state EXCEPT ![c] = "disconnected"]
  /\ poller' = [poller EXCEPT !.events[c] = {}]
  /\ callbacks' = [callbacks EXCEPT ![c].down = @ + 1]
  /\ RemoveConnection(c)
  /\ UNCHANGED <<output, serverUp, user>>

(* Mutant: _state is left as it is.                                        *)
CloseConnectionKeepsState(c) ==
  /\ poller' = DisableAll(poller, c)
  /\ callbacks' = [callbacks EXCEPT ![c].down = @ + 1]
  /\ RemoveConnection(c)
  /\ UNCHANGED <<state, output, serverUp, user>>

(* handleClose.  Its close callback is bound to the server, which is not   *)
(* modelled once ~TcpServer has run.                                       *)
CloseConnection(c) ==
  /\ state' = [state EXCEPT ![c] = "disconnected"]
  /\ poller' = DisableAll(poller, c)
  /\ callbacks' = [callbacks EXCEPT ![c].down = @ + 1]
  /\ IF serverUp THEN RemoveConnection(c)
                 ELSE UNCHANGED <<connections, baseQueue, ioQueue>>
  /\ UNCHANGED <<output, serverUp, user>>

(* read() returns data, 0 at the peer's end, or -1.                        *)
HandleRead(c) ==
  /\ Callback(c, "IN")
  /\ revents' = [revents EXCEPT ![c] =
                   (@ \ {"IN"}) \cup (IF net[c].data THEN {"MSG"} ELSE {})]
  /\ net' = [net EXCEPT ![c].data = FALSE, ![c].err = @ /\ net[c].data]
  /\ IF net[c].data \/ net[c].err
     THEN UNCHANGED <<poller, state, output, callbacks, server, ioQueue, user>>
     ELSE CloseConnection(c)

(* The user's callback does nothing, or calls send() or shutdown().        *)
MessageCallback(c) ==
  /\ Callback(c, "MSG")
  /\ revents' = [revents EXCEPT ![c] = @ \ {"MSG"}]
  /\ \/ UNCHANGED <<poller, state, output, net, callbacks, ioQueue>>
     \/ /\ state[c] = "connected"
        /\ SendInLoop(c)
     \/ /\ state[c] = "connected"
        /\ state' = [state EXCEPT ![c] = "disconnected"]
        /\ ShutdownInLoop(c)
        /\ UNCHANGED ioQueue
  /\ UNCHANGED <<server, user>>

(* Mutant: a shutdown() that waited is forgotten.                          *)
FlushForgetsShutdown(c) ==
  /\ output' = [output EXCEPT ![c] = FALSE]
  /\ poller' = DisableWriting(poller, c)
  /\ UNCHANGED <<net, ioQueue, paused>>

(* Mutant: the write-complete callback is called in place.                 *)
FlushCallsInPlace(c) ==
  /\ output' = [output EXCEPT ![c] = FALSE]
  /\ poller' = DisableWriting(poller, c)
  /\ paused' = paused \ {c}
  /\ UNCHANGED <<net, ioQueue>>

(* The last of the buffer is written; a shutdown() that waited is done.    *)
Flush(c) ==
  /\ output' = [output EXCEPT ![c] = FALSE]
  /\ poller' = DisableWriting(poller, c)
  /\ Notify(c, "writeComplete")
  /\ \E room \in BOOLEAN :
       net' = [net EXCEPT ![c].room = room,
                          ![c].shut = @ \/ state[c] = "disconnected"]
  /\ UNCHANGED paused

HandleWrite(c) ==
  /\ Callback(c, "OUT")
  /\ revents' = [revents EXCEPT ![c] = @ \ {"OUT"}]
  /\ \/ /\ ~IsWriting(poller, c)
        /\ UNCHANGED <<poller, output, net, ioQueue, paused>>
     \/ /\ IsWriting(poller, c) /\ net[c].room /\ ~net[c].shut /\ net[c].peer # "reset"
        /\ \/ Flush(c)
           \/ /\ net' = [net EXCEPT ![c].room = FALSE]
              /\ UNCHANGED <<poller, output, ioQueue, paused>>
     \/ /\ IsWriting(poller, c)
        /\ ~net[c].room \/ net[c].shut \/ net[c].peer = "reset"
        /\ net' = [net EXCEPT ![c].err = FALSE]
        /\ UNCHANGED <<poller, output, ioQueue, paused>>
  /\ UNCHANGED <<state, callbacks, server, userRef, userPc>>

HandleClose(c) ==
  /\ Callback(c, "HUP")
  /\ revents' = [revents EXCEPT ![c] = {}]
  /\ CloseConnection(c)
  /\ UNCHANGED net

HandleEventReturn ==
  /\ handling # None
  /\ revents[handling] = {}
  /\ handling' = None
  /\ UNCHANGED <<poller, state, output, net, callbacks, server, ioQueue, batch, ran,
                 phase, active, revents, user>>

-----------------------------------------------------------------------------
(* The io loop: the pending functors.                                      *)

(* Mutant: the functors are run after every channel and not after all.     *)
SwapPendingFunctorsEarly ==
  /\ phase = "dispatch"
  /\ handling = None
  /\ phase' = "functors"
  /\ batch' = ioQueue
  /\ ioQueue' = <<>>
  /\ UNCHANGED <<poller, state, output, net, callbacks, server, ran, active, revents,
                 handling, user>>

SwapPendingFunctors ==
  /\ phase = "dispatch"
  /\ active = {}
  /\ handling = None
  /\ phase' = "functors"
  /\ batch' = ioQueue
  /\ ioQueue' = <<>>
  /\ UNCHANGED <<poller, state, output, net, callbacks, server, ran, active, revents,
                 handling, user>>

(* A functor bound to a bare this of a connection that is gone is run all  *)
(* the same: HeldWhileCalled says that it should not come up.              *)
RunFunctor ==
  /\ phase = "functors"
  /\ ran < Len(batch)
  /\ ran' = ran + 1
  /\ LET c == batch[ran + 1].conn
         f == batch[ran + 1].run
     IN  \/ /\ f = "connectEstablished"
            /\ ConnectEstablished(c) /\ UNCHANGED <<ioQueue, paused>>
         \/ /\ f = "connectDestroyed"
            /\ ConnectDestroyed(c) /\ UNCHANGED <<ioQueue, userRef, paused>>
         \/ /\ f = "sendInLoop" /\ Referenced(c)
            /\ SendInLoop(c) /\ UNCHANGED <<state, userRef, paused>>
         \/ /\ f = "shutdownInLoop" /\ Referenced(c)
            /\ ShutdownInLoop(c) /\ UNCHANGED <<state, ioQueue, userRef, paused>>
         \/ /\ \/ f = "highWater"     /\ paused' = paused \cup {c}
               \/ f = "writeComplete" /\ paused' = paused \ {c}
            /\ UNCHANGED <<poller, state, output, net, callbacks, ioQueue, userRef>>
         \/ /\ f \notin Strong /\ ~Referenced(c)
            /\ UNCHANGED <<poller, state, output, net, callbacks, ioQueue, userRef,
                           paused>>
  /\ UNCHANGED <<server, batch, phase, active, revents, handling, userPc>>

(* The batch's destructor lets its shared pointers go.                     *)
EndPendingFunctors ==
  /\ phase = "functors"
  /\ ran = Len(batch)
  /\ phase' = "poll"
  /\ batch' = <<>>
  /\ ran' = 0
  /\ UNCHANGED <<poller, state, output, net, callbacks, server, ioQueue, active,
                 revents, handling, user>>

-----------------------------------------------------------------------------
(* Whoever drops the last shared pointer runs ~TcpConnection.              *)
Free(c) ==
  /\ IsLive(poller, c)
  /\ ~Referenced(c)
  /\ poller' = DeleteChannel(poller, c)
  /\ state' = [state EXCEPT ![c] = "freed"]
  /\ output' = [output EXCEPT ![c] = FALSE]
  /\ UNCHANGED <<net, callbacks, server, ioQueue, loop, user>>

(* The user thread calls send() or shutdown(), as often as it likes but    *)
(* for the bound on send(): _state is tested, ...                          *)
UserCall(c, op) ==
  /\ c \in userRef
  /\ userPc[c] = "idle"
  /\ op = "send" => SendsUnderWay(c) < MaxSends
  /\ state[c] = "connected"
  /\ userPc' = [userPc EXCEPT ![c] = op]
  /\ UNCHANGED <<poller, state, output, net, callbacks, server, ioQueue, loop, userRef,
                 paused>>

(* ... set by shutdown(), ...                                              *)
UserStore(c) ==
  /\ userPc[c] = "shutdown"
  /\ state' = [state EXCEPT ![c] = "disconnected"]
  /\ userPc' = [userPc EXCEPT ![c] = "stored"]
  /\ UNCHANGED <<poller, output, net, callbacks, server, ioQueue, loop, userRef,
                 paused>>

(* ... and the functor is handed over.                                     *)
UserQueue(c) ==
  /\ userPc[c] \in {"send", "stored"}
  /\ ioQueue' = Append(ioQueue, Functor(IF userPc[c] = "send" THEN "sendInLoop"
                                                             ELSE "shutdownInLoop", c))
  /\ userPc' = [userPc EXCEPT ![c] = "idle"]
  /\ UNCHANGED <<poller, state, output, net, callbacks, server, loop, userRef,
                 paused>>

UserDrop(c) ==
  /\ c \in userRef
  /\ userPc[c] = "idle"
  /\ userRef' = userRef \ {c}
  /\ UNCHANGED <<poller, state, output, net, callbacks, server, ioQueue, loop, userPc,
                 paused>>

-----------------------------------------------------------------------------
(* The peer.                                                               *)

Accepted(c) == state[c] \notin {"unborn", "freed"}

PeerStep(c, socket) ==
  /\ Accepted(c)
  /\ net' = [net EXCEPT ![c] = socket]
  /\ UNCHANGED <<poller, state, output, callbacks, server, ioQueue, loop, user>>

PeerSends(c) ==
  /\ net[c].peer = "open" /\ ~net[c].data
  /\ PeerStep(c, [net[c] EXCEPT !.data = TRUE])

PeerReads(c) ==
  /\ net[c].peer # "reset" /\ ~net[c].room
  /\ PeerStep(c, [net[c] EXCEPT !.room = TRUE])

PeerCloses(c) ==
  /\ net[c].peer = "open"
  /\ PeerStep(c, [net[c] EXCEPT !.peer = "closed"])

PeerResets(c) ==
  /\ net[c].peer # "reset"
  /\ PeerStep(c, [net[c] EXCEPT !.peer = "reset", !.err = TRUE])

-----------------------------------------------------------------------------

CallbackStep(c) ==
  \/ HandleError(c) \/ HandleRead(c) \/ MessageCallback(c)
  \/ HandleWrite(c) \/ HandleClose(c)

IoStep ==
  \/ Poll
  \/ \E c \in Conns : HandleEvent(c) \/ CallbackStep(c)
  \/ HandleEventReturn
  \/ SwapPendingFunctors \/ RunFunctor \/ EndPendingFunctors

UserStep(c) ==
  \/ UserStore(c) \/ UserQueue(c) \/ UserDrop(c)
  \/ \E op \in UserOps : UserCall(c, op)

Peer(c) == PeerSends(c) \/ PeerReads(c) \/ PeerCloses(c) \/ PeerResets(c)

Next ==
  \/ IoStep
  \/ BaseRunFunctor
  \/ DestroyServer
  \/ \E c \in Conns : NewConnection(c) \/ Free(c) \/ UserStep(c) \/ Peer(c)

FlushStep(c) == HandleWrite(c) /\ IsWriting(poller, c) /\ ~IsWriting(poller', c)

(* A step that is, or cannot be told from, a send.                         *)
SendStep(c) ==
  /\ SendInLoop(c)
  /\ \/ MessageCallback(c) /\ state[c] = "connected"
     \/ RunFunctor /\ batch[ran + 1] = Functor("sendInLoop", c)

(* Both loops' threads are scheduled, a user's call that has begun ends, a *)
(* destructor runs, and a peer that has not reset the connection reads.    *)
(* The output buffer is finite, so writes that find room for ever end with *)
(* one that empties it, unless more is sent for ever: that is the strong   *)
(* fairness of FlushStep and its condition.                                *)
Fairness ==
  /\ WF_vars(IoStep)
  /\ WF_vars(BaseRunFunctor)
  /\ \A c \in Conns :
       /\ WF_vars(Free(c)) /\ WF_vars(UserStore(c)) /\ WF_vars(UserQueue(c))
       /\ WF_vars(PeerReads(c))
       /\ SF_vars(FlushStep(c)) \/ []<><<SendStep(c)>>_vars

Spec == Init /\ [][Next]_vars /\ Fairness

-----------------------------------------------------------------------------
(* Properties.                                                             *)

(* Every variable keeps its type; channels are dispatched in the dispatch  *)
(* phase only, and the connection callback says "up" at most once.         *)
TypeOK ==
  /\ poller \in PollerType
  /\ state \in [Conns -> {"unborn", "connecting", "connected", "disconnected", "freed"}]
  /\ output \in [Conns -> BOOLEAN]
  /\ net \in [Conns -> [peer : {"open", "closed", "reset"}, data : BOOLEAN,
                        room : BOOLEAN, shut : BOOLEAN, err : BOOLEAN]]
  /\ callbacks \in [Conns -> [up : 0 .. 1, down : Nat]]
  /\ serverUp \in BOOLEAN
  /\ connections \subseteq Conns
  /\ \A queue \in {baseQueue, ioQueue, batch} :
       queue \in Seq([run : Strong \cup {"sendInLoop", "shutdownInLoop"}, conn : Conns])
  /\ ran \in 0 .. Len(batch)
  /\ phase \in {"poll", "dispatch", "functors"}
  /\ active \subseteq Conns
  /\ revents \in [Conns -> SUBSET {"ERR", "IN", "MSG", "OUT", "HUP"}]
  /\ handling \in Conns \cup {None}
  /\ userRef \subseteq Conns
  /\ userPc \in [Conns -> {"idle", "send", "shutdown", "stored"}]
  /\ paused \subseteq Conns
  /\ phase # "dispatch" => active = {} /\ handling = None

(* No pointer to a channel outlives its connection: one that loop() is to  *)
(* dispatch or dispatches, that channels_ or the kernel holds, belongs to  *)
(* a connection that somebody still has a shared pointer to.               *)
NoDanglingChannel ==
  \A c \in Conns :
    \/ c \in active \cup {handling}
    \/ poller.channels[c] # None
    \/ poller.interest[c] # None
    => Referenced(c)

(* The connections use the poller the way ChannelPoller supposes: no call  *)
(* is refused, the tables agree, and a closed connection is not reported.  *)
PollerUse ==
  ~poller.failed /\ RegistryConsistent(poller) /\ QuietWhenNone(poller)

(* The user's connection callback says "up" and then "down" once each for  *)
(* every connection, and never "down" without "up".  As long as there is a *)
(* server, "down" comes no later than when the connection leaves its map,  *)
(* whoever closes, resets or shuts down meanwhile.                         *)
OneDownPerUp ==
  \A c \in Conns :
    /\ callbacks[c].down <= callbacks[c].up
    /\ callbacks[c].down <= 1
    /\ serverUp /\ (Accepted(c) \/ state[c] = "freed") =>
         c \in connections \/ callbacks[c].down = 1

(* A sendInLoop that comes after the close can register the channel again  *)
(* (see GivesUpWriting), and a hangup that is then reported says "down"    *)
(* once more.  It takes one such call each time: every "down" but the      *)
(* first is paid for by a send() that was under way at the first close.    *)
DownsPaidFor ==
  \A c \in Conns :
    callbacks[c].down > 0 => callbacks[c].down + SendsUnderWay(c) <= 1 + MaxSends

(* As long as the connection has not been closed, shutdown() shuts the     *)
(* sending side only when everything accepted by send() has been written,  *)
(* and nothing more is accepted after that.                                *)
DrainedBeforeShut ==
  \A c \in Conns :
    net[c].shut /\ callbacks[c].down = 0 => ~output[c] /\ ~IsWriting(poller, c)

(* Output that waits is watched for: as long as the connection has not     *)
(* been closed, its channel has writing enabled.                           *)
OutputIsWatched ==
  \A c \in Conns :
    output[c] /\ callbacks[c].down = 0 => IsWriting(poller, c)

(* The user's message callback runs only between the two: not before "up", *)
(* and not for data that arrives or is found after "down".                 *)
MessagesOnlyWhileUp ==
  \A c \in Conns :
    handling = c /\ "MSG" \in revents[c] =>
      callbacks[c].up = 1 /\ callbacks[c].down = 0

(* The high-water callback is not the last word: as long as the connection *)
(* has not been closed, a user who has been told to pause will be told     *)
(* that everything is written, as something still is not, or that message  *)
(* is on its way.                                                          *)
PausedHasOutput ==
  \A c \in paused :
    \/ output[c]
    \/ Functor("writeComplete", c) \in ToSet(ToRun)
    \/ ~Accepted(c) \/ callbacks[c].down > 0

(* And it is told in the end if it does pause and not go on sending,       *)
(* unless the connection is closed, its sending side was shut under it, or *)
(* ~TcpServer destroys it.                                                 *)
PausedIsResumed ==
  \A c \in Conns :
    \/ []<><<c \in paused /\ SendStep(c)>>_vars
    \/ c \in paused ~>
         c \notin paused \/ callbacks[c].down > 0 \/ net[c].shut \/ ~serverUp

(* A connection whose peer has gone is destroyed, unless the user keeps a  *)
(* pointer to it or ~TcpServer comes in between (its base loop may hold a  *)
(* removal that is never run).                                             *)
ClosedIsFreed ==
  \A c \in Conns :
    Accepted(c) /\ net[c].peer # "open" ~>
      state[c] = "freed" \/ c \in userRef \/ ~serverUp

(* shutdown() ends the sending side, once the output has been written, if  *)
(* the connection is not closed, or destroyed by ~TcpServer, before.       *)
ShutdownCompletes ==
  \A c \in Conns :
    state[c] = "disconnected" ~>
      net[c].shut \/ callbacks[c].down = 1 \/ ~serverUp

-----------------------------------------------------------------------------
(* What the comments say and the code does not do.                         *)

(* "disconnected, give up writing" (TcpConnection.cpp:62): a sendInLoop    *)
(* that finds the connection disconnected leaves it alone.                 *)
GivesUpWriting ==
  [][\A c \in Conns :
       /\ RunFunctor
       /\ batch[ran + 1] = Functor("sendInLoop", c)
       /\ state[c] = "disconnected"
       => output'[c] = output[c] /\ IsWriting(poller', c) = IsWriting(poller, c)
    ]_vars

(* "The creation and the destruction of a connection both need to call the *)
(* connection callback" (TcpConnection.cpp:147-149): a connection that has *)
(* been through connectDestroyed has been announced as down.               *)
DestructionAnnounced ==
  \A c \in Conns :
    callbacks[c].up = 1 /\ poller.index[c] = "new" => callbacks[c].down = 1

(* "So that the connection is not released while its callbacks run"        *)
(* (TcpConnection.cpp:153-156): whatever the io loop calls next, somebody  *)
(* holds the connection.                                                   *)
HeldWhileCalled ==
  phase = "functors" /\ ran < Len(batch) => Referenced(batch[ran + 1].conn)

=============================================================================
