# A TLA+ verification of Web-Core

Web-Core is a TCP server library in the style of muduo, with an echo server
(`src/main.cpp`) on top: one event loop per thread, epoll in level-triggered
mode, non-blocking sockets, connections held by `shared_ptr`. This directory has
TLA+ models of its concurrent core, the TLC runs that check them, and TLAPS
proofs of what matters most. All paths below are relative to `src/`.

## 1. The system

| component | state it keeps | operations | talks to |
|---|---|---|---|
| `EventLoop` (`ZEventLoop/event_loop.cpp`) | `quit_`, `callingPendingFunctors_`, `pendingFunctors_` (mutex), `wakeupFd_`, `activeChannels_` | `loop`, `quit`, `runInLoop`, `queueInLLoop`, `wakeup`, `handleRead`, `doPendingFunctors` | Poller; every other thread, through `pendingFunctors_` and the eventfd |
| `Channel` (`ZChannel/channel.cpp`) | `fd_`, `events_`, `revents_`, `index_`, `tie_` | enable/disable reading/writing, `disableAll`, `remove`, `handleEvent`, `tie` | its loop's Poller; its owner, through callbacks |
| `EpollPoller` (`ZEpollPoller`), `Poller` | `channels_` (fd to `Channel*`), the kernel's interest list | `poll`, `updateChannel`, `removeChannel`, `update` | Channel, epoll |
| `TcpConnection` (`ZTcpConnection`) | `_state` (atomic), `_inputBuffer`, `_outputBuffer`, socket, channel, callbacks | `send`, `shutdown`, `connectEstablished`, `connectDestroyed`, `handleRead/Write/Close/Error` | io loop, user threads, the server's close callback |
| `TcpServer` (`ZTcpServer`) | `connections`, `nextConnId`, `started` | `start`, `newConnection`, `removeConnection`, `removeConnectionInPool`, destructor | Acceptor, thread pool, base and io loops |
| `Buffer` (`ZBuffer`) | `buffer_`, `readerIndex_`, `writerIndex_` | `append`, `retrieve*`, `ensureWritableBytes`, `makeSpace`, `readFd`, `writeFd` | sockets |
| `Acceptor` (`ZAcceptor`) | listening socket and channel | `listen`, `handleRead` | base loop, TcpServer |
| `EventLoopThread`, `EventLoopTreadPool` (`ZEventLoop`), `Thread_` (`ZThread`) | `loop_` (mutex, condition), threads, round-robin index | `startLoop`, `threadFunc`, `getNextLoop`, start/join/detach | EventLoop |
| `Socket`, `InetAddress`, `Logger`, `TimeStamp`, `CurrentThread` | an fd; values; a log level | wrappers | everybody |

How they interact: the base loop's thread accepts connections and keeps the map;
each connection lives on one io loop, whose thread alone touches its channel and
buffers; other threads reach it only by appending functors. A connection that
ends goes io loop (`handleClose`), base loop (`removeConnectionInPool`), io loop
(`connectDestroyed`), and is freed by whoever drops the last `shared_ptr`.
The kernel and `activeChannels_` keep *raw* `Channel*`.

What is hard here, and what makes each part correct:

* **EventLoop.** Two clients and the loop interleave between the locked append,
  the eventfd write, the test of `quit_`, poll and the swap. Correct: poll never
  sleeps on a pending functor or on a quit; functors run once, in order, one at a
  time, and in the end; a self-queueing functor does not starve I/O.
* **Channel / EpollPoller.** A three-valued `index_`, `events_`, `channels_` and
  the kernel's list have to agree after any sequence of calls, while fds are used
  again. Correct: no refused `epoll_ctl`, agreement, no dangling pointer, and no
  spinning on a hangup nobody handles.
* **TcpConnection / TcpServer.** Peer close, reset, `shutdown()`, `send()` and
  `~TcpServer` in any order on three threads. Correct: up and down announced once
  each, the object alive while anything points to it, freed in the end, FIN after
  the last byte, no message outside up and down.
* **Buffer and the byte path.** Short reads and writes, full queues, a vector
  that grows or moves. Correct: a FIFO of bytes, bounded memory, write event on
  exactly while output waits.
* **Thread start and stop, accepting.** `startLoop` hands out a pointer to a
  variable on another thread's stack; `~TcpServer`, `~EventLoopThread` and the io
  threads take everything down together, while peers close; `loop()` resets
  `quit_`; functors are left behind in loops that end; accept may have no fd.
  Correct: no loop goes before those who use it, every connection is destroyed
  once, the io threads are joined, the io loops get their share, and a lack of
  fds is got over.

`PROJECT.json` lists every component and, under `hazards`, each of these at its
line, with the properties that cover it or the reason why none does.

## 2. Modules

| module | what it is | code |
|---|---|---|
| `FunctorQueue` | abstract: what an EventLoop promises to those who hand it callbacks | - |
| `EventLoop` | one loop, its thread, client threads | `event_loop.cpp` |
| `EpollPoller` | operators on channels + poller + kernel table (a record `p`) | `channel.cpp`, `epollpoller.cpp` |
| `ChannelPoller` | a loop's channels under any disciplined owners, fds used again | same, plus `loop()` |
| `TcpConnection` | connections between server, io loop, user thread, peer | `TcpConnection.cpp`, `tcp_server.cpp` |
| `ServerThreads` | a server's main thread and io threads, from `start()` to the last destructor | `event_loop_thread.cpp`, `event_loop_thread_pool.cpp`, `thread_.cpp`, `tcp_server.cpp`, `acceptor.cpp`, `main.cpp` |
| `Buffer` | operators on `buffer_` and its two indices, cell by cell | `buffer.cpp` |
| `ByteStream` | abstract: a FIFO of bytes | - |
| `EchoStream` | the bytes of one echo connection, peer to peer | `TcpConnection.cpp`, `buffer.cpp`, `main.cpp` |
| `MC*` | instances for TLC | - |
| `SequenceLemmas`, `*Proofs` | proofs (section 5) | - |

`TcpConnection` INSTANCEs `EpollPoller`; `ChannelPoller` and `EchoStream` extend
`EpollPoller` and `Buffer`. The composition is by layers: `EventLoop` implements
`FunctorQueue`, and `TcpConnection` takes both loops at that level (a queue whose
head runs; the io loop keeps the phases poll, dispatch, batch, because *when* a
functor runs relative to stale events, and when the batch lets its bound
pointers go, matters). `ChannelPoller` says how owners have to use the poller and
deals with fd reuse; `TcpConnection`'s `PollerUse` checks that connections do so.
`ServerThreads` composes the other way: any number of loops, each with its rounds
and its place in its thread's life, and of a connection only what the server, the
fd and the functors know of it.

### EventLoop
`pc` is the place in `loop()`; `pending` is `pendingFunctors_`, `functors` what is
left of the local vector, `stack` the callbacks on the loop's thread, `clientPc`
where a client is between its append (or its store to `quit_`) and its `wakeup()`.
`Push`/`Quit` then `Wakeup` are a client's two steps; `LoopQueue`, `LoopRun`,
`LoopQuit` are the same calls made on the loop's own thread, which wakes itself
only if `callingPendingFunctors_`. `BeginPendingFunctors`, `SwapPendingFunctors`,
`RunFunctor`, `EndPendingFunctors` are the four parts of `doPendingFunctors`.
The eventfd's counter is zero or not; all other channels are one level-triggered
source. A functor's name may be used again after it has run, so behaviours are
endless and only the number of functors *at a time* is bounded.

### EpollPoller, ChannelPoller
`p.fd`, `p.events`, `p.index` are the Channel's fields, `p.channels` is
`channels_`, `p.interest` the kernel's list with the registered pointer and
events, `p.failed` remembers a refused `epoll_ctl` (`update` only logs it).
`ChannelPoller` leaves the owners' decisions open and keeps the order the owners
in this repository keep: a channel is removed from a functor or outside `loop()`
(`connectDestroyed`, `~Acceptor`, `~EventLoop`), once, and its object and fd go
after that, on any thread.

### TcpConnection
A connection's `state` is `_state` with "unborn" and "freed" around it; `output`
is whether `_outputBuffer` holds anything; `net` is the socket and its peer;
`baseQueue`, `ioQueue`, `batch` are the functors with what they are bound to
(`Strong` ones hold a `shared_ptr`, the others a bare `this`), so that
`Referenced` is "use count is not zero". The callbacks of one `handleEvent`
(error, read, message, write, close) are separate steps, since other threads run
between them. The message callback may do nothing, send or shut down. A user
thread may hold pointers and call `send`/`shutdown`: the test of `_state`
(`UserCall`), the store of `shutdown()` (`UserStore`) and the hand-over of the
functor (`UserQueue`) are steps of their own. It may call again while functors of
earlier calls wait, up to `MaxSends` calls of `send()` under way; `shutdown()` needs
no bound, as it ends its own precondition. With `FlowControl` the user has set the high-water and
write-complete callbacks, which are queued (`Notify`), and keeps a flag `paused`
between the two; an append may or may not reach the mark. ~TcpServer
(`DestroyServer`) may run between any two steps if `ServerMayStop`; a removal left
in the base loop by then is never run, as the base loop has returned.

### ServerThreads
Thread 0 is `main()`, thread t the t-th `EventLoopThread`. `at[t]` is where it is:
for an io thread "unborn", "spawned" (the EventLoop is being constructed and the
init callback called), "published" (`loop_` is set), the four places of `loop()`
("test", "poll", "dispatch", "functors"), "left", "cleared" (`loop_` is nullptr
again), "ended" (~EventLoop has run); for the main thread "start", "await" (in
`startLoop`), then the same places in the base loop, and when it has left that
loop "wakeup" (between the two halves of `quit()`), "join", "ended".
`loops` is the size of `_loops`, `joined` how many EventLoopThreads are destroyed,
`next` is `_next`. `AcceptConnection` is `handleRead`, `newConnection` and, on the
base loop, the in-place `connectEstablished`; `AcceptFails` is the branch for
EMFILE, taken when every fd of `FdLimit` belongs to a connection that somebody
refers to. `DestroyConnection` is one turn of `~TcpServer`'s loop; then the members
go, the pool before the acceptor, and each `~EventLoopThread` is `QuitLoop`,
`WakeupLoop`, `Join`. `QuitBaseLoop` is somebody's quit of the base loop: nothing
in `main.cpp` does it, but `loop()` returning is what the code after it is for.

### Buffer, EchoStream
Indices count from 0 as in the code. One handler (`handleRead` with the message
callback and `sendInLoop`; `handleWrite`) is one step, as only the io loop's
thread touches the buffers. Bytes are numbered modulo `Modulus` (no code looks
at their values), more numbers than one step moves. A `write()` that returns -1
and an uninitialized `nwrote` are modelled as what they do: a stray byte in front
of the data, and arbitrary bytes. `WaitsForRoom` separates the two uses of the
library: a callback that sends only when the output buffer is empty and the
socket takes something, for which the byte path is right, and `main.cpp`'s. Only
with `WaitsForRoom = FALSE` is `MessageCallback` the code of `main.cpp:63-70`. The
other one is an assumption about a user of the library that the library does not
help to meet: no public function says whether the output buffer is empty or the
socket takes something. Under it no append ever lands behind output that waits,
so `EchoesInOrder` says nothing of that append, of which the code reads an
uninitialized offset (finding 5). `MaxHeld` bounds what such a callback leaves in
the input buffer: the model takes no read that would leave more, while the code,
which never disables reading, would.

## 3. Runs

| run | instance | shows |
|---|---|---|
| `event_loop` | 2 clients, 3 functors, nesting 2 | no lost wakeup or quit; refinement of `FunctorQueue`; functors run; quit ends the loop; I/O is polled |
| `event_loop_init_queue` | 1 client, 2 functors, init callback queues | **violation**: first poll sleeps on the functor |
| `channel_poller` | 3 channels, 2 fds (symmetric) | tables agree, no refused call, no hangup spin, nothing dangles |
| `connection` | 1 connection, own io loop, message callback sends, user thread shuts down, both flow control callbacks set, peer does anything, server may be destroyed at any step | safety, and with fairness: closed connections are freed, shutdown completes, who pauses at the high-water mark is told to go on |
| `one_loop` | 2 connections on the accepting loop (symmetric), user shuts down | the same safety when `runInLoop` is a call in place |
| `any_call` | 1 connection, user thread sends, up to two calls under way, and shuts down, both callbacks set, server may be destroyed at any step | every "down" but the first is paid for by a `send()`; messages only between up and down; waiting output is watched; behind a high-water notice comes a write-complete one |
| `server_threads` | 0, 1 or 2 io threads, 3 peers, 2 fds | loops outlive their users; connections destroyed once; even shares; threads are joined; EMFILE is got over |
| `gives_up_writing` | user sends | **violation**: "give up writing" writes |
| `destruction_announced` | server may be destroyed | **violation**: shut down, destroyed, never announced down |
| `held_while_called` | user shuts down | **violation**: functor on a bare `this` outlives the connection |
| `echo_stream` | queues of 2, vector of 1+1, spill buffer of 1, up to 2 bytes held back | FIFO, bounded vectors, write event exact, output drains |
| `echo_at_once` | same, `main.cpp`'s callback | **violation**: what is buffered is not the rest of the data |

**Why the bounds are enough.** *event_loop*: a wakeup is lost between one append
and one poll; a second client puts a wakeup, a quit or another append in between,
and three functors let one run, one wait in the batch and one be appended behind
it; nesting 2 is a call in place inside a callback. *channel_poller*: two fds and
three channels, so that an fd changes hands while the other channel is in use and
the third waits for it. *connection*: connections share nothing but the queues and
`activeChannels_`; `one_loop` has two of them for what one does to the other in
one dispatch. *any_call*: `MaxSends` keeps the queue finite; with two calls under
way one functor can be in the batch and one behind it while a third call is made
later, a functor can be queued on either side of a close or a `shutdown()`, and
"down" is announced three times in some behaviours. The run is safety only: it has
8.4 million states, and what its liveness would be about, a pause, is in
`connection`, where the callback's sends make and keep the output waiting.
*server_threads*: two io threads give a second loop that is used while the
first is being stopped, and a round robin that wraps; with three peers one waits in
the backlog while both fds are taken, and one loop serves two connections; no
thread at all is the case of in-place calls. A fourth peer doubles the states and
shows nothing else. *echo_stream*: initial vector and spill buffer of one byte and reads of up
to two make every path of `readFd` and `makeSpace` (fits, fills exactly, spills,
moves, grows, resets) occur within a few steps; all sizes are then lifted by
proof.

**What the properties mean where it is not plain.** `OneDownPerUp` includes that a
connection which has left the server's map has been announced as down; in
`destruction_announced` the server's *destructor* empties the map, which is where
this stops being true. `DrainedBeforeShut`, `OutputIsWatched` and
`ShutdownCompletes` hold until the connection is closed: the code drops output
when the peer closes. They are checked without a user thread that sends (except
`OutputIsWatched`), because a send that loses the race of `gives_up_writing` writes
after the shutdown. What is left for such a thread is `DownsPaidFor`: a `send()`
that is overtaken by the close can bring about one more "down", and nothing else
can, so that there are never more than one plus the calls under way at the close.
`PausedHasOutput` is what makes `PausedIsResumed` true: the write-complete message
is queued behind the high-water one. `PausedIsResumed` leaves out a user who goes
on sending for ever while it is paused: if the peer reads no faster, the output
buffer is never empty and write-complete never comes. `LoopsOutliveCallers` leaves out the loop
whose EventLoopThread is being destroyed, from `quit()` to the end of `join()`
(section 6). `StopCompletes` asks that every io thread has come into `loop()`
by the time the base loop returns, and `QuitHonoured` of a quit that comes before
`loop()` says nothing, because those are lost: the interval is what section 6
describes, and no property covers it.
`HeadOfBacklogAccepted` asks for an fd, or for a connection whose peer has closed:
if nobody closes nobody can be accepted. `SizeBounded` counts what a resize wastes: `makeSpace` resizes
to `writerIndex_ + len` without moving the readable bytes first.

## 4. Fairness

* `EventLoop`: weak for the loop's thread (an OS thread is scheduled) and for a
  client between its append and its `wakeup()`; callbacks return: weak for the
  innermost, strong for the outermost, which nested calls disable now and then.
  Nothing for clients' calls, I/O or the poll timeout: no property leans on the
  ten seconds of `KPollTimeMs`.
* `TcpConnection`: weak for both loops' threads, for the destructor of an object
  nobody refers to, and for a user call that has begun (`UserStore`, `UserQueue`);
  weak for a peer that has not reset the connection to read. For the write that
  empties the output buffer (`FlushStep`): strong, *unless sends go on for ever*
  (`[]<><<SendStep(c)>>_vars`). The buffer is finite and each write with room
  shortens it, so that writes without end empty it if only finitely many appends
  come in between; the model keeps just "empty or not". Without the condition the
  fairness would be more than the code gives. `send()` is refused from `shutdown()`
  on, so the condition costs `ShutdownCompletes` nothing. Peers are never made to
  send or close.
* `ServerThreads`: weak for each thread (the OS schedules it). Peers are never made
  to connect or close, and nobody to quit the base loop.
* `EchoStream`: weak for `HandleWrite` (level-triggered epoll reports a writable
  socket again and again) and for the peer's reads.

## 5. Proofs

All theorems are checked by TLAPS for every value of the constants that satisfies
the named assumptions in the modules.

**`EventLoopProofs`.** `TypeCorrect`; `WakeupNotLost` (from
`~InitCallbackQueues`), `QuitNotLost`; `RefinesFunctorQueue`. `NoLostWakeup` is
not inductive: it speaks of poll only. `Phases` adds that
`callingPendingFunctors_` is set exactly from before the swap to the end of the
batch, so that a callback with the flag down is one of the dispatch phase, and
`WakeupOwed` that, from the swap on and up to poll, a pending functor comes with
an eventfd write done or owed. The case that fails under `InitCallbackQueues` is
`LoopQueue` at `pc = "created"`: the finding. `QuitNotLost` needs no such
assumption because a quit by the loop's own thread is tested before the next poll.

**`ChannelPollerProofs`.** `TypeCorrect`, `ClosedIsQuiet`, `TablesAgree`,
`CtlAlwaysAccepted`, `NoDangling` from
`IInv`: the tables agree, no two live channels share an fd, events are never
empty in the interest list (this is what makes the `EPOLL_CTL_DEL`/`ADD` pairing
work), a channel in `activeChannels_` or in its handler has not been removed, and
one removed for good has left the poller. One lemma per effect of `updateChannel`
and `removeChannel`, one case per action.

**`EchoStreamProofs`.** Lemmas on each operation of `Buffer`: indices stay in
order, and the readable bytes become what the operation's name says (`Append`,
`ReadFd`: the old ones followed by the data; `Retrieve`: without the first ones;
`MakeSpace`: unchanged, with the room asked for). From these `TypeCorrect`,
`WritingWhileOutput`, and `EchoesBytesInOrder`: under `WaitsForRoom` the byte path
implements `ByteStream`, with the concatenation of the send queue, the output
buffer, the input buffer and the receive queue as refinement mapping.
`BuffersBounded` (`SizeBounded`, under `WaitsForRoom` too) needs to know what a
handler finds: `Held` adds that the input buffer keeps no more than `MaxHeld`
bytes between two handlers and that an empty output buffer has its writer index
back at the front, where `retrieveAll` puts it. Without the second part each send
could push the end of the vector further out.

**`ServerThreadsProofs`.** `TypeCorrect` and `NothingGoesFirst`
(`LoopsOutliveCallers`) for any number of threads, connections and fds.
`LoopsOutliveCallers` says nothing of threads that are not in `_loops` yet, nor of
`quit_`; `Life` adds that the main thread is where the pool's numbers let it be
(`MainSound`) and that every io thread is joined, or runs *and has not been told
to quit*, or is the one being started or stopped, or is not born (`ThreadSound`).
Without the part about `quit_` a thread could leave `loop()` while others use it.
Three lemmas say what a move of the main thread, a move of an io thread and a
step that moves nobody do to `Life`; every action is one of these or belongs to
`start()` or to the destructors, which have a case each. `AcceptIsFor` (an accept
event has somebody in the backlog) is what keeps `nextConnId` a connection.

**`ServerConnectionsProofs`.** `EachDestroyedOnce` (`DestroyedOnce`) and
`EvenlyDealt` (`Balanced`), on top of the invariant of `ServerThreadsProofs`.
`DestroyedOnce` counts how often `connectDestroyed` has been queued; what decides
that count is which functor of a connection is where. `CInv` says it:
in the line of its own loop (the rest of the batch, then the queue) a connection
has at most one `connectEstablished` and at most one `connectDestroyed`, the
first in front of the second; a `removeConnectionInPool` is in the base loop's
line only, and only for a connection that has left `connections` or is about to;
and a connection that is still in the map has had no `connectDestroyed` queued.
Lemmas say what a step that queues, runs or drops a functor does to a line; the
branch of `loop()` that ends with functors still queued is one of them. `Dealing`
is the round robin: in its k-th round the loops up to `_next` have been given k + 1
connections and the others k.

**`TcpConnectionProofs`.** Everything that the runs check of `TcpConnection` as an
invariant, for any number of connections, with one loop or two, with or without
the flow control callbacks and `~TcpServer`. None of them is inductive alone;
`IInv` is, and consists of types, of where the io loop is in its round (`Round`),
and for every connection of

* `Held`: a shared pointer is one to an object that is there;
* `Table`: `fd_`, `index_`, `channels_` and the kernel's list agree, slot by slot;
* `Life`: nothing happens before `connectEstablished`, which is run once and in
  front of `connectDestroyed`;
* `Watch`: the read event is on exactly while the connection is up, and data is
  dispatched only then;
* `Flow`: every high-water notice in the line is followed by a write-complete one,
  or output still waits and will bring one about;
* `Served`: what is pending in the base loop, and that a connection is in the map
  until it has been announced as down;
* `Strict`, when no user thread sends: a channel that the poller knows is held by
  the map or by a `connectDestroyed` still to come, a closed connection wants
  no events, and a `shutdown()` past its store finds `kDisconnected` for good.

For any calls of the users: `TypeCorrect` (`TypeOK`), `WaitingOutputWatched`
(`OutputIsWatched`), `MessagesInBetween` (`MessagesOnlyWhileUp`), `PauseAnswered`
(`PausedHasOutput`). From `NoThreadSends` (no thread but the io loop's calls
`send()`; callbacks may send, and `shutdown()` is allowed to all): `AnnouncedOnce`
(`OneDownPerUp`), `ChannelsAlive` (`NoDanglingChannel`), `PollerUsedWell`
(`PollerUse`), `DrainedFirst` (`DrainedBeforeShut`). The hypothesis is needed and
no stronger than it has to be: with `UserOps = {"send", "shutdown"}` TLC violates
these four, by way of finding 2.

`EveryDownPaidFor` (`DownsPaidFor`), for any calls of the users and every
`MaxSends`, needs a second invariant, `AllCounted`, inductive together with `IInv`.
For every connection: `Sends <= MaxSends` (calls of `send()` between the test and
the end of `sendInLoop`, in the user's thread or in the queue); `Listed` (a reported
read or hangup event is one of a channel that is registered until its callback has
run, so that `handleClose` finds `KAdded` and `disableAll` really unregisters it);
`HungUp` (a hangup is for good, which rules out that `handleWrite` empties the output
between the hangup's report and its callback); and `Paid`: once "down" has been said,
the number of downs, the sends under way and one more if the channel is registered
or wants events are together no more than `1 + MaxSends`. A `sendInLoop` may register
the channel again, which costs the send, and a `handleClose` of it says "down", which
costs the registration; nothing gives either back, as `_state` is no longer
kConnected and no new call passes the test.

The proof has a lemma per action (`NewConnectionQueuedHolds`, `ShutdownHolds`, ...)
and, as most actions touch one connection, lemmas that carry `ConnInv` over for
all the others (`Same`, `SameHolds`). Without io loops of their own a removal runs
down to `connectDestroyed` within `handleClose`: this is the second
case of the lemmas about closing.

`SequenceLemmas` has facts about cutting and joining sequences, and about the
first of a batch that is being run.

**Only model-checked:** all liveness (`FunctorsRun`, `QuitHonoured`,
`IoNotStarved`, `ClosedIsFreed`, `ShutdownCompletes`, `PausedIsResumed`,
`OutputDrains`, `StopCompletes`, `HeadOfBacklogAccepted`), which is out of the
prover's reach. Every invariant that a passing run checks is proved. The five
violations are TLC's: a counterexample needs no proof.

## 6. Findings

1. `event_loop.cpp:95` (`event_loop_init_queue`): a functor queued by the
   thread-init callback waits up to ten seconds, against the comment in 93-94.
2. `TcpConnection.cpp:60-63` (`gives_up_writing`): the message says that writing
   is given up; there is no `return`. After `connectDestroyed` this path puts the
   channel back into the poller, where it dangles once the user drops its pointer,
   and a hangup it reports runs `handleClose` a second time. This is why
   `NoDanglingChannel` and `OneDownPerUp` are checked with a user thread that only
   shuts down.
3. `TcpConnection.cpp:165`, `129` (`destruction_announced`): `shutdown()` stores
   `kDisconnected`, so that destruction by `~TcpServer` is not announced, against
   the comment in 147-149.
4. `TcpConnection.cpp:130` (`held_while_called`): bare `this` in a functor, against
   the intent of the comment in 153-156.
5. `TcpConnection.cpp:71`, `53`/`114` (`echo_at_once`): -1 taken for a length, and
   an uninitialized offset, so that the buffer gets other bytes than the comment
   in 103-106 says.

Two more things `ServerThreads` reaches. No comment or test says that they cannot
happen, so no run is written against them; the properties name the interval
instead:

* A `quit()` between the publication of `loop_` and `loop()`'s `quit_ = false`
  (`event_loop.cpp:51`) is lost, and `~EventLoopThread` waits in `join()` for ever.
  It takes a base loop that returns before a thread of the pool has been
  scheduled. `StopCompletes` without its condition fails this way.
* `quit()` stores `quit_` and then calls `isInLoopThread()` and `wakeup()`
  (`event_loop.cpp:69-73`): the io thread may see `quit_`, leave, and destroy the
  EventLoop on its stack first.

## 7. Not modelled, assumptions, and the plan

Taken as given: SIGPIPE is ignored by the embedding program (the repository does
not do it, and without it a write to a reset socket ends the process); allocation
and `eventfd`/`epoll_create1` succeed; what a functor bound to a destroyed server or
connection does is not followed (that it comes up is finding 4). In
`ServerThreads`: the timeout of poll (a round that finds nothing), the semaphore of
`Thread_::start` (posted before the `loop_` that `startLoop` waits for in any
case), a second `start()` (does nothing), `detach` (never reached), an io loop that
its own callback quits (nothing in the repository does). Left out for
good: log texts, time stamps, address formatting, socket options.

Order of work, most important behaviour first:

1. `EventLoop` over `FunctorQueue` - done, with proofs.
2. `EpollPoller`, `ChannelPoller` - done, with proofs.
3. `TcpConnection` with the server's part of a connection's life - done, with proofs.
4. `Buffer`, `EchoStream` over `ByteStream` - done, with proofs.
5. `ServerThreads`: `EventLoopThread`, `Thread_`, `EventLoopTreadPool`, `TcpServer`,
   `Acceptor` at the fd limit, destruction - done, with proofs.
6. Write-complete and high-water callbacks, `~TcpServer` at any time in
   `TcpConnection` - done, with proofs.
7. Proofs of every invariant that a run checks - done.
8. The bound on "down" when user threads send, by the number of their calls under
   way, with a second inductive invariant (section 5) - done.
