--------------------------- MODULE ChannelPoller ---------------------------
(***************************************************************************)
(* The channels of one EventLoop under any owners that keep to the order   *)
(* TcpConnection, Acceptor and EventLoop keep to: a channel is registered, *)
(* used, removed once, and deleted with its fd after that, by whichever    *)
(* thread drops the last reference.  File descriptors are used again by    *)
(* later channels.                                                         *)
(*                                                                         *)
(* The loop's thread polls, dispatches the channels that were reported,    *)
(* then runs the pending functors (see EventLoop for how it gets there).   *)
(* What the owners' callbacks decide is left open.                         *)
(***************************************************************************)
EXTENDS EpollPoller

VARIABLES
  poller,    (* the channels, the poller and the kernel's epoll instance   *)
  phase,     (* what loop() is doing: "poll", "dispatch" or "functors"     *)
  active,    (* channels in activeChannels_ not yet dispatched             *)
  handling,  (* the channel whose handleEvent is running, or None          *)
  retired    (* channels whose owner has removed them for good             *)

vars == <<poller, phase, active, handling, retired>>

Init ==
  /\ poller = NewPoller
  /\ phase = "poll"
  /\ active = {}
  /\ handling = None
  /\ retired = {}

-----------------------------------------------------------------------------
(* loop().                                                                 *)

Registered == {f \in Fds : poller.interest[f] # None}

(* epoll_wait and fillActiveChannels: any of the registered fds are ready, *)
(* or none (a timeout).                                                    *)
Poll ==
  /\ phase = "poll"
  /\ \E ready \in SUBSET Registered :
       active' = {poller.interest[f].ptr : f \in ready}
  /\ phase' = "dispatch"
  /\ UNCHANGED <<poller, handling, retired>>

HandleEvent(c) ==
  /\ phase = "dispatch"
  /\ handling = None
  /\ c \in active
  /\ active' = active \ {c}
  /\ handling' = c
  /\ UNCHANGED <<poller, phase, retired>>

HandleEventReturn ==
  /\ handling # None
  /\ handling' = None
  /\ UNCHANGED <<poller, phase, active, retired>>

(* Mutant: the functors are run after every channel and not after all.     *)
BeginFunctorsEarly ==
  /\ phase = "dispatch"
  /\ handling = None
  /\ phase' = "functors"
  /\ UNCHANGED <<poller, active, handling, retired>>

BeginFunctors ==
  /\ phase = "dispatch"
  /\ active = {}
  /\ handling = None
  /\ phase' = "functors"
  /\ UNCHANGED <<poller, active, handling, retired>>

EndFunctors ==
  /\ phase = "functors"
  /\ phase' = "poll"
  /\ UNCHANGED <<poller, active, handling, retired>>

-----------------------------------------------------------------------------
(* The owners.                                                             *)

(* The acceptor's thread makes a Channel for an fd nobody has open.        *)
Create(c, f) ==
  /\ ~IsLive(poller, c)
  /\ \A d \in Channels : poller.fd[d] # f
  /\ poller' = NewChannel(poller, c, f)
  /\ UNCHANGED <<phase, active, handling, retired>>

(* Code of the owner that runs on the loop's thread: a callback or a       *)
(* functor.                                                                *)
OnLoopThread(c) ==
  /\ phase = "functors" \/ handling # None
  /\ IsLive(poller, c)
  /\ c \notin retired

Enable(c) ==
  /\ OnLoopThread(c)
  /\ \/ poller' = EnableReading(poller, c)
     \/ poller' = EnableWriting(poller, c)
  /\ UNCHANGED <<phase, active, handling, retired>>

(* handleWrite and handleClose disable a channel only while it is added.   *)
Disable(c) ==
  /\ OnLoopThread(c)
  /\ poller.index[c] = "added"
  /\ \/ poller' = DisableReading(poller, c)
     \/ poller' = DisableWriting(poller, c)
     \/ poller' = DisableAll(poller, c)
  /\ UNCHANGED <<phase, active, handling, retired>>

(* Mutant: the owner removes its channel as soon as it sees the end.       *)
RemoveInPlace(c) ==
  /\ OnLoopThread(c)
  /\ \/ poller' = RemoveChannel(poller, c)
     \/ poller' = RemoveChannel(DisableAll(poller, c), c)
  /\ retired' = retired \cup {c}
  /\ UNCHANGED <<phase, active, handling>>

(* connectDestroyed and the destructors of Acceptor and EventLoop: removed *)
(* by a functor, or outside loop(), never while channels are dispatched.   *)
Remove(c) ==
  /\ phase = "functors"
  /\ OnLoopThread(c)
  /\ \/ poller' = RemoveChannel(poller, c)
     \/ poller' = RemoveChannel(DisableAll(poller, c), c)
  /\ retired' = retired \cup {c}
  /\ UNCHANGED <<phase, active, handling>>

(* The last reference goes, on any thread and at any time after that.      *)
Delete(c) ==
  /\ c \in retired
  /\ poller' = DeleteChannel(poller, c)
  /\ retired' = retired \ {c}
  /\ UNCHANGED <<phase, active, handling>>

-----------------------------------------------------------------------------

LoopStep ==
  \/ Poll
  \/ \E c \in Channels : HandleEvent(c)
  \/ HandleEventReturn
  \/ BeginFunctors
  \/ EndFunctors

OwnerStep(c) ==
  \/ \E f \in Fds : Create(c, f)
  \/ Enable(c)
  \/ Disable(c)
  \/ Remove(c)
  \/ Delete(c)

Next == LoopStep \/ \E c \in Channels : OwnerStep(c)

Spec == Init /\ [][Next]_vars

-----------------------------------------------------------------------------
(* Properties.                                                             *)

(* The poller's tables keep their types, and only the dispatch phase has   *)
(* channels to dispatch or one whose handleEvent is running.               *)
TypeOK ==
  /\ poller \in PollerType
  /\ phase \in {"poll", "dispatch", "functors"}
  /\ active \subseteq Channels
  /\ handling \in Channels \cup {None}
  /\ retired \subseteq Channels
  /\ phase # "dispatch" => active = {} /\ handling = None

(* updateChannel and removeChannel never make an epoll_ctl call that the   *)
(* kernel refuses, which EpollPoller::update would log and survive with    *)
(* tables that no longer match.                                            *)
CtlNeverFails == ~poller.failed

(* Whatever the order of enables, disables, removals and reuses of an fd,  *)
(* index_, channels_, events_ and the interest list agree.                 *)
Consistent == RegistryConsistent(poller)

(* A channel whose events_ is KNoneEvent is out of the interest list, so   *)
(* that a hangup is not reported to it for ever.                           *)
Quiet == QuietWhenNone(poller)

(* No Channel* that loop() still has to dispatch, is dispatching, or may   *)
(* be handed by the kernel, points to a deleted channel.                   *)
NoDanglingChannel ==
  /\ \A c \in active \cup ({handling} \ {None}) : IsLive(poller, c)
  /\ \A f \in Registered : IsLive(poller, poller.interest[f].ptr)
  /\ \A f \in Fds : poller.channels[f] # None => IsLive(poller, poller.channels[f])

=============================================================================
