------------------------ MODULE ChannelPollerProofs ------------------------
(***************************************************************************)
(* What Channel and EpollPoller guarantee to any number of channels and    *)
(* file descriptors.                                                       *)
(***************************************************************************)
EXTENDS ChannelPoller, TLAPS

(* Two channel objects never have the same fd.                             *)
FdsDistinct(p) ==
  \A c, d \in Channels : IsLive(p, c) /\ p.fd[c] = p.fd[d] => c = d

(* What every call on a channel keeps.                                     *)
Sound(p) ==
  /\ p \in PollerType
  /\ ~p.failed
  /\ FdsDistinct(p)
  /\ RegistryConsistent(p)

(***************************************************************************)
(* Channel::update with new events on a channel that is not registered     *)
(* reaches EPOLL_CTL_ADD, which the kernel accepts.                        *)
(***************************************************************************)
LEMMA AddEffect ==
  ASSUME NEW p, Sound(p), NEW c \in Channels, IsLive(p, c),
         NEW E \in SUBSET Events, p.index[c] # "added"
  PROVE  LET q == SetEvents(p, c, E)
         IN  /\ q \in PollerType
             /\ q.fd = p.fd
             /\ q.events = [p.events EXCEPT ![c] = E]
             /\ q.index = [p.index EXCEPT ![c] = "added"]
             /\ q.channels = [p.channels EXCEPT ![p.fd[c]] = c]
             /\ q.interest = [p.interest EXCEPT ![p.fd[c]] =
                                [ptr |-> c, events |-> E]]
             /\ ~q.failed
<1> USE EpollPollerAssumption DEF Sound
<1> DEFINE f == p.fd[c]
<1>1. p \in PollerType /\ f \in Fds
  BY DEF IsLive, PollerType
<1>2. p.interest[f] = None
  BY <1>1 DEF RegistryConsistent, KernelInSync, MappedIsOwner, AddedIsRegistered,
         IsLive, PollerType
<1>3. CASE p.index[c] = "new"
  BY <1>1, <1>2, <1>3
     DEF SetEvents, UpdateChannel, Ctl, PollerType, EpollEvent
<1>4. CASE p.index[c] = "deleted"
  <2>1. p.channels[f] = c /\ p.channels = [p.channels EXCEPT ![f] = c]
    BY <1>1, <1>4 DEF RegistryConsistent, IndexedIsMapped, PollerType
  <2>2. QED
    BY <1>1, <1>2, <1>4, <2>1
       DEF SetEvents, UpdateChannel, Ctl, PollerType, EpollEvent
<1>5. QED
  BY <1>1, <1>3, <1>4 DEF PollerType

(***************************************************************************)
(* On a registered channel it reaches EPOLL_CTL_MOD, or EPOLL_CTL_DEL when *)
(* the channel wants nothing any more.                                     *)
(***************************************************************************)
LEMMA ModEffect ==
  ASSUME NEW p, Sound(p), NEW c \in Channels, IsLive(p, c),
         NEW E \in SUBSET Events, p.index[c] = "added", E # {}
  PROVE  LET q == SetEvents(p, c, E)
         IN  /\ q \in PollerType
             /\ q.fd = p.fd
             /\ q.events = [p.events EXCEPT ![c] = E]
             /\ q.index = p.index
             /\ q.channels = p.channels
             /\ q.interest = [p.interest EXCEPT ![p.fd[c]] =
                                [ptr |-> c, events |-> E]]
             /\ ~q.failed
<1> USE EpollPollerAssumption DEF Sound
<1>1. p \in PollerType /\ p.fd[c] \in Fds
  BY DEF IsLive, PollerType
<1>2. p.interest[p.fd[c]] # None
  BY <1>1 DEF RegistryConsistent, KernelInSync, MappedIsOwner, AddedIsRegistered,
         IsLive, PollerType
<1>3. QED
  BY <1>1, <1>2 DEF SetEvents, UpdateChannel, Ctl, PollerType, EpollEvent

(* The EPOLL_CTL_DEL case: the entry goes and channels_ keeps the channel. *)
LEMMA DelEffect ==
  ASSUME NEW p, Sound(p), NEW c \in Channels, IsLive(p, c),
         p.index[c] = "added"
  PROVE  LET q == SetEvents(p, c, {})
         IN  /\ q \in PollerType
             /\ q.fd = p.fd
             /\ q.events = [p.events EXCEPT ![c] = {}]
             /\ q.index = [p.index EXCEPT ![c] = "deleted"]
             /\ q.channels = p.channels
             /\ q.interest = [p.interest EXCEPT ![p.fd[c]] = None]
             /\ ~q.failed
<1> USE EpollPollerAssumption DEF Sound
<1>1. p \in PollerType /\ p.fd[c] \in Fds
  BY DEF IsLive, PollerType
<1>2. p.interest[p.fd[c]] # None
  BY <1>1 DEF RegistryConsistent, KernelInSync, MappedIsOwner, AddedIsRegistered,
         IsLive, PollerType
<1>3. QED
  BY <1>1, <1>2 DEF SetEvents, UpdateChannel, Ctl, PollerType, EpollEvent

(***************************************************************************)
(* Whatever a channel is told to want, the tables stay sound, the other    *)
(* channels are untouched, and a channel that wants nothing is reported no *)
(* more, provided it was registered when it was told so.                   *)
(***************************************************************************)
LEMMA SetEventsSound ==
  ASSUME NEW p, Sound(p), NEW c \in Channels, IsLive(p, c),
         NEW E \in SUBSET Events
  PROVE  /\ Sound(SetEvents(p, c, E))
         /\ QuietWhenNone(p) /\ (E # {} \/ p.index[c] = "added") =>
              QuietWhenNone(SetEvents(p, c, E))
         /\ \A g \in Fds \ {p.fd[c]} :
              SetEvents(p, c, E).interest[g] = p.interest[g]
         /\ SetEvents(p, c, E).fd = p.fd
         /\ \A d \in Channels \ {c} : SetEvents(p, c, E).index[d] = p.index[d]
         /\ SetEvents(p, c, E).index[c] # "new"
<1> DEFINE q == SetEvents(p, c, E)
<1>1. p \in PollerType /\ p.fd[c] \in Fds
  BY DEF IsLive, PollerType, Sound
<1>2. CASE p.index[c] # "added"
  <2>1. /\ q \in PollerType
        /\ q.fd = p.fd
        /\ q.events = [p.events EXCEPT ![c] = E]
        /\ q.index = [p.index EXCEPT ![c] = "added"]
        /\ q.channels = [p.channels EXCEPT ![p.fd[c]] = c]
        /\ q.interest = [p.interest EXCEPT ![p.fd[c]] =
                           [ptr |-> c, events |-> E]]
        /\ ~q.failed
    BY <1>2, AddEffect
  <2> HIDE DEF q
  <2>2. FdsDistinct(q)
    BY <2>1 DEF FdsDistinct, IsLive, Sound
  <2>3. RegistryConsistent(q)
    <3> USE <1>1, <1>2, <2>1, EpollPollerAssumption
        DEF Sound, RegistryConsistent, FdsDistinct, IsLive, PollerType
    <3>1. IndexedIsMapped(q)
      BY DEF IndexedIsMapped
    <3>2. MappedIsOwner(q)
      BY DEF MappedIsOwner, IndexedIsMapped
    <3>3. KernelInSync(q)
      BY DEF KernelInSync, MappedIsOwner, IndexedIsMapped, EpollEvent
    <3>4. AddedIsRegistered(q)
      BY DEF AddedIsRegistered, IndexedIsMapped, EpollEvent
    <3>5. QED
      BY <3>1, <3>2, <3>3, <3>4
  <2>4. QuietWhenNone(p) /\ (E # {} \/ p.index[c] = "added") => QuietWhenNone(q)
    BY <1>1, <1>2, <2>1 DEF QuietWhenNone, Sound, PollerType
  <2>5. QED
    BY <1>1, <2>1, <2>2, <2>3, <2>4 DEF Sound, PollerType, q
<1>3. CASE p.index[c] = "added" /\ E # {}
  <2>1. /\ q \in PollerType
        /\ q.fd = p.fd
        /\ q.events = [p.events EXCEPT ![c] = E]
        /\ q.index = p.index
        /\ q.channels = p.channels
        /\ q.interest = [p.interest EXCEPT ![p.fd[c]] =
                           [ptr |-> c, events |-> E]]
        /\ ~q.failed
    BY <1>3, ModEffect
  <2> HIDE DEF q
  <2>2. FdsDistinct(q)
    BY <2>1 DEF FdsDistinct, IsLive, Sound
  <2>3. RegistryConsistent(q)
    <3> USE <1>1, <1>3, <2>1, EpollPollerAssumption
        DEF Sound, RegistryConsistent, FdsDistinct, IsLive, PollerType
    <3>1. IndexedIsMapped(q)
      BY DEF IndexedIsMapped
    <3>2. MappedIsOwner(q)
      BY DEF MappedIsOwner, IndexedIsMapped
    <3>3. KernelInSync(q)
      BY DEF KernelInSync, MappedIsOwner, IndexedIsMapped, EpollEvent
    <3>4. AddedIsRegistered(q)
      BY DEF AddedIsRegistered, IndexedIsMapped, EpollEvent
    <3>5. QED
      BY <3>1, <3>2, <3>3, <3>4
  <2>4. QuietWhenNone(p) /\ (E # {} \/ p.index[c] = "added") => QuietWhenNone(q)
    BY <1>1, <1>3, <2>1 DEF QuietWhenNone, Sound, PollerType
  <2>5. QED
    BY <1>1, <1>3, <2>1, <2>2, <2>3, <2>4 DEF Sound, PollerType, q
<1>4. CASE p.index[c] = "added" /\ E = {}
  <2>1. /\ q \in PollerType
        /\ q.fd = p.fd
        /\ q.events = [p.events EXCEPT ![c] = {}]
        /\ q.index = [p.index EXCEPT ![c] = "deleted"]
        /\ q.channels = p.channels
        /\ q.interest = [p.interest EXCEPT ![p.fd[c]] = None]
        /\ ~q.failed
    BY <1>4, DelEffect
  <2> HIDE DEF q
  <2>2. FdsDistinct(q)
    BY <2>1 DEF FdsDistinct, IsLive, Sound
  <2>3. RegistryConsistent(q)
    <3> USE <1>1, <1>4, <2>1, EpollPollerAssumption
        DEF Sound, RegistryConsistent, FdsDistinct, IsLive, PollerType
    <3>1. IndexedIsMapped(q)
      BY DEF IndexedIsMapped
    <3>2. MappedIsOwner(q)
      BY DEF MappedIsOwner, IndexedIsMapped
    <3>3. KernelInSync(q)
      BY DEF KernelInSync, MappedIsOwner, IndexedIsMapped, EpollEvent
    <3>4. AddedIsRegistered(q)
      BY DEF AddedIsRegistered, IndexedIsMapped, EpollEvent
    <3>5. QED
      BY <3>1, <3>2, <3>3, <3>4
  <2>4. QuietWhenNone(p) /\ (E # {} \/ p.index[c] = "added") => QuietWhenNone(q)
    BY <1>1, <1>4, <2>1 DEF QuietWhenNone, Sound, PollerType
  <2>5. QED
    BY <1>1, <1>4, <2>1, <2>2, <2>3, <2>4 DEF Sound, PollerType, q
<1>5. QED
  BY <1>2, <1>3, <1>4

(***************************************************************************)
(* removeChannel looks up the fd only, but with sound tables what it finds *)
(* there is the channel itself: it leaves no trace of the channel, in      *)
(* channels_ or in the kernel, and touches no other.                       *)
(***************************************************************************)
LEMMA RemoveEffect ==
  ASSUME NEW p, Sound(p), NEW c \in Channels, IsLive(p, c)
  PROVE  LET q == RemoveChannel(p, c)
         IN  /\ q \in PollerType
             /\ q.fd = p.fd
             /\ q.events = p.events
             /\ q.index = [p.index EXCEPT ![c] = "new"]
             /\ q.channels = [p.channels EXCEPT ![p.fd[c]] = None]
             /\ q.interest = [p.interest EXCEPT ![p.fd[c]] = None]
             /\ ~q.failed
<1> USE EpollPollerAssumption DEF Sound
<1>1. p \in PollerType /\ p.fd[c] \in Fds
  BY DEF IsLive, PollerType
<1>2. CASE p.index[c] = "new"
  <2>1. p.channels[p.fd[c]] = None
    BY <1>1, <1>2 DEF RegistryConsistent, MappedIsOwner, FdsDistinct, PollerType, IsLive
  <2>2. p.interest[p.fd[c]] = None
    BY <1>1, <1>2 DEF RegistryConsistent, AddedIsRegistered
  <2>3. QED
    BY <1>1, <1>2, <2>1, <2>2 DEF RemoveChannel, PollerType
<1>3. CASE p.index[c] = "added"
  <2>1. p.channels[p.fd[c]] = c /\ p.interest[p.fd[c]] # None
    BY <1>1, <1>3 DEF RegistryConsistent, IndexedIsMapped, AddedIsRegistered
  <2>2. QED
    BY <1>1, <1>3, <2>1 DEF RemoveChannel, Ctl, PollerType
<1>4. CASE p.index[c] = "deleted"
  <2>1. p.channels[p.fd[c]] = c /\ p.interest[p.fd[c]] = None
    BY <1>1, <1>4 DEF RegistryConsistent, IndexedIsMapped, AddedIsRegistered
  <2>2. QED
    BY <1>1, <1>4, <2>1 DEF RemoveChannel, PollerType
<1>5. QED
  BY <1>1, <1>2, <1>3, <1>4 DEF PollerType

(* removeChannel keeps the tables in agreement.                            *)
LEMMA RemoveSound ==
  ASSUME NEW p, Sound(p), NEW c \in Channels, IsLive(p, c)
  PROVE  /\ Sound(RemoveChannel(p, c))
         /\ RemoveChannel(p, c).fd = p.fd
         /\ RemoveChannel(p, c).index = [p.index EXCEPT ![c] = "new"]
         /\ RemoveChannel(p, c).interest = [p.interest EXCEPT ![p.fd[c]] = None]
<1> DEFINE q == RemoveChannel(p, c)
<1>1. /\ q \in PollerType
      /\ q.fd = p.fd
      /\ q.events = p.events
      /\ q.index = [p.index EXCEPT ![c] = "new"]
      /\ q.channels = [p.channels EXCEPT ![p.fd[c]] = None]
      /\ q.interest = [p.interest EXCEPT ![p.fd[c]] = None]
      /\ ~q.failed
  BY RemoveEffect
<1> HIDE DEF q
<1>2. p.fd[c] \in Fds
  BY DEF Sound, IsLive, PollerType
<1> USE <1>1, <1>2, EpollPollerAssumption
    DEF Sound, RegistryConsistent, FdsDistinct, IsLive, PollerType
<1>3. IndexedIsMapped(q)
  BY DEF IndexedIsMapped
<1>4. MappedIsOwner(q)
  BY DEF MappedIsOwner
<1>5. KernelInSync(q)
  BY DEF KernelInSync
<1>6. AddedIsRegistered(q)
  BY DEF AddedIsRegistered
<1>7. FdsDistinct(q)
  OBVIOUS
<1>8. QED
  BY <1>3, <1>4, <1>5, <1>6, <1>7 DEF q

(***************************************************************************)
(* A channel that was removed, or never registered, can be deleted and its *)
(* fd closed; a channel can be made for an fd that nobody has.             *)
(***************************************************************************)
LEMMA DeleteSound ==
  ASSUME NEW p, Sound(p), NEW c \in Channels, IsLive(p, c), p.index[c] = "new"
  PROVE  /\ Sound(DeleteChannel(p, c))
         /\ DeleteChannel(p, c).fd = [p.fd EXCEPT ![c] = None]
         /\ DeleteChannel(p, c).index = p.index
         /\ DeleteChannel(p, c).interest = p.interest
<1> DEFINE q == DeleteChannel(p, c)
<1>1. p \in PollerType /\ p.fd[c] \in Fds /\ p.interest[p.fd[c]] = None
  BY DEF Sound, IsLive, PollerType, RegistryConsistent, AddedIsRegistered
<1>2. /\ q \in PollerType
      /\ q.fd = [p.fd EXCEPT ![c] = None]
      /\ q.events = [p.events EXCEPT ![c] = {}]
      /\ q.index = p.index
      /\ q.channels = p.channels
      /\ q.interest = p.interest
      /\ ~q.failed
  <2>1. q = [p EXCEPT !.fd[c] = None, !.events[c] = {}, !.index[c] = "new",
                      !.interest[p.fd[c]] = None]
    BY DEF DeleteChannel
  <2> HIDE DEF q
  <2>2. /\ q.fd = [p.fd EXCEPT ![c] = None]
        /\ q.events = [p.events EXCEPT ![c] = {}]
        /\ q.index = [p.index EXCEPT ![c] = "new"]
        /\ q.interest = [p.interest EXCEPT ![p.fd[c]] = None]
        /\ q.channels = p.channels
        /\ q.failed = p.failed
    BY <1>1, <2>1 DEF PollerType
  <2>3. q.index = p.index /\ q.interest = p.interest
    BY <1>1, <2>2 DEF PollerType
  <2>4. q \in PollerType
    <3>1. q = [fd |-> q.fd, events |-> q.events, index |-> q.index,
               channels |-> q.channels, interest |-> q.interest,
               failed |-> q.failed]
      BY <1>1, <2>1 DEF PollerType
    <3>2. QED
      BY <1>1, <2>2, <2>3, <3>1 DEF PollerType
  <2>5. QED
    BY <2>2, <2>3, <2>4 DEF Sound
<1> HIDE DEF q
<1> USE <1>1, <1>2, EpollPollerAssumption
    DEF Sound, RegistryConsistent, FdsDistinct, IsLive, PollerType
<1>3. IndexedIsMapped(q)
  BY DEF IndexedIsMapped
<1>4. MappedIsOwner(q)
  BY DEF MappedIsOwner
<1>5. KernelInSync(q)
  BY DEF KernelInSync, MappedIsOwner, EpollEvent
<1>6. AddedIsRegistered(q)
  BY DEF AddedIsRegistered
<1>7. FdsDistinct(q)
  OBVIOUS
<1>8. QED
  BY <1>3, <1>4, <1>5, <1>6, <1>7 DEF q

(* So does a new Channel for an fd that no channel has.                    *)
LEMMA NewSound ==
  ASSUME NEW p, Sound(p), NEW c \in Channels, ~IsLive(p, c),
         NEW f \in Fds, \A d \in Channels : p.fd[d] # f
  PROVE  /\ Sound(NewChannel(p, c, f))
         /\ NewChannel(p, c, f).fd = [p.fd EXCEPT ![c] = f]
         /\ NewChannel(p, c, f).index = p.index
         /\ NewChannel(p, c, f).interest = p.interest
<1> DEFINE q == NewChannel(p, c, f)
<1>1. p.index[c] = "new"
  BY DEF Sound, RegistryConsistent, IndexedIsMapped
<1>2. /\ q \in PollerType
      /\ q.fd = [p.fd EXCEPT ![c] = f]
      /\ q.events = [p.events EXCEPT ![c] = {}]
      /\ q.index = p.index
      /\ q.channels = p.channels
      /\ q.interest = p.interest
      /\ ~q.failed
  BY <1>1 DEF Sound, PollerType, NewChannel
<1> HIDE DEF q
<1> USE <1>1, <1>2, EpollPollerAssumption
    DEF Sound, RegistryConsistent, FdsDistinct, IsLive, PollerType
<1>3. p.channels[f] = None /\ p.interest[f] = None
  BY DEF MappedIsOwner, KernelInSync, EpollEvent
<1>4. IndexedIsMapped(q)
  BY DEF IndexedIsMapped
<1>5. MappedIsOwner(q)
  BY DEF MappedIsOwner
<1>6. KernelInSync(q)
  BY DEF KernelInSync, MappedIsOwner, EpollEvent
<1>7. AddedIsRegistered(q)
  BY <1>3 DEF AddedIsRegistered
<1>8. FdsDistinct(q)
  OBVIOUS
<1>9. QED
  BY <1>4, <1>5, <1>6, <1>7, <1>8 DEF q

-----------------------------------------------------------------------------
(***************************************************************************)
(* The inductive invariant: besides the tables, a channel that loop() is   *)
(* to dispatch or is dispatching has not been removed (removal waits for   *)
(* the functors), and one that was removed for good stays out of the       *)
(* poller until it is deleted.                                             *)
(***************************************************************************)
InUse(c) == c \in active \cup ({handling} \ {None})

UseBeforeRemoval ==
  /\ \A c \in Channels : InUse(c) => poller.index[c] # "new"
  /\ \A c \in retired : IsLive(poller, c) /\ poller.index[c] = "new"

IInv == TypeOK /\ Sound(poller) /\ Quiet /\ UseBeforeRemoval

(* A poller that has just been made agrees with the kernel.                *)
LEMMA IInvInit == Init => IInv
<1> SUFFICES ASSUME Init
             PROVE  IInv
  OBVIOUS
<1> USE EpollPollerAssumption DEF Init, NewPoller
<1>1. poller \in PollerType
  BY DEF PollerType
<1>2. TypeOK
  BY <1>1 DEF TypeOK
<1>3. RegistryConsistent(poller)
  BY DEF RegistryConsistent, IndexedIsMapped, MappedIsOwner, KernelInSync,
     AddedIsRegistered, IsLive
<1>4. Sound(poller)
  BY <1>1, <1>3 DEF Sound, FdsDistinct, IsLive
<1>5. Quiet /\ UseBeforeRemoval
  BY DEF Quiet, QuietWhenNone, UseBeforeRemoval, InUse
<1>6. QED
  BY <1>2, <1>4, <1>5 DEF IInv

(***************************************************************************)
(* loop() keeps the invariant: what poll reports is registered.            *)
(***************************************************************************)
LEMMA IInvLoopStep == IInv /\ LoopStep => IInv'
<1> SUFFICES ASSUME IInv, LoopStep
             PROVE  IInv'
  OBVIOUS
<1> USE EpollPollerAssumption DEF IInv, TypeOK
<1>1. CASE Poll
  <2>1. \A f \in Registered :
          /\ poller.interest[f].ptr \in Channels
          /\ poller.index[poller.interest[f].ptr] # "new"
    BY DEF Registered, Sound, RegistryConsistent, KernelInSync, MappedIsOwner,
       PollerType, EpollEvent
  <2>2. \A c \in active' : c \in Channels /\ poller.index[c] # "new"
    BY <1>1, <2>1 DEF Poll
  <2>3. QED
    BY <1>1, <2>2 DEF Poll, UseBeforeRemoval, InUse, Quiet
<1>2. ASSUME NEW c \in Channels, HandleEvent(c)
      PROVE  IInv'
  BY <1>2 DEF HandleEvent, UseBeforeRemoval, InUse, Quiet
<1>3. CASE HandleEventReturn
  BY <1>3 DEF HandleEventReturn, UseBeforeRemoval, InUse, Quiet
<1>4. CASE BeginFunctors
  BY <1>4 DEF BeginFunctors, UseBeforeRemoval, InUse, Quiet
<1>5. CASE EndFunctors
  BY <1>5 DEF EndFunctors, UseBeforeRemoval, InUse, Quiet
<1>6. QED
  BY <1>1, <1>2, <1>3, <1>4, <1>5 DEF LoopStep

(***************************************************************************)
(* Every operation of an owner keeps it, whichever owner and fd.           *)
(***************************************************************************)
LEMMA IInvOwnerStep ==
  ASSUME IInv, NEW c \in Channels, OwnerStep(c)
  PROVE  IInv'
<1> USE EpollPollerAssumption DEF IInv, TypeOK
<1>1. ASSUME NEW f \in Fds, Create(c, f)
      PROVE  IInv'
  <2>1. /\ Sound(poller')
        /\ poller'.fd = [poller.fd EXCEPT ![c] = f]
        /\ poller'.index = poller.index
        /\ poller'.interest = poller.interest
    BY <1>1, NewSound DEF Create
  <2>2. Quiet'
    BY <2>1 DEF Quiet, QuietWhenNone
  <2>3. UseBeforeRemoval'
    BY <1>1, <2>1 DEF Create, UseBeforeRemoval, InUse, IsLive, Sound, PollerType
  <2>4. QED
    BY <1>1, <2>1, <2>2, <2>3 DEF Create, Sound
<1>2. ASSUME NEW E \in SUBSET Events, E # {} \/ poller.index[c] = "added",
             OnLoopThread(c), poller' = SetEvents(poller, c, E),
             UNCHANGED <<phase, active, handling, retired>>
      PROVE  IInv'
  <2>1. /\ Sound(poller')
        /\ QuietWhenNone(poller')
        /\ poller'.fd = poller.fd
        /\ \A d \in Channels \ {c} : poller'.index[d] = poller.index[d]
        /\ poller'.index[c] # "new"
    BY <1>2, SetEventsSound DEF OnLoopThread, Quiet
  <2>2. UseBeforeRemoval'
    BY <1>2, <2>1 DEF UseBeforeRemoval, InUse, IsLive, OnLoopThread
  <2>3. QED
    BY <1>2, <2>1, <2>2 DEF Quiet, Sound
<1>3. poller.events[c] \in SUBSET Events
  BY DEF PollerType
<1>4. CASE Enable(c)
  BY <1>2, <1>3, <1>4 DEF Enable, EnableReading, EnableWriting, Events
<1>5. CASE Disable(c)
  BY <1>2, <1>3, <1>5
     DEF Disable, DisableReading, DisableWriting, DisableAll, Events
<1>6. CASE Remove(c)
  <2>1. PICK p : /\ p = poller \/ p = DisableAll(poller, c)
                 /\ poller' = RemoveChannel(p, c)
    BY <1>6 DEF Remove
  <2>2. IsLive(poller, c)
    BY <1>6 DEF Remove, OnLoopThread
  <2>3. /\ Sound(p)
        /\ p.fd = poller.fd
        /\ \A d \in Channels \ {c} : p.index[d] = poller.index[d]
        /\ \A g \in Fds \ {p.fd[c]} : p.interest[g] = poller.interest[g]
    BY <2>1, <2>2, SetEventsSound DEF DisableAll, Events
  <2>4. /\ Sound(poller')
        /\ poller'.fd = p.fd
        /\ poller'.index = [p.index EXCEPT ![c] = "new"]
        /\ poller'.interest = [p.interest EXCEPT ![p.fd[c]] = None]
    BY <2>1, <2>2, <2>3, RemoveSound DEF IsLive
  <2>5. Quiet'
    BY <2>3, <2>4 DEF Quiet, QuietWhenNone, Sound, PollerType
  <2>6. UseBeforeRemoval'
    BY <1>6, <2>2, <2>3, <2>4
       DEF UseBeforeRemoval, InUse, IsLive, Remove, Sound, PollerType
  <2>7. QED
    BY <1>6, <2>4, <2>5, <2>6 DEF Remove, Sound
<1>7. CASE Delete(c)
  <2>1. IsLive(poller, c) /\ poller.index[c] = "new"
    BY <1>7 DEF Delete, UseBeforeRemoval
  <2>2. /\ Sound(poller')
        /\ poller'.fd = [poller.fd EXCEPT ![c] = None]
        /\ poller'.index = poller.index
        /\ poller'.interest = poller.interest
    BY <1>7, <2>1, DeleteSound DEF Delete
  <2>3. Quiet' /\ UseBeforeRemoval'
    BY <1>7, <2>1, <2>2
       DEF Delete, Quiet, QuietWhenNone, UseBeforeRemoval, InUse, IsLive,
           Sound, PollerType
  <2>4. QED
    BY <1>7, <2>2, <2>3 DEF Delete, Sound
<1>8. QED
  BY <1>1, <1>4, <1>5, <1>6, <1>7 DEF OwnerStep

(* The invariant holds of every state.                                     *)
LEMMA IInvInvariant == Spec => []IInv
<1>1. IInv /\ [Next]_vars => IInv'
  <2>1. IInv /\ UNCHANGED vars => IInv'
    BY DEF IInv, TypeOK, Quiet, UseBeforeRemoval, InUse, vars
  <2>2. QED
    BY <2>1, IInvLoopStep, IInvOwnerStep DEF Next
<1>2. QED
  BY <1>1, IInvInit, PTL DEF Spec

-----------------------------------------------------------------------------
(***************************************************************************)
(* The poller's tables keep their types, and only the dispatch phase has   *)
(* channels to dispatch or one whose handleEvent is running.               *)
(***************************************************************************)
THEOREM TypeCorrect == Spec => []TypeOK
<1>1. IInv => TypeOK
  BY DEF IInv
<1>2. QED
  BY <1>1, IInvInvariant, PTL

(***************************************************************************)
(* A channel that wants no events is never left in the interest list, so   *)
(* that no hangup is reported for ever to a connection that is closed.     *)
(***************************************************************************)
THEOREM ClosedIsQuiet == Spec => []Quiet
<1>1. IInv => Quiet
  BY DEF IInv
<1>2. QED
  BY <1>1, IInvInvariant, PTL

(***************************************************************************)
(* index_, channels_, events_ and the kernel's interest list agree in      *)
(* every state, for any number of channels that take turns on any fds.     *)
(***************************************************************************)
THEOREM TablesAgree == Spec => []Consistent
<1>1. IInv => Consistent
  BY DEF IInv, Sound, Consistent
<1>2. QED
  BY <1>1, IInvInvariant, PTL

(***************************************************************************)
(* No epoll_ctl call of updateChannel or removeChannel is ever refused, so *)
(* the errors that EpollPoller::update only logs do not come up.           *)
(***************************************************************************)
THEOREM CtlAlwaysAccepted == Spec => []CtlNeverFails
<1>1. IInv => CtlNeverFails
  BY DEF IInv, Sound, CtlNeverFails
<1>2. QED
  BY <1>1, IInvInvariant, PTL

(***************************************************************************)
(* The raw Channel pointers that loop(), channels_ and the kernel hold     *)
(* never outlive their channel.                                            *)
(***************************************************************************)
THEOREM NoDangling == Spec => []NoDanglingChannel
<1>1. IInv => NoDanglingChannel
  <2> SUFFICES ASSUME IInv
               PROVE  NoDanglingChannel
    OBVIOUS
  <2> USE EpollPollerAssumption DEF IInv, TypeOK, Sound, RegistryConsistent
  <2>1. \A c \in Channels : InUse(c) => IsLive(poller, c)
    BY DEF UseBeforeRemoval, IndexedIsMapped
  <2>2. \A f \in Fds : poller.channels[f] # None => IsLive(poller, poller.channels[f])
    BY DEF MappedIsOwner, IsLive
  <2>3. \A f \in Registered : IsLive(poller, poller.interest[f].ptr)
    BY <2>2 DEF Registered, KernelInSync, PollerType, EpollEvent
  <2>4. QED
    BY <2>1, <2>2, <2>3 DEF NoDanglingChannel, InUse
<1>2. QED
  BY <1>1, IInvInvariant, PTL

=============================================================================
