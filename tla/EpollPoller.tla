---------------------------- MODULE EpollPoller ----------------------------
(***************************************************************************)
(* Channel (ZChannel/channel.cpp), EpollPoller (ZEpollPoller/              *)
(* epollpoller.cpp) and the kernel's epoll instance, as operators on one   *)
(* record p, so that a caller which makes several calls in one step can    *)
(* compose them:                                                           *)
(*   p.fd       fd_ of every channel object, None when there is no object  *)
(*   p.events   events_                                                    *)
(*   p.index    index_: KNew, KAdded, KDeleted                             *)
(*   p.channels channels_: for an fd, the channel it is mapped to          *)
(*   p.interest the kernel's interest list: for an fd, the pointer and the *)
(*              events it was last told                                    *)
(*   p.failed   some epoll_ctl has returned -1 (which the code only logs)  *)
(***************************************************************************)
CONSTANTS
  Channels,  (* Channel objects                                            *)
  Fds,       (* file descriptors                                           *)
  None

Events == {"read", "write"}

(* epoll_event, as the kernel keeps it.                                    *)
EpollEvent == [ptr : Channels, events : SUBSET Events]

ASSUME EpollPollerAssumption == None \notin Channels \cup Fds \cup EpollEvent

PollerType ==
  [fd       : [Channels -> Fds \cup {None}],
   events   : [Channels -> SUBSET Events],
   index    : [Channels -> {"new", "added", "deleted"}],
   channels : [Fds -> Channels \cup {None}],
   interest : [Fds -> EpollEvent \cup {None}],
   failed   : BOOLEAN]

NewPoller ==
  [fd       |-> [c \in Channels |-> None],
   events   |-> [c \in Channels |-> {}],
   index    |-> [c \in Channels |-> "new"],
   channels |-> [f \in Fds |-> None],
   interest |-> [f \in Fds |-> None],
   failed   |-> FALSE]

IsLive(p, c) == p.fd[c] # None
IsWriting(p, c) == "write" \in p.events[c]

-----------------------------------------------------------------------------
(* epoll_ctl, through EpollPoller::update: ADD fails on a registered fd,   *)
(* MOD and DEL on one that is not.                                         *)
Ctl(p, op, c) ==
  LET registered == p.interest[p.fd[c]] # None
  IN  IF registered <=> op = "ADD"
      THEN [p EXCEPT !.failed = TRUE]
      ELSE [p EXCEPT !.interest[p.fd[c]] =
              IF op = "DEL" THEN None
                            ELSE [ptr |-> c, events |-> p.events[c]]]

(* Mutant: a channel that wants nothing stays in the interest list.        *)
UpdateChannelNoDel(p, c) ==
  CASE p.index[c] = "new"     -> Ctl([p EXCEPT !.channels[p.fd[c]] = c,
                                              !.index[c] = "added"], "ADD", c)
    [] p.index[c] = "deleted" -> Ctl([p EXCEPT !.index[c] = "added"], "ADD", c)
    [] p.index[c] = "added"   -> Ctl(p, "MOD", c)

(* Mutant: index_ stays KAdded after the DEL.                              *)
UpdateChannelStaysAdded(p, c) ==
  CASE p.index[c] = "new"     -> Ctl([p EXCEPT !.channels[p.fd[c]] = c,
                                              !.index[c] = "added"], "ADD", c)
    [] p.index[c] = "deleted" -> Ctl([p EXCEPT !.index[c] = "added"], "ADD", c)
    [] p.index[c] = "added"   -> Ctl(p, IF p.events[c] = {} THEN "DEL"
                                                            ELSE "MOD", c)

UpdateChannel(p, c) ==
  CASE p.index[c] = "new"     -> Ctl([p EXCEPT !.channels[p.fd[c]] = c,
                                              !.index[c] = "added"], "ADD", c)
    [] p.index[c] = "deleted" -> Ctl([p EXCEPT !.index[c] = "added"], "ADD", c)
    [] p.index[c] = "added"   ->
         IF p.events[c] = {}
         THEN [Ctl(p, "DEL", c) EXCEPT !.index[c] = "deleted"]
         ELSE Ctl(p, "MOD", c)

(* Mutant: channels_ keeps the entry.                                      *)
RemoveChannelKeepsEntry(p, c) ==
  IF p.channels[p.fd[c]] = None THEN p
  ELSE [(IF p.index[c] = "added" THEN Ctl(p, "DEL", c) ELSE p)
          EXCEPT !.index[c] = "new"]

(* Only the fd is looked up: that the entry is this channel's is a matter  *)
(* of how the owners use their fds.                                        *)
RemoveChannel(p, c) ==
  IF p.channels[p.fd[c]] = None THEN p
  ELSE LET q == [p EXCEPT !.channels[p.fd[c]] = None]
       IN  [(IF p.index[c] = "added" THEN Ctl(q, "DEL", c) ELSE q)
              EXCEPT !.index[c] = "new"]

-----------------------------------------------------------------------------
(* Channel.                                                                *)

(* Channel(loop, fd).                                                      *)
NewChannel(p, c, f) ==
  [p EXCEPT !.fd[c] = f, !.events[c] = {}, !.index[c] = "new"]

SetEvents(p, c, E) == UpdateChannel([p EXCEPT !.events[c] = E], c)

EnableReading(p, c)  == SetEvents(p, c, p.events[c] \cup {"read"})
EnableWriting(p, c)  == SetEvents(p, c, p.events[c] \cup {"write"})
DisableReading(p, c) == SetEvents(p, c, p.events[c] \ {"read"})
DisableWriting(p, c) == SetEvents(p, c, p.events[c] \ {"write"})
DisableAll(p, c)     == SetEvents(p, c, {})

(* The owner's destructor: its Socket closes the fd, upon which the kernel *)
(* drops it from the interest list, and the Channel object goes.           *)
DeleteChannel(p, c) ==
  [p EXCEPT !.fd[c] = None, !.events[c] = {}, !.index[c] = "new",
            !.interest[p.fd[c]] = None]

-----------------------------------------------------------------------------
(* What has to be true of p for the raw pointers in it to be usable.       *)

(* A channel that was added or deleted (and not removed) is in channels_.  *)
IndexedIsMapped(p) ==
  \A c \in Channels :
    p.index[c] # "new" => IsLive(p, c) /\ p.channels[p.fd[c]] = c

(* What channels_ holds is the channel that has the fd now.                *)
MappedIsOwner(p) ==
  \A f \in Fds :
    p.channels[f] # None =>
      p.fd[p.channels[f]] = f /\ p.index[p.channels[f]] # "new"

(* The kernel has the channel's own pointer and its current events_.       *)
KernelInSync(p) ==
  \A f \in Fds :
    p.interest[f] # None =>
      /\ p.interest[f].ptr = p.channels[f]
      /\ p.interest[f].events = p.events[p.channels[f]]

(* KAdded says whether the fd is in the interest list.                     *)
AddedIsRegistered(p) ==
  \A c \in Channels :
    p.index[c] = "added" <=> IsLive(p, c) /\ p.interest[p.fd[c]] # None

RegistryConsistent(p) ==
  IndexedIsMapped(p) /\ MappedIsOwner(p) /\ KernelInSync(p) /\ AddedIsRegistered(p)

(* The kernel reports an error or a hangup of every fd it knows, asked for *)
(* or not: a channel that wants nothing is not to be among them.           *)
QuietWhenNone(p) ==
  \A f \in Fds : p.interest[f] # None => p.interest[f].events # {}

=============================================================================
