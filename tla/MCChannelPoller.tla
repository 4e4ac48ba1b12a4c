-------------------------- MODULE MCChannelPoller --------------------------
(* Small instances of ChannelPoller for TLC.                               *)
EXTENDS ChannelPoller, TLC

(* Channels and fds are interchangeable: only safety is checked.           *)
Symmetry == Permutations(Channels) \cup Permutations(Fds)

=============================================================================
