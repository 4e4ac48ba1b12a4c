---------------------------- MODULE MCEventLoop ----------------------------
(* Small instances of EventLoop for TLC.                                   *)
EXTENDS EventLoop

(* One level of runInLoop inside a callback.                               *)
MCMaxDepth == 2

=============================================================================
