-------------------------- MODULE MCTcpConnection --------------------------
(* Small instances of TcpConnection for TLC.                               *)
EXTENDS TcpConnection, TLC

(* Connections are interchangeable: for the runs that check safety only.   *)
Symmetry == Permutations(Conns)

=============================================================================
