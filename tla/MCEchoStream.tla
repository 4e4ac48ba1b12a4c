---------------------------- MODULE MCEchoStream ----------------------------
(* Small buffers and queues for TLC, and more byte numbers than any one    *)
(* step moves.                                                             *)
EXTENDS EchoStream

MCByte == 0 .. Modulus - 1

=============================================================================
