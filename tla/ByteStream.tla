----------------------------- MODULE ByteStream -----------------------------
(***************************************************************************)
(* What a connection promises of the bytes that pass through it: they come *)
(* out in the order in which they went in, each of them once.              *)
(***************************************************************************)
EXTENDS Naturals, Sequences

CONSTANT Byte

VARIABLE inFlight  (* bytes that went in and have not come out, oldest first *)

Init == inFlight = <<>>

Enter == \E b \in Byte : inFlight' = Append(inFlight, b)

Leave == inFlight # <<>> /\ inFlight' = Tail(inFlight)

Next == Enter \/ Leave

Spec == Init /\ [][Next]_inFlight

=============================================================================
