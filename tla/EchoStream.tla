----------------------------- MODULE EchoStream -----------------------------
(***************************************************************************)
(* The bytes of one established connection of a server that echoes them,   *)
(* from the peer and back to it: the socket's receive queue, _inputBuffer, *)
(* the message callback, send(), _outputBuffer and the socket's send       *)
(* queue.  TcpConnection has the connection's life; this module has its    *)
(* bytes, with Buffer cell by cell.                                        *)
(*                                                                         *)
(* The bytes are numbered in the order the peer sends them, modulo Modulus: *)
(* no code looks at their values.  The io loop's thread runs one handler   *)
(* at a time, so that a handler is one step.                               *)
(***************************************************************************)
EXTENDS Buffer

CONSTANTS
  Modulus,
  RcvQueue,      (* capacity of the socket's receive queue                 *)
  SndQueue,      (* capacity of the socket's send queue                    *)
  MaxHeld,       (* bound on what the message callback leaves behind       *)
  WaitsForRoom   (* the message callback sends only when the output buffer *)
                 (* is empty and the socket takes a byte, which no public  *)
                 (* API tells it; main.cpp's sends whatever it gets        *)

ASSUME EchoStreamAssumption ==
  /\ Modulus \in Nat \ {0}
  /\ Byte = 0 .. Modulus - 1
  /\ RcvQueue \in Nat \ {0}
  /\ SndQueue \in Nat \ {0}
  /\ MaxHeld \in Nat
  /\ WaitsForRoom \in BOOLEAN

VARIABLES
  next,     (* the byte the peer sends next                                *)
  arrived,  (* the socket's receive queue                                  *)
  input,    (* _inputBuffer                                                *)
  output,   (* _outputBuffer                                               *)
  writing,  (* the channel has writing enabled                             *)
  leaving   (* the socket's send queue                                     *)

vars == <<next, arrived, input, output, writing, leaving>>

Init ==
  /\ next = 0
  /\ arrived = <<>>
  /\ input = NewBuffer
  /\ output = NewBuffer
  /\ writing = FALSE
  /\ leaving = <<>>

Larger(m, n) == IF m < n THEN n ELSE m

Room == SndQueue - Len(leaving)

First(s, n) == SubSeq(s, 1, n)
Rest(s, n)  == SubSeq(s, n + 1, Len(s))

-----------------------------------------------------------------------------
(* The io loop.                                                            *)

(* Mutant: the channel is not asked for the write event.                   *)
SendInLoopUnwatched(data) ==
  /\ ~writing /\ ReadableBytes(output) = 0 /\ Room > 0
  /\ \E n \in 1 .. Len(data) :
       /\ n <= Room
       /\ leaving' = leaving \o First(data, n)
       /\ output' = AppendBytes(output, Rest(data, n))
  /\ UNCHANGED writing

(* sendInLoop.  When write() returns -1 the code takes it for a length and *)
(* appends from the byte before the data; when there is no write() it adds *)
(* an uninitialized nwrote to the pointer, and any bytes may be appended.  *)
SendInLoop(data) ==
  \/ /\ ~writing /\ ReadableBytes(output) = 0 /\ Room > 0
     /\ \E n \in 1 .. Len(data) :
          /\ n <= Room
          /\ leaving' = leaving \o First(data, n)
          /\ IF n = Len(data) THEN UNCHANGED <<output, writing>>
             ELSE /\ output' = AppendBytes(output, Rest(data, n))
                  /\ writing' = TRUE
  \/ /\ ~writing /\ ReadableBytes(output) = 0 /\ Room = 0
     /\ \E before \in Byte : output' = AppendBytes(output, <<before>> \o data)
     /\ writing' = TRUE
     /\ UNCHANGED leaving
  \/ /\ writing \/ ReadableBytes(output) > 0
     /\ \E found \in [1 .. Len(data) -> Byte] : output' = AppendBytes(output, found)
     /\ writing' = TRUE
     /\ UNCHANGED leaving

(* The message callback.  main.cpp's takes all that can be read and sends  *)
(* it at once.  One that WaitsForRoom takes some with retrieveAsString, or *)
(* leaves them, and sends only what can be written directly; a read after  *)
(* which it would leave more than MaxHeld is not taken, for which the code *)
(* has no back-pressure: it is the bound of the model.                     *)
MessageCallback(buffer) ==
  \E taken \in 0 .. ReadableBytes(buffer) :
    /\ input' = Retrieve(buffer, taken)
    /\ IF WaitsForRoom
       THEN /\ taken > 0 => ~writing /\ ReadableBytes(output) = 0 /\ Room > 0
            /\ ReadableBytes(buffer) - taken <= MaxHeld
       ELSE taken = ReadableBytes(buffer)
    /\ IF taken = 0 THEN UNCHANGED <<output, writing, leaving>>
                    ELSE SendInLoop(First(Readable(buffer), taken))

(* handleRead, with data in the receive queue.                             *)
HandleRead ==
  /\ \E n \in 1 .. Len(arrived) :
       /\ n <= ReadLimit(input)
       /\ arrived' = Rest(arrived, n)
       /\ MessageCallback(ReadFd(input, First(arrived, n)))
  /\ UNCHANGED next

(* Mutant: the write event stays enabled.                                  *)
HandleWriteStaysEnabled ==
  /\ writing
  /\ \E n \in 1 .. ReadableBytes(output) :
       /\ n <= Room
       /\ leaving' = leaving \o First(Readable(output), n)
       /\ output' = Retrieve(output, n)
  /\ UNCHANGED <<next, arrived, input, writing>>

(* handleWrite, with room in the send queue.                               *)
HandleWrite ==
  /\ writing
  /\ \E n \in 1 .. ReadableBytes(output) :
       /\ n <= Room
       /\ leaving' = leaving \o First(Readable(output), n)
       /\ output' = Retrieve(output, n)
       /\ writing' = (ReadableBytes(output') # 0)
  /\ UNCHANGED <<next, arrived, input>>

-----------------------------------------------------------------------------
(* The peer and the network.                                               *)

PeerSends ==
  /\ Len(arrived) < RcvQueue
  /\ arrived' = Append(arrived, next)
  /\ next' = IF next = Modulus - 1 THEN 0 ELSE next + 1
  /\ UNCHANGED <<input, output, writing, leaving>>

PeerReads ==
  /\ leaving # <<>>
  /\ leaving' = Tail(leaving)
  /\ UNCHANGED <<next, arrived, input, output, writing>>

-----------------------------------------------------------------------------

Next == HandleRead \/ HandleWrite \/ PeerSends \/ PeerReads

(* epoll goes on reporting a socket that can be written, and the peer goes *)
(* on reading.                                                             *)
Fairness == WF_vars(HandleWrite) /\ WF_vars(PeerReads)

SafeSpec == Init /\ [][Next]_vars
Spec == SafeSpec /\ Fairness

-----------------------------------------------------------------------------
(* Properties.                                                             *)

(* Every variable keeps its type; the indices of both buffers stay in      *)
(* order and inside the vector, and the queues within their capacity.      *)
TypeOK ==
  /\ next \in Byte
  /\ arrived \in Seq(Byte) /\ Len(arrived) <= RcvQueue
  /\ \A b \in {input, output} : b \in BufferType /\ Indexed(b)
  /\ writing \in BOOLEAN
  /\ leaving \in Seq(Byte) /\ Len(leaving) <= SndQueue

InFlight == leaving \o Readable(output) \o Readable(input) \o arrived

(* With a callback that sends only when the output buffer is empty and the *)
(* socket takes a byte (WaitsForRoom), the peer gets back the bytes it     *)
(* sent, in order and once each, whatever the buffers do with them on the  *)
(* way: readFd, makeSpace, retrieve, sendInLoop's short writes and         *)
(* handleWrite together implement a ByteStream.  main.cpp's callback is    *)
(* not such a one: for it RestIsBuffered below fails.  Nor does this say   *)
(* anything of an append behind output that waits, of which the code reads *)
(* an uninitialized offset.                                                *)
Echo == INSTANCE ByteStream WITH inFlight <- InFlight

EchoesInOrder == Echo!Spec

(* Writing is enabled exactly as long as there is something to write: a    *)
(* connection neither spins on EPOLLOUT nor waits for it in vain.          *)
WritingIffOutput == writing <=> ReadableBytes(output) > 0

(* A long conversation does not make a buffer grow: as long as the         *)
(* callback leaves MaxHeld bytes behind at most, the vector holds no more  *)
(* than has waited in it at a time, plus what a resize wastes on cells     *)
(* that have been read, which is less than what is being appended.         *)
SizeBounded ==
  /\ Len(input.mem) <= CheapPrepend + Larger(InitialSize, MaxHeld + 2 * RcvQueue)
  /\ Len(output.mem) <= CheapPrepend + Larger(InitialSize, MaxHeld + RcvQueue)

(* What the output buffer holds reaches the peer.                          *)
OutputDrains == ReadableBytes(output) > 0 ~> ReadableBytes(output) = 0

-----------------------------------------------------------------------------
(* What a comment says and the code does not do.                           *)

(* "If the data has not been sent in one go, the rest has to be put into   *)
(* the buffer" (TcpConnection.cpp:103-106): after a read, what the peer    *)
(* still has to get is what it had to get before.                          *)
RestIsBuffered == [][HandleRead => InFlight' = InFlight]_vars

=============================================================================
