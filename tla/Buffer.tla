------------------------------- MODULE Buffer -------------------------------
(***************************************************************************)
(* Buffer (ZBuffer/buffer.cpp), as operators on a record b:                *)
(*   b.mem     buffer_: the first size() cells of the vector               *)
(*   b.reader  readerIndex_                                                *)
(*   b.writer  writerIndex_                                                *)
(* Indices count from 0 as in the code: the readable bytes are those of    *)
(* cells reader + 1 .. writer of mem.                                      *)
(***************************************************************************)
EXTENDS Naturals, Sequences

CONSTANTS
  Byte,          (* what a cell holds                                      *)
  Zero,          (* the byte that resize() fills new cells with            *)
  CheapPrepend,  (* kCheapPrepend                                          *)
  InitialSize,   (* initalSize                                             *)
  ExtraSize      (* sizeof(extrabuf)                                       *)

ASSUME BufferAssumption ==
  /\ Zero \in Byte
  /\ CheapPrepend \in Nat
  /\ InitialSize \in Nat
  /\ ExtraSize \in Nat \ {0}

BufferType == [mem : Seq(Byte), reader : Nat, writer : Nat]

(* The indices keep their order, and stay inside the vector.               *)
Indexed(b) ==
  CheapPrepend <= b.reader /\ b.reader <= b.writer /\ b.writer <= Len(b.mem)

Zeros(n) == [i \in 1 .. n |-> Zero]

(* A copy of data to the cells after the first at ones.                    *)
Copy(mem, at, data) ==
  [i \in 1 .. Len(mem) |->
     IF at < i /\ i <= at + Len(data) THEN data[i - at] ELSE mem[i]]

NewBuffer ==
  [mem |-> Zeros(CheapPrepend + InitialSize),
   reader |-> CheapPrepend, writer |-> CheapPrepend]

ReadableBytes(b)    == b.writer - b.reader
WritableBytes(b)    == Len(b.mem) - b.writer
PrependableBytes(b) == b.reader - CheapPrepend

Readable(b) == SubSeq(b.mem, b.reader + 1, b.writer)

RetrieveAll(b) == [b EXCEPT !.reader = CheapPrepend, !.writer = CheapPrepend]

Retrieve(b, len) ==
  IF len < ReadableBytes(b) THEN [b EXCEPT !.reader = @ + len]
                            ELSE RetrieveAll(b)

(* Mutant: the readable bytes stay where they are.                         *)
MakeSpaceNoMove(b, len) ==
  IF WritableBytes(b) + PrependableBytes(b) < len
  THEN [b EXCEPT !.mem = @ \o Zeros(b.writer + len - Len(@))]
  ELSE [b EXCEPT !.reader = CheapPrepend, !.writer = CheapPrepend + ReadableBytes(b)]

(* Mutant: room is made by growing only.                                   *)
MakeSpaceGrow(b, len) ==
  [b EXCEPT !.mem = @ \o Zeros(b.writer + len - Len(@))]

(* The vector grows, or the readable bytes move to its front.              *)
MakeSpace(b, len) ==
  IF WritableBytes(b) + PrependableBytes(b) < len
  THEN [b EXCEPT !.mem = @ \o Zeros(b.writer + len - Len(@))]
  ELSE [mem    |-> Copy(b.mem, CheapPrepend, Readable(b)),
        reader |-> CheapPrepend,
        writer |-> CheapPrepend + ReadableBytes(b)]

EnsureWritableBytes(b, len) ==
  IF WritableBytes(b) < len THEN MakeSpace(b, len) ELSE b

(* append, into a buffer that has the room.                                *)
Fill(b, data) ==
  [b EXCEPT !.mem = Copy(@, b.writer, data), !.writer = @ + Len(data)]

(* Mutant: nobody looks whether the data fits.                             *)
AppendBytesUnchecked(b, data) ==
  [b EXCEPT !.mem = Copy(@, b.writer, data), !.writer = @ + Len(data)]

AppendBytes(b, data) == Fill(EnsureWritableBytes(b, Len(data)), data)

(* The most that readFd's readv() can return: the second vector is used    *)
(* only when the first is shorter.                                         *)
ReadLimit(b) ==
  IF WritableBytes(b) < ExtraSize THEN WritableBytes(b) + ExtraSize
                                  ELSE WritableBytes(b)

(* readFd, when readv() returns data: what does not fit is in extrabuf.    *)
ReadFd(b, data) ==
  LET fits == WritableBytes(b)
  IN  IF Len(data) <= fits THEN Fill(b, data)
      ELSE AppendBytes(Fill(b, SubSeq(data, 1, fits)),
                       SubSeq(data, fits + 1, Len(data)))

=============================================================================
