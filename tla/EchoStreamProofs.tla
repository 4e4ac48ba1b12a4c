-------------------------- MODULE EchoStreamProofs --------------------------
(***************************************************************************)
(* Proofs about Buffer and EchoStream, for buffers and queues of any size. *)
(***************************************************************************)
EXTENDS EchoStream, SequenceLemmas

(* A buffer whose fields have their types and whose indices are in order.  *)
Sound(b) == b \in BufferType /\ Indexed(b)

-----------------------------------------------------------------------------
(* Buffer.                                                                 *)

(* What Copy does to every cell.                                           *)
LEMMA CopyCells ==
  ASSUME NEW mem \in Seq(Byte), NEW at \in Nat, NEW data \in Seq(Byte),
         at + Len(data) <= Len(mem)
  PROVE  /\ Copy(mem, at, data) \in Seq(Byte)
         /\ Len(Copy(mem, at, data)) = Len(mem)
         /\ \A i \in 1 .. Len(data) : Copy(mem, at, data)[at + i] = data[i]
         /\ \A i \in 1 .. Len(mem) :
              ~(at < i /\ i <= at + Len(data)) => Copy(mem, at, data)[i] = mem[i]
<1>1. \A i \in 1 .. Len(mem) :
        (IF at < i /\ i <= at + Len(data) THEN data[i - at] ELSE mem[i]) \in Byte
  BY ElementOfSeq
<1>2. Copy(mem, at, data) \in [1 .. Len(mem) -> Byte]
  BY <1>1 DEF Copy
<1>3. \A i \in 1 .. Len(data) : Copy(mem, at, data)[at + i] = data[i]
  <2>1. SUFFICES ASSUME NEW i \in 1 .. Len(data)
                 PROVE  Copy(mem, at, data)[at + i] = data[i]
    OBVIOUS
  <2>2. /\ at + i \in 1 .. Len(mem) /\ at < at + i
        /\ at + i <= at + Len(data) /\ (at + i) - at = i
    BY LenProperties
  <2>3. QED
    BY <2>2 DEF Copy
<1>4. QED
  BY <1>2, <1>3, FunctionIsSeq DEF Copy

(* The readable bytes of a sound buffer.                                   *)
LEMMA ReadableCells ==
  ASSUME NEW b, Sound(b)
  PROVE  /\ Readable(b) \in Seq(Byte)
         /\ ReadableBytes(b) \in Nat
         /\ Len(Readable(b)) = ReadableBytes(b)
         /\ \A i \in 1 .. ReadableBytes(b) : Readable(b)[i] = b.mem[b.reader + i]
<1>1. /\ b.mem \in Seq(Byte) /\ b.reader \in Nat /\ b.writer \in Nat
      /\ b.reader <= b.writer /\ b.writer <= Len(b.mem)
  BY DEF Sound, BufferType, Indexed
<1>2. QED
  BY <1>1, PartOfSeq, SMTT(30) DEF Readable, ReadableBytes

(* What has the same bytes as the readable cells is what is readable.      *)
LEMMA ReadableIs ==
  ASSUME NEW b, Sound(b), NEW s \in Seq(Byte), Len(s) = ReadableBytes(b),
         \A i \in 1 .. Len(s) : s[i] = b.mem[b.reader + i]
  PROVE  Readable(b) = s
<1>1. \A i \in 1 .. Len(s) : Readable(b)[i] = s[i]
  BY ReadableCells
<1>2. QED
  BY <1>1, ReadableCells, SeqEqual

(* A new buffer is sound and holds nothing.                                *)
LEMMA NewBufferSound == Sound(NewBuffer) /\ Readable(NewBuffer) = <<>>
<1>1. Zeros(CheapPrepend + InitialSize) \in [1 .. CheapPrepend + InitialSize -> Byte]
  BY BufferAssumption DEF Zeros
<1>2. /\ Zeros(CheapPrepend + InitialSize) \in Seq(Byte)
      /\ Len(Zeros(CheapPrepend + InitialSize)) = CheapPrepend + InitialSize
  BY <1>1, FunctionIsSeq, BufferAssumption
<1>3. Sound(NewBuffer)
  BY <1>2, BufferAssumption DEF Sound, NewBuffer, BufferType, Indexed
<1>4. Readable(NewBuffer) = <<>>
  BY SubSeqEmpty, BufferAssumption DEF NewBuffer, Readable
<1>5. QED
  BY <1>3, <1>4

(* retrieve(len) leaves the readable bytes after the first len.            *)
LEMMA RetrieveSound ==
  ASSUME NEW b, Sound(b), NEW len \in 0 .. ReadableBytes(b)
  PROVE  Sound(Retrieve(b, len)) /\ Readable(Retrieve(b, len)) = Rest(Readable(b), len)
<1>1. CASE len < ReadableBytes(b)
  <2> DEFINE r == Retrieve(b, len)
  <2>1. r = [b EXCEPT !.reader = @ + len]
    BY <1>1 DEF Retrieve
  <2>2. Sound(r) /\ ReadableBytes(r) = ReadableBytes(b) - len
    <3>1. /\ b.mem \in Seq(Byte) /\ b.reader \in Nat /\ b.writer \in Nat
          /\ len \in Nat /\ len < b.writer - b.reader
          /\ CheapPrepend <= b.reader /\ b.writer <= Len(b.mem)
      BY <1>1 DEF Sound, BufferType, Indexed, ReadableBytes
    <3>2. /\ r \in BufferType /\ r.mem = b.mem /\ r.writer = b.writer
          /\ r.reader = b.reader + len
      BY <2>1, <3>1 DEF Sound, BufferType
    <3>3. QED
      BY <3>1, <3>2, BufferAssumption DEF Sound, Indexed, ReadableBytes
  <2>3. /\ Rest(Readable(b), len) \in Seq(Byte)
        /\ Len(Rest(Readable(b), len)) = ReadableBytes(r)
        /\ \A i \in 1 .. ReadableBytes(r) :
             Rest(Readable(b), len)[i] = Readable(b)[len + i]
    BY <2>2, ReadableCells, PartOfSeq DEF Rest
  <2>4. \A i \in 1 .. ReadableBytes(r) : Readable(b)[len + i] = r.mem[r.reader + i]
    <3>1. SUFFICES ASSUME NEW i \in 1 .. ReadableBytes(r)
                   PROVE  Readable(b)[len + i] = r.mem[r.reader + i]
      OBVIOUS
    <3>2. b.reader \in Nat /\ r.mem = b.mem /\ r.reader = b.reader + len
      BY <2>1 DEF Sound, BufferType
    <3>3. len + i \in 1 .. ReadableBytes(b)
      BY <2>2, ReadableCells
    <3>4. Readable(b)[len + i] = b.mem[b.reader + (len + i)]
      BY <3>3, ReadableCells
    <3>5. b.reader + (len + i) = r.reader + i
      BY <2>2, <3>2, ReadableCells
    <3>6. QED
      BY <3>2, <3>4, <3>5
  <2>6. Readable(r) = Rest(Readable(b), len)
    BY <2>2, <2>3, <2>4, ReadableIs
  <2>7. QED
    BY <2>2, <2>6
<1>2. CASE ~(len < ReadableBytes(b))
  <2>1. Retrieve(b, len) = RetrieveAll(b)
    BY <1>2 DEF Retrieve
  <2>2. Sound(RetrieveAll(b)) /\ Readable(RetrieveAll(b)) = <<>>
    <3> DEFINE r == RetrieveAll(b)
    <3>1. /\ r \in BufferType /\ r.mem = b.mem
          /\ r.reader = CheapPrepend /\ r.writer = CheapPrepend
      BY BufferAssumption DEF Sound, BufferType, RetrieveAll
    <3>2. CheapPrepend <= Len(b.mem)
      BY BufferAssumption DEF Sound, BufferType, Indexed
    <3>3. Sound(r)
      BY <3>1, <3>2, BufferAssumption DEF Sound, Indexed
    <3>4. Readable(r) = <<>>
      BY <3>1, SubSeqEmpty, BufferAssumption DEF Readable
    <3>5. QED
      BY <3>3, <3>4
  <2>3. len = Len(Readable(b))
    BY <1>2, ReadableCells
  <2>4. Rest(Readable(b), len) = <<>>
    BY <2>3, ReadableCells, SubSeqEmpty DEF Rest
  <2>5. QED
    BY <2>1, <2>2, <2>4
<1>3. QED
  BY <1>1, <1>2

(* Data that fits is added after the readable bytes.                       *)
LEMMA FillSound ==
  ASSUME NEW b, Sound(b), NEW data \in Seq(Byte), Len(data) <= WritableBytes(b)
  PROVE  /\ Sound(Fill(b, data))
         /\ Readable(Fill(b, data)) = Readable(b) \o data
<1> DEFINE r == Fill(b, data)
<1>1. /\ b.mem \in Seq(Byte) /\ b.reader \in Nat /\ b.writer \in Nat
      /\ Len(b.mem) \in Nat /\ Len(data) \in Nat
      /\ CheapPrepend <= b.reader /\ b.reader <= b.writer
      /\ b.writer + Len(data) <= Len(b.mem)
  BY LenProperties DEF Sound, BufferType, Indexed, WritableBytes
<1>2. /\ Copy(b.mem, b.writer, data) \in Seq(Byte)
      /\ Len(Copy(b.mem, b.writer, data)) = Len(b.mem)
      /\ \A i \in 1 .. Len(data) : Copy(b.mem, b.writer, data)[b.writer + i] = data[i]
      /\ \A i \in 1 .. Len(b.mem) :
           ~(b.writer < i /\ i <= b.writer + Len(data)) =>
             Copy(b.mem, b.writer, data)[i] = b.mem[i]
  BY <1>1, CopyCells
<1>3. /\ r \in BufferType /\ r.mem = Copy(b.mem, b.writer, data)
      /\ r.reader = b.reader /\ r.writer = b.writer + Len(data)
  <2>1. r = [b EXCEPT !.mem = Copy(b.mem, b.writer, data),
                      !.writer = b.writer + Len(data)]
    BY DEF Fill
  <2>2. b \in BufferType
    BY DEF Sound
  <2>3. b.writer + Len(data) \in Nat
    BY <1>1
  <2>4. QED
    BY <1>2, <2>1, <2>2, <2>3 DEF BufferType
<1>4. Sound(r) /\ ReadableBytes(r) = ReadableBytes(b) + Len(data)
  BY <1>1, <1>2, <1>3, BufferAssumption DEF Sound, Indexed, ReadableBytes
<1>5. /\ Readable(b) \o data \in Seq(Byte)
      /\ Len(Readable(b) \o data) = ReadableBytes(r)
      /\ \A i \in 1 .. ReadableBytes(r) :
           (Readable(b) \o data)[i] = IF i <= ReadableBytes(b) THEN Readable(b)[i]
                                      ELSE data[i - ReadableBytes(b)]
  <2>1. /\ Readable(b) \in Seq(Byte) /\ Len(Readable(b)) = ReadableBytes(b)
        /\ ReadableBytes(b) \in Nat /\ Len(data) \in Nat
    BY <1>1, ReadableCells
  <2>2. /\ Readable(b) \o data \in Seq(Byte)
        /\ Len(Readable(b) \o data) = Len(Readable(b)) + Len(data)
        /\ \A i \in 1 .. Len(Readable(b)) + Len(data) :
             (Readable(b) \o data)[i] =
               IF i <= Len(Readable(b)) THEN Readable(b)[i] ELSE data[i - Len(Readable(b))]
    BY <2>1, ConcatProperties, ZenonT(30)
  <2>3. Len(Readable(b)) + Len(data) = ReadableBytes(r)
    BY <1>4, <2>1
  <2>4. QED
    BY <2>1, <2>2, <2>3, ZenonT(30)
<1>6. \A i \in 1 .. ReadableBytes(r) : (Readable(b) \o data)[i] = r.mem[r.reader + i]
  <2>1. SUFFICES ASSUME NEW i \in 1 .. ReadableBytes(r)
                 PROVE  (Readable(b) \o data)[i] = r.mem[r.reader + i]
    OBVIOUS
  <2>2. /\ ReadableBytes(b) = b.writer - b.reader /\ i \in Nat \ {0}
        /\ i <= ReadableBytes(b) + Len(data)
    BY <1>4 DEF ReadableBytes
  <2>3. r.mem[r.reader + i] = Copy(b.mem, b.writer, data)[b.reader + i]
    BY <1>3
  <2>4. CASE i <= ReadableBytes(b)
    <3>1. /\ b.reader + i \in 1 .. Len(b.mem) /\ ~(b.writer < b.reader + i)
          /\ i \in 1 .. ReadableBytes(b)
      BY <1>1, <2>2, <2>4
    <3>2. Copy(b.mem, b.writer, data)[b.reader + i] = b.mem[b.reader + i]
      BY <1>2, <3>1
    <3>3. QED
      BY <1>5, <2>3, <2>4, <3>1, <3>2, ReadableCells
  <2>5. CASE ~(i <= ReadableBytes(b))
    <3> DEFINE k == i - ReadableBytes(b)
    <3>1. k \in 1 .. Len(data) /\ b.writer + k = b.reader + i
      BY <1>1, <2>2, <2>5
    <3>2. Copy(b.mem, b.writer, data)[b.writer + k] = data[k]
      BY <1>2, <3>1
    <3>3. (Readable(b) \o data)[i] = data[k]
      BY <1>5, <2>5
    <3>4. QED
      BY <2>3, <3>1, <3>2, <3>3
  <2>6. QED
    BY <2>4, <2>5
<1>7. QED
  BY <1>4, <1>5, <1>6, ReadableIs
(* makeSpace, by growing or by moving, keeps the readable bytes and makes  *)
(* the room that it is called for.                                         *)
LEMMA MakeSpaceSound ==
  ASSUME NEW b, Sound(b), NEW len \in Nat, WritableBytes(b) < len
  PROVE  /\ Sound(MakeSpace(b, len))
         /\ Readable(MakeSpace(b, len)) = Readable(b)
         /\ len <= WritableBytes(MakeSpace(b, len))
<1> DEFINE r == MakeSpace(b, len)
<1>1. /\ b \in BufferType /\ b.mem \in Seq(Byte) /\ b.reader \in Nat /\ b.writer \in Nat
      /\ Len(b.mem) \in Nat /\ CheapPrepend \in Nat
      /\ CheapPrepend <= b.reader /\ b.reader <= b.writer /\ b.writer <= Len(b.mem)
      /\ Len(b.mem) - b.writer < len
  BY LenProperties, BufferAssumption DEF Sound, BufferType, Indexed, WritableBytes
<1>2. CASE WritableBytes(b) + PrependableBytes(b) < len
  <2> DEFINE more == b.writer + len - Len(b.mem)
  <2>1. more \in Nat
    BY <1>1
  <2>2. Zeros(more) \in Seq(Byte) /\ Len(Zeros(more)) = more
    <3>1. Zeros(more) \in [1 .. more -> Byte]
      BY BufferAssumption DEF Zeros
    <3>2. QED
      BY <2>1, <3>1, FunctionIsSeq
  <2> DEFINE grown == b.mem \o Zeros(more)
  <2>3. /\ grown \in Seq(Byte)
        /\ Len(grown) = b.writer + len
        /\ \A i \in 1 .. Len(b.mem) : grown[i] = b.mem[i]
    <3> DEFINE zeros == Zeros(more)
    <3> HIDE DEF zeros
    <3>1. zeros \in Seq(Byte) /\ Len(zeros) = more
      BY <2>2 DEF zeros
    <3>2. /\ b.mem \o zeros \in Seq(Byte)
          /\ Len(b.mem \o zeros) = Len(b.mem) + Len(zeros)
          /\ \A i \in 1 .. Len(b.mem) + Len(zeros) :
               (b.mem \o zeros)[i] =
                 IF i <= Len(b.mem) THEN b.mem[i] ELSE zeros[i - Len(b.mem)]
      BY <1>1, <3>1, ConcatProperties, ZenonT(30)
    <3>3. Len(b.mem) + Len(zeros) = b.writer + len
      BY <1>1, <3>1
    <3>4. \A i \in 1 .. Len(b.mem) : (b.mem \o zeros)[i] = b.mem[i]
      BY <1>1, <1>2, <3>2, <3>3
    <3>5. QED
      BY <3>2, <3>3, <3>4 DEF zeros
  <2>4. /\ r \in BufferType /\ r.mem = grown
        /\ r.reader = b.reader /\ r.writer = b.writer
    <3>1. r = [b EXCEPT !.mem = grown]
      BY <1>2 DEF MakeSpace
    <3> HIDE DEF grown
    <3>2. QED
      BY <1>1, <2>3, <3>1 DEF BufferType
  <2> HIDE DEF grown
  <2>5. Sound(r) /\ ReadableBytes(r) = ReadableBytes(b) /\ WritableBytes(r) = len
    BY <1>1, <2>3, <2>4 DEF Sound, Indexed, ReadableBytes, WritableBytes
  <2>6. \A i \in 1 .. ReadableBytes(b) : Readable(b)[i] = r.mem[r.reader + i]
    <3>1. SUFFICES ASSUME NEW i \in 1 .. ReadableBytes(b)
                   PROVE  Readable(b)[i] = r.mem[r.reader + i]
      OBVIOUS
    <3>2. b.reader + i \in 1 .. Len(b.mem)
      BY <1>1 DEF ReadableBytes
    <3>3. r.mem[r.reader + i] = grown[b.reader + i]
      BY <2>4
    <3>4. grown[b.reader + i] = b.mem[b.reader + i]
      BY <2>3, <3>2, ZenonT(30)
    <3>5. QED
      BY <3>3, <3>4, ReadableCells
  <2>7. QED
    BY <1>1, <2>5, <2>6, ReadableCells, ReadableIs
<1>3. CASE ~(WritableBytes(b) + PrependableBytes(b) < len)
  <2>1. /\ Readable(b) \in Seq(Byte) /\ ReadableBytes(b) \in Nat
        /\ Len(Readable(b)) = ReadableBytes(b)
        /\ ReadableBytes(b) = b.writer - b.reader
    BY ReadableCells DEF ReadableBytes
  <2>2. CheapPrepend + Len(Readable(b)) <= Len(b.mem)
    BY <1>1, <2>1
  <2>3. /\ Copy(b.mem, CheapPrepend, Readable(b)) \in Seq(Byte)
        /\ Len(Copy(b.mem, CheapPrepend, Readable(b))) = Len(b.mem)
        /\ \A i \in 1 .. Len(Readable(b)) :
             Copy(b.mem, CheapPrepend, Readable(b))[CheapPrepend + i] = Readable(b)[i]
    BY <1>1, <2>1, <2>2, CopyCells
  <2>4. r = [mem    |-> Copy(b.mem, CheapPrepend, Readable(b)),
             reader |-> CheapPrepend,
             writer |-> CheapPrepend + ReadableBytes(b)]
    BY <1>3 DEF MakeSpace
  <2>5. Sound(r) /\ ReadableBytes(r) = ReadableBytes(b)
    BY <1>1, <2>1, <2>2, <2>3, <2>4 DEF Sound, BufferType, Indexed, ReadableBytes
  <2>6. len <= WritableBytes(r)
    BY <1>1, <1>3, <2>1, <2>3, <2>4, SMTT(30) DEF WritableBytes, PrependableBytes
  <2>7. \A i \in 1 .. ReadableBytes(b) : Readable(b)[i] = r.mem[r.reader + i]
    BY <2>1, <2>3, <2>4
  <2>8. QED
    BY <2>1, <2>5, <2>6, <2>7, ReadableIs
<1>4. QED
  BY <1>2, <1>3

(* append adds the data after the readable bytes.                          *)
LEMMA AppendSound ==
  ASSUME NEW b, Sound(b), NEW data \in Seq(Byte)
  PROVE  /\ Sound(AppendBytes(b, data))
         /\ Readable(AppendBytes(b, data)) = Readable(b) \o data
<1> DEFINE r == EnsureWritableBytes(b, Len(data))
<1>1. Len(data) \in Nat /\ WritableBytes(b) \in Nat
  BY LenProperties DEF Sound, BufferType, Indexed, WritableBytes
<1>2. Sound(r) /\ Readable(r) = Readable(b) /\ Len(data) <= WritableBytes(r)
  <2>1. CASE WritableBytes(b) < Len(data)
    BY <1>1, <2>1, MakeSpaceSound DEF EnsureWritableBytes
  <2>2. CASE ~(WritableBytes(b) < Len(data))
    BY <1>1, <2>2 DEF EnsureWritableBytes
  <2>3. QED
    BY <2>1, <2>2
<1>3. QED
  <2> HIDE DEF r
  <2>1. Sound(Fill(r, data)) /\ Readable(Fill(r, data)) = Readable(r) \o data
    BY <1>2, FillSound
  <2>2. QED
    BY <1>2, <2>1 DEF AppendBytes, r

(* readFd adds what readv returned after the readable bytes, also when     *)
(* part of it went through extrabuf.                                       *)
LEMMA ReadFdSound ==
  ASSUME NEW b, Sound(b), NEW data \in Seq(Byte)
  PROVE  /\ Sound(ReadFd(b, data))
         /\ Readable(ReadFd(b, data)) = Readable(b) \o data
<1> DEFINE fits == WritableBytes(b)
           head == SubSeq(data, 1, fits)
           tail == SubSeq(data, fits + 1, Len(data))
<1>1. fits \in Nat /\ Len(data) \in Nat
  BY LenProperties DEF Sound, BufferType, Indexed, WritableBytes
<1>2. CASE Len(data) <= fits
  BY <1>2, FillSound DEF ReadFd
<1>3. CASE ~(Len(data) <= fits)
  <2>1. /\ head \in Seq(Byte) /\ Len(head) = fits
        /\ tail \in Seq(Byte) /\ head \o tail = data
    <3>1. fits \in 0 .. Len(data)
      BY <1>1, <1>3
    <3>2. QED
      BY <3>1, CutInTwo
  <2> HIDE DEF head, tail
  <2>2. Sound(Fill(b, head)) /\ Readable(Fill(b, head)) = Readable(b) \o head
    BY <1>1, <2>1, FillSound
  <2>3. /\ Sound(AppendBytes(Fill(b, head), tail))
        /\ Readable(AppendBytes(Fill(b, head), tail)) = Readable(Fill(b, head)) \o tail
    BY <2>1, <2>2, AppendSound
  <2>4. (Readable(b) \o head) \o tail = Readable(b) \o (head \o tail)
    <3>1. Readable(b) \in Seq(Byte)
      BY ReadableCells
    <3>2. \A s, t, u \in Seq(Byte) : (s \o t) \o u = s \o (t \o u)
      BY ConcatAssociative
    <3>3. QED
      BY <2>1, <3>1, <3>2, ZenonT(30)
  <2>5. ReadFd(b, data) = AppendBytes(Fill(b, head), tail)
    BY <1>3 DEF ReadFd, head, tail
  <2>6. QED
    BY <2>1, <2>2, <2>3, <2>4, <2>5
<1>4. QED
  BY <1>2, <1>3
-----------------------------------------------------------------------------
(* EchoStream.                                                             *)

(* The types of the two buffers and of the queues, in the form the lemmas  *)
(* above ask for.                                                          *)
LEMMA Types ==
  ASSUME TypeOK
  PROVE  /\ Sound(input) /\ Readable(input) \in Seq(Byte)
         /\ Sound(output) /\ Readable(output) \in Seq(Byte)
         /\ leaving \in Seq(Byte) /\ Len(leaving) \in Nat /\ Len(leaving) <= SndQueue
         /\ arrived \in Seq(Byte) /\ Len(arrived) \in Nat /\ Len(arrived) <= RcvQueue
<1>1. Sound(input) /\ Sound(output)
  BY DEF TypeOK, Sound
<1>2. QED
  BY <1>1, ReadableCells, LenProperties DEF TypeOK

(* Concatenation of sequences of bytes.                                    *)
LEMMA Joined ==
  /\ \A s, t \in Seq(Byte) : s \o t \in Seq(Byte) /\ Len(s \o t) = Len(s) + Len(t)
  /\ \A s, t, u \in Seq(Byte) : (s \o t) \o u = s \o (t \o u)
  /\ \A s \in Seq(Byte) : s \o <<>> = s /\ <<>> \o s = s
<1>1. \A s, t \in Seq(Byte) : s \o t \in Seq(Byte) /\ Len(s \o t) = Len(s) + Len(t)
  BY ConcatProperties
<1>2. \A s, t, u \in Seq(Byte) : (s \o t) \o u = s \o (t \o u)
  BY ConcatAssociative
<1>3. \A s \in Seq(Byte) : s \o <<>> = s /\ <<>> \o s = s
  BY ConcatEmptySeq
<1>4. QED
  BY <1>1, <1>2, <1>3

(* Four sequences, joined from the left or from the right.                 *)
LEMMA FourJoined ==
  \A q, r, s, t \in Seq(Byte) : ((q \o r) \o s) \o t = q \o (r \o (s \o t))
<1> SUFFICES ASSUME NEW q \in Seq(Byte), NEW r \in Seq(Byte),
                    NEW s \in Seq(Byte), NEW t \in Seq(Byte)
             PROVE  ((q \o r) \o s) \o t = q \o (r \o (s \o t))
  OBVIOUS
<1>1. q \o r \in Seq(Byte) /\ s \o t \in Seq(Byte)
  BY ConcatProperties
<1>2. ((q \o r) \o s) \o t = (q \o r) \o (s \o t)
  BY <1>1, ConcatAssociative, SMTT(60)
<1>3. (q \o r) \o (s \o t) = q \o (r \o (s \o t))
  BY <1>1, ConcatAssociative, SMTT(60)
<1>4. QED
  BY <1>2, <1>3

(* append to the output buffer of data that is not empty.                  *)
LEMMA OutputGrows ==
  ASSUME TypeOK, NEW data \in Seq(Byte), Len(data) # 0
  PROVE  /\ Sound(AppendBytes(output, data))
         /\ Readable(AppendBytes(output, data)) = Readable(output) \o data
         /\ ReadableBytes(AppendBytes(output, data)) > 0
<1>1. /\ Sound(AppendBytes(output, data))
      /\ Readable(AppendBytes(output, data)) = Readable(output) \o data
  BY Types, AppendSound
<1>2. Len(Readable(output) \o data) = Len(Readable(output)) + Len(data)
  BY Types, Joined
<1>3. /\ Len(Readable(output)) \in Nat /\ Len(data) \in Nat
      /\ ReadableBytes(AppendBytes(output, data)) = Len(Readable(output)) + Len(data)
  BY <1>1, <1>2, Types, ReadableCells, LenProperties
<1>4. QED
  BY <1>1, <1>3

(* sendInLoop keeps the types, whatever it appends; and when it writes     *)
(* directly, the data is what the send queue and the output buffer get.    *)
LEMMA SendSound ==
  ASSUME TypeOK, NEW data \in Seq(Byte), Len(data) # 0, SendInLoop(data)
  PROVE  /\ Sound(output') /\ writing' \in BOOLEAN
         /\ leaving' \in Seq(Byte) /\ Len(leaving') <= SndQueue
         /\ WritingIffOutput => WritingIffOutput'
         /\ ~writing /\ ReadableBytes(output) = 0 /\ Room > 0 =>
              leaving' \o Readable(output') = leaving \o data
<1>1. Len(data) \in Nat \ {0}
  BY LenProperties
<1>2. CASE ~writing /\ ReadableBytes(output) = 0 /\ Room > 0
  <2>1. PICK n \in 1 .. Len(data) :
          /\ n <= Room
          /\ leaving' = leaving \o First(data, n)
          /\ IF n = Len(data) THEN UNCHANGED <<output, writing>>
             ELSE /\ output' = AppendBytes(output, Rest(data, n))
                  /\ writing' = TRUE
    BY <1>2 DEF SendInLoop
  <2>2. /\ First(data, n) \in Seq(Byte) /\ Len(First(data, n)) = n
        /\ Rest(data, n) \in Seq(Byte) /\ Len(Rest(data, n)) = Len(data) - n
        /\ First(data, n) \o Rest(data, n) = data
    BY <1>1, CutInTwo DEF First, Rest
  <2>3. leaving' \in Seq(Byte) /\ Len(leaving') <= SndQueue
    <3>1. leaving' \in Seq(Byte) /\ Len(leaving') = Len(leaving) + n
      <4>1. leaving' = leaving \o First(data, n)
        BY <2>1
      <4>2. leaving \in Seq(Byte)
        BY Types
      <4>3. /\ leaving \o First(data, n) \in Seq(Byte)
            /\ Len(leaving \o First(data, n)) = Len(leaving) + Len(First(data, n))
        BY <2>2, <4>2, Joined, ZenonT(30)
      <4>4. QED
        BY <2>2, <4>1, <4>3
    <3>2. n <= SndQueue - Len(leaving)
      BY <2>1 DEF Room
    <3>3. QED
      BY <3>1, <3>2, Types, EchoStreamAssumption
  <2>4. Readable(output) = <<>>
    <3>1. Readable(output) \in Seq(Byte) /\ Len(Readable(output)) = 0
      BY <1>2, Types, ReadableCells
    <3>2. QED
      BY <3>1, EmptySeq
  <2>5. CASE n = Len(data)
    <3>1. output' = output /\ writing' = writing
      BY <2>1, <2>5
    <3>2. First(data, n) = data
      BY <2>5, SubSeqFull DEF First
    <3>3. leaving' \o Readable(output') = leaving \o data
      BY <2>1, <2>3, <2>4, <3>1, <3>2, Joined
    <3>4. WritingIffOutput => WritingIffOutput'
      BY <3>1 DEF WritingIffOutput
    <3>5. QED
      BY <2>3, <3>1, <3>3, <3>4, Types DEF TypeOK
  <2>6. CASE n # Len(data)
    <3>1. output' = AppendBytes(output, Rest(data, n)) /\ writing' = TRUE
      BY <2>1, <2>6
    <3>2. Len(Rest(data, n)) # 0
      BY <1>1, <2>2, <2>6
    <3>3. /\ Sound(output') /\ Readable(output') = Readable(output) \o Rest(data, n)
          /\ ReadableBytes(output') > 0
      BY <2>2, <3>1, <3>2, OutputGrows
    <3>4. Readable(output') = Rest(data, n)
      BY <2>2, <2>4, <3>3, Joined
    <3>5. leaving' \o Readable(output') = leaving \o data
      <4>1. leaving' = leaving \o First(data, n)
        BY <2>1
      <4>2. leaving \in Seq(Byte)
        BY Types
      <4>3. (leaving \o First(data, n)) \o Rest(data, n)
              = leaving \o (First(data, n) \o Rest(data, n))
        BY <2>2, <4>2, Joined, ZenonT(30)
      <4>4. QED
        BY <2>2, <3>4, <4>1, <4>3
    <3>6. QED
      BY <2>3, <3>1, <3>3, <3>5 DEF WritingIffOutput
  <2>7. QED
    BY <2>5, <2>6
<1>3. CASE ~(~writing /\ ReadableBytes(output) = 0 /\ Room > 0)
  <2>1. PICK added \in Seq(Byte) :
          Len(added) # 0 /\ output' = AppendBytes(output, added)
    <3>1. CASE \E before \in Byte : output' = AppendBytes(output, <<before>> \o data)
      <4>1. PICK before \in Byte : output' = AppendBytes(output, <<before>> \o data)
        BY <3>1
      <4>2. <<before>> \in Seq(Byte) /\ Len(<<before>>) = 1
        OBVIOUS
      <4>3. <<before>> \o data \in Seq(Byte) /\ Len(<<before>> \o data) = 1 + Len(data)
        BY <4>2, Joined
      <4>4. Len(<<before>> \o data) # 0
        BY <1>1, <4>3
      <4>5. QED
        BY <4>1, <4>3, <4>4
    <3>2. CASE \E found \in [1 .. Len(data) -> Byte] : output' = AppendBytes(output, found)
      BY <1>1, <3>2, FunctionIsSeq
    <3>3. QED
      BY <1>3, <3>1, <3>2 DEF SendInLoop
  <2>2. writing' = TRUE /\ leaving' = leaving
    BY <1>3 DEF SendInLoop
  <2>3. Sound(output') /\ ReadableBytes(output') > 0
    BY <2>1, OutputGrows
  <2>4. QED
    BY <1>3, <2>2, <2>3, Types DEF WritingIffOutput
<1>4. QED
  BY <1>2, <1>3
(* handleRead with the message callback.  Nothing is lost between the      *)
(* receive queue and send(), if the callback waits for room.               *)
LEMMA ReadSound ==
  ASSUME TypeOK, HandleRead
  PROVE  /\ TypeOK'
         /\ WritingIffOutput => WritingIffOutput'
         /\ WaitsForRoom => InFlight' = InFlight
<1>1. PICK n \in 1 .. Len(arrived) :
        /\ arrived' = Rest(arrived, n)
        /\ MessageCallback(ReadFd(input, First(arrived, n)))
  BY DEF HandleRead
<1> DEFINE came == First(arrived, n)
           buffer == ReadFd(input, came)
<1>2. /\ came \in Seq(Byte) /\ Rest(arrived, n) \in Seq(Byte)
      /\ Len(Rest(arrived, n)) = Len(arrived) - n
      /\ came \o Rest(arrived, n) = arrived
  <2>1. n \in 0 .. Len(arrived)
    BY Types
  <2>2. QED
    BY <2>1, Types, CutInTwo DEF First, Rest
<1>3. Sound(buffer) /\ Readable(buffer) = Readable(input) \o came
  BY <1>2, Types, ReadFdSound
<1>4. PICK taken \in 0 .. ReadableBytes(buffer) :
        /\ input' = Retrieve(buffer, taken)
        /\ WaitsForRoom /\ taken > 0 =>
             ~writing /\ ReadableBytes(output) = 0 /\ Room > 0
        /\ IF taken = 0 THEN UNCHANGED <<output, writing, leaving>>
                        ELSE SendInLoop(First(Readable(buffer), taken))
  BY <1>1 DEF MessageCallback
<1> HIDE DEF buffer, came
<1> DEFINE sent == First(Readable(buffer), taken)
           kept == Rest(Readable(buffer), taken)
<1>5. /\ Readable(buffer) \in Seq(Byte) /\ Len(Readable(buffer)) = ReadableBytes(buffer)
      /\ sent \in Seq(Byte) /\ Len(sent) = taken
      /\ kept \in Seq(Byte) /\ sent \o kept = Readable(buffer)
  <2>1. /\ Readable(buffer) \in Seq(Byte) /\ Len(Readable(buffer)) = ReadableBytes(buffer)
        /\ taken \in 0 .. Len(Readable(buffer))
    BY <1>3, ReadableCells
  <2>2. QED
    BY <2>1, CutInTwo DEF First, Rest
<1>6. Sound(input') /\ Readable(input') = kept
  BY <1>3, <1>4, RetrieveSound
<1> HIDE DEF sent, kept
<1>7. /\ Sound(output') /\ writing' \in BOOLEAN
      /\ leaving' \in Seq(Byte) /\ Len(leaving') <= SndQueue
      /\ WritingIffOutput => WritingIffOutput'
      /\ WaitsForRoom => leaving' \o Readable(output') = (leaving \o Readable(output)) \o sent
  <2>1. CASE taken = 0
    <3>1. output' = output /\ writing' = writing /\ leaving' = leaving
      BY <1>4, <2>1
    <3>2. sent = <<>>
      BY <1>5, <2>1, EmptySeq
    <3>3. leaving \o Readable(output) \in Seq(Byte)
      BY Types, Joined
    <3>4. leaving' \o Readable(output') = (leaving \o Readable(output)) \o sent
      BY <3>1, <3>2, <3>3, Joined
    <3>5. QED
      BY <3>1, <3>4, Types DEF TypeOK, WritingIffOutput
  <2>2. CASE taken # 0
    <3>1. SendInLoop(sent) /\ Len(sent) # 0
      BY <1>4, <1>5, <2>2 DEF sent
    <3>2. /\ Sound(output') /\ writing' \in BOOLEAN
          /\ leaving' \in Seq(Byte) /\ Len(leaving') <= SndQueue
          /\ WritingIffOutput => WritingIffOutput'
          /\ ~writing /\ ReadableBytes(output) = 0 /\ Room > 0 =>
               leaving' \o Readable(output') = leaving \o sent
      BY <1>5, <3>1, SendSound
    <3>3. ASSUME WaitsForRoom
          PROVE  leaving' \o Readable(output') = (leaving \o Readable(output)) \o sent
      <4>1. ~writing /\ ReadableBytes(output) = 0 /\ Room > 0
        BY <1>4, <2>2, <3>3
      <4>2. Readable(output) \in Seq(Byte) /\ Len(Readable(output)) = 0
        BY <4>1, Types, ReadableCells
      <4>3. Readable(output) = <<>>
        BY <4>2, EmptySeq
      <4>4. leaving \o Readable(output) = leaving
        BY <4>3, Types, Joined
      <4>5. QED
        BY <3>2, <4>1, <4>4
    <3>4. QED
      BY <3>2, <3>3
  <2>3. QED
    BY <2>1, <2>2
<1>8. TypeOK'
  <2>1. next' = next
    BY DEF HandleRead
  <2>2. arrived' \in Seq(Byte) /\ Len(arrived') <= RcvQueue
    BY <1>1, <1>2, Types, EchoStreamAssumption
  <2>3. QED
    BY <1>6, <1>7, <2>1, <2>2 DEF TypeOK, Sound
<1>9. ASSUME WaitsForRoom
      PROVE  InFlight' = InFlight
  <2> DEFINE front == leaving \o Readable(output)
             rest  == Rest(arrived, n)
  <2>1. front \in Seq(Byte)
    BY Types, Joined
  <2>2. InFlight' = ((front \o sent) \o kept) \o rest
    BY <1>1, <1>6, <1>7, <1>9 DEF InFlight
  <2> HIDE DEF front, rest
  <2>3. ((front \o sent) \o kept) \o rest = (front \o (sent \o kept)) \o rest
    BY <1>5, <2>1, Joined, ZenonT(30)
  <2>4. (front \o (Readable(input) \o came)) \o rest
          = ((front \o Readable(input)) \o came) \o rest
    BY <1>2, <2>1, Types, Joined, ZenonT(30)
  <2>5. rest \in Seq(Byte) /\ front \o Readable(input) \in Seq(Byte)
    BY <1>2, <2>1, Types, Joined, ZenonT(30) DEF rest
  <2>6. ((front \o Readable(input)) \o came) \o rest
          = (front \o Readable(input)) \o (came \o rest)
    BY <1>2, <2>5, Joined, ZenonT(30)
  <2>7. came \o rest = arrived
    BY <1>2 DEF rest
  <2>8. InFlight = (front \o Readable(input)) \o arrived
    BY DEF InFlight, front
  <2>9. QED
    BY <1>3, <1>5, <2>2, <2>3, <2>4, <2>6, <2>7, <2>8
<1>10. QED
  BY <1>7, <1>8, <1>9
(* handleWrite moves bytes from the output buffer to the send queue.       *)
LEMMA WriteSound ==
  ASSUME TypeOK, HandleWrite
  PROVE  TypeOK' /\ WritingIffOutput' /\ InFlight' = InFlight
<1>1. PICK n \in 1 .. ReadableBytes(output) :
        /\ n <= Room
        /\ leaving' = leaving \o First(Readable(output), n)
        /\ output' = Retrieve(output, n)
        /\ writing' = (ReadableBytes(output') # 0)
  BY DEF HandleWrite
<1> DEFINE written == First(Readable(output), n)
           kept    == Rest(Readable(output), n)
<1>2. /\ written \in Seq(Byte) /\ Len(written) = n
      /\ kept \in Seq(Byte) /\ written \o kept = Readable(output)
  <2>1. n \in 0 .. Len(Readable(output)) /\ Readable(output) \in Seq(Byte)
    BY Types, ReadableCells
  <2>2. QED
    BY <2>1, CutInTwo DEF First, Rest
<1>3. Sound(output') /\ Readable(output') = kept
  <2>1. n \in 0 .. ReadableBytes(output)
    BY Types, ReadableCells
  <2>2. QED
    BY <1>1, <2>1, Types, RetrieveSound
<1> HIDE DEF kept
<1>4. leaving' = leaving \o written
  BY <1>1
<1> HIDE DEF written
<1>5. leaving' \in Seq(Byte) /\ Len(leaving') = Len(leaving) + n
  BY <1>2, <1>4, Types, Joined
<1>6. TypeOK'
  <2>1. Len(leaving') <= SndQueue
    BY <1>1, <1>5, Types, EchoStreamAssumption DEF Room
  <2>2. next' = next /\ arrived' = arrived /\ input' = input
    BY DEF HandleWrite
  <2>3. writing' \in BOOLEAN
    BY <1>1
  <2>4. QED
    BY <1>3, <1>5, <2>1, <2>2, <2>3 DEF TypeOK, Sound
<1>7. WritingIffOutput'
  <2>1. ReadableBytes(output') \in Nat
    BY <1>3, ReadableCells
  <2>2. (ReadableBytes(output') # 0) <=> ReadableBytes(output') > 0
    BY <2>1
  <2>3. writing' <=> ReadableBytes(output') > 0
    BY <1>1, <2>2, ZenonT(30)
  <2>4. QED
    BY <2>3 DEF WritingIffOutput
<1>8. InFlight' = InFlight
  <2>1. leaving' \o Readable(output') = leaving \o Readable(output)
    <3>1. leaving \in Seq(Byte)
      BY Types
    <3>2. (leaving \o written) \o kept = leaving \o (written \o kept)
      BY <1>2, <3>1, Joined, ZenonT(30)
    <3>3. QED
      BY <1>2, <1>3, <1>4, <3>2
  <2>2. arrived' = arrived /\ input' = input
    BY DEF HandleWrite
  <2>3. QED
    BY <2>1, <2>2 DEF InFlight
<1>9. QED
  BY <1>6, <1>7, <1>8

(* A byte that the peer sends enters the stream.                           *)
LEMMA PeerSendsSound ==
  ASSUME TypeOK, PeerSends
  PROVE  /\ TypeOK'
         /\ WritingIffOutput => WritingIffOutput'
         /\ Echo!Enter
<1>1. next \in Byte /\ next' \in Byte
  BY EchoStreamAssumption DEF TypeOK, PeerSends
<1>2. /\ arrived' = Append(arrived, next) /\ UNCHANGED <<input, output, writing, leaving>>
      /\ Len(arrived) < RcvQueue
  BY DEF PeerSends
<1>3. arrived' \in Seq(Byte) /\ Len(arrived') = Len(arrived) + 1
  BY <1>1, <1>2, Types, AppendProperties
<1>4. TypeOK'
  BY <1>1, <1>2, <1>3, Types, EchoStreamAssumption DEF TypeOK
<1>5. WritingIffOutput => WritingIffOutput'
  BY <1>2 DEF WritingIffOutput
<1>6. InFlight' = Append(InFlight, next)
  <2> DEFINE front == (leaving \o Readable(output)) \o Readable(input)
  <2>1. front \in Seq(Byte)
    BY Types, Joined
  <2>2. InFlight' = front \o Append(arrived, next) /\ InFlight = front \o arrived
    BY <1>2 DEF InFlight
  <2> HIDE DEF front
  <2>3. front \o Append(arrived, next) = Append(front \o arrived, next)
    BY <1>1, <2>1, Types, AppendToJoined
  <2>4. QED
    BY <2>2, <2>3
<1>7. QED
  BY <1>1, <1>4, <1>5, <1>6 DEF Echo!Enter

(* A byte that the peer reads is the oldest of the stream.                 *)
LEMMA PeerReadsSound ==
  ASSUME TypeOK, PeerReads
  PROVE  /\ TypeOK'
         /\ WritingIffOutput => WritingIffOutput'
         /\ Echo!Leave
<1>1. /\ leaving # <<>> /\ leaving' = Tail(leaving)
      /\ UNCHANGED <<next, arrived, input, output, writing>>
  BY DEF PeerReads
<1>2. leaving' \in Seq(Byte) /\ Len(leaving') = Len(leaving) - 1
  BY <1>1, Types, HeadTailProperties
<1>3. TypeOK'
  BY <1>1, <1>2, Types, EchoStreamAssumption DEF TypeOK
<1>4. WritingIffOutput => WritingIffOutput'
  BY <1>1 DEF WritingIffOutput
<1>5. InFlight # <<>> /\ InFlight' = Tail(InFlight)
  <2> DEFINE rest == Readable(output) \o (Readable(input) \o arrived)
  <2>1. /\ leaving \in Seq(Byte) /\ arrived \in Seq(Byte)
        /\ Readable(output) \in Seq(Byte) /\ Readable(input) \in Seq(Byte)
    BY Types
  <2>2. rest \in Seq(Byte)
    BY <2>1, Joined
  <2>3. ASSUME NEW q \in Seq(Byte)
        PROVE  ((q \o Readable(output)) \o Readable(input)) \o arrived = q \o rest
    <3> DEFINE Same(w, x, y, z) == ((w \o x) \o y) \o z = w \o (x \o (y \o z))
    <3>1. \A w, x, y, z \in Seq(Byte) : Same(w, x, y, z)
      BY FourJoined
    <3> HIDE DEF Same
    <3>2. Same(q, Readable(output), Readable(input), arrived)
      BY <2>1, <2>3, <3>1, Zenon
    <3>3. QED
      BY <3>2 DEF Same
  <2> HIDE DEF rest
  <2>4. InFlight = leaving \o rest /\ InFlight' = leaving' \o rest
    BY <1>1, <1>2, <2>1, <2>3 DEF InFlight
  <2>5. leaving \o rest # <<>> /\ Tail(leaving \o rest) = Tail(leaving) \o rest
    BY <1>1, <2>1, <2>2, HeadOfJoined
  <2>6. QED
    BY <1>1, <2>4, <2>5
<1>6. QED
  BY <1>3, <1>4, <1>5 DEF Echo!Leave

-----------------------------------------------------------------------------
(* The size of the vectors.                                                *)

(* The cells and the indices of a buffer that has been filled.             *)
LEMMA FillSize ==
  ASSUME NEW b, Sound(b), NEW data \in Seq(Byte), Len(data) <= WritableBytes(b)
  PROVE  /\ Len(Fill(b, data).mem) = Len(b.mem)
         /\ Fill(b, data).reader = b.reader
         /\ Fill(b, data).writer = b.writer + Len(data)
<1>1. /\ b.mem \in Seq(Byte) /\ b.writer \in Nat
      /\ b.writer + Len(data) <= Len(b.mem)
  BY LenProperties DEF Sound, BufferType, Indexed, WritableBytes
<1>2. Len(Copy(b.mem, b.writer, data)) = Len(b.mem)
  BY <1>1, CopyCells
<1>3. /\ Fill(b, data).mem = Copy(b.mem, b.writer, data)
      /\ Fill(b, data).reader = b.reader
      /\ Fill(b, data).writer = b.writer + Len(data)
  BY DEF Fill, Sound, BufferType
<1>4. QED
  BY <1>2, <1>3

(* append() makes the vector grow only as far as the data needs it, and    *)
(* only when the cells that have been read are fewer than the data.        *)
LEMMA AppendSize ==
  ASSUME NEW b, Sound(b), NEW data \in Seq(Byte)
  PROVE  Len(AppendBytes(b, data).mem) =
           IF WritableBytes(b) + PrependableBytes(b) < Len(data)
           THEN b.writer + Len(data) ELSE Len(b.mem)
<1> DEFINE r == EnsureWritableBytes(b, Len(data))
<1>1. /\ b.mem \in Seq(Byte) /\ b.reader \in Nat /\ b.writer \in Nat
      /\ Len(b.mem) \in Nat /\ Len(data) \in Nat /\ CheapPrepend \in Nat
      /\ CheapPrepend <= b.reader /\ b.reader <= b.writer /\ b.writer <= Len(b.mem)
      /\ WritableBytes(b) \in Nat /\ PrependableBytes(b) \in Nat
  BY LenProperties, BufferAssumption
  DEF Sound, BufferType, Indexed, WritableBytes, PrependableBytes
<1>2. Len(r.mem) = IF WritableBytes(b) + PrependableBytes(b) < Len(data)
                   THEN b.writer + Len(data) ELSE Len(b.mem)
  <2>1. CASE WritableBytes(b) + PrependableBytes(b) < Len(data)
    <3> DEFINE more == b.writer + Len(data) - Len(b.mem)
    <3>1. WritableBytes(b) < Len(data) /\ more \in Nat
      BY <1>1, <2>1 DEF WritableBytes
    <3>2. Zeros(more) \in Seq(Byte) /\ Len(Zeros(more)) = more
      <4>1. Zeros(more) \in [1 .. more -> Byte]
        BY BufferAssumption DEF Zeros
      <4>2. QED
        BY <3>1, <4>1, FunctionIsSeq
    <3>3. r = [b EXCEPT !.mem = b.mem \o Zeros(more)]
      BY <2>1, <3>1 DEF EnsureWritableBytes, MakeSpace
    <3>4. r.mem = b.mem \o Zeros(more)
      BY <3>3 DEF Sound, BufferType
    <3>5. Len(b.mem) + more = b.writer + Len(data)
      BY <1>1
    <3> HIDE DEF more, r
    <3>6. Len(b.mem \o Zeros(more)) = Len(b.mem) + more
      BY <1>1, <3>2, ConcatProperties
    <3>7. QED
      BY <2>1, <3>4, <3>5, <3>6
  <2>2. CASE ~(WritableBytes(b) + PrependableBytes(b) < Len(data))
    <3>1. CASE WritableBytes(b) < Len(data)
      <4>1. r.mem = Copy(b.mem, CheapPrepend, Readable(b))
        BY <2>2, <3>1 DEF EnsureWritableBytes, MakeSpace
      <4>2. /\ Readable(b) \in Seq(Byte)
            /\ CheapPrepend + Len(Readable(b)) <= Len(b.mem)
        BY <1>1, ReadableCells DEF ReadableBytes
      <4>3. QED
        BY <1>1, <2>2, <4>1, <4>2, CopyCells
    <3>2. CASE ~(WritableBytes(b) < Len(data))
      BY <2>2, <3>2 DEF EnsureWritableBytes
    <3>3. QED
      BY <3>1, <3>2
  <2>3. QED
    BY <2>1, <2>2
<1>3. Sound(r) /\ Len(data) <= WritableBytes(r)
  <2>1. CASE WritableBytes(b) < Len(data)
    BY <1>1, <2>1, MakeSpaceSound DEF EnsureWritableBytes
  <2>2. CASE ~(WritableBytes(b) < Len(data))
    BY <1>1, <2>2 DEF EnsureWritableBytes
  <2>3. QED
    BY <2>1, <2>2
<1> HIDE DEF r
<1>4. Len(Fill(r, data).mem) = Len(r.mem)
  BY <1>3, FillSize
<1>5. QED
  BY <1>2, <1>4 DEF AppendBytes, r

(* readFd: what does not fit is less than what arrived.                    *)
LEMMA ReadFdSize ==
  ASSUME NEW b, Sound(b), NEW data \in Seq(Byte)
  PROVE  \/ Len(ReadFd(b, data).mem) = Len(b.mem)
         \/ Len(ReadFd(b, data).mem) <= CheapPrepend + ReadableBytes(b) + 2 * Len(data)
<1> DEFINE fits == WritableBytes(b)
           head == SubSeq(data, 1, fits)
           tail == SubSeq(data, fits + 1, Len(data))
<1>1. /\ fits \in Nat /\ Len(data) \in Nat /\ CheapPrepend \in Nat
      /\ b.reader \in Nat /\ b.writer \in Nat /\ Len(b.mem) \in Nat
      /\ CheapPrepend <= b.reader /\ b.reader <= b.writer /\ b.writer <= Len(b.mem)
      /\ fits = Len(b.mem) - b.writer
  BY LenProperties, BufferAssumption DEF Sound, BufferType, Indexed, WritableBytes
<1>2. CASE Len(data) <= fits
  BY <1>2, FillSize DEF ReadFd
<1>3. CASE ~(Len(data) <= fits)
  <2>1. /\ head \in Seq(Byte) /\ Len(head) = fits
        /\ tail \in Seq(Byte) /\ Len(tail) = Len(data) - fits
    <3>1. fits \in 0 .. Len(data)
      BY <1>1, <1>3
    <3>2. QED
      BY <3>1, CutInTwo
  <2> DEFINE full == Fill(b, head)
  <2>2. ReadFd(b, data) = AppendBytes(full, tail)
    BY <1>3 DEF ReadFd
  <2> HIDE DEF head, tail
  <2>3. /\ Sound(full) /\ Len(full.mem) = Len(b.mem)
        /\ full.reader = b.reader /\ full.writer = Len(b.mem)
    BY <1>1, <2>1, FillSound, FillSize
  <2> HIDE DEF full
  <2>4. /\ WritableBytes(full) = 0 /\ PrependableBytes(full) = b.reader - CheapPrepend
    BY <1>1, <2>3 DEF WritableBytes, PrependableBytes
  <2>5. Len(AppendBytes(full, tail).mem) =
          IF b.reader - CheapPrepend < Len(data) - fits
          THEN Len(b.mem) + (Len(data) - fits) ELSE Len(b.mem)
    <3>1. 0 + (b.reader - CheapPrepend) = b.reader - CheapPrepend
      BY <1>1
    <3>2. QED
      BY <2>1, <2>3, <2>4, <3>1, AppendSize
  <2>6. ASSUME b.reader - CheapPrepend < Len(data) - fits
        PROVE  Len(b.mem) + (Len(data) - fits)
                 <= CheapPrepend + ReadableBytes(b) + 2 * Len(data)
    <3> HIDE DEF fits
    <3>1. b.reader < CheapPrepend + Len(data) - fits
      BY <1>1, <2>6
    <3>2. Len(b.mem) = b.writer + fits /\ ReadableBytes(b) = b.writer - b.reader
      BY <1>1 DEF ReadableBytes
    <3>3. ReadableBytes(b) \in Nat
      BY <1>1, <3>2
    <3>4. Len(b.mem) + (Len(data) - fits) = b.writer + Len(data)
      BY <1>1, <3>2
    <3>5. b.writer + Len(data) = ReadableBytes(b) + b.reader + Len(data)
      BY <1>1, <3>2
    <3>6. b.reader + Len(data) <= CheapPrepend + 2 * Len(data)
      BY <1>1, <3>1
    <3>7. QED
      BY <1>1, <3>3, <3>4, <3>5, <3>6
  <2>7. QED
    BY <2>2, <2>5, <2>6
<1>4. QED
  BY <1>2, <1>3

LEMMA RetrieveSize ==
  ASSUME NEW b, Sound(b), NEW len \in 0 .. ReadableBytes(b)
  PROVE  /\ Retrieve(b, len).mem = b.mem
         /\ ReadableBytes(Retrieve(b, len)) = ReadableBytes(b) - len
         /\ len = ReadableBytes(b) => Retrieve(b, len).writer = CheapPrepend
<1>1. ReadableBytes(b) \in Nat /\ b.reader \in Nat /\ b.writer \in Nat /\ CheapPrepend \in Nat
      /\ ReadableBytes(b) = b.writer - b.reader
  BY ReadableCells, BufferAssumption DEF Sound, BufferType, ReadableBytes
<1>2. CASE len < ReadableBytes(b)
  <2>1. /\ Retrieve(b, len).mem = b.mem /\ Retrieve(b, len).writer = b.writer
        /\ Retrieve(b, len).reader = b.reader + len
    BY <1>2 DEF Retrieve, Sound, BufferType
  <2>2. QED
    BY <1>1, <1>2, <2>1 DEF ReadableBytes
<1>3. CASE ~(len < ReadableBytes(b))
  <2>1. len = ReadableBytes(b)
    BY <1>1, <1>3
  <2>2. /\ Retrieve(b, len).mem = b.mem /\ Retrieve(b, len).writer = CheapPrepend
        /\ Retrieve(b, len).reader = CheapPrepend
    BY <1>3 DEF Retrieve, RetrieveAll, Sound, BufferType
  <2>3. QED
    BY <1>1, <2>1, <2>2 DEF ReadableBytes
<1>4. QED
  BY <1>2, <1>3

InputBound  == CheapPrepend + Larger(InitialSize, MaxHeld + 2 * RcvQueue)
OutputBound == CheapPrepend + Larger(InitialSize, MaxHeld + RcvQueue)

LEMMA Bounds ==
  /\ InputBound \in Nat /\ OutputBound \in Nat /\ CheapPrepend \in Nat
  /\ CheapPrepend + InitialSize <= InputBound /\ CheapPrepend + InitialSize <= OutputBound
  /\ CheapPrepend + (MaxHeld + 2 * RcvQueue) <= InputBound
  /\ CheapPrepend + (MaxHeld + RcvQueue) <= OutputBound
BY BufferAssumption, EchoStreamAssumption DEF InputBound, OutputBound, Larger

(* Between two handlers the callback has left no more than it may, and a   *)
(* buffer that has been emptied has been reset (retrieveAll).              *)
Held ==
  /\ ReadableBytes(input) <= MaxHeld
  /\ ReadableBytes(output) = 0 => output.writer = CheapPrepend
  /\ SizeBounded

(* sendInLoop into an empty buffer: the rest of the data is all it holds.  *)
LEMMA SendSize ==
  ASSUME TypeOK, Held, NEW data \in Seq(Byte), Len(data) # 0, SendInLoop(data),
         ~writing, ReadableBytes(output) = 0, Room > 0,
         Len(data) <= MaxHeld + RcvQueue
  PROVE  /\ Len(output'.mem) <= OutputBound
         /\ ReadableBytes(output') = 0 => output'.writer = CheapPrepend
<1>1. Len(data) \in Nat \ {0}
  BY LenProperties
<1>2. PICK n \in 1 .. Len(data) :
        IF n = Len(data) THEN UNCHANGED <<output, writing>>
                         ELSE output' = AppendBytes(output, Rest(data, n))
  BY DEF SendInLoop
<1>3. /\ Len(output.mem) <= OutputBound /\ Len(output.mem) \in Nat
      /\ output.writer = CheapPrepend /\ Sound(output)
  BY Types, LenProperties DEF Held, SizeBounded, OutputBound, Sound, BufferType
<1>4. CASE n = Len(data)
  BY <1>2, <1>3, <1>4 DEF Held
<1>5. CASE n # Len(data)
  <2> DEFINE rest == Rest(data, n)
  <2>1. rest \in Seq(Byte) /\ Len(rest) = Len(data) - n /\ Len(rest) # 0
    BY <1>1, <1>5, CutInTwo DEF Rest
  <2>2. output' = AppendBytes(output, rest)
    BY <1>2, <1>5
  <2> HIDE DEF rest
  <2>3. ReadableBytes(output') > 0
    BY <2>1, <2>2, OutputGrows
  <2>4. \/ Len(output'.mem) = Len(output.mem)
        \/ Len(output'.mem) = CheapPrepend + Len(rest)
    BY <1>3, <2>1, <2>2, AppendSize
  <2>5. CheapPrepend + Len(rest) <= OutputBound
    BY <1>1, <2>1, Bounds, EchoStreamAssumption
  <2>6. QED
    BY <1>3, <2>3, <2>4, <2>5
<1>6. QED
  BY <1>4, <1>5

(* handleRead with the message callback.                                   *)
LEMMA ReadHeld ==
  ASSUME WaitsForRoom, TypeOK, Held, HandleRead
  PROVE  Held'
<1>1. PICK n \in 1 .. Len(arrived) :
        MessageCallback(ReadFd(input, First(arrived, n)))
  BY DEF HandleRead
<1> DEFINE came == First(arrived, n)
           buffer == ReadFd(input, came)
<1>2. came \in Seq(Byte) /\ Len(came) = n /\ Len(came) <= RcvQueue
  <2>1. n \in 0 .. Len(arrived) /\ n <= RcvQueue
    BY Types, EchoStreamAssumption
  <2>2. QED
    BY <2>1, Types, CutInTwo DEF First
<1>3. Sound(buffer) /\ Readable(buffer) = Readable(input) \o came
  BY <1>2, Types, ReadFdSound
<1>4. PICK taken \in 0 .. ReadableBytes(buffer) :
        /\ input' = Retrieve(buffer, taken)
        /\ taken > 0 => ~writing /\ ReadableBytes(output) = 0 /\ Room > 0
        /\ ReadableBytes(buffer) - taken <= MaxHeld
        /\ IF taken = 0 THEN UNCHANGED <<output, writing, leaving>>
                        ELSE SendInLoop(First(Readable(buffer), taken))
  BY <1>1 DEF MessageCallback
<1>5. \/ Len(buffer.mem) = Len(input.mem)
      \/ Len(buffer.mem) <= CheapPrepend + ReadableBytes(input) + 2 * Len(came)
  BY <1>2, Types, ReadFdSize
<1> HIDE DEF came, buffer
<1>6. /\ Len(Readable(buffer)) = Len(Readable(input)) + Len(came)
      /\ Len(Readable(buffer)) = ReadableBytes(buffer) /\ ReadableBytes(buffer) \in Nat
      /\ Len(Readable(input)) = ReadableBytes(input) /\ ReadableBytes(input) \in Nat
      /\ Len(came) \in Nat /\ Readable(buffer) \in Seq(Byte)
  <2>1. Sound(input)
    BY Types
  <2>2. /\ Readable(input) \in Seq(Byte)
        /\ Len(Readable(input)) = ReadableBytes(input) /\ ReadableBytes(input) \in Nat
    BY <2>1, ReadableCells
  <2>3. /\ Readable(buffer) \in Seq(Byte)
        /\ Len(Readable(buffer)) = ReadableBytes(buffer) /\ ReadableBytes(buffer) \in Nat
    BY <1>3, ReadableCells
  <2>4. Len(came) \in Nat
    BY <1>2, LenProperties
  <2>5. Len(Readable(input) \o came) = Len(Readable(input)) + Len(came)
    BY <1>2, <2>2, ConcatProperties
  <2>6. QED
    BY <1>3, <2>2, <2>3, <2>4, <2>5
<1>7. ReadableBytes(input) <= MaxHeld
  BY DEF Held
<1>8. /\ Len(input'.mem) <= InputBound /\ ReadableBytes(input') <= MaxHeld
  <2>1. /\ input'.mem = buffer.mem
        /\ ReadableBytes(input') = ReadableBytes(buffer) - taken
    BY <1>3, <1>4, RetrieveSize
  <2>2. Len(input.mem) <= InputBound
    BY DEF Held, SizeBounded, InputBound
  <2>3. CheapPrepend + ReadableBytes(input) + 2 * Len(came) <= InputBound
    <3>1. 2 * Len(came) <= 2 * RcvQueue
      BY <1>2, <1>6, EchoStreamAssumption
    <3>2. ReadableBytes(input) + 2 * Len(came) <= MaxHeld + 2 * RcvQueue
      BY <1>6, <1>7, <3>1, EchoStreamAssumption
    <3>3. QED
      BY <1>6, <3>2, Bounds, EchoStreamAssumption
  <2>4. Len(buffer.mem) \in Nat
    BY <1>3, LenProperties DEF Sound, BufferType
  <2>5. Len(buffer.mem) <= InputBound
    BY <1>2, <1>5, <1>6, <2>2, <2>3, <2>4, Bounds
  <2>6. QED
    BY <1>4, <2>1, <2>5
<1>9. /\ Len(output'.mem) <= OutputBound
      /\ ReadableBytes(output') = 0 => output'.writer = CheapPrepend
  <2>1. CASE taken = 0
    BY <1>4, <2>1 DEF Held, SizeBounded, OutputBound
  <2>2. CASE taken # 0
    <3> DEFINE sent == First(Readable(buffer), taken)
    <3>1. sent \in Seq(Byte) /\ Len(sent) = taken
      BY <1>6, CutInTwo DEF First
    <3>2. Len(sent) # 0 /\ Len(sent) <= MaxHeld + RcvQueue
      BY <1>2, <1>6, <1>7, <2>2, <3>1, EchoStreamAssumption
    <3>3. SendInLoop(sent) /\ ~writing /\ ReadableBytes(output) = 0 /\ Room > 0
      BY <1>4, <2>2
    <3> HIDE DEF sent
    <3>4. QED
      BY <3>1, <3>2, <3>3, SendSize
  <2>3. QED
    BY <2>1, <2>2
<1>10. QED
  BY <1>8, <1>9 DEF Held, SizeBounded, InputBound, OutputBound

LEMMA HeldStep ==
  ASSUME WaitsForRoom, TypeOK, Held, [Next]_vars
  PROVE  Held'
<1>1. CASE HandleRead
  BY <1>1, ReadHeld
<1>2. CASE HandleWrite
  <2>1. PICK n \in 1 .. ReadableBytes(output) : output' = Retrieve(output, n)
    BY <1>2 DEF HandleWrite
  <2>2. ReadableBytes(output) \in Nat /\ n \in 0 .. ReadableBytes(output)
    BY Types, ReadableCells
  <2>3. /\ output'.mem = output.mem
        /\ ReadableBytes(output') = ReadableBytes(output) - n
        /\ n = ReadableBytes(output) => output'.writer = CheapPrepend
    BY <2>1, <2>2, Types, RetrieveSize
  <2>4. ReadableBytes(output') = 0 => output'.writer = CheapPrepend
    BY <2>2, <2>3
  <2>5. input' = input
    BY <1>2 DEF HandleWrite
  <2>6. QED
    BY <2>3, <2>4, <2>5 DEF Held, SizeBounded
<1>3. CASE PeerSends \/ PeerReads \/ UNCHANGED vars
  <2>1. input' = input /\ output' = output
    BY <1>3 DEF PeerSends, PeerReads, vars
  <2>2. QED
    BY <2>1 DEF Held, SizeBounded
<1>4. QED
  BY <1>1, <1>2, <1>3 DEF Next

-----------------------------------------------------------------------------
(* Theorems.                                                               *)

(***************************************************************************)
(* The indices of both buffers stay in order and inside the vector,        *)
(* whatever is read, retrieved and sent (readFd, makeSpace, retrieve and   *)
(* sendInLoop, with the bytes that a failed write() makes it append).      *)
(***************************************************************************)
THEOREM TypeCorrect == Spec => []TypeOK
<1>1. Init => TypeOK
  <2>1. <<>> \in Seq(Byte) /\ Len(<<>>) = 0
    BY EmptySeq
  <2>2. 0 \in Byte /\ 0 <= RcvQueue /\ 0 <= SndQueue
    BY EchoStreamAssumption
  <2>3. NewBuffer \in BufferType /\ Indexed(NewBuffer)
    BY NewBufferSound DEF Sound
  <2>4. QED
    BY <2>1, <2>2, <2>3 DEF Init, TypeOK
<1>2. TypeOK /\ [Next]_vars => TypeOK'
  <2>1. ASSUME TypeOK, UNCHANGED vars
        PROVE  TypeOK'
    BY <2>1 DEF TypeOK, vars
  <2>2. QED
    BY <2>1, ReadSound, WriteSound, PeerSendsSound, PeerReadsSound DEF Next
<1>3. QED
  BY <1>1, <1>2, PTL DEF Spec, SafeSpec

(***************************************************************************)
(* The channel has writing enabled exactly while the output buffer holds   *)
(* something: sendInLoop enables it and handleWrite disables it in time.   *)
(***************************************************************************)
THEOREM WritingWhileOutput == Spec => []WritingIffOutput
<1>1. Init => WritingIffOutput
  BY BufferAssumption DEF Init, WritingIffOutput, NewBuffer, ReadableBytes
<1>2. TypeOK /\ WritingIffOutput /\ [Next]_vars => WritingIffOutput'
  <2>1. ASSUME WritingIffOutput, UNCHANGED vars
        PROVE  WritingIffOutput'
    BY <2>1 DEF WritingIffOutput, vars
  <2>2. QED
    BY <2>1, ReadSound, WriteSound, PeerSendsSound, PeerReadsSound DEF Next
<1>3. QED
  BY <1>1, <1>2, TypeCorrect, PTL DEF Spec, SafeSpec

(***************************************************************************)
(* With a message callback that sends only when the output buffer is empty *)
(* and the socket takes a byte (main.cpp's does not wait for that), the    *)
(* peer gets back the bytes it sent, in order and once each: the two       *)
(* buffers, send() and handleWrite implement a ByteStream, for every size  *)
(* of theirs.                                                              *)
(***************************************************************************)
THEOREM EchoesBytesInOrder == WaitsForRoom => (Spec => EchoesInOrder)
<1> SUFFICES ASSUME WaitsForRoom
             PROVE  Spec => EchoesInOrder
  OBVIOUS
<1>1. Init => Echo!Init
  <2>1. <<>> \in Seq(Byte)
    BY EmptySeq
  <2>2. ASSUME Init
        PROVE  InFlight = <<>>
    <3>1. InFlight = ((<<>> \o <<>>) \o <<>>) \o <<>>
      BY <2>2, NewBufferSound DEF Init, InFlight
    <3>2. QED
      BY <2>1, <3>1, Joined
  <2>3. QED
    BY <2>2 DEF Echo!Init
<1>2. TypeOK /\ [Next]_vars => [Echo!Next]_InFlight
  <2>1. ASSUME UNCHANGED vars
        PROVE  InFlight' = InFlight
    BY <2>1 DEF vars, InFlight
  <2>2. QED
    BY <2>1, ReadSound, WriteSound, PeerSendsSound, PeerReadsSound DEF Next, Echo!Next
<1>3. QED
  BY <1>1, <1>2, TypeCorrect, PTL DEF Spec, SafeSpec, EchoesInOrder, Echo!Spec

(***************************************************************************)
(* A long conversation does not make a buffer grow, whatever its size and  *)
(* that of the queues: makeSpace grows the vector only when the cells that *)
(* have been read are too few, and retrieve resets an empty buffer.  The   *)
(* message callback has to wait for room, as otherwise the output buffer   *)
(* holds all that the peer does not read, and to leave no more than        *)
(* MaxHeld bytes behind, as reading is never disabled.                     *)
(***************************************************************************)
THEOREM BuffersBounded == WaitsForRoom => (Spec => []SizeBounded)
<1> SUFFICES ASSUME WaitsForRoom
             PROVE  Spec => []SizeBounded
  OBVIOUS
<1>1. Init => Held
  <2>1. Zeros(CheapPrepend + InitialSize) \in [1 .. CheapPrepend + InitialSize -> Byte]
    BY BufferAssumption DEF Zeros
  <2>2. Len(Zeros(CheapPrepend + InitialSize)) = CheapPrepend + InitialSize
    BY <2>1, FunctionIsSeq, BufferAssumption
  <2>3. /\ Len(NewBuffer.mem) = CheapPrepend + InitialSize
        /\ NewBuffer.writer = CheapPrepend /\ ReadableBytes(NewBuffer) = 0
    BY <2>2, BufferAssumption DEF NewBuffer, ReadableBytes
  <2>4. QED
    BY <2>3, Bounds, EchoStreamAssumption
    DEF Init, Held, SizeBounded, InputBound, OutputBound
<1>2. TypeOK /\ Held /\ [Next]_vars => Held'
  BY HeldStep
<1>3. Held => SizeBounded
  BY DEF Held
<1>4. QED
  BY <1>1, <1>2, <1>3, TypeCorrect, PTL DEF Spec, SafeSpec

=============================================================================
