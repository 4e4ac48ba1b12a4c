--------------------------- MODULE SequenceLemmas ---------------------------
(***************************************************************************)
(* Facts about sequences that the proofs of more than one module need.     *)
(***************************************************************************)
EXTENDS Naturals, Sequences, SequenceTheorems, TLAPS

(* A function on 1 .. n is a sequence of length n.                         *)
LEMMA FunctionIsSeq ==
  ASSUME NEW S, NEW n \in Nat, NEW f \in [1 .. n -> S]
  PROVE  f \in Seq(S) /\ Len(f) = n
  BY SeqDef

(* What a part of a sequence is.                                           *)
LEMMA PartOfSeq ==
  ASSUME NEW S, NEW s \in Seq(S), NEW m \in Nat, NEW n \in Nat,
         m <= n, n <= Len(s)
  PROVE  /\ SubSeq(s, m + 1, n) \in Seq(S)
         /\ Len(SubSeq(s, m + 1, n)) = n - m
         /\ \A i \in 1 .. n - m : SubSeq(s, m + 1, n)[i] = s[m + i]
<1>1. \A i \in m + 1 .. n : s[i] \in S
  BY ElementOfSeq
<1>2. QED
  BY <1>1, SubSeqProperties

(* A sequence that is cut in two is the concatenation of its parts.        *)
LEMMA CutInTwo ==
  ASSUME NEW S, NEW s \in Seq(S), NEW n \in 0 .. Len(s)
  PROVE  /\ SubSeq(s, 1, n) \in Seq(S) /\ Len(SubSeq(s, 1, n)) = n
         /\ SubSeq(s, n + 1, Len(s)) \in Seq(S)
         /\ Len(SubSeq(s, n + 1, Len(s))) = Len(s) - n
         /\ SubSeq(s, 1, n) \o SubSeq(s, n + 1, Len(s)) = s
<1>1. SubSeq(s, 1, n) \in Seq(S) /\ Len(SubSeq(s, 1, n)) = n
  BY PartOfSeq
<1>2. /\ SubSeq(s, n + 1, Len(s)) \in Seq(S)
      /\ Len(SubSeq(s, n + 1, Len(s))) = Len(s) - n
  BY PartOfSeq
<1>3. /\ Len(s) \in Nat /\ 1 \in 1 .. Len(s) + 1
      /\ n \in 1 - 1 .. Len(s) /\ Len(s) \in n .. Len(s)
  BY LenProperties
<1>4. SubSeq(s, 1, n) \o SubSeq(s, n + 1, Len(s)) = SubSeq(s, 1, Len(s))
  BY <1>3, ConcatAdjacentSubSeq, Zenon
<1>5. QED
  BY <1>1, <1>2, <1>4, SubSeqFull

(* What is appended to the second of two joined sequences is appended to   *)
(* the whole.                                                              *)
LEMMA AppendToJoined ==
  ASSUME NEW S, NEW s \in Seq(S), NEW r \in Seq(S), NEW t \in S
  PROVE  s \o Append(r, t) = Append(s \o r, t)
<1>1. Append(r, t) = r \o <<t>> /\ Append(s \o r, t) = (s \o r) \o <<t>>
  BY AppendIsConcat, ConcatProperties
<1>2. <<t>> \in Seq(S)
  OBVIOUS
<1>3. QED
  BY <1>1, <1>2, ConcatAssociative

(* What is taken off the first of two joined sequences is taken off the    *)
(* whole.                                                                  *)
LEMMA HeadOfJoined ==
  ASSUME NEW S, NEW s \in Seq(S), NEW r \in Seq(S), s # <<>>
  PROVE  /\ s \o r # <<>>
         /\ Head(s \o r) = Head(s)
         /\ Tail(s \o r) = Tail(s) \o r
<1>1. s \o r \in Seq(S) /\ Len(s \o r) = Len(s) + Len(r)
  BY ConcatProperties
<1>2. Len(s) \in Nat \ {0} /\ Len(r) \in Nat
  BY EmptySeq, LenProperties
<1>3. s \o r # <<>>
  BY <1>1, <1>2, EmptySeq
<1>4. Head(s \o r) = Head(s)
  BY <1>1, <1>2, <1>3, ConcatProperties
<1>5. Tail(s) \in Seq(S) /\ Len(Tail(s)) = Len(s) - 1
  BY HeadTailProperties
<1>6. Tail(s) \o r \in Seq(S) /\ Len(Tail(s) \o r) = Len(s) - 1 + Len(r)
  BY <1>2, <1>5, ConcatProperties
<1>7. /\ Tail(s \o r) \in Seq(S)
      /\ Len(Tail(s \o r)) = Len(s) + Len(r) - 1
  BY <1>1, <1>3, HeadTailProperties
<1>8. ASSUME NEW i \in 1 .. Len(s) + Len(r) - 1
      PROVE  Tail(s \o r)[i] = (Tail(s) \o r)[i]
  <2>1. Tail(s \o r)[i] = (s \o r)[i + 1]
    BY <1>1, <1>3, <1>7, HeadTailProperties
  <2>2. CASE i <= Len(s) - 1
    BY <1>2, <1>5, <2>1, <2>2, ConcatProperties, HeadTailProperties
  <2>3. CASE i > Len(s) - 1
    BY <1>2, <1>5, <2>1, <2>3, ConcatProperties
  <2>4. QED
    BY <1>2, <2>2, <2>3
<1>9. Tail(s \o r) = Tail(s) \o r
  BY <1>2, <1>6, <1>7, <1>8, SeqEqual
<1>10. QED
  BY <1>3, <1>4, <1>9

(* A batch of which n have been run, and a queue behind it: what comes     *)
(* next, and what is left then.                                            *)
LEMMA NextOfBatch ==
  ASSUME NEW S, NEW b \in Seq(S), NEW q \in Seq(S), NEW n \in Nat, n < Len(b)
  PROVE  LET s == SubSeq(b, n + 1, Len(b)) \o q
         IN  /\ b[n + 1] \in S
             /\ s \in Seq(S) /\ s # <<>> /\ Head(s) = b[n + 1]
             /\ Tail(s) \in Seq(S)
             /\ Tail(s) = SubSeq(b, n + 1 + 1, Len(b)) \o q
<1> DEFINE rest == SubSeq(b, n + 1, Len(b))
           tail == SubSeq(b, n + 1 + 1, Len(b))
<1>1. Len(b) \in Nat /\ n + 1 \in 1 .. Len(b)
  BY LenProperties
<1>2. /\ rest \in Seq(S) /\ Len(rest) = Len(b) - n
      /\ \A i \in 1 .. Len(b) - n : rest[i] = b[n + i]
  BY <1>1, PartOfSeq
<1>3. /\ tail \in Seq(S) /\ Len(tail) = Len(b) - (n + 1)
      /\ \A i \in 1 .. Len(b) - (n + 1) : tail[i] = b[n + 1 + i]
  BY <1>1, PartOfSeq
<1> HIDE DEF rest, tail
<1>4. rest # <<>> /\ Head(rest) = b[n + 1]
  BY <1>1, <1>2, EmptySeq, HeadTailProperties
<1>5. /\ Tail(rest) \in Seq(S) /\ Len(Tail(rest)) = Len(b) - n - 1
      /\ \A i \in 1 .. Len(b) - n - 1 : Tail(rest)[i] = rest[i + 1]
  BY <1>1, <1>2, <1>4, HeadTailProperties
<1>6. Tail(rest) = tail
  <2>1. ASSUME NEW i \in 1 .. Len(b) - n - 1
        PROVE  Tail(rest)[i] = tail[i]
    <3>1. i + 1 \in 1 .. Len(b) - n /\ n + (i + 1) = n + 1 + i
      BY <1>1
    <3>2. QED
      BY <1>1, <1>2, <1>3, <1>5, <3>1
  <2>2. Len(b) - (n + 1) = Len(b) - n - 1
    BY <1>1
  <2>3. Len(Tail(rest)) = Len(tail) /\ Len(tail) = Len(b) - n - 1
    BY <1>3, <1>5, <2>2
  <2>4. QED
    BY <1>3, <1>5, <2>1, <2>3, SeqEqual
<1>7. b[n + 1] \in S
  BY <1>1, ElementOfSeq
<1>8. rest \o q \in Seq(S) /\ rest \o q # <<>> /\ Head(rest \o q) = b[n + 1]
  BY <1>2, <1>4, HeadOfJoined, ConcatProperties
<1>9. Tail(rest \o q) = tail \o q /\ tail \o q \in Seq(S)
  BY <1>2, <1>3, <1>4, <1>6, HeadOfJoined, ConcatProperties
<1>10. QED
  BY <1>7, <1>8, <1>9 DEF rest, tail

(* A batch that is over, and one that begins, have all or nothing to run.  *)
LEMMA WholeBatch ==
  ASSUME NEW S, NEW b \in Seq(S)
  PROVE  /\ SubSeq(b, Len(b) + 1, Len(b)) = <<>>
         /\ SubSeq(b, 1, Len(b)) = b
         /\ SubSeq(<<>>, 1, Len(<<>>)) = <<>>
         /\ b \o <<>> = b /\ <<>> \o b = b
<1>1. /\ SubSeq(b, Len(b) + 1, Len(b)) \in Seq(S)
      /\ Len(SubSeq(b, Len(b) + 1, Len(b))) = 0
  BY LenProperties, PartOfSeq
<1>2. QED
  BY <1>1, EmptySeq, SubSeqFull, ConcatEmptySeq

-----------------------------------------------------------------------------
(***************************************************************************)
(* What is in a queue, how often, and in which order.                      *)
(***************************************************************************)

Occurs(x, s) == \E i \in 1 .. Len(s) : s[i] = x

AtMostOnce(x, s) == \A i, j \in 1 .. Len(s) : s[i] = x /\ s[j] = x => i = j

(* No y comes before an x.                                                 *)
Precedes(x, y, s) == \A i, j \in 1 .. Len(s) : s[i] = x /\ s[j] = y => i < j

(* What is appended comes last.                                            *)
LEMMA InAppended ==
  ASSUME NEW S, NEW s \in Seq(S), NEW e \in S, NEW x
  PROVE  /\ Occurs(x, Append(s, e)) <=> Occurs(x, s) \/ x = e
         /\ AtMostOnce(x, s) /\ (x # e \/ ~Occurs(x, s)) => AtMostOnce(x, Append(s, e))
         /\ \A y : x # y /\ Precedes(x, y, s) /\ (x # e \/ ~Occurs(y, s)) =>
                     Precedes(x, y, Append(s, e))
<1> DEFINE t == Append(s, e)
<1>1. Len(s) \in Nat /\ Len(t) = Len(s) + 1
  BY LenProperties, AppendProperties
<1>2. (\A i \in 1 .. Len(s) : t[i] = s[i]) /\ t[Len(s) + 1] = e
  BY AppendProperties
<1>3. \A i \in 1 .. Len(t) : i \in 1 .. Len(s) \/ i = Len(s) + 1
  BY <1>1
<1>4. 1 .. Len(s) \subseteq 1 .. Len(t) /\ Len(s) + 1 \in 1 .. Len(t)
  BY <1>1
<1> HIDE DEF t
<1>5. Occurs(x, t) <=> Occurs(x, s) \/ x = e
  BY <1>2, <1>3, <1>4 DEF Occurs
<1>6. ASSUME AtMostOnce(x, s), x # e \/ ~Occurs(x, s)
      PROVE  AtMostOnce(x, t)
  BY <1>2, <1>3, <1>6 DEF AtMostOnce, Occurs
<1>7. ASSUME NEW y, x # y, Precedes(x, y, s), x # e \/ ~Occurs(y, s)
      PROVE  Precedes(x, y, t)
  BY <1>1, <1>2, <1>3, <1>7 DEF Precedes, Occurs
<1>8. QED
  BY <1>5, <1>6, <1>7 DEF t

(* What is taken off was in front of everything else.                      *)
LEMMA InTail ==
  ASSUME NEW S, NEW s \in Seq(S), s # <<>>, NEW x
  PROVE  /\ Occurs(x, s) <=> Occurs(x, Tail(s)) \/ x = Head(s)
         /\ AtMostOnce(x, s) => AtMostOnce(x, Tail(s))
         /\ AtMostOnce(x, s) /\ x = Head(s) => ~Occurs(x, Tail(s))
         /\ \A y : Precedes(x, y, s) => Precedes(x, y, Tail(s))
         /\ \A y : Precedes(x, y, s) /\ y = Head(s) => ~Occurs(x, s)
<1> DEFINE t == Tail(s)
<1>1. Len(s) \in Nat \ {0} /\ Len(t) = Len(s) - 1 /\ Head(s) = s[1]
  BY EmptySeq, HeadTailProperties
<1>2. \A i \in 1 .. Len(t) : t[i] = s[i + 1] /\ i + 1 \in 1 .. Len(s)
  BY <1>1, HeadTailProperties
<1>3. \A i \in 1 .. Len(s) : i = 1 \/ (i - 1 \in 1 .. Len(t) /\ t[i - 1] = s[i])
  BY <1>1, HeadTailProperties
<1>4. 1 \in 1 .. Len(s) /\ \A i \in 1 .. Len(t) : i + 1 # 1
  BY <1>1
<1> HIDE DEF t
<1>5. Occurs(x, s) <=> Occurs(x, t) \/ x = Head(s)
  BY <1>1, <1>2, <1>3, <1>4 DEF Occurs
<1>6. AtMostOnce(x, s) => AtMostOnce(x, t)
  <2> SUFFICES ASSUME AtMostOnce(x, s), NEW i \in 1 .. Len(t), NEW j \in 1 .. Len(t),
                      t[i] = x, t[j] = x
               PROVE  i = j
    BY DEF AtMostOnce
  <2>1. i + 1 = j + 1
    BY <1>2 DEF AtMostOnce
  <2>2. QED
    BY <2>1
<1>7. AtMostOnce(x, s) /\ x = Head(s) => ~Occurs(x, t)
  BY <1>1, <1>2, <1>4 DEF AtMostOnce, Occurs
<1>8. ASSUME NEW y, Precedes(x, y, s)
      PROVE  Precedes(x, y, t)
  <2> SUFFICES ASSUME NEW i \in 1 .. Len(t), NEW j \in 1 .. Len(t),
                      t[i] = x, t[j] = y
               PROVE  i < j
    BY DEF Precedes
  <2>1. i + 1 < j + 1
    BY <1>2, <1>8 DEF Precedes
  <2>2. QED
    BY <2>1
<1>9. ASSUME NEW y, Precedes(x, y, s), y = Head(s)
      PROVE  ~Occurs(x, s)
  BY <1>1, <1>4, <1>9 DEF Precedes, Occurs
<1>10. QED
  BY <1>5, <1>6, <1>7, <1>8, <1>9 DEF t

(* Nothing is in an empty queue.                                           *)
LEMMA InEmpty ==
  \A x, y : ~Occurs(x, <<>>) /\ AtMostOnce(x, <<>>) /\ Precedes(x, y, <<>>)
BY DEF Occurs, AtMostOnce, Precedes

=============================================================================
