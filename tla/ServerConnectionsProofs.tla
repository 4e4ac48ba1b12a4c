---------------------- MODULE ServerConnectionsProofs ----------------------
(***************************************************************************)
(* What becomes of a TcpServer's connections while its threads come and    *)
(* go: they are dealt out evenly, and each that leaves the server's map is *)
(* handed to connectDestroyed once.  ServerThreadsProofs has the threads.  *)
(***************************************************************************)
EXTENDS ServerThreadsProofs, SequenceLemmas, FiniteSetTheorems

Establish(c)    == Functor("connectEstablished", c)
Destroy(c)      == Functor("connectDestroyed", c)
RemoveInPool(c) == Functor("removeConnectionInPool", c)

(* Only removeConnectionInPool is for the base loop.                       *)
RunsOn(f) == IF f.run = "removeConnectionInPool" THEN 0 ELSE ioLoop[f.conn]

Pending == {f \in FunctorType : Occurs(f, ToRun(RunsOn(f)))}

(* The base loop has not been left.                                        *)
Serving == at[0] \notin {"left", "wakeup", "join", "ended"}

(* What a loop has to run: each functor at most once, of accepted          *)
(* connections that it serves, connectEstablished before connectDestroyed. *)
Line(s, t) ==
  /\ \A f \in FunctorType : AtMostOnce(f, s)
  /\ \A f \in FunctorType : Occurs(f, s) => f.conn < nextConnId /\ t = RunsOn(f)
  /\ \A c \in Conns : Precedes(Establish(c), Destroy(c), s)

LineSound(t) == Line(ToRun(t), t)

(* Where a loop is in its round.                                           *)
RoundSound(t) ==
  /\ ran[t] <= Len(batch[t])
  /\ at[t] # "functors" => batch[t] = <<>> /\ ran[t] = 0
  /\ at[t] # "dispatch" => active[t] = {}
  /\ \A c \in Conns : c \in active[t] => ioLoop[c] = t /\ conn[c] = "connected"
  /\ at[t] = "ended" => queue[t] = <<>>

NotYet(c) == conn[c] = "none" /\ c \notin connections

(* What is pending of an accepted connection, by its place in the server.  *)
Accepted(c) ==
  /\ conn[c] # "none"
  /\ c \in connections => Destroy(c) \notin Pending /\ conn[c] # "destroyed"
  /\ c \in connections \/ Destroy(c) \in Pending
       \/ conn[c] = "destroyed" \/ at[ioLoop[c]] = "ended"
  /\ conn[c] = "destroyed" => Destroy(c) \notin Pending
  /\ Establish(c) \in Pending => conn[c] = "connecting" /\ ioLoop[c] # 0
  /\ RemoveInPool(c) \in Pending => conn[c] \notin {"connecting", "connected"}
  /\ Serving /\ (RemoveInPool(c) \in Pending \/ conn[c] \in {"connecting", "connected"})
       => c \in connections

ConnSound(c) == IF c < nextConnId THEN Accepted(c) ELSE NotYet(c)

(* No io thread is stopped before the map is empty.                        *)
EndSound ==
  /\ joined > 0 => ~Serving
  /\ connections # {} => joined = 0 /\ at[0] \notin {"wakeup", "join", "ended"}

Lines  == \A t \in Loops : LineSound(t)
Rounds == \A t \in Loops : RoundSound(t)
ConnsSound == \A c \in Conns : ConnSound(c)

CInv == Lines /\ Rounds /\ ConnsSound /\ EndSound

-----------------------------------------------------------------------------
(***************************************************************************)
(* The functors that are pending.                                          *)
(***************************************************************************)

LEMMA Functors ==
  /\ \A c \in Conns : /\ Establish(c) \in FunctorType /\ Establish(c).conn = c
                      /\ Destroy(c) \in FunctorType /\ Destroy(c).conn = c
                      /\ RemoveInPool(c) \in FunctorType /\ RemoveInPool(c).conn = c
  /\ \A c, d : /\ Establish(c) # Destroy(d) /\ Establish(c) # RemoveInPool(d)
               /\ Destroy(c) # RemoveInPool(d)
  /\ \A c : /\ RunsOn(Establish(c)) = ioLoop[c]
            /\ RunsOn(Destroy(c)) = ioLoop[c]
            /\ RunsOn(RemoveInPool(c)) = 0
BY DEF Establish, Destroy, RemoveInPool, Functor, FunctorType, RunsOn

LEMMA FunctorKinds ==
  ASSUME NEW f \in FunctorType
  PROVE  /\ f.conn \in Conns
         /\ \/ f.run = "connectEstablished" /\ f = Establish(f.conn)
            \/ f.run = "connectDestroyed" /\ f = Destroy(f.conn)
            \/ f.run = "removeConnectionInPool" /\ f = RemoveInPool(f.conn)
BY DEF Establish, Destroy, RemoveInPool, Functor, FunctorType

LEMMA ToRunIsSeq ==
  ASSUME LoopType, Rounds, NEW t \in Loops
  PROVE  ToRun(t) \in Seq(FunctorType)
<1>1. batch[t] \in Seq(FunctorType) /\ queue[t] \in Seq(FunctorType)
      /\ ran[t] \in Nat /\ ran[t] <= Len(batch[t])
  BY DEF LoopType, Rounds, RoundSound
<1>2. SubSeq(batch[t], ran[t] + 1, Len(batch[t])) \in Seq(FunctorType)
  BY <1>1, PartOfSeq
<1>3. QED
  BY <1>1, <1>2 DEF ToRun

(* queueInLLoop puts a functor behind all that its loop has to run.        *)
LEMMA ToRunQueued ==
  ASSUME LoopType, Rounds, NEW l \in Loops, NEW f \in FunctorType,
         queue' = Queued(l, f), UNCHANGED <<batch, ran>>, NEW t \in Loops
  PROVE  ToRun(t)' = IF t = l THEN Append(ToRun(t), f) ELSE ToRun(t)
<1>1. CASE t # l
  <2>1. queue'[t] = queue[t]
    BY <1>1 DEF Queued, LoopType
  <2>2. QED
    BY <1>1, <2>1 DEF ToRun
<1>2. CASE t = l
  <2>1. queue'[t] = Append(queue[t], f)
    BY <1>2 DEF Queued, LoopType
  <2> DEFINE rest == SubSeq(batch[t], ran[t] + 1, Len(batch[t]))
  <2>2. rest \in Seq(FunctorType) /\ queue[t] \in Seq(FunctorType)
    BY PartOfSeq DEF LoopType, Rounds, RoundSound
  <2>3. ToRun(t) = rest \o queue[t] /\ ToRun(t)' = rest \o Append(queue[t], f)
    BY <2>1 DEF ToRun
  <2> HIDE DEF rest
  <2>4. rest \o Append(queue[t], f) = Append(rest \o queue[t], f)
    BY <2>2, AppendToJoined
  <2>5. QED
    BY <1>2, <2>3, <2>4
<1>3. QED
  BY <1>1, <1>2

(* The swap changes nothing in what there is to run.                       *)
LEMMA ToRunSwapped ==
  ASSUME LoopType, Rounds, NEW l \in Loops, SwapPendingFunctors(l), NEW t \in Loops
  PROVE  ToRun(t)' = ToRun(t)
<1>1. /\ batch' = [batch EXCEPT ![l] = queue[l]]
      /\ queue' = [queue EXCEPT ![l] = <<>>]
      /\ ran' = ran /\ at[l] # "functors"
  BY DEF SwapPendingFunctors
<1>2. CASE t # l
  BY <1>1, <1>2 DEF ToRun, LoopType
<1>3. CASE t = l
  <2>1. queue[l] \in Seq(FunctorType) /\ batch[l] = <<>> /\ ran[l] = 0
    BY <1>1 DEF LoopType, Rounds, RoundSound
  <2>2. batch'[l] = queue[l] /\ queue'[l] = <<>>
    BY <1>1 DEF LoopType
  <2>3. SubSeq(queue[l], 1, Len(queue[l])) = queue[l]
    BY <2>1, SubSeqFull
  <2>4. ToRun(l)' = queue[l]
    <3>1. ToRun(l)' = SubSeq(queue[l], 1, Len(queue[l])) \o <<>>
      <4>1. ran'[l] + 1 = 1
        BY <1>1, <2>1
      <4>2. QED
        BY <2>2, <4>1, Zenon DEF ToRun
    <3>2. QED
      BY <2>1, <2>3, <3>1, ConcatEmptySeq
  <2>5. SubSeq(<<>>, 1, Len(<<>>)) = <<>>
    BY SubSeqFull, EmptySeq
  <2>6. ToRun(l) = queue[l]
    BY <2>1, <2>5, ConcatEmptySeq DEF ToRun
  <2>7. QED
    BY <1>3, <2>4, <2>6
<1>4. QED
  BY <1>2, <1>3

(* Nor does the end of a batch that has been run.                          *)
LEMMA ToRunEnded ==
  ASSUME LoopType, Rounds, NEW l \in Loops, EndPendingFunctors(l), NEW t \in Loops
  PROVE  ToRun(t)' = ToRun(t)
<1>1. /\ batch' = [batch EXCEPT ![l] = <<>>]
      /\ ran' = [ran EXCEPT ![l] = 0]
      /\ queue' = queue /\ ran[l] = Len(batch[l])
  BY DEF EndPendingFunctors
<1>2. CASE t # l
  BY <1>1, <1>2 DEF ToRun, LoopType
<1>3. CASE t = l
  <2>1. batch[l] \in Seq(FunctorType) /\ batch'[l] = <<>> /\ ran'[l] = 0
    BY <1>1 DEF LoopType
  <2>2. SubSeq(<<>>, 1, Len(<<>>)) = <<>>
    BY SubSeqFull, EmptySeq
  <2>3. SubSeq(batch[l], Len(batch[l]) + 1, Len(batch[l])) = <<>>
    <3>1. /\ SubSeq(batch[l], Len(batch[l]) + 1, Len(batch[l])) \in Seq(FunctorType)
          /\ Len(SubSeq(batch[l], Len(batch[l]) + 1, Len(batch[l]))) = 0
      BY <2>1, LenProperties, PartOfSeq
    <3>2. QED
      BY <3>1, EmptySeq
  <2>4. QED
    BY <1>1, <1>3, <2>1, <2>2, <2>3 DEF ToRun
<1>4. QED
  BY <1>2, <1>3

(* The functor that is run is the first; what its own calls add is not     *)
(* counted here.                                                           *)
LEMMA ToRunRun ==
  ASSUME LoopType, Rounds, NEW t \in Loops, RunFunctor(t)
  PROVE  LET f == batch[t][ran[t] + 1]
         IN  /\ f \in FunctorType
             /\ ToRun(t) # <<>> /\ Head(ToRun(t)) = f
             /\ Tail(ToRun(t)) \in Seq(FunctorType)
             /\ Tail(ToRun(t)) =
                  SubSeq(batch[t], ran[t] + 1 + 1, Len(batch[t])) \o queue[t]
<1>1. /\ batch[t] \in Seq(FunctorType) /\ queue[t] \in Seq(FunctorType)
      /\ ran[t] \in Nat /\ ran[t] < Len(batch[t])
  BY DEF RunFunctor, LoopType
<1> DEFINE b == batch[t]
           q == queue[t]
           n == ran[t]
<1>2. b \in Seq(FunctorType) /\ q \in Seq(FunctorType) /\ n \in Nat /\ n < Len(b)
  BY <1>1
<1>3. ToRun(t) = SubSeq(b, n + 1, Len(b)) \o q
  BY DEF ToRun
<1> HIDE DEF b, q, n
<1>4. LET s == SubSeq(b, n + 1, Len(b)) \o q
      IN  /\ b[n + 1] \in FunctorType
          /\ s # <<>> /\ Head(s) = b[n + 1]
          /\ Tail(s) \in Seq(FunctorType)
          /\ Tail(s) = SubSeq(b, n + 1 + 1, Len(b)) \o q
  BY <1>2, NextOfBatch
<1>5. QED
  BY <1>3, <1>4 DEF b, q, n

-----------------------------------------------------------------------------
(***************************************************************************)
(* How a step that queues, runs or drops a functor changes what is         *)
(* pending, and that every line stays sound.                               *)
(***************************************************************************)

LEMMA LineTail ==
  ASSUME NEW t \in Loops, NEW s \in Seq(FunctorType), s # <<>>, Line(s, t)
  PROVE  /\ Line(Tail(s), t)
         /\ \A f \in FunctorType :
              Occurs(f, Tail(s)) <=> Occurs(f, s) /\ f # Head(s)
BY InTail DEF Line

LEMMA LineAppend ==
  ASSUME NEW t \in Loops, NEW s \in Seq(FunctorType), Line(s, t),
         NEW f \in FunctorType, f.conn < nextConnId, t = RunsOn(f),
         ~Occurs(f, s),
         \A c \in Conns : f = Establish(c) => ~Occurs(Destroy(c), s)
  PROVE  /\ Line(Append(s, f), t)
         /\ \A g \in FunctorType : Occurs(g, Append(s, f)) <=> Occurs(g, s) \/ g = f
<1>1. \A g \in FunctorType : Occurs(g, Append(s, f)) <=> Occurs(g, s) \/ g = f
  BY InAppended
<1>2. \A g \in FunctorType : AtMostOnce(g, Append(s, f))
  BY InAppended DEF Line
<1>3. \A c \in Conns : Precedes(Establish(c), Destroy(c), Append(s, f))
  BY InAppended, Functors DEF Line
<1>4. QED
  BY <1>1, <1>2, <1>3 DEF Line

LEMMA LineEmpty == \A t : Line(<<>>, t)
BY InEmpty DEF Line

(* A functor is found in a line if and only if it is pending there.        *)
LEMMA PendingInLine ==
  ASSUME Lines, NEW t \in Loops, NEW f \in FunctorType
  PROVE  Occurs(f, ToRun(t)) <=> f \in Pending /\ t = RunsOn(f)
BY DEF Lines, LineSound, Line, Pending

LEMMA RunsOnLoop ==
  ASSUME PoolType, ConnType, NEW f \in FunctorType
  PROVE  RunsOn(f) \in Loops
BY FunctorKinds, IoLoopIsLoop, LoopsNamed DEF RunsOn

(* A step that leaves each loop's line as it is.                           *)
LEMMA Keeps ==
  ASSUME IInv, Lines, \A t \in Loops : ToRun(t)' = ToRun(t),
         UNCHANGED <<ioLoop, nextConnId>>
  PROVE  Lines' /\ Pending' = Pending
<1>1. \A f : RunsOn(f)' = RunsOn(f)
  BY DEF RunsOn
<1>2. \A f \in FunctorType : RunsOn(f) \in Loops
  BY RunsOnLoop DEF IInv, Life
<1>3. Pending' = Pending
  BY <1>1, <1>2 DEF Pending
<1>4. Lines'
  BY <1>1 DEF Lines, LineSound, Line
<1>5. QED
  BY <1>3, <1>4

(* A step after which each loop's line is sound by the place and the       *)
(* number of the connections before it.                                    *)
LEMMA NewLines ==
  ASSUME IInv, UNCHANGED <<ioLoop, nextConnId>>,
         \A t \in Loops : Line(ToRun(t)', t),
         NEW P, \A f \in FunctorType :
                  Occurs(f, ToRun(RunsOn(f))') <=> f \in P,
         P \subseteq FunctorType
  PROVE  Lines' /\ Pending' = P
<1>1. \A f : RunsOn(f)' = RunsOn(f)
  BY DEF RunsOn
<1>2. Lines'
  BY <1>1 DEF Lines, LineSound, Line
<1>3. Pending' = P
  BY <1>1 DEF Pending
<1>4. QED
  BY <1>2, <1>3

(* One more functor is handed to the loop it runs on.                      *)
LEMMA Hands ==
  ASSUME IInv, Lines, Rounds, NEW f \in FunctorType, f \notin Pending,
         f.conn < nextConnId, \A c \in Conns : f # Establish(c),
         queue' = Queued(RunsOn(f), f),
         UNCHANGED <<batch, ran, ioLoop, nextConnId>>
  PROVE  Lines' /\ Pending' = Pending \cup {f}
<1>1. LoopType /\ RunsOn(f) \in Loops /\ \A g \in FunctorType : RunsOn(g) \in Loops
  BY RunsOnLoop DEF IInv, Life
<1>2. ASSUME NEW t \in Loops
      PROVE  /\ Line(ToRun(t)', t)
             /\ \A g \in FunctorType :
                  Occurs(g, ToRun(t)') <=> Occurs(g, ToRun(t)) \/ (t = RunsOn(f) /\ g = f)
  <2>1. ToRun(t)' = IF t = RunsOn(f) THEN Append(ToRun(t), f) ELSE ToRun(t)
    BY <1>1, ToRunQueued
  <2>2. Line(ToRun(t), t) /\ ToRun(t) \in Seq(FunctorType) /\ ~Occurs(f, ToRun(t))
    BY <1>1, ToRunIsSeq, PendingInLine DEF Lines, LineSound
  <2>3. CASE t = RunsOn(f)
    BY <2>1, <2>2, <2>3, LineAppend
  <2>4. CASE t # RunsOn(f)
    BY <2>1, <2>2, <2>4
  <2>5. QED
    BY <2>3, <2>4
<1>3. \A g \in FunctorType :
        Occurs(g, ToRun(RunsOn(g))') <=> g \in Pending \cup {f}
  <2>1. \A g : RunsOn(g)' = RunsOn(g)
    BY DEF RunsOn
  <2>2. \A g \in FunctorType : Occurs(g, ToRun(RunsOn(g))) <=> g \in Pending
    BY DEF Pending
  <2>3. QED
    BY <1>1, <1>2, <2>1, <2>2
<1>4. Pending \cup {f} \subseteq FunctorType
  BY DEF Pending
<1>5. QED
  BY <1>2, <1>3, <1>4, NewLines

(* A loop runs its next functor, which hands on nothing.                   *)
LEMMA Runs ==
  ASSUME IInv, Lines, Rounds, NEW t \in Loops, RunFunctor(t), queue' = queue
  PROVE  /\ Lines'
         /\ Pending' = Pending \ {batch[t][ran[t] + 1]}
<1> DEFINE h == batch[t][ran[t] + 1]
<1>1. LoopType /\ \A g \in FunctorType : RunsOn(g) \in Loops
  BY RunsOnLoop DEF IInv, Life
<1>2. /\ h \in FunctorType /\ ToRun(t) # <<>> /\ Head(ToRun(t)) = h
      /\ Tail(ToRun(t)) = SubSeq(batch[t], ran[t] + 1 + 1, Len(batch[t])) \o queue[t]
  BY <1>1, ToRunRun
<1>3. /\ ran' = [ran EXCEPT ![t] = @ + 1]
      /\ UNCHANGED <<batch, ioLoop, nextConnId>>
  BY DEF RunFunctor
<1> HIDE DEF h
<1>4. ASSUME NEW u \in Loops
      PROVE  ToRun(u)' = IF u = t THEN Tail(ToRun(u)) ELSE ToRun(u)
  BY <1>1, <1>2, <1>3 DEF ToRun, LoopType
<1>5. ASSUME NEW u \in Loops
      PROVE  /\ Line(ToRun(u)', u)
             /\ \A g \in FunctorType :
                  Occurs(g, ToRun(u)') <=> Occurs(g, ToRun(u)) /\ ~(u = t /\ g = h)
  <2>1. Line(ToRun(u), u) /\ ToRun(u) \in Seq(FunctorType)
    BY <1>1, ToRunIsSeq DEF Lines, LineSound
  <2>2. CASE u = t
    <3>1. /\ Line(Tail(ToRun(u)), u)
          /\ \A g \in FunctorType : Occurs(g, Tail(ToRun(u))) <=> Occurs(g, ToRun(u)) /\ g # h
      BY <1>2, <2>1, <2>2, LineTail
    <3>2. QED
      BY <1>4, <2>2, <3>1
  <2>3. CASE u # t
    BY <1>4, <2>1, <2>3
  <2>4. QED
    BY <2>2, <2>3
<1>6. RunsOn(h) = t
  BY <1>1, <1>2, ToRunIsSeq, InTail, PendingInLine
<1>7. \A g \in FunctorType : Occurs(g, ToRun(RunsOn(g))') <=> g \in Pending \ {h}
  <2>1. \A g : RunsOn(g)' = RunsOn(g)
    BY <1>3 DEF RunsOn
  <2>2. \A g \in FunctorType : Occurs(g, ToRun(RunsOn(g))) <=> g \in Pending
    BY DEF Pending
  <2>3. QED
    BY <1>1, <1>5, <1>6, <2>1, <2>2
<1>8. Pending \ {h} \subseteq FunctorType
  BY DEF Pending
<1>9. QED
  BY <1>3, <1>5, <1>7, <1>8, NewLines DEF h

(* removeConnectionInPool, which hands on connectDestroyed.                *)
LEMMA RunsAndHands ==
  ASSUME IInv, Lines, Rounds, NEW t \in Loops, RunFunctor(t),
         NEW f \in FunctorType, f \notin Pending, f # batch[t][ran[t] + 1],
         f.conn < nextConnId, \A c \in Conns : f # Establish(c),
         queue' = Queued(RunsOn(f), f)
  PROVE  /\ Lines'
         /\ Pending' = (Pending \ {batch[t][ran[t] + 1]}) \cup {f}
<1> DEFINE h == batch[t][ran[t] + 1]
           rest(u) == IF u = t THEN Tail(ToRun(u)) ELSE ToRun(u)
<1>1. /\ LoopType /\ RunsOn(f) \in Loops
      /\ \A g \in FunctorType : RunsOn(g) \in Loops
  BY RunsOnLoop DEF IInv, Life
<1>2. /\ h \in FunctorType /\ ToRun(t) # <<>> /\ Head(ToRun(t)) = h
      /\ Tail(ToRun(t)) \in Seq(FunctorType)
      /\ Tail(ToRun(t)) = SubSeq(batch[t], ran[t] + 1 + 1, Len(batch[t])) \o queue[t]
  BY <1>1, ToRunRun
<1>3. /\ ran' = [ran EXCEPT ![t] = @ + 1]
      /\ UNCHANGED <<batch, ioLoop, nextConnId>>
  BY DEF RunFunctor
<1>4. ASSUME NEW u \in Loops
      PROVE  ToRun(u)' = IF u = RunsOn(f) THEN Append(rest(u), f) ELSE rest(u)
  <2> DEFINE part == IF u = t THEN SubSeq(batch[u], ran[u] + 1 + 1, Len(batch[u]))
                              ELSE SubSeq(batch[u], ran[u] + 1, Len(batch[u]))
  <2>1. part \in Seq(FunctorType)
    <3>1. /\ batch[u] \in Seq(FunctorType) /\ ran[u] \in Nat /\ ran[u] <= Len(batch[u])
          /\ u = t => ran[u] + 1 <= Len(batch[u])
      BY <1>1, LenProperties DEF LoopType, Rounds, RoundSound, RunFunctor
    <3>2. QED
      BY <3>1, PartOfSeq
  <2>2. rest(u) = part \o queue[u]
    BY <1>2 DEF ToRun
  <2>3. ToRun(u)' = part \o queue'[u]
    BY <1>1, <1>3 DEF ToRun, LoopType
  <2>4. queue[u] \in Seq(FunctorType)
    BY <1>1 DEF LoopType
  <2>5. queue'[u] = IF u = RunsOn(f) THEN Append(queue[u], f) ELSE queue[u]
    BY <1>1 DEF Queued, LoopType
  <2> HIDE DEF part, rest
  <2>6. part \o Append(queue[u], f) = Append(part \o queue[u], f)
    BY <2>1, <2>4, AppendToJoined
  <2>7. QED
    BY <2>2, <2>3, <2>5, <2>6
<1>5. ASSUME NEW u \in Loops
      PROVE  /\ rest(u) \in Seq(FunctorType) /\ Line(rest(u), u)
             /\ \A g \in FunctorType :
                  Occurs(g, rest(u)) <=> Occurs(g, ToRun(u)) /\ ~(u = t /\ g = h)
  <2>1. Line(ToRun(u), u) /\ ToRun(u) \in Seq(FunctorType)
    BY <1>1, ToRunIsSeq DEF Lines, LineSound
  <2> HIDE DEF h
  <2>2. QED
    BY <1>2, <2>1, LineTail
<1> HIDE DEF h, rest
<1>6. ASSUME NEW u \in Loops
      PROVE  /\ Line(ToRun(u)', u)
             /\ \A g \in FunctorType :
                  Occurs(g, ToRun(u)') <=>
                    \/ Occurs(g, ToRun(u)) /\ ~(u = t /\ g = h)
                    \/ u = RunsOn(f) /\ g = f
  <2>1. ~Occurs(f, rest(u))
    BY <1>5, PendingInLine
  <2>2. CASE u = RunsOn(f)
    <3>1. /\ Line(Append(rest(u), f), u)
          /\ \A g \in FunctorType : Occurs(g, Append(rest(u), f)) <=> Occurs(g, rest(u)) \/ g = f
      BY <1>5, <2>1, <2>2, LineAppend
    <3>2. QED
      BY <1>4, <1>5, <2>2, <3>1
  <2>3. CASE u # RunsOn(f)
    BY <1>4, <1>5, <2>3
  <2>4. QED
    BY <2>2, <2>3
<1>7. RunsOn(h) = t
  BY <1>1, <1>2, ToRunIsSeq, InTail, PendingInLine
<1>8. \A g \in FunctorType :
        Occurs(g, ToRun(RunsOn(g))') <=> g \in (Pending \ {h}) \cup {f}
  <2>1. \A g : RunsOn(g)' = RunsOn(g)
    BY <1>3 DEF RunsOn
  <2>2. \A g \in FunctorType : Occurs(g, ToRun(RunsOn(g))) <=> g \in Pending
    BY DEF Pending
  <2>3. QED
    BY <1>1, <1>6, <1>7, <2>1, <2>2
<1>9. (Pending \ {h}) \cup {f} \subseteq FunctorType
  BY DEF Pending
<1>10. QED
  BY <1>3, <1>6, <1>8, <1>9, NewLines DEF h

(* A loop that ends, and what is pending there with it.                    *)
LEMMA Drops ==
  ASSUME IInv, Lines, Rounds, NEW t \in Loops, at[t] # "functors",
         queue' = [queue EXCEPT ![t] = <<>>],
         UNCHANGED <<batch, ran, ioLoop, nextConnId>>
  PROVE  Lines' /\ Pending' = {f \in Pending : RunsOn(f) # t}
<1>1. LoopType /\ \A g \in FunctorType : RunsOn(g) \in Loops
  BY RunsOnLoop DEF IInv, Life
<1>2. ToRun(t)' = <<>>
  <2>1. batch'[t] = <<>> /\ ran'[t] + 1 = 1 /\ queue'[t] = <<>>
    BY <1>1 DEF LoopType, Rounds, RoundSound
  <2>2. SubSeq(<<>>, 1, Len(<<>>)) = <<>>
    BY SubSeqFull, EmptySeq
  <2>3. QED
    BY <2>1, <2>2, ConcatEmptySeq DEF ToRun
<1>3. \A u \in Loops : u # t => ToRun(u)' = ToRun(u)
  BY <1>1 DEF ToRun, LoopType
<1>4. \A u \in Loops : Line(ToRun(u)', u)
  BY <1>2, <1>3, LineEmpty DEF Lines, LineSound
<1>5. \A g \in FunctorType :
        Occurs(g, ToRun(RunsOn(g))') <=> g \in {f \in Pending : RunsOn(f) # t}
  <2>1. \A g : RunsOn(g)' = RunsOn(g)
    BY DEF RunsOn
  <2>2. \A g \in FunctorType : Occurs(g, ToRun(RunsOn(g))) <=> g \in Pending
    BY DEF Pending
  <2>3. QED
    BY <1>1, <1>2, <1>3, <2>1, <2>2, InEmpty
<1>6. {f \in Pending : RunsOn(f) # t} \subseteq FunctorType
  BY DEF Pending
<1>7. QED
  BY <1>4, <1>5, <1>6, NewLines

-----------------------------------------------------------------------------
(***************************************************************************)
(* Every step keeps the connections' invariant.                            *)
(***************************************************************************)

(* A connection that a step does not touch.                                *)
LEMMA Untouched ==
  ASSUME NEW c \in Conns, ConnSound(c),
         conn'[c] = conn[c], ioLoop'[c] = ioLoop[c],
         c \in connections' <=> c \in connections,
         c < nextConnId' <=> c < nextConnId,
         \A f \in {Establish(c), Destroy(c), RemoveInPool(c)} :
           f \in Pending' <=> f \in Pending,
         Serving' => Serving,
         at[ioLoop[c]] = "ended" => at'[ioLoop[c]] = "ended"
  PROVE  ConnSound(c)'
<1>1. CASE c < nextConnId
  <2>1. Accepted(c)
    BY <1>1 DEF ConnSound
  <2>2. /\ Establish(c)' = Establish(c) /\ Destroy(c)' = Destroy(c)
        /\ RemoveInPool(c)' = RemoveInPool(c)
    BY DEF Establish, Destroy, RemoveInPool, Functor
  <2>3. Accepted(c)'
    BY <2>1, <2>2 DEF Accepted
  <2>4. QED
    BY <1>1, <2>3 DEF ConnSound
<1>2. CASE ~(c < nextConnId)
  BY <1>2 DEF ConnSound, NotYet
<1>3. QED
  BY <1>1, <1>2

(* A step that at most moves threads and has channels reported.            *)
LEMMA Quiet ==
  ASSUME IInv, CInv,
         UNCHANGED <<queue, batch, ran, conn, ioLoop, nextConnId, connections>>,
         \A t \in Loops :
           \/ at'[t] = at[t]
           \/ at[t] \notin {"functors", "dispatch", "ended"} /\ at'[t] # "ended",
         Serving' => Serving, EndSound',
         \A t \in Loops :
           \/ active'[t] \subseteq active[t]
           \/ /\ at'[t] = "dispatch"
              /\ \A c \in Conns : c \in active'[t] => ioLoop[c] = t /\ conn[c] = "connected"
  PROVE  CInv'
<1> USE DEF CInv
<1>1. \A t : ToRun(t)' = ToRun(t)
  BY DEF ToRun
<1>2. Lines' /\ Pending' = Pending
  BY <1>1, Keeps
<1>3. ASSUME NEW t \in Loops
      PROVE  RoundSound(t)'
  <2>1. RoundSound(t)
    BY DEF Rounds
  <2>2. CASE at'[t] = at[t]
    BY <2>1, <2>2 DEF RoundSound
  <2>3. CASE at[t] \notin {"functors", "dispatch", "ended"} /\ at'[t] # "ended"
    BY <2>1, <2>3 DEF RoundSound
  <2>4. QED
    BY <2>2, <2>3
<1>4. ASSUME NEW c \in Conns
      PROVE  ConnSound(c)'
  <2>1. ioLoop[c] \in Loops
    BY IoLoopIsLoop DEF IInv, Life
  <2>2. ConnSound(c)
    BY DEF ConnsSound
  <2>3. QED
    BY <1>2, <2>1, <2>2, Untouched
<1>5. QED
  BY <1>2, <1>3, <1>4 DEF Rounds, ConnsSound

(* start(): nothing has been accepted.                                     *)
LEMMA ConnectionsStart == IInv /\ CInv /\ StartServer => CInv'
<1> SUFFICES ASSUME IInv, CInv, StartServer
             PROVE  CInv'
  OBVIOUS
<1> USE DEF pool, rounds, net, server
<1>1. Life /\ PoolType /\ at \in [Loops -> Places] /\ 0 \in Loops /\ EndSound
  BY LoopsNamed DEF IInv, Life, ThreadType, CInv
<1>2. CASE SpawnThread
  <2>1. loops + 1 \in Threads /\ loops + 1 # 0 /\ loops + 1 \in Loops
    BY <1>1, <1>2, LoopsNamed DEF SpawnThread, PoolStarted, PoolType
  <2>2. at[0] = "start" /\ at' = [at EXCEPT ![0] = "await", ![loops + 1] = "spawned"]
        /\ UNCHANGED <<joined, queue, batch, ran, active, conn, ioLoop, nextConnId, connections>>
    BY <1>2 DEF SpawnThread
  <2>3. at[loops + 1] = "unborn"
    <3>1. /\ ThreadSound(loops + 1)
          /\ joined <= loops /\ loops \in Nat /\ joined \in Nat
      BY <1>1, <2>1, LoopsNamed DEF Life
    <3>2. QED
      BY <2>2, <3>1 DEF ThreadSound
  <2>4. QED
    BY <1>1, <2>1, <2>2, <2>3, Quiet DEF Serving, EndSound
<1>3. CASE AwaitLoop
  BY <1>1, <1>3, Quiet DEF AwaitLoop, Serving, EndSound
<1>4. CASE Listen
  BY <1>1, <1>4, Quiet DEF Listen, Serving, EndSound
<1>5. QED
  BY <1>2, <1>3, <1>4 DEF StartServer

(* The loops of the pool run as long as the base loop does, and as long as *)
(* there is a connection in the map.                                       *)
LEMMA Unended ==
  ASSUME IInv, EndSound, Serving \/ connections # {}, NEW t \in 0 .. loops
  PROVE  at[t] # "ended" /\ t \in Loops
<1>1. PoolType /\ joined = 0 /\ at[0] \notin {"wakeup", "join", "ended"}
  BY DEF EndSound, Serving, IInv, Life, PoolType
<1>2. CASE t = 0
  BY <1>1, <1>2, LoopsNamed
<1>3. CASE t # 0
  <2>1. t \in Threads /\ t \in Loops
    BY <1>1, <1>3, ServerThreadsAssumption DEF PoolType, Threads, Loops
  <2>2. ThreadSound(t) /\ t \in Nat
    BY <2>1, LoopsNamed, <1>1 DEF IInv, Life
  <2>3. QED
    BY <1>1, <1>3, <2>1, <2>2 DEF ThreadSound, Running, InLoop
<1>4. QED
  BY <1>2, <1>3

(* When the base loop has ended, so have the io threads.                   *)
LEMMA LoopsEndFirst ==
  ASSUME Life, NEW t \in Threads, at[0] = "ended"
  PROVE  at[t] \in {"unborn", "ended"}
<1>1. PoolType /\ joined = loops /\ loops \in Nat
  BY LoopsNamed DEF Life, MainSound, PoolType
<1>2. ThreadSound(t) /\ t \in Nat
  BY <1>1, LoopsNamed DEF Life
<1>3. QED
  BY <1>1, <1>2 DEF ThreadSound

(* The functor that is run is pending, of an accepted connection.          *)
LEMMA RunsPending ==
  ASSUME IInv, CInv, NEW t \in Loops, RunFunctor(t)
  PROVE  LET f == batch[t][ran[t] + 1]
         IN  /\ f \in FunctorType /\ f \in Pending /\ RunsOn(f) = t
             /\ f.conn \in Conns /\ f.conn < nextConnId /\ Accepted(f.conn)
             /\ f = Destroy(f.conn) => Establish(f.conn) \notin Pending
<1> DEFINE f == batch[t][ran[t] + 1]
<1>1. LoopType /\ Lines /\ Rounds /\ ConnsSound
  BY DEF IInv, CInv
<1>2. f \in FunctorType /\ ToRun(t) # <<>> /\ Head(ToRun(t)) = f
  BY <1>1, ToRunRun
<1>3. ToRun(t) \in Seq(FunctorType) /\ Line(ToRun(t), t)
  BY <1>1, ToRunIsSeq DEF Lines, LineSound
<1> HIDE DEF f
<1>4. Occurs(f, ToRun(t))
  BY <1>2, <1>3, InTail
<1>5. f \in Pending /\ RunsOn(f) = t /\ f.conn < nextConnId
  BY <1>1, <1>2, <1>3, <1>4, PendingInLine DEF Line
<1>6. f.conn \in Conns /\ Accepted(f.conn)
  BY <1>1, <1>2, <1>5, FunctorKinds DEF ConnsSound, ConnSound
<1>7. ASSUME f = Destroy(f.conn)
      PROVE  Establish(f.conn) \notin Pending
  <2>1. Precedes(Establish(f.conn), f, ToRun(t))
    BY <1>3, <1>6, <1>7 DEF Line
  <2>2. ~Occurs(Establish(f.conn), ToRun(t))
    BY <1>2, <1>3, <2>1, InTail
  <2>3. RunsOn(Establish(f.conn)) = t /\ Establish(f.conn) \in FunctorType
    BY <1>5, <1>6, <1>7, Functors
  <2>4. QED
    BY <1>1, <2>2, <2>3, PendingInLine
<1>8. QED
  BY <1>2, <1>5, <1>6, <1>7 DEF f

(* TcpConnection::connectEstablished, on the connection's own loop.        *)
LEMMA RunsEstablished ==
  ASSUME IInv, CInv, NEW t \in Loops, RunFunctor(t),
         NEW c \in Conns, batch[t][ran[t] + 1] = Establish(c),
         conn' = [conn EXCEPT ![c] = "connected"], UNCHANGED <<queue, connections>>
  PROVE  CInv'
<1> USE DEF CInv
<1>1. /\ Establish(c) \in Pending /\ Accepted(c) /\ c < nextConnId
      /\ ran[t] < Len(batch[t]) /\ at[t] = "functors"
      /\ ran' = [ran EXCEPT ![t] = @ + 1]
      /\ UNCHANGED <<pool, at, quit, batch, active, net, nextConnId, ioLoop>>
  <2>1. Establish(c) \in Pending /\ Establish(c).conn = c
    BY RunsPending, Functors
  <2>2. Accepted(c) /\ c < nextConnId
    BY <2>1, RunsPending
  <2>3. QED
    BY <2>1, <2>2 DEF RunFunctor
<1>2. Lines' /\ Pending' = Pending \ {Establish(c)}
  BY Runs
<1>3. EndSound'
  BY <1>1 DEF EndSound, Serving, pool
<1>4. LoopType /\ conn \in [Conns -> ConnState]
  BY DEF IInv, ConnType
<1>5. ASSUME NEW u \in Loops
      PROVE  RoundSound(u)'
  <2>1. RoundSound(u)
    BY DEF Rounds
  <2>2. ran'[u] <= Len(batch'[u]) /\ (u # t => ran'[u] = ran[u])
    BY <1>1, <1>4, <2>1, LenProperties DEF RoundSound, LoopType
  <2>3. \A d \in Conns : conn[d] = "connected" => conn'[d] = "connected"
    BY <1>4
  <2>4. QED
    BY <1>1, <2>1, <2>2, <2>3 DEF RoundSound
<1>6. ASSUME NEW d \in Conns
      PROVE  ConnSound(d)'
  <2>1. CASE d # c
    <3>1. conn'[d] = conn[d]
      BY <1>4, <2>1
    <3>2. /\ Establish(d) # Establish(c) /\ Destroy(d) # Establish(c)
          /\ RemoveInPool(d) # Establish(c)
      BY <2>1, Functors
    <3>3. ConnSound(d)
      BY DEF ConnsSound
    <3>4. QED
      BY <1>1, <1>2, <3>1, <3>2, <3>3, Untouched DEF Serving
  <2>2. CASE d = c
    <3>1. conn[c] = "connecting" /\ conn'[c] = "connected"
      BY <1>1, <1>4 DEF Accepted
    <3>2. /\ Establish(c)' = Establish(c) /\ Destroy(c)' = Destroy(c)
          /\ RemoveInPool(c)' = RemoveInPool(c)
      BY DEF Establish, Destroy, RemoveInPool, Functor
    <3>3. Accepted(c)'
      BY <1>1, <1>2, <3>1, <3>2, Functors DEF Accepted, Serving
    <3>4. QED
      BY <1>1, <2>2, <3>3 DEF ConnSound
  <2>3. QED
    BY <2>1, <2>2
<1>7. QED
  BY <1>2, <1>3, <1>5, <1>6 DEF Rounds, ConnsSound

(* TcpConnection::connectDestroyed, on the connection's own loop.          *)
LEMMA RunsDestroyed ==
  ASSUME IInv, CInv, NEW t \in Loops, RunFunctor(t),
         NEW c \in Conns, batch[t][ran[t] + 1] = Destroy(c),
         conn' = [conn EXCEPT ![c] = "destroyed"], UNCHANGED <<queue, connections>>
  PROVE  CInv'
<1> USE DEF CInv
<1>1. /\ Destroy(c) \in Pending /\ Accepted(c) /\ c < nextConnId
      /\ Establish(c) \notin Pending /\ ioLoop[c] = t
      /\ ran[t] < Len(batch[t]) /\ at[t] = "functors"
      /\ ran' = [ran EXCEPT ![t] = @ + 1]
      /\ UNCHANGED <<pool, at, quit, batch, active, net, nextConnId, ioLoop>>
  <2>1. /\ Destroy(c) \in Pending /\ RunsOn(Destroy(c)) = t
        /\ Destroy(c).conn = c
    BY RunsPending, Functors
  <2>2. Accepted(c) /\ c < nextConnId /\ Establish(c) \notin Pending
    BY <2>1, RunsPending
  <2>3. ioLoop[c] = t
    BY <2>1, Functors
  <2>4. QED
    BY <2>1, <2>2, <2>3 DEF RunFunctor
<1>2. Lines' /\ Pending' = Pending \ {Destroy(c)}
  BY Runs
<1>3. EndSound'
  BY <1>1 DEF EndSound, Serving, pool
<1>4. LoopType /\ conn \in [Conns -> ConnState]
  BY DEF IInv, ConnType
<1>5. ASSUME NEW u \in Loops
      PROVE  RoundSound(u)'
  <2>1. RoundSound(u)
    BY DEF Rounds
  <2>2. ran'[u] <= Len(batch'[u]) /\ (u # t => ran'[u] = ran[u])
    BY <1>1, <1>4, <2>1, LenProperties DEF RoundSound, LoopType
  <2>3. c \notin active[u]
    BY <1>1, <2>1 DEF RoundSound
  <2>4. \A d \in Conns : d \in active[u] => conn'[d] = conn[d]
    BY <1>4, <2>3
  <2>5. QED
    BY <1>1, <2>1, <2>2, <2>4 DEF RoundSound
<1>6. ASSUME NEW d \in Conns
      PROVE  ConnSound(d)'
  <2>1. CASE d # c
    <3>1. conn'[d] = conn[d]
      BY <1>4, <2>1
    <3>2. /\ Establish(d) # Destroy(c) /\ Destroy(d) # Destroy(c)
          /\ RemoveInPool(d) # Destroy(c)
      BY <2>1, Functors
    <3>3. ConnSound(d)
      BY DEF ConnsSound
    <3>4. QED
      BY <1>1, <1>2, <3>1, <3>2, <3>3, Untouched DEF Serving
  <2>2. CASE d = c
    <3>1. conn'[c] = "destroyed"
      BY <1>4
    <3>2. /\ Establish(c)' = Establish(c) /\ Destroy(c)' = Destroy(c)
          /\ RemoveInPool(c)' = RemoveInPool(c)
      BY DEF Establish, Destroy, RemoveInPool, Functor
    <3>3. Accepted(c)'
      BY <1>1, <1>2, <3>1, <3>2, Functors DEF Accepted, Serving
    <3>4. QED
      BY <1>1, <2>2, <3>3 DEF ConnSound
  <2>3. QED
    BY <2>1, <2>2
<1>7. QED
  BY <1>2, <1>3, <1>5, <1>6 DEF Rounds, ConnsSound

(* TcpServer::removeConnectionInPool as a functor of the base loop.        *)
LEMMA RunsRemove ==
  ASSUME IInv, CInv, NEW t \in Loops, RunFunctor(t),
         NEW c \in Conns, batch[t][ran[t] + 1] = RemoveInPool(c),
         RemoveConnectionInPool(c), UNCHANGED conn
  PROVE  CInv'
<1> USE DEF CInv
<1>1. /\ RemoveInPool(c) \in Pending /\ Accepted(c) /\ c < nextConnId /\ t = 0
      /\ ran[t] < Len(batch[t]) /\ at[t] = "functors"
      /\ ran' = [ran EXCEPT ![t] = @ + 1]
      /\ UNCHANGED <<pool, at, quit, batch, active, net, nextConnId, ioLoop>>
  <2>1. /\ RemoveInPool(c) \in Pending /\ RunsOn(RemoveInPool(c)) = t
        /\ RemoveInPool(c).conn = c
    BY RunsPending, Functors
  <2>2. t = 0 /\ Accepted(c) /\ c < nextConnId
    BY <2>1, RunsPending, Functors
  <2>3. QED
    BY <2>1, <2>2 DEF RunFunctor
<1>2. Serving /\ c \in connections /\ Destroy(c) \notin Pending
  BY <1>1 DEF Serving, Accepted
<1>3. /\ connections' = connections \ {c}
      /\ queue' = Queued(ioLoop[c], Destroy(c))
  BY DEF RemoveConnectionInPool, Destroy
<1>4. Lines' /\ Pending' = (Pending \ {RemoveInPool(c)}) \cup {Destroy(c)}
  BY <1>1, <1>2, <1>3, RunsAndHands, Functors
<1>5. EndSound'
  BY <1>1, <1>3 DEF EndSound, Serving, pool
<1>6. LoopType /\ ConnType
  BY DEF IInv
<1>7. at[ioLoop[c]] # "ended" /\ ioLoop[c] \in Loops
  BY <1>2, <1>6, Unended DEF ConnType
<1>8. ASSUME NEW u \in Loops
      PROVE  RoundSound(u)'
  <2>1. RoundSound(u)
    BY DEF Rounds
  <2>2. ran'[u] <= Len(batch'[u]) /\ (u # t => ran'[u] = ran[u])
    BY <1>1, <1>6, <2>1, LenProperties DEF RoundSound, LoopType
  <2>3. u # ioLoop[c] => queue'[u] = queue[u]
    BY <1>3, <1>6 DEF Queued, LoopType
  <2>4. QED
    BY <1>1, <1>7, <2>1, <2>2, <2>3 DEF RoundSound
<1>9. ASSUME NEW d \in Conns
      PROVE  ConnSound(d)'
  <2>1. CASE d # c
    <3>1. /\ Establish(d) \notin {RemoveInPool(c), Destroy(c)}
          /\ Destroy(d) \notin {RemoveInPool(c), Destroy(c)}
          /\ RemoveInPool(d) \notin {RemoveInPool(c), Destroy(c)}
      BY <2>1, Functors
    <3>2. ConnSound(d)
      BY DEF ConnsSound
    <3>3. QED
      BY <1>1, <1>3, <1>4, <2>1, <3>1, <3>2, Untouched DEF Serving
  <2>2. CASE d = c
    <3>1. /\ Establish(c)' = Establish(c) /\ Destroy(c)' = Destroy(c)
          /\ RemoveInPool(c)' = RemoveInPool(c)
      BY DEF Establish, Destroy, RemoveInPool, Functor
    <3>2. /\ Establish(c) \notin Pending' /\ RemoveInPool(c) \notin Pending'
          /\ Destroy(c) \in Pending' /\ c \notin connections'
          /\ conn'[c] \notin {"none", "connecting", "connected", "destroyed"}
      BY <1>1, <1>2, <1>3, <1>4, Functors DEF Accepted
    <3>3. Accepted(c)'
      BY <3>1, <3>2 DEF Accepted
    <3>4. QED
      BY <1>1, <2>2, <3>3 DEF ConnSound
  <2>3. QED
    BY <2>1, <2>2
<1>10. QED
  BY <1>4, <1>5, <1>8, <1>9 DEF Rounds, ConnsSound

LEMMA ConnectionsRun ==
  ASSUME IInv, CInv, NEW t \in Loops, RunFunctor(t)
  PROVE  CInv'
<1> DEFINE f == batch[t][ran[t] + 1]
           c == f.conn
<1>1. f \in FunctorType /\ c \in Conns
  BY RunsPending
<1>2. \/ f.run = "connectEstablished" /\ f = Establish(c)
      \/ f.run = "connectDestroyed" /\ f = Destroy(c)
      \/ f.run = "removeConnectionInPool" /\ f = RemoveInPool(c)
  BY <1>1, FunctorKinds
<1>3. \/ /\ f.run = "connectEstablished"
         /\ conn' = [conn EXCEPT ![c] = "connected"] /\ UNCHANGED <<queue, connections>>
      \/ /\ f.run = "connectDestroyed"
         /\ conn' = [conn EXCEPT ![c] = "destroyed"] /\ UNCHANGED <<queue, connections>>
      \/ /\ f.run = "removeConnectionInPool"
         /\ RemoveConnectionInPool(c) /\ UNCHANGED conn
  BY DEF RunFunctor
<1>4. CASE f.run = "connectEstablished"
  BY <1>1, <1>2, <1>3, <1>4, RunsEstablished
<1>5. CASE f.run = "connectDestroyed"
  BY <1>1, <1>2, <1>3, <1>5, RunsDestroyed
<1>6. CASE f.run = "removeConnectionInPool"
  BY <1>1, <1>2, <1>3, <1>6, RunsRemove
<1>7. QED
  BY <1>2, <1>4, <1>5, <1>6

(* TcpConnection::handleClose, and removeConnection in the server: the     *)
(* connection is still in the map, unless the base loop has been left.     *)
LEMMA ConnectionsClose ==
  ASSUME IInv, CInv, NEW t \in Loops, NEW c \in Conns, HandleClose(t, c)
  PROVE  CInv'
<1> USE DEF CInv
<1>1. /\ at[t] = "dispatch" /\ c \in active[t]
      /\ active' = [active EXCEPT ![t] = @ \ {c}]
      /\ conn' = [conn EXCEPT ![c] = "disconnected"]
      /\ UNCHANGED <<pool, at, quit, batch, ran, net, nextConnId, ioLoop>>
      /\ \/ /\ t = 0
            /\ connections' = connections \ {c}
            /\ queue' = Queued(ioLoop[c], Destroy(c))
         \/ /\ t # 0 /\ connections' = connections
            /\ queue' = Queued(0, RemoveInPool(c))
  BY DEF HandleClose, RemoveConnectionInPool, Destroy, RemoveInPool
<1>2. LoopType /\ ConnType /\ conn \in [Conns -> ConnState]
  BY DEF IInv, ConnType
<1>3. ioLoop[c] = t /\ conn[c] = "connected" /\ conn'[c] = "disconnected"
  BY <1>1, <1>2 DEF Rounds, RoundSound
<1>4. c < nextConnId /\ Accepted(c)
  BY <1>3 DEF ConnsSound, ConnSound, NotYet
<1>5. RemoveInPool(c) \notin Pending /\ Establish(c) \notin Pending
  BY <1>3, <1>4 DEF Accepted
<1> DEFINE f == IF t = 0 THEN Destroy(c) ELSE RemoveInPool(c)
<1>6. f \in FunctorType /\ f.conn = c /\ queue' = Queued(RunsOn(f), f)
      /\ \A d \in Conns : f # Establish(d)
  BY <1>1, Functors
<1>7. t = 0 => Serving /\ c \in connections /\ Destroy(c) \notin Pending
  BY <1>1, <1>3, <1>4 DEF Serving, Accepted
<1>8. f \notin Pending
  BY <1>5, <1>7
<1>9. Lines' /\ Pending' = Pending \cup {f}
  BY <1>1, <1>4, <1>6, <1>8, Hands
<1>10. EndSound'
  BY <1>1 DEF EndSound, Serving, pool
<1>11. at[RunsOn(f)] # "ended"
  <2>1. CASE t = 0
    BY <1>1, <1>3, <2>1, Functors
  <2>2. CASE t # 0
    <3>1. at[0] # "ended"
      BY <1>1, <2>2, LoopsNamed, LoopsEndFirst DEF IInv, Life
    <3>2. QED
      BY <2>2, <3>1, Functors
  <2>3. QED
    BY <2>1, <2>2
<1> HIDE DEF f
<1>12. ASSUME NEW u \in Loops
       PROVE  RoundSound(u)'
  <2>1. RoundSound(u)
    BY DEF Rounds
  <2>2. u # RunsOn(f) => queue'[u] = queue[u]
    BY <1>2, <1>6 DEF Queued, LoopType
  <2>3. active'[u] \subseteq active[u] /\ c \notin active'[u]
    BY <1>1, <1>2, <1>3, <2>1 DEF LoopType, RoundSound
  <2>4. \A d \in Conns : d # c => conn'[d] = conn[d]
    BY <1>1, <1>2
  <2>5. QED
    BY <1>1, <1>11, <2>1, <2>2, <2>3, <2>4 DEF RoundSound
<1>13. ASSUME NEW d \in Conns
       PROVE  ConnSound(d)'
  <2>1. CASE d # c
    <3>1. Establish(d) # f /\ Destroy(d) # f /\ RemoveInPool(d) # f
      BY <2>1, Functors DEF f
    <3>2. ConnSound(d) /\ conn'[d] = conn[d]
      BY <1>1, <1>2, <2>1 DEF ConnsSound
    <3>3. QED
      BY <1>1, <1>9, <2>1, <3>1, <3>2, Untouched DEF Serving
  <2>2. CASE d = c
    <3>1. /\ Establish(c)' = Establish(c) /\ Destroy(c)' = Destroy(c)
          /\ RemoveInPool(c)' = RemoveInPool(c)
      BY DEF Establish, Destroy, RemoveInPool, Functor
    <3>2. Establish(c) \notin Pending'
      BY <1>5, <1>9, Functors DEF f
    <3>3. CASE t = 0
      <4>1. /\ Destroy(c) \in Pending' /\ c \notin connections'
            /\ RemoveInPool(c) \notin Pending'
        BY <1>1, <1>5, <1>9, <3>3, Functors DEF f
      <4>2. Accepted(c)'
        BY <1>3, <3>1, <3>2, <4>1 DEF Accepted
      <4>3. QED
        BY <1>1, <1>4, <2>2, <4>2 DEF ConnSound
    <3>4. CASE t # 0
      <4>1. /\ Destroy(c) \in Pending' <=> Destroy(c) \in Pending
            /\ connections' = connections
        BY <1>1, <1>9, <3>4, Functors DEF f
      <4>2. Accepted(c)'
        BY <1>1, <1>3, <1>4, <3>1, <3>2, <4>1 DEF Accepted, Serving
      <4>3. QED
        BY <1>1, <1>4, <2>2, <4>2 DEF ConnSound
    <3>5. QED
      BY <3>3, <3>4
  <2>3. QED
    BY <2>1, <2>2
<1>14. QED
  BY <1>9, <1>10, <1>12, <1>13 DEF Rounds, ConnsSound

(* doPendingFunctors' swap, and its end.                                   *)
LEMMA ConnectionsBatch ==
  ASSUME IInv, CInv, NEW t \in Loops, SwapPendingFunctors(t) \/ EndPendingFunctors(t)
  PROVE  CInv'
<1> USE DEF CInv
<1>1. LoopType /\ at \in [Loops -> Places]
  BY DEF IInv, Life, ThreadType
<1>2. /\ UNCHANGED <<pool, active, net, server>>
      /\ \A u \in Loops : u # t => /\ at'[u] = at[u] /\ queue'[u] = queue[u]
                                   /\ batch'[u] = batch[u] /\ ran'[u] = ran[u]
  BY <1>1 DEF SwapPendingFunctors, EndPendingFunctors, LoopType
<1>3. \/ /\ at[t] = "dispatch" /\ at'[t] = "functors" /\ active[t] = {}
         /\ batch'[t] = queue[t] /\ ran'[t] = ran[t]
      \/ /\ at[t] = "functors" /\ at'[t] = "test"
         /\ batch'[t] = <<>> /\ ran'[t] = 0
  BY <1>1 DEF SwapPendingFunctors, EndPendingFunctors, LoopType
<1>4. \A u \in Loops : ToRun(u)' = ToRun(u)
  BY <1>1, ToRunSwapped, ToRunEnded
<1>5. Lines' /\ Pending' = Pending
  BY <1>2, <1>4, Keeps DEF server
<1>6. (Serving' <=> Serving) /\ EndSound'
  <2>1. at'[0] = at[0] \/ (at[0] \in InLoop /\ at'[0] \in InLoop)
    BY <1>2, <1>3, LoopsNamed DEF InLoop, IInv, Life
  <2>2. QED
    BY <1>2, <2>1 DEF Serving, EndSound, pool, server, InLoop
<1>7. ASSUME NEW u \in Loops
      PROVE  RoundSound(u)'
  <2>1. RoundSound(u)
    BY DEF Rounds
  <2>2. CASE u # t
    BY <1>2, <2>1, <2>2 DEF RoundSound, server
  <2>3. CASE u = t /\ at[t] = "dispatch"
    <3>1. ran'[t] = 0 /\ 0 <= Len(batch'[t])
      BY <1>1, <1>3, <2>1, <2>3, LenProperties DEF RoundSound, LoopType
    <3>2. QED
      BY <1>2, <1>3, <2>1, <2>3, <3>1 DEF RoundSound, server
  <2>4. CASE u = t /\ at[t] = "functors"
    <3>1. 0 <= Len(<<>>)
      BY EmptySeq
    <3>2. QED
      BY <1>2, <1>3, <2>1, <2>4, <3>1 DEF RoundSound, server
  <2>5. QED
    BY <1>3, <2>2, <2>3, <2>4
<1>8. ASSUME NEW c \in Conns
      PROVE  ConnSound(c)'
  <2>1. ConnSound(c) /\ ioLoop[c] \in Loops
    BY IoLoopIsLoop DEF ConnsSound, IInv, Life
  <2>2. at[ioLoop[c]] = "ended" => at'[ioLoop[c]] = "ended"
    BY <1>2, <1>3, <2>1
  <2>3. QED
    BY <1>2, <1>5, <1>6, <2>1, <2>2, Untouched DEF server
<1>9. QED
  BY <1>5, <1>6, <1>7, <1>8 DEF Rounds, ConnsSound

LEMMA ConnectionsLoop ==
  ASSUME IInv, CInv, NEW t \in Loops, LoopStep(t)
  PROVE  CInv'
<1> USE DEF pool, net, server
<1>1. at \in [Loops -> Places] /\ 0 \in Loops /\ EndSound /\ LoopType
  BY LoopsNamed DEF IInv, Life, ThreadType, CInv
<1>2. CASE EnterLoop(t)
  <2>1. at[t] = "published" /\ at' = [at EXCEPT ![t] = "test"]
        /\ UNCHANGED <<pool, queue, rounds, net, server>>
    BY <1>2 DEF EnterLoop
  <2>2. EndSound' /\ (Serving' => Serving)
    BY <1>1, <2>1 DEF EndSound, Serving
  <2>3. QED
    BY <1>1, <2>1, <2>2, Quiet DEF rounds
<1>3. CASE TestQuit(t)
  <2>1. /\ at[t] = "test" /\ UNCHANGED <<pool, queue, rounds, net, server>>
        /\ at' = [at EXCEPT ![t] = IF quit[t] THEN "left" ELSE "poll"]
    BY <1>3 DEF TestQuit
  <2>2. EndSound' /\ (Serving' => Serving)
    BY <1>1, <2>1 DEF EndSound, Serving
  <2>3. QED
    BY <1>1, <2>1, <2>2, Quiet DEF rounds
<1>4. CASE PollReturn(t)
  <2>1. /\ at[t] = "poll" /\ at' = [at EXCEPT ![t] = "dispatch"]
        /\ active' = [active EXCEPT ![t] = Ready(t)]
        /\ UNCHANGED <<pool, queue, batch, ran, net, server>>
    BY <1>4 DEF PollReturn
  <2>2. EndSound' /\ (Serving' => Serving)
    BY <1>1, <2>1 DEF EndSound, Serving
  <2>3. \A c \in Conns : c \in Ready(t) => ioLoop[c] = t /\ conn[c] = "connected"
    BY DEF Ready, Acceptor, Conns
  <2>4. ASSUME NEW u \in Loops
        PROVE  \/ active'[u] \subseteq active[u]
               \/ /\ at'[u] = "dispatch"
                  /\ \A c \in Conns : c \in active'[u] => ioLoop[c] = u /\ conn[c] = "connected"
    <3>1. CASE u = t
      BY <1>1, <2>1, <2>3, <3>1 DEF LoopType
    <3>2. CASE u # t
      BY <1>1, <2>1, <3>2 DEF LoopType
    <3>3. QED
      BY <3>1, <3>2
  <2>5. QED
    BY <1>1, <2>1, <2>2, <2>4, Quiet
<1>5. CASE SwapPendingFunctors(t) \/ EndPendingFunctors(t)
  BY <1>5, ConnectionsBatch
<1>6. CASE RunFunctor(t)
  BY <1>6, ConnectionsRun
<1>7. CASE \E c \in Conns : HandleClose(t, c)
  BY <1>7, ConnectionsClose
<1>8. QED
  BY <1>2, <1>3, <1>4, <1>5, <1>6, <1>7 DEF LoopStep

(* The end of a loop, with what is pending there.                          *)
LEMMA ConnectionsEnd ==
  ASSUME IInv, CInv, NEW t \in Loops, at[t] \notin {"functors", "dispatch"},
         at' = [at EXCEPT ![t] = "ended"], queue' = [queue EXCEPT ![t] = <<>>],
         UNCHANGED <<rounds, server>>, Serving' => Serving, EndSound'
  PROVE  CInv'
<1> USE DEF CInv, rounds, server
<1>1. LoopType /\ at \in [Loops -> Places]
  BY DEF IInv, Life, ThreadType
<1>2. Lines' /\ Pending' = {f \in Pending : RunsOn(f) # t}
  BY Drops
<1>3. ASSUME NEW u \in Loops
      PROVE  RoundSound(u)'
  <2>1. RoundSound(u)
    BY DEF Rounds
  <2>2. /\ u = t => at'[u] = "ended" /\ queue'[u] = <<>>
        /\ u # t => at'[u] = at[u] /\ queue'[u] = queue[u]
    BY <1>1 DEF LoopType
  <2>3. QED
    BY <2>1, <2>2 DEF RoundSound
<1>4. ASSUME NEW c \in Conns
      PROVE  ConnSound(c)'
  <2>1. ConnSound(c) /\ ioLoop[c] \in Loops
    BY IoLoopIsLoop DEF ConnsSound, IInv, Life
  <2>2. CASE c < nextConnId
    <3>1. Accepted(c)
      BY <2>1, <2>2 DEF ConnSound
    <3>2. /\ Establish(c)' = Establish(c) /\ Destroy(c)' = Destroy(c)
          /\ RemoveInPool(c)' = RemoveInPool(c)
      BY DEF Establish, Destroy, RemoveInPool, Functor
    <3>3. Destroy(c) \in Pending => Destroy(c) \in Pending' \/ at'[ioLoop[c]] = "ended"
      BY <1>1, <1>2, <2>1, Functors
    <3>4. at[ioLoop[c]] = "ended" => at'[ioLoop[c]] = "ended"
      BY <1>1, <2>1
    <3>5. Pending' \subseteq Pending
      BY <1>2
    <3>6. Accepted(c)'
      BY <3>1, <3>2, <3>3, <3>4, <3>5 DEF Accepted
    <3>7. QED
      BY <2>2, <3>6 DEF ConnSound
  <2>3. CASE ~(c < nextConnId)
    BY <2>1, <2>3 DEF ConnSound, NotYet
  <2>4. QED
    BY <2>2, <2>3
<1>5. QED
  BY <1>2, <1>3, <1>4 DEF Rounds, ConnsSound

(* TcpServer::newConnection.                                               *)
LEMMA ConnectionsAccept == IInv /\ CInv /\ AcceptConnection => CInv'
<1> SUFFICES ASSUME IInv, CInv, AcceptConnection
             PROVE  CInv'
  OBVIOUS
<1> USE DEF CInv
<1>0. nextConnId \in Conns /\ GetNextLoop \in 0 .. loops /\ 0 .. loops \subseteq Loops
  BY ServerThreadsAssumption, RoundRobin, LoopsNamed
  DEF IInv, Life, AcceptConnection, AcceptIsFor, ConnType, Conns
<1> PICK c \in Conns : c = nextConnId
  BY <1>0
<1> PICK l \in Loops : l = GetNextLoop
  BY <1>0
<1>1. /\ at[0] = "dispatch" /\ active' = [active EXCEPT ![0] = @ \ {Acceptor}]
      /\ ioLoop' = [ioLoop EXCEPT ![c] = l]
      /\ connections' = connections \cup {c}
      /\ nextConnId' = c + 1
      /\ UNCHANGED <<joined, at, batch, ran>>
      /\ \/ l = 0 /\ conn' = [conn EXCEPT ![c] = "connected"] /\ queue' = queue
         \/ /\ l # 0 /\ conn' = [conn EXCEPT ![c] = "connecting"]
            /\ queue' = Queued(l, Establish(c))
  BY DEF AcceptConnection, Establish
<1>2. /\ LoopType /\ conn \in [Conns -> ConnState] /\ ioLoop \in [Conns -> 0 .. loops]
      /\ 0 \in Loops /\ \A g \in FunctorType : RunsOn(g) \in Loops
  BY LoopsNamed, RunsOnLoop DEF IInv, Life, ConnType
<1>3. c \in Conns /\ c \in Nat
  BY DEF Conns
<1>4. Serving /\ joined = 0
  BY <1>1 DEF Serving, EndSound, IInv, Life, PoolType
<1>5. l \in Loops /\ at[l] # "ended"
  BY <1>0, <1>4, Unended
<1>6. NotYet(c)
  BY <1>3 DEF ConnsSound, ConnSound
<1>7. EndSound'
  BY <1>1, <1>4 DEF EndSound, Serving
<1>8. \A f \in FunctorType : f.conn < c => RunsOn(f)' = RunsOn(f) /\ f.conn < nextConnId'
  <2>1. \A d \in Conns : d < c => ioLoop'[d] = ioLoop[d] /\ d < c + 1
    BY <1>1, <1>2, <1>3 DEF Conns
  <2>2. QED
    BY <1>1, <2>1, FunctorKinds DEF RunsOn
<1>9. ASSUME NEW t \in Loops
      PROVE  /\ ToRun(t) \in Seq(FunctorType)
             /\ \A f \in FunctorType : AtMostOnce(f, ToRun(t))
             /\ \A f \in FunctorType : Occurs(f, ToRun(t)) =>
                  f.conn < c /\ f.conn < nextConnId' /\ t = RunsOn(f) /\ t = RunsOn(f)'
             /\ \A d \in Conns : Precedes(Establish(d), Destroy(d), ToRun(t))
  <2>1. ToRun(t) \in Seq(FunctorType) /\ Line(ToRun(t), t)
    BY <1>2, ToRunIsSeq DEF Lines, LineSound
  <2>2. QED
    BY <1>8, <2>1 DEF Line
<1>10. /\ Establish(c) \in FunctorType /\ Establish(c).conn = c
       /\ RunsOn(Establish(c))' = l
  <2>1. ioLoop'[c] = l
    BY <1>1, <1>2, <1>3
  <2>2. RunsOn(Establish(c))' = ioLoop'[c]
    BY DEF Establish, Functor, RunsOn
  <2>3. QED
    BY <1>3, <2>1, <2>2, Functors
<1>11. ASSUME NEW t \in Loops
       PROVE  \/ ToRun(t)' = ToRun(t)
              \/ t = l /\ l # 0 /\ ToRun(t)' = Append(ToRun(t), Establish(c))
  <2>1. CASE l = 0
    BY <1>1, <2>1 DEF ToRun
  <2>2. CASE l # 0
    BY <1>1, <1>2, <1>5, <1>10, <2>2, ToRunQueued
  <2>3. QED
    BY <2>1, <2>2
<1>12. ASSUME NEW t \in Loops
       PROVE  /\ LineSound(t)'
              /\ \A f \in FunctorType :
                   Occurs(f, ToRun(t)') =>
                     Occurs(f, ToRun(t)) \/ (l # 0 /\ f = Establish(c))
              /\ \A f \in FunctorType : Occurs(f, ToRun(t)) => Occurs(f, ToRun(t)')
  <2>1. CASE ToRun(t)' = ToRun(t)
    <3>1. Line(ToRun(t), t)'
      BY <1>9, <2>1 DEF Line, Establish, Destroy, Functor
    <3>2. QED
      BY <2>1, <3>1 DEF LineSound
  <2>2. CASE t = l /\ l # 0 /\ ToRun(t)' = Append(ToRun(t), Establish(c))
    <3> DEFINE s == ToRun(t)
               e == Establish(c)
    <3>1. s \in Seq(FunctorType) /\ e \in FunctorType
      BY <1>9, <1>10
    <3>2. ~Occurs(e, s) /\ ~Occurs(Destroy(c), s)
      <4>1. ~(c < c) /\ Destroy(c) \in FunctorType /\ Destroy(c).conn = c
        BY <1>3, Functors DEF Conns
      <4>2. QED
        BY <1>9, <1>10, <4>1
    <3>3. \A d \in Conns : Destroy(d) # e /\ (Establish(d) = e => d = c)
      BY <1>3, Functors
    <3>4. \A d : Establish(d)' = Establish(d) /\ Destroy(d)' = Destroy(d)
      BY DEF Establish, Destroy, Functor
    <3>5. \A f \in FunctorType : AtMostOnce(f, s)
      BY <1>9
    <3>6. \A d \in Conns : Precedes(Establish(d), Destroy(d), s)
      BY <1>9
    <3>7. \A f \in FunctorType : Occurs(f, s) => f.conn < nextConnId' /\ t = RunsOn(f)'
      BY <1>9
    <3>8. c < nextConnId'
      BY <1>1, <1>3
    <3> HIDE DEF s, e
    <3>9. \A f : Occurs(f, Append(s, e)) <=> Occurs(f, s) \/ f = e
      BY <3>1, InAppended
    <3>10. \A f \in FunctorType : AtMostOnce(f, Append(s, e))
      BY <3>1, <3>2, <3>5, InAppended
    <3>11. \A d \in Conns : Precedes(Establish(d), Destroy(d), Append(s, e))
      <4> SUFFICES ASSUME NEW d \in Conns
                   PROVE  Precedes(Establish(d), Destroy(d), Append(s, e))
        OBVIOUS
      <4>1. Establish(d) # Destroy(d) /\ Precedes(Establish(d), Destroy(d), s)
        BY <3>6, Functors
      <4>2. Establish(d) # e \/ ~Occurs(Destroy(d), s)
        BY <3>2, <3>3
      <4>3. QED
        BY <3>1, <4>1, <4>2, InAppended
    <3>12. ToRun(t)' = Append(s, e)
      BY <2>2 DEF s, e
    <3>13. e.conn = c /\ RunsOn(e)' = t
      BY <1>10, <2>2 DEF e
    <3>14. LineSound(t)'
      BY <3>4, <3>7, <3>8, <3>9, <3>10, <3>11, <3>12, <3>13 DEF LineSound, Line
    <3>15. QED
      BY <2>2, <3>9, <3>12, <3>14 DEF s, e
  <2>3. QED
    BY <1>11, <2>1, <2>2
<1>13. ASSUME NEW f \in FunctorType, f.conn # c
       PROVE  f \in Pending' <=> f \in Pending
  <2>1. RunsOn(f)' = RunsOn(f)
    BY <1>1, <1>2, <1>3, <1>13, FunctorKinds DEF RunsOn
  <2>2. f # Establish(c)
    BY <1>10, <1>13
  <2>3. QED
    BY <1>2, <1>12, <2>1, <2>2 DEF Pending
<1>14. ASSUME NEW f \in FunctorType, f.conn = c, f \in Pending'
       PROVE  l # 0 /\ f = Establish(c)
  <2>1. RunsOn(f)' \in Loops
    BY <1>1, <1>2, <1>3, <1>5, <1>14 DEF RunsOn
  <2>2. Occurs(f, ToRun(RunsOn(f))')
    BY <1>14 DEF Pending
  <2>3. ~Occurs(f, ToRun(RunsOn(f)')) /\ \A t \in Loops : ~Occurs(f, ToRun(t))
    BY <1>3, <1>9, <1>14, <2>1 DEF Conns
  <2>4. QED
    BY <1>12, <2>1, <2>2, <2>3
<1>15. ASSUME NEW u \in Loops
       PROVE  RoundSound(u)'
  <2>1. RoundSound(u)
    BY DEF Rounds
  <2>2. u # l => queue'[u] = queue[u]
    BY <1>1, <1>2 DEF Queued, LoopType
  <2>3. active'[u] \subseteq active[u]
    BY <1>1, <1>2 DEF LoopType
  <2>4. c \notin active[u]
    BY <1>3, <1>6, <2>1 DEF RoundSound, NotYet
  <2>5. \A d \in Conns : d # c => conn'[d] = conn[d] /\ ioLoop'[d] = ioLoop[d]
    BY <1>1, <1>2
  <2>6. QED
    BY <1>1, <1>5, <2>1, <2>2, <2>3, <2>4, <2>5 DEF RoundSound
<1>16. ASSUME NEW d \in Conns
       PROVE  ConnSound(d)'
  <2>1. CASE d # c
    <3>1. /\ conn'[d] = conn[d] /\ ioLoop'[d] = ioLoop[d]
          /\ d \in connections' <=> d \in connections
          /\ d < nextConnId' <=> d < nextConnId
      <4>1. conn'[d] = conn[d] /\ ioLoop'[d] = ioLoop[d]
        BY <1>1, <1>2, <2>1
      <4>2. d \in connections' <=> d \in connections
        BY <1>1, <2>1
      <4>3. d < c + 1 <=> d < c
        BY <2>1 DEF Conns
      <4>4. QED
        BY <1>1, <4>1, <4>2, <4>3
    <3>2. ConnSound(d)
      BY DEF ConnsSound
    <3>3. \A f \in {Establish(d), Destroy(d), RemoveInPool(d)} :
            f \in Pending' <=> f \in Pending
      BY <1>13, <2>1, Functors
    <3>4. QED
      BY <1>1, <3>1, <3>2, <3>3, Untouched DEF Serving
  <2>2. CASE d = c
    <3>1. /\ Destroy(c) \notin Pending' /\ RemoveInPool(c) \notin Pending'
          /\ Establish(c) \in Pending' => l # 0
      BY <1>3, <1>14, Functors
    <3>2. /\ ioLoop'[c] = l /\ c \in connections' /\ c < nextConnId'
          /\ conn'[c] \in {"connecting", "connected"}
          /\ l # 0 => conn'[c] = "connecting"
      BY <1>1, <1>2, <1>3
    <3>3. QED
      BY <2>2, <3>1, <3>2 DEF ConnSound, Accepted
  <2>3. QED
    BY <2>1, <2>2
<1>17. QED
  BY <1>7, <1>12, <1>15, <1>16 DEF Lines, Rounds, ConnsSound

(* ~TcpServer's runInLoop(connectDestroyed), for each connection that the  *)
(* map still holds.                                                        *)
LEMMA ConnectionsDestroyed ==
  ASSUME IInv, CInv, NEW c \in Conns, DestroyConnection(c)
  PROVE  CInv'
<1> USE DEF CInv
<1>1. /\ at[0] = "left" /\ c \in connections /\ connections' = connections \ {c}
      /\ UNCHANGED <<pool, at, quit, rounds, net, nextConnId, ioLoop>>
      /\ \/ /\ ioLoop[c] = 0 /\ queue' = queue
            /\ conn' = [conn EXCEPT ![c] = "destroyed"]
         \/ /\ ioLoop[c] # 0 /\ conn' = conn
            /\ queue' = Queued(ioLoop[c], Destroy(c))
  BY DEF DestroyConnection, Destroy
<1>2. LoopType /\ ConnType /\ conn \in [Conns -> ConnState] /\ 0 \in Loops
  BY LoopsNamed DEF IInv, Life, ConnType
<1>3. ~Serving /\ EndSound'
  BY <1>1 DEF Serving, EndSound, pool
<1>4. c < nextConnId /\ Accepted(c)
  BY <1>1 DEF ConnsSound, ConnSound, NotYet
<1>5. Destroy(c) \notin Pending /\ conn[c] # "destroyed" /\ conn[c] # "none"
  BY <1>1, <1>4 DEF Accepted
<1>6. at[ioLoop[c]] # "ended" /\ ioLoop[c] \in Loops
  BY <1>1, <1>2, Unended DEF ConnType
<1>7. /\ Establish(c)' = Establish(c) /\ Destroy(c)' = Destroy(c)
      /\ RemoveInPool(c)' = RemoveInPool(c)
  BY DEF Establish, Destroy, RemoveInPool, Functor
<1>8. CASE ioLoop[c] = 0
  <2>1. queue' = queue /\ conn' = [conn EXCEPT ![c] = "destroyed"]
        /\ \A t \in Loops : ToRun(t)' = ToRun(t)
    BY <1>1, <1>8 DEF ToRun, rounds
  <2>2. Lines' /\ Pending' = Pending
    BY <1>1, <2>1, Keeps
  <2>3. ASSUME NEW u \in Loops
        PROVE  RoundSound(u)'
    <3>1. RoundSound(u)
      BY DEF Rounds
    <3>2. c \notin active[u]
      BY <1>1, <1>8, <3>1 DEF RoundSound
    <3>3. \A d \in Conns : d # c => conn'[d] = conn[d]
      BY <2>1, <1>2
    <3>4. QED
      BY <1>1, <2>1, <3>1, <3>2, <3>3 DEF RoundSound, rounds
  <2>4. ASSUME NEW d \in Conns
        PROVE  ConnSound(d)'
    <3>1. CASE d # c
      <4>1. ConnSound(d) /\ conn'[d] = conn[d]
        BY <1>2, <2>1, <3>1 DEF ConnsSound
      <4>2. QED
        BY <1>1, <2>2, <3>1, <4>1, Untouched DEF Serving
    <3>2. CASE d = c
      <4>1. conn'[c] = "destroyed" /\ c \notin connections' /\ ~Serving'
        BY <1>1, <1>2, <1>3, <2>1 DEF Serving
      <4>2. Accepted(c)'
        BY <1>1, <1>4, <1>5, <1>7, <1>8, <2>2, <4>1 DEF Accepted
      <4>3. QED
        BY <1>1, <1>4, <3>2, <4>2 DEF ConnSound
    <3>3. QED
      BY <3>1, <3>2
  <2>5. QED
    BY <1>3, <2>2, <2>3, <2>4 DEF Rounds, ConnsSound
<1>9. CASE ioLoop[c] # 0
  <2>1. conn' = conn /\ queue' = Queued(ioLoop[c], Destroy(c))
    BY <1>1, <1>9
  <2>2. Lines' /\ Pending' = Pending \cup {Destroy(c)}
    BY <1>1, <1>4, <1>5, <2>1, Hands, Functors DEF rounds
  <2>3. ASSUME NEW u \in Loops
        PROVE  RoundSound(u)'
    <3>1. RoundSound(u)
      BY DEF Rounds
    <3>2. u # ioLoop[c] => queue'[u] = queue[u]
      BY <1>2, <2>1 DEF Queued, LoopType
    <3>3. QED
      BY <1>1, <1>6, <2>1, <3>1, <3>2 DEF RoundSound, rounds
  <2>4. ASSUME NEW d \in Conns
        PROVE  ConnSound(d)'
    <3>1. CASE d # c
      <4>1. ConnSound(d)
        BY DEF ConnsSound
      <4>2. /\ Establish(d) # Destroy(c) /\ Destroy(d) # Destroy(c)
            /\ RemoveInPool(d) # Destroy(c)
        BY <3>1, Functors
      <4>3. QED
        BY <1>1, <2>1, <2>2, <3>1, <4>1, <4>2, Untouched DEF Serving
    <3>2. CASE d = c
      <4>1. c \notin connections' /\ ~Serving' /\ Destroy(c) \in Pending'
        BY <1>1, <1>3, <2>2 DEF Serving
      <4>2. /\ Establish(c) \in Pending' <=> Establish(c) \in Pending
            /\ RemoveInPool(c) \in Pending' <=> RemoveInPool(c) \in Pending
        BY <2>2, Functors
      <4>3. Accepted(c)'
        BY <1>1, <1>4, <1>5, <1>7, <2>1, <4>1, <4>2 DEF Accepted
      <4>4. QED
        BY <1>1, <1>4, <3>2, <4>3 DEF ConnSound
    <3>3. QED
      BY <3>1, <3>2
  <2>5. QED
    BY <1>3, <2>2, <2>3, <2>4 DEF Rounds, ConnsSound
<1>10. QED
  BY <1>8, <1>9

LEMMA ConnectionsServerEnds == IInv /\ CInv /\ DestroyServer => CInv'
<1> SUFFICES ASSUME IInv, CInv, DestroyServer
             PROVE  CInv'
  OBVIOUS
<1> USE DEF pool, rounds, server
<1>1. at \in [Loops -> Places] /\ 0 \in Loops /\ EndSound
  BY LoopsNamed DEF IInv, Life, ThreadType, CInv
<1>2. CASE \E c \in Conns : DestroyConnection(c)
  BY <1>2, ConnectionsDestroyed
<1>3. CASE QuitLoop
  BY <1>1, <1>3, Quiet DEF QuitLoop, EndSound, Serving
<1>4. CASE WakeupLoop
  BY <1>1, <1>4, Quiet DEF WakeupLoop, EndSound, Serving
<1>5. CASE Join
  BY <1>1, <1>5, Quiet DEF Join, EndSound, Serving
<1>6. CASE EndServer
  BY <1>1, <1>6, ConnectionsEnd DEF EndServer, EndSound, Serving
<1>7. QED
  BY <1>2, <1>3, <1>4, <1>5, <1>6 DEF DestroyServer

LEMMA ConnectionsThread ==
  ASSUME IInv, CInv, NEW t \in Threads, ThreadStep(t)
  PROVE  CInv'
<1> USE DEF pool, rounds, server
<1>1. /\ at \in [Loops -> Places] /\ 0 \in Loops /\ EndSound
      /\ t \in Loops /\ t # 0
  BY LoopsNamed DEF IInv, Life, ThreadType, CInv
<1>2. CASE PublishLoop(t)
  BY <1>1, <1>2, Quiet DEF PublishLoop, EndSound, Serving
<1>3. CASE LoopStep(t)
  BY <1>1, <1>3, ConnectionsLoop
<1>4. CASE ClearLoop(t)
  BY <1>1, <1>4, Quiet DEF ClearLoop, EndSound, Serving
<1>5. CASE DestroyLoop(t)
  BY <1>1, <1>5, ConnectionsEnd DEF DestroyLoop, EndSound, Serving
<1>6. QED
  BY <1>2, <1>3, <1>4, <1>5 DEF ThreadStep

LEMMA CInvStep == IInv /\ CInv /\ [Next]_vars => CInv'
<1> SUFFICES ASSUME IInv, CInv, [Next]_vars
             PROVE  CInv'
  OBVIOUS
<1> USE DEF pool, rounds, net, server
<1>1. 0 \in Loops /\ EndSound /\ LoopType
  BY LoopsNamed DEF IInv, Life, CInv
<1>2. CASE StartServer
  BY <1>2, ConnectionsStart
<1>3. CASE LoopStep(0)
  BY <1>1, <1>3, ConnectionsLoop
<1>4. CASE AcceptConnection
  BY <1>4, ConnectionsAccept
<1>5. CASE AcceptFails
  <2>1. \A u \in Loops : active'[u] \subseteq active[u]
    BY <1>1, <1>5 DEF AcceptFails, LoopType
  <2>2. QED
    BY <1>1, <1>5, <2>1, Quiet DEF AcceptFails, EndSound, Serving
<1>6. CASE DestroyServer
  BY <1>6, ConnectionsServerEnds
<1>7. CASE \E t \in Threads : ThreadStep(t)
  BY <1>7, ConnectionsThread
<1>8. CASE QuitBaseLoop \/ PeerConnects \/ \E c \in Conns : PeerCloses(c)
  BY <1>1, <1>8, Quiet DEF QuitBaseLoop, PeerConnects, PeerCloses, EndSound, Serving
<1>9. CASE UNCHANGED vars
  BY <1>1, <1>9, Quiet DEF vars, EndSound, Serving
<1>10. QED
  BY <1>2, <1>3, <1>4, <1>5, <1>6, <1>7, <1>8, <1>9 DEF Next, MainStep

LEMMA CInvInit == Init => CInv
<1> SUFFICES ASSUME Init
             PROVE  CInv
  OBVIOUS
<1>1. \A t \in Loops : /\ queue[t] = <<>> /\ batch[t] = <<>> /\ ran[t] = 0
                       /\ active[t] = {} /\ at[t] # "ended"
  BY DEF Init
<1>2. \A t \in Loops : ToRun(t) = <<>>
  <2>1. SubSeq(<<>>, 0 + 1, Len(<<>>)) = <<>> /\ <<>> \o <<>> = <<>>
    BY SubSeqFull, EmptySeq, ConcatEmptySeq
  <2>2. QED
    BY <1>1, <2>1 DEF ToRun
<1>3. Lines
  BY <1>2, LineEmpty DEF Lines, LineSound
<1>4. Rounds
  <2>1. 0 <= Len(<<>>)
    BY EmptySeq
  <2>2. QED
    BY <1>1, <2>1 DEF Rounds, RoundSound
<1>5. ConnsSound
  <2>1. nextConnId = 1 /\ connections = {} /\ \A c \in Conns : conn[c] = "none"
    BY DEF Init
  <2>2. \A c \in Conns : ~(c < 1)
    BY DEF Conns
  <2>3. QED
    BY <2>1, <2>2 DEF ConnsSound, ConnSound, NotYet
<1>6. EndSound
  BY DEF Init, EndSound
<1>7. QED
  BY <1>3, <1>4, <1>5, <1>6 DEF CInv

(* What is in a queue at most once is counted once or not at all.          *)
LEMMA Counted ==
  ASSUME NEW S, NEW s \in Seq(S), NEW x, AtMostOnce(x, s)
  PROVE  Cardinality({i \in DOMAIN s : s[i] = x}) = IF Occurs(x, s) THEN 1 ELSE 0
<1>1. DOMAIN s = 1 .. Len(s)
  BY LenProperties
<1>2. CASE Occurs(x, s)
  <2>1. PICK i \in 1 .. Len(s) : s[i] = x
    BY <1>2 DEF Occurs
  <2>2. {j \in DOMAIN s : s[j] = x} = {i}
    BY <1>1, <2>1 DEF AtMostOnce
  <2>3. QED
    BY <1>2, <2>2, FS_Singleton
<1>3. CASE ~Occurs(x, s)
  <2>1. {j \in DOMAIN s : s[j] = x} = {}
    BY <1>1, <1>3 DEF Occurs
  <2>2. QED
    BY <1>3, <2>1, FS_EmptySet
<1>4. QED
  BY <1>2, <1>3

(* However a peer's close and the end of the server fall together, a       *)
(* connection that leaves the map has been handed to connectDestroyed once *)
(* (removeConnectionInPool, ~TcpServer), for any number of io threads.     *)
THEOREM EachDestroyedOnce == Spec => []DestroyedOnce
<1>1. ASSUME IInv, CInv PROVE DestroyedOnce
  <2> SUFFICES ASSUME NEW c \in 1 .. nextConnId - 1
               PROVE  /\ Destructions(c) <= 1
                      /\ Destructions(c) = 0 <=> c \in connections \/
                           (conn[c] # "destroyed" /\ at[ioLoop[c]] = "ended")
    BY DEF DestroyedOnce
  <2>1. c \in Conns /\ c < nextConnId
    BY <1>1, ServerThreadsAssumption DEF IInv, ConnType, Conns
  <2>2. ioLoop[c] \in Loops /\ ioLoop[c] \in 0 .. loops
    BY <1>1, <2>1, IoLoopIsLoop DEF IInv, Life, ConnType
  <2>3. Accepted(c)
    BY <1>1, <2>1 DEF CInv, ConnsSound, ConnSound
  <2>4. /\ ToRun(ioLoop[c]) \in Seq(FunctorType)
        /\ AtMostOnce(Destroy(c), ToRun(ioLoop[c]))
        /\ Occurs(Destroy(c), ToRun(ioLoop[c])) <=> Destroy(c) \in Pending
    <3>1. LoopType /\ Rounds /\ Lines /\ Destroy(c) \in FunctorType
          /\ RunsOn(Destroy(c)) = ioLoop[c]
      BY <1>1, <2>1, Functors DEF IInv, CInv
    <3>2. QED
      BY <2>2, <3>1, ToRunIsSeq, PendingInLine DEF Lines, LineSound, Line
  <2>5. Destructions(c) = (IF Destroy(c) \in Pending THEN 1 ELSE 0)
                            + (IF conn[c] = "destroyed" THEN 1 ELSE 0)
    BY <2>4, Counted DEF Destructions, Destroy
  <2>6. at[ioLoop[c]] = "ended" => Destroy(c) \notin Pending
    <3>1. ASSUME at[ioLoop[c]] = "ended"
          PROVE  ToRun(ioLoop[c]) = <<>>
      <4>1. batch[ioLoop[c]] = <<>> /\ ran[ioLoop[c]] + 1 = 1 /\ queue[ioLoop[c]] = <<>>
        BY <1>1, <2>2, <3>1 DEF CInv, Rounds, RoundSound
      <4>2. SubSeq(<<>>, 1, Len(<<>>)) = <<>> /\ <<>> \o <<>> = <<>>
        BY SubSeqFull, EmptySeq, ConcatEmptySeq
      <4>3. QED
        BY <4>1, <4>2 DEF ToRun
    <3>2. QED
      BY <2>4, <3>1, InEmpty
  <2>7. c \in connections => Destroy(c) \notin Pending /\ conn[c] # "destroyed"
    BY <2>3 DEF Accepted
  <2>8. c \in connections \/ Destroy(c) \in Pending
          \/ conn[c] = "destroyed" \/ at[ioLoop[c]] = "ended"
    BY <2>3 DEF Accepted
  <2>9. conn[c] = "destroyed" => Destroy(c) \notin Pending
    BY <2>3 DEF Accepted
  <2>10. QED
    BY <2>5, <2>6, <2>7, <2>8, <2>9
<1>2. QED
  BY <1>1, CInvInit, CInvStep, Invariance, PTL DEF Spec, SafeSpec

-----------------------------------------------------------------------------
(***************************************************************************)
(* Dealing: the round robin of EventLoopTreadPool::getNextLoop.            *)
(***************************************************************************)

DealtTo(t) == {c \in 1 .. nextConnId - 1 : ioLoop[c] = t}

(* The round robin is in its k-th round, and has come to _next.            *)
Dealing ==
  /\ at[0] \in {"start", "await"} => nextConnId = 1 /\ next = 0
  /\ \E k \in Nat : \A t \in 1 .. loops :
       Cardinality(DealtTo(t)) = IF t <= next THEN k + 1 ELSE k

(* Every step but an accept leaves the round robin where it is, or is one  *)
(* of start(), when nothing has been dealt out.                            *)
LEMMA OnlyAcceptDeals ==
  ASSUME IInv, [Next]_vars, ~AcceptConnection
  PROVE  /\ UNCHANGED <<next, nextConnId, ioLoop>>
         /\ loops' = loops \/ at[0] = "await"
         /\ at'[0] \in {"start", "await"} => at[0] \in {"start", "await"}
<1> USE DEF pool, rounds, net, server
<1>1. Life /\ at \in [Loops -> Places] /\ 0 \in Loops /\ PoolType
  BY LoopsNamed DEF IInv, Life, ThreadType
<1>2. CASE StartServer
  BY <1>2 DEF StartServer, SpawnThread, AwaitLoop, Listen
<1>3. ASSUME NEW t \in Loops, LoopStep(t)
      PROVE  /\ UNCHANGED <<next, nextConnId, ioLoop>> /\ loops' = loops
             /\ at'[0] \in {"start", "await"} => at[0] \in {"start", "await"}
  <2>1. UNCHANGED <<next, nextConnId, ioLoop, loops>>
    BY <1>3 DEF LoopStep, EnterLoop, TestQuit, PollReturn, SwapPendingFunctors,
                RunFunctor, EndPendingFunctors, HandleClose
  <2>2. at'[0] = at[0] \/ at'[0] \in InLoop \cup {"left"}
    BY <1>1, <1>3, LoopStepMoves
  <2>3. QED
    BY <2>1, <2>2 DEF InLoop
<1>4. CASE AcceptFails
  BY <1>4 DEF AcceptFails
<1>5. CASE DestroyServer
  BY <1>1, <1>5
  DEF DestroyServer, DestroyConnection, QuitLoop, WakeupLoop, Join, EndServer
<1>6. ASSUME NEW t \in Threads, ThreadStep(t)
      PROVE  /\ UNCHANGED <<next, nextConnId, ioLoop>> /\ loops' = loops
             /\ at'[0] \in {"start", "await"} => at[0] \in {"start", "await"}
  <2>1. t # 0 /\ t \in Loops
    BY <1>1, LoopsNamed
  <2>2. CASE LoopStep(t)
    BY <2>1, <2>2, <1>3
  <2>3. CASE PublishLoop(t) \/ ClearLoop(t) \/ DestroyLoop(t)
    BY <1>1, <2>1, <2>3 DEF PublishLoop, ClearLoop, DestroyLoop
  <2>4. QED
    BY <1>6, <2>2, <2>3 DEF ThreadStep
<1>7. CASE QuitBaseLoop \/ PeerConnects \/ \E c \in Conns : PeerCloses(c)
  BY <1>7 DEF QuitBaseLoop, PeerConnects, PeerCloses
<1>8. CASE UNCHANGED vars
  BY <1>8 DEF vars
<1>9. QED
  BY <1>1, <1>2, <1>3, <1>4, <1>5, <1>6, <1>7, <1>8 DEF Next, MainStep

(* What one connection more does to the numbers.                           *)
LEMMA OneMoreDealt ==
  ASSUME ConnType, nextConnId \in Conns, NEW l \in Nat, nextConnId' = nextConnId + 1,
         ioLoop' = [ioLoop EXCEPT ![nextConnId] = l], NEW t \in Nat
  PROVE  /\ Cardinality(DealtTo(t)) \in Nat
         /\ Cardinality(DealtTo(t)') =
              IF t = l THEN Cardinality(DealtTo(t)) + 1 ELSE Cardinality(DealtTo(t))
<1>1. nextConnId \in Nat /\ ioLoop \in [Conns -> 0 .. loops]
  BY ServerThreadsAssumption DEF ConnType, Conns
<1>2. IsFiniteSet(DealtTo(t)) /\ Cardinality(DealtTo(t)) \in Nat
  <2>1. IsFiniteSet(1 .. nextConnId - 1)
    BY <1>1, FS_Interval
  <2>2. DealtTo(t) \subseteq 1 .. nextConnId - 1
    BY DEF DealtTo
  <2>3. QED
    BY <2>1, <2>2, FS_Subset, FS_CardinalityType
<1>3. DealtTo(t)' = IF t = l THEN DealtTo(t) \cup {nextConnId} ELSE DealtTo(t)
  <2>1. 1 .. nextConnId' - 1 = (1 .. nextConnId - 1) \cup {nextConnId}
    BY <1>1 DEF Conns
  <2>2. /\ ioLoop'[nextConnId] = l
        /\ \A c \in 1 .. nextConnId - 1 : ioLoop'[c] = ioLoop[c]
    BY <1>1
  <2>3. QED
    BY <2>1, <2>2 DEF DealtTo
<1>4. nextConnId \notin DealtTo(t)
  BY <1>1 DEF DealtTo
<1>5. QED
  BY <1>2, <1>3, <1>4, FS_AddElement

LEMMA DealingStep == IInv /\ Dealing /\ [Next]_vars => Dealing'
<1> SUFFICES ASSUME IInv, Dealing, [Next]_vars
             PROVE  Dealing'
  OBVIOUS
<1>1. PoolType /\ MainSound /\ ConnType /\ loops \in Nat
  BY LoopsNamed DEF IInv, Life
<1>2. CASE AcceptConnection
  <2>1. /\ at[0] = "dispatch" /\ at' = at /\ loops' = loops
        /\ next' = AdvanceNext /\ nextConnId' = nextConnId + 1
        /\ ioLoop' = [ioLoop EXCEPT ![nextConnId] = GetNextLoop]
    BY <1>2 DEF AcceptConnection
  <2>2. GetNextLoop \in 0 .. loops /\ GetNextLoop \in Nat
    BY <1>1, RoundRobin
  <2>3. nextConnId \in Conns
    BY <1>2, ServerThreadsAssumption
    DEF IInv, AcceptConnection, AcceptIsFor, ConnType, Conns
  <2>4. PICK k \in Nat : \A t \in 1 .. loops :
          Cardinality(DealtTo(t)) = IF t <= next THEN k + 1 ELSE k
    BY DEF Dealing
  <2>5. ASSUME NEW t \in 1 .. loops
        PROVE  Cardinality(DealtTo(t)') =
                 IF t <= next \/ t = next + 1 THEN k + 1 ELSE k
    <3>1. t \in Nat /\ loops # 0 /\ next \in Nat
      BY <1>1 DEF PoolType
    <3>2. Cardinality(DealtTo(t)') =
            IF t = GetNextLoop THEN Cardinality(DealtTo(t)) + 1
                               ELSE Cardinality(DealtTo(t))
      BY <1>1, <2>1, <2>2, <2>3, <3>1, OneMoreDealt
    <3>3. GetNextLoop = next + 1
      BY <3>1 DEF GetNextLoop
    <3>4. QED
      BY <2>4, <3>1, <3>2, <3>3
  <2>6. CASE next + 1 >= loops \/ loops = 0
    <3>1. next' = 0
      BY <2>1, <2>6 DEF AdvanceNext
    <3>2. ASSUME NEW t \in 1 .. loops'
          PROVE  Cardinality(DealtTo(t)') = IF t <= next' THEN k + 1 + 1 ELSE k + 1
      BY <1>1, <2>1, <2>5, <2>6, <3>1 DEF PoolType
    <3>3. QED
      BY <2>1, <3>1, <3>2 DEF Dealing
  <2>7. CASE ~(next + 1 >= loops \/ loops = 0)
    <3>1. next' = next + 1
      BY <2>1, <2>7 DEF AdvanceNext
    <3>2. ASSUME NEW t \in 1 .. loops'
          PROVE  Cardinality(DealtTo(t)') = IF t <= next' THEN k + 1 ELSE k
      BY <1>1, <2>1, <2>5, <3>1 DEF PoolType
    <3>3. QED
      BY <2>1, <3>2 DEF Dealing
  <2>8. QED
    BY <2>6, <2>7
<1>3. CASE ~AcceptConnection
  <2>1. /\ UNCHANGED <<next, nextConnId, ioLoop>>
        /\ loops' = loops \/ at[0] = "await"
        /\ at'[0] \in {"start", "await"} => at[0] \in {"start", "await"}
    BY <1>3, OnlyAcceptDeals
  <2>2. \A t : DealtTo(t)' = DealtTo(t)
    BY <2>1 DEF DealtTo
  <2>3. CASE loops' = loops
    BY <2>1, <2>2, <2>3 DEF Dealing
  <2>4. CASE at[0] = "await"
    <3>1. next' = 0 /\ nextConnId' = 1
      BY <2>1, <2>4 DEF Dealing
    <3>2. \A t \in 1 .. loops' : DealtTo(t)' = {}
      BY <3>1 DEF DealtTo
    <3>3. \A t \in 1 .. loops' : Cardinality(DealtTo(t)') = 0 /\ ~(t <= next')
      BY <3>1, <3>2, FS_EmptySet
    <3>4. QED
      BY <3>1, <3>3 DEF Dealing
  <2>5. QED
    BY <2>1, <2>3, <2>4
<1>4. QED
  BY <1>2, <1>3

(* However the connections end, no io loop is ever handed two more than    *)
(* another (getNextLoop's round robin).                                    *)
THEOREM EvenlyDealt == Spec => []Balanced
<1>1. Init => Dealing
  <2> SUFFICES ASSUME Init
               PROVE  Dealing
    OBVIOUS
  <2>1. next = 0 /\ nextConnId = 1 /\ loops = 0
    BY DEF Init
  <2>2. \A t \in 1 .. loops : FALSE
    BY <2>1
  <2>3. QED
    BY <2>1, <2>2 DEF Dealing
<1>2. IInv /\ Dealing => Balanced
  <2> SUFFICES ASSUME IInv, Dealing
               PROVE  Balanced
    OBVIOUS
  <2>1. PICK k \in Nat : \A t \in 1 .. loops :
          Cardinality(DealtTo(t)) = IF t <= next THEN k + 1 ELSE k
    BY DEF Dealing
  <2>2. \A t, u \in 1 .. loops :
          Cardinality(DealtTo(t)) <= Cardinality(DealtTo(u)) + 1
    BY <2>1
  <2>3. QED
    BY <2>2 DEF Balanced, DealtTo
<1>3. QED
  BY <1>1, <1>2, DealingStep, Invariance, PTL DEF Spec, SafeSpec

=============================================================================
