------------------------ MODULE TcpConnectionProofs ------------------------
(***************************************************************************)
(* Proofs about TcpConnection, for any number of connections.              *)
(***************************************************************************)
EXTENDS TcpConnection, SequenceLemmas, FiniteSetTheorems

FunctorType ==
  [run : Strong \cup {"sendInLoop", "shutdownInLoop"}, conn : Conns]

Establish(c)     == Functor("connectEstablished", c)
Destroy(c)       == Functor("connectDestroyed", c)
RemoveInPool(c)  == Functor("removeConnectionInPool", c)
HighWater(c)     == Functor("highWater", c)
WriteComplete(c) == Functor("writeComplete", c)

Pending(f) == Occurs(f, ToRun)

(* No thread but the io loop's calls send().                               *)
NoThreadSends == "send" \notin UserOps

-----------------------------------------------------------------------------
(***************************************************************************)
(* The inductive invariant.                                                *)
(***************************************************************************)

(* TypeOK, but for how often the user's callback is called.                *)
Types ==
  /\ poller \in PollerType
  /\ state \in [Conns -> {"unborn", "connecting", "connected", "disconnected", "freed"}]
  /\ output \in [Conns -> BOOLEAN]
  /\ net \in [Conns -> [peer : {"open", "closed", "reset"}, data : BOOLEAN,
                        room : BOOLEAN, shut : BOOLEAN, err : BOOLEAN]]
  /\ callbacks \in [Conns -> [up : Nat, down : Nat]]
  /\ serverUp \in BOOLEAN
  /\ connections \subseteq Conns /\ IsFiniteSet(connections)
  /\ baseQueue \in Seq(FunctorType)
  /\ ioQueue \in Seq(FunctorType)
  /\ batch \in Seq(FunctorType)
  /\ ran \in 0 .. Len(batch)
  /\ phase \in {"poll", "dispatch", "functors"}
  /\ active \subseteq Conns
  /\ revents \in [Conns -> SUBSET {"ERR", "IN", "MSG", "OUT", "HUP"}]
  /\ handling \in Conns \cup {None}
  /\ userRef \subseteq Conns
  /\ userPc \in [Conns -> {"idle", "send", "shutdown", "stored"}]
  /\ paused \subseteq Conns

(* Where the io loop is in its round.                                      *)
Round ==
  /\ phase # "functors" => batch = <<>> /\ ran = 0
  /\ phase # "dispatch" => active = {} /\ handling = None
  /\ handling \notin active
  /\ \A c \in Conns :
       handling = c /\ "IN" \in revents[c] => "HUP" \notin revents[c]

(* Whoever has a shared pointer has one to a connection that is there.     *)
Held(c) ==
  /\ Referenced(c) => Accepted(c)
  /\ userPc[c] # "idle" => c \in userRef

(* The channel, the poller's tables and the kernel's, for one fd.          *)
Table(c) ==
  /\ poller.fd[c] = IF Accepted(c) THEN c ELSE None
  /\ poller.index[c] = "added" <=> poller.interest[c] # None
  /\ poller.interest[c] # None =>
       poller.interest[c] = [ptr |-> c, events |-> poller.events[c]]
  /\ poller.index[c] = "deleted" => poller.events[c] = {}
  /\ poller.index[c] # "new" => Accepted(c) /\ poller.channels[c] = c
  /\ poller.index[c] = "new" /\ state[c] # "freed" => poller.channels[c] = None
  /\ ~Accepted(c) => poller.events[c] = {} /\ ~output[c]

(* Nothing happens to a connection before connectEstablished has run.      *)
Begun(c) ==
  \/ c \in userRef \cup active \cup paused
  \/ handling = c
  \/ poller.interest[c] # None
  \/ callbacks[c].down > 0
  \/ \E f \in FunctorType :
       /\ f.conn = c /\ f \notin {Establish(c), Destroy(c)}
       /\ Pending(f) \/ Occurs(f, baseQueue)

Life(c) ==
  /\ callbacks[c].up \in {0, 1}
  /\ Begun(c) => callbacks[c].up = 1
  /\ state[c] \in {"unborn", "connecting"} => callbacks[c].up = 0
  /\ state[c] = "connected" => callbacks[c].up = 1 /\ callbacks[c].down = 0
                                 /\ poller.index[c] # "new"
  /\ Pending(Establish(c)) => state[c] = "connecting"
  /\ AtMostOnce(Establish(c), ToRun)
  /\ Precedes(Establish(c), Destroy(c), ToRun)

(* What is watched for.                                                    *)
Watch(c) ==
  /\ output[c] /\ callbacks[c].down = 0 => IsWriting(poller, c)
  /\ "read" \in poller.events[c] => callbacks[c].up = 1 /\ callbacks[c].down = 0
  /\ Accepted(c) /\ callbacks[c].up = 1 /\ callbacks[c].down = 0 =>
       "read" \in poller.events[c]
  /\ c \in active \/ handling = c =>
       revents[c] \cap {"IN", "MSG"} = {} \/ callbacks[c].down = 0

(* A high-water notice is followed by a write-complete one, or will be.    *)
Followed(c, s) ==
  \A i \in 1 .. Len(s) :
    s[i] = HighWater(c) =>
      \E j \in 1 .. Len(s) : i < j /\ s[j] = WriteComplete(c)

Flow(c) ==
  /\ \/ output[c] \/ ~Accepted(c) \/ callbacks[c].down > 0
     \/ /\ Followed(c, ToRun)
        /\ c \in paused => Pending(WriteComplete(c))
  /\ ~FlowControl => c \notin paused /\ ~Pending(HighWater(c))

(* The server's part.                                                      *)
Served(c) ==
  /\ \A f \in FunctorType :
       Occurs(f, baseQueue) /\ f.conn = c => f = RemoveInPool(c) /\ callbacks[c].down > 0
  /\ ~Pending(RemoveInPool(c))
  /\ serverUp /\ state[c] # "unborn" => c \in connections \/ callbacks[c].down > 0

(* A connection whose channel is in the poller's tables is the server's,   *)
(* or on its way to connectDestroyed; what has been closed is at rest.     *)
Strict(c) ==
  /\ userPc[c] # "send"
  /\ ~Pending(Functor("sendInLoop", c))
  /\ poller.index[c] # "new" \/ Pending(Establish(c)) =>
       c \in connections \/ Pending(Destroy(c))
  /\ c \in active \/ handling = c => poller.index[c] # "new"
  /\ state[c] = "freed" => poller.channels[c] = None
  /\ poller.interest[c] # None => poller.events[c] # {}
  /\ callbacks[c].down <= 1
  /\ callbacks[c].down = 1 => poller.events[c] = {}
  /\ c \in active => callbacks[c].down = 0
  /\ handling = c => revents[c] \cap {"IN", "MSG", "HUP"} = {} \/ callbacks[c].down = 0
  /\ \/ userPc[c] = "stored" \/ Pending(Functor("shutdownInLoop", c)) \/ net[c].shut
     => state[c] \in {"disconnected", "freed"}
  /\ net[c].shut /\ callbacks[c].down = 0 => ~output[c] /\ ~IsWriting(poller, c)

ConnInv(c) ==
  /\ Held(c) /\ Table(c) /\ Life(c) /\ Watch(c) /\ Flow(c) /\ Served(c)
  /\ NoThreadSends => Strict(c)

IInv ==
  /\ Types /\ Round /\ ~poller.failed
  /\ \A c \in Conns : ConnInv(c)

-----------------------------------------------------------------------------
(***************************************************************************)
(* Functors and queues.                                                    *)
(***************************************************************************)

LEMMA Functors ==
  ASSUME NEW c \in Conns
  PROVE  /\ \A f \in FunctorType : f.conn \in Conns /\ f = Functor(f.run, f.conn)
         /\ \A r \in Strong \cup {"sendInLoop", "shutdownInLoop"} :
              /\ Functor(r, c) \in FunctorType
              /\ Functor(r, c).conn = c /\ Functor(r, c).run = r
BY DEF Functor, FunctorType

LEMMA NamedFunctors ==
  ASSUME NEW c \in Conns
  PROVE  /\ Establish(c) \in FunctorType /\ Destroy(c) \in FunctorType
         /\ RemoveInPool(c) \in FunctorType /\ HighWater(c) \in FunctorType
         /\ WriteComplete(c) \in FunctorType
         /\ Establish(c).conn = c /\ Destroy(c).conn = c /\ RemoveInPool(c).conn = c
         /\ HighWater(c).conn = c /\ WriteComplete(c).conn = c
         /\ Functor("sendInLoop", c) \in FunctorType /\ Functor("sendInLoop", c).conn = c
         /\ Functor("shutdownInLoop", c) \in FunctorType
         /\ Functor("shutdownInLoop", c).conn = c
BY DEF Functor, FunctorType, Strong, Establish, Destroy, RemoveInPool, HighWater,
       WriteComplete

(* The loop's own functors are told apart by what they run.                *)
Distinct(c) ==
  /\ Establish(c) # Destroy(c) /\ Establish(c) # RemoveInPool(c)
  /\ Establish(c) # HighWater(c) /\ Establish(c) # WriteComplete(c)
  /\ Destroy(c) # RemoveInPool(c) /\ Destroy(c) # HighWater(c)
  /\ Destroy(c) # WriteComplete(c) /\ RemoveInPool(c) # HighWater(c)
  /\ RemoveInPool(c) # WriteComplete(c) /\ HighWater(c) # WriteComplete(c)
  /\ \A r \in {"sendInLoop", "shutdownInLoop"} :
       Functor(r, c) \notin {Establish(c), Destroy(c), RemoveInPool(c), HighWater(c),
                             WriteComplete(c)}
  /\ Functor("sendInLoop", c) # Functor("shutdownInLoop", c)

LEMMA AllDistinct ==
  ASSUME NEW c \in Conns
  PROVE  Distinct(c)
BY DEF Distinct, Functor, Establish, Destroy, RemoveInPool, HighWater, WriteComplete

(* What appending e to s changes for connection c.                         *)
LEMMA LineAppended ==
  ASSUME NEW s \in Seq(FunctorType), NEW e \in FunctorType, NEW c \in Conns
  PROVE  LET t == Append(s, e)
         IN  /\ \A f : Occurs(f, t) <=> Occurs(f, s) \/ f = e
             /\ AtMostOnce(Establish(c), s) /\ (e # Establish(c) \/ ~Occurs(Establish(c), s))
                  => AtMostOnce(Establish(c), t)
             /\ Precedes(Establish(c), Destroy(c), s)
                  /\ (e # Establish(c) \/ ~Occurs(Destroy(c), s))
                  => Precedes(Establish(c), Destroy(c), t)
             /\ Followed(c, s) /\ e # HighWater(c) => Followed(c, t)
             /\ e = WriteComplete(c) => Followed(c, t)
<1> DEFINE t == Append(s, e)
<1>1. Establish(c) # Destroy(c) /\ HighWater(c) # WriteComplete(c)
  BY AllDistinct DEF Distinct
<1>2. /\ Len(s) \in Nat /\ Len(t) = Len(s) + 1
      /\ (\A i \in 1 .. Len(s) : t[i] = s[i]) /\ t[Len(s) + 1] = e
  BY LenProperties, AppendProperties
<1>3. /\ \A i \in 1 .. Len(t) : i \in 1 .. Len(s) \/ i = Len(s) + 1
      /\ Len(s) + 1 \in 1 .. Len(t) /\ 1 .. Len(s) \subseteq 1 .. Len(t)
      /\ \A i \in 1 .. Len(s) : i < Len(s) + 1
  BY <1>2
<1>4. \A f : Occurs(f, t) <=> Occurs(f, s) \/ f = e
  BY InAppended
<1>5. /\ AtMostOnce(Establish(c), s) /\ (e # Establish(c) \/ ~Occurs(Establish(c), s))
           => AtMostOnce(Establish(c), t)
      /\ Precedes(Establish(c), Destroy(c), s)
           /\ (e # Establish(c) \/ ~Occurs(Destroy(c), s))
           => Precedes(Establish(c), Destroy(c), t)
  BY <1>1, InAppended
<1> HIDE DEF t
<1>6. ASSUME Followed(c, s), e # HighWater(c)
      PROVE  Followed(c, t)
  <2> SUFFICES ASSUME NEW i \in 1 .. Len(t), t[i] = HighWater(c)
               PROVE  \E j \in 1 .. Len(t) : i < j /\ t[j] = WriteComplete(c)
    BY DEF Followed
  <2>1. i \in 1 .. Len(s) /\ s[i] = HighWater(c)
    BY <1>2, <1>3, <1>6
  <2>2. PICK j \in 1 .. Len(s) : i < j /\ s[j] = WriteComplete(c)
    BY <1>6, <2>1 DEF Followed
  <2>3. QED
    BY <1>2, <1>3, <2>2
<1>7. ASSUME e = WriteComplete(c)
      PROVE  Followed(c, t)
  <2> SUFFICES ASSUME NEW i \in 1 .. Len(t), t[i] = HighWater(c)
               PROVE  \E j \in 1 .. Len(t) : i < j /\ t[j] = WriteComplete(c)
    BY DEF Followed
  <2>1. i # Len(s) + 1
    BY <1>1, <1>2, <1>7
  <2>2. QED
    BY <1>2, <1>3, <1>7, <2>1
<1>8. QED
  BY <1>4, <1>5, <1>6, <1>7 DEF t

(* What running the first functor of s changes for connection c.           *)
LEMMA LineRun ==
  ASSUME NEW s \in Seq(FunctorType), s # <<>>, NEW c \in Conns
  PROVE  LET t == Tail(s)
         IN  /\ \A f : Occurs(f, s) <=> Occurs(f, t) \/ f = Head(s)
             /\ AtMostOnce(Establish(c), s) =>
                  /\ AtMostOnce(Establish(c), t)
                  /\ Head(s) = Establish(c) => ~Occurs(Establish(c), t)
             /\ Precedes(Establish(c), Destroy(c), s) =>
                  /\ Precedes(Establish(c), Destroy(c), t)
                  /\ Head(s) = Destroy(c) => ~Occurs(Establish(c), s)
             /\ Followed(c, s) =>
                  /\ Followed(c, t)
                  /\ Head(s) = HighWater(c) => Occurs(WriteComplete(c), t)
<1> DEFINE t == Tail(s)
<1>1. Len(s) \in Nat \ {0} /\ Len(t) = Len(s) - 1 /\ Head(s) = s[1]
  BY EmptySeq, HeadTailProperties
<1>2. /\ \A i \in 1 .. Len(t) : t[i] = s[i + 1] /\ i + 1 \in 1 .. Len(s)
      /\ \A i \in 1 .. Len(s) : 1 < i => i - 1 \in 1 .. Len(t) /\ t[i - 1] = s[i]
      /\ 1 \in 1 .. Len(s)
  BY <1>1, HeadTailProperties
<1>3. \A f : Occurs(f, s) <=> Occurs(f, t) \/ f = Head(s)
  BY InTail
<1>4. AtMostOnce(Establish(c), s) =>
        AtMostOnce(Establish(c), t) /\ (Head(s) = Establish(c) => ~Occurs(Establish(c), t))
  BY InTail
<1>5. Precedes(Establish(c), Destroy(c), s) =>
        Precedes(Establish(c), Destroy(c), t) /\ (Head(s) = Destroy(c) => ~Occurs(Establish(c), s))
  BY InTail
<1> HIDE DEF t
<1>6. ASSUME Followed(c, s)
      PROVE  Followed(c, t)
  <2> SUFFICES ASSUME NEW i \in 1 .. Len(t), t[i] = HighWater(c)
               PROVE  \E j \in 1 .. Len(t) : i < j /\ t[j] = WriteComplete(c)
    BY DEF Followed
  <2>1. PICK j \in 1 .. Len(s) : i + 1 < j /\ s[j] = WriteComplete(c)
    BY <1>2, <1>6 DEF Followed
  <2>2. j - 1 \in 1 .. Len(t) /\ t[j - 1] = WriteComplete(c) /\ i < j - 1
    BY <1>2, <2>1
  <2>3. QED
    BY <2>2
<1>7. ASSUME Followed(c, s), Head(s) = HighWater(c)
      PROVE  Occurs(WriteComplete(c), t)
  BY <1>1, <1>2, <1>7 DEF Followed, Occurs
<1>8. QED
  BY <1>3, <1>4, <1>5, <1>6, <1>7 DEF t

(* What queueing connectDestroyed for many changes for connection c.       *)
LEMMA LineJoined ==
  ASSUME NEW s \in Seq(FunctorType), NEW u \in Seq(FunctorType), NEW c \in Conns,
         \A i \in 1 .. Len(u) : \E d \in Conns : u[i] = Destroy(d)
  PROVE  LET t == s \o u
         IN  /\ \A f : Occurs(f, t) <=> Occurs(f, s) \/ Occurs(f, u)
             /\ AtMostOnce(Establish(c), s) => AtMostOnce(Establish(c), t)
             /\ Precedes(Establish(c), Destroy(c), s) =>
                  Precedes(Establish(c), Destroy(c), t)
             /\ Followed(c, s) => Followed(c, t)
<1> DEFINE t == s \o u
<1>1. /\ Len(s) \in Nat /\ Len(u) \in Nat /\ Len(t) = Len(s) + Len(u)
      /\ \A i \in 1 .. Len(s) : t[i] = s[i]
      /\ \A i \in 1 .. Len(u) : t[Len(s) + i] = u[i]
  BY LenProperties, ConcatProperties
<1>2. /\ 1 .. Len(s) \subseteq 1 .. Len(t)
      /\ \A i \in 1 .. Len(u) : Len(s) + i \in 1 .. Len(t)
      /\ \A i \in 1 .. Len(t) : i \notin 1 .. Len(s) =>
           i - Len(s) \in 1 .. Len(u) /\ Len(s) + (i - Len(s)) = i
      /\ \A i \in 1 .. Len(s), j \in 1 .. Len(t) : j \notin 1 .. Len(s) => i < j
  BY <1>1
<1> HIDE DEF t
<1>3. \A i \in 1 .. Len(t) : i \notin 1 .. Len(s) =>
        t[i] # Establish(c) /\ t[i] # HighWater(c)
  <2> SUFFICES ASSUME NEW i \in 1 .. Len(t), i \notin 1 .. Len(s)
               PROVE  t[i] # Establish(c) /\ t[i] # HighWater(c)
    OBVIOUS
  <2>1. i - Len(s) \in 1 .. Len(u) /\ t[i] = u[i - Len(s)]
    BY <1>1, <1>2
  <2>2. PICK d \in Conns : t[i] = Destroy(d)
    BY <2>1
  <2>3. QED
    BY <2>2 DEF Destroy, Establish, HighWater, Functor
<1>4. \A f : Occurs(f, t) <=> Occurs(f, s) \/ Occurs(f, u)
  <2> SUFFICES ASSUME NEW f
               PROVE  Occurs(f, t) <=> Occurs(f, s) \/ Occurs(f, u)
    OBVIOUS
  <2>1. ASSUME Occurs(f, t)
        PROVE  Occurs(f, s) \/ Occurs(f, u)
    <3>1. PICK i \in 1 .. Len(t) : t[i] = f
      BY <2>1 DEF Occurs
    <3>2. CASE i \in 1 .. Len(s)
      BY <1>1, <3>1, <3>2 DEF Occurs
    <3>3. CASE i \notin 1 .. Len(s)
      <4>1. i - Len(s) \in 1 .. Len(u) /\ t[i] = u[i - Len(s)]
        BY <1>1, <1>2, <3>3
      <4>2. QED
        BY <3>1, <4>1 DEF Occurs
    <3>4. QED
      BY <3>2, <3>3
  <2>2. ASSUME Occurs(f, s) \/ Occurs(f, u)
        PROVE  Occurs(f, t)
    BY <1>1, <1>2, <2>2 DEF Occurs
  <2>3. QED
    BY <2>1, <2>2
<1>5. AtMostOnce(Establish(c), s) => AtMostOnce(Establish(c), t)
  BY <1>1, <1>3 DEF AtMostOnce
<1>6. Precedes(Establish(c), Destroy(c), s) => Precedes(Establish(c), Destroy(c), t)
  BY <1>1, <1>2, <1>3 DEF Precedes
<1>7. ASSUME Followed(c, s)
      PROVE  Followed(c, t)
  <2> SUFFICES ASSUME NEW i \in 1 .. Len(t), t[i] = HighWater(c)
               PROVE  \E j \in 1 .. Len(t) : i < j /\ t[j] = WriteComplete(c)
    BY DEF Followed
  <2>1. i \in 1 .. Len(s) /\ s[i] = HighWater(c)
    BY <1>1, <1>3
  <2>2. PICK j \in 1 .. Len(s) : i < j /\ s[j] = WriteComplete(c)
    BY <1>7, <2>1 DEF Followed
  <2>3. QED
    BY <1>1, <1>2, <2>2
<1>8. QED
  BY <1>4, <1>5, <1>6, <1>7 DEF t

-----------------------------------------------------------------------------
(***************************************************************************)
(* What the io loop has to run, step by step.                              *)
(***************************************************************************)

LEMMA ToRunIsSeq ==
  ASSUME Types
  PROVE  ToRun \in Seq(FunctorType)
<1>1. /\ batch \in Seq(FunctorType) /\ ioQueue \in Seq(FunctorType)
      /\ ran \in Nat /\ ran <= Len(batch)
  BY LenProperties DEF Types
<1>2. SubSeq(batch, ran + 1, Len(batch)) \in Seq(FunctorType)
  BY <1>1, LenProperties, PartOfSeq
<1>3. QED
  BY <1>1, <1>2, ConcatProperties DEF ToRun

(* queueInLLoop puts a functor behind all that there is to run.            *)
LEMMA ToRunQueued ==
  ASSUME Types, NEW f \in FunctorType, ioQueue' = Append(ioQueue, f),
         UNCHANGED <<batch, ran>>
  PROVE  ToRun' = Append(ToRun, f)
<1> DEFINE rest == SubSeq(batch, ran + 1, Len(batch))
<1>1. rest \in Seq(FunctorType) /\ ioQueue \in Seq(FunctorType)
  BY LenProperties, PartOfSeq DEF Types
<1>2. ToRun = rest \o ioQueue /\ ToRun' = rest \o Append(ioQueue, f)
  BY DEF ToRun
<1> HIDE DEF rest
<1>3. QED
  BY <1>1, <1>2, AppendToJoined

(* Several are put there in their order.                                   *)
LEMMA ToRunJoined ==
  ASSUME Types, NEW u \in Seq(FunctorType), ioQueue' = ioQueue \o u,
         UNCHANGED <<batch, ran>>
  PROVE  ToRun' = ToRun \o u
<1> DEFINE rest == SubSeq(batch, ran + 1, Len(batch))
<1>1. rest \in Seq(FunctorType) /\ ioQueue \in Seq(FunctorType)
  BY LenProperties, PartOfSeq DEF Types
<1>2. ToRun = rest \o ioQueue /\ ToRun' = rest \o (ioQueue \o u)
  BY DEF ToRun
<1> HIDE DEF rest
<1>3. rest \o (ioQueue \o u) = (rest \o ioQueue) \o u
  BY <1>1, ConcatAssociative
<1>4. QED
  BY <1>2, <1>3

(* The swap changes nothing in it, nor does the end of the batch.          *)
LEMMA ToRunSwapped ==
  ASSUME Types, Round, SwapPendingFunctors
  PROVE  ToRun' = ToRun
<1>1. /\ batch = <<>> /\ ran = 0 /\ ioQueue \in Seq(FunctorType)
      /\ batch' = ioQueue /\ ioQueue' = <<>> /\ ran' = 0
  BY DEF SwapPendingFunctors, Types, Round
<1>2. ToRun = SubSeq(<<>>, 1, Len(<<>>)) \o ioQueue
  BY <1>1 DEF ToRun
<1>3. ToRun' = SubSeq(ioQueue, 1, Len(ioQueue)) \o <<>>
  BY <1>1 DEF ToRun
<1>4. QED
  BY <1>1, <1>2, <1>3, WholeBatch

LEMMA ToRunEnded ==
  ASSUME Types, EndPendingFunctors
  PROVE  ToRun' = ToRun
<1>1. /\ batch \in Seq(FunctorType) /\ ran = Len(batch) /\ ioQueue' = ioQueue
      /\ batch' = <<>> /\ ran' = 0
  BY DEF EndPendingFunctors, Types
<1>2. ToRun = SubSeq(batch, Len(batch) + 1, Len(batch)) \o ioQueue
  BY <1>1 DEF ToRun
<1>3. ToRun' = SubSeq(<<>>, 1, Len(<<>>)) \o ioQueue
  BY <1>1 DEF ToRun
<1>4. QED
  BY <1>1, <1>2, <1>3, WholeBatch

(* The functor that is run is the first, and what it queues is the last.   *)
LEMMA ToRunRun ==
  ASSUME Types, ran < Len(batch), ran' = ran + 1, batch' = batch
  PROVE  /\ batch[ran + 1] \in FunctorType
         /\ ToRun # <<>> /\ Head(ToRun) = batch[ran + 1]
         /\ Tail(ToRun) \in Seq(FunctorType)
         /\ ioQueue' = ioQueue => ToRun' = Tail(ToRun)
         /\ \A g \in FunctorType :
              ioQueue' = Append(ioQueue, g) => ToRun' = Append(Tail(ToRun), g)
<1> DEFINE rest == SubSeq(batch, ran + 1 + 1, Len(batch))
<1>1. /\ batch \in Seq(FunctorType) /\ ioQueue \in Seq(FunctorType)
      /\ ran \in Nat
  BY DEF Types
<1>2. /\ batch[ran + 1] \in FunctorType
      /\ ToRun # <<>> /\ Head(ToRun) = batch[ran + 1]
      /\ Tail(ToRun) \in Seq(FunctorType)
      /\ Tail(ToRun) = rest \o ioQueue
  BY <1>1, NextOfBatch DEF ToRun
<1>3. ToRun' = rest \o ioQueue'
  BY DEF ToRun
<1>4. rest \in Seq(FunctorType)
  <2>1. ran + 1 \in Nat /\ ran + 1 <= Len(batch) /\ Len(batch) \in Nat
    BY <1>1, LenProperties
  <2>2. QED
    BY <1>1, <2>1, PartOfSeq
<1> HIDE DEF rest
<1>5. ASSUME NEW g \in FunctorType, ioQueue' = Append(ioQueue, g)
      PROVE  ToRun' = Append(Tail(ToRun), g)
  <2>1. rest \o Append(ioQueue, g) = Append(rest \o ioQueue, g)
    BY <1>1, <1>4, AppendToJoined
  <2>2. QED
    BY <1>2, <1>3, <1>5, <2>1
<1>6. QED
  BY <1>2, <1>3, <1>5

-----------------------------------------------------------------------------
(***************************************************************************)
(* Shared pointers bound in functors.                                      *)
(***************************************************************************)

LEMMA HeldByOccurs ==
  ASSUME NEW q \in Seq(FunctorType), NEW c
  PROVE  HeldBy(q, c) <=> \E f \in FunctorType :
                            Occurs(f, q) /\ f.run \in Strong /\ f.conn = c
<1>1. \A f : f \in ToSet(q) <=> Occurs(f, q)
  BY DEF ToSet, Occurs
<1>2. \A f : Occurs(f, q) => f \in FunctorType
  BY ElementOfSeq DEF Occurs
<1>3. QED
  BY <1>1, <1>2 DEF HeldBy

LEMMA HeldByAppended ==
  ASSUME NEW q \in Seq(FunctorType), NEW f \in FunctorType, NEW c
  PROVE  HeldBy(Append(q, f), c) <=> HeldBy(q, c) \/ (f.run \in Strong /\ f.conn = c)
<1>1. Append(q, f) \in Seq(FunctorType)
  BY AppendProperties
<1>2. \A g : Occurs(g, Append(q, f)) <=> Occurs(g, q) \/ g = f
  BY InAppended
<1>3. QED
  BY <1>1, <1>2, HeldByOccurs

LEMMA HeldByTail ==
  ASSUME NEW q \in Seq(FunctorType), q # <<>>, NEW c
  PROVE  /\ HeldBy(Tail(q), c) => HeldBy(q, c)
         /\ Head(q) \in FunctorType /\ Tail(q) \in Seq(FunctorType)
         /\ Head(q).run \in Strong => HeldBy(q, Head(q).conn)
<1>1. Head(q) \in FunctorType /\ Tail(q) \in Seq(FunctorType)
  BY HeadTailProperties
<1>2. \A f : Occurs(f, q) <=> Occurs(f, Tail(q)) \/ f = Head(q)
  BY InTail
<1>3. QED
  BY <1>1, <1>2, HeldByOccurs

LEMMA HeldByEmpty == \A c : ~HeldBy(<<>>, c)
<1>1. \A f : ~Occurs(f, <<>>)
  BY InEmpty
<1>2. QED
  BY <1>1, HeldByOccurs, EmptySeq

(* A functor that is yet to run holds its connection, if it is a strong one. *)
LEMMA PendingHolds ==
  ASSUME Types, NEW f \in FunctorType, f.run \in Strong, Pending(f) \/ Occurs(f, baseQueue)
  PROVE  Referenced(f.conn)
<1>1. /\ batch \in Seq(FunctorType) /\ ioQueue \in Seq(FunctorType)
      /\ baseQueue \in Seq(FunctorType) /\ ran \in 0 .. Len(batch)
  BY DEF Types
<1>2. CASE Occurs(f, baseQueue)
  BY <1>1, <1>2, HeldByOccurs DEF Referenced
<1>3. CASE Pending(f)
  <2> DEFINE rest == SubSeq(batch, ran + 1, Len(batch))
  <2>1. /\ rest \in Seq(FunctorType) /\ Len(rest) = Len(batch) - ran
        /\ \A i \in 1 .. Len(batch) - ran : rest[i] = batch[ran + i]
    BY <1>1, LenProperties, PartOfSeq
  <2>2. PICK i \in 1 .. Len(ToRun) : ToRun[i] = f
    BY <1>3 DEF Pending, Occurs
  <2>3. ToRun = rest \o ioQueue
    BY DEF ToRun
  <2> HIDE DEF rest
  <2>4. /\ Len(rest) \in Nat /\ Len(ioQueue) \in Nat /\ Len(batch) \in Nat
        /\ Len(ToRun) = Len(rest) + Len(ioQueue)
        /\ i <= Len(rest) => ToRun[i] = rest[i]
        /\ i > Len(rest) => ToRun[i] = ioQueue[i - Len(rest)]
    <3>1. /\ Len(rest) \in Nat /\ Len(ioQueue) \in Nat /\ Len(batch) \in Nat
          /\ Len(ToRun) = Len(rest) + Len(ioQueue)
      BY <1>1, <2>1, <2>3, ConcatProperties, LenProperties
    <3>2. \A j \in 1 .. Len(rest) + Len(ioQueue) :
            ToRun[j] = IF j <= Len(rest) THEN rest[j] ELSE ioQueue[j - Len(rest)]
      BY <1>1, <2>1, <2>3, ConcatProperties
    <3>3. QED
      BY <3>1, <3>2
  <2>5. CASE i <= Len(rest)
    <3>1. ran + i \in 1 .. Len(batch) /\ batch[ran + i] = f
      BY <1>1, <2>1, <2>2, <2>4, <2>5
    <3>2. QED
      BY <1>1, <3>1, HeldByOccurs DEF Referenced, Occurs
  <2>6. CASE i > Len(rest)
    <3>1. i - Len(rest) \in 1 .. Len(ioQueue) /\ ioQueue[i - Len(rest)] = f
      BY <2>2, <2>4, <2>6
    <3>2. QED
      BY <1>1, <3>1, HeldByOccurs DEF Referenced, Occurs
  <2>7. QED
    BY <2>2, <2>4, <2>5, <2>6
<1>4. QED
  BY <1>2, <1>3

-----------------------------------------------------------------------------
(***************************************************************************)
(* Channel and EpollPoller, for one connection.                            *)
(***************************************************************************)

(* What index_ and the interest list become.                               *)
IndexAfter(p, c, E) ==
  IF p.index[c] = "added" /\ E = {} THEN "deleted" ELSE "added"

InterestAfter(p, c, E) ==
  IF IndexAfter(p, c, E) = "added" THEN [ptr |-> c, events |-> E] ELSE None

(* Channel::update reaches the right epoll_ctl, which the kernel accepts.  *)
LEMMA SetEventsEffect ==
  ASSUME NEW p \in PollerType, NEW c \in Conns, NEW E \in SUBSET Events,
         p.fd[c] = c, p.index[c] = "added" <=> p.interest[c] # None,
         p.index[c] # "new" => p.channels[c] = c
  PROVE  LET q == SetEvents(p, c, E)
         IN  /\ q \in PollerType
             /\ q.fd = p.fd
             /\ q.events = [p.events EXCEPT ![c] = E]
             /\ q.index = [p.index EXCEPT ![c] = IndexAfter(p, c, E)]
             /\ q.channels = [p.channels EXCEPT ![c] = c]
             /\ q.interest = [p.interest EXCEPT ![c] = InterestAfter(p, c, E)]
             /\ q.failed = p.failed
<1> USE TcpConnectionAssumption DEF IndexAfter, InterestAfter
<1>1. [ptr |-> c, events |-> E] \in EpollEvent
  BY DEF EpollEvent
<1>2. CASE p.index[c] = "new"
  BY <1>1, <1>2 DEF SetEvents, UpdateChannel, Ctl, PollerType
<1>3. CASE p.index[c] = "deleted"
  <2>1. p.channels = [p.channels EXCEPT ![c] = c]
    BY <1>3 DEF PollerType
  <2>2. QED
    BY <1>1, <1>3, <2>1 DEF SetEvents, UpdateChannel, Ctl, PollerType
<1>4. CASE p.index[c] = "added" /\ E # {}
  <2>1. /\ p.channels = [p.channels EXCEPT ![c] = c]
        /\ p.index = [p.index EXCEPT ![c] = "added"]
    BY <1>4 DEF PollerType
  <2>2. QED
    BY <1>1, <1>4, <2>1 DEF SetEvents, UpdateChannel, Ctl, PollerType
<1>5. CASE p.index[c] = "added" /\ E = {}
  <2>1. p.channels = [p.channels EXCEPT ![c] = c]
    BY <1>5 DEF PollerType
  <2>2. QED
    BY <1>1, <1>5, <2>1 DEF SetEvents, UpdateChannel, Ctl, PollerType
<1>6. p.index[c] \in {"new", "added", "deleted"}
  BY DEF PollerType
<1>7. QED
  BY <1>2, <1>3, <1>4, <1>5, <1>6

(* No other connection's channel is touched.                               *)
OthersKept(p, q, c) ==
  \A d \in Conns \ {c} :
    /\ q.fd[d] = p.fd[d] /\ q.events[d] = p.events[d] /\ q.index[d] = p.index[d]
    /\ q.channels[d] = p.channels[d] /\ q.interest[d] = p.interest[d]

LEMMA SetEventsRow ==
  ASSUME NEW p \in PollerType, NEW c \in Conns, NEW E \in SUBSET Events,
         p.fd[c] = c, p.index[c] = "added" <=> p.interest[c] # None,
         p.index[c] # "new" => p.channels[c] = c
  PROVE  LET q == SetEvents(p, c, E)
         IN  /\ q \in PollerType /\ q.failed = p.failed
             /\ q.fd[c] = c /\ q.events[c] = E /\ q.channels[c] = c
             /\ q.index[c] = IndexAfter(p, c, E)
             /\ q.interest[c] # None =>
                  q.interest[c] = [ptr |-> c, events |-> E]
             /\ q.index[c] = "added" <=> q.interest[c] # None
             /\ OthersKept(p, q, c)
<1> DEFINE q == SetEvents(p, c, E)
           e == [ptr |-> c, events |-> E]
<1>1. /\ q \in PollerType
      /\ q.fd = p.fd
      /\ q.events = [p.events EXCEPT ![c] = E]
      /\ q.index = [p.index EXCEPT ![c] = IndexAfter(p, c, E)]
      /\ q.channels = [p.channels EXCEPT ![c] = c]
      /\ q.interest = [p.interest EXCEPT ![c] = InterestAfter(p, c, E)]
      /\ q.failed = p.failed
  BY SetEventsEffect
<1>2. e \in EpollEvent /\ e # None
  BY TcpConnectionAssumption DEF EpollEvent
<1>3. /\ p.fd \in [Conns -> Conns \cup {None}] /\ p.events \in [Conns -> SUBSET Events]
      /\ p.index \in [Conns -> {"new", "added", "deleted"}]
      /\ p.channels \in [Conns -> Conns \cup {None}]
      /\ p.interest \in [Conns -> EpollEvent \cup {None}]
  BY DEF PollerType
<1> HIDE DEF q, e, IndexAfter, InterestAfter
<1>4. OthersKept(p, q, c)
  BY <1>1, <1>3 DEF OthersKept
<1>5. /\ q.fd[c] = c /\ q.events[c] = E /\ q.channels[c] = c /\ q.index[c] = IndexAfter(p, c, E)
      /\ q.interest[c] = InterestAfter(p, c, E)
  BY <1>1, <1>3
<1>6. QED
  BY <1>1, <1>2, <1>4, <1>5 DEF q, e, IndexAfter, InterestAfter

(* enableReading() on a new channel.                                       *)
LEMMA EnableReadingRow ==
  ASSUME NEW p \in PollerType, NEW c \in Conns,
         p.fd[c] = c, p.index[c] = "new", p.interest[c] = None, p.events[c] = {}
  PROVE  LET q == EnableReading(p, c)
         IN  /\ q \in PollerType /\ q.failed = p.failed
             /\ q.fd[c] = c /\ q.events[c] = {"read"} /\ q.channels[c] = c
             /\ q.index[c] = "added"
             /\ q.interest[c] = [ptr |-> c, events |-> q.events[c]]
             /\ q.interest[c] # None
             /\ OthersKept(p, q, c)
<1> DEFINE E == p.events[c] \cup {"read"}
           q == SetEvents(p, c, E)
<1>1. E = {"read"} /\ E \in SUBSET Events /\ EnableReading(p, c) = q
  BY DEF EnableReading, Events
<1> HIDE DEF E
<1>2. /\ q \in PollerType /\ q.failed = p.failed
      /\ q.fd[c] = c /\ q.events[c] = E /\ q.channels[c] = c
      /\ q.index[c] = IndexAfter(p, c, E)
      /\ q.interest[c] # None => q.interest[c] = [ptr |-> c, events |-> E]
      /\ q.index[c] = "added" <=> q.interest[c] # None
      /\ OthersKept(p, q, c)
  <2>1. /\ p.index[c] = "added" <=> p.interest[c] # None
        /\ p.index[c] # "new" => p.channels[c] = c
    OBVIOUS
  <2>2. E \in SUBSET Events
    BY <1>1
  <2>3. QED
    BY <2>1, <2>2, SetEventsRow
<1>3. IndexAfter(p, c, E) = "added"
  BY DEF IndexAfter
<1> HIDE DEF q
<1>4. QED
  BY <1>1, <1>2, <1>3

(* EpollPoller::removeChannel forgets the channel, in whatever state.      *)
LEMMA RemoveEffect ==
  ASSUME NEW p \in PollerType, NEW c \in Conns,
         p.fd[c] = c, p.index[c] = "added" <=> p.interest[c] # None,
         p.index[c] # "new" <=> p.channels[c] = c,
         p.channels[c] \in {c, None}
  PROVE  LET q == RemoveChannel(p, c)
         IN  /\ q \in PollerType
             /\ q.fd = p.fd
             /\ q.events = p.events
             /\ q.index = [p.index EXCEPT ![c] = "new"]
             /\ q.channels = [p.channels EXCEPT ![c] = None]
             /\ q.interest = [p.interest EXCEPT ![c] = None]
             /\ q.failed = p.failed
<1> USE TcpConnectionAssumption
<1>1. CASE p.channels[c] = None
  <2>1. p.index[c] = "new" /\ p.interest[c] = None
    BY <1>1
  <2>2. QED
    BY <1>1, <2>1 DEF RemoveChannel, PollerType
<1>2. CASE p.channels[c] = c /\ p.index[c] = "added"
  BY <1>2 DEF RemoveChannel, Ctl, PollerType
<1>3. CASE p.channels[c] = c /\ p.index[c] # "added"
  <2>1. p.interest[c] = None /\ p.interest = [p.interest EXCEPT ![c] = None]
    BY <1>3 DEF PollerType
  <2>2. QED
    BY <1>3, <2>1 DEF RemoveChannel, Ctl, PollerType
<1>4. QED
  BY <1>1, <1>2, <1>3

LEMMA RemoveRow ==
  ASSUME NEW p \in PollerType, NEW c \in Conns,
         p.fd[c] = c, p.index[c] = "added" <=> p.interest[c] # None,
         p.index[c] # "new" <=> p.channels[c] = c,
         p.channels[c] \in {c, None}
  PROVE  LET q == RemoveChannel(p, c)
         IN  /\ q \in PollerType /\ q.failed = p.failed
             /\ q.fd[c] = c /\ q.events[c] = p.events[c] /\ q.index[c] = "new"
             /\ q.channels[c] = None /\ q.interest[c] = None
             /\ OthersKept(p, q, c)
<1> DEFINE q == RemoveChannel(p, c)
<1>1. /\ q \in PollerType
      /\ q.fd = p.fd
      /\ q.events = p.events
      /\ q.index = [p.index EXCEPT ![c] = "new"]
      /\ q.channels = [p.channels EXCEPT ![c] = None]
      /\ q.interest = [p.interest EXCEPT ![c] = None]
      /\ q.failed = p.failed
  BY RemoveEffect
<1>2. /\ p.fd \in [Conns -> Conns \cup {None}] /\ p.events \in [Conns -> SUBSET Events]
      /\ p.index \in [Conns -> {"new", "added", "deleted"}]
      /\ p.channels \in [Conns -> Conns \cup {None}]
      /\ p.interest \in [Conns -> EpollEvent \cup {None}]
  BY DEF PollerType
<1> HIDE DEF q
<1>3. QED
  BY <1>1, <1>2 DEF OthersKept, q

-----------------------------------------------------------------------------
(***************************************************************************)
(* Steps that leave a connection alone, or take nothing from it that the   *)
(* invariant speaks of.                                                    *)
(***************************************************************************)

SameRow(d) ==
  /\ poller'.fd[d] = poller.fd[d] /\ poller'.events[d] = poller.events[d]
  /\ poller'.index[d] = poller.index[d] /\ poller'.channels[d] = poller.channels[d]
  /\ poller'.interest[d] = poller.interest[d]
  /\ state'[d] = state[d] /\ output'[d] = output[d]
  /\ net'[d].shut = net[d].shut
  /\ callbacks'[d] = callbacks[d]

SameUse(d) ==
  /\ userPc'[d] = userPc[d]
  /\ d \in userRef' => d \in userRef
  /\ d \in userRef /\ userPc[d] # "idle" => d \in userRef'
  /\ d \in paused' <=> d \in paused
  /\ d \in connections' <=> d \in connections
  /\ serverUp' => serverUp
  /\ Referenced(d)' => Referenced(d)

SameRound(d) ==
  /\ d \in active' => d \in active
  /\ handling' = d => handling = d \/ d \in active
  /\ d \in active' \/ handling' = d =>
       /\ revents'[d] \cap {"IN", "MSG"} # {} => revents[d] \cap {"IN", "MSG"} # {}
       /\ revents'[d] \cap {"IN", "MSG", "HUP"} # {} =>
            revents[d] \cap {"IN", "MSG", "HUP"} # {}

SameLine(d) ==
  /\ \A f \in FunctorType : f.conn = d /\ Pending(f)' => Pending(f)
  /\ \A f \in {Destroy(d), WriteComplete(d)} : Pending(f) => Pending(f)'
  /\ AtMostOnce(Establish(d), ToRun) => AtMostOnce(Establish(d), ToRun)'
  /\ Precedes(Establish(d), Destroy(d), ToRun) =>
       Precedes(Establish(d), Destroy(d), ToRun)'
  /\ Followed(d, ToRun) => Followed(d, ToRun)'

SameBase(d) ==
  \A f \in FunctorType : f.conn = d /\ Occurs(f, baseQueue)' => Occurs(f, baseQueue)

Same(d) == SameRow(d) /\ SameUse(d) /\ SameRound(d) /\ SameLine(d) /\ SameBase(d)

LEMMA SameHolds ==
  ASSUME NEW d \in Conns, ConnInv(d), Same(d)
  PROVE  ConnInv(d)'
<1> USE DEF Same
<1>1. Accepted(d)' <=> Accepted(d)
  BY DEF SameRow, Accepted
<1>2. Held(d)'
  BY <1>1 DEF ConnInv, Held, SameUse
<1>3. Table(d)'
  BY <1>1 DEF ConnInv, Table, SameRow
<1>4. Life(d)'
  <2>1. Begun(d)' => Begun(d)
    BY DEF Begun, SameRow, SameUse, SameRound, SameLine, SameBase
  <2>2. Pending(Establish(d))' => Pending(Establish(d))
    BY NamedFunctors DEF SameLine
  <2>3. QED
    BY <2>1, <2>2 DEF ConnInv, Life, SameRow, SameLine
<1>5. Watch(d)'
  BY <1>1 DEF ConnInv, Watch, SameRow, SameRound, IsWriting
<1>6. Flow(d)'
  <2>1. Pending(HighWater(d))' => Pending(HighWater(d))
    BY NamedFunctors DEF SameLine
  <2>2. Pending(WriteComplete(d)) => Pending(WriteComplete(d))'
    BY DEF SameLine
  <2>3. QED
    BY <1>1, <2>1, <2>2 DEF ConnInv, Flow, SameRow, SameUse, SameLine
<1>7. Served(d)'
  <2>1. Pending(RemoveInPool(d))' => Pending(RemoveInPool(d))
    BY NamedFunctors DEF SameLine
  <2>2. QED
    BY <2>1 DEF ConnInv, Served, SameRow, SameUse, SameBase
<1>8. ASSUME NoThreadSends
      PROVE  Strict(d)'
  <2>1. /\ Pending(Establish(d))' => Pending(Establish(d))
        /\ Pending(Functor("sendInLoop", d))' => Pending(Functor("sendInLoop", d))
        /\ Pending(Functor("shutdownInLoop", d))' => Pending(Functor("shutdownInLoop", d))
    BY NamedFunctors DEF SameLine
  <2>2. Pending(Destroy(d)) => Pending(Destroy(d))'
    BY DEF SameLine
  <2>3. Strict(d)
    BY <1>8 DEF ConnInv
  <2>4. QED
    BY <2>1, <2>2, <2>3 DEF Strict, SameRow, SameUse, SameRound, IsWriting
<1>9. NoThreadSends' <=> NoThreadSends
  BY DEF NoThreadSends
<1>10. QED
  BY <1>2, <1>3, <1>4, <1>5, <1>6, <1>7, <1>8, <1>9 DEF ConnInv

(* The lines of functors.                                                  *)
LEMMA LineKept ==
  ASSUME ToRun' = ToRun, NEW d
  PROVE  SameLine(d)
BY DEF SameLine, Pending

LEMMA LineQueued ==
  ASSUME Types, NEW f \in FunctorType, ToRun' = Append(ToRun, f),
         NEW d \in Conns, f.conn # d
  PROVE  SameLine(d)
<1>1. f \notin {Establish(d), Destroy(d), HighWater(d), WriteComplete(d)}
  BY NamedFunctors
<1>2. QED
  BY <1>1, ToRunIsSeq, LineAppended DEF SameLine, Pending

LEMMA LineTaken ==
  ASSUME Types, ToRun # <<>>, ToRun' = Tail(ToRun), NEW d \in Conns,
         Head(ToRun) \notin {Destroy(d), WriteComplete(d)}
  PROVE  SameLine(d)
BY ToRunIsSeq, LineRun DEF SameLine, Pending

LEMMA LineTakenQueued ==
  ASSUME Types, ToRun # <<>>, NEW g \in FunctorType, ToRun' = Append(Tail(ToRun), g),
         NEW d \in Conns, Head(ToRun) \notin {Destroy(d), WriteComplete(d)}, g.conn # d
  PROVE  SameLine(d)
<1> DEFINE t == Tail(ToRun)
<1>1. g \notin {Establish(d), Destroy(d), HighWater(d), WriteComplete(d)}
  BY NamedFunctors
<1>2. t \in Seq(FunctorType)
  BY ToRunIsSeq, HeadTailProperties
<1>3. /\ \A f : Occurs(f, ToRun) <=> Occurs(f, t) \/ f = Head(ToRun)
      /\ AtMostOnce(Establish(d), ToRun) => AtMostOnce(Establish(d), t)
      /\ Precedes(Establish(d), Destroy(d), ToRun) => Precedes(Establish(d), Destroy(d), t)
      /\ Followed(d, ToRun) => Followed(d, t)
  BY ToRunIsSeq, LineRun
<1> HIDE DEF t
<1>4. /\ \A f : Occurs(f, ToRun') <=> Occurs(f, t) \/ f = g
      /\ AtMostOnce(Establish(d), t) => AtMostOnce(Establish(d), ToRun')
      /\ Precedes(Establish(d), Destroy(d), t) => Precedes(Establish(d), Destroy(d), ToRun')
      /\ Followed(d, t) => Followed(d, ToRun')
  BY <1>1, <1>2, LineAppended DEF t
<1>5. QED
  BY <1>1, <1>3, <1>4 DEF SameLine, Pending

-----------------------------------------------------------------------------
(***************************************************************************)
(* The initial state, and steps that are light on every connection.        *)
(***************************************************************************)

LEMMA InitHolds == Init => IInv
<1> SUFFICES ASSUME Init
             PROVE  IInv
  OBVIOUS
<1> USE TcpConnectionAssumption DEF Init, NewPoller
<1>1. ToRun = <<>>
  BY WholeBatch, EmptySeq DEF ToRun
<1>2. \A f : ~Pending(f) /\ ~Occurs(f, baseQueue)
  BY <1>1, InEmpty DEF Pending
<1>3. poller \in PollerType
  BY DEF PollerType
<1>4. Types
  BY <1>3, EmptySeq, FS_EmptySet, LenProperties DEF Types
<1>5. Round /\ ~poller.failed
  BY DEF Round
<1>6. ASSUME NEW c \in Conns
      PROVE  ConnInv(c)
  <2>1. Held(c)
    BY HeldByEmpty DEF Held, Referenced
  <2>2. Table(c)
    BY DEF Table, Accepted
  <2>3. Life(c)
    BY <1>1, <1>2, InEmpty DEF Life, Begun
  <2>4. Watch(c)
    BY DEF Watch
  <2>5. Flow(c)
    BY <1>2 DEF Flow, Accepted
  <2>6. Served(c)
    BY <1>2 DEF Served
  <2>7. Strict(c)
    BY <1>2 DEF Strict
  <2>8. QED
    BY <2>1, <2>2, <2>3, <2>4, <2>5, <2>6, <2>7 DEF ConnInv
<1>7. QED
  BY <1>4, <1>5, <1>6 DEF IInv

LEMMA LightStep ==
  ASSUME IInv, Types', Round', poller'.failed = poller.failed,
         \A d \in Conns : Same(d)
  PROVE  IInv'
BY SameHolds DEF IInv

(* Nothing of the poller, the connections and the queues is written.       *)
LEMMA LightFrame ==
  ASSUME IInv, NEW d \in Conns,
         UNCHANGED <<poller, state, output, callbacks, server, ioQueue, batch, ran,
                     userPc, paused>>
  PROVE  /\ net'[d].shut = net[d].shut => SameRow(d)
         /\ SameLine(d) /\ SameBase(d)
         /\ userRef' = userRef /\ (handling' = d => Referenced(d)) => SameUse(d)
<1>1. ToRun' = ToRun
  BY DEF ToRun
<1>2. SameLine(d) /\ SameBase(d)
  BY <1>1, LineKept DEF SameBase, server
<1>3. ASSUME userRef' = userRef, handling' = d => Referenced(d)
      PROVE  SameUse(d)
  BY <1>3 DEF SameUse, Referenced, HeldBy, server
<1>4. QED
  BY <1>2, <1>3 DEF SameRow

LEMMA DispatchHolds ==
  ASSUME IInv, HandleEventReturn \/ \E c \in Conns : HandleEvent(c)
  PROVE  IInv'
<1> USE TcpConnectionAssumption
<1>1. UNCHANGED <<poller, state, output, net, callbacks, server, ioQueue, batch, ran,
                  phase, userRef, userPc, paused>>
  BY DEF HandleEventReturn, HandleEvent, user
<1>2. Types' /\ Round'
  <2>1. /\ active' \subseteq Conns /\ handling' \in Conns \cup {None}
        /\ revents' \in [Conns -> SUBSET {"ERR", "IN", "MSG", "OUT", "HUP"}]
    <3>1. CASE HandleEventReturn
      BY <3>1 DEF HandleEventReturn, IInv, Types
    <3>2. ASSUME NEW c \in Conns, HandleEvent(c)
          PROVE  /\ active' \subseteq Conns /\ handling' \in Conns \cup {None}
                 /\ revents' \in [Conns -> SUBSET {"ERR", "IN", "MSG", "OUT", "HUP"}]
      <4> DEFINE Kinds == {"ERR", "IN", "MSG", "OUT", "HUP"}
      <4>1. revents \in [Conns -> SUBSET Kinds] /\ active \subseteq Conns
            /\ handling \in Conns \cup {None}
        BY DEF IInv, Types
      <4> HIDE DEF Kinds
      <4>2. PICK v \in SUBSET Kinds :
              revents' = revents \/ revents' = [revents EXCEPT ![c] = v]
        BY <3>2, <4>1 DEF HandleEvent
      <4>3. active' \subseteq Conns /\ handling' \in Conns \cup {None}
        BY <3>2, <4>1 DEF HandleEvent
      <4>4. revents' \in [Conns -> SUBSET Kinds]
        BY <4>1, <4>2
      <4>5. QED
        BY <4>3, <4>4 DEF Kinds
    <3>3. QED
      BY <3>1, <3>2
  <2>2. phase # "dispatch" => active' = {} /\ handling' = None
    BY DEF HandleEventReturn, HandleEvent, IInv, Round
  <2>3. Types'
    BY <1>1, <2>1 DEF IInv, Types, server
  <2>4. handling' \notin active'
    BY DEF HandleEventReturn, HandleEvent, IInv, Round, Types
  <2>5. \A d \in Conns : handling' = d /\ "IN" \in revents'[d] => "HUP" \notin revents'[d]
    BY DEF HandleEventReturn, HandleEvent, IInv, Round, Types
  <2>6. Round'
    BY <1>1, <2>2, <2>4, <2>5 DEF IInv, Round
  <2>7. QED
    BY <2>3, <2>6
<1>3. ASSUME NEW d \in Conns
      PROVE  Same(d)
  <2>1. handling' = d => Referenced(d)
    BY DEF HandleEventReturn, HandleEvent
  <2>2. SameRow(d) /\ SameLine(d) /\ SameBase(d) /\ SameUse(d)
    BY <1>1, <2>1, LightFrame
  <2>3. SameRound(d)
    BY DEF HandleEventReturn, HandleEvent, SameRound, IInv, Types
  <2>4. QED
    BY <2>2, <2>3 DEF Same
<1>4. QED
  BY <1>1, <1>2, <1>3, LightStep

LEMMA PeerHolds ==
  ASSUME IInv, NEW c \in Conns, Peer(c)
  PROVE  IInv'
<1> DEFINE Socket == [peer : {"open", "closed", "reset"}, data : BOOLEAN,
                      room : BOOLEAN, shut : BOOLEAN, err : BOOLEAN]
<1>1. net \in [Conns -> Socket]
  BY DEF IInv, Types
<1>2. PICK s \in Socket : /\ s.shut = net[c].shut
                          /\ net' = [net EXCEPT ![c] = s]
                          /\ UNCHANGED <<poller, state, output, callbacks, server,
                                         ioQueue, loop, user>>
  BY <1>1 DEF Peer, PeerSends, PeerReads, PeerCloses, PeerResets, PeerStep
<1> HIDE DEF Socket
<1>3. net' \in [Conns -> Socket] /\ \A d \in Conns : net'[d].shut = net[d].shut
  BY <1>1, <1>2
<1>4. Types' /\ Round'
  BY <1>2, <1>3 DEF IInv, Types, Round, server, loop, user, Socket
<1>5. ASSUME NEW d \in Conns
      PROVE  Same(d)
  <2>1. handling' = d => Referenced(d)
    BY <1>2 DEF Referenced, loop
  <2>2. SameRow(d) /\ SameLine(d) /\ SameBase(d) /\ SameUse(d)
    BY <1>2, <1>3, <2>1, LightFrame DEF loop, user
  <2>3. SameRound(d)
    BY <1>2 DEF SameRound, loop
  <2>4. QED
    BY <2>2, <2>3 DEF Same
<1>6. QED
  BY <1>2, <1>4, <1>5, LightStep

(* The swap and the end of the batch, in which nothing comes to be held.   *)
LEMMA BatchHolds ==
  ASSUME IInv, SwapPendingFunctors \/ EndPendingFunctors
  PROVE  IInv'
<1>1. UNCHANGED <<poller, state, output, net, callbacks, server, active, revents,
                  handling, user>>
  BY DEF SwapPendingFunctors, EndPendingFunctors
<1>2. ToRun' = ToRun
  BY ToRunSwapped, ToRunEnded DEF IInv
<1>3. Types' /\ Round'
  <2>1. /\ batch' \in Seq(FunctorType) /\ ioQueue' \in Seq(FunctorType)
        /\ ran' \in 0 .. Len(batch')
        /\ phase' \in {"poll", "dispatch", "functors"}
        /\ phase' # "functors" => batch' = <<>> /\ ran' = 0
        /\ active = {} /\ handling = None
    <3>1. CASE SwapPendingFunctors
      BY <3>1, LenProperties DEF SwapPendingFunctors, IInv, Types, Round
    <3>2. CASE EndPendingFunctors
      BY <3>2, LenProperties, EmptySeq DEF EndPendingFunctors, IInv, Types, Round
    <3>3. QED
      BY <3>1, <3>2
  <2>2. Types'
    BY <1>1, <2>1 DEF IInv, Types, server, user
  <2>3. None \notin Conns
    BY TcpConnectionAssumption
  <2>4. QED
    BY <1>1, <2>1, <2>2, <2>3 DEF Round
<1>4. ASSUME NEW d \in Conns
      PROVE  Same(d)
  <2>1. Referenced(d)' => Referenced(d)
    <3>1. HeldBy(ioQueue', d) \/ HeldBy(batch', d) => HeldBy(ioQueue, d) \/ HeldBy(batch, d)
      BY HeldByEmpty DEF SwapPendingFunctors, EndPendingFunctors
    <3>2. HeldBy(baseQueue', d) <=> HeldBy(baseQueue, d)
      BY <1>1 DEF server
    <3>3. QED
      BY <1>1, <3>1, <3>2 DEF Referenced, HeldBy, server, user
  <2>2. SameRow(d) /\ SameRound(d) /\ SameUse(d) /\ SameBase(d)
    BY <1>1, <2>1 DEF SameRow, SameRound, SameUse, SameBase, server, user
  <2>3. SameLine(d)
    BY <1>2, LineKept
  <2>4. QED
    BY <2>2, <2>3 DEF Same
<1>5. QED
  BY <1>1, <1>3, <1>4, LightStep

(* The kernel reports what it knows of, and it knows what is wanted.       *)
LEMMA PollHolds ==
  ASSUME IInv, Poll
  PROVE  IInv'
<1> USE TcpConnectionAssumption
<1>1. UNCHANGED <<poller, state, output, net, callbacks, server, ioQueue, batch, ran,
                  handling, user>>
  BY DEF Poll
<1>2. ToRun' = ToRun
  BY <1>1 DEF ToRun
<1>3. \A d \in Conns : Ready(d) \in SUBSET {"ERR", "IN", "MSG", "OUT", "HUP"}
  BY DEF Ready
<1>4. /\ active' \subseteq Conns /\ phase' = "dispatch"
      /\ revents' \in [Conns -> SUBSET {"ERR", "IN", "MSG", "OUT", "HUP"}]
  BY <1>3 DEF Poll
<1>5. Types'
  BY <1>1, <1>4 DEF IInv, Types, server, user
<1>6. Round' /\ ~poller'.failed
  BY <1>1, <1>4 DEF IInv, Round, Poll
<1>7. ASSUME NEW d \in Conns
      PROVE  ConnInv(d)'
  <2>1. ConnInv(d)
    BY DEF IInv
  <2>2. handling = None /\ active = {}
    BY DEF IInv, Round, Poll
  <2>3. /\ d \in active' => poller.interest[d] # None
        /\ d \in active' /\ revents'[d] \cap {"IN", "MSG"} # {} =>
             "read" \in poller.interest[d].events
    BY DEF Poll, Ready
  <2>4. Referenced(d)' <=> Referenced(d)
    BY <1>1 DEF Referenced, HeldBy, server, user
  <2>5. Accepted(d)' <=> Accepted(d)
    BY <1>1 DEF Accepted
  <2>6. Held(d)'
    BY <1>1, <2>1, <2>4, <2>5 DEF ConnInv, Held, user
  <2>7. Table(d)'
    BY <1>1, <2>1, <2>5 DEF ConnInv, Table
  <2>8. \A f : (Pending(f)' <=> Pending(f)) /\ (Occurs(f, baseQueue)' <=> Occurs(f, baseQueue))
    BY <1>1, <1>2 DEF Pending, server
  <2>9. Life(d)'
    <3>1. Begun(d)' => Begun(d)
      BY <1>1, <2>3, <2>8 DEF Begun, user
    <3>2. QED
      BY <1>1, <1>2, <2>1, <2>8, <3>1 DEF ConnInv, Life
  <2>10. Watch(d)'
    <3>1. d \in active' => revents'[d] \cap {"IN", "MSG"} = {} \/ callbacks[d].down = 0
      BY <2>1, <2>3 DEF ConnInv, Table, Watch
    <3>2. QED
      BY <1>1, <2>1, <2>2, <2>5, <3>1 DEF ConnInv, Watch, IsWriting
  <2>11. Flow(d)'
    BY <1>1, <1>2, <2>1, <2>5, <2>8 DEF ConnInv, Flow, user
  <2>12. Served(d)'
    BY <1>1, <2>1, <2>8 DEF ConnInv, Served, server
  <2>13. ASSUME NoThreadSends
         PROVE  Strict(d)'
    <3>1. Strict(d) /\ Table(d) /\ callbacks[d].down \in Nat
      BY <2>1, <2>13 DEF ConnInv, IInv, Types
    <3>2. d \in active' => poller.index[d] # "new" /\ callbacks[d].down = 0
      BY <2>3, <3>1 DEF Strict, Table
    <3>3. QED
      BY <1>1, <2>2, <2>8, <3>1, <3>2 DEF Strict, server, user, IsWriting
  <2>14. NoThreadSends' <=> NoThreadSends
    BY DEF NoThreadSends
  <2>15. QED
    BY <2>6, <2>7, <2>9, <2>10, <2>11, <2>12, <2>13, <2>14 DEF ConnInv
<1>8. QED
  BY <1>5, <1>6, <1>7 DEF IInv

-----------------------------------------------------------------------------
(***************************************************************************)
(* The user's thread.                                                      *)
(***************************************************************************)

LEMMA UserDropHolds ==
  ASSUME IInv, NEW c \in Conns, UserDrop(c)
  PROVE  IInv'
<1>1. /\ UNCHANGED <<poller, state, output, net, callbacks, server, ioQueue, loop,
                     userPc, paused>>
      /\ userPc[c] = "idle" /\ userRef' = userRef \ {c}
  BY DEF UserDrop
<1>2. Types' /\ Round'
  BY <1>1 DEF IInv, Types, Round, server, loop
<1>3. ASSUME NEW d \in Conns
      PROVE  Same(d)
  <2>1. SameRow(d) /\ SameLine(d) /\ SameBase(d)
    BY <1>1, LightFrame DEF loop
  <2>2. SameUse(d)
    BY <1>1 DEF SameUse, Referenced, HeldBy, server, loop
  <2>3. SameRound(d)
    BY <1>1 DEF SameRound, loop
  <2>4. QED
    BY <2>1, <2>2, <2>3 DEF Same
<1>4. QED
  BY <1>1, <1>2, <1>3, LightStep

(* send() and shutdown() from another thread: what they do to _state.      *)
LEMMA UserStateHolds ==
  ASSUME IInv, NEW c \in Conns,
         UNCHANGED <<poller, output, net, callbacks, server, ioQueue, loop, userRef,
                     paused>>,
         c \in userRef,
         NEW pc \in {"send", "shutdown", "stored"}, userPc' = [userPc EXCEPT ![c] = pc],
         NEW next \in {"connected", "disconnected"},
         state' = [state EXCEPT ![c] = next],
         next = "connected" => state[c] = "connected",
         pc = "stored" => next = "disconnected",
         NoThreadSends => pc # "send"
  PROVE  IInv'
<1> USE TcpConnectionAssumption
<1>1. Types' /\ Round'
  BY DEF IInv, Types, Round, server, loop
<1>2. ToRun' = ToRun
  BY DEF ToRun, loop
<1>3. \A d \in Conns : Referenced(d)' <=> Referenced(d)
  BY DEF Referenced, HeldBy, server, loop
<1>4. ASSUME NEW d \in Conns \ {c}
      PROVE  Same(d)
  <2>1. SameLine(d) /\ SameBase(d)
    BY <1>2, LineKept DEF SameBase, server
  <2>2. SameRow(d)
    BY DEF SameRow, IInv, Types
  <2>3. SameUse(d)
    BY <1>3 DEF SameUse, IInv, Types, server
  <2>4. SameRound(d)
    BY DEF SameRound, loop
  <2>5. QED
    BY <2>1, <2>2, <2>3, <2>4 DEF Same
<1>5. ConnInv(c)'
  <2>1. ConnInv(c)
    BY DEF IInv
  <2>2. state'[c] = next /\ userPc'[c] = pc
    BY DEF IInv, Types
  <2>3. Accepted(c) /\ Accepted(c)'
    BY <2>1, <2>2 DEF ConnInv, Held, Referenced, Accepted
  <2>4. \A f : (Pending(f)' <=> Pending(f)) /\ (Occurs(f, baseQueue)' <=> Occurs(f, baseQueue))
    BY <1>2 DEF Pending, server
  <2>5. Held(c)'
    BY <2>3 DEF Held
  <2>6. Table(c)'
    BY <2>1, <2>2, <2>3 DEF ConnInv, Table, Accepted
  <2>7. Life(c)'
    <3>1. callbacks[c].up = 1 /\ ~Pending(Establish(c))
      BY <2>1 DEF ConnInv, Life, Begun
    <3>2. Begun(c)' => Begun(c)
      BY <2>4 DEF Begun, loop
    <3>3. QED
      BY <1>2, <2>1, <2>2, <2>4, <3>1, <3>2 DEF ConnInv, Life
  <2>8. Watch(c)'
    BY <2>1, <2>3 DEF ConnInv, Watch, IsWriting, loop
  <2>9. Flow(c)'
    BY <1>2, <2>1, <2>3, <2>4 DEF ConnInv, Flow
  <2>10. Served(c)'
    BY <2>1, <2>2, <2>3, <2>4 DEF ConnInv, Served, server, Accepted
  <2>11. ASSUME NoThreadSends
         PROVE  Strict(c)'
    <3>1. Strict(c)
      BY <2>1, <2>11 DEF ConnInv
    <3>2. QED
      BY <2>2, <2>4, <2>11, <3>1 DEF Strict, server, loop, IsWriting
  <2>12. NoThreadSends' <=> NoThreadSends
    BY DEF NoThreadSends
  <2>13. QED
    BY <2>5, <2>6, <2>7, <2>8, <2>9, <2>10, <2>11, <2>12 DEF ConnInv
<1>6. ~poller'.failed
  BY DEF IInv
<1>7. QED
  BY <1>1, <1>4, <1>5, <1>6, SameHolds DEF IInv

LEMMA UserCallHolds ==
  ASSUME IInv, NEW c \in Conns, NEW op \in UserOps, UserCall(c, op)
  PROVE  IInv'
<1>1. /\ op \in {"send", "shutdown", "stored"} /\ op # "stored"
      /\ NoThreadSends => op # "send"
  BY TcpConnectionAssumption DEF NoThreadSends
<1>2. state' = [state EXCEPT ![c] = "connected"] /\ state[c] = "connected"
  BY DEF UserCall, IInv, Types
<1>3. QED
  BY <1>1, <1>2, UserStateHolds DEF UserCall

LEMMA UserStoreHolds ==
  ASSUME IInv, NEW c \in Conns, UserStore(c)
  PROVE  IInv'
<1>1. c \in userRef
  BY DEF UserStore, IInv, ConnInv, Held
<1>2. QED
  BY <1>1, UserStateHolds DEF UserStore

(* ... and the functor that they hand over.                                 *)
LEMMA UserQueueHolds ==
  ASSUME IInv, NEW c \in Conns, UserQueue(c)
  PROVE  IInv'
<1> USE TcpConnectionAssumption
<1> DEFINE f == Functor(IF userPc[c] = "send" THEN "sendInLoop" ELSE "shutdownInLoop", c)
<1>1. /\ UNCHANGED <<poller, state, output, net, callbacks, server, loop, userRef,
                     paused>>
      /\ userPc[c] \in {"send", "stored"}
      /\ userPc' = [userPc EXCEPT ![c] = "idle"]
      /\ ioQueue' = Append(ioQueue, f)
  BY DEF UserQueue
<1>2. /\ f \in FunctorType /\ f.conn = c /\ f.run \notin Strong
      /\ f \in {Functor("sendInLoop", c), Functor("shutdownInLoop", c)}
      /\ userPc[c] # "send" => f = Functor("shutdownInLoop", c)
  BY DEF Functor, FunctorType, Strong
<1> HIDE DEF f
<1>4. ToRun' = Append(ToRun, f)
  BY <1>1, <1>2, ToRunQueued DEF IInv, loop
<1>5. Types' /\ Round'
  <2>1. ioQueue' \in Seq(FunctorType)
    BY <1>1, <1>2, AppendProperties DEF IInv, Types
  <2>2. QED
    BY <1>1, <2>1 DEF IInv, Types, Round, server, loop
<1>6. \A d \in Conns : Referenced(d)' <=> Referenced(d)
  <2>1. \A d : HeldBy(ioQueue', d) <=> HeldBy(ioQueue, d)
    BY <1>1, <1>2, HeldByAppended DEF IInv, Types
  <2>2. QED
    BY <1>1, <2>1 DEF Referenced, HeldBy, server, loop
<1>7. ASSUME NEW d \in Conns \ {c}
      PROVE  Same(d)
  <2>1. SameLine(d) /\ SameBase(d)
    BY <1>1, <1>2, <1>4, LineQueued DEF SameBase, server, IInv
  <2>2. SameRow(d)
    BY <1>1 DEF SameRow
  <2>3. SameUse(d)
    BY <1>1, <1>6 DEF SameUse, IInv, Types, server
  <2>4. SameRound(d)
    BY <1>1 DEF SameRound, loop
  <2>5. QED
    BY <2>1, <2>2, <2>3, <2>4 DEF Same
<1>8. ConnInv(c)'
  <2>1. ConnInv(c)
    BY DEF IInv
  <2>2. Accepted(c)' <=> Accepted(c)
    BY <1>1 DEF Accepted
  <2>3. userPc'[c] = "idle"
    BY <1>1 DEF IInv, Types
  <2>4. c \in userRef /\ callbacks[c].up = 1
    BY <1>1, <2>1 DEF ConnInv, Held, Life, Begun
  <2>5. f \notin {Establish(c), Destroy(c), RemoveInPool(c), HighWater(c), WriteComplete(c)}
    BY <1>2, AllDistinct DEF Distinct
  <2>6. /\ \A g : Pending(g)' <=> Pending(g) \/ g = f
        /\ AtMostOnce(Establish(c), ToRun) => AtMostOnce(Establish(c), ToRun)'
        /\ Precedes(Establish(c), Destroy(c), ToRun) =>
             Precedes(Establish(c), Destroy(c), ToRun)'
        /\ Followed(c, ToRun) => Followed(c, ToRun)'
    BY <1>2, <1>4, <2>5, ToRunIsSeq, LineAppended DEF IInv, Pending
  <2>7. Held(c)'
    BY <1>1, <1>6, <2>1, <2>2, <2>3 DEF ConnInv, Held
  <2>8. Table(c)'
    BY <1>1, <2>1, <2>2 DEF ConnInv, Table
  <2>9. Life(c)'
    BY <1>1, <2>1, <2>4, <2>5, <2>6 DEF ConnInv, Life
  <2>10. Watch(c)'
    BY <1>1, <2>1, <2>2 DEF ConnInv, Watch, IsWriting, loop
  <2>11. Flow(c)'
    BY <1>1, <2>1, <2>2, <2>5, <2>6 DEF ConnInv, Flow
  <2>12. Served(c)'
    BY <1>1, <2>1, <2>5, <2>6 DEF ConnInv, Served, server
  <2>13. ASSUME NoThreadSends
         PROVE  Strict(c)'
    <3>1. Strict(c) /\ userPc[c] = "stored" /\ f = Functor("shutdownInLoop", c)
      BY <1>1, <1>2, <2>1, <2>13 DEF ConnInv, Strict
    <3>2. f # Functor("sendInLoop", c)
      BY <3>1, AllDistinct DEF Distinct
    <3>3. QED
      BY <1>1, <2>3, <2>5, <2>6, <3>1, <3>2 DEF Strict, server, loop, IsWriting
  <2>14. NoThreadSends' <=> NoThreadSends
    BY DEF NoThreadSends
  <2>15. QED
    BY <2>7, <2>8, <2>9, <2>10, <2>11, <2>12, <2>13, <2>14 DEF ConnInv
<1>9. ~poller'.failed
  BY <1>1 DEF IInv
<1>10. QED
  BY <1>5, <1>7, <1>8, <1>9, SameHolds DEF IInv

-----------------------------------------------------------------------------
(***************************************************************************)
(* The end of a connection.  Its channel has been removed by then, unless  *)
(* another thread's send() has brought it back.                            *)
(***************************************************************************)

LEMMA FreeHolds ==
  ASSUME IInv, NEW c \in Conns, Free(c)
  PROVE  IInv'
<1> USE TcpConnectionAssumption
<1>1. /\ UNCHANGED <<net, callbacks, server, ioQueue, loop, user>>
      /\ IsLive(poller, c) /\ ~Referenced(c)
      /\ poller' = DeleteChannel(poller, c)
      /\ state' = [state EXCEPT ![c] = "freed"]
      /\ output' = [output EXCEPT ![c] = FALSE]
  BY DEF Free
<1>2. ConnInv(c) /\ Types
  BY DEF IInv
<1>3. Accepted(c) /\ poller.fd[c] = c
  BY <1>1, <1>2 DEF ConnInv, Table, IsLive
<1>4. /\ poller' \in PollerType
      /\ poller'.fd = [poller.fd EXCEPT ![c] = None]
      /\ poller'.events = [poller.events EXCEPT ![c] = {}]
      /\ poller'.index = [poller.index EXCEPT ![c] = "new"]
      /\ poller'.channels = poller.channels
      /\ poller'.interest = [poller.interest EXCEPT ![c] = None]
      /\ poller'.failed = poller.failed
  BY <1>1, <1>2, <1>3 DEF DeleteChannel, Types, PollerType
<1>5. Types' /\ Round'
  BY <1>1, <1>4 DEF IInv, Types, Round, server, loop, user
<1>6. ToRun' = ToRun
  BY <1>1 DEF ToRun, loop
<1>7. \A d \in Conns : Referenced(d)' <=> Referenced(d)
  BY <1>1 DEF Referenced, HeldBy, server, loop, user
<1>8. ASSUME NEW d \in Conns \ {c}
      PROVE  Same(d)
  <2>1. SameLine(d) /\ SameBase(d)
    BY <1>1, <1>6, LineKept DEF SameBase, server
  <2>2. SameRow(d)
    BY <1>1, <1>2, <1>4 DEF SameRow, Types, PollerType
  <2>3. SameUse(d)
    BY <1>1, <1>7 DEF SameUse, server, user
  <2>4. SameRound(d)
    BY <1>1 DEF SameRound, loop
  <2>5. QED
    BY <2>1, <2>2, <2>3, <2>4 DEF Same
<1>9. ConnInv(c)'
  <2>1. /\ state'[c] = "freed" /\ ~Accepted(c)' /\ ~output'[c]
        /\ poller'.fd[c] = None /\ poller'.events[c] = {} /\ poller'.index[c] = "new"
        /\ poller'.interest[c] = None /\ poller'.channels[c] = poller.channels[c]
    BY <1>1, <1>2, <1>4 DEF Types, PollerType, Accepted
  <2>2. \A f : (Pending(f)' <=> Pending(f)) /\ (Occurs(f, baseQueue)' <=> Occurs(f, baseQueue))
    BY <1>1, <1>6 DEF Pending, server
  <2>3. c \notin connections /\ c \notin userRef /\ handling # c
    BY <1>1 DEF Referenced
  <2>4. ~Pending(Establish(c)) /\ ~Pending(Destroy(c))
    <3>1. /\ Establish(c).run \in Strong /\ Destroy(c).run \in Strong
          /\ Establish(c).conn = c /\ Destroy(c).conn = c
      BY DEF Establish, Destroy, Functor, Strong
    <3>2. QED
      BY <1>1, <1>2, <3>1, NamedFunctors, PendingHolds
  <2>5. Held(c)'
    BY <1>1, <1>2, <1>7, <2>3 DEF ConnInv, Held, user
  <2>6. Table(c)'
    BY <2>1 DEF Table
  <2>7. Life(c)'
    <3>1. Begun(c)' => Begun(c)
      BY <1>1, <2>1, <2>2 DEF Begun, loop, user
    <3>2. QED
      BY <1>1, <1>2, <1>6, <2>1, <2>2, <2>4, <3>1 DEF ConnInv, Life
  <2>8. Watch(c)'
    BY <1>1, <1>2, <2>1 DEF ConnInv, Watch, IsWriting, loop
  <2>9. Flow(c)'
    BY <1>1, <1>2, <2>1, <2>2 DEF ConnInv, Flow, user
  <2>10. Served(c)'
    <3>1. state[c] # "unborn"
      BY <1>3 DEF Accepted
    <3>2. QED
      BY <1>1, <1>2, <2>2, <3>1 DEF ConnInv, Served, server
  <2>11. ASSUME NoThreadSends
         PROVE  Strict(c)'
    <3>1. Strict(c)
      BY <1>2, <2>11 DEF ConnInv
    <3>2. poller.index[c] = "new" /\ c \notin active
      BY <2>3, <2>4, <3>1 DEF Strict
    <3>3. poller.channels[c] = None
      BY <1>2, <1>3, <3>2 DEF ConnInv, Table, Accepted
    <3>4. QED
      BY <1>1, <2>1, <2>2, <2>3, <2>4, <3>1, <3>2, <3>3
         DEF Strict, server, loop, user, IsWriting
  <2>12. NoThreadSends' <=> NoThreadSends
    BY DEF NoThreadSends
  <2>13. QED
    BY <2>5, <2>6, <2>7, <2>8, <2>9, <2>10, <2>11, <2>12 DEF ConnInv
<1>10. ~poller'.failed
  BY <1>4 DEF IInv
<1>11. QED
  BY <1>5, <1>8, <1>9, <1>10, SameHolds DEF IInv

-----------------------------------------------------------------------------
(***************************************************************************)
(* TcpServer.                                                              *)
(***************************************************************************)

(* Nothing is pending, open or set of a connection not yet accepted.       *)
LEMMA Unborn ==
  ASSUME IInv, NEW c \in Conns, state[c] = "unborn"
  PROVE  /\ callbacks[c].up = 0 /\ callbacks[c].down = 0 /\ ~Begun(c)
         /\ \A f \in FunctorType : f.conn = c => ~Pending(f) /\ ~Occurs(f, baseQueue)
         /\ poller.index[c] = "new" /\ poller.interest[c] = None
         /\ poller.channels[c] = None /\ poller.events[c] = {} /\ poller.fd[c] = None
         /\ ~output[c] /\ userPc[c] = "idle" /\ ~Referenced(c)
<1> USE TcpConnectionAssumption
<1>1. ConnInv(c) /\ ~Accepted(c)
  BY DEF IInv, Accepted
<1>2. callbacks[c].up = 0 /\ ~Begun(c)
  BY <1>1 DEF ConnInv, Life
<1>3. callbacks[c].down = 0
  BY <1>2 DEF Begun, IInv, Types
<1>4. /\ poller.index[c] = "new" /\ poller.events[c] = {} /\ poller.fd[c] = None
      /\ ~output[c]
  BY <1>1 DEF ConnInv, Table
<1>5. poller.interest[c] = None /\ poller.channels[c] = None
  BY <1>1, <1>4 DEF ConnInv, Table
<1>6. ~Referenced(c) /\ userPc[c] = "idle"
  BY <1>1 DEF ConnInv, Held, Referenced
<1>7. ASSUME NEW f \in FunctorType, f.conn = c
      PROVE  ~Pending(f) /\ ~Occurs(f, baseQueue)
  <2>1. CASE f \in {Establish(c), Destroy(c)}
    <3>1. f.run \in Strong
      BY <2>1 DEF Establish, Destroy, Functor, Strong
    <3>2. QED
      BY <1>6, <1>7, <3>1, PendingHolds DEF IInv
  <2>2. CASE f \notin {Establish(c), Destroy(c)}
    BY <1>2, <1>7, <2>2 DEF Begun
  <2>3. QED
    BY <2>1, <2>2
<1>8. QED
  BY <1>2, <1>3, <1>4, <1>5, <1>6, <1>7

LEMMA NewChannelEffect ==
  ASSUME NEW p \in PollerType, NEW c \in Conns, p.index[c] = "new", p.events[c] = {}
  PROVE  LET q == NewChannel(p, c, c)
         IN  /\ q \in PollerType
             /\ q.fd = [p.fd EXCEPT ![c] = c]
             /\ q.events = p.events /\ q.index = p.index
             /\ q.channels = p.channels /\ q.interest = p.interest
             /\ q.failed = p.failed
<1>1. /\ p.events = [p.events EXCEPT ![c] = {}]
      /\ p.index = [p.index EXCEPT ![c] = "new"]
  BY DEF PollerType
<1>2. QED
  BY <1>1 DEF NewChannel, PollerType

(* newConnection with an io loop of its own for c.                         *)
LEMMA NewConnectionQueuedHolds ==
  ASSUME IInv, NEW c \in Conns, NewConnection(c), ~OneLoop
  PROVE  IInv'
<1> USE TcpConnectionAssumption
<1>1. /\ UNCHANGED <<output, net, callbacks, serverUp, baseQueue, loop, user>>
      /\ state[c] = "unborn"
      /\ connections' = connections \cup {c}
      /\ state' = [state EXCEPT ![c] = "connecting"]
      /\ poller' = NewChannel(poller, c, c)
      /\ ioQueue' = Append(ioQueue, Establish(c))
  BY DEF NewConnection, user, Establish
<1>2. ConnInv(c) /\ Types
  BY DEF IInv
<1>3. /\ callbacks[c].up = 0 /\ callbacks[c].down = 0 /\ ~Begun(c)
      /\ \A f \in FunctorType : f.conn = c => ~Pending(f) /\ ~Occurs(f, baseQueue)
      /\ poller.index[c] = "new" /\ poller.interest[c] = None
      /\ poller.channels[c] = None /\ poller.events[c] = {} /\ poller.fd[c] = None
      /\ ~output[c] /\ userPc[c] = "idle" /\ ~Referenced(c)
  BY <1>1, Unborn
<1>4. /\ poller' \in PollerType
      /\ poller'.fd = [poller.fd EXCEPT ![c] = c]
      /\ poller'.events = poller.events /\ poller'.index = poller.index
      /\ poller'.channels = poller.channels /\ poller'.interest = poller.interest
      /\ poller'.failed = poller.failed
  <2>1. poller \in PollerType
    BY <1>2 DEF Types
  <2>2. poller.index[c] = "new" /\ poller.events[c] = {}
    BY <1>3
  <2>3. QED
    BY <1>1, <2>1, <2>2, NewChannelEffect
<1>5. /\ Establish(c) \in FunctorType /\ Establish(c).conn = c
      /\ Destroy(c) \in FunctorType /\ Destroy(c).conn = c
      /\ HighWater(c) \in FunctorType /\ HighWater(c).conn = c
  BY NamedFunctors
<1>6. ToRun' = Append(ToRun, Establish(c))
  BY <1>1, <1>2, <1>5, ToRunQueued DEF loop
<1>7. Types' /\ Round'
  <2>1. ioQueue' \in Seq(FunctorType)
    BY <1>1, <1>2, <1>5, AppendProperties DEF Types
  <2>2. connections' \subseteq Conns /\ IsFiniteSet(connections')
    BY <1>1, <1>2, FS_AddElement DEF Types
  <2>3. QED
    BY <1>1, <1>4, <2>1, <2>2 DEF IInv, Types, Round, loop, user
<1>8. \A d \in Conns \ {c} : Referenced(d)' => Referenced(d)
  <2>1. \A d \in Conns \ {c} : HeldBy(ioQueue', d) <=> HeldBy(ioQueue, d)
    BY <1>1, <1>2, <1>5, HeldByAppended DEF Types
  <2>2. QED
    BY <1>1, <2>1 DEF Referenced, HeldBy, loop, user
<1>9. ASSUME NEW d \in Conns \ {c}
      PROVE  Same(d)
  <2>1. SameLine(d) /\ SameBase(d)
    BY <1>1, <1>2, <1>5, <1>6, LineQueued DEF SameBase
  <2>2. SameRow(d)
    BY <1>1, <1>2, <1>4 DEF SameRow, Types, PollerType
  <2>3. SameUse(d)
    BY <1>1, <1>8 DEF SameUse, user
  <2>4. SameRound(d)
    BY <1>1 DEF SameRound, loop
  <2>5. QED
    BY <2>1, <2>2, <2>3, <2>4 DEF Same
<1>10. ConnInv(c)'
  <2>1. state'[c] = "connecting" /\ Accepted(c)' /\ poller'.fd[c] = c
    BY <1>1, <1>2, <1>4 DEF Types, PollerType, Accepted
  <2>2. Distinct(c)
    BY AllDistinct
  <2>3. /\ \A g : Pending(g)' <=> Pending(g) \/ g = Establish(c)
        /\ \A g : Occurs(g, baseQueue)' <=> Occurs(g, baseQueue)
    BY <1>1, <1>2, <1>5, <1>6, ToRunIsSeq, LineAppended DEF Pending
  <2>4. /\ ~Occurs(Establish(c), ToRun) /\ ~Occurs(Destroy(c), ToRun)
        /\ ~Occurs(HighWater(c), ToRun)
    BY <1>3, <1>5 DEF Pending
  <2>5. /\ AtMostOnce(Establish(c), ToRun) /\ Precedes(Establish(c), Destroy(c), ToRun)
        /\ Followed(c, ToRun)
    BY <2>4 DEF AtMostOnce, Precedes, Followed, Occurs
  <2>6. /\ AtMostOnce(Establish(c), ToRun)' /\ Precedes(Establish(c), Destroy(c), ToRun)'
        /\ Followed(c, ToRun)'
    BY <1>2, <1>5, <1>6, <2>2, <2>4, <2>5, ToRunIsSeq, LineAppended DEF Distinct
  <2>7. Held(c)'
    BY <1>1, <1>2, <2>1 DEF ConnInv, Held, user
  <2>8. Table(c)'
    BY <1>1, <1>3, <1>4, <2>1 DEF Table
  <2>9. Life(c)'
    <3>1. ~Begun(c)'
      BY <1>1, <1>3, <1>4, <2>3 DEF Begun, loop, user
    <3>2. QED
      BY <1>1, <1>3, <2>1, <2>6, <3>1 DEF Life
  <2>10. Watch(c)'
    BY <1>1, <1>3, <1>4 DEF Watch, loop
  <2>11. Flow(c)'
    <3>1. c \notin paused' /\ ~Pending(HighWater(c))'
      BY <1>1, <1>3, <1>5, <2>2, <2>3 DEF Begun, user, Distinct
    <3>2. QED
      BY <2>6, <3>1 DEF Flow
  <2>12. Served(c)'
    <3>1. /\ \A f \in FunctorType : f.conn = c => ~Occurs(f, baseQueue)'
          /\ ~Pending(RemoveInPool(c))'
      BY <1>3, <2>2, <2>3, NamedFunctors DEF Distinct
    <3>2. QED
      BY <1>1, <3>1 DEF Served
  <2>13. ASSUME NoThreadSends
         PROVE  Strict(c)'
    <3>1. Strict(c)
      BY <1>2, <2>13 DEF ConnInv
    <3>2. c \notin active' /\ handling' # c /\ c \in connections' /\ userPc'[c] = "idle"
      BY <1>1, <1>3 DEF Begun, loop, user
    <3>3. ~Pending(Functor("sendInLoop", c))' /\ ~Pending(Functor("shutdownInLoop", c))'
      BY <1>3, <2>2, <2>3, NamedFunctors DEF Distinct
    <3>4. ~net'[c].shut
      BY <1>1, <3>1 DEF Strict
    <3>5. QED
      BY <1>1, <1>3, <1>4, <2>1, <3>2, <3>3, <3>4 DEF Strict
  <2>14. NoThreadSends' <=> NoThreadSends
    BY DEF NoThreadSends
  <2>15. QED
    BY <2>7, <2>8, <2>9, <2>10, <2>11, <2>12, <2>13, <2>14 DEF ConnInv
<1>11. ~poller'.failed
  BY <1>4 DEF IInv
<1>12. QED
  BY <1>7, <1>9, <1>10, <1>11, SameHolds DEF IInv

(* newConnection on the only loop, which calls connectEstablished in place. *)
LEMMA NewConnectionInPlaceHolds ==
  ASSUME IInv, NEW c \in Conns, NewConnection(c), OneLoop
  PROVE  IInv'
<1> USE TcpConnectionAssumption
<1>1. /\ UNCHANGED <<output, net, serverUp, baseQueue, ioQueue, loop, userPc, paused>>
      /\ state[c] = "unborn"
      /\ connections' = connections \cup {c}
      /\ state' = [state EXCEPT ![c] = "connected"]
      /\ poller' = EnableReading(NewChannel(poller, c, c), c)
      /\ callbacks' = [callbacks EXCEPT ![c].up = @ + 1]
      /\ userRef' \in {userRef, userRef \cup {c}}
  BY DEF NewConnection
<1>2. ConnInv(c) /\ Types
  BY DEF IInv
<1>3. /\ callbacks[c].up = 0 /\ callbacks[c].down = 0 /\ ~Begun(c)
      /\ \A f \in FunctorType : f.conn = c => ~Pending(f) /\ ~Occurs(f, baseQueue)
      /\ poller.index[c] = "new" /\ poller.interest[c] = None
      /\ poller.channels[c] = None /\ poller.events[c] = {} /\ poller.fd[c] = None
      /\ ~output[c] /\ userPc[c] = "idle" /\ ~Referenced(c)
  BY <1>1, Unborn
<1>4. /\ poller' \in PollerType /\ poller'.failed = poller.failed
      /\ poller'.fd[c] = c /\ poller'.events[c] = {"read"} /\ poller'.channels[c] = c
      /\ poller'.index[c] = "added"
      /\ poller'.interest[c] = [ptr |-> c, events |-> poller'.events[c]]
      /\ poller'.interest[c] # None
      /\ OthersKept(poller, poller', c)
  <2> DEFINE p == NewChannel(poller, c, c)
  <2>1. /\ p \in PollerType
        /\ p.fd = [poller.fd EXCEPT ![c] = c]
        /\ p.events = poller.events /\ p.index = poller.index
        /\ p.channels = poller.channels /\ p.interest = poller.interest
        /\ p.failed = poller.failed
    BY <1>2, <1>3, NewChannelEffect DEF Types
  <2>2. poller' = EnableReading(p, c)
    BY <1>1
  <2> HIDE DEF p
  <2>3. p.fd[c] = c /\ p.events[c] = {} /\ p.index[c] = "new" /\ p.interest[c] = None
    BY <1>2, <1>3, <2>1 DEF Types, PollerType
  <2>4. /\ poller' \in PollerType /\ poller'.failed = p.failed
        /\ poller'.fd[c] = c /\ poller'.events[c] = {"read"} /\ poller'.channels[c] = c
        /\ poller'.index[c] = "added"
        /\ poller'.interest[c] = [ptr |-> c, events |-> poller'.events[c]]
        /\ poller'.interest[c] # None
        /\ OthersKept(p, poller', c)
    BY <2>1, <2>2, <2>3, EnableReadingRow
  <2>5. \A d \in Conns \ {c} : p.fd[d] = poller.fd[d]
    BY <1>2, <2>1 DEF Types, PollerType
  <2>6. OthersKept(poller, poller', c)
    BY <2>1, <2>4, <2>5 DEF OthersKept
  <2>7. QED
    BY <2>1, <2>4, <2>6
<1>5. callbacks' \in [Conns -> [up : Nat, down : Nat]]
      /\ callbacks'[c].up = 1 /\ callbacks'[c].down = 0
      /\ \A d \in Conns \ {c} : callbacks'[d] = callbacks[d]
  BY <1>1, <1>2, <1>3 DEF Types
<1>6. ToRun' = ToRun
  BY <1>1 DEF ToRun, loop
<1>7. Types' /\ Round'
  <2>1. connections' \subseteq Conns /\ IsFiniteSet(connections')
    <3>1. connections \subseteq Conns /\ IsFiniteSet(connections)
      BY <1>2 DEF Types
    <3>2. connections' = connections \cup {c}
      BY <1>1
    <3>3. QED
      BY <3>1, <3>2, FS_AddElement
  <2>2. QED
    BY <1>1, <1>4, <1>5, <2>1 DEF IInv, Types, Round, loop
<1>8. \A d \in Conns \ {c} : Referenced(d)' => Referenced(d)
  BY <1>1 DEF Referenced, HeldBy, loop
<1>9. ASSUME NEW d \in Conns \ {c}
      PROVE  Same(d)
  <2>1. SameLine(d) /\ SameBase(d)
    BY <1>1, <1>6, LineKept DEF SameBase
  <2>2. SameRow(d)
    BY <1>1, <1>2, <1>4, <1>5 DEF SameRow, OthersKept, Types
  <2>3. SameUse(d)
    BY <1>1, <1>8 DEF SameUse
  <2>4. SameRound(d)
    BY <1>1 DEF SameRound, loop
  <2>5. QED
    BY <2>1, <2>2, <2>3, <2>4 DEF Same
<1>10. ConnInv(c)'
  <2>1. /\ state'[c] = "connected" /\ Accepted(c)' /\ poller'.fd[c] = c
        /\ poller'.events[c] = {"read"} /\ poller'.index[c] = "added"
        /\ poller'.channels[c] = c
        /\ poller'.interest[c] = [ptr |-> c, events |-> poller'.events[c]]
        /\ poller'.interest[c] # None
    BY <1>1, <1>2, <1>4 DEF Types, Accepted
  <2>2. \A g : (Pending(g)' <=> Pending(g)) /\ (Occurs(g, baseQueue)' <=> Occurs(g, baseQueue))
    BY <1>1, <1>6 DEF Pending
  <2>3. /\ ~Pending(Establish(c))' /\ ~Pending(Destroy(c))' /\ ~Pending(HighWater(c))'
        /\ ~Pending(RemoveInPool(c))' /\ ~Pending(Functor("sendInLoop", c))'
        /\ ~Pending(Functor("shutdownInLoop", c))'
    BY <1>3, <2>2, NamedFunctors
  <2>4. /\ AtMostOnce(Establish(c), ToRun)' /\ Precedes(Establish(c), Destroy(c), ToRun)'
        /\ Followed(c, ToRun)'
    BY <2>3 DEF AtMostOnce, Precedes, Followed, Occurs, Pending
  <2>5. Held(c)'
    BY <1>1, <1>3, <2>1 DEF Held
  <2>6. Table(c)'
    BY <2>1 DEF Table
  <2>7. Life(c)'
    BY <1>5, <2>1, <2>3, <2>4 DEF Life
  <2>8. Watch(c)'
    BY <1>1, <1>3, <1>5, <2>1 DEF Watch
  <2>9. Flow(c)'
    <3>1. c \notin paused'
      BY <1>1, <1>3 DEF Begun
    <3>2. QED
      BY <2>3, <2>4, <3>1 DEF Flow
  <2>10. Served(c)'
    <3>1. \A f \in FunctorType : f.conn = c => ~Occurs(f, baseQueue)'
      BY <1>3, <2>2
    <3>2. QED
      BY <1>1, <2>3, <3>1 DEF Served
  <2>11. ASSUME NoThreadSends
         PROVE  Strict(c)'
    <3>1. Strict(c)
      BY <1>2, <2>11 DEF ConnInv
    <3>2. c \notin active' /\ handling' # c /\ c \in connections' /\ userPc'[c] = "idle"
      BY <1>1, <1>3 DEF Begun, loop
    <3>3. ~net'[c].shut
      BY <1>1, <3>1 DEF Strict
    <3>4. QED
      BY <1>5, <2>1, <2>3, <3>2, <3>3 DEF Strict
  <2>12. NoThreadSends' <=> NoThreadSends
    BY DEF NoThreadSends
  <2>13. QED
    BY <2>5, <2>6, <2>7, <2>8, <2>9, <2>10, <2>11, <2>12 DEF ConnInv
<1>11. ~poller'.failed
  BY <1>4 DEF IInv
<1>12. QED
  BY <1>7, <1>9, <1>10, <1>11, SameHolds DEF IInv

(* removeConnectionInPool, run by the base loop.                           *)
LEMMA BaseRunHolds ==
  ASSUME IInv, BaseRunFunctor
  PROVE  IInv'
<1> USE TcpConnectionAssumption
<1>0. PICK f, c : f = Head(baseQueue) /\ c = f.conn
  OBVIOUS
<1>1. /\ UNCHANGED <<poller, state, output, net, callbacks, serverUp, loop, user>>
      /\ serverUp /\ baseQueue # <<>>
      /\ connections' = connections \ {c}
      /\ ioQueue' = Append(ioQueue, Destroy(c))
      /\ baseQueue' = Tail(baseQueue)
  BY <1>0 DEF BaseRunFunctor, RemoveConnectionInPool, Destroy
<1>2. Types
  BY DEF IInv
<1>3. /\ f \in FunctorType /\ c \in Conns
      /\ Tail(baseQueue) \in Seq(FunctorType)
      /\ \A g : Occurs(g, baseQueue) <=> Occurs(g, Tail(baseQueue)) \/ g = f
  <2>1. baseQueue \in Seq(FunctorType)
    BY <1>2 DEF Types
  <2>2. f \in FunctorType /\ Tail(baseQueue) \in Seq(FunctorType)
    BY <1>0, <1>1, <2>1, HeadTailProperties
  <2>3. c \in Conns
    BY <1>0, <2>2 DEF FunctorType
  <2>4. QED
    BY <1>0, <1>1, <2>1, <2>2, <2>3, InTail
<1>4. f = RemoveInPool(c) /\ callbacks[c].down > 0
  BY <1>0, <1>3 DEF IInv, ConnInv, Served
<1>5. HeldBy(baseQueue, c) /\ \A d : HeldBy(Tail(baseQueue), d) => HeldBy(baseQueue, d)
  <2>1. f.run \in Strong
    BY <1>4 DEF RemoveInPool, Functor, Strong
  <2>2. QED
    BY <1>0, <1>1, <1>2, <2>1, HeldByTail DEF Types
<1>6. ConnInv(c)
  BY <1>3 DEF IInv
<1>7. Destroy(c) \in FunctorType /\ Destroy(c).conn = c /\ Distinct(c)
  BY <1>3, NamedFunctors, AllDistinct
<1>8. ToRun' = Append(ToRun, Destroy(c))
  BY <1>1, <1>2, <1>7, ToRunQueued DEF loop
<1>9. Types' /\ Round'
  <2>1. ioQueue' \in Seq(FunctorType)
    BY <1>1, <1>2, <1>7, AppendProperties DEF Types
  <2>2. connections' \subseteq Conns /\ IsFiniteSet(connections')
    BY <1>1, <1>2, FS_RemoveElement DEF Types
  <2>3. QED
    BY <1>1, <1>3, <2>1, <2>2 DEF IInv, Types, Round, loop, user
<1>10. \A d \in Conns : Referenced(d)' => Referenced(d)
  <2>1. \A d : HeldBy(ioQueue', d) => HeldBy(ioQueue, d) \/ d = c
    BY <1>1, <1>2, <1>7, HeldByAppended DEF Types
  <2>2. \A d : HeldBy(baseQueue', d) => HeldBy(baseQueue, d)
    BY <1>1, <1>5
  <2>3. \A d : HeldBy(batch', d) <=> HeldBy(batch, d)
    BY <1>1 DEF loop
  <2>4. QED
    BY <1>1, <1>5, <2>1, <2>2, <2>3 DEF Referenced, loop, user
<1>11. \A g : Occurs(g, baseQueue)' => Occurs(g, baseQueue)
  BY <1>1, <1>3
<1>12. ASSUME NEW d \in Conns \ {c}
       PROVE  Same(d)
  <2>1. SameLine(d) /\ SameBase(d)
    BY <1>2, <1>7, <1>8, <1>11, LineQueued DEF SameBase
  <2>2. SameRow(d)
    BY <1>1 DEF SameRow
  <2>3. SameUse(d)
    BY <1>1, <1>10 DEF SameUse, user
  <2>4. SameRound(d)
    BY <1>1 DEF SameRound, loop
  <2>5. QED
    BY <2>1, <2>2, <2>3, <2>4 DEF Same
<1>13. ConnInv(c)'
  <2>1. Accepted(c)' <=> Accepted(c)
    BY <1>1 DEF Accepted
  <2>2. /\ \A g : Pending(g)' <=> Pending(g) \/ g = Destroy(c)
        /\ AtMostOnce(Establish(c), ToRun) => AtMostOnce(Establish(c), ToRun)'
        /\ Precedes(Establish(c), Destroy(c), ToRun) =>
             Precedes(Establish(c), Destroy(c), ToRun)'
        /\ Followed(c, ToRun) => Followed(c, ToRun)'
    BY <1>2, <1>3, <1>7, <1>8, ToRunIsSeq, LineAppended DEF Pending, Distinct
  <2>3. Held(c)'
    BY <1>1, <1>3, <1>6, <1>10, <2>1 DEF ConnInv, Held, user
  <2>4. Table(c)'
    BY <1>1, <1>6, <2>1 DEF ConnInv, Table
  <2>5. Life(c)'
    <3>1. Begun(c)' => Begun(c)
      BY <1>1, <1>11, <2>2 DEF Begun, loop, user
    <3>2. Pending(Establish(c))' => Pending(Establish(c))
      BY <1>7, <2>2 DEF Distinct
    <3>3. QED
      BY <1>1, <1>6, <2>2, <3>1, <3>2 DEF ConnInv, Life
  <2>6. Watch(c)'
    BY <1>1, <1>6, <2>1 DEF ConnInv, Watch, IsWriting, loop
  <2>7. Flow(c)'
    BY <1>1, <1>6, <1>7, <2>1, <2>2 DEF ConnInv, Flow, user, Distinct
  <2>8. Served(c)'
    BY <1>1, <1>4, <1>6, <1>7, <1>11, <2>2 DEF ConnInv, Served, Distinct
  <2>9. ASSUME NoThreadSends
        PROVE  Strict(c)'
    <3>1. Strict(c)
      BY <1>6, <2>9 DEF ConnInv
    <3>2. QED
      BY <1>1, <1>7, <2>2, <3>1 DEF Strict, loop, user, IsWriting, Distinct
  <2>10. NoThreadSends' <=> NoThreadSends
    BY DEF NoThreadSends
  <2>11. QED
    BY <2>3, <2>4, <2>5, <2>6, <2>7, <2>8, <2>9, <2>10 DEF ConnInv
<1>14. ~poller'.failed
  BY <1>1 DEF IInv
<1>15. QED
  BY <1>9, <1>12, <1>13, <1>14, SameHolds DEF IInv

(* The destructor goes through all of connections.                         *)
LEMMA AllQueued ==
  ASSUME Types, NEW order \in SetToSeqs(connections)
  PROVE  LET u == [i \in DOMAIN order |-> Functor("connectDestroyed", order[i])]
         IN  /\ u \in Seq(FunctorType)
             /\ \A i \in 1 .. Len(u) : \E d \in connections : u[i] = Destroy(d)
             /\ \A d \in connections : Occurs(Destroy(d), u)
<1> DEFINE n == Cardinality(connections)
           u == [i \in DOMAIN order |-> Functor("connectDestroyed", order[i])]
<1>1. n \in Nat /\ connections \subseteq Conns /\ IsFiniteSet(connections)
  BY FS_CardinalityType DEF Types
<1>2. order \in [1 .. n -> connections]
      /\ \A i, j \in 1 .. n : i # j => order[i] # order[j]
  BY DEF SetToSeqs
<1>3. \A i \in 1 .. n : u[i] = Destroy(order[i]) /\ Destroy(order[i]) \in FunctorType
  BY <1>1, <1>2, NamedFunctors DEF Destroy
<1>4. DOMAIN order = 1 .. n
  BY <1>2
<1>5. u \in [1 .. n -> FunctorType]
  BY <1>3, <1>4
<1>6. order \in Injection(1 .. n, connections)
  BY <1>2 DEF Injection, IsInjective
<1>7. Cardinality(1 .. n) = n
  BY <1>1, FS_Interval
<1>8. order \in Surjection(1 .. n, connections)
  BY <1>1, <1>6, <1>7, FS_Injection
<1>9. \A d \in connections : \E i \in 1 .. n : order[i] = d
  BY <1>8 DEF Surjection
<1> HIDE DEF u, n
<1>10. u \in Seq(FunctorType) /\ Len(u) = n
  BY <1>1, <1>5, FunctionIsSeq
<1>11. \A i \in 1 .. Len(u) : \E d \in connections : u[i] = Destroy(d)
  BY <1>2, <1>3, <1>10
<1>12. \A d \in connections : Occurs(Destroy(d), u)
  BY <1>3, <1>9, <1>10 DEF Occurs
<1>13. QED
  BY <1>10, <1>11, <1>12 DEF u

LEMMA DestroyServerHolds ==
  ASSUME IInv, DestroyServer
  PROVE  IInv'
<1> USE TcpConnectionAssumption
<1>1. Types
  BY DEF IInv
<1>2. PICK order \in SetToSeqs(connections) :
        ioQueue' = ioQueue \o [i \in DOMAIN order |-> Functor("connectDestroyed", order[i])]
  BY DEF DestroyServer
<1> DEFINE u == [i \in DOMAIN order |-> Functor("connectDestroyed", order[i])]
<1>3. /\ u \in Seq(FunctorType)
      /\ \A i \in 1 .. Len(u) : \E d \in connections : u[i] = Destroy(d)
      /\ \A d \in connections : Occurs(Destroy(d), u)
  BY <1>1, AllQueued
<1> HIDE DEF u
<1>4. /\ UNCHANGED <<poller, state, output, net, callbacks, baseQueue, loop, user>>
      /\ ~serverUp' /\ serverUp' \in BOOLEAN /\ connections' = {} /\ ioQueue' = ioQueue \o u
  BY <1>2 DEF DestroyServer, u
<1>5. \A g : Occurs(g, u) => \E d \in connections : g = Destroy(d)
  BY <1>3 DEF Occurs
<1>6. connections \subseteq Conns /\ ioQueue \in Seq(FunctorType) /\ batch \in Seq(FunctorType)
  BY <1>1 DEF Types
<1>7. ToRun' = ToRun \o u
  <2>1. UNCHANGED <<batch, ran>>
    BY <1>4 DEF loop
  <2>2. QED
    BY <1>1, <1>3, <1>4, <2>1, ToRunJoined
<1>8. ioQueue' \in Seq(FunctorType)
  BY <1>3, <1>4, <1>6, ConcatProperties
<1>9. Types' /\ Round'
  <2>1. connections' \subseteq Conns /\ IsFiniteSet(connections')
    BY <1>4, FS_EmptySet
  <2>2. QED
    BY <1>1, <1>4, <1>8, <2>1 DEF IInv, Types, Round, loop, user
<1>10. ASSUME NEW d \in Conns
       PROVE  Referenced(d)' => Referenced(d)
  <2>1. \A g : Occurs(g, ioQueue') <=> Occurs(g, ioQueue) \/ Occurs(g, u)
    <3>1. \A i \in 1 .. Len(u) : \E e \in Conns : u[i] = Destroy(e)
      BY <1>3, <1>6
    <3>2. QED
      BY <1>3, <1>4, <1>6, <3>1, LineJoined
  <2>2. ASSUME HeldBy(ioQueue', d)
        PROVE  HeldBy(ioQueue, d) \/ d \in connections
    <3>1. PICK g \in FunctorType : Occurs(g, ioQueue') /\ g.run \in Strong /\ g.conn = d
      BY <1>8, <2>2, HeldByOccurs
    <3>2. CASE Occurs(g, ioQueue)
      BY <1>6, <3>1, <3>2, HeldByOccurs
    <3>3. CASE Occurs(g, u)
      BY <1>5, <1>6, <3>1, <3>3, NamedFunctors
    <3>4. QED
      BY <2>1, <3>1, <3>2, <3>3
  <2>3. /\ HeldBy(batch', d) <=> HeldBy(batch, d)
        /\ HeldBy(baseQueue', d) <=> HeldBy(baseQueue, d)
    BY <1>4 DEF loop
  <2>4. QED
    BY <1>4, <2>2, <2>3 DEF Referenced, loop, user
<1>11. ASSUME NEW d \in Conns
       PROVE  ConnInv(d)'
  <2>1. ConnInv(d) /\ Distinct(d)
    BY AllDistinct DEF IInv
  <2>2. Accepted(d)' <=> Accepted(d)
    BY <1>4 DEF Accepted
  <2>3. /\ \A g : Pending(g)' <=> Pending(g) \/ Occurs(g, u)
        /\ AtMostOnce(Establish(d), ToRun) => AtMostOnce(Establish(d), ToRun)'
        /\ Precedes(Establish(d), Destroy(d), ToRun) =>
             Precedes(Establish(d), Destroy(d), ToRun)'
        /\ Followed(d, ToRun) => Followed(d, ToRun)'
    <3>1. \A i \in 1 .. Len(u) : \E e \in Conns : u[i] = Destroy(e)
      BY <1>3, <1>6
    <3>2. QED
      BY <1>1, <1>3, <1>7, <3>1, ToRunIsSeq, LineJoined DEF Pending
  <2>4. \A g \in FunctorType : g.conn = d /\ Occurs(g, u) => g = Destroy(d)
    BY <1>5, <1>6, NamedFunctors
  <2>5. \A g \in FunctorType : g.conn = d /\ g # Destroy(d) => (Pending(g)' <=> Pending(g))
    BY <2>3, <2>4
  <2>6. /\ Pending(Establish(d))' <=> Pending(Establish(d))
        /\ Pending(HighWater(d))' <=> Pending(HighWater(d))
        /\ Pending(WriteComplete(d))' <=> Pending(WriteComplete(d))
        /\ Pending(RemoveInPool(d))' <=> Pending(RemoveInPool(d))
        /\ Pending(Functor("sendInLoop", d))' <=> Pending(Functor("sendInLoop", d))
        /\ Pending(Functor("shutdownInLoop", d))' <=> Pending(Functor("shutdownInLoop", d))
    BY <2>1, <2>5, NamedFunctors DEF Distinct
  <2>7. \A g : Occurs(g, baseQueue)' <=> Occurs(g, baseQueue)
    BY <1>4
  <2>8. Held(d)'
    BY <1>4, <1>10, <2>1, <2>2 DEF ConnInv, Held, user
  <2>9. Table(d)'
    BY <1>4, <2>1, <2>2 DEF ConnInv, Table
  <2>10. Life(d)'
    <3>1. Begun(d)' => Begun(d)
      BY <1>4, <2>5, <2>7 DEF Begun, loop, user
    <3>2. QED
      BY <1>4, <2>1, <2>3, <2>6, <3>1 DEF ConnInv, Life
  <2>11. Watch(d)'
    BY <1>4, <2>1, <2>2 DEF ConnInv, Watch, IsWriting, loop
  <2>12. Flow(d)'
    BY <1>4, <2>1, <2>2, <2>3, <2>6 DEF ConnInv, Flow, user
  <2>13. Served(d)'
    BY <1>4, <2>1, <2>6, <2>7 DEF ConnInv, Served
  <2>14. ASSUME NoThreadSends
         PROVE  Strict(d)'
    <3>1. Strict(d)
      BY <2>1, <2>14 DEF ConnInv
    <3>2. d \in connections \/ Pending(Destroy(d)) => Pending(Destroy(d))'
      BY <1>3, <2>3
    <3>3. QED
      BY <1>4, <2>6, <3>1, <3>2 DEF Strict, loop, user, IsWriting
  <2>15. NoThreadSends' <=> NoThreadSends
    BY DEF NoThreadSends
  <2>16. QED
    BY <2>8, <2>9, <2>10, <2>11, <2>12, <2>13, <2>14, <2>15 DEF ConnInv
<1>12. ~poller'.failed
  BY <1>4 DEF IInv
<1>13. QED
  BY <1>9, <1>11, <1>12 DEF IInv

-----------------------------------------------------------------------------
(***************************************************************************)
(* What the steps on one connection have in common.  Bare functors are     *)
(* those bound to a bare this.                                             *)
(***************************************************************************)

Kinds == {"ERR", "IN", "MSG", "OUT", "HUP"}

(* What the loop and the other threads do not see of such a step.          *)
Frame ==
  /\ UNCHANGED <<serverUp, userPc, batch, phase, active, handling>>
  /\ ran' \in 0 .. Len(batch) /\ (phase # "functors" => ran' = ran)
  /\ revents' \in [Conns -> SUBSET Kinds]
  /\ \A d \in Conns : SameRound(d)
  /\ \A d \in Conns : handling = d /\ "IN" \in revents'[d] => "HUP" \notin revents'[d]

LEMMA FrameRound ==
  ASSUME IInv, Frame
  PROVE  Round'
BY DEF IInv, Round, Frame

(* A callback of c is running, and revents_ becomes R.                     *)
LEMMA CallbackFrame ==
  ASSUME IInv, NEW c \in Conns, NEW ev, Callback(c, ev), NEW R \in SUBSET Kinds,
         revents' = [revents EXCEPT ![c] = R],
         R \cap {"IN", "MSG"} # {} => revents[c] \cap {"IN", "MSG"} # {},
         R \cap {"IN", "MSG", "HUP"} # {} => revents[c] \cap {"IN", "MSG", "HUP"} # {},
         "IN" \in R => "HUP" \notin R,
         UNCHANGED <<serverUp, userPc>>
  PROVE  /\ Frame /\ UNCHANGED <<batch, ran>> /\ revents'[c] = R
         /\ handling = c /\ handling' = c /\ Referenced(c) /\ Accepted(c)
         /\ callbacks[c].up = 1
<1> USE TcpConnectionAssumption
<1>1. /\ handling = c /\ UNCHANGED <<batch, ran, phase, active, handling>>
      /\ c \notin active
  BY DEF Callback, IInv, Round
<1>2. revents \in [Conns -> SUBSET Kinds] /\ ran \in 0 .. Len(batch)
  BY DEF IInv, Types, Kinds
<1>3. /\ revents' \in [Conns -> SUBSET Kinds] /\ revents'[c] = R
      /\ \A d \in Conns \ {c} : revents'[d] = revents[d]
  BY <1>2
<1>4. \A d \in Conns : SameRound(d)
  BY <1>1, <1>3 DEF SameRound
<1>5. Referenced(c) /\ Begun(c)
  BY <1>1 DEF Referenced, Begun
<1>6. Accepted(c) /\ callbacks[c].up = 1
  BY <1>5 DEF IInv, ConnInv, Held, Life
<1>7. Frame
  BY <1>1, <1>2, <1>3, <1>4 DEF Frame
<1>8. QED
  BY <1>1, <1>3, <1>5, <1>6, <1>7

(* s is what there is to run, or what is left of it when a bare functor    *)
(* has been taken.                                                         *)
BareTaken(s) ==
  /\ s \in Seq(FunctorType)
  /\ \A f : Occurs(f, s) => Pending(f)
  /\ \A f : Pending(f) => Occurs(f, s) \/ f.run \notin Strong
  /\ \A d \in Conns :
       /\ AtMostOnce(Establish(d), ToRun) => AtMostOnce(Establish(d), s)
       /\ Precedes(Establish(d), Destroy(d), ToRun) =>
            Precedes(Establish(d), Destroy(d), s)
       /\ Followed(d, ToRun) => Followed(d, s)

LEMMA NoneTaken ==
  ASSUME Types
  PROVE  BareTaken(ToRun)
BY ToRunIsSeq DEF BareTaken, Pending

LEMMA OneTaken ==
  ASSUME Types, ToRun # <<>>, Head(ToRun).run \notin Strong
  PROVE  BareTaken(Tail(ToRun))
<1> DEFINE t == Tail(ToRun)
<1>1. t \in Seq(FunctorType)
  BY ToRunIsSeq, HeadTailProperties
<1>2. \A f : Pending(f) <=> Occurs(f, t) \/ f = Head(ToRun)
  BY ToRunIsSeq, InTail DEF Pending
<1>3. ASSUME NEW d \in Conns
      PROVE  /\ AtMostOnce(Establish(d), ToRun) => AtMostOnce(Establish(d), t)
             /\ Precedes(Establish(d), Destroy(d), ToRun) =>
                  Precedes(Establish(d), Destroy(d), t)
             /\ Followed(d, ToRun) => Followed(d, t)
  BY ToRunIsSeq, LineRun
<1> HIDE DEF t
<1>4. BareTaken(t)
  BY <1>1, <1>2, <1>3 DEF BareTaken
<1>5. QED
  BY <1>4 DEF t

LEMMA StrongFunctors ==
  ASSUME NEW c
  PROVE  /\ Establish(c).run \in Strong /\ Destroy(c).run \in Strong
         /\ RemoveInPool(c).run \in Strong /\ HighWater(c).run \in Strong
         /\ WriteComplete(c).run \in Strong
         /\ Functor("sendInLoop", c).run \notin Strong
         /\ Functor("shutdownInLoop", c).run \notin Strong
BY DEF Strong, Functor, Establish, Destroy, RemoveInPool, HighWater, WriteComplete

(* Then g is queued, or nothing is, and other connections see no more.     *)
LEMMA BareLine ==
  ASSUME NEW s, BareTaken(s), NEW d \in Conns,
         \/ ToRun' = s
         \/ \E g \in FunctorType : ToRun' = Append(s, g) /\ g.conn # d
  PROVE  SameLine(d)
<1>1. CASE ToRun' = s
  BY <1>1, StrongFunctors DEF BareTaken, SameLine, Pending
<1>2. ASSUME NEW g \in FunctorType, ToRun' = Append(s, g), g.conn # d
      PROVE  SameLine(d)
  <2>1. g \notin {Establish(d), Destroy(d), HighWater(d), WriteComplete(d)}
    BY <1>2, NamedFunctors
  <2>2. s \in Seq(FunctorType)
    BY DEF BareTaken
  <2>3. /\ \A f : Occurs(f, ToRun') <=> Occurs(f, s) \/ f = g
        /\ AtMostOnce(Establish(d), s) => AtMostOnce(Establish(d), ToRun')
        /\ Precedes(Establish(d), Destroy(d), s) =>
             Precedes(Establish(d), Destroy(d), ToRun')
        /\ Followed(d, s) => Followed(d, ToRun')
    BY <1>2, <2>1, <2>2, LineAppended
  <2>4. QED
    BY <1>2, <2>3, StrongFunctors DEF BareTaken, SameLine, Pending
<1>3. QED
  BY <1>1, <1>2

-----------------------------------------------------------------------------
(***************************************************************************)
(* Callbacks that find nothing to do, or get nothing done.                 *)
(***************************************************************************)

LEMMA LightCallback ==
  ASSUME IInv, Frame, ran' = ran,
         UNCHANGED <<poller, state, output, callbacks, server, ioQueue, user>>,
         NEW c \in Conns,
         NEW s \in [peer : {"open", "closed", "reset"}, data : BOOLEAN,
                    room : BOOLEAN, shut : BOOLEAN, err : BOOLEAN],
         s.shut = net[c].shut, net' = [net EXCEPT ![c] = s]
  PROVE  IInv'
<1>1. UNCHANGED <<batch, ran, active, handling, phase>>
  BY DEF Frame
<1>2. /\ net' \in [Conns -> [peer : {"open", "closed", "reset"}, data : BOOLEAN,
                             room : BOOLEAN, shut : BOOLEAN, err : BOOLEAN]]
      /\ \A d \in Conns : net'[d].shut = net[d].shut
  BY DEF IInv, Types
<1>3. Types'
  BY <1>1, <1>2 DEF IInv, Types, Frame, server, user, Kinds
<1>4. ASSUME NEW d \in Conns
      PROVE  Same(d)
  <2>1. handling' = d => Referenced(d)
    BY <1>1 DEF Referenced
  <2>2. SameRow(d) /\ SameLine(d) /\ SameBase(d) /\ SameUse(d)
    BY <1>1, <1>2, <2>1, LightFrame DEF user
  <2>3. SameRound(d)
    BY DEF Frame
  <2>4. QED
    BY <2>2, <2>3 DEF Same
<1>5. QED
  BY <1>3, <1>4, FrameRound, LightStep

LEMMA HandleErrorHolds ==
  ASSUME IInv, NEW c \in Conns, HandleError(c)
  PROVE  IInv'
<1> DEFINE R == revents[c] \ {"ERR"}
<1>1. R \in SUBSET Kinds /\ ("IN" \in R => "HUP" \notin R)
  BY DEF IInv, Types, Round, HandleError, Callback, Kinds
<1>2. Frame /\ ran' = ran
  <2>1. revents' = [revents EXCEPT ![c] = R] /\ UNCHANGED <<serverUp, userPc>>
    BY DEF HandleError, server, user
  <2>2. Callback(c, "ERR")
    BY DEF HandleError
  <2>3. QED
    BY <1>1, <2>1, <2>2, CallbackFrame
<1>3. net[c] \in [peer : {"open", "closed", "reset"}, data : BOOLEAN,
                  room : BOOLEAN, shut : BOOLEAN, err : BOOLEAN]
  BY DEF IInv, Types
<1>4. PICK s \in [peer : {"open", "closed", "reset"}, data : BOOLEAN,
                  room : BOOLEAN, shut : BOOLEAN, err : BOOLEAN] :
        s.shut = net[c].shut /\ net' = [net EXCEPT ![c] = s]
  BY <1>3 DEF HandleError
<1>5. QED
  BY <1>2, <1>4, LightCallback DEF HandleError

(* The line of c when its own functor g is queued.                         *)
LEMMA BareOwnLine ==
  ASSUME NEW s, BareTaken(s), NEW c \in Conns,
         NEW g \in FunctorType, g # Establish(c), ToRun' = Append(s, g)
  PROVE  /\ \A f : Pending(f)' <=> Occurs(f, s) \/ f = g
         /\ AtMostOnce(Establish(c), ToRun) => AtMostOnce(Establish(c), ToRun)'
         /\ Precedes(Establish(c), Destroy(c), ToRun) =>
              Precedes(Establish(c), Destroy(c), ToRun)'
         /\ Followed(c, ToRun) /\ g # HighWater(c) => Followed(c, ToRun)'
         /\ g = WriteComplete(c) => Followed(c, ToRun)'
<1>1. s \in Seq(FunctorType)
  BY DEF BareTaken
<1>2. /\ \A f : Occurs(f, ToRun') <=> Occurs(f, s) \/ f = g
      /\ AtMostOnce(Establish(c), s) => AtMostOnce(Establish(c), ToRun')
      /\ Precedes(Establish(c), Destroy(c), s) => Precedes(Establish(c), Destroy(c), ToRun')
      /\ Followed(c, s) /\ g # HighWater(c) => Followed(c, ToRun')
      /\ g = WriteComplete(c) => Followed(c, ToRun')
  BY <1>1, LineAppended
<1>3. QED
  BY <1>2 DEF BareTaken, Pending

Socket == [peer : {"open", "closed", "reset"}, data : BOOLEAN,
           room : BOOLEAN, shut : BOOLEAN, err : BOOLEAN]

(* sendInLoop, called in place or run as a functor.                        *)
LEMMA SendHolds ==
  ASSUME IInv, Frame, NEW c \in Conns, SendInLoop(c),
         UNCHANGED <<connections, baseQueue, userRef, paused>>,
         NEW s, BareTaken(s), ioQueue' = ioQueue => ToRun' = s,
         \A g \in FunctorType : ioQueue' = Append(ioQueue, g) => ToRun' = Append(s, g),
         Accepted(c), callbacks[c].up = 1, NoThreadSends => state[c] = "connected"
  PROVE  IInv'
<1> USE TcpConnectionAssumption
<1>1. /\ UNCHANGED <<state, callbacks, serverUp, connections, baseQueue, userRef, userPc,
                     paused, batch, phase, active, handling>>
      /\ Types /\ ConnInv(c)
  BY DEF SendInLoop, Frame, IInv
<1>2. /\ HighWater(c) \in FunctorType /\ HighWater(c).conn = c
      /\ WriteComplete(c) \in FunctorType /\ WriteComplete(c).conn = c
      /\ Distinct(c)
  BY NamedFunctors, AllDistinct
<1> DEFINE Direct == /\ ~output[c] /\ poller' = poller /\ output' = output
                     /\ ioQueue' = IF FlowControl THEN Append(ioQueue, WriteComplete(c))
                                                  ELSE ioQueue
           Buffered == /\ output' = [output EXCEPT ![c] = TRUE]
                       /\ poller' = IF IsWriting(poller, c) THEN poller
                                                            ELSE EnableWriting(poller, c)
                       /\ \/ ioQueue' = ioQueue
                          \/ FlowControl /\ ioQueue' = Append(ioQueue, HighWater(c))
<1>3. Direct \/ Buffered
  BY DEF SendInLoop, Notify, WriteComplete, HighWater
<1>4. /\ net' \in [Conns -> Socket]
      /\ \A d \in Conns : net'[d].shut = net[d].shut
  <2>1. net \in [Conns -> Socket]
    BY <1>1 DEF Types, Socket
  <2>2. PICK v \in Socket : v.shut = net[c].shut /\ net' = [net EXCEPT ![c] = v]
    <3>1. net[c] \in Socket
      BY <2>1
    <3>2. CASE \E room \in BOOLEAN : net' = [net EXCEPT ![c].room = room]
      <4>1. PICK room \in BOOLEAN : net' = [net EXCEPT ![c].room = room]
        BY <3>2
      <4>2. [net[c] EXCEPT !.room = room] \in Socket
        BY <3>1 DEF Socket
      <4>3. QED
        BY <3>1, <4>1, <4>2 DEF Socket
    <3>3. CASE net' = [net EXCEPT ![c].room = FALSE, ![c].err = FALSE]
      <4>1. [net[c] EXCEPT !.room = FALSE, !.err = FALSE] \in Socket
        BY <3>1 DEF Socket
      <4>2. QED
        BY <2>1, <3>1, <3>3, <4>1 DEF Socket
    <3>4. CASE net' = net
      BY <2>1, <3>1, <3>4
    <3>5. QED
      BY <3>2, <3>3, <3>4 DEF SendInLoop
  <2>3. QED
    BY <2>1, <2>2
<1>5. /\ output' \in [Conns -> BOOLEAN] /\ output'[c] \in BOOLEAN
      /\ \A d \in Conns \ {c} : output'[d] = output[d]
  BY <1>1, <1>3 DEF Types
<1>6. \/ ioQueue' = ioQueue
      \/ /\ FlowControl
         /\ \/ ioQueue' = Append(ioQueue, WriteComplete(c))
            \/ ioQueue' = Append(ioQueue, HighWater(c))
  BY <1>3
<1>7. /\ poller.fd[c] = c
      /\ poller.index[c] # "new" => poller.channels[c] = c
      /\ poller.index[c] = "added" <=> poller.interest[c] # None
      /\ poller \in PollerType
  BY <1>1 DEF ConnInv, Table, Types
<1>8. /\ poller' \in PollerType /\ poller'.failed = poller.failed
      /\ OthersKept(poller, poller', c)
      /\ poller'.fd[c] = c
      /\ output'[c] /\ (callbacks[c].down = 0 \/ ~output[c]) => IsWriting(poller', c)
      /\ "read" \in poller'.events[c] <=> "read" \in poller.events[c]
      /\ poller'.index[c] \in {poller.index[c], "added"}
      /\ poller'.index[c] = "added" <=> poller'.interest[c] # None
      /\ poller'.interest[c] # None =>
           poller'.interest[c] = [ptr |-> c, events |-> poller'.events[c]]
      /\ poller'.index[c] = "deleted" => poller'.events[c] = {}
      /\ poller'.index[c] # "new" => poller'.channels[c] = c
      /\ poller'.index[c] = "new" => poller'.channels[c] = poller.channels[c]
      /\ poller'.interest[c] # None => poller'.events[c] # {} \/ poller.interest[c] # None
      /\ poller.events[c] # {} => poller'.events[c] # {}
  <2>1. CASE poller' = poller /\ (output'[c] => IsWriting(poller, c) \/ output[c])
    BY <1>1, <1>7, <2>1 DEF ConnInv, Table, Watch, OthersKept
  <2>2. CASE poller' = EnableWriting(poller, c)
    <3>1. PICK E : E = poller.events[c] \cup {"write"}
      OBVIOUS
    <3>2. E \in SUBSET Events /\ poller' = SetEvents(poller, c, E)
      BY <1>7, <2>2, <3>1 DEF EnableWriting, PollerType, Events
    <3>3. /\ poller' \in PollerType /\ poller'.failed = poller.failed
          /\ poller'.fd[c] = c /\ poller'.events[c] = E /\ poller'.channels[c] = c
          /\ poller'.index[c] = IndexAfter(poller, c, E)
          /\ poller'.interest[c] # None =>
               poller'.interest[c] = [ptr |-> c, events |-> E]
          /\ poller'.index[c] = "added" <=> poller'.interest[c] # None
          /\ OthersKept(poller, poller', c)
      BY <1>7, <3>2, SetEventsRow
    <3>4. IndexAfter(poller, c, E) = "added"
      BY <3>1 DEF IndexAfter
    <3>5. QED
      BY <3>1, <3>3, <3>4 DEF IsWriting
  <2>3. output[c] \in BOOLEAN /\ (Buffered => output'[c])
    BY <1>1 DEF Types
  <2>4. QED
    BY <1>3, <2>1, <2>2, <2>3
<1>9. /\ ioQueue' \in Seq(FunctorType)
      /\ \A d \in Conns \ {c} : HeldBy(ioQueue', d) => HeldBy(ioQueue, d)
  <2>1. ioQueue \in Seq(FunctorType)
    BY <1>1 DEF Types
  <2>2. CASE ioQueue' = ioQueue
    BY <2>1, <2>2
  <2>3. CASE ioQueue' # ioQueue
    <3>1. PICK g \in {HighWater(c), WriteComplete(c)} : ioQueue' = Append(ioQueue, g)
      BY <1>6, <2>3
    <3>2. g \in FunctorType /\ g.conn = c
      BY <1>2, <3>1
    <3>3. \A d : HeldBy(ioQueue', d) <=> HeldBy(ioQueue, d) \/ (g.run \in Strong /\ g.conn = d)
      BY <2>1, <3>1, <3>2, HeldByAppended
    <3>4. ioQueue' \in Seq(FunctorType)
      BY <2>1, <3>1, <3>2, AppendProperties
    <3>5. QED
      BY <3>2, <3>3, <3>4
  <2>4. QED
    BY <2>2, <2>3
<1>10. Types' /\ Round'
  <2>1. Types'
    BY <1>1, <1>4, <1>5, <1>8, <1>9 DEF Types, Frame, Kinds, Socket
  <2>2. QED
    BY <2>1, FrameRound
<1>11. ASSUME NEW d \in Conns \ {c}
       PROVE  Same(d)
  <2>1. SameLine(d)
    BY <1>2, <1>6, BareLine
  <2>2. SameRow(d)
    BY <1>1, <1>4, <1>5, <1>8 DEF SameRow, OthersKept
  <2>3. SameUse(d) /\ SameBase(d)
    BY <1>1, <1>9 DEF SameUse, SameBase, Referenced, HeldBy
  <2>4. SameRound(d)
    BY DEF Frame
  <2>5. QED
    BY <2>1, <2>2, <2>3, <2>4 DEF Same
<1>12. /\ \A f : Pending(f)' => \/ Pending(f)
                                \/ FlowControl /\ f \in {HighWater(c), WriteComplete(c)}
       /\ \A f : Pending(f) /\ f.run \in Strong => Pending(f)'
       /\ AtMostOnce(Establish(c), ToRun) => AtMostOnce(Establish(c), ToRun)'
       /\ Precedes(Establish(c), Destroy(c), ToRun) =>
            Precedes(Establish(c), Destroy(c), ToRun)'
  <2>1. CASE ioQueue' = ioQueue
    <3>1. ToRun' = s
      BY <2>1
    <3>2. \A f : Pending(f)' <=> Occurs(f, s)
      BY <3>1 DEF Pending
    <3>3. /\ AtMostOnce(Establish(c), ToRun)' <=> AtMostOnce(Establish(c), s)
          /\ Precedes(Establish(c), Destroy(c), ToRun)' <=>
               Precedes(Establish(c), Destroy(c), s)
      BY <3>1
    <3>4. /\ \A f : Pending(f)' => Pending(f)
          /\ \A f : Pending(f) /\ f.run \in Strong => Pending(f)'
      BY <3>2 DEF BareTaken
    <3>5. QED
      BY <3>3, <3>4 DEF BareTaken
  <2>2. CASE ioQueue' # ioQueue
    <3>1. PICK g \in {HighWater(c), WriteComplete(c)} :
            FlowControl /\ ioQueue' = Append(ioQueue, g)
      BY <1>6, <2>2
    <3>2. ToRun' = Append(s, g) /\ g \in FunctorType /\ g # Establish(c)
      BY <1>2, <3>1 DEF Distinct
    <3>3. /\ \A f : Pending(f)' <=> Occurs(f, s) \/ f = g
          /\ AtMostOnce(Establish(c), ToRun) => AtMostOnce(Establish(c), ToRun)'
          /\ Precedes(Establish(c), Destroy(c), ToRun) =>
               Precedes(Establish(c), Destroy(c), ToRun)'
      BY <3>2, BareOwnLine
    <3>4. /\ \A f : Pending(f)' => Pending(f) \/ f = g
          /\ \A f : Pending(f) /\ f.run \in Strong => Pending(f)'
      BY <3>3 DEF BareTaken
    <3>5. QED
      BY <3>1, <3>3, <3>4
  <2>3. QED
    BY <2>1, <2>2
<1>13. Direct => \/ FlowControl /\ Followed(c, ToRun)' /\ Pending(WriteComplete(c))'
                 \/ ~FlowControl
  <2>1. ASSUME ioQueue' = Append(ioQueue, WriteComplete(c))
        PROVE  Followed(c, ToRun)' /\ Pending(WriteComplete(c))'
    <3>1. ToRun' = Append(s, WriteComplete(c)) /\ WriteComplete(c) # Establish(c)
      BY <1>2, <2>1 DEF Distinct
    <3>2. QED
      BY <1>2, <3>1, BareOwnLine
  <2>2. QED
    BY <2>1, TcpConnectionAssumption
<1> HIDE DEF Direct, Buffered
<1>14. ConnInv(c)'
  <2>1. /\ ~Pending(Establish(c))' /\ (Pending(RemoveInPool(c))' => Pending(RemoveInPool(c)))
        /\ Pending(Functor("sendInLoop", c))' => Pending(Functor("sendInLoop", c))
        /\ Pending(Functor("shutdownInLoop", c))' => Pending(Functor("shutdownInLoop", c))
        /\ Pending(Destroy(c)) => Pending(Destroy(c))'
    <3>1. ~Pending(Establish(c))
      BY <1>1 DEF ConnInv, Life
    <3>2. QED
      BY <1>2, <1>12, <3>1, StrongFunctors DEF Distinct
  <2>2. Accepted(c)'
    BY <1>1 DEF Accepted
  <2>3. Held(c)'
    BY <1>1, <2>2 DEF ConnInv, Held
  <2>4. Table(c)'
    BY <1>1, <1>8, <2>2 DEF ConnInv, Table, Accepted
  <2>5. Life(c)'
    BY <1>1, <1>8, <1>12, <2>1 DEF ConnInv, Life
  <2>6. Watch(c)'
    <3>1. SameRound(c)
      BY DEF Frame
    <3>2. QED
      BY <1>1, <1>8, <3>1 DEF ConnInv, Watch, SameRound
  <2>7. Flow(c)'
    <3>1. ASSUME ~FlowControl
          PROVE  c \notin paused' /\ ~Pending(HighWater(c))'
      BY <1>1, <1>12, <3>1 DEF ConnInv, Flow
    <3>2. ASSUME ~output'[c]
          PROVE  Followed(c, ToRun)' /\ (c \in paused' => Pending(WriteComplete(c))')
      <4>1. Direct
        BY <1>1, <1>3, <3>2 DEF Buffered, Types
      <4>2. ASSUME ~FlowControl
            PROVE  Followed(c, ToRun)'
        BY <3>1, <4>2 DEF Followed, Pending, Occurs
      <4>3. QED
        BY <1>13, <3>1, <4>1, <4>2
    <3>3. QED
      BY <3>1, <3>2 DEF Flow
  <2>8. Served(c)'
    BY <1>1, <2>1 DEF ConnInv, Served
  <2>9. ASSUME NoThreadSends
        PROVE  Strict(c)'
    <3>1. Strict(c) /\ state[c] = "connected"
      BY <1>1, <2>9 DEF ConnInv
    <3>2. callbacks[c].down = 0 /\ poller.index[c] # "new"
      BY <1>1, <3>1 DEF ConnInv, Life
    <3>3. ~net'[c].shut
      BY <1>4, <3>1 DEF Strict
    <3>4. SameRound(c)
      BY DEF Frame
    <3>5. poller'.index[c] # "new" /\ (poller'.interest[c] # None => poller'.events[c] # {})
      BY <1>1, <1>8, <3>1, <3>2 DEF Strict
    <3>6. QED
      BY <1>1, <2>1, <3>1, <3>2, <3>3, <3>4, <3>5 DEF Strict, SameRound
  <2>10. NoThreadSends' <=> NoThreadSends
    BY DEF NoThreadSends
  <2>11. QED
    BY <2>3, <2>4, <2>5, <2>6, <2>7, <2>8, <2>9, <2>10 DEF ConnInv
<1>15. ~poller'.failed
  BY <1>8 DEF IInv
<1>16. QED
  BY <1>10, <1>11, <1>14, <1>15, SameHolds DEF IInv

(* shutdownInLoop: what waits is not cut off.                              *)
LEMMA ShutdownHolds ==
  ASSUME IInv, Frame, NEW c \in Conns, ShutdownInLoop(c),
         UNCHANGED <<connections, baseQueue, ioQueue, userRef, paused>>,
         NEW s, BareTaken(s), ToRun' = s,
         Accepted(c), callbacks[c].up = 1,
         \/ state' = state
         \/ state[c] = "connected" /\ state' = [state EXCEPT ![c] = "disconnected"],
         NoThreadSends => state'[c] = "disconnected"
  PROVE  IInv'
<1> USE TcpConnectionAssumption
<1>1. /\ UNCHANGED <<poller, output, callbacks, serverUp, connections, baseQueue, ioQueue,
                     userRef, userPc, paused, batch, phase, active, handling>>
      /\ Types /\ ConnInv(c)
  BY DEF ShutdownInLoop, Frame, IInv
<1>2. /\ net' \in [Conns -> Socket]
      /\ \A d \in Conns \ {c} : net'[d].shut = net[d].shut
      /\ net'[c].shut <=> net[c].shut \/ ~IsWriting(poller, c)
  <2>1. net \in [Conns -> Socket]
    BY <1>1 DEF Types, Socket
  <2>2. PICK v \in Socket : /\ v.shut <=> net[c].shut \/ ~IsWriting(poller, c)
                            /\ net' = [net EXCEPT ![c] = v]
    <3>1. net[c] \in Socket
      BY <2>1
    <3>2. PICK b \in BOOLEAN : b = (net[c].shut \/ ~IsWriting(poller, c))
      BY <3>1 DEF Socket
    <3>3. [net[c] EXCEPT !.shut = b] \in Socket
      BY <3>1 DEF Socket
    <3>4. net' = [net EXCEPT ![c] = [net[c] EXCEPT !.shut = b]]
      BY <2>1, <3>2 DEF ShutdownInLoop, Socket
    <3>5. QED
      BY <3>1, <3>2, <3>3, <3>4 DEF Socket
  <2>3. QED
    BY <2>1, <2>2
<1>3. /\ state' \in [Conns -> {"unborn", "connecting", "connected", "disconnected", "freed"}]
      /\ \A d \in Conns \ {c} : state'[d] = state[d]
      /\ state'[c] # state[c] => state[c] = "connected" /\ state'[c] = "disconnected"
      /\ Accepted(c)'
  <2>1. state \in [Conns -> {"unborn", "connecting", "connected", "disconnected", "freed"}]
    BY <1>1 DEF Types
  <2>2. CASE state' = state
    BY <2>1, <2>2 DEF Accepted
  <2>3. CASE state[c] = "connected" /\ state' = [state EXCEPT ![c] = "disconnected"]
    BY <2>1, <2>3 DEF Accepted
  <2>4. QED
    BY <2>2, <2>3
<1>4. Types' /\ Round'
  <2>1. Types'
    BY <1>1, <1>2, <1>3 DEF Types, Frame, Kinds, Socket
  <2>2. QED
    BY <2>1, FrameRound
<1>5. ASSUME NEW d \in Conns \ {c}
      PROVE  Same(d)
  <2>1. SameLine(d)
    BY BareLine
  <2>2. SameRow(d)
    BY <1>1, <1>2, <1>3 DEF SameRow
  <2>3. SameUse(d) /\ SameBase(d)
    BY <1>1 DEF SameUse, SameBase, Referenced, HeldBy
  <2>4. SameRound(d)
    BY DEF Frame
  <2>5. QED
    BY <2>1, <2>2, <2>3, <2>4 DEF Same
<1>6. ConnInv(c)'
  <2>1. \A f : Pending(f)' <=> Occurs(f, s)
    BY DEF Pending
  <2>2. /\ AtMostOnce(Establish(c), ToRun) => AtMostOnce(Establish(c), ToRun)'
        /\ Precedes(Establish(c), Destroy(c), ToRun) =>
             Precedes(Establish(c), Destroy(c), ToRun)'
        /\ Followed(c, ToRun) => Followed(c, ToRun)'
    <3>1. /\ AtMostOnce(Establish(c), ToRun)' <=> AtMostOnce(Establish(c), s)
          /\ Precedes(Establish(c), Destroy(c), ToRun)' <=> Precedes(Establish(c), Destroy(c), s)
          /\ Followed(c, ToRun)' <=> Followed(c, s)
      OBVIOUS
    <3>2. QED
      BY <3>1 DEF BareTaken
  <2>3. /\ \A f : Pending(f)' => Pending(f)
        /\ \A f : Pending(f) /\ f.run \in Strong => Pending(f)'
    BY <2>1 DEF BareTaken
  <2>4. /\ ~Pending(Establish(c))
        /\ Pending(Destroy(c)) => Pending(Destroy(c))'
        /\ Pending(WriteComplete(c)) => Pending(WriteComplete(c))'
    BY <1>1, <2>3, StrongFunctors DEF ConnInv, Life
  <2>5. Held(c)'
    BY <1>1, <1>3 DEF ConnInv, Held
  <2>6. Table(c)'
    BY <1>1, <1>3 DEF ConnInv, Table, Accepted
  <2>7. Life(c)'
    BY <1>1, <1>3, <2>2, <2>3, <2>4 DEF ConnInv, Life
  <2>8. Watch(c)'
    <3>1. SameRound(c)
      BY DEF Frame
    <3>2. QED
      BY <1>1, <3>1 DEF ConnInv, Watch, SameRound, IsWriting
  <2>9. Flow(c)'
    BY <1>1, <1>3, <2>2, <2>3, <2>4 DEF ConnInv, Flow
  <2>10. Served(c)'
    BY <1>1, <1>3, <2>3 DEF ConnInv, Served, Accepted
  <2>11. ASSUME NoThreadSends
         PROVE  Strict(c)'
    <3>1. Strict(c) /\ state'[c] = "disconnected" /\ Watch(c)
      BY <1>1, <2>11 DEF ConnInv
    <3>2. SameRound(c)
      BY DEF Frame
    <3>3. net'[c].shut /\ callbacks'[c].down = 0 => ~output'[c] /\ ~IsWriting(poller', c)
      BY <1>1, <1>2, <3>1 DEF Strict, Watch
    <3>4. QED
      BY <1>1, <2>3, <2>4, <3>1, <3>2, <3>3 DEF Strict, SameRound
  <2>12. NoThreadSends' <=> NoThreadSends
    BY DEF NoThreadSends
  <2>13. QED
    BY <2>5, <2>6, <2>7, <2>8, <2>9, <2>10, <2>11, <2>12 DEF ConnInv
<1>7. ~poller'.failed
  BY <1>1 DEF IInv
<1>8. QED
  BY <1>4, <1>5, <1>6, <1>7, SameHolds DEF IInv

(* The message callback, in which the user may call send() or shutdown().  *)
LEMMA MessageCallbackHolds ==
  ASSUME IInv, NEW c \in Conns, MessageCallback(c)
  PROVE  IInv'
<1>1. Types
  BY DEF IInv
<1>2. /\ Frame /\ ran' = ran /\ batch' = batch /\ Accepted(c) /\ callbacks[c].up = 1
      /\ UNCHANGED <<server, user>>
  <2> DEFINE R == revents[c] \ {"MSG"}
  <2>1. Callback(c, "MSG") /\ revents' = [revents EXCEPT ![c] = R] /\ UNCHANGED <<server, user>>
    BY DEF MessageCallback
  <2>2. R \in SUBSET Kinds /\ "IN" \notin R
    BY <1>1, <2>1 DEF Types, Callback, Kinds
  <2>3. "MSG" \in revents[c]
    BY <2>1 DEF Callback
  <2> HIDE DEF R
  <2>4. QED
    BY <2>1, <2>2, <2>3, CallbackFrame DEF server, user
<1>3. /\ BareTaken(ToRun)
      /\ ioQueue' = ioQueue => ToRun' = ToRun
      /\ \A g \in FunctorType : ioQueue' = Append(ioQueue, g) => ToRun' = Append(ToRun, g)
  BY <1>1, <1>2, NoneTaken, ToRunQueued DEF ToRun
<1>4. PICK s : s = ToRun
  OBVIOUS
<1>5. CASE UNCHANGED <<poller, state, output, net, callbacks, ioQueue>>
  <2>1. net' = [net EXCEPT ![c] = net[c]] /\ net[c] \in Socket
    BY <1>1, <1>5 DEF Types, Socket
  <2>2. QED
    BY <1>2, <1>5, <2>1, LightCallback DEF Socket
<1>6. CASE state[c] = "connected" /\ SendInLoop(c)
  BY <1>2, <1>3, <1>4, <1>6, SendHolds DEF server, user
<1>7. CASE /\ state[c] = "connected"
           /\ state' = [state EXCEPT ![c] = "disconnected"]
           /\ ShutdownInLoop(c)
           /\ UNCHANGED ioQueue
  <2>1. state'[c] = "disconnected"
    BY <1>1, <1>7 DEF Types
  <2>2. QED
    BY <1>2, <1>3, <1>4, <1>7, <2>1, ShutdownHolds DEF server, user
<1>8. QED
  BY <1>5, <1>6, <1>7 DEF MessageCallback

-----------------------------------------------------------------------------
(***************************************************************************)
(* handleWrite, handleRead and handleClose.                                *)
(***************************************************************************)

(* The output buffer runs empty.                                           *)
LEMMA FlushHolds ==
  ASSUME IInv, Frame, NEW c \in Conns, Flush(c), handling = c, IsWriting(poller, c),
         UNCHANGED <<state, callbacks, server, ran, userRef>>,
         Accepted(c), callbacks[c].up = 1
  PROVE  IInv'
<1> USE TcpConnectionAssumption
<1>1. /\ UNCHANGED <<state, callbacks, serverUp, connections, baseQueue, userRef, userPc,
                     paused, batch, ran, phase, active, handling>>
      /\ output' = [output EXCEPT ![c] = FALSE]
      /\ poller' = DisableWriting(poller, c)
      /\ ioQueue' = IF FlowControl THEN Append(ioQueue, WriteComplete(c)) ELSE ioQueue
      /\ Types /\ ConnInv(c)
  BY DEF Flush, Notify, WriteComplete, Frame, IInv, server
<1>2. /\ WriteComplete(c) \in FunctorType /\ WriteComplete(c).conn = c /\ Distinct(c)
  BY NamedFunctors, AllDistinct
<1>3. BareTaken(ToRun)
  BY <1>1, NoneTaken
<1>4. /\ FlowControl => ToRun' = Append(ToRun, WriteComplete(c))
      /\ ~FlowControl => ToRun' = ToRun
  BY <1>1, <1>2, ToRunQueued DEF ToRun
<1>5. /\ net' \in [Conns -> Socket]
      /\ \A d \in Conns \ {c} : net'[d].shut = net[d].shut
      /\ net'[c].shut <=> net[c].shut \/ state[c] = "disconnected"
  <2>1. net \in [Conns -> Socket]
    BY <1>1 DEF Types, Socket
  <2>2. PICK v \in Socket : /\ v.shut <=> net[c].shut \/ state[c] = "disconnected"
                            /\ net' = [net EXCEPT ![c] = v]
    <3>1. net[c] \in Socket
      BY <2>1
    <3>2. PICK room \in BOOLEAN :
            net' = [net EXCEPT ![c].room = room,
                               ![c].shut = @ \/ state[c] = "disconnected"]
      BY DEF Flush
    <3>3. PICK b \in BOOLEAN : b = (net[c].shut \/ state[c] = "disconnected")
      BY <3>1 DEF Socket
    <3>4. [net[c] EXCEPT !.room = room, !.shut = b] \in Socket
      BY <3>1 DEF Socket
    <3>5. net' = [net EXCEPT ![c] = [net[c] EXCEPT !.room = room, !.shut = b]]
      BY <2>1, <3>1, <3>2, <3>3 DEF Socket
    <3>6. QED
      BY <3>1, <3>3, <3>4, <3>5 DEF Socket
  <2>3. QED
    BY <2>1, <2>2
<1>6. /\ output' \in [Conns -> BOOLEAN] /\ ~output'[c]
      /\ \A d \in Conns \ {c} : output'[d] = output[d]
  BY <1>1 DEF Types
<1>7. /\ poller.fd[c] = c
      /\ poller.index[c] # "new" => poller.channels[c] = c
      /\ poller.index[c] = "added" <=> poller.interest[c] # None
      /\ poller.index[c] # "deleted"
      /\ poller \in PollerType
  BY <1>1 DEF ConnInv, Table, Types, IsWriting
<1>8. PICK E : E = poller.events[c] \ {"write"} /\ poller' = SetEvents(poller, c, E)
  BY <1>1 DEF DisableWriting
<1>9. /\ poller' \in PollerType /\ poller'.failed = poller.failed
      /\ poller'.fd[c] = c /\ poller'.events[c] = E /\ poller'.channels[c] = c
      /\ poller'.index[c] = IndexAfter(poller, c, E)
      /\ poller'.interest[c] # None => poller'.interest[c] = [ptr |-> c, events |-> E]
      /\ poller'.index[c] = "added" <=> poller'.interest[c] # None
      /\ OthersKept(poller, poller', c)
  <2>1. E \in SUBSET Events
    BY <1>7, <1>8 DEF PollerType, Events
  <2>2. poller' = SetEvents(poller, c, E)
    BY <1>8
  <2>3. QED
    BY <1>7, <2>1, <2>2, SetEventsRow
<1>10. /\ poller'.index[c] \in {"added", "deleted"}
       /\ poller'.index[c] = "deleted" => E = {}
       /\ poller.index[c] = "added" /\ E = {} => poller'.index[c] = "deleted"
  BY <1>9 DEF IndexAfter
<1>11. /\ ioQueue' \in Seq(FunctorType)
       /\ \A d \in Conns \ {c} : HeldBy(ioQueue', d) => HeldBy(ioQueue, d)
  <2>1. ioQueue \in Seq(FunctorType)
    BY <1>1 DEF Types
  <2>2. CASE FlowControl
    <3>1. ioQueue' = Append(ioQueue, WriteComplete(c))
      BY <1>1, <2>2
    <3>2. QED
      BY <1>2, <2>1, <3>1, AppendProperties, HeldByAppended
  <2>3. CASE ~FlowControl
    BY <1>1, <2>1, <2>3
  <2>4. QED
    BY <2>2, <2>3
<1>12. Types' /\ Round'
  <2>1. Types'
    BY <1>1, <1>5, <1>6, <1>9, <1>11 DEF Types, Frame, Kinds, Socket
  <2>2. QED
    BY <2>1, FrameRound
<1>13. ASSUME NEW d \in Conns \ {c}
       PROVE  Same(d)
  <2>1. SameLine(d)
    BY <1>2, <1>3, <1>4, BareLine
  <2>2. SameRow(d)
    BY <1>1, <1>5, <1>6, <1>9 DEF SameRow, OthersKept
  <2>3. SameUse(d) /\ SameBase(d)
    BY <1>1, <1>11 DEF SameUse, SameBase, Referenced, HeldBy
  <2>4. SameRound(d)
    BY DEF Frame
  <2>5. QED
    BY <2>1, <2>2, <2>3, <2>4 DEF Same
<1>14. /\ \A f : Pending(f)' => Pending(f) \/ f = WriteComplete(c)
       /\ \A f : Pending(f) => Pending(f)'
       /\ AtMostOnce(Establish(c), ToRun) => AtMostOnce(Establish(c), ToRun)'
       /\ Precedes(Establish(c), Destroy(c), ToRun) =>
            Precedes(Establish(c), Destroy(c), ToRun)'
       /\ FlowControl => Followed(c, ToRun)' /\ Pending(WriteComplete(c))'
  <2>1. CASE FlowControl
    <3>1. ToRun' = Append(ToRun, WriteComplete(c))
      BY <1>4, <2>1
    <3>2. WriteComplete(c) # Establish(c)
      BY <1>2 DEF Distinct
    <3>3. /\ \A f : Pending(f)' <=> Occurs(f, ToRun) \/ f = WriteComplete(c)
          /\ AtMostOnce(Establish(c), ToRun) => AtMostOnce(Establish(c), ToRun)'
          /\ Precedes(Establish(c), Destroy(c), ToRun) =>
               Precedes(Establish(c), Destroy(c), ToRun)'
          /\ Followed(c, ToRun)'
      <4>1. PICK s : s = ToRun
        OBVIOUS
      <4>2. QED
        BY <1>2, <1>3, <3>1, <3>2, <4>1, BareOwnLine
    <3>4. QED
      BY <3>3 DEF Pending
  <2>2. CASE ~FlowControl
    BY <1>4, <2>2 DEF Pending
  <2>3. QED
    BY <2>1, <2>2
<1>15. ConnInv(c)'
  <2>1. /\ ~Pending(Establish(c))' /\ (Pending(RemoveInPool(c))' => Pending(RemoveInPool(c)))
        /\ Pending(HighWater(c))' => Pending(HighWater(c))
        /\ Pending(Functor("sendInLoop", c))' => Pending(Functor("sendInLoop", c))
        /\ Pending(Functor("shutdownInLoop", c))' => Pending(Functor("shutdownInLoop", c))
    <3>1. ~Pending(Establish(c))
      BY <1>1 DEF ConnInv, Life
    <3>2. QED
      BY <1>2, <1>14, <3>1 DEF Distinct
  <2>2. Accepted(c)'
    BY <1>1 DEF Accepted
  <2>3. Held(c)'
    BY <1>1, <2>2 DEF ConnInv, Held
  <2>4. Table(c)'
    BY <1>1, <1>6, <1>9, <1>10, <2>2 DEF ConnInv, Table, Accepted
  <2>5. Life(c)'
    BY <1>1, <1>10, <1>14, <2>1 DEF ConnInv, Life
  <2>6. Watch(c)'
    <3>1. SameRound(c)
      BY DEF Frame
    <3>2. "read" \in poller'.events[c] <=> "read" \in poller.events[c]
      BY <1>8, <1>9
    <3>3. QED
      BY <1>1, <1>6, <3>1, <3>2, <2>2 DEF ConnInv, Watch, SameRound
  <2>7. Flow(c)'
    <3>1. ASSUME ~FlowControl
          PROVE  c \notin paused' /\ ~Pending(HighWater(c))'
      BY <1>1, <2>1, <3>1 DEF ConnInv, Flow
    <3>2. ASSUME ~FlowControl
          PROVE  Followed(c, ToRun)'
      BY <3>1, <3>2 DEF Followed, Pending, Occurs
    <3>3. QED
      BY <1>14, <3>1, <3>2 DEF Flow
  <2>8. Served(c)'
    BY <1>1, <2>1 DEF ConnInv, Served
  <2>9. ASSUME NoThreadSends
        PROVE  Strict(c)'
    <3>1. Strict(c) /\ poller.events[c] # {}
      BY <1>1, <2>9 DEF ConnInv, IsWriting
    <3>2. callbacks[c].down = 0 /\ poller.index[c] = "added"
      <4>1. callbacks[c].down \in Nat /\ callbacks[c].down \in 0 .. 1
        BY <1>1, <3>1 DEF Types, Strict
      <4>2. poller.index[c] # "new"
        BY <3>1 DEF Strict
      <4>3. QED
        BY <1>1, <1>7, <3>1, <4>1, <4>2 DEF Strict, Types, PollerType
    <3>3. /\ poller'.interest[c] # None => poller'.events[c] # {}
          /\ ~IsWriting(poller', c)
      BY <1>8, <1>9, <1>10, <3>2 DEF IsWriting
    <3>4. SameRound(c)
      BY DEF Frame
    <3>5. Pending(Destroy(c)) => Pending(Destroy(c))'
      BY <1>14
    <3>6. net'[c].shut => state[c] \in {"disconnected", "freed"}
      BY <1>5, <3>1 DEF Strict
    <3>7. poller'.index[c] # "new"
      BY <1>10
    <3>8. /\ c \in active' \/ handling' = c => poller'.index[c] # "new"
          /\ handling' = c =>
               revents'[c] \cap {"IN", "MSG", "HUP"} = {} \/ callbacks'[c].down = 0
          /\ callbacks'[c].down = 0
      BY <1>1, <3>2, <3>7
    <3>9. poller'.index[c] # "new" \/ Pending(Establish(c))' =>
            c \in connections' \/ Pending(Destroy(c))'
      BY <1>1, <3>1, <3>2, <3>5 DEF Strict
    <3>10. /\ userPc'[c] # "send" /\ ~Pending(Functor("sendInLoop", c))'
           /\ state'[c] # "freed"
           /\ \/ userPc'[c] = "stored" \/ Pending(Functor("shutdownInLoop", c))'
              \/ net'[c].shut
              => state'[c] \in {"disconnected", "freed"}
      BY <1>1, <2>1, <2>2, <3>1, <3>6 DEF Strict, Accepted
    <3>11. QED
      BY <1>6, <3>3, <3>8, <3>9, <3>10 DEF Strict
  <2>10. NoThreadSends' <=> NoThreadSends
    BY DEF NoThreadSends
  <2>11. QED
    BY <2>3, <2>4, <2>5, <2>6, <2>7, <2>8, <2>9, <2>10 DEF ConnInv
<1>16. ~poller'.failed
  BY <1>9 DEF IInv
<1>17. QED
  BY <1>12, <1>13, <1>15, <1>16, SameHolds DEF IInv

LEMMA HandleWriteHolds ==
  ASSUME IInv, NEW c \in Conns, HandleWrite(c)
  PROVE  IInv'
<1>1. Types
  BY DEF IInv
<1>2. /\ Frame /\ ran' = ran /\ handling = c /\ Accepted(c) /\ callbacks[c].up = 1
      /\ UNCHANGED <<state, callbacks, server, userRef, userPc>>
  <2> DEFINE R == revents[c] \ {"OUT"}
  <2>1. /\ Callback(c, "OUT") /\ revents' = [revents EXCEPT ![c] = R]
        /\ UNCHANGED <<state, callbacks, server, userRef, userPc>>
    BY DEF HandleWrite
  <2>2. /\ R \in SUBSET Kinds /\ R \subseteq revents[c]
        /\ R \cap {"IN", "MSG"} # {} => revents[c] \cap {"IN", "MSG"} # {}
        /\ R \cap {"IN", "MSG", "HUP"} # {} => revents[c] \cap {"IN", "MSG", "HUP"} # {}
    BY <1>1, <2>1 DEF Types, Kinds
  <2>3. "IN" \in R => "HUP" \notin R
    BY <2>1, <2>2 DEF IInv, Round, Callback
  <2> HIDE DEF R
  <2>4. QED
    BY <2>1, <2>2, <2>3, CallbackFrame DEF server
<1>3. CASE IsWriting(poller, c) /\ Flush(c)
  BY <1>2, <1>3, FlushHolds
<1>4. CASE UNCHANGED <<poller, output, net, ioQueue, paused>>
  <2>1. net' = [net EXCEPT ![c] = net[c]] /\ net[c] \in Socket
    BY <1>1, <1>4 DEF Types, Socket
  <2>2. QED
    BY <1>2, <1>4, <2>1, LightCallback DEF Socket, user
<1>5. CASE /\ \/ net' = [net EXCEPT ![c].room = FALSE]
              \/ net' = [net EXCEPT ![c].err = FALSE]
           /\ UNCHANGED <<poller, output, ioQueue, paused>>
  <2>1. net[c] \in Socket
    BY <1>1 DEF Types, Socket
  <2>2. PICK v \in Socket : v.shut = net[c].shut /\ net' = [net EXCEPT ![c] = v]
    BY <1>5, <2>1 DEF Socket
  <2>3. QED
    BY <1>2, <1>5, <2>2, LightCallback DEF Socket, user
<1>6. QED
  BY <1>3, <1>4, <1>5 DEF HandleWrite

(* handleClose, called by handleRead or for a hangup.                      *)
LEMMA CloseHolds ==
  ASSUME IInv, Frame, NEW c \in Conns, CloseConnection(c), ran' = ran,
         handling = c, revents[c] \cap {"IN", "HUP"} # {},
         revents'[c] \cap {"IN", "MSG", "HUP"} = {},
         NEW v \in Socket, v.shut = net[c].shut, net' = [net EXCEPT ![c] = v]
  PROVE  IInv'
<1> USE TcpConnectionAssumption
<1>1. /\ UNCHANGED <<output, serverUp, userRef, userPc, paused, batch, ran, phase, active,
                     handling>>
      /\ state' = [state EXCEPT ![c] = "disconnected"]
      /\ poller' = DisableAll(poller, c)
      /\ callbacks' = [callbacks EXCEPT ![c].down = @ + 1]
      /\ Types /\ ConnInv(c)
  BY DEF CloseConnection, Frame, IInv, user
<1>2. /\ Destroy(c) \in FunctorType /\ Destroy(c).conn = c
      /\ RemoveInPool(c) \in FunctorType /\ RemoveInPool(c).conn = c
      /\ Distinct(c)
  BY NamedFunctors, AllDistinct
<1>3. Accepted(c) /\ callbacks[c].up = 1 /\ c \notin active
  <2>1. Referenced(c) /\ Begun(c)
    BY DEF Referenced, Begun
  <2>2. QED
    BY <1>1, <2>1 DEF ConnInv, Held, Life, IInv, Round
<1>4. \/ /\ connections' = connections \ {c} /\ baseQueue' = baseQueue
         /\ ioQueue' = Append(ioQueue, Destroy(c))
      \/ /\ connections' = connections /\ ioQueue' = ioQueue
         /\ baseQueue' = Append(baseQueue, RemoveInPool(c))
      \/ UNCHANGED <<connections, baseQueue, ioQueue>>
  BY DEF CloseConnection, RemoveConnection, RemoveConnectionInPool, Destroy, RemoveInPool
<1>5. /\ net' \in [Conns -> Socket] /\ \A d \in Conns : net'[d].shut = net[d].shut
  <2>1. net \in [Conns -> Socket]
    BY <1>1 DEF Types, Socket
  <2>2. QED
    BY <2>1
<1>6. /\ state' \in [Conns -> {"unborn", "connecting", "connected", "disconnected", "freed"}]
      /\ state'[c] = "disconnected"
      /\ \A d \in Conns \ {c} : state'[d] = state[d]
  BY <1>1 DEF Types
<1>7. /\ callbacks' \in [Conns -> [up : Nat, down : Nat]]
      /\ callbacks[c].down \in Nat
      /\ callbacks'[c].up = 1 /\ callbacks'[c].down = callbacks[c].down + 1
      /\ \A d \in Conns \ {c} : callbacks'[d] = callbacks[d]
  BY <1>1, <1>3 DEF Types
<1>8. callbacks'[c].down > 0 /\ callbacks'[c].down # 0
  BY <1>7
<1>9. /\ poller.fd[c] = c
      /\ poller.index[c] # "new" => poller.channels[c] = c
      /\ poller.index[c] = "added" <=> poller.interest[c] # None
      /\ poller \in PollerType
  BY <1>1, <1>3 DEF ConnInv, Table, Types
<1>10. /\ poller' \in PollerType /\ poller'.failed = poller.failed
       /\ poller'.fd[c] = c /\ poller'.events[c] = {} /\ poller'.channels[c] = c
       /\ poller'.index[c] = IndexAfter(poller, c, {})
       /\ poller'.interest[c] # None => poller'.interest[c] = [ptr |-> c, events |-> {}]
       /\ poller'.index[c] = "added" <=> poller'.interest[c] # None
       /\ OthersKept(poller, poller', c)
  <2>1. PICK E : E = {}
    OBVIOUS
  <2>2. E \in SUBSET Events
    BY <2>1
  <2>3. poller' = SetEvents(poller, c, E)
    BY <1>1, <2>1 DEF DisableAll
  <2>4. /\ poller' \in PollerType /\ poller'.failed = poller.failed
        /\ poller'.fd[c] = c /\ poller'.events[c] = E /\ poller'.channels[c] = c
        /\ poller'.index[c] = IndexAfter(poller, c, E)
        /\ poller'.interest[c] # None => poller'.interest[c] = [ptr |-> c, events |-> E]
        /\ poller'.index[c] = "added" <=> poller'.interest[c] # None
        /\ OthersKept(poller, poller', c)
    BY <1>9, <2>2, <2>3, SetEventsRow
  <2>5. QED
    BY <2>1, <2>4
<1>11. /\ poller'.index[c] \in {"added", "deleted"}
       /\ poller.index[c] = "added" => poller'.index[c] = "deleted"
  BY <1>10 DEF IndexAfter
<1>12. /\ ioQueue' \in Seq(FunctorType) /\ baseQueue' \in Seq(FunctorType)
       /\ connections' \subseteq Conns /\ IsFiniteSet(connections')
       /\ \A d \in Conns \ {c} : d \in connections' <=> d \in connections
       /\ \A d \in Conns \ {c} : HeldBy(ioQueue', d) \/ HeldBy(baseQueue', d) =>
                                   HeldBy(ioQueue, d) \/ HeldBy(baseQueue, d)
       /\ \A g : Occurs(g, baseQueue)' => Occurs(g, baseQueue) \/ g = RemoveInPool(c)
  <2>1. /\ ioQueue \in Seq(FunctorType) /\ baseQueue \in Seq(FunctorType)
        /\ connections \subseteq Conns /\ IsFiniteSet(connections)
        /\ connections \ {c} \subseteq Conns /\ IsFiniteSet(connections \ {c})
    BY <1>1, FS_RemoveElement DEF Types
  <2>2. /\ Append(ioQueue, Destroy(c)) \in Seq(FunctorType)
        /\ Append(baseQueue, RemoveInPool(c)) \in Seq(FunctorType)
        /\ \A d \in Conns \ {c} :
             /\ HeldBy(Append(ioQueue, Destroy(c)), d) => HeldBy(ioQueue, d)
             /\ HeldBy(Append(baseQueue, RemoveInPool(c)), d) => HeldBy(baseQueue, d)
        /\ \A g : Occurs(g, Append(baseQueue, RemoveInPool(c))) <=>
                    Occurs(g, baseQueue) \/ g = RemoveInPool(c)
    BY <1>2, <2>1, AppendProperties, HeldByAppended, InAppended
  <2>3. QED
    BY <1>4, <2>1, <2>2
<1>13. \/ connections' = connections /\ ToRun' = ToRun
       \/ connections' = connections \ {c} /\ ToRun' = Append(ToRun, Destroy(c))
  BY <1>1, <1>2, <1>4, ToRunQueued DEF ToRun
<1>14. BareTaken(ToRun)
  BY <1>1, NoneTaken
<1>15. Types' /\ Round'
  <2>1. Types'
    BY <1>1, <1>5, <1>6, <1>7, <1>10, <1>12 DEF Types, Frame, Kinds, Socket
  <2>2. QED
    BY <2>1, FrameRound
<1>16. ASSUME NEW d \in Conns \ {c}
       PROVE  Same(d)
  <2>1. SameLine(d)
    BY <1>2, <1>13, <1>14, BareLine
  <2>2. SameRow(d)
    BY <1>1, <1>5, <1>6, <1>7, <1>10 DEF SameRow, OthersKept
  <2>3. SameUse(d)
    <3>1. Referenced(d)' => Referenced(d)
      BY <1>1, <1>12 DEF Referenced
    <3>2. QED
      BY <1>1, <1>12, <3>1 DEF SameUse
  <2>4. SameBase(d)
    BY <1>2, <1>12 DEF SameBase
  <2>5. SameRound(d)
    BY DEF Frame
  <2>6. QED
    BY <2>1, <2>2, <2>3, <2>4, <2>5 DEF Same
<1>17. /\ \A f : Pending(f)' => Pending(f) \/ f = Destroy(c)
       /\ \A f : Pending(f) => Pending(f)'
       /\ connections' # connections => Pending(Destroy(c))'
       /\ AtMostOnce(Establish(c), ToRun) => AtMostOnce(Establish(c), ToRun)'
       /\ Precedes(Establish(c), Destroy(c), ToRun) =>
            Precedes(Establish(c), Destroy(c), ToRun)'
  <2>1. CASE ToRun' = Append(ToRun, Destroy(c))
    <3>1. Destroy(c) # Establish(c)
      BY <1>2 DEF Distinct
    <3>2. PICK s : s = ToRun
      OBVIOUS
    <3>3. /\ \A f : Pending(f)' <=> Occurs(f, ToRun) \/ f = Destroy(c)
          /\ AtMostOnce(Establish(c), ToRun) => AtMostOnce(Establish(c), ToRun)'
          /\ Precedes(Establish(c), Destroy(c), ToRun) =>
               Precedes(Establish(c), Destroy(c), ToRun)'
      BY <1>2, <1>14, <2>1, <3>1, <3>2, BareOwnLine
    <3>4. QED
      BY <3>3 DEF Pending
  <2>2. CASE connections' = connections /\ ToRun' = ToRun
    BY <2>2 DEF Pending
  <2>3. QED
    BY <1>13, <2>1, <2>2
<1>18. ConnInv(c)'
  <2>1. /\ ~Pending(Establish(c))' /\ (Pending(RemoveInPool(c))' => Pending(RemoveInPool(c)))
        /\ Pending(HighWater(c))' => Pending(HighWater(c))
        /\ Pending(Functor("sendInLoop", c))' => Pending(Functor("sendInLoop", c))
    <3>1. ~Pending(Establish(c))
      BY <1>1, <1>3 DEF ConnInv, Life
    <3>2. QED
      BY <1>2, <1>17, <3>1 DEF Distinct
  <2>2. Accepted(c)'
    BY <1>6 DEF Accepted
  <2>3. Held(c)'
    BY <1>1, <2>2 DEF ConnInv, Held
  <2>4. Table(c)'
    BY <1>10, <1>11, <2>2 DEF Table
  <2>5. Life(c)'
    BY <1>1, <1>6, <1>7, <1>17, <2>1 DEF ConnInv, Life
  <2>6. Watch(c)'
    BY <1>1, <1>3, <1>8, <1>10 DEF Watch
  <2>7. Flow(c)'
    BY <1>1, <1>8, <2>1 DEF ConnInv, Flow
  <2>8. Served(c)'
    <3>1. \A f \in FunctorType : Occurs(f, baseQueue)' /\ f.conn = c => f = RemoveInPool(c)
      BY <1>1, <1>12 DEF ConnInv, Served
    <3>2. QED
      BY <1>1, <1>8, <2>1, <3>1 DEF ConnInv, Served
  <2>9. ASSUME NoThreadSends
        PROVE  Strict(c)'
    <3>1. Strict(c)
      BY <1>1, <2>9 DEF ConnInv
    <3>2. callbacks[c].down = 0 /\ poller.index[c] # "new"
      BY <3>1 DEF Strict
    <3>3. callbacks'[c].down = 1
      BY <1>7, <3>2
    <3>4. "read" \in poller.events[c]
      BY <1>1, <1>3, <3>2 DEF ConnInv, Watch
    <3>5. poller.index[c] = "added"
      BY <1>1, <3>2, <3>4 DEF ConnInv, Table, Types, PollerType
    <3>6. poller'.index[c] = "deleted" /\ poller'.interest[c] = None
      BY <1>10, <1>11, <3>5
    <3>7. c \in connections' \/ Pending(Destroy(c))'
      BY <1>13, <1>17, <3>1, <3>2 DEF Strict
    <3>8. /\ userPc'[c] # "send" /\ ~Pending(Functor("sendInLoop", c))'
      BY <1>1, <2>1, <3>1 DEF Strict
    <3>9. QED
      BY <1>1, <1>3, <1>6, <1>10, <3>3, <3>6, <3>7, <3>8 DEF Strict
  <2>10. NoThreadSends' <=> NoThreadSends
    BY DEF NoThreadSends
  <2>11. QED
    BY <2>3, <2>4, <2>5, <2>6, <2>7, <2>8, <2>9, <2>10 DEF ConnInv
<1>19. ~poller'.failed
  BY <1>10 DEF IInv
<1>20. QED
  BY <1>15, <1>16, <1>18, <1>19, SameHolds DEF IInv

LEMMA HandleReadHolds ==
  ASSUME IInv, NEW c \in Conns, HandleRead(c)
  PROVE  IInv'
<1>1. Types
  BY DEF IInv
<1>2. /\ Callback(c, "IN") /\ "IN" \in revents[c] /\ handling = c
      /\ "HUP" \notin revents[c] /\ "MSG" \notin revents[c]
  BY DEF HandleRead, Callback, IInv, Round
<1> DEFINE R == (revents[c] \ {"IN"}) \cup (IF net[c].data THEN {"MSG"} ELSE {})
<1>3. /\ R \in SUBSET Kinds /\ "IN" \notin R /\ "HUP" \notin R
      /\ ~net[c].data => "MSG" \notin R
      /\ revents[c] \cap {"IN", "MSG"} # {}
      /\ revents[c] \cap {"IN", "MSG", "HUP"} # {} /\ revents[c] \cap {"IN", "HUP"} # {}
  BY <1>1, <1>2 DEF Types, Kinds
<1>4. revents' = [revents EXCEPT ![c] = R] /\ UNCHANGED <<serverUp, userPc>>
  BY DEF HandleRead, CloseConnection, server, user
<1> HIDE DEF R
<1>5. Frame /\ ran' = ran /\ revents'[c] = R
  BY <1>2, <1>3, <1>4, CallbackFrame
<1>6. net[c] \in Socket
  BY <1>1 DEF Types, Socket
<1>7. PICK v \in Socket : v.shut = net[c].shut /\ net' = [net EXCEPT ![c] = v]
  <2>1. PICK b \in BOOLEAN : b = (net[c].err /\ net[c].data)
    BY <1>6 DEF Socket
  <2>2. net' = [net EXCEPT ![c] = [net[c] EXCEPT !.data = FALSE, !.err = b]]
    BY <1>1, <1>6, <2>1 DEF HandleRead, Types, Socket
  <2>3. [net[c] EXCEPT !.data = FALSE, !.err = b] \in Socket
    BY <1>6 DEF Socket
  <2>4. QED
    BY <1>6, <2>2, <2>3 DEF Socket
<1>8. CASE UNCHANGED <<poller, state, output, callbacks, server, ioQueue, user>>
  BY <1>5, <1>7, <1>8, LightCallback DEF Socket
<1>9. CASE ~net[c].data /\ CloseConnection(c)
  <2>1. revents'[c] \cap {"IN", "MSG", "HUP"} = {}
    BY <1>3, <1>5, <1>9
  <2>2. QED
    BY <1>2, <1>3, <1>5, <1>7, <1>9, <2>1, CloseHolds
<1>10. QED
  BY <1>8, <1>9 DEF HandleRead

LEMMA HandleCloseHolds ==
  ASSUME IInv, NEW c \in Conns, HandleClose(c)
  PROVE  IInv'
<1>1. /\ Callback(c, "HUP") /\ revents' = [revents EXCEPT ![c] = {}]
      /\ CloseConnection(c) /\ net' = net /\ UNCHANGED <<serverUp, userPc>>
  BY DEF HandleClose, CloseConnection, user
<1>2. Frame /\ ran' = ran /\ handling = c /\ revents'[c] = {}
  <2>1. {} \in SUBSET Kinds
    OBVIOUS
  <2>2. QED
    BY <1>1, <2>1, CallbackFrame
<1>3. net[c] \in Socket /\ net' = [net EXCEPT ![c] = net[c]]
  BY <1>1 DEF IInv, Types, Socket
<1>4. "HUP" \in revents[c]
  BY <1>1 DEF Callback
<1>5. QED
  BY <1>1, <1>2, <1>3, <1>4, CloseHolds

LEMMA CallbackStepHolds ==
  ASSUME IInv, NEW c \in Conns, CallbackStep(c)
  PROVE  IInv'
BY HandleErrorHolds, HandleReadHolds, MessageCallbackHolds, HandleWriteHolds, HandleCloseHolds
   DEF CallbackStep

-----------------------------------------------------------------------------
(***************************************************************************)
(* The functors that hold their connection.                                *)
(***************************************************************************)

LEMMA RunFrame ==
  ASSUME IInv, RunFunctor
  PROVE  /\ Frame /\ active = {} /\ handling = None
         /\ ran < Len(batch) /\ ran' = ran + 1
         /\ UNCHANGED <<server, batch, phase, active, revents, handling, userPc>>
<1>1. /\ phase = "functors" /\ ran < Len(batch) /\ ran' = ran + 1
      /\ UNCHANGED <<server, batch, phase, active, revents, handling, userPc>>
  BY DEF RunFunctor
<1>2. active = {} /\ handling = None
  BY <1>1 DEF IInv, Round
<1>3. ran' \in 0 .. Len(batch)
  BY <1>1, LenProperties DEF IInv, Types
<1>4. Frame
  BY <1>1, <1>2, <1>3, TcpConnectionAssumption
     DEF Frame, SameRound, IInv, Types, Kinds, server
<1>5. QED
  BY <1>1, <1>2, <1>4

(* What the first functor of the line leaves for its own connection.       *)
LEMMA TakenLine ==
  ASSUME Types, NEW f \in FunctorType, NEW c \in Conns,
         ToRun # <<>>, Head(ToRun) = f, ToRun' = Tail(ToRun)
  PROVE  /\ Pending(f)
         /\ \A g : Pending(g)' => Pending(g)
         /\ \A g : Pending(g) => Pending(g)' \/ g = f
         /\ AtMostOnce(Establish(c), ToRun) =>
              /\ AtMostOnce(Establish(c), ToRun)'
              /\ f = Establish(c) => ~Pending(Establish(c))'
         /\ Precedes(Establish(c), Destroy(c), ToRun) =>
              /\ Precedes(Establish(c), Destroy(c), ToRun)'
              /\ f = Destroy(c) => ~Pending(Establish(c))
         /\ Followed(c, ToRun) =>
              /\ Followed(c, ToRun)'
              /\ f = HighWater(c) => Pending(WriteComplete(c))'
<1>1. PICK s, t : s = ToRun /\ t = Tail(ToRun)
  OBVIOUS
<1>2. /\ \A g : Occurs(g, s) <=> Occurs(g, t) \/ g = f
      /\ AtMostOnce(Establish(c), s) =>
           /\ AtMostOnce(Establish(c), t)
           /\ f = Establish(c) => ~Occurs(Establish(c), t)
      /\ Precedes(Establish(c), Destroy(c), s) =>
           /\ Precedes(Establish(c), Destroy(c), t)
           /\ f = Destroy(c) => ~Occurs(Establish(c), s)
      /\ Followed(c, s) =>
           /\ Followed(c, t)
           /\ f = HighWater(c) => Occurs(WriteComplete(c), t)
  BY <1>1, ToRunIsSeq, LineRun
<1>3. \A g : (Pending(g) <=> Occurs(g, s)) /\ (Pending(g)' <=> Occurs(g, t))
  BY <1>1 DEF Pending
<1>4. /\ AtMostOnce(Establish(c), ToRun)' <=> AtMostOnce(Establish(c), t)
      /\ Precedes(Establish(c), Destroy(c), ToRun)' <=> Precedes(Establish(c), Destroy(c), t)
      /\ Followed(c, ToRun)' <=> Followed(c, t)
      /\ AtMostOnce(Establish(c), ToRun) <=> AtMostOnce(Establish(c), s)
      /\ Precedes(Establish(c), Destroy(c), ToRun) <=> Precedes(Establish(c), Destroy(c), s)
      /\ Followed(c, ToRun) <=> Followed(c, s)
  BY <1>1
<1>5. QED
  BY <1>2, <1>3, <1>4

LEMMA ConnectEstablishedHolds ==
  ASSUME IInv, Frame, active = {}, handling = None, NEW c \in Conns,
         UNCHANGED <<connections, baseQueue, ioQueue, paused>>,
         ToRun # <<>>, Head(ToRun) = Establish(c), ToRun' = Tail(ToRun),
         ConnectEstablished(c)
  PROVE  IInv'
<1> USE TcpConnectionAssumption
<1>1. /\ UNCHANGED <<output, net, serverUp, connections, baseQueue, ioQueue, userPc,
                     paused, batch, phase, active, handling>>
      /\ state' = [state EXCEPT ![c] = "connected"]
      /\ callbacks' = [callbacks EXCEPT ![c].up = @ + 1]
      /\ userRef' \in {userRef, userRef \cup {c}}
      /\ Types /\ ConnInv(c)
  BY DEF ConnectEstablished, Frame, IInv
<1>2. /\ Establish(c) \in FunctorType /\ Establish(c).conn = c /\ Distinct(c)
  BY NamedFunctors, AllDistinct
<1>3. /\ Pending(Establish(c)) /\ ~Pending(Establish(c))'
      /\ \A g : Pending(g)' => Pending(g)
      /\ \A g : Pending(g) => Pending(g)' \/ g = Establish(c)
      /\ AtMostOnce(Establish(c), ToRun)'
      /\ Precedes(Establish(c), Destroy(c), ToRun)'
      /\ Followed(c, ToRun) => Followed(c, ToRun)'
  BY <1>1, <1>2, TakenLine DEF ConnInv, Life
<1>4. /\ state[c] = "connecting" /\ callbacks[c].up = 0 /\ ~Begun(c)
      /\ Accepted(c)
  BY <1>1, <1>3 DEF ConnInv, Life, Accepted
<1>5. callbacks[c].down = 0 /\ poller.interest[c] = None
  BY <1>1, <1>4 DEF Begun, Types
<1>6. /\ state' \in [Conns -> {"unborn", "connecting", "connected", "disconnected", "freed"}]
      /\ state'[c] = "connected"
      /\ \A d \in Conns \ {c} : state'[d] = state[d]
  BY <1>1 DEF Types
<1>7. /\ callbacks' \in [Conns -> [up : Nat, down : Nat]]
      /\ callbacks'[c].up = 1 /\ callbacks'[c].down = 0
      /\ \A d \in Conns \ {c} : callbacks'[d] = callbacks[d]
  BY <1>1, <1>4, <1>5 DEF Types
<1>8. PICK E : E = poller.events[c] \cup {"read"} /\ poller' = SetEvents(poller, c, E)
  BY DEF ConnectEstablished, EnableReading
<1>9. /\ poller' \in PollerType /\ poller'.failed = poller.failed
      /\ poller'.fd[c] = c /\ poller'.events[c] = E /\ poller'.channels[c] = c
      /\ poller'.index[c] = IndexAfter(poller, c, E)
      /\ poller'.interest[c] # None => poller'.interest[c] = [ptr |-> c, events |-> E]
      /\ poller'.index[c] = "added" <=> poller'.interest[c] # None
      /\ OthersKept(poller, poller', c)
  <2>1. /\ poller \in PollerType /\ poller.fd[c] = c
        /\ poller.index[c] # "new" => poller.channels[c] = c
        /\ poller.index[c] = "added" <=> poller.interest[c] # None
    BY <1>1, <1>4 DEF ConnInv, Table, Types
  <2>2. E \in SUBSET Events
    BY <1>8, <2>1 DEF PollerType, Events
  <2>3. poller' = SetEvents(poller, c, E)
    BY <1>8
  <2>4. QED
    BY <2>1, <2>2, <2>3, SetEventsRow
<1>10. poller'.index[c] = "added" /\ "read" \in E
  BY <1>8, <1>9 DEF IndexAfter
<1>11. Types' /\ Round'
  <2>1. Types'
    BY <1>1, <1>6, <1>7, <1>9 DEF Types, Frame, Kinds
  <2>2. QED
    BY <2>1, FrameRound
<1>12. ASSUME NEW d \in Conns \ {c}
       PROVE  Same(d)
  <2>1. SameLine(d)
    <3>1. Head(ToRun) \notin {Destroy(d), WriteComplete(d)}
      BY <1>2, NamedFunctors
    <3>2. QED
      BY <1>1, <3>1, LineTaken
  <2>2. SameRow(d)
    BY <1>1, <1>6, <1>7, <1>9 DEF SameRow, OthersKept
  <2>3. SameUse(d) /\ SameBase(d)
    BY <1>1 DEF SameUse, SameBase, Referenced, HeldBy
  <2>4. SameRound(d)
    BY DEF Frame
  <2>5. QED
    BY <2>1, <2>2, <2>3, <2>4 DEF Same
<1>13. ConnInv(c)'
  <2>1. Accepted(c)'
    BY <1>6 DEF Accepted
  <2>2. Held(c)'
    BY <1>1, <2>1 DEF ConnInv, Held
  <2>3. Table(c)'
    BY <1>9, <1>10, <2>1 DEF Table
  <2>4. Life(c)'
    BY <1>3, <1>6, <1>7, <1>10 DEF Life
  <2>5. Watch(c)'
    <3>1. IsWriting(poller, c) => IsWriting(poller', c)
      BY <1>8, <1>9 DEF IsWriting
    <3>2. QED
      BY <1>1, <1>5, <1>7, <1>9, <1>10, <3>1 DEF ConnInv, Watch
  <2>6. Flow(c)'
    <3>1. c \notin paused'
      BY <1>1, <1>4 DEF Begun
    <3>2. QED
      BY <1>1, <1>3, <1>4, <1>5, <3>1 DEF ConnInv, Flow
  <2>7. Served(c)'
    BY <1>1, <1>3, <1>4, <1>5, <1>7 DEF ConnInv, Served
  <2>8. ASSUME NoThreadSends
        PROVE  Strict(c)'
    <3>1. Strict(c)
      BY <1>1, <2>8 DEF ConnInv
    <3>2. c \in connections' \/ Pending(Destroy(c))'
      BY <1>1, <1>2, <1>3, <3>1 DEF Strict, Distinct
    <3>3. ~(\/ userPc[c] = "stored" \/ Pending(Functor("shutdownInLoop", c))
            \/ net[c].shut)
      BY <1>4, <3>1 DEF Strict
    <3>4. QED
      BY <1>1, <1>3, <1>6, <1>7, <1>9, <1>10, <3>1, <3>2, <3>3 DEF Strict
  <2>9. NoThreadSends' <=> NoThreadSends
    BY DEF NoThreadSends
  <2>10. QED
    BY <2>2, <2>3, <2>4, <2>5, <2>6, <2>7, <2>8, <2>9 DEF ConnInv
<1>14. ~poller'.failed
  BY <1>9 DEF IInv
<1>15. QED
  BY <1>11, <1>12, <1>13, <1>14, SameHolds DEF IInv

(* connectDestroyed takes the channel out of the poller, whatever it was.  *)
LEMMA DestroyedRow ==
  ASSUME IInv, NEW c \in Conns, Accepted(c), ConnectDestroyed(c)
  PROVE  /\ poller' \in PollerType /\ poller'.failed = poller.failed
         /\ poller'.fd[c] = c /\ poller'.index[c] = "new"
         /\ poller'.channels[c] = None /\ poller'.interest[c] = None
         /\ poller'.events[c] = IF state[c] = "connected" THEN {} ELSE poller.events[c]
         /\ OthersKept(poller, poller', c)
<1> USE TcpConnectionAssumption
<1>1. /\ poller \in PollerType /\ poller.fd[c] = c
      /\ poller.index[c] # "new" => poller.channels[c] = c
      /\ poller.index[c] = "new" => poller.channels[c] = None
      /\ poller.index[c] = "added" <=> poller.interest[c] # None
  BY DEF IInv, ConnInv, Table, Types, Accepted
<1>2. CASE state[c] # "connected"
  <2>1. poller' = RemoveChannel(poller, c)
    BY <1>2 DEF ConnectDestroyed
  <2>2. /\ poller.index[c] # "new" <=> poller.channels[c] = c
        /\ poller.channels[c] \in {c, None}
    BY <1>1
  <2>3. /\ poller' \in PollerType /\ poller'.failed = poller.failed
        /\ poller'.fd[c] = c /\ poller'.events[c] = poller.events[c]
        /\ poller'.index[c] = "new"
        /\ poller'.channels[c] = None /\ poller'.interest[c] = None
        /\ OthersKept(poller, poller', c)
    BY <1>1, <2>1, <2>2, RemoveRow
  <2>4. QED
    BY <1>2, <2>3
<1>3. CASE state[c] = "connected"
  <2>1. PICK E, p : E = {} /\ p = SetEvents(poller, c, E) /\ poller' = RemoveChannel(p, c)
    BY <1>3 DEF ConnectDestroyed, DisableAll
  <2>2. E \in SUBSET Events
    BY <2>1
  <2>3. p = SetEvents(poller, c, E)
    BY <2>1
  <2>4. /\ p \in PollerType /\ p.failed = poller.failed
        /\ p.fd[c] = c /\ p.events[c] = E /\ p.channels[c] = c
        /\ p.index[c] = IndexAfter(poller, c, E)
        /\ p.index[c] = "added" <=> p.interest[c] # None
        /\ OthersKept(poller, p, c)
    <3>1. LET q == SetEvents(poller, c, E)
          IN  /\ q \in PollerType /\ q.failed = poller.failed
              /\ q.fd[c] = c /\ q.events[c] = E /\ q.channels[c] = c
              /\ q.index[c] = IndexAfter(poller, c, E)
              /\ q.interest[c] # None =>
                   q.interest[c] = [ptr |-> c, events |-> E]
              /\ q.index[c] = "added" <=> q.interest[c] # None
              /\ OthersKept(poller, q, c)
      BY <1>1, <2>2, SetEventsRow
    <3>2. QED
      BY <2>3, <3>1
  <2>5. p.index[c] # "new"
    BY <2>4 DEF IndexAfter
  <2>6. /\ p.index[c] # "new" <=> p.channels[c] = c
        /\ p.channels[c] \in {c, None}
    BY <2>4, <2>5
  <2>7. /\ poller' \in PollerType /\ poller'.failed = p.failed
        /\ poller'.fd[c] = c /\ poller'.events[c] = p.events[c]
        /\ poller'.index[c] = "new"
        /\ poller'.channels[c] = None /\ poller'.interest[c] = None
        /\ OthersKept(p, poller', c)
    BY <2>1, <2>4, <2>6, RemoveRow
  <2>8. OthersKept(poller, poller', c)
    BY <2>4, <2>7 DEF OthersKept
  <2>9. QED
    BY <1>3, <2>1, <2>4, <2>7, <2>8
<1>4. QED
  BY <1>2, <1>3

LEMMA ConnectDestroyedHolds ==
  ASSUME IInv, Frame, active = {}, handling = None, NEW c \in Conns,
         UNCHANGED <<connections, baseQueue, ioQueue, userRef, paused>>,
         ToRun # <<>>, Head(ToRun) = Destroy(c), ToRun' = Tail(ToRun),
         ConnectDestroyed(c)
  PROVE  IInv'
<1> USE TcpConnectionAssumption
<1>1. /\ UNCHANGED <<output, net, serverUp, connections, baseQueue, ioQueue, userRef, userPc,
                     paused, batch, phase, active, handling>>
      /\ Types /\ ConnInv(c)
  BY DEF ConnectDestroyed, Frame, IInv
<1>2. /\ Destroy(c) \in FunctorType /\ Destroy(c).conn = c /\ Distinct(c)
  BY NamedFunctors, AllDistinct
<1>3. /\ Pending(Destroy(c)) /\ ~Pending(Establish(c))
      /\ \A g : Pending(g)' => Pending(g)
      /\ \A g : Pending(g) => Pending(g)' \/ g = Destroy(c)
      /\ AtMostOnce(Establish(c), ToRun)'
      /\ Precedes(Establish(c), Destroy(c), ToRun)'
      /\ Followed(c, ToRun) => Followed(c, ToRun)'
  BY <1>1, <1>2, TakenLine DEF ConnInv, Life
<1>4. Accepted(c)
  <2>1. Referenced(c)
    BY <1>1, <1>2, <1>3, StrongFunctors, PendingHolds
  <2>2. QED
    BY <1>1, <2>1 DEF ConnInv, Held
<1>5. /\ poller' \in PollerType /\ poller'.failed = poller.failed
      /\ poller'.fd[c] = c /\ poller'.index[c] = "new"
      /\ poller'.channels[c] = None /\ poller'.interest[c] = None
      /\ poller'.events[c] = IF state[c] = "connected" THEN {} ELSE poller.events[c]
      /\ OthersKept(poller, poller', c)
  BY <1>4, DestroyedRow
<1>6. /\ state' \in [Conns -> {"unborn", "connecting", "connected", "disconnected", "freed"}]
      /\ state'[c] = IF state[c] = "connected" THEN "disconnected" ELSE state[c]
      /\ \A d \in Conns \ {c} : state'[d] = state[d]
  BY <1>1 DEF Types, ConnectDestroyed
<1>7. /\ callbacks' \in [Conns -> [up : Nat, down : Nat]]
      /\ callbacks'[c].up = callbacks[c].up
      /\ state[c] = "connected" => callbacks'[c].down = callbacks[c].down + 1
      /\ state[c] # "connected" => callbacks'[c].down = callbacks[c].down
      /\ \A d \in Conns \ {c} : callbacks'[d] = callbacks[d]
      /\ callbacks[c].down \in Nat
  <2>1. callbacks \in [Conns -> [up : Nat, down : Nat]]
    BY <1>1 DEF Types
  <2>2. CASE state[c] = "connected"
    <3>1. callbacks' = [callbacks EXCEPT ![c].down = @ + 1]
      BY <2>2 DEF ConnectDestroyed
    <3>2. PICK k \in Nat : k = callbacks[c].down
      BY <2>1
    <3>3. PICK n \in Nat : n = k + 1
      BY <3>2
    <3>4. callbacks' = [callbacks EXCEPT ![c].down = n]
      BY <3>1, <3>2, <3>3
    <3>5. callbacks'[c] = [callbacks[c] EXCEPT !.down = n]
          /\ \A d \in Conns \ {c} : callbacks'[d] = callbacks[d]
      BY <2>1, <3>4
    <3>6. callbacks' \in [Conns -> [up : Nat, down : Nat]]
      BY <2>1, <3>4
    <3>7. callbacks'[c].up = callbacks[c].up /\ callbacks'[c].down = n
      BY <2>1, <3>5
    <3>8. QED
      BY <2>1, <2>2, <3>2, <3>3, <3>5, <3>6, <3>7
  <2>3. CASE state[c] # "connected"
    <3>1. callbacks' = callbacks
      BY <2>3 DEF ConnectDestroyed
    <3>2. QED
      BY <2>1, <2>3, <3>1
  <2>4. QED
    BY <2>2, <2>3
<1>8. state[c] = "connected" => /\ callbacks[c].up = 1 /\ callbacks[c].down = 0
                                /\ callbacks'[c].down = 1
  BY <1>1, <1>7 DEF ConnInv, Life
<1>9. state[c] # "connected" => callbacks'[c].down = callbacks[c].down
  BY <1>7
<1>10. Types' /\ Round'
  <2>1. Types'
    BY <1>1, <1>5, <1>6, <1>7 DEF Types, Frame, Kinds
  <2>2. QED
    BY <2>1, FrameRound
<1>11. ASSUME NEW d \in Conns \ {c}
       PROVE  Same(d)
  <2>1. SameLine(d)
    <3>1. Head(ToRun) \notin {Destroy(d), WriteComplete(d)}
      BY <1>2, NamedFunctors
    <3>2. QED
      BY <1>1, <3>1, LineTaken
  <2>2. SameRow(d)
    BY <1>1, <1>5, <1>6, <1>7 DEF SameRow, OthersKept
  <2>3. SameUse(d) /\ SameBase(d)
    BY <1>1 DEF SameUse, SameBase, Referenced, HeldBy
  <2>4. SameRound(d)
    BY DEF Frame
  <2>5. QED
    BY <2>1, <2>2, <2>3, <2>4 DEF Same
<1>12. ConnInv(c)'
  <2>1. Accepted(c)' /\ state'[c] # "connected" /\ state'[c] # "freed"
    BY <1>4, <1>6 DEF Accepted
  <2>2. Held(c)'
    BY <1>1, <2>1 DEF ConnInv, Held
  <2>3. Table(c)'
    BY <1>5, <2>1 DEF Table
  <2>4. Life(c)'
    <3>1. Begun(c)' => Begun(c) \/ state[c] = "connected"
      BY <1>1, <1>3, <1>5, <1>9 DEF Begun
    <3>2. QED
      BY <1>1, <1>3, <1>6, <1>7, <1>8, <2>1, <3>1 DEF ConnInv, Life
  <2>5. Watch(c)'
    <3>1. CASE state[c] = "connected"
      BY <1>1, <1>5, <1>8, <3>1 DEF Watch
    <3>2. CASE state[c] # "connected"
      <4>1. poller'.events[c] = poller.events[c] /\ callbacks'[c].down = callbacks[c].down
        BY <1>5, <1>9, <3>2
      <4>2. QED
        BY <1>1, <1>4, <1>7, <4>1 DEF ConnInv, Watch, IsWriting
    <3>3. QED
      BY <3>1, <3>2
  <2>6. Flow(c)'
    <3>1. callbacks[c].down > 0 => callbacks'[c].down > 0
      BY <1>7, <1>8, <1>9
    <3>2. Pending(WriteComplete(c)) => Pending(WriteComplete(c))'
      BY <1>2, <1>3 DEF Distinct
    <3>3. QED
      BY <1>1, <1>3, <1>4, <3>1, <3>2 DEF ConnInv, Flow
  <2>7. Served(c)'
    <3>1. callbacks[c].down > 0 => callbacks'[c].down > 0
      BY <1>7, <1>8, <1>9
    <3>2. state[c] # "unborn"
      BY <1>4 DEF Accepted
    <3>3. QED
      BY <1>1, <1>3, <3>1, <3>2 DEF ConnInv, Served
  <2>8. ASSUME NoThreadSends
        PROVE  Strict(c)'
    <3>1. Strict(c)
      BY <1>1, <2>8 DEF ConnInv
    <3>2. callbacks'[c].down <= 1 /\ (callbacks'[c].down = 1 => poller'.events[c] = {})
      BY <1>5, <1>8, <1>9, <3>1 DEF Strict
    <3>3. ASSUME net'[c].shut, callbacks'[c].down = 0
          PROVE  ~output'[c] /\ ~IsWriting(poller', c)
      <4>1. state[c] # "connected"
        BY <1>8, <3>3
      <4>2. poller'.events[c] = poller.events[c] /\ callbacks[c].down = 0
        BY <1>5, <1>9, <3>3, <4>1
      <4>3. QED
        BY <1>1, <3>1, <3>3, <4>2 DEF Strict, IsWriting
    <3>4. \/ userPc'[c] = "stored" \/ Pending(Functor("shutdownInLoop", c))' \/ net'[c].shut
          => state'[c] \in {"disconnected", "freed"}
      BY <1>1, <1>3, <1>6, <3>1 DEF Strict
    <3>5. QED
      BY <1>1, <1>3, <1>5, <2>1, <3>1, <3>2, <3>3, <3>4 DEF Strict
  <2>9. NoThreadSends' <=> NoThreadSends
    BY DEF NoThreadSends
  <2>10. QED
    BY <2>2, <2>3, <2>4, <2>5, <2>6, <2>7, <2>8, <2>9 DEF ConnInv
<1>13. ~poller'.failed
  BY <1>5 DEF IInv
<1>14. QED
  BY <1>10, <1>11, <1>12, <1>13, SameHolds DEF IInv

(* The user's flow-control callbacks.                                      *)
LEMMA NoticeHolds ==
  ASSUME IInv, Frame, active = {}, handling = None, NEW c \in Conns,
         UNCHANGED <<poller, state, output, net, callbacks, connections, baseQueue, ioQueue,
                     userRef>>,
         ToRun # <<>>, ToRun' = Tail(ToRun),
         \/ Head(ToRun) = HighWater(c) /\ paused' = paused \cup {c}
         \/ Head(ToRun) = WriteComplete(c) /\ paused' = paused \ {c}
  PROVE  IInv'
<1> USE TcpConnectionAssumption
<1>1. /\ UNCHANGED <<poller, state, output, net, callbacks, serverUp, connections, baseQueue,
                     ioQueue, userRef, userPc, batch, phase, active, handling>>
      /\ Types /\ ConnInv(c)
  BY DEF Frame, IInv
<1>2. PICK f \in {HighWater(c), WriteComplete(c)} : f = Head(ToRun)
  OBVIOUS
<1>3. /\ f \in FunctorType /\ f.conn = c /\ f \notin {Establish(c), Destroy(c)}
      /\ Distinct(c)
  BY <1>2, NamedFunctors, AllDistinct DEF Distinct
<1>4. /\ Pending(f)
      /\ \A g : Pending(g)' => Pending(g)
      /\ \A g : Pending(g) => Pending(g)' \/ g = f
      /\ AtMostOnce(Establish(c), ToRun)'
      /\ Precedes(Establish(c), Destroy(c), ToRun)'
      /\ Followed(c, ToRun) =>
           /\ Followed(c, ToRun)'
           /\ f = HighWater(c) => Pending(WriteComplete(c))'
  BY <1>1, <1>2, <1>3, TakenLine DEF ConnInv, Life
<1>5. callbacks[c].up = 1 /\ Accepted(c)
  <2>1. Begun(c)
    BY <1>3, <1>4 DEF Begun
  <2>2. Referenced(c)
    BY <1>1, <1>2, <1>3, <1>4, StrongFunctors, PendingHolds
  <2>3. QED
    BY <1>1, <2>1, <2>2 DEF ConnInv, Life, Held
<1>6. Types' /\ Round'
  <2>1. paused' \subseteq Conns
    BY <1>1 DEF Types
  <2>2. Types'
    BY <1>1, <2>1 DEF Types, Frame, Kinds
  <2>3. QED
    BY <2>2, FrameRound
<1>7. ASSUME NEW d \in Conns \ {c}
      PROVE  Same(d)
  <2>1. SameLine(d)
    <3>1. Head(ToRun) \notin {Destroy(d), WriteComplete(d)}
      BY <1>2, <1>3, NamedFunctors
    <3>2. QED
      BY <1>1, <3>1, LineTaken
  <2>2. SameRow(d)
    BY <1>1 DEF SameRow
  <2>3. SameUse(d) /\ SameBase(d)
    BY <1>1 DEF SameUse, SameBase, Referenced, HeldBy
  <2>4. SameRound(d)
    BY DEF Frame
  <2>5. QED
    BY <2>1, <2>2, <2>3, <2>4 DEF Same
<1>8. ConnInv(c)'
  <2>1. Accepted(c)' <=> Accepted(c)
    BY <1>1 DEF Accepted
  <2>2. Held(c)'
    BY <1>1, <1>5, <2>1 DEF ConnInv, Held
  <2>3. Table(c)'
    BY <1>1, <2>1 DEF ConnInv, Table
  <2>4. Life(c)'
    <3>1. Pending(Establish(c))' => Pending(Establish(c))
      BY <1>4
    <3>2. QED
      BY <1>1, <1>4, <1>5, <3>1 DEF ConnInv, Life
  <2>5. Watch(c)'
    BY <1>1, <2>1 DEF ConnInv, Watch, IsWriting
  <2>6. Flow(c)'
    <3>1. FlowControl \/ c \notin paused'
      BY <1>1, <1>2, <1>4 DEF ConnInv, Flow
    <3>2. Followed(c, ToRun) /\ (c \in paused => Pending(WriteComplete(c))) =>
            Followed(c, ToRun)' /\ (c \in paused' => Pending(WriteComplete(c))')
      BY <1>2, <1>3, <1>4 DEF Distinct
    <3>3. QED
      BY <1>1, <1>4, <1>5, <2>1, <3>1, <3>2 DEF ConnInv, Flow
  <2>7. Served(c)'
    BY <1>1, <1>4 DEF ConnInv, Served
  <2>8. ASSUME NoThreadSends
        PROVE  Strict(c)'
    <3>1. Strict(c)
      BY <1>1, <2>8 DEF ConnInv
    <3>2. Pending(Destroy(c)) => Pending(Destroy(c))'
      BY <1>3, <1>4
    <3>3. QED
      BY <1>1, <1>4, <3>1, <3>2 DEF Strict, IsWriting
  <2>9. NoThreadSends' <=> NoThreadSends
    BY DEF NoThreadSends
  <2>10. QED
    BY <2>2, <2>3, <2>4, <2>5, <2>6, <2>7, <2>8, <2>9 DEF ConnInv
<1>9. ~poller'.failed
  BY <1>1 DEF IInv
<1>10. QED
  BY <1>6, <1>7, <1>8, <1>9, SameHolds DEF IInv

(* A functor bound to a bare this finds its connection gone.               *)
LEMMA GoneHolds ==
  ASSUME IInv, Frame, active = {}, handling = None,
         UNCHANGED <<poller, state, output, net, callbacks, connections, baseQueue, ioQueue,
                     userRef, paused>>,
         ToRun # <<>>, ToRun' = Tail(ToRun), Head(ToRun).run \notin Strong
  PROVE  IInv'
<1>1. /\ UNCHANGED <<poller, state, output, net, callbacks, serverUp, connections, baseQueue,
                     ioQueue, userRef, userPc, paused, batch, phase, active, handling>>
      /\ Types
  BY DEF Frame, IInv
<1>2. Types' /\ Round'
  <2>1. Types'
    BY <1>1 DEF Types, Frame, Kinds
  <2>2. QED
    BY <2>1, FrameRound
<1>3. ASSUME NEW d \in Conns
      PROVE  Same(d)
  <2>1. SameLine(d)
    <3>1. Head(ToRun) \notin {Destroy(d), WriteComplete(d)}
      BY StrongFunctors
    <3>2. QED
      BY <1>1, <3>1, LineTaken
  <2>2. SameRow(d)
    BY <1>1 DEF SameRow
  <2>3. SameUse(d) /\ SameBase(d)
    BY <1>1 DEF SameUse, SameBase, Referenced, HeldBy
  <2>4. SameRound(d)
    BY DEF Frame
  <2>5. QED
    BY <2>1, <2>2, <2>3, <2>4 DEF Same
<1>4. QED
  BY <1>1, <1>2, <1>3, LightStep

LEMMA RunFunctorHolds ==
  ASSUME IInv, RunFunctor
  PROVE  IInv'
<1>1. /\ Frame /\ active = {} /\ handling = None
      /\ ran < Len(batch) /\ ran' = ran + 1
      /\ UNCHANGED <<server, batch, phase, active, revents, handling, userPc>>
      /\ UNCHANGED <<serverUp, connections, baseQueue>>
  BY RunFrame DEF server
<1>2. Types
  BY DEF IInv
<1>3. PICK h : h = batch[ran + 1]
  OBVIOUS
<1>4. PICK f, c : f = h.run /\ c = h.conn
  OBVIOUS
<1>5. /\ h \in FunctorType /\ c \in Conns /\ h = Functor(f, c)
      /\ f \in Strong \cup {"sendInLoop", "shutdownInLoop"}
      /\ ToRun # <<>> /\ Head(ToRun) = h
      /\ ioQueue' = ioQueue => ToRun' = Tail(ToRun)
      /\ \A g \in FunctorType :
           ioQueue' = Append(ioQueue, g) => ToRun' = Append(Tail(ToRun), g)
  <2>1. /\ batch[ran + 1] \in FunctorType
        /\ ToRun # <<>> /\ Head(ToRun) = batch[ran + 1]
        /\ ioQueue' = ioQueue => ToRun' = Tail(ToRun)
        /\ \A g \in FunctorType :
             ioQueue' = Append(ioQueue, g) => ToRun' = Append(Tail(ToRun), g)
    BY <1>1, <1>2, ToRunRun
  <2>2. h.conn \in Conns /\ h = Functor(h.run, h.conn)
        /\ h.run \in Strong \cup {"sendInLoop", "shutdownInLoop"}
    BY <1>3, <2>1 DEF FunctorType, Functor
  <2>3. QED
    BY <1>3, <1>4, <2>1, <2>2
<1>6. \/ /\ f = "connectEstablished"
         /\ ConnectEstablished(c) /\ UNCHANGED <<ioQueue, paused>>
      \/ /\ f = "connectDestroyed"
         /\ ConnectDestroyed(c) /\ UNCHANGED <<ioQueue, userRef, paused>>
      \/ /\ f = "sendInLoop" /\ Referenced(c)
         /\ SendInLoop(c) /\ UNCHANGED <<state, userRef, paused>>
      \/ /\ f = "shutdownInLoop" /\ Referenced(c)
         /\ ShutdownInLoop(c) /\ UNCHANGED <<state, ioQueue, userRef, paused>>
      \/ /\ \/ f = "highWater"     /\ paused' = paused \cup {c}
            \/ f = "writeComplete" /\ paused' = paused \ {c}
         /\ UNCHANGED <<poller, state, output, net, callbacks, ioQueue, userRef>>
      \/ /\ f \notin Strong
         /\ UNCHANGED <<poller, state, output, net, callbacks, ioQueue, userRef, paused>>
  BY <1>3, <1>4 DEF RunFunctor
<1>7. Pending(h)
  <2>1. PICK s : s = ToRun
    OBVIOUS
  <2>2. s \in Seq(FunctorType) /\ s # <<>>
    BY <1>2, <1>5, <2>1, ToRunIsSeq
  <2>3. QED
    BY <1>5, <2>1, <2>2, InTail DEF Pending
<1>8. CASE f = "connectEstablished" /\ ConnectEstablished(c) /\ UNCHANGED <<ioQueue, paused>>
  BY <1>1, <1>5, <1>8, ConnectEstablishedHolds DEF Establish
<1>9. CASE /\ f = "connectDestroyed" /\ ConnectDestroyed(c)
           /\ UNCHANGED <<ioQueue, userRef, paused>>
  BY <1>1, <1>5, <1>9, ConnectDestroyedHolds DEF Destroy
<1>10. ASSUME f \in {"sendInLoop", "shutdownInLoop"}
       PROVE  /\ BareTaken(Tail(ToRun)) /\ callbacks[c].up = 1
              /\ Referenced(c) => Accepted(c)
              /\ NoThreadSends => f = "shutdownInLoop" /\ state[c] \in {"disconnected", "freed"}
  <2>1. h.run \notin Strong /\ h.conn = c /\ h \notin {Establish(c), Destroy(c)}
    BY <1>4, <1>5, <1>10, StrongFunctors
  <2>2. BareTaken(Tail(ToRun))
    BY <1>2, <1>5, <2>1, OneTaken
  <2>3. Begun(c) /\ ConnInv(c)
    BY <1>5, <1>7, <2>1 DEF Begun, IInv
  <2>4. NoThreadSends => f = "shutdownInLoop" /\ state[c] \in {"disconnected", "freed"}
    BY <1>5, <1>7, <1>10, <2>3 DEF ConnInv, Strict
  <2>5. QED
    BY <2>2, <2>3, <2>4 DEF ConnInv, Life, Held
<1>11. PICK t : t = Tail(ToRun)
  OBVIOUS
<1>12. CASE /\ f = "sendInLoop" /\ Referenced(c)
            /\ SendInLoop(c) /\ UNCHANGED <<state, userRef, paused>>
  BY <1>1, <1>5, <1>10, <1>11, <1>12, SendHolds
<1>13. CASE /\ f = "shutdownInLoop" /\ Referenced(c)
            /\ ShutdownInLoop(c) /\ UNCHANGED <<state, ioQueue, userRef, paused>>
  <2>1. Accepted(c) /\ (NoThreadSends => state'[c] = "disconnected")
    BY <1>10, <1>13 DEF Accepted
  <2>2. QED
    BY <1>1, <1>5, <1>10, <1>11, <1>13, <2>1, ShutdownHolds
<1>14. CASE /\ \/ f = "highWater"     /\ paused' = paused \cup {c}
               \/ f = "writeComplete" /\ paused' = paused \ {c}
            /\ UNCHANGED <<poller, state, output, net, callbacks, ioQueue, userRef>>
  BY <1>1, <1>5, <1>14, NoticeHolds DEF HighWater, WriteComplete
<1>15. CASE /\ f \notin Strong
            /\ UNCHANGED <<poller, state, output, net, callbacks, ioQueue, userRef, paused>>
  BY <1>1, <1>4, <1>5, <1>15, GoneHolds
<1>16. QED
  BY <1>6, <1>8, <1>9, <1>12, <1>13, <1>14, <1>15

-----------------------------------------------------------------------------
(***************************************************************************)
(* The invariant.                                                          *)
(***************************************************************************)

LEMMA StutterHolds ==
  ASSUME IInv, UNCHANGED vars
  PROVE  IInv'
<1>1. UNCHANGED <<poller, state, output, net, callbacks, server, ioQueue, batch, ran, phase,
                  active, revents, handling, userRef, userPc, paused>>
  BY DEF vars, loop, user
<1>2. Types' /\ Round'
  BY <1>1 DEF IInv, Types, Round, server
<1>3. ASSUME NEW d \in Conns
      PROVE  Same(d)
  <2>1. handling' = d => Referenced(d)
    BY <1>1 DEF Referenced
  <2>2. SameRow(d) /\ SameLine(d) /\ SameBase(d) /\ SameUse(d)
    BY <1>1, <2>1, LightFrame
  <2>3. SameRound(d)
    BY <1>1 DEF SameRound
  <2>4. QED
    BY <2>2, <2>3 DEF Same
<1>4. QED
  BY <1>1, <1>2, <1>3, LightStep

LEMMA NextHolds ==
  ASSUME IInv, [Next]_vars
  PROVE  IInv'
<1>1. CASE Poll
  BY <1>1, PollHolds
<1>2. ASSUME NEW c \in Conns, HandleEvent(c)
      PROVE  IInv'
  BY <1>2, DispatchHolds
<1>3. ASSUME NEW c \in Conns, CallbackStep(c)
      PROVE  IInv'
  BY <1>3, CallbackStepHolds
<1>4. CASE HandleEventReturn
  BY <1>4, DispatchHolds
<1>5. CASE SwapPendingFunctors \/ EndPendingFunctors
  BY <1>5, BatchHolds
<1>6. CASE RunFunctor
  BY <1>6, RunFunctorHolds
<1>7. CASE BaseRunFunctor
  BY <1>7, BaseRunHolds
<1>8. CASE DestroyServer
  BY <1>8, DestroyServerHolds
<1>9. ASSUME NEW c \in Conns, NewConnection(c)
      PROVE  IInv'
  BY <1>9, NewConnectionQueuedHolds, NewConnectionInPlaceHolds
<1>10. ASSUME NEW c \in Conns, Free(c)
       PROVE  IInv'
  BY <1>10, FreeHolds
<1>11. ASSUME NEW c \in Conns, UserStep(c)
       PROVE  IInv'
  BY <1>11, UserQueueHolds, UserStoreHolds, UserDropHolds, UserCallHolds DEF UserStep
<1>12. ASSUME NEW c \in Conns, Peer(c)
       PROVE  IInv'
  BY <1>12, PeerHolds
<1>13. CASE UNCHANGED vars
  BY <1>13, StutterHolds
<1>14. QED
  BY <1>1, <1>2, <1>3, <1>4, <1>5, <1>6, <1>7, <1>8, <1>9, <1>10, <1>11, <1>12, <1>13
     DEF Next, IoStep

LEMMA Invariance == Spec => []IInv
<1>1. Init => IInv
  BY InitHolds
<1>2. IInv /\ [Next]_vars => IInv'
  BY NextHolds
<1>3. QED
  BY <1>1, <1>2, PTL DEF Spec

-----------------------------------------------------------------------------
(***************************************************************************)
(* How often the user hears "down" when other threads send.  A sendInLoop  *)
(* that comes after the connection is closed may enable writing again, and *)
(* the hangup that is then reported closes it once more.  Each "down"      *)
(* takes a channel that is watched away, and each channel that is watched  *)
(* again takes a sendInLoop away: what is counted together never grows.    *)
(***************************************************************************)

Times(x, s) == Cardinality({i \in 1 .. Len(s) : s[i] = x})

LEMMA TimesEmpty == \A x : Times(x, <<>>) = 0
<1>1. \A x : {i \in 1 .. Len(<<>>) : <<>>[i] = x} = {}
  OBVIOUS
<1>2. QED
  BY <1>1, FS_EmptySet, Zenon DEF Times

LEMMA TimesFinite ==
  ASSUME NEW S, NEW s \in Seq(S), NEW x
  PROVE  /\ IsFiniteSet({i \in 1 .. Len(s) : s[i] = x})
         /\ Times(x, s) \in Nat
<1>1. IsFiniteSet(1 .. Len(s))
  BY LenProperties, FS_Interval
<1>2. {i \in 1 .. Len(s) : s[i] = x} \in SUBSET (1 .. Len(s))
  OBVIOUS
<1>3. QED
  BY <1>1, <1>2, FS_Subset, FS_CardinalityType DEF Times

LEMMA TimesAppended ==
  ASSUME NEW S, NEW s \in Seq(S), NEW e \in S, NEW x
  PROVE  Times(x, Append(s, e)) = IF x = e THEN Times(x, s) + 1 ELSE Times(x, s)
<1> DEFINE t  == Append(s, e)
           at == {i \in 1 .. Len(s) : s[i] = x}
<1>1. Len(s) \in Nat /\ Len(t) = Len(s) + 1
  BY LenProperties, AppendProperties
<1>2. (\A i \in 1 .. Len(s) : t[i] = s[i]) /\ t[Len(s) + 1] = e
  BY AppendProperties
<1>3. IsFiniteSet(at)
  BY TimesFinite
<1> HIDE DEF t
<1>4. {i \in 1 .. Len(t) : t[i] = x} = IF x = e THEN at \cup {Len(s) + 1} ELSE at
  BY <1>1, <1>2
<1>5. Len(s) + 1 \notin at
  BY <1>1
<1> HIDE DEF at
<1>6. Times(x, t) = IF x = e THEN Cardinality(at) + 1 ELSE Cardinality(at)
  BY <1>3, <1>4, <1>5, FS_AddElement DEF Times
<1>7. QED
  BY <1>6 DEF Times, t, at

LEMMA TimesTail ==
  ASSUME NEW S, NEW s \in Seq(S), s # <<>>, NEW x
  PROVE  /\ Times(x, Tail(s)) <= Times(x, s)
         /\ x = Head(s) => Times(x, Tail(s)) <= Times(x, s) - 1
<1> DEFINE t    == Tail(s)
           at   == {i \in 1 .. Len(s) : s[i] = x}
           rest == {i \in 1 .. Len(t) : t[i] = x}
           step == [i \in rest |-> i + 1]
<1>1. Len(s) \in Nat \ {0} /\ Len(t) = Len(s) - 1 /\ Head(s) = s[1]
  BY EmptySeq, HeadTailProperties
<1>2. \A i \in 1 .. Len(t) : t[i] = s[i + 1]
  BY <1>1, HeadTailProperties
<1>3. IsFiniteSet(at) /\ Cardinality(at) \in Nat
  BY TimesFinite, FS_CardinalityType
<1>4. /\ IsFiniteSet(at \ {1})
      /\ Cardinality(at \ {1}) = IF 1 \in at THEN Cardinality(at) - 1 ELSE Cardinality(at)
  BY <1>3, FS_RemoveElement
<1> HIDE DEF t
<1>5. \A i \in rest : i + 1 \in at \ {1}
  BY <1>1, <1>2
<1>6. step \in Injection(rest, at \ {1})
  BY <1>1, <1>5 DEF Injection, IsInjective
<1>7. Cardinality(rest) <= Cardinality(at \ {1}) /\ IsFiniteSet(rest)
  BY <1>4, <1>6, FS_Injection
<1>8. Cardinality(rest) \in Nat
  BY <1>7, FS_CardinalityType
<1>9. x = Head(s) => 1 \in at
  BY <1>1
<1>10. Times(x, s) = Cardinality(at) /\ Times(x, t) = Cardinality(rest)
  BY DEF Times
<1> HIDE DEF at, rest
<1>11. QED
  BY <1>3, <1>4, <1>7, <1>8, <1>9, <1>10 DEF t

LEMMA TimesJoined ==
  ASSUME NEW S, NEW s \in Seq(S), NEW u \in Seq(S), NEW x, ~Occurs(x, u)
  PROVE  Times(x, s \o u) = Times(x, s)
<1>1. /\ Len(s) \in Nat /\ Len(u) \in Nat /\ Len(s \o u) = Len(s) + Len(u)
      /\ \A i \in 1 .. Len(s) + Len(u) :
           (s \o u)[i] = IF i <= Len(s) THEN s[i] ELSE u[i - Len(s)]
  BY LenProperties, ConcatProperties
<1>2. ASSUME NEW i \in 1 .. Len(s) + Len(u)
      PROVE  (s \o u)[i] = x <=> i \in 1 .. Len(s) /\ s[i] = x
  <2>1. CASE i <= Len(s)
    BY <1>1, <2>1
  <2>2. CASE i > Len(s)
    <3>1. i - Len(s) \in 1 .. Len(u) /\ (s \o u)[i] = u[i - Len(s)]
      BY <1>1, <2>2
    <3>2. QED
      BY <2>2, <3>1 DEF Occurs
  <2>3. QED
    BY <1>1, <2>1, <2>2
<1>3. {i \in 1 .. Len(s \o u) : (s \o u)[i] = x} = {i \in 1 .. Len(s) : s[i] = x}
  BY <1>1, <1>2
<1>4. QED
  BY <1>3 DEF Times

SendFn(c) == Functor("sendInLoop", c)

Queued(c) == Times(SendFn(c), ToRun)

Tested(c) == IF userPc[c] = "send" THEN 1 ELSE 0

Sends(c) == Queued(c) + Tested(c)

(* The channel wants something, or is registered.                          *)
Watched(c) == poller.events[c] # {} \/ poller.interest[c] # None

(* What may lead to handleClose has been reported of a registered channel. *)
Listed(c) ==
  \/ c \in active /\ state[c] # "freed"
  \/ handling = c /\ revents[c] \cap {"IN", "HUP"} # {}
  => poller.interest[c] # None

(* A hangup is one for good.                                               *)
HungUp(c) ==
  (c \in active \/ handling = c) /\ "HUP" \in revents[c] =>
    net[c].peer = "reset" \/ net[c].shut

Paid(c) ==
  callbacks[c].down > 0 =>
    callbacks[c].down + Sends(c) + (IF Watched(c) THEN 1 ELSE 0) <= 1 + MaxSends

Counted(c) == Sends(c) <= MaxSends /\ Listed(c) /\ HungUp(c) /\ Paid(c)

AllCounted == \A c \in Conns : Counted(c)

(* What most steps do to most connections.                                 *)
SameSends(d) == Queued(d)' \in Nat /\ Queued(d)' <= Queued(d)

SameCount(d) ==
  /\ userPc'[d] = userPc[d] /\ callbacks'[d].down = callbacks[d].down
  /\ Watched(d)' => Watched(d)
  /\ Listed(d) => Listed(d)'
  /\ HungUp(d) => HungUp(d)'

Still(d) ==
  /\ userPc'[d] = userPc[d] /\ callbacks'[d].down = callbacks[d].down
  /\ poller'.events[d] = poller.events[d] /\ poller'.interest[d] = poller.interest[d]
  /\ state[d] = "freed" => state'[d] = "freed"
  /\ net[d].peer = "reset" => net'[d].peer = "reset"
  /\ net[d].shut => net'[d].shut
  /\ (d \in active' => d \in active) /\ (handling' = d => handling = d)
  /\ revents'[d] \subseteq revents[d]

LEMMA QueuedType ==
  ASSUME Types, NEW d
  PROVE  ToRun \in Seq(FunctorType) /\ Queued(d) \in Nat
BY ToRunIsSeq, TimesFinite DEF Queued

LEMMA FewerSends ==
  ASSUME Types, NEW d, userPc'[d] = userPc[d], SameSends(d)
  PROVE  Sends(d) \in Nat /\ Sends(d)' \in Nat /\ Sends(d)' <= Sends(d)
<1>1. Queued(d) \in Nat /\ Queued(d)' \in Nat /\ Queued(d)' <= Queued(d)
  BY QueuedType DEF SameSends
<1>2. Tested(d) \in Nat /\ Tested(d)' = Tested(d)
  BY DEF Tested
<1>3. QED
  BY <1>1, <1>2 DEF Sends

LEMMA SameCounted ==
  ASSUME Types, NEW d \in Conns, Counted(d), SameCount(d), SameSends(d)
  PROVE  Counted(d)'
<1>1. Sends(d) \in Nat /\ Sends(d)' \in Nat /\ Sends(d)' <= Sends(d) /\ MaxSends \in Nat
  BY FewerSends, TcpConnectionAssumption DEF SameCount
<1>2. callbacks[d].down \in Nat /\ callbacks'[d].down = callbacks[d].down
  BY DEF Types, SameCount
<1>3. Watched(d)' => Watched(d)
  BY DEF SameCount
<1>4. Paid(d)' /\ Sends(d)' <= MaxSends
  BY <1>1, <1>2, <1>3 DEF Counted, Paid
<1>5. QED
  BY <1>4 DEF Counted, SameCount

LEMMA StillCounted ==
  ASSUME Types, NEW d \in Conns, Counted(d), Still(d), SameSends(d)
  PROVE  Counted(d)'
<1>1. Watched(d)' => Watched(d)
  BY DEF Watched, Still
<1>2. Listed(d) => Listed(d)'
  BY DEF Listed, Still
<1>3. HungUp(d) => HungUp(d)'
  BY DEF HungUp, Still
<1>4. QED
  BY <1>1, <1>2, <1>3, SameCounted DEF SameCount, Still

(* The lines of functors.                                                  *)
LEMMA SendsKept ==
  ASSUME Types, ToRun' = ToRun, NEW d
  PROVE  SameSends(d)
BY QueuedType DEF SameSends, Queued

LEMMA SendsQueued ==
  ASSUME Types, NEW f \in FunctorType, ToRun' = Append(ToRun, f), NEW d, f # SendFn(d)
  PROVE  SameSends(d)
BY QueuedType, TimesAppended DEF SameSends, Queued

LEMMA SendsTaken ==
  ASSUME Types, ToRun # <<>>, NEW d,
         \/ ToRun' = Tail(ToRun)
         \/ \E g \in FunctorType : ToRun' = Append(Tail(ToRun), g) /\ g # SendFn(d)
  PROVE  /\ SameSends(d)
         /\ Head(ToRun) = SendFn(d) => Queued(d)' <= Queued(d) - 1
<1>1. PICK t : t = Tail(ToRun)
  OBVIOUS
<1>2. t \in Seq(FunctorType) /\ Times(SendFn(d), t) \in Nat
  BY <1>1, ToRunIsSeq, HeadTailProperties, TimesFinite
<1>3. /\ Times(SendFn(d), t) <= Queued(d)
      /\ Head(ToRun) = SendFn(d) => Times(SendFn(d), t) <= Queued(d) - 1
  BY <1>1, ToRunIsSeq, TimesTail DEF Queued
<1>4. Queued(d)' = Times(SendFn(d), t)
  <2>1. CASE ToRun' = t
    BY <2>1 DEF Queued
  <2>2. ASSUME NEW g \in FunctorType, ToRun' = Append(t, g), g # SendFn(d)
        PROVE  Queued(d)' = Times(SendFn(d), t)
    BY <1>2, <2>2, TimesAppended DEF Queued
  <2>3. QED
    BY <1>1, <2>1, <2>2
<1>5. QED
  BY <1>2, <1>3, <1>4 DEF SameSends

LEMMA NotSends ==
  ASSUME NEW c \in Conns, NEW d
  PROVE  SendFn(d) \notin {Establish(c), Destroy(c), RemoveInPool(c), HighWater(c),
                           WriteComplete(c), Functor("shutdownInLoop", c)}
BY DEF SendFn, Functor, Establish, Destroy, RemoveInPool, HighWater, WriteComplete

(* A step of c's that does to the others nothing.                          *)
LEMMA OthersStill ==
  ASSUME NEW c \in Conns, OthersKept(poller, poller', c),
         UNCHANGED <<userPc, active, handling>>,
         NEW d \in Conns \ {c}, state'[d] = state[d], callbacks'[d] = callbacks[d],
         net'[d] = net[d], revents'[d] = revents[d]
  PROVE  Still(d)
BY DEF Still, OthersKept

LEMMA QuietCounted ==
  ASSUME IInv, AllCounted, \A d \in Conns : Still(d) /\ SameSends(d)
  PROVE  AllCounted'
BY StillCounted DEF AllCounted, IInv

LEMMA InitCounted == Init => AllCounted
<1> SUFFICES ASSUME Init, NEW c \in Conns
             PROVE  Counted(c)
  BY DEF AllCounted
<1> USE TcpConnectionAssumption
<1>1. ToRun = <<>>
  BY WholeBatch DEF Init, ToRun
<1>2. Queued(c) = 0 /\ userPc[c] = "idle"
  BY <1>1, TimesEmpty DEF Init, Queued
<1>3. Sends(c) <= MaxSends
  BY <1>2 DEF Sends, Tested
<1>4. QED
  BY <1>3 DEF Init, Counted, Listed, HungUp, Paid

-----------------------------------------------------------------------------
(* Steps that send nothing and close nothing.                              *)

LEMMA LightCounted ==
  ASSUME IInv, AllCounted,
         \/ SwapPendingFunctors \/ EndPendingFunctors \/ UNCHANGED vars
         \/ \E c \in Conns : UserDrop(c) \/ Peer(c)
  PROVE  AllCounted'
<1>1. /\ UNCHANGED <<poller, state, callbacks, active, revents, handling, userPc>>
      /\ ToRun' = ToRun
  <2>1. CASE SwapPendingFunctors \/ EndPendingFunctors
    BY <2>1, ToRunSwapped, ToRunEnded DEF IInv, SwapPendingFunctors, EndPendingFunctors, user
  <2>2. CASE \/ UNCHANGED vars
             \/ \E c \in Conns : UserDrop(c) \/ Peer(c)
    BY <2>2 DEF ToRun, vars, UserDrop, Peer, PeerSends, PeerReads, PeerCloses, PeerResets,
                PeerStep, loop, user
  <2>3. QED
    BY <2>1, <2>2
<1>2. ASSUME NEW d \in Conns
      PROVE  /\ net[d].peer = "reset" => net'[d].peer = "reset"
             /\ net[d].shut => net'[d].shut
  <2>1. CASE net' = net
    BY <2>1
  <2>2. ASSUME NEW c \in Conns, Peer(c)
        PROVE  /\ net[d].peer = "reset" => net'[d].peer = "reset"
               /\ net[d].shut => net'[d].shut
    <3>1. net \in [Conns -> Socket]
      BY DEF IInv, Types, Socket
    <3>2. PICK v : /\ net' = [net EXCEPT ![c] = v] /\ v.shut = net[c].shut
                   /\ net[c].peer = "reset" => v.peer = "reset"
      <4>1. net[c] \in Socket
        BY <3>1
      <4>2. CASE PeerSends(c) \/ PeerReads(c) \/ PeerCloses(c)
        BY <4>1, <4>2 DEF PeerSends, PeerReads, PeerCloses, PeerStep, Socket
      <4>3. CASE PeerResets(c)
        BY <4>1, <4>3 DEF PeerResets, PeerStep, Socket
      <4>4. QED
        BY <2>2, <4>2, <4>3 DEF Peer
    <3>3. QED
      BY <3>1, <3>2
  <2>3. QED
    BY <2>1, <2>2 DEF SwapPendingFunctors, EndPendingFunctors, vars, UserDrop
<1>3. ASSUME NEW d \in Conns
      PROVE  Still(d) /\ SameSends(d)
  BY <1>1, <1>2, SendsKept DEF Still, IInv
<1>4. QED
  BY <1>3, QuietCounted

(* What the kernel reports is registered, and a reset is for ever.         *)
LEMMA PollCounted ==
  ASSUME IInv, AllCounted, Poll
  PROVE  AllCounted'
<1> USE TcpConnectionAssumption
<1>1. /\ UNCHANGED <<poller, state, net, callbacks, ioQueue, batch, ran, handling, userPc>>
      /\ handling = None
      /\ active' = {c \in Conns : Ready(c) # {}}
      /\ revents' = [c \in Conns |-> Ready(c)]
  BY DEF Poll, user, IInv, Round
<1>2. ToRun' = ToRun
  BY <1>1 DEF ToRun
<1>3. ASSUME NEW d \in Conns
      PROVE  Counted(d)'
  <2>1. SameSends(d)
    BY <1>2, SendsKept DEF IInv
  <2>2. Listed(d)'
    <3>1. Ready(d) # {} => poller.interest[d] # None
      BY DEF Ready
    <3>2. QED
      BY <1>1, <3>1 DEF Listed
  <2>3. HungUp(d)'
    <3>1. "HUP" \in Ready(d) => net[d].peer = "reset" \/ net[d].shut
      BY DEF Ready
    <3>2. QED
      BY <1>1, <3>1 DEF HungUp
  <2>4. SameCount(d)
    BY <1>1, <2>2, <2>3 DEF SameCount, Watched
  <2>5. QED
    BY <2>1, <2>4, SameCounted DEF AllCounted, IInv
<1>4. QED
  BY <1>3 DEF AllCounted

(* What is handled has been reported, and its object is there.             *)
LEMMA DispatchCounted ==
  ASSUME IInv, AllCounted, HandleEventReturn \/ \E c \in Conns : HandleEvent(c)
  PROVE  AllCounted'
<1> USE TcpConnectionAssumption
<1>1. UNCHANGED <<poller, state, net, callbacks, ioQueue, batch, ran, userPc>>
  BY DEF HandleEventReturn, HandleEvent, user
<1>2. ToRun' = ToRun
  BY <1>1 DEF ToRun
<1>3. revents \in [Conns -> SUBSET Kinds]
  BY DEF IInv, Types, Kinds
<1>4. ASSUME NEW d \in Conns
      PROVE  /\ d \in active' => d \in active
             /\ handling' = d => handling = d \/ (d \in active /\ state[d] # "freed")
             /\ revents'[d] \subseteq revents[d]
  <2>1. CASE HandleEventReturn
    BY <2>1 DEF HandleEventReturn
  <2>2. ASSUME NEW c \in Conns, HandleEvent(c)
        PROVE  /\ d \in active' => d \in active
               /\ handling' = d => handling = d \/ (d \in active /\ state[d] # "freed")
               /\ revents'[d] \subseteq revents[d]
    <3>1. Referenced(c) => state[c] # "freed"
      BY DEF IInv, ConnInv, Held, Accepted
    <3>2. QED
      BY <1>3, <2>2, <3>1 DEF HandleEvent
  <2>3. QED
    BY <2>1, <2>2
<1>5. ASSUME NEW d \in Conns
      PROVE  Counted(d)'
  <2>1. SameSends(d)
    BY <1>2, SendsKept DEF IInv
  <2>2. SameCount(d)
    <3>1. Listed(d) => Listed(d)'
      BY <1>1, <1>4 DEF Listed
    <3>2. HungUp(d) => HungUp(d)'
      BY <1>1, <1>4 DEF HungUp
    <3>3. QED
      BY <1>1, <3>1, <3>2 DEF SameCount, Watched
  <2>3. QED
    BY <2>1, <2>2, SameCounted DEF AllCounted, IInv
<1>6. QED
  BY <1>5 DEF AllCounted

LEMMA FreeCounted ==
  ASSUME IInv, AllCounted, NEW c \in Conns, Free(c)
  PROVE  AllCounted'
<1> USE TcpConnectionAssumption
<1>1. /\ UNCHANGED <<net, callbacks, ioQueue, batch, ran, active, revents, handling, userPc>>
      /\ IsLive(poller, c) /\ handling # c
      /\ poller' = DeleteChannel(poller, c)
      /\ state' = [state EXCEPT ![c] = "freed"]
  BY DEF Free, loop, user, Referenced
<1>2. Types /\ ConnInv(c)
  BY DEF IInv
<1>3. poller.fd[c] = c
  BY <1>1, <1>2 DEF ConnInv, Table, IsLive
<1>4. /\ poller'.events = [poller.events EXCEPT ![c] = {}]
      /\ poller'.interest = [poller.interest EXCEPT ![c] = None]
  BY <1>1, <1>2, <1>3 DEF DeleteChannel, Types, PollerType
<1>5. ToRun' = ToRun
  BY <1>1 DEF ToRun
<1>6. ASSUME NEW d \in Conns \ {c}
      PROVE  Still(d)
  BY <1>1, <1>2, <1>4 DEF Still, Types, PollerType
<1>7. SameCount(c)
  <2>1. ~Watched(c)' /\ state'[c] = "freed"
    BY <1>1, <1>2, <1>4 DEF Watched, Types, PollerType
  <2>2. Listed(c)' /\ (HungUp(c) => HungUp(c)')
    BY <1>1, <2>1 DEF Listed, HungUp
  <2>3. QED
    BY <1>1, <2>1, <2>2 DEF SameCount
<1>8. QED
  BY <1>2, <1>5, <1>6, <1>7, SendsKept, SameCounted, StillCounted DEF AllCounted

LEMMA NewConnectionCounted ==
  ASSUME IInv, AllCounted, NEW c \in Conns, NewConnection(c)
  PROVE  AllCounted'
<1> USE TcpConnectionAssumption
<1>1. /\ UNCHANGED <<net, batch, ran, active, revents, handling, userPc>>
      /\ state[c] = "unborn"
  BY DEF NewConnection, loop
<1>2. Types /\ Counted(c)
  BY DEF IInv, AllCounted
<1>3. /\ callbacks[c].up = 0 /\ callbacks[c].down = 0 /\ ~Begun(c)
      /\ poller.index[c] = "new" /\ poller.interest[c] = None /\ poller.events[c] = {}
  BY <1>1, Unborn
<1> DEFINE p == NewChannel(poller, c, c)
<1>4. /\ p \in PollerType
      /\ p.fd = [poller.fd EXCEPT ![c] = c]
      /\ p.events = poller.events /\ p.index = poller.index
      /\ p.interest = poller.interest
  <2>1. poller \in PollerType
    BY <1>2 DEF Types
  <2>2. QED
    BY <1>3, <2>1, NewChannelEffect
<1>5. CASE ~OneLoop
  <2>1. /\ poller' = p /\ callbacks' = callbacks
        /\ state' = [state EXCEPT ![c] = "connecting"]
        /\ ioQueue' = Append(ioQueue, Establish(c))
    BY <1>5 DEF NewConnection, Establish
  <2>2. ToRun' = Append(ToRun, Establish(c)) /\ Establish(c) \in FunctorType
    BY <1>1, <1>2, <2>1, NamedFunctors, ToRunQueued
  <2>3. ASSUME NEW d \in Conns
        PROVE  Still(d) /\ SameSends(d)
    <3>1. Still(d)
      BY <1>1, <1>2, <1>4, <2>1 DEF Still, Types
    <3>2. SameSends(d)
      BY <1>2, <2>2, NotSends, SendsQueued
    <3>3. QED
      BY <3>1, <3>2
  <2>4. QED
    BY <2>3, QuietCounted
<1>6. CASE OneLoop
  <2>1. /\ poller' = EnableReading(p, c) /\ ioQueue' = ioQueue
        /\ state' = [state EXCEPT ![c] = "connected"]
        /\ callbacks' = [callbacks EXCEPT ![c].up = @ + 1]
    BY <1>6 DEF NewConnection
  <2> HIDE DEF p
  <2>2. p.fd[c] = c /\ p.events[c] = {} /\ p.index[c] = "new" /\ p.interest[c] = None
    BY <1>2, <1>3, <1>4 DEF Types, PollerType
  <2>3. poller'.interest[c] # None /\ OthersKept(p, poller', c)
    BY <1>4, <2>1, <2>2, EnableReadingRow
  <2>4. \A d \in Conns \ {c} : p.fd[d] = poller.fd[d]
    BY <1>2, <1>4 DEF Types, PollerType
  <2>5. ToRun' = ToRun
    BY <1>1, <2>1 DEF ToRun
  <2>6. ASSUME NEW d \in Conns \ {c}
        PROVE  Still(d)
    BY <1>1, <1>2, <1>4, <2>1, <2>3 DEF Still, Types, OthersKept
  <2>7. Counted(c)'
    <3>1. callbacks'[c].down = 0
      BY <1>2, <1>3, <2>1 DEF Types
    <3>2. SameSends(c)
      BY <1>2, <2>5, SendsKept
    <3>3. Sends(c)' <= MaxSends
      BY <1>1, <1>2, <3>2, FewerSends DEF Counted
    <3>4. Listed(c)'
      BY <2>3 DEF Listed
    <3>5. HungUp(c)'
      BY <1>1, <1>2 DEF Counted, HungUp
    <3>6. Paid(c)'
      BY <3>1 DEF Paid
    <3>7. QED
      BY <3>3, <3>4, <3>5, <3>6 DEF Counted
  <2>8. QED
    BY <1>2, <2>5, <2>6, <2>7, SendsKept, StillCounted DEF AllCounted
<1>7. QED
  BY <1>5, <1>6

LEMMA BaseRunCounted ==
  ASSUME IInv, AllCounted, BaseRunFunctor
  PROVE  AllCounted'
<1>1. /\ UNCHANGED <<poller, state, net, callbacks, loop, user>>
      /\ baseQueue # <<>>
      /\ ioQueue' = Append(ioQueue, Destroy(Head(baseQueue).conn))
  BY DEF BaseRunFunctor, RemoveConnectionInPool, Destroy
<1>2. Types
  BY DEF IInv
<1>3. Head(baseQueue).conn \in Conns
  <2>1. Head(baseQueue) \in FunctorType
    BY <1>1, <1>2, HeadTailProperties DEF Types
  <2>2. QED
    BY <2>1 DEF FunctorType
<1>4. PICK c \in Conns : c = Head(baseQueue).conn
  BY <1>3
<1>5. ToRun' = Append(ToRun, Destroy(c)) /\ Destroy(c) \in FunctorType
  BY <1>1, <1>2, <1>4, NamedFunctors, ToRunQueued DEF loop
<1>6. ASSUME NEW d \in Conns
      PROVE  Still(d) /\ SameSends(d)
  <2>1. Still(d)
    BY <1>1 DEF Still, loop, user
  <2>2. SameSends(d)
    BY <1>2, <1>5, NotSends, SendsQueued
  <2>3. QED
    BY <2>1, <2>2
<1>7. QED
  BY <1>6, QuietCounted

LEMMA DestroyServerCounted ==
  ASSUME IInv, AllCounted, DestroyServer
  PROVE  AllCounted'
<1>1. UNCHANGED <<poller, state, net, callbacks, active, revents, handling, userPc>>
  BY DEF DestroyServer, loop, user
<1>2. Types
  BY DEF IInv
<1>3. PICK u \in Seq(FunctorType) :
        /\ ToRun' = ToRun \o u
        /\ \A i \in 1 .. Len(u) : \E d \in connections : u[i] = Destroy(d)
  <2>1. PICK order \in SetToSeqs(connections) :
          ioQueue' = ioQueue \o [i \in DOMAIN order |->
                                   Functor("connectDestroyed", order[i])]
    BY DEF DestroyServer
  <2> DEFINE u == [i \in DOMAIN order |-> Functor("connectDestroyed", order[i])]
  <2>2. /\ u \in Seq(FunctorType)
        /\ \A i \in 1 .. Len(u) : \E d \in connections : u[i] = Destroy(d)
    BY <1>2, AllQueued
  <2>3. ioQueue' = ioQueue \o u /\ UNCHANGED <<batch, ran>>
    BY <2>1 DEF DestroyServer, loop
  <2> HIDE DEF u
  <2>4. QED
    BY <1>2, <2>2, <2>3, ToRunJoined
<1>4. ASSUME NEW d \in Conns
      PROVE  Still(d) /\ SameSends(d)
  <2>1. Still(d)
    BY <1>1 DEF Still
  <2>2. ~Occurs(SendFn(d), u)
    BY <1>2, <1>3, NotSends DEF Occurs, Types
  <2>3. SameSends(d)
    BY <1>2, <1>3, <2>2, QueuedType, TimesJoined DEF SameSends, Queued
  <2>4. QED
    BY <2>1, <2>3
<1>5. QED
  BY <1>4, QuietCounted

-----------------------------------------------------------------------------
(* The user's thread.                                                      *)

LEMMA UserStateCounted ==
  ASSUME IInv, AllCounted, NEW c \in Conns,
         UNCHANGED <<poller, net, callbacks, ioQueue, batch, ran, active, revents, handling>>,
         NEW pc, userPc' = [userPc EXCEPT ![c] = pc],
         NEW next, state' = [state EXCEPT ![c] = next], state[c] # "freed",
         pc = "send" => callbacks[c].down = 0 /\ Sends(c) < MaxSends
  PROVE  AllCounted'
<1>1. Types /\ Counted(c)
  BY DEF IInv, AllCounted
<1>2. /\ ToRun' = ToRun /\ \A d \in Conns : SameSends(d)
      /\ Queued(c) \in Nat /\ Queued(c)' = Queued(c)
  BY <1>1, SendsKept, QueuedType DEF ToRun, Queued
<1>3. ASSUME NEW d \in Conns \ {c}
      PROVE  Still(d)
  BY <1>1 DEF Still, Types
<1>4. Counted(c)'
  <2>1. userPc'[c] = pc
    BY <1>1 DEF Types
  <2>2. Listed(c)' /\ HungUp(c)'
    BY <1>1 DEF Counted, Listed, HungUp
  <2>3. CASE pc = "send"
    <3>1. Sends(c)' <= MaxSends
      BY <1>2, <2>1, <2>3, TcpConnectionAssumption DEF Sends, Tested
    <3>2. Paid(c)'
      BY <1>1, <2>3 DEF Paid, Types
    <3>3. QED
      BY <2>2, <3>1, <3>2 DEF Counted
  <2>4. CASE pc # "send"
    <3>1. Sends(c) \in Nat /\ Sends(c)' \in Nat /\ Sends(c)' <= Sends(c)
      BY <1>2, <2>1, <2>4 DEF Sends, Tested
    <3>2. callbacks[c].down \in Nat /\ (Watched(c)' <=> Watched(c))
      BY <1>1 DEF Types, Watched
    <3>3. Sends(c)' <= MaxSends /\ Paid(c)'
      BY <1>1, <3>1, <3>2, TcpConnectionAssumption DEF Counted, Paid
    <3>4. QED
      BY <2>2, <3>3 DEF Counted
  <2>5. QED
    BY <2>3, <2>4
<1>5. QED
  BY <1>1, <1>2, <1>3, <1>4, StillCounted DEF AllCounted

LEMMA UserCallCounted ==
  ASSUME IInv, AllCounted, NEW c \in Conns, NEW op \in UserOps, UserCall(c, op)
  PROVE  AllCounted'
<1>1. Types /\ ConnInv(c)
  BY DEF IInv
<1>2. state[c] = "connected" /\ callbacks[c].down = 0
  BY <1>1 DEF UserCall, ConnInv, Life
<1>3. state' = [state EXCEPT ![c] = "connected"]
  BY <1>1, <1>2 DEF UserCall, Types
<1>4. SendsUnderWay(c) = Sends(c)
  BY DEF SendsUnderWay, Sends, Queued, Tested, Times, SendFn
<1>5. QED
  BY <1>2, <1>3, <1>4, UserStateCounted DEF UserCall, loop

LEMMA UserStoreCounted ==
  ASSUME IInv, AllCounted, NEW c \in Conns, UserStore(c)
  PROVE  AllCounted'
<1>1. ConnInv(c) /\ userPc[c] # "idle"
  BY DEF IInv, UserStore
<1>2. state[c] # "freed"
  BY <1>1 DEF ConnInv, Held, Referenced, Accepted
<1>3. /\ UNCHANGED <<poller, net, callbacks, ioQueue, batch, ran, active, revents, handling>>
      /\ userPc' = [userPc EXCEPT ![c] = "stored"]
      /\ state' = [state EXCEPT ![c] = "disconnected"]
  BY DEF UserStore, loop
<1>4. "stored" = "send" => callbacks[c].down = 0 /\ Sends(c) < MaxSends
  OBVIOUS
<1>5. QED
  BY <1>2, <1>3, <1>4, UserStateCounted

LEMMA UserQueueCounted ==
  ASSUME IInv, AllCounted, NEW c \in Conns, UserQueue(c)
  PROVE  AllCounted'
<1>1. /\ UNCHANGED <<poller, state, net, callbacks, batch, ran, active, revents, handling>>
      /\ userPc' = [userPc EXCEPT ![c] = "idle"]
  BY DEF UserQueue, loop
<1>2. Types /\ Counted(c)
  BY DEF IInv, AllCounted
<1>3. PICK f \in FunctorType :
        /\ ioQueue' = Append(ioQueue, f)
        /\ \/ userPc[c] = "send" /\ f = SendFn(c)
           \/ userPc[c] # "send" /\ f = Functor("shutdownInLoop", c)
  BY NamedFunctors DEF UserQueue, SendFn
<1>4. ToRun' = Append(ToRun, f)
  BY <1>1, <1>2, <1>3, ToRunQueued
<1>5. ASSUME NEW d \in Conns \ {c}
      PROVE  Still(d) /\ SameSends(d)
  <2>1. Still(d)
    BY <1>1, <1>2 DEF Still, Types
  <2>2. f # SendFn(d)
    BY <1>3, NotSends DEF SendFn, Functor
  <2>3. SameSends(d)
    BY <1>2, <1>4, <2>2, SendsQueued
  <2>4. QED
    BY <2>1, <2>3
<1>6. Counted(c)'
  <2>1. Sends(c)' = Sends(c) /\ Sends(c) \in Nat
    <3>1. /\ ToRun \in Seq(FunctorType) /\ Queued(c) \in Nat
          /\ Queued(c)' = IF SendFn(c) = f THEN Queued(c) + 1 ELSE Queued(c)
      BY <1>2, <1>4, QueuedType, TimesAppended DEF Queued
    <3>2. userPc'[c] = "idle"
      BY <1>1, <1>2 DEF Types
    <3>3. f = SendFn(c) <=> userPc[c] = "send"
      BY <1>3, NotSends
    <3>4. QED
      BY <3>1, <3>2, <3>3 DEF Sends, Tested
  <2>2. Listed(c)' /\ HungUp(c)'
    BY <1>1, <1>2 DEF Counted, Listed, HungUp
  <2>3. Watched(c)' <=> Watched(c)
    BY <1>1 DEF Watched
  <2>4. QED
    BY <1>1, <1>2, <2>1, <2>2, <2>3 DEF Counted, Paid
<1>7. QED
  BY <1>2, <1>5, <1>6, StillCounted DEF AllCounted

-----------------------------------------------------------------------------
(* The callbacks of a channel.                                             *)

(* What becomes of the socket: a reset or a shutdown is for ever.          *)
Grown(c) ==
  \E v \in Socket : /\ net' = [net EXCEPT ![c] = v]
                    /\ v.peer = net[c].peer /\ (net[c].shut => v.shut)

LEMMA SendGrown ==
  ASSUME Types, NEW c \in Conns, SendInLoop(c)
  PROVE  Grown(c)
<1>1. net \in [Conns -> Socket] /\ net[c] \in Socket
  BY DEF Types, Socket
<1>2. CASE \E room \in BOOLEAN : net' = [net EXCEPT ![c].room = room]
  <2>1. PICK room \in BOOLEAN : net' = [net EXCEPT ![c].room = room]
    BY <1>2
  <2>2. [net[c] EXCEPT !.room = room] \in Socket
    BY <1>1 DEF Socket
  <2>3. QED
    BY <1>1, <2>1, <2>2 DEF Grown, Socket
<1>3. CASE net' = [net EXCEPT ![c].room = FALSE, ![c].err = FALSE]
  <2>1. [net[c] EXCEPT !.room = FALSE, !.err = FALSE] \in Socket
    BY <1>1 DEF Socket
  <2>2. net' = [net EXCEPT ![c] = [net[c] EXCEPT !.room = FALSE, !.err = FALSE]]
    BY <1>1, <1>3 DEF Socket
  <2>3. QED
    BY <1>1, <2>1, <2>2 DEF Grown, Socket
<1>4. CASE net' = net
  BY <1>1, <1>4 DEF Grown
<1>5. QED
  BY <1>2, <1>3, <1>4 DEF SendInLoop

LEMMA ShutdownGrown ==
  ASSUME Types, NEW c \in Conns, ShutdownInLoop(c)
  PROVE  Grown(c)
<1>1. net \in [Conns -> Socket] /\ net[c] \in Socket
  BY DEF Types, Socket
<1>2. PICK b \in BOOLEAN : b = (net[c].shut \/ ~IsWriting(poller, c))
  BY <1>1 DEF Socket
<1>3. [net[c] EXCEPT !.shut = b] \in Socket
  BY <1>1 DEF Socket
<1>4. net' = [net EXCEPT ![c] = [net[c] EXCEPT !.shut = b]]
  BY <1>1, <1>2 DEF ShutdownInLoop, Socket
<1>5. QED
  BY <1>1, <1>2, <1>3, <1>4 DEF Grown, Socket

LEMMA FlushGrown ==
  ASSUME Types, NEW c \in Conns, Flush(c)
  PROVE  Grown(c)
<1>1. net \in [Conns -> Socket] /\ net[c] \in Socket
  BY DEF Types, Socket
<1>2. PICK room \in BOOLEAN :
        net' = [net EXCEPT ![c].room = room,
                           ![c].shut = @ \/ state[c] = "disconnected"]
  BY DEF Flush
<1>3. PICK b \in BOOLEAN : b = (net[c].shut \/ state[c] = "disconnected")
  BY <1>1 DEF Socket
<1>4. [net[c] EXCEPT !.room = room, !.shut = b] \in Socket
  BY <1>1 DEF Socket
<1>5. net' = [net EXCEPT ![c] = [net[c] EXCEPT !.room = room, !.shut = b]]
  BY <1>1, <1>2, <1>3 DEF Socket
<1>6. QED
  BY <1>1, <1>3, <1>4, <1>5 DEF Grown, Socket

LEMMA CallbackGrown ==
  ASSUME Types, NEW c \in Conns, CallbackStep(c)
  PROVE  Grown(c)
<1>1. net \in [Conns -> Socket] /\ net[c] \in Socket
  BY DEF Types, Socket
<1>2. CASE net' = net
  BY <1>1, <1>2 DEF Grown
<1>3. CASE net' = [net EXCEPT ![c].err = FALSE]
  <2>1. [net[c] EXCEPT !.err = FALSE] \in Socket
    BY <1>1 DEF Socket
  <2>2. QED
    BY <1>1, <1>3, <2>1 DEF Grown, Socket
<1>4. CASE net' = [net EXCEPT ![c].room = FALSE]
  <2>1. [net[c] EXCEPT !.room = FALSE] \in Socket
    BY <1>1 DEF Socket
  <2>2. QED
    BY <1>1, <1>4, <2>1 DEF Grown, Socket
<1>5. CASE HandleRead(c)
  <2>1. PICK b \in BOOLEAN : b = (net[c].err /\ net[c].data)
    BY <1>1 DEF Socket
  <2>2. net' = [net EXCEPT ![c] = [net[c] EXCEPT !.data = FALSE, !.err = b]]
    BY <1>1, <1>5, <2>1 DEF HandleRead, Socket
  <2>3. [net[c] EXCEPT !.data = FALSE, !.err = b] \in Socket
    BY <1>1 DEF Socket
  <2>4. QED
    BY <1>1, <2>2, <2>3 DEF Grown, Socket
<1>6. QED
  BY <1>2, <1>3, <1>4, <1>5, SendGrown, ShutdownGrown, FlushGrown
     DEF CallbackStep, HandleError, HandleClose, MessageCallback, HandleWrite

LEMMA CallbackPoller ==
  ASSUME IInv, NEW c \in Conns, CallbackStep(c)
  PROVE  OthersKept(poller, poller', c)
<1>1. Types /\ ConnInv(c) /\ handling = c
  BY DEF IInv, CallbackStep, HandleError, HandleRead, MessageCallback, HandleWrite,
         HandleClose, Callback
<1>2. poller' = poller \/ \E E \in SUBSET Events : poller' = SetEvents(poller, c, E)
  <2>1. poller.events[c] \in SUBSET Events
    BY <1>1 DEF Types, PollerType
  <2>2. CASE poller' = EnableWriting(poller, c)
    <3>1. poller.events[c] \cup {"write"} \in SUBSET Events
      BY <2>1 DEF Events
    <3>2. QED
      BY <2>2, <3>1 DEF EnableWriting
  <2>3. CASE poller' = DisableWriting(poller, c)
    <3>1. poller.events[c] \ {"write"} \in SUBSET Events
      BY <2>1 DEF Events
    <3>2. QED
      BY <2>3, <3>1 DEF DisableWriting
  <2>4. CASE poller' = DisableAll(poller, c)
    <3>1. {} \in SUBSET Events
      OBVIOUS
    <3>2. QED
      BY <2>4, <3>1 DEF DisableAll
  <2>5. poller' = poller \/ poller' = EnableWriting(poller, c)
        \/ poller' = DisableWriting(poller, c) \/ poller' = DisableAll(poller, c)
    BY DEF CallbackStep, HandleError, HandleRead, MessageCallback, HandleWrite, HandleClose,
           CloseConnection, SendInLoop, ShutdownInLoop, Flush
  <2>6. QED
    BY <2>2, <2>3, <2>4, <2>5
<1>3. /\ poller \in PollerType /\ poller.fd[c] = c
      /\ poller.index[c] # "new" => poller.channels[c] = c
      /\ poller.index[c] = "added" <=> poller.interest[c] # None
  <2>1. Accepted(c)
    BY <1>1 DEF ConnInv, Held, Referenced
  <2>2. QED
    BY <1>1, <2>1 DEF ConnInv, Table, Types
<1>4. CASE poller' = poller
  BY <1>4 DEF OthersKept
<1>5. ASSUME NEW E \in SUBSET Events, poller' = SetEvents(poller, c, E)
      PROVE  OthersKept(poller, poller', c)
  BY <1>3, <1>5, SetEventsRow
<1>6. QED
  BY <1>2, <1>4, <1>5

LEMMA CallbackOthers ==
  ASSUME IInv, NEW c \in Conns, CallbackStep(c)
  PROVE  /\ \A d \in Conns \ {c} : Still(d)
         /\ \A d \in Conns : SameSends(d)
         /\ UNCHANGED <<userPc, active, handling>> /\ handling = c /\ c \notin active
         /\ revents'[c] \cap {"IN", "HUP"} \subseteq revents[c]
         /\ net'[c].peer = net[c].peer /\ (net[c].shut => net'[c].shut)
<1>1. Types
  BY DEF IInv
<1>2. /\ UNCHANGED <<userPc, active, handling, batch, ran>> /\ handling = c
      /\ c \notin active
  BY DEF IInv, Round, CallbackStep, HandleError, HandleRead, MessageCallback, HandleWrite,
         HandleClose, Callback, CloseConnection, user
<1>3. /\ \A d \in Conns \ {c} : state'[d] = state[d] /\ callbacks'[d] = callbacks[d]
                                  /\ revents'[d] = revents[d]
      /\ revents'[c] \cap {"IN", "HUP"} \subseteq revents[c]
  <2>1. /\ \/ state' = state \/ state' = [state EXCEPT ![c] = "disconnected"]
        /\ \/ callbacks' = callbacks \/ callbacks' = [callbacks EXCEPT ![c].down = @ + 1]
        /\ \E R : revents' = [revents EXCEPT ![c] = R]
                    /\ R \cap {"IN", "HUP"} \subseteq revents[c]
    BY DEF CallbackStep, HandleError, HandleRead, MessageCallback, HandleWrite,
           HandleClose, CloseConnection, SendInLoop, ShutdownInLoop
  <2>2. QED
    BY <1>1, <2>1 DEF Types
<1>4. /\ \A d \in Conns \ {c} : net'[d] = net[d]
      /\ net'[c].peer = net[c].peer /\ (net[c].shut => net'[c].shut)
  BY <1>1, CallbackGrown DEF Grown, Types
<1>5. \A d \in Conns \ {c} : Still(d)
  BY <1>2, <1>3, <1>4, CallbackPoller, OthersStill
<1>6. \/ ToRun' = ToRun
      \/ \E f \in {Destroy(c), HighWater(c), WriteComplete(c)} : ToRun' = Append(ToRun, f)
  <2>1. \/ ioQueue' = ioQueue
        \/ \E f \in {Destroy(c), HighWater(c), WriteComplete(c)} :
             ioQueue' = Append(ioQueue, f)
    BY DEF CallbackStep, HandleError, HandleRead, MessageCallback, HandleWrite,
           HandleClose, CloseConnection, RemoveConnection, RemoveConnectionInPool,
           SendInLoop, ShutdownInLoop, Flush, Notify, Destroy, HighWater, WriteComplete
  <2>2. QED
    BY <1>1, <1>2, <2>1, NamedFunctors, ToRunQueued DEF ToRun
<1>7. \A d \in Conns : SameSends(d)
  BY <1>1, <1>6, NamedFunctors, NotSends, SendsKept, SendsQueued
<1>8. QED
  BY <1>2, <1>3, <1>4, <1>5, <1>7

(* What update() makes of the connection's own row.                        *)
LEMMA OwnRow ==
  ASSUME IInv, NEW c \in Conns, Accepted(c), NEW E \in SUBSET Events
  PROVE  LET q == SetEvents(poller, c, E)
         IN  /\ q.events[c] = E
             /\ E # {} => q.interest[c] # None
             /\ E = {} /\ poller.interest[c] # None => q.interest[c] = None
<1> DEFINE q == SetEvents(poller, c, E)
<1>1. /\ poller \in PollerType /\ poller.fd[c] = c
      /\ poller.index[c] = "added" <=> poller.interest[c] # None
      /\ poller.index[c] # "new" => poller.channels[c] = c
  BY DEF IInv, ConnInv, Table, Types
<1>2. /\ q \in PollerType /\ q.failed = poller.failed
      /\ q.fd[c] = c /\ q.events[c] = E /\ q.channels[c] = c
      /\ q.index[c] = IndexAfter(poller, c, E)
      /\ q.interest[c] # None => q.interest[c] = [ptr |-> c, events |-> E]
      /\ q.index[c] = "added" <=> q.interest[c] # None
      /\ OthersKept(poller, q, c)
  BY <1>1, SetEventsRow
<1> HIDE DEF q
<1>3. E # {} => q.interest[c] # None
  BY <1>2 DEF IndexAfter
<1>4. E = {} /\ poller.interest[c] # None => q.interest[c] = None
  BY <1>1, <1>2 DEF IndexAfter
<1>5. QED
  BY <1>2, <1>3, <1>4 DEF q

LEMMA HandledAccepted ==
  ASSUME IInv, NEW c \in Conns, CallbackStep(c)
  PROVE  Accepted(c) /\ Types /\ ConnInv(c)
<1>1. handling = c
  BY DEF CallbackStep, HandleError, HandleRead, MessageCallback, HandleWrite,
         HandleClose, Callback
<1>2. QED
  BY <1>1 DEF IInv, ConnInv, Held, Referenced

(* Such a step does not close the connection.                              *)
LEMMA CallbackKeepsCount ==
  ASSUME IInv, AllCounted, NEW c \in Conns, CallbackStep(c),
         callbacks'[c].down = callbacks[c].down,
         \/ poller.interest[c] # None => poller'.interest[c] # None
         \/ revents'[c] \cap {"IN", "HUP"} = {},
         callbacks[c].down = 0 \/ (Watched(c)' => Watched(c))
  PROVE  AllCounted'
<1>1. Counted(c) /\ \A d \in Conns \ {c} : Counted(d)
  BY DEF AllCounted
<1>2. /\ \A d \in Conns \ {c} : Still(d)
      /\ \A d \in Conns : SameSends(d)
      /\ UNCHANGED <<userPc, active, handling>> /\ handling = c /\ c \notin active
      /\ revents'[c] \cap {"IN", "HUP"} \subseteq revents[c]
      /\ net'[c].peer = net[c].peer /\ (net[c].shut => net'[c].shut)
  BY CallbackOthers
<1>3. /\ Types /\ Sends(c) \in Nat /\ Sends(c)' \in Nat /\ Sends(c)' <= Sends(c)
      /\ Sends(c)' <= MaxSends /\ MaxSends \in Nat
  BY <1>1, <1>2, FewerSends, TcpConnectionAssumption DEF IInv, Counted
<1>4. Listed(c)'
  BY <1>1, <1>2 DEF Counted, Listed
<1>5. HungUp(c)'
  BY <1>1, <1>2 DEF Counted, HungUp
<1>6. Paid(c)'
  <2>1. callbacks[c].down \in Nat
    BY <1>3 DEF Types
  <2>2. CASE callbacks[c].down = 0
    BY <2>2 DEF Paid
  <2>3. CASE Watched(c)' => Watched(c)
    BY <1>1, <1>3, <2>1, <2>3 DEF Counted, Paid
  <2>4. QED
    BY <2>2, <2>3
<1>7. QED
  BY <1>1, <1>2, <1>3, <1>4, <1>5, <1>6, StillCounted DEF AllCounted, Counted

(* handleClose is called of a registered channel, and unregisters it.      *)
LEMMA CloseCounted ==
  ASSUME IInv, AllCounted, NEW c \in Conns, CallbackStep(c), CloseConnection(c),
         revents[c] \cap {"IN", "HUP"} # {}, revents'[c] \cap {"IN", "HUP"} = {}
  PROVE  AllCounted'
<1>1. Counted(c) /\ \A d \in Conns \ {c} : Counted(d)
  BY DEF AllCounted
<1>2. /\ \A d \in Conns \ {c} : Still(d)
      /\ \A d \in Conns : SameSends(d)
      /\ UNCHANGED <<userPc, active, handling>> /\ handling = c /\ c \notin active
      /\ revents'[c] \cap {"IN", "HUP"} \subseteq revents[c]
      /\ net'[c].peer = net[c].peer /\ (net[c].shut => net'[c].shut)
  BY CallbackOthers
<1>3. Accepted(c) /\ Types
  BY HandledAccepted
<1>4. poller.interest[c] # None
  BY <1>1, <1>2 DEF Counted, Listed
<1>5. ~Watched(c)'
  <2>1. PICK E \in SUBSET Events : E = {} /\ poller' = SetEvents(poller, c, E)
    BY DEF CloseConnection, DisableAll
  <2>2. poller'.events[c] = E /\ (E = {} => poller'.interest[c] = None)
    BY <1>3, <1>4, <2>1, OwnRow
  <2>3. QED
    BY <2>1, <2>2 DEF Watched
<1>6. callbacks[c].down \in Nat /\ callbacks'[c].down = callbacks[c].down + 1
  BY <1>3 DEF CloseConnection, Types
<1>7. /\ Sends(c) \in Nat /\ Sends(c)' \in Nat /\ Sends(c)' <= Sends(c)
      /\ Sends(c) <= MaxSends /\ MaxSends \in Nat
  BY <1>1, <1>2, <1>3, FewerSends, TcpConnectionAssumption DEF Counted
<1>8. Paid(c)'
  <2>1. Watched(c)
    BY <1>4 DEF Watched
  <2>2. CASE callbacks[c].down = 0
    BY <1>5, <1>6, <1>7, <2>2 DEF Paid
  <2>3. CASE callbacks[c].down > 0
    BY <1>1, <1>5, <1>6, <1>7, <2>1, <2>3 DEF Counted, Paid
  <2>4. QED
    BY <1>6, <2>2, <2>3
<1>9. Listed(c)' /\ HungUp(c)'
  BY <1>1, <1>2 DEF Counted, Listed, HungUp
<1>10. Sends(c)' <= MaxSends
  BY <1>7
<1>11. QED
  BY <1>1, <1>2, <1>3, <1>8, <1>9, <1>10, StillCounted DEF AllCounted, Counted

LEMMA SentRow ==
  ASSUME IInv, NEW c \in Conns, Accepted(c), SendInLoop(c)
  PROVE  /\ poller.interest[c] # None => poller'.interest[c] # None
         /\ callbacks' = callbacks
<1>1. poller.events[c] \in SUBSET Events
  BY DEF IInv, Types, PollerType
<1>2. CASE poller' = EnableWriting(poller, c)
  <2>1. PICK E \in SUBSET Events :
          E = poller.events[c] \cup {"write"} /\ poller' = SetEvents(poller, c, E)
    BY <1>1, <1>2 DEF EnableWriting, Events
  <2>2. E # {} => poller'.interest[c] # None
    BY <2>1, OwnRow
  <2>3. QED
    BY <2>1, <2>2 DEF SendInLoop
<1>3. QED
  BY <1>2 DEF SendInLoop

LEMMA CallbackCounted ==
  ASSUME IInv, AllCounted, NEW c \in Conns, CallbackStep(c)
  PROVE  AllCounted'
<1>1. Accepted(c) /\ Types /\ ConnInv(c) /\ Counted(c)
  BY HandledAccepted DEF AllCounted
<1>2. handling = c /\ revents[c] \in SUBSET Kinds
  BY <1>1, CallbackOthers DEF Types, Kinds
<1>3. CASE poller' = poller /\ callbacks' = callbacks
  BY <1>3, CallbackKeepsCount DEF Watched
<1>4. ASSUME HandleRead(c), CloseConnection(c)
      PROVE  AllCounted'
  <2>1. "IN" \in revents[c] /\ revents'[c] \cap {"IN", "HUP"} = {}
    BY <1>1, <1>2, <1>4 DEF HandleRead, Callback, IInv, Round, Types
  <2>2. QED
    BY <1>4, <2>1, CloseCounted
<1>5. CASE HandleClose(c)
  <2>1. /\ "HUP" \in revents[c] /\ revents'[c] \cap {"IN", "HUP"} = {}
        /\ CloseConnection(c)
    BY <1>1, <1>5 DEF HandleClose, Callback, Types
  <2>2. QED
    BY <2>1, CloseCounted
<1>6. CASE MessageCallback(c) /\ SendInLoop(c) /\ state[c] = "connected"
  <2>1. callbacks[c].down = 0
    BY <1>1, <1>6 DEF ConnInv, Life
  <2>2. QED
    BY <1>1, <1>6, <2>1, SentRow, CallbackKeepsCount
<1>7. CASE HandleWrite(c) /\ Flush(c) /\ IsWriting(poller, c)
           /\ ~net[c].shut /\ net[c].peer # "reset"
  <2>1. Watched(c) /\ callbacks' = callbacks
    BY <1>7 DEF Watched, IsWriting, HandleWrite
  <2>2. "IN" \notin revents[c]
    BY <1>7 DEF HandleWrite, Callback
  <2>3. "HUP" \notin revents[c]
    BY <1>1, <1>2, <1>7 DEF Counted, HungUp
  <2>4. revents'[c] \cap {"IN", "HUP"} = {}
    BY <2>2, <2>3, CallbackOthers
  <2>5. QED
    BY <2>1, <2>4, CallbackKeepsCount
<1>8. \/ poller' = poller /\ callbacks' = callbacks
      \/ HandleRead(c) /\ CloseConnection(c)
      \/ HandleClose(c)
      \/ MessageCallback(c) /\ SendInLoop(c) /\ state[c] = "connected"
      \/ /\ HandleWrite(c) /\ Flush(c) /\ IsWriting(poller, c)
         /\ ~net[c].shut /\ net[c].peer # "reset"
  <2>1. CASE HandleError(c)
    BY <2>1 DEF HandleError
  <2>2. CASE HandleRead(c)
    BY <2>2 DEF HandleRead
  <2>3. CASE MessageCallback(c)
    BY <2>3 DEF MessageCallback, ShutdownInLoop
  <2>4. CASE HandleWrite(c)
    BY <2>4 DEF HandleWrite
  <2>5. QED
    BY <2>1, <2>2, <2>3, <2>4 DEF CallbackStep
<1>9. QED
  BY <1>3, <1>4, <1>5, <1>6, <1>7, <1>8

-----------------------------------------------------------------------------
(* The pending functors, with nothing to dispatch.                         *)

(* The functor of c's that is run counts for c at most.                    *)
Ran(c) ==
  /\ active = {} /\ handling = None /\ UNCHANGED <<active, handling, userPc>>
  /\ ToRun # <<>>
  /\ \/ ToRun' = Tail(ToRun)
     \/ \E g \in {HighWater(c), WriteComplete(c)} : ToRun' = Append(Tail(ToRun), g)

LEMMA RanSends ==
  ASSUME Types, NEW c \in Conns, Ran(c), NEW d \in Conns
  PROVE  /\ SameSends(d)
         /\ Head(ToRun) = SendFn(d) => Queued(d)' <= Queued(d) - 1
<1>1. \A g \in {HighWater(c), WriteComplete(c)} : g \in FunctorType /\ g # SendFn(d)
  BY NamedFunctors, NotSends
<1>2. \/ ToRun' = Tail(ToRun)
      \/ \E g \in FunctorType : ToRun' = Append(Tail(ToRun), g) /\ g # SendFn(d)
  BY <1>1 DEF Ran
<1>3. QED
  BY <1>2, SendsTaken DEF Ran

LEMMA RanCounted ==
  ASSUME IInv, AllCounted, NEW c \in Conns, Ran(c), OthersKept(poller, poller', c),
         \A d \in Conns \ {c} : callbacks'[d].down = callbacks[d].down,
         Paid(c)'
  PROVE  AllCounted'
<1> USE TcpConnectionAssumption
<1>1. ASSUME NEW d \in Conns
      PROVE  /\ Types /\ SameSends(d) /\ Counted(d)
             /\ d \notin active /\ handling # d /\ d \notin active' /\ handling' # d
             /\ userPc'[d] = userPc[d]
  BY RanSends DEF Ran, IInv, AllCounted
<1>2. ASSUME NEW d \in Conns
      PROVE  Sends(d)' <= MaxSends /\ Listed(d)' /\ HungUp(d)'
  <2>1. Sends(d)' <= MaxSends
    BY <1>1, FewerSends DEF Counted
  <2>2. QED
    BY <1>1, <2>1 DEF Listed, HungUp
<1>3. ASSUME NEW d \in Conns \ {c}
      PROVE  Counted(d)'
  <2>1. Watched(d)' => Watched(d)
    BY DEF Watched, OthersKept
  <2>2. SameCount(d)
    BY <1>1, <1>2, <2>1 DEF SameCount
  <2>3. QED
    BY <1>1, <2>2, SameCounted
<1>4. QED
  BY <1>2, <1>3 DEF AllCounted, Counted

LEMMA EstablishedCounted ==
  ASSUME IInv, AllCounted, NEW c \in Conns, Ran(c), Head(ToRun) = Establish(c),
         ConnectEstablished(c)
  PROVE  AllCounted'
<1>1. Types /\ ConnInv(c)
  BY DEF IInv
<1>2. Pending(Establish(c))
  BY <1>1, ToRunIsSeq, InTail DEF Ran, Pending
<1>3. /\ callbacks[c].up = 0 /\ state[c] = "connecting" /\ Accepted(c) /\ ~Begun(c)
      /\ callbacks[c] \in [up : Nat, down : Nat]
  BY <1>1, <1>2 DEF ConnInv, Life, Accepted, Types
<1>4. callbacks[c].down = 0 /\ poller.interest[c] = None
  BY <1>1, <1>3 DEF Begun
<1>5. /\ callbacks'[c].down = 0
      /\ \A d \in Conns \ {c} : callbacks'[d].down = callbacks[d].down
  BY <1>1, <1>4 DEF ConnectEstablished, Types
<1>6. OthersKept(poller, poller', c)
  <2>1. PICK E \in SUBSET Events : poller' = SetEvents(poller, c, E)
    <3>1. poller.events[c] \cup {"read"} \in SUBSET Events
      BY <1>1 DEF Types, PollerType, Events
    <3>2. QED
      BY <3>1 DEF ConnectEstablished, EnableReading
  <2>2. /\ poller \in PollerType /\ poller.fd[c] = c
        /\ poller.index[c] # "new" => poller.channels[c] = c
        /\ poller.index[c] = "added" <=> poller.interest[c] # None
    BY <1>1, <1>3 DEF ConnInv, Table, Types
  <2>3. QED
    BY <2>1, <2>2, SetEventsRow
<1>7. Paid(c)'
  BY <1>5 DEF Paid
<1>8. QED
  BY <1>5, <1>6, <1>7, RanCounted

LEMMA DestroyedCounted ==
  ASSUME IInv, AllCounted, NEW c \in Conns, Ran(c), Head(ToRun) = Destroy(c),
         ConnectDestroyed(c)
  PROVE  AllCounted'
<1>1. Types /\ ConnInv(c) /\ Counted(c)
  BY DEF IInv, AllCounted
<1>2. Pending(Destroy(c))
  BY <1>1, ToRunIsSeq, InTail DEF Ran, Pending
<1>3. Accepted(c)
  <2>1. Destroy(c) \in FunctorType /\ Destroy(c).conn = c /\ Destroy(c).run \in Strong
    BY NamedFunctors DEF Destroy, Functor, Strong
  <2>2. QED
    BY <1>1, <1>2, <2>1, PendingHolds DEF ConnInv, Held
<1>4. /\ poller'.interest[c] = None
      /\ poller'.events[c] = IF state[c] = "connected" THEN {} ELSE poller.events[c]
      /\ OthersKept(poller, poller', c)
  BY <1>3, DestroyedRow
<1>5. \A d \in Conns \ {c} : callbacks'[d].down = callbacks[d].down
  BY <1>1 DEF ConnectDestroyed, Types
<1>6. /\ Sends(c) \in Nat /\ Sends(c)' \in Nat /\ Sends(c)' <= Sends(c)
      /\ Sends(c) <= MaxSends /\ MaxSends \in Nat
  BY <1>1, RanSends, FewerSends, TcpConnectionAssumption DEF Counted, Ran
<1>7. Paid(c)'
  <2>1. CASE state[c] = "connected"
    <3>1. callbacks'[c].down = 1
      BY <1>1, <2>1 DEF ConnectDestroyed, ConnInv, Life, Types
    <3>2. ~Watched(c)'
      BY <1>4, <2>1 DEF Watched
    <3>3. QED
      BY <1>6, <3>1, <3>2 DEF Paid
  <2>2. CASE state[c] # "connected"
    <3>1. callbacks' = callbacks
      BY <2>2 DEF ConnectDestroyed
    <3>2. Watched(c)' => Watched(c)
      BY <1>4, <2>2 DEF Watched
    <3>3. callbacks[c].down \in Nat
      BY <1>1 DEF Types
    <3>4. QED
      BY <1>1, <1>6, <3>1, <3>2, <3>3 DEF Counted, Paid
  <2>3. QED
    BY <2>1, <2>2
<1>8. QED
  BY <1>4, <1>5, <1>7, RanCounted

(* There is one sendInLoop less, which may have enabled writing.           *)
LEMMA SentCounted ==
  ASSUME IInv, AllCounted, NEW c \in Conns, Ran(c), Head(ToRun) = SendFn(c),
         Referenced(c), SendInLoop(c)
  PROVE  AllCounted'
<1>1. Types /\ ConnInv(c) /\ Counted(c)
  BY DEF IInv, AllCounted
<1>2. /\ Queued(c) \in Nat /\ Queued(c)' \in Nat /\ Queued(c)' <= Queued(c) - 1
      /\ userPc'[c] = userPc[c]
  BY <1>1, RanSends, QueuedType DEF Ran, SameSends
<1>3. Sends(c) \in Nat /\ Sends(c)' \in Nat /\ Sends(c)' <= Sends(c) - 1
  BY <1>2 DEF Sends, Tested
<1>4. callbacks' = callbacks
  BY DEF SendInLoop
<1>5. callbacks[c].down \in Nat
  BY <1>1 DEF Types
<1>6. Paid(c)'
  BY <1>1, <1>3, <1>4, <1>5, TcpConnectionAssumption DEF Counted, Paid
<1>7. OthersKept(poller, poller', c)
  <2>1. CASE poller' = poller
    BY <2>1 DEF OthersKept
  <2>2. CASE poller' = EnableWriting(poller, c)
    <3>1. poller.events[c] \cup {"write"} \in SUBSET Events
      BY <1>1 DEF Types, PollerType, Events
    <3>2. PICK E \in SUBSET Events : poller' = SetEvents(poller, c, E)
      BY <2>2, <3>1 DEF EnableWriting
    <3>3. /\ poller \in PollerType /\ poller.fd[c] = c
          /\ poller.index[c] # "new" => poller.channels[c] = c
          /\ poller.index[c] = "added" <=> poller.interest[c] # None
      BY <1>1 DEF ConnInv, Held, Table, Types
    <3>4. QED
      BY <3>2, <3>3, SetEventsRow
  <2>3. QED
    BY <2>1, <2>2 DEF SendInLoop
<1>8. QED
  BY <1>4, <1>6, <1>7, RanCounted

(* The others leave the channel and the count as they are.                 *)
LEMMA OtherRanCounted ==
  ASSUME IInv, AllCounted, NEW c \in Conns, Ran(c), UNCHANGED <<poller, callbacks>>
  PROVE  AllCounted'
<1>1. Types /\ Counted(c)
  BY DEF IInv, AllCounted
<1>2. /\ Sends(c) \in Nat /\ Sends(c)' \in Nat /\ Sends(c)' <= Sends(c)
      /\ callbacks[c].down \in Nat
  BY <1>1, RanSends, FewerSends DEF Ran, Types
<1>3. Paid(c)'
  BY <1>1, <1>2, TcpConnectionAssumption DEF Counted, Paid, Watched
<1>4. OthersKept(poller, poller', c)
  BY DEF OthersKept
<1>5. QED
  BY <1>3, <1>4, RanCounted

LEMMA RunFunctorCounted ==
  ASSUME IInv, AllCounted, RunFunctor
  PROVE  AllCounted'
<1>1. /\ active = {} /\ handling = None
      /\ ran < Len(batch) /\ ran' = ran + 1
      /\ UNCHANGED <<batch, active, handling, userPc>>
  BY RunFrame
<1>2. Types
  BY DEF IInv
<1>3. PICK h : h = batch[ran + 1]
  OBVIOUS
<1>4. PICK f, c : f = h.run /\ c = h.conn
  OBVIOUS
<1>5. /\ c \in Conns /\ h = Functor(f, c)
      /\ ToRun # <<>> /\ Head(ToRun) = h
      /\ ioQueue' = ioQueue => ToRun' = Tail(ToRun)
      /\ \A g \in FunctorType :
           ioQueue' = Append(ioQueue, g) => ToRun' = Append(Tail(ToRun), g)
  <2>1. /\ batch[ran + 1] \in FunctorType
        /\ ToRun # <<>> /\ Head(ToRun) = batch[ran + 1]
        /\ ioQueue' = ioQueue => ToRun' = Tail(ToRun)
        /\ \A g \in FunctorType :
             ioQueue' = Append(ioQueue, g) => ToRun' = Append(Tail(ToRun), g)
    BY <1>1, <1>2, ToRunRun
  <2>2. h.conn \in Conns /\ h = Functor(h.run, h.conn)
    BY <1>3, <2>1 DEF FunctorType, Functor
  <2>3. QED
    BY <1>3, <1>4, <2>1, <2>2
<1>6. \/ f = "connectEstablished" /\ ConnectEstablished(c) /\ UNCHANGED ioQueue
      \/ f = "connectDestroyed" /\ ConnectDestroyed(c) /\ UNCHANGED ioQueue
      \/ f = "sendInLoop" /\ Referenced(c) /\ SendInLoop(c)
      \/ UNCHANGED <<poller, callbacks, ioQueue>>
  BY <1>3, <1>4 DEF RunFunctor, ShutdownInLoop
<1>7. Ran(c)
  <2>1. \/ ioQueue' = ioQueue
        \/ \E g \in {HighWater(c), WriteComplete(c)} : ioQueue' = Append(ioQueue, g)
    BY <1>6 DEF SendInLoop, Notify, HighWater, WriteComplete
  <2>2. QED
    BY <1>1, <1>5, <2>1, NamedFunctors DEF Ran
<1>8. CASE f = "connectEstablished" /\ ConnectEstablished(c)
  BY <1>5, <1>7, <1>8, EstablishedCounted DEF Establish
<1>9. CASE f = "connectDestroyed" /\ ConnectDestroyed(c)
  BY <1>5, <1>7, <1>9, DestroyedCounted DEF Destroy
<1>10. CASE f = "sendInLoop" /\ Referenced(c) /\ SendInLoop(c)
  BY <1>5, <1>7, <1>10, SentCounted DEF SendFn
<1>11. CASE UNCHANGED <<poller, callbacks>>
  BY <1>5, <1>7, <1>11, OtherRanCounted
<1>12. QED
  BY <1>6, <1>8, <1>9, <1>10, <1>11

-----------------------------------------------------------------------------

LEMMA NextCounted ==
  ASSUME IInv, AllCounted, [Next]_vars
  PROVE  AllCounted'
<1>1. CASE Poll
  BY <1>1, PollCounted
<1>2. CASE HandleEventReturn \/ \E c \in Conns : HandleEvent(c)
  BY <1>2, DispatchCounted
<1>3. ASSUME NEW c \in Conns, CallbackStep(c)
      PROVE  AllCounted'
  BY <1>3, CallbackCounted
<1>4. CASE \/ SwapPendingFunctors \/ EndPendingFunctors \/ UNCHANGED vars
           \/ \E c \in Conns : UserDrop(c) \/ Peer(c)
  BY <1>4, LightCounted
<1>5. CASE RunFunctor
  BY <1>5, RunFunctorCounted
<1>6. CASE BaseRunFunctor
  BY <1>6, BaseRunCounted
<1>7. CASE DestroyServer
  BY <1>7, DestroyServerCounted
<1>8. ASSUME NEW c \in Conns, NewConnection(c)
      PROVE  AllCounted'
  BY <1>8, NewConnectionCounted
<1>9. ASSUME NEW c \in Conns, Free(c)
      PROVE  AllCounted'
  BY <1>9, FreeCounted
<1>10. ASSUME NEW c \in Conns, UserQueue(c)
       PROVE  AllCounted'
  BY <1>10, UserQueueCounted
<1>11. ASSUME NEW c \in Conns, NEW op \in UserOps, UserCall(c, op)
       PROVE  AllCounted'
  BY <1>11, UserCallCounted
<1>12. ASSUME NEW c \in Conns, UserStore(c)
       PROVE  AllCounted'
  BY <1>12, UserStoreCounted
<1>13. QED
  BY <1>1, <1>2, <1>3, <1>4, <1>5, <1>6, <1>7, <1>8, <1>9, <1>10, <1>11, <1>12
     DEF Next, IoStep, UserStep

LEMMA CountInvariance == Spec => [](IInv /\ AllCounted)
<1>1. Init => IInv /\ AllCounted
  BY InitHolds, InitCounted
<1>2. IInv /\ AllCounted /\ [Next]_vars => (IInv /\ AllCounted)'
  BY NextHolds, NextCounted
<1>3. QED
  BY <1>1, <1>2, PTL DEF Spec

-----------------------------------------------------------------------------
(***************************************************************************)
(* What they say.                                                          *)
(***************************************************************************)

(* Every variable keeps its type, and the connection callback says "up"    *)
(* once at most, since connectEstablished is queued once                   *)
(* (TcpServer::newConnection).                                             *)
THEOREM TypeCorrect == Spec => []TypeOK
<1>1. IInv => TypeOK
  <2> SUFFICES ASSUME IInv
               PROVE  TypeOK
    OBVIOUS
  <2>1. callbacks \in [Conns -> [up : 0 .. 1, down : Nat]]
    <3>1. callbacks \in [Conns -> [up : Nat, down : Nat]]
      BY DEF IInv, Types
    <3>2. ASSUME NEW c \in Conns
          PROVE  callbacks[c].up \in 0 .. 1
      <4>1. callbacks[c].up \in {0, 1}
        BY DEF IInv, ConnInv, Life
      <4>2. QED
        BY <4>1
    <3>3. QED
      BY <3>1, <3>2
  <2>2. QED
    BY <2>1 DEF IInv, Types, Round, TypeOK, FunctorType
<1>2. QED
  BY <1>1, Invariance, PTL

(* However many calls of send() a user thread has under way, the           *)
(* connection callback says "down" no more than once more for each of      *)
(* them: a sendInLoop that writes on a closed connection                   *)
(* (TcpConnection.cpp:59-64) can bring about one more handleClose, and     *)
(* nothing else can.                                                       *)
THEOREM EveryDownPaidFor == Spec => []DownsPaidFor
<1>1. IInv /\ AllCounted => DownsPaidFor
  <2> SUFFICES ASSUME IInv, AllCounted, NEW c \in Conns, callbacks[c].down > 0
               PROVE  callbacks[c].down + SendsUnderWay(c) <= 1 + MaxSends
    BY DEF DownsPaidFor
  <2>1. SendsUnderWay(c) = Sends(c)
    BY DEF SendsUnderWay, Sends, Queued, Tested, Times, SendFn
  <2>2. Types /\ Paid(c)
    BY DEF IInv, AllCounted, Counted
  <2>3. Queued(c) \in Nat
    BY <2>2, QueuedType
  <2>4. Sends(c) \in Nat /\ callbacks[c].down \in Nat /\ MaxSends \in Nat
    BY <2>2, <2>3, TcpConnectionAssumption DEF Sends, Tested, Types
  <2>5. QED
    BY <2>1, <2>2, <2>4 DEF Paid
<1>2. QED
  BY <1>1, CountInvariance, PTL

(* sendInLoop enables writing whenever it leaves something in the output   *)
(* buffer, and nothing but handleWrite, with the buffer empty, or the end  *)
(* of the connection disables it again: whoever calls send(), output that  *)
(* waits is watched for.                                                   *)
THEOREM WaitingOutputWatched == Spec => []OutputIsWatched
<1>1. IInv => OutputIsWatched
  BY DEF IInv, ConnInv, Watch, OutputIsWatched
<1>2. QED
  BY <1>1, Invariance, PTL

(* The message callback runs after connectEstablished has said "up" and    *)
(* before handleClose or connectDestroyed say "down": data is reported for *)
(* a channel that reads, and a handleClose in the same handleEvent comes   *)
(* after it.                                                               *)
THEOREM MessagesInBetween == Spec => []MessagesOnlyWhileUp
<1>1. IInv => MessagesOnlyWhileUp
  <2> SUFFICES ASSUME IInv, NEW c \in Conns, handling = c, "MSG" \in revents[c]
               PROVE  callbacks[c].up = 1 /\ callbacks[c].down = 0
    BY DEF MessagesOnlyWhileUp
  <2>1. Begun(c)
    BY DEF Begun
  <2>2. QED
    BY <2>1 DEF IInv, ConnInv, Life, Watch
<1>2. QED
  BY <1>1, Invariance, PTL

(* The high-water callback is queued while there is output, and the        *)
(* write-complete callback behind it when the output has been written: the *)
(* two are never run in the other order, so that a paused user of an open  *)
(* connection has output waiting or the notice in the queue.               *)
THEOREM PauseAnswered == Spec => []PausedHasOutput
<1>1. IInv => PausedHasOutput
  <2> SUFFICES ASSUME IInv, NEW c \in paused
               PROVE  \/ output[c]
                      \/ Functor("writeComplete", c) \in ToSet(ToRun)
                      \/ ~Accepted(c) \/ callbacks[c].down > 0
    BY DEF PausedHasOutput, ToRun
  <2>1. c \in Conns
    BY DEF IInv, Types
  <2>2. Pending(WriteComplete(c)) => Functor("writeComplete", c) \in ToSet(ToRun)
    BY DEF Pending, Occurs, WriteComplete, ToSet
  <2>3. QED
    BY <2>1, <2>2 DEF IInv, ConnInv, Flow
<1>2. QED
  BY <1>1, Invariance, PTL

(* What follows needs that no thread but the io loop's calls send(): a     *)
(* sendInLoop that is queued and finds the connection closed writes all    *)
(* the same (TcpConnection.cpp:59-64) and may put its channel back into    *)
(* the poller.  shutdown() from another thread is allowed.                 *)

(* The user's connection callback is called once with "up" and once with   *)
(* "down", by handleClose or by connectDestroyed but never by both, in     *)
(* whatever order the close, the shutdown and the server's removal come.   *)
THEOREM AnnouncedOnce == NoThreadSends => (Spec => []OneDownPerUp)
<1> SUFFICES ASSUME NoThreadSends
             PROVE  Spec => []OneDownPerUp
  OBVIOUS
<1>1. IInv => OneDownPerUp
  <2> SUFFICES ASSUME IInv, NEW c \in Conns
               PROVE  /\ callbacks[c].down <= callbacks[c].up
                      /\ callbacks[c].down <= 1
                      /\ serverUp /\ (Accepted(c) \/ state[c] = "freed") =>
                           c \in connections \/ callbacks[c].down = 1
    BY DEF OneDownPerUp
  <2>1. callbacks[c].up \in Nat /\ callbacks[c].down \in Nat
    BY DEF IInv, Types
  <2>2. callbacks[c].down <= 1
    BY DEF IInv, ConnInv, Strict
  <2>3. callbacks[c].down > 0 => callbacks[c].up = 1
    BY DEF IInv, ConnInv, Life, Begun
  <2>4. serverUp /\ state[c] # "unborn" => c \in connections \/ callbacks[c].down > 0
    BY DEF IInv, ConnInv, Served
  <2>5. QED
    BY <2>1, <2>2, <2>3, <2>4 DEF Accepted
<1>2. QED
  BY <1>1, Invariance, PTL

(* A channel's raw pointer in activeChannels_, in channels_ or with the    *)
(* kernel is one of a connection that the server has in its map, or that   *)
(* a connectDestroyed still to be run holds: it does not dangle.           *)
THEOREM ChannelsAlive == NoThreadSends => (Spec => []NoDanglingChannel)
<1> SUFFICES ASSUME NoThreadSends
             PROVE  Spec => []NoDanglingChannel
  OBVIOUS
<1>1. IInv => NoDanglingChannel
  <2> SUFFICES ASSUME IInv, NEW c \in Conns,
                      \/ c \in active \cup {handling}
                      \/ poller.channels[c] # None
                      \/ poller.interest[c] # None
               PROVE  Referenced(c)
    BY DEF NoDanglingChannel
  <2>1. Table(c) /\ Strict(c)
    BY DEF IInv, ConnInv
  <2>2. poller.index[c] # "new"
    BY <2>1 DEF Table, Strict
  <2>3. c \in connections \/ Pending(Destroy(c))
    BY <2>1, <2>2 DEF Strict
  <2>4. Pending(Destroy(c)) => Referenced(c)
    BY NamedFunctors, StrongFunctors, PendingHolds DEF IInv
  <2>5. QED
    BY <2>3, <2>4 DEF Referenced
<1>2. QED
  BY <1>1, Invariance, PTL

(* The connections' calls of Channel keep channels_, index_ and the        *)
(* kernel's list in step, no epoll_ctl fails, and a channel that wants     *)
(* nothing is not registered, so that a closed connection is not reported. *)
THEOREM PollerUsedWell == NoThreadSends => (Spec => []PollerUse)
<1> SUFFICES ASSUME NoThreadSends
             PROVE  Spec => []PollerUse
  OBVIOUS
<1>1. IInv => PollerUse
  <2> SUFFICES ASSUME IInv
               PROVE  PollerUse
    OBVIOUS
  <2>1. \A c \in Conns : Table(c) /\ Strict(c)
    BY DEF IInv, ConnInv
  <2>2. None \notin Conns
    BY TcpConnectionAssumption
  <2>3. \A c \in Conns :
          /\ poller.index[c] # "new" => poller.fd[c] = c /\ poller.channels[c] = c
          /\ poller.channels[c] # None => poller.index[c] # "new"
          /\ poller.fd[c] \in {c, None}
    BY <2>1 DEF Table, Strict
  <2>4. IndexedIsMapped(poller)
    BY <2>2, <2>3 DEF IndexedIsMapped, IsLive
  <2>5. MappedIsOwner(poller)
    BY <2>3 DEF MappedIsOwner
  <2>6. KernelInSync(poller)
    <3>1. \A c \in Conns : poller.interest[c] # None =>
            /\ poller.channels[c] = c
            /\ poller.interest[c] = [ptr |-> c, events |-> poller.events[c]]
      BY <2>1 DEF Table
    <3>2. ASSUME NEW f \in Conns, poller.interest[f] # None
          PROVE  /\ poller.interest[f].ptr = poller.channels[f]
                 /\ poller.interest[f].events = poller.events[poller.channels[f]]
      <4>1. /\ poller.channels[f] = f
            /\ poller.interest[f] = [ptr |-> f, events |-> poller.events[f]]
        BY <3>1, <3>2
      <4>2. QED
        BY <4>1
    <3>3. QED
      BY <3>2 DEF KernelInSync
  <2>7. AddedIsRegistered(poller)
    <3>1. \A c \in Conns : poller.index[c] = "added" <=> poller.interest[c] # None
      BY <2>1 DEF Table
    <3>2. \A c \in Conns : poller.index[c] = "added" => poller.fd[c] = c
      BY <2>3
    <3>3. QED
      BY <2>2, <2>3, <3>1, <3>2 DEF AddedIsRegistered, IsLive
  <2>8. QuietWhenNone(poller)
    <3>1. \A c \in Conns : poller.interest[c] # None =>
            /\ poller.interest[c] = [ptr |-> c, events |-> poller.events[c]]
            /\ poller.events[c] # {}
      BY <2>1 DEF Table, Strict
    <3>2. ASSUME NEW f \in Conns, poller.interest[f] # None
          PROVE  poller.interest[f].events # {}
      <4>1. poller.interest[f] = [ptr |-> f, events |-> poller.events[f]]
            /\ poller.events[f] # {}
        BY <3>1, <3>2
      <4>2. QED
        BY <4>1
    <3>3. QED
      BY <3>2 DEF QuietWhenNone
  <2>9. QED
    BY <2>4, <2>5, <2>6, <2>7, <2>8 DEF PollerUse, RegistryConsistent, IInv
<1>2. QED
  BY <1>1, Invariance, PTL

(* shutdownInLoop leaves a connection that is writing alone, and           *)
(* handleWrite shuts it when the buffer is empty; send() is refused from   *)
(* shutdown() on.  So nothing that was accepted is cut off.                *)
THEOREM DrainedFirst == NoThreadSends => (Spec => []DrainedBeforeShut)
<1> SUFFICES ASSUME NoThreadSends
             PROVE  Spec => []DrainedBeforeShut
  OBVIOUS
<1>1. IInv => DrainedBeforeShut
  BY DEF IInv, ConnInv, Strict, DrainedBeforeShut
<1>2. QED
  BY <1>1, Invariance, PTL

=============================================================================
