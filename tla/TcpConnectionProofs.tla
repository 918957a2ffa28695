------------------------ MODULE TcpConnectionProofs ------------------------
(***************************************************************************)
(* What TcpConnection guarantees for any timers, message lengths and       *)
(* bounds: bytes reach the wire in the order they were sent, none of them  *)
(* twice and none left in a buffer nobody will write, and the timers of a  *)
(* connection end with it.                                                 *)
(***************************************************************************)
EXTENDS TcpConnection, SequenceTheorems, TLAPS

\* Until the connection is established its loop has one functor and the
\* application no pointer; after its destructor the loop has at most the functor
\* that cancels its timers.
LifeInv ==
    /\ state_ = "Connecting" =>
           /\ queue = <<Functor("establish")>> /\ todo = {} /\ ~held /\ ~destructed
           /\ outputBuffer_ = <<>> /\ DOMAIN armed = {}
    /\ state_ # "Connecting" => \A i \in DOMAIN queue : queue[i].op # "establish"
    /\ ~destructed => DOMAIN armed \subseteq timers_
    /\ destructed =>
           /\ ~held /\ ~inServer /\ todo = {} /\ state_ # "Connecting"
           /\ \/ queue = <<>> /\ DOMAIN armed = {}
              \/ /\ queue = <<[op |-> "cancel", ids |-> timers_]>>
                 /\ DOMAIN armed \subseteq timers_

\* The inductive invariant.
ConnectionIInv == TypeOK /\ NothingStranded /\ StreamInOrder /\ LifeInv
-----------------------------------------------------------------------------
(* Sequences                                                               *)

Bytes == 1..MaxBytes
Stream(n) == [i \in 1..n |-> i]
FunctorRecords == [op : {"establish", "close", "complete", "highwater", "destroy", "cancel"},
                   ids : SUBSET Ids]

\* The bytes of a message follow those that were sent before.
LEMMA StreamExtends ==
    ASSUME NEW m \in Nat, NEW n \in Nat, m + n <= MaxBytes,
           NEW t, t = [i \in 1..n |-> m + i]
    PROVE  t \in Seq(Bytes) /\ Len(t) = n /\ Stream(m) \o t = Stream(m+n)
<1>1. MaxBytes \in Nat
  BY ConnectionAssumption
<1>2. Stream(m) \in Seq(Bytes) /\ Len(Stream(m)) = m /\ \A i \in 1..m : Stream(m)[i] = i
  BY <1>1 DEF Stream, Bytes
<1>3. t \in Seq(Bytes) /\ Len(t) = n /\ \A i \in 1..n : t[i] = m + i
  BY <1>1 DEF Bytes
<1>4. Stream(m+n) \in Seq(Bytes) /\ Len(Stream(m+n)) = m+n /\ \A i \in 1..m+n : Stream(m+n)[i] = i
  BY <1>1 DEF Stream, Bytes
<1> DEFINE s == Stream(m) \o t
<1>5. /\ s \in Seq(Bytes) /\ Len(s) = m+n
      /\ \A i \in 1..m+n : s[i] = IF i <= m THEN Stream(m)[i] ELSE t[i-m]
  <2>1. /\ s \in Seq(Bytes) /\ Len(s) = Len(Stream(m)) + Len(t)
        /\ \A i \in 1..Len(Stream(m)) + Len(t) :
               s[i] = IF i <= Len(Stream(m)) THEN Stream(m)[i] ELSE t[i-Len(Stream(m))]
    <3> HIDE DEF Stream
    <3> QED BY <1>2, <1>3, ConcatProperties
  <2> QED BY <1>2, <1>3, <2>1
<1> HIDE DEF s
<1>6. \A i \in 1..m+n : s[i] = Stream(m+n)[i]
  BY <1>2, <1>3, <1>4, <1>5
<1>7. s = Stream(m+n)
  BY <1>4, <1>5, <1>6, SeqEqual
<1> QED BY <1>3, <1>7 DEF s

LEMMA BytesAssociate == \A s, t, u \in Seq(Bytes) : (s \o t) \o u = s \o (t \o u)
<1> SUFFICES ASSUME NEW s \in Seq(Bytes), NEW t \in Seq(Bytes), NEW u \in Seq(Bytes)
             PROVE  (s \o t) \o u = s \o (t \o u)
  OBVIOUS
<1> QED BY ConcatAssociative

\* A sequence is its first k elements and the rest.
LEMMA CutInTwo ==
    ASSUME NEW S, NEW s \in Seq(S), NEW k \in 0..Len(s)
    PROVE  /\ SubSeq(s, 1, k) \in Seq(S) /\ Len(SubSeq(s, 1, k)) = k
           /\ SubSeq(s, k+1, Len(s)) \in Seq(S)
           /\ SubSeq(s, 1, k) \o SubSeq(s, k+1, Len(s)) = s
<1>1. Len(s) \in Nat /\ \A i \in 1..Len(s) : s[i] \in S
  BY LenProperties
<1>2. SubSeq(s, 1, k) \in Seq(S) /\ Len(SubSeq(s, 1, k)) = k
  <2>1. \A i \in 1..k : s[i] \in S
    BY <1>1
  <2> QED BY <1>1, <2>1, SubSeqProperties
<1>3. SubSeq(s, k+1, Len(s)) \in Seq(S)
  <2>1. \A i \in k+1..Len(s) : s[i] \in S
    BY <1>1
  <2> QED BY <1>1, <2>1, SubSeqProperties
<1>4. SubSeq(s, 1, k) \o SubSeq(s, k+1, Len(s)) = SubSeq(s, 1, Len(s))
  <2>1. 1 \in 1..Len(s)+1 /\ k \in 1-1..Len(s) /\ Len(s) \in k..Len(s)
    BY <1>1
  <2> QED BY <2>1, ConcatAdjacentSubSeq
<1>5. SubSeq(s, 1, Len(s)) = s
  BY SubSeqFull
<1> QED BY <1>2, <1>3, <1>4, <1>5

LEMMA FunctorIs ==
    ASSUME NEW op \in {"establish", "close", "complete", "highwater", "destroy", "cancel"}
    PROVE  Functor(op) \in FunctorRecords /\ Functor(op).op = op
BY DEF Functor, FunctorRecords

\* A functor is queued behind the others, none of which establishes.
NoneEstablishes(q) == \A i \in DOMAIN q : q[i].op # "establish"

LEMMA QueuedIs ==
    ASSUME NEW q \in Seq(FunctorRecords), NEW p \in FunctorRecords
    PROVE  /\ Append(q, p) \in Seq(FunctorRecords)
           /\ NoneEstablishes(q) /\ p.op # "establish" => NoneEstablishes(Append(q, p))
<1> DEFINE r == Append(q, p)
<1>1. /\ r \in Seq(FunctorRecords) /\ Len(r) = Len(q)+1
      /\ \A i \in 1..Len(q) : r[i] = q[i]
      /\ r[Len(q)+1] = p
  BY AppendProperties
<1> HIDE DEF r
<1>2. Len(q) \in Nat /\ DOMAIN q = 1..Len(q) /\ DOMAIN r = 1..Len(q)+1
  BY <1>1
<1>3. ASSUME NoneEstablishes(q), p.op # "establish" PROVE NoneEstablishes(r)
  <2>1. ASSUME NEW i \in 1..Len(q)+1 PROVE r[i].op # "establish"
    BY <1>1, <1>2, <1>3, <2>1 DEF NoneEstablishes
  <2> QED BY <1>2, <2>1 DEF NoneEstablishes
<1> QED BY <1>1, <1>3 DEF r

\* The first of them runs.
LEMMA RestIs ==
    ASSUME NEW q \in Seq(FunctorRecords), q # <<>>
    PROVE  /\ Head(q) \in FunctorRecords /\ Head(q) = q[1] /\ 1 \in DOMAIN q
           /\ Tail(q) \in Seq(FunctorRecords)
           /\ NoneEstablishes(q) => NoneEstablishes(Tail(q))
<1> DEFINE r == Tail(q)
<1>1. /\ Head(q) \in FunctorRecords /\ r \in Seq(FunctorRecords) /\ Len(r) = Len(q)-1
      /\ \A i \in 1..Len(r) : r[i] = q[i+1]
  BY HeadTailProperties
<1> HIDE DEF r
<1>2. Len(q) \in Nat /\ Len(q) > 0 /\ DOMAIN q = 1..Len(q) /\ DOMAIN r = 1..Len(r) /\ Head(q) = q[1]
  BY <1>1
<1>3. ASSUME NoneEstablishes(q) PROVE NoneEstablishes(r)
  BY <1>1, <1>2, <1>3 DEF NoneEstablishes
<1> QED BY <1>1, <1>2, <1>3 DEF r
-----------------------------------------------------------------------------
(* Bytes                                                                   *)

\* What is buffered and what is on the wire, and which write events are asked
\* for; the invariants speak of nothing else.
IoTypes == /\ outputBuffer_ \in Seq(Bytes) /\ wire \in Seq(Bytes) /\ sent \in 0..MaxBytes
           /\ events \subseteq {"read", "write"}

LEMMA IoTypesHold ==
    ASSUME TypeOK
    PROVE  /\ IoTypes /\ MaxBytes \in Nat /\ queue \in Seq(FunctorRecords)
           /\ timers_ \subseteq Ids /\ DOMAIN armed \subseteq Ids
BY ConnectionAssumption DEF TypeOK, IoTypes, Bytes, FunctorRecords

\* The kernel has taken k bytes of a message, none if some wait in the buffer.
LEMMA StreamSends ==
    ASSUME IoTypes, wire \o outputBuffer_ = Stream(sent), NEW n \in Nat, sent + n <= MaxBytes,
           NEW k \in 0..n, k = 0 \/ outputBuffer_ = <<>>
    PROVE  /\ wire \o SubSeq(Message(n), 1, k) \in Seq(Bytes)
           /\ outputBuffer_ \o RestOfMessage(n, k) \in Seq(Bytes)
           /\ (wire \o SubSeq(Message(n), 1, k)) \o (outputBuffer_ \o RestOfMessage(n, k)) = Stream(sent+n)
<1> DEFINE M == Message(n)  A == SubSeq(M, 1, k)  R == RestOfMessage(n, k)
<1>1. sent \in Nat /\ outputBuffer_ \in Seq(Bytes) /\ wire \in Seq(Bytes)
  BY DEF IoTypes
<1>2. M \in Seq(Bytes) /\ Len(M) = n /\ Stream(sent) \o M = Stream(sent+n)
  BY <1>1, StreamExtends DEF Message
<1>3. A \in Seq(Bytes) /\ R \in Seq(Bytes) /\ A \o R = M
  <2>1. k \in 0..Len(M)
    BY <1>2
  <2> HIDE DEF M
  <2> QED BY <1>2, <2>1, CutInTwo DEF RestOfMessage, M
<1>4. k = 0 => A = <<>> /\ R = M
  <2>1. k = 0 => A = <<>>
    BY SubSeqEmpty
  <2>2. R = <<>> \o R
    BY <1>3, ConcatEmptySeq
  <2> QED BY <1>3, <2>1, <2>2
<1> HIDE DEF M, A, R
<1>5. wire \o A \in Seq(Bytes) /\ outputBuffer_ \o R \in Seq(Bytes)
  BY <1>1, <1>3, ConcatProperties
<1>6. CASE k = 0
  <2>1. wire \o A = wire /\ R = M
    BY <1>1, <1>4, <1>6, ConcatEmptySeq
  <2>2. wire \o (outputBuffer_ \o M) = (wire \o outputBuffer_) \o M
    BY <1>1, <1>2, BytesAssociate
  <2>3. (wire \o A) \o (outputBuffer_ \o R) = Stream(sent+n)
    BY <1>2, <2>1, <2>2
  <2> QED BY <1>5, <2>3 DEF A, M, R
<1>7. CASE outputBuffer_ = <<>>
  <2>1. outputBuffer_ \o R = R /\ wire \o outputBuffer_ = wire
    BY <1>1, <1>3, <1>7, ConcatEmptySeq
  <2>2. (wire \o A) \o R = wire \o (A \o R)
    BY <1>1, <1>3, BytesAssociate
  <2>3. (wire \o A) \o (outputBuffer_ \o R) = Stream(sent+n)
    BY <1>2, <1>3, <2>1, <2>2
  <2> QED BY <1>5, <2>3 DEF A, M, R
<1> QED BY <1>6, <1>7

\* b bytes of the buffer are written.
LEMMA StreamWrites ==
    ASSUME IoTypes, NEW b \in Nat, b <= Len(outputBuffer_), Written(b)
    PROVE  /\ wire' \in Seq(Bytes) /\ outputBuffer_' \in Seq(Bytes) /\ sent' = sent
           /\ wire' \o outputBuffer_' = wire \o outputBuffer_
           /\ b = Len(outputBuffer_) => outputBuffer_' = <<>>
           /\ outputBuffer_ = <<>> => outputBuffer_' = <<>>
<1> DEFINE A == SubSeq(outputBuffer_, 1, b)  R == SubSeq(outputBuffer_, b+1, Len(outputBuffer_))
<1>1. outputBuffer_ \in Seq(Bytes) /\ wire \in Seq(Bytes) /\ Len(outputBuffer_) \in Nat
  BY DEF IoTypes
<1>2. A \in Seq(Bytes) /\ R \in Seq(Bytes) /\ A \o R = outputBuffer_
  <2>1. b \in 0..Len(outputBuffer_)
    BY <1>1
  <2> QED BY <1>1, <2>1, CutInTwo
<1>3. wire' = wire \o A /\ outputBuffer_' = R /\ sent' = sent
  BY DEF Written
<1>4. b = Len(outputBuffer_) => R = <<>>
  BY <1>1, SubSeqEmpty
<1>5. outputBuffer_ = <<>> => R = <<>>
  BY <1>1, <1>4, EmptySeq
<1> HIDE DEF A, R
<1>6. (wire \o A) \o R = wire \o (A \o R)
  BY <1>1, <1>2, BytesAssociate
<1>7. wire \o A \in Seq(Bytes)
  BY <1>1, <1>2, ConcatProperties
<1> QED BY <1>2, <1>3, <1>4, <1>5, <1>6, <1>7

IoInv == IoTypes /\ NothingStranded /\ StreamInOrder

\* A step that touches no bytes, and at most closes the connection.
LEMMA IoKept ==
    ASSUME IoInv, UNCHANGED <<outputBuffer_, wire, sent>>,
           \/ UNCHANGED <<state_, events>>
           \/ state_' = "Disconnected" /\ events' = {}
    PROVE  IoInv'
BY DEF IoInv, IoTypes, NothingStranded, StreamInOrder

\* Nothing is left of shutdown() but its guard, which always returns.
LEMMA ShutdownKeeps == ASSUME NEW ev, DoShutdown(ev) PROVE UNCHANGED stateVars
BY DEF DoShutdown, ShutdownReturns

LEMMA IoSends ==
    ASSUME IoInv, NEW n \in 0..MaxMessage, Send(n) \/ SendPacket(n)
    PROVE  IoInv'
<1>1. n \in Nat /\ sent \in Nat /\ MaxBytes \in Nat
  BY ConnectionAssumption DEF IoInv, IoTypes
<1>2. state_ = "Connected" /\ sent + n <= MaxBytes /\ state_' = state_
  BY DEF Send, SendPacket, CanSend, stateVars
<1>3. wire \o outputBuffer_ = Stream(sent)
  BY DEF IoInv, StreamInOrder, Stream
<1>4. CASE UNCHANGED ioVars
  BY <1>2, <1>4, IoKept DEF ioVars
<1>5. ASSUME NEW k \in 0..n, k = 0 \/ outputBuffer_ = <<>>,
             wire' = wire \o SubSeq(Message(n), 1, k),
             outputBuffer_' = outputBuffer_ \o RestOfMessage(n, k),
             sent' = sent + n, events' = events \cup {"write"}
      PROVE  IoInv'
  <2>1. wire' \in Seq(Bytes) /\ outputBuffer_' \in Seq(Bytes) /\ wire' \o outputBuffer_' = Stream(sent')
    BY <1>1, <1>2, <1>3, <1>5, StreamSends DEF IoInv
  <2>2. sent' \in 0..MaxBytes
    BY <1>1, <1>2, <1>5
  <2>3. IoTypes'
    BY <1>5, <2>1, <2>2 DEF IoInv, IoTypes
  <2>4. NothingStranded'
    BY <1>2, <1>5 DEF NothingStranded
  <2>5. StreamInOrder'
    BY <2>1 DEF StreamInOrder, Stream
  <2> QED BY <2>3, <2>4, <2>5 DEF IoInv
<1>6. ASSUME NEW k \in 0..n, k = 0 \/ outputBuffer_ = <<>>, SendRest(n, k) PROVE IoInv'
  BY <1>5, <1>6 DEF SendRest, EnableWrite
<1>7. Message(n) \in Seq(Bytes) /\ Len(Message(n)) = n /\ SubSeq(Message(n), 1, n) = Message(n)
  <2>1. Message(n) \in Seq(Bytes) /\ Len(Message(n)) = n
    BY <1>1, <1>2, StreamExtends DEF Message
  <2> HIDE DEF Message
  <2> QED BY <2>1, SubSeqFull
<1>8. CASE Direct /\ SendAll(n)
  <2>1. /\ wire' = wire \o Message(n) /\ sent' = sent + n
        /\ outputBuffer_ = <<>> /\ outputBuffer_' = <<>> /\ events' = events
    BY <1>8 DEF Direct, SendAll
  <2>2. wire \o Message(n) \in Seq(Bytes)
    BY <1>7, ConcatProperties DEF IoInv, IoTypes
  <2>3. wire = Stream(sent)
    BY <1>3, <2>1, ConcatEmptySeq DEF IoInv, IoTypes
  <2>4. Stream(sent) \o Message(n) = Stream(sent + n)
    BY <1>1, <1>2, StreamExtends DEF Message
  <2>5. wire' \o outputBuffer_' = Stream(sent')
    BY <2>1, <2>2, <2>3, <2>4, ConcatEmptySeq
  <2> QED BY <1>1, <1>2, <2>1, <2>2, <2>5 DEF IoInv, IoTypes, NothingStranded, StreamInOrder, Stream
<1>9. CASE SendPacket(n)
  <2>1. /\ outputBuffer_' = outputBuffer_ \o Message(n) /\ sent' = sent + n
        /\ events' = events \cup {"write"} /\ wire' = wire
    BY <1>9 DEF SendPacket, EnableWrite
  <2>2. RestOfMessage(n, 0) = Message(n) /\ SubSeq(Message(n), 1, 0) = <<>> /\ 0 \in 0..n
    BY <1>1, <1>7, SubSeqEmpty DEF RestOfMessage
  <2>3. wire \o <<>> = wire
    BY ConcatEmptySeq DEF IoInv, IoTypes
  <2> QED BY <1>5, <2>1, <2>2, <2>3
<1>10. CASE Send(n)
  <2>1. CASE Direct /\ \E k \in 1..n : (k < n \/ ~writeCompleteFunc_) /\ SendRest(n, k)
    <3>1. PICK k \in 0..n : SendRest(n, k) /\ outputBuffer_ = <<>>
      BY <1>1, <2>1 DEF Direct
    <3> QED BY <1>6, <3>1
  <2>2. CASE SendRest(n, 0)
    BY <1>1, <1>6, <2>2
  <2>3. CASE SendThrows(n) \/ SendNothing
    BY <1>4, <2>3 DEF SendThrows, SendNothing
  <2> QED BY <1>8, <1>10, <2>1, <2>2, <2>3 DEF Send
<1> QED BY <1>9, <1>10

LEMMA IoWrites ==
    ASSUME IoInv, NEW b \in 0..MaxBytes, HandleWrite(b)
    PROVE  IoInv'
<1>1. b \in Nat /\ Len(outputBuffer_) \in Nat /\ outputBuffer_ \in Seq(Bytes)
  BY ConnectionAssumption DEF IoInv, IoTypes
<1>2. CASE UNCHANGED <<stateVars, ioVars>>
  BY <1>2, IoKept DEF stateVars, ioVars
<1>3. ASSUME Written(b), b <= Len(outputBuffer_), "write" \in events,
             \/ UNCHANGED <<state_, events>>
             \/ state_' = state_ /\ events' = events \ {"write"} /\ b = Len(outputBuffer_)
             \/ state_' = "Disconnected" /\ events' = {}
      PROVE  IoInv'
  <2>1. /\ wire' \in Seq(Bytes) /\ outputBuffer_' \in Seq(Bytes) /\ sent' = sent
        /\ wire' \o outputBuffer_' = wire \o outputBuffer_
        /\ b = Len(outputBuffer_) => outputBuffer_' = <<>>
        /\ outputBuffer_ = <<>> => outputBuffer_' = <<>>
    BY <1>1, <1>3, StreamWrites DEF IoInv
  <2> QED BY <1>3, <2>1 DEF IoInv, IoTypes, NothingStranded, StreamInOrder
<1>4. CASE /\ "write" \in events /\ b = Len(outputBuffer_) /\ Written(b)
           /\ events' = events \ {"write"}
           /\ IF state_ = "Disconnecting" THEN DoShutdown(events') ELSE UNCHANGED stateVars
  <2>1. state_' = state_
    BY <1>4, ShutdownKeeps DEF stateVars
  <2> QED BY <1>1, <1>3, <1>4, <2>1
<1>5. CASE "write" \in events /\ b < Len(outputBuffer_) /\ Written(b) /\ UNCHANGED <<stateVars, events>>
  BY <1>1, <1>3, <1>5 DEF stateVars
<1>6. CASE "write" \in events /\ b <= Len(outputBuffer_) /\ Written(b) /\ HandleClose
  BY <1>3, <1>6 DEF HandleClose
<1> QED BY <1>2, <1>4, <1>5, <1>6 DEF HandleWrite

\* The functor that is run establishes only a connection that nothing else has
\* happened to.
LEMMA EstablishIsFirst ==
    ASSUME ConnectionIInv, IsNext("establish")
    PROVE  /\ state_ = "Connecting" /\ outputBuffer_ = <<>> /\ Tail(queue) = <<>> /\ todo = {}
           /\ DOMAIN armed = {} /\ ~destructed
<1>1. queue \in Seq(FunctorRecords) /\ queue # <<>>
  BY IoTypesHold DEF ConnectionIInv, IsNext
<1>2. Head(queue) = queue[1] /\ 1 \in DOMAIN queue
  BY <1>1, RestIs
<1>3. state_ = "Connecting"
  BY <1>2 DEF ConnectionIInv, LifeInv, IsNext
<1>4. \A p : Tail(<<p>>) = <<>>
  OBVIOUS
<1> QED BY <1>3, <1>4 DEF ConnectionIInv, LifeInv

\* Bytes keep their order and are not stranded, whatever is called and handled.
LEMMA IoStep ==
    ASSUME ConnectionIInv, [Next]_vars
    PROVE  IoInv'
<1>1. IoInv
  BY IoTypesHold DEF ConnectionIInv, IoInv
<1> USE DEF ioVars, stateVars, funcVars, lifeVars, timerVars, histVars
<1>2. CASE /\ UNCHANGED <<outputBuffer_, wire, sent>>
           /\ \/ UNCHANGED <<state_, events>>
              \/ state_' = "Disconnected" /\ events' = {}
  BY <1>1, <1>2, IoKept
<1>3. CASE Establish
  BY <1>1, <1>3, EstablishIsFirst DEF Establish, IoInv, IoTypes, NothingStranded, StreamInOrder
<1>4. CASE Shutdown
  BY <1>2, <1>4, ShutdownKeeps DEF Shutdown
<1>5. CASE HandleCloseOrError \/ HandleRead \/ RunClose
  BY <1>2, <1>5 DEF HandleCloseOrError, HandleRead, RunClose, HandleClose
<1>6. ASSUME NEW b \in 0..MaxBytes, HandleWrite(b) PROVE IoInv'
  BY <1>1, <1>6, IoWrites
<1>7. ASSUME NEW n \in 0..MaxMessage, Send(n) \/ SendPacket(n) PROVE IoInv'
  BY <1>1, <1>7, IoSends
<1>8. CASE \E S \in SUBSET Events : HandleBegin(S)
  BY <1>2, <1>8 DEF HandleBegin
<1>9. CASE RunCallback \/ RunDestroy \/ RunCancel \/ Release \/ Destruct \/ Close
  BY <1>2, <1>9 DEF RunCallback, RunDestroy, RunCancel, Release, Destruct, Close
<1>10. ASSUME NEW id \in Ids, TimerCancel(id) \/ TimerRuns(id) \/ \E repeats \in BOOLEAN : TimerRepeatAt(id, repeats)
       PROVE  IoInv'
  BY <1>2, <1>10 DEF TimerCancel, TimerRuns, TimerRepeatAt
<1>11. CASE UNCHANGED vars
  BY <1>2, <1>11 DEF vars
<1> QED BY <1>3, <1>4, <1>5, <1>6, <1>7, <1>8, <1>9, <1>10, <1>11 DEF Next, RunFunctor
-----------------------------------------------------------------------------
(* Functors, timers and the end                                            *)

\* Before it is established nothing can happen to a connection but that.
LEMMA FirstIsEstablish ==
    ASSUME ConnectionIInv, state_ = "Connecting", Next
    PROVE  Establish
<1>1. /\ queue = <<Functor("establish")>> /\ queue # <<>> /\ Head(queue).op = "establish"
      /\ todo = {} /\ ~held /\ DOMAIN armed = {}
  BY DEF ConnectionIInv, LifeInv, Functor
<1>2. \A op \in {"close", "complete", "highwater", "destroy", "cancel"} : ~IsNext(op)
  BY <1>1 DEF IsNext
<1>3. ~(\E S \in SUBSET Events : HandleBegin(S)) /\ ~HandleCloseOrError /\ ~HandleRead
  BY <1>1 DEF HandleBegin, HandleCloseOrError, HandleRead
<1>4. ~\E b \in 0..MaxBytes : HandleWrite(b)
  BY <1>1 DEF HandleWrite
<1>5. ~RunClose /\ ~RunCallback /\ ~RunDestroy /\ ~RunCancel
  BY <1>2 DEF RunClose, RunCallback, RunDestroy, RunCancel
<1>6. ~Release /\ ~Destruct /\ ~Shutdown /\ ~Close
  BY <1>1 DEF Release, Destruct, Shutdown, Close
<1>7. ~\E n \in 0..MaxMessage : Send(n) \/ SendPacket(n)
  BY <1>1 DEF Send, SendPacket, CanSend
<1>8. \A id \in Ids : ~TimerCancel(id) /\ ~TimerRuns(id) /\ ~\E repeats \in BOOLEAN : TimerRepeatAt(id, repeats)
  BY <1>1 DEF TimerCancel, TimerRuns, TimerRepeatAt
<1> QED BY <1>3, <1>4, <1>5, <1>6, <1>7, <1>8 DEF Next, RunFunctor

\* After its destructor nothing happens to it but that its timers go.
LEMMA LastIsCancel ==
    ASSUME ConnectionIInv, destructed, Next
    PROVE  \/ RunCancel /\ queue = <<[op |-> "cancel", ids |-> timers_]>>
           \/ \E id \in Ids : TimerRuns(id)
<1>1. /\ ~held /\ ~inServer /\ todo = {}
      /\ queue = <<>> \/ queue = <<[op |-> "cancel", ids |-> timers_]>>
  BY DEF ConnectionIInv, LifeInv
<1>2. queue # <<>> => Head(queue).op = "cancel"
  BY <1>1
<1>3. \A op \in {"establish", "close", "complete", "highwater", "destroy"} : ~IsNext(op)
  BY <1>2 DEF IsNext
<1>4. ~(\E S \in SUBSET Events : HandleBegin(S)) /\ ~HandleCloseOrError /\ ~HandleRead
  BY <1>1 DEF HandleBegin, HandleCloseOrError, HandleRead
<1>5. ~\E b \in 0..MaxBytes : HandleWrite(b)
  BY <1>1 DEF HandleWrite
<1>6. ~Establish /\ ~RunClose /\ ~RunCallback /\ ~RunDestroy
  BY <1>3 DEF Establish, RunClose, RunCallback, RunDestroy
<1>7. ~Release /\ ~Destruct /\ ~Shutdown /\ ~Close
  BY <1>1 DEF Release, Destruct, Shutdown, Close
<1>8. ~\E n \in 0..MaxMessage : Send(n) \/ SendPacket(n)
  BY <1>1 DEF Send, SendPacket, CanSend
<1>9. \A id \in Ids : ~TimerCancel(id) /\ ~\E repeats \in BOOLEAN : TimerRepeatAt(id, repeats)
  BY <1>1 DEF TimerCancel, TimerRepeatAt
<1>10. RunCancel => queue = <<[op |-> "cancel", ids |-> timers_]>>
  BY <1>1 DEF RunCancel, IsNext
<1> QED BY <1>4, <1>5, <1>6, <1>7, <1>8, <1>9, <1>10 DEF Next, RunFunctor

\* A functor is queued, the first is run, or both.
QueueMoves ==
    \/ queue' = queue
    \/ \E p \in FunctorRecords : p.op # "establish" /\ queue' = Append(queue, p)
    \/ queue # <<>> /\ queue' = Tail(queue)
    \/ queue # <<>> /\ queue' = Append(Tail(queue), Functor("destroy"))

LEMMA QueueMovesOn ==
    ASSUME queue \in Seq(FunctorRecords), QueueMoves
    PROVE  /\ queue' \in Seq(FunctorRecords)
           /\ NoneEstablishes(queue) => NoneEstablishes(queue')
<1>1. CASE queue' = queue
  BY <1>1 DEF NoneEstablishes
<1>2. ASSUME NEW p \in FunctorRecords, p.op # "establish", queue' = Append(queue, p)
      PROVE  queue' \in Seq(FunctorRecords) /\ (NoneEstablishes(queue) => NoneEstablishes(queue'))
  BY <1>2, QueuedIs
<1>3. CASE queue # <<>>
  <2>1. Tail(queue) \in Seq(FunctorRecords) /\ (NoneEstablishes(queue) => NoneEstablishes(Tail(queue)))
    BY <1>3, RestIs
  <2>2. Functor("destroy") \in FunctorRecords /\ Functor("destroy").op # "establish"
    BY FunctorIs
  <2>3. /\ Append(Tail(queue), Functor("destroy")) \in Seq(FunctorRecords)
        /\ NoneEstablishes(Tail(queue)) => NoneEstablishes(Append(Tail(queue), Functor("destroy")))
    BY <2>1, <2>2, QueuedIs
  <2> QED BY <1>1, <1>2, <2>1, <2>3 DEF QueueMoves
<1> QED BY <1>1, <1>2, <1>3 DEF QueueMoves

LEMMA QueueingMoves ==
    ASSUME NEW op \in {"close", "complete", "highwater", "destroy"}, QueueInLoop(op)
    PROVE  QueueMoves
<1>1. Functor(op) \in FunctorRecords /\ Functor(op).op = op
  BY FunctorIs
<1> QED BY <1>1 DEF QueueInLoop, QueueMoves

LEMMA QueueStep ==
    ASSUME ConnectionIInv, Next
    PROVE  QueueMoves
<1>1. CASE queue' = queue
  BY <1>1 DEF QueueMoves
<1>2. CASE \E op \in {"close", "complete", "highwater", "destroy"} : QueueInLoop(op)
  BY <1>2, QueueingMoves
<1>3. CASE Establish \/ RunCallback \/ RunDestroy \/ RunCancel \/ RunClose
  BY <1>3 DEF Establish, RunCallback, RunDestroy, RunCancel, RunClose, IsNext, QueueMoves
<1>4. CASE Destruct
  <2>1. [op |-> "cancel", ids |-> timers_] \in FunctorRecords
    BY IoTypesHold DEF ConnectionIInv, FunctorRecords
  <2> QED BY <1>1, <1>4, <2>1 DEF Destruct, CancelAll, QueueMoves
<1>5. CASE HandleCloseOrError \/ HandleRead
  BY <1>1, <1>2, <1>5 DEF HandleCloseOrError, HandleRead, HandleClose
<1>6. ASSUME NEW b \in 0..MaxBytes, HandleWrite(b) PROVE QueueMoves
  BY <1>1, <1>2, <1>6 DEF HandleWrite, HandleClose, TellComplete
<1>7. ASSUME NEW n \in 0..MaxMessage, Send(n) \/ SendPacket(n) PROVE QueueMoves
  BY <1>1, <1>2, <1>7 DEF Send, SendPacket, SendAll, SendRest, SendThrows, SendNothing, HighWaterMark
<1>8. CASE Shutdown \/ Close \/ Release
  BY <1>1, <1>2, <1>8 DEF Shutdown, Close, Release
<1>9. CASE \E S \in SUBSET Events : HandleBegin(S)
  BY <1>1, <1>9 DEF HandleBegin
<1>10. ASSUME NEW id \in Ids, TimerCancel(id) \/ TimerRuns(id) \/ \E repeats \in BOOLEAN : TimerRepeatAt(id, repeats)
       PROVE  QueueMoves
  BY <1>1, <1>10 DEF TimerCancel, TimerRuns, TimerRepeatAt
<1> QED BY <1>3, <1>4, <1>5, <1>6, <1>7, <1>8, <1>9, <1>10 DEF Next, RunFunctor

ArmedInv == timers_ \subseteq Ids /\ DOMAIN armed \subseteq Ids /\ Range(armed) \subseteq BOOLEAN

LEMMA WithoutIs ==
    ASSUME NEW S, DOMAIN armed \subseteq Ids, Range(armed) \subseteq BOOLEAN
    PROVE  DOMAIN Without(S) = DOMAIN armed \ S /\ Range(Without(S)) \subseteq BOOLEAN
BY DEF Without, Range

\* A timer the loop has is one the connection remembers.
LEMMA TimersStep ==
    ASSUME ConnectionIInv, Next
    PROVE  /\ ArmedInv'
           /\ DOMAIN armed \subseteq timers_ => DOMAIN armed' \subseteq timers_'
           /\ RunCancel /\ queue = <<[op |-> "cancel", ids |-> timers_]>> /\ DOMAIN armed \subseteq timers_
                  => DOMAIN armed' = {} /\ queue' = <<>>
<1>1. ArmedInv
  BY DEF ConnectionIInv, TypeOK, ArmedInv
<1>2. \A S : DOMAIN Without(S) = DOMAIN armed \ S /\ Range(Without(S)) \subseteq BOOLEAN
  BY <1>1, WithoutIs DEF ArmedInv
<1> DEFINE Done == /\ ArmedInv' /\ (DOMAIN armed \subseteq timers_ => DOMAIN armed' \subseteq timers_')
<1> USE DEF timerVars
<1>3. ASSUME UNCHANGED timerVars PROVE Done
  BY <1>1, <1>3 DEF ArmedInv
<1>4. ASSUME NEW S, armed' = Without(S), timers_' = timers_ \/ (S \subseteq Ids /\ timers_' = timers_ \ S)
      PROVE  Done
  BY <1>1, <1>2, <1>4 DEF ArmedInv
<1>5. ASSUME RunCancel PROVE Done
  BY <1>4, <1>5 DEF RunCancel
<1>6. ASSUME Destruct PROVE Done
  BY <1>1, <1>4, <1>6 DEF Destruct, CancelAll, ArmedInv
<1>7. ASSUME NEW id \in Ids, TimerCancel(id) PROVE Done
  BY <1>4, <1>7 DEF TimerCancel
<1>8. ASSUME NEW id \in Ids, TimerRuns(id) PROVE Done
  BY <1>1, <1>4, <1>8 DEF TimerRuns, ArmedInv
<1>9. ASSUME NEW id \in Ids, NEW repeats \in BOOLEAN, TimerRepeatAt(id, repeats) PROVE Done
  <2>1. /\ armed' = [i \in DOMAIN armed \cup {id} |-> IF i = id THEN repeats ELSE armed[i]]
        /\ timers_' = timers_ \cup {id}
    BY <1>9 DEF TimerRepeatAt, Remember
  <2>2. DOMAIN armed' = DOMAIN armed \cup {id}
    BY <2>1
  <2>3. \A i \in DOMAIN armed' : armed'[i] \in BOOLEAN
    BY <1>1, <2>1 DEF ArmedInv, Range
  <2> QED BY <1>1, <2>1, <2>2, <2>3 DEF ArmedInv, Range
<1>10. RunCancel /\ queue = <<[op |-> "cancel", ids |-> timers_]>> /\ DOMAIN armed \subseteq timers_
           => DOMAIN armed' = {} /\ queue' = <<>>
  <2> SUFFICES ASSUME RunCancel, queue = <<[op |-> "cancel", ids |-> timers_]>>, DOMAIN armed \subseteq timers_
               PROVE  DOMAIN armed' = {} /\ queue' = <<>>
    OBVIOUS
  <2>1. Head(queue).ids = timers_ /\ Tail(queue) = <<>>
    OBVIOUS
  <2>2. armed' = Without(timers_) /\ queue' = <<>>
    BY <2>1 DEF RunCancel
  <2> QED BY <1>2, <2>2
<1>11. CASE UNCHANGED timerVars \/ RunCancel \/ Destruct
            \/ \E id \in Ids : \/ TimerCancel(id) \/ TimerRuns(id)
                               \/ \E repeats \in BOOLEAN : TimerRepeatAt(id, repeats)
  <2>1. Done
    BY <1>3, <1>5, <1>6, <1>7, <1>8, <1>9, <1>11
  <2> QED BY <1>10, <2>1
<1> QED BY <1>11 DEF Next, RunFunctor, HandleBegin, HandleCloseOrError, HandleRead, HandleWrite, Establish, RunClose,
           RunCallback, RunDestroy, Release, Send, SendPacket, Shutdown, Close

LEMMA TypeStep ==
    ASSUME ConnectionIInv, Next
    PROVE  TypeOK'
<1> USE DEF ioVars, stateVars, funcVars, lifeVars, timerVars, histVars
<1>1. IoTypes'
  BY IoStep DEF IoInv
<1>2. queue' \in Seq(FunctorRecords)
  BY QueueStep, QueueMovesOn, IoTypesHold DEF ConnectionIInv
<1>3. ArmedInv'
  BY TimersStep
<1> DEFINE Flags == /\ state_ \in {"Connecting", "Connected", "Disconnecting", "Disconnected"}
                    /\ writeCompleteFunc_ \in BOOLEAN /\ highWaterMarkFunc_ \in BOOLEAN
                    /\ todo \subseteq Events /\ held \in BOOLEAN /\ inServer \in BOOLEAN
                    /\ destructed \in BOOLEAN /\ finished \in BOOLEAN /\ asked \in BOOLEAN
                    /\ completed \in 0..MaxBytes
<1>4. Flags
  BY DEF ConnectionIInv, TypeOK
<1>5. Flags'
  <2>1. CASE \E S \in SUBSET Events : HandleBegin(S)
    BY <1>4, <2>1 DEF HandleBegin
  <2>2. CASE HandleCloseOrError \/ HandleRead
    BY <1>4, <2>2 DEF HandleCloseOrError, HandleRead, HandleClose, Callback
  <2>3. ASSUME NEW b \in 0..MaxBytes, HandleWrite(b) PROVE Flags'
    <3>1. \A ev : DoShutdown(ev) => UNCHANGED stateVars
      BY DEF DoShutdown, ShutdownReturns
    <3>2. state_' \in {state_, "Disconnected"} /\ finished' = finished /\ held' \in {held, TRUE}
      BY <2>3, <3>1 DEF HandleWrite, HandleClose, Callback
    <3>3. todo' = {} /\ UNCHANGED <<funcVars, lifeVars, histVars>>
      BY <2>3 DEF HandleWrite
    <3> QED BY <1>4, <3>2, <3>3
  <2>4. CASE Establish \/ RunClose \/ RunDestroy \/ RunCancel \/ Release
    BY <1>4, <2>4 DEF Establish, RunClose, RunDestroy, RunCancel, Release, Callback
  <2>5. CASE RunCallback
    <3>1. Len(wire) \in 0..MaxBytes
      <4>1. wire \in Seq(Bytes) /\ outputBuffer_ \in Seq(Bytes) /\ sent \in 0..MaxBytes /\ MaxBytes \in Nat
        BY IoTypesHold DEF ConnectionIInv, IoTypes
      <4>2. Len(wire \o outputBuffer_) = Len(wire) + Len(outputBuffer_)
        BY <4>1, ConcatProperties
      <4>3. Len(wire \o outputBuffer_) = sent
        BY <4>1 DEF ConnectionIInv, StreamInOrder
      <4> QED BY <4>1, <4>2, <4>3
    <3> QED BY <1>4, <2>5, <3>1 DEF RunCallback, Callback
  <2>6. CASE Destruct \/ Close
    BY <1>4, <2>6 DEF Destruct, Close
  <2>7. CASE \E n \in 0..MaxMessage : Send(n) \/ SendPacket(n)
    BY <1>4, <2>7 DEF Send, SendPacket
  <2>8. CASE Shutdown
    BY <1>4, <2>8, ShutdownKeeps DEF Shutdown
  <2>9. CASE \E id \in Ids : \/ TimerCancel(id) \/ TimerRuns(id)
                             \/ \E repeats \in BOOLEAN : TimerRepeatAt(id, repeats)
    BY <1>4, <2>9 DEF TimerCancel, TimerRuns, TimerRepeatAt, Callback
  <2> QED BY <2>1, <2>2, <2>3, <2>4, <2>5, <2>6, <2>7, <2>8, <2>9 DEF Next, RunFunctor
<1> QED BY <1>1, <1>2, <1>3, <1>5 DEF TypeOK, IoTypes, ArmedInv, Bytes, FunctorRecords

LEMMA LifeStep ==
    ASSUME ConnectionIInv, Next
    PROVE  LifeInv'
<1> USE DEF ioVars, stateVars, funcVars, lifeVars, timerVars, histVars
<1>1. state_' # "Connecting" /\ NoneEstablishes(queue')
  <2>1. CASE state_ = "Connecting"
    <3>1. Establish
      BY <2>1, FirstIsEstablish
    <3>2. queue' = <<>> /\ state_' = "Connected"
      BY <3>1, EstablishIsFirst DEF Establish
    <3> QED BY <3>2 DEF NoneEstablishes
  <2>2. CASE state_ # "Connecting"
    <3>1. NoneEstablishes(queue')
      BY <2>2, QueueStep, QueueMovesOn, IoTypesHold DEF ConnectionIInv, LifeInv, NoneEstablishes
    <3>2. state_' \in {state_, "Connected", "Disconnected"}
      BY ShutdownKeeps DEF Next, RunFunctor, HandleBegin, HandleCloseOrError, HandleRead, HandleWrite, HandleClose, Establish,
         RunClose, RunCallback, RunDestroy, RunCancel, Release, Destruct, Send, SendPacket, Shutdown, Close,
         TimerCancel, TimerRuns, TimerRepeatAt
    <3> QED BY <2>2, <3>1, <3>2
  <2> QED BY <2>1, <2>2
<1>2. ASSUME ~destructed' PROVE DOMAIN armed' \subseteq timers_'
  <2>1. ~destructed
    BY <1>2, LastIsCancel DEF RunCancel, TimerRuns
  <2> QED BY <2>1, TimersStep DEF ConnectionIInv, LifeInv
<1>3. ASSUME destructed' PROVE /\ ~held' /\ ~inServer' /\ todo' = {}
                               /\ \/ queue' = <<>> /\ DOMAIN armed' = {}
                                  \/ /\ queue' = <<[op |-> "cancel", ids |-> timers_']>>
                                     /\ DOMAIN armed' \subseteq timers_'
  <2>1. CASE destructed
    <3>1. /\ ~held /\ ~inServer /\ todo = {} /\ DOMAIN armed \subseteq timers_
          /\ \/ queue = <<>> /\ DOMAIN armed = {}
             \/ queue = <<[op |-> "cancel", ids |-> timers_]>>
      BY <2>1 DEF ConnectionIInv, LifeInv
    <3>2. CASE RunCancel /\ queue = <<[op |-> "cancel", ids |-> timers_]>>
      <4>1. DOMAIN armed' = {} /\ queue' = <<>>
        BY <3>1, <3>2, TimersStep
      <4> QED BY <3>1, <3>2, <4>1 DEF RunCancel
    <3>3. ASSUME NEW id \in Ids, TimerRuns(id)
          PROVE  /\ ~held' /\ ~inServer' /\ todo' = {} /\ queue' = queue /\ timers_' = timers_
                 /\ DOMAIN armed' \subseteq DOMAIN armed
      BY <2>1, <3>1, <3>3 DEF TimerRuns, Without
    <3> QED BY <2>1, <3>1, <3>2, <3>3, LastIsCancel
  <2>2. CASE ~destructed
    <3>1. Destruct
      BY <1>3, <2>2 DEF Next, RunFunctor, HandleBegin, HandleCloseOrError, HandleRead, HandleWrite, Establish,
         RunClose, RunCallback, RunDestroy, RunCancel, Release, Send, SendPacket, Shutdown, Close,
         TimerCancel, TimerRuns, TimerRepeatAt
    <3>2. DOMAIN armed \subseteq timers_
      BY <2>2 DEF ConnectionIInv, LifeInv
    <3>3. CASE armed' = Without(timers_) /\ UNCHANGED queue
      BY <3>1, <3>2, <3>3 DEF Destruct, Without
    <3>4. CASE queue' = Append(queue, [op |-> "cancel", ids |-> timers_]) /\ UNCHANGED armed
      <4>1. \A p : Append(<<>>, p) = <<p>>
        OBVIOUS
      <4> QED BY <3>1, <3>2, <3>4, <4>1 DEF Destruct
    <3> QED BY <3>1, <3>3, <3>4 DEF Destruct, CancelAll
  <2> QED BY <2>1, <2>2
<1> QED BY <1>1, <1>2, <1>3 DEF LifeInv, NoneEstablishes
-----------------------------------------------------------------------------
(* The theorems                                                            *)

LEMMA ConnectionInit == Init => ConnectionIInv
<1> SUFFICES ASSUME Init PROVE ConnectionIInv
  OBVIOUS
<1> USE ConnectionAssumption DEF Init
<1>1. queue \in Seq(FunctorRecords)
  <2>1. Functor("establish") \in FunctorRecords
    BY FunctorIs
  <2> QED BY <2>1
<1>2. outputBuffer_ \in Seq(Bytes) /\ wire \in Seq(Bytes) /\ wire \o outputBuffer_ = <<>> /\ DOMAIN armed = {}
  BY EmptySeq, ConcatEmptySeq
<1>3. TypeOK
  <2>1. DOMAIN armed \subseteq Ids /\ Range(armed) \subseteq BOOLEAN
    BY <1>2 DEF Range
  <2>2. 0 \in 0..MaxBytes
    BY ConnectionAssumption
  <2> QED BY <1>1, <1>2, <2>1, <2>2 DEF TypeOK, Bytes, FunctorRecords
<1>4. StreamInOrder
  BY <1>2 DEF StreamInOrder
<1>5. LifeInv
  BY <1>2 DEF LifeInv
<1> QED BY <1>3, <1>4, <1>5 DEF ConnectionIInv, NothingStranded

LEMMA ConnectionNext == ConnectionIInv /\ [Next]_vars => ConnectionIInv'
<1> SUFFICES ASSUME ConnectionIInv, [Next]_vars PROVE ConnectionIInv'
  OBVIOUS
<1>1. NothingStranded' /\ StreamInOrder'
  BY IoStep DEF IoInv
<1>2. CASE Next
  BY <1>1, <1>2, TypeStep, LifeStep DEF ConnectionIInv
<1>3. CASE UNCHANGED vars
  <2>1. TypeOK' /\ LifeInv'
    BY <1>3 DEF vars, ioVars, stateVars, funcVars, lifeVars, timerVars, histVars, ConnectionIInv, TypeOK, LifeInv
  <2> QED BY <1>1, <2>1 DEF ConnectionIInv
<1> QED BY <1>2, <1>3

LEMMA ConnectionInductive == Spec => []ConnectionIInv
BY ConnectionInit, ConnectionNext, PTL DEF Spec

\* The types, and no byte waits in the buffer of an open connection without its
\* channel asking for write events, while a closed one asks for nothing.
THEOREM NothingIsStranded == Spec => []ConnectionInv
<1>1. ConnectionIInv => ConnectionInv
  BY DEF ConnectionIInv, ConnectionInv
<1> QED BY <1>1, ConnectionInductive, PTL

\* The bytes on the wire and in the buffer are those that were sent, each once
\* and in order, however send() and handleWrite divided them.
THEOREM BytesInOrder == Spec => []StreamInOrder
<1>1. ConnectionIInv => StreamInOrder
  BY DEF ConnectionIInv
<1> QED BY <1>1, ConnectionInductive, PTL

\* No timer of a connection is left in the loop once it is destructed and the
\* functor of its destructor has run.
THEOREM TimersEnd == Spec => []TimersEndWithConnection
<1>1. ConnectionIInv => TimersEndWithConnection
  BY DEF ConnectionIInv, LifeInv, TimersEndWithConnection
<1> QED BY <1>1, ConnectionInductive, PTL
=============================================================================
