---------------------------- MODULE LoggerProofs ----------------------------
(* The logger loses, doubles and reorders no line, for any threads, any    *)
(* threshold and any number of lines, and its writer never sleeps over     *)
(* work that nobody is about to announce.                                  *)
EXTENDS Logger, TLAPS

\* What the positions of the writer and of the destructor say of the rest:
\* lines are swapped out only while they are written, the end of the writer
\* means that the queue is empty for good, and once the destructor has begun
\* nobody logs any more.
Positions ==
    /\ temp # <<>> => writer = "write"
    /\ writer = "ended" => ~running_ /\ queue_ = <<>>
    /\ running_ <=> closer = "idle"
    /\ ~running_ => \A t \in Threads : caller[t] = "idle"
    /\ closer = "closed" => writer = "ended"

DrainInv == LoggerInv /\ Positions

Numbers(n) == [i \in 1..n |-> i]
-----------------------------------------------------------------------------
(* Sequences                                                               *)

LEMMA NumbersAppend ==
    ASSUME NEW n \in Nat
    PROVE  Append(Numbers(n), n + 1) = Numbers(n + 1)
<1>1. Numbers(n) \in Seq(Nat) /\ Len(Numbers(n)) = n
  BY DEF Numbers
<1> QED BY <1>1 DEF Numbers

LEMMA NumbersLen ==
    ASSUME NEW n \in Nat PROVE Len(Numbers(n)) = n
BY DEF Numbers

LEMMA EmptySeq == ASSUME NEW S PROVE <<>> \in Seq(S) /\ Len(<<>>) = 0
OBVIOUS

LEMMA ConcatAppend ==
    ASSUME NEW S, NEW s \in Seq(S), NEW t \in Seq(S), NEW e \in S
    PROVE  s \o Append(t, e) = Append(s \o t, e)
OBVIOUS

\* Moving the head of the second sequence to the end of the first.
LEMMA ConcatMoveHead ==
    ASSUME NEW S, NEW s \in Seq(S), NEW t \in Seq(S), t # <<>>
    PROVE  Append(s, Head(t)) \o Tail(t) = s \o t
OBVIOUS

LEMMA ConcatEmpty ==
    ASSUME NEW S, NEW s \in Seq(S)
    PROVE  s \o <<>> = s /\ <<>> \o s = s
OBVIOUS
-----------------------------------------------------------------------------
\* Every variable of the logger keeps its type.
LEMMA TypeNext == TypeOK /\ [Next]_vars => TypeOK'
<1> SUFFICES ASSUME TypeOK, [Next]_vars PROVE TypeOK'
    OBVIOUS
<1> USE LoggerAssumption DEF TypeOK, fileVars
<1>1. ASSUME NEW t \in Threads, NEW then \in {"idle", "flush"}, Log(t, then) PROVE TypeOK'
  <2>1. logged' \in 0..MaxLines /\ logged + 1 \in Lines /\ urgent' \in 0..logged'
    BY <1>1 DEF Log, Lines
  <2>2. queue_' \in Seq(Lines)
    BY <1>1, <2>1 DEF Log
  <2>3. writer' \in {"test", "asleep", "write", "ended"}
    BY <1>1 DEF Log, NotifyOne
  <2> QED BY <1>1, <2>1, <2>2, <2>3 DEF Log
<1>2. ASSUME NEW t \in Threads, FlushSet(t) PROVE TypeOK'
  BY <1>2 DEF FlushSet
<1>3. ASSUME NEW t \in Threads, FlushNotify(t) PROVE TypeOK'
  BY <1>3 DEF FlushNotify, NotifyOne
<1>4. CASE TestPredicate \/ Timeout
  <2>1. writer' \in {"test", "asleep", "write", "ended"}
    BY <1>4 DEF TestPredicate, Timeout, Proceed
  <2>2. \/ UNCHANGED <<queue_, needtoFlush_, temp>>
        \/ needtoFlush_' = FALSE /\ temp' = queue_ /\ queue_' = <<>>
    BY <1>4 DEF TestPredicate, Timeout, Proceed
  <2>3. queue_' \in Seq(Lines) /\ temp' \in Seq(Lines) /\ needtoFlush_' \in BOOLEAN
    <3>1. CASE UNCHANGED <<queue_, needtoFlush_, temp>>
      BY <3>1
    <3>2. CASE needtoFlush_' = FALSE /\ temp' = queue_ /\ queue_' = <<>>
      BY <3>2, EmptySeq
    <3> QED BY <2>2, <3>1, <3>2
  <2> QED BY <1>4, <2>1, <2>3 DEF TestPredicate, Timeout
<1>5. CASE SpuriousWakeup
  BY <1>5 DEF SpuriousWakeup
<1>6. CASE WriteLine
  <2>1. Head(temp) \in Lines /\ Tail(temp) \in Seq(Lines)
    BY <1>6 DEF WriteLine
  <2>2. ofs_' \in Seq(Lines) /\ Len(ofs_') = Len(ofs_) + 1
    BY <1>6, <2>1 DEF WriteLine
  <2> QED BY <1>6, <2>1, <2>2 DEF WriteLine
<1>7. CASE FlushStream
  BY <1>7 DEF FlushStream
<1>8. CASE Stop \/ StopNotify
  BY <1>8 DEF Stop, StopNotify, NotifyOne
<1>9. CASE Join
  BY <1>9 DEF Join
<1>10. CASE UNCHANGED vars
  BY <1>10 DEF vars
<1> QED
  BY <1>1, <1>2, <1>3, <1>4, <1>5, <1>6, <1>7, <1>8, <1>9, <1>10
     DEF Next, WriterStep, QuietLine, UrgentLine

\* The positions keep what they say.
LEMMA PositionsNext == TypeOK /\ Positions /\ [Next]_vars => Positions'
<1> SUFFICES ASSUME TypeOK, Positions, [Next]_vars PROVE Positions'
    OBVIOUS
<1> USE DEF Positions, fileVars
<1>1. ASSUME NEW t \in Threads, NEW then \in {"idle", "flush"}, Log(t, then) PROVE Positions'
  BY <1>1 DEF Log, NotifyOne
<1>2. ASSUME NEW t \in Threads, FlushSet(t) \/ FlushNotify(t) PROVE Positions'
  BY <1>2 DEF FlushSet, FlushNotify, NotifyOne, TypeOK
<1>3. CASE TestPredicate \/ Timeout
  BY <1>3 DEF TestPredicate, Timeout, Proceed, MayEnd
<1>4. CASE SpuriousWakeup \/ WriteLine \/ FlushStream
  BY <1>4 DEF SpuriousWakeup, WriteLine, FlushStream
<1>5. CASE Stop \/ StopNotify \/ Join
  BY <1>5 DEF Stop, StopNotify, Join, NotifyOne
<1>6. CASE UNCHANGED vars
  BY <1>6 DEF vars
<1> QED
  BY <1>1, <1>2, <1>3, <1>4, <1>5, <1>6 DEF Next, WriterStep, QuietLine, UrgentLine

\* The writer goes to sleep only when nothing is wanted of it; who gives it work
\* is then on the way to wake it.
LEMMA SleepsNext == TypeOK /\ Positions /\ SleepsOnlyIdle /\ [Next]_vars => SleepsOnlyIdle'
<1> SUFFICES ASSUME TypeOK, Positions, SleepsOnlyIdle, [Next]_vars, writer' = "asleep"
             PROVE  /\ Len(queue_') < Threshold
                    /\ needtoFlush_' => \E t \in Threads : caller'[t] = "notify"
                    /\ ~running_' => closer' = "notify"
    BY DEF SleepsOnlyIdle
<1> USE DEF fileVars
<1>1. ASSUME NEW t \in Threads, NEW then \in {"idle", "flush"}, Log(t, then) PROVE
        /\ Len(queue_') < Threshold
        /\ needtoFlush_' => \E u \in Threads : caller'[u] = "notify"
        /\ ~running_' => closer' = "notify"
  <2>1. writer = "asleep" /\ ~(Len(queue_') >= Threshold)
    BY <1>1 DEF Log, NotifyOne
  <2>2. Len(queue_') < Threshold
    BY <1>1, <2>1, LoggerAssumption DEF Log, TypeOK
  <2>3. ASSUME needtoFlush_ PROVE \E u \in Threads : caller'[u] = "notify"
    <3>1. PICK u \in Threads : caller[u] = "notify"
      BY <2>1, <2>3 DEF SleepsOnlyIdle
    <3>2. caller'[u] = "notify"
      BY <1>1, <3>1 DEF Log, TypeOK
    <3> QED BY <3>2
  <2> QED BY <1>1, <2>1, <2>2, <2>3 DEF Log, Positions
<1>2. ASSUME NEW t \in Threads, FlushSet(t) PROVE
        /\ Len(queue_') < Threshold
        /\ needtoFlush_' => \E u \in Threads : caller'[u] = "notify"
        /\ ~running_' => closer' = "notify"
  BY <1>2 DEF FlushSet, SleepsOnlyIdle, TypeOK
<1>3. ASSUME NEW t \in Threads, FlushNotify(t) PROVE FALSE
  BY <1>3 DEF FlushNotify, NotifyOne
<1>4. CASE TestPredicate
  <2>1. ~Wanted /\ UNCHANGED <<queue_, needtoFlush_>>
    BY <1>4 DEF TestPredicate, Proceed
  <2> QED BY <1>4, <2>1, LoggerAssumption DEF TestPredicate, Wanted, TypeOK
<1>5. CASE Timeout \/ SpuriousWakeup \/ WriteLine \/ FlushStream
  BY <1>5 DEF Timeout, Proceed, SpuriousWakeup, WriteLine, FlushStream
<1>6. CASE Stop
  BY <1>6 DEF Stop, SleepsOnlyIdle
<1>7. CASE StopNotify \/ Join
  BY <1>7 DEF StopNotify, Join, NotifyOne
<1>8. CASE UNCHANGED vars
  BY <1>8 DEF vars, SleepsOnlyIdle
<1> QED
  BY <1>1, <1>2, <1>3, <1>4, <1>5, <1>6, <1>7, <1>8 DEF Next, WriterStep, QuietLine, UrgentLine
-----------------------------------------------------------------------------
\* A line goes from the queue over temp to the stream, and never elsewhere.
LEMMA OrderNext == DrainInv /\ [Next]_vars => LinesInOrder'
<1> SUFFICES ASSUME DrainInv, [Next]_vars PROVE LinesInOrder'
    OBVIOUS
<1> USE DEF fileVars
<1>a. /\ TypeOK /\ Positions /\ LinesInOrder
      /\ queue_ \in Seq(Lines) /\ temp \in Seq(Lines) /\ ofs_ \in Seq(Lines) /\ logged \in Nat
      /\ ofs_ \o temp \in Seq(Lines)
      /\ (ofs_ \o temp) \o queue_ = Numbers(logged)
  BY DEF DrainInv, LoggerInv, TypeOK, LinesInOrder, Numbers
<1>b. SUFFICES /\ (ofs_' \o temp') \o queue_' = Numbers(logged')
               /\ closer' = "closed" => onDisk' = logged'
  BY DEF LinesInOrder, Numbers
<1>c. UNCHANGED <<ofs_, temp, queue_, logged>> => (ofs_' \o temp') \o queue_' = Numbers(logged')
  BY <1>a
<1>d. UNCHANGED <<closer, onDisk, logged>> => (closer' = "closed" => onDisk' = logged')
  BY <1>a DEF LinesInOrder
<1>1. ASSUME NEW t \in Threads, NEW then \in {"idle", "flush"}, Log(t, then)
      PROVE  /\ (ofs_' \o temp') \o queue_' = Numbers(logged')
             /\ closer' = "closed" => onDisk' = logged'
  <2>1. logged + 1 \in Lines /\ UNCHANGED <<ofs_, temp>> /\ closer' = "idle"
        /\ queue_' = Append(queue_, logged + 1) /\ logged' = logged + 1
    BY <1>1, <1>a, LoggerAssumption DEF Log, Lines
  <2>2. (ofs_ \o temp) \o Append(queue_, logged + 1) = Append((ofs_ \o temp) \o queue_, logged + 1)
    <3>1. ofs_ \o temp \in Seq(Lines) /\ queue_ \in Seq(Lines) /\ logged + 1 \in Lines
      BY <1>a, <2>1
    <3> QED BY <3>1, ConcatAppend
  <2> QED BY <1>a, <2>1, <2>2, NumbersAppend
<1>2. ASSUME NEW t \in Threads, FlushSet(t) \/ FlushNotify(t)
      PROVE  /\ (ofs_' \o temp') \o queue_' = Numbers(logged')
             /\ closer' = "closed" => onDisk' = logged'
  BY <1>2, <1>c, <1>d DEF FlushSet, FlushNotify
<1>3. CASE TestPredicate \/ Timeout
  <2>1. UNCHANGED <<ofs_, onDisk, closer, logged>>
    BY <1>3 DEF TestPredicate, Timeout
  <2>2. CASE UNCHANGED <<temp, queue_>>
    BY <1>c, <1>d, <2>1, <2>2
  <2>3. CASE temp = <<>> /\ temp' = queue_ /\ queue_' = <<>>
    <3>1. (ofs_ \o queue_) \o <<>> = ofs_ \o queue_
      <4>1. ofs_ \o queue_ \in Seq(Lines)
        BY <1>a
      <4> QED BY <4>1, ConcatEmpty
    <3>2. ofs_ \o temp = ofs_
      BY <1>a, <2>3, ConcatEmpty
    <3> QED BY <1>a, <1>d, <2>1, <2>3, <3>1, <3>2
  <2>4. UNCHANGED <<temp, queue_>> \/ (temp = <<>> /\ temp' = queue_ /\ queue_' = <<>>)
    BY <1>3, <1>a DEF TestPredicate, Timeout, Proceed, Positions
  <2> QED BY <2>2, <2>3, <2>4
<1>4. CASE SpuriousWakeup
  BY <1>4, <1>c, <1>d DEF SpuriousWakeup
<1>5. CASE WriteLine
  <2>1. Append(ofs_, Head(temp)) \o Tail(temp) = ofs_ \o temp
    BY <1>5, <1>a, ConcatMoveHead DEF WriteLine
  <2> QED BY <1>5, <1>a, <1>d, <2>1 DEF WriteLine
<1>6. CASE FlushStream
  <2>1. closer # "closed"
    BY <1>6, <1>a DEF FlushStream, Positions
  <2> QED BY <1>6, <1>c, <2>1 DEF FlushStream
<1>7. CASE Stop \/ StopNotify
  BY <1>7, <1>c DEF Stop, StopNotify
<1>8. CASE Join
  <2>1. temp = <<>> /\ queue_ = <<>>
    BY <1>8, <1>a DEF Join, Positions
  <2>2. ofs_ = Numbers(logged)
    BY <1>a, <2>1, ConcatEmpty
  <2>3. Len(ofs_) = logged
    BY <1>a, <2>2, NumbersLen
  <2> QED BY <1>8, <1>c, <2>3 DEF Join
<1>9. CASE UNCHANGED vars
  BY <1>9, <1>c, <1>d DEF vars
<1> QED
  BY <1>1, <1>2, <1>3, <1>4, <1>5, <1>6, <1>7, <1>8, <1>9
     DEF Next, WriterStep, QuietLine, UrgentLine
-----------------------------------------------------------------------------
\* At every point the stream, the lines being written and the queue hold every
\* line once and in order, the destructor leaves all of them in the file, and the
\* writer sleeps only when nobody has work for it without being about to say so.
THEOREM NoLineLost == Spec => []LoggerInv
<1>1. ASSUME Init PROVE DrainInv
  <2>1. TypeOK
    <3>1. queue_ \in Seq(Lines) /\ temp \in Seq(Lines) /\ ofs_ \in Seq(Lines) /\ Len(ofs_) = 0
      BY <1>1, EmptySeq DEF Init
    <3>2. caller \in [Threads -> {"idle", "flush", "notify"}]
      BY <1>1 DEF Init
    <3>3. onDisk \in 0..Len(ofs_)
      BY <1>1, <3>1 DEF Init
    <3>4. logged \in 0..MaxLines /\ urgent \in 0..logged
      BY <1>1, LoggerAssumption DEF Init
    <3>5. /\ needtoFlush_ \in BOOLEAN /\ running_ \in BOOLEAN
          /\ writer \in {"test", "asleep", "write", "ended"}
          /\ closer \in {"idle", "notify", "join", "closed"}
      BY <1>1 DEF Init
    <3> QED BY <3>1, <3>2, <3>3, <3>4, <3>5 DEF TypeOK
  <2>2. ofs_ \o temp \o queue_ = [i \in 1..logged |-> i]
    BY <1>1 DEF Init
  <2>3. LinesInOrder /\ SleepsOnlyIdle /\ Positions
    BY <1>1, <2>2 DEF Init, LinesInOrder, SleepsOnlyIdle, Positions
  <2> QED BY <2>1, <2>3 DEF DrainInv, LoggerInv
<1>2. DrainInv /\ [Next]_vars => DrainInv'
  BY TypeNext, PositionsNext, SleepsNext, OrderNext DEF DrainInv, LoggerInv
<1>3. DrainInv => LoggerInv
  BY DEF DrainInv
<1> QED BY <1>1, <1>2, <1>3, PTL DEF Spec
=============================================================================
