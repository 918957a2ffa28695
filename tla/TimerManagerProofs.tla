------------------------- MODULE TimerManagerProofs -------------------------
(***************************************************************************)
(* What TimerManager guarantees for every number of timers and threads,    *)
(* every due time and interval, and every movement of the wall clock.      *)
(***************************************************************************)
EXTENDS TimerManager, SequenceTheorems, TLAPS

\* Abbreviations of the actions.
USE DEF fdVars, tableVars, threadVars, histVars, TakeNumber

Posts == [op : {"add", "cancel"}, seq : Seqs, when : Nat, interval : Nat]

\* The four parts of TimerInv hold only together: a number is fresh when its
\* timer is inserted, so the set keeps one entry for each timer, so the timer
\* handleRead runs is one that is owned, so that its number was handed out.

\* resetTimerfd arms the timerfd whatever the due time is.
LEMMA ResetArms ==
    ASSUME now \in Nat, NEW when \in Nat, ResetTimerfd(when)
    PROVE  fdLeft' \in Nat \ {0} /\ readable' = FALSE
BY DEF ResetTimerfd

\* The first entry of the ordered set is a timer and its due time.
LEMMA EntryOfTimer ==
    ASSUME TypeOK, OrderMatchesTimers, NEW e \in timersOrder_
    PROVE  /\ e[2] \in DOMAIN timers_ /\ e[1] = timers_[e[2]].when
           /\ e = <<timers_[e[2]].when, e[2]>>
           /\ e[1] \in Nat
BY DEF TypeOK, OrderMatchesTimers, Entries

\* The functor of addEvent adds one timer and leaves the others.
LEMMA InsertTable ==
    ASSUME TypeOK, NEW s \in Seqs, NEW when \in Nat, NEW interval \in Nat,
           Insert(s, when, interval)
    PROVE  /\ DOMAIN timers_' = DOMAIN timers_ \cup {s}
           /\ timers_'[s] = [when |-> when, interval |-> interval]
           /\ \A t \in DOMAIN timers_ \ {s} : timers_'[t] = timers_[t]
           /\ timers_' \in [DOMAIN timers_' -> [when : Nat, interval : Nat]]
           /\ timersOrder_' = timersOrder_ \cup {<<when, s>>}
           /\ begin' = [begin EXCEPT ![s] = when] /\ begin' \in [Seqs -> Nat]
           /\ UNCHANGED <<cancelTimer_, currTimer_, runs, cancelled>>
           /\ fdLeft' \in Nat /\ readable' \in BOOLEAN
<1>1. /\ DOMAIN timers_' = DOMAIN timers_ \cup {s}
      /\ timers_'[s] = [when |-> when, interval |-> interval]
      /\ \A t \in DOMAIN timers_ \ {s} : timers_'[t] = timers_[t]
  BY DEF Insert
<1>2. timers_' \in [DOMAIN timers_' -> [when : Nat, interval : Nat]]
  <2>1. timers_' = [t \in DOMAIN timers_' |-> timers_'[t]]
    BY DEF Insert
  <2>2. \A t \in DOMAIN timers_' : timers_'[t] \in [when : Nat, interval : Nat]
    BY <1>1 DEF TypeOK
  <2> QED BY <2>1, <2>2
<1>3. fdLeft' \in Nat /\ readable' \in BOOLEAN
  BY ResetArms DEF Insert, TypeOK
<1> QED BY <1>1, <1>2, <1>3 DEF Insert, TypeOK

\* The functor of cancelEvent removes its timer, if there is one, and leaves
\* the others.
LEMMA EraseTable ==
    ASSUME TypeOK, OrderMatchesTimers, NEW s \in Seqs, Erase(s)
    PROVE  /\ DOMAIN timers_' = DOMAIN timers_ \ {s}
           /\ \A t \in DOMAIN timers_' : timers_'[t] = timers_[t]
           /\ timers_' \in [DOMAIN timers_' -> [when : Nat, interval : Nat]]
           /\ timersOrder_' = IF s \in DOMAIN timers_
                              THEN timersOrder_ \ {<<timers_[s].when, s>>} ELSE timersOrder_
           /\ cancelTimer_' = IF s \in DOMAIN timers_ /\ s = currTimer_
                              THEN cancelTimer_ \cup {s} ELSE cancelTimer_
           /\ cancelled' = IF s \in DOMAIN timers_ THEN cancelled \cup {s} ELSE cancelled
           /\ UNCHANGED <<currTimer_, begin, runs>>
           /\ fdLeft' \in Nat /\ readable' \in BOOLEAN
<1>1. CASE s \in DOMAIN timers_
  <2>1. /\ timers_' = Restrict(timers_, DOMAIN timers_ \ {s})
        /\ timersOrder_' = timersOrder_ \ {<<timers_[s].when, s>>}
        /\ cancelTimer_' = IF s = currTimer_ THEN cancelTimer_ \cup {s} ELSE cancelTimer_
        /\ UNCHANGED fdVars \/ \E e \in timersOrder_' : ResetTimerfd(e[1])
    BY <1>1 DEF Erase, Found, EraseEntry, KeepRunning
  <2>2. /\ DOMAIN timers_' = DOMAIN timers_ \ {s}
        /\ \A t \in DOMAIN timers_' : timers_'[t] = timers_[t]
        /\ timers_' = [t \in DOMAIN timers_' |-> timers_'[t]]
    BY <2>1 DEF Restrict
  <2>3. timers_' \in [DOMAIN timers_' -> [when : Nat, interval : Nat]]
    BY <2>2 DEF TypeOK
  <2>4. fdLeft' \in Nat /\ readable' \in BOOLEAN
    <3>1. CASE UNCHANGED fdVars
      BY <3>1 DEF TypeOK
    <3>2. CASE \E e \in timersOrder_' : ResetTimerfd(e[1])
      BY <2>1, <3>2, EntryOfTimer, ResetArms DEF TypeOK
    <3> QED BY <2>1, <3>1, <3>2
  <2> QED BY <1>1, <2>1, <2>2, <2>3, <2>4 DEF Erase
<1>2. CASE s \notin DOMAIN timers_
  BY <1>2 DEF Erase, Found, TypeOK
<1> QED BY <1>1, <1>2
-----------------------------------------------------------------------------
\* timerRepeatAt() never hands a negative interval on.
LEMMA IntervalNat == ASSUME NEW i \in Int PROVE Interval(i) \in Nat
BY DEF Interval

\* The number a new timer takes is the next one and within the bound.
LEMMA NewNumber ==
    ASSUME TypeOK, s_currSeq < MaxTimers, s_currSeq' = s_currSeq + 1
    PROVE  s_currSeq \in Nat /\ s_currSeq' \in Seqs /\ s_currSeq' \in 0..MaxTimers
<1>1. s_currSeq \in 0..MaxTimers
  BY DEF TypeOK
<1> QED BY <1>1, TimerAssumption DEF Seqs

\* The arguments of addEvent have the types of a timer.
LEMMA Arguments ==
    ASSUME NEW when \in Whens, NEW i \in Intervals
    PROVE  when \in Nat /\ Interval(i) \in Nat
BY IntervalNat, TimerAssumption

\* An EventLoop that has just been constructed has empty tables.
LEMMA TableInit == Init => TimerInv
<1> SUFFICES ASSUME Init PROVE TimerInv
    OBVIOUS
<1> USE TimerAssumption DEF Init, Seqs
<1>1. DOMAIN timers_ = {} /\ posted \in Seq(Posts) /\ DOMAIN posted = {}
  OBVIOUS
<1>2. timers_ \in [DOMAIN timers_ -> [when : Nat, interval : Nat]]
  BY <1>1
<1>3. TypeOK
  <2>1. /\ DOMAIN timers_ \subseteq Seqs /\ cancelTimer_ \subseteq Seqs /\ cancelled \subseteq Seqs
        /\ currTimer_ \in 0..s_currSeq /\ s_currSeq \in 0..MaxTimers
    BY <1>1
  <2>2. /\ adding \in [Threads -> 0..MaxTimers] /\ ids \in [Threads -> 0..MaxTimers]
        /\ begin \in [Seqs -> Nat] /\ runs \in [Seqs -> Nat]
    OBVIOUS
  <2>3. fdLeft \in Nat /\ readable \in BOOLEAN /\ ready \in BOOLEAN /\ now \in Nat /\ time \in Nat
    OBVIOUS
  <2> QED BY <1>1, <1>2, <2>1, <2>2, <2>3 DEF TypeOK, Posts
<1>4. OneTimerPerNumber
  BY <1>1 DEF OneTimerPerNumber, Adds
<1>5. OrderMatchesTimers /\ RunningTimerExists
  BY <1>1 DEF OrderMatchesTimers, Entries, RunningTimerExists
<1> QED BY <1>3, <1>4, <1>5 DEF TimerInv

\* Appending to the queue, or taking its head, keeps the functors' types.
LEMMA PostedTypes ==
    ASSUME posted \in Seq(Posts)
    PROVE  /\ \A p \in Posts : Append(posted, p) \in Seq(Posts)
           /\ posted # <<>> => Head(posted) \in Posts /\ Tail(posted) \in Seq(Posts)
BY HeadTailProperties

\* No step leaves the types.
LEMMA TypeNext == TimerInv /\ [Next]_vars => TypeOK'
<1> SUFFICES ASSUME TimerInv, [Next]_vars PROVE TypeOK'
    OBVIOUS
<1> USE TimerAssumption
<1>a. TypeOK /\ OrderMatchesTimers /\ posted \in Seq(Posts)
  BY DEF TimerInv, TypeOK, Posts
<1>b. ASSUME NEW s \in Seqs, Erase(s)
      PROVE  /\ DOMAIN timers_' \subseteq Seqs
             /\ timers_' \in [DOMAIN timers_' -> [when : Nat, interval : Nat]]
             /\ cancelTimer_' \subseteq Seqs /\ cancelled' \subseteq Seqs
             /\ fdLeft' \in Nat /\ readable' \in BOOLEAN
             /\ UNCHANGED <<currTimer_, begin, runs>>
  <2>1. DOMAIN timers_ \subseteq Seqs /\ cancelTimer_ \subseteq Seqs /\ cancelled \subseteq Seqs
    BY <1>a DEF TypeOK
  <2> QED BY <1>a, <1>b, <2>1, EraseTable
<1>c. ASSUME NEW s \in Seqs, NEW when \in Nat, NEW i \in Nat, Insert(s, when, i)
      PROVE  /\ DOMAIN timers_' \subseteq Seqs
             /\ timers_' \in [DOMAIN timers_' -> [when : Nat, interval : Nat]]
             /\ begin' \in [Seqs -> Nat] /\ fdLeft' \in Nat /\ readable' \in BOOLEAN
             /\ UNCHANGED <<cancelTimer_, currTimer_, cancelled, runs>>
  <2>1. DOMAIN timers_ \subseteq Seqs
    BY <1>a DEF TypeOK
  <2>2. /\ DOMAIN timers_' = DOMAIN timers_ \cup {s}
        /\ timers_' \in [DOMAIN timers_' -> [when : Nat, interval : Nat]]
        /\ begin' \in [Seqs -> Nat] /\ fdLeft' \in Nat /\ readable' \in BOOLEAN
        /\ UNCHANGED <<cancelTimer_, currTimer_, cancelled, runs>>
    BY <1>a, <1>c, InsertTable
  <2> QED BY <2>1, <2>2
<1>1. ASSUME NEW when \in Whens, NEW i \in Intervals, LocalAdd(when, i) PROVE TypeOK'
  <2>1. s_currSeq' \in Seqs /\ s_currSeq' \in 0..MaxTimers /\ Interval(i) \in Nat /\ when \in Nat
    BY <1>1, <1>a, NewNumber, Arguments DEF LocalAdd
  <2>2. Insert(s_currSeq', when, Interval(i))
    BY <1>1 DEF LocalAdd
  <2>3. currTimer_' \in 0..s_currSeq'
    BY <1>1, <1>a, <2>1, <2>2 DEF LocalAdd, TypeOK, Insert
  <2>4. /\ DOMAIN timers_' \subseteq Seqs
        /\ timers_' \in [DOMAIN timers_' -> [when : Nat, interval : Nat]]
        /\ begin' \in [Seqs -> Nat] /\ fdLeft' \in Nat /\ readable' \in BOOLEAN
        /\ UNCHANGED <<cancelTimer_, cancelled, runs>>
    BY <2>1, <2>2, <1>c
  <2> QED BY <1>1, <1>a, <2>1, <2>3, <2>4 DEF LocalAdd, TypeOK
<1>2. ASSUME NEW s \in Seqs, LocalCancel(s) PROVE TypeOK'
  <2>1. Erase(s)
    BY <1>2 DEF LocalCancel
  <2>2. /\ DOMAIN timers_' \subseteq Seqs
        /\ timers_' \in [DOMAIN timers_' -> [when : Nat, interval : Nat]]
        /\ cancelTimer_' \subseteq Seqs /\ cancelled' \subseteq Seqs
        /\ fdLeft' \in Nat /\ readable' \in BOOLEAN
        /\ UNCHANGED <<currTimer_, begin, runs>>
    BY <1>b, <2>1
  <2> QED BY <1>2, <1>a, <2>2 DEF LocalCancel, TypeOK
<1>3. ASSUME NEW u \in Threads, Remote(u) PROVE TypeOK'
  <2>1. ASSUME NEW when \in Whens, NEW i \in Intervals, RemoteAdd(u, when, i) PROVE TypeOK'
    <3>1. s_currSeq' \in Seqs /\ s_currSeq' \in 0..MaxTimers /\ Interval(i) \in Nat /\ when \in Nat
      BY <2>1, <1>a, NewNumber, Arguments DEF RemoteAdd
    <3>2. posted' \in Seq(Posts)
      BY <2>1, <3>1, <1>a, PostedTypes DEF RemoteAdd, Posts
    <3>3. currTimer_' \in 0..s_currSeq'
      BY <2>1, <1>a, <3>1 DEF RemoteAdd, TypeOK
    <3>4. adding' \in [Threads -> 0..MaxTimers]
      BY <2>1, <3>1, <1>a DEF RemoteAdd, TypeOK
    <3> QED BY <2>1, <3>1, <3>2, <3>3, <3>4, <1>a DEF RemoteAdd, TypeOK, Posts
  <2>2. CASE RemoteAddReturns(u)
    <3>1. ids' \in [Threads -> 0..MaxTimers] /\ adding' \in [Threads -> 0..MaxTimers]
      BY <2>2, <1>a DEF RemoteAddReturns, TypeOK, Seqs
    <3>2. UNCHANGED <<tableVars, currTimer_, s_currSeq, fdVars, ready, now, time, phase, posted, histVars>>
      BY <2>2 DEF RemoteAddReturns
    <3> QED BY <3>1, <3>2, <1>a DEF TypeOK
  <2>3. CASE RemoteCancel(u)
    <3>1. ids[u] \in Seqs
      BY <2>3, <1>a DEF RemoteCancel, TypeOK, Seqs
    <3>2. posted' \in Seq(Posts)
      BY <2>3, <3>1, <1>a, PostedTypes DEF RemoteCancel, Posts
    <3> QED BY <2>3, <3>2, <1>a DEF RemoteCancel, TypeOK, Posts
  <2> QED BY <1>3, <2>1, <2>2, <2>3 DEF Remote
<1>4. CASE RunPosted
  <2>1. Head(posted) \in Posts /\ Tail(posted) \in Seq(Posts)
    BY <1>4, <1>a, PostedTypes DEF RunPosted
  <2>2. CASE Head(posted).op = "add"
    <3>1. Insert(Head(posted).seq, Head(posted).when, Head(posted).interval)
      BY <1>4, <2>2 DEF RunPosted
    <3>2. /\ Head(posted).seq \in Seqs
          /\ Head(posted).when \in Nat /\ Head(posted).interval \in Nat
      BY <2>1 DEF Posts
    <3>3. /\ DOMAIN timers_' \subseteq Seqs
          /\ timers_' \in [DOMAIN timers_' -> [when : Nat, interval : Nat]]
          /\ begin' \in [Seqs -> Nat] /\ fdLeft' \in Nat /\ readable' \in BOOLEAN
          /\ UNCHANGED <<cancelTimer_, currTimer_, cancelled, runs>>
      BY <3>1, <3>2, <1>c
    <3> QED BY <1>4, <1>a, <2>1, <3>3 DEF RunPosted, TypeOK, Posts
  <2>3. CASE Head(posted).op # "add"
    <3>1. Erase(Head(posted).seq)
      BY <1>4, <2>3 DEF RunPosted
    <3>2. Head(posted).seq \in Seqs
      BY <2>1 DEF Posts
    <3>3. /\ DOMAIN timers_' \subseteq Seqs
          /\ timers_' \in [DOMAIN timers_' -> [when : Nat, interval : Nat]]
          /\ cancelTimer_' \subseteq Seqs /\ cancelled' \subseteq Seqs
          /\ fdLeft' \in Nat /\ readable' \in BOOLEAN
          /\ UNCHANGED <<currTimer_, begin, runs>>
      BY <3>1, <3>2, <1>b
    <3> QED BY <1>4, <1>a, <2>1, <3>3 DEF RunPosted, TypeOK, Posts
  <2> QED BY <2>2, <2>3
<1>5. CASE RunTimer
  <2>1. PICK e \in timersOrder_ : currTimer_' = e[2] /\ e[2] \in DOMAIN timers_
                                  /\ runs' = [runs EXCEPT ![e[2]] = @ + 1]
    BY <1>5, <1>a, EntryOfTimer DEF RunTimer
  <2>2. e[2] \in 0..s_currSeq
    BY <2>1 DEF TimerInv, OneTimerPerNumber
  <2>3. runs' \in [Seqs -> Nat]
    <3>1. runs \in [Seqs -> Nat] /\ e[2] \in Seqs
      BY <1>a, <2>1 DEF TypeOK
    <3>2. runs[e[2]] + 1 \in Nat
      BY <3>1
    <3> QED BY <2>1, <3>1, <3>2
  <2>4. /\ phase' \in {"poll", "turn", "expire", "running"}
        /\ UNCHANGED <<timers_, cancelTimer_, s_currSeq, fdVars, ready, now, time, posted,
                       threadVars, begin, cancelled>>
    BY <1>5, <1>a DEF RunTimer, TypeOK
  <2> QED BY <1>a, <2>1, <2>2, <2>3, <2>4 DEF TypeOK
<1>6. CASE RunReturns
  <2>1. /\ DOMAIN timers_' \subseteq DOMAIN timers_
        /\ timers_' \in [DOMAIN timers_' -> [when : Nat, interval : Nat]]
    <3>1. CASE currTimer_ \notin DOMAIN timers_
      BY <1>6, <1>a, <3>1 DEF RunReturns, TypeOK
    <3>2. CASE currTimer_ \in DOMAIN timers_ /\ timers_[currTimer_].interval # 0
      <4>1. timers_' = [timers_ EXCEPT ![currTimer_].when = NextWhen(timers_[currTimer_])]
        BY <1>6, <3>2 DEF RunReturns
      <4>2. NextWhen(timers_[currTimer_]) \in Nat
        BY <3>2, <1>a DEF TypeOK, NextWhen
      <4> QED BY <1>a, <4>1, <4>2 DEF TypeOK
    <3>3. CASE currTimer_ \in DOMAIN timers_ /\ timers_[currTimer_].interval = 0
      <4>1. timers_' = Restrict(timers_, DOMAIN timers_ \ {currTimer_})
        BY <1>6, <3>3 DEF RunReturns
      <4> QED BY <1>a, <4>1 DEF TypeOK, Restrict
    <3> QED BY <3>1, <3>2, <3>3
  <2>2. /\ currTimer_' = 0 /\ phase' = "expire"
        /\ UNCHANGED <<cancelTimer_, s_currSeq, fdVars, ready, now, time, posted, threadVars, histVars>>
    BY <1>6 DEF RunReturns
  <2>3. DOMAIN timers_' \subseteq Seqs /\ 0 \in 0..s_currSeq
    BY <1>a, <2>1 DEF TypeOK
  <2> QED BY <1>a, <2>1, <2>2, <2>3 DEF TypeOK
<1>7. CASE HandleReadEnd
  <2>1. fdLeft' \in Nat /\ readable' \in BOOLEAN
    BY <1>7, <1>a, EntryOfTimer, ResetArms DEF HandleReadEnd, Rearm, TypeOK
  <2> QED BY <1>7, <1>a, <2>1 DEF HandleReadEnd, TypeOK
<1>8. CASE PollReturn \/ TurnEnd \/ HandleReadBegin
  BY <1>8, <1>a DEF PollReturn, TurnEnd, HandleReadBegin, TypeOK
<1>9. CASE Tick
  <2>1. now' \in Nat /\ fdLeft' \in Nat /\ readable' \in BOOLEAN
    <3>1. now \in Nat /\ fdLeft \in Nat
      BY <1>a DEF TypeOK
    <3> QED BY <1>9, <3>1 DEF Tick
  <2>2. UNCHANGED <<tableVars, currTimer_, s_currSeq, ready, time, phase, posted, threadVars, histVars>>
    BY <1>9 DEF Tick
  <2> QED BY <1>a, <2>1, <2>2 DEF TypeOK
<1>10. ASSUME NEW t \in ClockSteps, SetClock(t) PROVE TypeOK'
  BY <1>10, <1>a DEF SetClock, TypeOK
<1>11. CASE UNCHANGED vars
  BY <1>11, <1>a DEF vars, TypeOK
<1> QED BY <1>1, <1>2, <1>3, <1>4, <1>5, <1>6, <1>7, <1>8, <1>9, <1>10, <1>11
        DEF Next, LoopStep, Local
-----------------------------------------------------------------------------
\* A timer with a new number gets one entry; a cancelled one loses its own.
LEMMA InsertOrder ==
    ASSUME TypeOK, OrderMatchesTimers, NEW s \in Seqs \ DOMAIN timers_,
           NEW when \in Nat, NEW interval \in Nat, Insert(s, when, interval)
    PROVE  OrderMatchesTimers'
<1>1. /\ DOMAIN timers_' = DOMAIN timers_ \cup {s}
      /\ timers_'[s].when = when
      /\ \A t \in DOMAIN timers_ : timers_'[t].when = timers_[t].when
      /\ timersOrder_' = timersOrder_ \cup {<<when, s>>}
  <2>1. /\ DOMAIN timers_' = DOMAIN timers_ \cup {s}
        /\ timers_'[s] = [when |-> when, interval |-> interval]
        /\ \A t \in DOMAIN timers_ \ {s} : timers_'[t] = timers_[t]
        /\ timersOrder_' = timersOrder_ \cup {<<when, s>>}
    BY InsertTable
  <2> QED BY <2>1
<1> QED BY <1>1 DEF OrderMatchesTimers, Entries

\* ... and the entry that goes is the cancelled timer's.
LEMMA EraseOrder ==
    ASSUME TypeOK, OrderMatchesTimers, NEW s \in Seqs, Erase(s)
    PROVE  OrderMatchesTimers'
<1>1. /\ DOMAIN timers_' = DOMAIN timers_ \ {s}
      /\ \A t \in DOMAIN timers_' : timers_'[t] = timers_[t]
      /\ timersOrder_' = IF s \in DOMAIN timers_
                         THEN timersOrder_ \ {<<timers_[s].when, s>>} ELSE timersOrder_
  BY EraseTable
<1> QED BY <1>1 DEF OrderMatchesTimers, Entries

\* No step takes timersOrder_ and timers_ apart.
LEMMA OrderNext == TimerInv /\ [Next]_vars => OrderMatchesTimers'
<1> SUFFICES ASSUME TimerInv, [Next]_vars PROVE OrderMatchesTimers'
    OBVIOUS
<1> USE TimerAssumption
<1>a. TypeOK /\ OrderMatchesTimers /\ posted \in Seq(Posts)
  BY DEF TimerInv, TypeOK, Posts
<1>b. UNCHANGED <<timers_, timersOrder_>> => OrderMatchesTimers'
  BY <1>a DEF OrderMatchesTimers, Entries
<1>1. ASSUME NEW when \in Whens, NEW i \in Intervals, LocalAdd(when, i)
      PROVE  OrderMatchesTimers'
  <2>1. s_currSeq' \in Seqs \ DOMAIN timers_ /\ Interval(i) \in Nat /\ when \in Nat
    <3>1. /\ s_currSeq \in Nat /\ s_currSeq' = s_currSeq + 1 /\ s_currSeq' \in Seqs
          /\ Interval(i) \in Nat /\ when \in Nat
      BY <1>1, <1>a, NewNumber, Arguments DEF LocalAdd
    <3>2. DOMAIN timers_ \subseteq 1..s_currSeq
      BY DEF TimerInv, OneTimerPerNumber
    <3> QED BY <3>1, <3>2
  <2>2. Insert(s_currSeq', when, Interval(i))
    BY <1>1 DEF LocalAdd
  <2> QED BY <1>a, <2>1, <2>2, InsertOrder
<1>2. ASSUME NEW s \in Seqs, LocalCancel(s) PROVE OrderMatchesTimers'
  <2>1. Erase(s)
    BY <1>2 DEF LocalCancel
  <2> QED BY <1>a, <2>1, EraseOrder
<1>3. CASE RunPosted
  <2>1. Head(posted) \in Posts /\ posted # <<>>
    BY <1>3, <1>a, PostedTypes DEF RunPosted
  <2>2. CASE Head(posted).op = "add"
    <3>1. Insert(Head(posted).seq, Head(posted).when, Head(posted).interval)
      BY <1>3, <2>2 DEF RunPosted
    <3>2. 1 \in Adds /\ posted[1] = Head(posted)
      BY <1>a, <2>1, <2>2 DEF Adds
    <3>3. /\ Head(posted).seq \in Seqs \ DOMAIN timers_
          /\ Head(posted).when \in Nat /\ Head(posted).interval \in Nat
      BY <2>1, <3>2 DEF Posts, TimerInv, OneTimerPerNumber
    <3> QED BY <1>a, <3>1, <3>3, InsertOrder
  <2>3. CASE Head(posted).op # "add"
    <3>1. Erase(Head(posted).seq) /\ Head(posted).seq \in Seqs
      BY <1>3, <2>1, <2>3 DEF RunPosted, Posts
    <3> QED BY <1>a, <3>1, EraseOrder
  <2> QED BY <2>2, <2>3
<1>4. CASE RunTimer
  BY <1>4, <1>a, <1>b, EntryOfTimer DEF RunTimer
<1>5. CASE RunReturns
  <2>1. CASE currTimer_ \notin DOMAIN timers_
    BY <1>5, <1>b, <2>1 DEF RunReturns
  <2>2. CASE currTimer_ \in DOMAIN timers_ /\ timers_[currTimer_].interval # 0
    <3>1. /\ timers_' = [timers_ EXCEPT ![currTimer_].when = NextWhen(timers_[currTimer_])]
          /\ timersOrder_' = (timersOrder_ \ {<<timers_[currTimer_].when, currTimer_>>})
                                 \cup {<<NextWhen(timers_[currTimer_]), currTimer_>>}
      BY <1>5, <2>2 DEF RunReturns
    <3>2. /\ DOMAIN timers_' = DOMAIN timers_
          /\ \A t \in DOMAIN timers_ \ {currTimer_} : timers_'[t].when = timers_[t].when
          /\ timers_'[currTimer_].when = NextWhen(timers_[currTimer_])
      BY <1>a, <2>2, <3>1 DEF TypeOK
    <3> QED BY <1>a, <2>2, <3>1, <3>2 DEF OrderMatchesTimers, Entries
  <2>3. CASE currTimer_ \in DOMAIN timers_ /\ timers_[currTimer_].interval = 0
    <3>1. /\ timers_' = Restrict(timers_, DOMAIN timers_ \ {currTimer_})
          /\ timersOrder_' = timersOrder_ \ {<<timers_[currTimer_].when, currTimer_>>}
      BY <1>5, <2>3 DEF RunReturns
    <3> QED BY <1>a, <2>3, <3>1 DEF OrderMatchesTimers, Entries, Restrict
  <2> QED BY <2>1, <2>2, <2>3
<1>6. CASE \E u \in Threads : Remote(u)
  BY <1>6, <1>b DEF Remote, RemoteAdd, RemoteAddReturns, RemoteCancel
<1>7. CASE PollReturn \/ TurnEnd \/ HandleReadBegin \/ HandleReadEnd \/ Tick
  BY <1>7, <1>b DEF PollReturn, TurnEnd, HandleReadBegin, HandleReadEnd, Tick
<1>8. CASE (\E t \in ClockSteps : SetClock(t)) \/ UNCHANGED vars
  BY <1>8, <1>b DEF SetClock, vars
<1> QED BY <1>1, <1>2, <1>3, <1>4, <1>5, <1>6, <1>7, <1>8 DEF Next, LoopStep, Local
-----------------------------------------------------------------------------
\* What the queue looks like after a functor is added, and after one is taken.
LEMMA PostedAfter ==
    ASSUME posted \in Seq(Posts)
    PROVE  /\ \A p \in Posts : posted' = Append(posted, p) =>
                  /\ Adds' = IF p.op = "add" THEN Adds \cup {Len(posted) + 1} ELSE Adds
                  /\ Len(posted) + 1 \notin Adds
                  /\ posted'[Len(posted) + 1] = p
                  /\ \A i \in Adds : posted'[i] = posted[i]
           /\ posted # <<>> /\ posted' = Tail(posted) =>
                  /\ \A i \in Adds' : i + 1 \in Adds /\ i + 1 # 1 /\ posted'[i] = posted[i + 1]
                  /\ Adds' \subseteq Int
           /\ posted # <<>> => Head(posted) = posted[1] /\ (Head(posted).op = "add" => 1 \in Adds)
<1>1. ASSUME NEW p \in Posts, posted' = Append(posted, p)
      PROVE  /\ Adds' = IF p.op = "add" THEN Adds \cup {Len(posted) + 1} ELSE Adds
             /\ Len(posted) + 1 \notin Adds
             /\ posted'[Len(posted) + 1] = p
             /\ \A i \in Adds : posted'[i] = posted[i]
  <2>1. /\ DOMAIN posted' = DOMAIN posted \cup {Len(posted) + 1}
        /\ Len(posted) + 1 \notin DOMAIN posted
        /\ posted'[Len(posted) + 1] = p
        /\ \A i \in DOMAIN posted : posted'[i] = posted[i]
    BY <1>1
  <2> QED BY <2>1 DEF Adds
<1>2. ASSUME posted # <<>>, posted' = Tail(posted)
      PROVE  /\ \A i \in Adds' : i + 1 \in Adds /\ i + 1 # 1 /\ posted'[i] = posted[i + 1]
             /\ Adds' \subseteq Int
  <2>1. \A i \in DOMAIN posted' :
            i \in Int /\ i + 1 \in DOMAIN posted /\ i + 1 # 1 /\ posted'[i] = posted[i + 1]
    BY <1>2
  <2> QED BY <2>1 DEF Adds
<1>3. posted # <<>> => Head(posted) = posted[1] /\ 1 \in DOMAIN posted
  OBVIOUS
<1> QED BY <1>1, <1>2, <1>3 DEF Adds

\* Queued adds keep their numbers to themselves while no number is given back
\* and no timer with such a number appears.
LEMMA AddsKept ==
    ASSUME TypeOK, OneTimerPerNumber, posted' = posted, s_currSeq' \in Nat, s_currSeq' >= s_currSeq,
           \A s \in Seqs : s \in DOMAIN timers_' \cup cancelled' \cup {currTimer_'}
                             => s \in DOMAIN timers_ \cup cancelled \cup {currTimer_}
                                    \cup (Seqs \ (1..s_currSeq)),
           \A s \in Seqs \ DOMAIN timers_ : runs'[s] = runs[s]
    PROVE  \A i \in Adds' :
               /\ posted'[i].seq \in (1..s_currSeq') \ (DOMAIN timers_' \cup cancelled' \cup {currTimer_'})
               /\ runs'[posted'[i].seq] = 0
               /\ \A j \in Adds' : posted'[i].seq = posted'[j].seq => i = j
<1>1. Adds' = Adds
  BY DEF Adds
<1>2. \A i \in Adds : posted[i].seq \in Seqs
  <2>1. s_currSeq \in 0..MaxTimers
    BY DEF TypeOK
  <2>2. \A i \in Adds : posted[i].seq \in 1..s_currSeq
    BY DEF OneTimerPerNumber
  <2> QED BY <2>1, <2>2, TimerAssumption DEF Seqs
<1>3. s_currSeq \in Nat
  BY TimerAssumption DEF TypeOK
<1> QED BY <1>1, <1>2, <1>3 DEF OneTimerPerNumber

\* No step gives a number to a second timer.
LEMMA NumbersNext == TimerInv /\ [Next]_vars => OneTimerPerNumber'
<1> SUFFICES ASSUME TimerInv, [Next]_vars PROVE OneTimerPerNumber'
    OBVIOUS
<1> USE TimerAssumption
<1>a. TypeOK /\ OrderMatchesTimers /\ OneTimerPerNumber /\ posted \in Seq(Posts)
  BY DEF TimerInv, TypeOK, Posts
<1>b. s_currSeq \in Nat /\ DOMAIN timers_ \subseteq Seqs /\ DOMAIN timers_ \subseteq 1..s_currSeq
  BY <1>a DEF TypeOK, OneTimerPerNumber
<1>c. ASSUME UNCHANGED <<timers_, cancelTimer_, cancelled, currTimer_, runs, s_currSeq, posted>>
      PROVE  OneTimerPerNumber'
  BY <1>a, <1>c DEF OneTimerPerNumber, Adds
<1>1. ASSUME NEW when \in Whens, NEW i \in Intervals, LocalAdd(when, i)
      PROVE  OneTimerPerNumber'
  <2>1. /\ s_currSeq' = s_currSeq + 1 /\ s_currSeq' \in Seqs
        /\ Interval(i) \in Nat /\ when \in Nat /\ posted' = posted
    BY <1>1, <1>a, NewNumber, Arguments DEF LocalAdd
  <2>2. Insert(s_currSeq', when, Interval(i))
    BY <1>1 DEF LocalAdd
  <2>3. /\ DOMAIN timers_' = DOMAIN timers_ \cup {s_currSeq'}
        /\ UNCHANGED <<cancelTimer_, currTimer_, runs, cancelled>>
    BY <1>a, <2>1, <2>2, InsertTable
  <2>4. \A j \in Adds' :
            /\ posted'[j].seq \in (1..s_currSeq') \ (DOMAIN timers_' \cup cancelled' \cup {currTimer_'})
            /\ runs'[posted'[j].seq] = 0
            /\ \A k \in Adds' : posted'[j].seq = posted'[k].seq => j = k
    BY <1>a, <1>b, <2>1, <2>3, AddsKept
  <2>5. /\ DOMAIN timers_' \cup cancelTimer_' \cup cancelled' \subseteq 1..s_currSeq'
        /\ DOMAIN timers_' \cap cancelled' = {}
        /\ \A s \in Seqs : s > s_currSeq' => runs'[s] = 0
    BY <1>a, <1>b, <2>1, <2>3 DEF OneTimerPerNumber, Seqs
  <2> QED BY <2>4, <2>5 DEF OneTimerPerNumber
<1>2. ASSUME NEW s \in Seqs, LocalCancel(s) PROVE OneTimerPerNumber'
  <2>1. Erase(s) /\ UNCHANGED <<posted, s_currSeq>>
    BY <1>2 DEF LocalCancel
  <2>2. /\ DOMAIN timers_' = DOMAIN timers_ \ {s}
        /\ cancelTimer_' \subseteq cancelTimer_ \cup (DOMAIN timers_ \cap {s})
        /\ cancelled' = cancelled \cup (DOMAIN timers_ \cap {s})
        /\ UNCHANGED <<currTimer_, runs>>
    BY <1>a, <2>1, EraseTable
  <2>3. \A j \in Adds' :
            /\ posted'[j].seq \in (1..s_currSeq') \ (DOMAIN timers_' \cup cancelled' \cup {currTimer_'})
            /\ runs'[posted'[j].seq] = 0
            /\ \A k \in Adds' : posted'[j].seq = posted'[k].seq => j = k
    BY <1>a, <1>b, <2>1, <2>2, AddsKept
  <2>4. /\ DOMAIN timers_' \cup cancelTimer_' \cup cancelled' \subseteq 1..s_currSeq'
        /\ DOMAIN timers_' \cap cancelled' = {}
        /\ \A t \in Seqs : t > s_currSeq' => runs'[t] = 0
    BY <1>a, <1>b, <2>1, <2>2 DEF OneTimerPerNumber
  <2> QED BY <2>3, <2>4 DEF OneTimerPerNumber
<1>3. ASSUME NEW u \in Threads, NEW when \in Whens, NEW i \in Intervals, RemoteAdd(u, when, i)
      PROVE  OneTimerPerNumber'
  <2> DEFINE p == [op |-> "add", seq |-> s_currSeq', when |-> when, interval |-> Interval(i)]
  <2>1. /\ s_currSeq' = s_currSeq + 1 /\ s_currSeq' \in Seqs /\ p \in Posts
        /\ posted' = Append(posted, p)
        /\ UNCHANGED <<timers_, cancelTimer_, cancelled, currTimer_, runs>>
    <3>1. s_currSeq' = s_currSeq + 1 /\ s_currSeq' \in Seqs /\ Interval(i) \in Nat /\ when \in Nat
      BY <1>3, <1>a, NewNumber, Arguments DEF RemoteAdd
    <3> QED BY <1>3, <3>1 DEF RemoteAdd, Posts
  <2>2. /\ Adds' = Adds \cup {Len(posted) + 1}
        /\ posted'[Len(posted) + 1].seq = s_currSeq'
        /\ \A j \in Adds : posted'[j] = posted[j]
    <3>1. p.op = "add" /\ p.seq = s_currSeq'
      OBVIOUS
    <3> HIDE DEF p
    <3> QED BY <1>a, <2>1, <3>1, PostedAfter
  <2>3. currTimer_ <= s_currSeq /\ currTimer_ \in Nat
    BY <1>a, <1>b DEF TypeOK
  <2>4. runs[s_currSeq'] = 0
    BY <1>a, <1>b, <2>1 DEF OneTimerPerNumber
  <2>5. /\ DOMAIN timers_' \cup cancelTimer_' \cup cancelled' \subseteq 1..s_currSeq'
        /\ DOMAIN timers_' \cap cancelled' = {}
        /\ \A t \in Seqs : t > s_currSeq' => runs'[t] = 0
    BY <1>a, <1>b, <2>1 DEF OneTimerPerNumber, Seqs
  <2>6. s_currSeq' \notin DOMAIN timers_ \cup cancelled \cup {currTimer_}
    BY <1>a, <1>b, <2>1, <2>3 DEF OneTimerPerNumber
  <2> HIDE DEF p
  <2>7. \A j \in Adds : posted'[j].seq \in 1..s_currSeq /\ posted'[j].seq # s_currSeq'
    <3>1. s_currSeq' = s_currSeq + 1
      BY <2>1
    <3>2. \A j \in Adds : posted[j].seq \in 1..s_currSeq
      BY <1>a DEF OneTimerPerNumber
    <3> QED BY <1>b, <2>2, <3>1, <3>2
  <2>8. \A j \in Adds' :
            /\ posted'[j].seq \in (1..s_currSeq') \ (DOMAIN timers_' \cup cancelled' \cup {currTimer_'})
            /\ runs'[posted'[j].seq] = 0
    <3>1. ASSUME NEW j \in Adds
          PROVE  /\ posted'[j].seq \in (1..s_currSeq') \ (DOMAIN timers_' \cup cancelled' \cup {currTimer_'})
                 /\ runs'[posted'[j].seq] = 0
      <4>1. posted'[j] = posted[j] /\ posted'[j].seq \in 1..s_currSeq'
        <5>1. s_currSeq' = s_currSeq + 1
          BY <2>1
        <5> QED BY <1>b, <2>2, <2>7, <5>1
      <4> QED BY <1>a, <2>1, <4>1 DEF OneTimerPerNumber
    <3>2. s_currSeq' \in 1..s_currSeq'
      BY <1>b, <2>1
    <3>3. /\ posted'[Len(posted) + 1].seq \notin DOMAIN timers_' \cup cancelled' \cup {currTimer_'}
          /\ runs'[posted'[Len(posted) + 1].seq] = 0
      <4>1. UNCHANGED <<timers_, cancelled, currTimer_, runs>>
        BY <2>1
      <4> QED BY <2>2, <2>4, <2>6, <4>1
    <3> QED BY <2>2, <3>1, <3>2, <3>3
  <2>9. \A j, k \in Adds' : posted'[j].seq = posted'[k].seq => j = k
    BY <1>a, <2>2, <2>7 DEF OneTimerPerNumber
  <2> QED BY <2>5, <2>8, <2>9 DEF OneTimerPerNumber
<1>4. ASSUME NEW u \in Threads, RemoteCancel(u) PROVE OneTimerPerNumber'
  <2> DEFINE p == [op |-> "cancel", seq |-> ids[u], when |-> 0, interval |-> 0]
  <2>1. /\ p \in Posts /\ posted' = Append(posted, p)
        /\ UNCHANGED <<timers_, cancelTimer_, cancelled, currTimer_, runs, s_currSeq>>
    BY <1>4, <1>a DEF RemoteCancel, Posts, TypeOK, Seqs
  <2>2. Adds' = Adds /\ \A j \in Adds : posted'[j] = posted[j]
    <3>1. p.op = "cancel"
      OBVIOUS
    <3> HIDE DEF p
    <3> QED BY <1>a, <2>1, <3>1, PostedAfter
  <2> HIDE DEF p
  <2>3. UNCHANGED <<timers_, cancelTimer_, cancelled, currTimer_, runs, s_currSeq>>
    BY <2>1
  <2> QED BY <1>a, <2>2, <2>3 DEF OneTimerPerNumber
<1>5. CASE RunPosted
  <2> DEFINE s == Head(posted).seq
  <2>1. /\ Head(posted) \in Posts /\ posted # <<>> /\ posted' = Tail(posted)
        /\ s_currSeq' = s_currSeq /\ s \in Seqs
    BY <1>5, <1>a, PostedTypes DEF RunPosted, Posts
  <2>2. /\ \A i \in Adds' : i + 1 \in Adds /\ i + 1 # 1 /\ posted'[i] = posted[i + 1]
        /\ Adds' \subseteq Int
    BY <1>a, <2>1, PostedAfter
  <2>a. \A i, j \in Adds' : posted'[i].seq = posted'[j].seq => i = j
    <3>1. ASSUME NEW i \in Adds', NEW j \in Adds', posted'[i].seq = posted'[j].seq PROVE i = j
      <4>1. i + 1 = j + 1
        BY <1>a, <2>2, <3>1 DEF OneTimerPerNumber
      <4> QED BY <2>2, <4>1
    <3> QED BY <3>1
  <2>b. \A i \in Adds' :
            /\ posted'[i].seq \in (1..s_currSeq) \ (DOMAIN timers_ \cup cancelled \cup {currTimer_})
            /\ runs[posted'[i].seq] = 0
    BY <1>a, <2>2 DEF OneTimerPerNumber
  <2>3. CASE Head(posted).op = "add"
    <3>1. Insert(s, Head(posted).when, Head(posted).interval)
      BY <1>5, <2>3 DEF RunPosted
    <3>2. 1 \in Adds /\ posted[1].seq = s
      BY <1>a, <2>1, <2>3, PostedAfter
    <3>3. /\ s \in (1..s_currSeq) \ (DOMAIN timers_ \cup cancelled \cup {currTimer_})
          /\ \A i \in Adds : posted[i].seq = s => i = 1
      BY <1>a, <3>2 DEF OneTimerPerNumber
    <3>4. /\ DOMAIN timers_' = DOMAIN timers_ \cup {s}
          /\ UNCHANGED <<cancelTimer_, currTimer_, runs, cancelled>>
      BY <1>a, <2>1, <3>1, InsertTable DEF Posts
    <3> HIDE DEF s
    <3>5. \A i \in Adds' : posted'[i].seq # s
      BY <2>2, <3>3
    <3>6. /\ DOMAIN timers_' \cup cancelTimer_' \cup cancelled' \subseteq 1..s_currSeq'
          /\ DOMAIN timers_' \cap cancelled' = {}
          /\ \A t \in Seqs : t > s_currSeq' => runs'[t] = 0
      BY <1>a, <2>1, <3>3, <3>4 DEF OneTimerPerNumber
    <3>7. \A i \in Adds' :
            /\ posted'[i].seq \in (1..s_currSeq') \ (DOMAIN timers_' \cup cancelled' \cup {currTimer_'})
            /\ runs'[posted'[i].seq] = 0
      BY <2>1, <2>b, <3>4, <3>5
    <3> QED BY <2>a, <3>6, <3>7 DEF OneTimerPerNumber
  <2>4. CASE Head(posted).op # "add"
    <3>1. Erase(s)
      BY <1>5, <2>4 DEF RunPosted
    <3>2. /\ DOMAIN timers_' = DOMAIN timers_ \ {s}
          /\ cancelTimer_' \subseteq cancelTimer_ \cup (DOMAIN timers_ \cap {s})
          /\ cancelled' = cancelled \cup (DOMAIN timers_ \cap {s})
          /\ UNCHANGED <<currTimer_, runs>>
      BY <1>a, <2>1, <3>1, EraseTable
    <3> HIDE DEF s
    <3>3. /\ DOMAIN timers_' \cup cancelTimer_' \cup cancelled' \subseteq 1..s_currSeq'
          /\ DOMAIN timers_' \cap cancelled' = {}
          /\ \A t \in Seqs : t > s_currSeq' => runs'[t] = 0
      BY <1>a, <2>1, <3>2 DEF OneTimerPerNumber
    <3>4. \A i \in Adds' :
            /\ posted'[i].seq \in (1..s_currSeq') \ (DOMAIN timers_' \cup cancelled' \cup {currTimer_'})
            /\ runs'[posted'[i].seq] = 0
      BY <2>1, <2>b, <3>2
    <3> QED BY <2>a, <3>3, <3>4 DEF OneTimerPerNumber
  <2> QED BY <2>3, <2>4
<1>6. CASE RunTimer
  <2>1. PICK e \in timersOrder_ : currTimer_' = e[2] /\ e[2] \in DOMAIN timers_
                                  /\ runs' = [runs EXCEPT ![e[2]] = @ + 1]
    BY <1>6, <1>a, EntryOfTimer DEF RunTimer
  <2>2. UNCHANGED <<timers_, cancelTimer_, cancelled, s_currSeq, posted>>
    BY <1>6 DEF RunTimer
  <2>3. \A t \in Seqs \ DOMAIN timers_ : runs'[t] = runs[t]
    BY <1>a, <2>1 DEF TypeOK
  <2>4. \A j \in Adds' :
            /\ posted'[j].seq \in (1..s_currSeq') \ (DOMAIN timers_' \cup cancelled' \cup {currTimer_'})
            /\ runs'[posted'[j].seq] = 0
            /\ \A k \in Adds' : posted'[j].seq = posted'[k].seq => j = k
    BY <1>a, <1>b, <2>1, <2>2, <2>3, AddsKept
  <2>5. \A t \in Seqs : t > s_currSeq' => runs'[t] = 0
    BY <1>a, <1>b, <2>2, <2>3 DEF OneTimerPerNumber
  <2> QED BY <1>a, <2>2, <2>4, <2>5 DEF OneTimerPerNumber
<1>7. CASE RunReturns
  <2>1. /\ currTimer_' = 0 /\ DOMAIN timers_' \subseteq DOMAIN timers_
        /\ UNCHANGED <<cancelTimer_, cancelled, runs, s_currSeq, posted>>
    BY <1>7, <1>a DEF RunReturns, Restrict, TypeOK
  <2> QED BY <1>a, <1>b, <2>1 DEF OneTimerPerNumber, Adds
<1>8. CASE HandleReadEnd
  <2>1. /\ cancelTimer_' = {}
        /\ UNCHANGED <<timers_, currTimer_, cancelled, runs, s_currSeq, posted>>
    BY <1>8 DEF HandleReadEnd
  <2> QED BY <1>a, <2>1 DEF OneTimerPerNumber, Adds
<1>9. CASE PollReturn \/ TurnEnd \/ HandleReadBegin \/ Tick \/ UNCHANGED vars
  BY <1>9, <1>c DEF PollReturn, TurnEnd, HandleReadBegin, Tick, vars
<1>10. CASE \E t \in ClockSteps : SetClock(t)
  BY <1>10, <1>c DEF SetClock
<1>11. CASE \E u \in Threads : RemoteAddReturns(u)
  BY <1>11, <1>c DEF RemoteAddReturns
<1> QED BY <1>1, <1>2, <1>3, <1>4, <1>5, <1>6, <1>7, <1>8, <1>9, <1>10, <1>11
        DEF Next, LoopStep, Local, Remote

\* No step destroys the timer whose function runs.
LEMMA RunningNext == TimerInv /\ [Next]_vars => RunningTimerExists'
<1> SUFFICES ASSUME TimerInv, [Next]_vars PROVE RunningTimerExists'
    OBVIOUS
<1> USE TimerAssumption
<1>a. TypeOK /\ OrderMatchesTimers /\ posted \in Seq(Posts) /\ RunningTimerExists
  BY DEF TimerInv, TypeOK, Posts
<1>b. ASSUME NEW s \in Seqs, Erase(s), phase' = phase PROVE RunningTimerExists'
  <2>1. /\ DOMAIN timers_' = DOMAIN timers_ \ {s}
        /\ cancelTimer_' = IF s \in DOMAIN timers_ /\ s = currTimer_
                           THEN cancelTimer_ \cup {s} ELSE cancelTimer_
        /\ currTimer_' = currTimer_
    BY <1>a, <1>b, EraseTable
  <2> QED BY <1>a, <1>b, <2>1 DEF RunningTimerExists
<1>c. ASSUME NEW s \in Seqs, NEW when \in Nat, NEW i \in Nat, Insert(s, when, i), phase' = phase
      PROVE  RunningTimerExists'
  <2>1. /\ DOMAIN timers_' = DOMAIN timers_ \cup {s}
        /\ UNCHANGED <<cancelTimer_, currTimer_>>
    BY <1>a, <1>c, InsertTable
  <2> QED BY <1>a, <1>c, <2>1 DEF RunningTimerExists
<1>1. ASSUME NEW when \in Whens, NEW i \in Intervals, LocalAdd(when, i)
      PROVE  RunningTimerExists'
  <2>1. s_currSeq' \in Seqs /\ Interval(i) \in Nat /\ when \in Nat
    BY <1>1, <1>a, NewNumber, Arguments DEF LocalAdd
  <2> QED BY <1>1, <1>c, <2>1 DEF LocalAdd
<1>2. ASSUME NEW s \in Seqs, LocalCancel(s) PROVE RunningTimerExists'
  BY <1>2, <1>b DEF LocalCancel
<1>3. CASE RunPosted
  <2>1. /\ Head(posted).seq \in Seqs /\ phase' = phase
        /\ Head(posted).when \in Nat /\ Head(posted).interval \in Nat
    BY <1>3, <1>a, PostedTypes DEF RunPosted, Posts
  <2> QED BY <1>3, <1>b, <1>c, <2>1 DEF RunPosted
<1>4. CASE RunTimer
  <2>1. PICK e \in timersOrder_ : currTimer_' = e[2] /\ e[2] \in DOMAIN timers_ /\ phase' = "running"
    BY <1>4, <1>a, EntryOfTimer DEF RunTimer
  <2>2. e[2] # 0 /\ timers_' = timers_
    <3>1. e[2] \in Seqs
      BY <1>a, <2>1 DEF TypeOK
    <3> QED BY <1>4, <3>1 DEF Seqs, RunTimer
  <2> QED BY <2>1, <2>2 DEF RunningTimerExists
<1>5. CASE RunReturns \/ HandleReadEnd
  BY <1>5, <1>a DEF RunReturns, HandleReadEnd, RunningTimerExists
<1>6. CASE PollReturn \/ TurnEnd \/ HandleReadBegin \/ Tick \/ UNCHANGED vars
  BY <1>6, <1>a DEF PollReturn, TurnEnd, HandleReadBegin, Tick, vars, RunningTimerExists
<1>7. CASE \E t \in ClockSteps : SetClock(t)
  BY <1>7, <1>a DEF SetClock, RunningTimerExists
<1>8. CASE \E u \in Threads : Remote(u)
  BY <1>8, <1>a DEF Remote, RemoteAdd, RemoteAddReturns, RemoteCancel, RunningTimerExists
<1> QED BY <1>1, <1>2, <1>3, <1>4, <1>5, <1>6, <1>7, <1>8 DEF Next, LoopStep, Local
-----------------------------------------------------------------------------
\* The tables are consistent at every point of every execution: each number is
\* one timer's for ever, timersOrder_ has exactly the due times of timers_, and
\* the timer whose function runs has not been destroyed.
THEOREM TimerTables == Spec => []TimerInv
<1>1. Init => TimerInv
  BY TableInit
<1>2. TimerInv /\ [Next]_vars => TimerInv'
  BY TypeNext, NumbersNext, OrderNext, RunningNext DEF TimerInv
<1> QED BY <1>1, <1>2, PTL DEF Spec
-----------------------------------------------------------------------------
\* A cancel that found its timer is final, whatever else the loop does: the
\* entry handleRead runs is that of a timer owned, and a cancelled timer is not.
THEOREM CancelIsFinal == Spec => CancelledNeverRuns
<1>1. TimerInv /\ [Next]_vars => [\A s \in cancelled : runs'[s] = runs[s]]_vars
  <2> SUFFICES ASSUME TimerInv, [Next]_vars, NEW s \in cancelled PROVE runs'[s] = runs[s]
      OBVIOUS
  <2>a. TypeOK /\ OrderMatchesTimers /\ OneTimerPerNumber /\ posted \in Seq(Posts)
    BY DEF TimerInv, TypeOK, Posts
  <2>b. s \in Seqs /\ s \notin DOMAIN timers_
    BY <2>a DEF TypeOK, OneTimerPerNumber
  <2>1. CASE RunTimer
    <3>1. PICK e \in timersOrder_ : e[2] \in DOMAIN timers_ /\ runs' = [runs EXCEPT ![e[2]] = @ + 1]
      BY <2>1, <2>a, EntryOfTimer DEF RunTimer
    <3> QED BY <2>a, <2>b, <3>1 DEF TypeOK
  <2>2. CASE Local
    BY <2>2 DEF Local, LocalAdd, LocalCancel, Insert, Erase
  <2>3. CASE RunPosted
    BY <2>3 DEF RunPosted, Insert, Erase
  <2>4. CASE \E u \in Threads : Remote(u)
    BY <2>4 DEF Remote, RemoteAdd, RemoteAddReturns, RemoteCancel
  <2>5. CASE PollReturn \/ TurnEnd \/ HandleReadBegin \/ RunReturns \/ HandleReadEnd
    BY <2>5 DEF PollReturn, TurnEnd, HandleReadBegin, RunReturns, HandleReadEnd
  <2>6. CASE Tick \/ (\E t \in ClockSteps : SetClock(t)) \/ UNCHANGED vars
    BY <2>6 DEF Tick, SetClock, vars
  <2> QED BY <2>1, <2>2, <2>3, <2>4, <2>5, <2>6 DEF Next, LoopStep
<1>2. Init => TimerInv
  BY TableInit
<1>3. TimerInv /\ [Next]_vars => TimerInv'
  BY TypeNext, NumbersNext, OrderNext, RunningNext DEF TimerInv
<1> QED BY <1>1, <1>2, <1>3, PTL DEF Spec, CancelledNeverRuns
-----------------------------------------------------------------------------
\* The functor of addEvent leaves the timerfd armed: either the new timer is
\* the first and arms it, or another timer is there and it was armed.
LEMMA InsertArms ==
    ASSUME TimerInv, TimerArmed, NEW s \in Seqs, NEW when \in Nat, NEW interval \in Nat,
           Insert(s, when, interval), UNCHANGED <<phase, ready>>
    PROVE  TimerArmed'
<1>1. CASE DueFirst(when)
  <2>1. ResetTimerfd(when) /\ now \in Nat
    BY <1>1 DEF Insert, TimerInv, TypeOK
  <2>2. fdLeft' \in Nat \ {0}
    BY <2>1, ResetArms
  <2> QED BY <2>2 DEF TimerArmed
<1>2. CASE ~DueFirst(when)
  <2>1. UNCHANGED fdVars
    BY <1>2 DEF Insert
  <2>2. phase = "running" \/ timersOrder_ # {}
    BY <1>2 DEF DueFirst, TimerInv, RunningTimerExists
  <2> QED BY <2>1, <2>2 DEF TimerArmed
<1> QED BY <1>1, <1>2

\* The functor of cancelEvent arms it for the timer that is now first, or does
\* not touch it.
LEMMA EraseArms ==
    ASSUME TimerInv, TimerArmed, NEW s \in Seqs, Erase(s), UNCHANGED <<phase, ready>>
    PROVE  TimerArmed'
<1>1. CASE UNCHANGED fdVars
  <2>1. timersOrder_' \subseteq timersOrder_
    BY EraseTable DEF TimerInv
  <2> QED BY <1>1, <2>1 DEF TimerArmed
<1>2. CASE \E e \in timersOrder_' : ResetTimerfd(e[1])
  <2>1. PICK e \in timersOrder_' : ResetTimerfd(e[1])
    BY <1>2
  <2>2. e \in timersOrder_
    BY EraseTable DEF TimerInv
  <2>3. e[1] \in Nat /\ now \in Nat
    BY <2>2, EntryOfTimer DEF TimerInv, TypeOK
  <2>4. fdLeft' \in Nat \ {0}
    BY <2>1, <2>3, ResetArms
  <2> QED BY <2>4 DEF TimerArmed
<1> QED BY <1>1, <1>2 DEF Erase

\* handleRead follows in the turn whose poll reported the timerfd.
ReadyInTurn == ready => phase = "turn"

\* No step but PollReturn reports the timerfd.
LEMMA ReadyNext == ReadyInTurn /\ [Next]_vars => ReadyInTurn'
<1> SUFFICES ASSUME ReadyInTurn, [Next]_vars PROVE ReadyInTurn'
    OBVIOUS
<1>1. CASE Local \/ RunPosted
  <2>1. UNCHANGED <<ready, phase>>
    BY <1>1 DEF Local, LocalAdd, LocalCancel, RunPosted
  <2> QED BY <2>1 DEF ReadyInTurn
<1>2. CASE \E u \in Threads : Remote(u)
  <2>1. UNCHANGED <<ready, phase>>
    BY <1>2 DEF Remote, RemoteAdd, RemoteAddReturns, RemoteCancel
  <2> QED BY <2>1 DEF ReadyInTurn
<1>3. CASE PollReturn \/ TurnEnd \/ HandleReadBegin
  BY <1>3 DEF PollReturn, TurnEnd, HandleReadBegin, ReadyInTurn
<1>4. CASE RunTimer \/ RunReturns \/ HandleReadEnd
  BY <1>4 DEF RunTimer, RunReturns, HandleReadEnd, ReadyInTurn
<1>5. CASE Tick \/ (\E t \in ClockSteps : SetClock(t)) \/ UNCHANGED vars
  BY <1>5 DEF Tick, SetClock, vars, ReadyInTurn
<1> QED BY <1>1, <1>2, <1>3, <1>4, <1>5 DEF Next, LoopStep

\* No step leaves a pending timer with a timerfd that is neither expired nor
\* counting.
LEMMA ArmedNext == TimerInv /\ ReadyInTurn /\ TimerArmed /\ [Next]_vars => TimerArmed'
<1> SUFFICES ASSUME TimerInv, ReadyInTurn, TimerArmed, [Next]_vars PROVE TimerArmed'
    OBVIOUS
<1> USE TimerAssumption
<1>a. TypeOK /\ OrderMatchesTimers /\ posted \in Seq(Posts)
  BY DEF TimerInv, TypeOK, Posts
<1>1. ASSUME NEW when \in Whens, NEW i \in Intervals, LocalAdd(when, i) PROVE TimerArmed'
  <2>1. s_currSeq' \in Seqs /\ Interval(i) \in Nat /\ when \in Nat
    BY <1>1, <1>a, NewNumber, Arguments DEF LocalAdd
  <2> QED BY <1>1, <2>1, InsertArms DEF LocalAdd
<1>2. ASSUME NEW s \in Seqs, LocalCancel(s) PROVE TimerArmed'
  BY <1>2, EraseArms DEF LocalCancel
<1>3. CASE RunPosted
  <2>1. /\ Head(posted).seq \in Seqs /\ UNCHANGED <<phase, ready>>
        /\ Head(posted).when \in Nat /\ Head(posted).interval \in Nat
    BY <1>3, <1>a, PostedTypes DEF RunPosted, Posts
  <2> QED BY <1>3, <2>1, InsertArms, EraseArms DEF RunPosted
<1>4. CASE HandleReadEnd
  <2>1. CASE timersOrder_ = {}
    BY <1>4, <2>1 DEF HandleReadEnd, TimerArmed
  <2>2. CASE timersOrder_ # {}
    <3>1. PICK e \in timersOrder_ : ResetTimerfd(e[1])
      BY <1>4, <2>2 DEF HandleReadEnd, Rearm
    <3>2. e[1] \in Nat /\ now \in Nat
      BY <1>a, EntryOfTimer DEF TypeOK
    <3>3. fdLeft' \in Nat \ {0}
      BY <3>1, <3>2, ResetArms
    <3> QED BY <3>3 DEF TimerArmed
  <2> QED BY <2>1, <2>2
<1>5. CASE HandleReadBegin \/ RunTimer \/ RunReturns
  BY <1>5 DEF HandleReadBegin, RunTimer, RunReturns, TimerArmed
<1>6. CASE PollReturn
  <2>1. phase = "poll" /\ ready' = readable /\ UNCHANGED <<timersOrder_, fdLeft, readable>>
    BY <1>6 DEF PollReturn
  <2>2. readable \in BOOLEAN /\ ready \in BOOLEAN /\ fdLeft \in Nat
    BY <1>a DEF TypeOK
  <2>3. CASE readable
    BY <2>1, <2>3 DEF TimerArmed
  <2>4. CASE ~readable /\ ~ready
    BY <2>1, <2>4 DEF TimerArmed
  <2>5. ~ready
    BY <2>1 DEF ReadyInTurn
  <2> QED BY <2>2, <2>3, <2>4, <2>5
<1>10. CASE TurnEnd
  <2>1. phase = "turn" /\ ~ready /\ UNCHANGED <<timersOrder_, fdVars>>
    BY <1>10 DEF TurnEnd
  <2> QED BY <2>1 DEF TimerArmed
<1>7. CASE Tick
  <2>1. UNCHANGED <<phase, ready, timersOrder_>> /\ (readable => readable')
    BY <1>7 DEF Tick
  <2>2. fdLeft > 0 => readable' \/ fdLeft' > 0
    <3>1. CASE fdLeft = 1
      <4>1. readable' = (readable \/ fdLeft = 1)
        BY <1>7 DEF Tick
      <4> QED BY <3>1, <4>1
    <3>2. CASE fdLeft > 1
      <4>1. fdLeft' = fdLeft - 1 /\ fdLeft \in Nat
        BY <1>7, <1>a, <3>2 DEF Tick, TypeOK
      <4> QED BY <3>2, <4>1
    <3>3. fdLeft \in Nat
      BY <1>a DEF TypeOK
    <3> QED BY <3>1, <3>2, <3>3
  <2> QED BY <2>1, <2>2 DEF TimerArmed
<1>8. CASE (\E t \in ClockSteps : SetClock(t)) \/ UNCHANGED vars
  BY <1>8 DEF SetClock, vars, TimerArmed
<1>9. CASE \E u \in Threads : Remote(u)
  <2>1. UNCHANGED <<phase, ready, timersOrder_, fdLeft, readable>>
    BY <1>9 DEF Remote, RemoteAdd, RemoteAddReturns, RemoteCancel
  <2> QED BY <2>1 DEF TimerArmed
<1> QED BY <1>1, <1>2, <1>3, <1>4, <1>5, <1>6, <1>7, <1>8, <1>9, <1>10 DEF Next, LoopStep, Local

\* No pending timer is ever forgotten: when the loop is about to poll, the
\* timerfd has expired or is counting.
THEOREM PendingTimerArmed == Spec => []TimerArmed
<1>1. Init => TimerInv /\ ReadyInTurn /\ TimerArmed
  BY TableInit DEF Init, ReadyInTurn, TimerArmed
<1>2. TimerInv /\ ReadyInTurn /\ TimerArmed /\ [Next]_vars
          => (TimerInv /\ ReadyInTurn /\ TimerArmed)'
  BY TypeNext, NumbersNext, OrderNext, RunningNext, ReadyNext, ArmedNext DEF TimerInv
<1> QED BY <1>1, <1>2, PTL DEF Spec
-----------------------------------------------------------------------------
\* RunsAccountedFor, for one timer that has run n times.
Accounted(timer, first, n) ==
    /\ timer.when = first + n * timer.interval
    /\ timer.interval = 0 => n = 0

Done(s) == IF s = currTimer_ THEN runs[s] - 1 ELSE runs[s]

\* RunsAccountedFor, taken apart by timer.
LEMMA AccountedEach ==
    RunsAccountedFor <=> \A s \in DOMAIN timers_ : Accounted(timers_[s], begin[s], Done(s))
BY DEF RunsAccountedFor, Accounted, Done

\* ... and in the next state.
LEMMA AccountedEachNext ==
    RunsAccountedFor' <=> \A s \in DOMAIN timers_' : Accounted(timers_'[s], begin'[s], Done(s)')
BY DEF RunsAccountedFor, Accounted, Done

\* One more period.
LEMMA OnePeriodMore ==
    ASSUME NEW first \in Nat, NEW n \in Int, NEW i \in Nat
    PROVE  (first + n * i) + i = first + (n + 1) * i
OBVIOUS

\* A timer that is added has its first period before it.
LEMMA InsertAccounted ==
    ASSUME TypeOK, RunsAccountedFor, NEW s \in Seqs, NEW when \in Nat, NEW interval \in Nat,
           Insert(s, when, interval), runs[s] = 0, s # currTimer_, s \notin DOMAIN timers_
    PROVE  RunsAccountedFor'
<1>1. /\ DOMAIN timers_' = DOMAIN timers_ \cup {s}
      /\ timers_'[s] = [when |-> when, interval |-> interval]
      /\ \A t \in DOMAIN timers_ : timers_'[t] = timers_[t]
      /\ begin' = [begin EXCEPT ![s] = when]
      /\ currTimer_' = currTimer_ /\ runs' = runs
  <2>1. /\ DOMAIN timers_' = DOMAIN timers_ \cup {s}
        /\ timers_'[s] = [when |-> when, interval |-> interval]
        /\ \A t \in DOMAIN timers_ \ {s} : timers_'[t] = timers_[t]
        /\ begin' = [begin EXCEPT ![s] = when]
        /\ UNCHANGED <<currTimer_, runs>>
    BY InsertTable
  <2> QED BY <2>1
<1>2. begin \in [Seqs -> Nat] /\ DOMAIN timers_ \subseteq Seqs
  BY DEF TypeOK
<1>3. ASSUME NEW t \in DOMAIN timers_ PROVE Accounted(timers_'[t], begin'[t], Done(t)')
  <2>1. begin'[t] = begin[t] /\ Done(t)' = Done(t)
    BY <1>1, <1>2 DEF Done
  <2> QED BY <1>1, <2>1, AccountedEach
<1>4. Accounted(timers_'[s], begin'[s], Done(s)')
  <2>1. begin'[s] = when /\ Done(s)' = 0
    BY <1>1, <1>2 DEF Done
  <2> QED BY <1>1, <2>1 DEF Accounted
<1> QED BY <1>1, <1>3, <1>4, AccountedEachNext

\* Cancelling a timer leaves the accounts of the others.
LEMMA EraseAccounted ==
    ASSUME TypeOK, OrderMatchesTimers, RunsAccountedFor, NEW s \in Seqs, Erase(s)
    PROVE  RunsAccountedFor'
<1>1. /\ DOMAIN timers_' = DOMAIN timers_ \ {s}
      /\ \A t \in DOMAIN timers_' : timers_'[t] = timers_[t]
      /\ UNCHANGED <<currTimer_, begin, runs>>
  BY EraseTable
<1> QED BY <1>1, AccountedEach, AccountedEachNext DEF Done

\* No step loses or adds a period.
LEMMA AccountedNext == TimerInv /\ RunsAccountedFor /\ [Next]_vars => RunsAccountedFor'
<1> SUFFICES ASSUME TimerInv, RunsAccountedFor, [Next]_vars PROVE RunsAccountedFor'
    OBVIOUS
<1> USE TimerAssumption
<1>a. TypeOK /\ OrderMatchesTimers /\ OneTimerPerNumber /\ RunningTimerExists /\ posted \in Seq(Posts)
  BY DEF TimerInv, TypeOK, Posts
<1>b. UNCHANGED <<timers_, begin, runs, currTimer_>> => RunsAccountedFor'
  BY DEF RunsAccountedFor
<1>1. ASSUME NEW when \in Whens, NEW i \in Intervals, LocalAdd(when, i) PROVE RunsAccountedFor'
  <2>1. /\ s_currSeq' = s_currSeq + 1 /\ s_currSeq \in Nat /\ currTimer_ \in 0..s_currSeq
        /\ s_currSeq' \in Seqs /\ Interval(i) \in Nat /\ when \in Nat
    <3>1. currTimer_ \in 0..s_currSeq
      BY <1>a DEF TypeOK
    <3> QED BY <1>1, <1>a, <3>1, NewNumber, Arguments DEF LocalAdd
  <2>2. Insert(s_currSeq', when, Interval(i))
    BY <1>1 DEF LocalAdd
  <2>3. s_currSeq' # currTimer_ /\ s_currSeq' \notin DOMAIN timers_ /\ runs[s_currSeq'] = 0
    BY <1>a, <2>1 DEF OneTimerPerNumber
  <2> QED BY <1>a, <2>1, <2>2, <2>3, InsertAccounted
<1>2. ASSUME NEW s \in Seqs, LocalCancel(s) PROVE RunsAccountedFor'
  BY <1>2, <1>a, EraseAccounted DEF LocalCancel
<1>3. CASE RunPosted
  <2> DEFINE s == Head(posted).seq
  <2>1. /\ posted # <<>> /\ s \in Seqs
        /\ Head(posted).when \in Nat /\ Head(posted).interval \in Nat
    BY <1>3, <1>a, PostedTypes DEF RunPosted, Posts
  <2>2. CASE Head(posted).op = "add"
    <3>1. Insert(s, Head(posted).when, Head(posted).interval)
      BY <1>3, <2>2 DEF RunPosted
    <3>2. 1 \in Adds /\ posted[1].seq = s
      BY <1>a, <2>1, <2>2, PostedAfter
    <3>3. s # currTimer_ /\ s \notin DOMAIN timers_ /\ runs[s] = 0
      BY <1>a, <3>2 DEF OneTimerPerNumber
    <3> HIDE DEF s
    <3> QED BY <1>a, <2>1, <3>1, <3>3, InsertAccounted
  <2>3. CASE Head(posted).op # "add"
    BY <1>3, <1>a, <2>1, <2>3, EraseAccounted DEF RunPosted
  <2> QED BY <2>2, <2>3
<1>4. CASE RunTimer
  <2>1. PICK e \in timersOrder_ : currTimer_' = e[2] /\ e[2] \in DOMAIN timers_
                                  /\ runs' = [runs EXCEPT ![e[2]] = @ + 1]
    BY <1>4, <1>a, EntryOfTimer DEF RunTimer
  <2>2. UNCHANGED <<timers_, begin>> /\ currTimer_ = 0
    BY <1>4, <1>a DEF RunTimer, RunningTimerExists
  <2>3. ASSUME NEW s \in DOMAIN timers_ PROVE Done(s)' = Done(s)
    <3>1. s # 0 /\ s \in Seqs /\ runs \in [Seqs -> Nat]
      BY <1>a DEF TypeOK, Seqs
    <3> QED BY <2>1, <2>2, <3>1 DEF Done
  <2> QED BY <2>2, <2>3, AccountedEach, AccountedEachNext
<1>5. CASE RunReturns
  <2>a. PICK c : c = currTimer_
    OBVIOUS
  <2>1. currTimer_' = 0 /\ UNCHANGED <<begin, runs>>
    BY <1>5 DEF RunReturns
  <2>2. ASSUME NEW s \in DOMAIN timers_ \ {c}, timers_'[s] = timers_[s]
        PROVE  Accounted(timers_'[s], begin'[s], Done(s)')
    <3>1. s # 0
      BY <1>a DEF TypeOK, Seqs
    <3> QED BY <2>a, <2>1, <2>2, <3>1, AccountedEach DEF Done
  <2>3. CASE c \notin DOMAIN timers_
    BY <1>5, <2>a, <2>2, <2>3, AccountedEachNext DEF RunReturns
  <2>4. CASE c \in DOMAIN timers_ /\ timers_[c].interval # 0
    <3>1. timers_' = [timers_ EXCEPT ![c].when = NextWhen(timers_[c])]
      BY <1>5, <2>a, <2>4 DEF RunReturns
    <3>2. /\ c \in Seqs /\ c # 0 /\ runs[c] \in Nat /\ begin[c] \in Nat
          /\ timers_[c] \in [when : Nat, interval : Nat]
      BY <1>a, <2>a, <2>4 DEF TypeOK, Seqs
    <3>3. /\ DOMAIN timers_' = DOMAIN timers_
          /\ \A s \in DOMAIN timers_ \ {c} : timers_'[s] = timers_[s]
          /\ timers_'[c].when = timers_[c].when + timers_[c].interval
          /\ timers_'[c].interval = timers_[c].interval
      BY <1>a, <2>4, <3>1, <3>2 DEF NextWhen
    <3>4. timers_[c].when = begin[c] + (runs[c] - 1) * timers_[c].interval
      BY <2>a, <2>4, AccountedEach DEF Accounted, Done
    <3>5. (begin[c] + (runs[c] - 1) * timers_[c].interval) + timers_[c].interval
              = begin[c] + ((runs[c] - 1) + 1) * timers_[c].interval
      BY <3>2, OnePeriodMore
    <3>6. Done(c)' = runs[c] /\ (runs[c] - 1) + 1 = runs[c]
      BY <2>1, <3>2 DEF Done
    <3>7. timers_'[c].when = begin[c] + runs[c] * timers_[c].interval
      BY <3>3, <3>4, <3>5, <3>6
    <3>8. Accounted(timers_'[c], begin'[c], Done(c)')
      BY <2>1, <2>4, <3>3, <3>6, <3>7 DEF Accounted
    <3> QED BY <2>2, <3>3, <3>8, AccountedEachNext
  <2>5. CASE c \in DOMAIN timers_ /\ timers_[c].interval = 0
    <3>1. timers_' = Restrict(timers_, DOMAIN timers_ \ {c})
      BY <1>5, <2>a, <2>5 DEF RunReturns
    <3>2. /\ DOMAIN timers_' = DOMAIN timers_ \ {c}
          /\ \A s \in DOMAIN timers_' : timers_'[s] = timers_[s]
      BY <3>1 DEF Restrict
    <3> QED BY <2>2, <3>2, AccountedEachNext
  <2> QED BY <2>3, <2>4, <2>5
<1>6. CASE \E u \in Threads : Remote(u)
  BY <1>6, <1>b DEF Remote, RemoteAdd, RemoteAddReturns, RemoteCancel
<1>7. CASE PollReturn \/ TurnEnd \/ HandleReadBegin \/ HandleReadEnd \/ Tick
  BY <1>7, <1>b DEF PollReturn, TurnEnd, HandleReadBegin, HandleReadEnd, Tick
<1>8. CASE (\E t \in ClockSteps : SetClock(t)) \/ UNCHANGED vars
  BY <1>8, <1>b DEF SetClock, vars
<1> QED BY <1>1, <1>2, <1>3, <1>4, <1>5, <1>6, <1>7, <1>8 DEF Next, LoopStep, Local

\* A repeating timer neither drifts nor skips nor repeats a period, whatever
\* the delays of its runs and the movements of the wall clock.
THEOREM NoDrift == Spec => []RunsAccountedFor
<1>1. Init => TimerInv /\ RunsAccountedFor
  BY TableInit DEF Init, RunsAccountedFor
<1>2. TimerInv /\ RunsAccountedFor /\ [Next]_vars => (TimerInv /\ RunsAccountedFor)'
  BY TypeNext, NumbersNext, OrderNext, RunningNext, AccountedNext DEF TimerInv
<1> QED BY <1>1, <1>2, PTL DEF Spec
-----------------------------------------------------------------------------
(* Punctual holds as long as nobody sets the wall clock forward.           *)

\* The timerfd expires no later than `due', or at the next tick.
Covered(due) == readable \/ (0 < fdLeft /\ (fdLeft = 1 \/ fdLeft <= due - now))

\* The loop is where TimerArmed and Punctual look at it.
Rests == phase \in {"poll", "turn"} /\ ~ready

NotForward == now' > now => Tick

\* Arming the timerfd for a time covers that time and all later ones.
LEMMA ResetCovers ==
    ASSUME now \in Nat, NEW when \in Nat, ResetTimerfd(when), now' = now,
           NEW due \in Nat, when <= due
    PROVE  Covered(due)'
BY DEF ResetTimerfd, Covered

\* Leaving it alone keeps what it covered, also when the clock is set back.
LEMMA StaysCovered ==
    ASSUME TypeOK, UNCHANGED fdVars, now' \in Nat, now' <= now,
           NEW due \in Nat, Covered(due), NEW later \in Nat, due <= later
    PROVE  Covered(later)'
<1>1. now \in Nat /\ fdLeft \in Nat
  BY DEF TypeOK
<1>2. fdLeft' = fdLeft /\ readable' = readable
  BY DEF fdVars
<1>3. CASE readable
  BY <1>2, <1>3 DEF Covered
<1>4. CASE ~readable
  <2>1. 0 < fdLeft /\ (fdLeft = 1 \/ fdLeft <= due - now)
    BY <1>4 DEF Covered
  <2>2. fdLeft <= due - now => fdLeft <= later - now'
    <3>1. PICK n \in Nat : n = now'
      OBVIOUS
    <3>2. n <= now
      BY <3>1
    <3>3. fdLeft <= due - now => fdLeft <= later - n
      BY <1>1, <3>2
    <3> QED BY <3>1, <3>3
  <2> QED BY <1>2, <2>1, <2>2 DEF Covered
<1> QED BY <1>3, <1>4

LEMMA TickCovers ==
    ASSUME TypeOK, Tick, NEW due \in Nat, Covered(due)
    PROVE  Covered(due)'
<1>1. now \in Nat /\ fdLeft \in Nat
  BY DEF TypeOK
<1>2. /\ now' <= now + 1 /\ now' \in Nat
      /\ readable => readable'
      /\ fdLeft = 1 => readable'
  <2>1. now' <= now + 1 /\ now' \in Nat
    BY <1>1 DEF Tick
  <2>2. readable' = (readable \/ fdLeft = 1)
    BY DEF Tick
  <2> QED BY <2>1, <2>2
<1>3. fdLeft > 0 => fdLeft' = fdLeft - 1
  BY DEF Tick
<1>4. CASE readable \/ fdLeft = 1
  BY <1>2, <1>4 DEF Covered
<1>5. CASE ~readable /\ fdLeft # 1
  <2>1. fdLeft > 1 /\ fdLeft <= due - now
    BY <1>1, <1>5 DEF Covered
  <2>2. 0 < fdLeft' /\ fdLeft' <= due - now'
    BY <1>1, <1>2, <1>3, <2>1
  <2> QED BY <2>2 DEF Covered
<1> QED BY <1>4, <1>5

\* The first entry of the ordered set is not due after any other.
LEMMA FirstIsEarliest ==
    ASSUME NEW order, NEW e, IsFirst(e, order), NEW f \in order,
           e[1] \in Nat, f[1] \in Nat
    PROVE  e[1] <= f[1]
BY DEF IsFirst, Before

\* The functor of addEvent arms the timerfd for a timer that is due first; any
\* other is due no earlier than one that is covered.
LEMMA InsertCovers ==
    ASSUME TimerInv, Punctual, NEW s \in Seqs, NEW when \in Nat, NEW interval \in Nat,
           Insert(s, when, interval), UNCHANGED <<phase, ready, now>>
    PROVE  Punctual'
<1> SUFFICES ASSUME Rests, NEW e \in timersOrder_' PROVE Covered(e[1])'
  BY DEF Punctual, Covered, Rests
<1>1. TypeOK /\ OrderMatchesTimers /\ RunningTimerExists /\ now \in Nat /\ now' = now
  BY DEF TimerInv, TypeOK
<1>2. timersOrder_' = timersOrder_ \cup {<<when, s>>}
  BY <1>1, InsertTable
<1>3. \A f \in timersOrder_ : f[1] \in Nat /\ Covered(f[1])
  BY <1>1, EntryOfTimer DEF Punctual, Covered, Rests
<1>4. CASE DueFirst(when)
  <2>1. ResetTimerfd(when)
    BY <1>4 DEF Insert
  <2>2. e[1] \in Nat /\ when <= e[1]
    BY <1>2, <1>3, <1>4 DEF DueFirst
  <2> QED BY <1>1, <2>1, <2>2, ResetCovers
<1>5. CASE ~DueFirst(when)
  <2>1. UNCHANGED fdVars
    BY <1>5 DEF Insert
  <2>2. currTimer_ = 0
    BY <1>1 DEF RunningTimerExists, Rests
  <2>3. PICK f \in timersOrder_ : ~(f[1] > when)
    BY <1>5, <2>2 DEF DueFirst
  <2>4. now' \in Nat /\ now' <= now
    BY <1>1
  <2>5. CASE e \in timersOrder_
    <3>1. e[1] \in Nat /\ Covered(e[1]) /\ e[1] <= e[1]
      BY <1>3, <2>5
    <3> QED BY <1>1, <2>1, <2>4, <3>1, StaysCovered
  <2>6. CASE e = <<when, s>>
    <3>1. f[1] \in Nat /\ Covered(f[1]) /\ e[1] = when /\ f[1] <= when
      BY <1>3, <2>3, <2>6
    <3>2. Covered(when)'
      BY <1>1, <2>1, <2>4, <3>1, StaysCovered
    <3> QED BY <3>1, <3>2
  <2> QED BY <1>2, <2>5, <2>6
<1> QED BY <1>4, <1>5

\* The functor of cancelEvent arms it for the first timer left, or does not
\* touch it.
LEMMA EraseCovers ==
    ASSUME TimerInv, Punctual, NEW s \in Seqs, Erase(s), UNCHANGED <<phase, ready, now>>
    PROVE  Punctual'
<1> SUFFICES ASSUME Rests, NEW e \in timersOrder_' PROVE Covered(e[1])'
  BY DEF Punctual, Covered, Rests
<1>1. TypeOK /\ OrderMatchesTimers /\ now \in Nat /\ now' = now
  BY DEF TimerInv, TypeOK
<1>2. timersOrder_' \subseteq timersOrder_
  BY <1>1, EraseTable
<1>3. \A f \in timersOrder_ : f[1] \in Nat /\ Covered(f[1])
  BY <1>1, EntryOfTimer DEF Punctual, Covered, Rests
<1>4. CASE UNCHANGED fdVars
  <2>1. e[1] \in Nat /\ Covered(e[1]) /\ e[1] <= e[1] /\ now' \in Nat /\ now' <= now
    BY <1>1, <1>2, <1>3
  <2> QED BY <1>1, <1>4, <2>1, StaysCovered
<1>5. CASE \E f \in timersOrder_' : IsFirst(f, timersOrder_') /\ ResetTimerfd(f[1])
  <2>1. PICK f \in timersOrder_' : IsFirst(f, timersOrder_') /\ ResetTimerfd(f[1])
    BY <1>5
  <2>2. f[1] \in Nat /\ e[1] \in Nat
    BY <1>2, <1>3, <2>1
  <2>3. f[1] <= e[1]
    BY <2>1, <2>2, FirstIsEarliest
  <2> QED BY <1>1, <2>1, <2>2, <2>3, ResetCovers
<1> QED BY <1>4, <1>5 DEF Erase

\* No step but a clock set forward makes the timerfd late.
LEMMA PunctualNext ==
    TimerInv /\ ReadyInTurn /\ Punctual /\ [Next]_vars /\ [NotForward]_vars => Punctual'
<1> SUFFICES ASSUME TimerInv, ReadyInTurn, Punctual, [Next]_vars, [NotForward]_vars
             PROVE  Punctual'
    OBVIOUS
<1> USE TimerAssumption
<1>a. TypeOK /\ OrderMatchesTimers /\ posted \in Seq(Posts) /\ now \in Nat
  BY DEF TimerInv, TypeOK, Posts
<1>b. \A f \in timersOrder_ : f[1] \in Nat
  BY <1>a, EntryOfTimer
<1>1. ASSUME NEW when \in Whens, NEW i \in Intervals, LocalAdd(when, i) PROVE Punctual'
  <2>1. s_currSeq' \in Seqs /\ Interval(i) \in Nat /\ when \in Nat
    BY <1>1, <1>a, NewNumber, Arguments DEF LocalAdd
  <2> QED BY <1>1, <2>1, InsertCovers DEF LocalAdd
<1>2. ASSUME NEW s \in Seqs, LocalCancel(s) PROVE Punctual'
  BY <1>2, EraseCovers DEF LocalCancel
<1>3. CASE RunPosted
  <2>1. /\ Head(posted).seq \in Seqs /\ UNCHANGED <<phase, ready, now>>
        /\ Head(posted).when \in Nat /\ Head(posted).interval \in Nat
    BY <1>3, <1>a, PostedTypes DEF RunPosted, Posts
  <2> QED BY <1>3, <2>1, InsertCovers, EraseCovers DEF RunPosted
<1>4. CASE HandleReadEnd
  <2> SUFFICES ASSUME NEW e \in timersOrder_ PROVE Covered(e[1])'
    BY <1>4 DEF HandleReadEnd, Punctual, Covered
  <2>1. PICK f \in timersOrder_ : IsFirst(f, timersOrder_) /\ ResetTimerfd(f[1])
    BY <1>4 DEF HandleReadEnd, Rearm
  <2>2. f[1] <= e[1] /\ f[1] \in Nat /\ e[1] \in Nat /\ now' = now
    BY <1>4, <1>b, <2>1, FirstIsEarliest DEF HandleReadEnd
  <2> QED BY <1>a, <2>1, <2>2, ResetCovers
<1>5. CASE HandleReadBegin \/ RunTimer \/ RunReturns
  BY <1>5 DEF HandleReadBegin, RunTimer, RunReturns, Punctual
<1>6. CASE PollReturn
  <2>1. phase = "poll" /\ ready' = readable /\ UNCHANGED <<timersOrder_, fdLeft, readable, now>>
    BY <1>6 DEF PollReturn, tableVars, fdVars
  <2>2. ~ready /\ readable \in BOOLEAN
    BY <1>a, <2>1 DEF ReadyInTurn, TypeOK
  <2> QED BY <2>1, <2>2 DEF Punctual
<1>7. CASE TurnEnd
  BY <1>7 DEF TurnEnd, tableVars, fdVars, Punctual
<1>8. CASE Tick
  <2> SUFFICES ASSUME Rests, NEW e \in timersOrder_ PROVE Covered(e[1])'
    BY <1>8 DEF Tick, tableVars, Punctual, Covered, Rests
  <2>1. e[1] \in Nat /\ Covered(e[1])
    BY <1>b DEF Punctual, Covered, Rests
  <2> QED BY <1>8, <1>a, <2>1, TickCovers
<1>9. ASSUME NEW t \in ClockSteps, SetClock(t) PROVE Punctual'
  <2>1. now' = t /\ t \in Nat /\ UNCHANGED <<timersOrder_, fdVars, phase, ready>>
    BY <1>9 DEF SetClock, tableVars
  <2>2. CASE Tick
    BY <1>8, <2>2
  <2>3. CASE ~Tick
    <3>1. now' <= now
      <4>1. now' > now => Tick
        BY <1>a, <2>1 DEF NotForward, vars
      <4> QED BY <1>a, <2>1, <2>3, <4>1
    <3> SUFFICES ASSUME Rests, NEW e \in timersOrder_ PROVE Covered(e[1])'
      BY <2>1 DEF Punctual, Covered, Rests
    <3>2. e[1] \in Nat /\ Covered(e[1]) /\ e[1] <= e[1]
      BY <1>b DEF Punctual, Covered, Rests
    <3> QED BY <1>a, <2>1, <3>1, <3>2, StaysCovered
  <2> QED BY <2>2, <2>3
<1>10. CASE UNCHANGED vars
  BY <1>10 DEF vars, tableVars, fdVars, Punctual
<1>11. CASE \E u \in Threads : Remote(u)
  <2>1. UNCHANGED <<phase, ready, timersOrder_, fdLeft, readable, now>>
    BY <1>11 DEF Remote, RemoteAdd, RemoteAddReturns, RemoteCancel, tableVars, fdVars
  <2> QED BY <2>1 DEF Punctual
<1> QED BY <1>1, <1>2, <1>3, <1>4, <1>5, <1>6, <1>7, <1>8, <1>9, <1>10, <1>11
        DEF Next, LoopStep, Local

\* While the wall clock goes forward by ticking only (it may be set back at any
\* time), the timerfd expires no later than the first timer is due.
THEOREM PunctualUnlessSetForward == Spec /\ [][NotForward]_vars => []Punctual
<1>1. Init => TimerInv /\ ReadyInTurn /\ Punctual
  BY TableInit DEF Init, ReadyInTurn, Punctual
<1>2. TimerInv /\ ReadyInTurn /\ Punctual /\ [Next]_vars /\ [NotForward]_vars
          => (TimerInv /\ ReadyInTurn /\ Punctual)'
  BY TypeNext, NumbersNext, OrderNext, RunningNext, ReadyNext, PunctualNext DEF TimerInv
<1> QED BY <1>1, <1>2, PTL DEF Spec
=============================================================================
