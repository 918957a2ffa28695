-------------------------- MODULE EventLoopProofs --------------------------
(***************************************************************************)
(* What EventLoop guarantees for every set of threads, functors, timeouts  *)
(* and every limit of the eventfd: type correctness, the wakeup invariants *)
(* and that the loop is a FIFO queue which runs a functor at most once.    *)
(***************************************************************************)
EXTENDS EventLoop, SequenceTheorems, TLAPS

\* Abbreviations of the actions.
USE DEF queueVars, pollVars, WakeupNext, TakeAll, KeepQueue

\* Appending to a sequence adds one element to its range.
LEMMA RangeAppend ==
    ASSUME NEW S, NEW s \in Seq(S), NEW e \in S
    PROVE  Range(Append(s, e)) = Range(s) \cup {e}
<1>1. Append(s, e) = s \o <<e>> /\ <<e>> \in Seq(S)
  BY AppendIsConcat
<1>2. Range(<<e>>) = {e}
  BY DEF Range
<1>3. Range(s \o <<e>>) = Range(s) \cup Range(<<e>>)
  BY <1>1, RangeConcatenation
<1> QED BY <1>1, <1>2, <1>3

\* The range of a sequence is that of its tail and its head.
LEMMA RangeHeadTail ==
    ASSUME NEW S, NEW s \in Seq(S), s # <<>>
    PROVE  Range(s) = Range(Tail(s)) \cup {Head(s)}
<1>1. ASSUME NEW i \in 1..Len(s) PROVE s[i] \in Range(Tail(s)) \cup {Head(s)}
  <2>1. CASE i = 1
    BY <2>1
  <2>2. CASE i # 1
    <3>1. i-1 \in 1..Len(Tail(s)) /\ Tail(s)[i-1] = s[i]
      BY <2>2
    <3> QED BY <3>1 DEF Range
  <2> QED BY <2>1, <2>2
<1>2. ASSUME NEW i \in 1..Len(Tail(s)) PROVE Tail(s)[i] \in Range(s)
  <2>1. i+1 \in 1..Len(s) /\ Tail(s)[i] = s[i+1]
    OBVIOUS
  <2> QED BY <2>1 DEF Range
<1>3. Head(s) \in Range(s)
  BY 1 \in 1..Len(s) DEF Range
<1> QED BY <1>1, <1>2, <1>3 DEF Range

\* An empty queue holds no functor.
LEMMA RangeEmpty == Range(<<>>) = {}
BY DEF Range

\* TypeOK: every variable of the loop keeps its type.
LEMMA TypeInit == Init => TypeOK
<1> SUFFICES ASSUME Init PROVE TypeOK
    OBVIOUS
<1>1. pendingFunctors_ \in Seq(Tasks) /\ functors \in Seq(Tasks) /\ ran \in Seq(Tasks)
  BY DEF Init
<1>2. pending_ \in BOOLEAN /\ quit_ \in BOOLEAN /\ looping_ \in BOOLEAN
  BY DEF Init
<1>3. wakeupfd \in 0..WakeupMax
  BY WakeupMaxAssumption DEF Init
<1>4. timeoutMs_ \in Timeouts /\ pollTimeout \in Timeouts
  BY TimeoutsAssumption DEF Init
<1>5. /\ activeChannels_ \subseteq Channels /\ pc \in PCs
      /\ caller \in [Threads -> {"idle", "wakeup"}] /\ site \in [Tasks -> Sites]
  BY DEF Init, PCs, Sites, UserCode
<1> QED BY <1>1, <1>2, <1>3, <1>4, <1>5 DEF TypeOK

\* No step leaves the types.
LEMMA TypeNext == TypeOK /\ [Next]_vars => TypeOK'
<1> SUFFICES ASSUME TypeOK, [Next]_vars PROVE TypeOK'
    OBVIOUS
<1> USE TimeoutsAssumption, WakeupMaxAssumption DEF TypeOK, PCs, UserCode, Sites, Channels
<1>1. ASSUME NEW u \in Threads, OtherThread(u) PROVE TypeOK'
  <2>1. CASE Quit(u)
    BY <2>1 DEF Quit
  <2>2. CASE Wakeup(u)
    BY <2>2 DEF Wakeup, Bump
  <2>3. ASSUME NEW t \in Tasks, QueueInLoop(u, t) PROVE TypeOK'
    BY <2>3 DEF QueueInLoop
  <2> QED BY <1>1, <2>1, <2>2, <2>3 DEF OtherThread
<1>2. CASE LocalCall
  <2>1. CASE LocalQuit
    BY <2>1 DEF LocalQuit
  <2>2. ASSUME NEW t \in Tasks, LocalQueueInLoop(t) PROVE TypeOK'
    BY <2>2 DEF LocalQueueInLoop, WakeupIfPending, Bump
  <2>3. ASSUME NEW t \in Tasks, LocalRunInLoop(t) PROVE TypeOK'
    BY <2>3 DEF LocalRunInLoop, loopVars
  <2> QED BY <1>2, <2>1, <2>2, <2>3 DEF LocalCall
<1>3. CASE LoopBegin \/ PollInterrupted \/ PollReady
  BY <1>3 DEF LoopBegin, PollInterrupted, PollReady, PollReturn
<1>4. ASSUME NEW ms \in Timeouts, SetTimeoutMs(ms) PROVE TypeOK'
  BY <1>4 DEF SetTimeoutMs
<1>5. CASE LoopStep
  <2>1. CASE RunFunctor
    <3>1. functors # <<>> /\ functors \in Seq(Tasks)
      BY <2>1 DEF RunFunctor
    <3>2. Head(functors) \in Tasks /\ Tail(functors) \in Seq(Tasks)
      BY <3>1, HeadTailProperties
    <3> QED BY <2>1, <3>2 DEF RunFunctor
  <2>2. CASE Swap
    BY <2>2 DEF Swap
  <2>3. CASE LoopReset \/ LoopExit \/ LoopTurn \/ PollExpire \/ PollReady
    BY <2>3 DEF LoopReset, LoopExit, LoopTurn, PollExpire, PollReady, PollReturn
  <2>4. CASE HandleWakeup
    BY <2>4 DEF HandleWakeup
  <2>5. CASE HandleChannel \/ UserCodeReturns \/ PendingBegin
    BY <2>5 DEF HandleChannel, UserCodeReturns, PendingBegin
  <2>6. CASE PendingEnd
    BY <2>6 DEF PendingEnd
  <2> QED BY <1>5, <2>1, <2>2, <2>3, <2>4, <2>5, <2>6 DEF LoopStep
<1>6. CASE UNCHANGED vars
  BY <1>6 DEF vars, loopVars
<1> QED BY <1>1, <1>2, <1>3, <1>4, <1>5, <1>6 DEF Next

-----------------------------------------------------------------------------
\* Every step keeps what the position of the loop says of its batch.
LEMMA BatchNext == TypeOK /\ BatchInv /\ [Next]_vars => BatchInv'
<1> SUFFICES ASSUME TypeOK, BatchInv, [Next]_vars PROVE BatchInv'
    OBVIOUS
<1> USE DEF BatchInv
<1>1. ASSUME NEW u \in Threads, OtherThread(u) PROVE BatchInv'
  BY <1>1 DEF OtherThread, Quit, Wakeup, QueueInLoop
<1>2. CASE LocalCall
  BY <1>2 DEF LocalCall, LocalQuit, LocalQueueInLoop, LocalRunInLoop, loopVars
<1>3. CASE LoopBegin \/ LoopReset \/ LoopExit \/ LoopTurn
  BY <1>3 DEF LoopBegin, LoopReset, LoopExit, LoopTurn
<1>4. ASSUME NEW ready, PollReturn(ready) PROVE BatchInv'
  BY <1>4 DEF PollReturn
<1>5. ASSUME NEW ms \in Timeouts, SetTimeoutMs(ms) PROVE BatchInv'
  BY <1>5 DEF SetTimeoutMs
<1>6. CASE HandleWakeup \/ HandleChannel \/ UserCodeReturns \/ PendingBegin
  BY <1>6 DEF HandleWakeup, HandleChannel, UserCodeReturns, PendingBegin
<1>7. CASE Swap \/ RunFunctor \/ PendingEnd 
  BY <1>7 DEF Swap, RunFunctor, PendingEnd
<1>8. CASE UNCHANGED vars
  BY <1>8 DEF vars, loopVars
<1> QED BY <1>1, <1>2, <1>3, <1>4, <1>5, <1>6, <1>7, <1>8
           DEF Next, LoopStep, PollReady, PollExpire, PollInterrupted

\* What is queued or has run has been handed over by somebody.
LEMMA PostedNext == TypeOK /\ PostedInv /\ [Next]_vars => PostedInv'
<1> SUFFICES ASSUME TypeOK, PostedInv, [Next]_vars PROVE PostedInv'
    OBVIOUS
<1> DEFINE Known == Queued \cup Range(ran)
<1>1. ASSUME NEW t \in Tasks, site' = [site EXCEPT ![t] = site'[t]], site'[t] # "none",
             Known' \subseteq Known \cup {t}
      PROVE  PostedInv'
  BY <1>1 DEF PostedInv, TypeOK
<1>2. ASSUME UNCHANGED site, Known' \subseteq Known PROVE PostedInv'
  BY <1>2 DEF PostedInv
<1>3. ASSUME NEW u \in Threads, NEW t \in Tasks, QueueInLoop(u, t) PROVE PostedInv'
  <2>1. Known' \subseteq Known \cup {t}
    BY <1>3, RangeAppend DEF QueueInLoop, Queued, TypeOK
  <2>2. site'[t] = "thread"
    BY <1>3 DEF QueueInLoop, TypeOK
  <2> QED BY <1>1, <1>3, <2>1, <2>2 DEF QueueInLoop
<1>4. ASSUME NEW t \in Tasks, LocalQueueInLoop(t) \/ LocalRunInLoop(t) PROVE PostedInv'
  <2>1. CASE LocalQueueInLoop(t)
    <3>1. Range(pendingFunctors_)' = Range(pendingFunctors_) \cup {t}
      BY <2>1, RangeAppend DEF LocalQueueInLoop, TypeOK
    <3>2. Known' \subseteq Known \cup {t}
      BY <2>1, <3>1 DEF LocalQueueInLoop, Queued
    <3>3. site' = [site EXCEPT ![t] = site'[t]] /\ site'[t] = pc /\ pc # "none"
      BY <2>1 DEF LocalQueueInLoop, UserCode, TypeOK
    <3> QED BY <1>1, <3>2, <3>3
  <2>2. CASE LocalRunInLoop(t)
    <3>1. Range(ran)' = Range(ran) \cup {t}
      BY <2>2, RangeAppend DEF LocalRunInLoop, TypeOK
    <3>2. Known' \subseteq Known \cup {t}
      BY <2>2, <3>1 DEF LocalRunInLoop, loopVars, Queued
    <3>3. site' = [site EXCEPT ![t] = site'[t]] /\ site'[t] = pc /\ pc # "none"
      BY <2>2 DEF LocalRunInLoop, UserCode, TypeOK
    <3> QED BY <1>1, <3>2, <3>3
  <2> QED BY <1>4, <2>1, <2>2
<1>5. CASE Swap
  <2>1. Known' \subseteq Known
    BY <1>5, RangeEmpty DEF Swap, Queued
  <2> QED BY <1>2, <1>5, <2>1 DEF Swap
<1>6. CASE RunFunctor
  <2>1. functors \in Seq(Tasks) /\ functors # <<>> /\ ran \in Seq(Tasks)
    BY <1>6 DEF RunFunctor, TypeOK
  <2>2. Range(functors) = Range(Tail(functors)) \cup {Head(functors)}
    BY <2>1, RangeHeadTail
  <2>3. Range(Append(ran, Head(functors))) = Range(ran) \cup {Head(functors)}
    BY <2>1, RangeAppend, HeadTailProperties
  <2> QED BY <1>2, <1>6, <2>2, <2>3 DEF RunFunctor, Queued
<1>7. ASSUME UNCHANGED <<pendingFunctors_, functors, site, ran>> PROVE PostedInv'
  BY <1>2, <1>7 DEF Queued
<1> QED
  BY <1>3, <1>4, <1>5, <1>6, <1>7
     DEF Next, OtherThread, Quit, Wakeup, LocalCall, LocalQuit, SetTimeoutMs, LoopBegin,
         LoopStep, LoopReset, LoopExit, LoopTurn, PollExpire, PollReady, PollInterrupted,
         PollReturn, HandleWakeup, HandleChannel, UserCodeReturns, PendingBegin,
         PendingEnd, vars, loopVars

\* A step that touches neither the functors queued behind the batch nor
\* their sites preserves QueuedInv: if a wakeup was due it still is, and the
\* cycle does not leave the part in which none is due.
LEMMA QueuedKept ==
    ASSUME QueuedInv, UNCHANGED <<pendingFunctors_, site>>, WakeupPending => WakeupPending',
           pc \in {"handle", "callback", "swap"} => pc' \in {"handle", "callback", "swap"}
    PROVE  QueuedInv'
BY DEF QueuedInv

\* No step takes a callback's functor away from the turn that runs it.
LEMMA QueuedNext == TypeOK /\ BatchInv /\ PostedInv /\ QueuedInv /\ [Next]_vars => QueuedInv'
<1> SUFFICES ASSUME TypeOK, BatchInv, PostedInv, QueuedInv, [Next]_vars PROVE QueuedInv'
    OBVIOUS
<1>0. Range(pendingFunctors_) \subseteq Tasks
  BY DEF TypeOK, Range
<1>1. ASSUME NEW u \in Threads, NEW t \in Tasks, QueueInLoop(u, t) PROVE QueuedInv'
  <2>1. Range(pendingFunctors_)' = Range(pendingFunctors_) \cup {t}
    BY <1>1, RangeAppend DEF QueueInLoop, TypeOK
  <2>2. WakeupPending'
    BY <1>1 DEF QueueInLoop, WakeupPending, TypeOK
  <2>3. site'[t] = "thread" /\ \A x \in Range(pendingFunctors_) : x # t => site'[x] = site[x]
    BY <1>0, <1>1 DEF QueueInLoop, TypeOK
  <2> QED BY <1>1, <2>1, <2>2, <2>3 DEF QueueInLoop, QueuedInv
<1>2. ASSUME NEW u \in Threads, Quit(u) \/ Wakeup(u) PROVE QueuedInv'
  <2>1. WakeupPending'
    BY <1>2, WakeupMaxAssumption DEF Quit, Wakeup, Bump, WakeupPending, TypeOK
  <2> QED BY <1>2, <2>1 DEF Quit, Wakeup, QueuedInv
<1>3. ASSUME NEW t \in Tasks, LocalQueueInLoop(t) PROVE QueuedInv'
  <2>1. Range(pendingFunctors_)' = Range(pendingFunctors_) \cup {t}
    BY <1>3, RangeAppend DEF LocalQueueInLoop, TypeOK
  <2>2. (WakeupPending => WakeupPending') /\ (pending_ => WakeupPending')
    BY <1>3, WakeupMaxAssumption
       DEF LocalQueueInLoop, WakeupIfPending, Bump, WakeupPending, TypeOK
  <2>3. site'[t] = pc /\ \A x \in Range(pendingFunctors_) : x # t => site'[x] = site[x]
    BY <1>0, <1>3 DEF LocalQueueInLoop, TypeOK
  <2>4. pc' = pc /\ pc \in UserCode /\ (pc = "functor" => pending_)
    BY <1>3 DEF LocalQueueInLoop, BatchInv
  <2> QED BY <2>1, <2>2, <2>3, <2>4 DEF QueuedInv, UserCode
<1>4. ASSUME NEW t \in Tasks, LocalRunInLoop(t) PROVE QueuedInv'
  <2>1. (WakeupPending => WakeupPending') /\ UNCHANGED <<pendingFunctors_, pc>>
    BY <1>4 DEF LocalRunInLoop, loopVars, WakeupPending
  <2>2. t \notin Range(pendingFunctors_)
    BY <1>4 DEF LocalRunInLoop, PostedInv, Queued
  <2>3. \A x \in Range(pendingFunctors_) : site'[x] = site[x]
    BY <1>0, <1>4, <2>2 DEF LocalRunInLoop, TypeOK
  <2> QED BY <2>1, <2>3 DEF QueuedInv
<1>5. ASSUME NEW ms \in Timeouts, SetTimeoutMs(ms) PROVE QueuedInv'
  BY <1>5, QueuedKept DEF SetTimeoutMs, WakeupPending
<1>6. CASE LocalQuit \/ LoopBegin \/ LoopReset \/ LoopExit \/ LoopTurn
  BY <1>6, QueuedKept
     DEF LocalQuit, LoopBegin, LoopReset, LoopExit, LoopTurn, UserCode, WakeupPending
<1>7. ASSUME NEW ready, PollReturn(ready) PROVE QueuedInv'
  BY <1>7 DEF PollReturn, QueuedInv
<1>8. CASE HandleWakeup \/ HandleChannel \/ PendingBegin
  BY <1>8 DEF HandleWakeup, HandleChannel, PendingBegin, QueuedInv
<1>9. CASE Swap
  BY <1>9, RangeEmpty DEF Swap, QueuedInv
<1>10. CASE RunFunctor \/ PendingEnd \/ UserCodeReturns
  BY <1>10, QueuedKept DEF RunFunctor, PendingEnd, UserCodeReturns, WakeupPending, QueuedInv
<1>11. CASE UNCHANGED vars
  BY <1>11, QueuedKept DEF vars, loopVars, WakeupPending
<1> QED
  BY <1>1, <1>2, <1>3, <1>4, <1>5, <1>6, <1>7, <1>8, <1>9, <1>10, <1>11
     DEF Next, OtherThread, LocalCall, LoopStep, PollReady, PollExpire, PollInterrupted

\* No step takes the wakeup of a quit() away before the loop has seen it.
LEMMA QuitWakesNext == TypeOK /\ BatchInv /\ QuitWakes /\ [Next]_vars => QuitWakes'
<1> SUFFICES ASSUME TypeOK, BatchInv, QuitWakes, [Next]_vars, pc' = "poll", quit_'
             PROVE  WakeupPending'
    BY DEF QuitWakes
<1>1. ASSUME NEW u \in Threads, Quit(u) \/ Wakeup(u) PROVE WakeupPending'
  <2>1. CASE Quit(u)
    BY <2>1 DEF Quit, WakeupPending, TypeOK
  <2>2. CASE Wakeup(u)
    <3>1. wakeupfd' > 0
      BY <2>2, WakeupMaxAssumption DEF Wakeup, Bump, TypeOK
    <3> QED BY <3>1 DEF WakeupPending
  <2> QED BY <1>1, <2>1, <2>2
<1>2. ASSUME NEW u \in Threads, NEW t \in Tasks, QueueInLoop(u, t) PROVE WakeupPending'
  BY <1>2 DEF QueueInLoop, WakeupPending, TypeOK
<1>3. ~LocalCall
  BY DEF LocalCall, LocalQuit, LocalQueueInLoop, LocalRunInLoop, loopVars, UserCode
<1>4. ASSUME NEW ms \in Timeouts, SetTimeoutMs(ms) PROVE WakeupPending'
  BY <1>4 DEF SetTimeoutMs, QuitWakes, WakeupPending
<1>5. ~LoopBegin /\ ~LoopReset /\ ~LoopExit /\ ~LoopTurn
  BY DEF LoopBegin, LoopReset, LoopExit, LoopTurn
<1>6. ~PollExpire /\ ~PollReady /\ ~PollInterrupted
  BY DEF PollExpire, PollReady, PollInterrupted, PollReturn
<1>7. ~HandleWakeup /\ ~HandleChannel /\ ~UserCodeReturns /\ ~PendingBegin
  BY DEF HandleWakeup, HandleChannel, UserCodeReturns, PendingBegin
<1>8. ~Swap /\ ~RunFunctor /\ ~PendingEnd
  BY DEF Swap, RunFunctor, PendingEnd
<1>9. CASE UNCHANGED vars
  BY <1>9 DEF vars, loopVars, QuitWakes, WakeupPending
<1> QED
  BY <1>1, <1>2, <1>3, <1>4, <1>5, <1>6, <1>7, <1>8, <1>9 DEF Next, OtherThread, LoopStep
-----------------------------------------------------------------------------
\* The invariant of the poll cycle: where the batch and the active channels
\* may be non-empty, which queued functors have their wakeup, that a quit()
\* reaches a blocked poll.
THEOREM LoopInvariant == Spec => []LoopInv
<1>1. Init => LoopInv
  BY TypeInit, RangeEmpty DEF Init, LoopInv, BatchInv, QueuedInv, QuitWakes, PostedInv, Queued
<1>2. LoopInv /\ [Next]_vars => LoopInv'
  BY TypeNext, BatchNext, PostedNext, QueuedNext, QuitWakesNext DEF LoopInv
<1> QED BY <1>1, <1>2, PTL DEF Spec

\* No functor posted by another thread, or by a functor of the batch, waits
\* in front of a poll that nothing is about to end.
THEOREM WakeupNeverLost == Spec => []NoLostWakeup
<1>1. LoopInv => NoLostWakeup
  BY RangeEmpty DEF LoopInv, BatchInv, QueuedInv, NoLostWakeup, Queued
<1> QED BY <1>1, LoopInvariant, PTL

\* No quit() is left waiting for the poll timeout.
THEOREM QuitEndsPoll == Spec => []QuitWakes
<1>1. LoopInv => QuitWakes
  BY DEF LoopInv
<1> QED BY <1>1, LoopInvariant, PTL

\* What a callback queues runs in the same turn of the loop.
THEOREM CallbackFunctorsRunThisTurn == Spec => []CallbackQueuesForThisTurn
<1>1. LoopInv => CallbackQueuesForThisTurn
  BY RangeEmpty DEF LoopInv, BatchInv, QueuedInv, CallbackQueuesForThisTurn, Queued
<1> QED BY <1>1, LoopInvariant, PTL
-----------------------------------------------------------------------------
(* EventLoop implements TaskQueue under queue = functors \o pendingFunctors_ *)

\* Appending to the queue appends to batch and queue taken together ...
LEMMA ConcatAppend ==
    ASSUME NEW S, NEW s \in Seq(S), NEW t \in Seq(S), NEW e \in S
    PROVE  s \o Append(t, e) = Append(s \o t, e)
OBVIOUS

\* ... and the head of the batch is the head of both.
LEMMA ConcatHeadTail ==
    ASSUME NEW S, NEW s \in Seq(S), NEW t \in Seq(S), s # <<>>
    PROVE  s \o t # <<>> /\ Head(s \o t) = Head(s) /\ Tail(s \o t) = Tail(s) \o t
OBVIOUS

\* Every step of the loop is a step of the FIFO queue or leaves it alone.
LEMMA TaskQueueStep ==
    LoopInv /\ [Next]_vars => [TaskQueueOf!Next]_(TaskQueueOf!vars)
<1> SUFFICES ASSUME TypeOK, LoopInv, [Next]_vars
             PROVE  [TaskQueueOf!Next]_(TaskQueueOf!vars)
    BY DEF LoopInv
<1>1. ASSUME NEW t \in Tasks, site[t] = "none" PROVE TaskQueueOf!Fresh(t)
  <2>1. Range(functors \o pendingFunctors_) = Range(functors) \cup Range(pendingFunctors_)
    BY RangeConcatenation DEF TypeOK
  <2>2. TaskQueueOf!Range(functors \o pendingFunctors_) = Range(functors \o pendingFunctors_)
    BY DEF Range, TaskQueueOf!Range
  <2>3. TaskQueueOf!Range(ran) = Range(ran)
    BY DEF Range, TaskQueueOf!Range
  <2> QED
    BY <1>1, <2>1, <2>2, <2>3 DEF LoopInv, PostedInv, Queued, TaskQueueOf!Fresh
<1>2. ASSUME NEW t \in Tasks, site[t] = "none", UNCHANGED <<functors, ran>>,
             pendingFunctors_' = Append(pendingFunctors_, t)
      PROVE  TaskQueueOf!Next
  <2>1. functors \o pendingFunctors_' = Append(functors \o pendingFunctors_, t)
    BY <1>2, ConcatAppend DEF TypeOK
  <2>2. TaskQueueOf!Post(t)
    BY <1>1, <1>2, <2>1 DEF TaskQueueOf!Post
  <2> QED BY <2>2 DEF TaskQueueOf!Next
<1>3. ASSUME NEW t \in Tasks, LocalRunInLoop(t) PROVE TaskQueueOf!Next
  BY <1>1, <1>3 DEF LocalRunInLoop, loopVars, TaskQueueOf!Next, TaskQueueOf!RunNow
<1>4. CASE RunFunctor
  <2>1. functors # <<>> /\ functors \in Seq(Tasks) /\ pendingFunctors_ \in Seq(Tasks)
    BY <1>4 DEF RunFunctor, TypeOK
  <2>2. TaskQueueOf!RunNext
    BY <1>4, <2>1, ConcatHeadTail DEF RunFunctor, TaskQueueOf!RunNext
  <2> QED BY <2>2 DEF TaskQueueOf!Next
<1>5. CASE Swap
  <2>1. functors = <<>>
    BY <1>5 DEF Swap, LoopInv, BatchInv
  <2>2. functors' \o pendingFunctors_' = functors \o pendingFunctors_
    BY <1>5, <2>1 DEF Swap, TypeOK
  <2> QED BY <1>5, <2>2 DEF Swap, TaskQueueOf!vars
<1>6. ASSUME UNCHANGED <<pendingFunctors_, functors, ran>>
      PROVE  UNCHANGED TaskQueueOf!vars
  BY <1>6 DEF TaskQueueOf!vars
<1> QED
  BY <1>2, <1>3, <1>4, <1>5, <1>6
     DEF Next, OtherThread, QueueInLoop, Quit, Wakeup, LocalCall, LocalQueueInLoop,
         LocalQuit, SetTimeoutMs, LoopBegin, LoopStep, LoopReset, LoopExit, LoopTurn,
         PollExpire, PollReady, PollInterrupted, PollReturn, HandleWakeup, HandleChannel,
         UserCodeReturns, PendingBegin, PendingEnd,
         vars, loopVars

\* The loop is a FIFO queue: a functor runs at most once, after every functor
\* queued before it, whichever threads queued them.
THEOREM FunctorsRunInOrder == Spec => ImplementsTaskQueue
<1>1. Init => TaskQueueOf!Init
  BY DEF Init, TaskQueueOf!Init
<1> QED
  BY <1>1, TaskQueueStep, LoopInvariant, PTL
     DEF Spec, ImplementsTaskQueue, TaskQueueOf!Spec
=============================================================================
