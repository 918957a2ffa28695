----------------------------- MODULE EventLoop -----------------------------
(***************************************************************************)
(* One EventLoop: the poll / handle / pendingFunctors cycle of the thread  *)
(* that owns it, and the calls other threads make into it.  pc is where    *)
(* the loop thread stands.  At "outside", "callback", "functor" and        *)
(* "release" it executes code of the application, which may call back into *)
(* the loop: before or after loop(), in a channel's callback, in a functor *)
(* of the batch, in the destructor of a functor of the batch (the vector   *)
(* `functors' is destroyed after pending_ has been cleared).               *)
(*                                                                         *)
(* wakeupfd is the counter of the eventfd: a write adds one and is lost at *)
(* WakeupMax (2^64 - 2, EFD_NONBLOCK), a read resets it.                   *)
(***************************************************************************)
EXTENDS Naturals, Sequences, Functions

CONSTANTS Threads,      \* threads other than the one that owns the loop
          Tasks,        \* functors; each is handed to the loop at most once
          Timeouts,     \* values setTimeoutMs is called with
          Finite,       \* those of them that let epoll_wait expire (>= 0)
          WakeupMax     \* largest value of the eventfd counter

ASSUME TimeoutsAssumption == Finite \subseteq Timeouts /\ Finite # {}
ASSUME WakeupMaxAssumption == WakeupMax \in Nat \ {0}

VARIABLES
    pendingFunctors_, functors, pending_, quit_, looping_, wakeupfd, timeoutMs_,
    pollTimeout,     \* the timeout epoll_wait was called with
    activeChannels_, \* channels still to be handled in this turn
    pc,
    caller,          \* where each other thread stands inside a call
    site,            \* where each functor was handed over ("none": not yet)
    ran              \* functors in the order they were run

queueVars == <<pendingFunctors_, functors, pending_>>
pollVars == <<timeoutMs_, pollTimeout, activeChannels_>>
loopVars == <<queueVars, quit_, looping_, wakeupfd, pollVars, pc>>
vars == <<loopVars, caller, site, ran>>

UserCode == {"outside", "callback", "functor", "release"}
PCs == UserCode \cup {"enter", "test", "poll", "handle", "swap", "run"}
Sites == UserCode \cup {"none", "thread"}
Channels == {"wakeup", "other"}

Init == /\ pendingFunctors_ = <<>> /\ functors = <<>>
        /\ pending_ = FALSE /\ quit_ = FALSE /\ looping_ = FALSE
        /\ wakeupfd = 0
        /\ timeoutMs_ \in Finite /\ pollTimeout = timeoutMs_   \* 2000 ms
        /\ activeChannels_ = {}
        /\ pc = "outside"
        /\ caller = [u \in Threads |-> "idle"]
        /\ site = [t \in Tasks |-> "none"]
        /\ ran = <<>>

Bump == wakeupfd' = IF wakeupfd < WakeupMax THEN wakeupfd + 1 ELSE wakeupfd

\* Mutant: queueInLoop wakes the loop for other threads only.
WakeupForOthersOnly == UNCHANGED wakeupfd

\* queueInLoop's `!isInCurrentThread() || pending_', in the loop thread.
WakeupIfPending == IF pending_ THEN Bump ELSE UNCHANGED wakeupfd

\* Mutant: quit() never calls wakeup().
NoWakeup(u) == UNCHANGED caller

\* The caller goes on to wakeup(), in a step of its own.
WakeupNext(u) == caller' = [caller EXCEPT ![u] = "wakeup"]
-----------------------------------------------------------------------------
(* Calls of the other threads: isInCurrentThread() is false, so runInLoop  *)
(* is queueInLoop, and both it and quit() end with wakeup().               *)

QueueInLoop(u, t) ==
    /\ caller[u] = "idle" /\ site[t] = "none"
    /\ pendingFunctors_' = Append(pendingFunctors_, t)
    /\ site' = [site EXCEPT ![t] = "thread"]
    /\ caller' = [caller EXCEPT ![u] = "wakeup"]
    /\ UNCHANGED <<functors, pending_, quit_, looping_, wakeupfd, pollVars, pc, ran>>

Quit(u) ==
    /\ caller[u] = "idle"
    /\ quit_' = TRUE
    /\ WakeupNext(u)
    /\ UNCHANGED <<queueVars, looping_, wakeupfd, pollVars, pc, site, ran>>

Wakeup(u) ==
    /\ caller[u] = "wakeup"
    /\ Bump
    /\ caller' = [caller EXCEPT ![u] = "idle"]
    /\ UNCHANGED <<queueVars, quit_, looping_, pollVars, pc, site, ran>>

\* Called by any thread; the poll in progress keeps the timeout it began with.
SetTimeoutMs(ms) ==
    /\ timeoutMs_' = ms
    /\ UNCHANGED <<queueVars, quit_, looping_, wakeupfd, pollTimeout, activeChannels_, pc,
                   caller, site, ran>>
-----------------------------------------------------------------------------
(* Calls of the loop thread itself, from the code of the application.      *)

LocalQueueInLoop(t) ==
    /\ pc \in UserCode /\ site[t] = "none"
    /\ pendingFunctors_' = Append(pendingFunctors_, t)
    /\ site' = [site EXCEPT ![t] = pc]
    /\ WakeupIfPending
    /\ UNCHANGED <<functors, pending_, quit_, looping_, pollVars, pc, caller, ran>>

LocalRunInLoop(t) ==
    /\ pc \in UserCode /\ site[t] = "none"
    /\ site' = [site EXCEPT ![t] = pc]
    /\ ran' = Append(ran, t)
    /\ UNCHANGED <<loopVars, caller>>

LocalQuit ==
    /\ pc \in UserCode
    /\ quit_' = TRUE
    /\ UNCHANGED <<queueVars, looping_, wakeupfd, pollVars, pc, caller, site, ran>>

\* A callback, a functor or a destructor comes back to the loop.
UserCodeReturns ==
    /\ pc \in {"callback", "functor", "release"}
    /\ pc' = CASE pc = "callback" -> "handle" [] pc = "functor" -> "run" [] OTHER -> "test"
    /\ UNCHANGED <<queueVars, quit_, looping_, wakeupfd, pollVars, caller, site, ran>>
-----------------------------------------------------------------------------
(* The steps of loop().                                                    *)

LoopBegin ==
    /\ pc = "outside" /\ pc' = "enter"
    /\ looping_' = TRUE
    /\ UNCHANGED <<queueVars, quit_, wakeupfd, pollVars, caller, site, ran>>

LoopReset ==
    /\ pc = "enter" /\ pc' = "test"
    /\ quit_' = FALSE
    /\ UNCHANGED <<queueVars, looping_, wakeupfd, pollVars, caller, site, ran>>

LoopExit ==
    /\ pc = "test" /\ quit_ /\ pc' = "outside"
    /\ looping_' = FALSE
    /\ UNCHANGED <<queueVars, quit_, wakeupfd, pollVars, caller, site, ran>>

LoopTurn ==
    /\ pc = "test" /\ ~quit_ /\ pc' = "poll"
    /\ pollTimeout' = timeoutMs_
    /\ UNCHANGED <<queueVars, quit_, looping_, wakeupfd, timeoutMs_, activeChannels_,
                   caller, site, ran>>

\* epoll_wait returns: with the eventfd iff its counter is not 0 (level
\* triggered), with other channels at the environment's will, with nothing
\* when it expires or is interrupted.
PollReturn(ready) ==
    /\ pc = "poll" /\ pc' = "handle"
    /\ ("wakeup" \in ready) = (wakeupfd > 0)
    /\ activeChannels_' = ready
    /\ UNCHANGED <<queueVars, quit_, looping_, wakeupfd, timeoutMs_, pollTimeout,
                   caller, site, ran>>

PollReady == \E ready \in SUBSET Channels : ready # {} /\ PollReturn(ready)

PollExpire == pollTimeout \in Finite /\ PollReturn({})

PollInterrupted == PollReturn({})

HandleWakeup ==      \* wakeupRead()
    /\ pc = "handle" /\ "wakeup" \in activeChannels_
    /\ wakeupfd' = 0
    /\ activeChannels_' = activeChannels_ \ {"wakeup"}
    /\ UNCHANGED <<queueVars, quit_, looping_, timeoutMs_, pollTimeout, pc, caller, site, ran>>

HandleChannel ==
    /\ pc = "handle" /\ "other" \in activeChannels_ /\ pc' = "callback"
    /\ activeChannels_' = activeChannels_ \ {"other"}
    /\ UNCHANGED <<queueVars, quit_, looping_, wakeupfd, timeoutMs_, pollTimeout,
                   caller, site, ran>>

PendingBegin ==
    /\ pc = "handle" /\ activeChannels_ = {} /\ pc' = "swap"
    /\ pending_' = TRUE
    /\ UNCHANGED <<pendingFunctors_, functors, quit_, looping_, wakeupfd, pollVars,
                   caller, site, ran>>

\* Mutants: the batch is copied, not swapped out; one functor is taken a turn.
CopyAll == functors' = pendingFunctors_ /\ UNCHANGED pendingFunctors_

TakeFirst == /\ functors' = IF pendingFunctors_ = <<>> THEN <<>> ELSE <<Head(pendingFunctors_)>>
             /\ pendingFunctors_' = IF pendingFunctors_ = <<>> THEN <<>> ELSE Tail(pendingFunctors_)

TakeAll == functors' = pendingFunctors_ /\ pendingFunctors_' = <<>>

Swap ==
    /\ pc = "swap" /\ pc' = "run"
    /\ TakeAll
    /\ UNCHANGED <<pending_, quit_, looping_, wakeupfd, pollVars, caller, site, ran>>

RunFunctor ==
    /\ pc = "run" /\ functors # <<>> /\ pc' = "functor"
    /\ ran' = Append(ran, Head(functors))
    /\ functors' = Tail(functors)
    /\ UNCHANGED <<pendingFunctors_, pending_, quit_, looping_, wakeupfd, pollVars, caller, site>>

\* Mutant: what was queued while the batch ran is cleared with the batch.
ClearQueue == pendingFunctors_' = <<>>

KeepQueue == UNCHANGED pendingFunctors_

PendingEnd ==
    /\ pc = "run" /\ functors = <<>> /\ pc' = "release"
    /\ pending_' = FALSE
    /\ KeepQueue
    /\ UNCHANGED <<functors, quit_, looping_, wakeupfd, pollVars, caller, site, ran>>

-----------------------------------------------------------------------------
OtherThread(u) == Quit(u) \/ Wakeup(u) \/ \E t \in Tasks : QueueInLoop(u, t)

LocalCall == LocalQuit \/ \E t \in Tasks : LocalQueueInLoop(t) \/ LocalRunInLoop(t)

\* What the loop thread does on its own once loop() has been called.
LoopStep == \/ LoopReset \/ LoopExit \/ LoopTurn
            \/ PollExpire \/ (wakeupfd > 0 /\ PollReady)
            \/ HandleWakeup \/ HandleChannel \/ UserCodeReturns
            \/ PendingBegin \/ Swap \/ RunFunctor \/ PendingEnd

Next == \/ LoopBegin \/ LoopStep \/ PollReady \/ PollInterrupted
        \/ LocalCall
        \/ \E u \in Threads : OtherThread(u)
        \/ \E ms \in Timeouts : SetTimeoutMs(ms)

Spec == Init /\ [][Next]_vars

\* The loop thread and a thread inside wakeup() are scheduled; a callback or
\* a functor returns; a poll with a finite timeout expires.  Nothing obliges
\* the application to call loop(), nor a channel to become ready.
FairSpec == /\ Spec
            /\ WF_vars(LoopStep)
            /\ \A u \in Threads : WF_vars(Wakeup(u))
-----------------------------------------------------------------------------
Queued == Range(functors) \cup Range(pendingFunctors_)

WakeupPending == wakeupfd > 0 \/ "wakeup" \in activeChannels_
                    \/ \E u \in Threads : caller[u] = "wakeup"

TypeOK == /\ pendingFunctors_ \in Seq(Tasks) /\ functors \in Seq(Tasks)
          /\ pending_ \in BOOLEAN /\ quit_ \in BOOLEAN /\ looping_ \in BOOLEAN
          /\ wakeupfd \in 0..WakeupMax
          /\ timeoutMs_ \in Timeouts /\ pollTimeout \in Timeouts
          /\ activeChannels_ \subseteq Channels
          /\ pc \in PCs
          /\ caller \in [Threads -> {"idle", "wakeup"}]
          /\ site \in [Tasks -> Sites]
          /\ ran \in Seq(Tasks)

\* A functor another thread queued, or that was queued by a functor of the
\* batch in progress, never waits in front of a blocking poll: queueInLoop's
\* condition `!isInCurrentThread() || pending_' has a wakeup on its way.
NoLostWakeup == (pc = "poll" /\ \E t \in Queued : site[t] \in {"thread", "functor"})
                    => WakeupPending

\* The loop is never about to block in epoll_wait once quit() has been
\* called without the eventfd on its way to end the wait.
QuitWakes == pc = "poll" /\ quit_ => WakeupPending

\* A functor that a channel's callback queues without a wakeup is run before
\* the loop polls again: pendingFunctors() takes everything queued so far.
CallbackQueuesForThisTurn == pc = "poll" => \A t \in Queued : site[t] # "callback"

\* What the three invariants above rest on, at every point of the cycle:
\* the batch is non-empty only while pending_ is set, the active channels
\* only while they are handled; what is queued behind the batch of this turn
\* has its wakeup, unless the loop thread queued it where pending_ is clear.
BatchInv == /\ pending_ <=> pc \in {"swap", "run", "functor"}
            /\ functors # <<>> => pc \in {"run", "functor"}
            /\ activeChannels_ # {} => pc \in {"handle", "callback"}
            /\ looping_ <=> pc # "outside"

QueuedInv == pc \notin {"handle", "callback", "swap"} =>
                \A t \in Range(pendingFunctors_) :
                    /\ site[t] # "callback"
                    /\ site[t] \in {"thread", "functor"} => WakeupPending

\* A functor nobody has handed over yet is neither queued nor run.
PostedInv == \A t \in Tasks : site[t] = "none" => t \notin Queued \cup Range(ran)

LoopInv == TypeOK /\ BatchInv /\ QueuedInv /\ QuitWakes /\ PostedInv

\* The functors in the order they were accepted, and the order they were run
\* in: EventLoop is a FIFO queue that runs each functor at most once.
TaskQueueOf == INSTANCE TaskQueue WITH queue <- functors \o pendingFunctors_

ImplementsTaskQueue == TaskQueueOf!Spec

\* A functor queued by another thread, by a callback or by a functor of the
\* batch runs, however long the poll timeout is, unless the loop is left.
PostedRuns == \A t \in Tasks :
    (t \in Queued /\ site[t] \in {"thread", "callback", "functor"} /\ looping_)
        ~> (t \in Range(ran) \/ ~looping_)

\* While polls have finite timeouts every queued functor runs unless the loop
\* is left: also one queued before loop() or by a destructor after the batch.
QueuedRuns == \A t \in Tasks :
    (t \in Queued /\ looping_)
        ~> (t \in Range(ran) \/ ~looping_ \/ pollTimeout \notin Finite)

\* Once loop() has passed the point where it clears quit_, a quit() from any
\* thread makes it return.
QuitStopsLoop == (quit_ /\ pc \notin {"outside", "enter"}) ~> pc = "outside"
=============================================================================
