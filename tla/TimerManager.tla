---------------------------- MODULE TimerManager ----------------------------
(***************************************************************************)
(* The timers of one EventLoop.  timers_ owns the timers by sequence       *)
(* number, timersOrder_ is the ordered set of their due times, the timerfd *)
(* is armed for the first of them.  A turn of the loop is: poll, take the  *)
(* time, handle channels and functors ("turn", where the application may   *)
(* add and cancel timers), and handleRead ("expire", "running") if the     *)
(* timerfd was readable.  Calls of other threads travel through `posted',  *)
(* the FIFO queue that EventLoop is shown to be (TaskQueue).               *)
(*                                                                         *)
(* Time is counted in ticks of a microsecond.  now is the wall clock,      *)
(* which may be set; the timerfd counts fdLeft ticks of the monotonic one. *)
(***************************************************************************)
EXTENDS Integers, Sequences, Functions

CONSTANTS Threads,      \* threads other than the loop's
          MaxTimers,    \* bound: timers created
          MaxTime,      \* bound: the wall clock stops there
          Whens, Intervals, \* arguments of addEvent
          ClockSteps,   \* values the wall clock may be set to
          MaxPosted     \* bound: length of posted

ASSUME TimerAssumption ==
    /\ MaxTimers \in Nat /\ MaxTime \in Nat /\ MaxPosted \in Nat
    /\ Whens \subseteq Nat /\ Intervals \subseteq Int /\ ClockSteps \subseteq Nat

Seqs == 1..MaxTimers

VARIABLES
    timers_,        \* sequence number -> timer, of the timers owned
    timersOrder_,   \* {<<due time, sequence number>>}
    cancelTimer_, currTimer_,
    s_currSeq,
    fdLeft,         \* ticks until the timerfd expires, 0 when disarmed
    readable,       \* the timerfd has expired and has not been read
    ready,          \* poll reported the timerfd and handleRead is to come
    now, time,      \* the wall clock; its value when poll returned
    phase, posted,
    adding,         \* sequence number of the timer a thread is adding, or 0
    ids,            \* the TimerID addEvent last returned to a thread, or 0
    begin, runs, cancelled  \* history: first due time, number of runs, cancelled

fdVars == <<fdLeft, readable>>
tableVars == <<timers_, timersOrder_, cancelTimer_>>
threadVars == <<adding, ids>>
histVars == <<begin, runs, cancelled>>
vars == <<tableVars, currTimer_, s_currSeq, fdVars, ready, now, time, phase, posted,
          threadVars, histVars>>

Init == /\ timers_ = <<>> /\ timersOrder_ = {} /\ cancelTimer_ = {}
        /\ currTimer_ = 0 /\ s_currSeq = 0
        /\ fdLeft = 0 /\ readable = FALSE /\ ready = FALSE
        /\ now = 0 /\ time = 0
        /\ phase = "poll" /\ posted = <<>>
        /\ adding = [u \in Threads |-> 0] /\ ids = [u \in Threads |-> 0]
        /\ begin = [s \in Seqs |-> 0] /\ runs = [s \in Seqs |-> 0]
        /\ cancelled = {}

\* The order of std::pair<Timestamp, uint64_t>.
Before(a, b) == a[1] < b[1] \/ (a[1] = b[1] /\ a[2] < b[2])

\* *order.begin()
IsFirst(e, order) == e \in order /\ \A f \in order \ {e} : Before(e, f)

Entries(timers) == {<<timers[s].when, s>> : s \in DOMAIN timers}

\* Mutant: the relative time is not clamped; 0 disarms the timerfd.
ResetUnclamped(when) ==
    /\ fdLeft' = IF when > now THEN when - now ELSE 0
    /\ readable' = FALSE

\* resetTimerfd(): at least 1, since 0 would disarm; setting it clears readiness.
ResetTimerfd(when) ==
    /\ fdLeft' = IF when > now THEN when - now ELSE 1
    /\ readable' = FALSE

\* Mutant: the timerfd is armed for the first timer added only.
DueOnly(when) == currTimer_ = 0 /\ timersOrder_ = {}

\* A new timer is due before all others, and no handleRead is going to rearm.
DueFirst(when) == currTimer_ = 0 /\ \A e \in timersOrder_ : e[1] > when

\* The functor of addEvent, run by the loop thread.
Insert(s, when, interval) ==
    /\ timers_' = [t \in DOMAIN timers_ \cup {s} |->
                      IF t = s THEN [when |-> when, interval |-> interval] ELSE timers_[t]]
    /\ timersOrder_' = timersOrder_ \cup {<<when, s>>}
    /\ IF DueFirst(when)
       THEN ResetTimerfd(when) ELSE UNCHANGED fdVars
    /\ begin' = [begin EXCEPT ![s] = when]
    /\ UNCHANGED <<cancelTimer_, currTimer_, runs, cancelled>>

\* Mutant: a timer that cancels itself is destroyed while its function runs.
EraseRunning(s) == UNCHANGED cancelTimer_

KeepRunning(s) ==
    cancelTimer_' = IF s = currTimer_ THEN cancelTimer_ \cup {s} ELSE cancelTimer_

EraseEntry(s) == timersOrder_' = timersOrder_ \ {<<timers_[s].when, s>>}

\* Mutant: the timer that is running cannot be cancelled.
FoundIdle(s) == s \in DOMAIN timers_ \ {currTimer_}

Found(s) == s \in DOMAIN timers_

\* The functor of cancelEvent, run by the loop thread.
Erase(s) ==
    /\ cancelled' = IF s \in DOMAIN timers_ THEN cancelled \cup {s} ELSE cancelled
    /\ IF Found(s)
       THEN /\ timers_' = Restrict(timers_, DOMAIN timers_ \ {s})
            /\ EraseEntry(s)
            /\ KeepRunning(s)
            /\ IF /\ currTimer_ = 0 /\ timersOrder_' # {}
                  /\ IsFirst(<<timers_[s].when, s>>, timersOrder_)
               THEN \E e \in timersOrder_' : IsFirst(e, timersOrder_') /\ ResetTimerfd(e[1])
               ELSE UNCHANGED fdVars
       ELSE UNCHANGED <<tableVars, fdVars>>
    /\ UNCHANGED <<currTimer_, begin, runs>>
-----------------------------------------------------------------------------
TakeNumber == s_currSeq' = s_currSeq + 1

\* timerRepeatAt() turns an interval that is not positive into a single shot.
Interval(interval) == IF interval > 0 THEN interval ELSE 0

(* addEvent and cancelEvent called by the loop thread from application     *)
(* code: a callback, a functor or the function of a timer that is running. *)

LocalAdd(when, interval) ==
    /\ phase \in {"turn", "running"} /\ s_currSeq < MaxTimers
    /\ TakeNumber
    /\ Insert(s_currSeq', when, Interval(interval))
    /\ UNCHANGED <<ready, now, time, phase, posted, threadVars>>

LocalCancel(s) ==
    /\ phase \in {"turn", "running"} /\ s <= s_currSeq
    /\ Erase(s)
    /\ UNCHANGED <<s_currSeq, ready, now, time, phase, posted, threadVars>>

(* ... and by another thread: the timer is created, handed to the loop,    *)
(* and only then read for the TimerID that is returned.                    *)

RemoteAdd(u, when, interval) ==
    /\ adding[u] = 0 /\ s_currSeq < MaxTimers /\ Len(posted) < MaxPosted
    /\ TakeNumber
    /\ posted' = Append(posted, [op |-> "add", seq |-> s_currSeq', when |-> when,
                                 interval |-> Interval(interval)])
    /\ adding' = [adding EXCEPT ![u] = s_currSeq']
    /\ UNCHANGED <<tableVars, currTimer_, fdVars, ready, now, time, phase, ids, histVars>>

\* The loop thread may have destroyed the timer already: the number is then
\* read from freed memory and may be any.
TimerExists(s) == \/ s \in DOMAIN timers_ \cup cancelTimer_
                  \/ \E i \in DOMAIN posted : posted[i].op = "add" /\ posted[i].seq = s

RemoteAddReturns(u) ==
    /\ adding[u] # 0
    /\ \E s \in Seqs : /\ TimerExists(adding[u]) => s = adding[u]
                       /\ ids' = [ids EXCEPT ![u] = s]
    /\ adding' = [adding EXCEPT ![u] = 0]
    /\ UNCHANGED <<tableVars, currTimer_, s_currSeq, fdVars, ready, now, time, phase, posted, histVars>>

RemoteCancel(u) ==
    /\ adding[u] = 0 /\ ids[u] # 0 /\ Len(posted) < MaxPosted
    /\ posted' = Append(posted, [op |-> "cancel", seq |-> ids[u], when |-> 0, interval |-> 0])
    /\ UNCHANGED <<tableVars, currTimer_, s_currSeq, fdVars, ready, now, time, phase,
                   threadVars, histVars>>
-----------------------------------------------------------------------------
(* The loop thread.                                                        *)

PollReturn ==
    /\ phase = "poll"
    /\ time' = now
    /\ ready' = readable
    /\ phase' = "turn"
    /\ UNCHANGED <<tableVars, currTimer_, s_currSeq, fdVars, now, posted, threadVars, histVars>>

RunPosted ==
    /\ phase = "turn" /\ ~ready /\ posted # <<>>
    /\ LET p == Head(posted) IN
           IF p.op = "add" THEN Insert(p.seq, p.when, p.interval) ELSE Erase(p.seq)
    /\ posted' = Tail(posted)
    /\ UNCHANGED <<s_currSeq, ready, now, time, phase, threadVars>>

TurnEnd ==
    /\ phase = "turn" /\ ~ready
    /\ phase' = "poll"
    /\ UNCHANGED <<tableVars, currTimer_, s_currSeq, fdVars, ready, now, time, posted,
                   threadVars, histVars>>

HandleReadBegin ==
    /\ phase = "turn" /\ ready
    /\ readable' = FALSE /\ ready' = FALSE
    /\ phase' = "expire"
    /\ UNCHANGED <<tableVars, currTimer_, s_currSeq, fdLeft, now, time, posted, threadVars, histVars>>

\* An entry without a timer would be dropped with an error message.
RunTimer ==
    /\ phase = "expire"
    /\ \E e \in timersOrder_ :
           /\ IsFirst(e, timersOrder_) /\ e[1] <= time
           /\ IF e[2] \in DOMAIN timers_
              THEN /\ currTimer_' = e[2]
                   /\ runs' = [runs EXCEPT ![e[2]] = @ + 1]
                   /\ phase' = "running"
                   /\ UNCHANGED timersOrder_
              ELSE /\ timersOrder_' = timersOrder_ \ {e}
                   /\ UNCHANGED <<currTimer_, runs, phase>>
    /\ UNCHANGED <<timers_, cancelTimer_, s_currSeq, fdVars, ready, now, time, posted,
                   threadVars, begin, cancelled>>

\* Mutant: the next period starts when the timer ran.
NextFromTime(timer) == time + timer.interval

\* Timer::reset()
NextWhen(timer) == timer.when + timer.interval

RunReturns ==
    /\ phase = "running"
    /\ currTimer_' = 0 /\ phase' = "expire"
    /\ LET s == currTimer_ IN
       IF s \notin DOMAIN timers_
       THEN UNCHANGED <<timers_, timersOrder_>>
       ELSE IF timers_[s].interval # 0
       THEN /\ timers_' = [timers_ EXCEPT ![s].when = NextWhen(timers_[s])]
            /\ timersOrder_' = (timersOrder_ \ {<<timers_[s].when, s>>})
                                   \cup {<<NextWhen(timers_[s]), s>>}
       ELSE /\ timers_' = Restrict(timers_, DOMAIN timers_ \ {s})
            /\ timersOrder_' = timersOrder_ \ {<<timers_[s].when, s>>}
    /\ UNCHANGED <<cancelTimer_, s_currSeq, fdVars, ready, now, time, posted, threadVars, histVars>>

\* Mutant: handleRead does not arm the timerfd for the next timer.
NoRearm == UNCHANGED fdVars

Rearm == IF timersOrder_ = {} THEN UNCHANGED fdVars
         ELSE \E e \in timersOrder_ : IsFirst(e, timersOrder_) /\ ResetTimerfd(e[1])

HandleReadEnd ==
    /\ phase = "expire"
    /\ \A e \in timersOrder_ : e[1] > time
    /\ cancelTimer_' = {}
    /\ Rearm
    /\ phase' = "turn"
    /\ UNCHANGED <<timers_, timersOrder_, currTimer_, s_currSeq, ready, now, time, posted,
                   threadVars, histVars>>
-----------------------------------------------------------------------------
(* The clocks.  The wall clock stops at MaxTime, the timerfd goes on.      *)

Tick ==
    /\ now < MaxTime \/ fdLeft > 0
    /\ now' = IF now < MaxTime THEN now + 1 ELSE now
    /\ fdLeft' = IF fdLeft > 0 THEN fdLeft - 1 ELSE 0
    /\ readable' = (readable \/ fdLeft = 1)
    /\ UNCHANGED <<tableVars, currTimer_, s_currSeq, ready, time, phase, posted, threadVars, histVars>>

SetClock(t) ==
    /\ now' = t
    /\ UNCHANGED <<tableVars, currTimer_, s_currSeq, fdVars, ready, time, phase, posted,
                   threadVars, histVars>>
-----------------------------------------------------------------------------
Local == \/ \E when \in Whens, interval \in Intervals : LocalAdd(when, interval)
         \/ \E s \in Seqs : LocalCancel(s)

Remote(u) == \/ \E when \in Whens, interval \in Intervals : RemoteAdd(u, when, interval)
             \/ RemoteAddReturns(u) \/ RemoteCancel(u)

LoopStep == \/ (readable /\ PollReturn) \/ TurnEnd
            \/ HandleReadBegin \/ RunTimer \/ RunReturns \/ HandleReadEnd

Next == \/ LoopStep \/ PollReturn \/ RunPosted
        \/ Local \/ \E u \in Threads : Remote(u)
        \/ Tick \/ \E t \in ClockSteps : SetClock(t)

Spec == Init /\ [][Next]_vars

\* The loop polls again and again and returns when the timerfd is readable
\* (EventLoop), the function of a timer returns, time passes.
FairSpec == Spec /\ WF_vars(LoopStep) /\ WF_vars(Tick)
-----------------------------------------------------------------------------
TypeOK ==
    /\ DOMAIN timers_ \subseteq Seqs
    /\ timers_ \in [DOMAIN timers_ -> [when : Nat, interval : Nat]]
    /\ cancelTimer_ \subseteq Seqs /\ cancelled \subseteq Seqs
    /\ currTimer_ \in 0..s_currSeq /\ s_currSeq \in 0..MaxTimers
    /\ fdLeft \in Nat /\ readable \in BOOLEAN /\ ready \in BOOLEAN
    /\ now \in Nat /\ time \in Nat
    /\ phase \in {"poll", "turn", "expire", "running"}
    /\ posted \in Seq([op : {"add", "cancel"}, seq : Seqs, when : Nat, interval : Nat])
    /\ adding \in [Threads -> 0..MaxTimers] /\ ids \in [Threads -> 0..MaxTimers]
    /\ begin \in [Seqs -> Nat] /\ runs \in [Seqs -> Nat]

Adds == {i \in DOMAIN posted : posted[i].op = "add"}

\* A sequence number belongs to one timer for ever: the timers owned, kept for
\* the running function or cancelled have numbers handed out, a queued add
\* brings a number that no other add and no timer has, and a number not in use
\* yet has not run.
OneTimerPerNumber ==
    /\ DOMAIN timers_ \cup cancelTimer_ \cup cancelled \subseteq 1..s_currSeq
    /\ DOMAIN timers_ \cap cancelled = {}
    /\ \A s \in Seqs : s > s_currSeq => runs[s] = 0
    /\ \A i \in Adds :
           /\ posted[i].seq \in (1..s_currSeq) \ (DOMAIN timers_ \cup cancelled \cup {currTimer_})
           /\ runs[posted[i].seq] = 0
           /\ \A j \in Adds : posted[i].seq = posted[j].seq => i = j

\* timersOrder_ holds exactly one entry for each timer owned, with its due
\* time: handleRead always finds the timer of an entry, and cancelEvent never
\* looks at the first entry of an empty set.
OrderMatchesTimers == timersOrder_ = Entries(timers_)

\* The function that is running belongs to a timer that still exists, even if
\* it has cancelled itself.
RunningTimerExists ==
    /\ phase = "running" <=> currTimer_ # 0
    /\ currTimer_ # 0 => currTimer_ \in DOMAIN timers_ \cup cancelTimer_

\* The tables of TimerManager agree with each other, with the numbers and with
\* the function that is running.
TimerInv == TypeOK /\ OneTimerPerNumber /\ OrderMatchesTimers /\ RunningTimerExists

\* Whenever handleRead is not still to come, a pending timer has the timerfd
\* expired or counting.
TimerArmed == (phase \in {"poll", "turn"} /\ ~ready /\ timersOrder_ # {})
                 => readable \/ fdLeft > 0

\* While the wall clock is not set forward, the timerfd expires no later than
\* the first timer is due (one tick from now if it is overdue).
Punctual == (phase \in {"poll", "turn"} /\ ~ready) =>
    \A e \in timersOrder_ : \/ readable
                            \/ 0 < fdLeft /\ (fdLeft = 1 \/ fdLeft <= e[1] - now)

\* A cancel that found its timer is final: it never runs again, not even one
\* that was due in the same handleRead or cancelled itself.
CancelledNeverRuns == [][\A s \in cancelled : runs'[s] = runs[s]]_vars

\* Periods are counted from the first due time, whatever the delay of each
\* run: no drift, no period skipped or run twice, and one-shot timers go.
RunsAccountedFor ==
    \A s \in DOMAIN timers_ :
        LET done == IF s = currTimer_ THEN runs[s] - 1 ELSE runs[s]
        IN  /\ timers_[s].when = begin[s] + done * timers_[s].interval
            /\ timers_[s].interval = 0 => done = 0

\* If the wall clock is set only finitely often, a timer due within the horizon
\* runs (and, if it repeats, moves on) unless it is cancelled.
DueTimerRuns ==
    <>[][now' \in {now, now + 1}]_now =>
        \A s \in Seqs : (s \in DOMAIN timers_ /\ timers_[s].when <= MaxTime)
                            ~> (s \in DOMAIN timers_ => timers_[s].when > MaxTime)
=============================================================================
