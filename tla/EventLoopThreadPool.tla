------------------------ MODULE EventLoopThreadPool ------------------------
(***************************************************************************)
(* EventLoopThreadPool: the pool's owner starts one EventLoopThread after  *)
(* another (start() of each blocks until its loop is published), other     *)
(* threads ask started() and getNextLoop(), and the destructor destroys    *)
(* the EventLoopThreads in order.  The EventLoopThreads are those of       *)
(* module EventLoopThread, with the owner as their caller, who may have    *)
(* others besides and starts and destroys those outside of its calls of    *)
(* the pool.                                                               *)
(***************************************************************************)
EXTENDS EventLoopThread

CONSTANTS Owner,       \* the thread that constructs, starts and destroys
          NumThreads,  \* numSubThread
          UIntSize,    \* 2^32: next_ is an atomic<unsigned int>
          MaxCalls     \* bound on the times a loop is given out

PoolThreads == 1..NumThreads

ASSUME PoolAssumption == /\ NumThreads \in Nat \ {0} /\ PoolThreads \subseteq Elts
                         /\ Owner \in Callers
                         /\ UIntSize \in Nat \ {0} /\ MaxCalls \in Nat

VARIABLES poolStarted_,   \* EventLoopThreadPool::started_
          loops_,         \* what each element of loops_ holds
          next_,
          ppc, idx,       \* where the owner stands, and at which thread
          given, turns    \* history: how often getNextLoop returned each
                          \* element, and any element

histVars == <<given, turns>>
poolVars == <<poolStarted_, loops_, next_, ppc, idx, histVars>>
allVars == <<vars, poolVars>>

PoolInit == /\ Init
            /\ poolStarted_ = FALSE
            /\ loops_ = [e \in PoolThreads |-> "nullptr"]
            /\ next_ = 0
            /\ ppc = "created" /\ idx = 1
            /\ given = [e \in PoolThreads |-> 0] /\ turns = 0

PoolStart ==
    /\ ppc = "created" /\ ~poolStarted_ /\ At(Owner, "idle") /\ ppc' = "starting"
    /\ poolStarted_' = TRUE
    /\ UNCHANGED <<vars, loops_, next_, idx, histVars>>

StartThread ==
    /\ ppc = "starting" /\ idx <= NumThreads
    /\ call[Owner].obj = idx => call[Owner].result = "none"
    /\ StartCheck(Owner, idx)
    /\ UNCHANGED poolVars

ThreadStarted ==
    /\ ppc = "starting" /\ At(Owner, "idle")
    /\ call[Owner].obj = idx /\ call[Owner].result # "none"
    /\ loops_' = [loops_ EXCEPT ![idx] = call[Owner].result]
    /\ call' = [call EXCEPT ![Owner].result = "none"]
    /\ idx' = idx + 1
    /\ UNCHANGED <<elt, terminated, poolStarted_, next_, ppc, histVars>>

PoolRunning ==
    /\ ppc = "starting" /\ idx > NumThreads /\ ppc' = "running"
    /\ UNCHANGED <<vars, poolStarted_, loops_, next_, idx, histVars>>

PoolDestroy ==
    /\ ppc = "running" /\ At(Owner, "idle") /\ ppc' = "destroying" /\ idx' = 1
    /\ UNCHANGED <<vars, poolStarted_, loops_, next_, histVars>>

DestroyThread ==
    /\ ppc = "destroying" /\ idx <= NumThreads
    /\ DtorQuit(Owner, idx)
    /\ UNCHANGED poolVars

ThreadDestroyed ==
    /\ ppc = "destroying" /\ idx <= NumThreads /\ elt[idx].destroyed /\ At(Owner, "idle")
    /\ idx' = idx + 1
    /\ UNCHANGED <<vars, poolStarted_, loops_, next_, ppc, histVars>>

PoolDestroyed ==
    /\ ppc = "destroying" /\ idx > NumThreads /\ ppc' = "destroyed"
    /\ UNCHANGED <<vars, poolStarted_, loops_, next_, idx, histVars>>

\* The owner's EventLoopThreads outside of the pool.
OwnThread ==
    /\ ppc \in {"created", "running", "destroyed"}
    /\ \E e \in Elts \ PoolThreads : StartCheck(Owner, e) \/ DtorQuit(Owner, e)
    /\ UNCHANGED poolVars

Advance(n) == (n + 1) % UIntSize

Turn(n) == (n % NumThreads) + 1

\* Mutant: next_ is read and written in two steps; two threads that read the
\* same value are given the same loop, and one increment is lost.
GiveTwice(e) == given[e] + 1 < MaxCalls /\ given' = [given EXCEPT ![e] = @ + 2]

Give(e) == given[e] < MaxCalls /\ given' = [given EXCEPT ![e] = @ + 1]

\* getNextLoop() of any thread: the post-increment is one atomic step.
GetNextLoop ==
    /\ ppc \in {"starting", "running"}
    /\ Give(Turn(next_))
    /\ next_' = Advance(next_) /\ turns' = turns + 1
    /\ UNCHANGED <<vars, poolStarted_, loops_, ppc, idx>>

OwnerStep == \/ PoolStart \/ StartThread \/ ThreadStarted \/ PoolRunning
             \/ DestroyThread \/ ThreadDestroyed \/ PoolDestroyed

ThreadsStep == /\ \/ InCall(Owner) \/ SpuriousWakeup(Owner)
                  \/ \E e \in Elts : ThreadStep(e) \/ AppQuit(e)
               /\ UNCHANGED poolVars

PoolNext == OwnerStep \/ ThreadsStep \/ PoolDestroy \/ OwnThread \/ GetNextLoop

PoolSpec == PoolInit /\ [][PoolNext]_allVars

\* The owner, once it has begun to start or destroy the pool, and the loop
\* threads are scheduled.
PoolFairSpec ==
    /\ PoolSpec
    /\ WF_allVars(OwnerStep)
    /\ WF_allVars(InCall(Owner) /\ UNCHANGED poolVars)
    /\ \A e \in Elts : WF_allVars(ThreadStep(e) /\ UNCHANGED poolVars)
-----------------------------------------------------------------------------
PoolTypeOK ==
    /\ ThreadInv
    /\ poolStarted_ \in BOOLEAN
    /\ loops_ \in [PoolThreads -> {"nullptr", "loop"}]
    /\ next_ \in 0..UIntSize - 1
    /\ ppc \in {"created", "starting", "running", "destroying", "destroyed"}
    /\ idx \in 1..NumThreads + 1
    /\ given \in [PoolThreads -> 0..MaxCalls] /\ turns \in Nat

\* Between start() and the destructor, getNextLoop() and getAllLoops() return
\* only live loops, but for sub-loops that application code has quit.
RunningPoolHasLiveLoops ==
    ppc = "running" => \A e \in PoolThreads \ Quitters : loops_[e] = "loop" /\ elt[e].alive

PoolInv == PoolTypeOK /\ RunningPoolHasLiveLoops

\* The loops take turns: no loop is ahead of another by more than one, and by
\* at most one more for each time next_ wraps around UIntSize.
Balanced == \A e, f \in PoolThreads : given[e] <= given[f] + 1 + turns \div UIntSize

\* ~EventLoopThreadPool ends every loop, unless a quit() was lost.
PoolIsDestroyed ==
    ppc = "destroying" ~> (ppc = "destroyed" \/ \E e \in Elts : elt[e].dtorQuit = "lost")
=============================================================================
