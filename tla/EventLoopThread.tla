-------------------------- MODULE EventLoopThread --------------------------
(***************************************************************************)
(* EventLoopThread objects (Elts): start() creates a thread that owns an   *)
(* EventLoop on its stack and blocks until the thread has published it in  *)
(* loop_; the destructor asks the published loop to quit and joins.  The   *)
(* two condition variables (Thread::cv_ for id_, EventLoopThread::cv_ for  *)
(* loop_) are explicit: a waiter tests its predicate under the mutex and   *)
(* sleeps until a notification or a spurious wakeup.  Steps under a mutex  *)
(* are atomic.                                                             *)
(*                                                                         *)
(* elt[e] holds the members of e and of its Thread, where its thread       *)
(* stands (tpc), and the quit_ and the lifetime of the loop on its stack;  *)
(* that a quit() makes loop() return, once loop() has cleared quit_, is    *)
(* EventLoop!QuitStopsLoop.  call[c] is where caller c stands in a member  *)
(* function of obj, and what start() last returned to it.                  *)
(***************************************************************************)
EXTENDS Naturals

CONSTANTS Callers,     \* threads that call start() and the destructor
          Elts,        \* EventLoopThread objects
          Quitters     \* those whose loop may be quit by code it runs

ASSUME QuittersAssumption == Quitters \subseteq Elts

VARIABLES elt, call,
          terminated   \* std::terminate has been called

vars == <<elt, call, terminated>>

TPCs == {"none", "setId", "notifyId", "construct", "init", "publish", "notify", "enter",
         "looping", "unpublish", "destroy", "done"}
InsideStart == {"store", "threadCheck", "spawn", "waitId", "sleepId", "waitLoop",
                "sleepLoop", "return"}
InsideDtor == {"join", "joining", "release"}

Init == /\ elt = [e \in Elts |->
                     [started_ |-> FALSE, loop_ |-> FALSE,       \* loop_: not nullptr
                      threadStarted_ |-> FALSE, joined_ |-> FALSE,
                      id_ |-> FALSE,                             \* not empty
                      tpc |-> "none", quit_ |-> FALSE, alive |-> FALSE,
                      destroyed |-> FALSE,
                      dtorQuit |-> "none"]]     \* fate of the destructor's quit()
        /\ call \in [Callers -> [pos : {"idle"}, obj : Elts, result : {"none"}]]
        /\ terminated = FALSE

At(c, p) == call[c].pos = p

Goto(c, p) == call' = [call EXCEPT ![c].pos = p]

\* The callers asleep at `from' in a condition variable of object e.
Sleepers(e, from) == {c \in Callers : At(c, from) /\ call[c].obj = e}

\* What start() returns: loop_
Loop(e) == IF elt[e].loop_ THEN "loop" ELSE "nullptr"
-----------------------------------------------------------------------------
(* EventLoopThread::start() and Thread::start()                            *)

StartCheck(c, e) ==
    /\ At(c, "idle") /\ ~elt[e].destroyed
    /\ \A d \in Callers : call[d].obj = e => call[d].pos \notin InsideDtor
    /\ call' = [call EXCEPT ![c] =
                   IF elt[e].started_ THEN [pos |-> "idle", obj |-> e, result |-> Loop(e)]
                                      ELSE [@ EXCEPT !.pos = "store", !.obj = e]]
    /\ UNCHANGED <<elt, terminated>>

StartStore(c) ==
    /\ At(c, "store") /\ Goto(c, "threadCheck")
    /\ elt' = [elt EXCEPT ![call[c].obj].started_ = TRUE]
    /\ UNCHANGED terminated

ThreadStartCheck(c) ==
    /\ At(c, "threadCheck")
    /\ Goto(c, IF elt[call[c].obj].threadStarted_ THEN "waitLoop" ELSE "spawn")
    /\ UNCHANGED <<elt, terminated>>

\* Assigning to a std::thread that is joinable calls std::terminate.
ThreadSpawn(c) ==
    /\ At(c, "spawn") /\ Goto(c, "waitId")
    /\ LET e == call[c].obj IN
           /\ terminated' = (elt[e].tpc # "none")
           /\ elt' = [elt EXCEPT ![e].threadStarted_ = TRUE,
                                 ![e].tpc = IF @ = "none" THEN "setId" ELSE @]

WaitId(c) ==
    /\ At(c, "waitId") /\ Goto(c, IF elt[call[c].obj].id_ THEN "waitLoop" ELSE "sleepId")
    /\ UNCHANGED <<elt, terminated>>

\* Mutant: cv_.wait() without a predicate.
WaitLoopNoPredicate(c) ==
    /\ At(c, "waitLoop") /\ Goto(c, "return")
    /\ UNCHANGED <<elt, terminated>>

WaitLoop(c) ==
    /\ At(c, "waitLoop") /\ Goto(c, IF elt[call[c].obj].loop_ THEN "return" ELSE "sleepLoop")
    /\ UNCHANGED <<elt, terminated>>

SpuriousWakeup(c) ==
    /\ \/ At(c, "sleepId") /\ Goto(c, "waitId")
       \/ At(c, "sleepLoop") /\ Goto(c, "waitLoop")
    /\ UNCHANGED <<elt, terminated>>

\* loop_ is read after the mutex has been released.
StartReturn(c) ==
    /\ At(c, "return")
    /\ call' = [call EXCEPT ![c].pos = "idle", ![c].result = Loop(call[c].obj)]
    /\ UNCHANGED <<elt, terminated>>
-----------------------------------------------------------------------------
(* ~EventLoopThread(), Thread::join() and ~Thread()                        *)

\* Mutant: the destructor joins without asking the loop to quit.
DtorForgetsQuit(e) == UNCHANGED elt

QuitIfPublished(e) ==
    elt' = IF elt[e].loop_ THEN [elt EXCEPT ![e].quit_ = TRUE, ![e].dtorQuit = "sent"] ELSE elt

\* Destroying an object while another thread is inside it is excluded.
DtorQuit(c, e) ==
    /\ ~elt[e].destroyed
    /\ At(c, "idle") /\ \A d \in Callers : call[d].obj = e => At(d, "idle")
    /\ call' = [call EXCEPT ![c].pos = "join", ![c].obj = e]
    /\ QuitIfPublished(e)
    /\ UNCHANGED terminated

\* Mutant: join() does not wait for the thread.
NoWait(e) == "release"

WaitIfStarted(e) == IF elt[e].threadStarted_ THEN "joining" ELSE "release"

Join(c) ==
    /\ At(c, "join") /\ Goto(c, WaitIfStarted(call[c].obj))
    /\ elt' = [elt EXCEPT ![call[c].obj].joined_ = elt[call[c].obj].threadStarted_]
    /\ UNCHANGED terminated

Joined(c) ==
    /\ At(c, "joining") /\ elt[call[c].obj].tpc = "done" /\ Goto(c, "release")
    /\ UNCHANGED <<elt, terminated>>

Destroyed(c) ==
    /\ At(c, "release") /\ Goto(c, "idle")
    /\ elt' = [elt EXCEPT ![call[c].obj].destroyed = TRUE]
    /\ terminated' = LET x == elt[call[c].obj] IN x.threadStarted_ /\ ~x.joined_
-----------------------------------------------------------------------------
(* The thread: the lambda of Thread::start(), then threadFunc()            *)

\* One step of the thread that no caller is told of: `field' is assigned.
ThreadAssigns(e, from, to, field, value) ==
    /\ elt[e].tpc = from
    /\ elt' = [elt EXCEPT ![e][field] = value, ![e].tpc = to]
    /\ UNCHANGED <<call, terminated>>

SetId(e) == ThreadAssigns(e, "setId", "notifyId", "id_", TRUE)

NotifyId(e) ==       \* notify_all
    /\ elt[e].tpc = "notifyId"
    /\ elt' = [elt EXCEPT ![e].tpc = "construct"]
    /\ call' = [c \in Callers |-> IF c \in Sleepers(e, "sleepId")
                                  THEN [call[c] EXCEPT !.pos = "waitId"] ELSE call[c]]
    /\ UNCHANGED terminated

Construct(e) == ThreadAssigns(e, "construct", "init", "alive", TRUE)

InitReturns(e) == ThreadAssigns(e, "init", "publish", "alive", TRUE)

Publish(e) == ThreadAssigns(e, "publish", "notify", "loop_", TRUE)

\* Mutant: cv_ is never notified.
NotifyNobody(e) == UNCHANGED call

NotifyOne(e) == IF Sleepers(e, "sleepLoop") = {} THEN UNCHANGED call
                ELSE \E c \in Sleepers(e, "sleepLoop") : Goto(c, "waitLoop")

Notify(e) ==
    /\ elt[e].tpc = "notify"
    /\ elt' = [elt EXCEPT ![e].tpc = "enter"]
    /\ NotifyOne(e)
    /\ UNCHANGED terminated

\* loop() clears quit_, whoever has set it.
LoopReset(e) ==
    /\ elt[e].tpc = "enter"
    /\ elt' = [elt EXCEPT ![e].quit_ = FALSE, ![e].tpc = "looping",
                          ![e].dtorQuit = IF @ = "sent" THEN "lost" ELSE @]
    /\ UNCHANGED <<call, terminated>>

\* The initialisation function, a callback or a functor calls quit().
AppQuit(e) ==
    /\ e \in Quitters /\ elt[e].tpc \in {"init", "looping"}
    /\ elt' = [elt EXCEPT ![e].quit_ = TRUE]
    /\ UNCHANGED <<call, terminated>>

LoopExit(e) == elt[e].quit_ /\ ThreadAssigns(e, "looping", "unpublish", "quit_", TRUE)

\* Mutant: loop_ still points at the loop after loop() has returned.
StayPublished(e) == ThreadAssigns(e, "unpublish", "destroy", "loop_", TRUE)

Unpublish(e) == ThreadAssigns(e, "unpublish", "destroy", "loop_", FALSE)

ThreadDone(e) == ThreadAssigns(e, "destroy", "done", "alive", FALSE)
-----------------------------------------------------------------------------
InCall(c) == \/ StartStore(c) \/ ThreadStartCheck(c) \/ ThreadSpawn(c)
             \/ WaitId(c) \/ WaitLoop(c) \/ StartReturn(c)
             \/ Join(c) \/ Joined(c) \/ Destroyed(c)

ThreadStep(e) == \/ SetId(e) \/ NotifyId(e) \/ Construct(e) \/ InitReturns(e)
                 \/ Publish(e) \/ Notify(e) \/ LoopReset(e)
                 \/ LoopExit(e) \/ Unpublish(e) \/ ThreadDone(e)

Next == /\ ~terminated
        /\ \/ \E c \in Callers : \/ InCall(c) \/ SpuriousWakeup(c)
                                 \/ \E e \in Elts : StartCheck(c, e) \/ DtorQuit(c, e)
           \/ \E e \in Elts : ThreadStep(e) \/ AppQuit(e)

Spec == Init /\ [][Next]_vars

\* Every thread inside a call and every loop thread is scheduled; nobody has
\* to call anything, and no sleeper wakes without a notification.
FairSpec == /\ Spec
            /\ \A c \in Callers : WF_vars(~terminated /\ InCall(c))
            /\ \A e \in Elts : WF_vars(~terminated /\ ThreadStep(e))
-----------------------------------------------------------------------------
TypeOK ==
    /\ elt \in [Elts -> [started_ : BOOLEAN, loop_ : BOOLEAN, threadStarted_ : BOOLEAN,
                         joined_ : BOOLEAN, id_ : BOOLEAN, tpc : TPCs, quit_ : BOOLEAN,
                         alive : BOOLEAN, destroyed : BOOLEAN,
                         dtorQuit : {"none", "sent", "lost"}]]
    /\ call \in [Callers -> [pos : {"idle"} \cup InsideStart \cup InsideDtor, obj : Elts,
                             result : {"none", "nullptr", "loop"}]]
    /\ terminated \in BOOLEAN

\* What the position of a thread says of the flags the callers see: id_ is set
\* once, loop_ exactly while the loop may be entered, and the loop exists from
\* before it is published until after it has been withdrawn.
Protocol ==
    \A e \in Elts : LET x == elt[e] IN
        /\ x.threadStarted_ <=> x.tpc # "none"
        /\ x.id_ <=> x.tpc \notin {"none", "setId"}
        /\ x.loop_ <=> x.tpc \in {"notify", "enter", "looping", "unpublish"}
        /\ x.alive <=> x.tpc \in {"init", "publish", "notify", "enter", "looping",
                                  "unpublish", "destroy"}

ThreadInv == TypeOK /\ Protocol

\* Whoever finds loop_ set under the mutex may call the loop: the destructor's
\* quit() never reaches an EventLoop that has left its thread's stack.
PublishedLoopAlive == \A e \in Elts : elt[e].loop_ => elt[e].alive

\* Once ~EventLoopThread has returned the thread has ended, and ~Thread has
\* not terminated the program.
DestroyedMeansThreadEnded ==
    \A e \in Elts : elt[e].destroyed => elt[e].tpc \in {"none", "done"} /\ ~terminated

\* With one caller, what start() returned is a live loop until the destructor
\* (or the code the loop runs) asks it to quit, and a second start() returns
\* it again.
StartReturnsLiveLoop ==
    \A c \in Callers : LET e == call[c].obj IN
        (/\ At(c, "idle") /\ call[c].result # "none" /\ e \notin Quitters
         /\ elt[e].started_ /\ elt[e].dtorQuit = "none")
            => call[c].result = "loop" /\ elt[e].alive

\* start() returns if the loop is not quit by the code it runs.
StartReturns ==
    \A c \in Callers : (call[c].pos \in InsideStart /\ call[c].obj \notin Quitters) ~> At(c, "idle")

\* "blocking until EventLoop has created" (EventLoopThread.h), and no longer:
\* start() returns whatever the loop does once it has been created.
StartReturnsOnceCreated == \A c \in Callers : call[c].pos \in InsideStart ~> At(c, "idle")

\* ~EventLoopThread returns, unless its quit() came after the loop had been
\* published and before loop() cleared quit_: then it joins a loop that no
\* one will ever stop.
DestructorReturns ==
    \A e \in Elts : (\E c \in Callers : call[c].obj = e /\ At(c, "joining"))
                        ~> (elt[e].destroyed \/ elt[e].dtorQuit = "lost")
=============================================================================
