----------------------- MODULE EventLoopThreadProofs -----------------------
(***************************************************************************)
(* What EventLoopThread guarantees for every number of callers and         *)
(* objects, whoever starts and destroys them and whoever quits their loop. *)
(***************************************************************************)
EXTENDS EventLoopThreadPool, Integers, TLAPS

\* The type of one object, and what Protocol says of it.
Objects == [started_ : BOOLEAN, loop_ : BOOLEAN, threadStarted_ : BOOLEAN,
            joined_ : BOOLEAN, id_ : BOOLEAN, tpc : TPCs, quit_ : BOOLEAN,
            alive : BOOLEAN, destroyed : BOOLEAN, dtorQuit : {"none", "sent", "lost"}]

Follows(x) ==
    /\ x.threadStarted_ <=> x.tpc # "none"
    /\ x.id_ <=> x.tpc \notin {"none", "setId"}
    /\ x.loop_ <=> x.tpc \in {"notify", "enter", "looping", "unpublish"}
    /\ x.alive <=> x.tpc \in {"init", "publish", "notify", "enter", "looping",
                              "unpublish", "destroy"}

Good(x) == x \in Objects /\ Follows(x)

Calls == [pos : {"idle"} \cup InsideStart \cup InsideDtor, obj : Elts,
          result : {"none", "nullptr", "loop"}]

\* ThreadInv, taken apart by object.
LEMMA InvEach ==
    ThreadInv <=> /\ elt \in [Elts -> Objects] /\ \A e \in Elts : Good(elt[e])
                  /\ call \in [Callers -> Calls]
                  /\ terminated \in BOOLEAN
BY DEF ThreadInv, TypeOK, Protocol, Good, Follows, Objects, Calls

\* ... and in the next state.
LEMMA InvEachNext ==
    ThreadInv' <=> /\ elt' \in [Elts -> Objects] /\ \A e \in Elts : Good(elt'[e])
                   /\ call' \in [Callers -> Calls]
                   /\ terminated' \in BOOLEAN
BY DEF ThreadInv, TypeOK, Protocol, Good, Follows, Objects, Calls

\* A step that changes one object into a good one keeps the objects good.
LEMMA OneObject ==
    ASSUME elt \in [Elts -> Objects], \A e \in Elts : Good(elt[e]),
           NEW e \in Elts, NEW x, Good(x), elt' = [elt EXCEPT ![e] = x]
    PROVE  elt' \in [Elts -> Objects] /\ \A f \in Elts : Good(elt'[f])
BY DEF Good

\* Moving a caller to a position of the code keeps the callers' type.
LEMMA Moves ==
    ASSUME call \in [Callers -> Calls], NEW c \in Callers,
           NEW p \in {"idle"} \cup InsideStart \cup InsideDtor, Goto(c, p)
    PROVE  call' \in [Callers -> Calls]
BY DEF Goto, Calls

\* Objects that have just been constructed satisfy it.
LEMMA Start == Init => ThreadInv
<1> SUFFICES ASSUME Init PROVE ThreadInv
    OBVIOUS
<1>1. elt \in [Elts -> Objects] /\ \A e \in Elts : Good(elt[e])
  BY DEF Init, Objects, Good, Follows, TPCs
<1>2. call \in [Callers -> Calls] /\ terminated \in BOOLEAN
  BY DEF Init, Calls
<1> QED BY <1>1, <1>2, InvEach

\* The steps of the callers.
LEMMA CallerSteps ==
    ASSUME ThreadInv, NEW c \in Callers,
           \/ InCall(c) \/ SpuriousWakeup(c)
           \/ \E e \in Elts : StartCheck(c, e) \/ DtorQuit(c, e)
    PROVE  ThreadInv'
<1>a. /\ elt \in [Elts -> Objects] /\ \A e \in Elts : Good(elt[e])
      /\ call \in [Callers -> Calls] /\ terminated \in BOOLEAN
  BY InvEach
<1>b. call[c].obj \in Elts /\ elt[call[c].obj] \in Objects /\ Good(elt[call[c].obj])
  BY <1>a DEF Calls
<1> DEFINE o == call[c].obj
<1> HIDE DEF o
<1>c. o \in Elts /\ o = call[c].obj /\ elt[o] \in Objects /\ Good(elt[o])
  BY <1>b DEF o
<1> USE DEF InsideStart, InsideDtor
<1>1. ASSUME NEW e \in Elts, StartCheck(c, e) PROVE ThreadInv'
  <2>1. call' \in [Callers -> Calls]
    <3>1. Loop(e) \in {"none", "nullptr", "loop"}
      BY DEF Loop
    <3>2. \/ call' = [call EXCEPT ![c] = [pos |-> "idle", obj |-> e, result |-> Loop(e)]]
          \/ call' = [call EXCEPT ![c] = [call[c] EXCEPT !.pos = "store", !.obj = e]]
      BY <1>1, <1>a DEF StartCheck
    <3>3. [pos |-> "idle", obj |-> e, result |-> Loop(e)] \in Calls
      BY <3>1 DEF Calls
    <3>4. [call[c] EXCEPT !.pos = "store", !.obj = e] \in Calls
      BY <1>a DEF Calls
    <3> QED BY <1>a, <3>2, <3>3, <3>4
  <2> QED BY <1>1, <1>a, <2>1, InvEachNext DEF StartCheck
<1>2. ASSUME NEW e \in Elts, DtorQuit(c, e) PROVE ThreadInv'
  <2>1. call' \in [Callers -> Calls]
    <3>1. call' = [call EXCEPT ![c].pos = "join", ![c].obj = e]
      BY <1>2 DEF DtorQuit
    <3>2. [call[c] EXCEPT !.pos = "join", !.obj = e] \in Calls
      BY <1>a DEF Calls
    <3>3. call' = [call EXCEPT ![c] = [call[c] EXCEPT !.pos = "join", !.obj = e]]
      BY <1>a, <3>1
    <3> QED BY <1>a, <3>2, <3>3
  <2>2. Good([elt[e] EXCEPT !.quit_ = TRUE, !.dtorQuit = "sent"])
    <3>1. elt[e] \in Objects /\ Follows(elt[e])
      BY <1>a DEF Good
    <3> QED BY <3>1 DEF Good, Objects, Follows
  <2>3. elt' \in [Elts -> Objects] /\ \A f \in Elts : Good(elt'[f])
    <3>1. CASE elt[e].loop_
      <4>1. elt' = [elt EXCEPT ![e] = [elt[e] EXCEPT !.quit_ = TRUE, !.dtorQuit = "sent"]]
        BY <1>2, <1>a, <3>1 DEF DtorQuit, QuitIfPublished
      <4> QED BY <1>a, <2>2, <4>1, OneObject
    <3>2. CASE ~elt[e].loop_
      BY <1>2, <1>a, <3>2 DEF DtorQuit, QuitIfPublished
    <3> QED BY <3>1, <3>2
  <2> QED BY <1>2, <1>a, <2>1, <2>3, InvEachNext DEF DtorQuit
<1>3. CASE StartStore(c)
  <2>1. Good([elt[o] EXCEPT !.started_ = TRUE])
    BY <1>c DEF Good, Objects, Follows
  <2>2. elt' = [elt EXCEPT ![o] = [elt[o] EXCEPT !.started_ = TRUE]]
    BY <1>3, <1>a, <1>c DEF StartStore
  <2>3. call' \in [Callers -> Calls] /\ terminated' = terminated
    BY <1>3, <1>a, Moves DEF StartStore
  <2> QED BY <1>a, <1>c, <2>1, <2>2, <2>3, OneObject, InvEachNext
<1>4. CASE ThreadSpawn(c)
  <2> DEFINE x == [elt[o] EXCEPT !.threadStarted_ = TRUE,
                                 !.tpc = IF @ = "none" THEN "setId" ELSE @]
  <2>1. Good(x)
    <3>1. CASE elt[o].tpc = "none"
      BY <1>c, <3>1 DEF Good, Objects, Follows, TPCs
    <3>2. CASE elt[o].tpc # "none"
      BY <1>c, <3>2 DEF Good, Objects, Follows
    <3> QED BY <3>1, <3>2
  <2>2. elt' = [elt EXCEPT ![o] = x]
    BY <1>4, <1>a, <1>c DEF ThreadSpawn
  <2>3. call' \in [Callers -> Calls] /\ terminated' \in BOOLEAN
    BY <1>4, <1>a, Moves DEF ThreadSpawn
  <2> HIDE DEF x
  <2> QED BY <1>a, <1>c, <2>1, <2>2, <2>3, OneObject, InvEachNext
<1>5. CASE Join(c)
  <2>1. Good([elt[o] EXCEPT !.joined_ = elt[o].threadStarted_])
    BY <1>c DEF Good, Objects, Follows
  <2>2. elt' = [elt EXCEPT ![o] = [elt[o] EXCEPT !.joined_ = elt[o].threadStarted_]]
    BY <1>5, <1>a, <1>c DEF Join
  <2>3. call' \in [Callers -> Calls] /\ terminated' = terminated
    BY <1>5, <1>a, Moves DEF Join, WaitIfStarted
  <2> QED BY <1>a, <1>c, <2>1, <2>2, <2>3, OneObject, InvEachNext
<1>6. CASE Destroyed(c)
  <2>1. Good([elt[o] EXCEPT !.destroyed = TRUE])
    BY <1>c DEF Good, Objects, Follows
  <2>2. elt' = [elt EXCEPT ![o] = [elt[o] EXCEPT !.destroyed = TRUE]]
    BY <1>6, <1>a, <1>c DEF Destroyed
  <2>3. call' \in [Callers -> Calls] /\ terminated' \in BOOLEAN
    BY <1>6, <1>a, <1>c, Moves DEF Destroyed, Objects
  <2> QED BY <1>a, <1>c, <2>1, <2>2, <2>3, OneObject, InvEachNext
<1>7. CASE ThreadStartCheck(c) \/ WaitId(c) \/ WaitLoop(c) \/ Joined(c) \/ SpuriousWakeup(c)
  <2>1. call' \in [Callers -> Calls]
    BY <1>7, <1>a, Moves DEF ThreadStartCheck, WaitId, WaitLoop, Joined, SpuriousWakeup
  <2>2. UNCHANGED <<elt, terminated>>
    BY <1>7 DEF ThreadStartCheck, WaitId, WaitLoop, Joined, SpuriousWakeup
  <2> QED BY <1>a, <2>1, <2>2, InvEachNext
<1>8. CASE StartReturn(c)
  <2>1. call' \in [Callers -> Calls]
    <3>1. Loop(o) \in {"none", "nullptr", "loop"}
      BY DEF Loop
    <3>2. call' = [call EXCEPT ![c] = [call[c] EXCEPT !.pos = "idle", !.result = Loop(o)]]
      BY <1>8, <1>a, <1>c DEF StartReturn
    <3>3. [call[c] EXCEPT !.pos = "idle", !.result = Loop(o)] \in Calls
      BY <1>a, <3>1 DEF Calls
    <3> QED BY <1>a, <3>2, <3>3
  <2> QED BY <1>8, <1>a, <2>1, InvEachNext DEF StartReturn
<1> QED BY <1>1, <1>2, <1>3, <1>4, <1>5, <1>6, <1>7, <1>8 DEF InCall

\* The steps of the threads.
LEMMA ThreadSteps ==
    ASSUME ThreadInv, NEW e \in Elts, ThreadStep(e) \/ AppQuit(e)
    PROVE  ThreadInv'
<1>a. /\ elt \in [Elts -> Objects] /\ \A f \in Elts : Good(elt[f])
      /\ call \in [Callers -> Calls] /\ terminated \in BOOLEAN
  BY InvEach
<1>b. elt[e] \in Objects /\ Good(elt[e])
  BY <1>a
<1>c. ASSUME NEW x, Good(x), elt' = [elt EXCEPT ![e] = x],
             call' \in [Callers -> Calls], terminated' = terminated
      PROVE  ThreadInv'
  BY <1>a, <1>c, OneObject, InvEachNext
<1> USE DEF TPCs
<1>1. CASE SetId(e)
  <2>1. elt[e].tpc = "setId" /\ elt' = [elt EXCEPT ![e] = [elt[e] EXCEPT !.id_ = TRUE, !.tpc = "notifyId"]]
    BY <1>1, <1>a DEF SetId, ThreadAssigns, Objects
  <2>2. Good([elt[e] EXCEPT !.id_ = TRUE, !.tpc = "notifyId"])
    BY <1>b, <2>1 DEF Good, Objects, Follows
  <2> QED BY <1>1, <1>a, <1>c, <2>1, <2>2 DEF SetId, ThreadAssigns
<1>2. CASE NotifyId(e)
  <2>1. elt[e].tpc = "notifyId" /\ elt' = [elt EXCEPT ![e] = [elt[e] EXCEPT !.tpc = "construct"]]
    BY <1>2, <1>a DEF NotifyId
  <2>2. Good([elt[e] EXCEPT !.tpc = "construct"])
    BY <1>b, <2>1 DEF Good, Objects, Follows
  <2>3. call' \in [Callers -> Calls]
    BY <1>2, <1>a DEF NotifyId, Calls, InsideStart
  <2> QED BY <1>2, <1>c, <2>1, <2>2, <2>3 DEF NotifyId
<1>3. CASE Construct(e)
  <2>1. elt[e].tpc = "construct" /\ elt' = [elt EXCEPT ![e] = [elt[e] EXCEPT !.alive = TRUE, !.tpc = "init"]]
    BY <1>3, <1>a DEF Construct, ThreadAssigns, Objects
  <2>2. Good([elt[e] EXCEPT !.alive = TRUE, !.tpc = "init"])
    BY <1>b, <2>1 DEF Good, Objects, Follows
  <2> QED BY <1>3, <1>a, <1>c, <2>1, <2>2 DEF Construct, ThreadAssigns
<1>4. CASE InitReturns(e)
  <2>1. elt[e].tpc = "init" /\ elt' = [elt EXCEPT ![e] = [elt[e] EXCEPT !.alive = TRUE, !.tpc = "publish"]]
    BY <1>4, <1>a DEF InitReturns, ThreadAssigns, Objects
  <2>2. Good([elt[e] EXCEPT !.alive = TRUE, !.tpc = "publish"])
    BY <1>b, <2>1 DEF Good, Objects, Follows
  <2> QED BY <1>4, <1>a, <1>c, <2>1, <2>2 DEF InitReturns, ThreadAssigns
<1>5. CASE Publish(e)
  <2>1. elt[e].tpc = "publish" /\ elt' = [elt EXCEPT ![e] = [elt[e] EXCEPT !.loop_ = TRUE, !.tpc = "notify"]]
    BY <1>5, <1>a DEF Publish, ThreadAssigns, Objects
  <2>2. Good([elt[e] EXCEPT !.loop_ = TRUE, !.tpc = "notify"])
    BY <1>b, <2>1 DEF Good, Objects, Follows
  <2> QED BY <1>5, <1>a, <1>c, <2>1, <2>2 DEF Publish, ThreadAssigns
<1>6. CASE Notify(e)
  <2>1. elt[e].tpc = "notify" /\ elt' = [elt EXCEPT ![e] = [elt[e] EXCEPT !.tpc = "enter"]]
    BY <1>6, <1>a DEF Notify
  <2>2. Good([elt[e] EXCEPT !.tpc = "enter"])
    BY <1>b, <2>1 DEF Good, Objects, Follows
  <2>3. call' \in [Callers -> Calls]
    BY <1>6, <1>a, Moves DEF Notify, NotifyOne, Sleepers, InsideStart
  <2> QED BY <1>6, <1>c, <2>1, <2>2, <2>3 DEF Notify
<1>7. CASE LoopReset(e)
  <2> DEFINE x == [elt[e] EXCEPT !.quit_ = FALSE, !.tpc = "looping",
                                 !.dtorQuit = IF @ = "sent" THEN "lost" ELSE @]
  <2>1. elt[e].tpc = "enter" /\ elt' = [elt EXCEPT ![e] = x]
    BY <1>7, <1>a DEF LoopReset
  <2>2. Good(x)
    BY <1>b, <2>1 DEF Good, Objects, Follows
  <2> HIDE DEF x
  <2> QED BY <1>7, <1>a, <1>c, <2>1, <2>2 DEF LoopReset
<1>8. CASE AppQuit(e)
  <2>1. elt' = [elt EXCEPT ![e] = [elt[e] EXCEPT !.quit_ = TRUE]]
    BY <1>8, <1>a DEF AppQuit
  <2>2. Good([elt[e] EXCEPT !.quit_ = TRUE])
    BY <1>b DEF Good, Objects, Follows
  <2> QED BY <1>8, <1>a, <1>c, <2>1, <2>2 DEF AppQuit
<1>9. CASE LoopExit(e)
  <2>1. elt[e].tpc = "looping" /\ elt' = [elt EXCEPT ![e] = [elt[e] EXCEPT !.quit_ = TRUE, !.tpc = "unpublish"]]
    BY <1>9, <1>a DEF LoopExit, ThreadAssigns, Objects
  <2>2. Good([elt[e] EXCEPT !.quit_ = TRUE, !.tpc = "unpublish"])
    BY <1>b, <2>1 DEF Good, Objects, Follows
  <2> QED BY <1>9, <1>a, <1>c, <2>1, <2>2 DEF LoopExit, ThreadAssigns
<1>10. CASE Unpublish(e)
  <2>1. elt[e].tpc = "unpublish" /\ elt' = [elt EXCEPT ![e] = [elt[e] EXCEPT !.loop_ = FALSE, !.tpc = "destroy"]]
    BY <1>10, <1>a DEF Unpublish, ThreadAssigns, Objects
  <2>2. Good([elt[e] EXCEPT !.loop_ = FALSE, !.tpc = "destroy"])
    BY <1>b, <2>1 DEF Good, Objects, Follows
  <2> QED BY <1>10, <1>a, <1>c, <2>1, <2>2 DEF Unpublish, ThreadAssigns
<1>11. CASE ThreadDone(e)
  <2>1. elt[e].tpc = "destroy" /\ elt' = [elt EXCEPT ![e] = [elt[e] EXCEPT !.alive = FALSE, !.tpc = "done"]]
    BY <1>11, <1>a DEF ThreadDone, ThreadAssigns, Objects
  <2>2. Good([elt[e] EXCEPT !.alive = FALSE, !.tpc = "done"])
    BY <1>b, <2>1 DEF Good, Objects, Follows
  <2> QED BY <1>11, <1>a, <1>c, <2>1, <2>2 DEF ThreadDone, ThreadAssigns
<1> QED BY <1>1, <1>2, <1>3, <1>4, <1>5, <1>6, <1>7, <1>8, <1>9, <1>10, <1>11 DEF ThreadStep

\* Every step of a caller or of a thread keeps ThreadInv.
LEMMA InvNext == ThreadInv /\ [Next]_vars => ThreadInv'
<1> SUFFICES ASSUME ThreadInv, [Next]_vars PROVE ThreadInv'
    OBVIOUS
<1>1. CASE UNCHANGED vars
  BY <1>1, InvEach, InvEachNext DEF vars
<1>2. CASE Next
  BY <1>2, CallerSteps, ThreadSteps DEF Next
<1> QED BY <1>1, <1>2

\* Where a thread stands determines id_, loop_ and the lifetime of its loop.
THEOREM ThreadsFollowProtocol == Spec => []ThreadInv
<1> QED BY Start, InvNext, PTL DEF Spec

\* A published loop exists: a destructor that finds loop_ set under the mutex
\* calls quit() on a live EventLoop, however many threads start and destroy.
THEOREM PublishedLoopsLive == Spec => []PublishedLoopAlive
<1>1. ThreadInv => PublishedLoopAlive
  BY DEF ThreadInv, Protocol, PublishedLoopAlive
<1> QED BY <1>1, ThreadsFollowProtocol, PTL
-----------------------------------------------------------------------------
\* Where only one caller is inside a call: what its position says of the object
\* it is in.
CallerFollows(pos, x) ==
    /\ pos \in InsideStart => ~x.destroyed
    /\ pos = "spawn" => x.tpc = "none"
    /\ pos = "joining" => x.joined_
    /\ pos = "release" => x.tpc \in {"none", "done"} /\ (x.threadStarted_ => x.joined_)

DestroyInv ==
    /\ \A c \in Callers : CallerFollows(call[c].pos, elt[call[c].obj])
    /\ \A e \in Elts : elt[e].destroyed => elt[e].tpc \in {"none", "done"}
    /\ ~terminated

LEMMA DestroyStarts == Init => DestroyInv
BY DEF Init, DestroyInv, CallerFollows, InsideStart

\* A step of the caller.
LEMMA DestroyCaller ==
    ASSUME ThreadInv, DestroyInv, NEW c \in Callers,
           \A d \in Callers \ {c} : call[d].pos = "idle",
           \/ InCall(c) \/ SpuriousWakeup(c)
           \/ \E e \in Elts : StartCheck(c, e) \/ DtorQuit(c, e)
    PROVE  DestroyInv'
<1>a. /\ elt \in [Elts -> Objects] /\ \A e \in Elts : Good(elt[e])
      /\ call \in [Callers -> Calls] /\ terminated \in BOOLEAN
  BY InvEach
<1> DEFINE o == call[c].obj
           pos == call[c].pos
<1>b. o \in Elts /\ elt[o] \in Objects /\ Good(elt[o])
  BY <1>a DEF Calls
<1>c. CallerFollows(pos, elt[o]) /\ ~terminated
  BY DEF DestroyInv
<1>d. \A e \in Elts : elt[e].destroyed => elt[e].tpc \in {"none", "done"}
  BY DEF DestroyInv
<1>e. ASSUME CallerFollows(call'[c].pos, elt'[call'[c].obj]),
             \A e \in Elts : elt'[e].destroyed => elt'[e].tpc \in {"none", "done"},
             ~terminated'
      PROVE  DestroyInv'
  <2>1. \A d \in Callers \ {c} : call'[d] = call[d]
    BY <1>a DEF InCall, StartStore, ThreadStartCheck, ThreadSpawn, WaitId, WaitLoop, StartReturn,
                Join, Joined, Destroyed, SpuriousWakeup, StartCheck, DtorQuit, Goto
  <2>2. \A d \in Callers \ {c} : CallerFollows(call'[d].pos, elt'[call'[d].obj])
    BY <2>1 DEF CallerFollows, InsideStart
  <2> QED BY <1>e, <2>2 DEF DestroyInv
<1> USE DEF InsideStart, InsideDtor
<1>1. ASSUME NEW e \in Elts, StartCheck(c, e) PROVE DestroyInv'
  <2>1. UNCHANGED <<elt, terminated>> /\ ~elt[e].destroyed
    BY <1>1 DEF StartCheck
  <2>2. call'[c].obj = e /\ call'[c].pos \in {"idle", "store"}
    BY <1>1, <1>a DEF StartCheck, Calls
  <2> QED BY <1>c, <1>d, <1>e, <2>1, <2>2 DEF CallerFollows
<1>2. ASSUME NEW e \in Elts, DtorQuit(c, e) PROVE DestroyInv'
  <2>1. call'[c].obj = e /\ call'[c].pos = "join" /\ terminated' = terminated
    <3>1. call' = [call EXCEPT ![c].pos = "join", ![c].obj = e] /\ terminated' = terminated
      BY <1>2 DEF DtorQuit
    <3> QED BY <1>a, <3>1 DEF Calls
  <2>2. \A f \in Elts : elt'[f].destroyed = elt[f].destroyed /\ elt'[f].tpc = elt[f].tpc
    <3>1. elt' = IF elt[e].loop_ THEN [elt EXCEPT ![e].quit_ = TRUE, ![e].dtorQuit = "sent"] ELSE elt
      BY <1>2 DEF DtorQuit, QuitIfPublished
    <3>2. CASE elt[e].loop_
      BY <1>a, <3>1, <3>2 DEF Objects
    <3>3. CASE ~elt[e].loop_
      BY <1>a, <3>1, <3>3
    <3> QED BY <3>2, <3>3
  <2> QED BY <1>c, <1>d, <1>e, <2>1, <2>2 DEF CallerFollows
<1>3. CASE StartStore(c)
  <2>1. call'[c].obj = o /\ call'[c].pos = "threadCheck" /\ pos = "store" /\ terminated' = terminated
    BY <1>3, <1>a DEF StartStore, Goto, At, Calls
  <2>2. \A f \in Elts : elt'[f].destroyed = elt[f].destroyed /\ elt'[f].tpc = elt[f].tpc
    BY <1>3, <1>a DEF StartStore, Objects
  <2> QED BY <1>b, <1>c, <1>d, <1>e, <2>1, <2>2 DEF CallerFollows
<1>4. CASE ThreadStartCheck(c)
  <2>1. /\ call'[c].obj = o /\ pos = "threadCheck" /\ UNCHANGED <<elt, terminated>>
        /\ call'[c].pos = IF elt[o].threadStarted_ THEN "waitLoop" ELSE "spawn"
    BY <1>4, <1>a DEF ThreadStartCheck, Goto, At, Calls
  <2>2. ~elt[o].threadStarted_ => elt[o].tpc = "none"
    BY <1>b DEF Good, Follows
  <2> QED BY <1>c, <1>d, <1>e, <2>1, <2>2 DEF CallerFollows
<1>5. CASE ThreadSpawn(c)
  <2>1. call'[c].obj = o /\ call'[c].pos = "waitId" /\ pos = "spawn"
    BY <1>5, <1>a DEF ThreadSpawn, Goto, At, Calls
  <2>2. elt[o].tpc = "none" /\ ~elt[o].destroyed
    BY <1>c, <2>1 DEF CallerFollows
  <2>3. ~terminated'
    BY <1>5, <2>2 DEF ThreadSpawn
  <2>4. /\ \A f \in Elts : elt'[f].destroyed = elt[f].destroyed
        /\ \A f \in Elts \ {o} : elt'[f].tpc = elt[f].tpc
    BY <1>5, <1>a, <1>b DEF ThreadSpawn, Objects
  <2> QED BY <1>b, <1>d, <1>e, <2>1, <2>2, <2>3, <2>4 DEF CallerFollows
<1>6. CASE WaitId(c) \/ WaitLoop(c) \/ SpuriousWakeup(c)
  <2>1. /\ call'[c].obj = o /\ UNCHANGED <<elt, terminated>>
        /\ pos \in InsideStart /\ call'[c].pos \in InsideStart \ {"spawn"}
    BY <1>6, <1>a DEF WaitId, WaitLoop, SpuriousWakeup, Goto, At, Calls
  <2> QED BY <1>c, <1>d, <1>e, <2>1 DEF CallerFollows
<1>7. CASE StartReturn(c)
  <2>1. call'[c].pos = "idle" /\ UNCHANGED <<elt, terminated>>
    BY <1>7, <1>a DEF StartReturn, Calls
  <2> QED BY <1>c, <1>d, <1>e, <2>1 DEF CallerFollows
<1>8. CASE Join(c)
  <2>1. /\ call'[c].obj = o /\ terminated' = terminated
        /\ call'[c].pos = IF elt[o].threadStarted_ THEN "joining" ELSE "release"
    BY <1>8, <1>a DEF Join, WaitIfStarted, Goto, Calls
  <2>2. /\ \A f \in Elts : elt'[f].destroyed = elt[f].destroyed /\ elt'[f].tpc = elt[f].tpc
        /\ elt'[o].joined_ = elt[o].threadStarted_ /\ elt'[o].threadStarted_ = elt[o].threadStarted_
    BY <1>8, <1>a, <1>b DEF Join, Objects
  <2>3. ~elt[o].threadStarted_ => elt[o].tpc = "none"
    BY <1>b DEF Good, Follows
  <2> QED BY <1>b, <1>c, <1>d, <1>e, <2>1, <2>2, <2>3 DEF CallerFollows
<1>9. CASE Joined(c)
  <2>1. /\ call'[c].obj = o /\ call'[c].pos = "release" /\ UNCHANGED <<elt, terminated>>
        /\ pos = "joining" /\ elt[o].tpc = "done"
    BY <1>9, <1>a DEF Joined, Goto, At, Calls
  <2> QED BY <1>c, <1>d, <1>e, <2>1 DEF CallerFollows
<1>10. CASE Destroyed(c)
  <2>1. call'[c].pos = "idle" /\ pos = "release"
    BY <1>10, <1>a DEF Destroyed, Goto, At, Calls
  <2>2. elt[o].tpc \in {"none", "done"} /\ (elt[o].threadStarted_ => elt[o].joined_)
    BY <1>c, <2>1 DEF CallerFollows
  <2>3. ~terminated'
    BY <1>10, <2>2 DEF Destroyed
  <2>4. /\ \A f \in Elts : elt'[f].tpc = elt[f].tpc
        /\ \A f \in Elts \ {o} : elt'[f].destroyed = elt[f].destroyed
    BY <1>10, <1>a, <1>b DEF Destroyed, Objects
  <2> QED BY <1>d, <1>e, <2>1, <2>2, <2>3, <2>4 DEF CallerFollows
<1> QED BY <1>1, <1>2, <1>3, <1>4, <1>5, <1>6, <1>7, <1>8, <1>9, <1>10 DEF InCall

\* A step of a thread: it is not one that has not begun or has ended.
LEMMA DestroyByThread ==
    ASSUME ThreadInv, DestroyInv, NEW e \in Elts, ThreadStep(e) \/ AppQuit(e)
    PROVE  DestroyInv'
<1>a. /\ elt \in [Elts -> Objects] /\ \A f \in Elts : Good(elt[f])
      /\ call \in [Callers -> Calls] /\ terminated \in BOOLEAN
  BY InvEach
<1>1. /\ elt[e].tpc \notin {"none", "done"}
      /\ \A f \in Elts \ {e} : elt'[f] = elt[f]
      /\ elt'[e].destroyed = elt[e].destroyed
      /\ elt'[e].joined_ = elt[e].joined_
      /\ terminated' = terminated
  <2>1. CASE SetId(e) \/ Construct(e) \/ InitReturns(e) \/ Publish(e)
    BY <2>1, <1>a DEF SetId, Construct, InitReturns, Publish, ThreadAssigns, Objects
  <2>2. CASE LoopExit(e) \/ Unpublish(e) \/ ThreadDone(e)
    BY <2>2, <1>a DEF LoopExit, Unpublish, ThreadDone, ThreadAssigns, Objects
  <2>3. CASE NotifyId(e) \/ Notify(e)
    BY <2>3, <1>a DEF NotifyId, Notify, Objects
  <2>4. CASE LoopReset(e) \/ AppQuit(e)
    BY <2>4, <1>a DEF LoopReset, AppQuit, Objects
  <2> QED BY <2>1, <2>2, <2>3, <2>4 DEF ThreadStep
<1>2. \A c \in Callers :
          /\ call'[c].obj = call[c].obj
          /\ call'[c].pos = call[c].pos \/ (call[c].pos \in InsideStart
                                             /\ call'[c].pos \in {"waitId", "waitLoop"})
  <2>1. CASE NotifyId(e)
    BY <2>1, <1>a DEF NotifyId, Sleepers, At, Calls, InsideStart
  <2>2. CASE Notify(e)
    BY <2>2, <1>a DEF Notify, NotifyOne, Sleepers, Goto, At, Calls, InsideStart
  <2>3. CASE call' = call
    BY <2>3
  <2>4. NotifyId(e) \/ Notify(e) \/ call' = call
    BY DEF ThreadStep, SetId, Construct, InitReturns, Publish, LoopReset, AppQuit, LoopExit,
           Unpublish, ThreadDone, ThreadAssigns
  <2> QED BY <2>1, <2>2, <2>3, <2>4
<1>3. ASSUME NEW c \in Callers PROVE CallerFollows(call'[c].pos, elt'[call'[c].obj])
  <2>1. CallerFollows(call[c].pos, elt[call[c].obj]) /\ call[c].obj \in Elts
    BY <1>a DEF DestroyInv, Calls
  <2>2. CASE call[c].obj = e
    BY <1>1, <1>2, <2>1, <2>2 DEF CallerFollows, InsideStart
  <2>3. CASE call[c].obj # e
    BY <1>1, <1>2, <2>1, <2>3 DEF CallerFollows, InsideStart
  <2> QED BY <2>2, <2>3
<1>4. \A f \in Elts : elt'[f].destroyed => elt'[f].tpc \in {"none", "done"}
  BY <1>1 DEF DestroyInv
<1> QED BY <1>1, <1>3, <1>4 DEF DestroyInv

\* With one caller the destructor returns only after the thread has ended, and
\* neither a second thread in Thread::thread_ nor an unjoined one terminates
\* the program.
THEOREM DestructorJoins ==
    ASSUME \A c, d \in Callers : c = d
    PROVE  Spec => []DestroyedMeansThreadEnded
<1>1. Init => ThreadInv /\ DestroyInv
  BY Start, DestroyStarts
<1>2. ThreadInv /\ DestroyInv /\ [Next]_vars => (ThreadInv /\ DestroyInv)'
  <2>1. ThreadInv /\ DestroyInv /\ Next => DestroyInv'
    <3> SUFFICES ASSUME ThreadInv, DestroyInv, Next PROVE DestroyInv'
      OBVIOUS
    <3>1. ASSUME NEW c \in Callers, \/ InCall(c) \/ SpuriousWakeup(c)
                                    \/ \E e \in Elts : StartCheck(c, e) \/ DtorQuit(c, e)
          PROVE  DestroyInv'
      <4>1. Callers \ {c} = {}
        OBVIOUS
      <4> QED BY <3>1, <4>1, DestroyCaller
    <3>2. ASSUME NEW e \in Elts, ThreadStep(e) \/ AppQuit(e) PROVE DestroyInv'
      BY <3>2, DestroyByThread
    <3> QED BY <3>1, <3>2 DEF Next
  <2>2. DestroyInv /\ UNCHANGED vars => DestroyInv'
    BY DEF vars, DestroyInv
  <2> QED BY <2>1, <2>2, InvNext
<1>3. DestroyInv => DestroyedMeansThreadEnded
  BY DEF DestroyInv, DestroyedMeansThreadEnded
<1> QED BY <1>1, <1>2, <1>3, PTL DEF Spec
-----------------------------------------------------------------------------
(* With one thread that starts and destroys: what start() returned lives.  *)

\* Nobody asks the loop of e to quit: not its own code, not the destructor.
Kept(e, x) == e \notin Quitters /\ x.dtorQuit = "none"

Waiting == InsideStart \ {"store", "return"}

\* What the one caller, who stands at `at', can rely on of object e.
ObjLive(e, x, at) == Kept(e, x) =>
    /\ ~x.quit_ /\ x.tpc \notin {"unpublish", "destroy", "done"}
    /\ x.started_ => x.loop_ \/ (at.obj = e /\ at.pos \in Waiting)

\* ... and of the object it is in or has last been in.
CallLive(at, x) ==
    /\ at.pos \in InsideStart \ {"store"} => x.started_
    /\ (Kept(at.obj, x) /\ x.started_) => /\ at.pos \notin InsideDtor
                                          /\ at.pos = "idle" => at.result \in {"none", "loop"}

\* a is the one thread that calls start() and the destructor.
OnlyCaller(a) == \A c \in Callers \ {a} : call[c].pos = "idle" /\ call[c].result = "none"

LiveInv(a) == /\ OnlyCaller(a)
              /\ \A e \in Elts : ObjLive(e, elt[e], call[a])
              /\ CallLive(call[a], elt[call[a].obj])

\* The invariant after a step that moves the caller and changes one object.
LEMMA LiveStep ==
    ASSUME elt \in [Elts -> Objects], call \in [Callers -> Calls], NEW a \in Callers, OnlyCaller(a),
           NEW at \in Calls, call' = [call EXCEPT ![a] = at],
           NEW e \in Elts, NEW x \in Objects, elt' = [elt EXCEPT ![e] = x],
           ObjLive(e, x, at), \A f \in Elts \ {e} : ObjLive(f, elt[f], at),
           CallLive(at, elt'[at.obj])
    PROVE  LiveInv(a)'
<1>1. OnlyCaller(a)'
  BY DEF OnlyCaller
<1>2. call'[a] = at
  OBVIOUS
<1>3. ASSUME NEW f \in Elts PROVE ObjLive(f, elt'[f], at)
  OBVIOUS
<1> QED BY <1>1, <1>2, <1>3 DEF LiveInv

\* ... and after one that moves the caller only.
LEMMA LiveMove ==
    ASSUME call \in [Callers -> Calls], NEW a \in Callers, OnlyCaller(a),
           NEW at \in Calls, call' = [call EXCEPT ![a] = at], elt' = elt,
           \A f \in Elts : ObjLive(f, elt[f], at), CallLive(at, elt[at.obj])
    PROVE  LiveInv(a)'
<1>1. OnlyCaller(a)'
  BY DEF OnlyCaller
<1>2. call'[a] = at
  OBVIOUS
<1> QED BY <1>1, <1>2 DEF LiveInv

\* A step of the caller.
LEMMA LiveCaller ==
    ASSUME NEW a \in Callers, ThreadInv, LiveInv(a),
           \/ InCall(a) \/ SpuriousWakeup(a)
           \/ \E e \in Elts : StartCheck(a, e) \/ DtorQuit(a, e)
    PROVE  LiveInv(a)'
<1>a. /\ elt \in [Elts -> Objects] /\ \A e \in Elts : Good(elt[e])
      /\ call \in [Callers -> Calls] /\ terminated \in BOOLEAN
  BY InvEach
<1> DEFINE o == call[a].obj
           pos == call[a].pos
<1>b. call[a] \in Calls /\ o \in Elts /\ elt[o] \in Objects /\ Good(elt[o])
  BY <1>a DEF Calls
<1>c. /\ OnlyCaller(a) /\ CallLive(call[a], elt[o])
      /\ \A e \in Elts : ObjLive(e, elt[e], call[a])
  BY DEF LiveInv
<1> USE DEF InsideStart, InsideDtor, Waiting
<1>m. ASSUME NEW p \in {"idle"} \cup InsideStart \cup InsideDtor
      PROVE  /\ [call[a] EXCEPT !.pos = p] \in Calls
             /\ [call[a] EXCEPT !.pos = p].pos = p
             /\ [call[a] EXCEPT !.pos = p].obj = o
             /\ [call[a] EXCEPT !.pos = p].result = call[a].result
  BY <1>b DEF Calls
<1>1. ASSUME NEW e \in Elts, StartCheck(a, e) PROVE LiveInv(a)'
  <2>1. pos = "idle" /\ elt' = elt
    BY <1>1 DEF StartCheck, At
  <2>2. CASE elt[e].started_
    <3> DEFINE at == [pos |-> "idle", obj |-> e, result |-> Loop(e)]
    <3>1. call' = [call EXCEPT ![a] = at]
      BY <1>1, <2>2 DEF StartCheck
    <3>2. at \in Calls
      BY DEF Calls, Loop
    <3>3. at.pos = "idle" /\ at.obj = e /\ at.result = Loop(e)
      OBVIOUS
    <3> HIDE DEF at
    <3>4. \A f \in Elts : ObjLive(f, elt[f], at)
      BY <1>c, <2>1, <3>3 DEF ObjLive
    <3>5. Kept(e, elt[e]) => elt[e].loop_
      BY <1>c, <2>1, <2>2 DEF ObjLive
    <3>6. CallLive(at, elt[at.obj])
      BY <3>3, <3>5 DEF CallLive, Loop
    <3> QED BY <1>a, <1>c, <2>1, <3>1, <3>2, <3>4, <3>6, LiveMove
  <2>3. CASE ~elt[e].started_
    <3> DEFINE at == [call[a] EXCEPT !.pos = "store", !.obj = e]
    <3>1. call' = [call EXCEPT ![a] = at]
      BY <1>1, <2>3 DEF StartCheck
    <3>2. at \in Calls /\ at.pos = "store" /\ at.obj = e
      BY <1>b DEF Calls
    <3> HIDE DEF at
    <3>3. \A f \in Elts : ObjLive(f, elt[f], at)
      BY <1>c, <2>1, <3>2 DEF ObjLive
    <3>4. CallLive(at, elt[at.obj])
      BY <2>3, <3>2 DEF CallLive
    <3> QED BY <1>a, <1>c, <2>1, <3>1, <3>2, <3>3, <3>4, LiveMove
  <2> QED BY <2>2, <2>3
<1>2. ASSUME NEW e \in Elts, DtorQuit(a, e) PROVE LiveInv(a)'
  <2> DEFINE at == [call[a] EXCEPT !.pos = "join", !.obj = e]
  <2>1. pos = "idle" /\ call' = [call EXCEPT ![a] = at]
    BY <1>2, <1>a DEF DtorQuit, At
  <2>2. at \in Calls /\ at.pos = "join" /\ at.obj = e
    BY <1>b DEF Calls
  <2> HIDE DEF at
  <2>3. \A f \in Elts : ObjLive(f, elt[f], at)
    BY <1>c, <2>1, <2>2 DEF ObjLive
  <2>4. CASE elt[e].loop_
    <3> DEFINE x == [elt[e] EXCEPT !.quit_ = TRUE, !.dtorQuit = "sent"]
    <3>1. elt' = [elt EXCEPT ![e] = x]
      BY <1>2, <1>a, <2>4 DEF DtorQuit, QuitIfPublished
    <3>2. x \in Objects /\ x.dtorQuit = "sent"
      <4>1. elt[e] \in Objects
        BY <1>a
      <4> QED BY <4>1 DEF Objects
    <3> HIDE DEF x
    <3>3. ObjLive(e, x, at) /\ CallLive(at, x)
      BY <2>2, <3>2 DEF ObjLive, CallLive, Kept
    <3>4. elt'[at.obj] = x
      BY <1>a, <2>2, <3>1
    <3> QED BY <1>a, <1>c, <2>1, <2>2, <2>3, <3>1, <3>2, <3>3, <3>4, LiveStep
  <2>5. CASE ~elt[e].loop_
    <3>1. elt' = elt
      BY <1>2, <2>5 DEF DtorQuit, QuitIfPublished
    <3>2. ~(Kept(e, elt[e]) /\ elt[e].started_)
      BY <1>c, <2>1, <2>5 DEF ObjLive
    <3>3. CallLive(at, elt[at.obj])
      BY <2>2, <3>2 DEF CallLive
    <3> QED BY <1>a, <1>c, <2>1, <2>2, <2>3, <3>1, <3>3, LiveMove
  <2> QED BY <2>4, <2>5
<1>3. CASE StartStore(a)
  <2> DEFINE at == [call[a] EXCEPT !.pos = "threadCheck"]  x == [elt[o] EXCEPT !.started_ = TRUE]
  <2>1. /\ call' = [call EXCEPT ![a] = at] /\ elt' = [elt EXCEPT ![o] = x] /\ pos = "store"
    BY <1>3, <1>a, <1>b DEF StartStore, Goto, At
  <2>2. at \in Calls /\ at.pos = "threadCheck" /\ at.obj = o
    BY <1>m
  <2>3. /\ x \in Objects /\ x.started_ /\ x.dtorQuit = elt[o].dtorQuit /\ x.quit_ = elt[o].quit_
        /\ x.tpc = elt[o].tpc
    BY <1>b DEF Objects
  <2> HIDE DEF at, x
  <2>4. \A f \in Elts \ {o} : ObjLive(f, elt[f], at)
    BY <1>c, <2>1, <2>2 DEF ObjLive
  <2>5. ObjLive(o, x, at)
    BY <1>b, <1>c, <2>2, <2>3 DEF ObjLive, Kept
  <2>6. CallLive(at, x) /\ elt'[at.obj] = x
    BY <1>a, <1>b, <2>1, <2>2, <2>3 DEF CallLive
  <2> HIDE DEF o
  <2> QED BY <1>a, <1>b, <1>c, <2>1, <2>2, <2>3, <2>4, <2>5, <2>6, LiveStep
<1>4. CASE ThreadSpawn(a)
  <2> DEFINE at == [call[a] EXCEPT !.pos = "waitId"]
             x == [elt[o] EXCEPT !.threadStarted_ = TRUE,
                                 !.tpc = IF @ = "none" THEN "setId" ELSE @]
  <2>1. /\ call' = [call EXCEPT ![a] = at] /\ elt' = [elt EXCEPT ![o] = x] /\ pos = "spawn"
    BY <1>4, <1>a, <1>b DEF ThreadSpawn, Goto, At
  <2>2. at \in Calls /\ at.pos = "waitId" /\ at.obj = o
    BY <1>m
  <2>3. /\ x \in Objects /\ x.started_ = elt[o].started_ /\ x.dtorQuit = elt[o].dtorQuit
        /\ x.quit_ = elt[o].quit_ /\ x.loop_ = elt[o].loop_
        /\ x.tpc = elt[o].tpc \/ x.tpc = "setId"
    BY <1>b DEF Objects, TPCs
  <2> HIDE DEF at, x
  <2>4. \A f \in Elts \ {o} : ObjLive(f, elt[f], at)
    BY <1>c, <2>1, <2>2 DEF ObjLive
  <2>5. ObjLive(o, x, at)
    BY <1>b, <1>c, <2>2, <2>3 DEF ObjLive, Kept
  <2>6. CallLive(at, x) /\ elt'[at.obj] = x
    BY <1>a, <1>b, <1>c, <2>1, <2>2, <2>3 DEF CallLive
  <2> HIDE DEF o
  <2> QED BY <1>a, <1>b, <1>c, <2>1, <2>2, <2>3, <2>4, <2>5, <2>6, LiveStep
<1>5. CASE Join(a)
  <2> DEFINE at == [call[a] EXCEPT !.pos = WaitIfStarted(o)]
             x == [elt[o] EXCEPT !.joined_ = elt[o].threadStarted_]
  <2>1. /\ call' = [call EXCEPT ![a] = at] /\ elt' = [elt EXCEPT ![o] = x] /\ pos = "join"
    BY <1>5, <1>a, <1>b DEF Join, Goto, At
  <2>2. at \in Calls /\ at.pos \in {"joining", "release"} /\ at.obj = o
    BY <1>m DEF WaitIfStarted
  <2>3. /\ x \in Objects /\ x.started_ = elt[o].started_ /\ x.dtorQuit = elt[o].dtorQuit
        /\ x.quit_ = elt[o].quit_ /\ x.loop_ = elt[o].loop_ /\ x.tpc = elt[o].tpc
    BY <1>b DEF Objects
  <2> HIDE DEF at, x
  <2>4. \A f \in Elts \ {o} : ObjLive(f, elt[f], at)
    BY <1>c, <2>1, <2>2 DEF ObjLive
  <2>5. ObjLive(o, x, at)
    BY <1>b, <1>c, <2>1, <2>2, <2>3 DEF ObjLive, Kept
  <2>6. CallLive(at, x) /\ elt'[at.obj] = x
    BY <1>a, <1>b, <1>c, <2>1, <2>2, <2>3 DEF CallLive, Kept
  <2> HIDE DEF o
  <2> QED BY <1>a, <1>b, <1>c, <2>1, <2>2, <2>3, <2>4, <2>5, <2>6, LiveStep
<1>6. CASE Destroyed(a)
  <2> DEFINE at == [call[a] EXCEPT !.pos = "idle"]  x == [elt[o] EXCEPT !.destroyed = TRUE]
  <2>1. /\ call' = [call EXCEPT ![a] = at] /\ elt' = [elt EXCEPT ![o] = x] /\ pos = "release"
    BY <1>6, <1>a, <1>b DEF Destroyed, Goto, At
  <2>2. at \in Calls /\ at.pos = "idle" /\ at.obj = o
    BY <1>m
  <2>3. /\ x \in Objects /\ x.started_ = elt[o].started_ /\ x.dtorQuit = elt[o].dtorQuit
        /\ x.quit_ = elt[o].quit_ /\ x.loop_ = elt[o].loop_ /\ x.tpc = elt[o].tpc
    BY <1>b DEF Objects
  <2> HIDE DEF at, x
  <2>4. \A f \in Elts \ {o} : ObjLive(f, elt[f], at)
    BY <1>c, <2>1, <2>2 DEF ObjLive
  <2>5. ObjLive(o, x, at)
    BY <1>b, <1>c, <2>1, <2>2, <2>3 DEF ObjLive, Kept
  <2>6. CallLive(at, x) /\ elt'[at.obj] = x
    BY <1>a, <1>b, <1>c, <2>1, <2>2, <2>3 DEF CallLive, Kept
  <2> HIDE DEF o
  <2> QED BY <1>a, <1>b, <1>c, <2>1, <2>2, <2>3, <2>4, <2>5, <2>6, LiveStep
<1>7. CASE ThreadStartCheck(a) \/ WaitId(a) \/ WaitLoop(a) \/ Joined(a) \/ SpuriousWakeup(a)
  <2>1. PICK p \in {"idle"} \cup InsideStart \cup InsideDtor :
            /\ Goto(a, p) /\ elt' = elt
            /\ \/ pos \in Waiting /\ p \in Waiting
               \/ pos \in Waiting /\ p = "return" /\ elt[o].loop_
               \/ pos = "joining" /\ p = "release"
    BY <1>7 DEF ThreadStartCheck, WaitId, WaitLoop, Joined, SpuriousWakeup, At
  <2> DEFINE at == [call[a] EXCEPT !.pos = p]
  <2>2. call' = [call EXCEPT ![a] = at]
    BY <1>a, <2>1 DEF Goto
  <2>3. at \in Calls /\ at.pos = p /\ at.obj = o
    BY <1>m
  <2> HIDE DEF at
  <2>4. \A f \in Elts : ObjLive(f, elt[f], at)
    BY <1>c, <2>1, <2>3 DEF ObjLive
  <2>5. CallLive(at, elt[at.obj])
    BY <1>c, <2>1, <2>3 DEF CallLive
  <2> QED BY <1>a, <1>c, <2>1, <2>2, <2>3, <2>4, <2>5, LiveMove
<1>8. CASE StartReturn(a)
  <2> DEFINE at == [call[a] EXCEPT !.pos = "idle", !.result = Loop(o)]
  <2>1. pos = "return" /\ elt' = elt /\ call' = [call EXCEPT ![a] = at]
    BY <1>8, <1>a, <1>b DEF StartReturn, At
  <2>2. at \in Calls /\ at.pos = "idle" /\ at.obj = o /\ at.result = Loop(o)
    BY <1>b DEF Calls, Loop
  <2> HIDE DEF at
  <2>3. \A f \in Elts : ObjLive(f, elt[f], at)
    BY <1>c, <2>1, <2>2 DEF ObjLive
  <2>4. (Kept(o, elt[o]) /\ elt[o].started_) => elt[o].loop_
    BY <1>b, <1>c, <2>1 DEF ObjLive
  <2>5. CallLive(at, elt[at.obj])
    BY <2>2, <2>4 DEF CallLive, Loop
  <2> QED BY <1>a, <1>c, <2>1, <2>2, <2>3, <2>5, LiveMove
<1> QED BY <1>1, <1>2, <1>3, <1>4, <1>5, <1>6, <1>7, <1>8 DEF InCall

\* How a step of its thread, or of the code its loop runs, changes object e
\* from x into y.
ThreadChanges(e, x, y) ==
    /\ y \in Objects /\ y.started_ = x.started_
    /\ y.dtorQuit = "none" => x.dtorQuit = "none"
    /\ y.quit_ => x.quit_ \/ e \in Quitters
    /\ y.tpc \in {"unpublish", "destroy", "done"} =>
           x.quit_ \/ x.tpc \in {"unpublish", "destroy", "done"}
    /\ x.loop_ /\ ~y.loop_ => x.tpc = "unpublish"

\* A step of a thread.  It wakes nobody but the one caller, and takes a loop
\* back only after somebody has asked it to quit.
LEMMA LiveThread ==
    ASSUME NEW a \in Callers, ThreadInv, LiveInv(a), NEW e \in Elts, ThreadStep(e) \/ AppQuit(e)
    PROVE  LiveInv(a)'
<1>a. /\ elt \in [Elts -> Objects] /\ \A f \in Elts : Good(elt[f])
      /\ call \in [Callers -> Calls] /\ terminated \in BOOLEAN
  BY InvEach
<1> DEFINE o == call[a].obj
<1>b. call[a] \in Calls /\ o \in Elts /\ elt[e] \in Objects
  BY <1>a DEF Calls
<1>c. /\ OnlyCaller(a) /\ CallLive(call[a], elt[o])
      /\ \A f \in Elts : ObjLive(f, elt[f], call[a])
  BY DEF LiveInv
<1>1. PICK at \in Calls :
          /\ call' = [call EXCEPT ![a] = at] /\ at.obj = o /\ at.result = call[a].result
          /\ \/ at.pos = call[a].pos
             \/ call[a].pos \in {"sleepId", "sleepLoop"} /\ at.pos \in {"waitId", "waitLoop"}
  <2> USE DEF InsideStart, InsideDtor
  <2>m. ASSUME NEW p \in {"waitId", "waitLoop"}
        PROVE  /\ [call[a] EXCEPT !.pos = p] \in Calls
               /\ [call[a] EXCEPT !.pos = p].pos = p
               /\ [call[a] EXCEPT !.pos = p].obj = o
               /\ [call[a] EXCEPT !.pos = p].result = call[a].result
    BY <1>b DEF Calls
  <2>1. CASE call' = call
    <3>1. call' = [call EXCEPT ![a] = call[a]]
      BY <1>a, <2>1
    <3> QED BY <1>b, <3>1
  <2>2. CASE NotifyId(e)
    <3>1. \A c \in Callers \ {a} : c \notin Sleepers(e, "sleepId")
      BY <1>c DEF OnlyCaller, Sleepers, At
    <3>2. CASE a \in Sleepers(e, "sleepId")
      <4>1. call' = [call EXCEPT ![a] = [call[a] EXCEPT !.pos = "waitId"]]
        BY <1>a, <2>2, <3>1, <3>2 DEF NotifyId
      <4>2. call[a].pos = "sleepId"
        BY <3>2 DEF Sleepers, At
      <4> QED BY <2>m, <4>1, <4>2
    <3>3. CASE a \notin Sleepers(e, "sleepId")
      <4>1. call' = [c \in Callers |-> call[c]]
        BY <2>2, <3>1, <3>3 DEF NotifyId
      <4>2. call' = [call EXCEPT ![a] = call[a]]
        BY <1>a, <4>1
      <4> QED BY <1>b, <4>2
    <3> QED BY <3>2, <3>3
  <2>3. CASE Notify(e) /\ call' # call
    <3>1. PICK c \in Sleepers(e, "sleepLoop") : Goto(c, "waitLoop")
      BY <2>3 DEF Notify, NotifyOne
    <3>2. c = a /\ call[a].pos = "sleepLoop"
      BY <1>c, <3>1 DEF Sleepers, At, OnlyCaller
    <3>3. call' = [call EXCEPT ![a] = [call[a] EXCEPT !.pos = "waitLoop"]]
      BY <1>a, <3>1, <3>2 DEF Goto
    <3> QED BY <2>m, <3>2, <3>3
  <2>4. NotifyId(e) \/ Notify(e) \/ call' = call
    BY DEF ThreadStep, SetId, Construct, InitReturns, Publish, LoopReset, AppQuit, LoopExit,
           Unpublish, ThreadDone, ThreadAssigns
  <2> QED BY <2>1, <2>2, <2>3, <2>4
<1>2. PICK x : elt' = [elt EXCEPT ![e] = x] /\ ThreadChanges(e, elt[e], x)
  <2> USE DEF TPCs
  <2>1. CASE SetId(e)
    <3>1. elt' = [elt EXCEPT ![e] = [elt[e] EXCEPT !.id_ = TRUE, !.tpc = "notifyId"]]
      BY <2>1, <1>a DEF SetId, ThreadAssigns, Objects
    <3>2. ThreadChanges(e, elt[e], [elt[e] EXCEPT !.id_ = TRUE, !.tpc = "notifyId"])
      BY <1>b, <3>1 DEF Objects, ThreadChanges
    <3> QED BY <3>1, <3>2
  <2>2. CASE NotifyId(e)
    <3>1. elt' = [elt EXCEPT ![e] = [elt[e] EXCEPT !.tpc = "construct"]]
      BY <2>2, <1>a DEF NotifyId
    <3>2. ThreadChanges(e, elt[e], [elt[e] EXCEPT !.tpc = "construct"])
      BY <1>b, <3>1 DEF Objects, ThreadChanges
    <3> QED BY <3>1, <3>2
  <2>3. CASE Construct(e)
    <3>1. elt' = [elt EXCEPT ![e] = [elt[e] EXCEPT !.alive = TRUE, !.tpc = "init"]]
      BY <2>3, <1>a DEF Construct, ThreadAssigns, Objects
    <3>2. ThreadChanges(e, elt[e], [elt[e] EXCEPT !.alive = TRUE, !.tpc = "init"])
      BY <1>b, <3>1 DEF Objects, ThreadChanges
    <3> QED BY <3>1, <3>2
  <2>4. CASE InitReturns(e)
    <3>1. elt' = [elt EXCEPT ![e] = [elt[e] EXCEPT !.alive = TRUE, !.tpc = "publish"]]
      BY <2>4, <1>a DEF InitReturns, ThreadAssigns, Objects
    <3>2. ThreadChanges(e, elt[e], [elt[e] EXCEPT !.alive = TRUE, !.tpc = "publish"])
      BY <1>b, <3>1 DEF Objects, ThreadChanges
    <3> QED BY <3>1, <3>2
  <2>5. CASE Publish(e)
    <3>1. elt' = [elt EXCEPT ![e] = [elt[e] EXCEPT !.loop_ = TRUE, !.tpc = "notify"]]
      BY <2>5, <1>a DEF Publish, ThreadAssigns, Objects
    <3>2. ThreadChanges(e, elt[e], [elt[e] EXCEPT !.loop_ = TRUE, !.tpc = "notify"])
      BY <1>b, <3>1 DEF Objects, ThreadChanges
    <3> QED BY <3>1, <3>2
  <2>6. CASE Notify(e)
    <3>1. elt' = [elt EXCEPT ![e] = [elt[e] EXCEPT !.tpc = "enter"]]
      BY <2>6, <1>a DEF Notify
    <3>2. ThreadChanges(e, elt[e], [elt[e] EXCEPT !.tpc = "enter"])
      BY <1>b, <3>1 DEF Objects, ThreadChanges
    <3> QED BY <3>1, <3>2
  <2>7. CASE LoopReset(e)
    <3>1. elt' = [elt EXCEPT ![e] = [elt[e] EXCEPT !.quit_ = FALSE, !.tpc = "looping",
                                         !.dtorQuit = IF @ = "sent" THEN "lost" ELSE @]]
      BY <2>7, <1>a DEF LoopReset
    <3>2. ThreadChanges(e, elt[e], [elt[e] EXCEPT !.quit_ = FALSE, !.tpc = "looping",
                                      !.dtorQuit = IF @ = "sent" THEN "lost" ELSE @])
      BY <1>b, <3>1 DEF Objects, ThreadChanges
    <3> QED BY <3>1, <3>2
  <2>8. CASE AppQuit(e)
    <3>1. elt' = [elt EXCEPT ![e] = [elt[e] EXCEPT !.quit_ = TRUE]] /\ e \in Quitters
      BY <2>8, <1>a DEF AppQuit
    <3>2. ThreadChanges(e, elt[e], [elt[e] EXCEPT !.quit_ = TRUE])
      BY <1>b, <3>1 DEF Objects, ThreadChanges
    <3> QED BY <3>1, <3>2
  <2>9. CASE LoopExit(e)
    <3>1. /\ elt' = [elt EXCEPT ![e] = [elt[e] EXCEPT !.quit_ = TRUE, !.tpc = "unpublish"]]
          /\ elt[e].quit_
      BY <2>9, <1>a DEF LoopExit, ThreadAssigns, Objects
    <3>2. ThreadChanges(e, elt[e], [elt[e] EXCEPT !.quit_ = TRUE, !.tpc = "unpublish"])
      BY <1>b, <3>1 DEF Objects, ThreadChanges
    <3> QED BY <3>1, <3>2
  <2>10. CASE Unpublish(e)
    <3>1. /\ elt' = [elt EXCEPT ![e] = [elt[e] EXCEPT !.loop_ = FALSE, !.tpc = "destroy"]]
          /\ elt[e].tpc = "unpublish"
      BY <2>10, <1>a DEF Unpublish, ThreadAssigns, Objects
    <3>2. ThreadChanges(e, elt[e], [elt[e] EXCEPT !.loop_ = FALSE, !.tpc = "destroy"])
      BY <1>b, <3>1 DEF Objects, ThreadChanges
    <3> QED BY <3>1, <3>2
  <2>11. CASE ThreadDone(e)
    <3>1. /\ elt' = [elt EXCEPT ![e] = [elt[e] EXCEPT !.alive = FALSE, !.tpc = "done"]]
          /\ elt[e].tpc = "destroy"
      BY <2>11, <1>a DEF ThreadDone, ThreadAssigns, Objects
    <3>2. ThreadChanges(e, elt[e], [elt[e] EXCEPT !.alive = FALSE, !.tpc = "done"])
      BY <1>b, <3>1 DEF Objects, ThreadChanges
    <3> QED BY <3>1, <3>2
  <2> QED BY <2>1, <2>2, <2>3, <2>4, <2>5, <2>6, <2>7, <2>8, <2>9, <2>10, <2>11 DEF ThreadStep
<1> HIDE DEF o
<1>3. (at.pos \in Waiting <=> call[a].pos \in Waiting) /\ (at.pos \in InsideDtor <=> call[a].pos \in InsideDtor)
      /\ (at.pos = "idle" <=> call[a].pos = "idle")
      /\ (at.pos \in InsideStart \ {"store"} => call[a].pos \in InsideStart \ {"store"})
  BY <1>1 DEF Waiting, InsideStart, InsideDtor
<1>4. \A f \in Elts \ {e} : ObjLive(f, elt[f], at)
  BY <1>1, <1>3, <1>c DEF ObjLive, o
<1>5. ObjLive(e, x, at)
  <2>1. ObjLive(e, elt[e], call[a])
    BY <1>c
  <2> QED BY <1>1, <1>2, <1>3, <2>1 DEF ThreadChanges, ObjLive, Kept, o
<1>6. CallLive(at, elt'[at.obj])
  <2>1. CASE o = e
    <3>1. elt'[at.obj] = x /\ call[a].obj = e
      BY <1>a, <1>1, <1>2, <2>1 DEF o
    <3>2. CallLive(call[a], elt[e])
      BY <1>c, <2>1
    <3> QED BY <1>1, <1>2, <1>3, <2>1, <3>1, <3>2 DEF ThreadChanges, CallLive, Kept
  <2>2. CASE o # e
    <3>1. elt'[at.obj] = elt[o] /\ at.obj = call[a].obj
      BY <1>a, <1>b, <1>1, <1>2, <2>2 DEF o
    <3> QED BY <1>1, <1>3, <1>c, <3>1 DEF CallLive, Kept
  <2> QED BY <2>1, <2>2
<1>7. x \in Objects
  BY <1>2 DEF ThreadChanges
<1> QED BY <1>a, <1>c, <1>1, <1>2, <1>4, <1>5, <1>6, <1>7, LiveStep

LEMMA LiveInit ==
    ASSUME NEW a \in Callers, Init
    PROVE  LiveInv(a)
<1>1. call \in [Callers -> [pos : {"idle"}, obj : Elts, result : {"none"}]]
  BY DEF Init
<1>2. call[a].obj \in Elts /\ call[a].pos = "idle" /\ call[a].result = "none" /\ OnlyCaller(a)
  BY <1>1 DEF OnlyCaller
<1>3. \A e \in Elts : ~elt[e].started_ /\ ~elt[e].quit_ /\ elt[e].tpc = "none"
  BY DEF Init
<1> QED BY <1>2, <1>3 DEF LiveInv, ObjLive, CallLive, InsideStart, InsideDtor

\* What the invariant says of the caller.
LEMMA LiveMeans ==
    ASSUME NEW a \in Callers, ThreadInv, LiveInv(a)
    PROVE  StartReturnsLiveLoop
<1> SUFFICES ASSUME NEW c \in Callers, At(c, "idle"), call[c].result # "none",
                    call[c].obj \notin Quitters, elt[call[c].obj].started_,
                    elt[call[c].obj].dtorQuit = "none"
             PROVE  call[c].result = "loop" /\ elt[call[c].obj].alive
  BY DEF StartReturnsLiveLoop
<1>1. c = a
  BY DEF LiveInv, OnlyCaller
<1>2. call[c].obj \in Elts
  BY DEF ThreadInv, TypeOK
<1>3. PICK e \in Elts : e = call[c].obj
  BY <1>2
<1>4. call[c].result = "loop"
  BY <1>1, <1>3 DEF LiveInv, CallLive, Kept, At
<1>5. elt[e].loop_
  BY <1>1, <1>3 DEF LiveInv, ObjLive, Kept, At, Waiting, InsideStart
<1>6. elt[e].loop_ => elt[e].alive
  BY <1>3 DEF ThreadInv, Protocol
<1> QED BY <1>3, <1>4, <1>5, <1>6

\* With one caller, what start() returned is a live loop until the destructor
\* or the code the loop runs asks it to quit, and start() called again returns
\* it again.
THEOREM StartedLoopsLive ==
    ASSUME \A c, d \in Callers : c = d
    PROVE  Spec => []StartReturnsLiveLoop
<1>1. CASE Callers = {}
  <2>1. StartReturnsLiveLoop
    BY <1>1 DEF StartReturnsLiveLoop
  <2> QED BY <2>1, PTL
<1>2. ASSUME NEW a \in Callers PROVE Spec => []StartReturnsLiveLoop
  <2>1. Init => ThreadInv /\ LiveInv(a)
    BY Start, LiveInit
  <2>2. ThreadInv /\ LiveInv(a) /\ [Next]_vars => (ThreadInv /\ LiveInv(a))'
    <3> SUFFICES ASSUME ThreadInv, LiveInv(a), [Next]_vars PROVE LiveInv(a)'
      BY InvNext
    <3>1. ASSUME NEW c \in Callers, \/ InCall(c) \/ SpuriousWakeup(c)
                                    \/ \E e \in Elts : StartCheck(c, e) \/ DtorQuit(c, e)
          PROVE  LiveInv(a)'
      <4>1. c = a
        OBVIOUS
      <4> QED BY <3>1, <4>1, LiveCaller
    <3>2. ASSUME NEW e \in Elts, ThreadStep(e) \/ AppQuit(e) PROVE LiveInv(a)'
      BY <3>2, LiveThread
    <3>3. CASE UNCHANGED vars
      BY <3>3 DEF vars, LiveInv, OnlyCaller
    <3> QED BY <3>1, <3>2, <3>3 DEF Next
  <2>3. ThreadInv /\ LiveInv(a) => StartReturnsLiveLoop
    BY LiveMeans
  <2> QED BY <2>1, <2>2, <2>3, PTL DEF Spec
<1> QED BY <1>1, <1>2
-----------------------------------------------------------------------------
(* The turns of getNextLoop: quotients and remainders.                      *)

LEMMA DivMod ==
    ASSUME NEW m \in Nat, NEW n \in Nat \ {0}
    PROVE  \E q \in Nat, r \in 0..n-1 : m \div n = q /\ m % n = r /\ m = n * q + r
<1>1. m \div n \in Int /\ m % n \in 0..n-1
  OBVIOUS
<1>2. m \div n >= 0
  OBVIOUS
<1>3. m % n = m - n * (m \div n)
  OBVIOUS
<1>4. PICK q \in Nat, r \in 0..n-1 : m \div n = q /\ m % n = r
  BY <1>1, <1>2
<1>5. r = m - n * q
  BY <1>3, <1>4
<1>6. n * q \in Int
  OBVIOUS
<1>7. m = n * q + r
  BY <1>5, <1>6
<1> QED BY <1>4, <1>7

\* A multiple of n between -n and n is 0.
LEMMA NoMultiple ==
    ASSUME NEW n \in Nat \ {0}, NEW d \in Int, n * d < n, -n < n * d
    PROVE  d = 0
<1>1. CASE d >= 1
  <2>1. n * d >= n
    BY <1>1
  <2> QED BY <2>1
<1>2. CASE d <= -1
  <2>1. n * d <= -n
    BY <1>2
  <2> QED BY <2>1
<1> QED BY <1>1, <1>2

LEMMA DivModUnique ==
    ASSUME NEW n \in Nat \ {0}, NEW q \in Nat, NEW r \in 0..n-1, NEW m \in Nat, m = n * q + r
    PROVE  m \div n = q /\ m % n = r
<1>1. PICK p \in Nat, s \in 0..n-1 : m \div n = p /\ m % n = s /\ m = n * p + s
  BY DivMod
<1>2. n * p \in Int /\ n * q \in Int
  OBVIOUS
<1>3. n * p - n * q = r - s
  BY <1>1, <1>2
<1>4. n * (p - q) = n * p - n * q
  OBVIOUS
<1>5. PICK d \in Int : d = p - q
  OBVIOUS
<1>6. n * d < n /\ -n < n * d
  BY <1>3, <1>4, <1>5
<1>7. d = 0
  BY <1>6, NoMultiple
<1>8. p = q
  BY <1>5, <1>7
<1> QED BY <1>1, <1>2, <1>8

\* Counting one further: the remainder grows, or wraps.
LEMMA DivModNext ==
    ASSUME NEW m \in Nat, NEW n \in Nat \ {0}
    PROVE  /\ (m % n) + 1 < n => (m + 1) \div n = m \div n /\ (m + 1) % n = (m % n) + 1
           /\ (m % n) + 1 = n => (m + 1) \div n = m \div n + 1 /\ (m + 1) % n = 0
<1>1. PICK q \in Nat, r \in 0..n-1 : m \div n = q /\ m % n = r /\ m = n * q + r
  BY DivMod
<1>2. n * q \in Int /\ n * (q + 1) = n * q + n
  OBVIOUS
<1>3. CASE r + 1 < n
  <2>1. m + 1 \in Nat /\ r + 1 \in 0..n-1 /\ m + 1 = n * q + (r + 1)
    BY <1>1, <1>2, <1>3
  <2>2. (m + 1) \div n = q /\ (m + 1) % n = r + 1
    BY <2>1, DivModUnique
  <2> QED BY <1>1, <1>3, <2>2
<1>4. CASE r + 1 = n
  <2>1. PICK p \in Nat : p = q + 1
    OBVIOUS
  <2>2. m + 1 \in Nat /\ 0 \in 0..n-1 /\ m + 1 = n * p + 0
    BY <1>1, <1>2, <1>4, <2>1
  <2>3. (m + 1) \div n = p /\ (m + 1) % n = 0
    BY <2>2, DivModUnique
  <2> QED BY <1>1, <1>4, <2>1, <2>3
<1> QED BY <1>1, <1>3, <1>4

\* How often the first m turns, from next_ = 0, have come to element e.
TurnsOf(m, e) == (m \div NumThreads) + IF e <= m % NumThreads THEN 1 ELSE 0

LEMMA TurnsNat ==
    ASSUME NEW m \in Nat, NEW e \in PoolThreads
    PROVE  TurnsOf(m, e) \in Nat
<1>1. PICK q \in Nat : m \div NumThreads = q
  BY PoolAssumption, DivMod
<1> QED BY <1>1 DEF TurnsOf

LEMMA NoTurns ==
    ASSUME NEW e \in PoolThreads
    PROVE  TurnsOf(0, e) = 0
<1>1. 0 = NumThreads * 0 + 0 /\ 0 \in 0..NumThreads - 1
  BY PoolAssumption
<1>2. 0 \div NumThreads = 0 /\ 0 % NumThreads = 0
  BY <1>1, PoolAssumption, DivModUnique
<1> QED BY <1>2 DEF TurnsOf, PoolThreads

\* One more turn: it comes to the element after the remainder.
LEMMA NextTurn ==
    ASSUME NEW m \in Nat, NEW e \in PoolThreads
    PROVE  TurnsOf(m + 1, e) = TurnsOf(m, e) + IF e = (m % NumThreads) + 1 THEN 1 ELSE 0
<1>1. PICK q \in Nat, r \in 0..NumThreads-1 : m \div NumThreads = q /\ m % NumThreads = r
  BY PoolAssumption, DivMod
<1>2. CASE r + 1 < NumThreads
  <2>1. (m + 1) \div NumThreads = q /\ (m + 1) % NumThreads = r + 1
    BY <1>1, <1>2, PoolAssumption, DivModNext
  <2> QED BY <1>1, <1>2, <2>1, PoolAssumption DEF TurnsOf, PoolThreads
<1>3. CASE r + 1 = NumThreads
  <2>1. (m + 1) \div NumThreads = q + 1 /\ (m + 1) % NumThreads = 0
    BY <1>1, <1>3, PoolAssumption, DivModNext
  <2> QED BY <1>1, <1>3, <2>1, PoolAssumption DEF TurnsOf, PoolThreads
<1> QED BY <1>1, <1>2, <1>3, PoolAssumption

\* No element is more than one turn ahead of another.
LEMMA TurnsEven ==
    ASSUME NEW m \in Nat, NEW e \in PoolThreads, NEW f \in PoolThreads
    PROVE  TurnsOf(m, e) <= TurnsOf(m, f) + 1
<1>1. PICK q \in Nat : m \div NumThreads = q
  BY PoolAssumption, DivMod
<1> QED BY <1>1 DEF TurnsOf
\* Every element has had the turns that the calls so far give it; UIntSize of
\* them do not divide evenly among NumThreads elements.
Turns == /\ next_ = turns % UIntSize
         /\ \A e \in PoolThreads :
                given[e] = (turns \div UIntSize) * TurnsOf(UIntSize, e) + TurnsOf(next_, e)

PoolTypes == /\ poolStarted_ \in BOOLEAN
             /\ loops_ \in [PoolThreads -> {"nullptr", "loop"}]
             /\ next_ \in 0..UIntSize - 1
             /\ ppc \in {"created", "starting", "running", "destroying", "destroyed"}
             /\ idx \in 1..NumThreads + 1
             /\ given \in [PoolThreads -> 0..MaxCalls] /\ turns \in Nat

\* One call of getNextLoop.
LEMMA TurnsGiven ==
    ASSUME PoolTypes, Turns, GetNextLoop
    PROVE  PoolTypes' /\ Turns'
<1> USE PoolAssumption
<1>1. /\ Turn(next_) = (next_ % NumThreads) + 1 /\ turns' = turns + 1
      /\ given' = [given EXCEPT ![Turn(next_)] = @ + 1] /\ given[Turn(next_)] < MaxCalls
      /\ next_' = (next_ + 1) % UIntSize
      /\ UNCHANGED <<poolStarted_, loops_, ppc, idx>>
  BY DEF GetNextLoop, Give, Turn, Advance
<1>2. next_ \in Nat /\ turns \in Nat /\ next_ + 1 \in Nat /\ turns + 1 \in Nat
  BY DEF PoolTypes
<1>3. PICK w \in Nat : turns \div UIntSize = w
  BY <1>2, DivMod
<1>4. Turn(next_) \in PoolThreads
  <2>1. next_ % NumThreads \in 0..NumThreads - 1
    BY <1>2, DivMod
  <2> QED BY <1>1, <2>1 DEF PoolThreads
<1>5. next_' \in 0..UIntSize - 1
  BY <1>1, <1>2, DivMod
<1>6. PoolTypes'
  <2>1. given' \in [PoolThreads -> 0..MaxCalls]
    <3>1. given[Turn(next_)] \in 0..MaxCalls
      BY <1>4 DEF PoolTypes
    <3>2. given[Turn(next_)] + 1 \in 0..MaxCalls
      BY <1>1, <3>1
    <3> QED BY <1>1, <1>4, <3>2 DEF PoolTypes
  <2> QED BY <1>1, <1>2, <1>5, <2>1 DEF PoolTypes
<1>7. ASSUME NEW e \in PoolThreads
      PROVE  given'[e] = w * TurnsOf(UIntSize, e) + TurnsOf(next_ + 1, e)
  <2>1. PICK t \in Nat : t = TurnsOf(next_, e)
    BY <1>2, TurnsNat
  <2>2. PICK u \in Nat : u = TurnsOf(UIntSize, e)
    BY TurnsNat
  <2>3. given[e] = w * u + t /\ w * u \in Nat
    BY <1>3, <2>1, <2>2 DEF Turns
  <2>4. TurnsOf(next_ + 1, e) = t + IF e = Turn(next_) THEN 1 ELSE 0
    BY <1>1, <1>2, <2>1, NextTurn
  <2>5. given'[e] = given[e] + IF e = Turn(next_) THEN 1 ELSE 0
    <3>1. given[e] \in 0..MaxCalls
      BY DEF PoolTypes
    <3>2. CASE e = Turn(next_)
      BY <1>1, <1>4, <3>2 DEF PoolTypes
    <3>3. CASE e # Turn(next_)
      BY <1>1, <3>1, <3>3 DEF PoolTypes
    <3> QED BY <3>2, <3>3
  <2>6. CASE e = Turn(next_)
    BY <2>2, <2>3, <2>4, <2>5, <2>6
  <2>7. CASE e # Turn(next_)
    BY <2>2, <2>3, <2>4, <2>5, <2>7
  <2> QED BY <2>6, <2>7
<1>8. PICK s \in 0..UIntSize - 1 : next_ = s /\ turns % UIntSize = s
  BY DEF Turns, PoolTypes
<1>9. CASE s + 1 < UIntSize
  <2>1. (turns + 1) % UIntSize = s + 1 /\ (turns + 1) \div UIntSize = w
    BY <1>2, <1>3, <1>8, <1>9, DivModNext
  <2>2. next_' = s + 1
    <3>1. s + 1 \in Nat /\ s + 1 \in 0..UIntSize - 1 /\ s + 1 = UIntSize * 0 + (s + 1)
      BY <1>9
    <3>2. PICK r \in 0..UIntSize - 1 : r = s + 1
      BY <3>1
    <3>3. r \in Nat /\ r = UIntSize * 0 + r
      BY <3>2
    <3>4. r % UIntSize = r
      BY <3>3, DivModUnique
    <3> QED BY <1>1, <1>8, <3>2, <3>4
  <2> QED BY <1>1, <1>3, <1>6, <1>7, <1>8, <2>1, <2>2 DEF Turns
<1>10. CASE s + 1 = UIntSize
  <2>1. (turns + 1) % UIntSize = 0 /\ (turns + 1) \div UIntSize = w + 1
    BY <1>2, <1>3, <1>8, <1>10, DivModNext
  <2>2. next_' = 0
    <3>1. UIntSize \in Nat /\ UIntSize = UIntSize * 1 + 0 /\ 0 \in 0..UIntSize - 1 /\ 1 \in Nat
      OBVIOUS
    <3>2. UIntSize % UIntSize = 0
      BY <3>1, DivModUnique
    <3> QED BY <1>1, <1>8, <1>10, <3>2
  <2>3. ASSUME NEW e \in PoolThreads
        PROVE  given'[e] = (w + 1) * TurnsOf(UIntSize, e) + TurnsOf(0, e)
    <3>1. PICK u \in Nat : u = TurnsOf(UIntSize, e)
      BY TurnsNat
    <3>2. given'[e] = w * u + u
      BY <1>7, <1>8, <1>10, <3>1
    <3>3. (w + 1) * u = w * u + u /\ w * u \in Nat
      OBVIOUS
    <3> QED BY <3>1, <3>2, <3>3, NoTurns
  <2> QED BY <1>1, <1>6, <2>1, <2>2, <2>3 DEF Turns
<1> QED BY <1>8, <1>9, <1>10

\* What the turns say of the elements.
LEMMA TurnsBalanced ==
    ASSUME PoolTypes, Turns
    PROVE  Balanced
<1> USE PoolAssumption
<1> SUFFICES ASSUME NEW e \in PoolThreads, NEW f \in PoolThreads
             PROVE  given[e] <= given[f] + 1 + turns \div UIntSize
  BY DEF Balanced
<1>1. next_ \in Nat /\ turns \in Nat
  BY DEF PoolTypes
<1>2. PICK w \in Nat : turns \div UIntSize = w
  BY <1>1, DivMod
<1>3. PICK u \in Nat, v \in Nat : u = TurnsOf(UIntSize, e) /\ v = TurnsOf(UIntSize, f)
  BY TurnsNat
<1>4. PICK s \in Nat, t \in Nat : s = TurnsOf(next_, e) /\ t = TurnsOf(next_, f)
  BY <1>1, TurnsNat
<1>5. u <= v + 1 /\ s <= t + 1
  BY <1>1, <1>3, <1>4, TurnsEven
<1>6. given[e] = w * u + s /\ given[f] = w * v + t
  BY <1>2, <1>3, <1>4 DEF Turns
<1>7. w * u <= w * (v + 1) /\ w * (v + 1) = w * v + w /\ w * u \in Nat /\ w * v \in Nat
  BY <1>5
<1> QED BY <1>2, <1>5, <1>6, <1>7
-----------------------------------------------------------------------------
(* The pool: its owner is the one caller of its threads.                   *)

\* How far the owner has come, and what it has kept of each thread.
Progress ==
    /\ ppc = "created" => idx = 1
    /\ ppc = "running" => idx = NumThreads + 1
    /\ \A e \in PoolThreads : elt[e].dtorQuit # "none" => ppc \in {"destroying", "destroyed"}
    /\ ppc \in {"starting", "running"} =>
           \A e \in PoolThreads : e < idx => /\ elt[e].started_
                                             /\ e \notin Quitters => loops_[e] = "loop"

\* What the owner, who stands at `at', may be doing meanwhile.
OwnerFollows(at) ==
    /\ ppc = "created" /\ at.obj \in PoolThreads => at.pos = "idle" /\ at.result = "none"
    /\ ppc = "starting" /\ at.pos # "idle" =>
           at.obj = idx /\ idx <= NumThreads /\ at.pos \in InsideStart
    /\ ppc = "starting" /\ idx > 1 => at.obj \in PoolThreads
    /\ ppc = "starting" /\ at.pos = "idle" /\ at.obj \in PoolThreads =>
           at.result = "none" \/ elt[at.obj].started_
    /\ ppc = "running" /\ at.pos # "idle" => at.obj \notin PoolThreads

PoolLive == Progress /\ OwnerFollows(call[Owner])

\* A step of the threads keeps what the owner has kept of them.
LEMMA ProgressKept ==
    ASSUME Progress, UNCHANGED poolVars,
           \A e \in PoolThreads : /\ elt[e].started_ => elt'[e].started_
                                  /\ elt[e].dtorQuit = "none" => elt'[e].dtorQuit = "none"
    PROVE  Progress'
BY DEF Progress, poolVars

\* What a step inside a call does to the caller and the objects.
LEMMA CallEffect ==
    ASSUME NEW a \in Callers, ThreadInv, LiveInv(a), InCall(a) \/ SpuriousWakeup(a)
    PROVE  /\ call[a].pos # "idle" /\ call'[a].obj = call[a].obj
           /\ call[a].pos \in InsideStart =>
                  \/ call'[a].pos \in InsideStart
                  \/ call'[a].pos = "idle" /\ elt[call[a].obj].started_
           /\ \A e \in Elts : /\ elt[e].started_ => elt'[e].started_
                              /\ elt'[e].dtorQuit = elt[e].dtorQuit
<1>a. elt \in [Elts -> Objects] /\ call \in [Callers -> Calls]
  BY InvEach
<1> DEFINE o == call[a].obj
<1>b. o \in Elts /\ call[a] \in Calls
  BY <1>a DEF Calls
<1>1. CASE (InCall(a) /\ ~StartReturn(a)) \/ SpuriousWakeup(a)
  <2>1. PICK p : /\ Goto(a, p) /\ call[a].pos # "idle"
                 /\ call[a].pos \in InsideStart => p \in InsideStart
    BY <1>1 DEF InCall, StartStore, ThreadStartCheck, ThreadSpawn, WaitId, WaitLoop, Join,
                Joined, Destroyed, SpuriousWakeup, At, InsideStart
  <2>2. call'[a].obj = o /\ call'[a].pos = p
    BY <1>a, <1>b, <2>1 DEF Goto, Calls
  <2>3. \A e \in Elts : /\ elt[e].started_ => elt'[e].started_
                        /\ elt'[e].dtorQuit = elt[e].dtorQuit
    <3>1. CASE UNCHANGED elt
      BY <3>1
    <3>2. CASE StartStore(a) \/ ThreadSpawn(a)
      BY <1>a, <1>b, <3>2 DEF StartStore, ThreadSpawn, Objects
    <3>3. CASE Join(a) \/ Destroyed(a)
      BY <1>a, <1>b, <3>3 DEF Join, Destroyed, Objects
    <3> QED BY <1>1, <3>1, <3>2, <3>3 DEF InCall, ThreadStartCheck, WaitId, WaitLoop, Joined,
                                          SpuriousWakeup
  <2> QED BY <2>1, <2>2, <2>3
<1>2. CASE StartReturn(a)
  <2>1. /\ call[a].pos = "return" /\ call'[a].pos = "idle" /\ call'[a].obj = o /\ elt' = elt
    BY <1>2, <1>a, <1>b DEF StartReturn, At, Calls
  <2>2. elt[o].started_
    BY <2>1 DEF LiveInv, CallLive, InsideStart
  <2> QED BY <2>1, <2>2
<1> QED BY <1>1, <1>2

\* ... and a step of thread e.
LEMMA ThreadEffect ==
    ASSUME NEW a \in Callers, ThreadInv, NEW e \in Elts, ThreadStep(e) \/ AppQuit(e)
    PROVE  /\ call'[a].obj = call[a].obj /\ call'[a].result = call[a].result
           /\ \/ call'[a].pos = call[a].pos
              \/ call[a].pos \in InsideStart /\ call'[a].pos \in InsideStart
           /\ \A f \in Elts : /\ elt'[f].started_ = elt[f].started_
                              /\ elt'[f].dtorQuit = "none" <=> elt[f].dtorQuit = "none"
<1>a. elt \in [Elts -> Objects] /\ call \in [Callers -> Calls]
  BY InvEach
<1>b. call[a] \in Calls
  BY <1>a
<1>1. \A f \in Elts : /\ elt'[f].started_ = elt[f].started_
                      /\ elt'[f].dtorQuit = "none" <=> elt[f].dtorQuit = "none"
  <2>1. CASE SetId(e) \/ Construct(e) \/ InitReturns(e) \/ Publish(e)
    BY <2>1, <1>a DEF SetId, Construct, InitReturns, Publish, ThreadAssigns, Objects
  <2>2. CASE LoopExit(e) \/ Unpublish(e) \/ ThreadDone(e)
    BY <2>2, <1>a DEF LoopExit, Unpublish, ThreadDone, ThreadAssigns, Objects
  <2>3. CASE NotifyId(e) \/ Notify(e) \/ AppQuit(e)
    BY <2>3, <1>a DEF NotifyId, Notify, AppQuit, Objects
  <2>4. CASE LoopReset(e)
    BY <2>4, <1>a DEF LoopReset, Objects
  <2> QED BY <2>1, <2>2, <2>3, <2>4 DEF ThreadStep
<1>2. /\ call'[a].obj = call[a].obj /\ call'[a].result = call[a].result
      /\ \/ call'[a].pos = call[a].pos
         \/ call[a].pos \in InsideStart /\ call'[a].pos \in InsideStart
  <2>1. CASE NotifyId(e)
    BY <2>1, <1>a, <1>b DEF NotifyId, Sleepers, At, Calls, InsideStart
  <2>2. CASE Notify(e)
    BY <2>2, <1>a, <1>b DEF Notify, NotifyOne, Sleepers, Goto, At, Calls, InsideStart
  <2>3. CASE call' = call
    BY <2>3
  <2>4. NotifyId(e) \/ Notify(e) \/ call' = call
    BY DEF ThreadStep, SetId, Construct, InitReturns, Publish, LoopReset, AppQuit, LoopExit,
           Unpublish, ThreadDone, ThreadAssigns
  <2> QED BY <2>1, <2>2, <2>3, <2>4
<1> QED BY <1>1, <1>2

\* What the pool's invariants need of its steps.
PoolSafe == ThreadInv /\ LiveInv(Owner) /\ PoolTypes /\ PoolLive /\ Turns

LEMMA PoolStarts == PoolInit => PoolSafe
<1> SUFFICES ASSUME PoolInit PROVE PoolSafe
  OBVIOUS
<1> USE PoolAssumption
<1>1. ThreadInv /\ LiveInv(Owner)
  BY Start, LiveInit DEF PoolInit
<1>2. PoolTypes
  <2>1. 0 \in 0..UIntSize - 1 /\ 1 \in 1..NumThreads + 1 /\ 0 \in 0..MaxCalls /\ 0 \in Nat
    OBVIOUS
  <2>2. given \in [PoolThreads -> 0..MaxCalls] /\ loops_ \in [PoolThreads -> {"nullptr", "loop"}]
    BY <2>1 DEF PoolInit
  <2> QED BY <2>1, <2>2 DEF PoolInit, PoolTypes
<1>3. \A e \in PoolThreads : elt[e].dtorQuit = "none"
  BY DEF PoolInit, Init
<1>4. call[Owner].pos = "idle" /\ call[Owner].result = "none" /\ ppc = "created" /\ idx = 1
  BY DEF PoolInit, Init
<1>5. PoolLive
  BY <1>3, <1>4 DEF PoolLive, Progress, OwnerFollows
<1>6. Turns
  <2>1. 0 = UIntSize * 0 + 0 /\ 0 \in 0..UIntSize - 1
    OBVIOUS
  <2>2. 0 \div UIntSize = 0 /\ 0 % UIntSize = 0
    BY <2>1, DivModUnique
  <2>3. ASSUME NEW e \in PoolThreads
        PROVE  given[e] = 0 * TurnsOf(UIntSize, e) + TurnsOf(0, e)
    <3>1. PICK u \in Nat : u = TurnsOf(UIntSize, e)
      BY TurnsNat
    <3>2. given[e] = 0 /\ 0 * u = 0
      BY DEF PoolInit
    <3> QED BY <3>1, <3>2, NoTurns
  <2>4. next_ = 0 /\ turns = 0
    BY DEF PoolInit
  <2> QED BY <2>2, <2>3, <2>4 DEF Turns
<1> QED BY <1>1, <1>2, <1>5, <1>6 DEF PoolSafe

\* Steps of the threads, of the owner inside a call, and of the owner that
\* begins one: the pool itself is left alone.
LEMMA ThreadsKeepPool ==
    ASSUME PoolSafe, UNCHANGED poolVars,
           \/ InCall(Owner) \/ SpuriousWakeup(Owner)
           \/ \E e \in Elts : ThreadStep(e) \/ AppQuit(e)
    PROVE  PoolSafe'
<1> USE PoolAssumption
<1>a. ThreadInv /\ LiveInv(Owner) /\ PoolTypes /\ PoolLive /\ Turns
  BY DEF PoolSafe
<1>b. PoolTypes' /\ Turns'
  BY <1>a DEF PoolTypes, Turns, poolVars, histVars
<1>c. ppc' = ppc /\ idx' = idx
  BY DEF poolVars
<1>1. CASE InCall(Owner) \/ SpuriousWakeup(Owner)
  <2>1. ThreadInv' /\ LiveInv(Owner)'
    BY <1>1, <1>a, CallerSteps, LiveCaller
  <2>2. /\ call[Owner].pos # "idle" /\ call'[Owner].obj = call[Owner].obj
        /\ call[Owner].pos \in InsideStart =>
               \/ call'[Owner].pos \in InsideStart
               \/ call'[Owner].pos = "idle" /\ elt[call[Owner].obj].started_
        /\ \A e \in Elts : /\ elt[e].started_ => elt'[e].started_
                           /\ elt'[e].dtorQuit = elt[e].dtorQuit
    BY <1>1, <1>a, CallEffect
  <2>3. Progress'
    BY <1>a, <2>2, ProgressKept DEF PoolLive
  <2>4. OwnerFollows(call[Owner])'
    <3>1. CASE ppc = "starting"
      <4>1. call[Owner].pos \in InsideStart
        BY <1>a, <2>2, <3>1 DEF PoolLive, OwnerFollows
      <4>2. call[Owner].obj \in PoolThreads /\ elt[call[Owner].obj].started_
                => elt'[call[Owner].obj].started_
        BY <2>2
      <4> QED BY <1>a, <1>c, <2>2, <3>1, <4>1, <4>2 DEF PoolLive, OwnerFollows, InsideStart
    <3>2. CASE ppc # "starting"
      BY <1>a, <1>c, <2>2, <3>2 DEF PoolLive, OwnerFollows
    <3> QED BY <3>1, <3>2
  <2> QED BY <1>b, <2>1, <2>3, <2>4 DEF PoolSafe, PoolLive
<1>2. ASSUME NEW e \in Elts, ThreadStep(e) \/ AppQuit(e) PROVE PoolSafe'
  <2>1. ThreadInv' /\ LiveInv(Owner)'
    BY <1>2, <1>a, ThreadSteps, LiveThread
  <2>2. /\ call'[Owner].obj = call[Owner].obj /\ call'[Owner].result = call[Owner].result
        /\ \/ call'[Owner].pos = call[Owner].pos
           \/ call[Owner].pos \in InsideStart /\ call'[Owner].pos \in InsideStart
        /\ \A f \in Elts : /\ elt'[f].started_ = elt[f].started_
                           /\ elt'[f].dtorQuit = "none" <=> elt[f].dtorQuit = "none"
    BY <1>2, <1>a, ThreadEffect
  <2>3. Progress'
    BY <1>a, <2>2, ProgressKept DEF PoolLive
  <2>4. OwnerFollows(call[Owner])'
    BY <1>a, <1>c, <2>2 DEF PoolLive, OwnerFollows, InsideStart
  <2> QED BY <1>b, <2>1, <2>3, <2>4 DEF PoolSafe, PoolLive
<1> QED BY <1>1, <1>2

\* The owner calls start() of e: of the thread it has come to, or of one that
\* is not in the pool.
LEMMA StartKeepsPool ==
    ASSUME PoolSafe, UNCHANGED poolVars, NEW e \in Elts, StartCheck(Owner, e),
           \/ ppc = "starting" /\ e = idx /\ idx <= NumThreads
           \/ ppc # "starting" /\ e \notin PoolThreads
    PROVE  PoolSafe'
<1> USE PoolAssumption
<1>a. ThreadInv /\ LiveInv(Owner) /\ PoolTypes /\ PoolLive /\ Turns
  BY DEF PoolSafe
<1>b. PoolTypes' /\ Turns'
  BY <1>a DEF PoolTypes, Turns, poolVars, histVars
<1>c. ppc' = ppc /\ idx' = idx /\ idx \in 1..NumThreads + 1
  BY <1>a DEF poolVars, PoolTypes
<1>1. ThreadInv' /\ LiveInv(Owner)'
  BY <1>a, CallerSteps, LiveCaller
<1>2. /\ elt' = elt /\ call'[Owner].obj = e
      /\ \/ call'[Owner].pos = "store"
         \/ call'[Owner].pos = "idle" /\ elt[e].started_
  <2>1. elt \in [Elts -> Objects] /\ call \in [Callers -> Calls]
    BY <1>a, InvEach
  <2> QED BY <2>1 DEF StartCheck, Calls
<1>3. Progress'
  BY <1>a, <1>2, ProgressKept DEF PoolLive
<1>4. OwnerFollows(call[Owner])'
  BY <1>c, <1>2 DEF OwnerFollows, InsideStart, PoolThreads
<1> QED BY <1>b, <1>1, <1>3, <1>4 DEF PoolSafe, PoolLive

\* ... and its destructor.
LEMMA DtorKeepsPool ==
    ASSUME PoolSafe, UNCHANGED poolVars, NEW e \in Elts, DtorQuit(Owner, e),
           \/ ppc = "destroying"
           \/ ppc # "starting" /\ e \notin PoolThreads
    PROVE  PoolSafe'
<1> USE PoolAssumption
<1>a. ThreadInv /\ LiveInv(Owner) /\ PoolTypes /\ PoolLive /\ Turns
  BY DEF PoolSafe
<1>b. PoolTypes' /\ Turns'
  BY <1>a DEF PoolTypes, Turns, poolVars, histVars
<1>c. ppc' = ppc /\ idx' = idx /\ loops_' = loops_
  BY DEF poolVars
<1>1. ThreadInv' /\ LiveInv(Owner)'
  BY <1>a, CallerSteps, LiveCaller
<1>2. elt \in [Elts -> Objects] /\ call \in [Callers -> Calls]
  BY <1>a, InvEach
<1>3. call'[Owner].obj = e
  <2>1. call' = [call EXCEPT ![Owner].pos = "join", ![Owner].obj = e]
    BY DEF DtorQuit
  <2> QED BY <1>2, <2>1 DEF Calls
<1>4. \A f \in Elts : /\ elt'[f].started_ = elt[f].started_
                      /\ f # e => elt'[f].dtorQuit = elt[f].dtorQuit
  <2>1. CASE elt[e].loop_
    <3>1. elt' = [elt EXCEPT ![e].quit_ = TRUE, ![e].dtorQuit = "sent"]
      BY <2>1 DEF DtorQuit, QuitIfPublished
    <3> QED BY <1>2, <3>1 DEF Objects
  <2>2. CASE ~elt[e].loop_
    BY <2>2 DEF DtorQuit, QuitIfPublished
  <2> QED BY <2>1, <2>2
<1>5. Progress'
  <2>1. CASE ppc = "destroying"
    BY <1>c, <2>1 DEF Progress
  <2>2. CASE e \notin PoolThreads
    <3>1. \A f \in PoolThreads : /\ elt[f].started_ => elt'[f].started_
                                 /\ elt[f].dtorQuit = "none" => elt'[f].dtorQuit = "none"
      BY <1>4, <2>2
    <3> QED BY <1>a, <3>1, ProgressKept DEF PoolLive
  <2> QED BY <2>1, <2>2
<1>6. OwnerFollows(call[Owner])'
  BY <1>c, <1>3 DEF OwnerFollows
<1> QED BY <1>b, <1>1, <1>5, <1>6 DEF PoolSafe, PoolLive

\* start() of the thread the owner had come to has returned.
LEMMA StartedKeepsPool ==
    ASSUME PoolSafe, ThreadStarted
    PROVE  PoolSafe'
<1> USE PoolAssumption
<1>a. ThreadInv /\ LiveInv(Owner) /\ PoolTypes /\ PoolLive /\ Turns
  BY DEF PoolSafe
<1>b. elt \in [Elts -> Objects] /\ call \in [Callers -> Calls] /\ terminated \in BOOLEAN
      /\ (\A e \in Elts : Good(elt[e])) /\ call[Owner] \in Calls
  BY <1>a, InvEach
<1>c. /\ ppc = "starting" /\ call[Owner].pos = "idle" /\ call[Owner].obj = idx
      /\ call[Owner].result # "none"
      /\ loops_' = [loops_ EXCEPT ![idx] = call[Owner].result]
      /\ call' = [call EXCEPT ![Owner].result = "none"]
      /\ idx' = idx + 1 /\ ppc' = ppc /\ elt' = elt /\ terminated' = terminated
      /\ UNCHANGED <<poolStarted_, next_, given, turns>>
  BY DEF ThreadStarted, At, histVars
<1> DEFINE at == [call[Owner] EXCEPT !.result = "none"]
<1>1. call' = [call EXCEPT ![Owner] = at]
  BY <1>b, <1>c
<1>2. at \in Calls /\ at.pos = "idle" /\ at.result = "none" /\ at.obj = idx
  BY <1>b, <1>c DEF Calls
<1> HIDE DEF at
<1>3. ThreadInv'
  <2>1. call' \in [Callers -> Calls]
    BY <1>b, <1>1, <1>2
  <2> QED BY <1>b, <1>c, <2>1, InvEachNext
<1>4. LiveInv(Owner)'
  <2>1. OnlyCaller(Owner) /\ \A f \in Elts : ObjLive(f, elt[f], call[Owner])
    BY <1>a DEF LiveInv
  <2>2. \A f \in Elts : ObjLive(f, elt[f], at)
    BY <1>c, <1>2, <2>1 DEF ObjLive
  <2>3. CallLive(at, elt[at.obj])
    BY <1>2 DEF CallLive, InsideStart, InsideDtor
  <2> QED BY <1>b, <1>c, <1>1, <1>2, <2>1, <2>2, <2>3, LiveMove
<1>5. idx \in PoolThreads /\ idx \in 1..NumThreads /\ idx \in Elts
  <2>1. idx > 1 => idx \in PoolThreads
    BY <1>a, <1>c DEF PoolLive, OwnerFollows
  <2>2. idx \in 1..NumThreads + 1
    BY <1>a DEF PoolTypes
  <2> QED BY <2>1, <2>2 DEF PoolThreads
<1>6. elt[idx].started_
  BY <1>a, <1>c, <1>5 DEF PoolLive, OwnerFollows
<1>7. call[Owner].result \in {"nullptr", "loop"}
  BY <1>b, <1>c DEF Calls
<1>8. idx \notin Quitters => call[Owner].result = "loop"
  <2>1. elt[idx].dtorQuit = "none"
    BY <1>a, <1>c, <1>5 DEF PoolLive, Progress
  <2>2. CallLive(call[Owner], elt[idx])
    BY <1>a, <1>c DEF LiveInv
  <2> QED BY <1>c, <1>6, <2>1, <2>2 DEF CallLive, Kept
<1>9. PoolTypes' /\ Turns'
  <2>1. loops_' \in [PoolThreads -> {"nullptr", "loop"}]
    BY <1>a, <1>c, <1>7 DEF PoolTypes
  <2>2. idx' \in 1..NumThreads + 1
    BY <1>c, <1>5
  <2> QED BY <1>a, <1>c, <2>1, <2>2 DEF PoolTypes, Turns
<1>10. Progress'
  <2>1. ASSUME NEW e \in PoolThreads, e < idx'
        PROVE  elt'[e].started_ /\ (e \notin Quitters => loops_'[e] = "loop")
    <3>1. CASE e = idx
      BY <1>a, <1>c, <1>5, <1>6, <1>8, <3>1 DEF PoolTypes
    <3>2. CASE e # idx
      <4>1. e < idx
        BY <1>c, <1>5, <2>1, <3>2 DEF PoolThreads
      <4>2. elt[e].started_ /\ (e \notin Quitters => loops_[e] = "loop")
        BY <1>a, <1>c, <4>1 DEF PoolLive, Progress
      <4> QED BY <1>a, <1>c, <3>2, <4>2 DEF PoolTypes
    <3> QED BY <3>1, <3>2
  <2> QED BY <1>a, <1>c, <2>1 DEF PoolLive, Progress
<1>11. OwnerFollows(call[Owner])'
  <2>1. call'[Owner] = at
    BY <1>b, <1>1
  <2> QED BY <1>c, <1>2, <1>5, <2>1 DEF OwnerFollows
<1> QED BY <1>3, <1>4, <1>9, <1>10, <1>11 DEF PoolSafe, PoolLive

\* The owner goes on between its calls: only ppc, idx and started_ change.
LEMMA PhaseKeepsPool ==
    ASSUME PoolSafe,
           PoolStart \/ PoolRunning \/ PoolDestroy \/ ThreadDestroyed \/ PoolDestroyed
    PROVE  PoolSafe'
<1> USE PoolAssumption
<1>a. ThreadInv /\ LiveInv(Owner) /\ PoolTypes /\ PoolLive /\ Turns
  BY DEF PoolSafe
<1>b. UNCHANGED <<elt, call, terminated, loops_, next_, given, turns>>
  BY DEF PoolStart, PoolRunning, PoolDestroy, ThreadDestroyed, PoolDestroyed, vars, histVars
<1>1. ThreadInv' /\ LiveInv(Owner)' /\ Turns'
  <2>1. ThreadInv'
    BY <1>a, <1>b, InvEach, InvEachNext
  <2>2. LiveInv(Owner)'
    BY <1>a, <1>b DEF LiveInv, OnlyCaller
  <2> QED BY <1>a, <1>b, <2>1, <2>2 DEF Turns
<1>c. idx \in 1..NumThreads + 1
  BY <1>a DEF PoolTypes
<1>2. PoolTypes'
  <2>1. idx' \in 1..NumThreads + 1
    BY <1>c DEF PoolStart, PoolRunning, PoolDestroy, ThreadDestroyed, PoolDestroyed
  <2>2. /\ ppc' \in {"starting", "running", "destroying", "destroyed"}
        /\ poolStarted_' \in BOOLEAN
    BY <1>a DEF PoolTypes, PoolStart, PoolRunning, PoolDestroy, ThreadDestroyed, PoolDestroyed
  <2> QED BY <1>a, <1>b, <2>1, <2>2 DEF PoolTypes
<1>3. Progress' /\ OwnerFollows(call[Owner])'
  <2>1. CASE PoolStart
    <3>1. ppc = "created" /\ ppc' = "starting" /\ idx' = idx /\ call[Owner].pos = "idle"
      BY <2>1 DEF PoolStart, At
    <3>2. idx' = 1
      BY <1>a, <3>1 DEF PoolLive, Progress
    <3>3. Progress'
      <4>1. \A e \in PoolThreads : ~(e < idx')
        BY <3>2 DEF PoolThreads
      <4> QED BY <1>a, <1>b, <3>1, <4>1 DEF PoolLive, Progress
    <3>4. OwnerFollows(call[Owner])'
      BY <1>a, <1>b, <3>1, <3>2 DEF PoolLive, OwnerFollows
    <3> QED BY <3>3, <3>4
  <2>2. CASE PoolRunning
    <3>1. ppc = "starting" /\ ppc' = "running" /\ idx' = idx /\ idx = NumThreads + 1
      BY <1>c, <2>2 DEF PoolRunning
    <3>2. ~(idx <= NumThreads)
      BY <3>1
    <3>3. Progress'
      BY <1>a, <1>b, <3>1 DEF PoolLive, Progress
    <3>4. OwnerFollows(call[Owner])'
      BY <1>a, <1>b, <3>1, <3>2 DEF PoolLive, OwnerFollows
    <3> QED BY <3>3, <3>4
  <2>3. CASE PoolDestroy \/ ThreadDestroyed \/ PoolDestroyed
    <3>1. ppc' \in {"destroying", "destroyed"}
      BY <2>3 DEF PoolDestroy, ThreadDestroyed, PoolDestroyed
    <3> QED BY <3>1 DEF Progress, OwnerFollows
  <2> QED BY <2>1, <2>2, <2>3
<1> QED BY <1>1, <1>2, <1>3 DEF PoolSafe, PoolLive

LEMMA PoolSteps == PoolSafe /\ [PoolNext]_allVars => PoolSafe'
<1> SUFFICES ASSUME PoolSafe, [PoolNext]_allVars PROVE PoolSafe'
  OBVIOUS
<1> USE PoolAssumption
<1>a. ThreadInv /\ LiveInv(Owner) /\ PoolTypes /\ PoolLive /\ Turns
  BY DEF PoolSafe
<1>b. idx \in 1..NumThreads + 1
  BY <1>a DEF PoolTypes
<1>1. CASE ThreadsStep
  BY <1>1, ThreadsKeepPool DEF ThreadsStep
<1>2. CASE StartThread
  <2>1. idx \in Elts /\ idx <= NumThreads
    BY <1>b, <1>2 DEF StartThread, PoolThreads
  <2> QED BY <1>2, <2>1, StartKeepsPool DEF StartThread
<1>3. CASE DestroyThread
  <2>1. idx \in Elts
    BY <1>b, <1>3 DEF DestroyThread, PoolThreads
  <2> QED BY <1>3, <2>1, DtorKeepsPool DEF DestroyThread
<1>4. CASE OwnThread
  <2>1. PICK e \in Elts \ PoolThreads : StartCheck(Owner, e) \/ DtorQuit(Owner, e)
    BY <1>4 DEF OwnThread
  <2>2. ppc # "starting" /\ UNCHANGED poolVars
    BY <1>4 DEF OwnThread
  <2>3. CASE StartCheck(Owner, e)
    BY <2>1, <2>2, <2>3, StartKeepsPool
  <2>4. CASE DtorQuit(Owner, e)
    BY <2>1, <2>2, <2>4, DtorKeepsPool
  <2> QED BY <2>1, <2>3, <2>4
<1>5. CASE ThreadStarted
  BY <1>5, StartedKeepsPool
<1>6. CASE PoolStart \/ PoolRunning \/ PoolDestroy \/ ThreadDestroyed \/ PoolDestroyed
  BY <1>6, PhaseKeepsPool
<1>7. CASE GetNextLoop
  <2>1. PoolTypes' /\ Turns'
    BY <1>a, <1>7, TurnsGiven
  <2>2. UNCHANGED <<elt, call, terminated, loops_, ppc, idx>>
    BY <1>7 DEF GetNextLoop, vars
  <2>3. ThreadInv' /\ LiveInv(Owner)'
    <3>1. ThreadInv'
      BY <1>a, <2>2, InvEach, InvEachNext
    <3> QED BY <1>a, <2>2, <3>1 DEF LiveInv, OnlyCaller
  <2>4. PoolLive'
    BY <1>a, <2>2 DEF PoolLive, Progress, OwnerFollows
  <2> QED BY <2>1, <2>3, <2>4 DEF PoolSafe
<1>8. CASE UNCHANGED allVars
  <2>1. UNCHANGED <<elt, call, terminated, poolStarted_, loops_, next_, ppc, idx, given, turns>>
    BY <1>8 DEF allVars, vars, poolVars, histVars
  <2>2. ThreadInv' /\ LiveInv(Owner)'
    <3>1. ThreadInv'
      BY <1>a, <2>1, InvEach, InvEachNext
    <3> QED BY <1>a, <2>1, <3>1 DEF LiveInv, OnlyCaller
  <2>3. PoolTypes' /\ Turns'
    BY <1>a, <2>1 DEF PoolTypes, Turns
  <2>4. PoolLive'
    BY <1>a, <2>1 DEF PoolLive, Progress, OwnerFollows
  <2> QED BY <2>2, <2>3, <2>4 DEF PoolSafe
<1> QED BY <1>1, <1>2, <1>3, <1>4, <1>5, <1>6, <1>7, <1>8 DEF PoolNext, OwnerStep

LEMMA PoolIsSafe == PoolSpec => []PoolSafe
<1> QED BY PoolStarts, PoolSteps, PTL DEF PoolSpec

\* A running pool holds a live loop for each of its threads, but for those
\* that code on the loop has quit.
THEOREM PoolLoopsLive == PoolSpec => []PoolInv
<1>1. ASSUME PoolSafe PROVE PoolInv
  <2>a. ThreadInv /\ LiveInv(Owner) /\ PoolTypes /\ PoolLive
    BY <1>1 DEF PoolSafe
  <2>1. PoolTypeOK
    BY <2>a DEF PoolTypeOK, PoolTypes
  <2>2. ASSUME ppc = "running", NEW e \in PoolThreads \ Quitters
        PROVE  loops_[e] = "loop" /\ elt[e].alive
    <3>1. idx = NumThreads + 1 /\ e < idx /\ e \in Elts
      BY <2>a, <2>2, PoolAssumption DEF PoolLive, Progress, PoolThreads
    <3>2. loops_[e] = "loop" /\ elt[e].started_ /\ elt[e].dtorQuit = "none"
      BY <2>a, <2>2, <3>1 DEF PoolLive, Progress
    <3>3. ~(call[Owner].obj = e /\ call[Owner].pos \in Waiting)
      BY <2>a, <2>2 DEF PoolLive, OwnerFollows, Waiting, InsideStart
    <3>4. elt[e].loop_
      BY <2>a, <2>2, <3>1, <3>2, <3>3 DEF LiveInv, ObjLive, Kept
    <3>5. elt[e].loop_ => elt[e].alive
      BY <2>a, <3>1 DEF ThreadInv, Protocol
    <3> QED BY <3>2, <3>4, <3>5
  <2> QED BY <2>1, <2>2 DEF PoolInv, RunningPoolHasLiveLoops
<1> QED BY <1>1, PoolIsSafe, PTL

\* getNextLoop, called from any thread, gives the loops out in turn.
THEOREM LoopsTakeTurns == PoolSpec => []Balanced
<1>1. PoolSafe => Balanced
  BY TurnsBalanced DEF PoolSafe
<1> QED BY <1>1, PoolIsSafe, PTL

\* What start() returned to the pool's owner, for a thread of the pool or for
\* one of its own, is a live loop until somebody asks it to quit.
THEOREM OwnersLoopsLive == PoolSpec => []StartReturnsLiveLoop
<1>1. PoolSafe => StartReturnsLiveLoop
  BY LiveMeans, PoolAssumption DEF PoolSafe
<1> QED BY <1>1, PoolIsSafe, PTL

LEMMA DestroySteps ==
    ASSUME PoolSafe, DestroyInv, [PoolNext]_allVars
    PROVE  DestroyInv'
<1>a. ThreadInv /\ \A d \in Callers \ {Owner} : call[d].pos = "idle"
  BY DEF PoolSafe, LiveInv, OnlyCaller
<1>b. Owner \in Callers /\ PoolThreads \subseteq Elts /\ idx \in 1..NumThreads + 1
  BY PoolAssumption DEF PoolSafe, PoolTypes
<1>1. CASE \/ InCall(Owner) \/ SpuriousWakeup(Owner)
           \/ \E e \in Elts : StartCheck(Owner, e) \/ DtorQuit(Owner, e)
  BY <1>1, <1>a, <1>b, DestroyCaller
<1>2. ASSUME NEW e \in Elts, ThreadStep(e) \/ AppQuit(e) PROVE DestroyInv'
  BY <1>2, <1>a, DestroyByThread
<1>3. CASE UNCHANGED vars
  BY <1>3 DEF vars, DestroyInv
<1>4. CASE ThreadStarted
  <2>1. \A d \in Callers : call'[d].pos = call[d].pos /\ call'[d].obj = call[d].obj
    <3>1. call \in [Callers -> Calls]
      BY <1>a, InvEach
    <3> QED BY <1>4, <3>1 DEF ThreadStarted, Calls
  <2>2. UNCHANGED <<elt, terminated>>
    BY <1>4 DEF ThreadStarted
  <2> QED BY <2>1, <2>2 DEF DestroyInv
<1>5. StartThread \/ DestroyThread => idx \in Elts
  BY <1>b, PoolAssumption DEF StartThread, DestroyThread, PoolThreads
<1> QED BY <1>1, <1>2, <1>3, <1>4, <1>5
        DEF PoolNext, OwnerStep, ThreadsStep, PoolStart, StartThread, PoolRunning, PoolDestroy,
            DestroyThread, ThreadDestroyed, PoolDestroyed, OwnThread, GetNextLoop, allVars

\* The destructor of the pool, too, returns only after its threads have ended,
\* and starting and destroying them never reaches std::terminate.
THEOREM PoolJoins == PoolSpec => []DestroyedMeansThreadEnded
<1>1. PoolInit => DestroyInv
  BY DestroyStarts DEF PoolInit
<1>2. PoolSafe /\ DestroyInv /\ [PoolNext]_allVars => DestroyInv'
  BY DestroySteps
<1>3. DestroyInv => DestroyedMeansThreadEnded
  BY DEF DestroyInv, DestroyedMeansThreadEnded
<1> QED BY <1>1, <1>2, <1>3, PoolIsSafe, PTL DEF PoolSpec
=============================================================================
