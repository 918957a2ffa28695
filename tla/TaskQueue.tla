----------------------------- MODULE TaskQueue -----------------------------
(***************************************************************************)
(* What an EventLoop promises about the functors it is handed: a functor   *)
(* given to queueInLoop runs after every functor queued before it, each    *)
(* functor runs at most once, and a functor given to runInLoop by the loop *)
(* thread itself runs on the spot.                                         *)
(***************************************************************************)
EXTENDS Sequences, Functions

CONSTANT Tasks

VARIABLES queue,   \* functors accepted and not yet run, oldest first
          ran      \* functors in the order they were run

vars == <<queue, ran>>

Fresh(t) == t \in Tasks \ (Range(queue) \cup Range(ran))

Init == queue = <<>> /\ ran = <<>>

Post(t) == /\ Fresh(t)
           /\ queue' = Append(queue, t)
           /\ UNCHANGED ran

RunNext == /\ queue # <<>>
           /\ ran' = Append(ran, Head(queue))
           /\ queue' = Tail(queue)

RunNow(t) == /\ Fresh(t)
             /\ ran' = Append(ran, t)
             /\ UNCHANGED queue

Next == RunNext \/ \E t \in Tasks : Post(t) \/ RunNow(t)

Spec == Init /\ [][Next]_vars
=============================================================================
