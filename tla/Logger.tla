------------------------------- MODULE Logger -------------------------------
(***************************************************************************)
(* The asynchronous Logger: threads push lines under mutex_, one writer    *)
(* thread swaps the queue out and writes it.  It sleeps on cv_ for at most *)
(* a second; a line of level error or fatal is followed by flush().  The   *)
(* destructor stops the writer and joins it.                               *)
(*                                                                         *)
(* Lines are numbered in the order they get the mutex; what a thread does  *)
(* under the mutex is one step.  Lines logged once the destructor has      *)
(* begun are not promised to anyone, and are left out.                     *)
(***************************************************************************)
EXTENDS Naturals, Sequences

CONSTANTS Threads,
          Threshold,  \* queue length that wakes the writer (1024)
          MaxLines    \* bound: lines logged

ASSUME LoggerAssumption == Threshold \in Nat \ {0} /\ MaxLines \in Nat

VARIABLES
    queue_, needtoFlush_, running_,
    temp,       \* the lines the writer has swapped out and not written
    ofs_,       \* lines written to the stream
    onDisk,     \* how many of them have been flushed
    writer,     \* where the writer stands
    caller,     \* where each thread stands inside error() or fatal()
    closer,     \* where the destructor stands
    logged,     \* history: lines logged
    urgent      \* history: lines logged before a flush()

fileVars == <<temp, ofs_, onDisk>>
vars == <<queue_, needtoFlush_, running_, fileVars, writer, caller, closer, logged, urgent>>

Init == /\ queue_ = <<>> /\ needtoFlush_ = FALSE /\ running_ = TRUE
        /\ temp = <<>> /\ ofs_ = <<>> /\ onDisk = 0
        /\ writer = "test"
        /\ caller = [t \in Threads |-> "idle"] /\ closer = "idle"
        /\ logged = 0 /\ urgent = 0

\* cv_.notify_one(): the writer is the only one who waits.
NotifyOne == writer' = IF writer = "asleep" THEN "test" ELSE writer
-----------------------------------------------------------------------------
(* Threads that log                                                        *)

Log(t, then) ==
    /\ caller[t] = "idle" /\ closer = "idle" /\ logged < MaxLines
    /\ queue_' = Append(queue_, logged + 1) /\ logged' = logged + 1
    /\ IF Len(queue_') >= Threshold THEN NotifyOne ELSE UNCHANGED writer
    /\ caller' = [caller EXCEPT ![t] = then]
    /\ UNCHANGED <<needtoFlush_, running_, fileVars, closer, urgent>>

\* The levels up to warn only log; error and fatal go on to flush().
QuietLine(t) == Log(t, "idle")

UrgentLine(t) == Log(t, "flush")

FlushSet(t) ==
    /\ caller[t] = "flush"
    /\ needtoFlush_' = TRUE /\ urgent' = logged
    /\ caller' = [caller EXCEPT ![t] = "notify"]
    /\ UNCHANGED <<queue_, running_, fileVars, writer, closer, logged>>

FlushNotify(t) ==
    /\ caller[t] = "notify"
    /\ NotifyOne
    /\ caller' = [caller EXCEPT ![t] = "idle"]
    /\ UNCHANGED <<queue_, needtoFlush_, running_, fileVars, closer, logged, urgent>>
-----------------------------------------------------------------------------
(* threadWorkFunc                                                          *)

\* Mutants: the predicate forgets flush(), or the end.
WantedUnlessFlushed == Len(queue_) >= Threshold \/ ~running_

WantedUnlessStopped == Len(queue_) >= Threshold \/ needtoFlush_

Wanted == Len(queue_) >= Threshold \/ ~running_ \/ needtoFlush_

\* Mutant: the writer ends as soon as it is told to.
EndAtOnce == ~running_

MayEnd == ~running_ /\ queue_ = <<>>

\* Awake with the mutex, and the predicate holds or the second is over.
Proceed ==
    IF MayEnd
    THEN writer' = "ended" /\ UNCHANGED <<queue_, needtoFlush_, temp>>
    ELSE /\ writer' = "write"
         /\ needtoFlush_' = FALSE
         /\ temp' = queue_ /\ queue_' = <<>>

TestPredicate ==
    /\ writer = "test"
    /\ IF Wanted THEN Proceed
       ELSE writer' = "asleep" /\ UNCHANGED <<queue_, needtoFlush_, temp>>
    /\ UNCHANGED <<running_, ofs_, onDisk, caller, closer, logged, urgent>>

Timeout ==
    /\ writer = "asleep"
    /\ Proceed
    /\ UNCHANGED <<running_, ofs_, onDisk, caller, closer, logged, urgent>>

SpuriousWakeup ==
    /\ writer = "asleep" /\ writer' = "test"
    /\ UNCHANGED <<queue_, needtoFlush_, running_, fileVars, caller, closer, logged, urgent>>

WriteLine ==
    /\ writer = "write" /\ temp # <<>>
    /\ ofs_' = Append(ofs_, Head(temp)) /\ temp' = Tail(temp)
    /\ UNCHANGED <<queue_, needtoFlush_, running_, onDisk, writer, caller, closer, logged, urgent>>

FlushStream ==
    /\ writer = "write" /\ temp = <<>>
    /\ onDisk' = Len(ofs_) /\ writer' = "test"
    /\ UNCHANGED <<queue_, needtoFlush_, running_, temp, ofs_, caller, closer, logged, urgent>>
-----------------------------------------------------------------------------
(* ~Logger, when no thread is in the middle of logging                     *)

Stop ==
    /\ closer = "idle" /\ \A t \in Threads : caller[t] = "idle"
    /\ running_' = FALSE /\ closer' = "notify"
    /\ UNCHANGED <<queue_, needtoFlush_, fileVars, writer, caller, logged, urgent>>

StopNotify ==
    /\ closer = "notify" /\ closer' = "join"
    /\ NotifyOne
    /\ UNCHANGED <<queue_, needtoFlush_, running_, fileVars, caller, logged, urgent>>

Join ==
    /\ closer = "join" /\ writer = "ended"
    /\ closer' = "closed" /\ onDisk' = Len(ofs_)
    /\ UNCHANGED <<queue_, needtoFlush_, running_, temp, ofs_, writer, caller, logged, urgent>>
-----------------------------------------------------------------------------
WriterStep == TestPredicate \/ WriteLine \/ FlushStream

Next == \/ WriterStep \/ Timeout \/ SpuriousWakeup
        \/ \E t \in Threads : QuietLine(t) \/ UrgentLine(t) \/ FlushSet(t) \/ FlushNotify(t)
        \/ Stop \/ StopNotify \/ Join

Spec == Init /\ [][Next]_vars

\* Threads are scheduled and calls end; nothing counts on the timeout.
FairSpec == /\ Spec /\ WF_vars(WriterStep) /\ WF_vars(StopNotify) /\ WF_vars(Join)
            /\ \A t \in Threads : WF_vars(FlushSet(t)) /\ WF_vars(FlushNotify(t))
-----------------------------------------------------------------------------
Lines == 1..MaxLines

TypeOK == /\ queue_ \in Seq(Lines) /\ temp \in Seq(Lines) /\ ofs_ \in Seq(Lines)
          /\ needtoFlush_ \in BOOLEAN /\ running_ \in BOOLEAN
          /\ onDisk \in 0..Len(ofs_)
          /\ writer \in {"test", "asleep", "write", "ended"}
          /\ caller \in [Threads -> {"idle", "flush", "notify"}]
          /\ closer \in {"idle", "notify", "join", "closed"}
          /\ logged \in 0..MaxLines /\ urgent \in 0..logged

\* The file, the lines being written and the queue hold every line once and in
\* order, and at the end the file holds them all.
LinesInOrder == /\ ofs_ \o temp \o queue_ = [i \in 1..logged |-> i]
                /\ closer = "closed" => onDisk = logged

\* The writer never sleeps over an urgent line, a full queue or the end, unless
\* somebody is about to wake it.
SleepsOnlyIdle ==
    writer = "asleep" =>
        /\ Len(queue_) < Threshold
        /\ needtoFlush_ => \E t \in Threads : caller[t] = "notify"
        /\ ~running_ => closer = "notify"

LoggerInv == TypeOK /\ LinesInOrder /\ SleepsOnlyIdle

\* After flush() what was logged before reaches the file without the writer's
\* timeout, also when flush() comes while the writer is writing.
UrgentIsWritten == onDisk < urgent ~> onDisk >= urgent

\* The destructor returns, without the timeout.
DestructorReturns == closer = "notify" ~> closer = "closed"
=============================================================================
