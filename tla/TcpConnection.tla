--------------------------- MODULE TcpConnection ---------------------------
(***************************************************************************)
(* One ReactorTcpConnect in the thread of its loop: what it sends, how it  *)
(* is closed, and its timers.  outputBuffer_ is the body of a PacketBuffer *)
(* without header, the FIFO queue of ByteQueue.  The bytes the application *)
(* sends are numbered 1, 2, ...; wire holds those the kernel has accepted. *)
(*                                                                         *)
(* The loop handles the events of the channel one after the other and runs *)
(* the functors in order (TaskQueue); the application calls the connection *)
(* from callbacks and functors, between any two of these steps.  send()    *)
(* touches outputBuffer_ without a lock and is called by this thread only. *)
(***************************************************************************)
EXTENDS Naturals, Sequences, Functions

CONSTANTS Ids,          \* timers of the connection
          waterMark_,
          MaxMessage,   \* longest message
          MaxBytes,     \* bound: bytes sent in all
          MaxQueue      \* bound: the application queues only behind fewer functors

ASSUME ConnectionAssumption == /\ waterMark_ \in Nat /\ MaxMessage \in Nat
                               /\ MaxBytes \in Nat /\ MaxQueue \in Nat

VARIABLES
    state_, outputBuffer_, timers_,
    writeCompleteFunc_, highWaterMarkFunc_,  \* whether they are set
    events,      \* what the channel asks for
    todo,        \* events of this turn still to be handled
    queue,       \* functors in the loop
    held,        \* the application has a pointer
    inServer,    \* the server and its poller have the connection
    destructed,
    wire, finished, \* accepted by the kernel; the write side has been shut down
    sent,        \* history: bytes send() has taken
    completed,   \* history: of those, on the wire when writeCompleteFunc_ last ran
    asked,       \* history: shutdown() was called on the open connection
    armed        \* timers of the connection the loop has: id -> does it repeat?

ioVars == <<outputBuffer_, events, wire, sent>>
stateVars == <<state_, finished>>
funcVars == <<writeCompleteFunc_, highWaterMarkFunc_>>
lifeVars == <<inServer, destructed>>
timerVars == <<timers_, armed>>
histVars == <<completed, asked>>
vars == <<stateVars, ioVars, funcVars, todo, queue, held, lifeVars, timerVars, histVars>>

Events == {"close", "error", "read", "write"}
Functor(op) == [op |-> op, ids |-> {}]

Init == /\ state_ = "Connecting" /\ outputBuffer_ = <<>> /\ timers_ = {}
        /\ writeCompleteFunc_ \in BOOLEAN /\ highWaterMarkFunc_ \in BOOLEAN
        /\ events = {} /\ todo = {} /\ queue = <<Functor("establish")>>
        /\ held = FALSE /\ inServer = TRUE /\ destructed = FALSE
        /\ wire = <<>> /\ finished = FALSE
        /\ sent = 0 /\ completed = 0 /\ asked = FALSE
        /\ armed = <<>>

QueueInLoop(op) == queue' = Append(queue, Functor(op))

\* A callback is handed a pointer and may keep it.
Callback == held' \in {held, TRUE}
-----------------------------------------------------------------------------
(* Sending                                                                 *)

CanSend(n) == /\ held /\ state_ = "Connected" /\ sent + n <= MaxBytes
              /\ Len(queue) < MaxQueue

\* Nothing in the buffer: write directly.
Direct == "write" \notin events /\ outputBuffer_ = <<>>

Message(n) == [i \in 1..n |-> sent + i]

\* Mutant: what has been written directly is kept as well.
WholeMessage(n, k) == Message(n)

\* str.substr(currIndex)
RestOfMessage(n, k) == SubSeq(Message(n), k + 1, n)

\* Mutant: the channel is not asked for write events.
KeepEvents == UNCHANGED events

EnableWrite == events' = events \cup {"write"}

\* highWaterMarkFunc_ is queued when the buffer passes the mark.
HighWaterMark(newSize) ==
    IF highWaterMarkFunc_ /\ waterMark_ > Len(outputBuffer_) /\ waterMark_ <= newSize
    THEN QueueInLoop("highwater") ELSE UNCHANGED queue

\* The kernel has taken the first k bytes of the message.
SendRest(n, k) ==
    /\ wire' = wire \o SubSeq(Message(n), 1, k)
    /\ outputBuffer_' = outputBuffer_ \o RestOfMessage(n, k)
    /\ sent' = sent + n
    /\ EnableWrite
    /\ HighWaterMark(Len(outputBuffer_) + n - k)

\* All of it was written and writeCompleteFunc_ is queued.
SendAll(n) ==
    /\ wire' = wire \o Message(n) /\ sent' = sent + n
    /\ QueueInLoop("complete")
    /\ UNCHANGED <<outputBuffer_, events>>

\* detail::send fails: as a size_t its result exceeds the length of the message,
\* newSize is one more than that length, and substr throws.
SendThrows(n) == HighWaterMark(n + 1) /\ UNCHANGED ioVars

\* An empty message gives 0, and errno is that of an earlier call: EPIPE and
\* ECONNRESET end send() here.
SendNothing == UNCHANGED <<ioVars, queue>>

Send(n) ==
    /\ CanSend(n)
    /\ \/ Direct /\ n > 0 /\ writeCompleteFunc_ /\ SendAll(n)
       \/ Direct /\ \E k \in 1..n : (k < n \/ ~writeCompleteFunc_) /\ SendRest(n, k)
       \/ Direct /\ n > 0 /\ SendThrows(n)
       \/ Direct /\ n = 0 /\ SendNothing
       \/ (Direct => n = 0) /\ SendRest(n, 0)
    /\ UNCHANGED <<stateVars, funcVars, todo, held, lifeVars, timerVars, histVars>>

\* send(PacketBuffer&): always through the buffer, without the high-water mark.
SendPacket(n) ==
    /\ CanSend(n)
    /\ outputBuffer_' = outputBuffer_ \o Message(n) /\ sent' = sent + n
    /\ EnableWrite
    /\ UNCHANGED <<stateVars, wire, funcVars, todo, queue, held, lifeVars, timerVars, histVars>>
-----------------------------------------------------------------------------
(* Closing                                                                 *)

\* The guard of shutdown(): `Connected != state_ || Connecting != state_'
ShutdownReturns == state_ # "Connected" \/ state_ # "Connecting"

\* runInLoop runs at once what shuts the write side, unless something is left.
DoShutdown(ev) == IF ShutdownReturns THEN UNCHANGED stateVars
                  ELSE state_' = "Disconnecting" /\ finished' = (finished \/ "write" \notin ev)

Shutdown ==
    /\ held
    /\ DoShutdown(events)
    /\ asked' = (asked \/ state_ = "Connected")
    /\ UNCHANGED <<ioVars, funcVars, todo, queue, held, lifeVars, timerVars, completed>>

Close ==
    /\ held /\ state_ \notin {"Connecting", "Disconnected"} /\ Len(queue) < MaxQueue
    /\ QueueInLoop("close")
    /\ UNCHANGED <<stateVars, ioVars, funcVars, todo, held, lifeVars, timerVars, histVars>>

\* handleClose: disconnectFunc_ and closeFunc_ (ReactorTcpServer::removeConnect)
HandleClose ==
    /\ IF state_ = "Disconnected" THEN UNCHANGED <<state_, events, queue, held>>
       ELSE /\ state_' = "Disconnected" /\ events' = {}
            /\ QueueInLoop("destroy") /\ Callback
    /\ UNCHANGED finished
-----------------------------------------------------------------------------
(* Events                                                                  *)

HandleBegin(S) ==
    /\ todo = {} /\ inServer /\ state_ # "Connecting"
    /\ S # {} /\ S \cap {"read", "write"} \subseteq events
    /\ todo' = S
    /\ UNCHANGED <<stateVars, ioVars, funcVars, queue, held, lifeVars, timerVars, histVars>>

HandleCloseOrError ==
    /\ todo \cap {"close", "error"} # {}
    /\ HandleClose
    /\ todo' = todo \ (IF "close" \in todo THEN {"close"} ELSE {"error"})
    /\ UNCHANGED <<outputBuffer_, wire, sent, funcVars, lifeVars, timerVars, histVars>>

\* Nothing there, data for messageFunc_; end of file or an error.
HandleRead ==
    /\ "read" \in todo /\ todo \cap {"close", "error"} = {}
    /\ \/ Callback /\ UNCHANGED <<stateVars, events, queue>>
       \/ HandleClose
    /\ todo' = todo \ {"read"}
    /\ UNCHANGED <<outputBuffer_, wire, sent, funcVars, lifeVars, timerVars, histVars>>

\* Mutant: an emptied buffer is not reported.
TellNobody == UNCHANGED queue

TellComplete == IF writeCompleteFunc_ THEN QueueInLoop("complete") ELSE UNCHANGED queue

Written(b) == /\ wire' = wire \o SubSeq(outputBuffer_, 1, b)
              /\ outputBuffer_' = SubSeq(outputBuffer_, b + 1, Len(outputBuffer_))
              /\ UNCHANGED sent

\* handleRead or a functor has disabled the channel meanwhile; all that was left
\* is written; the kernel takes no more for now; an error, or EINTR before the
\* last write succeeded.
HandleWrite(b) ==
    /\ todo = {"write"} /\ todo' = {}
    /\ \/ /\ "write" \notin events /\ b = 0
          /\ UNCHANGED <<stateVars, ioVars, queue, held>>
       \/ /\ "write" \in events /\ b = Len(outputBuffer_) /\ Written(b)
          /\ events' = events \ {"write"}
          /\ TellComplete
          /\ IF state_ = "Disconnecting" THEN DoShutdown(events') ELSE UNCHANGED stateVars
          /\ UNCHANGED held
       \/ /\ "write" \in events /\ b < Len(outputBuffer_) /\ Written(b)
          /\ UNCHANGED <<stateVars, events, queue, held>>
       \/ /\ "write" \in events /\ outputBuffer_ # <<>> /\ b <= Len(outputBuffer_) /\ Written(b)
          /\ HandleClose
    /\ UNCHANGED <<funcVars, lifeVars, timerVars, histVars>>
-----------------------------------------------------------------------------
(* Functors and the end                                                    *)

IsNext(op) == todo = {} /\ queue # <<>> /\ Head(queue).op = op

Establish ==
    /\ IsNext("establish") /\ queue' = Tail(queue)
    /\ state_' = "Connected" /\ events' = events \cup {"read"}
    /\ Callback
    /\ UNCHANGED <<finished, outputBuffer_, wire, sent, funcVars, todo, lifeVars, timerVars, histVars>>

\* handleClose in a functor: what it queues comes last.
RunClose ==
    /\ IsNext("close")
    /\ IF state_ = "Disconnected"
       THEN queue' = Tail(queue) /\ UNCHANGED <<state_, events, held>>
       ELSE /\ queue' = Append(Tail(queue), Functor("destroy"))
            /\ state_' = "Disconnected" /\ events' = {} /\ Callback
    /\ UNCHANGED <<finished, outputBuffer_, wire, sent, funcVars, todo, lifeVars, timerVars, histVars>>

\* writeCompleteFunc_, highWaterMarkFunc_
RunCallback ==
    /\ \/ IsNext("complete") /\ completed' = Len(wire)
       \/ IsNext("highwater") /\ UNCHANGED completed
    /\ queue' = Tail(queue) /\ Callback
    /\ UNCHANGED <<stateVars, ioVars, funcVars, todo, lifeVars, timerVars, asked>>

\* The functor of removeConnect, with connectDestroyed
RunDestroy ==
    /\ IsNext("destroy") /\ queue' = Tail(queue)
    /\ inServer' = FALSE
    /\ UNCHANGED <<stateVars, ioVars, funcVars, todo, held, destructed, timerVars, histVars>>

RunFunctor == Establish \/ RunClose \/ RunCallback \/ RunDestroy

Without(S) == [id \in DOMAIN armed \ S |-> armed[id]]

\* The loop's side of timerCancel, for a destructor that ran elsewhere.
RunCancel ==
    /\ IsNext("cancel") /\ queue' = Tail(queue)
    /\ armed' = Without(Head(queue).ids)
    /\ UNCHANGED <<stateVars, ioVars, funcVars, todo, held, lifeVars, timers_, histVars>>

Release ==
    /\ held /\ held' = FALSE
    /\ UNCHANGED <<stateVars, ioVars, funcVars, todo, queue, lifeVars, timerVars, histVars>>

\* Mutant: the destructor leaves the timers to the loop.
CancelNone == UNCHANGED <<armed, queue>>

\* timerCancel of each timer, in the loop's thread or in another.
CancelAll == \/ armed' = Without(timers_) /\ UNCHANGED queue
             \/ queue' = Append(queue, [op |-> "cancel", ids |-> timers_]) /\ UNCHANGED armed

\* Nobody has a pointer any more.
Destruct ==
    /\ ~destructed /\ ~held /\ ~inServer /\ queue = <<>> /\ todo = {}
    /\ destructed' = TRUE
    /\ CancelAll
    /\ UNCHANGED <<stateVars, ioVars, funcVars, todo, held, inServer, timers_, histVars>>
-----------------------------------------------------------------------------
(* Timers                                                                  *)

\* Mutant: timerRepeatAt does not enter the timer into timers_.
Forget(id) == UNCHANGED timers_

Remember(id) == timers_' = timers_ \cup {id}

TimerRepeatAt(id, repeats) ==
    /\ held /\ id \notin timers_ \cup DOMAIN armed
    /\ armed' = [i \in DOMAIN armed \cup {id} |-> IF i = id THEN repeats ELSE armed[i]]
    /\ Remember(id)
    /\ UNCHANGED <<stateVars, ioVars, funcVars, todo, queue, held, lifeVars, histVars>>

TimerCancel(id) ==
    /\ held
    /\ timers_' = timers_ \ {id} /\ armed' = Without({id})
    /\ UNCHANGED <<stateVars, ioVars, funcVars, todo, queue, held, lifeVars, histVars>>

\* The function runs if the connection is still there.
TimerRuns(id) ==
    /\ todo = {} /\ id \in DOMAIN armed
    /\ armed' = IF armed[id] THEN armed ELSE Without({id})
    /\ IF destructed THEN UNCHANGED held ELSE Callback
    /\ UNCHANGED <<stateVars, ioVars, funcVars, todo, queue, lifeVars, timers_, histVars>>
-----------------------------------------------------------------------------
Next == \/ \E S \in SUBSET Events : HandleBegin(S)
        \/ HandleCloseOrError \/ HandleRead \/ \E b \in 0..MaxBytes : HandleWrite(b)
        \/ RunFunctor \/ RunCancel \/ Release \/ Destruct
        \/ \E n \in 0..MaxMessage : Send(n) \/ SendPacket(n)
        \/ Shutdown \/ Close
        \/ \E id \in Ids : \/ TimerCancel(id) \/ TimerRuns(id)
                           \/ \E repeats \in BOOLEAN : TimerRepeatAt(id, repeats)

Spec == Init /\ [][Next]_vars

Progress == \E b \in 0..MaxBytes : HandleWrite(b) /\ (wire' # wire \/ events' # events)

\* Every turn of the loop handles what epoll reports and runs the functors.  The
\* peer goes on reading: epoll reports the channel writable again and again, and
\* then the kernel takes something.
FairSpec == /\ Spec
            /\ WF_vars(HandleCloseOrError) /\ WF_vars(HandleRead)
            /\ WF_vars(\E b \in 0..MaxBytes : HandleWrite(b))
            /\ SF_vars(RunFunctor)
            /\ SF_vars(\E S \in SUBSET Events : "write" \in S /\ HandleBegin(S))
            /\ SF_vars(Progress)
-----------------------------------------------------------------------------
TypeOK ==
    /\ state_ \in {"Connecting", "Connected", "Disconnecting", "Disconnected"}
    /\ outputBuffer_ \in Seq(1..MaxBytes) /\ wire \in Seq(1..MaxBytes)
    /\ timers_ \subseteq Ids /\ DOMAIN armed \subseteq Ids /\ Range(armed) \subseteq BOOLEAN
    /\ writeCompleteFunc_ \in BOOLEAN /\ highWaterMarkFunc_ \in BOOLEAN
    /\ events \subseteq {"read", "write"} /\ todo \subseteq Events
    /\ queue \in Seq([op : {"establish", "close", "complete", "highwater", "destroy", "cancel"},
                      ids : SUBSET Ids])
    /\ held \in BOOLEAN /\ inServer \in BOOLEAN /\ destructed \in BOOLEAN
    /\ finished \in BOOLEAN /\ asked \in BOOLEAN
    /\ sent \in 0..MaxBytes /\ completed \in 0..MaxBytes

\* Bytes never wait in the buffer of an open connection without its channel
\* asking for write events, whatever send() and handleWrite did in what order;
\* a closed one asks for nothing.
NothingStranded == /\ state_ = "Connected" /\ outputBuffer_ # <<>> => "write" \in events
                   /\ state_ # "Connected" => events = {}

ConnectionInv == TypeOK /\ NothingStranded

\* What the kernel has got and what is buffered is what was sent: direct writes,
\* partial writes and buffered messages neither lose, repeat nor reorder bytes.
StreamInOrder == wire \o outputBuffer_ = [i \in 1..sent |-> i]

\* A connection takes its timers with it: once it is destructed, in whatever
\* thread, and the functors of its destructor have run, the loop has none left.
TimersEndWithConnection == destructed /\ queue = <<>> => DOMAIN armed = {}

\* Unless the connection is closed, writeCompleteFunc_ is called with all that was
\* sent on the wire, whether it went there directly, through the buffer or both.
CompletionReported ==
    (writeCompleteFunc_ /\ completed < sent) ~> (completed = sent \/ state_ = "Disconnected")

\* ReactorTcpConnect.h says of shutdown() "do nothing when in write event": when
\* nothing is left to be written, it does shut down the write side.
ShutdownFinishes == asked /\ "write" \notin events => finished \/ state_ # "Connected"
=============================================================================
