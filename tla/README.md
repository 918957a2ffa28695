# qinmo_net: TLA+ models and proofs

qinmo_net is a C++ reactor library in the style of muduo: an `EventLoop` per
thread around `epoll`, timers on a `timerfd`, functors handed between threads
through a queue and an `eventfd`, a pool of loop threads, a TCP server that
spreads its connections over the pool, and an asynchronous logger. The sources
are in `src/include/qinmo` and `src/src`.

This directory holds TLA+ modules translated from that code, the TLC
configurations that check them on small instances, and TLAPS proofs of the
theorems that hold for every instance. `PROJECT.json` maps each definition to
the lines it models, each property to a mutation of the model that breaks it,
and each hazard of the code to the properties that watch it.

    tlc -config MCEventLoop.cfg MCEventLoop.tla      # any MC module and its .cfg
    tlapm EventLoopProofs.tla                        # any *Proofs module

## 1. Inventory

| component | state it keeps | operations | talks to |
|---|---|---|---|
| `EventLoop` | `pendingFunctors_` (mutex), `pending_`, `quit_`, `looping_`, `timeoutMs_` (atomics), eventfd, `activeChannels_` | `loop`, `runInLoop`, `queueInLoop`, `quit`, `wakeup`, `setTimeoutMs`, timer calls | poller, channels, timers; any thread may call `queueInLoop`, `quit`, `setTimeoutMs` |
| `Channel`, `EpollPoller` | `events_`, `revents_`, `tie_`; `channels_` by descriptor | enable, disable, `handle`, `remove`; `poll`, `setChannel`, `removeChannel` | hold plain pointers to each other; call back into the owner of the channel |
| `Thread`, `EventLoopThread` | `started_`, `joined_`, `id_`, `loop_`, two mutexes with condition variables | `start`, the thread's function, destructor, `join` | publish a loop that lives on the thread's stack |
| `EventLoopThreadPool` | `threads_`, `loops_`, `started_`, `next_` | `start`, `getNextLoop`, `getAllLoops`, destructor | its `EventLoopThread`s |
| `TimerManager`, `Timer` | `timers_`, `timersOrder_`, `cancelTimer_`, `currTimer_`, the timerfd, the global sequence counter | `addEvent`, `cancelEvent`, `handleRead`, `resetTimerfd` | its loop's functor queue, the wall clock and the monotonic clock |
| `ReactorTcpServer` | `rConnects_`, the listening socket and its channel | `start`, `newConnect`, `removeConnect`, destructor | base loop, pool, connections |
| `ReactorTcpConnect` | `state_`, buffers, `timers_`, callbacks | `send`, `shutdown`, `close`, timers, the four event handlers, `connectEstablished`, `connectDestroyed` | its loop and channel; the server through `closeFunc_`; the application through callbacks that are handed a `shared_ptr` |
| `PacketBuffer` | a vector, `rIndex_`, `wIndex_`, `hsIndex_` | header get/set, `peek`, `retrieve`, `append`, `readFd`, `writeFd` | a descriptor |
| `Logger` | `queue_`, `needtoFlush_`, `running_` (mutex), the stream | `log`, `flush`, writer thread, destructor | every thread that logs |
| `SocketTCP`, `TcpConnect`, `TcpListen`, `SocketUDP` | a descriptor; the `state_` of `TcpListen` and of `SocketUDP` | create, `attach`, `connectRaw`, `accept`, moves, `close`, destructor, `bind`, `listen`, options | the kernel; `ReactorTcpServer` and `ReactorTcpConnect` own them |
| `InetAddr`, `Timestamp`, `StringView`, ... | values | | |

What is hard to get right, and hard to test:

- *Wakeups.* `queueInLoop` decides about the wakeup after it has released the
  mutex and skips it in the loop thread unless `pending_` is set; `quit()` is a
  store and then a write. A functor or a quit must never be left in front of an
  `epoll_wait` that nothing ends.
- *Start and stop.* `EventLoop::loop` clears `quit_` after the loop has been
  published; `start()` waits on a pointer the thread resets again.
- *Two clocks and re-entrancy.* Due times are on the wall clock, the timerfd
  counts on the monotonic one; `handleRead` holds iterators across a function
  that may add and cancel timers, itself included.
- *Lifetime.* Pollers and active lists hold plain pointers to channels inside
  objects owned by `shared_ptr`s; `close()` tests in one thread and acts in
  another; descriptors are reused as keys, of the registry and of the poller;
  the server's destructor leaves its connections to the order of its members.
- *Ownership of descriptors* across moves, failing calls and several `close()`s.
- *Partial writes* and what is still buffered when a message, a close, an error
  or a high-water mark arrives in between.
- *Shutdown of the logger* with lines still queued.

What each component has to guarantee is stated by the properties of section 4.

## 2. Modules

| module | models |
|---|---|
| `TaskQueue` | abstract: a FIFO queue of functors, each run at most once |
| `EventLoop` | the poll cycle, `runInLoop`/`queueInLoop`/`quit` from the loop thread and from others; refines `TaskQueue` |
| `EventLoopThread` | `Thread` and `EventLoopThread`, any number of callers and objects |
| `EventLoopThreadPool` | extends `EventLoopThread`: the pool starts, hands out and destroys its threads in order |
| `TimerManager` | the timers of one loop; calls of other threads travel through the queue `TaskQueue` specifies |
| `ConnectionLife` | abstract: the life of a connection and of its descriptor |
| `TcpServer` | server, connections, channels and pollers of a base loop and its sub-loops, to the destruction of the server; refines `ConnectionLife` |
| `Sockets` | the objects that own descriptors, and the kernel's side of each descriptor |
| `ByteQueue` | abstract: a FIFO queue of bytes behind a header that is written first |
| `PacketBuffer` | the buffer with its vector and indices; refines `ByteQueue` |
| `TcpConnection` | one connection in its loop: output, closing, timers; its buffer is the queue `ByteQueue` specifies |
| `Logger` | the logger and its writer thread |
| `MC...` | instances for TLC |
| `EventLoopProofs`, `EventLoopThreadProofs` (and the pool), `TimerManagerProofs`, `TcpServerProofs`, `SocketsProofs`, `PacketBufferProofs`, `TcpConnectionProofs`, `LoggerProofs` | proofs |

State and steps. Members keep their names (`pending_`, `rConnects_`, `hsIndex_`);
other variables are program counters of the threads, the kernel objects
(eventfd, timerfd, what epoll reported) and history variables, which at
most a bound reads. What happens under one mutex is one step; everything
else that another thread can observe in between is a step of its own: `quit()`
is `Quit` and `Wakeup`, `start()` of a thread has a step for each load, store,
wait and notification. Callbacks and functors of the application are program
locations at which it may call anything (`UserCode` in `EventLoop`, phases
`running` and `turn` in `TimerManager`, `held` in `TcpServer`).

How they fit. `EventLoop` is shown to be `TaskQueue`, and the modules above it
(`TimerManager`, `TcpServer`, `TcpConnection`) use a FIFO queue of functors
instead of the poll cycle; likewise `PacketBuffer` is shown to be `ByteQueue`,
and `TcpConnection` uses the queue of bytes. That a poll ends when a functor is
queued, which the liveness properties of `TcpServer` rest on, is
`EventLoop!PostedRuns`.

Undefined behaviour. Three modules have a flag for it, or for a step after which
anything may happen, and go no further once it is
set; their properties are claimed for executions without it. `TcpServer!raced`:
`rConnects_` has no lock, the base loop inserts (ReactorTcpServer.cpp:121) and
the connection's loop erases (147); `NoRaceInOneLoop` shows that this needs
sub-loops. `Sockets!hit`: a `SocketUDP` that was closed once has used or closed
a descriptor that is somebody else's by then. `PacketBuffer!garbled`: `ensureWrite`
(PacketBuffer.cpp:309) moves the body with `memcpy`, also when source and
destination overlap.

## 3. Bounds

Every bound is a CONSTANT or a guard on a named one. The loop: two other
threads, two functors, an eventfd counter that saturates at one, one finite and
one infinite timeout. Two functors and two threads are enough for a push
between swap and poll, for a functor queued by a functor, and for overtaking;
beyond them the proofs take over, for any sets. Loop threads: one
caller, a pool of two objects, the second of which runs code that may quit its
loop, and a third object beside the pool, with an unsigned counter of three values, so that its
wrap-around falls inside a round. Timers: two timers, due at 0 or 2, one-shot or
with an interval of 1, two calls of another thread in the queue, and a wall clock
that may be set back to 0. Server: two connections over two descriptors, so
that one is reused, a server with no and with one sub-loop; the application queues a
functor only in a loop's empty queue (`MaxQueue = 1` bounds the whole queue, behind
which the library's own functors line up), for liveness, with one connection, also
behind one other functor; the proofs hold for any `MaxQueue`. Sockets: two variables of each class over two
descriptors, so that a descriptor is reused and each object can move into
another, and one call that sets an option (the options touch nothing else).
Buffer: a header of two bytes, up to two
bytes of body, values of one and two bytes, so that the header is written in
parts, the body is compacted, and the vector grows. Connection: three bytes in
messages of up to two, a mark of two, one timer. Logger: four lines, two
threads, a threshold of two.

## 4. What is checked

| run | shows |
|---|---|
| `eventloop` | `NoLostWakeup`, `CallbackQueuesForThisTurn`: why a poll never blocks in front of work. `ImplementsTaskQueue`: FIFO, at most once. `PostedRuns` with infinite timeouts, `QueuedRuns` with finite ones (a functor queued before `loop()` or by the destructor of a functor has no wakeup), `QuitStopsLoop`. `LoopInv` is the inductive invariant of the proofs. |
| `threads` | `ThreadInv`: the inductive invariant of the proofs, with what it says of a published loop; `DestroyedMeansThreadEnded`; `StartReturnsLiveLoop`; `PoolInv`: from the end of its `start()` to its destructor a pool has only live loops; `Balanced`: the loops take turns, but for one call at each wrap-around of `next_`; `StartReturns`, `DestructorReturns`, `PoolIsDestroyed`, the latter two unless a `quit()` was lost (section 7) |
| `elt_start_hangs` | finding 1 |
| `timers` | `TimerInv`: tables and numbers agree, and the running timer exists; `TimerArmed`: a pending timer never waits behind a disarmed timerfd, also when the wall clock has been set back; `Punctual`: the timerfd expires no later than the first timer is due, unless the wall clock has been set forward; `RunsAccountedFor`: no period is skipped, repeated or drifts; `CancelledNeverRuns`; `DueTimerRuns`, provided the wall clock is set finitely often. Adds and cancels of another thread overtake those of the loop |
| `server_safety` | `ServerInv`: exactly one functor destroys a closed connection, and a server without sub-loops has no race; `ChannelsAlive`: no channel is destroyed while a poller or an active list has it, also by the destructor of the server, and the poller's table by descriptor is what epoll has; `RegistryKeepsOwn` under descriptor reuse; `MessagesFromOpenChannel`; `NothingLeftBehind`: a destroyed server leaves no connection alive but those the application holds; `ImplementsConnectionLife` |
| `server_live` | every accepted connection is established, every closed one leaves poller and registry |
| `sockets` | `SocketsInv`: whatever is created, moved, closed and reused, each descriptor has one owner, and the socket of a `TcpListen` is in the state its object says it is; `NothingElseLost`: only `operator=` loses a descriptor |
| `sockets_reuse` | finding 3 |
| `packet_buffer` | `BufferInv`: indices in order, the vector bounded by what the body needs; `ImplementsByteQueue` |
| `connection` | `StreamInOrder` over direct, partial and buffered writes; `ConnectionInv`: nothing is stranded in the buffer of an open connection; `TimersEndWithConnection`; `CompletionReported` |
| `connection_shutdown` | finding 2 |
| `logger` | `LoggerInv`: no line is lost, doubled or overtaken, also not by the destructor, and the writer sleeps only when nobody needs it; `UrgentIsWritten` and `DestructorReturns` without the one-second timeout |

Deadlock is checked in `eventloop`, where the loop thread can always go on; in
the other models the system may stop: everything is destroyed, nothing is due,
nobody calls. The runs that expect a violation stop at the first one.

Fairness. Weak fairness of a thread that is inside a call of the library or is
a loop thread: the operating system schedules it, and callbacks return. Nothing
obliges the application to call anything, a channel to become ready, or a
condition variable to wake up by itself; the logger's timeout is not counted on.
A poll with a finite timeout expires. Time passes in `timers`. In
`TcpConnection` the peer goes on reading, so that epoll reports the channel
writable again and again and the kernel then takes something (strong fairness:
whether the channel asks for write events alternates with what `send` and
`handleWrite` do); without it nothing can promise that bytes leave.

## 5. What is proved

TLAPS proves every invariant and every refinement that the runs of section 4 check,
for any values of the constants that satisfy the assumptions of the modules.
These say that the bounds are numbers, that the names for "nothing" are not values,
that the base loop is no sub-loop and that the classes of sockets are disjoint, and:
`EventLoop`: the eventfd counter has room for one, some timeout is finite; `Logger`:
the threshold is positive; `EventLoopThreadPool`: there is at least one thread;
`PacketBuffer`: the size of the header fits in the byte that holds it, what is
stored has a bounded length, and may be empty. Nothing is assumed of the number
of threads, loops, connections, descriptors, functors, timers, bytes or objects.
Two theorems have a hypothesis beyond that, named below: one caller
(`DestructorJoins`, `StartedLoopsLive`) and a wall clock that nobody sets forward
(`PunctualUnlessSetForward`). The flags of section 2 (`raced`, `hit`, `garbled`)
are part of what the theorems say, as they are of the properties.

`EventLoopProofs`. `LoopInv` is inductive: besides the types, that the batch is
non-empty only while `pending_` is set (`BatchInv`), that a functor nobody has
handed over is not queued (`PostedInv`), and, the heart of it, `QueuedInv`: outside
the part of a turn that is followed by the swap, everything queued by another
thread or by a functor of the batch has its wakeup on the way, and nothing queued
by a callback is left. `NoLostWakeup` and `CallbackQueuesForThisTurn` speak of
the moment of the poll only and are not inductive; they follow, and so does
`QuitWakes`, its like for `quit()`. The refinement
of `TaskQueue` maps each step to one step of the queue or to none, with the batch
in front of `pendingFunctors_`.

`EventLoopThreadProofs`. `ThreadInv` says what the position of a thread tells of
`id_`, `loop_` and the lifetime of the loop; `PublishedLoopAlive`, that `quit()`
never reaches a loop that is gone, follows. That the
destructor returns only after the thread has ended, and never reaches
`std::terminate`, needs where the caller stands inside `start()` and `join()` as well
(`DestroyInv`), and that no other caller is inside a call. That what `start()`
returned is a live loop needs an account of every object, not only of the one
that is being started (`LiveInv`): as long as nobody has asked its loop to
quit, a started object has published it or the caller is still waiting for it,
and no thread is past `loop()`.

The pool is proved on top of these two: it has one caller, its owner, and
`PoolLive` says which threads the owner has already started, which loops it has
stored and what it can be doing meanwhile. `PoolInv` follows, and
`StartReturnsLiveLoop` and `DestroyedMeansThreadEnded` for the threads of a pool. `Balanced`
is arithmetic: after `turns` calls element `e` has been given out
`TurnsOf(UIntSize, e)` times for each wrap-around of `next_` and
`TurnsOf(next_, e)` times since, where `TurnsOf(m, e)` counts the numbers below `m`
that are `e - 1` modulo the number of threads (`Turns`, inductive). Between two
elements that is a difference of at most one for each wrap-around and one more. `turns` is a history variable.

`TimerManagerProofs`. Four facts hold only together (`TimerInv`): types, each
number is one timer's, `timersOrder_` has exactly one entry for each timer, the
running timer exists. A number is fresh when its timer is inserted, so the set
keeps one entry each, so the timer `handleRead` takes is one that is owned, so its
number is one that was handed out. On it rest `CancelIsFinal`, `NoDrift` and
`PendingTimerArmed`, the latter with the fact that a timerfd which is ready is still
to be handled in this turn. `Punctual` is false when the wall clock is set forward
past a due time, since the timerfd counts on the monotonic clock. The theorem has
exactly that as its hypothesis: a step that advances the clock is a tick, which the
timerfd sees as well. It may be set back at any time.

`TcpServerProofs`. `ServerIInv` adds to `OneFunctorEach` and `RegistryKeepsOwn`,
neither of which is inductive by itself, what each phase of a loop and of the
destructor leaves no room for (`LoopsInv`), that a functor is in the loop of its
connection (`FunctorsInv`), what the state of a connection says of its channel and
of who knows it (`ConnInv`), and that a table by descriptor only holds connections
that have that descriptor and still use it (`TablesInv`). The functors that wait
are those left of the batch and then those in the queue; taking one and
queueing one are the lemmas all else rests on (`WaitingRan`, `WaitingQueued`).
`ChannelsAlive` and `MessagesFromOpenChannel` follow from it, as does
`NothingLeftBehind`: once the loops have stopped nothing but the application is left to hold a
connection. The refinement of `ConnectionLife` needs that no step revives a connection
(`NoneRevived`): whoever has a pointer after a step got it from one that was there before.

`SocketsProofs`. As long as no second `close()` of a `SocketUDP` has hit a descriptor of
somebody else: one owner for each descriptor, `state_` of a `TcpListen` is that of its
socket, and what the application holds or has lost is open and disjoint from it.

`PacketBufferProofs`. The order of the indices and the bound on the vector are
inductive with the bound on the body that the guards give. The refinement of
`ByteQueue` has one lemma per operation on a small calculus of slices:
storing appends to the body, whether or not the vector grew or the body was moved to the
front; advancing drops its first bytes; writing a part of the header leaves the rest.

`TcpConnectionProofs`. `StreamInOrder` and `NothingStranded` together with
`LifeInv`, which says what is in the queue of the loop before the connection is
established and after it is destroyed, and that the timers still armed are among those the
connection remembers. The bytes a write takes and leaves are one cut of the buffer.

`LoggerProofs`. `LoggerInv` is inductive together with `Positions`: lines are swapped
out only while they are written, the writer has ended only when the queue is empty
for good, and nobody logs once the destructor has begun.

Every inductive invariant was checked by TLC on the instance of its run before it
was proved. Only model-checked: all liveness (fairness and ENABLED are beyond the
prover), that is `PostedRuns`, `QueuedRuns`, `QuitStopsLoop`, `StartReturns`,
`DestructorReturns`, `PoolIsDestroyed`, `DueTimerRuns`, `AcceptedIsEstablished`,
`ClosedIsDestroyed`, `CompletionReported` and `UrgentIsWritten`. No module that is proved
about declares a RECURSIVE operator, and none of the theorems is an induction over data.

## 6. What is not modelled

Failing system calls that the code only logs (`timerfd_settime`, `eventfd`),
failures of `epoll_ctl` other than on a descriptor epoll does not have, failing
allocations and the capacity of vectors; the growth of the poller's event
buffer, whose first size of 16 no instance fills; addresses beyond the validity
of their family, formatting and thread names; the text of log lines. The options `TCP_NODELAY` and `SO_KEEPALIVE`
go to the kernel and come back nowhere. `sendto` and `recvfrom` of `SocketUDP`, and its
`send` and `recv`, which always fail (section 7), move data and keep no state. The
timers a connection still has are cancelled by `~ReactorTcpConnect` in its loop:
`TcpConnection` has that for a loop that lives; `TcpServer`, in which the application
may hold a connection longer than its loop lives, leaves it out and claims nothing
about a cancel that is sent to a loop already destroyed. Two threads in one socket object, and
`send()` from a thread other than the connection's, which is a data race on
`outputBuffer_`, are not modelled, nor is SIGPIPE, which no part of the library
ignores. The server is destroyed as the example programs do it, outside of its base
loop's `loop()` and before that loop; a base loop that went on polling would still
have the channels of its open connections.

## 7. What the models say about the code

Disagreements with what the repository says, each shown by a run:

1. `EventLoopThread::start` "blocks until EventLoop has created"
   (EventLoopThread.h:33): a loop that is quit by its first functor resets `loop_`
   before the caller tests it, and `start()` waits for ever (`elt_start_hangs`).
2. `shutdown()` does "nothing when in write event" (ReactorTcpConnect.h:76); its
   guard (ReactorTcpConnect.cpp:235) is true in every state, so that it never does
   anything (`connection_shutdown`).
3. `setReusePort` is to "set whether to enable port reuse" (SocketTCP.h:79), but
   sets SO_REUSEADDR (SocketTCP.cpp:154): the constructor of the server, called with its
   defaults, switches address reuse on and off again (`sockets_reuse`).

Disagreements without a run of their own:

- `isBind()` of a `SocketUDP` is to "return true if has been bind local address" and
  `isConnect()` to "return true if has been connect peer address" (SocketUDP.h:50, 52), but
  `bind()` and `connect()` (SocketUDP.cpp:118-132) return the result of the system
  call and never set the flags, nor does anything else. Both are false of a socket
  that has been bound or connected; `recv()` and `send()`, which test them, always fail.
  `UdpBind` and `UdpConnect` accordingly change the socket and leave `state_` alone, and no
  invariant says that this is as it should be: `TypeOK` gives `state_` its range only.
- `started()` of the pool is true before the first loop exists
  (EventLoopThreadPool.h:25, EventLoopThreadPool.cpp:37).
- `removeConnect` "unregisters immediately" (ReactorTcpServer.h:40), but only queues
  the functor that does (ReactorTcpServer.cpp:144).
- An error line is said to "flush the buffer immediately" (Logger.h:221), but
  `flush()` only wakes the writer and returns.

Behaviour met while modelling that no sentence of the repository contradicts,
and that the properties are therefore stated around:

- a destructor of `EventLoopThread` whose `quit()` falls between the publication of
  the loop and `loop()` clearing `quit_` joins a loop nobody will stop
  (`dtorQuit = "lost"`);
- `SocketUDP::close()` tests its system call the wrong way round
  (SocketUDP.cpp:158): it keeps the number of a descriptor it has closed, and
  closes it again later (`stale` and `hit` in `Sockets`);
- `operator=` of the sockets does not close what it overwrites (`lost`);
- `addEvent` of another thread reads `tPtr` after it has handed the timer to the
  loop, which may have run and destroyed it: the `TimerID` may be any number
  (`RemoteAddReturns`);
- a cancel in the loop thread that overtakes a queued add is silently ignored;
- `send()` keeps the kernel's result as a `size_t`: on an error `substr` throws
  `out_of_range` through the caller (`SendThrows`);
- `send(PacketBuffer&)` never tests the high-water mark, and the header of a buffer is
  written once only, since `hsIndex_` is never reset;
- an error event is handled before the read event of the same turn, so that the
  message callback may follow the disconnect callback (`MessagesFromOpenChannel` is
  stated for handlings that began while the connection was up); a write-complete
  callback may follow it as well.

## 8. Plan

Done in this order, the most important behaviour first: `EventLoop` with its
proofs, `EventLoopThread` with its proofs and the pool, `TimerManager` with its
proofs, `TcpServer`, `PacketBuffer`, `TcpConnection`, `Logger` with its proof, the
destructor of the server and the poller's table, `Sockets`; then the proofs of
`Sockets`, `TcpServer` with its refinement, `TcpConnection`, `PacketBuffer` with its
refinement, `Punctual` and the pool.

Every safety property that a run checks is proved. Next, the theorems the liveness
properties rest on, which no run states:

1. `EventLoopThread`: a `quit()` of the destructor is lost only between the publication
   and the reset, and the thread of an object never goes back;
2. `EventLoop`: `quit()` ends the poll that `QuitWakes` speaks of in the same turn;
3. `TcpServer`: the state of a connection only goes forward, and it leaves the
   registry once;
4. `Logger`: a refinement of the FIFO queue of lines, with the file as its output.
