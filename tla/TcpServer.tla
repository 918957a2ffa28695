----------------------------- MODULE TcpServer -----------------------------
(***************************************************************************)
(* ReactorTcpServer with its connections: start() makes the base loop      *)
(* listen; a connection is accepted in the base loop, entered into         *)
(* rConnects_, established in the loop it was given, handled there event   *)
(* by event (Channel::handle), closed, and destroyed by a functor of its   *)
(* loop.  A ReactorTcpConnect lives as long as a shared_ptr to it: in      *)
(* rConnects_, in a functor queued or not yet released, in                 *)
(* Channel::handle, in the application.  When the last one goes its        *)
(* descriptor is closed and may be accepted again.                         *)
(*                                                                         *)
(* A turn of a loop is poll, handle, functors; its functor queue is the    *)
(* FIFO queue EventLoop refines (TaskQueue), taken as a batch.             *)
(*                                                                         *)
(* The server is destroyed as in the programs of the repository: in the    *)
(* thread of the base loop, outside of its loop(), and before that loop.   *)
(* Its sub-loops go on until the pool, a member, has joined them, and the  *)
(* registry, declared before the pool, goes after it.                      *)
(*                                                                         *)
(* rConnects_ has no lock: the base loop inserts, the loop of a connection *)
(* erases.  If two threads are in it at once the behaviour is undefined:   *)
(* `raced' is set and the model goes no further.                           *)
(***************************************************************************)
EXTENDS Naturals, Sequences, Functions

CONSTANTS Base, SubLoops,  \* loop_ of the server, loops of its thread pool
          Conns, Fds,      \* connections ever accepted, descriptors
          NoConn,          \* null pointer
          MaxQueue         \* bound: the application queues only behind fewer functors

ASSUME ServerAssumption == Base \notin SubLoops /\ NoConn \notin Conns /\ MaxQueue \in Nat

Loops == {Base} \cup SubLoops

VARIABLES
    connLoops,    \* what getNextLoop returns: the sub-loops, or the base loop if there are none
    server,       \* "up", "joining" inside its destructor, "gone"
    listening,    \* sock_ listens and acceptChannel_ is enabled
    rConnects_,
    accepting,    \* the connection newConnect is about
    conn,         \* the members of each connection and of its channel
    channels_,    \* of the poller of each loop, by descriptor
    queue, batch, \* functors queued, functors of the batch being run,
    at,           \* and the one that is next
    phase,
    active,       \* channels poll reported that are still to be handled
    current,      \* the channel being handled and the events left of it
    inRegistry,   \* loops whose thread is inside rConnects_
    raced,
    held,         \* connections the application keeps a pointer to
    closing       \* threads of the application inside close(), by connection

connVars == <<conn, channels_>>
loopVars == <<queue, batch, at, phase, active, current>>
appVars == <<held, closing>>
regVars == <<listening, rConnects_, accepting, inRegistry, raced>>
vars == <<connLoops, server, regVars, connVars, loopVars, appVars>>

Events == {"close", "error", "read", "write"}
Idle == [c |-> NoConn, todo |-> {}, open |-> FALSE, message |-> FALSE]

Init == /\ connLoops \in {{Base}, SubLoops} \ {{}}
        /\ server = "up" /\ listening = FALSE
        /\ rConnects_ = [f \in Fds |-> NoConn]
        /\ accepting = NoConn
        /\ conn \in [Conns -> [state_ : {"none"}, fd : Fds, loop : {Base},
                               events : {{}}, polled : {FALSE}]]
        /\ channels_ = [l \in Loops |-> [f \in Fds |-> NoConn]]
        /\ queue = [l \in Loops |-> <<>>] /\ batch = [l \in Loops |-> <<>>]
        /\ at = [l \in Loops |-> 1]
        /\ phase = [l \in Loops |-> "poll"]
        /\ active = [l \in Loops |-> {}]
        /\ current = [l \in Loops |-> Idle]
        /\ inRegistry = {} /\ raced = FALSE
        /\ held = {} /\ closing = {}

Functor(op, c) == [op |-> op, c |-> c]

Captured(l) == {p.c : p \in Range(queue[l]) \cup Range(batch[l])}

\* Mutant: closeFunc_ keeps an RTcpConnPtr, so that a connection owns itself.
AliveByCycle(c) == conn[c].state_ # "none"

\* Some shared_ptr to c is left.
Alive(c) == \/ c \in Range(rConnects_) \/ c = accepting
            \/ c \in held \/ c \in closing
            \/ \E l \in Loops : c \in Captured(l) \/ c = current[l].c

FreeFd(f) == \A c \in Conns : conn[c].state_ # "none" /\ conn[c].fd = f => ~Alive(c)

\* Its loop has not ended.
Running(c) == phase[conn[c].loop] # "stopped"

\* "hold" is a functor that changes nothing here, but holds its connection: the
\* call of writeCompleteFunc_, an option of the socket.
QueueInLoop(op, c) == queue' = [queue EXCEPT ![conn[c].loop] = Append(@, Functor(op, c))]
-----------------------------------------------------------------------------
(* ReactorTcpConnect                                                       *)

\* Channel::enableRead, enableWrite
Enabled(c, event) == conn[c].events \cup {event}

\* Channel::disableWrite
Disabled(c, event) == conn[c].events \ {event}

FindChannel(c) == channels_[conn[c].loop][conn[c].fd] # NoConn

\* Channel::updateInEventLoop, with what the caller has set before.  A channel
\* not in channels_ is added to epoll (`polled'), another one is modified, which
\* fails if epoll does not have its descriptor.
Update(c, state, events) ==
    /\ conn' = [conn EXCEPT ![c].state_ = state, ![c].events = events,
                            ![c].polled = @ \/ ~FindChannel(c)]
    /\ IF FindChannel(c) THEN UNCHANGED channels_
       ELSE channels_' = [channels_ EXCEPT ![conn[c].loop][conn[c].fd] = c]

\* Mutant: the channel goes on reporting what it reported before.
StayEnabled(c) == conn[c].events

DisabledAll(c) == {}

\* Mutant: handleClose may run twice.
AlwaysOpen(c) == TRUE

StillOpen(c) == conn[c].state_ # "Disconnected"

\* Mutant: handleClose does not call closeFunc_.
NoCloseFunc(c) == UNCHANGED queue

\* closeFunc_: ReactorTcpServer::removeConnect
RemoveConnect(c) == QueueInLoop("destroy", c)

\* handleClose; handleError only logs before it.  disconnectFunc_ runs here.
HandleClose(c) ==
    IF StillOpen(c)
    THEN Update(c, "Disconnected", DisabledAll(c)) /\ RemoveConnect(c)
    ELSE UNCHANGED <<connVars, queue>>

\* connectEstablished; connectFunc_ may keep a pointer.
Establish(c) ==
    /\ Update(c, "Connected", Enabled(c, "read"))
    /\ held' \in {held, held \cup {c}}

\* handleRead: nothing to read, end of file or error, data for messageFunc_.
HandleRead(l, c) ==
    \/ UNCHANGED <<connVars, queue>> /\ current' = [current EXCEPT ![l].todo = @ \ {"read"}]
    \/ HandleClose(c) /\ current' = [current EXCEPT ![l].todo = @ \ {"read"}]
    \/ /\ current' = [current EXCEPT ![l].todo = @ \ {"read"}, ![l].message = TRUE]
       /\ UNCHANGED <<connVars, queue>>

\* handleWrite: the channel has been disabled since, or part of the output is
\* left; the rest has been written; error.
HandleWrite(c) ==
    \/ UNCHANGED <<connVars, queue>>
    \/ /\ "write" \in conn[c].events
       /\ Update(c, conn[c].state_, Disabled(c, "write"))
       /\ QueueInLoop("hold", c)
    \/ "write" \in conn[c].events /\ HandleClose(c)
-----------------------------------------------------------------------------
(* Channel::handle                                                         *)

\* The loop is between two channels.
Handling(l) == /\ phase[l] = "handle" /\ current[l].c = NoConn
               /\ l = Base => accepting = NoConn

\* revents_ is a choice of the kernel: EPOLLHUP and EPOLLERR always, others
\* only if the channel asks for them.
HandleBegin(l) ==
    /\ Handling(l)
    /\ \E c \in active[l], todo \in SUBSET Events :
           /\ todo # {} /\ todo \cap {"read", "write"} \subseteq conn[c].events
           /\ current' = [current EXCEPT ![l] =
                  [c |-> c, todo |-> todo, message |-> FALSE,
                   open |-> conn[c].state_ = "Connected"]]
           /\ active' = [active EXCEPT ![l] = @ \ {c}]
    /\ UNCHANGED <<connLoops, server, regVars, connVars, queue, batch, at, phase, appVars>>

HandleEvent(l) ==
    LET c == current[l].c  todo == current[l].todo IN
    /\ c # NoConn /\ todo # {} /\ ~current[l].message
    /\ CASE todo \cap {"close", "error"} # {} ->
              /\ HandleClose(c)
              /\ current' = [current EXCEPT ![l].todo =
                     IF "close" \in todo THEN @ \ {"close"} ELSE @ \ {"error"}]
         [] todo \cap {"close", "error"} = {} /\ "read" \in todo -> HandleRead(l, c)
         [] OTHER -> HandleWrite(c) /\ current' = [current EXCEPT ![l].todo = {}]
    /\ UNCHANGED <<connLoops, server, regVars, batch, at, phase, active, appVars>>

MessageReturns(l) ==
    /\ current[l].message
    /\ current' = [current EXCEPT ![l].message = FALSE]
    /\ UNCHANGED <<connLoops, server, regVars, connVars, queue, batch, at, phase, active, appVars>>

HandleEnd(l) ==
    /\ current[l].c # NoConn /\ current[l].todo = {} /\ ~current[l].message
    /\ current' = [current EXCEPT ![l] = Idle]
    /\ UNCHANGED <<connLoops, server, regVars, connVars, queue, batch, at, phase, active, appVars>>
-----------------------------------------------------------------------------
(* ReactorTcpServer::start, newConnect, removeConnect's functor            *)

\* A second start() finds isListen() and changes nothing.
Listen == listening' = TRUE

\* start() has started the pool; its functor is run at once in the thread of
\* the base loop.
Start ==
    /\ server = "up" /\ ~listening
    /\ \/ Listen /\ UNCHANGED queue
       \/ /\ Len(queue[Base]) < MaxQueue
          /\ queue' = [queue EXCEPT ![Base] = Append(@, Functor("listen", NoConn))]
          /\ UNCHANGED listening
    /\ UNCHANGED <<connLoops, server, rConnects_, accepting, inRegistry, raced, connVars,
                   batch, at, phase, active, current, appVars>>

\* TcpListen::accept returns no connection unless the socket listens.
CanAccept == Handling(Base) /\ listening

Enter(l) == inRegistry' = inRegistry \cup {l} /\ raced' = (inRegistry # {})

Accept(c, f) ==
    /\ CanAccept /\ conn[c].state_ = "none" /\ FreeFd(f)
    /\ \E l \in connLoops :
           conn' = [conn EXCEPT ![c].state_ = "Connecting", ![c].fd = f, ![c].loop = l]
    /\ accepting' = c
    /\ Enter(Base)
    /\ UNCHANGED <<channels_, connLoops, server, listening, rConnects_, loopVars, appVars>>

\* Mutant: newConnect does not enter the connection into rConnects_.
ForgetEntry(c) == UNCHANGED rConnects_

InsertEntry(c) == rConnects_' = [rConnects_ EXCEPT ![conn[c].fd] = c]

\* Mutant: the connection is never established in its loop.
EstablishNever(c) == UNCHANGED queue

EstablishLater(c) == QueueInLoop("establish", c)

\* runInLoop establishes a connection of the base loop at once.
Insert ==
    /\ accepting # NoConn /\ Base \in inRegistry
    /\ InsertEntry(accepting)
    /\ inRegistry' = inRegistry \ {Base}
    /\ IF conn[accepting].loop = Base
       THEN Establish(accepting) /\ UNCHANGED queue
       ELSE EstablishLater(accepting) /\ UNCHANGED <<connVars, held>>
    /\ UNCHANGED <<connLoops, server, listening, accepting, raced, batch, at, phase, active, current, closing>>

\* The pointer newConnect kept is gone.
NewConnectReturns ==
    /\ accepting # NoConn /\ Base \notin inRegistry
    /\ accepting' = NoConn
    /\ UNCHANGED <<connLoops, server, listening, rConnects_, inRegistry, raced, connVars, loopVars, appVars>>

\* Mutant: the functor clears the registry.
ClearRegistry(f) == rConnects_' = [g \in Fds |-> NoConn]

EraseEntry(f) == rConnects_' = [rConnects_ EXCEPT ![f] = NoConn]

\* EpollPoller::removeChannel erases by descriptor.
RemoveChannel(c) ==
    /\ conn' = [conn EXCEPT ![c].polled = FALSE, ![c].state_ = "Disconnected", ![c].events = {}]
    /\ channels_' = [channels_ EXCEPT ![conn[c].loop][conn[c].fd] = NoConn]

NextIs(l, op) == phase[l] = "functors" /\ at[l] <= Len(batch[l]) /\ batch[l][at[l]].op = op

DestroyBegin(l) ==
    /\ NextIs(l, "destroy") /\ l \notin inRegistry
    /\ Enter(l)
    /\ UNCHANGED <<connLoops, server, listening, rConnects_, accepting, connVars, loopVars, appVars>>

\* erase, then connectDestroyed
DestroyEnd(l) ==
    LET c == batch[l][at[l]].c IN
    /\ NextIs(l, "destroy") /\ l \in inRegistry
    /\ inRegistry' = inRegistry \ {l}
    /\ EraseEntry(conn[c].fd)
    /\ RemoveChannel(c)
    /\ at' = [at EXCEPT ![l] = @ + 1]
    /\ UNCHANGED <<connLoops, server, listening, accepting, raced, queue, batch, phase, active, current,
                   appVars>>
-----------------------------------------------------------------------------
(* The turn of a loop                                                      *)

\* epoll drops a descriptor that is closed.
Poll(l) ==
    /\ phase[l] = "poll"
    /\ \E S \in SUBSET {c \in Conns : conn[c].polled /\ conn[c].loop = l /\ Alive(c)} :
           active' = [active EXCEPT ![l] = S]
    /\ phase' = [phase EXCEPT ![l] = "handle"]
    /\ UNCHANGED <<connLoops, server, regVars, connVars, queue, batch, at, current, appVars>>

FunctorsBegin(l) ==
    /\ Handling(l) /\ active[l] = {}
    /\ phase' = [phase EXCEPT ![l] = "functors"]
    /\ batch' = [batch EXCEPT ![l] = queue[l]]
    /\ queue' = [queue EXCEPT ![l] = <<>>]
    /\ UNCHANGED <<connLoops, server, regVars, connVars, at, active, current, appVars>>

RunFunctor(l) ==
    /\ LET c == batch[l][at[l]].c IN
       \/ NextIs(l, "establish") /\ Establish(c) /\ UNCHANGED <<listening, queue>>
       \/ NextIs(l, "close") /\ HandleClose(c) /\ UNCHANGED <<listening, held>>
       \/ NextIs(l, "hold") /\ UNCHANGED <<listening, connVars, queue, held>>
       \/ NextIs(l, "listen") /\ Listen /\ UNCHANGED <<connVars, queue, held>>
    /\ at' = [at EXCEPT ![l] = @ + 1]
    /\ UNCHANGED <<connLoops, server, rConnects_, accepting, inRegistry, raced, batch, phase, active, current, closing>>

\* The functors are destroyed together, with the pointers they captured.
FunctorsEnd(l) ==
    /\ phase[l] = "functors" /\ at[l] > Len(batch[l])
    /\ phase' = [phase EXCEPT ![l] = "poll"]
    /\ batch' = [batch EXCEPT ![l] = <<>>]
    /\ at' = [at EXCEPT ![l] = 1]
    /\ UNCHANGED <<connLoops, server, regVars, connVars, queue, active, current, appVars>>
-----------------------------------------------------------------------------
(* ~ReactorTcpServer and what follows it.  Nobody calls a connection whose *)
(* loop has ended, nor is inside such a call while it ends.                *)

NotCalled(l) == \A c \in closing : conn[c].loop # l

\* acceptChannel_ is disabled and removed, sock_ closed; the pool is next.
Destroy ==
    /\ server = "up" /\ phase[Base] = "poll" /\ NotCalled(Base)
    /\ server' = "joining" /\ listening' = FALSE
    /\ phase' = [phase EXCEPT ![Base] = "stopped"]
    /\ UNCHANGED <<connLoops, rConnects_, accepting, inRegistry, raced, connVars, queue, batch, at,
                   active, current, appVars>>

\* The thread of a sub-loop ends between two turns, and the functors still
\* queued are destroyed with its EventLoop.
SubLoopEnds(l) ==
    /\ server = "joining" /\ l \in connLoops \ {Base} /\ phase[l] = "poll" /\ NotCalled(l)
    /\ phase' = [phase EXCEPT ![l] = "stopped"]
    /\ queue' = [queue EXCEPT ![l] = <<>>]
    /\ UNCHANGED <<connLoops, server, regVars, connVars, batch, at, active, current, appVars>>

\* Mutant: the pool is declared before the registry, and joined after it has gone.
NotJoined == TRUE

Joined == \A l \in connLoops : phase[l] = "stopped"

\* ~unordered_map of rConnects_
ClearConnects ==
    /\ server = "joining" /\ Joined
    /\ server' = "gone"
    /\ rConnects_' = [f \in Fds |-> NoConn]
    /\ UNCHANGED <<connLoops, listening, accepting, inRegistry, raced, connVars, loopVars, appVars>>

\* ~EventLoop of the base loop, with the functors nobody will run.
BaseLoopDestroyed ==
    /\ server = "gone" /\ queue[Base] # <<>>
    /\ queue' = [queue EXCEPT ![Base] = <<>>]
    /\ UNCHANGED <<connLoops, server, regVars, connVars, batch, at, phase, active, current, appVars>>

ServerEnds == Destroy \/ ClearConnects \/ BaseLoopDestroyed \/ \E l \in Loops : SubLoopEnds(l)
-----------------------------------------------------------------------------
(* The application                                                         *)

\* close() tests state_ and then queues handleClose, in any thread.
CloseCheck(c) ==
    /\ c \in held \ closing /\ conn[c].state_ \notin {"Connecting", "Disconnected"}
    /\ Running(c)
    /\ closing' = closing \cup {c}
    /\ UNCHANGED <<connLoops, server, regVars, connVars, loopVars, held>>

CloseQueue(c) ==
    /\ c \in closing /\ Len(queue[conn[c].loop]) < MaxQueue
    /\ closing' = closing \ {c}
    /\ QueueInLoop("close", c)
    /\ UNCHANGED <<connLoops, server, regVars, connVars, batch, at, phase, active, current, held>>

\* send() in the thread of the connection: all is written and writeCompleteFunc_
\* is queued, or the channel waits until it can write.
Send(c) ==
    /\ c \in held /\ conn[c].state_ = "Connected" /\ phase[conn[c].loop] \in {"handle", "functors"}
    /\ \/ /\ "write" \notin conn[c].events /\ Len(queue[conn[c].loop]) < MaxQueue
          /\ QueueInLoop("hold", c) /\ UNCHANGED connVars
       \/ Update(c, "Connected", Enabled(c, "write")) /\ UNCHANGED queue
    /\ UNCHANGED <<connLoops, server, regVars, batch, at, phase, active, current, appVars>>

\* setTcpNoDelay() in a thread other than the connection's: the functor holds it.
SetTcpNoDelay(c) ==
    /\ c \in held /\ Running(c) /\ Len(queue[conn[c].loop]) < MaxQueue
    /\ QueueInLoop("hold", c)
    /\ UNCHANGED <<connLoops, server, regVars, connVars, batch, at, phase, active, current, appVars>>

Release(c) ==
    /\ c \in held
    /\ held' = held \ {c}
    /\ UNCHANGED <<connLoops, server, regVars, connVars, loopVars, closing>>
-----------------------------------------------------------------------------
\* A loop goes on by itself once it has something to do.
Continue(l) == \/ Poll(l) /\ queue[l] # <<>>
               \/ HandleBegin(l) \/ HandleEvent(l) \/ MessageReturns(l) \/ HandleEnd(l)
               \/ FunctorsBegin(l) \/ RunFunctor(l) \/ FunctorsEnd(l)
               \/ DestroyBegin(l) \/ DestroyEnd(l)
               \/ l = Base /\ (Insert \/ NewConnectReturns)

App(c) == CloseCheck(c) \/ CloseQueue(c) \/ Send(c) \/ SetTcpNoDelay(c) \/ Release(c)

Next == /\ ~raced
        /\ \/ Start \/ ServerEnds
           \/ \E l \in Loops : Continue(l) \/ Poll(l)
           \/ \E c \in Conns : App(c) \/ \E f \in Fds : Accept(c, f)

Spec == Init /\ [][Next]_vars

\* The threads of the loops are scheduled and a poll ends when a functor is
\* queued (EventLoop!PostedRuns); callbacks return.
FairSpec == Spec /\ \A l \in Loops : WF_vars(~raced /\ Continue(l))
-----------------------------------------------------------------------------
Functors == [op : {"listen", "establish", "close", "hold", "destroy"}, c : Conns \cup {NoConn}]

ConnRecords == [state_ : {"none", "Connecting", "Connected", "Disconnected"}, fd : Fds,
                loop : Loops, events : SUBSET {"read", "write"}, polled : BOOLEAN]

TypeOK ==
    /\ connLoops \subseteq Loops /\ server \in {"up", "joining", "gone"} /\ listening \in BOOLEAN
    /\ rConnects_ \in [Fds -> Conns \cup {NoConn}] /\ accepting \in Conns \cup {NoConn}
    /\ conn \in [Conns -> ConnRecords]
    /\ channels_ \in [Loops -> [Fds -> Conns \cup {NoConn}]]
    /\ queue \in [Loops -> Seq(Functors)] /\ batch \in [Loops -> Seq(Functors)]
    /\ at \in [Loops -> Nat] /\ \A l \in Loops : at[l] \in 1..Len(batch[l]) + 1
    /\ phase \in [Loops -> {"poll", "handle", "functors", "stopped"}]
    /\ active \in [Loops -> SUBSET Conns]
    /\ current \in [Loops -> [c : Conns \cup {NoConn}, todo : SUBSET Events,
                              open : BOOLEAN, message : BOOLEAN]]
    /\ inRegistry \subseteq Loops /\ raced \in BOOLEAN
    /\ held \subseteq Conns /\ closing \subseteq Conns

\* Functors of a loop still to be run, and where c has one of them.
Pending(l) == SubSeq(batch[l], at[l], Len(batch[l])) \o queue[l]

PendingOf(op, c) ==
    {i \in DOMAIN Pending(conn[c].loop) : Pending(conn[c].loop)[i] = Functor(op, c)}

IsOne(S) == \E i \in S : S = {i}

\* A closed connection has exactly one functor that will destroy it, in its own
\* loop and until it is destroyed, and one that waits to be established has
\* exactly one that does it; no other connection has any.
OneFunctorEach ==
    \A c \in {d \in Conns : Running(d)} :
        /\ IF conn[c].state_ = "Disconnected" /\ conn[c].polled
           THEN IsOne(PendingOf("destroy", c)) ELSE PendingOf("destroy", c) = {}
        /\ IF conn[c].state_ = "Connecting" /\ (c # accepting \/ Base \notin inRegistry)
           THEN IsOne(PendingOf("establish", c)) ELSE PendingOf("establish", c) = {}
        /\ \A l \in Loops : c \in Captured(l) => l = conn[c].loop

\* Without sub-loops only the thread of the base loop is ever in rConnects_.
NoRaceInOneLoop == connLoops = {Base} => ~raced /\ inRegistry \subseteq {Base}

ServerInv == TypeOK /\ OneFunctorEach /\ NoRaceInOneLoop

\* A poller keeps plain Channel pointers, and poll hands them to the loop: no
\* connection is destroyed while its channel is in channels_ or still to be
\* handled, whoever drops a pointer when; nor by the destructor of the server
\* while the loop is still running.  An entry left behind would also keep the
\* next connection with its descriptor out of epoll.
ChannelsAlive ==
    \A l \in {k \in Loops : phase[k] # "stopped"} :
        /\ \A f \in Fds : LET c == channels_[l][f] IN
               c # NoConn => Alive(c) /\ conn[c].fd = f /\ conn[c].loop = l /\ conn[c].polled
        /\ \A c \in active[l] : channels_[l][conn[c].fd] = c
        /\ \A c \in Conns : conn[c].state_ = "Connected" /\ conn[c].loop = l
               => channels_[l][conn[c].fd] = c

\* rConnects_ is keyed by descriptor, and a descriptor is reused: the entry a
\* connection put in is its own until its functor erases it, so that no
\* functor erases the entry of a later connection.
RegistryKeepsOwn ==
    \A c \in Conns :
        LET x == conn[c] IN
        (server # "gone" /\ (c # accepting \/ Base \notin inRegistry) /\ (x.polled \/ x.state_ \in {"Connecting", "Connected"}))
            => rConnects_[x.fd] = c

\* A message is delivered only by the handling of events that began while the
\* connection was up; nothing is delivered by later ones.
MessagesFromOpenChannel == \A l \in Loops : current[l].message => current[l].open

LifeOf == [Connecting |-> "accepted", Connected |-> "up", Disconnected |-> "down"]

Life(c) == CASE conn[c].state_ = "none" -> "none"
             [] conn[c].state_ # "none" -> IF Alive(c) THEN LifeOf[conn[c].state_] ELSE "gone"

\* Connect and disconnect callbacks are called once each and in this order,
\* and only a disconnected connection is destroyed and its descriptor reused,
\* unless the server itself is destroyed.
ConnectionLifeOf == INSTANCE ConnectionLife WITH
    life <- [c \in Conns |-> Life(c)], fd <- [c \in Conns |-> conn[c].fd], open <- (server = "up")

ImplementsConnectionLife == ConnectionLifeOf!Spec

\* Nothing of a server survives it and its base loop but the connections the
\* application keeps a pointer to: no functor, no callback and no connection
\* itself (closeFunc_ has a weak_ptr) holds a connection for ever.
NothingLeftBehind == server = "gone" /\ queue[Base] = <<>> => \A c \in Conns : Alive(c) => c \in held

\* An accepted connection gets its connect callback, unless its loop ends.
AcceptedIsEstablished ==
    \A c \in Conns : conn[c].state_ = "Connecting" ~> (conn[c].state_ # "Connecting" \/ ~Running(c) \/ raced)

\* A closed connection leaves poller and registry, however it was closed, unless
\* its loop ends.
ClosedIsDestroyed ==
    \A c \in Conns : conn[c].state_ = "Disconnected"
        ~> ((~conn[c].polled /\ c \notin Range(rConnects_)) \/ ~Running(c) \/ raced)
=============================================================================
