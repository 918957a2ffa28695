------------------------------ MODULE Sockets ------------------------------
(***************************************************************************)
(* The objects that own descriptors: SocketTCP (also inside of TcpConnect), *)
(* TcpListen and SocketUDP variables of one thread, which are created,     *)
(* moved, closed and destroyed in any order, over the descriptors of the   *)
(* process.  A descriptor is a number that is reused once it is closed:    *)
(* file holds what the kernel knows of the socket behind each.  System     *)
(* calls may fail.                                                         *)
(*                                                                         *)
(* SocketUDP::close() tests the result of the system call the wrong way    *)
(* round and keeps the number of the descriptor it has closed.  The object *)
(* is then `stale', and its next call, at the latest close() in the        *)
(* destructor, may hit a descriptor opened since: `hit' is set and the     *)
(* model goes no further, since anything may be behind any descriptor from *)
(* then on.                                                                *)
(***************************************************************************)
EXTENDS Naturals

CONSTANTS Streams, Listens, Udps,   \* variables of the three classes
          Fds, None,                \* descriptors, -1
          MaxSets                   \* bound: calls that set an option

Objs == Streams \cup Listens \cup Udps

ASSUME SocketAssumption ==
    /\ Streams \cap Listens = {} /\ Streams \cap Udps = {} /\ Listens \cap Udps = {}
    /\ None \notin Fds /\ MaxSets \in Nat

VARIABLES
    obj,     \* the variables: whether alive, and their members
    file,    \* the socket open behind each descriptor
    raw,     \* descriptors the application holds by number only
    lost,    \* descriptors whose owner was assigned another
    hit,     \* a stale SocketUDP has used somebody else's descriptor
    sets     \* calls that set an option so far

vars == <<obj, file, raw, lost, hit, sets>>

Gone == [alive |-> FALSE, sockfd_ |-> None, state_ |-> 0, stale |-> FALSE]

Object(fd) == [alive |-> TRUE, sockfd_ |-> fd, state_ |-> 0, stale |-> FALSE]

NoReuse == [addr |-> FALSE, port |-> FALSE]

\* stage: 1 bound, 2 listening or, of a datagram socket, connected.  asked: the options the application set.
Socket(type) == [type |-> type, stage |-> 0, reuse |-> NoReuse, asked |-> NoReuse]

Closed == Socket("closed")

Init == /\ obj = [o \in Objs |-> Gone]
        /\ file = [f \in Fds |-> Closed]
        /\ raw = {} /\ lost = {} /\ hit = FALSE /\ sets = 0

Type(o) == IF o \in Udps THEN "dgram" ELSE "stream"

\* isValid()
Valid(o) == obj[o].alive /\ obj[o].sockfd_ # None

FileOf(o) == file[obj[o].sockfd_]

Opens(f, type) == file[f] = Closed /\ file' = [file EXCEPT ![f] = Socket(type)]

Constructed(o, fd) == ~obj[o].alive /\ obj' = [obj EXCEPT ![o] = Object(fd)]
-----------------------------------------------------------------------------
(* Construction                                                            *)

Families == {"AF_INET", "AF_INET6", "AF_UNSPEC"}

\* InetAddr::isValid()
ValidAddr(family) == family \in {"AF_INET", "AF_INET6"}

\* createRaw: no socket for an invalid address, or if socket() fails.
Create(o, family) ==
    /\ \/ Constructed(o, None) /\ UNCHANGED file
       \/ ValidAddr(family) /\ \E f \in Fds : Opens(f, Type(o)) /\ Constructed(o, f)
    /\ UNCHANGED <<raw, lost, hit, sets>>

\* Mutant: a socket that could not be connected stays open.
LeakUnconnected(f) == Opens(f, "stream")

\* The destructor of the local SocketTCP closes it.
CloseUnconnected(f) == file[f] = Closed /\ UNCHANGED file

\* TcpConnect::connectRaw
ConnectRaw(o) ==
    /\ o \in Streams
    /\ \E f \in Fds : \/ Opens(f, "stream") /\ Constructed(o, f)
                      \/ CloseUnconnected(f) /\ Constructed(o, None)
    /\ UNCHANGED <<raw, lost, hit, sets>>

\* attach: a descriptor of another type is left to the application.
Attach(o, f) ==
    /\ o \in Streams \cup Udps /\ f \in raw
    /\ IF file[f].type = Type(o)
       THEN Constructed(o, f) /\ raw' = raw \ {f}
       ELSE Constructed(o, None) /\ UNCHANGED raw
    /\ UNCHANGED <<file, lost, hit, sets>>

\* TcpListen::accept: the kernel is asked only by an object that listens, and
\* it accepts only on a socket that does.
Accept(l, o) ==
    /\ l \in Listens /\ obj[l].alive /\ o \in Streams
    /\ \/ /\ obj[l].state_ = 2 /\ Valid(l) /\ FileOf(l).stage = 2
          /\ \E f \in Fds : Opens(f, "stream") /\ Constructed(o, f)
       \/ Constructed(o, None) /\ UNCHANGED file
    /\ UNCHANGED <<raw, lost, hit, sets>>
-----------------------------------------------------------------------------
(* Moves                                                                   *)

SameClass(o, p) == \E C \in {Streams, Listens, Udps} : {o, p} \subseteq C

\* Mutant: the assignment takes the socket but not the state that goes with it.
SocketOnly(o, p) == [obj[p] EXCEPT !.alive = TRUE, !.state_ = obj[o].state_]

Moved(o, p) == [obj[p] EXCEPT !.alive = TRUE]

\* What is left of p: a TcpListen keeps its state_, a SocketUDP clears it.
MovedFrom(p) == [obj[p] EXCEPT !.sockfd_ = None, !.stale = FALSE,
                               !.state_ = IF p \in Udps THEN 0 ELSE @]

MoveConstruct(o, p) ==
    /\ SameClass(o, p) /\ ~obj[o].alive /\ obj[p].alive
    /\ obj' = [obj EXCEPT ![o] = Moved(o, p), ![p] = MovedFrom(p)]
    /\ UNCHANGED <<file, raw, lost, hit, sets>>

\* operator= does not close what o owned, nor does it test for o = p.
MoveAssign(o, p) ==
    /\ SameClass(o, p) /\ obj[o].alive /\ obj[p].alive
    /\ obj' = [obj EXCEPT ![o] = Moved(o, p), ![p] = MovedFrom(p)]
    /\ lost' = lost \cup (IF Valid(o) /\ ~obj[o].stale THEN {obj[o].sockfd_} ELSE {})
    /\ UNCHANGED <<file, raw, hit, sets>>
-----------------------------------------------------------------------------
(* Closing                                                                 *)

\* The system call, which fails if the descriptor is not open.
CloseFile(o) ==
    /\ file' = IF Valid(o) THEN [file EXCEPT ![obj[o].sockfd_] = Closed] ELSE file
    /\ hit' = (obj[o].stale /\ FileOf(o) # Closed)

\* SocketTCP::close(); the state_ of a TcpListen stays what it was.
ClosedTcp(o) == IF Valid(o) /\ FileOf(o) # Closed THEN [obj[o] EXCEPT !.sockfd_ = None] ELSE obj[o]

\* SocketUDP::close() forgets the descriptor only if closing it has failed.
ClosedUdp(o) ==
    IF Valid(o) /\ FileOf(o) # Closed THEN [obj[o] EXCEPT !.stale = TRUE]
                                      ELSE [obj[o] EXCEPT !.sockfd_ = None, !.stale = FALSE]

Close(o) ==
    /\ obj[o].alive
    /\ CloseFile(o)
    /\ obj' = [obj EXCEPT ![o] = IF o \in Udps THEN ClosedUdp(o) ELSE ClosedTcp(o)]
    /\ UNCHANGED <<raw, lost, sets>>

Destroy(o) ==
    /\ obj[o].alive
    /\ CloseFile(o)
    /\ obj' = [obj EXCEPT ![o] = Gone]
    /\ UNCHANGED <<raw, lost, sets>>
-----------------------------------------------------------------------------
(* bind, listen and the options                                            *)

\* The kernel's side of bind() and listen(), when they succeed.
Advances(o, stage) ==
    /\ Valid(o) /\ FileOf(o).type = Type(o) /\ FileOf(o).stage = stage - 1
    /\ file' = [file EXCEPT ![obj[o].sockfd_].stage = stage]

\* TcpListen::bind
ListenBind(l) ==
    /\ l \in Listens /\ obj[l].state_ = 0
    /\ Advances(l, 1)
    /\ obj' = [obj EXCEPT ![l].state_ = 1]
    /\ UNCHANGED <<raw, lost, hit, sets>>

\* TcpListen::listen
ListenListen(l) ==
    /\ l \in Listens /\ obj[l].state_ = 1
    /\ Advances(l, 2)
    /\ obj' = [obj EXCEPT ![l].state_ = 2]
    /\ UNCHANGED <<raw, lost, hit, sets>>

\* isBind() and isConnect() of a SocketUDP: bits of its state_.
IsBind(o) == obj[o].state_ % 2 = 1
IsConnect(o) == obj[o].state_ \div 2 = 1

\* SocketUDP::bind leaves the flag IsBind as it is.
UdpBind(o) ==
    /\ o \in Udps /\ ~IsBind(o)
    /\ Advances(o, 1)
    /\ hit' = obj[o].stale
    /\ UNCHANGED <<obj, raw, lost, sets>>

\* SocketUDP::connect leaves IsConnect as it is, and may be called again.
UdpConnect(o) ==
    /\ o \in Udps /\ Valid(o) /\ ~IsConnect(o)
    /\ FileOf(o).type = "dgram"
    /\ file' = [file EXCEPT ![obj[o].sockfd_].stage = 2]
    /\ hit' = obj[o].stale
    /\ UNCHANGED <<obj, raw, lost, sets>>

\* The option SocketTCP's and SocketUDP's functions set for the one asked for.
OptionSet(o, option) == IF o \in Udps THEN option ELSE "addr"

\* setReuseAddr, setReusePort; of a TcpListen only before bind.
SetReuse(o, option, enable) ==
    /\ Valid(o) /\ FileOf(o) # Closed /\ sets < MaxSets
    /\ o \in Listens => obj[o].state_ = 0
    /\ file' = [file EXCEPT ![obj[o].sockfd_].reuse[OptionSet(o, option)] = enable,
                            ![obj[o].sockfd_].asked[option] = enable]
    /\ sets' = sets + 1
    /\ hit' = obj[o].stale
    /\ UNCHANGED <<obj, raw, lost>>
-----------------------------------------------------------------------------
(* The application's own descriptors                                       *)

RawOpen(f, type) == Opens(f, type) /\ raw' = raw \cup {f} /\ UNCHANGED <<obj, lost, hit, sets>>

RawClose(f) == /\ f \in raw /\ raw' = raw \ {f}
               /\ file' = [file EXCEPT ![f] = Closed]
               /\ UNCHANGED <<obj, lost, hit, sets>>
-----------------------------------------------------------------------------
Raw(f) == RawClose(f) \/ \E type \in {"stream", "dgram"} : RawOpen(f, type)

OfObject(o) ==
    \/ \E family \in Families : Create(o, family)
    \/ ConnectRaw(o) \/ Close(o) \/ Destroy(o)
    \/ ListenBind(o) \/ ListenListen(o) \/ UdpBind(o) \/ UdpConnect(o)
    \/ \E f \in Fds : Attach(o, f)
    \/ \E p \in Objs : Accept(o, p) \/ MoveConstruct(o, p) \/ MoveAssign(o, p)
    \/ \E option \in {"addr", "port"}, enable \in BOOLEAN : SetReuse(o, option, enable)

Next == ~hit /\ (\/ \E o \in Objs : OfObject(o)
                \/ \E f \in Fds : Raw(f))

Spec == Init /\ [][Next]_vars
-----------------------------------------------------------------------------
Reuse == [addr : BOOLEAN, port : BOOLEAN]

TypeOK ==
    /\ obj \in [Objs -> [alive : BOOLEAN, sockfd_ : Fds \cup {None}, state_ : 0..3, stale : BOOLEAN]]
    /\ file \in [Fds -> [type : {"closed", "stream", "dgram"}, stage : 0..2,
                         reuse : Reuse, asked : Reuse]]
    /\ raw \subseteq Fds /\ lost \subseteq Fds /\ hit \in BOOLEAN /\ sets \in 0..MaxSets
    /\ \A o \in Objs \ Udps : ~obj[o].stale

Owns(o) == Valid(o) /\ ~obj[o].stale

\* An object owns an open descriptor of its own type, which nobody else has.
OneOwner ==
    \A o \in Objs : Owns(o) =>
        /\ FileOf(o).type = Type(o)
        /\ obj[o].sockfd_ \notin raw \cup lost
        /\ \A p \in Objs \ {o} : Owns(p) => obj[p].sockfd_ # obj[o].sockfd_

\* state_ of a TcpListen says what its socket is, after any moves.
StateIsTrue == \A l \in Listens : Valid(l) => obj[l].state_ = FileOf(l).stage

\* Whatever is created, moved and closed in whatever order, each descriptor has
\* one owner, and the socket of a TcpListen is in the state its object claims.
SocketsInv == TypeOK /\ (~hit => OneOwner /\ StateIsTrue)

\* A descriptor whose last owner is destroyed or closed, or that a call could not
\* use, is closed: only operator= loses one.
NothingElseLost ==
    ~hit => \A f \in Fds : file[f] # Closed =>
                f \in raw \cup lost \/ \E o \in Objs : Owns(o) /\ obj[o].sockfd_ = f

\* "set whether to enable port reuse" (SocketTCP.h:79), and address reuse
\* likewise: the options of a socket are those the application has set.
OptionsAsAsked == \A f \in Fds : file[f].reuse = file[f].asked
=============================================================================
