--------------------------- MODULE SocketsProofs ---------------------------
(***************************************************************************)
(* What Sockets guarantees for any variables of the three classes and any  *)
(* descriptors: each descriptor has one owner, a TcpListen tells the truth *)
(* about its socket, and only operator= loses a descriptor.                *)
(***************************************************************************)
EXTENDS Sockets, TLAPS

Files == [type : {"closed", "stream", "dgram"}, stage : 0..2, reuse : Reuse, asked : Reuse]

Members == [alive : BOOLEAN, sockfd_ : Fds \cup {None}, state_ : 0..3, stale : BOOLEAN]

\* The descriptors the application holds, or has lost, are open and different,
\* and nothing of a socket is left behind a descriptor that is closed.
RestIsOpen ==
    /\ \A f \in Fds : file[f].type = "closed" => file[f] = Closed
    /\ \A f \in raw \cup lost : file[f] # Closed
    /\ raw \cap lost = {}

\* The inductive invariant.
SocketsIInv == TypeOK /\ (~hit => OneOwner /\ StateIsTrue /\ RestIsOpen)

\* What the kernel keeps of a socket that has just been opened, or of none.
LEMMA NewSocket ==
    /\ Closed \in Files /\ Closed.type = "closed"
    /\ \A type \in {"stream", "dgram"} :
           /\ Socket(type) \in Files /\ Socket(type).type = type
           /\ Socket(type).stage = 0 /\ Socket(type) # Closed
BY DEF Closed, Socket, NoReuse, Files, Reuse

\* TypeOK in terms of the sets above.
LEMMA Types ==
    TypeOK <=> /\ obj \in [Objs -> Members] /\ file \in [Fds -> Files]
               /\ raw \subseteq Fds /\ lost \subseteq Fds /\ hit \in BOOLEAN /\ sets \in 0..MaxSets
               /\ \A o \in Objs \ Udps : ~obj[o].stale
BY DEF TypeOK, Members, Files

\* The same of the next state.
LEMMA TypesNext ==
    TypeOK' <=> /\ obj' \in [Objs -> Members] /\ file' \in [Fds -> Files]
                /\ raw' \subseteq Fds /\ lost' \subseteq Fds /\ hit' \in BOOLEAN /\ sets' \in 0..MaxSets
                /\ \A o \in Objs \ Udps : ~obj'[o].stale
BY DEF TypeOK, Members, Files

\* The objects and the descriptors.
LEMMA Constants ==
    /\ Objs = Streams \cup Listens \cup Udps /\ None \notin Fds
    /\ \A o \in Objs : Type(o) \in {"stream", "dgram"} /\ Object(None) \in Members
    /\ Gone \in Members /\ MaxSets \in Nat
    /\ \A f \in Fds : Object(f) \in Members
BY SocketAssumption DEF Objs, Type, Object, Members, Gone
-----------------------------------------------------------------------------
\* What SocketsIInv says of a state from which a step is taken.
LEMMA Holds ==
    ASSUME SocketsIInv, ~hit
    PROVE  /\ OneOwner /\ StateIsTrue /\ RestIsOpen
           /\ obj \in [Objs -> Members] /\ file \in [Fds -> Files]
           /\ \A o \in Objs \ Udps : ~obj[o].stale
BY Types DEF SocketsIInv

\* A new object over a socket that has just been opened.
LEMMA OpenedStep ==
    ASSUME SocketsIInv, ~hit, UNCHANGED <<raw, lost, hit, sets>>,
           NEW o \in Objs, NEW f \in Fds, Opens(f, Type(o)), Constructed(o, f)
    PROVE  SocketsIInv'
<1>1. TypeOK'
  BY Types, TypesNext, NewSocket, Constants DEF SocketsIInv, Opens, Constructed, Object
<1>2. OneOwner'
  BY Holds, NewSocket, Constants DEF OneOwner, Owns, Valid, FileOf, RestIsOpen, Opens, Constructed, Object
<1>3. StateIsTrue'
  BY SocketAssumption, Holds, NewSocket, Constants DEF OneOwner, Owns, StateIsTrue, Valid, FileOf, RestIsOpen, Opens, Constructed, Object
<1>4. RestIsOpen'
  BY Holds, NewSocket, Constants DEF RestIsOpen, Opens
<1> QED BY <1>1, <1>2, <1>3, <1>4 DEF SocketsIInv

\* A new object without a descriptor.
LEMMA EmptyStep ==
    ASSUME SocketsIInv, ~hit, UNCHANGED <<file, raw, lost, hit, sets>>,
           NEW o \in Objs, Constructed(o, None)
    PROVE  SocketsIInv'
<1>1. TypeOK'
  BY Types, TypesNext, Constants DEF SocketsIInv, Constructed, Object
<1>2. OneOwner'
  BY Holds, Constants DEF OneOwner, Owns, Valid, FileOf, Constructed, Object
<1>3. StateIsTrue'
  BY SocketAssumption, Holds, Constants DEF StateIsTrue, Valid, FileOf, Constructed, Object
<1>4. RestIsOpen'
  BY Holds DEF RestIsOpen, Closed, Socket
<1> QED BY <1>1, <1>2, <1>3, <1>4 DEF SocketsIInv

\* A descriptor of the application becomes an object's.
LEMMA AttachedStep ==
    ASSUME SocketsIInv, ~hit, UNCHANGED <<file, lost, hit, sets>>,
           NEW o \in Streams \cup Udps, NEW f \in raw, file[f].type = Type(o),
           Constructed(o, f), raw' = raw \ {f}
    PROVE  SocketsIInv'
<1> o \in Objs /\ o \notin Listens /\ f \in Fds /\ f # None
  BY Types, Constants, SocketAssumption DEF SocketsIInv
<1>1. TypeOK'
  BY Types, TypesNext, Constants DEF SocketsIInv, Constructed, Object
<1>2. OneOwner'
  BY Holds, Constants DEF OneOwner, Owns, Valid, FileOf, RestIsOpen, Constructed, Object
<1>3. StateIsTrue'
  BY Holds, Constants DEF StateIsTrue, Valid, FileOf, Constructed, Object
<1>4. RestIsOpen'
  BY Holds DEF RestIsOpen, Closed, Socket
<1> QED BY <1>1, <1>2, <1>3, <1>4 DEF SocketsIInv
-----------------------------------------------------------------------------
\* A move hands the descriptor over, and the state that goes with it.
LEMMA MovedStep ==
    ASSUME SocketsIInv, ~hit, NEW o \in Objs, NEW p \in Objs, SameClass(o, p), obj[p].alive,
           obj' = [obj EXCEPT ![o] = Moved(o, p), ![p] = MovedFrom(p)],
           UNCHANGED <<file, raw, hit, sets>>,
           lost' = lost \cup (IF obj[o].alive /\ Valid(o) /\ ~obj[o].stale THEN {obj[o].sockfd_} ELSE {})
    PROVE  SocketsIInv'
<1>1. /\ Type(o) = Type(p) /\ (o \in Listens <=> p \in Listens) /\ (o \in Udps <=> p \in Udps)
      /\ Listens \subseteq Objs \ Udps
  BY SocketAssumption DEF SameClass, Type, Objs
<1>2. /\ Moved(o, p) \in Members /\ MovedFrom(p) \in Members
      /\ Moved(o, p).sockfd_ = obj[p].sockfd_ /\ Moved(o, p).stale = obj[p].stale
      /\ Moved(o, p).state_ = obj[p].state_
      /\ MovedFrom(p).sockfd_ = None /\ MovedFrom(p).stale = FALSE
      /\ MovedFrom(p).state_ \in {0, obj[p].state_}
  <2>1. obj[p] \in Members
    BY Holds
  <2>2. PICK s \in 0..3 : s \in {0, obj[p].state_} /\ MovedFrom(p) = [obj[p] EXCEPT !.sockfd_ = None, !.stale = FALSE, !.state_ = s]
    <3>1. CASE p \in Udps
      BY <2>1, <3>1 DEF MovedFrom, Members
    <3>2. CASE p \notin Udps
      <4>1. MovedFrom(p) = [obj[p] EXCEPT !.sockfd_ = None, !.stale = FALSE, !.state_ = obj[p].state_]
        BY <2>1, <3>2 DEF MovedFrom, Members
      <4> QED BY <2>1, <4>1 DEF Members
    <3> QED BY <3>1, <3>2
  <2> QED BY <2>1, <2>2 DEF Moved, Members
<1>3. TypeOK'
  <2>1. lost' \subseteq Fds
    BY Holds, Types DEF SocketsIInv, Valid, Members
  <2>2. obj' \in [Objs -> Members]
    BY <1>2, Holds
  <2>3. \A q \in Objs : q \notin Udps => ~obj'[q].stale
    BY <1>1, <1>2, Holds
  <2> QED BY <2>1, <2>2, <2>3, Types, TypesNext DEF SocketsIInv
<1>4. OneOwner'
  BY <1>1, <1>2, Holds DEF OneOwner, Owns, Valid, FileOf
<1>5. StateIsTrue'
  BY <1>1, <1>2, Holds DEF StateIsTrue, Valid, FileOf
<1>6. RestIsOpen'
  BY Holds, Constants, NewSocket DEF RestIsOpen, OneOwner, Owns, Valid, FileOf
<1> QED BY <1>3, <1>4, <1>5, <1>6 DEF SocketsIInv

\* The descriptor of an object is closed, or the object has none: it owns
\* nothing any more, and nobody else is touched unless `hit' is set.
LEMMA ClosedStep ==
    ASSUME SocketsIInv, ~hit, NEW o \in Objs, CloseFile(o), NEW m \in Members,
           obj' = [obj EXCEPT ![o] = m], m.sockfd_ = None \/ m.stale \/ ~m.alive,
           m.stale => o \in Udps,
           UNCHANGED <<raw, lost, sets>>
    PROVE  SocketsIInv'
<1>1. hit' \in BOOLEAN /\ file' \in [Fds -> Files] /\ \A f \in Fds : file'[f] \in {file[f], Closed}
  BY Holds, NewSocket DEF CloseFile, Valid, Members
<1>2. TypeOK'
  BY <1>1, Types, TypesNext DEF SocketsIInv
<1>a. ~Owns(o)' /\ \A p \in Objs \ {o} : obj'[p] = obj[p]
  BY Holds DEF Owns, Valid
<1>b. ASSUME ~hit' PROVE file' = file \/ (Owns(o) /\ file' = [file EXCEPT ![obj[o].sockfd_] = Closed])
  <2>1. CASE Valid(o) /\ obj[o].stale
    BY <1>b, <2>1, Holds DEF CloseFile, FileOf, Valid, Members
  <2>2. CASE ~Valid(o) \/ ~obj[o].stale
    BY <2>2 DEF CloseFile, Owns
  <2> QED BY <2>1, <2>2
<1>3. ASSUME ~hit' PROVE OneOwner'
  <2> SUFFICES ASSUME NEW p \in Objs, Owns(p)'
               PROVE  /\ FileOf(p)'.type = Type(p) /\ obj'[p].sockfd_ \notin raw \cup lost
                      /\ \A q \in Objs \ {p} : Owns(q)' => obj'[q].sockfd_ # obj'[p].sockfd_
    BY DEF OneOwner
  <2>1. p # o /\ Owns(p) /\ obj[p].sockfd_ \in Fds /\ obj'[p] = obj[p]
    BY <1>a, Holds DEF Owns, Valid, Members
  <2>2. file'[obj[p].sockfd_] = file[obj[p].sockfd_]
    BY <1>3, <1>b, <2>1, Holds DEF OneOwner
  <2>3. \A q \in Objs : Owns(q)' => q # o /\ Owns(q) /\ obj'[q] = obj[q]
    BY <1>a DEF Owns, Valid
  <2> QED BY <2>1, <2>2, <2>3, Holds DEF OneOwner, FileOf
<1>4. ASSUME ~hit' PROVE StateIsTrue'
  <2> SUFFICES ASSUME NEW l \in Listens, Valid(l)' PROVE obj'[l].state_ = file'[obj'[l].sockfd_].stage
    BY DEF StateIsTrue, FileOf
  <2>1. l \in Objs \ Udps /\ Owns(l)' /\ l # o
    BY Constants, SocketAssumption, <1>2, <1>a, TypesNext DEF Owns
  <2>2. Valid(l) /\ Owns(l) /\ obj[l].state_ = FileOf(l).stage /\ obj[l].sockfd_ \in Fds /\ obj'[l] = obj[l]
    BY <1>a, <2>1, Holds DEF Owns, Valid, StateIsTrue, Members
  <2>3. file'[obj[l].sockfd_] = file[obj[l].sockfd_]
    BY <1>4, <1>b, <2>1, <2>2, Holds DEF OneOwner
  <2> QED BY <2>2, <2>3 DEF FileOf
<1>5. ASSUME ~hit' PROVE RestIsOpen'
  <2>1. CASE file' = file
    BY <2>1, Holds DEF RestIsOpen, Closed, Socket
  <2>2. CASE Owns(o) /\ file' = [file EXCEPT ![obj[o].sockfd_] = Closed]
    BY <2>2, Holds, NewSocket DEF OneOwner, RestIsOpen, Owns, Valid, Members
  <2> QED BY <1>5, <1>b, <2>1, <2>2
<1> QED BY <1>2, <1>3, <1>4, <1>5 DEF SocketsIInv

\* A socket advances, or changes an option: only its object, or a stale one, sees it.
LEMMA UsedStep ==
    ASSUME SocketsIInv, ~hit, NEW o \in Objs, Valid(o), FileOf(o) # Closed,
           NEW s \in Files, s.type = FileOf(o).type, NEW m \in Members, NEW k \in 0..MaxSets,
           file' = [file EXCEPT ![obj[o].sockfd_] = s], obj' = [obj EXCEPT ![o] = m],
           m.alive = obj[o].alive, m.sockfd_ = obj[o].sockfd_, m.stale = obj[o].stale,
           o \in Listens => (m.state_ - s.stage = obj[o].state_ - FileOf(o).stage),
           hit' = obj[o].stale, sets' = k, UNCHANGED <<raw, lost>>
    PROVE  SocketsIInv'
<1>1. obj[o].sockfd_ \in Fds /\ hit' \in BOOLEAN /\ s # Closed /\ FileOf(o).type # "closed"
  BY Holds, NewSocket DEF Valid, FileOf, RestIsOpen, Members
<1>2. TypeOK'
  BY <1>1, Types, TypesNext DEF SocketsIInv
<1>3. ASSUME ~hit' PROVE OneOwner'
  BY <1>1, <1>3, Holds DEF OneOwner, Owns, Valid, FileOf
<1>4. ASSUME ~hit' PROVE StateIsTrue'
  <2> SUFFICES ASSUME NEW l \in Listens, Valid(l)' PROVE obj'[l].state_ = file'[obj'[l].sockfd_].stage
    BY DEF StateIsTrue, FileOf
  <2>1. l \in Objs \ Udps /\ Valid(l) /\ obj[l].state_ = FileOf(l).stage
    BY Constants, SocketAssumption, Holds DEF Valid, StateIsTrue
  <2>2. CASE l = o
    BY <1>1, <2>1, <2>2, Holds DEF FileOf, Files, Members
  <2>3. CASE l # o
    BY <1>1, <1>4, <2>1, <2>3, Holds DEF FileOf, OneOwner, Owns
  <2> QED BY <2>2, <2>3
<1>5. ASSUME ~hit' PROVE RestIsOpen'
  BY <1>1, <1>5, Holds, NewSocket DEF RestIsOpen, FileOf
<1> QED BY <1>2, <1>3, <1>4, <1>5 DEF SocketsIInv
-----------------------------------------------------------------------------
\* Every call keeps the invariant.
LEMMA ObjectNext ==
    ASSUME SocketsIInv, ~hit, NEW o \in Objs, OfObject(o)
    PROVE  SocketsIInv'
<1>1. ASSUME NEW family \in Families, Create(o, family) PROVE SocketsIInv'
  BY <1>1, OpenedStep, EmptyStep DEF Create
<1>2. CASE ConnectRaw(o)
  BY <1>2, OpenedStep, EmptyStep, SocketAssumption DEF ConnectRaw, CloseUnconnected, Type
<1>3. CASE Close(o)
  <2> DEFINE m == IF o \in Udps THEN ClosedUdp(o) ELSE ClosedTcp(o)
  <2>1. obj[o] \in Members
    BY Holds
  <2>2. m \in Members /\ (o \notin Udps => m.stale = obj[o].stale)
    BY <2>1, NewSocket DEF ClosedUdp, ClosedTcp, Members
  <2>3. o \notin Udps => ~obj[o].stale
    BY Holds
  <2>4. m.sockfd_ = None \/ m.stale \/ ~m.alive
    <3>1. CASE o \in Udps
      BY <2>1, <3>1 DEF ClosedUdp, Members
    <3>2. CASE o \notin Udps
      <4>1. Valid(o) => FileOf(o) # Closed
        BY <2>3, <3>2, Holds, NewSocket, Constants DEF OneOwner, Owns
      <4> QED BY <2>1, <3>2, <4>1, <1>3 DEF ClosedTcp, Members, Valid, Close
    <3> QED BY <3>1, <3>2
  <2> HIDE DEF m
  <2> QED BY <1>3, <2>1, <2>2, <2>3, <2>4, ClosedStep DEF Close, m
<1>4. CASE Destroy(o)
  <2>1. Gone \in Members /\ Gone.sockfd_ = None /\ ~Gone.stale
    BY DEF Gone, Members
  <2> QED BY <1>4, <2>1, ClosedStep DEF Destroy
<1>5. CASE ListenBind(o) \/ ListenListen(o)
  <2> PICK n \in {1, 2} : o \in Listens /\ obj[o].state_ = n - 1 /\ Advances(o, n)
                           /\ obj' = [obj EXCEPT ![o].state_ = n] /\ UNCHANGED <<raw, lost, hit, sets>>
    BY <1>5 DEF ListenBind, ListenListen
  <2> DEFINE s == [FileOf(o) EXCEPT !.stage = n]  m == [obj[o] EXCEPT !.state_ = n]
  <2>1. obj[o] \in Members /\ obj[o].sockfd_ \in Fds /\ FileOf(o) \in Files /\ ~obj[o].stale
    BY Holds, SocketAssumption DEF Advances, Valid, FileOf, Members
  <2>2. s \in Files /\ s.type = FileOf(o).type /\ s.stage = n
    BY <2>1 DEF Files
  <2>3. m \in Members /\ m.alive = obj[o].alive /\ m.sockfd_ = obj[o].sockfd_ /\ m.stale = obj[o].stale /\ m.state_ = n
    BY <2>1 DEF Members
  <2>4. Valid(o) /\ FileOf(o) # Closed /\ FileOf(o).stage = n - 1
    <3>1. Type(o) # "closed"
      BY Constants
    <3> QED BY <3>1, NewSocket DEF Advances
  <2>6. hit' = obj[o].stale /\ sets' \in 0..MaxSets /\ UNCHANGED <<raw, lost>>
    <3>1. hit' = hit /\ hit = FALSE /\ obj[o].stale = FALSE
      BY <2>1, Types DEF SocketsIInv, Members
    <3> QED BY <3>1, Types DEF SocketsIInv
  <2>7. m.state_ - s.stage = obj[o].state_ - FileOf(o).stage
    BY <2>2, <2>3, <2>4
  <2>5. file' = [file EXCEPT ![obj[o].sockfd_] = s] /\ obj' = [obj EXCEPT ![o] = m]
    BY Holds DEF Advances, FileOf
  <2> HIDE DEF s, m
  <2> QED BY <2>1, <2>2, <2>3, <2>4, <2>5, <2>6, <2>7, UsedStep
<1>6. CASE UdpBind(o) \/ UdpConnect(o)
  <2> PICK n \in {1, 2} : o \in Udps /\ Valid(o) /\ FileOf(o).type = "dgram" /\ hit' = obj[o].stale
                           /\ file' = [file EXCEPT ![obj[o].sockfd_].stage = n] /\ UNCHANGED <<obj, raw, lost, sets>>
    BY <1>6 DEF UdpBind, UdpConnect, Advances, Type
  <2> DEFINE s == [FileOf(o) EXCEPT !.stage = n]
  <2>1. obj[o] \in Members /\ obj[o].sockfd_ \in Fds /\ FileOf(o) \in Files /\ sets \in 0..MaxSets
    BY Holds, Types DEF Valid, FileOf, Members, SocketsIInv
  <2>2. s \in Files /\ s.type = FileOf(o).type
    BY <2>1 DEF Files
  <2>3. o \notin Listens /\ FileOf(o) # Closed
    BY Holds, SocketAssumption, NewSocket
  <2>4. file' = [file EXCEPT ![obj[o].sockfd_] = s] /\ obj' = [obj EXCEPT ![o] = obj[o]]
    BY Holds DEF FileOf
  <2> HIDE DEF s
  <2> QED BY <2>1, <2>2, <2>3, <2>4, UsedStep
<1>7. ASSUME NEW f \in Fds, Attach(o, f) PROVE SocketsIInv'
  BY <1>7, AttachedStep, EmptyStep DEF Attach
<1>8. ASSUME NEW p \in Objs, Accept(o, p) PROVE SocketsIInv'
  BY <1>8, OpenedStep, EmptyStep, SocketAssumption DEF Accept, Type
<1>9. ASSUME NEW p \in Objs, MoveConstruct(o, p) \/ MoveAssign(o, p) PROVE SocketsIInv'
  <2>1. lost' = lost \cup (IF obj[o].alive /\ Valid(o) /\ ~obj[o].stale THEN {obj[o].sockfd_} ELSE {})
    BY <1>9 DEF MoveConstruct, MoveAssign
  <2> QED BY <1>9, <2>1, MovedStep DEF MoveConstruct, MoveAssign
<1>10. ASSUME NEW option \in {"addr", "port"}, NEW enable \in BOOLEAN, SetReuse(o, option, enable) PROVE SocketsIInv'
  <2> DEFINE s == [FileOf(o) EXCEPT !.reuse[OptionSet(o, option)] = enable, !.asked[option] = enable]
  <2>1. obj[o] \in Members /\ obj[o].sockfd_ \in Fds /\ FileOf(o) \in Files /\ sets \in 0..MaxSets
    BY <1>10, Holds, Types DEF SetReuse, Valid, FileOf, Members, SocketsIInv
  <2>2. s \in Files /\ s.type = FileOf(o).type /\ s.stage = FileOf(o).stage
    BY <2>1 DEF Files, Reuse, OptionSet
  <2>3. Valid(o) /\ FileOf(o) # Closed /\ hit' = obj[o].stale /\ sets' \in 0..MaxSets
    BY <1>10, <2>1, Holds, Constants DEF SetReuse
  <2>4. file' = [file EXCEPT ![obj[o].sockfd_] = s] /\ obj' = [obj EXCEPT ![o] = obj[o]] /\ UNCHANGED <<raw, lost>>
    BY <1>10, Holds DEF SetReuse, FileOf
  <2>5. obj[o].state_ - s.stage = obj[o].state_ - FileOf(o).stage
    BY <2>2
  <2> HIDE DEF s
  <2> QED BY <2>1, <2>2, <2>3, <2>4, <2>5, UsedStep
<1> QED BY <1>1, <1>2, <1>3, <1>4, <1>5, <1>6, <1>7, <1>8, <1>9, <1>10 DEF OfObject

\* The application's own descriptors stay apart from the objects'.
LEMMA RawNext ==
    ASSUME SocketsIInv, ~hit, NEW f \in Fds, Raw(f)
    PROVE  SocketsIInv'
<1>1. ASSUME NEW type \in {"stream", "dgram"}, RawOpen(f, type) PROVE SocketsIInv'
  <2>1. TypeOK'
    BY <1>1, Types, TypesNext, NewSocket DEF SocketsIInv, RawOpen, Opens
  <2>2. OneOwner'
    BY <1>1, Holds, NewSocket, Constants DEF OneOwner, Owns, Valid, FileOf, RawOpen, Opens
  <2>3. StateIsTrue'
    BY <1>1, Holds, NewSocket, SocketAssumption, Constants DEF OneOwner, Owns, StateIsTrue, Valid, FileOf, RawOpen, Opens
  <2>4. RestIsOpen'
    BY <1>1, Holds, NewSocket DEF RestIsOpen, RawOpen, Opens
  <2> QED BY <2>1, <2>2, <2>3, <2>4 DEF SocketsIInv
<1>2. CASE RawClose(f)
  <2>1. TypeOK'
    BY <1>2, Types, TypesNext, NewSocket DEF SocketsIInv, RawClose
  <2>2. OneOwner'
    BY <1>2, Holds, Constants DEF OneOwner, Owns, Valid, FileOf, RawClose
  <2>3. StateIsTrue'
    BY <1>2, Holds, SocketAssumption, Constants DEF OneOwner, Owns, StateIsTrue, Valid, FileOf, RawClose
  <2>4. RestIsOpen'
    BY <1>2, Holds, NewSocket DEF RestIsOpen, RawClose
  <2> QED BY <2>1, <2>2, <2>3, <2>4 DEF SocketsIInv
<1> QED BY <1>1, <1>2 DEF Raw

LEMMA SocketsIInvInit == Init => SocketsIInv
<1> SUFFICES ASSUME Init PROVE SocketsIInv
    OBVIOUS
<1>1. TypeOK
  <2>1. ~Gone.stale
    BY DEF Gone
  <2>2. obj \in [Objs -> Members] /\ file \in [Fds -> Files]
    BY NewSocket, Constants DEF Init
  <2>3. raw = {} /\ lost = {} /\ hit = FALSE /\ sets \in 0..MaxSets
    BY SocketAssumption DEF Init
  <2>4. \A o \in Objs : obj[o] = Gone
    BY DEF Init
  <2> QED BY <2>1, <2>2, <2>3, <2>4, Types
<1>2. OneOwner /\ StateIsTrue /\ RestIsOpen
  BY Constants DEF Init, Gone, OneOwner, StateIsTrue, RestIsOpen, Owns, Valid, Closed, Socket
<1> QED BY <1>1, <1>2 DEF SocketsIInv

LEMMA SocketsIInvNext == SocketsIInv /\ [Next]_vars => SocketsIInv'
<1>1. CASE UNCHANGED vars
  BY <1>1 DEF vars, SocketsIInv, TypeOK, OneOwner, StateIsTrue, RestIsOpen, Owns, Valid, FileOf, Closed, Socket
<1> QED BY <1>1, ObjectNext, RawNext DEF Next

\* Whatever is created, moved and closed, by whatever calls in whatever order,
\* each descriptor has one owner, and a TcpListen is in the state it claims.
THEOREM OneOwnerPerDescriptor == Spec => []SocketsInv
<1>1. SocketsIInv => SocketsInv
  BY DEF SocketsIInv, SocketsInv
<1> QED BY <1>1, SocketsIInvInit, SocketsIInvNext, PTL DEF Spec
-----------------------------------------------------------------------------
\* Who has an open descriptor still has it, or has passed it on, when a call
\* changes one object and leaves the files of the others alone.
LEMMA StillHeld ==
    ASSUME SocketsIInv, ~hit, NothingElseLost, NEW o \in Objs,
           \A p \in Objs \ {o} : obj'[p] = obj[p],
           raw \subseteq raw' \cup lost' \cup {obj'[q].sockfd_ : q \in {r \in Objs : Owns(r)'}},
           lost \subseteq lost',
           Owns(o) => \/ Owns(o)' /\ obj'[o].sockfd_ = obj[o].sockfd_
                      \/ file'[obj[o].sockfd_] = Closed \/ obj[o].sockfd_ \in lost',
           \A f \in Fds : file[f] = Closed /\ file'[f] # Closed
               => f \in raw' \/ (Owns(o)' /\ obj'[o].sockfd_ = f)
    PROVE  NothingElseLost'
<1> SUFFICES ASSUME NEW f \in Fds, file'[f] # Closed
             PROVE  f \in raw' \cup lost' \/ \E p \in Objs : Owns(p)' /\ obj'[p].sockfd_ = f
    BY DEF NothingElseLost, Closed, Socket
<1>1. CASE file[f] = Closed
  BY <1>1
<1>2. CASE f \in raw \cup lost
  BY <1>2
<1>3. ASSUME NEW p \in Objs, Owns(p), obj[p].sockfd_ = f
      PROVE  f \in raw' \cup lost' \/ \E q \in Objs : Owns(q)' /\ obj'[q].sockfd_ = f
  BY <1>3 DEF Owns, Valid
<1> QED BY <1>1, <1>2, <1>3 DEF NothingElseLost

\* No call on an object loses a descriptor, but operator= (lost).
LEMMA ObjectLosesNothing ==
    ASSUME SocketsIInv, ~hit, NothingElseLost, NEW o \in Objs, OfObject(o)
    PROVE  ~hit' => NothingElseLost'
<1>a. /\ obj \in [Objs -> Members] /\ file \in [Fds -> Files]
      /\ \A p \in Objs : Owns(p) => obj[p].sockfd_ \in Fds
  BY Holds DEF Owns, Valid, Members
<1>1. ASSUME NEW p \in Objs, NEW f \in Fds, NEW type, Opens(f, type), Constructed(p, f), UNCHANGED <<raw, lost>>
      PROVE  NothingElseLost'
  <2>1. /\ \A q \in Objs \ {p} : obj'[q] = obj[q]
        /\ ~Owns(p) /\ Owns(p)' /\ obj'[p].sockfd_ = f
    BY <1>1, <1>a, Constants DEF Constructed, Object, Owns, Valid
  <2>2. \A g \in Fds : g # f => file'[g] = file[g]
    BY <1>1, <1>a DEF Opens
  <2> QED BY <1>1, <2>1, <2>2, StillHeld
<1>2. ASSUME NEW p \in Objs, Constructed(p, None), UNCHANGED <<file, raw, lost>> PROVE NothingElseLost'
  <2>1. ~Owns(p) /\ \A q \in Objs \ {p} : obj'[q] = obj[q]
    BY <1>2, <1>a DEF Constructed, Owns, Valid
  <2> QED BY <1>2, <2>1, StillHeld
<1>3. ASSUME NEW family \in Families, Create(o, family) PROVE NothingElseLost'
  BY <1>1, <1>2, <1>3 DEF Create
<1>4. CASE ConnectRaw(o)
  BY <1>1, <1>2, <1>4 DEF ConnectRaw, CloseUnconnected
<1>5. ASSUME NEW p \in Objs, Accept(o, p) PROVE NothingElseLost'
  BY <1>1, <1>2, <1>5 DEF Accept
<1>6. ASSUME NEW f \in Fds, Attach(o, f) PROVE NothingElseLost'
  <2>1. CASE Constructed(o, f) /\ raw' = raw \ {f}
    <3>1. /\ \A q \in Objs \ {o} : obj'[q] = obj[q]
          /\ ~Owns(o) /\ Owns(o)' /\ obj'[o].sockfd_ = f
      BY <2>1, <1>a, Constants DEF Constructed, Object, Owns, Valid
    <3> QED BY <1>6, <2>1, <3>1, StillHeld DEF Attach
  <2> QED BY <1>2, <1>6, <2>1 DEF Attach
<1>7. ASSUME NEW p \in Objs, MoveConstruct(o, p) \/ MoveAssign(o, p) PROVE NothingElseLost'
  <2>1. /\ obj' = [obj EXCEPT ![o] = Moved(o, p), ![p] = MovedFrom(p)]
        /\ UNCHANGED <<file, raw>> /\ obj[p].alive
        /\ lost' = lost \cup (IF Owns(o) THEN {obj[o].sockfd_} ELSE {})
    BY <1>7 DEF MoveConstruct, MoveAssign, Owns, Valid
  <2>2. Moved(o, p).alive /\ Moved(o, p).sockfd_ = obj[p].sockfd_ /\ Moved(o, p).stale = obj[p].stale
    BY <1>a DEF Moved, Members
  <2> SUFFICES ASSUME NEW f \in Fds, file[f] # Closed
               PROVE  f \in raw \cup lost' \/ \E r \in Objs : Owns(r)' /\ obj'[r].sockfd_ = f
    BY <2>1 DEF NothingElseLost, Closed, Socket
  <2>3. ASSUME NEW q \in Objs, Owns(q), obj[q].sockfd_ = f
        PROVE  f \in lost' \/ \E r \in Objs : Owns(r)' /\ obj'[r].sockfd_ = f
    <3>1. CASE q = o
      BY <2>1, <2>3, <3>1
    <3>2. CASE q = p /\ q # o
      <4>1. Owns(o)' /\ obj'[o].sockfd_ = f
        BY <1>a, <2>1, <2>2, <2>3, <3>2 DEF Owns, Valid
      <4> QED BY <4>1
    <3>3. CASE q # o /\ q # p
      <4>1. obj'[q] = obj[q]
        BY <1>a, <2>1, <3>3
      <4> QED BY <2>3, <4>1 DEF Owns, Valid
    <3> QED BY <3>1, <3>2, <3>3
  <2> QED BY <2>1, <2>3 DEF NothingElseLost
<1>8. ASSUME Close(o) \/ Destroy(o), ~hit' PROVE NothingElseLost'
  <2>1. CloseFile(o) /\ UNCHANGED <<raw, lost>> /\ \A q \in Objs \ {o} : obj'[q] = obj[q]
    BY <1>8, <1>a DEF Close, Destroy
  <2>2. Owns(o) => file'[obj[o].sockfd_] = Closed
    BY <1>a, <2>1 DEF CloseFile, Owns
  <2>3. \A f \in Fds : file'[f] # Closed => file[f] # Closed
    BY <1>a, <2>1, NewSocket DEF CloseFile
  <2> QED BY <2>1, <2>2, <2>3, StillHeld
<1>9. ASSUME NEW s, file' = [file EXCEPT ![obj[o].sockfd_] = s], FileOf(o) # Closed, UNCHANGED <<raw, lost>>,
             \A p \in Objs : obj'[p].alive = obj[p].alive /\ obj'[p].sockfd_ = obj[p].sockfd_ /\ obj'[p].stale = obj[p].stale
      PROVE  NothingElseLost'
  <2>1. \A p \in Objs : Owns(p)' <=> Owns(p)
    BY <1>9 DEF Owns, Valid
  <2>2. \A f \in Fds : file'[f] # Closed => file[f] # Closed
    BY <1>9, <1>a DEF FileOf
  <2> SUFFICES ASSUME NEW f \in Fds, file'[f] # Closed
               PROVE  f \in raw \cup lost \/ \E p \in Objs : Owns(p)' /\ obj'[p].sockfd_ = f
    BY <1>9 DEF NothingElseLost, Closed, Socket
  <2> QED BY <1>9, <2>1, <2>2 DEF NothingElseLost
<1>10. CASE ListenBind(o) \/ ListenListen(o) \/ UdpBind(o) \/ UdpConnect(o)
  <2>1. FileOf(o) # Closed /\ UNCHANGED <<raw, lost>>
    BY <1>10, NewSocket, Constants DEF ListenBind, ListenListen, UdpBind, UdpConnect, Advances
  <2>2. PICK n \in {1, 2} : file' = [file EXCEPT ![obj[o].sockfd_].stage = n]
    BY <1>10 DEF ListenBind, ListenListen, UdpBind, UdpConnect, Advances
  <2>3. file' = [file EXCEPT ![obj[o].sockfd_] = [FileOf(o) EXCEPT !.stage = n]]
    BY <2>2, <1>a DEF FileOf
  <2>4. \A p \in Objs : obj'[p].alive = obj[p].alive /\ obj'[p].sockfd_ = obj[p].sockfd_ /\ obj'[p].stale = obj[p].stale
    BY <1>10, <1>a DEF ListenBind, ListenListen, UdpBind, UdpConnect, Members
  <2> QED BY <2>1, <2>3, <2>4, <1>9
<1>11. ASSUME NEW option \in {"addr", "port"}, NEW enable \in BOOLEAN, SetReuse(o, option, enable) PROVE NothingElseLost'
  <2>1. FileOf(o) # Closed /\ UNCHANGED <<obj, raw, lost>>
    BY <1>11 DEF SetReuse
  <2>2. file' = [file EXCEPT ![obj[o].sockfd_] =
                    [FileOf(o) EXCEPT !.reuse[OptionSet(o, option)] = enable, !.asked[option] = enable]]
    BY <1>11, <1>a DEF SetReuse, FileOf
  <2> QED BY <2>1, <2>2, <1>9
<1> QED BY <1>3, <1>4, <1>5, <1>6, <1>7, <1>8, <1>10, <1>11 DEF OfObject

\* The application closes what it holds, and holds what it opens.
LEMMA RawLosesNothing ==
    ASSUME SocketsIInv, ~hit, NothingElseLost, NEW f \in Fds, Raw(f)
    PROVE  NothingElseLost'
<1> file \in [Fds -> Files]
  BY Holds
<1> SUFFICES ASSUME NEW g \in Fds, file'[g] # Closed
             PROVE  g \in raw' \cup lost' \/ \E p \in Objs : Owns(p)' /\ obj'[p].sockfd_ = g
    BY DEF NothingElseLost, Closed, Socket
<1>1. UNCHANGED <<obj, lost>>
  BY DEF Raw, RawOpen, RawClose
<1>2. (file[g] # Closed /\ (g \in raw => g \in raw')) \/ g \in raw'
  BY DEF Raw, RawOpen, RawClose, Opens
<1> QED BY <1>1, <1>2 DEF NothingElseLost, Owns, Valid

\* A descriptor whose owner is closed or destroyed, or that a call could not
\* use, is closed: only operator= loses one.
THEOREM NothingLostButByAssignment == Spec => []NothingElseLost
<1>1. Init => NothingElseLost
  BY DEF Init, NothingElseLost
<1>2. SocketsIInv /\ NothingElseLost /\ [Next]_vars => NothingElseLost'
  <2> SUFFICES ASSUME SocketsIInv, NothingElseLost, [Next]_vars, ~hit' PROVE NothingElseLost'
      BY DEF NothingElseLost
  <2>1. CASE UNCHANGED vars
    BY <2>1 DEF vars, NothingElseLost, Owns, Valid, Closed, Socket
  <2> QED BY <2>1, ObjectLosesNothing, RawLosesNothing DEF Next
<1> QED BY <1>1, <1>2, SocketsIInvInit, SocketsIInvNext, PTL DEF Spec
=============================================================================
