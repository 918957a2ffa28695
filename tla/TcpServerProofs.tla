-------------------------- MODULE TcpServerProofs --------------------------
(***************************************************************************)
(* What TcpServer guarantees for any loops, connections, descriptors and   *)
(* queue lengths: exactly one functor destroys a closed connection, the    *)
(* registry and the pollers keep what is theirs under reuse of             *)
(* descriptors, no channel is destroyed while a loop may still handle it,  *)
(* and each connection lives as ConnectionLife says.                       *)
(***************************************************************************)
EXTENDS TcpServer, SequenceTheorems, TLAPS

Entered(c) == c # accepting \/ Base \notin inRegistry

\* connectFunc_ has been called.
Began(c) == conn[c].state_ \in {"Connected", "Disconnected"}

\* What each phase of a loop, and of the server, leaves no room for.
LoopsInv ==
    /\ connLoops \in {{Base}, SubLoops}
    /\ \A l \in Loops :
        /\ phase[l] # "functors" => batch[l] = <<>> /\ at[l] = 1
        /\ phase[l] # "handle" => active[l] = {} /\ current[l].c = NoConn
        /\ current[l].c = NoConn => current[l].todo = {} /\ ~current[l].message
        /\ "read" \in current[l].todo \/ current[l].message => current[l].open
        /\ l \in inRegistry => (l = Base /\ accepting # NoConn) \/ NextIs(l, "destroy")
        /\ server = "up" => phase[l] # "stopped"
        /\ l # Base /\ phase[l] = "stopped" => queue[l] = <<>>
        /\ server = "gone" /\ l \in connLoops => phase[l] = "stopped"
    /\ accepting # NoConn => phase[Base] = "handle" /\ current[Base].c = NoConn
    /\ server # "up" => phase[Base] = "stopped"
    /\ server = "gone" => \A f \in Fds : rConnects_[f] = NoConn

\* A functor is queued in the loop of its connection, and after connectFunc_
\* unless it is the one that calls it.
OwnFunctor(l, p) ==
    IF p.op = "listen" THEN l = Base /\ p.c = NoConn
    ELSE /\ p.c \in Conns /\ conn[p.c].loop = l /\ conn[p.c].state_ # "none"
         /\ p.op # "establish" => Began(p.c)

FunctorsInv ==
    \A l \in Loops : /\ \A i \in DOMAIN queue[l] : OwnFunctor(l, queue[l][i])
                     /\ \A i \in DOMAIN batch[l] : OwnFunctor(l, batch[l][i])

\* What the state of a connection says of its members and of who knows it.
ConnInv ==
    \A c \in Conns :
        /\ conn[c].state_ # "none" => conn[c].loop \in connLoops
        /\ conn[c].events # {} => conn[c].state_ = "Connected"
        /\ conn[c].state_ = "Connected" => conn[c].polled
        /\ conn[c].polled => Began(c) /\ channels_[conn[c].loop][conn[c].fd] = c
        /\ c \in held \cup closing => Began(c)
        /\ c \in closing => Running(c)
        /\ c = accepting => conn[c].state_ # "none"
        /\ ~Entered(c) => conn[c].state_ = "Connecting" /\ rConnects_[conn[c].fd] = NoConn

\* The tables by descriptor: what they hold has that descriptor, and is in use.
TablesInv ==
    /\ \A l \in Loops, f \in Fds : LET c == channels_[l][f] IN
           c # NoConn => conn[c].fd = f /\ conn[c].loop = l /\ conn[c].polled
    /\ \A f \in Fds : LET c == rConnects_[f] IN
           c # NoConn => conn[c].fd = f /\ (conn[c].state_ = "Connecting" \/ conn[c].polled)
    /\ \A l \in Loops : \A c \in active[l] \cup ({current[l].c} \ {NoConn}) : channels_[l][conn[c].fd] = c

\* The inductive invariant.
ServerIInv == /\ TypeOK /\ LoopsInv /\ FunctorsInv /\ ConnInv /\ TablesInv
              /\ RegistryKeepsOwn /\ OneFunctorEach
-----------------------------------------------------------------------------
(* Sequences of functors                                                   *)

\* Where e stands in s.
Where(s, e) == {i \in DOMAIN s : s[i] = e}

\* The part of a batch that is left, in front of the queue.
Left(b, a, q) == SubSeq(b, a, Len(b)) \o q

\* s is the last n elements of b, the first of them at a, and then q.
LastAndAll(s, n, b, a, q) == /\ Len(s) = n + Len(q)
                             /\ \A i \in 1..n : s[i] = b[a+i-1]
                             /\ \A i \in 1..Len(q) : s[n+i] = q[i]

LEMMA LeftIsSeq ==
    ASSUME NEW S, NEW b \in Seq(S), NEW q \in Seq(S), NEW a \in 1..Len(b)+1,
           NEW n \in Nat, n = Len(b)+1-a
    PROVE  Left(b, a, q) \in Seq(S) /\ LastAndAll(Left(b, a, q), n, b, a, q)
<1> DEFINE s == SubSeq(b, a, Len(b))
<1>1. Len(b) \in Int /\ a \in Int /\ \A i \in a..Len(b) : b[i] \in S
  OBVIOUS
<1>2. /\ s \in Seq(S)
      /\ Len(s) = IF a <= Len(b) THEN Len(b)-a+1 ELSE 0
      /\ \A i \in 1..Len(b)-a+1 : s[i] = b[a+i-1]
  BY <1>1, SubSeqProperties
<1>3. Len(b)-a+1 = n
  OBVIOUS
<1> HIDE DEF s
<1>4. Len(s) = n /\ \A i \in 1..n : s[i] = b[a+i-1]
  BY <1>2, <1>3
<1>5. /\ s \o q \in Seq(S)
      /\ Len(s \o q) = Len(s) + Len(q)
      /\ \A i \in 1..Len(s)+Len(q) : (s \o q)[i] = IF i <= Len(s) THEN s[i] ELSE q[i-Len(s)]
  BY <1>2, ConcatProperties
<1>6. Len(q) \in Nat
  OBVIOUS
<1>7. ASSUME NEW i \in 1..Len(q) PROVE (s \o q)[n+i] = q[i]
  <2>1. n+i \in 1..n+Len(q) /\ ~(n+i <= n) /\ (n+i)-n = i
    BY <1>6
  <2> QED BY <1>4, <1>5, <2>1
<1>8. ASSUME NEW i \in 1..n PROVE (s \o q)[i] = b[a+i-1]
  <2>1. i \in 1..n+Len(q) /\ i <= n
    BY <1>6
  <2> QED BY <1>4, <1>5, <2>1
<1>9. Left(b, a, q) = s \o q
  BY DEF Left, s
<1> QED BY <1>4, <1>5, <1>7, <1>8, <1>9 DEF LastAndAll

LEMMA AppendElements ==
    ASSUME NEW S, NEW q \in Seq(S), NEW e \in S
    PROVE  \A i \in DOMAIN Append(q, e) : (i \in DOMAIN q /\ Append(q, e)[i] = q[i]) \/ Append(q, e)[i] = e
<1> DEFINE r == Append(q, e)
<1>1. /\ r \in Seq(S) /\ Len(r) = Len(q)+1
      /\ \A i \in 1..Len(q) : r[i] = q[i]
      /\ r[Len(q)+1] = e
  BY AppendProperties
<1> HIDE DEF r
<1>2. Len(q) \in Nat /\ DOMAIN q = 1..Len(q) /\ DOMAIN r = 1..Len(q)+1
  BY <1>1
<1>3. ASSUME NEW i \in 1..Len(q)+1 PROVE (i \in 1..Len(q) /\ r[i] = q[i]) \/ r[i] = e
  BY <1>1, <1>2
<1> QED BY <1>2, <1>3 DEF r

\* A functor is queued.
LEMMA LeftAppend ==
    ASSUME NEW S, NEW b \in Seq(S), NEW q \in Seq(S), NEW a \in 1..Len(b)+1, NEW e \in S
    PROVE  Left(b, a, Append(q, e)) = Append(Left(b, a, q), e)
<1>0. Len(b)+1-a \in Nat
  OBVIOUS
<1> PICK n \in Nat : n = Len(b)+1-a
  BY <1>0
<1> DEFINE m == Len(q)  r == Append(q, e)  x == Left(b, a, r)  y == Left(b, a, q)
<1>1. /\ r \in Seq(S) /\ Len(r) = m+1
      /\ \A i \in 1..m : r[i] = q[i]
      /\ r[m+1] = e
  BY AppendProperties
<1>5. m \in Nat
  OBVIOUS
<1> HIDE DEF m, r
<1>2. x \in Seq(S) /\ LastAndAll(x, n, b, a, r)
  BY <1>1, LeftIsSeq
<1>3. y \in Seq(S) /\ LastAndAll(y, n, b, a, q)
  BY LeftIsSeq
<1> DEFINE z == Append(y, e)
<1>4. /\ z \in Seq(S) /\ Len(z) = Len(y)+1
      /\ \A i \in 1..Len(y) : z[i] = y[i]
      /\ z[Len(y)+1] = e
  BY <1>3, AppendProperties
<1> HIDE DEF x, y, z
<1>6. ASSUME NEW i \in 1..n+m+1 PROVE x[i] = z[i]
  <2>1. CASE i <= n
    <3>1. i \in 1..n /\ i \in 1..n+m
      BY <1>5, <2>1
    <3> QED BY <1>2, <1>3, <1>4, <3>1 DEF LastAndAll, m
  <2>2. CASE i > n /\ i # n+m+1
    <3>1. i-n \in 1..m /\ i-n \in 1..m+1 /\ n+(i-n) = i /\ i \in 1..n+m
      BY <1>5, <2>2
    <3>2. x[i] = q[i-n]
      BY <1>1, <1>2, <3>1 DEF LastAndAll
    <3>3. y[i] = q[i-n]
      BY <1>3, <3>1 DEF LastAndAll, m
    <3> QED BY <1>3, <1>4, <3>1, <3>2, <3>3 DEF LastAndAll, m
  <2>3. CASE i = n+m+1
    <3>1. m+1 \in 1..m+1 /\ n+(m+1) = i
      BY <1>5, <2>3
    <3>2. x[i] = e
      BY <1>1, <1>2, <3>1 DEF LastAndAll
    <3>3. Len(y)+1 = i
      BY <1>3, <2>3 DEF LastAndAll, m
    <3> QED BY <1>4, <3>2, <3>3
  <2> QED BY <1>5, <2>1, <2>2, <2>3
<1>7. Len(x) = n+m+1 /\ Len(z) = n+m+1
  BY <1>1, <1>2, <1>3, <1>4, <1>5 DEF LastAndAll, m
<1>8. x = z
  BY <1>2, <1>4, <1>6, <1>7, SeqEqual
<1> QED BY <1>8 DEF x, y, z, r

\* A functor of the batch has been run.
LEMMA LeftNext ==
    ASSUME NEW S, NEW b \in Seq(S), NEW q \in Seq(S), NEW a \in 1..Len(b)
    PROVE  /\ Left(b, a, q) # <<>> /\ Head(Left(b, a, q)) = b[a]
           /\ Left(b, a+1, q) = Tail(Left(b, a, q))
<1>0. Len(b)-a \in Nat
  OBVIOUS
<1> PICK n \in Nat : n = Len(b)-a
  BY <1>0
<1> DEFINE x == Left(b, a, q)  y == Left(b, a+1, q)  m == Len(q)  k == n+1
<1>1. m \in Nat /\ a \in 1..Len(b)+1 /\ a+1 \in 1..Len(b)+1 /\ a \in Int
      /\ k \in Nat /\ k = Len(b)+1-a /\ n = Len(b)+1-(a+1) /\ k = n+1
  OBVIOUS
<1> HIDE DEF k
<1>2. x \in Seq(S) /\ LastAndAll(x, k, b, a, q)
  BY <1>1, LeftIsSeq
<1>3. y \in Seq(S) /\ LastAndAll(y, n, b, a+1, q)
  BY <1>1, LeftIsSeq
<1> HIDE DEF x, y, m
<1>4. x # <<>> /\ Head(x) = b[a]
  <2>1. 1 \in 1..k /\ a+1-1 = a
    BY <1>1
  <2>2. x[1] = b[a]
    BY <1>2, <2>1 DEF LastAndAll
  <2>3. Len(x) > 0
    BY <1>1, <1>2 DEF LastAndAll, m
  <2> QED BY <1>2, <2>2, <2>3
<1>5. /\ Tail(x) \in Seq(S) /\ Len(Tail(x)) = Len(x)-1
      /\ \A i \in 1..Len(Tail(x)) : Tail(x)[i] = x[i+1]
  BY <1>2, <1>4, HeadTailProperties
<1>6. Len(Tail(x)) = n+m
  BY <1>1, <1>2, <1>5 DEF LastAndAll, m
<1>7. ASSUME NEW i \in 1..n+m PROVE y[i] = x[i+1]
  <2>1. CASE i <= n
    <3>1. i \in 1..n /\ i+1 \in 1..k /\ a+1+i-1 = a+(i+1)-1
      BY <1>1, <2>1
    <3> QED BY <1>2, <1>3, <3>1 DEF LastAndAll, m
  <2>2. CASE i > n
    <3>0. m \in Nat /\ k \in Nat /\ k = n+1
      BY <1>1
    <3>1. i-n \in 1..m /\ n+(i-n) = i
      BY <2>2, <3>0
    <3>2. x[k+(i-n)] = q[i-n] /\ y[n+(i-n)] = q[i-n]
      BY <1>2, <1>3, <3>1 DEF LastAndAll, m
    <3>3. \A j \in Int : (n+1)+(j-n) = j+1
      OBVIOUS
    <3>4. k+(i-n) = i+1
      BY <3>0, <3>3
    <3> QED BY <3>1, <3>2, <3>4
  <2> QED BY <1>1, <2>1, <2>2
<1>8. \A i \in 1..n+m : y[i] = Tail(x)[i]
  BY <1>5, <1>6, <1>7
<1>9. y = Tail(x)
  <2>1. Len(y) = n+m
    BY <1>3 DEF LastAndAll, m
  <2> QED BY <1>3, <1>5, <1>6, <1>8, <2>1, SeqEqual
<1> QED BY <1>4, <1>9 DEF x, y

\* Before the first functor and behind the last one the queue is all there is.
LEMMA LeftEnds ==
    ASSUME NEW S, NEW q \in Seq(S)
    PROVE  /\ Left(<<>>, 1, q) = q /\ Left(q, 1, <<>>) = q
           /\ \A b \in Seq(S) : Left(b, Len(b)+1, q) = q
<1>1. ASSUME NEW b \in Seq(S) PROVE Left(b, Len(b)+1, q) = q
  BY <1>1, SubSeqEmpty, ConcatEmptySeq DEF Left
<1>2. Left(q, 1, <<>>) = q
  BY SubSeqFull, ConcatEmptySeq DEF Left
<1>3. <<>> \in Seq(S) /\ Len(<<>>) + 1 = 1
  BY EmptySeq
<1> QED BY <1>1, <1>2, <1>3

LEMMA WhereAppend ==
    ASSUME NEW S, NEW s \in Seq(S), NEW x \in S, NEW e
    PROVE  /\ x # e => Where(Append(s, x), e) = Where(s, e)
           /\ x = e => Where(Append(s, x), e) = Where(s, e) \cup {Len(s)+1}
<1>1. Append(s, x) \in Seq(S) /\ Len(Append(s, x)) = Len(s)+1 /\ \A i \in 1..Len(s)+1 : Append(s, x)[i] = IF i <= Len(s) THEN s[i] ELSE x
  BY AppendProperties
<1> QED BY <1>1 DEF Where

LEMMA WhereTail ==
    ASSUME NEW S, NEW s \in Seq(S), s # <<>>, NEW e
    PROVE  /\ Where(s, e) = {} => Where(Tail(s), e) = {} /\ Head(s) # e
           /\ IsOne(Where(s, e)) /\ Head(s) = e => Where(Tail(s), e) = {}
           /\ IsOne(Where(s, e)) /\ Head(s) # e => IsOne(Where(Tail(s), e))
<1>1. Tail(s) \in Seq(S) /\ Len(Tail(s)) = Len(s)-1 /\ Len(s) \in Nat \ {0}
      /\ (\A i \in 1..Len(s)-1 : Tail(s)[i] = s[i+1]) /\ Head(s) = s[1]
  BY HeadTailProperties
<1>2. \A i \in Where(Tail(s), e) : i \in 1..Len(s)-1 /\ i+1 \in Where(s, e)
  BY <1>1 DEF Where
<1>3. \A i \in Where(s, e) : i \in 1..Len(s) /\ (i = 1 => Head(s) = e) /\ (i # 1 => i-1 \in Where(Tail(s), e))
  BY <1>1 DEF Where
<1>4. Head(s) = e => 1 \in Where(s, e)
  BY <1>1 DEF Where
<1>5. ASSUME IsOne(Where(s, e)), Head(s) # e PROVE IsOne(Where(Tail(s), e))
  <2>1. PICK i \in Where(s, e) : Where(s, e) = {i}
    BY <1>5 DEF IsOne
  <2>2. i \in Int /\ i-1 \in Where(Tail(s), e)
    BY <1>3, <1>5, <2>1
  <2>3. \A j \in Where(Tail(s), e) : j = i-1
    BY <1>2, <2>1, <2>2
  <2> QED BY <2>2, <2>3 DEF IsOne
<1>6. ASSUME IsOne(Where(s, e)), Head(s) = e PROVE Where(Tail(s), e) = {}
  BY <1>2, <1>4, <1>6 DEF IsOne
<1>7. ASSUME Where(s, e) = {} PROVE Where(Tail(s), e) = {} /\ Head(s) # e
  BY <1>2, <1>4, <1>7
<1> QED BY <1>5, <1>6, <1>7
-----------------------------------------------------------------------------
(* What the actions do to the connections and the pollers                  *)

Tracked == [Fds -> Conns \cup {NoConn}]

Handled == [c : Conns \cup {NoConn}, todo : SUBSET Events, open : BOOLEAN, message : BOOLEAN]

\* The types of the members, one connection and one descriptor at a time.
LEMMA Types ==
    ASSUME TypeOK
    PROVE  /\ NoConn \notin Conns /\ Base \in Loops /\ Base \notin SubLoops /\ MaxQueue \in Nat
           /\ \A l \in connLoops : l \in Loops
           /\ \A c \in Conns :
               /\ conn[c] \in ConnRecords /\ conn[c].fd \in Fds /\ conn[c].loop \in Loops
               /\ conn[c].state_ \in {"none", "Connecting", "Connected", "Disconnected"}
               /\ conn[c].events \subseteq {"read", "write"} /\ conn[c].polled \in BOOLEAN
           /\ \A f \in Fds : rConnects_[f] \in Conns \cup {NoConn}
           /\ \A l \in Loops, f \in Fds : channels_[l][f] \in Conns \cup {NoConn}
           /\ accepting \in Conns \cup {NoConn}
           /\ \A c \in held \cup closing : c \in Conns
           /\ \A l \in Loops :
               /\ queue[l] \in Seq(Functors) /\ batch[l] \in Seq(Functors)
               /\ at[l] \in Nat /\ at[l] \in 1..Len(batch[l])+1
               /\ phase[l] \in {"poll", "handle", "functors", "stopped"}
               /\ active[l] \subseteq Conns
               /\ current[l] \in Handled /\ current[l].c \in Conns \cup {NoConn}
               /\ current[l].todo \subseteq Events
BY ServerAssumption DEF TypeOK, Loops, ConnRecords, Handled

LEMMA ConnTypes ==
    /\ TypeOK => /\ conn \in [Conns -> ConnRecords]
                 /\ channels_ \in [Loops -> Tracked]
                 /\ rConnects_ \in Tracked
                 /\ queue \in [Loops -> Seq(Functors)] /\ batch \in [Loops -> Seq(Functors)]
                 /\ at \in [Loops -> Nat]
                 /\ phase \in [Loops -> {"poll", "handle", "functors", "stopped"}]
                 /\ active \in [Loops -> SUBSET Conns]
                 /\ current \in [Loops -> Handled]
BY DEF TypeOK, Tracked, Handled

\* Members of a connection that Update and RemoveChannel leave alone.
SameElse(c) == /\ \A d \in Conns \ {c} : conn'[d] = conn[d]
               /\ conn'[c].fd = conn[c].fd /\ conn'[c].loop = conn[c].loop

\* A connection that is up is polled for other events, or goes down.
Kept(c, state, events) ==
    /\ c \in Conns /\ conn[c].state_ = "Connected" /\ SameElse(c) /\ channels_' = channels_
    /\ state \in {"Connected", "Disconnected"} /\ (state = "Disconnected" => events = {})
    /\ conn'[c].state_ = state /\ conn'[c].events = events /\ conn'[c].polled

\* A connection is established, and entered into its poller.
Up(c) ==
    /\ c \in Conns /\ conn[c].state_ = "Connecting" /\ SameElse(c)
    /\ channels_[conn[c].loop][conn[c].fd] = NoConn
    /\ channels_' = [channels_ EXCEPT ![conn[c].loop][conn[c].fd] = c]
    /\ conn'[c].state_ = "Connected" /\ conn'[c].polled

\* A connection is destroyed, and leaves its poller.
Removed(c) ==
    /\ c \in Conns /\ conn[c].state_ = "Disconnected" /\ conn[c].polled /\ SameElse(c)
    /\ channels_' = [channels_ EXCEPT ![conn[c].loop][conn[c].fd] = NoConn]
    /\ conn'[c].state_ = "Disconnected" /\ conn'[c].events = {} /\ ~conn'[c].polled

\* A connection is accepted.
New(c, f, l) ==
    /\ c \in Conns /\ f \in Fds /\ l \in connLoops /\ conn[c].state_ = "none"
    /\ \A d \in Conns \ {c} : conn'[d] = conn[d]
    /\ conn'[c].state_ = "Connecting" /\ conn'[c].fd = f /\ conn'[c].loop = l
    /\ conn'[c].events = conn[c].events /\ conn'[c].polled = conn[c].polled
    /\ channels_' = channels_ /\ rConnects_[f] = NoConn

\* A poller knows the channel of a connection that is up, and enabling or
\* disabling an event only modifies it.
LEMMA UpdateKeeps ==
    ASSUME ServerIInv, NEW c \in Conns, conn[c].state_ = "Connected",
           NEW state \in {"Connected", "Disconnected"}, NEW events \in SUBSET {"read", "write"},
           state = "Disconnected" => events = {}, Update(c, state, events)
    PROVE  Kept(c, state, events) /\ conn' \in [Conns -> ConnRecords]
<1>1. conn \in [Conns -> ConnRecords]
  BY ConnTypes DEF ServerIInv
<1>2. conn[c].polled /\ FindChannel(c)
  BY ServerAssumption DEF ServerIInv, ConnInv, FindChannel
<1>3. channels_' = channels_
  BY <1>2 DEF Update
<1>4. conn' = [conn EXCEPT ![c].state_ = state, ![c].events = events, ![c].polled = @ \/ ~FindChannel(c)]
  BY DEF Update
<1>5. @ = [conn EXCEPT ![c] = [conn[c] EXCEPT !.state_ = state, !.events = events, !.polled = TRUE]]
  BY <1>1, <1>2
<1> DEFINE x == [conn[c] EXCEPT !.state_ = state, !.events = events, !.polled = TRUE]
<1>6. x \in ConnRecords /\ x.state_ = state /\ x.events = events /\ x.polled
      /\ x.fd = conn[c].fd /\ x.loop = conn[c].loop
  BY <1>1 DEF ConnRecords
<1>7. conn' = [conn EXCEPT ![c] = x]
  BY <1>4, <1>5
<1> HIDE DEF x
<1>8. conn' \in [Conns -> ConnRecords] /\ conn'[c] = x /\ \A d \in Conns \ {c} : conn'[d] = conn[d]
  BY <1>1, <1>6, <1>7
<1> QED BY <1>3, <1>6, <1>8 DEF Kept, SameElse

\* A poller has no channel with the descriptor of a connection that still has
\* to be established: an earlier connection has taken its channel out.
LEMMA NoChannelYet ==
    ASSUME ServerIInv, NEW c \in Conns, conn[c].state_ = "Connecting", server # "gone",
           rConnects_[conn[c].fd] \in {c, NoConn}
    PROVE  channels_[conn[c].loop][conn[c].fd] = NoConn
<1> DEFINE l == conn[c].loop  f == conn[c].fd  e == channels_[l][f]
<1>1. l \in Loops /\ f \in Fds /\ e \in Conns \cup {NoConn}
  BY Types DEF ServerIInv
<1>2. ASSUME e # NoConn PROVE FALSE
  <2>1. e \in Conns /\ conn[e].fd = f /\ conn[e].polled /\ Began(e) /\ Entered(e)
    BY <1>1, <1>2 DEF ServerIInv, ConnInv, TablesInv, Began
  <2>2. rConnects_[f] = e
    BY <2>1 DEF ServerIInv, RegistryKeepsOwn, Entered
  <2>3. e = c
    BY <1>2, <2>2
  <2> QED BY <2>1, <2>3 DEF Began
<1> QED BY <1>2

LEMMA EstablishEnters ==
    ASSUME ServerIInv, NEW c \in Conns, conn[c].state_ = "Connecting", server # "gone",
           rConnects_[conn[c].fd] \in {c, NoConn}, Establish(c)
    PROVE  Up(c) /\ conn' \in [Conns -> ConnRecords] /\ channels_' \in [Loops -> Tracked]
<1>1. conn \in [Conns -> ConnRecords] /\ channels_ \in [Loops -> Tracked]
  BY ConnTypes DEF ServerIInv
<1>2. channels_[conn[c].loop][conn[c].fd] = NoConn
  BY NoChannelYet
<1>3. ~FindChannel(c)
  BY <1>2 DEF FindChannel
<1>4. /\ conn' = [conn EXCEPT ![c].state_ = "Connected", ![c].events = Enabled(c, "read"),
                              ![c].polled = @ \/ ~FindChannel(c)]
      /\ channels_' = [channels_ EXCEPT ![conn[c].loop][conn[c].fd] = c]
  BY <1>3 DEF Establish, Update
<1> DEFINE x == [conn[c] EXCEPT !.state_ = "Connected", !.events = Enabled(c, "read"), !.polled = TRUE]
<1>5. conn' = [conn EXCEPT ![c] = x]
  BY <1>1, <1>3, <1>4
<1>6. x \in ConnRecords /\ x.state_ = "Connected" /\ x.polled /\ x.fd = conn[c].fd /\ x.loop = conn[c].loop
  BY <1>1 DEF ConnRecords, Enabled
<1> HIDE DEF x
<1>7. conn' \in [Conns -> ConnRecords] /\ conn'[c] = x /\ \A d \in Conns \ {c} : conn'[d] = conn[d]
  BY <1>1, <1>5, <1>6
<1>8. channels_' \in [Loops -> Tracked]
  BY <1>1, <1>4 DEF Tracked, ConnRecords
<1> QED BY <1>2, <1>4, <1>6, <1>7, <1>8 DEF Up, SameElse

LEMMA RemoveChannelRemoves ==
    ASSUME ServerIInv, NEW c \in Conns, conn[c].state_ = "Disconnected", conn[c].polled, RemoveChannel(c)
    PROVE  Removed(c) /\ conn' \in [Conns -> ConnRecords] /\ channels_' \in [Loops -> Tracked]
<1>1. conn \in [Conns -> ConnRecords] /\ channels_ \in [Loops -> Tracked]
  BY ConnTypes DEF ServerIInv
<1> DEFINE x == [conn[c] EXCEPT !.polled = FALSE, !.state_ = "Disconnected", !.events = {}]
<1>2. conn' = [conn EXCEPT ![c] = x] /\ channels_' = [channels_ EXCEPT ![conn[c].loop][conn[c].fd] = NoConn]
  BY <1>1 DEF RemoveChannel
<1>3. /\ x \in ConnRecords /\ x.state_ = "Disconnected" /\ x.events = {} /\ ~x.polled
      /\ x.fd = conn[c].fd /\ x.loop = conn[c].loop
  BY <1>1 DEF ConnRecords
<1> HIDE DEF x
<1>4. conn' \in [Conns -> ConnRecords] /\ conn'[c] = x /\ \A d \in Conns \ {c} : conn'[d] = conn[d]
  BY <1>1, <1>2, <1>3
<1>5. channels_' \in [Loops -> Tracked]
  BY <1>1, <1>2 DEF Tracked
<1> QED BY <1>2, <1>3, <1>4, <1>5 DEF Removed, SameElse

LEMMA AcceptIsNew ==
    ASSUME ServerIInv, NEW c \in Conns, NEW f \in Fds, Accept(c, f)
    PROVE  \E l \in connLoops : New(c, f, l) /\ conn' \in [Conns -> ConnRecords]
<1>1. conn \in [Conns -> ConnRecords] /\ connLoops \subseteq Loops
  BY ConnTypes, Types DEF ServerIInv
<1>2. PICK l \in connLoops :
          conn' = [conn EXCEPT ![c].state_ = "Connecting", ![c].fd = f, ![c].loop = l]
  BY DEF Accept
<1> DEFINE x == [conn[c] EXCEPT !.state_ = "Connecting", !.fd = f, !.loop = l]
<1>3. conn' = [conn EXCEPT ![c] = x]
  BY <1>1, <1>2
<1>4. /\ x \in ConnRecords /\ x.state_ = "Connecting" /\ x.fd = f /\ x.loop = l
      /\ x.events = conn[c].events /\ x.polled = conn[c].polled
  BY <1>1 DEF ConnRecords
<1> HIDE DEF x
<1>5. conn' \in [Conns -> ConnRecords] /\ conn'[c] = x /\ \A d \in Conns \ {c} : conn'[d] = conn[d]
  BY <1>1, <1>3, <1>4
<1>6. rConnects_[f] = NoConn
  <2>1. rConnects_ \in Tracked
    BY ConnTypes DEF ServerIInv
  <2>2. ASSUME rConnects_[f] # NoConn PROVE FALSE
    <3> DEFINE e == rConnects_[f]
    <3>1. e \in Conns /\ conn[e].fd = f
      BY <2>1, <2>2 DEF Tracked, ServerIInv, TablesInv
    <3>2. conn[e].state_ # "none"
      BY <2>2, <3>1 DEF ServerIInv, TablesInv, ConnInv, Began
    <3>3. e \in Range(rConnects_)
      BY <2>1 DEF Tracked, Range
    <3>4. Alive(e)
      BY <3>3 DEF Alive
    <3> QED BY <3>1, <3>2, <3>4 DEF Accept, FreeFd
  <2> QED BY <2>2
<1>7. channels_' = channels_ /\ conn[c].state_ = "none"
  BY DEF Accept
<1> QED BY <1>4, <1>5, <1>6, <1>7 DEF New
-----------------------------------------------------------------------------
(* What the actions do to the functors                                     *)

\* The functors of e's kind in s are one, or none.
Marked(s, e, one) == IF one THEN IsOne(Where(s, e)) ELSE Where(s, e) = {}

LEMMA MarkedAppend ==
    ASSUME NEW s \in Seq(Functors), NEW x \in Functors, NEW e, NEW one \in BOOLEAN, Marked(s, e, one)
    PROVE  /\ x # e => Marked(Append(s, x), e, one)
           /\ x = e /\ ~one => Marked(Append(s, x), e, TRUE)
<1>1. x # e => Where(Append(s, x), e) = Where(s, e)
  BY WhereAppend
<1>2. x = e => Where(Append(s, x), e) = Where(s, e) \cup {Len(s)+1}
  BY WhereAppend
<1>3. ASSUME x = e, Where(s, e) = {} PROVE IsOne(Where(Append(s, x), e))
  BY <1>2, <1>3 DEF IsOne
<1> QED BY <1>1, <1>3 DEF Marked

LEMMA MarkedTail ==
    ASSUME NEW s \in Seq(Functors), s # <<>>, NEW e, NEW one \in BOOLEAN, Marked(s, e, one)
    PROVE  /\ Head(s) # e => Marked(Tail(s), e, one)
           /\ Head(s) = e => one /\ Marked(Tail(s), e, FALSE)
BY WhereTail DEF Marked

\* What OneFunctorEach wants of a connection.
DestroyWanted(c) == conn[c].state_ = "Disconnected" /\ conn[c].polled
EstablishWanted(c) == conn[c].state_ = "Connecting" /\ Entered(c)

Waiting(l) == Left(batch[l], at[l], queue[l])

OneOf(c) == /\ Marked(Waiting(conn[c].loop), Functor("destroy", c), DestroyWanted(c))
            /\ Marked(Waiting(conn[c].loop), Functor("establish", c), EstablishWanted(c))

\* A functor that is queued is captured by its own loop only.
LEMMA OneFunctorEachIs ==
    ASSUME TypeOK, FunctorsInv
    PROVE  OneFunctorEach <=> \A c \in Conns : Running(c) => OneOf(c)
<1>1. ASSUME NEW c \in Conns, NEW l \in Loops, c \in Captured(l) PROVE l = conn[c].loop
  <2>1. PICK p \in Range(queue[l]) \cup Range(batch[l]) : p.c = c
    BY <1>1 DEF Captured
  <2>2. OwnFunctor(l, p)
    BY <2>1 DEF FunctorsInv, Range
  <2> QED BY <2>1, <2>2, Types DEF OwnFunctor
<1>2. \A c \in Conns : \A op : PendingOf(op, c) = Where(Waiting(conn[c].loop), Functor(op, c))
  BY DEF PendingOf, Where, Waiting, Pending, Left
<1> QED BY <1>1, <1>2, Zenon DEF OneFunctorEach, OneOf, Marked, DestroyWanted, EstablishWanted, Entered

LEMMA OneFunctorEachNext ==
    ASSUME FunctorsInv', \A c \in Conns : Running(c)' => OneOf(c)'
    PROVE  OneFunctorEach'
<1>1. ASSUME NEW c \in Conns, NEW l \in Loops, c \in Captured(l)' PROVE l = conn'[c].loop
  <2>1. PICK p \in Range(queue'[l]) \cup Range(batch'[l]) : p.c = c
    BY <1>1 DEF Captured
  <2>2. OwnFunctor(l, p)'
    BY <2>1 DEF FunctorsInv, Range
  <2> QED BY <2>1, <2>2, ServerAssumption DEF OwnFunctor
<1>2. \A c \in Conns : \A op : PendingOf(op, c)' = Where(Waiting(conn[c].loop)', Functor(op, c))
  BY DEF PendingOf, Where, Waiting, Pending, Left
<1> QED BY <1>1, <1>2, Zenon DEF OneFunctorEach, OneOf, Marked, DestroyWanted, EstablishWanted, Entered

\* What waits in a loop is a sequence of what is in its queue and its batch.
LEMMA WaitingIsSeq ==
    ASSUME TypeOK, NEW l \in Loops
    PROVE  /\ Waiting(l) \in Seq(Functors)
           /\ \A i \in DOMAIN Waiting(l) : \/ \E j \in DOMAIN queue[l] : Waiting(l)[i] = queue[l][j]
                                           \/ \E j \in DOMAIN batch[l] : Waiting(l)[i] = batch[l][j]
<1> DEFINE b == batch[l]  a == at[l]  q == queue[l]
<1>1. b \in Seq(Functors) /\ q \in Seq(Functors) /\ a \in 1..Len(b)+1
  BY Types
<1> HIDE DEF b, a, q
<1>2. Len(b)+1-a \in Nat
  BY <1>1
<1> PICK n \in Nat : n = Len(b)+1-a
  BY <1>2
<1>3. Left(b, a, q) \in Seq(Functors) /\ LastAndAll(Left(b, a, q), n, b, a, q)
  BY <1>1, LeftIsSeq
<1> DEFINE w == Left(b, a, q)
<1> HIDE DEF w
<1>4. w \in Seq(Functors) /\ LastAndAll(w, n, b, a, q)
  BY <1>3 DEF w
<1>5. ASSUME NEW i \in DOMAIN w
      PROVE  (\E j \in DOMAIN q : w[i] = q[j]) \/ (\E j \in DOMAIN b : w[i] = b[j])
  <2>1. i \in 1..n+Len(q) /\ Len(q) \in Nat /\ Len(b) \in Nat
    BY <1>1, <1>4 DEF LastAndAll
  <2>2. CASE i <= n
    <3>1. i \in 1..n /\ a+i-1 \in 1..Len(b)
      BY <1>1, <2>1, <2>2
    <3>2. w[i] = b[a+i-1]
      BY <1>4, <3>1 DEF LastAndAll
    <3>3. DOMAIN b = 1..Len(b)
      BY <1>1
    <3> QED BY <3>1, <3>2, <3>3
  <2>3. CASE i > n
    <3>1. i-n \in 1..Len(q) /\ n+(i-n) = i
      BY <2>1, <2>3
    <3>2. w[i] = q[i-n] /\ i-n \in DOMAIN q
      BY <1>1, <1>4, <3>1 DEF LastAndAll
    <3> QED BY <3>2
  <2> QED BY <2>1, <2>2, <2>3
<1> QED BY <1>4, <1>5 DEF w, b, a, q, Waiting

\* A functor is queued.
LEMMA WaitingQueued ==
    ASSUME TypeOK, NEW l \in Loops, NEW p \in Functors,
           queue' = [queue EXCEPT ![l] = Append(@, p)], batch' = batch, at' = at
    PROVE  /\ queue' \in [Loops -> Seq(Functors)]
           /\ Waiting(l)' = Append(Waiting(l), p)
           /\ \A k \in Loops \ {l} : Waiting(k)' = Waiting(k)
<1>1. queue \in [Loops -> Seq(Functors)]
  BY ConnTypes
<1>2. /\ batch[l] \in Seq(Functors) /\ queue[l] \in Seq(Functors) /\ at[l] \in 1..Len(batch[l])+1
      /\ Append(queue[l], p) \in Seq(Functors)
  BY Types
<1>3. Left(batch[l], at[l], Append(queue[l], p)) = Append(Left(batch[l], at[l], queue[l]), p)
  BY <1>2, LeftAppend
<1>4. queue'[l] = Append(queue[l], p) /\ \A k \in Loops \ {l} : queue'[k] = queue[k]
  BY <1>1
<1> QED BY <1>1, <1>2, <1>3, <1>4 DEF Waiting

\* The functor that is next has been run.
LEMMA WaitingRan ==
    ASSUME TypeOK, NEW l \in Loops, at[l] <= Len(batch[l]),
           at' = [at EXCEPT ![l] = @ + 1], batch' = batch, queue' = queue
    PROVE  /\ at' \in [Loops -> Nat] /\ \A k \in Loops : at'[k] \in 1..Len(batch[k])+1
           /\ Waiting(l) # <<>> /\ Head(Waiting(l)) = batch[l][at[l]]
           /\ Waiting(l)' = Tail(Waiting(l))
           /\ \A k \in Loops \ {l} : Waiting(k)' = Waiting(k)
<1>1. at \in [Loops -> Nat] /\ \A k \in Loops : at[k] \in 1..Len(batch[k])+1
  BY ConnTypes, Types
<1>2. batch[l] \in Seq(Functors) /\ queue[l] \in Seq(Functors) /\ at[l] \in 1..Len(batch[l]) /\ Len(batch[l]) \in Nat
  BY Types
<1>3. at'[l] = at[l]+1 /\ \A k \in Loops \ {l} : at'[k] = at[k]
  BY <1>1
<1>4. at' \in [Loops -> Nat] /\ \A k \in Loops : at'[k] \in 1..Len(batch[k])+1
  <2>1. at[l]+1 \in Nat /\ at[l]+1 \in 1..Len(batch[l])+1
    BY <1>2
  <2> QED BY <1>1, <1>3, <2>1
<1>5. LET w == Left(batch[l], at[l], queue[l]) IN
      w # <<>> /\ Head(w) = batch[l][at[l]] /\ Left(batch[l], at[l]+1, queue[l]) = Tail(w)
  BY <1>2, LeftNext
<1> QED BY <1>3, <1>4, <1>5 DEF Waiting

\* It has been run, and has queued another one.
LEMMA WaitingRanQueued ==
    ASSUME TypeOK, NEW l \in Loops, NEW p \in Functors, at[l] <= Len(batch[l]),
           at' = [at EXCEPT ![l] = @ + 1], batch' = batch, queue' = [queue EXCEPT ![l] = Append(@, p)]
    PROVE  /\ queue' \in [Loops -> Seq(Functors)]
           /\ at' \in [Loops -> Nat] /\ \A k \in Loops : at'[k] \in 1..Len(batch[k])+1
           /\ Waiting(l) # <<>> /\ Head(Waiting(l)) = batch[l][at[l]]
           /\ Waiting(l)' = Append(Tail(Waiting(l)), p)
           /\ \A k \in Loops \ {l} : Waiting(k)' = Waiting(k)
<1>1. at \in [Loops -> Nat] /\ queue \in [Loops -> Seq(Functors)] /\ \A k \in Loops : at[k] \in 1..Len(batch[k])+1
  BY ConnTypes, Types
<1>2. /\ batch[l] \in Seq(Functors) /\ queue[l] \in Seq(Functors) /\ at[l] \in 1..Len(batch[l]) /\ Len(batch[l]) \in Nat
      /\ Append(queue[l], p) \in Seq(Functors)
  BY Types
<1>3. /\ at'[l] = at[l]+1 /\ \A k \in Loops \ {l} : at'[k] = at[k]
      /\ queue'[l] = Append(queue[l], p) /\ \A k \in Loops \ {l} : queue'[k] = queue[k]
  BY <1>1
<1>4. at[l]+1 \in Nat /\ at[l]+1 \in 1..Len(batch[l])+1
  BY <1>2
<1>5. queue' \in [Loops -> Seq(Functors)] /\ at' \in [Loops -> Nat] /\ \A k \in Loops : at'[k] \in 1..Len(batch[k])+1
  BY <1>1, <1>2, <1>3, <1>4
<1>6. LET w == Left(batch[l], at[l], queue[l]) IN
      w # <<>> /\ Head(w) = batch[l][at[l]] /\ Left(batch[l], at[l]+1, queue[l]) = Tail(w)
  BY <1>2, LeftNext
<1>7. Left(batch[l], at[l]+1, Append(queue[l], p)) = Append(Left(batch[l], at[l]+1, queue[l]), p)
  <2> DEFINE a == at[l]+1  b == batch[l]  q == queue[l]
  <2>1. a \in 1..Len(b)+1 /\ b \in Seq(Functors) /\ q \in Seq(Functors)
    BY <1>2, <1>4
  <2> HIDE DEF a, b, q
  <2>2. Left(b, a, Append(q, p)) = Append(Left(b, a, q), p)
    BY <2>1, LeftAppend
  <2> QED BY <2>2 DEF a, b, q
<1> QED BY <1>3, <1>5, <1>6, <1>7 DEF Waiting

\* Connections stay in their loops, and no callback is taken back.
Onward == \A c \in Conns : /\ conn'[c].loop = conn[c].loop
                           /\ conn[c].state_ # "none" => conn'[c].state_ # "none"
                           /\ Began(c) => Began(c)'

\* What is wanted of c stays so, or becomes what p does.
WantedBut(c, p) ==
    /\ IF p = Functor("destroy", c) THEN ~DestroyWanted(c) /\ DestroyWanted(c)'
       ELSE DestroyWanted(c)' <=> DestroyWanted(c)
    /\ IF p = Functor("establish", c) THEN ~EstablishWanted(c) /\ EstablishWanted(c)'
       ELSE EstablishWanted(c)' <=> EstablishWanted(c)

\* What is wanted of c stays so, but what p does is not wanted any more.
WantedNoMore(c, p) ==
    /\ IF p = Functor("destroy", c) THEN ~DestroyWanted(c)'
       ELSE DestroyWanted(c)' <=> DestroyWanted(c)
    /\ IF p = Functor("establish", c) THEN ~EstablishWanted(c)'
       ELSE EstablishWanted(c)' <=> EstablishWanted(c)

\* The functors of a loop are left where they are, or moved between its queue
\* and its batch; in a loop that has ended they may be dropped.
LEMMA FunctorsKept ==
    ASSUME ServerIInv, TypeOK', Onward,
           \A l \in Loops : /\ queue'[l] \in {queue[l], <<>>}
                            /\ batch'[l] \in {batch[l], queue[l], <<>>}
                            /\ phase'[l] # "stopped" => phase[l] # "stopped" /\ Waiting(l)' = Waiting(l),
           \A c \in Conns : Running(c)' =>
               /\ DestroyWanted(c)' <=> DestroyWanted(c)
               /\ EstablishWanted(c)' <=> EstablishWanted(c)
    PROVE  FunctorsInv' /\ OneFunctorEach'
<1>1. FunctorsInv'
  BY DEF ServerIInv, FunctorsInv, OwnFunctor, Onward
<1>2. ASSUME NEW c \in Conns, Running(c)' PROVE OneOf(c)'
  <2>1. conn'[c].loop = conn[c].loop /\ conn[c].loop \in Loops
    BY Types DEF ServerIInv, Onward
  <2>2. Running(c) /\ Waiting(conn[c].loop)' = Waiting(conn[c].loop)
    BY <1>2, <2>1 DEF Running
  <2>3. OneOf(c)
    BY <2>2, OneFunctorEachIs DEF ServerIInv
  <2> QED BY <1>2, <2>1, <2>2, <2>3 DEF OneOf, Marked
<1> QED BY <1>1, <1>2, OneFunctorEachNext

\* The wanted functors of c are told apart by what they do and to whom.
LEMMA WantedAreBoolean ==
    ASSUME NEW c
    PROVE  /\ DestroyWanted(c) \in BOOLEAN /\ EstablishWanted(c) \in BOOLEAN
           /\ DestroyWanted(c)' \in BOOLEAN /\ EstablishWanted(c)' \in BOOLEAN
           /\ Functor("destroy", c) # Functor("establish", c)
           /\ \A d : Functor("destroy", c) = Functor("destroy", d) => c = d
BY DEF DestroyWanted, EstablishWanted, Functor

\* What a functor that has been run leaves of those that are wanted.
LEMMA OneOfRan ==
    ASSUME NEW w \in Seq(Functors), w # <<>>, NEW c,
           WantedNoMore(c, Head(w)),
           Marked(w, Functor("destroy", c), DestroyWanted(c)),
           Marked(w, Functor("establish", c), EstablishWanted(c))
    PROVE  /\ Marked(Tail(w), Functor("destroy", c), DestroyWanted(c)')
           /\ Marked(Tail(w), Functor("establish", c), EstablishWanted(c)')
<1>1. ASSUME NEW e, NEW one \in BOOLEAN, NEW next \in BOOLEAN, Marked(w, e, one),
             IF Head(w) = e THEN ~next ELSE next <=> one
      PROVE  Marked(Tail(w), e, next)
  BY <1>1, MarkedTail DEF Marked
<1>2. /\ IF Head(w) = Functor("destroy", c) THEN ~DestroyWanted(c)' ELSE DestroyWanted(c)' <=> DestroyWanted(c)
      /\ IF Head(w) = Functor("establish", c) THEN ~EstablishWanted(c)' ELSE EstablishWanted(c)' <=> EstablishWanted(c)
  BY DEF WantedNoMore
<1>3. Marked(Tail(w), Functor("destroy", c), DestroyWanted(c)')
  BY <1>1, <1>2, WantedAreBoolean
<1>4. Marked(Tail(w), Functor("establish", c), EstablishWanted(c)')
  BY <1>1, <1>2, WantedAreBoolean
<1> QED BY <1>3, <1>4

LEMMA FunctorsRan ==
    ASSUME ServerIInv, Onward, NEW l \in Loops, at[l] <= Len(batch[l]),
           at' = [at EXCEPT ![l] = @ + 1], batch' = batch, queue' = queue, phase' = phase,
           \A c \in Conns : Running(c) => WantedNoMore(c, batch[l][at[l]])
    PROVE  FunctorsInv' /\ OneFunctorEach'
<1>1. FunctorsInv'
  BY DEF ServerIInv, FunctorsInv, OwnFunctor, Onward
<1>2. /\ Waiting(l) # <<>> /\ Head(Waiting(l)) = batch[l][at[l]]
      /\ Waiting(l)' = Tail(Waiting(l))
      /\ \A k \in Loops \ {l} : Waiting(k)' = Waiting(k)
  BY WaitingRan DEF ServerIInv
<1>3. OwnFunctor(l, batch[l][at[l]])
  BY Types DEF ServerIInv, FunctorsInv
<1>4. ASSUME NEW c \in Conns, Running(c)' PROVE OneOf(c)'
  <2> PICK k \in Loops : k = conn[c].loop
    BY Types DEF ServerIInv
  <2>1. conn'[c].loop = k
    BY DEF ServerIInv, Onward
  <2>2. Running(c) /\ OneOf(c) /\ WantedNoMore(c, batch[l][at[l]])
    BY <1>4, <2>1, OneFunctorEachIs DEF ServerIInv, Running
  <2>3. CASE k = l
    <3>1. /\ Marked(Waiting(l), Functor("destroy", c), DestroyWanted(c))
          /\ Marked(Waiting(l), Functor("establish", c), EstablishWanted(c))
      BY <2>2, <2>3 DEF OneOf
    <3>2. Waiting(l) \in Seq(Functors)
      BY WaitingIsSeq DEF ServerIInv
    <3>3. /\ Marked(Tail(Waiting(l)), Functor("destroy", c), DestroyWanted(c)')
          /\ Marked(Tail(Waiting(l)), Functor("establish", c), EstablishWanted(c)')
      BY <1>2, <2>2, <3>1, <3>2, OneOfRan
    <3> QED BY <1>2, <2>1, <2>3, <3>3 DEF OneOf
  <2>4. CASE k # l
    <3>1. batch[l][at[l]] # Functor("destroy", c) /\ batch[l][at[l]] # Functor("establish", c)
      BY <1>3, <2>4 DEF OwnFunctor, Functor
    <3>2. (DestroyWanted(c)' <=> DestroyWanted(c)) /\ (EstablishWanted(c)' <=> EstablishWanted(c))
      BY <2>2, <3>1 DEF WantedNoMore
    <3>3. /\ Marked(Waiting(k)', Functor("destroy", c), DestroyWanted(c))
          /\ Marked(Waiting(k)', Functor("establish", c), EstablishWanted(c))
      BY <1>2, <2>1, <2>2, <2>4 DEF OneOf
    <3> QED BY <2>1, <3>2, <3>3 DEF OneOf, Marked
  <2> QED BY <2>3, <2>4
<1> QED BY <1>1, <1>4, OneFunctorEachNext

\* What a functor that is queued adds to those that are wanted.
LEMMA OneOfQueued ==
    ASSUME NEW w \in Seq(Functors), NEW p \in Functors, NEW c, WantedBut(c, p),
           Marked(w, Functor("destroy", c), DestroyWanted(c)),
           Marked(w, Functor("establish", c), EstablishWanted(c))
    PROVE  /\ Marked(Append(w, p), Functor("destroy", c), DestroyWanted(c)')
           /\ Marked(Append(w, p), Functor("establish", c), EstablishWanted(c)')
<1>1. ASSUME NEW e, NEW one \in BOOLEAN, NEW next \in BOOLEAN, Marked(w, e, one),
             IF p = e THEN ~one /\ next ELSE next <=> one
      PROVE  Marked(Append(w, p), e, next)
  BY <1>1, MarkedAppend DEF Marked
<1>2. /\ IF p = Functor("destroy", c) THEN ~DestroyWanted(c) /\ DestroyWanted(c)' ELSE DestroyWanted(c)' <=> DestroyWanted(c)
      /\ IF p = Functor("establish", c) THEN ~EstablishWanted(c) /\ EstablishWanted(c)' ELSE EstablishWanted(c)' <=> EstablishWanted(c)
  BY DEF WantedBut
<1>3. Marked(Append(w, p), Functor("destroy", c), DestroyWanted(c)')
  BY <1>1, <1>2, WantedAreBoolean
<1>4. Marked(Append(w, p), Functor("establish", c), EstablishWanted(c)')
  BY <1>1, <1>2, WantedAreBoolean
<1> QED BY <1>3, <1>4

LEMMA FunctorsQueued ==
    ASSUME ServerIInv, Onward, NEW l \in Loops, NEW p \in Functors, OwnFunctor(l, p)',
           queue' = [queue EXCEPT ![l] = Append(@, p)], at' = at, batch' = batch, phase' = phase,
           \A c \in Conns : Running(c) => WantedBut(c, p)
    PROVE  FunctorsInv' /\ OneFunctorEach'
<1>1. queue'[l] = Append(queue[l], p) /\ (\A k \in Loops \ {l} : queue'[k] = queue[k]) /\ queue[l] \in Seq(Functors)
  BY ConnTypes DEF ServerIInv
<1>2. ASSUME NEW i \in DOMAIN queue'[l], NEW x, x = queue'[l][i] PROVE OwnFunctor(l, x)'
  <2>1. CASE i \in DOMAIN queue[l] /\ x = queue[l][i]
    BY <2>1 DEF ServerIInv, FunctorsInv, OwnFunctor, Onward
  <2>2. CASE x = p
    BY <2>2
  <2> QED BY <1>1, <1>2, <2>1, <2>2, AppendElements
<1>3. FunctorsInv'
  BY <1>1, <1>2 DEF ServerIInv, FunctorsInv, OwnFunctor, Onward
<1>4. Waiting(l)' = Append(Waiting(l), p) /\ \A k \in Loops \ {l} : Waiting(k)' = Waiting(k)
  BY WaitingQueued DEF ServerIInv
<1>5. ASSUME NEW c \in Conns, Running(c)' PROVE OneOf(c)'
  <2> PICK k \in Loops : k = conn[c].loop
    BY Types DEF ServerIInv
  <2>1. conn'[c].loop = k
    BY DEF ServerIInv, Onward
  <2>2. Running(c) /\ OneOf(c) /\ WantedBut(c, p)
    BY <1>5, <2>1, OneFunctorEachIs DEF ServerIInv, Running
  <2>3. CASE k = l
    <3>1. /\ Marked(Waiting(l), Functor("destroy", c), DestroyWanted(c))
          /\ Marked(Waiting(l), Functor("establish", c), EstablishWanted(c))
      BY <2>2, <2>3 DEF OneOf
    <3>2. Waiting(l) \in Seq(Functors)
      BY WaitingIsSeq DEF ServerIInv
    <3>3. /\ Marked(Append(Waiting(l), p), Functor("destroy", c), DestroyWanted(c)')
          /\ Marked(Append(Waiting(l), p), Functor("establish", c), EstablishWanted(c)')
      BY <2>2, <3>1, <3>2, OneOfQueued
    <3> QED BY <1>4, <2>1, <2>3, <3>3 DEF OneOf
  <2>4. CASE k # l
    <3>1. p # Functor("destroy", c) /\ p # Functor("establish", c)
      BY <2>1, <2>4 DEF OwnFunctor, Functor
    <3>2. (DestroyWanted(c)' <=> DestroyWanted(c)) /\ (EstablishWanted(c)' <=> EstablishWanted(c))
      BY <2>2, <3>1 DEF WantedBut
    <3>3. /\ Marked(Waiting(k)', Functor("destroy", c), DestroyWanted(c))
          /\ Marked(Waiting(k)', Functor("establish", c), EstablishWanted(c))
      BY <1>4, <2>1, <2>2, <2>4 DEF OneOf
    <3> QED BY <2>1, <3>2, <3>3 DEF OneOf, Marked
  <2> QED BY <2>3, <2>4
<1> QED BY <1>3, <1>5, OneFunctorEachNext

\* A functor that is not itself wanted has been run, and has queued another one.
LEMMA FunctorsRanQueued ==
    ASSUME ServerIInv, Onward, NEW l \in Loops, NEW p \in Functors, OwnFunctor(l, p)',
           at[l] <= Len(batch[l]), batch[l][at[l]].op \notin {"destroy", "establish"},
           at' = [at EXCEPT ![l] = @ + 1], batch' = batch, phase' = phase,
           queue' = [queue EXCEPT ![l] = Append(@, p)],
           \A c \in Conns : Running(c) => WantedBut(c, p)
    PROVE  FunctorsInv' /\ OneFunctorEach'
<1>1. queue'[l] = Append(queue[l], p) /\ (\A k \in Loops \ {l} : queue'[k] = queue[k]) /\ queue[l] \in Seq(Functors)
  BY ConnTypes DEF ServerIInv
<1>2. ASSUME NEW i \in DOMAIN queue'[l], NEW x, x = queue'[l][i] PROVE OwnFunctor(l, x)'
  <2>1. CASE i \in DOMAIN queue[l] /\ x = queue[l][i]
    BY <2>1 DEF ServerIInv, FunctorsInv, OwnFunctor, Onward
  <2>2. CASE x = p
    BY <2>2
  <2> QED BY <1>1, <1>2, <2>1, <2>2, AppendElements
<1>3. FunctorsInv'
  <2>1. ASSUME NEW k \in Loops, NEW x, OwnFunctor(k, x) PROVE OwnFunctor(k, x)'
    BY <2>1 DEF OwnFunctor, Onward
  <2>2. \A k \in Loops : /\ \A i \in DOMAIN queue[k] : OwnFunctor(k, queue[k][i])
                         /\ \A i \in DOMAIN batch[k] : OwnFunctor(k, batch[k][i])
    BY DEF ServerIInv, FunctorsInv
  <2>3. ASSUME NEW k \in Loops, NEW i \in DOMAIN batch'[k], NEW x, x = batch'[k][i] PROVE OwnFunctor(k, x)'
    BY <2>1, <2>2, <2>3
  <2>4. ASSUME NEW k \in Loops, NEW i \in DOMAIN queue'[k], NEW x, x = queue'[k][i] PROVE OwnFunctor(k, x)'
    BY <1>1, <1>2, <2>1, <2>2, <2>4
  <2> QED BY <2>3, <2>4 DEF FunctorsInv, OwnFunctor
<1>4. /\ Waiting(l) # <<>> /\ Head(Waiting(l)) = batch[l][at[l]]
      /\ Waiting(l)' = Append(Tail(Waiting(l)), p)
      /\ \A k \in Loops \ {l} : Waiting(k)' = Waiting(k)
  BY WaitingRanQueued DEF ServerIInv
<1>5. ASSUME NEW c \in Conns, Running(c)' PROVE OneOf(c)'
  <2> PICK k \in Loops : k = conn[c].loop
    BY Types DEF ServerIInv
  <2>1. conn'[c].loop = k
    BY DEF ServerIInv, Onward
  <2>2. Running(c) /\ OneOf(c) /\ WantedBut(c, p)
    BY <1>5, <2>1, OneFunctorEachIs DEF ServerIInv, Running
  <2>3. CASE k = l
    <3>1. /\ Marked(Waiting(l), Functor("destroy", c), DestroyWanted(c))
          /\ Marked(Waiting(l), Functor("establish", c), EstablishWanted(c))
      BY <2>2, <2>3 DEF OneOf
    <3>2. Waiting(l) \in Seq(Functors) /\ Tail(Waiting(l)) \in Seq(Functors)
      BY <1>4, WaitingIsSeq, HeadTailProperties DEF ServerIInv
    <3>3. Head(Waiting(l)) # Functor("destroy", c) /\ Head(Waiting(l)) # Functor("establish", c)
      BY <1>4 DEF Functor
    <3>6. ASSUME NEW e, NEW one \in BOOLEAN, Marked(Waiting(l), e, one), Head(Waiting(l)) # e
          PROVE  Marked(Tail(Waiting(l)), e, one)
      <4> DEFINE w == Waiting(l)
      <4>1. w \in Seq(Functors) /\ w # <<>> /\ Marked(w, e, one) /\ Head(w) # e
        BY <1>4, <3>2, <3>6
      <4> HIDE DEF w
      <4>2. Marked(Tail(w), e, one)
        BY <4>1, MarkedTail DEF Marked
      <4> QED BY <4>2 DEF w
    <3>4. /\ Marked(Tail(Waiting(l)), Functor("destroy", c), DestroyWanted(c))
          /\ Marked(Tail(Waiting(l)), Functor("establish", c), EstablishWanted(c))
      BY <3>1, <3>3, <3>6, WantedAreBoolean
    <3>5. /\ Marked(Append(Tail(Waiting(l)), p), Functor("destroy", c), DestroyWanted(c)')
          /\ Marked(Append(Tail(Waiting(l)), p), Functor("establish", c), EstablishWanted(c)')
      BY <2>2, <3>2, <3>4, OneOfQueued
    <3> QED BY <1>4, <2>1, <2>3, <3>5 DEF OneOf
  <2>4. CASE k # l
    <3>1. p # Functor("destroy", c) /\ p # Functor("establish", c)
      BY <2>1, <2>4 DEF OwnFunctor, Functor
    <3>2. (DestroyWanted(c)' <=> DestroyWanted(c)) /\ (EstablishWanted(c)' <=> EstablishWanted(c))
      BY <2>2, <3>1 DEF WantedBut
    <3>3. /\ Marked(Waiting(k)', Functor("destroy", c), DestroyWanted(c))
          /\ Marked(Waiting(k)', Functor("establish", c), EstablishWanted(c))
      BY <1>4, <2>1, <2>2, <2>4 DEF OneOf
    <3> QED BY <2>1, <3>2, <3>3 DEF OneOf, Marked
  <2> QED BY <2>3, <2>4
<1> QED BY <1>3, <1>5, OneFunctorEachNext

\* The functor that is next in a loop, and what the loop is then.
LEMMA FirstFunctor ==
    ASSUME ServerIInv, NEW l \in Loops, NEW op, NextIs(l, op), NEW c, c = batch[l][at[l]].c
    PROVE  /\ at[l] <= Len(batch[l]) /\ batch[l][at[l]] = Functor(op, c) /\ OwnFunctor(l, Functor(op, c))
           /\ op = "destroy" => c \in Conns /\ DestroyWanted(c)
           /\ op = "establish" => c \in Conns /\ EstablishWanted(c)
           /\ op # "listen" => /\ c \in Conns /\ conn[c].loop = l /\ l \in connLoops /\ Running(c)
                               /\ server # "gone"
<1>1. /\ phase[l] = "functors" /\ at[l] \in 1..Len(batch[l]) /\ batch[l] \in Seq(Functors)
      /\ at[l] \in DOMAIN batch[l] /\ batch[l][at[l]].op = op
  BY Types DEF NextIs, ServerIInv
<1>2. batch[l][at[l]] \in Functors
  BY <1>1
<1>3. batch[l][at[l]] = Functor(op, c)
  BY <1>1, <1>2 DEF Functors, Functor
<1>4. OwnFunctor(l, Functor(op, c))
  BY <1>1, <1>3 DEF ServerIInv, FunctorsInv
<1>5. op # "listen" => c \in Conns /\ conn[c].loop = l /\ l \in connLoops /\ Running(c) /\ server # "gone"
  BY <1>1, <1>4 DEF OwnFunctor, Functor, ServerIInv, ConnInv, LoopsInv, Running
<1>6. ASSUME op # "listen" PROVE OneOf(c)
  BY <1>5, <1>6, OneFunctorEachIs DEF ServerIInv
<1>7. batch[l] \in Seq(Functors) /\ queue[l] \in Seq(Functors) /\ at[l] \in 1..Len(batch[l])
  BY <1>1, Types DEF ServerIInv
<1>8. Waiting(l) # <<>> /\ Head(Waiting(l)) = Functor(op, c) /\ Waiting(l) \in Seq(Functors)
  BY <1>3, <1>7, LeftNext, WaitingIsSeq DEF Waiting, ServerIInv
<1>11. ASSUME NEW e, NEW one \in BOOLEAN, Marked(Waiting(l), e, one), e = Functor(op, c) PROVE one
  BY <1>8, <1>11, MarkedTail
<1>9. op = "destroy" => DestroyWanted(c)
  BY <1>5, <1>6, <1>11, WantedAreBoolean DEF OneOf
<1>10. op = "establish" => EstablishWanted(c)
  BY <1>5, <1>6, <1>11, WantedAreBoolean DEF OneOf
<1> QED BY <1>1, <1>3, <1>4, <1>5, <1>9, <1>10
-----------------------------------------------------------------------------
(* What each handler does, in those terms                                  *)

LEMMA KindsAreOnward ==
    ASSUME NEW c, NEW state, NEW events,
           \/ Kept(c, state, events) \/ Up(c) \/ Removed(c) \/ conn' = conn
    PROVE  Onward
BY DEF Kept, Up, Removed, SameElse, Onward, Began

LEMMA FunctorsAre ==
    /\ Functor("listen", NoConn) \in Functors
    /\ \A c \in Conns : \A op \in {"establish", "close", "hold", "destroy"} : Functor(op, c) \in Functors
BY DEF Functor, Functors

\* A connection that goes down, with the functor that will destroy it.
Down(c) == /\ Kept(c, "Disconnected", {})
           /\ queue' = [queue EXCEPT ![conn[c].loop] = Append(@, Functor("destroy", c))]

LEMMA HandleCloseIs ==
    ASSUME ServerIInv, NEW c \in Conns, Began(c), HandleClose(c)
    PROVE  \/ UNCHANGED <<conn, channels_, queue>>
           \/ Down(c) /\ conn' \in [Conns -> ConnRecords]
<1>1. CASE StillOpen(c)
  <2>1. conn[c].state_ = "Connected" /\ Update(c, "Disconnected", {}) /\ QueueInLoop("destroy", c)
    BY <1>1 DEF Began, StillOpen, HandleClose, DisabledAll, RemoveConnect
  <2>2. Kept(c, "Disconnected", {}) /\ conn' \in [Conns -> ConnRecords]
    BY <2>1, UpdateKeeps
  <2> QED BY <2>1, <2>2 DEF Down, QueueInLoop
<1>2. CASE ~StillOpen(c)
  BY <1>2 DEF HandleClose, connVars
<1> QED BY <1>1, <1>2

\* The connection whose channel is being handled.
LEMMA HandledIs ==
    ASSUME ServerIInv, NEW l \in Loops, NEW c, c \in active[l] \/ (c = current[l].c /\ c # NoConn)
    PROVE  /\ c \in Conns /\ conn[c].loop = l /\ conn[c].polled /\ Began(c) /\ phase[l] = "handle"
           /\ channels_[l][conn[c].fd] = c /\ conn[c].state_ \in {"Connected", "Disconnected"}
<1>1. c \in Conns /\ c # NoConn /\ phase[l] = "handle" /\ channels_[l][conn[c].fd] = c
  BY Types DEF ServerIInv, LoopsInv, TablesInv
<1>2. conn[c].fd \in Fds
  BY <1>1, Types DEF ServerIInv
<1> QED BY <1>1, <1>2 DEF ServerIInv, TablesInv, ConnInv, Began

\* What is left of the events of a channel after one of them.
Remains(l, x) == /\ x \in Handled /\ x.c = current[l].c /\ x.open = current[l].open
                 /\ "read" \in x.todo \/ x.message => "read" \in current[l].todo

LEMMA HandleEventIs ==
    ASSUME ServerIInv, NEW l \in Loops, NEW c, c = current[l].c, HandleEvent(l)
    PROVE  /\ c \in Conns /\ c # NoConn
           /\ \/ UNCHANGED <<conn, channels_, queue>>
              \/ Down(c) /\ conn' \in [Conns -> ConnRecords]
              \/ /\ Kept(c, "Connected", Disabled(c, "write")) /\ conn' \in [Conns -> ConnRecords]
                 /\ queue' = [queue EXCEPT ![l] = Append(@, Functor("hold", c))]
           /\ \E x : Remains(l, x) /\ current' = [current EXCEPT ![l] = x]
<1> DEFINE todo == current[l].todo
<1>1. c \in Conns /\ c # NoConn /\ conn[c].loop = l /\ Began(c) /\ ~current[l].message
  BY HandledIs DEF HandleEvent
<1>2. current \in [Loops -> Handled] /\ current[l] \in Handled
  BY ConnTypes DEF ServerIInv
<1>3. ASSUME NEW s \in SUBSET Events, s \subseteq todo, NEW m \in BOOLEAN,
             "read" \in s \/ m => "read" \in todo,
             current' = [current EXCEPT ![l] = [current[l] EXCEPT !.todo = s, !.message = m]]
      PROVE  \E x : Remains(l, x) /\ current' = [current EXCEPT ![l] = x]
  <2>1. Remains(l, [current[l] EXCEPT !.todo = s, !.message = m])
    BY <1>2, <1>3 DEF Remains, Handled
  <2> QED BY <1>3, <2>1
<1>4. ASSUME NEW s \in SUBSET Events, s \subseteq todo, current' = [current EXCEPT ![l].todo = s]
      PROVE  \E x : Remains(l, x) /\ current' = [current EXCEPT ![l] = x]
  <2>1. current' = [current EXCEPT ![l] = [current[l] EXCEPT !.todo = s, !.message = FALSE]]
    BY <1>1, <1>2, <1>4 DEF Handled
  <2> QED BY <1>3, <1>4, <2>1
<1>5. todo \subseteq Events
  BY <1>2 DEF Handled
<1>6. CASE todo \cap {"close", "error"} # {}
  <2>1. /\ HandleClose(c)
        /\ current' = [current EXCEPT ![l].todo = IF "close" \in todo THEN @ \ {"close"} ELSE @ \ {"error"}]
    BY <1>6 DEF HandleEvent
  <2>2. PICK s \in SUBSET Events : s \subseteq todo /\ current' = [current EXCEPT ![l].todo = s]
    BY <1>5, <2>1
  <2> QED BY <1>1, <1>4, <2>1, <2>2, HandleCloseIs
<1>7. CASE todo \cap {"close", "error"} = {} /\ "read" \in todo
  <2>1. HandleRead(l, c)
    BY <1>7 DEF HandleEvent
  <2>2. CASE UNCHANGED <<connVars, queue>> /\ current' = [current EXCEPT ![l].todo = @ \ {"read"}]
    BY <1>1, <1>4, <1>5, <2>2 DEF connVars
  <2>3. CASE HandleClose(c) /\ current' = [current EXCEPT ![l].todo = @ \ {"read"}]
    BY <1>1, <1>4, <1>5, <2>3, HandleCloseIs
  <2>4. CASE /\ current' = [current EXCEPT ![l].todo = @ \ {"read"}, ![l].message = TRUE]
             /\ UNCHANGED <<connVars, queue>>
    <3>1. current' = [current EXCEPT ![l] = [current[l] EXCEPT !.todo = todo \ {"read"}, !.message = TRUE]]
      BY <1>2, <2>4
    <3> QED BY <1>1, <1>3, <1>5, <1>7, <2>4, <3>1 DEF connVars
  <2> QED BY <2>1, <2>2, <2>3, <2>4 DEF HandleRead
<1>8. CASE todo \cap {"close", "error"} = {} /\ "read" \notin todo
  <2>1. HandleWrite(c) /\ current' = [current EXCEPT ![l].todo = {}]
    BY <1>8 DEF HandleEvent
  <2>2. \E x : Remains(l, x) /\ current' = [current EXCEPT ![l] = x]
    <3>1. {} \in SUBSET Events /\ {} \subseteq todo
      OBVIOUS
    <3> QED BY <1>4, <2>1, <3>1
  <2>3. CASE UNCHANGED <<connVars, queue>>
    BY <1>1, <2>2, <2>3 DEF connVars
  <2>4. CASE "write" \in conn[c].events /\ Update(c, conn[c].state_, Disabled(c, "write")) /\ QueueInLoop("hold", c)
    <3>1. conn[c].state_ = "Connected" /\ Disabled(c, "write") \in SUBSET {"read", "write"}
      BY <1>1, <2>4, Types DEF ServerIInv, ConnInv, Disabled
    <3>2. Kept(c, "Connected", Disabled(c, "write")) /\ conn' \in [Conns -> ConnRecords]
      BY <1>1, <2>4, <3>1, UpdateKeeps
    <3> QED BY <1>1, <2>2, <2>4, <3>2 DEF QueueInLoop
  <2>5. CASE HandleClose(c)
    BY <1>1, <2>2, <2>5, HandleCloseIs
  <2> QED BY <2>1, <2>3, <2>4, <2>5 DEF HandleWrite
<1> QED BY <1>6, <1>7, <1>8

LEMMA InsertIs ==
    ASSUME ServerIInv, Insert
    PROVE  /\ accepting \in Conns /\ conn[accepting].state_ = "Connecting" /\ server = "up"
           /\ rConnects_' = [rConnects_ EXCEPT ![conn[accepting].fd] = accepting]
           /\ \/ /\ conn[accepting].loop = Base /\ queue' = queue /\ held' \in {held, held \cup {accepting}}
                 /\ Up(accepting) /\ conn' \in [Conns -> ConnRecords] /\ channels_' \in [Loops -> Tracked]
              \/ /\ conn[accepting].loop # Base /\ UNCHANGED <<conn, channels_, held>>
                 /\ queue' = [queue EXCEPT ![conn[accepting].loop] = Append(@, Functor("establish", accepting))]
<1>1. accepting \in Conns /\ ~Entered(accepting) /\ phase[Base] = "handle"
  BY Types DEF ServerIInv, LoopsInv, Entered, Insert
<1>2. conn[accepting].state_ = "Connecting" /\ rConnects_[conn[accepting].fd] = NoConn /\ server = "up"
  BY <1>1, Types DEF ServerIInv, ConnInv, LoopsInv, TypeOK
<1>3. CASE conn[accepting].loop = Base
  <2>1. Establish(accepting) /\ queue' = queue
    BY <1>3 DEF Insert
  <2>2. Up(accepting) /\ conn' \in [Conns -> ConnRecords] /\ channels_' \in [Loops -> Tracked]
    BY <1>1, <1>2, <2>1, EstablishEnters
  <2> QED BY <1>1, <1>2, <1>3, <2>1, <2>2 DEF Insert, InsertEntry, Establish
<1>4. CASE conn[accepting].loop # Base
  BY <1>1, <1>2, <1>4 DEF Insert, InsertEntry, EstablishLater, QueueInLoop, connVars
<1> QED BY <1>3, <1>4

LEMMA DestroyEndIs ==
    ASSUME ServerIInv, NEW l \in Loops, NEW c, c = batch[l][at[l]].c, DestroyEnd(l)
    PROVE  /\ NextIs(l, "destroy") /\ c \in Conns /\ DestroyWanted(c) /\ conn[c].loop = l /\ server # "gone"
           /\ rConnects_[conn[c].fd] = c
           /\ rConnects_' = [rConnects_ EXCEPT ![conn[c].fd] = NoConn]
           /\ Removed(c) /\ conn' \in [Conns -> ConnRecords] /\ channels_' \in [Loops -> Tracked]
<1>1. NextIs(l, "destroy")
  BY DEF DestroyEnd
<1>2. c \in Conns /\ DestroyWanted(c) /\ conn[c].loop = l /\ server # "gone"
  BY <1>1, FirstFunctor
<1>3. RemoveChannel(c) /\ EraseEntry(conn[c].fd)
  BY DEF DestroyEnd
<1>4. Removed(c) /\ conn' \in [Conns -> ConnRecords] /\ channels_' \in [Loops -> Tracked]
  BY <1>2, <1>3, RemoveChannelRemoves DEF DestroyWanted
<1>5. Entered(c)
  BY <1>2 DEF ServerIInv, ConnInv, DestroyWanted
<1>6. rConnects_[conn[c].fd] = c
  BY <1>2, <1>5 DEF ServerIInv, RegistryKeepsOwn, Entered, DestroyWanted
<1> QED BY <1>1, <1>2, <1>3, <1>4, <1>6 DEF EraseEntry

LEMMA RunFunctorIs ==
    ASSUME ServerIInv, NEW l \in Loops, NEW c, c = batch[l][at[l]].c, RunFunctor(l)
    PROVE  /\ phase[l] = "functors" /\ at[l] <= Len(batch[l]) /\ batch[l][at[l]].op # "destroy"
           /\ \/ /\ c \in Conns /\ NextIs(l, "establish") /\ EstablishWanted(c) /\ conn[c].loop = l /\ server # "gone"
                 /\ Up(c) /\ conn' \in [Conns -> ConnRecords] /\ channels_' \in [Loops -> Tracked]
                 /\ queue' = queue /\ held' \in {held, held \cup {c}}
              \/ /\ NextIs(l, "close") /\ Down(c) /\ conn[c].loop = l
                 /\ conn' \in [Conns -> ConnRecords] /\ held' = held
              \/ batch[l][at[l]].op # "establish" /\ UNCHANGED <<conn, channels_, queue, held>>
<1>1. PICK op \in {"establish", "close", "hold", "listen"} : NextIs(l, op)
  BY DEF RunFunctor
<1>2. phase[l] = "functors" /\ at[l] <= Len(batch[l]) /\ batch[l][at[l]].op = op
  BY <1>1 DEF NextIs
<1>3. CASE op = "establish"
  <2>1. Establish(c) /\ queue' = queue
    BY <1>2, <1>3 DEF RunFunctor, NextIs
  <2>2. c \in Conns /\ EstablishWanted(c) /\ conn[c].loop = l /\ server # "gone"
    BY <1>1, <1>3, FirstFunctor
  <2>3. rConnects_[conn[c].fd] = c /\ conn[c].state_ = "Connecting"
    BY <2>2 DEF ServerIInv, RegistryKeepsOwn, EstablishWanted, Entered
  <2>4. Up(c) /\ conn' \in [Conns -> ConnRecords] /\ channels_' \in [Loops -> Tracked]
    BY <2>1, <2>2, <2>3, EstablishEnters
  <2> QED BY <1>1, <1>2, <1>3, <2>1, <2>2, <2>4 DEF Establish
<1>4. CASE op = "close"
  <2>1. HandleClose(c) /\ held' = held
    BY <1>2, <1>4 DEF RunFunctor, NextIs
  <2>2. c \in Conns /\ conn[c].loop = l /\ OwnFunctor(l, Functor("close", c))
    BY <1>1, <1>4, FirstFunctor
  <2>3. Began(c)
    BY <2>2 DEF OwnFunctor, Functor
  <2> QED BY <1>1, <1>2, <1>4, <2>1, <2>2, <2>3, HandleCloseIs
<1>5. CASE op \in {"hold", "listen"}
  BY <1>1, <1>2, <1>5 DEF RunFunctor, NextIs, connVars
<1> QED BY <1>3, <1>4, <1>5

LEMMA SendIs ==
    ASSUME ServerIInv, NEW c \in Conns, Send(c)
    PROVE  /\ Running(c) /\ Began(c)
           /\ \/ UNCHANGED <<conn, channels_>> /\ queue' = [queue EXCEPT ![conn[c].loop] = Append(@, Functor("hold", c))]
              \/ Kept(c, "Connected", Enabled(c, "write")) /\ conn' \in [Conns -> ConnRecords] /\ queue' = queue
<1>1. conn[c].state_ = "Connected" /\ Running(c) /\ Began(c)
  BY DEF Send, Running, Began
<1>2. Enabled(c, "write") \in SUBSET {"read", "write"}
  BY Types DEF ServerIInv, Enabled
<1>3. CASE Update(c, "Connected", Enabled(c, "write")) /\ UNCHANGED queue
  BY <1>1, <1>2, <1>3, UpdateKeeps
<1>4. CASE QueueInLoop("hold", c) /\ UNCHANGED connVars
  BY <1>1, <1>4 DEF QueueInLoop, connVars
<1> QED BY <1>3, <1>4 DEF Send
-----------------------------------------------------------------------------
(* Types                                                                   *)

LEMMA TypesOfQueue ==
    ASSUME TypeOK, NEW l \in Loops, NEW p \in Functors, queue' = [queue EXCEPT ![l] = Append(@, p)]
    PROVE  queue' \in [Loops -> Seq(Functors)]
<1>1. queue \in [Loops -> Seq(Functors)]
  BY ConnTypes
<1>2. Append(queue[l], p) \in Seq(Functors)
  BY <1>1
<1> QED BY <1>1, <1>2

\* TypeOK with the sets above, of the next state.
LEMMA TypesNext ==
    ASSUME connLoops' \subseteq Loops, server' \in {"up", "joining", "gone"}, listening' \in BOOLEAN,
           rConnects_' \in Tracked, accepting' \in Conns \cup {NoConn},
           conn' \in [Conns -> ConnRecords], channels_' \in [Loops -> Tracked],
           queue' \in [Loops -> Seq(Functors)], batch' \in [Loops -> Seq(Functors)],
           at' \in [Loops -> Nat], \A l \in Loops : at'[l] \in 1..Len(batch'[l])+1,
           phase' \in [Loops -> {"poll", "handle", "functors", "stopped"}],
           active' \in [Loops -> SUBSET Conns], current' \in [Loops -> Handled],
           inRegistry' \subseteq Loops, raced' \in BOOLEAN, held' \subseteq Conns, closing' \subseteq Conns
    PROVE  TypeOK'
BY DEF TypeOK, Tracked, Handled

LEMMA TypesHold ==
    ASSUME TypeOK
    PROVE  /\ connLoops \subseteq Loops /\ server \in {"up", "joining", "gone"} /\ listening \in BOOLEAN
           /\ rConnects_ \in Tracked /\ accepting \in Conns \cup {NoConn}
           /\ conn \in [Conns -> ConnRecords] /\ channels_ \in [Loops -> Tracked]
           /\ queue \in [Loops -> Seq(Functors)] /\ batch \in [Loops -> Seq(Functors)]
           /\ at \in [Loops -> Nat] /\ \A l \in Loops : at[l] \in 1..Len(batch[l])+1
           /\ phase \in [Loops -> {"poll", "handle", "functors", "stopped"}]
           /\ active \in [Loops -> SUBSET Conns] /\ current \in [Loops -> Handled]
           /\ inRegistry \subseteq Loops /\ raced \in BOOLEAN /\ held \subseteq Conns /\ closing \subseteq Conns
           /\ Base \in Loops
BY DEF TypeOK, Tracked, Handled, Loops

LEMMA DownTypes ==
    ASSUME TypeOK, NEW c \in Conns, Down(c)
    PROVE  channels_' \in [Loops -> Tracked] /\ queue' \in [Loops -> Seq(Functors)] /\ channels_' = channels_
<1>1. queue' \in [Loops -> Seq(Functors)]
  BY Types, TypesOfQueue, FunctorsAre DEF Down
<1> QED BY <1>1, TypesHold DEF Down, Kept

LEMMA TypeStep ==
    ASSUME ServerIInv, Next
    PROVE  TypeOK'
<1> TypeOK
  BY DEF ServerIInv
<1> USE DEF regVars, connVars, loopVars, appVars
<1>1. CASE Start
  <2>1. queue' \in [Loops -> Seq(Functors)] /\ listening' \in BOOLEAN
    BY <1>1, TypesHold, TypesOfQueue, FunctorsAre DEF Start, Listen
  <2> QED BY <1>1, <2>1, TypesHold, TypesNext DEF Start
<1>2. CASE Destroy
  BY <1>2, TypesHold, TypesNext DEF Destroy
<1>3. CASE ClearConnects
  <2>1. rConnects_' \in Tracked
    BY <1>3 DEF ClearConnects, Tracked
  <2> QED BY <1>3, <2>1, TypesHold, TypesNext DEF ClearConnects
<1>4. CASE BaseLoopDestroyed
  <2>1. queue' \in [Loops -> Seq(Functors)]
    BY <1>4, TypesHold DEF BaseLoopDestroyed
  <2> QED BY <1>4, <2>1, TypesHold, TypesNext DEF BaseLoopDestroyed
<1>5. ASSUME NEW l \in Loops, SubLoopEnds(l) PROVE TypeOK'
  <2>1. queue' \in [Loops -> Seq(Functors)] /\ phase' \in [Loops -> {"poll", "handle", "functors", "stopped"}]
    BY <1>5, TypesHold DEF SubLoopEnds
  <2> QED BY <1>5, <2>1, TypesHold, TypesNext DEF SubLoopEnds
<1>6. ASSUME NEW l \in Loops, Poll(l) PROVE TypeOK'
  <2>1. phase' \in [Loops -> {"poll", "handle", "functors", "stopped"}] /\ active' \in [Loops -> SUBSET Conns]
    BY <1>6, TypesHold DEF Poll
  <2> QED BY <1>6, <2>1, TypesHold, TypesNext DEF Poll
<1>7. ASSUME NEW l \in Loops, HandleBegin(l) PROVE TypeOK'
  <2>1. PICK c \in active[l], todo \in SUBSET Events :
            /\ current' = [current EXCEPT ![l] = [c |-> c, todo |-> todo, message |-> FALSE,
                                                  open |-> conn[c].state_ = "Connected"]]
            /\ active' = [active EXCEPT ![l] = @ \ {c}]
    BY <1>7 DEF HandleBegin
  <2>2. [c |-> c, todo |-> todo, message |-> FALSE, open |-> conn[c].state_ = "Connected"] \in Handled
    BY TypesHold DEF Handled
  <2>3. current' \in [Loops -> Handled] /\ active' \in [Loops -> SUBSET Conns]
    BY <2>1, <2>2, TypesHold
  <2> QED BY <1>7, <2>3, TypesHold, TypesNext DEF HandleBegin
<1>8. ASSUME NEW l \in Loops, HandleEvent(l) PROVE TypeOK'
  <2> DEFINE c == current[l].c
  <2>1. PICK x : Remains(l, x) /\ current' = [current EXCEPT ![l] = x]
    BY <1>8, HandleEventIs
  <2>2. current' \in [Loops -> Handled]
    BY <2>1, TypesHold DEF Remains
  <2>3. c \in Conns /\ conn[c].loop \in Loops
    BY <1>8, HandleEventIs, Types
  <2>4. conn' \in [Conns -> ConnRecords] /\ channels_' = channels_ /\ queue' \in [Loops -> Seq(Functors)]
    <3>1. CASE UNCHANGED <<conn, channels_, queue>>
      BY <3>1, TypesHold
    <3>2. CASE Down(c) /\ conn' \in [Conns -> ConnRecords]
      BY <2>3, <3>2, DownTypes
    <3>3. CASE /\ Kept(c, "Connected", Disabled(c, "write")) /\ conn' \in [Conns -> ConnRecords]
               /\ queue' = [queue EXCEPT ![l] = Append(@, Functor("hold", c))]
      <4>1. queue' \in [Loops -> Seq(Functors)]
        BY <2>3, <3>3, TypesOfQueue, FunctorsAre
      <4> QED BY <3>3, <4>1 DEF Kept
    <3> QED BY <1>8, <3>1, <3>2, <3>3, HandleEventIs
  <2> QED BY <1>8, <2>2, <2>4, TypesHold, TypesNext DEF HandleEvent
<1>9. ASSUME NEW l \in Loops, MessageReturns(l) \/ HandleEnd(l) PROVE TypeOK'
  <2>1. PICK x \in Handled : current' = [current EXCEPT ![l] = x]
    <3>1. current \in [Loops -> Handled] /\ current[l] \in Handled
      BY TypesHold
    <3>2. Idle \in Handled /\ [current[l] EXCEPT !.message = FALSE] \in Handled
      BY <3>1 DEF Idle, Handled
    <3> QED BY <1>9, <3>1, <3>2 DEF MessageReturns, HandleEnd
  <2>3. current' \in [Loops -> Handled]
    BY <2>1, TypesHold
  <2> QED BY <1>9, <2>3, TypesHold, TypesNext DEF MessageReturns, HandleEnd
<1>10. ASSUME NEW l \in Loops, FunctorsBegin(l) PROVE TypeOK'
  <2>1. queue[l] \in Seq(Functors) /\ <<>> \in Seq(Functors)
    BY TypesHold, EmptySeq
  <2>2. queue' \in [Loops -> Seq(Functors)] /\ batch' \in [Loops -> Seq(Functors)]
    BY <1>10, <2>1, TypesHold DEF FunctorsBegin
  <2>3. phase' \in [Loops -> {"poll", "handle", "functors", "stopped"}]
    BY <1>10, TypesHold DEF FunctorsBegin
  <2>4. \A k \in Loops : at[k] \in 1..Len(batch'[k])+1
    <3>1. batch[l] = <<>> /\ at[l] = 1
      BY <1>10 DEF ServerIInv, LoopsInv, FunctorsBegin, Handling
    <3>2. batch'[l] = queue[l] /\ \A k \in Loops \ {l} : batch'[k] = batch[k]
      BY <1>10, TypesHold DEF FunctorsBegin
    <3>3. Len(queue[l]) \in Nat
      BY <2>1
    <3>4. at[l] \in 1..Len(batch'[l])+1
      BY <3>1, <3>2, <3>3
    <3> QED BY <3>2, <3>4, TypesHold
  <2> QED BY <1>10, <2>2, <2>3, <2>4, TypesHold, TypesNext DEF FunctorsBegin
<1>11. ASSUME NEW l \in Loops, RunFunctor(l) PROVE TypeOK'
  <2> DEFINE c == batch[l][at[l]].c
  <2>1. at' \in [Loops -> Nat] /\ \A k \in Loops : at'[k] \in 1..Len(batch[k])+1
    <3>1. at[l] <= Len(batch[l]) /\ at' = [at EXCEPT ![l] = @ + 1]
      BY <1>11, RunFunctorIs DEF RunFunctor
    <3> QED BY <3>1, TypesHold
  <2>2. conn' \in [Conns -> ConnRecords] /\ channels_' \in [Loops -> Tracked] /\ held' \subseteq Conns
        /\ queue' \in [Loops -> Seq(Functors)]
    <3>1. CASE /\ c \in Conns /\ conn' \in [Conns -> ConnRecords] /\ channels_' \in [Loops -> Tracked]
               /\ queue' = queue /\ held' \in {held, held \cup {c}}
      BY <3>1, TypesHold
    <3>2. CASE Down(c) /\ conn' \in [Conns -> ConnRecords] /\ held' = held
      BY <3>2, TypesHold, DownTypes DEF Down, Kept
    <3>3. CASE UNCHANGED <<conn, channels_, queue, held>>
      BY <3>3, TypesHold
    <3> QED BY <1>11, <3>1, <3>2, <3>3, RunFunctorIs
  <2>4. listening' \in BOOLEAN
    BY <1>11, TypesHold DEF RunFunctor, Listen
  <2> QED BY <1>11, <2>1, <2>2, <2>4, TypesHold, TypesNext DEF RunFunctor
<1>12. ASSUME NEW l \in Loops, FunctorsEnd(l) PROVE TypeOK'
  <2>1. <<>> \in Seq(Functors) /\ Len(<<>>) = 0
    BY EmptySeq
  <2>2. batch' \in [Loops -> Seq(Functors)] /\ at' \in [Loops -> Nat]
        /\ phase' \in [Loops -> {"poll", "handle", "functors", "stopped"}]
    BY <1>12, <2>1, TypesHold DEF FunctorsEnd
  <2>3. \A k \in Loops : at'[k] \in 1..Len(batch'[k])+1
    BY <1>12, <2>1, TypesHold DEF FunctorsEnd
  <2> QED BY <1>12, <2>2, <2>3, TypesHold, TypesNext DEF FunctorsEnd
<1>13. ASSUME NEW l \in Loops, DestroyBegin(l) PROVE TypeOK'
  BY <1>13, TypesHold, TypesNext DEF DestroyBegin, Enter
<1>14. ASSUME NEW l \in Loops, DestroyEnd(l) PROVE TypeOK'
  <2> DEFINE c == batch[l][at[l]].c
  <2>1. at' \in [Loops -> Nat] /\ \A k \in Loops : at'[k] \in 1..Len(batch[k])+1
    <3>1. at[l] <= Len(batch[l]) /\ at' = [at EXCEPT ![l] = @ + 1]
      BY <1>14 DEF DestroyEnd, NextIs
    <3> QED BY <3>1, TypesHold
  <2>2. conn' \in [Conns -> ConnRecords] /\ channels_' \in [Loops -> Tracked]
    BY <1>14, DestroyEndIs
  <2>3. rConnects_' \in Tracked
    <3>1. rConnects_' = [rConnects_ EXCEPT ![conn[c].fd] = NoConn]
      BY <1>14 DEF DestroyEnd, EraseEntry
    <3> QED BY <3>1, TypesHold DEF Tracked
  <2> QED BY <1>14, <2>1, <2>2, <2>3, TypesHold, TypesNext DEF DestroyEnd
<1>15. CASE Insert
  <2>1. conn[accepting].loop \in Loops /\ accepting \in Conns
    BY <1>15, InsertIs, Types
  <2>2. rConnects_' \in Tracked /\ held' \subseteq Conns
    BY <1>15, <2>1, InsertIs, TypesHold DEF Tracked
  <2>3. conn' \in [Conns -> ConnRecords] /\ channels_' \in [Loops -> Tracked]
    BY <1>15, InsertIs, TypesHold
  <2>4. queue' \in [Loops -> Seq(Functors)]
    BY <1>15, <2>1, InsertIs, TypesHold, TypesOfQueue, FunctorsAre
  <2> QED BY <1>15, <2>2, <2>3, <2>4, TypesHold, TypesNext DEF Insert
<1>16. CASE NewConnectReturns
  BY <1>16, TypesHold, TypesNext DEF NewConnectReturns
<1>17. ASSUME NEW c \in Conns, NEW f \in Fds, Accept(c, f) PROVE TypeOK'
  <2>1. conn' \in [Conns -> ConnRecords]
    BY <1>17, AcceptIsNew
  <2> QED BY <1>17, <2>1, TypesHold, TypesNext DEF Accept, Enter
<1>18. ASSUME NEW c \in Conns, CloseCheck(c) PROVE TypeOK'
  BY <1>18, TypesHold, TypesNext DEF CloseCheck
<1>19. ASSUME NEW c \in Conns, CloseQueue(c) PROVE TypeOK'
  <2>1. queue' \in [Loops -> Seq(Functors)]
    BY <1>19, Types, TypesOfQueue, FunctorsAre DEF CloseQueue, QueueInLoop
  <2> QED BY <1>19, <2>1, TypesHold, TypesNext DEF CloseQueue
<1>20. ASSUME NEW c \in Conns, Send(c) PROVE TypeOK'
  <2>1. queue' \in [Loops -> Seq(Functors)]
    <3>1. CASE queue' = [queue EXCEPT ![conn[c].loop] = Append(@, Functor("hold", c))]
      BY <3>1, Types, TypesOfQueue, FunctorsAre
    <3> QED BY <1>20, <3>1, SendIs, TypesHold
  <2>2. conn' \in [Conns -> ConnRecords] /\ channels_' = channels_
    BY <1>20, SendIs, TypesHold DEF Kept
  <2> QED BY <1>20, <2>1, <2>2, TypesHold, TypesNext DEF Send
<1>21. ASSUME NEW c \in Conns, SetTcpNoDelay(c) PROVE TypeOK'
  <2>1. queue' \in [Loops -> Seq(Functors)]
    BY <1>21, Types, TypesOfQueue, FunctorsAre DEF SetTcpNoDelay, QueueInLoop
  <2> QED BY <1>21, <2>1, TypesHold, TypesNext DEF SetTcpNoDelay
<1>22. ASSUME NEW c \in Conns, Release(c) PROVE TypeOK'
  BY <1>22, TypesHold, TypesNext DEF Release
<1> QED BY <1>1, <1>2, <1>3, <1>4, <1>5, <1>6, <1>7, <1>8, <1>9, <1>10, <1>11, <1>12, <1>13, <1>14,
           <1>15, <1>16, <1>17, <1>18, <1>19, <1>20, <1>21, <1>22 DEF Next, Continue, ServerEnds, App
-----------------------------------------------------------------------------
(* The loops                                                               *)

LEMMA LoopsStep ==
    ASSUME ServerIInv, Next
    PROVE  LoopsInv'
<1> TypeOK /\ LoopsInv
  BY DEF ServerIInv
<1> USE DEF regVars, connVars, loopVars, appVars
<1>1. CASE Start
  <2>1. \A k \in Loops : k # Base => queue'[k] = queue[k]
    BY <1>1, TypesHold DEF Start
  <2> QED BY <1>1, <2>1 DEF Start, LoopsInv, NextIs
<1>2. CASE Destroy
  <2>1. phase'[Base] = "stopped" /\ \A k \in Loops \ {Base} : phase'[k] = phase[k]
    BY <1>2, TypesHold DEF Destroy
  <2> QED BY <1>2, <2>1 DEF Destroy, LoopsInv, NextIs
<1>3. CASE ClearConnects
  BY <1>3 DEF ClearConnects, Joined, LoopsInv, NextIs
<1>4. CASE BaseLoopDestroyed
  <2>1. \A k \in Loops : k # Base => queue'[k] = queue[k]
    BY <1>4, TypesHold DEF BaseLoopDestroyed
  <2> QED BY <1>4, <2>1 DEF BaseLoopDestroyed, LoopsInv, NextIs
<1>5. ASSUME NEW l \in Loops, SubLoopEnds(l) PROVE LoopsInv'
  <2>1. /\ phase'[l] = "stopped" /\ \A k \in Loops \ {l} : phase'[k] = phase[k]
        /\ queue'[l] = <<>> /\ \A k \in Loops \ {l} : queue'[k] = queue[k]
    BY <1>5, TypesHold DEF SubLoopEnds
  <2> QED BY <1>5, <2>1 DEF SubLoopEnds, LoopsInv, NextIs
<1>6. ASSUME NEW l \in Loops, Poll(l) PROVE LoopsInv'
  <2>1. /\ phase'[l] = "handle" /\ \A k \in Loops \ {l} : phase'[k] = phase[k] /\ active'[k] = active[k]
    BY <1>6, TypesHold DEF Poll
  <2> QED BY <1>6, <2>1 DEF Poll, LoopsInv, NextIs
<1>7. ASSUME NEW l \in Loops, HandleBegin(l) PROVE LoopsInv'
  <2>1. PICK c \in active[l], todo \in SUBSET Events :
            /\ todo \cap {"read", "write"} \subseteq conn[c].events
            /\ current' = [current EXCEPT ![l] = [c |-> c, todo |-> todo, message |-> FALSE,
                                                  open |-> conn[c].state_ = "Connected"]]
            /\ active' = [active EXCEPT ![l] = @ \ {c}]
    BY <1>7 DEF HandleBegin
  <2>2. c \in Conns /\ ("read" \in todo => conn[c].state_ = "Connected")
    BY <2>1, Types DEF ServerIInv, ConnInv
  <2>3. /\ current'[l] = [c |-> c, todo |-> todo, message |-> FALSE, open |-> conn[c].state_ = "Connected"]
        /\ \A k \in Loops \ {l} : current'[k] = current[k] /\ active'[k] = active[k]
    BY <2>1, TypesHold
  <2>4. current'[l].c = c /\ current'[l].todo = todo /\ current'[l].message = FALSE
    BY <2>3
  <2>5. "read" \in todo => current'[l].open
    <3> DEFINE open == conn[c].state_ = "Connected"
    <3>1. current'[l] = [c |-> c, todo |-> todo, message |-> FALSE, open |-> open]
      BY <2>3
    <3>2. "read" \in todo => open
      BY <2>2
    <3> HIDE DEF open
    <3>3. current'[l].open = open
      BY <3>1
    <3> QED BY <3>2, <3>3
  <2>6. c # NoConn /\ phase[l] = "handle" /\ (l = Base => accepting = NoConn)
    BY <1>7, <2>2, ServerAssumption DEF HandleBegin, Handling
  <2>7. \A k \in Loops \ {l} : current'[k] = current[k] /\ active'[k] = active[k]
    BY <2>3
  <2> QED BY <1>7, <2>4, <2>5, <2>6, <2>7 DEF HandleBegin, LoopsInv, NextIs
<1>8. ASSUME NEW l \in Loops, HandleEvent(l) PROVE LoopsInv'
  <2> DEFINE c == current[l].c
  <2>1. PICK x : Remains(l, x) /\ current' = [current EXCEPT ![l] = x]
    BY <1>8, HandleEventIs
  <2>2. current'[l] = x /\ \A k \in Loops \ {l} : current'[k] = current[k]
    BY <2>1, TypesHold
  <2>3. c # NoConn /\ phase[l] = "handle" /\ conn[c].loop = l
    BY <1>8, HandledIs DEF HandleEvent
  <2>4. \A k \in Loops \ {l} : queue'[k] = queue[k]
    <3>1. CASE queue' = queue
      BY <3>1
    <3>2. CASE queue' # queue
      <4>1. \E op : queue' = [queue EXCEPT ![l] = Append(@, Functor(op, c))]
        BY <1>8, <2>3, <3>2, HandleEventIs DEF Down
      <4> QED BY <4>1, TypesHold
    <3> QED BY <3>1, <3>2
  <2> QED BY <1>8, <2>1, <2>2, <2>3, <2>4 DEF HandleEvent, Remains, LoopsInv, NextIs
<1>9. ASSUME NEW l \in Loops, MessageReturns(l) \/ HandleEnd(l) PROVE LoopsInv'
  <2>1. CASE MessageReturns(l)
    <3>1. current[l] \in Handled
      BY TypesHold
    <3>2. /\ current'[l] = [current[l] EXCEPT !.message = FALSE]
          /\ \A k \in Loops \ {l} : current'[k] = current[k]
      BY <2>1, TypesHold DEF MessageReturns
    <3> QED BY <2>1, <3>1, <3>2 DEF MessageReturns, Handled, LoopsInv, NextIs
  <2>2. CASE HandleEnd(l)
    <3>1. current'[l] = Idle /\ \A k \in Loops \ {l} : current'[k] = current[k]
      BY <2>2, TypesHold DEF HandleEnd
    <3> QED BY <2>2, <3>1 DEF HandleEnd, Idle, LoopsInv, NextIs
  <2> QED BY <1>9, <2>1, <2>2
<1>10. ASSUME NEW l \in Loops, FunctorsBegin(l) PROVE LoopsInv'
  <2>1. /\ phase'[l] = "functors" /\ \A k \in Loops \ {l} : phase'[k] = phase[k]
        /\ queue'[l] = <<>> /\ \A k \in Loops \ {l} : queue'[k] = queue[k] /\ batch'[k] = batch[k]
    BY <1>10, TypesHold DEF FunctorsBegin
  <2> QED BY <1>10, <2>1 DEF FunctorsBegin, Handling, LoopsInv, NextIs
<1>11. ASSUME NEW l \in Loops, RunFunctor(l) PROVE LoopsInv'
  <2> DEFINE c == batch[l][at[l]].c
  <2>1. phase[l] = "functors" /\ batch[l][at[l]].op # "destroy"
    BY <1>11, RunFunctorIs
  <2>2. \A k \in Loops \ {l} : queue'[k] = queue[k] /\ at'[k] = at[k]
    <3>1. \A k \in Loops \ {l} : at'[k] = at[k]
      BY <1>11, TypesHold DEF RunFunctor
    <3>2. CASE queue' = queue
      BY <3>1, <3>2
    <3>3. CASE queue' # queue
      <4>1. queue' = [queue EXCEPT ![l] = Append(@, Functor("destroy", c))]
        BY <1>11, <3>3, RunFunctorIs DEF Down
      <4> QED BY <3>1, <4>1, TypesHold
    <3> QED BY <3>2, <3>3
  <2> QED BY <1>11, <2>1, <2>2 DEF RunFunctor, LoopsInv, NextIs
<1>12. ASSUME NEW l \in Loops, FunctorsEnd(l) PROVE LoopsInv'
  <2>1. /\ phase'[l] = "poll" /\ batch'[l] = <<>> /\ at'[l] = 1
        /\ \A k \in Loops \ {l} : phase'[k] = phase[k] /\ batch'[k] = batch[k] /\ at'[k] = at[k]
    BY <1>12, TypesHold DEF FunctorsEnd
  <2>2. at[l] \in Nat /\ Len(batch[l]) \in Nat /\ ~NextIs(l, "destroy")
    BY <1>12, TypesHold DEF FunctorsEnd, NextIs
  <2> QED BY <1>12, <2>1, <2>2 DEF FunctorsEnd, LoopsInv, NextIs
<1>13. ASSUME NEW l \in Loops, DestroyBegin(l) PROVE LoopsInv'
  BY <1>13 DEF DestroyBegin, Enter, LoopsInv, NextIs
<1>14. ASSUME NEW l \in Loops, DestroyEnd(l) PROVE LoopsInv'
  <2>1. \A k \in Loops \ {l} : at'[k] = at[k]
    BY <1>14, TypesHold DEF DestroyEnd
  <2>2. server # "gone" /\ phase[l] = "functors" /\ l \notin inRegistry'
    BY <1>14, DestroyEndIs DEF NextIs, DestroyEnd
  <2> QED BY <1>14, <2>1, <2>2 DEF DestroyEnd, LoopsInv, NextIs
<1>15. CASE Insert
  <2>1. accepting \in Conns /\ conn[accepting].loop \in Loops /\ server = "up"
    BY <1>15, InsertIs, Types
  <2>2. \A k \in Loops : phase[k] # "stopped"
    BY <2>1 DEF LoopsInv
  <2> QED BY <1>15, <2>1, <2>2 DEF Insert, LoopsInv, NextIs
<1>16. CASE NewConnectReturns
  BY <1>16 DEF NewConnectReturns, LoopsInv, NextIs
<1>17. ASSUME NEW c \in Conns, NEW f \in Fds, Accept(c, f) PROVE LoopsInv'
  BY <1>17, ServerAssumption DEF Accept, CanAccept, Handling, Enter, LoopsInv, NextIs
<1>18. ASSUME NEW c \in Conns, CloseCheck(c) PROVE LoopsInv'
  BY <1>18 DEF CloseCheck, LoopsInv, NextIs
<1>19. ASSUME NEW c \in Conns, CloseQueue(c) PROVE LoopsInv'
  <2>1. Running(c) /\ \A k \in Loops \ {conn[c].loop} : queue'[k] = queue[k]
    BY <1>19, TypesHold DEF CloseQueue, QueueInLoop, ServerIInv, ConnInv
  <2> QED BY <1>19, <2>1 DEF CloseQueue, LoopsInv, NextIs, Running
<1>20. ASSUME NEW c \in Conns, Send(c) PROVE LoopsInv'
  <2>1. Running(c) /\ \A k \in Loops \ {conn[c].loop} : queue'[k] = queue[k]
    BY <1>20, TypesHold, SendIs
  <2> QED BY <1>20, <2>1 DEF Send, LoopsInv, NextIs, Running
<1>21. ASSUME NEW c \in Conns, SetTcpNoDelay(c) PROVE LoopsInv'
  <2>1. Running(c) /\ \A k \in Loops \ {conn[c].loop} : queue'[k] = queue[k]
    BY <1>21, TypesHold DEF SetTcpNoDelay, QueueInLoop
  <2> QED BY <1>21, <2>1 DEF SetTcpNoDelay, LoopsInv, NextIs, Running
<1>22. ASSUME NEW c \in Conns, Release(c) PROVE LoopsInv'
  BY <1>22 DEF Release, LoopsInv, NextIs
<1> QED BY <1>1, <1>2, <1>3, <1>4, <1>5, <1>6, <1>7, <1>8, <1>9, <1>10, <1>11, <1>12, <1>13, <1>14,
           <1>15, <1>16, <1>17, <1>18, <1>19, <1>20, <1>21, <1>22 DEF Next, Continue, ServerEnds, App
-----------------------------------------------------------------------------
(* The connections, the pollers and the registry                           *)

TablesAll == ConnInv /\ TablesInv /\ RegistryKeepsOwn

\* Channels that are handled, or still to be handled, are in their poller.
HandledAreKnown == \A l \in Loops : \A x \in active'[l] \cup ({current'[l].c} \ {NoConn}) :
                       channels_[l][conn[x].fd] = x

\* Neither a connection nor a table changes.
LEMMA TablesKept ==
    ASSUME ServerIInv, UNCHANGED <<connLoops, conn, channels_, rConnects_>>, HandledAreKnown,
           server = "gone" => server' = "gone",
           held' \cup closing' \subseteq held \cup closing, \A c \in closing' : Running(c)',
           \A c \in Conns : (Entered(c)' <=> Entered(c)) /\ (c = accepting' => c = accepting)
    PROVE  TablesAll'
<1>1. ConnInv'
  BY DEF ServerIInv, ConnInv, Began
<1>2. TablesInv'
  BY DEF ServerIInv, TablesInv, HandledAreKnown
<1>3. RegistryKeepsOwn'
  <2>1. ASSUME NEW c \in Conns, server' # "gone", Entered(c)',
               conn[c].polled \/ conn[c].state_ \in {"Connecting", "Connected"}
        PROVE  rConnects_[conn[c].fd] = c
    <3>1. server # "gone" /\ Entered(c)
      BY <2>1
    <3> QED BY <2>1, <3>1 DEF ServerIInv, RegistryKeepsOwn, Entered
  <2> QED BY <2>1 DEF RegistryKeepsOwn, Entered
<1> QED BY <1>1, <1>2, <1>3 DEF TablesAll

\* What none of the other steps changes: who is handled, who calls close().
SameOthers == /\ UNCHANGED <<connLoops, server, phase, closing>>
              /\ \A l \in Loops : active'[l] = active[l] /\ current'[l].c = current[l].c

\* A connection that is up changes its events, or goes down.
LEMMA TablesKeptUp ==
    ASSUME ServerIInv, SameOthers, UNCHANGED <<rConnects_, accepting, inRegistry, held>>,
           NEW c, NEW state, NEW events, Kept(c, state, events)
    PROVE  TablesAll'
<1>1. /\ c \in Conns /\ conn[c].state_ = "Connected" /\ channels_' = channels_
      /\ state \in {"Connected", "Disconnected"} /\ (state = "Disconnected" => events = {})
      /\ \A d \in Conns \ {c} : conn'[d] = conn[d]
      /\ conn'[c].fd = conn[c].fd /\ conn'[c].loop = conn[c].loop
      /\ conn'[c].state_ = state /\ conn'[c].events = events /\ conn'[c].polled
  BY DEF Kept, SameElse
<1>2. conn[c].polled /\ Entered(c) /\ c \notin {NoConn}
  BY <1>1, ServerAssumption DEF ServerIInv, ConnInv
<1>3. ConnInv'
  <2>1. ASSUME NEW d \in Conns, d # c PROVE conn'[d] = conn[d]
    BY <1>1, <2>1
  <2> QED BY <1>1, <1>2, <2>1 DEF ServerIInv, ConnInv, Began, Entered, SameOthers, Running
<1>4. TablesInv'
  <2>1. ASSUME NEW d \in Conns PROVE conn'[d].fd = conn[d].fd /\ conn'[d].loop = conn[d].loop /\ (conn[d].polled => conn'[d].polled)
    BY <1>1
  <2>2. \A d \in Conns : conn[d].state_ = "Connecting" => conn'[d].state_ = "Connecting"
    BY <1>1
  <2>3. \A k \in Loops, g \in Fds : LET d == channels_[k][g] IN
            d # NoConn => conn'[d].fd = g /\ conn'[d].loop = k /\ conn'[d].polled
    BY <2>1, Types DEF ServerIInv, TablesInv
  <2>4. \A g \in Fds : LET d == rConnects_[g] IN
            d # NoConn => conn'[d].fd = g /\ (conn'[d].state_ = "Connecting" \/ conn'[d].polled)
    BY <2>1, <2>2, Types DEF ServerIInv, TablesInv
  <2>5. ASSUME NEW k \in Loops, NEW x \in active[k] \cup ({current[k].c} \ {NoConn})
        PROVE  channels_[k][conn'[x].fd] = x
    BY <2>1, HandledIs
  <2> QED BY <1>1, <2>3, <2>4, <2>5 DEF TablesInv, SameOthers
<1>5. RegistryKeepsOwn'
  BY <1>1, <1>2 DEF ServerIInv, RegistryKeepsOwn, Entered, SameOthers
<1> QED BY <1>3, <1>4, <1>5 DEF TablesAll

\* A connection is established; if it is one of the base loop, it is entered
\* into the registry in the same step.
LEMMA TablesUp ==
    ASSUME ServerIInv, SameOthers, NEW c, Up(c), server # "gone",
           rConnects_[conn[c].fd] \in {c, NoConn}, rConnects_' = [rConnects_ EXCEPT ![conn[c].fd] = c],
           held' \in {held, held \cup {c}}, accepting' = accepting, Entered(c)',
           \A d \in Conns \ {c} : Entered(d)' <=> Entered(d)
    PROVE  TablesAll'
<1> DEFINE f == conn[c].fd  l == conn[c].loop
<1>1. /\ c \in Conns /\ conn[c].state_ = "Connecting" /\ f \in Fds /\ l \in Loops /\ c # NoConn
      /\ channels_[l][f] = NoConn
      /\ \A d \in Conns \ {c} : conn'[d] = conn[d]
      /\ conn'[c].fd = f /\ conn'[c].loop = l /\ conn'[c].state_ = "Connected" /\ conn'[c].polled
  BY Types DEF Up, SameElse, ServerIInv
<1>2. \A k \in Loops, g \in Fds : channels_'[k][g] = IF k = l /\ g = f THEN c ELSE channels_[k][g]
  BY <1>1, TypesHold DEF Up, ServerIInv, Tracked
<1>3. \A g \in Fds : rConnects_'[g] = IF g = f THEN c ELSE rConnects_[g]
  BY <1>1, TypesHold DEF ServerIInv, Tracked
<1> HIDE DEF f, l
<1>4. \A d \in Conns : conn[d].fd \in Fds /\ conn[d].loop \in Loops /\ d # NoConn
  BY Types DEF ServerIInv
<1>5. ~conn[c].polled /\ c \notin closing /\ c \notin held
  BY <1>1 DEF ServerIInv, ConnInv, Began
<1>9. \A k \in Loops, g \in Fds : channels_[k][g] # c
  BY <1>1, <1>5 DEF ServerIInv, TablesInv
<1>6. ConnInv'
  <2>1. ASSUME NEW d \in Conns, d # c
        PROVE  /\ conn'[d].state_ # "none" => conn'[d].loop \in connLoops'
               /\ conn'[d].events # {} => conn'[d].state_ = "Connected"
               /\ conn'[d].state_ = "Connected" => conn'[d].polled
               /\ conn'[d].polled => Began(d)' /\ channels_'[conn'[d].loop][conn'[d].fd] = d
               /\ d \in held' \cup closing' => Began(d)'
               /\ d \in closing' => Running(d)'
               /\ d = accepting' => conn'[d].state_ # "none"
               /\ ~Entered(d)' => conn'[d].state_ = "Connecting" /\ rConnects_'[conn'[d].fd] = NoConn
    <3>1. conn'[d] = conn[d] /\ (Entered(d)' <=> Entered(d))
      BY <1>1, <2>1
    <3>2. conn[d].polled => conn[d].fd # f \/ conn[d].loop # l
      BY <1>1, <1>4, <2>1 DEF ServerIInv, ConnInv
    <3>3. ~Entered(d) => conn[d].fd # f
      <4>1. CASE Entered(c)
        <5>1. rConnects_[f] = c
          BY <1>1, <4>1 DEF ServerIInv, RegistryKeepsOwn, Entered, f
        <5> QED BY <1>1, <5>1 DEF ServerIInv, ConnInv
      <4>2. CASE ~Entered(c)
        BY <2>1, <4>2 DEF Entered
      <4> QED BY <4>1, <4>2
    <3> QED BY <1>2, <1>3, <1>4, <2>1, <3>1, <3>2, <3>3 DEF ServerIInv, ConnInv, Began, SameOthers, Running
  <2>2. /\ conn'[c].loop \in connLoops' /\ channels_'[conn'[c].loop][conn'[c].fd] = c
        /\ c \notin closing'
    BY <1>1, <1>2, <1>5 DEF ServerIInv, ConnInv, SameOthers, f, l
  <2> QED BY <1>1, <2>1, <2>2 DEF ConnInv, Began
<1>7. TablesInv'
  <2>1. ASSUME NEW k \in Loops, NEW g \in Fds, channels_'[k][g] # NoConn, NEW d, d = channels_'[k][g]
        PROVE  conn'[d].fd = g /\ conn'[d].loop = k /\ conn'[d].polled
    <3>1. CASE d = c
      <4>1. ASSUME ~(k = l /\ g = f) PROVE FALSE
        <5>1. channels_'[k][g] = channels_[k][g]
          BY <1>2, <4>1
        <5>2. channels_[k][g] # c
          BY <1>9
        <5> QED BY <2>1, <3>1, <5>1, <5>2
      <4> QED BY <1>1, <3>1, <4>1
    <3>2. CASE d # c
      <4>1. d = channels_[k][g] /\ d \in Conns
        BY <1>2, <2>1, <3>2, Types DEF ServerIInv
      <4> QED BY <1>1, <2>1, <3>2, <4>1 DEF ServerIInv, TablesInv
    <3> QED BY <3>1, <3>2
  <2>2. ASSUME NEW g \in Fds, rConnects_'[g] # NoConn, NEW d, d = rConnects_'[g]
        PROVE  conn'[d].fd = g /\ (conn'[d].state_ = "Connecting" \/ conn'[d].polled)
    <3>1. CASE d = c
      <4>1. ASSUME rConnects_[g] = c PROVE g = f
        BY <1>1, <4>1 DEF ServerIInv, TablesInv, f
      <4> QED BY <1>1, <1>3, <2>2, <3>1, <4>1
    <3>2. CASE d # c
      <4>1. d = rConnects_[g] /\ d \in Conns
        BY <1>3, <2>2, <3>2, Types DEF ServerIInv
      <4> QED BY <1>1, <2>2, <3>2, <4>1 DEF ServerIInv, TablesInv
    <3> QED BY <3>1, <3>2
  <2>3. ASSUME NEW k \in Loops, NEW x \in active[k] \cup ({current[k].c} \ {NoConn})
        PROVE  channels_'[k][conn'[x].fd] = x
    <3>1. x \in Conns /\ channels_[k][conn[x].fd] = x /\ conn[x].polled
      BY HandledIs
    <3> QED BY <1>1, <1>2, <1>4, <1>5, <3>1
  <2> QED BY <2>1, <2>2, <2>3 DEF TablesInv, SameOthers
<1>8. RegistryKeepsOwn'
  <2>1. ASSUME NEW d \in Conns, d # c, server' # "gone", Entered(d)',
               conn'[d].polled \/ conn'[d].state_ \in {"Connecting", "Connected"}
        PROVE  rConnects_'[conn'[d].fd] = d
    <3>1. rConnects_[conn[d].fd] = d /\ conn'[d] = conn[d]
      BY <1>1, <2>1 DEF ServerIInv, RegistryKeepsOwn, Entered, SameOthers
    <3> QED BY <1>1, <1>3, <1>4, <2>1, <3>1 DEF f
  <2>2. rConnects_'[conn'[c].fd] = c
    BY <1>1, <1>3
  <2> QED BY <2>1, <2>2 DEF RegistryKeepsOwn, Entered
<1> QED BY <1>6, <1>7, <1>8 DEF TablesAll

\* A connection is destroyed, outside of the handling of events.
LEMMA TablesRemoved ==
    ASSUME ServerIInv, SameOthers, NEW c, Removed(c), phase[conn[c].loop] # "handle",
           rConnects_[conn[c].fd] = c, rConnects_' = [rConnects_ EXCEPT ![conn[c].fd] = NoConn],
           held' = held, accepting' = accepting, \A d \in Conns : Entered(d)' <=> Entered(d)
    PROVE  TablesAll'
<1> DEFINE f == conn[c].fd  l == conn[c].loop
<1>1. /\ c \in Conns /\ conn[c].state_ = "Disconnected" /\ f \in Fds /\ l \in Loops /\ c # NoConn
      /\ \A d \in Conns \ {c} : conn'[d] = conn[d]
      /\ conn'[c].fd = f /\ conn'[c].loop = l /\ conn'[c].state_ = "Disconnected"
      /\ conn'[c].events = {} /\ ~conn'[c].polled
  BY Types DEF Removed, SameElse, ServerIInv
<1>2. \A k \in Loops, g \in Fds : channels_'[k][g] = IF k = l /\ g = f THEN NoConn ELSE channels_[k][g]
  BY <1>1, TypesHold DEF Removed, ServerIInv, Tracked
<1>3. \A g \in Fds : rConnects_'[g] = IF g = f THEN NoConn ELSE rConnects_[g]
  BY <1>1, TypesHold DEF ServerIInv, Tracked
<1>4. channels_[l][f] = c /\ rConnects_[f] = c /\ phase[l] # "handle" /\ Entered(c)
  BY <1>1 DEF ServerIInv, ConnInv, Removed
<1> HIDE DEF f, l
<1>5. \A d \in Conns : conn[d].fd \in Fds /\ conn[d].loop \in Loops /\ d # NoConn
  BY Types DEF ServerIInv
<1>6. ConnInv'
  <2>1. ASSUME NEW d \in Conns, d # c
        PROVE  /\ conn'[d].state_ # "none" => conn'[d].loop \in connLoops'
               /\ conn'[d].events # {} => conn'[d].state_ = "Connected"
               /\ conn'[d].state_ = "Connected" => conn'[d].polled
               /\ conn'[d].polled => Began(d)' /\ channels_'[conn'[d].loop][conn'[d].fd] = d
               /\ d \in held' \cup closing' => Began(d)'
               /\ d \in closing' => Running(d)'
               /\ d = accepting' => conn'[d].state_ # "none"
               /\ ~Entered(d)' => conn'[d].state_ = "Connecting" /\ rConnects_'[conn'[d].fd] = NoConn
    <3>1. conn'[d] = conn[d] /\ (Entered(d)' <=> Entered(d))
      BY <1>1, <2>1
    <3>2. conn[d].polled => conn[d].fd # f \/ conn[d].loop # l
      BY <1>4, <1>5, <2>1 DEF ServerIInv, ConnInv
    <3> QED BY <1>2, <1>3, <1>5, <2>1, <3>1, <3>2 DEF ServerIInv, ConnInv, Began, SameOthers, Running
  <2>2. conn'[c].loop \in connLoops' /\ (c \in closing' => Running(c)') /\ Entered(c)'
    BY <1>1, <1>4 DEF ServerIInv, ConnInv, SameOthers, Running, f, l
  <2> QED BY <1>1, <2>1, <2>2 DEF ConnInv, Began
<1>7. TablesInv'
  <2>1. ASSUME NEW k \in Loops, NEW g \in Fds, channels_'[k][g] # NoConn, NEW d, d = channels_'[k][g]
        PROVE  conn'[d].fd = g /\ conn'[d].loop = k /\ conn'[d].polled
    <3>1. d = channels_[k][g] /\ d \in Conns /\ d # c
      <4>1. d = channels_[k][g] /\ ~(k = l /\ g = f)
        BY <1>2, <2>1
      <4>2. channels_[k][g] = c => k = l /\ g = f
        BY <1>1, <2>1 DEF ServerIInv, TablesInv, f, l
      <4> QED BY <2>1, <4>1, <4>2, Types DEF ServerIInv
    <3> QED BY <1>1, <2>1, <3>1 DEF ServerIInv, TablesInv
  <2>2. ASSUME NEW g \in Fds, rConnects_'[g] # NoConn, NEW d, d = rConnects_'[g]
        PROVE  conn'[d].fd = g /\ (conn'[d].state_ = "Connecting" \/ conn'[d].polled)
    <3>1. d = rConnects_[g] /\ d \in Conns /\ d # c
      <4>1. d = rConnects_[g] /\ g # f
        BY <1>3, <2>2
      <4>2. rConnects_[g] = c => g = f
        BY <1>1, <2>2 DEF ServerIInv, TablesInv, f
      <4> QED BY <2>2, <4>1, <4>2, Types DEF ServerIInv
    <3> QED BY <1>1, <2>2, <3>1 DEF ServerIInv, TablesInv
  <2>3. ASSUME NEW k \in Loops, NEW x \in active[k] \cup ({current[k].c} \ {NoConn})
        PROVE  channels_'[k][conn'[x].fd] = x
    <3>1. x \in Conns /\ channels_[k][conn[x].fd] = x /\ phase[k] = "handle"
      BY HandledIs
    <3>2. conn'[x].fd = conn[x].fd /\ k # l
      BY <1>1, <1>4, <3>1 DEF f
    <3> QED BY <1>2, <1>5, <3>1, <3>2
  <2> QED BY <2>1, <2>2, <2>3 DEF TablesInv, SameOthers
<1>8. RegistryKeepsOwn'
  <2>1. ASSUME NEW d \in Conns, d # c, server' # "gone", Entered(d)',
               conn'[d].polled \/ conn'[d].state_ \in {"Connecting", "Connected"}
        PROVE  rConnects_'[conn'[d].fd] = d
    <3>1. rConnects_[conn[d].fd] = d /\ conn'[d] = conn[d]
      BY <1>1, <2>1 DEF ServerIInv, RegistryKeepsOwn, Entered, SameOthers
    <3>2. conn[d].fd # f
      BY <1>4, <2>1, <3>1
    <3> QED BY <1>3, <1>5, <3>1, <3>2
  <2> QED BY <1>1, <2>1 DEF RegistryKeepsOwn, Entered
<1> QED BY <1>6, <1>7, <1>8 DEF TablesAll

\* A connection is accepted, with a descriptor nobody uses.
LEMMA TablesNew ==
    ASSUME ServerIInv, SameOthers, UNCHANGED <<rConnects_, held>>, NEW c, NEW f, NEW l, New(c, f, l),
           accepting = NoConn, accepting' = c, Base \in inRegistry'
    PROVE  TablesAll'
<1>1. /\ c \in Conns /\ f \in Fds /\ l \in connLoops /\ conn[c].state_ = "none" /\ c # NoConn
      /\ \A d \in Conns \ {c} : conn'[d] = conn[d]
      /\ conn'[c].state_ = "Connecting" /\ conn'[c].fd = f /\ conn'[c].loop = l
      /\ conn'[c].events = conn[c].events /\ conn'[c].polled = conn[c].polled
      /\ channels_' = channels_ /\ rConnects_[f] = NoConn
  BY Types DEF New, ServerIInv
<1>2. conn[c].events = {} /\ ~conn[c].polled /\ c \notin held \cup closing
  BY <1>1 DEF ServerIInv, ConnInv, Began
<1>3. \A d \in Conns : Entered(d) /\ (d # c => Entered(d)')
  BY <1>1, ServerAssumption DEF Entered
<1>4. ConnInv'
  <2>1. ASSUME NEW d \in Conns, d # c PROVE conn'[d] = conn[d] /\ Entered(d)'
    BY <1>1, <1>3, <2>1
  <2> QED BY <1>1, <1>2, <2>1 DEF ServerIInv, ConnInv, Began, Entered, SameOthers, Running
<1>5. TablesInv'
  <2>1. \A k \in Loops, g \in Fds : channels_[k][g] # c
    BY <1>1, <1>2 DEF ServerIInv, TablesInv
  <2>2. \A g \in Fds : rConnects_[g] # c
    BY <1>1, <1>2 DEF ServerIInv, TablesInv
  <2>3. ASSUME NEW k \in Loops, NEW x \in active[k] \cup ({current[k].c} \ {NoConn})
        PROVE  channels_[k][conn'[x].fd] = x
    <3>1. x \in Conns /\ channels_[k][conn[x].fd] = x /\ conn[x].polled
      BY HandledIs
    <3> QED BY <1>1, <1>2, <3>1
  <2>4. \A k \in Loops, g \in Fds : channels_[k][g] # NoConn => conn'[channels_[k][g]] = conn[channels_[k][g]]
    BY <1>1, <2>1, Types DEF ServerIInv
  <2>5. \A g \in Fds : rConnects_[g] # NoConn => conn'[rConnects_[g]] = conn[rConnects_[g]]
    BY <1>1, <2>2, Types DEF ServerIInv
  <2> QED BY <1>1, <2>3, <2>4, <2>5 DEF ServerIInv, TablesInv, SameOthers
<1>6. RegistryKeepsOwn'
  <2>1. ASSUME NEW d \in Conns, d # c, server' # "gone",
               conn'[d].polled \/ conn'[d].state_ \in {"Connecting", "Connected"}
        PROVE  rConnects_'[conn'[d].fd] = d
    BY <1>1, <1>3, <2>1 DEF ServerIInv, RegistryKeepsOwn, Entered, SameOthers
  <2> QED BY <2>1 DEF RegistryKeepsOwn
<1> QED BY <1>4, <1>5, <1>6 DEF TablesAll

\* A connection of another loop is entered into the registry.
LEMMA TablesInserted ==
    ASSUME ServerIInv, SameOthers, UNCHANGED <<conn, channels_, held, accepting>>, NEW c \in Conns,
           c = accepting, ~Entered(c), rConnects_' = [rConnects_ EXCEPT ![conn[c].fd] = c],
           \A d \in Conns : Entered(d)'
    PROVE  TablesAll'
<1> DEFINE f == conn[c].fd
<1>1. conn[c].state_ = "Connecting" /\ rConnects_[f] = NoConn /\ f \in Fds /\ c # NoConn
  BY Types DEF ServerIInv, ConnInv
<1>2. \A g \in Fds : rConnects_'[g] = IF g = f THEN c ELSE rConnects_[g]
  BY <1>1, TypesHold DEF ServerIInv, Tracked
<1> HIDE DEF f
<1>3. ConnInv'
  BY DEF ServerIInv, ConnInv, Began, SameOthers, Running
<1>4. TablesInv'
  <2>1. ASSUME NEW g \in Fds, rConnects_'[g] # NoConn, NEW d, d = rConnects_'[g]
        PROVE  conn[d].fd = g /\ (conn[d].state_ = "Connecting" \/ conn[d].polled)
    BY <1>1, <1>2, <2>1 DEF ServerIInv, TablesInv, f
  <2> QED BY <2>1 DEF ServerIInv, TablesInv, SameOthers
<1>5. RegistryKeepsOwn'
  <2>1. ASSUME NEW d \in Conns, server # "gone", conn[d].polled \/ conn[d].state_ \in {"Connecting", "Connected"}
        PROVE  rConnects_'[conn[d].fd] = d
    <3>1. CASE d = c
      BY <1>1, <1>2, <3>1 DEF f
    <3>2. CASE d # c
      <4>1. rConnects_[conn[d].fd] = d /\ d # NoConn /\ conn[d].fd \in Fds
        BY <2>1, <3>2, Types DEF ServerIInv, RegistryKeepsOwn
      <4> QED BY <1>1, <1>2, <4>1
    <3> QED BY <3>1, <3>2
  <2> QED BY <2>1 DEF RegistryKeepsOwn, SameOthers
<1> QED BY <1>3, <1>4, <1>5 DEF TablesAll

\* The registry goes with the server.
LEMMA TablesCleared ==
    ASSUME ServerIInv, ClearConnects
    PROVE  TablesAll'
<1>1. UNCHANGED <<connLoops, conn, channels_, accepting, inRegistry, phase, active, current, held, closing>>
      /\ server' = "gone" /\ rConnects_' = [f \in Fds |-> NoConn]
  BY DEF ClearConnects, connVars, loopVars, appVars
<1>2. ConnInv'
  BY <1>1, Types DEF ServerIInv, ConnInv, Began, Entered, Running
<1>3. TablesInv'
  BY <1>1 DEF ServerIInv, TablesInv
<1>4. RegistryKeepsOwn'
  BY <1>1 DEF RegistryKeepsOwn
<1> QED BY <1>2, <1>3, <1>4 DEF TablesAll

\* No step but poll and the beginning of the handling of a channel makes a loop
\* handle another channel.
LEMMA SameIsKnown ==
    ASSUME ServerIInv,
           \A l \in Loops : active'[l] \subseteq active[l] /\ current'[l].c \in {current[l].c, NoConn} \cup active[l]
    PROVE  HandledAreKnown
BY DEF ServerIInv, TablesInv, HandledAreKnown

LEMMA TablesSame ==
    ASSUME ServerIInv, UNCHANGED <<connLoops, server, conn, channels_, rConnects_, accepting, inRegistry>>,
           HandledAreKnown, held' \subseteq held, closing' \subseteq closing,
           \A l \in Loops : phase'[l] = phase[l]
    PROVE  TablesAll'
<1>1. \A c \in Conns : (Entered(c)' <=> Entered(c)) /\ (c = accepting' => c = accepting)
  BY DEF Entered
<1>2. \A c \in closing' : Running(c)'
  BY Types DEF ServerIInv, ConnInv, Running
<1> QED BY <1>1, <1>2, TablesKept

LEMMA TablesStep ==
    ASSUME ServerIInv, Next
    PROVE  TablesAll'
<1> TypeOK /\ LoopsInv /\ ConnInv
  BY DEF ServerIInv
<1> USE DEF regVars, connVars, loopVars, appVars
<1>0. ASSUME active' = active, current' = current PROVE HandledAreKnown
  BY <1>0, SameIsKnown
<1>1. CASE Start
  BY <1>0, <1>1, TablesSame DEF Start
<1>2. CASE Destroy
  <2>1. \A c \in closing : Running(c)'
    BY <1>2, TypesHold DEF Destroy, NotCalled, Running, ConnInv
  <2> QED BY <1>0, <1>2, <2>1, TablesKept DEF Destroy, Entered
<1>3. CASE ClearConnects
  BY <1>3, TablesCleared
<1>4. CASE BaseLoopDestroyed
  BY <1>0, <1>4, TablesSame DEF BaseLoopDestroyed
<1>5. ASSUME NEW l \in Loops, SubLoopEnds(l) PROVE TablesAll'
  <2>1. \A c \in closing : Running(c)'
    BY <1>5, TypesHold DEF SubLoopEnds, NotCalled, Running, ConnInv
  <2> QED BY <1>0, <1>5, <2>1, TablesKept DEF SubLoopEnds, Entered
<1>6. ASSUME NEW l \in Loops, Poll(l) PROVE TablesAll'
  <2>1. PICK S \in SUBSET {c \in Conns : conn[c].polled /\ conn[c].loop = l /\ Alive(c)} :
            active' = [active EXCEPT ![l] = S]
    BY <1>6 DEF Poll
  <2>2. active'[l] = S /\ (\A k \in Loops \ {l} : active'[k] = active[k]) /\ current' = current
    BY <1>6, <2>1, TypesHold DEF Poll
  <2>3. \A x \in S : channels_[l][conn[x].fd] = x
    BY <2>1 DEF ConnInv
  <2>4. HandledAreKnown
    BY <2>2, <2>3 DEF HandledAreKnown, ServerIInv, TablesInv
  <2>5. \A c \in closing : Running(c)'
    BY <1>6, Types DEF Poll, Running, ConnInv
  <2> QED BY <1>6, <2>4, <2>5, TablesKept DEF Poll, Entered
<1>7. ASSUME NEW l \in Loops, HandleBegin(l) PROVE TablesAll'
  <2>1. \E x : x.c \in active[l] /\ current' = [current EXCEPT ![l] = x]
            /\ active' = [active EXCEPT ![l] = @ \ {x.c}]
    <3>1. PICK c \in active[l], todo \in SUBSET Events :
              /\ current' = [current EXCEPT ![l] = [c |-> c, todo |-> todo, message |-> FALSE,
                                                    open |-> conn[c].state_ = "Connected"]]
              /\ active' = [active EXCEPT ![l] = @ \ {c}]
      BY <1>7 DEF HandleBegin
    <3>2. [c |-> c, todo |-> todo, message |-> FALSE, open |-> conn[c].state_ = "Connected"].c = c
      OBVIOUS
    <3> QED BY <3>1, <3>2
  <2>2. \A k \in Loops : active'[k] \subseteq active[k] /\ current'[k].c \in {current[k].c, NoConn} \cup active[k]
    BY <2>1, TypesHold
  <2>3. HandledAreKnown
    BY <2>2, SameIsKnown
  <2> QED BY <1>7, <2>3, TablesSame DEF HandleBegin
<1>8. ASSUME NEW l \in Loops, HandleEvent(l) PROVE TablesAll'
  <2> DEFINE c == current[l].c
  <2>1. \A k \in Loops : current'[k].c = current[k].c
    <3>1. PICK x : Remains(l, x) /\ current' = [current EXCEPT ![l] = x]
      BY <1>8, HandleEventIs
    <3> QED BY <3>1, TypesHold DEF Remains
  <2>2. SameOthers /\ UNCHANGED <<rConnects_, accepting, inRegistry, held>>
    BY <1>8, <2>1 DEF HandleEvent, SameOthers
  <2>3. CASE UNCHANGED <<conn, channels_>>
    <3>1. HandledAreKnown
      BY <2>1, <2>2 DEF SameOthers, HandledAreKnown, ServerIInv, TablesInv
    <3> QED BY <2>2, <2>3, <3>1, TablesSame DEF SameOthers
  <2>4. CASE ~UNCHANGED <<conn, channels_>>
    <3>1. \E state, events : Kept(c, state, events)
      BY <1>8, <2>4, HandleEventIs DEF Down
    <3> QED BY <2>2, <3>1, TablesKeptUp
  <2> QED BY <2>3, <2>4
<1>9. ASSUME NEW l \in Loops, MessageReturns(l) \/ HandleEnd(l) PROVE TablesAll'
  <2>1. \A k \in Loops : active'[k] = active[k] /\ current'[k].c \in {current[k].c, NoConn}
    <3>1. CASE MessageReturns(l)
      <4>1. current[l] \in Handled /\ current \in [Loops -> Handled]
        BY TypesHold
      <4>2. [current[l] EXCEPT !.message = FALSE].c = current[l].c
        BY <4>1 DEF Handled
      <4> QED BY <3>1, <4>1, <4>2 DEF MessageReturns
    <3>2. CASE HandleEnd(l)
      BY <3>2, TypesHold DEF HandleEnd, Idle
    <3> QED BY <1>9, <3>1, <3>2
  <2>2. HandledAreKnown
    BY <2>1, SameIsKnown
  <2> QED BY <1>9, <2>2, TablesSame DEF MessageReturns, HandleEnd
<1>10. ASSUME NEW l \in Loops, FunctorsBegin(l) PROVE TablesAll'
  <2>1. \A c \in closing : Running(c)'
    BY <1>10, Types DEF FunctorsBegin, Running, ConnInv
  <2> QED BY <1>0, <1>10, <2>1, TablesKept DEF FunctorsBegin, Entered
<1>11. ASSUME NEW l \in Loops, RunFunctor(l) PROVE TablesAll'
  <2> DEFINE c == batch[l][at[l]].c
  <2>1. SameOthers /\ UNCHANGED <<rConnects_, accepting, inRegistry>> /\ active' = active /\ current' = current
    BY <1>11 DEF RunFunctor, SameOthers
  <2>2. CASE UNCHANGED <<conn, channels_, held>>
    BY <1>0, <2>1, <2>2, TablesSame DEF SameOthers
  <2>3. CASE Down(c) /\ held' = held
    BY <2>1, <2>3, TablesKeptUp DEF Down
  <2>4. CASE c \in Conns /\ EstablishWanted(c) /\ server # "gone" /\ Up(c) /\ held' \in {held, held \cup {c}}
    <3>1. rConnects_[conn[c].fd] = c /\ Entered(c)
      BY <2>4 DEF ServerIInv, RegistryKeepsOwn, EstablishWanted, Entered
    <3>2. rConnects_' = [rConnects_ EXCEPT ![conn[c].fd] = c]
      BY <2>1, <3>1, TypesHold DEF Tracked
    <3>3. \A d \in Conns : Entered(d)' <=> Entered(d)
      BY <2>1 DEF Entered
    <3>4. PICK d : d = c
      OBVIOUS
    <3>5. d \in Conns /\ Up(d) /\ Entered(d) /\ rConnects_[conn[d].fd] = d /\ held' \in {held, held \cup {d}}
          /\ rConnects_' = [rConnects_ EXCEPT ![conn[d].fd] = d]
      BY <2>4, <3>1, <3>2, <3>4
    <3>6. Entered(d)'
      BY <3>3, <3>5
    <3> QED BY <2>1, <2>4, <3>3, <3>5, <3>6, TablesUp
  <2> QED BY <1>11, <2>2, <2>3, <2>4, RunFunctorIs
<1>12. ASSUME NEW l \in Loops, FunctorsEnd(l) PROVE TablesAll'
  <2>1. \A c \in closing : Running(c)'
    BY <1>12, Types DEF FunctorsEnd, Running, ConnInv
  <2> QED BY <1>0, <1>12, <2>1, TablesKept DEF FunctorsEnd, Entered
<1>13. ASSUME NEW l \in Loops, DestroyBegin(l) PROVE TablesAll'
  <2>1. \A c \in Conns : Entered(c)' <=> Entered(c)
    BY <1>13, Types DEF DestroyBegin, Enter, NextIs, Entered, LoopsInv
  <2>2. \A c \in closing' : Running(c)'
    BY <1>13, Types DEF DestroyBegin, Running, ConnInv
  <2> QED BY <1>0, <1>13, <2>1, <2>2, TablesKept DEF DestroyBegin
<1>14. ASSUME NEW l \in Loops, DestroyEnd(l) PROVE TablesAll'
  <2> PICK c : c = batch[l][at[l]].c
    OBVIOUS
  <2>1. SameOthers /\ accepting' = accepting /\ held' = held
    BY <1>14 DEF DestroyEnd, SameOthers
  <2>2. /\ c \in Conns /\ Removed(c) /\ conn[c].loop = l /\ phase[l] = "functors" /\ rConnects_[conn[c].fd] = c
        /\ rConnects_' = [rConnects_ EXCEPT ![conn[c].fd] = NoConn]
    BY <1>14, DestroyEndIs DEF NextIs
  <2>3. \A d \in Conns : Entered(d)' <=> Entered(d)
    <3>1. inRegistry' = inRegistry \ {l} /\ accepting' = accepting
      BY <1>14 DEF DestroyEnd
    <3>2. l = Base => accepting = NoConn
      BY <2>2 DEF LoopsInv
    <3> QED BY <3>1, <3>2, ServerAssumption DEF Entered
  <2> QED BY <2>1, <2>2, <2>3, TablesRemoved
<1>15. CASE Insert
  <2> PICK c : c = accepting
    OBVIOUS
  <2>1. c \in Conns /\ ~Entered(c) /\ conn[c].state_ = "Connecting" /\ server = "up" /\ SameOthers
        /\ accepting' = accepting /\ rConnects_' = [rConnects_ EXCEPT ![conn[c].fd] = c]
    BY <1>15, InsertIs DEF Insert, SameOthers, Entered
  <2>2. \A d \in Conns : Entered(d)' /\ (d # c => Entered(d))
    BY <1>15 DEF Insert, Entered
  <2>3. CASE Up(accepting) /\ held' \in {held, held \cup {accepting}}
    <3>1. rConnects_[conn[c].fd] = NoConn
      BY <2>1 DEF ConnInv
    <3> QED BY <2>1, <2>2, <2>3, <3>1, TablesUp
  <2>4. CASE UNCHANGED <<conn, channels_, held>>
    BY <2>1, <2>2, <2>4, TablesInserted
  <2> QED BY <1>15, <2>3, <2>4, InsertIs
<1>16. CASE NewConnectReturns
  <2>1. \A c \in Conns : Entered(c)' /\ Entered(c) /\ c # accepting'
    BY <1>16, ServerAssumption DEF NewConnectReturns, Entered
  <2>2. \A c \in closing' : Running(c)'
    BY <1>16, Types DEF NewConnectReturns, Running, ConnInv
  <2> QED BY <1>0, <1>16, <2>1, <2>2, TablesKept DEF NewConnectReturns
<1>17. ASSUME NEW c \in Conns, NEW f \in Fds, Accept(c, f) PROVE TablesAll'
  <2>1. PICK l \in connLoops : New(c, f, l)
    BY <1>17, AcceptIsNew
  <2>2. SameOthers /\ UNCHANGED <<rConnects_, held>> /\ accepting = NoConn /\ accepting' = c /\ Base \in inRegistry'
    BY <1>17 DEF Accept, CanAccept, Handling, Enter, SameOthers
  <2> QED BY <2>1, <2>2, TablesNew
<1>18. ASSUME NEW c \in Conns, CloseCheck(c) PROVE TablesAll'
  <2>1. \A d \in closing' : Running(d)'
    BY <1>18, Types DEF CloseCheck, Running, ConnInv
  <2>2. \A d \in Conns : (Entered(d)' <=> Entered(d)) /\ (d = accepting' => d = accepting)
    BY <1>18 DEF CloseCheck, Entered
  <2>3. /\ UNCHANGED <<connLoops, conn, channels_, rConnects_, server>>
        /\ held' \cup closing' \subseteq held \cup closing
    BY <1>18 DEF CloseCheck
  <2> QED BY <1>0, <1>18, <2>1, <2>2, <2>3, TablesKept DEF CloseCheck
<1>19. ASSUME NEW c \in Conns, CloseQueue(c) PROVE TablesAll'
  BY <1>0, <1>19, TablesSame DEF CloseQueue
<1>20. ASSUME NEW c \in Conns, Send(c) PROVE TablesAll'
  <2>1. SameOthers /\ UNCHANGED <<rConnects_, accepting, inRegistry, held>> /\ active' = active /\ current' = current
    BY <1>20 DEF Send, SameOthers
  <2>2. CASE UNCHANGED <<conn, channels_>>
    BY <1>0, <2>1, <2>2, TablesSame DEF SameOthers
  <2>3. CASE Kept(c, "Connected", Enabled(c, "write"))
    BY <2>1, <2>3, TablesKeptUp
  <2> QED BY <1>20, <2>2, <2>3, SendIs
<1>21. ASSUME NEW c \in Conns, SetTcpNoDelay(c) PROVE TablesAll'
  BY <1>0, <1>21, TablesSame DEF SetTcpNoDelay
<1>22. ASSUME NEW c \in Conns, Release(c) PROVE TablesAll'
  BY <1>0, <1>22, TablesSame DEF Release
<1> QED BY <1>1, <1>2, <1>3, <1>4, <1>5, <1>6, <1>7, <1>8, <1>9, <1>10, <1>11, <1>12, <1>13, <1>14,
           <1>15, <1>16, <1>17, <1>18, <1>19, <1>20, <1>21, <1>22 DEF Next, Continue, ServerEnds, App
-----------------------------------------------------------------------------
(* The functors                                                            *)

\* Nothing is queued, run or dropped, and nothing wanted changes.
LEMMA FunctorsSame ==
    ASSUME ServerIInv, TypeOK', UNCHANGED <<queue, batch, at, conn>>,
           \A l \in Loops : phase'[l] # "stopped" => phase[l] # "stopped",
           \A c \in Conns : Entered(c)' <=> Entered(c)
    PROVE  FunctorsInv' /\ OneFunctorEach'
<1>1. Onward
  BY DEF Onward, Began
<1>2. \A c \in Conns : (DestroyWanted(c)' <=> DestroyWanted(c)) /\ (EstablishWanted(c)' <=> EstablishWanted(c))
  BY DEF DestroyWanted, EstablishWanted
<1>3. \A l \in Loops : Waiting(l)' = Waiting(l)
  BY DEF Waiting
<1> QED BY <1>1, <1>2, <1>3, FunctorsKept

\* The functors of a loop are moved to its batch, or dropped; nothing wanted changes.
LEMMA FunctorsMoved ==
    ASSUME ServerIInv, TypeOK', UNCHANGED <<conn, accepting, inRegistry>>,
           \A l \in Loops : /\ queue'[l] \in {queue[l], <<>>}
                            /\ batch'[l] \in {batch[l], queue[l], <<>>}
                            /\ phase'[l] # "stopped" => phase[l] # "stopped" /\ Waiting(l)' = Waiting(l)
    PROVE  FunctorsInv' /\ OneFunctorEach'
<1>1. Onward
  BY DEF Onward, Began
<1>2. \A c \in Conns : (DestroyWanted(c)' <=> DestroyWanted(c)) /\ (EstablishWanted(c)' <=> EstablishWanted(c))
  BY DEF DestroyWanted, EstablishWanted, Entered
<1> QED BY <1>1, <1>2, FunctorsKept

\* A functor that nothing waits for is queued.
LEMMA FunctorsPlain ==
    ASSUME ServerIInv, UNCHANGED <<at, batch, phase, accepting, inRegistry>>, NEW l \in Loops, NEW p \in Functors,
           queue' = [queue EXCEPT ![l] = Append(@, p)], p.op \in {"listen", "hold", "close"}, OwnFunctor(l, p),
           conn' = conn \/ \E c : Kept(c, "Connected", Disabled(c, "write"))
    PROVE  FunctorsInv' /\ OneFunctorEach'
<1>1. Onward
  BY KindsAreOnward
<1>2. OwnFunctor(l, p)'
  BY <1>1 DEF OwnFunctor, Onward
<1>3. \A c \in Conns : WantedBut(c, p)
  <2>1. \A c \in Conns : p # Functor("destroy", c) /\ p # Functor("establish", c)
    BY DEF Functor
  <2>2. \A c \in Conns : (DestroyWanted(c)' <=> DestroyWanted(c)) /\ (EstablishWanted(c)' <=> EstablishWanted(c))
    <3>1. CASE conn' = conn
      BY <3>1 DEF DestroyWanted, EstablishWanted, Entered
    <3>2. ASSUME NEW c, Kept(c, "Connected", Disabled(c, "write"))
          PROVE  \A d \in Conns : (DestroyWanted(d)' <=> DestroyWanted(d)) /\ (EstablishWanted(d)' <=> EstablishWanted(d))
      BY <3>2 DEF Kept, SameElse, DestroyWanted, EstablishWanted, Entered
    <3> QED BY <3>1, <3>2
  <2> QED BY <2>1, <2>2 DEF WantedBut
<1> QED BY <1>1, <1>2, <1>3, FunctorsQueued

\* A connection goes down and queues its destruction.
LEMMA DownWants ==
    ASSUME ServerIInv, UNCHANGED <<accepting, inRegistry>>, NEW c \in Conns, NEW l, l = conn[c].loop, Down(c)
    PROVE  /\ Onward /\ Functor("destroy", c) \in Functors /\ OwnFunctor(l, Functor("destroy", c))'
           /\ \A d \in Conns : WantedBut(d, Functor("destroy", c))
<1>1. Onward
  BY KindsAreOnward DEF Down
<1>2. /\ conn[c].state_ = "Connected" /\ SameElse(c) /\ conn'[c].state_ = "Disconnected" /\ conn'[c].polled
  BY DEF Down, Kept
<1>3. OwnFunctor(l, Functor("destroy", c))'
  BY <1>2 DEF OwnFunctor, Functor, Began, SameElse
<1>4. \A d \in Conns : /\ Functor("destroy", c) # Functor("establish", d)
                       /\ Functor("destroy", c) = Functor("destroy", d) => c = d
  BY DEF Functor
<1>5. ~DestroyWanted(c) /\ DestroyWanted(c)' /\ ~EstablishWanted(c) /\ ~EstablishWanted(c)'
  BY <1>2 DEF DestroyWanted, EstablishWanted
<1>6. \A d \in Conns \ {c} : (DestroyWanted(d)' <=> DestroyWanted(d)) /\ (EstablishWanted(d)' <=> EstablishWanted(d))
  BY <1>2 DEF SameElse, DestroyWanted, EstablishWanted, Entered
<1>7. \A d \in Conns : WantedBut(d, Functor("destroy", c))
  BY <1>4, <1>5, <1>6 DEF WantedBut
<1> QED BY <1>1, <1>3, <1>7, FunctorsAre

\* A connection that has just been accepted has no functor yet.
LEMMA FunctorsNew ==
    ASSUME ServerIInv, UNCHANGED <<queue, batch, at, phase>>, NEW c, NEW f, NEW l, New(c, f, l),
           accepting = NoConn, accepting' = c, Base \in inRegistry'
    PROVE  FunctorsInv' /\ OneFunctorEach'
<1>1. /\ c \in Conns /\ conn[c].state_ = "none" /\ l \in Loops
      /\ \A d \in Conns \ {c} : conn'[d] = conn[d]
      /\ conn'[c].state_ = "Connecting" /\ conn'[c].loop = l
  BY Types DEF New, ServerIInv
<1>2. ASSUME NEW k \in Loops, NEW p, OwnFunctor(k, p) PROVE OwnFunctor(k, p)' /\ p.c # c
  <2>1. p.c # c
    BY <1>1, <1>2, ServerAssumption DEF OwnFunctor
  <2> QED BY <1>1, <1>2, <2>1 DEF OwnFunctor, Began
<1>3. \A k \in Loops : /\ \A i \in DOMAIN queue[k] : OwnFunctor(k, queue[k][i])
                       /\ \A i \in DOMAIN batch[k] : OwnFunctor(k, batch[k][i])
  BY DEF ServerIInv, FunctorsInv
<1>4. FunctorsInv'
  BY <1>2, <1>3 DEF FunctorsInv, OwnFunctor
<1>5. \A k \in Loops : Waiting(k)' = Waiting(k)
  BY DEF Waiting
<1>6. ASSUME NEW d \in Conns, Running(d)' PROVE OneOf(d)'
  <2>1. CASE d = c
    <3>1. ~DestroyWanted(d)' /\ ~EstablishWanted(d)'
      BY <1>1, <2>1 DEF DestroyWanted, EstablishWanted, Entered
    <3>2. \A i \in DOMAIN Waiting(l) : OwnFunctor(l, Waiting(l)[i])
      BY <1>1, <1>3, WaitingIsSeq DEF ServerIInv
    <3>3. ASSUME NEW op, NEW i \in Where(Waiting(l), Functor(op, c)) PROVE FALSE
      <4>1. OwnFunctor(l, Functor(op, c))
        BY <3>2, <3>3 DEF Where
      <4>2. Functor(op, c).c # c
        BY <1>1, <1>2, <4>1
      <4> QED BY <4>2 DEF Functor
    <3>4. \A op : Where(Waiting(l), Functor(op, c)) = {}
      BY <3>3
    <3> QED BY <1>1, <1>5, <2>1, <3>1, <3>4 DEF OneOf, Marked
  <2>2. CASE d # c
    <3>1. conn'[d] = conn[d] /\ conn[d].loop \in Loops /\ Entered(d) /\ Entered(d)'
      BY <1>1, <2>2, Types, ServerAssumption DEF Entered, ServerIInv
    <3>2. OneOf(d)
      BY <1>6, <3>1, OneFunctorEachIs DEF ServerIInv, Running
    <3>3. (DestroyWanted(d)' <=> DestroyWanted(d)) /\ (EstablishWanted(d)' <=> EstablishWanted(d))
      BY <3>1 DEF DestroyWanted, EstablishWanted
    <3> QED BY <1>5, <3>1, <3>2, <3>3 DEF OneOf, Marked
  <2> QED BY <2>1, <2>2
<1> QED BY <1>4, <1>6, OneFunctorEachNext

FunctorsAll == FunctorsInv /\ OneFunctorEach

LEMMA FunctorsStep ==
    ASSUME ServerIInv, Next, TypeOK'
    PROVE  FunctorsAll'
<1> TypeOK /\ LoopsInv /\ ConnInv
  BY DEF ServerIInv
<1> USE DEF regVars, connVars, loopVars, appVars, FunctorsAll
<1>0. ASSUME UNCHANGED <<accepting, inRegistry>> PROVE \A c \in Conns : Entered(c)' <=> Entered(c)
  BY <1>0 DEF Entered
<1>1. CASE Start
  <2>1. CASE queue' = queue
    BY <1>0, <1>1, <2>1, FunctorsSame DEF Start
  <2>2. CASE queue' = [queue EXCEPT ![Base] = Append(@, Functor("listen", NoConn))]
    <3>1. OwnFunctor(Base, Functor("listen", NoConn)) /\ Functor("listen", NoConn).op = "listen" /\ Base \in Loops
      BY Types DEF OwnFunctor, Functor
    <3> QED BY <1>1, <2>2, <3>1, FunctorsAre, FunctorsPlain DEF Start
  <2> QED BY <1>1, <2>1, <2>2 DEF Start
<1>2. CASE Destroy
  <2>1. \A l \in Loops : phase'[l] # "stopped" => phase[l] # "stopped"
    BY <1>2, TypesHold DEF Destroy
  <2> QED BY <1>0, <1>2, <2>1, FunctorsSame DEF Destroy
<1>3. CASE ClearConnects
  BY <1>0, <1>3, FunctorsSame DEF ClearConnects
<1>4. CASE BaseLoopDestroyed
  <2>1. /\ \A l \in Loops \ {Base} : queue'[l] = queue[l]
        /\ queue'[Base] = <<>> /\ phase[Base] = "stopped"
    BY <1>4, TypesHold DEF BaseLoopDestroyed, LoopsInv
  <2>2. \A l \in Loops \ {Base} : Waiting(l)' = Waiting(l)
    BY <1>4, <2>1 DEF BaseLoopDestroyed, Waiting
  <2> QED BY <1>4, <2>1, <2>2, FunctorsMoved DEF BaseLoopDestroyed
<1>5. ASSUME NEW l \in Loops, SubLoopEnds(l) PROVE FunctorsAll'
  <2>1. /\ \A k \in Loops \ {l} : queue'[k] = queue[k] /\ phase'[k] = phase[k]
        /\ queue'[l] = <<>> /\ phase'[l] = "stopped"
    BY <1>5, TypesHold DEF SubLoopEnds
  <2>2. \A k \in Loops \ {l} : Waiting(k)' = Waiting(k)
    BY <1>5, <2>1 DEF SubLoopEnds, Waiting
  <2> QED BY <1>5, <2>1, <2>2, FunctorsMoved DEF SubLoopEnds
<1>6. ASSUME NEW l \in Loops, Poll(l) PROVE FunctorsAll'
  <2>1. \A k \in Loops : phase'[k] # "stopped" => phase[k] # "stopped"
    BY <1>6, TypesHold DEF Poll
  <2> QED BY <1>0, <1>6, <2>1, FunctorsSame DEF Poll
<1>7. ASSUME NEW l \in Loops, HandleBegin(l) PROVE FunctorsAll'
  BY <1>0, <1>7, FunctorsSame DEF HandleBegin
<1>8. ASSUME NEW l \in Loops, HandleEvent(l) PROVE FunctorsAll'
  <2> PICK c : c = current[l].c
    OBVIOUS
  <2>1. c \in Conns /\ conn[c].loop = l /\ Began(c)
    BY <1>8, HandleEventIs, HandledIs
  <2>2. CASE UNCHANGED <<conn, channels_, queue>>
    BY <1>0, <1>8, <2>2, FunctorsSame DEF HandleEvent
  <2>3. CASE Down(c)
    <3>1. queue' = [queue EXCEPT ![l] = Append(@, Functor("destroy", c))]
      BY <2>1, <2>3 DEF Down
    <3>2. /\ Onward /\ Functor("destroy", c) \in Functors /\ OwnFunctor(l, Functor("destroy", c))'
          /\ \A d \in Conns : WantedBut(d, Functor("destroy", c))
      BY <1>8, <2>1, <2>3, DownWants DEF HandleEvent
    <3> QED BY <1>8, <3>1, <3>2, FunctorsQueued DEF HandleEvent
  <2>4. CASE /\ Kept(c, "Connected", Disabled(c, "write"))
             /\ queue' = [queue EXCEPT ![l] = Append(@, Functor("hold", c))]
    <3>1. OwnFunctor(l, Functor("hold", c)) /\ Functor("hold", c).op = "hold" /\ Functor("hold", c) \in Functors
      BY <2>1, FunctorsAre DEF OwnFunctor, Functor, Began
    <3> QED BY <1>8, <2>4, <3>1, FunctorsPlain DEF HandleEvent
  <2> QED BY <1>8, <2>2, <2>3, <2>4, HandleEventIs
<1>9. ASSUME NEW l \in Loops, MessageReturns(l) \/ HandleEnd(l) PROVE FunctorsAll'
  BY <1>0, <1>9, FunctorsSame DEF MessageReturns, HandleEnd
<1>10. ASSUME NEW l \in Loops, FunctorsBegin(l) PROVE FunctorsAll'
  <2>1. /\ \A k \in Loops \ {l} : queue'[k] = queue[k] /\ batch'[k] = batch[k] /\ phase'[k] = phase[k]
        /\ queue'[l] = <<>> /\ batch'[l] = queue[l] /\ at' = at /\ phase[l] = "handle"
        /\ batch[l] = <<>> /\ at[l] = 1 /\ queue[l] \in Seq(Functors)
    BY <1>10, TypesHold DEF FunctorsBegin, Handling, LoopsInv
  <2>2. Waiting(l)' = Waiting(l)
    BY <2>1, LeftEnds DEF Waiting
  <2>3. \A k \in Loops \ {l} : Waiting(k)' = Waiting(k)
    BY <2>1 DEF Waiting
  <2> QED BY <1>10, <2>1, <2>2, <2>3, FunctorsMoved DEF FunctorsBegin
<1>11. ASSUME NEW l \in Loops, RunFunctor(l) PROVE FunctorsAll'
  <2> PICK c : c = batch[l][at[l]].c
    OBVIOUS
  <2>1. /\ at[l] <= Len(batch[l]) /\ at' = [at EXCEPT ![l] = @ + 1] /\ batch' = batch /\ phase' = phase
        /\ UNCHANGED <<accepting, inRegistry>> /\ batch[l][at[l]].op # "destroy"
    BY <1>11, RunFunctorIs DEF RunFunctor
  <2>2. CASE batch[l][at[l]].op # "establish" /\ UNCHANGED <<conn, channels_, queue>>
    <3>1. Onward
      BY <2>2, KindsAreOnward
    <3>2. ASSUME NEW d \in Conns PROVE WantedNoMore(d, batch[l][at[l]])
      <4>1. (DestroyWanted(d)' <=> DestroyWanted(d)) /\ (EstablishWanted(d)' <=> EstablishWanted(d))
        BY <1>0, <2>1, <2>2 DEF DestroyWanted, EstablishWanted
      <4>2. batch[l][at[l]] # Functor("destroy", d) /\ batch[l][at[l]] # Functor("establish", d)
        BY <2>1, <2>2 DEF Functor
      <4> QED BY <4>1, <4>2 DEF WantedNoMore
    <3> QED BY <2>1, <2>2, <3>1, <3>2, FunctorsRan
  <2>3. CASE NextIs(l, "close") /\ Down(c) /\ conn[c].loop = l
    <3>1. queue' = [queue EXCEPT ![l] = Append(@, Functor("destroy", c))] /\ c \in Conns
      BY <2>3 DEF Down, Kept
    <3>2. /\ Onward /\ Functor("destroy", c) \in Functors /\ OwnFunctor(l, Functor("destroy", c))'
          /\ \A d \in Conns : WantedBut(d, Functor("destroy", c))
      BY <2>1, <2>3, <3>1, DownWants
    <3>3. batch[l][at[l]].op \notin {"destroy", "establish"}
      BY <2>3 DEF NextIs
    <3> QED BY <2>1, <3>1, <3>2, <3>3, FunctorsRanQueued
  <2>4. CASE c \in Conns /\ NextIs(l, "establish") /\ Up(c) /\ queue' = queue
    <3>1. Onward
      BY <2>4, KindsAreOnward
    <3>2. batch[l][at[l]] = Functor("establish", c)
      BY <2>4, FirstFunctor
    <3>3. ASSUME NEW d \in Conns PROVE WantedNoMore(d, Functor("establish", c))
      <4>1. Functor("establish", c) # Functor("destroy", d) /\ (Functor("establish", c) = Functor("establish", d) => c = d)
        BY DEF Functor
      <4>2. d # c => (DestroyWanted(d)' <=> DestroyWanted(d)) /\ (EstablishWanted(d)' <=> EstablishWanted(d))
        BY <1>0, <2>1, <2>4 DEF Up, SameElse, DestroyWanted, EstablishWanted
      <4>3. ~DestroyWanted(c) /\ ~DestroyWanted(c)' /\ ~EstablishWanted(c)'
        BY <2>4 DEF Up, DestroyWanted, EstablishWanted
      <4> QED BY <4>1, <4>2, <4>3 DEF WantedNoMore
    <3> QED BY <2>1, <2>4, <3>1, <3>2, <3>3, FunctorsRan
  <2> QED BY <1>11, <2>2, <2>3, <2>4, RunFunctorIs
<1>12. ASSUME NEW l \in Loops, FunctorsEnd(l) PROVE FunctorsAll'
  <2>1. /\ \A k \in Loops \ {l} : batch'[k] = batch[k] /\ at'[k] = at[k] /\ phase'[k] = phase[k]
        /\ batch'[l] = <<>> /\ at'[l] = 1 /\ queue' = queue /\ phase[l] = "functors"
        /\ batch[l] \in Seq(Functors) /\ queue[l] \in Seq(Functors) /\ at[l] \in Nat
        /\ at[l] \in 1..Len(batch[l])+1 /\ at[l] > Len(batch[l]) /\ Len(batch[l]) \in Nat
    BY <1>12, TypesHold DEF FunctorsEnd
  <2>2. at[l] = Len(batch[l])+1
    BY <2>1
  <2>3. Waiting(l)' = Waiting(l)
    BY <2>1, <2>2, LeftEnds DEF Waiting
  <2>4. \A k \in Loops \ {l} : Waiting(k)' = Waiting(k)
    BY <2>1 DEF Waiting
  <2> QED BY <1>12, <2>1, <2>3, <2>4, FunctorsMoved DEF FunctorsEnd
<1>13. ASSUME NEW l \in Loops, DestroyBegin(l) PROVE FunctorsAll'
  <2>1. \A c \in Conns : Entered(c)' <=> Entered(c)
    BY <1>13, Types DEF DestroyBegin, Enter, NextIs, Entered, LoopsInv
  <2> QED BY <1>13, <2>1, FunctorsSame DEF DestroyBegin
<1>14. ASSUME NEW l \in Loops, DestroyEnd(l) PROVE FunctorsAll'
  <2> PICK c : c = batch[l][at[l]].c
    OBVIOUS
  <2>1. c \in Conns /\ NextIs(l, "destroy") /\ Removed(c) /\ phase[l] = "functors"
    BY <1>14, DestroyEndIs DEF NextIs
  <2>2. /\ at[l] <= Len(batch[l]) /\ at' = [at EXCEPT ![l] = @ + 1] /\ batch' = batch /\ phase' = phase /\ queue' = queue
        /\ accepting' = accepting /\ inRegistry' = inRegistry \ {l} /\ batch[l][at[l]] = Functor("destroy", c)
    BY <1>14, <2>1, FirstFunctor DEF DestroyEnd
  <2>3. \A d \in Conns : Entered(d)' <=> Entered(d)
    <3>1. l = Base => accepting = NoConn
      BY <2>1 DEF LoopsInv
    <3> QED BY <2>2, <3>1, ServerAssumption DEF Entered
  <2>4. Onward
    BY <2>1, KindsAreOnward
  <2>5. ASSUME NEW d \in Conns PROVE WantedNoMore(d, Functor("destroy", c))
    <3>1. Functor("destroy", c) # Functor("establish", d) /\ (Functor("destroy", c) = Functor("destroy", d) => c = d)
      BY DEF Functor
    <3>2. d # c => (DestroyWanted(d)' <=> DestroyWanted(d)) /\ (EstablishWanted(d)' <=> EstablishWanted(d))
      BY <2>1, <2>3 DEF Removed, SameElse, DestroyWanted, EstablishWanted
    <3>3. ~DestroyWanted(c)' /\ ~EstablishWanted(c) /\ ~EstablishWanted(c)'
      BY <2>1 DEF Removed, DestroyWanted, EstablishWanted
    <3> QED BY <3>1, <3>2, <3>3 DEF WantedNoMore
  <2> QED BY <2>2, <2>4, <2>5, FunctorsRan
<1>15. CASE Insert
  <2> PICK c : c = accepting
    OBVIOUS
  <2>1. /\ c \in Conns /\ ~Entered(c) /\ conn[c].state_ = "Connecting" /\ conn[c].loop \in Loops
        /\ UNCHANGED <<at, batch, phase>>
    BY <1>15, InsertIs, Types DEF Insert, Entered
  <2>2. \A d \in Conns : Entered(d)' /\ (d # c => Entered(d))
    BY <1>15 DEF Insert, Entered
  <2>3. CASE Up(c) /\ queue' = queue
    <3>1. Onward
      BY <2>3, KindsAreOnward
    <3>2. ASSUME NEW d \in Conns
          PROVE  (DestroyWanted(d)' <=> DestroyWanted(d)) /\ (EstablishWanted(d)' <=> EstablishWanted(d))
      BY <2>1, <2>2, <2>3 DEF Up, SameElse, DestroyWanted, EstablishWanted
    <3>3. \A l \in Loops : Waiting(l)' = Waiting(l)
      BY <2>1, <2>3 DEF Waiting
    <3> QED BY <2>1, <2>3, <3>1, <3>2, <3>3, FunctorsKept
  <2>4. CASE UNCHANGED conn /\ queue' = [queue EXCEPT ![conn[c].loop] = Append(@, Functor("establish", c))]
    <3> PICK l \in Loops : l = conn[c].loop
      BY <2>1
    <3>1. Onward
      BY <2>4, KindsAreOnward
    <3>2. OwnFunctor(l, Functor("establish", c))' /\ Functor("establish", c) \in Functors
      BY <2>1, <2>4, FunctorsAre DEF OwnFunctor, Functor
    <3>3. ASSUME NEW d \in Conns PROVE WantedBut(d, Functor("establish", c))
      <4>1. Functor("establish", c) # Functor("destroy", d) /\ (Functor("establish", c) = Functor("establish", d) => c = d)
        BY DEF Functor
      <4>2. DestroyWanted(d)' <=> DestroyWanted(d)
        BY <2>4 DEF DestroyWanted
      <4>3. d # c => (EstablishWanted(d)' <=> EstablishWanted(d))
        BY <2>2, <2>4 DEF EstablishWanted
      <4>4. ~EstablishWanted(c) /\ EstablishWanted(c)'
        BY <2>1, <2>2, <2>4 DEF EstablishWanted
      <4> QED BY <4>1, <4>2, <4>3, <4>4 DEF WantedBut
    <3> QED BY <2>1, <2>4, <3>1, <3>2, <3>3, FunctorsQueued
  <2> QED BY <1>15, <2>3, <2>4, InsertIs
<1>16. CASE NewConnectReturns
  <2>1. \A c \in Conns : Entered(c)' <=> Entered(c)
    BY <1>16, ServerAssumption DEF NewConnectReturns, Entered
  <2> QED BY <1>16, <2>1, FunctorsSame DEF NewConnectReturns
<1>17. ASSUME NEW c \in Conns, NEW f \in Fds, Accept(c, f) PROVE FunctorsAll'
  <2>1. PICK l \in connLoops : New(c, f, l)
    BY <1>17, AcceptIsNew
  <2> QED BY <1>17, <2>1, FunctorsNew DEF Accept, CanAccept, Handling, Enter
<1>18. ASSUME NEW c \in Conns, CloseCheck(c) PROVE FunctorsAll'
  BY <1>0, <1>18, FunctorsSame DEF CloseCheck
<1>19. ASSUME NEW c \in Conns, CloseQueue(c) PROVE FunctorsAll'
  <2> PICK l \in Loops : l = conn[c].loop
    BY Types
  <2>1. OwnFunctor(l, Functor("close", c)) /\ Functor("close", c).op = "close" /\ Functor("close", c) \in Functors
    BY <1>19, FunctorsAre DEF CloseQueue, OwnFunctor, Functor, Began, ConnInv
  <2> QED BY <1>19, <2>1, FunctorsPlain DEF CloseQueue, QueueInLoop
<1>20. ASSUME NEW c \in Conns, Send(c) PROVE FunctorsAll'
  <2> PICK l \in Loops : l = conn[c].loop
    BY Types
  <2>1. CASE UNCHANGED <<conn, channels_>> /\ queue' = [queue EXCEPT ![conn[c].loop] = Append(@, Functor("hold", c))]
    <3>1. OwnFunctor(l, Functor("hold", c)) /\ Functor("hold", c).op = "hold" /\ Functor("hold", c) \in Functors
      BY <1>20, SendIs, FunctorsAre DEF OwnFunctor, Functor, Began
    <3> QED BY <1>20, <2>1, <3>1, FunctorsPlain DEF Send
  <2>2. CASE Kept(c, "Connected", Enabled(c, "write")) /\ queue' = queue
    <3>1. Onward
      BY <2>2, KindsAreOnward
    <3>2. \A d \in Conns : (DestroyWanted(d)' <=> DestroyWanted(d)) /\ (EstablishWanted(d)' <=> EstablishWanted(d))
      BY <1>0, <1>20, <2>2 DEF Send, Kept, SameElse, DestroyWanted, EstablishWanted
    <3>3. \A k \in Loops : Waiting(k)' = Waiting(k)
      BY <1>20, <2>2 DEF Send, Waiting
    <3> QED BY <1>20, <2>2, <3>1, <3>2, <3>3, FunctorsKept DEF Send
  <2> QED BY <1>20, <2>1, <2>2, SendIs
<1>21. ASSUME NEW c \in Conns, SetTcpNoDelay(c) PROVE FunctorsAll'
  <2> PICK l \in Loops : l = conn[c].loop
    BY Types
  <2>1. OwnFunctor(l, Functor("hold", c)) /\ Functor("hold", c).op = "hold" /\ Functor("hold", c) \in Functors
    BY <1>21, FunctorsAre DEF SetTcpNoDelay, OwnFunctor, Functor, Began, ConnInv
  <2> QED BY <1>21, <2>1, FunctorsPlain DEF SetTcpNoDelay, QueueInLoop
<1>22. ASSUME NEW c \in Conns, Release(c) PROVE FunctorsAll'
  BY <1>0, <1>22, FunctorsSame DEF Release
<1> QED BY <1>1, <1>2, <1>3, <1>4, <1>5, <1>6, <1>7, <1>8, <1>9, <1>10, <1>11, <1>12, <1>13, <1>14,
           <1>15, <1>16, <1>17, <1>18, <1>19, <1>20, <1>21, <1>22 DEF Next, Continue, ServerEnds, App
-----------------------------------------------------------------------------
(* The inductive invariant                                                 *)

LEMMA ServerInit ==
    ASSUME Init
    PROVE  ServerIInv
<1>1. TypeOK
  <2>1. Base \in Loops /\ <<>> \in Seq(Functors) /\ Len(<<>>) = 0
    BY EmptySeq DEF Loops
  <2>2. conn \in [Conns -> ConnRecords]
    <3>1. [state_ : {"none"}, fd : Fds, loop : {Base}, events : {{}}, polled : {FALSE}] \subseteq ConnRecords
      BY <2>1 DEF ConnRecords
    <3>2. conn \in [Conns -> [state_ : {"none"}, fd : Fds, loop : {Base}, events : {{}}, polled : {FALSE}]]
      BY DEF Init
    <3> QED BY <3>1, <3>2
  <2>3. /\ channels_ \in [Loops -> [Fds -> Conns \cup {NoConn}]] /\ rConnects_ \in [Fds -> Conns \cup {NoConn}]
        /\ queue \in [Loops -> Seq(Functors)] /\ batch \in [Loops -> Seq(Functors)]
        /\ at \in [Loops -> Nat] /\ \A l \in Loops : at[l] \in 1..Len(batch[l])+1
        /\ phase \in [Loops -> {"poll", "handle", "functors", "stopped"}] /\ active \in [Loops -> SUBSET Conns]
    BY <2>1 DEF Init
  <2>4. current \in [Loops -> [c : Conns \cup {NoConn}, todo : SUBSET Events, open : BOOLEAN, message : BOOLEAN]]
    BY DEF Init, Idle
  <2>5. connLoops \subseteq Loops /\ server = "up" /\ listening = FALSE /\ accepting = NoConn
        /\ inRegistry = {} /\ raced = FALSE /\ held = {} /\ closing = {}
    BY DEF Init, Loops
  <2> QED BY <2>2, <2>3, <2>4, <2>5 DEF TypeOK
<1>2. \A c \in Conns : conn[c].state_ = "none" /\ conn[c].events = {} /\ ~conn[c].polled
  BY DEF Init
<1>3. LoopsInv
  BY DEF Init, LoopsInv, Idle
<1>4. FunctorsInv
  BY DEF Init, FunctorsInv
<1>5. ConnInv
  BY <1>2, ServerAssumption DEF Init, ConnInv, Began, Entered
<1>6. TablesInv
  BY DEF Init, TablesInv, Idle
<1>7. RegistryKeepsOwn
  BY <1>2 DEF RegistryKeepsOwn
<1>8. OneFunctorEach
  <2>1. \A l \in Loops : Waiting(l) = <<>>
    BY <1>1, LeftEnds, EmptySeq DEF Init, Waiting
  <2>2. \A c \in Conns : OneOf(c)
    <3>1. \A e : Where(<<>>, e) = {}
      BY DEF Where
    <3> QED BY <1>1, <1>2, <2>1, <3>1, Types DEF OneOf, Marked, DestroyWanted, EstablishWanted
  <2> QED BY <1>1, <1>4, <2>2, OneFunctorEachIs
<1> QED BY <1>1, <1>3, <1>4, <1>5, <1>6, <1>7, <1>8 DEF ServerIInv

LEMMA ServerNext ==
    ASSUME ServerIInv, [Next]_vars
    PROVE  ServerIInv'
<1>1. CASE Next
  BY <1>1, TypeStep, LoopsStep, TablesStep, FunctorsStep DEF ServerIInv, TablesAll, FunctorsAll
<1>2. CASE UNCHANGED vars
  <2> USE DEF vars, regVars, connVars, loopVars, appVars
  <2>1. TypeOK'
    BY <1>2, TypesHold, TypesNext DEF ServerIInv
  <2>2. LoopsInv'
    BY <1>2 DEF ServerIInv, LoopsInv, NextIs
  <2>3. TablesAll'
    <3>1. HandledAreKnown
      BY <1>2, SameIsKnown
    <3> QED BY <1>2, <3>1, TablesSame
  <2>4. FunctorsAll'
    BY <1>2, <2>1, FunctorsSame DEF Entered, FunctorsAll
  <2> QED BY <2>1, <2>2, <2>3, <2>4 DEF ServerIInv, TablesAll, FunctorsAll
<1> QED BY <1>1, <1>2

LEMMA ServerInductive == Spec => []ServerIInv
<1>1. Init => ServerIInv
  BY ServerInit
<1>2. ServerIInv /\ [Next]_vars => ServerIInv'
  BY ServerNext
<1> QED BY <1>1, <1>2, PTL DEF Spec

\* Without sub-loops two threads are never in rConnects_ at once.
LEMMA NoRaceNext ==
    ASSUME ServerIInv, NoRaceInOneLoop, [Next]_vars
    PROVE  NoRaceInOneLoop'
<1> SUFFICES ASSUME connLoops' = {Base} PROVE ~raced' /\ inRegistry' \subseteq {Base}
  BY DEF NoRaceInOneLoop
<1> USE DEF regVars, connVars, loopVars, appVars
<1>1. connLoops = {Base}
  BY DEF vars, Next, Start, ServerEnds, Destroy, ClearConnects, BaseLoopDestroyed, SubLoopEnds, Continue, Poll, HandleBegin,
         HandleEvent, MessageReturns, HandleEnd, FunctorsBegin, RunFunctor, FunctorsEnd, DestroyBegin, DestroyEnd,
         Insert, NewConnectReturns, App, CloseCheck, CloseQueue, Send, SetTcpNoDelay, Release, Accept
<1>2. ~raced /\ inRegistry \subseteq {Base}
  BY <1>1 DEF NoRaceInOneLoop
<1>3. ASSUME NEW c \in Conns, NEW f \in Fds, Accept(c, f) PROVE ~raced' /\ inRegistry' \subseteq {Base}
  <2>1. Base \notin inRegistry
    BY <1>3, Types DEF Accept, CanAccept, Handling, ServerIInv, LoopsInv, NextIs
  <2> QED BY <1>2, <1>3, <2>1 DEF Accept, Enter
<1>4. ASSUME NEW l \in Loops, DestroyBegin(l) PROVE ~raced' /\ inRegistry' \subseteq {Base}
  <2>1. l = Base
    BY <1>1, <1>4, FirstFunctor DEF DestroyBegin
  <2> QED BY <1>2, <1>4, <2>1 DEF DestroyBegin, Enter
<1>5. CASE /\ ~\E c \in Conns, f \in Fds : Accept(c, f)
           /\ ~\E l \in Loops : DestroyBegin(l)
  <2>1. raced' = raced /\ inRegistry' \subseteq inRegistry
    BY <1>5 DEF vars, Next, Start, ServerEnds, Destroy, ClearConnects, BaseLoopDestroyed, SubLoopEnds, Continue, Poll,
           HandleBegin, HandleEvent, MessageReturns, HandleEnd, FunctorsBegin, RunFunctor, FunctorsEnd, DestroyEnd,
           Insert, NewConnectReturns, App, CloseCheck, CloseQueue, Send, SetTcpNoDelay, Release
  <2> QED BY <1>2, <2>1
<1> QED BY <1>3, <1>4, <1>5

\* The types, exactly one functor to establish or to destroy a connection that
\* waits for it and none for any other, and no race in a server of one loop.
THEOREM OneFunctorPerConnection == Spec => []ServerInv
<1>1. Init => NoRaceInOneLoop
  BY DEF Init, NoRaceInOneLoop
<1>2. ServerIInv /\ NoRaceInOneLoop /\ [Next]_vars => NoRaceInOneLoop'
  BY NoRaceNext
<1>3. ServerIInv /\ NoRaceInOneLoop => ServerInv
  BY DEF ServerIInv, ServerInv
<1> QED BY <1>1, <1>2, <1>3, ServerInductive, PTL DEF Spec

\* No functor ever erases the entry of another connection with the same
\* descriptor, and no insertion overwrites one.
THEOREM RegistryIsOwn == Spec => []RegistryKeepsOwn
<1>1. ServerIInv => RegistryKeepsOwn
  BY DEF ServerIInv
<1> QED BY <1>1, ServerInductive, PTL

\* A message callback is called only in a handling of events that began while
\* the connection was up.
THEOREM MessagesWhileOpen == Spec => []MessagesFromOpenChannel
<1>1. ServerIInv => MessagesFromOpenChannel
  BY DEF ServerIInv, LoopsInv, MessagesFromOpenChannel
<1> QED BY <1>1, ServerInductive, PTL

\* The registry has every connection that is polled until its loop ends.
LEMMA PolledAreAlive ==
    ASSUME ServerIInv, NEW c \in Conns, conn[c].polled, Running(c)
    PROVE  Alive(c)
<1>1. Began(c) /\ Entered(c) /\ conn[c].loop \in connLoops /\ conn[c].loop \in Loops
  BY Types DEF ServerIInv, ConnInv, Began
<1>2. server # "gone"
  BY <1>1 DEF ServerIInv, LoopsInv, Running
<1>3. rConnects_[conn[c].fd] = c
  BY <1>1, <1>2 DEF ServerIInv, RegistryKeepsOwn, Entered
<1>4. c \in Range(rConnects_)
  BY <1>3, TypesHold, Types DEF ServerIInv, Tracked, Range
<1> QED BY <1>4 DEF Alive

\* As long as a loop runs, a channel in its poller, or one it still has to
\* handle, belongs to a connection that is not destroyed, whatever pointers the
\* application, the functors and the destructor of the server let go.
THEOREM PolledChannelsAlive == Spec => []ChannelsAlive
<1>1. ASSUME ServerIInv PROVE ChannelsAlive
  <2> SUFFICES ASSUME NEW l \in Loops, phase[l] # "stopped"
               PROVE  /\ \A f \in Fds : LET c == channels_[l][f] IN
                             c # NoConn => Alive(c) /\ conn[c].fd = f /\ conn[c].loop = l /\ conn[c].polled
                      /\ \A c \in active[l] : channels_[l][conn[c].fd] = c
                      /\ \A c \in Conns : conn[c].state_ = "Connected" /\ conn[c].loop = l
                             => channels_[l][conn[c].fd] = c
    BY DEF ChannelsAlive
  <2>1. ASSUME NEW f \in Fds, channels_[l][f] # NoConn, NEW c, c = channels_[l][f]
        PROVE  Alive(c) /\ conn[c].fd = f /\ conn[c].loop = l /\ conn[c].polled
    <3>1. c \in Conns /\ conn[c].fd = f /\ conn[c].loop = l /\ conn[c].polled
      BY <1>1, <2>1, Types DEF ServerIInv, TablesInv
    <3> QED BY <1>1, <3>1, PolledAreAlive DEF Running
  <2>2. \A c \in active[l] : channels_[l][conn[c].fd] = c
    BY <1>1 DEF ServerIInv, TablesInv
  <2>3. \A c \in Conns : conn[c].state_ = "Connected" /\ conn[c].loop = l => channels_[l][conn[c].fd] = c
    BY <1>1 DEF ServerIInv, ConnInv
  <2> QED BY <2>1, <2>2, <2>3
<1> QED BY <1>1, ServerInductive, PTL

\* When the server and the base loop are gone no functor, no callback and no
\* connection itself holds a connection: only the application does.
THEOREM NothingSurvives == Spec => []NothingLeftBehind
<1>1. ASSUME ServerIInv, server = "gone", queue[Base] = <<>>, NEW c \in Conns, Alive(c) PROVE c \in held
  <2>1. \A l \in connLoops : l \in Loops /\ phase[l] = "stopped"
    BY <1>1, Types DEF ServerIInv, LoopsInv
  <2>2. \A d \in Conns : conn[d].state_ # "none" => conn[d].loop \in connLoops /\ ~Running(d)
    BY <1>1, <2>1 DEF ServerIInv, ConnInv, Running
  <2>3. c \notin Range(rConnects_)
    BY <1>1, TypesHold, ServerAssumption DEF ServerIInv, LoopsInv, Tracked, Range
  <2>4. c # accepting
    BY <1>1, Types DEF ServerIInv, LoopsInv
  <2>5. c \notin closing
    BY <1>1, <2>2 DEF ServerIInv, ConnInv, Began
  <2>6. ASSUME NEW l \in Loops PROVE c \notin Captured(l) /\ c # current[l].c
    <3>1. ASSUME c = current[l].c PROVE FALSE
      <4>1. conn[c].loop = l /\ Began(c) /\ phase[l] = "handle"
        BY <1>1, <3>1, HandledIs, ServerAssumption
      <4> QED BY <2>2, <4>1 DEF Began, Running
    <3>2. ASSUME NEW p \in Range(queue[l]) \cup Range(batch[l]), p.c = c PROVE FALSE
      <4>1. OwnFunctor(l, p)
        BY <1>1, <3>2 DEF ServerIInv, FunctorsInv, Range
      <4>2. conn[c].loop = l /\ conn[c].state_ # "none"
        BY <3>2, <4>1, ServerAssumption DEF OwnFunctor
      <4>3. l \in connLoops /\ phase[l] = "stopped"
        BY <2>1, <2>2, <4>2
      <4>4. queue[l] = <<>> /\ batch[l] = <<>>
        BY <1>1, <4>3 DEF ServerIInv, LoopsInv
      <4> QED BY <3>2, <4>4 DEF Range
    <3> QED BY <3>1, <3>2 DEF Captured
  <2> QED BY <1>1, <2>3, <2>4, <2>5, <2>6 DEF Alive
<1>2. ServerIInv => NothingLeftBehind
  BY <1>1 DEF NothingLeftBehind
<1> QED BY <1>2, ServerInductive, PTL
-----------------------------------------------------------------------------
(* A connection lives as ConnectionLife says                               *)

\* Whoever has a pointer after a step has it from one that was there before.
LEMMA NoneRevived ==
    ASSUME ServerIInv, rConnects_' \in Tracked, accepting' \in {accepting, NoConn},
           \A f \in Fds : rConnects_'[f] \in {rConnects_[f], accepting, NoConn},
           \A d \in held' \cup closing' : Alive(d),
           \A l \in Loops : current'[l].c = NoConn \/ Alive(current'[l].c),
           \A l \in Loops : \A p \in Range(queue'[l]) \cup Range(batch'[l]) : p.c = NoConn \/ Alive(p.c),
           NEW d \in Conns, Alive(d)'
    PROVE  Alive(d)
<1>1. d # NoConn /\ rConnects_ \in Tracked
  BY ServerAssumption, TypesHold DEF ServerIInv
<1>2. CASE d \in Range(rConnects_')
  <2>1. PICK f \in Fds : d = rConnects_'[f]
    BY <1>2 DEF Range, Tracked
  <2>2. d = accepting \/ d \in Range(rConnects_)
    BY <1>1, <2>1 DEF Range, Tracked
  <2> QED BY <2>2 DEF Alive
<1>3. CASE d = accepting'
  BY <1>1, <1>3 DEF Alive
<1>4. CASE d \in held' \cup closing'
  BY <1>4
<1>5. CASE \E l \in Loops : d = current'[l].c
  BY <1>1, <1>5
<1>6. CASE \E l \in Loops : d \in {p.c : p \in Range(queue'[l]) \cup Range(batch'[l])}
  BY <1>1, <1>6
<1> QED BY <1>2, <1>3, <1>4, <1>5, <1>6 DEF Alive, Captured

\* No pointer is dropped in a step that only adds some.
LEMMA NoneDropped ==
    ASSUME \A d \in Range(rConnects_) \ {NoConn} : d \in Range(rConnects_'), accepting' = accepting,
           held \subseteq held', closing' = closing, batch' = batch,
           \A l \in Loops : current'[l].c = current[l].c,
           \A l \in Loops : Range(queue[l]) \subseteq Range(queue'[l]),
           NEW d \in Conns, Alive(d)
    PROVE  Alive(d)'
<1>1. \A l \in Loops : d \in Captured(l) => d \in Captured(l)'
  BY DEF Captured
<1> QED BY <1>1, ServerAssumption DEF Alive

\* A functor that is queued, and the pointers of the others.
LEMMA QueuedAre ==
    ASSUME TypeOK, NEW k \in Loops, NEW p \in Functors, queue' = [queue EXCEPT ![k] = Append(@, p)]
    PROVE  \A l \in Loops : /\ Range(queue[l]) \subseteq Range(queue'[l])
                            /\ Range(queue'[l]) \subseteq Range(queue[l]) \cup {p}
<1>1. queue \in [Loops -> Seq(Functors)]
  BY ConnTypes
<1>2. ASSUME NEW q \in Seq(Functors)
      PROVE  Range(q) \subseteq Range(Append(q, p)) /\ Range(Append(q, p)) \subseteq Range(q) \cup {p}
  <2>1. /\ Len(Append(q, p)) = Len(q) + 1 /\ Append(q, p)[Len(q)+1] = p
        /\ \A i \in 1..Len(q) : Append(q, p)[i] = q[i]
        /\ DOMAIN q = 1..Len(q) /\ DOMAIN Append(q, p) = 1..Len(q)+1 /\ Len(q) \in Nat
    BY <1>2
  <2> QED BY <2>1 DEF Range
<1> QED BY <1>1, <1>2

\* Every functor there is holds a connection that is alive.
LEMMA HoldersAreAlive ==
    ASSUME ServerIInv
    PROVE  /\ \A l \in Loops : \A p \in Range(queue[l]) \cup Range(batch[l]) : p.c = NoConn \/ Alive(p.c)
           /\ \A l \in Loops : current[l].c = NoConn \/ Alive(current[l].c)
           /\ \A d \in held \cup closing : Alive(d)
           /\ \A f \in Fds : rConnects_[f] = NoConn \/ Alive(rConnects_[f])
<1>1. rConnects_ \in Tracked
  BY TypesHold DEF ServerIInv
<1> QED BY <1>1 DEF Alive, Captured, Range, Tracked

\* ... also after a step that queues one more of them.
LEMMA HoldersStayAlive ==
    ASSUME ServerIInv, NEW k \in Loops, NEW p \in Functors, Alive(p.c), batch' = batch,
           queue' = queue \/ queue' = [queue EXCEPT ![k] = Append(@, p)]
    PROVE  \A l \in Loops : \A e \in Range(queue'[l]) \cup Range(batch'[l]) : e.c = NoConn \/ Alive(e.c)
<1> SUFFICES ASSUME NEW l \in Loops, NEW e \in Range(queue'[l]) \cup Range(batch'[l])
             PROVE  e.c = NoConn \/ Alive(e.c)
  OBVIOUS
<1>1. Range(queue'[l]) \subseteq Range(queue[l]) \cup {p}
  <2>1. TypeOK
    BY DEF ServerIInv
  <2> QED BY <2>1, QueuedAre
<1>2. e = p \/ e \in Range(queue[l]) \cup Range(batch[l])
  BY <1>1
<1> QED BY <1>2, HoldersAreAlive

\* Neither its state nor its descriptor changes.
StateKept == \A c \in Conns : conn'[c].state_ = conn[c].state_ /\ conn'[c].fd = conn[c].fd

\* The life of a connection, state by state.
LifeTable(state, alive, life) ==
    /\ life = "none" <=> state = "none"
    /\ life = "accepted" <=> state = "Connecting" /\ alive
    /\ life = "up" <=> state = "Connected" /\ alive
    /\ life = "down" <=> state = "Disconnected" /\ alive
    /\ life = "gone" <=> state # "none" /\ ~alive
    /\ life \in {"none", "accepted", "up", "down", "gone"}

LEMMA LifeIs ==
    ASSUME ServerIInv, ServerIInv', NEW c \in Conns
    PROVE  LifeTable(conn[c].state_, Alive(c), Life(c)) /\ LifeTable(conn'[c].state_, Alive(c)', Life(c)')
<1>1. /\ conn[c].state_ \in {"none", "Connecting", "Connected", "Disconnected"}
      /\ conn'[c].state_ \in {"none", "Connecting", "Connected", "Disconnected"}
  BY DEF ServerIInv, TypeOK, ConnRecords
<1> HIDE DEF Alive
<1> QED BY <1>1 DEF Life, LifeOf, LifeTable

Lives == <<[c \in Conns |-> Life(c)], [c \in Conns |-> conn[c].fd], server = "up">>

\* A step that changes no state drops pointers at most, and only a connection
\* that is down is destroyed by it while the server is up: the registry holds
\* the others.
LEMMA OnlyDestroys ==
    ASSUME ServerIInv, ServerIInv', StateKept, (server' = "up") <=> (server = "up"),
           \A c \in Conns : Alive(c)' => Alive(c)
    PROVE  ConnectionLifeOf!Next
<1> DEFINE S == {c \in Conns : conn[c].state_ # "none" /\ Alive(c) /\ ~Alive(c)'}
<1>1. ASSUME NEW c \in S PROVE Life(c) = "down" \/ (server # "up" /\ Life(c) # "none")
  <2>1. conn[c].state_ \in {"Connecting", "Connected", "Disconnected"} /\ LifeTable(conn[c].state_, Alive(c), Life(c))
    BY LifeIs DEF ServerIInv, TypeOK, ConnRecords
  <2>2. ASSUME server = "up", conn[c].state_ # "Disconnected" PROVE FALSE
    <3>1. conn'[c].state_ \in {"Connecting", "Connected"} /\ server' = "up" /\ conn'[c].fd \in Fds
      BY <2>1, <2>2 DEF StateKept, ServerIInv, TypeOK, ConnRecords
    <3>2. CASE c = accepting'
      BY <3>2 DEF Alive
    <3>3. CASE c # accepting'
      <4>1. rConnects_'[conn'[c].fd] = c
        BY <3>1, <3>3 DEF ServerIInv, RegistryKeepsOwn
      <4>2. c \in Range(rConnects_')
        BY <3>1, <4>1 DEF ServerIInv, TypeOK, Range
      <4> QED BY <4>2 DEF Alive
    <3> QED BY <3>2, <3>3
  <2> QED BY <2>1, <2>2 DEF LifeTable
<1>2. \A c \in Conns : Life(c)' = IF c \in S THEN "gone" ELSE Life(c)
  <2> SUFFICES ASSUME NEW c \in Conns PROVE Life(c)' = IF c \in S THEN "gone" ELSE Life(c)
    OBVIOUS
  <2>1. /\ LifeTable(conn[c].state_, Alive(c), Life(c)) /\ LifeTable(conn'[c].state_, Alive(c)', Life(c)')
        /\ conn'[c].state_ = conn[c].state_
        /\ Alive(c)' => Alive(c)
    BY LifeIs DEF StateKept
  <2> QED BY <2>1 DEF LifeTable
<1>3. [c \in Conns |-> Life(c)'] = [c \in Conns |-> IF c \in S THEN "gone" ELSE [d \in Conns |-> Life(d)][c]]
  BY <1>2
<1>4. [c \in Conns |-> conn'[c].fd] = [c \in Conns |-> conn[c].fd] /\ (server = "up")' = (server = "up")
  BY DEF StateKept
<1> HIDE DEF S
<1>5. S \in SUBSET Conns
  BY DEF S
<1>6. ConnectionLifeOf!Destroy(S)
  BY <1>1, <1>3, <1>4, <1>5 DEF ConnectionLifeOf!Destroy
<1> QED BY <1>5, <1>6 DEF ConnectionLifeOf!Next

\* One connection goes from one state to the next, and no pointer is dropped.
LEMMA OneMoves ==
    ASSUME ServerIInv, ServerIInv', NEW c \in Conns, SameElse(c), server' = server,
           \A d \in Conns : Alive(d)' <=> Alive(d), Alive(c),
           \/ conn[c].state_ = "Connecting" /\ conn'[c].state_ = "Connected"
           \/ conn[c].state_ = "Connected" /\ conn'[c].state_ = "Disconnected"
    PROVE  ConnectionLifeOf!Next
<1>1. \A d \in Conns : /\ LifeTable(conn[d].state_, Alive(d), Life(d))
                       /\ LifeTable(conn'[d].state_, Alive(d)', Life(d)')
  BY LifeIs
<1>2. \A d \in Conns \ {c} : Life(d)' = Life(d)
  BY <1>1 DEF LifeTable, SameElse
<1>3. [d \in Conns |-> conn'[d].fd] = [d \in Conns |-> conn[d].fd] /\ (server = "up")' = (server = "up")
  BY DEF SameElse
<1>4. CASE conn[c].state_ = "Connecting" /\ conn'[c].state_ = "Connected"
  <2>1. Life(c) = "accepted" /\ Life(c)' = "up"
    BY <1>1, <1>4 DEF LifeTable
  <2>2. [d \in Conns |-> Life(d)'] = [[d \in Conns |-> Life(d)] EXCEPT ![c] = "up"]
    BY <1>2, <2>1
  <2>3. ConnectionLifeOf!ConnectCallback(c)
    BY <1>3, <2>1, <2>2 DEF ConnectionLifeOf!ConnectCallback
  <2> QED BY <2>3 DEF ConnectionLifeOf!Next
<1>5. CASE conn[c].state_ = "Connected" /\ conn'[c].state_ = "Disconnected"
  <2>1. Life(c) = "up" /\ Life(c)' = "down"
    BY <1>1, <1>5 DEF LifeTable
  <2>2. [d \in Conns |-> Life(d)'] = [[d \in Conns |-> Life(d)] EXCEPT ![c] = "down"]
    BY <1>2, <2>1
  <2>3. ConnectionLifeOf!DisconnectCallback(c)
    BY <1>3, <2>1, <2>2 DEF ConnectionLifeOf!DisconnectCallback
  <2> QED BY <2>3 DEF ConnectionLifeOf!Next
<1> QED BY <1>4, <1>5

\* A descriptor is accepted again only after its connection was destroyed.
LEMMA LifeAccepts ==
    ASSUME ServerIInv, ServerIInv', NEW c \in Conns, NEW f \in Fds, Accept(c, f)
    PROVE  ConnectionLifeOf!Next
<1>1. PICK l \in connLoops : New(c, f, l)
  BY AcceptIsNew
<1>2. accepting = NoConn /\ accepting' = c /\ server = "up" /\ server' = server
  BY Types DEF Accept, CanAccept, Handling, ServerIInv, LoopsInv, TypeOK
<1>3. \A d \in Conns \ {c} : Alive(d)' <=> Alive(d)
  <2>1. /\ UNCHANGED <<rConnects_, held, closing, queue, batch, current>>
    BY DEF Accept, loopVars, appVars
  <2>2. \A k \in Loops : Captured(k)' = Captured(k)
    BY <2>1 DEF Captured
  <2> QED BY <1>2, <2>1, <2>2, ServerAssumption DEF Alive
<1>4. Alive(c)'
  BY <1>2 DEF Alive
<1>5. \A d \in Conns : /\ LifeTable(conn[d].state_, Alive(d), Life(d))
                       /\ LifeTable(conn'[d].state_, Alive(d)', Life(d)')
  BY LifeIs
<1>6. \A d \in Conns \ {c} : Life(d)' = Life(d)
  BY <1>1, <1>3, <1>5 DEF LifeTable, New
<1>7. Life(c) = "none" /\ Life(c)' = "accepted"
  BY <1>1, <1>4, <1>5 DEF LifeTable, New
<1>8. [d \in Conns |-> Life(d)'] = [[d \in Conns |-> Life(d)] EXCEPT ![c] = "accepted"]
  BY <1>6, <1>7
<1>9. [d \in Conns |-> conn'[d].fd] = [[d \in Conns |-> conn[d].fd] EXCEPT ![c] = f]
  BY <1>1 DEF New
<1>10. \A d \in Conns : conn[d].fd = f => Life(d) \in {"none", "gone"}
  BY <1>5 DEF Accept, FreeFd, LifeTable
<1>11. ConnectionLifeOf!Accept(c, f)
  BY <1>2, <1>7, <1>8, <1>9, <1>10 DEF ConnectionLifeOf!Accept, ConnectionLifeOf!Free
<1> QED BY <1>11 DEF ConnectionLifeOf!Next

\* A connection comes up with its pointers, in the base loop ...
LEMMA LifeInserts ==
    ASSUME ServerIInv, ServerIInv', Insert
    PROVE  [ConnectionLifeOf!Next]_Lives
<1> DEFINE c == accepting
<1>1. /\ c \in Conns /\ server' = server /\ accepting' = c /\ Alive(c) /\ c # NoConn
      /\ UNCHANGED <<batch, current, closing>>
      /\ \A f \in Fds : rConnects_'[f] \in {rConnects_[f], c}
  <2>1. c \in Conns /\ rConnects_' = [rConnects_ EXCEPT ![conn[c].fd] = c] /\ rConnects_ \in Tracked
    BY InsertIs, TypesHold DEF ServerIInv
  <2> QED BY <2>1, ServerAssumption DEF Insert, Alive, Tracked
<1>2. \A d \in Range(rConnects_) \ {NoConn} : d \in Range(rConnects_')
  <2>1. c \in Conns /\ rConnects_' = [rConnects_ EXCEPT ![conn[c].fd] = c] /\ rConnects_ \in Tracked
    BY InsertIs, TypesHold DEF ServerIInv
  <2>2. rConnects_[conn[c].fd] = NoConn
    BY <2>1 DEF ServerIInv, ConnInv, Entered, Insert
  <2> QED BY <2>1, <2>2 DEF Range, Tracked
<1>3. rConnects_' \in Tracked
  BY TypesHold DEF ServerIInv, TypeOK, Tracked
<1>4. CASE conn[c].loop = Base
  <2>1. queue' = queue /\ held' \in {held, held \cup {c}} /\ Up(c)
    BY <1>4, InsertIs
  <2>2. \A d \in Conns : Alive(d)' => Alive(d)
    BY <1>1, <1>3, <2>1, HoldersAreAlive, NoneRevived
  <2>3. \A d \in Conns : Alive(d) => Alive(d)'
    BY <1>1, <1>2, <2>1, NoneDropped
  <2>4. ConnectionLifeOf!Next
    BY <1>1, <2>1, <2>2, <2>3, OneMoves DEF Up
  <2> QED BY <2>4
<1>5. CASE conn[c].loop # Base
  <2> DEFINE k == conn[c].loop  p == Functor("establish", c)
  <2>1. UNCHANGED <<conn, held>> /\ queue' = [queue EXCEPT ![k] = Append(@, p)] /\ k \in Loops /\ p \in Functors
    BY <1>1, <1>5, InsertIs, Types, FunctorsAre DEF ServerIInv
  <2>2. p.c = c /\ TypeOK
    BY DEF Functor, ServerIInv
  <2> HIDE DEF c, k, p
  <2>3. \A l \in Loops : \A e \in Range(queue'[l]) \cup Range(batch'[l]) : e.c = NoConn \/ Alive(e.c)
    BY <1>1, <2>1, <2>2, HoldersStayAlive DEF c
  <2>4. \A d \in Conns : Alive(d)' => Alive(d)
    BY <1>1, <1>3, <2>1, <2>3, HoldersAreAlive, NoneRevived DEF c
  <2>5. ConnectionLifeOf!Next
    BY <1>1, <2>1, <2>4, OnlyDestroys DEF StateKept
  <2> QED BY <2>5
<1> QED BY <1>4, <1>5

\* ... and goes down with them, its last functor among them.
LEMMA LifeGoesDown ==
    ASSUME ServerIInv, ServerIInv', NEW c \in Conns, Down(c), Alive(c),
           UNCHANGED <<server, rConnects_, accepting, held, closing, batch>>,
           \A l \in Loops : current'[l].c = current[l].c
    PROVE  ConnectionLifeOf!Next
<1> DEFINE k == conn[c].loop  p == Functor("destroy", c)
<1>1. /\ queue' = [queue EXCEPT ![k] = Append(@, p)] /\ k \in Loops /\ p \in Functors /\ p.c = c
      /\ rConnects_' \in Tracked /\ TypeOK
  BY Types, TypesHold, FunctorsAre DEF Down, ServerIInv, Functor
<1> HIDE DEF k, p
<1>2. \A l \in Loops : \A e \in Range(queue'[l]) \cup Range(batch'[l]) : e.c = NoConn \/ Alive(e.c)
  BY <1>1, HoldersStayAlive
<1>3. \A d \in Conns : Alive(d)' => Alive(d)
  BY <1>1, <1>2, HoldersAreAlive, NoneRevived
<1>4. \A l \in Loops : Range(queue[l]) \subseteq Range(queue'[l])
  BY <1>1, QueuedAre
<1>5. \A d \in Conns : Alive(d) => Alive(d)'
  BY <1>4, NoneDropped
<1> QED BY <1>3, <1>5, OneMoves DEF Down, Kept

\* Another step queues one functor at most, of a connection that is alive, and
\* changes no state.
LEMMA LifeQueues ==
    ASSUME ServerIInv, ServerIInv', StateKept, NEW k \in Loops, NEW p \in Functors, Alive(p.c),
           queue' = queue \/ queue' = [queue EXCEPT ![k] = Append(@, p)],
           UNCHANGED <<server, rConnects_, accepting, batch>>,
           held' \subseteq held, closing' \subseteq held \cup closing,
           \A l \in Loops : current'[l].c = NoConn \/ Alive(current'[l].c)
    PROVE  ConnectionLifeOf!Next
<1>1. rConnects_' \in Tracked /\ TypeOK
  BY TypesHold DEF ServerIInv
<1>2. \A l \in Loops : \A e \in Range(queue'[l]) \cup Range(batch'[l]) : e.c = NoConn \/ Alive(e.c)
  BY <1>1, HoldersStayAlive
<1>3. \A d \in Conns : Alive(d)' => Alive(d)
  BY <1>1, <1>2, HoldersAreAlive, NoneRevived
<1> QED BY <1>3, OnlyDestroys

\* And a step that queues none.
LEMMA LifeDrops ==
    ASSUME ServerIInv, ServerIInv', StateKept, (server' = "up") <=> (server = "up"),
           accepting' \in {accepting, NoConn}, held' \subseteq held, closing' \subseteq held \cup closing,
           \A f \in Fds : rConnects_'[f] \in {rConnects_[f], NoConn},
           \A l \in Loops : /\ current'[l].c = NoConn \/ Alive(current'[l].c)
                            /\ Range(queue'[l]) \cup Range(batch'[l]) \subseteq Range(queue[l]) \cup Range(batch[l])
    PROVE  ConnectionLifeOf!Next
<1>1. rConnects_' \in Tracked
  BY DEF ServerIInv, TypeOK, Tracked
<1>2. \A d \in Conns : Alive(d)' => Alive(d)
  BY <1>1, HoldersAreAlive, NoneRevived
<1> QED BY <1>2, OnlyDestroys

LEMMA LifeStep ==
    ASSUME ServerIInv, ServerIInv', [Next]_vars
    PROVE  [ConnectionLifeOf!Next]_Lives
<1> USE DEF regVars, connVars, loopVars, appVars
<1>0. /\ \A l \in Loops : \A p \in Range(queue[l]) \cup Range(batch[l]) : p.c = NoConn \/ Alive(p.c)
      /\ \A l \in Loops : current[l].c = NoConn \/ Alive(current[l].c)
      /\ \A d \in held \cup closing : Alive(d)
      /\ \A f \in Fds : rConnects_[f] = NoConn \/ Alive(rConnects_[f])
  BY HoldersAreAlive
<1>1. CASE UNCHANGED vars
  BY <1>0, <1>1, LifeDrops DEF vars, StateKept
<1>2. CASE Start
  <2>1. StateKept
    BY <1>2 DEF Start, StateKept
  <2>2. CASE UNCHANGED queue
    BY <1>0, <1>2, <2>1, <2>2, LifeDrops DEF Start
  <2>3. CASE queue' = [queue EXCEPT ![Base] = Append(@, Functor("listen", NoConn))]
    <3>1. \A l \in Loops : Range(queue'[l]) \subseteq Range(queue[l]) \cup {Functor("listen", NoConn)}
      BY <2>3, FunctorsAre, QueuedAre, Types DEF ServerIInv
    <3>2. Functor("listen", NoConn).c = NoConn
      BY DEF Functor
    <3> HIDE DEF Functor
    <3>3. \A l \in Loops : \A e \in Range(queue'[l]) \cup Range(batch'[l]) : e.c = NoConn \/ Alive(e.c)
      BY <1>0, <1>2, <3>1, <3>2 DEF Start
    <3>4. rConnects_' \in Tracked
      BY DEF ServerIInv, TypeOK, Tracked
    <3>5. \A d \in Conns : Alive(d)' => Alive(d)
      BY <1>0, <1>2, <3>3, <3>4, NoneRevived DEF Start
    <3> QED BY <1>2, <2>1, <3>5, OnlyDestroys DEF Start
  <2> QED BY <1>2, <2>2, <2>3 DEF Start
<1>3. CASE Destroy
  <2>1. UNCHANGED <<rConnects_, accepting, conn, queue, batch, current, held, closing>> /\ server = "up" /\ server' = "joining"
    BY <1>3 DEF Destroy
  <2>2. \A c \in Conns : Alive(c)' <=> Alive(c)
    BY <2>1 DEF Alive, Captured
  <2>3. \A c \in Conns : Life(c)' = Life(c)
    BY <2>1, <2>2 DEF Life
  <2>4. ConnectionLifeOf!Close
    BY <2>1, <2>3 DEF ConnectionLifeOf!Close
  <2> QED BY <2>4 DEF ConnectionLifeOf!Next
<1>4. CASE ClearConnects
  BY <1>0, <1>4, LifeDrops DEF ClearConnects, StateKept
<1>5. CASE BaseLoopDestroyed
  <2>1. \A l \in Loops : Range(queue'[l]) \subseteq Range(queue[l])
    BY <1>5, ConnTypes DEF BaseLoopDestroyed, Range, ServerIInv
  <2> QED BY <1>0, <1>5, <2>1, LifeDrops DEF BaseLoopDestroyed, StateKept
<1>6. ASSUME NEW l \in Loops, SubLoopEnds(l) PROVE ConnectionLifeOf!Next
  <2>1. \A k \in Loops : Range(queue'[k]) \subseteq Range(queue[k])
    BY <1>6, ConnTypes DEF SubLoopEnds, Range, ServerIInv
  <2> QED BY <1>0, <1>6, <2>1, LifeDrops DEF SubLoopEnds, StateKept
<1>7. ASSUME NEW l \in Loops, Poll(l) PROVE ConnectionLifeOf!Next
  BY <1>0, <1>7, LifeDrops DEF Poll, StateKept
<1>8. ASSUME NEW l \in Loops, HandleBegin(l) PROVE ConnectionLifeOf!Next
  <2>1. PICK c \in active[l] : \E x : x.c = c /\ current' = [current EXCEPT ![l] = x]
    <3>1. PICK c \in active[l], todo \in SUBSET Events :
              current' = [current EXCEPT ![l] = [c |-> c, todo |-> todo, message |-> FALSE,
                                                 open |-> conn[c].state_ = "Connected"]]
      BY <1>8 DEF HandleBegin
    <3>2. [c |-> c, todo |-> todo, message |-> FALSE, open |-> conn[c].state_ = "Connected"].c = c
      OBVIOUS
    <3> QED BY <3>1, <3>2
  <2>2. c \in Conns /\ Running(c) /\ Began(c) /\ conn[c].polled
    BY <2>1, HandledIs DEF Running
  <2>3. Alive(c)
    BY <2>2, PolledAreAlive
  <2>4. \A k \in Loops : current'[k].c = NoConn \/ Alive(current'[k].c)
    BY <1>0, <2>1, <2>3, ConnTypes DEF ServerIInv
  <2> QED BY <1>0, <1>8, <2>4, LifeDrops DEF HandleBegin, StateKept
<1>9. ASSUME NEW l \in Loops, HandleEvent(l) PROVE ConnectionLifeOf!Next
  <2>1. PICK x : Remains(l, x) /\ current' = [current EXCEPT ![l] = x]
    BY <1>9, HandleEventIs
  <2>2. PICK c \in Conns : c = current[l].c /\ c # NoConn
    BY <1>9, HandleEventIs
  <2>3. /\ Alive(c) /\ conn[c].loop = l
        /\ \A k \in Loops : current'[k].c = current[k].c
    BY <1>0, <2>1, <2>2, HandledIs, ConnTypes DEF ServerIInv, Remains
  <2>4. UNCHANGED <<server, rConnects_, accepting, held, closing, batch>>
    BY <1>9 DEF HandleEvent
  <2>5. CASE UNCHANGED <<conn, channels_, queue>>
    BY <1>0, <2>3, <2>4, <2>5, LifeDrops DEF StateKept
  <2>6. CASE Down(c)
    BY <2>3, <2>4, <2>6, LifeGoesDown
  <2>7. CASE /\ Kept(c, "Connected", Disabled(c, "write"))
             /\ queue' = [queue EXCEPT ![l] = Append(@, Functor("hold", c))]
    <3>1. StateKept
      BY <2>7 DEF Kept, SameElse, StateKept
    <3>2. Functor("hold", c) \in Functors /\ Functor("hold", c).c = c
      BY FunctorsAre DEF Functor
    <3> HIDE DEF Functor
    <3> QED BY <1>0, <2>3, <2>4, <2>7, <3>1, <3>2, LifeQueues
  <2> QED BY <1>9, <2>2, <2>5, <2>6, <2>7, HandleEventIs
<1>10. ASSUME NEW l \in Loops, MessageReturns(l) \/ HandleEnd(l) PROVE ConnectionLifeOf!Next
  <2>1. \A k \in Loops : current'[k].c = NoConn \/ Alive(current'[k].c)
    <3>1. current \in [Loops -> Handled]
      BY ConnTypes DEF ServerIInv
    <3>2. CASE MessageReturns(l)
      <4>1. current' = [current EXCEPT ![l] = [current[l] EXCEPT !.message = FALSE]]
        BY <3>2 DEF MessageReturns
      <4>2. [current[l] EXCEPT !.message = FALSE].c = current[l].c
        BY <3>1 DEF Handled
      <4> QED BY <1>0, <3>1, <4>1, <4>2
    <3>3. CASE HandleEnd(l)
      BY <1>0, <3>1, <3>3 DEF HandleEnd, Idle
    <3> QED BY <1>10, <3>2, <3>3
  <2> QED BY <1>0, <1>10, <2>1, LifeDrops DEF MessageReturns, HandleEnd, StateKept
<1>11. ASSUME NEW l \in Loops, FunctorsBegin(l) \/ FunctorsEnd(l) PROVE ConnectionLifeOf!Next
  <2>1. \A k \in Loops : Range(queue'[k]) \cup Range(batch'[k]) \subseteq Range(queue[k]) \cup Range(batch[k])
    <3>1. queue \in [Loops -> Seq(Functors)] /\ batch \in [Loops -> Seq(Functors)] /\ Range(<<>>) = {}
      BY ConnTypes DEF ServerIInv, Range
    <3>2. CASE FunctorsBegin(l)
      BY <3>1, <3>2 DEF FunctorsBegin
    <3>3. CASE FunctorsEnd(l)
      BY <3>1, <3>3 DEF FunctorsEnd
    <3> QED BY <1>11, <3>2, <3>3
  <2> QED BY <1>0, <1>11, <2>1, LifeDrops DEF FunctorsBegin, FunctorsEnd, StateKept
<1>12. ASSUME NEW l \in Loops, RunFunctor(l) PROVE ConnectionLifeOf!Next
  <2> DEFINE c == batch[l][at[l]].c
  <2>1. UNCHANGED <<server, rConnects_, accepting, closing, batch, current>>
    BY <1>12 DEF RunFunctor
  <2>2. c = NoConn \/ Alive(c)
    <3>1. at[l] \in DOMAIN batch[l]
      BY <1>12, RunFunctorIs, Types DEF ServerIInv
    <3> QED BY <1>0, <3>1 DEF Range
  <2>3. CASE Up(c) /\ queue' = queue /\ held' \in {held, held \cup {c}}
    <3>1. c \in Conns /\ Alive(c) /\ rConnects_' \in Tracked
      BY <2>1, <2>2, <2>3, TypesHold, ServerAssumption DEF Up, ServerIInv
    <3>2. \A d \in Conns : Alive(d)' => Alive(d)
      BY <1>0, <2>1, <2>3, <3>1, NoneRevived
    <3>3. \A d \in Conns : Alive(d) => Alive(d)'
      BY <2>1, <2>3, NoneDropped
    <3> QED BY <2>1, <2>3, <3>1, <3>2, <3>3, OneMoves DEF Up
  <2>4. CASE Down(c) /\ held' = held
    <3>1. c \in Conns /\ Alive(c)
      BY <2>2, <2>4, ServerAssumption DEF Down, Kept
    <3> QED BY <2>1, <2>4, <3>1, LifeGoesDown
  <2>5. CASE UNCHANGED <<conn, channels_, queue, held>>
    BY <1>0, <2>1, <2>5, LifeDrops DEF StateKept
  <2> QED BY <1>12, <2>3, <2>4, <2>5, RunFunctorIs
<1>13. ASSUME NEW l \in Loops, DestroyBegin(l) PROVE ConnectionLifeOf!Next
  BY <1>0, <1>13, LifeDrops DEF DestroyBegin, StateKept
<1>14. ASSUME NEW l \in Loops, DestroyEnd(l) PROVE ConnectionLifeOf!Next
  <2>1. PICK c \in Conns : Removed(c) /\ rConnects_' = [rConnects_ EXCEPT ![conn[c].fd] = NoConn]
    BY <1>14, DestroyEndIs
  <2>2. StateKept
    BY <2>1 DEF Removed, SameElse, StateKept
  <2>3. \A f \in Fds : rConnects_'[f] \in {rConnects_[f], NoConn}
    BY <2>1, TypesHold DEF ServerIInv, Tracked
  <2> QED BY <1>0, <1>14, <2>2, <2>3, LifeDrops DEF DestroyEnd
<1>15. CASE Insert
  BY <1>15, LifeInserts
<1>16. CASE NewConnectReturns
  BY <1>0, <1>16, LifeDrops DEF NewConnectReturns, StateKept
<1>17. ASSUME NEW c \in Conns, CloseCheck(c) \/ Release(c) PROVE ConnectionLifeOf!Next
  BY <1>0, <1>17, LifeDrops DEF CloseCheck, Release, StateKept
<1>18. ASSUME NEW c \in Conns, CloseQueue(c) \/ SetTcpNoDelay(c) \/ Send(c) PROVE ConnectionLifeOf!Next
  <2>1. /\ c \in held \cup closing /\ Alive(c) /\ conn[c].loop \in Loops
        /\ UNCHANGED <<server, rConnects_, accepting, batch, current, held>> /\ closing' \subseteq closing
    BY <1>0, <1>18, Types DEF CloseQueue, SetTcpNoDelay, Send, ServerIInv
  <2>2. StateKept
    BY <1>18, SendIs DEF CloseQueue, SetTcpNoDelay, StateKept, Kept, SameElse
  <2>3. PICK p \in {Functor("close", c), Functor("hold", c)} :
            queue' = queue \/ queue' = [queue EXCEPT ![conn[c].loop] = Append(@, p)]
    BY <1>18, SendIs DEF CloseQueue, SetTcpNoDelay, QueueInLoop
  <2>4. p \in Functors /\ p.c = c
    <3>1. Functor("close", c) \in Functors /\ Functor("hold", c) \in Functors
      BY FunctorsAre
    <3>2. Functor("close", c).c = c /\ Functor("hold", c).c = c
      BY DEF Functor
    <3> QED BY <2>3, <3>1, <3>2
  <2> QED BY <1>0, <2>1, <2>2, <2>3, <2>4, LifeQueues
<1>19. ASSUME NEW c \in Conns, NEW f \in Fds, Accept(c, f) PROVE ConnectionLifeOf!Next
  BY <1>19, LifeAccepts
<1> QED BY <1>1, <1>2, <1>3, <1>4, <1>5, <1>6, <1>7, <1>8, <1>9, <1>10, <1>11, <1>12, <1>13, <1>14, <1>15, <1>16,
           <1>17, <1>18, <1>19 DEF Next, ServerEnds, Continue, App

\* A connection is accepted, then has its connect and its disconnect callback
\* called once each, and is destroyed only after them while the server is up;
\* its descriptor is not accepted again before.
THEOREM LivesAsPromised == Spec => ImplementsConnectionLife
<1>1. Init => ConnectionLifeOf!Init
  BY DEF Init, Life, ConnectionLifeOf!Init
<1>2. ServerIInv /\ ServerIInv' /\ [Next]_vars => [ConnectionLifeOf!Next]_Lives
  BY LifeStep
<1> QED BY <1>1, <1>2, ServerInductive, PTL
        DEF Spec, ImplementsConnectionLife, ConnectionLifeOf!Spec, Lives
=============================================================================
