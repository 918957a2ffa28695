--------------------------- MODULE ConnectionLife ---------------------------
(***************************************************************************)
(* What a server promises of each connection it accepts: the connect       *)
(* callback, then the disconnect callback, once each and in this order,    *)
(* and only then is the connection destroyed and its descriptor free for   *)
(* the next one.  Once the server is no longer open it accepts nothing,    *)
(* and its connections may end at any point of their life.                 *)
(***************************************************************************)
CONSTANTS Conns, Fds

VARIABLES life, fd, open

Init == /\ life = [c \in Conns |-> "none"]
        /\ fd \in [Conns -> Fds]
        /\ open = TRUE

Free(f) == \A c \in Conns : fd[c] = f => life[c] \in {"none", "gone"}

Accept(c, f) == /\ open /\ life[c] = "none" /\ Free(f)
                /\ life' = [life EXCEPT ![c] = "accepted"]
                /\ fd' = [fd EXCEPT ![c] = f]
                /\ UNCHANGED open

ConnectCallback(c) == /\ life[c] = "accepted"
                      /\ life' = [life EXCEPT ![c] = "up"]
                      /\ UNCHANGED <<fd, open>>

DisconnectCallback(c) == /\ life[c] = "up"
                         /\ life' = [life EXCEPT ![c] = "down"]
                         /\ UNCHANGED <<fd, open>>

\* The last reference goes; a batch of functors may hold several.
Destroy(S) == /\ \A c \in S : life[c] = "down" \/ (~open /\ life[c] # "none")
              /\ life' = [c \in Conns |-> IF c \in S THEN "gone" ELSE life[c]]
              /\ UNCHANGED <<fd, open>>

Close == open /\ open' = FALSE /\ UNCHANGED <<life, fd>>

Next == \/ \E S \in SUBSET Conns : Destroy(S)
        \/ Close
        \/ \E c \in Conns : \/ ConnectCallback(c) \/ DisconnectCallback(c)
                            \/ \E f \in Fds : Accept(c, f)

Spec == Init /\ [][Next]_<<life, fd, open>>
=============================================================================
