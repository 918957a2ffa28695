----------------------------- MODULE ByteQueue -----------------------------
(***************************************************************************)
(* What a PacketBuffer promises: a header of fixed length and a FIFO queue *)
(* of bytes behind it.  What is put in comes out in order, through the     *)
(* getters or to a file descriptor, where the header goes first and once.  *)
(* An integer is the sequence of its bytes, the least significant first;   *)
(* in the queue and in the header it stands in network order.              *)
(***************************************************************************)
EXTENDS Naturals, Sequences, SequencesExt

CONSTANTS Byte, HeaderSize,
          Values,   \* what is put in
          MaxBody   \* bound: bytes in the body

VARIABLES header,  \* the bytes of the header
          sent,    \* how many of them have gone to the file descriptor
          body,    \* the bytes put in and not yet taken, oldest first
          out      \* what the last operation gave, and as what

vars == <<header, sent, body, out>>

First(s, n) == SubSeq(s, 1, n)
Rest(s, n) == SubSeq(s, n + 1, Len(s))

Nothing == <<"nothing", <<>>>>
Kinds == {"string", "int"}
\* The value in host order of the bytes s of the network, and the other way round.
Convert(kind, s) == IF kind = "int" THEN Reverse(s) ELSE s

Init == /\ header \in [1..HeaderSize -> Byte] /\ sent = 0
        /\ body = <<>> /\ out = Nothing

Put(kind, v) == /\ Len(body) + Len(v) <= MaxBody
                /\ body' = body \o Convert(kind, v)
                /\ out' = Nothing
                /\ UNCHANGED <<header, sent>>

Look(kind, n) == /\ n <= Len(body)
                 /\ out' = <<kind, Convert(kind, First(body, n))>>
                 /\ UNCHANGED <<header, sent, body>>

Take(kind, n) == /\ n <= Len(body)
                 /\ out' = <<kind, Convert(kind, First(body, n))>>
                 /\ body' = Rest(body, n)
                 /\ UNCHANGED <<header, sent>>

HeadGet(kind, i, n) == /\ i + n <= HeaderSize
                       /\ out' = <<kind, Convert(kind, SubSeq(header, i + 1, i + n))>>
                       /\ UNCHANGED <<header, sent, body>>

HeadSet(kind, i, v) ==
    /\ i + Len(v) <= HeaderSize
    /\ header' = First(header, i) \o Convert(kind, v) \o Rest(header, i + Len(v))
    /\ out' = Nothing
    /\ UNCHANGED <<sent, body>>

\* n bytes go to the file descriptor.
Write(n) ==
    LET stream == Rest(header, sent) \o body
        h == IF n < HeaderSize - sent THEN n ELSE HeaderSize - sent IN
    /\ n <= Len(stream)
    /\ out' = <<"written", First(stream, n)>>
    /\ sent' = sent + h /\ body' = Rest(body, n - h)
    /\ UNCHANGED header

Next == \/ \E kind \in Kinds, v \in Values :
               Put(kind, v) \/ \E i \in 0..HeaderSize : HeadSet(kind, i, v)
        \/ \E kind \in Kinds, n \in 0..MaxBody : Look(kind, n) \/ Take(kind, n)
        \/ \E kind \in Kinds, i, n \in 0..HeaderSize : HeadGet(kind, i, n)
        \/ \E n \in 0..HeaderSize + MaxBody : Write(n)

Spec == Init /\ [][Next]_vars
=============================================================================
