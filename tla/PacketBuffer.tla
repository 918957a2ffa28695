---------------------------- MODULE PacketBuffer ----------------------------
(***************************************************************************)
(* PacketBuffer: a vector of bytes whose first headerSize_ bytes are the   *)
(* header; the body lies between rIndex_ and wIndex_.  Byte i of buf_ is   *)
(* element i + 1 of the sequence.  Values are sequences of bytes, the      *)
(* least significant first for integers (the host is little-endian).       *)
(*                                                                         *)
(* ensureWrite moves the body with memcpy, which is undefined when source  *)
(* and destination overlap.  The builds there are copy right or spoil the  *)
(* body: then garbled is set and the model goes no further.                *)
(***************************************************************************)
EXTENDS Naturals, Sequences, SequencesExt

CONSTANTS Byte, Zero,            \* bytes; the one a vector is filled with
          HeaderSize, BodySize,  \* arguments of the constructor
          Strings, Ints,         \* values that are put in
          ChunkSizes,            \* arguments of readFd
          MaxBody,               \* bound: bytes in the body
          MaxRequest             \* the most that is put in or read at once

ASSUME BufferAssumption ==
    /\ Zero \in Byte /\ HeaderSize \in 0..255 /\ BodySize \in Nat
    /\ MaxBody \in Nat /\ MaxRequest \in Nat /\ ChunkSizes \subseteq 0..MaxRequest
    /\ \A s \in Strings \cup Ints : s \in Seq(Byte) /\ Len(s) <= MaxRequest
    /\ <<>> \in Strings    \* a string may be empty, and read() may give nothing

VARIABLES buf_, rIndex_, wIndex_, hsIndex_,
          out,     \* what the last operation gave, and as what
          garbled

vars == <<buf_, rIndex_, wIndex_, hsIndex_, out, garbled>>

Zeros(n) == [i \in 1..n |-> Zero]

Init == /\ buf_ = Zeros(HeaderSize + BodySize)
        /\ rIndex_ = HeaderSize /\ wIndex_ = HeaderSize
        /\ hsIndex_ = 0
        /\ out = <<"nothing", <<>>>> /\ garbled = FALSE

Bytes(from, to) == SubSeq(buf_, from + 1, to)
Overwrite(b, i, s) ==
    [j \in 1..Len(b) |-> IF i < j /\ j <= i + Len(s) THEN s[j - i] ELSE b[j]]

Readable == wIndex_ - rIndex_
Writable == Len(buf_) - wIndex_
Body == Bytes(rIndex_, wIndex_)

\* hostToNet, netToHost: only integers of more than one byte change.
Convert(kind, s) == IF kind = "int" THEN Reverse(s) ELSE s

HostToNet(kind, v) == Convert(kind, v)
-----------------------------------------------------------------------------
Compacted == [buf |-> Overwrite(buf_, HeaderSize, Body),
              r |-> HeaderSize, w |-> HeaderSize + Readable]

Enlarged(len) == [buf |-> buf_ \o Zeros(len - Writable), r |-> rIndex_, w |-> wIndex_]

\* Mutant: the header's bytes count as free space.
EnoughInAll(len) == rIndex_ + Writable >= len

Enough(len) == (rIndex_ - HeaderSize) + Writable >= len

\* What ensureWrite leaves.
Ensured(len) == IF Writable >= len THEN [buf |-> buf_, r |-> rIndex_, w |-> wIndex_]
                ELSE IF ~Enough(len) THEN Enlarged(len)
                ELSE Compacted

Overlapping(len) == /\ Writable < len /\ Enough(len)
                    /\ rIndex_ > HeaderSize /\ rIndex_ - HeaderSize < Readable

\* memcpy(begin() + wIndex_, data, len); wIndex_ += len, after ensureWrite(space)
Store(space, s) ==
    LET e == Ensured(space) IN
    /\ buf_' = Overwrite(e.buf, e.w, s)
    /\ rIndex_' = e.r /\ wIndex_' = e.w + Len(s)
    /\ garbled' = FALSE

Garble(space) == /\ Overlapping(space) /\ garbled' = TRUE
                 /\ UNCHANGED <<buf_, rIndex_, wIndex_>>

\* append, append8 .. append64, appendString
Put(kind, v) ==
    /\ Readable + Len(v) <= MaxBody
    /\ Store(Len(v), HostToNet(kind, v)) \/ Garble(Len(v))
    /\ out' = <<"nothing", <<>>>>
    /\ UNCHANGED hsIndex_

\* peek8 .. peek64, peekString, peekAll
Peek(kind, n) ==
    /\ n <= Readable
    /\ out' = <<kind, Convert(kind, Bytes(rIndex_, rIndex_ + n))>>
    /\ UNCHANGED <<buf_, rIndex_, wIndex_, hsIndex_, garbled>>

\* retrieve(len)
Advance(n) == IF n = Readable
              THEN rIndex_' = HeaderSize /\ wIndex_' = HeaderSize
              ELSE rIndex_' = rIndex_ + n /\ UNCHANGED wIndex_

\* retrieve8 .. retrieve64, retrieveString, retrieveAll
Retrieve(kind, n) ==
    /\ n <= Readable
    /\ out' = <<kind, Convert(kind, Bytes(rIndex_, rIndex_ + n))>>
    /\ Advance(n)
    /\ UNCHANGED <<buf_, hsIndex_, garbled>>

\* headGet8 .. headGet64, headGetString, headGetAll
HeadGet(kind, offset, n) ==
    /\ offset + n <= HeaderSize
    /\ out' = <<kind, Convert(kind, Bytes(offset, offset + n))>>
    /\ UNCHANGED <<buf_, rIndex_, wIndex_, hsIndex_, garbled>>

\* headSet8 .. headSet64, headSetString
HeadSet(kind, offset, v) ==
    /\ offset + Len(v) <= HeaderSize
    /\ buf_' = Overwrite(buf_, offset, HostToNet(kind, v))
    /\ out' = <<"nothing", <<>>>>
    /\ UNCHANGED <<rIndex_, wIndex_, hsIndex_, garbled>>

\* readFd: one read() into all the space there is; nothing at the end of the
\* file or on an error.
ReadFd(chunkSize, s) ==
    LET e == Ensured(chunkSize) IN
    /\ Len(s) <= Len(e.buf) - e.w /\ Readable + Len(s) <= MaxBody
    /\ Store(chunkSize, s) \/ Garble(chunkSize)
    /\ out' = <<"nothing", <<>>>>
    /\ UNCHANGED hsIndex_

\* Mutant: the body follows although part of the header is left.
BodyAnyway(h, b) == h <= HeaderSize - hsIndex_ /\ b <= Readable

HeaderFirst(h, b) == /\ h <= HeaderSize - hsIndex_ /\ b <= Readable
                     /\ b > 0 => h = HeaderSize - hsIndex_

\* writeFd: h bytes of the header and b of the body are written before an error
\* other than EINTR, or everything.
WriteFd(h, b) ==
    /\ HeaderFirst(h, b)
    /\ out' = <<"written", Bytes(hsIndex_, hsIndex_ + h) \o Bytes(rIndex_, rIndex_ + b)>>
    /\ hsIndex_' = hsIndex_ + h
    /\ IF b = 0 THEN UNCHANGED <<rIndex_, wIndex_>> ELSE Advance(b)
    /\ UNCHANGED <<buf_, garbled>>
-----------------------------------------------------------------------------
Operands == {<<"string", s>> : s \in Strings} \cup {<<"int", s>> : s \in Ints}

\* What a getter is asked for: a string of any length, an integer of some width.
Requests == {<<"string", n>> : n \in 0..MaxBody + HeaderSize}
                \cup {<<"int", Len(s)>> : s \in Ints}

Next == /\ ~garbled
        /\ \/ \E x \in Operands :
                  Put(x[1], x[2]) \/ \E i \in 0..HeaderSize : HeadSet(x[1], i, x[2])
           \/ \E q \in Requests : \/ Peek(q[1], q[2]) \/ Retrieve(q[1], q[2])
                                  \/ \E i \in 0..HeaderSize : HeadGet(q[1], i, q[2])
           \/ \E n \in ChunkSizes, s \in Strings : ReadFd(n, s)
           \/ \E h \in 0..HeaderSize, b \in 0..MaxBody : WriteFd(h, b)

Spec == Init /\ [][Next]_vars
-----------------------------------------------------------------------------
TypeOK == /\ buf_ \in Seq(Byte)
          /\ rIndex_ \in Nat /\ wIndex_ \in Nat /\ hsIndex_ \in 0..HeaderSize
          /\ out \in {"nothing", "string", "int", "written"} \X Seq(Byte)
          /\ garbled \in BOOLEAN

\* The indices keep their order and stay inside the vector, behind the header,
\* whatever growing, moving and partial writes did; and an empty buffer starts
\* over, so that it does not creep towards the end of the vector.
IndicesInOrder == /\ HeaderSize <= rIndex_ /\ rIndex_ <= wIndex_ /\ wIndex_ <= Len(buf_)
                  /\ rIndex_ = wIndex_ => rIndex_ = HeaderSize

\* A buffer whose body stays small stays small: the vector grows only when the
\* gap in front of the body would not have helped.
LengthBounded == \/ Len(buf_) <= HeaderSize + BodySize
                 \/ Len(buf_) <= HeaderSize + MaxBody + 2 * MaxRequest

BufferInv == TypeOK /\ IndicesInOrder /\ LengthBounded

\* The indices hide a FIFO queue of bytes behind a header that is written first.
Queue == INSTANCE ByteQueue WITH
    header <- Bytes(0, HeaderSize), sent <- hsIndex_, body <- Body,
    Values <- Strings \cup Ints

ImplementsByteQueue == Queue!Spec
=============================================================================
