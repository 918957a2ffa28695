------------------------- MODULE PacketBufferProofs -------------------------
(***************************************************************************)
(* What PacketBuffer guarantees for any sizes, values and requests: its    *)
(* indices stay in order and its vector bounded, and it is the FIFO queue  *)
(* of bytes behind a header that ByteQueue describes.                      *)
(***************************************************************************)
EXTENDS PacketBuffer, SequenceTheorems, TLAPS

\* The inductive invariant: the bound on the body is the one of the guards.
BufferIInv == BufferInv /\ Readable <= MaxBody
-----------------------------------------------------------------------------
(* Sequences of bytes                                                      *)

\* The bytes from the i-th to the j-th, counted from 0.
Slice(b, i, j) == SubSeq(b, i+1, j)

LEMMA SliceIs ==
    ASSUME NEW b \in Seq(Byte), NEW i \in Nat, NEW j \in Nat, i <= j, j <= Len(b)
    PROVE  /\ Slice(b, i, j) \in Seq(Byte) /\ Len(Slice(b, i, j)) = j - i
           /\ \A k \in 1..j-i : Slice(b, i, j)[k] = b[i+k]
<1>1. \A k \in i+1..j : b[k] \in Byte
  OBVIOUS
<1>2. /\ SubSeq(b, i+1, j) \in Seq(Byte)
      /\ Len(SubSeq(b, i+1, j)) = IF i+1 <= j THEN j-(i+1)+1 ELSE 0
      /\ \A k \in 1..j-(i+1)+1 : SubSeq(b, i+1, j)[k] = b[(i+1)+k-1]
  BY <1>1, SubSeqProperties
<1>3. j-(i+1)+1 = j-i /\ (\A k \in Int : (i+1)+k-1 = i+k) /\ (~(i+1 <= j) => j-i = 0)
  OBVIOUS
<1> HIDE DEF Slice
<1>4. Slice(b, i, j) = SubSeq(b, i+1, j)
  BY DEF Slice
<1> QED BY <1>2, <1>3, <1>4

LEMMA OverwriteIs ==
    ASSUME NEW b \in Seq(Byte), NEW s \in Seq(Byte), NEW i \in Nat, i + Len(s) <= Len(b)
    PROVE  /\ Overwrite(b, i, s) \in Seq(Byte) /\ Len(Overwrite(b, i, s)) = Len(b)
           /\ \A j \in 1..Len(b) :
                  Overwrite(b, i, s)[j] = IF i < j /\ j <= i + Len(s) THEN s[j-i] ELSE b[j]
<1>1. Len(b) \in Nat /\ Len(s) \in Nat
  OBVIOUS
<1>2. ASSUME NEW j \in 1..Len(b) PROVE (IF i < j /\ j <= i + Len(s) THEN s[j-i] ELSE b[j]) \in Byte
  <2>1. i < j /\ j <= i + Len(s) => j-i \in 1..Len(s)
    BY <1>1
  <2> QED BY <2>1, ElementOfSeq
<1>3. Overwrite(b, i, s) \in [1..Len(b) -> Byte]
  BY <1>2 DEF Overwrite
<1>4. Overwrite(b, i, s) \in Seq(Byte) /\ Len(Overwrite(b, i, s)) = Len(b)
  BY <1>1, <1>3
<1> QED BY <1>4 DEF Overwrite

LEMMA ConcatIs ==
    ASSUME NEW s \in Seq(Byte), NEW t \in Seq(Byte)
    PROVE  /\ s \o t \in Seq(Byte) /\ Len(s \o t) = Len(s) + Len(t)
           /\ \A k \in 1..Len(s) : (s \o t)[k] = s[k]
           /\ \A k \in 1..Len(t) : (s \o t)[Len(s)+k] = t[k]
<1>1. /\ s \o t \in Seq(Byte) /\ Len(s \o t) = Len(s) + Len(t)
      /\ \A k \in 1..Len(s) + Len(t) : (s \o t)[k] = IF k <= Len(s) THEN s[k] ELSE t[k - Len(s)]
  BY ConcatProperties
<1>2. Len(s) \in Nat /\ Len(t) \in Nat
  OBVIOUS
<1>3. \A k \in 1..Len(s) : (s \o t)[k] = s[k]
  BY <1>1, <1>2
<1>4. ASSUME NEW k \in 1..Len(t) PROVE (s \o t)[Len(s)+k] = t[k]
  <2>1. Len(s)+k \in 1..Len(s) + Len(t) /\ ~(Len(s)+k <= Len(s)) /\ (Len(s)+k) - Len(s) = k
    BY <1>2
  <2> QED BY <1>1, <2>1
<1> QED BY <1>1, <1>3, <1>4

LEMMA ZerosIs ==
    ASSUME NEW n \in Nat
    PROVE  Zeros(n) \in Seq(Byte) /\ Len(Zeros(n)) = n
BY BufferAssumption DEF Zeros

\* hostToNet and netToHost change the order of the bytes only.
LEMMA ConvertIs ==
    ASSUME NEW kind, NEW s \in Seq(Byte)
    PROVE  Convert(kind, s) \in Seq(Byte) /\ Len(Convert(kind, s)) = Len(s)
<1>1. Reverse(s) \in Seq(Byte) /\ Len(Reverse(s)) = Len(s)
  <2>1. Reverse(s) = [i \in 1..Len(s) |-> s[(Len(s)-i)+1]] /\ Len(s) \in Nat
    BY DEF Reverse
  <2>2. \A i \in 1..Len(s) : s[(Len(s)-i)+1] \in Byte
    OBVIOUS
  <2> QED BY <2>1, <2>2
<1> QED BY <1>1 DEF Convert
-----------------------------------------------------------------------------
(* What ensureWrite leaves                                                 *)

\* What the invariant says of the sizes, and of Readable and Writable.
Sized ==
    /\ HeaderSize \in Nat /\ BodySize \in Nat /\ MaxBody \in Nat /\ MaxRequest \in Nat
    /\ buf_ \in Seq(Byte) /\ Len(buf_) \in Nat
    /\ rIndex_ \in Nat /\ wIndex_ \in Nat /\ hsIndex_ \in Nat /\ hsIndex_ <= HeaderSize
    /\ HeaderSize <= rIndex_ /\ rIndex_ <= wIndex_ /\ wIndex_ <= Len(buf_)
    /\ Readable \in Nat /\ Readable = wIndex_ - rIndex_ /\ Readable <= MaxBody
    /\ Writable \in Nat /\ Writable = Len(buf_) - wIndex_
    /\ rIndex_ = wIndex_ => rIndex_ = HeaderSize
    /\ LengthBounded

LEMMA Sizes == BufferIInv => Sized
BY BufferAssumption DEF BufferIInv, BufferInv, TypeOK, IndicesInOrder, Readable, Writable, Sized

\* The vector after ensureWrite: header and body as before, and len bytes free.
Fits(e, len) ==
    /\ e.buf \in Seq(Byte) /\ e.r \in Nat /\ e.w \in Nat
    /\ HeaderSize <= e.r /\ e.r <= e.w /\ e.w + len <= Len(e.buf)
    /\ e.r = e.w => e.r = HeaderSize
    /\ e.w - e.r = Readable
    /\ Len(e.buf) <= HeaderSize + BodySize \/ Len(e.buf) <= HeaderSize + MaxBody + 2 * MaxRequest
    /\ \A k \in 1..HeaderSize : e.buf[k] = buf_[k]
    /\ \A k \in 1..Readable : e.buf[e.r+k] = buf_[rIndex_+k]

LEMMA BodyIs ==
    ASSUME Sized
    PROVE  /\ Body \in Seq(Byte) /\ Len(Body) = Readable
           /\ \A k \in 1..Readable : Body[k] = buf_[rIndex_+k]
<1>1. Body = Slice(buf_, rIndex_, wIndex_)
  BY DEF Body, Bytes, Slice
<1>2. /\ Slice(buf_, rIndex_, wIndex_) \in Seq(Byte) /\ Len(Slice(buf_, rIndex_, wIndex_)) = wIndex_ - rIndex_
      /\ \A k \in 1..wIndex_ - rIndex_ : Slice(buf_, rIndex_, wIndex_)[k] = buf_[rIndex_+k]
  <2>1. buf_ \in Seq(Byte) /\ rIndex_ \in Nat /\ wIndex_ \in Nat /\ rIndex_ <= wIndex_ /\ wIndex_ <= Len(buf_)
    BY DEF Sized
  <2> QED BY <2>1, SliceIs
<1>3. Readable = wIndex_ - rIndex_
  BY DEF Readable
<1> QED BY <1>1, <1>2, <1>3

LEMMA EnsuredFits ==
    ASSUME Sized, NEW len \in Nat, len <= MaxRequest
    PROVE  Fits(Ensured(len), len)
<1>1. CASE Writable >= len
  BY <1>1 DEF Ensured, Fits, LengthBounded, Sized
<1>2. CASE ~(Writable >= len) /\ ~Enough(len)
  <2> DEFINE Z == Zeros(len - Writable)  e == Ensured(len)
  <2>1. len - Writable \in Nat
    BY <1>2 DEF Sized
  <2>2. Z \in Seq(Byte) /\ Len(Z) = len - Writable
    BY <2>1, ZerosIs
  <2>3. e = [buf |-> buf_ \o Z, r |-> rIndex_, w |-> wIndex_]
    BY <1>2 DEF Ensured, Enlarged
  <2> HIDE DEF Z, e
  <2>4. /\ buf_ \o Z \in Seq(Byte) /\ Len(buf_ \o Z) = Len(buf_) + (len - Writable)
        /\ \A k \in 1..Len(buf_) : (buf_ \o Z)[k] = buf_[k]
    BY <2>2, ConcatIs DEF Sized
  <2>5. e.buf = buf_ \o Z /\ e.r = rIndex_ /\ e.w = wIndex_
    BY <2>3
  <2>6. Len(e.buf) = wIndex_ + len
    BY <2>4, <2>5 DEF Sized
  <2>7. (rIndex_ - HeaderSize) + Writable < len
    BY <1>2 DEF Enough, Sized
  <2>8. Len(e.buf) <= HeaderSize + MaxBody + 2 * MaxRequest
    BY <2>6, <2>7 DEF Sized
  <2>9. /\ \A k \in 1..HeaderSize : k \in 1..Len(buf_)
        /\ \A k \in 1..Readable : rIndex_+k \in 1..Len(buf_)
    BY DEF Sized
  <2>10. Fits(e, len)
    BY <2>4, <2>5, <2>6, <2>8, <2>9 DEF Fits, Sized
  <2> QED BY <2>10 DEF e
<1>3. CASE ~(Writable >= len) /\ Enough(len)
  <2> DEFINE b == Overwrite(buf_, HeaderSize, Body)  e == Ensured(len)
  <2>1. HeaderSize + Len(Body) <= Len(buf_) /\ HeaderSize \in Nat /\ Body \in Seq(Byte) /\ buf_ \in Seq(Byte)
    BY BodyIs DEF Sized
  <2>2. /\ b \in Seq(Byte) /\ Len(b) = Len(buf_)
        /\ \A j \in 1..Len(buf_) :
               b[j] = IF HeaderSize < j /\ j <= HeaderSize + Len(Body) THEN Body[j-HeaderSize] ELSE buf_[j]
    BY <2>1, OverwriteIs
  <2>3. e = [buf |-> b, r |-> HeaderSize, w |-> HeaderSize + Readable]
    BY <1>3 DEF Ensured, Compacted
  <2> HIDE DEF b, e
  <2>4. e.buf = b /\ e.r = HeaderSize /\ e.w = HeaderSize + Readable
    BY <2>3
  <2>5. e.w + len <= Len(e.buf)
    BY <1>3, <2>2, <2>4 DEF Enough, Sized
  <2>6. ASSUME NEW k \in 1..HeaderSize PROVE e.buf[k] = buf_[k]
    <3>1. k \in 1..Len(buf_) /\ ~(HeaderSize < k)
      BY DEF Sized
    <3> QED BY <2>2, <2>4, <3>1
  <2>7. ASSUME NEW k \in 1..Readable PROVE e.buf[e.r+k] = buf_[rIndex_+k]
    <3>1. HeaderSize+k \in 1..Len(buf_) /\ HeaderSize < HeaderSize+k /\ HeaderSize+k <= HeaderSize + Len(Body)
          /\ (HeaderSize+k)-HeaderSize = k
      BY BodyIs DEF Sized
    <3>2. b[HeaderSize+k] = Body[k]
      BY <2>2, <3>1
    <3> QED BY <2>4, <3>2, BodyIs
  <2>8. Fits(e, len)
    BY <2>2, <2>4, <2>5, <2>6, <2>7 DEF Fits, LengthBounded, Sized
  <2> QED BY <2>8 DEF e
<1> QED BY <1>1, <1>2, <1>3
-----------------------------------------------------------------------------
(* What the operations leave                                               *)

\* The header and the body of the next state, byte by byte.
HeaderKept == \A k \in 1..HeaderSize : buf_'[k] = buf_[k]

LEMMA StoreIs ==
    ASSUME Sized, NEW space \in Nat, space <= MaxRequest, NEW s \in Seq(Byte),
           Len(s) <= Len(Ensured(space).buf) - Ensured(space).w,
           Readable + Len(s) <= MaxBody, Store(space, s), hsIndex_' = hsIndex_
    PROVE  /\ Sized' /\ HeaderKept /\ Readable' = Readable + Len(s)
           /\ \A k \in 1..Readable : buf_'[rIndex_'+k] = buf_[rIndex_+k]
           /\ \A k \in 1..Len(s) : buf_'[rIndex_'+Readable+k] = s[k]
<1>1. Fits(Ensured(space), space)
  BY EnsuredFits
<1>2. PICK c, r, w : c = Ensured(space).buf /\ r = Ensured(space).r /\ w = Ensured(space).w
  OBVIOUS
<1>3. /\ c \in Seq(Byte) /\ r \in Nat /\ w \in Nat
      /\ HeaderSize <= r /\ r <= w
      /\ r = w => r = HeaderSize
      /\ w - r = Readable
      /\ Len(c) <= HeaderSize + BodySize \/ Len(c) <= HeaderSize + MaxBody + 2 * MaxRequest
      /\ \A k \in 1..HeaderSize : c[k] = buf_[k]
      /\ \A k \in 1..Readable : c[r+k] = buf_[rIndex_+k]
  BY <1>1, <1>2 DEF Fits
<1>4. Len(s) <= Len(c) - w /\ Readable + Len(s) <= MaxBody
  BY <1>2
<1>5. Len(c) \in Nat /\ Len(s) \in Nat /\ HeaderSize \in Nat /\ Readable \in Nat
  BY <1>3 DEF Sized
<1>6. w + Len(s) <= Len(c)
  BY <1>3, <1>4, <1>5
<1> DEFINE b == Overwrite(c, w, s)
<1>7. buf_' = b /\ rIndex_' = r /\ wIndex_' = w + Len(s)
  BY <1>2 DEF Store
<1>8. /\ b \in Seq(Byte) /\ Len(b) = Len(c)
      /\ \A j \in 1..Len(c) : b[j] = IF w < j /\ j <= w + Len(s) THEN s[j-w] ELSE c[j]
  BY <1>3, <1>6, OverwriteIs
<1> HIDE DEF b
<1>9. ASSUME NEW k \in 1..HeaderSize PROVE buf_'[k] = buf_[k]
  <2>1. k \in 1..Len(c) /\ ~(w < k)
    BY <1>3, <1>5, <1>6
  <2>2. b[k] = c[k]
    BY <1>8, <2>1
  <2> QED BY <1>3, <1>7, <2>2
<1>10. ASSUME NEW k \in 1..Readable PROVE buf_'[rIndex_'+k] = buf_[rIndex_+k]
  <2>1. r+k \in 1..Len(c) /\ ~(w < r+k)
    BY <1>3, <1>5, <1>6
  <2>2. b[r+k] = c[r+k]
    BY <1>8, <2>1
  <2> QED BY <1>3, <1>7, <2>2
<1>11. ASSUME NEW k \in 1..Len(s) PROVE buf_'[rIndex_'+Readable+k] = s[k]
  <2>1. r + Readable = w
    BY <1>3, <1>5
  <2>2. w+k \in 1..Len(c) /\ w < w+k /\ w+k <= w + Len(s) /\ (w+k) - w = k
    BY <1>3, <1>5, <1>6
  <2>3. b[w+k] = s[k]
    BY <1>8, <2>2
  <2> QED BY <1>7, <2>1, <2>3
<1>12. Readable' = Readable + Len(s)
  BY <1>3, <1>5, <1>7 DEF Readable
<1>13. Sized'
  <2>1. Readable' \in Nat /\ Readable' = wIndex_' - rIndex_' /\ Readable' <= MaxBody
    <3>1. Readable' = wIndex_' - rIndex_'
      BY DEF Readable
    <3>2. Readable' \in Nat /\ Readable' <= MaxBody
      BY <1>4, <1>5, <1>12
    <3> QED BY <3>1, <3>2
  <2>2. /\ buf_' \in Seq(Byte) /\ Len(buf_') = Len(c) /\ rIndex_' \in Nat /\ wIndex_' \in Nat
        /\ HeaderSize <= rIndex_' /\ rIndex_' <= wIndex_' /\ wIndex_' <= Len(buf_')
        /\ rIndex_' = wIndex_' => rIndex_' = HeaderSize
    BY <1>3, <1>5, <1>6, <1>7, <1>8
  <2>3. Writable' = Len(buf_') - wIndex_'
    BY DEF Writable
  <2>4. Writable' \in Nat
    BY <1>5, <2>2, <2>3
  <2>5. LengthBounded'
    BY <1>3, <2>2 DEF LengthBounded
  <2>6. /\ HeaderSize \in Nat /\ BodySize \in Nat /\ MaxBody \in Nat /\ MaxRequest \in Nat
        /\ hsIndex_' \in Nat /\ hsIndex_' <= HeaderSize
    BY DEF Sized
  <2> QED BY <1>5, <2>1, <2>2, <2>3, <2>4, <2>5, <2>6 DEF Sized
<1> QED BY <1>9, <1>10, <1>11, <1>12, <1>13 DEF HeaderKept
-----------------------------------------------------------------------------
(* Slices of slices                                                        *)

LEMMA SliceOfSlice ==
    ASSUME NEW b \in Seq(Byte), NEW i \in Nat, NEW j \in Nat, i <= j, j <= Len(b),
           NEW m \in Nat, NEW n \in Nat, m <= n, n <= j - i
    PROVE  Slice(Slice(b, i, j), m, n) = Slice(b, i+m, i+n)
<1> DEFINE c == Slice(b, i, j)
<1>1. c \in Seq(Byte) /\ Len(c) = j - i /\ \A k \in 1..j-i : c[k] = b[i+k]
  BY SliceIs
<1> HIDE DEF c
<1>2. PICK p \in Nat, q \in Nat : p = i+m /\ q = i+n
  OBVIOUS
<1>3. /\ p <= q /\ q <= Len(b) /\ n <= Len(c) /\ n - m = q - p
  BY <1>1, <1>2
<1>4. ASSUME NEW k \in 1..n-m PROVE c[m+k] = b[p+k]
  <2>1. m+k \in 1..j-i /\ i+(m+k) = p+k
    BY <1>2
  <2> QED BY <1>1, <2>1
<1>5. Slice(c, m, n) = Slice(b, p, q)
  <2> DEFINE x == Slice(c, m, n)  y == Slice(b, p, q)
  <2>1. x \in Seq(Byte) /\ Len(x) = n - m /\ \A k \in 1..n-m : x[k] = c[m+k]
    <3>1. c \in Seq(Byte) /\ m \in Nat /\ n \in Nat /\ m <= n /\ n <= Len(c)
      BY <1>1, <1>3
    <3> QED BY <3>1, SliceIs
  <2>2. y \in Seq(Byte) /\ Len(y) = q - p /\ \A k \in 1..q-p : y[k] = b[p+k]
    <3>1. b \in Seq(Byte) /\ p \in Nat /\ q \in Nat /\ p <= q /\ q <= Len(b)
      BY <1>2, <1>3
    <3> QED BY <3>1, SliceIs
  <2> HIDE DEF x, y
  <2>3. x = y
    BY <1>3, <1>4, <2>1, <2>2, SeqEqual
  <2> QED BY <2>3 DEF x, y
<1> QED BY <1>2, <1>5 DEF c

LEMMA SliceAll ==
    ASSUME NEW b \in Seq(Byte)
    PROVE  Slice(b, 0, Len(b)) = b
<1>1. Len(b) \in Nat /\ 0 \in Nat /\ 0 <= Len(b) /\ Len(b) <= Len(b)
  OBVIOUS
<1>2. /\ Slice(b, 0, Len(b)) \in Seq(Byte) /\ Len(Slice(b, 0, Len(b))) = Len(b) - 0
      /\ \A k \in 1..Len(b)-0 : Slice(b, 0, Len(b))[k] = b[0+k]
  BY <1>1, SliceIs
<1>3. Len(b) - 0 = Len(b) /\ \A k \in 1..Len(b) : 0+k = k
  BY <1>1
<1> HIDE DEF Slice
<1> QED BY <1>2, <1>3, SeqEqual

\* The first bytes of two sequences in a row, if the second is begun only
\* when the first is used up.
LEMMA SliceOfBoth ==
    ASSUME NEW s \in Seq(Byte), NEW t \in Seq(Byte), NEW h \in Nat, NEW b \in Nat,
           h <= Len(s), b <= Len(t), b > 0 => h = Len(s)
    PROVE  Slice(s \o t, 0, h+b) = Slice(s, 0, h) \o Slice(t, 0, b)
<1> DEFINE u == s \o t  x == Slice(s, 0, h)  y == Slice(t, 0, b)  z == Slice(u, 0, h+b)
<1>1. Len(s) \in Nat /\ Len(t) \in Nat /\ 0 \in Nat /\ h+b \in Nat /\ 0 <= h /\ 0 <= b /\ 0 <= h+b
      /\ h-0 = h /\ b-0 = b /\ (h+b)-0 = h+b /\ \A k \in Int : 0+k = k
  OBVIOUS
<1>2. /\ u \in Seq(Byte) /\ Len(u) = Len(s) + Len(t)
      /\ \A k \in 1..Len(s) : u[k] = s[k]
      /\ \A k \in 1..Len(t) : u[Len(s)+k] = t[k]
  BY ConcatIs
<1> HIDE DEF u
<1>3. x \in Seq(Byte) /\ Len(x) = h /\ \A k \in 1..h : x[k] = s[k]
  <2>1. x \in Seq(Byte) /\ Len(x) = h-0 /\ \A k \in 1..h-0 : x[k] = s[0+k]
    BY <1>1, SliceIs
  <2> QED BY <1>1, <2>1
<1>4. y \in Seq(Byte) /\ Len(y) = b /\ \A k \in 1..b : y[k] = t[k]
  <2>1. y \in Seq(Byte) /\ Len(y) = b-0 /\ \A k \in 1..b-0 : y[k] = t[0+k]
    BY <1>1, SliceIs
  <2> QED BY <1>1, <2>1
<1>5. z \in Seq(Byte) /\ Len(z) = h+b /\ \A k \in 1..h+b : z[k] = u[k]
  <2>1. h+b <= Len(u)
    BY <1>1, <1>2
  <2>2. z \in Seq(Byte) /\ Len(z) = (h+b)-0 /\ \A k \in 1..(h+b)-0 : z[k] = u[0+k]
    BY <1>1, <1>2, <2>1, SliceIs
  <2> QED BY <1>1, <2>2
<1> HIDE DEF x, y, z
<1>6. /\ x \o y \in Seq(Byte) /\ Len(x \o y) = h+b
      /\ \A k \in 1..h : (x \o y)[k] = x[k]
      /\ \A k \in 1..b : (x \o y)[h+k] = y[k]
  BY <1>3, <1>4, ConcatIs
<1>7. ASSUME NEW k \in 1..h+b PROVE z[k] = (x \o y)[k]
  <2>1. CASE k <= h
    <3>1. k \in 1..h /\ k \in 1..Len(s)
      BY <1>1, <2>1
    <3>2. u[k] = s[k] /\ x[k] = s[k] /\ (x \o y)[k] = x[k]
      BY <1>2, <1>3, <1>6, <3>1
    <3> QED BY <1>5, <3>2
  <2>2. CASE ~(k <= h)
    <3>1. PICK m \in 1..b : k = h+m
      <4>1. k-h \in 1..b /\ k = h+(k-h)
        BY <2>2
      <4> QED BY <4>1
    <3>2. h = Len(s) /\ m \in 1..Len(t)
      BY <1>1, <3>1
    <3>3. u[Len(s)+m] = t[m] /\ y[m] = t[m] /\ (x \o y)[h+m] = y[m]
      BY <1>2, <1>4, <1>6, <3>1, <3>2
    <3> QED BY <1>5, <3>1, <3>2, <3>3
  <2> QED BY <2>1, <2>2
<1>8. z = x \o y
  BY <1>5, <1>6, <1>7, SeqEqual
<1> QED BY <1>8 DEF u, x, y, z
-----------------------------------------------------------------------------
(* The header and the body                                                 *)

Header == Bytes(0, HeaderSize)
Outputs == {"nothing", "string", "int", "written"} \X Seq(Byte)

LEMMA HeaderIs ==
    ASSUME Sized
    PROVE  /\ Header \in Seq(Byte) /\ Len(Header) = HeaderSize
           /\ \A k \in 1..HeaderSize : Header[k] = buf_[k]
<1>1. Header = Slice(buf_, 0, HeaderSize)
  BY DEF Header, Bytes, Slice
<1>2. /\ buf_ \in Seq(Byte) /\ 0 \in Nat /\ HeaderSize \in Nat /\ 0 <= HeaderSize /\ HeaderSize <= Len(buf_)
      /\ HeaderSize - 0 = HeaderSize /\ \A k \in Int : 0+k = k
  BY DEF Sized
<1>3. /\ Slice(buf_, 0, HeaderSize) \in Seq(Byte) /\ Len(Slice(buf_, 0, HeaderSize)) = HeaderSize - 0
      /\ \A k \in 1..HeaderSize-0 : Slice(buf_, 0, HeaderSize)[k] = buf_[0+k]
  BY <1>2, SliceIs
<1> QED BY <1>1, <1>2, <1>3

\* BodyIs and HeaderIs of the next state.
LEMMA NextAre ==
    ASSUME Sized'
    PROVE  /\ Header' \in Seq(Byte) /\ Len(Header') = HeaderSize
           /\ \A k \in 1..HeaderSize : Header'[k] = buf_'[k]
           /\ Body' \in Seq(Byte) /\ Len(Body') = Readable'
           /\ \A k \in 1..Readable' : Body'[k] = buf_'[rIndex_'+k]
<1>1. Header' = Slice(buf_', 0, HeaderSize) /\ Body' = Slice(buf_', rIndex_', wIndex_')
  BY DEF Header, Body, Bytes, Slice
<1>2. /\ buf_' \in Seq(Byte) /\ 0 \in Nat /\ HeaderSize \in Nat /\ 0 <= HeaderSize /\ HeaderSize <= Len(buf_')
      /\ HeaderSize - 0 = HeaderSize /\ \A k \in Int : 0+k = k
  BY DEF Sized
<1>3. /\ rIndex_' \in Nat /\ wIndex_' \in Nat /\ rIndex_' <= wIndex_' /\ wIndex_' <= Len(buf_')
      /\ Readable' = wIndex_' - rIndex_'
  BY DEF Sized
<1>4. /\ Slice(buf_', 0, HeaderSize) \in Seq(Byte) /\ Len(Slice(buf_', 0, HeaderSize)) = HeaderSize - 0
      /\ \A k \in 1..HeaderSize-0 : Slice(buf_', 0, HeaderSize)[k] = buf_'[0+k]
  BY <1>2, SliceIs
<1>5. /\ Slice(buf_', rIndex_', wIndex_') \in Seq(Byte)
      /\ Len(Slice(buf_', rIndex_', wIndex_')) = wIndex_' - rIndex_'
      /\ \A k \in 1..wIndex_'-rIndex_' : Slice(buf_', rIndex_', wIndex_')[k] = buf_'[rIndex_'+k]
  BY <1>2, <1>3, SliceIs
<1>6. /\ Header' \in Seq(Byte) /\ Len(Header') = HeaderSize
      /\ \A k \in 1..HeaderSize : Header'[k] = buf_'[k]
  BY <1>1, <1>2, <1>4
<1>7. /\ Body' \in Seq(Byte) /\ Len(Body') = Readable'
      /\ \A k \in 1..Readable' : Body'[k] = buf_'[rIndex_'+k]
  BY <1>1, <1>3, <1>5
<1> QED BY <1>6, <1>7

LEMMA HeaderSame ==
    ASSUME Sized, Sized', HeaderKept
    PROVE  Header' = Header
<1>1. /\ Header \in Seq(Byte) /\ Len(Header) = HeaderSize
      /\ \A k \in 1..HeaderSize : Header[k] = buf_[k]
  BY HeaderIs
<1>2. /\ Header' \in Seq(Byte) /\ Len(Header') = HeaderSize
      /\ \A k \in 1..HeaderSize : Header'[k] = buf_'[k]
  BY NextAre
<1> QED BY <1>1, <1>2, SeqEqual DEF HeaderKept

LEMMA BodySame ==
    ASSUME Sized, Sized', Readable' = Readable,
           \A k \in 1..Readable : buf_'[rIndex_'+k] = buf_[rIndex_+k]
    PROVE  Body' = Body
<1>1. /\ Body \in Seq(Byte) /\ Len(Body) = Readable
      /\ \A k \in 1..Readable : Body[k] = buf_[rIndex_+k]
  BY BodyIs
<1>2. /\ Body' \in Seq(Byte) /\ Len(Body') = Readable'
      /\ \A k \in 1..Readable' : Body'[k] = buf_'[rIndex_'+k]
  BY NextAre
<1> QED BY <1>1, <1>2, SeqEqual

\* After Store the bytes stand behind those that were there.
LEMMA StoreAppends ==
    ASSUME Sized, NEW space \in Nat, space <= MaxRequest, NEW s \in Seq(Byte),
           Len(s) <= Len(Ensured(space).buf) - Ensured(space).w,
           Readable + Len(s) <= MaxBody, Store(space, s), hsIndex_' = hsIndex_
    PROVE  Sized' /\ Header' = Header /\ Body' = Body \o s
<1>1. /\ Sized' /\ HeaderKept /\ Readable' = Readable + Len(s)
      /\ \A k \in 1..Readable : buf_'[rIndex_'+k] = buf_[rIndex_+k]
      /\ \A k \in 1..Len(s) : buf_'[rIndex_'+Readable+k] = s[k]
  BY StoreIs
<1>2. Header' = Header
  BY <1>1, HeaderSame
<1>3. /\ Body \in Seq(Byte) /\ Len(Body) = Readable
      /\ \A k \in 1..Readable : Body[k] = buf_[rIndex_+k]
  BY BodyIs
<1>4. /\ Body' \in Seq(Byte) /\ Len(Body') = Readable'
      /\ \A k \in 1..Readable' : Body'[k] = buf_'[rIndex_'+k]
  BY <1>1, NextAre
<1>5. /\ Body \o s \in Seq(Byte) /\ Len(Body \o s) = Readable + Len(s)
      /\ \A k \in 1..Readable : (Body \o s)[k] = Body[k]
      /\ \A k \in 1..Len(s) : (Body \o s)[Readable+k] = s[k]
  BY <1>3, ConcatIs
<1>6. Readable \in Nat /\ Len(s) \in Nat /\ rIndex_' \in Nat
  BY <1>1 DEF Sized
<1>7. ASSUME NEW k \in 1..Readable + Len(s) PROVE Body'[k] = (Body \o s)[k]
  <2>1. CASE k <= Readable
    <3>1. k \in 1..Readable /\ k \in 1..Readable'
      BY <1>1, <1>6, <2>1
    <3> QED BY <1>1, <1>3, <1>4, <1>5, <3>1
  <2>2. CASE ~(k <= Readable)
    <3>1. PICK m \in 1..Len(s) : k = Readable+m
      <4>1. k-Readable \in 1..Len(s) /\ k = Readable+(k-Readable)
        BY <1>6, <2>2
      <4> QED BY <4>1
    <3>2. k \in 1..Readable' /\ rIndex_'+k = rIndex_'+Readable+m
      BY <1>1, <1>6, <3>1
    <3>3. Body'[k] = s[m]
      BY <1>1, <1>4, <3>2
    <3>4. (Body \o s)[k] = s[m]
      BY <1>5, <3>1
    <3> QED BY <3>3, <3>4
  <2> QED BY <2>1, <2>2
<1>8. Body' = Body \o s
  BY <1>1, <1>4, <1>5, <1>7, SeqEqual
<1> QED BY <1>1, <1>2, <1>8

\* What Peek, Retrieve and WriteFd read is a beginning of the body.
LEMMA FrontIs ==
    ASSUME Sized, NEW n \in Nat, n <= Readable
    PROVE  /\ Bytes(rIndex_, rIndex_ + n) = Slice(Body, 0, n)
           /\ Bytes(rIndex_, rIndex_ + n) \in Seq(Byte)
<1>1. Body = Slice(buf_, rIndex_, wIndex_)
  BY DEF Body, Bytes, Slice
<1>2. /\ buf_ \in Seq(Byte) /\ rIndex_ \in Nat /\ wIndex_ \in Nat /\ rIndex_ <= wIndex_ /\ wIndex_ <= Len(buf_)
      /\ n <= wIndex_ - rIndex_ /\ 0 \in Nat /\ 0 <= n /\ rIndex_ + 0 = rIndex_ /\ rIndex_ + n \in Nat
      /\ rIndex_ <= rIndex_ + n /\ rIndex_ + n <= Len(buf_)
  BY DEF Sized
<1>3. Slice(Body, 0, n) = Slice(buf_, rIndex_ + 0, rIndex_ + n)
  BY <1>1, <1>2, SliceOfSlice
<1>4. Slice(buf_, rIndex_, rIndex_ + n) \in Seq(Byte)
  BY <1>2, SliceIs
<1>5. Bytes(rIndex_, rIndex_ + n) = Slice(buf_, rIndex_, rIndex_ + n)
  BY DEF Bytes, Slice
<1> QED BY <1>2, <1>3, <1>4, <1>5

\* Advance takes the first bytes away.
LEMMA AdvanceDrops ==
    ASSUME Sized, NEW n \in Nat, n <= Readable, Advance(n), buf_' = buf_,
           hsIndex_' \in Nat, hsIndex_' <= HeaderSize
    PROVE  Sized' /\ Header' = Header /\ Body' = Slice(Body, n, Len(Body))
<1>1. /\ HeaderSize \in Nat /\ BodySize \in Nat /\ MaxBody \in Nat /\ MaxRequest \in Nat
      /\ buf_ \in Seq(Byte) /\ Len(buf_) \in Nat /\ rIndex_ \in Nat /\ wIndex_ \in Nat
      /\ HeaderSize <= rIndex_ /\ rIndex_ <= wIndex_ /\ wIndex_ <= Len(buf_)
      /\ Readable = wIndex_ - rIndex_ /\ Readable <= MaxBody /\ LengthBounded
  BY DEF Sized
<1>2. \/ n = Readable /\ rIndex_' = HeaderSize /\ wIndex_' = HeaderSize
      \/ n # Readable /\ rIndex_' = rIndex_ + n /\ wIndex_' = wIndex_
  BY DEF Advance
<1>3. Readable' = wIndex_' - rIndex_' /\ Writable' = Len(buf_') - wIndex_'
  BY DEF Readable, Writable
<1>4. LengthBounded'
  BY <1>1 DEF LengthBounded
<1>5. /\ rIndex_' \in Nat /\ wIndex_' \in Nat /\ HeaderSize <= rIndex_' /\ rIndex_' <= wIndex_'
      /\ wIndex_' <= Len(buf_) /\ wIndex_' - rIndex_' = Readable - n
      /\ rIndex_' = wIndex_' => rIndex_' = HeaderSize
  BY <1>1, <1>2
<1>6. Sized'
  <2>1. Writable' \in Nat
    BY <1>1, <1>3, <1>5
  <2>2. Readable' = Readable - n
    BY <1>3, <1>5
  <2>3. Readable \in Nat
    BY <1>1
  <2>4. Readable' \in Nat /\ Readable' <= MaxBody
    BY <1>1, <2>2, <2>3
  <2> QED BY <1>1, <1>3, <1>4, <1>5, <2>1, <2>4 DEF Sized
<1>7. Header' = Header
  BY DEF Header, Bytes
<1>8. Body = Slice(buf_, rIndex_, wIndex_) /\ Len(Body) = Readable
  BY BodyIs DEF Body, Bytes, Slice
<1>9. Body' = Slice(buf_, rIndex_', wIndex_')
  BY DEF Body, Bytes, Slice
<1>10. Slice(Body, n, Readable) = Slice(buf_, rIndex_ + n, wIndex_)
  <2>1. Readable \in Nat /\ Readable <= wIndex_ - rIndex_ /\ rIndex_ + Readable = wIndex_
    BY <1>1
  <2>2. Slice(Slice(buf_, rIndex_, wIndex_), n, Readable) = Slice(buf_, rIndex_ + n, rIndex_ + Readable)
    BY <1>1, <2>1, SliceOfSlice
  <2> QED BY <1>8, <2>1, <2>2
<1>11. Slice(buf_, rIndex_ + n, wIndex_) = Slice(buf_, rIndex_', wIndex_')
  <2>1. CASE n = Readable
    <3>1. rIndex_ + n = wIndex_ /\ rIndex_' = HeaderSize /\ wIndex_' = HeaderSize
      BY <1>1, <1>2, <2>1
    <3>2. SubSeq(buf_, wIndex_ + 1, wIndex_) = <<>> /\ SubSeq(buf_, HeaderSize + 1, HeaderSize) = <<>>
      BY <1>1, SubSeqEmpty
    <3> QED BY <3>1, <3>2 DEF Slice
  <2>2. CASE n # Readable
    BY <1>2, <2>2
  <2> QED BY <2>1, <2>2
<1> QED BY <1>6, <1>7, <1>8, <1>9, <1>10, <1>11

\* headSet replaces bytes of the header and leaves the body.
LEMMA HeadSetIs ==
    ASSUME Sized, NEW i \in Nat, NEW s \in Seq(Byte), i + Len(s) <= HeaderSize,
           buf_' = Overwrite(buf_, i, s), UNCHANGED <<rIndex_, wIndex_, hsIndex_>>
    PROVE  /\ Sized' /\ Body' = Body
           /\ Header' = (Slice(Header, 0, i) \o s) \o Slice(Header, i + Len(s), Len(Header))
<1>1. /\ HeaderSize \in Nat /\ buf_ \in Seq(Byte) /\ Len(buf_) \in Nat /\ Len(s) \in Nat
      /\ rIndex_ \in Nat /\ wIndex_ \in Nat /\ Readable \in Nat /\ Readable = wIndex_ - rIndex_
      /\ HeaderSize <= rIndex_ /\ rIndex_ <= wIndex_ /\ wIndex_ <= Len(buf_)
  BY DEF Sized
<1>2. /\ buf_' \in Seq(Byte) /\ Len(buf_') = Len(buf_)
      /\ \A j \in 1..Len(buf_) : buf_'[j] = IF i < j /\ j <= i + Len(s) THEN s[j-i] ELSE buf_[j]
  <2>1. i + Len(s) <= Len(buf_)
    BY <1>1
  <2> QED BY <1>1, <2>1, OverwriteIs
<1>3. Sized'
  <2>1. Readable' = Readable /\ rIndex_' = rIndex_ /\ wIndex_' = wIndex_ /\ hsIndex_' = hsIndex_
    BY DEF Readable
  <2>2. Writable' = Writable /\ (LengthBounded' <=> LengthBounded)
    BY <1>2 DEF Writable, LengthBounded
  <2> QED BY <1>2, <2>1, <2>2 DEF Sized
<1>4. Body' = Body
  <2>1. ASSUME NEW k \in 1..Readable PROVE buf_'[rIndex_'+k] = buf_[rIndex_+k]
    <3>1. rIndex_+k \in 1..Len(buf_) /\ ~(rIndex_+k <= i + Len(s)) /\ rIndex_' = rIndex_
      BY <1>1
    <3> QED BY <1>2, <3>1
  <2>2. Readable' = Readable
    BY DEF Readable
  <2> QED BY <1>3, <2>1, <2>2, BodySame
<1>5. /\ Header \in Seq(Byte) /\ Len(Header) = HeaderSize
      /\ \A k \in 1..HeaderSize : Header[k] = buf_[k]
  BY HeaderIs
<1>6. /\ Header' \in Seq(Byte) /\ Len(Header') = HeaderSize
      /\ \A k \in 1..HeaderSize : Header'[k] = buf_'[k]
  BY <1>3, NextAre
<1> DEFINE x == Slice(Header, 0, i)
<1>7. PICK m \in Nat : m = i + Len(s)
  BY <1>1
<1> DEFINE y == Slice(Header, m, HeaderSize)
<1>8. x \in Seq(Byte) /\ Len(x) = i /\ \A k \in 1..i : x[k] = Header[k]
  <2>1. 0 \in Nat /\ 0 <= i /\ i <= Len(Header) /\ i - 0 = i /\ \A k \in Int : 0+k = k
    BY <1>1, <1>5
  <2>2. x \in Seq(Byte) /\ Len(x) = i-0 /\ \A k \in 1..i-0 : x[k] = Header[0+k]
    BY <1>5, <2>1, SliceIs
  <2> QED BY <2>1, <2>2
<1>9. y \in Seq(Byte) /\ Len(y) = HeaderSize-m /\ \A k \in 1..HeaderSize-m : y[k] = Header[m+k]
  <2>1. m <= HeaderSize
    BY <1>1, <1>7
  <2>2. HeaderSize <= Len(Header) /\ Header \in Seq(Byte) /\ HeaderSize \in Nat
    BY <1>1, <1>5
  <2> QED BY <2>1, <2>2, SliceIs
<1> HIDE DEF x, y
<1>10. /\ x \o s \in Seq(Byte) /\ Len(x \o s) = m
       /\ \A k \in 1..i : (x \o s)[k] = x[k]
       /\ \A k \in 1..Len(s) : (x \o s)[i+k] = s[k]
  BY <1>7, <1>8, ConcatIs
<1> DEFINE z == x \o s
<1> HIDE DEF z
<1>11. /\ z \o y \in Seq(Byte) /\ Len(z \o y) = m + (HeaderSize-m)
       /\ \A k \in 1..m : (z \o y)[k] = z[k]
       /\ \A k \in 1..HeaderSize-m : (z \o y)[m+k] = y[k]
  <2>1. z \in Seq(Byte) /\ Len(z) = m
    BY <1>10 DEF z
  <2>2. /\ z \o y \in Seq(Byte) /\ Len(z \o y) = Len(z) + Len(y)
        /\ \A k \in 1..Len(z) : (z \o y)[k] = z[k]
        /\ \A k \in 1..Len(y) : (z \o y)[Len(z)+k] = y[k]
    BY <1>9, <2>1, ConcatIs
  <2> QED BY <1>9, <2>1, <2>2
<1>12. ASSUME NEW k \in 1..HeaderSize PROVE Header'[k] = (z \o y)[k]
  <2>1. k \in 1..Len(buf_) /\ k \in Int
    BY <1>1
  <2>2. Header'[k] = IF i < k /\ k <= m THEN s[k-i] ELSE buf_[k]
    BY <1>2, <1>6, <1>7, <2>1
  <2>3. CASE k <= i
    <3>1. k \in 1..i /\ k \in 1..m /\ ~(i < k)
      BY <1>1, <1>7, <2>3
    <3>2. (z \o y)[k] = z[k] /\ z[k] = x[k] /\ x[k] = Header[k] /\ Header[k] = buf_[k]
      BY <1>5, <1>8, <1>10, <1>11, <3>1 DEF z
    <3> QED BY <2>2, <3>1, <3>2
  <2>4. CASE i < k /\ k <= m
    <3>1. k-i \in 1..Len(s) /\ k \in 1..m /\ i+(k-i) = k
      BY <1>1, <1>7, <2>4
    <3>2. (z \o y)[k] = z[k] /\ z[k] = s[k-i]
      <4>1. z[i+(k-i)] = s[k-i]
        BY <1>10, <3>1 DEF z
      <4> QED BY <1>11, <3>1, <4>1
    <3> QED BY <2>2, <2>4, <3>2
  <2>5. CASE m < k
    <3>1. k-m \in 1..HeaderSize-m /\ m+(k-m) = k /\ ~(k <= m)
      BY <1>1, <1>7, <2>5
    <3>2. (z \o y)[m+(k-m)] = y[k-m] /\ y[k-m] = Header[m+(k-m)]
      BY <1>9, <1>11, <3>1
    <3> QED BY <1>5, <2>2, <3>1, <3>2
  <2>6. k <= i \/ (i < k /\ k <= m) \/ m < k
    BY <1>1, <1>7, <2>1
  <2> QED BY <2>3, <2>4, <2>5, <2>6
<1>13. Header' = z \o y
  <2>1. m + (HeaderSize-m) = HeaderSize
    BY <1>1, <1>7
  <2> QED BY <1>6, <1>11, <1>12, <2>1, SeqEqual
<1> QED BY <1>3, <1>4, <1>5, <1>7, <1>13 DEF x, y, z
-----------------------------------------------------------------------------
(* The inductive invariant                                                 *)

LEMMA Sufficient ==
    ASSUME Sized, out \in Outputs, garbled \in BOOLEAN
    PROVE  BufferIInv
<1>1. hsIndex_ \in 0..HeaderSize
  BY DEF Sized
<1> QED BY <1>1 DEF Sized, Outputs, BufferIInv, BufferInv, TypeOK, IndicesInOrder

\* The arguments of the operations.
LEMMA OperandIs ==
    ASSUME NEW x \in Operands
    PROVE  /\ x[1] \in {"string", "int"} /\ x[2] \in Strings \cup Ints
           /\ x[2] \in Seq(Byte) /\ Len(x[2]) \in Nat /\ Len(x[2]) <= MaxRequest
<1>1. PICK kind \in {"string", "int"}, v \in Strings \cup Ints : x = <<kind, v>>
  BY DEF Operands
<1>2. v \in Seq(Byte) /\ Len(v) <= MaxRequest
  BY BufferAssumption
<1> QED BY <1>1, <1>2

LEMMA RequestIs ==
    ASSUME NEW q \in Requests
    PROVE  q[1] \in {"string", "int"} /\ q[2] \in Nat
<1>1. CASE q \in {<<"string", n>> : n \in 0..MaxBody + HeaderSize}
  BY <1>1, BufferAssumption
<1>2. CASE q \in {<<"int", Len(s)>> : s \in Ints}
  <2>1. PICK s \in Ints : q = <<"int", Len(s)>>
    BY <1>2
  <2>2. s \in Seq(Byte)
    BY BufferAssumption
  <2> QED BY <2>1, <2>2
<1> QED BY <1>1, <1>2 DEF Requests
-----------------------------------------------------------------------------
(* Each operation keeps the invariant and is a step of the queue           *)

NothingOut == out' = <<"nothing", <<>>>>

LEMMA NothingIsOutput == NothingOut => out' \in Outputs
<1>1. <<>> \in Seq(Byte)
  BY EmptySeq
<1>2. \A s \in Seq(Byte) : <<"nothing", s>> \in Outputs
  BY DEF Outputs
<1>3. <<"nothing", <<>>>> \in Outputs
  BY <1>1, <1>2, Zenon
<1> QED BY <1>3 DEF NothingOut

LEMMA TakenIsOutput ==
    ASSUME NEW kind \in {"string", "int"}, NEW s \in Seq(Byte), out' = <<kind, Convert(kind, s)>>
    PROVE  out' \in Outputs
<1>1. Convert(kind, s) \in Seq(Byte)
  BY ConvertIs
<1> QED BY <1>1 DEF Outputs

\* A body that memcpy may have spoiled: nothing was put in.
LEMMA GarbleStep ==
    ASSUME BufferIInv, NEW space, Garble(space), NothingOut, UNCHANGED hsIndex_
    PROVE  BufferIInv' /\ Queue!Put("string", <<>>)
<1>1. UNCHANGED <<buf_, rIndex_, wIndex_, hsIndex_>> /\ garbled' = TRUE /\ Sized
  BY Sizes DEF Garble
<1>2. Readable' = Readable /\ Writable' = Writable /\ (LengthBounded' <=> LengthBounded)
  BY <1>1 DEF Readable, Writable, LengthBounded
<1>3. Sized'
  BY <1>1, <1>2 DEF Sized
<1>4. BufferIInv'
  <2>1. out' \in Outputs /\ garbled' \in BOOLEAN
    BY <1>1, NothingIsOutput
  <2>2. hsIndex_' \in 0..HeaderSize
    BY <1>3 DEF Sized
  <2> QED BY <1>3, <2>1, <2>2 DEF Sized, Outputs, BufferIInv, BufferInv, TypeOK, IndicesInOrder
<1>5. Header' = Header /\ Body' = Body
  BY <1>1 DEF Header, Body, Bytes
<1>6. Body \in Seq(Byte) /\ Len(Body) = Readable /\ Readable \in Nat /\ Readable <= MaxBody
  BY <1>1, BodyIs DEF Sized
<1>7. Queue!Put("string", <<>>)
  <2>1. Len(<<>>) = 0 /\ Readable + 0 <= MaxBody
    BY <1>6
  <2>2. Body \o <<>> = Body
    BY <1>6, ConcatEmptySeq
  <2>3. Bytes(0, HeaderSize)' = Bytes(0, HeaderSize)
    BY <1>5 DEF Header
  <2> QED BY <1>1, <1>5, <1>6, <2>1, <2>2, <2>3 DEF NothingOut, Queue!Put, Queue!Convert, Queue!Nothing
<1> QED BY <1>4, <1>7

LEMMA StoreStep ==
    ASSUME BufferIInv, NEW space \in Nat, space <= MaxRequest, NEW s \in Seq(Byte),
           Len(s) <= Len(Ensured(space).buf) - Ensured(space).w,
           Readable + Len(s) <= MaxBody, Store(space, s), NothingOut, UNCHANGED hsIndex_
    PROVE  /\ BufferIInv' /\ Header' = Header /\ Body' = Body \o s
           /\ Len(Body) + Len(s) <= MaxBody
<1>1. Sized
  BY Sizes
<1>2. Sized' /\ Header' = Header /\ Body' = Body \o s
  BY <1>1, StoreAppends
<1>3. out' \in Outputs /\ garbled' \in BOOLEAN /\ hsIndex_' \in 0..HeaderSize
  <2>1. garbled' = FALSE
    BY DEF Store
  <2>2. hsIndex_' \in 0..HeaderSize
    BY <1>2 DEF Sized
  <2> QED BY <2>1, <2>2, NothingIsOutput
<1>4. BufferIInv'
  BY <1>2, <1>3 DEF Sized, Outputs, BufferIInv, BufferInv, TypeOK, IndicesInOrder
<1>5. Len(Body) = Readable
  BY <1>1, BodyIs
<1> QED BY <1>2, <1>4, <1>5

LEMMA PutStep ==
    ASSUME BufferIInv, NEW x \in Operands, Put(x[1], x[2])
    PROVE  BufferIInv' /\ (Queue!Put(x[1], x[2]) \/ Queue!Put("string", <<>>))
<1>1. PICK kind, v : kind = x[1] /\ v = x[2]
  OBVIOUS
<1>2. kind \in {"string", "int"} /\ v \in Seq(Byte) /\ Len(v) \in Nat /\ Len(v) <= MaxRequest
  BY <1>1, OperandIs
<1>3. /\ Readable + Len(v) <= MaxBody /\ NothingOut /\ UNCHANGED hsIndex_
      /\ Store(Len(v), Convert(kind, v)) \/ Garble(Len(v))
  BY <1>1 DEF Put, HostToNet, NothingOut
<1>4. Convert(kind, v) \in Seq(Byte) /\ Len(Convert(kind, v)) = Len(v)
  BY <1>2, ConvertIs
<1>5. CASE Garble(Len(v))
  BY <1>3, <1>5, GarbleStep
<1>6. CASE Store(Len(v), Convert(kind, v))
  <2>1. Fits(Ensured(Len(v)), Len(v))
    BY <1>2, EnsuredFits, Sizes
  <2>2. Len(Convert(kind, v)) <= Len(Ensured(Len(v)).buf) - Ensured(Len(v)).w
    BY <1>2, <1>4, <2>1 DEF Fits
  <2>3. /\ BufferIInv' /\ Header' = Header /\ Body' = Body \o Convert(kind, v)
        /\ Len(Body) + Len(Convert(kind, v)) <= MaxBody
    BY <1>2, <1>3, <1>4, <1>6, <2>2, StoreStep
  <2>4. Queue!Put(kind, v)
    <3>1. Bytes(0, HeaderSize)' = Bytes(0, HeaderSize)
      BY <2>3 DEF Header
    <3>2. Convert(kind, v) = Queue!Convert(kind, v)
      BY DEF Convert, Queue!Convert, Reverse, Queue!Reverse
    <3> QED BY <1>3, <1>4, <2>3, <3>1, <3>2 DEF NothingOut, Queue!Put, Queue!Nothing
  <2> QED BY <1>1, <2>3, <2>4
<1> QED BY <1>3, <1>5, <1>6

LEMMA ReadFdStep ==
    ASSUME BufferIInv, NEW n \in ChunkSizes, NEW s \in Strings, ReadFd(n, s)
    PROVE  BufferIInv' /\ (Queue!Put("string", s) \/ Queue!Put("string", <<>>))
<1>1. n \in Nat /\ n <= MaxRequest /\ s \in Seq(Byte)
  BY BufferAssumption
<1>2. /\ Len(s) <= Len(Ensured(n).buf) - Ensured(n).w /\ Readable + Len(s) <= MaxBody
      /\ NothingOut /\ UNCHANGED hsIndex_ /\ (Store(n, s) \/ Garble(n))
  BY DEF ReadFd, NothingOut
<1>3. CASE Garble(n)
  BY <1>2, <1>3, GarbleStep
<1>4. CASE Store(n, s)
  <2>1. /\ BufferIInv' /\ Header' = Header /\ Body' = Body \o s /\ Len(Body) + Len(s) <= MaxBody
    BY <1>1, <1>2, <1>4, StoreStep
  <2>2. Queue!Put("string", s)
    <3>1. Bytes(0, HeaderSize)' = Bytes(0, HeaderSize)
      BY <2>1 DEF Header
    <3>2. Queue!Convert("string", s) = s
      BY DEF Queue!Convert
    <3> QED BY <1>2, <2>1, <3>1, <3>2 DEF NothingOut, Queue!Put, Queue!Nothing
  <2> QED BY <2>1, <2>2
<1> QED BY <1>2, <1>3, <1>4

\* Only looking.
LEMMA LookKeeps ==
    ASSUME BufferIInv, UNCHANGED <<buf_, rIndex_, wIndex_, hsIndex_, garbled>>, out' \in Outputs
    PROVE  BufferIInv' /\ Header' = Header /\ Body' = Body
<1>1. Readable' = Readable /\ Writable' = Writable /\ (LengthBounded' <=> LengthBounded)
  BY DEF Readable, Writable, LengthBounded
<1>2. Header' = Header /\ Body' = Body
  BY DEF Header, Body, Bytes
<1>3. BufferIInv'
  BY <1>1 DEF Outputs, BufferIInv, BufferInv, TypeOK, IndicesInOrder
<1> QED BY <1>2, <1>3

LEMMA PeekStep ==
    ASSUME BufferIInv, NEW q \in Requests, Peek(q[1], q[2])
    PROVE  BufferIInv' /\ q[2] \in 0..MaxBody /\ Queue!Look(q[1], q[2])
<1>1. PICK kind, n : kind = q[1] /\ n = q[2]
  OBVIOUS
<1>2. kind \in {"string", "int"} /\ n \in Nat
  BY <1>1, RequestIs
<1>3. /\ n <= Readable /\ out' = <<kind, Convert(kind, Bytes(rIndex_, rIndex_ + n))>>
      /\ UNCHANGED <<buf_, rIndex_, wIndex_, hsIndex_, garbled>>
  BY <1>1 DEF Peek
<1>4. Sized
  BY Sizes
<1>5. Bytes(rIndex_, rIndex_ + n) = Slice(Body, 0, n) /\ Bytes(rIndex_, rIndex_ + n) \in Seq(Byte)
  BY <1>2, <1>3, <1>4, FrontIs
<1>6. BufferIInv' /\ Header' = Header /\ Body' = Body
  BY <1>2, <1>3, <1>5, TakenIsOutput, LookKeeps
<1>7. n \in 0..MaxBody /\ Len(Body) = Readable
  BY <1>2, <1>3, <1>4, BodyIs DEF Sized
<1>8. Bytes(0, HeaderSize)' = Bytes(0, HeaderSize)
  BY <1>6 DEF Header
<1>9. out' = <<kind, Queue!Convert(kind, Queue!First(Body, n))>>
  <2>1. Queue!First(Body, n) = Bytes(rIndex_, rIndex_ + n)
    BY <1>5 DEF Queue!First, Slice
  <2>2. \A s : Queue!Convert(kind, s) = Convert(kind, s)
    BY DEF Convert, Queue!Convert, Reverse, Queue!Reverse
  <2> QED BY <1>3, <2>1, <2>2
<1>10. Queue!Look(kind, n)
  BY <1>3, <1>6, <1>7, <1>8, <1>9 DEF Queue!Look
<1> QED BY <1>1, <1>6, <1>7, <1>10

LEMMA RetrieveStep ==
    ASSUME BufferIInv, NEW q \in Requests, Retrieve(q[1], q[2])
    PROVE  BufferIInv' /\ q[2] \in 0..MaxBody /\ Queue!Take(q[1], q[2])
<1>1. PICK kind, n : kind = q[1] /\ n = q[2]
  OBVIOUS
<1>2. kind \in {"string", "int"} /\ n \in Nat
  BY <1>1, RequestIs
<1>3. /\ n <= Readable /\ out' = <<kind, Convert(kind, Bytes(rIndex_, rIndex_ + n))>>
      /\ Advance(n) /\ UNCHANGED <<buf_, hsIndex_, garbled>>
  BY <1>1 DEF Retrieve
<1>4. Sized /\ hsIndex_ \in Nat /\ hsIndex_ <= HeaderSize
  BY Sizes DEF Sized
<1>5. Bytes(rIndex_, rIndex_ + n) = Slice(Body, 0, n) /\ Bytes(rIndex_, rIndex_ + n) \in Seq(Byte)
  BY <1>2, <1>3, <1>4, FrontIs
<1>6. Sized' /\ Header' = Header /\ Body' = Slice(Body, n, Len(Body))
  BY <1>2, <1>3, <1>4, AdvanceDrops
<1>7. BufferIInv'
  <2>1. out' \in Outputs /\ garbled' \in BOOLEAN
    BY <1>2, <1>3, <1>5, TakenIsOutput DEF BufferIInv, BufferInv, TypeOK
  <2>2. hsIndex_' \in 0..HeaderSize
    BY <1>6 DEF Sized
  <2> QED BY <1>6, <2>1, <2>2 DEF Sized, Outputs, BufferIInv, BufferInv, TypeOK, IndicesInOrder
<1>8. n \in 0..MaxBody /\ Len(Body) = Readable
  BY <1>2, <1>3, <1>4, BodyIs DEF Sized
<1>9. out' = <<kind, Queue!Convert(kind, Queue!First(Body, n))>>
  <2>1. Queue!First(Body, n) = Bytes(rIndex_, rIndex_ + n)
    BY <1>5 DEF Queue!First, Slice
  <2>2. \A s : Queue!Convert(kind, s) = Convert(kind, s)
    BY DEF Convert, Queue!Convert, Reverse, Queue!Reverse
  <2> QED BY <1>3, <2>1, <2>2
<1>10. Body' = Queue!Rest(Body, n)
  BY <1>6 DEF Queue!Rest, Slice
<1>11. Bytes(0, HeaderSize)' = Bytes(0, HeaderSize)
  BY <1>6 DEF Header
<1>12. Queue!Take(kind, n)
  BY <1>3, <1>8, <1>9, <1>10, <1>11 DEF Queue!Take
<1> QED BY <1>1, <1>7, <1>8, <1>12

LEMMA HeadGetStep ==
    ASSUME BufferIInv, NEW q \in Requests, NEW i \in 0..HeaderSize, HeadGet(q[1], i, q[2])
    PROVE  BufferIInv' /\ q[2] \in 0..HeaderSize /\ Queue!HeadGet(q[1], i, q[2])
<1>1. PICK kind, n : kind = q[1] /\ n = q[2]
  OBVIOUS
<1>2. kind \in {"string", "int"} /\ n \in Nat
  BY <1>1, RequestIs
<1>3. /\ i + n <= HeaderSize /\ out' = <<kind, Convert(kind, Bytes(i, i + n))>>
      /\ UNCHANGED <<buf_, rIndex_, wIndex_, hsIndex_, garbled>>
  BY <1>1 DEF HeadGet
<1>4. /\ Sized /\ HeaderSize \in Nat /\ buf_ \in Seq(Byte) /\ HeaderSize <= Len(buf_) /\ Len(buf_) \in Nat
  BY Sizes DEF Sized
<1>5. PICK m \in Nat : m = i + n
  BY <1>2, <1>4
<1>6. i \in Nat /\ i <= m /\ m <= HeaderSize /\ m <= Len(buf_) /\ n \in 0..HeaderSize
  BY <1>2, <1>3, <1>4, <1>5
<1>7. Slice(buf_, i, m) \in Seq(Byte)
  BY <1>4, <1>6, SliceIs
<1>8. Bytes(i, m) = Slice(buf_, i, m) /\ Header = Slice(buf_, 0, HeaderSize)
  BY DEF Bytes, Slice, Header
<1>9. BufferIInv' /\ Header' = Header /\ Body' = Body
  BY <1>2, <1>3, <1>5, <1>7, <1>8, TakenIsOutput, LookKeeps
<1>10. Slice(Header, i, m) = Slice(buf_, i, m)
  <2>1. /\ 0 \in Nat /\ 0 <= HeaderSize /\ m <= HeaderSize - 0 /\ 0+i = i /\ 0+m = m
    BY <1>4, <1>6
  <2>2. Slice(Slice(buf_, 0, HeaderSize), i, m) = Slice(buf_, 0+i, 0+m)
    BY <1>4, <1>6, <2>1, SliceOfSlice
  <2> QED BY <1>8, <2>1, <2>2
<1>11. out' = <<kind, Queue!Convert(kind, SubSeq(Bytes(0, HeaderSize), i + 1, i + n))>>
  <2>1. SubSeq(Bytes(0, HeaderSize), i + 1, i + n) = Bytes(i, i + n)
    BY <1>5, <1>8, <1>10 DEF Slice, Header
  <2>2. \A s : Queue!Convert(kind, s) = Convert(kind, s)
    BY DEF Convert, Queue!Convert, Reverse, Queue!Reverse
  <2> QED BY <1>3, <2>1, <2>2
<1>12. Bytes(0, HeaderSize)' = Bytes(0, HeaderSize)
  BY <1>9 DEF Header
<1>13. Queue!HeadGet(kind, i, n)
  BY <1>3, <1>9, <1>11, <1>12 DEF Queue!HeadGet
<1> QED BY <1>1, <1>6, <1>9, <1>13

LEMMA HeadSetStep ==
    ASSUME BufferIInv, NEW x \in Operands, NEW i \in 0..HeaderSize, HeadSet(x[1], i, x[2])
    PROVE  BufferIInv' /\ Queue!HeadSet(x[1], i, x[2])
<1>1. PICK kind, v : kind = x[1] /\ v = x[2]
  OBVIOUS
<1>2. kind \in {"string", "int"} /\ v \in Seq(Byte) /\ Len(v) \in Nat /\ i \in Nat
  BY <1>1, OperandIs, BufferAssumption
<1>3. /\ i + Len(v) <= HeaderSize /\ buf_' = Overwrite(buf_, i, Convert(kind, v))
      /\ NothingOut /\ UNCHANGED <<rIndex_, wIndex_, hsIndex_, garbled>>
  BY <1>1 DEF HeadSet, HostToNet, NothingOut
<1>4. PICK s : s = Convert(kind, v)
  OBVIOUS
<1>5. s \in Seq(Byte) /\ Len(s) = Len(v)
  BY <1>2, <1>4, ConvertIs
<1>6. /\ Sized' /\ Body' = Body
      /\ Header' = (Slice(Header, 0, i) \o s) \o Slice(Header, i + Len(s), Len(Header))
  <2>1. i + Len(s) <= HeaderSize /\ buf_' = Overwrite(buf_, i, s)
    BY <1>3, <1>4, <1>5
  <2> QED BY <1>2, <1>3, <1>5, <2>1, Sizes, HeadSetIs
<1>7. BufferIInv'
  <2>1. out' \in Outputs /\ garbled' \in BOOLEAN
    BY <1>3, NothingIsOutput DEF BufferIInv, BufferInv, TypeOK
  <2>2. hsIndex_' \in 0..HeaderSize
    BY <1>6 DEF Sized
  <2> QED BY <1>6, <2>1, <2>2 DEF Sized, Outputs, BufferIInv, BufferInv, TypeOK, IndicesInOrder
<1>8. Queue!HeadSet(kind, i, v)
  <2>1. Queue!Convert(kind, v) = s
    BY <1>4 DEF Convert, Queue!Convert, Reverse, Queue!Reverse
  <2>2. Slice(Header, 0, i) = Queue!First(Header, i)
    BY DEF Slice, Queue!First
  <2>3. Slice(Header, i + Len(s), Len(Header)) = Queue!Rest(Header, i + Len(v))
    BY <1>5 DEF Slice, Queue!Rest
  <2>4. Header' = Queue!First(Header, i) \o Queue!Convert(kind, v) \o Queue!Rest(Header, i + Len(v))
    BY <1>6, <2>1, <2>2, <2>3
  <2> QED BY <1>3, <1>6, <2>4 DEF Header, NothingOut, Queue!HeadSet, Queue!Nothing
<1> QED BY <1>1, <1>7, <1>8

\* writeFd: what is left of the header goes first, then the body.
LEMMA WriteFdStep ==
    ASSUME BufferIInv, NEW h \in 0..HeaderSize, NEW b \in 0..MaxBody, WriteFd(h, b)
    PROVE  BufferIInv' /\ h + b \in 0..HeaderSize + MaxBody /\ Queue!Write(h + b)
<1>1. /\ h <= HeaderSize - hsIndex_ /\ b <= Readable /\ (b > 0 => h = HeaderSize - hsIndex_)
      /\ out' = <<"written", Bytes(hsIndex_, hsIndex_ + h) \o Bytes(rIndex_, rIndex_ + b)>>
      /\ hsIndex_' = hsIndex_ + h /\ UNCHANGED <<buf_, garbled>>
  BY DEF WriteFd, HeaderFirst
<1>2. /\ b = 0 => UNCHANGED <<rIndex_, wIndex_>>
      /\ b # 0 => Advance(b)
  <2>1. b = 0 => UNCHANGED <<rIndex_, wIndex_>>
    BY DEF WriteFd
  <2>2. ASSUME b # 0 PROVE Advance(b)
    BY <2>2, Zenon DEF WriteFd
  <2> QED BY <2>1, <2>2
<1>3. /\ Sized /\ HeaderSize \in Nat /\ MaxBody \in Nat /\ h \in Nat /\ b \in Nat
      /\ hsIndex_ \in Nat /\ hsIndex_ <= HeaderSize
      /\ buf_ \in Seq(Byte) /\ Len(buf_) \in Nat /\ HeaderSize <= Len(buf_) /\ Readable \in Nat
  BY Sizes DEF Sized
<1>4. hsIndex_' \in Nat /\ hsIndex_' <= HeaderSize
  BY <1>1, <1>3
<1>5. Header \in Seq(Byte) /\ Len(Header) = HeaderSize /\ Body \in Seq(Byte) /\ Len(Body) = Readable
  BY <1>3, HeaderIs, BodyIs
<1>6. Sized' /\ Header' = Header /\ Body' = Slice(Body, b, Len(Body))
  <2>1. CASE b = 0
    <3>1. UNCHANGED <<buf_, rIndex_, wIndex_>>
      BY <1>1, <1>2, <2>1
    <3>2. Readable' = Readable /\ Writable' = Writable /\ (LengthBounded' <=> LengthBounded)
      BY <3>1 DEF Readable, Writable, LengthBounded
    <3>3. Sized'
      BY <1>3, <1>4, <3>1, <3>2 DEF Sized
    <3>4. Header' = Header /\ Body' = Body
      BY <3>1 DEF Header, Body, Bytes
    <3>5. Slice(Body, 0, Len(Body)) = Body
      BY <1>5, SliceAll
    <3> QED BY <2>1, <3>3, <3>4, <3>5
  <2>2. CASE b # 0
    <3>1. Advance(b)
      BY <1>2, <2>2
    <3> QED BY <1>1, <1>3, <1>4, <3>1, AdvanceDrops
  <2> QED BY <2>1, <2>2
<1> DEFINE S == Slice(Header, hsIndex_, HeaderSize)
<1>7. S \in Seq(Byte) /\ Len(S) = HeaderSize - hsIndex_
  <2>1. HeaderSize <= Len(Header)
    BY <1>3, <1>5
  <2> QED BY <1>3, <1>5, <2>1, SliceIs
<1>8. Bytes(rIndex_, rIndex_ + b) = Slice(Body, 0, b) /\ Bytes(rIndex_, rIndex_ + b) \in Seq(Byte)
  BY <1>1, <1>3, FrontIs
<1>9. Bytes(hsIndex_, hsIndex_ + h) = Slice(S, 0, h) /\ Bytes(hsIndex_, hsIndex_ + h) \in Seq(Byte)
  <2>1. PICK m \in Nat : m = hsIndex_ + h
    BY <1>3
  <2>2. hsIndex_ <= m /\ m <= HeaderSize /\ m <= Len(buf_)
    BY <1>1, <1>3, <2>1
  <2>3. Slice(buf_, hsIndex_, m) \in Seq(Byte)
    BY <1>3, <2>2, SliceIs
  <2>4. Slice(Slice(buf_, 0, HeaderSize), hsIndex_, HeaderSize) = Slice(buf_, hsIndex_, HeaderSize)
    <3>1. /\ 0 \in Nat /\ 0 <= HeaderSize /\ HeaderSize <= HeaderSize - 0
          /\ 0 + hsIndex_ = hsIndex_ /\ 0 + HeaderSize = HeaderSize
      BY <1>3
    <3>2. Slice(Slice(buf_, 0, HeaderSize), hsIndex_, HeaderSize)
              = Slice(buf_, 0 + hsIndex_, 0 + HeaderSize)
      BY <1>3, <3>1, SliceOfSlice
    <3> QED BY <3>1, <3>2
  <2>5. Slice(Slice(buf_, hsIndex_, HeaderSize), 0, h) = Slice(buf_, hsIndex_, m)
    <3>1. /\ 0 \in Nat /\ 0 <= h /\ h <= HeaderSize - hsIndex_ /\ hsIndex_ + 0 = hsIndex_
      BY <1>1, <1>3
    <3>2. Slice(Slice(buf_, hsIndex_, HeaderSize), 0, h) = Slice(buf_, hsIndex_ + 0, hsIndex_ + h)
      BY <1>3, <3>1, SliceOfSlice
    <3> QED BY <2>1, <3>1, <3>2
  <2>6. Header = Slice(buf_, 0, HeaderSize) /\ Bytes(hsIndex_, m) = Slice(buf_, hsIndex_, m)
    BY DEF Header, Bytes, Slice
  <2> QED BY <2>1, <2>3, <2>4, <2>5, <2>6
<1> HIDE DEF S
<1>10. Slice(S \o Body, 0, h + b) = Slice(S, 0, h) \o Slice(Body, 0, b)
  <2>1. h <= Len(S) /\ b <= Len(Body) /\ (b > 0 => h = Len(S))
    BY <1>1, <1>5, <1>7
  <2>2. S \in Seq(Byte) /\ Body \in Seq(Byte) /\ h \in Nat /\ b \in Nat
    BY <1>3, <1>5, <1>7
  <2> QED BY <2>1, <2>2, SliceOfBoth
<1>11. BufferIInv'
  <2>1. Bytes(hsIndex_, hsIndex_ + h) \o Bytes(rIndex_, rIndex_ + b) \in Seq(Byte)
    BY <1>8, <1>9, ConcatIs
  <2>2. out' \in Outputs /\ garbled' \in BOOLEAN
    BY <1>1, <2>1 DEF Outputs, BufferIInv, BufferInv, TypeOK
  <2>3. hsIndex_' \in 0..HeaderSize
    BY <1>3, <1>4
  <2> QED BY <1>6, <2>2, <2>3 DEF Sized, Outputs, BufferIInv, BufferInv, TypeOK, IndicesInOrder
<1>12. Queue!Write(h + b)
  <2>1. S \o Body = Queue!Rest(Header, hsIndex_) \o Body
    BY <1>5 DEF S, Slice, Queue!Rest
  <2>2. Len(S \o Body) = (HeaderSize - hsIndex_) + Readable
    BY <1>5, <1>7, ConcatIs
  <2>3. h + b <= Len(S \o Body)
    BY <1>1, <1>3, <2>2
  <2>4. out' = <<"written", Queue!First(S \o Body, h + b)>>
    <3>1. Slice(S \o Body, 0, h + b) = Queue!First(S \o Body, h + b)
      BY DEF Slice, Queue!First
    <3> QED BY <1>1, <1>8, <1>9, <1>10, <3>1
  <2>5. h = IF h + b < HeaderSize - hsIndex_ THEN h + b ELSE HeaderSize - hsIndex_
    BY <1>1, <1>3
  <2>6. (h + b) - h = b
    BY <1>3
  <2>7. Body' = Queue!Rest(Body, (h + b) - h)
    BY <1>6, <2>6 DEF Slice, Queue!Rest
  <2> QED BY <1>1, <1>6, <2>1, <2>3, <2>4, <2>5, <2>7 DEF Queue!Write, Header
<1>13. h + b \in 0..HeaderSize + MaxBody
  BY <1>3
<1> QED BY <1>11, <1>12, <1>13
-----------------------------------------------------------------------------
(* The invariant and the refinement                                        *)

LEMMA InitIs == Init => BufferIInv /\ Queue!Init
<1> SUFFICES ASSUME Init PROVE BufferIInv /\ Queue!Init
  OBVIOUS
<1>1. HeaderSize \in Nat /\ BodySize \in Nat /\ MaxBody \in Nat /\ MaxRequest \in Nat
  BY BufferAssumption
<1>2. HeaderSize + BodySize \in Nat
  BY <1>1
<1>3. /\ buf_ \in Seq(Byte) /\ Len(buf_) = HeaderSize + BodySize
      /\ rIndex_ = HeaderSize /\ wIndex_ = HeaderSize /\ hsIndex_ = 0
      /\ out = <<"nothing", <<>>>> /\ garbled = FALSE
  BY <1>2, ZerosIs DEF Init
<1>4. Readable = 0 /\ Writable = BodySize
  BY <1>1, <1>3 DEF Readable, Writable
<1>5. Sized
  BY <1>1, <1>3, <1>4 DEF Sized, LengthBounded
<1>6. out \in Outputs
  <2>1. <<>> \in Seq(Byte)
    BY EmptySeq
  <2>2. \A s \in Seq(Byte) : <<"nothing", s>> \in Outputs
    BY DEF Outputs
  <2>3. <<"nothing", <<>>>> \in Outputs
    BY <2>1, <2>2, Zenon
  <2> QED BY <1>3, <2>3
<1>7. BufferIInv
  BY <1>3, <1>5, <1>6, Sufficient
<1>8. Header \in [1..HeaderSize -> Byte]
  <2>1. Header \in Seq(Byte) /\ Len(Header) = HeaderSize
    BY <1>5, HeaderIs
  <2> QED BY <2>1
<1>9. Body = <<>>
  <2>1. Body \in Seq(Byte) /\ Len(Body) = 0
    BY <1>4, <1>5, BodyIs
  <2> QED BY <2>1, EmptySeq
<1>10. Queue!Init
  BY <1>3, <1>8, <1>9 DEF Queue!Init, Queue!Nothing, Header
<1> QED BY <1>7, <1>10

LEMMA StepIs == BufferIInv /\ [Next]_vars => BufferIInv' /\ [Queue!Next]_Queue!vars
<1> SUFFICES ASSUME BufferIInv, [Next]_vars
             PROVE  BufferIInv' /\ [Queue!Next]_Queue!vars
  OBVIOUS
<1> USE DEF Queue!Kinds
<1>1. <<>> \in Strings \cup Ints
  BY BufferAssumption
<1>2. ASSUME NEW x \in Operands, Put(x[1], x[2]) PROVE BufferIInv' /\ Queue!Next
  BY <1>1, <1>2, OperandIs, PutStep DEF Queue!Next
<1>3. ASSUME NEW x \in Operands, NEW i \in 0..HeaderSize, HeadSet(x[1], i, x[2])
      PROVE  BufferIInv' /\ Queue!Next
  BY <1>3, OperandIs, HeadSetStep DEF Queue!Next
<1>4. ASSUME NEW q \in Requests, Peek(q[1], q[2]) PROVE BufferIInv' /\ Queue!Next
  BY <1>4, RequestIs, PeekStep DEF Queue!Next
<1>5. ASSUME NEW q \in Requests, Retrieve(q[1], q[2]) PROVE BufferIInv' /\ Queue!Next
  BY <1>5, RequestIs, RetrieveStep DEF Queue!Next
<1>6. ASSUME NEW q \in Requests, NEW i \in 0..HeaderSize, HeadGet(q[1], i, q[2])
      PROVE  BufferIInv' /\ Queue!Next
  BY <1>6, RequestIs, HeadGetStep DEF Queue!Next
<1>7. ASSUME NEW n \in ChunkSizes, NEW s \in Strings, ReadFd(n, s) PROVE BufferIInv' /\ Queue!Next
  BY <1>1, <1>7, ReadFdStep DEF Queue!Next
<1>8. ASSUME NEW h \in 0..HeaderSize, NEW b \in 0..MaxBody, WriteFd(h, b)
      PROVE  BufferIInv' /\ Queue!Next
  BY <1>8, WriteFdStep DEF Queue!Next
<1>9. CASE UNCHANGED vars
  <2>1. Header' = Header /\ Body' = Body
    BY <1>9 DEF vars, Header, Body, Bytes
  <2>2. Readable' = Readable /\ (LengthBounded' <=> LengthBounded)
    BY <1>9 DEF vars, Readable, LengthBounded
  <2>3. BufferIInv'
    BY <1>9, <2>2 DEF vars, BufferIInv, BufferInv, TypeOK, IndicesInOrder
  <2>4. UNCHANGED Queue!vars
    BY <1>9, <2>1 DEF vars, Queue!vars, Header
  <2> QED BY <2>3, <2>4
<1> QED BY <1>2, <1>3, <1>4, <1>5, <1>6, <1>7, <1>8, <1>9 DEF Next

\* Whatever growing, moving and partial writes did, the indices keep their
\* order behind the header and inside the vector, an empty buffer starts over,
\* and a buffer whose body stays small stays small.
THEOREM IndicesStayInOrder == Spec => []BufferInv
<1>1. Init => BufferIInv
  BY InitIs
<1>2. BufferIInv /\ [Next]_vars => BufferIInv'
  BY StepIs
<1>3. BufferIInv => BufferInv
  BY DEF BufferIInv
<1> QED BY <1>1, <1>2, <1>3, PTL DEF Spec

\* The buffer is a FIFO queue of bytes behind a header that is written first
\* and once: every operation is a step of ByteQueue, for any sizes and values.
THEOREM IsByteQueue == Spec => ImplementsByteQueue
<1>1. Init => BufferIInv /\ Queue!Init
  BY InitIs
<1>2. BufferIInv /\ [Next]_vars => BufferIInv' /\ [Queue!Next]_Queue!vars
  BY StepIs
<1> QED BY <1>1, <1>2, PTL DEF Spec, ImplementsByteQueue, Queue!Spec
=============================================================================
