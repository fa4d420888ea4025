---------------------------- MODULE BufferProofs ----------------------------
(***************************************************************************)
(* Proofs about Buffer, for every byte set, every m_freePrepend and        *)
(* m_initialSize, and every bound on lengths.                              *)
(***************************************************************************)
EXTENDS BufferCodec, SequenceTheorems, WellFoundedInduction,
        NaturalsInduction, TLAPS

\* What a cell of the vector may hold: a byte that a caller writes, or a byte
\* of an integer.
Cells == Bytes \cup Nat

BufferType == [mem : Seq(Cells), r : Nat, w : Nat]

InBounds(x) ==
    /\ x \in BufferType
    /\ FreePrepend <= x.r /\ x.r <= x.w /\ x.w <= Len(x.mem)

-----------------------------------------------------------------------------
(* What the operations do to the indices and to the readable bytes.        *)

\* The readable bytes are a string of bytes.
LEMMA ContentType ==
    ASSUME NEW x, InBounds(x)
    PROVE  /\ Content(x) \in Seq(Cells)
           /\ Len(Content(x)) = x.w - x.r
           /\ \A i \in 1..(x.w - x.r) : Content(x)[i] = x.mem[x.r + i]
<1>1. x.mem \in Seq(Cells) /\ x.r \in Nat /\ x.w \in Nat /\ x.w - x.r \in Nat
    BY DEF InBounds, BufferType
<1>2. \A i \in 1..(x.w - x.r) : x.r + i \in 1..Len(x.mem)
    BY <1>1 DEF InBounds
<1>3. \A i \in 1..(x.w - x.r) : x.mem[x.r + i] \in Cells
    BY <1>1, <1>2
<1>4. Content(x) \in [1..(x.w - x.r) -> Cells]
    BY <1>3 DEF Content, readableBytes
<1> QED BY <1>1, <1>4 DEF Content, readableBytes

\* Two buffers with as many readable bytes, equal one by one, have the same
\* content.
LEMMA ContentEqual ==
    ASSUME NEW x, NEW y, InBounds(x), InBounds(y),
           y.w - y.r = x.w - x.r,
           \A i \in 1..(x.w - x.r) : y.mem[y.r + i] = x.mem[x.r + i]
    PROVE  Content(y) = Content(x)
    BY DEF Content, readableBytes

\* Compaction moves the readable bytes and frees the space before them.
LEMMA Compaction ==
    ASSUME NEW x, InBounds(x)
    PROVE  /\ InBounds(compacted(x))
           /\ Content(compacted(x)) = Content(x)
           /\ writeableBytes(compacted(x)) = writeableBytes(x) + x.r - FreePrepend
           /\ Len(compacted(x).mem) = Len(x.mem)
<1> DEFINE y == compacted(x)
           n == x.w - x.r
<1>1. /\ x.mem \in Seq(Cells) /\ x.r \in Nat /\ x.w \in Nat /\ n \in Nat
      /\ FreePrepend \in Nat /\ Len(x.mem) \in Nat
      /\ FreePrepend <= x.r /\ x.w <= Len(x.mem)
    BY SizesAssumption DEF InBounds, BufferType
<1>2. /\ y.r = FreePrepend /\ y.w = FreePrepend + n
      /\ y.mem = [i \in 1..Len(x.mem) |->
                    IF i > FreePrepend /\ i <= FreePrepend + n
                    THEN x.mem[x.r + (i - FreePrepend)] ELSE x.mem[i]]
    BY DEF compacted, readableBytes
<1>3. \A i \in 1..Len(x.mem) : y.mem[i] \in Cells
    BY <1>1, <1>2
<1>4. y.mem \in Seq(Cells) /\ Len(y.mem) = Len(x.mem)
    <2>1. y.mem \in [1..Len(x.mem) -> Cells]
        BY <1>2, <1>3
    <2>2. Len(x.mem) \in Nat
        BY <1>1
    <2> HIDE DEF y
    <2> QED BY <2>1, <2>2
<1>5. y \in BufferType
    BY <1>1, <1>2, <1>4 DEF compacted, BufferType, readableBytes
<1>6. InBounds(y)
    BY <1>1, <1>2, <1>4, <1>5 DEF InBounds
<1>7. \A i \in 1..n : y.mem[y.r + i] = x.mem[x.r + i]
    BY <1>1, <1>2
<1>8. y.w - y.r = n
    BY <1>1, <1>2
<1> HIDE DEF y
<1>9. Content(y) = Content(x)
    BY <1>6, <1>7, <1>8, ContentEqual
<1>10. writeableBytes(y) = writeableBytes(x) + x.r - FreePrepend
    BY <1>1, <1>2, <1>4 DEF writeableBytes
<1> QED BY <1>4, <1>6, <1>9, <1>10 DEF y

\* Growth keeps every byte and makes room for exactly n more.
LEMMA Growth ==
    ASSUME NEW x, InBounds(x), NEW n \in Nat, writeableBytes(x) < n
    PROVE  /\ InBounds(grown(x, n))
           /\ Content(grown(x, n)) = Content(x)
           /\ writeableBytes(grown(x, n)) = n
           /\ Len(grown(x, n).mem) = x.w + n
<1> DEFINE y == grown(x, n)
<1>1. /\ x.mem \in Seq(Cells) /\ x.r \in Nat /\ x.w \in Nat
      /\ Len(x.mem) \in Nat /\ x.w - x.r \in Nat
      /\ x.w <= Len(x.mem) /\ Len(x.mem) < x.w + n
    BY DEF InBounds, BufferType, writeableBytes
<1>2. /\ y.r = x.r /\ y.w = x.w
      /\ y.mem = [i \in 1..(x.w + n) |->
                    IF i <= Len(x.mem) THEN x.mem[i] ELSE Zero]
    BY DEF grown, InBounds, BufferType
<1>3. \A i \in 1..(x.w + n) : y.mem[i] \in Cells
    BY <1>1, <1>2, BytesAssumption DEF Cells
<1>4. y.mem \in Seq(Cells) /\ Len(y.mem) = x.w + n
    <2>1. x.w + n \in Nat
        BY <1>1
    <2>2. y.mem \in [1..(x.w + n) -> Cells]
        BY <1>2, <1>3
    <2> HIDE DEF y
    <2> QED BY <2>1, <2>2
<1>5. y \in BufferType
    BY <1>1, <1>2, <1>4 DEF grown, BufferType, InBounds
<1>6. InBounds(y)
    BY <1>1, <1>2, <1>4, <1>5 DEF InBounds
<1>7. \A i \in 1..(x.w - x.r) : y.mem[y.r + i] = x.mem[x.r + i]
    BY <1>1, <1>2
<1>8. y.w - y.r = x.w - x.r
    BY <1>2
<1> HIDE DEF y
<1>9. Content(y) = Content(x)
    BY <1>6, <1>7, <1>8, ContentEqual
<1>10. writeableBytes(y) = n
    BY <1>1, <1>2, <1>4 DEF writeableBytes
<1> QED BY <1>4, <1>6, <1>9, <1>10 DEF y

\* After ensureWriteableBytes(n) there is room for n bytes.
LEMMA Ensuring ==
    ASSUME NEW x, InBounds(x), NEW n \in Nat
    PROVE  LET y == ensureWriteableBytes(x, n)
           IN  /\ InBounds(y)
               /\ Content(y) = Content(x)
               /\ n <= writeableBytes(y)
               /\ Len(y.mem) >= Len(x.mem)
               /\ Len(y.mem) > Len(x.mem) =>
                    FreePrepend + readableBytes(x) + n > Len(x.mem)
<1> DEFINE y == ensureWriteableBytes(x, n)
<1>1. /\ x.r \in Nat /\ x.w \in Nat /\ Len(x.mem) \in Nat
      /\ writeableBytes(x) \in Nat /\ FreePrepend \in Nat
      /\ writeableBytes(x) = Len(x.mem) - x.w
      /\ readableBytes(x) = x.w - x.r
    BY SizesAssumption
       DEF InBounds, BufferType, writeableBytes, readableBytes
<1>2. CASE writeableBytes(x) >= n
    <2>1. y = x
        BY <1>1, <1>2 DEF ensureWriteableBytes
    <2> QED BY <1>1, <1>2, <2>1
<1>3. CASE writeableBytes(x) < n /\ fitsAfterCompaction(x, n)
    <2>1. y = compacted(x)
        BY <1>3 DEF ensureWriteableBytes, resizeBuffer
    <2>2. writeableBytes(x) + x.r >= n + FreePrepend
        BY <1>3 DEF fitsAfterCompaction, prependableBytes
    <2>3. n <= writeableBytes(x) + x.r - FreePrepend
        BY <1>1, <2>2
    <2> HIDE DEF y
    <2>4. /\ InBounds(y) /\ Content(y) = Content(x)
          /\ n <= writeableBytes(y) /\ Len(y.mem) = Len(x.mem)
        BY <2>1, <2>3, Compaction
    <2> QED BY <1>1, <2>4 DEF y
<1>4. CASE writeableBytes(x) < n /\ ~fitsAfterCompaction(x, n)
    <2>1. y = grown(x, n)
        BY <1>4 DEF ensureWriteableBytes, resizeBuffer
    <2>2. writeableBytes(x) + x.r < n + FreePrepend
        BY <1>1, <1>4 DEF fitsAfterCompaction, prependableBytes
    <2>3. FreePrepend + readableBytes(x) + n > Len(x.mem)
        BY <1>1, <2>2
    <2>4. x.w + n >= Len(x.mem)
        BY <1>1, <1>4
    <2> HIDE DEF y
    <2>5. Len(y.mem) = x.w + n /\ writeableBytes(y) = n
        BY <2>1, <1>4, Growth
    <2>6. InBounds(y) /\ Content(y) = Content(x)
        BY <2>1, <1>4, Growth
    <2> QED BY <2>3, <2>4, <2>5, <2>6 DEF y
<1> QED BY <1>1, <1>2, <1>3, <1>4

\* The elements of a concatenation, part by part.
LEMMA ConcatElements ==
    ASSUME NEW S, NEW s \in Seq(S), NEW u \in Seq(S), NEW n, n = Len(s)
    PROVE  /\ s \o u \in Seq(S)
           /\ Len(s \o u) = n + Len(u)
           /\ \A i \in 1..n : (s \o u)[i] = s[i]
           /\ \A i \in (n + 1)..(n + Len(u)) : (s \o u)[i] = u[i - n]
<1>1. n \in Nat /\ Len(u) \in Nat
    OBVIOUS
<1>2. /\ s \o u \in Seq(S)
      /\ Len(s \o u) = n + Len(u)
      /\ \A i \in 1..(n + Len(u)) :
            (s \o u)[i] = IF i <= n THEN s[i] ELSE u[i - n]
    BY ConcatProperties
<1>3. \A i \in 1..n : i \in 1..(n + Len(u)) /\ i <= n
    BY <1>1
<1>4. \A i \in (n + 1)..(n + Len(u)) : i \in 1..(n + Len(u)) /\ ~(i <= n)
    BY <1>1
<1> QED BY <1>2, <1>3, <1>4

\* memcpy of d behind the readable bytes, when it fits.
LEMMA Copying ==
    ASSUME NEW x, InBounds(x), NEW d \in Seq(Cells),
           Len(d) <= writeableBytes(x)
    PROVE  /\ InBounds(copyIn(x, d))
           /\ Content(copyIn(x, d)) = Content(x) \o d
           /\ Len(copyIn(x, d).mem) = Len(x.mem)
           /\ readableBytes(copyIn(x, d)) = readableBytes(x) + Len(d)
           /\ writeableBytes(copyIn(x, d)) = writeableBytes(x) - Len(d)
<1> DEFINE y == copyIn(x, d)
           n == x.w - x.r
<1>1. /\ x.mem \in Seq(Cells) /\ x.r \in Nat /\ x.w \in Nat
      /\ Len(x.mem) \in Nat /\ n \in Nat /\ Len(d) \in Nat
      /\ x.w + Len(d) <= Len(x.mem)
    BY DEF InBounds, BufferType, writeableBytes
<1>2. /\ y.r = x.r /\ y.w = x.w + Len(d)
      /\ y.mem = [i \in 1..Len(x.mem) |->
                    IF i > x.w /\ i <= x.w + Len(d)
                    THEN d[i - x.w] ELSE x.mem[i]]
    BY DEF copyIn, InBounds, BufferType
<1>3. \A i \in 1..Len(x.mem) : y.mem[i] \in Cells
    BY <1>1, <1>2
<1>4. y.mem \in Seq(Cells) /\ Len(y.mem) = Len(x.mem)
    <2>1. y.mem \in [1..Len(x.mem) -> Cells]
        BY <1>2, <1>3
    <2>2. Len(x.mem) \in Nat
        BY <1>1
    <2> HIDE DEF y
    <2> QED BY <2>1, <2>2
<1>5. y \in BufferType
    <2>1. y = [mem |-> y.mem, r |-> y.r, w |-> y.w]
        BY DEF copyIn, BufferType, InBounds
    <2>2. y.r \in Nat /\ y.w \in Nat
        BY <1>1, <1>2
    <2> HIDE DEF y
    <2> QED BY <2>1, <2>2, <1>4 DEF BufferType
<1>6. InBounds(y)
    BY <1>1, <1>2, <1>4, <1>5 DEF InBounds
<1>7. y.w - y.r = n + Len(d)
    BY <1>1, <1>2
<1>8. \A i \in 1..n : y.mem[y.r + i] = x.mem[x.r + i]
    BY <1>1, <1>2
<1>9. ASSUME NEW i \in (n + 1)..(n + Len(d))
      PROVE  y.mem[y.r + i] = d[i - n]
    <2> HIDE DEF y
    <2>a. /\ x.r \in Nat /\ x.w \in Nat /\ Len(d) \in Nat
          /\ Len(x.mem) \in Nat /\ x.r <= x.w /\ x.w + Len(d) <= Len(x.mem)
        BY <1>1 DEF InBounds
    <2>1. /\ x.r + i \in 1..Len(x.mem)
          /\ x.r + i > x.w /\ x.r + i <= x.w + Len(d)
          /\ (x.r + i) - x.w = i - n
        BY <2>a
    <2>2. y.mem[x.r + i] = d[(x.r + i) - x.w]
        BY <1>2, <2>1
    <2> QED BY <1>2, <2>1, <2>2
<1> HIDE DEF y
<1>10. Content(y) = Content(x) \o d
    <2>1. /\ Content(y) \in Seq(Cells) /\ Len(Content(y)) = n + Len(d)
          /\ \A i \in 1..(n + Len(d)) : Content(y)[i] = y.mem[y.r + i]
        BY <1>6, <1>7, ContentType
    <2>2. /\ Content(x) \in Seq(Cells) /\ Len(Content(x)) = n
          /\ \A i \in 1..n : Content(x)[i] = x.mem[x.r + i]
        BY ContentType
    <2>3. /\ Content(x) \o d \in Seq(Cells)
          /\ Len(Content(x) \o d) = n + Len(d)
          /\ \A i \in 1..n : (Content(x) \o d)[i] = Content(x)[i]
          /\ \A i \in (n + 1)..(n + Len(d)) : (Content(x) \o d)[i] = d[i - n]
        BY <2>2, ConcatElements
    <2>4. ASSUME NEW i \in 1..(n + Len(d))
          PROVE  Content(y)[i] = (Content(x) \o d)[i]
        <3>1. CASE i \in 1..n
            BY <3>1, <2>1, <2>2, <2>3, <1>8
        <3>2. CASE i \in (n + 1)..(n + Len(d))
            BY <3>2, <2>1, <2>3, <1>9
        <3>3. i \in 1..n \/ i \in (n + 1)..(n + Len(d))
            <4> HIDE DEF n
            <4> QED BY <1>1
        <3> QED BY <3>1, <3>2, <3>3
    <2> QED BY <2>1, <2>3, <2>4, SeqEqual
<1>11. /\ readableBytes(y) = readableBytes(x) + Len(d)
       /\ writeableBytes(y) = writeableBytes(x) - Len(d)
    BY <1>1, <1>2, <1>4 DEF readableBytes, writeableBytes
<1> QED BY <1>4, <1>6, <1>10, <1>11 DEF y

\* writeLen appends d to the readable bytes, whatever it had to do for room.
LEMMA Writing ==
    ASSUME NEW x, InBounds(x), NEW d \in Seq(Cells)
    PROVE  /\ InBounds(writeLen(x, d))
           /\ Content(writeLen(x, d)) = Content(x) \o d
           /\ Len(writeLen(x, d).mem) >= Len(x.mem)
           /\ Len(writeLen(x, d).mem) > Len(x.mem) =>
                 FreePrepend + readableBytes(writeLen(x, d)) > Len(x.mem)
<1> DEFINE y == ensureWriteableBytes(x, Len(d))
<1>1. Len(d) \in Nat
    OBVIOUS
<1>2. /\ InBounds(y) /\ Content(y) = Content(x)
      /\ Len(d) <= writeableBytes(y)
      /\ Len(y.mem) >= Len(x.mem)
      /\ Len(y.mem) > Len(x.mem) =>
            FreePrepend + readableBytes(x) + Len(d) > Len(x.mem)
    BY <1>1, Ensuring
<1> HIDE DEF y
<1>3. /\ InBounds(copyIn(y, d))
      /\ Content(copyIn(y, d)) = Content(y) \o d
      /\ Len(copyIn(y, d).mem) = Len(y.mem)
      /\ readableBytes(copyIn(y, d)) = readableBytes(y) + Len(d)
    BY <1>2, Copying
<1>4. readableBytes(y) = readableBytes(x) /\ readableBytes(x) \in Nat
    <2>1. Len(Content(y)) = y.w - y.r
        BY <1>2, ContentType
    <2>2. Len(Content(x)) = x.w - x.r /\ x.w - x.r \in Nat
        BY ContentType DEF InBounds, BufferType
    <2> QED BY <1>2, <2>1, <2>2 DEF readableBytes
<1>5. writeLen(x, d) = copyIn(y, d)
    BY DEF writeLen, y
<1>6. FreePrepend \in Nat
    BY SizesAssumption
<1> QED BY <1>1, <1>2, <1>3, <1>4, <1>5, <1>6

\* A sequence is its two parts, one behind the other.
LEMMA Splitting ==
    ASSUME NEW S, NEW s \in Seq(S), NEW n \in Nat, n <= Len(s)
    PROVE  SubSeq(s, 1, n) \o SubSeq(s, n + 1, Len(s)) = s
<1>1. Len(s) \in Nat
    OBVIOUS
<1>2. 1 \in 1..(Len(s) + 1) /\ n \in (1 - 1)..Len(s) /\ Len(s) \in n..Len(s)
    BY <1>1
<1>3. SubSeq(s, 1, n) \o SubSeq(s, n + 1, Len(s)) = SubSeq(s, 1, Len(s))
    BY <1>2, ConcatAdjacentSubSeq
<1> QED BY <1>3, SubSeqFull

\* readFd appends what was delivered, the part in the vector and the part in
\* the stack buffer in this order.
LEMMA Reading ==
    ASSUME NEW x, InBounds(x), NEW d \in Seq(Cells)
    PROVE  /\ InBounds(readFd(x, d))
           /\ Content(readFd(x, d)) = Content(x) \o d
           /\ Len(readFd(x, d).mem) >= Len(x.mem)
           /\ Len(readFd(x, d).mem) > Len(x.mem) =>
                 FreePrepend + readableBytes(readFd(x, d)) > Len(x.mem)
<1> DEFINE n == writeableBytes(x)
           d1 == SubSeq(d, 1, n)
           d2 == SubSeq(d, n + 1, Len(d))
<1>1. n \in Nat /\ Len(d) \in Nat /\ Len(x.mem) \in Nat
    BY DEF InBounds, BufferType, writeableBytes
<1> HIDE DEF n
<1>2. CASE Len(d) <= n
    <2>1. readFd(x, d) = copyIn(x, d)
        BY <1>2 DEF readFd, n
    <2>2. /\ InBounds(copyIn(x, d)) /\ Content(copyIn(x, d)) = Content(x) \o d
          /\ Len(copyIn(x, d).mem) = Len(x.mem)
        BY <1>2, Copying DEF n
    <2> QED BY <1>1, <2>1, <2>2
<1>3. CASE ~(Len(d) <= n)
    <2>1. d1 \in Seq(Cells) /\ Len(d1) = n /\ d2 \in Seq(Cells)
        BY <1>1, <1>3
    <2>2. d1 \o d2 = d
        <3>1. n <= Len(d)
            BY <1>1, <1>3
        <3> QED BY <1>1, <3>1, Splitting
    <2> HIDE DEF d1, d2
    <2> DEFINE y == copyIn(x, d1)
    <2>3. /\ InBounds(y) /\ Content(y) = Content(x) \o d1
          /\ Len(y.mem) = Len(x.mem)
        BY <1>1, <2>1, Copying DEF n
    <2> HIDE DEF y
    <2>4. /\ InBounds(writeLen(y, d2))
          /\ Content(writeLen(y, d2)) = Content(y) \o d2
          /\ Len(writeLen(y, d2).mem) >= Len(y.mem)
          /\ Len(writeLen(y, d2).mem) > Len(y.mem) =>
                FreePrepend + readableBytes(writeLen(y, d2)) > Len(y.mem)
        BY <2>1, <2>3, Writing
    <2>5. Content(y) \o d2 = Content(x) \o d
        <3>1. Content(x) \in Seq(Cells)
            BY ContentType
        <3>2. (Content(x) \o d1) \o d2 = Content(x) \o (d1 \o d2)
            <4> DEFINE u == Content(x)
            <4> HIDE DEF u
            <4>1. u \in Seq(Cells) /\ d1 \in Seq(Cells) /\ d2 \in Seq(Cells)
                BY <3>1, <2>1 DEF u
            <4>2. (u \o d1) \o d2 = u \o (d1 \o d2)
                BY <4>1, ConcatAssociative
            <4> QED BY <4>2 DEF u
        <3> QED BY <3>2, <2>2, <2>3
    <2>6. readFd(x, d) = writeLen(y, d2)
        BY <1>3 DEF readFd, n, d1, d2, y
    <2> QED BY <2>3, <2>4, <2>5, <2>6
<1> QED BY <1>2, <1>3

\* retrieve takes n bytes from the front, or all when there are fewer.
LEMMA Retrieving ==
    ASSUME NEW x, InBounds(x), NEW n \in Nat
    PROVE  /\ InBounds(retrieve(x, n))
           /\ retrieve(x, n).mem = x.mem
           /\ Content(retrieve(x, n)) =
                 IF n > Len(Content(x)) THEN <<>>
                 ELSE SubSeq(Content(x), n + 1, Len(Content(x)))
<1> DEFINE y == retrieve(x, n)
           k == x.w - x.r
<1>1. /\ x.mem \in Seq(Cells) /\ x.r \in Nat /\ x.w \in Nat /\ k \in Nat
      /\ FreePrepend \in Nat /\ Len(x.mem) \in Nat
      /\ FreePrepend <= x.r /\ x.r <= x.w /\ x.w <= Len(x.mem)
    BY SizesAssumption DEF InBounds, BufferType
<1>2. /\ Content(x) \in Seq(Cells) /\ Len(Content(x)) = k
      /\ \A i \in 1..k : Content(x)[i] = x.mem[x.r + i]
    BY ContentType
<1>3. CASE k < n
    <2>1. y.mem = x.mem /\ y.r = FreePrepend /\ y.w = FreePrepend
              /\ y \in BufferType
        BY <1>1, <1>3 DEF retrieve, retrieveAll, readableBytes, InBounds,
                          BufferType
    <2> HIDE DEF y
    <2>2. InBounds(y)
        BY <1>1, <2>1 DEF InBounds
    <2>3. Content(y) \in Seq(Cells) /\ Len(Content(y)) = 0
        BY <1>1, <2>1, <2>2, ContentType
    <2>4. Content(y) = <<>>
        BY <2>3, EmptySeq
    <2> QED BY <1>1, <1>2, <1>3, <2>1, <2>2, <2>4 DEF y
<1>4. CASE ~(k < n)
    <2>1. y.mem = x.mem /\ y.r = x.r + n /\ y.w = x.w /\ y \in BufferType
        BY <1>1, <1>4 DEF retrieve, readableBytes, InBounds, BufferType
    <2> HIDE DEF y
    <2>2. InBounds(y)
        BY <1>1, <1>4, <2>1 DEF InBounds
    <2>3. /\ Content(y) \in Seq(Cells) /\ Len(Content(y)) = k - n
          /\ \A i \in 1..(k - n) : Content(y)[i] = x.mem[(x.r + n) + i]
        <3>1. y.w - y.r = k - n
            BY <1>1, <2>1
        <3>2. /\ Content(y) \in Seq(Cells) /\ Len(Content(y)) = y.w - y.r
              /\ \A i \in 1..(y.w - y.r) : Content(y)[i] = y.mem[y.r + i]
            BY <2>2, ContentType
        <3> QED BY <3>1, <3>2, <2>1
    <2> DEFINE z == SubSeq(Content(x), n + 1, k)
    <2>4. /\ z \in Seq(Cells) /\ Len(z) = k - n
          /\ \A i \in 1..(k - n) : z[i] = Content(x)[n + i]
        <3> HIDE DEF k
        <3> QED BY <1>1, <1>2, <1>4
    <2>5. \A i \in 1..(k - n) : z[i] = x.mem[(x.r + n) + i]
        <3> HIDE DEF z
        <3>1. TAKE i \in 1..(k - n)
        <3>2. n + i \in 1..k /\ x.r + (n + i) = (x.r + n) + i
            BY <1>1, <1>4
        <3> QED BY <1>2, <2>4, <3>2
    <2> HIDE DEF z
    <2>6. Content(y) = z
        BY <2>3, <2>4, <2>5, SeqEqual
    <2> QED BY <1>1, <1>2, <1>4, <2>1, <2>2, <2>6 DEF y, z
<1> QED BY <1>3, <1>4

-----------------------------------------------------------------------------
(* The state machine.                                                      *)

IInv == InBounds(b) /\ got \in Seq(Cells)

\* The strings written are sequences of bytes.
LEMMA StringsAreSequences == Strings \subseteq Seq(Cells)
<1>1. \A n \in 0..MaxLen : [1..n -> Bytes] \subseteq [1..n -> Cells]
    BY DEF Cells
<1>2. \A n \in 0..MaxLen : [1..n -> Cells] \subseteq Seq(Cells)
    BY BoundsAssumption
<1> QED BY <1>1, <1>2 DEF Strings

\* The lengths asked for are natural numbers.
LEMMA LengthsAreNaturals == Lengths \subseteq Nat
    BY BoundsAssumption DEF Lengths

\* A new buffer satisfies the invariant.
LEMMA Initially == Init => IInv /\ Content(b) = <<>>
<1> SUFFICES ASSUME Init PROVE IInv /\ Content(b) = <<>>
    OBVIOUS
<1> DEFINE m == [i \in 1..(FreePrepend + InitialSize) |-> Zero]
<1>1. m \in Seq(Cells) /\ Len(m) = FreePrepend + InitialSize
    <2>1. m \in [1..(FreePrepend + InitialSize) -> Cells]
        BY BytesAssumption DEF Cells
    <2>2. FreePrepend + InitialSize \in Nat
        BY SizesAssumption
    <2> HIDE DEF m
    <2> QED BY <2>1, <2>2
<1>2. b = [mem |-> m, r |-> FreePrepend, w |-> FreePrepend]
    BY DEF Init, NewBuffer
<1> HIDE DEF m
<1>3. InBounds(b)
    BY <1>1, <1>2, SizesAssumption DEF InBounds, BufferType
<1>4. Len(Content(b)) = 0 /\ Content(b) \in Seq(Cells)
    BY <1>2, <1>3, ContentType, SizesAssumption
<1>5. Content(b) = <<>>
    BY <1>4, EmptySeq
<1> QED BY <1>3, <1>5 DEF IInv, Init

\* What one call does: the invariant, the queue step and the vector's size.
LEMMA Steps ==
    ASSUME IInv, Next
    PROVE  /\ IInv'
           /\ Queue!Next
           /\ Len(b'.mem) >= Len(b.mem)
           /\ Len(b'.mem) > Len(b.mem) =>
                FreePrepend + readableBytes(b') > Len(b.mem)
<1>0. InBounds(b) /\ got \in Seq(Cells) /\ Len(b.mem) \in Nat
      /\ Content(b) \in Seq(Cells) /\ Len(Content(b)) = readableBytes(b)
      /\ readableBytes(b) \in Nat
    BY ContentType DEF IInv, InBounds, BufferType, readableBytes
<1>1. ASSUME NEW d \in Strings, Write(d)
      PROVE  /\ IInv' /\ Queue!Put(d)
             /\ Len(b'.mem) >= Len(b.mem)
             /\ Len(b'.mem) > Len(b.mem) =>
                  FreePrepend + readableBytes(b') > Len(b.mem)
    <2>1. d \in Seq(Cells)
        BY StringsAreSequences
    <2>2. b' = writeLen(b, d) /\ got' = got
        BY <1>1 DEF Write
    <2>3. /\ InBounds(b') /\ Content(b') = Content(b) \o d
          /\ Len(b'.mem) >= Len(b.mem)
          /\ Len(b'.mem) > Len(b.mem) =>
               FreePrepend + readableBytes(b') > Len(b.mem)
        BY <1>0, <2>1, <2>2, Writing
    <2> QED BY <1>0, <2>2, <2>3 DEF IInv, InBounds, Queue!Put, Content, readableBytes
<1>2. ASSUME NEW d \in Strings, ReadFd(d)
      PROVE  /\ IInv' /\ Queue!Put(d)
             /\ Len(b'.mem) >= Len(b.mem)
             /\ Len(b'.mem) > Len(b.mem) =>
                  FreePrepend + readableBytes(b') > Len(b.mem)
    <2>1. d \in Seq(Cells)
        BY StringsAreSequences
    <2>2. b' = readFd(b, d) /\ got' = got
        BY <1>2 DEF ReadFd
    <2>3. /\ InBounds(b') /\ Content(b') = Content(b) \o d
          /\ Len(b'.mem) >= Len(b.mem)
          /\ Len(b'.mem) > Len(b.mem) =>
               FreePrepend + readableBytes(b') > Len(b.mem)
        BY <1>0, <2>1, <2>2, Reading
    <2> QED BY <1>0, <2>2, <2>3 DEF IInv, InBounds, Queue!Put, Content, readableBytes
<1>3. ASSUME NEW n \in Lengths, Read(n)
      PROVE  IInv' /\ Queue!Take(n) /\ b'.mem = b.mem
    <2>1. n \in Nat /\ n <= Len(Content(b))
        BY <1>0, <1>3, LengthsAreNaturals DEF Read
    <2>2. b' = retrieve(b, n) /\ got' = [i \in 1..n |-> b.mem[b.r + i]]
        BY <1>3 DEF Read
    <2>3. InBounds(b') /\ b'.mem = b.mem
          /\ Content(b') = SubSeq(Content(b), n + 1, Len(Content(b)))
        <3>1. ~(n > Len(Content(b)))
            BY <1>0, <2>1
        <3> QED BY <1>0, <2>1, <2>2, <3>1, Retrieving
    <2>4. got' = SubSeq(Content(b), 1, n) /\ got' \in Seq(Cells)
        <3> DEFINE s == SubSeq(Content(b), 1, n)
        <3>1. s \in Seq(Cells) /\ Len(s) = n
              /\ \A i \in 1..n : s[i] = Content(b)[i]
            BY <1>0, <2>1
        <3>2. \A i \in 1..n : i \in 1..(b.w - b.r)
            BY <1>0, <2>1 DEF readableBytes
        <3>3. \A i \in 1..n : Content(b)[i] = b.mem[b.r + i]
            BY <1>0, <3>2, ContentType
        <3> HIDE DEF s
        <3>4. \A i \in 1..n : s[i] \in Cells
            BY <3>1
        <3>5. got' \in [1..n -> Cells] /\ \A i \in 1..n : got'[i] = s[i]
            BY <2>2, <3>1, <3>3, <3>4
        <3>6. got' \in Seq(Cells) /\ Len(got') = n
            BY <2>1, <3>5
        <3>7. got' = s
            BY <3>1, <3>5, <3>6, SeqEqual
        <3> QED BY <3>6, <3>7 DEF s
    <2> QED BY <2>1, <2>3, <2>4 DEF IInv, InBounds, Queue!Take, Content, readableBytes
<1>4. ASSUME NEW n \in Lengths, Retrieve(n)
      PROVE  IInv' /\ Queue!Drop(n) /\ b'.mem = b.mem
    <2>1. n \in Nat
        BY LengthsAreNaturals
    <2>2. b' = retrieve(b, n) /\ got' = got
        BY <1>4 DEF Retrieve
    <2>3. InBounds(b') /\ b'.mem = b.mem
          /\ Content(b') = IF n > Len(Content(b)) THEN <<>>
                           ELSE SubSeq(Content(b), n + 1, Len(Content(b)))
        BY <1>0, <2>1, <2>2, Retrieving
    <2> QED BY <1>0, <2>2, <2>3 DEF IInv, InBounds, Queue!Drop, Content, readableBytes
<1> QED BY <1>0, <1>1, <1>2, <1>3, <1>4 DEF Next, Queue!Next

-----------------------------------------------------------------------------
\* A step that leaves the variables alone leaves the queue alone too.
LEMMA Stutters ==
    ASSUME IInv, UNCHANGED vars
    PROVE  IInv' /\ UNCHANGED Queue!qvars
    BY DEF vars, IInv, InBounds, Queue!qvars, Content, readableBytes

\* Every operation of the buffer preserves the invariant.
LEMMA Inductive == Spec => []IInv
<1>1. Init => IInv
    BY Initially
<1>2. IInv /\ [Next]_vars => IInv'
    BY Steps, Stutters
<1> QED BY <1>1, <1>2, PTL DEF Spec

\* The indices of a Buffer stay in order, above m_freePrepend and inside the
\* vector, whatever is written, read and retrieved: resizeBuffer (Buffer.h)
\* always makes enough room for the memcpy of writeLen (Buffer.cc).
THEOREM BufferInBounds == Spec => []IndicesInBounds
<1>1. IInv => IndicesInBounds
    BY DEF IInv, InBounds, IndicesInBounds
<1> QED BY <1>1, Inductive, PTL

\* A Buffer is a first-in first-out byte queue: compaction, growth and the
\* two-part read of readFd neither lose, repeat nor reorder a byte.
THEOREM BufferImplementsQueue == Spec => ImplementsQueue
<1>1. Init => Queue!Init
    BY Initially DEF Init, Queue!Init
<1>2. IInv /\ [Next]_vars => [Queue!Next]_Queue!qvars
    BY Steps, Stutters
<1> QED BY <1>1, <1>2, Inductive, PTL DEF Spec, ImplementsQueue, Queue!Spec

\* The vector never shrinks, and grows only when the readable bytes and the
\* prepend area no longer fit in it.
THEOREM BufferGrowthBounded == Spec => GrowthBounded
<1>1. IInv /\ [Next]_vars =>
        [/\ Len(b'.mem) >= Len(b.mem)
         /\ Len(b'.mem) > Len(b.mem) =>
              FreePrepend + readableBytes(b') > Len(b.mem)]_vars
    BY Steps
<1> QED BY <1>1, Inductive, PTL DEF Spec, GrowthBounded

-----------------------------------------------------------------------------
(* Numbers.                                                                *)

\* A non-empty set of natural numbers has a least element.
LEMMA LeastNumber ==
    ASSUME NEW S \in SUBSET Nat, S # {}
    PROVE  Min(S) \in S /\ \A n \in S : Min(S) <= n
<1>1. \E m \in S : \A n \in S : <<n, m>> \notin OpToRel(<, Nat)
    BY NatLessThanWellFounded, WFMin, Zenon
<1>2. \A m, n \in Nat : n < m => <<n, m>> \in OpToRel(<, Nat)
    BY DEF OpToRel
<1>3. PICK m \in S : \A n \in S : <<n, m>> \notin OpToRel(<, Nat)
    BY <1>1, Zenon
<1>4. \A n \in S : ~(n < m)
    BY <1>2, <1>3, Zenon
<1>5. \A n \in S : m <= n
    BY <1>4
<1> QED BY <1>5 DEF Min

\* Induction up to n, by the least number that is not in S.
LEMMA UpTo ==
    ASSUME NEW n \in Nat, NEW S, 0 \in S,
           \A m \in 1..n : m - 1 \in S => m \in S
    PROVE  \A m \in 0..n : m \in S
<1> SUFFICES ASSUME NEW k \in 0..n, k \notin S PROVE FALSE
    OBVIOUS
<1> DEFINE Bad == {m \in 0..n : m \notin S}
<1>1. Bad \in SUBSET Nat /\ Bad # {}
    OBVIOUS
<1>2. PICK m \in Bad : \A j \in Bad : m <= j
    BY <1>1, LeastNumber
<1>3. m \in 0..n /\ m \notin S /\ m # 0
    BY <1>2
<1>4. m - 1 \in 0..n /\ m - 1 \notin Bad
    BY <1>2, <1>3
<1> QED BY <1>3, <1>4

\* A product grows with its factors.
LEMMA Product ==
    /\ \A c, d \in Nat : c * d \in Nat
    /\ \A c, d, e \in Nat : d <= e => c * d <= c * e
<1>1. \A c, d \in Nat : c * d \in Nat
    OBVIOUS
<1>2. ASSUME NEW c \in Nat, NEW d \in Nat, NEW e \in Nat, d <= e
      PROVE  c * d <= c * e
    <2>1. e - d \in Nat /\ e = d + (e - d)
        BY <1>2
    <2>2. c * (e - d) \in Nat
        BY <1>1, <2>1
    <2>3. c * e = c * d + c * (e - d)
        BY <2>1
    <2>4. c * d \in Nat
        BY <1>1
    <2> QED BY <2>2, <2>3, <2>4
<1> QED BY <1>1, <1>2

\* Quotient and remainder.
LEMMA Division ==
    ASSUME NEW c \in Int, NEW d \in Nat \ {0}
    PROVE  /\ c \div d \in Int /\ c % d \in 0..d - 1
           /\ c = d * (c \div d) + (c % d)
           /\ c \in Nat => c \div d \in Nat
<1>1. c \div d \in Int /\ c % d \in 0..d - 1
    OBVIOUS
<1>2. c = d * (c \div d) + (c % d)
    OBVIOUS
<1>3. c \in Nat => c \div d \in Nat
    OBVIOUS
<1> QED BY <1>1, <1>2, <1>3

\* The powers of two.
LEMMA PowDef ==
    /\ pow[0] = 1
    /\ \A i \in 1..WordBits + GroupBits : pow[i] = 2 * pow[i - 1]
<1> DEFINE n == WordBits + GroupBits
           V(g, i) == IF i = 0 THEN 1 ELSE 2 * g[i - 1]
           Fit(g, k) == g = [i \in 0..k |-> V(g, i)]
           S == {k \in 0..n : \E g : Fit(g, k)}
<1>0. n \in Nat
    BY BitsAssumption
<1> HIDE DEF n
<1>1. 0 \in S
    <2>1. Fit([i \in 0..0 |-> 1], 0)
        OBVIOUS
    <2>2. \E g : Fit(g, 0)
        BY <2>1, Zenon
    <2> QED BY <1>0, <2>2
<1>2. ASSUME NEW m \in 1..n, m - 1 \in S PROVE m \in S
    <2>1. PICK g : Fit(g, m - 1)
        BY <1>2
    <2> DEFINE h == [i \in 0..m |-> IF i = m THEN 2 * g[m - 1] ELSE g[i]]
    <2>2. ASSUME NEW i \in 0..m PROVE h[i] = V(h, i)
        <3>1. CASE i = m
            <4>1. h[m] = 2 * g[m - 1] /\ h[m - 1] = g[m - 1]
                BY <1>0
            <4>2. i # 0
                BY <1>0, <3>1
            <4> HIDE DEF h
            <4> QED BY <3>1, <4>1, <4>2
        <3>2. CASE i # m
            <4>1. i \in 0..m - 1 /\ (i # 0 => i - 1 \in 0..m - 1)
                BY <1>0, <3>2
            <4>2. g[i] = V(g, i)
                BY <2>1, <4>1
            <4>3. h[i] = g[i] /\ (i # 0 => h[i - 1] = g[i - 1])
                BY <1>0, <3>2, <4>1
            <4> HIDE DEF h
            <4> QED BY <4>2, <4>3
        <3> QED BY <3>1, <3>2
    <2>3. Fit(h, m)
        <3>1. h = [i \in 0..m |-> h[i]]
            OBVIOUS
        <3> HIDE DEF h
        <3> QED BY <2>2, <3>1
    <2>4. \E g1 : Fit(g1, m)
        <3> HIDE DEF h, Fit
        <3> QED BY <2>3, Zenon
    <2>5. m \in 0..n
        BY <1>0
    <2> HIDE DEF Fit
    <2> QED BY <2>4, <2>5
<1>3. n \in S
    <2> HIDE DEF S
    <2>1. \A m \in 1..n : m - 1 \in S => m \in S
        BY <1>2
    <2>2. n \in 0..n
        BY <1>0
    <2> QED BY <1>0, <1>1, <2>1, <2>2, UpTo
<1>4. \E g : g = [i \in 0..WordBits + GroupBits |-> V(g, i)]
    BY <1>3 DEF n
<1>5. pow = [i \in 0..WordBits + GroupBits |-> V(pow, i)]
    BY <1>4, Zenon DEF pow
<1>6. \A i \in 0..n : pow[i] = V(pow, i)
    BY <1>5 DEF n
<1>7. 0 \in 0..n /\ \A i \in 1..n : i \in 0..n /\ i # 0
    BY <1>0
<1>8. pow[0] = V(pow, 0) /\ \A i \in 1..n : pow[i] = V(pow, i)
    BY <1>6, <1>7
<1>9. \A i \in 1..n : V(pow, i) = 2 * pow[i - 1]
    BY <1>7
<1> QED BY <1>8, <1>9 DEF n

\* They are positive, and multiply as their exponents add.
LEMMA PowPositive == \A i \in 0..WordBits + GroupBits : pow[i] \in Nat \ {0}
<1> DEFINE n == WordBits + GroupBits
           S == {i \in 0..n : pow[i] \in Nat \ {0}}
<1>1. n \in Nat
    BY BitsAssumption
<1>2. \A i \in 1..n : pow[i] = 2 * pow[i - 1]
    BY PowDef
<1> HIDE DEF n
<1>3. 0 \in S
    BY <1>1, PowDef
<1>4. \A m \in 1..n : m - 1 \in S => m \in S
    BY <1>1, <1>2
<1> HIDE DEF S
<1>5. \A m \in 0..n : m \in S
    BY <1>1, <1>3, <1>4, UpTo
<1> QED BY <1>5 DEF S, n

LEMMA PowAdds ==
    ASSUME NEW i \in Nat, NEW k \in Nat, i + k <= WordBits + GroupBits
    PROVE  pow[i + k] = pow[i] * pow[k]
<1> DEFINE n == WordBits + GroupBits
           S == {j \in 0..k : pow[i + j] = pow[i] * pow[j]}
<1>1. n \in Nat /\ i + k <= n
    BY BitsAssumption
<1>2. pow[0] = 1 /\ \A j \in 1..n : pow[j] = 2 * pow[j - 1]
    BY PowDef
<1>3. \A j \in 0..n : pow[j] \in Nat \ {0}
    BY PowPositive
<1> HIDE DEF n
<1>4. 0 \in S
    <2>1. i \in 0..n /\ i + 0 = i /\ 0 \in 0..k
        BY <1>1
    <2> QED BY <1>2, <1>3, <2>1
<1>5. ASSUME NEW m \in 1..k, m - 1 \in S PROVE m \in S
    <2>1. /\ i + m \in 1..n /\ m \in 1..n /\ m - 1 \in 0..n /\ i \in 0..n
          /\ i + m - 1 = i + (m - 1) /\ m \in 0..k
        BY <1>1
    <2>2. pow[i + (m - 1)] = pow[i] * pow[m - 1]
        BY <1>5
    <2>3. pow[i + m] = 2 * pow[i + (m - 1)] /\ pow[m] = 2 * pow[m - 1]
        BY <1>2, <2>1
    <2>4. pow[i] \in Nat /\ pow[m - 1] \in Nat
        BY <1>3, <2>1
    <2>5. 2 * (pow[i] * pow[m - 1]) = pow[i] * (2 * pow[m - 1])
        BY <2>4
    <2> QED BY <2>1, <2>2, <2>3, <2>5
<1> HIDE DEF S
<1>6. \A m \in 1..k : m - 1 \in S => m \in S
    BY <1>5
<1>7. k \in S
    BY <1>4, <1>6, UpTo
<1> QED BY <1>7 DEF S

-----------------------------------------------------------------------------
(* Digits.                                                                 *)

\* The shifts of u are well defined.
LEMMA ShiftedDef ==
    ASSUME NEW u, NEW base, NEW n \in Nat, NEW s, s = shifted(u, base, n)
    PROVE  s[0] = u /\ \A k \in 1..n : s[k] = s[k - 1] \div base
<1> DEFINE V(g, i) == IF i = 0 THEN u ELSE g[i - 1] \div base
           Fit(g, k) == g = [i \in 0..k |-> V(g, i)]
           S == {k \in 0..n : \E g : Fit(g, k)}
<1>1. 0 \in S
    <2>1. Fit([i \in 0..0 |-> u], 0)
        OBVIOUS
    <2>2. \E g : Fit(g, 0)
        BY <2>1, Zenon
    <2> QED BY <2>2
<1>2. ASSUME NEW m \in 1..n, m - 1 \in S PROVE m \in S
    <2>1. PICK g : Fit(g, m - 1)
        BY <1>2
    <2> DEFINE h == [i \in 0..m |-> IF i = m THEN g[m - 1] \div base
                                    ELSE g[i]]
    <2>2. ASSUME NEW i \in 0..m PROVE h[i] = V(h, i)
        <3>1. CASE i = m
            <4>1. h[m] = g[m - 1] \div base /\ h[m - 1] = g[m - 1]
                OBVIOUS
            <4>2. i # 0
                BY <3>1
            <4> HIDE DEF h
            <4> QED BY <3>1, <4>1, <4>2
        <3>2. CASE i # m
            <4>1. i \in 0..m - 1 /\ (i # 0 => i - 1 \in 0..m - 1)
                BY <3>2
            <4>2. g[i] = V(g, i)
                BY <2>1, <4>1
            <4>3. h[i] = g[i] /\ (i # 0 => h[i - 1] = g[i - 1])
                BY <3>2, <4>1
            <4> HIDE DEF h
            <4> QED BY <4>2, <4>3
        <3> QED BY <3>1, <3>2
    <2>3. Fit(h, m)
        <3>1. h = [i \in 0..m |-> h[i]]
            OBVIOUS
        <3> HIDE DEF h
        <3> QED BY <2>2, <3>1
    <2>4. \E g1 : Fit(g1, m)
        <3> HIDE DEF h, Fit
        <3> QED BY <2>3, Zenon
    <2> HIDE DEF Fit
    <2> QED BY <2>4
<1>3. n \in S
    <2> HIDE DEF S
    <2>1. \A m \in 1..n : m - 1 \in S => m \in S
        BY <1>2
    <2>2. n \in 0..n
        OBVIOUS
    <2> QED BY <1>1, <2>1, <2>2, UpTo
<1>4. \E g : g = [i \in 0..n |-> V(g, i)]
    BY <1>3
<1>5. s = [i \in 0..n |-> V(s, i)]
    BY <1>4, Zenon DEF shifted
<1>6. \A i \in 0..n : s[i] = V(s, i)
    BY <1>5
<1>7. 0 \in 0..n /\ \A i \in 1..n : i \in 0..n /\ i # 0
    OBVIOUS
<1>8. s[0] = V(s, 0) /\ \A i \in 1..n : s[i] = V(s, i)
    BY <1>6, <1>7
<1>9. \A i \in 1..n : V(s, i) = s[i - 1] \div base
    BY <1>7
<1> QED BY <1>8, <1>9

\* The shifts of u by a digit of c bits: each is the next one and a digit.
LEMMA ShiftedDigits ==
    ASSUME NEW c \in Nat, c <= WordBits, NEW n \in Nat, NEW u \in Nat,
           NEW d, d = pow[c], NEW s, s = shifted(u, d, n)
    PROVE  /\ d \in Nat \ {0}
           /\ \A k \in 0..n : s[k] \in Nat
           /\ \A k \in 1..n : s[k - 1] = d * s[k] + (s[k - 1] % d)
<1> DEFINE S == {k \in 0..n : s[k] \in Nat}
<1>1. d \in Nat \ {0}
    <2>1. c \in 0..WordBits + GroupBits
        BY BitsAssumption
    <2> QED BY <2>1, PowPositive
<1>2. s[0] = u /\ \A k \in 1..n : s[k] = s[k - 1] \div d
    BY ShiftedDef
<1>3. \A k \in 0..n : k \in S
    <2>1. 0 \in S
        BY <1>2
    <2>2. ASSUME NEW m \in 1..n, m - 1 \in S PROVE m \in S
        <3>1. s[m - 1] \in Nat /\ m \in 0..n
            BY <2>2
        <3>2. \A t \in Nat : t \div d \in Nat
            BY <1>1
        <3> QED BY <1>2, <3>1, <3>2
    <2> HIDE DEF S
    <2> QED BY <2>1, <2>2, UpTo
<1>4. ASSUME NEW k \in 1..n PROVE s[k - 1] = d * s[k] + (s[k - 1] % d)
    <2>1. k - 1 \in 0..n
        OBVIOUS
    <2>2. s[k - 1] \in Int
        BY <1>3, <2>1
    <2>3. s[k - 1] = d * (s[k - 1] \div d) + (s[k - 1] % d)
        BY <1>1, <2>2, Division
    <2> QED BY <1>2, <2>3
<1> QED BY <1>1, <1>3, <1>4

\* What is left of u after k shifts, shifted back, is at most u.
LEMMA ShiftedBack ==
    ASSUME NEW c \in Nat, c <= WordBits, NEW n \in Nat, NEW u \in Nat,
           NEW d, d = pow[c], NEW s, s = shifted(u, d, n)
    PROVE  \A k \in 0..n : k * c <= WordBits + GroupBits =>
               s[k] * pow[k * c] <= u
<1> DEFINE max == WordBits + GroupBits
           T == {k \in 0..n : k * c <= max => s[k] * pow[k * c] <= u}
<1>1. max \in Nat /\ c \in 0..max
    BY BitsAssumption
<1>2. \A i \in 0..max : pow[i] \in Nat \ {0}
    BY PowPositive
<1>3. d \in Nat \ {0}
    BY ShiftedDigits
<1>4. s[0] = u
    BY ShiftedDef
<1>5. \A k \in 0..n : s[k] \in Nat
    BY ShiftedDigits
<1>6. \A k \in 1..n : s[k - 1] = d * s[k] + (s[k - 1] % d)
    BY ShiftedDigits
<1> HIDE DEF max
<1>7. \A k \in 0..n : k \in T
    <2>1. 0 \in T
        <3>1. 0 * c = 0 /\ 0 \in 0..n
            OBVIOUS
        <3>2. pow[0] = 1
            BY PowDef
        <3> QED BY <1>4, <3>1, <3>2
    <2>2. ASSUME NEW m \in 1..n, m - 1 \in T PROVE m \in T
        <3> SUFFICES ASSUME m * c <= max PROVE s[m] * pow[m * c] <= u
            OBVIOUS
        <3> DEFINE i == (m - 1) * c
        <3>1. i \in Nat /\ m * c = i + c /\ i <= max
            BY <1>1
        <3>2. s[m - 1] * pow[i] <= u
            BY <2>2, <3>1
        <3> HIDE DEF i
        <3>3. pow[m * c] = pow[i] * d
            BY <3>1, PowAdds DEF max
        <3>4. pow[i] \in Nat
            BY <1>1, <1>2, <3>1
        <3>5. s[m] \in Nat /\ s[m - 1] \in Nat /\ s[m - 1] % d \in Nat
            BY <1>3, <1>5
        <3>6. d * s[m] <= s[m - 1] /\ d * s[m] \in Nat
            BY <1>3, <1>6, <3>5
        <3>7. pow[i] * (d * s[m]) <= pow[i] * s[m - 1]
            BY <3>4, <3>5, <3>6, Product
        <3>8. s[m] * (pow[i] * d) = pow[i] * (d * s[m])
            BY <1>3, <3>4, <3>5
        <3>9. pow[i] * s[m - 1] = s[m - 1] * pow[i]
            BY <3>4, <3>5
        <3>10. pow[i] * (d * s[m]) \in Nat /\ s[m - 1] * pow[i] \in Nat
            BY <3>4, <3>5, <3>6, Product
        <3> QED BY <3>2, <3>3, <3>7, <3>8, <3>9, <3>10
    <2> HIDE DEF T
    <2>3. \A m \in 1..n : m - 1 \in T => m \in T
        BY <2>2
    <2> QED BY <2>1, <2>3, UpTo
<1> QED BY <1>7 DEF max

\* After as many shifts as a word has digits nothing is left.
LEMMA ShiftedOut ==
    ASSUME NEW c \in Nat, c <= WordBits, NEW n \in Nat, NEW u \in 0..Word - 1,
           NEW m \in 0..n, WordBits <= m * c, m * c <= WordBits + GroupBits,
           NEW s, s = shifted(u, pow[c], n)
    PROVE  s[m] = 0
<1> DEFINE k == m * c
<1>1. WordBits \in Nat /\ GroupBits \in Nat /\ k \in Nat
    BY BitsAssumption
<1>2. k - WordBits \in Nat /\ WordBits + (k - WordBits) = k
    BY <1>1
<1>3. /\ Word \in Nat \ {0} /\ pow[k - WordBits] \in Nat \ {0}
      /\ pow[k] \in Nat \ {0}
    BY <1>1, <1>2, PowPositive DEF Word
<1>4. u \in Nat /\ u < Word
    BY <1>3
<1>5. s[m] \in Nat /\ s[m] * pow[k] <= u
    BY <1>4, ShiftedDigits, ShiftedBack
<1> HIDE DEF k
<1>6. pow[k] = Word * pow[k - WordBits]
    <2> DEFINE j == k - WordBits
    <2>1. j \in Nat /\ WordBits + j <= WordBits + GroupBits
        BY <1>1, <1>2 DEF k
    <2> HIDE DEF j
    <2>2. pow[WordBits + j] = pow[WordBits] * pow[j]
        BY <1>1, <2>1, PowAdds
    <2> QED BY <1>2, <2>2 DEF j, Word
<1>7. Word * 1 <= Word * pow[k - WordBits]
    BY <1>3, Product
<1>8. Word <= pow[k]
    BY <1>3, <1>6, <1>7
<1>9. ASSUME s[m] # 0 PROVE FALSE
    <2>1. 1 <= s[m]
        BY <1>5, <1>9
    <2>2. pow[k] * 1 <= pow[k] * s[m]
        BY <1>3, <1>5, <2>1, Product
    <2>3. pow[k] * s[m] = s[m] * pow[k] /\ s[m] * pow[k] \in Nat
        BY <1>3, <1>5
    <2>4. pow[k] <= u
        BY <1>3, <1>4, <1>5, <2>2, <2>3
    <2> QED BY <1>3, <1>4, <1>8, <2>4
<1> QED BY <1>9

-----------------------------------------------------------------------------
(* Fixed-size integers.                                                    *)

\* The integers of the first bytes are well defined.
LEMMA HostDef ==
    ASSUME NEW d, NEW f, f = hostInts(d)
    PROVE  /\ f[0] = 0
           /\ \A i \in 1..WordBytes : f[i] = f[i - 1] * ByteSize + d[i]
<1> DEFINE n == WordBytes
           V(g, i) == IF i = 0 THEN 0 ELSE g[i - 1] * ByteSize + d[i]
           Fit(g, k) == g = [i \in 0..k |-> V(g, i)]
           S == {k \in 0..n : \E g : Fit(g, k)}
<1>0. n \in Nat
    BY BitsAssumption
<1> HIDE DEF n
<1>1. 0 \in S
    <2>1. Fit([i \in 0..0 |-> 0], 0)
        OBVIOUS
    <2>2. \E g : Fit(g, 0)
        BY <2>1, Zenon
    <2> QED BY <1>0, <2>2
<1>2. ASSUME NEW m \in 1..n, m - 1 \in S PROVE m \in S
    <2>1. PICK g : Fit(g, m - 1)
        BY <1>2
    <2> DEFINE h == [i \in 0..m |-> IF i = m THEN g[m - 1] * ByteSize + d[m]
                                    ELSE g[i]]
    <2>2. ASSUME NEW i \in 0..m PROVE h[i] = V(h, i)
        <3>1. CASE i = m
            <4>1. /\ h[m] = g[m - 1] * ByteSize + d[m]
                  /\ h[m - 1] = g[m - 1]
                BY <1>0
            <4>2. i # 0
                BY <1>0, <3>1
            <4> HIDE DEF h
            <4> QED BY <3>1, <4>1, <4>2
        <3>2. CASE i # m
            <4>1. i \in 0..m - 1 /\ (i # 0 => i - 1 \in 0..m - 1)
                BY <1>0, <3>2
            <4>2. g[i] = V(g, i)
                BY <2>1, <4>1
            <4>3. h[i] = g[i] /\ (i # 0 => h[i - 1] = g[i - 1])
                BY <1>0, <3>2, <4>1
            <4> HIDE DEF h
            <4> QED BY <4>2, <4>3
        <3> QED BY <3>1, <3>2
    <2>3. Fit(h, m)
        <3>1. h = [i \in 0..m |-> h[i]]
            OBVIOUS
        <3> HIDE DEF h
        <3> QED BY <2>2, <3>1
    <2>4. \E g1 : Fit(g1, m)
        <3> HIDE DEF h, Fit
        <3> QED BY <2>3, Zenon
    <2>5. m \in 0..n
        BY <1>0
    <2> HIDE DEF Fit
    <2> QED BY <2>4, <2>5
<1>3. n \in S
    <2> HIDE DEF S
    <2>1. \A m \in 1..n : m - 1 \in S => m \in S
        BY <1>2
    <2>2. n \in 0..n
        BY <1>0
    <2> QED BY <1>0, <1>1, <2>1, <2>2, UpTo
<1>4. \E g : g = [i \in 0..WordBytes |-> V(g, i)]
    BY <1>3 DEF n
<1>5. f = [i \in 0..WordBytes |-> V(f, i)]
    BY <1>4, Zenon DEF hostInts
<1>6. \A i \in 0..n : f[i] = V(f, i)
    BY <1>5 DEF n
<1>7. 0 \in 0..n /\ \A i \in 1..n : i \in 0..n /\ i # 0
    BY <1>0
<1>8. f[0] = V(f, 0) /\ \A i \in 1..n : f[i] = V(f, i)
    BY <1>6, <1>7
<1>9. \A i \in 1..n : V(f, i) = f[i - 1] * ByteSize + d[i]
    BY <1>7
<1> QED BY <1>8, <1>9 DEF n

\* The bytes of an integer in network order are WordBytes cells, and the
\* integer is what is read from a content that begins with them.
LEMMA FixedSize ==
    ASSUME NEW u \in 0..Word - 1, NEW d, d = byteswapOnLittleEndian(u)
    PROVE  /\ d \in Seq(Cells) /\ Len(d) = WordBytes
           /\ \A c : (\A i \in 1..WordBytes : c[i] = d[i]) =>
                 hostInts(c)[WordBytes] = u
<1> DEFINE n == WordBytes
           s == shifted(u, ByteSize, WordBytes)
<1>1. /\ n \in Nat \ {0} /\ GroupBits + 1 \in Nat
      /\ n * (GroupBits + 1) = WordBits /\ WordBits \in Nat
      /\ GroupBits \in Nat
    BY BitsAssumption
<1>2. GroupBits + 1 <= WordBits
    <2>1. (GroupBits + 1) * 1 <= (GroupBits + 1) * n
        BY <1>1, Product
    <2> QED BY <1>1, <2>1
<1>3. ByteSize \in Nat \ {0} /\ Word \in Nat \ {0}
    BY <1>1, <1>2, PowPositive DEF ByteSize, Word
<1>4. u \in Nat
    BY <1>3
<1>5. d = [i \in 1..n |-> s[n - i] % ByteSize]
    BY DEF byteswapOnLittleEndian
<1>6. s = shifted(u, pow[GroupBits + 1], n)
    BY DEF ByteSize
<1> HIDE DEF s, n
<1>7. /\ \A k \in 0..n : s[k] \in Nat
      /\ \A k \in 1..n : s[k - 1] = ByteSize * s[k] + (s[k - 1] % ByteSize)
    <2>1. n \in Nat
        BY <1>1
    <2> QED BY <1>1, <1>2, <1>4, <1>6, <2>1, ShiftedDigits DEF ByteSize
<1>8. s[n] = 0
    <2>1. n \in Nat /\ n \in 0..n /\ WordBits <= n * (GroupBits + 1)
          /\ n * (GroupBits + 1) <= WordBits + GroupBits
        BY <1>1
    <2> QED BY <1>1, <1>2, <1>6, <2>1, ShiftedOut
<1>9. \A i \in 1..n : n - i \in 0..n /\ d[i] = s[n - i] % ByteSize
    BY <1>1, <1>5
<1>10. \A i \in 1..n : d[i] \in Cells
    <2>1. \A i \in 1..n : d[i] \in Nat
        BY <1>3, <1>7, <1>9
    <2> QED BY <2>1 DEF Cells
<1>11. d \in Seq(Cells) /\ Len(d) = n
    <2>1. d \in [1..n -> Cells] /\ n \in Nat
        BY <1>1, <1>5, <1>10
    <2> QED BY <2>1
<1>12. ASSUME NEW c, \A i \in 1..n : c[i] = d[i]
       PROVE  hostInts(c)[n] = u
    <2> DEFINE f == hostInts(c)
               S == {i \in 0..n : f[i] = s[n - i]}
    <2>1. f[0] = 0 /\ \A i \in 1..n : f[i] = f[i - 1] * ByteSize + c[i]
        BY HostDef DEF n
    <2> HIDE DEF f
    <2>2. 0 \in S
        <3>1. n - 0 = n /\ 0 \in 0..n
            BY <1>1
        <3> QED BY <1>8, <2>1, <3>1
    <2>3. ASSUME NEW m \in 1..n, m - 1 \in S PROVE m \in S
        <3> DEFINE k == n - (m - 1)
        <3>1. k \in 1..n /\ k - 1 = n - m /\ m \in 0..n /\ k \in 0..n
            BY <1>1
        <3>2. f[m - 1] = s[k]
            BY <2>3
        <3> HIDE DEF k
        <3>3. f[m] = s[k] * ByteSize + (s[n - m] % ByteSize)
            BY <1>9, <1>12, <2>1, <3>2
        <3>4. s[n - m] = ByteSize * s[k] + (s[n - m] % ByteSize)
            BY <1>7, <3>1
        <3>5. s[k] * ByteSize = ByteSize * s[k]
            BY <1>3, <1>7, <3>1
        <3> QED BY <3>1, <3>3, <3>4, <3>5
    <2> HIDE DEF S
    <2>4. \A m \in 1..n : m - 1 \in S => m \in S
        BY <2>3
    <2>5. n \in S
        BY <1>1, <2>2, <2>4, UpTo
    <2>6. f[n] = s[0]
        <3>1. n - n = 0
            BY <1>1
        <3> QED BY <2>5, <3>1 DEF S
    <2>7. s[0] = u
        BY <1>1, <1>6, ShiftedDef
    <2> QED BY <2>6, <2>7 DEF f
<1> QED BY <1>11, <1>12 DEF n

-----------------------------------------------------------------------------
(* Variable-length integers.                                               *)

\* The turns of readVarUint cover the word, and tmp has room for as many.
LEMMA TurnsCover ==
    /\ Turns \in 1..WordBits /\ Turns <= TmpSize
    /\ WordBits <= Turns * GroupBits
    /\ Turns * GroupBits <= WordBits + GroupBits - 1
<1> DEFINE t == Turns
           c == WordBits + GroupBits - 1
<1>1. /\ GroupBits \in Nat \ {0} /\ WordBits \in Nat \ {0}
      /\ TmpSize \in Nat /\ WordBits <= TmpSize * GroupBits
    <2>1. WordBytes \in Nat \ {0} /\ GroupBits + 1 \in Nat \ {0}
        BY BitsAssumption
    <2>2. WordBytes * (GroupBits + 1) \in Nat \ {0}
        BY <2>1
    <2> QED BY <2>2, BitsAssumption
<1>2. c \in Nat /\ t = c \div GroupBits
    BY <1>1 DEF Turns
<1>3. /\ t \in Nat /\ c % GroupBits \in 0..GroupBits - 1
      /\ c = GroupBits * t + (c % GroupBits)
    <2>1. c \in Int
        BY <1>2
    <2> HIDE DEF c, t
    <2> QED BY <1>1, <1>2, <2>1, Division
<1> HIDE DEF t
<1>4. GroupBits * t = t * GroupBits /\ GroupBits * t \in Nat
    BY <1>1, <1>3
<1>5. WordBits <= t * GroupBits /\ t * GroupBits <= c
    BY <1>1, <1>3, <1>4
<1>6. t # 0
    BY <1>1, <1>4, <1>5
<1>7. ASSUME NEW k \in Nat, WordBits <= GroupBits * k PROVE t <= k
    <2> SUFFICES ASSUME k + 1 <= t PROVE FALSE
        BY <1>3
    <2>1. GroupBits * (k + 1) <= GroupBits * t
        BY <1>1, <1>3, Product
    <2>2. GroupBits * (k + 1) = GroupBits * k + GroupBits
        BY <1>1
    <2>3. GroupBits * k \in Nat
        BY <1>1
    <2> QED BY <1>1, <1>4, <1>5, <1>7, <2>1, <2>2, <2>3
<1>8. t <= TmpSize
    <2>1. TmpSize * GroupBits = GroupBits * TmpSize
        BY <1>1
    <2> QED BY <1>1, <1>7, <2>1
<1>9. t <= WordBits
    <2>1. WordBits * 1 <= WordBits * GroupBits
        BY <1>1, Product
    <2>2. WordBits * GroupBits = GroupBits * WordBits /\ WordBits * 1 = WordBits
        BY <1>1
    <2>3. WordBits <= GroupBits * WordBits
        BY <2>1, <2>2
    <2> QED BY <1>1, <1>7, <2>3
<1> QED BY <1>1, <1>3, <1>5, <1>6, <1>8, <1>9 DEF t

\* A group is not wider than a word, and the turns not much.
LEMMA Widths ==
    /\ GroupBits \in Nat /\ WordBits \in Nat /\ GroupBits <= WordBits
    /\ Turns \in 1..WordBits /\ WordBits <= Turns * GroupBits
    /\ Turns * GroupBits <= WordBits + GroupBits
<1>1. GroupBits \in Nat \ {0} /\ WordBytes \in Nat \ {0}
    BY BitsAssumption
<1>2. (GroupBits + 1) * 1 <= (GroupBits + 1) * WordBytes
    BY <1>1, Product
<1>3. (GroupBits + 1) * WordBytes = WordBits
    BY <1>1, BitsAssumption
<1>4. GroupBits <= WordBits /\ WordBits \in Nat
    BY <1>1, <1>2, <1>3
<1>5. Turns \in Nat /\ Turns * GroupBits \in Nat
    BY <1>1, TurnsCover
<1> QED BY <1>1, <1>4, <1>5, TurnsCover

\* The shifts of u by groups.
LEMMA GroupShifts ==
    ASSUME NEW u \in 0..Word - 1,
           NEW s, s = shifted(u, GroupSize, WordBits)
    PROVE  /\ GroupSize \in Nat \ {0} /\ Word \in Nat \ {0} /\ u \in Nat
           /\ \A k \in 0..WordBits : s[k] \in Nat
           /\ \A k \in 1..WordBits :
                 s[k - 1] = GroupSize * s[k] + (s[k - 1] % GroupSize)
           /\ s[Turns] = 0
<1>1. GroupSize \in Nat \ {0} /\ Word \in Nat \ {0} /\ u \in Nat
    BY Widths, PowPositive DEF GroupSize, Word
<1>2. /\ \A k \in 0..WordBits : s[k] \in Nat
      /\ \A k \in 1..WordBits :
            s[k - 1] = GroupSize * s[k] + (s[k - 1] % GroupSize)
    BY <1>1, Widths, ShiftedDigits DEF GroupSize
<1>3. s[Turns] = 0
    <2>1. Turns \in 0..WordBits
        BY Widths
    <2> QED BY Widths, <2>1, ShiftedOut DEF GroupSize
<1> QED BY <1>1, <1>2, <1>3

\* tmp: how many groups there are, and what each is.
LEMMA Grouping ==
    ASSUME NEW u \in 0..Word - 1,
           NEW s, s = shifted(u, GroupSize, WordBits),
           NEW g, g = groups(u)
    PROVE  /\ g \in Seq(Cells) /\ Len(g) \in 1..Turns
           /\ \A k \in 1..Len(g) :
                 /\ g[k] \in Nat
                 /\ g[k] % GroupSize = s[k - 1] % GroupSize
                 /\ g[k] < GroupSize <=> k = Len(g)
           /\ s[Len(g)] = 0
<1> DEFINE A == {k \in 1..WordBits : s[k - 1] < GroupSize}
           last == Min(A)
<1>1. /\ GroupBits \in Nat /\ WordBits \in Nat /\ GroupBits <= WordBits
      /\ Turns \in 1..WordBits /\ WordBits <= Turns * GroupBits
      /\ Turns * GroupBits <= WordBits + GroupBits
    BY Widths
<1>2. GroupSize \in Nat \ {0} /\ Word \in Nat \ {0} /\ u \in Nat
    BY GroupShifts
<1>3. /\ \A k \in 0..WordBits : s[k] \in Nat
      /\ \A k \in 1..WordBits :
            s[k - 1] = GroupSize * s[k] + (s[k - 1] % GroupSize)
    BY GroupShifts
<1>4. s[Turns] = 0
    BY GroupShifts
<1>5. Turns \in A
    <2>1. /\ s[Turns - 1] = GroupSize * 0 + (s[Turns - 1] % GroupSize)
          /\ s[Turns - 1] \in Nat
        <3>1. Turns - 1 \in 0..WordBits
            BY <1>1
        <3> QED BY <1>1, <1>3, <1>4, <3>1
    <2>2. s[Turns - 1] % GroupSize < GroupSize
        BY <1>2, <2>1
    <2>3. s[Turns - 1] < GroupSize
        BY <1>2, <2>1, <2>2
    <2> QED BY <1>1, <2>3
<1>6. last \in A /\ \A k \in A : last <= k
    <2>1. A \subseteq 1..WordBits /\ A # {}
        BY <1>5, Zenon
    <2> HIDE DEF A
    <2>2. A \in SUBSET Nat
        BY <1>1, <2>1
    <2> QED BY <2>1, <2>2, LeastNumber
<1>7. g = [k \in 1..last |-> IF k = last THEN s[k - 1]
                             ELSE GroupSize + (s[k - 1] % GroupSize)]
    BY DEF groups
<1> HIDE DEF last
<1>8. /\ last \in 1..WordBits /\ last \in 1..Turns /\ s[last - 1] < GroupSize
      /\ \A k \in 1..last - 1 : ~(s[k - 1] < GroupSize)
    <2>1. last <= Turns /\ last \in 1..WordBits /\ s[last - 1] < GroupSize
        BY <1>5, <1>6
    <2>2. \A k \in 1..last - 1 : k \in 1..WordBits /\ ~(last <= k)
        BY <1>1, <2>1
    <2>3. \A k \in 1..last - 1 : k \notin A
        BY <1>6, <2>2
    <2> QED BY <1>1, <2>1, <2>2, <2>3
<1> HIDE DEF A
<1>9. ASSUME NEW k \in 1..last
      PROVE  /\ g[k] \in Nat
             /\ g[k] % GroupSize = s[k - 1] % GroupSize
             /\ g[k] < GroupSize <=> k = last
    <2>1. k - 1 \in 0..WordBits
        BY <1>1, <1>8
    <2>2. s[k - 1] \in Nat
        BY <1>3, <2>1
    <2>3. CASE k = last
        BY <1>7, <1>8, <2>2, <2>3
    <2>4. CASE k # last
        <3> DEFINE z == s[k - 1] % GroupSize
        <3>1. z \in 0..GroupSize - 1 /\ z \in Nat
            BY <1>2, <2>2
        <3>2. g[k] = GroupSize + z
            BY <1>7, <2>4
        <3> HIDE DEF z
        <3>3. g[k] % GroupSize = z
            <4> DEFINE d == GroupSize
            <4>1. d \in Nat \ {0} /\ z \in 0..d - 1 /\ g[k] = d + z
                BY <1>2, <3>1, <3>2
            <4> HIDE DEF d
            <4>2. (d + z) % d = z
                BY <4>1
            <4> QED BY <4>1, <4>2 DEF d
        <3> QED BY <1>2, <2>4, <3>1, <3>2, <3>3 DEF z
    <2> QED BY <2>3, <2>4
<1>10. g \in Seq(Cells) /\ Len(g) = last
    <2>1. \A k \in 1..last : g[k] \in Cells
        BY <1>9 DEF Cells
    <2>2. g \in [1..last -> Cells] /\ last \in Nat
        BY <1>7, <1>8, <2>1
    <2> QED BY <2>2
<1>11. s[last] = 0
    <2>1. last \in 0..WordBits /\ last - 1 \in 0..WordBits
        BY <1>8, <1>1
    <2>2. /\ s[last - 1] = GroupSize * s[last] + (s[last - 1] % GroupSize)
          /\ s[last] \in Nat /\ s[last - 1] \in Nat
          /\ s[last - 1] % GroupSize \in Nat
        BY <1>2, <1>3, <1>8, <2>1
    <2>3. ASSUME s[last] # 0 PROVE FALSE
        <3>1. 1 <= s[last]
            BY <2>2, <2>3
        <3>2. GroupSize * 1 <= GroupSize * s[last]
            BY <1>2, <2>2, <3>1, Product
        <3>3. GroupSize * s[last] \in Nat
            BY <1>2, <2>2
        <3> QED BY <1>2, <1>8, <2>2, <3>2, <3>3
    <2> QED BY <2>3
<1> QED BY <1>8, <1>9, <1>10, <1>11

\* The content of y is that of x without its first n bytes.
Behind(y, x, n) ==
    /\ InBounds(y)
    /\ Len(Content(y)) = Len(Content(x)) - n
    /\ \A j \in 1..Len(Content(x)) - n : Content(y)[j] = Content(x)[n + j]

\* retrieve, byte by byte.
LEMMA RetrievedBehind ==
    ASSUME NEW x, InBounds(x), NEW n \in Nat, n <= Len(Content(x)),
           NEW y, y = retrieve(x, n)
    PROVE  Behind(y, x, n)
<1> DEFINE c == Content(x)
<1>1. c \in Seq(Cells) /\ Len(c) \in Nat
    BY ContentType
<1>2. InBounds(y) /\ Content(y) = SubSeq(c, n + 1, Len(c))
    <2>1. ~(n > Len(c))
        BY <1>1
    <2> QED BY <2>1, Retrieving
<1> HIDE DEF c
<1>3. \A i \in n + 1..Len(c) : c[i] \in Cells
    BY <1>1
<1>4. /\ Len(SubSeq(c, n + 1, Len(c))) = Len(c) - n
      /\ \A j \in 1..Len(c) - n : SubSeq(c, n + 1, Len(c))[j] = c[n + j]
    BY <1>1, <1>3, SubSeqProperties DEF c
<1> QED BY <1>2, <1>4 DEF Behind, c

\* readUint8 takes the first byte.
LEMMA FirstByte ==
    ASSUME NEW x, InBounds(x), Len(Content(x)) >= 1,
           NEW d, d = readUint8(x)
    PROVE  d.val = Content(x)[1] /\ Behind(d.buf, x, 1)
<1>1. /\ Len(Content(x)) = x.w - x.r /\ x.w - x.r \in Nat
      /\ \A i \in 1..(x.w - x.r) : Content(x)[i] = x.mem[x.r + i]
    BY ContentType DEF InBounds, BufferType
<1>2. ~(readableBytes(x) < 1) /\ Content(x)[1] = x.mem[x.r + 1]
    BY <1>1 DEF readableBytes
<1>3. d = Value(x.mem[x.r + 1], retrieve(x, 1))
    BY <1>2 DEF readUint8
<1>4. d.val = x.mem[x.r + 1] /\ d.buf = retrieve(x, 1)
    BY <1>3 DEF Value
<1>5. Behind(d.buf, x, 1)
    BY <1>1, <1>4, RetrievedBehind
<1> QED BY <1>2, <1>4, <1>5

\* The loop of readVarUint is well defined.
LEMMA ReadDef ==
    ASSUME NEW x, NEW f, f = readGroups(x)
    PROVE  /\ f[0] = [val |-> 0, buf |-> x, over |-> FALSE]
           /\ \A k \in 1..Turns :
                 f[k] = readGroup(f[k - 1], (k - 1) * GroupBits)
<1> DEFINE n == Turns
           base == [val |-> 0, buf |-> x, over |-> FALSE]
           V(g, k) == IF k = 0 THEN base
                      ELSE readGroup(g[k - 1], (k - 1) * GroupBits)
           Fit(g, k) == g = [i \in 0..k |-> V(g, i)]
           S == {k \in 0..n : \E g : Fit(g, k)}
<1>0. n \in Nat
    BY TurnsCover
<1> HIDE DEF n
<1>1. 0 \in S
    <2>1. Fit([i \in 0..0 |-> base], 0)
        OBVIOUS
    <2>2. \E g : Fit(g, 0)
        BY <2>1, Zenon
    <2> QED BY <1>0, <2>2
<1>2. ASSUME NEW m \in 1..n, m - 1 \in S PROVE m \in S
    <2>1. PICK g : Fit(g, m - 1)
        BY <1>2
    <2> DEFINE e == readGroup(g[m - 1], (m - 1) * GroupBits)
               h == [i \in 0..m |-> IF i = m THEN e ELSE g[i]]
    <2>2. ASSUME NEW i \in 0..m PROVE h[i] = V(h, i)
        <3>1. CASE i = m
            <4>1. h[m] = e /\ h[m - 1] = g[m - 1] /\ i # 0
                BY <1>0, <3>1
            <4> HIDE DEF h
            <4> QED BY <3>1, <4>1
        <3>2. CASE i # m
            <4>1. i \in 0..m - 1 /\ (i # 0 => i - 1 \in 0..m - 1)
                BY <1>0, <3>2
            <4>2. g[i] = V(g, i)
                BY <2>1, <4>1
            <4>3. h[i] = g[i] /\ (i # 0 => h[i - 1] = g[i - 1])
                BY <1>0, <3>2, <4>1
            <4> HIDE DEF h
            <4> QED BY <4>2, <4>3
        <3> QED BY <3>1, <3>2
    <2>3. Fit(h, m)
        <3>1. h = [i \in 0..m |-> h[i]]
            OBVIOUS
        <3> HIDE DEF h
        <3> QED BY <2>2, <3>1
    <2>4. \E g1 : Fit(g1, m)
        <3> HIDE DEF h, Fit
        <3> QED BY <2>3, Zenon
    <2>5. m \in 0..n
        BY <1>0
    <2> HIDE DEF Fit
    <2> QED BY <2>4, <2>5
<1>3. n \in S
    <2> HIDE DEF S
    <2>1. \A m \in 1..n : m - 1 \in S => m \in S
        BY <1>2
    <2>2. n \in 0..n
        BY <1>0
    <2> QED BY <1>0, <1>1, <2>1, <2>2, UpTo
<1>4. \E g : g = [k \in 0..Turns |-> V(g, k)]
    BY <1>3 DEF n
<1>5. f = [k \in 0..Turns |-> V(f, k)]
    BY <1>4, Zenon DEF readGroups
<1>6. \A k \in 0..n : f[k] = V(f, k)
    BY <1>5 DEF n
<1>7. 0 \in 0..n /\ \A k \in 1..n : k \in 0..n /\ k # 0
    BY <1>0
<1>8. f[0] = V(f, 0) /\ \A k \in 1..n : f[k] = V(f, k)
    BY <1>6, <1>7
<1>9. \A k \in 1..n : V(f, k) = readGroup(f[k - 1], (k - 1) * GroupBits)
    BY <1>7
<1> QED BY <1>8, <1>9 DEF n

\* After k groups: the bits read, and those still to come, are u.
Assembled(a, x, u, s, n, k) ==
    /\ a.val \in Nat /\ u = a.val + s[k] * pow[k * GroupBits]
    /\ k = n => a.over = TRUE
    /\ k # n => a.over = FALSE
    /\ Behind(a.buf, x, k)

\* One turn of the loop adds the next group.
LEMMA NextGroup ==
    ASSUME NEW u \in 0..Word - 1,
           NEW s, s = shifted(u, GroupSize, WordBits),
           NEW g, g = groups(u),
           NEW x, InBounds(x), Len(g) <= Len(Content(x)),
           \A i \in 1..Len(g) : Content(x)[i] = g[i],
           NEW n, n = Len(g), NEW m \in 1..n,
           NEW a, Assembled(a, x, u, s, n, m - 1),
           NEW e, e = readGroup(a, (m - 1) * GroupBits)
    PROVE  Assembled(e, x, u, s, n, m)
<1> DEFINE i == (m - 1) * GroupBits
           d == readUint8(a.buf)
           G == GroupSize
           P == pow[i]
           z == s[m - 1] % GroupSize
           sum == a.val + z * P
<1>1. /\ GroupBits \in Nat /\ WordBits \in Nat /\ GroupBits <= WordBits
      /\ Turns \in 1..WordBits /\ Turns * GroupBits <= WordBits + GroupBits
    BY Widths
<1>2. /\ n \in 1..Turns /\ n \in Nat /\ m \in Nat /\ m \in 1..WordBits
      /\ g[m] \in Nat /\ g[m] % G = z /\ (g[m] < G <=> m = n)
    <2>1. /\ Len(g) \in 1..Turns
          /\ \A k \in 1..Len(g) :
                /\ g[k] \in Nat
                /\ g[k] % GroupSize = s[k - 1] % GroupSize
                /\ g[k] < GroupSize <=> k = Len(g)
        BY Grouping
    <2>2. n \in 1..Turns /\ n \in Nat
        BY <1>1, <2>1
    <2> QED BY <1>1, <2>1, <2>2
<1>3. /\ i \in Nat /\ m * GroupBits = i + GroupBits
      /\ i + GroupBits <= WordBits + GroupBits
    <2>1. m * GroupBits = i + GroupBits /\ i \in Nat
        BY <1>1, <1>2
    <2>2. GroupBits * m <= GroupBits * Turns
        BY <1>1, <1>2, Product
    <2>3. GroupBits * m = m * GroupBits /\ GroupBits * Turns = Turns * GroupBits
        BY <1>1, <1>2
    <2>4. m * GroupBits \in Nat /\ Turns * GroupBits \in Nat
        BY <1>1, <1>2
    <2> QED BY <1>1, <2>1, <2>2, <2>3, <2>4
<1> HIDE DEF i
<1>4. G \in Nat \ {0} /\ P \in Nat \ {0} /\ Word \in Nat \ {0} /\ u \in Nat
    <2>1. GroupBits \in 0..WordBits + GroupBits
          /\ i \in 0..WordBits + GroupBits
          /\ WordBits \in 0..WordBits + GroupBits
        BY <1>1, <1>3
    <2> QED BY <2>1, PowPositive DEF GroupSize, Word
<1>5. pow[m * GroupBits] = P * G
    BY <1>1, <1>3, PowAdds DEF GroupSize
<1>6. /\ s[m] \in Nat /\ s[m - 1] \in Nat /\ z \in Nat
      /\ s[m - 1] = G * s[m] + z
    <2>1. /\ \A k \in 0..WordBits : s[k] \in Nat
          /\ \A k \in 1..WordBits :
                s[k - 1] = GroupSize * s[k] + (s[k - 1] % GroupSize)
        BY GroupShifts
    <2>2. m \in 0..WordBits /\ m - 1 \in 0..WordBits
        BY <1>1, <1>2
    <2>3. s[m] \in Nat /\ s[m - 1] \in Nat
        BY <2>1, <2>2
    <2>4. z \in Nat
        BY <1>4, <2>3
    <2>5. s[m - 1] = G * s[m] + z
        BY <1>2, <2>1
    <2> QED BY <2>3, <2>4, <2>5
<1>7. /\ a.val \in Nat /\ u = a.val + s[m - 1] * P /\ a.over = FALSE
      /\ Behind(a.buf, x, m - 1)
    <2>1. m - 1 # n
        BY <1>2
    <2> QED BY <2>1 DEF Assembled, i
<1>8. d.val = g[m] /\ Behind(d.buf, x, m)
    <2> DEFINE y == a.buf
    <2>1. /\ InBounds(y) /\ Len(Content(y)) = Len(Content(x)) - (m - 1)
          /\ \A j \in 1..Len(Content(x)) - (m - 1) :
                Content(y)[j] = Content(x)[m - 1 + j]
        BY <1>7 DEF Behind
    <2>2. Len(Content(x)) \in Nat /\ n <= Len(Content(x))
        BY ContentType DEF InBounds, BufferType
    <2>3. Len(Content(y)) >= 1 /\ m - 1 + 1 = m
        BY <1>2, <2>1, <2>2
    <2> HIDE DEF y
    <2>4. d.val = Content(y)[1] /\ Behind(d.buf, y, 1)
        BY <2>1, <2>3, FirstByte DEF y
    <2> HIDE DEF d
    <2>5. 1 \in 1..Len(Content(x)) - (m - 1)
        BY <1>2, <2>2
    <2>6. Content(y)[1] = Content(x)[m]
        BY <2>1, <2>3, <2>5
    <2>7. /\ InBounds(d.buf) /\ Len(Content(d.buf)) = Len(Content(y)) - 1
          /\ \A j \in 1..Len(Content(y)) - 1 :
                Content(d.buf)[j] = Content(y)[1 + j]
        BY <2>4 DEF Behind
    <2>8. Len(Content(d.buf)) = Len(Content(x)) - m
        BY <1>2, <2>1, <2>2, <2>7
    <2>9. ASSUME NEW j \in 1..Len(Content(x)) - m
          PROVE  Content(d.buf)[j] = Content(x)[m + j]
        <3>1. /\ j \in 1..Len(Content(y)) - 1
              /\ 1 + j \in 1..Len(Content(x)) - (m - 1)
              /\ m - 1 + (1 + j) = m + j
            BY <1>2, <2>1, <2>2
        <3>2. Content(d.buf)[j] = Content(y)[1 + j]
            BY <2>7, <3>1
        <3>3. Content(y)[1 + j] = Content(x)[m - 1 + (1 + j)]
            BY <2>1, <3>1
        <3> QED BY <3>1, <3>2, <3>3
    <2> QED BY <2>4, <2>6, <2>7, <2>8, <2>9 DEF Behind
<1> HIDE DEF d, P, G, z
<1>9. u = sum + s[m] * pow[m * GroupBits] /\ sum \in Nat
    <2>1. s[m - 1] * P = (G * s[m] + z) * P
        BY <1>6
    <2>2. (G * s[m] + z) * P = s[m] * (P * G) + z * P
        BY <1>4, <1>6
    <2>3. z * P \in Nat /\ s[m] * (P * G) \in Nat
        <3>1. P * G \in Nat
            BY <1>4, Product
        <3> QED BY <1>4, <1>6, <3>1, Product
    <2> QED BY <1>5, <1>7, <2>1, <2>2, <2>3
<1>10. unsigned(sum) = sum
    <2>1. s[m] * pow[m * GroupBits] \in Nat
        <3>1. P * G \in Nat
            BY <1>4, Product
        <3> QED BY <1>5, <1>6, <3>1, Product
    <2>2. sum <= u
        BY <1>4, <1>9, <2>1
    <2> HIDE DEF sum
    <2>3. sum \in 0..Word - 1
        BY <1>4, <1>9, <2>2
    <2> DEFINE w == Word
    <2>4. w \in Nat \ {0} /\ sum \in 0..w - 1
        BY <1>4, <2>3
    <2> HIDE DEF w
    <2>5. sum % w = sum
        BY <2>4
    <2> QED BY <2>5 DEF unsigned, w
<1>11. /\ e.val = sum /\ e.buf = d.buf
       /\ m = n => e.over = TRUE
       /\ m # n => e.over = FALSE
    <2>1. e = [val |-> unsigned(a.val + (d.val % GroupSize) * pow[i]),
               buf |-> d.buf, over |-> d.val < GroupSize]
        BY <1>7 DEF readGroup, i, d
    <2>2. e.val = unsigned(sum) /\ e.buf = d.buf
        BY <1>2, <1>8, <2>1 DEF P, G, z
    <2>3. e.over = (d.val < GroupSize)
        BY <2>1
    <2>4. (g[m] < GroupSize) = (m = n)
        BY <1>2 DEF G
    <2>5. e.over = (m = n)
        BY <1>8, <2>3, <2>4
    <2> QED BY <1>10, <2>2, <2>5
<1> HIDE DEF sum
<1> QED BY <1>8, <1>9, <1>11 DEF Assembled

\* readVarUint reads what writeVarUint has written.
LEMMA VariableLength ==
    ASSUME NEW u \in 0..Word - 1, NEW g, g = groups(u),
           NEW x, InBounds(x), Len(g) <= Len(Content(x)),
           \A i \in 1..Len(g) : Content(x)[i] = g[i],
           NEW r, r = readGroups(x)[Turns]
    PROVE  r.val = u /\ Behind(r.buf, x, Len(g))
<1> DEFINE n == Len(g)
           s == shifted(u, GroupSize, WordBits)
           f == readGroups(x)
           S == {k \in 0..n : Assembled(f[k], x, u, s, n, k)}
           T == {k \in 0..Turns - n : f[n + k] = f[n]}
<1>1. /\ f[0] = [val |-> 0, buf |-> x, over |-> FALSE]
      /\ \A k \in 1..Turns :
            f[k] = readGroup(f[k - 1], (k - 1) * GroupBits)
    BY ReadDef
<1>2. n \in 1..Turns /\ s[n] = 0 /\ g \in Seq(Cells)
    BY Grouping
<1>3. /\ Turns \in Nat /\ n \in Nat /\ GroupBits \in Nat /\ WordBits \in Nat
      /\ n <= Turns /\ Word \in Nat /\ u \in Nat
    <2>1. Turns \in Nat /\ GroupBits \in Nat /\ WordBits \in Nat
        BY TurnsCover, BitsAssumption
    <2>2. Word \in Nat
        BY <2>1, PowPositive DEF Word
    <2> QED BY <1>2, <2>1, <2>2
<1>4. 0 \in S
    <2>1. 0 * GroupBits = 0 /\ 0 \in 0..n /\ 0 # n
        BY <1>2, <1>3
    <2>2. s[0] = u /\ pow[0] = 1
        BY <1>3, ShiftedDef, PowDef
    <2>3. u = 0 + s[0] * pow[0 * GroupBits]
        BY <1>3, <2>1, <2>2
    <2>4. Behind(x, x, 0)
        <3>1. Len(Content(x)) \in Nat
            BY ContentType DEF InBounds, BufferType
        <3> QED BY <3>1 DEF Behind
    <2> HIDE DEF s, f, n
    <2>5. /\ f[0].val = 0 /\ f[0].buf = x /\ f[0].over = FALSE
        BY <1>1
    <2>6. Assembled(f[0], x, u, s, n, 0)
        BY <2>1, <2>3, <2>4, <2>5 DEF Assembled
    <2> QED BY <2>1, <2>6
<1>5. ASSUME NEW m \in 1..n, m - 1 \in S PROVE m \in S
    <2>1. m \in 0..n /\ m \in 1..Turns
        BY <1>3
    <2>2. Assembled(f[m - 1], x, u, s, n, m - 1)
        BY <1>5
    <2>3. f[m] = readGroup(f[m - 1], (m - 1) * GroupBits)
        BY <1>1, <2>1
    <2>4. s = shifted(u, GroupSize, WordBits) /\ n = Len(g)
        OBVIOUS
    <2> HIDE DEF s, f, n
    <2>5. Assembled(f[m], x, u, s, n, m)
        BY <2>2, <2>3, <2>4, NextGroup
    <2> QED BY <2>1, <2>5
<1>6. Assembled(f[n], x, u, s, n, n)
    <2>1. \A m \in 1..n : m - 1 \in S => m \in S
        BY <1>5
    <2>2. n \in 0..n
        BY <1>3
    <2> HIDE DEF S, n
    <2>3. n \in S
        BY <1>3, <1>4, <2>1, <2>2, UpTo
    <2> QED BY <2>3 DEF S
<1> HIDE DEF f, s, n
<1>7. f[n].over = TRUE /\ f[n].val = u /\ Behind(f[n].buf, x, n)
    <2>1. pow[n * GroupBits] \in Nat
        <3>1. n * GroupBits \in 0..WordBits + GroupBits
            <4>1. GroupBits * n <= GroupBits * Turns
                BY <1>3, Product
            <4>2. GroupBits * n = n * GroupBits
                  /\ GroupBits * Turns = Turns * GroupBits
                BY <1>3
            <4>3. n * GroupBits \in Nat /\ Turns * GroupBits \in Nat
                BY <1>3
            <4> QED BY <1>3, <4>1, <4>2, <4>3, TurnsCover
        <3> QED BY <3>1, PowPositive
    <2>2. s[n] * pow[n * GroupBits] = 0
        BY <1>2, <2>1
    <2> QED BY <1>6, <2>2 DEF Assembled
<1>8. f[Turns] = f[n]
    <2> DEFINE k == Turns - n
    <2>1. k \in Nat /\ n + k = Turns /\ k \in 0..k
        BY <1>3
    <2>2. 0 \in T
        BY <1>3, <2>1
    <2>3. ASSUME NEW m \in 1..k, m - 1 \in T PROVE m \in T
        <3>1. /\ n + m \in 1..Turns /\ n + m - 1 = n + (m - 1)
              /\ m \in 0..Turns - n
            BY <1>3
        <3>2. f[n + m] = readGroup(f[n + (m - 1)], (n + m - 1) * GroupBits)
            <4> DEFINE j == n + m
            <4>1. j \in 1..Turns /\ j - 1 = n + (m - 1)
                BY <1>3, <3>1
            <4> HIDE DEF j
            <4>2. f[j] = readGroup(f[j - 1], (j - 1) * GroupBits)
                BY <1>1, <4>1
            <4> QED BY <4>1, <4>2 DEF j
        <3>3. f[n + (m - 1)] = f[n]
            BY <2>3
        <3>4. f[n + m] = f[n]
            BY <1>7, <3>2, <3>3 DEF readGroup
        <3> QED BY <3>1, <3>4
    <2> HIDE DEF T, k
    <2>4. \A m \in 1..k : m - 1 \in T => m \in T
        BY <2>3
    <2>5. k \in T
        BY <2>1, <2>2, <2>4, UpTo
    <2> QED BY <2>1, <2>5 DEF T
<1> QED BY <1>7, <1>8 DEF f, n

-----------------------------------------------------------------------------
(* Round trips.                                                            *)

\* A word is two halves; a remainder is the number itself below the word,
\* and the number and a word when it is negative.
LEMMA Halves ==
    \E hw \in Nat \ {0} :
        /\ Word = 2 * hw /\ Word \div 2 = hw
        /\ \A a \in 0..Word - 1 : unsigned(a) = a
        /\ \A a \in -hw..-1 : unsigned(a) = a + Word
<1> DEFINE hw == pow[WordBits - 1]
           w == Word
<1>1. WordBits \in Nat \ {0} /\ GroupBits \in Nat
    BY TurnsCover, Widths
<1>2. WordBits - 1 \in 0..WordBits + GroupBits
      /\ WordBits \in 1..WordBits + GroupBits
    BY <1>1
<1>3. hw \in Nat \ {0}
    BY <1>2, PowPositive
<1>4. w = 2 * hw
    BY <1>2, PowDef DEF Word
<1> HIDE DEF hw, w
<1>5. w \div 2 = hw
    BY <1>3, <1>4
<1>6. \A a \in 0..w - 1 : a % w = a
    BY <1>3, <1>4
<1>7. ASSUME NEW a \in -hw..-1 PROVE a % w = a + w
    <2> DEFINE z == a + w
    <2>1. w \in Nat \ {0} /\ z \in 0..w - 1
        BY <1>3, <1>4
    <2>2. a = z - w
        BY <1>3, <1>4
    <2> HIDE DEF z
    <2>3. a = w * (-1) + z
        BY <2>1, <2>2
    <2>4. a % w = z
        BY <2>1, <2>3
    <2> QED BY <2>4 DEF z
<1> QED BY <1>3, <1>4, <1>5, <1>6, <1>7 DEF unsigned, w

\* Two's complement and zigzag, and back.
LEMMA Signs ==
    ASSUME NEW v \in Ints
    PROVE  /\ unsigned(v) \in 0..Word - 1 /\ signed(unsigned(v)) = v
           /\ EncodeZigzag(v) \in 0..Word - 1
           /\ DecodeZigzag(EncodeZigzag(v)) = v
<1>1. PICK hw \in Nat \ {0} :
          /\ Word = 2 * hw /\ Word \div 2 = hw
          /\ \A a \in 0..Word - 1 : unsigned(a) = a
          /\ \A a \in -hw..-1 : unsigned(a) = a + Word
    BY Halves
<1>2. v \in -hw..hw - 1
    BY <1>1 DEF Ints
<1>3. CASE v >= 0
    <2>1. v \in 0..Word - 1 /\ v * 2 \in 0..Word - 1 /\ v < hw
        BY <1>1, <1>2, <1>3
    <2>2. unsigned(v) = v /\ EncodeZigzag(v) = v * 2
        BY <1>1, <1>2, <1>3, <2>1 DEF EncodeZigzag
    <2>3. signed(v) = v
        BY <1>1, <2>1 DEF signed
    <2>4. (v * 2) % 2 = 0 /\ (v * 2) \div 2 = v
        BY <2>1, <1>1
    <2>5. DecodeZigzag(v * 2) = signed(v)
        BY <2>4 DEF DecodeZigzag
    <2> QED BY <2>1, <2>2, <2>3, <2>5
<1>4. CASE v < 0
    <2> DEFINE e == (-v) * 2 - 1
               p == -v - 1
    <2>1. /\ v \in -hw..-1 /\ -v \in 0..Word - 1 /\ e \in 0..Word - 1
          /\ v + Word \in 0..Word - 1 /\ ~(v + Word < hw)
          /\ v + Word - Word = v
        BY <1>1, <1>2, <1>4
    <2>2. unsigned(v) = v + Word
        BY <1>1, <2>1
    <2>3. EncodeZigzag(v) = e
        <3>1. unsigned(-v) = -v /\ unsigned(e) = e
            BY <1>1, <2>1
        <3> QED BY <1>4, <3>1 DEF EncodeZigzag
    <2>4. signed(v + Word) = v
        BY <1>1, <2>1 DEF signed
    <2>5. e % 2 = 1 /\ e \div 2 = p /\ Word - 1 - p = v + Word
        <3>1. e = 2 * p + 1 /\ p \in Int
            BY <1>2
        <3>2. Word - 1 - p = v + Word
            BY <1>1, <1>2
        <3> HIDE DEF e, p
        <3> QED BY <3>1, <3>2
    <2>6. DecodeZigzag(e) = signed(v + Word)
        <3> HIDE DEF e, p
        <3> QED BY <2>5 DEF DecodeZigzag
    <2> QED BY <2>1, <2>2, <2>3, <2>4, <2>6
<1> QED BY <1>2, <1>3, <1>4

\* What is read back when an integer was written in both ways behind each
\* other into an empty buffer.
LEMMA WrittenAndRead ==
    ASSUME NEW z, InBounds(z), readableBytes(z) = 0, NEW v \in Ints,
           NEW x, x = writeInt(writeVarInt(z, v), v),
           NEW first, first = readVarInt(x),
           NEW second, second = readInt(first.buf)
    PROVE  /\ first.val = v /\ second.val = v
           /\ readableBytes(second.buf) = 0
           /\ Len(groups(EncodeZigzag(v))) <= TmpSize
<1> DEFINE u == EncodeZigzag(v)
           g == groups(u)
           d == byteswapOnLittleEndian(unsigned(v))
           y == writeLen(z, g)
           r == readGroups(x)[Turns]
           t == first.buf
<1>1. /\ u \in 0..Word - 1 /\ DecodeZigzag(u) = v
      /\ unsigned(v) \in 0..Word - 1 /\ signed(unsigned(v)) = v
    BY Signs
<1>2. y = writeVarInt(z, v) /\ x = writeLen(y, d)
    BY DEF writeVarInt, writeInt
<1>3. first = Value(DecodeZigzag(r.val), r.buf)
    BY DEF readVarInt
<1> HIDE DEF u
<1>4. g \in Seq(Cells) /\ Len(g) \in 1..Turns
    BY <1>1, Grouping
<1>5. /\ d \in Seq(Cells) /\ Len(d) = WordBytes
      /\ \A c : (\A i \in 1..WordBytes : c[i] = d[i]) =>
            hostInts(c)[WordBytes] = unsigned(v)
    BY <1>1, FixedSize
<1>6. Len(g) <= TmpSize
    BY <1>4, TurnsCover, BitsAssumption
<1>7. g = groups(u)
    OBVIOUS
<1> HIDE DEF g, d, r
<1>8. Content(z) = <<>>
    <2>1. Content(z) \in Seq(Cells) /\ Len(Content(z)) = 0
        BY ContentType DEF readableBytes
    <2> QED BY <2>1, EmptySeq
<1>9. InBounds(y) /\ Content(y) = g
    <2>1. InBounds(y) /\ Content(y) = Content(z) \o g
        BY <1>4, Writing
    <2>2. <<>> \o g = g
        BY <1>4
    <2> QED BY <1>8, <2>1, <2>2
<1> HIDE DEF y
<1>10. InBounds(x) /\ Content(x) = g \o d
    BY <1>2, <1>5, <1>9, Writing
<1> DEFINE n == Len(g)
           c == Content(x)
<1>11. /\ Len(c) = n + WordBytes /\ n \in Nat /\ WordBytes \in Nat
       /\ \A i \in 1..n : c[i] = g[i]
       /\ \A i \in 1..WordBytes : c[n + i] = d[i]
    <2>0. n \in Nat /\ WordBytes \in Nat
        BY <1>4, BitsAssumption
    <2>1. /\ Len(g \o d) = n + WordBytes
          /\ \A i \in 1..n : (g \o d)[i] = g[i]
          /\ \A i \in (n + 1)..(n + WordBytes) : (g \o d)[i] = d[i - n]
        BY <1>4, <1>5, ConcatElements
    <2>2. \A i \in 1..WordBytes : /\ n + i \in (n + 1)..(n + WordBytes)
                                  /\ n + i - n = i
        BY <2>0
    <2>3. c = g \o d
        BY <1>10
    <2> HIDE DEF c, n
    <2> QED BY <2>0, <2>1, <2>2, <2>3
<1> HIDE DEF c, n
<1>12. r.val = u /\ Behind(r.buf, x, n)
    <2>1. Len(g) <= Len(Content(x)) /\ n = Len(g)
          /\ \A i \in 1..Len(g) : Content(x)[i] = g[i]
        BY <1>11 DEF n, c
    <2>2. r = readGroups(x)[Turns]
        BY DEF r
    <2> QED BY <1>1, <1>7, <1>10, <2>1, <2>2, VariableLength
<1>13. first.val = v /\ t = r.buf
    BY <1>1, <1>3, <1>12 DEF Value
<1> DEFINE k == Content(t)
<1>14. /\ InBounds(t) /\ Len(k) = WordBytes
       /\ \A i \in 1..WordBytes : k[i] = d[i]
    <2>1. /\ InBounds(t) /\ Len(k) = Len(c) - n
          /\ \A i \in 1..Len(c) - n : k[i] = c[n + i]
        BY <1>12, <1>13 DEF Behind, c
    <2>2. Len(c) - n = WordBytes
        BY <1>11
    <2> HIDE DEF k
    <2> QED BY <1>11, <2>1, <2>2
<1>15. readableBytes(t) = WordBytes
    BY <1>14, ContentType DEF readableBytes
<1>16. second = Value(signed(hostInts(k)[WordBytes]), retrieve(t, WordBytes))
    <2>1. ~(WordBytes < WordBytes)
        BY <1>11
    <2> QED BY <1>15, <2>1 DEF readInt
<1>17. hostInts(k)[WordBytes] = unsigned(v)
    <2> HIDE DEF k
    <2> QED BY <1>5, <1>14
<1>18. second.val = v /\ second.buf = retrieve(t, WordBytes)
    <2> HIDE DEF k, t
    <2> QED BY <1>1, <1>16, <1>17 DEF Value
<1>19. readableBytes(second.buf) = 0
    <2> HIDE DEF t
    <2>1. Behind(second.buf, t, WordBytes)
        BY <1>11, <1>14, <1>18, RetrievedBehind
    <2>2. Len(Content(second.buf)) = 0 /\ InBounds(second.buf)
        BY <1>11, <1>14, <2>1 DEF Behind
    <2> QED BY <2>2, ContentType DEF readableBytes
<1> QED BY <1>6, <1>13, <1>18, <1>19 DEF g, u

\* Wherever the indices of an empty Buffer stand: what writeVarInt and
\* writeInt write is what readVarInt and readInt read, for every integer of
\* the type, its extremes included, and tmp is never overrun; for any width
\* of a word and of a group.
THEOREM IntegersAlwaysRoundTrip == Spec => []IntegersRoundTrip
<1>1. IInv => IntegersRoundTrip
    BY WrittenAndRead DEF IInv, IntegersRoundTrip
<1> QED BY <1>1, Inductive, PTL
=============================================================================
