---------------------------- MODULE BufferCodec ----------------------------
(***************************************************************************)
(* The integers of a Buffer (src/shero/net/Buffer.cc, src/shero/base/      *)
(* Endian.h): fixed-size ones in network byte order, and variable-length   *)
(* ones in groups of GroupBits bits (7), the signed ones by way of zigzag. *)
(* A byte has GroupBits + 1 bits, an integer WordBits (32 or 64), in two's *)
(* complement.                                                             *)
(***************************************************************************)
EXTENDS Buffer, Integers, FiniteSetsExt

CONSTANTS
    WordBits,
    WordBytes,       \* sizeof(type)
    GroupBits,
    TmpSize          \* the size of tmp in writeVarUint32 (5) and 64 (10)

ASSUME BitsAssumption ==
    /\ GroupBits \in Nat \ {0} /\ WordBytes \in Nat \ {0}
    /\ WordBits = WordBytes * (GroupBits + 1)
    /\ TmpSize \in Nat /\ WordBits <= TmpSize * GroupBits

pow[i \in 0..WordBits + GroupBits] == IF i = 0 THEN 1 ELSE 2 * pow[i - 1]

Word == pow[WordBits]
ByteSize == pow[GroupBits + 1]
GroupSize == pow[GroupBits]

Ints == (-(Word \div 2))..((Word \div 2) - 1)

\* u shifted to the right by one digit, again and again.
shifted(u, base, n) ==
    LET s[k \in 0..n] == IF k = 0 THEN u ELSE s[k - 1] \div base
    IN  s

\* The bits of an integer, and the integer of bits.
unsigned(v) == v % Word
signed(u) == IF u < Word \div 2 THEN u ELSE u - Word

-----------------------------------------------------------------------------
(* Fixed size.                                                             *)

\* The bytes in memory after byteswapOnLittleEndian: the highest first.
byteswapOnLittleEndian(u) ==
    LET s == shifted(u, ByteSize, WordBytes)
    IN  [i \in 1..WordBytes |-> s[WordBytes - i] % ByteSize]

\* ... and back: the integer of the first i bytes of d.
hostInts(d) ==
    LET v[i \in 0..WordBytes] == IF i = 0 THEN 0
                                 ELSE v[i - 1] * ByteSize + d[i]
    IN  v

writeInt(x, v) == writeLen(x, byteswapOnLittleEndian(unsigned(v)))

\* A value, and the buffer after it was read.
Value(v, x) == [val |-> v, buf |-> x]

\* 0, and nothing is taken, when the buffer has too few bytes.
readUint8(x) == IF readableBytes(x) < 1 THEN Value(0, x)
                ELSE Value(x.mem[x.r + 1], retrieve(x, 1))

readInt(x) ==
    IF readableBytes(x) < WordBytes THEN Value(0, x)
    ELSE Value(signed(hostInts(Content(x))[WordBytes]), retrieve(x, WordBytes))

-----------------------------------------------------------------------------
(* Variable length.                                                        *)

\* Variant: one less for a positive number too.
EncodeZigzag_Shifted(v) == unsigned(v * 2 - 1)

\* -v of the least integer is that integer again.
EncodeZigzag(v) == IF v < 0 THEN unsigned(unsigned(-v) * 2 - 1)
                   ELSE unsigned(v * 2)

\* (v >> 1) ^ -(v & 1): with a lowest bit of 1, all bits are turned.
DecodeZigzag(u) == signed(IF u % 2 = 0 THEN u \div 2
                          ELSE Word - 1 - (u \div 2))

\* tmp: groups from the lowest on, all but the last with the highest bit.
groups(u) ==
    LET s == shifted(u, GroupSize, WordBits)
        last == Min({k \in 1..WordBits : s[k - 1] < GroupSize})
    IN  [k \in 1..last |-> IF k = last THEN s[k - 1]
                           ELSE GroupSize + (s[k - 1] % GroupSize)]

writeVarInt(x, v) == writeLen(x, groups(EncodeZigzag(v)))

\* A turn of the loop of readVarUint at the bit i, unless it is over.
readGroup(a, i) ==
    LET d == readUint8(a.buf)
    IN  IF a.over THEN a
        ELSE [val |-> unsigned(a.val + (d.val % GroupSize) * pow[i]),
              buf |-> d.buf, over |-> d.val < GroupSize]

\* readVarUint: a turn for every GroupBits bits, and for those left over.
Turns == (WordBits + GroupBits - 1) \div GroupBits
readGroups(x) ==
    LET turn[k \in 0..Turns] ==
            IF k = 0 THEN [val |-> 0, buf |-> x, over |-> FALSE]
            ELSE readGroup(turn[k - 1], (k - 1) * GroupBits)
    IN  turn

readVarInt(x) == LET u == readGroups(x)[Turns]
                 IN  Value(DecodeZigzag(u.val), u.buf)

-----------------------------------------------------------------------------
(* Properties.                                                             *)

\* Wherever the indices of an empty buffer stand, so that the writes compact
\* or grow it: a variable-length integer and a fixed-size one after it are
\* read as they were written, and leave the buffer empty.  The extremes of
\* the type are among them, and tmp is never overrun.
IntegersRoundTrip ==
    readableBytes(b) = 0 =>
        \A v \in Ints :
            LET x == writeInt(writeVarInt(b, v), v)
                first == readVarInt(x)
                second == readInt(first.buf)
            IN  /\ first.val = v /\ second.val = v
                /\ readableBytes(second.buf) = 0
                /\ Len(groups(EncodeZigzag(v))) <= TmpSize
=============================================================================
