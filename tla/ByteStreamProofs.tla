--------------------------- MODULE ByteStreamProofs ---------------------------
(***************************************************************************)
(* Frames as a stream of bytes: what holds for either direction of a        *)
(* connection, whoever writes the stream and whoever reads it.              *)
(***************************************************************************)
EXTENDS ByteStream, SequenceTheorems, TLAPS

-----------------------------------------------------------------------------
(* Bytes and lengths. *)

LEMMA BaseType == Base \in Nat /\ Base > 1 /\ Header \in Byte /\ Header \in Nat
  BY ByteStreamAssumption DEF Byte

LEMMA DivMod ==
    ASSUME NEW v \in 0 .. Base * Base - 1
    PROVE  /\ v % Base \in Byte /\ v \div Base \in Byte
           /\ v = Base * (v \div Base) + (v % Base)
<1>1. Base \in Nat /\ Base > 1
  BY BaseType
<1>2. v \in Nat /\ v < Base * Base
  BY <1>1
<1>3. v % Base \in 0 .. Base - 1
  BY <1>1, <1>2
<1>4. v \div Base \in Nat
  BY <1>1, <1>2
<1>5. v = Base * (v \div Base) + (v % Base)
  BY <1>1, <1>2
<1>6. v \div Base < Base
  BY <1>1, <1>2, <1>3, <1>4, <1>5
<1> QED
  BY <1>1, <1>3, <1>4, <1>5, <1>6 DEF Byte

LEMMA TwoDigits ==
    ASSUME NEW a \in Byte, NEW b \in Byte
    PROVE  /\ a * Base + b \in 0 .. Base * Base - 1
           /\ (a * Base + b) % Base = b
           /\ (a * Base + b) \div Base = a
<1>1. Base \in Nat /\ Base > 1
  BY BaseType
<1>2. a \in Nat /\ b \in Nat /\ a <= Base - 1 /\ b < Base
  BY <1>1 DEF Byte
<1>3. a * Base <= (Base - 1) * Base
  BY <1>1, <1>2
<1>4. (Base - 1) * Base = Base * Base - Base
  BY <1>1, <1>2
<1>5. a * Base + b \in 0 .. Base * Base - 1
  BY <1>1, <1>2, <1>3, <1>4
<1>6. (a * Base + b) % Base = b
  BY <1>1, <1>2
<1>7. (a * Base + b) \div Base = a
  BY <1>1, <1>2
<1> QED
  BY <1>5, <1>6, <1>7

\* htons keeps a uint16_t one and undoes itself.
LEMMA SwapTwice ==
    ASSUME NEW v \in 0 .. Base * Base - 1
    PROVE  Swap(v) \in 0 .. Base * Base - 1 /\ Swap(Swap(v)) = v
<1> DEFINE r == v % Base
           q == v \div Base
<1>1. r \in Byte /\ q \in Byte /\ v = Base * q + r
  BY DivMod
<1>2. Swap(v) = r * Base + q
  BY DEF Swap
<1>3. /\ Swap(v) \in 0 .. Base * Base - 1
      /\ Swap(v) % Base = q /\ Swap(v) \div Base = r
  <2> HIDE DEF r, q
  <2> QED
    BY <1>1, <1>2, TwoDigits
<1>4. Swap(Swap(v)) = q * Base + r
  BY <1>3 DEF Swap
<1>5. q * Base = Base * q
  <2> HIDE DEF r, q
  <2> QED
    BY <1>1, BaseType DEF Byte
<1> QED
  BY <1>1, <1>3, <1>4, <1>5

\* Two bytes make a uint16_t, and a uint16_t in memory is two bytes.
LEMMA ValueOfMemory ==
    /\ \A a, b \in Byte : Value(<<a, b>>) \in 0 .. Base * Base - 1
    /\ \A v \in 0 .. Base * Base - 1 :
          Memory(v) \in Seq(Byte) /\ Len(Memory(v)) = 2 /\ Value(Memory(v)) = v
<1>1. ASSUME NEW a \in Byte, NEW b \in Byte
      PROVE  Value(<<a, b>>) \in 0 .. Base * Base - 1
  <2>1. Value(<<a, b>>) = a + Base * b
    BY DEF Value
  <2>2. a + Base * b = b * Base + a
    BY BaseType DEF Byte
  <2> QED
    BY <2>1, <2>2, TwoDigits
<1>2. ASSUME NEW v \in 0 .. Base * Base - 1
      PROVE  Memory(v) \in Seq(Byte) /\ Len(Memory(v)) = 2 /\ Value(Memory(v)) = v
  <2> DEFINE r == v % Base
             q == v \div Base
  <2>1. r \in Byte /\ q \in Byte /\ v = Base * q + r
    BY DivMod
  <2>2. Memory(v) = <<r, q>>
    BY DEF Memory
  <2> HIDE DEF r, q
  <2>3. Value(<<r, q>>) = r + Base * q
    BY DEF Value
  <2>4. r + Base * q = v
    BY <2>1, BaseType DEF Byte
  <2>5. <<r, q>> \in Seq(Byte) /\ Len(<<r, q>>) = 2
    BY <2>1
  <2> QED
    BY <2>2, <2>3, <2>4, <2>5, Zenon
<1> QED
  BY <1>1, <1>2

\* What SubSeq takes of a sequence of bytes.
LEMMA Parts ==
    ASSUME NEW s \in Seq(Byte), NEW n \in 0 .. Len(s)
    PROVE  /\ First(n, s) \in Seq(Byte) /\ Len(First(n, s)) = n
           /\ \A p \in 1 .. n : First(n, s)[p] = s[p]
           /\ Rest(n, s) \in Seq(Byte) /\ Len(Rest(n, s)) = Len(s) - n
           /\ \A p \in 1 .. Len(s) - n : Rest(n, s)[p] = s[n + p]
<1>1. \A i \in 1 .. n : s[i] \in Byte
  BY ElementOfSeq, LenProperties
<1>2. \A i \in n + 1 .. Len(s) : s[i] \in Byte
  BY ElementOfSeq, LenProperties
<1>3. /\ First(n, s) \in Seq(Byte) /\ Len(First(n, s)) = n
      /\ \A p \in 1 .. n : First(n, s)[p] = s[p]
  <2>1. /\ SubSeq(s, 1, n) \in Seq(Byte)
        /\ Len(SubSeq(s, 1, n)) = IF 1 <= n THEN n - 1 + 1 ELSE 0
        /\ \A i \in 1 .. n - 1 + 1 : SubSeq(s, 1, n)[i] = s[1 + i - 1]
    BY <1>1, SubSeqProperties
  <2> QED
    BY <2>1 DEF First
<1>4. /\ Rest(n, s) \in Seq(Byte) /\ Len(Rest(n, s)) = Len(s) - n
      /\ \A p \in 1 .. Len(s) - n : Rest(n, s)[p] = s[n + p]
  <2>1. Len(s) \in Nat
    BY LenProperties
  <2>2. /\ SubSeq(s, n + 1, Len(s)) \in Seq(Byte)
        /\ Len(SubSeq(s, n + 1, Len(s)))
             = IF n + 1 <= Len(s) THEN Len(s) - (n + 1) + 1 ELSE 0
        /\ \A i \in 1 .. Len(s) - (n + 1) + 1 :
              SubSeq(s, n + 1, Len(s))[i] = s[n + 1 + i - 1]
    BY <1>2, <2>1, SubSeqProperties
  <2> QED
    BY <2>1, <2>2 DEF Rest
<1> QED
  BY <1>3, <1>4

LEMMA WholeParts == ASSUME NEW s \in Seq(Byte) PROVE First(Len(s), s) = s
<1>1. Len(s) \in Nat /\ Len(s) \in 0 .. Len(s)
  BY LenProperties
<1>2. /\ First(Len(s), s) \in Seq(Byte) /\ Len(First(Len(s), s)) = Len(s)
      /\ \A p \in 1 .. Len(s) : First(Len(s), s)[p] = s[p]
  BY <1>1, Parts
<1> QED
  BY <1>2, SeqEqual

Pieces == [kind : Kinds, bytes : Seq(Byte)]

\* A piece of the wire arrives, or the front of one.
LEMMA ArriveTypes ==
    ASSUME NEW w \in Seq(Pieces), NEW n \in Segments(w)
    PROVE  /\ w # <<>> /\ Head(w) \in Pieces
           /\ n \in 0 .. Len(Head(w).bytes)
           /\ First(n, Head(w).bytes) \in Seq(Byte)
           /\ Taken(w, n) \in Seq(Pieces)
<1> DEFINE p == Head(w)
<1>1. w # <<>>
  BY DEF Segments
<1>2. p \in Pieces /\ Tail(w) \in Seq(Pieces)
  BY <1>1, HeadTailProperties
<1>3. p.bytes \in Seq(Byte) /\ p.kind \in Kinds
  BY <1>2 DEF Pieces
<1>4. Len(p.bytes) \in Nat
  BY <1>3, LenProperties
<1>5. n \in 0 .. Len(p.bytes)
  BY <1>1, <1>4 DEF Segments
<1>6. First(n, p.bytes) \in Seq(Byte) /\ Rest(n, p.bytes) \in Seq(Byte)
  BY <1>3, <1>5, Parts
<1>7. Piece(p.kind, Rest(n, p.bytes)) \in Pieces
  BY <1>3, <1>6 DEF Piece, Pieces
<1>8. Taken(w, n) \in Seq(Pieces)
  <2>1. CASE n = Len(p.bytes)
    BY <1>2, <2>1 DEF Taken
  <2>2. CASE n # Len(p.bytes)
    <3>1. Taken(w, n) = <<Piece(p.kind, Rest(n, p.bytes))>> \o Tail(w)
      BY <2>2 DEF Taken
    <3>2. <<Piece(p.kind, Rest(n, p.bytes))>> \in Seq(Pieces)
      BY <1>7
    <3> QED
      BY <1>2, <3>1, <3>2, ConcatProperties
  <2> QED
    BY <2>1, <2>2
<1> QED
  BY <1>1, <1>2, <1>5, <1>6, <1>8

\* A message is a sequence of bytes whose length fits a uint16_t.
AnyMessage == {m \in Seq(Byte) : Len(m) < Base * Base}

LEMMA MessageType ==
    ASSUME NEW m \in AnyMessage
    PROVE  m \in Seq(Byte) /\ Len(m) \in 0 .. Base * Base - 1
<1>1. m \in Seq(Byte) /\ Len(m) < Base * Base
  BY DEF AnyMessage
<1>2. Len(m) \in Nat
  BY <1>1, LenProperties
<1> QED
  BY <1>1, <1>2, BaseType

LEMMA AreMessages ==
    /\ Messages \subseteq AnyMessage
    /\ \A s \in Seq(Messages) : s \in Seq(AnyMessage)
<1>1. Messages \subseteq AnyMessage
  BY ByteStreamAssumption DEF AnyMessage
<1>2. ASSUME NEW s \in Seq(Messages) PROVE s \in Seq(AnyMessage)
  <2>1. Len(s) \in Nat /\ s \in [1 .. Len(s) -> Messages]
    BY LenProperties
  <2>2. s \in [1 .. Len(s) -> AnyMessage]
    BY <1>1, <2>1
  <2> QED
    BY <2>1, <2>2
<1> QED
  BY <1>1, <1>2

-----------------------------------------------------------------------------
(* The stream: all bytes of the frames of s, in order.  S[p] is its p-th    *)
(* byte, at[i] the length of its first i frames.                            *)

\* The i-th frame of s in the stream.
FrameAt(s, S, at, i) ==
    /\ at[i] = at[i - 1] + 3 + Len(s[i])
    /\ S[at[i - 1] + 1] = Header
    /\ S[at[i - 1] + 2] = Memory(Swap(Len(s[i])))[1]
    /\ S[at[i - 1] + 3] = Memory(Swap(Len(s[i])))[2]
    /\ \A p \in 1 .. Len(s[i]) : S[at[i - 1] + 3 + p] = s[i][p]

Encoded(s, S, at) ==
    /\ at \in [Nat -> Nat]
    /\ at[0] = 0
    /\ \A i, j \in 0 .. Len(s) : i < j => at[i] + 3 <= at[j]
    /\ \A i \in 1 .. Len(s) : FrameAt(s, S, at, i)

\* Some bytes are those of the stream behind the first a and up to the b-th.
Holds(bytes, S, a, b) ==
    /\ Len(bytes) = b - a
    /\ \A p \in 1 .. b - a : bytes[p] = S[a + p]

\* The end of the first p bytes does not divide a length.
Undivided(s, at, p) == \A i \in 1 .. Len(s) : p # at[i - 1] + 2

\* Piece i of the wire ends where the first to[i] bytes do; the first to[0] arrived
\* and the first end were sent.
OnTheWire(s, w, S, at, to, end) ==
    /\ to \in [Nat -> Nat] /\ to[Len(w)] = end
    /\ \A i, j \in 0 .. Len(w) : i <= j => to[i] <= to[j]
    /\ \A i \in 0 .. Len(w) : Undivided(s, at, to[i])
    /\ \A i \in 1 .. Len(w) :
        /\ Holds(w[i].bytes, S, to[i - 1], to[i])
        /\ w[i].kind # "len" => \A p \in to[i - 1] .. to[i] : Undivided(s, at, p)

\* Of the stream, the bytes behind pos and up to end are in the reader's socket or
\* on the wire, and no cut divides a length.
InTransit(s, w, rx, S, at, pos, end) ==
    /\ Encoded(s, S, at) /\ pos \in Nat /\ end \in Nat /\ end <= at[Len(s)]
    /\ \E to : OnTheWire(s, w, S, at, to, end) /\ Holds(rx, S, pos, to[0])

-----------------------------------------------------------------------------
(* Parts of the stream. *)

LEMMA HoldsParts ==
    ASSUME NEW bytes \in Seq(Byte), NEW S, NEW a \in Nat, NEW b \in Nat,
           Holds(bytes, S, a, b), NEW n \in 0 .. Len(bytes)
    PROVE  Holds(First(n, bytes), S, a, a + n) /\ Holds(Rest(n, bytes), S, a + n, b)
<1>1. Len(bytes) = b - a /\ \A p \in 1 .. b - a : bytes[p] = S[a + p]
  BY DEF Holds
<1>2. /\ Len(First(n, bytes)) = n /\ Len(Rest(n, bytes)) = Len(bytes) - n
      /\ \A p \in 1 .. n : First(n, bytes)[p] = bytes[p]
      /\ \A p \in 1 .. Len(bytes) - n : Rest(n, bytes)[p] = bytes[n + p]
  BY Parts
<1>3. Len(bytes) \in Nat /\ n \in Nat
  BY LenProperties
<1>4. Holds(First(n, bytes), S, a, a + n)
  BY <1>1, <1>2, <1>3 DEF Holds
<1>5. Holds(Rest(n, bytes), S, a + n, b)
  <2>1. ASSUME NEW p \in 1 .. b - (a + n) PROVE Rest(n, bytes)[p] = S[(a + n) + p]
    <3>1. p \in 1 .. Len(bytes) - n /\ n + p \in 1 .. b - a /\ (a + n) + p = a + (n + p)
      BY <1>1, <1>3
    <3> QED
      BY <1>1, <1>2, <3>1
  <2>2. Len(Rest(n, bytes)) = b - (a + n)
    BY <1>1, <1>2, <1>3
  <2> QED
    BY <2>1, <2>2 DEF Holds
<1> QED
  BY <1>4, <1>5

LEMMA HoldsConcat ==
    ASSUME NEW x \in Seq(Byte), NEW y \in Seq(Byte), NEW S,
           NEW a \in Nat, NEW b \in Nat, NEW c \in Nat,
           Holds(x, S, a, b), Holds(y, S, b, c)
    PROVE  Holds(x \o y, S, a, c)
<1>1. /\ Len(x) = b - a /\ \A p \in 1 .. b - a : x[p] = S[a + p]
      /\ Len(y) = c - b /\ \A p \in 1 .. c - b : y[p] = S[b + p]
      /\ Len(x) \in Nat /\ Len(y) \in Nat
  BY LenProperties DEF Holds
<1>2. /\ Len(x \o y) = Len(x) + Len(y)
      /\ \A i \in 1 .. Len(x) + Len(y) :
            (x \o y)[i] = IF i <= Len(x) THEN x[i] ELSE y[i - Len(x)]
  BY ConcatProperties
<1>3. ASSUME NEW p \in 1 .. c - a PROVE (x \o y)[p] = S[a + p]
  <2>1. p \in 1 .. Len(x) + Len(y)
    BY <1>1
  <2>2. CASE p <= Len(x)
    BY <1>1, <1>2, <2>1, <2>2
  <2>3. CASE p > Len(x)
    <3>1. p - Len(x) \in 1 .. c - b /\ b + (p - Len(x)) = a + p
      BY <1>1, <2>1, <2>3
    <3>2. (x \o y)[p] = y[p - Len(x)]
      BY <1>1, <1>2, <2>1, <2>3
    <3> QED
      BY <1>1, <3>1, <3>2
  <2>4. p <= Len(x) \/ p > Len(x)
    BY <1>1
  <2> QED
    BY <2>2, <2>3, <2>4
<1>4. Len(x \o y) = c - a
  BY <1>1, <1>2
<1> QED
  BY <1>3, <1>4 DEF Holds

\* A frame that is there ends before the stream does.
LEMMA FrameInside ==
    ASSUME NEW s \in Seq(AnyMessage), NEW S, NEW at, Encoded(s, S, at),
           NEW i \in 1 .. Len(s)
    PROVE  /\ FrameAt(s, S, at, i) /\ at[i - 1] \in Nat /\ at[Len(s)] \in Nat
           /\ s[i] \in Seq(Byte) /\ Len(s[i]) \in Nat /\ Len(s[i]) < Base * Base
           /\ at[i - 1] + 3 + Len(s[i]) <= at[Len(s)]
<1>1. Len(s) \in Nat /\ s[i] \in AnyMessage
  BY LenProperties, ElementOfSeq
<1>2. s[i] \in Seq(Byte) /\ Len(s[i]) \in Nat /\ Len(s[i]) < Base * Base
  BY <1>1, MessageType, BaseType
<1>3. /\ at \in [Nat -> Nat] /\ FrameAt(s, S, at, i)
      /\ i < Len(s) => at[i] + 3 <= at[Len(s)]
  BY <1>1, SMTT(40) DEF Encoded
<1>4. at[i - 1] \in Nat /\ at[i] \in Nat /\ at[Len(s)] \in Nat
  BY <1>1, <1>3, SMTT(40)
<1>5. at[i] = at[i - 1] + 3 + Len(s[i])
  BY <1>3 DEF FrameAt
<1>6. at[i] <= at[Len(s)]
  <2>1. CASE i = Len(s)
    BY <1>4, <2>1
  <2>2. CASE i # Len(s)
    <3>1. i < Len(s)
      BY <1>1, <2>2
    <3> QED
      BY <1>3, <1>4, <3>1
  <2> QED
    BY <2>1, <2>2
<1> QED
  BY <1>2, <1>3, <1>4, <1>5, <1>6

\* S2 is the stream S with a frame more.
Longer(s, m, S, at, S2, at2) ==
    /\ Encoded(Append(s, m), S2, at2)
    /\ at2[Len(s) + 1] = at[Len(s)] + 3 + Len(m)
    /\ \A i \in Nat : i <= Len(s) => at2[i] = at[i]
    /\ \A p \in Nat : p <= at[Len(s)] => S2[p] = S[p]

\* A frame sent makes the stream longer.
LEMMA SentStream ==
    ASSUME NEW s \in Seq(AnyMessage), NEW m \in AnyMessage, NEW S, NEW at, Encoded(s, S, at)
    PROVE  \E S2, at2 : Longer(s, m, S, at, S2, at2)
<1> DEFINE k == Len(s)
           L == at[k]
           s2 == Append(s, m)
           lenBytes == Memory(Swap(Len(m)))
           S2 == [p \in Nat |-> IF p <= L THEN S[p]
                                ELSE IF p = L + 1 THEN Header
                                ELSE IF p = L + 2 THEN lenBytes[1]
                                ELSE IF p = L + 3 THEN lenBytes[2]
                                ELSE m[p - L - 3]]
           at2 == [i \in Nat |-> IF i <= k THEN at[i] ELSE L + 3 + Len(m)]
<1>1. at \in [Nat -> Nat] /\ at[0] = 0
  BY DEF Encoded
<1>2. k \in Nat /\ Len(m) \in Nat /\ m \in Seq(Byte)
  BY LenProperties, MessageType
<1>3. L \in Nat
  BY <1>1, <1>2
<1>4. \A i, j \in 0 .. k : i < j => at[i] + 3 <= at[j]
  BY DEF Encoded
<1>5. \A i \in 0 .. k - 1 : at[i] + 3 <= L
  BY <1>2, <1>4
<1>6. Len(s2) = k + 1 /\ s2[k + 1] = m /\ \A i \in 1 .. k : s2[i] = s[i]
  BY <1>2
<1>7. \A i \in 1 .. k : /\ FrameAt(s, S, at, i) /\ at[i - 1] \in Nat /\ Len(s[i]) \in Nat
                        /\ at[i - 1] + 3 + Len(s[i]) <= L
  BY FrameInside
<1> HIDE DEF k, L, s2, lenBytes
<1>8. at2 \in [Nat -> Nat] /\ \A i \in Nat : i <= k => at2[i] = at[i]
  BY <1>1, <1>2, <1>3
<1>9. at2[k + 1] = L + 3 + Len(m)
  BY <1>2
<1>10. \A p \in Nat : p <= L => S2[p] = S[p]
  OBVIOUS
<1>11. S2[L + 1] = Header /\ S2[L + 2] = lenBytes[1] /\ S2[L + 3] = lenBytes[2]
  BY <1>3
<1>12. \A p \in 1 .. Len(m) : S2[L + 3 + p] = m[p]
  BY <1>2, <1>3
<1> HIDE DEF S2, at2
<1>13. ASSUME NEW i \in 0 .. k + 1, NEW j \in 0 .. k + 1, i < j
       PROVE  at2[i] + 3 <= at2[j]
  <2>1. CASE j <= k
    <3>1. i \in 0 .. k /\ j \in 0 .. k /\ at2[i] = at[i] /\ at2[j] = at[j]
      BY <1>2, <1>8, <1>13, <2>1
    <3> QED
      BY <1>4, <1>13, <3>1
  <2>2. CASE j = k + 1
    <3>1. i \in Nat /\ i <= k /\ at2[i] = at[i] /\ at[i] \in Nat
      <4>1. i \in Nat /\ i <= k
        BY <1>2, <1>13, <2>2
      <4> QED
        BY <1>1, <1>8, <4>1
    <3>2. at[i] <= L
      <4>1. CASE i = k
        BY <1>3, <4>1 DEF L
      <4>2. CASE i # k
        <5>1. i \in 0 .. k - 1
          BY <1>2, <3>1, <4>2
        <5> QED
          BY <1>3, <1>5, <3>1, <5>1
      <4> QED
        BY <4>1, <4>2
    <3> QED
      BY <1>2, <1>3, <1>9, <2>2, <3>1, <3>2
  <2> QED
    BY <1>2, <2>1, <2>2
<1>14. ASSUME NEW i \in 1 .. k PROVE FrameAt(s2, S2, at2, i)
  <2>1. /\ FrameAt(s, S, at, i) /\ at[i - 1] \in Nat /\ Len(s[i]) \in Nat
        /\ at[i - 1] + 3 + Len(s[i]) <= L /\ s2[i] = s[i]
    BY <1>6, <1>7
  <2>2. at2[i] = at[i] /\ at2[i - 1] = at[i - 1]
    <3>1. i \in Nat /\ i - 1 \in Nat /\ i <= k /\ i - 1 <= k
      BY <1>2
    <3> QED
      BY <1>8, <3>1
  <2>3. \A p \in Nat : p <= 3 + Len(s[i]) => S2[at[i - 1] + p] = S[at[i - 1] + p]
    <3>1. ASSUME NEW p \in Nat, p <= 3 + Len(s[i])
          PROVE  at[i - 1] + p \in Nat /\ at[i - 1] + p <= L
      BY <1>3, <2>1, <3>1, SMTT(40)
    <3> QED
      BY <1>10, <3>1
  <2>4. /\ S2[at[i - 1] + 1] = S[at[i - 1] + 1]
        /\ S2[at[i - 1] + 2] = S[at[i - 1] + 2]
        /\ S2[at[i - 1] + 3] = S[at[i - 1] + 3]
    BY <2>1, <2>3
  <2>5. ASSUME NEW p \in 1 .. Len(s[i])
        PROVE  S2[at[i - 1] + 3 + p] = S[at[i - 1] + 3 + p]
    <3>1. 3 + p \in Nat /\ 3 + p <= 3 + Len(s[i]) /\ at[i - 1] + (3 + p) = at[i - 1] + 3 + p
      BY <2>1, SMTT(40)
    <3> QED
      BY <2>3, <3>1
  <2> QED
    BY <2>1, <2>2, <2>4, <2>5 DEF FrameAt
<1>15. FrameAt(s2, S2, at2, k + 1)
  <2>1. (k + 1) - 1 = k /\ at2[k] = L
    BY <1>2, <1>8 DEF L
  <2> QED
    BY <1>6, <1>9, <1>11, <1>12, <2>1 DEF FrameAt, lenBytes
<1>16. Encoded(s2, S2, at2)
  <2>1. at2[0] = 0
    BY <1>1, <1>2, <1>8
  <2>2. \A i \in 1 .. k + 1 : FrameAt(s2, S2, at2, i)
    <3>1. \A i \in 1 .. k + 1 : i \in 1 .. k \/ i = k + 1
      BY <1>2
    <3> QED
      BY <1>14, <1>15, <3>1
  <2> QED
    BY <1>6, <1>8, <1>13, <2>1, <2>2 DEF Encoded
<1> QED
  BY <1>8, <1>9, <1>10, <1>16 DEF Longer, k, L, s2

\* When a piece arrives, or the front of one that may be cut, the rest of the wire
\* follows in the stream.
LEMMA ArrivedPiece ==
    ASSUME "len" \notin Cuts,
           NEW s \in Seq(AnyMessage), NEW w \in Seq(Pieces), NEW S, NEW at, NEW to, NEW end,
           OnTheWire(s, w, S, at, to, end), NEW n \in Segments(w)
    PROVE  /\ to[0] \in Nat /\ n \in Nat
           /\ Holds(First(n, Head(w).bytes), S, to[0], to[0] + n)
           /\ \E to2 : OnTheWire(s, Taken(w, n), S, at, to2, end) /\ to2[0] = to[0] + n
<1> DEFINE p == w[1]
           q == Len(w)
<1>1. w # <<>> /\ Head(w) = p /\ p \in Pieces /\ n \in 0 .. Len(p.bytes)
  BY ArriveTypes
<1>2. p.bytes \in Seq(Byte) /\ Len(p.bytes) \in Nat /\ n \in Nat
  <2>1. p.bytes \in Seq(Byte)
    BY <1>1 DEF Pieces
  <2> QED
    BY <1>1, <2>1, LenProperties
<1>3. q \in Nat /\ q >= 1
  BY <1>1, EmptySeq, LenProperties
<1>4. /\ to \in [Nat -> Nat] /\ to[q] = end
      /\ \A i, j \in 0 .. q : i <= j => to[i] <= to[j]
      /\ \A i \in 0 .. q : Undivided(s, at, to[i])
  BY DEF OnTheWire
<1>5. \A i \in 1 .. q :
        /\ Holds(w[i].bytes, S, to[i - 1], to[i])
        /\ w[i].kind # "len" => \A a \in to[i - 1] .. to[i] : Undivided(s, at, a)
  BY DEF OnTheWire
<1>6. /\ Holds(p.bytes, S, to[0], to[1])
      /\ p.kind # "len" => \A a \in to[0] .. to[1] : Undivided(s, at, a)
  <2>1. 1 \in 1 .. q /\ 1 - 1 = 0
    BY <1>3
  <2> QED
    BY <1>5, <2>1
<1>7. to[0] \in Nat /\ to[1] \in Nat /\ Len(p.bytes) = to[1] - to[0]
  BY <1>4, <1>6 DEF Holds
<1>8. /\ Holds(First(n, p.bytes), S, to[0], to[0] + n)
      /\ Holds(Rest(n, p.bytes), S, to[0] + n, to[1])
  BY <1>1, <1>2, <1>6, <1>7, HoldsParts
<1>9. CASE n = Len(p.bytes)
  <2> DEFINE to2 == [i \in Nat |-> to[i + 1]]
             w2 == Tail(w)
  <2>1. Taken(w, n) = w2
    BY <1>1, <1>9 DEF Taken
  <2>2. Len(w2) = q - 1 /\ \A i \in 1 .. q - 1 : w2[i] = w[i + 1]
    BY <1>1, <1>3
  <2>3. /\ to2 \in [Nat -> Nat] /\ \A i \in Nat : to2[i] = to[i + 1]
    BY <1>4
  <2> HIDE DEF to2, w2, p, q
  <2>4. to2[0] = to[0] + n /\ to2[q - 1] = end
    <3>1. q - 1 \in Nat /\ (q - 1) + 1 = q /\ 0 + 1 = 1
      BY <1>3
    <3>2. to2[0] = to[1] /\ to2[q - 1] = to[q]
      BY <2>3, <3>1
    <3> QED
      BY <1>4, <1>7, <1>9, <3>2
  <2>5. ASSUME NEW i \in 0 .. q - 1, NEW j \in 0 .. q - 1, i <= j
        PROVE  to2[i] <= to2[j]
    <3>1. i + 1 \in 0 .. q /\ j + 1 \in 0 .. q /\ i + 1 <= j + 1 /\ i \in Nat /\ j \in Nat
      BY <1>3, <2>5
    <3> QED
      BY <1>4, <2>3, <3>1
  <2>6. ASSUME NEW i \in 0 .. q - 1 PROVE Undivided(s, at, to2[i])
    <3>1. i + 1 \in 0 .. q /\ i \in Nat
      BY <1>3
    <3> QED
      BY <1>4, <2>3, <3>1
  <2>7. ASSUME NEW i \in 1 .. q - 1
        PROVE  /\ Holds(w2[i].bytes, S, to2[i - 1], to2[i])
               /\ w2[i].kind # "len" => \A a \in to2[i - 1] .. to2[i] : Undivided(s, at, a)
    <3>1. i + 1 \in 1 .. q /\ i \in Nat /\ i - 1 \in Nat /\ (i - 1) + 1 = i /\ (i + 1) - 1 = i
      BY <1>3
    <3>2. to2[i - 1] = to[i] /\ to2[i] = to[i + 1] /\ w2[i] = w[i + 1]
      BY <2>2, <2>3, <3>1
    <3>3. /\ Holds(w[i + 1].bytes, S, to[i], to[i + 1])
          /\ w[i + 1].kind # "len" => \A a \in to[i] .. to[i + 1] : Undivided(s, at, a)
      BY <1>5, <3>1
    <3> QED
      BY <3>2, <3>3
  <2>8. OnTheWire(s, w2, S, at, to2, end)
    BY <2>2, <2>3, <2>4, <2>5, <2>6, <2>7 DEF OnTheWire
  <2> QED
    BY <1>1, <1>2, <1>7, <1>8, <2>1, <2>4, <2>8
<1>10. CASE n # Len(p.bytes)
  <2> DEFINE to2 == [i \in Nat |-> IF i = 0 THEN to[0] + n ELSE to[i]]
             w2 == <<Piece(p.kind, Rest(n, p.bytes))>> \o Tail(w)
  <2>1. Taken(w, n) = w2
    BY <1>1, <1>10 DEF Taken
  <2>2. p.kind # "len"
    BY <1>1, <1>10 DEF Segments
  <2>3. Len(w2) = q /\ w2[1] = Piece(p.kind, Rest(n, p.bytes)) /\ \A i \in 2 .. q : w2[i] = w[i]
    <3>1. Piece(p.kind, Rest(n, p.bytes)) \in Pieces
      <4>1. Rest(n, p.bytes) \in Seq(Byte)
        BY <1>1, <1>2, Parts
      <4> QED
        BY <1>1, <4>1 DEF Piece, Pieces
    <3> DEFINE x == Piece(p.kind, Rest(n, p.bytes))
    <3>2. <<x>> \in Seq(Pieces) /\ Len(<<x>>) = 1 /\ <<x>>[1] = x
      BY <3>1
    <3>3. Tail(w) \in Seq(Pieces) /\ Len(Tail(w)) = q - 1
          /\ \A i \in 1 .. q - 1 : Tail(w)[i] = w[i + 1]
      BY <1>1, <1>3
    <3> HIDE DEF x, q
    <3>4. /\ Len(<<x>> \o Tail(w)) = 1 + (q - 1)
          /\ \A i \in 1 .. 1 + (q - 1) :
                (<<x>> \o Tail(w))[i] = IF i <= 1 THEN <<x>>[i] ELSE Tail(w)[i - 1]
      BY <3>2, <3>3, ConcatProperties
    <3>5. /\ Len(<<x>> \o Tail(w)) = q /\ (<<x>> \o Tail(w))[1] = x
      BY <1>3, <3>2, <3>4
    <3>6. ASSUME NEW i \in 2 .. q PROVE (<<x>> \o Tail(w))[i] = w[i]
      <4>1. i \in 1 .. 1 + (q - 1) /\ ~(i <= 1) /\ i - 1 \in 1 .. q - 1 /\ (i - 1) + 1 = i
        BY <1>3
      <4> QED
        BY <3>3, <3>4, <4>1
    <3> QED
      BY <3>5, <3>6 DEF x
  <2>4. to2[0] = to[0] + n /\ \A i \in Nat : i > 0 => to2[i] = to[i]
    BY <1>4
  <2>5. to2 \in [Nat -> Nat]
    <3>1. \A i \in Nat : to[i] \in Nat
      BY <1>4
    <3> HIDE DEF p, q
    <3>2. to[0] + n \in Nat
      BY <1>2, <1>7
    <3> QED
      BY <3>1, <3>2
  <2> HIDE DEF to2, w2, p, q
  <2>6. to[0] + n <= to[1]
    BY <1>1, <1>2, <1>7
  <2>7. to2[q] = end
    BY <1>3, <1>4, <2>4, SMTT(40)
  <2>8. ASSUME NEW i \in 0 .. q, NEW j \in 0 .. q, i <= j
        PROVE  to2[i] <= to2[j]
    <3>1. CASE i > 0
      <4>1. i \in Nat /\ j \in Nat /\ j > 0
        BY <1>3, <2>8, <3>1
      <4> QED
        BY <1>4, <2>4, <2>8, <3>1, <4>1
    <3>2. CASE i = 0 /\ j > 0
      <4>1. 1 \in 0 .. q /\ 1 <= j /\ j \in Nat
        BY <1>3, <3>2
      <4>2. to[1] <= to[j] /\ to2[j] = to[j] /\ to[j] \in Nat
        BY <1>4, <2>4, <3>2, <4>1
      <4> QED
        BY <1>2, <1>7, <2>4, <2>6, <3>2, <4>2
    <3>3. CASE i = 0 /\ j = 0
      BY <1>2, <1>7, <2>4, <3>3
    <3> QED
      BY <1>3, <2>8, <3>1, <3>2, <3>3
  <2>9. \A a \in to[0] .. to[1] : Undivided(s, at, a)
    BY <1>6, <2>2
  <2>10. ASSUME NEW i \in 0 .. q PROVE Undivided(s, at, to2[i])
    <3>1. CASE i = 0
      <4>1. to[0] + n \in to[0] .. to[1]
        BY <1>2, <1>7, <2>6
      <4> QED
        BY <2>4, <2>9, <3>1, <4>1
    <3>2. CASE i # 0
      <4>1. i \in Nat /\ i > 0
        BY <1>3, <3>2
      <4> QED
        BY <1>4, <2>4, <4>1
    <3> QED
      BY <3>1, <3>2
  <2>11. ASSUME NEW i \in 1 .. q
         PROVE  /\ Holds(w2[i].bytes, S, to2[i - 1], to2[i])
                /\ w2[i].kind # "len" => \A a \in to2[i - 1] .. to2[i] : Undivided(s, at, a)
    <3>1. CASE i = 1
      <4>1. to2[i - 1] = to[0] + n /\ to2[i] = to[1]
        BY <2>4, <3>1
      <4>2. w2[i].bytes = Rest(n, p.bytes)
        BY <2>3, <3>1 DEF Piece
      <4>3. \A a \in to[0] + n .. to[1] : a \in to[0] .. to[1]
        BY <1>2, <1>7
      <4> QED
        BY <1>8, <2>9, <4>1, <4>2, <4>3
    <3>2. CASE i # 1
      <4>1. i \in 2 .. q /\ i \in Nat /\ i > 0 /\ i - 1 \in Nat /\ i - 1 > 0
        BY <1>3, <3>2
      <4>2. to2[i - 1] = to[i - 1] /\ to2[i] = to[i] /\ w2[i] = w[i]
        BY <2>3, <2>4, <4>1
      <4> QED
        BY <1>5, <4>2
    <3> QED
      BY <3>1, <3>2
  <2>12. OnTheWire(s, w2, S, at, to2, end)
    BY <2>3, <2>5, <2>7, <2>8, <2>10, <2>11 DEF OnTheWire
  <2> QED
    BY <1>1, <1>2, <1>7, <1>8, <2>1, <2>4, <2>12
<1> QED
  BY <1>9, <1>10

LEMMA WireType ==
    ASSUME NEW s, NEW w \in Seq(Pieces), NEW S, NEW at, NEW to, NEW end,
           OnTheWire(s, w, S, at, to, end)
    PROVE  /\ Len(w) \in Nat /\ to \in [Nat -> Nat] /\ to[Len(w)] = end
           /\ \A i \in 0 .. Len(w) : to[i] \in Nat /\ to[i] <= end
           /\ Undivided(s, at, to[0])
<1>1. Len(w) \in Nat
  BY LenProperties
<1>2. /\ to \in [Nat -> Nat] /\ to[Len(w)] = end
      /\ \A i, j \in 0 .. Len(w) : i <= j => to[i] <= to[j]
      /\ \A i \in 0 .. Len(w) : Undivided(s, at, to[i])
  BY DEF OnTheWire
<1>3. ASSUME NEW i \in 0 .. Len(w) PROVE to[i] \in Nat /\ to[i] <= end
  <2>1. i \in Nat /\ Len(w) \in 0 .. Len(w) /\ i <= Len(w)
    BY <1>1
  <2> QED
    BY <1>2, <2>1
<1>4. 0 \in 0 .. Len(w)
  BY <1>1
<1> QED
  BY <1>1, <1>2, <1>3, <1>4

\* What is known of an older frame does not change when the stream gets longer.
LEMMA LongerWire ==
    ASSUME NEW s \in Seq(AnyMessage), NEW m \in AnyMessage, NEW w \in Seq(Pieces),
           NEW S, NEW at, NEW S2, NEW at2, NEW to, NEW end \in Nat,
           Encoded(s, S, at), Longer(s, m, S, at, S2, at2), end <= at[Len(s)],
           OnTheWire(s, w, S, at, to, end)
    PROVE  OnTheWire(Append(s, m), w, S2, at2, to, end)
<1> DEFINE k == Len(s)
           n == Len(w)
           L == at[k]
           s2 == Append(s, m)
<1>1. k \in Nat /\ L \in Nat
  BY LenProperties DEF Encoded
<1>2. Len(s2) = k + 1
  BY <1>1
<1>3. /\ n \in Nat /\ to \in [Nat -> Nat] /\ to[n] = end
      /\ \A i \in 0 .. n : to[i] \in Nat /\ to[i] <= end
  BY WireType
<1>4. \A i, j \in 0 .. n : i <= j => to[i] <= to[j]
  BY DEF OnTheWire
<1>5. \A i \in 0 .. n : Undivided(s, at, to[i])
  BY DEF OnTheWire
<1>6. \A i \in 1 .. n :
        /\ Holds(w[i].bytes, S, to[i - 1], to[i])
        /\ w[i].kind # "len" => \A p \in to[i - 1] .. to[i] : Undivided(s, at, p)
  BY DEF OnTheWire
<1>7. /\ at2[k] = L
      /\ \A i \in Nat : i <= k => at2[i] = at[i]
      /\ \A p \in Nat : p <= L => S2[p] = S[p]
  BY <1>1 DEF Longer
<1>8. end <= L
  OBVIOUS
<1> HIDE DEF k, n, L, s2
<1>9. ASSUME NEW p \in Nat, Undivided(s, at, p), p <= L
      PROVE  Undivided(s2, at2, p)
  <2>1. ASSUME NEW i \in 1 .. k + 1 PROVE p # at2[i - 1] + 2
    <3>1. CASE i = k + 1
      <4>1. at2[i - 1] = L
        BY <1>1, <1>7, <3>1
      <4> QED
        BY <1>1, <1>9, <4>1
    <3>2. CASE i # k + 1
      <4>1. i \in 1 .. k /\ i - 1 \in Nat /\ i - 1 <= k
        BY <1>1, <3>2
      <4>2. at2[i - 1] = at[i - 1]
        BY <1>7, <4>1
      <4> QED
        BY <1>9, <4>1, <4>2 DEF Undivided, k
    <3> QED
      BY <3>1, <3>2
  <2> QED
    BY <1>2, <2>1 DEF Undivided
<1>10. ASSUME NEW i \in 0 .. n PROVE to[i] \in Nat /\ to[i] <= L
  <2>1. to[i] \in Nat /\ to[i] <= end
    BY <1>3
  <2> QED
    BY <1>1, <1>8, <2>1
<1>11. \A i \in 0 .. n : Undivided(s2, at2, to[i])
  BY <1>5, <1>9, <1>10
<1>12. ASSUME NEW i \in 1 .. n
       PROVE  /\ Holds(w[i].bytes, S2, to[i - 1], to[i])
              /\ w[i].kind # "len" => \A p \in to[i - 1] .. to[i] : Undivided(s2, at2, p)
  <2>1. i \in 0 .. n /\ i - 1 \in 0 .. n
    BY <1>3
  <2>2. to[i] \in Nat /\ to[i - 1] \in Nat /\ to[i] <= L
    BY <1>10, <2>1
  <2>3. /\ Holds(w[i].bytes, S, to[i - 1], to[i])
        /\ w[i].kind # "len" => \A p \in to[i - 1] .. to[i] : Undivided(s, at, p)
    BY <1>6
  <2>4. ASSUME NEW p \in 1 .. to[i] - to[i - 1]
        PROVE  S2[to[i - 1] + p] = S[to[i - 1] + p]
    <3>1. to[i - 1] + p \in Nat /\ to[i - 1] + p <= L
      BY <1>1, <2>2
    <3> QED
      BY <1>7, <3>1
  <2>5. Holds(w[i].bytes, S2, to[i - 1], to[i])
    BY <2>3, <2>4 DEF Holds
  <2>6. ASSUME w[i].kind # "len", NEW p \in to[i - 1] .. to[i]
        PROVE  Undivided(s2, at2, p)
    <3>1. p \in Nat /\ p <= L
      BY <1>1, <2>2
    <3> QED
      BY <1>9, <2>3, <2>6, <3>1
  <2> QED
    BY <2>5, <2>6
<1> QED
  BY <1>3, <1>4, <1>11, <1>12 DEF OnTheWire, n, s2

\* Bytes that are no length may be cut anywhere between a and b.
Cuttable(s, at, kind, a, b) ==
    kind # "len" => \A p \in a .. b : Undivided(s, at, p)

\* A piece more is sent.
LEMMA PiecePut ==
    ASSUME NEW s, NEW w \in Seq(Pieces), NEW S, NEW at, NEW to,
           NEW end \in Nat, NEW end2 \in Nat, end <= end2,
           OnTheWire(s, w, S, at, to, end),
           NEW kind \in Kinds, NEW bytes \in Seq(Byte),
           Holds(bytes, S, end, end2), Undivided(s, at, end2),
           Cuttable(s, at, kind, end, end2)
    PROVE  /\ Append(w, Piece(kind, bytes)) \in Seq(Pieces)
           /\ \E to2 : /\ OnTheWire(s, Append(w, Piece(kind, bytes)), S, at, to2, end2)
                       /\ to2[0] = to[0]
<1> DEFINE n == Len(w)
           x == Piece(kind, bytes)
           w2 == Append(w, x)
           to2 == [i \in Nat |-> IF i <= n THEN to[i] ELSE end2]
<1>1. x \in Pieces /\ x.bytes = bytes /\ x.kind = kind
  BY DEF Piece, Pieces
<1>2. w2 \in Seq(Pieces) /\ Len(w2) = n + 1
  BY <1>1, AppendProperties
<1>3. /\ n \in Nat /\ to \in [Nat -> Nat] /\ to[n] = end
      /\ \A i \in 0 .. n : to[i] \in Nat /\ to[i] <= end
  BY WireType
<1>4. \A i, j \in 0 .. n : i <= j => to[i] <= to[j]
  BY DEF OnTheWire
<1>5. \A i \in 0 .. n : Undivided(s, at, to[i])
  BY DEF OnTheWire
<1>6. \A i \in 1 .. n :
        /\ Holds(w[i].bytes, S, to[i - 1], to[i])
        /\ w[i].kind # "len" => \A p \in to[i - 1] .. to[i] : Undivided(s, at, p)
  BY DEF OnTheWire
<1>7. w2[n + 1] = x /\ \A i \in 1 .. n : w2[i] = w[i]
  BY <1>1, <1>3
<1> HIDE DEF n, x, w2
<1>8. /\ \A i \in Nat : i <= n => to2[i] = to[i]
      /\ to2[n + 1] = end2
  BY <1>3
<1>9. to2 \in [Nat -> Nat]
  <2>1. \A i \in Nat : to[i] \in Nat
    BY <1>3
  <2> QED
    BY <2>1
<1> HIDE DEF to2
<1>10. ASSUME NEW i \in 0 .. n
       PROVE  i \in Nat /\ to2[i] = to[i] /\ to[i] \in Nat /\ to[i] <= end
  <2>1. i \in Nat /\ i <= n
    BY <1>3
  <2>2. to[i] \in Nat /\ to[i] <= end
    BY <1>3
  <2> QED
    BY <1>8, <2>1, <2>2
<1>11. ASSUME NEW i \in 0 .. n + 1, NEW j \in 0 .. n + 1, i <= j
       PROVE  to2[i] <= to2[j]
  <2>1. CASE j \in 0 .. n
    <3>1. i \in 0 .. n
      BY <1>3, <1>11, <2>1
    <3> QED
      BY <1>4, <1>10, <1>11, <2>1, <3>1
  <2>2. CASE i \in 0 .. n /\ j = n + 1
    <3>1. to2[i] \in Nat /\ to2[i] <= end /\ to2[j] = end2
      BY <1>8, <1>10, <2>2
    <3> QED
      BY <3>1
  <2>3. CASE i = n + 1 /\ j = n + 1
    BY <1>8, <2>3
  <2> QED
    BY <1>3, <1>11, <2>1, <2>2, <2>3
<1>12. ASSUME NEW i \in 0 .. n + 1 PROVE Undivided(s, at, to2[i])
  <2>1. CASE i \in 0 .. n
    BY <1>5, <1>10, <2>1
  <2>2. CASE i = n + 1
    BY <1>8, <2>2
  <2> QED
    BY <1>3, <2>1, <2>2
<1>13. ASSUME NEW i \in 1 .. n + 1
       PROVE  /\ Holds(w2[i].bytes, S, to2[i - 1], to2[i])
              /\ w2[i].kind # "len" => \A p \in to2[i - 1] .. to2[i] : Undivided(s, at, p)
  <2>1. CASE i \in 1 .. n
    <3>1. i \in 0 .. n /\ i - 1 \in 0 .. n
      BY <1>3, <2>1
    <3>2. to2[i] = to[i] /\ to2[i - 1] = to[i - 1] /\ w2[i] = w[i]
      BY <1>7, <1>10, <2>1, <3>1
    <3> QED
      BY <1>6, <2>1, <3>2
  <2>2. CASE i = n + 1
    <3>1. n \in 0 .. n /\ i - 1 = n
      BY <1>3, <2>2
    <3>2. to2[i] = end2 /\ to2[i - 1] = end /\ w2[i] = x
      BY <1>3, <1>7, <1>8, <1>10, <2>2, <3>1
    <3> QED
      BY <1>1, <3>2 DEF Cuttable
  <2> QED
    BY <1>3, <2>1, <2>2
<1>14. OnTheWire(s, w2, S, at, to2, end2)
  BY <1>2, <1>8, <1>9, <1>11, <1>12, <1>13 DEF OnTheWire
<1>15. to2[0] = to[0]
  BY <1>3, <1>10
<1> QED
  BY <1>2, <1>14, <1>15 DEF w2, x

-----------------------------------------------------------------------------
(* What the network and a writer do to the stream in transit. *)

LEMMA NetworkKeeps ==
    ASSUME "len" \notin Cuts,
           NEW s \in Seq(AnyMessage), NEW w \in Seq(Pieces), NEW rx \in Seq(Byte),
           NEW S, NEW at, NEW pos, NEW end, InTransit(s, w, rx, S, at, pos, end),
           NEW n \in Segments(w)
    PROVE  InTransit(s, Taken(w, n), rx \o First(n, Head(w).bytes), S, at, pos, end)
<1>1. PICK to : OnTheWire(s, w, S, at, to, end) /\ Holds(rx, S, pos, to[0])
  BY DEF InTransit
<1>2. /\ to[0] \in Nat /\ n \in Nat
      /\ Holds(First(n, Head(w).bytes), S, to[0], to[0] + n)
      /\ \E to2 : OnTheWire(s, Taken(w, n), S, at, to2, end) /\ to2[0] = to[0] + n
  BY <1>1, ArrivedPiece
<1>3. PICK to2 : OnTheWire(s, Taken(w, n), S, at, to2, end) /\ to2[0] = to[0] + n
  BY <1>2
<1>4. First(n, Head(w).bytes) \in Seq(Byte)
  BY ArriveTypes
<1>5. pos \in Nat /\ to[0] + n \in Nat
  BY <1>2 DEF InTransit
<1>6. Holds(rx \o First(n, Head(w).bytes), S, pos, to2[0])
  BY <1>1, <1>2, <1>3, <1>4, <1>5, HoldsConcat
<1> QED
  BY <1>3, <1>6 DEF InTransit

LEMMA WriterGiven ==
    ASSUME NEW s \in Seq(AnyMessage), NEW m \in AnyMessage, NEW w \in Seq(Pieces),
           NEW rx \in Seq(Byte), NEW S, NEW at, NEW S2, NEW at2, NEW pos, NEW end,
           InTransit(s, w, rx, S, at, pos, end), Longer(s, m, S, at, S2, at2)
    PROVE  InTransit(Append(s, m), w, rx, S2, at2, pos, end)
<1>1. /\ Encoded(s, S, at) /\ pos \in Nat /\ end \in Nat /\ end <= at[Len(s)]
  BY DEF InTransit
<1>2. PICK to : OnTheWire(s, w, S, at, to, end) /\ Holds(rx, S, pos, to[0])
  BY DEF InTransit
<1>3. OnTheWire(Append(s, m), w, S2, at2, to, end)
  BY <1>1, <1>2, LongerWire
<1>4. to[0] \in Nat /\ to[0] <= end
  <2>1. Len(w) \in Nat /\ \A i \in 0 .. Len(w) : to[i] \in Nat /\ to[i] <= end
    BY <1>2, WireType
  <2>2. 0 \in 0 .. Len(w)
    BY <2>1
  <2> QED
    BY <2>1, <2>2
<1>5. Len(s) \in Nat /\ at[Len(s)] \in Nat /\ Len(m) \in Nat
  BY <1>1, LenProperties, MessageType DEF Encoded
<1>6. Holds(rx, S2, pos, to[0])
  <2>1. ASSUME NEW p \in 1 .. to[0] - pos PROVE S2[pos + p] = S[pos + p]
    <3>1. pos + p \in Nat /\ pos + p <= at[Len(s)]
      BY <1>1, <1>4, <1>5
    <3> QED
      BY <3>1 DEF Longer
  <2> QED
    BY <1>2, <2>1 DEF Holds
<1>7. end <= at2[Len(Append(s, m))]
  <2>1. Len(Append(s, m)) = Len(s) + 1
    BY <1>5
  <2>2. at2[Len(s) + 1] = at[Len(s)] + 3 + Len(m)
    BY DEF Longer
  <2> QED
    BY <1>1, <1>5, <2>1, <2>2
<1> QED
  BY <1>1, <1>3, <1>6, <1>7 DEF InTransit, Longer

LEMMA WriterPuts ==
    ASSUME NEW s \in Seq(AnyMessage), NEW w \in Seq(Pieces), NEW rx \in Seq(Byte),
           NEW S, NEW at, NEW pos, NEW end, InTransit(s, w, rx, S, at, pos, end),
           NEW end2 \in Nat, end <= end2, end2 <= at[Len(s)],
           NEW kind \in Kinds, NEW bytes \in Seq(Byte),
           Holds(bytes, S, end, end2), Undivided(s, at, end2),
           Cuttable(s, at, kind, end, end2)
    PROVE  /\ Append(w, Piece(kind, bytes)) \in Seq(Pieces)
           /\ InTransit(s, Append(w, Piece(kind, bytes)), rx, S, at, pos, end2)
<1>1. PICK to : OnTheWire(s, w, S, at, to, end) /\ Holds(rx, S, pos, to[0])
  BY DEF InTransit
<1>2. end \in Nat
  BY DEF InTransit
<1>3. /\ Append(w, Piece(kind, bytes)) \in Seq(Pieces)
      /\ \E to2 : /\ OnTheWire(s, Append(w, Piece(kind, bytes)), S, at, to2, end2)
                  /\ to2[0] = to[0]
  BY <1>1, <1>2, PiecePut
<1> QED
  BY <1>1, <1>3 DEF InTransit

-----------------------------------------------------------------------------
(* What was not written yet may still change: the last message, in so far   *)
(* as nothing of its length, or not the rest of it, has left.               *)

\* Two streams agree in their first n bytes.
SameUpTo(S, S2, n) == \A p \in Nat : p <= n => S2[p] = S[p]

LEMMA SameWire ==
    ASSUME NEW s \in Seq(AnyMessage), NEW s2, NEW w \in Seq(Pieces),
           NEW S, NEW S2, NEW at, NEW at2, NEW to, NEW end \in Nat,
           OnTheWire(s, w, S, at, to, end), SameUpTo(S, S2, end),
           NEW k \in Nat, Len(s) = k + 1, Len(s2) = k + 1,
           \A i \in Nat : i <= k => at2[i] = at[i]
    PROVE  OnTheWire(s2, w, S2, at2, to, end)
<1>1. /\ Len(w) \in Nat /\ to \in [Nat -> Nat] /\ to[Len(w)] = end
      /\ \A i \in 0 .. Len(w) : to[i] \in Nat /\ to[i] <= end
  <2>1. OnTheWire(s, w, S, at, to, end)
    OBVIOUS
  <2>2. \A i \in 0 .. Len(w) : to[i] \in Nat /\ to[i] <= end
    BY <2>1, WireType
  <2>3. Len(w) \in Nat
    BY LenProperties
  <2> QED
    BY <2>1, <2>2, <2>3 DEF OnTheWire
<1>2. /\ \A i, j \in 0 .. Len(w) : i <= j => to[i] <= to[j]
      /\ \A i \in 0 .. Len(w) : Undivided(s, at, to[i])
      /\ \A i \in 1 .. Len(w) :
            /\ Holds(w[i].bytes, S, to[i - 1], to[i])
            /\ w[i].kind # "len" => \A p \in to[i - 1] .. to[i] : Undivided(s, at, p)
  BY DEF OnTheWire
<1>3. ASSUME NEW p, Undivided(s, at, p) PROVE Undivided(s2, at2, p)
  <2>1. ASSUME NEW i \in 1 .. k + 1 PROVE p # at2[i - 1] + 2
    <3>1. i - 1 \in Nat /\ i - 1 <= k
      OBVIOUS
    <3>2. at2[i - 1] = at[i - 1]
      BY <3>1
    <3> QED
      BY <1>3, <3>2 DEF Undivided
  <2> QED
    BY <2>1 DEF Undivided
<1>4. ASSUME NEW i \in 1 .. Len(w) PROVE Holds(w[i].bytes, S2, to[i - 1], to[i])
  <2>1. i \in 0 .. Len(w) /\ i - 1 \in 0 .. Len(w)
    BY <1>1
  <2>2. to[i] \in Nat /\ to[i - 1] \in Nat /\ to[i] <= end
    BY <1>1, <2>1
  <2>3. ASSUME NEW p \in 1 .. to[i] - to[i - 1]
        PROVE  S2[to[i - 1] + p] = S[to[i - 1] + p]
    <3>1. to[i - 1] + p \in Nat /\ to[i - 1] + p <= end
      BY <2>2
    <3> QED
      BY <3>1 DEF SameUpTo
  <2>4. Holds(w[i].bytes, S, to[i - 1], to[i])
    BY <1>2
  <2> QED
    BY <2>3, <2>4 DEF Holds
<1> QED
  BY <1>1, <1>2, <1>3, <1>4 DEF OnTheWire

\* What was read ends before what was written does.
LEMMA ReadIsWritten ==
    ASSUME NEW s, NEW w \in Seq(Pieces), NEW rx \in Seq(Byte),
           NEW S, NEW at, NEW pos, NEW end, InTransit(s, w, rx, S, at, pos, end)
    PROVE  pos \in Nat /\ end \in Nat /\ pos <= end
<1>1. PICK to : OnTheWire(s, w, S, at, to, end) /\ Holds(rx, S, pos, to[0])
  BY DEF InTransit
<1>2. Len(w) \in Nat /\ \A i \in 0 .. Len(w) : to[i] \in Nat /\ to[i] <= end
  BY <1>1, WireType
<1>3. to[0] \in Nat /\ to[0] <= end
  <2>1. 0 \in 0 .. Len(w)
    BY <1>2
  <2> QED
    BY <1>2, <2>1
<1>4. pos \in Nat /\ end \in Nat
  BY DEF InTransit
<1>5. Len(rx) \in Nat /\ Len(rx) = to[0] - pos
  BY <1>1, LenProperties DEF Holds
<1> QED
  BY <1>3, <1>4, <1>5

\* m may take the place of a message of which no more than the header, or d bytes
\* that m has too, were written.
Replaces(m, f, L, end) ==
    \/ end <= L + 1
    \/ Len(m) = Len(f) /\ \A p \in 1 .. Len(m) : L + 3 + p <= end => m[p] = f[p]

\* The sequence s2 is s but for its last message.
ButForLast(s, s2, k, m) ==
    /\ s2 \in Seq(AnyMessage) /\ Len(s2) = k + 1 /\ s2[k + 1] = m
    /\ \A i \in 1 .. k : s2[i] = s[i]

LEMMA Retold ==
    ASSUME NEW s \in Seq(AnyMessage), NEW w \in Seq(Pieces), NEW rx \in Seq(Byte),
           NEW S, NEW at, NEW pos, NEW end, InTransit(s, w, rx, S, at, pos, end),
           NEW k \in Nat, Len(s) = k + 1, NEW m \in AnyMessage,
           Replaces(m, s[k + 1], at[k], end)
    PROVE  \E s2, S2, at2 : /\ ButForLast(s, s2, k, m)
                            /\ InTransit(s2, w, rx, S2, at2, pos, end)
                            /\ \A i \in Nat : i <= k => at2[i] = at[i]
<1> DEFINE L == at[k]
           s1 == First(k, s)
           s2 == Append(s1, m)
<1>1. Encoded(s, S, at) /\ pos \in Nat /\ end \in Nat /\ end <= at[k + 1]
  BY DEF InTransit
<1>2. s1 \in Seq(AnyMessage) /\ Len(s1) = k /\ \A i \in 1 .. k : s1[i] = s[i]
  <2>1. s \in [1 .. k + 1 -> AnyMessage]
    BY LenProperties
  <2>2. s1 = [i \in 1 .. k |-> s[i]]
    BY <2>1 DEF First
  <2>3. s1 \in [1 .. k -> AnyMessage]
    BY <2>1, <2>2
  <2> QED
    BY <2>2, <2>3
<1>3. ButForLast(s, s2, k, m)
  <2>1. /\ s2 \in Seq(AnyMessage) /\ Len(s2) = k + 1 /\ s2[k + 1] = m
        /\ \A i \in 1 .. k : s2[i] = s1[i]
    <3> HIDE DEF s1
    <3> QED
      BY <1>2, AppendProperties
  <2> QED
    BY <1>2, <2>1 DEF ButForLast
<1> HIDE DEF s1
<1>4. Encoded(s1, S, at)
  <2>1. ASSUME NEW i \in 1 .. k PROVE FrameAt(s1, S, at, i)
    <3>1. i \in 1 .. k + 1
      OBVIOUS
    <3>2. FrameAt(s, S, at, i)
      BY <1>1, <3>1 DEF Encoded
    <3> QED
      BY <1>2, <3>2 DEF FrameAt
  <2>2. \A i, j \in 0 .. k : i < j => at[i] + 3 <= at[j]
    <3>1. \A i \in 0 .. k : i \in 0 .. k + 1
      OBVIOUS
    <3> QED
      BY <1>1, <3>1 DEF Encoded
  <2> QED
    BY <1>1, <1>2, <2>1, <2>2 DEF Encoded
<1>5. PICK S2, at2 : Longer(s1, m, S, at, S2, at2)
  BY <1>2, <1>4, SentStream
<1>6. /\ Encoded(s2, S2, at2) /\ at2[k + 1] = L + 3 + Len(m)
      /\ \A i \in Nat : i <= k => at2[i] = at[i]
      /\ \A p \in Nat : p <= L => S2[p] = S[p]
  BY <1>2, <1>5 DEF Longer
<1> HIDE DEF s2
<1>7. L \in Nat /\ Len(m) \in Nat /\ Len(s[k + 1]) \in Nat
  <2>1. k + 1 \in 1 .. Len(s)
    OBVIOUS
  <2>2. s[k + 1] \in AnyMessage
    BY <2>1, ElementOfSeq
  <2> QED
    BY <1>1, <2>2, MessageType, LenProperties DEF Encoded
<1> DEFINE f == s[k + 1]
<1>8. /\ at[k + 1] = L + 3 + Len(f) /\ S[L + 1] = Header
      /\ S[L + 2] = Memory(Swap(Len(f)))[1] /\ S[L + 3] = Memory(Swap(Len(f)))[2]
      /\ \A p \in 1 .. Len(f) : S[L + 3 + p] = f[p]
  <2>1. FrameAt(s, S, at, k + 1) /\ (k + 1) - 1 = k
    BY <1>1 DEF Encoded
  <2> QED
    BY <2>1 DEF FrameAt
<1>9. /\ S2[L + 1] = Header
      /\ S2[L + 2] = Memory(Swap(Len(m)))[1] /\ S2[L + 3] = Memory(Swap(Len(m)))[2]
      /\ \A p \in 1 .. Len(m) : S2[L + 3 + p] = m[p]
  <2>3. Len(s2) = k + 1 /\ s2[k + 1] = m
    BY <1>3 DEF ButForLast
  <2>1. k + 1 \in 1 .. Len(s2) /\ (k + 1) - 1 = k /\ k <= k /\ s2[k + 1] = m
    BY <2>3
  <2>2. FrameAt(s2, S2, at2, k + 1) /\ at2[k] = L
    BY <1>6, <2>1 DEF Encoded
  <2> QED
    BY <2>1, <2>2 DEF FrameAt
<1> HIDE DEF L, f
<1>10. SameUpTo(S, S2, end) /\ end <= at2[k + 1]
  <2>1. CASE end <= L + 1
    <3>1. ASSUME NEW p \in Nat, p <= end PROVE S2[p] = S[p]
      <4>1. p <= L \/ p = L + 1
        BY <1>1, <1>7, <2>1, <3>1
      <4> QED
        BY <1>6, <1>8, <1>9, <3>1, <4>1
    <3>2. end <= at2[k + 1]
      BY <1>1, <1>6, <1>7, <2>1
    <3> QED
      BY <3>1, <3>2 DEF SameUpTo
  <2>2. CASE /\ Len(m) = Len(f)
             /\ \A p \in 1 .. Len(m) : L + 3 + p <= end => m[p] = f[p]
    <3>1. ASSUME NEW p \in Nat, p <= end PROVE S2[p] = S[p]
      <4>1. CASE p <= L + 3
        <5>1. p <= L \/ p = L + 1 \/ p = L + 2 \/ p = L + 3
          BY <1>7, <3>1, <4>1
        <5> QED
          BY <1>6, <1>8, <1>9, <2>2, <3>1, <5>1
      <4>2. CASE p > L + 3
        <5>1. PICK q \in Nat : q = p - L - 3
          BY <1>7, <3>1, <4>2
        <5>2. q \in 1 .. Len(m) /\ L + 3 + q = p
          BY <1>1, <1>7, <1>8, <2>2, <3>1, <4>2, <5>1
        <5> QED
          BY <1>8, <1>9, <2>2, <3>1, <5>2
      <4> QED
        BY <1>7, <3>1, <4>1, <4>2
    <3>2. end <= at2[k + 1]
      BY <1>1, <1>6, <1>8, <2>2
    <3> QED
      BY <3>1, <3>2 DEF SameUpTo
  <2> QED
    BY <2>1, <2>2 DEF Replaces, L, f
<1>11. PICK to : OnTheWire(s, w, S, at, to, end) /\ Holds(rx, S, pos, to[0])
  BY DEF InTransit
<1>12. Len(s2) = k + 1
  BY <1>3 DEF ButForLast
<1>13. OnTheWire(s2, w, S2, at2, to, end)
  BY <1>1, <1>6, <1>10, <1>11, <1>12, SameWire
<1>14. Holds(rx, S2, pos, to[0])
  <2>1. Len(w) \in Nat /\ \A i \in 0 .. Len(w) : to[i] \in Nat /\ to[i] <= end
    BY <1>11, WireType
  <2>2. to[0] \in Nat /\ to[0] <= end
    <3>1. 0 \in 0 .. Len(w)
      BY <2>1
    <3> QED
      BY <2>1, <3>1
  <2>3. ASSUME NEW p \in 1 .. to[0] - pos PROVE S2[pos + p] = S[pos + p]
    <3>1. pos + p \in Nat /\ pos + p <= end
      BY <1>1, <2>2
    <3> QED
      BY <1>10, <3>1 DEF SameUpTo
  <2> QED
    BY <1>11, <2>3 DEF Holds
<1>15. InTransit(s2, w, rx, S2, at2, pos, end)
  BY <1>1, <1>6, <1>10, <1>12, <1>13, <1>14 DEF InTransit
<1> QED
  BY <1>3, <1>6, <1>15

-----------------------------------------------------------------------------
(* What a reader finds in the stream in transit: a header, both bytes of a  *)
(* length, and the message.                                                 *)

\* x is what was read of the message f.
Begins(x, f) == Len(x) <= Len(f) /\ \A p \in 1 .. Len(x) : x[p] = f[p]

\* The message behind the first k, and the position d bytes into its frame.
Message(s, k) == s[k + 1]
Ahead(at, k, d, pos) == pos = at[k] + d

\* The position where x was read of that message.
Behind(at, k, x, pos) == pos = at[k] + (3 + Len(x))

\* The message f is longer than x by n bytes or more.
Misses(x, n, f) == Len(x) + n <= Len(f)

\* The frame a reader comes to.
LEMMA NextFrame ==
    ASSUME NEW s \in Seq(AnyMessage), NEW S, NEW at, Encoded(s, S, at),
           NEW k \in Nat, k < Len(s)
    PROVE  /\ s[k + 1] \in Seq(Byte) /\ Len(s[k + 1]) \in 0 .. Base * Base - 1
           /\ Len(s[k + 1]) \in Nat /\ at[k] \in Nat /\ at[Len(s)] \in Nat
           /\ at[k + 1] = at[k] + 3 + Len(s[k + 1])
           /\ at[k] + 3 + Len(s[k + 1]) <= at[Len(s)]
           /\ S[at[k] + 1] = Header
           /\ S[at[k] + 2] = Memory(Swap(Len(s[k + 1])))[1]
           /\ S[at[k] + 3] = Memory(Swap(Len(s[k + 1])))[2]
           /\ \A p \in 1 .. Len(s[k + 1]) : S[at[k] + 3 + p] = s[k + 1][p]
           /\ \A p : Undivided(s, at, p) => p # at[k] + 2
<1>1. Len(s) \in Nat
  BY LenProperties
<1>2. k + 1 \in 1 .. Len(s) /\ (k + 1) - 1 = k
  BY <1>1
<1>3. /\ FrameAt(s, S, at, k + 1) /\ at[(k + 1) - 1] \in Nat /\ at[Len(s)] \in Nat
      /\ s[k + 1] \in Seq(Byte) /\ Len(s[k + 1]) \in Nat /\ Len(s[k + 1]) < Base * Base
      /\ at[(k + 1) - 1] + 3 + Len(s[k + 1]) <= at[Len(s)]
  BY <1>2, FrameInside
<1>4. Len(s[k + 1]) \in 0 .. Base * Base - 1
  BY <1>3, BaseType
<1>5. \A p : Undivided(s, at, p) => p # at[k] + 2
  BY <1>2 DEF Undivided
<1> QED
  BY <1>2, <1>3, <1>4, <1>5 DEF FrameAt

\* The bytes that arrived are the stream's next ones, and end outside of a length.
LEMMA Arrived ==
    ASSUME NEW s \in Seq(AnyMessage), NEW w \in Seq(Pieces), NEW rx \in Seq(Byte),
           NEW S, NEW at, NEW pos, NEW end, InTransit(s, w, rx, S, at, pos, end)
    PROVE  /\ pos \in Nat /\ Len(rx) \in Nat /\ pos + Len(rx) <= at[Len(s)]
           /\ \A p \in 1 .. Len(rx) : rx[p] = S[pos + p]
           /\ Undivided(s, at, pos + Len(rx))
           /\ at[Len(s)] \in Nat /\ Len(s) \in Nat
<1>1. /\ Encoded(s, S, at) /\ pos \in Nat /\ end \in Nat /\ end <= at[Len(s)]
  BY DEF InTransit
<1>2. PICK to : OnTheWire(s, w, S, at, to, end) /\ Holds(rx, S, pos, to[0])
  BY DEF InTransit
<1>3. to[0] \in Nat /\ to[0] <= end /\ Undivided(s, at, to[0])
  <2>1. /\ Len(w) \in Nat /\ \A i \in 0 .. Len(w) : to[i] \in Nat /\ to[i] <= end
        /\ Undivided(s, at, to[0])
    BY <1>2, WireType
  <2>2. 0 \in 0 .. Len(w)
    BY <2>1
  <2> QED
    BY <2>1, <2>2
<1>4. Len(rx) = to[0] - pos /\ \A p \in 1 .. to[0] - pos : rx[p] = S[pos + p]
  BY <1>2 DEF Holds
<1>5. Len(rx) \in Nat /\ Len(s) \in Nat
  BY LenProperties
<1>6. at[Len(s)] \in Nat
  BY <1>1, <1>5 DEF Encoded
<1>7. pos + Len(rx) = to[0]
  BY <1>1, <1>3, <1>4, <1>5
<1>8. pos + Len(rx) <= at[Len(s)]
  BY <1>1, <1>3, <1>6, <1>7
<1> QED
  BY <1>1, <1>3, <1>4, <1>5, <1>6, <1>7, <1>8

\* n bytes that arrived are read.
LEMMA ReadOn ==
    ASSUME NEW s \in Seq(AnyMessage), NEW w \in Seq(Pieces), NEW rx \in Seq(Byte),
           NEW S, NEW at, NEW pos, NEW end, InTransit(s, w, rx, S, at, pos, end),
           NEW n \in 0 .. Len(rx)
    PROVE  /\ Rest(n, rx) \in Seq(Byte)
           /\ InTransit(s, w, Rest(n, rx), S, at, pos + n, end)
<1>1. PICK to : OnTheWire(s, w, S, at, to, end) /\ Holds(rx, S, pos, to[0])
  BY DEF InTransit
<1>2. pos \in Nat /\ end \in Nat
  BY DEF InTransit
<1>3. to[0] \in Nat
  BY <1>1 DEF OnTheWire
<1>4. Holds(Rest(n, rx), S, pos + n, to[0]) /\ Rest(n, rx) \in Seq(Byte)
  BY <1>1, <1>2, <1>3, HoldsParts, Parts
<1>5. n \in Nat
  BY LenProperties
<1>6. pos + n \in Nat
  BY <1>2, <1>5
<1> QED
  BY <1>1, <1>4, <1>6 DEF InTransit

LEMMA HeaderBytes ==
    ASSUME NEW s \in Seq(AnyMessage), NEW w \in Seq(Pieces), NEW rx \in Seq(Byte),
           NEW S, NEW at, NEW k \in Nat, NEW end, k <= Len(s),
           InTransit(s, w, rx, S, at, at[k], end), rx # <<>>
    PROVE  /\ k < Len(s) /\ Head(rx) = Header /\ Tail(rx) \in Seq(Byte)
           /\ InTransit(s, w, Tail(rx), S, at, at[k] + 1, end)
<1>1. /\ at[k] \in Nat /\ Len(rx) \in Nat /\ at[k] + Len(rx) <= at[Len(s)]
      /\ \A p \in 1 .. Len(rx) : rx[p] = S[at[k] + p]
      /\ at[Len(s)] \in Nat /\ Len(s) \in Nat
  BY Arrived
<1>2. Len(rx) > 0
  BY <1>1, EmptySeq
<1>3. k < Len(s)
  <2>1. at[k] # at[Len(s)]
    BY <1>1, <1>2
  <2>2. k # Len(s)
    BY <2>1
  <2> QED
    BY <1>1, <2>2
<1>4. Head(rx) = Header
  <2>1. 1 \in 1 .. Len(rx)
    BY <1>1, <1>2
  <2>2. rx[1] = S[at[k] + 1]
    BY <1>1, <2>1
  <2>3. S[at[k] + 1] = Header
    BY <1>3, NextFrame DEF InTransit
  <2>4. Head(rx) = rx[1]
    BY <1>2
  <2> QED
    BY <2>2, <2>3, <2>4
<1>5. Tail(rx) = Rest(1, rx)
  <2>1. Tail(rx) = SubSeq(rx, 2, Len(rx))
    BY TailIsSubSeq
  <2>2. 1 + 1 = 2
    OBVIOUS
  <2> QED
    BY <2>1, <2>2 DEF Rest
<1>6. 1 \in 0 .. Len(rx)
  BY <1>1, <1>2
<1>7. Rest(1, rx) \in Seq(Byte) /\ InTransit(s, w, Rest(1, rx), S, at, at[k] + 1, end)
  BY <1>6, ReadOn
<1> QED
  BY <1>3, <1>4, <1>5, <1>7

LEMMA SmallerType ==
    ASSUME NEW m \in Nat, NEW n \in Nat
    PROVE  Smaller(m, n) \in 0 .. n /\ Smaller(m, n) <= m /\ (n >= m => Smaller(m, n) = m)
  BY DEF Smaller

LEMMA LengthBytes ==
    ASSUME NEW s \in Seq(AnyMessage), NEW w \in Seq(Pieces), NEW rx \in Seq(Byte),
           NEW S, NEW at, NEW k \in Nat, NEW end, k < Len(s),
           NEW pos, Ahead(at, k, 1, pos),
           InTransit(s, w, rx, S, at, pos, end), rx # <<>>
    PROVE  /\ Len(rx) \in Nat /\ Len(rx) >= 2 /\ Len(First(2, rx)) = 2
           /\ Swap(Value(First(2, rx))) = Len(Message(s, k))
           /\ Rest(2, rx) \in Seq(Byte)
           /\ InTransit(s, w, Rest(2, rx), S, at, at[k] + 3, end)
<1> DEFINE f == s[k + 1]
<1>1. /\ Len(rx) \in Nat /\ \A p \in 1 .. Len(rx) : rx[p] = S[at[k] + 1 + p]
      /\ Undivided(s, at, at[k] + 1 + Len(rx))
  BY Arrived DEF Ahead
<1>2. /\ at[k] \in Nat /\ Len(f) \in 0 .. Base * Base - 1
      /\ S[at[k] + 2] = Memory(Swap(Len(f)))[1]
      /\ S[at[k] + 3] = Memory(Swap(Len(f)))[2]
      /\ at[k] + 1 + Len(rx) # at[k] + 2
  BY <1>1, NextFrame DEF InTransit
<1>3. Len(rx) >= 2
  <2> DEFINE a == at[k]
             r == Len(rx)
  <2>1. a \in Nat /\ r \in Nat /\ r # 0 /\ a + 1 + r # a + 2
    BY <1>1, <1>2, EmptySeq
  <2> HIDE DEF a, r, f
  <2>2. r # 1
    BY <2>1
  <2>3. r >= 2
    BY <2>1, <2>2
  <2> QED
    BY <2>3 DEF r
<1>4. 2 \in 0 .. Len(rx) /\ 1 \in 1 .. Len(rx) /\ 2 \in 1 .. Len(rx)
  BY <1>1, <1>3
<1>5. /\ Len(First(2, rx)) = 2
      /\ First(2, rx)[1] = Memory(Swap(Len(f)))[1]
      /\ First(2, rx)[2] = Memory(Swap(Len(f)))[2]
  <2>1. Len(First(2, rx)) = 2 /\ \A p \in 1 .. 2 : First(2, rx)[p] = rx[p]
    BY <1>4, Parts
  <2>2. rx[1] = S[at[k] + 1 + 1] /\ rx[2] = S[at[k] + 1 + 2]
    BY <1>1, <1>4
  <2>3. at[k] + 1 + 1 = at[k] + 2 /\ at[k] + 1 + 2 = at[k] + 3
    BY <1>2, SMTT(40)
  <2> QED
    BY <1>2, <2>1, <2>2, <2>3
<1>6. Swap(Value(First(2, rx))) = Len(f)
  <2>1. Value(First(2, rx)) = Value(Memory(Swap(Len(f))))
    BY <1>5, Zenon DEF Value
  <2>2. Swap(Len(f)) \in 0 .. Base * Base - 1 /\ Swap(Swap(Len(f))) = Len(f)
    <3>1. Len(f) \in 0 .. Base * Base - 1
      BY <1>2
    <3> HIDE DEF f
    <3> QED
      BY <3>1, SwapTwice
  <2>3. Value(Memory(Swap(Len(f)))) = Swap(Len(f))
    BY <2>2, ValueOfMemory
  <2> QED
    BY <2>1, <2>2, <2>3
<1>7. Rest(2, rx) \in Seq(Byte) /\ InTransit(s, w, Rest(2, rx), S, at, at[k] + 1 + 2, end)
  BY <1>4, ReadOn DEF Ahead
<1>8. at[k] + 1 + 2 = at[k] + 3
  BY <1>2
<1> QED
  BY <1>1, <1>3, <1>5, <1>6, <1>7, <1>8 DEF Message

LEMMA ReadMore ==
    ASSUME NEW x \in Seq(Byte), NEW rx \in Seq(Byte), NEW n \in 0 .. Len(rx)
    PROVE  /\ x \o First(n, rx) \in Seq(Byte) /\ Len(x \o First(n, rx)) = Len(x) + n
           /\ \A p \in 1 .. Len(x) + n :
                 (x \o First(n, rx))[p]
                     = IF p <= Len(x) THEN x[p] ELSE First(n, rx)[p - Len(x)]
<1> DEFINE z == First(n, rx)
<1>1. z \in Seq(Byte) /\ Len(z) = n
  BY Parts
<1> HIDE DEF z
<1>2. /\ x \o z \in Seq(Byte) /\ Len(x \o z) = Len(x) + Len(z)
      /\ \A p \in 1 .. Len(x) + Len(z) :
            (x \o z)[p] = IF p <= Len(x) THEN x[p] ELSE z[p - Len(x)]
  BY <1>1, ConcatProperties
<1> QED
  BY <1>1, <1>2, Zenon DEF z

LEMMA MessageBytes ==
    ASSUME NEW s \in Seq(AnyMessage), NEW w \in Seq(Pieces), NEW rx \in Seq(Byte),
           NEW S, NEW at, NEW k \in Nat, NEW end, k < Len(s),
           NEW x \in Seq(Byte), Begins(x, Message(s, k)),
           NEW pos, Behind(at, k, x, pos), InTransit(s, w, rx, S, at, pos, end),
           NEW n \in 0 .. Len(rx), Misses(x, n, Message(s, k))
    PROVE  LET y == x \o First(n, rx)
           IN  /\ y \in Seq(Byte) /\ Len(y) = Len(x) + n /\ Begins(y, Message(s, k))
               /\ Rest(n, rx) \in Seq(Byte)
               /\ InTransit(s, w, Rest(n, rx), S, at, at[k] + (3 + Len(y)), end)
<1> DEFINE f == s[k + 1]
           y == x \o First(n, rx)
<1>0. /\ Begins(x, f) /\ Len(x) + n <= Len(f)
      /\ InTransit(s, w, rx, S, at, at[k] + (3 + Len(x)), end)
  BY DEF Message, Behind, Misses
<1>1. /\ Len(rx) \in Nat /\ \A p \in 1 .. Len(rx) : rx[p] = S[at[k] + (3 + Len(x)) + p]
  BY <1>0, Arrived, SMTT(40)
<1>2. /\ at[k] \in Nat /\ Len(f) \in Nat
      /\ \A p \in 1 .. Len(f) : S[at[k] + 3 + p] = f[p]
  <2>1. Encoded(s, S, at)
    BY DEF InTransit
  <2> QED
    BY <2>1, NextFrame
<1>3. n \in Nat /\ Len(x) \in Nat
  BY <1>1, LenProperties
<1>4. /\ First(n, rx) \in Seq(Byte) /\ Len(First(n, rx)) = n
      /\ \A p \in 1 .. n : First(n, rx)[p] = rx[p]
  BY Parts
<1>5. /\ y \in Seq(Byte) /\ Len(y) = Len(x) + n
      /\ \A p \in 1 .. Len(x) + n :
            y[p] = IF p <= Len(x) THEN x[p] ELSE First(n, rx)[p - Len(x)]
  BY ReadMore, Zenon
<1> HIDE DEF y, f
<1>6. ASSUME NEW p \in 1 .. Len(y) PROVE y[p] = f[p]
  <2>1. p \in 1 .. Len(x) + n
    BY <1>5
  <2>2. CASE p <= Len(x)
    <3>1. p \in 1 .. Len(x)
      BY <1>3, <2>1, <2>2
    <3> QED
      BY <1>0, <1>5, <2>1, <2>2, <3>1 DEF Begins
  <2>3. CASE ~(p <= Len(x))
    <3>1. p - Len(x) \in 1 .. n /\ p - Len(x) \in 1 .. Len(rx) /\ p \in 1 .. Len(f)
      BY <1>0, <1>1, <1>2, <1>3, <2>1, <2>3
    <3>2. y[p] = rx[p - Len(x)]
      BY <1>4, <1>5, <2>1, <2>3, <3>1
    <3>3. rx[p - Len(x)] = S[at[k] + (3 + Len(x)) + (p - Len(x))]
      BY <1>1, <3>1
    <3>4. at[k] + (3 + Len(x)) + (p - Len(x)) = at[k] + 3 + p
      BY <1>2, <1>3, <2>1
    <3> QED
      BY <1>2, <3>1, <3>2, <3>3, <3>4
  <2> QED
    BY <2>2, <2>3
<1>7. Begins(y, f)
  BY <1>0, <1>5, <1>6 DEF Begins
<1>8. Rest(n, rx) \in Seq(Byte)
      /\ InTransit(s, w, Rest(n, rx), S, at, at[k] + (3 + Len(x)) + n, end)
  BY <1>0, ReadOn
<1>9. at[k] + (3 + Len(x)) + n = at[k] + (3 + Len(y))
  <2> DEFINE a == at[k]
             l == Len(x)
             e == Len(y)
  <2>1. a \in Nat /\ n \in Nat /\ l \in Nat /\ e = l + n
    BY <1>2, <1>3, <1>5
  <2> HIDE DEF a, l, e
  <2>2. a + (3 + l) + n = a + (3 + e)
    BY <2>1
  <2> QED
    BY <2>2 DEF a, l, e
<1> QED
  BY <1>5, <1>7, <1>8, <1>9 DEF y, f, Message

\* Where a frame ends.
LEMMA FrameEnd ==
    ASSUME NEW s \in Seq(AnyMessage), NEW S, NEW at, Encoded(s, S, at),
           NEW k \in Nat, k < Len(s)
    PROVE  Behind(at, k, Message(s, k), at[k + 1])
<1>1. /\ s[k + 1] \in Seq(Byte) /\ at[k] \in Nat /\ Len(s[k + 1]) \in Nat
      /\ at[k + 1] = at[k] + 3 + Len(s[k + 1])
  BY NextFrame
<1> DEFINE a == at[k]
           b == at[k + 1]
           l == Len(s[k + 1])
<1>2. a \in Nat /\ l \in Nat /\ b = a + 3 + l
  BY <1>1
<1> HIDE DEF a, b, l
<1>3. b = a + (3 + l)
  BY <1>2
<1> QED
  BY <1>3 DEF a, b, l, Behind, Message

\* A message that was read to its end is the frame's, and the next frame follows.
LEMMA WholeMessage ==
    ASSUME NEW s \in Seq(AnyMessage), NEW S, NEW at, Encoded(s, S, at),
           NEW k \in Nat, k < Len(s),
           NEW x \in Seq(Byte), Begins(x, Message(s, k)), Len(x) = Len(Message(s, k))
    PROVE  x = Message(s, k) /\ Behind(at, k, x, at[k + 1])
<1>1. Message(s, k) \in Seq(Byte)
  BY NextFrame DEF Message
<1>2. x = Message(s, k)
  BY <1>1, SeqEqual DEF Begins
<1> QED
  BY <1>2, FrameEnd

\* Nothing is in transit: the reader is where the writer is.
LEMMA NothingInTransit ==
    ASSUME NEW s, NEW S, NEW at, NEW pos, NEW end,
           InTransit(s, <<>>, <<>>, S, at, pos, end)
    PROVE  pos = end
<1>1. Len(<<>>) = 0
  BY EmptySeq
<1>2. PICK to : OnTheWire(s, <<>>, S, at, to, end) /\ Holds(<<>>, S, pos, to[0])
  BY DEF InTransit
<1>3. to[0] = end /\ 0 = to[0] - pos
  BY <1>1, <1>2 DEF OnTheWire, Holds
<1>4. pos \in Nat /\ end \in Nat
  BY DEF InTransit
<1> QED
  BY <1>3, <1>4

\* In the beginning.
LEMMA NothingSent ==
    \E S, at : InTransit(<<>>, <<>>, <<>>, S, at, 0, 0) /\ at[0] = 0
<1> DEFINE zero == [i \in Nat |-> 0]
<1>1. Len(<<>>) = 0
  BY EmptySeq
<1>2. zero \in [Nat -> Nat] /\ zero[0] = 0
  OBVIOUS
<1> HIDE DEF zero
<1>3. Encoded(<<>>, zero, zero)
  BY <1>1, <1>2 DEF Encoded
<1>4. OnTheWire(<<>>, <<>>, zero, zero, zero, 0)
  BY <1>1, <1>2 DEF OnTheWire, Undivided
<1>5. Holds(<<>>, zero, 0, zero[0])
  BY <1>1, <1>2 DEF Holds
<1> QED
  BY <1>1, <1>2, <1>3, <1>4, <1>5 DEF InTransit

-----------------------------------------------------------------------------
(* What a writer puts into the stream: a header, a length, and the message   *)
(* in one part or several.                                                  *)

\* Of the bytes of a frame, only the first of its length is followed by a place
\* where the stream must not be cut.
LEMMA UndividedIn ==
    ASSUME NEW s \in Seq(AnyMessage), NEW S, NEW at, Encoded(s, S, at),
           NEW k \in Nat, k < Len(s),
           NEW p \in Nat, at[k] <= p, p <= at[k + 1], p # at[k] + 2
    PROVE  Undivided(s, at, p)
<1>1. Len(s) \in Nat
  BY LenProperties
<1>2. at \in [Nat -> Nat] /\ \A i, j \in 0 .. Len(s) : i < j => at[i] + 3 <= at[j]
  BY DEF Encoded
<1>3. ASSUME NEW i \in 1 .. Len(s) PROVE p # at[i - 1] + 2
  <2> DEFINE h == i - 1
  <2>1. h \in Nat /\ h \in 0 .. Len(s) /\ k \in 0 .. Len(s) /\ k + 1 \in 0 .. Len(s) /\ h < Len(s)
    BY <1>1
  <2> HIDE DEF h
  <2>2. at[h] \in Nat /\ at[k] \in Nat /\ at[k + 1] \in Nat
    BY <1>2, <2>1
  <2>3. CASE h < k
    <3>1. at[h] + 3 <= at[k]
      BY <1>2, <2>1, <2>3
    <3> QED
      BY <2>2, <3>1 DEF h
  <2>4. CASE h = k
    BY <2>4 DEF h
  <2>5. CASE h = k + 1
    BY <2>2, <2>5 DEF h
  <2>6. CASE h > k + 1
    <3>1. at[k + 1] + 3 <= at[h]
      BY <1>2, <2>1, <2>6
    <3> QED
      BY <2>2, <3>1 DEF h
  <2> QED
    BY <2>1, <2>3, <2>4, <2>5, <2>6
<1> QED
  BY <1>3 DEF Undivided

LEMMA HeaderPut ==
    ASSUME NEW s \in Seq(AnyMessage), NEW w \in Seq(Pieces), NEW rx \in Seq(Byte),
           NEW S, NEW at, NEW pos, NEW k \in Nat, k < Len(s),
           InTransit(s, w, rx, S, at, pos, at[k])
    PROVE  /\ Append(w, Piece("header", <<Header>>)) \in Seq(Pieces)
           /\ InTransit(s, Append(w, Piece("header", <<Header>>)), rx, S, at, pos, at[k] + 1)
<1> DEFINE a == at[k]
           b == at[k + 1]
           t == at[Len(s)]
           l == Len(s[k + 1])
<1>1. Encoded(s, S, at)
  BY DEF InTransit
<1>2. /\ a \in Nat /\ l \in Nat /\ t \in Nat /\ b = a + 3 + l
      /\ a + 3 + l <= t /\ S[a + 1] = Header
  BY <1>1, NextFrame, SMTT(40)
<1> HIDE DEF a, b, t, l
<1>3. a + 1 \in Nat /\ a <= a + 1 /\ a + 1 <= t
  BY <1>2
<1>4. <<Header>> \in Seq(Byte) /\ "header" \in Kinds
  BY BaseType DEF Kinds
<1>5. Holds(<<Header>>, S, a, a + 1)
  BY <1>2 DEF Holds
<1>6. ASSUME NEW p \in a .. a + 1 PROVE Undivided(s, at, p)
  <2>1. p \in Nat /\ a <= p /\ p <= b /\ p # a + 2
    BY <1>2
  <2> QED
    BY <1>1, <2>1, UndividedIn DEF a, b
<1>7. Undivided(s, at, a + 1) /\ Cuttable(s, at, "header", a, a + 1)
  <2>1. a + 1 \in a .. a + 1
    BY <1>2
  <2> QED
    BY <1>6, <2>1 DEF Cuttable
<1>8. InTransit(s, w, rx, S, at, pos, a)
  BY DEF a
<1> QED
  BY <1>3, <1>4, <1>5, <1>7, <1>8, WriterPuts DEF a, t

LEMMA LengthPut ==
    ASSUME NEW s \in Seq(AnyMessage), NEW w \in Seq(Pieces), NEW rx \in Seq(Byte),
           NEW S, NEW at, NEW pos, NEW k \in Nat, k < Len(s),
           InTransit(s, w, rx, S, at, pos, at[k] + 1)
    PROVE  LET x == Piece("len", Memory(Swap(Len(s[k + 1]))))
           IN  /\ Append(w, x) \in Seq(Pieces)
               /\ InTransit(s, Append(w, x), rx, S, at, pos, at[k] + 3)
<1> DEFINE a == at[k]
           b == at[k + 1]
           t == at[Len(s)]
           l == Len(s[k + 1])
           bytes == Memory(Swap(l))
<1>1. Encoded(s, S, at)
  BY DEF InTransit
<1>2. /\ a \in Nat /\ l \in Nat /\ t \in Nat /\ b = a + 3 + l /\ a + 3 + l <= t
      /\ S[a + 2] = bytes[1] /\ S[a + 3] = bytes[2] /\ l \in 0 .. Base * Base - 1
  BY <1>1, NextFrame
<1> HIDE DEF a, b, t, l
<1>3. bytes \in Seq(Byte) /\ Len(bytes) = 2 /\ "len" \in Kinds
  BY <1>2, SwapTwice, ValueOfMemory DEF Kinds
<1> HIDE DEF bytes
<1>4. a + 3 \in Nat /\ a + 1 <= a + 3 /\ a + 3 <= t
  BY <1>2
<1>5. Holds(bytes, S, a + 1, a + 3)
  <2>1. (a + 3) - (a + 1) = 2 /\ (a + 1) + 1 = a + 2 /\ (a + 1) + 2 = a + 3
    BY <1>2
  <2>2. \A p \in 1 .. 2 : p = 1 \/ p = 2
    OBVIOUS
  <2> QED
    BY <1>2, <1>3, <2>1, <2>2 DEF Holds
<1>6. Undivided(s, at, a + 3)
  <2>1. a <= a + 3 /\ a + 3 <= b /\ a + 3 # a + 2
    BY <1>2
  <2> QED
    BY <1>1, <1>4, <2>1, UndividedIn DEF a, b
<1>7. Cuttable(s, at, "len", a + 1, a + 3)
  BY DEF Cuttable
<1>8. InTransit(s, w, rx, S, at, pos, a + 1)
  BY DEF a
<1>9. /\ Append(w, Piece("len", bytes)) \in Seq(Pieces)
      /\ InTransit(s, Append(w, Piece("len", bytes)), rx, S, at, pos, a + 3)
  BY <1>3, <1>4, <1>5, <1>6, <1>7, <1>8, WriterPuts DEF t
<1> QED
  BY <1>9 DEF a, l, bytes

LEMMA MessagePut ==
    ASSUME NEW s \in Seq(AnyMessage), NEW w \in Seq(Pieces), NEW rx \in Seq(Byte),
           NEW S, NEW at, NEW pos, NEW k \in Nat, k < Len(s), NEW done \in Nat,
           InTransit(s, w, rx, S, at, pos, at[k] + (3 + done)),
           NEW bytes \in Seq(Byte), done + Len(bytes) <= Len(s[k + 1]),
           \A p \in 1 .. Len(bytes) : bytes[p] = s[k + 1][done + p]
    PROVE  /\ Append(w, Piece("msg", bytes)) \in Seq(Pieces)
           /\ InTransit(s, Append(w, Piece("msg", bytes)), rx, S, at, pos,
                        at[k] + (3 + (done + Len(bytes))))
<1> DEFINE a == at[k]
           b == at[k + 1]
           t == at[Len(s)]
           f == s[k + 1]
           l == Len(f)
           c == Len(bytes)
           end == a + (3 + done)
           end2 == a + (3 + (done + c))
<1>1. Encoded(s, S, at)
  BY DEF InTransit
<1>2. /\ a \in Nat /\ l \in Nat /\ t \in Nat /\ b = a + 3 + l /\ a + 3 + l <= t
      /\ \A p \in 1 .. l : S[a + 3 + p] = f[p]
  BY <1>1, NextFrame
<1>3. c \in Nat /\ done + c <= l
  BY LenProperties
<1>4. \A p \in 1 .. c : bytes[p] = f[done + p]
  OBVIOUS
<1>5. InTransit(s, w, rx, S, at, pos, end)
  OBVIOUS
<1> HIDE DEF a, b, t, f, l
<1>6. Holds(bytes, S, end, end2)
  <2>1. ASSUME NEW p \in 1 .. c PROVE bytes[p] = S[end + p]
    <3>1. done + p \in 1 .. l /\ end + p = a + 3 + (done + p)
      BY <1>2, <1>3
    <3>2. S[a + 3 + (done + p)] = f[done + p]
      BY <1>2, <3>1
    <3> QED
      BY <1>4, <3>1, <3>2
  <2>2. end2 - end = c
    BY <1>2, <1>3
  <2> QED
    BY <2>1, <2>2 DEF Holds
<1>7. end2 \in Nat /\ end <= end2 /\ end2 <= t
  BY <1>2, <1>3
<1>8. ASSUME NEW p \in end .. end2 PROVE Undivided(s, at, p)
  <2>1. p \in Nat /\ a <= p /\ p <= b /\ p # a + 2
    BY <1>2, <1>3
  <2> QED
    BY <1>1, <2>1, UndividedIn DEF a, b
<1>9. Undivided(s, at, end2) /\ Cuttable(s, at, "msg", end, end2)
  <2>1. end2 \in end .. end2
    BY <1>2, <1>3
  <2> QED
    BY <1>8, <2>1 DEF Cuttable
<1>10. "msg" \in Kinds
  BY DEF Kinds
<1> HIDE DEF end, end2
<1>11. /\ Append(w, Piece("msg", bytes)) \in Seq(Pieces)
       /\ InTransit(s, Append(w, Piece("msg", bytes)), rx, S, at, pos, end2)
  BY <1>5, <1>6, <1>7, <1>9, <1>10, WriterPuts DEF t
<1> QED
  BY <1>11 DEF end2, a
=============================================================================
