------------------------------ MODULE ByteStream ------------------------------
(***************************************************************************)
(* Frames as bytes on a TCP connection.  PFramer, PDeframer and             *)
(* IOFrameSocket move a header byte, a length of two bytes in network order *)
(* and the message, each by calls of their own.  What one send put into the *)
(* socket is a piece; the network keeps the order of the bytes and may cut  *)
(* the pieces named by Cuts wherever it likes.                              *)
(***************************************************************************)
EXTENDS Naturals, Sequences

CONSTANTS
    Base,     \* how many values a byte has (256)
    Header,   \* the byte every valid frame starts with (upper nibble 0xF)
    Messages, \* the messages sent: sequences of bytes
    Cuts      \* the kinds of piece that may arrive in parts

Byte == 0 .. Base - 1
Kinds == {"header", "len", "msg"}

ASSUME ByteStreamAssumption ==
    /\ Base \in Nat \ {0, 1}
    /\ Header \in Byte
    /\ Messages \subseteq Seq(Byte)
    /\ \A m \in Messages : Len(m) < Base * Base
    /\ Cuts \subseteq Kinds

\* htons and ntohs on a little-endian machine.
Swap(v) == (v % Base) * Base + v \div Base

\* A uint16_t in memory, lowest address first.
Memory(v) == <<v % Base, v \div Base>>
Value(bytes) == bytes[1] + Base * bytes[2]

First(n, s) == SubSeq(s, 1, n)
Rest(n, s) == SubSeq(s, n + 1, Len(s))
Smaller(m, n) == IF m < n THEN m ELSE n

Piece(kind, bytes) == [kind |-> kind, bytes |-> bytes]

\* The first n bytes of the first piece leave the wire.
Taken(wire, n) ==
    LET p == Head(wire)
    IN  IF n = Len(p.bytes)
        THEN Tail(wire)
        ELSE <<Piece(p.kind, Rest(n, p.bytes))>> \o Tail(wire)

Segments(wire) ==
    LET p == Head(wire)
    IN  IF wire = <<>> THEN {}
        ELSE IF p.kind \in Cuts THEN 1 .. Len(p.bytes) ELSE {Len(p.bytes)}
=============================================================================
