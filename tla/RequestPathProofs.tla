-------------------------- MODULE RequestPathProofs --------------------------
(***************************************************************************)
(* PFramer for every base, every set of messages, every number of frames    *)
(* and every way to cut the stream: its types, and, as long as the two      *)
(* bytes of a length are received together, that the worker's queue gets    *)
(* the frames the client sent.                                              *)
(***************************************************************************)
EXTENDS RequestPath, ByteStreamProofs

-----------------------------------------------------------------------------
(* Type correctness. *)

\* The pieces of a frame.
FramePieces(m) ==
    <<Piece("header", <<Header>>), Piece("len", Memory(Swap(Len(m))))>>
        \o (IF m = <<>> THEN <<>> ELSE <<Piece("msg", m)>>)

LEMMA FramePiecesType ==
    ASSUME NEW m \in AnyMessage, NEW w \in Seq(Pieces)
    PROVE  /\ FramePieces(m) \in Seq(Pieces)
           /\ w \o <<Piece("header", <<Header>>), Piece("len", Memory(Swap(Len(m))))>>
                \o (IF m = <<>> THEN <<>> ELSE <<Piece("msg", m)>>) = w \o FramePieces(m)
<1> DEFINE front == <<Piece("header", <<Header>>), Piece("len", Memory(Swap(Len(m))))>>
           back == IF m = <<>> THEN <<>> ELSE <<Piece("msg", m)>>
<1>1. m \in Seq(Byte) /\ Memory(Swap(Len(m))) \in Seq(Byte) /\ <<Header>> \in Seq(Byte)
  BY MessageType, SwapTwice, ValueOfMemory, BaseType
<1>2. /\ Piece("header", <<Header>>) \in Pieces
      /\ Piece("len", Memory(Swap(Len(m)))) \in Pieces
      /\ Piece("msg", m) \in Pieces
  BY <1>1 DEF Piece, Pieces, Kinds
<1>3. front \in Seq(Pieces) /\ <<Piece("msg", m)>> \in Seq(Pieces)
  BY <1>2
<1>4. back \in Seq(Pieces)
  BY <1>3, EmptySeq
<1>5. FramePieces(m) = front \o back
  BY DEF FramePieces
<1> HIDE DEF front, back
<1>6. front \o back \in Seq(Pieces) /\ (w \o front) \o back = w \o (front \o back)
  BY <1>3, <1>4, ConcatProperties, ConcatAssociative
<1> QED
  BY <1>5, <1>6 DEF front, back

\* One piece after the other.
LEMMA FramePiecesAppended ==
    ASSUME NEW m \in AnyMessage, NEW w \in Seq(Pieces)
    PROVE  LET w2 == Append(Append(w, Piece("header", <<Header>>)),
                            Piece("len", Memory(Swap(Len(m)))))
           IN  w \o FramePieces(m) = IF m = <<>> THEN w2 ELSE Append(w2, Piece("msg", m))
<1> DEFINE h == Piece("header", <<Header>>)
           l == Piece("len", Memory(Swap(Len(m))))
           p == Piece("msg", m)
           w2 == Append(Append(w, h), l)
<1>1. m \in Seq(Byte) /\ Memory(Swap(Len(m))) \in Seq(Byte) /\ <<Header>> \in Seq(Byte)
  BY MessageType, SwapTwice, ValueOfMemory, BaseType
<1>2. h \in Pieces /\ l \in Pieces /\ p \in Pieces
  BY <1>1 DEF Piece, Pieces, Kinds
<1>3. FramePieces(m) = <<h, l>> \o (IF m = <<>> THEN <<>> ELSE <<p>>)
  BY DEF FramePieces
<1> HIDE DEF h, l, p
<1>4. w2 = w \o <<h, l>> /\ <<h, l>> \in Seq(Pieces) /\ w2 \in Seq(Pieces)
  <2>1. Append(w, h) \in Seq(Pieces) /\ <<h>> \in Seq(Pieces) /\ <<l>> \in Seq(Pieces)
    BY <1>2
  <2>2. Append(w, h) = w \o <<h>> /\ w2 = Append(w, h) \o <<l>>
    BY <1>2, <2>1, AppendIsConcat
  <2>3. (w \o <<h>>) \o <<l>> = w \o (<<h>> \o <<l>>)
    BY <2>1, ConcatAssociative
  <2>4. <<h>> \o <<l>> = <<h, l>>
    <3>1. <<h>> \o <<l>> = Append(<<h>>, l)
      BY <1>2, <2>1, AppendIsConcat
    <3>2. Append(<<h>>, l) = <<h, l>>
      <4>1. Len(<<h>>) = 1 /\ <<h>>[1] = h
        OBVIOUS
      <4>2. /\ Append(<<h>>, l) \in Seq(Pieces) /\ Len(Append(<<h>>, l)) = 2
            /\ Append(<<h>>, l)[1] = h /\ Append(<<h>>, l)[2] = l
        BY <1>2, <2>1, <4>1, AppendProperties
      <4>3. /\ <<h, l>> \in Seq(Pieces) /\ Len(<<h, l>>) = 2
            /\ <<h, l>>[1] = h /\ <<h, l>>[2] = l
        BY <1>2
      <4>4. \A i \in 1 .. 2 : i = 1 \/ i = 2
        OBVIOUS
      <4> QED
        BY <4>2, <4>3, <4>4, SeqEqual
    <3> QED
      BY <3>1, <3>2
  <2>5. <<h, l>> \in Seq(Pieces) /\ w2 \in Seq(Pieces)
    BY <1>2, <2>1
  <2> QED
    BY <2>2, <2>3, <2>4, <2>5
<1> HIDE DEF w2
<1>5. CASE m = <<>>
  <2>1. <<h, l>> \o <<>> = <<h, l>>
    BY <1>4, ConcatEmptySeq
  <2> QED
    BY <1>3, <1>4, <1>5, <2>1 DEF w2, h, l
<1>6. CASE m # <<>>
  <2>1. <<p>> \in Seq(Pieces)
    BY <1>2
  <2>2. w \o (<<h, l>> \o <<p>>) = (w \o <<h, l>>) \o <<p>>
    BY <1>4, <2>1, ConcatAssociative
  <2>3. w2 \o <<p>> = Append(w2, p)
    BY <1>2, <1>4, AppendIsConcat
  <2> QED
    BY <1>3, <1>4, <1>6, <2>2, <2>3 DEF w2, h, l, p
<1> QED
  BY <1>5, <1>6

LEMMA TypesOfNet ==
    ASSUME RPTypeOK,
           (\E m \in Messages : sendFrame(m)) \/ Leave \/ Arrive \/ ArriveFin \/ EpollIn
    PROVE  RPTypeOK'
<1>1. ASSUME NEW m \in Messages, sendFrame(m) PROVE RPTypeOK'
  <2>1. wire \in Seq(Pieces)
    BY DEF RPTypeOK, Pieces
  <2>2. wire' \in Seq(Pieces)
    BY <1>1, <2>1, AreMessages, FramePiecesType, ConcatProperties DEF sendFrame
  <2>3. sent' \in Seq(Messages)
    BY <1>1, AppendProperties DEF sendFrame, RPTypeOK
  <2> QED
    BY <1>1, <2>2, <2>3 DEF sendFrame, RPTypeOK, Pieces, frameVars
<1>2. ASSUME Leave PROVE RPTypeOK'
  BY <1>2 DEF Leave, RPTypeOK, frameVars
<1>3. ASSUME Arrive PROVE RPTypeOK'
  <2>1. PICK n \in Segments(wire) :
            /\ rx' = rx \o First(n, Head(wire).bytes)
            /\ wire' = Taken(wire, n)
    BY <1>3 DEF Arrive
  <2>2. wire \in Seq(Pieces)
    BY DEF RPTypeOK, Pieces
  <2>3. rx' \in Seq(Byte) /\ wire' \in Seq(Pieces)
    BY <2>1, <2>2, ArriveTypes, ConcatProperties DEF RPTypeOK
  <2> QED
    BY <1>3, <2>3 DEF Arrive, RPTypeOK, Pieces, frameVars
<1>4. ASSUME ArriveFin PROVE RPTypeOK'
  BY <1>4 DEF ArriveFin, RPTypeOK, frameVars
<1>5. ASSUME EpollIn PROVE RPTypeOK'
  BY <1>5 DEF EpollIn, RPTypeOK, frameVars, netVars
<1> QED
  BY <1>1, <1>2, <1>3, <1>4, <1>5

\* The length read so far is a uint16_t.
LEMMA LenReceivedType ==
    ASSUME RPTypeOK, state = "RX_LEN", NEW bytes \in Seq(Byte),
           Len(bytes) \in 1 .. lenRemainingBytes
    PROVE  LenReceived(bytes) \in 0 .. Base * Base - 1
<1>1. CASE lenRemainingBytes = 1
  BY <1>1 DEF LenReceived, RPTypeOK
<1>2. CASE lenRemainingBytes # 1 /\ Len(bytes) = 2
  <2>1. bytes = <<bytes[1], bytes[2]>> /\ bytes[1] \in Byte /\ bytes[2] \in Byte
    BY <1>2
  <2>2. Value(<<bytes[1], bytes[2]>>) \in 0 .. Base * Base - 1
    BY <2>1, ValueOfMemory
  <2>3. LenReceived(bytes) = Value(bytes)
    BY <1>2 DEF LenReceived
  <2> QED
    BY <2>1, <2>2, <2>3
<1>3. CASE lenRemainingBytes # 1 /\ Len(bytes) # 2
  <2>1. bytes[1] \in Byte
    BY ElementOfSeq DEF RPTypeOK
  <2>2. Memory(len)[2] \in Byte
    <3>1. len \in 0 .. Base * Base - 1
      BY DEF RPTypeOK
    <3>2. Memory(len)[2] = len \div Base
      BY DEF Memory
    <3> QED
      BY <3>1, <3>2, DivMod
  <2>3. LenReceived(bytes) = Value(<<bytes[1], Memory(len)[2]>>)
    BY <1>3 DEF LenReceived
  <2> QED
    BY <2>1, <2>2, <2>3, ValueOfMemory
<1> QED
  BY <1>1, <1>2, <1>3

LEMMA TypesOfFramer ==
    ASSUME RPTypeOK, tryRead
    PROVE  RPTypeOK'
<1> USE DEF netVars
<1>0. UNCHANGED <<netVars, edge>> /\ rx \in Seq(Byte) /\ Len(rx) \in Nat
  BY LenProperties DEF tryRead, RPTypeOK
<1>1. ASSUME recvNothing PROVE RPTypeOK'
  <2>1. len' \in 0 .. Base * Base - 1
    BY <1>1, SwapTwice DEF recvNothing, RPTypeOK
  <2>2. state' # "RX_MSG" => msg' = <<>> /\ msgRemainingBytes' = 0
    BY <1>1 DEF recvNothing, RPTypeOK
  <2>3. state' = "RX_MSG" => Len(msg') + msgRemainingBytes' = len'
    BY <1>1 DEF recvNothing, RPTypeOK
  <2> QED
    BY <1>0, <1>1, <2>1, <2>2, <2>3 DEF recvNothing, RPTypeOK
<1>2. ASSUME recvHeader PROVE RPTypeOK'
  <2>1. rx' \in Seq(Byte)
    BY <1>0, <1>2, HeadTailProperties DEF recvHeader
  <2>2. CASE state' = "RX_LEN" /\ lenRemainingBytes' = 2 /\ UNCHANGED iopc
    BY <1>0, <1>2, <2>1, <2>2 DEF recvHeader, RPTypeOK
  <2>3. CASE UNCHANGED <<state, lenRemainingBytes>> /\ iopc' = "epoll"
    BY <1>0, <1>2, <2>1, <2>3 DEF recvHeader, RPTypeOK
  <2> QED
    BY <1>2, <2>2, <2>3 DEF recvHeader
<1>3. ASSUME recvLen PROVE RPTypeOK'
  <2> DEFINE n == Smaller(lenRemainingBytes, Len(rx))
  <2>1. lenRemainingBytes \in 1 .. 2 /\ Len(rx) > 0
    BY <1>0, <1>3, EmptySeq DEF recvLen, RPTypeOK
  <2>2. n \in 1 .. lenRemainingBytes /\ n \in 0 .. Len(rx)
    BY <1>0, <2>1 DEF Smaller
  <2> HIDE DEF n
  <2>3. rx' = Rest(n, rx) /\ len' = Swap(LenReceived(First(n, rx)))
        /\ lenRemainingBytes' = lenRemainingBytes - n
    BY <1>3 DEF recvLen, n
  <2>4. /\ First(n, rx) \in Seq(Byte) /\ Len(First(n, rx)) = n
        /\ Rest(n, rx) \in Seq(Byte)
    BY <1>0, <2>2, Parts
  <2>5. LenReceived(First(n, rx)) \in 0 .. Base * Base - 1
    BY <1>3, <2>2, <2>4, LenReceivedType DEF recvLen
  <2>6. len' \in 0 .. Base * Base - 1
    BY <2>3, <2>5, SwapTwice
  <2>7. lenRemainingBytes' \in 0 .. 2
    BY <2>1, <2>2, <2>3
  <2>8. /\ state' = IF lenRemainingBytes' = 0 THEN "RX_MSG" ELSE "RX_LEN"
        /\ msgRemainingBytes' = IF lenRemainingBytes' = 0 THEN len' ELSE 0
        /\ msg' = <<>> /\ Len(msg') = 0
    BY <1>3 DEF recvLen, RPTypeOK
  <2>9. len' \in Nat
    BY <2>6, BaseType
  <2> QED
    BY <1>0, <1>3, <2>3, <2>4, <2>6, <2>7, <2>8, <2>9 DEF recvLen, RPTypeOK
<1>4. ASSUME recvMsg PROVE RPTypeOK'
  <2> DEFINE n == Smaller(msgRemainingBytes, Len(rx))
             m == msg \o First(n, rx)
  <2>1. n \in 0 .. msgRemainingBytes /\ n \in 0 .. Len(rx)
    BY <1>0 DEF Smaller, RPTypeOK
  <2>2. /\ First(n, rx) \in Seq(Byte) /\ Len(First(n, rx)) = n
        /\ Rest(n, rx) \in Seq(Byte)
    BY <1>0, <2>1, Parts
  <2>3. m \in Seq(Byte) /\ Len(m) = Len(msg) + n
    <3>1. msg \in Seq(Byte)
      BY DEF RPTypeOK
    <3> QED
      BY <2>2, <3>1, ConcatProperties
  <2>4. /\ rx' = Rest(n, rx)
        /\ \/ n = msgRemainingBytes /\ pushFrame(m)
           \/ /\ n < msgRemainingBytes
              /\ msg' = m /\ msgRemainingBytes' = msgRemainingBytes - n
              /\ UNCHANGED <<pushed, state, len, lenRemainingBytes>>
        /\ UNCHANGED iopc /\ state = "RX_MSG"
    BY <1>4 DEF recvMsg
  <2> HIDE DEF n, m
  <2>5. Len(msg) \in Nat
    BY LenProperties DEF RPTypeOK
  <2>6. CASE n = msgRemainingBytes /\ pushFrame(m)
    <3>1. pushed' \in Seq(Seq(Byte))
      BY <2>3, <2>6, AppendProperties DEF pushFrame, RPTypeOK
    <3>2. msg' = <<>> /\ msg' \in Seq(Byte) /\ msgRemainingBytes' = 0
      BY <2>6, EmptySeq DEF pushFrame
    <3>3. len' = 0 /\ len' \in 0 .. Base * Base - 1
      <4>1. 0 \in 0 .. Base * Base - 1
        <5>1. Base * Base >= Base
          BY BaseType
        <5> QED
          BY <5>1, BaseType
      <4> QED
        BY <4>1, <2>6 DEF pushFrame
    <3> QED
      BY <1>0, <2>2, <2>4, <2>6, <3>1, <3>2, <3>3 DEF pushFrame, RPTypeOK
  <2>7. CASE /\ n < msgRemainingBytes
             /\ msg' = m /\ msgRemainingBytes' = msgRemainingBytes - n
             /\ UNCHANGED <<pushed, state, len, lenRemainingBytes>>
    <3>1. msgRemainingBytes' \in Nat /\ Len(msg') + msgRemainingBytes' = len'
      <4>1. msgRemainingBytes \in Nat /\ Len(msg) + msgRemainingBytes = len
        BY <2>4 DEF RPTypeOK
      <4>2. n \in Nat /\ Len(msg') = Len(msg) + n /\ len' = len
        BY <2>1, <2>3, <2>7, <4>1
      <4> QED
        BY <2>1, <2>5, <2>7, <4>1, <4>2
    <3> QED
      BY <1>0, <2>2, <2>3, <2>4, <2>7, <3>1 DEF RPTypeOK
  <2> QED
    BY <2>4, <2>6, <2>7
<1>5. ASSUME emptyMsg PROVE RPTypeOK'
  <2>1. pushed' \in Seq(Seq(Byte)) /\ msg' \in Seq(Byte)
    BY <1>5, AppendProperties, EmptySeq DEF emptyMsg, pushFrame, RPTypeOK
  <2>2. 0 \in 0 .. Base * Base - 1
    <3>1. Base * Base >= Base
      BY BaseType
    <3> QED
      BY <3>1, BaseType
  <2> QED
    BY <1>0, <1>5, <2>1, <2>2 DEF emptyMsg, pushFrame, RPTypeOK
<1> QED
  BY <1>1, <1>2, <1>3, <1>4, <1>5 DEF tryRead

LEMMA TypesInit == Init => RPTypeOK
<1> SUFFICES ASSUME Init PROVE RPTypeOK
  OBVIOUS
<1>1. 0 \in 0 .. Base * Base - 1
  <2>1. Base * Base >= Base
    BY BaseType
  <2> QED
    BY <2>1, BaseType
<1>2. /\ <<>> \in Seq(Messages) /\ <<>> \in Seq(Seq(Byte)) /\ <<>> \in Seq(Byte)
      /\ <<>> \in Seq([kind : Kinds, bytes : Seq(Byte)])
  BY EmptySeq
<1>3. /\ sent \in Seq(Messages) /\ pushed \in Seq(Seq(Byte))
      /\ wire \in Seq([kind : Kinds, bytes : Seq(Byte)])
      /\ rx \in Seq(Byte) /\ msg \in Seq(Byte) /\ msg = <<>>
  BY <1>2, Zenon DEF Init
<1>4. /\ {left, rxFin, edge} \subseteq BOOLEAN
      /\ iopc = "epoll" /\ state = "RX_HEADER" /\ len = 0
      /\ lenRemainingBytes = 0 /\ msgRemainingBytes = 0
  BY DEF Init
<1> QED
  BY <1>1, <1>3, <1>4 DEF RPTypeOK

LEMMA TypesStep == RPTypeOK /\ [Next]_vars => RPTypeOK'
<1> SUFFICES ASSUME RPTypeOK, [Next]_vars PROVE RPTypeOK'
  OBVIOUS
<1>1. CASE (\E m \in Messages : sendFrame(m)) \/ Leave \/ Arrive \/ ArriveFin \/ EpollIn
  BY <1>1, TypesOfNet
<1>2. CASE tryRead
  BY <1>2, TypesOfFramer
<1>3. CASE UNCHANGED vars
  BY <1>3 DEF vars, netVars, frameVars, RPTypeOK
<1> QED
  BY <1>1, <1>2, <1>3 DEF Next

\* PFramer's counters belong to its state whatever the network does with the
\* stream: what was received of a message and what is missing make up its length.
THEOREM FramerTypes == Spec => []RPTypeOK
  BY TypesInit, TypesStep, PTL DEF Spec

-----------------------------------------------------------------------------
(* What PFramer has read of the stream. *)

\* How many bytes of the stream left the socket.
Position(at) ==
    at[Len(pushed)] + (IF state = "RX_HEADER" THEN 0
                       ELSE IF state = "RX_LEN" THEN 1
                       ELSE 3 + Len(msg))

\* The frame PFramer is reading is one that was sent, and what it has of it is right.
Reading ==
    /\ Len(pushed) <= Len(sent)
    /\ state # "RX_HEADER" => Len(pushed) < Len(sent)
    /\ state = "RX_LEN" => lenRemainingBytes = 2
    /\ state = "RX_MSG" =>
        /\ len = Len(Message(sent, Len(pushed)))
        /\ Begins(msg, Message(sent, Len(pushed)))
        /\ msgRemainingBytes = 0 => msg = <<>>

\* The stream is cut in two where PFramer is.
InStream == \E S, at : InTransit(sent, wire, rx, S, at, Position(at), at[Len(sent)])

Prefix == \A i \in 1 .. Len(pushed) : pushed[i] = sent[i]

\* The FIN arrives behind everything, and the connection is closed behind the FIN.
Ended ==
    /\ rxFin => left /\ wire = <<>>
    /\ iopc = "closed" => left /\ pushed = sent

StreamInv == RPTypeOK /\ Reading /\ InStream /\ Prefix /\ Ended

\* What a step of PFramer may do to the history.
Delivered ==
    \/ UNCHANGED pushed
    \/ /\ Len(pushed) < Len(sent)
       /\ pushed' = Append(pushed, Message(sent, Len(pushed)))

\* The values the lemmas on the stream ask for.
LEMMA FramerTyped ==
    ASSUME RPTypeOK
    PROVE  /\ sent \in Seq(AnyMessage) /\ wire \in Seq(Pieces) /\ rx \in Seq(Byte)
           /\ msg \in Seq(Byte) /\ pushed \in Seq(Seq(Byte))
           /\ Len(pushed) \in Nat /\ Len(sent) \in Nat /\ Len(rx) \in Nat /\ Len(msg) \in Nat
  BY LenProperties, AreMessages DEF RPTypeOK, Pieces

\* A position in the stream is a number.
LEMMA FramerPlaces ==
    ASSUME RPTypeOK, NEW S, NEW at, NEW pos, NEW end,
           InTransit(sent, wire, rx, S, at, pos, end)
    PROVE  at[Len(pushed)] \in Nat /\ at[Len(sent)] \in Nat
  BY FramerTyped DEF InTransit, Encoded

LEMMA HeaderRead ==
    ASSUME StreamInv, recvHeader, UNCHANGED <<sent, wire>>
    PROVE  Reading' /\ InStream' /\ Delivered /\ UNCHANGED iopc
<1> DEFINE k == Len(pushed)
<1>1. PICK S, at : InTransit(sent, wire, rx, S, at, Position(at), at[Len(sent)])
  BY DEF StreamInv, InStream
<1>2. RPTypeOK /\ k <= Len(sent) /\ state = "RX_HEADER" /\ rx # <<>> /\ rx' = Tail(rx)
  BY DEF StreamInv, Reading, recvHeader
<1>3. /\ sent \in Seq(AnyMessage) /\ wire \in Seq(Pieces) /\ rx \in Seq(Byte)
      /\ k \in Nat /\ at[k] \in Nat
  BY <1>1, <1>2, FramerTyped, FramerPlaces
<1>4. Position(at) = at[k]
  BY <1>2, <1>3 DEF Position
<1>5. InTransit(sent, wire, rx, S, at, at[k], at[Len(sent)])
  BY <1>1, <1>4
<1>6. /\ k < Len(sent) /\ Head(rx) = Header
      /\ InTransit(sent, wire, Tail(rx), S, at, at[k] + 1, at[Len(sent)])
  BY <1>2, <1>3, <1>5, HeaderBytes
<1>7. /\ state' = "RX_LEN" /\ lenRemainingBytes' = 2 /\ UNCHANGED <<iopc, pushed>>
  BY <1>6 DEF recvHeader
<1>8. Position(at)' = at[k] + 1
  BY <1>7 DEF Position
<1>9. InTransit(sent, wire, rx, S, at, Position(at), at[Len(sent)])'
  BY <1>2, <1>6, <1>8
<1>10. Reading'
  BY <1>2, <1>6, <1>7 DEF Reading
<1> QED
  BY <1>7, <1>9, <1>10 DEF InStream, Delivered

LEMMA LengthRead ==
    ASSUME StreamInv, recvLen, UNCHANGED <<sent, wire>>
    PROVE  Reading' /\ InStream' /\ Delivered /\ UNCHANGED iopc
<1> DEFINE k == Len(pushed)
<1>1. PICK S, at : InTransit(sent, wire, rx, S, at, Position(at), at[Len(sent)])
  BY DEF StreamInv, InStream
<1>2. RPTypeOK /\ k < Len(sent) /\ lenRemainingBytes = 2 /\ state = "RX_LEN" /\ rx # <<>>
  BY DEF StreamInv, Reading, recvLen
<1>3. /\ sent \in Seq(AnyMessage) /\ wire \in Seq(Pieces) /\ rx \in Seq(Byte)
      /\ k \in Nat /\ Len(sent) \in Nat /\ at[k] \in Nat
  BY <1>1, <1>2, FramerTyped, FramerPlaces
<1>4. Ahead(at, k, 1, Position(at))
  BY <1>2 DEF Position, Ahead
<1>6. /\ Len(rx) \in Nat /\ Len(rx) >= 2 /\ Len(First(2, rx)) = 2
      /\ Swap(Value(First(2, rx))) = Len(Message(sent, k))
      /\ InTransit(sent, wire, Rest(2, rx), S, at, at[k] + 3, at[Len(sent)])
  BY <1>1, <1>2, <1>3, <1>4, LengthBytes
<1>7. Smaller(lenRemainingBytes, Len(rx)) = 2
  BY <1>2, <1>6, SmallerType
<1>8. LenReceived(First(2, rx)) = Value(First(2, rx))
  BY <1>2, <1>6 DEF LenReceived
<1>9. /\ rx' = Rest(2, rx) /\ lenRemainingBytes' = 0 /\ state' = "RX_MSG"
      /\ len' = Len(Message(sent, k)) /\ UNCHANGED <<pushed, iopc, msg>>
  BY <1>2, <1>6, <1>7, <1>8 DEF recvLen
<1>10. msg = <<>> /\ Len(msg) = 0
  BY <1>2, EmptySeq DEF RPTypeOK
<1>11. Position(at)' = at[k] + 3
  BY <1>3, <1>9, <1>10 DEF Position
<1>12. InTransit(sent, wire, rx, S, at, Position(at), at[Len(sent)])'
  BY <1>6, <1>9, <1>11
<1>13. Begins(msg, Message(sent, k))
  <2>1. Len(Message(sent, k)) \in Nat
    BY <1>1, <1>2, <1>3, NextFrame DEF InTransit, Message
  <2> QED
    BY <1>10, <2>1 DEF Begins
<1>14. Reading'
  BY <1>2, <1>3, <1>9, <1>10, <1>13 DEF Reading
<1> QED
  BY <1>9, <1>12, <1>14 DEF InStream, Delivered

LEMMA MessageRead ==
    ASSUME StreamInv, recvMsg, UNCHANGED <<sent, wire>>
    PROVE  Reading' /\ InStream' /\ Delivered /\ UNCHANGED iopc
<1> DEFINE k == Len(pushed)
           f == Message(sent, k)
           n == Smaller(msgRemainingBytes, Len(rx))
           m == msg \o First(n, rx)
<1>1. PICK S, at : InTransit(sent, wire, rx, S, at, Position(at), at[Len(sent)])
  BY DEF StreamInv, InStream
<1>2. /\ RPTypeOK /\ k < Len(sent) /\ len = Len(f) /\ Begins(msg, f) /\ state = "RX_MSG"
  BY DEF StreamInv, Reading, recvMsg
<1>3. /\ sent \in Seq(AnyMessage) /\ wire \in Seq(Pieces) /\ rx \in Seq(Byte)
      /\ msg \in Seq(Byte) /\ pushed \in Seq(Seq(Byte))
      /\ k \in Nat /\ Len(sent) \in Nat /\ at[k] \in Nat /\ Len(rx) \in Nat /\ Len(msg) \in Nat
  BY <1>1, <1>2, FramerTyped, FramerPlaces
<1>4. /\ msgRemainingBytes \in Nat /\ Len(msg) + msgRemainingBytes = len
  BY <1>2 DEF RPTypeOK
<1>5. n \in 0 .. Len(rx) /\ n \in Nat /\ n <= msgRemainingBytes
  BY <1>3, <1>4 DEF Smaller
<1>6. /\ UNCHANGED iopc /\ rx' = Rest(n, rx)
      /\ \/ n = msgRemainingBytes /\ pushFrame(m)
         \/ /\ n < msgRemainingBytes
            /\ msg' = m /\ msgRemainingBytes' = msgRemainingBytes - n
            /\ UNCHANGED <<pushed, state, len, lenRemainingBytes>>
  BY DEF recvMsg
<1>7. Behind(at, k, msg, Position(at))
  BY <1>2 DEF Position, Behind
<1>8. Misses(msg, n, f)
  <2> HIDE DEF f, n
  <2> QED
    BY <1>2, <1>3, <1>4, <1>5 DEF Misses
<1>9. /\ m \in Seq(Byte) /\ Len(m) = Len(msg) + n /\ Begins(m, f)
      /\ InTransit(sent, wire, Rest(n, rx), S, at, at[k] + (3 + Len(m)), at[Len(sent)])
  <2> HIDE DEF n
  <2> QED
    BY <1>1, <1>2, <1>3, <1>5, <1>7, <1>8, MessageBytes
<1> HIDE DEF n, m
<1>10. CASE n = msgRemainingBytes /\ pushFrame(m)
  <2>1. Len(m) = Len(f)
    <3> HIDE DEF f
    <3> QED
      BY <1>2, <1>3, <1>4, <1>9, <1>10
  <2>2. Encoded(sent, S, at)
    BY <1>1 DEF InTransit
  <2>3. m = f /\ Behind(at, k, m, at[k + 1])
    BY <1>2, <1>3, <1>9, <2>1, <2>2, WholeMessage
  <2>4. pushed' = Append(pushed, f) /\ state' = "RX_HEADER"
    BY <1>10, <2>3 DEF pushFrame
  <2>5. Len(pushed') = k + 1
    BY <1>3, <2>4, AppendProperties
  <2>6. Position(at)' = at[k + 1]
    <3>1. at[k + 1] \in Nat
      BY <1>3, <2>2 DEF Encoded
    <3>2. Position(at)' = at[k + 1] + 0
      BY <2>4, <2>5 DEF Position
    <3> QED
      BY <3>1, <3>2
  <2>7. InTransit(sent, wire, rx, S, at, Position(at), at[Len(sent)])'
    BY <1>6, <1>9, <2>3, <2>6 DEF Behind
  <2>8. Reading'
    BY <1>2, <1>3, <2>4, <2>5 DEF Reading
  <2> QED
    BY <1>2, <1>6, <2>4, <2>7, <2>8 DEF InStream, Delivered
<1>11. CASE /\ n < msgRemainingBytes
            /\ msg' = m /\ msgRemainingBytes' = msgRemainingBytes - n
            /\ UNCHANGED <<pushed, state, len, lenRemainingBytes>>
  <2>1. Position(at)' = at[k] + (3 + Len(m))
    BY <1>2, <1>11 DEF Position
  <2>2. InTransit(sent, wire, rx, S, at, Position(at), at[Len(sent)])'
    BY <1>6, <1>9, <2>1
  <2>3. msgRemainingBytes' # 0
    BY <1>4, <1>5, <1>11
  <2>4. Reading'
    BY <1>2, <1>3, <1>9, <1>11, <2>3 DEF Reading
  <2> QED
    BY <1>6, <1>11, <2>2, <2>4 DEF InStream, Delivered
<1> QED
  BY <1>6, <1>10, <1>11

LEMMA EmptyRead ==
    ASSUME StreamInv, emptyMsg, UNCHANGED <<sent, wire>>
    PROVE  Reading' /\ InStream' /\ Delivered /\ iopc' = "epoll"
<1> DEFINE k == Len(pushed)
           f == Message(sent, k)
<1>1. PICK S, at : InTransit(sent, wire, rx, S, at, Position(at), at[Len(sent)])
  BY DEF StreamInv, InStream
<1>2. /\ RPTypeOK /\ k < Len(sent) /\ len = Len(f) /\ Begins(msg, f) /\ state = "RX_MSG"
      /\ msg = <<>> /\ msgRemainingBytes = 0
  BY DEF StreamInv, Reading, emptyMsg
<1>3. /\ sent \in Seq(AnyMessage) /\ msg \in Seq(Byte) /\ pushed \in Seq(Seq(Byte))
      /\ k \in Nat /\ Len(sent) \in Nat /\ at[k] \in Nat /\ Len(msg) \in Nat
  BY <1>1, <1>2, FramerTyped, FramerPlaces
<1>4. Len(msg) = Len(f)
  <2>1. Len(msg) + msgRemainingBytes = len
    BY <1>2 DEF RPTypeOK
  <2> QED
    BY <1>2, <1>3, <2>1
<1>5. Encoded(sent, S, at)
  BY <1>1 DEF InTransit
<1>6. msg = f /\ Behind(at, k, msg, at[k + 1])
  BY <1>2, <1>3, <1>4, <1>5, WholeMessage
<1>7. /\ pushed' = Append(pushed, f) /\ state' = "RX_HEADER" /\ iopc' = "epoll" /\ rx' = rx
  BY <1>2, <1>6 DEF emptyMsg, pushFrame
<1>8. Len(pushed') = k + 1
  BY <1>3, <1>7, AppendProperties
<1>9. Position(at)' = at[k + 1]
  <2>1. at[k + 1] \in Nat
    BY <1>3, <1>5 DEF Encoded
  <2>2. Position(at)' = at[k + 1] + 0
    BY <1>7, <1>8 DEF Position
  <2> QED
    BY <2>1, <2>2
<1>10. Position(at) = at[k] + (3 + Len(msg))
  BY <1>2 DEF Position
<1>11. InTransit(sent, wire, rx, S, at, Position(at), at[Len(sent)])'
  BY <1>1, <1>6, <1>7, <1>9, <1>10 DEF Behind
<1>12. Reading'
  BY <1>2, <1>3, <1>7, <1>8 DEF Reading
<1> QED
  BY <1>2, <1>7, <1>11, <1>12 DEF InStream, Delivered

\* The connection is closed only at the end of the stream, and the stream ends
\* between two frames.
LEMMA NothingRead ==
    ASSUME StreamInv, recvNothing, UNCHANGED <<sent, wire, left>>
    PROVE  /\ Reading' /\ InStream' /\ Delivered
           /\ iopc' = "closed" => pushed' = sent' /\ left'
<1> DEFINE k == Len(pushed)
<1>1. PICK S, at : InTransit(sent, wire, rx, S, at, Position(at), at[Len(sent)])
  BY DEF StreamInv, InStream
<1>2. /\ rx = <<>> /\ (state = "RX_MSG" => msgRemainingBytes > 0)
      /\ iopc' = (IF rxFin THEN "closed" ELSE "epoll")
      /\ UNCHANGED <<pushed, rx, state, lenRemainingBytes, msg, msgRemainingBytes>>
      /\ state = "RX_MSG" => len' = len
  BY DEF recvNothing
<1>3. RPTypeOK /\ Reading /\ Prefix /\ Ended
  BY DEF StreamInv
<1>4. Reading'
  BY <1>2, <1>3 DEF Reading
<1>5. Position(at)' = Position(at)
  BY <1>2 DEF Position
<1>6. InStream'
  BY <1>1, <1>2, <1>5 DEF InStream
<1>7. ASSUME rxFin PROVE pushed = sent /\ left
  <2>1. left /\ wire = <<>>
    BY <1>3, <1>7 DEF Ended
  <2>2. Position(at) = at[Len(sent)]
    BY <1>1, <1>2, <2>1, NothingInTransit
  <2>3. /\ sent \in Seq(AnyMessage) /\ pushed \in Seq(Seq(Byte))
        /\ k \in Nat /\ Len(sent) \in Nat /\ at[k] \in Nat /\ Len(msg) \in Nat
        /\ at[Len(sent)] \in Nat
    BY <1>1, <1>3, FramerTyped, FramerPlaces
  <2>4. k = Len(sent)
    <3>1. SUFFICES ASSUME k < Len(sent) PROVE FALSE
      BY <1>3, <2>3 DEF Reading
    <3> DEFINE a == at[k]
               t == at[Len(sent)]
               l == Len(Message(sent, k))
    <3>2. Encoded(sent, S, at)
      BY <1>1 DEF InTransit
    <3>3. a \in Nat /\ l \in Nat /\ t \in Nat /\ a + 3 + l <= t
      BY <2>3, <3>1, <3>2, NextFrame DEF Message
    <3>4. t = a + (IF state = "RX_HEADER" THEN 0
                   ELSE IF state = "RX_LEN" THEN 1 ELSE 3 + Len(msg))
      BY <2>2 DEF Position
    <3>5. state = "RX_HEADER" \/ state = "RX_LEN" \/ state = "RX_MSG"
      BY <1>3 DEF RPTypeOK
    <3>6. state = "RX_MSG" => /\ Len(msg) + msgRemainingBytes = l
                              /\ msgRemainingBytes > 0 /\ msgRemainingBytes \in Nat
      BY <1>2, <1>3 DEF RPTypeOK, Reading
    <3> HIDE DEF a, t, l
    <3>7. state = "RX_HEADER" => t = a
      BY <3>3, <3>4
    <3>8. state = "RX_LEN" => t = a + 1
      BY <3>3, <3>4
    <3>9. state = "RX_MSG" => t = a + 3 + Len(msg)
      BY <2>3, <3>3, <3>4
    <3> QED
      BY <2>3, <3>3, <3>5, <3>6, <3>7, <3>8, <3>9
  <2>5. pushed = sent
    <3>1. sent \in Seq(Seq(Byte))
      <4>1. AnyMessage \subseteq Seq(Byte)
        BY DEF AnyMessage
      <4> QED
        BY <2>3, <4>1, SeqMonotonic
    <3> QED
      BY <1>3, <2>3, <2>4, <3>1, SeqEqual DEF Prefix
  <2> QED
    BY <2>1, <2>5
<1> QED
  BY <1>2, <1>4, <1>6, <1>7 DEF Delivered

-----------------------------------------------------------------------------
(* The refinement. *)

LEMMA StreamInit == Init => StreamInv
<1> SUFFICES ASSUME Init PROVE StreamInv
  OBVIOUS
<1>1. /\ sent = <<>> /\ pushed = <<>> /\ wire = <<>> /\ rx = <<>> /\ rxFin = FALSE
      /\ iopc = "epoll" /\ state = "RX_HEADER"
  BY DEF Init
<1>2. Len(<<>>) = 0
  BY EmptySeq
<1>3. PICK S, at : InTransit(<<>>, <<>>, <<>>, S, at, 0, 0) /\ at[0] = 0
  BY NothingSent
<1>4. Position(at) = 0 /\ at[Len(sent)] = 0
  BY <1>1, <1>2, <1>3 DEF Position
<1>5. InTransit(sent, wire, rx, S, at, Position(at), at[Len(sent)])
  BY <1>1, <1>3, <1>4
<1>6. RPTypeOK /\ Ended /\ Reading /\ Prefix
  BY <1>1, <1>2, TypesInit DEF Ended, Reading, Prefix
<1> QED
  BY <1>5, <1>6 DEF StreamInv, InStream

\* A step of PFramer delivers the next frame, or none.
LEMMA StreamRead ==
    ASSUME StreamInv, RPTypeOK', tryRead
    PROVE  StreamInv' /\ Delivered /\ UNCHANGED sent
<1>1. RPTypeOK /\ Ended /\ Prefix
  BY DEF StreamInv
<1>2. /\ iopc = "read" /\ UNCHANGED <<sent, wire, left, rxFin>>
      /\ recvNothing \/ recvHeader \/ recvLen \/ recvMsg \/ emptyMsg
  BY DEF tryRead, netVars
<1>3. /\ Reading' /\ InStream' /\ Delivered
      /\ iopc' = "closed" => pushed' = sent' /\ left'
  <2>1. CASE recvNothing
    BY <1>2, <2>1, NothingRead
  <2>2. CASE recvHeader
    BY <1>2, <2>2, HeaderRead
  <2>3. CASE recvLen
    BY <1>2, <2>3, LengthRead
  <2>4. CASE recvMsg
    BY <1>2, <2>4, MessageRead
  <2>5. CASE emptyMsg
    BY <1>2, <2>5, EmptyRead
  <2> QED
    BY <1>2, <2>1, <2>2, <2>3, <2>4, <2>5
<1>4. Ended'
  BY <1>1, <1>2, <1>3 DEF Ended
<1>5. Prefix'
  <2>1. CASE UNCHANGED pushed
    BY <1>1, <1>2, <2>1 DEF Prefix
  <2>2. CASE /\ Len(pushed) < Len(sent)
             /\ pushed' = Append(pushed, sent[Len(pushed) + 1])
    <3>1. pushed \in Seq(Seq(Byte)) /\ Len(pushed) \in Nat
      BY <1>1, FramerTyped
    <3> QED
      BY <1>1, <1>2, <2>2, <3>1 DEF Prefix
  <2> QED
    BY <1>3, <2>1, <2>2 DEF Delivered, Message
<1> QED
  BY <1>2, <1>3, <1>4, <1>5 DEF StreamInv

\* A frame that is sent goes into the stream piece by piece.
LEMMA FramePut ==
    ASSUME NEW s \in Seq(AnyMessage), NEW m \in AnyMessage, NEW w \in Seq(Pieces),
           NEW r \in Seq(Byte), NEW S, NEW at, NEW pos, NEW S2, NEW at2,
           InTransit(s, w, r, S, at, pos, at[Len(s)]), Longer(s, m, S, at, S2, at2)
    PROVE  InTransit(Append(s, m), w \o FramePieces(m), r, S2, at2, pos,
                     at2[Len(Append(s, m))])
<1> DEFINE k == Len(s)
           s2 == Append(s, m)
           bytes == Memory(Swap(Len(m)))
           w1 == Append(w, Piece("header", <<Header>>))
           w2 == Append(w1, Piece("len", bytes))
           w3 == Append(w2, Piece("msg", m))
<1>1. k \in Nat /\ m \in Seq(Byte) /\ Len(m) \in Nat
  BY LenProperties, MessageType
<1>2. s2 \in Seq(AnyMessage) /\ Len(s2) = k + 1 /\ k < Len(s2) /\ s2[k + 1] = m
  BY <1>1, AppendProperties
<1>3. at2[k] = at[k]
  BY <1>1 DEF Longer
<1>4. InTransit(s2, w, r, S2, at2, pos, at2[k])
  BY <1>3, WriterGiven
<1>5. Encoded(s2, S2, at2)
  BY <1>4 DEF InTransit
<1>6. at2[k] \in Nat /\ at2[k + 1] = at2[k] + 3 + Len(m)
  <2> HIDE DEF s2, k
  <2>1. at2[k] \in Nat /\ at2[k + 1] = at2[k] + 3 + Len(s2[k + 1])
    BY <1>1, <1>2, <1>5, NextFrame, SMTT(40)
  <2> QED
    BY <1>2, <2>1
<1> HIDE DEF s2, w1, w2, w3, bytes
<1>7. w1 \in Seq(Pieces) /\ InTransit(s2, w1, r, S2, at2, pos, at2[k] + 1)
  BY <1>1, <1>2, <1>4, HeaderPut DEF w1
<1>8. w2 \in Seq(Pieces) /\ InTransit(s2, w2, r, S2, at2, pos, at2[k] + 3)
  <2> DEFINE x == Piece("len", Memory(Swap(Len(s2[k + 1]))))
  <2>1. /\ Append(w1, x) \in Seq(Pieces)
        /\ InTransit(s2, Append(w1, x), r, S2, at2, pos, at2[k] + 3)
    BY <1>1, <1>2, <1>7, LengthPut
  <2>2. w2 = Append(w1, x)
    BY <1>2 DEF w2, bytes
  <2> QED
    BY <2>1, <2>2
<1>9. CASE m = <<>>
  <2>1. at2[k + 1] = at2[k] + 3
    BY <1>6, <1>9, EmptySeq
  <2>2. w \o FramePieces(m) = w2
    BY <1>9, FramePiecesAppended DEF w2, w1, bytes
  <2> QED
    BY <1>2, <1>8, <2>1, <2>2 DEF s2
<1>10. CASE m # <<>>
  <2>1. InTransit(s2, w2, r, S2, at2, pos, at2[k] + (3 + 0))
    BY <1>6, <1>8
  <2>2. 0 + Len(m) <= Len(s2[k + 1]) /\ \A p \in 1 .. Len(m) : m[p] = s2[k + 1][0 + p]
    BY <1>1, <1>2
  <2>3. InTransit(s2, w3, r, S2, at2, pos, at2[k] + (3 + (0 + Len(m))))
    BY <1>1, <1>2, <1>8, <2>1, <2>2, MessagePut DEF w3
  <2>4. at2[k] + (3 + (0 + Len(m))) = at2[k + 1]
    <3> DEFINE a == at2[k]
               b == at2[k + 1]
               l == Len(m)
    <3>1. a \in Nat /\ l \in Nat /\ b = a + 3 + l
      BY <1>1, <1>6
    <3> HIDE DEF a, b, l
    <3>2. a + (3 + (0 + l)) = b
      BY <3>1
    <3> QED
      BY <3>2 DEF a, b, l
  <2>5. w \o FramePieces(m) = w3
    BY <1>10, FramePiecesAppended DEF w3, w2, w1, bytes
  <2> QED
    BY <1>2, <2>3, <2>4, <2>5 DEF s2
<1> QED
  BY <1>9, <1>10

\* A frame sent changes nothing of what PFramer has read.
LEMMA StreamSend ==
    ASSUME StreamInv, RPTypeOK', NEW m \in Messages, sendFrame(m)
    PROVE  StreamInv' /\ sent' = Append(sent, m) /\ UNCHANGED pushed
<1>1. PICK S, at : InTransit(sent, wire, rx, S, at, Position(at), at[Len(sent)])
  BY DEF StreamInv, InStream
<1>2. RPTypeOK /\ Reading /\ Prefix /\ Ended
  BY DEF StreamInv
<1>3. /\ sent \in Seq(AnyMessage) /\ wire \in Seq(Pieces) /\ rx \in Seq(Byte)
      /\ Len(pushed) \in Nat /\ Len(sent) \in Nat
  BY <1>2, FramerTyped
<1>4. /\ ~left /\ sent' = Append(sent, m)
      /\ UNCHANGED <<left, rxFin, pushed, rx, iopc, state, frameVars>>
      /\ wire' = wire \o FramePieces(m) /\ m \in AnyMessage
  BY <1>3, AreMessages, FramePiecesType DEF sendFrame
<1>5. PICK S2, at2 : Longer(sent, m, S, at, S2, at2)
  BY <1>1, <1>3, <1>4, SentStream DEF InTransit
<1>6. Position(at2)' = Position(at)
  <2>1. at2[Len(pushed)] = at[Len(pushed)]
    BY <1>2, <1>3, <1>5 DEF Longer, Reading
  <2> QED
    BY <1>4, <2>1 DEF Position, frameVars
<1>7. InTransit(sent', wire', rx', S2, at2, Position(at), at2[Len(sent')])
  BY <1>1, <1>3, <1>4, <1>5, FramePut
<1>8. InStream'
  BY <1>6, <1>7 DEF InStream
<1>9. Len(sent') = Len(sent) + 1 /\ \A i \in 1 .. Len(sent) : sent'[i] = sent[i]
  BY <1>3, <1>4
<1>10. Reading'
  <2>1. Len(pushed') <= Len(sent')
    BY <1>2, <1>3, <1>4, <1>9 DEF Reading
  <2>2. CASE state = "RX_HEADER"
    BY <1>4, <2>1, <2>2 DEF Reading
  <2>3. CASE state # "RX_HEADER"
    <3>1. Len(pushed) < Len(sent)
      BY <1>2, <2>3 DEF Reading
    <3>2. Len(pushed) < Len(sent') /\ Message(sent', Len(pushed)) = Message(sent, Len(pushed))
      <4>1. Len(pushed) + 1 \in 1 .. Len(sent)
        BY <1>3, <3>1
      <4> QED
        BY <1>3, <1>9, <3>1, <4>1 DEF Message
    <3> QED
      BY <1>2, <1>4, <2>1, <2>3, <3>2 DEF Reading, frameVars
  <2> QED
    BY <2>2, <2>3
<1>11. Prefix'
  <2>1. \A i \in 1 .. Len(pushed) : i \in 1 .. Len(sent)
    BY <1>2, <1>3 DEF Reading
  <2> QED
    BY <1>2, <1>4, <1>9, <2>1 DEF Prefix
<1>12. Ended'
  BY <1>2, <1>4 DEF Ended
<1> QED
  BY <1>4, <1>8, <1>10, <1>11, <1>12 DEF StreamInv

LEMMA StreamArrive ==
    ASSUME "len" \notin Cuts, StreamInv, RPTypeOK', Arrive
    PROVE  StreamInv' /\ UNCHANGED <<sent, pushed>>
<1>1. PICK S, at : InTransit(sent, wire, rx, S, at, Position(at), at[Len(sent)])
  BY DEF StreamInv, InStream
<1>2. RPTypeOK /\ Reading /\ Prefix /\ Ended
  BY DEF StreamInv
<1>3. PICK n \in Segments(wire) :
        rx' = rx \o First(n, Head(wire).bytes) /\ wire' = Taken(wire, n)
  BY DEF Arrive
<1>4. UNCHANGED <<sent, left, rxFin, pushed, iopc, state, frameVars>>
  BY DEF Arrive
<1>5. sent \in Seq(AnyMessage) /\ wire \in Seq(Pieces) /\ rx \in Seq(Byte)
  BY <1>2, FramerTyped
<1>6. InTransit(sent, wire', rx', S, at, Position(at), at[Len(sent)])
  BY <1>1, <1>3, <1>5, NetworkKeeps
<1>7. Position(at)' = Position(at)
  BY <1>4 DEF Position, frameVars
<1>8. InStream'
  BY <1>4, <1>6, <1>7 DEF InStream
<1>9. Reading' /\ Prefix'
  BY <1>2, <1>4 DEF Reading, Prefix, frameVars
<1>10. Ended'
  <2>1. wire # <<>>
    BY <1>3, <1>5, ArriveTypes
  <2> QED
    BY <1>2, <1>4, <2>1 DEF Ended
<1> QED
  BY <1>4, <1>8, <1>9, <1>10 DEF StreamInv

\* A step that touches neither the stream nor PFramer.
LEMMA StreamOther ==
    ASSUME StreamInv, RPTypeOK', Leave \/ ArriveFin \/ EpollIn \/ UNCHANGED vars
    PROVE  StreamInv' /\ UNCHANGED <<sent, pushed>>
<1>1. PICK S, at : InTransit(sent, wire, rx, S, at, Position(at), at[Len(sent)])
  BY DEF StreamInv, InStream
<1>2. UNCHANGED <<sent, wire, pushed, rx, state, frameVars>>
  BY DEF Leave, ArriveFin, EpollIn, vars, netVars, frameVars
<1>3. Position(at)' = Position(at)
  BY <1>2 DEF Position, frameVars
<1>4. InStream'
  BY <1>1, <1>2, <1>3 DEF InStream
<1>5. Reading' /\ Prefix'
  BY <1>2 DEF StreamInv, Reading, Prefix, frameVars
<1>6. Ended'
  BY DEF StreamInv, Ended, Leave, ArriveFin, EpollIn, vars, netVars
<1> QED
  BY <1>2, <1>4, <1>5, <1>6 DEF StreamInv

LEMMA StreamStep ==
    ASSUME "len" \notin Cuts, StreamInv, [Next]_vars
    PROVE  StreamInv' /\ [Stream!FSNext]_<<sent, pushed>>
<1>1. RPTypeOK'
  BY TypesStep DEF StreamInv
<1>2. ASSUME NEW m \in Messages, sendFrame(m)
      PROVE  StreamInv' /\ [Stream!FSNext]_<<sent, pushed>>
  BY <1>1, <1>2, StreamSend DEF Stream!FSNext, Stream!Send
<1>3. CASE Arrive
  BY <1>1, <1>3, StreamArrive
<1>4. CASE Leave \/ ArriveFin \/ EpollIn \/ UNCHANGED vars
  BY <1>1, <1>4, StreamOther
<1>5. CASE tryRead
  BY <1>1, <1>5, StreamRead DEF Delivered, Message, Stream!FSNext, Stream!Deliver
<1> QED
  BY <1>2, <1>3, <1>4, <1>5 DEF Next

\* "Full frame in queue for" (Server.cpp:184): whatever the client sends and
\* however the network cuts headers and messages, the frames PFramer pushes to wqIn
\* are those the client sent, whole, once and in order, as long as the two bytes
\* of a length are received together.
THEOREM RequestsInOrder ==
    ASSUME "len" \notin Cuts
    PROVE  Spec => FramesInOrder
<1>1. Init => StreamInv /\ Stream!FSInit
  BY StreamInit DEF Init, Stream!FSInit
<1>2. StreamInv /\ [Next]_vars => StreamInv' /\ [Stream!FSNext]_<<sent, pushed>>
  BY StreamStep
<1> QED
  BY <1>1, <1>2, PTL DEF Spec, FramesInOrder, Stream!FSSpec

\* Under the same condition handleDataIn closes a connection at the end of its
\* stream only when every frame the client sent is in the queue.
THEOREM ClosesAfterLastFrame ==
    ASSUME "len" \notin Cuts
    PROVE  Spec => []ClosedAfterLastFrame
<1>1. Init => StreamInv
  BY StreamInit
<1>2. StreamInv /\ [Next]_vars => StreamInv'
  BY StreamStep
<1>3. StreamInv => ClosedAfterLastFrame
  BY DEF StreamInv, Ended, ClosedAfterLastFrame
<1> QED
  BY <1>1, <1>2, <1>3, PTL DEF Spec
=============================================================================
