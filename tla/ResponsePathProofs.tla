-------------------------- MODULE ResponsePathProofs --------------------------
(***************************************************************************)
(* PDeframer and IOFrameSocket::recvFrame for every base, every set of      *)
(* messages, every number of frames and every way to cut the stream: their  *)
(* types, and, as long as the two bytes of a length move in one piece, what *)
(* the client reads for the frames the server was given, wherever a full    *)
(* buffer interrupts them.                                                  *)
(***************************************************************************)
EXTENDS ResponsePath, ByteStreamProofs

-----------------------------------------------------------------------------
(* Type correctness. *)

\* What is left of a length or a message belongs to the state.
Counters ==
    /\ state = "TX_LEN" => lenRemainingBytes \in 1 .. 2
    /\ state # "TX_MSG" => msgRemainingBytes = 0
    /\ cstate = "msg" => Len(cmsg) < clen
    /\ cstate # "msg" => cmsg = <<>>
    /\ (iopc = "write" \/ writeInProgress) => sent # <<>>

Types == SPTypeOK /\ Counters

LEMMA LengthRange ==
    /\ 0 \in 0 .. Base * Base - 1
    /\ \A v \in 0 .. Base * Base - 1 : v \in Nat
<1>1. Base * Base >= Base
  BY BaseType
<1> QED
  BY <1>1, BaseType

\* Something that was sent is a piece of the wire.
LEMMA SendType ==
    ASSUME NEW w \in Seq(Pieces), NEW kind \in Kinds, NEW bytes \in Seq(Byte),
           NEW k \in 0 .. Len(bytes)
    PROVE  (IF k = 0 THEN w ELSE Append(w, Piece(kind, First(k, bytes)))) \in Seq(Pieces)
<1>1. First(k, bytes) \in Seq(Byte)
  BY Parts
<1>2. Piece(kind, First(k, bytes)) \in Pieces
  BY <1>1 DEF Piece, Pieces
<1> QED
  BY <1>2, AppendProperties

\* The bytes sendMsg sends are bytes.
LEMMA MsgBytesType ==
    ASSUME SPTypeOK, NEW bytes \in MsgBytes
    PROVE  bytes \in Seq(Byte) /\ Len(bytes) = msgRemainingBytes
<1> DEFINE from == len - msgRemainingBytes
           over == (from + 1 .. len) \ DOMAIN msg
<1>1. len \in Nat /\ msgRemainingBytes \in 0 .. len /\ msg \in Seq(Byte)
  BY LengthRange DEF SPTypeOK
<1>2. msgRemainingBytes \in Nat /\ from \in Nat
  BY <1>1
<1>3. PICK heap \in [over -> Byte] :
        bytes = [i \in 1 .. msgRemainingBytes |->
                    IF from + i \in over THEN heap[from + i] ELSE msg[from + i]]
  BY DEF MsgBytes
<1>4. ASSUME NEW i \in 1 .. msgRemainingBytes PROVE bytes[i] \in Byte
  <2>1. from + i \in from + 1 .. len
    BY <1>1, <1>2
  <2>2. CASE from + i \in over
    BY <1>3, <2>2
  <2>3. CASE from + i \notin over
    <3>1. from + i \in DOMAIN msg
      BY <2>1, <2>3
    <3>2. msg[from + i] \in Byte
      BY <1>1, <3>1
    <3> QED
      BY <1>3, <2>3, <3>2
  <2> QED
    BY <2>2, <2>3
<1>5. bytes = [i \in 1 .. msgRemainingBytes |-> bytes[i]]
  BY <1>3
<1> QED
  BY <1>2, <1>4, <1>5, IsASeq

LEMMA TypesOfDeframer ==
    ASSUME Types, tryWrite
    PROVE  Types'
<1>1. /\ wire \in Seq(Pieces) /\ len \in 0 .. Base * Base - 1 /\ len \in Nat
      /\ lenRemainingBytes \in 0 .. 2 /\ msgRemainingBytes \in 0 .. len
  BY LengthRange DEF Types, SPTypeOK, Pieces
<1>2. UNCHANGED <<sent, edge, rx, clientVars>> /\ iopc = "write" /\ sent # <<>>
  BY DEF tryWrite, Types, Counters
<1>3. ASSUME sendHeader PROVE Types'
  <2>1. PICK k \in Taking("header", 1) :
            /\ trySend("header", <<Header>>, k)
            /\ state' = IF k = 1 THEN "TX_LEN" ELSE state
            /\ lenRemainingBytes' = IF k = 1 THEN 2 ELSE lenRemainingBytes
    BY <1>3 DEF sendHeader
  <2>2. <<Header>> \in Seq(Byte) /\ Len(<<Header>>) = 1 /\ "header" \in Kinds
    BY BaseType DEF Kinds
  <2>3. k \in 0 .. 1
    BY DEF Taking
  <2>4. wire' \in Seq(Pieces) /\ nospace' \in BOOLEAN /\ iopc' \in {"epoll", "write"}
    BY <1>1, <2>1, <2>2, <2>3, SendType DEF trySend
  <2> QED
    BY <1>2, <1>3, <2>1, <2>4
       DEF sendHeader, Types, Counters, SPTypeOK, Pieces, clientVars
<1>4. ASSUME sendLen PROVE Types'
  <2>1. PICK bytes \in LenBytes(Swap(len)), k \in Taking("len", lenRemainingBytes) :
            /\ trySend("len", bytes, k)
            /\ lenRemainingBytes' = lenRemainingBytes - k
            /\ state' = IF lenRemainingBytes' = 0 THEN "TX_MSG" ELSE state
            /\ len' = IF lenRemainingBytes' = 0 THEN len ELSE Swap(len)
            /\ msgRemainingBytes' = IF lenRemainingBytes' = 0 THEN len ELSE msgRemainingBytes
            /\ swapped' = IF k = 0 THEN RefusedAgain ELSE swapped
    BY <1>4 DEF sendLen
  <2>10. swapped' \subseteq DOMAIN sent
    <3>1. swapped \subseteq DOMAIN sent /\ sent \in Seq(Messages)
      BY DEF Types, SPTypeOK
    <3>2. Len(sent) \in DOMAIN sent
      BY <1>2, <3>1, EmptySeq, LenProperties
    <3>3. RefusedAgain \subseteq swapped \union {Len(sent)}
      BY DEF RefusedAgain
    <3> QED
      BY <2>1, <3>1, <3>2, <3>3
  <2>2. state = "TX_LEN" /\ lenRemainingBytes \in 1 .. 2 /\ msgRemainingBytes = 0
    BY <1>4 DEF sendLen, Types, Counters
  <2>3. Swap(len) \in 0 .. Base * Base - 1
    BY <1>1, SwapTwice
  <2>4. bytes \in Seq(Byte) /\ Len(bytes) = lenRemainingBytes
    <3>1. CASE lenRemainingBytes = 2
      BY <2>3, <3>1, ValueOfMemory DEF LenBytes
    <3>2. CASE lenRemainingBytes = 1
      <4>1. PICK b \in Byte : bytes = <<b>>
        BY <3>2 DEF LenBytes
      <4> QED
        BY <3>2, <4>1
    <3> QED
      BY <2>2, <3>1, <3>2
  <2>5. k \in 0 .. lenRemainingBytes
    BY DEF Taking
  <2>6. wire' \in Seq(Pieces) /\ nospace' \in BOOLEAN /\ iopc' \in {"epoll", "write"}
    <3>1. "len" \in Kinds
      BY DEF Kinds
    <3> QED
      BY <1>1, <2>1, <2>4, <2>5, <3>1, SendType DEF trySend
  <2>7. lenRemainingBytes' \in 0 .. 2
    BY <2>1, <2>2, <2>5
  <2>8. CASE lenRemainingBytes' = 0
    BY <1>1, <1>2, <1>4, <2>1, <2>6, <2>8, <2>10
       DEF sendLen, Types, Counters, SPTypeOK, Pieces, clientVars
  <2>9. CASE lenRemainingBytes' # 0
    <3>1. lenRemainingBytes' \in 1 .. 2 /\ 0 \in 0 .. len'
      BY <2>1, <2>3, <2>7, <2>9, LengthRange
    <3> QED
      BY <1>1, <1>2, <1>4, <2>1, <2>2, <2>3, <2>6, <2>9, <2>10, <3>1
         DEF sendLen, Types, Counters, SPTypeOK, Pieces, clientVars
  <2> QED
    BY <2>8, <2>9
<1>5. ASSUME sendMsg PROVE Types'
  <2>1. PICK bytes \in MsgBytes, k \in Taking("msg", msgRemainingBytes) :
            /\ wire' = IF k = 0 THEN wire ELSE Append(wire, Piece("msg", First(k, bytes)))
            /\ nospace' = (k = 0)
            /\ msgRemainingBytes' = msgRemainingBytes - k
            /\ writeInProgress' = (k < msgRemainingBytes)
            /\ iopc' = IF k = 0 \/ k = msgRemainingBytes THEN "epoll" ELSE "write"
    BY <1>5 DEF sendMsg
  <2>2. bytes \in Seq(Byte) /\ Len(bytes) = msgRemainingBytes
    BY MsgBytesType DEF Types
  <2>3. k \in 0 .. msgRemainingBytes
    BY DEF Taking
  <2>4. wire' \in Seq(Pieces)
    <3>1. "msg" \in Kinds
      BY DEF Kinds
    <3> QED
      BY <1>1, <2>1, <2>2, <2>3, <3>1, SendType
  <2>5. msgRemainingBytes' \in 0 .. len
    BY <1>1, <2>1, <2>3
  <2> QED
    BY <1>2, <1>5, <2>1, <2>4, <2>5
       DEF sendMsg, Types, Counters, SPTypeOK, Pieces, clientVars
<1>6. ASSUME sendEmpty PROVE Types'
  BY <1>2, <1>6 DEF sendEmpty, Types, Counters, SPTypeOK, clientVars
<1> QED
  BY <1>3, <1>4, <1>5, <1>6 DEF tryWrite

LEMMA TypesOfClient ==
    ASSUME Types, recvFrame
    PROVE  Types'
<1>1. /\ rx \in Seq(Byte) /\ cmsg \in Seq(Byte) /\ received \in Seq(Seq(Byte))
      /\ Len(rx) \in Nat /\ Len(cmsg) \in Nat /\ Len(received) \in Nat
      /\ clen \in 0 .. Base * Base - 1 /\ clen \in Nat
      /\ refused \subseteq 1 .. Len(received)
  BY LenProperties, LengthRange DEF Types, SPTypeOK
<1>2. rx # <<>> /\ UNCHANGED <<sent, swapped, wire, nospace, edge, iopc, deframerVars>>
  BY DEF recvFrame
<1>3. ASSUME readHeader PROVE Types'
  <2>1. rx' \in Seq(Byte)
    BY <1>1, <1>2, <1>3, HeadTailProperties DEF readHeader
  <2> QED
    BY <1>2, <1>3, <2>1 DEF readHeader, Types, Counters, SPTypeOK, deframerVars
<1>4. ASSUME NEW m \in Seq(Byte), NEW n, NEW length, FrameRead(m, n, length),
             rx' \in Seq(Byte), UNCHANGED garbled
      PROVE  Types'
  <2>1. /\ received' \in Seq(Seq(Byte)) /\ Len(received') = Len(received) + 1
    BY <1>1, <1>4, AppendProperties DEF FrameRead
  <2>2. refused' \subseteq DOMAIN received'
    <3>1. DOMAIN received' = 1 .. Len(received) + 1
      BY <2>1
    <3>2. refused' \subseteq refused \union {Len(received) + 1}
      BY <1>4 DEF FrameRead
    <3> QED
      BY <1>1, <3>1, <3>2
  <2>3. cmsg' = <<>> /\ <<>> \in Seq(Byte)
    BY <1>4 DEF FrameRead
  <2> QED
    BY <1>2, <1>4, <2>1, <2>2, <2>3, LengthRange
       DEF FrameRead, Types, Counters, SPTypeOK, deframerVars
<1>5. ASSUME readLen PROVE Types'
  <2> DEFINE n == Smaller(2, Len(rx))
             length == Swap(Value(IF n = 2 THEN First(2, rx) ELSE <<rx[1], 0>>))
  <2>1. /\ rx' = Rest(n, rx) /\ UNCHANGED garbled /\ cstate = "len"
        /\ \/ length = 0 /\ FrameRead(<<>>, nrecv, length)
           \/ /\ length # 0
              /\ clen' = length /\ cstate' = "msg"
              /\ UNCHANGED <<nrecv, cmsg, received, refused>>
    BY <1>5 DEF readLen
  <2>2. n \in 0 .. Len(rx)
    BY <1>1, SmallerType
  <2>3. rx' \in Seq(Byte)
    BY <1>1, <2>1, <2>2, Parts
  <2>4. length \in 0 .. Base * Base - 1
    <3>1. CASE n = 2
      <4>1. First(2, rx) \in Seq(Byte) /\ Len(First(2, rx)) = 2
        <5>1. 2 \in 0 .. Len(rx)
          BY <2>2, <3>1
        <5> QED
          BY <1>1, <5>1, Parts
      <4> DEFINE x == First(2, rx)
      <4> HIDE DEF x
      <4>2. x = <<x[1], x[2]>> /\ x[1] \in Byte /\ x[2] \in Byte
        BY <4>1 DEF x
      <4>3. Value(x) \in 0 .. Base * Base - 1
        BY <4>2, ValueOfMemory
      <4> QED
        BY <3>1, <4>3, SwapTwice DEF x
    <3>2. CASE n # 2
      <4>1. rx[1] \in Byte /\ 0 \in Byte
        <5>1. 1 \in 1 .. Len(rx)
          BY <1>1, <1>2, EmptySeq
        <5> QED
          BY <1>1, <5>1, ElementOfSeq, BaseType DEF Byte
      <4>2. Value(<<rx[1], 0>>) \in 0 .. Base * Base - 1
        BY <4>1, ValueOfMemory
      <4> QED
        BY <3>2, <4>2, SwapTwice
    <3> QED
      BY <3>1, <3>2
  <2> HIDE DEF n, length
  <2>5. CASE length = 0 /\ FrameRead(<<>>, nrecv, length)
    BY <1>4, <2>1, <2>3, <2>5, EmptySeq
  <2>6. CASE /\ length # 0
             /\ clen' = length /\ cstate' = "msg"
             /\ UNCHANGED <<nrecv, cmsg, received, refused>>
    <3>1. cmsg = <<>> /\ Len(cmsg) = 0
      BY <2>1, EmptySeq DEF Types, Counters
    <3>2. Len(cmsg') < clen'
      BY <2>4, <2>6, <3>1, LengthRange
    <3> QED
      BY <1>2, <2>1, <2>3, <2>4, <2>6, <3>2 DEF Types, Counters, SPTypeOK, deframerVars
  <2> QED
    BY <2>1, <2>5, <2>6
<1>6. ASSUME readMsg PROVE Types'
  <2> DEFINE n == Smaller(clen - Len(cmsg), Len(rx))
             m == cmsg \o First(n, rx)
  <2>1. /\ rx' = Rest(n, rx) /\ UNCHANGED garbled /\ cstate = "msg"
        /\ \/ Len(m) = clen /\ FrameRead(m, n, clen)
           \/ /\ Len(m) < clen
              /\ cmsg' = m
              /\ UNCHANGED <<cstate, clen, nrecv, received, refused>>
    BY <1>6 DEF readMsg
  <2>2. Len(cmsg) < clen
    BY <2>1 DEF Types, Counters
  <2>3. n \in 0 .. Len(rx)
    BY <1>1, <2>2 DEF Smaller
  <2>4. rx' \in Seq(Byte) /\ First(n, rx) \in Seq(Byte)
    BY <1>1, <2>1, <2>3, Parts
  <2>5. m \in Seq(Byte)
    BY <1>1, <2>4, ConcatProperties
  <2> HIDE DEF n, m
  <2>6. CASE Len(m) = clen /\ FrameRead(m, n, clen)
    BY <1>4, <2>1, <2>4, <2>5, <2>6
  <2>7. CASE /\ Len(m) < clen
             /\ cmsg' = m
             /\ UNCHANGED <<cstate, clen, nrecv, received, refused>>
    BY <1>2, <2>1, <2>4, <2>5, <2>7 DEF Types, Counters, SPTypeOK, deframerVars
  <2> QED
    BY <2>1, <2>6, <2>7
<1> QED
  BY <1>3, <1>5, <1>6 DEF recvFrame

LEMMA TypesOfOthers ==
    ASSUME Types, (\E m \in Messages : setSentItem(m)) \/ EpollOut \/ Arrive
    PROVE  Types'
<1>1. ASSUME NEW m \in Messages, setSentItem(m) PROVE Types'
  <2>1. sent' \in Seq(Messages) /\ sent \in Seq(Messages)
    BY <1>1, AppendProperties DEF setSentItem, Types, SPTypeOK
  <2>2. m \in Seq(Byte) /\ Len(m) \in 0 .. Base * Base - 1 /\ 0 \in 0 .. Len(m)
    BY AreMessages, MessageType, LengthRange
  <2>3. sent' = Append(sent, m) /\ sent' # <<>> /\ DOMAIN sent \subseteq DOMAIN sent'
    <3>1. sent' = Append(sent, m)
      BY <1>1 DEF setSentItem
    <3>2. /\ Len(sent) \in Nat /\ Len(sent') = Len(sent) + 1
          /\ DOMAIN sent = 1 .. Len(sent) /\ DOMAIN sent' = 1 .. Len(sent')
      BY <2>1, <3>1, AppendProperties, LenProperties
    <3> QED
      BY <3>1, <3>2, EmptySeq
  <2> QED
    BY <1>1, <2>1, <2>2, <2>3 DEF setSentItem, Types, Counters, SPTypeOK, clientVars
<1>2. ASSUME EpollOut PROVE Types'
  BY <1>2 DEF EpollOut, Types, Counters, SPTypeOK, deframerVars, clientVars
<1>3. ASSUME Arrive PROVE Types'
  <2>1. PICK n \in Segments(wire) :
            rx' = rx \o First(n, Head(wire).bytes) /\ wire' = Taken(wire, n)
    BY <1>3 DEF Arrive
  <2>2. wire \in Seq(Pieces) /\ rx \in Seq(Byte)
    BY DEF Types, SPTypeOK, Pieces
  <2>3. First(n, Head(wire).bytes) \in Seq(Byte) /\ wire' \in Seq(Pieces)
    BY <2>1, <2>2, ArriveTypes
  <2>4. rx' \in Seq(Byte)
    BY <2>1, <2>2, <2>3, ConcatProperties
  <2> QED
    BY <1>3, <2>3, <2>4 DEF Arrive, Types, Counters, SPTypeOK, Pieces, deframerVars, clientVars
<1> QED
  BY <1>1, <1>2, <1>3

LEMMA TypesInit == Init => Types
<1> SUFFICES ASSUME Init PROVE Types
  OBVIOUS
<1>1. /\ <<>> \in Seq(Messages) /\ <<>> \in Seq(Seq(Byte)) /\ <<>> \in Seq(Byte)
      /\ <<>> \in Seq([kind : Kinds, bytes : Seq(Byte)])
  BY EmptySeq
<1>2. /\ sent \in Seq(Messages) /\ received \in Seq(Seq(Byte))
      /\ wire \in Seq([kind : Kinds, bytes : Seq(Byte)])
      /\ rx \in Seq(Byte) /\ msg \in Seq(Byte) /\ cmsg \in Seq(Byte) /\ cmsg = <<>>
  BY <1>1, Zenon DEF Init
<1>3. /\ refused = {} /\ swapped = {}
      /\ {garbled, nospace, edge, writeInProgress} \subseteq BOOLEAN
      /\ iopc = "epoll" /\ state = "TX_HEADER" /\ len = 0 /\ lenRemainingBytes = 0
      /\ msgRemainingBytes = 0 /\ cstate = "header" /\ clen = 0 /\ nrecv = 0
  BY DEF Init
<1>4. ~writeInProgress /\ iopc # "write" /\ refused \subseteq DOMAIN received
      /\ swapped \subseteq DOMAIN sent
  BY <1>3 DEF Init
<1> QED
  BY <1>2, <1>3, <1>4, LengthRange DEF Types, Counters, SPTypeOK

LEMMA TypesStep == Types /\ [Next]_vars => Types'
<1> SUFFICES ASSUME Types, [Next]_vars PROVE Types'
  OBVIOUS
<1>1. CASE (\E m \in Messages : setSentItem(m)) \/ EpollOut \/ Arrive
  BY <1>1, TypesOfOthers
<1>2. CASE tryWrite
  BY <1>2, TypesOfDeframer
<1>3. CASE recvFrame
  BY <1>3, TypesOfClient
<1>4. CASE UNCHANGED vars
  BY <1>4 DEF vars, deframerVars, clientVars, Types, Counters, SPTypeOK
<1> QED
  BY <1>1, <1>2, <1>3, <1>4 DEF Next

\* What PDeframer has left to send is never more than the message, and its counters
\* and those of recvFrame stay in range, however send and recv cut the stream.
THEOREM DeframerTypes == Spec => []SPTypeOK
<1>1. Types => SPTypeOK
  BY DEF Types
<1> QED
  BY <1>1, TypesInit, TypesStep, PTL DEF Spec

-----------------------------------------------------------------------------
(* What was written into the stream and what was read of it. *)

\* How many bytes of the stream PDeframer has sent.
Written(at) ==
    IF writeInProgress
    THEN at[Len(sent) - 1] + (IF state = "TX_HEADER" THEN 0
                              ELSE IF state = "TX_LEN" THEN 1
                              ELSE 3 + (len - msgRemainingBytes))
    ELSE at[Len(sent)]

\* How many bytes of the stream recvFrame has taken.
Position(at) ==
    at[Len(received)] + (IF cstate = "header" THEN 0
                         ELSE IF cstate = "len" THEN 1
                         ELSE 3 + Len(cmsg))

\* The length of the i-th item is out, and with it how much will be sent of it.
Settled(i) == i < Len(sent) \/ ~writeInProgress \/ state = "TX_MSG"

\* What goes out for a message m: as many bytes as its length says, or its length
\* with the bytes swapped, and m as far as both go.
Carries(o, m, odd) ==
    /\ Len(o) = IF odd THEN Swap(Len(m)) ELSE Len(m)
    /\ \A p \in 1 .. Smaller(Len(m), Len(o)) : o[p] = m[p]

\* The messages out go out for those PDeframer was given.
Told(out) ==
    /\ out \in Seq(AnyMessage) /\ Len(out) = Len(sent)
    /\ \A i \in 1 .. Len(sent) : Settled(i) => Carries(out[i], sent[i], i \in swapped)

\* The item PDeframer writes is the last one it was given, and its length was
\* converted as often as it was refused.
Writing ==
    /\ iopc = "write" => writeInProgress
    /\ writeInProgress =>
        /\ msg = Message(sent, Len(sent) - 1)
        /\ len = IF Len(sent) \in swapped THEN Swap(Len(msg)) ELSE Len(msg)
        /\ state = "TX_HEADER" => Len(sent) \notin swapped
        /\ state = "TX_LEN" => lenRemainingBytes = 2

\* What the client has read are the messages out in their order, and what it has of
\* the next one is right.
Reading(out) ==
    /\ Len(received) <= Len(out)
    /\ cstate # "header" => Len(received) < Len(out)
    /\ cstate = "msg" =>
        /\ clen = Len(Message(out, Len(received)))
        /\ Begins(cmsg, Message(out, Len(received)))
    /\ \A i \in 1 .. Len(received) : received[i] = out[i]

InStream(out) == \E S, at : InTransit(out, wire, rx, S, at, Position(at), Written(at))

Streams(out) == Told(out) /\ Reading(out) /\ InStream(out)
Streamed == \E out : Streams(out)

StreamInv == Types /\ Writing /\ Streamed

\* How far a step of the client may get.
Forward == Len(received') = Len(received) \/ Len(received') = Len(received) + 1

LEMMA PathTyped ==
    ASSUME Types, NEW out, Told(out)
    PROVE  /\ out \in Seq(AnyMessage) /\ sent \in Seq(AnyMessage)
           /\ wire \in Seq(Pieces) /\ rx \in Seq(Byte)
           /\ cmsg \in Seq(Byte) /\ received \in Seq(Seq(Byte)) /\ msg \in Seq(Byte)
           /\ Len(received) \in Nat /\ Len(sent) \in Nat /\ Len(rx) \in Nat
           /\ Len(cmsg) \in Nat /\ Len(msg) \in Nat /\ Len(out) = Len(sent)
  BY LenProperties, AreMessages DEF Types, SPTypeOK, Pieces, Told

LEMMA PathPlaces ==
    ASSUME Types, NEW out, Told(out), NEW S, NEW at, NEW pos, NEW end,
           InTransit(out, wire, rx, S, at, pos, end)
    PROVE  at[Len(received)] \in Nat /\ at[Len(sent)] \in Nat
  BY PathTyped DEF InTransit, Encoded

-----------------------------------------------------------------------------
(* PDeframer writes the stream. *)

\* The frame that is being written is the last one.
LEMMA LastFrame ==
    ASSUME Types, Writing, writeInProgress, NEW out, Told(out)
    PROVE  \E k \in Nat : /\ k < Len(out) /\ k = Len(sent) - 1 /\ Len(sent) = k + 1
                          /\ msg = sent[k + 1] /\ msg \in AnyMessage
<1>1. sent \in Seq(AnyMessage) /\ Len(sent) \in Nat /\ sent # <<>> /\ Len(out) = Len(sent)
  BY PathTyped DEF Types, Counters
<1>2. Len(sent) # 0
  BY <1>1, EmptySeq
<1>3. Len(sent) - 1 \in Nat /\ Len(sent) - 1 < Len(sent) /\ Len(sent) = (Len(sent) - 1) + 1
  BY <1>1, <1>2
<1>4. sent[Len(sent)] \in AnyMessage
  <2>1. Len(sent) \in 1 .. Len(sent)
    BY <1>1, <1>2
  <2> QED
    BY <1>1, <2>1, ElementOfSeq
<1>5. msg = sent[(Len(sent) - 1) + 1]
  BY DEF Writing, Message
<1> QED
  BY <1>1, <1>3, <1>4, <1>5

\* Whatever was read to its end is settled.
LEMMA ReadIsSettled ==
    ASSUME Types, Writing, NEW out, Streams(out)
    PROVE  \A i \in 1 .. Len(received) : Settled(i)
<1> SUFFICES ASSUME NEW i \in 1 .. Len(received), ~Settled(i) PROVE FALSE
  OBVIOUS
<1>1. Told(out) /\ Reading(out) /\ writeInProgress /\ state # "TX_MSG" /\ ~(i < Len(sent))
  BY DEF Streams, Settled
<1>2. PICK S, at : InTransit(out, wire, rx, S, at, Position(at), Written(at))
  BY DEF Streams, InStream
<1>3. PICK k \in Nat : k < Len(out) /\ k = Len(sent) - 1 /\ Len(sent) = k + 1
  BY <1>1, LastFrame
<1>4. /\ out \in Seq(AnyMessage) /\ wire \in Seq(Pieces) /\ rx \in Seq(Byte)
      /\ Len(received) \in Nat /\ Len(cmsg) \in Nat /\ Len(out) = k + 1
  BY <1>1, <1>3, PathTyped
<1>5. Len(received) = k + 1
  BY <1>1, <1>3, <1>4 DEF Reading
<1>6. at[k] \in Nat /\ at[k + 1] \in Nat /\ at[k] + 3 <= at[k + 1]
  <2>1. Encoded(out, S, at)
    BY <1>2 DEF InTransit
  <2>2. /\ Len(out[k + 1]) \in Nat /\ at[k] \in Nat
        /\ at[k + 1] = at[k] + 3 + Len(out[k + 1])
    BY <1>3, <1>4, <2>1, NextFrame
  <2> QED
    BY <2>2
<1>7. Position(at) \in Nat /\ Written(at) \in Nat /\ Position(at) <= Written(at)
  BY <1>2, <1>4, ReadIsWritten
<1>8. Position(at) >= at[k + 1]
  BY <1>4, <1>5, <1>6 DEF Position
<1>9. Written(at) <= at[k] + 1
  BY <1>1, <1>3, <1>6 DEF Written, Types, SPTypeOK
<1> QED
  BY <1>6, <1>7, <1>8, <1>9

\* The last message out may be replaced by one that agrees with it as far as it was
\* written, while it was not written to its end.
LEMMA Rewritten ==
    ASSUME Types, NEW out, Told(out), Reading(out), NEW S, NEW at,
           InTransit(out, wire, rx, S, at, Position(at), Written(at)),
           NEW k \in Nat, Len(sent) = k + 1, Written(at) < at[k + 1],
           NEW m \in AnyMessage, Replaces(m, out[k + 1], at[k], Written(at))
    PROVE  \E o2, S2, at2 :
              /\ ButForLast(out, o2, k, m) /\ Reading(o2) /\ at2[k] = at[k]
              /\ Position(at2) = Position(at)
              /\ InTransit(o2, wire, rx, S2, at2, Position(at), Written(at))
<1> DEFINE n == Len(received)
           L == at[k]
           f == out[k + 1]
<1>1. /\ out \in Seq(AnyMessage) /\ wire \in Seq(Pieces) /\ rx \in Seq(Byte)
      /\ n \in Nat /\ Len(cmsg) \in Nat /\ Len(out) = k + 1
  BY PathTyped
<1>2. PICK o2, S2, at2 :
        /\ ButForLast(out, o2, k, m)
        /\ InTransit(o2, wire, rx, S2, at2, Position(at), Written(at))
        /\ \A i \in Nat : i <= k => at2[i] = at[i]
  BY <1>1, Retold
<1>3. Position(at) \in Nat /\ Written(at) \in Nat /\ Position(at) <= Written(at)
  BY <1>1, ReadIsWritten
<1>4. L \in Nat /\ at[k + 1] \in Nat
  BY DEF InTransit, Encoded
<1>5. n <= k
  <2>1. SUFFICES ASSUME n = k + 1 PROVE FALSE
    BY <1>1 DEF Reading
  <2>2. Position(at) >= at[k + 1]
    BY <1>1, <1>4, <2>1 DEF Position
  <2> QED
    BY <1>3, <1>4, <2>2
<1>6. Position(at2) = Position(at) /\ at2[k] = at[k]
  BY <1>1, <1>2, <1>5 DEF Position
<1>7. Len(o2) = k + 1 /\ o2[k + 1] = m /\ \A i \in 1 .. k : o2[i] = out[i]
  BY <1>2 DEF ButForLast
<1>8. ASSUME cstate = "msg"
      PROVE  clen = Len(Message(o2, n)) /\ Begins(cmsg, Message(o2, n))
  <2>1. clen = Len(Message(out, n)) /\ Begins(cmsg, Message(out, n))
    BY <1>8 DEF Reading
  <2>2. CASE n < k
    <3>1. n + 1 \in 1 .. k
      BY <1>1, <2>2
    <3> QED
      BY <1>7, <2>1, <3>1 DEF Message
  <2>3. CASE n = k
    <3>1. Message(o2, n) = m /\ Message(out, n) = f
      BY <1>7, <2>3 DEF Message
    <3>2. L + 3 + Len(cmsg) <= Written(at)
      <4>1. Position(at) = L + (3 + Len(cmsg))
        BY <1>8, <2>3 DEF Position
      <4> QED
        BY <1>1, <1>3, <1>4, <4>1
    <3>3. /\ Len(m) = Len(f)
          /\ \A p \in 1 .. Len(m) : L + 3 + p <= Written(at) => m[p] = f[p]
      BY <1>1, <1>3, <1>4, <3>2 DEF Replaces
    <3>4. Begins(cmsg, m)
      <4>1. Len(cmsg) <= Len(f) /\ \A p \in 1 .. Len(cmsg) : cmsg[p] = f[p]
        BY <2>1, <3>1 DEF Begins
      <4>2. Len(m) \in Nat
        BY MessageType
      <4>3. ASSUME NEW p \in 1 .. Len(cmsg) PROVE cmsg[p] = m[p]
        <5>1. p \in 1 .. Len(m) /\ L + 3 + p <= Written(at)
          <6> HIDE DEF L, f
          <6> QED
            BY <1>1, <1>3, <1>4, <3>2, <3>3, <4>1, <4>2
        <5> QED
          BY <3>3, <4>1, <5>1
      <4> QED
        BY <3>3, <4>1, <4>3 DEF Begins
    <3> QED
      BY <2>1, <3>1, <3>3, <3>4
  <2> QED
    BY <1>1, <1>5, <2>2, <2>3
<1>9. \A i \in 1 .. n : received[i] = o2[i]
  <2>1. \A i \in 1 .. n : i \in 1 .. k
    BY <1>1, <1>5
  <2> QED
    BY <1>7, <2>1 DEF Reading
<1>10. Reading(o2)
  BY <1>1, <1>7, <1>8, <1>9 DEF Reading
<1> QED
  BY <1>2, <1>6, <1>10

\* A step that settles no item and leaves what was written as it is.
LEMMA StillTold ==
    ASSUME NEW out, Told(out), UNCHANGED <<sent, swapped>>,
           \A i \in 1 .. Len(sent) : Settled(i)' => Settled(i)
    PROVE  Told(out)'
  BY DEF Told

LEMMA HeaderSent ==
    ASSUME Types, Writing, NEW out, Streams(out), sendHeader, iopc = "write",
           UNCHANGED <<sent, rx, clientVars>>
    PROVE  Writing' /\ Streams(out)'
<1>1. PICK S, at : InTransit(out, wire, rx, S, at, Position(at), Written(at))
  BY DEF Streams, InStream
<1>2. Told(out) /\ Reading(out) /\ writeInProgress /\ state = "TX_HEADER"
  BY DEF Streams, Writing, sendHeader
<1>3. PICK k \in Nat : k < Len(out) /\ k = Len(sent) - 1
  BY <1>2, LastFrame
<1>4. out \in Seq(AnyMessage) /\ wire \in Seq(Pieces) /\ rx \in Seq(Byte) /\ at[k] \in Nat
  BY <1>1, <1>2, PathTyped DEF InTransit, Encoded
<1>5. Written(at) = at[k]
  BY <1>2, <1>3, <1>4 DEF Written
<1>6. InTransit(out, wire, rx, S, at, Position(at), at[k])
  BY <1>1, <1>5
<1>7. Position(at)' = Position(at)
  BY DEF Position, clientVars
<1>8. PICK n \in Taking("header", 1) :
        /\ trySend("header", <<Header>>, n)
        /\ state' = IF n = 1 THEN "TX_LEN" ELSE state
        /\ lenRemainingBytes' = IF n = 1 THEN 2 ELSE lenRemainingBytes
  BY DEF sendHeader
<1>9. UNCHANGED <<swapped, writeInProgress, len, msg, msgRemainingBytes>>
  BY DEF sendHeader
<1>10. Writing'
  BY <1>2, <1>8, <1>9 DEF Writing
<1>11. Told(out)' /\ Reading(out)'
  <2>1. \A i \in 1 .. Len(sent) : Settled(i)' => Settled(i)
    BY <1>2, <1>8, <1>9 DEF Settled
  <2> QED
    BY <1>2, <1>9, <2>1, StillTold DEF Reading, clientVars
<1>12. CASE n = 0
  <2>1. wire' = wire /\ state' = state
    BY <1>8, <1>12 DEF trySend
  <2>2. Written(at)' = at[k]
    BY <1>2, <1>3, <1>4, <1>9, <2>1 DEF Written
  <2> QED
    BY <1>6, <1>7, <1>10, <1>11, <2>1, <2>2 DEF InStream, Streams
<1>13. CASE n = 1
  <2>1. <<Header>> \in Seq(Byte) /\ Len(<<Header>>) = 1
    BY BaseType
  <2>2. First(1, <<Header>>) = <<Header>>
    BY <2>1, WholeParts, Zenon
  <2>3. wire' = Append(wire, Piece("header", <<Header>>)) /\ state' = "TX_LEN"
    BY <1>8, <1>13, <2>2 DEF trySend
  <2>4. InTransit(out, wire', rx, S, at, Position(at), at[k] + 1)
    BY <1>3, <1>4, <1>6, <2>3, HeaderPut
  <2>5. Written(at)' = at[k] + 1
    BY <1>2, <1>3, <1>9, <2>3 DEF Written
  <2> QED
    BY <1>7, <1>10, <1>11, <2>4, <2>5 DEF InStream, Streams
<1>14. n \in 0 .. 1
  BY DEF Taking
<1> QED
  BY <1>12, <1>13, <1>14

\* A refused length is converted once more and stays unsent.
LEMMA LengthRefused ==
    ASSUME Types, Writing, NEW out, Streams(out), sendLen, iopc = "write",
           UNCHANGED <<sent, rx, clientVars>>,
           wire' = wire, UNCHANGED <<state, lenRemainingBytes, msgRemainingBytes>>,
           len' = Swap(len), swapped' = RefusedAgain
    PROVE  Writing' /\ Streams(out)'
<1>1. PICK S, at : InTransit(out, wire, rx, S, at, Position(at), Written(at))
  BY DEF Streams, InStream
<1>2. /\ Told(out) /\ Reading(out) /\ writeInProgress /\ state = "TX_LEN"
      /\ UNCHANGED <<writeInProgress, msg>>
  BY DEF Streams, Writing, sendLen
<1>3. PICK k \in Nat : /\ k < Len(out) /\ k = Len(sent) - 1 /\ Len(sent) = k + 1
                       /\ msg = sent[k + 1] /\ msg \in AnyMessage
  BY <1>2, LastFrame
<1>4. Writing'
  <2>1. Len(msg) \in 0 .. Base * Base - 1
    BY <1>3, MessageType
  <2>2. /\ len = IF Len(sent) \in swapped THEN Swap(Len(msg)) ELSE Len(msg)
        /\ lenRemainingBytes = 2 /\ msg = Message(sent, Len(sent) - 1)
    BY <1>2 DEF Writing
  <2>3. Len(sent) \in RefusedAgain <=> Len(sent) \notin swapped
    BY DEF RefusedAgain
  <2>4. len' = IF Len(sent) \in swapped' THEN Swap(Len(msg)) ELSE Len(msg)
    BY <2>1, <2>2, <2>3, SwapTwice
  <2> QED
    BY <1>2, <2>2, <2>4 DEF Writing
<1>5. Told(out)'
  <2>1. ASSUME NEW i \in 1 .. Len(sent), Settled(i)'
        PROVE  Settled(i) /\ (i \in swapped' <=> i \in swapped)
    <3>1. i < Len(sent) /\ i # Len(sent)
      BY <1>2, <1>3, <2>1 DEF Settled
    <3> QED
      BY <3>1 DEF Settled, RefusedAgain
  <2> QED
    BY <1>2, <2>1 DEF Told, Carries
<1>6. Reading(out)'
  BY <1>2 DEF Reading, clientVars
<1>7. Position(at)' = Position(at) /\ Written(at)' = Written(at)
  BY <1>2 DEF Position, Written, clientVars
<1> QED
  BY <1>1, <1>4, <1>5, <1>6, <1>7 DEF InStream, Streams

\* The length goes out as it was converted last, and settles the message.
LEMMA LengthWritten ==
    ASSUME Types, Writing, NEW out, Streams(out), iopc = "write", state = "TX_LEN",
           UNCHANGED <<sent, rx, clientVars, swapped, writeInProgress, msg, len>>,
           wire' = Append(wire, Piece("len", Memory(Swap(len)))),
           state' = "TX_MSG", msgRemainingBytes' = len
    PROVE  Writing' /\ Streamed'
<1>1. PICK S, at : InTransit(out, wire, rx, S, at, Position(at), Written(at))
  BY DEF Streams, InStream
<1>2. Told(out) /\ Reading(out) /\ writeInProgress /\ len \in 0 .. Base * Base - 1
  BY DEF Streams, Writing, Types, SPTypeOK
<1>3. PICK k \in Nat : /\ k < Len(out) /\ k = Len(sent) - 1 /\ Len(sent) = k + 1
                       /\ msg = sent[k + 1] /\ msg \in AnyMessage
  BY <1>2, LastFrame
<1>4. /\ out \in Seq(AnyMessage) /\ wire \in Seq(Pieces) /\ rx \in Seq(Byte)
      /\ at[k] \in Nat /\ len \in Nat /\ Len(out) = k + 1 /\ Encoded(out, S, at)
  BY <1>1, <1>2, <1>3, PathTyped, LengthRange DEF InTransit, Encoded
<1>5. Written(at) = at[k] + 1
  BY <1>2, <1>3 DEF Written
<1> DEFINE m == [i \in 1 .. len |-> IF i <= Len(msg) THEN msg[i] ELSE 0]
<1>6. m \in AnyMessage /\ Len(m) = len
  <2>1. msg \in Seq(Byte) /\ Len(msg) \in Nat /\ 0 \in Byte /\ len < Base * Base
    BY <1>2, <1>3, MessageType, BaseType DEF Byte
  <2>2. ASSUME NEW i \in 1 .. len PROVE m[i] \in Byte
    <3>1. i <= Len(msg) => i \in 1 .. Len(msg)
      BY <2>1
    <3> QED
      BY <2>1, <3>1, ElementOfSeq
  <2>3. m \in [1 .. len -> Byte]
    BY <2>2
  <2>4. m \in Seq(Byte) /\ Len(m) = len
    <3> HIDE DEF m
    <3> QED
      BY <1>4, <2>3
  <2> QED
    BY <2>1, <2>4 DEF AnyMessage
<1>7. Carries(m, msg, Len(sent) \in swapped)
  <2>1. len = IF Len(sent) \in swapped THEN Swap(Len(msg)) ELSE Len(msg)
    BY <1>2 DEF Writing
  <2>2. Len(msg) \in Nat
    BY <1>3, MessageType
  <2>3. ASSUME NEW p \in 1 .. Smaller(Len(msg), len) PROVE m[p] = msg[p]
    <3>1. p \in 1 .. len /\ p <= Len(msg)
      BY <1>4, <2>2 DEF Smaller
    <3> QED
      BY <3>1
  <2> HIDE DEF m
  <2> QED
    BY <1>6, <2>1, <2>3 DEF Carries
<1> HIDE DEF m
<1>8. Replaces(m, out[k + 1], at[k], Written(at))
  BY <1>4, <1>5 DEF Replaces
<1>9. Written(at) < at[k + 1]
  <2>1. Len(out[k + 1]) \in Nat /\ at[k + 1] = at[k] + 3 + Len(out[k + 1])
    BY <1>3, <1>4, NextFrame
  <2> QED
    BY <1>4, <1>5, <2>1
<1>10. PICK o2, S2, at2 :
        /\ ButForLast(out, o2, k, m) /\ Reading(o2) /\ at2[k] = at[k]
        /\ Position(at2) = Position(at)
        /\ InTransit(o2, wire, rx, S2, at2, Position(at), Written(at))
  BY <1>1, <1>2, <1>3, <1>6, <1>8, <1>9, Rewritten
<1>11. /\ o2 \in Seq(AnyMessage) /\ Len(o2) = k + 1 /\ o2[k + 1] = m
       /\ \A i \in 1 .. k : o2[i] = out[i]
  BY <1>10 DEF ButForLast
<1>12. InTransit(o2, wire', rx, S2, at2, Position(at), at2[k] + 3)
  <2> DEFINE x == Piece("len", Memory(Swap(Len(o2[k + 1]))))
  <2>1. InTransit(o2, wire, rx, S2, at2, Position(at), at2[k] + 1)
    BY <1>5, <1>10
  <2>2. k < Len(o2)
    BY <1>11
  <2>3. InTransit(o2, Append(wire, x), rx, S2, at2, Position(at), at2[k] + 3)
    BY <1>4, <1>11, <2>1, <2>2, LengthPut
  <2>4. wire' = Append(wire, x)
    BY <1>6, <1>11
  <2> QED
    BY <2>3, <2>4
<1>13. Written(at2)' = at2[k] + 3
  <2>1. Written(at2)' = at2[k] + (3 + (len - len))
    BY <1>2, <1>3 DEF Written
  <2>2. 3 + (len - len) = 3
    BY <1>4
  <2> QED
    BY <2>1, <2>2
<1>14. Position(at2)' = Position(at)
  <2>1. Position(at2)' = Position(at2)
    BY DEF Position, clientVars
  <2> QED
    BY <1>10, <2>1
<1>15. InStream(o2)'
  BY <1>12, <1>13, <1>14 DEF InStream
<1>16. Told(o2)'
  <2>1. ASSUME NEW i \in 1 .. Len(sent) PROVE Carries(o2[i], sent[i], i \in swapped)
    <3>1. CASE i = k + 1
      BY <1>3, <1>7, <1>11, <3>1
    <3>2. CASE i # k + 1
      <4>1. i \in 1 .. k /\ i < Len(sent)
        BY <1>3, <3>2
      <4> QED
        BY <1>2, <1>11, <4>1 DEF Told, Settled
    <3> QED
      BY <3>1, <3>2
  <2> QED
    BY <1>3, <1>11, <2>1 DEF Told
<1>17. Reading(o2)'
  BY <1>10 DEF Reading, clientVars
<1>18. Writing'
  BY <1>2 DEF Writing
<1> QED
  BY <1>15, <1>16, <1>17, <1>18 DEF Streams, Streamed

LEMMA LengthSent ==
    ASSUME "len" \notin Cuts, Types, Writing, NEW out, Streams(out), sendLen,
           iopc = "write", UNCHANGED <<sent, rx, clientVars>>
    PROVE  Writing' /\ Streamed'
<1>1. PICK bytes \in LenBytes(Swap(len)), n \in Taking("len", lenRemainingBytes) :
        /\ trySend("len", bytes, n)
        /\ lenRemainingBytes' = lenRemainingBytes - n
        /\ state' = IF lenRemainingBytes' = 0 THEN "TX_MSG" ELSE state
        /\ len' = IF lenRemainingBytes' = 0 THEN len ELSE Swap(len)
        /\ msgRemainingBytes' = IF lenRemainingBytes' = 0 THEN len ELSE msgRemainingBytes
        /\ swapped' = IF n = 0 THEN RefusedAgain ELSE swapped
  BY DEF sendLen
<1>2. /\ state = "TX_LEN" /\ lenRemainingBytes = 2 /\ len \in 0 .. Base * Base - 1
      /\ UNCHANGED <<writeInProgress, msg>>
  BY DEF Writing, sendLen, Types, SPTypeOK
<1>3. bytes = Memory(Swap(len)) /\ n \in {0, 2}
  BY <1>2 DEF Taking, LenBytes
<1>4. CASE n = 0
  <2>1. /\ wire' = wire /\ UNCHANGED <<state, lenRemainingBytes, msgRemainingBytes>>
        /\ len' = Swap(len) /\ swapped' = RefusedAgain
    BY <1>1, <1>2, <1>4 DEF trySend
  <2>2. Writing' /\ Streams(out)'
    BY <2>1, LengthRefused
  <2> QED
    BY <2>2 DEF Streamed
<1>5. CASE n = 2
  <2>1. bytes \in Seq(Byte) /\ Len(bytes) = 2
    BY <1>2, <1>3, SwapTwice, ValueOfMemory
  <2>2. First(2, bytes) = bytes
    BY <2>1, WholeParts, Zenon
  <2>3. wire' = Append(wire, Piece("len", Memory(Swap(len))))
    BY <1>1, <1>3, <1>5, <2>2 DEF trySend
  <2>4. state' = "TX_MSG" /\ len' = len /\ msgRemainingBytes' = len /\ swapped' = swapped
    BY <1>1, <1>2, <1>5
  <2> QED
    BY <1>2, <2>3, <2>4, LengthWritten
<1> QED
  BY <1>3, <1>4, <1>5

\* What sendMsg sends: the bytes of the message that are left, and behind its end
\* whatever is there.
LEMMA MsgBytesAre ==
    ASSUME SPTypeOK, NEW bytes \in MsgBytes
    PROVE  \A p \in 1 .. msgRemainingBytes :
              (len - msgRemainingBytes) + p <= Len(msg)
                => bytes[p] = msg[(len - msgRemainingBytes) + p]
<1> DEFINE from == len - msgRemainingBytes
           over == (from + 1 .. len) \ DOMAIN msg
<1>1. PICK heap \in [over -> Byte] :
        bytes = [i \in 1 .. msgRemainingBytes |->
                    IF from + i \in over THEN heap[from + i] ELSE msg[from + i]]
  BY DEF MsgBytes
<1>2. /\ len \in Nat /\ msgRemainingBytes \in Nat /\ from \in Nat
      /\ Len(msg) \in Nat /\ DOMAIN msg = 1 .. Len(msg)
  BY LengthRange, LenProperties DEF SPTypeOK
<1>3. ASSUME NEW p \in 1 .. msgRemainingBytes, from + p <= Len(msg)
      PROVE  bytes[p] = msg[from + p]
  <2>1. from + p \in DOMAIN msg
    <3> HIDE DEF from
    <3> QED
      BY <1>2, <1>3
  <2>2. from + p \notin over
    BY <2>1
  <2> QED
    BY <1>1, <2>2
<1> QED
  BY <1>3

LEMMA MessageSent ==
    ASSUME Types, Writing, NEW out, Streams(out), sendMsg, iopc = "write",
           UNCHANGED <<sent, rx, clientVars>>
    PROVE  Writing' /\ Streamed'
<1> DEFINE done == len - msgRemainingBytes
<1>1. PICK S, at : InTransit(out, wire, rx, S, at, Position(at), Written(at))
  BY DEF Streams, InStream
<1>2. /\ Told(out) /\ Reading(out) /\ writeInProgress /\ state = "TX_MSG"
      /\ len \in 0 .. Base * Base - 1 /\ msgRemainingBytes \in 0 .. len
  BY DEF Streams, Writing, sendMsg, Types, SPTypeOK
<1>3. PICK k \in Nat : /\ k < Len(out) /\ k = Len(sent) - 1 /\ Len(sent) = k + 1
                       /\ msg = sent[k + 1] /\ msg \in AnyMessage
  BY <1>2, LastFrame
<1>4. /\ out \in Seq(AnyMessage) /\ wire \in Seq(Pieces) /\ rx \in Seq(Byte)
      /\ at[k] \in Nat /\ Len(out) = k + 1 /\ Encoded(out, S, at)
      /\ msg \in Seq(Byte) /\ Len(msg) \in Nat
  BY <1>1, <1>2, <1>3, PathTyped DEF InTransit, Encoded
<1>5. /\ len \in Nat /\ msgRemainingBytes \in Nat /\ done \in Nat
      /\ done + msgRemainingBytes = len
  BY <1>2, LengthRange
<1>6. Written(at) = at[k] + (3 + done)
  BY <1>2, <1>3 DEF Written
<1>7. PICK bytes \in MsgBytes, n \in Taking("msg", msgRemainingBytes) :
        /\ wire' = IF n = 0 THEN wire ELSE Append(wire, Piece("msg", First(n, bytes)))
        /\ msgRemainingBytes' = msgRemainingBytes - n
        /\ writeInProgress' = (n < msgRemainingBytes)
        /\ iopc' = IF n = 0 \/ n = msgRemainingBytes THEN "epoll" ELSE "write"
  BY DEF sendMsg
<1>8. UNCHANGED <<swapped, state, len, lenRemainingBytes, msg>> /\ msgRemainingBytes > 0
  BY DEF sendMsg
<1>9. n \in 0 .. msgRemainingBytes /\ n \in Nat
  BY <1>5 DEF Taking
<1> DEFINE o == out[k + 1]
           odd == Len(sent) \in swapped
<1>10. Carries(o, msg, odd) /\ Len(o) = len /\ o \in AnyMessage /\ o \in Seq(Byte)
  <2>1. k + 1 \in 1 .. Len(sent) /\ k + 1 \in 1 .. Len(out) /\ Settled(k + 1)
    BY <1>2, <1>3, <1>4 DEF Settled
  <2>2. Carries(o, msg, odd)
    BY <1>2, <1>3, <2>1 DEF Told
  <2>3. len = IF odd THEN Swap(Len(msg)) ELSE Len(msg)
    BY <1>2 DEF Writing
  <2>4. o \in AnyMessage
    BY <1>4, <2>1, ElementOfSeq
  <2> QED
    BY <2>2, <2>3, <2>4, MessageType DEF Carries
<1>11. /\ bytes \in Seq(Byte) /\ Len(bytes) = msgRemainingBytes
       /\ \A p \in 1 .. msgRemainingBytes : done + p <= Len(msg) => bytes[p] = msg[done + p]
  BY MsgBytesType, MsgBytesAre DEF Types
<1> HIDE DEF done, o, odd
\* The bytes that are there now are those that go out.
<1> DEFINE m == [i \in 1 .. len |-> IF i <= done THEN o[i] ELSE bytes[i - done]]
<1>12. m \in AnyMessage /\ Len(m) = len
  <2>1. ASSUME NEW i \in 1 .. len PROVE m[i] \in Byte
    <3>1. CASE i <= done
      <4>1. i \in 1 .. Len(o)
        BY <1>10
      <4> QED
        BY <1>10, <3>1, <4>1, ElementOfSeq
    <3>2. CASE ~(i <= done)
      <4>1. i - done \in 1 .. Len(bytes)
        BY <1>5, <1>11, <3>2
      <4> QED
        BY <1>11, <3>2, <4>1, ElementOfSeq
    <3> QED
      BY <3>1, <3>2
  <2>2. m \in [1 .. len -> Byte]
    BY <2>1
  <2>3. m \in Seq(Byte) /\ Len(m) = len
    <3> HIDE DEF m
    <3> QED
      BY <1>5, <2>2
  <2> QED
    BY <1>2, <1>5, <2>3, BaseType DEF AnyMessage
<1>13. ASSUME NEW p \in Nat, p <= done, 1 <= p PROVE m[p] = o[p]
  <2>1. p \in 1 .. len
    BY <1>5, <1>13
  <2> QED
    BY <1>13, <2>1
<1>14. ASSUME NEW p \in 1 .. msgRemainingBytes PROVE m[done + p] = bytes[p]
  <2>1. done + p \in 1 .. len /\ ~(done + p <= done) /\ (done + p) - done = p
    BY <1>5
  <2> QED
    BY <2>1
<1> HIDE DEF m
<1>15. Carries(m, msg, odd)
  <2>1. \A p \in 1 .. Smaller(Len(msg), len) : o[p] = msg[p]
    BY <1>10 DEF Carries
  <2>2. ASSUME NEW p \in 1 .. Smaller(Len(msg), len) PROVE m[p] = msg[p]
    <3>1. p \in Nat /\ 1 <= p /\ p <= len /\ p <= Len(msg)
      BY <1>4, <1>5 DEF Smaller
    <3>2. CASE p <= done
      BY <1>13, <2>1, <3>1, <3>2
    <3>3. CASE ~(p <= done)
      <4>1. PICK q \in Nat : q = p - done
        BY <1>5, <3>1, <3>3
      <4>2. q \in 1 .. msgRemainingBytes /\ done + q = p
        BY <1>5, <3>1, <3>3, <4>1
      <4>3. bytes[q] = msg[p] /\ m[p] = bytes[q]
        BY <1>11, <1>14, <3>1, <4>2
      <4> QED
        BY <4>3
    <3> QED
      BY <3>2, <3>3
  <2> QED
    BY <1>10, <1>12, <2>2 DEF Carries
<1>16. Replaces(m, out[k + 1], at[k], Written(at))
  <2>1. ASSUME NEW p \in 1 .. Len(m), at[k] + 3 + p <= Written(at) PROVE m[p] = o[p]
    <3>1. p \in Nat /\ 1 <= p /\ p <= done
      BY <1>4, <1>5, <1>6, <1>12, <2>1
    <3> QED
      BY <1>13, <3>1
  <2> QED
    BY <1>10, <1>12, <2>1 DEF Replaces, o
<1>17. Written(at) < at[k + 1]
  <2>1. Len(o) \in Nat /\ at[k + 1] = at[k] + 3 + Len(o)
    BY <1>3, <1>4, NextFrame DEF o
  <2> QED
    BY <1>4, <1>5, <1>6, <1>8, <1>10, <2>1
<1>18. PICK o2, S2, at2 :
        /\ ButForLast(out, o2, k, m) /\ Reading(o2) /\ at2[k] = at[k]
        /\ Position(at2) = Position(at)
        /\ InTransit(o2, wire, rx, S2, at2, Position(at), Written(at))
  BY <1>1, <1>2, <1>3, <1>12, <1>16, <1>17, Rewritten
<1>19. /\ o2 \in Seq(AnyMessage) /\ Len(o2) = k + 1 /\ o2[k + 1] = m /\ k < Len(o2)
       /\ \A i \in 1 .. k : o2[i] = out[i]
  BY <1>18 DEF ButForLast
<1>20. InTransit(o2, wire', rx, S2, at2, Position(at), at2[k] + (3 + (done + n)))
  <2>1. InTransit(o2, wire, rx, S2, at2, Position(at), at2[k] + (3 + done))
    BY <1>6, <1>18
  <2>2. CASE n = 0
    <3>1. done + n = done
      BY <1>5, <2>2
    <3> QED
      BY <1>7, <2>1, <2>2, <3>1
  <2>3. CASE n # 0
    <3> DEFINE z == First(n, bytes)
    <3>1. z \in Seq(Byte) /\ Len(z) = n /\ \A p \in 1 .. n : z[p] = bytes[p]
      BY <1>9, <1>11, Parts
    <3> HIDE DEF z
    <3>2. done + Len(z) <= Len(o2[k + 1])
      BY <1>5, <1>9, <1>12, <1>19, <3>1
    <3>3. \A p \in 1 .. Len(z) : z[p] = o2[k + 1][done + p]
      <4>1. \A p \in 1 .. n : p \in 1 .. msgRemainingBytes
        BY <1>5, <1>9
      <4> QED
        BY <1>14, <1>19, <3>1, <4>1
    <3>4. InTransit(o2, Append(wire, Piece("msg", z)), rx, S2, at2, Position(at),
                    at2[k] + (3 + (done + Len(z))))
      BY <1>4, <1>5, <1>19, <2>1, <3>1, <3>2, <3>3, MessagePut
    <3>5. wire' = Append(wire, Piece("msg", z))
      BY <1>7, <2>3 DEF z
    <3> QED
      BY <3>1, <3>4, <3>5
  <2> QED
    BY <2>2, <2>3
<1>21. Written(at2)' = at2[k] + (3 + (done + n))
  <2>1. CASE n < msgRemainingBytes
    <3>1. Written(at2)' = at2[k] + (3 + (len - (msgRemainingBytes - n)))
      BY <1>2, <1>3, <1>7, <1>8, <2>1 DEF Written
    <3>2. len - (msgRemainingBytes - n) = done + n
      BY <1>5, <1>9
    <3> QED
      BY <3>1, <3>2
  <2>2. CASE ~(n < msgRemainingBytes)
    <3>1. Written(at2)' = at2[k + 1]
      BY <1>3, <1>7, <2>2 DEF Written
    <3>2. done + n = Len(m)
      BY <1>5, <1>9, <1>12, <2>2
    <3>3. at2[k + 1] = at2[k] + (3 + Len(m))
      <4>1. Encoded(o2, S2, at2)
        BY <1>18 DEF InTransit
      <4> QED
        BY <1>19, <4>1, FrameEnd DEF Behind, Message
    <3> QED
      BY <3>1, <3>2, <3>3
  <2> QED
    BY <2>1, <2>2
<1>22. Position(at2)' = Position(at)
  <2>1. Position(at2)' = Position(at2)
    BY DEF Position, clientVars
  <2> QED
    BY <1>18, <2>1
<1>23. InStream(o2)' /\ Reading(o2)'
  BY <1>18, <1>20, <1>21, <1>22 DEF InStream, Reading, clientVars
<1>24. Told(o2)'
  <2>1. ASSUME NEW i \in 1 .. Len(sent) PROVE Carries(o2[i], sent[i], i \in swapped)
    <3>1. CASE i = k + 1
      BY <1>3, <1>15, <1>19, <3>1 DEF odd
    <3>2. CASE i # k + 1
      <4>1. i \in 1 .. k /\ i < Len(sent)
        BY <1>3, <3>2
      <4> QED
        BY <1>2, <1>19, <4>1 DEF Told, Settled
    <3> QED
      BY <3>1, <3>2
  <2> QED
    BY <1>3, <1>8, <1>19, <2>1 DEF Told
<1>25. Writing'
  <2>1. iopc' = "write" => writeInProgress'
    <3>1. CASE n < msgRemainingBytes
      BY <1>7, <3>1
    <3>2. CASE ~(n < msgRemainingBytes)
      <4>1. n = msgRemainingBytes
        BY <1>5, <1>9, <3>2
      <4> QED
        BY <1>7, <4>1
    <3> QED
      BY <3>1, <3>2
  <2> QED
    BY <1>2, <1>8, <2>1 DEF Writing
<1> QED
  BY <1>23, <1>24, <1>25 DEF Streams, Streamed

LEMMA EmptySent ==
    ASSUME Types, Writing, NEW out, Streams(out), sendEmpty, iopc = "write",
           UNCHANGED <<sent, rx, clientVars>>
    PROVE  Writing' /\ Streams(out)'
<1>1. PICK S, at : InTransit(out, wire, rx, S, at, Position(at), Written(at))
  BY DEF Streams, InStream
<1>2. /\ Told(out) /\ Reading(out) /\ writeInProgress /\ state = "TX_MSG"
      /\ msgRemainingBytes = 0 /\ wire' = wire /\ swapped' = swapped
      /\ ~writeInProgress' /\ iopc' = "epoll" /\ len \in Nat
  BY LengthRange DEF Streams, Writing, sendEmpty, Types, SPTypeOK
<1>3. PICK k \in Nat : /\ k < Len(out) /\ k = Len(sent) - 1 /\ Len(sent) = k + 1
                       /\ msg = sent[k + 1] /\ msg \in AnyMessage
  BY <1>2, LastFrame
<1>4. out \in Seq(AnyMessage) /\ Encoded(out, S, at) /\ Len(out) = k + 1
  BY <1>1, <1>2, <1>3, PathTyped DEF InTransit
<1>5. Len(out[k + 1]) = len
  <2>1. k + 1 \in 1 .. Len(sent) /\ Settled(k + 1)
    BY <1>2, <1>3 DEF Settled
  <2>2. Carries(out[k + 1], msg, Len(sent) \in swapped)
    BY <1>2, <1>3, <2>1 DEF Told
  <2> QED
    BY <1>2, <2>2 DEF Writing, Carries
<1>6. Written(at) = at[k] + (3 + len)
  <2>1. Written(at) = at[k] + (3 + (len - 0))
    BY <1>2, <1>3 DEF Written
  <2>2. len - 0 = len
    BY <1>2
  <2> QED
    BY <2>1, <2>2
<1>7. at[k + 1] = at[k] + (3 + len)
  BY <1>3, <1>4, <1>5, FrameEnd DEF Behind, Message
<1>8. Written(at)' = Written(at)
  BY <1>2, <1>3, <1>6, <1>7 DEF Written
<1>9. Position(at)' = Position(at)
  BY DEF Position, clientVars
<1>10. Told(out)'
  <2>1. \A i \in 1 .. Len(sent) : Settled(i)
    BY <1>2 DEF Settled
  <2> QED
    BY <1>2, <2>1, StillTold
<1>11. Writing' /\ Reading(out)'
  BY <1>2 DEF Writing, Reading, clientVars
<1> QED
  BY <1>1, <1>2, <1>8, <1>9, <1>10, <1>11 DEF InStream, Streams

\* A step of PDeframer sends some of the stream.
LEMMA StreamWrite ==
    ASSUME "len" \notin Cuts, StreamInv, Types', tryWrite
    PROVE  StreamInv' /\ UNCHANGED <<sent, received>>
<1>1. PICK out : Streams(out)
  BY DEF StreamInv, Streamed
<1>2. /\ iopc = "write" /\ UNCHANGED <<sent, edge, rx, clientVars>>
      /\ sendHeader \/ sendLen \/ sendMsg \/ sendEmpty
      /\ Types /\ Writing
  BY DEF tryWrite, StreamInv
<1>3. Writing' /\ Streamed'
  <2>1. CASE sendHeader
    BY <1>1, <1>2, <2>1, HeaderSent DEF Streamed
  <2>2. CASE sendLen
    BY <1>1, <1>2, <2>2, LengthSent
  <2>3. CASE sendMsg
    BY <1>1, <1>2, <2>3, MessageSent
  <2>4. CASE sendEmpty
    BY <1>1, <1>2, <2>4, EmptySent DEF Streamed
  <2> QED
    BY <1>2, <2>1, <2>2, <2>3, <2>4
<1> QED
  BY <1>2, <1>3 DEF StreamInv, clientVars

\* PDeframer is given an item.
LEMMA StreamGiven ==
    ASSUME StreamInv, Types', NEW m \in Messages, setSentItem(m)
    PROVE  StreamInv' /\ sent' = Append(sent, m) /\ UNCHANGED <<received, swapped>>
<1>0. PICK out : Streams(out)
  BY DEF StreamInv, Streamed
<1> DEFINE o2 == Append(out, m)
<1>1. PICK S, at : InTransit(out, wire, rx, S, at, Position(at), Written(at))
  BY <1>0 DEF Streams, InStream
<1>2. /\ Types /\ Told(out) /\ Reading(out) /\ ~writeInProgress /\ sent' = Append(sent, m)
      /\ writeInProgress' /\ iopc' = "write" /\ state' = "TX_HEADER"
      /\ len' = Len(m) /\ msg' = m /\ UNCHANGED <<swapped, wire, rx, clientVars>>
  BY <1>0 DEF StreamInv, Streams, setSentItem
<1>3. /\ out \in Seq(AnyMessage) /\ sent \in Seq(AnyMessage) /\ wire \in Seq(Pieces)
      /\ rx \in Seq(Byte) /\ m \in AnyMessage
      /\ Len(sent) \in Nat /\ Len(received) \in Nat /\ Len(out) = Len(sent)
      /\ DOMAIN sent = 1 .. Len(sent)
  BY <1>2, PathTyped, AreMessages, LenProperties
<1>4. PICK S2, at2 : Longer(out, m, S, at, S2, at2)
  BY <1>1, <1>3, SentStream DEF InTransit
<1>5. InTransit(o2, wire', rx', S2, at2, Position(at), Written(at))
  BY <1>1, <1>2, <1>3, <1>4, WriterGiven
<1>6. /\ Len(sent') = Len(sent) + 1 /\ Len(sent') - 1 = Len(sent)
      /\ sent'[Len(sent) + 1] = m /\ \A i \in 1 .. Len(sent) : sent'[i] = sent[i]
  BY <1>2, <1>3
<1>7. /\ o2 \in Seq(AnyMessage) /\ Len(o2) = Len(sent) + 1
      /\ \A i \in 1 .. Len(sent) : o2[i] = out[i]
  BY <1>3, AppendProperties
<1> HIDE DEF o2
<1>8. at2[Len(sent)] = at[Len(sent)] /\ at[Len(sent)] \in Nat
      /\ at2[Len(received)] = at[Len(received)]
  BY <1>1, <1>2, <1>3, <1>4, PathPlaces DEF Longer, Reading
<1>9. Position(at2)' = Position(at)
  BY <1>2, <1>8 DEF Position, clientVars
<1>10. Written(at2)' = Written(at)
  <2>1. Written(at2)' = at2[Len(sent)] + 0
    BY <1>2, <1>6 DEF Written
  <2>2. Written(at) = at[Len(sent)]
    BY <1>2 DEF Written
  <2> QED
    BY <1>8, <2>1, <2>2
<1>11. InStream(o2)'
  BY <1>5, <1>9, <1>10 DEF InStream
<1>12. Told(o2)'
  <2>1. ASSUME NEW i \in 1 .. Len(sent'), Settled(i)'
        PROVE  Carries(o2[i], sent'[i], i \in swapped')
    <3>1. i \in 1 .. Len(sent)
      BY <1>2, <1>3, <1>6, <2>1 DEF Settled
    <3>2. Settled(i)
      BY <1>2 DEF Settled
    <3> QED
      BY <1>2, <1>6, <1>7, <3>1, <3>2 DEF Told
  <2> QED
    BY <1>6, <1>7, <2>1 DEF Told
<1>13. Writing'
  <2>1. Message(sent', Len(sent') - 1) = m
    BY <1>6 DEF Message
  <2>2. Len(sent') \notin swapped'
    <3>1. swapped \subseteq 1 .. Len(sent)
      BY <1>2, <1>3 DEF Types, SPTypeOK
    <3> QED
      BY <1>2, <1>3, <1>6, <3>1
  <2> QED
    BY <1>2, <2>1, <2>2 DEF Writing
<1>14. Reading(o2)'
  <2>1. Len(received) <= Len(o2)
    BY <1>2, <1>3, <1>7 DEF Reading
  <2>2. \A i \in 1 .. Len(received) : received[i] = o2[i]
    <3>1. \A i \in 1 .. Len(received) : i \in 1 .. Len(sent)
      BY <1>2, <1>3 DEF Reading
    <3> QED
      BY <1>2, <1>7, <3>1 DEF Reading
  <2>3. CASE cstate = "header"
    BY <1>2, <2>1, <2>2, <2>3 DEF Reading, clientVars
  <2>4. CASE cstate # "header"
    <3>1. Len(received) < Len(out)
      BY <1>2, <2>4 DEF Reading
    <3>2. Len(received) < Len(o2) /\ Message(o2, Len(received)) = Message(out, Len(received))
      <4>1. Len(received) + 1 \in 1 .. Len(sent)
        BY <1>3, <3>1
      <4> QED
        BY <1>3, <1>7, <3>1, <4>1 DEF Message
    <3> QED
      BY <1>2, <2>1, <2>2, <2>4, <3>2 DEF Reading, clientVars
  <2> QED
    BY <2>3, <2>4
<1> QED
  BY <1>2, <1>11, <1>12, <1>13, <1>14 DEF StreamInv, Streams, Streamed, clientVars

-----------------------------------------------------------------------------
(* recvFrame reads the stream frame by frame. *)

LEMMA HeaderRead ==
    ASSUME Types, NEW out, Streams(out), readHeader, rx # <<>>,
           UNCHANGED <<sent, wire, deframerVars>>
    PROVE  Reading(out)' /\ InStream(out)' /\ Forward
<1> DEFINE k == Len(received)
<1>1. PICK S, at : InTransit(out, wire, rx, S, at, Position(at), Written(at))
  BY DEF Streams, InStream
<1>2. Told(out) /\ Reading(out) /\ k <= Len(out) /\ cstate = "header" /\ rx' = Tail(rx)
  BY DEF Streams, Reading, readHeader
<1>3. /\ out \in Seq(AnyMessage) /\ wire \in Seq(Pieces) /\ rx \in Seq(Byte)
      /\ k \in Nat /\ at[k] \in Nat
  BY <1>1, <1>2, PathTyped, PathPlaces
<1>4. Position(at) = at[k]
  BY <1>2, <1>3 DEF Position
<1>5. InTransit(out, wire, rx, S, at, at[k], Written(at))
  BY <1>1, <1>4
<1>6. /\ k < Len(out) /\ Head(rx) = Header
      /\ InTransit(out, wire, Tail(rx), S, at, at[k] + 1, Written(at))
  BY <1>2, <1>3, <1>5, HeaderBytes
<1>7. cstate' = "len" /\ UNCHANGED <<received, clen, cmsg>>
  BY <1>6 DEF readHeader
<1>8. Position(at)' = at[k] + 1
  BY <1>7 DEF Position
<1>9. Written(at)' = Written(at)
  BY DEF Written, deframerVars
<1>10. InStream(out)'
  BY <1>2, <1>6, <1>8, <1>9 DEF InStream
<1>11. Reading(out)'
  BY <1>2, <1>6, <1>7 DEF Reading
<1> QED
  BY <1>7, <1>10, <1>11 DEF Forward

\* The client has read a frame to its end.
LEMMA WholeRead ==
    ASSUME Types, NEW out, Streams(out), UNCHANGED <<sent, wire, deframerVars>>,
           NEW k \in Nat, k = Len(received), k < Len(out),
           NEW m \in Seq(Byte), Begins(m, Message(out, k)), Len(m) = Len(Message(out, k)),
           NEW n, NEW length, FrameRead(m, n, length),
           NEW S, NEW at, NEW pos, Behind(at, k, m, pos),
           InTransit(out, wire, rx', S, at, pos, Written(at))
    PROVE  Reading(out)' /\ InStream(out)' /\ Forward
<1>1. /\ out \in Seq(AnyMessage) /\ received \in Seq(Seq(Byte)) /\ Len(out) \in Nat
      /\ \A i \in 1 .. k : received[i] = out[i]
  BY PathTyped DEF Streams, Reading
<1>2. Encoded(out, S, at)
  BY DEF InTransit
<1>3. m = Message(out, k) /\ Behind(at, k, m, at[k + 1])
  BY <1>1, <1>2, WholeMessage
<1>4. pos = at[k + 1] /\ at[k + 1] \in Nat
  BY <1>2, <1>3 DEF Behind, Encoded
<1>5. received' = Append(received, m) /\ cstate' = "header"
  BY DEF FrameRead
<1>6. /\ Len(received') = k + 1 /\ received'[k + 1] = m
      /\ \A i \in 1 .. k : received'[i] = received[i]
  BY <1>1, <1>5, AppendProperties
<1>7. Position(at)' = at[k + 1] + 0
  BY <1>5, <1>6 DEF Position
<1>8. Position(at)' = pos
  BY <1>4, <1>7
<1>9. Written(at)' = Written(at)
  BY DEF Written, deframerVars
<1>10. InStream(out)'
  BY <1>8, <1>9 DEF InStream
<1>11. \A i \in 1 .. k + 1 : received'[i] = out[i]
  <2>1. \A i \in 1 .. k + 1 : i \in 1 .. k \/ i = k + 1
    OBVIOUS
  <2>2. m = out[k + 1]
    BY <1>3 DEF Message
  <2> QED
    BY <1>1, <1>6, <2>1, <2>2
<1>12. Reading(out)'
  BY <1>1, <1>5, <1>6, <1>11 DEF Reading
<1> QED
  BY <1>6, <1>10, <1>12 DEF Forward

LEMMA LengthRead ==
    ASSUME Types, NEW out, Streams(out), readLen, rx # <<>>,
           UNCHANGED <<sent, wire, deframerVars>>
    PROVE  Reading(out)' /\ InStream(out)' /\ Forward
<1> DEFINE k == Len(received)
           f == Message(out, k)
<1>1. PICK S, at : InTransit(out, wire, rx, S, at, Position(at), Written(at))
  BY DEF Streams, InStream
<1>2. Told(out) /\ Reading(out) /\ k < Len(out) /\ cstate = "len" /\ cmsg = <<>>
  BY DEF Streams, Reading, readLen, Types, Counters
<1>3. /\ out \in Seq(AnyMessage) /\ wire \in Seq(Pieces) /\ rx \in Seq(Byte)
      /\ k \in Nat /\ Len(out) \in Nat /\ at[k] \in Nat
  BY <1>1, <1>2, PathTyped, PathPlaces
<1>4. Ahead(at, k, 1, Position(at))
  BY <1>2 DEF Position, Ahead
<1>5. /\ Len(rx) \in Nat /\ Len(rx) >= 2 /\ Len(First(2, rx)) = 2
      /\ Swap(Value(First(2, rx))) = Len(f)
      /\ InTransit(out, wire, Rest(2, rx), S, at, at[k] + 3, Written(at))
  BY <1>1, <1>2, <1>3, <1>4, LengthBytes
<1>6. Smaller(2, Len(rx)) = 2
  BY <1>5, SmallerType
<1>7. /\ rx' = Rest(2, rx)
      /\ \/ Len(f) = 0 /\ FrameRead(<<>>, nrecv, Len(f))
         \/ /\ Len(f) # 0
            /\ clen' = Len(f) /\ cstate' = "msg" /\ UNCHANGED <<cmsg, received>>
  BY <1>5, <1>6 DEF readLen
<1>8. f \in Seq(Byte) /\ Len(f) \in Nat
  BY <1>1, <1>2, <1>3, NextFrame DEF InTransit, Message
<1>9. Len(<<>>) = 0 /\ <<>> \in Seq(Byte)
  BY EmptySeq
<1>10. Begins(<<>>, f)
  BY <1>8, <1>9 DEF Begins
<1> HIDE DEF k, f
<1>11. CASE Len(f) = 0 /\ FrameRead(<<>>, nrecv, Len(f))
  <2>1. Behind(at, k, <<>>, at[k] + 3)
    BY <1>9 DEF Behind
  <2>2. InTransit(out, wire, rx', S, at, at[k] + 3, Written(at))
    BY <1>5, <1>7
  <2>3. Len(<<>>) = Len(f)
    BY <1>9, <1>11
  <2> QED
    BY <1>2, <1>3, <1>9, <1>10, <1>11, <2>1, <2>2, <2>3, WholeRead DEF k, f
<1>12. CASE /\ Len(f) # 0
            /\ clen' = Len(f) /\ cstate' = "msg" /\ UNCHANGED <<cmsg, received>>
  <2>1. Position(at)' = at[k] + 3
    BY <1>2, <1>3, <1>9, <1>12 DEF Position, k
  <2>2. Written(at)' = Written(at)
    BY DEF Written, deframerVars
  <2>3. InStream(out)'
    BY <1>5, <1>7, <2>1, <2>2 DEF InStream
  <2>4. Reading(out)'
    BY <1>2, <1>3, <1>10, <1>12 DEF Reading, k, f
  <2> QED
    BY <1>12, <2>3, <2>4 DEF Forward
<1> QED
  BY <1>7, <1>11, <1>12

LEMMA MessageRead ==
    ASSUME Types, NEW out, Streams(out), readMsg, UNCHANGED <<sent, wire, deframerVars>>
    PROVE  Reading(out)' /\ InStream(out)' /\ Forward
<1> DEFINE k == Len(received)
           f == Message(out, k)
           n == Smaller(clen - Len(cmsg), Len(rx))
           m == cmsg \o First(n, rx)
<1>1. PICK S, at : InTransit(out, wire, rx, S, at, Position(at), Written(at))
  BY DEF Streams, InStream
<1>2. /\ Told(out) /\ Reading(out) /\ k < Len(out) /\ cstate = "msg" /\ Len(cmsg) < clen
      /\ clen = Len(f) /\ Begins(cmsg, f) /\ clen \in Nat
  BY LengthRange DEF Streams, Reading, readMsg, Types, Counters, SPTypeOK
<1>3. /\ out \in Seq(AnyMessage) /\ wire \in Seq(Pieces) /\ rx \in Seq(Byte)
      /\ cmsg \in Seq(Byte) /\ Len(cmsg) \in Nat /\ Len(rx) \in Nat
      /\ k \in Nat /\ Len(out) \in Nat /\ at[k] \in Nat
  BY <1>1, <1>2, PathTyped, PathPlaces
<1>4. n \in 0 .. Len(rx) /\ n <= clen - Len(cmsg)
  <2> DEFINE d == clen - Len(cmsg)
             r == Len(rx)
  <2>1. clen \in Nat /\ Len(cmsg) \in Nat /\ Len(cmsg) < clen /\ r \in Nat
    <3> HIDE DEF f, k
    <3> QED
      BY <1>2, <1>3
  <2>2. d \in Nat
    BY <2>1
  <2> HIDE DEF d, r
  <2>3. Smaller(d, r) \in 0 .. r /\ Smaller(d, r) <= d
    BY <2>1, <2>2, SmallerType
  <2> QED
    BY <2>3 DEF d, r
<1>5. /\ rx' = Rest(n, rx)
      /\ \/ Len(m) = clen /\ FrameRead(m, n, clen)
         \/ /\ Len(m) < clen
            /\ cmsg' = m /\ UNCHANGED <<cstate, clen, received>>
  BY DEF readMsg
<1>6. Behind(at, k, cmsg, Position(at))
  BY <1>2 DEF Position, Behind
<1> HIDE DEF n
<1>7. Misses(cmsg, n, f)
  <2> HIDE DEF f
  <2> QED
    BY <1>2, <1>3, <1>4 DEF Misses
<1>8. /\ m \in Seq(Byte) /\ Begins(m, f)
      /\ InTransit(out, wire, Rest(n, rx), S, at, at[k] + (3 + Len(m)), Written(at))
  BY <1>1, <1>2, <1>3, <1>4, <1>6, <1>7, MessageBytes
<1> HIDE DEF m, k, f
<1>9. CASE Len(m) = clen /\ FrameRead(m, n, clen)
  <2>1. Behind(at, k, m, at[k] + (3 + Len(m)))
    BY DEF Behind
  <2>2. InTransit(out, wire, rx', S, at, at[k] + (3 + Len(m)), Written(at))
    BY <1>5, <1>8
  <2>3. Len(m) = Len(f)
    BY <1>2, <1>9
  <2> QED
    BY <1>2, <1>3, <1>8, <1>9, <2>1, <2>2, <2>3, WholeRead DEF k, f
<1>10. CASE /\ Len(m) < clen
            /\ cmsg' = m /\ UNCHANGED <<cstate, clen, received>>
  <2>1. Position(at)' = at[k] + (3 + Len(m))
    BY <1>2, <1>10 DEF Position, k
  <2>2. Written(at)' = Written(at)
    BY DEF Written, deframerVars
  <2>3. InStream(out)'
    BY <1>5, <1>8, <2>1, <2>2 DEF InStream
  <2>4. Reading(out)'
    BY <1>2, <1>3, <1>8, <1>10 DEF Reading, k, f
  <2> QED
    BY <1>10, <2>3, <2>4 DEF Forward
<1> QED
  BY <1>5, <1>9, <1>10

\* A step of the client reads the next message out, or none.
LEMMA StreamRead ==
    ASSUME StreamInv, Types', recvFrame
    PROVE  StreamInv' /\ Forward /\ UNCHANGED sent
<1>1. /\ rx # <<>> /\ UNCHANGED <<sent, swapped, wire, nospace, edge, iopc, deframerVars>>
      /\ readHeader \/ readLen \/ readMsg
  BY DEF recvFrame
<1>2. PICK out : Streams(out)
  BY DEF StreamInv, Streamed
<1>3. Types /\ Writing
  BY DEF StreamInv
<1>4. Reading(out)' /\ InStream(out)' /\ Forward
  BY <1>1, <1>2, <1>3, HeaderRead, LengthRead, MessageRead
<1>5. Told(out)'
  <2>1. \A i \in 1 .. Len(sent) : Settled(i)' => Settled(i)
    BY <1>1 DEF Settled, deframerVars
  <2> QED
    BY <1>1, <1>2, <2>1, StillTold DEF Streams
<1>6. Writing'
  BY <1>1, <1>3 DEF Writing, deframerVars
<1> QED
  BY <1>1, <1>4, <1>5, <1>6 DEF StreamInv, Streams, Streamed

-----------------------------------------------------------------------------
(* The refinement. *)

LEMMA StreamInit == Init => StreamInv
<1> SUFFICES ASSUME Init PROVE StreamInv
  OBVIOUS
<1>1. /\ sent = <<>> /\ received = <<>> /\ wire = <<>> /\ rx = <<>>
      /\ iopc = "epoll" /\ ~writeInProgress /\ cstate = "header"
  BY DEF Init
<1>2. Len(<<>>) = 0 /\ <<>> \in Seq(AnyMessage)
  BY EmptySeq
<1>3. PICK S, at : InTransit(<<>>, <<>>, <<>>, S, at, 0, 0) /\ at[0] = 0
  BY NothingSent
<1>4. Position(at) = 0 /\ Written(at) = 0
  BY <1>1, <1>2, <1>3 DEF Position, Written
<1>5. InTransit(<<>>, wire, rx, S, at, Position(at), Written(at))
  BY <1>1, <1>3, <1>4
<1>6. Types /\ Writing
  BY <1>1, TypesInit DEF Writing
<1>7. Told(<<>>) /\ Reading(<<>>)
  BY <1>1, <1>2 DEF Told, Reading
<1> QED
  BY <1>5, <1>6, <1>7 DEF StreamInv, InStream, Streams, Streamed

LEMMA StreamArrive ==
    ASSUME "len" \notin Cuts, StreamInv, Types', Arrive
    PROVE  StreamInv' /\ UNCHANGED <<sent, swapped, received>>
<1>0. PICK out : Streams(out)
  BY DEF StreamInv, Streamed
<1>1. PICK S, at : InTransit(out, wire, rx, S, at, Position(at), Written(at))
  BY <1>0 DEF Streams, InStream
<1>2. Types /\ Writing /\ Told(out) /\ Reading(out)
  BY <1>0 DEF StreamInv, Streams
<1>3. PICK n \in Segments(wire) :
        rx' = rx \o First(n, Head(wire).bytes) /\ wire' = Taken(wire, n)
  BY DEF Arrive
<1>4. UNCHANGED <<sent, swapped, iopc, deframerVars, clientVars>>
  BY DEF Arrive
<1>5. out \in Seq(AnyMessage) /\ wire \in Seq(Pieces) /\ rx \in Seq(Byte)
  BY <1>2, PathTyped
<1>6. InTransit(out, wire', rx', S, at, Position(at), Written(at))
  BY <1>1, <1>3, <1>5, NetworkKeeps
<1>7. Position(at)' = Position(at) /\ Written(at)' = Written(at)
  BY <1>4 DEF Position, Written, deframerVars, clientVars
<1>8. InStream(out)'
  BY <1>6, <1>7 DEF InStream
<1>9. Writing' /\ Reading(out)'
  BY <1>2, <1>4 DEF Writing, Reading, deframerVars, clientVars
<1>10. Told(out)'
  BY <1>2, <1>4, StillTold DEF Settled, deframerVars
<1> QED
  BY <1>4, <1>8, <1>9, <1>10 DEF StreamInv, Streams, Streamed, clientVars

\* A step that touches neither the stream nor its two ends.
LEMMA StreamOther ==
    ASSUME StreamInv, Types', EpollOut \/ UNCHANGED vars
    PROVE  StreamInv' /\ UNCHANGED <<sent, swapped, received>>
<1>0. PICK out : Streams(out)
  BY DEF StreamInv, Streamed
<1>1. PICK S, at : InTransit(out, wire, rx, S, at, Position(at), Written(at))
  BY <1>0 DEF Streams, InStream
<1>2. Types /\ Writing /\ Told(out) /\ Reading(out)
  BY <1>0 DEF StreamInv, Streams
<1>3. UNCHANGED <<sent, swapped, wire, rx, deframerVars, clientVars>>
  BY DEF EpollOut, vars
<1>4. iopc' = "write" => writeInProgress
  BY <1>2 DEF Writing, EpollOut, vars
<1>5. Position(at)' = Position(at) /\ Written(at)' = Written(at)
  BY <1>3 DEF Position, Written, deframerVars, clientVars
<1>6. InStream(out)'
  BY <1>1, <1>3, <1>5 DEF InStream
<1>7. Writing' /\ Reading(out)'
  BY <1>2, <1>3, <1>4 DEF Writing, Reading, deframerVars, clientVars
<1>8. Told(out)'
  BY <1>2, <1>3, StillTold DEF Settled, deframerVars
<1> QED
  BY <1>3, <1>6, <1>7, <1>8 DEF StreamInv, Streams, Streamed, clientVars

\* What was read stands for the front of what PDeframer was given.
Faithful ==
    /\ Len(received) \in Nat /\ Len(sent) \in Nat /\ Len(received) <= Len(sent)
    /\ sent \in Seq(AnyMessage)
    /\ Understood = [i \in 1 .. Len(received) |-> sent[i]]

LEMMA UnderstoodIs == StreamInv => Faithful
<1> SUFFICES ASSUME StreamInv PROVE Faithful
  OBVIOUS
<1>1. PICK out : Streams(out)
  BY DEF StreamInv, Streamed
<1>2. Types /\ Writing /\ Told(out) /\ Reading(out)
  BY <1>1 DEF StreamInv, Streams
<1>3. /\ sent \in Seq(AnyMessage) /\ out \in Seq(AnyMessage) /\ received \in Seq(Seq(Byte))
      /\ Len(received) \in Nat /\ Len(sent) \in Nat /\ Len(out) = Len(sent)
      /\ DOMAIN received = 1 .. Len(received)
  BY <1>2, PathTyped, LenProperties
<1>4. Len(received) <= Len(sent)
  BY <1>2, <1>3 DEF Reading
<1>5. ASSUME NEW i \in 1 .. Len(received)
      PROVE  (IF i \in swapped /\ Misread(sent[i], received[i])
                THEN sent[i] ELSE received[i]) = sent[i]
  <2>1. Carries(received[i], sent[i], i \in swapped)
    <3>1. i \in 1 .. Len(sent) /\ Settled(i) /\ received[i] = out[i]
      BY <1>1, <1>2, <1>3, <1>4, ReadIsSettled DEF Reading
    <3> QED
      BY <1>2, <3>1 DEF Told
  <2>2. CASE i \in swapped
    BY <2>1, <2>2 DEF Carries, Misread
  <2>3. CASE i \notin swapped
    <3>1. sent[i] \in Seq(Byte) /\ received[i] \in Seq(Byte) /\ Len(sent[i]) \in Nat
      <4>1. i \in 1 .. Len(sent)
        BY <1>3, <1>4
      <4>2. sent[i] \in AnyMessage
        BY <1>3, <4>1, ElementOfSeq
      <4>3. received[i] \in Seq(Byte)
        BY <1>3, ElementOfSeq
      <4> QED
        BY <4>2, <4>3, MessageType
    <3>2. /\ Len(received[i]) = Len(sent[i])
          /\ \A p \in 1 .. Len(sent[i]) : received[i][p] = sent[i][p]
      BY <2>1, <2>3, <3>1 DEF Carries, Smaller
    <3>3. received[i] = sent[i]
      BY <3>1, <3>2, SeqEqual
    <3> QED
      BY <2>3, <3>3
  <2> QED
    BY <2>2, <2>3
<1>6. Understood = [i \in 1 .. Len(received) |-> sent[i]]
  BY <1>3, <1>5 DEF Understood
<1> QED
  BY <1>3, <1>4, <1>6 DEF Faithful

\* The first n messages of s.
LEMMA FrontOf ==
    ASSUME NEW s \in Seq(AnyMessage), NEW n \in Nat, n <= Len(s)
    PROVE  /\ [i \in 1 .. n |-> s[i]] \in Seq(AnyMessage)
           /\ Len([i \in 1 .. n |-> s[i]]) = n
<1> DEFINE x == [i \in 1 .. n |-> s[i]]
<1>1. \A i \in 1 .. n : s[i] \in AnyMessage
  <2>1. \A i \in 1 .. n : i \in 1 .. Len(s)
    BY LenProperties
  <2> QED
    BY <2>1, ElementOfSeq
<1>2. x \in [1 .. n -> AnyMessage]
  BY <1>1
<1> HIDE DEF x
<1>3. x \in Seq(AnyMessage) /\ Len(x) = n
  BY <1>2
<1> QED
  BY <1>3 DEF x

\* A step of the client delivers the next message to those understood, or none.
LEMMA ClientDelivers ==
    ASSUME Faithful, Faithful', Forward, UNCHANGED sent
    PROVE  UNCHANGED Understood \/ Stream!Deliver
<1> DEFINE n == Len(received)
           s == sent
<1>1. /\ n \in Nat /\ n <= Len(s) /\ s \in Seq(AnyMessage)
      /\ Understood = [i \in 1 .. n |-> s[i]]
  BY DEF Faithful
<1>2. /\ Len(received)' <= Len(sent)' /\ Len(sent)' \in Nat
      /\ Understood' = [i \in 1 .. Len(received)' |-> sent'[i]]
  BY DEF Faithful
<1>3. CASE Len(received') = n
  BY <1>1, <1>2, <1>3
<1>4. CASE Len(received') = n + 1
  <2>1. n + 1 <= Len(s) /\ Understood' = [i \in 1 .. n + 1 |-> s[i]] /\ n < Len(s)
    BY <1>1, <1>2, <1>4
  <2> DEFINE u == [i \in 1 .. n |-> s[i]]
             v == [i \in 1 .. n + 1 |-> s[i]]
  <2>2. u \in Seq(AnyMessage) /\ Len(u) = n
    BY <1>1, FrontOf
  <2>3. v \in Seq(AnyMessage) /\ Len(v) = n + 1
    BY <1>1, <2>1, FrontOf
  <2>4. s[n + 1] \in AnyMessage
    <3>1. n + 1 \in 1 .. Len(s)
      BY <1>1, <2>1
    <3> QED
      BY <1>1, <3>1, ElementOfSeq
  <2>5. Append(u, s[n + 1]) = v
    <3>1. \A i \in 1 .. n : u[i] = s[i]
      OBVIOUS
    <3>2. \A i \in 1 .. n + 1 : v[i] = s[i]
      OBVIOUS
    <3> HIDE DEF u, v
    <3>3. /\ Append(u, s[n + 1]) \in Seq(AnyMessage) /\ Len(Append(u, s[n + 1])) = n + 1
          /\ Append(u, s[n + 1])[n + 1] = s[n + 1]
          /\ \A i \in 1 .. n : Append(u, s[n + 1])[i] = u[i]
      BY <2>2, <2>4, AppendProperties
    <3>4. \A i \in 1 .. n + 1 : i \in 1 .. n \/ i = n + 1
      BY <1>1
    <3>5. \A i \in 1 .. n + 1 : Append(u, s[n + 1])[i] = v[i]
      BY <3>1, <3>2, <3>3, <3>4
    <3> QED
      BY <2>3, <3>3, <3>5, SeqEqual
  <2>6. Understood = u /\ Understood' = v
    BY <1>1, <2>1
  <2> HIDE DEF u, v
  <2>7. /\ Len(Understood) < Len(sent)
        /\ Understood' = Append(Understood, sent[Len(Understood) + 1])
    BY <2>1, <2>2, <2>5, <2>6
  <2> QED
    BY <2>7 DEF Stream!Deliver
<1> QED
  BY <1>3, <1>4 DEF Forward

\* What was understood does not change when an item is given to PDeframer, or a
\* length is refused.
LEMMA ServerDelivers ==
    ASSUME Faithful, Faithful', UNCHANGED received,
           (UNCHANGED sent) \/ \E m \in Messages : sent' = Append(sent, m)
    PROVE  UNCHANGED Understood
<1> DEFINE n == Len(received)
<1>1. /\ n \in Nat /\ n <= Len(sent) /\ sent \in Seq(AnyMessage) /\ Len(sent) \in Nat
      /\ Understood = [i \in 1 .. n |-> sent[i]]
  BY DEF Faithful
<1>2. Understood' = [i \in 1 .. Len(received)' |-> sent'[i]]
  BY DEF Faithful
<1>3. \A i \in 1 .. n : sent'[i] = sent[i]
  <2>1. CASE UNCHANGED sent
    BY <2>1
  <2>2. ASSUME NEW m \in Messages, sent' = Append(sent, m)
        PROVE  \A i \in 1 .. n : sent'[i] = sent[i]
    <3>1. m \in AnyMessage
      BY AreMessages
    <3>2. \A i \in 1 .. Len(sent) : sent'[i] = sent[i]
      BY <1>1, <2>2, <3>1, AppendProperties
    <3> QED
      BY <1>1, <3>2
  <2> QED
    BY <2>1, <2>2
<1> QED
  BY <1>1, <1>2, <1>3

LEMMA StreamStep ==
    ASSUME "len" \notin Cuts, StreamInv, [Next]_vars,
           Faithful, StreamInv' => Faithful'
    PROVE  StreamInv' /\ [Stream!FSNext]_<<sent, Understood>>
<1>1. Types'
  BY TypesStep DEF StreamInv
<1>2. ASSUME NEW m \in Messages, setSentItem(m)
      PROVE  StreamInv' /\ [Stream!FSNext]_<<sent, Understood>>
  <2>1. StreamInv' /\ sent' = Append(sent, m) /\ UNCHANGED received
    BY <1>1, <1>2, StreamGiven
  <2>2. UNCHANGED Understood
    BY <2>1, ServerDelivers
  <2> QED
    BY <2>1, <2>2 DEF Stream!FSNext, Stream!Send
<1>3. CASE tryWrite
  BY <1>1, <1>3, StreamWrite, ServerDelivers
<1>4. CASE Arrive
  BY <1>1, <1>4, StreamArrive, ServerDelivers
<1>5. CASE recvFrame
  <2>1. StreamInv' /\ Forward /\ UNCHANGED sent
    BY <1>1, <1>5, StreamRead
  <2> QED
    BY <2>1, ClientDelivers DEF Stream!FSNext
<1>6. CASE EpollOut \/ UNCHANGED vars
  BY <1>1, <1>6, StreamOther, ServerDelivers
<1> QED
  BY <1>2, <1>3, <1>4, <1>5, <1>6 DEF Next

\* However send and recv cut headers and messages, and wherever PDeframer has to
\* stop for a full buffer, before a length too, and to go on at the next EPOLLOUT:
\* what recvFrame reads are the frames the server was given, whole, once and in
\* order.  Only a frame whose length was refused an odd number of times comes, in
\* its turn, with that length swapped.  The two bytes of a length move in one piece.
THEOREM ResponsesInOrder ==
    ASSUME "len" \notin Cuts
    PROVE  Spec => FramesInOrder
<1>1. Init => StreamInv /\ Stream!FSInit
  <2> SUFFICES ASSUME Init PROVE StreamInv /\ Stream!FSInit
    OBVIOUS
  <2>1. StreamInv /\ sent = <<>> /\ received = <<>>
    BY StreamInit DEF Init
  <2>2. Understood = <<>>
    BY <2>1 DEF Understood
  <2> QED
    BY <2>1, <2>2 DEF Stream!FSInit
<1>2. /\ StreamInv /\ Faithful /\ (StreamInv' => Faithful') /\ [Next]_vars
      => StreamInv' /\ [Stream!FSNext]_<<sent, Understood>>
  BY StreamStep
<1>3. StreamInv => Faithful
  BY UnderstoodIs
<1> QED
  BY <1>1, <1>2, <1>3, PTL DEF Spec, FramesInOrder, Stream!FSSpec
=============================================================================
