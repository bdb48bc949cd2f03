----------------------------- MODULE RequestPath -----------------------------
(***************************************************************************)
(* From the client to the worker's queue: IOFrameSocket::sendFrame, the     *)
(* network, and PFramer::readAll, called from the edge-triggered event loop *)
(* of the server (Server::handleDataIn).  One action of the I/O thread is   *)
(* one PFramer::tryRead, so bytes may arrive between any two recv calls.    *)
(***************************************************************************)
EXTENDS ByteStream

CONSTANT MaxFrames  \* bound: frames the client sends

ASSUME RequestPathAssumption == MaxFrames \in Nat

VARIABLES
    sent,    \* history: the messages of the frames the client sent
    pushed,  \* history: the messages of the frames PFramer pushed to wqIn
    \* client and network (external)
    wire,    \* pieces on their way
    left,    \* has the client closed its end?
    rx,      \* bytes in the server's socket
    rxFin,   \* has the FIN arrived behind them?
    edge,    \* an EPOLLIN edge not reported yet
    \* the I/O thread and PFramer
    iopc, state, len, lenRemainingBytes, msg, msgRemainingBytes

netVars == <<sent, wire, left, rxFin>>
frameVars == <<len, lenRemainingBytes, msg, msgRemainingBytes>>
vars == <<netVars, pushed, rx, edge, iopc, state, frameVars>>

Init ==
    /\ sent = <<>> /\ pushed = <<>> /\ wire = <<>> /\ left = FALSE
    /\ rx = <<>> /\ rxFin = FALSE /\ edge = FALSE /\ iopc = "epoll"
    /\ state = "RX_HEADER" /\ len = 0 /\ lenRemainingBytes = 0
    /\ msg = <<>> /\ msgRemainingBytes = 0

-----------------------------------------------------------------------------
(* The client and the network. *)

\* Three calls of try_send on a blocking socket; the last one sends nothing when
\* the message is empty.
sendFrame(m) ==
    /\ ~left /\ Len(sent) < MaxFrames
    /\ sent' = Append(sent, m)
    /\ wire' = wire \o <<Piece("header", <<Header>>), Piece("len", Memory(Swap(Len(m))))>>
                    \o (IF m = <<>> THEN <<>> ELSE <<Piece("msg", m)>>)
    /\ UNCHANGED <<left, rxFin, pushed, rx, edge, iopc, state, frameVars>>

Leave ==
    /\ ~left
    /\ left' = TRUE
    /\ UNCHANGED <<sent, wire, rxFin, pushed, rx, edge, iopc, state, frameVars>>

Arrive ==
    /\ \E n \in Segments(wire) :
        /\ rx' = rx \o First(n, Head(wire).bytes)
        /\ wire' = Taken(wire, n)
    /\ edge' = TRUE
    /\ UNCHANGED <<sent, left, rxFin, pushed, iopc, state, frameVars>>

ArriveFin ==
    /\ left /\ wire = <<>> /\ ~rxFin
    /\ rxFin' = TRUE /\ edge' = TRUE
    /\ UNCHANGED <<sent, wire, left, pushed, rx, iopc, state, frameVars>>

-----------------------------------------------------------------------------
(* The I/O thread. *)

EpollIn ==
    /\ iopc = "epoll" /\ edge
    /\ edge' = FALSE /\ iopc' = "read"
    /\ UNCHANGED <<netVars, pushed, rx, state, frameVars>>

\* Mutant: no data is taken for the end of the stream.
recvNothingEof ==
    /\ rx = <<>>
    /\ state = "RX_MSG" => msgRemainingBytes > 0
    /\ iopc' = "closed"
    /\ len' = IF state = "RX_LEN" THEN Swap(len) ELSE len
    /\ UNCHANGED <<pushed, rx, state, lenRemainingBytes, msg, msgRemainingBytes>>

\* recv finds EAGAIN or the end of the stream: readAll ends, and handleDataIn
\* closes the connection at the end of the stream.  The length is swapped even so.
recvNothing ==
    /\ rx = <<>>
    /\ state = "RX_MSG" => msgRemainingBytes > 0
    /\ iopc' = IF rxFin THEN "closed" ELSE "epoll"
    /\ len' = IF state = "RX_LEN" THEN Swap(len) ELSE len
    /\ UNCHANGED <<pushed, rx, state, lenRemainingBytes, msg, msgRemainingBytes>>

\* A byte that is no header is dropped, and readAll ends.
recvHeader ==
    /\ state = "RX_HEADER" /\ rx # <<>>
    /\ rx' = Tail(rx)
    /\ \/ /\ Head(rx) # Header
          /\ iopc' = "epoll"
          /\ UNCHANGED <<state, lenRemainingBytes>>
       \/ /\ Head(rx) = Header
          /\ state' = "RX_LEN" /\ lenRemainingBytes' = 2
          /\ UNCHANGED iopc
    /\ UNCHANGED <<pushed, len, msg, msgRemainingBytes>>

\* &len + 2 - lenRemainingBytes counts in uint16_t: the second byte, when it comes
\* alone, is written behind the length.
LenReceived(bytes) ==
    IF lenRemainingBytes = 1 THEN len
    ELSE IF Len(bytes) = 2 THEN Value(bytes)
    ELSE Value(<<bytes[1], Memory(len)[2]>>)

\* Mutant: the length is not converted from network order.
recvLenUnswapped ==
    /\ state = "RX_LEN" /\ rx # <<>>
    /\ LET n == Smaller(lenRemainingBytes, Len(rx))
       IN  /\ rx' = Rest(n, rx)
           /\ len' = LenReceived(First(n, rx))
           /\ lenRemainingBytes' = lenRemainingBytes - n
    /\ state' = IF lenRemainingBytes' = 0 THEN "RX_MSG" ELSE state
    /\ msgRemainingBytes' = IF lenRemainingBytes' = 0 THEN len' ELSE msgRemainingBytes
    /\ UNCHANGED <<pushed, iopc, msg>>

recvLen ==
    /\ state = "RX_LEN" /\ rx # <<>>
    /\ LET n == Smaller(lenRemainingBytes, Len(rx))
       IN  /\ rx' = Rest(n, rx)
           /\ len' = Swap(LenReceived(First(n, rx)))
           /\ lenRemainingBytes' = lenRemainingBytes - n
    /\ state' = IF lenRemainingBytes' = 0 THEN "RX_MSG" ELSE state
    /\ msgRemainingBytes' = IF lenRemainingBytes' = 0 THEN len' ELSE msgRemainingBytes
    /\ UNCHANGED <<pushed, iopc, msg>>

\* Mutant: reset does not erase the frame.
pushFrameUnerased(m) ==
    /\ pushed' = Append(pushed, m)
    /\ state' = "RX_HEADER" /\ lenRemainingBytes' = 0 /\ msgRemainingBytes' = 0
    /\ UNCHANGED <<len, msg>>

pushFrame(m) ==
    /\ pushed' = Append(pushed, m)
    /\ state' = "RX_HEADER" /\ len' = 0 /\ lenRemainingBytes' = 0
    /\ msg' = <<>> /\ msgRemainingBytes' = 0

\* Mutant: a message that is complete ends readAll.
recvMsgOnce ==
    /\ state = "RX_MSG" /\ msgRemainingBytes > 0 /\ rx # <<>>
    /\ LET n == Smaller(msgRemainingBytes, Len(rx))
           m == msg \o First(n, rx)
       IN  /\ rx' = Rest(n, rx)
           /\ \/ n = msgRemainingBytes /\ pushFrame(m) /\ iopc' = "epoll"
              \/ /\ n < msgRemainingBytes
                 /\ msg' = m /\ msgRemainingBytes' = msgRemainingBytes - n
                 /\ UNCHANGED <<pushed, state, len, lenRemainingBytes, iopc>>

recvMsg ==
    /\ state = "RX_MSG" /\ msgRemainingBytes > 0 /\ rx # <<>>
    /\ LET n == Smaller(msgRemainingBytes, Len(rx))
           m == msg \o First(n, rx)
       IN  /\ rx' = Rest(n, rx)
           /\ \/ n = msgRemainingBytes /\ pushFrame(m)
              \/ /\ n < msgRemainingBytes
                 /\ msg' = m /\ msgRemainingBytes' = msgRemainingBytes - n
                 /\ UNCHANGED <<pushed, state, len, lenRemainingBytes>>
    /\ UNCHANGED iopc

\* An empty message: nothing is received, so tryRead returns false and readAll
\* ends, whatever the socket still holds.
emptyMsg ==
    /\ state = "RX_MSG" /\ msgRemainingBytes = 0
    /\ pushFrame(<<>>)
    /\ iopc' = "epoll"
    /\ UNCHANGED rx

tryRead ==
    /\ iopc = "read"
    /\ recvNothing \/ recvHeader \/ recvLen \/ recvMsg \/ emptyMsg
    /\ UNCHANGED <<netVars, edge>>

-----------------------------------------------------------------------------

Next == (\E m \in Messages : sendFrame(m)) \/ Leave \/ Arrive \/ ArriveFin \/ EpollIn \/ tryRead

Spec == Init /\ [][Next]_vars

\* What was sent arrives, and the I/O thread runs.
FairSpec == Spec /\ WF_vars(Arrive) /\ WF_vars(ArriveFin) /\ WF_vars(EpollIn \/ tryRead)

-----------------------------------------------------------------------------
(* Properties. *)

\* Types; the counters of PFramer belong to its state, and what was received of a
\* message and what is missing make up its length.
RPTypeOK ==
    /\ sent \in Seq(Messages) /\ pushed \in Seq(Seq(Byte))
    /\ wire \in Seq([kind : Kinds, bytes : Seq(Byte)])
    /\ {left, rxFin, edge} \subseteq BOOLEAN
    /\ rx \in Seq(Byte)
    /\ iopc \in {"epoll", "read", "closed"}
    /\ state \in {"RX_HEADER", "RX_LEN", "RX_MSG"}
    /\ len \in 0 .. Base * Base - 1
    /\ lenRemainingBytes \in 0 .. 2 /\ (state = "RX_LEN") = (lenRemainingBytes > 0)
    /\ msg \in Seq(Byte) /\ msgRemainingBytes \in Nat
    /\ state = "RX_MSG" => Len(msg) + msgRemainingBytes = len
    /\ state # "RX_MSG" => msg = <<>> /\ msgRemainingBytes = 0

\* The promise: wqIn gets the frames the client sent, whole and in order.
Stream == INSTANCE FrameStream WITH Frames <- Messages, delivered <- pushed
FramesInOrder == Stream!FSSpec

\* "Full frame in queue for" (Server.cpp:184): an item of wqIn is a whole frame as
\* the client sent it.
FullFrames == \A i \in DOMAIN pushed : i \in DOMAIN sent /\ pushed[i] = sent[i]

\* Every frame reaches the queue, however the network cuts it, unless an empty
\* frame made readAll stop early.
EveryFramePushed ==
    \A n \in 1 .. MaxFrames :
        (Len(sent) >= n) ~> (Len(pushed) >= n \/ \E i \in DOMAIN sent : sent[i] = <<>>)

\* The end of the stream closes the connection only when all that was sent before
\* it is in the queue.
ClosedAfterLastFrame == iopc = "closed" => pushed = sent
=============================================================================
