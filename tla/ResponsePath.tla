----------------------------- MODULE ResponsePath -----------------------------
(***************************************************************************)
(* From the server's output queue to the client: PDeframer, driven by       *)
(* handleDataOut and by edge-triggered EPOLLOUT events, the network, and    *)
(* IOFrameSocket::recvFrame on the client's blocking socket.  One action of *)
(* the I/O thread is one PDeframer::tryWrite, one action of the client is   *)
(* one recv, so the two ends interleave between any two calls.              *)
(***************************************************************************)
EXTENDS ByteStream

CONSTANT MaxFrames  \* bound: items the deframer is given

ASSUME ResponsePathAssumption == MaxFrames \in Nat

VARIABLES
    sent,      \* history: the messages of the items setSentItem took
    received,  \* history: the messages recvFrame read to their end
    refused,   \* history: the calls of recvFrame that failed for a frame read so
    garbled,   \* history: has recvFrame found something else than a header?
    swapped,   \* history: the items whose length send refused an odd number of times
    \* the network (external)
    wire,      \* pieces in the send buffer and on their way
    nospace,   \* did send find the buffer full? (the next free space is an edge)
    edge,      \* an EPOLLOUT edge not reported yet
    rx,        \* bytes in the client's socket
    \* the I/O thread and PDeframer
    iopc, writeInProgress, state, len, lenRemainingBytes, msg, msgRemainingBytes,
    \* the client in IOFrameSocket::recvFrame
    cstate, clen, nrecv, cmsg

deframerVars == <<writeInProgress, state, len, lenRemainingBytes, msg, msgRemainingBytes>>
clientVars == <<cstate, clen, nrecv, cmsg, received, refused, garbled>>
vars == <<sent, swapped, wire, nospace, edge, rx, iopc, deframerVars, clientVars>>

Init ==
    /\ sent = <<>> /\ received = <<>> /\ refused = {} /\ garbled = FALSE
    /\ swapped = {}
    /\ wire = <<>> /\ nospace = FALSE /\ edge = FALSE /\ rx = <<>>
    /\ iopc = "epoll" /\ writeInProgress = FALSE /\ state = "TX_HEADER"
    /\ len = 0 /\ lenRemainingBytes = 0 /\ msg = <<>> /\ msgRemainingBytes = 0
    /\ cstate = "header" /\ clen = 0 /\ nrecv = 0 /\ cmsg = <<>>

-----------------------------------------------------------------------------
(* The I/O thread: handleDataOut, EPOLLOUT and PDeframer. *)

\* handleDataOut with an item for this connection; a busy deframer drops it.
setSentItem(m) ==
    /\ iopc = "epoll" /\ ~writeInProgress
    /\ Len(sent) < MaxFrames
    /\ sent' = Append(sent, m)
    /\ writeInProgress' = TRUE /\ iopc' = "write" /\ state' = "TX_HEADER"
    /\ len' = Len(m) /\ msg' = m
    /\ lenRemainingBytes' = 0 /\ msgRemainingBytes' = 0
    /\ UNCHANGED <<swapped, wire, nospace, edge, rx, clientVars>>

EpollOut ==
    /\ iopc = "epoll" /\ edge
    /\ edge' = FALSE
    /\ iopc' = IF writeInProgress THEN "write" ELSE "epoll"
    /\ UNCHANGED <<sent, swapped, wire, nospace, rx, deframerVars, clientVars>>

\* How much of n bytes send takes: all, none (EAGAIN, only while the buffer holds
\* something), or a part of what may be cut.
Taking(kind, n) ==
    {k \in 0 .. n : /\ k = 0 => wire # <<>>
                    /\ k \in {0, n} \/ kind \in Cuts}

trySend(kind, bytes, k) ==
    /\ wire' = IF k = 0 THEN wire ELSE Append(wire, Piece(kind, First(k, bytes)))
    /\ nospace' = (k = 0)
    /\ iopc' = IF k = 0 THEN "epoll" ELSE "write"

sendHeader ==
    /\ state = "TX_HEADER"
    /\ \E k \in Taking("header", 1) :
        /\ trySend("header", <<Header>>, k)
        /\ state' = IF k = 1 THEN "TX_LEN" ELSE state
        /\ lenRemainingBytes' = IF k = 1 THEN 2 ELSE lenRemainingBytes
    /\ UNCHANGED <<swapped, writeInProgress, len, msg, msgRemainingBytes>>

\* The bytes at &len + 2 - lenRemainingBytes, counted in uint16_t: the length, or
\* one byte of the padding behind it.
LenBytes(v) == IF lenRemainingBytes = 2 THEN {Memory(v)} ELSE {<<b>> : b \in Byte}

\* The last item's length was refused (once more).
RefusedAgain ==
    IF Len(sent) \in swapped THEN swapped \ {Len(sent)} ELSE swapped \union {Len(sent)}

\* Mutant: the message is counted before the length is converted back.
sendLenEarly ==
    /\ state = "TX_LEN"
    /\ \E bytes \in LenBytes(Swap(len)), k \in Taking("len", lenRemainingBytes) :
        /\ trySend("len", bytes, k)
        /\ lenRemainingBytes' = lenRemainingBytes - k
        /\ state' = IF lenRemainingBytes' = 0 THEN "TX_MSG" ELSE state
        /\ len' = IF lenRemainingBytes' = 0 THEN len ELSE Swap(len)
        /\ msgRemainingBytes' = IF lenRemainingBytes' = 0 THEN Swap(len) ELSE msgRemainingBytes
        /\ swapped' = IF k = 0 THEN RefusedAgain ELSE swapped
    /\ UNCHANGED <<writeInProgress, msg>>

\* The length is converted in place at every attempt, and back when it is out: after
\* an odd number of refusals it leaves in host order and the message is counted by
\* the converted length.
sendLen ==
    /\ state = "TX_LEN"
    /\ \E bytes \in LenBytes(Swap(len)), k \in Taking("len", lenRemainingBytes) :
        /\ trySend("len", bytes, k)
        /\ lenRemainingBytes' = lenRemainingBytes - k
        /\ state' = IF lenRemainingBytes' = 0 THEN "TX_MSG" ELSE state
        /\ len' = IF lenRemainingBytes' = 0 THEN len ELSE Swap(len)
        /\ msgRemainingBytes' = IF lenRemainingBytes' = 0 THEN len ELSE msgRemainingBytes
        /\ swapped' = IF k = 0 THEN RefusedAgain ELSE swapped
    /\ UNCHANGED <<writeInProgress, msg>>

\* The last msgRemainingBytes of len bytes at msg, beyond its end too if len is wrong.
MsgBytes ==
    LET from == len - msgRemainingBytes
        over == (from + 1 .. len) \ DOMAIN msg
    IN  {[i \in 1 .. msgRemainingBytes |->
            IF from + i \in over THEN heap[from + i] ELSE msg[from + i]] : heap \in [over -> Byte]}

\* Mutant: a message that was sent in part counts as sent.
sendMsgOnce ==
    /\ state = "TX_MSG" /\ msgRemainingBytes > 0
    /\ \E bytes \in MsgBytes, k \in Taking("msg", msgRemainingBytes) :
        /\ wire' = IF k = 0 THEN wire ELSE Append(wire, Piece("msg", First(k, bytes)))
        /\ nospace' = (k = 0)
        /\ msgRemainingBytes' = msgRemainingBytes - k
        /\ writeInProgress' = (k = 0)
        /\ iopc' = "epoll"
    /\ UNCHANGED <<swapped, state, len, lenRemainingBytes, msg>>

sendMsg ==
    /\ state = "TX_MSG" /\ msgRemainingBytes > 0
    /\ \E bytes \in MsgBytes, k \in Taking("msg", msgRemainingBytes) :
        /\ wire' = IF k = 0 THEN wire ELSE Append(wire, Piece("msg", First(k, bytes)))
        /\ nospace' = (k = 0)
        /\ msgRemainingBytes' = msgRemainingBytes - k
        /\ writeInProgress' = (k < msgRemainingBytes)
        /\ iopc' = IF k = 0 \/ k = msgRemainingBytes THEN "epoll" ELSE "write"
    /\ UNCHANGED <<swapped, state, len, lenRemainingBytes, msg>>

\* trySend sends nothing of nothing, and the write is over.
sendEmpty ==
    /\ state = "TX_MSG" /\ msgRemainingBytes = 0
    /\ writeInProgress' = FALSE /\ iopc' = "epoll"
    /\ UNCHANGED <<swapped, wire, nospace, state, len, lenRemainingBytes, msg, msgRemainingBytes>>

tryWrite ==
    /\ iopc = "write"
    /\ sendHeader \/ sendLen \/ sendMsg \/ sendEmpty
    /\ UNCHANGED <<sent, edge, rx, clientVars>>

-----------------------------------------------------------------------------
(* The network. *)

Arrive ==
    /\ \E n \in Segments(wire) :
        /\ rx' = rx \o First(n, Head(wire).bytes)
        /\ wire' = Taken(wire, n)
    /\ edge' = (edge \/ nospace) /\ nospace' = FALSE
    /\ UNCHANGED <<sent, swapped, iopc, deframerVars, clientVars>>

-----------------------------------------------------------------------------
(* The client: IOFrameSocket::recvFrame, called again and again. *)

readHeader ==
    /\ cstate = "header"
    /\ rx' = Tail(rx)
    /\ \/ /\ Head(rx) # Header
          /\ garbled' = TRUE
          /\ UNCHANGED <<cstate, nrecv>>
       \/ /\ Head(rx) = Header
          /\ cstate' = "len" /\ nrecv' = 1
          /\ UNCHANGED garbled
    /\ UNCHANGED <<clen, cmsg, received, refused>>

FrameRead(m, n, length) ==
    /\ received' = Append(received, m)
    /\ refused' = IF n # length THEN refused \union {Len(received) + 1} ELSE refused
    /\ cstate' = "header" /\ clen' = 0 /\ nrecv' = 0 /\ cmsg' = <<>>

\* One recv for the length, whatever it brings; an empty frame is compared with
\* the one byte of the header.
readLen ==
    /\ cstate = "len"
    /\ LET n == Smaller(2, Len(rx))
           length == Swap(Value(IF n = 2 THEN First(2, rx) ELSE <<rx[1], 0>>))
       IN  /\ rx' = Rest(n, rx)
           /\ \/ length = 0 /\ FrameRead(<<>>, nrecv, length)
              \/ /\ length # 0
                 /\ clen' = length /\ cstate' = "msg"
                 /\ UNCHANGED <<nrecv, cmsg, received, refused>>
    /\ UNCHANGED garbled

\* Mutant: the loop asks for the whole message each time.
readMsgWhole ==
    /\ cstate = "msg"
    /\ LET n == Smaller(clen, Len(rx))
           m == cmsg \o First(n, rx)
       IN  /\ rx' = Rest(n, rx)
           /\ \/ Len(m) >= clen /\ FrameRead(m, n, clen)
              \/ /\ Len(m) < clen
                 /\ cmsg' = m
                 /\ UNCHANGED <<cstate, clen, nrecv, received, refused>>
    /\ UNCHANGED garbled

\* recvFrame compares the size of the last segment with the whole length.
readMsg ==
    /\ cstate = "msg"
    /\ LET n == Smaller(clen - Len(cmsg), Len(rx))
           m == cmsg \o First(n, rx)
       IN  /\ rx' = Rest(n, rx)
           /\ \/ Len(m) = clen /\ FrameRead(m, n, clen)
              \/ /\ Len(m) < clen
                 /\ cmsg' = m
                 /\ UNCHANGED <<cstate, clen, nrecv, received, refused>>
    /\ UNCHANGED garbled

recvFrame ==
    /\ rx # <<>>
    /\ readHeader \/ readLen \/ readMsg
    /\ UNCHANGED <<sent, swapped, wire, nospace, edge, iopc, deframerVars>>

-----------------------------------------------------------------------------

Next == (\E m \in Messages : setSentItem(m)) \/ EpollOut \/ tryWrite \/ Arrive \/ recvFrame

Spec == Init /\ [][Next]_vars

\* The I/O thread runs, what was sent arrives, the client reads.
FairSpec == Spec /\ WF_vars(EpollOut \/ tryWrite) /\ WF_vars(Arrive) /\ WF_vars(recvFrame)

-----------------------------------------------------------------------------
(* Properties. *)

\* Types, and what of the message is still to be sent is an end of it.
SPTypeOK ==
    /\ sent \in Seq(Messages) /\ received \in Seq(Seq(Byte))
    /\ refused \subseteq DOMAIN received /\ garbled \in BOOLEAN
    /\ swapped \subseteq DOMAIN sent
    /\ wire \in Seq([kind : Kinds, bytes : Seq(Byte)])
    /\ {nospace, edge, writeInProgress} \subseteq BOOLEAN
    /\ rx \in Seq(Byte)
    /\ iopc \in {"epoll", "write"}
    /\ state \in {"TX_HEADER", "TX_LEN", "TX_MSG"}
    /\ len \in 0 .. Base * Base - 1 /\ msg \in Seq(Byte)
    /\ lenRemainingBytes \in 0 .. 2 /\ msgRemainingBytes \in 0 .. len
    /\ cstate \in {"header", "len", "msg"}
    /\ clen \in 0 .. Base * Base - 1 /\ nrecv \in {0, 1} /\ cmsg \in Seq(Byte)

\* A frame whose length went out in host order is read with the length that makes,
\* and with the bytes of its message as far as both go.
Misread(m, r) ==
    /\ Len(r) = Swap(Len(m))
    /\ \A i \in 1 .. Smaller(Len(m), Len(r)) : r[i] = m[i]

\* What the client read, but for those frames.
Understood ==
    [i \in DOMAIN received |->
        IF i \in swapped /\ Misread(sent[i], received[i]) THEN sent[i] ELSE received[i]]

\* The promise: what recvFrame reads are the frames the server sent, whole, once and
\* in order, also after a call that refused its frame.  A frame whose length met a
\* full buffer an odd number of times (PDeframer.cpp:83) is the exception: it comes
\* in its turn, but with its length swapped.  Lengths move in one piece.
Stream == INSTANCE FrameStream WITH Frames <- Messages, delivered <- Understood
FramesInOrder == Stream!FSSpec

\* Every frame handed to the deframer is read by the client, those with a swapped
\* length too, wherever send finds the buffer full.  Lengths move in one piece.
EveryFrameRead == \A n \in 1 .. MaxFrames : (Len(sent) >= n) ~> (Len(received) >= n)

\* "User request failed!!!" (main.cpp:30): recvFrame fails, and with it fetchRequest,
\* only when the server's answer did not come.
AnsweredIsSuccess == refused = {}
=============================================================================
