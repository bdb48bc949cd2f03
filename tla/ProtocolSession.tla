--------------------------- MODULE ProtocolSession ---------------------------
(***************************************************************************)
(* One session: a Client, and on the server the chain of handlers of its    *)
(* ProtocolContext (connected, authentication, user), the coders and the     *)
(* Authenticator.  Frames travel in order; a call of the client may time     *)
(* out, and then its answer comes all the same and the next call meets it.   *)
(*                                                                         *)
(* A frame is [key, whole, wire, tag]: the key it is encrypted with, or       *)
(* Plain; whether its 16-bit length was enough; the message; and, as         *)
(* history, which call and which stage of it sent or caused it.  A key is    *)
(* named after the public key of the client that it is agreed from, and that *)
(* after the call of connect; the server agrees only once in a session.      *)
(***************************************************************************)
EXTENDS Messages, TLC

CONSTANTS
    Operations,  \* what the client program calls: "connect", "authenticate", "fetchRequest"
    Requests,    \* the texts of its user requests
    OtherFrames, \* the messages another client program may send
    Credentials, \* what it authenticates with: [username, password]
    Methods,     \* what addUser may add: "trust", or a password
    Factories,   \* "test", "null" (NullUserHandlerFactory), "none" (no factory)
    UserTables,  \* the tables the server may start with
    Attempts,    \* how many refusals leave the login open, 5 in the code
    MaxCalls,    \* bound: calls of the client
    MaxChanges   \* bound: calls of addUser and delUser

ASSUME SessionAssumption ==
    /\ Operations \subseteq {"connect", "authenticate", "fetchRequest"}
    /\ Factories \subseteq {"test", "null", "none"}
    /\ \A text \in Requests : IsBytes(text)
    /\ \A c \in Credentials : IsBytes(c.username) /\ IsBytes(c.password)
    /\ \A wire \in OtherFrames : IsWire(wire)
    /\ Attempts \in Nat /\ MaxCalls \in Nat /\ MaxChanges \in Nat

VARIABLES
    \* Client
    isConnected, isAuthenticated, ccoder,
    conn_open,  \* IOFrameSocket::conn_open, TRUE before there is a socket
    cpc,        \* "idle", which answer the call waits for, "dead", or "other": no Client
    req,        \* the text of the request under way
    calls,      \* history: how many calls were made
    \* the connection: frames in order, and whether the server's end is open
    up, down, open,
    \* ProtocolContext and its handler
    state, isKexComplete, scoder, areq, remainingAttempts, finalStateFactory,
    \* Authenticator
    authenticator,  \* is there one?
    userTable, changes,
    \* history
    last,       \* how the last call ended
    connected,  \* has connect returned TRUE?
    late,       \* has a call timed out?
    garbled,    \* has the authentication handler met a frame it could not decode?
    crossed,    \* has a call taken the answer to another request?
    presented   \* the credentials the authentication handler has read

clientVars == <<isConnected, isAuthenticated, ccoder, conn_open, cpc, req, calls>>
handlerVars == <<state, isKexComplete, scoder, areq, remainingAttempts, finalStateFactory>>
authVars == <<authenticator, userTable, changes>>
serverVars == <<handlerVars, open, garbled, presented>>
noteVars == <<last, connected, late, crossed>>
vars == <<clientVars, up, down, serverVars, authVars, noteVars>>

Plain == <<>>   \* no key: the coder of before the key exchange

NoReturn == [stage |-> "idle", ok |-> FALSE, got |-> EmptyBytes]

PSInit ==
    /\ isConnected = FALSE /\ isAuthenticated = "uninitialised" /\ ccoder = Plain
    /\ conn_open = TRUE /\ cpc = "idle" /\ req = EmptyBytes /\ calls = 0
    /\ up = <<>> /\ down = <<>> /\ open = TRUE
    /\ state = "connected" /\ isKexComplete = FALSE /\ scoder = Plain
    /\ areq = New("ClientAuthRequest") /\ remainingAttempts = Attempts
    /\ finalStateFactory \in Factories
    /\ authenticator \in BOOLEAN
    /\ userTable \in IF authenticator THEN UserTables ELSE {<<>>}
    /\ changes = 0
    /\ last = NoReturn /\ connected = FALSE /\ late = FALSE /\ garbled = FALSE
    /\ crossed = FALSE /\ presented = {}

-----------------------------------------------------------------------------
(* The coders.  A coder is its key. *)

MaxLen == 65535   \* the largest 16-bit length
Overhead == 32    \* initialisation vector and tag

Encodable(wire) == WireSize(wire) <= MaxLen

\* Mutant: the length of an encrypted frame is not cut.
wholeAlways(key, wire) == TRUE

\* EncrMessageCoder::encode stores the size in 16 bits.
whole(key, wire) == key # Plain => WireSize(wire) + Overhead <= MaxLen

encode(key, wire, tag) == [key |-> key, whole |-> whole(key, wire), wire |-> wire, tag |-> tag]

\* The header is looked at, and the tag verified.
opens(key, f) == f.key = key /\ f.whole

\* The outcomes of decoding f into the message m.  The plain coder parses whatever
\* it is given: of ciphertext it makes nothing, or a message without known fields.
decode(key, f, C, m) ==
    IF key = Plain
    THEN IF f.key = Plain THEN {ParseFromArray(C, m, f.wire)}
         ELSE {[ok |-> ok, msg |-> Clear(C, m)] : ok \in BOOLEAN}
    ELSE IF opens(key, f) THEN {ParseFromArray(C, m, f.wire)}
         ELSE {[ok |-> FALSE, msg |-> m]}

-----------------------------------------------------------------------------
(* The handlers of the server. *)

\* The answers, encoded with the coder of now; one that does not fit throws, which
\* nobody catches.
respond(wires, tag) ==
    IF \A i \in DOMAIN wires : Encodable(wires[i])
    THEN down' = down \o [i \in DOMAIN wires |-> encode(scoder, wires[i], tag)]
    ELSE down' = down

Status(C, s) == Serialize(C, set(C, New(C), "status", s))
ConnectedResp(s) == Status("ServerConnectedStateResponse", ConnectedStatus[s])
AuthResp(s) == Status("ServerAuthResponse", AuthStatus[s])

PublicKey(owner) == Binary(owner, 32)
IsPublicKey(b) == b.len = 32

\* A point that agree refuses: 32 zeros, which is text.  No program makes such a key.
LowOrder == Text("low order", 32)
agree(b) == b # LowOrder

Kex(alg, pkey) == set("KexMsg", set("KexMsg", New("KexMsg"), "alg", alg), "pkey", pkey)
WithKex(C, m, kex) == set_allocated(C, m, "kex", <<kex>>)

\* A response with a key exchange in it: mutable_kex comes before the checks.
KexResp(s, kex) ==
    LET C == "ServerConnectedStateResponse"
    IN  Serialize(C, WithKex(C, set(C, New(C), "status", ConnectedStatus[s]), kex))

handleKex(f, m) ==
    LET kexReq == get("ClientConnectedStateRequest", m, "kex")
        acceptable == kexReq.val["alg"] = KexAlg.KEX_ECDH /\ IsPublicKey(kexReq.val["pkey"])
        hasKex == has("ClientConnectedStateRequest", m, "kex")
    IN  \/ /\ isKexComplete \/ ~hasKex
           /\ respond(<<ConnectedResp("REQUEST_ERROR")>>, f.tag)
           /\ UNCHANGED handlerVars
        \/ /\ ~isKexComplete /\ hasKex /\ ~acceptable
           /\ respond(<<KexResp("REQUEST_ERROR", New("KexMsg"))>>, f.tag)
           /\ UNCHANGED handlerVars
        \/ /\ ~isKexComplete /\ hasKex /\ acceptable /\ ~agree(kexReq.val["pkey"])
           /\ respond(<<KexResp("REQUEST_ERROR", Kex(KexAlg.KEX_ECDH, EmptyBytes))>>, f.tag)
           /\ UNCHANGED handlerVars
        \/ /\ ~isKexComplete /\ hasKex /\ acceptable /\ agree(kexReq.val["pkey"])
           /\ respond(<<KexResp("OK", Kex(KexAlg.KEX_ECDH, PublicKey("server")))>>, f.tag)
           /\ isKexComplete' = TRUE /\ scoder' = <<kexReq.val["pkey"].text>>
           /\ UNCHANGED <<state, areq, remainingAttempts, finalStateFactory>>

handleAuthRequest(f) ==
    \/ /\ ~isKexComplete
       /\ respond(<<ConnectedResp("REQUEST_ERROR")>>, f.tag)
       /\ UNCHANGED handlerVars
    \/ /\ isKexComplete
       /\ respond(<<ConnectedResp("OK")>>, f.tag)
       /\ state' = "authentication" /\ areq' = New("ClientAuthRequest") /\ remainingAttempts' = Attempts
       /\ UNCHANGED <<isKexComplete, scoder, finalStateFactory>>

\* ProtocolConnectedHandler::handleFrame.  Other request types get no answer.
connectedFrame(f) ==
    /\ state = "connected"
    /\ \E r \in decode(scoder, f, "ClientConnectedStateRequest", New("ClientConnectedStateRequest")) :
        LET type == r.msg.val["type"]
        IN  \/ /\ ~r.ok
               /\ respond(<<ConnectedResp("DECODE_ERROR")>>, f.tag) /\ UNCHANGED handlerVars
            \/ r.ok /\ type = RequestType.REQUEST_KEX /\ handleKex(f, r.msg)
            \/ r.ok /\ type = RequestType.REQUEST_AUTH /\ handleAuthRequest(f)
            \/ /\ r.ok /\ type \notin {RequestType.REQUEST_KEX, RequestType.REQUEST_AUTH}
               /\ UNCHANGED <<down, handlerVars>>
    /\ UNCHANGED <<garbled, presented>>

\* IAuthenticationStrategy::verify
verify(method, c) == method = "trust" \/ (c.given /\ c.password = method)

\* Mutant: an unknown user passes.
authenticateUnknown(users, c) ==
    users.known /\ c.username \in DOMAIN users.table =>
        \E method \in users.table[c.username] : verify(method, c)

\* Without an Authenticator everybody is accepted.
authenticate(users, c) ==
    users.known =>
        c.username \in DOMAIN users.table
        /\ \E method \in users.table[c.username] : verify(method, c)

Users == [known |-> authenticator, table |-> userTable]
CredentialsOf(m) ==
    [username |-> m.val["username"].text,
     given |-> has("ClientAuthRequest", m, "authCredential"),
     password |-> m.val["authCredential"].text]

\* proceedAuth ends the session when there is no handler for its last state.
FinalState == IF finalStateFactory = "test" THEN "user" ELSE "null"

doAuth(m, before, tag) ==
    LET refused == ~authenticate(Users, CredentialsOf(m))
    IN  \/ /\ ~refused
           /\ respond(before \o <<AuthResp("AUTH_ACCEPT")>>, tag)
           /\ state' = FinalState /\ UNCHANGED remainingAttempts
        \/ /\ refused /\ remainingAttempts > 0
           /\ respond(before \o <<AuthResp("AUTH_CONTINUE")>>, tag)
           /\ remainingAttempts' = remainingAttempts - 1 /\ UNCHANGED state
        \/ /\ refused /\ remainingAttempts = 0
           /\ respond(before \o <<AuthResp("AUTH_REJECT")>>, tag)
           /\ state' = "null" /\ UNCHANGED remainingAttempts

IsSupply(m) == m.val["request"] = AuthRequestType.AUTH_SUPPLY

\* Mutant: the answer of the default case is missing.
otherAuthRequestUnanswered(before, tag) ==
    /\ respond(before, tag) /\ UNCHANGED <<state, remainingAttempts>>

otherAuthRequest(before, tag) ==
    /\ respond(before \o <<AuthResp("INVALID_REQUEST")>>, tag)
    /\ UNCHANGED <<state, remainingAttempts>>

\* Mutant: case AUTH_SUPPLY falls through to the next one.
authFrameFallsThrough(f) ==
    /\ state = "authentication"
    /\ \E r \in decode(scoder, f, "ClientAuthRequest", areq) :
        LET before == IF r.ok THEN <<>> ELSE <<AuthResp("DECODE_ERROR")>>
        IN  /\ areq' = r.msg
            /\ presented' = IF IsSupply(r.msg) THEN presented \union {CredentialsOf(r.msg)}
                            ELSE presented
            /\ garbled' = (garbled \/ ~r.ok)
            /\ \/ /\ IsSupply(r.msg)
                  /\ doAuth(r.msg, before \o <<AuthResp("INVALID_REQUEST")>>, f.tag)
               \/ ~IsSupply(r.msg) /\ otherAuthRequest(before, f.tag)
    /\ UNCHANGED <<isKexComplete, scoder, finalStateFactory>>

\* ProtocolAuthenticationHandler::handleFrame: after a frame that cannot be decoded
\* it goes on with the request as it is, the one before or what was parsed of it.
authFrame(f) ==
    /\ state = "authentication"
    /\ \E r \in decode(scoder, f, "ClientAuthRequest", areq) :
        LET before == IF r.ok THEN <<>> ELSE <<AuthResp("DECODE_ERROR")>>
        IN  /\ areq' = r.msg
            /\ presented' = IF IsSupply(r.msg) THEN presented \union {CredentialsOf(r.msg)}
                            ELSE presented
            /\ garbled' = (garbled \/ ~r.ok)
            /\ \/ IsSupply(r.msg) /\ doAuth(r.msg, before, f.tag)
               \/ ~IsSupply(r.msg) /\ otherAuthRequest(before, f.tag)
    /\ UNCHANGED <<isKexComplete, scoder, finalStateFactory>>

Said(b) == [b EXCEPT !.text = "You said: " \o @, !.len = @ + 10, !.parses = FALSE, !.sub = <<>>]
Stupid == Text("You stupid!!!!", 14)

\* Mutant: a request that cannot be decoded is answered like the others.
userReplyAlways(r) == Said(r.msg.val["msg"])

\* TestUserHandler::handleMsg and handleDecodeErr
userReply(r) == IF r.ok THEN Said(r.msg.val["msg"]) ELSE Stupid

\* ProtocolUserHandler::handleFrame; the exception of an answer that does not fit
\* ends the worker thread, and the process with it.
userFrame(f) ==
    /\ state = "user"
    /\ \E r \in decode(scoder, f, "UserRequest", New("UserRequest")) :
        LET wire == Serialize("ServerResponse",
                        set("ServerResponse", New("ServerResponse"), "msg", userReply(r)))
        IN  /\ respond(<<wire>>, f.tag)
            /\ state' = IF Encodable(wire) THEN state ELSE "terminated"
    /\ UNCHANGED <<isKexComplete, scoder, areq, remainingAttempts, finalStateFactory,
                   garbled, presented>>

handleFrame ==
    /\ open /\ up # <<>> /\ up' = Tail(up)
    /\ connectedFrame(Head(up)) \/ authFrame(Head(up)) \/ userFrame(Head(up))
    /\ UNCHANGED <<clientVars, open, authVars, noteVars>>

\* The worker finds the session over and closes the connection; answers that the
\* I/O thread has not written yet are lost.
closeClient ==
    /\ open /\ state = "null"
    /\ open' = FALSE
    /\ \E k \in 0..Len(down) : down' = SubSeq(down, 1, k)
    /\ UNCHANGED <<clientVars, up, handlerVars, garbled, presented, authVars, noteVars>>

\* Authenticator::addUser and delUser, by the program that embeds the server.
changeUsers(table) ==
    /\ authenticator /\ changes < MaxChanges
    /\ changes' = changes + 1 /\ userTable' = table
    /\ UNCHANGED <<clientVars, up, down, serverVars, authenticator, noteVars>>

addUser ==
    \E c \in Credentials, method \in Methods :
        LET name == c.username.text
            old == IF name \in DOMAIN userTable THEN userTable[name] ELSE {}
        IN  changeUsers((name :> (old \union {method})) @@ userTable)

delUser ==
    \E c \in Credentials :
        changeUsers(Restrict(userTable, DOMAIN userTable \ {c.username.text}))

-----------------------------------------------------------------------------
(* The client. *)

Call(operation) ==
    /\ operation \in Operations /\ cpc = "idle" /\ calls < MaxCalls
    /\ calls' = calls + 1
    /\ last' = NoReturn
    /\ UNCHANGED <<isAuthenticated, ccoder, conn_open, down, serverVars, authVars,
                   connected, late, crossed>>

\* sendMsg: false when the message does not fit, or the end of the stream was read.
Sent(wire) == conn_open /\ Encodable(wire)

sendOr(wire, stage, text) ==
    IF Sent(wire)
    THEN /\ up' = Append(up, encode(ccoder, wire, <<calls', stage>>))
         /\ cpc' = stage /\ req' = text
    ELSE UNCHANGED <<up, cpc, req>>

KexWire(n) ==
    LET C == "ClientConnectedStateRequest"
    IN  Serialize(C, WithKex(C, set(C, New(C), "type", RequestType.REQUEST_KEX),
                             Kex(KexAlg.KEX_ECDH, PublicKey(ToString(n)))))

AuthReqWire ==
    LET C == "ClientConnectedStateRequest"
    IN  Serialize(C, set(C, New(C), "type", RequestType.REQUEST_AUTH))

\* connect_sock keeps a socket it has once opened.
connect ==
    /\ Call("connect")
    /\ isConnected' = TRUE
    /\ sendOr(KexWire(calls'), "kex", EmptyBytes)

connectRefused ==
    /\ Call("connect")
    /\ ~isConnected /\ UNCHANGED <<isConnected, up, cpc, req>>

authenticateAs ==
    /\ Call("authenticate") /\ isConnected /\ UNCHANGED isConnected
    /\ \E c \in Credentials :
        LET C == "ClientAuthRequest"
            named == set(C, set(C, New(C), "request", AuthRequestType.AUTH_SUPPLY),
                         "username", c.username)
        IN  sendOr(Serialize(C, set(C, named, "authCredential", c.password)), "auth", EmptyBytes)

fetchRequest ==
    /\ Call("fetchRequest") /\ isConnected /\ UNCHANGED isConnected
    /\ \E text \in Requests :
        sendOr(Serialize("UserRequest", set("UserRequest", New("UserRequest"), "msg", text)),
               "request", text)

Return(ok, got) ==
    /\ cpc' = "idle"
    /\ last' = [stage |-> cpc, ok |-> ok, got |-> got]
    /\ UNCHANGED up

\* What fetchMsg may make of the next frame.  A frame is read whole here; that
\* recvFrame refuses one whose message came in two segments (IOFrameSocket.cpp:43) is
\* in ResponsePath only.
Fetched(stage, C) ==
    IF cpc = stage /\ down # <<>> THEN decode(ccoder, Head(down), C, New(C)) ELSE {}

TakeAnswer ==
    /\ down' = Tail(down)
    /\ crossed' = (crossed \/ Head(down).tag # <<calls, cpc>>)
    /\ UNCHANGED <<isConnected, conn_open, req, calls, late, serverVars, authVars>>

\* The rest of connect: the key is derived, the coder replaced, and the login asked for.
kexAnswer ==
    \E r \in Fetched("kex", "ServerConnectedStateResponse") :
        LET kex == get("ServerConnectedStateResponse", r.msg, "kex")
            agreed == /\ r.ok /\ r.msg.val["status"] = ConnectedStatus.OK
                      /\ has("ServerConnectedStateResponse", r.msg, "kex")
                      /\ kex.val["alg"] = KexAlg.KEX_ECDH /\ IsPublicKey(kex.val["pkey"])
                      /\ agree(kex.val["pkey"])
        IN  /\ TakeAnswer
            /\ \/ /\ agreed
                  /\ ccoder' = <<ToString(calls)>>
                  /\ up' = Append(up, encode(ccoder', AuthReqWire, <<calls, "askauth">>))
                  /\ cpc' = "askauth" /\ UNCHANGED last
               \/ ~agreed /\ Return(FALSE, EmptyBytes) /\ UNCHANGED ccoder
            /\ UNCHANGED <<isAuthenticated, connected>>

\* Mutant: the result of fetchMsg is ignored; resp still has the OK of before.
askAuthAnswerIgnored ==
    \E r \in Fetched("askauth", "ServerConnectedStateResponse") :
        LET ok == ~r.ok \/ r.msg.val["status"] = ConnectedStatus.OK
        IN  /\ TakeAnswer
            /\ Return(ok, EmptyBytes)
            /\ connected' = (connected \/ ok)
            /\ UNCHANGED <<isAuthenticated, ccoder>>

askAuthAnswer ==
    \E r \in Fetched("askauth", "ServerConnectedStateResponse") :
        LET ok == r.ok /\ r.msg.val["status"] = ConnectedStatus.OK
        IN  /\ TakeAnswer
            /\ Return(ok, EmptyBytes)
            /\ connected' = (connected \/ ok)
            /\ UNCHANGED <<isAuthenticated, ccoder>>

\* Mutant: everything but a rejection is taken for success.
authAnswerLenient ==
    \E r \in Fetched("auth", "ServerAuthResponse") :
        LET ok == r.ok /\ r.msg.val["status"] # AuthStatus.AUTH_REJECT
        IN  /\ TakeAnswer
            /\ Return(ok, EmptyBytes)
            /\ isAuthenticated' = IF ok THEN "true" ELSE isAuthenticated
            /\ UNCHANGED <<ccoder, connected>>

authAnswer ==
    \E r \in Fetched("auth", "ServerAuthResponse") :
        LET ok == r.ok /\ r.msg.val["status"] = AuthStatus.AUTH_ACCEPT
        IN  /\ TakeAnswer
            /\ Return(ok, EmptyBytes)
            /\ isAuthenticated' = IF ok THEN "true" ELSE isAuthenticated
            /\ UNCHANGED <<ccoder, connected>>

requestAnswer ==
    \E r \in Fetched("request", "ServerResponse") :
        /\ TakeAnswer
        /\ Return(r.ok, r.msg.val["msg"])
        /\ UNCHANGED <<isAuthenticated, ccoder, connected>>

Waiting == cpc \notin {"idle", "dead", "other"}

\* recv fails after ten seconds; the answer is still to come, whole: a time-out in the
\* middle of a frame (IOFrameSocket.cpp:31, 39-40), after which the stream is out of
\* step, is not modelled.
timeOut ==
    /\ Waiting /\ Return(FALSE, EmptyBytes)
    /\ late' = TRUE
    /\ UNCHANGED <<isConnected, isAuthenticated, ccoder, conn_open, req, calls, down,
                   serverVars, authVars, connected, crossed>>

\* recv returns 0.
readEof ==
    /\ Waiting /\ ~open /\ down = <<>>
    /\ conn_open' = FALSE /\ Return(FALSE, EmptyBytes)
    /\ UNCHANGED <<isConnected, isAuthenticated, ccoder, req, calls, down, serverVars,
                   authVars, connected, late, crossed>>

\* A frame met the closed socket: recv fails, and nobody catches the exception.
readReset ==
    /\ Waiting /\ ~open /\ up # <<>>
    /\ cpc' = "dead" /\ down' = <<>>
    /\ UNCHANGED <<isConnected, isAuthenticated, ccoder, conn_open, req, calls, up, serverVars,
                   authVars, noteVars>>

-----------------------------------------------------------------------------

Server == handleFrame \/ closeClient
ClientReads ==
    kexAnswer \/ askAuthAnswer \/ authAnswer \/ requestAnswer \/ readEof \/ readReset
\* The other end is no Client but another program: it sends what it likes, plain or
\* with its key, and reads the answers before it goes on.
otherFrame ==
    /\ cpc = "other" \/ calls = 0
    /\ cpc' = "other"
    /\ calls < MaxCalls /\ calls' = calls + 1
    /\ up = <<>> /\ down' = <<>>
    /\ \E key \in {Plain, <<"other">>}, wire \in OtherFrames :
           up' = Append(up, encode(key, wire, <<calls', "other">>))
    /\ UNCHANGED <<isConnected, isAuthenticated, ccoder, conn_open, req, serverVars, authVars,
                   noteVars>>

ClientCalls == connect \/ connectRefused \/ authenticateAs \/ fetchRequest

PSNext == Server \/ ClientReads \/ ClientCalls \/ timeOut \/ otherFrame \/ addUser \/ delUser

\* The worker takes frames and closes what is over, and a client that waits in recv
\* gets what comes; that a call times out is not assumed.  Only handleFrame takes from
\* up, and only the client's reads take from down or read the end of the stream.
FrameTaken ==
    open /\ state \notin {"null", "terminated"} /\ up # <<>> /\ up' = Tail(up)
AnswerTaken ==
    /\ Waiting /\ UNCHANGED open
    /\ \/ down # <<>> /\ down' = Tail(down) /\ UNCHANGED conn_open
       \/ down = <<>> /\ ~open /\ conn_open' = FALSE /\ UNCHANGED down

PSSpec ==
    /\ PSInit /\ [][PSNext]_vars
    /\ WF_up(FrameTaken) /\ WF_vars(closeClient) /\ WF_<<down, conn_open>>(AnswerTaken)

-----------------------------------------------------------------------------
(* Properties. *)

\* Whom a table lets in: those it knows, by trust or by one of their passwords.
Entitled(users, c) ==
    users.known =>
        \E name \in DOMAIN users.table :
            name = c.username /\ {"trust", c.password} \cap users.table[name] # {}

Phases == INSTANCE SessionPhases WITH
    MaxRefusals <- Attempts, Accepts <- Entitled,
    phase <- CASE state = "connected" -> IF isKexComplete THEN "keyed" ELSE "hello"
               [] state = "authentication" -> "login"
               [] state = "user" -> "service"
               [] state = "null" -> "over"
               [] OTHER -> state,
    refusals <- Attempts - remainingAttempts,
    users <- Users

\* A session goes from the key exchange through the login to the service, and nobody
\* is served who did not send credentials that the table accepted, although a frame
\* that cannot be decoded makes the handler look at an earlier request again.
PhasesRespected == Phases!SPSpec

\* Once connect has returned TRUE the two ends use the same key, also when earlier
\* calls of connect timed out half-way and their answers came late.
KeysAgree == connected => ccoder = scoder /\ ccoder # Plain

\* A call takes the answer to its own request, unless one timed out before or the
\* authentication handler answered twice to a frame it could not decode.
AnswersInStep == crossed => late \/ garbled

\* A client whose authenticate succeeded was accepted, unless it read the answer to
\* another request (the OK to a key exchange has the number of AUTH_ACCEPT).
AuthenticatedMeansAccepted ==
    isAuthenticated = "true" /\ ~crossed =>
        state = "user" \/ (state = "null" /\ finalStateFactory # "test")

\* In service, an answered request gets its own echo; one that was not UTF-8, or did
\* not fit an encrypted frame, gets the reply to what cannot be decoded.
EchoIsOwn ==
    isAuthenticated = "true" /\ ~crossed /\ last.stage = "request" /\ last.ok =>
        last.got = IF req.utf8 /\ req.len + 4 + Overhead <= MaxLen THEN Said(req) ELSE Stupid

\* No request makes an answer that cannot be encoded, at any of the lengths around
\* the limits of the plain and the encrypted frame: the exception would end the server.
WorkerSurvives == state # "terminated"

\* A call of a connected client ends, time-outs aside: every frame is answered or
\* the connection closed.
CallEnds == (connected /\ cpc # "idle") ~> (cpc \in {"idle", "dead"})
=============================================================================
