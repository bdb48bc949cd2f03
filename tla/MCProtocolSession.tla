-------------------------- MODULE MCProtocolSession --------------------------
(* Small instances of ProtocolSession for TLC. *)
EXTENDS ProtocolSession

Ann == Text("ann", 3)
TheCredentials == {[username |-> Ann, password |-> Text("right", 5)],
                   [username |-> Ann, password |-> Text("wrong", 5)]}
TheTables == {<<>>, "ann" :> {"right"}}

\* A short text, one that is no UTF-8, and the lengths around the limits: the
\* longest whose echo can be read, one more; one that an encrypted frame cuts; the
\* longest that fits a plain frame, and one more.
TheRequests ==
    {Text("hello", 5), Binary("raw", 5)}
        \union {Text("long", n) : n \in {65489, 65490, 65500, 65531, 65532}}

\* Every request type in the first phase, with and without a proper key exchange;
\* every request type of the login, with and without a credential.
Ask(type, kexes) ==
    LET C == "ClientConnectedStateRequest"
        plain == set(C, New(C), "type", type)
    IN  {Serialize(C, plain)} \union {Serialize(C, WithKex(C, plain, k)) : k \in kexes}
Login(type) ==
    LET C == "ClientAuthRequest"
        named == set(C, set(C, New(C), "request", type), "username", Ann)
    IN  {Serialize(C, named), Serialize(C, set(C, named, "authCredential", Text("right", 5)))}
TheOtherFrames ==
    Ask(RequestType.UNKNOWN, {}) \union Ask(RequestType.REQUEST_AUTH, {})
        \union Ask(RequestType.REQUEST_KEX,
                   {Kex(KexAlg.KEX_ECDH, PublicKey("other")), Kex(KexAlg.KEX_ECDH, Text("short", 5)),
                    Kex(KexAlg.KEX_ECDH, LowOrder),
                    Kex(KexAlg.KEX_UNKNOWN, PublicKey("other"))})
        \union Login(AuthRequestType.AUTH_SUPPLY) \union Login(AuthRequestType.AUTH_INFO)

=============================================================================
