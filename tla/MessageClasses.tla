--------------------------- MODULE MessageClasses ---------------------------
(***************************************************************************)
(* The generated protobuf classes that carry the session and user messages. *)
(*                                                                         *)
(* The generator wrote, for every class, separate functions for copying,    *)
(* clearing, parsing, serialising, sizing and merging, and each of them      *)
(* names members, field numbers and has-bits again.  So each is a table of   *)
(* its own here, read from its own lines; Messages has the operators that    *)
(* interpret them, and MessageObjects checks that they agree.                *)
(***************************************************************************)
EXTENDS Integers

None == -1                    \* no has-bit: present when it is not the default
F(num, f, type, bit) == [num |-> num, f |-> f, type |-> type, bit |-> bit]

-----------------------------------------------------------------------------
(* The enumerations. *)

KexAlg == [KEX_UNKNOWN |-> 0, KEX_ECDH |-> 1]
RequestType == [UNKNOWN |-> 0, REQUEST_KEX |-> 1, REQUEST_AUTH |-> 2]
ConnectedStatus == [UNKNOWN |-> 0, OK |-> 1, INVALID_REQUEST |-> 2, REQUEST_ERROR |-> 3,
                    DECODE_ERROR |-> 4, AUTH_REQUIRED |-> 5]
AuthRequestType == [UNKNOWN |-> 0, AUTH_SUPPLY |-> 1, AUTH_INFO |-> 2]
AuthStatus == [UNKNOWN |-> 0, AUTH_ACCEPT |-> 1, AUTH_REJECT |-> 2, AUTH_CONTINUE |-> 3,
               INVALID_REQUEST |-> 4, DECODE_ERROR |-> 5]

-----------------------------------------------------------------------------
(* The tables of each class.                                                *)
(*   the class     its members (struct Impl_)                                *)
(*   _accessors    the has-bit that the accessors of a member use            *)
(*   _copied       the has-bit under which the copy constructor copies       *)
(*   _Clear        the has-bit under which Clear resets                      *)
(*   _table        the parse table: number, type, has-bit                    *)
(*   _Serialize    what is written, in order, under which has-bit            *)
(*   _ByteSize     what is counted, under which has-bit                      *)
(*   _Merge        what is merged, under which has-bit of the source         *)
(*   _Swap         what InternalSwap exchanges besides the has-bits          *)

KexMsg == [alg |-> "int", pkey |-> "bytes"]
KexMsg_accessors == [alg |-> None, pkey |-> None]
KexMsg_copied == [alg |-> None, pkey |-> None]
KexMsg_Clear == [alg |-> None, pkey |-> None]
KexMsg_table == {F(1, "alg", "int", None), F(2, "pkey", "bytes", None)}
\* Mutant: the key is written under the number of another field.
KexMsg_SerializeOther == <<F(1, "alg", "int", None), F(3, "pkey", "bytes", None)>>
KexMsg_Serialize == <<F(1, "alg", "int", None), F(2, "pkey", "bytes", None)>>
KexMsg_ByteSize == {F(1, "pkey", "bytes", None), F(1, "alg", "int", None)}
KexMsg_Merge == [pkey |-> None, alg |-> None]
KexMsg_Swap == {"pkey", "alg"}

ClientConnectedStateRequest == [type |-> "int", kex |-> "message"]
ClientConnectedStateRequest_accessors == [type |-> None, kex |-> 0]
ClientConnectedStateRequest_copied == [kex |-> 0, type |-> None]
ClientConnectedStateRequest_Clear == [kex |-> 0, type |-> None]
ClientConnectedStateRequest_table ==
    {F(1, "type", "int", None), F(2, "kex", "message", 0)}
ClientConnectedStateRequest_Serialize ==
    <<F(1, "type", "int", None), F(2, "kex", "message", 0)>>
ClientConnectedStateRequest_ByteSize ==
    {F(1, "kex", "message", 0), F(1, "type", "int", None)}
ClientConnectedStateRequest_Merge == [kex |-> 0, type |-> None]
ClientConnectedStateRequest_Swap == {"kex", "type"}

ServerConnectedStateResponse == [status |-> "int", kex |-> "message", iv |-> "bytes"]
ServerConnectedStateResponse_accessors == [status |-> None, kex |-> 1, iv |-> 0]
ServerConnectedStateResponse_copied == [iv |-> None, kex |-> 1, status |-> None]
\* Mutant: the has-bits of the two members are swapped.
ServerConnectedStateResponse_ClearSwapped == [iv |-> 1, kex |-> 0, status |-> None]
ServerConnectedStateResponse_Clear == [iv |-> 0, kex |-> 1, status |-> None]
ServerConnectedStateResponse_table ==
    {F(1, "status", "int", None), F(2, "kex", "message", 1), F(3, "iv", "bytes", 0)}
ServerConnectedStateResponse_Serialize ==
    <<F(1, "status", "int", None), F(2, "kex", "message", 1), F(3, "iv", "bytes", 0)>>
\* Mutant: one byte string is not counted.
ServerConnectedStateResponse_ByteSizeShort ==
    {F(1, "kex", "message", 1), F(1, "status", "int", None)}
ServerConnectedStateResponse_ByteSize ==
    {F(1, "iv", "bytes", 0), F(1, "kex", "message", 1), F(1, "status", "int", None)}
ServerConnectedStateResponse_Merge == [iv |-> 0, kex |-> 1, status |-> None]
ServerConnectedStateResponse_Swap == {"iv", "kex", "status"}

ClientAuthRequest == [request |-> "int", username |-> "string", authCredential |-> "bytes"]
ClientAuthRequest_accessors == [request |-> None, username |-> 0, authCredential |-> 1]
ClientAuthRequest_copied == [username |-> None, authCredential |-> None, request |-> None]
ClientAuthRequest_Clear == [username |-> 0, authCredential |-> 1, request |-> None]
ClientAuthRequest_table ==
    {F(1, "request", "int", None), F(2, "username", "string", 0),
     F(3, "authCredential", "bytes", 1)}
ClientAuthRequest_Serialize ==
    <<F(1, "request", "int", None), F(2, "username", "string", 0),
      F(3, "authCredential", "bytes", 1)>>
ClientAuthRequest_ByteSize ==
    {F(1, "username", "string", 0), F(1, "authCredential", "bytes", 1),
     F(1, "request", "int", None)}
ClientAuthRequest_Merge == [username |-> 0, authCredential |-> 1, request |-> None]
ClientAuthRequest_Swap == {"username", "authCredential", "request"}

ServerAuthResponse == [status |-> "int", serverInfo |-> "string"]
ServerAuthResponse_accessors == [status |-> None, serverInfo |-> 0]
ServerAuthResponse_copied == [serverInfo |-> None, status |-> None]
ServerAuthResponse_Clear == [serverInfo |-> 0, status |-> None]
ServerAuthResponse_table == {F(1, "status", "int", None), F(2, "serverInfo", "string", 0)}
ServerAuthResponse_Serialize ==
    <<F(1, "status", "int", None), F(2, "serverInfo", "string", 0)>>
ServerAuthResponse_ByteSize ==
    {F(1, "serverInfo", "string", 0), F(1, "status", "int", None)}
ServerAuthResponse_Merge == [serverInfo |-> 0, status |-> None]
ServerAuthResponse_Swap == {"serverInfo", "status"}

UserRequest == [msg |-> "string"]
UserRequest_accessors == [msg |-> None]
UserRequest_copied == [msg |-> None]
UserRequest_Clear == [msg |-> None]
UserRequest_table == {F(1, "msg", "string", None)}
UserRequest_Serialize == <<F(1, "msg", "string", None)>>
UserRequest_ByteSize == {F(1, "msg", "string", None)}
UserRequest_Merge == [msg |-> None]
UserRequest_Swap == {"msg"}

ServerResponse == [msg |-> "string"]
ServerResponse_accessors == [msg |-> None]
ServerResponse_copied == [msg |-> None]
ServerResponse_Clear == [msg |-> None]
ServerResponse_table == {F(1, "msg", "string", None)}
ServerResponse_Serialize == <<F(1, "msg", "string", None)>>
ServerResponse_ByteSize == {F(1, "msg", "string", None)}
ServerResponse_Merge == [msg |-> None]
ServerResponse_Swap == {"msg"}

\* proto2: both members have has-bits, id is required, str is not checked for UTF-8.
Test == [id |-> "int", str |-> "bytes"]
Test_accessors == [id |-> 1, str |-> 0]
Test_copied == [str |-> None, id |-> None]
Test_Clear == [str |-> 0, id |-> None]
Test_table == {F(1, "id", "int", 1), F(2, "str", "bytes", 0)}
Test_Serialize == <<F(1, "id", "int", 1), F(2, "str", "bytes", 0)>>
Test_ByteSize == {F(1, "str", "bytes", 0), F(1, "id", "int", 1)}
Test_Merge == [str |-> 0, id |-> 1]
Test_Swap == {"str", "id"}
MissingRequiredFields(C, bits) == C = "Test" /\ 1 \notin bits

-----------------------------------------------------------------------------
(* The classes. *)

Of(members, accessors, copied, clear, table, serialize, bytesize, merge, swap) ==
    [members |-> members, accessors |-> accessors, copied |-> copied, clear |-> clear,
     table |-> table, serialize |-> serialize, bytesize |-> bytesize, merge |-> merge,
     swap |-> swap]

KexMsg_class ==
    Of(KexMsg, KexMsg_accessors, KexMsg_copied, KexMsg_Clear, KexMsg_table,
       KexMsg_Serialize, KexMsg_ByteSize, KexMsg_Merge, KexMsg_Swap)

ClientConnectedStateRequest_class ==
    Of(ClientConnectedStateRequest, ClientConnectedStateRequest_accessors,
       ClientConnectedStateRequest_copied, ClientConnectedStateRequest_Clear,
       ClientConnectedStateRequest_table, ClientConnectedStateRequest_Serialize,
       ClientConnectedStateRequest_ByteSize, ClientConnectedStateRequest_Merge,
       ClientConnectedStateRequest_Swap)

ServerConnectedStateResponse_class ==
    Of(ServerConnectedStateResponse, ServerConnectedStateResponse_accessors,
       ServerConnectedStateResponse_copied, ServerConnectedStateResponse_Clear,
       ServerConnectedStateResponse_table, ServerConnectedStateResponse_Serialize,
       ServerConnectedStateResponse_ByteSize, ServerConnectedStateResponse_Merge,
       ServerConnectedStateResponse_Swap)

ClientAuthRequest_class ==
    Of(ClientAuthRequest, ClientAuthRequest_accessors, ClientAuthRequest_copied,
       ClientAuthRequest_Clear, ClientAuthRequest_table, ClientAuthRequest_Serialize,
       ClientAuthRequest_ByteSize, ClientAuthRequest_Merge, ClientAuthRequest_Swap)

ServerAuthResponse_class ==
    Of(ServerAuthResponse, ServerAuthResponse_accessors, ServerAuthResponse_copied,
       ServerAuthResponse_Clear, ServerAuthResponse_table,
       ServerAuthResponse_Serialize, ServerAuthResponse_ByteSize,
       ServerAuthResponse_Merge, ServerAuthResponse_Swap)

UserRequest_class ==
    Of(UserRequest, UserRequest_accessors, UserRequest_copied, UserRequest_Clear,
       UserRequest_table, UserRequest_Serialize, UserRequest_ByteSize,
       UserRequest_Merge, UserRequest_Swap)

ServerResponse_class ==
    Of(ServerResponse, ServerResponse_accessors, ServerResponse_copied,
       ServerResponse_Clear, ServerResponse_table, ServerResponse_Serialize,
       ServerResponse_ByteSize, ServerResponse_Merge, ServerResponse_Swap)

Test_class ==
    Of(Test, Test_accessors, Test_copied, Test_Clear, Test_table, Test_Serialize,
       Test_ByteSize, Test_Merge, Test_Swap)

Class ==
    [KexMsg |-> KexMsg_class,
     ClientConnectedStateRequest |-> ClientConnectedStateRequest_class,
     ServerConnectedStateResponse |-> ServerConnectedStateResponse_class,
     ClientAuthRequest |-> ClientAuthRequest_class,
     ServerAuthResponse |-> ServerAuthResponse_class,
     UserRequest |-> UserRequest_class,
     ServerResponse |-> ServerResponse_class,
     Test |-> Test_class]

ClassNames == DOMAIN Class
=============================================================================
