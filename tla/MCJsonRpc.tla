------------------------------ MODULE MCJsonRpc ------------------------------
EXTENDS JsonRpcMessages

MCIds == {0, 1}
MCCodes == {-32601}
MCMethods == {"m"}
\* A number, a string and (for error responses) null.
MCPeerIds == {Int_(0), Str("a")}
\* Error data: None and an object value.
MCErrorData == {<<>>, <<Obj>>}
\* ... and Some(Value::Null).
MCErrorDataNull == {<<>>, <<Obj>>, <<Null>>}
=============================================================================
