\* Error responses of this code whose data is Some(Value::Null).
CONSTANTS
    Ids <- MCIds
    Codes <- MCCodes
    Methods <- MCMethods
    PeerIds <- MCPeerIds
    ErrorData <- MCErrorDataNull
SPECIFICATION Spec
INVARIANT OwnMessagesRoundTrip
