\* A JSON-RPC 2.0 peer's responses and notifications read as IncomingMessage.
CONSTANTS
    Ids <- MCIds
    Codes <- MCCodes
    Methods <- MCMethods
    PeerIds <- MCPeerIds
    ErrorData <- MCErrorData
SPECIFICATION Spec
INVARIANT PeerMessagesUnderstood
