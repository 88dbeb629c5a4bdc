\* Responses and notifications from this code and from a JSON-RPC 2.0 peer.
CONSTANTS
    Ids <- MCIds
    Codes <- MCCodes
    Methods <- MCMethods
    PeerIds <- MCPeerIds
    ErrorData <- MCErrorData
SPECIFICATION Spec
INVARIANTS TypeOK OwnMessagesRoundTrip
