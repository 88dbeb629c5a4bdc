\* Ast::new over text shapes and builders, and their wire round trip.
CONSTANTS
    u1 = u1
    NoId = NoId
    WireNull = WireNull
    Ids = {}
    NameLens <- MCNameLens
    Offs <- MCTextOffs
    NewKinds <- MCTextKinds
    PeerKinds = {}
    PeerSpans <- MCPeerSpans
    ModuleLines = {1, 2}
    ExtraKeys = {}
    RawEscapeKinds <- MCRawEscapeKinds
    EscapeKinds <- MCEscapeKinds
    MaxSegs = 2
    MaxTail = 0
    MaxBranches = 0
    MaxNodes = 2
SPECIFICATION Spec
INVARIANT SpanIsSourceLength
