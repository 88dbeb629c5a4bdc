\* Ast::new over a Mod identifier: its span against its name.
CONSTANTS
    u1 = u1
    NoId = NoId
    WireNull = WireNull
    Ids = {}
    NameLens <- MCNameLens
    Offs <- MCTextOffs
    NewKinds = {"Mod"}
    PeerKinds = {}
    PeerSpans <- MCPeerSpans
    ModuleLines = {1, 2}
    ExtraKeys = {}
    RawEscapeKinds <- MCRawEscapeKinds
    EscapeKinds <- MCEscapeKinds
    MaxSegs = 2
    MaxTail = 0
    MaxBranches = 0
    MaxNodes = 1
SPECIFICATION Spec
INVARIANT SpanIsSourceLength
