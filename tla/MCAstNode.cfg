\* Ast::new, Serialize and visit_map over up to two nodes.
CONSTANTS
    u1 = u1
    NoId = NoId
    WireNull = WireNull
    Ids <- MCIds
    NameLens <- MCNameLens
    Offs <- MCOffs
    NewKinds <- MCNewKinds
    PeerKinds = {"Ambiguous"}
    PeerSpans <- MCPeerSpans
    ModuleLines = {1, 2}
    ExtraKeys = {}
    RawEscapeKinds = {}
    EscapeKinds = {}
    MaxSegs = 0
    MaxTail = 1
    MaxBranches = 2
    MaxNodes = 2
SPECIFICATION Spec
INVARIANTS TypeOK WireRoundTrip PeerNodesUnderstood
