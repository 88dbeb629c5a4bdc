\* visit_map given an object with a key outside the Ast schema.
CONSTANTS
    u1 = u1
    NoId = NoId
    WireNull = WireNull
    Ids <- MCIds
    NameLens <- MCNameLens
    Offs = {0}
    NewKinds = {"Var"}
    PeerKinds = {}
    PeerSpans <- MCPeerSpans
    ModuleLines = {1, 2}
    ExtraKeys = {"other"}
    RawEscapeKinds = {}
    EscapeKinds = {}
    MaxSegs = 0
    MaxTail = 0
    MaxBranches = 0
    MaxNodes = 1
SPECIFICATION Spec
INVARIANT UnknownKeySkipped
