\* A peer's Group node, or a Module with no lines, decoded, then used as a
\* child by Ast::new.
CONSTANTS
    u1 = u1
    NoId = NoId
    WireNull = WireNull
    Ids <- MCIds
    NameLens <- MCNameLens
    Offs = {0}
    NewKinds = {"Var", "Prefix"}
    PeerKinds = {"Group", "Module"}
    PeerSpans = {0, 2}
    ModuleLines = {0}
    ExtraKeys = {}
    RawEscapeKinds = {}
    EscapeKinds = {}
    MaxSegs = 0
    MaxTail = 0
    MaxBranches = 0
    MaxNodes = 3
SPECIFICATION Spec
INVARIANT NewPanicsOnlyOnOwnShape
