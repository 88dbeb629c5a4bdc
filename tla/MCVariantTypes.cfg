\* The expansion of lib.rs's declarations and a caller converting one value.
CONSTANTS
    Decls <- MCDecls
    TypeParams <- MCTypeParams
SPECIFICATION Spec
INVARIANTS TypeOK ExpansionCompiles NarrowingLaw
