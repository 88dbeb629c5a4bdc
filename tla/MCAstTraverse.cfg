\* Two readers traversing a module whose subtrees are shared.
CONSTANTS
    r1 = r1
    r2 = r2
    Nodes <- MCNodes
    Children <- MCChildren
    Readers <- MCReaders
SPECIFICATION Spec
INVARIANTS TypeOK YieldsRightToLeftPreorder
PROPERTY Terminates
\* A traversal ends when its stack is empty.
CHECK_DEADLOCK FALSE
