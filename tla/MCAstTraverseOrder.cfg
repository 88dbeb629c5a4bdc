\* One reader traversing the module: are children yielded in field order?
CONSTANTS
    r1 = r1
    r2 = r2
    Nodes <- MCNodes
    Children <- MCChildren
    Readers = {r1}
SPECIFICATION Spec
INVARIANT YieldsLeftToRightPreorder
CHECK_DEADLOCK FALSE
