\* Every sequence of list.c calls on three elements within the callers' contract
CONSTANTS
    e1 = e1
    e2 = e2
    e3 = e3
    NULL = NULL
    Elems <- MCElems
    Key <- MCKey
SPECIFICATION Spec
INVARIANTS TypeOK WellLinked
PROPERTIES ImplementsSeq
