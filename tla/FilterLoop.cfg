SPECIFICATION Spec
CONSTANT Lists <- MCLists
INVARIANT KeptExact
CHECK_DEADLOCK FALSE
