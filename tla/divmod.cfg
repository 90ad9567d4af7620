\* Every call with words of six bits.
SPECIFICATION Spec
CONSTANT M = 64
INVARIANTS NothingLost Exact
PROPERTIES Terminates
CHECK_DEADLOCK FALSE
