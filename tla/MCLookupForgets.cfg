SPECIFICATION Spec
CONSTANTS
    N = 4
    ksize = 2
    alpha = 1
    Values = {v1, v2}
    Accepted = {v1}
    Kinds = {"nodes"}
CHECK_DEADLOCK FALSE
INVARIANTS KClosestAnswered
