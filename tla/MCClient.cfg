SPECIFICATION ClientSpec
CONSTANTS
    N = 4
    ksize = 3
    alpha = 2
    Values = {v1, v2}
    Accepted = {v1}
    Kinds = {"nodes", "find", "first", "check", "quorum"}
    Group = {g1, g2, g3}
    Owners = {g0, g1}
    Made = 3
    MaxLate = 1
CHECK_DEADLOCK FALSE
INVARIANTS SilenceCounts NotFoundIsComplete ResultFollows KeysNotLost
PROPERTIES Terminates RotationConfirmed
