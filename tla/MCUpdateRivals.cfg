SPECIFICATION Spec
CONSTANTS
    r1 = r1
    s1 = s1
    r2 = r2
    q2 = q2
    first = first
    rival = rival
    again = again
    rotate = rotate
    rotate_too = rotate_too
    list = list
    Absent = Absent
    Values = {r1, s1, r2, q2}
    Prev <- MCPrev
    N = 3
    ksize = 3
    alpha = 3
    Full = {}
    Ops = {first, rival, again, rotate, rotate_too, list}
    Op <- MCOp
    Start <- Rotations
CHECK_DEADLOCK FALSE
PROPERTIES ReplacedByAuthorised
