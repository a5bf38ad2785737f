SPECIFICATION Spec
CONSTANTS
    r1 = r1
    s1 = s1
    r2 = r2
    q2 = q2
    first = first
    rival = rival
    again = again
    rotate = rotate
    rotate_too = rotate_too
    list = list
    Absent = Absent
    Values = {r1, s1, r2, q2}
    Prev <- MCPrev
    N = 4
    ksize = 3
    alpha = 3
    Full = {1, 2}
    Ops = {first, rival, again, rotate, rotate_too, list}
    Op <- MCOp
    Start <- MCStart
CHECK_DEADLOCK FALSE
INVARIANTS UpdatesHold ReportIsTrue
PROPERTIES ReplacedByAuthorised OperationsEnd
