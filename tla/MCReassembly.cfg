SPECIFICATION Spec
CONSTANTS
    a = a
    b = b
    c = c
    d = d
    e = e
    f = f
    p1 = p1
    p2 = p2
    p3 = p3
    Messages = {a, b, c, d, e, f}
    Peers = {p1, p2, p3}
    From <- MCFrom
    Size <- MCSize
    FragChunkSize = 4
    MaxMessageSize = 10
    MaxEntries = 2
    MaxEntriesPerPeer = 1
    MaxRestarts <- MCRestarts
INVARIANTS MapSound Intact
