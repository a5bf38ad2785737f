SPECIFICATION Spec
CONSTANTS
    a = a
    b = b
    c = c
    d = d
    e = e
    f = f
    p1 = p1
    p2 = p2
    p3 = p3
    Messages = {a}
    Peers = {p1}
    From <- LargestFrom
    Size <- LargestSize
    FragChunkSize = 1400
    MaxMessageSize = 262144
    MaxEntries = 64
    MaxEntriesPerPeer = 8
    MaxRestarts <- NoRestarts
INVARIANTS LegalSizeReceived
