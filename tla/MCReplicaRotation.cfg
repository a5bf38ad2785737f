SPECIFICATION Spec
CONSTANTS
    did = did
    status = status
    other = other
    v1 = v1
    v2 = v2
    v3 = v3
    s1 = s1
    s2 = s2
    stray = stray
    Absent = Absent
    Keys = {did, status}
    Values <- MCValues
    StatusKey = status
    DidOf <- MCDidOf
    SignedBy <- MCSignedBy
    KeyOf <- MCKeyOf
    IssuerKey = "issuer"
    Requests <- ChainRequests
    Copies <- Once
    Tasks = {t1, t2, t3}
    Workers = 2
    MaxStoreLookups = 2
CHECK_DEADLOCK FALSE
PROPERTIES UpdateReplacesVerified
