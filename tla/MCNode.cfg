SPECIFICATION NodeSpec
CONSTANTS
    did = did
    status = status
    other = other
    v1 = v1
    v2 = v2
    v3 = v3
    s1 = s1
    s2 = s2
    stray = stray
    Absent = Absent
    Keys = {did, status}
    Values <- MCValues
    StatusKey = status
    DidOf <- MCDidOf
    SignedBy <- MCSignedBy
    KeyOf <- MCKeyOf
    IssuerKey = "issuer"
    Requests <- MixedRequests
    Copies <- MCCopies
    Tasks = {t1, t2}
    Workers = 2
    MaxStoreLookups = 1
    a1 = a1
    a2 = a2
    a3 = a3
    Callers = {a1, a2, a3}
    Commands <- MCCommands
    Ports = {p1, p2}
    Listens = 2
    Bits = 2
    own_id = 0
    Contacts = {2, 3}
    ksize = 1
    ReplacementFactor = 1
    SplitModulus = 2
    StaleAfterFailures = 2
    MinLookupContacts = 1
    None = None
    Addresses = {x, y}
    seeds = {x}
    alpha = 1
    Changes = 3
    MaxBusy = 1
CHECK_DEADLOCK FALSE
INVARIANTS PlacesKept OnlyAuthentic CopiesSuppressed TasksOwned
PROPERTIES StoredAfterCheck EventuallyHandled CommandsEnd Rejoins
