SPECIFICATION PeersSpec
CONSTANTS
    Bits = 4
    node = 0
    Contacts = {0, 8, 9, 10, 11, 12}
    ksize = 2
    ReplacementFactor = 1
    SplitModulus = 2
    StaleAfterFailures = 2
    MinLookupContacts = 2
    None = None
    Peers = {p1, p2}
    Recorders = {r1, r2}
    Samples = {24, 28}
    capacity = 1
    FORGET_AFTER = 1
    INITIAL_RESEND_AFTER = 12
    MIN_RESEND_AFTER = 10
    MAX_RESEND_AFTER = 80
    Shortest = 24
    Longest = 28
    alpha = 2
    Nodes = {1, 6, 11, 12}
    Keys = {3, 14}
    Losses = 1
    NUM_NODES = 4
    NUM_RECORDS = 2
    Seed = 6
    Publishes <- MCPublishes
    Retrievers = {12}
    RetrieveKey = 3
    BootRetries = 2
    Attempts = 2
INVARIANTS TableSound NeighborsAreClosest TripsBounded WaitsCoverRoundTrips AnalysisSound ProgramsSound
PROPERTIES ContactsKept
CHECK_DEADLOCK FALSE
