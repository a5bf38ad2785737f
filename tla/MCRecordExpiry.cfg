SPECIFICATION RecordLifeSpec
CONSTANTS
    N = 3
    ksize = 2
    min_lookup_contacts = 2
    REFRESH = 1
    TTL = 4
    Faults = 1
    Hitches = 0
    Watch = 5
INVARIANTS ExpiresAfterTTL
