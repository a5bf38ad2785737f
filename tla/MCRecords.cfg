SPECIFICATION RecordsSpec
CONSTANTS
    Keys = {k1, k2}
    short = short
    long = long
    Values = {short, long}
    ValueLen <- MCValueLen
    KeyLen = 1
    Threads = {t1, t2}
    MaxStorageBytes = 6
    Ttl = 1
    MaxTime = 2
    Vacant = Vacant
    i1 = i1
    i2 = i2
    d1 = d1
    key1 = key1
    key2 = key2
    ks = ks
    c1 = c1
    c2 = c2
    Pairs = {i1, i2, d1}
    Scheme <- MCScheme
    Managers = {"Dilithium-2"}
    DhtKey <- MCDhtKey
    ListKey = ks
    Asks <- MCAsks
    Checkers = {c1, c2}
    CacheLife = 1
    VerifyTime = 1
    N = 3
    ksize = 2
    min_lookup_contacts = 2
    REFRESH = 1
    TTL = 4
    Faults = 1
    Hitches = 1
    Watch = 0
SYMMETRY Symmetry
INVARIANTS Accounting ChecksSound CopiesPlaced
PROPERTIES RecordsKept IsAtomic RecordSurvives
