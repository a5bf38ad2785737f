SPECIFICATION MessagesSpec
CONSTANTS
    c1 = c1
    c2 = c2
    c3 = c3
    p1 = p1
    record = record
    k1 = k1
    k2 = k2
    Calls = {c1, c2}
    To <- MCTo
    Kind <- MCKind
    Content <- MCContent
    RpcTimeout = 5
    Initial = 1
    Waits = {1, 2}
    MaxResends = 2
    MaxRestarts = 1
    None = None
    num_workers = 2
    WORKER_QUEUE_DEPTH = 1
    MAX_STORE_LOOKUPS = 2
    Requests = {s1, s2, s3, q1}
    Stores = {s1, s2, s3}
    Newcomers = {n1, n2, n3}
    Handlers = {h1, h2}
    MAX_WELCOME_QUEUE = 2
    WELCOME_CONCURRENCY = 1
    Meetings = 5
INVARIANTS PendingSound AnswersMatch PoolConserves WelcomeBounded
PROPERTIES CallsEnd PoolDrains WelcomesEnd
