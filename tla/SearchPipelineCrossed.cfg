SPECIFICATION Spec
CONSTANTS
    Threads = {t1, t2}
    Engines = {"amule"}
    Endpoints = {"amule"}
    Queries = {q1, q2}
    TTL = 1
    None = None
INVARIANT CacheHoldsOwnResults
