SPECIFICATION FairSpec
CONSTANTS
    Threads = {t1, t2}
    Engines = {"amule"}
    Endpoints = {"amule"}
    Queries = {q1}
    TTL = 1
    None = None
INVARIANT
    OwnUnlessCrossed
PROPERTIES
    RequestsEnd
    OldResultsExpire
