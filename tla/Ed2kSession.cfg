SPECIFICATION FairSpec
CONSTANTS
    Threads = {t1, t2}
    Queries = {q1, q2}
    Timers = {m1, m2, m3}
    None = None
    Failures = {"refuse", "drop", "timeout", "malformed"}
    MaxInFlight = 2
INVARIANTS
    SessionDiscipline
    LoginsPerSearch
PROPERTIES
    OwnResults
    KeepsPromise
    IdleConnectionCloses
    SearchesEnd
