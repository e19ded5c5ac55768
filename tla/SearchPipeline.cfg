SPECIFICATION Spec
CONSTANTS
    Threads = {t1}
    Engines = {"amule", "ed2k"}
    Endpoints = {"amule", "all"}
    Queries = {q1, q2}
    TTL = 1
    None = None
SYMMETRY Symmetry
INVARIANTS
    OwnUnlessCrossed
PROPERTIES
    AllAnswersWithEveryEngine
