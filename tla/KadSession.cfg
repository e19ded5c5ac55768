SPECIFICATION FairSpec
CONSTANTS
    Threads = {t1, t2}
    Contacts = {c1, c2, c3}
    NodesDat = {c1}
    Timers = {m1, m2, m3}
    None = None
    MaxPool = 2
    MaxSeeds = 1
INVARIANTS
    TypeOK
    NothingForgotten
PROPERTY PoolDiscardedWhenIdle
