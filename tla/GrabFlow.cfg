\* Full paths: counts of one, two, three and four bytes, sizes on both sides of the
\* largest time left.
SPECIFICATION Spec
CONSTANTS
    MIN_VIDEO_SIZE = 1000
    Requests <- MCRequests
    Files <- MCFiles
    Found <- MCFound
    Samples = {0, 200, 300, 70000, 536870911}
    Speeds = {0, 1, 70000}
INVARIANTS
    PagesTile
    GrabbedIsListed
    RepliesAreUnderstood
    FiguresAgree
CHECK_DEADLOCK FALSE
