\* A file that is grabbed and listed, with and without its size.
SPECIFICATION Spec
CONSTANTS
    MIN_VIDEO_SIZE = 1000
    Requests <- MCRequests
    Files <- MCFiles
    Found <- MCFound
    Samples = {0, 300}
    Speeds = {0, 1}
INVARIANT AbsentSizeIsTolerated
CHECK_DEADLOCK FALSE
