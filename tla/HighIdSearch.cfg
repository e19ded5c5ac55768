SPECIFICATION Spec
CONSTANTS
    s1 = s1
    s2 = s2
    fixed = fixed
    free = free
    None = None
    Searches <- MCSearches
    Ports <- MCPorts
INVARIANTS
    NothingLeftBehind
    ReachableWhileHighId
PROPERTIES
    SearchesEnd
CHECK_DEADLOCK FALSE
