SPECIFICATION BusySpec
CONSTANTS
    Threads = {t1, t2, t3}
    NoThread = NoThread
    Timeouts = TRUE
    MaxFaults = 2
INVARIANTS
    ConnectedIsAuthenticated
    SocketDiscipline
    OwnAnswer
    NoDenialWithoutFault
PROPERTIES
    SocketHeldDuringExchange
    RequestsEnd
    ServiceResumes
