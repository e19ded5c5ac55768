SPECIFICATION Spec
CONSTANTS
    KnownNames <- MCNames
    MAX_DECOMPRESSED_SIZE = 80
    Packets <- MCPackets
    MaxInFlight = 2
INVARIANT WireHoldsWholePackets
PROPERTY PacketsArriveIntact
CHECK_DEADLOCK FALSE
