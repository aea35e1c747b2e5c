SPECIFICATION FairSpec
CONSTANTS
    a = a
    b = b
    Devices = {a, b}
    Requests <- MCRequests
    Dials <- MCDials
INVARIANTS
    TransportInv
PROPERTIES
    ImplementsRequestReply
    CallsEnd
CHECK_DEADLOCK FALSE
