CONSTANTS
    p1 = p1
    p2 = p2
    p3 = p3
    NULL = NULL
    NETCLIENT_QUEUE_SIZE = 4
    Pbuf = {p1, p2, p3}
    PbufLen <- MCPbufLen
SPECIFICATION Spec
INVARIANT TypeOK
PROPERTY ImplementsFifo
