CONSTANTS
    NULL = NULL
    NETCLIENT_QUEUE_SIZE = 2
    MaxConn = 2
    MaxPkt = 2
    Kind = {"connack", "other", "bad"}
    Pbuf <- MCPbuf
    PbufLen <- MCPbufLen
    ErrorTicks = 1
    ReportTicks = 1
SPECIFICATION Spec
INVARIANT SessionIsOfThisConnection
