CONSTANTS
    NULL = NULL
    NETCLIENT_QUEUE_SIZE = 2
    MaxConn = 2
    MaxPkt = 1
    Kind = {"connack", "other", "bad"}
    Pbuf <- MCPbuf
    PbufLen <- MCPbufLen
    ErrorTicks = 1
    ReportTicks = 1
SPECIFICATION FairSpec
PROPERTIES EveryLossIsRecoveredFrom WaitForNetEnds
