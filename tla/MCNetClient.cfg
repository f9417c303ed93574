CONSTANTS
    NULL = NULL
    NETCLIENT_QUEUE_SIZE = 3
    MaxConn = 2
    MaxPkt = 3
    Kind = {"short", "long"}
    Pbuf <- MCPbuf
    PbufLen <- MCPbufLen
SPECIFICATION NetSpec
INVARIANTS
    NetTypeOK AcceptedPbufsAccountedFor PacketsInOrder PacketsAreWhole
    HandleIsLive StrayConnectionsAreMute FaultsOnlyWhileDetaching
PROPERTY PbufsLeakOnlyWhileDetaching
