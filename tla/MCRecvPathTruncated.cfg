CONSTANTS
    NETCLIENT_QUEUE_SIZE = 4
    TCP_WND = 8
    FirstLen = 2
    RestLen = 3
    PBUF_POOL_SIZE = 9
    SegmentLen = {1, 3, 6}
    NULL = NULL
SPECIFICATION Spec
INVARIANT PacketIsStored
