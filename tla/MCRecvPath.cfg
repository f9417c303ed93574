CONSTANTS
    NETCLIENT_QUEUE_SIZE = 3
    TCP_WND = 8
    FirstLen = 2
    RestLen = 3
    PBUF_POOL_SIZE = 8
    SegmentLen = {1, 3, 6}
    NULL = NULL
SPECIFICATION FairSpec
INVARIANTS WindowAccountedFor PoolSuffices
PROPERTY RefusedIsTaken
