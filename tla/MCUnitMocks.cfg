CONSTANTS
    b1 = b1
    b2 = b2
    b3 = b3
    PktBuf = {b1, b2, b3}
    PacketId = {0, 11, 22, 33}
    Type = {1, 2, 3, 8, 10}
    PktLen = 2
    Bodies <- TestBodies
    InstanceBodies <- InstanceTests
    NULL = NULL
    Freed = Freed
    Wild = Wild
SPECIFICATION Spec
INVARIANTS TypeOK PacketsHaveOneOwner OnlyLiveMemory CallsAreOfThisTest
