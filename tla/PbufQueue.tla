----------------------------- MODULE PbufQueue -----------------------------
(***************************************************************************)
(* The circular queue of received pbufs inside NetClient_Instance_t        *)
(* (mcu_test/net_client.h and the first three functions of net_client.c).  *)
(* lwIP's context puts pbufs in, the application context takes them out;   *)
(* each operation runs inside an lwIP critical section (SYS_ARCH_PROTECT), *)
(* so it is one atomic step whatever context it is called from.            *)
(***************************************************************************)
EXTENDS Integers, Sequences

CONSTANTS
    NETCLIENT_QUEUE_SIZE,  \* slots of the array (8 in net_client.h)
    Pbuf,                  \* the pbufs lwIP may deliver
    PbufLen,               \* pb->len of each pbuf
    NULL                   \* the null pointer

\* The largest uint16_t.
Uint16Max == 65535

\* idx and odx are uint8_t, so a larger array could not be indexed.
ASSUME QueueSizeAssumption == NETCLIENT_QUEUE_SIZE \in 1..256
ASSUME NullAssumption == NULL \notin Pbuf
\* lwIP delivers no empty pbuf; len is uint16_t.
ASSUME PbufLenAssumption == PbufLen \in [Pbuf -> 1..Uint16Max]

VARIABLES
    idx,    \* last location written
    odx,    \* last location read
    queue   \* the slots

queueVars == <<idx, odx, queue>>

Slot == 0..(NETCLIENT_QUEUE_SIZE - 1)

\* The assignment to a uint8_t field keeps the low 8 bits.
Uint8(n) == n % 256

\* ndx, the location after i.  (Bug: one location too many.)
NextSlotTooFar(i) == (i + 1) % (NETCLIENT_QUEUE_SIZE + 1)
NextSlot(i) == (i + 1) % NETCLIENT_QUEUE_SIZE

IsEmpty == idx = odx

\* The reader has not been caught up with.  (Bug: no test.)
HasRoomUntested == TRUE
HasRoom == NextSlot(idx) # odx

\* net_Init clears the indices; the slots are static memory, zero at reset.
QueueInit == idx = 0 /\ odx = 0 /\ queue = [i \in Slot |-> NULL]

\* What the slots between odx (exclusive) and idx (inclusive) hold, oldest
\* first.  A state function of the proofs and properties, not code.
Size == (idx - odx) % NETCLIENT_QUEUE_SIZE
Contents == [i \in 1..Size |-> queue[(odx + i) % NETCLIENT_QUEUE_SIZE]]

\* The ring is well formed: indices inside the array, pbufs between them.
QueueOK ==
    /\ idx \in Slot
    /\ odx \in Slot
    /\ queue \in [Slot -> Pbuf \cup {NULL}]
    /\ \A i \in 1..Size : queue[(odx + i) % NETCLIENT_QUEUE_SIZE] \in Pbuf

-----------------------------------------------------------------------------
\* net_EnqueuePbuf: the caller learns HasRoom as the return value.
net_EnqueuePbuf(pb) ==
    IF HasRoom
    THEN /\ queue' = [queue EXCEPT ![NextSlot(idx)] = pb]
         /\ idx' = Uint8(NextSlot(idx))
         /\ odx' = odx
    ELSE UNCHANGED queueVars

\* The pbuf net_DequeuePbuf returns, NULL if the queue is empty.
NextPbuf == IF IsEmpty THEN NULL ELSE queue[NextSlot(odx)]

\* net_DequeuePbuf: the caller learns NextPbuf as the return value.
net_DequeuePbuf ==
    /\ odx' = IF IsEmpty THEN odx ELSE Uint8(NextSlot(odx))
    /\ UNCHANGED <<idx, queue>>

\* (Bug: the length of the pbuf that came last.)
GetLastLen == IF IsEmpty THEN 0 ELSE PbufLen[queue[idx]]

\* net_GetReadLen: the length of the next pbuf, 0 if there is none.
net_GetReadLen == IF IsEmpty THEN 0 ELSE PbufLen[queue[NextSlot(odx)]]
=============================================================================
