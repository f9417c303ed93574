------------------------------ MODULE NetQueue ------------------------------
(***************************************************************************)
(* The pbuf queue as a component of its own: lwIP's context enqueues any   *)
(* pbuf at any time, the application dequeues or asks for the next length  *)
(* at any time.  The three result variables hold what the last call of     *)
(* each function returned.                                                 *)
(***************************************************************************)
EXTENDS PbufQueue

VARIABLES
    enqueued,   \* what net_EnqueuePbuf returned
    dequeued,   \* what net_DequeuePbuf returned
    readLen     \* what net_GetReadLen returned

vars == <<idx, odx, queue, enqueued, dequeued, readLen>>

Init == QueueInit /\ enqueued = FALSE /\ dequeued = NULL /\ readLen = 0

Enqueue(pb) ==
    /\ net_EnqueuePbuf(pb)
    /\ enqueued' = HasRoom
    /\ UNCHANGED <<dequeued, readLen>>

Dequeue ==
    /\ net_DequeuePbuf
    /\ dequeued' = NextPbuf
    /\ UNCHANGED <<enqueued, readLen>>

GetReadLen ==
    /\ readLen' = net_GetReadLen
    /\ UNCHANGED <<idx, odx, queue, enqueued, dequeued>>

Next == (\E pb \in Pbuf : Enqueue(pb)) \/ Dequeue \/ GetReadLen

Spec == Init /\ [][Next]_vars

-----------------------------------------------------------------------------
\* The indices stay inside the array and every slot between them holds a
\* pbuf, so neither net_DequeuePbuf nor net_GetReadLen ever follows a NULL or
\* an out-of-range slot of the ring.
TypeOK ==
    /\ QueueOK
    /\ enqueued \in BOOLEAN
    /\ dequeued \in Pbuf \cup {NULL}
    /\ readLen \in 0..Uint16Max

\* The ring with its two indices is a FIFO of one slot less than the array
\* has: net_EnqueuePbuf, net_DequeuePbuf and net_GetReadLen lose, duplicate
\* and reorder nothing, also when the indices wrap and when the ring is full.
Fifo == INSTANCE BoundedFifo WITH
            Capacity <- NETCLIENT_QUEUE_SIZE - 1, Item <- Pbuf,
            ItemLen <- PbufLen, items <- Contents, accepted <- enqueued,
            taken <- dequeued, announced <- readLen

ImplementsFifo == Fifo!FifoSpec
=============================================================================
