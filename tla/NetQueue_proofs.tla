--------------------------- MODULE NetQueue_proofs ---------------------------
(***************************************************************************)
(* The receive queue is a bounded FIFO for every array size and every set  *)
(* of pbufs.                                                               *)
(***************************************************************************)
EXTENDS NetQueue, PbufQueue_proofs

\* Every step keeps the indices in the array and the pbufs between them.
LEMMA TypeOKStep ==
    ASSUME TypeOK, [Next]_vars
    PROVE  TypeOK'
<1>1. QueueOK
  BY DEF TypeOK
<1>2. ASSUME NEW pb \in Pbuf, Enqueue(pb) PROVE TypeOK'
  <2>1. QueueOK'
    BY <1>1, <1>2, EnqueueAppends DEF Enqueue
  <2>2. enqueued' \in BOOLEAN
    BY <1>2 DEF Enqueue, HasRoom
  <2> QED
    BY <1>2, <2>1, <2>2 DEF Enqueue, TypeOK
<1>3. CASE Dequeue
  <2>1. QueueOK'
    BY <1>1, <1>3, DequeueLeavesTail DEF Dequeue
  <2>2. dequeued' \in Pbuf \cup {NULL}
    BY <1>1, <1>3, NextPbufIsHead, ContentsType DEF Dequeue
  <2> QED
    BY <1>3, <2>1, <2>2 DEF Dequeue, TypeOK
<1>4. CASE GetReadLen
  <2>1. QueueOK'
    BY <1>1, <1>4 DEF GetReadLen, QueueOK, Size
  <2>2. readLen' \in 0..Uint16Max
    <3>1. Uint16Max \in Nat
      BY DEF Uint16Max
    <3>2. readLen' = IF Contents = <<>> THEN 0 ELSE PbufLen[Head(Contents)]
      BY <1>1, <1>4, NextPbufIsHead DEF GetReadLen
    <3>3. Contents # <<>> => Head(Contents) \in Pbuf
      BY <1>1, ContentsType
    <3> QED
      BY <3>1, <3>2, <3>3, PbufLenAssumption
  <2> QED
    BY <1>4, <2>1, <2>2 DEF GetReadLen, TypeOK
<1>5. CASE UNCHANGED vars
  BY <1>5 DEF vars, TypeOK, QueueOK, Size
<1> QED
  BY <1>2, <1>3, <1>4, <1>5 DEF Next

\* The ring starts empty and well formed.
LEMMA TypeOKInit == Init => TypeOK
<1> SUFFICES ASSUME Init PROVE TypeOK
  OBVIOUS
<1>1. idx \in Slot /\ odx \in Slot /\ idx = odx
  BY QueueSizeAssumption DEF Init, QueueInit, Slot
<1>2. Size = 0
  BY <1>1, DistanceCases DEF Size, Slot
<1>3. queue \in [Slot -> Pbuf \cup {NULL}]
  BY DEF Init, QueueInit
<1>4. QueueOK
  BY <1>1, <1>2, <1>3 DEF QueueOK
<1>5. 0 \in 0..Uint16Max
  BY DEF Uint16Max
<1> QED
  BY <1>4, <1>5 DEF Init, TypeOK

\* net_EnqueuePbuf, net_DequeuePbuf and net_GetReadLen keep idx and odx inside
\* the array and never meet a slot between them that holds no pbuf, whatever
\* NETCLIENT_QUEUE_SIZE is.
THEOREM QueueWellFormed == Spec => []TypeOK
<1>1. Init => TypeOK
  BY TypeOKInit
<1>2. TypeOK /\ [Next]_vars => TypeOK'
  BY TypeOKStep
<1> QED
  BY <1>1, <1>2, PTL DEF Spec

\* Each operation on the ring is the FIFO operation of the same name on the
\* contents.
LEMMA FifoStep ==
    ASSUME TypeOK, [Next]_vars
    PROVE  [Fifo!FifoNext]_(Fifo!fifoVars)
<1>1. QueueOK
  BY DEF TypeOK
<1>2. /\ Contents \in Seq(Pbuf)
      /\ HasRoom <=> Len(Contents) < NETCLIENT_QUEUE_SIZE - 1
  BY <1>1, ContentsType, HasRoomIsSize
<1>3. ASSUME NEW pb \in Pbuf, Enqueue(pb) PROVE Fifo!Put(pb)
  <2>1. Contents' = IF HasRoom THEN Append(Contents, pb) ELSE Contents
    BY <1>1, <1>3, EnqueueAppends DEF Enqueue
  <2>2. CASE HasRoom
    BY <1>2, <1>3, <2>1, <2>2 DEF Enqueue, Fifo!Put
  <2>3. CASE ~HasRoom
    <3>1. enqueued' = FALSE
      BY <1>3, <2>3 DEF Enqueue, HasRoom
    <3>2. (Len(Contents) < NETCLIENT_QUEUE_SIZE - 1) = FALSE
      BY <1>2, <2>3
    <3>3. Contents' = Contents
      BY <2>1, <2>3
    <3> QED
      BY <1>3, <3>1, <3>2, <3>3 DEF Enqueue, Fifo!Put
  <2> QED
    BY <2>2, <2>3
<1>4. CASE Dequeue
  <2>1. Contents' = IF Contents = <<>> THEN Contents ELSE Tail(Contents)
    BY <1>1, <1>4, DequeueLeavesTail DEF Dequeue
  <2>2. dequeued' = IF Contents = <<>> THEN NULL ELSE Head(Contents)
    BY <1>1, <1>4, NextPbufIsHead DEF Dequeue
  <2> QED
    BY <1>4, <2>1, <2>2 DEF Dequeue, Fifo!Take, Fifo!FifoNext
<1>5. CASE GetReadLen
  <2>1. Contents' = Contents
    BY <1>5 DEF GetReadLen, Contents, Size
  <2>2. readLen' = IF Contents = <<>> THEN 0 ELSE PbufLen[Head(Contents)]
    BY <1>1, <1>5, NextPbufIsHead DEF GetReadLen
  <2> QED
    BY <1>5, <2>1, <2>2 DEF GetReadLen, Fifo!Announce, Fifo!FifoNext
<1>6. CASE UNCHANGED vars
  BY <1>6 DEF vars, Contents, Size, Fifo!fifoVars
<1> QED
  BY <1>3, <1>4, <1>5, <1>6 DEF Next, Fifo!FifoNext

\* For every NETCLIENT_QUEUE_SIZE from 1 to 256 and every set of pbufs the ring
\* implements the FIFO of NETCLIENT_QUEUE_SIZE - 1 items: nothing is lost,
\* duplicated, reordered or announced with the wrong length.
THEOREM QueueIsFifo == Spec => ImplementsFifo
<1>1. Init => Fifo!FifoInit
  <2> SUFFICES ASSUME Init PROVE Fifo!FifoInit
    OBVIOUS
  <2>1. TypeOK /\ IsEmpty
    BY TypeOKInit DEF Init, QueueInit, IsEmpty
  <2>2. QueueOK
    BY <2>1 DEF TypeOK
  <2>3. Contents = <<>>
    BY <2>1, <2>2, ContentsType
  <2> QED
    BY <2>3 DEF Init, Fifo!FifoInit
<1>2. TypeOK /\ [Next]_vars => [Fifo!FifoNext]_(Fifo!fifoVars)
  BY FifoStep
<1> QED
  BY <1>1, <1>2, QueueWellFormed, PTL DEF Spec, ImplementsFifo, Fifo!FifoSpec
=============================================================================
