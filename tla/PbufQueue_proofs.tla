-------------------------- MODULE PbufQueue_proofs --------------------------
(***************************************************************************)
(* What the operations of the pbuf ring do to its contents, for every      *)
(* array size.  The arithmetic modulo the size is dealt with once, in the  *)
(* Mod lemmas and SlotArithmetic; everything else reasons about Contents.  *)
(***************************************************************************)
EXTENDS PbufQueue, SequenceTheorems, TLAPS

\* The % of the index computations, on the only arguments it ever gets.
LEMMA ModSmall ==
    ASSUME NEW n \in Nat \ {0}, NEW a \in Nat, a < n
    PROVE  a % n = a
OBVIOUS

\* One subtraction is enough for an index that has passed the end once.
LEMMA ModWrap ==
    ASSUME NEW n \in Nat \ {0}, NEW a \in Nat, n <= a, a < 2 * n
    PROVE  a % n = a - n
OBVIOUS

\* The distance from odx to idx when idx has wrapped and odx has not.
LEMMA ModNegative ==
    ASSUME NEW n \in Nat \ {0}, NEW a \in Int, -n <= a, a < 0
    PROVE  a % n = a + n
OBVIOUS

\* Append and Tail, as the functions they are.
LEMMA AppendAsFunction ==
    ASSUME NEW S, NEW s \in Seq(S), NEW e \in S
    PROVE  Append(s, e) =
             [i \in 1..(Len(s) + 1) |-> IF i = Len(s) + 1 THEN e ELSE s[i]]
<1> DEFINE t == [i \in 1..(Len(s) + 1) |-> IF i = Len(s) + 1 THEN e ELSE s[i]]
<1>1. t \in Seq(S) /\ Len(t) = Len(s) + 1
  OBVIOUS
<1>2. Append(s, e) \in Seq(S) /\ Len(Append(s, e)) = Len(s) + 1
  OBVIOUS
<1>3. \A i \in 1..(Len(s) + 1) : t[i] = Append(s, e)[i]
  OBVIOUS
<1> HIDE DEF t
<1>4. Append(s, e) = t
  BY <1>1, <1>2, <1>3, SeqEqual
<1> QED
  BY <1>4 DEF t

\* The tail is the sequence shifted by one.
LEMMA TailAsFunction ==
    ASSUME NEW S, NEW s \in Seq(S), s # <<>>
    PROVE  Tail(s) = [i \in 1..(Len(s) - 1) |-> s[i + 1]]
<1> DEFINE t == [i \in 1..(Len(s) - 1) |-> s[i + 1]]
<1>1. t \in Seq(S) /\ Len(t) = Len(s) - 1
  <2>1. Len(s) \in Nat /\ Len(s) # 0
    BY EmptySeq
  <2>2. Len(s) - 1 \in Nat
    BY <2>1
  <2>3. \A i \in 1..(Len(s) - 1) : s[i + 1] \in S
    BY <2>1
  <2> QED
    BY <2>1, <2>2, <2>3
<1>2. Tail(s) \in Seq(S) /\ Len(Tail(s)) = Len(s) - 1
  BY HeadTailProperties
<1>3. \A i \in 1..(Len(s) - 1) : t[i] = Tail(s)[i]
  BY HeadTailProperties
<1> HIDE DEF t
<1>4. Tail(s) = t
  BY <1>1, <1>2, <1>3, SeqEqual
<1> QED
  BY <1>4 DEF t

\* The slot that follows a slot, and the 8-bit store that loses nothing.
LEMMA NextSlotCases ==
    ASSUME NEW i \in Slot
    PROVE  /\ NextSlot(i) = IF i + 1 = NETCLIENT_QUEUE_SIZE THEN 0 ELSE i + 1
           /\ NextSlot(i) \in Slot
           /\ Uint8(NextSlot(i)) = NextSlot(i)
<1> DEFINE N == NETCLIENT_QUEUE_SIZE
<1>1. N \in Nat \ {0} /\ N <= 256 /\ i \in Nat /\ i < N
  BY QueueSizeAssumption DEF Slot
<1>2. CASE i + 1 = N
  <2>1. (i + 1) % N = 0
    BY <1>1, <1>2, ModWrap
  <2> QED
    BY <1>1, <1>2, <2>1 DEF NextSlot, Slot, Uint8
<1>3. CASE i + 1 # N
  <2>1. (i + 1) % N = i + 1
    <3> HIDE DEF N
    <3> QED BY <1>1, <1>3, ModSmall
  <2>2. (i + 1) % 256 = i + 1
    BY <1>1, <1>3
  <2> QED
    BY <1>1, <1>3, <2>1, <2>2 DEF NextSlot, Slot, Uint8
<1> QED
  BY <1>2, <1>3

\* The number of slots from o to i, without %.
LEMMA DistanceCases ==
    ASSUME NEW i \in Slot, NEW o \in Slot
    PROVE  /\ (i - o) % NETCLIENT_QUEUE_SIZE =
                 IF o <= i THEN i - o ELSE i - o + NETCLIENT_QUEUE_SIZE
           /\ (i - o) % NETCLIENT_QUEUE_SIZE \in Slot
<1> DEFINE N == NETCLIENT_QUEUE_SIZE
<1>1. N \in Nat \ {0} /\ i \in Nat /\ o \in Nat /\ i < N /\ o < N
  BY QueueSizeAssumption DEF Slot
<1>2. CASE o <= i
  <2>1. (i - o) % N = i - o
    <3> HIDE DEF N
    <3>1. i - o \in Nat /\ i - o < N
      BY <1>1, <1>2
    <3> QED BY <1>1, <3>1, ModSmall
  <2> QED
    BY <1>1, <1>2, <2>1 DEF Slot
<1>3. CASE i < o
  <2>1. (i - o) % N = i - o + N
    <3> HIDE DEF N
    <3>1. i - o \in Int /\ -N <= i - o /\ i - o < 0
      BY <1>1, <1>3
    <3> QED BY <1>1, <3>1, ModNegative
  <2> QED
    BY <1>1, <1>3, <2>1 DEF Slot
<1> QED
  BY <1>1, <1>2, <1>3

\* The slot of the i-th queued pbuf, without %.
LEMMA SlotCases ==
    ASSUME NEW o \in Slot, NEW i \in 0..NETCLIENT_QUEUE_SIZE
    PROVE  /\ (o + i) % NETCLIENT_QUEUE_SIZE =
                 IF o + i < NETCLIENT_QUEUE_SIZE
                 THEN o + i ELSE o + i - NETCLIENT_QUEUE_SIZE
           /\ (o + i) % NETCLIENT_QUEUE_SIZE \in Slot
<1> DEFINE N == NETCLIENT_QUEUE_SIZE
<1>1. N \in Nat \ {0} /\ o \in Nat /\ o < N /\ i \in Nat /\ i <= N
  BY QueueSizeAssumption DEF Slot
<1>2. CASE o + i < N
  <2>1. (o + i) % N = o + i
    <3> HIDE DEF N
    <3>1. o + i \in Nat
      BY <1>1
    <3> QED BY <1>1, <1>2, <3>1, ModSmall
  <2> QED
    BY <1>1, <1>2, <2>1 DEF Slot
<1>3. CASE N <= o + i
  <2>1. (o + i) % N = o + i - N
    <3> HIDE DEF N
    <3> DEFINE a == o + i
    <3>1. a \in Nat /\ a < 2 * N /\ N <= a
      BY <1>1, <1>3
    <3> HIDE DEF a
    <3>2. a % N = a - N
      BY <1>1, <3>1, ModWrap
    <3> QED BY <1>1, <3>1, <3>2 DEF a
  <2> QED
    BY <1>1, <1>3, <2>1 DEF Slot
<1> QED
  BY <1>1, <1>2, <1>3

\* The number of queued pbufs, without %.
LEMMA SizeCases ==
    ASSUME QueueOK
    PROVE  /\ idx \in Slot /\ odx \in Slot /\ Size \in Slot
           /\ Size = IF odx <= idx THEN idx - odx
                                   ELSE idx - odx + NETCLIENT_QUEUE_SIZE
BY DistanceCases DEF QueueOK, Size

\* The contents of a well-formed ring are a sequence of pbufs.
LEMMA ContentsType ==
    ASSUME QueueOK
    PROVE  /\ Contents \in Seq(Pbuf)
           /\ Len(Contents) = Size
           /\ Size \in Slot
           /\ (Contents = <<>>) <=> IsEmpty
<1>1. Size \in Slot /\ Size \in Nat
  BY SizeCases DEF Slot
<1>2. Contents \in Seq(Pbuf) /\ Len(Contents) = Size
  <2>1. \A i \in 1..Size : Contents[i] \in Pbuf
    BY <1>1 DEF QueueOK, Contents
  <2>2. Contents = [i \in 1..Size |-> Contents[i]]
    BY DEF Contents
  <2> HIDE DEF Contents
  <2> QED
    BY <1>1, <2>1, <2>2
<1>3. Size = 0 <=> IsEmpty
  BY SizeCases, QueueSizeAssumption DEF IsEmpty, Slot
<1> QED
  BY <1>1, <1>2, <1>3

\* net_EnqueuePbuf refuses exactly when one slot is left.
LEMMA HasRoomIsSize ==
    ASSUME QueueOK
    PROVE  HasRoom <=> Size < NETCLIENT_QUEUE_SIZE - 1
<1>1. NextSlot(idx) = IF idx + 1 = NETCLIENT_QUEUE_SIZE THEN 0 ELSE idx + 1
  BY SizeCases, NextSlotCases
<1> QED
  BY <1>1, SizeCases, QueueSizeAssumption DEF HasRoom, Slot

\* net_EnqueuePbuf appends to the contents when it has room, and only then.
LEMMA EnqueueAppends ==
    ASSUME QueueOK, NEW pb \in Pbuf, net_EnqueuePbuf(pb)
    PROVE  /\ QueueOK'
           /\ Contents' = IF HasRoom THEN Append(Contents, pb) ELSE Contents
<1> DEFINE N == NETCLIENT_QUEUE_SIZE
<1>0. N \in Nat \ {0} /\ idx \in 0..(N-1) /\ odx \in 0..(N-1)
  BY QueueSizeAssumption DEF QueueOK, Slot
<1>1. CASE ~HasRoom
  BY <1>1 DEF net_EnqueuePbuf, queueVars, QueueOK, Contents, Size
<1>2. CASE HasRoom
  <2>1. /\ idx' = NextSlot(idx) /\ idx' \in Slot /\ odx' = odx
        /\ queue' = [queue EXCEPT ![NextSlot(idx)] = pb]
        /\ NextSlot(idx) = IF idx + 1 = N THEN 0 ELSE idx + 1
    BY <1>2, NextSlotCases DEF net_EnqueuePbuf, QueueOK
  <2>2. Size \in Nat /\ Size < N - 1
    BY <1>2, HasRoomIsSize, SizeCases DEF Slot
  <2>3. Size' = Size + 1
    <3>1. Size' = IF odx' <= idx' THEN idx' - odx' ELSE idx' - odx' + N
      BY <2>1, DistanceCases DEF QueueOK, Size
    <3> QED
      BY <3>1, <2>1, <2>2, <1>0, SizeCases
  <2>4. (odx + (Size + 1)) % N = NextSlot(idx)
    <3>1. Size + 1 \in 0..N
      BY <2>2, <1>0
    <3>2. (odx + (Size + 1)) % N = IF odx + (Size + 1) < N
                                   THEN odx + (Size + 1) ELSE odx + (Size + 1) - N
      BY <3>1, SlotCases DEF QueueOK
    <3> QED
      BY <3>2, <2>1, <2>2, <1>0, SizeCases
  <2>5. \A i \in 1..Size : /\ (odx + i) % N \in Slot
                           /\ (odx + i) % N # NextSlot(idx)
    <3> SUFFICES ASSUME NEW i \in 1..Size
                 PROVE  /\ (odx + i) % N \in Slot
                        /\ (odx + i) % N # NextSlot(idx)
      OBVIOUS
    <3>1. i \in 0..N
      BY <2>2, <1>0
    <3>2. /\ (odx + i) % N = IF odx + i < N THEN odx + i ELSE odx + i - N
          /\ (odx + i) % N \in Slot
      BY <3>1, SlotCases DEF QueueOK
    <3> QED
      BY <3>1, <3>2, <2>1, <2>2, <1>0, SizeCases
  <2>6. queue' \in [Slot -> Pbuf \cup {NULL}]
    BY <2>1 DEF QueueOK
  <2>7. \A i \in 1..Size : queue'[(odx' + i) % N] = queue[(odx + i) % N]
    BY <2>1, <2>5 DEF QueueOK
  <2>8. queue'[(odx' + (Size + 1)) % N] = pb
    <3>1. NextSlot(idx) \in Slot
      BY <2>1
    <3> QED
      BY <2>1, <2>4, <3>1 DEF QueueOK
  <2>9. QueueOK'
    <3> SUFFICES ASSUME NEW i \in 1..(Size + 1)
                 PROVE  queue'[(odx' + i) % N] \in Pbuf
      BY <2>1, <2>3, <2>6 DEF QueueOK
    <3>1. CASE i = Size + 1
      BY <3>1, <2>8
    <3>2. CASE i \in 1..Size
      BY <3>2, <2>7 DEF QueueOK
    <3> QED
      BY <3>1, <3>2, <2>2
  <2>10. Contents' = [i \in 1..(Size + 1) |-> IF i = Size + 1 THEN pb ELSE Contents[i]]
    <3>1. Contents' = [i \in 1..(Size + 1) |-> queue'[(odx' + i) % N]]
      BY <2>3 DEF Contents
    <3>2. ASSUME NEW i \in 1..(Size + 1)
          PROVE  queue'[(odx' + i) % N] = IF i = Size + 1 THEN pb ELSE Contents[i]
      <4>1. CASE i = Size + 1
        BY <4>1, <2>8
      <4>2. CASE i # Size + 1
        <5>1. i \in 1..Size
          BY <4>2, <2>2
        <5> QED
          BY <4>2, <5>1, <2>7 DEF Contents
      <4> QED
        BY <4>1, <4>2
    <3> QED
      BY <3>1, <3>2
  <2>11. Append(Contents, pb) = [i \in 1..(Size + 1) |-> IF i = Size + 1 THEN pb ELSE Contents[i]]
    BY ContentsType, AppendAsFunction
  <2> QED
    BY <1>2, <2>9, <2>10, <2>11
<1> QED
  BY <1>1, <1>2

\* net_DequeuePbuf leaves the tail of the contents, and leaves an empty ring
\* alone.
LEMMA DequeueLeavesTail ==
    ASSUME QueueOK, net_DequeuePbuf
    PROVE  /\ QueueOK'
           /\ Contents' = IF Contents = <<>> THEN Contents ELSE Tail(Contents)
<1> DEFINE N == NETCLIENT_QUEUE_SIZE
<1>0. N \in Nat \ {0} /\ idx \in 0..(N-1) /\ odx \in 0..(N-1)
  BY QueueSizeAssumption DEF QueueOK, Slot
<1>1. CASE IsEmpty
  <2>1. idx' = idx /\ odx' = odx /\ queue' = queue
    BY <1>1 DEF net_DequeuePbuf
  <2>2. QueueOK' /\ Contents' = Contents
    BY <2>1 DEF QueueOK, Contents, Size
  <2> QED
    BY <1>1, <2>2, ContentsType
<1>2. CASE ~IsEmpty
  <2>1. /\ odx' = NextSlot(odx) /\ odx' \in Slot /\ idx' = idx /\ queue' = queue
        /\ NextSlot(odx) = IF odx + 1 = N THEN 0 ELSE odx + 1
    BY <1>2, NextSlotCases DEF net_DequeuePbuf, QueueOK
  <2>2. Size \in Nat /\ 0 < Size /\ Size < N
    BY <1>2, <1>0, SizeCases DEF IsEmpty
  <2>3. Size' = Size - 1
    <3>1. Size' = IF odx' <= idx' THEN idx' - odx' ELSE idx' - odx' + N
      BY <2>1, DistanceCases DEF QueueOK, Size
    <3> QED
      BY <1>2, <3>1, <2>1, <2>2, <1>0, SizeCases DEF IsEmpty
  <2>4. \A i \in 1..(Size - 1) : (odx' + i) % N = (odx + (i + 1)) % N
    <3> SUFFICES ASSUME NEW i \in 1..(Size - 1)
                 PROVE  (odx' + i) % N = (odx + (i + 1)) % N
      OBVIOUS
    <3>1. i \in 0..N /\ i + 1 \in 0..N
      BY <2>2, <1>0
    <3>2. (odx + (i + 1)) % N = IF odx + (i + 1) < N
                                THEN odx + (i + 1) ELSE odx + (i + 1) - N
      BY <3>1, SlotCases DEF QueueOK
    <3>3. (odx' + i) % N = IF odx' + i < N THEN odx' + i ELSE odx' + i - N
      BY <3>1, <2>1, SlotCases
    <3> QED
      BY <3>1, <3>2, <3>3, <2>1, <2>2, <1>0
  <2>5. \A i \in 1..(Size - 1) : queue'[(odx' + i) % N] = Contents[i + 1]
    BY <2>1, <2>2, <2>4 DEF Contents
  <2>6. QueueOK'
    <3> SUFFICES ASSUME NEW i \in 1..(Size - 1)
                 PROVE  queue'[(odx' + i) % N] \in Pbuf
      BY <2>1, <2>3 DEF QueueOK
    <3>1. i + 1 \in 1..Size
      BY <2>2
    <3> QED
      BY <3>1, <2>1, <2>4 DEF QueueOK
  <2>7. Contents' = [i \in 1..(Size - 1) |-> Contents[i + 1]]
    <3>1. Contents' = [i \in 1..(Size - 1) |-> queue'[(odx' + i) % N]]
      BY <2>3 DEF Contents
    <3> QED
      BY <3>1, <2>5
  <2>8. Contents # <<>>
    BY <1>2, ContentsType
  <2>9. Tail(Contents) = [i \in 1..(Size - 1) |-> Contents[i + 1]]
    BY <2>8, ContentsType, TailAsFunction
  <2> QED
    BY <2>6, <2>7, <2>8, <2>9
<1> QED
  BY <1>1, <1>2

\* The pbuf net_DequeuePbuf returns and the length net_GetReadLen returns are
\* those of the head of the contents.
LEMMA NextPbufIsHead ==
    ASSUME QueueOK
    PROVE  /\ NextPbuf = IF Contents = <<>> THEN NULL ELSE Head(Contents)
           /\ net_GetReadLen = IF Contents = <<>> THEN 0 ELSE PbufLen[Head(Contents)]
<1>1. CASE IsEmpty
  BY <1>1, ContentsType DEF NextPbuf, net_GetReadLen
<1>2. CASE ~IsEmpty
  <2>1. Size \in Nat /\ 0 < Size
    BY <1>2, SizeCases, QueueSizeAssumption DEF Slot, IsEmpty
  <2>2. Contents # <<>> /\ Head(Contents) = Contents[1]
    <3>1. Contents \in Seq(Pbuf) /\ Contents # <<>>
      BY <1>2, ContentsType
    <3> QED
      BY <3>1
  <2>3. Contents[1] = queue[NextSlot(odx)]
    BY <2>1 DEF Contents, NextSlot
  <2> QED
    BY <1>2, <2>2, <2>3 DEF NextPbuf, net_GetReadLen
<1> QED
  BY <1>1, <1>2
=============================================================================
