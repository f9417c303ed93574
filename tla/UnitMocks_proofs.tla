-------------------------- MODULE UnitMocks_proofs --------------------------
(***************************************************************************)
(* What the unit tests may rely on, for any set of packet buffers, packet  *)
(* identifiers, types and lengths, and for tests with any bodies.          *)
(***************************************************************************)
EXTENDS UnitMocks, SequenceTheorems, FiniteSetTheorems, TLAPS

\* What a global may point to.
Kept == Pointer \cup {Freed}

\* What the properties need of the mocks' globals and of umqtt's state: which fields
\* there are, and what is in those that are read.
MallocType(m) ==
    /\ DOMAIN m = {"shouldReturn", "count", "in_size"}
    /\ m.shouldReturn \in [0..2 -> Kept] /\ m.count \in Nat
FreeType(f) == f \in [wasCalled : BOOLEAN, in_ptr : Pointer \cup {Freed, Wild}]
ReadType(r) ==
    /\ DOMAIN r = {"wasCalled", "in_hNet", "pBuf", "shouldReturn"}
    /\ r.in_hNet \in {NULL, "hNet"} /\ r.pBuf \in Kept
WriteType(w) ==
    /\ DOMAIN w = {"wasCalled", "in_hNet", "in_pBuf", "in_len", "in_isMore",
                   "shouldReturn", "pCopy", "copyLen"}
    /\ w.in_len \in Uint16 /\ w.pCopy \in Kept
InstanceType(u) ==
    /\ DOMAIN u = {"pktList", "isConnected", "keepAlive"}
    /\ u.pktList \in Seq(Packet)

\* The types of the four mocks.
MocksType == MallocType(malloc) /\ FreeType(free) /\ ReadType(read) /\ WriteType(write)

\* The types of what a test body holds.
TestType ==
    /\ hNet \in {NULL, "hNet"} /\ h \in Pointer \cup {Wild}
    /\ InstanceType(this) /\ held \in Seq(Memory) /\ script \in Seq(Step)
    /\ phase \in {"setup", "reset", "body", "teardown"}

\* In a body no mock has a pointer an earlier test left.
NoneFreed ==
    phase = "body" =>
        /\ \A i \in 0..2 : malloc.shouldReturn[i] # Freed
        /\ read.pBuf # Freed /\ write.pCopy # Freed

\* The inductive invariant.
MocksInv == MocksType /\ TestType /\ NoneFreed /\ CallsAreOfThisTest

-----------------------------------------------------------------------------
(* The operators the model is built from.                                  *)

\* The first match is a match.
LEMMA MinIsMember ==
    ASSUME NEW S \in SUBSET Nat, S # {}
    PROVE  Min(S) \in S
<1> DEFINE Less == {ss \in Nat \X Nat : ss[1] < ss[2]}
<1>1. IsWellFoundedOn(Less, Nat)
  BY NatLessThanWellFounded DEF OpToRel
<1>2. PICK x \in S : \A y \in S : ~ (<<y, x>> \in Less)
  <2> HIDE DEF Less
  <2> QED BY <1>1, WFMin
<1>3. ASSUME NEW y \in S PROVE x <= y
  <2>1. x \in Nat /\ y \in Nat
    OBVIOUS
  <2>2. ~(y < x)
    BY <1>2, <2>1
  <2> QED BY <2>1, <2>2
<1> QED BY <1>3 DEF Min

\* A list after packet k was taken out.
LEMMA RemoveAtProperties ==
    ASSUME NEW S, NEW s \in Seq(S), NEW k \in 1..Len(s)
    PROVE  /\ RemoveAt(s, k) \in Seq(S)
           /\ Len(RemoveAt(s, k)) = Len(s) - 1
           /\ \A i \in 1..(Len(s) - 1) : RemoveAt(s, k)[i] = IF i < k THEN s[i] ELSE s[i + 1]
<1> DEFINE a == SubSeq(s, 1, k - 1)
           b == SubSeq(s, k + 1, Len(s))
<1>1. Len(s) \in Nat /\ \A i \in 1..Len(s) : s[i] \in S
  OBVIOUS
<1>2. a \in Seq(S) /\ Len(a) = k - 1 /\ \A i \in 1..(k - 1) : a[i] = s[i]
  <2>1. \A i \in 1..(k - 1) : s[i] \in S
    BY <1>1
  <2> QED BY <1>1, <2>1, SubSeqProperties
<1>3. b \in Seq(S) /\ Len(b) = Len(s) - k /\ \A i \in 1..(Len(s) - k) : b[i] = s[k + i]
  <2>1. \A i \in (k + 1)..Len(s) : s[i] \in S
    BY <1>1
  <2>2. /\ b \in Seq(S)
        /\ Len(b) = IF k + 1 <= Len(s) THEN Len(s) - (k + 1) + 1 ELSE 0
        /\ \A i \in 1..(Len(s) - (k + 1) + 1) : b[i] = s[k + 1 + i - 1]
    BY <1>1, <2>1, SubSeqProperties
  <2> QED BY <1>1, <2>2
<1> HIDE DEF a, b
<1>4. /\ a \o b \in Seq(S) /\ Len(a \o b) = Len(a) + Len(b)
      /\ \A i \in 1..(Len(a) + Len(b)) :
           (a \o b)[i] = IF i <= Len(a) THEN a[i] ELSE b[i - Len(a)]
  BY <1>2, <1>3, ConcatProperties
<1>5. RemoveAt(s, k) = a \o b
  BY DEF RemoveAt, a, b
<1>6. ASSUME NEW i \in 1..(Len(s) - 1)
      PROVE  (a \o b)[i] = IF i < k THEN s[i] ELSE s[i + 1]
  <2>1. (a \o b)[i] = IF i <= k - 1 THEN a[i] ELSE b[i - (k - 1)]
    BY <1>1, <1>2, <1>3, <1>4
  <2>2. CASE i < k
    BY <1>1, <1>2, <2>1, <2>2
  <2>3. CASE k <= i
    <3>1. i - (k - 1) \in 1..(Len(s) - k) /\ k + (i - (k - 1)) = i + 1
      BY <1>1, <2>3
    <3>2. b[i - (k - 1)] = s[i + 1]
      BY <1>3, <3>1
    <3>3. ~(i <= k - 1) /\ ~(i < k)
      BY <2>3
    <3> QED BY <2>1, <3>2, <3>3
  <2>4. i < k \/ k <= i
    OBVIOUS
  <2> QED BY <2>2, <2>3, <2>4, Zenon
<1>7. Len(a) + Len(b) = Len(s) - 1
  BY <1>1, <1>2, <1>3
<1> QED BY <1>4, <1>5, <1>6, <1>7

\* A list after a packet was put in front.
LEMMA PushProperties ==
    ASSUME NEW S, NEW s \in Seq(S), NEW p \in S
    PROVE  /\ <<p>> \o s \in Seq(S)
           /\ Len(<<p>> \o s) = Len(s) + 1
           /\ \A i \in 1..(Len(s) + 1) : (<<p>> \o s)[i] = IF i = 1 THEN p ELSE s[i - 1]
<1>1. <<p>> \in Seq(S) /\ Len(<<p>>) = 1 /\ <<p>>[1] = p /\ Len(s) \in Nat
  OBVIOUS
<1>2. /\ <<p>> \o s \in Seq(S)
      /\ Len(<<p>> \o s) = Len(<<p>>) + Len(s)
      /\ \A i \in 1..(Len(<<p>>) + Len(s)) :
           (<<p>> \o s)[i] = IF i <= Len(<<p>>) THEN <<p>>[i] ELSE s[i - Len(<<p>>)]
  BY <1>1, ConcatProperties
<1> QED BY <1>1, <1>2

-----------------------------------------------------------------------------
(* The mocks, when no pointer in them is to freed memory.                  *)

\* A mock's globals in a body.
GoodMalloc(m) == MallocType(m) /\ \A i \in 0..2 : m.shouldReturn[i] # Freed
GoodRead(r) == ReadType(r) /\ r.pBuf # Freed
GoodWrite(w) == WriteType(w) /\ w.pCopy # Freed

\* The mocks as their reset functions leave them.
LEMMA ZeroTypes ==
    /\ GoodMalloc(MallocZero) /\ FreeType(FreeZero)
    /\ GoodRead(ReadZero) /\ GoodWrite(WriteZero) /\ InstanceType(NoInstance)
    /\ MallocZero.count = 0 /\ ~FreeZero.wasCalled
    /\ ~ReadZero.wasCalled /\ ~WriteZero.wasCalled
<1>0. NULL \in Kept /\ NULL # Freed /\ NULL \in Pointer
  BY PointerAssumption DEF Kept, Pointer
<1>1. GoodMalloc(MallocZero) /\ MallocZero.count = 0
  BY <1>0 DEF MallocZero, GoodMalloc, MallocType
<1>2. FreeType(FreeZero) /\ ~FreeZero.wasCalled
  BY <1>0 DEF FreeZero, FreeType
<1>3. GoodRead(ReadZero) /\ ~ReadZero.wasCalled
  BY <1>0 DEF ReadZero, GoodRead, ReadType
<1>4. GoodWrite(WriteZero) /\ ~WriteZero.wasCalled
  BY <1>0 DEF WriteZero, GoodWrite, WriteType, Uint16
<1>5. InstanceType(NoInstance)
  BY EmptySeq DEF NoInstance, InstanceType
<1> QED BY <1>1, <1>2, <1>3, <1>4, <1>5

\* The reset functions clear everything.
LEMMA ResetsAreZero ==
    /\ \A m : mock_malloc_Reset(m) = MallocZero
    /\ \A f : mock_free_Reset(f) = FreeZero
    /\ \A w : mock_NetWrite_Reset(w) = WriteZero
    /\ mock_NetRead_Reset = ReadZero
  BY DEF mock_malloc_Reset, mock_free_Reset, mock_NetWrite_Reset, mock_NetRead_Reset

\* mock_malloc gives what was staged, or what lies behind the array.
LEMMA MallocGives ==
    ASSUME NEW m, GoodMalloc(m), NEW size
    PROVE  /\ GoodMalloc(mock_malloc(m, size))
           /\ MallocResult(m) \in Pointer \cup {Wild}
           /\ mock_malloc(m, size).count = m.count + 1
<1>1. GoodMalloc(mock_malloc(m, size)) /\ mock_malloc(m, size).count = m.count + 1
  BY DEF mock_malloc, GoodMalloc, MallocType
<1>2. CASE m.count < 3
  <2>1. m.count \in 0..2
    BY <1>2 DEF GoodMalloc, MallocType
  <2>2. m.shouldReturn[m.count] \in Kept /\ m.shouldReturn[m.count] # Freed
    BY <2>1 DEF GoodMalloc, MallocType
  <2> QED BY <1>1, <1>2, <2>2 DEF MallocResult, Kept
<1>3. CASE ~(m.count < 3)
  BY <1>1, <1>3 DEF MallocResult
<1> QED BY <1>2, <1>3

\* The length mock_NetWrite keeps is cut to a uint16_t.
LEMMA Uint16Type ==
    ASSUME NEW len \in Nat
    PROVE  len % 2^16 \in Uint16
  BY SMT DEF Uint16

\* A write changes what was given, not where it will be copied.
LEMMA WriteTypes ==
    ASSUME GoodWrite(write), NEW buf
    PROVE  GoodWrite(mock_NetWrite(write, buf, PktLen, FALSE))
<1>1. PktLen % 2^16 \in Uint16
  BY PacketAssumption, Uint16Type
<1> QED BY <1>1 DEF mock_NetWrite, GoodWrite, WriteType

\* A read changes neither the packet to read nor its length.
LEMMA ReadTypes ==
    ASSUME GoodRead(read), hNet \in {NULL, "hNet"}
    PROVE  GoodRead(mock_NetRead(read))
  BY DEF mock_NetRead, GoodRead, ReadType

\* mock_free keeps the pointer it was given.
LEMMA FreeTypes ==
    ASSUME NEW ptr \in Pointer \cup {Wild}
    PROVE  FreeType(mock_free(ptr))
  BY DEF mock_free, FreeType

\* A dangling pointer is still one the globals may hold.
LEMMA DanglingType == \A p : Dangling(p) \in Kept
  BY DEF Dangling, Kept, Pointer

\* What a body has to start from.
LEMMA InBody ==
    ASSUME MocksInv, phase = "body"
    PROVE  /\ GoodMalloc(malloc) /\ FreeType(free) /\ GoodRead(read) /\ GoodWrite(write)
           /\ hNet \in {NULL, "hNet"} /\ h \in Pointer \cup {Wild}
           /\ InstanceType(this) /\ held \in Seq(Memory)
  BY DEF MocksInv, MocksType, TestType, NoneFreed, GoodMalloc, GoodRead, GoodWrite

-----------------------------------------------------------------------------
(* umqtt's list of packets.                                                *)

\* A packet put in front of the list.
LEMMA PushTypes ==
    ASSUME InstanceType(this), NEW buf \in Memory, NEW id \in PacketId, NEW t \in Type
    PROVE  InstanceType([this EXCEPT !.pktList = Push(buf, id, t)])
<1> DEFINE p == [buf |-> buf, packetId |-> id, type |-> t]
<1>1. p \in Packet /\ this.pktList \in Seq(Packet)
  BY DEF Packet, InstanceType
<1> HIDE DEF p
<1>2. <<p>> \o this.pktList \in Seq(Packet)
  BY <1>1, PushProperties
<1>3. Push(buf, id, t) = <<p>> \o this.pktList
  BY DEF Push, p
<1> HIDE DEF InstanceType
<1>4. Push(buf, id, t) \in Seq(Packet)
  BY <1>2, <1>3
<1> QED BY <1>4 DEF InstanceType

\* The list without a packet, and the packet that left it.
LEMMA WithoutTypes ==
    ASSUME InstanceType(this), NEW matches \in SUBSET DOMAIN this.pktList
    PROVE  /\ Without(matches) \in Seq(Packet)
           /\ matches # {} => this.pktList[Min(matches)].buf \in Memory
<1>1. this.pktList \in Seq(Packet) /\ DOMAIN this.pktList = 1..Len(this.pktList)
  BY DEF InstanceType
<1>2. CASE matches = {}
  BY <1>1, <1>2 DEF Without
<1>3. CASE matches # {}
  <2>1. matches \in SUBSET Nat
    BY <1>1
  <2>2. Min(matches) \in matches
    BY <1>3, <2>1, MinIsMember
  <2>3. Min(matches) \in 1..Len(this.pktList)
    BY <1>1, <2>2
  <2>4. RemoveAt(this.pktList, Min(matches)) \in Seq(Packet)
    BY <1>1, <2>3, RemoveAtProperties
  <2>5. this.pktList[Min(matches)] \in Packet
    BY <1>1, <2>3
  <2> QED BY <1>3, <2>4, <2>5 DEF Without, Packet
<1> QED BY <1>2, <1>3

\* The packets with an id, or of a type, are packets of the list.
LEMMA MatchesAreListed ==
    /\ \A ids : WithId(ids) \in SUBSET DOMAIN this.pktList
    /\ \A t : WithType(t) \in SUBSET DOMAIN this.pktList
  BY DEF WithId, WithType

\* Taking a packet out leaves an instance.
LEMMA DequeueTypes ==
    ASSUME InstanceType(this), NEW matches \in SUBSET DOMAIN this.pktList, NEW c
    PROVE  /\ InstanceType([this EXCEPT !.pktList = Without(matches)])
           /\ InstanceType([this EXCEPT !.pktList = Without(matches), !.isConnected = c])
<1>1. Without(matches) \in Seq(Packet)
  BY WithoutTypes
<1> QED BY <1>1 DEF InstanceType

\* The next packet of the list, and the list behind it.
LEMMA NextPacket ==
    ASSUME InstanceType(this), this.pktList # <<>>
    PROVE  /\ Head(this.pktList).buf \in Memory
           /\ InstanceType([this EXCEPT !.pktList = Tail(@)])
<1>1. this.pktList \in Seq(Packet)
  BY DEF InstanceType
<1>2. Head(this.pktList) \in Packet /\ Tail(this.pktList) \in Seq(Packet)
  BY <1>1, HeadTailProperties
<1> QED BY <1>2 DEF InstanceType, Packet

-----------------------------------------------------------------------------
(* The steps of a body.                                                     *)

\* What the operation says of its arguments.
LEMMA StepArguments ==
    ASSUME NEW s \in Step
    PROVE  /\ s.op = "stage" => s.bufs \in Seq(Buffer)
           /\ s.op = "copyTo" => s.buf \in Buffer
           /\ s.op = "receive" => s.buf \in Pointer
           /\ s.op \in {"enqueuePacket", "send"} => s.packetId \in PacketId /\ s.type \in Type
  BY DEF Step

\* What a step of a body starts from.
LEMMA Doing ==
    ASSUME MocksInv, NEW op, Do(op)
    PROVE  /\ step \in Step /\ step.op = op /\ script' \in Seq(Step)
           /\ phase = "body" /\ UNCHANGED <<hNet, phase>>
<1>1. script \in Seq(Step) /\ script # <<>> /\ step.op = op /\ script' = Tail(script)
  BY DEF MocksInv, TestType, Do
<1>2. step \in Step /\ script' \in Seq(Step)
  BY <1>1, HeadTailProperties DEF step
<1> QED BY <1>1, <1>2 DEF Do

\* The steps that set up mocks, and the calls of umqtt.
Setting == StageMalloc \/ ResetMocks \/ StageReturn \/ StageCopy \/ StageRead
Wrapped ==
    \/ InstanceNew \/ wrap_newPacket \/ wrap_deletePacket \/ wrap_enqueuePacket
    \/ wrap_dequeuePacketById \/ wrap_dequeuePacketByType
    \/ wrap_setConnected \/ wrap_setKeepAlive
Api ==
    \/ umqtt_Connect \/ Send \/ DecodeConnack \/ DecodeAck \/ DecodePublish
    \/ umqtt_Disconnect \/ RunReceives \/ RunTimed

\* A body keeps to its script.
LEMMA ScriptStep ==
    ASSUME MocksInv, Setting \/ Wrapped \/ Api
    PROVE  script' \in Seq(Step) /\ phase = "body" /\ UNCHANGED <<hNet, phase>>
<1>1. PICK op : Do(op)
  <2>1. CASE Setting
    BY <2>1 DEF Setting, StageMalloc, ResetMocks, StageReturn, StageCopy, StageRead
  <2>2. CASE Wrapped
    BY <2>2 DEF Wrapped, InstanceNew, wrap_newPacket, wrap_deletePacket, wrap_enqueuePacket,
                wrap_dequeuePacketById, wrap_dequeuePacketByType, wrap_setConnected,
                wrap_setKeepAlive
  <2>3. CASE Api
    BY <2>3 DEF Api, umqtt_Connect, Send, DecodeConnack, DecodeAck, DecodePublish,
                umqtt_Disconnect, RunReceives, RunTimed
  <2> QED BY <2>1, <2>2, <2>3
<1> QED BY <1>1, Doing

\* What every step of a body establishes: the mocks are good, and umqtt has what it is
\* to have.
Goal(m, f, r, w, i, u, p) ==
    /\ GoodMalloc(m) /\ FreeType(f) /\ GoodRead(r) /\ GoodWrite(w)
    /\ i \in Pointer \cup {Wild} /\ InstanceType(u) /\ p \in Seq(Memory)

\* Where a step of a body starts.
LEMMA GoalBefore ==
    ASSUME MocksInv, phase = "body"
    PROVE  Goal(malloc, free, read, write, h, this, held)
  BY InBody DEF Goal

\* Setting up a mock never makes it point to freed memory.
LEMMA SettingGoal ==
    ASSUME MocksInv, Setting
    PROVE  Goal(malloc, free, read, write, h, this, held)'
<1>0. phase = "body" /\ Goal(malloc, free, read, write, h, this, held)
  BY ScriptStep, GoalBefore
<1>1. GoodMalloc(malloc) /\ FreeType(free) /\ GoodRead(read) /\ GoodWrite(write)
  BY <1>0 DEF Goal
<1>2. CASE StageMalloc
  <2>1. step \in Step /\ step.op = "stage"
    BY <1>2, Doing DEF StageMalloc
  <2>2. step.bufs \in Seq(Buffer)
    BY <2>1, StepArguments
  <2> DEFINE arr == [i \in 0..2 |-> IF i < Len(step.bufs) THEN step.bufs[i + 1]
                                                           ELSE malloc.shouldReturn[i]]
  <2>3. ASSUME NEW i \in 0..2 PROVE arr[i] \in Kept /\ arr[i] # Freed
    <3>1. malloc.shouldReturn[i] \in Kept /\ malloc.shouldReturn[i] # Freed
      BY <1>1 DEF GoodMalloc, MallocType
    <3>2. CASE i < Len(step.bufs)
      <4>1. step.bufs[i + 1] \in Buffer
        BY <2>2, <3>2
      <4>2. arr[i] = step.bufs[i + 1]
        BY <3>2
      <4> HIDE DEF arr
      <4> QED BY <4>1, <4>2, PointerAssumption DEF Kept, Pointer
    <3> QED BY <3>1, <3>2
  <2>4. arr \in [0..2 -> Kept]
    BY <2>3
  <2>5. malloc' = [malloc EXCEPT !.shouldReturn = arr]
    BY <1>2 DEF StageMalloc
  <2> HIDE DEF arr
  <2>6. GoodMalloc(malloc')
    BY <1>1, <2>3, <2>4, <2>5 DEF GoodMalloc, MallocType
  <2> QED BY <1>0, <1>2, <2>6 DEF StageMalloc, Goal
<1>3. CASE ResetMocks
  <2>1. /\ malloc' \in {malloc, MallocZero} /\ free' \in {free, FreeZero}
        /\ read' \in {read, ReadZero} /\ write' \in {write, WriteZero}
    BY <1>3, ResetsAreZero DEF ResetMocks
  <2>2. GoodMalloc(malloc') /\ FreeType(free') /\ GoodRead(read') /\ GoodWrite(write')
    BY <1>1, <2>1, ZeroTypes
  <2> QED BY <1>0, <1>3, <2>2 DEF ResetMocks, Goal
<1>4. CASE StageReturn
  <2>1. GoodWrite(write')
    BY <1>1, <1>4 DEF StageReturn, GoodWrite, WriteType
  <2> QED BY <1>0, <1>4, <2>1 DEF StageReturn, Goal
<1>5. CASE StageCopy
  <2>1. step \in Step /\ step.op = "copyTo"
    BY <1>5, Doing DEF StageCopy
  <2>2. step.buf \in Kept /\ step.buf # Freed
    BY <2>1, StepArguments, PointerAssumption DEF Kept, Pointer
  <2>3. GoodWrite(write')
    BY <1>1, <1>5, <2>2 DEF StageCopy, GoodWrite, WriteType
  <2> QED BY <1>0, <1>5, <2>3 DEF StageCopy, Goal
<1>6. CASE StageRead
  <2>1. step \in Step /\ step.op = "receive"
    BY <1>6, Doing DEF StageRead
  <2>2. step.buf \in Kept /\ step.buf # Freed
    BY <2>1, StepArguments, PointerAssumption DEF Kept
  <2>3. GoodRead(read')
    BY <1>1, <1>6, <2>2 DEF StageRead, GoodRead, ReadType
  <2> QED BY <1>0, <1>6, <2>3 DEF StageRead, Goal
<1> QED BY <1>2, <1>3, <1>4, <1>5, <1>6 DEF Setting

\* The wrappers hand out and take back live memory.
LEMMA WrappedGoal ==
    ASSUME MocksInv, Wrapped
    PROVE  Goal(malloc, free, read, write, h, this, held)'
<1>0. phase = "body" /\ Goal(malloc, free, read, write, h, this, held)
  BY ScriptStep, GoalBefore
<1>1. /\ GoodMalloc(malloc) /\ FreeType(free) /\ GoodRead(read) /\ GoodWrite(write)
      /\ InstanceType(this) /\ held \in Seq(Memory)
  BY <1>0 DEF Goal
<1>2. Memory \subseteq Pointer \cup {Wild} /\ (Pointer \cup {Wild}) \ {NULL} \subseteq Memory
  BY DEF Memory, Pointer
<1>3. CASE InstanceNew
  <2>1. GoodMalloc(malloc') /\ h' \in Pointer \cup {Wild}
    BY <1>1, <1>3, MallocGives DEF InstanceNew, umqtt_New
  <2> QED BY <1>0, <1>3, <2>1 DEF InstanceNew, Goal
<1>4. CASE wrap_newPacket
  <2>1. GoodMalloc(malloc') /\ MallocResult(malloc) \in Pointer \cup {Wild}
    BY <1>1, <1>4, MallocGives DEF wrap_newPacket
  <2>2. held' \in Seq(Memory)
    <3>1. CASE MallocResult(malloc) = NULL
      BY <1>1, <1>4, <3>1 DEF wrap_newPacket
    <3>2. CASE MallocResult(malloc) # NULL
      <4>1. MallocResult(malloc) \in Memory
        BY <1>2, <2>1, <3>2
      <4>2. held' = Append(held, MallocResult(malloc))
        BY <1>4, <3>2 DEF wrap_newPacket
      <4> QED BY <1>1, <4>1, <4>2, AppendProperties
    <3> QED BY <3>1, <3>2
  <2> QED BY <1>0, <1>4, <2>1, <2>2 DEF wrap_newPacket, Goal
<1>5. CASE wrap_deletePacket
  <2>1. CASE held = <<>>
    BY <1>0, <1>5, <2>1 DEF wrap_deletePacket, Goal
  <2>2. CASE held # <<>>
    <3>1. Head(held) \in Memory /\ Tail(held) \in Seq(Memory)
      BY <1>1, <2>2, HeadTailProperties
    <3>2. held' = Tail(held) /\ free' = mock_free(Head(held))
      BY <1>5, <2>2 DEF wrap_deletePacket
    <3>3. FreeType(free')
      BY <1>2, <3>1, <3>2, FreeTypes
    <3> QED BY <1>0, <1>5, <3>1, <3>2, <3>3 DEF wrap_deletePacket, Goal
  <2> QED BY <2>1, <2>2
<1>6. CASE wrap_enqueuePacket
  <2>1. CASE held = <<>>
    BY <1>0, <1>6, <2>1 DEF wrap_enqueuePacket, Goal, mocks
  <2>2. CASE held # <<>>
    <3>1. Head(held) \in Memory /\ Tail(held) \in Seq(Memory)
      BY <1>1, <2>2, HeadTailProperties
    <3>2. step \in Step /\ step.op = "enqueuePacket"
      BY <1>6, Doing DEF wrap_enqueuePacket
    <3>3. step.packetId \in PacketId /\ step.type \in Type
      BY <3>2, StepArguments
    <3>4. InstanceType(this') /\ held' \in Seq(Memory)
      BY <1>1, <1>6, <2>2, <3>1, <3>3, PushTypes DEF wrap_enqueuePacket
    <3> QED BY <1>0, <1>6, <3>4 DEF wrap_enqueuePacket, Goal, mocks
  <2> QED BY <2>1, <2>2
<1>7. ASSUME NEW matches \in SUBSET DOMAIN this.pktList, Dequeue(matches)
      PROVE  Goal(malloc, free, read, write, h, this, held)'
  <2>1. InstanceType(this')
    BY <1>1, <1>7, DequeueTypes DEF Dequeue
  <2>2. held' \in Seq(Memory)
    <3>1. CASE matches = {}
      BY <1>1, <1>7, <3>1 DEF Dequeue
    <3>2. CASE matches # {}
      <4>1. this.pktList[Min(matches)].buf \in Memory
        BY <1>1, <3>2, WithoutTypes
      <4>2. held' = Append(held, this.pktList[Min(matches)].buf)
        BY <1>7, <3>2 DEF Dequeue
      <4> QED BY <1>1, <4>1, <4>2, AppendProperties
    <3> QED BY <3>1, <3>2
  <2> QED BY <1>0, <1>7, <2>1, <2>2 DEF Dequeue, Goal, mocks
<1>8. CASE wrap_dequeuePacketById
  BY <1>7, <1>8, MatchesAreListed DEF wrap_dequeuePacketById
<1>9. CASE wrap_dequeuePacketByType
  BY <1>7, <1>9, MatchesAreListed DEF wrap_dequeuePacketByType
<1>10. CASE wrap_setConnected \/ wrap_setKeepAlive
  <2>1. InstanceType(this')
    BY <1>1, <1>10 DEF wrap_setConnected, wrap_setKeepAlive, InstanceType
  <2> QED BY <1>0, <1>10, <2>1 DEF wrap_setConnected, wrap_setKeepAlive, Goal, mocks
<1> QED BY <1>3, <1>4, <1>5, <1>6, <1>8, <1>9, <1>10 DEF Wrapped

\* umqtt frees, lists and writes live memory.
LEMMA ApiGoal ==
    ASSUME MocksInv, Api
    PROVE  Goal(malloc, free, read, write, h, this, held)'
<1>0. phase = "body" /\ Goal(malloc, free, read, write, h, this, held)
  BY ScriptStep, GoalBefore
<1>1. /\ GoodMalloc(malloc) /\ FreeType(free) /\ GoodRead(read) /\ GoodWrite(write)
      /\ InstanceType(this) /\ hNet \in {NULL, "hNet"} /\ read.pBuf \in Pointer
  <2>1. read.pBuf \in Kept /\ read.pBuf # Freed
    BY <1>0 DEF Goal, GoodRead, ReadType
  <2> QED BY <1>0, <2>1, InBody DEF Goal, Kept
<1>2. Memory \subseteq Pointer \cup {Wild} /\ (Pointer \cup {Wild}) \ {NULL} \subseteq Memory
  BY DEF Memory, Pointer
<1> DEFINE first == MallocResult(malloc)
           once == mock_malloc(malloc, PacketSize)
<1>3. GoodMalloc(once) /\ first \in Pointer \cup {Wild}
  BY <1>1, MallocGives
<1>4. CASE umqtt_Connect
  <2> DEFINE second == MallocResult(once)
             idle == ~this.isConnected /\ WithType(CONNECT) = {}
  <2>1. UNCHANGED <<h, held>>
    BY <1>4 DEF umqtt_Connect
  <2>2. CASE ~idle
    BY <1>0, <1>4, <2>1, <2>2 DEF umqtt_Connect, Goal, mocks
  <2>3. CASE idle /\ first = NULL
    <3>1. malloc' = once /\ UNCHANGED <<free, read, write, this>>
      BY <1>4, <2>3 DEF umqtt_Connect
    <3> QED BY <1>0, <1>3, <2>1, <3>1 DEF Goal
  <2>4. CASE idle /\ first # NULL
    <3>1. /\ second # NULL /\ malloc' = mock_malloc(once, PacketSize)
          /\ write' = mock_NetWrite(write, first, PktLen, FALSE)
          /\ free' = mock_free(IF Sent THEN first ELSE second)
          /\ this' = IF Sent THEN [this EXCEPT !.pktList = Push(second, 0, CONNECT)] ELSE this
          /\ UNCHANGED read
      BY <1>4, <2>4 DEF umqtt_Connect
    <3>2. GoodMalloc(malloc') /\ second \in Pointer \cup {Wild}
      BY <1>3, <3>1, MallocGives
    <3>3. GoodWrite(write')
      BY <1>1, <3>1, WriteTypes
    <3>4. FreeType(free')
      BY <1>3, <3>1, <3>2, FreeTypes
    <3>5. second \in Memory
      BY <1>2, <3>1, <3>2
    <3>6. InstanceType(this')
      BY <1>1, <3>1, <3>5, PushTypes, PacketAssumption
    <3> QED BY <1>0, <2>1, <3>1, <3>2, <3>3, <3>4, <3>6 DEF Goal
  <2> QED BY <2>2, <2>3, <2>4
<1>5. CASE Send
  <2> DEFINE listed == Sent /\ step.packetId # 0
  <2>1. malloc' = once /\ UNCHANGED <<read, h, held>>
    BY <1>5 DEF Send
  <2>2. CASE first = NULL
    BY <1>0, <1>3, <1>5, <2>1, <2>2 DEF Send, Goal
  <2>3. CASE first # NULL
    <3>1. /\ write' = mock_NetWrite(write, first, PktLen, FALSE)
          /\ free' = IF listed THEN free ELSE mock_free(first)
          /\ this' = IF listed
                       THEN [this EXCEPT !.pktList = Push(first, step.packetId, step.type)]
                       ELSE this
      BY <1>5, <2>3 DEF Send
    <3>2. step \in Step /\ step.op = "send"
      BY <1>5, Doing DEF Send
    <3>3. step.packetId \in PacketId /\ step.type \in Type
      BY <3>2, StepArguments
    <3>4. first \in Memory
      BY <1>2, <1>3, <2>3
    <3>5. GoodWrite(write')
      BY <1>1, <3>1, WriteTypes
    <3>6. FreeType(free')
      BY <1>1, <1>3, <3>1, FreeTypes
    <3>7. InstanceType(this')
      BY <1>1, <3>1, <3>3, <3>4, PushTypes
    <3> QED BY <1>0, <1>3, <2>1, <3>5, <3>6, <3>7 DEF Goal
  <2> QED BY <2>2, <2>3
<1>6. ASSUME NEW matches \in SUBSET DOMAIN this.pktList, NEW c, Acknowledged(matches, c)
      PROVE  Goal(malloc, free, read, write, h, this, held)'
  <2>1. InstanceType(this')
    BY <1>1, <1>6, DequeueTypes DEF Acknowledged
  <2>2. FreeType(free')
    <3>1. CASE matches = {}
      BY <1>1, <1>6, <3>1 DEF Acknowledged
    <3>2. CASE matches # {}
      <4>1. this.pktList[Min(matches)].buf \in Pointer \cup {Wild}
        BY <1>1, <1>2, <3>2, WithoutTypes
      <4> QED BY <1>6, <3>2, <4>1, FreeTypes DEF Acknowledged
    <3> QED BY <3>1, <3>2
  <2> QED BY <1>0, <1>6, <2>1, <2>2 DEF Acknowledged, Goal
<1>7. CASE DecodeConnack
  BY <1>6, <1>7, MatchesAreListed DEF DecodeConnack
<1>8. CASE DecodeAck
  BY <1>6, <1>8, MatchesAreListed DEF DecodeAck
<1>9. CASE DecodePublish \/ umqtt_Disconnect
  <2>1. GoodWrite(write')
    BY <1>1, <1>9, WriteTypes DEF DecodePublish, umqtt_Disconnect, Write
  <2>2. InstanceType(this')
    BY <1>1, <1>9 DEF DecodePublish, umqtt_Disconnect, InstanceType
  <2> QED BY <1>0, <1>9, <2>1, <2>2 DEF DecodePublish, umqtt_Disconnect, Goal
<1>10. CASE RunReceives
  <2>1. GoodRead(read') /\ FreeType(free')
    BY <1>1, <1>10, ReadTypes, FreeTypes DEF RunReceives
  <2>2. InstanceType(this')
    BY <1>1, <1>10, MatchesAreListed, DequeueTypes DEF RunReceives
  <2> QED BY <1>0, <1>10, <2>1, <2>2 DEF RunReceives, Goal
<1>11. CASE RunTimed
  <2>1. GoodRead(read') /\ UNCHANGED <<malloc, h, held>>
    BY <1>1, <1>11, ReadTypes DEF RunTimed
  <2>2. CASE UNCHANGED <<free, this>> /\ \E buf :
               write' \in {write, mock_NetWrite(write, buf, PktLen, FALSE)}
    <3>1. GoodWrite(write')
      BY <1>1, <2>2, WriteTypes
    <3> QED BY <1>0, <2>1, <2>2, <3>1 DEF Goal
  <2>3. CASE /\ this.pktList # <<>> /\ this' = [this EXCEPT !.pktList = Tail(@)]
             /\ free' = mock_free(Head(this.pktList).buf) /\ UNCHANGED write
    <3>1. Head(this.pktList).buf \in Pointer \cup {Wild} /\ InstanceType(this')
      BY <1>1, <1>2, <2>3, NextPacket
    <3>2. FreeType(free')
      BY <2>3, <3>1, FreeTypes
    <3> QED BY <1>0, <2>1, <2>3, <3>1, <3>2 DEF Goal
  <2> QED BY <1>11, <2>2, <2>3 DEF RunTimed
<1> QED BY <1>4, <1>5, <1>7, <1>8, <1>9, <1>10, <1>11 DEF Api

-----------------------------------------------------------------------------
(* Every step keeps the invariant.                                         *)

\* The types, and that a body meets no freed memory.
LEMMA TypesStep ==
    ASSUME MocksInv, Next
    PROVE  MocksType' /\ TestType' /\ NoneFreed'
<1>0. /\ MallocType(malloc) /\ FreeType(free) /\ ReadType(read) /\ WriteType(write)
      /\ TestType
  BY DEF MocksInv, MocksType
<1>1. CASE Setting \/ Wrapped \/ Api
  <2>1. Goal(malloc, free, read, write, h, this, held)'
    BY <1>1, SettingGoal, WrappedGoal, ApiGoal
  <2>2. script' \in Seq(Step) /\ UNCHANGED <<hNet, phase>>
    BY <1>1, ScriptStep
  <2>3. MocksType' /\ NoneFreed'
    BY <2>1 DEF Goal, GoodMalloc, GoodRead, GoodWrite, MocksType, NoneFreed
  <2> QED BY <1>0, <2>1, <2>2, <2>3 DEF Goal, TestType
<1>2. CASE SetupNew
  <2>1. PICK instBuf \in {"instBuf", NULL} :
          umqtt_New([mock_malloc_Reset(malloc) EXCEPT !.shouldReturn[0] = instBuf])
    BY <1>2 DEF SetupNew
  <2> DEFINE m == [MallocZero EXCEPT !.shouldReturn[0] = instBuf]
  <2>2. instBuf \in Kept /\ instBuf # Freed
    BY PointerAssumption DEF Kept, Pointer, Buffer
  <2>3. GoodMalloc(m)
    BY <2>2, ZeroTypes DEF GoodMalloc, MallocType
  <2>4. umqtt_New(m)
    BY <2>1, ResetsAreZero
  <2> HIDE DEF m
  <2>5. GoodMalloc(malloc') /\ h' \in Pointer \cup {Wild}
    BY <2>3, <2>4, MallocGives DEF umqtt_New
  <2>6. phase' \in {"teardown", "reset"} /\ hNet' = "hNet" /\ this' = NoInstance
    BY <1>2 DEF SetupNew
  <2>7. MocksType'
    BY <1>0, <1>2, <2>5 DEF SetupNew, MocksType, GoodMalloc
  <2>8. TestType'
    BY <1>0, <1>2, <2>5, <2>6, ZeroTypes DEF SetupNew, TestType
  <2> QED BY <2>6, <2>7, <2>8 DEF NoneFreed
<1>3. CASE SetupReset \/ SetupInstance
  <2>1. /\ malloc' = MallocZero /\ free' = FreeZero
        /\ read' = ReadZero /\ write' = WriteZero
    BY <1>3, ResetsAreZero DEF SetupReset, SetupInstance
  <2>2. MocksType' /\ NoneFreed'
    BY <2>1, ZeroTypes DEF MocksType, NoneFreed, GoodMalloc, GoodRead, GoodWrite
  <2>3. /\ script' \in Seq(Step) /\ phase' \in {"body", "teardown"}
        /\ hNet' \in {NULL, "hNet"} /\ UNCHANGED <<h, this, held>>
    BY <1>0, <1>3, BodiesAssumption DEF SetupReset, SetupInstance, TestType
  <2> QED BY <1>0, <2>2, <2>3 DEF TestType
<1>4. CASE BodyEnds
  <2>1. script' \in Seq(Step)
    BY <1>4, EmptySeq DEF BodyEnds
  <2> QED BY <1>0, <1>4, <2>1 DEF BodyEnds, mocks, MocksType, TestType, NoneFreed
<1>5. CASE TearDown
  <2>1. MallocType(malloc')
    <3>1. malloc' = [malloc EXCEPT !.shouldReturn =
                        [i \in 0..2 |-> Dangling(malloc.shouldReturn[i])]]
      BY <1>5 DEF TearDown
    <3>2. [i \in 0..2 |-> Dangling(malloc.shouldReturn[i])] \in [0..2 -> Kept]
      BY DanglingType
    <3> QED BY <1>0, <3>1, <3>2 DEF MallocType
  <2>2. FreeType(free')
    <3>1. Dangling(free.in_ptr) \in Pointer \cup {Freed, Wild}
      BY DanglingType DEF Kept
    <3> QED BY <1>0, <1>5, <3>1 DEF TearDown, FreeType
  <2>3. ReadType(read')
    BY <1>0, <1>5, DanglingType DEF TearDown, ReadType
  <2>4. WriteType(write')
    BY <1>0, <1>5, DanglingType DEF TearDown, WriteType
  <2>5. TestType'
    BY <1>0, <1>5, ZeroTypes, EmptySeq DEF TearDown, TestType, Pointer
  <2> QED BY <1>5, <2>1, <2>2, <2>3, <2>4, <2>5 DEF TearDown, MocksType, NoneFreed
<1> QED BY <1>1, <1>2, <1>3, <1>4, <1>5 DEF Next, Setting, Wrapped, Api

\* A mock that was called in a body was called in this test: the set-up clears all
\* flags before the body, and every call of a body is noted.
LEMMA CallsStep ==
    ASSUME MocksInv, Next
    PROVE  CallsAreOfThisTest'
<1>0. /\ MallocType(malloc) /\ FreeType(free) /\ ReadType(read) /\ WriteType(write)
      /\ CallsAreOfThisTest
  BY DEF MocksInv, MocksType
<1>1. CASE SetupNew \/ BodyEnds \/ TearDown
  BY <1>1 DEF SetupNew, BodyEnds, TearDown, CallsAreOfThisTest
<1>2. CASE SetupReset \/ SetupInstance
  <2>1. /\ malloc' = MallocZero /\ free' = FreeZero
        /\ read' = ReadZero /\ write' = WriteZero
    BY <1>2, ResetsAreZero DEF SetupReset, SetupInstance
  <2> QED BY <2>1, ZeroTypes DEF CallsAreOfThisTest
<1>3. CASE Setting
  <2>0. UNCHANGED <<phase, called>>
    BY <1>3, ScriptStep DEF Setting, StageMalloc, ResetMocks, StageReturn, StageCopy, StageRead
  <2>1. CASE StageMalloc
    <3>1. malloc'.count = malloc.count /\ UNCHANGED <<free, read, write>>
      BY <1>0, <2>1 DEF StageMalloc, MallocType
    <3> QED BY <1>0, <2>0, <3>1 DEF CallsAreOfThisTest
  <2>2. CASE ResetMocks
    <3>1. /\ malloc' \in {malloc, MallocZero} /\ free' \in {free, FreeZero}
          /\ read' \in {read, ReadZero} /\ write' \in {write, WriteZero}
      BY <2>2, ResetsAreZero DEF ResetMocks
    <3> QED BY <1>0, <2>0, <3>1, ZeroTypes DEF CallsAreOfThisTest
  <2>3. CASE StageReturn \/ StageCopy
    <3>1. write'.wasCalled = write.wasCalled /\ UNCHANGED <<malloc, free, read>>
      BY <1>0, <2>3 DEF StageReturn, StageCopy, WriteType
    <3> QED BY <1>0, <2>0, <3>1 DEF CallsAreOfThisTest
  <2>4. CASE StageRead
    <3>1. read'.wasCalled = read.wasCalled /\ UNCHANGED <<malloc, free, write>>
      BY <1>0, <2>4 DEF StageRead, ReadType
    <3> QED BY <1>0, <2>0, <3>1 DEF CallsAreOfThisTest
  <2> QED BY <1>3, <2>1, <2>2, <2>3, <2>4 DEF Setting
<1>4. CASE Wrapped \/ Api
  <2>1. /\ called \subseteq called'
        /\ malloc' = malloc \/ "malloc" \in called'
        /\ free' = free \/ "free" \in called'
        /\ read' = read \/ "read" \in called'
        /\ write' = write \/ "write" \in called'
    <3>1. CASE Wrapped
      <4>1. CASE wrap_dequeuePacketById \/ wrap_dequeuePacketByType
        BY <4>1 DEF wrap_dequeuePacketById, wrap_dequeuePacketByType, Dequeue, mocks
      <4>2. CASE InstanceNew \/ wrap_newPacket \/ wrap_deletePacket
        BY <4>2 DEF InstanceNew, wrap_newPacket, wrap_deletePacket
      <4>3. CASE wrap_enqueuePacket \/ wrap_setConnected \/ wrap_setKeepAlive
        BY <4>3 DEF wrap_enqueuePacket, wrap_setConnected, wrap_setKeepAlive, mocks
      <4> QED BY <3>1, <4>1, <4>2, <4>3 DEF Wrapped
    <3>2. CASE umqtt_Connect
      BY <3>2 DEF umqtt_Connect, mocks
    <3>3. CASE Send
      BY <3>3 DEF Send
    <3>4. CASE DecodeConnack \/ DecodeAck
      BY <3>4 DEF DecodeConnack, DecodeAck, Acknowledged
    <3>5. CASE DecodePublish \/ umqtt_Disconnect
      BY <3>5 DEF DecodePublish, umqtt_Disconnect, Write
    <3>6. CASE RunReceives \/ RunTimed
      BY <3>6 DEF RunReceives, RunTimed
    <3> QED BY <1>4, <3>1, <3>2, <3>3, <3>4, <3>5, <3>6 DEF Api
  <2>2. UNCHANGED phase
    BY <1>4, ScriptStep
  <2> QED BY <1>0, <2>1, <2>2 DEF CallsAreOfThisTest
<1> QED BY <1>1, <1>2, <1>3, <1>4 DEF Next, Setting, Wrapped, Api

\* When the program starts all globals are zero.
LEMMA MocksInvInit == Init => MocksInv
<1> SUFFICES ASSUME Init PROVE MocksInv
  OBVIOUS
<1>1. MocksType
  BY ZeroTypes DEF Init, MocksType, GoodMalloc, GoodRead, GoodWrite
<1>2. TestType
  BY ZeroTypes, EmptySeq DEF Init, TestType, Pointer
<1> QED BY <1>1, <1>2 DEF Init, MocksInv, NoneFreed, CallsAreOfThisTest

\* Every step keeps the invariant.
LEMMA MocksInvStep == MocksInv /\ [Next]_vars => MocksInv'
<1> SUFFICES ASSUME MocksInv, [Next]_vars PROVE MocksInv'
  OBVIOUS
<1>1. CASE Next
  BY <1>1, TypesStep, CallsStep DEF MocksInv
<1>2. CASE UNCHANGED vars
  <2>1. MocksType' /\ TestType'
    BY <1>2 DEF vars, mocks, MocksInv, MocksType, TestType
  <2>2. NoneFreed' /\ CallsAreOfThisTest'
    BY <1>2 DEF vars, mocks, MocksInv, NoneFreed, CallsAreOfThisTest
  <2> QED BY <2>1, <2>2 DEF MocksInv
<1> QED BY <1>1, <1>2

-----------------------------------------------------------------------------
\* The globals keep their types through every sequence of tests, whatever their bodies
\* stage, reset and call.
THEOREM UnitMocksTypes == Spec => []TypeOK
<1>1. MocksInv => TypeOK
  <2> SUFFICES ASSUME MocksInv PROVE TypeOK
    OBVIOUS
  <2>1. MallocType(malloc) /\ FreeType(free) /\ ReadType(read) /\ WriteType(write) /\ TestType
    BY DEF MocksInv, MocksType
  <2>2. malloc.shouldReturn \in [0..2 -> Kept] /\ malloc.count \in Nat
    BY <2>1 DEF MallocType
  <2>3. free \in [wasCalled : BOOLEAN, in_ptr : Pointer \cup {Freed, Wild}]
    BY <2>1 DEF FreeType
  <2>4. read.pBuf \in Kept /\ read.in_hNet \in {NULL, "hNet"}
    BY <2>1 DEF ReadType
  <2>5. write.pCopy \in Kept /\ write.in_len \in Uint16
    BY <2>1 DEF WriteType
  <2>6. /\ this.pktList \in Seq(Packet) /\ held \in Seq(Memory)
        /\ phase \in {"setup", "reset", "body", "teardown"}
    BY <2>1 DEF TestType, InstanceType
  <2> QED BY <2>2, <2>3, <2>4, <2>5, <2>6 DEF Kept, TypeOK
<1> QED BY <1>1, MocksInvInit, MocksInvStep, PTL DEF Spec

\* A body never meets a buffer of an earlier test, although every tear-down leaves
\* dangling pointers in the mocks and a set-up may be cut short, and whatever the
\* bodies do.
THEOREM BodiesUseLiveMemory == Spec => []OnlyLiveMemory
<1>1. MocksInv => OnlyLiveMemory
  <2> SUFFICES ASSUME MocksInv, phase = "body"
               PROVE  Freed \notin {h, write.pCopy, read.pBuf} \cup Staged \cup Held \cup Listed
    BY DEF OnlyLiveMemory
  <2>1. /\ GoodMalloc(malloc) /\ GoodRead(read) /\ GoodWrite(write)
        /\ h \in Pointer \cup {Wild} /\ InstanceType(this) /\ held \in Seq(Memory)
    BY InBody
  <2>2. Freed \notin Pointer \cup {Wild} /\ Freed \notin Memory
    BY PointerAssumption DEF Memory, Pointer
  <2>3. Freed \notin {h, write.pCopy, read.pBuf} \cup Staged
    BY <2>1, <2>2 DEF GoodMalloc, GoodRead, GoodWrite, Staged
  <2>4. \A i \in DOMAIN held : held[i] \in Memory
    BY <2>1
  <2>5. \A i \in DOMAIN this.pktList : this.pktList[i].buf \in Memory
    <3>1. \A i \in DOMAIN this.pktList : this.pktList[i] \in Packet
      BY <2>1 DEF InstanceType
    <3> QED BY <3>1 DEF Packet
  <2> QED BY <2>2, <2>3, <2>4, <2>5 DEF Held, Listed
<1> QED BY <1>1, MocksInvInit, MocksInvStep, PTL DEF Spec

\* What a body learns from the mocks' flags happened in its own test.
THEOREM FlagsAreOfThisTest == Spec => []CallsAreOfThisTest
<1>1. MocksInv => CallsAreOfThisTest
  BY DEF MocksInv
<1> QED BY <1>1, MocksInvInit, MocksInvStep, PTL DEF Spec
=============================================================================
